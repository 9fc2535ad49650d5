----------------------------- MODULE MCImport -----------------------------
(* Instances of Import for TLC. *)
EXTENDS Import

ThreePaths == {"/x.ö", "/y.ö", "/z.ö"}
FilesOfPaths == [p \in ThreePaths |-> IF p = "/z.ö" THEN "none" ELSE p]
TwoFiles == {"/x.ö", "/y.ö"}

\* every file imports everything but itself: x and y import each other
Cyclic == [f \in TwoFiles \cup {"main"} |-> ThreePaths \ {f}]
=============================================================================
