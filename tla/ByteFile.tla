------------------------------ MODULE ByteFile ------------------------------
(***************************************************************************)
(* What docs/std/io.md promises of a FileLike: a content, a position in it *)
(* that reading and writing advance, and nothing after close.              *)
(***************************************************************************)
EXTENDS Integers, Sequences, FiniteSetsExt

CONSTANTS
  Byte,      \* the bytes
  MaxLength  \* bound of the model: the length of the content

VARIABLES content, pos, closed
byteFile == << content, pos, closed >>

\* bytes replaces what is in the content from at on
Overwritten(bytes, at) ==
  [i \in 1 .. Max({Len(content), at + Len(bytes)}) |->
     IF i \in at + 1 .. at + Len(bytes) THEN bytes[i - at] ELSE content[i]]

Init == content \in UNION {[1 .. n -> Byte] : n \in 0 .. MaxLength} /\ pos = 0 /\ closed = FALSE

Read(n) == pos' = Min({pos + n, Len(content)}) /\ UNCHANGED << content, closed >>
Write(bytes) ==
  content' = Overwritten(bytes, pos) /\ pos' = pos + Len(bytes) /\ UNCHANGED closed
Seek(p) == pos' = p /\ UNCHANGED << content, closed >>
Close == closed' = TRUE /\ UNCHANGED << content, pos >>

Next ==
  /\ ~closed
  /\ \/ \E n \in 0 .. MaxLength : Read(n)
     \/ \E p \in 0 .. Len(content) : Seek(p)
     \/ \E n \in 0 .. MaxLength : \E bytes \in [1 .. n -> Byte] : Write(bytes)
     \/ Close
Spec == Init /\ [][Next]_byteFile
=============================================================================
