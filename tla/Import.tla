------------------------------- MODULE Import -------------------------------
(***************************************************************************)
(* Loading libraries: file_importer of src/src/import.c, run_libfile,      *)
(* read_and_run_file and export of src/src/run.c, and the import function  *)
(* of builtins.ö.                                                          *)
(*                                                                         *)
(* Importing runs the imported file, which may import in turn; a library   *)
(* enters the cache when its file has run to its end.  A path is what      *)
(* get_import_path makes of a name and the importing file; several paths   *)
(* may lead to one file.  loading is the stack of the files and the export *)
(* blocks being run.                                                       *)
(***************************************************************************)
EXTENDS Naturals, Sequences, FiniteSets

CONSTANTS
  Paths,       \* absolute paths that programs import
  Files,       \* the files there are
  NoFile,
  FileAt,      \* FileAt[p]: the file at path p, or NoFile
  Main,        \* the main file, or the REPL
  MayImport,   \* MayImport[f]: the paths that the code of file f imports
  Vars,        \* names of variables
  MaxDepth,    \* imports and exports under way before a run fails with too much
               \* recursion
  MaxSteps,    \* bound of the model: statements executed in all
  MaxLibs      \* bound of the model: libraries ever created

ASSUME ImportAssumption ==
  /\ NoFile \notin Files /\ Main \notin Files /\ "none" \notin Paths
  /\ FileAt \in [Paths -> Files \cup {NoFile}]
  /\ MayImport \in [Files \cup {Main} -> SUBSET Paths]
  /\ MaxDepth \in Nat \ {0} /\ MaxSteps \in Nat /\ MaxLibs \in Nat

VARIABLES
  loading,   \* the files and export blocks being run, the main file first
  outcome,   \* what the statement that the last of them executes gave
  cache,     \* interp->importstuff.filelibcache
  libs,      \* the Library objects, each with the variables of the scope of its
             \* file; private are those that were defined outside export, during
             \* the paths being loaded when the run of its file began (histories)
  steps      \* statements executed

vars == << loading, outcome, cache, libs, steps >>

LibIds == 1 .. MaxLibs
NoLib == 0
Unused ==
  [path |-> "none", state |-> "unused", vars |-> {}, private |-> {}, attribs |-> {},
   during |-> {}]
NewLibrary(p, ps) == [Unused EXCEPT !.path = p, !.state = "running", !.during = ps]

Top == loading[Len(loading)]
Below == SubSeq(loading, 1, Len(loading) - 1)
Running == loading # << >> /\ outcome = "none"
FileRun(f, path, lib) ==
  [kind |-> "file", file |-> f, path |-> path, lib |-> lib, before |-> {}]

\* a statement of the last file or block
Statement == Running /\ steps < MaxSteps /\ steps' = steps + 1
-----------------------------------------------------------------------------
Init ==
  /\ loading = << >>
  /\ outcome = "none"
  /\ cache = [p \in Paths |-> NoLib]
  /\ libs = [l \in LibIds |-> Unused]
  /\ steps = 0

\* run_mainfile, or another line of the REPL
StartMain ==
  /\ loading = << >>
  /\ loading' = << FileRun(Main, "none", NoLib) >>
  /\ UNCHANGED << outcome, cache, libs, steps >>

NotRemembered(p, l) == cache
Remembered(p, l) == [cache EXCEPT ![p] = l]
PathsLoading == {loading[i].path : i \in DOMAIN loading} \ {"none"}

\* file_importer finds the path in the cache; the Option for it may fail
ImportCached(p) ==
  /\ Statement /\ p \in MayImport[Top.file]
  /\ cache[p] # NoLib
  /\ outcome' \in {"none", "fail"}
  /\ UNCHANGED << loading, cache, libs >>

\* no such file: file_importer gives none, and no other importer knows it
ImportMissing(p) ==
  /\ Statement /\ p \in MayImport[Top.file]
  /\ cache[p] = NoLib /\ FileAt[p] = NoFile
  /\ outcome' = "fail"
  /\ UNCHANGED << loading, cache, libs >>

NeverTooDeep == FALSE
BeyondLimit == Len(loading) > MaxDepth
TooDeep == BeyondLimit

\* a new Library and a new run of the file; the cache has to wait
CacheMeanwhile(p, l) == NotRemembered(p, l)

ImportRuns(p) ==
  /\ Statement /\ p \in MayImport[Top.file]
  /\ cache[p] = NoLib /\ FileAt[p] # NoFile
  /\ ~TooDeep
  /\ \E l \in LibIds :
       /\ libs[l] = Unused /\ \A k \in LibIds : libs[k] = Unused => l <= k
       /\ libs' = [libs EXCEPT ![l] = NewLibrary(p, PathsLoading)]
       /\ cache' = CacheMeanwhile(p, l)
       /\ loading' = Append(loading, FileRun(FileAt[p], p, l))
  /\ UNCHANGED outcome

\* stack_push fails for the first statement of the file
ImportTooDeep(p) ==
  /\ Statement /\ p \in MayImport[Top.file]
  /\ cache[p] = NoLib /\ FileAt[p] # NoFile
  /\ TooDeep
  /\ outcome' = "fail"
  /\ UNCHANGED << loading, cache, libs >>

\* Code of a library's file defines a variable in the scope of the file: the
\* file's own statements, a block of export, or a block that a function of
\* the file runs in that scope later.
Exporting(l) == \E i \in DOMAIN loading : loading[i].kind = "export" /\ loading[i].lib = l

Define(l, v) ==
  /\ Statement /\ libs[l].state # "unused"
  /\ libs' = [libs EXCEPT ![l].vars = @ \cup {v},
                          ![l].private = @ \cup (IF Exporting(l) THEN {} ELSE {v} \ libs[l].vars)]
  /\ UNCHANGED << loading, outcome, cache >>

(***************************************************************************)
(* export_cfunc: what is in the scope when its block has run, and was not  *)
(* there before, becomes an attribute of the library.  A function of the   *)
(* file may call export too, also when the file has long been run.         *)
(***************************************************************************)
AlreadyExported(l) == libs[l].attribs
Snapshot(l) == libs[l].vars

\* oldvars is filled, then the block runs
Export(l) ==
  /\ Statement /\ libs[l].state # "unused"
  /\ ~TooDeep
  /\ loading' = Append(loading, [kind |-> "export", file |-> FileAt[libs[l].path],
                                 path |-> "none", lib |-> l, before |-> Snapshot(l)])
  /\ UNCHANGED << outcome, cache, libs >>

\* oldvars cannot be made, or the block's first statement does not fit on the stack
ExportNotRun(l) ==
  /\ Statement /\ libs[l].state # "unused"
  /\ outcome' = "fail"
  /\ UNCHANGED << loading, cache, libs >>

NewVars == libs[Top.lib].vars \ Top.before
InExport == loading # << >> /\ Top.kind = "export"

ExportEnds ==
  /\ InExport /\ outcome = "none"
  /\ loading' = Below
  /\ libs' = [libs EXCEPT ![Top.lib].attribs = @ \cup NewVars]
  /\ UNCHANGED << outcome, cache, steps >>

\* setting an attribute fails: those set before it stay
ExportStops ==
  /\ InExport /\ outcome = "none"
  /\ loading' = Below
  /\ outcome' = "fail"
  /\ \E vs \in SUBSET NewVars : libs' = [libs EXCEPT ![Top.lib].attribs = @ \cup vs]
  /\ UNCHANGED << cache, steps >>

\* the block throws: what it defined stays a variable, and no attribute is set
ExportFails ==
  /\ InExport
  /\ loading' = Below
  /\ outcome' = "fail"
  /\ UNCHANGED << cache, libs, steps >>

\* a statement catches the error of what it called
Catch ==
  /\ loading # << >> /\ outcome = "fail"
  /\ outcome' = "none"
  /\ UNCHANGED << loading, cache, libs, steps >>

(***************************************************************************)
(* The end of a run.                                                       *)
(***************************************************************************)
EndMain ==
  /\ Len(loading) = 1
  /\ loading' = << >>
  /\ outcome' = "none"
  /\ UNCHANGED << cache, libs, steps >>

InLibrary == Len(loading) > 1 /\ Top.kind = "file"

\* the file cannot be read, decoded or parsed, or a statement failed
RunFails ==
  /\ InLibrary
  /\ loading' = Below
  /\ outcome' = "fail"
  /\ libs' = [libs EXCEPT ![Top.lib].state = "failed"]
  /\ UNCHANGED << cache, steps >>

Cached(p, l) == Remembered(p, l)

\* The library is cached; then making the Option of it that import returns
\* may still fail.
RunSucceeds ==
  /\ InLibrary /\ outcome = "none"
  /\ loading' = Below
  /\ cache' = Cached(Top.path, Top.lib)
  /\ libs' = [libs EXCEPT ![Top.lib].state = "done"]
  /\ outcome' \in {"none", "fail"}
  /\ UNCHANGED steps
-----------------------------------------------------------------------------
Importing ==
  \E p \in Paths : ImportCached(p) \/ ImportMissing(p) \/ ImportRuns(p) \/ ImportTooDeep(p)
Defining == \E l \in LibIds : Export(l) \/ ExportNotRun(l) \/ \E v \in Vars : Define(l, v)
ExportDone == ExportEnds \/ ExportStops \/ ExportFails
Ending == Catch \/ EndMain \/ RunFails \/ RunSucceeds

Next == StartMain \/ Importing \/ Defining \/ ExportDone \/ Ending

Spec == Init /\ [][Next]_vars
-----------------------------------------------------------------------------
(***************************************************************************)
(* Properties.                                                             *)
(***************************************************************************)

Runs ==
  [ kind : {"file", "export"}, file : Files \cup {Main}, path : Paths \cup {"none"},
    lib : LibIds \cup {NoLib}, before : SUBSET Vars ]
Libraries ==
  [ path : Paths \cup {"none"}, state : {"unused", "running", "done", "failed"},
    vars : SUBSET Vars, private : SUBSET Vars, attribs : SUBSET Vars,
    during : SUBSET Paths ]

TypeOK ==
  /\ loading \in Seq(Runs) /\ Len(loading) <= MaxDepth + 1
  /\ outcome \in {"none", "fail"}
  /\ cache \in [Paths -> LibIds \cup {NoLib}]
  /\ libs \in [LibIds -> Libraries]
  /\ steps \in 0 .. MaxSteps

\* A library in the cache has been run to its end, at that path: no import
\* ever gives a library that is still being loaded or that failed.
CachedMeansComplete ==
  \A p \in Paths :
    cache[p] # NoLib => libs[cache[p]].state = "done" /\ libs[cache[p]].path = p

\* "it'll be loaded only once, even if you have many other files that need"
\* it (docs/importing.md:75): a file that did not fail is run again for the
\* same path only by a circular import, while it is still being loaded.
LoadedOnceUnlessCircular ==
  \A k, l \in LibIds :
    k < l /\ libs[k].path = libs[l].path /\ libs[l].path \in Paths
      /\ libs[k].state # "failed" /\ libs[l].state # "failed"
    => libs[l].path \in libs[l].during

\* "variables defined outside `export` are not added to the Library object"
\* (docs/importing.md:32): not by an export that assigns to them later, nor by
\* one whose block exports or imports in turn, nor by one that fails half-way.
PrivateStaysPrivate ==
  \A l \in LibIds : libs[l].attribs \cap libs[l].private = {}
=============================================================================
