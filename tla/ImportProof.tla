---------------------------- MODULE ImportProof ----------------------------
(***************************************************************************)
(* Proofs about Import, for every file system and import graph: the type   *)
(* invariant, that only complete libraries are cached, that what a file    *)
(* keeps private is never exported, and that a file is loaded once.        *)
(***************************************************************************)
EXTENDS Import, TLAPS

\* Every file being run, but the main one, fills a library of its own; an
\* export block belongs to some library; libraries have files.
Fills(r, ls) ==
  /\ r.lib \in LibIds /\ r.path \in Paths
  /\ ls[r.lib].state = "running" /\ ls[r.lib].path = r.path
Exports(r, ls) == r.lib \in LibIds /\ ls[r.lib].state # "unused"

OwnLibraries(ld, ls) ==
  /\ \A i \in DOMAIN ld :
       IF i = 1 THEN ld[i].kind = "file"
       ELSE IF ld[i].kind = "file" THEN Fills(ld[i], ls) ELSE Exports(ld[i], ls)
  /\ \A i, j \in DOMAIN ld :
       i # j /\ i # 1 /\ j # 1 /\ ld[i].kind = "file" /\ ld[j].kind = "file"
       => ld[i].lib # ld[j].lib
  /\ \A l \in LibIds :
       ls[l].state # "unused" => ls[l].path \in Paths /\ FileAt[ls[l].path] \in Files

\* What is private was never exported, and every snapshot under way has it.
PrivateParts(ls) ==
  \A l \in LibIds : /\ ls[l].attribs \cap ls[l].private = {}
                    /\ ls[l].attribs \subseteq ls[l].vars
                    /\ ls[l].private \subseteq ls[l].vars
SnapshotsHave(ld, ls) ==
  \A i \in DOMAIN ld :
    ld[i].kind = "export" => \A l \in LibIds : l = ld[i].lib => ls[l].private \subseteq ld[i].before

\* The inductive invariant.
IInv ==
  /\ TypeOK /\ CachedMeansComplete /\ OwnLibraries(loading, libs)
  /\ PrivateParts(libs) /\ SnapshotsHave(loading, libs)

\* The interpreter starts with an empty cache.
LEMMA InitInv == Init => IInv
<1> SUFFICES ASSUME Init PROVE IInv
  OBVIOUS
<1>1. Unused \in Libraries
  BY DEF Libraries, Unused
<1>2. TypeOK
  BY <1>1, ImportAssumption DEF Init, TypeOK, LibIds, NoLib
<1>3. PrivateParts(libs) /\ SnapshotsHave(loading, libs)
  BY DEF Init, PrivateParts, SnapshotsHave, Unused
<1> QED BY <1>2, <1>3 DEF Init, IInv, CachedMeansComplete, OwnLibraries, Unused

\* libs' has the libraries of libs, perhaps with other variables.
SameLibraries ==
  /\ libs' \in [LibIds -> Libraries]
  /\ \A l \in LibIds : libs'[l].state = libs[l].state /\ libs'[l].path = libs[l].path

\* A step that runs and ends no file keeps the cache and the stack right.
LEMMA QuietStep ==
  ASSUME IInv, SameLibraries, cache' = cache, outcome' \in {"none", "fail"},
         steps' \in 0 .. MaxSteps, loading' = loading \/ (loading # << >> /\ loading' = Below)
  PROVE  TypeOK' /\ CachedMeansComplete' /\ OwnLibraries(loading, libs)'
<1>0. TypeOK /\ CachedMeansComplete /\ OwnLibraries(loading, libs)
  BY DEF IInv
<1>1. PICK k \in Nat : k = Len(loading) /\ DOMAIN loading = 1 .. k /\ loading \in Seq(Runs)
  BY <1>0 DEF TypeOK
<1>2. PICK m \in Nat : /\ m <= k /\ loading' \in Seq(Runs) /\ Len(loading') = m
                       /\ DOMAIN loading' = 1 .. m
                       /\ \A i \in 1 .. m : i \in 1 .. k /\ loading'[i] = loading[i]
  <2>1. CASE loading' = loading
    BY <1>1, <2>1
  <2>2. CASE loading # << >> /\ loading' = Below
    <3>1. k - 1 \in Nat /\ k - 1 <= k
      BY <1>1, <2>2
    <3>2. /\ loading' \in Seq(Runs) /\ Len(loading') = k - 1 /\ DOMAIN loading' = 1 .. k - 1
          /\ \A i \in 1 .. k - 1 : i \in 1 .. k /\ loading'[i] = loading[i]
      BY <1>1, <2>2, <3>1 DEF Below
    <3> QED BY <3>1, <3>2
  <2> QED BY <2>1, <2>2
<1>3. TypeOK'
  BY <1>0, <1>1, <1>2, ImportAssumption DEF TypeOK, SameLibraries
<1>4. CachedMeansComplete'
  BY <1>0 DEF CachedMeansComplete, TypeOK, SameLibraries
<1>5. OwnLibraries(loading, libs)'
  <2>1. \A r : (Fills(r, libs) => Fills(r, libs')) /\ (Exports(r, libs) => Exports(r, libs'))
    BY DEF SameLibraries, Fills, Exports
  <2>2. \A l \in LibIds :
          libs'[l].state # "unused" => libs'[l].path \in Paths /\ FileAt[libs'[l].path] \in Files
    BY <1>0 DEF OwnLibraries, SameLibraries
  <2> QED BY <1>0, <1>1, <1>2, <2>1, <2>2 DEF OwnLibraries
<1> QED BY <1>3, <1>4, <1>5

\* A statement is counted.
LEMMA Counted ==
  ASSUME TypeOK, Statement
  PROVE  steps' \in 0 .. MaxSteps
BY ImportAssumption DEF TypeOK, Statement

\* Statements that only read the cache, or fail.
LEMMA ReadingInv ==
  ASSUME IInv, loading' = loading, cache' = cache, libs' = libs,
         outcome' \in {"none", "fail"}, steps' \in 0 .. MaxSteps
  PROVE  IInv'
<1>1. SameLibraries
  BY DEF IInv, TypeOK, SameLibraries
<1>2. TypeOK' /\ CachedMeansComplete' /\ OwnLibraries(loading, libs)'
  BY <1>1, QuietStep
<1>3. PrivateParts(libs)' /\ SnapshotsHave(loading, libs)'
  BY DEF IInv, PrivateParts, SnapshotsHave
<1> QED BY <1>2, <1>3 DEF IInv

\* Only outside export does a new variable become private: it is in no
\* snapshot under way, because there is none.
LEMMA DefineInv ==
  ASSUME IInv, NEW l \in LibIds, NEW v \in Vars, Define(l, v)
  PROVE  IInv'
<1>0. TypeOK /\ PrivateParts(libs) /\ SnapshotsHave(loading, libs)
  BY DEF IInv
<1> DEFINE more == IF Exporting(l) THEN {} ELSE {v} \ libs[l].vars
           new == [libs[l] EXCEPT !.vars = @ \cup {v}, !.private = @ \cup more]
<1>1. libs \in [LibIds -> Libraries] /\ libs[l] \in Libraries
  BY <1>0 DEF TypeOK
<1>2. libs' = [libs EXCEPT ![l] = new]
  BY <1>1 DEF Define
<1>3. more \subseteq {v} /\ more \cap libs[l].vars = {} /\ (Exporting(l) => more = {})
  OBVIOUS
<1> HIDE DEF more
<1>4. /\ new \in Libraries
      /\ new.state = libs[l].state /\ new.path = libs[l].path
      /\ new.attribs = libs[l].attribs
      /\ new.vars = libs[l].vars \cup {v} /\ new.private = libs[l].private \cup more
  BY <1>1, <1>3 DEF Libraries
<1> HIDE DEF new
<1>5. libs'[l] = new /\ \A k \in LibIds : k # l => libs'[k] = libs[k]
  BY <1>1, <1>2
<1>6. SameLibraries
  BY <1>1, <1>2, <1>4, <1>5 DEF SameLibraries
<1>7. /\ loading' = loading /\ cache' = cache /\ outcome' \in {"none", "fail"}
      /\ steps' \in 0 .. MaxSteps
  BY <1>0, Counted DEF Define, TypeOK
<1>8. TypeOK' /\ CachedMeansComplete' /\ OwnLibraries(loading, libs)'
  BY <1>6, <1>7, QuietStep
<1>9. PrivateParts(libs)'
  BY <1>0, <1>3, <1>4, <1>5 DEF PrivateParts
<1>10. SnapshotsHave(loading, libs)'
  <2> SUFFICES ASSUME NEW i \in DOMAIN loading, loading[i].kind = "export",
                      NEW k \in LibIds, k = loading[i].lib
               PROVE  libs'[k].private \subseteq loading[i].before
    BY <1>7 DEF SnapshotsHave
  <2>1. libs[k].private \subseteq loading[i].before
    BY <1>0 DEF SnapshotsHave
  <2>2. k = l => more = {}
    BY <1>3 DEF Exporting
  <2> QED BY <1>4, <1>5, <2>1, <2>2
<1> QED BY <1>8, <1>9, <1>10 DEF IInv

\* An activation is put on top of the stack.
LEMMA Pushed ==
  ASSUME TypeOK, loading # << >>, NEW r \in Runs, loading' = Append(loading, r)
  PROVE  \E k \in Nat \ {0} :
           /\ k = Len(loading) /\ DOMAIN loading = 1 .. k
           /\ loading' \in Seq(Runs) /\ Len(loading') = k + 1 /\ DOMAIN loading' = 1 .. k + 1
           /\ \A i \in 1 .. k : loading'[i] = loading[i]
           /\ loading'[k + 1] = r
<1>1. PICK k \in Nat \ {0} : k = Len(loading) /\ DOMAIN loading = 1 .. k /\ loading \in Seq(Runs)
  BY DEF TypeOK
<1> QED BY <1>1

\* An export block begins: its snapshot has all that is in the scope.
LEMMA ExportInv ==
  ASSUME IInv, NEW l \in LibIds, Export(l)
  PROVE  IInv'
<1>0. /\ TypeOK /\ CachedMeansComplete /\ OwnLibraries(loading, libs)
      /\ PrivateParts(libs) /\ SnapshotsHave(loading, libs)
  BY DEF IInv
<1>1. /\ libs[l] \in Libraries /\ libs[l].state # "unused"
      /\ loading # << >> /\ ~(Len(loading) > MaxDepth)
      /\ libs' = libs /\ cache' = cache /\ outcome' = outcome
  BY <1>0 DEF Export, Statement, Running, TooDeep, BeyondLimit, TypeOK
<1> DEFINE r == [kind |-> "export", file |-> FileAt[libs[l].path], path |-> "none", lib |-> l,
                 before |-> Snapshot(l)]
<1>2. r \in Runs
  <2>1. FileAt[libs[l].path] \in Files \cup {Main}
    BY <1>0, <1>1 DEF OwnLibraries
  <2> QED BY <1>1, <2>1 DEF Runs, Libraries, Snapshot
<1>3. r.kind = "export" /\ r.lib = l /\ r.before = libs[l].vars /\ loading' = Append(loading, r)
  BY DEF Export, Snapshot
<1> HIDE DEF r
<1>4. PICK k \in Nat \ {0} :
        /\ k = Len(loading) /\ DOMAIN loading = 1 .. k
        /\ loading' \in Seq(Runs) /\ Len(loading') = k + 1 /\ DOMAIN loading' = 1 .. k + 1
        /\ \A i \in 1 .. k : loading'[i] = loading[i]
        /\ loading'[k + 1] = r
  BY <1>0, <1>1, <1>2, <1>3, Pushed
<1>5. steps' \in 0 .. MaxSteps
  BY <1>0, Counted DEF Export
<1>6. TypeOK'
  BY <1>0, <1>1, <1>4, <1>5, ImportAssumption DEF TypeOK
<1>7. CachedMeansComplete'
  BY <1>0, <1>1 DEF CachedMeansComplete
<1>8. OwnLibraries(loading, libs)'
  BY <1>0, <1>1, <1>3, <1>4 DEF OwnLibraries, Exports
<1>9. PrivateParts(libs)' /\ SnapshotsHave(loading, libs)'
  BY <1>0, <1>1, <1>3, <1>4 DEF PrivateParts, SnapshotsHave
<1> QED BY <1>6, <1>7, <1>8, <1>9 DEF IInv

\* A run begins: it fills a new library, which is not in the cache yet.
LEMMA RunsInv ==
  ASSUME IInv, NEW p \in Paths, ImportRuns(p)
  PROVE  IInv'
<1>0. /\ TypeOK /\ CachedMeansComplete /\ OwnLibraries(loading, libs)
      /\ PrivateParts(libs) /\ SnapshotsHave(loading, libs)
  BY DEF IInv
<1> DEFINE new == NewLibrary(p, PathsLoading)
           r(l) == FileRun(FileAt[p], p, l)
<1>1. PICK l \in LibIds :
        /\ libs[l] = Unused
        /\ libs' = [libs EXCEPT ![l] = new]
        /\ cache' = cache
        /\ loading' = Append(loading, r(l))
        /\ loading # << >> /\ ~(Len(loading) > MaxDepth)
        /\ outcome' = outcome
  BY DEF ImportRuns, Statement, Running, CacheMeanwhile, NotRemembered, TooDeep, BeyondLimit
<1>2. FileAt[p] \in Files
  BY ImportAssumption DEF ImportRuns
<1>3. PathsLoading \subseteq Paths
  <2>1. loading \in Seq(Runs)
    BY <1>0 DEF TypeOK
  <2>2. \A i \in DOMAIN loading : loading[i] \in Runs
    BY <2>1
  <2> QED BY <2>2 DEF PathsLoading, Runs
<1>4. /\ new \in Libraries
      /\ new.path = p /\ new.state = "running"
      /\ new.vars = {} /\ new.private = {} /\ new.attribs = {}
  BY <1>3 DEF NewLibrary, Unused, Libraries
<1>5. r(l) \in Runs /\ r(l).kind = "file" /\ r(l).lib = l /\ r(l).path = p
  BY <1>2, ImportAssumption DEF FileRun, Runs
<1> HIDE DEF r, new
<1>6. PICK k \in Nat \ {0} :
        /\ k = Len(loading) /\ DOMAIN loading = 1 .. k
        /\ loading' \in Seq(Runs) /\ Len(loading') = k + 1 /\ DOMAIN loading' = 1 .. k + 1
        /\ \A i \in 1 .. k : loading'[i] = loading[i]
        /\ loading'[k + 1] = r(l)
  BY <1>0, <1>1, <1>5, Pushed
<1>7. /\ libs \in [LibIds -> Libraries] /\ libs' \in [LibIds -> Libraries]
      /\ libs'[l] = new /\ \A m \in LibIds : m # l => libs'[m] = libs[m]
      /\ libs[l].state = "unused"
  BY <1>0, <1>1, <1>4 DEF TypeOK, Unused
<1>8. steps' \in 0 .. MaxSteps
  BY <1>0, Counted DEF ImportRuns
<1>9. TypeOK'
  BY <1>0, <1>1, <1>6, <1>7, <1>8, ImportAssumption DEF TypeOK
<1>10. CachedMeansComplete'
  BY <1>0, <1>1, <1>7 DEF CachedMeansComplete, TypeOK
<1>11. OwnLibraries(loading, libs)'
  <2>1. ASSUME NEW i \in 1 .. k, i # 1
        PROVE  /\ loading[i].lib # l
               /\ IF loading'[i].kind = "file" THEN Fills(loading'[i], libs')
                                               ELSE Exports(loading'[i], libs')
    BY <1>0, <1>6, <1>7, <2>1 DEF OwnLibraries, Fills, Exports
  <2>2. Fills(loading'[k + 1], libs')
    BY <1>4, <1>5, <1>6, <1>7 DEF Fills
  <2>3. loading'[1].kind = "file" /\ 1 \in 1 .. k
    BY <1>0, <1>6 DEF OwnLibraries
  <2>4. \A i \in 1 .. k + 1 : i \in 1 .. k \/ i = k + 1
    BY <1>6
  <2>5. \A i \in DOMAIN loading' :
          IF i = 1 THEN loading'[i].kind = "file"
          ELSE IF loading'[i].kind = "file" THEN Fills(loading'[i], libs')
                                            ELSE Exports(loading'[i], libs')
    BY <1>5, <1>6, <2>1, <2>2, <2>3, <2>4
  <2>6. \A i, j \in DOMAIN loading' :
          i # j /\ i # 1 /\ j # 1 /\ loading'[i].kind = "file" /\ loading'[j].kind = "file"
          => loading'[i].lib # loading'[j].lib
    <3>1. \A i, j \in 1 .. k :
            i # j /\ i # 1 /\ j # 1 /\ loading[i].kind = "file" /\ loading[j].kind = "file"
            => loading[i].lib # loading[j].lib
      BY <1>0, <1>6 DEF OwnLibraries
    <3> QED BY <1>5, <1>6, <2>1, <2>4, <3>1
  <2>7. \A m \in LibIds :
          libs'[m].state # "unused" => libs'[m].path \in Paths /\ FileAt[libs'[m].path] \in Files
    BY <1>0, <1>2, <1>4, <1>7 DEF OwnLibraries
  <2> QED BY <2>5, <2>6, <2>7 DEF OwnLibraries
<1>12. PrivateParts(libs)'
  BY <1>0, <1>4, <1>7 DEF PrivateParts
<1>13. SnapshotsHave(loading, libs)'
  BY <1>0, <1>4, <1>5, <1>6, <1>7 DEF SnapshotsHave
<1> QED BY <1>9, <1>10, <1>11, <1>12, <1>13 DEF IInv

\* The last activation is gone; the ones below it are as before.
LEMMA Popped ==
  ASSUME TypeOK, loading # << >>, loading' = Below
  PROVE  \E k \in Nat \ {0} :
           /\ k = Len(loading) /\ DOMAIN loading = 1 .. k /\ Top = loading[k] /\ Top \in Runs
           /\ loading' \in Seq(Runs) /\ Len(loading') = k - 1 /\ DOMAIN loading' = 1 .. k - 1
           /\ \A i \in 1 .. k - 1 : i \in 1 .. k /\ i # k /\ loading'[i] = loading[i]
<1>1. PICK k \in Nat \ {0} : k = Len(loading) /\ DOMAIN loading = 1 .. k /\ loading \in Seq(Runs)
  BY DEF TypeOK
<1>2. /\ loading' \in Seq(Runs) /\ Len(loading') = k - 1 /\ DOMAIN loading' = 1 .. k - 1
      /\ \A i \in 1 .. k - 1 : i \in 1 .. k /\ i # k /\ loading'[i] = loading[i]
  BY <1>1 DEF Below
<1>3. Top = loading[k] /\ Top \in Runs
  BY <1>1 DEF Top
<1> QED BY <1>1, <1>2, <1>3

\* Whichever of the new variables an export adds: none was in its snapshot,
\* so none is private.
LEMMA ExportDoneInv ==
  ASSUME IInv, ExportDone
  PROVE  IInv'
<1>0. /\ TypeOK /\ OwnLibraries(loading, libs)
      /\ PrivateParts(libs) /\ SnapshotsHave(loading, libs)
  BY DEF IInv
<1>1. /\ loading # << >> /\ Top.kind = "export" /\ loading' = Below /\ cache' = cache
      /\ outcome' \in {"none", "fail"} /\ steps' \in 0 .. MaxSteps
  BY <1>0 DEF ExportDone, ExportEnds, ExportStops, ExportFails, InExport, TypeOK
<1>2. PICK k \in Nat \ {0} :
        /\ k = Len(loading) /\ DOMAIN loading = 1 .. k /\ Top = loading[k] /\ Top \in Runs
        /\ loading' \in Seq(Runs) /\ Len(loading') = k - 1 /\ DOMAIN loading' = 1 .. k - 1
        /\ \A i \in 1 .. k - 1 : i \in 1 .. k /\ i # k /\ loading'[i] = loading[i]
  BY <1>0, <1>1, Popped
<1>3. Top.lib \in LibIds /\ libs \in [LibIds -> Libraries] /\ libs[Top.lib] \in Libraries
  <2>1. k \in DOMAIN loading /\ Top.kind # "file"
    BY <1>1, <1>2
  <2>2. Exports(Top, libs)
    BY <1>0, <1>2, <2>1 DEF OwnLibraries
  <2> QED BY <1>0, <2>2 DEF Exports, TypeOK
<1>4. PICK vs \in SUBSET NewVars :
        libs' = [libs EXCEPT ![Top.lib].attribs = @ \cup vs] \/ (libs' = libs /\ vs = {})
  BY DEF ExportDone, ExportEnds, ExportStops, ExportFails
<1> DEFINE new == [libs[Top.lib] EXCEPT !.attribs = @ \cup vs]
<1>5. NewVars = libs[Top.lib].vars \ Top.before /\ NewVars \subseteq Vars
  BY <1>3 DEF NewVars, Libraries
<1>6. /\ new \in Libraries /\ new.state = libs[Top.lib].state /\ new.path = libs[Top.lib].path
      /\ new.vars = libs[Top.lib].vars /\ new.private = libs[Top.lib].private
      /\ new.attribs = libs[Top.lib].attribs \cup vs
  BY <1>3, <1>4, <1>5 DEF Libraries
<1>7. \/ libs' = libs
      \/ libs'[Top.lib] = new /\ libs' \in [LibIds -> Libraries]
         /\ \A l \in LibIds : l # Top.lib => libs'[l] = libs[l]
  <2>1. libs' = libs \/ libs' = [libs EXCEPT ![Top.lib] = new]
    BY <1>3, <1>4
  <2> QED BY <1>3, <1>6, <2>1
<1> HIDE DEF new
<1>8. SameLibraries
  BY <1>3, <1>6, <1>7 DEF SameLibraries
<1>9. TypeOK' /\ CachedMeansComplete' /\ OwnLibraries(loading, libs)'
  BY <1>1, <1>8, QuietStep
<1>10. libs[Top.lib].private \subseteq Top.before
  <2>1. k \in DOMAIN loading
    BY <1>2
  <2> QED BY <1>0, <1>1, <1>2, <1>3, <2>1 DEF SnapshotsHave
<1>11. PrivateParts(libs)'
  BY <1>0, <1>3, <1>4, <1>5, <1>6, <1>7, <1>10 DEF PrivateParts
<1>12. \A l \in LibIds : libs'[l].private = libs[l].private
  BY <1>6, <1>7
<1>13. SnapshotsHave(loading, libs)'
  BY <1>0, <1>2, <1>12 DEF SnapshotsHave
<1> QED BY <1>9, <1>11, <1>13 DEF IInv

\* A run ends: its library is complete, or failed; it is nobody else's.
LEMMA EndInv ==
  ASSUME IInv, RunFails \/ RunSucceeds
  PROVE  IInv'
<1>0. /\ TypeOK /\ CachedMeansComplete /\ OwnLibraries(loading, libs)
      /\ PrivateParts(libs) /\ SnapshotsHave(loading, libs)
  BY DEF IInv
<1>1. PICK st \in {"done", "failed"} :
        /\ Len(loading) > 1 /\ Top.kind = "file"
        /\ loading' = Below
        /\ libs' = [libs EXCEPT ![Top.lib].state = st]
        /\ outcome' \in {"none", "fail"} /\ steps' = steps
        /\ \/ cache' = cache
           \/ st = "done" /\ cache' = [cache EXCEPT ![Top.path] = Top.lib]
  BY DEF RunFails, RunSucceeds, InLibrary, Cached, Remembered
<1>2. loading # << >>
  BY <1>0, <1>1 DEF TypeOK
<1>3. PICK k \in Nat \ {0} :
        /\ k = Len(loading) /\ DOMAIN loading = 1 .. k /\ Top = loading[k] /\ Top \in Runs
        /\ loading' \in Seq(Runs) /\ Len(loading') = k - 1 /\ DOMAIN loading' = 1 .. k - 1
        /\ \A i \in 1 .. k - 1 : i \in 1 .. k /\ i # k /\ loading'[i] = loading[i]
  BY <1>0, <1>1, <1>2, Popped
<1>4. k \in 1 .. k /\ k # 1 /\ Fills(Top, libs)
  BY <1>0, <1>1, <1>3 DEF OwnLibraries
<1> DEFINE new == [libs[Top.lib] EXCEPT !.state = st]
<1>5. /\ libs \in [LibIds -> Libraries] /\ Top.lib \in LibIds /\ Top.path \in Paths
      /\ libs[Top.lib].state = "running" /\ libs[Top.lib].path = Top.path
      /\ libs[Top.lib] \in Libraries
  BY <1>0, <1>4 DEF TypeOK, Fills
<1>6. /\ new \in Libraries /\ new.state = st /\ new.path = Top.path
      /\ new.vars = libs[Top.lib].vars /\ new.private = libs[Top.lib].private
      /\ new.attribs = libs[Top.lib].attribs
  BY <1>5 DEF Libraries
<1>7. /\ libs' \in [LibIds -> Libraries]
      /\ libs'[Top.lib] = new /\ \A l \in LibIds : l # Top.lib => libs'[l] = libs[l]
  BY <1>1, <1>5, <1>6
<1> HIDE DEF new
<1>8. cache' \in [Paths -> LibIds \cup {NoLib}]
  BY <1>0, <1>1, <1>5 DEF TypeOK
<1>9. TypeOK'
  BY <1>0, <1>1, <1>3, <1>7, <1>8, ImportAssumption DEF TypeOK
<1>10. CachedMeansComplete'
  <2> SUFFICES ASSUME NEW p \in Paths, cache'[p] # NoLib
               PROVE  libs'[cache'[p]].state = "done" /\ libs'[cache'[p]].path = p
    BY DEF CachedMeansComplete
  <2>1. CASE cache'[p] = cache[p]
    <3>1. /\ cache[p] \in LibIds /\ libs[cache[p]].state = "done" /\ libs[cache[p]].path = p
      BY <1>0, <2>1 DEF CachedMeansComplete, TypeOK
    <3>2. cache[p] # Top.lib
      BY <1>5, <3>1
    <3> QED BY <1>7, <2>1, <3>1, <3>2
  <2>2. CASE cache'[p] # cache[p]
    <3>1. st = "done" /\ p = Top.path /\ cache'[p] = Top.lib
      BY <1>0, <1>1, <2>2 DEF TypeOK
    <3> QED BY <1>5, <1>6, <1>7, <3>1
  <2> QED BY <2>1, <2>2
<1>11. OwnLibraries(loading, libs)'
  <2>1. \A i, j \in 1 .. k :
          i # j /\ i # 1 /\ j # 1 /\ loading[i].kind = "file" /\ loading[j].kind = "file"
          => loading[i].lib # loading[j].lib
    BY <1>0, <1>3 DEF OwnLibraries
  <2>2. ASSUME NEW i \in 1 .. k - 1
        PROVE  IF i = 1 THEN loading'[i].kind = "file"
               ELSE IF loading'[i].kind = "file" THEN Fills(loading'[i], libs')
                                                 ELSE Exports(loading'[i], libs')
    <3>1. i \in 1 .. k /\ i # k /\ loading'[i] = loading[i]
      BY <1>3
    <3>2. IF i = 1 THEN loading[i].kind = "file"
          ELSE IF loading[i].kind = "file" THEN Fills(loading[i], libs)
                                           ELSE Exports(loading[i], libs)
      BY <1>0, <1>3, <3>1 DEF OwnLibraries
    <3>3. CASE i # 1 /\ loading[i].kind = "file"
      <4>1. loading[i].lib # Top.lib
        BY <1>1, <1>3, <1>4, <2>1, <3>1, <3>3
      <4> QED BY <1>7, <3>1, <3>2, <3>3, <4>1 DEF Fills
    <3>4. CASE i # 1 /\ loading[i].kind # "file"
      BY <1>6, <1>7, <3>1, <3>2, <3>4 DEF Exports
    <3> QED BY <3>1, <3>2, <3>3, <3>4
  <2>3. \A i, j \in 1 .. k - 1 :
          i # j /\ i # 1 /\ j # 1 /\ loading'[i].kind = "file" /\ loading'[j].kind = "file"
          => loading'[i].lib # loading'[j].lib
    BY <1>3, <2>1
  <2>4. \A l \in LibIds :
          libs'[l].state # "unused" => libs'[l].path \in Paths /\ FileAt[libs'[l].path] \in Files
    BY <1>0, <1>5, <1>6, <1>7 DEF OwnLibraries
  <2> QED BY <1>3, <2>2, <2>3, <2>4 DEF OwnLibraries
<1>12. PrivateParts(libs)'
  BY <1>0, <1>6, <1>7 DEF PrivateParts
<1>13. SnapshotsHave(loading, libs)'
  BY <1>0, <1>3, <1>6, <1>7 DEF SnapshotsHave
<1> QED BY <1>9, <1>10, <1>11, <1>12, <1>13 DEF IInv

\* IInv is an invariant of every execution.
THEOREM Invariance == Spec => []IInv
<1>1. IInv /\ [Next]_vars => IInv'
  <2> SUFFICES ASSUME IInv, [Next]_vars PROVE IInv'
    OBVIOUS
  <2>0. /\ TypeOK /\ CachedMeansComplete /\ OwnLibraries(loading, libs)
        /\ PrivateParts(libs) /\ SnapshotsHave(loading, libs)
    BY DEF IInv
  <2>1. CASE UNCHANGED vars
    BY <2>0, <2>1, ReadingInv DEF vars, TypeOK
  <2>2. CASE StartMain
    <3>1. FileRun(Main, "none", NoLib) \in Runs /\ FileRun(Main, "none", NoLib).kind = "file"
      BY ImportAssumption DEF FileRun, Runs
    <3>2. TypeOK'
      BY <2>0, <2>2, <3>1, ImportAssumption DEF StartMain, TypeOK
    <3>3. CachedMeansComplete' /\ PrivateParts(libs)'
      BY <2>0, <2>2 DEF StartMain, CachedMeansComplete, PrivateParts
    <3>4. OwnLibraries(loading, libs)' /\ SnapshotsHave(loading, libs)'
      BY <2>0, <2>2, <3>1 DEF StartMain, OwnLibraries, SnapshotsHave
    <3> QED BY <3>2, <3>3, <3>4 DEF IInv
  <2>3. CASE Importing
    <3>1. ASSUME NEW p \in Paths, ImportCached(p) \/ ImportMissing(p) \/ ImportTooDeep(p)
          PROVE  IInv'
      BY <2>0, <3>1, Counted, ReadingInv
         DEF ImportCached, ImportMissing, ImportTooDeep, TypeOK
    <3> QED BY <2>3, <3>1, RunsInv DEF Importing
  <2>4. CASE Defining
    <3>1. ASSUME NEW l \in LibIds, ExportNotRun(l)
          PROVE  IInv'
      BY <2>0, <3>1, Counted, ReadingInv DEF ExportNotRun
    <3> QED BY <2>4, <3>1, ExportInv, DefineInv DEF Defining
  <2>5. CASE Catch
    BY <2>0, <2>5, ReadingInv DEF Catch, TypeOK
  <2>6. CASE EndMain
    <3>1. TypeOK'
      BY <2>0, <2>6, ImportAssumption DEF EndMain, TypeOK
    <3> QED BY <2>0, <2>6, <3>1
            DEF EndMain, IInv, CachedMeansComplete, OwnLibraries, PrivateParts, SnapshotsHave
  <2>7. CASE RunFails \/ RunSucceeds
    BY <2>7, EndInv
  <2>8. CASE ExportDone
    BY <2>8, ExportDoneInv
  <2> QED BY <2>1, <2>2, <2>3, <2>4, <2>5, <2>6, <2>7, <2>8 DEF Next, Ending
<1> QED BY InitInv, <1>1, PTL DEF Spec

\* The state is well-typed and imports and exports nest no deeper than the limit.
THEOREM TypeCorrect == Spec => []TypeOK
<1>1. IInv => TypeOK
  BY DEF IInv
<1> QED BY Invariance, <1>1, PTL

\* No library is cached before its file has run to the end.
THEOREM OnlyCompleteCached == Spec => []CachedMeansComplete
<1>1. IInv => CachedMeansComplete
  BY DEF IInv
<1> QED BY Invariance, <1>1, PTL

\* No variable that was defined outside export is ever an attribute of the
\* library, whatever the blocks of export define, import, export in turn or
\* fail at: each snapshot under way has all of them.
THEOREM PrivateVariables == Spec => []PrivateStaysPrivate
<1>1. IInv => PrivateStaysPrivate
  BY DEF IInv, PrivateParts, PrivateStaysPrivate
<1> QED BY Invariance, <1>1, PTL

(***************************************************************************)
(* Each file is loaded once.  A file being run is on the stack, with the   *)
(* library it fills; one that was run to its end is in the cache.          *)
(***************************************************************************)
OnStack ==
  \A l \in LibIds :
    libs[l].state = "running" =>
      \E i \in DOMAIN loading : i # 1 /\ loading[i].kind = "file" /\ loading[i].lib = l
DoneIsCached == \A l \in LibIds : libs[l].state = "done" => cache[libs[l].path] # NoLib
UsedHavePaths ==
  \A l \in LibIds : libs[l] # Unused => libs[l].path \in Paths /\ libs[l].state # "unused"
UsedInOrder == \A k, l \in LibIds : k < l /\ libs[k] = Unused => libs[l] = Unused

LInv ==
  /\ OnStack /\ DoneIsCached /\ UsedHavePaths /\ UsedInOrder
  /\ LoadedOnceUnlessCircular

\* Steps that neither begin nor end the run of a library's file.
LEMMA LoadedOnceQuiet ==
  ASSUME LInv, cache' = cache,
         \A i \in DOMAIN loading :
           i # 1 /\ loading[i].kind = "file" => i \in DOMAIN loading' /\ loading'[i] = loading[i],
         \A l \in LibIds : /\ libs'[l].state = libs[l].state /\ libs'[l].path = libs[l].path
                           /\ libs'[l].during = libs[l].during
                           /\ libs[l].state = "unused" => libs'[l] = libs[l]
  PROVE  LInv'
<1>1. OnStack'
  BY DEF LInv, OnStack
<1>2. DoneIsCached'
  BY DEF LInv, DoneIsCached
<1>3. \A l \in LibIds : (libs'[l] = Unused) <=> (libs[l] = Unused)
  BY DEF LInv, UsedHavePaths, Unused
<1>4. UsedHavePaths' /\ UsedInOrder'
  BY <1>3 DEF LInv, UsedHavePaths, UsedInOrder
<1>5. LoadedOnceUnlessCircular'
  BY DEF LInv, LoadedOnceUnlessCircular
<1> QED BY <1>1, <1>2, <1>4, <1>5 DEF LInv

\* A run begins.  An earlier library with the same path has failed, or is
\* still being loaded: if it were complete, the cache would have it.
LEMMA LoadedOnceRuns ==
  ASSUME IInv, LInv, NEW p \in Paths, ImportRuns(p)
  PROVE  LInv'
<1>0. /\ TypeOK /\ OwnLibraries(loading, libs)
      /\ OnStack /\ DoneIsCached /\ UsedHavePaths /\ UsedInOrder /\ LoadedOnceUnlessCircular
  BY DEF IInv, LInv
<1> DEFINE new == NewLibrary(p, PathsLoading)
           r(l) == FileRun(FileAt[p], p, l)
<1>1. PICK l \in LibIds :
        /\ libs[l] = Unused /\ \A k \in LibIds : libs[k] = Unused => l <= k
        /\ libs' = [libs EXCEPT ![l] = new]
        /\ cache' = cache /\ cache[p] = NoLib
        /\ loading' = Append(loading, r(l)) /\ loading # << >>
  BY DEF ImportRuns, Statement, Running, CacheMeanwhile, NotRemembered
<1>2. FileAt[p] \in Files
  BY ImportAssumption DEF ImportRuns
<1>3. r(l) \in Runs /\ r(l).kind = "file" /\ r(l).lib = l
  BY <1>2, ImportAssumption DEF FileRun, Runs
<1> HIDE DEF r
<1>4. PICK n \in Nat \ {0} :
        /\ n = Len(loading) /\ DOMAIN loading = 1 .. n
        /\ loading' \in Seq(Runs) /\ Len(loading') = n + 1 /\ DOMAIN loading' = 1 .. n + 1
        /\ \A i \in 1 .. n : loading'[i] = loading[i]
        /\ loading'[n + 1] = r(l)
  BY <1>0, <1>1, <1>3, Pushed
<1>5. /\ libs'[l] = new
      /\ \A k \in LibIds : k # l => libs'[k] = libs[k]
  BY <1>0, <1>1 DEF TypeOK
<1>6. new.path = p /\ new.state = "running" /\ new.during = PathsLoading /\ new # Unused
  BY DEF NewLibrary, Unused
<1> HIDE DEF new
<1>7. OnStack'
  <2> SUFFICES ASSUME NEW k \in LibIds, libs'[k].state = "running"
               PROVE  \E i \in 1 .. n + 1 : /\ i # 1 /\ loading'[i].kind = "file"
                                             /\ loading'[i].lib = k
    BY <1>4 DEF OnStack
  <2>1. CASE k = l
    <3>1. n + 1 \in 1 .. n + 1 /\ n + 1 # 1
      BY <1>4
    <3> QED BY <1>3, <1>4, <2>1, <3>1
  <2>2. CASE k # l
    <3>1. PICK i \in 1 .. n : i # 1 /\ loading[i].kind = "file" /\ loading[i].lib = k
      BY <1>0, <1>4, <1>5, <2>2 DEF OnStack
    <3>2. i \in 1 .. n + 1
      BY <1>4
    <3> QED BY <1>4, <3>1, <3>2
  <2> QED BY <2>1, <2>2
<1>8. DoneIsCached'
  BY <1>0, <1>1, <1>5, <1>6 DEF DoneIsCached
<1>9. UsedHavePaths' /\ UsedInOrder'
  BY <1>0, <1>1, <1>5, <1>6 DEF UsedHavePaths, UsedInOrder, LibIds
<1>10. \A k \in LibIds : libs[k].path = p /\ libs[k].state # "failed" => p \in PathsLoading
  <2> SUFFICES ASSUME NEW k \in LibIds, libs[k].path = p, libs[k].state # "failed"
               PROVE  p \in PathsLoading
    OBVIOUS
  <2>1. libs[k].state \in {"running", "done"}
    <3>1. libs[k] # Unused
      BY ImportAssumption DEF Unused
    <3> QED BY <1>0, <3>1 DEF UsedHavePaths, TypeOK, Libraries
  <2>2. libs[k].state = "running"
    BY <1>0, <1>1, <2>1 DEF DoneIsCached
  <2>3. PICK i \in 1 .. n : i # 1 /\ loading[i].kind = "file" /\ loading[i].lib = k
    BY <1>0, <1>4, <2>2 DEF OnStack
  <2>4. loading[i].path = p
    BY <1>0, <1>4, <2>3 DEF OwnLibraries, Fills
  <2> QED BY <1>4, <2>4, ImportAssumption DEF PathsLoading
<1>11. LoadedOnceUnlessCircular'
  <2> SUFFICES ASSUME NEW j \in LibIds, NEW k \in LibIds, j < k,
                      libs'[j].path = libs'[k].path, libs'[k].path \in Paths,
                      libs'[j].state # "failed", libs'[k].state # "failed"
               PROVE  libs'[k].path \in libs'[k].during
    BY DEF LoadedOnceUnlessCircular
  <2>1. CASE k = l
    BY <1>5, <1>6, <1>10, <2>1 DEF LibIds
  <2>2. CASE j = l
    <3>1. libs'[k] = Unused
      BY <1>0, <1>1, <1>5, <2>2 DEF UsedInOrder, LibIds
    <3> QED BY <3>1, ImportAssumption DEF Unused
  <2>3. CASE j # l /\ k # l
    BY <1>0, <1>5, <2>3 DEF LoadedOnceUnlessCircular
  <2> QED BY <2>1, <2>2, <2>3
<1> QED BY <1>7, <1>8, <1>9, <1>11 DEF LInv

\* A run ends: the last file leaves the stack, and if it was run to its end
\* the cache has a library for its path from then on.
LEMMA LoadedOnceEnds ==
  ASSUME IInv, LInv, RunFails \/ RunSucceeds
  PROVE  LInv'
<1>0. /\ TypeOK /\ OwnLibraries(loading, libs)
      /\ OnStack /\ DoneIsCached /\ UsedHavePaths /\ UsedInOrder /\ LoadedOnceUnlessCircular
  BY DEF IInv, LInv
<1>1. PICK st \in {"done", "failed"} :
        /\ Len(loading) > 1 /\ Top.kind = "file"
        /\ loading' = Below
        /\ libs' = [libs EXCEPT ![Top.lib].state = st]
        /\ \/ st = "failed" /\ cache' = cache
           \/ st = "done" /\ cache' = [cache EXCEPT ![Top.path] = Top.lib]
  BY DEF RunFails, RunSucceeds, InLibrary, Cached, Remembered
<1>2. loading # << >>
  BY <1>0, <1>1 DEF TypeOK
<1>3. PICK n \in Nat \ {0} :
        /\ n = Len(loading) /\ DOMAIN loading = 1 .. n /\ Top = loading[n] /\ Top \in Runs
        /\ loading' \in Seq(Runs) /\ Len(loading') = n - 1 /\ DOMAIN loading' = 1 .. n - 1
        /\ \A i \in 1 .. n - 1 : i \in 1 .. n /\ i # n /\ loading'[i] = loading[i]
  BY <1>0, <1>1, <1>2, Popped
<1>4. /\ Top.lib \in LibIds /\ Top.path \in Paths
      /\ libs[Top.lib].state = "running" /\ libs[Top.lib].path = Top.path
  <2>1. n \in 1 .. n /\ n # 1
    BY <1>1, <1>3
  <2> QED BY <1>0, <1>1, <1>3, <2>1 DEF OwnLibraries, Fills
<1>5. /\ \A l \in LibIds : /\ libs'[l].path = libs[l].path /\ libs'[l].during = libs[l].during
                           /\ l # Top.lib => libs'[l] = libs[l]
      /\ libs'[Top.lib].state = st
  BY <1>0, <1>1, <1>4 DEF TypeOK, Libraries
<1>6. OnStack'
  <2> SUFFICES ASSUME NEW l \in LibIds, libs'[l].state = "running"
               PROVE  \E i \in 1 .. n - 1 : /\ i # 1 /\ loading'[i].kind = "file"
                                             /\ loading'[i].lib = l
    BY <1>3 DEF OnStack
  <2>1. l # Top.lib /\ libs[l].state = "running"
    BY <1>5
  <2>2. PICK i \in 1 .. n : i # 1 /\ loading[i].kind = "file" /\ loading[i].lib = l
    BY <1>0, <1>3, <2>1 DEF OnStack
  <2>3. i \in 1 .. n - 1
    BY <1>3, <2>1, <2>2
  <2> QED BY <1>3, <2>2, <2>3
<1>7. DoneIsCached'
  <2> SUFFICES ASSUME NEW l \in LibIds, libs'[l].state = "done"
               PROVE  cache'[libs[l].path] # NoLib
    BY <1>5 DEF DoneIsCached
  <2>1. Top.lib # NoLib
    BY <1>4 DEF LibIds, NoLib
  <2>2. CASE l = Top.lib
    BY <1>0, <1>1, <1>4, <1>5, <2>1, <2>2 DEF TypeOK
  <2>3. CASE l # Top.lib
    <3>1. cache[libs[l].path] # NoLib
      BY <1>0, <1>5, <2>3 DEF DoneIsCached
    <3>2. libs[l].path \in Paths
      BY <1>0, <1>5, <2>3 DEF UsedHavePaths, Unused
    <3> QED BY <1>0, <1>1, <1>4, <2>1, <3>1, <3>2 DEF TypeOK
  <2> QED BY <2>2, <2>3
<1>8. /\ libs[Top.lib] # Unused /\ libs'[Top.lib] # Unused
      /\ libs'[Top.lib].state # "unused"
  BY <1>1, <1>4, <1>5 DEF Unused
<1>9. UsedHavePaths' /\ UsedInOrder'
  BY <1>0, <1>5, <1>8 DEF UsedHavePaths, UsedInOrder
<1>10. LoadedOnceUnlessCircular'
  BY <1>0, <1>4, <1>5 DEF LoadedOnceUnlessCircular
<1> QED BY <1>6, <1>7, <1>9, <1>10 DEF LInv

\* A file that did not fail is run a second time for a path only by a
\* circular import, while it is still being loaded.
THEOREM LoadedOnce == Spec => []LoadedOnceUnlessCircular
<1>1. Init => LInv
  <2> SUFFICES ASSUME Init PROVE LInv
    OBVIOUS
  <2>1. \A l \in LibIds : libs[l] = Unused
    BY DEF Init
  <2>2. Unused.state = "unused" /\ Unused.path = "none"
    BY DEF Unused
  <2>3. LoadedOnceUnlessCircular
    BY <2>1, <2>2, ImportAssumption DEF LoadedOnceUnlessCircular
  <2> QED BY <2>1, <2>2, <2>3 DEF LInv, OnStack, DoneIsCached, UsedHavePaths, UsedInOrder
<1>2. IInv /\ LInv /\ [Next]_vars => LInv'
  <2> SUFFICES ASSUME IInv, LInv, [Next]_vars PROVE LInv'
    OBVIOUS
  <2>0. TypeOK /\ OwnLibraries(loading, libs)
    BY DEF IInv
  <2>1. ASSUME libs' = libs, cache' = cache,
               \A i \in DOMAIN loading :
                 i # 1 /\ loading[i].kind = "file"
                 => i \in DOMAIN loading' /\ loading'[i] = loading[i]
        PROVE  LInv'
    BY <2>1, LoadedOnceQuiet
  <2>2. CASE UNCHANGED vars \/ StartMain \/ Catch
    BY <2>1, <2>2 DEF vars, StartMain, Catch
  <2>3. CASE EndMain
    <3>1. DOMAIN loading = {1}
      BY <2>0, <2>3 DEF EndMain, TypeOK
    <3> QED BY <2>1, <2>3, <3>1 DEF EndMain
  <2>4. CASE RunFails \/ RunSucceeds
    BY <2>4, LoadedOnceEnds
  <2>5. CASE \E p \in Paths : ImportRuns(p)
    BY <2>5, LoadedOnceRuns
  <2>6. CASE \E p \in Paths : ImportCached(p) \/ ImportMissing(p) \/ ImportTooDeep(p)
    BY <2>1, <2>6 DEF ImportCached, ImportMissing, ImportTooDeep
  <2>7. ASSUME NEW l \in LibIds, NEW v \in Vars, Define(l, v)
        PROVE  LInv'
    <3>1. libs \in [LibIds -> Libraries]
      BY <2>0 DEF TypeOK
    <3>2. \A k \in LibIds : /\ libs'[k].state = libs[k].state /\ libs'[k].path = libs[k].path
                            /\ libs'[k].during = libs[k].during
                            /\ libs[k].state = "unused" => libs'[k] = libs[k]
      BY <2>7, <3>1 DEF Define, Libraries
    <3> QED BY <2>7, <3>2, LoadedOnceQuiet DEF Define
  <2>8. ASSUME NEW l \in LibIds, Export(l)
        PROVE  LInv'
    <3>1. loading \in Seq(Runs)
      BY <2>0 DEF TypeOK
    <3>2. \A i \in DOMAIN loading : i \in DOMAIN loading' /\ loading'[i] = loading[i]
      BY <2>8, <3>1 DEF Export
    <3> QED BY <2>1, <2>8, <3>2 DEF Export
  <2>9. ASSUME NEW l \in LibIds, ExportNotRun(l)
        PROVE  LInv'
    BY <2>1, <2>9 DEF ExportNotRun
  <2>10. CASE ExportDone
    <3>1. /\ loading # << >> /\ Top.kind = "export" /\ loading' = Below /\ cache' = cache
      BY <2>10 DEF ExportDone, ExportEnds, ExportStops, ExportFails, InExport
    <3>2. PICK k \in Nat \ {0} :
            /\ k = Len(loading) /\ DOMAIN loading = 1 .. k /\ Top = loading[k] /\ Top \in Runs
            /\ loading' \in Seq(Runs) /\ Len(loading') = k - 1 /\ DOMAIN loading' = 1 .. k - 1
            /\ \A i \in 1 .. k - 1 : i \in 1 .. k /\ i # k /\ loading'[i] = loading[i]
      BY <2>0, <3>1, Popped
    <3>3. \A i \in 1 .. k : loading[i].kind = "file" => i \in 1 .. k - 1
      BY <3>1, <3>2
    <3>4. libs \in [LibIds -> Libraries] /\ Top.lib \in LibIds /\ libs[Top.lib].state # "unused"
      BY <2>0, <3>1, <3>2 DEF TypeOK, OwnLibraries, Exports
    <3>5. \/ libs' = libs
          \/ \E vs \in SUBSET NewVars : libs' = [libs EXCEPT ![Top.lib].attribs = @ \cup vs]
      BY <2>10 DEF ExportDone, ExportEnds, ExportStops, ExportFails
    <3>6. \A l \in LibIds : /\ libs'[l].state = libs[l].state /\ libs'[l].path = libs[l].path
                            /\ libs'[l].during = libs[l].during
                            /\ l # Top.lib => libs'[l] = libs[l]
      <4>1. CASE libs' = libs
        BY <4>1
      <4>2. ASSUME NEW vs \in SUBSET NewVars,
                   libs' = [libs EXCEPT ![Top.lib].attribs = @ \cup vs]
            PROVE  \A l \in LibIds :
                     /\ libs'[l].state = libs[l].state /\ libs'[l].path = libs[l].path
                     /\ libs'[l].during = libs[l].during
                     /\ l # Top.lib => libs'[l] = libs[l]
        BY <3>4, <4>2 DEF Libraries
      <4> QED BY <3>5, <4>1, <4>2
    <3> QED BY <3>1, <3>2, <3>3, <3>4, <3>6, LoadedOnceQuiet
  <2> QED BY <2>2, <2>3, <2>4, <2>5, <2>6, <2>7, <2>8, <2>9, <2>10
          DEF Next, Importing, Defining, Ending
<1>3. LInv => LoadedOnceUnlessCircular
  BY DEF LInv
<1> QED BY Invariance, <1>1, <1>2, <1>3, PTL DEF Spec
=============================================================================
