--------------------------- MODULE DispatchProof ---------------------------
(***************************************************************************)
(* Proofs about Dispatch: casts to the structs of builtin classes are      *)
(* safe, for any number of objects and classes the program makes.          *)
(*                                                                         *)
(* A check looks at the chain of base classes of this moment, the data     *)
(* was made by the newinstance of an earlier one.  The two agree because   *)
(* newinstance is copied along the chain (Inherited), and because the only *)
(* base class that ever changes is that of String, before there are other  *)
(* classes than the builtin ones (Early); from then on no setter is the C  *)
(* function that could change another one (Late).                          *)
(*                                                                         *)
(* And about Operators: things of one kind are compared by their contents, *)
(* for any things, any frames and any functions that are pushed            *)
(* (ComparisonsAreExact, whose argument is given there).                   *)
(***************************************************************************)
EXTENDS Dispatch, Induction, TLAPS

Maker == [Class |-> "Class", Integer |-> "Integer", String |-> "throws"]
FunctionNames == LibraryFunctions \cup CFunctions \cup {"nothing"}

ClassTypeOK ==
  /\ phase \in {"patching", "patched", "running"}
  /\ klass \in [Ids -> Ids \cup {"unborn"}]
  /\ data \in [Ids -> DataClasses \cup {"none"}]
  /\ base \in [Ids -> Ids \cup {"none"}]
  /\ newinstance \in [Ids -> DataClasses \cup {"throws", "NULL"}]
  /\ getters \in [Ids -> [Attrs -> FunctionNames]]
  /\ setters \in [Ids -> [Attrs -> FunctionNames]]

\* Everything alive has a class, and the classes above a class are classes.
Sound ==
  /\ \A i \in Ids : klass[i] = "unborn" => i \in NewIds /\ data[i] = "none"
  /\ \A i \in Ids : klass[i] # "unborn" => data[klass[i]] = "Class"
  /\ \A i \in Ids : base[i] # "none" => data[base[i]] = "Class"

\* What makes the instances of a class is what its chain of base classes says,
\* and an object has the data of the builtin class that it is an instance of.
Inherited ==
  \A c \in Classes, f \in DataClasses : IsSubclass(c, f) => newinstance[c] = Maker[f]
Made ==
  \A i \in Ids, f \in DataClasses :
    klass[i] # "unborn" /\ IsInstance(i, f) => data[i] = f

Early ==
  phase # "running" =>
    /\ \A i \in Ids : klass[i] = IF i \in NewIds THEN "unborn"
                                 ELSE IF i = "text" THEN "String" ELSE "Class"
    /\ \A i \in Ids : data[i] = IF i \in NewIds THEN "none"
                                ELSE IF i = "text" THEN "String" ELSE "Class"
    /\ \A f \in DataClasses : newinstance[f] = Maker[f]
    /\ base["Object"] = "none" /\ base["FrozenArrayLike"] = "Object"
    /\ \A i \in Ids : base[i] \in {"none", "Object", "FrozenArrayLike"}
    /\ \A i \in Ids, a \in Attrs :
         setters[i][a] \in CFunctions => i = "Class" /\ a = "baseclass"
    /\ looking # NoLookup =>
         /\ phase = "patched" /\ looking.doing = "set"
         /\ looking.obj = "String" /\ looking.val = "FrozenArrayLike"
Late ==
  phase = "running" => \A i \in Ids, a \in Attrs : setters[i][a] \notin CFunctions

LookupSound ==
  looking # NoLookup =>
    /\ looking.doing \in {"get", "set"} /\ looking.attr \in Attrs
    /\ looking.obj \in Ids /\ klass[looking.obj] # "unborn"
    /\ looking.at \in Ids

ClassInv == ClassTypeOK /\ Sound /\ Inherited /\ Made /\ Early /\ Late /\ LookupSound /\ CastsAreSafe

-----------------------------------------------------------------------------
(***************************************************************************)
(* Subclasses.                                                             *)
(***************************************************************************)
LEMMA IdsDistinct ==
  /\ Builtin \cap NewIds = {} /\ "text" \notin NewIds
  /\ "none" \notin Ids /\ "unborn" \notin Ids
  /\ Builtin \subseteq Ids /\ "text" \in Ids /\ NewIds \subseteq Ids
  /\ DataClasses \subseteq Builtin /\ "Object" \in Builtin /\ "FrozenArrayLike" \in Builtin
BY ClassAssumption DEF Ids, Builtin, DataClasses

\* With the first base classes, nothing but itself is below a class with data.
LEMMA FirstSubclasses ==
  ASSUME base["Object"] = "none", base["FrozenArrayLike"] = "Object",
         \A i \in Ids : base[i] \in {"none", "Object", "FrozenArrayLike"},
         NEW c \in Ids, NEW f \in DataClasses, IsSubclass(c, f)
  PROVE  c = f
<1> DEFINE S == {c, "Object", "FrozenArrayLike"}
<1>1. S \in SUBSET Ids /\ c \in S
  BY IdsDistinct
<1>2. \A i \in S : base[i] # "none" => base[i] \in S
  BY <1>1
<1>3. f \in S
  BY <1>1, <1>2 DEF IsSubclass
<1> QED BY <1>3 DEF DataClasses

\* A new class is below what its base class is below, and above nothing.
LEMMA NewSubclass ==
  ASSUME NEW id \in Ids, NEW b \in Ids, NEW f \in Ids,
         base' = [base EXCEPT ![id] = b], DOMAIN base = Ids,
         \A i \in Ids : base[i] # id
  PROVE  /\ f # id /\ IsSubclass(id, f)' => IsSubclass(b, f)
         /\ \A c \in Ids : c # id /\ IsSubclass(c, f)' => IsSubclass(c, f)
<1>1. ASSUME f # id, IsSubclass(id, f)'
      PROVE  IsSubclass(b, f)
  <2> SUFFICES ASSUME NEW S \in SUBSET Ids, b \in S,
                      \A c \in S : base[c] # "none" => base[c] \in S
               PROVE  f \in S
    BY DEF IsSubclass
  <2> DEFINE T == S \cup {id}
  <2>1. T \in SUBSET Ids /\ id \in T
    OBVIOUS
  <2>2. \A c \in T : base'[c] # "none" => base'[c] \in T
    OBVIOUS
  <2>3. f \in T
    BY <1>1, <2>1, <2>2 DEF IsSubclass
  <2> QED BY <1>1, <2>3
<1>2. ASSUME NEW c \in Ids, c # id, IsSubclass(c, f)'
      PROVE  IsSubclass(c, f)
  <2> SUFFICES ASSUME NEW S \in SUBSET Ids, c \in S,
                      \A d \in S : base[d] # "none" => base[d] \in S
               PROVE  f \in S
    BY DEF IsSubclass
  <2> DEFINE T == S \ {id}
  <2>1. T \in SUBSET Ids /\ c \in T
    BY <1>2
  <2>2. \A d \in T : base'[d] # "none" => base'[d] \in T
    OBVIOUS
  <2>3. f \in T
    BY <1>2, <2>1, <2>2 DEF IsSubclass
  <2> QED BY <2>3
<1> QED BY <1>1, <1>2

\* The same as a predicate of the base classes.
Below(bases, sub, super) ==
  \A S \in SUBSET Ids :
    sub \in S /\ (\A c \in S : bases[c] # "none" => bases[c] \in S) => super \in S

LEMMA BelowIs ==
  /\ \A c, f : IsSubclass(c, f) <=> Below(base, c, f)
  /\ \A c, f : IsSubclass(c, f)' <=> Below(base', c, f)
  /\ \A i, f : IsInstance(i, f) <=> Below(base, klass[i], f)
  /\ \A i, f : IsInstance(i, f)' <=> Below(base', klass'[i], f)
BY DEF IsSubclass, IsInstance, Below

LEMMA SameSubclasses ==
  ASSUME base' = base, NEW c, NEW f
  PROVE  IsSubclass(c, f)' <=> IsSubclass(c, f)
BY DEF IsSubclass

-----------------------------------------------------------------------------
(***************************************************************************)
(* The steps.                                                              *)
(***************************************************************************)
LEMMA InitClassInv == ClassInit => ClassInv
<1> SUFFICES ASSUME ClassInit PROVE ClassInv
  OBVIOUS
<1> USE DEF ClassInit
<1>1. ClassTypeOK
  BY IdsDistinct DEF ClassTypeOK, FunctionNames, CFunctions, LibraryFunctions, DataClasses, Builtin
<1>2. Sound
  BY IdsDistinct DEF Sound, Builtin
<1>3. Early
  BY IdsDistinct DEF Early, Maker, DataClasses, Builtin, CFunctions, Attrs
<1>4. Inherited
  <2> SUFFICES ASSUME NEW c \in Classes, NEW f \in DataClasses, IsSubclass(c, f)
               PROVE  newinstance[c] = Maker[f]
    BY DEF Inherited
  <2>1. c = f
    BY <1>3, FirstSubclasses DEF Early, Classes
  <2> QED BY <1>3, <2>1 DEF Early
<1>5. Made
  <2> SUFFICES ASSUME NEW i \in Ids, NEW f \in DataClasses, klass[i] # "unborn",
                      IsSubclass(klass[i], f)
               PROVE  data[i] = f
    BY DEF Made, IsInstance
  <2>1. klass[i] \in Ids
    BY <1>1 DEF ClassTypeOK
  <2>2. klass[i] = f
    BY <1>3, <2>1, FirstSubclasses DEF Early
  <2> QED BY <2>2, IdsDistinct
<1>6. Late /\ LookupSound /\ CastsAreSafe
  BY DEF Late, LookupSound, CastsAreSafe, NoCast
<1> QED BY <1>1, <1>2, <1>3, <1>4, <1>5, <1>6 DEF ClassInv

\* What a step that makes no object and changes no base class leaves alone.
LEMMA SameObjects ==
  ASSUME ClassInv, UNCHANGED << klass, data, base, newinstance >>
  PROVE  Sound' /\ Inherited' /\ Made'
<1>1. \A c, f : IsSubclass(c, f)' <=> IsSubclass(c, f)
  BY SameSubclasses
<1>2. Sound'
  BY DEF ClassInv, Sound
<1>3. Inherited'
  BY <1>1 DEF ClassInv, Inherited, Classes
<1>4. Made'
  BY <1>1 DEF ClassInv, Made, IsInstance
<1> QED BY <1>2, <1>3, <1>4

LEMMA NewKeeps ==
  ASSUME ClassInv, NEW id \in NewIds, NEW k \in Ids, New(id, k)
  PROVE  ClassInv'
<1> USE DEF ClassInv
<1>1. /\ id \in Ids /\ id \notin Builtin /\ k # id /\ data[k] = "Class" /\ data[id] = "none"
      /\ phase = "running" /\ phase' = phase /\ looking = NoLookup /\ looking' = looking
      /\ klass[id] = "unborn"
  BY IdsDistinct DEF New, Classes, Sound
<1>2. /\ klass' = [klass EXCEPT ![id] = k]
      /\ data' = [data EXCEPT ![id] = IF newinstance[k] = "NULL" THEN "none" ELSE newinstance[k]]
      /\ getters' = getters /\ setters' = setters /\ newinstance[k] # "throws"
  BY DEF New, NewClass, NewInstance
<1>3. \A i \in Ids : base[i] # id
  BY <1>1, IdsDistinct DEF Sound, ClassTypeOK
<1>4. ASSUME base' \in [Ids -> Ids \cup {"none"}], cast'[1] = cast'[2],
             newinstance' \in [Ids -> DataClasses \cup {"throws", "NULL"}],
             \A i \in Ids : base'[i] # "none" => data[base'[i]] = "Class",
             \A c \in Ids \ {id} : newinstance'[c] = newinstance[c],
             \A c \in Ids \ {id}, f \in Ids : IsSubclass(c, f)' => IsSubclass(c, f),
             \A f \in DataClasses : data'[id] = "Class" /\ IsSubclass(id, f)' =>
                                      newinstance'[id] = Maker[f]
      PROVE  ClassInv'
  <2>1. ClassTypeOK'
    BY <1>1, <1>2, <1>4 DEF ClassTypeOK
  <2>2. \A i \in Ids \ {id} : klass'[i] = klass[i] /\ data'[i] = data[i]
    BY <1>2
  <2>3. /\ klass'[id] = k /\ k # "unborn" /\ data'[k] = "Class"
        /\ data'[id] = IF newinstance[k] = "NULL" THEN "none" ELSE newinstance[k]
    BY <1>1, <1>2, IdsDistinct DEF ClassTypeOK
  <2>4. Sound'
    <3>1. \A i \in Ids : data[i] = "Class" => data'[i] = "Class"
      BY <1>1, <2>2
    <3>2. \A i \in Ids : klass'[i] = "unborn" => i \in NewIds /\ data'[i] = "none"
      BY <2>2, <2>3 DEF Sound
    <3>3. \A i \in Ids : klass'[i] # "unborn" => data'[klass'[i]] = "Class"
      BY <2>2, <2>3, <3>1 DEF Sound, ClassTypeOK
    <3>4. \A i \in Ids : base'[i] # "none" => data'[base'[i]] = "Class"
      BY <1>4, <3>1
    <3> QED BY <3>2, <3>3, <3>4 DEF Sound
  <2>5. Inherited'
    <3> SUFFICES ASSUME NEW c \in Ids, data'[c] = "Class", NEW f \in DataClasses, IsSubclass(c, f)'
                 PROVE  newinstance'[c] = Maker[f]
      BY DEF Inherited, Classes
    <3>1. CASE c = id
      BY <1>4, <3>1
    <3>2. CASE c # id
      <4>1. IsSubclass(c, f) /\ c \in Classes /\ newinstance'[c] = newinstance[c]
        BY <1>4, <2>2, <3>2, IdsDistinct DEF Classes
      <4> QED BY <4>1 DEF Inherited
    <3> QED BY <3>1, <3>2
  <2>6. Made'
    <3> SUFFICES ASSUME NEW i \in Ids, NEW f \in DataClasses,
                        klass'[i] # "unborn", Below(base', klass'[i], f)
                 PROVE  data'[i] = f
      BY BelowIs DEF Made
    <3>0. f \in Ids
      BY IdsDistinct
    <3>1. CASE i = id
      <4>1. IsSubclass(k, f)' /\ k \in Ids \ {id}
        BY <1>1, <2>3, <3>1, BelowIs
      <4> HIDE DEF ClassInv
      <4>2. IsSubclass(k, f) /\ k \in Classes
        BY <1>1, <1>4, <3>0, <4>1 DEF Classes
      <4> USE DEF ClassInv
      <4>3. newinstance[k] = Maker[f]
        BY <4>2 DEF Inherited
      <4> QED BY <1>2, <2>3, <3>1, <4>3 DEF Maker, DataClasses
    <3>2. CASE i # id
      <4>1. klass'[i] = klass[i] /\ klass[i] \in Ids \ {id} /\ data'[i] = data[i]
        BY <1>1, <2>2, <3>2 DEF Sound, ClassTypeOK
      <4>2. IsSubclass(klass[i], f)'
        BY <4>1, BelowIs
      <4> DEFINE ki == klass[i]
      <4> HIDE DEF ki
      <4>3. IsSubclass(ki, f)
        BY <1>4, <3>0, <4>1, <4>2 DEF ki
      <4>4. IsInstance(i, f) /\ klass[i] # "unborn"
        BY <4>1, <4>3, IdsDistinct DEF IsInstance, ki
      <4> QED BY <4>1, <4>4 DEF Made
    <3> QED BY <3>1, <3>2
  <2>7. Early' /\ Late' /\ LookupSound' /\ CastsAreSafe'
    BY <1>1, <1>2, <1>4 DEF Early, Late, LookupSound, CastsAreSafe
  <2> QED BY <2>1, <2>4, <2>5, <2>6, <2>7
<1>5. CASE NewInstance(k)
  <2>1. /\ base' = base /\ newinstance' = newinstance /\ newinstance[k] # "Class"
        /\ cast' = NoCast
    BY <1>5 DEF NewInstance
  <2>2. \A c, f : IsSubclass(c, f)' <=> IsSubclass(c, f)
    BY <2>1, SameSubclasses
  <2>3. data'[id] # "Class"
    BY <1>1, <1>2, <2>1 DEF ClassTypeOK
  <2>4. \A i \in Ids : base'[i] # "none" => data[base'[i]] = "Class"
    BY <2>1 DEF Sound
  <2> QED BY <1>4, <2>1, <2>2, <2>3, <2>4 DEF ClassTypeOK, NoCast
<1>6. ASSUME NEW b \in Ids, klass[b] # "unborn", IsInstance(b, "Class"), NewClass(id, k, b)
      PROVE  ClassInv'
  <2>1. /\ newinstance[k] = "Class" /\ base' = [base EXCEPT ![id] = b]
        /\ newinstance' = [newinstance EXCEPT ![id] = newinstance[b]]
        /\ cast' = << "Class", data[b] >>
    BY <1>6 DEF NewClass, create_data
  <2>2. data[b] = "Class"
    BY <1>6 DEF Made, DataClasses
  <2>3. \A f \in Ids : /\ f # id /\ IsSubclass(id, f)' => IsSubclass(b, f)
                       /\ \A c \in Ids : c # id /\ IsSubclass(c, f)' => IsSubclass(c, f)
    BY <1>1, <1>3, <2>1, NewSubclass DEF ClassTypeOK
  <2>4. ASSUME NEW f \in DataClasses, IsSubclass(id, f)'
        PROVE  newinstance'[id] = Maker[f]
    <3>1. f \in Ids /\ f # id
      BY <1>1, IdsDistinct
    <3>2. IsSubclass(b, f) /\ b \in Classes
      BY <2>2, <2>3, <2>4, <3>1 DEF Classes
    <3>3. newinstance[b] = Maker[f]
      BY <3>2 DEF Inherited
    <3> QED BY <1>1, <2>1, <3>3 DEF ClassTypeOK
  <2>5. \A i \in Ids : base'[i] # "none" => data[base'[i]] = "Class"
    BY <1>1, <2>1, <2>2 DEF Sound, ClassTypeOK
  <2>6. /\ base' \in [Ids -> Ids \cup {"none"}]
        /\ newinstance' \in [Ids -> DataClasses \cup {"throws", "NULL"}]
        /\ \A c \in Ids \ {id} : newinstance'[c] = newinstance[c]
    BY <1>1, <2>1 DEF ClassTypeOK
  <2> QED BY <1>4, <2>1, <2>2, <2>3, <2>4, <2>5, <2>6
<1> QED BY <1>5, <1>6 DEF New

LEMMA ChangeKeeps ==
  ASSUME ClassInv, NEW c \in Ids, NEW a \in Attrs, NEW getter \in FunctionNames,
         NEW setter \in FunctionNames \ CFunctions, Change(c, a, getter, setter)
  PROVE  ClassInv'
<1> USE DEF ClassInv
<1>1. /\ phase = "running" /\ phase' = phase /\ looking = NoLookup /\ looking' = looking
      /\ cast' = NoCast /\ UNCHANGED << klass, data, base, newinstance >>
      /\ getters' = [getters EXCEPT ![c][a] = getter]
      /\ setters' = [setters EXCEPT ![c][a] = setter]
  BY DEF Change
<1>2. ClassTypeOK'
  BY <1>1 DEF ClassTypeOK
<1>3. Late'
  BY <1>1 DEF Late, ClassTypeOK
<1> QED BY <1>1, <1>2, <1>3, SameObjects DEF Early, LookupSound, CastsAreSafe, NoCast

LEMMA LookupKeeps ==
  ASSUME ClassInv, NEW o \in Ids, NEW a \in Attrs, NEW v, NEW doing0 \in {"get", "set"},
         phase = "running", Lookup(doing0, o, a, v)
  PROVE  ClassInv'
<1> USE DEF ClassInv
<1>1. /\ phase' = phase /\ klass[o] # "unborn" /\ getters' = getters /\ setters' = setters
      /\ looking' = [doing |-> doing0, obj |-> o, attr |-> a, val |-> v, at |-> klass[o]]
      /\ cast' = NoCast /\ UNCHANGED << klass, data, base, newinstance >>
  BY DEF Lookup
<1>2. ClassTypeOK' /\ Late'
  BY <1>1 DEF ClassTypeOK, Late
<1>3. LookupSound'
  BY <1>1 DEF LookupSound, ClassTypeOK
<1> QED BY <1>1, <1>2, <1>3, SameObjects DEF Early, CastsAreSafe, NoCast

\* A step of a lookup that neither casts nor sets a base class.
LEMMA QuietKeeps ==
  ASSUME ClassInv, looking # NoLookup,
         \/ looking' = NoLookup
         \/ /\ base[looking.at] # "none"
            /\ looking' = [looking EXCEPT !.at = base[looking.at]],
         cast'[1] = cast'[2],
         UNCHANGED << phase, klass, data, base, newinstance, getters, setters >>
  PROVE  ClassInv'
<1> USE DEF ClassInv
<1>1. ClassTypeOK' /\ Late' /\ CastsAreSafe'
  BY DEF ClassTypeOK, Late, CastsAreSafe
<1>2. CASE looking' = NoLookup
  BY <1>1, <1>2, SameObjects DEF LookupSound, Early
<1>3. CASE base[looking.at] # "none" /\ looking' = [looking EXCEPT !.at = base[looking.at]]
  <2>1. LookupSound'
    BY <1>3 DEF LookupSound, ClassTypeOK
  <2>2. Early'
    BY <1>3 DEF Early
  <2> QED BY <1>1, <2>1, <2>2, SameObjects
<1> QED BY <1>2, <1>3

LEMMA CallCFunctionKeeps ==
  ASSUME ClassInv, CallCFunction
  PROVE  ClassInv'
<1> USE DEF ClassInv
<1> DEFINE o == looking.obj
<1>1. /\ looking # NoLookup /\ looking' = NoLookup /\ Found \in CFunctions
      /\ UNCHANGED << phase, klass, data, newinstance, getters, setters >>
      /\ cast' = IF IsInstance(o, Found) THEN << Found, data[o] >> ELSE NoCast
  BY DEF CallCFunction, Done
<1>2. cast'[1] = cast'[2]
  <2>1. o \in Ids /\ klass[o] # "unborn" /\ Found \in DataClasses
    BY <1>1 DEF LookupSound, CFunctions
  <2>2. IsInstance(o, Found) => data[o] = Found
    BY <2>1 DEF Made
  <2> QED BY <1>1, <2>2 DEF NoCast
<1>3. CASE base' = base
  BY <1>1, <1>2, <1>3, QuietKeeps
<1>4. CASE base' # base
  <2>1. /\ looking.doing = "set" /\ base' = [base EXCEPT ![o] = looking.val]
    BY <1>4 DEF CallCFunction
  <2>2. setters[looking.at][looking.attr] \in CFunctions
    BY <1>1, <2>1 DEF Found, Functions
  <2>3. phase # "running"
    BY <1>1, <2>2 DEF Late, LookupSound
  <2>4. o = "String" /\ looking.val = "FrozenArrayLike"
    BY <1>1, <2>3 DEF Early
  <2>5. base' = [base EXCEPT !["String"] = "FrozenArrayLike"]
    BY <2>1, <2>4
  <2>6. /\ base'["Object"] = "none" /\ base'["FrozenArrayLike"] = "Object"
        /\ \A i \in Ids : base'[i] \in {"none", "Object", "FrozenArrayLike"}
    BY <2>3, <2>5, IdsDistinct DEF Early, ClassTypeOK
  <2>7. ClassTypeOK'
    BY <1>1, <2>5, IdsDistinct DEF ClassTypeOK
  <2>8. Early'
    BY <1>1, <2>3, <2>6 DEF Early
  <2>9. Sound'
    <3>1. \A i \in Ids : base'[i] # "none" => data'[base'[i]] = "Class"
      BY <1>1, <2>3, <2>6, IdsDistinct DEF Early
    <3> QED BY <1>1, <3>1 DEF Sound
  <2>10. \A c \in Ids, f \in DataClasses : IsSubclass(c, f)' => c = f
    <3> SUFFICES ASSUME NEW c \in Ids, NEW f \in DataClasses, IsSubclass(c, f)'
                 PROVE  c = f
      OBVIOUS
    <3> DEFINE S == {c, "Object", "FrozenArrayLike"}
    <3>1. S \in SUBSET Ids /\ c \in S
      BY IdsDistinct
    <3>2. \A i \in S : base'[i] # "none" => base'[i] \in S
      BY <2>6, <3>1
    <3>3. f \in S
      BY <3>1, <3>2 DEF IsSubclass
    <3> QED BY <3>3 DEF DataClasses
  <2>11. Inherited'
    BY <1>1, <2>3, <2>10 DEF Inherited, Classes, Early
  <2>12. Made'
    <3> SUFFICES ASSUME NEW i \in Ids, NEW f \in DataClasses,
                        klass[i] # "unborn", Below(base', klass[i], f)
                 PROVE  data[i] = f
      BY <1>1, BelowIs DEF Made
    <3>1. klass[i] = f
      BY <2>10, BelowIs DEF ClassTypeOK
    <3> QED BY <2>3, <3>1, IdsDistinct DEF Early
  <2>13. Late' /\ LookupSound' /\ CastsAreSafe'
    BY <1>1, <1>2, <2>3 DEF Late, LookupSound, CastsAreSafe
  <2> QED BY <2>7, <2>8, <2>9, <2>11, <2>12, <2>13
<1> QED BY <1>3, <1>4

LEMMA PatchKeeps ==
  ASSUME ClassInv, SetBaseclass \/ DeleteSetter
  PROVE  ClassInv'
<1> USE DEF ClassInv
<1>1. UNCHANGED << klass, data, base, newinstance, getters >> /\ cast' = NoCast
  BY DEF SetBaseclass, DeleteSetter
<1>2. Sound' /\ Inherited' /\ Made' /\ CastsAreSafe'
  BY <1>1, SameObjects DEF CastsAreSafe, NoCast
<1>3. CASE SetBaseclass
  <2>1. /\ phase = "patching" /\ phase' = "patched" /\ setters' = setters
        /\ looking' = [doing |-> "set", obj |-> "String", attr |-> "baseclass",
                       val |-> "FrozenArrayLike", at |-> klass["String"]]
    BY <1>3 DEF SetBaseclass
  <2>2. klass["String"] # "unborn" /\ klass["String"] \in Ids
    BY <2>1, IdsDistinct DEF Early, DataClasses, Builtin
  <2>3. ClassTypeOK' /\ Late' /\ Early'
    BY <1>1, <2>1 DEF ClassTypeOK, Late, Early
  <2>4. LookupSound'
    BY <1>1, <2>1, <2>2, IdsDistinct DEF LookupSound, Attrs, DataClasses, Builtin
  <2> QED BY <1>2, <2>3, <2>4
<1>4. CASE DeleteSetter
  <2>1. /\ phase = "patched" /\ phase' = "running" /\ looking = NoLookup /\ looking' = looking
        /\ setters' = [setters EXCEPT !["Class"]["baseclass"] = "nothing"]
    BY <1>4 DEF DeleteSetter
  <2>2. ClassTypeOK'
    BY <1>1, <2>1 DEF ClassTypeOK, FunctionNames
  <2>3. Late'
    <3> SUFFICES ASSUME NEW i \in Ids, NEW a \in Attrs
                 PROVE  setters'[i][a] \notin CFunctions
      BY DEF Late
    <3>1. "Class" \in Ids /\ "baseclass" \in Attrs
      BY IdsDistinct DEF Builtin, Attrs
    <3>2. CASE i = "Class" /\ a = "baseclass"
      BY <2>1, <3>1, <3>2 DEF ClassTypeOK, CFunctions, DataClasses
    <3>3. CASE ~(i = "Class" /\ a = "baseclass")
      <4>1. setters'[i][a] = setters[i][a]
        BY <2>1, <3>3 DEF ClassTypeOK
      <4> QED BY <2>1, <3>3, <4>1 DEF Early
    <3> QED BY <3>2, <3>3
  <2>4. Early' /\ LookupSound'
    BY <2>1 DEF Early, LookupSound
  <2> QED BY <1>2, <2>2, <2>3, <2>4
<1> QED BY <1>3, <1>4

LEMMA LookupStepKeeps ==
  ASSUME ClassInv, LookupStep
  PROVE  ClassInv'
<1>1. CASE LookAbove \/ CallLibraryFunction \/ LookIntoAttrdata \/ LookFails
  <2>1. /\ looking # NoLookup /\ cast' = NoCast
        /\ UNCHANGED << phase, klass, data, base, newinstance, getters, setters >>
        /\ \/ looking' = NoLookup
           \/ base[looking.at] # "none" /\ looking' = [looking EXCEPT !.at = base[looking.at]]
    BY <1>1 DEF LookAbove, CallLibraryFunction, LookIntoAttrdata, LookFails, Done
  <2> QED BY <2>1, QuietKeeps DEF NoCast
<1>2. CASE CallCFunction
  BY <1>2, CallCFunctionKeeps
<1> QED BY <1>1, <1>2 DEF LookupStep

LEMMA ProgramChangeKeeps ==
  ASSUME ClassInv, NEW c \in Ids, NEW a \in Attrs,
         Attrib(c, a) \/ Abstract(c, a) \/ CopyGetter(c, a) \/ CopySetter(c, a)
  PROVE  ClassInv'
<1>1. \A d \in Ids : getters[d][a] \in FunctionNames /\ setters[d][a] \in FunctionNames
  BY DEF ClassInv, ClassTypeOK
<1>2. phase = "running" => \A d \in Ids : setters[d][a] \notin CFunctions
  BY DEF ClassInv, Late
<1>3. {"attrib", "abstract"} \subseteq FunctionNames \ CFunctions
  BY DEF FunctionNames, LibraryFunctions, CFunctions, DataClasses
<1>4. \A g, s : Change(c, a, g, s) => phase = "running"
  BY DEF Change
<1>5. CASE Attrib(c, a)
  BY <1>3, <1>5, ChangeKeeps DEF Attrib
<1>6. CASE Abstract(c, a)
  <2>1. Change(c, a, "abstract", setters[c][a])
    BY <1>6 DEF Abstract
  <2> QED BY <1>1, <1>2, <1>3, <1>4, <2>1, ChangeKeeps
<1>7. CASE CopyGetter(c, a)
  <2>1. PICK d \in Classes : Change(c, a, getters[d][a], setters[c][a])
    BY <1>7 DEF CopyGetter
  <2> QED BY <1>1, <1>2, <1>4, <2>1, ChangeKeeps DEF Classes
<1>8. CASE CopySetter(c, a)
  <2>1. PICK d \in Classes : Change(c, a, getters[c][a], setters[d][a])
    BY <1>8 DEF CopySetter
  <2> QED BY <1>1, <1>2, <1>4, <2>1, ChangeKeeps DEF Classes
<1> QED BY <1>5, <1>6, <1>7, <1>8

LEMMA ClassStep == ClassInv /\ (ClassNext \/ UNCHANGED classVars) => ClassInv'
<1> SUFFICES ASSUME ClassInv, ClassNext \/ UNCHANGED classVars
             PROVE  ClassInv'
  OBVIOUS
<1>1. CASE SetBaseclass \/ DeleteSetter
  BY <1>1, PatchKeeps
<1>2. ASSUME NEW id \in NewIds, NEW k \in Ids, New(id, k)
      PROVE  ClassInv'
  BY <1>2, NewKeeps
<1>3. ASSUME NEW c \in Ids, NEW a \in Attrs,
             Attrib(c, a) \/ Abstract(c, a) \/ CopyGetter(c, a) \/ CopySetter(c, a)
      PROVE  ClassInv'
  BY <1>3, ProgramChangeKeeps
<1>4. ASSUME NEW o \in Subjects, NEW a \in Attrs, Get(o, a)
      PROVE  ClassInv'
  BY <1>4, LookupKeeps, ClassAssumption DEF Get
<1>5. ASSUME NEW o \in Subjects, NEW v, NEW a \in Attrs, Set(o, a, v)
      PROVE  ClassInv'
  BY <1>5, LookupKeeps, ClassAssumption DEF Set
<1>6. CASE LookupStep
  BY <1>6, LookupStepKeeps
<1>7. CASE UNCHANGED classVars
  <2>1. \A i, f : (IsInstance(i, f)' <=> IsInstance(i, f)) /\ (IsSubclass(i, f)' <=> IsSubclass(i, f))
    BY <1>7 DEF classVars, IsInstance, IsSubclass
  <2>2. Sound' /\ Inherited' /\ Made'
    BY <1>7, SameObjects DEF classVars
  <2>3. ClassTypeOK' /\ Early' /\ Late' /\ LookupSound' /\ CastsAreSafe'
    BY <1>7 DEF classVars, ClassInv, ClassTypeOK, Early, Late, LookupSound, CastsAreSafe
  <2> QED BY <2>2, <2>3 DEF ClassInv
<1> QED BY <1>1, <1>2, <1>3, <1>4, <1>5, <1>6, <1>7 DEF ClassNext

(***************************************************************************)
(* The inductive invariant of the classes (classobject.c, attribute.c,     *)
(* `new`): a class and its instances have the data that their chain of     *)
(* base classes promises, and nobody can change that chain any more.       *)
(***************************************************************************)
THEOREM Invariance == Spec => []ClassInv
<1>1. Init => ClassInv
  BY InitClassInv DEF Init
<1>2. ClassInv /\ [Next]_vars => ClassInv'
  BY ClassStep DEF Next, vars
<1> QED BY <1>1, <1>2, PTL DEF Spec

(***************************************************************************)
(* No C function casts the data of an object to a struct that it is not    *)
(* (classobject.c:43, method.c:49), whatever the program makes of classes. *)
(***************************************************************************)
THEOREM CastsSafe == Spec => []CastsAreSafe
<1>1. ClassInv => CastsAreSafe
  BY DEF ClassInv
<1> QED BY <1>1, Invariance, PTL

-----------------------------------------------------------------------------
(***************************************************************************)
(* What the operators mean: the rounds end in relations that another round *)
(* leaves as they are.                                                     *)
(***************************************************************************)
LEMMA PairsFinite == IsFiniteSet(Pairs) /\ Rounds \in Nat
BY OperatorAssumption, FS_Product, FS_CardinalityType DEF Pairs, Rounds

LEMMA AlikeIs == Alike \in SUBSET Pairs /\ Alike = AlikeIn(Alike)
<1> DEFINE step == [R \in SUBSET Pairs |-> AlikeIn(R)]
           Rec(g) == g = [n \in 0 .. Rounds |-> IF n = 0 THEN Pairs ELSE AlikeIn(g[n - 1])]
<1>1. /\ step \in [SUBSET Pairs -> SUBSET Pairs] /\ Pairs \in SUBSET Pairs
      /\ \A R \in SUBSET Pairs : step[R] = AlikeIn(R)
      /\ \A R : AlikeIn(R) \in SUBSET Pairs
  BY DEF AlikeIn
<1>2. Monotone(step, Pairs)
  BY <1>1 DEF Monotone, AlikeIn
<1> HIDE DEF step
<1>3. PICK g \in [0 .. Rounds -> SUBSET Pairs] : Repeats(g, Rounds, Pairs, step)
  BY <1>1, PairsFinite, Repetition, Zenon
<1>4. Rec(g)
  <2>1. \A n \in 0 .. Rounds : n # 0 => step[g[n - 1]] = AlikeIn(g[n - 1])
    BY <1>1, PairsFinite
  <2>2. \A n \in 0 .. Rounds : g[n] = IF n = 0 THEN Pairs ELSE AlikeIn(g[n - 1])
    BY <1>3, <2>1 DEF Repeats
  <2> QED BY <1>3, <2>2 DEF Repeats
<1>5. Rec(AlikeAfter)
  BY <1>4 DEF AlikeAfter
<1>6. \A n \in 0 .. Rounds : AlikeAfter[n] = IF n = 0 THEN Pairs ELSE AlikeIn(AlikeAfter[n - 1])
  BY <1>5
<1> HIDE DEF Rec
<1>7. \A n \in 0 .. Rounds : AlikeAfter[n] \in SUBSET Pairs
  BY <1>1, <1>6
<1>8. Unrolls(AlikeAfter, Rounds, Pairs, step)
  BY <1>1, <1>6, <1>7, PairsFinite DEF Unrolls
<1>9. Ends(AlikeAfter, Rounds, step)
  BY <1>1, <1>2, <1>8, PairsFinite, Settles, Zenon DEF Rounds
<1>10. \E n \in 0 .. Rounds : AlikeIn(AlikeAfter[n]) = AlikeAfter[n]
  BY <1>1, <1>7, <1>9 DEF Ends
<1> QED BY <1>7, <1>10 DEF Alike

LEMMA ComparableIs == Comparable \in SUBSET Pairs /\ Comparable = ComparableIn(Comparable)
<1> DEFINE step == [R \in SUBSET Pairs |-> ComparableIn(R)]
           Rec(g) == g = [n \in 0 .. Rounds |-> IF n = 0 THEN Pairs ELSE ComparableIn(g[n - 1])]
<1>1. /\ step \in [SUBSET Pairs -> SUBSET Pairs] /\ Pairs \in SUBSET Pairs
      /\ \A R \in SUBSET Pairs : step[R] = ComparableIn(R)
      /\ \A R : ComparableIn(R) \in SUBSET Pairs
  BY DEF ComparableIn
<1>2. Monotone(step, Pairs)
  BY <1>1 DEF Monotone, ComparableIn
<1> HIDE DEF step
<1>3. PICK g \in [0 .. Rounds -> SUBSET Pairs] : Repeats(g, Rounds, Pairs, step)
  BY <1>1, PairsFinite, Repetition, Zenon
<1>4. Rec(g)
  <2>1. \A n \in 0 .. Rounds : n # 0 => step[g[n - 1]] = ComparableIn(g[n - 1])
    BY <1>1, PairsFinite
  <2>2. \A n \in 0 .. Rounds : g[n] = IF n = 0 THEN Pairs ELSE ComparableIn(g[n - 1])
    BY <1>3, <2>1 DEF Repeats
  <2> QED BY <1>3, <2>2 DEF Repeats
<1>5. Rec(ComparableAfter)
  BY <1>4 DEF ComparableAfter
<1>6. \A n \in 0 .. Rounds : ComparableAfter[n] = IF n = 0 THEN Pairs ELSE ComparableIn(ComparableAfter[n - 1])
  BY <1>5
<1> HIDE DEF Rec
<1>7. \A n \in 0 .. Rounds : ComparableAfter[n] \in SUBSET Pairs
  BY <1>1, <1>6
<1>8. Unrolls(ComparableAfter, Rounds, Pairs, step)
  BY <1>1, <1>6, <1>7, PairsFinite DEF Unrolls
<1>9. Ends(ComparableAfter, Rounds, step)
  BY <1>1, <1>2, <1>8, PairsFinite, Settles, Zenon DEF Rounds
<1>10. \E n \in 0 .. Rounds : ComparableIn(ComparableAfter[n]) = ComparableAfter[n]
  BY <1>1, <1>7, <1>9 DEF Ends
<1> QED BY <1>7, <1>10 DEF Comparable

LEMMA MaxOK ==
  /\ FlatMax \in Nat /\ DepthMax \in Nat /\ MappingMax \in Nat
  /\ DepthMax \in 1 .. FlatMax /\ MappingMax \in 1 .. FlatMax
BY OperatorAssumption DEF FlatMax

LEMMA FlatIs ==
  /\ \A n \in 0 .. FlatMax : Flat[n] \subseteq Pairs
  /\ Flat[0] = {}
  /\ \A n \in 1 .. FlatMax : Flat[n] = FlatIn(Flat[n - 1]) /\ Flat[n - 1] \subseteq Flat[n]
<1> DEFINE step == [R \in SUBSET Pairs |-> FlatIn(R)]
           Rec(g) == g = [n \in 0 .. FlatMax |-> IF n = 0 THEN {} ELSE FlatIn(g[n - 1])]
<1>0. FlatMax \in Nat
  BY MaxOK
<1>1. /\ step \in [SUBSET Pairs -> SUBSET Pairs] /\ {} \in SUBSET Pairs
      /\ \A R \in SUBSET Pairs : step[R] = FlatIn(R)
      /\ \A R : FlatIn(R) \in SUBSET Pairs
  BY DEF FlatIn
<1>2. \A Q, R \in SUBSET Pairs : Q \subseteq R => FlatIn(Q) \subseteq FlatIn(R)
  BY DEF FlatIn
<1> HIDE DEF step
<1>3. PICK g \in [0 .. FlatMax -> SUBSET Pairs] : Repeats(g, FlatMax, {}, step)
  BY <1>0, <1>1, Repetition, Zenon
<1>4. Rec(g)
  <2>1. \A n \in 0 .. FlatMax : n # 0 => step[g[n - 1]] = FlatIn(g[n - 1])
    BY <1>0, <1>1
  <2>2. \A n \in 0 .. FlatMax : g[n] = IF n = 0 THEN {} ELSE FlatIn(g[n - 1])
    BY <1>3, <2>1 DEF Repeats
  <2> QED BY <1>3, <2>2 DEF Repeats
<1>5. Rec(Flat)
  BY <1>4 DEF Flat
<1>6. \A n \in 0 .. FlatMax : Flat[n] = IF n = 0 THEN {} ELSE FlatIn(Flat[n - 1])
  BY <1>5
<1> HIDE DEF Rec
<1>7. \A n \in 0 .. FlatMax : Flat[n] \in SUBSET Pairs
  BY <1>1, <1>6
<1>8. Flat[0] = {} /\ \A n \in 1 .. FlatMax : Flat[n] = FlatIn(Flat[n - 1])
  BY <1>0, <1>6
<1> DEFINE A == {n \in 0 .. FlatMax : n # 0 => Flat[n - 1] \subseteq Flat[n]}
<1>9. \A n \in 0 .. FlatMax : n \in A
  <2>1. 0 \in A
    BY <1>0
  <2>2. ASSUME NEW n \in 0 .. FlatMax - 1, n \in A
        PROVE  n + 1 \in A
    <3>1. /\ n + 1 \in 1 .. FlatMax /\ n + 1 \in 0 .. FlatMax /\ n + 1 - 1 = n
          /\ n \in 0 .. FlatMax /\ (n # 0 => n \in 1 .. FlatMax /\ n - 1 \in 0 .. FlatMax)
      BY <1>0
    <3>2. CASE n = 0
      BY <1>8, <3>1, <3>2
    <3>3. CASE n # 0
      <4>1. Flat[n - 1] \subseteq Flat[n] /\ Flat[n - 1] \in SUBSET Pairs /\ Flat[n] \in SUBSET Pairs
        BY <1>7, <2>2, <3>1, <3>3
      <4>2. FlatIn(Flat[n - 1]) \subseteq FlatIn(Flat[n])
        BY <1>2, <4>1
      <4>3. Flat[n] = FlatIn(Flat[n - 1]) /\ Flat[n + 1] = FlatIn(Flat[n])
        BY <1>8, <3>1, <3>3
      <4> QED BY <3>1, <4>2, <4>3
    <3> QED BY <3>2, <3>3
  <2> HIDE DEF A
  <2> QED BY <1>0, <2>1, <2>2, UpTo
<1> QED BY <1>0, <1>7, <1>8, <1>9

-----------------------------------------------------------------------------
(***************************************************************************)
(* What two things that can be compared mean to each other.                *)
(***************************************************************************)
Frames == [op : Comparisons, x : Things, y : Things, i : Nat \ {0}, k : Nat]
Pair(c) == << c.x, c.y >>
ItemPair(c, n) == << Items(c.x)[n], Items(c.y)[n] >>
Containers == {"Mapping", "Option", "Array"}
\* the function of eq_array that answers for two things of a kind
Answerer == [String |-> 1, Integer |-> 2, Mapping |-> 3, Option |-> 5, Bool |-> 6, Array |-> 7]

Plain == {"Integer", "String", "Bool"}

LEMMA ItemsType ==
  ASSUME NEW x \in Things
  PROVE  /\ Items(x) \in Seq(Things) /\ Len(Items(x)) \in Nat
         /\ \A n \in 1 .. Len(Items(x)) : Items(x)[n] \in Things
BY OperatorAssumption

LEMMA Identical ==
  ASSUME NEW x \in Things
  PROVE  << x, x >> \in Alike
<1>1. << x, x >> \in Pairs /\ << x, x >>[1] = << x, x >>[2]
  BY DEF Pairs
<1>2. << x, x >> \in AlikeIn(Alike)
  BY <1>1 DEF AlikeIn
<1> QED BY <1>2, AlikeIs

LEMMA KindsAgree ==
  ASSUME NEW x, NEW y, << x, y >> \in Comparable
  PROVE  /\ x \in Things /\ y \in Things /\ Kind(x) = Kind(y)
         /\ Kind(x) \in Plain \cup Containers
         /\ ItemPairs(<< x, y >>) \subseteq Comparable
<1>1. << x, y >> \in Pairs /\ << x, y >> \in ComparableIn(Comparable)
  BY ComparableIs
<1>2. x \in Things /\ y \in Things
  BY <1>1 DEF Pairs
<1>3. /\ Kind(x) = Kind(y) /\ Kind(x) # "Thing"
      /\ ItemPairs(<< x, y >>) \subseteq Comparable
  BY <1>1 DEF ComparableIn
<1> QED BY <1>2, <1>3, OperatorAssumption DEF Kinds, Plain, Containers

LEMMA ItemIsPair ==
  ASSUME NEW x \in Things, NEW y \in Things, ~Mismatch(x, y), NEW n \in 1 .. Len(Items(x))
  PROVE  /\ << Items(x)[n], Items(y)[n] >> \in ItemPairs(<< x, y >>)
         /\ Items(x)[n] \in Things /\ Items(y)[n] \in Things
BY ItemsType DEF ItemPairs, Mismatch, SameLength

\* Integers, Strings and Bools are alike if their values are.
LEMMA PlainAlike ==
  ASSUME NEW x, NEW y, << x, y >> \in Comparable, Kind(x) \in Plain
  PROVE  /\ << x, y >> \in Alike <=> Val(x) = Val(y)
         /\ Items(x) = << >> /\ Items(y) = << >>
         /\ << y, x >> \in Comparable
<1>1. /\ x \in Things /\ y \in Things /\ Kind(x) = Kind(y)
      /\ Items(x) = << >> /\ Items(y) = << >> /\ Kind(x) # "Thing"
  BY KindsAgree, OperatorAssumption DEF Plain
<1>2. SameLength(<< x, y >>) /\ ItemPairs(<< x, y >>) = {} /\ ItemPairs(<< y, x >>) = {}
  BY <1>1 DEF SameLength, ItemPairs
<1>3. << x, y >> \in Pairs /\ << y, x >> \in Pairs
  BY <1>1 DEF Pairs
<1>4. << x, y >> \in AlikeIn(Alike) <=> Val(x) = Val(y)
  BY <1>1, <1>2, <1>3 DEF AlikeIn
<1>5. << y, x >> \in ComparableIn(Comparable)
  BY <1>1, <1>2, <1>3 DEF ComparableIn
<1> QED BY <1>1, <1>4, <1>5, AlikeIs, ComparableIs

\* Options, Arrays and Mappings are if they have as many items, all alike.
LEMMA ContainersAlike ==
  ASSUME NEW x, NEW y, << x, y >> \in Comparable, Kind(x) \in Containers
  PROVE  << x, y >> \in Alike
           <=> /\ ~Mismatch(x, y)
               /\ \A n \in 1 .. Len(Items(x)) : << Items(x)[n], Items(y)[n] >> \in Alike
<1>1. /\ x \in Things /\ y \in Things /\ Kind(x) = Kind(y) /\ << x, y >> \in Pairs
      /\ ~Mismatch(x, y) <=> Val(x) = Val(y) /\ SameLength(<< x, y >>)
  <2>1. x \in Things /\ y \in Things /\ Kind(x) = Kind(y) /\ << x, y >> \in Pairs
    BY KindsAgree DEF Pairs
  <2>2. Kind(x) # "Mapping" => Val(x) = Val(y)
    BY <2>1, OperatorAssumption DEF Containers
  <2> QED BY <2>1, <2>2 DEF Mismatch, SameLength
<1>2. << x, y >> \in AlikeIn(Alike) <=> x = y \/ (~Mismatch(x, y) /\ ItemPairs(<< x, y >>) \subseteq Alike)
  BY <1>1 DEF AlikeIn
<1>3. ~Mismatch(x, y) =>
        (ItemPairs(<< x, y >>) \subseteq Alike
           <=> \A n \in 1 .. Len(Items(x)) : << Items(x)[n], Items(y)[n] >> \in Alike)
  BY DEF ItemPairs, Mismatch, SameLength
<1>4. x = y => ~Mismatch(x, y) /\ \A n \in 1 .. Len(Items(x)) : << Items(x)[n], Items(y)[n] >> \in Alike
  BY <1>1, ItemsType, Identical DEF Mismatch
<1> QED BY <1>2, <1>3, <1>4, AlikeIs

LEMMA ItemsCompare ==
  ASSUME NEW x, NEW y, << x, y >> \in Comparable, ~Mismatch(x, y), NEW n \in 1 .. Len(Items(x))
  PROVE  << Items(x)[n], Items(y)[n] >> \in Comparable
BY KindsAgree, ItemIsPair

\* A pair is nested deeper than its items.
LEMMA ItemsFlat ==
  ASSUME NEW x, NEW y, << x, y >> \in Comparable, ~Mismatch(x, y), NEW n \in 1 .. Len(Items(x)),
         NEW m \in 0 .. FlatMax, << Items(x)[n], Items(y)[n] >> \notin Flat[m]
  PROVE  << x, y >> \notin Flat[m] /\ (m < FlatMax => << x, y >> \notin Flat[m + 1])
<1>0. /\ FlatMax \in Nat /\ << x, y >> \in Pairs
      /\ << Items(x)[n], Items(y)[n] >> \in ItemPairs(<< x, y >>)
  BY MaxOK, KindsAgree, ItemIsPair DEF Pairs
<1>1. ASSUME NEW l \in 1 .. FlatMax, << Items(x)[n], Items(y)[n] >> \notin Flat[l - 1]
      PROVE  << x, y >> \notin Flat[l]
  BY <1>0, <1>1, FlatIs DEF FlatIn
<1>2. m < FlatMax => m + 1 \in 1 .. FlatMax /\ m + 1 - 1 = m
  BY <1>0
<1>3. CASE m = 0
  BY <1>1, <1>2, <1>3, FlatIs
<1>4. CASE m # 0
  <2>1. m \in 1 .. FlatMax
    BY <1>0, <1>4
  <2>2. << Items(x)[n], Items(y)[n] >> \notin Flat[m - 1]
    BY <2>1, FlatIs
  <2> QED BY <1>1, <1>2, <2>1, <2>2
<1> QED BY <1>3, <1>4

LEMMA PlainFlat ==
  ASSUME NEW x, NEW y, << x, y >> \in Comparable, Kind(x) \in Plain, NEW m \in 1 .. FlatMax
  PROVE  << x, y >> \in Flat[m] /\ << y, x >> \in Flat[m]
<1>1. ItemPairs(<< x, y >>) = {} /\ ItemPairs(<< y, x >>) = {} /\ << x, y >> \in Pairs /\ << y, x >> \in Pairs
  BY PlainAlike, ComparableIs DEF ItemPairs
<1> QED BY <1>1, FlatIs DEF FlatIn

-----------------------------------------------------------------------------
(***************************************************************************)
(* The invariant of a comparison that must be exact.                       *)
(***************************************************************************)
\* A comparison has not come past the function that answers, and all items
\* before the one it is at are equal.
FrameOK(c) ==
  /\ c \in Frames /\ Pair(c) \in Comparable
  /\ c.op \notin {"==", "!="} => Kind(c.x) = "Integer"
  /\ c.op = "==" => c.i <= Answerer[Kind(c.x)]
  /\ c.op # "==" => c.i = 1
  /\ c.op = "==" /\ c.k > 0 =>
       /\ Kind(c.x) \in Containers /\ c.i = Answerer[Kind(c.x)]
       /\ ~Mismatch(c.x, c.y) /\ c.k <= Len(Items(c.x))
       /\ \A n \in 1 .. c.k - 1 : ItemPair(c, n) \in Alike
  /\ c.op = "<=" => c.k \in 0 .. 2 /\ (c.k # 0 => (c.k = 2 <=> Val(c.x) < Val(c.y)))
  /\ c.op \notin {"==", "<="} => c.k = 0

\* op on << x, y >> is what a comparison waits for.
InnerOp(c) ==
  IF c.op = "==" THEN IF Kind(c.x) = "Array" THEN "!=" ELSE "=="
  ELSE IF c.op = "!=" THEN "==" ELSE IF c.k = 0 THEN "<" ELSE "=="
InnerPair(c) == IF c.op = "==" THEN ItemPair(c, c.k) ELSE Pair(c)
CanWait(c) == (c.op = "==" /\ c.k > 0) \/ c.op \in {"!=", "<="}
StackOK ==
  /\ ops \in Seq(Frames)
  /\ \A n \in 1 .. Len(ops) : FrameOK(ops[n])
  /\ \A n \in 1 .. Len(ops) - 1 :
       CanWait(ops[n]) /\ ops[n + 1].op = InnerOp(ops[n]) /\ Pair(ops[n + 1]) = InnerPair(ops[n])

Holds(op, p) == Truth(Meaning(op, p[1], p[2]))
RootOK ==
  /\ asked \in Frames
  /\ ops # << >> =>
       \/ ops[1].op = asked.op /\ Pair(ops[1]) = Pair(asked)
       \/ /\ << asked.op, ops[1].op >> \in {<< ">", "<" >>, << ">=", "<=" >>}
          /\ ops[1].x = asked.y /\ ops[1].y = asked.x
AnswerOK ==
  /\ ret \in {"running", "yes", "no", "error", "crash"}
  /\ ret = "running" => /\ ops # << >>
                        /\ Top.op # "==" => Top.k = 0
                        /\ Top.op = "==" /\ Top.k > 0 => ItemPair(Top, Top.k) \in Alike
  /\ ret # "running" /\ ops # << >> => CanWait(Top)
  /\ ret \in {"yes", "no"} =>
       ret = IF ops # << >> THEN Holds(InnerOp(Top), InnerPair(Top)) ELSE Holds(asked.op, Pair(asked))
  /\ ret = "error" => Pair(asked) \notin Flat[DepthMax]
  /\ ret = "crash" => ops = << >> /\ Pair(asked) \notin Flat[MappingMax]

\* The functions that wait for items below a comparison nest its outermost pair.
ItemsWait(c) == c.op = "==" /\ c.k > 0
Waiting(n) == Cardinality({j \in 1 .. n - 1 : ItemsWait(ops[j])})
DeepOK ==
  \A n \in 1 .. Len(ops), m \in 0 .. FlatMax, e \in 0 .. FlatMax :
    e <= Waiting(n) /\ m + e <= FlatMax /\ Pair(ops[n]) \notin Flat[m]
      => Pair(ops[1]) \notin Flat[m + e]
EqArrayOK ==
  /\ eq_array \in Seq(DOMAIN KindOf \cup OFunctions)
  /\ Len(eq_array) >= 7
  /\ \A n \in 1 .. 7 : eq_array[n] = EqFunctions[n]
Exactly == RootOK /\ StackOK /\ AnswerOK /\ DeepOK
CompareInv == EqArrayOK /\ (Exact => Exactly)

LEMMA Stacks ==
  ASSUME ops \in Seq(Frames), ops # << >>, NEW c \in Frames,
         NEW t, t = [ops EXCEPT ![Len(ops)] = c]
  PROVE  /\ Len(ops) \in Nat \ {0} /\ Top \in Frames
         /\ t \in Seq(Frames) /\ Len(t) = Len(ops) /\ t[Len(ops)] = c
         /\ \A n \in 1 .. Len(ops) - 1 : t[n] = ops[n]
         /\ Front(ops) \in Seq(Frames) /\ Len(Front(ops)) = Len(ops) - 1
         /\ \A n \in 1 .. Len(ops) - 1 : Front(ops)[n] = ops[n]
<1>1. Len(ops) \in Nat \ {0} /\ Top \in Frames
  BY DEF Top
<1>2. /\ Front(ops) \in Seq(Frames) /\ Len(Front(ops)) = Len(ops) - 1
      /\ \A n \in 1 .. Len(ops) - 1 : Front(ops)[n] = ops[n]
  <2> DEFINE l == Len(ops) - 1
  <2>1. l \in Int /\ l >= 0 /\ \A n \in 1 .. l : ops[n] \in Frames
    BY <1>1
  <2> HIDE DEF l
  <2>2. /\ SubSeq(ops, 1, l) \in Seq(Frames) /\ Len(SubSeq(ops, 1, l)) = IF 1 <= l THEN l - 1 + 1 ELSE 0
        /\ \A n \in 1 .. l - 1 + 1 : SubSeq(ops, 1, l)[n] = ops[1 + n - 1]
    BY <2>1, SubSeqProperties
  <2>3. /\ SubSeq(ops, 1, l) \in Seq(Frames) /\ Len(SubSeq(ops, 1, l)) = l
        /\ \A n \in 1 .. l : SubSeq(ops, 1, l)[n] = ops[n]
    BY <2>1, <2>2
  <2> QED BY <2>3 DEF Front, l
<1>3. t \in Seq(Frames) /\ Len(t) = Len(ops) /\ t[Len(ops)] = c
      /\ \A n \in 1 .. Len(ops) - 1 : t[n] = ops[n]
  BY <1>1
<1> QED BY <1>1, <1>2, <1>3

LEMMA TopOK ==
  ASSUME Exactly, ops # << >>
  PROVE  /\ Len(ops) \in Nat \ {0} /\ FrameOK(Top) /\ FrameOK(ops[1])
         /\ Top \in Frames /\ ops \in Seq(Frames)
BY Stacks DEF Exactly, StackOK, Top

\* The first comparison means what was asked for.
LEMMA RootHolds ==
  ASSUME Exactly, Exact, ops # << >>
  PROVE  /\ Holds(ops[1].op, Pair(ops[1])) = Holds(asked.op, Pair(asked))
         /\ \A m \in 1 .. FlatMax : Pair(ops[1]) \notin Flat[m] => Pair(asked) \notin Flat[m]
<1>1. CASE ops[1].op = asked.op /\ Pair(ops[1]) = Pair(asked)
  BY <1>1
<1>2. CASE /\ << asked.op, ops[1].op >> \in {<< ">", "<" >>, << ">=", "<=" >>}
           /\ ops[1].x = asked.y /\ ops[1].y = asked.x
  <2>1. Kind(asked.x) = "Integer" /\ << asked.x, asked.y >> \in Comparable
    BY <1>2 DEF Exact
  <2>2. Val(asked.x) \in Int /\ Val(asked.y) \in Int
    BY <2>1, KindsAgree, OperatorAssumption
  <2>3. \A m \in 1 .. FlatMax : << asked.y, asked.x >> \in Flat[m]
    BY <2>1, PlainFlat DEF Plain
  <2>4. Holds(ops[1].op, Pair(ops[1])) = Holds(asked.op, Pair(asked))
    BY <1>2, <2>2 DEF Holds, Meaning, Pair
  <2> QED BY <1>2, <2>3, <2>4 DEF Pair
<1> QED BY <1>1, <1>2 DEF Exactly, RootOK

\* The frames below a frame that has not changed are as many.
LEMMA SameWaiting ==
  ASSUME NEW n, \A j \in 1 .. n - 1 : ops'[j] = ops[j]
  PROVE  Waiting(n)' = Waiting(n)
BY DEF Waiting, ItemsWait

\* With one frame more there is at most one more, if that one waits.
LEMMA OneMoreWaiting ==
  ASSUME NEW l \in Nat \ {0}, \A j \in 1 .. l - 1 : ops'[j] = ops[j],
         NEW c, ops'[l] = c
  PROVE  /\ Waiting(l) \in Nat /\ Waiting(l + 1)' \in Nat
         /\ Waiting(l + 1)' <= (IF ItemsWait(c) THEN Waiting(l) + 1 ELSE Waiting(l))
<1> DEFINE S == {j \in 1 .. l - 1 : ItemsWait(ops[j])}
<1>1. IsFiniteSet(S) /\ Cardinality(S) \in Nat
  <2>1. IsFiniteSet(1 .. l - 1)
    BY FS_Interval
  <2>2. S \subseteq 1 .. l - 1
    OBVIOUS
  <2> HIDE DEF S
  <2> QED BY <2>1, <2>2, FS_Subset, FS_CardinalityType
<1>2. {j \in 1 .. l + 1 - 1 : ItemsWait(ops[j])}' = IF ItemsWait(c) THEN S \cup {l} ELSE S
  <2>1. ItemsWait(ops[l])' <=> ItemsWait(c)
    BY DEF ItemsWait
  <2>2. \A j \in 1 .. l - 1 : ItemsWait(ops[j])' <=> ItemsWait(ops[j])
    BY DEF ItemsWait
  <2>3. \A j : j \in 1 .. l + 1 - 1 <=> j = l \/ j \in 1 .. l - 1
    OBVIOUS
  <2> QED BY <2>1, <2>2, <2>3
<1>3. Waiting(l) = Cardinality(S)
  BY DEF Waiting
<1> DEFINE U == IF ItemsWait(c) THEN S \cup {l} ELSE S
<1>4. Waiting(l + 1)' = Cardinality(U)
  <2>1. {j \in 1 .. l + 1 - 1 : ItemsWait(ops[j])}' = U
    BY <1>2
  <2> HIDE DEF U
  <2> QED BY <2>1 DEF Waiting
<1> HIDE DEF S
<1>5. Cardinality(S \cup {l}) <= Cardinality(S) + 1 /\ Cardinality(S \cup {l}) \in Nat
  BY <1>1, FS_AddElement
<1> QED BY <1>1, <1>3, <1>4, <1>5

(***************************************************************************)
(* What a turn of the loop does to the stack.                              *)
(***************************************************************************)
LEMMA BecomesKeeps ==
  ASSUME Exactly, ops # << >>, UNCHANGED << eq_array, asked >>, NEW c, Becomes(c), FrameOK(c),
         c.op = Top.op, Pair(c) = Pair(Top), c.op # "==" => c.k = 0,
         c.op = "==" /\ c.k > 0 => ItemPair(c, c.k) \in Alike
  PROVE  Exactly'
<1>1. /\ ops' = [ops EXCEPT ![Len(ops)] = c] /\ ret' = "running" /\ c \in Frames
      /\ ops \in Seq(Frames) /\ eq_array' = eq_array /\ asked' = asked
  BY DEF Becomes, FrameOK, Exactly, StackOK
<1>2. /\ Len(ops) \in Nat \ {0} /\ ops' \in Seq(Frames) /\ Len(ops') = Len(ops) /\ ops'[Len(ops)] = c
      /\ \A n \in 1 .. Len(ops) - 1 : ops'[n] = ops[n]
  BY <1>1, Stacks
<1>3. /\ \A n \in 1 .. Len(ops) : ops'[n].op = ops[n].op /\ Pair(ops'[n]) = Pair(ops[n])
      /\ \A n \in 1 .. Len(ops) : n = Len(ops) \/ n \in 1 .. Len(ops) - 1
      /\ 1 \in 1 .. Len(ops) /\ Len(ops) \in 1 .. Len(ops)
  BY <1>2 DEF Top
<1>4. RootOK'
  BY <1>1, <1>2, <1>3 DEF Exactly, RootOK, Pair
<1>5. StackOK'
  <2>1. \A n \in 1 .. Len(ops) : FrameOK(ops'[n])
    BY <1>2, <1>3 DEF Exactly, StackOK
  <2>2. \A n \in 1 .. Len(ops) - 1 : n \in 1 .. Len(ops) /\ n + 1 \in 1 .. Len(ops)
    BY <1>2
  <2>3. \A n \in 1 .. Len(ops) - 1 :
          CanWait(ops'[n]) /\ ops'[n + 1].op = InnerOp(ops'[n]) /\ Pair(ops'[n + 1]) = InnerPair(ops'[n])
    BY <1>2, <1>3, <2>2 DEF Exactly, StackOK
  <2> QED BY <1>2, <2>1, <2>3 DEF StackOK
<1>6. AnswerOK'
  BY <1>1, <1>2 DEF AnswerOK, Top
<1>7. DeepOK'
  <2>1. \A n \in 1 .. Len(ops) : Waiting(n)' = Waiting(n)
    <3>1. \A n \in 1 .. Len(ops) : \A j \in 1 .. n - 1 : ops'[j] = ops[j]
      BY <1>2
    <3> QED BY <1>1, <3>1, SameWaiting
  <2> QED BY <1>2, <1>3, <2>1 DEF Exactly, DeepOK
<1> QED BY <1>4, <1>5, <1>6, <1>7 DEF Exactly

LEMMA ReturnKeeps ==
  ASSUME Exactly, Exact, ops # << >>, UNCHANGED << eq_array, asked >>, NEW v, Return(v),
         \/ v \in {"yes", "no"} /\ v = Holds(Top.op, Pair(Top))
         \/ v = "error" /\ Pair(asked) \notin Flat[DepthMax]
  PROVE  Exactly'
<1>1. /\ ops' = Front(ops) /\ ret' = v /\ ops \in Seq(Frames)
      /\ eq_array' = eq_array /\ asked' = asked
  BY DEF Return, Exactly, StackOK
<1>2. /\ Len(ops) \in Nat \ {0} /\ ops' \in Seq(Frames) /\ Len(ops') = Len(ops) - 1
      /\ \A n \in 1 .. Len(ops) - 1 : ops'[n] = ops[n]
  BY <1>1, Stacks, TopOK
<1>3. ops' # << >> => /\ 1 \in 1 .. Len(ops) - 1 /\ Len(ops) - 1 \in 1 .. Len(ops) - 1
                     /\ Len(ops) - 1 + 1 = Len(ops)
  BY <1>2
<1>4. RootOK'
  BY <1>1, <1>2, <1>3 DEF Exactly, RootOK
<1>5. StackOK'
  <2>1. \A n \in 1 .. Len(ops) - 1 - 1 : n \in 1 .. Len(ops) - 1 /\ n + 1 \in 1 .. Len(ops) - 1
    BY <1>2
  <2> QED BY <1>2, <2>1 DEF Exactly, StackOK
<1>6. AnswerOK'
  <2>1. CASE ops' = << >>
    <3>0. Len(ops) - 1 = 0
      BY <1>2, <2>1
    <3>1. Len(ops) = 1
      <4>1. \A l \in Nat : l - 1 = 0 => l = 1
        OBVIOUS
      <4>2. Len(ops) \in Nat
        BY <1>2
      <4> QED BY <3>0, <4>1, <4>2, Zenon
    <3>2. Top = ops[1]
      BY <3>1 DEF Top
    <3>3. v \in {"yes", "no"} => v = Holds(asked.op, Pair(asked))
      BY <3>2, RootHolds
    <3> QED BY <1>1, <2>1, <3>3 DEF AnswerOK
  <2>2. CASE ops' # << >>
    <3>1. Top' = ops[Len(ops) - 1]
      BY <1>2, <1>3, <2>2 DEF Top
    <3>2. CanWait(Top') /\ Top.op = InnerOp(Top') /\ Pair(Top) = InnerPair(Top')
      BY <1>3, <2>2, <3>1 DEF Exactly, StackOK, Top
    <3>3. v \in {"yes", "no"} => v = Holds(InnerOp(Top'), InnerPair(Top'))
      BY <3>2
    <3> QED BY <1>1, <2>2, <3>2, <3>3 DEF AnswerOK
  <2> QED BY <2>1, <2>2
<1>7. DeepOK'
  <2>1. \A n \in 1 .. Len(ops) - 1 : Waiting(n)' = Waiting(n) /\ n \in 1 .. Len(ops)
    <3>1. \A n \in 1 .. Len(ops) - 1 : \A j \in 1 .. n - 1 : ops'[j] = ops[j]
      BY <1>2
    <3> QED BY <1>1, <1>2, <3>1, SameWaiting
  <2>2. \A n \in 1 .. Len(ops) - 1 : ops'[1] = ops[1]
    BY <1>2
  <2> SUFFICES ASSUME NEW n \in 1 .. Len(ops) - 1, NEW m \in 0 .. FlatMax, NEW e \in 0 .. FlatMax,
                      e <= Waiting(n)', m + e <= FlatMax, Pair(ops'[n]) \notin Flat[m]
               PROVE  Pair(ops'[1]) \notin Flat[m + e]
    BY <1>2 DEF DeepOK
  <2>3. Pair(ops[1]) \notin Flat[m + e]
    BY <1>2, <2>1 DEF Exactly, DeepOK
  <2> QED BY <2>2, <2>3
<1> QED BY <1>4, <1>5, <1>6, <1>7 DEF Exactly


LEMMA CallsKeeps ==
  ASSUME Exactly, ops # << >>, UNCHANGED << eq_array, asked >>,
         NEW c, NEW d, ops' = Append([ops EXCEPT ![Len(ops)] = c], d), ret' = "running",
         FrameOK(c), FrameOK(d), c.op = Top.op, Pair(c) = Pair(Top),
         CanWait(c), d.op = InnerOp(c), Pair(d) = InnerPair(c), d.k = 0,
         \A m \in 0 .. FlatMax :
           Pair(d) \notin Flat[m] =>
             Pair(c) \notin Flat[m] /\ (ItemsWait(c) /\ m < FlatMax => Pair(c) \notin Flat[m + 1])
  PROVE  Exactly'
<1>0. PICK l \in Nat \ {0} : l = Len(ops)
  BY TopOK
<1> DEFINE t == [ops EXCEPT ![Len(ops)] = c]
<1>1. /\ ops' = Append(t, d) /\ ret' = "running" /\ c \in Frames /\ d \in Frames
      /\ ops \in Seq(Frames) /\ eq_array' = eq_array /\ asked' = asked
  BY DEF FrameOK, Exactly, StackOK
<1>2. /\ l \in Nat \ {0} /\ t \in Seq(Frames) /\ Len(t) = l /\ t[l] = c
      /\ \A n \in 1 .. l - 1 : t[n] = ops[n]
  BY <1>0, <1>1, Stacks
<1> HIDE DEF t
<1>3. /\ l \in Nat \ {0} /\ ops' \in Seq(Frames) /\ Len(ops') = l + 1 /\ ops'[l] = c /\ ops'[l + 1] = d
      /\ \A n \in 1 .. l - 1 : ops'[n] = ops[n]
  BY <1>1, <1>2
<1>4. Top = ops[l]
  BY <1>0 DEF Top
<1>5. /\ \A n \in 1 .. l : ops'[n].op = ops[n].op /\ Pair(ops'[n]) = Pair(ops[n])
      /\ \A n \in 1 .. l : n = l \/ n \in 1 .. l - 1
      /\ 1 \in 1 .. l /\ l \in 1 .. l
  BY <1>3, <1>4
<1>6. RootOK'
  <2>1. ops' # << >>
    BY <1>3
  <2>2. \/ ops[1].op = asked.op /\ Pair(ops[1]) = Pair(asked)
        \/ /\ << asked.op, ops[1].op >> \in {<< ">", "<" >>, << ">=", "<=" >>}
           /\ ops[1].x = asked.y /\ ops[1].y = asked.x
    BY DEF Exactly, RootOK
  <2>3. asked \in Frames
    BY DEF Exactly, RootOK
  <2> QED BY <1>1, <1>5, <2>1, <2>2, <2>3 DEF RootOK, Pair
<1>7. StackOK'
  <2>0. /\ \A n \in 1 .. l + 1 : n = l + 1 \/ n = l \/ n \in 1 .. l - 1
        /\ \A n \in 1 .. l - 1 : n \in 1 .. l /\ n + 1 \in 1 .. l /\ n \in 1 .. Len(ops) - 1 /\ n \in 1 .. Len(ops)
    BY <1>0, <1>3
  <2>1. \A n \in 1 .. l + 1 : FrameOK(ops'[n])
    BY <1>3, <2>0 DEF Exactly, StackOK
  <2>2. ASSUME NEW n \in 1 .. l + 1 - 1
        PROVE  CanWait(ops'[n]) /\ ops'[n + 1].op = InnerOp(ops'[n]) /\ Pair(ops'[n + 1]) = InnerPair(ops'[n])
    <3>1. CASE n = l
      BY <1>3, <3>1
    <3>2. CASE n # l
      <4>1. n \in 1 .. l - 1
        BY <1>3, <3>2
      <4>2. CanWait(ops[n]) /\ ops[n + 1].op = InnerOp(ops[n]) /\ Pair(ops[n + 1]) = InnerPair(ops[n])
        BY <2>0, <4>1 DEF Exactly, StackOK
      <4> QED BY <1>3, <1>5, <2>0, <4>1, <4>2
    <3> QED BY <3>1, <3>2
  <2> QED BY <1>3, <2>1, <2>2 DEF StackOK
<1>8. AnswerOK'
  <2>1. Top' = d /\ ops' # << >>
    BY <1>3 DEF Top
  <2>2. d.k = 0 /\ ~(d.k > 0)
    OBVIOUS
  <2> QED BY <1>1, <2>1, <2>2 DEF AnswerOK
<1>9. DeepOK'
  <2>1. \A n \in 1 .. l : Waiting(n)' = Waiting(n)
    <3>1. \A n \in 1 .. l : \A j \in 1 .. n - 1 : ops'[j] = ops[j]
      BY <1>3
    <3> QED BY <1>1, <3>1, SameWaiting
  <2>2. /\ Waiting(l) \in Nat /\ Waiting(l + 1)' \in Nat
        /\ Waiting(l + 1)' <= (IF ItemsWait(c) THEN Waiting(l) + 1 ELSE Waiting(l))
    BY <1>3, OneMoreWaiting
  <2> SUFFICES ASSUME NEW n \in 1 .. l + 1, NEW m \in 0 .. FlatMax, NEW e \in 0 .. FlatMax,
                      e <= Waiting(n)', m + e <= FlatMax, Pair(ops'[n]) \notin Flat[m]
               PROVE  Pair(ops'[1]) \notin Flat[m + e]
    BY <1>3 DEF DeepOK
  <2>3. Pair(ops'[1]) = Pair(ops[1]) /\ FlatMax \in Nat /\ l = Len(ops)
    BY <1>0, <1>5, MaxOK
  <2>4. CASE n \in 1 .. l
    <3>1. Pair(ops[n]) \notin Flat[m] /\ e <= Waiting(n)
      BY <1>5, <2>1, <2>4
    <3> QED BY <2>3, <2>4, <3>1 DEF Exactly, DeepOK
  <2>5. CASE n = l + 1
    <3>1. Pair(d) \notin Flat[m] /\ Pair(ops[l]) = Pair(c) /\ l \in 1 .. Len(ops)
      BY <1>3, <1>4, <1>5, <2>3, <2>5
    <3>2. CASE e <= Waiting(l)
      <4>1. Pair(ops[l]) \notin Flat[m]
        BY <3>1
      <4> QED BY <2>3, <3>1, <3>2, <4>1 DEF Exactly, DeepOK
    <3>3. CASE ~(e <= Waiting(l))
      <4>1. ItemsWait(c) /\ e - 1 <= Waiting(l) /\ e - 1 \in 0 .. FlatMax /\ m + 1 \in 0 .. FlatMax
            /\ m < FlatMax /\ m + 1 + (e - 1) = m + e
        <5>1. e <= Waiting(l + 1)'
          BY <2>5, Zenon
        <5>2. ItemsWait(c) /\ e <= Waiting(l) + 1
          BY <2>2, <3>3, <5>1
        <5> QED BY <2>2, <2>3, <3>3, <5>2
      <4>2. Pair(ops[l]) \notin Flat[m + 1]
        BY <3>1, <4>1
      <4> QED BY <2>3, <3>1, <4>1, <4>2 DEF Exactly, DeepOK
    <3> QED BY <3>2, <3>3
  <2> QED BY <2>4, <2>5, <1>3
<1> QED BY <1>6, <1>7, <1>8, <1>9 DEF Exactly


(***************************************************************************)
(* Each step of a comparison.                                              *)
(***************************************************************************)
LEMMA FreshOK ==
  ASSUME NEW op \in Comparisons, NEW x, NEW y, << x, y >> \in Comparable,
         op \in {"==", "!="} \/ Kind(x) = "Integer"
  PROVE  /\ FrameOK(Comparison(op, x, y)) /\ Pair(Comparison(op, x, y)) = << x, y >>
         /\ Comparison(op, x, y).op = op /\ Comparison(op, x, y).k = 0
         /\ Comparison(op, x, y).x = x /\ Comparison(op, x, y).y = y
<1>1. x \in Things /\ y \in Things /\ Kind(x) \in Plain \cup Containers
  BY KindsAgree
<1>2. Answerer[Kind(x)] \in 1 .. 7
  BY <1>1 DEF Answerer, Plain, Containers
<1>3. Comparison(op, x, y) \in Frames
  BY <1>1 DEF Comparison, Frames
<1> QED BY <1>1, <1>2, <1>3 DEF FrameOK, Comparison, Pair

LEMMA FlipKeeps ==
  ASSUME Exactly, Exact, UNCHANGED << eq_array, asked >>, Flip
  PROVE  Exactly'
<1> DEFINE c == Comparison(IF Top.op = ">" THEN "<" ELSE "<=", Top.y, Top.x)
<1>1. ops # << >> /\ Top.op \in {">", ">="} /\ Becomes(c)
  BY DEF Flip, Running
<1>2. FrameOK(Top) /\ Top \in Frames /\ Len(ops) \in Nat \ {0} /\ ops \in Seq(Frames)
  BY <1>1, TopOK
<1>3. Kind(Top.x) = "Integer" /\ << Top.x, Top.y >> \in Comparable
  BY <1>1, <1>2 DEF FrameOK, Pair
<1>4. << Top.y, Top.x >> \in Comparable /\ Kind(Top.y) = "Integer"
  BY <1>3, PlainAlike, KindsAgree DEF Plain
<1>5. /\ FrameOK(c) /\ c.op = (IF Top.op = ">" THEN "<" ELSE "<=") /\ c.k = 0
      /\ c.x = Top.y /\ c.y = Top.x /\ c \in Frames
  BY <1>4, FreshOK DEF Comparisons, FrameOK
<1> HIDE DEF c
<1>6. Len(ops) = 1
  <2>1. SUFFICES ASSUME Len(ops) # 1 PROVE FALSE
    OBVIOUS
  <2>2. Len(ops) - 1 \in 1 .. Len(ops) - 1 /\ Len(ops) - 1 + 1 = Len(ops)
    <3>1. \A l \in Nat \ {0} : l # 1 => l - 1 \in 1 .. l - 1 /\ l - 1 + 1 = l
      OBVIOUS
    <3> QED BY <1>2, <2>1, <3>1, Zenon
  <2>3. Top.op = InnerOp(ops[Len(ops) - 1])
    BY <2>2 DEF Exactly, StackOK, Top
  <2> QED BY <1>1, <2>3 DEF InnerOp
<1>7. ops' \in Seq(Frames) /\ Len(ops') = 1 /\ ops'[1] = c /\ ops' # << >> /\ ret' = "running"
      /\ Top = ops[1] /\ Top' = c
  BY <1>1, <1>2, <1>5, <1>6, Stacks DEF Becomes, Top
<1>8. ops[1].op = asked.op /\ Pair(ops[1]) = Pair(asked)
  BY <1>1, <1>7 DEF Exactly, RootOK
<1>9. RootOK'
  BY <1>1, <1>5, <1>7, <1>8 DEF Exactly, RootOK, Pair
<1>10. StackOK'
  BY <1>5, <1>7 DEF StackOK
<1>11. AnswerOK'
  BY <1>5, <1>7 DEF AnswerOK
<1>12. DeepOK'
  <2>1. Waiting(1)' = 0
    <3>1. {j \in 1 .. 1 - 1 : ItemsWait(ops[j])}' = {}
      OBVIOUS
    <3> QED BY <3>1, FS_EmptySet DEF Waiting
  <2> SUFFICES ASSUME NEW n \in 1 .. 1, NEW m \in 0 .. FlatMax, NEW e \in 0 .. FlatMax,
                      e <= Waiting(n)', m + e <= FlatMax, Pair(ops'[n]) \notin Flat[m]
               PROVE  Pair(ops'[1]) \notin Flat[m + e]
    BY <1>7 DEF DeepOK
  <2>2. n = 1 /\ e = 0 /\ m + e = m
    BY <2>1, MaxOK
  <2> QED BY <2>2
<1> QED BY <1>9, <1>10, <1>11, <1>12 DEF Exactly

\* The comparison that a comparison of the same two things waits for.
LEMMA CallsSame ==
  ASSUME Exactly, ops # << >>, UNCHANGED << eq_array, asked >>,
         NEW c, FrameOK(c), c.op \in {"!=", "<="}, c.op = Top.op, c.x = Top.x, c.y = Top.y,
         Calls(c, InnerOp(c), c.x, c.y)
  PROVE  Exactly'
<1> DEFINE d == Comparison(InnerOp(c), c.x, c.y)
<1>1. << c.x, c.y >> \in Comparable /\ InnerOp(c) \in Comparisons
      /\ (InnerOp(c) \in {"==", "!="} \/ Kind(c.x) = "Integer")
  BY DEF FrameOK, Pair, InnerOp, Comparisons
<1>2. FrameOK(d) /\ Pair(d) = << c.x, c.y >> /\ d.op = InnerOp(c) /\ d.k = 0
  BY <1>1, FreshOK
<1>3. ops' = Append([ops EXCEPT ![Len(ops)] = c], d) /\ ret' = "running"
  BY DEF Calls
<1> HIDE DEF d
<1>4. CanWait(c) /\ Pair(d) = InnerPair(c) /\ Pair(c) = Pair(Top) /\ ~ItemsWait(c) /\ Pair(d) = Pair(c)
  BY <1>2 DEF CanWait, InnerPair, Pair, ItemsWait
<1> QED BY <1>2, <1>3, <1>4, CallsKeeps

LEMMA NotEqualKeeps ==
  ASSUME Exactly, Exact, UNCHANGED << eq_array, asked >>, NotEqual
  PROVE  Exactly'
<1>1. ops # << >> /\ Top.op = "!=" /\ FrameOK(Top)
  BY TopOK DEF NotEqual, Running, Returned
<1>2. CASE Running({"!="}) /\ Calls(Top, "==", Top.x, Top.y)
  <2>1. InnerOp(Top) = "=="
    BY <1>1 DEF InnerOp
  <2> QED BY <1>1, <1>2, <2>1, CallsSame
<1>3. CASE Returned /\ Return(IF ret = "error" THEN "error" ELSE Truth(ret = "no"))
  <2>1. /\ ret \in {"yes", "no", "error"} /\ (ret = "error" => Pair(asked) \notin Flat[DepthMax])
        /\ ret \in {"yes", "no"} => ret = Holds(InnerOp(Top), InnerPair(Top))
    BY <1>1, <1>3 DEF Exactly, AnswerOK, Returned
  <2>2. ret \in {"yes", "no"} => ret = Holds("==", Pair(Top))
    BY <1>1, <2>1 DEF InnerOp, InnerPair
  <2>3. ret \in {"yes", "no"} => Truth(ret = "no") = Holds("!=", Pair(Top)) /\ Truth(ret = "no") \in {"yes", "no"}
    BY <2>2 DEF Holds, Meaning, Truth
  <2> DEFINE v == IF ret = "error" THEN "error" ELSE Truth(ret = "no")
  <2>4. \/ v \in {"yes", "no"} /\ v = Holds(Top.op, Pair(Top))
        \/ v = "error" /\ Pair(asked) \notin Flat[DepthMax]
    BY <1>1, <2>1, <2>3
  <2>5. Return(v)
    BY <1>3
  <2> HIDE DEF v
  <2> QED BY <1>1, <2>4, <2>5, ReturnKeeps
<1> QED BY <1>2, <1>3 DEF NotEqual

LEMMA LessEqualKeeps ==
  ASSUME Exactly, Exact, UNCHANGED << eq_array, asked >>, LessEqual
  PROVE  Exactly'
<1>1. ops # << >> /\ Top.op = "<=" /\ FrameOK(Top) /\ Top \in Frames
  BY TopOK DEF LessEqual, LessEqualFirst, Running, Returned
<1>2. /\ << Top.x, Top.y >> \in Comparable /\ Kind(Top.x) = "Integer"
      /\ Val(Top.x) \in Int /\ Val(Top.y) \in Int
      /\ << Top.x, Top.y >> \in Alike <=> Val(Top.x) = Val(Top.y)
      /\ Top.k \in 0 .. 2 /\ (Top.k # 0 => (Top.k = 2 <=> Val(Top.x) < Val(Top.y)))
  <2>1. /\ << Top.x, Top.y >> \in Comparable /\ Kind(Top.x) = "Integer"
        /\ Top.k \in 0 .. 2 /\ (Top.k # 0 => (Top.k = 2 <=> Val(Top.x) < Val(Top.y)))
    BY <1>1 DEF FrameOK, Pair
  <2> QED BY <2>1, KindsAgree, PlainAlike, OperatorAssumption DEF Plain
<1>3. Returned => /\ ret \in {"yes", "no", "error"} /\ (ret = "error" => Pair(asked) \notin Flat[DepthMax])
                  /\ ret \in {"yes", "no"} => ret = Holds(InnerOp(Top), Pair(Top))
  BY <1>1 DEF Exactly, AnswerOK, Returned, InnerPair
<1>4. CASE Running({"<="}) /\ Calls(Top, "<", Top.x, Top.y)
  <2>1. Top.k = 0
    BY <1>1, <1>4 DEF Exactly, AnswerOK, Running
  <2>2. InnerOp(Top) = "<"
    BY <1>1, <2>1 DEF InnerOp
  <2> QED BY <1>1, <1>4, <2>2, CallsSame
<1>5. CASE LessEqualFirst
  <2>1. Returned /\ Top.k = 0 /\ InnerOp(Top) = "<"
    BY <1>1, <1>5 DEF LessEqualFirst, InnerOp
  <2>2. CASE ret = "error"
    BY <1>1, <1>3, <1>5, <2>1, <2>2, ReturnKeeps DEF LessEqualFirst
  <2>3. CASE ret # "error"
    <3> DEFINE c == [Top EXCEPT !.k = IF ret = "yes" THEN 2 ELSE 1]
    <3>1. ret = Truth(Val(Top.x) < Val(Top.y))
      BY <1>3, <2>1, <2>3 DEF Holds, Meaning, Pair
    <3>2. /\ c \in Frames /\ c.op = "<=" /\ c.x = Top.x /\ c.y = Top.y /\ c.i = Top.i
          /\ c.k = IF ret = "yes" THEN 2 ELSE 1
      BY <1>1 DEF Frames
    <3>3. Calls(c, "==", c.x, c.y)
      BY <1>5, <2>3, <3>2 DEF LessEqualFirst
    <3> HIDE DEF c
    <3>4. c.k \in 0 .. 2 /\ c.k # 0 /\ (c.k = 2 <=> Val(c.x) < Val(c.y))
      BY <3>1, <3>2 DEF Truth
    <3>5. FrameOK(c)
      BY <1>1, <3>2, <3>4 DEF FrameOK, Pair
    <3>6. InnerOp(c) = "=="
      BY <3>2, <3>4 DEF InnerOp
    <3> QED BY <1>1, <3>2, <3>3, <3>5, <3>6, CallsSame
  <2> QED BY <2>2, <2>3
<1>6. CASE /\ Returned /\ Top.k # 0
           /\ Return(IF ret = "error" THEN "error" ELSE Truth(Top.k = 2 \/ ret = "yes"))
  <2>1. InnerOp(Top) = "=="
    BY <1>1, <1>6 DEF InnerOp
  <2> DEFINE v == IF ret = "error" THEN "error" ELSE Truth(Top.k = 2 \/ ret = "yes")
  <2>2. ret # "error" => ret = Truth(Val(Top.x) = Val(Top.y))
    BY <1>2, <1>3, <1>6, <2>1 DEF Holds, Meaning, Pair
  <2>3. ret # "error" => v = Truth(Val(Top.x) <= Val(Top.y))
    BY <1>2, <1>6, <2>2 DEF Truth
  <2>4. Holds(Top.op, Pair(Top)) = Truth(Val(Top.x) <= Val(Top.y))
    BY <1>1 DEF Holds, Meaning, Pair
  <2>5. Return(v)
    BY <1>6
  <2>6. \/ v \in {"yes", "no"} /\ v = Holds(Top.op, Pair(Top))
        \/ v = "error" /\ Pair(asked) \notin Flat[DepthMax]
    BY <1>3, <1>6, <2>3, <2>4 DEF Truth
  <2> HIDE DEF v
  <2> QED BY <1>1, <2>5, <2>6, ReturnKeeps
<1> QED BY <1>1, <1>4, <1>5, <1>6 DEF LessEqual

\* The function that is asked, and that the loop does not run out of them.
LEMMA AskedFunction ==
  ASSUME Exactly, EqArrayOK, Looping
  PROVE  /\ ops # << >> /\ ret = "running" /\ FrameOK(Top) /\ Top \in Frames
         /\ Top.x \in Things /\ Top.y \in Things /\ << Top.x, Top.y >> \in Comparable
         /\ Kind(Top.x) = Kind(Top.y) /\ Kind(Top.x) \in Plain \cup Containers
         /\ Top.i <= Len(Array(Top.op))
         /\ Top.op = "<" => F = "integer_lt" /\ Kind(Top.x) = "Integer"
         /\ Top.op = "==" => F = EqFunctions[Top.i] /\ Top.i \in 1 .. 7 /\ Top.i <= Answerer[Kind(Top.x)]
         /\ Top.op \in {"==", "<"}
<1>1. ops # << >> /\ ret = "running" /\ Top.op \in {"==", "<"}
  BY DEF Looping, Running
<1>2. FrameOK(Top) /\ Top \in Frames /\ << Top.x, Top.y >> \in Comparable
  BY <1>1, TopOK DEF FrameOK, Pair
<1>3. /\ Top.x \in Things /\ Top.y \in Things /\ Kind(Top.x) = Kind(Top.y)
      /\ Kind(Top.x) \in Plain \cup Containers
  BY <1>2, KindsAgree
<1>4. CASE Top.op = "<"
  <2>1. Top.i = 1 /\ Kind(Top.x) = "Integer" /\ Array(Top.op) = << "integer_lt" >>
    BY <1>2, <1>4 DEF FrameOK, Array
  <2>2. F = "integer_lt" /\ Top.i <= Len(Array(Top.op))
    BY <2>1 DEF F
  <2> QED BY <1>1, <1>2, <1>3, <1>4, <2>1, <2>2
<1>5. CASE Top.op = "=="
  <2>1. Answerer[Kind(Top.x)] \in 1 .. 7
    BY <1>3 DEF Answerer, Plain, Containers
  <2>2. Top.i \in Nat \ {0} /\ Top.i <= Answerer[Kind(Top.x)] /\ Array(Top.op) = eq_array
    BY <1>2, <1>5 DEF FrameOK, Frames, Array
  <2>3. Top.i \in 1 .. 7
    BY <2>1, <2>2
  <2>4. Len(eq_array) >= 7 /\ Len(eq_array) \in Nat /\ eq_array[Top.i] = EqFunctions[Top.i]
    BY <2>3 DEF EqArrayOK
  <2>5. F = EqFunctions[Top.i] /\ Top.i <= Len(Array(Top.op))
    BY <2>2, <2>3, <2>4 DEF F
  <2> QED BY <1>1, <1>2, <1>3, <1>5, <2>2, <2>3, <2>5
<1> QED BY <1>1, <1>4, <1>5

\* A function that does not answer for these kinds is not the last one asked.
LEMMA NextKeeps ==
  ASSUME Exactly, EqArrayOK, UNCHANGED << eq_array, asked >>, Looping, NextFunction,
         Top.op = "==", Top.i # Answerer[Kind(Top.x)]
  PROVE  Exactly'
<1> DEFINE c == [Top EXCEPT !.i = @ + 1, !.k = 0]
<1>1. /\ ops # << >> /\ FrameOK(Top) /\ Top \in Frames /\ Top.i \in 1 .. 7
      /\ Top.i <= Answerer[Kind(Top.x)] /\ Kind(Top.x) \in Plain \cup Containers
  BY AskedFunction
<1>2. Becomes(c)
  BY DEF NextFunction
<1>3. c \in Frames /\ c.op = "==" /\ c.x = Top.x /\ c.y = Top.y /\ c.k = 0 /\ c.i = Top.i + 1
  <2> DEFINE t == Top
  <2>1. t \in Frames /\ t.i + 1 \in Nat \ {0} /\ t.op = "=="
    BY <1>1
  <2> HIDE DEF t
  <2>2. /\ [t EXCEPT !.i = @ + 1, !.k = 0] \in Frames
        /\ [t EXCEPT !.i = @ + 1, !.k = 0].op = "==" /\ [t EXCEPT !.i = @ + 1, !.k = 0].x = t.x
        /\ [t EXCEPT !.i = @ + 1, !.k = 0].y = t.y /\ [t EXCEPT !.i = @ + 1, !.k = 0].k = 0
        /\ [t EXCEPT !.i = @ + 1, !.k = 0].i = t.i + 1
    BY <2>1 DEF Frames
  <2> QED BY <2>2 DEF t
<1> HIDE DEF c
<1>4. c.i <= Answerer[Kind(Top.x)]
  <2>1. Answerer[Kind(Top.x)] \in 1 .. 7
    BY <1>1 DEF Answerer, Plain, Containers
  <2> QED BY <1>1, <1>3, <2>1
<1>5. FrameOK(c) /\ Pair(c) = Pair(Top)
  BY <1>1, <1>3, <1>4 DEF FrameOK, Pair
<1> QED BY <1>1, <1>2, <1>3, <1>5, BecomesKeeps

LEMMA NoAnswerKeeps ==
  ASSUME Exactly, EqArrayOK
  PROVE  ~NoAnswer
<1> SUFFICES ASSUME NoAnswer PROVE FALSE
  OBVIOUS
<1>1. Looping /\ Top.i > Len(Array(Top.op))
  BY DEF NoAnswer
<1>2. Top.i <= Len(Array(Top.op)) /\ Top.i \in Nat /\ Array(Top.op) \in Seq(DOMAIN KindOf \cup OFunctions \cup {"integer_lt"})
  BY <1>1, AskedFunction DEF Array, EqArrayOK, Frames
<1>3. Len(Array(Top.op)) \in Nat
  BY <1>2
<1> QED BY <1>1, <1>2, <1>3

LEMMA user_eqKeeps ==
  ASSUME Exactly, EqArrayOK
  PROVE  ~Asking({"user_eq"})
<1> SUFFICES ASSUME Asking({"user_eq"}) PROVE FALSE
  OBVIOUS
<1>1. Looping /\ F = "user_eq"
  BY DEF Asking
<1> QED BY <1>1, AskedFunction DEF EqFunctions

\* The answer of a function about two Integers, Strings or Bools.
LEMMA PlainAnswer ==
  ASSUME Exactly, Exact, EqArrayOK, UNCHANGED << eq_array, asked >>, Looping,
         Kind(Top.x) \in Plain, Top.op = "==", Return(Truth(Val(Top.x) = Val(Top.y)))
  PROVE  Exactly'
<1>1. << Top.x, Top.y >> \in Comparable /\ ops # << >>
  BY AskedFunction
<1>2. << Top.x, Top.y >> \in Alike <=> Val(Top.x) = Val(Top.y)
  BY <1>1, PlainAlike
<1> DEFINE v == Truth(Val(Top.x) = Val(Top.y))
<1>3. v \in {"yes", "no"} /\ v = Holds(Top.op, Pair(Top)) /\ Return(v)
  BY <1>2 DEF Holds, Meaning, Pair, Truth
<1> HIDE DEF v
<1> QED BY <1>1, <1>3, ReturnKeeps

LEMMA integer_eqKeeps ==
  ASSUME Exactly, Exact, EqArrayOK, UNCHANGED << eq_array, asked >>, integer_eq
  PROVE  Exactly'
<1>1. Looping /\ F = "integer_eq"
  BY DEF integer_eq, Asking
<1>2. Top.op = "==" /\ Top.i = 2 /\ Kind(Top.x) = Kind(Top.y) /\ Kind(Top.x) \in Plain \cup Containers
  BY <1>1, AskedFunction DEF EqFunctions
<1>3. CASE Kind(Top.x) = "Integer"
  <2>1. Both("integer_eq")
    BY <1>2, <1>3 DEF Both, KindOf
  <2> QED BY <1>1, <1>2, <1>3, <2>1, PlainAnswer DEF integer_eq, Plain
<1>4. CASE Kind(Top.x) # "Integer"
  <2>1. ~Both("integer_eq") /\ Top.i # Answerer[Kind(Top.x)]
    BY <1>2, <1>4 DEF Both, KindOf, Answerer, Plain, Containers
  <2> QED BY <1>1, <1>2, <1>4, <2>1, NextKeeps DEF integer_eq
<1> QED BY <1>3, <1>4

LEMMA integer_ltKeeps ==
  ASSUME Exactly, Exact, EqArrayOK, UNCHANGED << eq_array, asked >>, integer_lt
  PROVE  Exactly'
<1>1. Looping /\ F = "integer_lt"
  BY DEF integer_lt, Asking
<1>2. Top.op = "<" /\ Kind(Top.x) = "Integer" /\ Kind(Top.y) = "Integer" /\ ops # << >>
  BY <1>1, AskedFunction DEF EqFunctions
<1> DEFINE v == Truth(Val(Top.x) < Val(Top.y))
<1>3. v \in {"yes", "no"} /\ v = Holds(Top.op, Pair(Top)) /\ Return(v)
  BY <1>2 DEF Holds, Meaning, Pair, Truth, integer_lt
<1> HIDE DEF v
<1> QED BY <1>2, <1>3, ReturnKeeps

LEMMA PlainEqKeeps ==
  ASSUME Exactly, Exact, EqArrayOK, UNCHANGED << eq_array, asked >>, PlainEq
  PROVE  Exactly'
<1>1. Looping /\ F \in {"string_eq", "bool_eq"}
  BY DEF PlainEq, Asking
<1>2. /\ Top.op = "==" /\ Kind(Top.x) = Kind(Top.y) /\ Kind(Top.x) \in Plain \cup Containers
      /\ (F = "string_eq" /\ Top.i = 1) \/ (F = "bool_eq" /\ Top.i = 6)
  BY <1>1, AskedFunction DEF EqFunctions
<1>3. CASE Both(F)
  <2>1. Kind(Top.x) \in Plain
    BY <1>1, <1>3 DEF Both, KindOf, Plain
  <2> QED BY <1>1, <1>2, <1>3, <2>1, PlainAnswer DEF PlainEq
<1>4. CASE ~Both(F)
  <2>1. Top.i # Answerer[Kind(Top.x)]
    BY <1>2, <1>4 DEF Both, KindOf, Answerer, Plain, Containers
  <2> QED BY <1>1, <1>2, <1>4, <2>1, NextKeeps DEF PlainEq
<1> QED BY <1>3, <1>4

LEMMA same_objectKeeps ==
  ASSUME Exactly, Exact, EqArrayOK, UNCHANGED << eq_array, asked >>, same_object
  PROVE  Exactly'
<1>1. Looping /\ F = "same_object"
  BY DEF same_object, Asking
<1>2. /\ Top.op = "==" /\ Top.i = 4 /\ Kind(Top.x) \in Plain \cup Containers /\ ops # << >>
      /\ Top.x \in Things
  BY <1>1, AskedFunction DEF EqFunctions
<1>3. CASE Top.x = Top.y
  <2>1. Holds(Top.op, Pair(Top)) = "yes"
    BY <1>2, <1>3, Identical DEF Holds, Meaning, Pair, Truth
  <2> QED BY <1>2, <1>3, <2>1, ReturnKeeps DEF same_object
<1>4. CASE Top.x # Top.y
  <2>1. Top.i # Answerer[Kind(Top.x)]
    BY <1>2 DEF Answerer, Plain, Containers
  <2> QED BY <1>1, <1>2, <1>4, <2>1, NextKeeps DEF same_object
<1> QED BY <1>3, <1>4

\* Options, Arrays and Mappings.
LEMMA ItemsAsked ==
  ASSUME Exactly, EqArrayOK, Looping, F \in {"option_eq", "mapping_eq", "array_eq"}
  PROVE  /\ Top.op = "==" /\ (Both(F) <=> Top.i = Answerer[Kind(Top.x)])
         /\ Both(F) => Kind(Top.x) \in Containers /\ (F = "array_eq" <=> Kind(Top.x) = "Array")
<1>1. /\ Top.op = "==" /\ Kind(Top.x) = Kind(Top.y) /\ Kind(Top.x) \in Plain \cup Containers
      /\ (F = "mapping_eq" /\ Top.i = 3) \/ (F = "option_eq" /\ Top.i = 5) \/ (F = "array_eq" /\ Top.i = 7)
  BY AskedFunction DEF EqFunctions
<1> QED BY <1>1 DEF Both, KindOf, Answerer, Plain, Containers

LEMMA ItemsEqKeeps ==
  ASSUME Exactly, Exact, EqArrayOK, UNCHANGED << eq_array, asked >>, ItemsEq
  PROVE  Exactly'
<1>1. Looping /\ F \in {"option_eq", "mapping_eq", "array_eq"}
  BY DEF ItemsEq, Asking
<1>2. /\ ops # << >> /\ ret = "running" /\ FrameOK(Top) /\ Top \in Frames
      /\ << Top.x, Top.y >> \in Comparable /\ Top.x \in Things /\ Top.y \in Things
  BY <1>1, AskedFunction
<1>3. Top.op = "=="
  BY <1>1, ItemsAsked
<1>4. CASE ~Both(F)
  <2>1. NextFunction
    BY <1>4 DEF ItemsEq
  <2>2. Top.i # Answerer[Kind(Top.x)]
    BY <1>1, <1>4, ItemsAsked
  <2> QED BY <1>1, <1>3, <2>1, <2>2, NextKeeps
<1>5. CASE Both(F)
  <2>1. /\ Kind(Top.x) \in Containers /\ (F = "array_eq" <=> Kind(Top.x) = "Array")
        /\ Top.i = Answerer[Kind(Top.x)]
    BY <1>1, <1>5, ItemsAsked
  <2>2. << Top.x, Top.y >> \in Alike
           <=> /\ ~Mismatch(Top.x, Top.y)
               /\ \A n \in 1 .. Len(Items(Top.x)) : ItemPair(Top, n) \in Alike
    BY <1>2, <2>1, ContainersAlike DEF ItemPair
  <2>3. /\ Holds(Top.op, Pair(Top)) = Truth(<< Top.x, Top.y >> \in Alike)
        /\ Len(Items(Top.x)) \in Nat /\ Top.k \in Nat
    BY <1>2, <1>3, ItemsType DEF Holds, Meaning, Pair, Frames
  <2>4. CASE Mismatch(Top.x, Top.y)
    <3>1. Return("no") /\ Holds(Top.op, Pair(Top)) = "no"
      BY <1>5, <2>2, <2>3, <2>4 DEF ItemsEq, Truth
    <3> QED BY <1>2, <3>1, ReturnKeeps
  <2>5. \A n \in 1 .. Top.k : ItemPair(Top, n) \in Alike
    <3>1. CASE Top.k = 0
      BY <3>1
    <3>2. CASE Top.k # 0
      <4>1. /\ Top.k > 0 /\ \A n \in 1 .. Top.k - 1 : ItemPair(Top, n) \in Alike
            /\ ItemPair(Top, Top.k) \in Alike
        BY <1>2, <1>3, <2>3, <3>2 DEF FrameOK, Exactly, AnswerOK
      <4>2. \A n \in 1 .. Top.k : n = Top.k \/ n \in 1 .. Top.k - 1
        BY <2>3
      <4> QED BY <4>1, <4>2
    <3> QED BY <3>1, <3>2
  <2>6. CASE ~Mismatch(Top.x, Top.y) /\ Top.k = Len(Items(Top.x))
    <3>1. Return("yes") /\ Holds(Top.op, Pair(Top)) = "yes"
      BY <1>5, <2>2, <2>3, <2>5, <2>6 DEF ItemsEq, Truth
    <3> QED BY <1>2, <3>1, ReturnKeeps
  <2>7. CASE ~Mismatch(Top.x, Top.y) /\ Top.k # Len(Items(Top.x))
    <3> DEFINE c == [Top EXCEPT !.k = @ + 1]
               op == IF F = "array_eq" THEN "!=" ELSE "=="
               x == Items(Top.x)[Top.k + 1]
               y == Items(Top.y)[Top.k + 1]
               d == Comparison(op, x, y)
    <3>1. /\ c \in Frames /\ c.op = "==" /\ c.x = Top.x /\ c.y = Top.y /\ c.i = Top.i
          /\ c.k = Top.k + 1
      <4> DEFINE t == Top
      <4>1. t \in Frames /\ t.k + 1 \in Nat /\ t.op = "=="
        BY <1>2, <1>3, <2>3
      <4> HIDE DEF t
      <4>2. /\ [t EXCEPT !.k = @ + 1] \in Frames /\ [t EXCEPT !.k = @ + 1].op = "=="
            /\ [t EXCEPT !.k = @ + 1].x = t.x /\ [t EXCEPT !.k = @ + 1].y = t.y
            /\ [t EXCEPT !.k = @ + 1].i = t.i /\ [t EXCEPT !.k = @ + 1].k = t.k + 1
        BY <4>1 DEF Frames
      <4> QED BY <4>2 DEF t
    <3>2. Calls(c, op, x, y)
      BY <1>5, <2>7 DEF ItemsEq
    <3>3. ops' = Append([ops EXCEPT ![Len(ops)] = c], d) /\ ret' = "running"
      BY <3>2 DEF Calls
    <3> HIDE DEF c
    <3>4. Top.k < Len(Items(Top.x))
      <4>1. Top.k > 0 => Top.k <= Len(Items(Top.x))
        BY <1>2, <1>3 DEF FrameOK
      <4> QED BY <2>3, <2>7, <4>1
    <3>5. Top.k + 1 \in 1 .. Len(Items(Top.x))
      BY <2>3, <3>4
    <3>6. << x, y >> \in Comparable
      BY <1>2, <2>7, <3>5, ItemsCompare
    <3>7. op \in Comparisons /\ op \in {"==", "!="}
      BY DEF Comparisons
    <3>8. ItemPair(c, c.k) = << x, y >> /\ Pair(c) = Pair(Top) /\ Pair(Top) = << Top.x, Top.y >>
      BY <3>1 DEF ItemPair, Pair
    <3>9. op = InnerOp(c) /\ InnerPair(c) = << x, y >>
      BY <2>1, <3>1, <3>8 DEF InnerOp, InnerPair
    <3>10. \A m \in 0 .. FlatMax :
             << x, y >> \notin Flat[m] =>
               << Top.x, Top.y >> \notin Flat[m] /\ (m < FlatMax => << Top.x, Top.y >> \notin Flat[m + 1])
      BY <1>2, <2>7, <3>5, ItemsFlat
    <3> HIDE DEF x, y, op
    <3>11. FrameOK(d) /\ Pair(d) = << x, y >> /\ d.op = op /\ d.k = 0
      BY <3>6, <3>7, FreshOK
    <3> HIDE DEF d
    <3>12. FrameOK(c)
      <4>1. c.k - 1 = Top.k /\ c.k <= Len(Items(c.x)) /\ c.k > 0
        BY <2>3, <3>1, <3>4
      <4>2. \A n \in 1 .. c.k - 1 : ItemPair(c, n) \in Alike
        BY <2>5, <3>1, <4>1 DEF ItemPair
      <4>3. Pair(c) \in Comparable /\ ~Mismatch(c.x, c.y) /\ Kind(c.x) \in Containers
            /\ c.i = Answerer[Kind(c.x)]
        BY <1>2, <2>1, <2>7, <3>1, <3>8
      <4>4. c.i <= Answerer[Kind(c.x)]
        BY <1>2, <1>3, <3>1 DEF FrameOK
      <4> QED BY <3>1, <4>1, <4>2, <4>3, <4>4 DEF FrameOK
    <3>13. CanWait(c)
      BY <2>3, <3>1 DEF CanWait
    <3>14. \A m \in 0 .. FlatMax :
             Pair(d) \notin Flat[m] =>
               Pair(c) \notin Flat[m] /\ (ItemsWait(c) /\ m < FlatMax => Pair(c) \notin Flat[m + 1])
      BY <3>8, <3>10, <3>11
    <3> QED BY <1>2, <1>3, <3>1, <3>3, <3>8, <3>9, <3>11, <3>12, <3>13, <3>14, CallsKeeps
  <2> QED BY <2>4, <2>6, <2>7
<1> QED BY <1>4, <1>5

LEMMA ItemsReturnedKeeps ==
  ASSUME Exactly, Exact, EqArrayOK, UNCHANGED << eq_array, asked >>, ItemsReturned
  PROVE  Exactly'
<1>1. Returned /\ Top.op = "==" /\ Top.k > 0 /\ ops # << >> /\ FrameOK(Top) /\ Top \in Frames
  BY TopOK DEF ItemsReturned, Returned
<1>2. /\ ret \in {"yes", "no", "error"} /\ (ret = "error" => Pair(asked) \notin Flat[DepthMax])
      /\ ret \in {"yes", "no"} => ret = Holds(InnerOp(Top), ItemPair(Top, Top.k))
  BY <1>1 DEF Exactly, AnswerOK, Returned, InnerPair
<1>3. /\ Kind(Top.x) \in Containers /\ Top.i = Answerer[Kind(Top.x)] /\ ~Mismatch(Top.x, Top.y)
      /\ Top.k \in 1 .. Len(Items(Top.x)) /\ << Top.x, Top.y >> \in Comparable
  <2>1. Len(Items(Top.x)) \in Nat /\ Top.k \in Nat
    BY <1>1, ItemsType DEF Frames
  <2>2. /\ Kind(Top.x) \in Containers /\ Top.i = Answerer[Kind(Top.x)] /\ ~Mismatch(Top.x, Top.y)
        /\ Top.k <= Len(Items(Top.x)) /\ << Top.x, Top.y >> \in Comparable
    BY <1>1 DEF FrameOK, Pair
  <2> QED BY <1>1, <2>1, <2>2
<1>4. F = "array_eq" <=> Kind(Top.x) = "Array"
  <2>1. Top.i \in 1 .. 7 /\ (Top.i = 7 <=> Kind(Top.x) = "Array") /\ Array(Top.op) = eq_array
    BY <1>1, <1>3 DEF Answerer, Containers, Array
  <2>2. F = EqFunctions[Top.i]
    BY <2>1 DEF F, EqArrayOK
  <2> QED BY <2>1, <2>2 DEF EqFunctions
<1>5. ret \in {"yes", "no"} =>
        (ret = (IF F = "array_eq" THEN "yes" ELSE "no") <=> ItemPair(Top, Top.k) \notin Alike)
  <2> DEFINE p == ItemPair(Top, Top.k)
  <2>1. << p[1], p[2] >> = p
    BY DEF ItemPair
  <2> HIDE DEF p
  <2>2. ret \in {"yes", "no"} => ret = Holds(InnerOp(Top), p)
    BY <1>2 DEF p
  <2>3. ret \in {"yes", "no"} => (ret = (IF F = "array_eq" THEN "yes" ELSE "no") <=> p \notin Alike)
    BY <1>1, <1>4, <2>1, <2>2 DEF InnerOp, Holds, Meaning, Truth
  <2> QED BY <2>3 DEF p
<1>6. CASE ret = "error"
  BY <1>1, <1>2, <1>6, ReturnKeeps DEF ItemsReturned
<1>7. CASE ret # "error" /\ ItemPair(Top, Top.k) \notin Alike
  <2>1. Return("no")
    BY <1>2, <1>5, <1>7 DEF ItemsReturned
  <2>2. << Top.x, Top.y >> \notin Alike
    BY <1>3, <1>7, ContainersAlike DEF ItemPair
  <2>3. Holds(Top.op, Pair(Top)) = "no"
    BY <1>1, <2>2 DEF Holds, Meaning, Pair, Truth
  <2> QED BY <1>1, <2>1, <2>3, ReturnKeeps
<1>8. CASE ret # "error" /\ ItemPair(Top, Top.k) \in Alike
  <2>1. Becomes(Top)
    BY <1>2, <1>5, <1>8 DEF ItemsReturned
  <2> QED BY <1>1, <1>8, <2>1, BecomesKeeps
<1> QED BY <1>6, <1>7, <1>8

\* Where as many functions wait as fit, what was asked for is nested that deep.
LEMMA DeepestPair ==
  ASSUME Exactly, Exact, EqArrayOK, Looping, NEW S, NEW max \in 1 .. FlatMax,
         Top.k = 0, Depth(S) >= max
  PROVE  Pair(asked) \notin Flat[max]
<1>1. ops # << >> /\ Len(ops) \in Nat \ {0} /\ FlatMax \in Nat /\ max \in Nat
  BY AskedFunction, TopOK, MaxOK
<1>2. Depth(S) <= Waiting(Len(ops)) /\ Depth(S) \in Nat /\ Waiting(Len(ops)) \in Nat
  <2> DEFINE W == {n \in 1 .. Len(ops) : Waits(ops[n], S)}
             V == {n \in 1 .. Len(ops) - 1 : ItemsWait(ops[n])}
  <2>1. \A n : n \in 1 .. Len(ops) <=> n = Len(ops) \/ n \in 1 .. Len(ops) - 1
    BY <1>1
  <2>2. ~Waits(ops[Len(ops)], S)
    BY DEF Waits, Top
  <2>3. W \subseteq V
    BY <2>1, <2>2 DEF Waits, ItemsWait
  <2>4. IsFiniteSet(1 .. Len(ops)) /\ V \subseteq 1 .. Len(ops)
    BY <1>1, FS_Interval
  <2>5. Depth(S) = Cardinality(W) /\ Waiting(Len(ops)) = Cardinality(V)
    BY DEF Depth, Waiting
  <2> HIDE DEF W, V
  <2> QED BY <2>3, <2>4, <2>5, FS_Subset, FS_CardinalityType
<1>3. Pair(ops[1]) \notin Flat[max]
  <2>1. Len(ops) \in 1 .. Len(ops) /\ 0 \in 0 .. FlatMax /\ max \in 0 .. FlatMax /\ 0 + max = max
        /\ max <= Waiting(Len(ops)) /\ 0 + max <= FlatMax
    BY <1>1, <1>2
  <2>2. Pair(ops[Len(ops)]) \notin Flat[0]
    BY FlatIs
  <2>3. Pair(ops[1]) \notin Flat[0 + max]
    BY <2>1, <2>2 DEF Exactly, DeepOK
  <2> QED BY <2>1, <2>3
<1> QED BY <1>1, <1>3, RootHolds

LEMMA TooDeepKeeps ==
  ASSUME Exactly, Exact, EqArrayOK, UNCHANGED << eq_array, asked >>, TooDeep
  PROVE  Exactly'
<1>1. Looping /\ Top.k = 0 /\ Depth(OFunctions) >= DepthMax /\ Return("error") /\ ops # << >>
  BY DEF TooDeep, Asking, StackFull, Looping, Running
<1>2. Pair(asked) \notin Flat[DepthMax]
  BY <1>1, MaxOK, DeepestPair
<1> QED BY <1>1, <1>2, ReturnKeeps

LEMMA CStackOverflowKeeps ==
  ASSUME Exactly, Exact, EqArrayOK, UNCHANGED << eq_array, asked >>, CStackOverflow
  PROVE  Exactly'
<1>1. Looping /\ Top.k = 0 /\ Depth({"mapping_eq"}) >= MappingMax /\ Crash
  BY DEF CStackOverflow, Asking, CStackFull
<1>2. Pair(asked) \notin Flat[MappingMax]
  BY <1>1, MaxOK, DeepestPair
<1>3. ops' = << >> /\ ret' = "crash" /\ asked' = asked
  BY <1>1 DEF Crash
<1>4. RootOK' /\ AnswerOK'
  BY <1>2, <1>3 DEF Exactly, RootOK, AnswerOK
<1>5. StackOK' /\ DeepOK'
  <2>1. ops' \in Seq(Frames) /\ \A n : n \notin 1 .. Len(ops') /\ n \notin 1 .. Len(ops') - 1
    BY <1>3
  <2> QED BY <2>1 DEF StackOK, DeepOK
<1> QED BY <1>4, <1>5 DEF Exactly

LEMMA CompareStepKeeps ==
  ASSUME CompareInv, CompareStep
  PROVE  CompareInv'
<1>1. EqArrayOK /\ UNCHANGED << eq_array, asked >>
  BY DEF CompareInv, CompareStep
<1>2. EqArrayOK' /\ (Exact' <=> Exact)
  BY <1>1 DEF EqArrayOK, Exact
<1>3. ASSUME Exact
      PROVE  Exactly'
  <2>1. Exactly
    BY <1>3 DEF CompareInv
  <2>2. CASE Flip \/ NotEqual \/ LessEqual
    BY <1>1, <1>3, <2>1, <2>2, FlipKeeps, NotEqualKeeps, LessEqualKeeps
  <2>3. CASE integer_eq \/ integer_lt \/ PlainEq \/ same_object
    BY <1>1, <1>3, <2>1, <2>3, integer_eqKeeps, integer_ltKeeps, PlainEqKeeps, same_objectKeeps
  <2>4. CASE ItemsEq \/ ItemsReturned \/ TooDeep \/ CStackOverflow
    BY <1>1, <1>3, <2>1, <2>4, ItemsEqKeeps, ItemsReturnedKeeps, TooDeepKeeps, CStackOverflowKeeps
  <2>5. ~NoAnswer /\ ~user_eq
    BY <1>1, <2>1, NoAnswerKeeps, user_eqKeeps DEF user_eq
  <2> QED BY <2>2, <2>3, <2>4, <2>5 DEF CompareStep
<1> QED BY <1>2, <1>3 DEF CompareInv

LEMMA AskKeeps ==
  ASSUME CompareInv, NEW op \in Comparisons, NEW x \in Things, NEW y \in Things, Ask(op, x, y)
  PROVE  CompareInv'
<1> DEFINE c == Comparison(op, x, y)
<1>1. /\ ops' = << c >> /\ ret' = "running" /\ asked' = c /\ eq_array' = eq_array
  BY DEF Ask
<1>2. EqArrayOK'
  BY <1>1 DEF CompareInv, EqArrayOK
<1>3. c.op = op /\ c.x = x /\ c.y = y /\ c.k = 0
  BY DEF Comparison
<1>4. ASSUME Exact'
      PROVE  Exactly'
  <2>1. << x, y >> \in Comparable /\ (op \in {"==", "!="} \/ Kind(x) = "Integer")
    BY <1>1, <1>3, <1>4 DEF Exact
  <2>2. FrameOK(c) /\ c \in Frames
    BY <2>1, FreshOK DEF FrameOK
  <2> HIDE DEF c
  <2>3. ops' \in Seq(Frames) /\ Len(ops') = 1 /\ ops'[1] = c /\ ops' # << >>
    BY <1>1, <2>2
  <2>4. RootOK' /\ StackOK'
    BY <1>1, <2>2, <2>3 DEF RootOK, StackOK, Pair
  <2>5. AnswerOK'
    <3>1. Top' = c
      BY <2>3 DEF Top
    <3> QED BY <1>1, <1>3, <2>3, <3>1 DEF AnswerOK
  <2>6. DeepOK'
    <3>1. Waiting(1)' = 0
      <4>1. {j \in 1 .. 1 - 1 : ItemsWait(ops[j])}' = {}
        OBVIOUS
      <4> QED BY <4>1, FS_EmptySet DEF Waiting
    <3> SUFFICES ASSUME NEW n \in 1 .. 1, NEW m \in 0 .. FlatMax, NEW e \in 0 .. FlatMax,
                        e <= Waiting(n)', m + e <= FlatMax, Pair(ops'[n]) \notin Flat[m]
                 PROVE  Pair(ops'[1]) \notin Flat[m + e]
      BY <2>3 DEF DeepOK
    <3>2. n = 1 /\ e = 0 /\ m + e = m
      BY <3>1, MaxOK
    <3> QED BY <3>2
  <2> QED BY <2>4, <2>5, <2>6 DEF Exactly
<1> QED BY <1>2, <1>4 DEF CompareInv

LEMMA PushKeeps ==
  ASSUME CompareInv, Push
  PROVE  CompareInv'
<1>1. /\ eq_array' = Append(eq_array, "user_eq") /\ ops' = ops /\ ret' = ret /\ asked' = asked
  BY DEF Push
<1>2. EqArrayOK'
  <2>1. eq_array \in Seq(DOMAIN KindOf \cup OFunctions) /\ "user_eq" \in DOMAIN KindOf \cup OFunctions
        /\ Len(eq_array) >= 7 /\ \A n \in 1 .. 7 : eq_array[n] = EqFunctions[n]
    BY DEF CompareInv, EqArrayOK, OFunctions
  <2> DEFINE T == DOMAIN KindOf \cup OFunctions
  <2> HIDE DEF T
  <2>2. eq_array \in Seq(T) /\ "user_eq" \in T /\ Len(eq_array) \in Nat
    BY <2>1 DEF T
  <2>3. eq_array' \in Seq(T) /\ Len(eq_array') = Len(eq_array) + 1
        /\ \A n \in 1 .. Len(eq_array) : eq_array'[n] = eq_array[n]
    BY <1>1, <2>2
  <2>4. Len(eq_array') >= 7 /\ \A n \in 1 .. 7 : n \in 1 .. Len(eq_array)
    BY <2>1, <2>2, <2>3
  <2> QED BY <2>1, <2>3, <2>4 DEF EqArrayOK, T
<1>3. ASSUME Exact'
      PROVE  Exactly'
  <2>1. Exact /\ Exactly /\ EqArrayOK
    BY <1>1, <1>3 DEF Exact, CompareInv
  <2>2. ops = << >>
    BY <2>1, user_eqKeeps DEF Push
  <2>3. RootOK' /\ StackOK' /\ AnswerOK'
    BY <1>1, <2>1, <2>2 DEF Exactly, RootOK, StackOK, AnswerOK
  <2>4. DeepOK'
    <3>1. \A n : n \notin 1 .. Len(ops')
      BY <1>1, <2>2
    <3> QED BY <3>1 DEF DeepOK
  <2> QED BY <2>3, <2>4 DEF Exactly
<1> QED BY <1>2, <1>3 DEF CompareInv

LEMMA OperatorStep == CompareInv /\ (OperatorNext \/ UNCHANGED operatorVars) => CompareInv'
<1> SUFFICES ASSUME CompareInv, OperatorNext \/ UNCHANGED operatorVars
             PROVE  CompareInv'
  OBVIOUS
<1>1. CASE Use
  <2>1. eq_array' = eq_array /\ asked' = Nothing
    BY <1>1 DEF Use
  <2>2. EqArrayOK' /\ ~Exact'
    BY <2>1 DEF CompareInv, EqArrayOK, Exact
  <2> QED BY <2>2 DEF CompareInv
<1>2. CASE UNCHANGED operatorVars
  <2>1. Exact' <=> Exact
    BY <1>2 DEF operatorVars, Exact
  <2>2. EqArrayOK => EqArrayOK'
    BY <1>2 DEF operatorVars, EqArrayOK
  <2>3. Exactly => Exactly'
    <3>1. \A n : Waiting(n)' = Waiting(n)
      BY <1>2 DEF operatorVars, Waiting, ItemsWait
    <3>2. RootOK => RootOK'
      BY <1>2 DEF operatorVars, RootOK
    <3>3. StackOK => StackOK'
      BY <1>2 DEF operatorVars, StackOK
    <3>4. AnswerOK => AnswerOK'
      BY <1>2 DEF operatorVars, AnswerOK, Top
    <3>5. DeepOK => DeepOK'
      BY <1>2, <3>1 DEF operatorVars, DeepOK
    <3> QED BY <3>2, <3>3, <3>4, <3>5 DEF Exactly
  <2> QED BY <2>1, <2>2, <2>3 DEF CompareInv
<1> QED BY <1>1, <1>2, CompareStepKeeps, AskKeeps, PushKeeps DEF OperatorNext

LEMMA InitCompareInv == OperatorInit => CompareInv
<1> SUFFICES ASSUME OperatorInit PROVE CompareInv
  OBVIOUS
<1>1. eq_array = EqFunctions /\ asked = Nothing
  BY DEF OperatorInit
<1>2. EqFunctions \in Seq(DOMAIN KindOf \cup OFunctions) /\ Len(EqFunctions) = 7
  BY DEF EqFunctions, KindOf, OFunctions
<1> QED BY <1>1, <1>2 DEF CompareInv, EqArrayOK, Exact

(***************************************************************************)
(* The inductive invariant of the operators (operator.c, <std>/operators): *)
(* what a comparison that must be exact has done, waits for and answers.   *)
(***************************************************************************)
THEOREM ComparisonInvariance == Spec => []CompareInv
<1>1. Init => CompareInv
  BY InitCompareInv DEF Init
<1>2. CompareInv /\ [Next]_vars => CompareInv'
  BY OperatorStep DEF Next, vars
<1> QED BY <1>1, <1>2, PTL DEF Spec

(***************************************************************************)
(* Things that can be compared are compared by their contents, nested or   *)
(* in cycles, whatever was pushed to eq_array; only a nesting as deep as   *)
(* the stack of the interpreter gives an error instead (operator.c:17),    *)
(* and only one as deep as the stack of C ends the process.                *)
(***************************************************************************)
THEOREM ComparisonsAreExact == Spec => []ComparedExactly
<1>1. CompareInv => ComparedExactly
  <2> SUFFICES ASSUME CompareInv, ops = << >>, Exact
               PROVE  \/ ret = Truth(Meaning(asked.op, asked.x, asked.y))
                      \/ ret = "error" /\ << asked.x, asked.y >> \notin Flat[DepthMax]
                      \/ ret = "crash" /\ << asked.x, asked.y >> \notin Flat[MappingMax]
    BY DEF ComparedExactly
  <2>1. AnswerOK
    BY DEF CompareInv, Exactly
  <2>2. ret \in {"yes", "no"} => ret = Holds(asked.op, Pair(asked))
    BY <2>1 DEF AnswerOK
  <2>3. /\ ret \in {"yes", "no", "error", "crash"}
        /\ ret = "error" => Pair(asked) \notin Flat[DepthMax]
        /\ ret = "crash" => Pair(asked) \notin Flat[MappingMax]
    BY <2>1 DEF AnswerOK
  <2> QED BY <2>2, <2>3 DEF Holds, Pair
<1> QED BY <1>1, ComparisonInvariance, PTL

=============================================================================
