-------------------------- MODULE ObjectHeapProof --------------------------
(***************************************************************************)
(* Proofs about ObjectHeap, for any number of objects, fields, variables   *)
(* and builtins, and any malloc: reference counts are exact, and nothing   *)
(* is freed while a reference leads to it.  The last part is about         *)
(* interp->allobjects.                                                     *)
(***************************************************************************)
EXTENDS ObjectHeap, Induction

Standing == stage \notin {"wipe", "end"}

\* What waits to be stored stays held, and so does the object it goes to.
StoreSafe ==
  store # NoStore =>
    /\ stage = "run"
    /\ ref[store[1]] = Nil /\ ref[store[2]] # Nil
    /\ \E n \in CNames : ref[Var(n)] = store[1][1]

\* The first two builtins are made in order, without a klass at first.
SetupSafe ==
  stage = "setup" =>
    /\ Held("Class") => Held("Object") /\ ObjectClass # Class
    /\ Held("Object") /\ (Held("Class") => Unpatched) =>
         ref[Field(ObjectClass, "klass")] = Nil

\* The inductive invariant.
IInv ==
  /\ TypeOK /\ CountsExact /\ NoDangling
  /\ StoreSafe /\ SetupSafe
  /\ stage \in {"setup", "wipe", "end", "aborted"} => Idle

\* What an operation must keep of ref, count, live and dying.
Sound ==
  /\ ref \in [Places -> Objects \cup {Nil}]
  /\ count \in [Objects -> Nat]
  /\ live \subseteq Objects
  /\ dying \in Seq(live)
  /\ CountsExact
  /\ Standing /\ NoDangling

-----------------------------------------------------------------------------
LEMMA FieldNames ==
  /\ IsFiniteSet(Fields)
  /\ \A i \in DOMAIN FieldOrder : FieldOrder[i] \in Fields
  /\ {"attrdata", "klass"} \subseteq Fields
  /\ \A i \in DOMAIN Elements : Elements[i] \in Fields
<1> DEFINE T == STRING \cup {"attrdata", "klass"}
<1>0. PICK k \in Nat : k = Len(Elements) /\ Elements \in Seq(T) /\ DOMAIN Elements = 1 .. k
  <2>1. Elements \in Seq(STRING) /\ STRING \subseteq T
    BY ObjectHeapAssumption
  <2>2. Elements \in Seq(T)
    BY <2>1, SeqMonotonic
  <2> QED BY <2>2
<1> DEFINE n == k + 2
           firsts == << "attrdata" >> \o Elements
<1>1. /\ FieldOrder \in Seq(T) /\ DOMAIN FieldOrder = 1 .. n /\ n \in Nat
      /\ FieldOrder[1] = "attrdata" /\ FieldOrder[n] = "klass"
      /\ \A i \in DOMAIN Elements : i + 1 \in 1 .. n /\ FieldOrder[i + 1] = Elements[i]
  <2>1. /\ << "attrdata" >> \in Seq(T) /\ Len(<< "attrdata" >>) = 1
        /\ << "klass" >> \in Seq(T) /\ Len(<< "klass" >>) = 1
    <3>1. << "attrdata" >> \in [1 .. 1 -> T] /\ << "klass" >> \in [1 .. 1 -> T]
      OBVIOUS
    <3>2. [1 .. 1 -> T] \subseteq Seq(T)
      BY SeqDef
    <3> QED BY <3>1, <3>2
  <2> HIDE DEF T
  <2>2. firsts \in Seq(T) /\ Len(firsts) = k + 1
    BY <1>0, <2>1, ConcatProperties
  <2>3. firsts[1] = "attrdata" /\ \A i \in 1 .. k : firsts[i + 1] = Elements[i]
    BY <1>0
  <2>4. FieldOrder = firsts \o << "klass" >>
    BY DEF FieldOrder
  <2> HIDE DEF firsts
  <2>5. FieldOrder \in Seq(T) /\ Len(FieldOrder) = n
    BY <2>1, <2>2, <2>4, ConcatProperties
  <2>6. FieldOrder[n] = "klass" /\ \A i \in 1 .. k + 1 : FieldOrder[i] = firsts[i]
    BY <2>1, <2>2, <2>4
  <2>7. DOMAIN FieldOrder = 1 .. n /\ 1 \in 1 .. k + 1 /\ \A i \in 1 .. k : i + 1 \in 1 .. k + 1
    BY <2>5
  <2> QED BY <1>0, <2>3, <2>5, <2>6, <2>7
<1>2. IsFiniteSet(1 .. n)
  BY <1>1, FS_Interval
<1>3. FieldOrder \in Surjection(1 .. n, Fields)
  BY <1>1 DEF Surjection, Fields
<1>4. IsFiniteSet(Fields)
  BY <1>2, <1>3, FS_Surjection
<1> QED BY <1>1, <1>4 DEF Fields

LEMMA BuiltinNames ==
  /\ IsFiniteSet(Builtins) /\ {"Object", "Class"} \subseteq Builtins
  /\ \A i \in DOMAIN SetupOrder : SetupOrder[i] \in Builtins
  /\ \A i \in DOMAIN TearDownOrder : TearDownOrder[i] \in Builtins
<1>1. SetupOrder \in Seq(STRING) /\ DOMAIN SetupOrder = 1 .. Len(SetupOrder)
  BY ObjectHeapAssumption
<1>2. IsFiniteSet(1 .. Len(SetupOrder))
  BY <1>1, FS_Interval
<1>3. SetupOrder \in Surjection(1 .. Len(SetupOrder), Builtins)
  BY <1>1 DEF Surjection, Builtins
<1>4. IsFiniteSet(Builtins)
  BY <1>2, <1>3, FS_Surjection
<1>5. \A i \in DOMAIN SetupOrder : SetupOrder[i] \in Builtins
  BY DEF Builtins
<1>6. {"Object", "Class"} \subseteq Builtins
  <2>1. 1 \in DOMAIN SetupOrder /\ 2 \in DOMAIN SetupOrder
    BY <1>1, ObjectHeapAssumption
  <2>2. SetupOrder[1] = "Object" /\ SetupOrder[2] = "Class"
    BY ObjectHeapAssumption
  <2> QED BY <1>5, <2>1, <2>2
<1>7. \A i \in DOMAIN TearDownOrder : TearDownOrder[i] \in Builtins
  BY ObjectHeapAssumption
<1> QED BY <1>4, <1>5, <1>6, <1>7

LEMMA PlaceNames ==
  /\ IsFiniteSet(Places)
  /\ \A o \in Objects, f \in Fields : Field(o, f) \in Places
  /\ \A n \in CNames : Var(n) \in Places
  /\ \A o \in Objects, f \in Fields : \A n : Field(o, f) # Var(n)
<1>1. IsFiniteSet(Objects \X Fields)
  BY FieldNames, FS_Product, ObjectHeapAssumption
<1>2. IsFiniteSet({"err"})
  BY FS_Singleton
<1>3. IsFiniteSet(CNames)
  BY <1>2, BuiltinNames, FS_Union, ObjectHeapAssumption DEF CNames
<1>4. IsFiniteSet({C} \X CNames)
  BY <1>3, FS_Singleton, FS_Product
<1>5. IsFiniteSet(Places)
  BY <1>1, <1>4, FS_Union DEF Places
<1> QED BY <1>5, ObjectHeapAssumption DEF Places, Field, Var

LEMMA ReferrersFinite == \A o : IsFiniteSet(Referrers(o)) /\ Cardinality(Referrers(o)) \in Nat
<1> TAKE o
<1>1. Referrers(o) \in SUBSET Places
  BY DEF Referrers
<1> QED BY <1>1, PlaceNames, FS_Subset, FS_CardinalityType

-----------------------------------------------------------------------------
\* OBJECT_DECREF of the reference in place p.
LEMMA DropSound ==
  ASSUME Sound, NEW p \in Places, ref[p] # Nil, Drop(p), live' = live, stage' = stage
  PROVE  Sound'
<1>1. PICK o \in live : o = ref[p] /\ o \in Objects /\ o \notin ToSet(dying)
  BY DEF Sound, Standing, NoDangling
<1>2. count[o] = Cardinality(Referrers(o)) /\ p \in Referrers(o)
  BY <1>1 DEF Sound, CountsExact, Referrers
<1>3. /\ ref' \in [Places -> Objects \cup {Nil}]
      /\ ref'[p] = Nil /\ \A q \in Places : q # p => ref'[q] = ref[q]
  BY DEF Sound, Drop
<1>4. /\ Referrers(o)' = Referrers(o) \ {p}
      /\ \A x \in Objects \ {o} : Referrers(x)' = Referrers(x)
  BY <1>1, <1>3, ObjectHeapAssumption DEF Referrers
<1>5. Cardinality(Referrers(o) \ {p}) = Cardinality(Referrers(o)) - 1
  BY <1>2, ReferrersFinite, FS_RemoveElement
<1>6. Cardinality(Referrers(o) \ {p}) \in Nat /\ IsFiniteSet(Referrers(o) \ {p})
  BY ReferrersFinite, FS_RemoveElement, FS_CardinalityType
<1>7. count' = [count EXCEPT ![o] = @ - 1] /\ count \in [Objects -> Nat]
  BY <1>1 DEF Drop, Decref, Sound
<1>8. count' \in [Objects -> Nat] /\ CountsExact'
  <2>1. \A x \in live : count'[x] = Cardinality(Referrers(x)')
    BY <1>1, <1>2, <1>4, <1>5, <1>7 DEF Sound, CountsExact
  <2>2. count[o] - 1 \in Nat
    BY <1>2, <1>5, <1>6
  <2> QED BY <1>7, <2>1, <2>2 DEF CountsExact
<1>9. dying' \in Seq(live) /\ NoDangling'
  <2>1. CASE LastReference(o)
    <3>1. dying' = Append(dying, o) /\ dying \in Seq(live)
      BY <1>1, <2>1 DEF Drop, Decref, Sound
    <3>2. Cardinality(Referrers(o) \ {p}) = 0
      <4>1. count[o] - 1 <= 0
        BY <1>1, <2>1 DEF LastReference
      <4>2. Cardinality(Referrers(o) \ {p}) = count[o] - 1
        BY <1>2, <1>5
      <4>3. \A c \in Nat : c <= 0 => c = 0
        OBVIOUS
      <4> QED BY <1>6, <4>1, <4>2, <4>3
    <3>3. Referrers(o)' = {}
      BY <1>1, <1>4, <1>6, <3>2, FS_EmptySet
    <3>4. \A q \in Places : ref'[q] # o
      BY <3>3 DEF Referrers
    <3>5. dying' \in Seq(live) /\ ToSet(dying') = ToSet(dying) \cup {o}
      BY <1>1, <3>1 DEF ToSet
    <3>6. \A i, j \in DOMAIN dying' : dying'[i] = dying'[j] => i = j
      BY <1>1, <3>1 DEF ToSet, Sound, Standing, NoDangling
    <3> QED BY <1>3, <3>4, <3>5, <3>6 DEF Sound, Standing, NoDangling
  <2>2. CASE ~LastReference(o)
    <3>1. dying' = dying
      BY <1>1, <2>2 DEF Drop, Decref
    <3> QED BY <1>3, <3>1 DEF Sound, Standing, NoDangling
  <2> QED BY <2>1, <2>2
<1> QED BY <1>3, <1>8, <1>9 DEF Sound, Standing

\* OBJECT_INCREF with the new reference stored in place p.
LEMMA CopySound ==
  ASSUME Sound, NEW p \in Places, NEW q \in Places, ref[q] # Nil, CopyTo(p, ref[q]),
         p[1] = C \/ p[1] \in live,
         live' = live, dying' = dying, stage' = stage
  PROVE  Sound'
<1>1. PICK o \in live : /\ o = ref[q] /\ o \in Objects /\ o \notin ToSet(dying)
                       /\ ref[p] = Nil
  BY DEF Sound, Standing, NoDangling, CopyTo
<1>2. /\ ref' \in [Places -> Objects \cup {Nil}]
      /\ ref'[p] = o /\ \A r \in Places : r # p => ref'[r] = ref[r]
  BY <1>1 DEF Sound, CopyTo
<1>3. /\ Referrers(o)' = Referrers(o) \cup {p}
      /\ \A x \in Objects \ {o} : Referrers(x)' = Referrers(x)
  BY <1>1, <1>2, ObjectHeapAssumption DEF Referrers
<1>4. p \notin Referrers(o)
  BY <1>1, ObjectHeapAssumption DEF Referrers
<1>5. Cardinality(Referrers(o) \cup {p}) = Cardinality(Referrers(o)) + 1
  BY <1>4, ReferrersFinite, FS_AddElement
<1>6. count' = [count EXCEPT ![o] = @ + 1] /\ count \in [Objects -> Nat]
  BY <1>1 DEF CopyTo, Sound
<1>7. count' \in [Objects -> Nat] /\ CountsExact'
  <2>1. \A x \in live : count'[x] = Cardinality(Referrers(x)')
    BY <1>1, <1>3, <1>5, <1>6 DEF Sound, CountsExact
  <2>2. count' \in [Objects -> Nat]
    BY <1>1, <1>6
  <2> QED BY <2>1, <2>2 DEF CountsExact
<1>8. NoDangling'
  BY <1>1, <1>2 DEF Sound, Standing, NoDangling
<1> QED BY <1>2, <1>7, <1>8 DEF Sound, Standing

\* object_new_noerr: the new object is held by place p and refers to fields.
LEMMA CreateSound ==
  ASSUME Sound, NEW o \in Objects \ live, NEW p \in Places, ref[p] = Nil,
         p[1] = C \/ p[1] \in live,
         NEW fields, DOMAIN fields \subseteq Fields,
         \A f \in DOMAIN fields : fields[f] \in (live \ ToSet(dying)) \cup {Nil},
         Create(o, p, fields), dying' = dying, stage' = stage
  PROVE  /\ Sound'
         /\ ref'[p] = o
         /\ \A f \in Fields : ref'[Field(o, f)] = IF f \in DOMAIN fields THEN fields[f] ELSE Nil
         /\ \A q \in Places : q # p /\ q[1] # o => ref'[q] = ref[q]
<1> DEFINE NewPlaces(x) == {q \in Places : q[1] = o /\ q[2] \in DOMAIN fields /\ fields[q[2]] = x}
           Using(x) == {f \in DOMAIN fields : fields[f] = x}
<1>1. \A q \in Places : q[1] = o => ref[q] = Nil /\ q # p
  BY ObjectHeapAssumption DEF Sound, Standing, NoDangling
<1>2. /\ o \notin ToSet(dying) /\ o # Nil /\ o # C
      /\ \A q \in Places : ref[q] # o
  BY ObjectHeapAssumption DEF Sound, Standing, NoDangling, ToSet
<1>3. /\ \A q \in Places : ref'[q] = IF q = p THEN o
                                   ELSE IF q[1] = o /\ q[2] \in DOMAIN fields
                                        THEN fields[q[2]] ELSE ref[q]
      /\ ref' \in [Places -> Objects \cup {Nil}]
  BY DEF Create, Sound
<1>4. Referrers(o)' = {p}
  <2>1. \A f \in DOMAIN fields : fields[f] # o
    BY <1>2
  <2> QED BY <1>2, <1>3, <2>1 DEF Referrers
<1>5. \A x \in live : Referrers(x)' = Referrers(x) \cup NewPlaces(x) /\ Referrers(x) \cap NewPlaces(x) = {}
  <2> TAKE x \in live
  <2>1. x # o /\ x # Nil
    BY ObjectHeapAssumption DEF Sound
  <2>2. Referrers(x)' = Referrers(x) \cup NewPlaces(x)
    BY <1>1, <1>3, <2>1 DEF Referrers
  <2>3. Referrers(x) \cap NewPlaces(x) = {}
    BY <1>1, <2>1 DEF Referrers
  <2> QED BY <2>2, <2>3
<1>6. \A x \in live : IsFiniteSet(NewPlaces(x)) /\ Cardinality(NewPlaces(x)) = Cardinality(Using(x))
  <2> TAKE x \in live
  <2>1. Using(x) \in SUBSET Fields
    OBVIOUS
  <2>2. IsFiniteSet(Using(x))
    BY <2>1, FieldNames, FS_Subset
  <2> DEFINE at == [f \in Using(x) |-> Field(o, f)]
  <2>3. at \in Bijection(Using(x), NewPlaces(x))
    <3>1. \A f \in Using(x) : at[f] \in NewPlaces(x)
      BY <2>1, PlaceNames DEF Field
    <3>2. \A f, g \in Using(x) : at[f] = at[g] => f = g
      BY DEF Field
    <3>3. \A q \in NewPlaces(x) : \E f \in Using(x) : at[f] = q
      BY <1>2 DEF Field, Places
    <3> QED BY <3>1, <3>2, <3>3 DEF Bijection, Injection, Surjection, IsInjective
  <2>4. ExistsBijection(Using(x), NewPlaces(x))
    BY <2>3 DEF ExistsBijection
  <2> QED BY <2>2, <2>4, FS_Bijection
<1>7. CountsExact' /\ count' \in [Objects -> Nat]
  <2>1. \A x \in live : count'[x] = count[x] + Cardinality(Using(x)) /\ Cardinality(Using(x)) \in Nat
    BY <1>6, FS_CardinalityType DEF Create, Users, Sound
  <2>2. \A x \in live : Cardinality(Referrers(x)') = Cardinality(Referrers(x)) + Cardinality(Using(x))
    <3> TAKE x \in live
    <3>1. Cardinality(Referrers(x) \cap NewPlaces(x)) = 0
      BY <1>5, FS_EmptySet
    <3>2. Cardinality(Referrers(x) \cup NewPlaces(x))
            = Cardinality(Referrers(x)) + Cardinality(NewPlaces(x)) - Cardinality(Referrers(x) \cap NewPlaces(x))
      BY <1>6, ReferrersFinite, FS_Union
    <3>3. Cardinality(NewPlaces(x)) \in Nat /\ Cardinality(Referrers(x)) \in Nat
      BY <1>6, ReferrersFinite, FS_CardinalityType
    <3>4. Referrers(x)' = Referrers(x) \cup NewPlaces(x) /\ Cardinality(NewPlaces(x)) = Cardinality(Using(x))
      BY <1>5, <1>6
    <3> HIDE DEF NewPlaces, Using
    <3> QED BY <3>1, <3>2, <3>3, <3>4
  <2>3. count'[o] = 1 /\ Cardinality(Referrers(o)') = 1
    BY <1>4, FS_Singleton DEF Create
  <2>4. \A x \in live' : count'[x] = Cardinality(Referrers(x)')
    BY <2>1, <2>2, <2>3 DEF Create, Sound, CountsExact
  <2>5. \A x \in Objects : Users(fields, x) \in Nat
    <3> TAKE x \in Objects
    <3>1. Using(x) \in SUBSET Fields
      OBVIOUS
    <3>2. IsFiniteSet(Using(x))
      BY <3>1, FieldNames, FS_Subset
    <3> QED BY <3>2, FS_CardinalityType DEF Users
  <2>6. count' \in [Objects -> Nat]
    BY <2>5 DEF Create, Sound
  <2> QED BY <2>4, <2>6 DEF CountsExact
<1>8. NoDangling' /\ dying' \in Seq(live') /\ live' \subseteq Objects
  <2>1. live' = live \cup {o} /\ live \subseteq Objects /\ dying \in Seq(live)
    BY DEF Create, Sound
  <2>2. dying' \in Seq(live')
    BY <2>1
  <2>3. \A q \in Places : ref'[q] # Nil => ref'[q] \in live' \ ToSet(dying')
    BY <1>2, <1>3, <2>1 DEF Sound, Standing, NoDangling
  <2>4. \A q \in Places : q[1] # C /\ ref'[q] # Nil => q[1] \in live'
    BY <1>3, <2>1 DEF Sound, Standing, NoDangling
  <2> QED BY <2>1, <2>2, <2>3, <2>4 DEF Sound, Standing, NoDangling
<1>9. \A f \in Fields : ref'[Field(o, f)] = IF f \in DOMAIN fields THEN fields[f] ELSE Nil
  BY <1>1, <1>3, PlaceNames DEF Field
<1> QED BY <1>3, <1>7, <1>8, <1>9 DEF Sound, Standing

\* free: the object has no references left, and nothing refers to it.
LEMMA FreeSound ==
  ASSUME Sound, FreeObject
  PROVE  Sound' /\ live' \subseteq live
<1>1. PICK n \in Nat \ {0} : n = Len(dying) /\ DOMAIN dying = 1 .. n /\ dying \in Seq(live)
  BY DEF Sound, FreeObject
<1>2. PICK o \in live : o = Dying /\ o = dying[n] /\ o \in ToSet(dying) /\ o \in Objects
  BY <1>1 DEF Dying, ToSet, Sound
<1>3. live' = live \ {o} /\ ref' = ref /\ count' = count /\ stage' = stage
  BY <1>2 DEF FreeObject
<1>4. dying' = SubSeq(dying, 1, n - 1)
  BY <1>1 DEF FreeObject
<1>5. /\ Len(dying') = n - 1 /\ DOMAIN dying' = 1 .. n - 1
      /\ \A i \in 1 .. n - 1 : dying'[i] = dying[i]
  BY <1>1, <1>4
<1>6. \A i \in 1 .. n - 1 : dying[i] # o /\ dying'[i] \in live'
  <2>1. \A i \in 1 .. n - 1 : i \in 1 .. n /\ n \in 1 .. n /\ i # n
    BY <1>1
  <2>2. \A i \in 1 .. n : dying[i] \in live
    BY <1>1
  <2>3. \A i, j \in 1 .. n : dying[i] = dying[j] => i = j
    BY <1>1 DEF Sound, Standing, NoDangling
  <2>4. \A i \in 1 .. n - 1 : dying[i] # dying[n]
    BY <2>1, <2>3
  <2> QED BY <1>2, <1>3, <1>5, <2>1, <2>2, <2>4
<1>7. dying' \in Seq(live')
  BY <1>1, <1>4, <1>5, <1>6
<1>8. \A f \in Fields : ref[Field(o, f)] = Nil
  BY <1>2 DEF FreeObject, HasReferences, Fields
<1>9. \A p \in Places : ref[p] # Nil => p[1] # o
  BY <1>2, <1>8, ObjectHeapAssumption DEF Places, Field
<1>10. ToSet(dying') \subseteq ToSet(dying)
  BY <1>1, <1>5 DEF ToSet
<1>11. NoDangling'
  <2>1. \A p \in Places : ref'[p] # Nil => ref'[p] \in live' \ ToSet(dying')
    BY <1>2, <1>3, <1>10 DEF Sound, Standing, NoDangling
  <2>2. \A p \in Places : p[1] # C /\ ref'[p] # Nil => p[1] \in live'
    BY <1>3, <1>9 DEF Sound, Standing, NoDangling
  <2>3. \A i, j \in 1 .. n : dying[i] = dying[j] => i = j
    BY <1>1 DEF Sound, Standing, NoDangling
  <2>4. \A i \in 1 .. n - 1 : i \in 1 .. n
    BY <1>1
  <2>5. \A i, j \in DOMAIN dying' : dying'[i] = dying'[j] => i = j
    BY <1>5, <2>3, <2>4
  <2> QED BY <2>1, <2>2, <2>5 DEF NoDangling
<1>12. CountsExact'
  BY <1>3 DEF Sound, CountsExact, Referrers
<1> QED BY <1>3, <1>7, <1>11, <1>12 DEF Sound, Standing

\* A reference moves from one place to another.
LEMMA MoveSound ==
  ASSUME Sound, NEW p \in Places, NEW q \in Places, ref[p] = Nil, p[1] = C,
         ref' = [ref EXCEPT ![p] = ref[q], ![q] = Nil],
         UNCHANGED << count, live, dying, stage >>
  PROVE  Sound'
<1>1. CASE ref[q] = Nil
  <2>1. ref' = ref
    BY <1>1 DEF Sound
  <2>2. count' = count /\ live' = live /\ dying' = dying /\ stage' = stage
    OBVIOUS
  <2>3. CountsExact'
    <3>1. \A x : Referrers(x)' = Referrers(x)
      BY <2>1 DEF Referrers
    <3> QED BY <2>2, <3>1 DEF Sound, CountsExact
  <2>4. NoDangling'
    BY <2>1, <2>2 DEF Sound, Standing, NoDangling
  <2> QED BY <2>1, <2>2, <2>3, <2>4 DEF Sound, Standing
<1>2. CASE ref[q] # Nil
  <2>1. PICK o \in live : o = ref[q] /\ o \in Objects /\ o \notin ToSet(dying)
    BY <1>2 DEF Sound, Standing, NoDangling
  <2>2. /\ ref' \in [Places -> Objects \cup {Nil}] /\ p # q
        /\ ref'[p] = o /\ ref'[q] = Nil /\ \A r \in Places \ {p, q} : ref'[r] = ref[r]
    BY <1>2, <2>1 DEF Sound
  <2>3. /\ Referrers(o)' = (Referrers(o) \ {q}) \cup {p}
        /\ \A x \in Objects \ {o} : Referrers(x)' = Referrers(x)
    BY <2>1, <2>2, ObjectHeapAssumption DEF Referrers
  <2>4. q \in Referrers(o) /\ p \notin Referrers(o) \ {q}
    BY <2>1, ObjectHeapAssumption DEF Referrers
  <2>5. IsFiniteSet(Referrers(o) \ {q}) /\ Cardinality(Referrers(o) \ {q}) = Cardinality(Referrers(o)) - 1
    BY <2>4, ReferrersFinite, FS_RemoveElement
  <2>6. Cardinality((Referrers(o) \ {q}) \cup {p}) = Cardinality(Referrers(o) \ {q}) + 1
    BY <2>4, <2>5, FS_AddElement
  <2>7. Cardinality(Referrers(o)') = Cardinality(Referrers(o))
    BY <2>3, <2>5, <2>6, ReferrersFinite
  <2>8. CountsExact'
    BY <2>3, <2>7 DEF Sound, CountsExact
  <2>9. NoDangling'
    BY <2>1, <2>2 DEF Sound, Standing, NoDangling
  <2> QED BY <2>2, <2>8, <2>9 DEF Sound, Standing
<1> QED BY <1>1, <1>2

\* builtins_setup gives the first two classes their klass.
LEMMA PatchSound ==
  ASSUME Sound, SetupSafe, stage = "setup", PatchKlasses
  PROVE  Sound' /\ SetupSafe'
<1>1. PICK c \in live : c = Class /\ c \in Objects /\ c \notin ToSet(dying)
  BY BuiltinNames, PlaceNames
  DEF Sound, Standing, NoDangling, PatchKlasses, Unpatched, Held, Class, CNames
<1>2. PICK b \in live : b = ObjectClass /\ b # c /\ b \in Objects
  BY <1>1, BuiltinNames, PlaceNames
  DEF Sound, Standing, NoDangling, PatchKlasses, Unpatched, Held, SetupSafe, ObjectClass, CNames
<1> DEFINE p == Field(b, "klass")
           q == Field(c, "klass")
<1>3. p \in Places /\ q \in Places /\ p # q /\ p[1] = b /\ q[1] = c
  BY <1>1, <1>2, FieldNames, PlaceNames DEF Field
<1>4. ref[p] = Nil /\ ref[q] = Nil
  BY <1>1, <1>2, ObjectHeapAssumption DEF PatchKlasses, Unpatched, SetupSafe, Held, ObjectClass
<1>5. ref' = [ref EXCEPT ![p] = c, ![q] = c] /\ count' = [count EXCEPT ![c] = @ + 2]
  BY <1>1, <1>2 DEF PatchKlasses
<1> HIDE DEF p, q
<1>6. /\ ref' \in [Places -> Objects \cup {Nil}]
      /\ ref'[p] = c /\ ref'[q] = c /\ \A r \in Places \ {p, q} : ref'[r] = ref[r]
  BY <1>1, <1>3, <1>5 DEF Sound
<1>7. /\ Referrers(c)' = (Referrers(c) \cup {p}) \cup {q}
      /\ \A x \in Objects \ {c} : Referrers(x)' = Referrers(x)
  BY <1>1, <1>3, <1>4, <1>6, ObjectHeapAssumption DEF Referrers
<1>8. p \notin Referrers(c) /\ q \notin Referrers(c) \cup {p}
  BY <1>1, <1>3, <1>4, ObjectHeapAssumption DEF Referrers
<1>9. IsFiniteSet(Referrers(c) \cup {p}) /\ Cardinality(Referrers(c) \cup {p}) = Cardinality(Referrers(c)) + 1
  BY <1>8, ReferrersFinite, FS_AddElement
<1>10. Cardinality(Referrers(c)') = Cardinality(Referrers(c)) + 2
  <2>1. Cardinality((Referrers(c) \cup {p}) \cup {q}) = Cardinality(Referrers(c) \cup {p}) + 1
    BY <1>8, <1>9, FS_AddElement
  <2> QED BY <1>7, <1>9, <2>1, ReferrersFinite
<1>11. UNCHANGED << live, dying, stage >>
  BY DEF PatchKlasses
<1>12. CountsExact' /\ count' \in [Objects -> Nat]
  <2>1. count \in [Objects -> Nat] /\ \A x \in live : count[x] = Cardinality(Referrers(x)) /\ x \in Objects
    BY DEF Sound, CountsExact
  <2>2. /\ count'[c] = count[c] + 2 /\ count[c] \in Nat
        /\ \A x \in Objects \ {c} : count'[x] = count[x]
    BY <1>1, <1>5, <2>1
  <2>3. count' \in [Objects -> Nat]
    BY <1>1, <1>5, <2>1, <2>2
  <2>4. \A x \in live : count'[x] = Cardinality(Referrers(x)')
    BY <1>1, <1>7, <1>10, <2>1, <2>2
  <2> QED BY <1>11, <2>3, <2>4 DEF CountsExact
<1>13. NoDangling'
  <2>1. \A r \in Places : ref'[r] # Nil => ref'[r] \in live \ ToSet(dying)
    BY <1>1, <1>3, <1>6 DEF Sound, Standing, NoDangling
  <2>2. \A r \in Places : r[1] # C /\ ref'[r] # Nil => r[1] \in live
    BY <1>1, <1>2, <1>3, <1>6 DEF Sound, Standing, NoDangling
  <2> QED BY <1>11, <2>1, <2>2 DEF Sound, Standing, NoDangling
<1>14. Class' = c /\ ObjectClass' = b
  <2>1. \A n \in {"Object", "Class"} : Var(n) \in Places \ {p, q}
    BY <1>1, <1>2, FieldNames, BuiltinNames, PlaceNames DEF CNames, p, q
  <2> QED BY <1>1, <1>2, <1>6, <2>1 DEF Class, ObjectClass
<1>15. SetupSafe'
  <2>1. ref'[Field(c, "klass")] # Nil
    BY <1>1, <1>6, ObjectHeapAssumption DEF q
  <2>2. Held("Class")' /\ Held("Object")' /\ ~Unpatched'
    BY <1>1, <1>2, <1>14, <2>1, ObjectHeapAssumption DEF Held, Class, ObjectClass, Unpatched
  <2> QED BY <1>2, <1>14, <2>2 DEF SetupSafe
<1> QED BY <1>6, <1>11, <1>12, <1>13, <1>15 DEF Sound, Standing
-----------------------------------------------------------------------------
LEMMA IInvInit == ASSUME Init PROVE IInv
<1>1. TypeOK /\ Idle
  BY DEF Init, TypeOK, Idle, NoStore
<1>2. CountsExact /\ NoDangling
  BY DEF Init, CountsExact, NoDangling, ToSet
<1>3. StoreSafe
  BY DEF Init, StoreSafe
<1>4. SetupSafe
  BY BuiltinNames, PlaceNames, ObjectHeapAssumption DEF Init, SetupSafe, Held, CNames
<1> QED BY <1>1, <1>2, <1>3, <1>4 DEF IInv

LEMMA IInvSound == ASSUME IInv, Standing PROVE Sound
BY DEF IInv, TypeOK, Standing, Sound

\* An operation that leaves store and stage alone, outside setting up.
LEMMA KeepsIInv ==
  ASSUME IInv, Sound', stage' = stage, stage \notin {"setup", "aborted"}, store' = store,
         StoreSafe'
  PROVE  IInv'
BY DEF IInv, TypeOK, Sound, Standing, SetupSafe

\* An operation between two others.
LEMMA RunningKeepsIInv ==
  ASSUME IInv, Running, Sound', stage' = stage, store' = store
  PROVE  IInv'
<1>1. store' = NoStore
  BY DEF Running, Idle
<1>2. StoreSafe'
  BY <1>1 DEF StoreSafe
<1> QED BY <1>2, KeepsIInv DEF Running

\* What the first conjunct of an operation of a C function gives.
LEMMA RunningSound ==
  ASSUME IInv, Running
  PROVE  /\ Sound /\ ToSet(dying) = {}
         /\ \A p \in Places : ref[p] # Nil => ref[p] \in live /\ ref[p] \in Objects
<1>1. Sound
  BY IInvSound DEF Running, Standing
<1>2. ToSet(dying) = {}
  BY DEF Running, Idle, ToSet
<1> QED BY <1>1, <1>2 DEF Sound, NoDangling, Standing

-----------------------------------------------------------------------------

LEMMA NewKeepsIInv ==
  ASSUME IInv, NEW k, Running, ref[Var(k)] # Nil,
         Var(k) \in Places, NEW o \in Objects \ live,
         NEW p \in Places, ref[p] = Nil, p[1] = C \/ p[1] \in live,
         Create(o, p, NewFields(ref[Var(k)])), UNCHANGED << dying, store, stage >>
  PROVE  IInv'
<1>1. Sound /\ ref[Var(k)] \in live \ ToSet(dying)
  BY RunningSound
<1> DEFINE fields == NewFields(ref[Var(k)])
<1>2. DOMAIN fields = {"klass"} /\ fields["klass"] = ref[Var(k)]
  BY DEF NewFields
<1>3. /\ DOMAIN fields \subseteq Fields
      /\ \A f \in DOMAIN fields : fields[f] \in (live \ ToSet(dying)) \cup {Nil}
  BY <1>1, <1>2, FieldNames
<1> HIDE DEF fields
<1>4. Create(o, p, fields) /\ dying' = dying /\ stage' = stage /\ store' = store
  BY DEF fields
<1>5. Sound'
  BY <1>1, <1>3, <1>4, CreateSound
<1> QED BY <1>4, <1>5, RunningKeepsIInv

LEMMA NewClassFieldNames ==
  ASSUME NEW base
  PROVE  /\ DOMAIN NewClassFields(base) \subseteq Fields
         /\ \A f \in DOMAIN NewClassFields(base) : NewClassFields(base)[f] \in {Class, base}
<1>1. 1 \in DOMAIN Elements
  BY ObjectHeapAssumption
<1> QED BY <1>1, FieldNames DEF NewClassFields

LEMMA LocalPlace ==
  ASSUME NEW n \in Locals \cup {"err"} \cup Builtins
  PROVE  Var(n) \in Places /\ Var(n)[1] = C
BY PlaceNames DEF Var, CNames

LEMMA MallocFree == \A o \in Malloc(Objects \ live) : o \in Objects \ live
<1>1. Objects \ live \in SUBSET Objects
  OBVIOUS
<1> QED BY <1>1, ObjectHeapAssumption

\* arrayobject_push and _pop stay inside the array.
LEMMA LengthInRange ==
  ASSUME NEW a
  PROVE  /\ Length(a) < Len(Elements) => Length(a) + 1 \in DOMAIN Elements
         /\ Length(a) > 0 => Length(a) \in DOMAIN Elements
<1> DEFINE S == {i \in DOMAIN Elements : ref[Field(a, Elements[i])] # Nil}
<1>1. /\ DOMAIN Elements = 1 .. Len(Elements)
      /\ Len(Elements) \in Int /\ 1 \in Int /\ ~(1 > Len(Elements))
  BY ObjectHeapAssumption
<1>2. /\ IsFiniteSet(1 .. Len(Elements))
      /\ Cardinality(1 .. Len(Elements)) = Len(Elements) - 1 + 1
  BY <1>1, FS_Interval
<1>3. S \in SUBSET (1 .. Len(Elements))
  BY <1>1
<1>4. IsFiniteSet(S) /\ Cardinality(S) <= Len(Elements)
  BY <1>2, <1>3, FS_Subset
<1>5. Cardinality(S) \in Nat
  BY <1>4, FS_CardinalityType
<1>6. Length(a) = Cardinality(S)
  BY DEF Length
<1> QED BY <1>1, <1>4, <1>5, <1>6

\* An operation on none of the four.
LEMMA UnchangedSound ==
  ASSUME Sound, ref' = ref, count' = count, live' = live, dying' = dying, Standing'
  PROVE  Sound'
<1>1. \A x : Referrers(x)' = Referrers(x)
  BY DEF Referrers
<1>2. CountsExact'
  BY <1>1 DEF Sound, CountsExact
<1>3. NoDangling'
  BY DEF Sound, Standing, NoDangling
<1> QED BY <1>2, <1>3 DEF Sound

-----------------------------------------------------------------------------
\* What C functions do keeps the invariant.
LEMMA MutatorKeepsIInv == ASSUME IInv, Mutator PROVE IInv'
<1>1. ASSUME NEW l \in Locals, NEW h \in Locals, NEW f \in Fields, Get(h, f, l)
      PROVE  IInv'
  <2>1. Sound /\ ref[Var(h)] \in Objects
    BY <1>1, RunningSound, LocalPlace DEF Get
  <2>2. /\ Field(ref[Var(h)], f) \in Places /\ ref[Field(ref[Var(h)], f)] # Nil
        /\ CopyTo(Var(l), ref[Field(ref[Var(h)], f)])
        /\ live' = live /\ dying' = dying /\ stage' = stage /\ store' = store
    BY <1>1, <2>1, PlaceNames DEF Get
  <2>3. Sound'
    BY <2>1, <2>2, LocalPlace, CopySound
  <2> QED BY <1>1, <2>2, <2>3, RunningKeepsIInv DEF Get
<1>2. ASSUME NEW l \in Locals, NEW k \in Locals \cup Builtins, New(k, l)
      PROVE  IInv'
  <2>1. PICK o \in Objects \ live : Create(o, Var(l), NewFields(ref[Var(k)]))
    BY <1>2, MallocFree DEF New
  <2> QED BY <1>2, <2>1, LocalPlace, NewKeepsIInv DEF New, Held
<1>3. ASSUME NEW l \in Locals, NEW k \in Locals \cup Builtins, NewClass(k, l)
      PROVE  IInv'
  <2>1. PICK o \in Objects \ live : Create(o, Var(l), NewClassFields(ref[Var(k)]))
    BY <1>3, MallocFree DEF NewClass
  <2>2. /\ Sound /\ ref[Var(k)] \in live \ ToSet(dying)
        /\ Class \in (live \ ToSet(dying)) \cup {Nil}
    BY <1>3, RunningSound, LocalPlace, BuiltinNames DEF NewClass, Class
  <2> DEFINE fields == NewClassFields(ref[Var(k)])
  <2>3. /\ DOMAIN fields \subseteq Fields
        /\ \A f \in DOMAIN fields : fields[f] \in (live \ ToSet(dying)) \cup {Nil}
    BY <2>2, NewClassFieldNames
  <2> HIDE DEF fields
  <2>4. /\ Create(o, Var(l), fields) /\ ref[Var(l)] = Nil
        /\ dying' = dying /\ stage' = stage /\ store' = store
    BY <1>3, <2>1 DEF NewClass, Held, fields
  <2>5. Sound'
    BY <2>2, <2>3, <2>4, LocalPlace, CreateSound
  <2> QED BY <1>3, <2>4, <2>5, RunningKeepsIInv DEF NewClass
<1>4. ASSUME NEW l \in Locals, NEW h \in Locals, Push(h, l)
      PROVE  IInv'
  <2> DEFINE a == ref[Var(h)]
             p == Field(a, Elements[Length(a) + 1])
  <2>1. Sound /\ a \in live /\ a \in Objects
    BY <1>4, RunningSound, LocalPlace DEF Push, Array
  <2>2. Length(a) + 1 \in DOMAIN Elements
    BY <1>4, LengthInRange DEF Push
  <2>3. p \in Places /\ p[1] \in live
    BY <2>1, <2>2, PlaceNames, FieldNames DEF Field
  <2>4. /\ CopyTo(p, ref[Var(l)]) /\ ref[Var(l)] # Nil
        /\ live' = live /\ dying' = dying /\ stage' = stage /\ store' = store
    BY <1>4 DEF Push, Held
  <2> HIDE DEF p
  <2>5. Sound'
    BY <2>1, <2>3, <2>4, LocalPlace, CopySound
  <2> QED BY <1>4, <2>4, <2>5, RunningKeepsIInv DEF Push
<1>5. ASSUME NEW l \in Locals, NEW h \in Locals, Pop(h, l)
      PROVE  IInv'
  <2> DEFINE a == ref[Var(h)]
             q == Field(a, Elements[Length(a)])
  <2>1. Sound /\ a \in Objects
    BY <1>5, RunningSound, LocalPlace DEF Pop, Array
  <2>2. Length(a) \in DOMAIN Elements
    BY <1>5, LengthInRange DEF Pop
  <2>3. q \in Places
    BY <2>1, <2>2, PlaceNames, FieldNames
  <2>4. /\ ref' = [ref EXCEPT ![Var(l)] = ref[q], ![q] = Nil] /\ ref[Var(l)] = Nil
        /\ count' = count /\ live' = live /\ dying' = dying /\ stage' = stage /\ store' = store
    BY <1>5 DEF Pop, Held
  <2> HIDE DEF q
  <2>5. Sound'
    BY <2>1, <2>3, <2>4, LocalPlace, MoveSound
  <2> QED BY <1>5, <2>4, <2>5, RunningKeepsIInv DEF Pop
<1>6. ASSUME NEW l \in Locals, NEW h \in Locals, NEW i \in DOMAIN Elements,
             Replace(h, Elements[i], l)
      PROVE  IInv'
  <2> DEFINE p == Field(ref[Var(h)], Elements[i])
  <2>1. Sound /\ ref[Var(h)] \in live /\ ref[Var(h)] \in Objects
    BY <1>6, RunningSound, LocalPlace DEF Replace
  <2>2. p \in Places /\ p[1] = ref[Var(h)] /\ p # Var(h) /\ p # Var(l)
    BY <2>1, PlaceNames, FieldNames DEF Field
  <2>3. /\ ref[p] # Nil /\ ref[Var(l)] # Nil /\ ref[Var(h)] # Nil /\ Drop(p) /\ stage = "run"
        /\ store' = << p, Var(l) >> /\ live' = live /\ stage' = stage
    BY <1>6 DEF Replace, Held, Running
  <2>4. p \in Objects \X Fields
    BY <2>1, FieldNames DEF Field
  <2> HIDE DEF p
  <2>5. Sound'
    BY <2>1, <2>2, <2>3, DropSound
  <2>6. ref'[p] = Nil /\ ref'[Var(l)] = ref[Var(l)] /\ ref'[Var(h)] = ref[Var(h)]
    BY <2>1, <2>2, <2>3, LocalPlace DEF Drop, Sound
  <2>7. StoreSafe' /\ store' \in (Objects \X Fields) \X ({C} \X CNames)
    BY <2>2, <2>3, <2>4, <2>6 DEF StoreSafe, Var, CNames
  <2> QED BY <2>3, <2>5, <2>7 DEF IInv, TypeOK, Sound, SetupSafe, Standing
<1>7. ASSUME NEW h \in Locals, NEW k \in Builtins, MakeAttrdata(h, k)
      PROVE  IInv'
  <2>1. Sound /\ ref[Var(h)] \in live /\ ref[Var(h)] \in Objects
    BY <1>7, RunningSound, LocalPlace DEF MakeAttrdata
  <2>2. /\ Field(ref[Var(h)], "attrdata") \in Places
        /\ Field(ref[Var(h)], "attrdata")[1] \in live
    BY <2>1, PlaceNames, FieldNames DEF Field
  <2>3. PICK o \in Objects \ live :
          Create(o, Field(ref[Var(h)], "attrdata"), NewFields(ref[Var(k)]))
    BY <1>7, MallocFree DEF MakeAttrdata
  <2> QED BY <1>7, <2>2, <2>3, LocalPlace, NewKeepsIInv DEF MakeAttrdata
<1>8. ASSUME NEW l \in Locals, Throw(l)
      PROVE  IInv'
  <2>1. Sound
    BY <1>8, RunningSound DEF Throw
  <2>2. /\ ref[Var(l)] # Nil /\ CopyTo(Var("err"), ref[Var(l)])
        /\ live' = live /\ dying' = dying /\ stage' = stage /\ store' = store
    BY <1>8 DEF Throw, Held
  <2>3. Sound'
    BY <2>1, <2>2, LocalPlace, CopySound
  <2> QED BY <1>8, <2>2, <2>3, RunningKeepsIInv DEF Throw
<1>9. ASSUME NEW n \in Locals \cup {"err"}, Release(n)
      PROVE  IInv'
  <2>1. Sound
    BY <1>9, RunningSound DEF Release
  <2>2. ref[Var(n)] # Nil /\ Drop(Var(n)) /\ live' = live /\ stage' = stage /\ store' = store
    BY <1>9 DEF Release, Held
  <2>3. Sound'
    BY <2>1, <2>2, LocalPlace, DropSound
  <2> QED BY <1>9, <2>2, <2>3, RunningKeepsIInv DEF Release
<1>10. CASE NewFails
  <2>1. Sound
    BY <1>10, RunningSound DEF NewFails
  <2>2. ref' = ref /\ count' = count /\ live' = live /\ dying' = dying /\ stage' = stage /\ store' = store
    BY <1>10 DEF NewFails
  <2>3. Sound'
    BY <2>1, <2>2, UnchangedSound DEF Sound, Standing
  <2> QED BY <1>10, <2>2, <2>3, RunningKeepsIInv DEF NewFails
<1> QED BY <1>1, <1>2, <1>3, <1>4, <1>5, <1>6, <1>7, <1>8, <1>9, <1>10 DEF Mutator

-----------------------------------------------------------------------------
\* Setting up: the first builtin is Object, the second is Class.
LEMMA CreateBuiltinKeepsIInv == ASSUME IInv, CreateBuiltin PROVE IInv'
<1>1. PICK i \in DOMAIN SetupOrder, o \in Objects \ live :
        NextBuiltin(i) /\ Create(o, Var(SetupOrder[i]), NewClassFields(ObjectClass))
  BY MallocFree DEF CreateBuiltin
<1>2. /\ Sound /\ SetupSafe /\ stage = "setup" /\ ~Unpatched /\ ToSet(dying) = {}
      /\ dying' = dying /\ store' = store /\ stage' = stage /\ store = NoStore
  BY IInvSound DEF CreateBuiltin, IInv, Standing, Idle, ToSet
<1>3. /\ ObjectClass \in (live \ ToSet(dying)) \cup {Nil}
      /\ Class \in (live \ ToSet(dying)) \cup {Nil}
  BY <1>2, LocalPlace, BuiltinNames DEF Sound, NoDangling, Standing, ObjectClass, Class
<1> DEFINE fields == NewClassFields(ObjectClass)
           n == SetupOrder[i]
<1>4. /\ DOMAIN fields \subseteq Fields
      /\ \A f \in DOMAIN fields : fields[f] \in (live \ ToSet(dying)) \cup {Nil}
  BY <1>3, NewClassFieldNames
<1>5. /\ "klass" \in DOMAIN fields /\ fields["klass"] = Class
      /\ \A f \in DOMAIN fields : fields[f] \in {Class, ObjectClass}
  BY NewClassFieldNames DEF NewClassFields
<1> HIDE DEF fields
<1>6. /\ Create(o, Var(n), fields) /\ ref[Var(n)] = Nil /\ n \in Builtins
      /\ Var(n) \in Places /\ Var(n)[1] = C
  BY <1>1, BuiltinNames, LocalPlace DEF NextBuiltin, Held, fields
<1>7. /\ Sound'
      /\ ref'[Var(n)] = o
      /\ \A f \in Fields : ref'[Field(o, f)] = IF f \in DOMAIN fields THEN fields[f] ELSE Nil
      /\ \A q \in Places : q # Var(n) /\ q[1] # o => ref'[q] = ref[q]
  BY <1>2, <1>4, <1>6, CreateSound
<1>8. /\ 1 \in DOMAIN SetupOrder /\ 2 \in DOMAIN SetupOrder
      /\ SetupOrder[1] = "Object" /\ SetupOrder[2] = "Class"
      /\ i \in Nat /\ i > 0
  BY ObjectHeapAssumption
<1>9. i # 1 => Held("Object")
  BY <1>1, <1>8 DEF NextBuiltin
<1>10. i # 1 /\ i # 2 => Held("Class")
  BY <1>1, <1>8 DEF NextBuiltin
<1>11. /\ o \in Objects /\ o # C /\ o # Nil /\ o \notin live
       /\ \A b \in Builtins : Var(b) \in Places /\ Var(b)[1] = C /\ (Var(b) = Var(n) => b = n)
  BY ObjectHeapAssumption, LocalPlace DEF Var
<1>12. \A b \in Builtins : b # n => ref'[Var(b)] = ref[Var(b)]
  BY <1>7, <1>11
<1>13. ~Held("Class") => Class = Nil
  BY DEF Held, Class
<1>14. SetupSafe'
  <2>1. CASE i = 1
    <3>1. n = "Object" /\ "Class" \in Builtins /\ "Class" # "Object"
      BY <1>8, <2>1, BuiltinNames
    <3>2. ObjectClass' = o /\ Held("Object")' /\ Class' = Class /\ Held("Class")' = Held("Class")
      BY <1>7, <1>11, <1>12, <3>1 DEF ObjectClass, Class, Held
    <3>3. ~Held("Object")
      BY <1>6, <3>1 DEF Held
    <3>4. ~Held("Class")
      BY <1>2, <3>3 DEF SetupSafe
    <3>5. ObjectClass = Nil /\ Class = Nil
      BY <1>13, <3>3, <3>4 DEF Held, ObjectClass
    <3>6. ref'[Field(o, "klass")] = Nil
      BY <1>5, <1>7, <3>5, FieldNames
    <3> QED BY <3>2, <3>4, <3>6 DEF SetupSafe
  <2>2. CASE i = 2
    <3>1. n = "Class" /\ "Object" \in Builtins /\ "Class" # "Object"
      BY <1>8, <2>2, BuiltinNames
    <3>2. Class' = o /\ ObjectClass' = ObjectClass /\ Held("Object")' /\ Held("Object")
      BY <1>7, <1>9, <1>12, <2>2, <3>1 DEF ObjectClass, Class, Held
    <3>3. ~Held("Class") /\ Class = Nil /\ ObjectClass \in live
      BY <1>3, <1>6, <1>13, <3>1, <3>2 DEF Held, ObjectClass
    <3>4. ref[Field(ObjectClass, "klass")] = Nil
      BY <1>2, <3>2, <3>3 DEF SetupSafe
    <3>5. Field(ObjectClass, "klass") \in Places /\ Field(ObjectClass, "klass")[1] # o
          /\ Field(ObjectClass, "klass") # Var(n)
      BY <1>2, <1>11, <3>3, FieldNames, PlaceNames DEF Sound, Field
    <3>6. ref'[Field(ObjectClass, "klass")] = Nil
      BY <1>7, <3>4, <3>5
    <3> QED BY <1>11, <3>2, <3>3, <3>6 DEF SetupSafe
  <2>3. CASE i # 1 /\ i # 2
    <3>1. Held("Object") /\ Held("Class")
      BY <1>9, <1>10, <2>3
    <3>2. n # "Object" /\ n # "Class"
      BY <1>6, <3>1 DEF Held
    <3>3. Class' = Class /\ ObjectClass' = ObjectClass /\ Held("Class")' /\ Held("Object")'
      BY <1>12, <3>1, <3>2, BuiltinNames DEF Class, ObjectClass, Held
    <3>4. Class \in live /\ ref[Field(Class, "klass")] # Nil
      BY <1>2, <1>3, <3>1 DEF Held, Class, Unpatched
    <3>5. Field(Class, "klass") \in Places /\ Field(Class, "klass")[1] # o
          /\ Field(Class, "klass") # Var(n)
      BY <1>2, <1>11, <3>4, FieldNames, PlaceNames DEF Sound, Field
    <3>6. ~Unpatched'
      BY <1>7, <3>3, <3>4, <3>5 DEF Unpatched
    <3> QED BY <1>2, <3>1, <3>3, <3>6 DEF SetupSafe
  <2> QED BY <2>1, <2>2, <2>3
<1> QED BY <1>2, <1>7, <1>14 DEF IInv, TypeOK, Sound, StoreSafe, Idle

-----------------------------------------------------------------------------
LEMMA DropReferenceKeepsIInv == ASSUME IInv, DropReference PROVE IInv'
<1>1. Standing /\ stage \notin {"setup", "aborted"} /\ Sound
  BY IInvSound DEF DropReference, IInv, Idle, Standing
<1>2. Dying \in live /\ Dying \in Objects
  <2>1. dying \in Seq(live) /\ dying # << >> /\ live \subseteq Objects
    BY <1>1 DEF DropReference, Sound
  <2> QED BY <2>1 DEF Dying
<1>3. PICK i \in DOMAIN FieldOrder : /\ ref[Field(Dying, FieldOrder[i])] # Nil
                                     /\ Drop(Field(Dying, FieldOrder[i]))
  BY DEF DropReference, Turn
<1> DEFINE p == Field(Dying, FieldOrder[i])
<1>4. p \in Places /\ \A n : p # Var(n)
  BY <1>2, FieldNames, PlaceNames
<1>5. ref[p] # Nil /\ Drop(p) /\ live' = live /\ stage' = stage /\ store' = store
  BY <1>3 DEF DropReference
<1> HIDE DEF p
<1>6. Sound'
  BY <1>1, <1>4, <1>5, DropSound
<1>7. ref'[p] = Nil /\ \A q \in Places : q # p => ref'[q] = ref[q]
  BY <1>1, <1>4, <1>5 DEF Drop, Sound
<1>8. StoreSafe'
  <2>1. SUFFICES ASSUME store # NoStore PROVE StoreSafe'
    BY <1>5 DEF StoreSafe
  <2>2. PICK n \in CNames : /\ ref[Var(n)] = store[1][1] /\ Var(n) \in Places
                            /\ stage = "run" /\ ref[store[1]] = Nil /\ ref[store[2]] # Nil
    BY <2>1, PlaceNames DEF IInv, StoreSafe
  <2>3. PICK m \in CNames : store[2] = Var(m) /\ store[1] \in Places
    BY <2>1 DEF IInv, TypeOK, Var, Places
  <2>4. ref'[Var(n)] = ref[Var(n)] /\ ref'[store[2]] = ref[store[2]] /\ ref'[store[1]] = Nil
    BY <1>4, <1>7, <2>2, <2>3, PlaceNames
  <2> QED BY <1>5, <2>2, <2>4 DEF StoreSafe
<1> QED BY <1>1, <1>5, <1>6, <1>8, KeepsIInv

LEMMA FreeObjectKeepsIInv == ASSUME IInv, FreeObject PROVE IInv'
<1>1. Standing /\ stage \notin {"setup", "aborted"} /\ Sound
  BY IInvSound DEF FreeObject, IInv, Idle, Standing
<1>2. Sound'
  BY <1>1, FreeSound
<1>3. ref' = ref /\ stage' = stage /\ store' = store
  BY DEF FreeObject
<1>4. StoreSafe'
  BY <1>3 DEF IInv, StoreSafe
<1> QED BY <1>1, <1>2, <1>3, <1>4, KeepsIInv

LEMMA StoreNewKeepsIInv == ASSUME IInv, StoreNew PROVE IInv'
<1>1. PICK n \in CNames : /\ ref[Var(n)] = store[1][1] /\ Var(n) \in Places
                          /\ stage = "run" /\ ref[store[1]] = Nil /\ ref[store[2]] # Nil
  BY PlaceNames DEF StoreNew, IInv, StoreSafe
<1>2. Sound
  BY <1>1, IInvSound DEF Standing
<1>3. /\ store[1] \in Places /\ store[1][1] \in Objects /\ store[2] \in Places
      /\ store[1][1] # Nil
  BY ObjectHeapAssumption DEF StoreNew, IInv, TypeOK, Places
<1>4. store[1][1] \in live
  BY <1>1, <1>2, <1>3 DEF Sound, Standing, NoDangling
<1> DEFINE p == store[1]
           q == store[2]
<1>5. /\ CopyTo(p, ref[q]) /\ store' = NoStore
      /\ live' = live /\ dying' = dying /\ stage' = stage
  BY DEF StoreNew
<1>6. p \in Places /\ q \in Places /\ p[1] \in live /\ ref[q] # Nil
  BY <1>1, <1>3, <1>4
<1> HIDE DEF p, q
<1>7. Sound'
  BY <1>2, <1>5, <1>6, CopySound
<1> QED BY <1>1, <1>5, <1>7 DEF IInv, TypeOK, Sound, StoreSafe, SetupSafe

LEMMA TearDownKeepsIInv == ASSUME IInv, TearDown PROVE IInv'
<1>1. PICK i \in DOMAIN TearDownOrder : /\ ref[Var(TearDownOrder[i])] # Nil
                                        /\ Drop(Var(TearDownOrder[i]))
  BY DEF TearDown, NextTearDown, Held
<1>2. /\ stage = "teardown" /\ stage' = stage /\ store' = store /\ live' = live
      /\ store = NoStore /\ Sound
  BY IInvSound DEF TearDown, Idle, Standing
<1>3. Var(TearDownOrder[i]) \in Places
  BY LocalPlace, BuiltinNames
<1>4. Sound'
  BY <1>1, <1>2, <1>3, DropSound
<1>5. StoreSafe'
  BY <1>2 DEF StoreSafe
<1> QED BY <1>2, <1>4, <1>5, KeepsIInv

\* A step from one stage to the next, between two operations.
LEMMA StageKeepsIInv ==
  ASSUME IInv, Idle, UNCHANGED << ref, count, live, dying, store >>,
         stage # "wipe" /\ stage # "end",
         stage' \in {"run", "teardown", "wipe", "aborted"}
  PROVE  IInv'
<1>1. /\ ref' = ref /\ count' = count /\ live' = live /\ dying' = dying /\ store' = store
  OBVIOUS
<1>2. Idle' /\ TypeOK'
  BY <1>1 DEF Idle, IInv, TypeOK
<1>3. Sound /\ \A x : Referrers(x)' = Referrers(x)
  BY <1>1, IInvSound DEF Standing, Referrers
<1>4. CountsExact'
  BY <1>1, <1>3 DEF Sound, CountsExact
<1>5. NoDangling'
  BY <1>1, <1>3 DEF Sound, Standing, NoDangling
<1> QED BY <1>2, <1>4, <1>5 DEF IInv, StoreSafe, SetupSafe, Idle

\* gc_run frees what is left, and everything is idle meanwhile.
LEMMA EndKeepsIInv == ASSUME IInv, Wipe \/ Exit PROVE IInv'
<1>1. /\ ref' = ref /\ count' = count /\ dying' = dying /\ store' = store
      /\ live' \subseteq live /\ stage = "wipe" /\ stage' \in {"wipe", "end"}
  BY DEF Wipe, Exit
<1>2. Idle /\ Idle'
  BY <1>1 DEF IInv, Idle
<1>3. << >> \in Seq(live')
  OBVIOUS
<1>4. TypeOK'
  BY <1>1, <1>2, <1>3 DEF IInv, TypeOK, Idle
<1>5. \A x : Referrers(x)' = Referrers(x)
  BY <1>1 DEF Referrers
<1>6. CountsExact'
  BY <1>1, <1>5 DEF IInv, CountsExact
<1> QED BY <1>1, <1>2, <1>4, <1>6 DEF IInv, NoDangling, StoreSafe, SetupSafe, Idle

LEMMA Step == IInv /\ [Next]_vars => IInv'
<1> SUFFICES ASSUME IInv, [Next]_vars PROVE IInv'
  OBVIOUS
<1>1. CASE CreateBuiltin
  BY <1>1, CreateBuiltinKeepsIInv
<1>2. CASE PatchKlasses
  <2>1. /\ stage = "setup" /\ stage' = stage /\ store' = store /\ store = NoStore
        /\ dying' = dying /\ Idle
    BY <1>2 DEF PatchKlasses, Idle
  <2>2. Sound' /\ SetupSafe'
    BY <1>2, <2>1, PatchSound, IInvSound DEF IInv, Standing
  <2> QED BY <2>1, <2>2 DEF IInv, TypeOK, Sound, StoreSafe, Idle
<1>3. CASE EndSetup \/ FailSetup \/ EndRun \/ GcRun
  BY <1>3, StageKeepsIInv DEF EndSetup, FailSetup, EndRun, GcRun, Running
<1>4. CASE Mutator
  BY <1>4, MutatorKeepsIInv
<1>5. CASE DropReference \/ FreeObject \/ StoreNew \/ TearDown
  BY <1>5, DropReferenceKeepsIInv, FreeObjectKeepsIInv, StoreNewKeepsIInv, TearDownKeepsIInv
<1>6. CASE Wipe \/ Exit
  BY <1>6, EndKeepsIInv
<1>7. CASE UNCHANGED vars
  <2>1. /\ ref' = ref /\ count' = count /\ live' = live /\ dying' = dying
        /\ store' = store /\ stage' = stage
    BY <1>7 DEF vars
  <2>2. \A x : Referrers(x)' = Referrers(x)
    BY <2>1 DEF Referrers
  <2>3. CountsExact' /\ NoDangling'
    BY <2>1, <2>2 DEF IInv, CountsExact, NoDangling
  <2>4. StoreSafe' /\ SetupSafe'
    BY <2>1 DEF IInv, StoreSafe, SetupSafe, Held, Unpatched, Class, ObjectClass
  <2> QED BY <2>1, <2>3, <2>4 DEF IInv, TypeOK, Idle
<1> QED BY <1>1, <1>2, <1>3, <1>4, <1>5, <1>6, <1>7 DEF Next, Automatic

\* The inductive invariant holds in every run of the interpreter.
THEOREM Invariance == Spec => []IInv
<1>1. Init => IInv
  BY IInvInit
<1> QED BY <1>1, Step, PTL DEF Spec

\* Every variable keeps its type, for any objects, fields and builtins.
THEOREM TypeCorrect == Spec => []TypeOK
<1>1. IInv => TypeOK
  BY DEF IInv
<1> QED BY <1>1, Invariance, PTL

(***************************************************************************)
(* refcount is always the number of references to the object, also in the  *)
(* middle of a recursive free, whatever C functions do with references     *)
(* (objectsystem.c, 41 to 68; objectsystem.h, 59 to 64).                   *)
(***************************************************************************)
THEOREM CountsAreExact == Spec => []CountsExact
<1>1. IInv => CountsExact
  BY DEF IInv
<1> QED BY <1>1, Invariance, PTL

(***************************************************************************)
(* No reference leads to an object that is freed or being freed, and no    *)
(* object is being freed twice (objectsystem.c, 46 to 68).                 *)
(***************************************************************************)
THEOREM NothingDangles == Spec => []NoDangling
<1>1. IInv => NoDangling
  BY DEF IInv
<1> QED BY <1>1, Invariance, PTL

-----------------------------------------------------------------------------
(***************************************************************************)
(* Every object that is not being freed is in use.                         *)
(***************************************************************************)
InUse == Standing => \A o \in live \ ToSet(dying) : count[o] > 0

\* What the operations on references do to the counts: one goes down by one,
\* and its object is on the stack of object_free_impl if that leaves nothing.
LEMMA DropInUse ==
  ASSUME Sound, InUse, NEW p \in Places, ref[p] # Nil, Drop(p), live' = live
  PROVE  InUse'
<1>1. PICK o \in Objects : o = ref[p] /\ o \in live
  BY DEF Sound, Standing, NoDangling
<1>2. /\ count' = [count EXCEPT ![o] = @ - 1] /\ count \in [Objects -> Nat] /\ live \subseteq Objects
      /\ dying' = IF LastReference(o) THEN Append(dying, o) ELSE dying
      /\ dying \in Seq(live)
  BY <1>1 DEF Drop, Decref, Sound
<1>3. ToSet(dying) \subseteq ToSet(dying')
  <2>1. CASE LastReference(o)
    <3>1. dying' = Append(dying, o) /\ dying \in Seq(live)
      BY <1>2, <2>1
    <3>2. \A i \in DOMAIN dying : i \in DOMAIN dying' /\ dying'[i] = dying[i]
      BY <3>1
    <3> QED BY <3>2 DEF ToSet
  <2>2. CASE ~LastReference(o)
    BY <1>2, <2>2
  <2> QED BY <2>1, <2>2
<1>4. LastReference(o) => o \in ToSet(dying')
  <2> SUFFICES ASSUME LastReference(o) PROVE o \in ToSet(dying')
    OBVIOUS
  <2>1. Len(dying) + 1 \in DOMAIN dying' /\ dying'[Len(dying) + 1] = o
    BY <1>1, <1>2
  <2> QED BY <2>1 DEF ToSet
<1>5. ASSUME NEW x \in live \ ToSet(dying')
      PROVE  count'[x] > 0
  <2>1. x \in Objects /\ count[x] > 0
    BY <1>2, <1>3, <1>5 DEF InUse, Sound
  <2>2. CASE x = o
    BY <1>2, <1>4, <1>5, <2>1, <2>2 DEF LastReference
  <2>3. CASE x # o
    BY <1>2, <2>1, <2>3
  <2> QED BY <2>2, <2>3
<1> QED BY <1>5 DEF InUse

LEMMA CreateInUse ==
  ASSUME Sound, InUse, NEW o \in Objects, NEW p, NEW fields, DOMAIN fields \subseteq Fields,
         Create(o, p, fields), dying' = dying
  PROVE  InUse'
<1>1. /\ count' = [x \in Objects |-> IF x = o THEN 1 ELSE count[x] + Users(fields, x)]
      /\ live' = live \cup {o} /\ live \subseteq Objects /\ count \in [Objects -> Nat]
  BY DEF Create, Sound
<1>2. \A x \in Objects : Users(fields, x) \in Nat
  <2> TAKE x \in Objects
  <2>1. {f \in DOMAIN fields : fields[f] = x} \in SUBSET Fields
    OBVIOUS
  <2>2. IsFiniteSet({f \in DOMAIN fields : fields[f] = x})
    BY <2>1, FieldNames, FS_Subset
  <2> QED BY <2>2, FS_CardinalityType DEF Users
<1>3. \A x \in live \ ToSet(dying) : count[x] > 0
  BY DEF InUse, Sound
<1>4. \A x \in live' \ ToSet(dying) : x \in Objects /\ count'[x] > 0
  BY <1>1, <1>2, <1>3
<1> QED BY <1>4 DEF InUse

LEMMA CopyInUse ==
  ASSUME Sound, InUse, NEW p, NEW o, CopyTo(p, o), live' = live, dying' = dying
  PROVE  InUse'
<1>1. count' = [count EXCEPT ![o] = @ + 1] /\ count \in [Objects -> Nat] /\ live \subseteq Objects
  BY DEF CopyTo, Sound
<1>2. \A x \in live \ ToSet(dying) : count[x] > 0
  BY DEF InUse, Sound
<1> QED BY <1>1, <1>2 DEF InUse

LEMMA FreeInUse ==
  ASSUME Sound, InUse, FreeObject
  PROVE  InUse'
<1>1. PICK n \in Nat \ {0} : n = Len(dying) /\ DOMAIN dying = 1 .. n /\ dying \in Seq(live)
  BY DEF Sound, FreeObject
<1>2. /\ live' = live \ {dying[n]} /\ count' = count
      /\ DOMAIN dying' = 1 .. n - 1 /\ \A i \in 1 .. n - 1 : dying'[i] = dying[i]
  BY <1>1 DEF FreeObject, Dying
<1>3. \A i \in 1 .. n : i = n \/ i \in 1 .. n - 1
  BY <1>1
<1>4. live' \ ToSet(dying') \subseteq live \ ToSet(dying)
  BY <1>1, <1>2, <1>3 DEF ToSet
<1> QED BY <1>2, <1>4 DEF InUse, Sound

LEMMA InUseStep == IInv /\ InUse /\ [Next]_vars => InUse'
<1> SUFFICES ASSUME IInv, InUse, [Next]_vars PROVE InUse'
  OBVIOUS
<1>1. ASSUME count' = count, live' = live, dying' = dying, Standing' => Standing
      PROVE  InUse'
  BY <1>1 DEF InUse
<1>2. ASSUME NEW l \in Locals, NEW h \in Locals, NEW f \in Fields, Get(h, f, l)
      PROVE  InUse'
  BY <1>2, RunningSound, CopyInUse DEF Get
<1>3. ASSUME NEW l \in Locals, NEW k \in Locals \cup Builtins, New(k, l) \/ NewClass(k, l)
      PROVE  InUse'
  <2>1. Sound /\ dying' = dying
    BY <1>3, RunningSound DEF New, NewClass
  <2>2. PICK o \in Objects :
          Create(o, Var(l), NewFields(ref[Var(k)])) \/ Create(o, Var(l), NewClassFields(ref[Var(k)]))
    BY <1>3, MallocFree DEF New, NewClass
  <2>3. /\ DOMAIN NewFields(ref[Var(k)]) \subseteq Fields
        /\ DOMAIN NewClassFields(ref[Var(k)]) \subseteq Fields
    BY NewClassFieldNames, FieldNames DEF NewFields
  <2> QED BY <2>1, <2>2, <2>3, CreateInUse
<1>4. ASSUME NEW l \in Locals, NEW h \in Locals, Push(h, l)
      PROVE  InUse'
  BY <1>4, RunningSound, CopyInUse DEF Push
<1>5. ASSUME NEW l \in Locals, NEW h \in Locals, Pop(h, l)
      PROVE  InUse'
  BY <1>1, <1>5 DEF Pop, Standing
<1>6. ASSUME NEW l \in Locals, NEW h \in Locals, NEW i \in DOMAIN Elements,
             Replace(h, Elements[i], l)
      PROVE  InUse'
  <2> DEFINE p == Field(ref[Var(h)], Elements[i])
  <2>1. Sound /\ p \in Places
    BY <1>6, RunningSound, LocalPlace, PlaceNames, FieldNames DEF Replace
  <2>2. ref[p] # Nil /\ Drop(p) /\ live' = live
    BY <1>6 DEF Replace
  <2> HIDE DEF p
  <2> QED BY <2>1, <2>2, DropInUse
<1>7. ASSUME NEW h \in Locals, NEW k \in Builtins, MakeAttrdata(h, k)
      PROVE  InUse'
  <2>1. Sound /\ dying' = dying
    BY <1>7, RunningSound DEF MakeAttrdata
  <2>2. PICK o \in Objects : Create(o, Field(ref[Var(h)], "attrdata"), NewFields(ref[Var(k)]))
    BY <1>7, MallocFree DEF MakeAttrdata
  <2>3. DOMAIN NewFields(ref[Var(k)]) \subseteq Fields
    BY FieldNames DEF NewFields
  <2> QED BY <2>1, <2>2, <2>3, CreateInUse
<1>8. ASSUME NEW l \in Locals, Throw(l)
      PROVE  InUse'
  BY <1>8, RunningSound, CopyInUse DEF Throw
<1>9. ASSUME NEW n \in Locals \cup {"err"}, Release(n)
      PROVE  InUse'
  BY <1>9, RunningSound, LocalPlace, DropInUse DEF Release, Held
<1>10. CASE NewFails
  BY <1>1, <1>10 DEF NewFails, Standing
<1>11. CASE CreateBuiltin
  <2>1. Sound /\ dying' = dying
    BY <1>11, IInvSound DEF CreateBuiltin, Standing
  <2>2. PICK o \in Objects, i \in DOMAIN SetupOrder :
          Create(o, Var(SetupOrder[i]), NewClassFields(ObjectClass))
    BY <1>11, MallocFree DEF CreateBuiltin
  <2>3. DOMAIN NewClassFields(ObjectClass) \subseteq Fields
    BY NewClassFieldNames
  <2> QED BY <2>1, <2>2, <2>3, CreateInUse
<1>12. CASE PatchKlasses
  <2>1. Sound /\ live' = live /\ dying' = dying /\ count' = [count EXCEPT ![Class] = @ + 2]
    BY <1>12, IInvSound DEF PatchKlasses, Standing
  <2>2. count \in [Objects -> Nat] /\ live \subseteq Objects /\ \A x \in live \ ToSet(dying) : count[x] > 0
    BY <2>1 DEF Sound, InUse
  <2> QED BY <2>1, <2>2 DEF InUse
<1>13. CASE EndSetup \/ FailSetup \/ EndRun \/ GcRun
  BY <1>1, <1>13 DEF EndSetup, FailSetup, EndRun, GcRun, Standing, Running
<1>14. CASE DropReference
  <2>1. Sound
    BY <1>14, IInvSound DEF DropReference, IInv, Idle, Standing
  <2>2. Dying \in Objects
    <3>1. dying \in Seq(live) /\ dying # << >> /\ live \subseteq Objects
      BY <1>14, <2>1 DEF DropReference, Sound
    <3> QED BY <3>1 DEF Dying
  <2>3. PICK i \in DOMAIN FieldOrder : /\ ref[Field(Dying, FieldOrder[i])] # Nil
                                       /\ Drop(Field(Dying, FieldOrder[i]))
    BY <1>14 DEF DropReference, Turn
  <2>4. Field(Dying, FieldOrder[i]) \in Places /\ live' = live
    BY <1>14, <2>2, FieldNames, PlaceNames DEF DropReference
  <2> QED BY <2>1, <2>3, <2>4, DropInUse
<1>15. CASE FreeObject
  BY <1>15, IInvSound, FreeInUse DEF FreeObject, IInv, Idle, Standing
<1>16. CASE StoreNew
  <2>1. Sound
    BY <1>16, IInvSound DEF StoreNew, IInv, StoreSafe, Standing
  <2> QED BY <1>16, <2>1, CopyInUse DEF StoreNew
<1>17. CASE TearDown
  <2>1. Sound /\ live' = live
    BY <1>17, IInvSound DEF TearDown, Standing
  <2>2. PICK i \in DOMAIN TearDownOrder : /\ ref[Var(TearDownOrder[i])] # Nil
                                          /\ Drop(Var(TearDownOrder[i]))
    BY <1>17 DEF TearDown, NextTearDown, Held
  <2>3. Var(TearDownOrder[i]) \in Places
    BY LocalPlace, BuiltinNames
  <2> QED BY <2>1, <2>2, <2>3, DropInUse
<1>18. CASE Wipe \/ Exit
  BY <1>18 DEF Wipe, Exit, InUse, Standing
<1>19. CASE UNCHANGED vars
  BY <1>1, <1>19 DEF vars, Standing
<1>20. CASE Mutator
  BY <1>2, <1>3, <1>4, <1>5, <1>6, <1>7, <1>8, <1>9, <1>10, <1>20 DEF Mutator
<1> QED BY <1>11, <1>12, <1>13, <1>14, <1>15, <1>16, <1>17, <1>18, <1>19, <1>20
        DEF Next, Automatic

(***************************************************************************)
(* Reference counting frees all but cycles (gc.c): an object that C cannot *)
(* reach any more, and that is still there between two operations, is      *)
(* referred to by another such object.                                     *)
(***************************************************************************)
THEOREM OnlyCyclesAreLeft == Spec => []GarbageIsCyclic
<1>1. Init => InUse
  BY DEF Init, InUse
<1>2. IInv /\ InUse => GarbageIsCyclic
  <2> SUFFICES ASSUME IInv, InUse, Idle, Standing, NEW o \in Garbage
               PROVE  \E p \in Referrers(o) : p[1] \in Garbage
    BY DEF GarbageIsCyclic, Standing
  <2>1. Sound /\ o \in live /\ o \notin Reachable
    BY IInvSound DEF Garbage
  <2>2. o # Nil /\ count[o] > 0
    BY <2>1, ObjectHeapAssumption DEF InUse, Idle, ToSet, Sound
  <2>3. PICK p \in Places : ref[p] = o
    <3>1. Cardinality(Referrers(o)) # 0
      BY <2>1, <2>2 DEF Sound, CountsExact
    <3>2. Referrers(o) # {}
      BY <3>1, FS_EmptySet
    <3> QED BY <3>2 DEF Referrers
  <2>4. PICK S \in SUBSET live :
          /\ Closed(S) /\ {ref[Var(n)] : n \in CNames} \subseteq S \cup {Nil}
          /\ o \notin S
    BY <2>1 DEF Reachable
  <2>5. p[1] # C
    <3> SUFFICES ASSUME p[1] = C PROVE FALSE
      OBVIOUS
    <3>1. PICK n \in CNames : p = Var(n)
      BY ObjectHeapAssumption DEF Places, Var
    <3> QED BY <2>2, <2>3, <2>4, <3>1
  <2>6. p[1] \in live
    BY <2>1, <2>2, <2>3, <2>5 DEF Sound, Standing, NoDangling
  <2>7. p[1] \notin S
    <3>1. PICK f \in Fields : p = Field(p[1], f)
      BY <2>5 DEF Places, Field
    <3> QED BY <2>2, <2>3, <2>4, <3>1 DEF Closed
  <2> QED BY <2>3, <2>4, <2>6, <2>7 DEF Garbage, Reachable, Referrers
<1> QED BY <1>1, <1>2, Invariance, InUseStep, PTL DEF Spec

-----------------------------------------------------------------------------
(***************************************************************************)
(* interp->allobjects: the table of AllObjects holds exactly the live      *)
(* objects, through growing and unlinking, for any addresses and any       *)
(* number of buckets; and so gc_run finds no problem.                      *)
(***************************************************************************)

\* The table t has the objects S, each once, in the bucket of its address.
Holds(t, S, n) ==
  /\ t \in [size : Nat, chains : [0 .. n - 1 -> Seq(Objects)]]
  /\ t.size = Cardinality(S)
  /\ \A b \in 0 .. n - 1 :
       /\ IsInjective(t.chains[b])
       /\ \A x : x \in ToSet(t.chains[b]) <=> x \in S /\ Bucket(x, n) = b
TableOf(t, S) == \E n \in Nat \ {0} : Holds(t, S, n)

-----------------------------------------------------------------------------
LEMMA BucketInRange ==
  ASSUME NEW n \in Nat \ {0}, NEW o \in Objects
  PROVE  Bucket(o, n) \in 0 .. n - 1
<1>1. Address[o] \in Nat
  BY AllObjectsAssumption, ObjectHeapAssumption
<1> QED BY <1>1 DEF Bucket

LEMMA BucketCount ==
  ASSUME NEW n \in Nat \ {0}, NEW t, NEW S, Holds(t, S, n)
  PROVE  NBuckets(t) = n
<1>1. DOMAIN t.chains = 0 .. n - 1
  BY DEF Holds
<1>2. 0 \in Int /\ n - 1 \in Int /\ ~(0 > n - 1) /\ n - 1 - 0 + 1 = n
  OBVIOUS
<1>3. Cardinality(0 .. n - 1) = n
  BY <1>2, FS_Interval
<1> QED BY <1>1, <1>3 DEF NBuckets

LEMMA EmptyHolds == Holds(EmptyTable, {}, FirstBuckets)
<1>1. /\ EmptyTable \in [size : Nat, chains : [0 .. FirstBuckets - 1 -> Seq(Objects)]]
      /\ EmptyTable.size = 0
      /\ \A b \in 0 .. FirstBuckets - 1 : EmptyTable.chains[b] = << >>
  BY DEF EmptyTable
<1>2. ToSet(<< >>) = {} /\ IsInjective(<< >>)
  BY DEF ToSet, IsInjective
<1>3. Cardinality({}) = 0
  BY FS_EmptySet
<1> QED BY <1>1, <1>2, <1>3 DEF Holds

\* allobjects_iternext gives every object of the table once.
LEMMA ItemsExact ==
  ASSUME NEW n \in Nat \ {0}, NEW t, NEW S, S \subseteq Objects, Holds(t, S, n)
  PROVE  /\ ItemsInOrder(t) \in Seq(Objects)
         /\ ToSet(ItemsInOrder(t)) = S
         /\ IsInjective(ItemsInOrder(t))
         /\ IsFiniteSet(S) /\ Len(ItemsInOrder(t)) = Cardinality(S)
<1> DEFINE ss == [i \in 1 .. n |-> t.chains[i - 1]]
<1>1. \A i \in 1 .. n : i - 1 \in 0 .. n - 1 /\ ss[i] = t.chains[i - 1] /\ ss[i] \in Seq(Objects)
  BY DEF Holds
<1>2. ss \in Seq(Seq(Objects)) /\ Len(ss) = n
  <2>1. ss \in [1 .. n -> Seq(Objects)]
    BY <1>1
  <2> QED BY <2>1, SeqDef
<1>3. ItemsInOrder(t) = FlattenSeq(ss)
  BY BucketCount DEF ItemsInOrder
<1>4. \A i \in 1 .. n : \A x : x \in ToSet(ss[i]) <=> x \in S /\ Bucket(x, n) = i - 1
  BY <1>1 DEF Holds
<1>5. \A i \in 1 .. n : IsInjective(ss[i])
  BY <1>1 DEF Holds
<1> HIDE DEF ss
<1>6. \A i, j \in 1 .. n : i # j => ToSet(ss[i]) \cap ToSet(ss[j]) = {}
  <2> SUFFICES ASSUME NEW i \in 1 .. n, NEW j \in 1 .. n, i # j, NEW x,
                      x \in ToSet(ss[i]), x \in ToSet(ss[j])
               PROVE  FALSE
    OBVIOUS
  <2>1. i - 1 = j - 1
    BY <1>4
  <2> QED BY <2>1
<1>7. \A x : x \in ToSet(FlattenSeq(ss)) <=> \E i \in 1 .. n : x \in ToSet(ss[i])
  BY <1>2, FlattenElements
<1>8. ToSet(FlattenSeq(ss)) = S
  <2>1. \A x \in ToSet(FlattenSeq(ss)) : x \in S
    BY <1>4, <1>7
  <2>2. ASSUME NEW x \in S PROVE x \in ToSet(FlattenSeq(ss))
    <3>1. Bucket(x, n) \in 0 .. n - 1
      BY BucketInRange
    <3>2. Bucket(x, n) + 1 \in 1 .. n /\ (Bucket(x, n) + 1) - 1 = Bucket(x, n)
      BY <3>1
    <3> QED BY <1>4, <1>7, <3>2
  <2> QED BY <2>1, <2>2
<1>9. FlattenSeq(ss) \in Seq(Objects) /\ IsInjective(FlattenSeq(ss))
  BY <1>2, <1>5, <1>6, FlattenElements
<1> QED BY <1>3, <1>8, <1>9, InjectiveLength

\* make_bigger loses and repeats nothing.
LEMMA BiggerHolds ==
  ASSUME NEW n \in Nat \ {0}, NEW t, NEW S, S \subseteq Objects, Holds(t, S, n)
  PROVE  Holds(Bigger(t), S, 2 * n)
<1> DEFINE m == 2 * n
           h == [o \in Objects |-> Bucket(o, m)]
           chains == Rechained(ItemsInOrder(t), 0 .. m - 1, h)
<1>1. m \in Nat \ {0} /\ h \in [Objects -> 0 .. m - 1]
  BY BucketInRange
<1>2. Bigger(t) = [t EXCEPT !.chains = chains]
  BY BucketCount, ObjectHeapAssumption DEF Bigger
<1>3. \A o \in Objects : h[o] = Bucket(o, m)
  OBVIOUS
<1> HIDE DEF m, h
<1>4. /\ ItemsInOrder(t) \in Seq(Objects) /\ ToSet(ItemsInOrder(t)) = S
      /\ IsInjective(ItemsInOrder(t))
  BY ItemsExact
<1>5. /\ chains \in [0 .. m - 1 -> Seq(Objects)]
      /\ \A b \in 0 .. m - 1 : \A x :
           x \in ToSet(chains[b]) <=> x \in ToSet(ItemsInOrder(t)) /\ h[x] = b
      /\ \A b \in 0 .. m - 1 : IsInjective(chains[b])
  BY <1>1, <1>4, RechainedElements
<1>6. \A b \in 0 .. m - 1 : \A x : x \in ToSet(chains[b]) <=> x \in S /\ Bucket(x, m) = b
  BY <1>3, <1>4, <1>5
<1> HIDE DEF chains
<1>7. /\ Bigger(t) \in [size : Nat, chains : [0 .. m - 1 -> Seq(Objects)]]
      /\ Bigger(t).size = t.size /\ Bigger(t).chains = chains
  BY <1>2, <1>5 DEF Holds
<1>8. t.size = Cardinality(S)
  BY DEF Holds
<1> QED BY <1>5, <1>6, <1>7, <1>8 DEF Holds, m

LEMMA GrownHolds ==
  ASSUME NEW t, NEW S, S \subseteq Objects, TableOf(t, S)
  PROVE  TableOf(Grown(t), S)
<1>1. PICK n \in Nat \ {0} : Holds(t, S, n)
  BY DEF TableOf
<1>2. Holds(Bigger(t), S, 2 * n) /\ 2 * n \in Nat \ {0}
  BY <1>1, BiggerHolds
<1>3. Grown(t) = Bigger(t) \/ Grown(t) = t
  BY DEF Grown
<1> QED BY <1>1, <1>2, <1>3 DEF TableOf

\* allobjects_add.
LEMMA AddedHolds ==
  ASSUME NEW t, NEW S, S \subseteq Objects, TableOf(t, S), NEW o \in Objects \ S
  PROVE  TableOf(Added(t, o), S \cup {o})
<1> DEFINE g == Grown(t)
<1>1. PICK n \in Nat \ {0} : Holds(g, S, n)
  BY GrownHolds DEF TableOf
<1>2. NBuckets(g) = n /\ IsFiniteSet(S)
  BY <1>1, BucketCount, ItemsExact
<1> DEFINE k == Bucket(o, n)
           a == Inserted(g, o)
<1>3. k \in 0 .. n - 1
  BY BucketInRange
<1> HIDE DEF g
<1>4. a = [g EXCEPT !.size = @ + 1, !.chains[k] = << o >> \o @]
  BY <1>2 DEF Inserted
<1>5. g \in [size : Nat, chains : [0 .. n - 1 -> Seq(Objects)]] /\ g.size = Cardinality(S)
  BY <1>1 DEF Holds
<1> HIDE DEF k, a
<1>6. o \notin ToSet(g.chains[k]) /\ IsInjective(g.chains[k]) /\ g.chains[k] \in Seq(Objects)
  BY <1>1, <1>3, <1>5 DEF Holds
<1>7. /\ << o >> \o g.chains[k] \in Seq(Objects) /\ IsInjective(<< o >> \o g.chains[k])
      /\ ToSet(<< o >> \o g.chains[k]) = ToSet(g.chains[k]) \cup {o}
  BY <1>6, ConsElements
<1>8. /\ a.size = Cardinality(S) + 1 /\ a.chains[k] = << o >> \o g.chains[k]
      /\ \A b \in 0 .. n - 1 : b # k => a.chains[b] = g.chains[b]
  BY <1>3, <1>4, <1>5
<1>9. a \in [size : Nat, chains : [0 .. n - 1 -> Seq(Objects)]]
  BY <1>3, <1>4, <1>5, <1>7
<1>10. Cardinality(S \cup {o}) = Cardinality(S) + 1
  BY <1>2, FS_AddElement
<1>11. \A b \in 0 .. n - 1 : IsInjective(a.chains[b])
  <2> TAKE b \in 0 .. n - 1
  <2>1. IsInjective(g.chains[b])
    BY <1>1 DEF Holds
  <2> QED BY <1>7, <1>8, <2>1
<1>12. \A b \in 0 .. n - 1 : \A x :
          x \in ToSet(a.chains[b]) <=> x \in S \cup {o} /\ Bucket(x, n) = b
  <2> SUFFICES ASSUME NEW b \in 0 .. n - 1, NEW x
               PROVE  x \in ToSet(a.chains[b]) <=> x \in S \cup {o} /\ Bucket(x, n) = b
    OBVIOUS
  <2>1. x \in ToSet(g.chains[b]) <=> x \in S /\ Bucket(x, n) = b
    BY <1>1 DEF Holds
  <2>2. Bucket(o, n) = k
    BY DEF k
  <2> QED BY <1>7, <1>8, <2>1, <2>2
<1>13. Holds(a, S \cup {o}, n)
  BY <1>8, <1>9, <1>10, <1>11, <1>12 DEF Holds
<1> QED BY <1>13 DEF TableOf, Added, a, g

\* allobjects_remove.
LEMMA RemovedHolds ==
  ASSUME NEW t, NEW S, S \subseteq Objects, TableOf(t, S), NEW o \in S
  PROVE  TableOf(Removed(t, o), S \ {o})
<1>1. PICK n \in Nat \ {0} : Holds(t, S, n)
  BY DEF TableOf
<1>2. NBuckets(t) = n /\ IsFiniteSet(S)
  BY <1>1, BucketCount, ItemsExact
<1> DEFINE k == Bucket(o, n)
           r == Removed(t, o)
<1>3. k \in 0 .. n - 1
  BY BucketInRange
<1>4. t \in [size : Nat, chains : [0 .. n - 1 -> Seq(Objects)]] /\ t.size = Cardinality(S)
  BY <1>1 DEF Holds
<1>5. o \in ToSet(t.chains[k]) /\ IsInjective(t.chains[k]) /\ t.chains[k] \in Seq(Objects)
  BY <1>1, <1>3, <1>4 DEF Holds
<1>6. r = [t EXCEPT !.size = @ - 1, !.chains[k] = Unlinked(@, o)]
  BY <1>2, <1>5 DEF Removed
<1> HIDE DEF k, r
<1>7. /\ Unlinked(t.chains[k], o) \in Seq(Objects) /\ IsInjective(Unlinked(t.chains[k], o))
      /\ ToSet(Unlinked(t.chains[k], o)) = ToSet(t.chains[k]) \ {o}
  BY <1>5, UnlinkedElements
<1>8. Cardinality(S \ {o}) = Cardinality(S) - 1 /\ Cardinality(S \ {o}) \in Nat
  BY <1>2, FS_RemoveElement, FS_CardinalityType
<1>9. /\ r.size = Cardinality(S) - 1 /\ r.chains[k] = Unlinked(t.chains[k], o)
      /\ \A b \in 0 .. n - 1 : b # k => r.chains[b] = t.chains[b]
  BY <1>3, <1>4, <1>6
<1>10. r \in [size : Nat, chains : [0 .. n - 1 -> Seq(Objects)]]
  BY <1>3, <1>4, <1>6, <1>7, <1>8
<1>11. \A b \in 0 .. n - 1 : IsInjective(r.chains[b])
  <2> TAKE b \in 0 .. n - 1
  <2>1. IsInjective(t.chains[b])
    BY <1>1 DEF Holds
  <2> QED BY <1>7, <1>9, <2>1
<1>12. \A b \in 0 .. n - 1 : \A x :
          x \in ToSet(r.chains[b]) <=> x \in S \ {o} /\ Bucket(x, n) = b
  <2> SUFFICES ASSUME NEW b \in 0 .. n - 1, NEW x
               PROVE  x \in ToSet(r.chains[b]) <=> x \in S \ {o} /\ Bucket(x, n) = b
    OBVIOUS
  <2>1. x \in ToSet(t.chains[b]) <=> x \in S /\ Bucket(x, n) = b
    BY <1>1 DEF Holds
  <2>2. Bucket(o, n) = k
    BY DEF k
  <2> QED BY <1>7, <1>9, <2>1, <2>2
<1>13. Holds(r, S \ {o}, n)
  BY <1>8, <1>9, <1>10, <1>11, <1>12 DEF Holds
<1> QED BY <1>13 DEF TableOf, r

-----------------------------------------------------------------------------
(***************************************************************************)
(* The table and the live objects.  gc_run frees the objects and leaves    *)
(* the table as it is.                                                     *)
(***************************************************************************)
TableExact == Standing => TableOf(ao, live)

LEMMA CreateKeepsTable ==
  ASSUME Sound, TableExact, NEW o \in Malloc(Objects \ live), NEW p, NEW fields,
         Create(o, p, fields)
  PROVE  TableExact'
<1>1. live \subseteq Objects /\ o \in Objects \ live /\ TableOf(ao, live)
  BY MallocFree DEF Sound, TableExact
<1>2. ao' = Added(ao, o) /\ live' = live \cup {o}
  BY DEF Create
<1> QED BY <1>1, <1>2, AddedHolds DEF TableExact

LEMMA FreeKeepsTable ==
  ASSUME Sound, TableExact, FreeObject
  PROVE  TableExact'
<1>1. dying \in Seq(live) /\ dying # << >> /\ live \subseteq Objects /\ TableOf(ao, live)
  BY DEF Sound, FreeObject, TableExact
<1>2. Dying \in live
  BY <1>1 DEF Dying
<1>3. ao' = Removed(ao, Dying) /\ live' = live \ {Dying}
  BY DEF FreeObject
<1> QED BY <1>1, <1>2, <1>3, RemovedHolds DEF TableExact

LEMMA TableStep == IInv /\ TableExact /\ [Next]_vars => TableExact'
<1> SUFFICES ASSUME IInv, TableExact, [Next]_vars PROVE TableExact'
  OBVIOUS
<1>1. ASSUME ao' = ao, live' = live, Standing' => Standing
      PROVE  TableExact'
  BY <1>1 DEF TableExact
<1>2. ASSUME NEW l \in Locals, NEW k \in Locals \cup Builtins, New(k, l) \/ NewClass(k, l)
      PROVE  TableExact'
  <2>1. Sound
    BY <1>2, RunningSound DEF New, NewClass
  <2> QED BY <1>2, <2>1, CreateKeepsTable DEF New, NewClass
<1>3. ASSUME NEW h \in Locals, NEW k \in Builtins, MakeAttrdata(h, k)
      PROVE  TableExact'
  <2>1. Sound
    BY <1>3, RunningSound DEF MakeAttrdata
  <2> QED BY <1>3, <2>1, CreateKeepsTable DEF MakeAttrdata
<1>4. CASE CreateBuiltin
  <2>1. Sound
    BY <1>4, IInvSound DEF CreateBuiltin, Standing
  <2> QED BY <1>4, <2>1, CreateKeepsTable DEF CreateBuiltin
<1>5. CASE NewFails
  <2>1. Sound /\ Standing
    BY <1>5, RunningSound DEF NewFails, Running, Standing
  <2>2. live \subseteq Objects /\ TableOf(ao, live) /\ ao' = Grown(ao) /\ live' = live
    BY <1>5, <2>1 DEF NewFails, Sound, TableExact
  <2> QED BY <2>2, GrownHolds DEF TableExact
<1>6. CASE FreeObject
  BY <1>6, IInvSound, FreeKeepsTable DEF FreeObject, IInv, Idle, Standing
<1>7. CASE PatchKlasses \/ EndSetup \/ FailSetup \/ EndRun \/ GcRun
  BY <1>1, <1>7 DEF PatchKlasses, EndSetup, FailSetup, EndRun, GcRun, Running, Standing
<1>8. CASE DropReference \/ StoreNew \/ TearDown
  BY <1>1, <1>8 DEF DropReference, StoreNew, TearDown, Standing
<1>9. CASE Wipe \/ Exit
  BY <1>9 DEF Wipe, Exit, TableExact, Standing
<1>10. CASE UNCHANGED vars
  BY <1>1, <1>10 DEF vars, Standing
<1>11. CASE Mutator
  <2>1. ASSUME NEW l \in Locals, NEW h \in Locals, NEW f \in Fields, Get(h, f, l)
        PROVE  TableExact'
    BY <1>1, <2>1 DEF Get, Standing
  <2>2. ASSUME NEW l \in Locals, NEW h \in Locals, Push(h, l) \/ Pop(h, l)
        PROVE  TableExact'
    BY <1>1, <2>2 DEF Push, Pop, Standing
  <2>3. ASSUME NEW l \in Locals, NEW h \in Locals, NEW i \in DOMAIN Elements,
               Replace(h, Elements[i], l)
        PROVE  TableExact'
    BY <1>1, <2>3 DEF Replace, Standing
  <2>4. ASSUME NEW l \in Locals, Throw(l)
        PROVE  TableExact'
    BY <1>1, <2>4 DEF Throw, Standing
  <2>5. ASSUME NEW n \in Locals \cup {"err"}, Release(n)
        PROVE  TableExact'
    BY <1>1, <2>5 DEF Release, Standing
  <2> QED BY <1>2, <1>3, <1>5, <1>11, <2>1, <2>2, <2>3, <2>4, <2>5 DEF Mutator
<1> QED BY <1>4, <1>6, <1>7, <1>8, <1>9, <1>10, <1>11 DEF Next, Automatic

\* The table is exact after every step that adds an object or frees one.
THEOREM TableInvariance == Spec => []TableExact
<1>1. Init => TableExact
  BY EmptyHolds, AllObjectsAssumption DEF Init, TableExact, TableOf
<1> QED BY <1>1, TableStep, Invariance, PTL DEF Spec

(***************************************************************************)
(* interp->allobjects has every object that is allocated, and has it once, *)
(* however often make_bigger has moved them to other chains and            *)
(* allobjects_remove has unlinked others (allobjects.c, 45 to 111).        *)
(***************************************************************************)
THEOREM AllObjectsAreExact == Spec => []AllObjectsExact
<1>1. IInv /\ TableExact => AllObjectsExact
  <2> SUFFICES ASSUME IInv, TableExact, Standing
               PROVE  /\ ToSet(Iterated(ao)) = live
                      /\ Len(Iterated(ao)) = Cardinality(live) /\ ao.size = Cardinality(live)
    BY DEF AllObjectsExact, Standing
  <2>1. PICK n \in Nat \ {0} : Holds(ao, live, n) /\ live \subseteq Objects
    BY DEF TableExact, TableOf, IInv, TypeOK
  <2> QED BY <2>1, ItemsExact DEF Iterated, Holds
<1> QED BY <1>1, Invariance, TableInvariance, PTL

-----------------------------------------------------------------------------
(***************************************************************************)
(* No C function is under way while the builtins are made or torn down,    *)
(* and unless the REPL has left one there is no error then.                *)
(***************************************************************************)
NothingElseHeld ==
  /\ stage \in {"setup", "teardown"} => \A n \in CNames \ Builtins : ~Held(n)
  /\ stage # "aborted"

LEMMA GcFindsNone ==
  ASSUME IInv, TableExact, NothingElseHeld, GcRun
  PROVE  Problems = {}
<1>1. Sound /\ ToSet(Iterated(ao)) = live /\ stage = "teardown"
  <2>1. stage = "teardown" /\ Standing
    BY DEF GcRun, Standing
  <2>2. PICK n \in Nat \ {0} : Holds(ao, live, n) /\ live \subseteq Objects
    BY <2>1 DEF TableExact, TableOf, IInv, TypeOK
  <2> QED BY <2>1, <2>2, IInvSound, ItemsExact DEF Iterated
<1>2. \A p \in Places : p[1] = C => ref[p] = Nil
  <2> SUFFICES ASSUME NEW p \in Places, p[1] = C PROVE ref[p] = Nil
    OBVIOUS
  <2>1. PICK n \in CNames : p = Var(n)
    BY ObjectHeapAssumption DEF Places, Var
  <2>2. ~Held(n)
    BY <1>1 DEF GcRun, NothingElseHeld
  <2> QED BY <2>1, <2>2 DEF Held
<1>3. ASSUME NEW o \in live PROVE count[o] = GcFlag(o)
  <2>1. o # Nil
    BY <1>1, ObjectHeapAssumption DEF Sound
  <2>2. Referrers(o) = {p \in Places : p[1] \in ToSet(Iterated(ao)) /\ ref[p] = o}
    BY <1>1, <1>2, <2>1 DEF Referrers, Sound, Standing, NoDangling
  <2> QED BY <1>1, <2>2 DEF Sound, CountsExact, GcFlag
<1> QED BY <1>1, <1>3 DEF Problems

LEMMA NothingElseHeldStep ==
  ASSUME ~Repl
  PROVE  IInv /\ TableExact /\ NothingElseHeld /\ [Next]_vars => NothingElseHeld'
<1> SUFFICES ASSUME IInv, TableExact, NothingElseHeld, [Next]_vars PROVE NothingElseHeld'
  OBVIOUS
<1>1. ASSUME stage' \notin {"setup", "teardown", "aborted"}
      PROVE  NothingElseHeld'
  BY <1>1 DEF NothingElseHeld
<1>2. ASSUME stage' = stage, stage \in {"setup", "teardown"},
             \A n \in CNames \ Builtins : ref'[Var(n)] = ref[Var(n)] \/ ref'[Var(n)] = Nil
      PROVE  NothingElseHeld'
  BY <1>2 DEF NothingElseHeld, Held
<1>3. CASE CreateBuiltin
  <2>1. Sound /\ stage' = stage /\ stage = "setup"
    BY <1>3, IInvSound DEF CreateBuiltin, Standing
  <2>2. PICK i \in DOMAIN SetupOrder, o \in Objects :
          Create(o, Var(SetupOrder[i]), NewClassFields(ObjectClass))
    BY <1>3, MallocFree DEF CreateBuiltin
  <2>3. ASSUME NEW n \in CNames \ Builtins PROVE ref'[Var(n)] = ref[Var(n)]
    <3>1. Var(n) \in Places /\ Var(n) # Var(SetupOrder[i]) /\ Var(n)[1] # o
      BY PlaceNames, BuiltinNames, ObjectHeapAssumption DEF Var
    <3> QED BY <2>2, <3>1 DEF Create
  <2> QED BY <1>2, <2>1, <2>3
<1>4. CASE PatchKlasses
  <2>1. stage = "setup" /\ stage' = stage /\ ref \in [Places -> Objects \cup {Nil}]
    BY <1>4 DEF PatchKlasses, IInv, TypeOK
  <2>2. ObjectClass \in Objects /\ Class \in Objects
    BY <1>4, <2>1, PlaceNames, BuiltinNames
    DEF PatchKlasses, Unpatched, Held, IInv, SetupSafe, ObjectClass, Class, CNames
  <2>3. \A n \in CNames \ Builtins : ref'[Var(n)] = ref[Var(n)]
    BY <1>4, <2>1, <2>2, PlaceNames, FieldNames DEF PatchKlasses
  <2> QED BY <1>2, <2>1, <2>3
<1>5. CASE EndSetup
  BY <1>1, <1>5 DEF EndSetup
<1>6. CASE FailSetup
  BY <1>6 DEF FailSetup, NothingElseHeld, Held
<1>7. CASE EndRun
  BY <1>7 DEF EndRun, NothingElseHeld, Held, CNames
<1>8. CASE Mutator
  <2>1. stage' = stage /\ stage = "run"
    BY <1>8 DEF Mutator, Get, New, NewClass, Push, Pop, Replace, MakeAttrdata, Throw, Release,
                NewFails, Running
  <2> QED BY <1>1, <2>1
<1>9. CASE DropReference \/ TearDown
  <2>1. stage' = stage /\ stage \in {"run", "teardown"}
    BY <1>9 DEF DropReference, TearDown, IInv, TypeOK, Idle
  <2>2. PICK p \in Places : ref' = [ref EXCEPT ![p] = Nil]
    <3>1. CASE TearDown
      BY <3>1, LocalPlace, BuiltinNames DEF TearDown, Drop
    <3>2. CASE DropReference
      <4>1. dying \in Seq(live) /\ dying # << >> /\ live \subseteq Objects
        BY <3>2 DEF DropReference, IInv, TypeOK
      <4>2. Dying \in Objects
        BY <4>1 DEF Dying
      <4> QED BY <3>2, <4>2, FieldNames, PlaceNames DEF DropReference, Drop
    <3> QED BY <1>9, <3>1, <3>2
  <2>3. \A n \in CNames \ Builtins : ref'[Var(n)] = ref[Var(n)] \/ ref'[Var(n)] = Nil
    BY <2>2, PlaceNames DEF IInv, TypeOK
  <2>4. CASE stage = "run"
    BY <1>1, <2>1, <2>4
  <2>5. CASE stage = "teardown"
    BY <1>2, <2>1, <2>3, <2>5
  <2> QED BY <2>1, <2>4, <2>5
<1>10. CASE FreeObject
  BY <1>10 DEF FreeObject, NothingElseHeld, Held
<1>11. CASE StoreNew
  BY <1>1, <1>11 DEF StoreNew, IInv, StoreSafe
<1>12. CASE GcRun
  BY <1>1, <1>12, GcFindsNone DEF GcRun
<1>13. CASE Wipe \/ Exit
  BY <1>1, <1>13 DEF Wipe, Exit
<1>14. CASE UNCHANGED vars
  BY <1>14 DEF vars, NothingElseHeld, Held
<1> QED BY <1>3, <1>4, <1>5, <1>6, <1>7, <1>8, <1>9, <1>10, <1>11, <1>12, <1>13, <1>14
        DEF Next, Automatic

(***************************************************************************)
(* When main has run a file, gc_run's recount agrees with every refcount   *)
(* and its assertion (gc.c, 58) holds: all references that are left are in *)
(* objects, and the table has all of these.                                *)
(***************************************************************************)
THEOREM GcAgrees ==
  ASSUME ~Repl
  PROVE  Spec => []GcFindsNoProblem
<1>1. Init => NothingElseHeld
  BY PlaceNames DEF Init, NothingElseHeld, Held
<1>2. IInv /\ TableExact /\ NothingElseHeld /\ [Next]_vars => NothingElseHeld'
  BY NothingElseHeldStep
<1>3. NothingElseHeld => GcFindsNoProblem
  BY DEF NothingElseHeld, GcFindsNoProblem
<1> QED BY <1>1, <1>2, <1>3, Invariance, TableInvariance, PTL DEF Spec
=============================================================================
