----------------------------- MODULE ObjectHeap -----------------------------
(***************************************************************************)
(* Reference counts, recursive freeing and the life of the interpreter:    *)
(* src/src/objectsystem.c, gc.c, interpreter.c, main.c, and of builtins.c  *)
(* the setting up and tearing down.                                        *)
(*                                                                         *)
(* A place can hold one reference: a field of an object, a member of       *)
(* interp, or a local variable of some C function.  What C functions do    *)
(* with references is what they do to places: make an object, copy a       *)
(* reference from one place to another, move it, replace it, or drop it.   *)
(* Dropping the last reference frees the object, which drops the           *)
(* references in its fields, one after the other and recursively.          *)
(***************************************************************************)
EXTENDS AllObjects

CONSTANTS
  Objects,        \* the addresses malloc gives to objects
  Malloc(_),      \* those it may give when these are free
  Nil,            \* NULL
  C,              \* the holder of the places that belong to no object
  Elements,       \* names of the fields of objdata, in the order of foreachref
  SetupOrder,     \* members of interp->builtins in the order of builtins_setup,
                  \* "Object" and "Class" first
  TearDownOrder,  \* the same in the order of builtins_teardown
  Locals,         \* local variables of C functions
  Repl            \* whether main runs the REPL instead of a file

FieldOrder == << "attrdata" >> \o Elements \o << "klass" >>
Fields == {FieldOrder[i] : i \in DOMAIN FieldOrder}
Builtins == {SetupOrder[i] : i \in DOMAIN SetupOrder}
CNames == Builtins \cup Locals \cup {"err"}
Places == (Objects \X Fields) \cup ({C} \X CNames)

ASSUME ObjectHeapAssumption ==
  /\ IsFiniteSet(Objects) /\ Nil \notin Objects /\ C \notin Objects
  /\ \A S \in SUBSET Objects : Malloc(S) \subseteq S
  /\ DOMAIN Address = Objects
  /\ IsFiniteSet(Locals)
  /\ Elements \in Seq(STRING) /\ Len(Elements) > 0
  /\ SetupOrder \in Seq(STRING) /\ TearDownOrder \in Seq(STRING)
  /\ Len(SetupOrder) > 1 /\ SetupOrder[1] = "Object" /\ SetupOrder[2] = "Class"
  /\ Builtins = {TearDownOrder[i] : i \in DOMAIN TearDownOrder}
  /\ Repl \in BOOLEAN

VARIABLES
  ref,    \* the object each place refers to, or Nil
  count,  \* refcount of each object
  live,   \* the objects that are allocated
  dying,  \* the objects object_free_impl is at work on, outermost first
  store,  \* a reference to be copied once the old one in its place is dropped
  ao,     \* interp->allobjects
  stage   \* how far main has come

vars == << ref, count, live, dying, store, ao, stage >>

NoStore == << >>
Field(o, f) == << o, f >>
Var(n) == << C, n >>
Idle == dying = << >> /\ store = NoStore
Running == stage = "run" /\ Idle
Held(l) == ref[Var(l)] # Nil

Init ==
  /\ ref = [p \in Places |-> Nil]
  /\ count = [o \in Objects |-> 0]
  /\ live = {}
  /\ dying = << >>
  /\ store = NoStore
  /\ ao = EmptyTable
  /\ stage = "setup"
-----------------------------------------------------------------------------
(***************************************************************************)
(* OBJECT_DECREF, and the turns of object_free_impl                        *)
(***************************************************************************)
\* mutant: the last reference is taken for one of two
OneReferenceLeft(o) == count[o] - 1 < 0
LastReference(o) == count[o] - 1 <= 0
Decref(o) ==
  /\ count' = [count EXCEPT ![o] = @ - 1]
  /\ dying' = IF LastReference(o) THEN Append(dying, o) ELSE dying
Drop(p) ==
  /\ ref' = [ref EXCEPT ![p] = Nil]
  /\ Decref(ref[p])

Dying == dying[Len(dying)]
\* attrdata, then what foreachref gives, then klass
Turn(o, i) ==
  /\ ref[Field(o, FieldOrder[i])] # Nil
  /\ \A j \in 1 .. i - 1 : ref[Field(o, FieldOrder[j])] = Nil
\* mutant: the class is not decreffed
HasReferencesButKlass(o) ==
  \E i \in 1 .. Len(FieldOrder) - 1 : ref[Field(o, FieldOrder[i])] # Nil
HasReferences(o) == \E i \in DOMAIN FieldOrder : ref[Field(o, FieldOrder[i])] # Nil

DropReference ==
  /\ dying # << >> /\ HasReferences(Dying)
  /\ \E i \in DOMAIN FieldOrder :
       Turn(Dying, i) /\ Drop(Field(Dying, FieldOrder[i]))
  /\ UNCHANGED << live, store, ao, stage >>

\* the destructor, allobjects_remove and free
FreeObject ==
  /\ dying # << >> /\ ~HasReferences(Dying)
  /\ live' = live \ {Dying}
  /\ ao' = Removed(ao, Dying)
  /\ dying' = SubSeq(dying, 1, Len(dying) - 1)
  /\ UNCHANGED << ref, count, store, stage >>
-----------------------------------------------------------------------------
(***************************************************************************)
(* object_new_noerr: the new object's reference is given to place p.       *)
(* fields says what the object refers to from the beginning.               *)
(***************************************************************************)
\* mutant: the class is not increffed
UsersButKlass(fields, o) ==
  Cardinality({f \in DOMAIN fields \ {"klass"} : fields[f] = o})
Users(fields, o) == Cardinality({f \in DOMAIN fields : fields[f] = o})
Create(o, p, fields) ==
  /\ ref' = [q \in Places |->
               IF q = p THEN o
               ELSE IF q[1] = o /\ q[2] \in DOMAIN fields THEN fields[q[2]] ELSE ref[q]]
  /\ count' = [x \in Objects |-> IF x = o THEN 1 ELSE count[x] + Users(fields, x)]
  /\ live' = live \cup {o}
  /\ ao' = Added(ao, o)

Class == ref[Var("Class")]
ObjectClass == ref[Var("Object")]
IsClass(o) == ref[Field(o, "klass")] = Class
NewFields(class) == [f \in {"klass"} |-> class]
NewClassFields(base) == [f \in {Elements[1], "klass"} |-> IF f = "klass" THEN Class ELSE base]

(***************************************************************************)
(* builtins_setup: Object and Class are made before there is a class for   *)
(* them, and get it afterwards; the others are ordinary classes.           *)
(***************************************************************************)
NextBuiltin(i) ==
  ~Held(SetupOrder[i]) /\ \A j \in 1 .. i - 1 : Held(SetupOrder[j])
AllBuiltins == \A b \in Builtins : Held(b)
Unpatched == Held("Class") /\ ref[Field(Class, "klass")] = Nil

CreateBuiltin ==
  /\ stage = "setup" /\ Idle /\ ~Unpatched
  /\ \E i \in DOMAIN SetupOrder, o \in Malloc(Objects \ live) :
       NextBuiltin(i) /\ Create(o, Var(SetupOrder[i]), NewClassFields(ObjectClass))
  /\ UNCHANGED << dying, store, stage >>

PatchKlasses ==
  /\ stage = "setup" /\ Idle /\ Unpatched
  /\ ref' = [ref EXCEPT ![Field(ObjectClass, "klass")] = Class,
                        ![Field(Class, "klass")] = Class]
  /\ count' = [count EXCEPT ![Class] = @ + 2]
  /\ UNCHANGED << live, dying, store, ao, stage >>

EndSetup ==
  /\ stage = "setup" /\ Idle /\ AllBuiltins /\ ~Unpatched
  /\ stage' = "run"
  /\ UNCHANGED << ref, count, live, dying, store, ao >>

\* goto nomem or goto error
FailSetup ==
  /\ stage = "setup" /\ Idle /\ ~Unpatched
  /\ stage' = "teardown"
  /\ UNCHANGED << ref, count, live, dying, store, ao >>
-----------------------------------------------------------------------------
(***************************************************************************)
(* What C functions do to references while the program runs                *)
(***************************************************************************)
\* an object of a class that some C function has at hand
New(k, l) ==
  /\ Running /\ ~Held(l)
  /\ ref[Var(k)] # Nil /\ IsClass(ref[Var(k)])
  /\ \E o \in Malloc(Objects \ live) : Create(o, Var(l), NewFields(ref[Var(k)]))
  /\ UNCHANGED << dying, store, stage >>

\* class_newinstance and classobject_new
NewClass(base, l) ==
  /\ Running /\ ~Held(l)
  /\ ref[Var(base)] # Nil /\ IsClass(ref[Var(base)])
  /\ \E o \in Malloc(Objects \ live) : Create(o, Var(l), NewClassFields(ref[Var(base)]))
  /\ UNCHANGED << dying, store, stage >>

\* allobjects_add fails after make_bigger has succeeded; the klass is
\* increffed and decreffed, and is held by the caller meanwhile
NewFails ==
  /\ Running
  /\ ao' = Grown(ao)
  /\ UNCHANGED << ref, count, live, dying, store, stage >>

\* mutant: no OBJECT_INCREF
CopyWithoutIncref(p, o) ==
  /\ ref[p] = Nil
  /\ ref' = [ref EXCEPT ![p] = o]
  /\ count' = count

\* copy a reference into an empty place: OBJECT_INCREF
CopyTo(p, o) ==
  /\ ref[p] = Nil
  /\ ref' = [ref EXCEPT ![p] = o]
  /\ count' = [count EXCEPT ![o] = @ + 1]

\* a getter, Array.get: the caller gets a reference of its own
Get(h, f, l) ==
  /\ Running /\ ref[Var(h)] # Nil
  /\ ref[Field(ref[Var(h)], f)] # Nil
  /\ CopyTo(Var(l), ref[Field(ref[Var(h)], f)])
  /\ UNCHANGED << live, dying, store, ao, stage >>

\* arrayobject_push and _pop, for objects that are not classes
Length(a) == Cardinality({i \in DOMAIN Elements : ref[Field(a, Elements[i])] # Nil})
Array(h) == ref[Var(h)] # Nil /\ ~IsClass(ref[Var(h)])
Push(h, l) ==
  /\ Running /\ Array(h) /\ Held(l)
  /\ LET a == ref[Var(h)]
     IN  /\ Length(a) < Len(Elements)
         /\ CopyTo(Field(a, Elements[Length(a) + 1]), ref[Var(l)])
  /\ UNCHANGED << live, dying, store, ao, stage >>

\* mutant: the popped element stays in the array
PopKeeps(h, l) ==
  /\ Running /\ Array(h) /\ ~Held(l)
  /\ Length(ref[Var(h)]) > 0
  /\ ref' = [ref EXCEPT ![Var(l)] = ref[Field(ref[Var(h)], Elements[Length(ref[Var(h)])])]]
  /\ UNCHANGED << count, live, dying, store, ao, stage >>

Pop(h, l) ==
  /\ Running /\ Array(h) /\ ~Held(l)
  /\ LET a == ref[Var(h)]
         last == Field(a, Elements[Length(a)])
     IN  /\ Length(a) > 0
         /\ ref' = [ref EXCEPT ![Var(l)] = ref[last], ![last] = Nil]
  /\ UNCHANGED << count, live, dying, store, ao, stage >>

(* Array.set, Error.setup, the setters of messages and of base classes:    *)
(* the old reference is dropped, which may free a lot, and then the new    *)
(* value, which the arguments array holds, is stored and increffed.        *)
Replace(h, e, l) ==
  /\ Running /\ ref[Var(h)] # Nil /\ Held(l)
  /\ ref[Field(ref[Var(h)], e)] # Nil
  /\ IsClass(ref[Var(h)]) => IsClass(ref[Var(l)])
  /\ Drop(Field(ref[Var(h)], e))
  /\ store' = << Field(ref[Var(h)], e), Var(l) >>
  /\ UNCHANGED << live, ao, stage >>

StoreNew ==
  /\ dying = << >> /\ store # NoStore
  /\ CopyTo(store[1], ref[store[2]])
  /\ store' = NoStore
  /\ UNCHANGED << live, dying, ao, stage >>

\* init_data and get_attrdata: a Mapping is made when it is first asked for
\* and its reference given to the object
MakeAttrdata(h, k) ==
  /\ Running /\ ref[Var(h)] # Nil
  /\ ref[Field(ref[Var(h)], "attrdata")] = Nil
  /\ ref[Var(k)] # Nil /\ IsClass(ref[Var(k)])
  /\ \E o \in Malloc(Objects \ live) :
       Create(o, Field(ref[Var(h)], "attrdata"), NewFields(ref[Var(k)]))
  /\ UNCHANGED << dying, store, stage >>

\* errorobject_throw
Throw(l) ==
  /\ Running /\ Held(l)
  /\ CopyTo(Var("err"), ref[Var(l)])
  /\ UNCHANGED << live, dying, store, ao, stage >>

\* a local variable goes out of scope; an error has been caught or printed
Release(n) ==
  /\ Running /\ Held(n)
  /\ Drop(Var(n))
  /\ UNCHANGED << live, store, ao, stage >>
-----------------------------------------------------------------------------
(***************************************************************************)
(* The end of main.  run_mainfile's error is printed and dropped; the REPL *)
(* may return with an error that it has not reported.                      *)
(***************************************************************************)
\* mutant: main forgets print_and_reset_err
EndRunUnprinted ==
  /\ Running
  /\ \A l \in Locals : ~Held(l)
  /\ stage' = "teardown"
  /\ UNCHANGED << ref, count, live, dying, store, ao >>

EndRun ==
  /\ Running
  /\ \A l \in Locals : ~Held(l)
  /\ Held("err") => Repl
  /\ stage' = "teardown"
  /\ UNCHANGED << ref, count, live, dying, store, ao >>

NextTearDown(i) ==
  Held(TearDownOrder[i]) /\ \A j \in 1 .. i - 1 : ~Held(TearDownOrder[j])
TearDown ==
  /\ stage = "teardown" /\ Idle
  /\ \E i \in DOMAIN TearDownOrder : NextTearDown(i) /\ Drop(Var(TearDownOrder[i]))
  /\ UNCHANGED << live, store, ao, stage >>

(***************************************************************************)
(* gc_run: gcflag is what refcount should be.  A difference is reported    *)
(* and fails an assertion; otherwise everything is freed.                  *)
(***************************************************************************)
GcFlag(o) ==
  Cardinality({p \in Places : p[1] \in ToSet(Iterated(ao)) /\ ref[p] = o})
Problems == {o \in ToSet(Iterated(ao)) : count[o] # GcFlag(o)}

GcRun ==
  /\ stage = "teardown" /\ Idle
  /\ \A b \in Builtins : ~Held(b)
  /\ stage' = IF Problems = {} THEN "wipe" ELSE "aborted"
  /\ UNCHANGED << ref, count, live, dying, store, ao >>

Wipe ==
  /\ stage = "wipe" /\ live # {}
  /\ LET rest == SelectSeq(Iterated(ao), LAMBDA o : o \in live)
     IN  live' = live \ {Head(rest)}
  /\ UNCHANGED << ref, count, dying, store, ao, stage >>

\* interpreter_free and allobjects_free
Exit ==
  /\ stage = "wipe" /\ live = {}
  /\ ao' = EmptyTable
  /\ stage' = "end"
  /\ UNCHANGED << ref, count, live, dying, store >>

Mutator ==
  \/ \E l, h \in Locals, f \in Fields : Get(h, f, l)
  \/ \E l \in Locals, k \in Locals \cup Builtins : New(k, l) \/ NewClass(k, l)
  \/ \E l, h \in Locals : Push(h, l) \/ Pop(h, l)
  \/ \E l, h \in Locals : \E i \in DOMAIN Elements : Replace(h, Elements[i], l)
  \/ \E h \in Locals, k \in Builtins : MakeAttrdata(h, k)
  \/ \E l \in Locals : Throw(l)
  \/ \E n \in Locals \cup {"err"} : Release(n)
  \/ NewFails

Automatic == DropReference \/ FreeObject \/ StoreNew \/ TearDown \/ GcRun \/ Wipe \/ Exit

Next ==
  \/ CreateBuiltin \/ PatchKlasses \/ EndSetup \/ FailSetup
  \/ Mutator
  \/ EndRun
  \/ Automatic

\* One thread: what has begun goes on.
Spec == Init /\ [][Next]_vars /\ WF_vars(Automatic)
-----------------------------------------------------------------------------
TypeOK ==
  /\ ref \in [Places -> Objects \cup {Nil}]
  /\ count \in [Objects -> Nat]
  /\ live \subseteq Objects
  /\ dying \in Seq(live)
  /\ store = NoStore \/ store \in (Objects \X Fields) \X ({C} \X CNames)
  /\ stage \in {"setup", "run", "teardown", "wipe", "end", "aborted"}

Referrers(o) == {p \in Places : ref[p] = o}

(***************************************************************************)
(* The count of an object is the number of references to it, also between  *)
(* two steps of a recursive free (objectsystem.h, gc.c).                   *)
(***************************************************************************)
CountsExact == \A o \in live : count[o] = Cardinality(Referrers(o))

(***************************************************************************)
(* No reference that can still be followed leads to an object that is      *)
(* freed or is being freed, so the object_free_impl of one object never    *)
(* frees another one twice (objectsystem.c, 46 to 68).                     *)
(***************************************************************************)
NoDangling ==
  stage \notin {"wipe", "end"} =>
    /\ \A p \in Places : ref[p] # Nil => ref[p] \in live \ ToSet(dying)
    /\ \A i, j \in DOMAIN dying : dying[i] = dying[j] => i = j
    /\ \A p \in Places : p[1] # C /\ ref[p] # Nil => p[1] \in live

(***************************************************************************)
(* Reference counting frees all but cycles: what C cannot reach any more   *)
(* and is still there between two operations is referred to by other such  *)
(* objects.                                                                *)
(***************************************************************************)
Closed(S) == \A o \in S, f \in Fields : ref[Field(o, f)] \in S \cup {Nil}
Reachable ==
  {o \in live : \A S \in SUBSET live :
     Closed(S) /\ {ref[Var(n)] : n \in CNames} \subseteq S \cup {Nil} => o \in S}
Garbage == live \ Reachable
GarbageIsCyclic ==
  Idle /\ stage \in {"setup", "run", "teardown"} =>
    \A o \in Garbage : \E p \in Referrers(o) : p[1] \in Garbage

(***************************************************************************)
(* gc_run meets every object that is allocated, and meets it once, so that *)
(* its recount is complete and nothing is freed twice or left.             *)
(***************************************************************************)
AllObjectsExact ==
  stage \notin {"wipe", "end"} =>
    /\ ToSet(Iterated(ao)) = live
    /\ Len(Iterated(ao)) = Cardinality(live) /\ ao.size = Cardinality(live)

\* assert(!gotproblems) of gc_run holds (gc.c, 58).
GcFindsNoProblem == stage # "aborted"

(***************************************************************************)
(* A program that has ended is torn down: freeing ends although classes    *)
(* refer to each other and to themselves, and nothing is left.             *)
(***************************************************************************)
ShutsDown == stage = "teardown" ~> stage = "end" /\ live = {}
=============================================================================
