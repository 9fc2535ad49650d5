---------------------------- MODULE ClassSystem ----------------------------
(***************************************************************************)
(* Classes, instances and attributes: src/src/objects/classobject.c,       *)
(* attribute.c, method.c, `new` of builtins.c and `class` of builtins.ö.   *)
(*                                                                         *)
(* A class is an object like any other: its own class is Class or a class  *)
(* below it, and its attribute baseclass is found by the same lookup as    *)
(* every attribute.  C functions cast an object to the struct of a builtin *)
(* class after no check but that the object is an instance of that class,  *)
(* which only the chain of base classes decides; what data an object has   *)
(* was decided earlier, by the newinstance its class copied when it was    *)
(* created.  While builtins.ö runs, the base class of a class can be set.  *)
(*                                                                         *)
(* Builtin classes are represented by Object, Class, String (which refuses *)
(* to make instances), Integer (whose instances have data) and             *)
(* ArbitraryAttribs; FrozenArrayLike is a class of <std>/collections, and  *)
(* "text" a string literal.  x stands for any attribute.                   *)
(***************************************************************************)
EXTENDS Naturals, FiniteSets

CONSTANTS
  NewIds,     \* bound of the model: objects and classes the program makes
  Changeable, \* bound of the model: classes whose getters and setters it changes
  Subjects    \* bound of the model: objects whose attributes it uses

Builtin == {"Object", "Class", "String", "Integer", "ArbitraryAttribs", "FrozenArrayLike"}
Ids == Builtin \cup {"text"} \cup NewIds
Attrs == {"baseclass", "x"}
DataClasses == {"Class", "String", "Integer"}

ASSUME ClassAssumption ==
  /\ NewIds \cap (Builtin \cup {"text", "none", "unborn"}) = {}
  /\ Changeable \subseteq Ids
  /\ Subjects \subseteq Ids

VARIABLES
  phase,        \* of builtins.ö: "patching", "patched", then "running" the program
  klass,        \* the class of each object, "unborn" before there is one
  data,         \* whose struct its data is, "none" for a NULL
  base,         \* of the classes: the base class
  newinstance,  \* of the classes: what makes the data of instances
  getters, setters, \* of the classes: the functions in the two mappings
  attrdata,     \* the attributes that objects have in their attrdata
  looking,      \* the attribute lookup in progress
  cast          \* the struct the last step cast to, and the one that was there
classVars == << phase, klass, data, base, newinstance, getters, setters, attrdata,
                looking, cast >>

NoLookup == [doing |-> "nothing", obj |-> "none", attr |-> "x", val |-> "none", at |-> "none"]
NoCast == << "none", "none" >>
Classes == {c \in Ids : data[c] = "Class"}

\* A C function needs the struct of a class; the others are written in Ö.
CFunctions == DataClasses
LibraryFunctions == {"attrib", "abstract"}

\* classobject_issubclassof: what every closed set with sub contains
IsSubclass(sub, super) ==
  \A S \in SUBSET Ids :
    sub \in S /\ (\A c \in S : base[c] # "none" => base[c] \in S) => super \in S
IsInstance(obj, class) == IsSubclass(klass[obj], class)

ClassInit ==
  /\ phase = "patching"
  /\ klass = [i \in Ids |-> IF i \in NewIds THEN "unborn"
                            ELSE IF i = "text" THEN "String" ELSE "Class"]
  /\ data = [i \in Ids |-> IF i \in NewIds THEN "none"
                           ELSE IF i = "text" THEN "String" ELSE "Class"]
  /\ base = [i \in Ids |-> IF i \in Builtin \ {"Object"} THEN "Object" ELSE "none"]
  /\ newinstance = [i \in Ids |-> IF i \in {"Class", "Integer"} THEN i
                                  ELSE IF i = "String" THEN "throws" ELSE "NULL"]
  /\ getters = [i \in Ids |-> [a \in Attrs |->
       IF i = "Class" /\ a = "baseclass" THEN "Class"
       ELSE IF i \in {"String", "Integer"} /\ a = "x" THEN i ELSE "nothing"]]
  /\ setters = [i \in Ids |-> [a \in Attrs |->
       IF i = "Class" /\ a = "baseclass" THEN "Class" ELSE "nothing"]]
  /\ attrdata = [i \in Ids |-> {}]
  /\ looking = NoLookup /\ cast = NoCast

(***************************************************************************)
(* `new`.  class_newinstance makes a class, create_data gives it the       *)
(* newinstance of its base class; the other newinstances make an instance. *)
(* The setup method may keep the object even if it then throws.            *)
(***************************************************************************)
create_data_forgets(baseclass) == "NULL"
create_data(baseclass) == newinstance[baseclass]

NewClass(id, k, baseclass) ==
  /\ newinstance[k] = "Class"
  /\ base' = [base EXCEPT ![id] = baseclass]
  /\ newinstance' = [newinstance EXCEPT ![id] = create_data(baseclass)]
  /\ cast' = << "Class", data[baseclass] >>
NewInstance(k) ==
  /\ newinstance[k] \notin {"Class", "throws"}
  /\ UNCHANGED << base, newinstance >> /\ cast' = NoCast

New(id, k) ==
  /\ phase = "running" /\ looking = NoLookup
  /\ klass[id] = "unborn" /\ k \in Classes
  /\ \/ \E b \in {c \in Ids : klass[c] # "unborn" /\ IsInstance(c, "Class")} :
          NewClass(id, k, b)
     \/ NewInstance(k)
  /\ klass' = [klass EXCEPT ![id] = k]
  /\ data' = [data EXCEPT ![id] = IF newinstance[k] = "NULL" THEN "none" ELSE newinstance[k]]
  /\ UNCHANGED << phase, getters, setters, attrdata, looking >>

(***************************************************************************)
(* The program fills the getters and setters of a class: attrib, abstract  *)
(* and method of builtins.ö, or any function it found in a class.          *)
(***************************************************************************)
Change(c, a, getter, setter) ==
  /\ phase = "running" /\ looking = NoLookup
  /\ c \in Classes \cap Changeable
  /\ getters' = [getters EXCEPT ![c][a] = getter]
  /\ setters' = [setters EXCEPT ![c][a] = setter]
  /\ UNCHANGED << phase, klass, data, base, newinstance, attrdata, looking >> /\ cast' = NoCast
Attrib(c, a) == Change(c, a, "attrib", "attrib")
Abstract(c, a) == Change(c, a, "abstract", setters[c][a])
CopyGetter(c, a) == \E d \in Classes : Change(c, a, getters[d][a], setters[c][a])
CopySetter(c, a) == \E d \in Classes : Change(c, a, getters[c][a], setters[d][a])

(***************************************************************************)
(* attribute_getwithstringobj and attribute_setwithstringobj look through  *)
(* the chain of the object's class, one class at a time, and then into its *)
(* attrdata if it is an ArbitraryAttribs.                                  *)
(***************************************************************************)
Lookup(doing, obj, attr, val) ==
  /\ looking = NoLookup
  /\ klass[obj] # "unborn"
  /\ looking' = [doing |-> doing, obj |-> obj, attr |-> attr, val |-> val, at |-> klass[obj]]
  /\ UNCHANGED << phase, klass, data, base, newinstance, getters, setters, attrdata >> /\ cast' = NoCast
Get(obj, attr) == phase = "running" /\ Lookup("get", obj, attr, "none")
\* the value of x does not matter
Set(obj, attr, val) ==
  /\ phase = "running"
  /\ IF attr = "x" THEN val = "none" ELSE val # "none" /\ klass[val] # "unborn"
  /\ Lookup("set", obj, attr, val)

Functions == IF looking.doing = "get" THEN getters ELSE setters
Found == Functions[looking.at][looking.attr]
Done == looking' = NoLookup
Stored == attrdata' = [attrdata EXCEPT ![looking.obj] = @ \cup {looking.attr}]
UnlessStored == IF looking.doing = "set" THEN Stored ELSE UNCHANGED attrdata

\* no function here: on to the base class
LookAbove ==
  /\ looking # NoLookup /\ Found = "nothing" /\ base[looking.at] # "none"
  /\ looking' = [looking EXCEPT !.at = base[@]]
  /\ UNCHANGED << phase, klass, data, base, newinstance, getters, setters, attrdata >> /\ cast' = NoCast

\* the attrib of builtins.ö keeps its value in the attrdata, abstract throws
CallLibraryFunction ==
  /\ looking # NoLookup /\ Found \in LibraryFunctions
  /\ Done
  /\ IF Found = "attrib" THEN UnlessStored ELSE UNCHANGED attrdata
  /\ UNCHANGED << phase, klass, data, base, newinstance, getters, setters >> /\ cast' = NoCast

\* a C function checks its argument's class and casts
CallCFunction ==
  /\ looking # NoLookup /\ Found \in CFunctions
  /\ Done
  /\ cast' = IF IsInstance(looking.obj, Found) THEN << Found, data[looking.obj] >> ELSE NoCast
  /\ base' = IF looking.doing = "set" /\ IsInstance(looking.obj, "Class")
                /\ base[looking.obj] # "none" /\ IsInstance(looking.val, "Class")
             THEN [base EXCEPT ![looking.obj] = looking.val] ELSE base
  /\ UNCHANGED << phase, klass, data, newinstance, getters, setters, attrdata >>

\* the end of the chain
LookIntoAttrdata ==
  /\ looking # NoLookup /\ Found = "nothing" /\ base[looking.at] = "none"
  /\ Done
  /\ IF IsInstance(looking.obj, "ArbitraryAttribs") THEN UnlessStored ELSE UNCHANGED attrdata
  /\ UNCHANGED << phase, klass, data, base, newinstance, getters, setters >> /\ cast' = NoCast

\* no memory for the Mappings or for the lookup in one, or something that is no
\* Function was put there: an error instead of a value (in builtins.ö, the end)
LookFails ==
  /\ phase = "running" /\ looking # NoLookup
  /\ Done
  /\ UNCHANGED << phase, klass, data, base, newinstance, getters, setters, attrdata >> /\ cast' = NoCast

LookupStep == LookAbove \/ CallLibraryFunction \/ CallCFunction \/ LookIntoAttrdata \/ LookFails

\* collections.ö gives classes written in C a base class written in Ö
SetBaseclass ==
  /\ phase = "patching"
  /\ phase' = "patched"
  /\ looking' = [doing |-> "set", obj |-> "String", attr |-> "baseclass",
                 val |-> "FrozenArrayLike", at |-> klass["String"]]
  /\ UNCHANGED << klass, data, base, newinstance, getters, setters, attrdata >> /\ cast' = NoCast
\* the last line of builtins.ö
DeleteSetter ==
  /\ phase = "patched" /\ looking = NoLookup
  /\ phase' = "running"
  /\ setters' = [setters EXCEPT !["Class"]["baseclass"] = "nothing"]
  /\ UNCHANGED << klass, data, base, newinstance, getters, attrdata, looking >> /\ cast' = NoCast

ClassNext ==
  \/ SetBaseclass \/ DeleteSetter
  \/ \E id \in NewIds, k \in Ids : New(id, k)
  \/ \E c \in Ids, a \in Attrs : Attrib(c, a) \/ Abstract(c, a) \/ CopyGetter(c, a) \/ CopySetter(c, a)
  \/ \E o \in Subjects, a \in Attrs : Get(o, a)
  \/ \E o \in Subjects, v \in Subjects \cup {"none"}, a \in Attrs : Set(o, a, v)
  \/ LookupStep

(***************************************************************************)
(* C code never casts an object's data to a struct it is not: whatever     *)
(* subclasses, classes of classes and copied getters the program makes,    *)
(* and although String got another base class, an object that passes the   *)
(* check for a builtin class was made by that class's newinstance          *)
(* (classobject.c:43, method.c:49).                                        *)
(***************************************************************************)
CastsAreSafe == cast[1] = cast[2]
=============================================================================
