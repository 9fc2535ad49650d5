----------------------------- MODULE MCDispatch -----------------------------
(* A small program: two objects or classes, and things of every kind, two  *)
(* of them equal without being the same, Arrays that contain each other,   *)
(* a Mapping that contains itself and one with other keys, and two things  *)
(* nested as deep as interp->stack allows.                                 *)
EXTENDS Dispatch

MCThings == {"one", "One", "two", "s", "t", "yes", "none", "option", "Option1",
             "array", "Array1", "short", "outer", "inner", "mixed", "map", "Map1",
             "Map2", "knot",
             "thing", "other", "some", "Some1", "deep", "Deep1"}
Record(k, v, its) == [kind |-> k, val |-> v, items |-> its]
MCHeap ==
  [x \in MCThings |->
     CASE x \in {"one", "One"} -> Record("Integer", 1, << >>)
       [] x = "two" -> Record("Integer", 2, << >>)
       [] x = "s" -> Record("String", 3, << >>)
       [] x = "t" -> Record("String", 4, << >>)
       [] x = "yes" -> Record("Bool", 1, << >>)
       [] x = "none" -> Record("Option", 0, << >>)
       [] x = "option" -> Record("Option", 0, << "one" >>)
       [] x = "Option1" -> Record("Option", 0, << "One" >>)
       [] x \in {"some", "Some1"} -> Record("Option", 0, << "yes" >>)
       [] x = "deep" -> Record("Array", 0, << "some" >>)
       [] x = "Deep1" -> Record("Array", 0, << "Some1" >>)
       [] x = "array" -> Record("Array", 0, << "one", "two" >>)
       [] x = "Array1" -> Record("Array", 0, << "One", "two" >>)
       [] x = "short" -> Record("Array", 0, << "one" >>)
       [] x = "outer" -> Record("Array", 0, << "inner" >>)
       [] x = "inner" -> Record("Array", 0, << "outer" >>)
       [] x = "mixed" -> Record("Array", 0, << "s", "two" >>)
       [] x = "map" -> Record("Mapping", 0, << "array" >>)
       [] x = "Map1" -> Record("Mapping", 0, << "Array1" >>)
       [] x = "Map2" -> Record("Mapping", 1, << "array" >>)
       [] x = "knot" -> Record("Mapping", 0, << "knot" >>)
       [] OTHER -> Record("Thing", 0, << >>)]
=============================================================================
