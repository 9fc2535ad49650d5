---------------------------- MODULE MCObjectHeap ----------------------------
(* Instances of ObjectHeap for TLC. *)
EXTENDS ObjectHeap

\* An address that has been freed is used again at once.
Lowest(S) == {o \in S : \A p \in S : o <= p}
\* All meet in one bucket of 2, and pairs of them in one of 4.
Addresses == [o \in Objects |-> 2 * o]
Creation == << "Object", "Class" >>
TearDowns == << "Class", "Object" >>
OneElement == << "elem" >>
=============================================================================
