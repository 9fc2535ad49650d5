----------------------------- MODULE FiniteMap -----------------------------
(***************************************************************************)
(* What a Mapping promises (docs/builtins.md, Mapping): a finite function  *)
(* from keys, told apart by ==, to values.  Every operation is one step,   *)
(* and reply is its answer; an operation that fails changes nothing.       *)
(***************************************************************************)
CONSTANTS Keys, Values, NoValue

VARIABLES
  map,     \* the mapping
  reply    \* the answer to the last operation, until the next one begins

vars == << map, reply >>

Answer(op, k, status, v) == [op |-> op, key |-> k, status |-> status, value |-> v]

NoReply == Answer("none", NoValue, "none", NoValue)

Init ==
  /\ map = [k \in {} |-> NoValue]
  /\ reply = NoReply

Begin ==
  /\ reply' = NoReply
  /\ UNCHANGED map

Set(k, v) ==
  /\ map' = [l \in DOMAIN map \cup {k} |-> IF l = k THEN v ELSE map[l]]
  /\ reply' = Answer("set", k, "ok", NoValue)

Get(k) ==
  /\ k \in DOMAIN map
  /\ reply' = Answer("get", k, "ok", map[k])
  /\ UNCHANGED map

GetAndDelete(k) ==
  /\ k \in DOMAIN map
  /\ reply' = Answer("delete", k, "ok", map[k])
  /\ map' = [l \in DOMAIN map \ {k} |-> map[l]]

NotFound(op, k) ==
  /\ k \notin DOMAIN map
  /\ reply' = Answer(op, k, "missing", NoValue)
  /\ UNCHANGED map

Fail(op, k) ==
  /\ reply' = Answer(op, k, "error", NoValue)
  /\ UNCHANGED map

Next ==
  \/ Begin
  \/ \E k \in Keys :
       \/ \E v \in Values : Set(k, v)
       \/ Get(k)
       \/ GetAndDelete(k)
       \/ \E op \in {"get", "delete"} : NotFound(op, k)
       \/ \E op \in {"set", "get", "delete"} : Fail(op, k)

Spec == Init /\ [][Next]_vars
=============================================================================
