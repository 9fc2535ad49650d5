----------------------------- MODULE AllObjects -----------------------------
(***************************************************************************)
(* The hash set of all objects: src/src/allobjects.c.  gc_run walks it to  *)
(* recount the references and to wipe everything at exit.  Operators only; *)
(* ObjectHeap keeps such a table in a variable.                            *)
(***************************************************************************)
EXTENDS Chains

CONSTANTS
  Address,      \* Address[o]: the address of object o, shifted by object_hash
  FirstBuckets  \* nbuckets of an empty table: 100 in the code

ASSUME AllObjectsAssumption ==
  /\ Address \in [DOMAIN Address -> Nat]
  /\ FirstBuckets \in Nat \ {0}

\* nbuckets is the number of chains; ULONG_MAX buckets are out of reach.
EmptyTable == [size |-> 0, chains |-> [b \in 0 .. FirstBuckets - 1 |-> << >>]]
NBuckets(ao) == Cardinality(DOMAIN ao.chains)
Bucket(o, n) == Address[o] % n

(* make_bigger: the old chains are walked from their first items, and each *)
(* item becomes the first of its new chain.                                *)
ItemsInOrder(ao) == FlattenSeq([i \in 1 .. NBuckets(ao) |-> ao.chains[i - 1]])
\* mutant: item->next is overwritten before the next item is found
BiggerLosingItems(ao) ==
  LET n == 2 * NBuckets(ao)
      Firsts == {Head(ao.chains[i]) : i \in {j \in DOMAIN ao.chains : ao.chains[j] # << >>}}
  IN  [ao EXCEPT !.chains = [b \in 0 .. n - 1 |->
         SetToSeq({o \in Firsts : Bucket(o, n) = b})]]
Bigger(ao) ==
  LET n == 2 * NBuckets(ao)
  IN  [ao EXCEPT !.chains = Rechained(ItemsInOrder(ao), 0 .. n - 1,
                                      [o \in DOMAIN Address |-> Bucket(o, n)])]

\* loadfactor > 0.75, before the new item is counted
Grown(ao) == IF 4 * ao.size > 3 * NBuckets(ao) THEN Bigger(ao) ELSE ao
Inserted(ao, o) ==
  [ao EXCEPT !.size = @ + 1,
             !.chains[Bucket(o, NBuckets(ao))] = << o >> \o @]
Added(ao, o) == Inserted(Grown(ao), o)
Removed(ao, o) ==
  LET b == Bucket(o, NBuckets(ao))
  IN  [ao EXCEPT !.size = IF o \in ToSet(ao.chains[b]) THEN @ - 1 ELSE @,
                 !.chains[b] = Unlinked(@, o)]

\* the objects in the order of allobjects_iternext
Iterated(ao) == ItemsInOrder(ao)
=============================================================================
