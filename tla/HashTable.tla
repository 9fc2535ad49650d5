----------------------------- MODULE HashTable -----------------------------
(***************************************************************************)
(* The chained hash table behind Mapping: src/src/objects/mapping.c.       *)
(*                                                                         *)
(* An operation searches one bucket, and compares keys with ==, which may  *)
(* call functions written in Ö (operator.c, std/operators.ö).  So the      *)
(* search is a sequence of steps, one comparison each, and what a function *)
(* of eq_array does to the same mapping happens between two of them: ops   *)
(* is the stack of the operations under way, the last one running.         *)
(***************************************************************************)
EXTENDS Chains

CONSTANTS
  Keys,        \* objects used as keys
  Values,
  NoValue,
  Class,       \* Class[k]: what k is equal to, two keys being == iff it is the same
  Type,        \* Type[k]: == between keys of different types is a TypeError
  Hash,        \* Hash[k]: key->hash, as an unsigned long
  Unhashable,  \* the keys whose hashable is false
  InitBuckets, \* nbuckets of an empty mapping: 10 in the code
  Growth,      \* what make_bigger multiplies nbuckets by: 3 in the code
  MaxCopies,   \* bound of the model: items alive at once with the same key object
  MaxNest,     \* bound of the model: operations under way at once
  EqMayFail,   \* whether an == may throw (an error, or too much recursion)
  OutOfMemory  \* whether an allocation may fail

ASSUME HashTableAssumption ==
  /\ NoValue \notin Values
  /\ Hash \in [Keys -> Nat]
  /\ DOMAIN Class = Keys /\ DOMAIN Type = Keys
  /\ \A k, l \in Keys : Class[k] = Class[l] => Type[k] = Type[l]
  /\ Unhashable \subseteq Keys
  /\ InitBuckets \in Nat \ {0} /\ Growth \in Nat \ {0, 1}
  /\ MaxCopies \in Nat \ {0} /\ MaxNest \in Nat \ {0}
  /\ EqMayFail \in BOOLEAN /\ OutOfMemory \in BOOLEAN

VARIABLES
  items,    \* the values of the MappingObjectItems; NoValue where there is no item
  buckets,  \* the chains, each a sequence of items
  size,
  ops,      \* the operations under way
  iter,     \* a MappingObjectIter
  reply     \* what the last operation returned, until the next one begins

vars == << items, buckets, size, ops, iter, reply >>

\* An item is known by its key object and which of the items with it it is.
ItemIds == [key : Keys, copy : 1 .. MaxCopies]
End == [key |-> NoValue, copy |-> 0]

HashModulus(k, n) == 1 + (Hash[k] % n)
Free == {x \in ItemIds : items[x] = NoValue}
Stored == ItemIds \ Free

\* the item a chain begins with, and the one that follows item x in its chain
First(chain) == IF chain = << >> THEN End ELSE Head(chain)
After(x) ==
  LET chain == CHOOSE c \in ToSet(buckets) : Contains(c, x)
      i == CHOOSE j \in DOMAIN chain : chain[j] = x
  IN  IF i = Len(chain) THEN End ELSE chain[i + 1]

Op == ops[Len(ops)]
OtherOps == SubSeq(ops, 1, Len(ops) - 1)
Answer(op, k, status, v) ==
  [op |-> op, key |-> Class[k], status |-> status, value |-> v]
NoReply == [op |-> "none", key |-> NoValue, status |-> "none", value |-> NoValue]
Finish(status, v) ==
  /\ ops' = OtherOps
  /\ reply' = Answer(Op.kind, Op.key, status, v)

NotIterating == [on |-> FALSE, bucket |-> 1, item |-> End, seen |-> << >>]
-----------------------------------------------------------------------------
Init ==
  /\ items = [x \in ItemIds |-> NoValue]
  /\ buckets = [b \in 1 .. InitBuckets |-> << >>]
  /\ size = 0
  /\ ops = << >>
  /\ iter = NotIterating
  /\ reply = NoReply

(***************************************************************************)
(* mappingobject_set, _get and _getanddelete up to the first comparison.   *)
(* Called from an == of another operation, they leave the items that the   *)
(* other one stands on in place: deletion during a search is not modelled. *)
(***************************************************************************)
Callable(kind) ==
  \/ ops = << >> /\ (iter.on => kind = "get")
  \/ /\ ops # << >> /\ Len(ops) < MaxNest
     /\ Op.item # End
     /\ {kind, Op.kind} \subseteq {"set", "get"}

Start(kind, k, v) ==
  /\ Callable(kind)
  /\ k \notin Unhashable
  /\ LET b == HashModulus(k, Len(buckets))
     IN  ops' = Append(ops, [kind |-> kind, key |-> k, value |-> v, bucket |-> b,
                             item |-> First(buckets[b])])
  /\ reply' = NoReply
  /\ UNCHANGED << items, buckets, size, iter >>

\* hashable_check
Reject(kind, k) ==
  /\ Callable(kind)
  /\ k \in Unhashable
  /\ reply' = Answer(kind, k, "error", NoValue)
  /\ UNCHANGED << items, buckets, size, ops, iter >>

(***************************************************************************)
(* One turn of the loop over the bucket: operator_eqint.                   *)
(***************************************************************************)
Searching == ops # << >> /\ Op.item # End
OldKey == Op.item.key
Comparable == Type[OldKey] = Type[Op.key]
SameObject == OldKey = Op.key
SameClass == Class[OldKey] = Class[Op.key]
SameKey == SameClass

CompareFails ==
  /\ Searching
  /\ ~Comparable \/ EqMayFail
  /\ Finish("error", NoValue)
  /\ UNCHANGED << items, buckets, size, iter >>

CompareDiffers ==
  /\ Searching
  /\ Comparable /\ ~SameKey
  /\ ops' = [ops EXCEPT ![Len(ops)].item = After(Op.item)]
  /\ UNCHANGED << items, buckets, size, iter, reply >>

\* the key is already in the mapping, update the value
FoundSet ==
  /\ Searching /\ Op.kind = "set" /\ Comparable /\ SameKey
  /\ items' = [items EXCEPT ![Op.item] = Op.value]
  /\ Finish("ok", NoValue)
  /\ UNCHANGED << buckets, size, iter >>

FoundGet ==
  /\ Searching /\ Op.kind = "get" /\ Comparable /\ SameKey
  /\ Finish("ok", items[Op.item])
  /\ UNCHANGED << items, buckets, size, iter >>

NotCounted == size
OneLess == size - 1
SizeAfterDelete == OneLess

FoundDelete ==
  /\ Searching /\ Op.kind = "delete" /\ Comparable /\ SameKey
  /\ buckets' = [buckets EXCEPT ![Op.bucket] = Unlinked(@, Op.item)]
  /\ items' = [items EXCEPT ![Op.item] = NoValue]
  /\ size' = SizeAfterDelete
  /\ Finish("ok", items[Op.item])
  /\ UNCHANGED iter

(***************************************************************************)
(* The end of the bucket.                                                  *)
(***************************************************************************)
Exhausted(kinds) == ops # << >> /\ Op.item = End /\ Op.kind \in kinds

NotFound ==
  /\ Exhausted({"get", "delete"})
  /\ Finish("missing", NoValue)
  /\ UNCHANGED << items, buckets, size, iter >>

\* load factor > 0.75
Full == size > Len(buckets)
OverThreeQuarters == 4 * size > 3 * Len(buckets)
Crowded == OverThreeQuarters

\* make_bigger
Rehash(visited, n) ==
  Rechained(visited, 1 .. n, [x \in ItemIds |-> HashModulus(x.key, n)])
HeadsOnly ==
  Rehash(SelectSeq([b \in DOMAIN buckets |-> First(buckets[b])], LAMBDA x : x # End),
         Growth * Len(buckets))
WholeChains == Rehash(FlattenSeq(buckets), Growth * Len(buckets))
Bigger == WholeChains
Grown == IF Crowded THEN Bigger ELSE buckets

\* the bucket is computed again only if this very operation resizes
NewBucket == IF Crowded THEN HashModulus(Op.key, Len(Grown)) ELSE Op.bucket
OldBucket == Op.bucket
TargetBucket == NewBucket

Insert ==
  /\ Exhausted({"set"})
  /\ \E x \in Free :
       /\ x.key = Op.key
       /\ \A y \in Free : y.key = x.key => x.copy <= y.copy
       /\ items' = [items EXCEPT ![x] = Op.value]
       /\ buckets' = [Grown EXCEPT ![TargetBucket] = << x >> \o @]
  /\ size' = size + 1
  /\ Finish("ok", NoValue)
  /\ UNCHANGED iter

\* make_bigger or the malloc of the item fails, the latter after resizing
InsertFails ==
  /\ Exhausted({"set"})
  /\ OutOfMemory
  /\ buckets' \in {buckets, Grown}
  /\ Finish("error", NoValue)
  /\ UNCHANGED << items, size, iter >>

(***************************************************************************)
(* mappingobject_iterbegin and _iternext.  seen is not in the code: it is  *)
(* what the iteration has given so far.                                    *)
(***************************************************************************)
IterBegin ==
  /\ ops = << >> /\ ~iter.on
  /\ iter' = [NotIterating EXCEPT !.on = TRUE]
  /\ reply' = NoReply
  /\ UNCHANGED << items, buckets, size, ops >>

\* the first bucket from b on that is not empty, or one past the last bucket
NonEmpty(b) == {c \in b .. Len(buckets) : buckets[c] # << >>}
OneFurther(b) == Min(NonEmpty(b + 1) \cup {Len(buckets) + 1})
ThisOrLater(b) == Min(NonEmpty(b) \cup {Len(buckets) + 1})
NonEmptyFrom(b) == ThisOrLater(b)

IterGoTo(b) ==
  iter' = IF b > Len(buckets) THEN [iter EXCEPT !.on = FALSE]
          ELSE [iter EXCEPT !.bucket = b, !.item = Head(buckets[b]),
                            !.seen = Append(@, Head(buckets[b]))]

IterNext ==
  /\ ops = << >> /\ iter.on
  /\ IF iter.item = End THEN IterGoTo(NonEmptyFrom(1))
     ELSE IF After(iter.item) = End THEN IterGoTo(NonEmptyFrom(iter.bucket + 1))
     ELSE iter' = [iter EXCEPT !.item = After(iter.item),
                               !.seen = Append(@, After(iter.item))]
  /\ UNCHANGED << items, buckets, size, ops, reply >>
-----------------------------------------------------------------------------
Call ==
  \E k \in Keys :
    \/ \E v \in Values : Start("set", k, v)
    \/ \E kind \in {"get", "delete"} : Start(kind, k, NoValue)
    \/ \E kind \in {"set", "get", "delete"} : Reject(kind, k)

Search == CompareFails \/ CompareDiffers \/ FoundSet \/ FoundGet \/ FoundDelete
Miss == NotFound \/ Insert \/ InsertFails
Iterate == IterBegin \/ IterNext

Next == Call \/ Search \/ Miss \/ Iterate

Spec == Init /\ [][Next]_vars
-----------------------------------------------------------------------------
(***************************************************************************)
(* Properties.                                                             *)
(***************************************************************************)

\* The state has the expected shape, and every item is in exactly one chain.
TypeOK ==
  /\ \A x \in ItemIds : items[x] \in Values \cup {NoValue}
  /\ FlattenSeq(buckets) \in Seq(ItemIds)
  /\ \A x \in ItemIds :
       Cardinality({i \in DOMAIN FlattenSeq(buckets) : FlattenSeq(buckets)[i] = x})
         = IF x \in Stored THEN 1 ELSE 0
  /\ \A i \in DOMAIN ops : ops[i].item \in ItemIds \cup {End}

\* Every item is in the bucket where a search for its key will look
\* (HASH_MODULUS of mapping.c), also after make_bigger.
KeysInOwnBucket ==
  \A b \in DOMAIN buckets :
    \A x \in ToSet(buckets[b]) : b = HashModulus(x.key, Len(buckets))

\* mapping.set adds a pair "or changes the value of a key that is already in
\* the mapping" (docs/builtins.md:772): no key is stored twice.
UniqueKeys ==
  \A x, y \in Stored : Class[x.key] = Class[y.key] => x = y

\* mapping.length is the number of pairs, on every path that adds or removes.
SizeCounts == size = Cardinality(Stored)

\* Chains stay short: make_bigger comes before more than one item too many.
LoadBounded == 4 * (size - 1) <= 3 * Len(buckets)

\* An iteration gives every item exactly once (mapping_foreachref, setup and
\* eq rely on it).
IterationComplete ==
  [][iter.on /\ ~iter'.on =>
       ToSet(iter.seen) = Stored /\ Len(iter.seen) = Cardinality(Stored)]_vars

\* The abstract mapping, and the operations as its steps.
AbstractMap ==
  [c \in {Class[x.key] : x \in Stored} |->
     items[CHOOSE x \in Stored : Class[x.key] = c]]
Abstract == INSTANCE FiniteMap WITH Keys <- {Class[k] : k \in Keys}, map <- AbstractMap

\* A Mapping is a finite map: every operation takes effect at one moment and
\* answers by what the map is then; one that fails has no effect.
ImplementsFiniteMap == Abstract!Spec
=============================================================================
