--------------------------- MODULE HashTableProof ---------------------------
(***************************************************************************)
(* Proofs about HashTable, for any keys, hashes, sizes and growth factor:  *)
(* what is in the chains is what is stored, and the size and the load are  *)
(* right, whatever == does meanwhile; and without nested operations keys   *)
(* are unique, iteration is complete and a Mapping is a finite map.        *)
(***************************************************************************)
EXTENDS HashTable, Induction

\* The chains bs have the items S, each of them once.
Chained(bs, S) ==
  /\ bs \in Seq(Seq(ItemIds)) /\ Len(bs) \in Nat \ {0}
  /\ \A b \in DOMAIN bs : IsInjective(bs[b])
  /\ \A b, c \in DOMAIN bs : b # c => ToSet(bs[b]) \cap ToSet(bs[c]) = {}
  /\ \A x : x \in S <=> \E b \in DOMAIN bs : x \in ToSet(bs[b])
Own(bs) == \A b \in DOMAIN bs : \A x \in ToSet(bs[b]) : b = HashModulus(x.key, Len(bs))

\* What an operation under way stands on is in the table.
OpRecords ==
  [kind : {"set", "get", "delete"}, key : Keys, value : Values \cup {NoValue},
   bucket : Nat, item : ItemIds \cup {End}]
OpFits(op, S, bs) ==
  /\ op.item # End => op.item \in S
  /\ op.bucket \in DOMAIN bs
  /\ op.kind = "set" => op.value \in Values
  /\ op.kind = "delete" /\ op.item # End => op.item \in ToSet(bs[op.bucket])


\* The inductive invariant.
TableInv ==
  /\ items \in [ItemIds -> Values \cup {NoValue}]
  /\ Chained(buckets, Stored)
  /\ SizeCounts /\ LoadBounded
OpsInv ==
  /\ ops \in Seq(OpRecords)
  /\ \A i \in DOMAIN ops : OpFits(ops[i], Stored, buckets) /\ (ops[i].kind = "delete" => Len(ops) = 1)
IInv == TableInv /\ OpsInv

-----------------------------------------------------------------------------
(***************************************************************************)
(* The chains.                                                             *)
(***************************************************************************)
LEMMA EndIsNoItem == End \notin ItemIds
BY DEF End, ItemIds

LEMMA ModulusInRange ==
  ASSUME NEW k \in Keys, NEW n \in Nat \ {0}
  PROVE  HashModulus(k, n) \in 1 .. n
<1>1. Hash[k] \in Nat
  BY HashTableAssumption
<1> QED BY <1>1 DEF HashModulus

LEMMA FlatChains ==
  ASSUME NEW S, NEW bs, Chained(bs, S)
  PROVE  /\ FlattenSeq(bs) \in Seq(ItemIds) /\ IsInjective(FlattenSeq(bs))
         /\ ToSet(FlattenSeq(bs)) = S
         /\ IsFiniteSet(S) /\ Len(FlattenSeq(bs)) = Cardinality(S)
         /\ S \subseteq ItemIds
<1>1. bs \in Seq(Seq(ItemIds)) /\ DOMAIN bs = 1 .. Len(bs)
  BY DEF Chained
<1>2. FlattenSeq(bs) \in Seq(ItemIds) /\ IsInjective(FlattenSeq(bs))
  BY <1>1, FlattenElements DEF Chained
<1>3. ToSet(FlattenSeq(bs)) = S
  BY <1>1, FlattenElements DEF Chained
<1>4. S \subseteq ItemIds
  <2>1. \A i \in DOMAIN FlattenSeq(bs) : FlattenSeq(bs)[i] \in ItemIds
    BY <1>2
  <2> QED BY <1>3, <2>1 DEF ToSet
<1> QED BY <1>2, <1>3, <1>4, InjectiveLength

\* make_bigger keeps the items and puts each where its hash says.
LEMMA RehashChained ==
  ASSUME NEW visited \in Seq(ItemIds), IsInjective(visited), NEW n \in Nat \ {0}
  PROVE  /\ Chained(Rehash(visited, n), ToSet(visited))
         /\ Own(Rehash(visited, n)) /\ Len(Rehash(visited, n)) = n
<1> DEFINE h == [x \in ItemIds |-> HashModulus(x.key, n)]
           bs == Rechained(visited, 1 .. n, h)
<1>1. h \in [ItemIds -> 1 .. n] /\ \A x \in ItemIds : h[x] = HashModulus(x.key, n)
  BY ModulusInRange DEF ItemIds
<1> HIDE DEF h
<1>2. /\ bs \in [1 .. n -> Seq(ItemIds)]
      /\ \A b \in 1 .. n : \A x : x \in ToSet(bs[b]) <=> x \in ToSet(visited) /\ h[x] = b
      /\ \A b \in 1 .. n : IsInjective(bs[b])
  BY <1>1, RechainedElements
<1>3. Rehash(visited, n) = bs
  BY DEF Rehash, h
<1> HIDE DEF bs
<1>4. bs \in Seq(Seq(ItemIds)) /\ Len(bs) = n /\ DOMAIN bs = 1 .. n
  <2>1. bs \in Seq(Seq(ItemIds))
    BY <1>2, SeqDef
  <2> QED BY <1>2, <2>1
<1>5. \A x \in ToSet(visited) : x \in ItemIds
  BY DEF ToSet
<1>6. Own(bs)
  BY <1>1, <1>2, <1>4, <1>5 DEF Own
<1>7. \A x : x \in ToSet(visited) <=> \E b \in DOMAIN bs : x \in ToSet(bs[b])
  BY <1>1, <1>2, <1>4, <1>5
<1>8. \A b, c \in DOMAIN bs : b # c => ToSet(bs[b]) \cap ToSet(bs[c]) = {}
  <2> SUFFICES ASSUME NEW b \in 1 .. n, NEW c \in 1 .. n, b # c, NEW x,
                      x \in ToSet(bs[b]), x \in ToSet(bs[c])
               PROVE  FALSE
    BY <1>4
  <2> QED BY <1>2
<1>9. \A b \in DOMAIN bs : IsInjective(bs[b])
  BY <1>2, <1>4
<1> QED BY <1>3, <1>4, <1>6, <1>7, <1>8, <1>9 DEF Chained

LEMMA AtLeastTwice == \A g, n \in Nat : g >= 2 => g * n \in Nat /\ g * n >= 2 * n
<1> SUFFICES ASSUME NEW g \in Nat, NEW n \in Nat, g >= 2
             PROVE  g * n \in Nat /\ g * n >= 2 * n
  OBVIOUS
<1>1. g - 2 \in Nat /\ g * n = 2 * n + (g - 2) * n
  OBVIOUS
<1>2. \A a, b \in Nat : a * b \in Nat
  OBVIOUS
<1>3. g * n \in Nat /\ (g - 2) * n \in Nat
  BY <1>1, <1>2
<1> QED BY <1>1, <1>3

LEMMA GrownChained ==
  ASSUME NEW S, Chained(buckets, S)
  PROVE  /\ Chained(Grown, S) /\ (Own(buckets) => Own(Grown))
         /\ Len(Grown) = IF Crowded THEN Growth * Len(buckets) ELSE Len(buckets)
         /\ Len(Grown) >= Len(buckets)
<1> DEFINE n == Growth * Len(buckets)
<1>1. Len(buckets) \in Nat \ {0} /\ Growth \in Nat /\ Growth >= 2
  BY HashTableAssumption DEF Chained
<1>2. n \in Nat \ {0} /\ n >= Len(buckets)
  BY <1>1, AtLeastTwice
<1> HIDE DEF n
<1>3. CASE Crowded
  <2>1. Grown = Rehash(FlattenSeq(buckets), n)
    BY <1>3 DEF Grown, Bigger, WholeChains, n
  <2> QED BY <1>2, <1>3, <2>1, FlatChains, RehashChained DEF n
<1>4. CASE ~Crowded
  BY <1>1, <1>4 DEF Grown
<1> QED BY <1>3, <1>4

\* A new item comes first in its chain.
LEMMA AddChained ==
  ASSUME NEW S, NEW bs, Chained(bs, S), NEW x \in ItemIds \ S, NEW b \in DOMAIN bs
  PROVE  /\ Chained([bs EXCEPT ![b] = << x >> \o @], S \cup {x})
         /\ (Own(bs) /\ b = HashModulus(x.key, Len(bs)) =>
               Own([bs EXCEPT ![b] = << x >> \o @]))
<1> DEFINE cs == [bs EXCEPT ![b] = << x >> \o @]
<1>1. bs[b] \in Seq(ItemIds) /\ IsInjective(bs[b]) /\ x \notin ToSet(bs[b])
  BY DEF Chained
<1>2. /\ << x >> \o bs[b] \in Seq(ItemIds) /\ IsInjective(<< x >> \o bs[b])
      /\ ToSet(<< x >> \o bs[b]) = ToSet(bs[b]) \cup {x}
  BY <1>1, ConsElements
<1>3. /\ cs \in Seq(Seq(ItemIds)) /\ Len(cs) = Len(bs) /\ DOMAIN cs = DOMAIN bs
      /\ cs[b] = << x >> \o bs[b] /\ \A c \in DOMAIN bs : c # b => cs[c] = bs[c]
  BY <1>2 DEF Chained
<1> HIDE DEF cs
<1>4. \A c \in DOMAIN bs : ToSet(cs[c]) = IF c = b THEN ToSet(bs[b]) \cup {x} ELSE ToSet(bs[c])
  BY <1>2, <1>3
<1>5. \A c \in DOMAIN bs : x \notin ToSet(bs[c])
  BY DEF Chained
<1>6. \A c, d \in DOMAIN cs : c # d => ToSet(cs[c]) \cap ToSet(cs[d]) = {}
  <2> SUFFICES ASSUME NEW c \in DOMAIN bs, NEW d \in DOMAIN bs, c # d
               PROVE  ToSet(cs[c]) \cap ToSet(cs[d]) = {}
    BY <1>3
  <2>1. ToSet(bs[c]) \cap ToSet(bs[d]) = {}
    BY DEF Chained
  <2> QED BY <1>4, <1>5, <2>1
<1>7. \A c \in DOMAIN cs : IsInjective(cs[c])
  BY <1>2, <1>3 DEF Chained
<1>8. \A y : y \in S \cup {x} <=> \E c \in DOMAIN cs : y \in ToSet(cs[c])
  <2> SUFFICES ASSUME NEW y
               PROVE  y \in S \cup {x} <=> \E c \in DOMAIN bs : y \in ToSet(cs[c])
    BY <1>3
  <2>1. y \in S <=> \E c \in DOMAIN bs : y \in ToSet(bs[c])
    BY DEF Chained
  <2> QED BY <1>4, <2>1
<1>9. Chained(cs, S \cup {x})
  BY <1>3, <1>6, <1>7, <1>8 DEF Chained
<1>10. Own(bs) /\ b = HashModulus(x.key, Len(bs)) => Own(cs)
  BY <1>3, <1>4 DEF Own
<1> QED BY <1>9, <1>10 DEF cs

LEMMA UnlinkChained ==
  ASSUME NEW S, NEW bs, Chained(bs, S), NEW b \in DOMAIN bs, NEW x \in ToSet(bs[b])
  PROVE  /\ Chained([bs EXCEPT ![b] = Unlinked(@, x)], S \ {x})
         /\ (Own(bs) => Own([bs EXCEPT ![b] = Unlinked(@, x)]))
<1> DEFINE cs == [bs EXCEPT ![b] = Unlinked(@, x)]
<1>1. bs[b] \in Seq(ItemIds) /\ IsInjective(bs[b])
  BY DEF Chained
<1>2. /\ Unlinked(bs[b], x) \in Seq(ItemIds) /\ IsInjective(Unlinked(bs[b], x))
      /\ ToSet(Unlinked(bs[b], x)) = ToSet(bs[b]) \ {x}
  BY <1>1, UnlinkedElements
<1>3. /\ cs \in Seq(Seq(ItemIds)) /\ Len(cs) = Len(bs) /\ DOMAIN cs = DOMAIN bs
      /\ cs[b] = Unlinked(bs[b], x) /\ \A c \in DOMAIN bs : c # b => cs[c] = bs[c]
  BY <1>2 DEF Chained
<1> HIDE DEF cs
<1>4. \A c \in DOMAIN bs : ToSet(cs[c]) = ToSet(bs[c]) \ {x}
  <2> TAKE c \in DOMAIN bs
  <2>1. c # b => x \notin ToSet(bs[c])
    BY DEF Chained
  <2> QED BY <1>2, <1>3, <2>1
<1>5. \A c, d \in DOMAIN cs : c # d => ToSet(cs[c]) \cap ToSet(cs[d]) = {}
  BY <1>3, <1>4 DEF Chained
<1>6. \A c \in DOMAIN cs : IsInjective(cs[c])
  BY <1>2, <1>3 DEF Chained
<1>7. \A y : y \in S \ {x} <=> \E c \in DOMAIN cs : y \in ToSet(cs[c])
  BY <1>3, <1>4 DEF Chained
<1>8. Chained(cs, S \ {x})
  BY <1>3, <1>5, <1>6, <1>7 DEF Chained
<1>9. Own(bs) => Own(cs)
  BY <1>3, <1>4 DEF Own
<1> QED BY <1>8, <1>9 DEF cs

\* item->next.
LEMMA AfterItem ==
  ASSUME NEW S, Chained(buckets, S), NEW b \in DOMAIN buckets, NEW j \in DOMAIN buckets[b]
  PROVE  After(buckets[b][j]) = IF j = Len(buckets[b]) THEN End ELSE buckets[b][j + 1]
<1> DEFINE x == buckets[b][j]
           chain == CHOOSE c \in ToSet(buckets) : Contains(c, x)
<1>1. DOMAIN buckets[b] = 1 .. Len(buckets[b]) /\ \A i \in 1 .. Len(buckets[b]) : buckets[b][i] = x => i = j
  BY DEF Chained, IsInjective
<1>2. \A c \in DOMAIN buckets : Contains(buckets[c], x) <=> x \in ToSet(buckets[c])
  BY DEF Contains, ToSet, Chained
<1>3. x \in ToSet(buckets[b])
  BY DEF ToSet
<1>4. chain = buckets[b]
  <2>1. \A c \in ToSet(buckets) : Contains(c, x) => c = buckets[b]
    <3> SUFFICES ASSUME NEW c \in DOMAIN buckets, Contains(buckets[c], x) PROVE c = b
      BY DEF ToSet
    <3> QED BY <1>2, <1>3 DEF Chained
  <2>2. buckets[b] \in ToSet(buckets) /\ Contains(buckets[b], x)
    BY <1>2, <1>3 DEF ToSet
  <2> QED BY <2>1, <2>2
<1>5. (CHOOSE i \in DOMAIN buckets[b] : buckets[b][i] = x) = j
  BY <1>1
<1>6. After(x) = LET i == CHOOSE i \in DOMAIN chain : chain[i] = x
                 IN  IF i = Len(chain) THEN End ELSE chain[i + 1]
  BY DEF After
<1> HIDE DEF chain
<1> QED BY <1>4, <1>5, <1>6

-----------------------------------------------------------------------------
(***************************************************************************)
(* The steps of the operations, nested or not.                             *)
(***************************************************************************)
LEMMA OpKnown ==
  ASSUME IInv, ops # << >>
  PROVE  /\ Op \in OpRecords /\ OpFits(Op, Stored, buckets)
         /\ Len(ops) \in Nat \ {0} /\ DOMAIN ops = 1 .. Len(ops)
         /\ OtherOps \in Seq(OpRecords) /\ DOMAIN OtherOps = 1 .. Len(ops) - 1
         /\ \A i \in 1 .. Len(ops) - 1 : OtherOps[i] = ops[i] /\ ops[i].kind # "delete"
         /\ Op.kind = "delete" => Len(ops) = 1
<1>1. ops \in Seq(OpRecords)
  BY DEF IInv, OpsInv
<1>2. Len(ops) \in Nat \ {0} /\ DOMAIN ops = 1 .. Len(ops) /\ Len(ops) \in DOMAIN ops
  BY <1>1, EmptySeq
<1>3. Op \in OpRecords /\ OpFits(Op, Stored, buckets) /\ (Op.kind = "delete" => Len(ops) = 1)
  BY <1>1, <1>2 DEF IInv, OpsInv, Op
<1>4. /\ OtherOps \in Seq(OpRecords) /\ DOMAIN OtherOps = 1 .. Len(ops) - 1
      /\ \A i \in 1 .. Len(ops) - 1 : OtherOps[i] = ops[i]
  BY <1>1, <1>2 DEF OtherOps
<1>5. \A i \in 1 .. Len(ops) - 1 : i \in DOMAIN ops /\ Len(ops) # 1
  BY <1>2
<1> QED BY <1>2, <1>3, <1>4, <1>5 DEF IInv, OpsInv

\* When an operation ends, those that it interrupted stand where they stood.
LEMMA FinishKeepsOps ==
  ASSUME IInv, ops # << >>, ops' = OtherOps,
         Len(ops) = 1 \/ (Stored \subseteq Stored' /\ DOMAIN buckets \subseteq DOMAIN buckets')
  PROVE  OpsInv'
<1>1. ops' \in Seq(OpRecords) /\ DOMAIN ops' = 1 .. Len(ops) - 1
  BY OpKnown
<1>2. ASSUME NEW i \in DOMAIN ops'
      PROVE  OpFits(ops'[i], Stored', buckets') /\ ops'[i].kind # "delete"
  <2>1. /\ i \in 1 .. Len(ops) - 1 /\ i \in DOMAIN ops /\ Len(ops) # 1
        /\ ops'[i] = ops[i] /\ ops[i].kind # "delete"
    BY <1>1, <1>2, OpKnown
  <2>2. OpFits(ops[i], Stored, buckets)
    BY <2>1 DEF IInv, OpsInv
  <2> QED BY <2>1, <2>2 DEF OpFits
<1> QED BY <1>1, <1>2 DEF OpsInv

LEMMA SameTable ==
  ASSUME TableInv, UNCHANGED << items, buckets, size >>
  PROVE  TableInv' /\ Stored' = Stored
<1>1. items' = items /\ buckets' = buckets /\ size' = size
  OBVIOUS
<1>2. Stored' = Stored
  BY <1>1 DEF Stored, Free
<1> QED BY <1>1, <1>2 DEF TableInv, SizeCounts, LoadBounded

\* A step that ends the running operation and leaves the table alone.
LEMMA FinishKeepsIInv ==
  ASSUME IInv, ops # << >>, ops' = OtherOps, UNCHANGED << items, buckets, size >>
  PROVE  IInv'
<1>1. TableInv' /\ Stored' = Stored
  BY SameTable DEF IInv
<1> QED BY <1>1, FinishKeepsOps DEF IInv

LEMMA FirstItem ==
  ASSUME TableInv, NEW b \in DOMAIN buckets
  PROVE  /\ First(buckets[b]) \in ItemIds \cup {End}
         /\ First(buckets[b]) # End =>
              First(buckets[b]) \in Stored /\ First(buckets[b]) \in ToSet(buckets[b])
<1>1. buckets[b] \in Seq(ItemIds)
  BY DEF TableInv, Chained
<1>2. CASE buckets[b] = << >>
  BY <1>2 DEF First
<1>3. CASE buckets[b] # << >>
  <2>1. First(buckets[b]) = buckets[b][1] /\ 1 \in DOMAIN buckets[b]
    BY <1>1, <1>3 DEF First
  <2>2. First(buckets[b]) \in ToSet(buckets[b])
    BY <2>1 DEF ToSet
  <2>3. First(buckets[b]) \in Stored
    BY <2>2 DEF TableInv, Chained
  <2> QED BY <1>1, <2>1, <2>2, <2>3
<1> QED BY <1>2, <1>3

LEMMA NextItem ==
  ASSUME TableInv, NEW b \in DOMAIN buckets, NEW x \in ToSet(buckets[b])
  PROVE  /\ After(x) \in ItemIds \cup {End}
         /\ After(x) # End => After(x) \in Stored /\ After(x) \in ToSet(buckets[b])
<1>1. buckets[b] \in Seq(ItemIds) /\ DOMAIN buckets[b] = 1 .. Len(buckets[b])
  BY DEF TableInv, Chained
<1>2. PICK j \in DOMAIN buckets[b] : x = buckets[b][j]
  BY DEF ToSet
<1>3. After(x) = IF j = Len(buckets[b]) THEN End ELSE buckets[b][j + 1]
  BY <1>2, AfterItem DEF TableInv
<1>4. CASE j = Len(buckets[b])
  BY <1>3, <1>4
<1>5. CASE j # Len(buckets[b])
  <2>1. j + 1 \in DOMAIN buckets[b] /\ After(x) = buckets[b][j + 1]
    BY <1>1, <1>2, <1>3, <1>5
  <2>2. After(x) \in ToSet(buckets[b]) /\ After(x) \in ItemIds
    BY <1>1, <2>1 DEF ToSet
  <2> QED BY <2>2 DEF TableInv, Chained
<1> QED BY <1>4, <1>5

LEMMA StartKeepsIInv ==
  ASSUME IInv, NEW kind \in {"set", "get", "delete"}, NEW k \in Keys,
         NEW v \in Values \cup {NoValue}, kind = "set" => v \in Values, Start(kind, k, v)
  PROVE  IInv'
<1> DEFINE b == HashModulus(k, Len(buckets))
           op == [kind |-> kind, key |-> k, value |-> v, bucket |-> b, item |-> First(buckets[b])]
<1>1. TableInv' /\ Stored' = Stored /\ buckets' = buckets
  BY SameTable DEF IInv, Start
<1>2. b \in DOMAIN buckets /\ b \in Nat
  <2>1. b \in 1 .. Len(buckets) /\ DOMAIN buckets = 1 .. Len(buckets)
    BY ModulusInRange DEF IInv, TableInv, Chained
  <2> QED BY <2>1
<1>3. ops' = Append(ops, op) /\ ops \in Seq(OpRecords)
  BY DEF Start, IInv, OpsInv
<1>4. op \in OpRecords /\ OpFits(op, Stored, buckets)
  BY <1>2, FirstItem DEF OpRecords, OpFits, IInv
<1>5. op.kind = kind
  OBVIOUS
<1> HIDE DEF op
<1>6. /\ ops' \in Seq(OpRecords) /\ Len(ops') = Len(ops) + 1 /\ DOMAIN ops' = 1 .. Len(ops) + 1
      /\ DOMAIN ops = 1 .. Len(ops) /\ Len(ops) \in Nat
      /\ ops'[Len(ops) + 1] = op /\ \A i \in 1 .. Len(ops) : ops'[i] = ops[i]
  BY <1>3, <1>4
<1>7. \A i \in DOMAIN ops' : OpFits(ops'[i], Stored, buckets)
  BY <1>4, <1>6 DEF IInv, OpsInv
<1>8. \A i \in DOMAIN ops' : OpFits(ops'[i], Stored', buckets')
  BY <1>1, <1>7 DEF OpFits
<1>9. ASSUME NEW i \in DOMAIN ops', ops'[i].kind = "delete"
      PROVE  Len(ops) = 0
  <2>1. CASE ops = << >>
    BY <2>1
  <2>2. CASE ops # << >>
    <3>1. kind # "delete" /\ Op.kind # "delete"
      BY <2>2 DEF Start, Callable
    <3>2. \A j \in 1 .. Len(ops) : ops[j].kind # "delete"
      <4> SUFFICES ASSUME NEW j \in 1 .. Len(ops) PROVE ops[j].kind # "delete"
        OBVIOUS
      <4> Len(ops) \in Nat
        BY <1>6
      <4>1. j = Len(ops) \/ j \in 1 .. Len(ops) - 1
        OBVIOUS
      <4>2. CASE j = Len(ops)
        BY <3>1, <4>2 DEF Op
      <4>3. CASE j \in 1 .. Len(ops) - 1
        BY <2>2, <4>3, OpKnown
      <4> QED BY <4>1, <4>2, <4>3
    <3> QED BY <1>5, <1>6, <1>9, <3>1, <3>2
  <2> QED BY <2>1, <2>2
<1>10. \A i \in DOMAIN ops' : ops'[i].kind = "delete" => Len(ops') = 1
  BY <1>6, <1>9
<1> QED BY <1>1, <1>6, <1>8, <1>10 DEF IInv, OpsInv

LEMMA DiffersKeepsIInv == ASSUME IInv, CompareDiffers PROVE IInv'
<1>1. TableInv' /\ Stored' = Stored /\ buckets' = buckets
  BY SameTable DEF IInv, CompareDiffers
<1>2. ops # << >> /\ Op.item # End /\ ops' = [ops EXCEPT ![Len(ops)].item = After(Op.item)]
  BY DEF CompareDiffers, Searching
<1> DEFINE op == [Op EXCEPT !.item = After(Op.item)]
<1>3. op \in OpRecords /\ OpFits(op, Stored, buckets) /\ op.kind = Op.kind
  <2>1. Op \in OpRecords /\ OpFits(Op, Stored, buckets)
    BY <1>2, OpKnown
  <2>2. PICK b \in DOMAIN buckets :
          /\ Op.item \in ToSet(buckets[b])
          /\ Op.kind = "delete" => b = Op.bucket
    <3>1. CASE Op.kind = "delete"
      BY <1>2, <2>1, <3>1 DEF OpFits
    <3>2. CASE Op.kind # "delete"
      BY <1>2, <2>1, <3>2 DEF OpFits, IInv, TableInv, Chained
    <3> QED BY <3>1, <3>2
  <2>3. /\ After(Op.item) \in ItemIds \cup {End}
        /\ After(Op.item) # End => After(Op.item) \in Stored /\ After(Op.item) \in ToSet(buckets[b])
    BY <2>2, NextItem DEF IInv
  <2>4. /\ op.kind = Op.kind /\ op.key = Op.key /\ op.value = Op.value /\ op.bucket = Op.bucket
        /\ op.item = After(Op.item)
    BY <2>1 DEF OpRecords
  <2>5. op \in OpRecords
    BY <2>1, <2>3 DEF OpRecords
  <2>6. OpFits(op, Stored, buckets)
    BY <2>1, <2>2, <2>3, <2>4 DEF OpFits
  <2> QED BY <2>4, <2>5, <2>6
<1>4. ops' = [ops EXCEPT ![Len(ops)] = op]
  BY <1>2 DEF Op
<1> HIDE DEF op
<1>5. /\ ops' \in Seq(OpRecords) /\ Len(ops') = Len(ops) /\ DOMAIN ops' = DOMAIN ops
      /\ ops'[Len(ops)] = op /\ \A i \in DOMAIN ops : i # Len(ops) => ops'[i] = ops[i]
  BY <1>2, <1>3, <1>4, OpKnown DEF IInv, OpsInv
<1>6. \A i \in DOMAIN ops : OpFits(ops'[i], Stored, buckets) /\ (ops'[i].kind = "delete" => Len(ops) = 1)
  BY <1>2, <1>3, <1>5, OpKnown DEF IInv, OpsInv
<1>7. \A i \in DOMAIN ops' : OpFits(ops'[i], Stored', buckets')
  BY <1>1, <1>5, <1>6 DEF OpFits
<1> QED BY <1>1, <1>5, <1>6, <1>7 DEF IInv, OpsInv

LEMMA FoundSetKeepsIInv == ASSUME IInv, FoundSet PROVE IInv' /\ Stored' = Stored
<1>1. /\ ops # << >> /\ Op.item # End /\ Op.kind = "set" /\ ops' = OtherOps
      /\ items' = [items EXCEPT ![Op.item] = Op.value]
      /\ buckets' = buckets /\ size' = size
  BY DEF FoundSet, Searching, Finish
<1>2. Op.item \in Stored /\ Op.item \in ItemIds /\ Op.value \in Values
  BY <1>1, OpKnown DEF OpFits, Stored
<1>3. items' \in [ItemIds -> Values \cup {NoValue}]
  BY <1>1, <1>2 DEF IInv, TableInv
<1>4. Stored' = Stored
  <2>1. \A x \in ItemIds : items'[x] = NoValue <=> items[x] = NoValue
    BY <1>1, <1>2, HashTableAssumption DEF IInv, TableInv, Stored, Free
  <2> QED BY <2>1 DEF Stored, Free
<1>5. TableInv'
  BY <1>1, <1>3, <1>4 DEF IInv, TableInv, SizeCounts, LoadBounded
<1> QED BY <1>1, <1>4, <1>5, FinishKeepsOps DEF IInv

LEMMA FoundDeleteKeepsIInv ==
  ASSUME IInv, FoundDelete
  PROVE  IInv' /\ Stored' = Stored \ {Op.item}
<1>1. /\ ops # << >> /\ Op.item # End /\ Op.kind = "delete" /\ ops' = OtherOps
      /\ buckets' = [buckets EXCEPT ![Op.bucket] = Unlinked(@, Op.item)]
      /\ items' = [items EXCEPT ![Op.item] = NoValue]
      /\ size' = size - 1
  BY DEF FoundDelete, Searching, Finish, SizeAfterDelete, OneLess
<1>2. /\ Op.item \in Stored /\ Op.item \in ItemIds /\ Op.bucket \in DOMAIN buckets
      /\ Op.item \in ToSet(buckets[Op.bucket]) /\ Len(ops) = 1
  BY <1>1, OpKnown DEF OpFits, Stored
<1>3. items' \in [ItemIds -> Values \cup {NoValue}]
  BY <1>1, <1>2 DEF IInv, TableInv
<1>4. Stored' = Stored \ {Op.item}
  <2>1. \A x \in ItemIds : items'[x] = IF x = Op.item THEN NoValue ELSE items[x]
    BY <1>1, <1>2 DEF IInv, TableInv
  <2> QED BY <2>1 DEF Stored, Free
<1>5. Chained(buckets', Stored')
  BY <1>1, <1>2, <1>4, UnlinkChained DEF IInv, TableInv
<1>6. IsFiniteSet(Stored) /\ Cardinality(Stored) \in Nat
  BY FlatChains, FS_CardinalityType DEF IInv, TableInv
<1>7. SizeCounts'
  BY <1>1, <1>2, <1>4, <1>6, FS_RemoveElement DEF IInv, TableInv, SizeCounts
<1>8. LoadBounded'
  <2>1. size \in Nat /\ Len(buckets) \in Nat /\ 4 * (size - 1) <= 3 * Len(buckets)
    BY <1>6 DEF IInv, TableInv, SizeCounts, LoadBounded, Chained
  <2>2. Len(buckets') = Len(buckets)
    BY <1>1, <1>2 DEF IInv, TableInv, Chained
  <2> QED BY <1>1, <2>1, <2>2 DEF LoadBounded
<1> QED BY <1>1, <1>2, <1>3, <1>4, <1>5, <1>7, <1>8, FinishKeepsOps DEF IInv, TableInv

\* After make_bigger there is room for more than one item.
LEMMA GrownRoom ==
  ASSUME TableInv
  PROVE  /\ Chained(Grown, Stored) /\ (Own(buckets) => Own(Grown))
         /\ DOMAIN buckets \subseteq DOMAIN Grown
         /\ size \in Nat /\ IsFiniteSet(Stored)
         /\ 4 * size <= 3 * Len(Grown)
<1>1. /\ Chained(Grown, Stored) /\ (Own(buckets) => Own(Grown))
      /\ Len(Grown) = IF Crowded THEN Growth * Len(buckets) ELSE Len(buckets)
      /\ Len(Grown) >= Len(buckets)
  BY GrownChained DEF TableInv
<1>2. /\ Len(buckets) \in Nat \ {0} /\ Len(Grown) \in Nat
      /\ DOMAIN buckets = 1 .. Len(buckets) /\ DOMAIN Grown = 1 .. Len(Grown)
  BY <1>1 DEF TableInv, Chained
<1>3. size \in Nat /\ IsFiniteSet(Stored)
  BY FlatChains, FS_CardinalityType DEF TableInv, SizeCounts
<1>4. 4 * size <= 3 * Len(Grown)
  <2>1. CASE Crowded
    <3>1. Len(Grown) >= 2 * Len(buckets)
      BY <1>1, <1>2, <2>1, AtLeastTwice, HashTableAssumption
    <3>2. 4 * (size - 1) <= 3 * Len(buckets)
      BY DEF TableInv, LoadBounded
    <3>3. CASE Len(buckets) = 1
      BY <1>2, <1>3, <3>1, <3>2, <3>3
    <3>4. CASE Len(buckets) >= 2
      BY <1>2, <1>3, <3>1, <3>2, <3>4
    <3> QED BY <1>2, <3>3, <3>4
  <2>2. CASE ~Crowded
    <3>1. 4 * size <= 3 * Len(buckets)
      BY <1>2, <1>3, <2>2 DEF Crowded, OverThreeQuarters
    <3> QED BY <1>1, <2>2, <3>1
  <2> QED BY <2>1, <2>2
<1> QED BY <1>1, <1>2, <1>3, <1>4

LEMMA InsertKeepsIInv ==
  ASSUME IInv, Insert
  PROVE  /\ IInv'
         /\ \E x \in ItemIds \ Stored :
              /\ x.key = Op.key /\ Stored' = Stored \cup {x}
              /\ items' = [items EXCEPT ![x] = Op.value]
              /\ TargetBucket \in DOMAIN Grown
              /\ buckets' = [Grown EXCEPT ![TargetBucket] = << x >> \o @]
<1>1. /\ ops # << >> /\ Op.item = End /\ Op.kind = "set" /\ ops' = OtherOps /\ size' = size + 1
  BY DEF Insert, Exhausted, Finish
<1>2. /\ Op.value \in Values /\ Op.key \in Keys /\ Op.bucket \in DOMAIN buckets
  BY <1>1, OpKnown DEF OpFits, OpRecords
<1>3. PICK x \in ItemIds \ Stored :
        /\ x.key = Op.key
        /\ items' = [items EXCEPT ![x] = Op.value]
        /\ buckets' = [Grown EXCEPT ![TargetBucket] = << x >> \o @]
  BY DEF Insert, Stored, Free
<1>4. items' \in [ItemIds -> Values \cup {NoValue}]
  BY <1>2, <1>3 DEF IInv, TableInv
<1>5. Stored' = Stored \cup {x}
  <2>1. \A y \in ItemIds : items'[y] = IF y = x THEN Op.value ELSE items[y]
    BY <1>3 DEF IInv, TableInv
  <2> QED BY <1>2, <1>3, <2>1, HashTableAssumption DEF Stored, Free
<1>6. /\ Chained(Grown, Stored) /\ DOMAIN buckets \subseteq DOMAIN Grown
      /\ size \in Nat /\ IsFiniteSet(Stored) /\ 4 * size <= 3 * Len(Grown)
  BY GrownRoom DEF IInv
<1>7. TargetBucket \in DOMAIN Grown
  <2>1. CASE Crowded
    <3>1. HashModulus(Op.key, Len(Grown)) \in 1 .. Len(Grown) /\ DOMAIN Grown = 1 .. Len(Grown)
      BY <1>2, <1>6, ModulusInRange DEF Chained
    <3> QED BY <2>1, <3>1 DEF TargetBucket, NewBucket
  <2>2. CASE ~Crowded
    BY <1>2, <1>6, <2>2 DEF TargetBucket, NewBucket
  <2> QED BY <2>1, <2>2
<1>8. Chained(buckets', Stored')
  BY <1>3, <1>5, <1>6, <1>7, AddChained
<1>9. SizeCounts'
  BY <1>1, <1>3, <1>5, <1>6, FS_AddElement DEF IInv, TableInv, SizeCounts
<1>10. Len(buckets') = Len(Grown) /\ DOMAIN buckets' = DOMAIN Grown
  BY <1>3, <1>6 DEF Chained
<1>11. LoadBounded'
  <2>1. size' - 1 = size
    BY <1>1, <1>6
  <2> QED BY <1>6, <1>10, <2>1 DEF LoadBounded
<1>12. TableInv'
  BY <1>4, <1>8, <1>9, <1>11 DEF TableInv
<1>13. OpsInv'
  BY <1>1, <1>5, <1>6, <1>10, FinishKeepsOps
<1> QED BY <1>3, <1>5, <1>7, <1>12, <1>13 DEF IInv

LEMMA InsertFailsKeepsIInv == ASSUME IInv, InsertFails PROVE IInv' /\ Stored' = Stored
<1>1. /\ ops # << >> /\ ops' = OtherOps /\ size' = size /\ items' = items
      /\ buckets' \in {buckets, Grown}
  BY DEF InsertFails, Exhausted, Finish
<1>2. Stored' = Stored
  BY <1>1 DEF Stored, Free
<1>3. /\ Chained(Grown, Stored) /\ DOMAIN buckets \subseteq DOMAIN Grown
      /\ size \in Nat /\ IsFiniteSet(Stored) /\ 4 * size <= 3 * Len(Grown)
  BY GrownRoom DEF IInv
<1>4. Chained(buckets', Stored') /\ DOMAIN buckets \subseteq DOMAIN buckets' /\ LoadBounded'
  <2>1. CASE buckets' = buckets
    BY <1>1, <1>2, <2>1 DEF IInv, TableInv, LoadBounded
  <2>2. CASE buckets' = Grown
    <3>1. Len(Grown) \in Nat
      BY <1>3 DEF Chained
    <3>2. 4 * (size - 1) <= 3 * Len(Grown)
      BY <1>3, <3>1
    <3> QED BY <1>1, <1>2, <1>3, <2>2, <3>2 DEF LoadBounded
  <2> QED BY <1>1, <2>1, <2>2
<1>5. TableInv'
  BY <1>1, <1>2, <1>4 DEF IInv, TableInv, SizeCounts
<1> QED BY <1>1, <1>2, <1>4, <1>5, FinishKeepsOps DEF IInv

LEMMA IInvInit == Init => IInv
<1> SUFFICES ASSUME Init PROVE IInv
  OBVIOUS
<1>1. Stored = {}
  BY DEF Init, Stored, Free
<1>2. /\ \A b \in 1 .. InitBuckets : buckets[b] = << >>
      /\ buckets \in Seq(Seq(ItemIds)) /\ Len(buckets) = InitBuckets /\ DOMAIN buckets = 1 .. InitBuckets
      /\ InitBuckets \in Nat \ {0}
  <2>1. buckets \in [1 .. InitBuckets -> Seq(ItemIds)] /\ InitBuckets \in Nat \ {0}
    BY HashTableAssumption DEF Init
  <2>2. buckets \in Seq(Seq(ItemIds))
    BY <2>1, SeqDef
  <2> QED BY <2>1, <2>2 DEF Init
<1>3. ToSet(<< >>) = {} /\ IsInjective(<< >>)
  BY DEF ToSet, IsInjective
<1>4. Chained(buckets, Stored)
  BY <1>1, <1>2, <1>3 DEF Chained
<1>5. SizeCounts /\ LoadBounded
  <2>1. size = 0 /\ Cardinality(Stored) = 0
    BY <1>1, FS_EmptySet DEF Init
  <2> QED BY <1>2, <2>1 DEF SizeCounts, LoadBounded
<1>6. OpsInv
  BY DEF Init, OpsInv
<1>7. items \in [ItemIds -> Values \cup {NoValue}]
  BY DEF Init
<1> QED BY <1>4, <1>5, <1>6, <1>7 DEF IInv, TableInv

LEMMA Step == IInv /\ [Next]_vars => IInv'
<1> SUFFICES ASSUME IInv, [Next]_vars PROVE IInv'
  OBVIOUS
<1>1. CASE Call
  <2>1. ASSUME NEW k \in Keys, NEW v \in Values, Start("set", k, v)
        PROVE  IInv'
    BY <2>1, StartKeepsIInv
  <2>2. ASSUME NEW k \in Keys, NEW kind \in {"get", "delete"}, Start(kind, k, NoValue)
        PROVE  IInv'
    BY <2>2, StartKeepsIInv
  <2>3. ASSUME NEW k \in Keys, NEW kind \in {"set", "get", "delete"}, Reject(kind, k)
        PROVE  IInv'
    <3>1. TableInv' /\ Stored' = Stored /\ buckets' = buckets /\ ops' = ops
      BY <2>3, SameTable DEF IInv, Reject
    <3> QED BY <3>1 DEF IInv, OpsInv
  <2> QED BY <1>1, <2>1, <2>2, <2>3 DEF Call
<1>2. CASE CompareFails \/ FoundGet \/ NotFound
  BY <1>2, FinishKeepsIInv DEF CompareFails, FoundGet, NotFound, Searching, Exhausted, Finish
<1>3. CASE CompareDiffers
  BY <1>3, DiffersKeepsIInv
<1>4. CASE FoundSet
  BY <1>4, FoundSetKeepsIInv
<1>5. CASE FoundDelete
  BY <1>5, FoundDeleteKeepsIInv
<1>6. CASE Insert
  BY <1>6, InsertKeepsIInv
<1>7. CASE InsertFails
  BY <1>7, InsertFailsKeepsIInv
<1>8. CASE Iterate \/ UNCHANGED vars
  <2>1. items' = items /\ buckets' = buckets /\ size' = size /\ ops' = ops
    BY <1>8 DEF Iterate, IterBegin, IterNext, vars
  <2>2. TableInv' /\ Stored' = Stored
    BY <2>1, SameTable DEF IInv
  <2> QED BY <2>1, <2>2 DEF IInv, OpsInv
<1> QED BY <1>1, <1>2, <1>3, <1>4, <1>5, <1>6, <1>7, <1>8 DEF Next, Search, Miss

\* The inductive invariant holds, whatever == does to the mapping meanwhile.
THEOREM Invariance == Spec => []IInv
BY IInvInit, Step, PTL DEF Spec

\* Every variable keeps its type, and every item is in exactly one chain.
THEOREM TypeCorrect == Spec => []TypeOK
<1>1. IInv => TypeOK
  <2> SUFFICES ASSUME IInv PROVE TypeOK
    OBVIOUS
  <2> DEFINE flat == FlattenSeq(buckets)
  <2>1. flat \in Seq(ItemIds) /\ IsInjective(flat) /\ ToSet(flat) = Stored
    BY FlatChains DEF IInv, TableInv
  <2>2. \A i \in DOMAIN ops : ops[i].item \in ItemIds \cup {End}
    <3>1. \A i \in DOMAIN ops : ops[i] \in OpRecords
      BY DEF IInv, OpsInv
    <3> QED BY <3>1 DEF OpRecords
  <2> HIDE DEF flat
  <2>3. ASSUME NEW x \in ItemIds
        PROVE  Cardinality({i \in DOMAIN flat : flat[i] = x}) = IF x \in Stored THEN 1 ELSE 0
    <3>1. CASE x \in Stored
      <4>1. PICK j \in DOMAIN flat : flat[j] = x
        BY <2>1, <3>1 DEF ToSet
      <4>2. {i \in DOMAIN flat : flat[i] = x} = {j}
        BY <2>1, <4>1 DEF IsInjective
      <4> QED BY <3>1, <4>2, FS_Singleton
    <3>2. CASE x \notin Stored
      <4>1. {i \in DOMAIN flat : flat[i] = x} = {}
        BY <2>1, <3>2 DEF ToSet
      <4> QED BY <3>2, <4>1, FS_EmptySet
    <3> QED BY <3>1, <3>2
  <2>4. \A x \in ItemIds : items[x] \in Values \cup {NoValue}
    BY DEF IInv, TableInv
  <2> QED BY <2>1, <2>2, <2>3, <2>4 DEF TypeOK, flat
<1> QED BY <1>1, Invariance, PTL

(***************************************************************************)
(* mapping.length is the number of pairs on every path that adds or        *)
(* removes one (mapping.c, 248 and 302), for any number of operations that *)
(* a == begins inside another.                                             *)
(***************************************************************************)
THEOREM SizeIsCounted == Spec => []SizeCounts
<1>1. IInv => SizeCounts
  BY DEF IInv, TableInv
<1> QED BY <1>1, Invariance, PTL

(***************************************************************************)
(* make_bigger comes in time: at most one item more than three quarters of *)
(* the buckets, for any factor it may grow by (mapping.c, 225 to 232).     *)
(***************************************************************************)
THEOREM LoadIsBounded == Spec => []LoadBounded
<1>1. IInv => LoadBounded
  BY DEF IInv, TableInv
<1> QED BY <1>1, Invariance, PTL

-----------------------------------------------------------------------------
(***************************************************************************)
(* One operation at a time.  It stands in the bucket of its key, and the   *)
(* items that it has passed have other keys.                               *)
(***************************************************************************)
HashesAgree == \A k, l \in Keys : Class[k] = Class[l] => Hash[k] = Hash[l]

SingleInv ==
  /\ Len(ops) <= 1
  /\ ops # << >> => Op.bucket = HashModulus(Op.key, Len(buckets))
  /\ Own(buckets)

Passed(chain, op) ==
  \A i \in DOMAIN chain :
    Class[chain[i].key] = Class[op.key] =>
      op.item # End /\ \E j \in 1 .. i : chain[j] = op.item
SearchInv ==
  /\ UniqueKeys
  /\ ops # << >> =>
       /\ Op.item # End => Op.item \in ToSet(buckets[Op.bucket])
       /\ Passed(buckets[Op.bucket], Op)

LEMMA LoneOp ==
  ASSUME IInv, SingleInv, ops # << >>
  PROVE  Len(ops) = 1 /\ Op = ops[1] /\ OtherOps = << >>
<1>1. Len(ops) \in Nat \ {0} /\ OtherOps \in Seq(OpRecords) /\ DOMAIN OtherOps = 1 .. Len(ops) - 1
  BY OpKnown
<1>2. Len(ops) = 1
  <2>1. Len(ops) \in Nat \ {0}
    BY OpKnown
  <2>2. Len(ops) <= 1
    BY DEF SingleInv
  <2>3. \A n \in Nat \ {0} : n <= 1 => n = 1
    OBVIOUS
  <2> QED BY <2>1, <2>2, <2>3
<1>3. Len(OtherOps) = 0
  BY <1>1, <1>2
<1> QED BY <1>1, <1>2, <1>3, EmptySeq DEF Op

LEMMA StartAlone ==
  ASSUME IInv, SingleInv, MaxNest = 1, NEW kind, NEW k \in Keys, NEW v, Start(kind, k, v)
  PROVE  /\ ops = << >> /\ ops' # << >> /\ Len(ops') = 1 /\ buckets' = buckets /\ items' = items
         /\ LET b == HashModulus(k, Len(buckets))
            IN  Op' = [kind |-> kind, key |-> k, value |-> v, bucket |-> b,
                       item |-> First(buckets[b])]
<1>1. ops = << >>
  <2>1. ops # << >> => Len(ops) < 1
    BY DEF Start, Callable
  <2> QED BY <2>1, LoneOp
<1> DEFINE b == HashModulus(k, Len(buckets))
           op == [kind |-> kind, key |-> k, value |-> v, bucket |-> b, item |-> First(buckets[b])]
<1>2. ops' = Append(ops, op) /\ buckets' = buckets /\ items' = items
  BY DEF Start
<1> HIDE DEF op
<1>3. ops' = << op >>
  BY <1>1, <1>2
<1>4. Len(ops') = 1 /\ ops'[1] = op /\ ops' # << >>
  BY <1>3
<1>5. Op' = op
  BY <1>4 DEF Op
<1> QED BY <1>1, <1>2, <1>4, <1>5 DEF op

LEMMA DiffersAlone ==
  ASSUME IInv, SingleInv, CompareDiffers
  PROVE  /\ ops # << >> /\ ops' # << >> /\ Len(ops') = 1 /\ buckets' = buckets /\ items' = items
         /\ Op.item # End /\ Class[Op.item.key] # Class[Op.key]
         /\ Op'.key = Op.key /\ Op'.bucket = Op.bucket /\ Op'.item = After(Op.item)
         /\ Op'.kind = Op.kind
<1>1. /\ ops # << >> /\ Op.item # End /\ Class[Op.item.key] # Class[Op.key]
      /\ ops' = [ops EXCEPT ![Len(ops)].item = After(Op.item)]
      /\ buckets' = buckets /\ items' = items
  BY DEF CompareDiffers, Searching, SameKey, SameClass, OldKey
<1>2. Len(ops) = 1 /\ Op = ops[1] /\ Op \in OpRecords /\ DOMAIN ops = 1 .. Len(ops)
  BY <1>1, LoneOp, OpKnown
<1>3. ops' = [ops EXCEPT ![1] = [Op EXCEPT !.item = After(Op.item)]] /\ ops \in Seq(OpRecords)
  BY <1>1, <1>2 DEF IInv, OpsInv
<1>4. Len(ops') = 1 /\ ops'[1] = [Op EXCEPT !.item = After(Op.item)]
  BY <1>2, <1>3
<1>5. Op' = [Op EXCEPT !.item = After(Op.item)] /\ ops' # << >>
  BY <1>4 DEF Op
<1> QED BY <1>1, <1>2, <1>4, <1>5 DEF OpRecords

LEMMA SingleStep ==
  ASSUME MaxNest = 1
  PROVE  IInv /\ SingleInv /\ [Next]_vars => SingleInv'
<1> SUFFICES ASSUME IInv, SingleInv, [Next]_vars PROVE SingleInv'
  OBVIOUS
<1>1. ASSUME ops # << >>, ops' = OtherOps, Own(buckets')
      PROVE  SingleInv'
  <2>1. ops' = << >>
    BY <1>1, LoneOp
  <2> QED BY <1>1, <2>1 DEF SingleInv
<1>2. ASSUME ops' = ops, buckets' = buckets
      PROVE  SingleInv'
  BY <1>2 DEF SingleInv, Op
<1>3. ASSUME NEW kind, NEW k \in Keys, NEW v, Start(kind, k, v)
      PROVE  SingleInv'
  <2>1. Len(ops') = 1 /\ buckets' = buckets
    BY <1>3, StartAlone
  <2>2. Op'.bucket = HashModulus(k, Len(buckets)) /\ Op'.key = k
    BY <1>3, StartAlone
  <2> QED BY <2>1, <2>2 DEF SingleInv
<1>4. CASE Call
  <2>1. ASSUME NEW k \in Keys, NEW kind, Reject(kind, k)
        PROVE  SingleInv'
    BY <1>2, <2>1 DEF Reject
  <2> QED BY <1>3, <1>4, <2>1 DEF Call
<1>5. CASE CompareFails \/ FoundSet \/ FoundGet \/ NotFound
  <2>1. ops # << >> /\ ops' = OtherOps /\ buckets' = buckets
    BY <1>5 DEF CompareFails, FoundSet, FoundGet, NotFound, Searching, Exhausted, Finish
  <2>2. Own(buckets')
    BY <2>1 DEF SingleInv
  <2> QED BY <1>1, <2>1, <2>2
<1>6. CASE CompareDiffers
  <2>1. /\ Len(ops') = 1 /\ Op.bucket = HashModulus(Op.key, Len(buckets)) /\ buckets' = buckets
        /\ Op'.key = Op.key /\ Op'.bucket = Op.bucket
    BY <1>6, DiffersAlone DEF SingleInv
  <2> QED BY <2>1 DEF SingleInv
<1>7. CASE FoundDelete
  <2>1. /\ ops # << >> /\ ops' = OtherOps
        /\ buckets' = [buckets EXCEPT ![Op.bucket] = Unlinked(@, Op.item)]
        /\ Op.kind = "delete" /\ Op.item # End
    BY <1>7 DEF FoundDelete, Searching, Finish
  <2>2. Op.bucket \in DOMAIN buckets /\ Op.item \in ToSet(buckets[Op.bucket])
    BY <2>1, OpKnown DEF OpFits
  <2>3. Own(buckets')
    BY <2>1, <2>2, UnlinkChained DEF SingleInv, IInv, TableInv
  <2> QED BY <1>1, <2>1, <2>3
<1>8. CASE Insert
  <2>1. PICK x \in ItemIds \ Stored :
          /\ x.key = Op.key /\ TargetBucket \in DOMAIN Grown
          /\ buckets' = [Grown EXCEPT ![TargetBucket] = << x >> \o @]
    BY <1>8, InsertKeepsIInv
  <2>2. ops # << >> /\ ops' = OtherOps
    BY <1>8 DEF Insert, Exhausted, Finish
  <2>3. Chained(Grown, Stored) /\ Own(Grown)
    BY GrownRoom DEF IInv, SingleInv
  <2>4. TargetBucket = HashModulus(Op.key, Len(Grown))
    BY <2>2 DEF TargetBucket, NewBucket, SingleInv, Grown
  <2>5. Own(buckets')
    BY <2>1, <2>3, <2>4, AddChained
  <2> QED BY <1>1, <2>2, <2>5
<1>9. CASE InsertFails
  <2>1. ops # << >> /\ ops' = OtherOps /\ buckets' \in {buckets, Grown}
    BY <1>9 DEF InsertFails, Exhausted, Finish
  <2>2. Own(buckets')
    BY <2>1, GrownRoom DEF IInv, SingleInv
  <2> QED BY <1>1, <2>1, <2>2
<1>10. CASE Iterate \/ UNCHANGED vars
  BY <1>2, <1>10 DEF Iterate, IterBegin, IterNext, vars
<1> QED BY <1>4, <1>5, <1>6, <1>7, <1>8, <1>9, <1>10 DEF Next, Search, Miss

LEMMA SingleInit == Init => SingleInv
<1> SUFFICES ASSUME Init PROVE SingleInv
  OBVIOUS
<1>1. \A b \in DOMAIN buckets : buckets[b] = << >> /\ ToSet(buckets[b]) = {}
  BY DEF Init, ToSet
<1> QED BY <1>1 DEF Init, SingleInv, Own

\* While there is one operation at a time, every chain has the items of its
\* bucket and none of the others.
THEOREM SingleInvariance ==
  ASSUME MaxNest = 1
  PROVE  Spec => []SingleInv
<1>1. IInv /\ SingleInv /\ [Next]_vars => SingleInv'
  BY SingleStep
<1> QED BY <1>1, SingleInit, Invariance, PTL DEF Spec

(***************************************************************************)
(* Every item is in the bucket where a search for its key looks            *)
(* (HASH_MODULUS of mapping.c), also after make_bigger, if no == begins    *)
(* another operation.                                                      *)
(***************************************************************************)
THEOREM KeysAreInOwnBucket ==
  ASSUME MaxNest = 1
  PROVE  Spec => []KeysInOwnBucket
<1>1. SingleInv => KeysInOwnBucket
  BY DEF SingleInv, Own, KeysInOwnBucket
<1> QED BY <1>1, SingleInvariance, PTL

-----------------------------------------------------------------------------
\* A search begins at the first item of its bucket, and goes on to the next.
LEMMA StartPasses ==
  ASSUME TableInv, NEW b \in DOMAIN buckets, NEW op, op.item = First(buckets[b])
  PROVE  Passed(buckets[b], op)
<1>1. buckets[b] \in Seq(ItemIds)
  BY DEF TableInv, Chained
<1>2. ASSUME NEW i \in DOMAIN buckets[b]
      PROVE  op.item # End /\ \E j \in 1 .. i : buckets[b][j] = op.item
  <2>1. 1 \in 1 .. i /\ 1 \in DOMAIN buckets[b] /\ buckets[b] # << >>
    BY <1>1, <1>2
  <2>2. op.item = buckets[b][1]
    BY <1>1, <2>1 DEF First
  <2>3. buckets[b][1] \in ItemIds
    BY <1>1, <2>1
  <2> QED BY <2>1, <2>2, <2>3, EndIsNoItem
<1> QED BY <1>2 DEF Passed

LEMMA NextPasses ==
  ASSUME TableInv, NEW b \in DOMAIN buckets, NEW op, NEW op2, Passed(buckets[b], op),
         op.item \in ToSet(buckets[b]), Class[op.item.key] # Class[op.key],
         op2.key = op.key, op2.item = After(op.item)
  PROVE  Passed(buckets[b], op2)
<1> DEFINE chain == buckets[b]
<1>1. /\ chain \in Seq(ItemIds) /\ DOMAIN chain = 1 .. Len(chain) /\ Len(chain) \in Nat
      /\ \A i, j \in 1 .. Len(chain) : chain[i] = chain[j] => i = j
  BY DEF TableInv, Chained, IsInjective
<1>2. PICK j \in DOMAIN chain : op.item = chain[j]
  BY DEF ToSet
<1>3. op2.item = IF j = Len(chain) THEN End ELSE chain[j + 1]
  BY <1>2, AfterItem DEF TableInv
<1> HIDE DEF chain
<1>4. ASSUME NEW i \in DOMAIN chain, Class[chain[i].key] = Class[op.key]
      PROVE  op2.item # End /\ \E l \in 1 .. i : chain[l] = op2.item
  <2>1. PICK l \in 1 .. i : chain[l] = op.item
    BY <1>4 DEF Passed, chain
  <2>2. l = j
    <3>1. l \in 1 .. Len(chain) /\ j \in 1 .. Len(chain)
      BY <1>1, <1>2, <2>1
    <3> QED BY <1>1, <1>2, <2>1, <3>1
  <2>3. i # j
    BY <1>2, <1>4
  <2>4. j + 1 \in 1 .. i /\ j # Len(chain) /\ j + 1 \in DOMAIN chain
    BY <1>1, <1>2, <2>1, <2>2, <2>3
  <2>5. op2.item = chain[j + 1] /\ chain[j + 1] \in ItemIds
    BY <1>1, <1>3, <2>4
  <2> QED BY <2>4, <2>5, EndIsNoItem
<1> QED BY <1>4 DEF Passed, chain

\* A search that has come to the end has met no equal key in the whole table.
LEMMA NoEqualKey ==
  ASSUME IInv, SingleInv, SearchInv, HashesAgree, ops # << >>, Op.item = End
  PROVE  \A y \in Stored : Class[y.key] # Class[Op.key]
<1> SUFFICES ASSUME NEW y \in Stored, Class[y.key] = Class[Op.key] PROVE FALSE
  OBVIOUS
<1>1. PICK b \in DOMAIN buckets : y \in ToSet(buckets[b])
  BY DEF IInv, TableInv, Chained
<1>2. y.key \in Keys /\ Op.key \in Keys
  BY OpKnown DEF Stored, ItemIds, OpRecords
<1>3. b = Op.bucket
  <2>1. b = HashModulus(y.key, Len(buckets)) /\ Op.bucket = HashModulus(Op.key, Len(buckets))
    BY <1>1 DEF SingleInv, Own
  <2>2. Hash[y.key] = Hash[Op.key]
    BY <1>2 DEF HashesAgree
  <2> QED BY <2>1, <2>2 DEF HashModulus
<1>4. PICK i \in DOMAIN buckets[b] : y = buckets[b][i]
  BY <1>1 DEF ToSet
<1> QED BY <1>3, <1>4 DEF SearchInv, Passed

LEMMA SearchStep ==
  ASSUME MaxNest = 1, HashesAgree
  PROVE  IInv /\ SingleInv /\ SearchInv /\ [Next]_vars => SearchInv'
<1> SUFFICES ASSUME IInv, SingleInv, SearchInv, [Next]_vars PROVE SearchInv'
  OBVIOUS
<1>1. ASSUME ops # << >>, ops' = OtherOps, Stored' \subseteq Stored
      PROVE  SearchInv'
  <2>1. ops' = << >>
    BY <1>1, LoneOp
  <2> QED BY <1>1, <2>1 DEF SearchInv, UniqueKeys
<1>2. ASSUME ops' = ops, buckets' = buckets, items' = items
      PROVE  SearchInv'
  <2>1. Stored' = Stored /\ Op' = Op
    BY <1>2 DEF Stored, Free, Op
  <2> QED BY <1>2, <2>1 DEF SearchInv, UniqueKeys
<1>3. ASSUME NEW kind \in {"set", "get", "delete"}, NEW k \in Keys,
             NEW v \in Values \cup {NoValue}, Start(kind, k, v)
      PROVE  SearchInv'
  <2> DEFINE b == HashModulus(k, Len(buckets))
  <2>1. ops' # << >> /\ buckets' = buckets /\ items' = items
    BY <1>3, StartAlone
  <2>2. Op'.bucket = b /\ Op'.item = First(buckets[b])
    BY <1>3, StartAlone
  <2>3. b \in DOMAIN buckets
    <3>1. b \in 1 .. Len(buckets) /\ DOMAIN buckets = 1 .. Len(buckets)
      BY ModulusInRange DEF IInv, TableInv, Chained
    <3> QED BY <3>1
  <2> HIDE DEF b
  <2>4. Passed(buckets[b], Op')
    BY <2>2, <2>3, StartPasses DEF IInv
  <2>5. Op'.item # End => Op'.item \in ToSet(buckets[b])
    BY <2>2, <2>3, FirstItem DEF IInv
  <2>6. UniqueKeys'
    BY <2>1 DEF SearchInv, UniqueKeys, Stored, Free
  <2> QED BY <2>1, <2>2, <2>4, <2>5, <2>6 DEF SearchInv
<1>4. CASE Call
  <2>1. ASSUME NEW k \in Keys, NEW kind, Reject(kind, k)
        PROVE  SearchInv'
    BY <1>2, <2>1 DEF Reject
  <2> QED BY <1>3, <1>4, <2>1 DEF Call
<1>5. CASE CompareFails \/ FoundGet \/ NotFound
  <2>1. ops # << >> /\ ops' = OtherOps /\ items' = items
    BY <1>5 DEF CompareFails, FoundGet, NotFound, Searching, Exhausted, Finish
  <2>2. Stored' = Stored
    BY <2>1 DEF Stored, Free
  <2> QED BY <1>1, <2>1, <2>2
<1>6. CASE CompareDiffers
  <2>1. /\ ops # << >> /\ ops' # << >> /\ buckets' = buckets /\ items' = items
        /\ Op.item # End /\ Class[Op.item.key] # Class[Op.key]
        /\ Op'.key = Op.key /\ Op'.bucket = Op.bucket /\ Op'.item = After(Op.item)
    BY <1>6, DiffersAlone
  <2>2. /\ Op.item \in ToSet(buckets[Op.bucket]) /\ Passed(buckets[Op.bucket], Op)
        /\ Op.bucket \in DOMAIN buckets
    BY <2>1, OpKnown DEF SearchInv, OpFits
  <2>3. Passed(buckets[Op.bucket], Op')
    BY <2>1, <2>2, NextPasses DEF IInv
  <2>4. After(Op.item) # End => After(Op.item) \in ToSet(buckets[Op.bucket])
    BY <2>2, NextItem DEF IInv
  <2>5. UniqueKeys'
    BY <2>1 DEF SearchInv, UniqueKeys, Stored, Free
  <2> QED BY <2>1, <2>3, <2>4, <2>5 DEF SearchInv
<1>7. CASE FoundSet
  BY <1>1, <1>7, FoundSetKeepsIInv DEF FoundSet, Searching, Finish
<1>8. CASE FoundDelete
  BY <1>1, <1>8, FoundDeleteKeepsIInv DEF FoundDelete, Searching, Finish
<1>9. CASE Insert
  <2>1. PICK x \in ItemIds \ Stored : x.key = Op.key /\ Stored' = Stored \cup {x}
    BY <1>9, InsertKeepsIInv
  <2>2. ops # << >> /\ ops' = OtherOps /\ Op.item = End
    BY <1>9 DEF Insert, Exhausted, Finish
  <2>3. ops' = << >>
    BY <2>2, LoneOp
  <2>4. \A y \in Stored : Class[y.key] # Class[x.key]
    BY <2>1, <2>2, NoEqualKey
  <2>5. \A y, z \in Stored : Class[y.key] = Class[z.key] => y = z
    BY DEF SearchInv, UniqueKeys
  <2>6. UniqueKeys'
    BY <2>1, <2>4, <2>5 DEF UniqueKeys
  <2> QED BY <2>3, <2>6 DEF SearchInv
<1>10. CASE InsertFails
  BY <1>1, <1>10, InsertFailsKeepsIInv DEF InsertFails, Exhausted, Finish
<1>11. CASE Iterate \/ UNCHANGED vars
  BY <1>2, <1>11 DEF Iterate, IterBegin, IterNext, vars
<1> QED BY <1>4, <1>5, <1>6, <1>7, <1>8, <1>9, <1>10, <1>11 DEF Next, Search, Miss

\* An operation in progress has not passed an item whose key equals its own,
\* and no two stored keys are equal.
THEOREM SearchInvariance ==
  ASSUME MaxNest = 1, HashesAgree
  PROVE  Spec => []SearchInv
<1>1. Init => SearchInv
  BY DEF Init, SearchInv, UniqueKeys, Stored, Free
<1>2. IInv /\ SingleInv /\ SearchInv /\ [Next]_vars => SearchInv'
  BY SearchStep
<1>3. Spec => []SingleInv
  BY SingleInvariance
<1> QED BY <1>1, <1>2, <1>3, Invariance, PTL DEF Spec

(***************************************************************************)
(* mapping.set adds a pair "or changes the value of a key that is already  *)
(* in the mapping" (docs/builtins.md:772): no key is stored twice, if      *)
(* equal keys have equal hashes and no == begins another operation.        *)
(***************************************************************************)
THEOREM KeysAreUnique ==
  ASSUME MaxNest = 1, HashesAgree
  PROVE  Spec => []UniqueKeys
<1>1. SearchInv => UniqueKeys
  BY DEF SearchInv
<1>2. Spec => []SearchInv
  BY SearchInvariance
<1> QED BY <1>1, <1>2, PTL

-----------------------------------------------------------------------------
(***************************************************************************)
(* Iteration.  What has been given is what the chains before the current   *)
(* one have and the current one has up to the current item.                *)
(***************************************************************************)
SeenUpTo(seen, b, j) ==
  /\ seen \in Seq(ItemIds) /\ IsInjective(seen)
  /\ \A x : x \in ToSet(seen) <=>
       \/ \E c \in 1 .. b - 1 : x \in ToSet(buckets[c])
       \/ \E i \in 1 .. j : x = buckets[b][i]
StandsAt(it, b, j) ==
  it.bucket = b /\ it.item = buckets[b][j] /\ SeenUpTo(it.seen, b, j)
IterInv ==
  /\ iter \in [on : BOOLEAN, bucket : Nat, item : ItemIds \cup {End}, seen : Seq(ItemIds)]
  /\ iter.on =>
       /\ ops # << >> => Op.kind = "get"
       /\ \/ iter.item = End /\ iter.seen = << >>
          \/ \E b \in DOMAIN buckets : \E j \in DOMAIN buckets[b] : StandsAt(iter, b, j)

LEMMA NonEmptyFromRange ==
  ASSUME TableInv, NEW b \in 1 .. Len(buckets) + 1
  PROVE  /\ NonEmptyFrom(b) \in b .. Len(buckets) + 1
         /\ NonEmptyFrom(b) <= Len(buckets) => buckets[NonEmptyFrom(b)] # << >>
         /\ \A c \in b .. NonEmptyFrom(b) - 1 : buckets[c] = << >>
<1> DEFINE n == Len(buckets)
           T == NonEmpty(b) \cup {n + 1}
<1>1. n \in Nat /\ b \in Nat
  BY DEF TableInv, Chained
<1> HIDE DEF n
<1>2. T \subseteq Nat /\ T # {} /\ T \subseteq b .. n + 1
  BY <1>1 DEF NonEmpty, n
<1>3. Min(T) \in T /\ \A y \in T : Min(T) <= y
  <2>1. \E x \in T : \A y \in T : x <= y
    BY <1>2, Least
  <2> QED BY <2>1 DEF Min
<1>4. NonEmptyFrom(b) = Min(T)
  BY DEF NonEmptyFrom, ThisOrLater, n
<1> DEFINE m == Min(T)
<1>5. m \in b .. n + 1 /\ m \in T /\ \A y \in T : m <= y
  BY <1>2, <1>3
<1> HIDE DEF m, T
<1>6. m <= n => buckets[m] # << >>
  BY <1>1, <1>5 DEF T, NonEmpty
<1>7. ASSUME NEW c \in b .. m - 1 PROVE buckets[c] = << >>
  <2>1. c \in b .. n /\ ~(m <= c)
    BY <1>1, <1>5
  <2>2. c \notin T
    BY <1>5, <2>1
  <2> QED BY <2>1, <2>2 DEF T, NonEmpty, n
<1> QED BY <1>4, <1>5, <1>6, <1>7 DEF m, n

\* The iteration goes to the first item from bucket b on, or ends.
LEMMA GoToKeeps ==
  ASSUME TableInv, IterInv, iter.on, NEW b \in 1 .. Len(buckets) + 1, SeenUpTo(iter.seen, b, 0),
         IterGoTo(NonEmptyFrom(b))
  PROVE  /\ ~iter'.on => ToSet(iter.seen) = Stored /\ Len(iter.seen) = Cardinality(Stored)
         /\ iter' \in [on : BOOLEAN, bucket : Nat, item : ItemIds \cup {End}, seen : Seq(ItemIds)]
         /\ iter'.on => \E c \in DOMAIN buckets : \E j \in DOMAIN buckets[c] : StandsAt(iter', c, j)
<1> DEFINE m == NonEmptyFrom(b)
           n == Len(buckets)
<1>1. /\ n \in Nat /\ DOMAIN buckets = 1 .. n /\ b \in Nat
      /\ \A c \in 1 .. n : buckets[c] \in Seq(ItemIds)
  BY DEF TableInv, Chained
<1>2. /\ m \in b .. n + 1 /\ (m <= n => buckets[m] # << >>)
      /\ \A c \in b .. m - 1 : buckets[c] = << >>
  BY NonEmptyFromRange
<1>3. ToSet(<< >>) = {}
  BY DEF ToSet
<1>4. iter' = IF m > n THEN [iter EXCEPT !.on = FALSE]
              ELSE [iter EXCEPT !.bucket = m, !.item = Head(buckets[m]),
                                !.seen = Append(@, Head(buckets[m]))]
  BY DEF IterGoTo
<1> HIDE DEF m, n
<1>5. iter.seen \in Seq(ItemIds) /\ IsInjective(iter.seen)
  BY DEF SeenUpTo
<1>6. \A x : x \in ToSet(iter.seen) <=> \E c \in 1 .. m - 1 : x \in ToSet(buckets[c])
  <2>1. \A x : x \in ToSet(iter.seen) <=> \E c \in 1 .. b - 1 : x \in ToSet(buckets[c])
    BY DEF SeenUpTo
  <2>2. \A c : c \in 1 .. m - 1 <=> c \in 1 .. b - 1 \/ c \in b .. m - 1
    BY <1>1, <1>2
  <2> QED BY <1>2, <1>3, <2>1, <2>2
<1>7. CASE m > n
  <2>1. iter' = [iter EXCEPT !.on = FALSE] /\ m - 1 = n
    BY <1>1, <1>2, <1>4, <1>7
  <2>2. ToSet(iter.seen) = Stored
    BY <1>1, <1>6, <2>1 DEF TableInv, Chained
  <2>3. Len(iter.seen) = Cardinality(Stored)
    BY <1>5, <2>2, InjectiveLength
  <2> QED BY <2>1, <2>2, <2>3 DEF IterInv
<1>8. CASE ~(m > n)
  <2>1. m \in 1 .. n /\ m \in Nat /\ buckets[m] # << >> /\ buckets[m] \in Seq(ItemIds)
    BY <1>1, <1>2, <1>8
  <2> DEFINE x == buckets[m][1]
  <2>2. 1 \in DOMAIN buckets[m] /\ x = Head(buckets[m]) /\ x \in ItemIds /\ x \in ToSet(buckets[m])
    <3>1. 1 \in DOMAIN buckets[m] /\ x = Head(buckets[m]) /\ x \in ItemIds
      BY <2>1
    <3> QED BY <3>1 DEF ToSet
  <2> HIDE DEF x
  <2>3. iter' = [iter EXCEPT !.bucket = m, !.item = x, !.seen = Append(@, x)]
    BY <1>4, <1>8, <2>2
  <2>4. /\ iter'.on = iter.on /\ iter'.bucket = m /\ iter'.item = x
        /\ iter'.seen = Append(iter.seen, x) /\ iter.on \in BOOLEAN
    BY <2>3 DEF IterInv
  <2>5. x \notin ToSet(iter.seen)
    <3>1. \A c \in 1 .. m - 1 : c \in 1 .. n /\ c # m
      BY <1>1, <2>1
    <3>2. \A c \in 1 .. n : c # m => ToSet(buckets[c]) \cap ToSet(buckets[m]) = {}
      BY <1>1, <2>1 DEF TableInv, Chained
    <3> QED BY <1>6, <2>2, <3>1, <3>2
  <2>6. /\ Append(iter.seen, x) \in Seq(ItemIds) /\ IsInjective(Append(iter.seen, x))
        /\ ToSet(Append(iter.seen, x)) = ToSet(iter.seen) \cup {x}
    BY <1>5, <2>2, <2>5, AppendElements
  <2>7. \A y : y \in ToSet(Append(iter.seen, x)) <=>
          \/ \E c \in 1 .. m - 1 : y \in ToSet(buckets[c])
          \/ \E i \in 1 .. 1 : y = buckets[m][i]
    BY <1>6, <2>6 DEF x
  <2>8. SeenUpTo(iter'.seen, m, 1)
    BY <2>4, <2>6, <2>7 DEF SeenUpTo
  <2>9. StandsAt(iter', m, 1)
    BY <2>4, <2>8 DEF StandsAt, x
  <2>10. iter' \in [on : BOOLEAN, bucket : Nat, item : ItemIds \cup {End}, seen : Seq(ItemIds)]
    BY <2>1, <2>2, <2>3, <2>6 DEF IterInv
  <2>11. iter'.on
    BY <2>4
  <2>12. \E c \in DOMAIN buckets : \E j \in DOMAIN buckets[c] : StandsAt(iter', c, j)
    BY <1>1, <2>1, <2>2, <2>9
  <2> QED BY <2>10, <2>11, <2>12
<1> QED BY <1>7, <1>8

LEMMA NextKeepsIter ==
  ASSUME TableInv, IterInv, IterNext
  PROVE  /\ ~iter'.on => ToSet(iter.seen) = Stored /\ Len(iter.seen) = Cardinality(Stored)
         /\ IterInv'
<1> DEFINE n == Len(buckets)
<1>1. /\ iter.on /\ ops = << >> /\ ops' = ops /\ buckets' = buckets /\ items' = items
      /\ iter.on \in BOOLEAN
  BY DEF IterNext, IterInv
<1>2. /\ n \in Nat /\ n \in Nat \ {0} /\ DOMAIN buckets = 1 .. n
      /\ \A c \in 1 .. n : buckets[c] \in Seq(ItemIds)
  BY DEF TableInv, Chained
<1>3. SUFFICES
        /\ ~iter'.on => ToSet(iter.seen) = Stored /\ Len(iter.seen) = Cardinality(Stored)
        /\ iter' \in [on : BOOLEAN, bucket : Nat, item : ItemIds \cup {End}, seen : Seq(ItemIds)]
        /\ iter'.on => \E c \in DOMAIN buckets : \E j \in DOMAIN buckets[c] : StandsAt(iter', c, j)
  <2> SUFFICES ASSUME
        /\ iter' \in [on : BOOLEAN, bucket : Nat, item : ItemIds \cup {End}, seen : Seq(ItemIds)]
        /\ iter'.on => \E c \in DOMAIN buckets : \E j \in DOMAIN buckets[c] : StandsAt(iter', c, j)
               PROVE IterInv'
    OBVIOUS
  <2>1. \A c, j : SeenUpTo(iter'.seen, c, j) => SeenUpTo(iter.seen, c, j)'
    BY <1>1 DEF SeenUpTo
  <2> QED BY <1>1, <2>1 DEF IterInv, StandsAt
<1> HIDE DEF n
<1>4. CASE iter.item = End
  <2>1. IterGoTo(NonEmptyFrom(1))
    BY <1>4 DEF IterNext
  <2>2. iter.seen = << >>
    BY <1>1, <1>4, <1>2, EndIsNoItem DEF IterInv, StandsAt
  <2>3. SeenUpTo(<< >>, 1, 0)
    <3>1. ToSet(<< >>) = {} /\ IsInjective(<< >>) /\ << >> \in Seq(ItemIds)
      BY DEF ToSet, IsInjective
    <3> QED BY <3>1 DEF SeenUpTo
  <2>4. SeenUpTo(iter.seen, 1, 0) /\ 1 \in 1 .. Len(buckets) + 1
    BY <1>2, <2>2, <2>3 DEF n
  <2> QED BY <1>1, <2>1, <2>4, GoToKeeps
<1>5. CASE iter.item # End
  <2>0. PICK b \in DOMAIN buckets : \E j \in DOMAIN buckets[b] : StandsAt(iter, b, j)
    BY <1>1, <1>5 DEF IterInv
  <2>1. PICK j \in DOMAIN buckets[b] : StandsAt(iter, b, j)
    BY <2>0
  <2>2. iter.bucket = b /\ iter.item = buckets[b][j] /\ SeenUpTo(iter.seen, b, j)
    BY <2>1 DEF StandsAt
  <2>3. /\ b \in 1 .. n /\ b \in Nat /\ buckets[b] \in Seq(ItemIds)
        /\ DOMAIN buckets[b] = 1 .. Len(buckets[b]) /\ j \in Nat /\ Len(buckets[b]) \in Nat
    BY <1>2
  <2>4. After(iter.item) = IF j = Len(buckets[b]) THEN End ELSE buckets[b][j + 1]
    BY <2>2, AfterItem DEF TableInv
  <2>5. CASE j = Len(buckets[b])
    <3>1. IterGoTo(NonEmptyFrom(b + 1))
      BY <1>5, <2>2, <2>4, <2>5 DEF IterNext
    <3>2. /\ b + 1 \in 1 .. Len(buckets) + 1 /\ (b + 1) - 1 = b
          /\ \A c : c \in 1 .. b <=> c \in 1 .. b - 1 \/ c = b
      BY <1>2, <2>3 DEF n
    <3>3. ASSUME NEW x
          PROVE  x \in ToSet(iter.seen) <=> \E c \in 1 .. b : x \in ToSet(buckets[c])
      <4>1. x \in ToSet(buckets[b]) <=> \E i \in 1 .. j : x = buckets[b][i]
        BY <2>3, <2>5 DEF ToSet
      <4> QED BY <2>2, <3>2, <4>1 DEF SeenUpTo
    <3>4. SeenUpTo(iter.seen, b + 1, 0)
      BY <2>2, <3>2, <3>3 DEF SeenUpTo
    <3> QED BY <1>1, <3>1, <3>2, <3>4, GoToKeeps
  <2>6. CASE j # Len(buckets[b])
    <3> DEFINE x == buckets[b][j + 1]
    <3>1. j + 1 \in DOMAIN buckets[b] /\ x \in ItemIds /\ After(iter.item) = x
      <4>1. j \in 1 .. Len(buckets[b])
        BY <2>3
      <4>2. \A m \in Nat : \A i \in 1 .. m : i # m => i + 1 \in 1 .. m
        OBVIOUS
      <4>3. j + 1 \in DOMAIN buckets[b]
        BY <2>3, <2>6, <4>1, <4>2
      <4>4. x \in ItemIds
        BY <2>3, <4>3
      <4>5. After(iter.item) = x
        BY <2>4, <2>6
      <4> QED BY <4>3, <4>4, <4>5
    <3>2. iter' = [iter EXCEPT !.item = x, !.seen = Append(@, x)]
      BY <1>5, <3>1, EndIsNoItem DEF IterNext
    <3>3. x \notin ToSet(iter.seen)
      <4>1. x \in ToSet(buckets[b])
        BY <3>1 DEF ToSet
      <4>2. \A c \in 1 .. b - 1 : c \in 1 .. n /\ c # b
        BY <1>2, <2>3
      <4>3. \A c \in 1 .. n : c # b => ToSet(buckets[c]) \cap ToSet(buckets[b]) = {}
        BY <1>2 DEF TableInv, Chained
      <4>4. \A c \in 1 .. b - 1 : x \notin ToSet(buckets[c])
        BY <4>1, <4>2, <4>3
      <4>5. \A i \in 1 .. j : i \in 1 .. Len(buckets[b]) /\ i # j + 1
        BY <2>3
      <4>6. \A i \in 1 .. j : x # buckets[b][i]
        BY <2>3, <3>1, <4>5 DEF TableInv, Chained, IsInjective
      <4> HIDE DEF x
      <4> QED BY <2>2, <4>4, <4>6 DEF SeenUpTo
    <3>4. /\ Append(iter.seen, x) \in Seq(ItemIds) /\ IsInjective(Append(iter.seen, x))
          /\ ToSet(Append(iter.seen, x)) = ToSet(iter.seen) \cup {x}
      BY <2>2, <3>1, <3>3, AppendElements DEF SeenUpTo
    <3>5. \A i : i \in 1 .. j + 1 <=> i \in 1 .. j \/ i = j + 1
      BY <2>3
    <3>6. \A y : y \in ToSet(Append(iter.seen, x)) <=>
            \/ \E c \in 1 .. b - 1 : y \in ToSet(buckets[c])
            \/ \E i \in 1 .. j + 1 : y = buckets[b][i]
      BY <2>2, <3>4, <3>5 DEF SeenUpTo
    <3>7. SeenUpTo(Append(iter.seen, x), b, j + 1)
      BY <3>4, <3>6 DEF SeenUpTo
    <3>8. /\ iter' \in [on : BOOLEAN, bucket : Nat, item : ItemIds \cup {End}, seen : Seq(ItemIds)]
          /\ iter'.on = iter.on /\ iter'.bucket = iter.bucket /\ iter'.item = x
          /\ iter'.seen = Append(iter.seen, x)
      BY <3>1, <3>2, <3>4 DEF IterInv
    <3>9. StandsAt(iter', b, j + 1)
      BY <2>2, <3>7, <3>8 DEF StandsAt
    <3> HIDE DEF x
    <3> QED BY <1>1, <3>1, <3>8, <3>9
  <2> QED BY <2>5, <2>6
<1> QED BY <1>4, <1>5

LEMMA IterStep ==
  ASSUME MaxNest = 1
  PROVE  IInv /\ SingleInv /\ IterInv /\ [Next]_vars => IterInv'
<1> SUFFICES ASSUME IInv, SingleInv, IterInv, [Next]_vars PROVE IterInv'
  OBVIOUS
<1>1. ASSUME iter' = iter, buckets' = buckets, ops' = << >> \/ (Op'.kind = Op.kind /\ ops # << >>)
      PROVE  IterInv'
  <2>1. \A s, c, j : SeenUpTo(s, c, j) <=> SeenUpTo(s, c, j)'
    BY <1>1 DEF SeenUpTo
  <2> QED BY <1>1, <2>1 DEF IterInv, StandsAt
<1>2. ASSUME iter' = iter, ~iter.on
      PROVE  IterInv'
  BY <1>2 DEF IterInv
<1>3. ASSUME NEW kind, NEW k \in Keys, NEW v, Start(kind, k, v)
      PROVE  IterInv'
  <2>1. iter' = iter /\ buckets' = buckets /\ (iter.on => kind = "get")
    BY <1>3, StartAlone DEF Start, Callable
  <2>2. Op'.kind = kind
    BY <1>3, StartAlone
  <2>3. \A s, c, j : SeenUpTo(s, c, j) <=> SeenUpTo(s, c, j)'
    BY <2>1 DEF SeenUpTo
  <2> QED BY <2>1, <2>2, <2>3 DEF IterInv, StandsAt
<1>4. ASSUME ops # << >>, ops' = OtherOps, iter' = iter, buckets' = buckets
      PROVE  IterInv'
  BY <1>1, <1>4, LoneOp
<1>5. ASSUME ops' = ops, iter' = iter, buckets' = buckets
      PROVE  IterInv'
  BY <1>1, <1>5 DEF Op
<1>6. CASE Call
  <2>1. ASSUME NEW k \in Keys, NEW kind, Reject(kind, k)
        PROVE  IterInv'
    BY <1>5, <2>1 DEF Reject
  <2> QED BY <1>3, <1>6, <2>1 DEF Call
<1>7. CASE CompareFails \/ FoundSet \/ FoundGet \/ NotFound
  BY <1>4, <1>7 DEF CompareFails, FoundSet, FoundGet, NotFound, Searching, Exhausted, Finish
<1>8. CASE CompareDiffers
  <2>1. iter' = iter /\ buckets' = buckets /\ Op'.kind = Op.kind /\ ops # << >>
    BY <1>8, DiffersAlone DEF CompareDiffers
  <2> QED BY <1>1, <2>1
<1>9. CASE FoundDelete \/ Insert \/ InsertFails
  <2>1. iter' = iter /\ ops # << >> /\ Op.kind \in {"set", "delete"}
    BY <1>9 DEF FoundDelete, Insert, InsertFails, Searching, Exhausted
  <2> QED BY <1>2, <2>1 DEF IterInv
<1>10. CASE IterBegin
  <2>1. iter' = [NotIterating EXCEPT !.on = TRUE] /\ ops' = << >>
    BY <1>10 DEF IterBegin
  <2>2. iter' = [on |-> TRUE, bucket |-> 1, item |-> End, seen |-> << >>]
    BY <2>1 DEF NotIterating
  <2>3. /\ iter' \in [on : BOOLEAN, bucket : Nat, item : ItemIds \cup {End}, seen : Seq(ItemIds)]
        /\ iter'.item = End /\ iter'.seen = << >>
    BY <2>2
  <2> QED BY <2>1, <2>3 DEF IterInv
<1>11. CASE IterNext
  BY <1>11, NextKeepsIter DEF IInv
<1>12. CASE UNCHANGED vars
  BY <1>5, <1>12 DEF vars
<1> QED BY <1>6, <1>7, <1>8, <1>9, <1>10, <1>11, <1>12 DEF Next, Search, Miss, Iterate

(***************************************************************************)
(* An iteration gives every item of the mapping, and gives it once         *)
(* (mapping.c, mappingobject_iternext), if no == begins another operation. *)
(***************************************************************************)
THEOREM IterationIsComplete ==
  ASSUME MaxNest = 1
  PROVE  Spec => IterationComplete
<1>1. Init => IterInv
  BY DEF Init, IterInv, NotIterating
<1>2. IInv /\ SingleInv /\ IterInv /\ [Next]_vars => IterInv'
  BY IterStep
<1>3. IInv /\ IterInv /\ [Next]_vars =>
        [iter.on /\ ~iter'.on =>
           ToSet(iter.seen) = Stored /\ Len(iter.seen) = Cardinality(Stored)]_vars
  <2> SUFFICES ASSUME IInv, IterInv, Next, iter.on, ~iter'.on
               PROVE  ToSet(iter.seen) = Stored /\ Len(iter.seen) = Cardinality(Stored)
    OBVIOUS
  <2>1. CASE IterNext
    BY <2>1, NextKeepsIter DEF IInv
  <2>2. CASE IterBegin
    BY <2>2 DEF IterBegin
  <2>3. CASE Call \/ Search \/ Miss
    <3>1. iter' = iter
      BY <2>3 DEF Call, Search, Miss, Start, Reject, CompareFails, CompareDiffers, FoundSet,
                  FoundGet, FoundDelete, NotFound, Insert, InsertFails
    <3> QED BY <3>1
  <2> QED BY <2>1, <2>2, <2>3 DEF Next, Iterate
<1>4. Spec => []SingleInv
  BY SingleInvariance
<1> QED BY <1>1, <1>2, <1>3, <1>4, Invariance, PTL DEF Spec, IterationComplete

-----------------------------------------------------------------------------
(***************************************************************************)
(* A Mapping is a finite map: the steps of FiniteMap.                      *)
(***************************************************************************)
MapOf(S, its) ==
  [c \in {Class[x.key] : x \in S} |-> its[CHOOSE x \in S : Class[x.key] = c]]
Unique(S) == \A x, y \in S : Class[x.key] = Class[y.key] => x = y

Put(m, c, v) == [l \in DOMAIN m \cup {c} |-> IF l = c THEN v ELSE m[l]]
Without(m, c) == [l \in DOMAIN m \ {c} |-> m[l]]

\* T and new are S and its after an item x was written, or taken out.
Adds(S, its, T, new, x) ==
  /\ Unique(T) /\ \A y : y \in T <=> y \in S \/ y = x
  /\ \A y \in S : y # x => new[y] = its[y]
Drops(S, its, T, new, x) ==
  /\ Unique(S) /\ x \in S /\ \A y : y \in T <=> y \in S /\ y # x
  /\ \A y \in S : y # x => new[y] = its[y]

LEMMA MapValue ==
  ASSUME NEW S, NEW its, Unique(S), NEW x \in S
  PROVE  Class[x.key] \in DOMAIN MapOf(S, its) /\ MapOf(S, its)[Class[x.key]] = its[x]
<1>1. (CHOOSE y \in S : Class[y.key] = Class[x.key]) = x
  BY DEF Unique
<1> QED BY <1>1 DEF MapOf

LEMMA MapPut ==
  ASSUME NEW S, NEW its, NEW T, NEW new, NEW x, Adds(S, its, T, new, x)
  PROVE  MapOf(T, new) = Put(MapOf(S, its), Class[x.key], new[x])
<1> DEFINE D == DOMAIN MapOf(S, its) \cup {Class[x.key]}
<1> USE DEF Adds
<1>2. Unique(S)
  BY DEF Unique
<1>3. DOMAIN MapOf(T, new) = D
  BY DEF MapOf
<1>4. ASSUME NEW l \in D
      PROVE  MapOf(T, new)[l] = IF l = Class[x.key] THEN new[x] ELSE MapOf(S, its)[l]
  <2>1. PICK y \in T : l = Class[y.key]
    BY <1>4 DEF MapOf
  <2>2. MapOf(T, new)[l] = new[y]
    BY <2>1, MapValue
  <2>3. CASE y = x
    BY <2>1, <2>2, <2>3
  <2>4. CASE y # x
    <3>1. y \in S /\ l # Class[x.key]
      BY <2>1, <2>4 DEF Unique
    <3>2. MapOf(S, its)[l] = its[y]
      BY <1>2, <2>1, <3>1, MapValue
    <3> QED BY <2>2, <2>4, <3>1, <3>2
  <2> QED BY <2>3, <2>4
<1>5. MapOf(T, new) = [l \in D |-> MapOf(T, new)[l]]
  BY <1>3 DEF MapOf
<1> HIDE DEF D
<1>6. MapOf(T, new) = [l \in D |-> IF l = Class[x.key] THEN new[x] ELSE MapOf(S, its)[l]]
  BY <1>4, <1>5
<1> QED BY <1>6 DEF D, Put

LEMMA MapDrop ==
  ASSUME NEW S, NEW its, NEW T, NEW new, NEW x, Drops(S, its, T, new, x)
  PROVE  MapOf(T, new) = Without(MapOf(S, its), Class[x.key])
<1> DEFINE D == DOMAIN MapOf(S, its) \ {Class[x.key]}
<1> USE DEF Drops
<1>1. \A y \in T : y \in S /\ new[y] = its[y]
  OBVIOUS
<1>2. Unique(T)
  BY DEF Unique
<1>3. DOMAIN MapOf(T, new) = D
  <2>1. \A y \in S : Class[y.key] # Class[x.key] <=> y \in T
    BY DEF Unique
  <2> QED BY <2>1 DEF MapOf
<1>4. ASSUME NEW l \in D
      PROVE  MapOf(T, new)[l] = MapOf(S, its)[l]
  <2>1. PICK y \in T : l = Class[y.key]
    BY <1>3, <1>4 DEF MapOf
  <2>2. MapOf(T, new)[l] = new[y]
    BY <1>2, <2>1, MapValue
  <2>3. MapOf(S, its)[l] = its[y]
    BY <1>1, <2>1, MapValue
  <2> QED BY <1>1, <2>2, <2>3
<1>5. MapOf(T, new) = [l \in D |-> MapOf(T, new)[l]]
  BY <1>3 DEF MapOf
<1> HIDE DEF D
<1>6. MapOf(T, new) = [l \in D |-> MapOf(S, its)[l]]
  BY <1>4, <1>5
<1> QED BY <1>6 DEF D, Without

LEMMA MapNow ==
  /\ AbstractMap = MapOf(Stored, items) /\ AbstractMap' = MapOf(Stored', items')
  /\ UniqueKeys <=> Unique(Stored)
  /\ UniqueKeys' <=> Unique(Stored')
BY DEF AbstractMap, MapOf, UniqueKeys, Unique

LEMMA MapSame == ASSUME items' = items PROVE AbstractMap' = AbstractMap
BY DEF AbstractMap, Stored, Free

\* The step that stores the value v in the item x, and the one that removes x.
LEMMA StepPuts ==
  ASSUME NEW x, Adds(Stored, items, Stored', items', x)
  PROVE  AbstractMap' = Put(AbstractMap, Class[x.key], items'[x])
BY MapPut, MapNow

LEMMA StepDrops ==
  ASSUME NEW x, Drops(Stored, items, Stored', items', x)
  PROVE  AbstractMap' = Without(AbstractMap, Class[x.key])
BY MapDrop, MapNow

\* An operation that ends answers with its own kind and the class of its key.
LEMMA KeyClass ==
  ASSUME IInv, ops # << >>
  PROVE  /\ Class[Op.key] \in {Class[k] : k \in Keys} /\ Op.kind \in {"set", "get", "delete"}
         /\ (Op.item # End => Op.item \in Stored /\ Op.item \in ItemIds)
         /\ (Op.kind = "set" => Op.value \in Values)
BY OpKnown DEF OpRecords, OpFits, Stored

LEMMA FoundRefines ==
  ASSUME IInv, SearchInv, SearchInv', FoundSet \/ FoundGet \/ FoundDelete
  PROVE  Abstract!Next
<1> DEFINE c == Class[Op.key]
           x == Op.item
<1>1. /\ ops # << >> /\ x # End /\ Class[x.key] = c
  BY DEF FoundSet, FoundGet, FoundDelete, Searching, SameKey, SameClass, OldKey
<1>2. /\ c \in {Class[k] : k \in Keys} /\ x \in Stored /\ x \in ItemIds
      /\ (Op.kind = "set" => Op.value \in Values)
  BY <1>1, KeyClass
<1>3. /\ Stored \in SUBSET ItemIds /\ DOMAIN items = ItemIds
      /\ Unique(Stored) /\ Unique(Stored')
  BY MapNow DEF IInv, TableInv, SearchInv, Stored
<1>4. c \in DOMAIN AbstractMap /\ AbstractMap[c] = items[x]
  BY <1>1, <1>2, <1>3, MapNow, MapValue
<1> HIDE DEF c, x
<1>5. CASE FoundSet
  <2>1. /\ items' = [items EXCEPT ![x] = Op.value] /\ Op.kind = "set"
        /\ reply' = [op |-> "set", key |-> c, status |-> "ok", value |-> NoValue]
    BY <1>5 DEF FoundSet, Finish, Answer, c, x
  <2>2. Stored' = Stored \cup {x} /\ Unique(Stored \cup {x})
    BY <1>2, <1>3, <1>5, FoundSetKeepsIInv
  <2>3. AbstractMap' = [l \in DOMAIN AbstractMap \cup {c} |->
                          IF l = c THEN Op.value ELSE AbstractMap[l]]
    <3>1. Adds(Stored, items, Stored', items', x) /\ items'[x] = Op.value
      BY <1>2, <1>3, <2>1, <2>2 DEF Adds
    <3>2. AbstractMap' = Put(AbstractMap, c, Op.value)
      BY <1>1, <1>3, <3>1, StepPuts
    <3> QED BY <3>2 DEF Put
  <2>4. Abstract!Set(c, Op.value)
    BY <2>1, <2>3 DEF Abstract!Set, Abstract!Answer
  <2> QED BY <1>2, <2>1, <2>4 DEF Abstract!Next
<1>6. CASE FoundGet
  <2>1. /\ items' = items
        /\ reply' = [op |-> "get", key |-> c, status |-> "ok", value |-> items[x]]
    BY <1>6 DEF FoundGet, Finish, Answer, c, x
  <2>2. Abstract!Get(c)
    BY <1>4, <2>1, MapSame DEF Abstract!Get, Abstract!Answer
  <2> QED BY <1>2, <2>2 DEF Abstract!Next
<1>7. CASE FoundDelete
  <2>1. /\ items' = [items EXCEPT ![x] = NoValue]
        /\ reply' = [op |-> "delete", key |-> c, status |-> "ok", value |-> items[x]]
    BY <1>7 DEF FoundDelete, Finish, Answer, c, x
  <2>2. Stored' = Stored \ {x}
    BY <1>7, FoundDeleteKeepsIInv DEF x
  <2>3. AbstractMap' = [l \in DOMAIN AbstractMap \ {c} |-> AbstractMap[l]]
    <3>1. Drops(Stored, items, Stored', items', x)
      BY <1>2, <1>3, <2>1, <2>2 DEF Drops
    <3>2. AbstractMap' = Without(AbstractMap, c)
      BY <1>1, <1>2, <1>3, <3>1, StepDrops
    <3> QED BY <3>2 DEF Without
  <2>4. Abstract!GetAndDelete(c)
    BY <1>4, <2>1, <2>3 DEF Abstract!GetAndDelete, Abstract!Answer
  <2> QED BY <1>2, <2>4 DEF Abstract!Next
<1> QED BY <1>5, <1>6, <1>7

LEMMA MissRefines ==
  ASSUME IInv, SingleInv, SearchInv, SearchInv', HashesAgree, NotFound \/ Insert \/ InsertFails
  PROVE  Abstract!Next
<1> DEFINE c == Class[Op.key]
<1>1. ops # << >> /\ Op.item = End
  BY DEF NotFound, Insert, InsertFails, Exhausted
<1>2. /\ c \in {Class[k] : k \in Keys} /\ (Op.kind = "set" => Op.value \in Values)
  BY <1>1, KeyClass
<1>3. c \notin DOMAIN AbstractMap
  BY <1>1, NoEqualKey DEF AbstractMap
<1> HIDE DEF c
<1>4. CASE NotFound
  <2>1. /\ items' = items /\ Op.kind \in {"get", "delete"}
        /\ reply' = [op |-> Op.kind, key |-> c, status |-> "missing", value |-> NoValue]
    BY <1>4 DEF NotFound, Exhausted, Finish, Answer, c
  <2>2. Abstract!NotFound(Op.kind, c)
    BY <1>3, <2>1, MapSame DEF Abstract!NotFound, Abstract!Answer
  <2> QED BY <1>2, <2>1, <2>2 DEF Abstract!Next
<1>5. CASE Insert
  <2>1. PICK x \in ItemIds \ Stored :
          /\ x.key = Op.key /\ Stored' = Stored \cup {x}
          /\ items' = [items EXCEPT ![x] = Op.value]
    BY <1>5, InsertKeepsIInv
  <2>2. /\ Op.kind = "set"
        /\ reply' = [op |-> "set", key |-> c, status |-> "ok", value |-> NoValue]
    BY <1>5 DEF Insert, Exhausted, Finish, Answer, c
  <2>3. /\ Stored \in SUBSET ItemIds /\ DOMAIN items = ItemIds /\ Unique(Stored')
        /\ Class[x.key] = c
    BY <2>1, MapNow DEF IInv, TableInv, SearchInv, Stored, c
  <2>4. AbstractMap' = [l \in DOMAIN AbstractMap \cup {c} |->
                          IF l = c THEN Op.value ELSE AbstractMap[l]]
    <3>1. Adds(Stored, items, Stored', items', x) /\ items'[x] = Op.value
      BY <2>1, <2>3 DEF Adds
    <3>2. AbstractMap' = Put(AbstractMap, c, Op.value)
      BY <2>3, <3>1, StepPuts
    <3> QED BY <3>2 DEF Put
  <2>5. Abstract!Set(c, Op.value)
    BY <2>2, <2>4 DEF Abstract!Set, Abstract!Answer
  <2> QED BY <1>2, <2>2, <2>5 DEF Abstract!Next
<1>6. CASE InsertFails
  <2>1. /\ items' = items
        /\ reply' = [op |-> "set", key |-> c, status |-> "error", value |-> NoValue]
    BY <1>6 DEF InsertFails, Exhausted, Finish, Answer, c
  <2>2. Abstract!Fail("set", c)
    BY <2>1, MapSame DEF Abstract!Fail, Abstract!Answer
  <2> QED BY <1>2, <2>2 DEF Abstract!Next
<1> QED BY <1>4, <1>5, <1>6

LEMMA StepRefines ==
  ASSUME HashesAgree
  PROVE  IInv /\ SingleInv /\ SearchInv /\ SearchInv' /\ [Next]_vars =>
           [Abstract!Next]_(Abstract!vars)
<1> SUFFICES ASSUME IInv, SingleInv, SearchInv, SearchInv', [Next]_vars
             PROVE  Abstract!Next \/ UNCHANGED Abstract!vars
  OBVIOUS
<1>1. ASSUME items' = items, reply' = NoReply
      PROVE  Abstract!Next
  <2>1. Abstract!Begin
    BY <1>1, MapSame DEF Abstract!Begin, Abstract!NoReply, Abstract!Answer, NoReply
  <2> QED BY <2>1 DEF Abstract!Next
<1>2. ASSUME items' = items, reply' = reply
      PROVE  UNCHANGED Abstract!vars
  BY <1>2, MapSame DEF Abstract!vars
<1>3. ASSUME items' = items, NEW op \in {"set", "get", "delete"}, NEW k \in Keys,
             reply' = Answer(op, k, "error", NoValue)
      PROVE  Abstract!Next
  <2>1. Abstract!Fail(op, Class[k])
    BY <1>3, MapSame DEF Abstract!Fail, Abstract!Answer, Answer
  <2> QED BY <2>1 DEF Abstract!Next
<1>4. CASE Call
  <2>1. ASSUME NEW kind, NEW k \in Keys, NEW v, Start(kind, k, v)
        PROVE  Abstract!Next
    BY <1>1, <2>1 DEF Start
  <2>2. ASSUME NEW kind \in {"set", "get", "delete"}, NEW k \in Keys, Reject(kind, k)
        PROVE  Abstract!Next
    BY <1>3, <2>2 DEF Reject
  <2> QED BY <1>4, <2>1, <2>2 DEF Call
<1>5. CASE CompareFails
  <2>1. ops # << >> /\ items' = items /\ reply' = Answer(Op.kind, Op.key, "error", NoValue)
    BY <1>5 DEF CompareFails, Searching, Finish
  <2>2. Op.kind \in {"set", "get", "delete"} /\ Op.key \in Keys
    BY <2>1, OpKnown DEF OpRecords
  <2> QED BY <1>3, <2>1, <2>2
<1>6. CASE CompareDiffers
  BY <1>2, <1>6 DEF CompareDiffers
<1>7. CASE FoundSet \/ FoundGet \/ FoundDelete
  BY <1>7, FoundRefines
<1>8. CASE Miss
  BY <1>8, MissRefines DEF Miss
<1>9. CASE IterBegin
  BY <1>1, <1>9 DEF IterBegin
<1>10. CASE IterNext \/ UNCHANGED vars
  BY <1>2, <1>10 DEF IterNext, vars
<1> QED BY <1>4, <1>5, <1>6, <1>7, <1>8, <1>9, <1>10 DEF Next, Search, Iterate

(***************************************************************************)
(* A Mapping is a finite map (docs/builtins.md, Mapping): every operation  *)
(* takes effect at one moment and answers by what the map is then, if      *)
(* equal keys have equal hashes and no == begins another operation.        *)
(***************************************************************************)
THEOREM MappingIsFiniteMap ==
  ASSUME MaxNest = 1, HashesAgree
  PROVE  Spec => ImplementsFiniteMap
<1>1. Init => Abstract!Init
  <2> SUFFICES ASSUME Init PROVE Abstract!Init
    OBVIOUS
  <2>1. Stored = {}
    BY DEF Init, Stored, Free
  <2>2. AbstractMap = [k \in {} |-> NoValue]
    BY <2>1 DEF AbstractMap
  <2> QED BY <2>2 DEF Init, Abstract!Init, NoReply, Abstract!NoReply, Abstract!Answer
<1>2. IInv /\ SingleInv /\ SearchInv /\ SearchInv' /\ [Next]_vars =>
        [Abstract!Next]_(Abstract!vars)
  BY StepRefines
<1>3. Spec => []SingleInv
  BY SingleInvariance
<1>4. Spec => []SearchInv
  BY SearchInvariance
<1> QED BY <1>1, <1>2, <1>3, <1>4, Invariance, PTL DEF Spec, ImplementsFiniteMap, Abstract!Spec
=============================================================================
