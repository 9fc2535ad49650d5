----------------------------- MODULE Induction -----------------------------
(***************************************************************************)
(* Induction over numbers and over the data that the models recur on: what *)
(* the definitions by recursion and the folds of the other modules compute *)
(* for every input.  The induction theorems of the library are schemes; in *)
(* their place stands one instance of them, that the order of the numbers  *)
(* is well-founded, and sets take the place of predicates.                 *)
(***************************************************************************)
EXTENDS Chains, FiniteSetTheorems, SequenceTheorems, WellFoundedInduction, TLAPS

\* Every non-empty set of numbers has a least one.
LEMMA Least ==
  ASSUME NEW T, T \subseteq Nat, T # {}
  PROVE  \E x \in T : \A y \in T : x <= y
<1> DEFINE R == OpToRel(<, Nat)
<1>1. IsWellFoundedOn(R, Nat)
  BY NatLessThanWellFounded, Zenon
<1>2. \A x, y \in Nat : x < y => << x, y >> \in R
  BY DEF OpToRel
<1> HIDE DEF R
<1>3. PICK x \in T : \A y \in T : ~ (<< y, x >> \in R)
  BY <1>1, WFMin
<1>4. \A y \in T : ~(y < x)
  BY <1>2, <1>3
<1> QED BY <1>4

\* Induction up to n, with the set S of the numbers that have a property.
LEMMA UpTo ==
  ASSUME NEW n \in Nat, NEW S, 0 \in S, \A i \in 0 .. n - 1 : i \in S => i + 1 \in S
  PROVE  \A i \in 0 .. n : i \in S
<1> DEFINE T == (0 .. n) \ S
<1>1. T \subseteq Nat
  OBVIOUS
<1>2. SUFFICES ASSUME T # {} PROVE FALSE
  OBVIOUS
<1> HIDE DEF T
<1>3. PICK x \in T : \A y \in T : x <= y
  BY <1>1, <1>2, Least
<1> USE DEF T
<1>4. x # 0 /\ x - 1 \in 0 .. n - 1 /\ x - 1 \in 0 .. n /\ ~(x <= x - 1)
  BY <1>3
<1>5. x - 1 \in S
  BY <1>3, <1>4
<1>6. x - 1 + 1 = x
  BY <1>3
<1> QED BY <1>3, <1>4, <1>5, <1>6

\* Recursion: g[i] is what base has become after step has been applied i times.
Follows(g, n, base, step) ==
  g[0] = base /\ \A i \in 1 .. n : g[i] = step[i][g[i - 1]]

LEMMA Recursion ==
  ASSUME NEW n \in Nat, NEW V, NEW base \in V, NEW step \in [1 .. n -> [V -> V]]
  PROVE  \E g \in [0 .. n -> V] : Follows(g, n, base, step)
<1> DEFINE S == {m \in 0 .. n : \E g \in [0 .. m -> V] : Follows(g, m, base, step)}
<1>1. 0 \in S
  <2>1. [i \in 0 .. 0 |-> base] \in [0 .. 0 -> V] /\ [i \in 0 .. 0 |-> base][0] = base
    OBVIOUS
  <2>2. Follows([i \in 0 .. 0 |-> base], 0, base, step)
    BY <2>1 DEF Follows
  <2>3. 0 \in 0 .. n
    OBVIOUS
  <2> QED BY <2>1, <2>2, <2>3
<1>2. ASSUME NEW m \in 0 .. n - 1, m \in S
      PROVE  m + 1 \in S
  <2>1. PICK g \in [0 .. m -> V] : Follows(g, m, base, step)
    BY <1>2
  <2> DEFINE h == [i \in 0 .. m + 1 |-> IF i = m + 1 THEN step[m + 1][g[m]] ELSE g[i]]
  <2>2. m + 1 \in 1 .. n /\ g[m] \in V /\ m + 1 \in 0 .. n
    BY <2>1
  <2>3. step[m + 1][g[m]] \in V
    BY <2>2
  <2>4. h \in [0 .. m + 1 -> V]
    BY <2>1, <2>3
  <2>5. h[0] = base /\ h[m + 1] = step[m + 1][h[m]]
    BY <2>1 DEF Follows
  <2>6. \A i \in 1 .. m : h[i] = g[i] /\ h[i - 1] = g[i - 1]
    OBVIOUS
  <2>7. Follows(h, m + 1, base, step)
    BY <2>1, <2>5, <2>6 DEF Follows
  <2> HIDE DEF h
  <2> QED BY <2>2, <2>4, <2>7
<1> HIDE DEF S
<1>3. \A i \in 0 .. n : i \in S
  BY <1>1, <1>2, UpTo
<1>4. n \in S
  BY <1>3
<1> QED BY <1>4 DEF S

\* The same where g[i] depends on g[down[i]], which is not always the one before it.
Descends(g, n, base, down, step) ==
  g[0] = base /\ \A i \in 1 .. n : g[i] = step[i][g[down[i]]]

LEMMA Descent ==
  ASSUME NEW n \in Nat, NEW V, NEW base \in V, NEW down \in [1 .. n -> Nat],
         \A i \in 1 .. n : down[i] < i, NEW step \in [1 .. n -> [V -> V]]
  PROVE  \E g \in [0 .. n -> V] : Descends(g, n, base, down, step)
<1> DEFINE S == {m \in 0 .. n : \E g \in [0 .. m -> V] : Descends(g, m, base, down, step)}
<1>1. 0 \in S
  <2>1. [i \in 0 .. 0 |-> base] \in [0 .. 0 -> V] /\ [i \in 0 .. 0 |-> base][0] = base
    OBVIOUS
  <2>2. Descends([i \in 0 .. 0 |-> base], 0, base, down, step)
    BY <2>1 DEF Descends
  <2>3. 0 \in 0 .. n
    OBVIOUS
  <2> QED BY <2>1, <2>2, <2>3
<1>2. ASSUME NEW m \in 0 .. n - 1, m \in S
      PROVE  m + 1 \in S
  <2>1. PICK g \in [0 .. m -> V] : Descends(g, m, base, down, step)
    BY <1>2
  <2> DEFINE j == down[m + 1]
             h == [i \in 0 .. m + 1 |-> IF i = m + 1 THEN step[m + 1][g[j]] ELSE g[i]]
  <2>2. m + 1 \in 1 .. n /\ m + 1 \in 0 .. n /\ j \in 0 .. m /\ g[j] \in V
    <3>1. m + 1 \in 1 .. n /\ m + 1 \in 0 .. n
      OBVIOUS
    <3>2. j \in Nat /\ j < m + 1
      BY <3>1
    <3>3. j \in 0 .. m
      <4> HIDE DEF j
      <4> QED BY <3>2
    <3> HIDE DEF j
    <3> QED BY <2>1, <3>1, <3>3
  <2>3. step[m + 1][g[j]] \in V
    BY <2>2
  <2>4. h \in [0 .. m + 1 -> V]
    <3> HIDE DEF j
    <3> QED BY <2>1, <2>3
  <2>5. \A i \in 0 .. m : h[i] = g[i]
    OBVIOUS
  <2>6. h[0] = base /\ h[m + 1] = step[m + 1][h[j]]
    <3>1. h[j] = g[j] /\ h[0] = g[0]
      <4> HIDE DEF j, h
      <4> QED BY <2>2, <2>5
    <3>2. h[m + 1] = step[m + 1][g[j]]
      <4> HIDE DEF j
      <4> QED OBVIOUS
    <3> HIDE DEF j, h
    <3> QED BY <2>1, <3>1, <3>2 DEF Descends
  <2>7. \A i \in 1 .. m : h[i] = g[i] /\ h[down[i]] = g[down[i]]
    <3> TAKE i \in 1 .. m
    <3>1. i \in 1 .. n /\ i \in 0 .. m
      OBVIOUS
    <3>2. down[i] \in 0 .. m
      BY <3>1
    <3> HIDE DEF h
    <3> QED BY <2>5, <3>1, <3>2
  <2> HIDE DEF h
  <2>8. Descends(h, m + 1, base, down, step)
    <3>1. \A i \in 1 .. m + 1 : i \in 1 .. m \/ i = m + 1
      OBVIOUS
    <3>2. \A i \in 1 .. m : h[i] = step[i][h[down[i]]]
      BY <2>1, <2>7 DEF Descends
    <3>3. h[m + 1] = step[m + 1][h[down[m + 1]]]
      BY <2>6
    <3>4. \A i \in 1 .. m + 1 : h[i] = step[i][h[down[i]]]
      BY <3>1, <3>2, <3>3, Zenon
    <3> QED BY <2>6, <3>4, Zenon DEF Descends
  <2> QED BY <2>2, <2>4, <2>8
<1> HIDE DEF S
<1>3. \A i \in 0 .. n : i \in S
  BY <1>1, <1>2, UpTo
<1>4. n \in S
  BY <1>3
<1> QED BY <1>4 DEF S

\* The same step every time, starting with base.
Repeats(g, n, base, step) == g = [i \in 0 .. n |-> IF i = 0 THEN base ELSE step[g[i - 1]]]
Unrolls(c, n, base, step) == \A i \in 0 .. n : c[i] = IF i = 0 THEN base ELSE step[c[i - 1]]
Monotone(step, S) == \A Q, R \in SUBSET S : Q \subseteq R => step[Q] \subseteq step[R]
Ends(c, n, step) == \E i \in 0 .. n : step[c[i]] = c[i]

\* A chain of sets, each made from the one before it by a step that keeps
\* inclusion, loses an element or is at its end.
LEMMA Settles ==
  ASSUME NEW S, IsFiniteSet(S), NEW step \in [SUBSET S -> SUBSET S],
         Monotone(step, S), NEW c, Unrolls(c, Cardinality(S), S, step)
  PROVE  Ends(c, Cardinality(S), step)
<1> USE DEF Monotone, Unrolls, Ends
<1> DEFINE N == Cardinality(S)
<1>1. N \in Nat /\ N = Cardinality(S)
  BY FS_CardinalityType
<1> HIDE DEF N
<1>2. /\ c[0] = S
      /\ \A n \in 0 .. N - 1 : n \in 0 .. N /\ n + 1 \in 0 .. N /\ c[n + 1] = step[c[n]]
  <2>1. \A n \in 0 .. N - 1 : n + 1 \in 0 .. N /\ n + 1 # 0 /\ n + 1 - 1 = n /\ n \in 0 .. N
    BY <1>1
  <2>2. 0 \in 0 .. N
    BY <1>1
  <2> QED BY <1>1, <2>1, <2>2
<1> DEFINE A == {n \in 0 .. N : c[n] \in SUBSET S /\ step[c[n]] \subseteq c[n]}
<1>3. \A n \in 0 .. N : n \in A
  <2>1. 0 \in A
    BY <1>1, <1>2
  <2>2. ASSUME NEW n \in 0 .. N - 1, n \in A
        PROVE  n + 1 \in A
    BY <1>2, <2>2
  <2> HIDE DEF A
  <2> QED BY <1>1, <2>1, <2>2, UpTo
<1>4. ASSUME \A n \in 0 .. N : step[c[n]] # c[n]
      PROVE  FALSE
  <2> DEFINE B == {n \in 0 .. N : Cardinality(c[n]) <= N - n}
  <2>1. \A n \in 0 .. N : IsFiniteSet(c[n]) /\ Cardinality(c[n]) \in Nat
    BY <1>3, FS_Subset, FS_CardinalityType
  <2>2. 0 \in B
    BY <1>1, <1>2
  <2>3. ASSUME NEW n \in 0 .. N - 1, n \in B
        PROVE  n + 1 \in B
    <3>1. n \in 0 .. N /\ n + 1 \in 0 .. N /\ c[n + 1] = step[c[n]]
      BY <1>2
    <3>2. c[n + 1] \subseteq c[n] /\ c[n + 1] # c[n] /\ IsFiniteSet(c[n])
      BY <1>3, <1>4, <2>1, <3>1
    <3>3. Cardinality(c[n + 1]) < Cardinality(c[n])
      BY <2>1, <3>1, <3>2, FS_Subset
    <3> QED BY <1>1, <2>1, <2>3, <3>1, <3>3
  <2> HIDE DEF B
  <2>4. \A n \in 0 .. N : n \in B
    BY <1>1, <2>2, <2>3, UpTo
  <2>5. N \in 0 .. N
    BY <1>1
  <2>6. c[N] = {}
    <3>1. Cardinality(c[N]) = 0
      BY <1>1, <2>1, <2>4, <2>5 DEF B
    <3> QED BY <2>1, <2>5, <3>1, FS_EmptySet
  <2>7. step[c[N]] \subseteq c[N] /\ step[c[N]] # c[N]
    BY <1>3, <1>4, <2>5
  <2> QED BY <2>6, <2>7
<1> QED BY <1>1, <1>3, <1>4

\* The same step every time: the function that a definition by recursion asks for.
LEMMA Repetition ==
  ASSUME NEW n \in Nat, NEW V, NEW base \in V, NEW step \in [V -> V]
  PROVE  \E g \in [0 .. n -> V] : Repeats(g, n, base, step)
<1> DEFINE steps == [i \in 1 .. n |-> step]
<1>1. steps \in [1 .. n -> [V -> V]]
  OBVIOUS
<1>2. PICK g \in [0 .. n -> V] : Follows(g, n, base, steps)
  BY <1>1, Recursion
<1>3. \A i \in 0 .. n : g[i] = IF i = 0 THEN base ELSE step[g[i - 1]]
  <2>1. \A i \in 0 .. n : i = 0 \/ i \in 1 .. n
    OBVIOUS
  <2> QED BY <1>2, <2>1 DEF Follows
<1>4. g = [i \in 0 .. n |-> IF i = 0 THEN base ELSE step[g[i - 1]]]
  BY <1>2, <1>3
<1> QED BY <1>2, <1>4 DEF Repeats

-----------------------------------------------------------------------------
LEMMA ConcatElements ==
  ASSUME NEW T, NEW a \in Seq(T), NEW b \in Seq(T)
  PROVE  /\ a \o b \in Seq(T)
         /\ ToSet(a \o b) = ToSet(a) \cup ToSet(b)
         /\ IsInjective(a) /\ IsInjective(b) /\ ToSet(a) \cap ToSet(b) = {} => IsInjective(a \o b)
<1>1. /\ a \o b \in Seq(T) /\ Len(a \o b) = Len(a) + Len(b)
      /\ \A i \in 1 .. Len(a) + Len(b) : (a \o b)[i] = IF i <= Len(a) THEN a[i] ELSE b[i - Len(a)]
  OBVIOUS
<1>2. /\ DOMAIN a = 1 .. Len(a) /\ DOMAIN b = 1 .. Len(b) /\ DOMAIN (a \o b) = 1 .. Len(a) + Len(b)
      /\ Len(a) \in Nat /\ Len(b) \in Nat
  BY <1>1
<1>3. ToSet(a \o b) = ToSet(a) \cup ToSet(b)
  <2>1. \A i \in 1 .. Len(a) : i \in 1 .. Len(a) + Len(b) /\ (a \o b)[i] = a[i]
    BY <1>1, <1>2
  <2>2. \A i \in 1 .. Len(b) : i + Len(a) \in 1 .. Len(a) + Len(b) /\ (a \o b)[i + Len(a)] = b[i]
    BY <1>1, <1>2
  <2>3. \A i \in 1 .. Len(a) + Len(b) : (a \o b)[i] \in ToSet(a) \cup ToSet(b)
    BY <1>1, <1>2 DEF ToSet
  <2>4. ToSet(a \o b) \subseteq ToSet(a) \cup ToSet(b)
    BY <1>2, <2>3 DEF ToSet
  <2>5. ToSet(a) \subseteq ToSet(a \o b)
    BY <1>2, <2>1 DEF ToSet
  <2>6. ToSet(b) \subseteq ToSet(a \o b)
    BY <1>2, <2>2 DEF ToSet
  <2> QED BY <2>4, <2>5, <2>6
<1>4. ASSUME IsInjective(a), IsInjective(b), ToSet(a) \cap ToSet(b) = {}
      PROVE  IsInjective(a \o b)
  <2> SUFFICES ASSUME NEW i \in 1 .. Len(a) + Len(b), NEW j \in 1 .. Len(a) + Len(b),
                      (a \o b)[i] = (a \o b)[j]
               PROVE  i = j
    BY <1>2 DEF IsInjective
  <2>1. \A k \in 1 .. Len(a) : a[k] \in ToSet(a)
    BY <1>2 DEF ToSet
  <2>2. \A k \in 1 .. Len(b) : b[k] \in ToSet(b)
    BY <1>2 DEF ToSet
  <2>3. CASE i <= Len(a) /\ j <= Len(a)
    BY <1>1, <1>2, <1>4, <2>3 DEF IsInjective
  <2>4. CASE ~(i <= Len(a)) /\ ~(j <= Len(a))
    <3>1. i - Len(a) \in 1 .. Len(b) /\ j - Len(a) \in 1 .. Len(b)
      BY <1>2, <2>4
    <3>2. i - Len(a) = j - Len(a)
      BY <1>1, <1>2, <1>4, <2>4, <3>1 DEF IsInjective
    <3> QED BY <1>2, <3>2
  <2>5. CASE i <= Len(a) /\ ~(j <= Len(a))
    <3>1. i \in 1 .. Len(a) /\ j - Len(a) \in 1 .. Len(b)
      BY <1>2, <2>5
    <3> QED BY <1>1, <1>4, <2>1, <2>2, <2>5, <3>1
  <2>6. CASE ~(i <= Len(a)) /\ j <= Len(a)
    <3>1. j \in 1 .. Len(a) /\ i - Len(a) \in 1 .. Len(b)
      BY <1>2, <2>6
    <3> QED BY <1>1, <1>4, <2>1, <2>2, <2>6, <3>1
  <2> QED BY <2>3, <2>4, <2>5, <2>6
<1> QED BY <1>1, <1>3, <1>4

LEMMA AppendElements ==
  ASSUME NEW T, NEW s \in Seq(T), NEW x \in T
  PROVE  /\ Append(s, x) \in Seq(T)
         /\ ToSet(Append(s, x)) = ToSet(s) \cup {x}
         /\ IsInjective(s) /\ x \notin ToSet(s) => IsInjective(Append(s, x))
<1>1. /\ Append(s, x) \in Seq(T) /\ DOMAIN s = 1 .. Len(s) /\ Len(s) \in Nat
      /\ DOMAIN Append(s, x) = 1 .. Len(s) + 1 /\ Append(s, x)[Len(s) + 1] = x
      /\ \A i \in 1 .. Len(s) : Append(s, x)[i] = s[i]
  OBVIOUS
<1>2. \A i : i \in 1 .. Len(s) + 1 <=> i \in 1 .. Len(s) \/ i = Len(s) + 1
  BY <1>1
<1>3. ToSet(Append(s, x)) = ToSet(s) \cup {x}
  BY <1>1, <1>2 DEF ToSet
<1>4. IsInjective(s) /\ x \notin ToSet(s) => IsInjective(Append(s, x))
  BY <1>1, <1>2 DEF ToSet, IsInjective
<1> QED BY <1>1, <1>3, <1>4

\* A sequence without repetitions is as long as it has elements.
LEMMA InjectiveLength ==
  ASSUME NEW T, NEW s \in Seq(T), IsInjective(s)
  PROVE  IsFiniteSet(ToSet(s)) /\ Cardinality(ToSet(s)) = Len(s)
<1>1. DOMAIN s = 1 .. Len(s) /\ Len(s) \in Nat
  OBVIOUS
<1>2. IsFiniteSet(1 .. Len(s)) /\ Cardinality(1 .. Len(s)) = Len(s)
  BY <1>1, FS_Interval
<1>3. s \in Bijection(1 .. Len(s), ToSet(s))
  BY <1>1 DEF Bijection, Injection, Surjection, IsInjective, ToSet
<1> QED BY <1>2, <1>3, FS_Bijection DEF ExistsBijection

(***************************************************************************)
(* FlattenSeq concatenates from the left: g[i] is what the first i         *)
(* sequences of ss give.                                                   *)
(***************************************************************************)
Concatenates(g, ss) ==
  g[0] = << >> /\ \A i \in 1 .. Len(ss) : g[i] = g[i - 1] \o ss[i]

LEMMA FlattenSteps ==
  ASSUME NEW T, NEW ss \in Seq(Seq(T))
  PROVE  \E g \in [0 .. Len(ss) -> Seq(T)] :
           Concatenates(g, ss) /\ FlattenSeq(ss) = g[Len(ss)]
<1> DEFINE n == Len(ss)
<1>1. n \in Nat /\ n = Len(ss) /\ \A i \in 1 .. n : ss[i] \in Seq(T)
  OBVIOUS
<1> HIDE DEF n
<1>2. << >> \in Seq(T) /\ \A a, b \in Seq(T) : a \o b \in Seq(T)
  OBVIOUS
<1> DEFINE step == [i \in 1 .. n |-> [v \in Seq(T) |-> v \o ss[i]]]
<1>3. /\ step \in [1 .. n -> [Seq(T) -> Seq(T)]]
      /\ \A i \in 1 .. n, v \in Seq(T) : step[i][v] = v \o ss[i]
  BY <1>1, <1>2
<1> HIDE DEF step
<1>4. PICK g \in [0 .. n -> Seq(T)] :
        g[0] = << >> /\ \A i \in 1 .. n : g[i] = step[i][g[i - 1]]
  <2> DEFINE V == Seq(T)
             base == << >>
  <2>1. n \in Nat /\ base \in V /\ step \in [1 .. n -> [V -> V]]
    BY <1>1, <1>2, <1>3
  <2> HIDE DEF V, base
  <2>2. \E g \in [0 .. n -> V] : Follows(g, n, base, step)
    BY <2>1, Recursion
  <2> QED BY <2>2 DEF V, base, Follows
<1>5. \A i \in 1 .. n : i - 1 \in 0 .. n /\ g[i - 1] \in Seq(T)
  <2>1. \A i \in 1 .. n : i - 1 \in 0 .. n
    BY <1>1
  <2>2. \A i \in 0 .. n : g[i] \in Seq(T)
    OBVIOUS
  <2> QED BY <2>1, <2>2
<1>6. \A i \in 1 .. n : g[i] = g[i - 1] \o ss[i]
  BY <1>3, <1>4, <1>5
<1>7. Concatenates(g, ss)
  BY <1>1, <1>4, <1>6 DEF Concatenates
<1>8. FlattenSeq(ss) = g[n]
  <2>1. CASE n = 0
    <3>1. ss = << >>
      BY <1>1, <2>1, EmptySeq
    <3>2. FlattenSeq(ss) = ss
      BY <1>1, <2>1 DEF FlattenSeq
    <3> QED BY <1>4, <2>1, <3>1, <3>2
  <2>2. CASE n # 0
    <3> DEFINE Flat(f) == f = [i \in 1 .. n |-> IF i = 1 THEN ss[i] ELSE f[i - 1] \o ss[i]]
               fl == CHOOSE f : Flat(f)
               h == [i \in 1 .. n |-> g[i]]
    <3>1. Flat(h)
      <4>1. 1 \in 1 .. n /\ g[1] = ss[1]
        <5>1. 1 \in 1 .. n /\ 1 - 1 = 0
          BY <1>1, <2>2
        <5>2. g[1] = << >> \o ss[1] /\ ss[1] \in Seq(T)
          BY <1>1, <1>4, <1>6, <5>1
        <5> QED BY <5>1, <5>2
      <4>2. \A i \in 1 .. n : i # 1 => i - 1 \in 1 .. n
        BY <1>1
      <4>3. \A i \in 1 .. n : h[i] = IF i = 1 THEN ss[i] ELSE h[i - 1] \o ss[i]
        BY <1>6, <4>1, <4>2
      <4> QED BY <4>3
    <3>2. Flat(fl)
      BY <3>1
    <3>3. FlattenSeq(ss) = fl[n]
      BY <1>1, <2>2 DEF FlattenSeq
    <3> HIDE DEF fl
    <3>4. \A i \in 1 .. n : fl[i] = IF i = 1 THEN ss[i] ELSE fl[i - 1] \o ss[i]
      BY <3>2
    <3>5. \A i \in 1 .. n : h[i] = IF i = 1 THEN ss[i] ELSE h[i - 1] \o ss[i]
      BY <3>1
    <3> HIDE DEF Flat
    <3> DEFINE S == {i \in 0 .. n : i # 0 => fl[i] = h[i]}
    <3>6. 0 \in S
      BY <1>1
    <3>7. ASSUME NEW i \in 0 .. n - 1, i \in S
          PROVE  i + 1 \in S
      <4>1. i + 1 \in 1 .. n /\ (i + 1) - 1 = i /\ i + 1 \in 0 .. n /\ (i + 1 = 1 <=> i = 0)
        BY <1>1
      <4>2. i # 0 => fl[i] = h[i]
        BY <3>7
      <4> HIDE DEF h
      <4>3. fl[i + 1] = h[i + 1]
        BY <3>4, <3>5, <4>1, <4>2
      <4> QED BY <4>1, <4>3
    <3> HIDE DEF S
    <3>8. \A i \in 0 .. n : i \in S
      BY <1>1, <3>6, <3>7, UpTo
    <3>9. fl[n] = h[n]
      <4>1. n \in 0 .. n
        BY <1>1
      <4> QED BY <2>2, <3>8, <4>1 DEF S
    <3> QED BY <1>1, <2>2, <3>3, <3>9
  <2> QED BY <2>1, <2>2
<1> QED BY <1>4, <1>7, <1>8 DEF n

LEMMA FlattenAppend ==
  ASSUME NEW T, NEW ss \in Seq(Seq(T)), NEW t \in Seq(T)
  PROVE  /\ FlattenSeq(ss) \in Seq(T)
         /\ FlattenSeq(Append(ss, t)) = FlattenSeq(ss) \o t
<1> DEFINE n == Len(ss)
           tt == Append(ss, t)
<1>1. /\ n \in Nat /\ tt \in Seq(Seq(T)) /\ Len(tt) = n + 1 /\ tt[n + 1] = t
      /\ \A i \in 1 .. n : tt[i] = ss[i]
  OBVIOUS
<1>2. PICK g \in [0 .. n -> Seq(T)] : Concatenates(g, ss) /\ FlattenSeq(ss) = g[n]
  BY FlattenSteps
<1> HIDE DEF tt
<1>3. PICK h \in [0 .. n + 1 -> Seq(T)] : Concatenates(h, tt) /\ FlattenSeq(tt) = h[n + 1]
  BY <1>1, FlattenSteps
<1>4. \A i \in 0 .. n : i \in {j \in 0 .. n : h[j] = g[j]}
  <2> DEFINE S == {j \in 0 .. n : h[j] = g[j]}
  <2>1. 0 \in S
    BY <1>1, <1>2, <1>3 DEF Concatenates
  <2>2. ASSUME NEW i \in 0 .. n - 1, i \in S
        PROVE  i + 1 \in S
    <3>1. i + 1 \in 1 .. n /\ i + 1 \in 1 .. n + 1 /\ (i + 1) - 1 = i
      BY <1>1
    <3>2. h[i + 1] = h[i] \o tt[i + 1] /\ g[i + 1] = g[i] \o ss[i + 1]
      BY <1>1, <1>2, <1>3, <3>1 DEF Concatenates
    <3>3. h[i] = g[i] /\ tt[i + 1] = ss[i + 1]
      BY <1>1, <2>2, <3>1
    <3>4. h[i + 1] = g[i + 1] /\ i + 1 \in 0 .. n
      BY <3>1, <3>2, <3>3
    <3> QED BY <3>4
  <2> HIDE DEF S
  <2>3. \A i \in 0 .. n : i \in S
    BY <1>1, <2>1, <2>2, UpTo
  <2> QED BY <2>3 DEF S
<1>5. h[n + 1] = h[n] \o tt[n + 1]
  <2>1. n + 1 \in 1 .. Len(tt) /\ (n + 1) - 1 = n
    BY <1>1
  <2>2. \A i \in 1 .. Len(tt) : h[i] = h[i - 1] \o tt[i]
    BY <1>3 DEF Concatenates
  <2>3. h[n + 1] = h[(n + 1) - 1] \o tt[n + 1]
    BY <2>1, <2>2
  <2> QED BY <2>1, <2>3
<1>6. h[n] = g[n] /\ g[n] \in Seq(T)
  BY <1>1, <1>2, <1>4
<1> QED BY <1>1, <1>2, <1>3, <1>5, <1>6 DEF tt

\* What a flattened sequence has: the elements of the sequences in it, each
\* of them once if no two of the sequences share one.
LEMMA FlattenElements ==
  ASSUME NEW T, NEW ss \in Seq(Seq(T))
  PROVE  /\ FlattenSeq(ss) \in Seq(T)
         /\ \A x : x \in ToSet(FlattenSeq(ss)) <=> \E i \in 1 .. Len(ss) : x \in ToSet(ss[i])
         /\ (/\ \A i \in 1 .. Len(ss) : IsInjective(ss[i])
             /\ \A i, j \in 1 .. Len(ss) : i # j => ToSet(ss[i]) \cap ToSet(ss[j]) = {})
            => IsInjective(FlattenSeq(ss))
<1> DEFINE n == Len(ss)
           Apart == /\ \A i \in 1 .. n : IsInjective(ss[i])
                    /\ \A i, j \in 1 .. n : i # j => ToSet(ss[i]) \cap ToSet(ss[j]) = {}
<1>1. n \in Nat /\ n = Len(ss) /\ \A i \in 1 .. n : ss[i] \in Seq(T)
  OBVIOUS
<1>2. PICK g \in [0 .. n -> Seq(T)] : /\ g[0] = << >> /\ FlattenSeq(ss) = g[n]
                                     /\ \A i \in 1 .. n : g[i] = g[i - 1] \o ss[i]
  BY FlattenSteps DEF Concatenates
<1> HIDE DEF n
<1> DEFINE Has(m) == \A x : x \in ToSet(g[m]) <=> \E i \in 1 .. m : x \in ToSet(ss[i])
           Once(m) == Apart => IsInjective(g[m])
           S == {m \in 0 .. n : Has(m) /\ Once(m)}
<1>3. 0 \in S
  <2>1. ToSet(<< >>) = {} /\ IsInjective(<< >>) /\ \A i : i \notin 1 .. 0
    BY DEF ToSet, IsInjective
  <2> HIDE DEF Apart
  <2>2. Has(0) /\ Once(0)
    BY <1>2, <2>1
  <2> HIDE DEF Has, Once
  <2> QED BY <1>1, <2>2
<1>4. ASSUME NEW m \in 0 .. n - 1, m \in S
      PROVE  m + 1 \in S
  <2>1. m + 1 \in 1 .. n /\ m + 1 \in 0 .. n /\ m \in 0 .. n /\ (m + 1) - 1 = m
    BY <1>1
  <2>2. g[m + 1] = g[m] \o ss[m + 1] /\ g[m] \in Seq(T) /\ ss[m + 1] \in Seq(T)
    BY <1>1, <1>2, <2>1
  <2>3. Has(m) /\ Once(m)
    BY <1>4
  <2>4. /\ \A i : i \in 1 .. m + 1 <=> i \in 1 .. m \/ i = m + 1
        /\ \A i \in 1 .. m : i \in 1 .. n /\ i # m + 1
    BY <1>1
  <2>5. ToSet(g[m + 1]) = ToSet(g[m]) \cup ToSet(ss[m + 1])
    BY <2>2, ConcatElements
  <2>6. Has(m + 1)
    BY <2>3, <2>4, <2>5
  <2>7. ASSUME Apart PROVE IsInjective(g[m + 1])
    <3>1. \A i \in 1 .. m : ToSet(ss[i]) \cap ToSet(ss[m + 1]) = {}
      BY <2>1, <2>4, <2>7
    <3>2. ToSet(g[m]) \cap ToSet(ss[m + 1]) = {}
      BY <2>3, <3>1
    <3>3. IsInjective(g[m]) /\ IsInjective(ss[m + 1])
      BY <2>1, <2>3, <2>7
    <3> QED BY <2>2, <3>2, <3>3, ConcatElements
  <2> HIDE DEF Has
  <2> QED BY <2>1, <2>6, <2>7
<1> HIDE DEF S
<1>5. \A m \in 0 .. n : m \in S
  BY <1>1, <1>3, <1>4, UpTo
<1>6. n \in S /\ g[n] \in Seq(T)
  BY <1>1, <1>2, <1>5
<1>7. Has(n) /\ Once(n)
  BY <1>6 DEF S
<1> HIDE DEF Apart
<1> QED BY <1>2, <1>6, <1>7 DEF n, Apart

-----------------------------------------------------------------------------
(***************************************************************************)
(* Chains (module Chains).                                                 *)
(***************************************************************************)
LEMMA ConsElements ==
  ASSUME NEW T, NEW x \in T, NEW s \in Seq(T)
  PROVE  /\ << x >> \o s \in Seq(T)
         /\ ToSet(<< x >> \o s) = ToSet(s) \cup {x}
         /\ IsInjective(s) /\ x \notin ToSet(s) => IsInjective(<< x >> \o s)
<1> DEFINE one == << x >>
<1>1. one \in Seq(T) /\ DOMAIN one = {1} /\ one[1] = x
  OBVIOUS
<1> HIDE DEF one
<1>2. ToSet(one) = {x} /\ IsInjective(one)
  BY <1>1 DEF ToSet, IsInjective
<1>3. /\ one \o s \in Seq(T)
      /\ ToSet(one \o s) = ToSet(s) \cup {x}
      /\ IsInjective(s) /\ x \notin ToSet(s) => IsInjective(one \o s)
  BY <1>1, <1>2, ConcatElements
<1> QED BY <1>3 DEF one

\* An item taken out of a chain that has it once is not there any more.
LEMMA UnlinkedElements ==
  ASSUME NEW T, NEW chain \in Seq(T), IsInjective(chain), NEW x \in ToSet(chain)
  PROVE  /\ Unlinked(chain, x) \in Seq(T)
         /\ ToSet(Unlinked(chain, x)) = ToSet(chain) \ {x}
         /\ IsInjective(Unlinked(chain, x))
<1> DEFINE n == Len(chain)
<1>1. /\ n \in Nat /\ DOMAIN chain = 1 .. n
      /\ \A i, j \in 1 .. n : chain[i] = chain[j] => i = j
  BY DEF IsInjective
<1>2. PICK k \in 1 .. n : chain[k] = x
  BY <1>1 DEF ToSet
<1>3. SelectInSeq(chain, LAMBDA v : v = x) = k
  <2>1. {i \in 1 .. n : chain[i] = x} = {k}
    BY <1>1, <1>2
  <2>2. Min({k}) = k
    BY <1>1, <1>2 DEF Min
  <2> QED BY <2>1, <2>2 DEF SelectInSeq
<1>4. Unlinked(chain, x) = RemoveAt(chain, k)
  BY <1>2, <1>3 DEF Unlinked, RemoveFirst
<1> DEFINE a == SubSeq(chain, 1, k - 1)
           b == SubSeq(chain, k + 1, n)
<1>5. /\ a \in Seq(T) /\ DOMAIN a = 1 .. k - 1 /\ \A i \in 1 .. k - 1 : a[i] = chain[i]
      /\ b \in Seq(T) /\ DOMAIN b = 1 .. n - k /\ \A i \in 1 .. n - k : b[i] = chain[k + i]
  <2>1. chain \in Seq(T) /\ n = Len(chain) /\ k \in Nat /\ n \in Nat /\ 1 <= k /\ k <= n
    BY <1>1, <1>2
  <2> HIDE DEF n
  <2>2. /\ a \in Seq(T) /\ DOMAIN a = 1 .. k - 1 /\ \A i \in 1 .. k - 1 : a[i] = chain[i]
    BY <2>1
  <2>3. /\ b \in Seq(T) /\ Len(b) = n - k
    BY <2>1
  <2>4. \A i \in 1 .. n - k : b[i] = chain[k + i]
    BY <2>1
  <2> QED BY <2>2, <2>3, <2>4
<1> HIDE DEF a, b
<1>6. IsInjective(a) /\ IsInjective(b) /\ ToSet(a) \cap ToSet(b) = {}
  <2>1. \A i \in 1 .. k - 1 : i \in 1 .. n /\ i < k
    BY <1>1, <1>2
  <2>2. \A i \in 1 .. n - k : k + i \in 1 .. n /\ k + i > k
    BY <1>1, <1>2
  <2>3. IsInjective(a)
    BY <1>1, <1>5, <2>1 DEF IsInjective
  <2>4. IsInjective(b)
    BY <1>1, <1>2, <1>5, <2>2 DEF IsInjective
  <2>5. ToSet(a) \cap ToSet(b) = {}
    BY <1>1, <1>5, <2>1, <2>2 DEF ToSet
  <2> QED BY <2>3, <2>4, <2>5
<1>7. ToSet(a) \cup ToSet(b) = ToSet(chain) \ {x}
  <2>1. \A i \in 1 .. n : i # k => i \in 1 .. k - 1 \/ (i - k \in 1 .. n - k /\ k + (i - k) = i)
    BY <1>1, <1>2
  <2>2. \A i \in 1 .. k - 1 : i \in 1 .. n /\ i # k
    BY <1>1, <1>2
  <2>3. \A i \in 1 .. n - k : k + i \in 1 .. n /\ k + i # k
    BY <1>1, <1>2
  <2>4. \A i \in 1 .. k - 1 : a[i] \in ToSet(chain) \ {x}
    BY <1>1, <1>2, <1>5, <2>2 DEF ToSet
  <2>5. ASSUME NEW i \in 1 .. n - k
        PROVE  b[i] \in ToSet(chain) \ {x}
    <3>1. k + i \in 1 .. n /\ k + i # k /\ b[i] = chain[k + i]
      BY <1>5, <2>3
    <3>2. chain[k + i] # x
      BY <1>1, <1>2, <3>1
    <3> QED BY <1>1, <3>1, <3>2 DEF ToSet
  <2>6. ASSUME NEW y \in ToSet(chain) \ {x}
        PROVE  y \in ToSet(a) \cup ToSet(b)
    <3>1. PICK i \in 1 .. n : y = chain[i] /\ i # k
      BY <1>1, <1>2, <2>6 DEF ToSet
    <3>2. CASE i \in 1 .. k - 1
      BY <1>5, <3>1, <3>2 DEF ToSet
    <3>3. CASE i - k \in 1 .. n - k /\ k + (i - k) = i
      BY <1>5, <3>1, <3>3 DEF ToSet
    <3> QED BY <2>1, <3>1, <3>2, <3>3
  <2>7. \A y \in ToSet(a) : y \in ToSet(chain) \ {x}
    BY <1>5, <2>4 DEF ToSet
  <2>8. \A y \in ToSet(b) : y \in ToSet(chain) \ {x}
    BY <1>5, <2>5 DEF ToSet
  <2> QED BY <2>6, <2>7, <2>8
<1>8. Unlinked(chain, x) = a \o b
  BY <1>4 DEF RemoveAt, a, b
<1> QED BY <1>5, <1>6, <1>7, <1>8, ConcatElements

\* The new chains have what was visited, each item in the chain it belongs to,
\* and once if it was visited once.
LEMMA RechainedElements ==
  ASSUME NEW T, NEW visited \in Seq(T), NEW B, NEW h \in [T -> B]
  PROVE  LET chains == Rechained(visited, B, h)
         IN  /\ chains \in [B -> Seq(T)]
             /\ \A b \in B : \A x : x \in ToSet(chains[b]) <=> x \in ToSet(visited) /\ h[x] = b
             /\ IsInjective(visited) => \A b \in B : IsInjective(chains[b])
<1> DEFINE n == Len(visited)
           V == [B -> Seq(T)]
           base == [b \in B |-> << >>]
           moved(i, v) == [v EXCEPT ![h[visited[i]]] = << visited[i] >> \o @]
           step == [i \in 1 .. n |-> [v \in V |-> moved(i, v)]]
<1>1. n \in Nat /\ DOMAIN visited = 1 .. n /\ \A i \in 1 .. n : visited[i] \in T /\ h[visited[i]] \in B
  OBVIOUS
<1>2. base \in V
  OBVIOUS
<1>3. \A i \in 1 .. n, v \in V : moved(i, v) \in V
  <2> SUFFICES ASSUME NEW i \in 1 .. n, NEW v \in V PROVE moved(i, v) \in V
    OBVIOUS
  <2>1. visited[i] \in T /\ h[visited[i]] \in B /\ v[h[visited[i]]] \in Seq(T)
    BY <1>1
  <2>2. << visited[i] >> \o v[h[visited[i]]] \in Seq(T)
    BY <2>1, ConsElements
  <2> QED BY <2>1, <2>2
<1>4. step \in [1 .. n -> [V -> V]]
  BY <1>3
<1>5. \A i \in 1 .. n, v \in V : step[i][v] = moved(i, v)
  OBVIOUS
<1> HIDE DEF n, V, base, step
<1>6. PICK g \in [0 .. n -> V] : Follows(g, n, base, step)
  BY <1>1, <1>2, <1>4, Recursion
<1>7. \A i \in 1 .. n : i - 1 \in 0 .. n /\ g[i - 1] \in V
  BY <1>1, <1>6
<1>8. g[0] = base /\ \A i \in 1 .. n : g[i] = moved(i, g[i - 1])
  BY <1>5, <1>6, <1>7 DEF Follows
<1> HIDE DEF moved
<1>9. Rechained(visited, B, h) = g[n]
  <2> DEFINE Rec(f) == f = [i \in 0 .. n |-> IF i = 0 THEN base ELSE moved(i, f[i - 1])]
             fl == CHOOSE f : Rec(f)
  <2>1. Rec(g)
    <3>1. \A i \in 0 .. n : g[i] = IF i = 0 THEN base ELSE moved(i, g[i - 1])
      BY <1>1, <1>8
    <3>2. g = [i \in 0 .. n |-> g[i]]
      BY <1>6
    <3> QED BY <3>1, <3>2
  <2>2. Rec(fl)
    BY <2>1
  <2>3. Rechained(visited, B, h) = fl[n]
    BY DEF Rechained, moved, base, n
  <2> HIDE DEF fl
  <2>4. \A i \in 0 .. n : fl[i] = IF i = 0 THEN base ELSE moved(i, fl[i - 1])
    BY <2>2
  <2> HIDE DEF Rec
  <2> DEFINE S == {i \in 0 .. n : fl[i] = g[i]}
  <2>5. 0 \in S
    BY <1>1, <1>8, <2>4
  <2>6. ASSUME NEW i \in 0 .. n - 1, i \in S
        PROVE  i + 1 \in S
    <3>1. i + 1 \in 1 .. n /\ (i + 1) - 1 = i /\ i + 1 \in 0 .. n /\ i + 1 # 0
      BY <1>1
    <3> QED BY <1>8, <2>4, <2>6, <3>1
  <2> HIDE DEF S
  <2>7. \A i \in 0 .. n : i \in S
    BY <1>1, <2>5, <2>6, UpTo
  <2>8. n \in 0 .. n
    BY <1>1
  <2> QED BY <2>3, <2>7, <2>8 DEF S
<1> DEFINE Before(i) == {visited[j] : j \in 1 .. i}
           Has(i) == \A b \in B : ToSet(g[i][b]) = {x \in Before(i) : h[x] = b}
           Once(i) == IsInjective(visited) => \A b \in B : IsInjective(g[i][b])
           S == {i \in 0 .. n : Has(i) /\ Once(i)}
<1>10. 0 \in S
  <2>1. ToSet(<< >>) = {} /\ IsInjective(<< >>)
    BY DEF ToSet, IsInjective
  <2>2. Before(0) = {}
    OBVIOUS
  <2>3. Has(0) /\ Once(0)
    BY <1>8, <2>1, <2>2 DEF base
  <2> HIDE DEF Has, Once
  <2> QED BY <1>1, <2>3
<1>11. ASSUME NEW i \in 0 .. n - 1, i \in S
       PROVE  i + 1 \in S
  <2> DEFINE x == visited[i + 1]
             v == g[i]
  <2>1. i + 1 \in 1 .. n /\ (i + 1) - 1 = i /\ i + 1 \in 0 .. n /\ i \in 0 .. n
    BY <1>1
  <2>2. x \in T /\ h[x] \in B /\ v \in V
    BY <1>1, <1>6, <2>1
  <2>3. g[i + 1] = [v EXCEPT ![h[x]] = << x >> \o @]
    BY <1>8, <2>1 DEF moved
  <2>4. /\ g[i + 1][h[x]] = << x >> \o v[h[x]] /\ v[h[x]] \in Seq(T)
        /\ \A b \in B : b # h[x] => g[i + 1][b] = v[b]
    BY <2>2, <2>3 DEF V
  <2>5. Before(i + 1) = Before(i) \cup {x}
    <3>1. \A j : j \in 1 .. i + 1 <=> j \in 1 .. i \/ j = i + 1
      BY <1>1
    <3> QED BY <3>1
  <2>6. Has(i) /\ Once(i)
    BY <1>11
  <2> HIDE DEF x, v, Before
  <2>7. ToSet(g[i + 1][h[x]]) = ToSet(v[h[x]]) \cup {x}
    BY <2>2, <2>4, ConsElements
  <2>8. Has(i + 1)
    <3> SUFFICES ASSUME NEW b \in B
                 PROVE  ToSet(g[i + 1][b]) = {y \in Before(i + 1) : h[y] = b}
      OBVIOUS
    <3>1. ToSet(v[b]) = {y \in Before(i) : h[y] = b}
      BY <2>6 DEF v
    <3>2. CASE b = h[x]
      BY <2>5, <2>7, <3>1, <3>2
    <3>3. CASE b # h[x]
      BY <2>4, <2>5, <3>1, <3>3
    <3> QED BY <3>2, <3>3
  <2>9. ASSUME IsInjective(visited), NEW b \in B
        PROVE  IsInjective(g[i + 1][b])
    <3>1. IsInjective(v[b]) /\ IsInjective(v[h[x]])
      BY <2>2, <2>6, <2>9 DEF v
    <3>2. x \notin Before(i)
      <4>1. \A j \in 1 .. i : j \in 1 .. n /\ j # i + 1
        BY <1>1
      <4> QED BY <1>1, <2>1, <2>9, <4>1 DEF x, Before, IsInjective
    <3>3. x \notin ToSet(v[h[x]])
      BY <2>2, <2>6, <3>2 DEF v
    <3>4. CASE b = h[x]
      <4>1. IsInjective(<< x >> \o v[h[x]])
        BY <2>2, <2>4, <3>1, <3>3, ConsElements
      <4>2. g[i + 1][b] = << x >> \o v[h[x]]
        BY <2>4, <3>4
      <4> QED BY <4>1, <4>2
    <3>5. CASE b # h[x]
      BY <2>4, <3>1, <3>5
    <3> QED BY <3>4, <3>5
  <2> HIDE DEF Has
  <2> QED BY <2>1, <2>8, <2>9
<1> HIDE DEF S
<1>12. \A i \in 0 .. n : i \in S
  BY <1>1, <1>10, <1>11, UpTo
<1>13. n \in S /\ g[n] \in V
  BY <1>1, <1>6, <1>12
<1>14. Has(n) /\ Once(n)
  BY <1>13 DEF S
<1>15. Before(n) = ToSet(visited)
  BY <1>1 DEF ToSet
<1> HIDE DEF Before
<1> QED BY <1>9, <1>13, <1>14, <1>15 DEF V
=============================================================================
