--------------------------- MODULE EvaluatorProof ---------------------------
(***************************************************************************)
(* Proofs about Evaluator, for every value of its constants: the type      *)
(* invariant, the balance of the frame stack with the C call stack, the    *)
(* agreement of interp->err with the failures being returned, the bound on *)
(* C recursion, the stability of tracebacks, and for structured programs   *)
(* that every `return` reaches its own call.                               *)
(***************************************************************************)
EXTENDS Evaluator, FiniteSetTheorems, TLAPS

\* Frames a deeper activation starts above those of the ones below it.
Nested(cs) ==
  \A i, j \in DOMAIN cs : i < j => cs[i].depth + FramesOf(cs[i]) <= cs[j].depth

\* How high on the C stack an activation can be, given its depth in frames.
Height(a) == 3 * a.depth + (IF a.kind = "run" THEN 3 ELSE IF a.kind = "ret" THEN 2 ELSE 1)

WellPlaced(cs, n) ==
  \A i \in DOMAIN cs :
    /\ Executing(cs[i]) => cs[i].kind = "run"
    /\ cs[i].kind # "catch" => cs[i].scope \in 1 .. n
    /\ i <= Height(cs[i])

\* The inductive invariant of the two stacks.
Stacks(cs, fs, n) ==
  /\ cs \in Seq(Activations)
  /\ fs \in Seq(ScopeIds) /\ Len(fs) <= StackMax
  /\ Balanced(cs, fs)
  /\ Nested(cs)
  /\ WellPlaced(cs, n)

\* The strengthening that every step preserves.
IInv ==
  /\ TypeOK
  /\ ErrIffFailing
  /\ Stacks(calls, frames, Len(scopes))

\* A C function returns: the last activation, which has no frame, is dropped.
LEMMA PopStacks ==
  ASSUME NEW cs, NEW fs, NEW n \in Nat, Stacks(cs, fs, n), cs # << >>,
         ~Executing(cs[Len(cs)])
  PROVE  Stacks(SubSeq(cs, 1, Len(cs) - 1), fs, n)
<1> DEFINE ds == SubSeq(cs, 1, Len(cs) - 1)
<1>1. /\ cs \in Seq(Activations) /\ Len(cs) \in Nat \ {0} /\ DOMAIN cs = 1 .. Len(cs)
      /\ fs \in Seq(ScopeIds) /\ Len(fs) <= StackMax
  BY DEF Stacks
<1>2. /\ ds \in Seq(Activations) /\ Len(ds) = Len(cs) - 1 /\ DOMAIN ds = 1 .. Len(cs) - 1
      /\ \A i \in 1 .. Len(cs) - 1 : ds[i] = cs[i]
  BY <1>1
<1> HIDE DEF ds
<1>3. Nested(ds)
  BY <1>1, <1>2 DEF Stacks, Nested
<1>4. WellPlaced(ds, n)
  BY <1>1, <1>2 DEF Stacks, WellPlaced
<1>5. Balanced(ds, fs)
  <2>1. \A i \in DOMAIN ds :
          /\ ds[i].depth = IF i = 1 THEN 0 ELSE ds[i - 1].depth + FramesOf(ds[i - 1])
          /\ Executing(ds[i]) => /\ ds[i].depth < Len(fs)
                                 /\ fs[ds[i].depth + 1] = ds[i].scope
    BY <1>1, <1>2 DEF Stacks, Balanced
  <2>2. Len(fs) = cs[Len(cs)].depth
    <3>1. Len(fs) = cs[Len(cs)].depth + FramesOf(cs[Len(cs)])
      BY <1>1 DEF Stacks, Balanced
    <3>2. cs[Len(cs)] \in Activations
      BY <1>1
    <3>3. cs[Len(cs)].depth \in Int
      BY <3>2 DEF Activations
    <3> QED BY <3>1, <3>3 DEF FramesOf
  <2>3. Len(fs) = IF ds = << >> THEN 0 ELSE ds[Len(ds)].depth + FramesOf(ds[Len(ds)])
    <3>1. CASE Len(cs) = 1
      BY <1>1, <1>2, <2>2, <3>1 DEF Stacks, Balanced
    <3>2. CASE Len(cs) > 1
      <4>1. ds # << >> /\ ds[Len(ds)] = cs[Len(cs) - 1]
        <5>1. Len(ds) \in 1 .. Len(cs) - 1
          BY <1>1, <1>2, <3>2
        <5> QED BY <1>2, <5>1
      <4>2. cs[Len(cs)].depth = cs[Len(cs) - 1].depth + FramesOf(cs[Len(cs) - 1])
        BY <1>1, <3>2 DEF Stacks, Balanced
      <4> QED BY <4>1, <4>2, <2>2
    <3> QED BY <1>1, <3>1, <3>2
  <2> QED BY <2>1, <2>3 DEF Balanced
<1> QED BY <1>1, <1>2, <1>3, <1>4, <1>5 DEF Stacks, ds

\* A C function is called: a new activation starts at the present depth.
LEMMA PushStacks ==
  ASSUME NEW cs, NEW fs, NEW n \in Nat, Stacks(cs, fs, n),
         NEW a \in Activations, ~Executing(a), a.depth = Len(fs),
         a.kind # "catch" => a.scope \in 1 .. n,
         Len(cs) + 1 <= Height(a)
  PROVE  Stacks(Append(cs, a), fs, n)
<1> DEFINE ds == Append(cs, a)
<1>1. /\ cs \in Seq(Activations) /\ Len(cs) \in Nat /\ DOMAIN cs = 1 .. Len(cs)
      /\ fs \in Seq(ScopeIds) /\ Len(fs) \in Nat /\ Len(fs) <= StackMax
  BY DEF Stacks
<1>2. /\ ds \in Seq(Activations) /\ Len(ds) = Len(cs) + 1 /\ DOMAIN ds = 1 .. Len(cs) + 1
      /\ \A i \in 1 .. Len(cs) : ds[i] = cs[i]
      /\ ds[Len(cs) + 1] = a
  BY <1>1
<1> HIDE DEF ds
<1>3. \A i \in DOMAIN cs : cs[i].depth \in Int /\ FramesOf(cs[i]) \in {0, 1}
  <2>1. \A i \in DOMAIN cs : cs[i] \in Activations
    BY <1>1
  <2> QED BY <2>1 DEF Activations, FramesOf
<1>4. cs # << >> => Len(fs) = cs[Len(cs)].depth + FramesOf(cs[Len(cs)])
  BY DEF Stacks, Balanced
<1>5. Nested(ds)
  <2> SUFFICES ASSUME NEW i \in DOMAIN ds, NEW j \in DOMAIN ds, i < j
               PROVE  ds[i].depth + FramesOf(ds[i]) <= ds[j].depth
    BY DEF Nested
  <2>1. CASE j <= Len(cs)
    BY <1>1, <1>2, <2>1 DEF Stacks, Nested
  <2>2. CASE j = Len(cs) + 1
    <3>1. /\ i \in 1 .. Len(cs) /\ ds[i] = cs[i] /\ ds[j] = a
          /\ cs # << >> /\ Len(cs) \in DOMAIN cs
      BY <1>1, <1>2, <2>2
    <3>2. CASE i = Len(cs)
      BY <3>1, <3>2, <1>3, <1>4
    <3>3. CASE i < Len(cs)
      BY <3>1, <3>3, <1>1, <1>3, <1>4 DEF Stacks, Nested
    <3> QED BY <3>1, <3>2, <3>3, <1>1
  <2> QED BY <1>1, <1>2, <2>1, <2>2
<1>6. WellPlaced(ds, n)
  <2> SUFFICES ASSUME NEW i \in DOMAIN ds
               PROVE  /\ Executing(ds[i]) => ds[i].kind = "run"
                      /\ ds[i].kind # "catch" => ds[i].scope \in 1 .. n
                      /\ i <= Height(ds[i])
    BY DEF WellPlaced
  <2>1. CASE i = Len(cs) + 1
    BY <1>2, <2>1
  <2>2. CASE i \in DOMAIN cs
    BY <1>1, <1>2, <2>2 DEF Stacks, WellPlaced
  <2> QED BY <1>1, <1>2, <2>1, <2>2
<1>7. Balanced(ds, fs)
  <2>1. ASSUME NEW i \in DOMAIN ds
        PROVE  /\ ds[i].depth = IF i = 1 THEN 0 ELSE ds[i - 1].depth + FramesOf(ds[i - 1])
               /\ Executing(ds[i]) => /\ ds[i].depth < Len(fs)
                                      /\ fs[ds[i].depth + 1] = ds[i].scope
    <3>1. CASE i \in DOMAIN cs
      BY <1>1, <1>2, <3>1 DEF Stacks, Balanced
    <3>2. CASE i = Len(cs) + 1
      <4>1. CASE cs = << >>
        BY <1>1, <1>2, <3>2, <4>1 DEF Stacks, Balanced
      <4>2. CASE cs # << >>
        <5>1. Len(cs) \in 1 .. Len(cs)
          BY <1>1, <4>2
        <5>2. i # 1 /\ i - 1 = Len(cs) /\ ds[i] = a
          BY <1>1, <1>2, <3>2, <5>1
        <5>3. ds[i - 1] = cs[Len(cs)]
          BY <1>2, <5>1, <5>2
        <5> QED BY <5>2, <5>3, <1>4, <4>2
      <4> QED BY <4>1, <4>2
    <3> QED BY <1>1, <1>2, <3>1, <3>2
  <2>2. ds # << >> /\ ds[Len(ds)].depth + FramesOf(ds[Len(ds)]) = Len(fs)
    BY <1>1, <1>2 DEF FramesOf
  <2> QED BY <2>1, <2>2 DEF Balanced
<1> QED BY <1>1, <1>2, <1>5, <1>6, <1>7 DEF Stacks, ds

\* What changing the phase of the last activation leaves alone.
Rephased(cs, ds, k, p) ==
  /\ \A i \in 1 .. k : i # k => ds[i] = cs[i]
  /\ \A i \in 1 .. k : /\ ds[i].kind = cs[i].kind
                       /\ ds[i].scope = cs[i].scope
                       /\ ds[i].depth = cs[i].depth
  /\ ds[k].phase = p

WithPhase(cs, k, p) == [cs EXCEPT ![k].phase = p]

\* Changing that phase of a sequence of activations gives another one.
LEMMA TopPhase ==
  ASSUME NEW cs \in Seq(Activations), NEW k \in Nat \ {0}, k = Len(cs), NEW p \in Phases
  PROVE  /\ WithPhase(cs, k, p) \in Seq(Activations) /\ Len(WithPhase(cs, k, p)) = k
         /\ Rephased(cs, WithPhase(cs, k, p), k, p)
<1> DEFINE ds == [cs EXCEPT ![k].phase = p]
<1>1. DOMAIN cs = 1 .. k /\ k \in 1 .. k
  OBVIOUS
<1>2. /\ DOMAIN ds = 1 .. k
      /\ \A i \in 1 .. k : i # k => ds[i] = cs[i]
      /\ ds[k] = [cs[k] EXCEPT !.phase = p]
  BY <1>1
<1>3. \A i \in 1 .. k : cs[i] \in Activations
  BY <1>1
<1>4. /\ ds[k] \in Activations
      /\ ds[k].phase = p
      /\ ds[k].kind = cs[k].kind
      /\ ds[k].scope = cs[k].scope
      /\ ds[k].depth = cs[k].depth
  BY <1>1, <1>2, <1>3 DEF Activations, Phases
<1>5. \A i \in 1 .. k : ds[i] \in Activations
  BY <1>2, <1>3, <1>4
<1>6. ds = [i \in 1 .. k |-> ds[i]]
  BY <1>1
<1>7. ds \in Seq(Activations) /\ Len(ds) = k
  BY <1>1, <1>5, <1>6
<1>8. Rephased(cs, ds, k, p)
  BY <1>2, <1>4 DEF Rephased
<1> QED BY <1>7, <1>8 DEF WithPhase

\* The invariant of the stacks, said of a call stack of height k.
Chain(cs, k) ==
  /\ cs[1].depth = 0
  /\ \A i \in 1 .. k - 1 : cs[i + 1].depth = cs[i].depth + FramesOf(cs[i])

FramesMatch(cs, fs, k) ==
  \A i \in 1 .. k : Executing(cs[i]) => /\ cs[i].depth < Len(fs)
                                        /\ fs[cs[i].depth + 1] = cs[i].scope

Rising(cs, k) == \A i, j \in 1 .. k : i < j => cs[i].depth + FramesOf(cs[i]) <= cs[j].depth

Placed(cs, n, k) ==
  \A i \in 1 .. k : /\ Executing(cs[i]) => cs[i].kind = "run"
                    /\ cs[i].kind # "catch" => cs[i].scope \in 1 .. n
                    /\ i <= Height(cs[i])

\* Both ways of saying it agree.
LEMMA StacksAt ==
  ASSUME NEW cs \in Seq(Activations), NEW fs, NEW n,
         NEW k \in Nat \ {0}, k = Len(cs)
  PROVE  /\ Balanced(cs, fs) <=> /\ Chain(cs, k)
                                 /\ FramesMatch(cs, fs, k)
                                 /\ Len(fs) = cs[k].depth + FramesOf(cs[k])
         /\ Nested(cs) <=> Rising(cs, k)
         /\ WellPlaced(cs, n) <=> Placed(cs, n, k)
<1>1. DOMAIN cs = 1 .. k /\ cs # << >> /\ 1 \in 1 .. k
  OBVIOUS
<1>2. (\A i \in 1 .. k :
          cs[i].depth = IF i = 1 THEN 0 ELSE cs[i - 1].depth + FramesOf(cs[i - 1]))
      <=> /\ cs[1].depth = 0
          /\ \A i \in 1 .. k - 1 : cs[i + 1].depth = cs[i].depth + FramesOf(cs[i])
  <2>1. ASSUME \A i \in 1 .. k :
          cs[i].depth = IF i = 1 THEN 0 ELSE cs[i - 1].depth + FramesOf(cs[i - 1])
        PROVE  /\ cs[1].depth = 0
               /\ \A i \in 1 .. k - 1 : cs[i + 1].depth = cs[i].depth + FramesOf(cs[i])
    <3>1. \A i \in 1 .. k - 1 : i + 1 \in 1 .. k /\ i + 1 # 1 /\ (i + 1) - 1 = i
      OBVIOUS
    <3> QED BY <2>1, <3>1, <1>1
  <2>2. ASSUME /\ cs[1].depth = 0
               /\ \A i \in 1 .. k - 1 : cs[i + 1].depth = cs[i].depth + FramesOf(cs[i])
        PROVE  \A i \in 1 .. k :
          cs[i].depth = IF i = 1 THEN 0 ELSE cs[i - 1].depth + FramesOf(cs[i - 1])
    <3>1. \A i \in 1 .. k : i # 1 => i - 1 \in 1 .. k - 1 /\ (i - 1) + 1 = i
      OBVIOUS
    <3> QED BY <2>2, <3>1
  <2> QED BY <2>1, <2>2
<1>3. Balanced(cs, fs) <=> /\ Chain(cs, k)
                            /\ FramesMatch(cs, fs, k)
                            /\ Len(fs) = cs[k].depth + FramesOf(cs[k])
  BY <1>1, <1>2 DEF Balanced, Chain, FramesMatch
<1> QED BY <1>1, <1>3 DEF Nested, WellPlaced, Rising, Placed

\* A C function that holds no frame goes from one of its phases to the next.
LEMMA PhaseStacks ==
  ASSUME NEW cs, NEW fs, NEW n \in Nat, Stacks(cs, fs, n), cs # << >>,
         ~Executing(cs[Len(cs)]), NEW p \in Phases, p # "stmt"
  PROVE  Stacks([cs EXCEPT ![Len(cs)].phase = p], fs, n)
<1>1. cs \in Seq(Activations) /\ fs \in Seq(ScopeIds) /\ Len(fs) <= StackMax
  BY DEF Stacks
<1>2. PICK k \in Nat \ {0} : k = Len(cs)
  BY <1>1
<1>3. /\ Chain(cs, k) /\ FramesMatch(cs, fs, k) /\ Len(fs) = cs[k].depth + FramesOf(cs[k])
      /\ Rising(cs, k) /\ Placed(cs, n, k)
  BY <1>1, <1>2, StacksAt DEF Stacks
<1> DEFINE ds == WithPhase(cs, k, p)
<1>4. ds \in Seq(Activations) /\ Len(ds) = k /\ Rephased(cs, ds, k, p)
  BY <1>1, <1>2, TopPhase
<1> HIDE DEF ds
<1>5. \A i \in 1 .. k : /\ Executing(ds[i]) = Executing(cs[i])
                        /\ FramesOf(ds[i]) = FramesOf(cs[i])
  BY <1>2, <1>4 DEF Executing, FramesOf, Rephased
<1>6. Chain(ds, k)
  <2>1. 1 \in 1 .. k /\ \A i \in 1 .. k - 1 : i \in 1 .. k /\ i + 1 \in 1 .. k
    OBVIOUS
  <2> QED BY <1>3, <1>4, <1>5, <2>1 DEF Chain, Rephased
<1>7. FramesMatch(ds, fs, k) /\ Len(fs) = ds[k].depth + FramesOf(ds[k])
  <2>1. k \in 1 .. k
    OBVIOUS
  <2> QED BY <1>3, <1>4, <1>5, <2>1 DEF FramesMatch, Rephased
<1>8. Rising(ds, k) /\ Placed(ds, n, k)
  BY <1>3, <1>4, <1>5 DEF Rising, Placed, Height, Rephased
<1>9. Balanced(ds, fs) /\ Nested(ds) /\ WellPlaced(ds, n)
  BY <1>4, <1>6, <1>7, <1>8, StacksAt
<1>10. Stacks(ds, fs, n)
  BY <1>1, <1>4, <1>9 DEF Stacks
<1> QED BY <1>2, <1>10 DEF ds, WithPhase

\* stack_push, for the statement the last activation begins.
LEMMA BeginStacks ==
  ASSUME NEW cs, NEW fs, NEW n \in Nat, n <= MaxScopes, Stacks(cs, fs, n), cs # << >>,
         cs[Len(cs)].kind = "run", ~Executing(cs[Len(cs)]), Len(fs) # StackMax
  PROVE  Stacks([cs EXCEPT ![Len(cs)].phase = "stmt"], Append(fs, cs[Len(cs)].scope), n)
<1>1. cs \in Seq(Activations) /\ fs \in Seq(ScopeIds) /\ Len(fs) <= StackMax
  BY DEF Stacks
<1>2. PICK k \in Nat \ {0} : k = Len(cs)
  BY <1>1
<1>3. /\ Chain(cs, k) /\ FramesMatch(cs, fs, k) /\ Len(fs) = cs[k].depth + FramesOf(cs[k])
      /\ Rising(cs, k) /\ Placed(cs, n, k)
  BY <1>1, <1>2, StacksAt DEF Stacks
<1> DEFINE ds == WithPhase(cs, k, "stmt")
           gs == Append(fs, cs[k].scope)
<1>4. ds \in Seq(Activations) /\ Len(ds) = k /\ Rephased(cs, ds, k, "stmt")
  <2>1. "stmt" \in Phases
    BY DEF Phases
  <2> QED BY <1>1, <1>2, <2>1, TopPhase
<1> HIDE DEF ds
<1>5. PICK m \in Nat : m = Len(fs) /\ m < StackMax
  BY <1>1, EvaluatorAssumption
<1>6. cs[k].scope \in ScopeIds
  <2>1. k \in 1 .. k
    OBVIOUS
  <2>2. cs[k].scope \in 1 .. n
    BY <2>1, <1>2, <1>3 DEF Placed
  <2> QED BY <2>2, EvaluatorAssumption DEF ScopeIds
<1>7. /\ gs \in Seq(ScopeIds) /\ Len(gs) = m + 1 /\ Len(gs) <= StackMax
      /\ \A j \in 1 .. m : gs[j] = fs[j]
      /\ gs[m + 1] = cs[k].scope
  BY <1>1, <1>5, <1>6, EvaluatorAssumption
<1> HIDE DEF gs
<1>8. \A i \in 1 .. k : cs[i].depth \in Nat
  <2>1. \A i \in 1 .. k : cs[i] \in Activations
    BY <1>1, <1>2
  <2> QED BY <2>1 DEF Activations
<1>9. /\ \A i \in 1 .. k : i # k => /\ Executing(ds[i]) = Executing(cs[i])
                                    /\ FramesOf(ds[i]) = FramesOf(cs[i])
      /\ Executing(ds[k]) /\ FramesOf(ds[k]) = 1 /\ FramesOf(cs[k]) = 0
  BY <1>2, <1>4 DEF Executing, FramesOf, Rephased
<1>10. cs[k].depth = m
  <2>1. k \in 1 .. k
    OBVIOUS
  <2> QED BY <2>1, <1>3, <1>5, <1>8, <1>9
<1>11. Rising(ds, k)
  <2>1. \A i, j \in 1 .. k : i < j => i # k
    OBVIOUS
  <2> QED BY <1>3, <1>4, <1>9, <2>1 DEF Rising, Rephased
<1>12. Placed(ds, n, k)
  <2>1. \A i \in 1 .. k : Height(ds[i]) = Height(cs[i])
    BY <1>4 DEF Height, Rephased
  <2> QED BY <1>2, <1>3, <1>4, <1>9, <2>1 DEF Placed, Rephased
<1>13. Chain(ds, k)
  <2>1. 1 \in 1 .. k /\ \A i \in 1 .. k - 1 : i \in 1 .. k /\ i # k /\ i + 1 \in 1 .. k
    OBVIOUS
  <2> QED BY <1>3, <1>4, <1>9, <2>1 DEF Chain, Rephased
<1>14. FramesMatch(ds, gs, k)
  <2> SUFFICES ASSUME NEW i \in 1 .. k, Executing(ds[i])
               PROVE  ds[i].depth < Len(gs) /\ gs[ds[i].depth + 1] = ds[i].scope
    BY DEF FramesMatch
  <2>0. ds[i].depth = cs[i].depth /\ ds[i].scope = cs[i].scope
    BY <1>4 DEF Rephased
  <2>1. CASE i = k
    BY <2>0, <2>1, <1>7, <1>10
  <2>2. CASE i # k
    <3>1. cs[i].depth < m /\ fs[cs[i].depth + 1] = cs[i].scope
      BY <2>2, <1>3, <1>5, <1>9 DEF FramesMatch
    <3>2. cs[i].depth + 1 \in 1 .. m /\ cs[i].depth < m + 1
      BY <3>1, <1>8
    <3> QED BY <2>0, <3>1, <3>2, <1>7
  <2> QED BY <2>1, <2>2
<1>15. Len(gs) = ds[k].depth + FramesOf(ds[k])
  <2>1. k \in 1 .. k
    OBVIOUS
  <2>2. ds[k].depth = m
    BY <2>1, <1>4, <1>10 DEF Rephased
  <2> QED BY <2>2, <1>7, <1>9
<1>16. Balanced(ds, gs) /\ Nested(ds) /\ WellPlaced(ds, n)
  BY <1>4, <1>11, <1>12, <1>13, <1>14, <1>15, StacksAt
<1>17. Stacks(ds, gs, n)
  BY <1>4, <1>7, <1>16 DEF Stacks
<1> QED BY <1>2, <1>17 DEF ds, gs, WithPhase

\* stack_pop, when a statement is done.
LEMMA EndStacks ==
  ASSUME NEW cs, NEW fs, NEW n \in Nat, Stacks(cs, fs, n), cs # << >>,
         Executing(cs[Len(cs)])
  PROVE  Stacks([cs EXCEPT ![Len(cs)].phase = "between"], SubSeq(fs, 1, Len(fs) - 1), n)
<1>1. cs \in Seq(Activations) /\ fs \in Seq(ScopeIds) /\ Len(fs) <= StackMax
  BY DEF Stacks
<1>2. PICK k \in Nat \ {0} : k = Len(cs)
  BY <1>1
<1>3. /\ Chain(cs, k) /\ FramesMatch(cs, fs, k) /\ Len(fs) = cs[k].depth + FramesOf(cs[k])
      /\ Rising(cs, k) /\ Placed(cs, n, k)
  BY <1>1, <1>2, StacksAt DEF Stacks
<1> DEFINE ds == WithPhase(cs, k, "between")
           gs == SubSeq(fs, 1, Len(fs) - 1)
<1>4. ds \in Seq(Activations) /\ Len(ds) = k /\ Rephased(cs, ds, k, "between")
  <2>1. "between" \in Phases
    BY DEF Phases
  <2> QED BY <1>1, <1>2, <2>1, TopPhase
<1> HIDE DEF ds
<1>5. \A i \in 1 .. k : cs[i].depth \in Nat
  <2>1. \A i \in 1 .. k : cs[i] \in Activations
    BY <1>1, <1>2
  <2> QED BY <2>1 DEF Activations
<1>6. /\ \A i \in 1 .. k : i # k => /\ Executing(ds[i]) = Executing(cs[i])
                                    /\ FramesOf(ds[i]) = FramesOf(cs[i])
      /\ ~Executing(ds[k]) /\ FramesOf(ds[k]) = 0 /\ FramesOf(cs[k]) = 1
  BY <1>2, <1>4 DEF Executing, FramesOf, Rephased
<1>7. PICK m \in Nat : m = cs[k].depth
  <2>1. k \in 1 .. k
    OBVIOUS
  <2> QED BY <2>1, <1>5
<1>8. Len(fs) = m + 1
  BY <1>3, <1>6, <1>7
<1>9. /\ gs \in Seq(ScopeIds) /\ Len(gs) = m /\ Len(gs) <= StackMax
      /\ \A j \in 1 .. m : gs[j] = fs[j]
  BY <1>1, <1>8, EvaluatorAssumption
<1> HIDE DEF gs
<1>10. \A i \in 1 .. k : i # k => cs[i].depth + FramesOf(cs[i]) <= m
  <2>1. \A i \in 1 .. k : i # k => i < k /\ k \in 1 .. k
    OBVIOUS
  <2> QED BY <1>3, <1>7, <2>1 DEF Rising
<1>11. Rising(ds, k)
  <2>1. \A i, j \in 1 .. k : i < j => i # k
    OBVIOUS
  <2> QED BY <1>3, <1>4, <1>6, <2>1 DEF Rising, Rephased
<1>12. Placed(ds, n, k)
  <2>1. \A i \in 1 .. k : Height(ds[i]) = Height(cs[i])
    BY <1>4 DEF Height, Rephased
  <2> QED BY <1>3, <1>4, <1>6, <2>1 DEF Placed, Rephased
<1>13. Chain(ds, k)
  <2>1. 1 \in 1 .. k /\ \A i \in 1 .. k - 1 : i \in 1 .. k /\ i # k /\ i + 1 \in 1 .. k
    OBVIOUS
  <2> QED BY <1>3, <1>4, <1>6, <2>1 DEF Chain, Rephased
<1>14. FramesMatch(ds, gs, k)
  <2> SUFFICES ASSUME NEW i \in 1 .. k, Executing(ds[i])
               PROVE  ds[i].depth < Len(gs) /\ gs[ds[i].depth + 1] = ds[i].scope
    BY DEF FramesMatch
  <2>1. ds[i].depth = cs[i].depth /\ ds[i].scope = cs[i].scope
    BY <1>4 DEF Rephased
  <2>2. i # k /\ Executing(cs[i]) /\ FramesOf(cs[i]) = 1
    BY <1>6 DEF FramesOf
  <2>3. fs[cs[i].depth + 1] = cs[i].scope
    BY <2>2, <1>3 DEF FramesMatch
  <2>4. cs[i].depth + 1 \in 1 .. m /\ cs[i].depth < m
    BY <2>2, <1>5, <1>10
  <2> QED BY <2>1, <2>3, <2>4, <1>9
<1>15. Len(gs) = ds[k].depth + FramesOf(ds[k])
  <2>1. k \in 1 .. k
    OBVIOUS
  <2>2. ds[k].depth = m
    BY <2>1, <1>4, <1>7 DEF Rephased
  <2> QED BY <2>2, <1>6, <1>9
<1>16. Balanced(ds, gs) /\ Nested(ds) /\ WellPlaced(ds, n)
  BY <1>4, <1>11, <1>12, <1>13, <1>14, <1>15, StacksAt
<1>17. Stacks(ds, gs, n)
  BY <1>4, <1>9, <1>16 DEF Stacks
<1> QED BY <1>2, <1>17 DEF ds, gs, WithPhase
-----------------------------------------------------------------------------
\* Scopes are only ever added.
LEMMA MoreScopes ==
  ASSUME NEW cs, NEW fs, NEW n \in Nat, NEW m \in Nat, n <= m, Stacks(cs, fs, n)
  PROVE  Stacks(cs, fs, m)
<1>1. 1 .. n \subseteq 1 .. m
  OBVIOUS
<1> QED BY <1>1 DEF Stacks, WellPlaced

\* A new subscope of scope d keeps the scopes well-formed.
LEMMA NewSubscope ==
  ASSUME Scopes(scopes), NEW d \in DOMAIN scopes, Len(scopes) < MaxScopes
  PROVE  /\ Scopes(Append(scopes, SubscopeOf(d)))
         /\ Len(Append(scopes, SubscopeOf(d))) = Len(scopes) + 1
<1> DEFINE S == [chain : SUBSET ScopeIds, ret : ErrIds \cup {NoErr}]
           n == Len(scopes)
           x == SubscopeOf(d)
<1>1. /\ scopes \in Seq(S) /\ n \in Nat /\ n >= 2 /\ n < MaxScopes /\ DOMAIN scopes = 1 .. n
      /\ \A s \in 1 .. n : s \in scopes[s].chain /\ scopes[s].chain \subseteq 1 .. s
  BY EvaluatorAssumption DEF Scopes
<1>2. x.chain = scopes[d].chain \cup {n + 1} /\ x.ret = NoErr
  BY DEF SubscopeOf
<1>3. scopes[d].chain \subseteq 1 .. n
  <2>1. d \in 1 .. n /\ scopes[d].chain \subseteq 1 .. d
    BY <1>1
  <2> QED BY <1>1, <2>1
<1>4. n + 1 \in x.chain /\ x.chain \subseteq 1 .. n + 1
  <2>1. 1 .. n \subseteq 1 .. n + 1 /\ n + 1 \in 1 .. n + 1
    BY <1>1
  <2> QED BY <1>2, <1>3, <2>1
<1>5. x \in S
  <2>1. 1 .. n + 1 \subseteq ScopeIds
    BY <1>1, EvaluatorAssumption DEF ScopeIds
  <2> QED BY <1>4, <2>1 DEF SubscopeOf
<1> HIDE DEF x, S
<1> DEFINE ss == Append(scopes, x)
<1>6. /\ ss \in Seq(S) /\ Len(ss) = n + 1 /\ DOMAIN ss = 1 .. n + 1
      /\ \A s \in 1 .. n : ss[s] = scopes[s]
      /\ ss[n + 1] = x
  BY <1>1, <1>5
<1>7. \A s \in 1 .. n + 1 : s \in ss[s].chain /\ ss[s].chain \subseteq 1 .. s
  <2>1. \A s \in 1 .. n + 1 : s \in 1 .. n \/ s = n + 1
    BY <1>1
  <2> HIDE DEF ss
  <2> QED BY <1>1, <1>4, <1>6, <2>1
<1>8. n + 1 \in 2 .. MaxScopes
  BY <1>1, EvaluatorAssumption
<1> QED BY <1>6, <1>7, <1>8 DEF Scopes, x, S

\* Setting or deleting the `return` of a scope does, too.
LEMMA SetRet ==
  ASSUME NEW ss, Scopes(ss), NEW s \in DOMAIN ss, NEW m \in ErrIds \cup {NoErr}
  PROVE  /\ Scopes([ss EXCEPT ![s].ret = m])
         /\ Len([ss EXCEPT ![s].ret = m]) = Len(ss)
<1> DEFINE S == [chain : SUBSET ScopeIds, ret : ErrIds \cup {NoErr}]
           ts == [ss EXCEPT ![s].ret = m]
<1>1. PICK n \in Nat : n = Len(ss) /\ DOMAIN ss = 1 .. n
  BY DEF Scopes
<1>2. \A t \in 1 .. n : ss[t] \in S
  <2>1. ss \in Seq(S)
    BY DEF Scopes
  <2> HIDE DEF S
  <2> QED BY <1>1, <2>1
<1>3. /\ DOMAIN ts = 1 .. n
      /\ \A t \in 1 .. n : ts[t] \in S /\ ts[t].chain = ss[t].chain
  BY <1>1, <1>2
<1>4. ts = [t \in 1 .. n |-> ts[t]]
  BY <1>1
<1>5. ts \in Seq(S) /\ Len(ts) = n
  <2> HIDE DEF ts, S
  <2> QED BY <1>3, <1>4
<1> HIDE DEF ts
<1>6. Scopes(ts)
  BY <1>1, <1>3, <1>5 DEF Scopes
<1> QED BY <1>1, <1>5, <1>6 DEF ts

\* Where there is room for a scope, the bound is not reached.
LEMMA RoomForOne ==
  ASSUME TypeOK, NEW n \in Nat \ {0}, RoomForScopes(n)
  PROVE  Len(scopes) < MaxScopes
<1> DEFINE I == {i \in DOMAIN calls : calls[i].phase = "trying"}
<1>1. Len(calls) \in Nat /\ DOMAIN calls = 1 .. Len(calls) /\ Len(scopes) \in Nat
  BY DEF TypeOK, Scopes
<1>2. IsFiniteSet(1 .. Len(calls))
  BY <1>1, FS_Interval
<1>3. IsFiniteSet(I)
  BY <1>1, <1>2, FS_Subset
<1>4. Cardinality(I) \in Nat
  BY <1>3, FS_CardinalityType
<1> QED BY <1>1, <1>4, EvaluatorAssumption DEF RoomForScopes

\* Freeing errors keeps the heap well-typed.
LEMMA CollectType ==
  ASSUME NEW heap \in [ErrIds -> Errors], Collect(heap)
  PROVE  errs' \in [ErrIds -> Errors]
<1>1. NoError \in Errors
  BY EvaluatorAssumption DEF NoError, Errors
<1> QED BY <1>1 DEF Collect

\* So does throwing one ...
LEMMA ThrownType ==
  ASSUME TypeOK, NEW heap \in [ErrIds -> Errors], NEW e \in ErrIds
  PROVE  Thrown(heap, e) \in [ErrIds -> Errors]
<1>1. Len(frames) \in 0 .. StackMax
  BY EvaluatorAssumption DEF TypeOK
<1>2. heap[e] \in Errors
  OBVIOUS
<1> DEFINE x == IF heap[e].stack = 0 THEN Len(frames) ELSE heap[e].stack
<1>3. x \in 0 .. StackMax
  BY <1>1, <1>2 DEF Errors
<1>4. [heap[e] EXCEPT !.stack = x] \in Errors
  BY <1>2, <1>3 DEF Errors
<1>5. Thrown(heap, e) = [heap EXCEPT ![e] = [heap[e] EXCEPT !.stack = x]]
  BY DEF Thrown
<1> QED BY <1>4, <1>5

\* ... and throwing a new one, which then is in flight.
LEMMA ThrowFmtType ==
  ASSUME TypeOK, NEW class \in Classes, ThrowFmt(class)
  PROVE  err' \in ErrIds /\ errs' \in [ErrIds -> Errors]
<1>1. PICK e \in ErrIds :
        /\ err' = e
        /\ Collect(Thrown([errs EXCEPT ![e] = [class |-> class, stack |-> 0]], e))
  BY DEF ThrowFmt
<1>2. [class |-> class, stack |-> 0] \in Errors
  BY EvaluatorAssumption DEF Errors
<1>3. [errs EXCEPT ![e] = [class |-> class, stack |-> 0]] \in [ErrIds -> Errors]
  BY <1>2 DEF TypeOK
<1>4. Thrown([errs EXCEPT ![e] = [class |-> class, stack |-> 0]], e) \in [ErrIds -> Errors]
  BY <1>3, ThrownType
<1> QED BY <1>1, <1>4, CollectType
-----------------------------------------------------------------------------
\* What TypeOK says beyond the two stacks.
Typed ==
  /\ result \in {"none", "ok", "fail", "value"}
  /\ err \in ErrIds \cup {NoErr}
  /\ errs \in [ErrIds -> Errors]
  /\ Scopes(scopes)
  /\ saved \subseteq ErrIds

\* The strengthening, part by part: what each step is shown to preserve.
LEMMA Parts ==
  /\ IInv <=> Typed /\ ErrIffFailing /\ Stacks(calls, frames, Len(scopes))
  /\ IInv' <=> (Typed /\ ErrIffFailing /\ Stacks(calls, frames, Len(scopes)))'
BY DEF IInv, TypeOK, Typed, Stacks

\* The number of scopes, and the place of the last activation on the C stack.
LEMMA TopFacts ==
  ASSUME IInv
  PROVE  /\ Len(scopes) \in Nat /\ Len(scopes) >= 2 /\ Len(scopes) <= MaxScopes
         /\ DOMAIN scopes = 1 .. Len(scopes)
         /\ Len(frames) \in 0 .. StackMax
         /\ calls # << >> =>
              /\ Top \in Activations
              /\ Executing(Top) => Top.kind = "run" /\ Len(calls) <= 3 * Len(frames)
              /\ ~Executing(Top) /\ Top.kind \in {"catch", "for"}
                   => Len(calls) <= 3 * Len(frames) + 1
              /\ Top.kind # "catch" => Top.scope \in 1 .. Len(scopes)
<1>1. /\ Len(scopes) \in Nat /\ Len(scopes) >= 2 /\ Len(scopes) <= MaxScopes
      /\ DOMAIN scopes = 1 .. Len(scopes)
      /\ Len(frames) \in 0 .. StackMax
      /\ calls \in Seq(Activations)
  BY EvaluatorAssumption DEF IInv, TypeOK, Scopes
<1>2. ASSUME calls # << >>
      PROVE  /\ Top \in Activations
             /\ Executing(Top) => Top.kind = "run" /\ Len(calls) <= 3 * Len(frames)
             /\ ~Executing(Top) /\ Top.kind \in {"catch", "for"}
                  => Len(calls) <= 3 * Len(frames) + 1
             /\ Top.kind # "catch" => Top.scope \in 1 .. Len(scopes)
  <2>1. PICK k \in Nat \ {0} : k = Len(calls)
    BY <1>1, <1>2
  <2>2. Top = calls[k] /\ Top \in Activations
    BY <1>1, <2>1 DEF Top
  <2>3. /\ Len(frames) = Top.depth + FramesOf(Top)
        /\ Placed(calls, Len(scopes), k)
    BY <1>1, <2>1, <2>2, StacksAt DEF IInv, Stacks
  <2>4. /\ Executing(Top) => Top.kind = "run"
        /\ Top.kind # "catch" => Top.scope \in 1 .. Len(scopes)
        /\ k <= Height(Top)
    <3>1. k \in 1 .. k
      OBVIOUS
    <3> QED BY <2>2, <2>3, <3>1 DEF Placed
  <2>5. Top.depth \in Nat
    BY <2>2 DEF Activations
  <2> QED BY <2>1, <2>2, <2>3, <2>4, <2>5 DEF Height, FramesOf
<1> QED BY <1>1, <1>2

\* Going to another phase calls and returns nothing.
LEMMA InPhaseLen ==
  ASSUME calls \in Seq(Activations), NEW p
  PROVE  Len(InPhase(p)) = Len(calls)
BY DEF InPhase

\* blockobject_run, called from the present depth.
LEMMA PushRun ==
  ASSUME TypeOK, NEW cs, NEW n \in Nat, n <= MaxScopes, Stacks(cs, frames, n),
         NEW s \in 1 .. n, Len(cs) + 1 <= 3 * Len(frames) + 3
  PROVE  Stacks(Append(cs, Run(s)), frames, n)
<1>1. Len(frames) \in 0 .. StackMax /\ s \in 0 .. MaxScopes /\ 0 \in 0 .. MaxErrors
  BY EvaluatorAssumption DEF TypeOK
<1>2. Run(s) \in Activations
  BY <1>1 DEF Run, Activations, Phases, NoErr
<1>3. /\ ~Executing(Run(s)) /\ Run(s).depth = Len(frames)
      /\ Run(s).scope \in 1 .. n /\ Len(cs) + 1 <= Height(Run(s))
  BY DEF Run, Executing, Height
<1> QED BY <1>2, <1>3, PushStacks

\* blockobject_runwithreturn and the blockobject_run it calls.
LEMMA PushRet ==
  ASSUME TypeOK, NEW cs, NEW n \in Nat, n <= MaxScopes, Stacks(cs, frames, n),
         NEW s \in 1 .. n, NEW m \in ErrIds, Len(cs) + 1 <= 3 * Len(frames) + 2
  PROVE  Stacks(Append(Append(cs, Ret(s, m)), Run(s)), frames, n)
<1>1. /\ Len(frames) \in 0 .. StackMax /\ s \in 0 .. MaxScopes /\ m \in 0 .. MaxErrors
      /\ Len(cs) \in Nat /\ Len(Append(cs, Ret(s, m))) = Len(cs) + 1
  BY EvaluatorAssumption DEF TypeOK, ErrIds, Stacks
<1>2. Ret(s, m) \in Activations
  BY <1>1 DEF Run, Ret, Activations, Phases
<1>3. /\ ~Executing(Ret(s, m)) /\ Ret(s, m).depth = Len(frames)
      /\ Ret(s, m).scope \in 1 .. n /\ Len(cs) + 1 <= Height(Ret(s, m))
  BY DEF Run, Ret, Executing, Height
<1>4. Stacks(Append(cs, Ret(s, m)), frames, n)
  BY <1>2, <1>3, PushStacks
<1>5. Len(Append(cs, Ret(s, m))) + 1 <= 3 * Len(frames) + 3
  BY <1>1
<1> QED BY <1>4, <1>5, PushRun

\* catch and its first block.
LEMMA PushCatch ==
  ASSUME TypeOK, NEW cs, NEW n \in Nat, n <= MaxScopes, Stacks(cs, frames, n),
         NEW s \in 1 .. n, NEW class \in Classes, Len(cs) + 1 <= 3 * Len(frames) + 1
  PROVE  Stacks(Append(Append(cs, Catch(class)), Run(s)), frames, n)
<1>1. /\ Len(frames) \in 0 .. StackMax /\ 0 \in 0 .. MaxScopes /\ 0 \in 0 .. MaxErrors
      /\ Len(cs) \in Nat /\ Len(Append(cs, Catch(class))) = Len(cs) + 1
  BY EvaluatorAssumption DEF TypeOK, Stacks
<1>2. Catch(class) \in Activations
  BY <1>1 DEF Run, Catch, Activations, Phases, NoErr
<1>3. /\ ~Executing(Catch(class)) /\ Catch(class).depth = Len(frames)
      /\ Catch(class).kind = "catch" /\ Len(cs) + 1 <= Height(Catch(class))
  BY DEF Run, Catch, Executing, Height
<1>4. Stacks(Append(cs, Catch(class)), frames, n)
  BY <1>2, <1>3, PushStacks
<1>5. Len(Append(cs, Catch(class))) + 1 <= 3 * Len(frames) + 3
  BY <1>1
<1> QED BY <1>4, <1>5, PushRun

\* for and its first block.
LEMMA PushFor ==
  ASSUME TypeOK, NEW cs, NEW n \in Nat, n <= MaxScopes, Stacks(cs, frames, n),
         NEW s \in 1 .. n, Len(cs) + 1 <= 3 * Len(frames) + 1
  PROVE  Stacks(Append(Append(cs, For(s)), Run(s)), frames, n)
<1>1. /\ Len(frames) \in 0 .. StackMax /\ s \in 0 .. MaxScopes /\ 0 \in 0 .. MaxErrors
      /\ Len(cs) \in Nat /\ Len(Append(cs, For(s))) = Len(cs) + 1
  BY EvaluatorAssumption DEF TypeOK, Stacks
<1>2. For(s) \in Activations
  BY <1>1 DEF Run, For, Activations, Phases, NoErr
<1>3. /\ ~Executing(For(s)) /\ For(s).depth = Len(frames)
      /\ For(s).scope \in 1 .. n /\ Len(cs) + 1 <= Height(For(s))
  BY DEF Run, For, Executing, Height
<1>4. Stacks(Append(cs, For(s)), frames, n)
  BY <1>2, <1>3, PushStacks
<1>5. Len(Append(cs, For(s))) + 1 <= 3 * Len(frames) + 3
  BY <1>1
<1> QED BY <1>4, <1>5, PushRun

\* Returning from any of them.
LEMMA Popped ==
  ASSUME IInv, calls # << >>, ~Executing(Top), calls' = Pop,
         UNCHANGED frames, scopes' = scopes
  PROVE  Stacks(calls, frames, Len(scopes))'
<1>1. Len(scopes) \in Nat /\ Stacks(calls, frames, Len(scopes))
  BY TopFacts DEF IInv
<1>2. Stacks(Pop, frames, Len(scopes))
  BY <1>1, PopStacks DEF Top, Pop
<1> QED BY <1>2

\* Nothing of the stacks changes.
LEMMA Untouched ==
  ASSUME IInv, UNCHANGED << calls, frames, scopes >>
  PROVE  Stacks(calls, frames, Len(scopes))'
BY DEF IInv

\* blockobject_runwithreturn: the marker is created, bound to `return` and
\* awaited; ss are the scopes and st the activations it finds.
LEMMA RunWithReturnStep ==
  ASSUME IInv, NEW st, NEW ss, Scopes(ss), NEW s \in 1 .. Len(ss),
         Stacks(st, frames, Len(ss)), Len(st) + 1 <= 3 * Len(frames) + 2,
         RunWithReturn(st, ss, s), UNCHANGED frames
  PROVE  /\ Scopes(scopes)'
         /\ errs' \in [ErrIds -> Errors]
         /\ Stacks(calls, frames, Len(scopes))'
<1>1. PICK m \in ErrIds :
        /\ scopes' = [ss EXCEPT ![s].ret = m]
        /\ calls' = Append(Append(st, Ret(s, m)), Run(s))
        /\ Collect([errs EXCEPT ![m] = [class |-> "MarkerError", stack |-> 0]])
  BY DEF RunWithReturn
<1>2. Len(ss) \in Nat /\ Len(ss) <= MaxScopes /\ s \in DOMAIN ss
  BY EvaluatorAssumption DEF Scopes
<1>3. Scopes(scopes') /\ Len(scopes') = Len(ss)
  BY <1>1, <1>2, SetRet
<1>4. errs' \in [ErrIds -> Errors]
  <2>1. [class |-> "MarkerError", stack |-> 0] \in Errors
    BY EvaluatorAssumption DEF Errors, Classes
  <2>2. [errs EXCEPT ![m] = [class |-> "MarkerError", stack |-> 0]] \in [ErrIds -> Errors]
    BY <2>1 DEF IInv, TypeOK
  <2> QED BY <1>1, <2>2, CollectType
<1>5. Stacks(Append(Append(st, Ret(s, m)), Run(s)), frames, Len(ss))
  BY <1>2, PushRet DEF IInv
<1> QED BY <1>1, <1>3, <1>4, <1>5
-----------------------------------------------------------------------------
\* The interpreter starts with empty stacks and nothing in flight.
LEMMA InitInv == Init => IInv
<1> SUFFICES ASSUME Init PROVE IInv
  OBVIOUS
<1> USE DEF Init
<1>1. Scopes(scopes)
  <2>1. BuiltinScope \in ScopeIds /\ FileScope \in ScopeIds
    BY EvaluatorAssumption DEF ScopeIds, BuiltinScope, FileScope
  <2>2. \A s \in 1 .. 2 : s \in scopes[s].chain /\ scopes[s].chain \subseteq 1 .. s
    BY DEF BuiltinScope, FileScope
  <2>3. scopes \in Seq([chain : SUBSET ScopeIds, ret : ErrIds \cup {NoErr}])
    BY <2>1
  <2>4. Len(scopes) = 2 /\ DOMAIN scopes = 1 .. 2 /\ 2 \in 2 .. MaxScopes
    BY EvaluatorAssumption
  <2> HIDE DEF Init
  <2> QED BY <2>2, <2>3, <2>4 DEF Scopes
<1>2. errs \in [ErrIds -> Errors]
  BY EvaluatorAssumption DEF NoError, Errors
<1>3. Typed
  BY <1>1, <1>2 DEF Typed
<1>4. ErrIffFailing
  BY DEF ErrIffFailing
<1>5. Stacks(calls, frames, Len(scopes))
  BY EvaluatorAssumption DEF Stacks, Balanced, Nested, WellPlaced
<1> QED BY <1>3, <1>4, <1>5, Parts

\* The steps outside of any C activation.
LEMMA FileStep == ASSUME IInv, File PROVE IInv'
<1>0. Typed /\ ErrIffFailing /\ TypeOK /\ Stacks(calls, frames, Len(scopes))
  BY Parts DEF IInv
<1>1. ASSUME StartFile PROVE IInv'
  <2>1. (Typed /\ ErrIffFailing)'
    BY <1>0, <1>1 DEF Typed, ErrIffFailing, StartFile
  <2>2. frames = << >>
    BY <1>0, <1>1 DEF Stacks, Balanced, StartFile
  <2>3. Stacks(Append(<< >>, Run(FileScope)), frames, Len(scopes))
    <3>1. FileScope \in 1 .. Len(scopes) /\ calls = << >>
      BY <1>1, TopFacts DEF FileScope, StartFile
    <3>2. Len(calls) + 1 <= 3 * Len(frames) + 3
      BY <3>1, <2>2
    <3> QED BY <1>0, <3>1, <3>2, PushRun, TopFacts
  <2>4. Append(<< >>, Run(FileScope)) = << Run(FileScope) >>
    OBVIOUS
  <2> QED BY <1>1, <2>1, <2>3, <2>4, Parts DEF StartFile
<1>2. ASSUME FileDone PROVE IInv'
  <2>1. errs' \in [ErrIds -> Errors]
    BY <1>0, <1>2, CollectType DEF Typed, FileDone
  <2>2. (Typed /\ ErrIffFailing)'
    BY <1>0, <1>2, <2>1 DEF Typed, ErrIffFailing, FileDone
  <2>3. Stacks(calls, frames, Len(scopes))'
    BY <1>2, Untouched DEF FileDone
  <2> QED BY <2>2, <2>3, Parts
<1> QED BY <1>1, <1>2 DEF File

\* The statement loop.
LEMMA BlockStep == ASSUME IInv, Block PROVE IInv'
<1>0. /\ Typed /\ ErrIffFailing /\ TypeOK /\ Stacks(calls, frames, Len(scopes))
      /\ Len(scopes) \in Nat /\ Len(scopes) <= MaxScopes
  BY Parts, TopFacts DEF IInv
<1>1. ASSUME BeginStatement PROVE IInv'
  <2>1. (Typed /\ ErrIffFailing)'
    BY <1>0, <1>1 DEF Typed, ErrIffFailing, BeginStatement
  <2>2. Stacks(InPhase("stmt"), Append(frames, Top.scope), Len(scopes))
    <3>1. /\ calls # << >> /\ Top.kind = "run" /\ ~Executing(Top)
          /\ Len(frames) # StackMax
      BY <1>1 DEF BeginStatement, At, Executing, StackFull
    <3> QED BY <1>0, <3>1, BeginStacks DEF Top, InPhase
  <2>3. Stacks(calls, frames, Len(scopes))'
    BY <1>1, <2>2 DEF BeginStatement, NeedsFrame, PushAlways
  <2> QED BY <2>1, <2>3, Parts
<1>2. ASSUME TooMuchRecursion PROVE IInv'
  <2>1. err' \in ErrIds /\ errs' \in [ErrIds -> Errors]
    BY <1>0, <1>2, ThrowFmtType DEF TooMuchRecursion, Classes
  <2>2. (Typed /\ ErrIffFailing)'
    BY <1>0, <1>2, <2>1 DEF Typed, ErrIffFailing, TooMuchRecursion, Return, NoErr, ErrIds
  <2>3. Stacks(calls, frames, Len(scopes))'
    BY <1>2, Popped DEF TooMuchRecursion, Return, At, Executing
  <2> QED BY <2>2, <2>3, Parts
<1>3. ASSUME EndBlock PROVE IInv'
  <2>1. (Typed /\ ErrIffFailing)'
    BY <1>0, <1>3 DEF Typed, ErrIffFailing, EndBlock, Return, At
  <2>2. Stacks(calls, frames, Len(scopes))'
    BY <1>3, Popped DEF EndBlock, Return, At, Executing
  <2> QED BY <2>1, <2>2, Parts
<1>4. ASSUME EndStatement PROVE IInv'
  <2>1. (Typed /\ ErrIffFailing)'
    BY <1>0, <1>4 DEF Typed, ErrIffFailing, EndStatement, StatementFails, StopBlock, Return, At
  <2>2. Stacks(InPhase("between"), PopFrame, Len(scopes))
    BY <1>0, <1>4, EndStacks DEF EndStatement, At, Executing, Top, InPhase, PopFrame
  <2>3. CASE calls' = InPhase("between")
    BY <1>4, <2>1, <2>2, <2>3, Parts DEF EndStatement, PoppedFrames
  <2>4. CASE calls' = Pop
    <3> DEFINE cs == InPhase("between")
               k == Len(calls)
    <3>1. calls \in Seq(Activations) /\ k \in Nat \ {0}
      BY <1>0, <1>4 DEF Stacks, EndStatement, At
    <3>2. cs \in Seq(Activations) /\ Len(cs) = k /\ Rephased(calls, cs, k, "between")
      <4>1. "between" \in Phases
        BY DEF Phases
      <4>2. cs = WithPhase(calls, k, "between")
        BY DEF InPhase, WithPhase
      <4> QED BY <3>1, <4>1, <4>2, TopPhase
    <3>3. cs # << >> /\ ~Executing(cs[Len(cs)])
      BY <3>1, <3>2 DEF Rephased, Executing
    <3>4. Stacks(SubSeq(cs, 1, k - 1), PopFrame, Len(scopes))
      BY <1>0, <2>2, <3>2, <3>3, PopStacks
    <3>5. SubSeq(cs, 1, k - 1) = Pop
      BY <3>1, <3>2 DEF Rephased, Pop
    <3> QED BY <1>4, <2>1, <2>4, <3>4, <3>5, Parts DEF EndStatement, PoppedFrames
  <2> QED BY <1>4, <2>3, <2>4 DEF EndStatement, StatementFails, StopBlock, Return
<1>5. ASSUME UseValue PROVE IInv'
  <2>1. (Typed /\ ErrIffFailing)'
    BY <1>0, <1>5 DEF Typed, ErrIffFailing, UseValue, At
  <2>2. Stacks(calls, frames, Len(scopes))'
    BY <1>5, Untouched DEF UseValue
  <2> QED BY <2>1, <2>2, Parts
<1>6. ASSUME NotAnAstNode PROVE IInv'
  <2>1. err' \in ErrIds /\ errs' \in [ErrIds -> Errors]
    BY <1>0, <1>6, ThrowFmtType DEF NotAnAstNode, Classes
  <2>2. (Typed /\ ErrIffFailing)'
    BY <1>0, <1>6, <2>1 DEF Typed, ErrIffFailing, NotAnAstNode, Return, NoErr, ErrIds
  <2>3. Stacks(calls, frames, Len(scopes))'
    BY <1>6, Popped DEF NotAnAstNode, Return, At, Executing
  <2> QED BY <2>2, <2>3, Parts
<1> QED BY <1>1, <1>2, <1>3, <1>4, <1>5, <1>6 DEF Block

\* What one statement does.
LEMMA StatementStep == ASSUME IInv, Statement PROVE IInv'
<1>0. /\ Typed /\ ErrIffFailing /\ TypeOK /\ Stacks(calls, frames, Len(scopes))
      /\ Len(scopes) \in Nat /\ Len(scopes) <= MaxScopes
      /\ DOMAIN scopes = 1 .. Len(scopes) /\ Scopes(scopes)
      /\ Len(frames) \in Nat
  BY Parts, TopFacts DEF IInv, TypeOK
<1>1. ASSUME PlainStatement PROVE IInv'
  <2>1. (Typed /\ ErrIffFailing)'
    BY <1>0, <1>1 DEF Typed, ErrIffFailing, PlainStatement, At
  <2> QED BY <1>1, <2>1, Untouched, Parts DEF PlainStatement
<1>2. ASSUME ThrowNew PROVE IInv'
  <2>1. err' \in ErrIds /\ errs' \in [ErrIds -> Errors]
    BY <1>0, <1>2, ThrowFmtType, EvaluatorAssumption DEF ThrowNew
  <2>2. (Typed /\ ErrIffFailing)'
    BY <1>0, <1>2, <2>1 DEF Typed, ErrIffFailing, ThrowNew, NoErr, ErrIds
  <2> QED BY <1>2, <2>2, Untouched, Parts DEF ThrowNew
<1>3. ASSUME Rethrow PROVE IInv'
  <2>1. PICK e \in saved : err' = e /\ Collect(Thrown(errs, e))
    BY <1>3 DEF Rethrow
  <2>2. e \in ErrIds /\ errs \in [ErrIds -> Errors]
    BY <1>0 DEF Typed
  <2>3. errs' \in [ErrIds -> Errors]
    BY <1>0, <2>1, <2>2, ThrownType, CollectType
  <2>4. (Typed /\ ErrIffFailing)'
    BY <1>0, <1>3, <2>1, <2>2, <2>3 DEF Typed, ErrIffFailing, Rethrow, NoErr, ErrIds
  <2> QED BY <1>3, <2>4, Untouched, Parts DEF Rethrow
<1>4. ASSUME CallReturn PROVE IInv'
  <2>1. PICK m \in ErrIds : err' = m /\ Collect(Thrown(errs, m))
    BY <1>4 DEF CallReturn
  <2>2. errs' \in [ErrIds -> Errors]
    BY <1>0, <2>1, ThrownType, CollectType DEF Typed
  <2>3. (Typed /\ ErrIffFailing)'
    BY <1>0, <1>4, <2>1, <2>2 DEF Typed, ErrIffFailing, CallReturn, NoErr, ErrIds
  <2> QED BY <1>4, <2>3, Untouched, Parts DEF CallReturn
<1>5. ASSUME NoVariableReturn PROVE IInv'
  <2>1. err' \in ErrIds /\ errs' \in [ErrIds -> Errors]
    BY <1>0, <1>5, ThrowFmtType DEF NoVariableReturn, Classes
  <2>2. (Typed /\ ErrIffFailing)'
    BY <1>0, <1>5, <2>1 DEF Typed, ErrIffFailing, NoVariableReturn, NoErr, ErrIds
  <2> QED BY <1>5, <2>2, Untouched, Parts DEF NoVariableReturn
<1>6. ASSUME RunInSubscope PROVE IInv'
  <2>1. PICK d \in DOMAIN scopes : scopes' = Append(scopes, SubscopeOf(d))
    BY <1>6 DEF RunInSubscope
  <2>2. Scopes(scopes)' /\ Len(scopes') = Len(scopes) + 1 /\ Len(scopes') <= MaxScopes
    <3>1. Len(scopes) < MaxScopes
      <4>1. RoomForScopes(1) /\ 1 \in Nat \ {0}
        BY <1>6 DEF RunInSubscope
      <4> QED BY <1>0, <4>1, RoomForOne
    <3>2. /\ Scopes(Append(scopes, SubscopeOf(d)))
          /\ Len(Append(scopes, SubscopeOf(d))) = Len(scopes) + 1
      BY <1>0, <3>1, NewSubscope
    <3> QED BY <1>0, <2>1, <3>1, <3>2, EvaluatorAssumption
  <2>3. (Typed /\ ErrIffFailing)'
    BY <1>0, <1>6, <2>2 DEF Typed, ErrIffFailing, RunInSubscope
  <2>4. Stacks(calls, frames, Len(scopes) + 1)
    BY <1>0, MoreScopes
  <2>5. Len(calls) + 1 <= 3 * Len(frames) + 3
    BY <1>0, <1>6, TopFacts DEF RunInSubscope, InStatement, At, Executing, Stacks
  <2>6. Stacks(Append(calls, Run(Len(scopes) + 1)), frames, Len(scopes) + 1)
    BY <1>0, <2>2, <2>4, <2>5, PushRun
  <2> QED BY <1>6, <2>2, <2>3, <2>6, Parts DEF RunInSubscope
<1>7. ASSUME RunInScope PROVE IInv'
  <2>1. PICK s \in 1 .. Len(scopes) : calls' = Append(calls, Run(s))
    BY <1>0, <1>7 DEF RunInScope
  <2>2. (Typed /\ ErrIffFailing)'
    BY <1>0, <1>7 DEF Typed, ErrIffFailing, RunInScope
  <2>3. Len(calls) + 1 <= 3 * Len(frames) + 3
    BY <1>0, <1>7, TopFacts DEF RunInScope, InStatement, At, Executing, Stacks
  <2>4. Stacks(Append(calls, Run(s)), frames, Len(scopes))
    BY <1>0, <2>3, PushRun
  <2> QED BY <1>7, <2>1, <2>2, <2>4, Parts DEF RunInScope
<1>8. ASSUME CallFunction PROVE IInv'
  <2>1. PICK d \in DOMAIN scopes :
          RunWithReturn(calls, Append(scopes, SubscopeOf(d)), Len(scopes) + 1)
    BY <1>8 DEF CallFunction, CallWithReturn, InNewSubscope
  <2> DEFINE ss == Append(scopes, SubscopeOf(d))
             n == Len(scopes) + 1
  <2>2. Scopes(ss) /\ Len(ss) = n /\ n \in 1 .. Len(ss)
    BY <1>0, <1>8, NewSubscope, RoomForOne DEF CallFunction
  <2>3. Stacks(calls, frames, n)
    BY <1>0, MoreScopes
  <2>4. Len(calls) + 1 <= 3 * Len(frames) + 2
    BY <1>0, <1>8, TopFacts DEF CallFunction, InStatement, At, Executing, Stacks
  <2> HIDE DEF ss
  <2>5. frames' = frames /\ RunWithReturn(calls, ss, n)
    BY <1>8, <2>1 DEF CallFunction, ss
  <2>6. Scopes(scopes)' /\ errs' \in [ErrIds -> Errors] /\ Stacks(calls, frames, Len(scopes))'
    BY <2>2, <2>3, <2>4, <2>5, RunWithReturnStep
  <2>7. (Typed /\ ErrIffFailing)'
    BY <1>0, <1>8, <2>6 DEF Typed, ErrIffFailing, CallFunction
  <2> QED BY <2>6, <2>7, Parts
<1>9. ASSUME RunWithReturnInScope PROVE IInv'
  <2>1. PICK s \in 1 .. Len(scopes) : RunWithReturn(calls, scopes, s)
    BY <1>0, <1>9 DEF RunWithReturnInScope
  <2>2. Len(calls) + 1 <= 3 * Len(frames) + 2
    BY <1>0, <1>9, TopFacts DEF RunWithReturnInScope, InStatement, At, Executing, Stacks
  <2>3. frames' = frames
    BY <1>9 DEF RunWithReturnInScope
  <2>4. Scopes(scopes)' /\ errs' \in [ErrIds -> Errors] /\ Stacks(calls, frames, Len(scopes))'
    BY <1>0, <2>1, <2>2, <2>3, RunWithReturnStep
  <2>5. (Typed /\ ErrIffFailing)'
    BY <1>0, <1>9, <2>4 DEF Typed, ErrIffFailing, RunWithReturnInScope
  <2> QED BY <2>4, <2>5, Parts
<1>10. ASSUME SetReturn PROVE IInv'
  <2>1. PICK m \in ErrIds, s \in DOMAIN scopes : scopes' = [scopes EXCEPT ![s].ret = m]
    BY <1>10 DEF SetReturn
  <2>2. Scopes(scopes)' /\ Len(scopes') = Len(scopes)
    BY <1>0, <2>1, SetRet
  <2>3. errs' \in [ErrIds -> Errors]
    BY <1>0, <1>10, CollectType DEF Typed, SetReturn
  <2>4. (Typed /\ ErrIffFailing)'
    BY <1>0, <1>10, <2>2, <2>3 DEF Typed, ErrIffFailing, SetReturn, InStatement, At
  <2>5. Stacks(calls, frames, Len(scopes))'
    BY <1>0, <1>10, <2>2 DEF SetReturn
  <2> QED BY <2>4, <2>5, Parts
<1>11. ASSUME DeleteReturn PROVE IInv'
  <2>1. PICK s \in DOMAIN scopes : scopes' = [scopes EXCEPT ![s].ret = NoErr]
    BY <1>11 DEF DeleteReturn
  <2>2. Scopes(scopes)' /\ Len(scopes') = Len(scopes)
    BY <1>0, <2>1, SetRet
  <2>3. errs' \in [ErrIds -> Errors]
    BY <1>0, <1>11, CollectType DEF Typed, DeleteReturn
  <2>4. (Typed /\ ErrIffFailing)'
    BY <1>0, <1>11, <2>2, <2>3 DEF Typed, ErrIffFailing, DeleteReturn, InStatement, At
  <2>5. Stacks(calls, frames, Len(scopes))'
    BY <1>0, <1>11, <2>2 DEF DeleteReturn
  <2> QED BY <2>4, <2>5, Parts
<1>12. ASSUME EnterCatch PROVE IInv'
  <2>1. PICK d \in DOMAIN scopes : scopes' = Append(scopes, SubscopeOf(d))
    BY <1>12 DEF EnterCatch
  <2>2. Scopes(scopes)' /\ Len(scopes') = Len(scopes) + 1 /\ Len(scopes') <= MaxScopes
    <3>1. Len(scopes) < MaxScopes
      <4>1. RoomForScopes(2) /\ 2 \in Nat \ {0}
        BY <1>12 DEF EnterCatch
      <4> QED BY <1>0, <4>1, RoomForOne
    <3>2. /\ Scopes(Append(scopes, SubscopeOf(d)))
          /\ Len(Append(scopes, SubscopeOf(d))) = Len(scopes) + 1
      BY <1>0, <3>1, NewSubscope
    <3> QED BY <1>0, <2>1, <3>1, <3>2, EvaluatorAssumption
  <2>3. (Typed /\ ErrIffFailing)'
    BY <1>0, <1>12, <2>2 DEF Typed, ErrIffFailing, EnterCatch
  <2>4. Stacks(calls, frames, Len(scopes) + 1)
    BY <1>0, MoreScopes
  <2>5. Len(calls) + 1 <= 3 * Len(frames) + 1
    BY <1>0, <1>12, TopFacts DEF EnterCatch, InStatement, At, Executing, Stacks
  <2>6. PICK class \in Classes : calls' = Append(Append(calls, Catch(class)), Run(Len(scopes) + 1))
    BY <1>12, EvaluatorAssumption DEF EnterCatch
  <2>7. Stacks(Append(Append(calls, Catch(class)), Run(Len(scopes) + 1)),
              frames, Len(scopes) + 1)
    BY <1>0, <2>2, <2>4, <2>5, PushCatch
  <2> QED BY <1>12, <2>2, <2>3, <2>6, <2>7, Parts DEF EnterCatch
<1>13. ASSUME EnterFor PROVE IInv'
  <2>1. PICK d \in DOMAIN scopes : scopes' = Append(scopes, SubscopeOf(d))
    BY <1>13 DEF EnterFor
  <2>2. Scopes(scopes)' /\ Len(scopes') = Len(scopes) + 1 /\ Len(scopes') <= MaxScopes
    <3>1. Len(scopes) < MaxScopes
      <4>1. RoomForScopes(1) /\ 1 \in Nat \ {0}
        BY <1>13 DEF EnterFor
      <4> QED BY <1>0, <4>1, RoomForOne
    <3>2. /\ Scopes(Append(scopes, SubscopeOf(d)))
          /\ Len(Append(scopes, SubscopeOf(d))) = Len(scopes) + 1
      BY <1>0, <3>1, NewSubscope
    <3> QED BY <1>0, <2>1, <3>1, <3>2, EvaluatorAssumption
  <2>3. (Typed /\ ErrIffFailing)'
    BY <1>0, <1>13, <2>2 DEF Typed, ErrIffFailing, EnterFor
  <2>4. Stacks(calls, frames, Len(scopes) + 1)
    BY <1>0, MoreScopes
  <2>5. Len(calls) + 1 <= 3 * Len(frames) + 1
    BY <1>0, <1>13, TopFacts DEF EnterFor, InStatement, At, Executing, Stacks
  <2>6. calls' = Append(Append(calls, For(Len(scopes) + 1)), Run(Len(scopes) + 1))
    BY <1>13 DEF EnterFor
  <2>7. Stacks(Append(Append(calls, For(Len(scopes) + 1)), Run(Len(scopes) + 1)),
              frames, Len(scopes) + 1)
    BY <1>0, <2>2, <2>4, <2>5, PushFor
  <2> QED BY <1>13, <2>2, <2>3, <2>6, <2>7, Parts DEF EnterFor
<1> QED BY <1>1, <1>2, <1>3, <1>4, <1>5, <1>6, <1>7, <1>8, <1>9, <1>10, <1>11, <1>12, <1>13
     DEF Statement

\* What follows when a called function has returned.
LEMMA CalleeStep == ASSUME IInv, Callee PROVE IInv'
<1>0. /\ Typed /\ ErrIffFailing /\ TypeOK /\ Stacks(calls, frames, Len(scopes))
      /\ Len(scopes) \in Nat /\ Len(scopes) <= MaxScopes
      /\ DOMAIN scopes = 1 .. Len(scopes) /\ Scopes(scopes)
      /\ Len(frames) \in Nat /\ errs \in [ErrIds -> Errors]
  BY Parts, TopFacts DEF IInv, TypeOK
<1>1. ASSUME ReturnNotCalled PROVE IInv'
  <2>1. err' \in ErrIds /\ errs' \in [ErrIds -> Errors]
    BY <1>0, <1>1, ThrowFmtType DEF ReturnNotCalled, Classes
  <2>2. (Typed /\ ErrIffFailing)'
    BY <1>0, <1>1, <2>1 DEF Typed, ErrIffFailing, ReturnNotCalled, Return, NoErr, ErrIds
  <2>3. Stacks(calls, frames, Len(scopes))'
    BY <1>1, Popped DEF ReturnNotCalled, Return, At, Executing
  <2> QED BY <2>2, <2>3, Parts
<1>2. ASSUME ReturnValue PROVE IInv'
  <2>1. /\ calls # << >> /\ Top.kind = "ret" /\ ~Executing(Top) /\ calls' = Pop
        /\ scopes' = [scopes EXCEPT ![Top.scope].ret = NoErr]
    BY <1>2 DEF ReturnValue, Return, At, Executing, WithoutReturn
  <2>2. Scopes(scopes)' /\ Len(scopes') = Len(scopes)
    BY <1>0, <2>1, SetRet, TopFacts
  <2>3. errs' \in [ErrIds -> Errors]
    BY <1>0, <1>2, CollectType DEF ReturnValue
  <2>4. (Typed /\ ErrIffFailing)'
    BY <1>0, <1>2, <2>2, <2>3 DEF Typed, ErrIffFailing, ReturnValue, Return
  <2>5. Stacks(Pop, frames, Len(scopes))
    BY <1>0, <2>1, PopStacks DEF Top, Pop
  <2> QED BY <1>2, <2>1, <2>2, <2>4, <2>5, Parts DEF ReturnValue
<1>3. ASSUME OtherError PROVE IInv'
  <2>1. /\ calls # << >> /\ Top.kind = "ret" /\ ~Executing(Top) /\ calls' = Pop
        /\ scopes' = [scopes EXCEPT ![Top.scope].ret = NoErr]
    BY <1>3 DEF OtherError, Return, At, Executing, DeleteReturner, WithoutReturn
  <2>2. Scopes(scopes)' /\ Len(scopes') = Len(scopes)
    BY <1>0, <2>1, SetRet, TopFacts
  <2>3. err \in ErrIds
    BY <1>0, <1>3 DEF OtherError, At, Typed, ErrIffFailing
  <2>4. errs' \in [ErrIds -> Errors]
    BY <1>0, <1>3, <2>3, ThrownType, CollectType DEF OtherError
  <2>5. (Typed /\ ErrIffFailing)'
    BY <1>0, <1>3, <2>2, <2>4 DEF Typed, ErrIffFailing, OtherError, Return, At
  <2>6. Stacks(Pop, frames, Len(scopes))
    BY <1>0, <2>1, PopStacks DEF Top, Pop
  <2> QED BY <1>3, <2>1, <2>2, <2>5, <2>6, Parts DEF OtherError
<1>4. ASSUME CatchPassesOn PROVE IInv'
  <2>1. (Typed /\ ErrIffFailing)'
    BY <1>0, <1>4 DEF Typed, ErrIffFailing, CatchPassesOn, Return
  <2>2. Stacks(calls, frames, Len(scopes))'
    BY <1>4, Popped DEF CatchPassesOn, Return, At, Executing
  <2> QED BY <2>1, <2>2, Parts
<1>5. ASSUME CatchCatches PROVE IInv'
  <2>1. PICK d \in DOMAIN scopes : scopes' = Append(scopes, SubscopeOf(d))
    BY <1>5 DEF CatchCatches
  <2>2. Scopes(scopes)' /\ Len(scopes') = Len(scopes) + 1 /\ Len(scopes') <= MaxScopes
    <3>1. Len(scopes) < MaxScopes
      BY <1>5 DEF CatchCatches
    <3>2. /\ Scopes(Append(scopes, SubscopeOf(d)))
          /\ Len(Append(scopes, SubscopeOf(d))) = Len(scopes) + 1
      BY <1>0, <3>1, NewSubscope
    <3> QED BY <1>0, <2>1, <3>1, <3>2, EvaluatorAssumption
  <2>3. err \in ErrIds
    BY <1>0, <1>5 DEF CatchCatches, At, Typed, ErrIffFailing
  <2>4. errs' \in [ErrIds -> Errors]
    BY <1>0, <1>5, CollectType DEF CatchCatches
  <2>5. saved' \subseteq ErrIds
    BY <1>0, <1>5, <2>3 DEF CatchCatches, Typed
  <2>6. (Typed /\ ErrIffFailing)'
    BY <1>0, <1>5, <2>2, <2>4, <2>5
    DEF Typed, ErrIffFailing, CatchCatches, ErrAfterCatch, Cleared
  <2>7. calls # << >> /\ ~Executing(Top) /\ Top.kind = "catch"
    BY <1>5 DEF CatchCatches, At, Executing
  <2>8. Stacks(InPhase("caught"), frames, Len(scopes) + 1)
    <3>1. "caught" \in Phases
      BY DEF Phases
    <3>2. Stacks(calls, frames, Len(scopes) + 1) /\ Len(scopes) + 1 \in Nat
      BY <1>0, MoreScopes
    <3> HIDE <1>0
    <3> QED BY <2>7, <3>1, <3>2, PhaseStacks DEF InPhase, Top
  <2>9. Len(InPhase("caught")) + 1 <= 3 * Len(frames) + 3
    BY <1>0, <2>7, TopFacts, InPhaseLen DEF Stacks
  <2>10. Stacks(Append(InPhase("caught"), Run(Len(scopes) + 1)), frames, Len(scopes) + 1)
    BY <1>0, <2>2, <2>8, <2>9, PushRun
  <2> QED BY <1>5, <2>2, <2>6, <2>10, Parts DEF CatchCatches
<1>6. ASSUME ForCondition PROVE IInv'
  <2>1. calls # << >> /\ ~Executing(Top) /\ Top.kind = "for"
    BY <1>6 DEF ForCondition, At, Executing
  <2>2. Stacks(InPhase("cond"), frames, Len(scopes))
    <3>1. "cond" \in Phases
      BY DEF Phases
    <3> QED BY <1>0, <2>1, <3>1, PhaseStacks DEF InPhase, Top
  <2>3. Len(InPhase("cond")) + 1 <= 3 * Len(frames) + 2
    BY <1>0, <2>1, TopFacts, InPhaseLen DEF Stacks
  <2>4. Top.scope \in 1 .. Len(scopes)
    BY <2>1, TopFacts
  <2>5. RunWithReturn(InPhase("cond"), scopes, Top.scope) /\ frames' = frames
    BY <1>6 DEF ForCondition
  <2>6. Scopes(scopes)' /\ errs' \in [ErrIds -> Errors] /\ Stacks(calls, frames, Len(scopes))'
    BY <1>0, <2>2, <2>3, <2>4, <2>5, RunWithReturnStep
  <2>7. (Typed /\ ErrIffFailing)'
    BY <1>0, <1>6, <2>6 DEF Typed, ErrIffFailing, ForCondition, At
  <2> QED BY <2>6, <2>7, Parts
<1>7. ASSUME ForBody PROVE IInv'
  <2>1. calls # << >> /\ ~Executing(Top) /\ Top.kind = "for"
    BY <1>7 DEF ForBody, At, Executing
  <2>2. Stacks(InPhase("body"), frames, Len(scopes))
    <3>1. "body" \in Phases
      BY DEF Phases
    <3> QED BY <1>0, <2>1, <3>1, PhaseStacks DEF InPhase, Top
  <2>3. Len(InPhase("body")) + 1 <= 3 * Len(frames) + 3
    BY <1>0, <2>1, TopFacts, InPhaseLen DEF Stacks
  <2>4. Stacks(Append(InPhase("body"), Run(Top.scope)), frames, Len(scopes))
    BY <1>0, <2>1, <2>2, <2>3, PushRun, TopFacts
  <2>5. (Typed /\ ErrIffFailing)'
    BY <1>0, <1>7 DEF Typed, ErrIffFailing, ForBody, At
  <2> QED BY <1>7, <2>4, <2>5, Parts DEF ForBody
<1>8. ASSUME ForIncrement PROVE IInv'
  <2>1. calls # << >> /\ ~Executing(Top) /\ Top.kind = "for"
    BY <1>8 DEF ForIncrement, At, Executing
  <2>2. Stacks(InPhase("incr"), frames, Len(scopes))
    <3>1. "incr" \in Phases
      BY DEF Phases
    <3> QED BY <1>0, <2>1, <3>1, PhaseStacks DEF InPhase, Top
  <2>3. Len(InPhase("incr")) + 1 <= 3 * Len(frames) + 3
    BY <1>0, <2>1, TopFacts, InPhaseLen DEF Stacks
  <2>4. Stacks(Append(InPhase("incr"), Run(Top.scope)), frames, Len(scopes))
    BY <1>0, <2>1, <2>2, <2>3, PushRun, TopFacts
  <2>5. (Typed /\ ErrIffFailing)'
    BY <1>0, <1>8 DEF Typed, ErrIffFailing, ForIncrement, At
  <2> QED BY <1>8, <2>4, <2>5, Parts DEF ForIncrement
<1>9. ASSUME ForEnds PROVE IInv'
  <2>1. (Typed /\ ErrIffFailing)'
    BY <1>0, <1>9 DEF Typed, ErrIffFailing, ForEnds, Return, At
  <2>2. Stacks(calls, frames, Len(scopes))'
    BY <1>9, Popped DEF ForEnds, Return, At, Executing
  <2> QED BY <2>1, <2>2, Parts
<1>10. ASSUME ForNotBool PROVE IInv'
  <2>1. err' \in ErrIds /\ errs' \in [ErrIds -> Errors]
    BY <1>0, <1>10, ThrowFmtType DEF ForNotBool, Classes
  <2>2. (Typed /\ ErrIffFailing)'
    BY <1>0, <1>10, <2>1 DEF Typed, ErrIffFailing, ForNotBool, Return, NoErr, ErrIds
  <2>3. Stacks(calls, frames, Len(scopes))'
    BY <1>10, Popped DEF ForNotBool, Return, At, Executing
  <2> QED BY <2>2, <2>3, Parts
<1>11. ASSUME ForFails PROVE IInv'
  <2>1. (Typed /\ ErrIffFailing)'
    BY <1>0, <1>11 DEF Typed, ErrIffFailing, ForFails, Return
  <2>2. ~Executing(Top)
    BY <1>11, TopFacts DEF ForFails
  <2>3. Stacks(calls, frames, Len(scopes))'
    BY <1>11, <2>2, Popped DEF ForFails, Return
  <2> QED BY <2>1, <2>3, Parts
<1>12. ASSUME ReturnerStays PROVE IInv'
  <2>1. err' \in ErrIds /\ errs' \in [ErrIds -> Errors]
    BY <1>0, <1>12, ThrowFmtType, EvaluatorAssumption DEF ReturnerStays, Classes
  <2>2. (Typed /\ ErrIffFailing)'
    BY <1>0, <1>12, <2>1 DEF Typed, ErrIffFailing, ReturnerStays, Return, NoErr, ErrIds
  <2>3. Stacks(calls, frames, Len(scopes))'
    BY <1>12, Popped DEF ReturnerStays, Return, At, Executing
  <2> QED BY <2>2, <2>3, Parts
<1> QED BY <1>1, <1>2, <1>3, <1>4, <1>5, <1>6, <1>7, <1>8, <1>9, <1>10, <1>11, <1>12 DEF Callee
-----------------------------------------------------------------------------
\* IInv is an invariant of every execution.
THEOREM Invariance == Spec => []IInv
<1>1. IInv /\ [Next]_vars => IInv'
  <2> SUFFICES ASSUME IInv, [Next]_vars PROVE IInv'
    OBVIOUS
  <2>1. CASE UNCHANGED vars
    <3>1. (Typed /\ ErrIffFailing)'
      BY <2>1 DEF vars, Typed, ErrIffFailing, IInv, TypeOK
    <3>2. Stacks(calls, frames, Len(scopes))'
      BY <2>1, Untouched DEF vars
    <3> QED BY <3>1, <3>2, Parts
  <2>2. CASE Next
    BY <2>2, FileStep, BlockStep, StatementStep, CalleeStep DEF Next
  <2> QED BY <2>1, <2>2
<1> QED BY InitInv, <1>1, PTL DEF Spec

\* Every reachable state is well-typed; the frames fit in interp->stack.
THEOREM TypeCorrect == Spec => []TypeOK
<1>1. IInv => TypeOK
  BY DEF IInv
<1> QED BY Invariance, <1>1, PTL

\* Every stack_push is paired with its stack_pop, on every way out of a
\* statement, however deep the calls.
THEOREM FramesBalanced == Spec => []StackBalanced
<1>1. IInv => StackBalanced
  BY DEF IInv, Stacks, StackBalanced
<1> QED BY Invariance, <1>1, PTL

\* interp->err is set exactly while a failure is being returned.
THEOREM ErrorsAreFailures == Spec => []ErrIffFailing
<1>1. IInv => ErrIffFailing
  BY DEF IInv
<1> QED BY Invariance, <1>1, PTL

\* STACK_MAX bounds the C stack, whatever the Ö program does.
THEOREM RecursionBounded == Spec => []NativeStackBounded
<1>1. IInv => NativeStackBounded
  <2> SUFFICES ASSUME IInv, calls # << >> PROVE Len(calls) <= 3 * StackMax + 3
    BY EvaluatorAssumption DEF NativeStackBounded
  <2>1. calls \in Seq(Activations)
    BY DEF IInv, TypeOK
  <2>2. PICK k \in Nat \ {0} : k = Len(calls)
    BY <2>1
  <2>3. k \in 1 .. k /\ Placed(calls, Len(scopes), k)
    BY <2>1, <2>2, StacksAt DEF IInv, Stacks
  <2>4. k <= Height(calls[k])
    BY <2>3 DEF Placed
  <2>5. calls[k].depth \in 0 .. StackMax
    <3>1. calls[k] \in Activations
      BY <2>1, <2>2
    <3> QED BY <3>1 DEF Activations
  <2> QED BY <2>2, <2>4, <2>5, EvaluatorAssumption DEF Height
<1> QED BY Invariance, <1>1, PTL
-----------------------------------------------------------------------------
\* The tracebacks of heap are those of errs, where errs has one.
Keeps(heap) == \A e \in ErrIds : errs[e].stack # 0 => heap[e].stack = errs[e].stack

Kept ==
  \A e \in ErrIds : errs[e].stack # 0 /\ errs'[e] # NoError => errs'[e].stack = errs[e].stack

\* Throwing an error, creating one and freeing some all keep the tracebacks.
LEMMA ThrownKeeps ==
  ASSUME NEW heap \in [ErrIds -> Errors], Keeps(heap), NEW e \in ErrIds
  PROVE  Keeps(Thrown(heap, e))
<1>1. \A f \in ErrIds :
        heap[f] \in Errors /\ (heap[f].stack # 0 => Thrown(heap, e)[f].stack = heap[f].stack)
  BY DEF Thrown, Errors
<1> QED BY <1>1 DEF Keeps

\* See ThrownKeeps.
LEMMA NewKeeps ==
  ASSUME TypeOK, NEW m \in ErrIds, Fresh(m), NEW x
  PROVE  Keeps([errs EXCEPT ![m] = x])
BY DEF TypeOK, Fresh, FreeErrs, Keeps, NoError

\* See ThrownKeeps.
LEMMA CollectKeeps ==
  ASSUME NEW heap \in [ErrIds -> Errors], Keeps(heap), Collect(heap)
  PROVE  Kept
BY DEF Collect, Keeps, Kept

\* See ThrownKeeps.
LEMMA ThrowFmtKeeps ==
  ASSUME TypeOK, NEW class \in Classes, ThrowFmt(class)
  PROVE  Kept
<1> DEFINE x == [class |-> class, stack |-> 0]
<1>1. PICK e \in ErrIds : Fresh(e) /\ Collect(Thrown([errs EXCEPT ![e] = x], e))
  BY DEF ThrowFmt
<1>2. x \in Errors
  BY EvaluatorAssumption DEF Errors
<1> HIDE DEF x
<1>3. [errs EXCEPT ![e] = x] \in [ErrIds -> Errors]
  BY <1>2 DEF TypeOK
<1>4. Keeps(Thrown([errs EXCEPT ![e] = x], e))
  BY <1>1, <1>3, NewKeeps, ThrownKeeps
<1>5. Thrown([errs EXCEPT ![e] = x], e) \in [ErrIds -> Errors]
  BY <1>3, ThrownType
<1> QED BY <1>1, <1>4, <1>5, CollectKeeps

\* See ThrownKeeps.
LEMMA RunWithReturnKeeps ==
  ASSUME TypeOK, NEW st, NEW ss, NEW s, RunWithReturn(st, ss, s)
  PROVE  Kept
<1> DEFINE x == [class |-> "MarkerError", stack |-> 0]
<1>1. PICK m \in ErrIds : Fresh(m) /\ Collect([errs EXCEPT ![m] = x])
  BY DEF RunWithReturn
<1>2. x \in Errors
  BY EvaluatorAssumption DEF Errors, Classes
<1> HIDE DEF x
<1>3. [errs EXCEPT ![m] = x] \in [ErrIds -> Errors]
  BY <1>2 DEF TypeOK
<1> QED BY <1>1, <1>3, NewKeeps, CollectKeeps

\* An error's first traceback is its only one.
THEOREM TracebacksStable == Spec => FirstTracebackKept
<1>1. IInv /\ [Next]_vars => [Kept]_vars
  <2> SUFFICES ASSUME IInv, Next PROVE Kept
    OBVIOUS
  <2>0. TypeOK /\ errs \in [ErrIds -> Errors] /\ saved \subseteq ErrIds /\ Keeps(errs)
    BY DEF IInv, TypeOK, Keeps
  <2>1. CASE UNCHANGED errs
    BY <2>1 DEF Kept
  <2>2. CASE Collect(errs)
    BY <2>0, <2>2, CollectKeeps
  <2>3. CASE \E e \in ErrIds : Collect(Thrown(errs, e))
    BY <2>0, <2>3, ThrownKeeps, ThrownType, CollectKeeps
  <2>4. CASE \E class \in Classes : ThrowFmt(class)
    BY <2>0, <2>4, ThrowFmtKeeps
  <2>5. CASE \E st, ss, s : RunWithReturn(st, ss, s)
    BY <2>0, <2>5, RunWithReturnKeeps
  <2>6. CASE File
    BY <2>1, <2>2, <2>6 DEF File, StartFile, FileDone
  <2>7. CASE Block
    BY <2>1, <2>4, <2>7
    DEF Block, BeginStatement, TooMuchRecursion, NotAnAstNode, EndBlock, EndStatement, UseValue, Classes
  <2>8. CASE Statement
    <3>1. CASE ThrowNew \/ NoVariableReturn
      BY <2>4, <3>1, EvaluatorAssumption DEF ThrowNew, NoVariableReturn, Classes
    <3>2. CASE Rethrow \/ CallReturn
      BY <2>0, <2>3, <3>2 DEF Rethrow, CallReturn
    <3>3. CASE CallFunction \/ RunWithReturnInScope
      BY <2>5, <3>3 DEF CallFunction, CallWithReturn, InNewSubscope, RunWithReturnInScope
    <3>4. CASE SetReturn \/ DeleteReturn
      BY <2>2, <3>4 DEF SetReturn, DeleteReturn
    <3>5. CASE PlainStatement \/ RunInSubscope \/ RunInScope \/ EnterCatch \/ EnterFor
      BY <2>1, <3>5 DEF PlainStatement, RunInSubscope, RunInScope, EnterCatch, EnterFor
    <3> QED BY <2>8, <3>1, <3>2, <3>3, <3>4, <3>5 DEF Statement
  <2>9. CASE Callee
    <3>1. CASE ReturnNotCalled \/ ForNotBool \/ ReturnerStays
      BY <2>4, <3>1, EvaluatorAssumption DEF ReturnNotCalled, ForNotBool, ReturnerStays, Classes
    <3>2. CASE OtherError
      <4>1. err \in ErrIds
        BY <3>2 DEF IInv, TypeOK, ErrIffFailing, OtherError, At
      <4> QED BY <2>3, <3>2, <4>1 DEF OtherError
    <3>3. CASE ForCondition
      BY <2>5, <3>3 DEF ForCondition
    <3>4. CASE ReturnValue \/ CatchCatches
      BY <2>2, <3>4 DEF ReturnValue, CatchCatches
    <3>5. CASE CatchPassesOn \/ ForBody \/ ForIncrement \/ ForEnds \/ ForFails
      BY <2>1, <3>5 DEF CatchPassesOn, ForBody, ForIncrement, ForEnds, ForFails
    <3> QED BY <2>9, <3>1, <3>2, <3>3, <3>4, <3>5 DEF Callee
  <2> QED BY <2>6, <2>7, <2>8, <2>9 DEF Next
<1>2. Spec => [][Kept]_vars
  BY Invariance, <1>1, PTL DEF Spec
<1> QED BY <1>2 DEF FirstTracebackKept, Kept
-----------------------------------------------------------------------------
(***************************************************************************)
(* `return`.  In a program that leaves `return` to the functions that make *)
(* it, runs no block in a scope of its choice and catches neither markers  *)
(* nor every Error, a marker is bound in the scope of the one returning    *)
(* block that made it, from the moment it is made to the end of the block. *)
(***************************************************************************)
StructuredProgram ==
  /\ Program \cap {"run", "run_with_return", "set_return", "delete_return", "fall_through",
                 "odd_keys"} = {}
  /\ CatchClasses \cap {"Error", "MarkerError"} = {}

\* No two returning blocks share a scope, nor do two for loops; a returning
\* block shares one with a for only as the condition of it.  What a returning
\* block runs is a block, so that `catch` and `for` return to a statement.
OwnReturns(cs, ss) ==
  /\ \A i \in DOMAIN cs :
       /\ cs[i].kind = "ret" => cs[i].marker # NoErr /\ ss[cs[i].scope].ret = cs[i].marker
       /\ cs[i].kind = "ret" /\ i + 1 \in DOMAIN cs => cs[i + 1].kind = "run"
       /\ cs[i].kind \in {"ret", "for"} => cs[i].scope \in DOMAIN ss
       /\ cs[i].kind = "catch" => cs[i].class \in CatchClasses
  /\ \A i, j \in DOMAIN cs :
       cs[i].scope = cs[j].scope =>
         /\ cs[i].kind = cs[j].kind /\ cs[i].kind \in {"ret", "for"} => i = j
         /\ cs[i].kind = "ret" /\ cs[j].kind = "for" => i = j + 1
  /\ \A s \in DOMAIN ss :
       ss[s].ret # NoErr => \E i \in DOMAIN cs : cs[i].kind = "ret" /\ cs[i].scope = s

SavedErrors == \A e \in saved : errs[e].class \notin {"none", "MarkerError"}

RInv ==
  /\ OwnReturns(calls, scopes)
  /\ result = "ok" /\ calls # << >> => Top.kind # "ret"
  /\ SavedErrors
  /\ ReturnFindsOwner

\* A C function returns that did not make a `return`.
LEMMA OwnPop ==
  ASSUME NEW cs \in Seq(Activations), NEW ss, OwnReturns(cs, ss),
         cs # << >>, cs[Len(cs)].kind # "ret"
  PROVE  OwnReturns(SubSeq(cs, 1, Len(cs) - 1), ss)
<1> DEFINE ds == SubSeq(cs, 1, Len(cs) - 1)
<1>1. PICK k \in Nat : Len(cs) = k + 1 /\ DOMAIN cs = 1 .. k + 1
  <2>1. Len(cs) - 1 \in Nat /\ Len(cs) = (Len(cs) - 1) + 1 /\ DOMAIN cs = 1 .. Len(cs)
    OBVIOUS
  <2> QED BY <2>1
<1>2. DOMAIN ds = 1 .. k /\ \A i \in 1 .. k : ds[i] = cs[i]
  BY <1>1
<1> HIDE DEF ds
<1>3. 1 .. k \subseteq 1 .. k + 1 /\ \A i \in 1 .. k + 1 : i # k + 1 => i \in 1 .. k
  OBVIOUS
<1>4. \A s \in DOMAIN ss :
        ss[s].ret # NoErr => \E i \in DOMAIN ds : ds[i].kind = "ret" /\ ds[i].scope = s
  BY <1>1, <1>2, <1>3 DEF OwnReturns
<1> QED BY <1>1, <1>2, <1>3, <1>4 DEF OwnReturns, ds

\* One returns that did, and takes it from its scope.
LEMMA OwnPopReturn ==
  ASSUME NEW cs \in Seq(Activations), NEW ss, Scopes(ss), OwnReturns(cs, ss),
         cs # << >>, cs[Len(cs)].kind = "ret"
  PROVE  OwnReturns(SubSeq(cs, 1, Len(cs) - 1), [ss EXCEPT ![cs[Len(cs)].scope].ret = NoErr])
<1> DEFINE ds == SubSeq(cs, 1, Len(cs) - 1)
           ts == [ss EXCEPT ![cs[Len(cs)].scope].ret = NoErr]
<1>1. PICK k \in Nat : Len(cs) = k + 1 /\ DOMAIN cs = 1 .. k + 1
  <2>1. Len(cs) - 1 \in Nat /\ Len(cs) = (Len(cs) - 1) + 1 /\ DOMAIN cs = 1 .. Len(cs)
    OBVIOUS
  <2> QED BY <2>1
<1>2. DOMAIN ds = 1 .. k /\ \A i \in 1 .. k : ds[i] = cs[i]
  BY <1>1
<1> HIDE DEF ds
<1>3. /\ 1 .. k \subseteq 1 .. k + 1 /\ \A i \in 1 .. k + 1 : i # k + 1 => i \in 1 .. k
      /\ \A i \in 1 .. k : i # k + 1
      /\ k + 1 \in 1 .. k + 1
  OBVIOUS
<1>4. DOMAIN ts = DOMAIN ss /\ \A s \in DOMAIN ss : s # cs[k + 1].scope => ts[s] = ss[s]
  BY <1>1
<1>5. \A s \in DOMAIN ss : ts[s].ret # NoErr => s # cs[k + 1].scope /\ ss[s].ret # NoErr
  BY <1>1
<1> HIDE DEF ts
<1>6. \A i \in 1 .. k : cs[i].kind = "ret" => cs[i].scope # cs[k + 1].scope
  BY <1>1, <1>3 DEF OwnReturns
<1>7. \A s \in DOMAIN ts :
        ts[s].ret # NoErr => \E i \in DOMAIN ds : ds[i].kind = "ret" /\ ds[i].scope = s
  BY <1>1, <1>2, <1>3, <1>4, <1>5 DEF OwnReturns
<1>8. \A i \in DOMAIN ds : ds[i].kind = "ret" => ts[ds[i].scope].ret = ds[i].marker
  BY <1>1, <1>2, <1>3, <1>4, <1>6 DEF OwnReturns
<1> QED BY <1>1, <1>2, <1>3, <1>7, <1>8 DEF OwnReturns, ds, ts

\* One is called, and if it is blockobject_runwithreturn it puts its marker
\* into a scope that no other one uses.
LEMMA OwnPush ==
  ASSUME NEW cs \in Seq(Activations), NEW ss, Scopes(ss), NEW ts, NEW a, OwnReturns(cs, ss),
         cs # << >> /\ cs[Len(cs)].kind = "ret" => a.kind = "run",
         a.kind = "catch" => a.class \in CatchClasses,
         a.kind = "ret" => a.marker # NoErr,
         \A i \in DOMAIN cs :
           cs[i].scope = a.scope =>
             /\ a.kind \in {"ret", "for"} => cs[i].kind # "ret"
             /\ a.kind = "for" => cs[i].kind # "for"
             /\ a.kind = "ret" /\ cs[i].kind = "for" => i = Len(cs),
         ts = IF a.kind = "ret" THEN [ss EXCEPT ![a.scope].ret = a.marker] ELSE ss,
         a.kind \in {"ret", "for"} => a.scope \in DOMAIN ss
  PROVE  OwnReturns(Append(cs, a), ts)
<1> DEFINE ds == Append(cs, a)
<1>1. PICK k \in Nat : Len(cs) = k /\ DOMAIN cs = 1 .. k
  OBVIOUS
<1>2. DOMAIN ds = 1 .. k + 1 /\ (\A i \in 1 .. k : ds[i] = cs[i]) /\ ds[k + 1] = a
  BY <1>1
<1> HIDE DEF ds
<1>3. /\ 1 .. k \subseteq 1 .. k + 1 /\ \A i \in 1 .. k + 1 : i # k + 1 => i \in 1 .. k
      /\ k + 1 \in 1 .. k + 1
      /\ \A i \in 1 .. k : i # k + 1 /\ (i # k => i + 1 \in 1 .. k)
      /\ k + 2 \notin 1 .. k + 1 /\ (k + 1) + 1 = k + 2
      /\ k # 0 => k \in 1 .. k
      /\ k = 0 => 1 .. k = {}
  OBVIOUS
<1>4. DOMAIN ts = DOMAIN ss
  OBVIOUS
<1>5. \A s \in DOMAIN ss : ss[s] \in [chain : SUBSET ScopeIds, ret : ErrIds \cup {NoErr}]
  <2> DEFINE S == [chain : SUBSET ScopeIds, ret : ErrIds \cup {NoErr}]
  <2>1. ss \in Seq(S)
    BY DEF Scopes
  <2> HIDE DEF S
  <2>2. \A s \in DOMAIN ss : ss[s] \in S
    BY <2>1
  <2> QED BY <2>2 DEF S
<1>6. \A s \in DOMAIN ss : ts[s] = ss[s] \/ (a.kind = "ret" /\ s = a.scope /\ ts[s].ret = a.marker)
  BY <1>5
<1>7. a.kind = "ret" => ts[a.scope].ret = a.marker
  BY <1>5
<1>8. \A i \in DOMAIN ds :
        ds[i].kind = "ret" => ds[i].marker # NoErr /\ ts[ds[i].scope].ret = ds[i].marker
  <2> SUFFICES ASSUME NEW i \in 1 .. k + 1, ds[i].kind = "ret"
               PROVE  ds[i].marker # NoErr /\ ts[ds[i].scope].ret = ds[i].marker
    BY <1>2
  <2>1. CASE i = k + 1
    BY <1>2, <1>7, <2>1
  <2>2. CASE i \in 1 .. k
    <3>1. cs[i].kind = "ret" /\ cs[i].marker # NoErr /\ ss[cs[i].scope].ret = cs[i].marker
          /\ cs[i].scope \in DOMAIN ss
      BY <1>1, <1>2, <2>2 DEF OwnReturns
    <3>2. a.kind = "ret" => cs[i].scope # a.scope
      BY <1>1, <2>2, <3>1
    <3> QED BY <1>2, <1>6, <2>2, <3>1, <3>2
  <2> QED BY <1>3, <2>1, <2>2
<1>9. \A i \in DOMAIN ds : ds[i].kind = "ret" /\ i + 1 \in DOMAIN ds => ds[i + 1].kind = "run"
  <2> SUFFICES ASSUME NEW i \in 1 .. k + 1, ds[i].kind = "ret", i + 1 \in 1 .. k + 1
               PROVE  ds[i + 1].kind = "run"
    BY <1>2
  <2>1. i \in 1 .. k
    BY <1>3
  <2>2. CASE i = k
    <3>1. cs # << >>
      BY <1>1, <2>1, <2>2
    <3> QED BY <1>1, <1>2, <2>1, <2>2, <3>1
  <2>3. CASE i # k
    BY <1>1, <1>2, <1>3, <2>1, <2>3 DEF OwnReturns
  <2> QED BY <2>2, <2>3
<1>10. \A i \in DOMAIN ds :
        /\ ds[i].kind \in {"ret", "for"} => ds[i].scope \in DOMAIN ts
        /\ ds[i].kind = "catch" => ds[i].class \in CatchClasses
  BY <1>1, <1>2, <1>3, <1>4 DEF OwnReturns
<1>11. \A i, j \in DOMAIN ds :
         ds[i].scope = ds[j].scope =>
           /\ ds[i].kind = ds[j].kind /\ ds[i].kind \in {"ret", "for"} => i = j
           /\ ds[i].kind = "ret" /\ ds[j].kind = "for" => i = j + 1
  <2> SUFFICES ASSUME NEW i \in 1 .. k + 1, NEW j \in 1 .. k + 1, ds[i].scope = ds[j].scope
               PROVE  /\ ds[i].kind = ds[j].kind /\ ds[i].kind \in {"ret", "for"} => i = j
                      /\ ds[i].kind = "ret" /\ ds[j].kind = "for" => i = j + 1
    BY <1>2
  <2>1. CASE i \in 1 .. k /\ j \in 1 .. k
    BY <1>1, <1>2, <2>1 DEF OwnReturns
  <2>2. CASE i = k + 1 /\ j \in 1 .. k
    BY <1>1, <1>2, <2>2
  <2>3. CASE i \in 1 .. k /\ j = k + 1
    BY <1>1, <1>2, <2>3
  <2>4. CASE i = k + 1 /\ j = k + 1
    BY <2>4
  <2> QED BY <1>3, <2>1, <2>2, <2>3, <2>4
<1>12. \A s \in DOMAIN ts :
         ts[s].ret # NoErr => \E i \in DOMAIN ds : ds[i].kind = "ret" /\ ds[i].scope = s
  <2> SUFFICES ASSUME NEW s \in DOMAIN ss, ts[s].ret # NoErr
               PROVE  \E i \in 1 .. k + 1 : ds[i].kind = "ret" /\ ds[i].scope = s
    BY <1>2, <1>4
  <2>1. CASE ts[s] = ss[s]
    <3>1. PICK i \in 1 .. k : cs[i].kind = "ret" /\ cs[i].scope = s
      BY <1>1, <2>1 DEF OwnReturns
    <3> QED BY <1>2, <1>3, <3>1
  <2>2. CASE a.kind = "ret" /\ s = a.scope
    BY <1>2, <1>3, <2>2
  <2> QED BY <1>6, <2>1, <2>2
<1> QED BY <1>8, <1>9, <1>10, <1>11, <1>12 DEF OwnReturns, ds

\* A new subscope has no `return`, and nothing that runs uses it.
LEMMA OwnScope ==
  ASSUME NEW cs, NEW ss, NEW x, OwnReturns(cs, ss), ss \in Seq(x), NEW y, y.ret = NoErr
  PROVE  OwnReturns(cs, Append(ss, y))
<1> DEFINE ts == Append(ss, y)
<1>1. PICK n \in Nat : n = Len(ss) /\ DOMAIN ss = 1 .. n
  OBVIOUS
<1>2. DOMAIN ts = 1 .. n + 1 /\ (\A s \in 1 .. n : ts[s] = ss[s]) /\ ts[n + 1] = y
  BY <1>1
<1> HIDE DEF ts
<1>3. \A s \in 1 .. n + 1 : s # n + 1 => s \in 1 .. n
  OBVIOUS
<1>4. \A s \in DOMAIN ts : ts[s].ret # NoErr => s \in DOMAIN ss /\ ss[s].ret # NoErr
  BY <1>1, <1>2, <1>3
<1>5. \A i \in DOMAIN cs :
        cs[i].kind \in {"ret", "for"} =>
          cs[i].scope \in DOMAIN ts /\ ts[cs[i].scope] = ss[cs[i].scope]
  <2>1. \A s \in 1 .. n : s \in 1 .. n + 1
    OBVIOUS
  <2> QED BY <1>1, <1>2, <2>1 DEF OwnReturns
<1> QED BY <1>4, <1>5 DEF OwnReturns, ts

\* The phases do not matter.
LEMMA OwnPhase ==
  ASSUME NEW cs \in Seq(Activations), NEW ss, OwnReturns(cs, ss), cs # << >>, NEW p
  PROVE  OwnReturns([cs EXCEPT ![Len(cs)].phase = p], ss)
<1> DEFINE ds == [cs EXCEPT ![Len(cs)].phase = p]
<1>1. DOMAIN ds = DOMAIN cs /\ DOMAIN cs = 1 .. Len(cs)
  OBVIOUS
<1>2. \A i \in DOMAIN cs : cs[i] \in Activations
  OBVIOUS
<1>3. \A i \in DOMAIN cs : /\ ds[i].kind = cs[i].kind /\ ds[i].scope = cs[i].scope
                           /\ ds[i].marker = cs[i].marker /\ ds[i].class = cs[i].class
  BY <1>1, <1>2 DEF Activations
<1> HIDE DEF ds
<1>4. \A i \in DOMAIN cs : i + 1 \in DOMAIN cs => ds[i + 1].kind = cs[i + 1].kind
  BY <1>3
<1> QED BY <1>1, <1>3, <1>4 DEF OwnReturns, ds

\* blockobject_run, in any scope.
LEMMA OwnRun ==
  ASSUME NEW cs \in Seq(Activations), NEW ss, Scopes(ss), OwnReturns(cs, ss), NEW s
  PROVE  OwnReturns(Append(cs, Run(s)), ss)
<1>1. Run(s).kind = "run"
  BY DEF Run
<1> QED BY <1>1, OwnPush

\* blockobject_runwithreturn in scope s, in which nothing else runs but a for
\* that calls it for its condition.
LEMMA OwnRet ==
  ASSUME NEW cs \in Seq(Activations), NEW ss, Scopes(ss), OwnReturns(cs, ss),
         Scopes(scopes), Len(frames) \in 0 .. StackMax,
         cs # << >>, cs[Len(cs)].kind # "ret", NEW s \in DOMAIN ss, NEW m \in ErrIds,
         \A i \in DOMAIN cs :
           cs[i].scope = s =>
             cs[i].kind # "ret" /\ (cs[i].kind = "for" => i = Len(cs))
  PROVE  OwnReturns(Append(Append(cs, Ret(s, m)), Run(s)), [ss EXCEPT ![s].ret = m])
<1> DEFINE a == Ret(s, m)
           ts == [ss EXCEPT ![s].ret = m]
<1>1. /\ a.kind = "ret" /\ a.scope = s /\ a.marker = m
  BY DEF Ret, Run
<1>2. m # NoErr
  BY DEF ErrIds, NoErr
<1>3. a \in Activations
  <2>1. s \in 0 .. MaxScopes /\ m \in 0 .. MaxErrors
    BY EvaluatorAssumption DEF Scopes, ErrIds
  <2> QED BY <2>1 DEF Ret, Run, Activations, Phases
<1> HIDE DEF a
<1>4. OwnReturns(Append(cs, a), ts)
  BY <1>1, <1>2, OwnPush
<1>5. Scopes(ts)
  BY SetRet
<1>6. Append(cs, a) \in Seq(Activations)
  BY <1>3
<1> QED BY <1>4, <1>5, <1>6, OwnRun DEF a

\* The function called last returned to the one below it.
LEMMA Below ==
  ASSUME calls \in Seq(Activations), calls # << >>
  PROVE  /\ Len(calls) \in DOMAIN calls /\ Top = calls[Len(calls)] /\ Top \in Activations
         /\ DOMAIN Pop = {i \in DOMAIN calls : i # Len(calls)}
         /\ \A i \in DOMAIN Pop : Pop[i] = calls[i]
         /\ Pop # << >> => /\ Len(Pop) \in DOMAIN calls /\ Len(Pop) + 1 = Len(calls)
                           /\ Pop[Len(Pop)] = calls[Len(Pop)]
<1>1. Len(calls) \in Nat \ {0} /\ DOMAIN calls = 1 .. Len(calls)
  OBVIOUS
<1>2. Len(calls) \in DOMAIN calls /\ Top = calls[Len(calls)] /\ Top \in Activations
  BY <1>1 DEF Top
<1>3. /\ DOMAIN Pop = 1 .. Len(calls) - 1 /\ Len(Pop) = Len(calls) - 1
      /\ \A i \in 1 .. Len(calls) - 1 : Pop[i] = calls[i]
  BY <1>1 DEF Pop
<1>4. 1 .. Len(calls) - 1 = {i \in DOMAIN calls : i # Len(calls)}
  BY <1>1
<1>5. Pop # << >> => Len(Pop) \in 1 .. Len(calls) - 1
  <2>1. Pop \in Seq(Activations)
    BY <1>1 DEF Pop
  <2>2. Pop # << >> => Len(Pop) # 0
    BY <2>1
  <2> QED BY <1>1, <1>3, <2>2
<1> QED BY <1>1, <1>2, <1>3, <1>4, <1>5

-----------------------------------------------------------------------------
\* What the program has saved stays an error that is not a marker.
LEMMA SavedKept ==
  ASSUME TypeOK, SavedErrors, UNCHANGED saved,
         \/ UNCHANGED errs \/ Collect(errs)
         \/ \E e \in ErrIds : Collect(Thrown(errs, e))
         \/ \E class \in Classes : ThrowFmt(class)
         \/ \E st, ss, s : RunWithReturn(st, ss, s)
  PROVE  SavedErrors'
<1>1. saved \subseteq ErrIds /\ saved \subseteq Referenced' /\ errs \in [ErrIds -> Errors]
  BY DEF TypeOK, Referenced
<1>2. ASSUME NEW heap, Collect(heap), \A e \in saved : heap[e].class = errs[e].class
      PROVE  SavedErrors'
  <2>1. \A e \in saved : errs'[e] = heap[e]
    BY <1>1, <1>2 DEF Collect
  <2> QED BY <1>2, <2>1 DEF SavedErrors
<1>3. \A f \in ErrIds : Fresh(f) => f \notin saved
  BY DEF Fresh, FreeErrs, NoError, SavedErrors
<1>4. \A heap \in [ErrIds -> Errors], e \in ErrIds :
        \A f \in ErrIds : Thrown(heap, e)[f].class = heap[f].class
  BY DEF Thrown, Errors
<1>5. CASE UNCHANGED errs
  BY <1>5 DEF SavedErrors
<1>6. CASE Collect(errs)
  BY <1>2, <1>6
<1>7. CASE \E e \in ErrIds : Collect(Thrown(errs, e))
  <2>1. PICK e \in ErrIds : Collect(Thrown(errs, e))
    BY <1>7
  <2>2. \A f \in saved : Thrown(errs, e)[f].class = errs[f].class
    BY <1>1, <1>4
  <2> QED BY <1>2, <2>1, <2>2
<1>8. CASE \E class \in Classes : ThrowFmt(class)
  <2>1. PICK class \in Classes : ThrowFmt(class)
    BY <1>8
  <2> DEFINE x == [class |-> class, stack |-> 0]
  <2>2. PICK e \in ErrIds : Fresh(e) /\ Collect(Thrown([errs EXCEPT ![e] = x], e))
    BY <2>1 DEF ThrowFmt
  <2>3. x \in Errors
    BY EvaluatorAssumption DEF Errors
  <2> HIDE DEF x
  <2>4. [errs EXCEPT ![e] = x] \in [ErrIds -> Errors]
    BY <1>1, <2>3
  <2>5. \A f \in saved : [errs EXCEPT ![e] = x][f] = errs[f]
    BY <1>1, <1>3, <2>2
  <2>6. \A f \in saved : Thrown([errs EXCEPT ![e] = x], e)[f].class = errs[f].class
    BY <1>1, <1>4, <2>4, <2>5
  <2> QED BY <1>2, <2>2, <2>6
<1>9. CASE \E st, ss, s : RunWithReturn(st, ss, s)
  <2> DEFINE x == [class |-> "MarkerError", stack |-> 0]
  <2>1. PICK m \in ErrIds : Fresh(m) /\ Collect([errs EXCEPT ![m] = x])
    BY <1>9 DEF RunWithReturn
  <2>2. \A f \in saved : [errs EXCEPT ![m] = x][f] = errs[f]
    BY <1>1, <1>3, <2>1
  <2> HIDE DEF x
  <2> QED BY <1>2, <2>1, <2>2
<1> QED BY <1>5, <1>6, <1>7, <1>8, <1>9

\* catch saves no markers, as it catches none.
LEMMA SavedStep ==
  ASSUME StructuredProgram, IInv, RInv, Next
  PROVE  SavedErrors'
<1>0. TypeOK /\ SavedErrors
  BY DEF IInv, RInv
<1>1. ASSUME UNCHANGED saved,
             \/ UNCHANGED errs \/ Collect(errs)
             \/ \E e \in ErrIds : Collect(Thrown(errs, e))
             \/ \E class \in Classes : ThrowFmt(class)
             \/ \E st, ss, s : RunWithReturn(st, ss, s)
      PROVE  SavedErrors'
  BY <1>0, <1>1, SavedKept
<1>2. CASE File
  BY <1>1, <1>2 DEF File, StartFile, FileDone
<1>3. CASE Block
  BY <1>1, <1>3
  DEF Block, BeginStatement, TooMuchRecursion, NotAnAstNode, EndBlock, EndStatement, UseValue, Classes
<1>4. CASE Statement
  <2>1. CASE ThrowNew \/ NoVariableReturn
    BY <1>1, <2>1, EvaluatorAssumption DEF ThrowNew, NoVariableReturn, Classes
  <2>2. CASE Rethrow \/ CallReturn
    BY <1>0, <1>1, <2>2 DEF Rethrow, CallReturn, TypeOK
  <2>3. CASE CallFunction \/ RunWithReturnInScope
    BY <1>1, <2>3 DEF CallFunction, CallWithReturn, InNewSubscope, RunWithReturnInScope
  <2>4. CASE SetReturn \/ DeleteReturn
    BY <1>1, <2>4 DEF SetReturn, DeleteReturn
  <2>5. CASE PlainStatement \/ RunInSubscope \/ RunInScope \/ EnterCatch \/ EnterFor
    BY <1>1, <2>5 DEF PlainStatement, RunInSubscope, RunInScope, EnterCatch, EnterFor
  <2> QED BY <1>4, <2>1, <2>2, <2>3, <2>4, <2>5 DEF Statement
<1>5. CASE Callee
  <2>1. CASE ReturnNotCalled \/ ForNotBool \/ ReturnerStays
    BY <1>1, <2>1, EvaluatorAssumption DEF ReturnNotCalled, ForNotBool, ReturnerStays, Classes
  <2>2. CASE OtherError
    <3>1. err \in ErrIds
      BY <2>2 DEF IInv, TypeOK, ErrIffFailing, OtherError, At
    <3> QED BY <1>1, <2>2, <3>1 DEF OtherError
  <2>3. CASE ForCondition
    BY <1>1, <2>3 DEF ForCondition
  <2>4. CASE ReturnValue
    BY <1>1, <2>4 DEF ReturnValue
  <2>5. CASE CatchPassesOn \/ ForBody \/ ForIncrement \/ ForEnds \/ ForFails
    BY <1>1, <2>5 DEF CatchPassesOn, ForBody, ForIncrement, ForEnds, ForFails
  <2>6. CASE CatchCatches
    <3>1. /\ calls # << >> /\ Top.kind = "catch" /\ Matches /\ Collect(errs)
          /\ saved' \subseteq saved \cup {err}
      BY <2>6 DEF CatchCatches, At
    <3>2. calls \in Seq(Activations)
      BY <1>0 DEF TypeOK
    <3>3. Top.class \in CatchClasses
      BY <3>1, <3>2, Below DEF RInv, OwnReturns
    <3>4. errs[err].class \in CatchClasses \ {"MarkerError"}
      BY <3>1, <3>3 DEF Matches, IsInstance, StructuredProgram
    <3>5. "none" \notin CatchClasses
      BY EvaluatorAssumption DEF Classes
    <3>6. err \in ErrIds
      BY <2>6 DEF IInv, TypeOK, ErrIffFailing, CatchCatches, At
    <3>7. \A e \in saved' : e \in ErrIds /\ e \in Referenced'
      BY <1>0, <3>1, <3>6 DEF TypeOK, Referenced
    <3>8. \A e \in saved' : errs'[e] = errs[e]
      BY <3>1, <3>7 DEF Collect
    <3> QED BY <1>0, <3>1, <3>4, <3>5, <3>8 DEF SavedErrors
  <2> QED BY <1>5, <2>1, <2>2, <2>3, <2>4, <2>5, <2>6 DEF Callee
<1> QED BY <1>2, <1>3, <1>4, <1>5 DEF Next

\* After CallReturn the marker has an owner; no other error is a marker.
LEMMA OwnerStep ==
  ASSUME StructuredProgram, IInv, IInv', RInv, Next
  PROVE  ReturnFindsOwner'
<1>0. /\ TypeOK /\ calls \in Seq(Activations) /\ errs \in [ErrIds -> Errors]
      /\ OwnReturns(calls, scopes) /\ SavedErrors /\ ReturnFindsOwner
      /\ err \in ErrIds \cup {NoErr} /\ saved \subseteq ErrIds
  BY DEF IInv, TypeOK, RInv
<1>1. ASSUME result' # "fail" PROVE ReturnFindsOwner'
  BY <1>1 DEF IInv, ErrIffFailing, ReturnFindsOwner, IsMarker
<1>2. ASSUME NEW class \in Classes \ {"MarkerError"}, ThrowFmt(class)
      PROVE  ReturnFindsOwner'
  <2> DEFINE x == [class |-> class, stack |-> 0]
  <2>1. PICK e \in ErrIds : err' = e /\ Collect(Thrown([errs EXCEPT ![e] = x], e))
    BY <1>2 DEF ThrowFmt
  <2>2. Thrown([errs EXCEPT ![e] = x], e)[e].class = class
    BY <1>0 DEF Thrown
  <2>3. err' \in Referenced'
    BY DEF Referenced
  <2>4. errs'[err'].class = class
    BY <2>1, <2>2, <2>3 DEF Collect
  <2> QED BY <1>2, <2>4 DEF ReturnFindsOwner, IsMarker
<1>3. \A e \in ErrIds : Thrown(errs, e)[e].class = errs[e].class
  BY <1>0 DEF Thrown, Errors
<1>4. ASSUME UNCHANGED << calls, err >>, IsMarker(err)' => IsMarker(err)
      PROVE  ReturnFindsOwner'
  BY <1>0, <1>4 DEF ReturnFindsOwner, OwnerAt
<1>5. ASSUME calls # << >>, calls' = Pop, UNCHANGED err, IsMarker(err)' => IsMarker(err),
             Top.kind = "ret" => err # Top.marker
      PROVE  ReturnFindsOwner'
  <2> SUFFICES ASSUME IsMarker(err) PROVE \E i \in DOMAIN calls' : OwnerAt(i, err)'
    BY <1>5 DEF ReturnFindsOwner
  <2>1. PICK i \in DOMAIN calls : calls[i].kind = "ret" /\ calls[i].marker = err
    BY <1>0 DEF ReturnFindsOwner, OwnerAt
  <2>2. i # Len(calls)
    BY <1>0, <1>5, <2>1, Below
  <2>3. i \in DOMAIN calls' /\ calls'[i] = calls[i]
    BY <1>0, <1>5, <2>1, <2>2, Below
  <2> QED BY <1>5, <2>1, <2>3 DEF OwnerAt
<1>6. ASSUME UNCHANGED errs, UNCHANGED err PROVE IsMarker(err)' => IsMarker(err)
  BY <1>6 DEF IsMarker
<1>7. CASE File
  BY <1>1, <1>7 DEF File, StartFile, FileDone
<1>8. CASE Block
  <2>1. CASE BeginStatement
    BY <1>1, <2>1 DEF BeginStatement, At
  <2>2. CASE TooMuchRecursion \/ NotAnAstNode
    BY <1>2, <2>2 DEF TooMuchRecursion, NotAnAstNode, Classes
  <2>3. CASE EndBlock \/ UseValue
    BY <1>1, <2>3 DEF EndBlock, UseValue, Return
  <2>4. CASE EndStatement
    <3>1. CASE result' = "fail"
      <4>1. calls # << >> /\ calls' = Pop /\ Top.kind = "run" /\ UNCHANGED << err, errs >>
        BY <2>4, <3>1 DEF EndStatement, At, StatementFails, StopBlock, Return
      <4> QED BY <1>5, <1>6, <4>1
    <3> QED BY <1>1, <3>1
  <2> QED BY <1>8, <2>1, <2>2, <2>3, <2>4 DEF Block
<1>9. CASE Statement
  <2>1. CASE PlainStatement \/ SetReturn \/ DeleteReturn
    BY <1>1, <2>1 DEF PlainStatement, SetReturn, DeleteReturn
  <2>2. CASE ThrowNew
    BY <1>2, <2>2, EvaluatorAssumption DEF ThrowNew
  <2>3. CASE NoVariableReturn
    BY <1>2, <2>3 DEF NoVariableReturn, Classes
  <2>4. CASE Rethrow
    <3>1. PICK e \in saved : err' = e /\ Collect(Thrown(errs, e))
      BY <2>4 DEF Rethrow
    <3>2. err' \in Referenced' /\ e \in ErrIds
      BY <1>0 DEF Referenced
    <3>3. errs'[err'].class = errs[e].class
      BY <1>3, <3>1, <3>2 DEF Collect
    <3> QED BY <1>0, <3>1, <3>3 DEF ReturnFindsOwner, IsMarker, SavedErrors
  <2>5. CASE CallReturn
    <3>1. PICK m \in ErrIds : Visible(Top.scope, m) /\ err' = m
      BY <2>5 DEF CallReturn
    <3>2. calls # << >> /\ Top.kind = "run" /\ UNCHANGED calls
      BY <2>5 DEF CallReturn, InStatement, At
    <3>3. Top.scope \in 1 .. Len(scopes) /\ DOMAIN scopes = 1 .. Len(scopes) /\ Len(scopes) \in Nat
      BY <3>2, TopFacts
    <3>4. PICK t \in scopes[Top.scope].chain : m = scopes[t].ret /\ m # NoErr
      BY <3>1 DEF Visible
    <3>5. scopes[Top.scope].chain \subseteq 1 .. Top.scope
      BY <3>3 DEF IInv, TypeOK, Scopes
    <3>6. t \in DOMAIN scopes
      BY <3>3, <3>4, <3>5
    <3>7. PICK i \in DOMAIN calls : calls[i].kind = "ret" /\ calls[i].scope = t
      BY <1>0, <3>4, <3>6 DEF OwnReturns
    <3>8. calls[i].marker = m
      BY <1>0, <3>4, <3>7 DEF OwnReturns
    <3> QED BY <3>1, <3>2, <3>7, <3>8 DEF ReturnFindsOwner, OwnerAt
  <2>6. CASE RunInSubscope \/ RunInScope \/ CallFunction \/ RunWithReturnInScope
             \/ EnterCatch \/ EnterFor
    BY <1>1, <2>6 DEF RunInSubscope, RunInScope, CallFunction, RunWithReturnInScope,
                      EnterCatch, EnterFor, InStatement, At
  <2> QED BY <1>9, <2>1, <2>2, <2>3, <2>4, <2>5, <2>6 DEF Statement
<1>10. CASE Callee
  <2>1. CASE ReturnNotCalled \/ ForNotBool \/ ReturnerStays
    BY <1>2, <2>1, EvaluatorAssumption DEF ReturnNotCalled, ForNotBool, ReturnerStays, Classes
  <2>2. CASE ReturnValue \/ CatchCatches \/ ForCondition \/ ForBody \/ ForIncrement \/ ForEnds
    BY <1>1, <2>2
    DEF ReturnValue, CatchCatches, ForCondition, ForBody, ForIncrement, ForEnds, Return
  <2>3. CASE CatchPassesOn \/ ForFails
    <3>1. calls # << >> /\ calls' = Pop /\ Top.kind # "ret" /\ UNCHANGED << err, errs >>
      BY <2>3 DEF CatchPassesOn, ForFails, At, Return
    <3> QED BY <1>5, <1>6, <3>1
  <2>4. CASE OtherError
    <3>1. /\ calls # << >> /\ calls' = Pop /\ err # Top.marker /\ UNCHANGED err
          /\ result = "fail" /\ Collect(Thrown(errs, err))
      BY <2>4 DEF OtherError, At, Return, ReturnCalled, IsOwnMarker
    <3>2. err \in ErrIds /\ err \in Referenced'
      BY <1>0, <3>1 DEF IInv, ErrIffFailing, Referenced
    <3>3. errs'[err].class = errs[err].class
      BY <1>3, <3>1, <3>2 DEF Collect
    <3>4. IsMarker(err)' => IsMarker(err)
      BY <3>1, <3>3 DEF IsMarker
    <3> QED BY <1>5, <3>1, <3>4
  <2> QED BY <1>10, <2>1, <2>2, <2>3, <2>4 DEF Callee
<1> QED BY <1>7, <1>8, <1>9, <1>10 DEF Next

\* No returning block just ends.
LEMMA EndsStep ==
  ASSUME StructuredProgram, IInv, RInv, Next
  PROVE  (result = "ok" /\ calls # << >> => Top.kind # "ret")'
<1>0. calls \in Seq(Activations) /\ OwnReturns(calls, scopes)
  BY DEF IInv, TypeOK, RInv
<1>1. ASSUME calls # << >>, Top.kind # "run", calls' = Pop
      PROVE  calls' # << >> => Top'.kind # "ret"
  <2> SUFFICES ASSUME Pop # << >> PROVE Pop[Len(Pop)].kind # "ret"
    BY <1>1 DEF Top
  <2> QED BY <1>0, <1>1, Below DEF OwnReturns
<1>2. CASE EndBlock
  <2>1. /\ calls # << >> /\ calls' = Pop
        /\ ~(Len(calls) > 1 /\ calls[Len(calls) - 1].kind = "ret")
    BY <1>2 DEF EndBlock, At, Return, StructuredProgram
  <2> SUFFICES ASSUME Pop # << >> PROVE Pop[Len(Pop)].kind # "ret"
    BY <2>1 DEF Top
  <2>2. Len(Pop) \in DOMAIN calls /\ Len(Pop) + 1 = Len(calls) /\ Pop[Len(Pop)] = calls[Len(Pop)]
    BY <1>0, <2>1, Below
  <2>3. Len(Pop) = Len(calls) - 1 /\ Len(calls) > 1
    BY <1>0, <2>2
  <2> QED BY <2>1, <2>2, <2>3
<1>3. CASE ForEnds \/ CatchPassesOn
  BY <1>1, <1>3 DEF ForEnds, CatchPassesOn, At, Return
<1>4. CASE PlainStatement
  BY <1>4 DEF PlainStatement, At, Top
<1>5. CASE File
  BY <1>5 DEF File, StartFile, FileDone
<1>6. CASE Block
  BY <1>2, <1>6 DEF Block, BeginStatement, TooMuchRecursion, NotAnAstNode, EndStatement, UseValue, At,
                    Return, StatementFails, StopBlock
<1>7. CASE Statement
  BY <1>4, <1>7 DEF Statement, ThrowNew, Rethrow, CallReturn, NoVariableReturn, RunInSubscope,
                    RunInScope, CallFunction, RunWithReturnInScope, SetReturn, DeleteReturn,
                    EnterCatch, EnterFor, InStatement, At, StructuredProgram
<1>8. CASE Callee
  <2>1. CASE ForFails
    BY <2>1 DEF ForFails, Return
  <2> QED BY <1>3, <1>8, <2>1 DEF Callee, ReturnNotCalled, ReturnValue, OtherError, ReturnerStays, CatchCatches,
                    ForCondition, ForBody, ForIncrement, ForNotBool, Return
<1> QED BY <1>5, <1>6, <1>7, <1>8 DEF Next

\* A new subscope of any scope.
LEMMA OwnSubscope ==
  ASSUME Scopes(scopes), NEW cs, OwnReturns(cs, scopes), NEW d \in DOMAIN scopes
  PROVE  OwnReturns(cs, Append(scopes, SubscopeOf(d)))
<1>1. SubscopeOf(d).ret = NoErr
  BY DEF SubscopeOf
<1>2. scopes \in Seq([chain : SUBSET ScopeIds, ret : ErrIds \cup {NoErr}])
  BY DEF Scopes
<1> HIDE DEF OwnReturns
<1> QED BY <1>1, <1>2, OwnScope

\* Every marker that is bound to a `return` is that of the one running block
\* that made it.
LEMMA OwnStep ==
  ASSUME StructuredProgram, IInv, RInv, Next
  PROVE  OwnReturns(calls, scopes)'
<1>0. /\ TypeOK /\ calls \in Seq(Activations) /\ OwnReturns(calls, scopes) /\ Scopes(scopes)
      /\ Len(frames) \in 0 .. StackMax
      /\ Len(scopes) \in Nat /\ DOMAIN scopes = 1 .. Len(scopes)
  BY TopFacts DEF IInv, TypeOK, RInv
<1>1. ASSUME calls # << >>
      PROVE  /\ Len(calls) \in DOMAIN calls /\ Top = calls[Len(calls)] /\ Top \in Activations
             /\ Top.kind # "catch" => Top.scope \in DOMAIN scopes
  BY <1>0, <1>1, Below, TopFacts
<1>2. CASE UNCHANGED << calls, scopes >>
  BY <1>0, <1>2
<1>3. ASSUME calls # << >>, NEW p \in Phases
      PROVE  /\ OwnReturns(InPhase(p), scopes) /\ InPhase(p) \in Seq(Activations)
             /\ Len(InPhase(p)) = Len(calls)
             /\ \A i \in DOMAIN calls : InPhase(p)[i].kind = calls[i].kind
                                       /\ InPhase(p)[i].scope = calls[i].scope
  <2>1. OwnReturns(InPhase(p), scopes)
    BY <1>0, <1>3, OwnPhase DEF InPhase
  <2>2. PICK k \in Nat \ {0} : k = Len(calls) /\ DOMAIN calls = 1 .. k
    BY <1>0, <1>3
  <2>3. InPhase(p) = WithPhase(calls, k, p)
    BY <2>2 DEF InPhase, WithPhase
  <2>4. /\ WithPhase(calls, k, p) \in Seq(Activations) /\ Len(WithPhase(calls, k, p)) = k
        /\ Rephased(calls, WithPhase(calls, k, p), k, p)
    BY <1>0, <2>2, TopPhase
  <2> QED BY <2>1, <2>2, <2>3, <2>4 DEF Rephased
<1>4. ASSUME calls # << >>, calls' = Pop, UNCHANGED scopes, Top.kind # "ret"
      PROVE  OwnReturns(calls, scopes)'
  BY <1>0, <1>1, <1>4, OwnPop DEF Pop
<1>5. ASSUME calls # << >>, calls' = Pop, scopes' = WithoutReturn(Top.scope), Top.kind = "ret"
      PROVE  OwnReturns(calls, scopes)'
  BY <1>0, <1>1, <1>5, OwnPopReturn DEF Pop, WithoutReturn
<1>6. ASSUME NEW d \in DOMAIN scopes, Len(scopes) < MaxScopes
      PROVE  /\ Scopes(Append(scopes, SubscopeOf(d)))
             /\ Len(Append(scopes, SubscopeOf(d))) = Len(scopes) + 1
             /\ DOMAIN Append(scopes, SubscopeOf(d)) = 1 .. Len(scopes) + 1
             /\ \A cs : OwnReturns(cs, scopes) => OwnReturns(cs, Append(scopes, SubscopeOf(d)))
  <2>1. /\ Scopes(Append(scopes, SubscopeOf(d)))
        /\ Len(Append(scopes, SubscopeOf(d))) = Len(scopes) + 1
    BY <1>0, <1>6, NewSubscope
  <2>2. DOMAIN Append(scopes, SubscopeOf(d)) = 1 .. Len(scopes) + 1
    BY <2>1 DEF Scopes
  <2> QED BY <1>0, <2>1, <2>2, OwnSubscope
<1>7. \A n \in Nat \ {0} : RoomForScopes(n) => Len(scopes) < MaxScopes
  BY <1>0, RoomForOne
<1>8. CASE File
  <2>1. CASE StartFile
    <3>1. calls = << >> /\ calls' = Append(calls, Run(FileScope)) /\ UNCHANGED scopes
      BY <2>1 DEF StartFile
    <3> QED BY <1>0, <3>1, OwnRun
  <2> QED BY <1>2, <1>8, <2>1 DEF File, FileDone
<1> DEFINE new == Len(scopes) + 1
<1>9. CASE Block
  <2>1. CASE BeginStatement
    BY <1>3, <2>1 DEF BeginStatement, At, Phases
  <2>2. CASE TooMuchRecursion \/ NotAnAstNode \/ EndBlock
    BY <1>4, <2>2 DEF TooMuchRecursion, NotAnAstNode, EndBlock, At, Return
  <2>3. CASE EndStatement
    BY <1>3, <1>4, <2>3 DEF EndStatement, At, Return, StatementFails, StopBlock, Phases
  <2> QED BY <1>2, <1>9, <2>1, <2>2, <2>3 DEF Block, UseValue
<1>10. CASE Statement
  <2>1. CASE RunInSubscope
    <3>1. PICK d \in DOMAIN scopes : scopes' = Append(scopes, SubscopeOf(d))
      BY <2>1 DEF RunInSubscope
    <3>2. Scopes(scopes') /\ OwnReturns(calls, scopes')
      BY <1>0, <1>6, <1>7, <2>1, <3>1 DEF RunInSubscope
    <3> QED BY <1>0, <2>1, <3>2, OwnRun DEF RunInSubscope
  <2>2. CASE CallFunction
    <3>1. PICK d \in DOMAIN scopes : InNewSubscope(d)
      BY <2>2 DEF CallFunction, CallWithReturn
    <3> DEFINE ss == Append(scopes, SubscopeOf(d))
    <3>2. /\ Scopes(ss) /\ OwnReturns(calls, ss) /\ new \in DOMAIN ss
          /\ calls # << >> /\ Top.kind = "run"
      BY <1>0, <1>6, <1>7, <2>2 DEF CallFunction, InStatement, At
    <3>3. PICK m \in ErrIds : /\ scopes' = [ss EXCEPT ![new].ret = m]
                              /\ calls' = Append(Append(calls, Ret(new, m)), Run(new))
      BY <3>1 DEF InNewSubscope, RunWithReturn
    <3>4. \A i \in DOMAIN calls : calls[i].kind \in {"ret", "for"} => calls[i].scope # new
      BY <1>0 DEF OwnReturns
    <3> HIDE DEF ss
    <3> QED BY <1>0, <1>1, <3>2, <3>3, <3>4, OwnRet
  <2>3. CASE EnterCatch
    <3>1. PICK d \in DOMAIN scopes, class \in CatchClasses :
            /\ scopes' = Append(scopes, SubscopeOf(d))
            /\ calls' = Append(Append(calls, Catch(class)), Run(new))
      BY <2>3 DEF EnterCatch
    <3>2. Scopes(scopes') /\ OwnReturns(calls, scopes') /\ calls # << >> /\ Top.kind = "run"
      BY <1>0, <1>6, <1>7, <2>3, <3>1 DEF EnterCatch, InStatement, At
    <3>3. Catch(class).kind = "catch" /\ Catch(class).class = class
      BY DEF Catch, Run
    <3>4. Catch(class) \in Activations
      <4>1. class \in Classes /\ 0 \in 0 .. MaxScopes /\ 0 \in 0 .. MaxErrors
        BY EvaluatorAssumption
      <4> QED BY <1>0, <4>1 DEF Catch, Run, Activations, Phases, NoErr
    <3> HIDE DEF new
    <3>5. OwnReturns(Append(calls, Catch(class)), scopes')
      BY <1>0, <1>1, <3>2, <3>3, OwnPush
    <3>6. Append(calls, Catch(class)) \in Seq(Activations)
      BY <1>0, <3>4
    <3> QED BY <3>1, <3>2, <3>5, <3>6, OwnRun
  <2>4. CASE EnterFor
    <3>1. PICK d \in DOMAIN scopes :
            /\ scopes' = Append(scopes, SubscopeOf(d))
            /\ calls' = Append(Append(calls, For(new)), Run(new))
      BY <2>4 DEF EnterFor
    <3>2. /\ Scopes(scopes') /\ OwnReturns(calls, scopes') /\ calls # << >> /\ Top.kind = "run"
          /\ new \in DOMAIN scopes' /\ new \in 0 .. MaxScopes
      BY <1>0, <1>6, <1>7, <2>4, <3>1, EvaluatorAssumption DEF EnterFor, InStatement, At
    <3>3. For(new).kind = "for" /\ For(new).scope = new
      BY DEF For, Run
    <3>4. For(new) \in Activations
      <4>1. 0 \in 0 .. MaxErrors
        BY EvaluatorAssumption
      <4> QED BY <1>0, <3>2, <4>1 DEF For, Run, Activations, Phases, NoErr
    <3>5. \A i \in DOMAIN calls : calls[i].kind \in {"ret", "for"} => calls[i].scope # new
      BY <1>0 DEF OwnReturns
    <3> HIDE DEF new
    <3>6. OwnReturns(Append(calls, For(new)), scopes')
      BY <1>0, <1>1, <3>2, <3>3, <3>5, OwnPush
    <3>7. Append(calls, For(new)) \in Seq(Activations)
      BY <1>0, <3>4
    <3> QED BY <3>1, <3>2, <3>6, <3>7, OwnRun
  <2>5. ~(RunInScope \/ RunWithReturnInScope \/ SetReturn \/ DeleteReturn)
    BY DEF RunInScope, RunWithReturnInScope, SetReturn, DeleteReturn, InStatement,
           StructuredProgram
  <2> QED BY <1>2, <1>10, <2>1, <2>2, <2>3, <2>4, <2>5
      DEF Statement, PlainStatement, ThrowNew, Rethrow, CallReturn, NoVariableReturn
<1>11. CASE Callee
  <2>1. ~ReturnNotCalled /\ ~ReturnerStays
    BY DEF ReturnNotCalled, ReturnerStays, At, RInv, StructuredProgram
  <2>2. CASE ReturnValue
    BY <1>5, <2>2 DEF ReturnValue, At, Return
  <2>3. CASE OtherError
    BY <1>5, <2>3 DEF OtherError, At, Return, DeleteReturner
  <2>4. CASE CatchPassesOn \/ ForEnds \/ ForNotBool \/ ForFails
    BY <1>4, <2>4 DEF CatchPassesOn, ForEnds, ForNotBool, ForFails, At, Return
  <2>5. CASE CatchCatches
    <3>1. PICK d \in DOMAIN scopes : scopes' = Append(scopes, SubscopeOf(d))
      BY <2>5 DEF CatchCatches
    <3>2. calls # << >> /\ Len(scopes) < MaxScopes /\ calls' = Append(InPhase("caught"), Run(new))
      BY <2>5 DEF CatchCatches, At
    <3>3. "caught" \in Phases
      BY DEF Phases
    <3>4. OwnReturns(InPhase("caught"), scopes') /\ Scopes(scopes')
      BY <1>3, <1>6, <3>1, <3>2, <3>3
    <3> QED BY <1>3, <3>2, <3>3, <3>4, OwnRun
  <2>6. CASE ForBody \/ ForIncrement
    <3>1. PICK p \in {"body", "incr"} : calls' = Append(InPhase(p), Run(Top.scope))
      BY <2>6 DEF ForBody, ForIncrement
    <3>2. p \in Phases /\ calls # << >> /\ UNCHANGED scopes
      BY <2>6 DEF ForBody, ForIncrement, At, Phases
    <3> QED BY <1>0, <1>3, <3>1, <3>2, OwnRun
  <2>7. CASE ForCondition
    <3> DEFINE s == Top.scope
    <3>1. /\ calls # << >> /\ Top.kind = "for" /\ "cond" \in Phases
      BY <2>7 DEF ForCondition, At, Phases
    <3>2. PICK m \in ErrIds : /\ scopes' = [scopes EXCEPT ![s].ret = m]
                              /\ calls' = Append(Append(InPhase("cond"), Ret(s, m)), Run(s))
      BY <2>7 DEF ForCondition, RunWithReturn
    <3>3. \A i \in DOMAIN calls :
            calls[i].scope = s => calls[i].kind # "ret" /\ (calls[i].kind = "for" => i = Len(calls))
      <4>1. Len(calls) + 1 \notin DOMAIN calls
        BY <1>0
      <4> QED BY <1>0, <1>1, <3>1, <4>1 DEF OwnReturns
    <3>4. /\ OwnReturns(InPhase("cond"), scopes) /\ InPhase("cond") \in Seq(Activations)
          /\ Len(InPhase("cond")) = Len(calls)
          /\ \A i \in DOMAIN calls : /\ InPhase("cond")[i].kind = calls[i].kind
                                    /\ InPhase("cond")[i].scope = calls[i].scope
      BY <1>3, <3>1
    <3>5. DOMAIN InPhase("cond") = DOMAIN calls
      BY <1>0, <3>4
    <3>6. InPhase("cond") # << >>
      BY <1>1, <3>1, <3>5
    <3> DEFINE cs == InPhase("cond")
    <3>7. /\ cs[Len(cs)].kind # "ret" /\ s \in DOMAIN scopes
          /\ \A i \in DOMAIN cs :
               cs[i].scope = s => cs[i].kind # "ret" /\ (cs[i].kind = "for" => i = Len(cs))
      BY <1>1, <3>1, <3>3, <3>4, <3>5
    <3> HIDE DEF cs, s
    <3>8. OwnReturns(Append(Append(cs, Ret(s, m)), Run(s)), [scopes EXCEPT ![s].ret = m])
      BY <1>0, <3>4, <3>6, <3>7, OwnRet DEF cs
    <3> QED BY <3>2, <3>8 DEF cs, s
  <2> QED BY <1>11, <2>1, <2>2, <2>3, <2>4, <2>5, <2>6, <2>7 DEF Callee
<1> QED BY <1>8, <1>9, <1>10, <1>11 DEF Next

\* The invariant of structured programs.
THEOREM ReturnInvariance ==
  ASSUME StructuredProgram
  PROVE  Spec => []RInv
<1>1. Init => RInv
  <2> SUFFICES ASSUME Init PROVE RInv
    OBVIOUS
  <2>1. OwnReturns(calls, scopes)
    BY DEF Init, OwnReturns
  <2> QED BY <2>1 DEF Init, RInv, SavedErrors, ReturnFindsOwner, IsMarker
<1>2. IInv /\ IInv' /\ RInv /\ [Next]_vars => RInv'
  <2>1. ASSUME IInv, IInv', RInv, Next PROVE RInv'
    BY <2>1, OwnStep, EndsStep, SavedStep, OwnerStep DEF RInv
  <2>2. ASSUME RInv, UNCHANGED vars PROVE RInv'
    BY <2>2 DEF vars, RInv, SavedErrors, ReturnFindsOwner, IsMarker, OwnerAt, Top
  <2> QED BY <2>1, <2>2
<1> QED BY <1>1, <1>2, Invariance, PTL DEF Spec

(***************************************************************************)
(* While a returning block runs, the `return` of its scope throws its own  *)
(* marker (block.c, 124 to 148), however deep and tangled the calls.       *)
(***************************************************************************)
THEOREM ReturnsAreOwn ==
  ASSUME StructuredProgram
  PROVE  Spec => []ReturnIsMine
<1>1. RInv => ReturnIsMine
  BY DEF RInv, OwnReturns, ReturnIsMine
<1>2. Spec => []RInv
  BY ReturnInvariance
<1> QED BY <1>1, <1>2, PTL

(***************************************************************************)
(* The marker that a `return` throws is awaited by a returning block that  *)
(* still runs (block.c, 159), and no closure returns for a function that   *)
(* has ended.                                                              *)
(***************************************************************************)
THEOREM ReturnsArrive ==
  ASSUME StructuredProgram
  PROVE  Spec => []ReturnFindsOwner
<1>1. RInv => ReturnFindsOwner
  BY DEF RInv
<1>2. Spec => []RInv
  BY ReturnInvariance
<1> QED BY <1>1, <1>2, PTL
=============================================================================
