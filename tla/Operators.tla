----------------------------- MODULE Operators -----------------------------
(***************************************************************************)
(* The operators == != < <= > >= (src/src/operator.c), the functions of    *)
(* eq_array and lt_array (objects/string.c, integer.c, mapping.c and       *)
(* <std>/operators) and what a program may add to eq_array.  One step is   *)
(* one turn of the loop of operator_call, which asks one function of the   *)
(* array.  Functions for Options, Arrays and Mappings compare what is in   *)
(* them with the same operators: ops is the stack of those comparisons.    *)
(*                                                                         *)
(* A thing is [kind, val, items]: Integers, Strings (and ByteArrays, which *)
(* compare the same way) and Bools have a val; the items of a Mapping are  *)
(* its values in the order of its keys, and its val says which keys those  *)
(* are; the items of an Option are one or none.                            *)
(***************************************************************************)
EXTENDS Integers, Sequences, SequencesExt, FiniteSets

CONSTANTS
  Things,        \* what may be compared
  Heap,          \* the record of each of them
  DepthMax,      \* Ö functions that fit on interp->stack
  MappingMax,    \* calls of mapping_eq inside each other that fit on the stack of C
  MaxFunctions   \* bound of the model: functions in eq_array

Kind(x) == Heap[x].kind
Val(x) == Heap[x].val
Items(x) == Heap[x].items
Kinds == {"Integer", "String", "Bool", "Mapping", "Option", "Array", "Thing"}
Comparisons == {"==", "!=", "<", "<=", ">", ">="}
EqFunctions == << "string_eq", "integer_eq", "mapping_eq", "same_object",
                  "option_eq", "bool_eq", "array_eq" >>
KindOf == [string_eq |-> "String", integer_eq |-> "Integer", bool_eq |-> "Bool",
           mapping_eq |-> "Mapping", option_eq |-> "Option", array_eq |-> "Array"]
OFunctions == {"same_object", "option_eq", "bool_eq", "array_eq", "user_eq"}

\* Integers, Strings and Bools have a val, Options, Arrays and Mappings have items.
ASSUME OperatorAssumption ==
  /\ IsFiniteSet(Things)
  /\ \A x \in Things : Items(x) \in Seq(Things) /\ Kind(x) \in Kinds
  /\ \A x \in Things : Kind(x) = "Integer" => Val(x) \in Int
  /\ \A x \in Things : Kind(x) \in {"Integer", "String", "Bool"} => Items(x) = << >>
  /\ \A x, y \in Things : Kind(x) = Kind(y) /\ Kind(x) \in {"Option", "Array"}
                              => Val(x) = Val(y)
  /\ DepthMax \in Nat \ {0} /\ MappingMax \in Nat \ {0} /\ MaxFunctions \in Nat

VARIABLES
  eq_array,  \* interp->oparrays.eq
  ops,       \* the comparisons in progress, outermost first
  ret,       \* what the comparison that just ended gave, "running" when none did
  asked      \* the outermost comparison
operatorVars == << eq_array, ops, ret, asked >>

\* i is the index into the array of functions, k how far the function has come
Comparison(op, x, y) == [op |-> op, x |-> x, y |-> y, i |-> 1, k |-> 0]
Nothing == [Comparison("==", "none", "none") EXCEPT !.i = 0]
Top == ops[Len(ops)]
Running(S) == ops # << >> /\ ret = "running" /\ Top.op \in S
Returned == ops # << >> /\ ret # "running" /\ ret # "crash"

Return(v) == ops' = Front(ops) /\ ret' = v
Becomes(c) == ops' = [ops EXCEPT ![Len(ops)] = c] /\ ret' = "running"
Calls(c, op, x, y) ==
  ops' = Append([ops EXCEPT ![Len(ops)] = c], Comparison(op, x, y)) /\ ret' = "running"
Crash == ops' = << >> /\ ret' = "crash"
Truth(b) == IF b THEN "yes" ELSE "no"

OperatorInit == eq_array = EqFunctions /\ ops = << >> /\ ret = "yes" /\ asked = Nothing

Ask(op, x, y) ==
  /\ ops = << >> /\ asked = Nothing
  /\ ops' = << Comparison(op, x, y) >> /\ ret' = "running"
  /\ asked' = Comparison(op, x, y)
  /\ UNCHANGED eq_array

(***************************************************************************)
(* operator_call derives four operators from == and <.  k is 1 or 2 when   *)
(* the < of a <= has answered no or yes.                                   *)
(***************************************************************************)
Flip ==
  /\ Running({">", ">="})
  /\ Becomes(Comparison(IF Top.op = ">" THEN "<" ELSE "<=", Top.y, Top.x))
NotEqual ==
  \/ Running({"!="}) /\ Calls(Top, "==", Top.x, Top.y)
  \/ /\ Returned /\ Top.op = "!="
     /\ Return(IF ret = "error" THEN "error" ELSE Truth(ret = "no"))
LessEqualFirst ==
  /\ Returned /\ Top.op = "<=" /\ Top.k = 0
  /\ IF ret = "error" THEN Return("error")
     ELSE Calls([Top EXCEPT !.k = IF ret = "yes" THEN 2 ELSE 1], "==", Top.x, Top.y)
LessEqualFlipped == Running({"<="}) /\ Becomes(Comparison(">=", Top.y, Top.x))
LessEqual ==
  \/ Running({"<="}) /\ Calls(Top, "<", Top.x, Top.y)
  \/ LessEqualFirst
  \/ /\ Returned /\ Top.op = "<=" /\ Top.k # 0
     /\ Return(IF ret = "error" THEN "error" ELSE Truth(Top.k = 2 \/ ret = "yes"))

(***************************************************************************)
(* The loop of operator_call: a function answers none, and the next one is *)
(* asked, or an Option of its answer; without an answer it is a TypeError. *)
(***************************************************************************)
Array(op) == IF op = "<" THEN << "integer_lt" >> ELSE eq_array
F == Array(Top.op)[Top.i]
NextFunction == Becomes([Top EXCEPT !.i = @ + 1, !.k = 0])
Looping == Running({"==", "<"})
Asking(S) == Looping /\ Top.i <= Len(Array(Top.op)) /\ F \in S
Both(f) == Kind(Top.x) = KindOf[f] /\ Kind(Top.y) = KindOf[f]

NoAnswer == Looping /\ Top.i > Len(Array(Top.op)) /\ Return("error")

\* The functions that wait for a comparison of items: the stack of the interpreter
\* ends with an error, the stack of C, which mapping_eq uses, with the process.
Waits(c, S) == c.k > 0 /\ c.op = "==" /\ c.i <= Len(eq_array) /\ eq_array[c.i] \in S
Depth(S) == Cardinality({n \in 1 .. Len(ops) : Waits(ops[n], S)})
StackFull == Depth(OFunctions) >= DepthMax
CStackFull == Depth({"mapping_eq"}) >= MappingMax
TooDeep == Asking(OFunctions) /\ Top.k = 0 /\ StackFull /\ Return("error")
CStackOverflow == Asking({"mapping_eq"}) /\ Top.k = 0 /\ CStackFull /\ Crash
Fits == Top.k = 0 => /\ F \in OFunctions => ~StackFull
                     /\ F = "mapping_eq" => ~CStackFull

\* The C function for integers looks at x twice: a y of another kind is read as one.
integer_eq ==
  /\ Asking({"integer_eq"})
  /\ IF Both("integer_eq") THEN Return(Truth(Val(Top.x) = Val(Top.y)))
     ELSE IF Kind(Top.x) = "Integer" THEN Return("yes") \/ Return("no") \/ Crash
     ELSE NextFunction
integer_lt ==
  /\ Asking({"integer_lt"})
  /\ IF Kind(Top.x) = "Integer" /\ Kind(Top.y) = "Integer"
     THEN Return(Truth(Val(Top.x) < Val(Top.y))) ELSE NextFunction
PlainEq ==
  /\ Asking({"string_eq", "bool_eq"}) /\ Fits
  /\ IF Both(F) THEN Return(Truth(Val(Top.x) = Val(Top.y))) ELSE NextFunction
same_object ==
  /\ Asking({"same_object"}) /\ Fits
  /\ IF Top.x = Top.y THEN Return("yes") ELSE NextFunction

\* Options, Arrays and Mappings: the sizes, then one pair of items after the other.
\* Of Mappings with different keys, a key that the other does not have is met first.
FirstIsLonger(x, y) == Len(Items(x)) > Len(Items(y))
Mismatch(x, y) ==
  \/ Len(Items(x)) # Len(Items(y))
  \/ Kind(x) = "Mapping" /\ Val(x) # Val(y)
ItemsEq ==
  /\ Asking({"option_eq", "mapping_eq", "array_eq"}) /\ Fits
  /\ IF ~Both(F) THEN NextFunction
     ELSE IF Mismatch(Top.x, Top.y) THEN Return("no")
     ELSE IF Top.k = Len(Items(Top.x)) THEN Return("yes")
     ELSE Calls([Top EXCEPT !.k = @ + 1], IF F = "array_eq" THEN "!=" ELSE "==",
                Items(Top.x)[Top.k + 1], Items(Top.y)[Top.k + 1])
ItemsReturned ==
  /\ Returned /\ Top.op = "==" /\ Top.k > 0
  /\ IF ret = "error" THEN Return("error")
     ELSE IF ret = (IF F = "array_eq" THEN "yes" ELSE "no") THEN Return("no")
     ELSE Becomes(Top)

\* A function of the program's own, for instances of its own class.
user_eq ==
  /\ Asking({"user_eq"}) /\ Fits
  /\ IF Kind(Top.x) = "Thing" /\ Kind(Top.y) = "Thing"
     THEN \E v \in {"yes", "no", "error"} : Return(v)
     ELSE NextFunction

CompareStep ==
  /\ UNCHANGED << eq_array, asked >>
  /\ \/ Flip \/ NotEqual \/ LessEqual
     \/ NoAnswer \/ TooDeep \/ CStackOverflow
     \/ integer_eq \/ integer_lt \/ PlainEq \/ same_object
     \/ ItemsEq \/ ItemsReturned \/ user_eq

\* eq_array is an Array that everyone can push to, between two comparisons or
\* from a function that is being asked.
Push ==
  /\ \/ ops = << >>
     \/ Asking({"user_eq"}) /\ ~StackFull
  /\ Len(eq_array) < MaxFunctions
  /\ eq_array' = Append(eq_array, "user_eq")
  /\ UNCHANGED << ops, ret, asked >>

\* the caller goes on with the answer
Use ==
  /\ ops = << >> /\ ret # "crash"
  /\ asked' = Nothing /\ ret' = "yes"
  /\ UNCHANGED << eq_array, ops >>

OperatorNext == CompareStep \/ Push \/ Use \/ \E op \in Comparisons, x, y \in Things : Ask(op, x, y)

(***************************************************************************)
(* What the operators mean.  Alike is the largest relation in which equal  *)
(* things have equal items; Comparable are the pairs of the same kinds at  *)
(* every depth, none of them of the program's own class.  Each is left     *)
(* when a round removes no more pairs.  Flat[n] are the pairs nested less  *)
(* than n deep.                                                            *)
(***************************************************************************)
Pairs == Things \X Things
Rounds == Cardinality(Pairs)
SameLength(p) == Len(Items(p[1])) = Len(Items(p[2]))
ItemPairs(p) ==
  IF SameLength(p) THEN {<< Items(p[1])[i], Items(p[2])[i] >> : i \in 1 .. Len(Items(p[1]))} ELSE {}
AlikeIn(R) ==
  {p \in Pairs : \/ p[1] = p[2]
                 \/ /\ Kind(p[1]) = Kind(p[2]) /\ Val(p[1]) = Val(p[2])
                    /\ SameLength(p) /\ ItemPairs(p) \subseteq R}
ComparableIn(R) ==
  {p \in Pairs : Kind(p[1]) = Kind(p[2]) /\ Kind(p[1]) # "Thing" /\ ItemPairs(p) \subseteq R}
FlatIn(R) == {p \in Pairs : ItemPairs(p) \subseteq R}

AlikeAfter[n \in 0 .. Rounds] == IF n = 0 THEN Pairs ELSE AlikeIn(AlikeAfter[n - 1])
ComparableAfter[n \in 0 .. Rounds] == IF n = 0 THEN Pairs ELSE ComparableIn(ComparableAfter[n - 1])
FlatMax == DepthMax + MappingMax
Flat[n \in 0 .. FlatMax] == IF n = 0 THEN {} ELSE FlatIn(Flat[n - 1])
Alike == AlikeAfter[CHOOSE n \in 0 .. Rounds : AlikeIn(AlikeAfter[n]) = AlikeAfter[n]]
Comparable ==
  ComparableAfter[CHOOSE n \in 0 .. Rounds : ComparableIn(ComparableAfter[n]) = ComparableAfter[n]]

Meaning(op, x, y) ==
  CASE op = "==" -> << x, y >> \in Alike
    [] op = "!=" -> << x, y >> \notin Alike
    [] op = "<"  -> Val(x) < Val(y)
    [] op = "<=" -> Val(x) <= Val(y)
    [] op = ">"  -> Val(x) > Val(y)
    [] op = ">=" -> Val(x) >= Val(y)

(***************************************************************************)
(* Things of the same kind are compared by their contents, whatever the    *)
(* program pushed to eq_array; the ordering of integers agrees with ==;    *)
(* only things nested DepthMax deep, or in themselves, can give an error   *)
(* instead (operator.c:61, std/operators.ö:50), and only those nested      *)
(* MappingMax deep, or in themselves, end the process (mapping.c:435).     *)
(***************************************************************************)
Exact == asked # Nothing /\ << asked.x, asked.y >> \in Comparable
         /\ (asked.op \in {"==", "!="} \/ Kind(asked.x) = "Integer")
ComparedExactly ==
  ops = << >> /\ Exact
  => \/ ret = Truth(Meaning(asked.op, asked.x, asked.y))
     \/ ret = "error" /\ << asked.x, asked.y >> \notin Flat[DepthMax]
     \/ ret = "crash" /\ << asked.x, asked.y >> \notin Flat[MappingMax]
=============================================================================
