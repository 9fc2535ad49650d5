--------------------------- MODULE IntegerValues ---------------------------
(***************************************************************************)
(* Integers and their texts (src/src/objects/integer.c), with a smaller    *)
(* MAX than 2^63 - 1.  Unsigned arithmetic wraps around at 2 * (MAX + 1).  *)
(* Like 2^63 - 1, MAX starts with a 9, so no multiple of a digit wraps     *)
(* around in a number with as many digits as MAX.                          *)
(***************************************************************************)
EXTENDS Integers, SequencesExt

CONSTANTS
  MAX,        \* INTEGEROBJECT_MAX
  MAXDIGITS   \* INTEGEROBJECT_MAXDIGITS: characters in the longest integer

\* 10 to the power of i
TenTo[i \in 0 .. MAXDIGITS] == IF i = 0 THEN 1 ELSE 10 * TenTo[i - 1]

ASSUME IntegerAssumption ==
  /\ MAX \in Nat /\ MAXDIGITS \in Nat \ {0, 1}
  /\ 9 * TenTo[MAXDIGITS - 2] <= MAX /\ MAX < TenTo[MAXDIGITS - 1]

MIN == -MAX
Unsigned(x) == x % (2 * (MAX + 1))
Signed(x) == IF x > MAX THEN x - 2 * (MAX + 1) ELSE x

DigitChars == << "0", "1", "2", "3", "4", "5", "6", "7", "8", "9" >>
DigitOf == [c \in ToSet(DigitChars) |-> CHOOSE d \in 0 .. 9 : DigitChars[d + 1] = c]
NotAnInteger == [ok |-> FALSE, val |-> 0]

\* mutant: one leading zero too many is removed
ZerosRemovedTooMany(s) ==
  LET kept == {i \in DOMAIN s : s[i] # "0"}
  IN  IF kept = {} THEN << >> ELSE SubSeq(s, Min(kept), Len(s))
\* leading zeros, but not the last digit
ZerosRemoved(s) ==
  LET kept == {i \in DOMAIN s : s[i] # "0" \/ i = Len(s)}
  IN  IF kept = {} THEN << >> ELSE SubSeq(s, Min(kept), Len(s))

\* absval after each turn, from the last digit to the first; bad once it is more than absmax
Absolute(digits, absmax) ==
  LET turn[i \in 0 .. Len(digits)] ==
        IF i = 0 THEN [bad |-> FALSE, absval |-> 0, multipleby |-> 1]
        ELSE LET acc == turn[i - 1]
                 part == Unsigned(DigitOf[digits[Len(digits) - i + 1]] * acc.multipleby)
             IN  IF acc.bad \/ acc.absval > Unsigned(absmax - part)
                 THEN [acc EXCEPT !.bad = TRUE]
                 ELSE [bad |-> FALSE, absval |-> Unsigned(acc.absval + part),
                       multipleby |-> Unsigned(acc.multipleby * 10)]
  IN  turn[Len(digits)]

parse_ustr(ustr) ==
  LET isnegative == Len(ustr) > 0 /\ ustr[1] = "-"
      digits == ZerosRemoved(IF isnegative THEN Tail(ustr) ELSE ustr)
      abs == Absolute(digits, MAX)
  IN  IF \/ digits = << >> \/ Len(digits) > MAXDIGITS
         \/ \E i \in DOMAIN digits : digits[i] \notin DOMAIN DigitOf
         \/ abs.bad
      THEN NotAnInteger
      ELSE [ok |-> TRUE,
            val |-> IF isnegative THEN -Signed(Unsigned(abs.absval - 1)) - 1
                                  ELSE Signed(abs.absval)]

\* res is filled in backwards, without leading zeros
Digits[n \in 0 .. MAX] ==
  IF n = 0 THEN << >> ELSE Append(Digits[n \div 10], DigitChars[(n % 10) + 1])
to_string(val) ==
  CASE val = 0 -> << "0" >>
    [] val < 0 -> << "-" >> \o Digits[-(val + 1) + 1]
    [] OTHER -> Digits[val]
=============================================================================
