------------------------------ MODULE Values ------------------------------
(***************************************************************************)
(* The data a program works on: strings, byte arrays, integers and files.  *)
(* They share no state: a behaviour decodes one byte string, makes one     *)
(* call of a string method, converts one text to an integer and back, or   *)
(* uses one file.                                                          *)
(***************************************************************************)
EXTENDS Utf8, Strings, IntegerValues, FileIO

CONSTANT IntegerTexts    \* the arguments of (new Integer)
ASSUME IntegerTextsAssumption == IntegerTexts \subseteq Seq(Chars)

VARIABLES
  ustr,       \* the text of an integer
  integer,    \* what parse_ustr made of it
  text        \* to_string of that
integerVars == << ustr, integer, text >>

NoBytes == utf8 = << >> /\ at = 0 /\ unicode = << >> /\ outcome = "none"
NoCall ==
  /\ call = Call("none", << >>, 0, 0, << >>, << >>)
  /\ offset = 0 /\ res = << >> /\ parts = << >> /\ state = "none"
NotConverted == [ok |-> FALSE, val |-> MAX + 1]
IntegerInit(texts) == ustr \in texts /\ integer = NotConverted /\ text = << >>

Init ==
  \/ DecodeInit /\ NoCall /\ IntegerInit({<< >>}) /\ NoFile
  \/ NoBytes /\ StringInit /\ IntegerInit({<< >>}) /\ NoFile
  \/ NoBytes /\ NoCall /\ IntegerInit(IntegerTexts) /\ NoFile
  \/ NoBytes /\ NoCall /\ IntegerInit({<< >>}) /\ FileInit

\* (new Integer ustr).(to_string)
Convert ==
  /\ outcome = "none" /\ state = "none" /\ kind = "none" /\ integer = NotConverted
  /\ integer' = parse_ustr(ustr)
  /\ text' = IF integer'.ok THEN to_string(integer'.val) ELSE << >>
  /\ UNCHANGED << ustr, utf8Vars, stringVars, fileVars >>

Next ==
  \/ (DecodeTurn \/ DecodeEnd) /\ UNCHANGED << stringVars, integerVars, fileVars >>
  \/ StringNext /\ UNCHANGED << utf8Vars, integerVars, fileVars >>
  \/ FileNext /\ UNCHANGED << utf8Vars, stringVars, integerVars >>
  \/ Convert
vars == << utf8Vars, stringVars, integerVars, fileVars >>
Spec == Init /\ [][Next]_vars
-----------------------------------------------------------------------------
\* the number that a text stands for
IsNumber(s) ==
  /\ s # << >> /\ s # << "-" >>
  /\ \A i \in DOMAIN s : s[i] \in DOMAIN DigitOf \/ (i = 1 /\ s[i] = "-")
NumberOf(digits) ==
  LET first[i \in 0 .. Len(digits)] ==
        IF i = 0 THEN 0 ELSE 10 * first[i - 1] + DigitOf[digits[i]]
  IN  first[Len(digits)]
Number(s) == IF s[1] = "-" THEN -NumberOf(Tail(s)) ELSE NumberOf(s)
Digits10(s) == ZerosRemoved(IF s # << >> /\ s[1] = "-" THEN Tail(s) ELSE s)
ConvertedExactly ==
  /\ integer.ok <=> IsNumber(ustr) /\ Number(ustr) \in MIN .. MAX
  /\ integer.ok => /\ integer.val = Number(ustr)
                   /\ IsNumber(text) /\ Number(text) = integer.val
                   /\ text \in {Digits10(text), << "-" >> \o Digits10(text)} \ {<< "-", "0" >>}
                   /\ Len(text) <= MAXDIGITS
(***************************************************************************)
(* (new Integer) accepts exactly the numbers from MIN to MAX, whatever     *)
(* zeros they start with, and to_string gives the number back without them *)
(* and without leaving res (integer.c, 22 to 184).  Texts with MAXDIGITS   *)
(* digits are left out: see LiteralsInRange.                               *)
(***************************************************************************)
IntegersExact ==
  integer # NotConverted /\ Len(Digits10(ustr)) # MAXDIGITS => ConvertedExactly

(***************************************************************************)
(* Integers are between MIN and MAX, and the text of any other number is   *)
(* an error (docs/builtins.md, 638; the message of integer.c, 77).         *)
(***************************************************************************)
LiteralsInRange == integer # NotConverted => ConvertedExactly
=============================================================================
