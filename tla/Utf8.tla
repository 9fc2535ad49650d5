------------------------------- MODULE Utf8 -------------------------------
(***************************************************************************)
(* utf8_decode and utf8_encode (src/src/utf8.c).  A byte is a number from  *)
(* 0 to 255 and a shift to the right is a division by a power of two.      *)
(***************************************************************************)
EXTENDS Integers, SequencesExt

CONSTANT ByteStrings    \* what may have to be decoded

ASSUME Utf8Assumption == ByteStrings \subseteq Seq(0 .. 255)

VARIABLES
  utf8,      \* the bytes
  at,        \* how many of them have been decoded
  unicode,   \* result: the code points so far
  outcome    \* "running", "ok" or "error"
utf8Vars == << utf8, at, unicode, outcome >>

\* mutant: the surrogates are code points like others
how_many_bytes_surrogates(codepnt) ==
  CASE codepnt <= 127 -> 1
    [] codepnt > 127 /\ codepnt <= 2047 -> 2
    [] codepnt > 2047 /\ codepnt <= 65535 -> 3
    [] codepnt > 65535 /\ codepnt <= 1114111 -> 4
    [] OTHER -> -1
how_many_bytes(codepnt) ==
  CASE codepnt <= 127 -> 1
    [] codepnt > 127 /\ codepnt <= 2047 -> 2
    [] codepnt > 2047 /\ codepnt <= 65535 ->
         IF codepnt \in 55296 .. 57343 THEN -1 ELSE 3
    [] codepnt > 65535 /\ codepnt <= 1114111 -> 4
    [] OTHER -> -1

Start == << 0, 192, 224, 240 >>         \* the marks of the first bytes of 1 to 4
Weight == << 1, 64, 4096, 262144 >>     \* of the last byte, the last but one, ...
EncodedOne(codepnt) ==
  LET n == how_many_bytes(codepnt)
  IN  << Start[n] + codepnt \div Weight[n] >>
        \o [i \in 1 .. n - 1 |-> 128 + ((codepnt \div Weight[n - i]) % 64)]
utf8_encode(codepnts) ==
  IF \E i \in DOMAIN codepnts : how_many_bytes(codepnts[i]) = -1
  THEN [ok |-> FALSE, bytes |-> << >>]
  ELSE [ok |-> TRUE, bytes |-> FlattenSeq([i \in DOMAIN codepnts |-> EncodedOne(codepnts[i])])]

\* how many bytes the first one says there are; 0 for an invalid start byte
nbytes(byte) ==
  CASE byte \div 128 = 0 -> 1
    [] byte \div 32 = 6 -> 2
    [] byte \div 16 = 14 -> 3
    [] byte \div 8 = 30 -> 4
    [] OTHER -> 0
IsContinuation(byte) == byte \div 64 = 2
Unmarked == << 128, 32, 16, 8 >>        \* first bytes of 1 to 4 without their marks
CodePoint(bytes) ==
  LET n == Len(bytes)
      value[i \in 1 .. n] == IF i = 1 THEN bytes[1] % Unmarked[n]
                                      ELSE 64 * value[i - 1] + (bytes[i] % 64)
  IN  value[n]

DecodeInit ==
  /\ utf8 \in ByteStrings
  /\ at = 0 /\ unicode = << >> /\ outcome = "running"

\* one turn of the loop; an overlong encoding is one of more bytes than needed
DecodeTurn ==
  /\ outcome = "running" /\ at < Len(utf8)
  /\ LET n == nbytes(utf8[at + 1])
         bytes == SubSeq(utf8, at + 1, at + n)
         ok == /\ n > 0 /\ n <= Len(utf8) - at
               /\ \A i \in 2 .. n : IsContinuation(bytes[i])
               /\ how_many_bytes(CodePoint(bytes)) = n
     IN  IF ok
         THEN /\ unicode' = Append(unicode, CodePoint(bytes))
              /\ at' = at + n
              /\ UNCHANGED << utf8, outcome >>
         ELSE outcome' = "error" /\ UNCHANGED << utf8, at, unicode >>

DecodeEnd ==
  /\ outcome = "running" /\ at = Len(utf8)
  /\ outcome' = "ok"
  /\ UNCHANGED << utf8, at, unicode >>
-----------------------------------------------------------------------------
(***************************************************************************)
(* The well-formed byte sequences, as the Unicode standard lists them: what*)
(* may follow a first byte, as the sequence of the sets of later bytes.    *)
(***************************************************************************)
Later == 128 .. 191
MayFollow(byte) ==
  CASE byte \in 0 .. 127 -> << >>
    [] byte \in 194 .. 223 -> << Later >>
    [] byte = 224 -> << 160 .. 191, Later >>
    [] byte \in (225 .. 236) \cup {238, 239} -> << Later, Later >>
    [] byte = 237 -> << 128 .. 159, Later >>
    [] byte = 240 -> << 144 .. 191, Later, Later >>
    [] byte \in 241 .. 243 -> << Later, Later, Later >>
    [] byte = 244 -> << 128 .. 143, Later, Later >>
    [] OTHER -> << {} >>
Following(expected, byte) ==
  IF expected = << >> THEN MayFollow(byte)
  ELSE IF byte \in expected[1] THEN Tail(expected) ELSE << {} >>
Expected(bytes) ==
  LET expected[i \in 0 .. Len(bytes)] ==
        IF i = 0 THEN << >> ELSE Following(expected[i - 1], bytes[i])
  IN  expected
WellFormed(bytes) == Expected(bytes)[Len(bytes)] = << >>

(***************************************************************************)
(* utf8_decode accepts exactly the well-formed texts (no surrogates, no    *)
(* overlong forms, nothing cut off: utf8.c, 141 to 200) and, after every   *)
(* turn, encoding what it has decoded gives back the bytes it has read.    *)
(***************************************************************************)
DecodedExactly ==
  /\ outcome = "ok" => WellFormed(utf8)
  /\ outcome = "error" => ~WellFormed(utf8)
  /\ utf8_encode(unicode) = [ok |-> TRUE, bytes |-> SubSeq(utf8, 1, at)]
=============================================================================
