------------------------------ MODULE Strings ------------------------------
(***************************************************************************)
(* The string methods that loop: replace (src/src/unicode.c), slice and    *)
(* split_by_whitespace (src/src/objects/string.c).  Offsets count from 0,  *)
(* as in the code: the character at an offset is src[offset + 1].          *)
(***************************************************************************)
EXTENDS Integers, SequencesExt

CONSTANTS
  Chars,    \* the characters of texts
  White,    \* those that unicode_isspace accepts
  Calls     \* the calls to make, see Call

\* start and end are of slice, old and new of replace
Call(method, src, start, end, old, new) ==
  [method |-> method, src |-> src, start |-> start, end |-> end, old |-> old, new |-> new]

ASSUME CharsAssumption ==
  /\ White \subseteq Chars
  /\ \A c \in Calls :
       c \in [method : {"replace", "slice", "split_by_whitespace"}, src : Seq(Chars),
             start : Int, end : Int, old : Seq(Chars), new : Seq(Chars)]

VARIABLES
  call,     \* the call being made
  offset,   \* in src
  res,      \* the string being made
  parts,    \* the array being made
  state     \* "called", "looping", "done" or "ValueError"
stringVars == << call, offset, res, parts, state >>

src == call.src
old == call.old
new == call.new

StringInit ==
  /\ call \in Calls
  /\ offset = 0 /\ res = << >> /\ parts = << >> /\ state = "called"

\* replace ------------------------------------------------------------------
\* mutant: there is room for one replacement
capacityOnce ==
  IF Len(new) > Len(old) THEN Len(src) + Len(new) - Len(old) ELSE Len(src)
\* how many characters res has room for
capacity ==
  IF Len(new) > Len(old)
  THEN Len(src) + (Len(src) \div Len(old)) * (Len(new) - Len(old))
  ELSE Len(src)

ReplaceBegin ==
  /\ state = "called" /\ call.method = "replace"
  /\ IF src # << >> /\ old = << >>
     THEN state' = "ValueError" /\ UNCHANGED << offset, res >>
     ELSE /\ res' = src
          /\ IF src = << >> \/ Len(src) < Len(old)
             THEN state' = "done" /\ UNCHANGED offset
             ELSE state' = "looping" /\ offset' = Len(src) - Len(old)
  /\ UNCHANGED << call, parts >>

FoundOld == SubSeq(src, offset + 1, offset + Len(old)) = old
ReplaceSkip ==
  /\ state = "looping" /\ call.method = "replace" /\ ~FoundOld
  /\ IF offset = 0 THEN state' = "done" /\ UNCHANGED offset
                   ELSE offset' = offset - 1 /\ UNCHANGED state
  /\ UNCHANGED << call, res, parts >>

\* memmove makes room, memcpy puts new there
Replaced ==
  SubSeq(res, 1, offset) \o new \o SubSeq(res, offset + Len(old) + 1, Len(res))
\* mutant: characters of the replaced area may be replaced again
ReplaceFoundNext ==
  /\ state = "looping" /\ call.method = "replace" /\ FoundOld
  /\ res' = Replaced
  /\ IF offset = 0 THEN state' = "done" /\ UNCHANGED offset
                   ELSE offset' = offset - 1 /\ UNCHANGED state
  /\ UNCHANGED << call, parts >>
ReplaceFound ==
  /\ state = "looping" /\ call.method = "replace" /\ FoundOld
  /\ res' = Replaced
  /\ IF offset < Len(old) THEN state' = "done" /\ UNCHANGED offset
                          ELSE offset' = offset - Len(old) /\ UNCHANGED state
  /\ UNCHANGED << call, parts >>

\* slice --------------------------------------------------------------------
Slice ==
  /\ state = "called" /\ call.method = "slice"
  /\ LET start == IF call.start < 0 THEN 0 ELSE call.start
         end == IF call.end > Len(src) THEN Len(src) ELSE call.end
     IN  res' = IF end < 0 \/ start >= end THEN << >> ELSE SubSeq(src, start + 1, end)
  /\ state' = "done"
  /\ UNCHANGED << call, offset, parts >>

\* split_by_whitespace ------------------------------------------------------
\* the first offset from i on whose character is white, or is not; the length of src if none
FirstAt(i, white) ==
  CHOOSE j \in i .. Len(src) :
    /\ j = Len(src) \/ (src[j + 1] \in White) = white
    /\ \A k \in i .. j - 1 : (src[k + 1] \in White) # white

SplitBegin ==
  /\ state = "called" /\ call.method = "split_by_whitespace"
  /\ offset' = FirstAt(0, FALSE)
  /\ state' = "looping"
  /\ UNCHANGED << call, res, parts >>

SplitWord ==
  /\ state = "looping" /\ call.method = "split_by_whitespace" /\ offset < Len(src)
  /\ LET nows_end == FirstAt(offset + 1, TRUE)
     IN  /\ parts' = Append(parts, SubSeq(src, offset + 1, nows_end))
         /\ IF nows_end = Len(src) THEN state' = "done" /\ UNCHANGED offset
                                   ELSE offset' = FirstAt(nows_end + 1, FALSE) /\ UNCHANGED state
  /\ UNCHANGED << call, res >>

SplitEnd ==
  /\ state = "looping" /\ call.method = "split_by_whitespace" /\ offset = Len(src)
  /\ state' = "done"
  /\ UNCHANGED << call, offset, res, parts >>

StringNext ==
  \/ ReplaceBegin \/ ReplaceSkip \/ ReplaceFound
  \/ Slice
  \/ SplitBegin \/ SplitWord \/ SplitEnd
StringSpec == StringInit /\ [][StringNext]_stringVars
-----------------------------------------------------------------------------
(***************************************************************************)
(* The occurrences of o in s that are replaced: of two that overlap, the   *)
(* one nearer to the end.  Pieces are what the characters of s become.     *)
(***************************************************************************)
Occurrences(s, o) == {i \in 1 .. Len(s) - Len(o) + 1 : SubSeq(s, i, i + Len(o) - 1) = o}
ChosenOccurrences(s, o) ==
  CHOOSE chosen \in SUBSET Occurrences(s, o) :
    \A i \in Occurrences(s, o) :
      i \in chosen <=> ~ \E j \in chosen : i < j /\ j < i + Len(o)
Pieces(s, o, n) ==
  LET chosen == ChosenOccurrences(s, o)
  IN  [i \in 1 .. Len(s) |->
         CASE i \in chosen -> n
           [] i \notin chosen /\ \E j \in chosen : j < i /\ i < j + Len(o) -> << >>
           [] OTHER -> << s[i] >>]
WithoutOld(s, o, n) == FlattenSeq(Pieces(s, o, n))

\* The longest spans of s without white space, in their order.
Bare(s, i, j) == \A k \in i .. j : s[k] \notin White
Spans(s) ==
  {p \in (1 .. Len(s)) \X (1 .. Len(s)) :
     /\ p[1] <= p[2] /\ Bare(s, p[1], p[2])
     /\ p[1] = 1 \/ ~Bare(s, p[1] - 1, p[2])
     /\ p[2] = Len(s) \/ ~Bare(s, p[1], p[2] + 1)}
SpansBefore(s, p) == Cardinality({q \in Spans(s) : q[1] < p[1]})
Words(s) ==
  [n \in 1 .. Cardinality(Spans(s)) |->
     LET p == CHOOSE p \in Spans(s) : SpansBefore(s, p) = n - 1 IN SubSeq(s, p[1], p[2])]

(***************************************************************************)
(* What the methods return: every occurrence of old replaced once and no   *)
(* replacement replaced again; the characters from start up to end, out of *)
(* range or not; the words between white space, none of them empty         *)
(* (docs/builtins.md, String and Array).                                   *)
(***************************************************************************)
StringsExact ==
  state = "done" =>
    CASE call.method = "replace" ->
           res = IF old = << >> THEN src ELSE WithoutOld(src, old, new)
      [] call.method = "slice" ->
           res = SubSeq(src, Max({1, call.start + 1}), Min({Len(src), call.end}))
      [] OTHER -> parts = Words(src)

(***************************************************************************)
(* replace moves and copies characters inside of the memory it allocated   *)
(* before it knew how many replacements there are (unicode.c, 82 to 89).   *)
(***************************************************************************)
ReplaceFits ==
  call.method = "replace" /\ old # << >> => Len(res) <= capacity
=============================================================================
