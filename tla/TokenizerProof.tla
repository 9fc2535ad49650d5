--------------------------- MODULE TokenizerProof ---------------------------
(***************************************************************************)
(* Proofs about the tokenizer, for every text and every set of letters:    *)
(* the tokens are the text.                                                *)
(***************************************************************************)
EXTENDS Tokenizer, Induction

-----------------------------------------------------------------------------
(***************************************************************************)
(* Reading a text character by character.  ReadAt(s, q) is what is known   *)
(* after q characters of s.                                                *)
(***************************************************************************)
Modes == {"code", "comment", "string", "escape"}
Readings(T) == [mode : Modes, line : Nat, out : Seq(T \X Nat)]
ReadAt(s, q) == ReadAll(SubSeq(s, 1, q))
ReadsUpTo(g, s) ==
  g[0] = NothingRead /\ \A i \in 1 .. Len(s) : g[i] = ReadChar(g[i - 1], s[i])

\* The characters that the rules are about differ.
LEMMA CharsDiffer ==
  /\ "\n" \in Spaces /\ "#" \notin Spaces /\ Quote \notin Spaces /\ "\\" \notin Spaces
  /\ Quote # "\n" /\ Quote # "#" /\ Quote # "\\" /\ "#" # "\n" /\ "\\" # "\n"
  /\ "\n" \notin Escapes
<1>1. "\n" \in Spaces /\ "#" \notin Spaces /\ "\\" \notin Spaces
  BY Zenon DEF Spaces
<1>2. Quote \notin Spaces
  BY Zenon DEF Spaces, Quote
<1>3. Quote # "\n" /\ Quote # "#" /\ Quote # "\\" /\ "#" # "\n" /\ "\\" # "\n"
  BY Zenon DEF Quote
<1>4. "\n" \notin Escapes
  BY Zenon DEF Escapes, Quote
<1> QED BY <1>1, <1>2, <1>3, <1>4

LEMMA ReadTyped ==
  ASSUME NEW T, NEW acc \in Readings(T), NEW c \in T
  PROVE  ReadChar(acc, c) \in Readings(T)
<1>1. /\ acc.mode \in Modes /\ acc.line \in Nat /\ acc.out \in Seq(T \X Nat)
      /\ acc = [mode |-> acc.mode, line |-> acc.line, out |-> acc.out]
  BY DEF Readings
<1>2. Append(acc.out, << c, acc.line >>) \in Seq(T \X Nat) /\ acc.line + 1 \in Nat
  BY <1>1
<1> DEFINE line == IF c = "\n" THEN acc.line + 1 ELSE acc.line
           out == Append(acc.out, << c, acc.line >>)
<1>3. line \in Nat
  BY <1>1, <1>2
<1>4. \E m \in Modes, o \in {acc.out, out} : ReadChar(acc, c) = [mode |-> m, line |-> line, out |-> o]
  <2> DEFINE Is(m, o) == ReadChar(acc, c) = [mode |-> m, line |-> line, out |-> o]
  <2> HIDE DEF out
  <2>1. CASE acc.mode = "comment"
    <3>1. Is(IF c = "\n" THEN "code" ELSE "comment", acc.out)
      BY <1>1, <2>1 DEF ReadChar
    <3> HIDE DEF Is
    <3>2. Is("code", acc.out) \/ Is("comment", acc.out)
      BY <3>1
    <3> QED BY <3>2 DEF Is, Modes
  <2>2. CASE acc.mode = "string"
    <3>1. Is(CASE c = Quote -> "code" [] c = "\\" -> "escape" [] OTHER -> "string", out)
      BY <1>1, <2>2 DEF ReadChar, out
    <3> HIDE DEF Is
    <3>2. Is("code", out) \/ Is("escape", out) \/ Is("string", out)
      BY <3>1
    <3> QED BY <3>2 DEF Is, Modes
  <2>3. CASE acc.mode = "escape"
    <3>1. Is("string", out)
      BY <1>1, <2>3 DEF ReadChar, out
    <3> QED BY <3>1 DEF Is, Modes
  <2>4. CASE acc.mode = "code" /\ c = "#"
    <3>1. Is("comment", acc.out)
      BY <1>1, <2>4, CharsDiffer DEF ReadChar
    <3> QED BY <3>1 DEF Is, Modes
  <2>5. CASE acc.mode = "code" /\ c # "#" /\ c \in Spaces
    <3>1. Is("code", acc.out)
      BY <1>1, <2>5 DEF ReadChar
    <3> QED BY <3>1 DEF Is, Modes
  <2>6. CASE acc.mode = "code" /\ c # "#" /\ c \notin Spaces
    <3>1. Is(IF c = Quote THEN "string" ELSE "code", out)
      BY <1>1, <2>6 DEF ReadChar, out
    <3> HIDE DEF Is
    <3>2. Is("code", out) \/ Is("string", out)
      BY <3>1
    <3> QED BY <3>2 DEF Is, Modes
  <2> QED BY <1>1, <2>1, <2>2, <2>3, <2>4, <2>5, <2>6 DEF Modes
<1>5. acc.out \in Seq(T \X Nat) /\ out \in Seq(T \X Nat)
  BY <1>1, <1>2
<1> HIDE DEF line, out
<1> QED BY <1>3, <1>4, <1>5 DEF Readings

LEMMA ReadSteps ==
  ASSUME NEW T, NEW s \in Seq(T)
  PROVE  \E g \in [0 .. Len(s) -> Readings(T)] : ReadsUpTo(g, s) /\ ReadAll(s) = g[Len(s)]
<1> DEFINE n == Len(s)
           V == Readings(T)
           step == [i \in 1 .. n |-> [x \in V |-> ReadChar(x, s[i])]]
           read == CHOOSE f : f = [i \in 0 .. n |->
                     IF i = 0 THEN NothingRead ELSE ReadChar(f[i - 1], s[i])]
<1>1. n \in Nat
  OBVIOUS
<1>2. NothingRead \in V
  BY DEF NothingRead, Readings, Modes
<1>3. step \in [1 .. n -> [V -> V]]
  <2>1. \A i \in 1 .. n : \A x \in V : ReadChar(x, s[i]) \in V
    BY ReadTyped
  <2> HIDE DEF V
  <2> QED BY <2>1
<1>4. ReadAll(s) = read[n]
  BY DEF ReadAll
<1>5. PICK g \in [0 .. n -> V] : Follows(g, n, NothingRead, step)
  <2> HIDE DEF step, n, V
  <2> QED BY <1>1, <1>2, <1>3, Recursion
<1>6. \A i \in 1 .. n : i - 1 \in 0 .. n /\ g[i - 1] \in V
  <2>1. \A i \in 1 .. n : i - 1 \in 0 .. n
    BY <1>1
  <2> HIDE DEF n, V
  <2> QED BY <1>5, <2>1
<1>7. g[0] = NothingRead /\ \A i \in 1 .. n : g[i] = ReadChar(g[i - 1], s[i])
  <2> HIDE DEF V
  <2> QED BY <1>5, <1>6 DEF Follows
<1> HIDE DEF n, step, V
<1>8. g = [i \in 0 .. n |-> IF i = 0 THEN NothingRead ELSE ReadChar(g[i - 1], s[i])]
  <2>1. \A i \in 0 .. n : i = 0 \/ i \in 1 .. n
    BY <1>1
  <2>2. \A i \in 0 .. n : g[i] = IF i = 0 THEN NothingRead ELSE ReadChar(g[i - 1], s[i])
    BY <1>7, <2>1
  <2> QED BY <1>5, <2>2
<1>9. read = [i \in 0 .. n |-> IF i = 0 THEN NothingRead ELSE ReadChar(read[i - 1], s[i])]
  BY <1>8
<1> HIDE DEF read
<1>10. \A i \in 1 .. n : read[i] = ReadChar(read[i - 1], s[i])
  <2>1. \A i \in 1 .. n : i \in 0 .. n /\ i # 0
    BY <1>1
  <2> QED BY <1>9, <2>1
<1> DEFINE S == {i \in 0 .. n : read[i] = g[i]}
<1>11. 0 \in S
  BY <1>1, <1>7, <1>9
<1>12. ASSUME NEW i \in 0 .. n - 1, i \in S
       PROVE  i + 1 \in S
  <2>1. i + 1 \in 1 .. n /\ i + 1 \in 0 .. n /\ i + 1 - 1 = i /\ i + 1 # 0
    BY <1>1
  <2>2. read[i + 1] = ReadChar(read[i + 1 - 1], s[i + 1])
    BY <1>10, <2>1
  <2>3. g[i + 1] = ReadChar(g[i + 1 - 1], s[i + 1])
    BY <1>7, <2>1
  <2> QED BY <1>12, <2>1, <2>2, <2>3
<1> HIDE DEF S
<1>13. \A i \in 0 .. n : i \in S
  BY <1>1, <1>11, <1>12, UpTo
<1>14. read[n] = g[n]
  <2>1. n \in 0 .. n
    BY <1>1
  <2> QED BY <1>13, <2>1 DEF S
<1> QED BY <1>4, <1>5, <1>7, <1>14 DEF n, V, ReadsUpTo

LEMMA ReadMore ==
  ASSUME NEW T, NEW s \in Seq(T), NEW q \in 1 .. Len(s)
  PROVE  /\ ReadAt(s, q) = ReadChar(ReadAt(s, q - 1), s[q])
         /\ ReadAt(s, q) \in Readings(T) /\ ReadAt(s, q - 1) \in Readings(T)
<1> DEFINE a == SubSeq(s, 1, q)
           b == SubSeq(s, 1, q - 1)
<1>1. /\ a \in Seq(T) /\ b \in Seq(T) /\ Len(a) = q /\ Len(b) = q - 1 /\ a[q] = s[q]
      /\ \A i \in 1 .. q - 1 : a[i] = s[i] /\ b[i] = s[i]
  OBVIOUS
<1> HIDE DEF a, b
<1>2. PICK g \in [0 .. q -> Readings(T)] : ReadsUpTo(g, a) /\ ReadAll(a) = g[q]
  BY <1>1, ReadSteps
<1>3. PICK h \in [0 .. q - 1 -> Readings(T)] : ReadsUpTo(h, b) /\ ReadAll(b) = h[q - 1]
  <2>1. \E h \in [0 .. Len(b) -> Readings(T)] : ReadsUpTo(h, b) /\ ReadAll(b) = h[Len(b)]
    BY <1>1, ReadSteps
  <2> QED BY <1>1, <2>1
<1> DEFINE S == {i \in 0 .. q - 1 : g[i] = h[i]}
<1>4. 0 \in S
  BY <1>2, <1>3 DEF ReadsUpTo
<1>5. ASSUME NEW i \in 0 .. (q - 1) - 1, i \in S
      PROVE  i + 1 \in S
  <2>1. i + 1 \in 1 .. q - 1 /\ i + 1 \in 1 .. q /\ i + 1 - 1 = i /\ i + 1 \in 0 .. q - 1
    OBVIOUS
  <2>2. g[i + 1] = ReadChar(g[i], a[i + 1]) /\ h[i + 1] = ReadChar(h[i], b[i + 1])
    BY <1>1, <1>2, <1>3, <2>1 DEF ReadsUpTo
  <2>3. g[i] = h[i] /\ a[i + 1] = b[i + 1]
    BY <1>1, <1>5, <2>1
  <2> QED BY <2>1, <2>2, <2>3
<1> HIDE DEF S
<1>6. \A i \in 0 .. q - 1 : i \in S
  <2>1. q - 1 \in Nat
    OBVIOUS
  <2> QED BY <1>4, <1>5, <2>1, UpTo
<1>7. g[q - 1] = h[q - 1]
  BY <1>6 DEF S
<1>8. g[q] = ReadChar(g[q - 1], a[q])
  BY <1>1, <1>2 DEF ReadsUpTo
<1>9. g[q] \in Readings(T) /\ h[q - 1] \in Readings(T)
  BY <1>2, <1>3
<1> QED BY <1>1, <1>2, <1>3, <1>7, <1>8, <1>9 DEF ReadAt, a, b

LEMMA ReadNone ==
  ASSUME NEW T, NEW s \in Seq(T)
  PROVE  ReadAt(s, 0) = NothingRead
<1>1. SubSeq(s, 1, 0) \in Seq(T) /\ Len(SubSeq(s, 1, 0)) = 0
  OBVIOUS
<1>2. PICK g \in [0 .. 0 -> Readings(T)] :
        ReadsUpTo(g, SubSeq(s, 1, 0)) /\ ReadAll(SubSeq(s, 1, 0)) = g[0]
  BY <1>1, ReadSteps
<1> QED BY <1>2 DEF ReadAt, ReadsUpTo

LEMMA ReadAnywhere ==
  ASSUME NEW T, NEW s \in Seq(T), NEW q \in 0 .. Len(s)
  PROVE  ReadAt(s, q) \in Readings(T)
<1>1. CASE q = 0
  <2>1. NothingRead \in Readings(T)
    BY DEF NothingRead, Readings, Modes
  <2>2. ReadAt(s, 0) = NothingRead
    BY ReadNone
  <2> QED BY <1>1, <2>1, <2>2
<1>2. CASE q \in 1 .. Len(s)
  BY <1>2, ReadMore
<1> QED BY <1>1, <1>2

-----------------------------------------------------------------------------
(***************************************************************************)
(* The characters of a token, which are on one line, and a comment.        *)
(***************************************************************************)
Part(s, q, k) == SubSeq(s, q + 1, q + k)
Tagged(s, line) == [j \in 1 .. Len(s) |-> << s[j], line >>]
\* After q characters, k characters of a token were read, and the mode is m.
InToken(s, q, k, m) ==
  ReadAt(s, q + k) = [mode |-> m, line |-> ReadAt(s, q).line,
                      out |-> ReadAt(s, q).out \o Tagged(Part(s, q, k), ReadAt(s, q).line)]
ModeAfter(m, c) ==
  IF m = "code" THEN (IF c = Quote THEN "string" ELSE "code")
  ELSE IF m = "escape" THEN "string"
  ELSE IF c = Quote THEN "code" ELSE IF c = "\\" THEN "escape" ELSE "string"

LEMMA PartIs ==
  ASSUME NEW T, NEW s \in Seq(T), NEW q \in 0 .. Len(s), NEW k \in Nat, q + k <= Len(s)
  PROVE  /\ Part(s, q, k) \in Seq(T) /\ Len(Part(s, q, k)) = k
         /\ \A j \in 1 .. k : Part(s, q, k)[j] = s[q + j]
<1>1. Len(s) \in Nat
  OBVIOUS
<1>2. \A i \in q + 1 .. q + k : i \in 1 .. Len(s)
  BY <1>1
<1>3. \A i \in q + 1 .. q + k : s[i] \in T
  BY <1>2
<1>4. /\ SubSeq(s, q + 1, q + k) = [j \in 1 .. q + k - (q + 1) + 1 |-> s[q + 1 + j - 1]]
      /\ q + k - (q + 1) + 1 = k /\ \A j \in 1 .. k : q + 1 + j - 1 = q + j /\ q + j \in q + 1 .. q + k
  OBVIOUS
<1>5. Part(s, q, k) = [j \in 1 .. k |-> s[q + j]]
  BY <1>4 DEF Part
<1> QED BY <1>3, <1>4, <1>5

LEMMA TaggedIs ==
  ASSUME NEW T, NEW a \in Seq(T), NEW line \in Nat
  PROVE  /\ Tagged(a, line) \in Seq(T \X Nat) /\ Len(Tagged(a, line)) = Len(a)
         /\ \A j \in 1 .. Len(a) : Tagged(a, line)[j] = << a[j], line >>
<1> DEFINE n == Len(a)
           P == T \X Nat
           t == [j \in 1 .. n |-> << a[j], line >>]
<1>1. n \in Nat /\ \A j \in 1 .. n : << a[j], line >> \in P
  OBVIOUS
<1>2. Tagged(a, line) = t
  BY DEF Tagged
<1> HIDE DEF n, P
<1>3. t \in Seq(P) /\ Len(t) = n /\ \A j \in 1 .. n : t[j] = << a[j], line >>
  BY <1>1
<1> HIDE DEF t
<1> QED BY <1>2, <1>3 DEF n, P

OneMore(T, s, q, k, line, o) ==
  /\ o \o Tagged(Part(s, q, k), line) \in Seq(T \X Nat)
  /\ Append(o \o Tagged(Part(s, q, k), line), << s[q + k + 1], line >>)
       = o \o Tagged(Part(s, q, k + 1), line)

LEMMA TaggedMore ==
  ASSUME NEW T, NEW s \in Seq(T), NEW q \in 0 .. Len(s), NEW k \in Nat, q + k + 1 <= Len(s),
         NEW line \in Nat, NEW o \in Seq(T \X Nat)
  PROVE  OneMore(T, s, q, k, line, o)
<1> DEFINE a == Part(s, q, k)
           b == Part(s, q, k + 1)
<1>1. /\ a \in Seq(T) /\ Len(a) = k /\ \A j \in 1 .. k : a[j] = s[q + j]
      /\ b \in Seq(T) /\ Len(b) = k + 1 /\ \A j \in 1 .. k + 1 : b[j] = s[q + j]
  <2>1. q + k <= Len(s) /\ q + (k + 1) <= Len(s) /\ k + 1 \in Nat
    OBVIOUS
  <2> QED BY <2>1, PartIs
<1>2. s[q + k + 1] \in T /\ q + (k + 1) = q + k + 1 /\ k + 1 \in Nat
  OBVIOUS
<1> HIDE DEF a, b
<1> DEFINE x == << s[q + k + 1], line >>
           ta == Tagged(a, line)
           tb == Tagged(b, line)
<1>3. ta \in Seq(T \X Nat) /\ Len(ta) = k /\ \A j \in 1 .. k : ta[j] = << s[q + j], line >>
  <2>1. Len(a) = k /\ \A j \in 1 .. k : a[j] = s[q + j]
    BY <1>1
  <2>2. /\ ta \in Seq(T \X Nat) /\ Len(ta) = Len(a)
        /\ \A j \in 1 .. Len(a) : ta[j] = << a[j], line >>
    BY <1>1, TaggedIs
  <2> HIDE DEF ta
  <2> QED BY <2>1, <2>2
<1>4. /\ tb \in Seq(T \X Nat) /\ Len(tb) = k + 1
      /\ \A j \in 1 .. k + 1 : tb[j] = << s[q + j], line >>
  <2>1. Len(b) = k + 1 /\ \A j \in 1 .. k + 1 : b[j] = s[q + j]
    BY <1>1
  <2>2. /\ tb \in Seq(T \X Nat) /\ Len(tb) = Len(b)
        /\ \A j \in 1 .. Len(b) : tb[j] = << b[j], line >>
    BY <1>1, TaggedIs
  <2> HIDE DEF tb
  <2> QED BY <2>1, <2>2
<1>5. x \in T \X Nat /\ x = << s[q + (k + 1)], line >>
  BY <1>2
<1> HIDE DEF x, ta, tb
<1>6. tb = Append(ta, x)
  <2>1. \A j \in 1 .. k + 1 : j \in 1 .. k \/ j = k + 1
    OBVIOUS
  <2>2. /\ Append(ta, x) \in Seq(T \X Nat) /\ Len(Append(ta, x)) = k + 1 /\ Append(ta, x)[k + 1] = x
        /\ \A j \in 1 .. k : Append(ta, x)[j] = ta[j]
    BY <1>3, <1>5
  <2>3. \A j \in 1 .. k + 1 : tb[j] = Append(ta, x)[j]
    BY <1>3, <1>4, <1>5, <2>1, <2>2
  <2> QED BY <1>4, <2>2, <2>3, SeqEqual
<1>7. o \o ta \in Seq(T \X Nat) /\ Append(o \o ta, x) = o \o Append(ta, x)
  <2> DEFINE P == T \X Nat
  <2>1. o \in Seq(P) /\ ta \in Seq(P) /\ x \in P
    BY <1>3, <1>5
  <2> HIDE DEF P
  <2>2. o \o ta \in Seq(P) /\ << x >> \in Seq(P)
    BY <2>1
  <2>3. Append(o \o ta, x) = (o \o ta) \o << x >> /\ Append(ta, x) = ta \o << x >>
    BY <2>1, <2>2, AppendIsConcat
  <2>4. (o \o ta) \o << x >> = o \o (ta \o << x >>)
    BY <2>1, <2>2, ConcatAssociative
  <2> QED BY <2>2, <2>3, <2>4 DEF P
<1> QED BY <1>6, <1>7 DEF OneMore, a, b, x, ta, tb

LEMMA TaggedNone ==
  ASSUME NEW T, NEW s \in Seq(T), NEW q \in 0 .. Len(s), NEW line \in Nat, NEW o \in Seq(T \X Nat)
  PROVE  o \o Tagged(Part(s, q, 0), line) = o
<1>1. Len(Part(s, q, 0)) = 0
  BY PartIs
<1>2. Tagged(Part(s, q, 0), line) = << >>
  BY <1>1 DEF Tagged
<1> QED BY <1>2

LEMMA NoneInToken ==
  ASSUME NEW T, NEW s \in Seq(T), NEW q \in 0 .. Len(s), ReadAt(s, q).mode = "code"
  PROVE  InToken(s, q, 0, "code")
<1> DEFINE r == ReadAt(s, q)
<1>1. /\ r \in Readings(T) /\ r.line \in Nat /\ r.out \in Seq(T \X Nat)
      /\ r = [mode |-> r.mode, line |-> r.line, out |-> r.out]
  BY ReadAnywhere DEF Readings
<1>2. q + 0 = q
  OBVIOUS
<1>3. r.out \o Tagged(Part(s, q, 0), r.line) = r.out
  BY <1>1, TaggedNone
<1> QED BY <1>1, <1>2, <1>3 DEF InToken

LEMMA OneInToken ==
  ASSUME NEW T, NEW s \in Seq(T), NEW q \in 0 .. Len(s), NEW k \in Nat, q + k + 1 <= Len(s),
         NEW m \in {"code", "string", "escape"}, InToken(s, q, k, m), s[q + k + 1] # "\n",
         m = "code" => s[q + k + 1] \notin Spaces \cup {"#"}
  PROVE  InToken(s, q, k + 1, ModeAfter(m, s[q + k + 1]))
<1> DEFINE r == ReadAt(s, q)
           o == r.out \o Tagged(Part(s, q, k), r.line)
           c == s[q + k + 1]
<1>1. /\ r \in Readings(T) /\ r.line \in Nat /\ r.out \in Seq(T \X Nat)
      /\ r = [mode |-> r.mode, line |-> r.line, out |-> r.out]
  BY ReadAnywhere DEF Readings
<1>2. /\ q + (k + 1) \in 1 .. Len(s) /\ q + (k + 1) - 1 = q + k /\ q + k + 1 = q + (k + 1)
  OBVIOUS
<1>3. ReadAt(s, q + (k + 1)) = ReadChar(ReadAt(s, q + k), c)
  BY <1>2, ReadMore
<1>4. ReadAt(s, q + k) = [mode |-> m, line |-> r.line, out |-> o]
  BY DEF InToken
<1>5. o \in Seq(T \X Nat) /\ Append(o, << c, r.line >>) = r.out \o Tagged(Part(s, q, k + 1), r.line)
  <2> HIDE DEF r
  <2>1. OneMore(T, s, q, k, r.line, r.out)
    BY <1>1, TaggedMore
  <2> QED BY <2>1 DEF OneMore
<1>6. c # "\n" /\ (m = "code" => c \notin Spaces /\ c # "#")
  OBVIOUS
<1> HIDE DEF o, c, r
<1>7. ReadChar([mode |-> m, line |-> r.line, out |-> o], c)
        = [mode |-> ModeAfter(m, c), line |-> r.line, out |-> Append(o, << c, r.line >>)]
  <2>1. CASE m = "code"
    BY <1>1, <1>5, <1>6, <2>1 DEF ReadChar, ModeAfter
  <2>2. CASE m = "string"
    BY <1>1, <1>5, <1>6, <2>2, CharsDiffer DEF ReadChar, ModeAfter
  <2>3. CASE m = "escape"
    BY <1>1, <1>5, <1>6, <2>3 DEF ReadChar, ModeAfter
  <2> QED BY <2>1, <2>2, <2>3
<1>8. ReadAt(s, q + (k + 1)) = [mode |-> ModeAfter(m, c), line |-> r.line, out |-> Append(o, << c, r.line >>)]
  BY <1>3, <1>4, <1>7
<1> QED BY <1>5, <1>8 DEF InToken, r, c

\* A token of characters that have no meaning inside it.
LEMMA PlainRead ==
  ASSUME NEW T, NEW s \in Seq(T), NEW q \in 0 .. Len(s), NEW k \in 0 .. Len(s) - q,
         ReadAt(s, q).mode = "code",
         \A j \in 1 .. k : s[q + j] \notin Spaces \cup {"#", Quote}
  PROVE  InToken(s, q, k, "code")
<1> DEFINE S == {j \in 0 .. k : InToken(s, q, j, "code")}
<1>1. 0 \in S
  BY NoneInToken
<1>2. ASSUME NEW j \in 0 .. k - 1, j \in S
      PROVE  j + 1 \in S
  <2>1. /\ j + 1 \in 0 .. k /\ j + 1 \in 1 .. k /\ j \in Nat
        /\ q + j + 1 <= Len(s) /\ q + j + 1 = q + (j + 1)
    OBVIOUS
  <2>2. LET c == s[q + j + 1] IN c \notin Spaces /\ c # "#" /\ c # Quote /\ c # "\n"
    BY <2>1, CharsDiffer
  <2>3. InToken(s, q, j + 1, ModeAfter("code", s[q + j + 1]))
    BY <1>2, <2>1, <2>2, OneInToken
  <2>4. ModeAfter("code", s[q + j + 1]) = "code"
    BY <2>2 DEF ModeAfter
  <2> QED BY <2>1, <2>3, <2>4
<1> HIDE DEF S
<1>3. k \in Nat
  OBVIOUS
<1>4. \A j \in 0 .. k : j \in S
  BY <1>1, <1>2, <1>3, UpTo
<1>5. k \in S
  BY <1>3, <1>4
<1> QED BY <1>5 DEF S

\* A comment changes nothing until its line ends.
LEMMA CommentRead ==
  ASSUME NEW T, NEW s \in Seq(T), NEW q \in 0 .. Len(s), NEW k \in 1 .. Len(s) - q,
         ReadAt(s, q).mode \in {"code", "comment"}, ReadAt(s, q).mode = "code" => s[q + 1] = "#",
         \A j \in 1 .. k : s[q + j] # "\n"
  PROVE  ReadAt(s, q + k) = [mode |-> "comment", line |-> ReadAt(s, q).line, out |-> ReadAt(s, q).out]
<1> DEFINE r == ReadAt(s, q)
           S == {j \in 0 .. k : j # 0 => ReadAt(s, q + j) = [mode |-> "comment", line |-> r.line, out |-> r.out]}
<1>1. /\ r \in Readings(T) /\ r.line \in Nat /\ r.out \in Seq(T \X Nat)
      /\ r = [mode |-> r.mode, line |-> r.line, out |-> r.out]
  BY ReadAnywhere DEF Readings
<1>2. 0 \in S
  OBVIOUS
<1>3. ASSUME NEW j \in 0 .. k - 1, j \in S
      PROVE  j + 1 \in S
  <2> DEFINE c == s[q + (j + 1)]
             m == IF j = 0 THEN r.mode ELSE "comment"
  <2>1. /\ q + (j + 1) \in 1 .. Len(s) /\ q + (j + 1) - 1 = q + j /\ j + 1 \in 0 .. k
        /\ j + 1 \in 1 .. k /\ (j = 0 => q + (j + 1) = q + 1 /\ q + j = q)
    OBVIOUS
  <2>2. ReadAt(s, q + (j + 1)) = ReadChar(ReadAt(s, q + j), c)
    BY <2>1, ReadMore
  <2>3. ReadAt(s, q + j) = [mode |-> m, line |-> r.line, out |-> r.out]
    BY <1>1, <1>3, <2>1
  <2>4. c # "\n" /\ m \in {"code", "comment"} /\ (m = "code" => c = "#")
    BY <2>1
  <2> HIDE DEF c, m, r
  <2>5. ReadChar([mode |-> m, line |-> r.line, out |-> r.out], c)
          = [mode |-> "comment", line |-> r.line, out |-> r.out]
    BY <1>1, <2>4, CharsDiffer DEF ReadChar
  <2> QED BY <2>1, <2>2, <2>3, <2>5
<1> HIDE DEF S
<1>4. k \in Nat /\ k # 0
  OBVIOUS
<1>5. \A j \in 0 .. k : j \in S
  BY <1>2, <1>3, <1>4, UpTo
<1>6. k \in S
  BY <1>4, <1>5
<1> QED BY <1>4, <1>6 DEF S

-----------------------------------------------------------------------------
(***************************************************************************)
(* How far a token goes: a run of characters of a set, and a string.       *)
(***************************************************************************)
LEMMA WidthIs ==
  ASSUME NEW T, text \in Seq(T), NEW i \in 1 .. Len(text), NEW S
  PROVE  /\ Width(i, S) \in 0 .. Len(text) + 1 - i
         /\ \A j \in i .. i + Width(i, S) - 1 : text[j] \in S
         /\ i + Width(i, S) <= Len(text) => text[i + Width(i, S)] \notin S
<1> DEFINE n == Len(text)
           I == {j \in i .. n : text[j] \notin S}
           stop == IF I # {} THEN Min(I) ELSE 0
<1>1. Width(i, S) = (IF stop = 0 THEN n + 1 ELSE stop) - i
  BY DEF Width, SelectInSubSeq
<1>2. n \in Nat /\ I \subseteq i .. n
  OBVIOUS
<1>3. CASE I = {}
  <2>1. Width(i, S) = n + 1 - i
    BY <1>1, <1>3
  <2>2. \A j \in i .. n : text[j] \in S
    BY <1>3
  <2> HIDE DEF n, I, stop
  <2> QED BY <1>2, <2>1, <2>2 DEF n
<1>4. CASE I # {}
  <2>1. Min(I) \in I /\ \A j \in I : Min(I) <= j
    <3>1. I \subseteq Nat
      OBVIOUS
    <3> HIDE DEF I
    <3>2. \E x \in I : \A y \in I : x <= y
      BY <1>4, <3>1, Least
    <3> QED BY <3>2 DEF Min
  <2> DEFINE m == Min(I)
  <2>2. m \in i .. n /\ text[m] \notin S /\ m # 0
    BY <2>1
  <2>3. \A j \in i .. m - 1 : text[j] \in S
    <3> TAKE j \in i .. m - 1
    <3>1. j \in i .. n /\ ~(m <= j)
      BY <1>2, <2>2
    <3> HIDE DEF m
    <3>2. j \notin I
      BY <2>1, <3>1 DEF m
    <3> QED BY <3>1, <3>2
  <2>4. Width(i, S) = m - i
    BY <1>1, <1>4, <2>2
  <2> HIDE DEF n, I, stop, m
  <2>5. i + (m - i) = m /\ m - i \in 0 .. n + 1 - i
    BY <1>2, <2>2
  <2> QED BY <2>2, <2>3, <2>4, <2>5 DEF n
<1> QED BY <1>3, <1>4

EndOf(i, one, two) ==
  IF i > Len(text) \/ text[i] = "\n" THEN 0
  ELSE IF text[i] = Quote THEN i
  ELSE IF text[i] # "\\" THEN one
  ELSE IF i < Len(text) /\ text[i + 1] \in Escapes THEN two ELSE 0

LEMMA StringEndIs ==
  ASSUME NEW T, text \in Seq(T)
  PROVE  \A i \in 1 .. Len(text) + 1 :
           StringEnd[i] = EndOf(i, StringEnd[i + 1], StringEnd[i + 2])
<1> DEFINE n == Len(text)
           IsEnd(f) == f = [i \in 1 .. n + 1 |-> EndOf(i, f[i + 1], f[i + 2])]
           Two(k) == n + 1 - k < n /\ text[n + 1 - k] = "\\"
           down == [k \in 1 .. n |-> IF Two(k) THEN k - 2 ELSE k - 1]
           step == [k \in 1 .. n |-> [x \in Nat |-> EndOf(n + 1 - k, x, x)]]
<1>1. n \in Nat /\ n = Len(text)
  OBVIOUS
<1> HIDE DEF n
<1>2. \A k \in 1 .. n : \A x \in Nat : EndOf(n + 1 - k, x, x) \in Nat
  BY <1>1 DEF EndOf
<1>3. step \in [1 .. n -> [Nat -> Nat]]
  BY <1>2
<1>4. down \in [1 .. n -> Nat] /\ \A k \in 1 .. n : down[k] < k
  <2>1. \A k \in 1 .. n : Two(k) => k - 2 \in Nat
    BY <1>1
  <2> HIDE DEF Two
  <2>2. \A k \in 1 .. n : (IF Two(k) THEN k - 2 ELSE k - 1) \in Nat
                          /\ (IF Two(k) THEN k - 2 ELSE k - 1) < k
    BY <1>1, <2>1
  <2> QED BY <2>2
<1>5. PICK g \in [0 .. n -> Nat] : Descends(g, n, 0, down, step)
  <2> HIDE DEF down, step
  <2>1. 0 \in Nat
    OBVIOUS
  <2> QED BY <1>1, <1>3, <1>4, <2>1, Descent
<1> DEFINE h == [i \in 1 .. n + 1 |-> g[n + 1 - i]]
<1>6. \A i \in 1 .. n + 1 : h[i] = EndOf(i, h[i + 1], h[i + 2])
  <2> TAKE i \in 1 .. n + 1
  <2>1. CASE i = n + 1
    <3>1. h[i] = 0
      BY <1>1, <1>5, <2>1 DEF Descends
    <3>2. i > Len(text)
      BY <1>1, <2>1
    <3> HIDE DEF h
    <3> QED BY <3>1, <3>2 DEF EndOf
  <2>2. CASE i # n + 1
    <3> DEFINE k == n + 1 - i
    <3>1. k \in 1 .. n /\ n + 1 - k = i /\ i \in 1 .. n /\ k \in 0 .. n
      BY <1>1, <2>2
    <3>2. g[down[k]] \in Nat /\ g[k] = step[k][g[down[k]]]
      <4>1. down[k] \in 0 .. n
        <5> HIDE DEF down, k
        <5> QED BY <1>1, <1>4, <3>1
      <4> HIDE DEF down, step, k
      <4> QED BY <1>5, <3>1, <4>1 DEF Descends
    <3>3. h[i] = g[k]
      OBVIOUS
    <3>4. step[k][g[down[k]]] = EndOf(i, g[down[k]], g[down[k]])
      <4> HIDE DEF down, k
      <4> QED BY <3>1, <3>2
    <3>5. h[i] = EndOf(i, g[down[k]], g[down[k]])
      BY <3>2, <3>3, <3>4
    <3>6. i < n /\ text[i] = "\\" => g[down[k]] = h[i + 2]
      <4>1. i < n => i + 2 \in 1 .. n + 1 /\ n + 1 - (i + 2) = k - 2
        BY <1>1
      <4>2. i < n => h[i + 2] = g[k - 2]
        BY <4>1
      <4>3. i < n /\ text[i] = "\\" => down[k] = k - 2
        BY <3>1
      <4> QED BY <4>2, <4>3
    <3>7. text[i] # "\\" => g[down[k]] = h[i + 1]
      <4>1. i + 1 \in 1 .. n + 1 /\ n + 1 - (i + 1) = k - 1
        BY <1>1, <3>1
      <4>2. h[i + 1] = g[k - 1]
        BY <4>1
      <4>3. text[i] # "\\" => down[k] = k - 1
        BY <3>1
      <4> QED BY <4>2, <4>3
    <3> HIDE DEF h, k, down
    <3> QED BY <1>1, <3>5, <3>6, <3>7 DEF EndOf
  <2> QED BY <2>1, <2>2
<1>7. IsEnd(h)
  <2>1. h = [i \in 1 .. n + 1 |-> h[i]]
    OBVIOUS
  <2> HIDE DEF h
  <2> QED BY <1>6, <2>1
<1>8. StringEnd = CHOOSE f : IsEnd(f)
  BY DEF StringEnd, EndOf, n
<1> HIDE DEF h
<1>9. IsEnd(StringEnd)
  <2> HIDE DEF IsEnd
  <2> QED BY <1>7, <1>8
<1>10. \A i \in 1 .. n + 1 : StringEnd[i] = EndOf(i, StringEnd[i + 1], StringEnd[i + 2])
  <2> DEFINE f == StringEnd
  <2>1. f = [i \in 1 .. n + 1 |-> EndOf(i, f[i + 1], f[i + 2])]
    BY <1>9
  <2> HIDE DEF f
  <2>2. \A i \in 1 .. n + 1 : f[i] = EndOf(i, f[i + 1], f[i + 2])
    BY <2>1
  <2> QED BY <2>2 DEF f
<1> QED BY <1>10 DEF n

\* What can be known of k characters of a string that ends at e.
InString(q, k, e) ==
  LET i == q + k
  IN  \/ e \in q + 2 .. i /\ InToken(text, q, e - q, "code")
      \/ InToken(text, q, k, "string") /\ StringEnd[i + 1] = e
      \/ /\ InToken(text, q, k, "escape") /\ StringEnd[i + 2] = e
         /\ i < Len(text) /\ text[i + 1] \in Escapes

LEMMA StringRead ==
  ASSUME NEW T, text \in Seq(T), NEW q \in 0 .. Len(text) - 1,
         ReadAt(text, q).mode = "code", text[q + 1] = Quote, StringEnd[q + 2] # 0
  PROVE  /\ StringEnd[q + 2] \in q + 2 .. Len(text)
         /\ InToken(text, q, StringEnd[q + 2] - q, "code")
<1> DEFINE n == Len(text)
           e == StringEnd[q + 2]
           S == {k \in 0 .. n - q : k # 0 => InString(q, k, e)}
<1>1. n \in Nat /\ n = Len(text) /\ e # 0
  OBVIOUS
<1>2. \A i \in 1 .. n + 1 : StringEnd[i] = EndOf(i, StringEnd[i + 1], StringEnd[i + 2])
  BY StringEndIs
<1>3. 0 \in S
  BY <1>1
<1>4. ASSUME NEW k \in 0 .. n - q - 1, k \in S
      PROVE  k + 1 \in S
  <2> DEFINE i == q + k
             c == text[q + k + 1]
  <2>1. /\ k \in Nat /\ q + k + 1 <= n /\ k + 1 \in 0 .. n - q /\ q + (k + 1) = i + 1
        /\ i + 1 = q + k + 1 /\ i + 1 \in 1 .. n + 1 /\ i + 2 \in 1 .. n + 1
        /\ q + 1 \in 1 .. n /\ q + (k + 1) + 1 = i + 2 /\ q + (k + 1) + 2 = i + 3
    BY <1>1
  <2>2. SUFFICES InString(q, k + 1, e)
    BY <2>1
  <2>3. CASE k = 0
    <3>1. c = Quote /\ c # "\n" /\ c \notin Spaces /\ c # "#" /\ q + (k + 1) + 1 = q + 2
      BY <1>1, <2>3, CharsDiffer
    <3>2. InToken(text, q, k, "code")
      BY <2>3, NoneInToken
    <3>3. InToken(text, q, k + 1, ModeAfter("code", c))
      BY <2>1, <3>1, <3>2, OneInToken
    <3>4. ModeAfter("code", c) = "string"
      BY <3>1 DEF ModeAfter
    <3> QED BY <3>1, <3>3, <3>4 DEF InString
  <2>4. CASE k # 0 /\ e \in q + 2 .. i /\ InToken(text, q, e - q, "code")
    BY <2>1, <2>4 DEF InString
  <2>5. CASE k # 0 /\ InToken(text, q, k, "string") /\ StringEnd[i + 1] = e
    <3>1. EndOf(i + 1, StringEnd[i + 2], StringEnd[i + 3]) = e /\ i + 1 + 1 = i + 2 /\ i + 1 + 2 = i + 3
      BY <1>2, <2>1, <2>5
    <3>2. /\ c # "\n" /\ c = text[i + 1]
          /\ \/ c = Quote /\ e = i + 1
             \/ c # Quote /\ c # "\\" /\ StringEnd[i + 2] = e
             \/ c # Quote /\ c = "\\" /\ i + 1 < n /\ text[i + 2] \in Escapes /\ StringEnd[i + 3] = e
      <4> HIDE DEF e
      <4> QED BY <1>1, <2>1, <3>1, CharsDiffer DEF EndOf
    <3>3. InToken(text, q, k + 1, ModeAfter("string", c))
      BY <2>1, <2>5, <3>2, OneInToken
    <3>4. CASE c = Quote /\ e = i + 1
      <4>1. ModeAfter("string", c) = "code"
        BY <3>4 DEF ModeAfter
      <4>2. e - q = k + 1 /\ e \in q + 2 .. q + (k + 1)
        BY <2>1, <2>5, <3>4
      <4> QED BY <3>3, <4>1, <4>2 DEF InString
    <3>5. CASE c # Quote /\ c # "\\" /\ StringEnd[i + 2] = e
      <4>1. ModeAfter("string", c) = "string"
        BY <3>5 DEF ModeAfter
      <4> QED BY <2>1, <3>3, <3>5, <4>1 DEF InString
    <3>6. CASE c # Quote /\ c = "\\" /\ i + 1 < n /\ text[i + 2] \in Escapes /\ StringEnd[i + 3] = e
      <4>1. ModeAfter("string", c) = "escape"
        BY <3>6 DEF ModeAfter
      <4> QED BY <1>1, <2>1, <3>3, <3>6, <4>1 DEF InString
    <3> QED BY <3>2, <3>4, <3>5, <3>6
  <2>6. CASE /\ k # 0 /\ InToken(text, q, k, "escape") /\ StringEnd[i + 2] = e
             /\ i < n /\ text[i + 1] \in Escapes
    <3>1. c # "\n"
      BY <2>1, <2>6, CharsDiffer
    <3>2. InToken(text, q, k + 1, ModeAfter("escape", c))
      <4>1. \E m \in {"escape"} : m \in {"code", "string", "escape"} /\ m # "code" /\ m = "escape"
        OBVIOUS
      <4>2. InToken(text, q, k, "escape") /\ k \in Nat /\ q + k + 1 <= Len(text)
            /\ q \in 0 .. Len(text)
        BY <2>1, <2>6
      <4> HIDE DEF e, n, S
      <4> QED BY <3>1, <4>1, <4>2, OneInToken DEF c
    <3>3. ModeAfter("escape", c) = "string"
      BY DEF ModeAfter
    <3> QED BY <2>1, <2>6, <3>2, <3>3 DEF InString
  <2> QED BY <1>4, <2>3, <2>4, <2>5, <2>6 DEF InString
<1> HIDE DEF S, n
<1>5. \A k \in 0 .. n - q : k \in S
  <2>1. n - q \in Nat
    BY <1>1
  <2> QED BY <1>3, <1>4, <2>1, UpTo
<1>6. InString(q, n - q, e)
  <2>1. n - q \in 0 .. n - q /\ n - q # 0
    BY <1>1
  <2> QED BY <1>5, <2>1 DEF S
<1>7. q + (n - q) = n
  BY <1>1
<1>8. StringEnd[n + 1] = 0
  <2>1. n + 1 \in 1 .. n + 1 /\ n + 1 > Len(text)
    BY <1>1
  <2> QED BY <1>2, <2>1 DEF EndOf
<1> HIDE DEF e
<1>9. e \in q + 2 .. n /\ InToken(text, q, e - q, "code")
  BY <1>1, <1>6, <1>7, <1>8 DEF InString
<1> QED BY <1>9 DEF e, n

-----------------------------------------------------------------------------
(***************************************************************************)
(* The tokens.  Between two turns the text before pos was read to its end  *)
(* but for a comment, whose line ends next, and the tokens are its text.   *)
(***************************************************************************)
Kinds == {"op", "keyword", "str", "int", "id"}
Tokens(T) == [kind : Kinds, text : Seq(T), lineno : Nat]
TokenText(ts) == FlattenSeq([i \in 1 .. Len(ts) |-> Tagged(ts[i].text, ts[i].lineno)])

Plain(c) == c \notin Spaces \cup {"#", Quote}
BetweenTurns ==
  LET r == ReadAt(text, pos - 1)
  IN  /\ r.line = lineno /\ r.out = TokenText(toks)
      /\ r.mode = "code" \/ (r.mode = "comment" /\ (pos <= Len(text) => text[pos] = "\n"))
TokenInv ==
  /\ text \in Seq(ToSet(text)) /\ pos \in 1 .. Len(text) + 1
  /\ lineno \in Nat /\ toks \in Seq(Tokens(ToSet(text)))
  /\ stage = "tokenizing" => BetweenTurns
  /\ toks # << >> => TokenText(toks) = ReadAt(text, pos - 1).out

LEMMA TokenAdded ==
  ASSUME NEW T, NEW ts \in Seq(Tokens(T)), NEW t \in Tokens(T)
  PROVE  TokenText(Append(ts, t)) = TokenText(ts) \o Tagged(t.text, t.lineno)
<1> DEFINE P == T \X Nat
           n == Len(ts)
           tts == Append(ts, t)
           a == [i \in 1 .. n |-> Tagged(ts[i].text, ts[i].lineno)]
           b == [i \in 1 .. n + 1 |-> Tagged(tts[i].text, tts[i].lineno)]
           x == Tagged(t.text, t.lineno)
<1>1. \A u \in Tokens(T) : Tagged(u.text, u.lineno) \in Seq(P)
  <2> TAKE u \in Tokens(T)
  <2>1. u.text \in Seq(T) /\ u.lineno \in Nat
    BY DEF Tokens
  <2> QED BY <2>1, TaggedIs
<1>2. /\ n \in Nat /\ Len(tts) = n + 1 /\ tts[n + 1] = t /\ \A i \in 1 .. n : tts[i] = ts[i]
      /\ \A i \in 1 .. n : ts[i] \in Tokens(T)
  OBVIOUS
<1> HIDE DEF P, tts, n
<1>3. a \in Seq(Seq(P)) /\ Len(a) = n /\ x \in Seq(P)
  <2>1. \A i \in 1 .. n : Tagged(ts[i].text, ts[i].lineno) \in Seq(P)
    BY <1>1, <1>2
  <2>2. x \in Seq(P)
    BY <1>1
  <2>3. n \in Nat
    BY <1>2
  <2> DEFINE f(i) == Tagged(ts[i].text, ts[i].lineno)
             q == Seq(P)
  <2>4. \A i \in 1 .. n : f(i) \in q
    BY <2>1
  <2> HIDE DEF f, q
  <2>5. [i \in 1 .. n |-> f(i)] \in Seq(q) /\ Len([i \in 1 .. n |-> f(i)]) = n
    BY <2>3, <2>4
  <2> QED BY <2>2, <2>5 DEF f, q
<1>4. b = Append(a, x)
  <2> DEFINE c == Append(a, x)
  <2>1. \A i \in 1 .. n + 1 : i \in 1 .. n \/ i = n + 1
    BY <1>2
  <2>2. a[1] = a[1] /\ \A i \in 1 .. n : a[i] = Tagged(ts[i].text, ts[i].lineno)
    OBVIOUS
  <2>3. x = Tagged(t.text, t.lineno)
    OBVIOUS
  <2> HIDE DEF a, x
  <2>4. /\ c \in Seq(Seq(P)) /\ Len(c) = n + 1 /\ c[n + 1] = x /\ \A i \in 1 .. n : c[i] = a[i]
    BY <1>2, <1>3
  <2> HIDE DEF c
  <2>5. \A i \in 1 .. n + 1 : Tagged(tts[i].text, tts[i].lineno) = c[i]
    BY <1>2, <2>1, <2>2, <2>3, <2>4
  <2>6. c = [i \in 1 .. n + 1 |-> c[i]]
    BY <1>2, <2>4
  <2> QED BY <2>5, <2>6 DEF c
<1>5. TokenText(ts) = FlattenSeq(a) /\ TokenText(tts) = FlattenSeq(b)
  BY <1>2 DEF TokenText, n
<1> HIDE DEF a, b, x
<1>6. FlattenSeq(Append(a, x)) = FlattenSeq(a) \o x
  BY <1>3, FlattenAppend
<1> QED BY <1>4, <1>5, <1>6 DEF tts, x

LEMMA InvIsTheText == ASSUME TokenInv PROVE TokensAreTheText
<1>1. toks # << >> => TokenText(toks) = ReadAll(SubSeq(text, 1, pos - 1)).out
  BY DEF TokenInv, ReadAt
<1>2. DOMAIN toks = 1 .. Len(toks) /\ \A i \in 1 .. Len(toks) : DOMAIN toks[i].text = 1 .. Len(toks[i].text)
  <2>1. toks \in Seq(Tokens(ToSet(text)))
    BY DEF TokenInv
  <2>2. \A i \in 1 .. Len(toks) : toks[i] \in Tokens(ToSet(text))
    BY <2>1
  <2>3. \A i \in 1 .. Len(toks) : toks[i].text \in Seq(ToSet(text))
    BY <2>2 DEF Tokens
  <2> QED BY <2>1, <2>3
<1>3. [i \in DOMAIN toks |-> [j \in DOMAIN toks[i].text |-> << toks[i].text[j], toks[i].lineno >>]]
        = [i \in 1 .. Len(toks) |-> Tagged(toks[i].text, toks[i].lineno)]
  BY <1>2 DEF Tagged
<1> QED BY <1>1, <1>3 DEF TokensAreTheText, Visible, TokenText

\* Characters that end no token and start no string or comment.
LEMMA PlainChars ==
  /\ \A c \in Operators1 \cup Letters \cup Numerals \cup {"v", "a", "r"} : Plain(c)
  /\ \A o \in Operators2 : Plain(o[1]) /\ Plain(o[2])
<1>1. \A c \in {"{", "}", "[", "]", "(", ")", "=", ";"} : Plain(c)
  BY Zenon DEF Plain, Spaces, Quote
<1>2. \A c \in {".", ":", "'", "+", "-", "*", "/", "<", ">"} : Plain(c)
  BY Zenon DEF Plain, Spaces, Quote
<1>3. \A c \in Operators1 : Plain(c)
  BY <1>1, <1>2, Zenon DEF Operators1
<1>4. \A c \in {"0", "1", "2", "3", "4", "5", "6", "7", "8", "9"} : Plain(c)
  BY Zenon DEF Plain, Spaces, Quote
<1>5. \A c \in Numerals : Plain(c)
  <2>1. Numerals = {DigitChars[i] : i \in DOMAIN DigitChars}
    BY DEF Numerals, DigitOf, ToSet
  <2>2. \A i \in DOMAIN DigitChars :
          DigitChars[i] \in {"0", "1", "2", "3", "4", "5", "6", "7", "8", "9"}
    BY DEF DigitChars
  <2> QED BY <1>4, <2>1, <2>2
<1>6. \A c \in Letters : Plain(c)
  BY LettersAssumption DEF Plain
<1>7. \A c \in {"v", "a", "r"} : Plain(c)
  BY Zenon DEF Plain, Spaces, Quote
<1>8. \A o \in Operators2 : Plain(o[1]) /\ Plain(o[2])
  <2>1. \A c \in {"=", "!", ">", "<"} : Plain(c)
    BY Zenon DEF Plain, Spaces, Quote
  <2>2. \A o \in Operators2 : o[1] \in {"=", "!", ">", "<"} /\ o[2] \in {"="}
    BY DEF Operators2
  <2> QED BY <2>1, <2>2
<1> QED BY <1>3, <1>5, <1>6, <1>7, <1>8

LEMMA CodeAtToken ==
  ASSUME TokenInv, stage = "tokenizing", Left > 0, Char # "\n"
  PROVE  /\ ReadAt(text, pos - 1).mode = "code" /\ pos \in 1 .. Len(text)
         /\ pos - 1 \in 0 .. Len(text) /\ Left = Len(text) - (pos - 1) /\ pos - 1 + 1 = pos
<1>1. pos \in 1 .. Len(text) /\ Len(text) \in Nat
  BY DEF TokenInv, Left
<1> QED BY <1>1 DEF TokenInv, BetweenTurns, Char, Left

LEMMA TokenKeeps ==
  ASSUME TokenInv, stage = "tokenizing", NEW kind \in Kinds, NEW k \in 1 .. Left,
         Token(kind, k), InToken(text, pos - 1, k, "code")
  PROVE  TokenInv'
<1> DEFINE T == ToSet(text)
           q == pos - 1
           part == Part(text, q, k)
           t == [kind |-> kind, text |-> part, lineno |-> lineno]
           r == ReadAt(text, q)
<1>1. /\ text \in Seq(T) /\ pos \in 1 .. Len(text) + 1 /\ lineno \in Nat /\ toks \in Seq(Tokens(T))
      /\ r.line = lineno /\ r.out = TokenText(toks) /\ Len(text) \in Nat
  BY DEF TokenInv, BetweenTurns
<1>2. /\ q \in 0 .. Len(text) /\ k \in Nat /\ q + k <= Len(text) /\ q + 1 = pos /\ q + k = pos + k - 1
      /\ pos + k \in 1 .. Len(text) + 1 /\ k # 0
  BY <1>1 DEF Left
<1>3. part \in Seq(T)
  BY <1>1, <1>2, PartIs
<1>4. t \in Tokens(T)
  BY <1>1, <1>3 DEF Tokens
<1>5. /\ toks' = Append(toks, t) /\ pos' = pos + k
      /\ text' = text /\ lineno' = lineno /\ stage' = stage
  BY <1>2 DEF Token, Part
<1>6. ReadAt(text, q + k) = [mode |-> "code", line |-> lineno, out |-> TokenText(toks) \o Tagged(part, lineno)]
  BY <1>1 DEF InToken
<1>7. TokenText(toks') = TokenText(toks) \o Tagged(part, lineno)
  <2>1. TokenText(Append(toks, t)) = TokenText(toks) \o Tagged(t.text, t.lineno)
    BY <1>1, <1>4, TokenAdded
  <2> QED BY <1>5, <2>1
<1>8. toks' \in Seq(Tokens(T))
  BY <1>1, <1>4, <1>5
<1>9. pos' - 1 = q + k /\ pos' \in 1 .. Len(text) + 1
  BY <1>2, <1>5
<1> HIDE DEF T, q, part, t, r
<1>10. ReadAt(text', pos' - 1) = [mode |-> "code", line |-> lineno, out |-> TokenText(toks')]
  BY <1>5, <1>6, <1>7, <1>9
<1> QED BY <1>1, <1>5, <1>8, <1>9, <1>10 DEF TokenInv, BetweenTurns, T

\* A token of plain characters.
LEMMA PlainTokenKeeps ==
  ASSUME TokenInv, stage = "tokenizing", Left > 0, NEW kind \in Kinds, NEW k \in 1 .. Left,
         Token(kind, k), \A j \in pos .. pos + k - 1 : Plain(text[j])
  PROVE  TokenInv'
<1>1. text \in Seq(ToSet(text)) /\ pos \in Nat /\ Len(text) \in Nat
  BY DEF TokenInv
<1>2. Char # "\n"
  <2>1. pos \in pos .. pos + k - 1
    BY <1>1 DEF Left
  <2> QED BY <2>1, CharsDiffer DEF Plain, Char
<1>3. /\ ReadAt(text, pos - 1).mode = "code" /\ pos - 1 \in 0 .. Len(text)
      /\ k \in 0 .. Len(text) - (pos - 1)
  BY <1>1, <1>2, CodeAtToken DEF Left
<1>4. \A j \in 1 .. k : text[pos - 1 + j] \notin Spaces \cup {"#", Quote}
  <2>1. \A j \in 1 .. k : pos - 1 + j \in pos .. pos + k - 1
    BY <1>1, <1>3
  <2> QED BY <2>1 DEF Plain
<1>5. InToken(text, pos - 1, k, "code")
  BY <1>1, <1>3, <1>4, PlainRead
<1> QED BY <1>5, TokenKeeps

-----------------------------------------------------------------------------
(***************************************************************************)
(* The turns of the loop.                                                  *)
(***************************************************************************)
LEMMA SpaceKeeps ==
  ASSUME TokenInv, stage = "tokenizing", Left > 0, Space
  PROVE  TokenInv'
<1> DEFINE T == ToSet(text)
           r == ReadAt(text, pos - 1)
<1>1. /\ text \in Seq(T) /\ pos \in 1 .. Len(text) /\ lineno \in Nat /\ toks \in Seq(Tokens(T))
      /\ r.line = lineno /\ r.out = TokenText(toks) /\ Len(text) \in Nat
      /\ r.mode = "code" \/ (r.mode = "comment" /\ Char = "\n")
  BY DEF TokenInv, BetweenTurns, Left, Char
<1>2. /\ Char \in Spaces /\ Char # "#" /\ pos' = pos + 1
      /\ lineno' = (IF Char = "\n" THEN lineno + 1 ELSE lineno)
      /\ text' = text /\ toks' = toks /\ stage' = stage
  BY CharsDiffer DEF Space
<1>3. r \in Readings(T) /\ ReadAt(text, pos) = ReadChar(r, Char)
  BY <1>1, ReadMore DEF Char
<1>4. r = [mode |-> r.mode, line |-> lineno, out |-> TokenText(toks)]
  BY <1>1, <1>3 DEF Readings
<1> HIDE DEF r
<1>5. ReadChar(r, Char) = [mode |-> "code", line |-> lineno', out |-> TokenText(toks)]
  <2>1. CASE r.mode = "code"
    BY <1>2, <1>4, <2>1 DEF ReadChar
  <2>2. CASE r.mode = "comment" /\ Char = "\n"
    <3> DEFINE o == TokenText(toks)
    <3>1. r = [mode |-> "comment", line |-> lineno, out |-> o]
      BY <1>4, <2>2
    <3> HIDE DEF o
    <3>2. ReadChar([mode |-> "comment", line |-> lineno, out |-> o], "\n")
            = [mode |-> "code", line |-> lineno + 1, out |-> o]
      BY <1>1 DEF ReadChar
    <3> QED BY <1>2, <2>2, <3>1, <3>2 DEF o
  <2> QED BY <1>1, <2>1, <2>2
<1>6. pos' - 1 = pos /\ pos' \in 1 .. Len(text) + 1 /\ lineno' \in Nat
  BY <1>1, <1>2
<1>7. ReadAt(text', pos' - 1) = [mode |-> "code", line |-> lineno', out |-> TokenText(toks')]
  BY <1>2, <1>3, <1>5, <1>6
<1> HIDE DEF T
<1> QED BY <1>1, <1>2, <1>6, <1>7 DEF TokenInv, BetweenTurns, T

LEMMA CommentKeeps ==
  ASSUME TokenInv, stage = "tokenizing", Left > 0, Comment
  PROVE  TokenInv'
<1> DEFINE T == ToSet(text)
           q == pos - 1
           r == ReadAt(text, q)
           S == {text[i] : i \in DOMAIN text} \ {"\n"}
           w == Width(pos, S)
<1>1. /\ text \in Seq(T) /\ pos \in 1 .. Len(text) /\ lineno \in Nat /\ toks \in Seq(Tokens(T))
      /\ r.line = lineno /\ r.out = TokenText(toks) /\ Len(text) \in Nat
  BY DEF TokenInv, BetweenTurns, Left
<1>2. /\ text[pos] = "#" /\ pos' = pos + w
      /\ text' = text /\ lineno' = lineno /\ toks' = toks /\ stage' = stage
  BY DEF Comment, Char
<1>3. /\ r.mode = "code" /\ q \in 0 .. Len(text) /\ q + 1 = pos
  BY <1>1, <1>2, CharsDiffer, CodeAtToken DEF Char
<1>4. /\ w \in 0 .. Len(text) + 1 - pos
      /\ \A j \in pos .. pos + w - 1 : text[j] \in S
      /\ pos + w <= Len(text) => text[pos + w] \notin S
  BY <1>1, WidthIs
<1>5. \A i \in 1 .. Len(text) : text[i] \in S <=> text[i] # "\n"
  BY <1>1
<1> HIDE DEF S, w, T
<1>6. w # 0
  <2>1. w = 0 => pos + w = pos
    BY <1>1
  <2>2. text[pos] # "\n"
    BY <1>2, CharsDiffer
  <2> QED BY <1>1, <1>4, <1>5, <2>1, <2>2
<1>7. \A j \in 1 .. w : text[q + j] # "\n"
  <2>1. \A j \in 1 .. w : q + j \in pos .. pos + w - 1 /\ q + j \in 1 .. Len(text)
    BY <1>1, <1>4
  <2> QED BY <1>4, <1>5, <2>1
<1>8. w \in 1 .. Len(text) - q
  BY <1>1, <1>4, <1>6
<1> HIDE DEF q
<1>9. ReadAt(text, q + w) = [mode |-> "comment", line |-> lineno, out |-> TokenText(toks)]
  BY <1>1, <1>2, <1>3, <1>7, <1>8, CommentRead
<1>10. /\ pos + w \in 1 .. Len(text) + 1 /\ pos + w - 1 = q + w
       /\ pos + w <= Len(text) => text[pos + w] = "\n"
  <2>1. pos + w \in 1 .. Len(text) + 1 /\ pos + w - 1 = q + w
    BY <1>1, <1>4 DEF q
  <2> QED BY <1>4, <1>5, <2>1
<1> HIDE DEF r
<1>11. ReadAt(text', pos' - 1) = [mode |-> "comment", line |-> lineno', out |-> TokenText(toks')]
  <2>1. pos' - 1 = q + w
    BY <1>1, <1>2, <1>4, <1>10
  <2> QED BY <1>2, <1>9, <2>1
<1> QED BY <1>1, <1>2, <1>10, <1>11 DEF TokenInv, BetweenTurns, T

LEMMA OperatorKeeps ==
  ASSUME TokenInv, stage = "tokenizing", Left > 0, Operator
  PROVE  TokenInv'
<1>1. pos \in 1 .. Len(text) /\ Len(text) \in Nat
  BY DEF TokenInv, Left
<1>2. CASE Is2(pos, Operators2) /\ Token("op", 2)
  <2>1. pos < Len(text) /\ << text[pos], text[pos + 1] >> \in Operators2
    BY <1>2 DEF Is2
  <2>2. Plain(text[pos]) /\ Plain(text[pos + 1])
    BY <2>1, PlainChars
  <2>3. 2 \in 1 .. Left /\ \A j \in pos .. pos + 2 - 1 : j = pos \/ j = pos + 1
    BY <1>1, <2>1 DEF Left
  <2>4. \A j \in pos .. pos + 2 - 1 : Plain(text[j])
    BY <2>2, <2>3
  <2>5. "op" \in Kinds
    BY DEF Kinds
  <2> QED BY <1>2, <2>3, <2>4, <2>5, PlainTokenKeeps
<1>3. CASE Char \in Operators1 /\ Token("op", 1)
  <2>1. Plain(text[pos])
    BY <1>3, PlainChars DEF Char
  <2>2. 1 \in 1 .. Left /\ \A j \in pos .. pos + 1 - 1 : j = pos
    BY <1>1 DEF Left
  <2>3. \A j \in pos .. pos + 1 - 1 : Plain(text[j])
    BY <2>1, <2>2
  <2>4. "op" \in Kinds
    BY DEF Kinds
  <2> QED BY <1>3, <2>2, <2>3, <2>4, PlainTokenKeeps
<1> QED BY <1>2, <1>3 DEF Operator

LEMMA VarKeeps ==
  ASSUME TokenInv, stage = "tokenizing", Left > 0, Var
  PROVE  TokenInv'
<1>1. pos \in 1 .. Len(text) /\ Len(text) \in Nat /\ text \in Seq(ToSet(text))
  BY DEF TokenInv, Left
<1>2. Left >= 4 /\ SubSeq(text, pos, pos + 2) = << "v", "a", "r" >> /\ Token("keyword", 3)
  BY DEF Var, IsVar
<1> DEFINE v == SubSeq(text, pos, pos + 2)
<1>3. pos + 2 <= Len(text)
  BY <1>1, <1>2 DEF Left
<1>4. v[1] = text[pos] /\ v[2] = text[pos + 1] /\ v[3] = text[pos + 2]
  BY <1>1, <1>3
<1>5. v[1] = "v" /\ v[2] = "a" /\ v[3] = "r"
  <2>1. v = << "v", "a", "r" >>
    BY <1>2
  <2> HIDE DEF v
  <2> QED BY <2>1
<1> HIDE DEF v
<1>6. Plain(text[pos]) /\ Plain(text[pos + 1]) /\ Plain(text[pos + 2])
  BY <1>4, <1>5, PlainChars
<1>7. 3 \in 1 .. Left /\ \A j \in pos .. pos + 3 - 1 : j = pos \/ j = pos + 1 \/ j = pos + 2
  BY <1>1, <1>3 DEF Left
<1>8. \A j \in pos .. pos + 3 - 1 : Plain(text[j])
  BY <1>6, <1>7
<1>9. "keyword" \in Kinds
  BY DEF Kinds
<1> QED BY <1>2, <1>7, <1>8, <1>9, PlainTokenKeeps

\* A token as wide as there are characters of a set.
LEMMA WideTokenKeeps ==
  ASSUME TokenInv, stage = "tokenizing", Left > 0, NEW kind \in Kinds, NEW S,
         \A c \in S : Plain(c), Char \in S, Token(kind, Width(pos, S))
  PROVE  TokenInv'
<1> DEFINE w == Width(pos, S)
<1>1. pos \in 1 .. Len(text) /\ Len(text) \in Nat /\ text \in Seq(ToSet(text))
  BY DEF TokenInv, Left
<1>2. /\ w \in 0 .. Len(text) + 1 - pos
      /\ \A j \in pos .. pos + w - 1 : text[j] \in S
      /\ pos + w <= Len(text) => text[pos + w] \notin S
  BY <1>1, WidthIs
<1>3. Token(kind, w)
  OBVIOUS
<1> HIDE DEF w
<1>4. w # 0
  <2>1. w = 0 => pos + w = pos /\ pos + w <= Len(text)
    BY <1>1
  <2> QED BY <1>2, <2>1 DEF Char
<1>5. w \in 1 .. Left
  BY <1>1, <1>2, <1>4 DEF Left
<1>6. \A j \in pos .. pos + w - 1 : Plain(text[j])
  BY <1>2
<1> QED BY <1>3, <1>5, <1>6, PlainTokenKeeps

LEMMA FailedKeeps ==
  ASSUME TokenInv, stage = "tokenizing", TokenError
  PROVE  TokenInv'
<1>1. /\ toks' = << >> /\ stage' = "parsing" /\ stage' # "tokenizing"
      /\ text' = text /\ pos' = pos /\ lineno' = lineno
  BY DEF TokenError
<1>2. << >> \in Seq(Tokens(ToSet(text)))
  OBVIOUS
<1> QED BY <1>1, <1>2 DEF TokenInv

LEMMA StrKeeps ==
  ASSUME TokenInv, stage = "tokenizing", Left > 0, StrLiteral
  PROVE  TokenInv'
<1> DEFINE q == pos - 1
           e == StringEnd[pos + 1]
<1>1. /\ pos \in 1 .. Len(text) /\ Len(text) \in Nat /\ text \in Seq(ToSet(text))
      /\ text[pos] = Quote
  BY DEF TokenInv, Left, StrLiteral, Char
<1>2. CASE e = 0
  BY <1>2, FailedKeeps DEF StrLiteral
<1>3. CASE e # 0
  <2>1. /\ ReadAt(text, q).mode = "code" /\ q \in 0 .. Len(text) - 1
        /\ q + 1 = pos /\ q + 2 = pos + 1
    BY <1>1, CharsDiffer, CodeAtToken DEF Char
  <2>2. Token("str", e - pos + 1)
    BY <1>3 DEF StrLiteral
  <2>3. StringEnd[q + 2] = e
    BY <2>1
  <2> HIDE DEF q, e
  <2>4. e \in q + 2 .. Len(text) /\ InToken(text, q, e - q, "code")
    BY <1>1, <1>3, <2>1, <2>3, StringRead
  <2>5. e - pos + 1 = e - q /\ e - q \in 1 .. Left
    BY <1>1, <2>1, <2>4 DEF q, Left
  <2>6. "str" \in Kinds
    BY DEF Kinds
  <2> QED BY <2>2, <2>4, <2>5, <2>6, TokenKeeps DEF q
<1> QED BY <1>2, <1>3

LEMMA TokenInvStep == TokenInv /\ [Tokenize \/ Later]_tokenVars => TokenInv'
<1> SUFFICES ASSUME TokenInv, [Tokenize \/ Later]_tokenVars
             PROVE  TokenInv'
  OBVIOUS
<1>1. CASE Tokenize
  <2>1. stage = "tokenizing"
    BY <1>1 DEF Tokenize
  <2>2. CASE EndOfText
    <3>1. /\ stage' # "tokenizing" /\ text' = text /\ pos' = pos
          /\ lineno' = lineno /\ toks' = toks
      BY <2>2 DEF EndOfText
    <3> QED BY <3>1 DEF TokenInv
  <2>3. ASSUME Left > 0 PROVE Space => TokenInv'
    BY <2>1, <2>3, SpaceKeeps
  <2>4. ASSUME Left > 0 PROVE Comment => TokenInv'
    BY <2>1, <2>4, CommentKeeps
  <2>5. ASSUME Left > 0 PROVE Operator => TokenInv'
    BY <2>1, <2>5, OperatorKeeps
  <2>6. ASSUME Left > 0 PROVE Var => TokenInv'
    BY <2>1, <2>6, VarKeeps
  <2>7. ASSUME Left > 0 PROVE StrLiteral => TokenInv'
    BY <2>1, <2>7, StrKeeps
  <2>8. ASSUME Left > 0, IntLiteral PROVE TokenInv'
    <3>1. CASE TokenError
      BY <2>1, <3>1, FailedKeeps
    <3>2. CASE Token("int", Width(pos, Numerals))
      <4>1. "int" \in Kinds /\ Char \in Numerals /\ \A c \in Numerals : Plain(c)
        BY <2>8, PlainChars DEF Kinds, IntLiteral
      <4> QED BY <2>1, <2>8, <3>2, <4>1, WideTokenKeeps
    <3> QED BY <2>8, <3>1, <3>2 DEF IntLiteral
  <2>9. ASSUME Left > 0, Identifier PROVE TokenInv'
    <3>1. /\ "id" \in Kinds /\ Char \in Letters \cup Numerals
          /\ \A c \in Letters \cup Numerals : Plain(c)
      BY <2>9, PlainChars DEF Kinds, Identifier
    <3>2. Token("id", Width(pos, Letters \cup Numerals))
      BY <2>9 DEF Identifier
    <3> QED BY <2>1, <2>9, <3>1, <3>2, WideTokenKeeps
  <2>10. ASSUME Unknown PROVE TokenInv'
    BY <2>1, <2>10, FailedKeeps DEF Unknown
  <2> QED BY <1>1, <2>2, <2>3, <2>4, <2>5, <2>6, <2>7, <2>8, <2>9, <2>10 DEF Tokenize
<1>2. CASE Later
  <2>1. /\ stage' # "tokenizing" /\ text' = text /\ pos' = pos
        /\ lineno' = lineno /\ toks' = toks
    BY <1>2 DEF Later
  <2> QED BY <2>1 DEF TokenInv
<1>3. CASE UNCHANGED tokenVars
  <2>1. /\ stage' = stage /\ text' = text /\ pos' = pos
        /\ lineno' = lineno /\ toks' = toks
    BY <1>3 DEF tokenVars
  <2> QED BY <2>1 DEF TokenInv, BetweenTurns
<1> QED BY <1>1, <1>2, <1>3

LEMMA TokenInvInit == ASSUME text \in Seq(ToSet(text)), StartTokenizing PROVE TokenInv
<1>1. pos = 1 /\ lineno = 1 /\ toks = << >> /\ stage = "tokenizing"
  BY DEF StartTokenizing
<1>2. ReadAt(text, pos - 1) = [mode |-> "code", line |-> 1, out |-> << >>]
  <2>1. pos - 1 = 0
    BY <1>1
  <2> QED BY <2>1, ReadNone DEF NothingRead
<1>3. TokenText(toks) = << >>
  <2>1. [i \in 1 .. Len(toks) |-> Tagged(toks[i].text, toks[i].lineno)] = << >>
    BY <1>1
  <2> HIDE DEF Tagged
  <2>2. FlattenSeq(<< >>) = << >>
    BY DEF FlattenSeq
  <2> QED BY <2>1, <2>2 DEF TokenText
<1>4. /\ toks \in Seq(Tokens(ToSet(text))) /\ pos \in 1 .. Len(text) + 1 /\ lineno \in Nat
  BY <1>1
<1> QED BY <1>1, <1>2, <1>3, <1>4 DEF TokenInv, BetweenTurns

(***************************************************************************)
(* However long the text and whatever it has: between two turns of the     *)
(* loop the tokens and the line number are those of the text before pos.   *)
(***************************************************************************)
THEOREM TokenInvariance == TokenSpec => []TokenInv
<1> QED BY TokenInvInit, TokenInvStep, PTL DEF TokenSpec

(***************************************************************************)
(* The tokens are the text that was read, without white space and          *)
(* comments, and each has the line it is on.                               *)
(***************************************************************************)
THEOREM TokensAreText == TokenSpec => []TokensAreTheText
<1> QED BY TokenInvariance, InvIsTheText, PTL
=============================================================================
