---------------------------- MODULE ValuesProof ----------------------------
(***************************************************************************)
(* Proofs about Values: files and their lines, the methods of strings,     *)
(* what utf8_decode accepts, and integers and their texts.                 *)
(***************************************************************************)
EXTENDS Values, Induction

-----------------------------------------------------------------------------
(***************************************************************************)
(* Slices and overwriting.                                                 *)
(***************************************************************************)
LEMMA MinMax ==
  ASSUME NEW a \in Int, NEW b \in Int
  PROVE  /\ Max({a, b}) = IF a >= b THEN a ELSE b
         /\ Min({a, b}) = IF a <= b THEN a ELSE b
<1>1. Max({a, b}) \in {a, b} /\ Max({a, b}) >= a /\ Max({a, b}) >= b
  <2>1. \E x \in {a, b} : \A y \in {a, b} : x >= y
    OBVIOUS
  <2> QED BY <2>1 DEF Max
<1>2. Min({a, b}) \in {a, b} /\ Min({a, b}) <= a /\ Min({a, b}) <= b
  <2>1. \E x \in {a, b} : \A y \in {a, b} : x <= y
    OBVIOUS
  <2> QED BY <2>1 DEF Min
<1> QED BY <1>1, <1>2

LEMMA CutIs ==
  ASSUME NEW T, NEW s \in Seq(T), NEW from \in 0 .. Len(s), NEW to \in Nat, from <= to
  PROVE  LET m == IF to < Len(s) THEN to ELSE Len(s)
         IN  /\ Cut(s, from, to) \in Seq(T) /\ Len(Cut(s, from, to)) = m - from
             /\ \A i \in 1 .. m - from : Cut(s, from, to)[i] = s[from + i]
BY DEF Cut

LEMMA PatchedIs ==
  ASSUME NEW s \in Seq(Byte), content = s, NEW p \in 0 .. Len(s), pos = p, NEW bytes \in Seq(Byte)
  PROVE  /\ Patched(bytes) = External!Overwritten(bytes, p)
         /\ Patched(bytes) \in Seq(Byte)
         /\ Len(Patched(bytes)) = IF Len(s) >= p + Len(bytes) THEN Len(s) ELSE p + Len(bytes)
<1> DEFINE n == Len(s)
           k == Len(bytes)
           N == IF n >= p + k THEN n ELSE p + k
           a == Cut(s, 0, p)
           c == Cut(s, p + k, n)
<1>1. n \in Nat /\ k \in Nat /\ p <= n
  OBVIOUS
<1>2. a \in Seq(Byte) /\ Len(a) = p /\ \A i \in 1 .. p : a[i] = s[i]
  BY <1>1 DEF Cut
<1>3. /\ c \in Seq(Byte) /\ Len(c) = N - (p + k)
      /\ \A i \in 1 .. N - (p + k) : c[i] = s[p + k + i]
  BY <1>1 DEF Cut
<1>4. Patched(bytes) = a \o bytes \o c
  BY DEF Patched
<1>5. External!Overwritten(bytes, p) =
        [i \in 1 .. N |-> IF i \in p + 1 .. p + k THEN bytes[i - p] ELSE s[i]]
  <2>1. External!Max({n, p + k}) = N
    <3>1. External!Max({n, p + k}) = Max({n, p + k})
      BY DEF External!Max, Max
    <3> QED BY <1>1, <3>1, MinMax
  <2> QED BY <2>1 DEF External!Overwritten
<1>6. bytes \in Seq(Byte) /\ k = Len(bytes)
  OBVIOUS
<1> HIDE DEF n, k, a, c
<1>7. /\ a \o bytes \o c \in Seq(Byte) /\ Len(a \o bytes \o c) = N
      /\ \A i \in 1 .. N :
           (a \o bytes \o c)[i] = IF i \in p + 1 .. p + k THEN bytes[i - p] ELSE s[i]
  <2>1. /\ a \o bytes \in Seq(Byte) /\ Len(a \o bytes) = p + k
        /\ \A i \in 1 .. p + k : (a \o bytes)[i] = IF i <= p THEN a[i] ELSE bytes[i - p]
    BY <1>2, <1>6, <1>1
  <2> DEFINE ab == a \o bytes
  <2> HIDE DEF ab
  <2>2. p + k <= N /\ N \in Nat
    BY <1>1
  <2> HIDE DEF N
  <2>3. /\ ab \o c \in Seq(Byte) /\ Len(ab \o c) = N
        /\ \A i \in 1 .. N : (ab \o c)[i] = IF i <= p + k THEN ab[i] ELSE c[i - (p + k)]
    <3>1. ab \in Seq(Byte) /\ Len(ab) = p + k
      BY <2>1 DEF ab
    <3>2. p + k + (N - (p + k)) = N
      BY <1>1, <2>2
    <3>3. ab \o c \in Seq(Byte) /\ Len(ab \o c) = Len(ab) + Len(c)
      BY <1>3, <3>1, ConcatProperties, Zenon
    <3>4. \A i \in 1 .. Len(ab) + Len(c) :
            (ab \o c)[i] = IF i <= Len(ab) THEN ab[i] ELSE c[i - Len(ab)]
      BY <1>3, <3>1, ConcatProperties, Zenon
    <3>5. Len(c) = N - (p + k)
      BY <1>3
    <3>6. Len(ab) + Len(c) = N
      BY <3>1, <3>2, <3>5
    <3> QED BY <3>1, <3>3, <3>4, <3>6
  <2>4. ASSUME NEW i \in 1 .. N
        PROVE  (ab \o c)[i] = IF i \in p + 1 .. p + k THEN bytes[i - p] ELSE s[i]
    <3>1. CASE i <= p + k
      BY <1>1, <1>2, <2>1, <2>2, <2>3, <3>1 DEF ab
    <3>2. CASE i > p + k
      <4>1. i - (p + k) \in 1 .. N - (p + k) /\ p + k + (i - (p + k)) = i
        BY <1>1, <2>2, <3>2
      <4>2. c[i - (p + k)] = s[i]
        BY <1>3, <4>1
      <4> QED BY <1>1, <2>2, <2>3, <3>2, <4>2
    <3> QED BY <1>1, <2>2, <3>1, <3>2, i <= p + k \/ i > p + k
  <2> QED BY <2>3, <2>4 DEF ab
<1> DEFINE abc == a \o bytes \o c
<1> HIDE DEF abc, N
<1>8. abc = [i \in 1 .. N |-> IF i \in p + 1 .. p + k THEN bytes[i - p] ELSE s[i]]
  <2>1. /\ abc \in Seq(Byte) /\ Len(abc) = N
        /\ \A i \in 1 .. N : abc[i] = IF i \in p + 1 .. p + k THEN bytes[i - p] ELSE s[i]
    BY <1>7 DEF abc
  <2>2. abc = [i \in 1 .. N |-> abc[i]]
    BY <2>1
  <2> QED BY <2>1, <2>2
<1> QED BY <1>4, <1>5, <1>7, <1>8 DEF n, k, N, abc

-----------------------------------------------------------------------------
(***************************************************************************)
(* Files.                                                                  *)
(***************************************************************************)
FileTypeOK ==
  /\ content \in Seq(Byte) /\ Len(content) <= MaxLength /\ pos \in 0 .. Len(content)
  /\ closed \in BOOLEAN /\ depth \in Nat

Texts(found) == [i \in DOMAIN found |-> found[i].text \o found[i].end]
LineRecords == [text : Seq(Byte), end : Seq(Byte)]
LinesInv ==
  /\ buffer \in Seq(Byte) /\ seen \in Seq(Byte) /\ lines \in Seq(LineRecords)
  /\ exhausted \in BOOLEAN /\ nexting \in BOOLEAN
  /\ nexting => ~exhausted
  /\ LinesComplete

FileInv == FileTypeOK /\ LinesInv

\* What a step does to the file itself.
FileEffect == (~closed /\ External!Next) \/ UNCHANGED theFile

LEMMA ContentsAre ==
  /\ \A s \in Contents : s \in Seq(Byte) /\ Len(s) <= MaxLength
  /\ \A s \in Contents : \E n \in 0 .. MaxLength : s \in [1 .. n -> Byte]
  /\ Contents = UNION {[1 .. n -> Byte] : n \in 0 .. MaxLength}
<1>1. MaxLength \in Nat
  BY FileAssumption
<1>2. ASSUME NEW s \in Contents
      PROVE  /\ s \in Seq(Byte) /\ Len(s) <= MaxLength
             /\ \E n \in 0 .. MaxLength : s \in [1 .. n -> Byte]
  <2>1. PICK n \in 0 .. MaxLength : s \in [1 .. n -> Byte]
    BY DEF Contents
  <2>2. s \in Seq(Byte) /\ Len(s) = n
    BY <1>1, <2>1
  <2> QED BY <1>1, <2>1, <2>2
<1> QED BY <1>2 DEF Contents

LEMMA MethodIs ==
  ASSUME NEW refused, NEW Effect, Method(refused, Effect)
  PROVE  UNCHANGED theFile \/ (~closed /\ Effect)
BY DEF Method, Throw, Misuse, theFile

LEMMA AdvanceIs ==
  ASSUME FileTypeOK, NEW n \in Nat, Advance(n)
  PROVE  /\ content' = content /\ closed' = closed /\ pos' \in 0 .. Len(content)
         /\ Chunk(n) \in Seq(Byte)
         /\ ~closed => External!Next
<1> DEFINE k == Len(Chunk(n))
<1>1. Chunk(n) \in Seq(Byte) /\ k = (IF pos + n < Len(content) THEN n ELSE Len(content) - pos)
  BY CutIs DEF Chunk, FileTypeOK
<1>2. /\ pos \in Nat /\ Len(content) \in Nat /\ pos <= Len(content) /\ Len(content) <= MaxLength
      /\ MaxLength \in Nat
  BY FileAssumption DEF FileTypeOK
<1>3. pos' = pos + k /\ content' = content /\ closed' = closed
  BY DEF Advance
<1> HIDE DEF k
<1>4. k \in 0 .. MaxLength /\ pos + k \in 0 .. Len(content)
  BY <1>1, <1>2
<1>5. External!Min({pos + k, Len(content)}) = pos + k
  <2>1. External!Min({pos + k, Len(content)}) = Min({pos + k, Len(content)})
    BY DEF External!Min, Min
  <2>2. pos + k \in Int /\ Len(content) \in Int /\ pos + k <= Len(content)
    BY <1>2, <1>4
  <2>3. Min({pos + k, Len(content)}) = pos + k
    BY <2>2, MinMax
  <2> QED BY <2>1, <2>3
<1>6. External!Read(k)
  BY <1>3, <1>5 DEF External!Read
<1> QED BY <1>1, <1>3, <1>4, <1>6 DEF External!Next

LEMMA WriteIs ==
  ASSUME FileTypeOK, NEW bytes \in Contents, pos + Len(bytes) <= MaxLength, WriteBytes(bytes),
         depth' = depth
  PROVE  FileTypeOK' /\ (~closed => External!Next)
<1>1. bytes \in Seq(Byte) /\ Len(bytes) \in Nat
  BY ContentsAre
<1>2. /\ Patched(bytes) = External!Overwritten(bytes, pos) /\ Patched(bytes) \in Seq(Byte)
      /\ Len(Patched(bytes)) =
           IF Len(content) >= pos + Len(bytes) THEN Len(content) ELSE pos + Len(bytes)
  BY <1>1, PatchedIs DEF FileTypeOK
<1>3. content' = Patched(bytes) /\ pos' = pos + Len(bytes) /\ closed' = closed
  BY <1>2 DEF WriteBytes
<1>4. External!Write(bytes)
  BY <1>2, <1>3 DEF External!Write
<1>5. ~closed => External!Next
  BY <1>4, ContentsAre DEF External!Next
<1>6. FileTypeOK'
  BY <1>1, <1>2, <1>3 DEF FileTypeOK
<1> QED BY <1>5, <1>6

\* The operations of the program: the iterator has no part in them.
Operates ==
  \/ \E n \in 0 .. MaxLength : ReadChunk(n)
  \/ \E bytes \in Contents : Write(bytes)
  \/ \E p \in 0 .. MaxLength : SetPos(p)
  \/ GetPos \/ Flush \/ Close
  \/ As \/ EndOfBlock \/ Fail \/ Catch

\* The error on its way stays, unless close throws one.
ErrorGoesOn == error' = error \/ (closed /\ error' = "close")

LEMMA EndOfBlockIs ==
  ASSUME FileTypeOK, EndOfBlock
  PROVE  /\ FileTypeOK' /\ FileEffect
         /\ depth' < depth => closed' /\ ErrorGoesOn
<1>1. depth \in Nat /\ depth > 0 /\ AsEndsClosing
  BY DEF EndOfBlock, AsEnds, FileTypeOK
<1>2. CASE ClosedFlag /\ error' = "close" /\ depth' = depth - 1 /\ UNCHANGED << theFile, misused >>
  BY <1>1, <1>2 DEF FileTypeOK, FileEffect, theFile, ClosedFlag, ErrorGoesOn
<1>3. CASE closed /\ Misuse /\ UNCHANGED depth
  BY <1>1, <1>3 DEF FileTypeOK, FileEffect, theFile, Misuse
<1>4. CASE ~closed /\ CloseIt /\ depth' = depth - 1 /\ UNCHANGED << misused, error >>
  <2>1. External!Close
    BY <1>4 DEF CloseIt, External!Close
  <2> QED BY <1>1, <1>4, <2>1 DEF FileTypeOK, FileEffect, CloseIt, External!Next, ErrorGoesOn
<1> QED BY <1>1, <1>2, <1>3, <1>4 DEF AsEndsClosing

LEMMA SameFile ==
  ASSUME FileTypeOK, UNCHANGED theFile, depth' \in Nat, depth' >= depth
  PROVE  /\ FileTypeOK' /\ FileEffect
         /\ depth' < depth => closed' /\ ErrorGoesOn
BY DEF FileTypeOK, FileEffect, theFile

LEMMA OperatesIs ==
  ASSUME FileTypeOK, Operates
  PROVE  /\ FileTypeOK' /\ FileEffect /\ UNCHANGED iterator
         /\ depth' < depth => closed' /\ ErrorGoesOn
<1>0. depth \in Nat /\ MaxLength \in Nat
  BY FileAssumption DEF FileTypeOK
<1> DEFINE Good == /\ FileTypeOK' /\ FileEffect
                   /\ depth' < depth => closed' /\ ErrorGoesOn
<1>1. ASSUME UNCHANGED << theFile, depth >> PROVE Good
  BY <1>0, <1>1, SameFile
<1>2. ASSUME NEW n \in 0 .. MaxLength, ReadChunk(n)
      PROVE  UNCHANGED iterator /\ Good
  <2>1. UNCHANGED << depth, iterator >> /\ (UNCHANGED theFile \/ (~closed /\ Advance(n)))
    BY <1>2, MethodIs DEF ReadChunk
  <2>2. CASE ~closed /\ Advance(n)
    <3>1. /\ content' = content /\ closed' = closed /\ pos' \in 0 .. Len(content) /\ External!Next
      BY <1>0, <2>2, AdvanceIs
    <3> QED BY <1>0, <2>1, <2>2, <3>1 DEF FileTypeOK, FileEffect
  <2> QED BY <1>1, <2>1, <2>2
<1>3. ASSUME NEW bytes \in Contents, Write(bytes)
      PROVE  UNCHANGED iterator /\ Good
  <2>1. /\ UNCHANGED << depth, iterator >> /\ pos + Len(bytes) <= MaxLength
        /\ UNCHANGED theFile \/ (~closed /\ WriteBytes(bytes))
    BY <1>3, MethodIs DEF Write, Throw
  <2>2. CASE ~closed /\ WriteBytes(bytes)
    BY <1>0, <2>1, <2>2, WriteIs DEF FileEffect
  <2> QED BY <1>1, <2>1, <2>2
<1>4. ASSUME NEW p \in 0 .. MaxLength, SetPos(p)
      PROVE  UNCHANGED iterator /\ Good
  <2>1. /\ UNCHANGED << depth, iterator >> /\ p <= Len(content)
        /\ \/ UNCHANGED theFile
           \/ ~closed /\ pos' = p /\ UNCHANGED << content, closed >>
    BY <1>4, MethodIs DEF SetPos
  <2>2. CASE ~closed /\ pos' = p /\ UNCHANGED << content, closed >>
    <3>1. p \in 0 .. Len(content)
      BY <2>1 DEF FileTypeOK
    <3>2. External!Next
      BY <2>2, <3>1 DEF External!Seek, External!Next
    <3> QED BY <1>0, <2>1, <2>2, <3>1, <3>2 DEF FileTypeOK, FileEffect
  <2> QED BY <1>1, <2>1, <2>2
<1>5. CASE GetPos \/ Flush
  <2>1. UNCHANGED << theFile, depth, iterator >>
    BY <1>5, MethodIs DEF GetPos, Flush
  <2> QED BY <1>1, <2>1
<1>6. CASE Close
  <2>1. UNCHANGED << depth, iterator >> /\ (UNCHANGED theFile \/ (~closed /\ CloseIt))
    BY <1>6 DEF Close, Method, Throw, Misuse
  <2>2. CASE ~closed /\ CloseIt
    <3>1. External!Next
      BY <2>2 DEF CloseIt, External!Close, External!Next
    <3> QED BY <1>0, <2>1, <2>2, <3>1 DEF FileTypeOK, FileEffect, CloseIt
  <2> QED BY <1>1, <2>1, <2>2
<1>7. CASE As
  BY <1>0, <1>7, SameFile DEF As
<1>8. CASE EndOfBlock
  BY <1>8, EndOfBlockIs DEF EndOfBlock
<1>9. CASE Fail \/ Catch
  <2>1. UNCHANGED << theFile, depth, iterator >>
    BY <1>9 DEF Fail, Catch
  <2> QED BY <1>1, <2>1
<1> QED BY <1>2, <1>3, <1>4, <1>5, <1>6, <1>7, <1>8, <1>9 DEF Operates

-----------------------------------------------------------------------------
(***************************************************************************)
(* The lines of a file.                                                    *)
(***************************************************************************)
LEMMA TextsAre ==
  ASSUME NEW found \in Seq(LineRecords)
  PROVE  /\ Texts(found) \in Seq(Seq(Byte)) /\ FlattenSeq(Texts(found)) \in Seq(Byte)
         /\ \A l \in LineRecords :
              FlattenSeq(Texts(Append(found, l))) = FlattenSeq(Texts(found)) \o (l.text \o l.end)
<1>1. ASSUME NEW f \in Seq(LineRecords)
      PROVE  /\ Texts(f) \in Seq(Seq(Byte)) /\ Len(Texts(f)) = Len(f)
             /\ \A i \in 1 .. Len(f) : Texts(f)[i] = f[i].text \o f[i].end
  <2>1. DOMAIN f = 1 .. Len(f) /\ Len(f) \in Nat
    OBVIOUS
  <2>2. \A i \in 1 .. Len(f) : f[i] \in LineRecords
    OBVIOUS
  <2>3. \A i \in 1 .. Len(f) : f[i].text \o f[i].end \in Seq(Byte)
    <3> SUFFICES ASSUME NEW i \in 1 .. Len(f) PROVE f[i].text \o f[i].end \in Seq(Byte)
      OBVIOUS
    <3>1. f[i].text \in Seq(Byte) /\ f[i].end \in Seq(Byte)
      BY <2>2 DEF LineRecords
    <3> QED BY <3>1, ConcatProperties
  <2> DEFINE g(i) == f[i].text \o f[i].end
             n == Len(f)
  <2>4. Texts(f) = [i \in 1 .. n |-> g(i)]
    BY <2>1 DEF Texts
  <2>5. n \in Nat /\ \A i \in 1 .. n : g(i) \in Seq(Byte)
    BY <2>1, <2>3
  <2> HIDE DEF g, n
  <2>6. [i \in 1 .. n |-> g(i)] \in Seq(Seq(Byte)) /\ Len([i \in 1 .. n |-> g(i)]) = n
    BY <2>5
  <2> QED BY <2>4, <2>6 DEF g, n
<1>2. ASSUME NEW l \in LineRecords
      PROVE  Texts(Append(found, l)) = Append(Texts(found), l.text \o l.end)
  <2> DEFINE more == Append(found, l)
             t == l.text \o l.end
  <2>1. /\ more \in Seq(LineRecords) /\ Len(more) = Len(found) + 1 /\ Len(found) \in Nat
        /\ more[Len(found) + 1] = l /\ \A i \in 1 .. Len(found) : more[i] = found[i]
    OBVIOUS
  <2>2. t \in Seq(Byte)
    BY ConcatProperties DEF LineRecords
  <2>3. /\ Texts(more) \in Seq(Seq(Byte)) /\ Len(Texts(more)) = Len(found) + 1
        /\ \A i \in 1 .. Len(found) + 1 : Texts(more)[i] = more[i].text \o more[i].end
    BY <1>1, <2>1
  <2>4. /\ Texts(found) \in Seq(Seq(Byte)) /\ Len(Texts(found)) = Len(found)
        /\ \A i \in 1 .. Len(found) : Texts(found)[i] = found[i].text \o found[i].end
    BY <1>1
  <2> HIDE DEF more, t
  <2>5. /\ Append(Texts(found), t) \in Seq(Seq(Byte))
        /\ Len(Append(Texts(found), t)) = Len(found) + 1
        /\ Append(Texts(found), t)[Len(found) + 1] = t
        /\ \A i \in 1 .. Len(found) : Append(Texts(found), t)[i] = Texts(found)[i]
    BY <2>1, <2>2, <2>4
  <2>6. \A i \in 1 .. Len(found) + 1 : Texts(more)[i] = Append(Texts(found), t)[i]
    <3> SUFFICES ASSUME NEW i \in 1 .. Len(found) + 1
                 PROVE  Texts(more)[i] = Append(Texts(found), t)[i]
      OBVIOUS
    <3>1. CASE i = Len(found) + 1
      BY <2>1, <2>3, <2>5, <3>1 DEF t
    <3>2. CASE i # Len(found) + 1
      <4>1. i \in 1 .. Len(found)
        BY <2>1, <3>2
      <4> QED BY <2>1, <2>3, <2>4, <2>5, <4>1
    <3> QED BY <3>1, <3>2
  <2>7. Texts(more) = Append(Texts(found), t)
    BY <2>3, <2>5, <2>6, SeqEqual
  <2> QED BY <2>7 DEF more, t
<1>3. ASSUME NEW l \in LineRecords
      PROVE  FlattenSeq(Append(Texts(found), l.text \o l.end)) =
               FlattenSeq(Texts(found)) \o (l.text \o l.end)
  <2>1. l.text \o l.end \in Seq(Byte)
    BY ConcatProperties DEF LineRecords
  <2> QED BY <1>1, <2>1, FlattenAppend
<1>4. FlattenSeq(Texts(found)) \in Seq(Byte)
  BY <1>1, FlattenElements
<1> QED BY <1>1, <1>2, <1>3, <1>4

LEMMA LinesAre ==
  /\ LinesComplete <=> /\ FlattenSeq(Texts(lines)) \o buffer = seen
                       /\ \A i \in DOMAIN lines : ~Contains(lines[i].text, Newline)
                       /\ exhausted => buffer = << >>
  /\ LinesComplete' <=> /\ FlattenSeq(Texts(lines')) \o buffer' = seen'
                        /\ \A i \in DOMAIN lines' : ~Contains(lines'[i].text, Newline)
                        /\ exhausted' => buffer' = << >>
BY DEF LinesComplete, Texts

LEMMA HandOutKeeps ==
  ASSUME LinesInv, nexting, NEW line \in Seq(Byte), NEW end \in Seq(Byte), NEW rest \in Seq(Byte),
         ~Contains(line, Newline), buffer = (line \o end) \o rest, HandOut(line, end, rest)
  PROVE  LinesInv'
<1> DEFINE l == [text |-> line, end |-> end]
           flat == FlattenSeq(Texts(lines))
<1>1. /\ buffer' = rest /\ lines' = Append(lines, l) /\ nexting' = FALSE
      /\ exhausted' = exhausted /\ seen' = seen /\ exhausted = FALSE
  BY DEF HandOut, LinesInv
<1>2. l \in LineRecords /\ l.text = line /\ l.end = end
  BY DEF LineRecords
<1>3. /\ flat \in Seq(Byte) /\ lines \in Seq(LineRecords)
      /\ FlattenSeq(Texts(Append(lines, l))) = flat \o (line \o end)
  BY <1>2, TextsAre DEF LinesInv
<1>4. flat \o ((line \o end) \o rest) = seen
  BY LinesAre DEF LinesInv
<1>5. (flat \o (line \o end)) \o rest = seen
  <2>1. line \o end \in Seq(Byte)
    BY ConcatProperties
  <2>2. flat \in Seq(Byte)
    BY <1>3
  <2> HIDE DEF flat
  <2>3. \A a, b, c \in Seq(Byte) : (a \o b) \o c = a \o (b \o c)
    BY ConcatAssociative
  <2>4. (flat \o (line \o end)) \o rest = flat \o ((line \o end) \o rest)
    BY <2>1, <2>2, <2>3, Zenon
  <2> QED BY <1>4, <2>4
<1> HIDE DEF l
<1>6. /\ lines' \in Seq(LineRecords) /\ DOMAIN lines' = 1 .. Len(lines) + 1
      /\ DOMAIN lines = 1 .. Len(lines) /\ Len(lines) \in Nat
      /\ lines'[Len(lines) + 1] = l /\ \A i \in 1 .. Len(lines) : lines'[i] = lines[i]
  BY <1>1, <1>2, <1>3
<1>7. \A i \in DOMAIN lines' : ~Contains(lines'[i].text, Newline)
  <2> SUFFICES ASSUME NEW i \in 1 .. Len(lines) + 1
               PROVE  ~Contains(lines'[i].text, Newline)
    BY <1>6
  <2>1. CASE i = Len(lines) + 1
    BY <1>2, <1>6, <2>1
  <2>2. CASE i # Len(lines) + 1
    <3>1. i \in 1 .. Len(lines)
      BY <1>6, <2>2
    <3>2. ~Contains(lines[i].text, Newline)
      BY <1>6, <3>1, LinesAre DEF LinesInv
    <3> QED BY <1>6, <3>1, <3>2
  <2> QED BY <2>1, <2>2
<1>8. LinesComplete'
  BY <1>1, <1>3, <1>5, <1>7, LinesAre
<1> QED BY <1>1, <1>6, <1>8 DEF LinesInv

LEMMA FirstNewlineIs ==
  ASSUME buffer \in Seq(Byte)
  PROVE  /\ FirstNewline \in 0 .. Len(buffer)
         /\ FirstNewline = 0 => \A i \in 1 .. Len(buffer) : buffer[i] # Newline
         /\ FirstNewline # 0 => /\ buffer[FirstNewline] = Newline
                                /\ \A i \in 1 .. FirstNewline - 1 : buffer[i] # Newline
<1> DEFINE I == {i \in 1 .. Len(buffer) : buffer[i] = Newline}
<1>1. FirstNewline = IF I # {} THEN Min(I) ELSE 0
  BY DEF FirstNewline, SelectInSeq
<1>2. ASSUME I # {}
      PROVE  Min(I) \in I /\ \A j \in I : Min(I) <= j
  <2>1. I \subseteq Nat
    OBVIOUS
  <2> HIDE DEF I
  <2>2. \E x \in I : \A y \in I : x <= y
    BY <1>2, <2>1, Least
  <2> QED BY <2>2 DEF Min
<1>3. Len(buffer) \in Nat
  OBVIOUS
<1>4. CASE I = {}
  BY <1>1, <1>3, <1>4
<1>5. CASE I # {}
  <2> DEFINE f == Min(I)
  <2>1. f \in 1 .. Len(buffer) /\ buffer[f] = Newline /\ FirstNewline = f
    BY <1>1, <1>2, <1>5
  <2>2. ASSUME NEW i \in 1 .. f - 1
        PROVE  buffer[i] # Newline
    <3>1. i \in 1 .. Len(buffer) /\ ~(f <= i)
      BY <1>3, <2>1
    <3>2. i \notin I
      BY <1>2, <1>5, <3>1
    <3> QED BY <3>1, <3>2
  <2> HIDE DEF f, I
  <2> QED BY <1>3, <2>1, <2>2
<1> QED BY <1>4, <1>5

LEMMA LineFoundKeeps ==
  ASSUME LinesInv, LineFound
  PROVE  LinesInv'
<1> DEFINE f == FirstNewline
           n == Len(buffer)
           line == Cut(buffer, 0, f - 1)
           end == << Newline >>
           rest == After(f - 1)
<1>1. /\ nexting /\ f # 0 /\ HandOut(line, end, rest) /\ buffer \in Seq(Byte)
  BY DEF LineFound, LinesInv
<1>2. /\ f \in 1 .. n /\ n \in Nat /\ buffer[f] = Newline
      /\ \A i \in 1 .. f - 1 : buffer[i] # Newline
  BY <1>1, FirstNewlineIs
<1> HIDE DEF f
<1>3. line \in Seq(Byte) /\ Len(line) = f - 1 /\ \A i \in 1 .. f - 1 : line[i] = buffer[i]
  BY <1>1, <1>2 DEF Cut
<1>4. rest \in Seq(Byte) /\ Len(rest) = n - f /\ \A i \in 1 .. n - f : rest[i] = buffer[f + i]
  BY <1>1, <1>2 DEF Cut, After
<1>5. end \in Seq(Byte) /\ Len(end) = 1 /\ end[1] = Newline
  BY DEF Byte
<1> HIDE DEF line, end, rest
<1>6. ~Contains(line, Newline)
  BY <1>2, <1>3 DEF Contains
<1>7. buffer = (line \o end) \o rest
  <2>1. /\ line \o end \in Seq(Byte) /\ Len(line \o end) = f
        /\ \A i \in 1 .. f : (line \o end)[i] = buffer[i]
    <3>1. /\ line \o end \in Seq(Byte) /\ Len(line \o end) = Len(line) + Len(end)
          /\ \A i \in 1 .. Len(line) + Len(end) :
               (line \o end)[i] = IF i <= Len(line) THEN line[i] ELSE end[i - Len(line)]
      BY <1>3, <1>5, ConcatProperties, Zenon
    <3>2. Len(line) + Len(end) = f
      BY <1>2, <1>3, <1>5
    <3>3. ASSUME NEW i \in 1 .. f PROVE (line \o end)[i] = buffer[i]
      <4>1. CASE i = f
        <5>1. i \in 1 .. Len(line) + Len(end) /\ ~(i <= Len(line)) /\ i - Len(line) = 1
          BY <1>2, <1>3, <3>2, <4>1
        <5>2. (line \o end)[i] = end[1]
          BY <3>1, <5>1
        <5> QED BY <1>2, <1>5, <4>1, <5>2
      <4>2. CASE i # f
        BY <1>2, <1>3, <3>1, <3>2, <4>2
      <4> QED BY <4>1, <4>2
    <3> QED BY <3>1, <3>2, <3>3
  <2> DEFINE le == line \o end
  <2> HIDE DEF le
  <2>0. le \in Seq(Byte)
    BY <2>1 DEF le
  <2>2. /\ le \o rest \in Seq(Byte) /\ Len(le \o rest) = Len(le) + Len(rest)
        /\ \A i \in 1 .. Len(le) + Len(rest) :
             (le \o rest)[i] = IF i <= Len(le) THEN le[i] ELSE rest[i - Len(le)]
    BY <1>4, <2>0, ConcatProperties, Zenon
  <2>3. Len(le) = f /\ Len(le) + Len(rest) = n
    BY <1>2, <1>4, <2>1 DEF le
  <2>4. ASSUME NEW i \in 1 .. n PROVE (le \o rest)[i] = buffer[i]
    <3>1. CASE i <= f
      BY <1>2, <2>1, <2>2, <2>3, <3>1 DEF le
    <3>2. CASE i > f
      <4>1. i - f \in 1 .. n - f /\ f + (i - f) = i
        BY <1>2, <3>2
      <4>2. rest[i - f] = buffer[i]
        BY <1>4, <4>1
      <4> QED BY <1>2, <2>2, <2>3, <3>2, <4>2
    <3>3. i <= f \/ i > f
      BY <1>2
    <3> QED BY <3>1, <3>2, <3>3
  <2>5. Len(le \o rest) = Len(buffer)
    BY <2>2, <2>3
  <2> QED BY <1>1, <2>2, <2>4, <2>5, SeqEqual DEF le
<1> QED BY <1>1, <1>3, <1>4, <1>5, <1>6, <1>7, HandOutKeeps

\* The steps of next.
Nexts ==
  \/ Next1 \/ LineFound \/ ReadFails \/ ReadMisuses \/ ReadMore \/ LastLine \/ EndOfLines

LEMMA NextsFile ==
  ASSUME FileTypeOK, Nexts
  PROVE  FileTypeOK' /\ FileEffect /\ depth' = depth
<1>0. depth \in Nat
  BY DEF FileTypeOK
<1>1. CASE UNCHANGED << theFile, depth >>
  BY <1>0, <1>1, SameFile
<1>2. CASE ReadMore
  <2>1. Advance(ChunkSize) /\ ~closed /\ depth' = depth
    BY <1>2 DEF ReadMore, Reads
  <2>2. ChunkSize \in Nat
    BY FileAssumption
  <2>3. content' = content /\ closed' = closed /\ pos' \in 0 .. Len(content) /\ External!Next
    BY <2>1, <2>2, AdvanceIs
  <2> QED BY <2>1, <2>3 DEF FileTypeOK, FileEffect
<1>3. CASE Next1 \/ LineFound \/ ReadFails \/ ReadMisuses \/ LastLine \/ EndOfLines
  <2>1. UNCHANGED << theFile, depth >>
    BY <1>3 DEF Next1, LineFound, ReadFails, ReadMisuses, LastLine, EndOfLines, Throw, Misuse
  <2> QED BY <1>1, <2>1
<1> QED BY <1>2, <1>3 DEF Nexts

LEMMA SameLines ==
  ASSUME LinesInv, UNCHANGED << buffer, seen, lines, exhausted >>, nexting' \in BOOLEAN,
         nexting' => ~exhausted
  PROVE  LinesInv'
<1>1. LinesComplete'
  BY LinesAre DEF LinesInv
<1> QED BY <1>1 DEF LinesInv

LEMMA NextsLines ==
  ASSUME FileTypeOK, LinesInv, Nexts
  PROVE  LinesInv'
<1> DEFINE flat == FlattenSeq(Texts(lines))
<1>0. /\ buffer \in Seq(Byte) /\ flat \in Seq(Byte) /\ flat \o buffer = seen /\ seen \in Seq(Byte)
      /\ lines \in Seq(LineRecords)
  BY TextsAre, LinesAre DEF LinesInv
<1>1. CASE Next1
  BY <1>1, SameLines DEF Next1, LinesInv
<1>2. CASE LineFound
  BY <1>2, LineFoundKeeps
<1>3. CASE ReadFails \/ ReadMisuses
  BY <1>3, SameLines DEF ReadFails, ReadMisuses, LinesInv, iterator
<1>4. CASE ReadMore
  <2> DEFINE chunk == Chunk(ChunkSize)
  <2>1. chunk \in Seq(Byte)
    BY <1>4, AdvanceIs, FileAssumption DEF ReadMore
  <2>2. /\ buffer' = buffer \o chunk /\ seen' = seen \o chunk /\ lines' = lines
        /\ exhausted' = exhausted /\ nexting' = nexting /\ nexting
    BY <1>4 DEF ReadMore, Reads
  <2>3. flat \in Seq(Byte)
    BY <1>0
  <2> HIDE DEF chunk, flat
  <2>4. \A a, b, c \in Seq(Byte) : (a \o b) \o c = a \o (b \o c)
    BY ConcatAssociative
  <2>5. flat \o (buffer \o chunk) = (flat \o buffer) \o chunk
    BY <1>0, <2>1, <2>3, <2>4, Zenon
  <2>6. buffer' \in Seq(Byte) /\ seen' \in Seq(Byte)
    BY <1>0, <2>1, <2>2, ConcatProperties
  <2>7. flat \o buffer' = seen'
    BY <1>0, <2>2, <2>5
  <2>8. LinesComplete'
    BY <2>2, <2>7, LinesAre DEF LinesInv, flat
  <2> QED BY <2>2, <2>6, <2>8 DEF LinesInv
<1>5. CASE LastLine
  <2>1. /\ nexting /\ FirstNewline = 0 /\ HandOut(buffer, << >>, << >>)
    BY <1>5 DEF LastLine, Reads
  <2>2. ~Contains(buffer, Newline)
    BY <1>0, <2>1, FirstNewlineIs DEF Contains
  <2>3. (buffer \o << >>) \o << >> = buffer /\ << >> \in Seq(Byte)
    BY <1>0, ConcatEmptySeq
  <2> QED BY <1>0, <2>1, <2>2, <2>3, HandOutKeeps
<1>6. CASE EndOfLines
  <2>1. /\ buffer = << >> /\ exhausted' = TRUE /\ nexting' = FALSE
        /\ UNCHANGED << buffer, seen, lines >>
    BY <1>6 DEF EndOfLines
  <2>2. LinesComplete'
    BY <2>1, LinesAre DEF LinesInv
  <2> QED BY <2>1, <2>2 DEF LinesInv
<1> QED BY <1>1, <1>2, <1>3, <1>4, <1>5, <1>6 DEF Nexts

LEMMA FileStep ==
  ASSUME FileInv, [Next]_vars
  PROVE  /\ FileInv' /\ FileEffect
         /\ depth' < depth => closed' /\ ErrorGoesOn
<1> USE DEF FileInv
<1>1. CASE UNCHANGED fileVars
  <2>1. UNCHANGED << theFile, depth, iterator, error >>
    BY <1>1 DEF fileVars, theFile, iterator
  <2> QED BY <2>1, SameFile, SameLines DEF FileTypeOK, LinesInv, iterator
<1>2. CASE FileNext
  <2>1. CASE Operates
    BY <2>1, OperatesIs, SameLines DEF iterator, LinesInv
  <2>2. CASE Nexts
    BY <2>2, NextsFile, NextsLines DEF FileTypeOK
  <2> QED BY <1>2, <2>1, <2>2 DEF FileNext, Operates, Nexts
<1>3. CASE Convert \/ UNCHANGED vars
  BY <1>1, <1>3 DEF Convert, vars
<1> QED BY <1>1, <1>2, <1>3 DEF Next

LEMMA FileInitially == Init => FileInv /\ External!Init
<1>1. << >> \in Contents
  <2>1. << >> \in [1 .. 0 -> Byte] /\ 0 \in 0 .. MaxLength
    BY FileAssumption
  <2> QED BY <2>1, ContentsAre DEF Contents
<1>2. Init => content \in Contents /\ pos = 0 /\ closed = FALSE /\ depth = 0 /\ NoIterator
  BY <1>1 DEF Init, NoFile, FileInit
<1>3. Texts(<< >>) = << >> /\ FlattenSeq(<< >>) = << >>
  BY DEF Texts, FlattenSeq
<1>4. NoIterator => LinesInv
  <2> SUFFICES ASSUME NoIterator PROVE LinesInv
    OBVIOUS
  <2>1. << >> \in Seq(Byte) /\ << >> \o << >> = << >> /\ DOMAIN << >> = {}
    OBVIOUS
  <2>2. lines = << >> /\ buffer = << >> /\ seen = << >> /\ exhausted = FALSE
    BY DEF NoIterator
  <2>3. FlattenSeq(Texts(lines)) \o buffer = seen
    BY <1>3, <2>1, <2>2
  <2>4. \A i \in DOMAIN lines : ~Contains(lines[i].text, Newline)
    BY <2>1, <2>2
  <2>5. LinesComplete
    BY <2>2, <2>3, <2>4, LinesAre
  <2>6. nexting = FALSE /\ << >> \in Seq(LineRecords)
    BY DEF NoIterator
  <2> QED BY <2>1, <2>2, <2>5, <2>6 DEF LinesInv
<1>5. Init => FileTypeOK
  <2>1. \A s \in Seq(Byte) : 0 \in 0 .. Len(s)
    OBVIOUS
  <2> SUFFICES ASSUME Init PROVE FileTypeOK
    OBVIOUS
  <2>2. content \in Seq(Byte) /\ Len(content) <= MaxLength
    BY <1>2, ContentsAre
  <2>3. pos = 0 /\ closed = FALSE /\ depth = 0
    BY <1>2
  <2> QED BY <2>1, <2>2, <2>3 DEF FileTypeOK
<1> QED BY <1>2, <1>4, <1>5, ContentsAre DEF FileInv, External!Init

(***************************************************************************)
(* The inductive invariant of a file and the iterator over its lines       *)
(* (file.c, io.ö): the position is in the content, and the lines with      *)
(* their ends and the buffer are what the iterator has read.               *)
(***************************************************************************)
THEOREM FileInvariance == Spec => []FileInv
BY FileInitially, FileStep, PTL DEF Spec

(***************************************************************************)
(* The iterator loses and repeats nothing, for chunks of every size and    *)
(* whatever the program does to the file between two lines (io.ö:170).     *)
(***************************************************************************)
THEOREM LinesAreComplete == Spec => []LinesComplete
<1>1. FileInv => LinesComplete
  BY DEF FileInv, LinesInv
<1> QED BY <1>1, FileInvariance, PTL

(***************************************************************************)
(* An `as` block ends with the file closed, whatever the block did to it,  *)
(* and with the error of the block, unless it is close that throws: only   *)
(* then, and only if the file was closed before, is the error lost         *)
(* (io.ö:9).                                                               *)
(***************************************************************************)
THEOREM AsAlwaysCloses == Spec => AsCloses
<1>1. FileInv /\ [Next]_vars => [depth' < depth => closed' /\ ErrorGoesOn]_fileVars
  BY FileStep
<1>2. [depth' < depth => closed' /\ ErrorGoesOn]_fileVars =>
        [depth' < depth => closed' /\ (error' = error \/ (closed /\ error' = "close"))]_fileVars
  BY DEF ErrorGoesOn
<1> QED BY <1>1, <1>2, FileInvariance, PTL DEF Spec, AsCloses

(***************************************************************************)
(* File, with fwrite, and FakeFile, with slices, do the same to their      *)
(* contents and positions: what io.md promises of a FileLike.              *)
(***************************************************************************)
THEOREM FilesAreByteFiles == Spec => ImplementsByteFile
<1>1. FileInv /\ [Next]_vars => [External!Next]_(External!byteFile)
  BY FileStep DEF FileEffect, theFile, External!byteFile
<1>2. Init => External!Init
  BY FileInitially
<1> QED BY <1>1, <1>2, FileInvariance, PTL DEF Spec, ImplementsByteFile, External!Spec

-----------------------------------------------------------------------------
(***************************************************************************)
(* replace of strings: after r replacements, res is r times as much longer *)
(* or shorter than src as new is than old.  They do not overlap in src, so *)
(* r times the length of old fits in src.                                  *)
(***************************************************************************)
StringTypeOK ==
  /\ res \in Seq(Chars) /\ src \in Seq(Chars) /\ old \in Seq(Chars) /\ new \in Seq(Chars)
  /\ call.start \in Int /\ call.end \in Int

AfterReplacing(r) ==
  /\ Len(res) = Len(src) + r * (Len(new) - Len(old))
  /\ r * Len(old) <= Len(src)
  /\ state = "looping" => offset \in Nat /\ offset + Len(old) + r * Len(old) <= Len(src)
ReplaceInv ==
  call.method = "replace" =>
    /\ state = "looping" => old # << >>
    /\ old # << >> => IF state = "called" THEN res = << >> ELSE \E r \in Nat : AfterReplacing(r)

StringInv == StringTypeOK /\ ReplaceInv

LEMMA Multiples ==
  ASSUME NEW r \in Nat, NEW o \in Nat \ {0}, NEW s \in Nat, r * o <= s
  PROVE  r <= s \div o
<1> DEFINE q == s \div o
<1>1. q \in Nat /\ s < (q + 1) * o
  OBVIOUS
<1> HIDE DEF q
<1>2. r * o < (q + 1) * o
  <2>1. r * o \in Nat /\ (q + 1) * o \in Nat
    BY <1>1
  <2> QED BY <1>1, <2>1
<1>3. r >= q + 1 => r * o >= (q + 1) * o
  BY <1>1
<1> QED BY <1>1, <1>2, <1>3 DEF q

LEMMA Longest ==
  ASSUME NEW r \in Nat, NEW q \in Nat, r <= q, NEW d \in Int
  PROVE  /\ d >= 0 => r * d <= q * d
         /\ d <= 0 => r * d <= 0
         /\ r * d \in Int /\ (r + 1) * d = r * d + d
OBVIOUS

LEMMA ReplacedIs ==
  ASSUME StringTypeOK, offset \in Nat, offset + Len(old) <= Len(res)
  PROVE  /\ Replaced \in Seq(Chars)
         /\ Len(Replaced) = Len(res) + (Len(new) - Len(old))
<1> DEFINE a == SubSeq(res, 1, offset)
           b == SubSeq(res, offset + Len(old) + 1, Len(res))
           n == Len(res)
           k == Len(old)
<1>1. n \in Nat /\ k \in Nat /\ Len(new) \in Nat /\ res \in Seq(Chars) /\ new \in Seq(Chars)
  BY DEF StringTypeOK
<1>2. a \in Seq(Chars) /\ Len(a) = offset
  BY <1>1
<1>3. b \in Seq(Chars) /\ Len(b) = n - (offset + k)
  BY <1>1
<1>4. Replaced = (a \o new) \o b
  BY DEF Replaced
<1> HIDE DEF a, b
<1>5. a \o new \in Seq(Chars) /\ Len(a \o new) = offset + Len(new)
  BY <1>1, <1>2
<1> DEFINE an == a \o new
<1> HIDE DEF an, n, k
<1>6. an \o b \in Seq(Chars) /\ Len(an \o b) = Len(an) + Len(b)
  BY <1>3, <1>5 DEF an
<1>7. offset + Len(new) + (n - (offset + k)) = n + (Len(new) - k)
  BY <1>1
<1>8. Len(an) = offset + Len(new) /\ Len(b) = n - (offset + k)
  BY <1>3, <1>5 DEF an
<1>9. Len(an \o b) = n + (Len(new) - k)
  BY <1>6, <1>7, <1>8
<1> QED BY <1>4, <1>6, <1>9 DEF an, n, k

LEMMA StringStep == StringInv /\ [Next]_vars => StringInv'
<1> SUFFICES ASSUME StringInv, [Next]_vars
             PROVE  StringInv'
  OBVIOUS
<1> USE DEF StringInv
<1>0. /\ src \in Seq(Chars) /\ old \in Seq(Chars) /\ new \in Seq(Chars) /\ res \in Seq(Chars)
      /\ Len(src) \in Nat /\ Len(old) \in Nat /\ Len(new) \in Nat
  BY DEF StringTypeOK
<1>1. CASE UNCHANGED stringVars
  BY <1>1 DEF stringVars, StringTypeOK, ReplaceInv, AfterReplacing, src, old, new
<1>2. CASE StringNext /\ call.method # "replace"
  <2>1. call' = call /\ res' \in Seq(Chars)
    <3>1. CASE Slice
      <4>1. ASSUME NEW i \in Nat, NEW j \in Nat, j <= Len(src)
            PROVE  SubSeq(src, i + 1, j) \in Seq(Chars)
        BY <1>0, <4>1
      <4> DEFINE i == IF call.start < 0 THEN 0 ELSE call.start
                 j == IF call.end > Len(src) THEN Len(src) ELSE call.end
      <4>2. call' = call /\ res' = IF j < 0 \/ i >= j THEN << >> ELSE SubSeq(src, i + 1, j)
        BY <3>1 DEF Slice
      <4>3. i \in Nat /\ j \in Int /\ j <= Len(src)
        BY <1>0 DEF StringTypeOK
      <4> HIDE DEF i, j
      <4>4. CASE j < 0
        BY <4>2, <4>4
      <4>5. CASE ~(j < 0)
        <5>1. j \in Nat /\ SubSeq(src, i + 1, j) \in Seq(Chars)
          BY <4>1, <4>3, <4>5
        <5> QED BY <4>2, <5>1
      <4> QED BY <4>4, <4>5
    <3>2. CASE ~Slice
      BY <1>0, <1>2, <3>2 DEF StringNext, ReplaceBegin, ReplaceSkip, ReplaceFound,
                              SplitBegin, SplitWord, SplitEnd
    <3> QED BY <3>1, <3>2
  <2> QED BY <1>2, <2>1 DEF StringTypeOK, ReplaceInv, src, old, new
<1>3. CASE StringNext /\ call.method = "replace"
  <2>1. call' = call /\ src' = src /\ old' = old /\ new' = new
    BY <1>3 DEF StringNext, ReplaceBegin, ReplaceSkip, ReplaceFound, Slice,
                SplitBegin, SplitWord, SplitEnd, src, old, new
  <2>2. CASE ReplaceBegin
    <3>1. CASE old = << >> \/ state' = "ValueError"
      BY <1>0, <2>1, <2>2, <3>1 DEF ReplaceBegin, StringTypeOK, ReplaceInv
    <3>2. CASE old # << >>
      <4>1. /\ res' = src /\ state' \in {"done", "looping"} /\ state' # "called"
            /\ state' = "looping" => Len(old) <= Len(src) /\ offset' = Len(src) - Len(old)
        BY <1>0, <2>2, <3>2 DEF ReplaceBegin
      <4>2. 0 * Len(old) = 0 /\ 0 * (Len(new) - Len(old)) = 0
        BY <1>0
      <4>3. AfterReplacing(0)'
        BY <1>0, <2>1, <4>1, <4>2 DEF AfterReplacing
      <4>4. \E r \in Nat : AfterReplacing(r)'
        BY <4>3
      <4> QED BY <1>0, <2>1, <3>2, <4>1, <4>4 DEF StringTypeOK, ReplaceInv
    <3> QED BY <3>1, <3>2
  <2>3. CASE ReplaceSkip
    <3>1. state = "looping" /\ res' = res /\ state' # "called"
      BY <2>3 DEF ReplaceSkip
    <3>2. old # << >>
      BY <1>3, <3>1 DEF ReplaceInv
    <3>3. PICK r \in Nat : AfterReplacing(r)
      BY <1>3, <3>1, <3>2 DEF ReplaceInv
    <3>4. offset \in Nat /\ r * Len(old) \in Int
      BY <1>0, <3>1, <3>3 DEF AfterReplacing
    <3>5. state' = "looping" => offset' \in Nat /\ offset' = offset - 1
      BY <2>3, <3>4 DEF ReplaceSkip
    <3>6. AfterReplacing(r)'
      BY <1>0, <2>1, <3>1, <3>3, <3>4, <3>5 DEF AfterReplacing
    <3> QED BY <1>0, <2>1, <3>1, <3>2, <3>6 DEF StringTypeOK, ReplaceInv
  <2>4. CASE ReplaceFound
    <3>1. state = "looping" /\ res' = Replaced /\ state' # "called"
      BY <2>4 DEF ReplaceFound
    <3>2. old # << >>
      BY <1>3, <3>1 DEF ReplaceInv
    <3>3. PICK r \in Nat : AfterReplacing(r)
      BY <1>3, <3>1, <3>2 DEF ReplaceInv
    <3> DEFINE d == Len(new) - Len(old)
               k == Len(old)
               m == Len(src)
    <3>4. /\ offset \in Nat /\ offset + k + r * k <= m /\ Len(res) = m + r * d
          /\ m \in Nat /\ k \in Nat /\ d \in Int /\ -k <= d
      BY <1>0, <3>1, <3>3 DEF AfterReplacing
    <3> HIDE DEF d, k, m
    <3>5. /\ r * k \in Int /\ r * d \in Int
          /\ (r + 1) * k = r * k + k /\ (r + 1) * d = r * d + d
      BY <3>4, Longest
    <3>6. -(r * k) <= r * d
      BY <3>4
    <3>7. offset + k <= Len(res)
      BY <3>4, <3>5, <3>6
    <3>8. res' \in Seq(Chars) /\ Len(res') = Len(res) + d
      BY <3>1, <3>4, <3>7, ReplacedIs DEF d, k
    <3>9. state' = "looping" => offset' \in Nat /\ offset' = offset - k
      BY <2>4, <3>4 DEF ReplaceFound, k
    <3>10. /\ Len(res') = m + (r + 1) * d /\ (r + 1) * k <= m
           /\ state' = "looping" => offset' \in Nat /\ offset' + k + (r + 1) * k <= m
      BY <3>4, <3>5, <3>8, <3>9
    <3>11. AfterReplacing(r + 1)'
      BY <2>1, <3>10 DEF AfterReplacing, d, k, m
    <3> QED BY <1>0, <2>1, <3>1, <3>2, <3>8, <3>11 DEF StringTypeOK, ReplaceInv
  <2> QED BY <1>3, <2>2, <2>3, <2>4 DEF StringNext, Slice, SplitBegin, SplitWord, SplitEnd
<1>4. CASE FileNext \/ Convert \/ DecodeTurn \/ DecodeEnd \/ UNCHANGED vars
  BY <1>1, <1>2, <1>3, <1>4 DEF Next, Convert, vars
<1> QED BY <1>2, <1>3, <1>4 DEF Next

LEMMA StringInitially == Init => StringInv
<1>1. << >> \in Seq(Chars) /\ 0 \in Int
  OBVIOUS
<1>2. ASSUME NoCall PROVE StringInv
  BY <1>1, <1>2 DEF NoCall, Call, StringInv, StringTypeOK, ReplaceInv, src, old, new
<1>3. ASSUME StringInit PROVE StringInv
  BY <1>1, <1>3, CharsAssumption
     DEF StringInit, StringInv, StringTypeOK, ReplaceInv, src, old, new
<1> QED BY <1>2, <1>3 DEF Init

LEMMA StringInvFits == StringInv => ReplaceFits
<1> SUFFICES ASSUME StringInv, call.method = "replace", old # << >>
             PROVE  Len(res) <= capacity
  BY DEF ReplaceFits
<1> DEFINE d == Len(new) - Len(old)
           k == Len(old)
           m == Len(src)
<1>1. m \in Nat /\ k \in Nat \ {0} /\ d \in Int
  BY DEF StringInv, StringTypeOK
<1>2. capacity = IF d > 0 THEN m + (m \div k) * d ELSE m
  BY DEF capacity, StringInv, StringTypeOK
<1>3. m \div k \in Nat
  BY <1>1
<1>4. CASE state = "called"
  <2>1. Len(res) = 0
    BY <1>4 DEF StringInv, ReplaceInv
  <2> HIDE DEF d, k, m
  <2>2. d > 0 => (m \div k) * d >= 0
    BY <1>1, <1>3
  <2>3. (m \div k) * d \in Int
    BY <1>1, <1>3
  <2> QED BY <1>1, <1>2, <2>1, <2>2, <2>3
<1>5. CASE state # "called"
  <2>1. PICK r \in Nat : AfterReplacing(r)
    BY <1>5 DEF StringInv, ReplaceInv
  <2>2. Len(res) = m + r * d /\ r * k <= m
    BY <2>1 DEF AfterReplacing
  <2> HIDE DEF d, k, m
  <2> DEFINE q == m \div k
  <2>3. r <= q
    BY <1>1, <2>2, Multiples
  <2> HIDE DEF q
  <2>4. /\ d >= 0 => r * d <= q * d
        /\ d <= 0 => r * d <= 0
        /\ r * d \in Int /\ q * d \in Int
    <3>1. q \in Nat
      BY <1>3 DEF q
    <3> QED BY <1>1, <2>3, <3>1, Longest
  <2> QED BY <1>1, <1>2, <2>2, <2>4 DEF q
<1> QED BY <1>4, <1>5

(***************************************************************************)
(* replace never writes outside of the memory it allocated, for texts of   *)
(* every length (unicode.c, 82 to 89): occurrences that are replaced do    *)
(* not overlap, so there are no more of them than it reckons with.         *)
(***************************************************************************)
THEOREM ReplaceStaysInside == Spec => []ReplaceFits
<1>1. Spec => []StringInv
  BY StringInitially, StringStep, PTL DEF Spec
<1> QED BY <1>1, StringInvFits, PTL

-----------------------------------------------------------------------------
(***************************************************************************)
(* Which occurrences replace should replace: going down from the end, each *)
(* number of characters at the end has a choice.                           *)
(***************************************************************************)
ChoosesFrom(s, o, c, k) ==
  /\ c \in SUBSET Occurrences(s, o) /\ \A j \in c : j > k
  /\ \A i \in Occurrences(s, o) :
       i > k => (i \in c <=> ~ \E j \in c : i < j /\ j < i + Len(o))

LEMMA ChosenIs ==
  ASSUME NEW T, NEW s \in Seq(T), NEW o \in Seq(T)
  PROVE  /\ ChosenOccurrences(s, o) \in SUBSET Occurrences(s, o)
         /\ \A i \in Occurrences(s, o) :
              i \in ChosenOccurrences(s, o)
                <=> ~ \E j \in ChosenOccurrences(s, o) : i < j /\ j < i + Len(o)
<1> DEFINE n == Len(s)
           S == {k \in 0 .. n : \E c : ChoosesFrom(s, o, c, n - k)}
<1>1. n \in Nat /\ Len(o) \in Nat /\ n = Len(s)
  OBVIOUS
<1>2. Occurrences(s, o) \subseteq Nat \ {0}
  BY <1>1 DEF Occurrences
<1> HIDE DEF n
<1>3. 0 \in S
  <2>1. \A i \in Occurrences(s, o) : ~(i > n - 0) \/ Len(o) = 0
    BY <1>1 DEF Occurrences
  <2>2. CASE Len(o) # 0
    <3>1. ChoosesFrom(s, o, {}, n - 0)
      BY <2>1, <2>2 DEF ChoosesFrom
    <3> QED BY <1>1, <3>1
  <2>3. CASE Len(o) = 0
    <3> DEFINE c == {i \in Occurrences(s, o) : i > n - 0}
    <3>1. \A i \in Occurrences(s, o) : ~ \E j \in c : i < j /\ j < i + Len(o)
      BY <1>1, <1>2, <2>3
    <3>2. ChoosesFrom(s, o, c, n - 0)
      BY <3>1 DEF ChoosesFrom
    <3> QED BY <1>1, <3>2
  <2> QED BY <2>2, <2>3
<1>4. ASSUME NEW k \in 0 .. n - 1, k \in S
      PROVE  k + 1 \in S
  <2> DEFINE p == n - k
  <2>1. k + 1 \in 0 .. n /\ n - (k + 1) = p - 1 /\ p \in Nat \ {0}
    BY <1>1
  <2>2. PICK c : ChoosesFrom(s, o, c, p)
    BY <1>4
  <2> HIDE DEF p
  <2> DEFINE d == IF p \in Occurrences(s, o) /\ ~ \E j \in c : p < j /\ j < p + Len(o)
                  THEN c \cup {p} ELSE c
  <2>3. /\ d \in SUBSET Occurrences(s, o) /\ \A j \in d : j > p - 1
        /\ \A j \in c : j > p /\ j \in d
        /\ \A j \in d : j # p => j \in c
    <3>1. c \in SUBSET Occurrences(s, o) /\ \A j \in c : j > p /\ j \in Nat
      BY <1>2, <2>2 DEF ChoosesFrom
    <3>2. p > p - 1 /\ \A j \in c : j > p - 1
      BY <2>1, <3>1
    <3> QED BY <3>1, <3>2
  <2>4. p \in Occurrences(s, o) => (p \in d <=> ~ \E j \in c : p < j /\ j < p + Len(o))
    <3>1. p \notin c
      BY <2>1, <2>3
    <3> QED BY <3>1
  <2> HIDE DEF d
  <2>5. ASSUME NEW i \in Occurrences(s, o), i > p - 1
        PROVE  i \in d <=> ~ \E j \in d : i < j /\ j < i + Len(o)
    <3>1. i \in Nat /\ i >= p /\ \A j \in d : i < j => j \in c
      BY <1>2, <2>1, <2>3, <2>5
    <3>2. (\E j \in d : i < j /\ j < i + Len(o)) <=> \E j \in c : i < j /\ j < i + Len(o)
      BY <2>3, <3>1
    <3>3. CASE i = p
      BY <2>4, <3>2, <3>3
    <3>4. CASE i # p
      <4>1. i > p /\ (i \in d <=> i \in c)
        BY <2>1, <2>3, <3>1, <3>4
      <4> QED BY <2>2, <3>2, <4>1 DEF ChoosesFrom
    <3> QED BY <3>3, <3>4
  <2>6. ChoosesFrom(s, o, d, n - (k + 1))
    BY <2>1, <2>3, <2>5 DEF ChoosesFrom
  <2> QED BY <2>1, <2>6
<1> HIDE DEF S
<1>5. n \in S
  <2>1. \A k \in 0 .. n : k \in S
    BY <1>1, <1>3, <1>4, UpTo
  <2> QED BY <1>1, <2>1
<1>6. PICK c : ChoosesFrom(s, o, c, n - n)
  BY <1>5 DEF S
<1>7. /\ c \in SUBSET Occurrences(s, o)
      /\ \A i \in Occurrences(s, o) : i \in c <=> ~ \E j \in c : i < j /\ j < i + Len(o)
  BY <1>1, <1>2, <1>6 DEF ChoosesFrom
<1> QED BY <1>7 DEF ChosenOccurrences

(***************************************************************************)
(* What the first m pieces make.                                           *)
(***************************************************************************)
FirstPieces(p, m) == FlattenSeq([i \in 1 .. m |-> p[i]])

PiecesAdd(p, T) ==
  /\ FirstPieces(p, 0) = << >>
  /\ FirstPieces(p, Len(p)) = FlattenSeq(p)
  /\ \A m \in 0 .. Len(p) : FirstPieces(p, m) \in Seq(T)
  /\ \A m \in 0 .. Len(p) - 1 : FirstPieces(p, m + 1) = FirstPieces(p, m) \o p[m + 1]

LEMMA FunctionsAreSequences ==
  ASSUME NEW V, NEW m \in Nat, NEW f \in [1 .. m -> V]
  PROVE  f \in Seq(V) /\ Len(f) = m
OBVIOUS

LEMMA FirstPiecesAre ==
  ASSUME NEW T, NEW p \in Seq(Seq(T))
  PROVE  PiecesAdd(p, T)
<1>1. Len(p) \in Nat /\ p = [i \in 1 .. Len(p) |-> p[i]] /\ \A i \in 1 .. Len(p) : p[i] \in Seq(T)
  OBVIOUS
<1>2. FirstPieces(p, Len(p)) = FlattenSeq(p)
  BY <1>1 DEF FirstPieces
<1>3. FirstPieces(p, 0) = << >>
  <2>1. [i \in 1 .. 0 |-> p[i]] = << >>
    OBVIOUS
  <2>2. FlattenSeq(<< >>) = << >>
    BY DEF FlattenSeq
  <2> QED BY <2>1, <2>2 DEF FirstPieces
<1>4. \A m \in 0 .. Len(p) : FirstPieces(p, m) \in Seq(T)
  <2> TAKE m \in 0 .. Len(p)
  <2>1. [i \in 1 .. m |-> p[i]] \in [1 .. m -> Seq(T)] /\ << >> \in Seq(T) /\ m \in Nat
    BY <1>1
  <2>2. [i \in 1 .. m |-> p[i]] \in Seq(Seq(T))
    BY <2>1, FunctionsAreSequences, Zenon
  <2> QED BY <2>1, <2>2, FlattenAppend DEF FirstPieces
<1>5. \A m \in 0 .. Len(p) - 1 : FirstPieces(p, m + 1) = FirstPieces(p, m) \o p[m + 1]
  <2> TAKE m \in 0 .. Len(p) - 1
  <2> DEFINE q == [i \in 1 .. m |-> p[i]]
  <2>1. q \in [1 .. m -> Seq(T)] /\ p[m + 1] \in Seq(T) /\ m \in Nat
    BY <1>1
  <2>2. q \in Seq(Seq(T)) /\ p[m + 1] \in Seq(T)
    BY <2>1, FunctionsAreSequences, Zenon
  <2>3. [i \in 1 .. m + 1 |-> p[i]] = Append(q, p[m + 1])
    BY <1>1
  <2> HIDE DEF q
  <2>4. FlattenSeq(Append(q, p[m + 1])) = FlattenSeq(q) \o p[m + 1]
    BY <2>2, FlattenAppend
  <2> QED BY <2>3, <2>4 DEF FirstPieces, q
<1> QED BY <1>2, <1>3, <1>4, <1>5 DEF PiecesAdd

AddsPiece(p, l) == FirstPieces(p, l + 1) = FirstPieces(p, l) \o p[l + 1]
LEMMA NextPiece ==
  ASSUME NEW T, NEW p \in Seq(Seq(T)), NEW l \in 0 .. Len(p) - 1
  PROVE  AddsPiece(p, l)
<1>1. PiecesAdd(p, T)
  BY FirstPiecesAre, Zenon
<1> QED BY <1>1 DEF PiecesAdd, AddsPiece

\* As long as every piece is a character of s, together they are s.
LEMMA SinglePieces ==
  ASSUME NEW T, NEW s \in Seq(T), NEW p \in Seq(Seq(T)), Len(p) = Len(s),
         NEW m \in 0 .. Len(s), \A i \in 1 .. m : p[i] = << s[i] >>
  PROVE  FirstPieces(p, m) = SubSeq(s, 1, m)
<1> DEFINE S == {i \in 0 .. m : FirstPieces(p, i) = SubSeq(s, 1, i)}
<1>0. PiecesAdd(p, T)
  BY FirstPiecesAre, Zenon
<1>1. m \in Nat /\ m <= Len(p) /\ Len(p) \in Nat
  OBVIOUS
<1>2. 0 \in S
  <2>1. SubSeq(s, 1, 0) = << >>
    OBVIOUS
  <2> QED BY <1>1, <2>1, <1>0 DEF PiecesAdd
<1>3. ASSUME NEW i \in 0 .. m - 1, i \in S
      PROVE  i + 1 \in S
  <2>1. i + 1 \in 1 .. m /\ i + 1 \in 0 .. m /\ i + 1 \in 1 .. Len(p) /\ i + 1 - 1 = i
    BY <1>1
  <2>2. FirstPieces(p, i + 1) = SubSeq(s, 1, i) \o << s[i + 1] >>
    <3>1. AddsPiece(p, i)
      <4>1. i \in 0 .. Len(p) - 1
        BY <1>1, <2>1
      <4> QED BY <4>1, NextPiece, Zenon
    <3>2. p[i + 1] = << s[i + 1] >> /\ FirstPieces(p, i) = SubSeq(s, 1, i)
      BY <1>3, <2>1
    <3> QED BY <3>1, <3>2 DEF AddsPiece
  <2>3. SubSeq(s, 1, i) \o << s[i + 1] >> = SubSeq(s, 1, i + 1)
    BY <1>1, <2>1
  <2> QED BY <2>1, <2>2, <2>3
<1> HIDE DEF S
<1>4. \A i \in 0 .. m : i \in S
  BY <1>1, <1>2, <1>3, UpTo
<1> QED BY <1>1, <1>4 DEF S

\* Empty pieces add nothing.
LEMMA EmptyPieces ==
  ASSUME NEW T, NEW p \in Seq(Seq(T)), NEW a \in 0 .. Len(p), NEW b \in a .. Len(p),
         \A i \in a + 1 .. b : p[i] = << >>
  PROVE  FirstPieces(p, b) = FirstPieces(p, a)
<1> DEFINE S == {i \in 0 .. b : i >= a => FirstPieces(p, i) = FirstPieces(p, a)}
<1>1. a \in Nat /\ b \in Nat /\ a <= b /\ b <= Len(p) /\ Len(p) \in Nat
  OBVIOUS
<1>2. FirstPieces(p, a) \in Seq(T)
  <2>1. PiecesAdd(p, T)
    BY FirstPiecesAre, Zenon
  <2> QED BY <2>1 DEF PiecesAdd
<1>3. 0 \in S
  BY <1>1
<1>4. ASSUME NEW i \in 0 .. b - 1, i \in S
      PROVE  i + 1 \in S
  <2>1. i + 1 \in 0 .. b /\ i \in 0 .. Len(p) - 1 /\ (i >= a => i + 1 \in a + 1 .. b)
        /\ (~(i >= a) /\ i + 1 >= a => i + 1 = a)
    BY <1>1
  <2>2. CASE i >= a
    <3>1. AddsPiece(p, i)
      BY <2>1, NextPiece, Zenon
    <3>2. p[i + 1] = << >> /\ FirstPieces(p, i) = FirstPieces(p, a)
      BY <1>4, <2>1, <2>2
    <3>3. FirstPieces(p, a) \o << >> = FirstPieces(p, a)
      BY <1>2
    <3> QED BY <2>1, <3>1, <3>2, <3>3 DEF AddsPiece
  <2>3. CASE ~(i >= a)
    BY <2>1, <2>3
  <2> QED BY <2>2, <2>3
<1> HIDE DEF S
<1>5. \A i \in 0 .. b : i \in S
  BY <1>1, <1>3, <1>4, UpTo
<1>6. b \in S
  BY <1>1, <1>5
<1> QED BY <1>1, <1>6 DEF S

(***************************************************************************)
(* What replace has done when it still has the first m characters to look  *)
(* at: what comes after them is finished, and no occurrence that should be *)
(* replaced begins among the last of them.                                 *)
(***************************************************************************)
Finished(s, o, n, m, r) ==
  \E t \in Seq(Chars) : /\ r = SubSeq(s, 1, m) \o t
                        /\ WithoutOld(s, o, n) = FirstPieces(Pieces(s, o, n), m) \o t
NoneBegins(s, o, a, b) == \A j \in a .. b : j \notin ChosenOccurrences(s, o)
ReplaceLoop(s, o, n, q, r) ==
  /\ q \in Nat /\ q + Len(o) <= Len(s)
  /\ NoneBegins(s, o, q + 2, q + Len(o))
  /\ Finished(s, o, n, q + Len(o), r)

LEMMA PiecesAre ==
  ASSUME NEW s \in Seq(Chars), NEW o \in Seq(Chars), NEW n \in Seq(Chars)
  PROVE  /\ Pieces(s, o, n) \in Seq(Seq(Chars)) /\ Len(Pieces(s, o, n)) = Len(s)
         /\ PiecesAdd(Pieces(s, o, n), Chars)
         /\ WithoutOld(s, o, n) = FirstPieces(Pieces(s, o, n), Len(s))
<1> DEFINE c == ChosenOccurrences(s, o)
           p == Pieces(s, o, n)
<1>1. Len(s) \in Nat /\ \A i \in 1 .. Len(s) : << s[i] >> \in Seq(Chars)
  OBVIOUS
<1>2. ASSUME NEW i \in 1 .. Len(s)
      PROVE  (CASE i \in c -> n
                [] i \notin c /\ \E j \in c : j < i /\ i < j + Len(o) -> << >>
                [] OTHER -> << s[i] >>) \in Seq(Chars)
  <2> DEFINE covered == \E j \in c : j < i /\ i < j + Len(o)
  <2>1. << >> \in Seq(Chars)
    OBVIOUS
  <2> HIDE DEF c, covered
  <2>2. CASE i \in c
    BY <2>2
  <2>3. CASE i \notin c /\ covered
    BY <2>1, <2>3
  <2>4. CASE i \notin c /\ ~covered
    BY <1>1, <2>4
  <2> QED BY <2>2, <2>3, <2>4
<1>3. p \in [1 .. Len(s) -> Seq(Chars)]
  BY <1>2 DEF Pieces
<1>4. p \in Seq(Seq(Chars)) /\ Len(p) = Len(s)
  BY <1>1, <1>3, FunctionsAreSequences, Zenon
<1> HIDE DEF p
<1>5. PiecesAdd(p, Chars)
  BY <1>4, FirstPiecesAre, Zenon
<1>6. WithoutOld(s, o, n) = FirstPieces(p, Len(s))
  BY <1>4, <1>5 DEF PiecesAdd, WithoutOld, p
<1> QED BY <1>4, <1>5, <1>6 DEF p

\* A character stays if no occurrence that is replaced begins at it or
\* less than its length before it.
LEMMA PieceStays ==
  ASSUME NEW s \in Seq(Chars), NEW o \in Seq(Chars), NEW n \in Seq(Chars), NEW i \in 1 .. Len(s),
         \A j \in ChosenOccurrences(s, o) : j > i \/ j + Len(o) <= i
  PROVE  o # << >> => Pieces(s, o, n)[i] = << s[i] >>
<1>1. /\ i \in Nat /\ Len(o) \in Nat /\ Len(s) \in Nat
      /\ \A j \in ChosenOccurrences(s, o) : j \in Nat
  <2>1. \A j \in Occurrences(s, o) : j \in Nat
    BY DEF Occurrences
  <2> QED BY <2>1, ChosenIs
<1> SUFFICES ASSUME Len(o) # 0
             PROVE  Pieces(s, o, n)[i] = << s[i] >>
  BY EmptySeq
<1>2. i \notin ChosenOccurrences(s, o)
  BY <1>1
<1>3. ~ \E j \in ChosenOccurrences(s, o) : j < i /\ i < j + Len(o)
  BY <1>1
<1> QED BY <1>2, <1>3 DEF Pieces

IsConcat(ab, a, b, T) ==
  /\ ab \in Seq(T) /\ Len(ab) = Len(a) + Len(b)
  /\ \A i \in 1 .. Len(a) : ab[i] = a[i]
  /\ \A i \in 1 .. Len(b) : ab[Len(a) + i] = b[i]
LEMMA ConcatIs ==
  ASSUME NEW T, NEW a \in Seq(T), NEW b \in Seq(T)
  PROVE  IsConcat(a \o b, a, b, T)
BY DEF IsConcat

Associates(a, b, c) == a \o b \o c = a \o (b \o c)
LEMMA Associative ==
  ASSUME NEW T, NEW a \in Seq(T), NEW b \in Seq(T), NEW c \in Seq(T)
  PROVE  Associates(a, b, c)
BY DEF Associates

\* The parts of a string before and after an occurrence.
CutAt(s, q, m, t, n, r) ==
  /\ SubSeq(r, 1, q) \o n \o SubSeq(r, m + 1, Len(r)) = SubSeq(s, 1, q) \o (n \o t)
  /\ m > 0 => r = SubSeq(s, 1, m - 1) \o (<< s[m] >> \o t)
LEMMA CutOccurrence ==
  ASSUME NEW s \in Seq(Chars), NEW q \in Nat, NEW m \in q .. Len(s), NEW t \in Seq(Chars),
         NEW n \in Seq(Chars), NEW r, r = SubSeq(s, 1, m) \o t
  PROVE  CutAt(s, q, m, t, n, r)
<1> DEFINE a == SubSeq(s, 1, m)
<1>1. /\ a \in Seq(Chars) /\ Len(a) = m /\ \A i \in 1 .. m : a[i] = s[i]
      /\ Len(s) \in Nat /\ Len(t) \in Nat /\ m \in Nat /\ m <= Len(s) /\ q <= m
  OBVIOUS
<1>2. r = a \o t
  OBVIOUS
<1> HIDE DEF a
<1>3. /\ r \in Seq(Chars) /\ Len(r) = m + Len(t)
      /\ \A i \in 1 .. m : r[i] = s[i]
      /\ \A i \in 1 .. Len(t) : r[m + i] = t[i]
  <2>1. IsConcat(a \o t, a, t, Chars)
    BY <1>1, ConcatIs, Zenon
  <2> QED BY <1>1, <1>2, <2>1 DEF IsConcat
<1>4. SubSeq(r, 1, q) = SubSeq(s, 1, q) /\ SubSeq(s, 1, q) \in Seq(Chars)
  BY <1>1, <1>3
<1>5. SubSeq(r, m + 1, Len(r)) = t
  BY <1>1, <1>3
<1>7. m > 0 => r = SubSeq(s, 1, m - 1) \o (<< s[m] >> \o t)
  <2> SUFFICES ASSUME m > 0 PROVE r = SubSeq(s, 1, m - 1) \o (<< s[m] >> \o t)
    OBVIOUS
  <2> DEFINE b == SubSeq(s, 1, m - 1)
  <2>1. m \in 1 .. Len(s) /\ m - 1 \in Nat
    BY <1>1
  <2>2. b \in Seq(Chars) /\ Len(b) = m - 1 /\ \A i \in 1 .. m - 1 : b[i] = s[i]
    BY <1>1, <2>1
  <2>3. << s[m] >> \in Seq(Chars) /\ Len(<< s[m] >>) = 1 /\ << s[m] >>[1] = s[m]
    BY <2>1
  <2> HIDE DEF b
  <2>4. b \o << s[m] >> = a
    <3> DEFINE c == << s[m] >>
               bc == b \o c
    <3>1. c \in Seq(Chars) /\ Len(c) = 1 /\ c[1] = s[m] /\ m - 1 + 1 = m
      BY <2>1, <2>3
    <3> HIDE DEF c
    <3>2. IsConcat(bc, b, c, Chars)
      BY <2>2, <3>1, ConcatIs, Zenon
    <3> HIDE DEF bc
    <3>3. bc[m] = c[1]
      <4>1. 1 \in 1 .. 1 /\ Len(b) + 1 = m
        BY <2>1, <2>2
      <4> QED BY <3>1, <3>2, <4>1 DEF IsConcat
    <3>4. bc \in Seq(Chars) /\ Len(bc) = m /\ \A i \in 1 .. m - 1 : bc[i] = s[i]
      BY <2>2, <3>1, <3>2 DEF IsConcat
    <3>5. \A i \in 1 .. m : bc[i] = a[i]
      <4> TAKE i \in 1 .. m
      <4>1. CASE i = m
        BY <1>1, <3>1, <3>3, <4>1
      <4>2. CASE i # m
        <5>1. i \in 1 .. m - 1
          BY <1>1, <4>2
        <5> QED BY <1>1, <3>4, <5>1
      <4> QED BY <4>1, <4>2
    <3>6. bc = [i \in 1 .. m |-> bc[i]] /\ a = [i \in 1 .. m |-> a[i]]
      BY <1>1, <3>4
    <3>7. bc = a
      BY <3>5, <3>6
    <3> QED BY <3>7 DEF bc, c
  <2>5. Associates(b, << s[m] >>, t)
    BY <2>2, <2>3, Associative, Zenon
  <2> QED BY <1>2, <2>4, <2>5 DEF b, Associates
<1>8. Associates(SubSeq(s, 1, q), n, t)
  BY <1>4, Associative, Zenon
<1> DEFINE x == SubSeq(s, 1, q)
           y == SubSeq(r, m + 1, Len(r))
           z == SubSeq(r, 1, q)
<1>9. x = z /\ y = t /\ x \o n \o t = x \o (n \o t)
  BY <1>4, <1>5, <1>8, Zenon DEF Associates
<1> HIDE DEF x, y, z
<1>10. z \o n \o y = x \o (n \o t)
  BY <1>9, Zenon
<1> QED BY <1>7, <1>10, Zenon DEF x, y, z, CutAt

LEMMA LoopBegins ==
  ASSUME NEW s \in Seq(Chars), NEW o \in Seq(Chars), NEW n \in Seq(Chars), Len(o) <= Len(s)
  PROVE  ReplaceLoop(s, o, n, Len(s) - Len(o), s)
<1> DEFINE q == Len(s) - Len(o)
<1>1. q \in Nat /\ q + Len(o) = Len(s) /\ Len(s) \in Nat /\ Len(o) \in Nat
  OBVIOUS
<1>2. NoneBegins(s, o, q + 2, q + Len(o))
  <2>1. \A j \in Occurrences(s, o) : j \in Nat /\ j <= q + 1
    BY <1>1 DEF Occurrences
  <2>2. ChosenOccurrences(s, o) \subseteq Occurrences(s, o)
    BY ChosenIs
  <2> QED BY <1>1, <2>1, <2>2 DEF NoneBegins
<1>3. Finished(s, o, n, Len(s), s)
  <2> DEFINE w == WithoutOld(s, o, n)
  <2>1. w = FirstPieces(Pieces(s, o, n), Len(s)) /\ w \in Seq(Chars)
    BY <1>1, PiecesAre DEF PiecesAdd
  <2>2. << >> \in Seq(Chars) /\ s = SubSeq(s, 1, Len(s)) \o << >> /\ w = w \o << >>
    BY <2>1
  <2> HIDE DEF w
  <2> QED BY <2>1, <2>2 DEF Finished, w
<1> QED BY <1>1, <1>2, <1>3 DEF ReplaceLoop

\* When no occurrence that should be replaced begins in the first m characters,
\* the rest is what it should be.
LEMMA LoopEnds ==
  ASSUME NEW s \in Seq(Chars), NEW o \in Seq(Chars), NEW n \in Seq(Chars), o # << >>,
         NEW m \in 0 .. Len(s), NEW r, Finished(s, o, n, m, r), NoneBegins(s, o, 1, m)
  PROVE  r = WithoutOld(s, o, n)
<1> DEFINE p == Pieces(s, o, n)
<1>1. p \in Seq(Seq(Chars)) /\ Len(p) = Len(s)
  BY PiecesAre
<1>2. \A j \in ChosenOccurrences(s, o) : j \in Nat /\ j > m
  <2>1. \A j \in ChosenOccurrences(s, o) : j \in Nat /\ j >= 1
    BY ChosenIs DEF Occurrences
  <2> QED BY <2>1 DEF NoneBegins
<1>3. \A i \in 1 .. m : p[i] = << s[i] >>
  <2> TAKE i \in 1 .. m
  <2>1. i \in 1 .. Len(s) /\ \A j \in ChosenOccurrences(s, o) : j > i \/ j + Len(o) <= i
    BY <1>2
  <2> QED BY <2>1, PieceStays
<1> HIDE DEF p
<1>4. FirstPieces(p, m) = SubSeq(s, 1, m)
  BY <1>1, <1>3, SinglePieces
<1> QED BY <1>4 DEF Finished, p

LEMMA LoopSkips ==
  ASSUME NEW s \in Seq(Chars), NEW o \in Seq(Chars), NEW n \in Seq(Chars), o # << >>,
         NEW q, NEW r, ReplaceLoop(s, o, n, q, r), SubSeq(s, q + 1, q + Len(o)) # o
  PROVE  /\ q = 0 => r = WithoutOld(s, o, n)
         /\ q > 0 => ReplaceLoop(s, o, n, q - 1, r)
<1> DEFINE k == Len(o)
           m == q + k
           p == Pieces(s, o, n)
<1>1. /\ q \in Nat /\ k \in Nat \ {0} /\ m \in Nat /\ m <= Len(s) /\ m >= q + 1 /\ Len(s) \in Nat
      /\ Finished(s, o, n, m, r) /\ NoneBegins(s, o, q + 2, m)
  BY EmptySeq DEF ReplaceLoop
<1>2. q + 1 \notin ChosenOccurrences(s, o)
  <2>1. q + 1 + k - 1 = q + k
    BY <1>1
  <2>2. q + 1 \notin Occurrences(s, o)
    BY <2>1 DEF Occurrences
  <2> QED BY <2>2, ChosenIs
<1>3. NoneBegins(s, o, q + 1, m)
  BY <1>1, <1>2 DEF NoneBegins
<1>4. ASSUME q > 0 PROVE ReplaceLoop(s, o, n, q - 1, r)
  <2>1. \A j \in ChosenOccurrences(s, o) : j > m \/ j + k <= m
    <3>1. \A j \in ChosenOccurrences(s, o) : j \in Nat
      BY ChosenIs DEF Occurrences
    <3> QED BY <1>1, <1>3, <3>1 DEF NoneBegins
  <2>2. p[m] = << s[m] >> /\ m \in 1 .. Len(s) /\ << s[m] >> \in Seq(Chars)
    <3>1. m \in 1 .. Len(s)
      BY <1>1
    <3> HIDE DEF m
    <3> QED BY <2>1, <3>1, PieceStays
  <2>3. FirstPieces(p, m) = FirstPieces(p, m - 1) \o << s[m] >> /\ FirstPieces(p, m - 1) \in Seq(Chars)
    <3>1. p \in Seq(Seq(Chars)) /\ Len(p) = Len(s) /\ PiecesAdd(p, Chars)
      BY PiecesAre
    <3>2. m - 1 \in 0 .. Len(p) - 1 /\ m - 1 + 1 = m /\ m - 1 \in 0 .. Len(p)
      BY <1>1, <3>1
    <3> HIDE DEF m, p
    <3> DEFINE l == m - 1
    <3> HIDE DEF l
    <3>3. l \in 0 .. Len(p) - 1 /\ l + 1 = m /\ l \in 0 .. Len(p)
      BY <3>2 DEF l
    <3>4. FirstPieces(p, l + 1) = FirstPieces(p, l) \o p[l + 1] /\ FirstPieces(p, l) \in Seq(Chars)
      BY <3>1, <3>3 DEF PiecesAdd
    <3> QED BY <2>2, <3>3, <3>4 DEF l
  <2>4. PICK t \in Seq(Chars) : r = SubSeq(s, 1, m) \o t /\ WithoutOld(s, o, n) = FirstPieces(p, m) \o t
    BY <1>1 DEF Finished
  <2>5. m \in q .. Len(s) /\ m > 0
    BY <1>1
  <2> HIDE DEF m, p
  <2>6. r = SubSeq(s, 1, m - 1) \o (<< s[m] >> \o t)
    <3>1. CutAt(s, q, m, t, n, r)
      BY <1>1, <2>4, <2>5, CutOccurrence, Zenon
    <3> QED BY <2>5, <3>1, Zenon DEF CutAt
  <2> DEFINE t1 == << s[m] >> \o t
  <2>7. t1 \in Seq(Chars)
    BY <2>2, <2>4
  <2>8. Associates(FirstPieces(p, m - 1), << s[m] >>, t)
    BY <2>2, <2>3, <2>4, Associative, Zenon
  <2>9. WithoutOld(s, o, n) = FirstPieces(p, m - 1) \o t1
    BY <2>3, <2>4, <2>8, Zenon DEF Associates
  <2> HIDE DEF t1
  <2>10. r = SubSeq(s, 1, m - 1) \o t1
    BY <2>6 DEF t1
  <2>11. Finished(s, o, n, m - 1, r)
    BY <2>7, <2>9, <2>10 DEF Finished, p
  <2>12. q - 1 \in Nat /\ q - 1 + k = m - 1 /\ q - 1 + 2 = q + 1 /\ m - 1 <= Len(s)
    BY <1>1, <1>4 DEF m
  <2>13. NoneBegins(s, o, q + 1, m - 1)
    BY <1>1, <1>3 DEF NoneBegins
  <2> QED BY <2>11, <2>12, <2>13 DEF ReplaceLoop
<1>5. ASSUME q = 0 PROVE r = WithoutOld(s, o, n)
  <2>1. m \in 0 .. Len(s) /\ NoneBegins(s, o, 1, m)
    BY <1>1, <1>3, <1>5
  <2> HIDE DEF m
  <2> QED BY <1>1, <2>1, LoopEnds
<1> QED BY <1>4, <1>5

LEMMA LoopReplaces ==
  ASSUME NEW s \in Seq(Chars), NEW o \in Seq(Chars), NEW n \in Seq(Chars), o # << >>,
         NEW q, NEW r, ReplaceLoop(s, o, n, q, r), SubSeq(s, q + 1, q + Len(o)) = o,
         NEW e, e = SubSeq(r, 1, q) \o n \o SubSeq(r, q + Len(o) + 1, Len(r))
  PROVE  /\ q < Len(o) => e = WithoutOld(s, o, n)
         /\ ~(q < Len(o)) => ReplaceLoop(s, o, n, q - Len(o), e)
<1> DEFINE k == Len(o)
           m == q + k
           p == Pieces(s, o, n)
           c == ChosenOccurrences(s, o)
<1>1. /\ q \in Nat /\ k \in Nat \ {0} /\ m \in Nat /\ m <= Len(s) /\ m >= q + 1 /\ Len(s) \in Nat
      /\ Finished(s, o, n, m, r) /\ NoneBegins(s, o, q + 2, m)
  BY EmptySeq DEF ReplaceLoop
<1>2. q + 1 \in Occurrences(s, o)
  <2>1. q + 1 + k - 1 = q + k /\ q + 1 \in 1 .. Len(s) - k + 1
    BY <1>1
  <2> QED BY <2>1 DEF Occurrences
<1>3. /\ \A j \in c : j \in Nat /\ j >= 1 /\ j \in Occurrences(s, o)
      /\ \A i \in Occurrences(s, o) : i \in c <=> ~ \E j \in c : i < j /\ j < i + k
  <2>1. \A j \in Occurrences(s, o) : j \in Nat /\ j >= 1
    BY DEF Occurrences
  <2>2. c \in SUBSET Occurrences(s, o)
    BY ChosenIs
  <2>3. \A i \in Occurrences(s, o) : i \in c <=> ~ \E j \in c : i < j /\ j < i + k
    BY ChosenIs
  <2> QED BY <2>1, <2>2, <2>3
<1> HIDE DEF c
<1>4. q + 1 \in c
  <2>1. \A j \in c : ~(q + 1 < j /\ j < q + 1 + k)
    BY <1>1, <1>3 DEF NoneBegins, c
  <2> QED BY <1>2, <1>3, <2>1
<1>5. NoneBegins(s, o, q - k + 2, q)
  <2> SUFFICES ASSUME NEW j \in q - k + 2 .. q, j \in c PROVE FALSE
    BY DEF NoneBegins, c
  <2>1. j < q + 1 /\ q + 1 < j + k
    BY <1>1
  <2> QED BY <1>3, <1>4, <2>1
<1>6. p[q + 1] = n /\ \A i \in q + 2 .. m : p[i] = << >>
  <2>1. q + 1 \in 1 .. Len(s)
    BY <1>1
  <2>2. \A i \in q + 2 .. m : i \in 1 .. Len(s) /\ i \notin c /\ q + 1 < i /\ i < q + 1 + k
    BY <1>1 DEF NoneBegins, c
  <2> QED BY <1>4, <2>1, <2>2 DEF Pieces, c
<1>7. PICK t \in Seq(Chars) : r = SubSeq(s, 1, m) \o t /\ WithoutOld(s, o, n) = FirstPieces(p, m) \o t
  BY <1>1 DEF Finished
<1>8. p \in Seq(Seq(Chars)) /\ Len(p) = Len(s) /\ PiecesAdd(p, Chars)
  BY PiecesAre
<1>9. FirstPieces(p, m) = FirstPieces(p, q) \o n /\ FirstPieces(p, q) \in Seq(Chars)
  <2>1. /\ q + 1 \in 0 .. Len(p) /\ m \in q + 1 .. Len(p) /\ q + 1 + 1 = q + 2
        /\ q \in 0 .. Len(p) - 1 /\ q \in 0 .. Len(p)
    BY <1>1, <1>8
  <2> HIDE DEF m, p
  <2>2. FirstPieces(p, m) = FirstPieces(p, q + 1)
    BY <1>6, <1>8, <2>1, EmptyPieces
  <2>3. FirstPieces(p, q + 1) = FirstPieces(p, q) \o p[q + 1] /\ FirstPieces(p, q) \in Seq(Chars)
    BY <1>8, <2>1 DEF PiecesAdd
  <2> QED BY <1>6, <2>2, <2>3
<1>10. m \in q .. Len(s) /\ q + Len(o) + 1 = m + 1
  BY <1>1
<1> HIDE DEF m, p, k
<1>11. e = SubSeq(s, 1, q) \o (n \o t)
  <2>1. CutAt(s, q, m, t, n, r)
    BY <1>1, <1>7, <1>10, CutOccurrence, Zenon
  <2>2. e = SubSeq(r, 1, q) \o n \o SubSeq(r, m + 1, Len(r))
    BY <1>10, Zenon
  <2> QED BY <2>1, <2>2, Zenon DEF CutAt
<1>12. Finished(s, o, n, q, e)
  <2> DEFINE t1 == n \o t
  <2>1. t1 \in Seq(Chars)
    BY <1>7
  <2>2. Associates(FirstPieces(p, q), n, t)
    BY <1>9, <1>7, Associative, Zenon
  <2>3. WithoutOld(s, o, n) = FirstPieces(p, q) \o t1
    BY <1>7, <1>9, <2>2, Zenon DEF Associates
  <2>4. e = SubSeq(s, 1, q) \o t1
    BY <1>11, Zenon
  <2> HIDE DEF t1
  <2> QED BY <2>1, <2>3, <2>4 DEF Finished, p
<1>13. ASSUME q < k PROVE e = WithoutOld(s, o, n)
  <2>1. q \in 0 .. Len(s) /\ NoneBegins(s, o, 1, q)
    BY <1>1, <1>5, <1>10, <1>13 DEF NoneBegins
  <2> QED BY <1>12, <2>1, LoopEnds
<1>14. ASSUME ~(q < k) PROVE ReplaceLoop(s, o, n, q - k, e)
  <2>1. q - k \in Nat /\ q - k + k = q /\ q <= Len(s)
    BY <1>1, <1>10, <1>14
  <2> QED BY <1>5, <1>12, <2>1 DEF ReplaceLoop, k
<1> QED BY <1>13, <1>14 DEF k

\* A text shorter than what should be replaced stays as it is.
LEMMA TooShort ==
  ASSUME NEW s \in Seq(Chars), NEW o \in Seq(Chars), NEW n \in Seq(Chars), o # << >>,
         Len(s) < Len(o)
  PROVE  s = WithoutOld(s, o, n)
<1>1. Len(s) \in Nat /\ Len(o) \in Nat
  OBVIOUS
<1>2. Finished(s, o, n, Len(s), s)
  <2> DEFINE w == WithoutOld(s, o, n)
  <2>1. w = FirstPieces(Pieces(s, o, n), Len(s)) /\ w \in Seq(Chars)
    BY <1>1, PiecesAre DEF PiecesAdd
  <2>2. << >> \in Seq(Chars) /\ s = SubSeq(s, 1, Len(s)) \o << >> /\ w = w \o << >>
    BY <2>1
  <2> HIDE DEF w
  <2> QED BY <2>1, <2>2 DEF Finished, w
<1>3. Occurrences(s, o) = {}
  BY <1>1 DEF Occurrences
<1>4. NoneBegins(s, o, 1, Len(s))
  BY <1>3, ChosenIs DEF NoneBegins
<1> QED BY <1>1, <1>2, <1>4, LoopEnds

-----------------------------------------------------------------------------
(***************************************************************************)
(* split_by_whitespace: the array has the words up to the offset, which is *)
(* at the end or at the beginning of the next one.                         *)
(***************************************************************************)
AtWord(s, q) ==
  q < Len(s) => s[q + 1] \notin White /\ (q > 0 => s[q] \in White)
SplitUpTo(s, q, ps) ==
  \E w \in Seq(Spans(s)) :
    /\ ps = [i \in 1 .. Len(w) |-> SubSeq(s, w[i][1], w[i][2])]
    /\ \A i, j \in 1 .. Len(w) : i < j => w[i][1] < w[j][1]
    /\ \A p \in Spans(s) : p[1] <= q <=> \E i \in 1 .. Len(w) : w[i] = p

IsFirst(s, i, white, j) ==
  /\ j \in i .. Len(s)
  /\ j = Len(s) \/ (s[j + 1] \in White) = white
  /\ \A k \in i .. j - 1 : (s[k + 1] \in White) # white

LEMMA FirstAtIs ==
  ASSUME NEW s \in Seq(Chars), src = s, NEW i \in 0 .. Len(s), NEW white \in BOOLEAN
  PROVE  IsFirst(s, i, white, FirstAt(i, white))
<1> DEFINE S == {j \in i .. Len(s) : j = Len(s) \/ (s[j + 1] \in White) = white}
<1>1. S \subseteq Nat /\ Len(s) \in S /\ Len(s) \in Nat
  OBVIOUS
<1>2. PICK j \in S : \A l \in S : j <= l
  <2> HIDE DEF S
  <2> QED BY <1>1, Least
<1>3. \A k \in i .. j - 1 : (s[k + 1] \in White) # white
  <2> TAKE k \in i .. j - 1
  <2>1. k \in i .. Len(s) /\ ~(j <= k)
    BY <1>1, <1>2
  <2>2. k \notin S
    BY <1>2, <2>1
  <2> QED BY <2>1, <2>2
<1>4. \E l \in i .. Len(s) : IsFirst(s, i, white, l)
  BY <1>2, <1>3 DEF IsFirst
<1> HIDE DEF S
<1>5. FirstAt(i, white) = CHOOSE l \in i .. Len(s) : IsFirst(s, i, white, l)
  <2>1. \A l \in i .. Len(s) : IsFirst(s, i, white, l) <=>
          /\ l = Len(s) \/ (s[l + 1] \in White) = white
          /\ \A k \in i .. l - 1 : (s[k + 1] \in White) # white
    BY DEF IsFirst
  <2> QED BY <2>1 DEF FirstAt
<1> QED BY <1>4, <1>5

FirstNonWhite(s, i, j) ==
  /\ j \in i .. Len(s)
  /\ j = Len(s) \/ s[j + 1] \notin White
  /\ \A k \in i .. j - 1 : s[k + 1] \in White
FirstWhite(s, i, j) ==
  /\ j \in i .. Len(s)
  /\ j = Len(s) \/ s[j + 1] \in White
  /\ \A k \in i .. j - 1 : s[k + 1] \notin White
LEMMA Firsts ==
  ASSUME NEW s, NEW i, NEW j
  PROVE  /\ IsFirst(s, i, FALSE, j) => FirstNonWhite(s, i, j)
         /\ IsFirst(s, i, TRUE, j) => FirstWhite(s, i, j)
<1>1. ASSUME NEW x
      PROVE  /\ (x \in White) = TRUE => x \in White
             /\ (x \in White) = FALSE => x \notin White
             /\ (x \in White) # TRUE => x \notin White
             /\ (x \in White) # FALSE => x \in White
  <2> DEFINE P == x \in White
  <2>1. P \in BOOLEAN
    OBVIOUS
  <2> HIDE DEF P
  <2>2. (P = TRUE => P) /\ (P = FALSE => ~P) /\ (P # TRUE => ~P) /\ (P # FALSE => P)
    BY <2>1
  <2> QED BY <2>2, Zenon DEF P
<1>2. IsFirst(s, i, FALSE, j) => FirstNonWhite(s, i, j)
  BY <1>1, Zenon DEF IsFirst, FirstNonWhite
<1>3. IsFirst(s, i, TRUE, j) => FirstWhite(s, i, j)
  BY <1>1, Zenon DEF IsFirst, FirstWhite
<1> QED BY <1>2, <1>3

LEMMA SplitBegins ==
  ASSUME NEW s \in Seq(Chars), NEW q, FirstNonWhite(s, 0, q)
  PROVE  q \in 0 .. Len(s) /\ AtWord(s, q) /\ SplitUpTo(s, q, << >>)
<1>1. /\ q \in 0 .. Len(s) /\ Len(s) \in Nat
      /\ q < Len(s) => s[q + 1] \notin White
      /\ \A k \in 0 .. q - 1 : s[k + 1] \in White
  BY DEF FirstNonWhite
<1>2. \A k \in 1 .. q : s[k] \in White
  <2> TAKE k \in 1 .. q
  <2>1. k - 1 \in 0 .. q - 1 /\ k - 1 + 1 = k
    BY <1>1
  <2> QED BY <1>1, <2>1
<1>3. AtWord(s, q)
  BY <1>1, <1>2 DEF AtWord
<1>4. \A p \in Spans(s) : ~(p[1] <= q)
  <2>1. \A p \in Spans(s) : p[1] \in Nat /\ p[1] >= 1 /\ p[1] \in p[1] .. p[2] /\ s[p[1]] \notin White
    BY DEF Spans, Bare
  <2> QED BY <1>1, <1>2, <2>1
<1>5. SplitUpTo(s, q, << >>)
  <2> DEFINE w == << >>
  <2>1. w \in Seq(Spans(s)) /\ 1 .. Len(w) = {}
    OBVIOUS
  <2>2. << >> = [i \in {} |-> SubSeq(s, w[i][1], w[i][2])]
    OBVIOUS
  <2> HIDE DEF w
  <2>3. << >> = [i \in 1 .. Len(w) |-> SubSeq(s, w[i][1], w[i][2])]
    BY <2>1, <2>2
  <2> QED BY <1>4, <2>1, <2>3 DEF SplitUpTo
<1> QED BY <1>1, <1>3, <1>5

\* The next span begins at the offset and ends before the next white character.
LEMMA NextSpan ==
  ASSUME NEW s \in Seq(Chars), NEW q \in Nat, q < Len(s), AtWord(s, q), NEW e, FirstWhite(s, q + 1, e)
  PROVE  /\ e \in q + 1 .. Len(s) /\ << q + 1, e >> \in Spans(s)
         /\ e < Len(s) => s[e + 1] \in White
         /\ \A p \in Spans(s) : p[1] \in q + 1 .. e => p = << q + 1, e >>
<1>1. /\ e \in q + 1 .. Len(s) /\ Len(s) \in Nat
      /\ e < Len(s) => s[e + 1] \in White
      /\ \A k \in q + 1 .. e - 1 : s[k + 1] \notin White
      /\ s[q + 1] \notin White /\ (q > 0 => s[q] \in White)
  BY DEF FirstWhite, AtWord
<1>2. \A k \in q + 1 .. e : s[k] \notin White
  <2> TAKE k \in q + 1 .. e
  <2>1. CASE k = q + 1
    BY <1>1, <2>1
  <2>2. CASE k # q + 1
    <3>1. k - 1 \in q + 1 .. e - 1 /\ k - 1 + 1 = k
      BY <1>1, <2>2
    <3> QED BY <1>1, <3>1
  <2> QED BY <2>1, <2>2
<1>3. << q + 1, e >> \in Spans(s)
  <2>1. q + 1 \in 1 .. Len(s) /\ e \in 1 .. Len(s) /\ q + 1 <= e /\ Bare(s, q + 1, e)
    BY <1>1, <1>2 DEF Bare
  <2>2. q + 1 = 1 \/ ~Bare(s, q, e)
    <3>1. q # 0 => q \in q .. e /\ s[q] \in White
      BY <1>1
    <3> QED BY <3>1 DEF Bare
  <2>3. e = Len(s) \/ ~Bare(s, q + 1, e + 1)
    <3>1. e # Len(s) => e + 1 \in q + 1 .. e + 1 /\ s[e + 1] \in White
      BY <1>1
    <3> QED BY <3>1 DEF Bare
  <2>4. q + 1 - 1 = q
    OBVIOUS
  <2> QED BY <2>1, <2>2, <2>3, <2>4 DEF Spans
<1>4. ASSUME NEW p \in Spans(s), p[1] \in q + 1 .. e
      PROVE  p = << q + 1, e >>
  <2>1. /\ p = << p[1], p[2] >> /\ p[1] \in Nat /\ p[2] \in Nat /\ p[1] <= p[2] /\ p[2] <= Len(s)
        /\ \A k \in p[1] .. p[2] : s[k] \notin White
        /\ p[1] = 1 \/ \E k \in p[1] - 1 .. p[2] : s[k] \in White
        /\ p[2] = Len(s) \/ \E k \in p[1] .. p[2] + 1 : s[k] \in White
    BY DEF Spans, Bare
  <2> DEFINE a == p[1]
             b == p[2]
  <2>2. a = q + 1
    <3> SUFFICES ASSUME a # q + 1 PROVE FALSE
      OBVIOUS
    <3>1. a - 1 \in q + 1 .. e /\ a # 1
      BY <1>1, <1>4
    <3>2. PICK k \in a - 1 .. b : s[k] \in White
      BY <2>1, <3>1
    <3>3. k = a - 1 \/ k \in a .. b
      BY <2>1, <3>2
    <3> QED BY <1>2, <2>1, <3>1, <3>2, <3>3
  <2>3. b <= e
    <3> SUFFICES ASSUME b > e PROVE FALSE
      BY <1>1, <2>1
    <3>1. e + 1 \in a .. b /\ e < Len(s)
      BY <1>1, <1>4, <2>1
    <3> QED BY <1>1, <2>1, <3>1
  <2>4. b >= e
    <3> SUFFICES ASSUME b < e PROVE FALSE
      BY <1>1, <2>1
    <3>1. PICK k \in a .. b + 1 : s[k] \in White
      BY <1>1, <2>1
    <3>2. k \in q + 1 .. e
      BY <1>1, <2>1, <2>2, <3>1
    <3> QED BY <1>2, <3>1, <3>2
  <2> QED BY <1>1, <2>1, <2>2, <2>3, <2>4
<1> QED BY <1>1, <1>3, <1>4

\* After a word, and the white space after it, there is one span more.
LEMMA SplitContinues ==
  ASSUME NEW s \in Seq(Chars), NEW q \in Nat, q < Len(s), AtWord(s, q), NEW e,
         FirstWhite(s, q + 1, e), NEW ps, SplitUpTo(s, q, ps), NEW f \in e .. Len(s),
         \A k \in e + 1 .. f : s[k] \in White
  PROVE  SplitUpTo(s, f, Append(ps, SubSeq(s, q + 1, e)))
<1> DEFINE x == << q + 1, e >>
           a == SubSeq(s, q + 1, e)
<1>1. /\ e \in q + 1 .. Len(s) /\ x \in Spans(s) /\ Len(s) \in Nat
      /\ \A p \in Spans(s) : p[1] \in q + 1 .. e => p = x
  BY NextSpan
<1>2. x[1] = q + 1 /\ x[2] = e
  OBVIOUS
<1>3. a = SubSeq(s, x[1], x[2])
  BY <1>2
<1>4. \A p \in Spans(s) : p[1] \in Nat /\ p[1] >= 1 /\ s[p[1]] \notin White
  <2>1. \A p \in Spans(s) : p[1] \in Nat /\ p[1] >= 1 /\ p[1] \in p[1] .. p[2]
    BY DEF Spans
  <2> QED BY <2>1 DEF Spans, Bare
<1> HIDE DEF x, a
<1>5. PICK w \in Seq(Spans(s)) :
        /\ ps = [i \in 1 .. Len(w) |-> SubSeq(s, w[i][1], w[i][2])]
        /\ \A i, j \in 1 .. Len(w) : i < j => w[i][1] < w[j][1]
        /\ \A p \in Spans(s) : p[1] <= q <=> \E i \in 1 .. Len(w) : w[i] = p
  BY DEF SplitUpTo
<1> DEFINE v == Append(w, x)
           n == Len(w)
<1>6. /\ v \in Seq(Spans(s)) /\ Len(v) = n + 1 /\ n \in Nat
      /\ \A i \in 1 .. n : v[i] = w[i] /\ w[i] \in Spans(s)
      /\ v[n + 1] = x
  BY <1>1, <1>5
<1>7. \A i \in 1 .. n : w[i][1] <= q
  BY <1>5, <1>6
<1> HIDE DEF v, n
<1>8. Append(ps, a) = [i \in 1 .. Len(v) |-> SubSeq(s, v[i][1], v[i][2])]
  <2> DEFINE W(i) == SubSeq(s, w[i][1], w[i][2])
             V(i) == SubSeq(s, v[i][1], v[i][2])
  <2>1. \A i \in 1 .. n : V(i) = W(i)
    BY <1>6
  <2>2. V(n + 1) = a
    BY <1>3, <1>6
  <2>3. ps = [i \in 1 .. n |-> W(i)]
    BY <1>5 DEF n
  <2> HIDE DEF W, V
  <2>4. Append(ps, a) = [i \in 1 .. n + 1 |-> V(i)]
    BY <1>6, <2>1, <2>2, <2>3
  <2> QED BY <1>6, <2>4 DEF V
<1>9. ASSUME NEW i \in 1 .. Len(v), NEW j \in 1 .. Len(v), i < j
      PROVE  v[i][1] < v[j][1]
  <2>1. CASE j = n + 1
    <3>1. i \in 1 .. n /\ v[j] = x /\ v[i] = w[i]
      BY <1>6, <1>9, <2>1
    <3>2. v[i][1] <= q /\ v[i][1] \in Nat /\ v[j][1] = q + 1
      BY <1>2, <1>4, <1>6, <1>7, <3>1
    <3> QED BY <3>2
  <2>2. CASE j # n + 1
    <3>1. i \in 1 .. n /\ j \in 1 .. n
      BY <1>6, <1>9, <2>2
    <3> QED BY <1>5, <1>6, <1>9, <3>1 DEF n
  <2> QED BY <2>1, <2>2
<1>10. ASSUME NEW p \in Spans(s)
       PROVE  p[1] <= f <=> \E i \in 1 .. Len(v) : v[i] = p
  <2>1. ASSUME p[1] <= f PROVE \E i \in 1 .. Len(v) : v[i] = p
    <3>1. CASE p[1] <= q
      <4>1. PICK i \in 1 .. n : w[i] = p
        BY <1>5, <3>1 DEF n
      <4>2. i \in 1 .. Len(v) /\ v[i] = p
        BY <1>6, <4>1
      <4> QED BY <4>2
    <3>2. CASE ~(p[1] <= q)
      <4>1. p[1] \notin e + 1 .. f
        BY <1>4
      <4>2. p[1] \in q + 1 .. e
        BY <1>1, <1>4, <2>1, <3>2, <4>1
      <4>3. n + 1 \in 1 .. Len(v) /\ v[n + 1] = p
        BY <1>1, <1>6, <4>2
      <4> QED BY <4>3
    <3> QED BY <3>1, <3>2
  <2>2. ASSUME NEW i \in 1 .. Len(v), v[i] = p PROVE p[1] <= f
    <3>1. CASE i = n + 1
      BY <1>1, <1>2, <1>6, <2>2, <3>1
    <3>2. CASE i # n + 1
      <4>1. i \in 1 .. n /\ p = w[i]
        BY <1>6, <2>2, <3>2
      <4>2. p[1] <= q
        BY <1>7, <4>1
      <4> QED BY <1>1, <1>4, <4>2
    <3> QED BY <3>1, <3>2
  <2> QED BY <2>1, <2>2
<1> QED BY <1>6, <1>8, <1>9, <1>10 DEF SplitUpTo, a

LEMMA AfterSpace ==
  ASSUME NEW s \in Seq(Chars), NEW e \in Nat, e < Len(s), s[e + 1] \in White,
         NEW f, FirstNonWhite(s, e + 1, f)
  PROVE  /\ f \in e .. Len(s) /\ AtWord(s, f)
         /\ \A k \in e + 1 .. f : s[k] \in White
<1>1. /\ f \in e + 1 .. Len(s) /\ Len(s) \in Nat
      /\ f < Len(s) => s[f + 1] \notin White
      /\ \A k \in e + 1 .. f - 1 : s[k + 1] \in White
  BY DEF FirstNonWhite
<1>2. \A k \in e + 1 .. f : s[k] \in White
  <2> TAKE k \in e + 1 .. f
  <2>1. CASE k = e + 1
    BY <2>1
  <2>2. CASE k # e + 1
    <3>1. k - 1 \in e + 1 .. f - 1 /\ k - 1 + 1 = k
      BY <1>1, <2>2
    <3> QED BY <1>1, <3>1
  <2> QED BY <2>1, <2>2
<1>3. f \in e + 1 .. f
  BY <1>1
<1> QED BY <1>1, <1>2, <1>3 DEF AtWord

\* At the end there are all words.
LEMMA AllWords ==
  ASSUME NEW s \in Seq(Chars), NEW ps, SplitUpTo(s, Len(s), ps)
  PROVE  ps = Words(s)
<1>1. PICK w \in Seq(Spans(s)) :
        /\ ps = [i \in 1 .. Len(w) |-> SubSeq(s, w[i][1], w[i][2])]
        /\ \A i, j \in 1 .. Len(w) : i < j => w[i][1] < w[j][1]
        /\ \A p \in Spans(s) : p[1] <= Len(s) <=> \E i \in 1 .. Len(w) : w[i] = p
  BY DEF SplitUpTo
<1> DEFINE n == Len(w)
<1>2. n \in Nat /\ DOMAIN w = 1 .. n /\ \A i \in 1 .. n : w[i] \in Spans(s)
  BY <1>1
<1>3. \A p \in Spans(s) : p[1] \in Nat /\ p[1] <= Len(s)
  BY DEF Spans
<1>4. \A i, j \in 1 .. n : w[j][1] < w[i][1] <=> j < i
  BY <1>1, <1>2, <1>3
<1>5. IsInjective(w)
  BY <1>1, <1>2, <1>3 DEF IsInjective
<1>6. ToSet(w) = Spans(s)
  BY <1>1, <1>2, <1>3 DEF ToSet
<1>7. Cardinality(Spans(s)) = n
  BY <1>5, <1>6, InjectiveLength
<1>8. ASSUME NEW i \in 1 .. n
      PROVE  SpansBefore(s, w[i]) = i - 1
  <2> DEFINE v == SubSeq(w, 1, i - 1)
  <2>1. v \in Seq(Spans(s)) /\ Len(v) = i - 1 /\ \A j \in 1 .. i - 1 : v[j] = w[j]
    BY <1>1, <1>2
  <2> HIDE DEF v
  <2>2. DOMAIN v = 1 .. i - 1 /\ i - 1 \in Nat
    BY <1>2, <2>1
  <2>3. \A j \in 1 .. i - 1 : j \in 1 .. n /\ j < i
    BY <1>2
  <2>4. IsInjective(v)
    BY <1>2, <1>5, <2>1, <2>2, <2>3 DEF IsInjective
  <2>5. ToSet(v) = {q \in Spans(s) : q[1] < w[i][1]}
    <3>1. \A q \in ToSet(v) : q \in Spans(s) /\ q[1] < w[i][1]
      BY <1>2, <1>4, <2>1, <2>2, <2>3 DEF ToSet
    <3>2. ASSUME NEW q \in Spans(s), q[1] < w[i][1] PROVE q \in ToSet(v)
      <4>1. PICK j \in 1 .. n : w[j] = q
        BY <1>1, <1>3
      <4>2. j \in 1 .. i - 1
        BY <1>2, <1>4, <3>2, <4>1
      <4> QED BY <2>1, <2>2, <4>1, <4>2 DEF ToSet
    <3> QED BY <3>1, <3>2
  <2>6. Cardinality(ToSet(v)) = i - 1
    BY <2>1, <2>4, InjectiveLength
  <2> QED BY <2>5, <2>6 DEF SpansBefore
<1>9. ASSUME NEW i \in 1 .. n
      PROVE  (CHOOSE p \in Spans(s) : SpansBefore(s, p) = i - 1) = w[i]
  <2>1. \A p \in Spans(s) : SpansBefore(s, p) = i - 1 <=> p = w[i]
    <3> TAKE p \in Spans(s)
    <3>1. PICK j \in 1 .. n : w[j] = p
      BY <1>1, <1>3
    <3>2. SpansBefore(s, p) = j - 1 /\ SpansBefore(s, w[i]) = i - 1
      BY <1>8, <3>1
    <3> QED BY <1>2, <3>1, <3>2
  <2> QED BY <1>2, <2>1
<1>10. Words(s) = [i \in 1 .. n |->
         LET p == CHOOSE p \in Spans(s) : SpansBefore(s, p) = i - 1 IN SubSeq(s, p[1], p[2])]
  BY <1>7 DEF Words
<1> HIDE DEF n
<1>11. Words(s) = [i \in 1 .. n |-> SubSeq(s, w[i][1], w[i][2])]
  BY <1>9, <1>10
<1> QED BY <1>1, <1>11 DEF n

-----------------------------------------------------------------------------
(***************************************************************************)
(* What a method has done so far, by the method and where it is.           *)
(***************************************************************************)
Sliced == SubSeq(src, Max({1, call.start + 1}), Min({Len(src), call.end}))
ReplacingInv ==
  call.method = "replace" =>
    /\ state = "looping" => ReplaceLoop(src, old, new, offset, res)
    /\ state = "done" => res = IF old = << >> THEN src ELSE WithoutOld(src, old, new)
SlicingInv ==
  call.method = "slice" => state # "looping" /\ (state = "done" => res = Sliced)
SplittingInv ==
  call.method \notin {"replace", "slice"} =>
    /\ state = "called" => parts = << >>
    /\ state = "looping" => /\ offset \in 0 .. Len(src) /\ AtWord(src, offset)
                            /\ SplitUpTo(src, offset, parts)
    /\ state = "done" => parts = Words(src)
ExactInv == StringInv /\ ReplacingInv /\ SlicingInv /\ SplittingInv

LEMMA SliceIs ==
  ASSUME StringTypeOK, Slice
  PROVE  res' = Sliced
<1> DEFINE n == Len(src)
           a == call.start
           b == call.end
           i == IF a < 0 THEN 0 ELSE a
           j == IF b > n THEN n ELSE b
<1>1. n \in Nat /\ a \in Int /\ b \in Int /\ src \in Seq(Chars)
  BY DEF StringTypeOK
<1>2. res' = IF j < 0 \/ i >= j THEN << >> ELSE SubSeq(src, i + 1, j)
  BY DEF Slice
<1>3. Sliced = SubSeq(src, Max({1, a + 1}), Min({n, b}))
  BY DEF Sliced
<1> HIDE DEF n, a, b
<1>4. Max({1, a + 1}) = i + 1 /\ Min({n, b}) = j
  <2> DEFINE one == 1
             c == a + 1
  <2>1. one \in Int /\ c \in Int /\ n \in Int /\ one = 1 /\ c = a + 1
    BY <1>1
  <2> HIDE DEF one, c
  <2>2. Max({one, c}) = IF one >= c THEN one ELSE c
    BY <2>1, MinMax
  <2>3. Min({n, b}) = IF n <= b THEN n ELSE b
    BY <1>1, <2>1, MinMax
  <2> QED BY <1>1, <2>1, <2>2, <2>3
<1>5. i \in Nat /\ j \in Int
  BY <1>1
<1> HIDE DEF i, j
<1>6. CASE j < 0 \/ i >= j
  <2>1. i + 1 > j /\ i + 1 \in Int
    BY <1>5, <1>6
  <2>2. SubSeq(src, i + 1, j) = << >>
    BY <1>1, <1>5, <2>1
  <2> QED BY <1>2, <1>3, <1>4, <1>6, <2>2
<1>7. CASE ~(j < 0 \/ i >= j)
  BY <1>2, <1>3, <1>4, <1>7
<1> QED BY <1>6, <1>7

LEMMA ReplacingStep ==
  ASSUME StringInv, ReplacingInv, StringNext, call.method = "replace"
  PROVE  ReplacingInv'
<1>0. /\ src \in Seq(Chars) /\ old \in Seq(Chars) /\ new \in Seq(Chars)
      /\ Len(src) \in Nat /\ Len(old) \in Nat
      /\ state = "looping" => old # << >>
  BY DEF StringInv, StringTypeOK, ReplaceInv
<1>1. call' = call /\ src' = src /\ old' = old /\ new' = new
  BY DEF StringNext, ReplaceBegin, ReplaceSkip, ReplaceFound, Slice,
         SplitBegin, SplitWord, SplitEnd, src, old, new
<1>2. CASE ReplaceBegin
  <2>1. CASE old = << >>
    BY <1>1, <1>2, <2>1 DEF ReplaceBegin, ReplacingInv
  <2>2. CASE old # << >> /\ Len(src) < Len(old)
    <3>1. res' = src /\ state' = "done"
      BY <1>2, <2>2 DEF ReplaceBegin
    <3>2. src = WithoutOld(src, old, new)
      BY <1>0, <2>2, TooShort
    <3> QED BY <1>1, <2>2, <3>1, <3>2 DEF ReplacingInv
  <2>3. CASE old # << >> /\ ~(Len(src) < Len(old))
    <3>1. src # << >>
      BY <1>0, <2>3
    <3>2. res' = src /\ state' = "looping" /\ offset' = Len(src) - Len(old)
      BY <1>2, <2>3, <3>1 DEF ReplaceBegin
    <3>3. ReplaceLoop(src, old, new, Len(src) - Len(old), src)
      BY <1>0, <2>3, LoopBegins
    <3>4. ReplaceLoop(src, old, new, offset', res')
      BY <3>2, <3>3
    <3> QED BY <1>1, <3>2, <3>4 DEF ReplacingInv
  <2> QED BY <2>1, <2>2, <2>3
<1>3. CASE ReplaceSkip
  <2>1. old # << >> /\ ReplaceLoop(src, old, new, offset, res)
    BY <1>0, <1>3 DEF ReplaceSkip, ReplacingInv
  <2>2. SubSeq(src, offset + 1, offset + Len(old)) # old
    BY <1>3 DEF ReplaceSkip, FoundOld
  <2>3. /\ offset = 0 => res = WithoutOld(src, old, new)
        /\ offset > 0 => ReplaceLoop(src, old, new, offset - 1, res)
    BY <1>0, <2>1, <2>2, LoopSkips
  <2>4. offset \in Nat
    BY <2>1 DEF ReplaceLoop
  <2>5. CASE offset = 0
    <3>1. state' = "done" /\ res' = res
      BY <1>3, <2>5 DEF ReplaceSkip
    <3> QED BY <1>1, <2>1, <2>3, <2>5, <3>1 DEF ReplacingInv
  <2>6. CASE offset # 0
    <3>1. state' = "looping" /\ res' = res /\ offset' = offset - 1 /\ offset > 0
      BY <1>3, <2>4, <2>6 DEF ReplaceSkip
    <3>2. ReplaceLoop(src, old, new, offset', res')
      BY <2>3, <3>1
    <3> QED BY <1>1, <3>1, <3>2 DEF ReplacingInv
  <2> QED BY <2>5, <2>6
<1>4. CASE ReplaceFound
  <2>1. old # << >> /\ ReplaceLoop(src, old, new, offset, res)
    BY <1>0, <1>4 DEF ReplaceFound, ReplacingInv
  <2>2. SubSeq(src, offset + 1, offset + Len(old)) = old
    BY <1>4 DEF ReplaceFound, FoundOld
  <2>3. res' = SubSeq(res, 1, offset) \o new \o SubSeq(res, offset + Len(old) + 1, Len(res))
    BY <1>4 DEF ReplaceFound, Replaced
  <2>4. /\ offset < Len(old) => res' = WithoutOld(src, old, new)
        /\ ~(offset < Len(old)) => ReplaceLoop(src, old, new, offset - Len(old), res')
    BY <1>0, <2>1, <2>2, <2>3, LoopReplaces
  <2>5. CASE offset < Len(old)
    <3>1. state' = "done"
      BY <1>4, <2>5 DEF ReplaceFound
    <3> QED BY <1>1, <2>1, <2>4, <2>5, <3>1 DEF ReplacingInv
  <2>6. CASE ~(offset < Len(old))
    <3>1. state' = "looping" /\ offset' = offset - Len(old)
      BY <1>4, <2>6 DEF ReplaceFound
    <3>2. ReplaceLoop(src, old, new, offset', res')
      BY <2>4, <2>6, <3>1
    <3> QED BY <1>1, <3>1, <3>2 DEF ReplacingInv
  <2> QED BY <2>5, <2>6
<1> QED BY <1>2, <1>3, <1>4 DEF StringNext, Slice, SplitBegin, SplitWord, SplitEnd

LEMMA SplittingStep ==
  ASSUME StringInv, SplittingInv, StringNext, call.method \notin {"replace", "slice"}
  PROVE  SplittingInv'
<1>0. src \in Seq(Chars) /\ Len(src) \in Nat
  BY DEF StringInv, StringTypeOK
<1>1. call' = call /\ src' = src
  BY DEF StringNext, ReplaceBegin, ReplaceSkip, ReplaceFound, Slice,
         SplitBegin, SplitWord, SplitEnd, src
<1> DEFINE s == src
<1>2. s \in Seq(Chars) /\ src = s /\ Len(s) \in Nat
  BY <1>0
<1> HIDE DEF s
<1>3. CASE SplitBegin
  <2>1. offset' = FirstAt(0, FALSE) /\ state' = "looping" /\ parts' = << >>
    BY <1>3 DEF SplitBegin, SplittingInv
  <2>2. IsFirst(s, 0, FALSE, FirstAt(0, FALSE))
    <3>1. 0 \in 0 .. Len(s) /\ FALSE \in BOOLEAN
      BY <1>2
    <3> QED BY <1>2, <3>1, FirstAtIs
  <2>3. FirstNonWhite(s, 0, offset')
    BY <2>1, <2>2, Firsts
  <2>4. offset' \in 0 .. Len(s) /\ AtWord(s, offset') /\ SplitUpTo(s, offset', parts')
    BY <1>2, <2>1, <2>3, SplitBegins
  <2> QED BY <1>1, <1>2, <2>1, <2>4 DEF SplittingInv
<1>4. CASE SplitWord
  <2> DEFINE e == FirstAt(offset + 1, TRUE)
             f == FirstAt(e + 1, FALSE)
  <2>1. /\ offset \in 0 .. Len(s) /\ offset < Len(s) /\ AtWord(s, offset)
        /\ SplitUpTo(s, offset, parts)
    BY <1>2, <1>4 DEF SplitWord, SplittingInv
  <2>2. /\ parts' = Append(parts, SubSeq(s, offset + 1, e))
        /\ e = Len(s) => state' = "done"
        /\ e # Len(s) => offset' = f /\ state' = "looping"
    BY <1>2, <1>4 DEF SplitWord
  <2>3. IsFirst(s, offset + 1, TRUE, e)
    <3>1. offset + 1 \in 0 .. Len(s) /\ TRUE \in BOOLEAN
      BY <1>2, <2>1
    <3> QED BY <1>2, <3>1, FirstAtIs
  <2>4. FirstWhite(s, offset + 1, e)
    BY <2>3, Firsts
  <2> HIDE DEF e, f
  <2>5. e \in offset + 1 .. Len(s) /\ (e < Len(s) => s[e + 1] \in White)
    BY <1>2, <2>1, <2>4 DEF FirstWhite
  <2> DEFINE ps == Append(parts, SubSeq(s, offset + 1, e))
  <2>6. CASE e = Len(s)
    <3>1. e \in e .. Len(s) /\ \A k \in e + 1 .. e : s[k] \in White
      BY <1>2, <2>6
    <3>2. SplitUpTo(s, e, ps)
      BY <1>2, <2>1, <2>4, <3>1, SplitContinues
    <3> HIDE DEF ps
    <3>3. ps = Words(s)
      BY <1>2, <2>6, <3>2, AllWords
    <3> QED BY <1>1, <1>2, <2>2, <2>6, <3>3 DEF SplittingInv, ps
  <2>7. CASE e # Len(s)
    <3>1. e \in Nat /\ e < Len(s) /\ s[e + 1] \in White /\ e + 1 \in 0 .. Len(s)
      BY <1>2, <2>1, <2>5, <2>7
    <3>2. IsFirst(s, e + 1, FALSE, f)
      <4>1. FALSE \in BOOLEAN
        OBVIOUS
      <4> QED BY <1>2, <3>1, <4>1, FirstAtIs DEF f
    <3>3. FirstNonWhite(s, e + 1, f)
      BY <3>2, Firsts
    <3>4. /\ f \in e .. Len(s) /\ AtWord(s, f)
          /\ \A k \in e + 1 .. f : s[k] \in White
      BY <1>2, <3>1, <3>3, AfterSpace
    <3>5. SplitUpTo(s, f, ps)
      BY <1>2, <2>1, <2>4, <3>4, SplitContinues
    <3>6. f \in 0 .. Len(s)
      BY <1>2, <3>1, <3>4
    <3>7. offset' = f /\ state' = "looping" /\ parts' = ps
      BY <2>2, <2>7
    <3> HIDE DEF ps
    <3> QED BY <1>1, <1>2, <3>4, <3>5, <3>6, <3>7 DEF SplittingInv
  <2> QED BY <2>6, <2>7
<1>5. CASE SplitEnd
  <2>1. state' = "done" /\ parts' = parts /\ SplitUpTo(s, Len(s), parts)
    BY <1>2, <1>5 DEF SplitEnd, SplittingInv
  <2>2. parts = Words(s)
    BY <1>2, <2>1, AllWords
  <2> QED BY <1>1, <1>2, <2>1, <2>2 DEF SplittingInv
<1> QED BY <1>3, <1>4, <1>5 DEF StringNext, ReplaceBegin, ReplaceSkip, ReplaceFound, Slice

LEMMA ExactStep == ExactInv /\ [Next]_vars => ExactInv'
<1> SUFFICES ASSUME ExactInv, [Next]_vars PROVE ExactInv'
  OBVIOUS
<1>1. StringInv /\ StringInv' /\ ReplacingInv /\ SlicingInv /\ SplittingInv
  BY StringStep DEF ExactInv
<1>2. CASE UNCHANGED stringVars
  BY <1>1, <1>2 DEF stringVars, ExactInv, ReplacingInv, SlicingInv, SplittingInv, Sliced, src, old, new
<1>3. CASE StringNext
  <2>1. call' = call
    BY <1>3 DEF StringNext, ReplaceBegin, ReplaceSkip, ReplaceFound, Slice,
                SplitBegin, SplitWord, SplitEnd
  <2>2. ReplacingInv'
    <3>1. call.method # "replace" => ReplacingInv'
      BY <2>1 DEF ReplacingInv
    <3> QED BY <1>1, <1>3, <3>1, ReplacingStep
  <2>3. SplittingInv'
    <3>1. call.method \in {"replace", "slice"} => SplittingInv'
      BY <2>1 DEF SplittingInv
    <3> QED BY <1>1, <1>3, <3>1, SplittingStep
  <2>4. SlicingInv'
    <3>1. CASE call.method # "slice"
      BY <2>1, <3>1 DEF SlicingInv
    <3>2. CASE call.method = "slice"
      <4>1. Slice
        BY <1>3, <3>2 DEF StringNext, ReplaceBegin, ReplaceSkip, ReplaceFound,
                          SplitBegin, SplitWord, SplitEnd
      <4>2. res' = Sliced /\ state' = "done"
        BY <1>1, <4>1, SliceIs DEF StringInv, Slice
      <4>3. Sliced' = Sliced
        BY <2>1 DEF Sliced, src
      <4> QED BY <4>2, <4>3 DEF SlicingInv
    <3> QED BY <3>1, <3>2
  <2> QED BY <1>1, <2>2, <2>3, <2>4 DEF ExactInv
<1> QED BY <1>2, <1>3 DEF Next, Convert, vars

LEMMA ExactInitially == Init => ExactInv
<1> SUFFICES ASSUME Init PROVE ExactInv
  OBVIOUS
<1>1. StringInv
  BY StringInitially
<1>2. parts = << >> /\ state \in {"none", "called"}
  BY DEF Init, NoCall, StringInit
<1> QED BY <1>1, <1>2 DEF ExactInv, ReplacingInv, SlicingInv, SplittingInv

(***************************************************************************)
(* replace, slice and split_by_whitespace return what they should, for all *)
(* texts and all sets of white characters (unicode.c, 60 to 118; string.c, *)
(* 150 to 246).                                                            *)
(***************************************************************************)
THEOREM StringsAreExact == Spec => []StringsExact
<1>1. Spec => []ExactInv
  BY ExactInitially, ExactStep, PTL DEF Spec
<1>2. ExactInv => StringsExact
  BY DEF ExactInv, ReplacingInv, SlicingInv, SplittingInv, StringsExact, Sliced
<1> QED BY <1>1, <1>2, PTL

-----------------------------------------------------------------------------
(***************************************************************************)
(* utf8_decode.  What the table of well-formed sequences says of a first   *)
(* byte, and what the decoder says of it.                                  *)
(***************************************************************************)
Octet == 0 .. 255
Dead == << {} >>

LEMMA FirstBytes ==
  ASSUME NEW x \in Octet
  PROVE  /\ nbytes(x) = CASE x <= 127 -> 1 [] x \in 192 .. 223 -> 2 [] x \in 224 .. 239 -> 3
                          [] x \in 240 .. 247 -> 4 [] OTHER -> 0
         /\ IsContinuation(x) <=> x \in Later
BY DEF nbytes, IsContinuation, Later, Octet

\* The table, an arm for every interval.
LEMMA TableIs ==
  ASSUME NEW x \in Octet
  PROVE  /\ x \in 0 .. 127 => MayFollow(x) = << >>
         /\ x \in 194 .. 223 => MayFollow(x) = << Later >>
         /\ x = 224 => MayFollow(x) = << 160 .. 191, Later >>
         /\ x \in 225 .. 236 \/ x \in {238, 239} => MayFollow(x) = << Later, Later >>
         /\ x = 237 => MayFollow(x) = << 128 .. 159, Later >>
         /\ x = 240 => MayFollow(x) = << 144 .. 191, Later, Later >>
         /\ x \in 241 .. 243 => MayFollow(x) = << Later, Later, Later >>
         /\ x = 244 => MayFollow(x) = << 128 .. 143, Later, Later >>
         /\ x \in 128 .. 193 \/ x \in 245 .. 255 => MayFollow(x) = Dead
<1> DEFINE a == << >>
           b == << Later >>
           c == << 160 .. 191, Later >>
           d == << Later, Later >>
           e == << 128 .. 159, Later >>
           f == << 144 .. 191, Later, Later >>
           g == << Later, Later, Later >>
           h == << 128 .. 143, Later, Later >>
           k == << {} >>
<1>1. MayFollow(x) =
        CASE x \in 0 .. 127 -> a
          [] x \in 194 .. 223 -> b
          [] x = 224 -> c
          [] x \in (225 .. 236) \cup {238, 239} -> d
          [] x = 237 -> e
          [] x = 240 -> f
          [] x \in 241 .. 243 -> g
          [] x = 244 -> h
          [] OTHER -> k
  BY DEF MayFollow
<1> HIDE DEF a, b, c, d, e, f, g, h, k
<1>2. /\ x \in 0 .. 127 => MayFollow(x) = a
      /\ x \in 194 .. 223 => MayFollow(x) = b
      /\ x = 224 => MayFollow(x) = c
      /\ x \in 225 .. 236 \/ x \in {238, 239} => MayFollow(x) = d
      /\ x = 237 => MayFollow(x) = e
      /\ x = 240 => MayFollow(x) = f
      /\ x \in 241 .. 243 => MayFollow(x) = g
      /\ x = 244 => MayFollow(x) = h
      /\ x \in 128 .. 193 \/ x \in 245 .. 255 => MayFollow(x) = k
  BY <1>1 DEF Octet
<1> QED BY <1>2 DEF a, b, c, d, e, f, g, h, k, Dead

LEMMA MayFollowIs ==
  ASSUME NEW x \in Octet
  PROVE  /\ x <= 127 => MayFollow(x) = << >>
         /\ x \in 194 .. 223 => MayFollow(x) = << Later >>
         /\ x \in 224 .. 239 =>
              MayFollow(x) = << {y \in Later : (x = 224 => y >= 160) /\ (x = 237 => y <= 159)}, Later >>
         /\ x \in 240 .. 244 =>
              MayFollow(x) = << {y \in Later : (x = 240 => y >= 144) /\ (x = 244 => y <= 143)}, Later, Later >>
         /\ x \in 128 .. 193 \/ x \in 245 .. 255 => MayFollow(x) = Dead
<1>1. ASSUME x \in 224 .. 239
      PROVE  MayFollow(x) = << {y \in Later : (x = 224 => y >= 160) /\ (x = 237 => y <= 159)}, Later >>
  <2> DEFINE S == {y \in Later : (x = 224 => y >= 160) /\ (x = 237 => y <= 159)}
  <2>1. \/ x = 224 /\ S = 160 .. 191
        \/ x = 237 /\ S = 128 .. 159
        \/ (x \in 225 .. 236 \/ x \in {238, 239}) /\ S = Later
    BY <1>1 DEF Later
  <2> HIDE DEF S
  <2>2. MayFollow(x) = << S, Later >>
    <3>1. CASE x = 224 /\ S = 160 .. 191
      <4>1. MayFollow(x) = << 160 .. 191, Later >>
        BY <3>1, TableIs
      <4> QED BY <3>1, <4>1, Zenon
    <3>2. CASE x = 237 /\ S = 128 .. 159
      <4>1. MayFollow(x) = << 128 .. 159, Later >>
        BY <3>2, TableIs
      <4> QED BY <3>2, <4>1, Zenon
    <3>3. CASE (x \in 225 .. 236 \/ x \in {238, 239}) /\ S = Later
      <4>1. MayFollow(x) = << Later, Later >>
        BY <3>3, TableIs
      <4> QED BY <3>3, <4>1, Zenon
    <3> QED BY <2>1, <3>1, <3>2, <3>3
  <2> QED BY <2>2 DEF S
<1>2. ASSUME x \in 240 .. 244
      PROVE  MayFollow(x) = << {y \in Later : (x = 240 => y >= 144) /\ (x = 244 => y <= 143)}, Later, Later >>
  <2> DEFINE S == {y \in Later : (x = 240 => y >= 144) /\ (x = 244 => y <= 143)}
  <2>1. \/ x = 240 /\ S = 144 .. 191
        \/ x = 244 /\ S = 128 .. 143
        \/ x \in 241 .. 243 /\ S = Later
    BY <1>2 DEF Later
  <2> HIDE DEF S
  <2>2. MayFollow(x) = << S, Later, Later >>
    <3>1. CASE x = 240 /\ S = 144 .. 191
      <4>1. MayFollow(x) = << 144 .. 191, Later, Later >>
        BY <3>1, TableIs
      <4> QED BY <3>1, <4>1, Zenon
    <3>2. CASE x = 244 /\ S = 128 .. 143
      <4>1. MayFollow(x) = << 128 .. 143, Later, Later >>
        BY <3>2, TableIs
      <4> QED BY <3>2, <4>1, Zenon
    <3>3. CASE x \in 241 .. 243 /\ S = Later
      <4>1. MayFollow(x) = << Later, Later, Later >>
        BY <3>3, TableIs
      <4> QED BY <3>3, <4>1, Zenon
    <3> QED BY <2>1, <3>1, <3>2, <3>3
  <2> QED BY <2>2 DEF S
<1>3. x <= 127 => x \in 0 .. 127
  BY DEF Octet
<1> QED BY <1>1, <1>2, <1>3, TableIs

\* What a sequence of bytes expects next is computed from the left.
LEMMA AfterIs ==
  ASSUME NEW v \in Seq(SUBSET Octet), NEW x \in Octet
  PROVE  Following(v, x) \in Seq(SUBSET Octet)
<1> DEFINE W == SUBSET Octet
<1>1. {} \in W /\ Later \in W /\ \A S \in SUBSET Later : S \in W
  BY DEF Octet, Later
<1>2. v \in Seq(W)
  OBVIOUS
<1> HIDE DEF W
<1>3. \A S, T, U \in W : << S >> \in Seq(W) /\ << S, T >> \in Seq(W) /\ << S, T, U >> \in Seq(W)
  OBVIOUS
<1>4. << >> \in Seq(W)
  OBVIOUS
<1>5. MayFollow(x) \in Seq(W)
  <2>1. CASE x <= 127
    BY <1>4, <2>1, MayFollowIs
  <2>2. CASE x \in 194 .. 223
    <3>1. MayFollow(x) = << Later >>
      BY <2>2, MayFollowIs
    <3> QED BY <1>1, <1>3, <3>1
  <2>3. CASE x \in 224 .. 239
    <3> DEFINE S == {y \in Later : (x = 224 => y >= 160) /\ (x = 237 => y <= 159)}
    <3>1. MayFollow(x) = << S, Later >> /\ S \in SUBSET Later
      BY <2>3, MayFollowIs, Zenon
    <3> QED BY <1>1, <1>3, <3>1
  <2>4. CASE x \in 240 .. 244
    <3> DEFINE S == {y \in Later : (x = 240 => y >= 144) /\ (x = 244 => y <= 143)}
    <3>1. MayFollow(x) = << S, Later, Later >> /\ S \in SUBSET Later
      BY <2>4, MayFollowIs, Zenon
    <3> QED BY <1>1, <1>3, <3>1
  <2>5. CASE x \in 128 .. 193 \/ x \in 245 .. 255
    <3>1. MayFollow(x) = << {} >>
      BY <2>5, MayFollowIs DEF Dead
    <3> QED BY <1>1, <1>3, <3>1
  <2> QED BY <2>1, <2>2, <2>3, <2>4, <2>5 DEF Octet
<1>6. v # << >> => Tail(v) \in Seq(W)
  BY <1>2
<1>7. Following(v, x) \in Seq(W)
  BY <1>1, <1>3, <1>5, <1>6 DEF Following
<1> QED BY <1>7 DEF W

LEMMA ExpectedIs ==
  ASSUME NEW b \in Seq(Octet)
  PROVE  /\ Expected(b)[0] = << >>
         /\ \A i \in 1 .. Len(b) : Expected(b)[i] = Following(Expected(b)[i - 1], b[i])
<1> DEFINE n == Len(b)
           V == Seq(SUBSET Octet)
           base == << >>
           step == [i \in 1 .. n |-> [v \in V |-> Following(v, b[i])]]
           Rec(f) == f = [i \in 0 .. n |-> IF i = 0 THEN base ELSE Following(f[i - 1], b[i])]
           fl == CHOOSE f : Rec(f)
<1>1. n \in Nat /\ base \in V /\ \A i \in 1 .. n : b[i] \in Octet
  OBVIOUS
<1>2. /\ step \in [1 .. n -> [V -> V]]
      /\ \A i \in 1 .. n, v \in V : step[i][v] = Following(v, b[i])
  BY <1>1, AfterIs
<1>3. Expected(b) = fl
  BY DEF Expected
<1> HIDE DEF V, base, step, n, fl
<1>4. PICK g \in [0 .. n -> V] : Follows(g, n, base, step)
  BY <1>1, <1>2, Recursion
<1>5. \A i \in 1 .. n : i - 1 \in 0 .. n /\ g[i - 1] \in V /\ i # 0
  BY <1>1, <1>4
<1>6. \A i \in 0 .. n : g[i] = IF i = 0 THEN base ELSE Following(g[i - 1], b[i])
  <2>1. \A i \in 0 .. n : i = 0 \/ i \in 1 .. n
    BY <1>1
  <2> QED BY <1>2, <1>4, <1>5, <2>1 DEF Follows
<1>7. Rec(g)
  BY <1>4, <1>6
<1>8. Rec(fl)
  BY <1>7 DEF fl
<1>9. \A i \in 0 .. n : fl[i] = IF i = 0 THEN base ELSE Following(fl[i - 1], b[i])
  BY <1>8
<1>10. 0 \in 0 .. n /\ \A i \in 1 .. n : i \in 0 .. n /\ i # 0
  BY <1>1
<1> HIDE DEF Rec
<1> QED BY <1>3, <1>9, <1>10 DEF n, base

\* Nothing follows a byte that may not be where it is.
LEMMA StaysDead ==
  ASSUME NEW b \in Seq(Octet), NEW i \in 0 .. Len(b), Expected(b)[i] = Dead
  PROVE  ~WellFormed(b)
<1> DEFINE n == Len(b)
           S == {j \in 0 .. n - i : Expected(b)[i + j] = Dead}
<1>1. n \in Nat /\ n - i \in Nat
  OBVIOUS
<1>2. 0 \in S
  OBVIOUS
<1>3. ASSUME NEW j \in 0 .. (n - i) - 1, j \in S
      PROVE  j + 1 \in S
  <2>1. i + (j + 1) \in 1 .. n /\ (i + (j + 1)) - 1 = i + j /\ j + 1 \in 0 .. n - i
    BY <1>1
  <2>2. Expected(b)[i + (j + 1)] = Following(Dead, b[i + (j + 1)])
    BY <1>3, <2>1, ExpectedIs
  <2>3. Following(Dead, b[i + (j + 1)]) = Dead
    BY DEF Following, Dead
  <2> QED BY <2>1, <2>2, <2>3
<1> HIDE DEF S
<1>4. \A j \in 0 .. n - i : j \in S
  <2> DEFINE m == n - i
  <2>1. m \in Nat /\ 0 \in S /\ \A j \in 0 .. m - 1 : j \in S => j + 1 \in S
    BY <1>1, <1>2, <1>3
  <2> HIDE DEF m
  <2>2. \A j \in 0 .. m : j \in S
    BY <2>1, UpTo
  <2> QED BY <2>2 DEF m
<1>5. n - i \in 0 .. n - i /\ i + (n - i) = n
  BY <1>1
<1>6. Expected(b)[n] = Dead
  BY <1>4, <1>5 DEF S
<1> QED BY <1>6 DEF WellFormed, Dead

LEMMA HowMany ==
  ASSUME NEW c \in Nat
  PROVE  how_many_bytes(c) = IF c <= 127 THEN 1
                             ELSE IF c <= 2047 THEN 2
                             ELSE IF c <= 65535 THEN IF c \in 55296 .. 57343 THEN -1 ELSE 3
                             ELSE IF c <= 1114111 THEN 4 ELSE -1
BY DEF how_many_bytes

LEMMA CodePointIs ==
  ASSUME NEW b \in Seq(Octet)
  PROVE  /\ Len(b) = 1 => CodePoint(b) = b[1] % 128
         /\ Len(b) = 2 => CodePoint(b) = 64 * (b[1] % 32) + (b[2] % 64)
         /\ Len(b) = 3 => CodePoint(b) = 64 * (64 * (b[1] % 16) + (b[2] % 64)) + (b[3] % 64)
         /\ Len(b) = 4 => CodePoint(b) = 64 * (64 * (64 * (b[1] % 8) + (b[2] % 64)) + (b[3] % 64))
                                         + (b[4] % 64)
<1> DEFINE n == Len(b)
           one == b[1] % Unmarked[n]
           Rec(f) == f = [i \in 1 .. n |-> IF i = 1 THEN one ELSE 64 * f[i - 1] + (b[i] % 64)]
           two == 64 * one + (b[2] % 64)
           three == 64 * two + (b[3] % 64)
           four == 64 * three + (b[4] % 64)
           all(i) == IF i = 1 THEN one ELSE IF i = 2 THEN two ELSE IF i = 3 THEN three ELSE four
           fl == CHOOSE f : Rec(f)
<1>1. CodePoint(b) = fl[n]
  BY DEF CodePoint
<1>2. n \in Nat
  OBVIOUS
<1>3. /\ n = 1 => one = b[1] % 128
      /\ n = 2 => one = b[1] % 32
      /\ n = 3 => one = b[1] % 16
      /\ n = 4 => one = b[1] % 8
  <2>1. Unmarked[1] = 128 /\ Unmarked[2] = 32 /\ Unmarked[3] = 16 /\ Unmarked[4] = 8
    BY DEF Unmarked
  <2> HIDE DEF n
  <2> QED BY <2>1, Zenon
<1> HIDE DEF n, one, fl
<1>4. ASSUME n \in 1 .. 4
      PROVE  \A i \in 1 .. n : fl[i] = IF i = 1 THEN one ELSE 64 * fl[i - 1] + (b[i] % 64)
  <2> DEFINE g == [i \in 1 .. n |-> all(i)]
  <2>1. \A i \in 1 .. n : g[i] = all(i) /\ (i # 1 => i - 1 \in 1 .. n /\ i \in 2 .. 4)
    BY <1>4
  <2> HIDE DEF g
  <2>2. \A i \in 1 .. n : g[i] = IF i = 1 THEN one ELSE 64 * g[i - 1] + (b[i] % 64)
    <3> SUFFICES ASSUME NEW i \in 1 .. n, i # 1 PROVE g[i] = 64 * g[i - 1] + (b[i] % 64)
      BY <2>1
    <3>1. g[i] = all(i) /\ g[i - 1] = all(i - 1)
      BY <2>1
    <3>2. i = 2 \/ i = 3 \/ i = 4
      BY <2>1
    <3> QED BY <3>1, <3>2
  <2>3. Rec(g)
    BY <2>2 DEF g
  <2>4. Rec(fl)
    BY <2>3 DEF fl
  <2> QED BY <2>4
<1> HIDE DEF Rec
<1>5. /\ n = 1 => fl[n] = one
      /\ n = 2 => fl[n] = two
      /\ n = 3 => fl[n] = three
      /\ n = 4 => fl[n] = four
  <2>1. /\ n \in 1 .. 4 => fl[1] = one
        /\ n \in 2 .. 4 => fl[2] = 64 * fl[1] + (b[2] % 64)
        /\ n \in 3 .. 4 => fl[3] = 64 * fl[2] + (b[3] % 64)
        /\ n = 4 => fl[4] = 64 * fl[3] + (b[4] % 64)
    BY <1>4
  <2>2. /\ n = 1 => n \in 1 .. 4
        /\ n = 2 => n \in 1 .. 4 /\ n \in 2 .. 4
        /\ n = 3 => n \in 1 .. 4 /\ n \in 2 .. 4 /\ n \in 3 .. 4
        /\ n = 4 => n \in 1 .. 4 /\ n \in 2 .. 4 /\ n \in 3 .. 4
    OBVIOUS
  <2> QED BY <2>1, <2>2, Zenon
<1>6. /\ n = 1 => CodePoint(b) = b[1] % 128
      /\ n = 2 => CodePoint(b) = 64 * (b[1] % 32) + (b[2] % 64)
      /\ n = 3 => CodePoint(b) = 64 * (64 * (b[1] % 16) + (b[2] % 64)) + (b[3] % 64)
      /\ n = 4 => CodePoint(b) = 64 * (64 * (64 * (b[1] % 8) + (b[2] % 64)) + (b[3] % 64)) + (b[4] % 64)
  BY <1>1, <1>3, <1>5, Zenon
<1> QED BY <1>6 DEF n

LEMMA EncodedIs ==
  ASSUME NEW c \in Nat, NEW n \in 1 .. 4, how_many_bytes(c) = n
  PROVE  /\ EncodedOne(c) \in Seq(Int) /\ Len(EncodedOne(c)) = n
         /\ EncodedOne(c)[1] = Start[n] + c \div Weight[n]
         /\ \A i \in 2 .. n : EncodedOne(c)[i] = 128 + ((c \div Weight[n + 1 - i]) % 64)
<1> DEFINE a == << Start[n] + c \div Weight[n] >>
           f == [i \in 1 .. n - 1 |-> 128 + ((c \div Weight[n - i]) % 64)]
<1>1. EncodedOne(c) = a \o f
  BY DEF EncodedOne
<1>2. \A i \in 1 .. 4 : Weight[i] \in Nat \ {0} /\ Start[i] \in Nat
  BY DEF Weight, Start
<1>3. \A i \in 1 .. n - 1 : n - i \in 1 .. 4
  OBVIOUS
<1>4. \A w \in Nat \ {0} : c \div w \in Int /\ 128 + ((c \div w) % 64) \in Int
  OBVIOUS
<1>5. a \in Seq(Int) /\ Len(a) = 1
  BY <1>2, <1>4
<1>6. \A i \in 1 .. n - 1 : 128 + ((c \div Weight[n - i]) % 64) \in Int
  BY <1>2, <1>3, <1>4
<1>7. f \in Seq(Int) /\ Len(f) = n - 1
  <2> DEFINE m == n - 1
             h == [i \in 1 .. m |-> 128 + ((c \div Weight[n - i]) % 64)]
  <2>1. m \in Nat /\ h \in [1 .. m -> Int]
    BY <1>6
  <2> HIDE DEF m, h
  <2>2. h \in Seq(Int) /\ Len(h) = m
    BY <2>1
  <2> QED BY <2>2 DEF m, h
<1>8. \A i \in 2 .. n : i - 1 \in 1 .. n - 1 /\ f[i - 1] = 128 + ((c \div Weight[n - (i - 1)]) % 64)
                        /\ n - (i - 1) = n + 1 - i
  OBVIOUS
<1>9. a[1] = Start[n] + c \div Weight[n]
  OBVIOUS
<1> HIDE DEF a, f
<1>10. /\ a \o f \in Seq(Int) /\ Len(a \o f) = n /\ (a \o f)[1] = a[1]
       /\ \A i \in 2 .. n : (a \o f)[i] = f[i - 1]
  <2>1. /\ a \o f \in Seq(Int) /\ Len(a \o f) = Len(a) + Len(f)
        /\ \A i \in 1 .. Len(a) + Len(f) :
             (a \o f)[i] = IF i <= Len(a) THEN a[i] ELSE f[i - Len(a)]
    BY <1>5, <1>7, ConcatProperties
  <2>2. 1 + (n - 1) = n /\ \A i \in 2 .. n : i \in 1 .. n /\ ~(i <= 1)
    OBVIOUS
  <2> QED BY <1>5, <1>7, <2>1, <2>2
<1> QED BY <1>1, <1>8, <1>9, <1>10

LEMMA Encodes ==
  ASSUME NEW c \in Nat, NEW n \in 1 .. 4, NEW s \in Seq(Octet), Len(s) = n,
         how_many_bytes(c) = n,
         s[1] = Start[n] + c \div Weight[n],
         \A i \in 2 .. n : s[i] = 128 + ((c \div Weight[n + 1 - i]) % 64)
  PROVE  EncodedOne(c) = s
<1> DEFINE e == EncodedOne(c)
<1>0. /\ e \in Seq(Int) /\ Len(e) = n
      /\ e[1] = Start[n] + c \div Weight[n]
      /\ \A i \in 2 .. n : e[i] = 128 + ((c \div Weight[n + 1 - i]) % 64)
  BY EncodedIs
<1> HIDE DEF e
<1>1. e \in Seq(Int) /\ Len(e) = n /\ e[1] = s[1] /\ \A i \in 2 .. n : e[i] = s[i]
  BY <1>0, Zenon
<1>2. \A i \in 1 .. n : i = 1 \/ i \in 2 .. n
  OBVIOUS
<1>3. s \in Seq(Int)
  <2>1. \A i \in Octet : i \in Int
    BY DEF Octet
  <2>2. s \in [1 .. Len(s) -> Octet] /\ Len(s) \in Nat
    OBVIOUS
  <2>3. s \in [1 .. Len(s) -> Int]
    BY <2>1, <2>2
  <2> QED BY <2>2, <2>3
<1>4. \A i \in 1 .. n : e[i] = s[i]
  BY <1>1, <1>2, Zenon
<1>5. e = s
  BY <1>1, <1>3, <1>4, SeqEqual
<1> QED BY <1>5 DEF e

\* Of one to four bytes that claim to be one character: which of them are the
\* shortest form of a code point.
LEMMA OneSum ==
  ASSUME NEW x \in 0 .. 127
  PROVE  how_many_bytes(x) = 1 /\ x % 128 = x /\ Start[1] + x \div Weight[1] = x
BY HowMany DEF Start, Weight

\* The sums that the loop computes.
Sum2(x, y) == 64 * (x % 32) + (y % 64)
Sum3(x, y, z) == 64 * (64 * (x % 16) + (y % 64)) + (z % 64)
Sum4(x, y, z, w) == 64 * (64 * (64 * (x % 8) + (y % 64)) + (z % 64)) + (w % 64)

\* What the first two bytes of a character that has several must be.
Shortest(x, y) ==
  /\ x \in 194 .. 244
  /\ (x = 224 => y >= 160) /\ (x = 237 => y <= 159)
  /\ (x = 240 => y >= 144) /\ (x = 244 => y <= 143)

\* What c has to be for x and the bytes after it to be its encoding.
Is2(c, x, y) ==
  /\ c \in Nat
  /\ how_many_bytes(c) = 2 <=> Shortest(x, y)
  /\ Start[2] + c \div Weight[2] = x
  /\ 128 + ((c \div Weight[1]) % 64) = y
Is3(c, x, y, z) ==
  /\ c \in Nat
  /\ how_many_bytes(c) = 3 <=> Shortest(x, y)
  /\ Start[3] + c \div Weight[3] = x
  /\ 128 + ((c \div Weight[2]) % 64) = y
  /\ 128 + ((c \div Weight[1]) % 64) = z
Is4(c, x, y, z, w) ==
  /\ c \in Nat
  /\ how_many_bytes(c) = 4 <=> Shortest(x, y)
  /\ Start[4] + c \div Weight[4] = x
  /\ 128 + ((c \div Weight[3]) % 64) = y
  /\ 128 + ((c \div Weight[2]) % 64) = z
  /\ 128 + ((c \div Weight[1]) % 64) = w

LEMMA Digits64 ==
  ASSUME NEW q \in Nat, NEW r \in 0 .. 63
  PROVE  (64 * q + r) \div 64 = q /\ (64 * q + r) % 64 = r
OBVIOUS

LEMMA Shifts64 ==
  ASSUME NEW c \in Nat
  PROVE  c \div 1 = c /\ c \div 4096 = (c \div 64) \div 64 /\ c \div 262144 = (c \div 4096) \div 64
OBVIOUS

LEMMA TwoSum ==
  ASSUME NEW x \in 192 .. 223, NEW y \in Later
  PROVE  Is2(Sum2(x, y), x, y)
<1> DEFINE c == 64 * (x - 192) + (y - 128)
<1>1. x % 32 = x - 192 /\ y % 64 = y - 128
  BY DEF Later
<1>2. c \in Nat /\ c <= 2047 /\ (c <= 127 <=> x < 194)
  BY DEF Later
<1>3. /\ Start[2] + c \div Weight[2] = x
      /\ 128 + ((c \div Weight[1]) % 64) = y
  BY DEF Later, Start, Weight
<1> HIDE DEF c
<1>4. c \in Nat /\ (how_many_bytes(c) = 2 <=> x >= 194)
  BY <1>2, HowMany
<1>5. c \in Nat /\ (how_many_bytes(c) = 2 <=> Shortest(x, y))
  BY <1>4 DEF Shortest
<1>6. Sum2(x, y) = c
  BY <1>1, Zenon DEF Sum2, c
<1>7. Is2(c, x, y)
  BY <1>3, <1>5, Zenon DEF Is2
<1> QED BY <1>6, <1>7, Zenon

LEMMA ThreeSum ==
  ASSUME NEW x \in 224 .. 239, NEW y \in Later, NEW z \in Later
  PROVE  Is3(Sum3(x, y, z), x, y, z)
<1> DEFINE c == 64 * (64 * (x - 224) + (y - 128)) + (z - 128)
<1>1. x % 16 = x - 224 /\ y % 64 = y - 128 /\ z % 64 = z - 128
  BY DEF Later
<1>2. /\ c \in Nat /\ c <= 65535 /\ (c <= 2047 <=> x = 224 /\ y < 160)
      /\ c \in 55296 .. 57343 <=> x = 237 /\ y > 159
  BY DEF Later
<1>3. /\ Start[3] + c \div Weight[3] = x
      /\ 128 + ((c \div Weight[2]) % 64) = y
      /\ 128 + ((c \div Weight[1]) % 64) = z
  BY DEF Later, Start, Weight
<1> HIDE DEF c
<1>4. how_many_bytes(c) = 3 <=> (x = 224 => y >= 160) /\ (x = 237 => y <= 159)
  <2>1. how_many_bytes(c) = 3 <=> c > 2047 /\ c \notin 55296 .. 57343
    BY <1>2, HowMany
  <2>2. c > 2047 <=> ~(x = 224 /\ y < 160)
    BY <1>2
  <2> QED BY <1>2, <2>1, <2>2 DEF Later
<1>5. c \in Nat /\ (how_many_bytes(c) = 3 <=> Shortest(x, y))
  BY <1>2, <1>4 DEF Shortest
<1>6. Sum3(x, y, z) = c
  BY <1>1, Zenon DEF Sum3, c
<1>7. Is3(c, x, y, z)
  BY <1>3, <1>5, Zenon DEF Is3
<1> QED BY <1>6, <1>7, Zenon

LEMMA NeedsFour ==
  ASSUME NEW c \in Nat
  PROVE  how_many_bytes(c) = 4 <=> ~(c <= 65535) /\ c <= 1114111
BY DEF how_many_bytes

LEMMA FourSum ==
  ASSUME NEW x \in 240 .. 247, NEW y \in Later, NEW z \in Later, NEW w \in Later
  PROVE  Is4(Sum4(x, y, z, w), x, y, z, w)
<1> DEFINE c == 64 * (64 * (64 * (x - 240) + (y - 128)) + (z - 128)) + (w - 128)
<1>1. x % 8 = x - 240 /\ y % 64 = y - 128 /\ z % 64 = z - 128 /\ w % 64 = w - 128
  BY DEF Later
<1>2. /\ c \in Nat
      /\ c <= 65535 <=> x = 240 /\ ~(y >= 144)
      /\ c <= 1114111 <=> x <= 244 /\ (x = 244 => y <= 143)
  BY DEF Later
<1>3. /\ Start[4] + c \div Weight[4] = x
      /\ 128 + ((c \div Weight[3]) % 64) = y
      /\ 128 + ((c \div Weight[2]) % 64) = z
      /\ 128 + ((c \div Weight[1]) % 64) = w
  <2> DEFINE p == x - 240
             q == y - 128
             r == z - 128
             t == w - 128
             d == 64 * p + q
             e == 64 * d + r
  <2>1. p \in Nat /\ q \in 0 .. 63 /\ r \in 0 .. 63 /\ t \in 0 .. 63
    BY DEF Later
  <2>2. x = 240 + p /\ y = 128 + q /\ z = 128 + r /\ w = 128 + t
    BY DEF Later
  <2>3. c = 64 * e + t
    OBVIOUS
  <2> HIDE DEF c, p, q, r, t
  <2>4. d \in Nat /\ d \div 64 = p /\ d % 64 = q
    <3>1. d \in Nat
      BY <2>1
    <3> QED BY <2>1, <3>1, Digits64, Zenon
  <2> HIDE DEF d
  <2>5. e \in Nat /\ e \div 64 = d /\ e % 64 = r
    <3>1. e \in Nat
      BY <2>1, <2>4
    <3> QED BY <2>1, <2>4, <3>1, Digits64, Zenon
  <2> HIDE DEF e
  <2>6. c \in Nat /\ c \div 64 = e /\ c % 64 = t
    <3>1. c \in Nat
      BY <2>1, <2>3, <2>5
    <3> QED BY <2>1, <2>3, <2>5, <3>1, Digits64, Zenon
  <2>7. c \div 1 = c /\ c \div 4096 = d /\ c \div 262144 = p
    BY <2>4, <2>5, <2>6, Shifts64
  <2> QED BY <2>2, <2>4, <2>5, <2>6, <2>7 DEF Start, Weight
<1> HIDE DEF c
<1>4. how_many_bytes(c) = 4 <=> x <= 244 /\ (x = 240 => y >= 144) /\ (x = 244 => y <= 143)
  <2> DEFINE P == c <= 65535
             Q == c <= 1114111
             f == how_many_bytes(c) = 4
  <2>1. f <=> ~P /\ Q
    <3>1. c \in Nat
      BY <1>2
    <3> QED BY <3>1, NeedsFour
  <2>2. /\ P <=> x = 240 /\ ~(y >= 144)
        /\ Q <=> x <= 244 /\ (x = 244 => y <= 143)
    BY <1>2
  <2> HIDE DEF P, Q, f
  <2>3. f <=> x <= 244 /\ (x = 240 => y >= 144) /\ (x = 244 => y <= 143)
    BY <2>1, <2>2
  <2> QED BY <2>3 DEF f
<1>5. c \in Nat /\ (how_many_bytes(c) = 4 <=> Shortest(x, y))
  BY <1>2, <1>4 DEF Shortest
<1>6. Sum4(x, y, z, w) = c
  BY <1>1, Zenon DEF Sum4, c
<1>7. Is4(c, x, y, z, w)
  BY <1>3, <1>5, Zenon DEF Is4
<1> QED BY <1>6, <1>7, Zenon

\* What must come for a text to be well-formed, and what it leads to.
LEMMA OneMore ==
  ASSUME NEW b \in Seq(Octet), NEW i \in 0 .. Len(b), NEW T, Expected(b)[i] = << T >>
  PROVE  LET comes == i + 1 <= Len(b) /\ b[i + 1] \in T
         IN  /\ comes => Expected(b)[i + 1] = << >>
             /\ WellFormed(b) => comes
<1>1. Len(b) \in Nat
  OBVIOUS
<1>2. CASE i = Len(b)
  <2>1. << T >> # << >>
    OBVIOUS
  <2>2. ~WellFormed(b)
    BY <1>2, <2>1, Zenon DEF WellFormed
  <2>3. ~(i + 1 <= Len(b))
    BY <1>1, <1>2
  <2> QED BY <2>2, <2>3
<1>3. CASE i # Len(b)
  <2>1. i + 1 \in 1 .. Len(b) /\ (i + 1) - 1 = i /\ i + 1 \in 0 .. Len(b)
    BY <1>1, <1>3
  <2>2. Expected(b)[i + 1] = Following(<< T >>, b[i + 1])
    BY <2>1, ExpectedIs
  <2>3. Following(<< T >>, b[i + 1]) = IF b[i + 1] \in T THEN << >> ELSE Dead
    BY DEF Following, Dead
  <2> QED BY <2>1, <2>2, <2>3, StaysDead
<1> QED BY <1>2, <1>3

LEMMA TwoMore ==
  ASSUME NEW b \in Seq(Octet), NEW i \in 0 .. Len(b), NEW T, NEW U, Expected(b)[i] = << T, U >>
  PROVE  LET comes == i + 2 <= Len(b) /\ b[i + 1] \in T /\ b[i + 2] \in U
         IN  /\ comes => Expected(b)[i + 2] = << >>
             /\ WellFormed(b) => comes
<1>1. Len(b) \in Nat
  OBVIOUS
<1>2. CASE i = Len(b)
  <2>1. << T, U >> # << >>
    OBVIOUS
  <2>2. ~WellFormed(b)
    BY <1>2, <2>1, Zenon DEF WellFormed
  <2>3. ~(i + 2 <= Len(b))
    BY <1>1, <1>2
  <2> QED BY <2>2, <2>3
<1>3. CASE i # Len(b)
  <2>1. i + 1 \in 1 .. Len(b) /\ (i + 1) - 1 = i /\ i + 1 \in 0 .. Len(b) /\ (i + 1) + 1 = i + 2
    BY <1>1, <1>3
  <2>2. Expected(b)[i + 1] = Following(<< T, U >>, b[i + 1])
    BY <2>1, ExpectedIs
  <2>3. Following(<< T, U >>, b[i + 1]) = IF b[i + 1] \in T THEN << U >> ELSE Dead
    BY DEF Following, Dead
  <2>4. CASE b[i + 1] \in T
    <3>1. Expected(b)[i + 1] = << U >>
      BY <2>2, <2>3, <2>4
    <3> QED BY <2>1, <2>4, <3>1, OneMore
  <2>5. CASE b[i + 1] \notin T
    BY <2>1, <2>2, <2>3, <2>5, StaysDead
  <2> QED BY <2>4, <2>5
<1> QED BY <1>2, <1>3

LEMMA ThreeMore ==
  ASSUME NEW b \in Seq(Octet), NEW i \in 0 .. Len(b), NEW T, NEW U, NEW V,
         Expected(b)[i] = << T, U, V >>
  PROVE  LET comes == i + 3 <= Len(b) /\ b[i + 1] \in T /\ b[i + 2] \in U /\ b[i + 3] \in V
         IN  /\ comes => Expected(b)[i + 3] = << >>
             /\ WellFormed(b) => comes
<1>1. Len(b) \in Nat
  OBVIOUS
<1>2. CASE i = Len(b)
  <2>1. << T, U, V >> # << >>
    OBVIOUS
  <2>2. ~WellFormed(b)
    BY <1>2, <2>1, Zenon DEF WellFormed
  <2>3. ~(i + 3 <= Len(b))
    BY <1>1, <1>2
  <2> QED BY <2>2, <2>3
<1>3. CASE i # Len(b)
  <2>1. /\ i + 1 \in 1 .. Len(b) /\ (i + 1) - 1 = i /\ i + 1 \in 0 .. Len(b)
        /\ (i + 1) + 1 = i + 2 /\ (i + 1) + 2 = i + 3
    BY <1>1, <1>3
  <2>2. Expected(b)[i + 1] = Following(<< T, U, V >>, b[i + 1])
    BY <2>1, ExpectedIs
  <2>3. Following(<< T, U, V >>, b[i + 1]) = IF b[i + 1] \in T THEN << U, V >> ELSE Dead
    BY DEF Following, Dead
  <2>4. CASE b[i + 1] \in T
    <3>1. Expected(b)[i + 1] = << U, V >>
      BY <2>2, <2>3, <2>4
    <3> QED BY <2>1, <2>4, <3>1, TwoMore
  <2>5. CASE b[i + 1] \notin T
    BY <2>1, <2>2, <2>3, <2>5, StaysDead
  <2> QED BY <2>4, <2>5
<1> QED BY <1>2, <1>3

LEMMA NextBytes ==
  ASSUME NEW b \in Seq(Octet), NEW k \in Nat, NEW n \in Nat, k + n <= Len(b)
  PROVE  LET s == SubSeq(b, k + 1, k + n)
         IN  /\ s \in Seq(Octet) /\ Len(s) = n /\ \A i \in 1 .. n : s[i] = b[k + i]
             /\ SubSeq(b, 1, k) \o s = SubSeq(b, 1, k + n)
<1> DEFINE s == SubSeq(b, k + 1, k + n)
           a == SubSeq(b, 1, k)
           c == SubSeq(b, 1, k + n)
<1>1. Len(b) \in Nat /\ \A i \in 1 .. Len(b) : b[i] \in Octet
  OBVIOUS
<1>2. s \in Seq(Octet) /\ Len(s) = n /\ \A i \in 1 .. n : s[i] = b[k + i]
  BY <1>1
<1>3. a \in Seq(Octet) /\ Len(a) = k /\ \A i \in 1 .. k : a[i] = b[i]
  BY <1>1
<1>4. c \in Seq(Octet) /\ Len(c) = k + n /\ \A i \in 1 .. k + n : c[i] = b[i]
  BY <1>1
<1> HIDE DEF s, a, c
<1>5. /\ a \o s \in Seq(Octet) /\ Len(a \o s) = k + n
      /\ \A i \in 1 .. k + n : (a \o s)[i] = IF i <= k THEN a[i] ELSE s[i - k]
  BY <1>2, <1>3, ConcatProperties
<1>6. \A i \in 1 .. k + n : (i <= k => i \in 1 .. k)
                         /\ (~(i <= k) => i - k \in 1 .. n /\ k + (i - k) = i)
  OBVIOUS
<1>7. \A i \in 1 .. k + n : (a \o s)[i] = c[i]
  <2> SUFFICES ASSUME NEW i \in 1 .. k + n PROVE (a \o s)[i] = c[i]
    OBVIOUS
  <2>1. CASE i <= k
    BY <1>3, <1>4, <1>5, <1>6, <2>1
  <2>2. CASE ~(i <= k)
    <3>1. i - k \in 1 .. n /\ k + (i - k) = i
      BY <1>6, <2>2
    <3>2. s[i - k] = b[i]
      BY <1>2, <3>1
    <3> QED BY <1>4, <1>5, <2>2, <3>2
  <2> QED BY <2>1, <2>2
<1>8. a \o s = c
  BY <1>4, <1>5, <1>7, SeqEqual
<1> QED BY <1>2, <1>8 DEF s, a, c

(***************************************************************************)
(* A turn of the loop that finds n bytes for the next character either     *)
(* decodes what the table has and encoding gives back, or refuses a text   *)
(* that is not well-formed.                                                *)
(***************************************************************************)
TurnFits(b, k, n) ==
  LET bytes == SubSeq(b, k + 1, k + n)
      ok == /\ n > 0 /\ n <= Len(b) - k
            /\ \A i \in 2 .. n : IsContinuation(bytes[i])
            /\ how_many_bytes(CodePoint(bytes)) = n
  IN  IF ok
      THEN /\ Expected(b)[k + n] = << >>
           /\ CodePoint(bytes) \in Nat /\ EncodedOne(CodePoint(bytes)) = bytes
      ELSE ~WellFormed(b)

\* The bytes of one character, as the decoder takes them.
LEMMA OneChar ==
  ASSUME NEW s \in Seq(Octet), Len(s) = 1, NEW x \in 0 .. 127, s[1] = x
  PROVE  /\ CodePoint(s) \in Nat /\ how_many_bytes(CodePoint(s)) = 1
         /\ EncodedOne(CodePoint(s)) = s
<1>1. CodePoint(s) = x % 128
  BY CodePointIs
<1>2. /\ how_many_bytes(x) = 1 /\ x % 128 = x
      /\ Start[1] + x \div Weight[1] = x
  BY OneSum
<1>3. x \in Nat
  OBVIOUS
<1>4. 1 \in 1 .. 4 /\ (\A i \in 2 .. 1 : FALSE)
  OBVIOUS
<1>5. EncodedOne(x) = s
  BY <1>2, <1>3, <1>4, Encodes, Zenon
<1> QED BY <1>1, <1>2, <1>3, <1>5

LEMMA TwoChar ==
  ASSUME NEW s \in Seq(Octet), Len(s) = 2,
         NEW x \in 192 .. 223, NEW y \in Later, s[1] = x, s[2] = y
  PROVE  LET c == CodePoint(s)
         IN  /\ c \in Nat /\ (how_many_bytes(c) = 2 <=> Shortest(x, y))
             /\ how_many_bytes(c) = 2 => EncodedOne(c) = s
<1> DEFINE c == CodePoint(s)
           e == Sum2(x, y)
<1>1. c = e
  BY CodePointIs DEF Sum2
<1>2. Is2(e, x, y)
  BY TwoSum, Zenon
<1> HIDE DEF c, e
<1>3. /\ c \in Nat /\ (how_many_bytes(c) = 2 <=> Shortest(x, y))
      /\ x = Start[2] + c \div Weight[2]
      /\ y = 128 + ((c \div Weight[1]) % 64)
  BY <1>1, <1>2, Zenon DEF Is2
<1>4. ASSUME how_many_bytes(c) = 2 PROVE EncodedOne(c) = s
  <2>1. 2 \in 1 .. 4 /\ \A i \in 2 .. 2 : i = 2 /\ 2 + 1 - i = 1
    OBVIOUS
  <2>2. \A i \in 2 .. 2 : s[i] = 128 + ((c \div Weight[2 + 1 - i]) % 64)
    BY <1>3, <2>1, Zenon
  <2> QED BY <1>3, <1>4, <2>1, <2>2, Encodes, Zenon
<1> QED BY <1>3, <1>4 DEF c

LEMMA ThreeChar ==
  ASSUME NEW s \in Seq(Octet), Len(s) = 3,
         NEW x \in 224 .. 239, NEW y \in Later, NEW z \in Later,
         s[1] = x, s[2] = y, s[3] = z
  PROVE  LET c == CodePoint(s)
         IN  /\ c \in Nat
             /\ how_many_bytes(c) = 3 <=> Shortest(x, y)
             /\ how_many_bytes(c) = 3 => EncodedOne(c) = s
<1> DEFINE c == CodePoint(s)
           e == Sum3(x, y, z)
<1>1. c = e
  BY CodePointIs DEF Sum3
<1>2. Is3(e, x, y, z)
  BY ThreeSum, Zenon
<1> HIDE DEF c, e
<1>3. /\ c \in Nat
      /\ how_many_bytes(c) = 3 <=> Shortest(x, y)
      /\ x = Start[3] + c \div Weight[3]
      /\ y = 128 + ((c \div Weight[2]) % 64)
      /\ z = 128 + ((c \div Weight[1]) % 64)
  BY <1>1, <1>2, Zenon DEF Is3
<1>4. ASSUME how_many_bytes(c) = 3 PROVE EncodedOne(c) = s
  <2>1. 3 \in 1 .. 4 /\ \A i \in 2 .. 3 : (i = 2 /\ 3 + 1 - i = 2) \/ (i = 3 /\ 3 + 1 - i = 1)
    OBVIOUS
  <2>2. \A i \in 2 .. 3 : s[i] = 128 + ((c \div Weight[3 + 1 - i]) % 64)
    BY <1>3, <2>1, Zenon
  <2> QED BY <1>3, <1>4, <2>1, <2>2, Encodes, Zenon
<1> QED BY <1>3, <1>4 DEF c

LEMMA FourChar ==
  ASSUME NEW s \in Seq(Octet), Len(s) = 4,
         NEW x \in 240 .. 247, NEW y \in Later, NEW z \in Later, NEW w \in Later,
         s[1] = x, s[2] = y, s[3] = z, s[4] = w
  PROVE  LET c == CodePoint(s)
         IN  /\ c \in Nat
             /\ how_many_bytes(c) = 4 <=> Shortest(x, y)
             /\ how_many_bytes(c) = 4 => EncodedOne(c) = s
<1> DEFINE c == CodePoint(s)
           e == Sum4(x, y, z, w)
<1>1. c = e
  BY CodePointIs DEF Sum4
<1>2. Is4(e, x, y, z, w)
  BY FourSum, Zenon
<1> HIDE DEF c, e
<1>3. /\ c \in Nat
      /\ how_many_bytes(c) = 4 <=> Shortest(x, y)
      /\ x = Start[4] + c \div Weight[4]
      /\ y = 128 + ((c \div Weight[3]) % 64)
      /\ z = 128 + ((c \div Weight[2]) % 64)
      /\ w = 128 + ((c \div Weight[1]) % 64)
  BY <1>1, <1>2, Zenon DEF Is4
<1>4. ASSUME how_many_bytes(c) = 4 PROVE EncodedOne(c) = s
  <2>1. 4 \in 1 .. 4 /\ \A i \in 2 .. 4 :
          (i = 2 /\ 4 + 1 - i = 3) \/ (i = 3 /\ 4 + 1 - i = 2) \/ (i = 4 /\ 4 + 1 - i = 1)
    OBVIOUS
  <2>2. \A i \in 2 .. 4 : s[i] = 128 + ((c \div Weight[4 + 1 - i]) % 64)
    BY <1>3, <2>1, Zenon
  <2> QED BY <1>3, <1>4, <2>1, <2>2, Encodes, Zenon
<1> QED BY <1>3, <1>4 DEF c

\* What such a turn needs: that the bytes it looks at come, and are shortest.
LEMMA TurnFrom ==
  ASSUME NEW b \in Seq(Octet), NEW k \in Nat, NEW n \in 1 .. 4, NEW comes, NEW shortest,
         comes <=> k + n <= Len(b) /\ \A i \in 2 .. n : b[k + i] \in Later,
         comes /\ shortest => Expected(b)[k + n] = << >>,
         WellFormed(b) => comes /\ shortest,
         comes => LET s == SubSeq(b, k + 1, k + n)
                      c == CodePoint(s)
                  IN  c \in Nat /\ (how_many_bytes(c) = n <=> shortest)
                      /\ (how_many_bytes(c) = n => EncodedOne(c) = s)
  PROVE  TurnFits(b, k, n)
<1> DEFINE s == SubSeq(b, k + 1, k + n)
           c == CodePoint(s)
           ok == /\ n > 0 /\ n <= Len(b) - k
                 /\ \A i \in 2 .. n : IsContinuation(s[i])
                 /\ how_many_bytes(c) = n
<1>1. n > 0 /\ (n <= Len(b) - k <=> k + n <= Len(b)) /\ \A i \in 2 .. n : i \in 1 .. n
  OBVIOUS
<1>2. ASSUME k + n <= Len(b)
      PROVE  \A i \in 2 .. n : IsContinuation(s[i]) <=> b[k + i] \in Later
  <2>1. \A i \in 1 .. n : s[i] = b[k + i] /\ s[i] \in Octet
    BY <1>2, NextBytes
  <2> QED BY <1>1, <2>1, FirstBytes
<1>3. comes => /\ c \in Nat /\ (how_many_bytes(c) = n <=> shortest)
               /\ (how_many_bytes(c) = n => EncodedOne(c) = s)
  OBVIOUS
<1> HIDE DEF s, c
<1>4. ok <=> comes /\ shortest
  BY <1>1, <1>2, <1>3
<1>5. ok => Expected(b)[k + n] = << >> /\ c \in Nat /\ EncodedOne(c) = s
  BY <1>3, <1>4, Zenon
<1>6. ~ok => ~WellFormed(b)
  BY <1>4, Zenon
<1> HIDE DEF ok
<1>7. IF ok THEN Expected(b)[k + n] = << >> /\ c \in Nat /\ EncodedOne(c) = s ELSE ~WellFormed(b)
  BY <1>5, <1>6, Zenon
<1> QED BY <1>7 DEF TurnFits, ok, c, s

\* How many bytes a first byte stands for, and which of them the table has.
LEMMA Starts ==
  ASSUME NEW x \in 0 .. 255
  PROVE  \/ x \in 0 .. 127 /\ nbytes(x) = 1
         \/ x \in 192 .. 223 /\ nbytes(x) = 2
         \/ x \in 224 .. 239 /\ nbytes(x) = 3
         \/ x \in 240 .. 247 /\ nbytes(x) = 4
         \/ (x \in 128 .. 193 \/ x \in 245 .. 255) /\ nbytes(x) = 0
BY DEF nbytes

LEMMA StartsTwo ==
  ASSUME NEW x \in 194 .. 223, NEW y
  PROVE  Shortest(x, y)
BY DEF Shortest

LEMMA StartsFour ==
  ASSUME NEW x \in 240 .. 244, NEW y
  PROVE  y \in {a \in Later : (x = 240 => a >= 144) /\ (x = 244 => a <= 143)}
           <=> y \in Later /\ Shortest(x, y)
BY DEF Shortest, Later

LEMMA StartsNone ==
  ASSUME NEW x, NEW y, x \in 128 .. 193 \/ x \in 245 .. 255
  PROVE  ~Shortest(x, y)
BY DEF Shortest

\* The first byte x of a character, if the text expects nothing at k.
LEMMA FirstExpected ==
  ASSUME NEW b \in Seq(Octet), NEW k \in Nat, k < Len(b), Expected(b)[k] = << >>,
         NEW x \in Octet, x = b[k + 1]
  PROVE  /\ k + 1 \in 0 .. Len(b) /\ Expected(b)[k + 1] = MayFollow(x)
         /\ MayFollow(x) = Dead => ~WellFormed(b)
<1>1. k + 1 \in 1 .. Len(b) /\ (k + 1) - 1 = k /\ k + 1 \in 0 .. Len(b)
  OBVIOUS
<1>2. Expected(b)[k + 1] = Following(<< >>, b[k + 1])
  BY <1>1, ExpectedIs
<1>3. Expected(b)[k + 1] = MayFollow(b[k + 1])
  BY <1>2, Zenon DEF Following
<1> QED BY <1>1, <1>3, StaysDead

LEMMA OneTurn ==
  ASSUME NEW b \in Seq(Octet), NEW k \in Nat, k < Len(b), Expected(b)[k] = << >>,
         NEW x \in Octet, x = b[k + 1], x \in 0 .. 127
  PROVE  TurnFits(b, k, 1)
<1> DEFINE s == SubSeq(b, k + 1, k + 1)
<1>1. Expected(b)[k + 1] = MayFollow(x)
  BY FirstExpected
<1>2. k + 1 <= Len(b) /\ 1 \in 1 .. 4 /\ \A i \in 2 .. 1 : FALSE
  OBVIOUS
<1>3. s \in Seq(Octet) /\ Len(s) = 1 /\ s[1] = x
  <2>1. 1 \in Nat /\ 1 \in 1 .. 1
    OBVIOUS
  <2> QED BY <1>2, <2>1, NextBytes, Zenon
<1> HIDE DEF s
<1>4. MayFollow(x) = << >>
  BY TableIs, Zenon
<1>5. /\ CodePoint(s) \in Nat /\ how_many_bytes(CodePoint(s)) = 1
      /\ EncodedOne(CodePoint(s)) = s
  BY <1>3, OneChar, Zenon
<1>6. 1 > 0 /\ 1 <= Len(b) - k
  BY <1>2
<1> QED BY <1>1, <1>2, <1>4, <1>5, <1>6, Zenon DEF TurnFits, s

LEMMA TwoTurn ==
  ASSUME NEW b \in Seq(Octet), NEW k \in Nat, k < Len(b), Expected(b)[k] = << >>,
         NEW x \in Octet, x = b[k + 1], x \in 192 .. 223
  PROVE  TurnFits(b, k, 2)
<1> DEFINE y == b[k + 2]
           s == SubSeq(b, k + 1, k + 2)
           comes == k + 2 <= Len(b) /\ y \in Later
<1>1. /\ k + 1 \in 0 .. Len(b) /\ Expected(b)[k + 1] = MayFollow(x)
      /\ MayFollow(x) = Dead => ~WellFormed(b)
  BY FirstExpected
<1>2. (k + 1) + 1 = k + 2 /\ 2 \in 1 .. 4 /\ 2 \in Nat /\ 1 \in 1 .. 2 /\ 2 \in 1 .. 2
  OBVIOUS
<1>3. comes <=> k + 2 <= Len(b) /\ \A i \in 2 .. 2 : b[k + i] \in Later
  OBVIOUS
<1>4. comes => LET c == CodePoint(s)
               IN  c \in Nat /\ (how_many_bytes(c) = 2 <=> Shortest(x, y))
                   /\ (how_many_bytes(c) = 2 => EncodedOne(c) = s)
  <2> SUFFICES ASSUME comes PROVE LET c == CodePoint(s)
               IN  c \in Nat /\ (how_many_bytes(c) = 2 <=> Shortest(x, y))
                   /\ (how_many_bytes(c) = 2 => EncodedOne(c) = s)
    OBVIOUS
  <2>1. s \in Seq(Octet) /\ Len(s) = 2 /\ s[1] = x /\ s[2] = y
    BY <1>2, NextBytes, Zenon
  <2> HIDE DEF s, y
  <2> QED BY <2>1, TwoChar, Zenon DEF comes
<1>5. (comes /\ Shortest(x, y) => Expected(b)[k + 2] = << >>)
      /\ (WellFormed(b) => comes /\ Shortest(x, y))
  <2>1. CASE x \in 128 .. 193
    <3>1. MayFollow(x) = Dead /\ ~Shortest(x, y)
      BY <2>1, MayFollowIs, StartsNone, Zenon
    <3> QED BY <1>1, <3>1, Zenon
  <2>2. CASE x \in 194 .. 223
    <3>1. MayFollow(x) = << Later >>
      BY <2>2, MayFollowIs, Zenon
    <3> HIDE DEF y
    <3>2. (comes => Expected(b)[k + 2] = << >>) /\ (WellFormed(b) => comes)
      BY <1>1, <1>2, <3>1, OneMore DEF y
    <3>3. Shortest(x, y)
      BY <2>2, StartsTwo, Zenon
    <3> QED BY <3>2, <3>3, Zenon
  <2>3. x \in 128 .. 193 \/ x \in 194 .. 223
    OBVIOUS
  <2> QED BY <2>1, <2>2, <2>3
<1> HIDE DEF y, comes
<1> QED BY <1>2, <1>3, <1>4, <1>5, TurnFrom, Zenon DEF s

LEMMA ThreeTurn ==
  ASSUME NEW b \in Seq(Octet), NEW k \in Nat, k < Len(b), Expected(b)[k] = << >>,
         NEW x \in Octet, x = b[k + 1], x \in 224 .. 239
  PROVE  TurnFits(b, k, 3)
<1> DEFINE y == b[k + 2]
           z == b[k + 3]
           s == SubSeq(b, k + 1, k + 3)
           S == {a \in Later : (x = 224 => a >= 160) /\ (x = 237 => a <= 159)}
           comes == k + 3 <= Len(b) /\ y \in Later /\ z \in Later
<1>1. k + 1 \in 0 .. Len(b) /\ Expected(b)[k + 1] = MayFollow(x)
  BY FirstExpected
<1>2. /\ (k + 1) + 1 = k + 2 /\ (k + 1) + 2 = k + 3
      /\ 3 \in 1 .. 4 /\ 3 \in Nat /\ 1 \in 1 .. 3 /\ 2 \in 1 .. 3 /\ 3 \in 1 .. 3
  OBVIOUS
<1>3. comes <=> k + 3 <= Len(b) /\ \A i \in 2 .. 3 : b[k + i] \in Later
  <2>1. 2 \in 2 .. 3 /\ 3 \in 2 .. 3 /\ \A i \in 2 .. 3 : i = 2 \/ i = 3
    OBVIOUS
  <2> QED BY <2>1, Zenon
<1>4. comes => LET c == CodePoint(s)
               IN  c \in Nat /\ (how_many_bytes(c) = 3 <=> Shortest(x, y))
                   /\ (how_many_bytes(c) = 3 => EncodedOne(c) = s)
  <2> SUFFICES ASSUME comes PROVE LET c == CodePoint(s)
               IN  c \in Nat /\ (how_many_bytes(c) = 3 <=> Shortest(x, y))
                   /\ (how_many_bytes(c) = 3 => EncodedOne(c) = s)
    OBVIOUS
  <2>1. s \in Seq(Octet) /\ Len(s) = 3 /\ s[1] = x /\ s[2] = y /\ s[3] = z
    BY <1>2, NextBytes, Zenon
  <2> HIDE DEF s, y, z
  <2> QED BY <2>1, ThreeChar, Zenon DEF comes
<1>5. (comes /\ Shortest(x, y) => Expected(b)[k + 3] = << >>)
      /\ (WellFormed(b) => comes /\ Shortest(x, y))
  <2>1. MayFollow(x) = << S, Later >>
    BY MayFollowIs, Zenon
  <2>2. y \in S <=> y \in Later /\ Shortest(x, y)
    BY DEF Shortest, Later
  <2> HIDE DEF y, z, S
  <2>3. LET all == k + 3 <= Len(b) /\ y \in S /\ z \in Later
        IN  (all => Expected(b)[k + 3] = << >>) /\ (WellFormed(b) => all)
    BY <1>1, <1>2, <2>1, TwoMore DEF y, z
  <2> QED BY <2>2, <2>3, Zenon
<1> HIDE DEF y, z, comes
<1> QED BY <1>2, <1>3, <1>4, <1>5, TurnFrom, Zenon DEF s

LEMMA FourTurn ==
  ASSUME NEW b \in Seq(Octet), NEW k \in Nat, k < Len(b), Expected(b)[k] = << >>,
         NEW x \in Octet, x = b[k + 1], x \in 240 .. 247
  PROVE  TurnFits(b, k, 4)
<1> DEFINE y == b[k + 2]
           z == b[k + 3]
           w == b[k + 4]
           s == SubSeq(b, k + 1, k + 4)
           S == {a \in Later : (x = 240 => a >= 144) /\ (x = 244 => a <= 143)}
           comes == k + 4 <= Len(b) /\ y \in Later /\ z \in Later /\ w \in Later
<1>1. /\ k + 1 \in 0 .. Len(b) /\ Expected(b)[k + 1] = MayFollow(x)
      /\ MayFollow(x) = Dead => ~WellFormed(b)
  BY FirstExpected
<1>2. /\ (k + 1) + 1 = k + 2 /\ (k + 1) + 2 = k + 3 /\ (k + 1) + 3 = k + 4
      /\ 4 \in 1 .. 4 /\ 4 \in Nat /\ 1 \in 1 .. 4 /\ 2 \in 1 .. 4 /\ 3 \in 1 .. 4
  OBVIOUS
<1>3. comes <=> k + 4 <= Len(b) /\ \A i \in 2 .. 4 : b[k + i] \in Later
  <2>1. 2 \in 2 .. 4 /\ 3 \in 2 .. 4 /\ 4 \in 2 .. 4 /\ \A i \in 2 .. 4 : i = 2 \/ i = 3 \/ i = 4
    OBVIOUS
  <2> QED BY <2>1, Zenon
<1>4. comes => LET c == CodePoint(s)
               IN  c \in Nat /\ (how_many_bytes(c) = 4 <=> Shortest(x, y))
                   /\ (how_many_bytes(c) = 4 => EncodedOne(c) = s)
  <2> SUFFICES ASSUME comes PROVE LET c == CodePoint(s)
               IN  c \in Nat /\ (how_many_bytes(c) = 4 <=> Shortest(x, y))
                   /\ (how_many_bytes(c) = 4 => EncodedOne(c) = s)
    OBVIOUS
  <2>1. s \in Seq(Octet) /\ Len(s) = 4 /\ s[1] = x /\ s[2] = y /\ s[3] = z /\ s[4] = w
    BY <1>2, NextBytes, Zenon
  <2> HIDE DEF s, y, z, w
  <2> QED BY <2>1, FourChar, Zenon DEF comes
<1>5. (comes /\ Shortest(x, y) => Expected(b)[k + 4] = << >>)
      /\ (WellFormed(b) => comes /\ Shortest(x, y))
  <2> HIDE DEF y, S
  <2>1. CASE x \in 245 .. 255
    <3>1. MayFollow(x) = Dead
      BY <2>1, MayFollowIs, Zenon
    <3>2. ~WellFormed(b)
      BY <1>1, <3>1, Zenon
    <3>3. ~Shortest(x, y)
      BY <2>1, StartsNone, Zenon
    <3> QED BY <3>2, <3>3, Zenon
  <2>2. CASE x \in 240 .. 244
    <3>1. MayFollow(x) = << S, Later, Later >>
      BY <2>2, MayFollowIs, Zenon DEF S
    <3>2. y \in S <=> y \in Later /\ Shortest(x, y)
      BY <2>2, StartsFour, Zenon DEF S
    <3> HIDE DEF z, w
    <3>3. LET all == (k + 1) + 3 <= Len(b) /\ b[(k + 1) + 1] \in S /\ b[(k + 1) + 2] \in Later
                       /\ b[(k + 1) + 3] \in Later
          IN  (all => Expected(b)[(k + 1) + 3] = << >>) /\ (WellFormed(b) => all)
      BY <1>1, <3>1, ThreeMore, Zenon
    <3>4. LET all == k + 4 <= Len(b) /\ y \in S /\ z \in Later /\ w \in Later
          IN  (all => Expected(b)[k + 4] = << >>) /\ (WellFormed(b) => all)
      BY <1>2, <3>3, Zenon DEF y, z, w
    <3> QED BY <3>2, <3>4, Zenon
  <2>3. x \in 240 .. 244 \/ x \in 245 .. 255
    OBVIOUS
  <2> QED BY <2>1, <2>2, <2>3
<1> HIDE DEF y, z, w, comes
<1> QED BY <1>2, <1>3, <1>4, <1>5, TurnFrom, Zenon DEF s

LEMMA Turn ==
  ASSUME NEW b \in Seq(Octet), NEW k \in Nat, k < Len(b), Expected(b)[k] = << >>
  PROVE  nbytes(b[k + 1]) \in 0 .. 4 /\ TurnFits(b, k, nbytes(b[k + 1]))
<1> SUFFICES ASSUME NEW x \in Octet, x = b[k + 1]
             PROVE  nbytes(x) \in 0 .. 4 /\ TurnFits(b, k, nbytes(x))
  <2>1. b[k + 1] \in Octet
    OBVIOUS
  <2> QED BY <2>1
<1>1. \/ x \in 0 .. 127 /\ nbytes(x) = 1
      \/ x \in 192 .. 223 /\ nbytes(x) = 2
      \/ x \in 224 .. 239 /\ nbytes(x) = 3
      \/ x \in 240 .. 247 /\ nbytes(x) = 4
      \/ (x \in 128 .. 193 \/ x \in 245 .. 255) /\ nbytes(x) = 0
  BY Starts, Zenon DEF Octet
<1>2. \A i \in 0 .. 4 : i \in 0 .. 4
  OBVIOUS
<1>3. ASSUME (x \in 128 .. 193 \/ x \in 245 .. 255), nbytes(x) = 0
      PROVE  TurnFits(b, k, 0)
  <2>1. MayFollow(x) = Dead
    BY <1>3, MayFollowIs
  <2>2. ~WellFormed(b)
    BY <2>1, FirstExpected
  <2>3. ~(0 > 0)
    OBVIOUS
  <2> QED BY <2>2, <2>3, Zenon DEF TurnFits
<1>4. TurnFits(b, k, nbytes(x))
  BY <1>1, <1>3, OneTurn, TwoTurn, ThreeTurn, FourTurn
<1>5. nbytes(x) \in 0 .. 4
  BY <1>1
<1> QED BY <1>4, <1>5

(***************************************************************************)
(* Between two turns the code points so far encode to the bytes so far,    *)
(* and the table expects nothing: a character has just been completed.     *)
(***************************************************************************)
Encoded(u) == [i \in 1 .. Len(u) |-> EncodedOne(u[i])]
Utf8Inv ==
  /\ utf8 \in Seq(Octet) /\ at \in 0 .. Len(utf8)
  /\ unicode \in Seq(Nat) /\ \A i \in 1 .. Len(unicode) : how_many_bytes(unicode[i]) # -1
  /\ Encoded(unicode) \in Seq(Seq(Octet))
  /\ FlattenSeq(Encoded(unicode)) = SubSeq(utf8, 1, at)
  /\ Expected(utf8)[at] = << >>
  /\ outcome = "ok" => at = Len(utf8)
  /\ outcome = "error" => ~WellFormed(utf8)

LEMMA Utf8Initially == Init => Utf8Inv
<1> SUFFICES ASSUME Init PROVE Utf8Inv
  OBVIOUS
<1>1. << >> \in Seq(0 .. 255)
  OBVIOUS
<1>2. utf8 \in Seq(Octet) /\ at = 0 /\ unicode = << >> /\ outcome \in {"running", "none"}
  BY <1>1, Utf8Assumption DEF Init, DecodeInit, NoBytes, Octet
<1>3. Encoded(unicode) = << >> /\ Len(unicode) = 0
  BY <1>2 DEF Encoded
<1>4. FlattenSeq(<< >>) = << >> /\ SubSeq(utf8, 1, 0) = << >>
  BY <1>2 DEF FlattenSeq
<1>5. << >> \in Seq(Nat) /\ << >> \in Seq(Seq(Octet)) /\ 0 \in 0 .. Len(utf8)
        /\ \A i \in 1 .. 0 : FALSE
  BY <1>2
<1>6. Expected(utf8)[0] = << >>
  BY <1>2, ExpectedIs
<1> QED BY <1>2, <1>3, <1>4, <1>5, <1>6 DEF Utf8Inv

LEMMA EncodedAppend ==
  ASSUME NEW u \in Seq(Nat), NEW c \in Nat
  PROVE  Encoded(Append(u, c)) = Append(Encoded(u), EncodedOne(c))
<1> DEFINE n == Len(u)
           v == Append(u, c)
<1>1. n \in Nat /\ Len(v) = n + 1 /\ v[n + 1] = c /\ \A i \in 1 .. n : v[i] = u[i]
  OBVIOUS
<1> HIDE DEF v
<1> DEFINE f == [i \in 1 .. n |-> EncodedOne(u[i])]
           g == [i \in 1 .. n + 1 |-> EncodedOne(v[i])]
<1>2. g = Append(f, EncodedOne(c))
  <2> DEFINE T == {EncodedOne(u[i]) : i \in 1 .. n} \cup {EncodedOne(c)}
             e == EncodedOne(c)
  <2>1. \A i \in 1 .. n : f[i] \in T /\ f[i] = EncodedOne(u[i])
    OBVIOUS
  <2>2. \A i \in 1 .. n + 1 : g[i] = IF i <= n THEN f[i] ELSE e
    BY <1>1
  <2>3. f \in [1 .. n -> T] /\ e \in T
    OBVIOUS
  <2>4. g \in [1 .. n + 1 -> T]
    <3>1. \A i \in 1 .. n + 1 : i <= n => i \in 1 .. n
      BY <1>1
    <3>2. \A i \in 1 .. n + 1 : g[i] \in T
      BY <2>1, <2>2, <2>3, <3>1
    <3> HIDE DEF T
    <3> QED BY <3>2
  <2> HIDE DEF f, g, e, T, n
  <2>5. f \in Seq(T) /\ Len(f) = n
    BY <1>1, <2>3
  <2>6. g \in Seq(T) /\ Len(g) = n + 1
    BY <1>1, <2>4
  <2>7. /\ Append(f, e) \in Seq(T) /\ Len(Append(f, e)) = n + 1
        /\ \A i \in 1 .. n + 1 : Append(f, e)[i] = IF i <= n THEN f[i] ELSE e
    BY <1>1, <2>3, <2>5
  <2>8. g = Append(f, e)
    BY <2>2, <2>6, <2>7, SeqEqual
  <2> QED BY <2>8 DEF e
<1> QED BY <1>1, <1>2 DEF Encoded, v

LEMMA DecodeTurnKeeps ==
  ASSUME Utf8Inv, DecodeTurn
  PROVE  Utf8Inv'
<1> DEFINE n == nbytes(utf8[at + 1])
           s == SubSeq(utf8, at + 1, at + n)
           c == CodePoint(s)
           ok == /\ n > 0 /\ n <= Len(utf8) - at
                 /\ \A i \in 2 .. n : IsContinuation(s[i])
                 /\ how_many_bytes(c) = n
<1>1. /\ at \in Nat /\ at < Len(utf8) /\ utf8 \in Seq(Octet) /\ Len(utf8) \in Nat
      /\ Expected(utf8)[at] = << >> /\ outcome = "running"
  BY DEF Utf8Inv, DecodeTurn
<1>2. n \in 0 .. 4 /\ TurnFits(utf8, at, n)
  BY <1>1, Turn
<1>3. IF ok
      THEN unicode' = Append(unicode, c) /\ at' = at + n /\ UNCHANGED << utf8, outcome >>
      ELSE outcome' = "error" /\ UNCHANGED << utf8, at, unicode >>
  BY Zenon DEF DecodeTurn
<1>4. IF ok THEN Expected(utf8)[at + n] = << >> /\ c \in Nat /\ EncodedOne(c) = s
            ELSE ~WellFormed(utf8)
  BY <1>2, Zenon DEF TurnFits
<1>5. ok => n <= Len(utf8) - at /\ how_many_bytes(c) = n
  BY Zenon
<1> HIDE DEF ok
<1>6. CASE ok
  <2>1. n \in Nat /\ at + n <= Len(utf8) /\ n # -1
    <3> HIDE DEF n
    <3> QED BY <1>1, <1>2, <1>5, <1>6
  <2>2. s \in Seq(Octet) /\ SubSeq(utf8, 1, at) \o s = SubSeq(utf8, 1, at + n)
    BY <1>1, <2>1, NextBytes, Zenon
  <2> HIDE DEF n, s, c
  <2>3. c \in Nat /\ EncodedOne(c) = s /\ Expected(utf8)[at + n] = << >> /\ how_many_bytes(c) # -1
    BY <1>4, <1>5, <1>6, <2>1, Zenon
  <2>4. /\ unicode \in Seq(Nat) /\ \A i \in 1 .. Len(unicode) : how_many_bytes(unicode[i]) # -1
        /\ Encoded(unicode) \in Seq(Seq(Octet))
        /\ FlattenSeq(Encoded(unicode)) = SubSeq(utf8, 1, at)
    BY DEF Utf8Inv
  <2>5. unicode' = Append(unicode, c) /\ at' = at + n /\ utf8' = utf8 /\ outcome' = "running"
    BY <1>1, <1>3, <1>6
  <2>6. Encoded(unicode') = Append(Encoded(unicode), s)
    BY <2>3, <2>4, <2>5, EncodedAppend
  <2>7. /\ unicode' \in Seq(Nat)
        /\ \A i \in 1 .. Len(unicode') : how_many_bytes(unicode'[i]) # -1
    <3>1. Len(unicode') = Len(unicode) + 1 /\ unicode'[Len(unicode) + 1] = c
          /\ \A i \in 1 .. Len(unicode) : unicode'[i] = unicode[i]
      BY <2>3, <2>4, <2>5
    <3>2. \A i \in 1 .. Len(unicode) + 1 : i \in 1 .. Len(unicode) \/ i = Len(unicode) + 1
      BY <2>4
    <3>3. unicode' \in Seq(Nat)
      BY <2>3, <2>4, <2>5
    <3> QED BY <2>3, <2>4, <3>1, <3>2, <3>3, Zenon
  <2>8. Encoded(unicode') \in Seq(Seq(Octet))
    BY <2>2, <2>4, <2>6
  <2>9. FlattenSeq(Encoded(unicode')) = SubSeq(utf8', 1, at')
    <3>1. FlattenSeq(Append(Encoded(unicode), s)) = FlattenSeq(Encoded(unicode)) \o s
      BY <2>2, <2>4, FlattenAppend
    <3> QED BY <2>2, <2>4, <2>5, <2>6, <3>1, Zenon
  <2>10. at' \in 0 .. Len(utf8')
    BY <1>1, <2>1, <2>5
  <2> QED BY <1>1, <2>3, <2>5, <2>7, <2>8, <2>9, <2>10 DEF Utf8Inv
<1>7. CASE ~ok
  <2>1. outcome' = "error" /\ UNCHANGED << utf8, at, unicode >> /\ ~WellFormed(utf8)
    BY <1>3, <1>4, <1>7
  <2> QED BY <2>1 DEF Utf8Inv
<1> QED BY <1>6, <1>7

LEMMA Utf8Step == Utf8Inv /\ [Next]_vars => Utf8Inv'
<1> SUFFICES ASSUME Utf8Inv, [Next]_vars PROVE Utf8Inv'
  OBVIOUS
<1>1. CASE DecodeTurn
  BY <1>1, DecodeTurnKeeps
<1>2. CASE DecodeEnd
  <2>1. outcome' = "ok" /\ at = Len(utf8) /\ UNCHANGED << utf8, at, unicode >>
    BY <1>2 DEF DecodeEnd
  <2> QED BY <2>1 DEF Utf8Inv
<1>3. CASE UNCHANGED utf8Vars
  BY <1>3 DEF utf8Vars, Utf8Inv
<1> QED BY <1>1, <1>2, <1>3 DEF Next, Convert, vars

LEMMA Utf8InvDecodes == Utf8Inv => DecodedExactly
<1> SUFFICES ASSUME Utf8Inv PROVE DecodedExactly
  OBVIOUS
<1>1. utf8 \in Seq(Octet) /\ (outcome = "ok" => WellFormed(utf8))
  BY Zenon DEF Utf8Inv, WellFormed
<1>2. DOMAIN unicode = 1 .. Len(unicode)
  BY DEF Utf8Inv
<1>3. utf8_encode(unicode) = [ok |-> TRUE, bytes |-> FlattenSeq(Encoded(unicode))]
  BY <1>2, Zenon DEF Utf8Inv, utf8_encode, Encoded
<1> QED BY <1>1, <1>3, Zenon DEF Utf8Inv, DecodedExactly

(***************************************************************************)
(* utf8_decode accepts exactly the well-formed texts and decodes them to   *)
(* what encodes to them, for byte strings of every length: the shifts,     *)
(* masks and limits of utf8.c, 141 to 200, amount to the standard's table. *)
(***************************************************************************)
THEOREM DecodingIsExact == Spec => []DecodedExactly
<1>1. Spec => []Utf8Inv
  BY Utf8Initially, Utf8Step, PTL DEF Spec
<1> QED BY <1>1, Utf8InvDecodes, PTL

-----------------------------------------------------------------------------
(***************************************************************************)
(* Integers.  The digits, the powers of ten and arithmetic that wraps.     *)
(***************************************************************************)
Numeral == DOMAIN DigitOf
AreDigits(d) == \A i \in 1 .. Len(d) : d[i] \in Numeral

LEMMA DigitsAre ==
  /\ "0" \in Numeral /\ "-" \notin Numeral
  /\ \A c \in Numeral : DigitOf[c] \in 0 .. 9 /\ (c # "0" => DigitOf[c] # 0)
  /\ \A k \in 0 .. 9 : DigitChars[k + 1] \in Numeral /\ DigitOf[DigitChars[k + 1]] = k
  /\ DigitOf["0"] = 0 /\ DigitChars[1] = "0" /\ \A k \in 1 .. 9 : DigitChars[k + 1] # "0"
<1>1. /\ DigitChars[0 + 1] = "0" /\ DigitChars[1 + 1] = "1" /\ DigitChars[2 + 1] = "2"
      /\ DigitChars[3 + 1] = "3" /\ DigitChars[4 + 1] = "4" /\ DigitChars[5 + 1] = "5"
      /\ DigitChars[6 + 1] = "6" /\ DigitChars[7 + 1] = "7" /\ DigitChars[8 + 1] = "8"
      /\ DigitChars[9 + 1] = "9" /\ DigitChars[1] = "0"
  BY DEF DigitChars
<1>2. \A i, j \in 0 .. 9 : DigitChars[i + 1] = DigitChars[j + 1] => i = j
  <2>1. \A i \in 0 .. 9 : \/ i = 0 \/ i = 1 \/ i = 2 \/ i = 3 \/ i = 4
                          \/ i = 5 \/ i = 6 \/ i = 7 \/ i = 8 \/ i = 9
    OBVIOUS
  <2> QED BY <1>1, <2>1
<1>3. /\ Numeral = ToSet(DigitChars)
      /\ \A c \in Numeral : DigitOf[c] = CHOOSE d \in 0 .. 9 : DigitChars[d + 1] = c
  BY DEF Numeral, DigitOf
<1>4. ToSet(DigitChars) = {DigitChars[k + 1] : k \in 0 .. 9}
  <2>1. DOMAIN DigitChars = 1 .. 10
    BY DEF DigitChars
  <2>2. \A k \in 1 .. 10 : k - 1 \in 0 .. 9 /\ k - 1 + 1 = k
    OBVIOUS
  <2>3. \A k \in 0 .. 9 : k + 1 \in 1 .. 10
    OBVIOUS
  <2> QED BY <2>1, <2>2, <2>3 DEF ToSet
<1>5. \A k \in 0 .. 9 : DigitOf[DigitChars[k + 1]] = k
  <2> TAKE k \in 0 .. 9
  <2>1. DigitChars[k + 1] \in Numeral
    BY <1>3, <1>4
  <2>2. \A d \in 0 .. 9 : DigitChars[d + 1] = DigitChars[k + 1] <=> d = k
    BY <1>2
  <2>3. (CHOOSE d \in 0 .. 9 : DigitChars[d + 1] = DigitChars[k + 1]) = k
    BY <2>2
  <2> QED BY <1>3, <2>1, <2>3
<1>6. \A k \in 0 .. 9 : DigitChars[k + 1] # "-" /\ (k # 0 => DigitChars[k + 1] # "0")
  <2> DEFINE D == {"0", "1", "2", "3", "4", "5", "6", "7", "8", "9"}
  <2>1. \A i \in 0 .. 9 : \/ i = 0 \/ i = 1 \/ i = 2 \/ i = 3 \/ i = 4
                          \/ i = 5 \/ i = 6 \/ i = 7 \/ i = 8 \/ i = 9
    OBVIOUS
  <2>2. "-" \notin D
    OBVIOUS
  <2>3. \A k \in 0 .. 9 : DigitChars[k + 1] \in D
    BY <1>1, <2>1
  <2>4. \A k \in 0 .. 9 : k # 0 => DigitChars[k + 1] # "0"
    BY <1>1, <1>2
  <2> HIDE DEF D
  <2> QED BY <2>2, <2>3, <2>4
<1>7. \A c \in Numeral : \E k \in 0 .. 9 : c = DigitChars[k + 1] /\ DigitOf[c] = k
  BY <1>3, <1>4, <1>5
<1>8. "0" \in Numeral /\ DigitOf["0"] = 0
  <2>1. 0 \in 0 .. 9
    OBVIOUS
  <2> QED BY <1>1, <1>3, <1>4, <1>5, <2>1
<1>9. \A c \in Numeral : DigitOf[c] \in 0 .. 9 /\ (c # "0" => DigitOf[c] # 0)
  BY <1>1, <1>7
<1>10. "-" \notin Numeral
  BY <1>6, <1>7
<1>11. \A k \in 0 .. 9 : DigitChars[k + 1] \in Numeral
  BY <1>3, <1>4
<1> QED BY <1>1, <1>5, <1>6, <1>8, <1>9, <1>10, <1>11

LEMMA TenToIs ==
  /\ TenTo \in [0 .. MAXDIGITS -> Nat \ {0}]
  /\ TenTo[0] = 1 /\ \A i \in 1 .. MAXDIGITS : TenTo[i] = 10 * TenTo[i - 1]
<1> DEFINE n == MAXDIGITS
           P == Nat \ {0}
           step == [x \in P |-> 10 * x]
<1>1. n \in Nat /\ 1 \in P /\ step \in [P -> P]
  BY IntegerAssumption
<1>2. PICK g \in [0 .. n -> P] : Repeats(g, n, 1, step)
  <2> HIDE DEF step, P, n
  <2> QED BY <1>1, Repetition
<1>3. \A i \in 1 .. n : i - 1 \in 0 .. n /\ g[i - 1] \in P
  BY <1>1, <1>2
<1>4. g = [i \in 0 .. n |-> IF i = 0 THEN 1 ELSE 10 * g[i - 1]]
  <2>1. \A i \in 0 .. n : i = 0 \/ i \in 1 .. n
    OBVIOUS
  <2>2. \A i \in 1 .. n : step[g[i - 1]] = 10 * g[i - 1]
    BY <1>3
  <2> HIDE DEF step
  <2> QED BY <1>2, <2>1, <2>2 DEF Repeats
<1>5. TenTo = [i \in 0 .. n |-> IF i = 0 THEN 1 ELSE 10 * TenTo[i - 1]]
  <2>1. TenTo = CHOOSE f : f = [i \in 0 .. n |-> IF i = 0 THEN 1 ELSE 10 * f[i - 1]]
    BY DEF TenTo
  <2> QED BY <1>4, <2>1
<1> HIDE DEF n, step
<1>6. TenTo[0] = 1 /\ \A i \in 1 .. n : TenTo[i] = 10 * TenTo[i - 1]
  BY <1>1, <1>5
<1> DEFINE S == {i \in 0 .. n : TenTo[i] \in P}
<1>7. 0 \in S
  BY <1>1, <1>6
<1>8. ASSUME NEW i \in 0 .. n - 1, i \in S PROVE i + 1 \in S
  <2>1. i + 1 \in 1 .. n /\ i + 1 - 1 = i /\ i + 1 \in 0 .. n
    BY <1>1
  <2>2. TenTo[i + 1] = 10 * TenTo[i] /\ TenTo[i] \in P
    BY <1>6, <1>8, <2>1
  <2> QED BY <2>1, <2>2
<1> HIDE DEF S
<1>9. \A i \in 0 .. n : i \in S
  BY <1>1, <1>7, <1>8, UpTo
<1>10. \A i \in 0 .. n : TenTo[i] \in P
  BY <1>9 DEF S
<1> HIDE DEF P
<1>11. TenTo \in [0 .. n -> P]
  BY <1>5, <1>10
<1> QED BY <1>6, <1>11 DEF n, P

LEMMA TenToGrows ==
  ASSUME NEW j \in 0 .. MAXDIGITS, NEW i \in 0 .. j
  PROVE  TenTo[i] <= TenTo[j]
<1> DEFINE S == {k \in 0 .. j - i : TenTo[i] <= TenTo[i + k]}
<1>1. MAXDIGITS \in Nat /\ \A k \in 0 .. MAXDIGITS : TenTo[k] \in Nat
  BY IntegerAssumption, TenToIs
<1>2. 0 \in S
  BY <1>1
<1>3. ASSUME NEW k \in 0 .. j - i - 1, k \in S PROVE k + 1 \in S
  <2>1. /\ i + k + 1 \in 1 .. MAXDIGITS /\ i + k + 1 - 1 = i + k /\ i + k \in 0 .. MAXDIGITS
        /\ i \in 0 .. MAXDIGITS /\ i + (k + 1) = i + k + 1 /\ k + 1 \in 0 .. j - i
    BY <1>1
  <2>2. TenTo[i + k + 1] = 10 * TenTo[i + k] /\ TenTo[i] <= TenTo[i + k]
    BY <1>3, <2>1, TenToIs
  <2>3. TenTo[i] <= TenTo[i + k + 1]
    BY <1>1, <2>1, <2>2
  <2> QED BY <2>1, <2>3
<1> HIDE DEF S
<1>4. j - i \in Nat /\ i + (j - i) = j /\ j - i \in 0 .. j - i
  BY <1>1
<1>5. \A k \in 0 .. j - i : k \in S
  BY <1>2, <1>3, <1>4, UpTo
<1> QED BY <1>4, <1>5 DEF S

LEMMA WrapsNot ==
  ASSUME NEW x \in 0 .. MAX
  PROVE  Unsigned(x) = x /\ Unsigned(-1) = 2 * MAX + 1
<1> DEFINE m == 2 * (MAX + 1)
<1>1. m \in Nat /\ m > x /\ x \in Nat /\ m - 1 = 2 * MAX + 1 /\ m > 1
  BY IntegerAssumption
<1>2. Unsigned(x) = x % m /\ Unsigned(-1) = (-1) % m
  BY DEF Unsigned
<1> HIDE DEF m
<1>3. x % m = x
  BY <1>1
<1>4. (-1) % m = m - 1
  BY <1>1
<1> QED BY <1>1, <1>2, <1>3, <1>4

-----------------------------------------------------------------------------
(***************************************************************************)
(* g[i] is the number that the first i digits of d stand for.              *)
(***************************************************************************)
Sums(g, d) ==
  /\ g \in [0 .. Len(d) -> Nat]
  /\ g[0] = 0 /\ \A i \in 1 .. Len(d) : g[i] = 10 * g[i - 1] + DigitOf[d[i]]
SumsTo(g, d) == Sums(g, d) /\ NumberOf(d) = g[Len(d)]

LEMMA NumberOfIs ==
  ASSUME NEW T, NEW d \in Seq(T), AreDigits(d)
  PROVE  \E g : SumsTo(g, d)
<1> DEFINE n == Len(d)
           step == [i \in 1 .. n |-> [x \in Nat |-> 10 * x + DigitOf[d[i]]]]
           first == CHOOSE f : f = [i \in 0 .. n |-> IF i = 0 THEN 0 ELSE 10 * f[i - 1] + DigitOf[d[i]]]
<1>1. n \in Nat
  OBVIOUS
<1>2. \A i \in 1 .. n : DigitOf[d[i]] \in Nat
  BY DigitsAre DEF AreDigits
<1>3. step \in [1 .. n -> [Nat -> Nat]]
  BY <1>2
<1>4. NumberOf(d) = first[n]
  BY DEF NumberOf
<1>5. PICK g \in [0 .. n -> Nat] : Follows(g, n, 0, step)
  <2> HIDE DEF step, n
  <2>1. 0 \in Nat
    OBVIOUS
  <2> QED BY <1>1, <1>3, <2>1, Recursion
<1>6. \A i \in 1 .. n : i - 1 \in 0 .. n /\ g[i - 1] \in Nat
  <2>1. \A i \in 1 .. n : i - 1 \in 0 .. n
    BY <1>1
  <2> HIDE DEF n
  <2> QED BY <1>5, <2>1
<1>7. \A i \in 1 .. n : g[i] = 10 * g[i - 1] + DigitOf[d[i]]
  BY <1>5, <1>6 DEF Follows
<1>8. g[0] = 0
  BY <1>5 DEF Follows
<1> HIDE DEF n, step
<1>9. g = [i \in 0 .. n |-> IF i = 0 THEN 0 ELSE 10 * g[i - 1] + DigitOf[d[i]]]
  <2>1. \A i \in 0 .. n : i = 0 \/ i \in 1 .. n
    BY <1>1
  <2> QED BY <1>5, <1>7, <1>8, <2>1
<1>10. first = [i \in 0 .. n |-> IF i = 0 THEN 0 ELSE 10 * first[i - 1] + DigitOf[d[i]]]
  BY <1>9
<1> HIDE DEF first
<1>11. first[0] = 0 /\ \A i \in 1 .. n : i - 1 \in 0 .. n /\ first[i] = 10 * first[i - 1] + DigitOf[d[i]]
  BY <1>1, <1>10
<1> DEFINE S == {i \in 0 .. n : first[i] \in Nat}
<1>12. 0 \in S
  BY <1>1, <1>11
<1>13. ASSUME NEW i \in 0 .. n - 1, i \in S PROVE i + 1 \in S
  <2>1. i + 1 \in 1 .. n /\ i + 1 - 1 = i /\ i + 1 \in 0 .. n
    BY <1>1
  <2>2. first[i + 1] = 10 * first[i] + DigitOf[d[i + 1]] /\ first[i] \in Nat
    BY <1>11, <1>13, <2>1
  <2>3. DigitOf[d[i + 1]] \in Nat
    BY <1>2, <2>1 DEF n
  <2> QED BY <2>1, <2>2, <2>3
<1> HIDE DEF S
<1>14. \A i \in 0 .. n : i \in S
  BY <1>1, <1>12, <1>13, UpTo
<1>15. first \in [0 .. n -> Nat]
  BY <1>10, <1>14 DEF S
<1>16. SumsTo(first, d)
  BY <1>4, <1>11, <1>15 DEF SumsTo, Sums, n
<1> QED BY <1>16

\* Zeros at the beginning do not count, and there is one number that a text stands for.
ZerosThen(d, m, e) ==
  /\ m \in 0 .. Len(d) /\ \A i \in 1 .. m : d[i] = "0"
  /\ Len(e) = Len(d) - m /\ \A i \in 1 .. Len(e) : e[i] = d[m + i]
Agree(h, g, m, n) == \A i \in 0 .. n : h[i] = g[m + i]

LEMMA SameReading ==
  ASSUME NEW T, NEW d \in Seq(T), NEW e \in Seq(T), NEW m, ZerosThen(d, m, e),
         NEW g, Sums(g, d), NEW h, Sums(h, e)
  PROVE  Agree(h, g, m, Len(e))
<1> USE DEF ZerosThen
<1>1. m \in Nat /\ Len(d) \in Nat /\ Len(e) \in Nat /\ m + Len(e) = Len(d)
  OBVIOUS
<1> DEFINE Z == {i \in 0 .. m : g[i] = 0}
           S == {i \in 0 .. Len(e) : h[i] = g[m + i]}
<1>2. 0 \in Z
  BY <1>1 DEF Sums
<1>3. ASSUME NEW i \in 0 .. m - 1, i \in Z PROVE i + 1 \in Z
  <2>1. i + 1 \in 1 .. Len(d) /\ i + 1 \in 1 .. m /\ i + 1 - 1 = i
    BY <1>1
  <2>2. g[i + 1] = 10 * g[i] + DigitOf[d[i + 1]] /\ d[i + 1] = "0"
    BY <2>1 DEF Sums
  <2> QED BY <1>3, <2>1, <2>2, DigitsAre
<1> HIDE DEF Z
<1>4. m \in Z
  <2>1. \A i \in 0 .. m : i \in Z
    BY <1>1, <1>2, <1>3, UpTo
  <2> QED BY <1>1, <2>1
<1>5. 0 \in S
  BY <1>1, <1>4 DEF Sums, Z
<1>6. ASSUME NEW i \in 0 .. Len(e) - 1, i \in S PROVE i + 1 \in S
  <2>1. /\ i + 1 \in 1 .. Len(e) /\ i + 1 - 1 = i /\ i + 1 \in 0 .. Len(e)
        /\ m + i + 1 \in 1 .. Len(d) /\ m + i + 1 - 1 = m + i /\ m + (i + 1) = m + i + 1
    BY <1>1
  <2>2. h[i + 1] = 10 * h[i] + DigitOf[e[i + 1]] /\ e[i + 1] = d[m + i + 1]
    BY <2>1 DEF Sums
  <2>3. g[m + i + 1] = 10 * g[m + i] + DigitOf[d[m + i + 1]]
    BY <2>1 DEF Sums
  <2> QED BY <1>6, <2>1, <2>2, <2>3
<1> HIDE DEF S
<1>7. \A i \in 0 .. Len(e) : i \in S
  BY <1>1, <1>5, <1>6, UpTo
<1> QED BY <1>7 DEF S, Agree

\* What NumberOf gives, for a sequence that another one reads.
LEMMA NumberRead ==
  ASSUME NEW T, NEW d \in Seq(T), AreDigits(d), NEW g, Sums(g, d)
  PROVE  SumsTo(g, d)
<1>1. PICK h : SumsTo(h, d)
  BY NumberOfIs
<1>2. Len(d) \in Nat /\ 0 + Len(d) = Len(d) /\ Len(d) \in 0 .. Len(d)
  OBVIOUS
<1>3. ZerosThen(d, 0, d)
  BY DEF ZerosThen
<1>4. Sums(h, d) /\ NumberOf(d) = h[Len(d)]
  BY <1>1 DEF SumsTo
<1>5. Agree(h, g, 0, Len(d))
  BY <1>3, <1>4, SameReading
<1>6. h[Len(d)] = g[Len(d)]
  BY <1>2, <1>5 DEF Agree
<1> QED BY <1>4, <1>6 DEF SumsTo

LEMMA NumberOfAppend ==
  ASSUME NEW T, NEW d \in Seq(T), AreDigits(d), NEW c \in Numeral \cap T
  PROVE  AreDigits(Append(d, c)) /\ NumberOf(Append(d, c)) = 10 * NumberOf(d) + DigitOf[c]
<1> DEFINE e == Append(d, c)
           n == Len(d)
<1>1. /\ e \in Seq(T) /\ Len(e) = n + 1 /\ n \in Nat /\ e[n + 1] = c
      /\ \A i \in 1 .. n : e[i] = d[i]
  OBVIOUS
<1> HIDE DEF e
<1>2. AreDigits(e)
  <2>1. \A i \in 1 .. n + 1 : i \in 1 .. n \/ i = n + 1
    BY <1>1
  <2> QED BY <1>1, <2>1 DEF AreDigits
<1>3. PICK g : SumsTo(g, e)
  BY <1>1, <1>2, NumberOfIs
<1>4. g \in [0 .. n + 1 -> Nat] /\ Sums(g, e) /\ NumberOf(e) = g[n + 1]
  BY <1>1, <1>3 DEF SumsTo, Sums
<1> DEFINE h == [i \in 0 .. n |-> g[i]]
<1>5. h \in [0 .. n -> Nat] /\ \A i \in 0 .. n : h[i] = g[i]
  BY <1>1, <1>4
<1> HIDE DEF h
<1>6. Sums(h, d)
  <2>1. \A i \in 1 .. n : i \in 1 .. n + 1 /\ i \in 0 .. n /\ i - 1 \in 0 .. n
    BY <1>1
  <2> QED BY <1>1, <1>4, <1>5, <2>1 DEF Sums
<1> HIDE DEF n
<1>7. SumsTo(h, d)
  BY <1>5, <1>6, NumberRead DEF n
<1>8. NumberOf(d) = g[n]
  BY <1>1, <1>5, <1>7 DEF SumsTo, n
<1>9. g[n + 1] = 10 * g[n] + DigitOf[c]
  <2>1. n + 1 \in 1 .. n + 1 /\ n + 1 - 1 = n
    BY <1>1
  <2> QED BY <1>1, <1>4, <2>1 DEF Sums
<1> QED BY <1>2, <1>4, <1>8, <1>9 DEF e

-----------------------------------------------------------------------------
(***************************************************************************)
(* Without leading zeros: the same number, and its length says how large   *)
(* it is.                                                                  *)
(***************************************************************************)
FirstKept(u, k) ==
  /\ k \in 1 .. Len(u) /\ (u[k] # "0" \/ k = Len(u))
  /\ \A i \in 1 .. k - 1 : u[i] = "0"
  /\ ZerosRemoved(u) = SubSeq(u, k, Len(u))

LEMMA FirstKeptIs ==
  ASSUME NEW T, NEW u \in Seq(T), u # << >>
  PROVE  \E k : FirstKept(u, k)
<1> DEFINE kept == {i \in DOMAIN u : u[i] # "0" \/ i = Len(u)}
<1>1. DOMAIN u = 1 .. Len(u) /\ Len(u) \in Nat /\ Len(u) \in 1 .. Len(u)
  OBVIOUS
<1>2. kept \subseteq Nat /\ Len(u) \in kept
  BY <1>1
<1>3. ZerosRemoved(u) = SubSeq(u, Min(kept), Len(u))
  BY <1>2 DEF ZerosRemoved
<1>4. \E k \in kept : \A i \in kept : k <= i
  <2> HIDE DEF kept
  <2> QED BY <1>2, Least
<1> DEFINE k == Min(kept)
<1>5. k \in kept /\ \A i \in kept : k <= i
  <2> HIDE DEF kept
  <2> QED BY <1>4 DEF Min
<1>6. k \in 1 .. Len(u) /\ (u[k] # "0" \/ k = Len(u))
  <2> HIDE DEF k
  <2> QED BY <1>1, <1>5
<1>7. \A i \in 1 .. k - 1 : u[i] = "0"
  <2> HIDE DEF k
  <2> TAKE i \in 1 .. k - 1
  <2> DEFINE n == Len(u)
  <2>1. i \in 1 .. n /\ ~(k <= i)
    <3>1. n \in Nat /\ k \in 1 .. n
      BY <1>1, <1>6
    <3> HIDE DEF n
    <3> QED BY <3>1
  <2>2. i \notin kept
    BY <1>5, <2>1
  <2> QED BY <1>1, <2>1, <2>2
<1> HIDE DEF kept
<1>8. FirstKept(u, k)
  BY <1>3, <1>6, <1>7 DEF FirstKept
<1> QED BY <1>8

\* The number of u, without the zeros at its beginning.
Shortened(u, d, T) ==
  /\ d \in Seq(T) /\ (d = << >> <=> u = << >>)
  /\ Len(d) > 1 => d[1] # "0"
  /\ AreDigits(u) <=> AreDigits(d)
  /\ AreDigits(u) => NumberOf(u) = NumberOf(d)

LEMMA ZerosRemovedIs ==
  ASSUME NEW T, NEW u \in Seq(T)
  PROVE  Shortened(u, ZerosRemoved(u), T)
<1> DEFINE d == ZerosRemoved(u)
<1>1. CASE u = << >>
  <2>1. d = << >>
    BY <1>1 DEF ZerosRemoved
  <2> HIDE DEF d
  <2>2. d \in Seq(T) /\ ~(Len(d) > 1) /\ d = u
    BY <1>1, <2>1
  <2> QED BY <1>1, <2>1, <2>2 DEF Shortened, d
<1>2. CASE u # << >>
  <2>1. PICK k : FirstKept(u, k)
    BY <1>2, FirstKeptIs
  <2> DEFINE m == k - 1
             n == Len(u)
  <2>2. k \in 1 .. n /\ n \in Nat /\ m \in 0 .. n /\ k = m + 1
    BY <2>1 DEF FirstKept
  <2>7. d = SubSeq(u, k, n) /\ (u[k] # "0" \/ k = n) /\ \A i \in 1 .. m : u[i] = "0"
    BY <2>1 DEF FirstKept
  <2> HIDE DEF d, m
  <2>3. d \in Seq(T) /\ Len(d) = n - m /\ \A i \in 1 .. n - m : d[i] = u[m + i]
    <3>1. Len(d) = n - k + 1 /\ d \in Seq(T) /\ \A i \in 1 .. n - k + 1 : d[i] = u[k + i - 1]
      BY <2>2, <2>7
    <3>2. n - k + 1 = n - m /\ \A i \in 1 .. n - m : k + i - 1 = m + i
      BY <2>2
    <3> QED BY <3>1, <3>2
  <2>4. d # << >> /\ (Len(d) > 1 => d[1] # "0")
    <3>1. 1 \in 1 .. n - m /\ m + 1 = k
      BY <2>2
    <3>2. d[1] = u[k]
      BY <2>3, <3>1
    <3> DEFINE l == Len(d)
    <3>3. d # << >>
      BY <2>3, <3>1
    <3>4. l > 1 => k # n
      <4>1. l = n - m
        BY <2>3
      <4> HIDE DEF l
      <4> QED BY <2>2, <4>1
    <3> HIDE DEF l
    <3>5. l > 1 => d[1] # "0"
      BY <2>7, <3>2, <3>4
    <3> QED BY <3>3, <3>5 DEF l
  <2>5. AreDigits(u) <=> AreDigits(d)
    <3>1. \A i \in 1 .. m : u[i] \in Numeral
      BY <2>7, DigitsAre
    <3>2. \A i \in 1 .. n : i \in 1 .. m \/ (i - m \in 1 .. n - m /\ m + (i - m) = i)
      BY <2>2
    <3>3. \A i \in 1 .. n - m : m + i \in 1 .. n
      BY <2>2
    <3>4. AreDigits(u) => AreDigits(d)
      BY <2>3, <3>3 DEF AreDigits
    <3>5. AreDigits(d) => AreDigits(u)
      <4> SUFFICES ASSUME AreDigits(d), NEW i \in 1 .. n PROVE u[i] \in Numeral
        BY DEF AreDigits
      <4>1. CASE i \in 1 .. m
        BY <3>1, <4>1
      <4>2. CASE i - m \in 1 .. n - m /\ m + (i - m) = i
        <5>1. d[i - m] = u[m + (i - m)] /\ d[i - m] \in Numeral
          BY <2>3, <4>2 DEF AreDigits
        <5> QED BY <4>2, <5>1
      <4> QED BY <3>2, <4>1, <4>2
    <3> QED BY <3>4, <3>5
  <2>6. ASSUME AreDigits(u) PROVE NumberOf(u) = NumberOf(d)
    <3>1. PICK g : SumsTo(g, u)
      BY <2>6, NumberOfIs
    <3>2. PICK h : SumsTo(h, d)
      BY <2>3, <2>5, <2>6, NumberOfIs
    <3>3. /\ Sums(g, u) /\ NumberOf(u) = g[n]
          /\ Sums(h, d) /\ NumberOf(d) = h[Len(d)]
      BY <3>1, <3>2 DEF SumsTo
    <3> DEFINE l == Len(d)
    <3>6. ZerosThen(u, m, d)
      BY <2>2, <2>3, <2>7 DEF ZerosThen
    <3>4. Agree(h, g, m, l)
      BY <2>3, <3>3, <3>6, SameReading
    <3>5. l \in 0 .. l /\ m + l = n
      <4>1. l = n - m
        BY <2>3
      <4> HIDE DEF l, n
      <4> QED BY <2>2, <4>1
    <3> QED BY <3>3, <3>4, <3>5 DEF Agree
  <2> QED BY <1>2, <2>3, <2>4, <2>5, <2>6 DEF Shortened, d
<1> QED BY <1>1, <1>2

LEMMA ZerosKept ==
  ASSUME NEW T, NEW u \in Seq(T), u # << >>, u[1] # "0" \/ Len(u) = 1
  PROVE  ZerosRemoved(u) = u
<1>1. PICK k : FirstKept(u, k)
  BY FirstKeptIs
<1>2. k = 1
  <2>1. k \in 1 .. Len(u) /\ Len(u) \in Nat /\ \A i \in 1 .. k - 1 : u[i] = "0"
    BY <1>1 DEF FirstKept
  <2>2. CASE Len(u) = 1
    BY <2>1, <2>2
  <2>3. CASE u[1] # "0"
    <3>1. 1 \notin 1 .. k - 1
      BY <2>1, <2>3
    <3> QED BY <2>1, <3>1
  <2> QED BY <2>2, <2>3
<1>3. ZerosRemoved(u) = SubSeq(u, 1, Len(u))
  BY <1>1, <1>2 DEF FirstKept
<1> QED BY <1>3

\* A number that begins with another digit than zero is at least 10 to the
\* power of its other digits.
LEMMA AtLeast ==
  ASSUME NEW T, NEW d \in Seq(T), AreDigits(d), d # << >>, d[1] # "0",
         NEW k \in 0 .. MAXDIGITS, k < Len(d)
  PROVE  TenTo[k] <= NumberOf(d)
<1> DEFINE n == Len(d)
<1>1. PICK g : SumsTo(g, d)
  BY NumberOfIs
<1>2. g \in [0 .. n -> Nat] /\ Sums(g, d) /\ NumberOf(d) = g[n] /\ n \in Nat /\ MAXDIGITS \in Nat
  BY <1>1, IntegerAssumption DEF SumsTo, Sums
<1>3. \A i \in 1 .. n : DigitOf[d[i]] \in Nat
  BY DigitsAre DEF AreDigits
<1>4. DigitOf[d[1]] # 0
  <2>1. 1 \in 1 .. n
    OBVIOUS
  <2>2. d[1] \in Numeral
    BY <2>1 DEF AreDigits
  <2> QED BY <2>2, DigitsAre
<1> DEFINE S == {i \in 0 .. k : TenTo[i] <= g[i + 1]}
           R == {i \in 0 .. n - (k + 1) : TenTo[k] <= g[k + 1 + i]}
<1>5. 0 \in S
  <2>1. 1 \in 1 .. n /\ 1 - 1 = 0 /\ 0 + 1 = 1 /\ 0 \in 0 .. k
    BY <1>2
  <2>2. g[1] = 10 * g[0] + DigitOf[d[1]] /\ g[0] = 0 /\ DigitOf[d[1]] \in Nat
    BY <1>2, <1>3, <2>1 DEF Sums
  <2>3. TenTo[0] <= g[1]
    BY <1>4, <2>2, TenToIs
  <2> QED BY <2>1, <2>3
<1>6. ASSUME NEW i \in 0 .. k - 1, i \in S PROVE i + 1 \in S
  <2>1. /\ i + 1 \in 0 .. k /\ i + 1 + 1 \in 1 .. n /\ i + 1 + 1 - 1 = i + 1 /\ i + 1 \in 1 .. MAXDIGITS
        /\ i + 1 - 1 = i /\ i \in 0 .. MAXDIGITS /\ i + 1 \in 0 .. n
    BY <1>2
  <2>2. g[i + 1 + 1] = 10 * g[i + 1] + DigitOf[d[i + 1 + 1]] /\ DigitOf[d[i + 1 + 1]] \in Nat
    BY <1>2, <1>3, <2>1 DEF Sums
  <2>3. TenTo[i + 1] = 10 * TenTo[i] /\ TenTo[i] \in Nat
    BY <2>1, TenToIs
  <2>4. TenTo[i] <= g[i + 1] /\ g[i + 1] \in Nat
    BY <1>2, <1>6, <2>1
  <2>5. TenTo[i + 1] <= g[i + 1 + 1]
    BY <2>2, <2>3, <2>4
  <2> QED BY <2>1, <2>5
<1>7. TenTo[k] <= g[k + 1]
  <2> HIDE DEF S
  <2>1. k \in S
    <3>1. \A i \in 0 .. k : i \in S
      BY <1>2, <1>5, <1>6, UpTo
    <3> QED BY <1>2, <3>1
  <2> QED BY <2>1 DEF S
<1>8. 0 \in R
  <2>1. k + 1 + 0 = k + 1 /\ 0 \in 0 .. n - (k + 1)
    BY <1>2
  <2> QED BY <1>7, <2>1
<1>9. ASSUME NEW i \in 0 .. n - (k + 1) - 1, i \in R PROVE i + 1 \in R
  <2>1. /\ i + 1 \in 0 .. n - (k + 1) /\ k + 1 + i + 1 \in 1 .. n /\ k + 1 + i + 1 - 1 = k + 1 + i
        /\ k + 1 + (i + 1) = k + 1 + i + 1 /\ k + 1 + i \in 0 .. n
    BY <1>2
  <2>2. g[k + 1 + i + 1] = 10 * g[k + 1 + i] + DigitOf[d[k + 1 + i + 1]] /\ DigitOf[d[k + 1 + i + 1]] \in Nat
    BY <1>2, <1>3, <2>1 DEF Sums
  <2>3. TenTo[k] \in Nat /\ TenTo[k] <= g[k + 1 + i] /\ g[k + 1 + i] \in Nat
    BY <1>2, <1>9, <2>1, TenToIs
  <2>4. TenTo[k] <= g[k + 1 + i + 1]
    BY <2>2, <2>3
  <2> QED BY <2>1, <2>4
<1>10. TenTo[k] <= g[n]
  <2> DEFINE l == n - (k + 1)
  <2>1. l \in Nat /\ k + 1 + l = n /\ l \in 0 .. l
    BY <1>2
  <2> HIDE DEF R
  <2>2. \A i \in 0 .. l : i \in R
    BY <1>8, <1>9, <2>1, UpTo
  <2>3. l \in R
    BY <2>1, <2>2
  <2> HIDE DEF l
  <2> QED BY <2>1, <2>3 DEF R
<1> QED BY <1>2, <1>10

-----------------------------------------------------------------------------
(***************************************************************************)
(* The loop of parse_ustr over the digits, from the last one.              *)
(***************************************************************************)
Totals == [bad : BOOLEAN, absval : Nat, multipleby : Nat]
NoTotal == [bad |-> FALSE, absval |-> 0, multipleby |-> 1]
TurnOf(acc, c) ==
  LET part == Unsigned(DigitOf[c] * acc.multipleby)
  IN  IF acc.bad \/ acc.absval > Unsigned(MAX - part)
      THEN [acc EXCEPT !.bad = TRUE]
      ELSE [bad |-> FALSE, absval |-> Unsigned(acc.absval + part),
            multipleby |-> Unsigned(acc.multipleby * 10)]
Computes(f, d) ==
  /\ f[0] = NoTotal /\ \A i \in 1 .. Len(d) : f[i] = TurnOf(f[i - 1], d[Len(d) - i + 1])
  /\ Absolute(d, MAX) = f[Len(d)]

LEMMA UnsignedIs ==
  ASSUME NEW x \in Int
  PROVE  Unsigned(x) \in Nat
<1> DEFINE m == 2 * (MAX + 1)
<1>1. m \in Nat /\ m > 0
  BY IntegerAssumption
<1> HIDE DEF m
<1>2. x % m \in Nat
  BY <1>1
<1> QED BY <1>2 DEF Unsigned, m

LEMMA TurnIs ==
  ASSUME NEW acc \in Totals, NEW c \in Numeral
  PROVE  /\ TurnOf(acc, c) \in Totals
         /\ acc.bad => TurnOf(acc, c).bad
<1> DEFINE part == Unsigned(DigitOf[c] * acc.multipleby)
<1>1. acc.bad \in BOOLEAN /\ acc.absval \in Nat /\ acc.multipleby \in Nat /\ DigitOf[c] \in Nat
  BY DigitsAre DEF Totals
<1>2. part \in Nat
  <2>1. DigitOf[c] * acc.multipleby \in Int
    BY <1>1
  <2> QED BY <2>1, UnsignedIs
<1>3. TurnOf(acc, c) = IF acc.bad \/ acc.absval > Unsigned(MAX - part)
                       THEN [acc EXCEPT !.bad = TRUE]
                       ELSE [bad |-> FALSE, absval |-> Unsigned(acc.absval + part),
                             multipleby |-> Unsigned(acc.multipleby * 10)]
  BY DEF TurnOf
<1> HIDE DEF part
<1>4. Unsigned(acc.absval + part) \in Nat /\ Unsigned(acc.multipleby * 10) \in Nat
  <2>1. acc.absval + part \in Int /\ acc.multipleby * 10 \in Int
    BY <1>1, <1>2
  <2> QED BY <2>1, UnsignedIs
<1>5. [acc EXCEPT !.bad = TRUE] \in Totals /\ [acc EXCEPT !.bad = TRUE].bad
  BY DEF Totals
<1>6. [bad |-> FALSE, absval |-> Unsigned(acc.absval + part),
       multipleby |-> Unsigned(acc.multipleby * 10)] \in Totals
  BY <1>4 DEF Totals
<1> QED BY <1>3, <1>5, <1>6

\* While nothing wraps around, a turn adds its digit or finds that it is too much.
LEMMA TurnAdds ==
  ASSUME NEW acc \in Totals, NEW c \in Numeral, ~acc.bad, acc.absval \in 0 .. MAX,
         NEW p \in 0 .. MAX, p = DigitOf[c] * acc.multipleby
  PROVE  /\ acc.absval + p > MAX => TurnOf(acc, c).bad
         /\ acc.absval + p <= MAX =>
              TurnOf(acc, c) = [bad |-> FALSE, absval |-> acc.absval + p,
                                multipleby |-> Unsigned(acc.multipleby * 10)]
<1>1. MAX \in Nat /\ acc.absval \in Nat /\ p \in Nat
  BY IntegerAssumption DEF Totals
<1>2. Unsigned(p) = p
  BY WrapsNot
<1>3. Unsigned(MAX - p) = MAX - p
  <2>1. MAX - p \in 0 .. MAX
    BY <1>1
  <2> QED BY <2>1, WrapsNot
<1>4. TurnOf(acc, c) = IF acc.absval > MAX - p
                       THEN [acc EXCEPT !.bad = TRUE]
                       ELSE [bad |-> FALSE, absval |-> Unsigned(acc.absval + p),
                             multipleby |-> Unsigned(acc.multipleby * 10)]
  BY <1>2, <1>3 DEF TurnOf
<1>5. [acc EXCEPT !.bad = TRUE].bad
  BY DEF Totals
<1>6. acc.absval + p > MAX => TurnOf(acc, c).bad
  BY <1>1, <1>4, <1>5
<1>7. ASSUME acc.absval + p <= MAX
      PROVE  TurnOf(acc, c) = [bad |-> FALSE, absval |-> acc.absval + p,
                               multipleby |-> Unsigned(acc.multipleby * 10)]
  <2>1. acc.absval + p \in 0 .. MAX /\ ~(acc.absval > MAX - p)
    BY <1>1, <1>7
  <2>2. Unsigned(acc.absval + p) = acc.absval + p
    BY <2>1, WrapsNot
  <2> QED BY <1>4, <2>1, <2>2
<1> QED BY <1>6, <1>7

LEMMA AbsoluteIs ==
  ASSUME NEW T, NEW d \in Seq(T), AreDigits(d)
  PROVE  \E f : Computes(f, d)
<1> DEFINE n == Len(d)
           step == [i \in 1 .. n |-> [x \in Totals |-> TurnOf(x, d[n - i + 1])]]
           turn == CHOOSE f : f = [i \in 0 .. n |->
                     IF i = 0 THEN NoTotal ELSE TurnOf(f[i - 1], d[n - i + 1])]
<1>1. n \in Nat /\ NoTotal \in Totals
  BY DEF NoTotal, Totals
<1>2. Absolute(d, MAX) = turn[n]
  BY DEF Absolute, TurnOf, NoTotal
<1>3. \A i \in 1 .. n : d[n - i + 1] \in Numeral
  <2>1. \A i \in 1 .. n : n - i + 1 \in 1 .. n
    BY <1>1
  <2> QED BY <2>1 DEF AreDigits
<1>4. step \in [1 .. n -> [Totals -> Totals]]
  <2>1. \A i \in 1 .. n : \A x \in Totals : TurnOf(x, d[n - i + 1]) \in Totals
    BY <1>3, TurnIs
  <2> QED BY <2>1
<1> HIDE DEF n
<1>5. PICK g \in [0 .. n -> Totals] : Follows(g, n, NoTotal, step)
  <2> HIDE DEF step
  <2> QED BY <1>1, <1>4, Recursion
<1>6. \A i \in 1 .. n : i - 1 \in 0 .. n /\ g[i - 1] \in Totals
  <2>1. \A i \in 1 .. n : i - 1 \in 0 .. n
    BY <1>1
  <2> QED BY <1>5, <2>1
<1>7. \A i \in 1 .. n : g[i] = TurnOf(g[i - 1], d[n - i + 1])
  BY <1>5, <1>6 DEF Follows
<1>8. g[0] = NoTotal
  BY <1>5 DEF Follows
<1> HIDE DEF step
<1>9. g = [i \in 0 .. n |-> IF i = 0 THEN NoTotal ELSE TurnOf(g[i - 1], d[n - i + 1])]
  <2>1. \A i \in 0 .. n : i = 0 \/ i \in 1 .. n
    BY <1>1
  <2> QED BY <1>5, <1>7, <1>8, <2>1
<1>10. turn = [i \in 0 .. n |-> IF i = 0 THEN NoTotal ELSE TurnOf(turn[i - 1], d[n - i + 1])]
  BY <1>9
<1> HIDE DEF turn
<1>11. turn[0] = NoTotal /\ \A i \in 1 .. n : turn[i] = TurnOf(turn[i - 1], d[n - i + 1])
  BY <1>1, <1>10
<1>12. Computes(turn, d)
  BY <1>2, <1>11 DEF Computes, n
<1> QED BY <1>12

LEMMA Carried ==
  ASSUME NEW a \in Nat, NEW k \in Nat, NEW t \in Nat
  PROVE  (10 * a + k) * t = a * (10 * t) + k * t
OBVIOUS

LEMMA Times ==
  ASSUME NEW a \in Nat, NEW b \in Nat, NEW t \in Nat, a <= b
  PROVE  a * t <= b * t /\ a * t \in Nat /\ t * a <= t * b
OBVIOUS

AbsoluteExact(d) ==
  /\ Absolute(d, MAX) \in Totals
  /\ Absolute(d, MAX).bad <=> NumberOf(d) > MAX
  /\ ~Absolute(d, MAX).bad => Absolute(d, MAX).absval = NumberOf(d)

LEMMA AbsoluteIsExact ==
  ASSUME NEW T, NEW d \in Seq(T), AreDigits(d), Len(d) < MAXDIGITS
  PROVE  AbsoluteExact(d)
<1> DEFINE n == Len(d)
<1>1. PICK f : Computes(f, d)
  BY AbsoluteIs
<1>2. PICK g : SumsTo(g, d)
  BY NumberOfIs
<1>3. /\ n \in Nat /\ MAXDIGITS \in Nat /\ n <= MAXDIGITS - 1 /\ MAXDIGITS >= 2 /\ MAX \in Nat
      /\ 9 * TenTo[MAXDIGITS - 2] <= MAX
  BY IntegerAssumption
<1>4. /\ f[0] = NoTotal /\ \A i \in 1 .. n : f[i] = TurnOf(f[i - 1], d[n - i + 1])
      /\ Absolute(d, MAX) = f[n]
  BY <1>1 DEF Computes
<1>5. /\ g \in [0 .. n -> Nat] /\ g[0] = 0
      /\ \A i \in 1 .. n : g[i] = 10 * g[i - 1] + DigitOf[d[i]]
      /\ NumberOf(d) = g[n]
  BY <1>2 DEF SumsTo, Sums
<1>6. \A i \in 1 .. n : d[i] \in Numeral /\ DigitOf[d[i]] \in 0 .. 9
  BY DigitsAre DEF AreDigits
<1> HIDE DEF n
<1> DEFINE left(i) == g[n] - g[n - i] * TenTo[i]
           Done(i) == /\ f[i] \in Totals /\ left(i) \in Nat
                      /\ f[i].bad => left(i) > MAX
                      /\ ~f[i].bad => f[i].absval = left(i) /\ left(i) <= MAX
                      /\ ~f[i].bad /\ i < n => f[i].multipleby = TenTo[i]
           S == {i \in 0 .. n : Done(i)}
<1>7. \A i \in 0 .. n : i \in 0 .. MAXDIGITS /\ TenTo[i] \in Nat
  <2>1. \A i \in 0 .. n : i \in 0 .. MAXDIGITS
    BY <1>3
  <2>2. \A i \in 0 .. MAXDIGITS : TenTo[i] \in Nat
    BY TenToIs
  <2> QED BY <2>1, <2>2
<1>8. \A i \in 0 .. n : i < n => 9 * TenTo[i] <= MAX
  <2> TAKE i \in 0 .. n
  <2> HAVE i < n
  <2>1. MAXDIGITS - 2 \in 0 .. MAXDIGITS /\ i \in 0 .. MAXDIGITS - 2
    BY <1>3
  <2>2. TenTo[i] <= TenTo[MAXDIGITS - 2] /\ TenTo[i] \in Nat /\ TenTo[MAXDIGITS - 2] \in Nat
    BY <1>7, <2>1, TenToGrows, TenToIs
  <2> QED BY <1>3, <2>2
<1>9. left(0) = 0
  <2>1. n - 0 = n /\ n \in 0 .. n /\ g[n] \in Nat /\ TenTo[0] = 1
    BY <1>3, <1>5, TenToIs
  <2>2. left(0) = g[n] - g[n] * 1
    BY <2>1
  <2> QED BY <2>1, <2>2
<1>10. 0 \in S
  <2>1. f[0] \in Totals /\ ~f[0].bad /\ f[0].absval = 0 /\ f[0].multipleby = TenTo[0]
    BY <1>4, TenToIs DEF NoTotal, Totals
  <2> HIDE DEF left
  <2> QED BY <1>3, <1>9, <2>1
<1>11. ASSUME NEW i \in 0 .. n - 1, i \in S PROVE i + 1 \in S
  <2> DEFINE c == d[n - i]
             k == DigitOf[c]
             t == TenTo[i]
             p == k * t
             a == g[n - i - 1]
             acc == f[i]
             r == f[i + 1]
  <2>1. /\ n - i \in 1 .. n /\ i + 1 \in 1 .. n /\ i + 1 - 1 = i /\ n - (i + 1) + 1 = n - i
        /\ n - (i + 1) = n - i - 1 /\ n - i - 1 \in 0 .. n /\ i \in 0 .. n /\ i < n /\ n \in 0 .. n
        /\ i + 1 \in 0 .. n /\ i + 1 \in 1 .. MAXDIGITS
    BY <1>3
  <2>2. c \in Numeral /\ k \in 0 .. 9 /\ t \in Nat /\ a \in Nat /\ g[n] \in Nat
    BY <1>5, <1>6, <1>7, <2>1
  <2>3. p \in 0 .. MAX
    <3>1. 9 * t <= MAX
      BY <1>8, <2>1
    <3> HIDE DEF k, t
    <3>3. k \in Nat /\ k <= 9 /\ 9 \in Nat
      BY <2>2
    <3>2. k * t <= 9 * t /\ k * t \in Nat
      BY <2>2, <3>3, Times
    <3>4. 9 * t \in Nat
      BY <2>2
    <3> QED BY <1>3, <3>1, <3>2, <3>4
  <2>4. left(i + 1) = left(i) + p
    <3>1. g[n - i] = 10 * a + k
      BY <1>5, <2>1
    <3>2. left(i) = g[n] - (10 * a + k) * t
      BY <3>1
    <3>3. TenTo[i + 1] = 10 * t
      BY <2>1, TenToIs
    <3>4. left(i + 1) = g[n] - a * (10 * t)
      BY <2>1, <3>3
    <3> HIDE DEF left, a, k, t
    <3>5. (10 * a + k) * t = a * (10 * t) + p
      <4>1. k \in Nat
        BY <2>2
      <4> QED BY <2>2, <4>1, Carried
    <3>6. a * (10 * t) \in Nat /\ p \in Nat
      BY <1>3, <2>2, <2>3
    <3> HIDE DEF p
    <3> QED BY <2>2, <3>2, <3>4, <3>5, <3>6
  <2>5. r = TurnOf(acc, c)
    BY <1>4, <2>1
  <2>6. Done(i)
    BY <1>11
  <2>7. /\ acc \in Totals /\ left(i) \in Nat
        /\ acc.bad => left(i) > MAX
        /\ ~acc.bad => acc.absval = left(i) /\ left(i) <= MAX /\ acc.multipleby = t
    BY <2>1, <2>6
  <2>8. Done(i + 1)
    <3> DEFINE l == left(i)
               v == left(i + 1)
               u == Unsigned(acc.multipleby * 10)
    <3>1. v = l + p /\ l \in Nat /\ v \in Nat
      BY <1>3, <2>3, <2>4, <2>7
    <3> HIDE DEF left
    <3>2. r \in Totals
      BY <2>2, <2>5, <2>7, TurnIs
    <3>3. CASE acc.bad
      <4>1. r.bad /\ v > MAX
        <5>1. r.bad
          BY <2>2, <2>5, <2>7, <3>3, TurnIs
        <5>2. l > MAX
          BY <2>7, <3>3
        <5> HIDE DEF l, v, p
        <5> QED BY <1>3, <2>3, <3>1, <5>1, <5>2
      <4> QED BY <3>1, <3>2, <4>1
    <3>4. CASE ~acc.bad
      <4>1. acc.absval = l /\ l \in 0 .. MAX /\ p = DigitOf[c] * acc.multipleby
        BY <1>3, <2>7, <3>1, <3>4
      <4> HIDE DEF l, p, c, v
      <4>2. /\ l + p > MAX => r.bad
            /\ l + p <= MAX => r = [bad |-> FALSE, absval |-> l + p, multipleby |-> u]
        <5>1. acc.absval \in 0 .. MAX
          BY <4>1
        <5> HIDE DEF acc, r
        <5> QED BY <2>2, <2>3, <2>5, <2>7, <3>4, <4>1, <5>1, TurnAdds DEF u
      <4>3. CASE v > MAX
        <5>1. r.bad
          BY <3>1, <4>2, <4>3
        <5> QED BY <3>1, <3>2, <4>3, <5>1 DEF v
      <4>4. CASE ~(v > MAX)
        <5>1. ~r.bad /\ r.absval = v /\ r.multipleby = u /\ v <= MAX
          <6>1. l + p <= MAX
            BY <1>3, <3>1, <4>4
          <6> QED BY <1>3, <3>1, <4>2, <4>4, <6>1
        <5>2. ASSUME i + 1 < n PROVE u = TenTo[i + 1]
          <6>1. TenTo[i + 1] = 10 * t /\ TenTo[i + 1] \in Nat /\ 9 * TenTo[i + 1] <= MAX
            BY <1>7, <1>8, <2>1, <5>2, TenToIs
          <6>2. TenTo[i + 1] \in 0 .. MAX
            BY <1>3, <6>1
          <6>3. acc.multipleby * 10 = TenTo[i + 1]
            <7>1. acc.multipleby = t
              BY <2>7, <3>4
            <7> HIDE DEF t, acc
            <7> QED BY <2>2, <6>1, <7>1
          <6> QED BY <6>2, <6>3, WrapsNot DEF u
        <5> HIDE DEF u
        <5> QED BY <3>1, <3>2, <5>1, <5>2 DEF v
      <4> QED BY <4>3, <4>4
    <3> QED BY <3>3, <3>4
  <2> QED BY <2>1, <2>8
<1>12. Done(n)
  <2> HIDE DEF Done
  <2>1. \A i \in 0 .. n : i \in S
    <3> HIDE DEF S
    <3> QED BY <1>3, <1>10, <1>11, UpTo
  <2>2. n \in 0 .. n
    BY <1>3
  <2> QED BY <2>1, <2>2
<1>13. left(n) = NumberOf(d)
  <2>1. n - n = 0 /\ g[n] \in Nat /\ TenTo[n] \in Nat /\ n \in 0 .. n
    BY <1>3, <1>5, <1>7
  <2>2. left(n) = g[n] - 0 * TenTo[n]
    BY <1>5, <2>1
  <2> QED BY <1>5, <2>1, <2>2
<1> HIDE DEF left
<1>14. NumberOf(d) \in Nat
  BY <1>12, <1>13
<1>15. f[n].bad \in BOOLEAN
  BY <1>12 DEF Totals
<1> QED BY <1>3, <1>4, <1>12, <1>13, <1>14, <1>15 DEF AbsoluteExact

-----------------------------------------------------------------------------
(***************************************************************************)
(* The loop of to_string, and the texts it makes.                          *)
(***************************************************************************)
LEMMA DigitsAreAppended ==
  /\ Digits[0] = << >>
  /\ \A n \in 1 .. MAX : Digits[n] = Append(Digits[n \div 10], DigitChars[(n % 10) + 1])
<1> DEFINE V == Seq(Numeral)
           down == [i \in 1 .. MAX |-> i \div 10]
           step == [i \in 1 .. MAX |-> [x \in V |-> Append(x, DigitChars[(i % 10) + 1])]]
<1>1. MAX \in Nat /\ << >> \in V
  BY IntegerAssumption
<1>2. down \in [1 .. MAX -> Nat] /\ \A i \in 1 .. MAX : down[i] < i
  BY <1>1
<1>3. step \in [1 .. MAX -> [V -> V]]
  <2>1. \A i \in 1 .. MAX : DigitChars[(i % 10) + 1] \in Numeral
    <3>1. \A i \in 1 .. MAX : i % 10 \in 0 .. 9
      BY <1>1
    <3> QED BY <3>1, DigitsAre
  <2>2. \A i \in 1 .. MAX : \A x \in V : Append(x, DigitChars[(i % 10) + 1]) \in V
    BY <2>1
  <2> HIDE DEF V
  <2> QED BY <2>2
<1>4. PICK g \in [0 .. MAX -> V] : Descends(g, MAX, << >>, down, step)
  <2> HIDE DEF V, down, step
  <2> QED BY <1>1, <1>2, <1>3, Descent
<1>5. \A i \in 1 .. MAX : g[i] = Append(g[i \div 10], DigitChars[(i % 10) + 1])
  <2> TAKE i \in 1 .. MAX
  <2>1. i \div 10 \in 0 .. MAX /\ down[i] = i \div 10
    BY <1>1
  <2>2. g[i \div 10] \in V /\ g[i] = step[i][g[i \div 10]]
    <3> HIDE DEF V, down, step
    <3> QED BY <1>4, <2>1 DEF Descends
  <2> HIDE DEF V
  <2> QED BY <2>2
<1>6. g = [n \in 0 .. MAX |->
             IF n = 0 THEN << >> ELSE Append(g[n \div 10], DigitChars[(n % 10) + 1])]
  <2>1. \A i \in 0 .. MAX : i = 0 \/ i \in 1 .. MAX
    BY <1>1
  <2>2. g[0] = << >> /\ g = [n \in 0 .. MAX |-> g[n]]
    BY <1>4 DEF Descends
  <2> QED BY <1>5, <2>1, <2>2
<1>7. Digits = [n \in 0 .. MAX |->
             IF n = 0 THEN << >> ELSE Append(Digits[n \div 10], DigitChars[(n % 10) + 1])]
  <2>1. Digits = CHOOSE f : f = [n \in 0 .. MAX |->
             IF n = 0 THEN << >> ELSE Append(f[n \div 10], DigitChars[(n % 10) + 1])]
    BY DEF Digits
  <2> QED BY <1>6, <2>1
<1>8. 0 \in 0 .. MAX /\ \A n \in 1 .. MAX : n \in 0 .. MAX /\ n # 0
  BY <1>1
<1> QED BY <1>7, <1>8

WritesDigits(n, d) ==
  /\ d \in Seq(Numeral) /\ AreDigits(d) /\ NumberOf(d) = n
  /\ n > 0 => d # << >> /\ d[1] # "0"
  /\ \A k \in 0 .. MAXDIGITS : n < TenTo[k] => Len(d) <= k

LEMMA DigitsWrite ==
  ASSUME NEW n \in 0 .. MAX
  PROVE  WritesDigits(n, Digits[n])
<1> DEFINE B == {i \in 0 .. MAX : ~WritesDigits(i, Digits[i])}
<1>1. MAX \in Nat /\ B \subseteq Nat
  BY IntegerAssumption
<1>2. SUFFICES ASSUME B # {} PROVE FALSE
  BY <1>1
<1>3. PICK x \in B : \A y \in B : x <= y
  <2> HIDE DEF B
  <2> QED BY <1>1, <1>2, Least
<1>4. x \in 0 .. MAX /\ ~WritesDigits(x, Digits[x])
  OBVIOUS
<1>5. \A i \in 0 .. MAX : i < x => WritesDigits(i, Digits[i])
  BY <1>1, <1>3
<1> HIDE DEF B
<1>6. CASE x = 0
  <2> DEFINE d == Digits[0]
  <2>1. d = << >>
    BY DigitsAreAppended
  <2> HIDE DEF d
  <2>2. d \in Seq(Numeral) /\ Len(d) = 0 /\ AreDigits(d)
    BY <2>1 DEF AreDigits
  <2>3. PICK g : SumsTo(g, d)
    BY <2>2, NumberOfIs
  <2>4. NumberOf(d) = 0
    BY <2>2, <2>3 DEF SumsTo, Sums
  <2>5. WritesDigits(0, d)
    BY <2>2, <2>4 DEF WritesDigits
  <2> QED BY <1>4, <1>6, <2>5 DEF d
<1>7. CASE x # 0
  <2> DEFINE m == x \div 10
             k == x % 10
             d == Digits[m]
             c == DigitChars[k + 1]
  <2>1. m \in 0 .. MAX /\ m < x /\ k \in 0 .. 9 /\ x = 10 * m + k /\ x \in 1 .. MAX
    BY <1>1, <1>4, <1>7
  <2>2. Digits[x] = Append(d, c)
    BY <2>1, DigitsAreAppended
  <2> HIDE DEF m, k
  <2>3. WritesDigits(m, d)
    BY <1>5, <2>1
  <2>4. c \in Numeral /\ DigitOf[c] = k /\ (k # 0 => c # "0")
    BY <2>1, DigitsAre
  <2> HIDE DEF c, d
  <2>5. d \in Seq(Numeral) /\ AreDigits(d) /\ NumberOf(d) = m
    BY <2>3 DEF WritesDigits
  <2> DEFINE e == Append(d, c)
  <2>6. AreDigits(e) /\ NumberOf(e) = 10 * m + k
    BY <2>4, <2>5, NumberOfAppend
  <2>7. e \in Seq(Numeral) /\ Len(e) = Len(d) + 1 /\ Len(d) \in Nat /\ e # << >>
    BY <2>4, <2>5
  <2>8. e[1] # "0"
    <3>1. CASE m = 0
      <4>1. Len(d) <= 0
        <5>1. 0 \in 0 .. MAXDIGITS /\ m < TenTo[0]
          BY <3>1, IntegerAssumption, TenToIs
        <5> QED BY <2>3, <5>1 DEF WritesDigits
      <4>2. e[1] = c
        BY <2>4, <2>5, <2>7, <4>1
      <4> QED BY <2>1, <2>4, <3>1, <4>2
    <3>2. CASE m # 0
      <4>1. d # << >> /\ d[1] # "0"
        BY <2>1, <2>3, <3>2 DEF WritesDigits
      <4>2. e[1] = d[1]
        BY <2>4, <2>5, <4>1
      <4> QED BY <4>1, <4>2
    <3> QED BY <3>1, <3>2
  <2>9. ASSUME NEW l \in 0 .. MAXDIGITS, x < TenTo[l] PROVE Len(e) <= l
    <3>1. MAXDIGITS \in Nat /\ l # 0
      BY <2>1, <2>9, IntegerAssumption, TenToIs
    <3>2. l \in 1 .. MAXDIGITS /\ l - 1 \in 0 .. MAXDIGITS
      BY <3>1
    <3>3. TenTo[l] = 10 * TenTo[l - 1] /\ TenTo[l - 1] \in Nat
      BY <3>2, TenToIs
    <3>4. m < TenTo[l - 1]
      BY <2>1, <2>9, <3>3
    <3>5. Len(d) <= l - 1
      BY <2>3, <3>2, <3>4 DEF WritesDigits
    <3> QED BY <2>7, <3>1, <3>5
  <2> HIDE DEF e
  <2>10. WritesDigits(x, e)
    BY <2>1, <2>6, <2>7, <2>8, <2>9 DEF WritesDigits
  <2> QED BY <1>4, <2>2, <2>10 DEF e
<1> QED BY <1>6, <1>7

-----------------------------------------------------------------------------
(***************************************************************************)
(* Texts with a sign.                                                      *)
(***************************************************************************)
Negative(s) == s # << >> /\ s[1] = "-"
Unsign(s) == IF Negative(s) THEN Tail(s) ELSE s
NumberOfText(s) == IF Negative(s) THEN -NumberOf(Unsign(s)) ELSE NumberOf(Unsign(s))
TextIs(s) ==
  /\ IsNumber(s) <=> Unsign(s) # << >> /\ AreDigits(Unsign(s))
  /\ s # << >> => Number(s) = NumberOfText(s)
  /\ Digits10(s) = ZerosRemoved(Unsign(s))

LEMMA SignIs ==
  ASSUME NEW T, NEW s \in Seq(T)
  PROVE  TextIs(s) /\ Unsign(s) \in Seq(T)
<1>1. DOMAIN s = 1 .. Len(s) /\ Len(s) \in Nat /\ (s = << >> <=> Len(s) = 0)
  OBVIOUS
<1>2. Digits10(s) = ZerosRemoved(Unsign(s))
  BY DEF Digits10, Unsign, Negative
<1>3. s # << >> => Number(s) = NumberOfText(s)
  BY DEF Number, NumberOfText, Unsign, Negative
<1>4. CASE Negative(s)
  <2> DEFINE u == Tail(s)
             n == Len(s)
  <2>1. /\ s # << >> /\ s[1] = "-" /\ n \in Nat \ {0} /\ DOMAIN s = 1 .. n
        /\ u \in Seq(T) /\ Len(u) = n - 1 /\ \A i \in 1 .. n - 1 : u[i] = s[i + 1]
    BY <1>1, <1>4 DEF Negative
  <2>2. Unsign(s) = u
    BY <1>4 DEF Unsign
  <2> HIDE DEF u
  <2>3. u # << >> <=> n # 1
    BY <2>1
  <2>4. s = << "-" >> <=> n = 1
    <3>1. n = 1 => s = [i \in 1 .. 1 |-> s[i]]
      BY <2>1
    <3>2. n = 1 => s = << "-" >>
      BY <2>1, <3>1
    <3>3. s = << "-" >> => n = 1
      OBVIOUS
    <3> QED BY <3>2, <3>3
  <2> HIDE DEF n
  <2>5. (\A i \in 1 .. n : s[i] \in Numeral \/ (i = 1 /\ s[i] = "-")) <=> AreDigits(u)
    <3>1. \A i \in 1 .. n - 1 : i + 1 \in 1 .. n /\ i + 1 # 1
      BY <2>1
    <3>2. \A i \in 1 .. n : i = 1 \/ (i - 1 \in 1 .. n - 1 /\ i - 1 + 1 = i)
      BY <2>1
    <3>3. ASSUME \A i \in 1 .. n : s[i] \in Numeral \/ (i = 1 /\ s[i] = "-")
          PROVE  AreDigits(u)
      BY <2>1, <3>1, <3>3 DEF AreDigits
    <3>4. ASSUME AreDigits(u), NEW i \in 1 .. n
          PROVE  s[i] \in Numeral \/ (i = 1 /\ s[i] = "-")
      <4>1. CASE i = 1
        BY <2>1, <4>1
      <4>2. CASE i # 1
        <5>1. i - 1 \in 1 .. n - 1 /\ i - 1 + 1 = i
          BY <3>2, <4>2
        <5>2. u[i - 1] \in Numeral /\ u[i - 1] = s[i - 1 + 1]
          BY <2>1, <3>4, <5>1 DEF AreDigits
        <5> QED BY <5>1, <5>2
      <4> QED BY <4>1, <4>2
    <3> QED BY <3>3, <3>4
  <2>6. IsNumber(s) <=> u # << >> /\ AreDigits(u)
    <3>1. IsNumber(s) <=> /\ s # << >> /\ s # << "-" >>
                          /\ \A i \in 1 .. n : s[i] \in Numeral \/ (i = 1 /\ s[i] = "-")
      BY <2>1 DEF IsNumber, Numeral
    <3> QED BY <2>1, <2>3, <2>4, <2>5, <3>1
  <2> QED BY <1>2, <1>3, <2>1, <2>2, <2>6 DEF TextIs
<1>5. CASE ~Negative(s)
  <2>1. Unsign(s) = s
    BY <1>5 DEF Unsign
  <2>2. s # << >> => s[1] # "-"
    BY <1>5 DEF Negative
  <2>3. IsNumber(s) <=> s # << >> /\ AreDigits(s)
    <3>1. s # << >> => s # << "-" >>
      BY <2>2
    <3>2. \A i \in 1 .. Len(s) : ~(i = 1 /\ s[i] = "-")
      BY <1>1, <2>2
    <3> QED BY <1>1, <3>1, <3>2 DEF IsNumber, AreDigits, Numeral
  <2> QED BY <1>2, <1>3, <2>1, <2>3 DEF TextIs
<1> QED BY <1>4, <1>5

ParsesTo(s, r) ==
  /\ r.ok <=> Unsign(s) # << >> /\ AreDigits(Unsign(s)) /\ NumberOf(Unsign(s)) <= MAX
  /\ r.ok => r.val = NumberOfText(s)

\* Texts with MAXDIGITS digits are let through and are left out here.
LEMMA Parses ==
  ASSUME NEW T, NEW s \in Seq(T), Len(ZerosRemoved(Unsign(s))) # MAXDIGITS
  PROVE  ParsesTo(s, parse_ustr(s))
<1> DEFINE u == Unsign(s)
           d == ZerosRemoved(u)
           abs == Absolute(d, MAX)
           wrong == \/ d = << >> \/ Len(d) > MAXDIGITS
                    \/ \E i \in DOMAIN d : d[i] \notin Numeral
                    \/ abs.bad
           val == IF Negative(s) THEN -Signed(Unsigned(abs.absval - 1)) - 1 ELSE Signed(abs.absval)
<1>1. Len(s) > 0 <=> s # << >>
  OBVIOUS
<1>2. parse_ustr(s) = IF wrong THEN NotAnInteger ELSE [ok |-> TRUE, val |-> val]
  BY <1>1 DEF parse_ustr, Unsign, Negative, Numeral
<1>3. u \in Seq(T)
  BY SignIs
<1>4. Shortened(u, d, T)
  BY <1>3, ZerosRemovedIs
<1>5. /\ d \in Seq(T) /\ Len(d) # MAXDIGITS /\ (d = << >> <=> u = << >>)
      /\ Len(d) > 1 => d[1] # "0"
      /\ AreDigits(u) <=> AreDigits(d)
      /\ AreDigits(u) => NumberOf(u) = NumberOf(d)
  BY <1>4 DEF Shortened
<1>6. MAX \in Nat /\ MAXDIGITS \in Nat /\ MAXDIGITS >= 2 /\ MAX < TenTo[MAXDIGITS - 1]
  BY IntegerAssumption
<1> HIDE DEF u, d
<1>7. DOMAIN d = 1 .. Len(d) /\ Len(d) \in Nat
  BY <1>5
<1>8. (\E i \in DOMAIN d : d[i] \notin Numeral) <=> ~AreDigits(d)
  BY <1>7 DEF AreDigits
<1>9. CASE u = << >> \/ ~AreDigits(u)
  <2>1. wrong
    BY <1>5, <1>8, <1>9
  <2>2. parse_ustr(s) = NotAnInteger
    BY <1>2, <2>1
  <2> QED BY <1>9, <2>2 DEF ParsesTo, NotAnInteger, u
<1>10. CASE u # << >> /\ AreDigits(u)
  <2>1. d # << >> /\ AreDigits(d) /\ NumberOf(u) = NumberOf(d)
    BY <1>5, <1>10
  <2>2. NumberOf(d) \in Nat
    <3>1. PICK g : SumsTo(g, d)
      BY <1>5, <2>1, NumberOfIs
    <3>2. Len(d) \in 0 .. Len(d)
      BY <1>7
    <3> QED BY <3>1, <3>2 DEF SumsTo, Sums
  <2>3. CASE Len(d) > MAXDIGITS
    <3> DEFINE l == Len(d)
    <3>5. l \in Nat /\ l > MAXDIGITS
      BY <1>7, <2>3
    <3> HIDE DEF l
    <3>6. MAXDIGITS - 1 \in 0 .. MAXDIGITS /\ MAXDIGITS - 1 < l /\ l > 1
      BY <1>6, <3>5
    <3>1. MAXDIGITS - 1 \in 0 .. MAXDIGITS /\ MAXDIGITS - 1 < Len(d) /\ d[1] # "0"
      BY <1>5, <3>6 DEF l
    <3>2. TenTo[MAXDIGITS - 1] <= NumberOf(d) /\ TenTo[MAXDIGITS - 1] \in Nat
      BY <1>5, <2>1, <3>1, AtLeast, TenToIs
    <3>3. ~(NumberOf(u) <= MAX)
      BY <1>6, <2>1, <2>2, <3>2
    <3>4. parse_ustr(s) = NotAnInteger
      BY <1>2, <2>3
    <3> QED BY <3>3, <3>4 DEF ParsesTo, NotAnInteger, u
  <2>4. CASE ~(Len(d) > MAXDIGITS)
    <3> DEFINE l == Len(d)
    <3>7. l \in Nat /\ ~(l > MAXDIGITS) /\ l # MAXDIGITS
      BY <1>5, <1>7, <2>4
    <3> HIDE DEF l
    <3>8. l < MAXDIGITS
      BY <1>6, <3>7
    <3>1. Len(d) < MAXDIGITS
      BY <3>8 DEF l
    <3>2. AbsoluteExact(d)
      BY <1>5, <2>1, <3>1, AbsoluteIsExact
    <3>3. /\ abs \in Totals /\ (abs.bad <=> NumberOf(d) > MAX)
          /\ ~abs.bad => abs.absval = NumberOf(d)
      BY <3>2 DEF AbsoluteExact
    <3>4. wrong <=> NumberOf(d) > MAX
      BY <1>8, <2>1, <2>4, <3>3
    <3> HIDE DEF wrong
    <3>5. CASE NumberOf(d) > MAX
      <4>1. parse_ustr(s) = NotAnInteger /\ ~(NumberOf(u) <= MAX)
        BY <1>2, <1>6, <2>1, <2>2, <3>4, <3>5
      <4> QED BY <4>1 DEF ParsesTo, NotAnInteger, u
    <3>6. CASE ~(NumberOf(d) > MAX)
      <4> DEFINE x == NumberOf(d)
      <4>1. x \in 0 .. MAX /\ abs.absval = x
        BY <1>6, <2>2, <3>3, <3>6
      <4>2. parse_ustr(s) = [ok |-> TRUE, val |-> val]
        BY <1>2, <3>4, <3>6
      <4>3. val = IF Negative(s) THEN -x ELSE x
        <5> HIDE DEF x, abs
        <5>1. Signed(x) = x
          BY <1>6, <4>1 DEF Signed
        <5>2. CASE x = 0
          <6>1. Unsigned(x - 1) = 2 * MAX + 1
            <7>1. x - 1 = -1
              BY <5>2
            <7> QED BY <4>1, <7>1, WrapsNot
          <6>2. Signed(2 * MAX + 1) = -1
            BY <1>6 DEF Signed
          <6> QED BY <4>1, <5>1, <5>2, <6>1, <6>2
        <5>3. CASE x # 0
          <6>1. x - 1 \in 0 .. MAX
            BY <1>6, <4>1, <5>3
          <6>2. Unsigned(x - 1) = x - 1
            BY <6>1, WrapsNot
          <6>3. Signed(x - 1) = x - 1
            BY <1>6, <6>1 DEF Signed
          <6>4. -(x - 1) - 1 = -x
            BY <4>1
          <6> QED BY <4>1, <5>1, <6>2, <6>3, <6>4
        <5> QED BY <5>2, <5>3
      <4>4. NumberOf(u) <= MAX /\ val = NumberOfText(s)
        BY <1>6, <2>1, <4>1, <4>3 DEF NumberOfText, u
      <4> HIDE DEF val
      <4> QED BY <1>10, <4>2, <4>4 DEF ParsesTo, u
    <3> QED BY <3>5, <3>6
  <2> QED BY <2>3, <2>4
<1> QED BY <1>9, <1>10

Sign == Numeral \cup {"-"}
Written(v, t) ==
  /\ IsNumber(t) /\ Number(t) = v /\ Len(t) <= MAXDIGITS
  /\ t \in {Digits10(t), << "-" >> \o Digits10(t)} \ {<< "-", "0" >>}

LEMMA WrittenIs ==
  ASSUME NEW v \in MIN .. MAX
  PROVE  Written(v, to_string(v))
<1>1. MAX \in Nat /\ MAXDIGITS \in Nat /\ MAXDIGITS >= 2 /\ MAX < TenTo[MAXDIGITS - 1]
  BY IntegerAssumption
<1>2. v \in Int /\ -MAX <= v /\ v <= MAX
  BY <1>1 DEF MIN
<1>3. ASSUME NEW n \in 1 .. MAX
      PROVE  /\ Digits[n] \in Seq(Numeral) /\ AreDigits(Digits[n]) /\ NumberOf(Digits[n]) = n
             /\ Digits[n] # << >> /\ Digits[n][1] # "0" /\ Digits[n][1] \in Numeral
             /\ ZerosRemoved(Digits[n]) = Digits[n] /\ Len(Digits[n]) <= MAXDIGITS - 1
  <2> DEFINE d == Digits[n]
  <2>1. WritesDigits(n, d)
    <3>1. n \in 0 .. MAX
      BY <1>1
    <3> QED BY <3>1, DigitsWrite
  <2> HIDE DEF d
  <2>2. d \in Seq(Numeral) /\ AreDigits(d) /\ NumberOf(d) = n /\ d # << >> /\ d[1] # "0"
    BY <1>1, <2>1 DEF WritesDigits
  <2>3. Len(d) <= MAXDIGITS - 1
    <3>1. MAXDIGITS - 1 \in 0 .. MAXDIGITS /\ TenTo[MAXDIGITS - 1] \in Nat
      <4>1. MAXDIGITS - 1 \in 0 .. MAXDIGITS
        BY <1>1
      <4> QED BY <4>1, TenToIs
    <3>2. n < TenTo[MAXDIGITS - 1]
      BY <1>1, <3>1
    <3> QED BY <2>1, <3>1, <3>2 DEF WritesDigits
  <2>4. ZerosRemoved(d) = d
    BY <2>2, ZerosKept
  <2>5. d[1] \in Numeral
    BY <2>2
  <2> QED BY <2>2, <2>3, <2>4, <2>5 DEF d
<1>4. CASE v = 0
  <2> DEFINE t == << "0" >>
  <2>1. to_string(v) = t
    BY <1>4 DEF to_string
  <2>2. t \in Seq(Numeral) /\ t # << >> /\ Len(t) = 1 /\ t[1] = "0"
    BY DigitsAre
  <2>3. t # << "-", "0" >>
    OBVIOUS
  <2> HIDE DEF t
  <2>4. AreDigits(t)
    BY <2>2, DigitsAre DEF AreDigits
  <2>5. ~Negative(t) /\ Unsign(t) = t
    BY <2>2 DEF Negative, Unsign
  <2>6. TextIs(t)
    BY <2>2, SignIs
  <2>7. NumberOf(t) = 0
    <3>1. PICK g : SumsTo(g, t)
      BY <2>2, <2>4, NumberOfIs
    <3>2. NumberOf(t) = g[1] /\ g[0] = 0 /\ g[1] = 10 * g[1 - 1] + DigitOf[t[1]]
      BY <2>2, <3>1 DEF SumsTo, Sums
    <3> QED BY <2>2, <3>2, DigitsAre
  <2>8. ZerosRemoved(t) = t
    BY <2>2, ZerosKept
  <2>9. Digits10(t) = t /\ IsNumber(t) /\ Number(t) = v
    BY <1>4, <2>2, <2>4, <2>5, <2>6, <2>7, <2>8 DEF TextIs, NumberOfText
  <2>10. Len(t) <= MAXDIGITS
    BY <1>1, <2>2
  <2> QED BY <2>1, <2>3, <2>9, <2>10 DEF Written
<1>5. CASE v > 0
  <2> DEFINE t == Digits[v]
  <2>1. to_string(v) = t
    BY <1>2, <1>5 DEF to_string
  <2>2. /\ t \in Seq(Numeral) /\ AreDigits(t) /\ NumberOf(t) = v
        /\ t # << >> /\ t[1] \in Numeral
        /\ ZerosRemoved(t) = t /\ Len(t) <= MAXDIGITS
    <3>1. v \in 1 .. MAX
      BY <1>1, <1>2, <1>5
    <3> HIDE DEF t
    <3>2. t \in Seq(Numeral) /\ Len(t) <= MAXDIGITS - 1 
      BY <1>3, <3>1 DEF t
    <3>3. Len(t) \in Nat
      BY <3>2
    <3>4. Len(t) <= MAXDIGITS
      BY <1>1, <3>2, <3>3
    <3> QED BY <1>3, <3>1, <3>4 DEF t
  <2> HIDE DEF t
  <2>3. t[1] # "-" /\ t # << "-", "0" >>
    <3>1. t[1] # "-"
      BY <2>2, DigitsAre
    <3> QED BY <3>1
  <2>4. ~Negative(t) /\ Unsign(t) = t
    BY <2>3 DEF Negative, Unsign
  <2>5. TextIs(t)
    BY <2>2, SignIs
  <2> QED BY <2>1, <2>2, <2>3, <2>4, <2>5 DEF TextIs, NumberOfText, Written
<1>6. CASE v < 0
  <2> DEFINE n == -v
             d == Digits[n]
             t == << "-" >> \o d
  <2>1. n \in 1 .. MAX /\ -(v + 1) + 1 = n /\ -n = v
    BY <1>1, <1>2, <1>6
  <2>2. to_string(v) = t
    <3>1. v # 0
      BY <1>6
    <3> QED BY <1>6, <2>1, <3>1 DEF to_string
  <2> HIDE DEF n
  <2>3. /\ d \in Seq(Numeral) /\ AreDigits(d) /\ NumberOf(d) = n
        /\ d # << >> /\ d[1] # "0"
        /\ ZerosRemoved(d) = d /\ Len(d) <= MAXDIGITS - 1
    BY <1>3, <2>1
  <2> HIDE DEF d
  <2>4. /\ t \in Seq(Sign) /\ Len(t) = 1 + Len(d) /\ t[1] = "-" /\ t # << >> /\ Tail(t) = d
        /\ Len(d) \in Nat
    <3>1. d \in Seq(Sign) /\ << "-" >> \in Seq(Sign)
      BY <2>3 DEF Sign
    <3>2. t \in Seq(Sign) /\ Len(t) = 1 + Len(d) /\ t[1] = "-" /\ Len(d) \in Nat
          /\ \A i \in 1 .. Len(d) : t[i + 1] = d[i]
      BY <3>1
    <3> HIDE DEF t
    <3>3. Tail(t) \in Seq(Sign) /\ Len(Tail(t)) = Len(d) /\ \A i \in 1 .. Len(d) : Tail(t)[i] = t[i + 1]
      BY <3>2
    <3> DEFINE tl == Tail(t)
               n1 == Len(d)
    <3>4. tl \in Seq(Sign) /\ Len(tl) = n1 /\ Len(d) = n1 /\ \A i \in 1 .. n1 : tl[i] = d[i]
      BY <3>2, <3>3
    <3> HIDE DEF tl, n1
    <3>6. tl = [i \in 1 .. n1 |-> tl[i]]
      BY <3>4
    <3>7. d = [i \in 1 .. n1 |-> d[i]]
      BY <3>1, <3>4
    <3>5. tl = d
      BY <3>4, <3>6, <3>7
    <3> QED BY <3>2, <3>5 DEF tl
  <2>5. t # << "-", "0" >>
    <3> HIDE DEF t
    <3>1. ASSUME t = << "-", "0" >> PROVE FALSE
      <4>1. Tail(t) = << "0" >>
        BY <3>1
      <4>3. d = << "0" >>
        BY <2>4, <4>1, Zenon
      <4>2. d[1] = "0"
        BY <4>3
      <4> QED BY <2>3, <4>2
    <3> QED BY <3>1
  <2>6. t = << "-" >> \o d
    OBVIOUS
  <2> HIDE DEF t
  <2>7. Negative(t) /\ Unsign(t) = d
    BY <2>4 DEF Negative, Unsign
  <2>8. TextIs(t)
    BY <2>4, SignIs
  <2>9. Len(t) <= MAXDIGITS
    BY <1>1, <2>3, <2>4
  <2>10. Digits10(t) = d /\ IsNumber(t) /\ Number(t) = v
    BY <2>1, <2>3, <2>4, <2>7, <2>8 DEF TextIs, NumberOfText
  <2> QED BY <2>2, <2>5, <2>6, <2>9, <2>10 DEF Written
<1> QED BY <1>2, <1>4, <1>5, <1>6

-----------------------------------------------------------------------------
ConvertInv ==
  /\ ustr \in Seq(Chars)
  /\ integer # NotConverted =>
       /\ integer = parse_ustr(ustr)
       /\ text = IF integer.ok THEN to_string(integer.val) ELSE << >>

LEMMA ConvertInitially == Init => ConvertInv
<1>1. << >> \in Seq(Chars)
  OBVIOUS
<1> QED BY <1>1, IntegerTextsAssumption DEF Init, IntegerInit, ConvertInv

LEMMA ConvertStep == ConvertInv /\ [Next]_vars => ConvertInv'
<1> SUFFICES ASSUME ConvertInv, [Next]_vars PROVE ConvertInv'
  OBVIOUS
<1>1. CASE Convert
  BY <1>1 DEF Convert, ConvertInv
<1>2. CASE UNCHANGED integerVars
  BY <1>2 DEF integerVars, ConvertInv
<1> QED BY <1>1, <1>2 DEF Next, vars

LEMMA ConvertIsExact == ConvertInv => IntegersExact
<1> SUFFICES ASSUME ConvertInv, integer # NotConverted, Len(Digits10(ustr)) # MAXDIGITS
             PROVE  ConvertedExactly
  BY DEF IntegersExact
<1> DEFINE s == ustr
           u == Unsign(s)
           r == parse_ustr(s)
<1>1. /\ s \in Seq(Chars) /\ integer = r
      /\ text = IF r.ok THEN to_string(r.val) ELSE << >>
  BY DEF ConvertInv
<1>2. TextIs(s) /\ u \in Seq(Chars)
  BY <1>1, SignIs
<1>3. ParsesTo(s, r)
  <2>1. Len(ZerosRemoved(u)) # MAXDIGITS
    BY <1>2 DEF TextIs
  <2> QED BY <1>1, <2>1, Parses
<1>4. MAX \in Nat
  BY IntegerAssumption
<1>5. /\ IsNumber(s) <=> u # << >> /\ AreDigits(u)
      /\ r.ok <=> u # << >> /\ AreDigits(u) /\ NumberOf(u) <= MAX
      /\ r.ok => r.val = NumberOfText(s)
  BY <1>2, <1>3 DEF TextIs, ParsesTo
<1>6. ASSUME IsNumber(s)
      PROVE  /\ Number(s) = NumberOfText(s)
             /\ NumberOf(u) <= MAX <=> Number(s) \in MIN .. MAX
  <2>1. NumberOf(u) \in Nat
    <3>1. PICK g : SumsTo(g, u)
      BY <1>2, <1>5, <1>6, NumberOfIs
    <3>2. Len(u) \in 0 .. Len(u)
      BY <1>2
    <3> QED BY <3>1, <3>2 DEF SumsTo, Sums
  <2>2. Number(s) = NumberOfText(s)
    BY <1>2, <1>6 DEF TextIs, IsNumber
  <2>3. NumberOfText(s) = NumberOf(u) \/ NumberOfText(s) = -NumberOf(u)
    BY DEF NumberOfText
  <2> HIDE DEF u, s
  <2> QED BY <1>4, <2>1, <2>2, <2>3 DEF MIN
<1>7. r.ok <=> IsNumber(s) /\ Number(s) \in MIN .. MAX
  BY <1>5, <1>6
<1>8. ASSUME r.ok
      PROVE  r.val = Number(s) /\ Written(r.val, text)
  <2>1. r.val = Number(s) /\ r.val \in MIN .. MAX
    BY <1>5, <1>6, <1>7, <1>8
  <2>2. text = to_string(r.val)
    BY <1>1, <1>8
  <2> QED BY <2>1, <2>2, WrittenIs
<1> QED BY <1>1, <1>7, <1>8 DEF ConvertedExactly, Written

(***************************************************************************)
(* (new Integer) accepts exactly the texts of the numbers from MIN to MAX, *)
(* but for those with MAXDIGITS digits, and to_string is its inverse, for  *)
(* every MAX like that of the code and texts of every length (integer.c,   *)
(* 22 to 184).                                                             *)
(***************************************************************************)
THEOREM IntegersAreExact == Spec => []IntegersExact
<1>1. Spec => []ConvertInv
  BY ConvertInitially, ConvertStep, PTL DEF Spec
<1> QED BY <1>1, ConvertIsExact, PTL
=============================================================================
