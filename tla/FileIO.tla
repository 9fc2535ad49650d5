------------------------------- MODULE FileIO -------------------------------
(***************************************************************************)
(* One file of a program: a File (src/src/objects/file.c on stdio) or a    *)
(* FakeFile (<std>/io), the method `as` of FileLike and StringWrapper, and *)
(* one iterator over its lines, made by read_lines of StringWrapper and    *)
(* run by next of <std>/collections.  The program may use the file between *)
(* two lines, inside an `as` block and after it.  A byte is a newline, a   *)
(* letter, or one that no text may contain; decoding fails on that one.    *)
(* A failing operation throws, which ends the innermost `as` block.        *)
(***************************************************************************)
EXTENDS Integers, Sequences, SequencesExt

CONSTANTS
  FileKinds,   \* which of "File" and "FakeFile" there is
  MaxLength,   \* bound of the model: length of the content, of a read and of a write
  ChunkSize,   \* what read_lines asks read_chunk for
  MaxRead,     \* bound of the model: bytes the iterator reads
  MaxDepth     \* bound of the model: `as` blocks inside each other

Newline == "\n"
Byte == {Newline, "a", "bad"}
Contents == UNION {[1 .. n -> Byte] : n \in 0 .. MaxLength}

ASSUME FileAssumption ==
  /\ FileKinds \subseteq {"File", "FakeFile"}
  /\ MaxLength \in Nat /\ ChunkSize \in Nat \ {0}
  /\ MaxRead \in Nat /\ MaxDepth \in Nat

VARIABLES
  kind,      \* File or FakeFile
  readable, writable, \* how a File was opened
  content, pos, closed,
  misused,   \* stdio was given a FILE that had been closed; anything may follow
  depth,     \* `as` blocks that are running
  error,     \* the error on its way: "own" of the block, or "close", the
             \* ValueError of the close that `as` calls
  buffer, exhausted, \* of the iterator
  nexting,   \* its next is running
  seen,      \* what it has read
  lines      \* the lines it found, also those that could not be decoded
fileVars == << kind, readable, writable, content, pos, closed, misused, depth, error,
               buffer, exhausted, nexting, seen, lines >>
theFile == << content, pos, closed >>
iterator == << buffer, exhausted, nexting, seen, lines >>
mode == << kind, readable, writable >>

\* slice of ByteArrays
Cut(s, from, to) == SubSeq(s, from + 1, IF to < Len(s) THEN to ELSE Len(s))

NoIterator ==
  buffer = << >> /\ exhausted = FALSE /\ nexting = FALSE /\ seen = << >> /\ lines = << >>
NoFile ==
  /\ kind = "none" /\ readable = FALSE /\ writable = FALSE
  /\ content = << >> /\ pos = 0 /\ closed = FALSE
  /\ misused = FALSE /\ depth = 0 /\ error = "none"
  /\ NoIterator
\* newinstance of File, where "w" and "w+" empty the file, and setup of FakeFile
FileInit ==
  /\ kind \in FileKinds
  /\ readable \in BOOLEAN /\ writable \in BOOLEAN /\ (readable \/ writable)
  /\ kind = "FakeFile" => readable /\ writable
  /\ content \in Contents /\ (writable => content = << >>)
  /\ pos = 0 /\ closed = FALSE
  /\ misused = FALSE /\ depth = 0 /\ error = "none"
  /\ NoIterator

(***************************************************************************)
(* check_closed of file.c looks at fdata->closed, which nothing ever sets. *)
(***************************************************************************)
ClosedFlag == kind = "FakeFile" /\ closed
Raised(fails) == IF fails THEN "own" ELSE "none"
Throw == error' = "own" /\ UNCHANGED << theFile, misused >>
Misuse == misused' = TRUE /\ UNCHANGED << theFile, error >>
Fine == UNCHANGED << misused, error >>

ProgramRuns == kind # "none" /\ ~misused /\ error = "none" /\ ~nexting

\* A method with its checks: what it refuses, else what it does with an open file.
Method(refused, Effect) ==
  \/ (ClosedFlag \/ refused) /\ Throw
  \/ ~ClosedFlag /\ ~refused /\ closed /\ Misuse
  \/ ~ClosedFlag /\ ~refused /\ ~closed /\ Effect /\ Fine

Chunk(n) == Cut(content, pos, pos + n)
Advance(n) == pos' = pos + Len(Chunk(n)) /\ UNCHANGED << content, closed >>
\* read_chunk(0) is answered without stdio; a negative size is refused
ReadChunk(n) ==
  /\ ProgramRuns
  /\ IF kind = "File" /\ n = 0 THEN UNCHANGED << theFile, misused >> /\ error' = Raised(~readable)
     ELSE Method(kind = "File" /\ ~readable, Advance(n))
  /\ UNCHANGED << mode, depth, iterator >>

\* fwrite
External == INSTANCE ByteFile
Inserted(bytes) == Cut(content, 0, pos) \o bytes \o Cut(content, pos, Len(content))
Patched(bytes) ==
  Cut(content, 0, pos) \o bytes \o Cut(content, pos + Len(bytes), Len(content))
WriteBytes(bytes) ==
  /\ content' = IF kind = "File" THEN External!Overwritten(bytes, pos) ELSE Patched(bytes)
  /\ pos' = pos + Len(bytes)
  /\ UNCHANGED closed
\* fwrite of no bytes returns 0, which is taken for a failure
Write(bytes) ==
  /\ ProgramRuns /\ pos + Len(bytes) <= MaxLength
  /\ IF kind = "File" /\ writable /\ bytes = << >> /\ ~closed THEN Throw
     ELSE Method(kind = "File" /\ ~writable, WriteBytes(bytes))
  /\ UNCHANGED << mode, depth, iterator >>

\* positions after the end: the documentation leaves them open for a File
SetPos(p) ==
  /\ ProgramRuns
  /\ p <= Len(content)
  /\ Method(FALSE, pos' = p /\ UNCHANGED << content, closed >>)
  /\ UNCHANGED << mode, depth, iterator >>
GetPos == ProgramRuns /\ Method(FALSE, UNCHANGED theFile) /\ UNCHANGED << mode, depth, iterator >>
Flush ==
  /\ ProgramRuns
  /\ Method(kind = "File" /\ ~writable, UNCHANGED theFile)
  /\ UNCHANGED << mode, depth, iterator >>

CloseIt == closed' = TRUE /\ UNCHANGED << content, pos >>
Close == ProgramRuns /\ Method(FALSE, CloseIt) /\ UNCHANGED << mode, depth, iterator >>

(***************************************************************************)
(* as, and run_block_with_file_as_var: the block's error is kept until     *)
(* close has returned; when close throws, its own error travels instead.   *)
(***************************************************************************)
As ==
  /\ ProgramRuns /\ depth < MaxDepth
  /\ error' = Raised(ClosedFlag)
  /\ depth' = IF ClosedFlag THEN depth ELSE depth + 1
  /\ UNCHANGED << mode, theFile, misused, iterator >>

AsEndsClosing ==
  \/ ClosedFlag /\ error' = "close" /\ depth' = depth - 1 /\ UNCHANGED << theFile, misused >>
  \/ ~ClosedFlag /\ closed /\ Misuse /\ UNCHANGED depth
  \/ ~closed /\ CloseIt /\ depth' = depth - 1 /\ UNCHANGED << misused, error >>
AsEndsUncaught ==
  IF error # "none" THEN depth' = depth - 1 /\ UNCHANGED << theFile, misused, error >> ELSE AsEndsClosing
AsEnds == AsEndsClosing
EndOfBlock ==
  /\ depth > 0 /\ ~misused /\ ~nexting
  /\ AsEnds
  /\ UNCHANGED << mode, iterator >>

\* any other statement of the program throws, or a catch takes an error
Fail == ProgramRuns /\ error' = "own"
        /\ UNCHANGED << mode, theFile, misused, depth, iterator >>
Catch == error # "none" /\ ~misused /\ error' = "none"
         /\ UNCHANGED << mode, theFile, misused, depth, iterator >>

(***************************************************************************)
(* next of Iterator with the function of read_lines.  Its for loop looks   *)
(* for a newline, its while loop goes on until there is one.               *)
(***************************************************************************)
Next1 ==
  /\ ProgramRuns /\ Len(seen) + ChunkSize <= MaxRead
  /\ IF exhausted THEN error' = "own" /\ UNCHANGED nexting
     ELSE nexting' = TRUE /\ UNCHANGED error
  /\ UNCHANGED << mode, theFile, misused, depth, buffer, exhausted, seen, lines >>

FirstNewline == SelectInSeq(buffer, LAMBDA c : c = Newline)
HandOut(line, end, rest) ==
  /\ buffer' = rest /\ lines' = Append(lines, [text |-> line, end |-> end])
  /\ nexting' = FALSE /\ error' = Raised(Contains(line, "bad"))
  /\ UNCHANGED << exhausted, seen >>

AfterKeepingNewline(i) == Cut(buffer, i, Len(buffer))
After(i) == Cut(buffer, i + 1, Len(buffer))
LineFound ==
  /\ nexting /\ FirstNewline # 0
  /\ HandOut(Cut(buffer, 0, FirstNewline - 1), << Newline >>, After(FirstNewline - 1))
  /\ UNCHANGED << mode, theFile, misused, depth >>

ReadFails ==
  /\ nexting /\ FirstNewline = 0
  /\ ClosedFlag \/ ~readable
  /\ nexting' = FALSE /\ Throw
  /\ UNCHANGED << mode, depth, buffer, exhausted, seen, lines >>
ReadMisuses ==
  /\ nexting /\ FirstNewline = 0
  /\ ~ClosedFlag /\ readable /\ closed
  /\ Misuse /\ UNCHANGED << mode, depth, iterator >>
Reads == nexting /\ FirstNewline = 0 /\ readable /\ ~closed
ReadMore ==
  /\ Reads /\ Chunk(ChunkSize) # << >> /\ Advance(ChunkSize)
  /\ buffer' = buffer \o Chunk(ChunkSize) /\ seen' = seen \o Chunk(ChunkSize)
  /\ UNCHANGED << mode, misused, depth, error, exhausted, nexting, lines >>
LastLine ==
  /\ Reads /\ Chunk(ChunkSize) = << >> /\ buffer # << >>
  /\ HandOut(buffer, << >>, << >>)
  /\ UNCHANGED << mode, theFile, misused, depth >>
EndOfLines ==
  /\ Reads /\ Chunk(ChunkSize) = << >> /\ buffer = << >>
  /\ exhausted' = TRUE /\ nexting' = FALSE
  /\ UNCHANGED << mode, theFile, misused, depth, error, buffer, seen, lines >>

FileNext ==
  \/ \E n \in 0 .. MaxLength : ReadChunk(n)
  \/ \E bytes \in Contents : Write(bytes)
  \/ \E p \in 0 .. MaxLength : SetPos(p)
  \/ GetPos \/ Flush \/ Close
  \/ As \/ EndOfBlock \/ Fail \/ Catch
  \/ Next1 \/ LineFound \/ ReadFails \/ ReadMisuses \/ ReadMore \/ LastLine \/ EndOfLines

(***************************************************************************)
(* The lines of the iterator, in order and with their newlines, and what   *)
(* is in its buffer are exactly what it read, across the boundaries of     *)
(* chunks, and however the program moves the position, writes, fails or    *)
(* closes the file in between; a line that cannot be decoded costs only    *)
(* itself, and nothing is left when the iterator ends (io.ö:170).          *)
(***************************************************************************)
LinesComplete ==
  /\ FlattenSeq([i \in DOMAIN lines |-> lines[i].text \o lines[i].end]) \o buffer = seen
  /\ \A i \in DOMAIN lines : ~Contains(lines[i].text, Newline)
  /\ exhausted => buffer = << >>

(***************************************************************************)
(* Leaving an `as` block always leaves the file closed, and the error of   *)
(* the block goes on, none if it threw none; but if the file was closed    *)
(* already, the error is that of close (io.ö:9).                           *)
(***************************************************************************)
AsCloses ==
  [][depth' < depth => closed' /\ (error' = error \/ (closed /\ error' = "close"))]_fileVars

\* "If `block` throws an error, `file_like.close;` is called anyway and the
\* error is [rethrown]" (docs/std/io.md:99): no other error takes its place.
AsRethrows ==
  [][depth' < depth /\ error # "none" => error' = error]_fileVars

(***************************************************************************)
(* File and FakeFile do to their contents and positions what io.md says of *)
(* every FileLike; nothing changes once the file is closed (io.ö:113).     *)
(***************************************************************************)
ImplementsByteFile == External!Spec

(***************************************************************************)
(* "Accessing any attribute or calling any method listed below should      *)
(* raise a ValueError if .closed is true" (docs/std/io.md): stdio is never *)
(* given a FILE that was closed (file.c:305).                              *)
(***************************************************************************)
ClosedFilesRefused == ~misused
=============================================================================
