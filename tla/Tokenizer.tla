----------------------------- MODULE Tokenizer -----------------------------
(***************************************************************************)
(* token_ize (src/src/tokenizer.c): one action per turn of its loop.       *)
(* A character is a string of length one, a text is a sequence of them.    *)
(***************************************************************************)
EXTENDS IntegerValues

CONSTANT Letters    \* characters that unicode_isidentifier1st accepts

Quote == "\""
Spaces == {" ", "\n"}
Numerals == DOMAIN DigitOf
\* "'" stands for the backquote
Operators1 == {"{", "}", "[", "]", "(", ")", "=", ";", ".", ":", "'",
               "+", "-", "*", "/", "<", ">"}
Operators2 == {"=", "!", ">", "<"} \X {"="}
Escapes == {"n", "t", "\\", Quote}
ASSUME LettersAssumption ==
  Letters \cap (Spaces \cup {"#", Quote} \cup Operators1 \cup Numerals) = {}
NoToken == [kind |-> "none", text |-> << >>, lineno |-> 0]

VARIABLES
  text,        \* the file
  pos,         \* how much of it hugestring no longer has, plus one
  lineno,
  toks,        \* the linked list of tokens; empty when it is NULL
  stage        \* how far run has come
tokenVars == << text, pos, lineno, toks, stage >>

StartTokenizing ==
  /\ pos = 1 /\ lineno = 1 /\ toks = << >>
  /\ stage = "tokenizing"

Left == Len(text) - pos + 1
Char == text[pos]
Is2(i, S) == i < Len(text) /\ << text[i], text[i + 1] >> \in S
\* how many characters of a set there are from i on
Width(i, S) ==
  LET stop == SelectInSubSeq(text, i, Len(text), LAMBDA c : c \notin S)
  IN  (IF stop = 0 THEN Len(text) + 1 ELSE stop) - i

Token(kind, nchars) ==
  /\ toks' = Append(toks, [kind |-> kind, text |-> SubSeq(text, pos, pos + nchars - 1),
                           lineno |-> lineno])
  /\ pos' = pos + nchars
  /\ UNCHANGED << text, lineno, stage >>

\* goto error: the tokens are freed, NULL is returned, and run goes on with it
TokenError ==
  /\ toks' = << >>
  /\ stage' = "parsing"
  /\ UNCHANGED << text, pos, lineno >>

Space ==
  /\ Char \in Spaces
  /\ lineno' = IF Char = "\n" THEN lineno + 1 ELSE lineno
  /\ pos' = pos + 1
  /\ UNCHANGED << text, toks, stage >>

\* mutant: the last character of the file is not seen as part of the comment
CommentButLast ==
  /\ Char = "#"
  /\ pos' = LET next == pos + Width(pos, {text[i] : i \in DOMAIN text} \ {"\n"})
            IN  IF next > Len(text) THEN Len(text) ELSE next
  /\ UNCHANGED << text, lineno, toks, stage >>
\* mutant: the newline goes with the comment
CommentAndNewline ==
  /\ Char = "#"
  /\ pos' = LET next == pos + Width(pos, {text[i] : i \in DOMAIN text} \ {"\n"})
            IN  IF next > Len(text) THEN next ELSE next + 1
  /\ UNCHANGED << text, lineno, toks, stage >>
Comment ==
  /\ Char = "#"
  /\ pos' = pos + Width(pos, {text[i] : i \in DOMAIN text} \ {"\n"})
  /\ UNCHANGED << text, lineno, toks, stage >>

Operator ==
  \/ Is2(pos, Operators2) /\ Token("op", 2)
  \/ ~Is2(pos, Operators2) /\ Char \in Operators1 /\ Token("op", 1)

\* the loop looks at the character after var, so there must be one
IsVar ==
  /\ Left >= 4 /\ SubSeq(text, pos, pos + 2) = << "v", "a", "r" >>
  /\ text[pos + 3] \notin Letters \cup Numerals
Var == IsVar /\ Token("keyword", 3)

\* where the string that is open at i ends; 0 if it does not
StringEnd[i \in 1 .. Len(text) + 1] ==
  IF i > Len(text) \/ text[i] = "\n" THEN 0
  ELSE IF text[i] = Quote THEN i
  ELSE IF text[i] # "\\" THEN StringEnd[i + 1]
  ELSE IF i < Len(text) /\ text[i + 1] \in Escapes THEN StringEnd[i + 2] ELSE 0
StrLiteral ==
  /\ Char = Quote
  /\ LET end == StringEnd[pos + 1]
     IN  IF end = 0 THEN TokenError ELSE Token("str", end - pos + 1)

\* no leading zeros
check_integer(nchars) == nchars = 1 \/ Char # "0"
IntLiteral ==
  /\ Char \in Numerals
  /\ LET nchars == Width(pos, Numerals)
     IN  IF check_integer(nchars) THEN Token("int", nchars) ELSE TokenError

Identifier ==
  Char \in Letters /\ ~IsVar /\ Token("id", Width(pos, Letters \cup Numerals))

Unknown ==
  /\ Char \notin Spaces \cup {"#", Quote} \cup Operators1 \cup Numerals \cup Letters
  /\ ~Is2(pos, Operators2)
  /\ TokenError

\* curtok->next = NULL writes through a null pointer if there are no tokens
EndOfText ==
  /\ Left = 0
  /\ stage' = IF toks = << >> THEN "crashed" ELSE "parsing"
  /\ UNCHANGED << text, pos, lineno, toks >>

Tokenize ==
  /\ stage = "tokenizing"
  /\ \/ EndOfText
     \/ Left > 0 /\ (\/ Space \/ Comment \/ Operator \/ Var
                     \/ StrLiteral \/ IntLiteral \/ Identifier \/ Unknown)

\* the rest of run leaves the tokens as they are
Later ==
  /\ stage # "tokenizing" /\ stage' # "tokenizing"
  /\ UNCHANGED << text, pos, lineno, toks >>
\* the tokenizer by itself, for any text
TokenSpec ==
  /\ text \in Seq(ToSet(text)) /\ StartTokenizing
  /\ [][Tokenize \/ Later]_tokenVars
-----------------------------------------------------------------------------
(***************************************************************************)
(* The characters of s that are not white space or in a comment, each with *)
(* its line, as the syntax specification describes them.                   *)
(***************************************************************************)
NothingRead == [mode |-> "code", line |-> 1, out |-> << >>]
ReadChar(acc, c) ==
  LET here == [acc EXCEPT !.line = IF c = "\n" THEN @ + 1 ELSE @]
      seen == [here EXCEPT !.out = Append(@, << c, acc.line >>)]
  IN  CASE acc.mode = "comment" ->
             [here EXCEPT !.mode = IF c = "\n" THEN "code" ELSE "comment"]
        [] acc.mode = "string" ->
             [seen EXCEPT !.mode = CASE c = Quote -> "code" [] c = "\\" -> "escape"
                                     [] OTHER -> "string"]
        [] acc.mode = "escape" -> [seen EXCEPT !.mode = "string"]
        [] acc.mode = "code" /\ c = "#" -> [here EXCEPT !.mode = "comment"]
        [] acc.mode = "code" /\ c \in Spaces -> here
        [] OTHER -> [seen EXCEPT !.mode = IF c = Quote THEN "string" ELSE "code"]
ReadAll(s) ==
  LET read[i \in 0 .. Len(s)] == IF i = 0 THEN NothingRead ELSE ReadChar(read[i - 1], s[i])
  IN  read[Len(s)]
Visible(s) == ReadAll(s).out

(***************************************************************************)
(* The tokens are the text that has been read, without white space and     *)
(* comments and in order, and each knows the line it is on: stack traces   *)
(* show these lines (tokenizer.c, 73 to 200).                              *)
(***************************************************************************)
TokensAreTheText ==
  toks # << >> =>
    FlattenSeq([i \in DOMAIN toks |->
      [j \in DOMAIN toks[i].text |-> << toks[i].text[j], toks[i].lineno >>]])
      = Visible(SubSeq(text, 1, pos - 1))
=============================================================================
