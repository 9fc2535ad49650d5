------------------------------ MODULE Grammar ------------------------------
(***************************************************************************)
(* The syntax that docs/syntax-spec.md gives to programs, as the reference *)
(* the parser is checked against: programs with their syntactic sugar, the *)
(* text each is written as, and the nodes it means.                        *)
(***************************************************************************)
EXTENDS Parser

CONSTANTS
  Programs,   \* sequences of statements with sugar
  Texts       \* other contents of files

VARIABLE program   \* what the text was written for, if anything

\* expressions that are not nodes but mean one; an argument of a call is an
\* expression, or a name with an expression
Invoke(func, args) == [kind |-> "invoke", func |-> func, args |-> args]
Infix(arg1, func, arg2) == [kind |-> "infix", arg1 |-> arg1, func |-> func, arg2 |-> arg2]
Dotparen(obj, name, args) == [kind |-> "dotparen", obj |-> obj, attr |-> name, args |-> args]
Implicit(node) == [kind |-> "implicit", node |-> node]
Arg(node) == [name |-> << >>, val |-> node]
Opt(name, node) == [name |-> name, val |-> node]
Optional(arg) == arg.name # << >>

Escaped(s) ==
  FlattenSeq([i \in DOMAIN s |-> CASE s[i] = "\n" -> << "\\", "n" >> [] s[i] = "\t" -> << "\\", "t" >>
                                   [] s[i] \in {"\\", "\""} -> << "\\", s[i] >>
                                   [] OTHER -> << s[i] >>])

RECURSIVE Words(_), StatementWords(_), Meaning(_)
AllWords(nodes) == FlattenSeq([i \in DOMAIN nodes |-> Words(nodes[i])])
ArgWords(args) ==
  FlattenSeq([i \in DOMAIN args |->
    (IF Optional(args[i]) THEN << args[i].name, << ":" >> >> ELSE << >>) \o Words(args[i].val)])
Op(c) == << << c >> >>
InfixWords(e) ==
  Words(e.arg1) \o Op("'") \o Words(e.func) \o Op("'") \o Words(e.arg2)

\* the words an expression is written with
Words(e) ==
  CASE e.kind = "str" -> << << "\"" >> \o Escaped(e.str) \o << "\"" >> >>
    [] e.kind = "int" -> << to_string(e.int) >>
    [] e.kind = "getvar" -> << e.var >>
    [] e.kind = "getattr" -> Words(e.obj) \o Op(".") \o << e.attr >>
    [] e.kind = "array" -> Op("[") \o AllWords(e.elements) \o Op("]")
    [] e.kind = "block" ->
         Op("{") \o FlattenSeq([i \in DOMAIN e.statements |-> StatementWords(e.statements[i])]) \o Op("}")
    [] e.kind = "implicit" -> Op("{") \o Words(e.node) \o Op("}")
    [] e.kind = "invoke" -> Op("(") \o Words(e.func) \o ArgWords(e.args) \o Op(")")
    [] e.kind = "infix" -> Op("(") \o InfixWords(e) \o Op(")")
    [] e.kind = "opcall" -> Op("(") \o Words(e.lhs) \o << e.op >> \o Words(e.rhs) \o Op(")")
    [] e.kind = "dotparen" ->
         Words(e.obj) \o Op(".") \o Op("(") \o << e.attr >> \o ArgWords(e.args) \o Op(")")

StatementWords(s) ==
  CASE s.kind = "createvar" -> << << "v", "a", "r" >>, s.create >> \o Op("=") \o Words(s.val) \o Op(";")
    [] s.kind = "setvar" -> << s.set >> \o Op("=") \o Words(s.val) \o Op(";")
    [] s.kind = "setattr" -> Words(s.obj) \o Op(".") \o << s.attr >> \o Op("=") \o Words(s.val) \o Op(";")
    [] s.kind = "invoke" -> Words(s.func) \o ArgWords(s.args) \o Op(";")
    [] s.kind = "infix" -> InfixWords(s) \o Op(";")

\* a space only where two words would be read as one
Written(words) ==
  LET Wordy == Letters \cup Numerals
      Glue(acc, w) ==
        IF acc # << >> /\ Last(acc) \in Wordy /\ Head(w) \in Wordy THEN acc \o << " " >> \o w
        ELSE acc \o w
  IN  FoldLeft(Glue, << >>, words)

\* "Giving two or more optional arguments with same names is a syntax error"
\* (docs/syntax-spec.md:158), but not in the code: parse_call lets the last of
\* them win (parse.c:192).  Here the grammar follows the code.
AllMeanings(nodes) == [i \in DOMAIN nodes |-> Meaning(nodes[i])]
CallMeaning(func, args) ==
  LET plain == SelectSeq(args, LAMBDA arg : ~Optional(arg))
      opts == SelectSeq(args, Optional)
  IN  Call(func, [i \in DOMAIN plain |-> Meaning(plain[i].val)],
           [name \in {opts[i].name : i \in DOMAIN opts} |->
              Meaning(opts[Max({i \in DOMAIN opts : opts[i].name = name})].val)])

\* the nodes for a statement or an expression
Meaning(e) ==
  CASE e.kind \in {"str", "int", "getvar"} -> e
    [] e.kind = "getattr" -> GetAttr(Meaning(e.obj), e.attr)
    [] e.kind = "array" -> Array(AllMeanings(e.elements))
    [] e.kind = "block" -> Block(AllMeanings(e.statements))
    [] e.kind = "implicit" -> Block(<< ReturnCall(Meaning(e.node)) >>)
    [] e.kind = "invoke" -> CallMeaning(Meaning(e.func), e.args)
    [] e.kind = "infix" -> CallMeaning(Meaning(e.func), << Arg(e.arg1), Arg(e.arg2) >>)
    [] e.kind = "opcall" -> OpCall(e.op, Meaning(e.lhs), Meaning(e.rhs))
    [] e.kind = "dotparen" -> CallMeaning(GetAttr(Meaning(e.obj), e.attr), e.args)
    [] e.kind = "createvar" -> CreateVar(e.create, Meaning(e.val))
    [] e.kind = "setvar" -> SetVar(e.set, Meaning(e.val))
    [] e.kind = "setattr" -> SetAttr(Meaning(e.obj), e.attr, Meaning(e.val))

TextOf(stmts) == Written(FlattenSeq([i \in DOMAIN stmts |-> StatementWords(stmts[i])]))
-----------------------------------------------------------------------------
Init ==
  /\ \/ program \in Programs /\ text = TextOf(program)
     \/ program = << >> /\ text \in Texts
  /\ Start
Read == Next /\ UNCHANGED program
Spec == Init /\ [][Read]_<< vars, program >> /\ WF_<< vars, program >>(Read)


(***************************************************************************)
(* Every turn of the loops takes a character or a token, so that any file  *)
(* is run, refused or crashes the interpreter in the end (tokenizer.c, 84  *)
(* to 198; run.c, 50 to 64).                                               *)
(***************************************************************************)
ReadingEnds == <>(stage \in {"running", "failed", "crashed"})
=============================================================================
