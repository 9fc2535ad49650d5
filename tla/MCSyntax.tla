------------------------------ MODULE MCSyntax ------------------------------
EXTENDS Grammar

MCLetters == {"v", "a", "r", "n"}
x == << "a" >>
y == << "v", "a", "r", "1" >>
Leaves == {GetVar(x), GetVar(y), Integer(10), Str(<< "n", "\n", "\"", "\\", "#" >>)}
Around(e) ==
  {GetAttr(e, x), Array(<< e >>), Array(<< GetVar(y), e >>), Implicit(e),
   Block(<< SetVar(x, e) >>), Block(<< Invoke(GetVar(x), << >>), CreateVar(y, e) >>),
   Invoke(e, << >>), Invoke(GetVar(x), << Arg(e), Opt(y, e), Arg(Integer(1)) >>),
   Invoke(GetVar(y), << Opt(x, GetVar(x)), Opt(x, e) >>),
   Infix(e, GetVar(x), GetVar(y)), Infix(GetVar(x), e, e),
   Dotparen(e, x, << >>), Dotparen(GetVar(y), x, << Arg(e), Opt(x, e) >>)}
  \cup {OpCall(op, e, GetVar(x)) : op \in {<< "<" >>, << "<", "=" >>, << "=", "=" >>, << "-" >>}}
Nested == UNION {Around(e) : e \in Leaves}
Expressions == Nested \cup UNION {Around(e) : e \in Nested}
StatementsWith(e) ==
  {CreateVar(x, e), SetVar(y, e), SetAttr(e, x, GetVar(y)),
   Invoke(e, << >>), Infix(e, GetVar(x), e)}
MCPrograms ==
  {<< s >> : s \in UNION {StatementsWith(e) : e \in Expressions}}
  \cup {<< s, Invoke(GetVar(y), << Arg(Implicit(GetVar(x))) >>), s >> :
          s \in UNION {StatementsWith(e) : e \in Nested}}
Alphabet == {"v", "a", "r", "0", "=", "!", "\"", "\\", "#", "\n", ";"}
MCTexts == BoundedSeq(Alphabet, 4)
=============================================================================
