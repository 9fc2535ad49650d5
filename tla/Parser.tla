------------------------------- MODULE Parser -------------------------------
(***************************************************************************)
(* The parser (src/src/parse.c) and what run does before it runs anything  *)
(* (src/src/run.c, 34 to 64).  A parse function that begins at token i     *)
(* gives a node and the index of the token after it.  The line numbers of  *)
(* the nodes, which only stack traces show, are left out.                  *)
(***************************************************************************)
EXTENDS Tokenizer

VARIABLES
  curtok,      \* the token that is looked at next
  statements   \* the nodes of the statements
vars == << tokenVars, curtok, statements >>

\* a failing assertion or NULL->kind; and a ValueError
Abort == [node |-> "none", at |-> 0]
Throw == [node |-> "none", at |-> -1]
At(node, i) == [node |-> node, at |-> i]
Then(result, Go(_, _)) ==
  CHOOSE r \in {IF r.at < 1 THEN r ELSE Go(r.node, r.at) : r \in {result}} : TRUE

Tok(i) == IF i \in DOMAIN toks THEN toks[i] ELSE NoToken
IsOp(i, op) == Tok(i).text = << op >> /\ Tok(i).kind = "op"
IsId(i) == Tok(i).kind = "id"

NoOpts == [name \in {} |-> 0]
Str(s) == [kind |-> "str", str |-> s]
Integer(n) == [kind |-> "int", int |-> n]
GetVar(name) == [kind |-> "getvar", var |-> name]
GetAttr(obj, name) == [kind |-> "getattr", obj |-> obj, attr |-> name]
Array(elements) == [kind |-> "array", elements |-> elements]
Block(stmts) == [kind |-> "block", statements |-> stmts]
Call(func, args, opts) == [kind |-> "call", func |-> func, args |-> args, opts |-> opts]
OpCall(op, lhs, rhs) == [kind |-> "opcall", op |-> op, lhs |-> lhs, rhs |-> rhs]
CreateVar(name, val) == [kind |-> "createvar", create |-> name, val |-> val]
SetVar(name, val) == [kind |-> "setvar", set |-> name, val |-> val]
SetAttr(obj, name, val) == [kind |-> "setattr", obj |-> obj, attr |-> name, val |-> val]
ReturnCall(node) == Call(GetVar(<< "r", "e", "t", "u", "r", "n" >>), << node >>, NoOpts)

\* parse_string: what is between the quotes, with each escape replaced
Unescaped(s) ==
  FoldLeft(LAMBDA acc, c :
             IF acc.escape
             THEN [escape |-> FALSE,
                   out |-> Append(acc.out, CASE c = "n" -> "\n" [] c = "t" -> "\t" [] OTHER -> c)]
             ELSE IF c = "\\" THEN [acc EXCEPT !.escape = TRUE]
             ELSE [acc EXCEPT !.out = Append(@, c)],
           [escape |-> FALSE, out |-> << >>], SubSeq(s, 2, Len(s) - 1)).out

expression_coming_up(i) ==
  Tok(i).kind \in {"str", "int", "id"} \/ \E op \in {"(", "{", "["} : IsOp(i, op)

\* bracecount at token j of a block whose first token is i
Depth(i, j) ==
  1 + Cardinality({k \in i .. j - 1 : IsOp(k, "{")})
    - Cardinality({k \in i .. j - 1 : IsOp(k, "}")})
\* the first ; of the block itself, or its }
BlockMarks(i) ==
  {j \in i .. Len(toks) : (IsOp(j, ";") \/ IsOp(j, "}")) /\ Depth(i, j) = 1}

\* the assertion on a closing token, which is then skipped
Closed(result, op) ==
  Then(result, LAMBDA node, i : IF IsOp(i, op) THEN At(node, i + 1) ELSE Abort)

RECURSIVE parse_expression(_), parse_statement(_), parse_attributes(_, _),
          parse_call(_, _, _, _), parse_array(_, _), parse_statements(_, _)

parse_call(func, i, args, opts) ==
  IF ~expression_coming_up(i) THEN At(Call(func, args, opts), i)
  ELSE IF IsId(i) /\ IsOp(i + 1, ":")
  THEN Then(parse_expression(i + 2),
            LAMBDA val, j : parse_call(func, j, args, (Tok(i).text :> val) @@ opts))
  ELSE Then(parse_expression(i),
            LAMBDA arg, j : parse_call(func, j, Append(args, arg), opts))

parse_infix_call(arg1, i) ==
  Then(Closed(parse_expression(i + 1), "'"),
       LAMBDA func, j : Then(parse_expression(j),
         LAMBDA arg2, k : At(Call(func, << arg1, arg2 >>, NoOpts), k)))

parse_operator_call(lhs, i) ==
  Then(parse_expression(i + 1), LAMBDA rhs, j : At(OpCall(Tok(i).text, lhs, rhs), j))

IsBinary(i) ==
  Tok(i).kind = "op" /\ (\/ Tok(i).text \in Operators2
                         \/ \E op \in {"+", "-", "*", "/", "<", ">"} : IsOp(i, op))
parse_call_expression(i) ==
  Then(parse_expression(i + 1), LAMBDA first, j :
    Closed(CASE IsOp(j, "'") -> parse_infix_call(first, j)
             [] IsBinary(j) -> parse_operator_call(first, j)
             [] OTHER -> parse_call(first, j, << >>, NoOpts), ")"))

parse_array(i, elements) ==
  IF IsOp(i, "]") THEN At(Array(elements), i + 1)
  ELSE Then(parse_expression(i), LAMBDA elem, j : parse_array(j, Append(elements, elem)))

parse_statements(i, stmts) ==
  IF IsOp(i, "}") THEN At(Block(stmts), i + 1)
  ELSE Then(parse_statement(i), LAMBDA stmt, j : parse_statements(j, Append(stmts, stmt)))

parse_block(i) ==
  CASE IsOp(i + 1, "}") -> At(Block(<< >>), i + 2)
    [] ~IsOp(i + 1, "}") /\ BlockMarks(i + 1) = {} -> Abort
    [] OTHER ->
         IF IsOp(Min(BlockMarks(i + 1)), ";") THEN parse_statements(i + 1, << >>)
         ELSE Closed(Then(parse_expression(i + 1),
                          LAMBDA node, j : At(Block(<< ReturnCall(node) >>), j)), "}")

parse_attributes(obj, i) ==
  CASE ~IsOp(i, ".") -> At(obj, i)
    [] IsOp(i, ".") /\ IsId(i + 1) -> parse_attributes(GetAttr(obj, Tok(i + 1).text), i + 2)
    [] IsOp(i, ".") /\ IsOp(i + 1, "(") /\ IsId(i + 2) ->
         Then(Closed(parse_call(GetAttr(obj, Tok(i + 2).text), i + 3, << >>, NoOpts), ")"),
              parse_attributes)
    [] OTHER -> Abort

parse_int(i) ==
  LET n == parse_ustr(Tok(i).text) IN IF n.ok THEN At(Integer(n.val), i + 1) ELSE Throw

parse_expression(i) ==
  Then(CASE Tok(i).kind = "str" -> At(Str(Unescaped(Tok(i).text)), i + 1)
         [] Tok(i).kind = "int" -> parse_int(i)
         [] Tok(i).kind = "id" -> At(GetVar(Tok(i).text), i + 1)
         [] IsOp(i, "[") -> parse_array(i + 1, << >>)
         [] IsOp(i, "{") -> parse_block(i)
         [] IsOp(i, "(") -> parse_call_expression(i)
         [] OTHER -> Abort,
       parse_attributes)

parse_var_statement(i) ==
  IF IsId(i + 1) /\ IsOp(i + 2, "=")
  THEN Then(parse_expression(i + 3), LAMBDA val, j : At(CreateVar(Tok(i + 1).text, val), j))
  ELSE Abort

parse_assignment(lhs, i) ==
  IF lhs.kind \notin {"getvar", "getattr"} THEN Abort
  ELSE Then(parse_expression(i + 1), LAMBDA val, j :
         At(IF lhs.kind = "getvar" THEN SetVar(lhs.var, val)
                                   ELSE SetAttr(lhs.obj, lhs.attr, val), j))

parse_statement(i) ==
  Closed(IF Tok(i).kind = "keyword" THEN parse_var_statement(i)
         ELSE Then(parse_expression(i), LAMBDA first, j :
                CASE IsOp(j, "=") -> parse_assignment(first, j)
                  [] IsOp(j, "'") -> parse_infix_call(first, j)
                  [] OTHER -> parse_call(first, j, << >>, NoOpts)), ";")
-----------------------------------------------------------------------------
Start == StartTokenizing /\ curtok = 1 /\ statements = << >>

\* run: while (curtok) parse_statement
Parse ==
  /\ stage = "parsing" /\ curtok \in DOMAIN toks
  /\ LET result == parse_statement(curtok)
     IN  /\ stage' = CASE result.at = 0 -> "crashed" [] result.at = -1 -> "failed"
                       [] OTHER -> stage
         /\ statements' = IF result.at < 1 THEN << >> ELSE Append(statements, result.node)
         /\ curtok' = IF result.at < 1 THEN curtok ELSE result.at
  /\ UNCHANGED << text, pos, lineno, toks >>

\* there are no more tokens: now the statements run
RunStatements ==
  /\ stage = "parsing" /\ curtok \notin DOMAIN toks
  /\ stage' = "running"
  /\ UNCHANGED << text, pos, lineno, toks, curtok, statements >>

Next ==
  \/ Tokenize /\ UNCHANGED << curtok, statements >>
  \/ Parse
  \/ RunStatements
=============================================================================
