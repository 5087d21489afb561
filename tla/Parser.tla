------------------------------- MODULE Parser -------------------------------
(***************************************************************************)
(* Expressions as they are written and read (internal/devlang/parser.go).  *)
(*                                                                         *)
(* The text of an expression is a sequence of tokens [t, v]: the token's   *)
(* type and, for names and literals, its value.  A parse function is given *)
(* the index of the current token and returns the expression, the index of *)
(* the expression's last token and whether there was no error; the token   *)
(* after that one is what the code peeks at.                               *)
(***************************************************************************)
EXTENDS Syntax

Token(type) == [t |-> type, v |-> Nil]
At(toks, i) == IF i <= Len(toks) THEN toks[i].t ELSE "EOF"

Parsed(e, at, ok) == [e |-> e, at |-> at, ok |-> ok]

\* Mutant: '+' binds more loosely than a comparison.
LevelsWithPlusFirst == << {"||"}, {"&&"}, {"+"}, {"==", "!="} >>
\* The levels of binary operators, from the one that binds least.
Levels == << {"||"}, {"&&"}, {"==", "!="}, {"+"} >>

RECURSIVE parseExpr(_, _), parseLevel(_, _, _), Chain(_, _, _), parsePrimary(_, _), Elements(_, _, _, _)

\* parseTernary
parseExpr(toks, i) ==
  LET c == parseLevel(toks, i, 1)
      t == parseExpr(toks, c.at + 2)
      f == parseExpr(toks, t.at + 2)
  IN IF At(toks, c.at + 1) # "?" THEN c
     ELSE IF At(toks, t.at + 1) # ":" THEN [c EXCEPT !.at = t.at, !.ok = FALSE]
     ELSE Parsed(TernaryExpr(c.e, t.e, f.e), f.at, c.ok /\ t.ok /\ f.ok)

\* parseLogicalOr, parseLogicalAnd, parseEquality and parseConcat.
parseLevel(toks, i, level) ==
  IF level > Len(Levels) THEN parsePrimary(toks, i)
  ELSE Chain(toks, parseLevel(toks, i, level + 1), level)

\* The rest of a chain of operators of a level; comparisons do not chain.
Chain(toks, left, level) ==
  LET op == At(toks, left.at + 1)
      right == parseLevel(toks, left.at + 2, level + 1)
      both == Parsed(BinaryExpr(op, left.e, right.e), right.at, left.ok /\ right.ok)
  IN IF op \notin Levels[level] THEN left
     ELSE IF level = 3 THEN both
     ELSE Chain(toks, both, level)

\* What a token that begins no expression is taken for.
Unexpected(i) == Parsed(StringLiteral(Nil), i, FALSE)

parseSecretRef(toks, i) ==
  IF At(toks, i + 2) # "string" THEN Parsed(SecretRef(Nil), i + 2, FALSE)
  ELSE Parsed(SecretRef(toks[i + 2].v), i + 3, At(toks, i + 3) = ")")

\* The comma between two elements may be missing.
Elements(toks, i, close, sofar) ==
  LET r == parseExpr(toks, i)
      next == IF At(toks, r.at + 1) = "," THEN r.at + 2 ELSE r.at + 1
  IN IF At(toks, i) \in {close, "EOF"}
     THEN [sofar EXCEPT !.at = i, !.ok = @ /\ At(toks, i) = close]
     ELSE Elements(toks, next, close, Parsed(Append(sofar.e, r.e), next, sofar.ok /\ r.ok))

parseFunctionCall(toks, i) ==
  LET args == Elements(toks, i + 2, ")", Parsed(<<>>, i + 2, TRUE))
  IN [args EXCEPT !.e = FunctionCall(toks[i].v, @)]
parseListLiteral(toks, i) ==
  LET elems == Elements(toks, i + 1, "]", Parsed(<<>>, i + 1, TRUE))
  IN [elems EXCEPT !.e = ListLiteral(@)]

parsePrimary(toks, i) ==
  CASE At(toks, i) = "string" -> Parsed(StringLiteral(toks[i].v), i, TRUE)
    [] At(toks, i) = "bool"   -> Parsed(BoolLiteral(toks[i].v), i, TRUE)
    [] At(toks, i) = "number" -> Parsed(NumberLiteral(toks[i].v), i, TRUE)
    [] At(toks, i) = "ident"  ->
         IF At(toks, i + 1) # "(" THEN Parsed(Ident(toks[i].v), i, TRUE)
         ELSE IF toks[i].v = <<"secret">> THEN parseSecretRef(toks, i)
         ELSE parseFunctionCall(toks, i)
    [] At(toks, i) = "["      -> parseListLiteral(toks, i)
    [] OTHER                  -> Unexpected(i)

\* The expression a text is, and whether it is one.
Read(toks) == parseExpr(toks, 1)
Reads(toks) == Read(toks).ok /\ Read(toks).at = Len(toks)

-----------------------------------------------------------------------------
(* The text of an expression.  There are no parentheses to write it with. *)

Valued(type, v) == << [t |-> type, v |-> v] >>
Sign(type) == << Token(type) >>

RECURSIVE Text(_)
Text(e) ==
  LET Listed(es) == FlattenSeq([i \in DOMAIN es |->
                      IF i = 1 THEN Text(es[i]) ELSE Sign(",") \o Text(es[i])])
  IN CASE e.k = "str"    -> Valued("string", e.s)
       [] e.k = "bool"   -> Valued("bool", e.b)
       [] e.k = "num"    -> Valued("number", e.n)
       [] e.k = "id"     -> Valued("ident", e.x)
       [] e.k = "secret" -> Valued("ident", <<"secret">>) \o Sign("(")
                            \o Valued("string", e.key) \o Sign(")")
       [] e.k = "call"   -> Valued("ident", e.fn) \o Sign("(") \o Listed(e.args) \o Sign(")")
       [] e.k = "list"   -> Sign("[") \o Listed(e.es) \o Sign("]")
       [] e.k = "bin"    -> Text(e.l) \o Sign(e.op) \o Text(e.r)
       [] e.k = "tern"   -> Text(e.c) \o Sign("?") \o Text(e.t) \o Sign(":") \o Text(e.f)
=============================================================================
