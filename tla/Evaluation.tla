------------------------------ MODULE Evaluation ----------------------------
(***************************************************************************)
(* Compile-time types and constant folding of expressions                  *)
(* (internal/devlang/types.go and eval.go).                                *)
(*                                                                         *)
(* Both walks follow an identifier into the let it names without looking   *)
(* where they have been, so lets that refer to each other end in a stack   *)
(* overflow.  StackDepth is how many lets deep the walks may be before the *)
(* stack is held to have overflowed; a file with fewer lets than that      *)
(* reaches it through a cycle only.                                        *)
(***************************************************************************)
EXTENDS Syntax

CONSTANT StackDepth

Type == {"string", "bool", "string[]"}
Overflow == "stack overflow"

\* Mutant: lists can be joined by '+', as strings are.
OperatorTypeOfLists(op, l, r) ==
  CASE op = "+" /\ l = r                                         -> l
    [] op \in {"&&", "||"} /\ l = "bool" /\ r = "bool"          -> "bool"
    [] op \in {"==", "!="} /\ l = r /\ l # "string[]"           -> "bool"
    [] OTHER                                                    -> "type mismatch"
\* The type of two operands, each already in Type.
OperatorType(op, l, r) ==
  CASE op = "+" /\ l = "string" /\ r = "string"                 -> "string"
    [] op \in {"&&", "||"} /\ l = "bool" /\ r = "bool"          -> "bool"
    [] op \in {"==", "!="} /\ l = r /\ l # "string[]"           -> "bool"
    [] OTHER                                                    -> "type mismatch"

\* The first of the results that is not a type, or what follows from them.
FirstFailing(results, otherwise) ==
  LET bad == {i \in DOMAIN results : results[i] \notin Type}
  IN IF bad = {} THEN otherwise ELSE results[Min(bad)]

RECURSIVE TypeAt(_, _, _)
TypeAt(e, lets, depth) ==
  LET T(s) == TypeAt(s, lets, depth)
  IN CASE e.k = "str"    -> "string"
       [] e.k = "bool"   -> "bool"
       [] e.k = "secret" -> "string"
       [] e.k = "list"   ->
            LET ts == [i \in DOMAIN e.es |->
                         LET t == T(e.es[i])
                         IN IF t \in Type \ {"string"} THEN "type mismatch" ELSE t]
            IN FirstFailing(ts, "string[]")
       [] e.k = "id" ->
            IF e.x \notin DOMAIN lets THEN "unresolved identifier"
            ELSE IF depth = 0 THEN Overflow
            ELSE TypeAt(lets[e.x], lets, depth - 1)
       [] e.k = "bin" ->
            LET l == T(e.l)  r == T(e.r)
            IN FirstFailing(<<l, r>>, OperatorType(e.op, l, r))
       [] e.k = "tern" ->
            LET c == IF T(e.c) \in Type \ {"bool"} THEN "type mismatch" ELSE T(e.c)
                t == T(e.t)
                f == T(e.f)
            IN IF c # "bool" THEN c
               ELSE FirstFailing(<<t, f>>, IF t = f THEN t ELSE "type mismatch")
       [] OTHER -> "unsupported expression"

typeCheckExpr(e, lets) == TypeAt(e, lets, StackDepth)

-----------------------------------------------------------------------------

\* What an operator makes of two literals.  Operands that are not of one of
\* the kinds compared are neither equal nor unequal.
Operate(op, l, r) ==
  LET strings == l.k = "str" /\ r.k = "str"
      bools == l.k = "bool" /\ r.k = "bool"
  IN CASE op = "+" -> IF strings THEN StringLiteral(l.s \o r.s) ELSE Failure("internal error")
       [] op = "&&" -> IF bools THEN BoolLiteral(l.b /\ r.b) ELSE Failure("internal error")
       [] op = "||" -> IF bools THEN BoolLiteral(l.b \/ r.b) ELSE Failure("internal error")
       [] op = "==" -> BoolLiteral((strings /\ l.s = r.s) \/ (bools /\ l.b = r.b))
       [] op = "!=" -> BoolLiteral((strings /\ l.s # r.s) \/ (bools /\ l.b # r.b))

\* The list of some values, or the first that is none.
ListOf(vs) ==
  LET bad == {i \in DOMAIN vs : vs[i].k = "fail"}
  IN IF bad = {} THEN ListLiteral(vs) ELSE vs[Min(bad)]

RECURSIVE ValueAt(_, _, _)
ValueAt(e, lets, depth) ==
  LET V(s) == ValueAt(s, lets, depth)
  IN CASE e.k \in {"str", "bool", "num", "secret"} -> e
       [] e.k = "list" ->
            ListOf([i \in DOMAIN e.es |-> V(e.es[i])])
       [] e.k = "id" ->
            IF e.x \notin DOMAIN lets THEN Failure("unresolved identifier")
            ELSE IF depth = 0 THEN Failure(Overflow)
            ELSE ValueAt(lets[e.x], lets, depth - 1)
       [] e.k = "bin" ->
            LET l == V(e.l)  r == V(e.r)
            IN IF l.k = "fail" THEN l ELSE IF r.k = "fail" THEN r ELSE Operate(e.op, l, r)
       [] e.k = "tern" ->
            LET c == V(e.c)
            IN IF c.k = "fail" THEN c
               ELSE IF c.k # "bool" THEN Failure("internal error")
               ELSE IF c.b THEN V(e.t) ELSE V(e.f)
       [] OTHER -> Failure("unsupported expression")

evaluateExpr(e, lets) == ValueAt(e, lets, StackDepth)
=============================================================================
