------------------------------- MODULE Aliases ------------------------------
(***************************************************************************)
(* Prefixing the names of a file that is imported under an alias           *)
(* (collectNames and prefix* of internal/devlang/resolve.go).              *)
(***************************************************************************)
EXTENDS Syntax

\* collectNames
collectNames(decls) ==
  {d.name : d \in {x \in Range(decls) :
     x.kind \in {"target", "fleet", "node", "let", "step", "primitive", "fn", "module"}}}

Qualify(prefix, name) == prefix \o Dot \o name

\* prefixIdent; names of failure policies and of types as well.
prefixIdent(x, prefix, local) == IF x \in local THEN Qualify(prefix, x) ELSE x

RECURSIVE prefixExpr(_, _, _)
prefixExpr(e, prefix, local) ==
  LET P(s) == prefixExpr(s, prefix, local)
  IN CASE e.k = "id"   -> Ident(prefixIdent(e.x, prefix, local))
       [] e.k = "call" -> [OverArguments(e, P) EXCEPT !.fn = prefixIdent(@, prefix, local)]
       [] OTHER        -> Descend(e, P)

\* Mutant: depends_on is not renamed.
prefixNodeDeclButOrder(d, prefix, local) ==
  LET P(x) == prefixIdent(x, prefix, local)
  IN [d EXCEPT !.name = IF "." \in Range(@) THEN @ ELSE P(@),
               !.type = P(@),
               !.targets = [i \in DOMAIN @ |-> P(@[i])],
               !.policy = P(@),
               !.inputs = [x \in DOMAIN @ |-> prefixExpr(@[x], prefix, local)]]
\* prefixNodeDecl: a name that already has a dot is left alone, the
\* references to it are not.
prefixNodeDecl(d, prefix, local) ==
  LET P(x) == prefixIdent(x, prefix, local)
  IN [d EXCEPT !.name = IF "." \in Range(@) THEN @ ELSE P(@),
               !.type = P(@),
               !.targets = [i \in DOMAIN @ |-> P(@[i])],
               !.deps = [i \in DOMAIN @ |-> P(@[i])],
               !.policy = P(@),
               !.inputs = [x \in DOMAIN @ |-> prefixExpr(@[x], prefix, local)]]

\* prefixDecl: for-loops and foreach blocks are left as they are.
RECURSIVE prefixDecl(_, _, _)
prefixDecl(d, prefix, local) ==
  LET Q(x) == Qualify(prefix, x)
      Each(ds) == [i \in DOMAIN ds |-> prefixDecl(ds[i], prefix, local)]
  IN CASE d.kind \in {"target", "fleet"} -> [d EXCEPT !.name = Q(@)]
       [] d.kind = "node"      -> prefixNodeDecl(d, prefix, local)
       [] d.kind = "let"       -> [d EXCEPT !.name = Q(@), !.value = prefixExpr(@, prefix, local)]
       [] d.kind = "step"      -> [d EXCEPT !.name = Q(@), !.body = prefixNodeDecl(@, prefix, local)]
       [] d.kind = "primitive" -> [d EXCEPT !.name = Q(@), !.body = Each(@)]
       [] d.kind = "fn"        -> [d EXCEPT !.name = Q(@), !.body = prefixExpr(@, prefix, local)]
       [] d.kind = "module"    -> [d EXCEPT !.name = Q(@), !.decls = Each(@)]
       [] OTHER                -> d

\* What a file with these declarations adds to one that imports it: everything
\* but imports and versions, prefixed when there is an alias.
PrefixedDecls(decls, alias) ==
  LET kept == SelectSeq(decls, LAMBDA d : d.kind \notin {"import", "version"})
  IN IF alias = Nil THEN kept
     ELSE [i \in DOMAIN kept |-> prefixDecl(kept[i], alias, collectNames(decls))]
=============================================================================
