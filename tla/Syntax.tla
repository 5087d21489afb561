-------------------------------- MODULE Syntax ------------------------------
(***************************************************************************)
(* The syntax tree of a .devops file, as the parser leaves it.             *)
(*                                                                         *)
(* A name, and the text of a string literal, is a sequence of tokens.  The *)
(* dot of a qualified name and the brackets of a placeholder "${x}" are    *)
(* tokens of their own; the name of a built-in type or function is one     *)
(* token, and so is every other run of characters.  The empty sequence     *)
(* stands for a field that was left out (nil in the code).  A file is the  *)
(* sequence of its declarations; positions and wording are left out.       *)
(***************************************************************************)
EXTENDS Integers, Sequences, SequencesExt

Nil == <<>>
Dot == <<".">>
Placeholder(x) == <<"${">> \o x \o <<"}">>

-----------------------------------------------------------------------------
(* Expressions *)

Ident(x) == [k |-> "id", x |-> x]
StringLiteral(s) == [k |-> "str", s |-> s]
BoolLiteral(b) == [k |-> "bool", b |-> b]
NumberLiteral(n) == [k |-> "num", n |-> n]
ListLiteral(es) == [k |-> "list", es |-> es]
BinaryExpr(op, l, r) == [k |-> "bin", op |-> op, l |-> l, r |-> r]
TernaryExpr(c, t, f) == [k |-> "tern", c |-> c, t |-> t, f |-> f]
SecretRef(key) == [k |-> "secret", key |-> key]
FunctionCall(fn, args) == [k |-> "call", fn |-> fn, args |-> args]
MapLiteral(m) == [k |-> "map", m |-> m]

\* An expression that is not there, and one whose evaluation ended in an error.
NilExpr == [k |-> "nil"]
Failure(msg) == [k |-> "fail", msg |-> msg]

\* An expression with F applied to the expressions it is directly made of;
\* calls are left to the walks that enter them.
Descend(e, F(_)) ==
  CASE e.k = "list" -> ListLiteral([i \in DOMAIN e.es |-> F(e.es[i])])
    [] e.k = "bin"  -> BinaryExpr(e.op, F(e.l), F(e.r))
    [] e.k = "tern" -> TernaryExpr(F(e.c), F(e.t), F(e.f))
    [] OTHER        -> e

\* A call with F applied to its arguments.
OverArguments(e, F(_)) == FunctionCall(e.fn, [i \in DOMAIN e.args |-> F(e.args[i])])

\* allStringLits: a list that is not empty and holds string literals only.
allStringLits(es) == es # <<>> /\ \A i \in DOMAIN es : es[i].k = "str"

-----------------------------------------------------------------------------
(* Declarations *)

\* The v0.8 contract of a node: each field is left out or given.
NoContract == [idempotent |-> Nil, sideEffects |-> Nil, retry |-> Nil, rollbackCmd |-> Nil]

NodeDecl(name, type, targets, deps, policy, inputs, contract) ==
  [kind |-> "node", name |-> name, type |-> type, targets |-> targets, deps |-> deps,
   policy |-> policy, inputs |-> inputs, contract |-> contract]

VersionDecl(v) == [kind |-> "version", version |-> v]
TargetDecl(name, address, labels) ==
  [kind |-> "target", name |-> name, address |-> address, labels |-> labels]
FleetDecl(name, match) == [kind |-> "fleet", name |-> name, match |-> match]
LetDecl(name, value) == [kind |-> "let", name |-> name, value |-> value]
ForDecl(varName, range, body) ==
  [kind |-> "for", varName |-> varName, range |-> range, body |-> body]
\* A step's body is a node of the step's name; a parameter is a name and a
\* default, NilExpr when it must be given.
StepDecl(name, params, body) ==
  [kind |-> "step", name |-> name, params |-> params, body |-> body]
ModuleDecl(name, decls) == [kind |-> "module", name |-> name, decls |-> decls]
ImportDecl(path, alias) == [kind |-> "import", path |-> path, alias |-> alias]
FnDecl(name, params, body) ==
  [kind |-> "fn", name |-> name, params |-> params, body |-> body]
\* prepare is a sequence of bindings, probe and desired map field names to
\* expressions, all empty when the block is left out.
PrimitiveDecl(name, inputs, prepare, body, contract, probe, desired) ==
  [kind |-> "primitive", name |-> name, inputs |-> inputs, prepare |-> prepare,
   body |-> body, contract |-> contract, probe |-> probe, desired |-> desired]
ForeachBodyDecl(varName, range, body) ==
  [kind |-> "foreach", varName |-> varName, range |-> range, body |-> body]

\* A label that a target does not have is the empty string.
Label(t, key) == IF key \in DOMAIN t.labels THEN t.labels[key] ELSE ""
Matches(t, fleet) == \A key \in DOMAIN fleet.match : Label(t, key) = fleet.match[key]

-----------------------------------------------------------------------------
(* Tables of a file's declarations *)

Decls(file, kind) == SelectSeq(file, LAMBDA d : d.kind = kind)
Named(file, kind) == {d.name : d \in Range(Decls(file, kind))}

\* The declarations of a kind by name; of several the first is kept, or the last.
FirstTable(file, kind) ==
  LET ds == Decls(file, kind)
  IN [n \in Named(file, kind) |-> ds[Min({i \in DOMAIN ds : ds[i].name = n})]]
LastTable(file, kind) ==
  LET ds == Decls(file, kind)
  IN [n \in Named(file, kind) |-> ds[Max({i \in DOMAIN ds : ds[i].name = n})]]

DeclaredTwice(file, kind) ==
  LET ds == Decls(file, kind)
  IN {ds[i].name : i \in {j \in DOMAIN ds : \E h \in 1..(j - 1) : ds[h].name = ds[j].name}}

\* f, with the entries of g added or in the place of its own.
Overlay(f, g) == [x \in DOMAIN f \cup DOMAIN g |-> IF x \in DOMAIN g THEN g[x] ELSE f[x]]
=============================================================================
