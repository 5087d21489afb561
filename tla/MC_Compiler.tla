------------------------------ MODULE MC_Compiler -----------------------------
(***************************************************************************)
(* Small source files for TLC to run the compiler on, by language feature. *)
(***************************************************************************)
EXTENDS Compiler

x == <<"x">>
y == <<"y">>
z == <<"z">>
a == <<"a">>
b == <<"b">>
c == <<"c">>
n == <<"n">>
p == <<"p">>
q == <<"q">>
h1 == <<"h1">>
h2 == <<"h2">>
exec == <<"process.exec">>
cmd == <<"cmd">>

Str(s) == StringLiteral(<<s>>)
Command(s) == cmd :> ListLiteral(<<Str(s)>>)
Of(name, e) == name :> e

Host(t) == TargetDecl(t, <<"addr">>, "role" :> "web")
Node(name, type, deps, inputs) == NodeDecl(name, type, <<h1>>, deps, Nil, inputs, NoContract)
Step(name, params, type, inputs) ==
  StepDecl(name, params, [Node(name, type, <<>>, inputs) EXCEPT !.targets = <<>>])
Param(name) == [name |-> name, default |-> NilExpr]
Import(path, alias) == ImportDecl(path, alias)

\* A library that can be read, and one with the text archive.devops has.
Library == [texts |-> {Text(ListLiteral(<<Str("s"), Ident(x)>>))},
            primitives |-> Of(<<"lib">>, PrimitiveDecl(<<"lib">>, <<cmd>>, <<>>,
              <<[Node(x, exec, <<>>, Of(cmd, Ident(<<"inputs", ".", "cmd">>))) EXCEPT !.targets = <<>>]>>,
              NoContract, <<>>, <<>>))]
EmbeddedLibrary ==
  [Library EXCEPT !.texts =
     {Sign("(") \o Text(BinaryExpr("&&", BinaryExpr("!=", Ident(<<"inputs", ".", "owner">>), Str("")),
                                         BinaryExpr("!=", Ident(<<"inputs", ".", "group">>), Str(""))))
      \o Sign(")") \o Sign("?") \o Text(ListLiteral(<<Str("chown")>>)) \o Sign(":")
      \o Text(ListLiteral(<<Str("true")>>))}]

Main(version, decls) ==
  [files |-> "main" :> (<<VersionDecl(version), Host(h1)>> \o decls), default |-> "v0.1",
   library |-> Library]
Exec == Node(n, exec, <<>>, Command("c"))

-----------------------------------------------------------------------------
(* Flat files of every version, good and bad *)

Versions == DOMAIN versionRank
Nodes ==
  {Exec, [Exec EXCEPT !.type = Nil], [Exec EXCEPT !.type = z], [Exec EXCEPT !.targets = <<h2>>],
   [Exec EXCEPT !.targets = <<>>], [Exec EXCEPT !.targets = <<x>>], [Exec EXCEPT !.deps = <<z>>],
   [Exec EXCEPT !.policy = z], [Exec EXCEPT !.policy = <<"rollback">>], [Exec EXCEPT !.inputs = <<>>],
   [Exec EXCEPT !.inputs = Of(cmd, Ident(x))], [Exec EXCEPT !.inputs = Of(cmd, Ident(z))],
   [Exec EXCEPT !.inputs = Command("c") @@ Of(z, SecretRef(z))],
   [Exec EXCEPT !.inputs = Command("c") @@ Of(z, ListLiteral(<<SecretRef(z)>>))],
   [Exec EXCEPT !.inputs = Command("c") @@ Of(<<"cwd">>, BoolLiteral(TRUE))],
   [Exec EXCEPT !.inputs = Command("c") @@ Of(<<"timeout">>, NumberLiteral(1))],
   Node(n, <<"file.sync">>, <<>>, Of(<<"src">>, Str("s"))),
   Node(n, <<"template.render">>, <<>>, <<>>), Node(n, <<"lib">>, <<>>, Command("c"))}
Let(name, e) == LetDecl(name, e)
Others ==
  {<<>>, <<Exec>>, <<[Exec EXCEPT !.name = z]>>, <<[Exec EXCEPT !.name = z, !.deps = <<n>>]>>,
   <<Let(x, ListLiteral(<<Str("l")>>))>>, <<Let(x, Str("l")), Let(x, Str("m"))>>, <<Let(x, Ident(x))>>,
   <<Host(h1)>>, <<TargetDecl(h2, Nil, <<>>)>>, <<TargetDecl(h2, <<"">>, <<>>)>>,
   <<ModuleDecl(x, <<>>)>>, <<Step(x, <<>>, exec, <<>>)>>, <<FleetDecl(x, <<>>)>>, <<FnDecl(x, <<>>, Str("f"))>>}
Flat == {Main(v, <<node>> \o more) : v \in Versions, node \in Nodes, more \in Others}
        \cup {[Main("v0.1", <<>>) EXCEPT !.files = "main" :> file, !.default = v] :
                file \in {<<>>, <<Host(h1), Exec>>, <<Exec>>}, v \in {"v0.1", "v0.8", "v9"}}

-----------------------------------------------------------------------------
(* Expressions, as far as they can be written without parentheses *)

Leaves == {Str("s"), Ident(y), BoolLiteral(TRUE), Ident(z), SecretRef(<<"k">>)}
Rare == {Ident(<<"u">>), NumberLiteral(1), FunctionCall(<<"f">>, <<Str("s"), Ident(y)>>)}
Few == {Str("s"), Ident(z)}
\* How tightly an operator binds.
Level(op) == CASE op = "||" -> 1 [] op = "&&" -> 2 [] op \in {"==", "!="} -> 3 [] op = "+" -> 4
Ops == {"||", "&&", "==", "!=", "+"}
Pairs == {BinaryExpr(op, l, r) : op \in Ops, l, r \in Leaves}
Chains ==
  {BinaryExpr(o[1], BinaryExpr(o[2], l, m), r) :
     o \in {w \in Ops \X Ops : Level(w[1]) <= Level(w[2]) /\ ~(Level(w[1]) = 3 /\ Level(w[2]) = 3)},
     l, m, r \in Few}
  \cup {BinaryExpr(o[1], l, BinaryExpr(o[2], m, r)) :
          o \in {w \in Ops \X Ops : Level(w[1]) < Level(w[2])}, l, m, r \in Few}
Conditionals ==
  LET Simple == {TernaryExpr(i, t, f) : i \in {Ident(z), BinaryExpr("==", Ident(y), Str("s")), Str("s")},
                                        t, f \in Leaves}
  IN Simple \cup {TernaryExpr(Ident(z), t, TernaryExpr(Ident(z), u, v)) : t, u, v \in Few}
            \cup {TernaryExpr(Ident(z), TernaryExpr(Ident(z), u, v), t) : t, u, v \in Few}
Lists == {ListLiteral(es) : es \in {<<>>} \cup {<<l, m>> : l, m \in Leaves}
                                         \cup {<<l>> : l \in {ListLiteral(<<Str("s")>>), BinaryExpr("+", Str("s"), Ident(y))}}}
LetFiles ==
  {<<Let(x, e), Let(y, Str("t")), Let(z, BoolLiteral(FALSE))>> : e \in UNION {Leaves, Rare, Pairs, Chains, Conditionals, Lists}}
  \cup {<<Let(x, e), Let(y, f), Let(z, g)>> :
          e, f, g \in {Ident(x), Ident(y), Ident(z), Str("s"), BinaryExpr("+", Ident(y), Str("s"))}}
Expressions == {Main("v0.3", lets \o <<[Exec EXCEPT !.inputs = Command("c") @@ Of(x, Ident(x))]>>) : lets \in LetFiles}

-----------------------------------------------------------------------------
(* Steps: which may be of which type, and what they take *)

StepGraphs ==
  {Main(v, <<Step(a, <<>>, ta, Command("a") @@ Of(x, Str("a"))),
             [Step(b, <<>>, tb, Command("b") @@ Of(y, Str("b"))) EXCEPT !.body.policy = <<"continue">>],
             Step(c, <<>>, tc, Command("c")),
             Node(n, a, <<>>, Of(z, Str("n"))), [Node(z, b, <<n>>, Of(y, Str("n"))) EXCEPT !.policy = policy]>>) :
     v \in {"v0.4", "v0.5", "v0.6", "v0.8"}, ta, tb, tc \in {a, b, c, exec, <<"template.render">>, z},
     policy \in {Nil, <<"halt">>}}

\* a has the parameters p and q, and passes something on to b's.
Parameterised ==
  {Main("v0.6", <<Step(b, <<[name |-> p, default |-> d1]>>, exec, Of(cmd, ListLiteral(<<Ident(p), Str("b")>>))),
                  Step(a, <<Param(p), [name |-> q, default |-> d2]>>, tb, Command("a") @@ given),
                  Node(n, a, <<>>, own)>>) :
     d1 \in {NilExpr, Str("d")}, d2 \in {NilExpr, Str("e"), Ident(p)}, tb \in {b, exec},
     given \in {<<>>, Of(p, Ident(p)), Of(p, Ident(q)), Of(z, BinaryExpr("+", Ident(p), Ident(q)))},
     own \in {<<>>, Of(p, Str("n")), Of(p, Str("n")) @@ Of(q, Str("m")) @@ Of(x, Str("o"))}}
OddSteps ==
  {Main(v, <<step, step, Exec>>) :
     v \in {"v0.4", "v0.6"}, step \in {Exec, Step(exec, <<>>, exec, <<>>), Step(a, <<>>, Nil, <<>>), Step(a, <<Param(p), Param(p)>>, exec, <<>>),
                                      [Step(a, <<>>, exec, <<>>) EXCEPT !.body.targets = <<h1>>],
                                      [Step(a, <<>>, exec, <<>>) EXCEPT !.body.deps = <<n>>],
                                      [Step(a, <<>>, exec, <<>>) EXCEPT !.body.policy = z]}}
Steps == UNION {StepGraphs, Parameterised, OddSteps}

-----------------------------------------------------------------------------
(* Loops, fleets and contracts *)

i == <<"i">>
InLoop == {Node(Placeholder(i), exec, <<>>, Of(cmd, ListLiteral(<<StringLiteral(Placeholder(i))>>))),
           Node(n \o Dot \o Placeholder(i), exec, <<>>, Command("c")),
           Node(Placeholder(i), a, <<>>, Of(p, StringLiteral(<<"to">> \o Placeholder(i)))),
           Node(x, exec, <<>>, Command("c")), [Node(Placeholder(i), exec, <<>>, Command("c")) EXCEPT !.type = Nil],
           Let(z, Str("s")), ForDecl(i, ListLiteral(<<>>), <<>>)}
Ranges == {ListLiteral(<<Str("s"), Str("t")>>), ListLiteral(<<>>), Ident(x), Ident(y), Ident(z), Str("s"),
           ListLiteral(<<BoolLiteral(TRUE)>>)}
Loops ==
  {Main(v, <<Let(x, ListLiteral(<<Str("s"), Str("t")>>)), Let(y, ListLiteral(<<SecretRef(z)>>)),
             Step(a, params, exec, Command("a")), ForDecl(i, range, <<d>>), more>>) :
     v \in {"v0.5", "v0.6", "v0.8"}, range \in Ranges, d \in InLoop,
     params \in {<<>>, <<Param(p)>>}, more \in {Exec, [Exec EXCEPT !.name = z, !.deps = <<<<"s">>>>]}}

Promise == [NoContract EXCEPT !.idempotent = <<TRUE>>, !.retry = <<2>>, !.sideEffects = <<"local">>]
Undo == [NoContract EXCEPT !.rollbackCmd = <<<<Str("undo"), BoolLiteral(TRUE)>>>>]
Contracts == {NoContract, Promise, Undo, [Promise EXCEPT !.retry = <<0>>], [Promise EXCEPT !.sideEffects = z]}
Fleets ==
  {Main("v0.8", <<TargetDecl(h2, <<"addr">>, labels), FleetDecl(fleet, "role" :> "web")>>
                \o <<[NodeDecl(n, type, <<x>>, <<>>, Nil, Command("c"), contract) EXCEPT !.targets = targets],
                     [Step(a, <<>>, exec, Command("a")) EXCEPT !.body.contract = Promise],
                     [Node(x, exec, <<>>, Command("x")) EXCEPT !.contract = Promise],
                     Node(y \o Dot \o other, exec, <<n>>, Command("d"))>>) :
     labels \in {<<>>, "role" :> "web", "role" :> "db"}, fleet \in {x, h2}, type \in {exec, a, z},
     targets \in {<<x>>, <<h1, x>>, <<h2>>, <<z>>}, contract \in Contracts,
     other \in {n, y \o Dot \o n, x}}
NoFleetMatches == {Main("v0.8", <<FleetDecl(x, "role" :> "db"), Exec>>)}
Ambiguous == {Main("v0.8", <<Exec, [Node(x \o Dot \o n, exec, <<>>, Command("x")) EXCEPT !.contract = Promise],
                             ForDecl(i, ListLiteral(<<Str("s")>>),
                                     <<Node(Placeholder(i) \o Dot \o x \o Dot \o n, exec, <<>>, Command("l"))>>)>>)}

-----------------------------------------------------------------------------
(* Composite primitives: p and q, and nodes of theirs *)

Bare(node) == [node EXCEPT !.targets = <<>>]
items == <<"items">>
Foreach(range, body) == ForeachBodyDecl(i, range, body)
\* x before y within a body; some instance of a primitive; a loop over what the
\* instance gives, or over what is found on the controller.
Inner(type) == Bare(Node(x, type, <<>>, Of(cmd, Ident(<<"inputs", ".", "items">>)) @@ Of(items, Ident(items))))
Follower == Bare(Node(y, exec, <<x>>, Command("f")))
EachItem(name, type) ==
  Foreach(Ident(items), <<Bare(Node(name, type, <<x>>, Of(cmd, ListLiteral(<<Ident(i)>>)) @@ Of(items, ListLiteral(<<Ident(i)>>))))>>)
EachFile ==
  Foreach(Ident(<<"prepare", ".", "found">>),
    <<Bare(Node(Placeholder(i \o <<".", "relative_path">>), <<"file.sync">>, <<>>,
                Of(<<"src">>, Ident(i \o <<".", "absolute_path">>)) @@ Of(<<"dest">>, Ident(i \o <<".", "relative_path">>))
                @@ Of(<<"sum">>, FunctionCall(<<"_ctrl.sha256">>, <<Ident(i \o <<".", "absolute_path">>)>>)))),
      Foreach(Ident(i), <<>>)>>)
Bodies ==
  {<<Inner(exec), Follower>>, <<Follower, Inner(p)>>, <<Inner(q), Follower>>, <<Inner(q), [Inner(p) EXCEPT !.name = y]>>, <<Inner(exec), [Follower EXCEPT !.deps = <<x, n>>]>>, <<Inner(<<"lib">>)>>,
   <<EachItem(Placeholder(i), exec)>>, <<EachItem(Placeholder(i), q)>>, <<EachItem(x, p)>>, <<EachFile>>,
   <<Bare(Node(x, Nil, <<>>, <<>>))>>, <<Bare(Node(x, a, <<>>, Command("s")))>>, <<>>}
Found(path) == <<[name |-> <<"found">>, expr |-> FunctionCall(<<"_ctrl.readdir">>, <<path>>)]>>
Primitive(name, prepare, body, contract) ==
  PrimitiveDecl(name, <<items>>, prepare, body, contract, Of(x, FunctionCall(<<"_fs.exists">>, <<Ident(items)>>)),
                Of(x, BoolLiteral(TRUE)))
Item == {ListLiteral(<<Str("s"), Str("t")>>), ListLiteral(<<StringLiteral(Placeholder(i))>>), Str("s"),
         ListLiteral(<<SecretRef(z)>>)}
Instance(type, given) == Node(n, type, <<x>>, given)
Primitives ==
  {Main(v, <<Primitive(p, Found(Str("d")), bp, Promise), Primitive(q, <<>>, bq, NoContract), Step(a, <<>>, exec, <<>>),
             Instance(p, Of(items, given)), Node(x, exec, <<>>, Command("c"))>>) :
     v \in {"v1.2", "v2.0"}, bp, bq \in Bodies, given \in Item}
  \cup {Main("v1.4", <<Primitive(name, Found(path), <<EachFile>>, Undo), Instance(p, given)>>) :
          name \in {p, <<"lib">>, exec}, path \in {Str("d"), Str("f"), Str("none"), Ident(items), Ident(<<"inputs", ".", "items">>)},
          given \in {<<>>} \cup {Of(items, g) : g \in Item \cup {Str("d"), Str("f")}}}

-----------------------------------------------------------------------------
(* Imports: what main, x and y import, and how *)

ModuleName == "x" :> a @@ "y" :> b @@ "main" :> c
Local(path) ==
  LET own == ModuleName[path]
  IN <<TargetDecl(own \o <<"t">>, <<"addr">>, <<>>), Let(own \o <<"l">>, ListLiteral(<<Str("c")>>)),
       Step(own \o <<"s">>, <<>>, exec, Of(cmd, Ident(own \o <<"l">>))),
       NodeDecl(own, own \o <<"s">>, <<own \o <<"t">>>>, <<own \o <<"2">>>>, Nil, <<>>, NoContract),
       NodeDecl(own \o <<"2">>, exec, <<own \o <<"t">>>>, <<>>, Nil, Of(cmd, Ident(own \o <<"l">>)), NoContract)>>
Project(importsOf, alias) ==
  [files |-> [path \in {"main", "x", "y"} |->
                (IF path = "main" THEN <<VersionDecl("v2.0")>> ELSE <<>>)
                \o [k \in DOMAIN importsOf[path] |-> Import(importsOf[path][k], IF path = "main" THEN alias ELSE Nil)]
                \o Local(path)],
   default |-> "v0.1", library |-> Library]
ImportGraphs ==
  {Project("main" :> m @@ "x" :> ix @@ "y" :> iy, alias) :
     m \in {<<"x">>, <<"x", "y">>, <<"y", "x">>, <<"none", "x">>, <<"x", "x">>, <<>>},
     ix \in {<<>>, <<"y">>, <<"x">>, <<"main">>, <<"none">>, <<"y", "y">>},
     iy \in {<<>>, <<"x">>, <<"main">>}, alias \in {Nil, <<"m">>}}

-----------------------------------------------------------------------------
(* Functions: f and g, which may use each other *)

f == <<"f">>
g == <<"g">>
Values == {Str("s"), Ident(x), Ident(g), FunctionCall(g, <<Ident(x)>>), FunctionCall(f, <<Str("s")>>),
           FunctionCall(z, <<Ident(x)>>), BinaryExpr("+", Ident(x), FunctionCall(g, <<>>))}
Functions ==
  {Main("v2.0", <<FnDecl(f, <<x>>, ef), FnDecl(g, params, eg),
                  [Exec EXCEPT !.inputs = Command("c") @@ Of(z, ListLiteral(<<e>>))], more>>) :
     ef, eg \in Values, params \in {<<>>, <<x>>}, e \in {FunctionCall(f, <<Str("a")>>), FunctionCall(f, <<>>), Ident(g)},
     more \in {Let(x, Str("l")), FnDecl(g, <<>>, Str("s")), Node(z, exec, <<>>, Of(cmd, FunctionCall(g, <<>>)))}}

-----------------------------------------------------------------------------

AllSources ==
  UNION {Flat, Expressions, Steps, Loops, Fleets, NoFleetMatches, Ambiguous, Primitives, ImportGraphs, Functions,
         {[s EXCEPT !.library = EmbeddedLibrary] : s \in Ambiguous \cup {Main("v1.2", <<Exec>>)}}}

\* Plans of an earlier run: none, one of Exec's file, and some like it.
Earlier == PlanNode(Exec, Command("c"))
OldPlans1 == {<<>>, <<Earlier>>, <<[Earlier EXCEPT !.deps = <<z>>]>>, <<[Earlier EXCEPT !.id = x], Earlier>>}

\* A directory with two files, of which one may be read.
Disk1 == Of(<<"d">>, [k |-> "dir", files |-> <<<<"f1">>, <<"f2">>>>])
         @@ Of(<<"d", "/", "f1">>, [k |-> "file", content |-> <<"1">>]) @@ Of(<<"f">>, [k |-> "file", content |-> <<"2">>])

\* A loop over nodes that have a contract.
ContractSources == {Main("v0.8", <<ForDecl(i, ListLiteral(<<Str("s")>>),
                                    <<[Node(Placeholder(i), exec, <<>>, Command("c")) EXCEPT !.contract = Promise]>>)>>)}
LibrarySources == {[Main(v, <<Exec>>) EXCEPT !.library = EmbeddedLibrary] : v \in {"v1.2", "v1.3", "v1.4", "v2.0"}}
=============================================================================
