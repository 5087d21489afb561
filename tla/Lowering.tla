------------------------------ MODULE Lowering ------------------------------
(***************************************************************************)
(* From a validated file to a plan (internal/devlang/lower.go).            *)
(*                                                                         *)
(* A value in a plan is a literal expression, or SecretRef(key) for the    *)
(* object {"__secret__": key}.  The nodes of a declaration come as an      *)
(* outcome: its nodes, or why lowering stopped.  From v0.8 on the contract *)
(* of a node is looked up in a map that may be walked in any order, so     *)
(* lowering a file has a set of outcomes.  Expansion of primitives and of  *)
(* functions stops for nothing but its own end; StackDepth is how deep it  *)
(* may go before the stack is held to have overflowed.                     *)
(***************************************************************************)
EXTENDS Evaluation, FiniteSets, TLC

CONSTANT Disk  \* the controller's file system: what is at a path

Ok(nodes) == [msg |-> "", nodes |-> nodes]
Fail(msg) == [msg |-> msg, nodes |-> <<>>]
Endless == "endless loop"

\* The nodes of several outcomes in order, or the first that failed.
Join(outcomes) ==
  LET bad == {i \in DOMAIN outcomes : outcomes[i].msg # ""}
  IN IF bad # {} THEN outcomes[Min(bad)]
     ELSE Ok(FlattenSeq([i \in DOMAIN outcomes |-> outcomes[i].nodes]))
JoinOver(s, F(_)) == Join([i \in DOMAIN s |-> F(s[i])])

-----------------------------------------------------------------------------
(* Values and nodes *)

Literals == {"str", "bool", "num"}

\* lowerExpr
lowerExpr(e) ==
  IF e.k \in Literals \/ (e.k = "list" /\ \A i \in DOMAIN e.es : e.es[i].k = "str")
  THEN e ELSE Failure("cannot lower")

\* A value as it is printed into a text.
RECURSIVE Printed(_)
Printed(v) ==
  CASE v.k = "str"    -> v.s
    [] v.k = "bool"   -> <<ToString(v.b)>>
    [] v.k = "num"    -> <<ToString(v.n)>>
    [] v.k = "list"   -> <<"[">> \o FlattenSeq([i \in DOMAIN v.es |-> Printed(v.es[i])]) \o <<"]">>
    [] v.k = "secret" -> <<"map[__secret__:">> \o v.key \o <<"]">>

\* '+' joins whatever there is; other operators and conditions are not lowered.
RECURSIVE lowerExprV0_2(_, _)
lowerExprV0_2(e, lets) ==
  LET L(s) == lowerExprV0_2(s, lets)
  IN CASE e.k \in Literals \cup {"secret"} -> e
       [] e.k = "list" -> ListOf([i \in DOMAIN e.es |-> L(e.es[i])])
       [] e.k = "id" /\ e.x \in DOMAIN lets -> L(lets[e.x])
       [] e.k = "bin" /\ e.op = "+" ->
            LET l == L(e.l)  r == L(e.r)
            IN IF l.k = "fail" THEN l ELSE IF r.k = "fail" THEN r
               ELSE StringLiteral(Printed(l) \o Printed(r))
       [] OTHER -> Failure("cannot lower")

\* A node of a plan, without the fields later versions fill in.
PlanNode(node, values) ==
  [id |-> node.name, type |-> node.type, targets |-> node.targets, deps |-> node.deps,
   policy |-> node.policy, inputs |-> values, secrets |-> {},
   idempotent |-> FALSE, sideEffects |-> Nil, retry |-> 0, rollbackCmd |-> <<>>,
   probe |-> <<>>, desired |-> <<>>]

LoweredNode(node, V(_)) ==
  LET values == [x \in DOMAIN node.inputs |-> V(node.inputs[x])]
  IN IF \E x \in DOMAIN values : values[x].k = "fail" THEN Fail("cannot lower")
     ELSE Ok(<<PlanNode(node, values)>>)

\* lowerNodeToPlan: an input that is a secret becomes its placeholder, and the
\* secret is listed; one within a list or a text does not.
Sentinel(key) == StringLiteral(<<"[SECRET:">> \o key \o <<"]">>)
Sealed(n) ==
  [n EXCEPT !.inputs = [x \in DOMAIN @ |-> IF @[x].k = "secret" THEN Sentinel(@[x].key) ELSE @[x]],
            !.secrets = {v.key : v \in {n.inputs[x] : x \in {y \in DOMAIN n.inputs : n.inputs[y].k = "secret"}}}]
lowerNodeToPlan(node, lets) ==
  LET V(e) == lowerExprV0_2(e, lets)
      low == LoweredNode(node, V)
  IN IF node.type = Nil THEN Fail("panic")
     ELSE [low EXCEPT !.nodes = [i \in DOMAIN @ |-> Sealed(@[i])]]

\* A file whose targets all have addresses.
WithTargets(file, outcome) ==
  IF \E d \in Range(Decls(file, "target")) : d.address = Nil THEN Fail("missing address")
  ELSE outcome
PlanTargets(file) ==
  LET ds == Decls(file, "target")
  IN [i \in DOMAIN ds |-> [id |-> ds[i].name, address |-> ds[i].address]]

-----------------------------------------------------------------------------
(* v0.1 to v0.4 *)

LowerToPlan(file) ==
  LET L(node) == LoweredNode(node, lowerExpr)
  IN WithTargets(file, JoinOver(Decls(file, "node"), L))

LowerToPlanV0_2(file, lets) ==
  LET V(e) == lowerExprV0_2(e, lets)
      L(node) == LoweredNode(node, V)
  IN WithTargets(file, JoinOver(Decls(file, "node"), L))

\* Mutant: the policy of the step's body wins.
OverStepPolicy(node, body) ==
  [node EXCEPT !.type = body.type, !.inputs = Overlay(body.inputs, @),
               !.policy = IF body.policy = Nil THEN @ ELSE body.policy]
\* A node of a step: what the step's body gives, unless the node gives it.
\* Steps are not nested yet.
OverStep(node, body) ==
  [node EXCEPT !.type = body.type, !.inputs = Overlay(body.inputs, @),
               !.policy = IF @ = Nil THEN body.policy ELSE @]
LowerToPlanV0_4(file, lets, steps) ==
  LET V(e) == lowerExprV0_2(e, lets)
      L(node) == LoweredNode(IF node.type \in DOMAIN steps THEN OverStep(node, steps[node.type].body)
                             ELSE node, V)
  IN WithTargets(file, JoinOver(Decls(file, "node"), L))

-----------------------------------------------------------------------------
(* v0.5: nested steps and for-loops *)

\* The types at which the expansion of steps ends.
primitiveTypes == {<<"file.sync">>, <<"process.exec">>}
UnknownStep == [kind |-> "unknown step"]

\* expandStepRecursive: the node a step comes to.
RECURSIVE expandStepRecursive(_, _)
expandStepRecursive(step, steps) ==
  LET body == step.body
      parent == expandStepRecursive(steps[body.type], steps)
  IN IF body.type \in primitiveTypes THEN body
     ELSE IF body.type \notin DOMAIN steps \/ parent = UnknownStep THEN UnknownStep
     ELSE OverStep(body, parent)

expandNodeWithSteps(node, steps) ==
  LET expanded == expandStepRecursive(steps[node.type], steps)
  IN IF node.type \notin DOMAIN steps THEN node
     ELSE IF expanded = UnknownStep THEN UnknownStep
     ELSE OverStep(node, expanded)

\* substituteInString: every occurrence of the placeholder of x replaced.
RECURSIVE substituteInString(_, _, _)
substituteInString(s, x, value) ==
  LET p == Placeholder(x)
      at == {i \in 1..(Len(s) - Len(p) + 1) : SubSeq(s, i, i + Len(p) - 1) = p}
  IN IF at = {} THEN s
     ELSE SubSeq(s, 1, Min(at) - 1) \o value
          \o substituteInString(SubSeq(s, Min(at) + Len(p), Len(s)), x, value)

\* substituteInExpr: texts and lists of texts only.
RECURSIVE substituteInExpr(_, _, _)
substituteInExpr(e, x, value) ==
  LET S(s) == substituteInExpr(s, x, value)
  IN IF e.k = "str" THEN StringLiteral(substituteInString(e.s, x, value))
     ELSE IF e.k = "list" THEN Descend(e, S) ELSE e

\* substituteLoopVariable: the name and the inputs of a node.
substituteLoopVariable(node, x, value) ==
  [node EXCEPT !.name = substituteInString(@, x, value),
               !.inputs = [k \in DOMAIN @ |-> substituteInExpr(@[k], x, value)]]

\* The nodes a loop stands for, in the order of its list.
Unrolled(loop, lets) ==
  LET range == IF loop.range.k = "id" THEN lets[loop.range.x] ELSE loop.range
      nodes == Decls(loop.body, "node")
      With(value) == [i \in DOMAIN nodes |-> substituteLoopVariable(nodes[i], loop.varName, value)]
  IN FlattenSeq([i \in DOMAIN range.es |-> With(range.es[i].s)])

\* The nodes of the file itself, then those of its loops, each expanded by E.
LowerSteps(file, tables, E(_)) ==
  LET loops == tables.loops
      all == Decls(file, "node")
             \o FlattenSeq([i \in DOMAIN loops |-> Unrolled(loops[i], tables.lets)])
      L(node) == LET n == E(node)
                 IN IF n = UnknownStep THEN Fail("unknown step") ELSE lowerNodeToPlan(n, tables.lets)
  IN WithTargets(file, JoinOver(all, L))

LowerToPlanV0_5(file, tables) ==
  LET E(node) == expandNodeWithSteps(node, tables.steps) IN LowerSteps(file, tables, E)

-----------------------------------------------------------------------------
(* v0.6: parameters *)

\* What the parameters of a step are bound to: what is given, or the default.
Bindings(params, given) ==
  LET names == {p.name : p \in {q \in Range(params) : q.name \in DOMAIN given \/ q.default # NilExpr}}
      Default(x) == (CHOOSE p \in Range(params) : p.name = x).default
  IN [x \in names |-> IF x \in DOMAIN given THEN given[x] ELSE Default(x)]

\* substituteParamsInExpr; calls are not entered.
RECURSIVE substituteParamsInExpr(_, _)
substituteParamsInExpr(e, env) ==
  LET S(s) == substituteParamsInExpr(s, env)
  IN IF e.k = "id" THEN (IF e.x \in DOMAIN env THEN env[e.x] ELSE e) ELSE Descend(e, S)

\* expandStepRecursiveV0_6: what a body gives to its own step's parameters
\* stays among the inputs as well.
RECURSIVE expandStepRecursiveV0_6(_, _, _)
expandStepRecursiveV0_6(step, steps, env) ==
  LET body == [step.body EXCEPT !.inputs = [x \in DOMAIN @ |-> substituteParamsInExpr(@[x], env)]]
      over == steps[body.type]
      parent == expandStepRecursiveV0_6(over, steps, Bindings(over.params, body.inputs))
  IN IF body.type \in primitiveTypes THEN body
     ELSE IF body.type \notin DOMAIN steps \/ parent = UnknownStep THEN UnknownStep
     ELSE OverStep(body, parent)

\* expandNodeWithStepsV0_6: the inputs of a node that are parameters of its
\* step are no inputs of what the node becomes.
expandNodeWithStepsV0_6(node, steps) ==
  LET step == steps[node.type]
      expanded == expandStepRecursiveV0_6(step, steps, Bindings(step.params, node.inputs))
      others == DOMAIN node.inputs \ {p.name : p \in Range(step.params)}
  IN IF node.type \notin DOMAIN steps THEN node
     ELSE IF expanded = UnknownStep THEN UnknownStep
     ELSE OverStep([node EXCEPT !.inputs = Restrict(@, others)], expanded)

\* Mutant: the nodes of loops are not expanded.
LowerToPlanV0_6ButLoops(file, tables) ==
  LET E(node) == IF node \in Range(Decls(file, "node")) THEN expandNodeWithStepsV0_6(node, tables.steps)
                 ELSE node
  IN LowerSteps(file, tables, E)
LowerToPlanV0_6(file, tables) ==
  LET E(node) == expandNodeWithStepsV0_6(node, tables.steps) IN LowerSteps(file, tables, E)

-----------------------------------------------------------------------------
(* v0.8: fleets and contracts *)

\* The targets a node names, fleets replaced by the targets that match.  They
\* are sorted by name; here they come in some order.
ResolvedTargets(n, targets, fleets) ==
  LET Of(t) == IF t \in DOMAIN fleets THEN {u.name : u \in {v \in targets : Matches(v, fleets[t])}} ELSE {t}
  IN SetToSeq(UNION {Of(t) : t \in Range(n.targets)})

\* The declarations a contract may come from: the node's own by its name, or
\* any whose name ends the node's after a dot.
ContractOwners(id, owners) ==
  IF id \in DOMAIN owners THEN {owners[id]}
  ELSE {owners[k] : k \in {x \in DOMAIN owners : IsSuffix(Dot \o x, id) /\ id # Dot \o x}}

WithContract(n, c) ==
  LET Strings(es) == SelectSeq(es, LAMBDA e : e.k = "str")
      command == IF c.rollbackCmd = Nil THEN <<>> ELSE Strings(c.rollbackCmd[1])
  IN [n EXCEPT !.idempotent = IF c.idempotent = Nil THEN @ ELSE c.idempotent[1],
               !.sideEffects = IF c.sideEffects = Nil THEN @ ELSE c.sideEffects,
               !.retry = IF c.retry = Nil THEN @ ELSE c.retry[1],
               !.rollbackCmd = [i \in DOMAIN command |-> command[i].s]]

\* The body of a step goes by the step's name; of several declarations of a
\* name the last counts.
NodeMap(file) ==
  LET ds == SelectSeq(file, LAMBDA d : d.kind \in {"node", "step"})
  IN LastTable([i \in DOMAIN ds |-> IF ds[i].kind = "node" THEN ds[i] ELSE ds[i].body], "node")

LowerToPlanV0_8(file, tables) ==
  LET base == LowerToPlanV0_6(file, tables)
      targets == Range(Decls(file, "target"))
      Versions(n) ==
        LET resolved == [n EXCEPT !.targets = ResolvedTargets(n, targets, tables.fleets)]
            owners == ContractOwners(n.id, NodeMap(file))
        IN IF owners = {} THEN {resolved} ELSE {WithContract(resolved, d.contract) : d \in owners}
      Add(plans, n) == {Append(s, v) : s \in plans, v \in Versions(n)}
  IN IF base.msg # "" THEN {base} ELSE {Ok(s) : s \in FoldLeft(Add, {<<>>}, base.nodes)}

-----------------------------------------------------------------------------
(* v1.2 to v1.4: composite primitives.  Their inputs and what their prepare *)
(* block computes are values; env gives them by name.                       *)

\* literalToExpr: a secret is no literal, and becomes nil.
RECURSIVE literalToExpr(_)
literalToExpr(v) ==
  IF v.k = "list" THEN Descend(v, literalToExpr) ELSE IF v.k \in Literals THEN v ELSE NilExpr

\* exprToAny; anyToExpr is its inverse and has no counterpart here.
RECURSIVE exprToAny(_)
exprToAny(e) ==
  IF e.k = "list" THEN ListOf([i \in DOMAIN e.es |-> exprToAny(e.es[i])])
  ELSE IF e.k \in Literals THEN e ELSE Failure("cannot convert")

\* ctrlReaddir, ctrlRead and ctrlSha256: a directory lists the files under it.
ReadController(fn, path) ==
  LET entry == IF path \in DOMAIN Disk THEN Disk[path] ELSE [k |-> "none"]
      Listed(f) == MapLiteral([x \in {<<"relative_path">>, <<"absolute_path">>} |->
                     StringLiteral(IF x = <<"relative_path">> THEN f ELSE path \o <<"/">> \o f)])
  IN CASE fn = <<"_ctrl.readdir">> /\ entry.k = "dir" ->
            ListLiteral([i \in DOMAIN entry.files |-> Listed(entry.files[i])])
       [] fn = <<"_ctrl.read">> /\ entry.k = "file"   -> StringLiteral(entry.content)
       [] fn = <<"_ctrl.sha256">> /\ entry.k = "file" -> StringLiteral(<<"sha256:">> \o entry.content)
       [] OTHER -> Failure("cannot read")

IsInput(x) == Len(x) > 2 /\ SubSeq(x, 1, 2) = <<"inputs", ".">>
IsPrepared(x) == Len(x) > 2 /\ SubSeq(x, 1, 2) = <<"prepare", ".">>
After(x) == SubSeq(x, 3, Len(x))

\* evaluateCtrlExpr and evaluateCtrlFunction
RECURSIVE evaluateCtrlExpr(_, _)
evaluateCtrlExpr(e, env) ==
  CASE e.k \in Literals -> e
    [] e.k = "id" /\ e.x \in DOMAIN env -> exprToAny(env[e.x])
    [] e.k = "id" /\ e.x \notin DOMAIN env /\ IsInput(e.x) /\ After(e.x) \in DOMAIN env ->
         exprToAny(env[After(e.x)])
    [] e.k = "call" /\ Len(e.args) = 1 ->
         LET path == evaluateCtrlExpr(e.args[1], env)
         IN IF path.k = "str" THEN ReadController(e.fn, path.s) ELSE Failure("not a path")
    [] OTHER -> Failure("cannot evaluate")

\* evaluatePrepareBlock
evaluatePrepareBlock(prepare, env) ==
  [x \in {b.name : b \in Range(prepare)} |->
     evaluateCtrlExpr(prepare[Max({i \in DOMAIN prepare : prepare[i].name = x})].expr, env)]

\* resolveRangeExpr
resolveRangeExpr(e, env, prepared) ==
  CASE e.k = "id" /\ IsPrepared(e.x) ->
         IF After(e.x) \in DOMAIN prepared THEN prepared[After(e.x)] ELSE Failure("undefined")
    [] e.k = "id" /\ ~IsPrepared(e.x) ->
         IF e.x \in DOMAIN env THEN exprToAny(env[e.x]) ELSE Failure("undefined")
    [] e.k = "list" -> exprToAny(e)
    [] OTHER -> Failure("unsupported range")

\* A field of an entry that a loop's variable stands for.
Field(x, env) ==
  LET dot == SelectInSeq(x, LAMBDA t : t = ".")
      var == SubSeq(x, 1, dot - 1)
      field == SubSeq(x, dot + 1, Len(x))
  IN IF dot > 1 /\ var \in DOMAIN env /\ env[var].k = "map" /\ field \in DOMAIN env[var].m
     THEN env[var].m[field] ELSE NilExpr

\* substituteInputsInExpr: the controller's functions are called at once; a
\* call that fails is left.
RECURSIVE substituteInputsInExpr(_, _)
substituteInputsInExpr(e, env) ==
  LET S(s) == substituteInputsInExpr(s, env)
      call == OverArguments(e, S)
      result == evaluateCtrlExpr(call, env)
  IN CASE e.k = "id" ->
            IF IsInput(e.x) /\ After(e.x) \in DOMAIN env THEN env[After(e.x)]
            ELSE IF Field(e.x, env) # NilExpr THEN Field(e.x, env)
            ELSE IF e.x \in DOMAIN env THEN env[e.x] ELSE e
       [] e.k = "call" -> IF result.k = "fail" THEN call ELSE result
       [] OTHER -> Descend(e, S)

\* serializeProbeExpr and serializeDesiredExpr: what the agent will evaluate.
RECURSIVE Serialized(_, _)
Serialized(e, env) ==
  LET S(s) == Serialized(s, env)
  IN CASE e.k = "call" -> OverArguments(e, S)
       [] e.k = "id" ->
            IF IsInput(e.x) /\ After(e.x) \in DOMAIN env THEN S(env[After(e.x)])
            ELSE IF e.x \in DOMAIN env THEN S(env[e.x]) ELSE e
       [] e.k \in Literals \cup {"list"} -> Descend(e, S)
       [] OTHER -> NilExpr
SerializedFields(fields, env) == [x \in DOMAIN fields |-> Serialized(fields[x], env)]

\* substituteVarInString: a text that contains the placeholder it replaces is
\* searched again, and again.
NameInLoop(name, x, value) ==
  IF value.k = "str" THEN substituteInString(name, x, value.s)
  ELSE IF value.k # "map" THEN name
  ELSE FoldLeft(LAMBDA s, f : IF value.m[f].k = "str" THEN substituteInString(s, x \o Dot \o f, value.m[f].s) ELSE s,
                name, SetToSeq(DOMAIN value.m))
NeverNamed(name, x, value) ==
  /\ value.k = "str"
  /\ substituteInString(name, x, Nil) # name
  /\ substituteInString(value.s, x, Nil) # value.s

RECURSIVE expandCustomPrimitive(_, _, _, _, _), Expanded(_, _, _, _),
          expandPrimitiveNode(_, _, _, _, _, _, _),
          expandForeachBody(_, _, _, _, _, _, _, _), expandBodyDecl(_, _, _, _, _, _, _, _)

\* Mutant: the dependencies keep the names of the body.
InnerDepsAsNamed(deps, inst, prim) == deps
\* Dependencies between the nodes of a body are those of the instance's nodes.
InnerDeps(deps, inst, prim) ==
  [i \in DOMAIN deps |-> IF deps[i] \in Named(prim.body, "node") THEN inst.id \o Dot \o deps[i] ELSE deps[i]]

\* A node of the body of prim as it stands for the instance inst.
OfInstance(n, inst, prim, env) ==
  LET c == prim.contract
  IN [n EXCEPT !.id = inst.id \o Dot \o @,
               !.deps = InnerDeps(@, inst, prim),
               !.targets = IF @ = <<>> THEN inst.targets ELSE @,
               !.inputs = Overlay(@, <<"_source">> :> StringLiteral(<<"primitive:">> \o prim.name)),
               !.idempotent = IF c.idempotent = Nil THEN @ ELSE c.idempotent[1],
               !.sideEffects = IF c.sideEffects = Nil THEN @ ELSE c.sideEffects,
               !.retry = IF c.retry = Nil THEN @ ELSE c.retry[1],
               !.probe = SerializedFields(prim.probe, env),
               !.desired = SerializedFields(prim.desired, env)]

\* A node that is an instance of a primitive itself is expanded further.
Expanded(n, primitives, lets, depth) ==
  IF n.type \in DOMAIN primitives
  THEN expandCustomPrimitive(n, primitives[n.type], primitives, lets, depth)
  ELSE Ok(<<n>>)

expandPrimitiveNode(node, inst, prim, primitives, lets, env, depth) ==
  LET low == lowerNodeToPlan([node EXCEPT !.inputs = [x \in DOMAIN @ |-> substituteInputsInExpr(@[x], env)]], lets)
  IN IF low.msg # "" THEN low
     ELSE Expanded(OfInstance(low.nodes[1], inst, prim, env), primitives, lets, depth - 1)

\* A declaration of a primitive's body.
expandBodyDecl(d, inst, prim, primitives, lets, env, prepared, depth) ==
  CASE d.kind = "foreach" -> expandForeachBody(d, inst, prim, primitives, lets, env, prepared, depth)
    [] d.kind = "node" -> expandPrimitiveNode(d, inst, prim, primitives, lets, env, depth)
    [] OTHER -> Ok(<<>>)

\* The nodes of a foreach block, once for every element of its range.
NodeInLoop(d, x, value) == IF d.kind = "node" THEN [d EXCEPT !.name = NameInLoop(@, x, value)] ELSE d
expandForeachBody(loop, inst, prim, primitives, lets, env, prepared, depth) ==
  LET range == resolveRangeExpr(loop.range, env, prepared)
      x == loop.varName
  IN IF range.k # "list" THEN Fail("foreach range")
     ELSE JoinOver(range.es, LAMBDA value : JoinOver(loop.body, LAMBDA d :
            IF d.kind = "node" /\ NeverNamed(d.name, x, value) THEN Fail(Endless)
            ELSE expandBodyDecl(NodeInLoop(d, x, value), inst, prim, primitives, lets,
                                Overlay(env, x :> value), prepared, depth)))

\* The nodes an instance of a primitive stands for.  What the instance itself
\* depends on, its failure policy and its contract are not passed on.
expandCustomPrimitive(inst, prim, primitives, lets, depth) ==
  LET env == [x \in Range(prim.inputs) |-> literalToExpr(inst.inputs[x])]
  IN IF depth = 0 THEN Fail(Overflow)
     ELSE IF ~(Range(prim.inputs) \subseteq DOMAIN inst.inputs) THEN Fail("missing input")
     ELSE IF \E b \in Range(prim.prepare) : evaluateCtrlExpr(b.expr, env).k = "fail" THEN Fail("prepare")
     ELSE JoinOver(prim.body, LAMBDA d : expandBodyDecl(d, inst, prim, primitives, lets, env,
                                                        evaluatePrepareBlock(prim.prepare, env), depth))

LowerToPlanV1_2(file, tables, primitives) ==
  {IF o.msg # "" THEN o ELSE JoinOver(o.nodes, LAMBDA n : Expanded(n, primitives, tables.lets, StackDepth)) :
     o \in LowerToPlanV0_8(file, tables)}

-----------------------------------------------------------------------------
(* The plan as JSON *)

RECURSIVE HasNumber(_)
HasNumber(v) ==
  CASE v.k = "num"  -> TRUE
    [] v.k = "list" -> \E i \in DOMAIN v.es : HasNumber(v.es[i])
    [] v.k = "call" -> \E i \in DOMAIN v.args : HasNumber(v.args[i])
    [] OTHER        -> FALSE

\* What MarshalIndent and Load make of a compiled node: an int comes back as a
\* float64, and the empty, though not nil, list that expandPrimitiveNode gives
\* a node without dependencies comes back as nil.
LostInJson(n) ==
  {w \in {"int", "depends_on"} :
     IF w = "int" THEN \E v \in Range(n.inputs) \cup Range(n.probe) \cup Range(n.desired) : HasNumber(v)
     ELSE n.deps = <<>> /\ <<"_source">> \in DOMAIN n.inputs}

-----------------------------------------------------------------------------
(* v2.0: functions *)

RECURSIVE expandFunctionCalls(_, _, _), substituteFnParamsInExpr(_, _, _, _)

\* A call of a function of the file becomes the function's body; a name does
\* too if the function has no parameters.
expandFunctionCalls(e, funcs, depth) ==
  LET X(s) == expandFunctionCalls(s, funcs, depth)
      Bound(fn) == LET given == 1..Min({Len(fn.params), Len(e.args)})
                   IN [x \in {fn.params[i] : i \in given} |->
                         X(e.args[Max({i \in given : fn.params[i] = x})])]
  IN CASE e.k = "call" ->
            IF e.fn \notin DOMAIN funcs THEN OverArguments(e, X)
            ELSE IF depth = 0 THEN Failure(Overflow)
            ELSE substituteFnParamsInExpr(funcs[e.fn].body, Bound(funcs[e.fn]), funcs, depth - 1)
       [] e.k = "id" ->
            IF e.x \notin DOMAIN funcs \/ funcs[e.x].params # <<>> THEN e
            ELSE IF depth = 0 THEN Failure(Overflow)
            ELSE expandFunctionCalls(funcs[e.x].body, funcs, depth - 1)
       [] OTHER -> Descend(e, X)

substituteFnParamsInExpr(e, env, funcs, depth) ==
  LET S(s) == substituteFnParamsInExpr(s, env, funcs, depth)
  IN CASE e.k = "id"   -> IF e.x \in DOMAIN env THEN env[e.x] ELSE e
       [] e.k = "call" -> expandFunctionCalls(OverArguments(e, S), funcs, depth)
       [] OTHER        -> Descend(e, S)

\* An expansion that did not end.
RECURSIVE Overflows(_)
Overflows(e) ==
  CASE e.k = "fail" -> TRUE
    [] e.k = "list" -> \E i \in DOMAIN e.es : Overflows(e.es[i])
    [] e.k = "call" -> \E i \in DOMAIN e.args : Overflows(e.args[i])
    [] e.k = "bin"  -> Overflows(e.l) \/ Overflows(e.r)
    [] e.k = "tern" -> Overflows(e.c) \/ Overflows(e.t) \/ Overflows(e.f)
    [] OTHER        -> FALSE

\* Calls in lets and in the inputs of the file's own nodes are expanded;
\* those in steps, loops and primitives are not.
LowerToPlanV2_0(file, tables, primitives) ==
  LET X(e) == expandFunctionCalls(e, tables.funcs, StackDepth)
      lets == [x \in DOMAIN tables.lets |-> X(tables.lets[x])]
      Called(d) == IF d.kind = "node" THEN [d EXCEPT !.inputs = [x \in DOMAIN @ |-> X(@[x])]] ELSE d
      expanded == [i \in DOMAIN file |-> Called(file[i])]
      broken == \/ \E x \in DOMAIN lets : Overflows(lets[x])
                \/ \E d \in Range(Decls(expanded, "node")) : \E x \in DOMAIN d.inputs : Overflows(d.inputs[x])
  IN IF broken THEN {Fail(Overflow)}
     ELSE LowerToPlanV1_2(expanded, [tables EXCEPT !.lets = lets], primitives)
=============================================================================
