------------------------------ MODULE Validation ----------------------------
(***************************************************************************)
(* What each language version accepts (internal/devlang/validate.go).      *)
(*                                                                         *)
(* A validator returns the errors it found and, when it found none, the    *)
(* tables that lowering works with.  Errors are a set of messages with the *)
(* name they are about: later versions run the earlier validators and then *)
(* take out, by message and name, the errors that do not apply to them.    *)
(* Where the code stops at the end of a phase that found errors, so does   *)
(* the operator here; where it searches for cycles and the search has not  *)
(* been made, it stops with Unsearched, and is asked again afterwards.     *)
(***************************************************************************)
EXTENDS Evaluation, FiniteSets, CycleSearch

Error(msg, name) == [msg |-> msg, name |-> name]
Panic == Error("panic", Nil)             \* a nil pointer is dereferenced
OverflowError == Error(Overflow, Nil)    \* the goroutine's stack is exhausted
Crashing == {Panic, OverflowError}
\* The validator has come to a search for cycles that has not been made yet.
Unsearched == Error("search", Nil)

NoTables == [lets |-> <<>>, steps |-> <<>>, loops |-> <<>>,
             fleets |-> <<>>, primitives |-> <<>>, funcs |-> <<>>]
Refusal(errs) == [errs |-> errs, tables |-> NoTables]
Result(errs, tables) == [errs |-> errs, tables |-> tables]

-----------------------------------------------------------------------------
(* Versions *)

versionRank ==
  ("v0.1" :> 1) @@ ("v0.2" :> 2) @@ ("v0.3" :> 3) @@ ("v0.4" :> 4) @@ ("v0.5" :> 5) @@
  ("v0.6" :> 6) @@ ("v0.7" :> 7) @@ ("v0.8" :> 8) @@ ("v0.9" :> 9) @@
  ("v1.2" :> 12) @@ ("v1.3" :> 13) @@ ("v1.4" :> 14) @@ ("v2.0" :> 20)
Rank(version) == IF version \in DOMAIN versionRank THEN versionRank[version] ELSE 0

\* The version a file declares: its first declaration, if it is one.
ExtractVersion(file) ==
  IF file # <<>> /\ file[1].kind = "version" THEN file[1].version ELSE ""

RequiredVersion ==
  ("import" :> "v2.0") @@ ("fn" :> "v2.0") @@ ("primitive" :> "v1.2") @@
  ("fleet" :> "v0.8") @@ ("step" :> "v0.4") @@ ("for" :> "v0.5")

\* Top-level declarations only; an unknown version ranks below all.
checkVersionMismatch(file, version) ==
  {Error("requires a later version", <<d.kind>>) :
     d \in {x \in Range(file) : /\ x.kind \in DOMAIN RequiredVersion
                                /\ Rank(version) < Rank(RequiredVersion[x.kind])}}

-----------------------------------------------------------------------------
(* Checks that the versions share *)

Unsupported(file, kinds) ==
  {Error("not supported", <<d.kind>>) : d \in {x \in Range(file) : x.kind \in kinds}}
Duplicates(file, kind) == {Error("duplicate", n) : n \in DeclaredTwice(file, kind)}

BuiltinTypes == {<<"file.sync">>, <<"process.exec">>, <<"template.render">>,
                 <<"health.check">>, <<"service.ensure">>, <<"package.install">>}
Policies == {<<"halt">>, <<"continue">>, <<"rollback">>}

TargetErrors(node, lets, targets) ==
  {Error(IF t \in lets THEN "let used as target" ELSE "unknown target", t) :
     t \in {x \in Range(node.targets) : x \in lets \/ x \notin targets}}
DependencyErrors(node, nodes) ==
  {Error("unknown depends_on", d) : d \in Range(node.deps) \ nodes}
PolicyErrors(node) ==
  IF node.policy \in Policies \cup {Nil} THEN {} ELSE {Error("invalid failure_policy", node.policy)}

\* resolveLetExpr: an identifier stands for the let it names, other
\* expressions for themselves.
resolveLetExpr(e, lets) == IF e.k = "id" /\ e.x \in DOMAIN lets THEN lets[e.x] ELSE e

Given(node, key, Ok(_)) == key \in DOMAIN node.inputs /\ Ok(node.inputs[key])
IsString(e) == e.k = "str"
IsCommand(e) == e.k = "list" /\ allStringLits(e.es)

validatePrimitiveInputsV0_1(node) ==
  CASE node.type = <<"file.sync">> ->
         {Error("file.sync input", key) : key \in {x \in {<<"src">>, <<"dest">>} : ~Given(node, x, IsString)}}
    [] node.type = <<"process.exec">> ->
         (IF Given(node, <<"cmd">>, IsCommand) THEN {} ELSE {Error("process.exec input", <<"cmd">>)})
         \cup
         (IF <<"cwd">> \notin DOMAIN node.inputs \/ Given(node, <<"cwd">>, IsString)
          THEN {} ELSE {Error("process.exec input", <<"cwd">>)})
    [] OTHER -> {}

InputErrors(node, lets) ==
  validatePrimitiveInputsV0_1(
    [node EXCEPT !.inputs = [x \in DOMAIN @ |-> resolveLetExpr(@[x], lets)]])

\* The checks of one node by a version that has no steps; the type of a
\* node is looked at without a test that it was given.
FlatNodeErrors(node, lets, targets, nodes) ==
  IF node.type = Nil THEN {Panic}
  ELSE TargetErrors(node, DOMAIN lets, targets) \cup DependencyErrors(node, nodes)
       \cup (IF node.type \in BuiltinTypes THEN {} ELSE {Error("unknown primitive type", node.type)})
       \cup PolicyErrors(node) \cup InputErrors(node, lets)

FlatFileErrors(file, lets) ==
  LET nodes == FirstTable(file, "node")
  IN Duplicates(file, "target") \cup Duplicates(file, "node")
     \cup UNION {FlatNodeErrors(nodes[n], lets, Named(file, "target"), DOMAIN nodes) : n \in DOMAIN nodes}

-----------------------------------------------------------------------------
(* v0.1 to v0.3: targets and nodes, then lets, then expressions *)

ValidateV0_1(file) ==
  LET unsupported == Unsupported(file, {"let", "for", "step", "module"})
  IN Refusal(IF unsupported # {} THEN unsupported ELSE FlatFileErrors(file, <<>>))

\* Lets of v0.2 are literals.
LetErrorsV0_2(file) ==
  Duplicates(file, "let") \cup
  {Error("let value", d.name) :
     d \in {x \in Range(Decls(file, "let")) :
              ~(\/ x.value.k \in {"str", "bool"}
                \/ x.value.k = "list" /\ allStringLits(x.value.es))}}

LetValues(file) ==
  LET lets == FirstTable(file, "let") IN [n \in DOMAIN lets |-> lets[n].value]

ValidateV0_2(file) ==
  LET unsupported == Unsupported(file, {"for", "step", "module"})
      lets == LetValues(file)
  IN IF unsupported # {} THEN Refusal(unsupported)
     ELSE IF LetErrorsV0_2(file) # {} THEN Refusal(LetErrorsV0_2(file))
     ELSE Result(FlatFileErrors(file, lets), [NoTables EXCEPT !.lets = lets])

\* From v0.3 on lets are expressions: all are type checked, then all folded.
Folded(types, values) ==
  LET failed == {values[n].msg : n \in {m \in DOMAIN values : values[m].k = "fail"}}
  IN CASE types \subseteq Type /\ failed = {} -> Result({}, [NoTables EXCEPT !.lets = values])
       [] types \subseteq Type /\ failed # {} -> Refusal({Error(msg, Nil) : msg \in failed})
       [] OTHER -> Refusal({Error(msg, Nil) : msg \in types \ Type})
FoldedLets(file) ==
  LET lets == LetValues(file)
  IN IF Duplicates(file, "let") # {} THEN Refusal(Duplicates(file, "let"))
     ELSE Folded({typeCheckExpr(lets[n], lets) : n \in DOMAIN lets},
                 [n \in DOMAIN lets |-> evaluateExpr(lets[n], lets)])

ValidateV0_3(file) ==
  LET unsupported == Unsupported(file, {"for", "step", "module"})
      folded == FoldedLets(file)
  IN IF unsupported # {} THEN Refusal(unsupported)
     ELSE IF folded.errs # {} THEN folded
     ELSE Result(FlatFileErrors(file, folded.tables.lets), folded.tables)

-----------------------------------------------------------------------------
(* Steps *)

\* The declarations of steps v0.5 refuses by themselves: a name that is taken,
\* structure that belongs to nodes, or no type.
StepErrorsV0_5(file, builtin) ==
  Duplicates(file, "step") \cup
  UNION {LET Complain(cond, msg) == IF cond THEN {Error(msg, d.name)} ELSE {}
         IN IF d.name \in builtin THEN {Error("step name conflicts with built-in", d.name)}
            ELSE Complain(d.body.targets # <<>>, "step with targets")
                 \cup Complain(d.body.deps # <<>>, "step with depends_on")
                 \cup Complain(d.body.type = Nil, "step without type")
         : d \in Range(Decls(file, "step"))}

\* v0.4 has no nested steps, and does not know package.install.
BuiltinTypesV0_4 == BuiltinTypes \ {<<"package.install">>}
StepErrorsV0_4(file) ==
  StepErrorsV0_5(file, BuiltinTypesV0_4) \cup
  UNION {IF d.body.type \notin BuiltinTypesV0_4 \cup {Nil} THEN {Error("step type", d.name)}
         ELSE PolicyErrors(d.body)
         : d \in {x \in Range(Decls(file, "step")) : x.name \notin BuiltinTypesV0_4}}

\* buildStepDependencyGraph: a step depends on the type of its body unless
\* that is built in.
buildStepDependencyGraph(steps, builtin) ==
  [n \in {m \in DOMAIN steps : steps[m].body.type \notin builtin} |-> <<steps[n].body.type>>]
\* Every step is a start.  The code sorts them by name; here they come in some
\* order.
detectStepCycles(file) ==
  LET steps == FirstTable(file, "step")
  IN BeginSearch(buildStepDependencyGraph(steps, BuiltinTypes), SetToSeq(DOMAIN steps))

\* The type of a step is built in or another step.
validateStepTypeResolution(steps, builtin) ==
  {Error("step does not resolve", n) : n \in {m \in DOMAIN steps : steps[m].body.type \notin builtin \cup DOMAIN steps}}

\* The phases after the steps' own declarations are in order.  The search is
\* the first of a run.
StepGraphErrors(steps) ==
  IF found = <<>> THEN {Unsearched}
  ELSE IF found[1].cycles # {} THEN {Error("circular step", c[1]) : c \in found[1].cycles}
  ELSE validateStepTypeResolution(steps, BuiltinTypes)

\* A node's type is built in or a step; a node of any other type is not
\* looked at further.
StepNodeErrors(node, builtin, steps, more) ==
  IF node.type = Nil THEN {Error("node without type", node.name)}
  ELSE IF node.type \notin builtin \cup DOMAIN steps THEN {Error("unknown type", node.type)}
  ELSE PolicyErrors(node) \cup more
StepFileErrors(file, builtin, tables, More(_)) ==
  LET nodes == FirstTable(file, "node")
  IN Duplicates(file, "target") \cup Duplicates(file, "node")
     \cup UNION {StepNodeErrors(nodes[n], builtin, tables.steps,
                   TargetErrors(nodes[n], DOMAIN tables.lets, Named(file, "target"))
                   \cup DependencyErrors(nodes[n], DOMAIN nodes) \cup More(nodes[n]))
                 : n \in DOMAIN nodes}

\* Only built-in types have inputs to check; those of a step are its own.
BuiltinInputErrors(node, builtin, lets) ==
  IF node.type \in builtin THEN InputErrors(node, lets) ELSE {}

ValidateV0_4(file) ==
  LET unsupported == Unsupported(file, {"for", "module"})
      folded == FoldedLets(file)
      lets == folded.tables.lets
      tables == [folded.tables EXCEPT !.steps = FirstTable(file, "step")]
      More(n) == BuiltinInputErrors(n, BuiltinTypesV0_4, lets)
  IN CASE unsupported # {}           -> Refusal(unsupported)
       [] folded.errs # {}           -> folded
       [] StepErrorsV0_4(file) # {}  -> Refusal(StepErrorsV0_4(file))
       [] OTHER -> Result(StepFileErrors(file, BuiltinTypesV0_4, tables, More), tables)

-----------------------------------------------------------------------------
(* v0.5: for-loops and nested steps *)

\* The list a loop runs over, NilExpr when its name is no let.
LoopRange(loop, lets) ==
  IF loop.range.k # "id" THEN loop.range
  ELSE IF loop.range.x \in DOMAIN lets THEN lets[loop.range.x] ELSE NilExpr

LoopErrorsV0_5(loop, lets) ==
  LET range == LoopRange(loop, lets)
  IN IF range.k # "list" THEN {Error("for range", loop.varName)}
     ELSE {Error("for range", loop.varName) : e \in {x \in Range(range.es) : x.k # "str"}}
          \cup {Error("for body", <<d.kind>>) : d \in {x \in Range(loop.body) : x.kind # "node"}}

\* The nodes of a loop's body are not checked: they are not in the table.
ValidateV0_5(file) ==
  LET unsupported == Unsupported(file, {"module"})
      folded == FoldedLets(file)
      lets == folded.tables.lets
      steps == FirstTable(file, "step")
      loops == Decls(file, "for")
      loopErrs == UNION {LoopErrorsV0_5(loops[i], lets) : i \in DOMAIN loops}
      tables == [folded.tables EXCEPT !.steps = steps, !.loops = loops]
      More(n) == BuiltinInputErrors(n, BuiltinTypes, lets)
  IN CASE unsupported # {}                          -> Refusal(unsupported)
       [] folded.errs # {}                          -> folded
       [] StepErrorsV0_5(file, BuiltinTypes) # {}   -> Refusal(StepErrorsV0_5(file, BuiltinTypes))
       [] StepGraphErrors(steps) # {}               -> Refusal(StepGraphErrors(steps))
       [] loopErrs # {}                             -> Refusal(loopErrs)
       [] OTHER -> Result(StepFileErrors(file, BuiltinTypes, tables, More), tables)

-----------------------------------------------------------------------------
(* v0.6: step parameters *)

\* A default is checked and folded without the lets.
ParamErrors(step) ==
  LET ps == step.params
      twice == {i \in DOMAIN ps : \E h \in 1..(i - 1) : ps[h].name = ps[i].name}
      bad == {i \in DOMAIN ps \ twice : /\ ps[i].default # NilExpr
                                        /\ \/ typeCheckExpr(ps[i].default, <<>>) \notin Type
                                           \/ evaluateExpr(ps[i].default, <<>>).k = "fail"}
  IN {Error("duplicate parameter", ps[i].name) : i \in twice}
     \cup {Error("parameter default", ps[i].name) : i \in bad}

WithFoldedDefaults(step) ==
  [step EXCEPT !.params = [i \in DOMAIN @ |->
     IF @[i].default = NilExpr THEN @[i]
     ELSE [@[i] EXCEPT !.default = evaluateExpr(@, <<>>)]]]

StepErrorsV0_6(file) ==
  StepErrorsV0_5(file, BuiltinTypes)
  \cup UNION {ParamErrors(d) : d \in {x \in Range(Decls(file, "step")) : x.name \notin BuiltinTypes}}

LoopErrorsV0_6(loop, lets) ==
  LET range == LoopRange(loop, lets)
  IN IF ~IsCommand(range) THEN {Error("for range", loop.varName)}
     ELSE {Error("for body", <<d.kind>>) :
             d \in {x \in Range(loop.body) : \/ x.kind \in {"step", "for"}
                                             \/ x.kind = "node" /\ x.type = Nil}}

\* A node of a step gives every parameter that has no default.
MissingParams(node, steps) ==
  IF node.type \notin DOMAIN steps THEN {}
  ELSE {Error("missing parameter", p.name) :
          p \in {q \in Range(steps[node.type].params) :
                   q.default = NilExpr /\ q.name \notin DOMAIN node.inputs}}

ValidateV0_6(file) ==
  LET unsupported == Unsupported(file, {"module"})
      folded == FoldedLets(file)
      lets == folded.tables.lets
      declared == FirstTable(file, "step")
      steps == [n \in DOMAIN declared |-> WithFoldedDefaults(declared[n])]
      loops == Decls(file, "for")
      loopErrs == UNION {LoopErrorsV0_6(loops[i], lets) : i \in DOMAIN loops}
      tables == [folded.tables EXCEPT !.steps = steps, !.loops = loops]
      More(n) == MissingParams(n, steps)
  IN CASE unsupported # {}             -> Refusal(unsupported)
       [] folded.errs # {}             -> folded
       [] StepErrorsV0_6(file) # {}    -> Refusal(StepErrorsV0_6(file))
       [] StepGraphErrors(declared) # {} -> Refusal(StepGraphErrors(declared))
       [] loopErrs # {}                -> Refusal(loopErrs)
       [] OTHER -> Result(StepFileErrors(file, BuiltinTypes, tables, More), tables)

-----------------------------------------------------------------------------
(* v0.8: fleets and contracts *)

FleetErrors(file) ==
  LET targets == LastTable(file, "target")  fleets == LastTable(file, "fleet")
  IN Duplicates(file, "target") \cup Duplicates(file, "fleet") \cup Duplicates(file, "node")
     \cup {Error("fleet and target", n) : n \in DOMAIN targets \cap DOMAIN fleets}
     \cup {Error("fleet matches nothing", n) :
             n \in {m \in DOMAIN fleets : \A t \in DOMAIN targets : ~Matches(targets[t], fleets[m])}}

ContractErrors(node) ==
  LET c == node.contract
      Complain(cond, msg) == IF cond THEN {Error(msg, node.name)} ELSE {}
  IN Complain(c.sideEffects \notin {Nil, <<"none">>, <<"local">>, <<"external">>}, "side_effects")
     \cup Complain(c.retry # Nil /\ c.retry[1] <= 0, "retry attempts")
     \cup (IF c.rollbackCmd = Nil THEN {}
           ELSE IF node.type = Nil THEN {Panic}
           ELSE Complain(node.type # <<"process.exec">>, "rollback_cmd"))

\* v0.6 does not know fleets: what it says of a target that is one is dropped.
WithFleets(file, before) ==
  LET fleets == LastTable(file, "fleet")
      nodes == LastTable(file, "node")
      errs == before.errs \cup FleetErrors(file) \cup UNION {ContractErrors(nodes[n]) : n \in DOMAIN nodes}
  IN Result({e \in errs : ~(e.msg = "unknown target" /\ e.name \in DOMAIN fleets)},
            [before.tables EXCEPT !.fleets = fleets])
ValidateV0_8(file) == WithFleets(file, ValidateV0_6(file))

-----------------------------------------------------------------------------
(* v1.2: composite primitives *)

AtomicTypes == {<<"_fs.write">>, <<"_fs.read">>, <<"_fs.mkdir">>, <<"_fs.delete">>, <<"_fs.chmod">>,
                <<"_fs.chown">>, <<"_fs.exists">>, <<"_fs.stat">>, <<"_net.fetch">>, <<"_exec">>}
\* stdlib gives the primitives of the standard library, none if it did not load.
KnownTypes(stdlib) == BuiltinTypes \cup AtomicTypes \cup DOMAIN stdlib

PrimitiveErrors(file, steps, stdlib) ==
  Duplicates(file, "primitive")
  \cup {Error("primitive name taken", n) : n \in Named(file, "primitive") \cap (KnownTypes(stdlib) \cup DOMAIN steps)}

appendUniqStr(s, x) == IF x \in Range(s) THEN s ELSE Append(s, x)

\* The primitives of the file a primitive's body uses.  Only nodes that stand
\* in the body itself count, not those of its foreach blocks.
PrimitiveGraph(primitives) ==
  LET Uses(p) ==
        LET Add(s, d) == IF d.kind = "node" /\ d.type \in DOMAIN primitives
                         THEN appendUniqStr(s, d.type) ELSE s
        IN FoldLeft(Add, <<>>, primitives[p].body)
  IN [p \in {q \in DOMAIN primitives : Uses(q) # <<>>} |-> Uses(p)]
\* Mutant: only a primitive that uses itself counts.
findPrimitiveCyclesOfLoops(file) ==
  LET adj == PrimitiveGraph(FirstTable(file, "primitive"))
  IN BeginSearch([p \in {q \in DOMAIN adj : adj[q] = <<q>>} |-> adj[p]], SetToSeq(DOMAIN adj))
findPrimitiveCycles(file) ==
  LET adj == PrimitiveGraph(FirstTable(file, "primitive"))
  IN BeginSearch(adj, SetToSeq(DOMAIN adj))

\* v0.6 does not know primitives: what it says of a type that is one is
\* dropped, and with it the checks it did not get to.
WithPrimitives(file, stdlib, before) ==
  LET primitives == FirstTable(file, "primitive")
      errs == {e \in before.errs \cup PrimitiveErrors(file, before.tables.steps, stdlib) :
                 ~(e.msg = "unknown type" /\ e.name \in DOMAIN primitives \cup KnownTypes(stdlib))}
  IN IF errs # {} THEN Refusal(errs)
     ELSE IF Len(found) < 2 THEN Refusal({Unsearched})
     ELSE Result({Error("circular primitive", c[1]) : c \in found[2].cycles},
                 [before.tables EXCEPT !.primitives = primitives])
ValidateV1_2(file, stdlib) == WithPrimitives(file, stdlib, ValidateV0_8(file))

-----------------------------------------------------------------------------
(* v2.0: functions; imports have been merged in before *)

WithFunctions(file, before) ==
  Result(before.errs \cup Duplicates(file, "fn"),
         [before.tables EXCEPT !.funcs = FirstTable(file, "fn")])
ValidateV2_0(file, stdlib) == WithFunctions(file, ValidateV1_2(file, stdlib))
=============================================================================
