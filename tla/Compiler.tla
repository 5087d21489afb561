------------------------------ MODULE Compiler ------------------------------
(***************************************************************************)
(* From source files to a checked plan: CompileFileAutoDetect and the      *)
(* CompileFileV* it dispatches to (internal/devlang/validate.go), the      *)
(* standard library (stdlib.go), and Validate and Diff of internal/plan.   *)
(*                                                                         *)
(* One behaviour is one run of the compiler over some source files, and,   *)
(* if it ends in a plan, the comparison of that plan with an earlier one.  *)
(* The steps are the phases of the run; import resolution takes one step   *)
(* per declaration (Imports), a search for cycles one per neighbour it     *)
(* looks at (CycleSearch).                                                 *)
(***************************************************************************)
EXTENDS Imports, Aliases, Validation, Lowering, Parser, PlanDiff

CONSTANT Sources   \* [files, default, library]: what the compiler may be run on

VARIABLES
  default,   \* the version asked for on the command line
  library,   \* the embedded library: its expressions and its primitives
  stage,     \* the phase that is next, or how the run ended
  tables,    \* what validation hands to lowering
  errs       \* why the file was refused

vars == <<importVars, searchVars, default, library, stage, tables, errs, nodes, compared>>

Version == LET declared == ExtractVersion(files[Root])
           IN IF declared = "" THEN default ELSE declared

Ends == {"compiled", "compared", "refused", "failed", "crashed"}

Init ==
  /\ \E s \in Sources : files = s.files /\ default = s.default /\ library = s.library
  /\ ImportInit /\ SearchInit
  /\ stage = "parsed"
  /\ tables = NoTables
  /\ errs = {}
  /\ nodes = <<>>
  /\ compared = <<>>

-----------------------------------------------------------------------------
(* The standard library *)

\* LoadStdlib: all of it parses, or none of it is there.
StdlibLoads == \A text \in library.texts : Reads(text)
LoadStdlib == IF StdlibLoads THEN library.primitives ELSE <<>>

\* MergeStdlibPrimitives: the file's own primitives come first.
MergeStdlibPrimitives(primitives) == Overlay(LoadStdlib, primitives)

-----------------------------------------------------------------------------
(* The phases *)

\* Mutant: the errors are not kept.
RefuseSilently(why) == stage' = "refused" /\ UNCHANGED errs
Refuse(why) == stage' = "refused" /\ errs' = why

\* CompileFileAutoDetect: the version the file declares, or the one asked for.
CompileFileAutoDetect ==
  LET mismatch == checkVersionMismatch(files[Root], Version)
  IN /\ stage = "parsed"
     /\ IF mismatch # {} THEN Refuse(mismatch) /\ UNCHANGED merged
        ELSE IF Rank(Version) = 0 THEN Refuse({Error("unknown version", Nil)}) /\ UNCHANGED merged
        ELSE /\ stage' = IF Version = "v2.0" THEN "resolving" ELSE "resolved"
             /\ merged' = IF Version = "v2.0" THEN merged ELSE files[Root]
             /\ UNCHANGED errs
     /\ UNCHANGED <<files, stack, resolved, importErrs, searchVars, default, library, tables, nodes, compared>>

\* One step of ResolveImports; a file whose imports have errors goes no further.
Resolve ==
  /\ stage = "resolving"
  /\ ResolveImports
  /\ IF stack' # <<>> THEN UNCHANGED <<stage, errs>>
     ELSE IF importErrs' # {} THEN Refuse({Error(e, Nil) : e \in importErrs'})
     ELSE stage' = "resolved" /\ UNCHANGED errs
  /\ UNCHANGED <<searchVars, default, library, tables, nodes, compared>>

Validated(file) ==
  CASE Version = "v0.1" -> ValidateV0_1(file)
    [] Version = "v0.2" -> ValidateV0_2(file)
    [] Version = "v0.3" -> ValidateV0_3(file)
    [] Version = "v0.4" -> ValidateV0_4(file)
    [] Version = "v0.5" -> ValidateV0_5(file)
    [] Version = "v0.6" -> ValidateV0_6(file)
    [] Version \in {"v0.7", "v0.8", "v0.9"} -> ValidateV0_8(file)
    [] Version \in {"v1.2", "v1.3", "v1.4"} -> ValidateV1_2(file, LoadStdlib)
    [] Version = "v2.0" -> ValidateV2_0(file, LoadStdlib)

\* The validator of the version; it may not return.
Validate ==
  /\ stage = "resolved"
  /\ \E result \in {Validated(merged)} :
       /\ Unsearched \notin result.errs
       /\ tables' = result.tables
       /\ IF \E e \in result.errs : e.msg \in {c.msg : c \in Crashing}
          THEN stage' = "crashed" /\ UNCHANGED errs
          ELSE IF result.errs # {} THEN Refuse(result.errs)
          ELSE stage' = "validated" /\ UNCHANGED errs
  /\ UNCHANGED <<importVars, searchVars, default, library, nodes, compared>>

\* The validator searches for cycles, among steps first and then, from v1.2
\* on, among primitives; it goes on when it knows them.
AskForCycles ==
  /\ stage = "resolved"
  /\ Unsearched \in Validated(merged).errs
  /\ IF found = <<>> THEN detectStepCycles(merged) ELSE findPrimitiveCycles(merged)
  /\ stage' = "searching"
  /\ UNCHANGED <<importVars, default, library, tables, errs, nodes, compared>>

Search ==
  /\ stage = "searching"
  /\ \/ SearchStep /\ UNCHANGED stage
     \/ EndSearch /\ stage' = "resolved"
  /\ UNCHANGED <<importVars, default, library, tables, errs, nodes, compared>>

LoweredTo(file, with, primitives) ==
  CASE Version = "v0.1" -> {LowerToPlan(file)}
    [] Version \in {"v0.2", "v0.3"} -> {LowerToPlanV0_2(file, with.lets)}
    [] Version = "v0.4" -> {LowerToPlanV0_4(file, with.lets, with.steps)}
    [] Version = "v0.5" -> {LowerToPlanV0_5(file, with)}
    [] Version = "v0.6" -> {LowerToPlanV0_6(file, with)}
    [] Version \in {"v0.7", "v0.8", "v0.9"} -> LowerToPlanV0_8(file, with)
    [] Version \in {"v1.2", "v1.3", "v1.4"} -> LowerToPlanV1_2(file, with, primitives)
    [] Version = "v2.0" -> LowerToPlanV2_0(file, with, primitives)
Lowered(file, with) == LoweredTo(file, with, MergeStdlibPrimitives(with.primitives))

\* From v1.2 on the library is needed, whether the file uses it or not.
LibraryMissing ==
  /\ stage = "validated"
  /\ Rank(Version) >= Rank("v1.2")
  /\ ~StdlibLoads
  /\ stage' = "failed"
  /\ UNCHANGED <<importVars, searchVars, default, library, tables, errs, nodes, compared>>

Lower ==
  /\ stage = "validated"
  /\ Rank(Version) >= Rank("v1.2") => StdlibLoads
  /\ \E outcome \in Lowered(merged, tables) :
       /\ nodes' = outcome.nodes
       /\ stage' = CASE outcome.msg = "" -> "lowered"
                     [] outcome.msg \in {Overflow, Endless, "panic"} -> "crashed"
                     [] OTHER -> "failed"
  /\ UNCHANGED <<importVars, searchVars, default, library, tables, errs, compared>>

-----------------------------------------------------------------------------
(* The plan *)

\* plan.Validate
PlanErrors(targets, ns) ==
  LET ids == {n.id : n \in Range(ns)}
      known == {t.id : t \in Range(targets)}
      Complain(cond, msg, name) == IF cond THEN {Error(msg, name)} ELSE {}
      Gives(n, x, kind) == x \in DOMAIN n.inputs /\ n.inputs[x].k = kind
      ExecErrors(n) ==
        Complain(~Gives(n, <<"cmd">>, "list") \/ n.inputs[<<"cmd">>].es = <<>>, "cmd", n.id)
        \cup Complain(<<"cwd">> \in DOMAIN n.inputs /\ ~Gives(n, <<"cwd">>, "str"), "cwd", n.id)
  IN Complain(targets = <<>>, "no targets", Nil) \cup Complain(ns = <<>>, "no nodes", Nil)
     \cup UNION {Complain(t.id = Nil, "no id", Nil)
                 \cup Complain(t.address = <<"">>, "no address", t.id) : t \in Range(targets)}
     \cup UNION {Complain(n.id = Nil, "no id", Nil) \cup Complain(n.type = Nil, "no type", n.id)
                 \cup Complain(n.targets = <<>>, "no target", n.id)
                 \cup {Error("unknown target", t) : t \in Range(n.targets) \ known}
                 \cup {Error("unknown depends_on", d) : d \in Range(n.deps) \ ids}
                 \cup PolicyErrors(n)
                 \cup (IF n.type = <<"process.exec">> THEN ExecErrors(n) ELSE {})
                 : n \in Range(ns)}

CheckPlan ==
  /\ stage = "lowered"
  /\ LET why == PlanErrors(PlanTargets(merged), nodes)
     IN IF why # {} THEN Refuse(why) ELSE stage' = "compiled" /\ UNCHANGED errs
  /\ UNCHANGED <<importVars, searchVars, default, library, tables, nodes, compared>>

Compare ==
  /\ stage = "compiled"
  /\ CompareSome
  /\ stage' = "compared"
  /\ UNCHANGED <<importVars, searchVars, default, library, tables, errs>>

-----------------------------------------------------------------------------

Done == stage \in Ends \ {"compiled"} /\ UNCHANGED vars

Next ==
  \/ CompileFileAutoDetect \/ Resolve \/ Validate \/ AskForCycles \/ Search \/ LibraryMissing \/ Lower
  \/ CheckPlan \/ Compare \/ Done

Spec == Init /\ [][Next]_vars

-----------------------------------------------------------------------------
(* Properties *)

\* Every run is somewhere between its parse and one of its ends, a refused
\* file has errors, and only a plan that was made has nodes.
\* CompileFileAutoDetect and the phases it leads to.
TypeOK ==
  /\ stage \in {"parsed", "resolving", "resolved", "searching", "validated", "lowered"} \cup Ends
  /\ stage = "refused" <=> errs # {}
  /\ nodes # <<>> => stage \in {"lowered", "refused", "compiled", "compared"}
  /\ compared # <<>> <=> stage = "compared"
  /\ InProgress \subseteq DOMAIN files /\ DOMAIN resolved \subseteq DOMAIN files
  /\ Readable /\ nodes \in Seq(Range(nodes))
  /\ stage = "searching" /\ visited = {} => Searchable(uses, starts)

\* Whatever files are given, every step brings the compiler nearer to an end
\* (for a crash, the end of the process): imports do not go round, and a file
\* that could not be resolved is not tried for ever.  What is left is what the
\* calls of ResolveImports, or of dfs, have still to look at, the searches and
\* the phases to come; with the check for deadlock, which only Done may break,
\* the run does end.
Left ==
  LET phases == <<"compiled", "lowered", "validated", "resolved", "resolving", "parsed">>
  IN <<SelectInSeq(phases, LAMBDA w : w = IF stage = "searching" THEN "resolved" ELSE stage)>>
     \o WalkLeft
     \o <<IF stage = "searching" THEN 3 - 2 * Len(found) ELSE 4 - 2 * Len(found)>>
     \o SearchLeft
NearsItsEnd == [][Less(Left', Left)]_vars

\* The expressions of the file, written down and read again, are the same:
\* operators bind as the levels of parseExpr say (parser.go).
ReadBack ==
  stage = "parsed" =>
    LET written == {d.value : d \in Range(Decls(files[Root], "let"))}
                   \cup UNION {{d.inputs[x] : x \in DOMAIN d.inputs} : d \in Range(Decls(files[Root], "node"))}
    IN \A e \in written : Reads(Text(e)) /\ Read(Text(e)).e = e

\* A let that has a type folds to a literal of that type; folding fails only
\* where '+' meets a secret.  types.go and eval.go agree on the language.
RECURSIVE HoldsSecret(_, _, _)
HoldsSecret(e, lets, depth) ==
  CASE e.k = "secret" -> TRUE
    [] e.k = "id" -> depth > 0 /\ e.x \in DOMAIN lets /\ HoldsSecret(lets[e.x], lets, depth - 1)
    [] e.k = "list" -> \E i \in DOMAIN e.es : HoldsSecret(e.es[i], lets, depth)
    [] e.k = "bin" -> HoldsSecret(e.l, lets, depth) \/ HoldsSecret(e.r, lets, depth)
    [] e.k = "tern" -> HoldsSecret(e.t, lets, depth) \/ HoldsSecret(e.f, lets, depth)
    [] OTHER -> FALSE
TypeOf(v) == CASE v.k \in {"str", "secret"} -> "string" [] v.k = "bool" -> "bool" [] v.k = "list" -> "string[]"
TypesAreSound ==
  stage = "resolved" =>
    LET lets == LetValues(merged)
    IN \A x \in DOMAIN lets :
         LET type == typeCheckExpr(lets[x], lets)  value == evaluateExpr(lets[x], lets)
         IN type \in Type => IF value.k = "fail" THEN HoldsSecret(lets[x], lets, StackDepth)
                             ELSE TypeOf(value) = type

\* Among nodes there are some from each of which another of them can be
\* reached in a step: there is a cycle.
HasCycle(ns, succ(_)) == \E s \in SUBSET ns \ {{}} : \A n \in s : succ(n) \cap s # {}

\* Under an alias a reference follows the declaration it named: what a node
\* of the imported file says of a declaration of that file, it says of the
\* renamed one afterwards.  prefixDecl (resolve.go); names with a dot, which
\* are not renamed while references to them are, are left out.
References(d) ==
  <<d.type>> \o d.targets \o d.deps
  \o [x \in 1..Cardinality({y \in DOMAIN d.inputs : d.inputs[y].k = "id"}) |->
        d.inputs[SetToSeq({y \in DOMAIN d.inputs : d.inputs[y].k = "id"})[x]].x]
NodeOf(d) == IF d.kind = "step" THEN d.body ELSE d
AliasKeepsReferences ==
  stack = <<>> =>
    \A import \in Range(Decls(files[Root], "import")) :
      import.alias # Nil /\ import.path \in DOMAIN resolved =>
        LET before == PrefixedDecls(resolved[import.path], Nil)
            after == PrefixedDecls(resolved[import.path], import.alias)
            Collected == {h \in DOMAIN before : before[h].kind \in {"target", "let", "node", "step", "primitive"}
                                                /\ "." \notin Range(before[h].name)}
        IN \A i \in {j \in DOMAIN before : before[j].kind \in {"node", "step"}} :
             LET old == References(NodeOf(before[i]))  new == References(NodeOf(after[i]))
             IN \A r \in DOMAIN old : \A h \in Collected : old[r] = before[h].name => new[r] = after[h].name

\* What is accepted can be expanded: no step, and no primitive by the nodes
\* of its own body, leads back to itself; and what is called circular does.
\* detectStepCycles and findPrimitiveCycles (validate.go).
StepUses(n) == LET steps == FirstTable(merged, "step")
               IN {steps[n].body.type} \cap DOMAIN steps
PrimitiveUses(p) == LET ps == FirstTable(merged, "primitive")
                    IN {d.type : d \in Range(Decls(ps[p].body, "node"))} \cap DOMAIN ps
CyclesFound ==
  LET steps == HasCycle(Named(merged, "step"), StepUses)
      primitives == HasCycle(Named(merged, "primitive"), PrimitiveUses)
      Says(msg) == \E e \in errs : e.msg = msg
  IN /\ stage = "validated" => ~steps /\ ~primitives
     /\ stage = "refused" /\ Says("circular step") => steps
     /\ stage = "refused" /\ Says("circular primitive") => primitives

\* The compiler crashes for four reasons only, all in the file: lets that
\* refer to each other, functions that call each other, primitives that use
\* each other from within a foreach block (or such a block that names its
\* nodes after themselves), and a node without a type.  A cycle among steps,
\* imports or plain primitives never gets that far.
RECURSIVE Mentioned(_)
Mentioned(e) ==
  CASE e.k = "id" -> {e.x}
    [] e.k = "call" -> {e.fn} \cup UNION {Mentioned(e.args[i]) : i \in DOMAIN e.args}
    [] e.k = "list" -> UNION {Mentioned(e.es[i]) : i \in DOMAIN e.es}
    [] e.k = "bin" -> Mentioned(e.l) \cup Mentioned(e.r)
    [] e.k = "tern" -> Mentioned(e.c) \cup Mentioned(e.t) \cup Mentioned(e.f)
    [] OTHER -> {}
RECURSIVE InLoops(_)
InLoops(body) ==
  UNION {Range(Decls(d.body, "node")) \cup InLoops(d.body) : d \in Range(Decls(body, "foreach"))}
CrashesAreKnown ==
  stage = "crashed" =>
    LET lets == LetValues(merged)
        fns == FirstTable(merged, "fn")
        ps == FirstTable(merged, "primitive")
        LetUses(x) == Mentioned(lets[x])
        FnUses(f) == Mentioned(fns[f].body)
        LoopUses(p) == {d.type : d \in Range(Decls(ps[p].body, "node")) \cup InLoops(ps[p].body)}
        all == UNION {Range(Decls(body, "node")) \cup InLoops(body) :
                        body \in {merged} \cup {d.body : d \in Range(Decls(merged, "for")) \cup Range(Decls(merged, "primitive"))}}
    IN \/ HasCycle(DOMAIN lets, LetUses)
       \/ HasCycle(DOMAIN fns, FnUses)
       \/ HasCycle(DOMAIN ps, LoopUses) /\ ~HasCycle(DOMAIN ps, PrimitiveUses)
       \/ \E n \in all : n.type = Nil
       \/ \E p \in DOMAIN ps : \E n \in InLoops(ps[p].body) : "${" \in Range(n.name)

-----------------------------------------------------------------------------
(* Steps and loops as they would be written out by hand *)

\* A node of a step is what the step's body says, with its parameters
\* replaced, and what the node adds; parameters themselves are gone.
RECURSIVE WrittenOut(_, _)
WrittenOut(node, steps) ==
  LET step == steps[node.type]
      env == Bindings(step.params, node.inputs)
      body == WrittenOut([step.body EXCEPT !.inputs = [x \in DOMAIN @ |-> substituteParamsInExpr(@[x], env)]], steps)
      own == DOMAIN node.inputs \ {p.name : p \in Range(step.params)}
  IN IF node.type \notin DOMAIN steps THEN node
     ELSE [node EXCEPT !.type = body.type, !.policy = IF @ = Nil THEN body.policy ELSE @,
                       !.inputs = Overlay(body.inputs, Restrict(@, own))]

\* The file with every node in its place, no steps and no loops.
ByHand(file) ==
  LET steps == tables.steps
      loops == Decls(file, "for")
      all == Decls(file, "node")
             \o FlattenSeq([i \in DOMAIN loops |-> Unrolled(loops[i], tables.lets)])
  IN SelectSeq(file, LAMBDA d : d.kind \notin {"node", "step", "for"})
     \o [i \in DOMAIN all |-> WrittenOut(all[i], steps)]
LoweredByHand == Lowered(ByHand(merged), [tables EXCEPT !.steps = <<>>, !.loops = <<>>])

\* A plan made from steps and loops is the plan of the file written out by
\* hand: "Manual expansion == Generated expansion" (LANGUAGE_VERSIONS.md).
GeneratedIsManual ==
  stage = "lowered" => \E o \in LoweredByHand : Range(o.nodes) = Range(nodes)

\* The same, but for contracts and for inputs that go by a parameter's name:
\* names, types, targets, order, policies and every other input agree.
\* expandNodeWithSteps, expandNodeWithStepsV0_6 and LowerToPlanV0_5.
Parameters == UNION {{p.name : p \in Range(tables.steps[s].params)} : s \in DOMAIN tables.steps}
Essential(n) ==
  [n EXCEPT !.idempotent = FALSE, !.sideEffects = Nil, !.retry = 0, !.rollbackCmd = <<>>,
            !.secrets = {}, !.inputs = Restrict(@, DOMAIN @ \ Parameters)]
ExpansionIsManual ==
  stage = "lowered" =>
    \E o \in LoweredByHand :
      o.msg = "" /\ {Essential(n) : n \in Range(o.nodes)} = {Essential(n) : n \in Range(nodes)}

\* After lowering no node is of a primitive of the file or of the library,
\* and of a step only if the body of a primitive said so: "Lowering Is a
\* One-Way Door" (DESIGN.md).
StepsAreGone ==
  stage \in {"lowered", "compiled"} =>
    \A n \in Range(nodes) :
      /\ Rank(Version) >= Rank("v1.2") => n.type \notin DOMAIN MergeStdlibPrimitives(tables.primitives)
      /\ n.type \in DOMAIN tables.steps => <<"_source">> \in DOMAIN n.inputs

\* The order a primitive gives the nodes of its body holds between the nodes
\* of each instance, whatever the other nodes of the plan are called.
\* expandPrimitiveNode (lower.go).
InnerOrderKept ==
  stage = "compiled" =>
    \A p \in DOMAIN tables.primitives :
      LET body == FirstTable(tables.primitives[p].body, "node")
          OfBody(x) == {n \in Range(nodes) : /\ <<"_source">> \in DOMAIN n.inputs
                                              /\ n.inputs[<<"_source">>].s = <<"primitive:">> \o p
                                              /\ IsSuffix(Dot \o x, n.id)}
          InstanceOf(n, x) == SubSeq(n.id, 1, Len(n.id) - Len(x) - 1)
      IN \A x \in DOMAIN body : \A n \in OfBody(x) :
           \A y \in Range(body[x].deps) \cap DOMAIN body :
             InstanceOf(n, x) \o Dot \o y \in Range(n.deps)

\* The standard library is there for every file that may use it: "The
\* standard library should be available in every plan without an explicit
\* import" (dotdevops-primitive-extensibility-plan.md).
LibraryAvailable == stage = "validated" /\ Rank(Version) >= Rank("v1.2") => StdlibLoads
=============================================================================
