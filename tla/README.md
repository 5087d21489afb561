# A TLA+ model of devopsctl

`devopsctl` applies a plan (a graph of nodes, each on a list of targets) by talking to agents,
records every execution in a local SQLite store, and can resume, reconcile, observe and roll back.
This directory models its core, model-checks it with TLC and proves theorems about it with TLAPS.
Paths below are relative to `src/`; `orchestrator.go`, `graph.go`, `store.go`, `handler.go`, `apply.go` and
`rollback.go` are `internal/controller/orchestrator.go` and so on.

## 1. Inventory

| component | state it keeps | operations | talks to |
|---|---|---|---|
| Controller, `Run` (`orchestrator.go`) | the maps `nodeStates`, `nodeChanged`, `inDegree` and `haltExecution` under `mu`; the channels `readyQueue`, `doneChan`, `sem`; a cancellable context | one run of a plan: release, skip, execute, retry, record, halt | store, agents |
| Controller, `RollbackLast` | the rows it has still to undo | `rollback --last`, the `rollback` failure policy | store, agents |
| Graph (`graph.go`) | nodes, edges, in-degrees | `BuildGraph`, `detectCycles` | called by `Run` |
| Store (`internal/state`) | the `executions` table | `Record`, `LatestExecution`, `LastRun` | SQLite |
| Plan (`internal/plan`) | none | `Load`, `Validate`, `Hash`, `Diff` | command line, `Run` |
| file.sync (`internal/primitive/filesync`) | the destination tree, snapshot directories and their marker | `Detect`, `Diff`, `Apply`, `Rollback` | the controller's stream of chunks |
| Agent (`internal/agent`) | execution contexts; the target's files and processes | detect, apply, rollback, probe, status; one goroutine per connection | contexts, operating system |
| Agent contexts (`internal/agent/context`) | none after loading | resolve a context, check commands and paths, run commands, audit | operating system |
| Secrets, PKI | none | resolve and redact inputs; create certificates | controller |
| devlang (`internal/devlang`) | symbol tables of one compilation | parse, resolve imports, check, expand, lower to a plan | command line, LSP |
| LSP (`internal/lsp`) | open documents | diagnostics, completion, definition | editor, devlang |

What is hard in each, and what makes it correct:

- **Run.** Three kinds of goroutine share maps and channels. A node may be released early, twice or never; a
  semaphore token may leak; the halt of one node races the decisions of others; the deadline may pass between two
  targets; a response may be lost after the agent has done the work, and the controller may die before it records
  it. Correct means: dependencies first, every node reports, slots are given back, the verdict and the exit status
  are those of the pairs, a run that has returned leaves nothing behind, and the store says what happened.
- **RollbackLast.** Picks its rows by plan hash, newest first. Correct means: dependants before dependencies, only
  the most recent run, nothing in a dry run, and what has an inverse is undone.
- **Graph.** Go's maps hand out nodes and edges in any order. Correct means: exactly the acyclic graphs over known
  and distinct ids are accepted, and the in-degrees that `Run` counts down match the edges.
- **file.sync.** The change set is computed from a tree that may change before it is applied; the stream may end
  anywhere, and `Apply` cannot tell that from its regular end; temporary files, renames and copies fail, some of them
  without a word; the marker is a file in the destination, and a rollback removes the snapshot first and the marker
  after it. Correct means: nothing is replaced before it is copied, a torn file is reported, "applied" means
  synchronised but for what `Apply` cannot know, and a rollback that calls itself complete has restored.
- **Agent.** Connections are served concurrently, so a retry may overlap what it retries.
- **Contexts.** The order of fallbacks when a context is chosen, and the checks on paths and commands.
- **Plan.** `Validate` against what `Run` takes for granted; `Diff` against the graph.
- **devlang.** Two depth-first searches for cycles guard two recursive expansions; other recursions have no guard; the
  expansion of steps, loops and composite primitives renames nodes, substitutes parameters and rewires dependencies;
  imports are walked recursively and renamed under an alias; types and values are computed by two separate walks.
  Correct means: the compiler ends, an accepted file can be expanded, the plan is the one that would be written by
  hand, references follow what they name, a typed expression has a value of its type.
- **LSP.** Notifications and requests on shared documents.

`PROJECT.json` lists each of these as a component with its status, and the individual hazards at their lines.

## 2. Modules

| module | stands for | used by |
|---|---|---|
| `PlanExecution` | the promise of the controller: one verdict per node, in dependency order, an exit status that says whether a node failed | refined by `Orchestrator` |
| `ExecutionLog` | `store.go`: `Record`, `LatestExecution`, `LastRun` on a sequence of rows | `Orchestrator` |
| `Orchestrator` | `Run`, `runNode` and the three run functions, `RollbackLast`, the agent's side of a request | the MC and proof modules |
| `MC_Orchestrator` | plans and option sets for TLC | the runs |
| `Orchestrator_proofs`, `Orchestrator_refinement`, `Orchestrator_safety`, `Orchestrator_history` | theorems about `Orchestrator`: scheduling; the refinement; slots, verdicts, skips and conditions; what spans several runs, and how they end. Each extends the one before it | |
| `DependencyGraph`, `MC_DependencyGraph`, `DependencyGraph_proofs` | `graph.go` | runs and theorems of its own |
| `FileSync`, `MC_FileSync`, `FileSync_proofs`, `FileSync_outcomes` | detect, diff, stream, apply and rollback of `file.sync` | runs and theorems of its own |
| `Syntax` | `ast.go`: expressions and declarations as data, and the walks over them | all modules of the compiler |
| `Parser` | `parser.go`: the recursive descent over expressions | `Compiler` |
| `Evaluation` | `types.go`, `eval.go` | `Validation` |
| `Imports` | `ResolveImports` of `resolve.go`, step by step; what an import adds is its parameter `Imported` | `Compiler` |
| `Aliases` | the rest of `resolve.go`: names prefixed under an alias; `PrefixedDecls` is what `Imported` stands for in the runs | `Compiler` |
| `CycleSearch` | the depth-first search of `detectStepCycles` and `findPrimitiveCycles`, step by step | `Validation` |
| `Progress` | the order in which `WalkAdvances`, `SearchAdvances` and `NearsItsEnd` compare what is left | `Imports`, `CycleSearch` |
| `Validation` | `validate.go`: the validators of all versions | `Compiler` |
| `Lowering` | `lower.go`: from checked declarations to the nodes of a plan | `Compiler` |
| `PlanDiff` | `plan.Diff` | `Compiler` |
| `Compiler` | `CompileFileAutoDetect`, `stdlib.go`, `plan.Validate`: the phases, and the properties of all of them | the runs |
| `Compiler_proofs` | theorems about `Imports`, `CycleSearch` and `PlanDiff` | |
| `MC_Compiler` | families of small source files | the runs |

### Orchestrator

State. `phase` is the command under way; `nodePc[n]` is where the goroutine of node `n` is (`waiting` in the graph,
`ready` in `readyQueue`, `completed` once the main loop has read `doneChan`), `pc[<<n, t>>]` where the goroutine of a
(node, target) pair is. `nodeState`, `nodeChanged`, `inDegree`, `haltExecution` are the maps of the same names, `sem`
is the number of tokens in the channel of that name, `cancelled` and the deadline are `ctx`, `cursor[n]` is the loop
over `node.Targets`, `log` is the table. `rbTodo[r]` are the rows `RollbackLast` still has before it, for the command
line or for the node whose policy called it. `applies`, `lost` and `reverted` are history: what agents have carried
out, what the store could not learn of, and which rows were undone.

Actions. The main loop is `StartRun`, `Complete`, `Return`. A node's goroutine is `SkipHalted`, `CascadeSkip`,
`RecordSkip`, `SkipDone` or `BeginExecute`, `Launch` (one target), `Finish`, `PolicyRollback`; what is one action is
what the code does under one hold of `mu` or between two operations other goroutines can see. A pair's goroutine is
`CheckCancel`, `SettledByHistory` (`--resume`, `--reconcile`, commands that are not idempotent), `SkipFromHistory`,
`StartAttempts`, then per attempt `FailEarly`, `ProbeSettles`, `NothingToSync`, `ReportOnly` or `Connect`,
`SendApply`, `AgentApplies` or `AgentFails` or `ReplyLost`, `RecordResult`, `Compensate`, and finally `Release`.
`Connect` is `dialAgent`, which fails once the context is cancelled; `SendApply` is the `Encode` that follows and
looks at no context, so a connection that was dialled before a cancel carries its request all the same. `TimeoutFires`
is the deadline, `Crash` the death of the controller: the maps are gone, the store and the agents stay, and a request
that was sent may still be carried out. `RollbackCommand`, `RollbackStep`, `RollbackDone` are `RollbackLast`.

Abstractions. A request has an outcome (success or not, changed or not); inputs, results and formats are left out.
Node hashes are constants, so that a plan may change between runs. The targets of a node are distinct. A plan is not
empty (`Validate` refuses one).

### DependencyGraph

`graph`, `edges`, `inDegree`, `copy` (`inDegreeCopy`) and `count` are the code's; `i` and `unread` are its loops, `queue`
and `todo` the visit. An edge is named by the `depends_on` entry it comes from, so that an id listed twice is two
edges as in the code's slices. `AddNode`, `AddEdge`, `Seed`, `Pop`, `Decrement` and `Decide` are the loop bodies; the
order is left open wherever Go ranges over a map, which also covers every order of the slices.

### FileSync

A tree is a function from paths to entries (absent, a directory, a file with its chunks). `src` and `dest` are the
two trees, `snaps[n]` is the snapshot directory of the n-th apply, `cs` the change set, `left`, `sending` and `sent` the
controller's stream, `tmp` the agent's open temporary file, `applied` and `failed` the lists of the result, `dels`
the rest of `cs.Delete`, `rows` what the controller has recorded. The marker is an entry of `dest` whose content is
the number of the snapshot; it may be empty. `answer` is how the last rollback since the last apply ended (`complete`,
`incomplete`, `skipped` for want of a marker, `lost`). `before`, `touched` and `uncopied` are history.

`Sync` detects and diffs, `BeginApply` makes directories, `NextFile`, `ReceiveFirst` and `ReceiveMore` are one file or
chunk of the stream on both sides (the connection is in order and without loss until it breaks), `EndOfStream` and
`StreamBreaks` leave the loop, `Delete` is one file, `Reply` writes the marker and answers, `Compensate` is
`doRollback` after a failed apply, `RollbackCommand` and `UndoRow` are `rollback --last`. `finishCurrentFile` finishes what is
`Finishable`, or fails at the close or the rename: between two files it reports that (`Unfinished`), at the end of the loop
`LeaveLoop` does not (`apply.go:144`). What fails is a `Fault`: the connection, a directory, a copy, a temporary file, its
closing or renaming, a write, a removal, the marker, the response, the agent's process. `EditSource` and `EditDest` are the
world: the source changes between syncs, the destination at any time up to the apply.

`Rollback` has every outcome that `rollback.go` can have with one failure (`RollbackRuns`): all is done; one file is
not copied back or not removed, possibly torn, and the answer says so; the snapshot directory goes only in part or the
marker stays, of which the answer says nothing (`rollback.go:66`); or the process ends anywhere, before, in or after
the directory's removal, and there is no answer. `RollbackSkipped` is a rollback that finds or can read no marker,
`RollbackLost` one that never begins. It is one step because nothing of the model can come in between: what the file
system is left with is all that matters.

Abstractions. Directories are leaves: that a file's parent is missing shows as a temporary file that cannot be
created. No modes and owners. A file that is being copied or written and fails is empty. An apply and a rollback on
one destination do not overlap. The source does not change while it is being streamed.

### Compiler

State. `files` are the source files by path, each a sequence of declarations; `default` is the version the command line
asks for; `library` is the embedded standard library. `stage` is the phase that is next, or how the run ended
(`compiled`, `compared`, `refused` with errors about the file, `failed` with an error of lowering or of the library,
`crashed`). `merged` is the file after its imports, `tables` what validation hands to lowering (lets, steps, loops,
fleets, primitives, functions), `nodes` the nodes of the plan. `stack`, `resolved` and `importErrs` belong to
`Imports`: a frame per call of `ResolveImports` with the declaration it is at and what it has gathered. `uses`, `starts`, `calls`,
`visited` and `cycles` belong to `CycleSearch`: the graph, the nodes still to start from, a frame per call of `dfs` with the
neighbour it is at, and what has been found; `found` keeps the searches that have ended.

Actions. `CompileFileAutoDetect` chooses the version and refuses what the version has not. `Resolve` is one step of
the walk over imports: `KeepDecl`, `ImportCircular`, `ImportUnreadable`, `ImportResolved`, `ImportEnter` or
`FinishFile`. `Validate` is the validator of the version. Validators are operators on the file and the searches that
have ended: one that comes to a search that has not been made stops with `Unsearched`, whereupon `AskForCycles` begins
it, `Search` is one step of it (`StartFrom`, `SkipStart`, `VisitNeighbour`, `CloseCycle`, `PassVisited`, `Leave` or
`EndSearch`), and the validator is asked again. `LibraryMissing` and `Lower` are what comes after it, `CheckPlan` is
`plan.Validate`, `Compare` is `plan diff` of an earlier plan or this one with this one, each either compiled or loaded
from its JSON (`PlanDiff`). Validators and lowerings call those of earlier versions as the code does (`ValidateV0_8`
over `ValidateV0_6`, `LowerToPlanV1_2` over `LowerToPlanV0_8`), or stand alone where it does not.

Abstractions. An identifier or text is a sequence of tokens, as far as it is taken apart (placeholders `${x}`, names
with dots, the ids `n.x` of expanded nodes); an error is its kind and the name it is about. Maps whose order Go leaves
open are sets, and results that are sorted by name come in some order. A recursion that has no guard in the code ends
in `crashed` when it is `StackDepth` deep: the bound stands for the stack and is larger than any of the instances need
to end. `Lost(n)` is what JSON does not keep of the node `n` as `reflect.DeepEqual` sees it, so that a compiled node
and a loaded one that are the same can differ: in the runs it is `LostInJson`, a number among the inputs (`int`
against `float64`) and an empty list or block that JSON leaves out (an empty slice against `nil`); a block that is
written and empty counts as one that is not, and a plan whose JSON was written by hand as one that `plan build` wrote.
`Disk` is what the controller's functions (`_ctrl.readdir`, `_ctrl.read`, `_ctrl.sha256`) find. The library is a
parameter: the pass run uses one that can be read, so that what comes after it is reached at all; some of its
instances, and `V_Library`, use one with the expression of `archive.devops`, which cannot (section 4).

## 3. Runs

Every run is `tlc -config <run>.cfg <module>`. All finish within about three minutes. `Schedule`, `ResumeRuns`, `Undo` and `Ends`
are of `MC_Orchestrator`, `Graph` of `MC_DependencyGraph`, `FileSync` of `MC_FileSync`, `Compile` of `MC_Compiler`.

| run | instance | question |
|---|---|---|
| `Schedule` | three nodes: a retried two-target `file.sync`; a command whose failure does not halt, on the condition that the first has not changed, without waiting for it; and a node that joins both, on the condition that the first has changed; 2 slots, 1 fault | Is the scheduling right in every interleaving? Counts, slots, dependency order, conditions, skips, verdicts, nothing left behind, and refinement of `PlanExecution` |
| `ResumeRuns` | a chain of two commands, the second on two targets; three runs with `--resume`, one crash, two faults | Is anything executed twice that the store knew of? |
| `Undo` | a chain of three with a rollback policy; any two commands among apply, dry run, observe and `rollback --last`; a store whose writes may fail, one crash | Are rows undone dependants first, and does the log stay honest? |
| `Ends` | two nodes that may both fail, time out and roll back, one slot | Do all runs and rollbacks end? |
| `Graph` | every list of two nodes over three ids, and of three nodes starting `a`, `b`, with up to two dependencies each | Is `BuildGraph`'s answer right, in every order of maps and slices, and does it always come? |
| `FileSync` | three source trees, two destinations, two paths and the marker: a file of two chunks that is empty in one source and missing in another, a file that is a directory in one; two applies, two faults, one outside edit, `delete_extra` | Copies first, torn files reported, what does "applied" mean, what does a complete rollback restore? |
| `Compile` | 10 107 sources: flat files of every version with good and bad nodes and declarations; expressions of up to two operators; three steps over each other in every way, with parameters; loops; fleets and contracts; two composite primitives over each other, with prepare blocks and foreach; all import graphs of three files from a choice of import lists, with and without alias; two functions that may call each other | Does the compiler end, does it find what is wrong and nothing else, and is the plan the one a person would write? What does `plan diff` say of each plan and an earlier one or itself? |

The properties, module by module, with what would break each (every one is also checked against a mutated definition
that models a plausible bug; they stand beside the definition they replace, marked "Mutant"):

- `SlotsBalanced`: a pair that ends without giving back its token (mutant: one that failed keeps it).
- `DependenciesFirst`, `InDegreeCounts`: releasing a dependant with its first dependency, or executing it while some
  dependency is down.
- `VerdictMatchesPairs`: an exit status that only knows failures that halted.
- `LeavesNothingBehind`: a main loop that ends with a halt and does not wait for the goroutines that are still at work
  (mutant). A pair that has dialled when another halts the run still sends its request; what the code
  does ensure is that `Run` does not return before it has been answered, recorded and, by policy, rolled back.
- `WhenHolds`, `SkipHasCause`: taking heed of a change that is excluded but not of one that is asked for, or asking
  too much (mutants). They speak of every plan that `Validate` accepts. Of a condition on a dependency they say what
  one expects. A condition on another node is looked up when that node may not have finished, and they say what is
  left: a change that is asked for has taken place, one that is excluded may come later (section 4), and a node that
  asked for one may be skipped too early.
- `LogIsHonest`: a row that claims an execution that did not succeed, or one missing without a lost response or row.
- `ResumedOnce`: a resume that does not recognise what was applied.
- `DependantsUndoneFirst`: rows taken in another order.
- `Termination`, `RollbackEnds`: a leaked token; a row that stays until its undo succeeds.
- `VerdictRight`, `VisitedInOrder`, `DegreesMatchEdges`, `Decided`: a node queued too early; an edge counted once for
  several nodes; a loop that waits for all nodes.
- `CopyBeforeChange`: what is "new" by a stale change set is overwritten without a copy.
- `TornIsReported`: the head of a file is lost with its temporary file and the rest passes for the whole.
- `AppliedIsSynced`: of an apply recorded as applied at most one file is not synchronised, and that one is as it was: the last,
  whose close or rename failed. The mutant is a `finishCurrentFile` whose error is dropped between files as it is at the end.
- `UndoRestores`: deletions that are not restored (mutant). It speaks of the first rollback of the last apply that says it is
  complete, if the marker is that apply's; what an earlier one, incomplete or lost, has left is for section 4.
- `ReadBack`: an expression written with as few parentheses as the language has (none) and read again is the same
  (mutant: `+` binds more loosely than `==`).
- `TypesAreSound`: what type checks as `T` folds to a value of type `T`, or fails on a secret (mutant: `+` on lists type checks).
- `CircularIffCycle`: an import is called circular exactly when imports go round (mutant: so is a file imported twice).
- `NearsItsEnd`: every step decreases a measure of what is left, so that with the check for deadlock the compiler ends
  without any assumption on scheduling (mutant: an import that failed is tried again). The measure is a sequence
  compared from the left (`Less`): the phases to come, what is left in each call of `ResolveImports` from the
  outermost on (`WalkLeft`), the searches to come, what is left of the one under way (`SearchLeft`). That the two
  parts decrease is proved for every project and graph (section 5).
- `AliasKeepsReferences`: a reference follows its declaration into the alias (mutant: `depends_on` is not renamed).
- `CyclesFound`: accepted steps and primitives have no cycle, refused ones have one (mutant: the search starts once).
- `CyclesExact`: what a search reports are cycles of its graph, and it reports none only when there is none, for each search
  by itself (mutant: the reported path starts one node too late).
- `CrashesAreKnown`: the list of ways to crash the compiler is complete (mutant: only direct recursion of primitives counts).
- `ExpansionIsManual`: the plan of a file with steps and loops is the plan of the same file with its nodes written
  out, contracts and inputs named like parameters aside (mutant: the body's failure policy wins over the node's).
- `StepsAreGone`: no step and no primitive survives lowering (mutant: nodes of loops are not expanded).
- `InnerOrderKept`: nodes of an instance keep the order of the primitive's body (mutant: dependencies are not renamed, so
  that another node of the plan with such a name is taken for it).
- `DiffExact`: the difference of two plans turns one into the other, and names a node that both have only where a loaded plan
  is compared with a compiled one and the node has something that JSON does not keep (mutant: only inputs count).

**Deadlock.** Commands, applies and edits are bounded, and a user may stop typing: a state in which everything has
ended is no error. `CHECK_DEADLOCK FALSE` says so in the runs of `Orchestrator`, `DependencyGraph` and `FileSync`; that
nothing stops half-way is `Termination`, `RollbackEnds` and `Decided`. The compiler may only stop in one of its ends:
`Compile` checks for deadlock, and `Done` stutters there.

**Bounds.** `MaxRuns` commands: two where an apply is followed by what reads or undoes it, and three are enough for a
failure, its repetition and the success that both should leave alone. `MaxFaults`: one fault and its handling with
full interleaving, two where runs follow each other. Two slots for three nodes make the semaphore bind, one slot makes
it the bottleneck. `MaxCrashes` 1. In `FileSync` two applies give a marker of an older apply, two faults a temporary
file that fails within an apply whose marker or connection fails, one outside edit a stale change set; a rollback may
fail with what is left of them, and again. In `Graph` three ids give every shape of cycle up to length three,
self-dependencies and double entries. In `Compile` three steps, two primitives, two functions and three files give
cycles of length one to three with a part that is not on them; two operators give every pair of levels in both orders;
two nesting levels of parameters give every way a binding can be passed on or dropped; a loop over two values and a
prepare block over two files give several instances side by side; `StackDepth` 5 is deeper than any expansion of these
instances that ends. The theorems of section 5 have no bounds.

**Fairness.** `Ends` uses `WF_vars(Progress)`: while a command can take a step it takes one. Goroutines are scheduled,
and an agent answers or its connection breaks; the code sets no deadline on reads, so without that assumption a
silent agent keeps a run waiting for ever (listed as a hazard). `TimeoutFires` and `Crash` are not assumed to happen:
termination does not depend on them. `Graph` uses `WF_vars(Next)`: one goroutine that runs. `Compile` needs none: see `NearsItsEnd`.

## 4. Where the code does other than it says

Each of these runs ends in a counterexample, which is the point of it.

| run | what the repository says | what the run shows |
|---|---|---|
| `V_DryRunBuiltin` | `README.md:224` "`--dry-run`: Show changes without applying", `main.go:511` | `runBuiltin` does not look at the options and executes; `ReadOnlyIsInert` counts what is executed and what is undone |
| `V_RollbackLast` | `README.md:314` "`--last`: Rollback the most recent execution" | rows of earlier runs of the same plan are undone too |
| `V_RollbackCmd` | `LANGUAGE_VERSIONS.md:185` "`rollback_cmd = [...]` (inverse operation for `process.exec`)" | the command reaches `handleExec` as `[]string`, which it does not accept |
| `V_Library` | `dotdevops-primitive-extensibility-plan.md:259` "The standard library should be available in every plan without an explicit import." | `stdlib/archive.devops:50` puts an expression in parentheses, which `parsePrimary` (`parser.go:1253`) does not know; `LoadStdlib` fails, and with it every compilation from version 1.2 on |
| `V_Manual` | `LANGUAGE_VERSIONS.md:217` "Manual expansion == Generated expansion (same hash)" | a node that comes out of a loop is not found again under its new name and loses its contract (`lower.go:996`) |

Met on the way, modelled as the code has it, and without a property that could pass:

- *Controller.* A dry run that cannot reach an agent under `failure_policy = "rollback"` has agents undo an earlier
  apply (`orchestrator.go:403`; `README.md:224` promises that a dry run only shows). After the deadline a pair returns
  without an error and its node counts as applied, its target never contacted (`:235`), and so does a node one of
  whose targets ended as `partial` (`:772`), against "applied: successful completion of all targets."
  (`.qoder/repowiki/en/content/Execution Engine Architecture/Orchestrator Design and Control Flow/Node Execution
  Coordination and Dependency Resolution.md:308`). A halt does not stop an apply whose connection is dialled: `:553`
  asks the context, `:572` does not. A rolled-back row stays `applied` and is taken again by the next rollback; a
  `skipped` row hides an older applied one from `--resume`. A condition is looked up once, when the node's
  dependencies are done (`orchestrator.go:167`); `plan/validate.go:60` accepts a `when.node` that is not among them,
  so a node with `changed: false` may run before the node it asks about has reported, against "A node with a when
  clause waits for the referenced node’s changed flag to match the expected value before proceeding"
  (`.qoder/repowiki/en/content/Execution Engine Architecture/Parallel Execution Model.md:403`). It takes a plan of two
  nodes without dependencies, the second with a condition on the first, to see it.
- *file.sync.* "Rollback: Restores the destination to the state before the last apply using snapshot directories"
  (`.qoder/repowiki/en/content/Primitive Operations/File Synchronization Primitive.md:75`) holds only as far as
  `UndoRestores` says. An apply that only created files leaves no marker, so its rollback removes nothing and reports
  success (`apply.go:186`, `rollback.go:27`). A rollback that ends between `rollback.go:66` and `:67`, or whose
  removal of the marker fails, leaves a marker without its snapshot, and the next one finds nothing to copy back and
  reports success; one that could not restore a file removes the copy all the same. A last file whose close or rename
  fails is recorded as applied (`apply.go:144`). A stream that breaks leaves a truncated file under its final name
  (`apply.go:144`); empty files are never sent; with `delete_extra` the marker makes a synchronised tree differ from
  its source; a file that was to be created and exists by then is copied, and removed by a rollback all the same
  (`rollback.go:55`, against the comment at `rollback.go:17`).
- *Plan.* `plan diff` of a `.devops` file with the plan that `plan build` made of it reports nodes as changed that are the same:
  `diff.go:43` compares Go values, and JSON turns `int` into `float64` and an empty `DependsOn` (`lower.go:1143`) into `nil`.
- *Compiler.* The crashes that `CrashesAreKnown` lists: lets or functions that refer to each other, primitives that use each
  other from a foreach block (`findPrimitiveCycles` sees only plain nodes, `validate.go:2413`), a loop value with its own
  placeholder, a node without a type in places that do not check. What an instance of a primitive itself depends on,
  its failure policy and its contract are dropped, and a node that depends on an instance makes the plan refused,
  because the instance's id is gone (`lower.go:1118`). Contracts are also found by a suffix of the node's id over a Go
  map: where two match, which one counts changes from run to run (`lower.go:1002`), against `DESIGN.md`'s deterministic
  compilation. An input named like a parameter of an inner step leaks into the node. A step over a built-in other than
  `file.sync` and `process.exec` passes validation and fails in lowering (`lower.go:680`). A secret within a list or a
  sum is neither listed nor resolved (`lower.go:619`). Under an alias the nodes of loops and foreach blocks are not
  renamed, and names with a dot are renamed where they are referred to but not where they are declared (`resolve.go:280`).

## 5. Theorems

All are checked by `tlapm` for every value of the constants that satisfies the assumptions named in the modules
(`NodesAssumption` and `RunsAssumption` in `Orchestrator`; `DependencyGraphAssumption`: the inputs are lists of
nodes; `FileSyncAssumption`: trees over a set of paths, and a marker that neither tree holds at first).

| theorem | statement | argument |
|---|---|---|
| `Orchestrator_proofs!TypeCorrect` | `Spec => []TypeOK` | `TypeOK` is inductive; one lemma per group of actions |
| `CountsCorrect` | `Spec => []InDegreeCounts` | from `ScheduleInv` |
| `DependenciesRespected` | `Spec => []DependenciesFirst` | from `ScheduleInv` |
| `Orchestrator_refinement!OrchestratorImplementsPlanExecution` | `Spec => ImplementsPlanExecution` | from `WorkInv`, step by step |
| `Orchestrator_safety!SlotsCorrect` | `Spec => []SlotsBalanced` | from `LaunchInv`, `SlotsInv` |
| `VerdictsCorrect` | `Spec => []VerdictMatchesPairs` | from `WorkInv` and `HaltInv`, at the steps that end a run |
| `SkipsCorrect` | `Spec => []SkipHasCause` | from `SkipInv` |
| `ConditionsCorrect` | `Spec => []WhenHolds` | inductive with `WorkInv` and `FlagInv`: a dependency has reported, and a raised flag stays |
| `Orchestrator_history!HonestyCorrect` | `Spec => []LogIsHonest` | inductive with `WorkInv` and `LaunchInv`; rows counted as a finite set |
| `RollbackOrderCorrect` | `Spec => DependantsUndoneFirst` | from `RunRowsInv`, `OrderInv`, `TodoInv` |
| `RunsEndClean` | `Spec => []LeavesNothingBehind` | from `WorkInv`, `TodoInv` |
| `ResumeCorrect` | `ResumeOnly` gives `Spec => []ResumedOnce` | from `ResumeInv`: `LastRowInv`, `DownwardInv`, `PairsKnowInv`, `NodesKnowInv` |
| `DependencyGraph_proofs!VerdictCorrect` | `Spec => []VerdictRight` | from `BuiltInv`, `EdgesInv`, `VisitInv` |
| `DependencyGraph_proofs!TypeCorrect`, `DegreesCorrect`, `OrderCorrect` | `Spec => []TypeOK`, `Spec => []DegreesMatchEdges`, `Spec => []VisitedInOrder` | from the same invariants |
| `FileSync_proofs!TypeCorrect` | `Spec => []TypeOK` | from `ControlInv`, `TreesInv`, `RowsInv`, `UncopiedInv` |
| `FileSync_proofs!CopiesFirst` | `Spec => []CopyBeforeChange` | from `CopiesInv` |
| `FileSync_outcomes!TornCorrect` | `Spec => []TornIsReported` | from `PlanInv`, `StreamInv`, `OutcomeInv` |
| `AppliedRowsCorrect` | `Spec => AppliedIsSynced` | from `OutcomeInv`, at `Reply` |
| `UndoCorrect` | `Spec => UndoRestores` | from `CopiesInv`, `SnapInv`, `LedgerInv`, `RecoverInv` |
| `Compiler_proofs!ImportsCorrect` | `ImportSpec => []CircularIffCycle` | from `WalkInv` |
| `SearchCorrect` | `SearchSpec => []CyclesExact` | from `SearchInv` |
| `ImportsEnd` | `ImportSpec => WalkAdvances` | from `WalkInv` and `OnceInv` |
| `SearchesEnd` | `SearchSpec => SearchAdvances` | from `SearchInv` and `FiniteInv` |
| `DiffCorrect` | `DiffSpec => []DiffExact` | from `ComparedInv` and `DiffOfUnique`, for any `Lost` |

The last five are about the parts of the compiler that have a specification of their own. `ImportSpec` takes any
finite set of files that are sequences of declarations, with the compiled one among them (`Readable`), and any
operator for what an import adds to its importer; its steps are those of `Compiler!Resolve`. `SearchSpec` makes any
number of searches of any graphs, each from any sequence of nodes that has the graph's (`Searchable`); its steps are
those of `AskForCycles` and `Search`. `DiffSpec` compares any two plans, each compiled or loaded, whatever JSON may
lose; its step is that of `Compare`. The other actions of `Compiler` leave alone what these theorems speak of, with
two exceptions: for a version without imports `CompileFileAutoDetect` sets `merged`, which no theorem mentions, and
`Lower` sets `nodes` before anything is compared, as `DiffInit` does. That `Readable` and `Searchable` hold of what
the compiler hands over is a part of `Compiler!TypeOK`, which `Compile` checks. `CircularIffCycle`, `CyclesExact` and
`DiffExact` are invariants of `Compile`, too; `WalkAdvances` and `SearchAdvances` are checked there as parts of
`NearsItsEnd`.

One theorem has a hypothesis about the plan, stated in the theorem and true of the instance of the run that checks
the property:

- `ResumeOnly`: what `ResumedOnce` is about. All commands are `apply --resume` of one plan. No node is a `file.sync`
  (which writes no row when there is nothing to do), has a condition (a later run in which it does not hold writes
  `skipped` over the applied row) or a probe (which settles a pair without executing it), and none rolls back: each of these
  makes the latest row of a pair say less than that it was applied. The store can be written to: a row that was not is
  not read back. Every node has a target (`plan/validate.go:44`). Failures, deadlines, lost responses and crashes are not restricted.

- `ScheduleInv` is `TypeOK /\ GoroutinesInv /\ InDegreeCounts /\ VerdictInv /\ DependenciesFirst`. Counting is not inductive
  alone: that an in-degree of zero means that all dependencies have a verdict needs `VerdictInv` (a node is pending
  exactly while it waits, is ready or executes), and that no goroutine of an earlier run is left to change a verdict
  needs `GoroutinesInv` (they exist only while a run is running).
- `WorkInv` adds that only executing nodes have pairs at work (`ActiveInv`) and that a failed node has a failed pair,
  a failed pair a node that has failed or is still executing (`ErrInv`): without it `Return` could not be mapped to
  `PlanExecution!Finish`.
- `SlotsInv` is `SlotsBalanced` over a finite set of goroutines that hold a token: one is taken at `Launch` and given back at
  `Release`, whatever the pair ended in. That a launched pair held none before needs `LaunchInv`: the pairs the loop over
  the targets has not come to are idle. `HaltInv` gives every cancelled run a reason: without a deadline it is halted, and a
  halted run has a failed node, so that it cannot end well. `SkipInv` says that a skipped node has a reason that cannot
  go away in this run: a dependency that is down, a condition that cannot come true any more because its node has reported or because
  its flag is already raised, a halt, or that it was too early. `FlagInv` says that a flag is raised together with the verdict.
- `LogIsHonest` is kept by every step, because a pair's account (rows, lost, in flight) moves in one place at a time; that
  what `StartRun` and `Launch` reset held nothing needs `ActiveInv` and `LaunchInv`.
- `OrderInv` says that within a run the rows of a dependant that can be undone come after those of what it depends on.
  To add a row it needs `RunRowsInv`: a node with such a row in the run under way has had all its dependencies report, so
  no dependency adds one later. `TodoInv` says that a rollback has only such rows before it; each step takes the newest.
- `LastRowInv` says that the applied row of a pair is its latest row, so that `--resume` finds it. It holds because a pair that has one
  is not sent again (`PairsKnowInv`) and not recorded as skipped (`NodesKnowInv`), which in turn needs that a node is applied
  somewhere only when its dependencies are everywhere (`DownwardInv`): a resumed run cannot skip a node for a dependency
  while one of its pairs has been applied.
- `VisitInv` says of every node not yet visited how many of its entries are still to be counted down, that only
  nodes at zero are queued, and that no set of nodes each of which has a dependency in the set contains a visited
  node. The last is what turns Kahn's count into the absence and presence of cycles: if all nodes were visited no
  such set exists, and if the queue is empty the rest is one.
- `CopiesInv` says which paths are still as they were when the apply began (what is left, what is sent, what is to be
  deleted), so that a copy taken now is a copy of what was there before, and that the open temporary file's path has
  its copy already, so that the rename may follow. `Apply` drops the errors of its copies (`apply.go:114`): the files
  concerned are recorded in the history variable `uncopied` and exempted, here and in `UndoRestores`.

- `StreamInv` says that the open temporary file holds exactly the chunks sent so far, or all of a file that is no longer
  being sent, unless its path has failed or it is closed; and that of a file whose temporary file is not open
  either nothing has been sent or it has failed. So what `finishCurrentFile` renames is the source's file (`FinishedIsSource`).
  `OutcomeInv` adds where every path of the change set is: still to come, on its way, failed, as the source, or empty
  in the source. When the loop has ended one path may still be on its way for ever: that of the file that was open.
- `MarkerInv` says that the marker, and every copy of one, is empty or names an apply that has begun, whatever
  rollbacks and failures have left. `RecoverInv` is about the last apply, as long as no rollback has answered since
  (`answer = "none"`; one that failed may have taken the copies with it) and the marker names it. While it is under
  way every path it replaces or deletes is unchanged or has its copy, because a snapshot directory begins empty and is
  written while the path is unchanged (`SnapInv`). Afterwards only outsiders change these paths (`touched`).
  `LedgerInv` says that no other row has its number, and `CompleteLeaves` which of the outcomes of `Rollback` are
  called complete: those in which all that could be restored or removed was.

- `WalkInv` is about the calls of `ResolveImports` that have not returned. Each stands at the import for which it made the next
  (`ChainInv`), so that an import of a file in progress closes a cycle of calls, and every file on the stack is below those under
  it. A call has the error only if there is a cycle below its file, and without it the imports it is past have no
  cycle below them (`Knows` of `FramesInv`): that is what lets `FinishFile` conclude, from `RoundBelow` (a cycle below a file
  is a cycle below one that it imports), that a file without the error has none. It needs `ResolvedInv`: a file that is
  skipped because it is resolved has no cycle below it, because only files without errors are kept.
- `SearchInv` says that `calls` is a path of the graph without repetitions (`IsPath`), so that a neighbour on it closes a cycle;
  and that, as long as no cycle was found, the nodes that were left (visited and no longer on the path) are `Settled`: no edge leaves
  them and no edges go round among them. A node that is left joins them because all its neighbours are among them
  (`Passed`). When the search ends every node with neighbours is one of them.
- `WalkAdvances` and `SearchAdvances` name a measure, since a prover without liveness cannot conclude that something
  ends: that no sequence descends for ever in `Less` is the reader's to see (each part is a natural number, or
  `NotYet`, above all of them). `OnceInv` says that no file is on the stack twice, because an import of one in
  progress is refused; so the stack is never higher than the number of files (`CallsAreFew`, from the library's
  theorem on injections) and each of its calls has its place in `WalkLeft`. A call that returns may leave its file
  unresolved, after an error, to be gone through again by another import: what decreases is not the number of files to
  come, but what is left in the caller. `FiniteInv` says that the graph is finite, so that the nodes a search can
  still come to can be counted.
- `DiffOfUnique` follows nodes by their ids: with distinct ids the last node of an id is the node.

Only model-checked:

- `Termination`, `RollbackEnds`, `Decided` (liveness, out of the prover's reach);
- of `Compile`: `TypeOK`, `ReadBack`, `TypesAreSound`, `AliasKeepsReferences`, `CyclesFound`, `CrashesAreKnown`, `ExpansionIsManual`,
  `StepsAreGone` and `InnerOrderKept`. They speak of expressions, types, validation and lowering, which are
  recursive operators on the syntax tree: the prover handles neither these nor induction over them. Of `NearsItsEnd` the two parts
  that walk are proved, the order of the phases is checked;
- the statements of section 4 that do not hold.

## 6. Not modelled

The lexer and the parsing of declarations (one fixed sequence of tokens each; their properties are about text, which
tests cover), PKI and the TLS listener (standard library), the display, the legacy `processexec` package (one system
call; the agent uses the contexts' executor), output formats, the cleaning of import paths. The rest of what is missing
is in the plan.

## 7. Plan

Done: `PlanExecution`, `ExecutionLog`, `Orchestrator` and its proofs; `DependencyGraph` and its proof; `FileSync` and its
proofs; the compiler, `Syntax` to `Compiler`, and the proofs about its walks. Left, in this order:

1. `Contexts`: `ResolveContext`, `ValidateFilePath` and the command checks, as operators against a reference; what is
   audited at which level (the levels are compared as strings, `executor.go:208`). Composed with the agent's dispatch.
2. `Sessions`: two connections on one `file.sync` destination (a retry or a rollback that overlaps the apply).
3. `Documents`: the LSP's document store; secrets and their redaction in recorded rows.

Of `Orchestrator`, `DependencyGraph` and `FileSync` every safety and action property that a run checks is proved, and of the
compiler those of its import resolution, its searches and its comparison of plans. What is left of the compiler's properties
speaks of recursive operators on the syntax tree (section 5).
