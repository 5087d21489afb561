------------------------------- MODULE Imports ------------------------------
(***************************************************************************)
(* Import resolution (internal/devlang/resolve.go).                        *)
(*                                                                         *)
(* ResolveImports calls itself for every imported file.  The stack holds   *)
(* one frame per call that has not returned; InProgress, which the code    *)
(* sets when a call starts and deletes when it returns, is the set of the  *)
(* files on it.  A file that cannot be read or parsed is not in the domain *)
(* of files.  LoadFile's cache is left out: a file does not change while   *)
(* it is compiled.                                                         *)
(***************************************************************************)
EXTENDS Syntax, Progress

CONSTANT Imported(_, _)  \* what declarations add to a file that imports them under an alias

VARIABLES
  files,      \* the declarations of every file that can be read, by path
  stack,      \* the calls of ResolveImports that have not returned
  resolved,   \* Resolved: what each file came to, its imports merged in
  merged,     \* what the first call returned: declarations ...
  importErrs  \* ... and errors

importVars == <<files, stack, resolved, merged, importErrs>>

Root == "main"
Frame(path) == [path |-> path, at |-> 1, decls |-> <<>>, errs |-> {}]
Top == stack[Len(stack)]
InProgress == {stack[i].path : i \in DOMAIN stack}
Current == files[Top.path][Top.at]

-----------------------------------------------------------------------------

ImportInit == stack = <<Frame(Root)>> /\ resolved = <<>> /\ merged = <<>> /\ importErrs = {}

\* A frame that has dealt with its import.
Received(frame, decls) ==
  [frame EXCEPT !.at = @ + 1,
                !.decls = @ \o Imported(decls, files[frame.path][frame.at].alias)]
\* Mutant: the walk stays at an import that failed.
RefusedInPlace(frame, errs) == [frame EXCEPT !.errs = @ \cup errs]
Refused(frame, errs) == [frame EXCEPT !.at = @ + 1, !.errs = @ \cup errs]

SetTop(frame) == stack' = [stack EXCEPT ![Len(stack)] = frame]

\* The call on top returns to its caller, or to the compiler.
Return(decls, errs) ==
  LET callers == Front(stack)
      n == Len(callers)
  IN IF n = 0
     THEN /\ stack' = <<>>
          /\ merged' = decls
          /\ importErrs' = errs
     ELSE /\ stack' = [callers EXCEPT ![n] =
                         IF errs = {} THEN Received(@, decls) ELSE Refused(@, errs)]
          /\ UNCHANGED <<merged, importErrs>>

AtDecl == stack # <<>> /\ Top.at <= Len(files[Top.path])
AtImport == AtDecl /\ Current.kind = "import"

KeepDecl ==
  /\ AtDecl
  /\ Current.kind # "import"
  /\ SetTop([Top EXCEPT !.at = @ + 1, !.decls = Append(@, Current)])
  /\ UNCHANGED <<files, resolved, merged, importErrs>>

\* Mutant: a file that was imported before is called circular.
ImportSeenBefore ==
  /\ AtImport
  /\ Current.path \in InProgress \cup DOMAIN resolved
  /\ Return(<<>>, {"circular import"})
  /\ UNCHANGED <<files, resolved>>
\* The file that is to be imported is being resolved: the call gives up.
ImportCircular ==
  /\ AtImport
  /\ Current.path \in InProgress
  /\ Return(<<>>, {"circular import"})
  /\ UNCHANGED <<files, resolved>>

ImportUnreadable ==
  /\ AtImport
  /\ Current.path \notin InProgress \cup DOMAIN files
  /\ SetTop(Refused(Top, {"cannot load"}))
  /\ UNCHANGED <<files, resolved, merged, importErrs>>

ImportResolved ==
  /\ AtImport
  /\ Current.path \notin InProgress
  /\ Current.path \in DOMAIN resolved
  /\ SetTop(Received(Top, resolved[Current.path]))
  /\ UNCHANGED <<files, resolved, merged, importErrs>>

ImportEnter ==
  /\ AtImport
  /\ Current.path \in DOMAIN files \ (InProgress \cup DOMAIN resolved)
  /\ stack' = Append(stack, Frame(Current.path))
  /\ UNCHANGED <<files, resolved, merged, importErrs>>

\* The file's declarations are kept for later imports unless there was an error.
FinishFile ==
  /\ stack # <<>>
  /\ Top.at > Len(files[Top.path])
  /\ resolved' = IF Top.errs = {} THEN Overlay(resolved, [x \in {Top.path} |-> Top.decls])
                 ELSE resolved
  /\ Return(Top.decls, Top.errs)
  /\ UNCHANGED files

ResolveImports ==
  \/ KeepDecl \/ ImportCircular \/ ImportUnreadable
  \/ ImportResolved \/ ImportEnter \/ FinishFile

\* What a project may be: finitely many files, every one a sequence of
\* declarations, and the one that is compiled among them (its parse came first).
Readable ==
  /\ IsFiniteSet(DOMAIN files) /\ Root \in DOMAIN files
  /\ \A p \in DOMAIN files : files[p] \in Seq(Range(files[p]))

\* The resolution of a project's imports.
ImportSpec == Readable /\ ImportInit /\ [][ResolveImports]_importVars

-----------------------------------------------------------------------------
(* Properties *)

\* The files that a file imports, and all that are reached from it: the least
\* set that has it and what its members import.
ImportsOf(p) == {d.path : d \in {e \in Range(files[p]) : e.kind = "import"}} \cap DOMAIN files
Closed(s) == \A q \in s : ImportsOf(q) \subseteq s
Below(p) == {q \in DOMAIN files : \A s \in SUBSET DOMAIN files : p \in s /\ Closed(s) => q \in s}

\* Below p there are files each of which imports another of them.
GoesRound(p) == \E s \in SUBSET Below(p) : s # {} /\ \A q \in s : ImportsOf(q) \cap s # {}

\* A circular import is reported if and only if imports go round somewhere
\* below the file that is compiled; importing a file twice is no cycle, and an
\* error elsewhere hides none.  ResolveImports (resolve.go).
CircularIffCycle == stack = <<>> => ("circular import" \in importErrs <=> GoesRound(Root))

\* However the files import each other, every step of the walk goes on in one
\* of its calls or makes one more, of a file that no call is of; so it ends.
\* A call that returns takes what was left of it with it.  ResolveImports
\* (resolve.go).
WalkLeft ==
  [h \in 1..Cardinality(DOMAIN files) |->
     IF h \in DOMAIN stack THEN Len(files[stack[h].path]) + 1 - stack[h].at ELSE NotYet]
WalkAdvances == [][stack' # <<>> => Less(WalkLeft', WalkLeft)]_importVars
=============================================================================
