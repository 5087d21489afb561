--------------------------- MODULE Compiler_proofs --------------------------
(***************************************************************************)
(* Theorems about the parts of the compiler that walk: the resolution of   *)
(* imports (Imports), the search for cycles (CycleSearch), the comparison  *)
(* of plans (PlanDiff).                                                    *)
(***************************************************************************)
EXTENDS Imports, CycleSearch, PlanDiff, SequenceTheorems, FiniteSetTheorems, TLAPS

-----------------------------------------------------------------------------
(* Imports: what is below a file *)

LEMMA BelowSelf ==
    ASSUME NEW p \in DOMAIN files
    PROVE  p \in Below(p)
  BY DEF Below

LEMMA BelowFiles ==
    ASSUME NEW p
    PROVE  Below(p) \subseteq DOMAIN files
  BY DEF Below

LEMMA ImportsAreFiles ==
    ASSUME NEW p
    PROVE  ImportsOf(p) \subseteq DOMAIN files
  BY DEF ImportsOf

LEMMA BelowClosed ==
    ASSUME NEW p
    PROVE  Closed(Below(p))
<1>1. SUFFICES ASSUME NEW q \in Below(p), NEW r \in ImportsOf(q) PROVE r \in Below(p)
  BY DEF Closed
<1>2. r \in DOMAIN files
  BY <1>1, ImportsAreFiles
<1>3. ASSUME NEW s \in SUBSET DOMAIN files, p \in s, Closed(s)
      PROVE  r \in s
  <2>1. q \in s
    BY <1>1, <1>3 DEF Below
  <2>2. QED
    BY <2>1, <1>1, <1>3 DEF Closed
<1>4. QED
  BY <1>2, <1>3 DEF Below

LEMMA BelowLeast ==
    ASSUME NEW p, NEW s \in SUBSET DOMAIN files, p \in s, Closed(s)
    PROVE  Below(p) \subseteq s
  BY DEF Below

\* What is below a file below p is below p.
LEMMA BelowMonotone ==
    ASSUME NEW p, NEW q \in Below(p)
    PROVE  Below(q) \subseteq Below(p)
  BY BelowFiles, BelowClosed, BelowLeast

\* A file that imports one with a cycle below has a cycle below.
LEMMA RoundAbove ==
    ASSUME NEW p \in DOMAIN files, NEW q \in ImportsOf(p), GoesRound(q)
    PROVE  GoesRound(p)
<1>1. q \in Below(p)
  BY BelowSelf, BelowClosed DEF Closed
<1>2. QED
  BY <1>1, BelowMonotone DEF GoesRound

\* A cycle below p is a cycle below a file that p imports.
LEMMA RoundBelow ==
    ASSUME NEW p \in DOMAIN files, GoesRound(p)
    PROVE  \E q \in ImportsOf(p) : GoesRound(q)
<1>1. PICK s \in SUBSET Below(p) : s # {} /\ \A n \in s : ImportsOf(n) \cap s # {}
  BY DEF GoesRound
<1> DEFINE all == {p} \cup UNION {Below(q) : q \in ImportsOf(p)}
<1>2. Below(p) \subseteq all
  <2>1. all \in SUBSET DOMAIN files
    BY BelowFiles
  <2>2. ASSUME NEW r \in all, NEW t \in ImportsOf(r) PROVE t \in all
    <3>1. CASE r = p
      <4>1. t \in Below(t)
        BY <2>2, ImportsAreFiles, BelowSelf
      <4>2. QED
        BY <4>1, <3>1, <2>2
    <3>2. CASE r # p
      <4>1. PICK q \in ImportsOf(p) : r \in Below(q)
        BY <3>2, <2>2
      <4>2. t \in Below(q)
        BY <4>1, <2>2, BelowClosed DEF Closed
      <4>3. QED
        BY <4>1, <4>2
    <3>3. QED
      BY <3>1, <3>2
  <2>3. Closed(all)
    BY <2>2 DEF Closed
  <2>4. QED
    BY <2>1, <2>3, BelowLeast
<1>3. ASSUME NEW q \in ImportsOf(p), s \cap Below(q) # {}
      PROVE  GoesRound(q)
  <2>1. ASSUME NEW n \in s \cap Below(q)
        PROVE  ImportsOf(n) \cap (s \cap Below(q)) # {}
    <3>1. ImportsOf(n) \subseteq Below(q)
      BY <2>1, BelowClosed DEF Closed
    <3>2. QED
      BY <3>1, <2>1, <1>1
  <2>2. QED
    BY <2>1, <1>3 DEF GoesRound
<1>4. \E q \in ImportsOf(p) : s \cap Below(q) # {}
  <2>1. CASE \E r \in s : r # p
    BY <2>1, <1>1, <1>2
  <2>2. CASE s = {p}
    <3>1. p \in ImportsOf(p)
      BY <2>2, <1>1
    <3>2. QED
      BY <3>1, <2>2, BelowSelf
  <2>3. QED
    BY <2>1, <2>2, <1>1
<1>5. QED
  BY <1>3, <1>4

-----------------------------------------------------------------------------
(* Sequences of unknown elements *)

LEMMA OwnRange ==
    ASSUME NEW S, NEW s \in Seq(S)
    PROVE  /\ s \in Seq(Range(s))
           /\ Len(s) \in Nat /\ DOMAIN s = 1..Len(s)
           /\ s # <<>> <=> Len(s) >= 1
<1>1. Len(s) \in Nat /\ DOMAIN s = 1..Len(s)
  OBVIOUS
<1>2. \A i \in 1..Len(s) : s[i] \in Range(s)
  BY <1>1 DEF Range
<1>3. s = [i \in 1..Len(s) |-> s[i]]
  OBVIOUS
<1>4. s \in [1..Len(s) -> Range(s)]
  BY <1>2, <1>3
<1>5. s \in Seq(Range(s))
  BY <1>1, <1>4, SeqDef
<1>6. s # <<>> <=> Len(s) >= 1
  BY <1>1, EmptySeq
<1>7. QED
  BY <1>1, <1>5, <1>6

\* s with e at its end, and with e at n.
Push(s, e) == Append(s, e)
Put(s, n, e) == [s EXCEPT ![n] = e]

LEMMA Pushed ==
    ASSUME NEW s, s \in Seq(Range(s)), NEW e, NEW t, t = Push(s, e)
    PROVE  /\ t \in Seq(Range(t)) /\ Len(t) = Len(s) + 1 /\ Len(s) \in Nat
           /\ DOMAIN t = 1..(Len(s) + 1) /\ DOMAIN s = 1..Len(s)
           /\ \A h \in 1..Len(s) : t[h] = s[h]
           /\ t[Len(s) + 1] = e
           /\ t # <<>>
<1> DEFINE S == Range(s) \cup {e}
<1>1. s \in Seq(S) /\ e \in S
  BY SeqDef
<1> HIDE DEF S
<1>2. t \in Seq(S) /\ Len(t) = Len(s) + 1 /\ Len(s) \in Nat
  BY <1>1 DEF Push
<1>3. \A h \in 1..Len(s) : t[h] = s[h]
  BY <1>1 DEF Push
<1>4. t[Len(s) + 1] = e
  BY <1>1 DEF Push
<1>5. t \in Seq(Range(t)) /\ DOMAIN t = 1..Len(t) /\ (t # <<>> <=> Len(t) >= 1)
  BY <1>2, OwnRange
<1>6. DOMAIN s = 1..Len(s)
  BY <1>1
<1>7. t # <<>>
  BY <1>2, <1>5
<1>8. QED
  BY <1>2, <1>3, <1>4, <1>5, <1>6, <1>7

LEMMA Changed ==
    ASSUME NEW s, s \in Seq(Range(s)), NEW n \in DOMAIN s, NEW e, NEW t, t = Put(s, n, e)
    PROVE  /\ t \in Seq(Range(t)) /\ Len(t) = Len(s) /\ Len(s) \in Nat
           /\ DOMAIN t = 1..Len(s) /\ DOMAIN s = 1..Len(s)
           /\ \A h \in 1..Len(s) : t[h] = IF h = n THEN e ELSE s[h]
           /\ t # <<>>
<1> DEFINE S == Range(s) \cup {e}
<1>1. s \in Seq(S) /\ e \in S
  BY SeqDef
<1> HIDE DEF S
<1>2. Len(s) \in Nat /\ DOMAIN s = 1..Len(s) /\ n \in 1..Len(s)
  BY <1>1
<1>3. t \in Seq(S) /\ Len(t) = Len(s)
  BY <1>1, <1>2 DEF Put
<1>4. \A h \in 1..Len(s) : t[h] = IF h = n THEN e ELSE s[h]
  BY <1>2 DEF Put
<1>5. t \in Seq(Range(t)) /\ DOMAIN t = 1..Len(t) /\ (t # <<>> <=> Len(t) >= 1)
  BY <1>3, OwnRange
<1>6. QED
  BY <1>2, <1>3, <1>4, <1>5

LEMMA Popped ==
    ASSUME NEW s, s \in Seq(Range(s)), s # <<>>, NEW t, t = Front(s)
    PROVE  /\ t \in Seq(Range(t)) /\ Len(t) = Len(s) - 1 /\ Len(s) \in Nat \ {0}
           /\ DOMAIN t = 1..(Len(s) - 1) /\ DOMAIN s = 1..Len(s)
           /\ \A h \in 1..(Len(s) - 1) : t[h] = s[h]
<1>1. Len(s) \in Nat /\ DOMAIN s = 1..Len(s) /\ Len(s) >= 1
  BY OwnRange
<1>2. t = SubSeq(s, 1, Len(s) - 1)
  BY DEF Front
<1>3. t \in Seq(Range(s)) /\ Len(t) = Len(s) - 1
  BY <1>1, <1>2
<1>4. \A h \in 1..(Len(s) - 1) : t[h] = s[h]
  BY <1>1, <1>2
<1>5. t \in Seq(Range(t)) /\ DOMAIN t = 1..Len(t)
  BY <1>3, OwnRange
<1>6. QED
  BY <1>1, <1>3, <1>4, <1>5

-----------------------------------------------------------------------------
(* Imports: the invariant *)

Circular(errs) == "circular import" \in errs

IsFrame(f) ==
  /\ f = [path |-> f.path, at |-> f.at, decls |-> f.decls, errs |-> f.errs]
  /\ f.path \in DOMAIN files
  /\ f.at \in 1..(Len(files[f.path]) + 1)

\* What a call knows: the imports it is past have no cycle below them, or it
\* has the error; and it has the error only if there is one below its file.
Knows(f) ==
  /\ Circular(f.errs) => GoesRound(f.path)
  /\ ~Circular(f.errs) =>
       \A i \in 1..(f.at - 1) :
         files[f.path][i].kind = "import" /\ files[f.path][i].path \in DOMAIN files
           => ~GoesRound(files[f.path][i].path)

FramesInv ==
  /\ stack \in Seq(Range(stack))
  /\ \A h \in DOMAIN stack : IsFrame(stack[h]) /\ Knows(stack[h])

\* Each call but the last stands at the import for which it made the next.
StandsAt(f, p) ==
  /\ f.at \in DOMAIN files[f.path]
  /\ files[f.path][f.at].kind = "import"
  /\ files[f.path][f.at].path = p

ChainInv ==
  /\ stack # <<>> => stack[1].path = Root
  /\ \A h \in 1..(Len(stack) - 1) : StandsAt(stack[h], stack[h + 1].path)
  /\ \A g, h \in DOMAIN stack : g <= h => stack[h].path \in Below(stack[g].path)

ResolvedInv == \A p \in DOMAIN resolved : ~GoesRound(p)

WalkInv ==
  /\ Readable /\ FramesInv /\ ChainInv /\ ResolvedInv
  /\ CircularIffCycle

LEMMA FilesKept ==
    ASSUME UNCHANGED files
    PROVE  /\ Readable' <=> Readable
           /\ \A f : (IsFrame(f)' <=> IsFrame(f)) /\ (Knows(f)' <=> Knows(f))
           /\ \A p : (GoesRound(p)' <=> GoesRound(p)) /\ Below(p)' = Below(p)
           /\ \A f, p : StandsAt(f, p)' <=> StandsAt(f, p)
<1>1. \A p : ImportsOf(p)' = ImportsOf(p)
  BY DEF ImportsOf
<1>2. \A s : Closed(s)' <=> Closed(s)
  BY <1>1 DEF Closed
<1>3. \A p : Below(p)' = Below(p)
  BY <1>2 DEF Below
<1>4. \A p : GoesRound(p)' <=> GoesRound(p)
  BY <1>1, <1>3 DEF GoesRound
<1>5. \A f : IsFrame(f)' <=> IsFrame(f)
  BY DEF IsFrame
<1>6. \A f : Knows(f)' <=> Knows(f)
  BY <1>4 DEF Knows
<1>7. \A f, p : StandsAt(f, p)' <=> StandsAt(f, p)
  BY DEF StandsAt
<1>8. Readable' <=> Readable
  BY DEF Readable, Root
<1>9. QED
  BY <1>3, <1>4, <1>5, <1>6, <1>7, <1>8

LEMMA DeclsOfFile ==
    ASSUME Readable, NEW p \in DOMAIN files
    PROVE  Len(files[p]) \in Nat /\ DOMAIN files[p] = 1..Len(files[p])
  BY OwnRange DEF Readable

LEMMA StackFacts ==
    ASSUME FramesInv
    PROVE  /\ Len(stack) \in Nat /\ DOMAIN stack = 1..Len(stack)
           /\ stack # <<>> <=> Len(stack) >= 1
           /\ stack # <<>> => Len(stack) \in DOMAIN stack
<1>1. Len(stack) \in Nat /\ DOMAIN stack = 1..Len(stack) /\ (stack # <<>> <=> Len(stack) >= 1)
  BY OwnRange DEF FramesInv
<1>2. QED
  BY <1>1

\* The stack up to one of its calls, that one with a file it had before.
LEMMA StackCut ==
    ASSUME FramesInv, ChainInv, UNCHANGED files, NEW n \in DOMAIN stack, NEW f, IsFrame(f), Knows(f),
           f.path = stack[n].path, stack' \in Seq(Range(stack')), DOMAIN stack' = 1..n, Len(stack') = n,
           \A h \in 1..(n - 1) : stack'[h] = stack[h], stack'[n] = f
    PROVE  FramesInv' /\ ChainInv'
<1>1. Len(stack) \in Nat /\ DOMAIN stack = 1..Len(stack) /\ n \in 1..Len(stack)
  BY StackFacts
<1>2. \A h \in 1..n : stack'[h].path = stack[h].path
  BY <1>1
<1>3. FramesInv'
  <2>1. ASSUME NEW h \in 1..n PROVE IsFrame(stack'[h]) /\ Knows(stack'[h])
    <3>1. CASE h = n
      BY <3>1
    <3>2. CASE h # n
      BY <3>2, <1>1 DEF FramesInv
    <3>3. QED
      BY <3>1, <3>2
  <2>2. QED
    BY <2>1, FilesKept DEF FramesInv
<1>4. ASSUME stack' # <<>> PROVE stack'[1].path = Root
  <2>1. stack # <<>> /\ 1 \in 1..n
    BY <1>1, StackFacts
  <2>2. QED
    BY <2>1, <1>2 DEF ChainInv
<1>5. ASSUME NEW h \in 1..(n - 1) PROVE StandsAt(stack'[h], stack'[h + 1].path)
  <2>1. h \in 1..(Len(stack) - 1) /\ h + 1 \in 1..n
    BY <1>1
  <2>2. QED
    BY <2>1, <1>2 DEF ChainInv
<1>6. ASSUME NEW g \in 1..n, NEW h \in 1..n, g <= h
      PROVE  stack'[h].path \in Below(stack'[g].path)
  <2>1. g \in DOMAIN stack /\ h \in DOMAIN stack
    BY <1>1
  <2>2. stack[h].path \in Below(stack[g].path)
    BY <2>1, <1>6 DEF ChainInv
  <2>3. QED
    BY <2>2, <1>2
<1>7. ChainInv'
  BY <1>4, <1>5, <1>6, FilesKept DEF ChainInv, Root
<1>8. QED
  BY <1>3, <1>7

\* The call on top changes what it knows.
LEMMA TopChanges ==
    ASSUME FramesInv, ChainInv, UNCHANGED files, stack # <<>>, NEW f, SetTop(f), IsFrame(f), Knows(f),
           f.path = Top.path
    PROVE  FramesInv' /\ ChainInv' /\ stack' # <<>>
<1>1. PICK n : n = Len(stack)
  OBVIOUS
<1>2. n \in DOMAIN stack /\ stack' = Put(stack, n, f) /\ f.path = stack[n].path
  BY <1>1, StackFacts DEF SetTop, Top, Put
<1>3. stack \in Seq(Range(stack))
  BY DEF FramesInv
<1>4. PICK t : t = stack'
  OBVIOUS
<1>a. PICK s : s = stack
  OBVIOUS
<1>b. s \in Seq(Range(s)) /\ n \in DOMAIN s /\ t = Put(s, n, f)
  BY <1>2, <1>3, <1>4, <1>a
<1>c. /\ t \in Seq(Range(t)) /\ Len(t) = Len(s) /\ Len(s) \in Nat
      /\ DOMAIN t = 1..Len(s) /\ DOMAIN s = 1..Len(s)
      /\ \A h \in 1..Len(s) : t[h] = IF h = n THEN f ELSE s[h]
      /\ t # <<>>
  BY <1>b, Changed
<1>5. /\ t \in Seq(Range(t)) /\ Len(t) = n /\ n \in Nat /\ DOMAIN t = 1..n /\ n \in 1..n
      /\ \A h \in 1..n : t[h] = IF h = n THEN f ELSE stack[h]
      /\ t # <<>>
  BY <1>1, <1>2, <1>a, <1>c
<1>6. t[n] = f
  BY <1>5
<1>7. \A h \in 1..(n - 1) : t[h] = stack[h]
  BY <1>5
<1>8. FramesInv' /\ ChainInv'
  BY <1>2, <1>4, <1>5, <1>6, <1>7, StackCut
<1>9. QED
  BY <1>4, <1>5, <1>8

\* The call on top at the import, or the declaration, it stands at.
LEMMA TopFacts ==
    ASSUME Readable, FramesInv, stack # <<>>
    PROVE  /\ IsFrame(Top) /\ Knows(Top)
           /\ Len(files[Top.path]) \in Nat /\ DOMAIN files[Top.path] = 1..Len(files[Top.path])
           /\ AtDecl => Top.at \in DOMAIN files[Top.path]
<1>1. IsFrame(Top) /\ Knows(Top)
  BY StackFacts DEF FramesInv, Top
<1>2. Len(files[Top.path]) \in Nat /\ DOMAIN files[Top.path] = 1..Len(files[Top.path])
  BY <1>1, DeclsOfFile DEF IsFrame
<1>3. QED
  BY <1>1, <1>2 DEF IsFrame, AtDecl

\* A call that goes on to its next declaration, with more errors or without.
LEMMA GoesOn ==
    ASSUME Readable, NEW f, IsFrame(f), Knows(f), f.at \in DOMAIN files[f.path],
           NEW g, g = [path |-> f.path, at |-> f.at + 1, decls |-> g.decls, errs |-> g.errs],
           Circular(f.errs) => Circular(g.errs),
           Circular(g.errs) => Circular(f.errs) \/ GoesRound(f.path),
           \/ files[f.path][f.at].kind # "import"
           \/ files[f.path][f.at].path \notin DOMAIN files
           \/ ~GoesRound(files[f.path][f.at].path)
           \/ Circular(g.errs)
    PROVE  IsFrame(g) /\ Knows(g) /\ g.path = f.path
<1>1. Len(files[f.path]) \in Nat /\ DOMAIN files[f.path] = 1..Len(files[f.path]) /\ f.path \in DOMAIN files
  BY DeclsOfFile DEF IsFrame
<1>2. g.path = f.path /\ g.at = f.at + 1
  OBVIOUS
<1>3. IsFrame(g)
  BY <1>1, <1>2 DEF IsFrame
<1>4. Circular(g.errs) => GoesRound(g.path)
  BY <1>2 DEF Knows
<1>5. ASSUME ~Circular(g.errs), NEW i \in 1..(g.at - 1), files[g.path][i].kind = "import",
             files[g.path][i].path \in DOMAIN files
      PROVE  ~GoesRound(files[g.path][i].path)
  <2>1. CASE i = f.at
    BY <2>1, <1>2, <1>5
  <2>2. CASE i # f.at
    <3>1. i \in 1..(f.at - 1)
      BY <2>2, <1>1, <1>2
    <3>2. QED
      BY <3>1, <1>2, <1>5 DEF Knows
  <2>3. QED
    BY <2>1, <2>2
<1>6. QED
  BY <1>2, <1>3, <1>4, <1>5 DEF Knows

LEMMA ReceivedFrame ==
    ASSUME NEW f, IsFrame(f), NEW decls, NEW errs
    PROVE  /\ Received(f, decls) = [path |-> f.path, at |-> f.at + 1, errs |-> f.errs,
                                    decls |-> Received(f, decls).decls]
           /\ Refused(f, errs) = [path |-> f.path, at |-> f.at + 1, decls |-> f.decls,
                                  errs |-> f.errs \cup errs]
<1>1. PICK p, i, ds, es : p = f.path /\ i = f.at /\ ds = f.decls /\ es = f.errs
  OBVIOUS
<1>2. f = [path |-> p, at |-> i, decls |-> ds, errs |-> es]
  BY <1>1 DEF IsFrame
<1>3. PICK more : more = Imported(decls, files[p][i].alias)
  OBVIOUS
<1>4. Received(f, decls) = [path |-> p, at |-> i + 1, errs |-> es, decls |-> ds \o more]
  <2>1. Received(f, decls) = [f EXCEPT !.at = @ + 1, !.decls = @ \o more]
    BY <1>1, <1>3 DEF Received
  <2>2. QED
    BY <2>1, <1>2
<1>5. Refused(f, errs) = [path |-> p, at |-> i + 1, decls |-> ds, errs |-> es \cup errs]
  <2>1. PICK all : all = es \cup errs
    OBVIOUS
  <2>2. Refused(f, errs) = [f EXCEPT !.at = i + 1, !.errs = all]
    BY <1>1, <2>1 DEF Refused
  <2>3. [f EXCEPT !.at = i + 1, !.errs = all] = [path |-> p, at |-> i + 1, decls |-> ds, errs |-> all]
    <3>1. DOMAIN f = {"path", "at", "decls", "errs"}
      BY <1>2
    <3>2. PICK g : g = [f EXCEPT !.at = i + 1, !.errs = all]
      OBVIOUS
    <3>3. g = [x \in {"path", "at", "decls", "errs"} |-> g[x]]
      BY <3>1, <3>2
    <3>4. g.at = i + 1 /\ g.errs = all /\ g.path = p /\ g.decls = ds
      BY <1>1, <3>1, <3>2
    <3>5. QED
      BY <3>2, <3>3, <3>4
  <2>4. QED
    BY <2>1, <2>2, <2>3
<1>6. QED
  BY <1>1, <1>4, <1>5

LEMMA StandsImports ==
    ASSUME NEW f, NEW p \in DOMAIN files, StandsAt(f, p)
    PROVE  p \in ImportsOf(f.path)
  BY DEF StandsAt, ImportsOf, Range

\* A call returns: what it reports is right, so what its caller knows is.
LEMMA ReturnKeeps ==
    ASSUME WalkInv, stack # <<>>, UNCHANGED files, NEW decls, NEW errs, Return(decls, errs),
           Circular(errs) <=> GoesRound(Top.path)
    PROVE  FramesInv' /\ ChainInv' /\ CircularIffCycle'
<1>1. PICK n, s : n = Len(stack) /\ s = stack
  OBVIOUS
<1>2. s \in Seq(Range(s)) /\ s # <<>> /\ n \in DOMAIN s /\ Top = s[n] /\ n = Len(s)
  BY <1>1, StackFacts DEF WalkInv, FramesInv, Top
<1>3. PICK r : r = Front(s)
  OBVIOUS
<1>4. /\ r \in Seq(Range(r)) /\ Len(r) = n - 1 /\ n \in Nat \ {0}
      /\ DOMAIN r = 1..(n - 1) /\ DOMAIN s = 1..n
      /\ \A h \in 1..(n - 1) : r[h] = s[h]
  BY <1>2, <1>3, Popped
<1>6. CASE n = 1
  <2>1. stack' = <<>> /\ importErrs' = errs
    BY <1>1, <1>3, <1>4, <1>6 DEF Return
  <2>2. s[1].path = Root
    BY <1>1, <1>2 DEF WalkInv, ChainInv
  <2>3. Circular(errs) <=> GoesRound(Root)
    BY <2>2, <1>2, <1>6
  <2>4. CircularIffCycle'
    BY <2>1, <2>3, FilesKept DEF CircularIffCycle, Circular, Root
  <2>5. FramesInv'
    BY <2>1 DEF FramesInv
  <2>6. ChainInv'
    BY <2>1 DEF ChainInv
  <2>7. QED
    BY <2>4, <2>5, <2>6
<1>7. CASE n # 1
  <2>1. PICK m : m = n - 1
    OBVIOUS
  <2>2. m \in DOMAIN r /\ m \in DOMAIN s /\ m \in 1..(n - 1) /\ m + 1 = n /\ m # 0 /\ r[m] = s[m]
    BY <2>1, <1>4, <1>7
  <2>3. PICK g : g = IF errs = {} THEN Received(s[m], decls) ELSE Refused(s[m], errs)
    OBVIOUS
  <2>4. stack' = Put(r, m, g)
    BY <2>1, <2>2, <2>3, <1>1, <1>3, <1>4 DEF Return, Put
  <2>5. PICK t : t = stack'
    OBVIOUS
  <2>a. r \in Seq(Range(r)) /\ m \in DOMAIN r /\ t = Put(r, m, g)
    BY <2>2, <2>4, <2>5, <1>4
  <2>6. /\ t \in Seq(Range(t)) /\ Len(t) = Len(r) /\ Len(r) \in Nat
        /\ DOMAIN t = 1..Len(r) /\ DOMAIN r = 1..Len(r)
        /\ \A h \in 1..Len(r) : t[h] = IF h = m THEN g ELSE r[h]
        /\ t # <<>>
    BY <2>a, Changed
  <2>7. /\ t \in Seq(Range(t)) /\ Len(t) = m /\ DOMAIN t = 1..m /\ t # <<>> /\ m \in Nat
        /\ t[m] = g /\ \A h \in 1..(m - 1) : t[h] = stack[h]
    <3>1. Len(r) = m /\ m \in 1..Len(r)
      BY <2>1, <2>2, <1>4
    <3>2. \A h \in 1..(m - 1) : h \in 1..Len(r) /\ h # m /\ h \in 1..(n - 1)
      BY <2>2, <3>1, <1>4
    <3>3. \A h \in 1..(m - 1) : t[h] = stack[h]
      BY <3>2, <2>6, <1>1, <1>4
    <3>4. QED
      BY <3>1, <3>3, <2>6
  <2>8. IsFrame(s[m]) /\ Knows(s[m]) /\ StandsAt(s[m], Top.path)
    BY <2>2, <1>1, <1>2, <1>4 DEF WalkInv, FramesInv, ChainInv
  <2>9. PICK f : f = s[m]
    OBVIOUS
  <2>10. Top.path \in DOMAIN files /\ f.path \in DOMAIN files
    BY <2>8, <2>9, <1>1, <1>2 DEF WalkInv, FramesInv, IsFrame
  <2>11. Top.path \in ImportsOf(f.path)
    BY <2>8, <2>9, <2>10, StandsImports
  <2>12. GoesRound(Top.path) => GoesRound(f.path)
    BY <2>10, <2>11, RoundAbove
  <2>13. /\ g = [path |-> f.path, at |-> f.at + 1, decls |-> g.decls, errs |-> g.errs]
         /\ Circular(g.errs) <=> Circular(f.errs) \/ Circular(errs)
    <3>1. IsFrame(f) /\ g = IF errs = {} THEN Received(f, decls) ELSE Refused(f, errs)
      BY <2>3, <2>8, <2>9
    <3>2. CASE errs = {}
      <4>1. g = [path |-> f.path, at |-> f.at + 1, errs |-> f.errs, decls |-> Received(f, decls).decls]
        BY <3>1, <3>2, ReceivedFrame
      <4>2. QED
        BY <4>1, <3>2 DEF Circular
    <3>3. CASE errs # {}
      <4>1. g = [path |-> f.path, at |-> f.at + 1, decls |-> f.decls, errs |-> f.errs \cup errs]
        BY <3>1, <3>3, ReceivedFrame
      <4>2. QED
        BY <4>1, <3>3 DEF Circular
    <3>4. QED
      BY <3>2, <3>3
  <2>14. IsFrame(g) /\ Knows(g) /\ g.path = f.path
    <3>1. f.at \in DOMAIN files[f.path] /\ files[f.path][f.at].path = Top.path
      BY <2>8, <2>9 DEF StandsAt
    <3>2. Readable
      BY DEF WalkInv
    <3>3. Circular(f.errs) => Circular(g.errs)
      BY <2>13
    <3>4. Circular(g.errs) => Circular(f.errs) \/ GoesRound(f.path)
      BY <2>12, <2>13
    <3>5. ~GoesRound(files[f.path][f.at].path) \/ Circular(g.errs)
      BY <2>13, <3>1
    <3>6. QED
      BY <2>8, <2>9, <2>13, <3>1, <3>2, <3>3, <3>4, <3>5, GoesOn
  <2>15. FramesInv' /\ ChainInv'
    <3>1. m \in DOMAIN stack /\ g.path = stack[m].path /\ FramesInv /\ ChainInv
      BY <2>2, <2>9, <2>14, <1>1 DEF WalkInv
    <3>2. QED
      BY <2>5, <2>7, <2>14, <3>1, StackCut
  <2>16. CircularIffCycle'
    BY <2>5, <2>7 DEF CircularIffCycle
  <2>17. QED
    BY <2>15, <2>16
<1>8. QED
  BY <1>6, <1>7

\* A step that leaves the walk in a file keeps what is said of its end.
LEMMA StillWalking ==
    ASSUME stack' # <<>>
    PROVE  CircularIffCycle'
  BY DEF CircularIffCycle

LEMMA KeepDeclKeeps ==
    ASSUME WalkInv, KeepDecl
    PROVE  WalkInv'
<1>1. Readable /\ FramesInv /\ ChainInv /\ stack # <<>> /\ UNCHANGED <<files, resolved>>
  BY DEF WalkInv, KeepDecl, AtDecl
<1>2. IsFrame(Top) /\ Knows(Top) /\ Top.at \in DOMAIN files[Top.path]
  BY <1>1, TopFacts DEF KeepDecl
<1>3. PICK f : f = Top
  OBVIOUS
<1>4. PICK g : g = [f EXCEPT !.at = @ + 1, !.decls = Append(@, Current)]
  OBVIOUS
<1>5. g = [path |-> f.path, at |-> f.at + 1, decls |-> g.decls, errs |-> g.errs] /\ g.errs = f.errs
  <2>1. DOMAIN f = {"path", "at", "decls", "errs"}
    BY <1>2, <1>3 DEF IsFrame
  <2>2. g = [x \in {"path", "at", "decls", "errs"} |-> g[x]]
    BY <1>4, <2>1
  <2>3. g.at = f.at + 1 /\ g.errs = f.errs /\ g.path = f.path
    BY <1>4, <2>1
  <2>4. QED
    BY <2>2, <2>3
<1>6. IsFrame(g) /\ Knows(g) /\ g.path = f.path
  BY <1>1, <1>2, <1>3, <1>5, GoesOn DEF KeepDecl, Current
<1>7. SetTop(g)
  BY <1>3, <1>4 DEF KeepDecl
<1>8. FramesInv' /\ ChainInv' /\ stack' # <<>>
  BY <1>1, <1>3, <1>6, <1>7, TopChanges
<1>9. QED
  BY <1>1, <1>8, StillWalking, FilesKept DEF WalkInv, ResolvedInv

LEMMA UnreadableKeeps ==
    ASSUME WalkInv, ImportUnreadable
    PROVE  WalkInv'
<1>1. Readable /\ FramesInv /\ ChainInv /\ stack # <<>> /\ UNCHANGED <<files, resolved>>
  BY DEF WalkInv, ImportUnreadable, AtImport, AtDecl
<1>2. IsFrame(Top) /\ Knows(Top) /\ Top.at \in DOMAIN files[Top.path]
  BY <1>1, TopFacts DEF ImportUnreadable, AtImport
<1>3. PICK f : f = Top
  OBVIOUS
<1>4. PICK g : g = Refused(f, {"cannot load"})
  OBVIOUS
<1>5. g = [path |-> f.path, at |-> f.at + 1, decls |-> f.decls, errs |-> f.errs \cup {"cannot load"}]
  BY <1>2, <1>3, <1>4, ReceivedFrame
<1>6. Circular(g.errs) <=> Circular(f.errs)
  BY <1>5 DEF Circular
<1>7. files[f.path][f.at].path \notin DOMAIN files
  BY <1>3 DEF ImportUnreadable, Current
<1>8. IsFrame(g) /\ Knows(g) /\ g.path = f.path
  <2>1. g = [path |-> f.path, at |-> f.at + 1, decls |-> g.decls, errs |-> g.errs]
    BY <1>5
  <2>2. QED
    BY <1>1, <1>2, <1>3, <2>1, <1>6, <1>7, GoesOn
<1>9. SetTop(g)
  BY <1>3, <1>4 DEF ImportUnreadable
<1>10. FramesInv' /\ ChainInv' /\ stack' # <<>>
  BY <1>1, <1>3, <1>8, <1>9, TopChanges
<1>11. QED
  BY <1>1, <1>10, StillWalking, FilesKept DEF WalkInv, ResolvedInv

LEMMA ResolvedKeeps ==
    ASSUME WalkInv, ImportResolved
    PROVE  WalkInv'
<1>1. Readable /\ FramesInv /\ ChainInv /\ stack # <<>> /\ UNCHANGED <<files, resolved>>
  BY DEF WalkInv, ImportResolved, AtImport, AtDecl
<1>2. IsFrame(Top) /\ Knows(Top) /\ Top.at \in DOMAIN files[Top.path]
  BY <1>1, TopFacts DEF ImportResolved, AtImport
<1>3. PICK f : f = Top
  OBVIOUS
<1>4. PICK g : g = Received(f, resolved[Current.path])
  OBVIOUS
<1>5. g = [path |-> f.path, at |-> f.at + 1, errs |-> f.errs, decls |-> g.decls]
  BY <1>2, <1>3, <1>4, ReceivedFrame
<1>6. g.errs = f.errs
  BY <1>5
<1>7. ~GoesRound(files[f.path][f.at].path)
  BY <1>3 DEF ImportResolved, Current, WalkInv, ResolvedInv
<1>8. IsFrame(g) /\ Knows(g) /\ g.path = f.path
  <2>1. g = [path |-> f.path, at |-> f.at + 1, decls |-> g.decls, errs |-> g.errs]
    BY <1>5, <1>6
  <2>2. QED
    BY <1>1, <1>2, <1>3, <2>1, <1>6, <1>7, GoesOn
<1>9. SetTop(g)
  BY <1>3, <1>4 DEF ImportResolved
<1>10. FramesInv' /\ ChainInv' /\ stack' # <<>>
  BY <1>1, <1>3, <1>8, <1>9, TopChanges
<1>11. QED
  BY <1>1, <1>10, StillWalking, FilesKept DEF WalkInv, ResolvedInv

LEMMA EnterKeeps ==
    ASSUME WalkInv, ImportEnter
    PROVE  WalkInv'
<1>1. Readable /\ FramesInv /\ ChainInv /\ stack # <<>> /\ UNCHANGED <<files, resolved>>
  BY DEF WalkInv, ImportEnter, AtImport, AtDecl
<1>2. PICK n, s, p, f : n = Len(stack) /\ s = stack /\ p = Current.path /\ f = Frame(p)
  OBVIOUS
<1>3. n \in DOMAIN s /\ s \in Seq(Range(s)) /\ Top = s[n] /\ n = Len(s) /\ DOMAIN s = 1..n /\ n \in Nat
  BY <1>1, <1>2, StackFacts DEF FramesInv, Top
<1>4. p \in DOMAIN files /\ StandsAt(s[n], p)
  <2>1. Top.at \in DOMAIN files[Top.path]
    BY <1>1, TopFacts DEF ImportEnter, AtImport
  <2>2. QED
    BY <2>1, <1>2, <1>3 DEF ImportEnter, AtImport, StandsAt, Current
<1>5. IsFrame(f) /\ Knows(f) /\ f.path = p
  <2>1. f = [path |-> p, at |-> 1, decls |-> <<>>, errs |-> {}]
    BY <1>2 DEF Frame
  <2>2. Len(files[p]) \in Nat
    BY <1>1, <1>4, DeclsOfFile
  <2>3. QED
    BY <2>1, <2>2, <1>4 DEF IsFrame, Knows, Circular
<1>6. PICK t : t = stack'
  OBVIOUS
<1>7. s \in Seq(Range(s)) /\ t = Push(s, f)
  BY <1>2, <1>3, <1>6 DEF ImportEnter, Push
<1>8. /\ t \in Seq(Range(t)) /\ Len(t) = Len(s) + 1 /\ Len(s) \in Nat
      /\ DOMAIN t = 1..(Len(s) + 1) /\ DOMAIN s = 1..Len(s)
      /\ \A h \in 1..Len(s) : t[h] = s[h]
      /\ t[Len(s) + 1] = f
      /\ t # <<>>
  BY <1>7, Pushed
<1>9. /\ t \in Seq(Range(t)) /\ Len(t) = n + 1 /\ DOMAIN t = 1..(n + 1)
      /\ \A h \in 1..n : t[h] = s[h]
      /\ t[n + 1] = f
  BY <1>3, <1>8
<1>10. FramesInv'
  <2>1. ASSUME NEW h \in 1..(n + 1) PROVE IsFrame(t[h]) /\ Knows(t[h])
    <3>1. CASE h = n + 1
      BY <3>1, <1>5, <1>9
    <3>2. CASE h # n + 1
      <4>1. h \in 1..n
        BY <3>2, <1>3
      <4>2. QED
        BY <4>1, <1>1, <1>2, <1>3, <1>9 DEF FramesInv
    <3>3. QED
      BY <3>1, <3>2
  <2>2. QED
    BY <2>1, <1>1, <1>6, <1>9, FilesKept DEF FramesInv
<1>11. ChainInv'
  <2>1. t[1].path = Root
    <3>1. 1 \in 1..n
      BY <1>3
    <3>2. QED
      BY <3>1, <1>1, <1>2, <1>9 DEF ChainInv
  <2>2. ASSUME NEW h \in 1..n PROVE StandsAt(t[h], t[h + 1].path)
    <3>1. CASE h = n
      BY <3>1, <1>3, <1>4, <1>5, <1>9
    <3>2. CASE h # n
      <4>1. h \in 1..(n - 1) /\ h + 1 \in 1..n
        BY <3>2, <1>3
      <4>2. QED
        BY <4>1, <1>1, <1>2, <1>9 DEF ChainInv
    <3>3. QED
      BY <3>1, <3>2
  <2>3. ASSUME NEW g \in 1..(n + 1), NEW h \in 1..(n + 1), g <= h
        PROVE  t[h].path \in Below(t[g].path)
    <3>1. CASE h # n + 1
      <4>1. g \in 1..n /\ h \in 1..n
        BY <3>1, <2>3, <1>3
      <4>2. QED
        BY <4>1, <2>3, <1>1, <1>2, <1>3, <1>9 DEF ChainInv
    <3>2. CASE g = n + 1
      <4>1. h = n + 1
        BY <3>2, <2>3, <1>3
      <4>2. QED
        BY <4>1, <3>2, <1>4, <1>5, <1>9, BelowSelf
    <3>3. CASE h = n + 1 /\ g # n + 1
      <4>1. g \in 1..n /\ n \in 1..n
        BY <3>3, <1>3
      <4>2. s[n].path \in Below(s[g].path)
        BY <4>1, <1>1, <1>2, <1>3 DEF ChainInv
      <4>3. p \in ImportsOf(s[n].path)
        BY <1>4, StandsImports
      <4>4. p \in Below(s[g].path)
        BY <4>2, <4>3, BelowClosed DEF Closed
      <4>5. QED
        BY <4>1, <4>4, <3>3, <1>5, <1>9
    <3>4. QED
      BY <3>1, <3>2, <3>3
  <2>4. Len(t) - 1 = n
    BY <1>3, <1>9
  <2>5. QED
    BY <2>1, <2>2, <2>3, <2>4, <1>1, <1>6, <1>9, FilesKept DEF ChainInv, Root
<1>12. QED
  BY <1>1, <1>6, <1>8, <1>10, <1>11, StillWalking, FilesKept DEF WalkInv, ResolvedInv

LEMMA CircularKeeps ==
    ASSUME WalkInv, ImportCircular
    PROVE  WalkInv'
<1>1. Readable /\ FramesInv /\ ChainInv /\ stack # <<>> /\ UNCHANGED <<files, resolved>>
  BY DEF WalkInv, ImportCircular, AtImport, AtDecl
<1>2. PICK n, p : n = Len(stack) /\ p = Current.path
  OBVIOUS
<1>3. n \in DOMAIN stack /\ Top = stack[n] /\ DOMAIN stack = 1..n /\ n \in Nat
  BY <1>1, <1>2, StackFacts DEF Top
<1>4. PICK h \in 1..n : stack[h].path = p
  BY <1>2, <1>3 DEF ImportCircular, InProgress
<1>5. p \in DOMAIN files
  BY <1>1, <1>3, <1>4 DEF FramesInv, IsFrame
<1>6. StandsAt(stack[n], p)
  <2>1. Top.at \in DOMAIN files[Top.path]
    BY <1>1, TopFacts DEF ImportCircular, AtImport
  <2>2. QED
    BY <2>1, <1>2, <1>3 DEF ImportCircular, AtImport, StandsAt, Current
<1>7. p \in ImportsOf(stack[n].path)
  BY <1>5, <1>6, StandsImports
<1>8. GoesRound(Top.path)
  <2> DEFINE s == {stack[g].path : g \in h..n}
  <2>1. p \in Below(Top.path)
    <3>1. Top.path \in DOMAIN files
      BY <1>1, <1>3 DEF FramesInv, IsFrame
    <3>2. QED
      BY <3>1, <1>3, <1>7, BelowSelf, BelowClosed DEF Closed
  <2>2. ASSUME NEW g \in h..n PROVE stack[g].path \in Below(Top.path)
    <3>1. g \in 1..n /\ h <= g
      BY <1>3
    <3>2. stack[g].path \in Below(p)
      BY <3>1, <1>1, <1>3, <1>4 DEF ChainInv
    <3>3. QED
      BY <3>2, <2>1, BelowMonotone
  <2>3. ASSUME NEW g \in h..n PROVE ImportsOf(stack[g].path) \cap s # {}
    <3>1. CASE g = n
      <4>1. p \in s
        BY <1>3, <1>4
      <4>2. QED
        BY <4>1, <3>1, <1>7
    <3>2. CASE g # n
      <4>1. g \in 1..(n - 1) /\ g + 1 \in h..n /\ g + 1 \in 1..n
        BY <3>2, <1>3
      <4>2. StandsAt(stack[g], stack[g + 1].path)
        BY <4>1, <1>1, <1>2 DEF ChainInv
      <4>3. stack[g + 1].path \in DOMAIN files
        BY <4>1, <1>1, <1>3 DEF FramesInv, IsFrame
      <4>4. stack[g + 1].path \in ImportsOf(stack[g].path)
        BY <4>2, <4>3, StandsImports
      <4>5. QED
        BY <4>1, <4>4
    <3>3. QED
      BY <3>1, <3>2
  <2>4. s # {}
    <3>1. n \in h..n
      BY <1>3
    <3>2. QED
      BY <3>1
  <2>5. s \in SUBSET Below(Top.path) /\ \A q \in s : ImportsOf(q) \cap s # {}
    BY <2>2, <2>3
  <2>6. QED
    BY <2>4, <2>5 DEF GoesRound
<1>9. FramesInv' /\ ChainInv' /\ CircularIffCycle'
  <2>1. Circular({"circular import"})
    BY DEF Circular
  <2>2. Return(<<>>, {"circular import"})
    BY DEF ImportCircular
  <2>3. QED
    BY <2>1, <2>2, <1>1, <1>8, ReturnKeeps
<1>10. QED
  BY <1>1, <1>9, FilesKept DEF WalkInv, ResolvedInv

LEMMA FinishKeeps ==
    ASSUME WalkInv, FinishFile
    PROVE  WalkInv'
<1>1. Readable /\ FramesInv /\ ChainInv /\ stack # <<>> /\ UNCHANGED files
  BY DEF WalkInv, FinishFile
<1>2. /\ IsFrame(Top) /\ Knows(Top) /\ Len(files[Top.path]) \in Nat
      /\ DOMAIN files[Top.path] = 1..Len(files[Top.path])
  BY <1>1, TopFacts
<1>3. Circular(Top.errs) <=> GoesRound(Top.path)
  <2>1. Circular(Top.errs) => GoesRound(Top.path)
    BY <1>2 DEF Knows
  <2>2. ASSUME ~Circular(Top.errs), GoesRound(Top.path) PROVE FALSE
    <3>1. PICK q \in ImportsOf(Top.path) : GoesRound(q)
      BY <2>2, <1>2, RoundBelow DEF IsFrame
    <3>2. PICK i \in DOMAIN files[Top.path] : files[Top.path][i].kind = "import" /\ files[Top.path][i].path = q
      BY <3>1 DEF ImportsOf, Range
    <3>3. q \in DOMAIN files
      BY <3>1, ImportsAreFiles
    <3>4. i \in 1..(Top.at - 1)
      BY <3>2, <1>2 DEF FinishFile, IsFrame
    <3>5. QED
      BY <3>1, <3>2, <3>3, <3>4, <2>2, <1>2 DEF Knows
  <2>3. QED
    BY <2>1, <2>2
<1>4. FramesInv' /\ ChainInv' /\ CircularIffCycle'
  <2>1. Return(Top.decls, Top.errs)
    BY DEF FinishFile
  <2>2. QED
    BY <2>1, <1>1, <1>3, ReturnKeeps
<1>5. ResolvedInv'
  <2>1. ASSUME NEW p \in DOMAIN resolved' PROVE ~GoesRound(p)
    <3>1. CASE Top.errs = {}
      <4>1. p \in DOMAIN resolved \/ p = Top.path
        BY <3>1, <2>1 DEF FinishFile, Overlay
      <4>2. QED
        BY <4>1, <3>1, <1>3 DEF WalkInv, ResolvedInv, Circular
    <3>2. CASE Top.errs # {}
      BY <3>2, <2>1 DEF FinishFile, WalkInv, ResolvedInv
    <3>3. QED
      BY <3>1, <3>2
  <2>2. QED
    BY <2>1, <1>1, FilesKept DEF ResolvedInv
<1>6. QED
  BY <1>1, <1>4, <1>5, FilesKept DEF WalkInv

LEMMA ImportInitWalks ==
    ASSUME Readable, ImportInit
    PROVE  WalkInv
<1>1. PICK f : f = Frame(Root)
  OBVIOUS
<1>2. IsFrame(f) /\ Knows(f) /\ f.path = Root /\ Root \in DOMAIN files
  <2>1. f = [path |-> Root, at |-> 1, decls |-> <<>>, errs |-> {}]
    BY <1>1 DEF Frame
  <2>2. Root \in DOMAIN files /\ Len(files[Root]) \in Nat
    BY DeclsOfFile DEF Readable
  <2>3. QED
    BY <2>1, <2>2 DEF IsFrame, Knows, Circular
<1>3. stack = <<f>> /\ resolved = <<>>
  BY <1>1 DEF ImportInit
<1>4. stack \in Seq({f}) /\ Len(stack) = 1 /\ stack[1] = f
  BY <1>3
<1>5. stack \in Seq(Range(stack)) /\ DOMAIN stack = {1} /\ stack # <<>>
  BY <1>4, OwnRange
<1>6. FramesInv
  BY <1>2, <1>4, <1>5 DEF FramesInv
<1>7. ChainInv
  <2>1. Root \in Below(Root)
    BY <1>2, BelowSelf
  <2>2. 1..(Len(stack) - 1) = {}
    BY <1>4
  <2>3. QED
    BY <2>1, <2>2, <1>2, <1>4, <1>5 DEF ChainInv
<1>8. ResolvedInv
  BY <1>3 DEF ResolvedInv
<1>9. QED
  BY <1>5, <1>6, <1>7, <1>8 DEF WalkInv, CircularIffCycle

LEMMA WalkStutters ==
    ASSUME WalkInv, UNCHANGED importVars
    PROVE  WalkInv'
<1>1. UNCHANGED <<files, stack, resolved, importErrs>>
  BY DEF importVars
<1>2. FramesInv'
  BY <1>1, FilesKept DEF WalkInv, FramesInv
<1>3. ChainInv'
  BY <1>1, FilesKept DEF WalkInv, ChainInv, Root
<1>4. ResolvedInv' /\ CircularIffCycle'
  BY <1>1, FilesKept DEF WalkInv, ResolvedInv, CircularIffCycle, Root
<1>5. QED
  BY <1>1, <1>2, <1>3, <1>4, FilesKept DEF WalkInv

\* The import walk, for every project: a circular import is reported if and
\* only if imports go round below the file that is compiled.  A file is kept
\* as resolved, and skipped by later imports, only when no cycle is below it;
\* an import that is refused is one that closes a cycle of calls; and a call
\* that comes to its end without the error has seen that no import of its file
\* has a cycle below.  ResolveImports (resolve.go).
THEOREM ImportsCorrect == ImportSpec => []CircularIffCycle
<1>1. Readable /\ ImportInit => WalkInv
  BY ImportInitWalks
<1>2. WalkInv /\ [ResolveImports]_importVars => WalkInv'
  <2>1. SUFFICES ASSUME WalkInv, [ResolveImports]_importVars PROVE WalkInv'
    OBVIOUS
  <2>2. CASE KeepDecl
    BY <2>1, <2>2, KeepDeclKeeps
  <2>3. CASE ImportCircular
    BY <2>1, <2>3, CircularKeeps
  <2>4. CASE ImportUnreadable
    BY <2>1, <2>4, UnreadableKeeps
  <2>5. CASE ImportResolved
    BY <2>1, <2>5, ResolvedKeeps
  <2>6. CASE ImportEnter
    BY <2>1, <2>6, EnterKeeps
  <2>7. CASE FinishFile
    BY <2>1, <2>7, FinishKeeps
  <2>8. CASE UNCHANGED importVars
    BY <2>1, <2>8, WalkStutters
  <2>9. QED
    BY <2>1, <2>2, <2>3, <2>4, <2>5, <2>6, <2>7, <2>8 DEF ResolveImports
<1>3. WalkInv => CircularIffCycle
  BY DEF WalkInv
<1>4. QED
  BY <1>1, <1>2, <1>3, PTL DEF ImportSpec

-----------------------------------------------------------------------------
(* Imports: the walk ends *)

\* No file is on the stack twice.
OnceInv == \A g, h \in DOMAIN stack : stack[g].path = stack[h].path => g = h

\* The n-th call goes on, those above it have returned, those below it stay.
GoesOnAt(n) ==
  /\ n \in DOMAIN stack /\ DOMAIN stack' = 1..n
  /\ \A h \in 1..(n - 1) : stack'[h] = stack[h]
  /\ stack'[n].path = stack[n].path /\ stack'[n].at = stack[n].at + 1

\* One more call, of a file that no call is of.
GoesDeeper ==
  /\ DOMAIN stack' = 1..(Len(stack) + 1)
  /\ \A h \in DOMAIN stack : stack'[h] = stack[h]
  /\ stack'[Len(stack) + 1].path \notin InProgress

LEMMA TopGoesOn ==
    ASSUME FramesInv, stack # <<>>, NEW f, SetTop(f), f.path = Top.path, f.at = Top.at + 1
    PROVE  GoesOnAt(Len(stack))
<1>1. PICK s, t, n : s = stack /\ t = stack' /\ n = Len(stack)
  OBVIOUS
<1>2. s \in Seq(Range(s)) /\ n \in DOMAIN s /\ t = Put(s, n, f)
  BY <1>1, StackFacts DEF FramesInv, SetTop, Put
<1>3. /\ t \in Seq(Range(t)) /\ Len(t) = Len(s) /\ Len(s) \in Nat
      /\ DOMAIN t = 1..Len(s) /\ DOMAIN s = 1..Len(s)
      /\ \A h \in 1..Len(s) : t[h] = IF h = n THEN f ELSE s[h]
      /\ t # <<>>
  BY <1>2, Changed
<1>4. t[n] = f
  BY <1>2, <1>3
<1>5. \A h \in 1..(n - 1) : h \in 1..Len(s) /\ h # n
  BY <1>1, <1>3
<1>6. \A h \in 1..(n - 1) : t[h] = s[h]
  BY <1>3, <1>5
<1>7. t[n].path = s[n].path /\ t[n].at = s[n].at + 1
  BY <1>1, <1>4 DEF Top
<1>8. DOMAIN t = 1..n
  BY <1>1, <1>3
<1>9. QED
  BY <1>1, <1>2, <1>6, <1>7, <1>8 DEF GoesOnAt

LEMMA CallerGoesOn ==
    ASSUME FramesInv, stack # <<>>, NEW decls, NEW errs, Return(decls, errs), stack' # <<>>
    PROVE  \E n \in DOMAIN stack : GoesOnAt(n)
<1>1. PICK s, n : s = stack /\ n = Len(stack)
  OBVIOUS
<1>2. s \in Seq(Range(s)) /\ s # <<>> /\ n \in DOMAIN s /\ n = Len(s)
  BY <1>1, StackFacts DEF FramesInv
<1>3. PICK r : r = Front(s)
  OBVIOUS
<1>4. /\ r \in Seq(Range(r)) /\ Len(r) = n - 1 /\ n \in Nat \ {0}
      /\ DOMAIN r = 1..(n - 1) /\ DOMAIN s = 1..n
      /\ \A h \in 1..(n - 1) : r[h] = s[h]
  BY <1>2, <1>3, Popped
<1>5. PICK m : m = n - 1
  OBVIOUS
<1>6. Len(r) = m /\ m # 0
  BY <1>1, <1>3, <1>4, <1>5 DEF Return
<1>7. m \in 1..(n - 1) /\ m \in DOMAIN r /\ m \in DOMAIN s /\ r[m] = s[m]
  BY <1>4, <1>5, <1>6
<1>8. PICK f, g : f = s[m] /\ g = IF errs = {} THEN Received(f, decls) ELSE Refused(f, errs)
  OBVIOUS
<1>9. PICK t : t = stack'
  OBVIOUS
<1>10. t = Put(r, m, g)
  BY <1>1, <1>3, <1>6, <1>7, <1>8, <1>9 DEF Return, Put
<1>11. r \in Seq(Range(r)) /\ m \in DOMAIN r /\ t = Put(r, m, g)
  BY <1>4, <1>7, <1>10
<1>12. /\ t \in Seq(Range(t)) /\ Len(t) = Len(r) /\ Len(r) \in Nat
       /\ DOMAIN t = 1..Len(r) /\ DOMAIN r = 1..Len(r)
       /\ \A h \in 1..Len(r) : t[h] = IF h = m THEN g ELSE r[h]
       /\ t # <<>>
  BY <1>11, Changed
<1>13. IsFrame(f)
  BY <1>1, <1>7, <1>8 DEF FramesInv
<1>14. g.path = f.path /\ g.at = f.at + 1
  <2>1. CASE errs = {}
    <3>1. g = [path |-> f.path, at |-> f.at + 1, errs |-> f.errs, decls |-> Received(f, decls).decls]
      BY <2>1, <1>8, <1>13, ReceivedFrame
    <3>2. QED
      BY <3>1
  <2>2. CASE errs # {}
    <3>1. g = [path |-> f.path, at |-> f.at + 1, decls |-> f.decls, errs |-> f.errs \cup errs]
      BY <2>2, <1>8, <1>13, ReceivedFrame
    <3>2. QED
      BY <3>1
  <2>3. QED
    BY <2>1, <2>2
<1>15. DOMAIN t = 1..m /\ t[m] = g
  BY <1>6, <1>7, <1>12
<1>16. \A h \in 1..(m - 1) : h \in 1..Len(r) /\ h # m /\ h \in 1..(n - 1)
  BY <1>4, <1>5, <1>6
<1>17. \A h \in 1..(m - 1) : t[h] = s[h]
  BY <1>4, <1>12, <1>16
<1>18. GoesOnAt(m)
  BY <1>1, <1>7, <1>8, <1>9, <1>14, <1>15, <1>17 DEF GoesOnAt
<1>19. QED
  BY <1>1, <1>7, <1>18

\* What a step of the walk does to its calls.
LEMMA WalkMoves ==
    ASSUME WalkInv, ResolveImports, stack' # <<>>
    PROVE  GoesDeeper \/ \E n \in DOMAIN stack : GoesOnAt(n)
<1>1. Readable /\ FramesInv
  BY DEF WalkInv
<1>2. ASSUME AtDecl
      PROVE  stack # <<>> /\ IsFrame(Top) /\ Len(stack) \in DOMAIN stack
  BY <1>1, <1>2, TopFacts, StackFacts DEF AtDecl
<1>3. CASE KeepDecl
  <2>1. PICK f, g : f = Top /\ g = [f EXCEPT !.at = @ + 1, !.decls = Append(@, Current)]
    OBVIOUS
  <2>2. DOMAIN f = {"path", "at", "decls", "errs"}
    BY <1>2, <1>3, <2>1 DEF IsFrame, KeepDecl
  <2>3. g.at = f.at + 1 /\ g.path = f.path /\ SetTop(g)
    BY <1>3, <2>1, <2>2 DEF KeepDecl
  <2>4. GoesOnAt(Len(stack))
    BY <1>1, <1>2, <1>3, <2>1, <2>3, TopGoesOn DEF KeepDecl
  <2>5. QED
    BY <1>2, <1>3, <2>4 DEF KeepDecl
<1>4. CASE ImportCircular
  BY <1>1, <1>2, <1>4, CallerGoesOn DEF ImportCircular, AtImport
<1>5. CASE ImportUnreadable
  <2>1. PICK f, g : f = Top /\ g = Refused(f, {"cannot load"})
    OBVIOUS
  <2>2. IsFrame(f) /\ SetTop(g)
    BY <1>2, <1>5, <2>1 DEF ImportUnreadable, AtImport
  <2>3. g = [path |-> f.path, at |-> f.at + 1, decls |-> f.decls, errs |-> f.errs \cup {"cannot load"}]
    BY <2>1, <2>2, ReceivedFrame
  <2>4. g.at = f.at + 1 /\ g.path = f.path
    BY <2>3
  <2>5. GoesOnAt(Len(stack))
    BY <1>1, <1>2, <1>5, <2>1, <2>2, <2>4, TopGoesOn DEF ImportUnreadable, AtImport
  <2>6. QED
    BY <1>2, <1>5, <2>5 DEF ImportUnreadable, AtImport
<1>6. CASE ImportResolved
  <2>1. PICK f, g : f = Top /\ g = Received(f, resolved[Current.path])
    OBVIOUS
  <2>2. IsFrame(f) /\ SetTop(g)
    BY <1>2, <1>6, <2>1 DEF ImportResolved, AtImport
  <2>3. g = [path |-> f.path, at |-> f.at + 1, errs |-> f.errs, decls |-> g.decls]
    BY <2>1, <2>2, ReceivedFrame
  <2>4. g.at = f.at + 1 /\ g.path = f.path
    BY <2>3
  <2>5. GoesOnAt(Len(stack))
    BY <1>1, <1>2, <1>6, <2>1, <2>2, <2>4, TopGoesOn DEF ImportResolved, AtImport
  <2>6. QED
    BY <1>2, <1>6, <2>5 DEF ImportResolved, AtImport
<1>7. CASE ImportEnter
  <2>1. PICK s, t, p, f : s = stack /\ t = stack' /\ p = Current.path /\ f = Frame(p)
    OBVIOUS
  <2>2. s \in Seq(Range(s)) /\ t = Push(s, f)
    BY <2>1, <1>1, <1>7 DEF ImportEnter, Push, FramesInv
  <2>3. /\ t \in Seq(Range(t)) /\ Len(t) = Len(s) + 1 /\ Len(s) \in Nat
        /\ DOMAIN t = 1..(Len(s) + 1) /\ DOMAIN s = 1..Len(s)
        /\ \A h \in 1..Len(s) : t[h] = s[h]
        /\ t[Len(s) + 1] = f
        /\ t # <<>>
    BY <2>2, Pushed
  <2>4. f.path = p /\ p \notin InProgress
    BY <2>1, <1>7 DEF Frame, ImportEnter
  <2>5. QED
    BY <2>1, <2>3, <2>4 DEF GoesDeeper
<1>8. CASE FinishFile
  BY <1>1, <1>8, CallerGoesOn DEF FinishFile
<1>9. QED
  BY <1>3, <1>4, <1>5, <1>6, <1>7, <1>8 DEF ResolveImports

LEMMA OnceKept ==
    ASSUME WalkInv, OnceInv, ResolveImports
    PROVE  OnceInv'
<1>1. PICK s, t : s = stack /\ t = stack'
  OBVIOUS
<1>2. Len(s) \in Nat /\ DOMAIN s = 1..Len(s)
  BY <1>1, StackFacts DEF WalkInv
<1>3. SUFFICES ASSUME NEW g \in DOMAIN t, NEW h \in DOMAIN t, t[g].path = t[h].path PROVE g = h
  BY <1>1 DEF OnceInv
<1>4. t # <<>>
  BY <1>3
<1>5. CASE \E n \in DOMAIN stack : GoesOnAt(n)
  <2>1. PICK n \in DOMAIN s : GoesOnAt(n)
    BY <1>1, <1>5
  <2>2. DOMAIN t = 1..n /\ \A k \in 1..n : k \in DOMAIN s /\ (k = n \/ k \in 1..(n - 1))
    BY <2>1, <1>1, <1>2 DEF GoesOnAt
  <2>3. \A k \in 1..n : t[k].path = s[k].path
    BY <2>1, <2>2, <1>1 DEF GoesOnAt
  <2>4. QED
    BY <2>2, <2>3, <1>1, <1>3 DEF OnceInv
<1>6. CASE GoesDeeper
  <2>1. PICK m : m = Len(s) + 1
    OBVIOUS
  <2>2. /\ DOMAIN t = 1..m /\ \A k \in DOMAIN s : t[k] = s[k]
        /\ \A k \in DOMAIN s : s[k].path # t[m].path
    BY <2>1, <1>1, <1>6 DEF GoesDeeper, InProgress
  <2>3. \A k \in 1..m : k = m \/ k \in DOMAIN s
    BY <2>1, <1>2
  <2>4. QED
    BY <2>2, <2>3, <1>1, <1>3 DEF OnceInv
<1>7. QED
  BY <1>1, <1>4, <1>5, <1>6, WalkMoves

\* There are never more calls than files.
LEMMA CallsAreFew ==
    ASSUME NEW D, IsFiniteSet(D), NEW s, s \in Seq(Range(s)),
           \A h \in DOMAIN s : s[h].path \in D,
           \A g, h \in DOMAIN s : s[g].path = s[h].path => g = h
    PROVE  Cardinality(D) \in Nat /\ Len(s) <= Cardinality(D)
<1>1. Cardinality(D) \in Nat
  BY FS_CardinalityType
<1>2. PICK n : n = Len(s)
  OBVIOUS
<1>3. n \in Nat /\ DOMAIN s = 1..n
  BY <1>2, OwnRange
<1>4. PICK f : f = [h \in 1..n |-> s[h].path]
  OBVIOUS
<1>5. f \in Injection(1..n, D)
  <2>1. \A h \in 1..n : f[h] = s[h].path /\ s[h].path \in D
    BY <1>3, <1>4
  <2>2. f \in [1..n -> D]
    BY <2>1, <1>4
  <2>3. \A g, h \in 1..n : f[g] = f[h] => g = h
    BY <2>1, <1>3
  <2>4. QED
    BY <2>2, <2>3 DEF Injection, IsInjective
<1>6. Cardinality(1..n) <= Cardinality(D)
  BY <1>5, FS_Injection
<1>7. Cardinality(1..n) = n
  <2>1. 1 \in Int /\ n \in Int
    BY <1>3
  <2>2. Cardinality(1..n) = IF 1 > n THEN 0 ELSE n - 1 + 1
    BY <2>1, FS_Interval
  <2>3. QED
    BY <2>2, <1>3
<1>8. QED
  BY <1>1, <1>2, <1>6, <1>7

\* What is left in a call that stands where it may.
LEMMA LeftInFrame ==
    ASSUME Readable, NEW f, IsFrame(f)
    PROVE  f.at \in Nat /\ Len(files[f.path]) \in Nat /\ Len(files[f.path]) + 1 - f.at \in Nat
<1>1. Len(files[f.path]) \in Nat
  BY DeclsOfFile DEF IsFrame
<1>2. QED
  BY <1>1 DEF IsFrame

LEMMA WalkNearsItsEnd ==
    ASSUME WalkInv, OnceInv, ResolveImports, stack' # <<>>
    PROVE  Less(WalkLeft', WalkLeft)
<1>1. Readable /\ FramesInv /\ UNCHANGED files
  BY DEF WalkInv, ResolveImports, KeepDecl, ImportCircular, ImportUnreadable, ImportResolved,
         ImportEnter, FinishFile
<1>2. WalkInv'
  BY KeepDeclKeeps, CircularKeeps, UnreadableKeeps, ResolvedKeeps, EnterKeeps, FinishKeeps DEF ResolveImports
<1>3. OnceInv'
  BY OnceKept
<1>4. PICK s, t, c, n : s = stack /\ t = stack' /\ c = Cardinality(DOMAIN files) /\ n = Len(stack)
  OBVIOUS
<1>5. PICK fs : fs = files
  OBVIOUS
<1>6. PICK a, b : /\ a = [h \in 1..c |-> IF h \in DOMAIN t THEN Len(fs[t[h].path]) + 1 - t[h].at ELSE NotYet]
                  /\ b = [h \in 1..c |-> IF h \in DOMAIN s THEN Len(fs[s[h].path]) + 1 - s[h].at ELSE NotYet]
  OBVIOUS
<1>7. WalkLeft' = a /\ WalkLeft = b
  BY <1>1, <1>4, <1>5, <1>6 DEF WalkLeft
<1>8. n \in Nat /\ DOMAIN s = 1..n
  BY <1>1, <1>4, StackFacts
<1>9. \A h \in DOMAIN t : IsFrame(t[h])
  BY <1>1, <1>2, <1>4, FilesKept DEF WalkInv, FramesInv
<1>10. Len(t) \in Nat /\ DOMAIN t = 1..Len(t) /\ Len(t) <= c /\ c \in Nat
  <2>1. t \in Seq(Range(t))
    BY <1>2, <1>4 DEF WalkInv, FramesInv
  <2>2. \A h \in DOMAIN t : t[h].path \in DOMAIN files
    BY <1>9 DEF IsFrame
  <2>3. \A g, h \in DOMAIN t : t[g].path = t[h].path => g = h
    BY <1>3, <1>4 DEF OnceInv
  <2>4. IsFiniteSet(DOMAIN files)
    BY <1>1 DEF Readable
  <2>5. Cardinality(DOMAIN files) \in Nat /\ Len(t) <= Cardinality(DOMAIN files)
    BY <2>1, <2>2, <2>3, <2>4, CallsAreFew
  <2>6. QED
    BY <2>1, <2>5, <1>4, OwnRange
<1>11. \A h \in DOMAIN s : IsFrame(s[h])
  BY <1>1, <1>4 DEF FramesInv
<1>12. \A f : IsFrame(f) => /\ f.at \in Nat /\ Len(fs[f.path]) \in Nat
                            /\ Len(fs[f.path]) + 1 - f.at \in Nat
  BY <1>1, <1>5, LeftInFrame
<1>13. DOMAIN a = 1..c /\ DOMAIN b = 1..c
  BY <1>6
<1>14. CASE \E m \in DOMAIN stack : GoesOnAt(m)
  <2>1. PICK m \in DOMAIN s : GoesOnAt(m)
    BY <1>4, <1>14
  <2>2. /\ DOMAIN t = 1..m /\ \A h \in 1..(m - 1) : t[h] = s[h]
        /\ t[m].path = s[m].path /\ t[m].at = s[m].at + 1
    BY <2>1, <1>4 DEF GoesOnAt
  <2>3. m \in DOMAIN t /\ m \in Nat /\ m \in 1..c
    <3>1. m \in 1..n /\ m \in 1..m
      BY <2>1, <1>8
    <3>2. m \in 1..Len(t)
      BY <3>1, <2>2, <1>10
    <3>3. QED
      BY <3>1, <3>2, <2>2, <1>10
  <2>4. a[m] = Len(fs[t[m].path]) + 1 - t[m].at /\ b[m] = Len(fs[s[m].path]) + 1 - s[m].at
    BY <2>1, <2>3, <1>6
  <2>5. a[m] \in Nat /\ b[m] \in Nat /\ s[m].at \in Nat /\ Len(fs[s[m].path]) \in Nat
    BY <2>1, <2>3, <2>4, <1>9, <1>11, <1>12
  <2>6. a[m] < b[m]
    BY <2>2, <2>4, <2>5
  <2>7. ASSUME NEW j \in 1..c, j < m PROVE a[j] = b[j]
    <3>1. j \in 1..(m - 1) /\ j \in DOMAIN t /\ j \in DOMAIN s
      BY <2>2, <2>3, <2>7, <1>8, <2>1
    <3>2. QED
      BY <3>1, <2>2, <1>6
  <2>8. QED
    BY <2>3, <2>5, <2>6, <2>7, <1>7, <1>13 DEF Less
<1>15. CASE GoesDeeper
  <2>1. PICK m : m = n + 1
    OBVIOUS
  <2>2. DOMAIN t = 1..m /\ \A h \in DOMAIN s : t[h] = s[h]
    BY <2>1, <1>4, <1>15 DEF GoesDeeper
  <2>3. m \in DOMAIN t /\ m \notin DOMAIN s /\ m \in Nat
    BY <2>1, <2>2, <1>8
  <2>4. m \in 1..c
    <3>1. m \in 1..Len(t)
      BY <2>3, <1>10
    <3>2. QED
      BY <3>1, <1>10
  <2>5. a[m] = Len(fs[t[m].path]) + 1 - t[m].at /\ b[m] = NotYet
    BY <2>3, <2>4, <1>6
  <2>6. a[m] \in Nat
    BY <2>3, <2>5, <1>9, <1>12
  <2>7. ASSUME NEW j \in 1..c, j < m PROVE a[j] = b[j]
    <3>1. j \in DOMAIN t /\ j \in DOMAIN s
      BY <2>1, <2>2, <2>7, <1>8
    <3>2. QED
      BY <3>1, <2>2, <1>6
  <2>8. QED
    BY <2>4, <2>5, <2>6, <2>7, <1>7, <1>13 DEF Less
<1>16. QED
  BY <1>14, <1>15, WalkMoves

\* The import walk ends, for every project: each of its steps makes what is
\* left of it less.  A file is never on the stack twice, since an import of
\* one that is there is refused, so there are at most as many calls as files.
\* ResolveImports (resolve.go).
THEOREM ImportsEnd == ImportSpec => WalkAdvances
<1>1. Readable /\ ImportInit => WalkInv /\ OnceInv
  <2>1. SUFFICES ASSUME Readable, ImportInit PROVE WalkInv /\ OnceInv
    OBVIOUS
  <2>2. PICK f : stack = <<f>>
    BY <2>1 DEF ImportInit
  <2>3. DOMAIN stack = {1}
    BY <2>2
  <2>4. OnceInv
    BY <2>3 DEF OnceInv
  <2>5. QED
    BY <2>1, <2>4, ImportInitWalks
<1>2. WalkInv /\ OnceInv /\ [ResolveImports]_importVars => (WalkInv /\ OnceInv)'
  <2>1. SUFFICES ASSUME WalkInv, OnceInv, [ResolveImports]_importVars PROVE (WalkInv /\ OnceInv)'
    OBVIOUS
  <2>2. CASE ResolveImports
    <3>1. WalkInv'
      BY <2>1, <2>2, KeepDeclKeeps, CircularKeeps, UnreadableKeeps, ResolvedKeeps, EnterKeeps, FinishKeeps
      DEF ResolveImports
    <3>2. QED
      BY <2>1, <2>2, <3>1, OnceKept
  <2>3. CASE UNCHANGED importVars
    BY <2>1, <2>3, WalkStutters DEF OnceInv, importVars
  <2>4. QED
    BY <2>1, <2>2, <2>3
<1>3. WalkInv /\ OnceInv /\ [ResolveImports]_importVars
        => [stack' # <<>> => Less(WalkLeft', WalkLeft)]_importVars
  BY WalkNearsItsEnd
<1>4. QED
  BY <1>1, <1>2, <1>3, PTL DEF ImportSpec, WalkAdvances

-----------------------------------------------------------------------------
(* The comparison of plans *)

LEMMA LastOfOne ==
    ASSUME NEW i \in Int
    PROVE  Max({i}) = i
  BY DEF Max

LEMMA OfIdUnique ==
    ASSUME NEW ns, ns \in Seq(Range(ns)), Unique(ns), NEW n \in Range(ns)
    PROVE  OfId(ns, n.id) = n
<1>1. PICK i \in DOMAIN ns : ns[i] = n
  BY DEF Range
<1>2. i \in Int
  BY <1>1, OwnRange
<1>3. {j \in DOMAIN ns : ns[j].id = n.id} = {i}
  BY <1>1 DEF Unique
<1>4. QED
  BY <1>1, <1>2, <1>3, LastOfOne DEF OfId

LEMMA IdsHave ==
    ASSUME NEW ns, NEW n
    PROVE  n \in Ids(ns) <=> \E m \in Range(ns) : m.id = n
  BY DEF Ids

\* The difference of two plans whose ids are distinct.
LEMMA DiffOfUnique ==
    ASSUME NEW old, NEW new, new.nodes \in Seq(Range(new.nodes)), Unique(new.nodes),
           old.loaded \in BOOLEAN, new.loaded \in BOOLEAN, NEW d, d = Diff(old, new)
    PROVE  LET kept == Range(old.nodes) \ (d.removed \cup {p.old : p \in d.changed})
           IN /\ kept \cup d.added \cup {p.new : p \in d.changed} = Range(new.nodes)
              /\ \A n \in (Range(old.nodes) \cap Range(new.nodes)) \ kept :
                   old.loaded # new.loaded /\ Lost(n) # {}
<1>0. PICK os, ns : os = old.nodes /\ ns = new.nodes
  OBVIOUS
<1> DEFINE both == {n \in Range(os) : n.id \in Ids(ns)}
           differ == {n \in both : InGo(n, old.loaded) # InGo(OfId(ns, n.id), new.loaded)}
           kept == Range(os) \ (d.removed \cup {p.old : p \in d.changed})
<1>1. /\ d.removed = {n \in Range(os) : n.id \notin Ids(ns)}
      /\ d.changed = {p \in {[old |-> n, new |-> OfId(ns, n.id)] : n \in both} :
                        InGo(p.old, old.loaded) # InGo(p.new, new.loaded)}
      /\ d.added = {n \in Range(ns) : n.id \notin Ids(os)}
  BY <1>0 DEF Diff, Shared
<1>2. d.changed = {[old |-> n, new |-> OfId(ns, n.id)] : n \in differ}
  BY <1>1
<1>a. ASSUME NEW p \in d.changed
      PROVE  \E n \in differ : p.old = n /\ p.new = OfId(ns, n.id)
  <2>1. PICK n \in differ : p = [old |-> n, new |-> OfId(ns, n.id)]
    BY <1>2, <1>a
  <2>2. QED
    BY <2>1
<1>b. ASSUME NEW n \in differ
      PROVE  \E p \in d.changed : p.old = n /\ p.new = OfId(ns, n.id)
  <2>1. PICK p : p = [old |-> n, new |-> OfId(ns, n.id)]
    OBVIOUS
  <2>2. p \in d.changed
    BY <1>2, <1>b, <2>1
  <2>3. QED
    BY <2>1, <2>2
<1> HIDE DEF differ
<1>3. {p.old : p \in d.changed} = differ
  BY <1>a, <1>b
<1>4. {p.new : p \in d.changed} = {OfId(ns, n.id) : n \in differ}
  BY <1>a, <1>b
<1> USE DEF differ
<1>5. ASSUME NEW n \in Range(os), NEW m \in Range(ns), n.id = m.id
      PROVE  OfId(ns, n.id) = m /\ n \in both
  BY <1>0, <1>5, OfIdUnique, IdsHave
<1>6. ASSUME NEW n \in both PROVE OfId(ns, n.id) \in Range(ns)
  <2>1. PICK m \in Range(ns) : m.id = n.id
    BY <1>6, IdsHave
  <2>2. QED
    BY <2>1, <1>5, <1>6
<1>7. kept = both \ differ
  BY <1>1, <1>3
\* What is kept is in the new plan as well.
<1>8. ASSUME NEW n \in kept PROVE n \in Range(ns)
  <2>1. n \in both /\ InGo(n, old.loaded) = InGo(OfId(ns, n.id), new.loaded)
    BY <1>7, <1>8
  <2>2. n = OfId(ns, n.id)
    BY <2>1 DEF InGo
  <2>3. QED
    BY <2>1, <2>2, <1>6
\* What both have is kept unless it differs in Go.
<1>9. ASSUME NEW n \in Range(os), n \in Range(ns), n \notin kept
      PROVE  old.loaded # new.loaded /\ Lost(n) # {}
  <2>1. OfId(ns, n.id) = n /\ n \in both
    BY <1>5, <1>9
  <2>2. InGo(n, old.loaded) # InGo(n, new.loaded)
    BY <2>1, <1>7, <1>9
  <2>3. QED
    BY <2>2 DEF InGo
<1>10. ASSUME NEW m \in Range(ns)
       PROVE  m \in kept \/ m \in d.added \/ m \in {OfId(ns, n.id) : n \in differ}
  <2>1. CASE m.id \notin Ids(os)
    BY <2>1, <1>1
  <2>2. CASE m.id \in Ids(os)
    <3>1. PICK n \in Range(os) : n.id = m.id
      BY <2>2, IdsHave
    <3>2. OfId(ns, n.id) = m /\ n \in both
      BY <3>1, <1>5
    <3>3. CASE n \in differ
      BY <3>2, <3>3
    <3>4. CASE n \notin differ
      <4>1. InGo(n, old.loaded) = InGo(m, new.loaded)
        BY <3>2, <3>4
      <4>2. n = m
        BY <4>1 DEF InGo
      <4>3. QED
        BY <3>2, <3>4, <4>2, <1>7
    <3>5. QED
      BY <3>3, <3>4
  <2>3. QED
    BY <2>1, <2>2
<1>11. kept \subseteq Range(ns) /\ d.added \subseteq Range(ns)
  BY <1>1, <1>8
<1>12. {OfId(ns, n.id) : n \in differ} \subseteq Range(ns)
  BY <1>6
<1>13. kept \cup d.added \cup {p.new : p \in d.changed} = Range(ns)
  BY <1>4, <1>10, <1>11, <1>12
<1>14. QED
  BY <1>0, <1>9, <1>13

ComparedInv ==
  /\ nodes \in Seq(Range(nodes))
  /\ compared # <<>> =>
       \E old, new, d :
         /\ compared = <<[old |-> old, new |-> new, diff |-> d]>>
         /\ d = Diff(old, new) /\ new.nodes = nodes
         /\ old.loaded \in BOOLEAN /\ new.loaded \in BOOLEAN

\* What Diff says of any two plans with distinct ids turns the one into the
\* other, whatever part of a node changed; a node they share is named only if
\* one of them was compiled, the other loaded, and JSON does not keep all of
\* the node, whatever it may lose.  Diff (diff.go).
THEOREM DiffCorrect == DiffSpec => []DiffExact
<1>1. DiffInit => ComparedInv
  BY DEF DiffInit, ComparedInv
<1>2. ComparedInv /\ [CompareSome]_<<nodes, compared>> => ComparedInv'
  <2>1. SUFFICES ASSUME ComparedInv, [CompareSome]_<<nodes, compared>> PROVE ComparedInv'
    OBVIOUS
  <2>2. CASE UNCHANGED <<nodes, compared>>
    BY <2>1, <2>2 DEF ComparedInv
  <2>3. CASE CompareSome
    <3>1. PICK ns \in OldPlans \cup {nodes}, was, is \in BOOLEAN :
            CompareWith([nodes |-> ns, loaded |-> was], is)
      BY <2>3 DEF CompareSome
    <3>2. PICK old, new : old = [nodes |-> ns, loaded |-> was] /\ new = [nodes |-> nodes, loaded |-> is]
      OBVIOUS
    <3>3. PICK d : d = Diff(old, new)
      OBVIOUS
    <3>4. compared' = <<[old |-> old, new |-> new, diff |-> d]>> /\ nodes' = nodes
      BY <3>1, <3>2, <3>3 DEF CompareWith
    <3>5. new.nodes = nodes /\ old.loaded \in BOOLEAN /\ new.loaded \in BOOLEAN
      BY <3>1, <3>2
    <3>6. QED
      BY <2>1, <3>3, <3>4, <3>5 DEF ComparedInv
  <2>4. QED
    BY <2>1, <2>2, <2>3
<1>3. ComparedInv => DiffExact
  <2>1. SUFFICES ASSUME ComparedInv, compared # <<>> PROVE DiffExact
    BY DEF DiffExact
  <2>2. PICK old, new, d :
          /\ compared = <<[old |-> old, new |-> new, diff |-> d]>>
          /\ d = Diff(old, new) /\ new.nodes = nodes
          /\ old.loaded \in BOOLEAN /\ new.loaded \in BOOLEAN
    BY <2>1 DEF ComparedInv
  <2>3. compared[1].old = old /\ compared[1].new = new /\ compared[1].diff = d
    BY <2>2
  <2>4. new.nodes \in Seq(Range(new.nodes))
    BY <2>1, <2>2 DEF ComparedInv
  <2>5. Unique(new.nodes) =>
          LET kept == Range(old.nodes) \ (d.removed \cup {p.old : p \in d.changed})
          IN /\ kept \cup d.added \cup {p.new : p \in d.changed} = Range(new.nodes)
             /\ \A n \in (Range(old.nodes) \cap Range(new.nodes)) \ kept :
                  old.loaded # new.loaded /\ Lost(n) # {}
    BY <2>2, <2>4, DiffOfUnique
  <2>6. QED
    BY <2>3, <2>5 DEF DiffExact
<1>4. QED
  BY <1>1, <1>2, <1>3, PTL DEF DiffSpec

-----------------------------------------------------------------------------
(* The search for cycles: the invariant *)

Readies(g) == \A u \in DOMAIN g : g[u] \in Seq(Range(g[u]))

IsCall(g, c) ==
  /\ c = [node |-> c.node, at |-> c.at]
  /\ c.at \in 1..(Len(Neighbours(g, c.node)) + 1)

\* The call looks at the neighbour v of its node.
LooksAt(g, c, v) ==
  /\ c.at \in DOMAIN Neighbours(g, c.node)
  /\ Neighbours(g, c.node)[c.at] = v

\* A path: each call looks at the node of the next, and no node is on it twice.
IsPath(g, cs) ==
  /\ cs \in Seq(Range(cs))
  /\ \A h \in DOMAIN cs : IsCall(g, cs[h])
  /\ \A h, k \in DOMAIN cs : cs[h].node = cs[k].node => h = k
  /\ \A h \in 1..(Len(cs) - 1) : LooksAt(g, cs[h], cs[h + 1].node)

NodesOf(cs) == {cs[h].node : h \in DOMAIN cs}

\* The neighbours that a call is past are among ns.
Passed(g, c, ns) == \A i \in 1..(c.at - 1) : Neighbours(g, c.node)[i] \in ns

\* Nodes that no edge leaves and among which no edges go round.
Settled(g, ns) ==
  /\ \A u \in ns : Range(Neighbours(g, u)) \subseteq ns
  /\ Acyclic(g, ns)

SearchInv ==
  /\ Readies(uses) /\ starts \in Seq(Range(starts)) /\ found \in Seq(Range(found))
  /\ IsPath(uses, calls)
  /\ NodesOf(calls) \subseteq visited
  /\ DOMAIN uses \subseteq visited \cup Range(starts)
  /\ \A c \in cycles : IsCycle(uses, c)
  /\ cycles = {} =>
       /\ Settled(uses, visited \ NodesOf(calls))
       /\ \A h \in DOMAIN calls : Passed(uses, calls[h], visited \ NodesOf(calls))
  /\ CyclesExact

LEMMA NeighboursAreSeq ==
    ASSUME NEW g, Readies(g), NEW u
    PROVE  /\ Len(Neighbours(g, u)) \in Nat
           /\ DOMAIN Neighbours(g, u) = 1..Len(Neighbours(g, u))
<1>1. CASE u \in DOMAIN g
  <2>1. g[u] \in Seq(Range(g[u])) /\ Neighbours(g, u) = g[u]
    BY <1>1 DEF Readies, Neighbours
  <2>2. QED
    BY <2>1, OwnRange
<1>2. CASE u \notin DOMAIN g
  BY <1>2 DEF Neighbours
<1>3. QED
  BY <1>1, <1>2

LEMMA NoCalls ==
    ASSUME NEW g
    PROVE  IsPath(g, <<>>) /\ NodesOf(<<>>) = {}
<1>1. DOMAIN <<>> = {} /\ Len(<<>>) = 0 /\ <<>> \in Seq(Range(<<>>))
  OBVIOUS
<1>2. 1..(Len(<<>>) - 1) = {}
  BY <1>1
<1>3. QED
  BY <1>1, <1>2 DEF IsPath, NodesOf

LEMMA PathFacts ==
    ASSUME NEW g, NEW cs, IsPath(g, cs)
    PROVE  /\ cs \in Seq(Range(cs)) /\ Len(cs) \in Nat /\ DOMAIN cs = 1..Len(cs)
           /\ cs # <<>> <=> Len(cs) >= 1
  BY OwnRange DEF IsPath

\* A new call, of a node that is not on the path.
LEMMA PathGrows ==
    ASSUME NEW g, Readies(g), NEW cs, IsPath(g, cs), NEW v, v \notin NodesOf(cs),
           cs # <<>> => LooksAt(g, cs[Len(cs)], v),
           NEW t, t = Push(cs, [node |-> v, at |-> 1])
    PROVE  /\ IsPath(g, t) /\ NodesOf(t) = NodesOf(cs) \cup {v}
           /\ \A h \in DOMAIN t : t[h] = [node |-> v, at |-> 1] \/ (h \in DOMAIN cs /\ t[h] = cs[h])
<1>1. PICK c : c = [node |-> v, at |-> 1]
  OBVIOUS
<1>2. c.node = v /\ c.at = 1 /\ IsCall(g, c)
  BY <1>1, NeighboursAreSeq DEF IsCall
<1>3. PICK n : n = Len(cs)
  OBVIOUS
<1>4. cs \in Seq(Range(cs)) /\ n \in Nat /\ DOMAIN cs = 1..n /\ (cs # <<>> <=> n >= 1)
  BY <1>3, PathFacts
<1>5. cs \in Seq(Range(cs)) /\ t = Push(cs, c)
  BY <1>1, <1>4
<1>6. /\ t \in Seq(Range(t)) /\ Len(t) = Len(cs) + 1 /\ Len(cs) \in Nat
      /\ DOMAIN t = 1..(Len(cs) + 1) /\ DOMAIN cs = 1..Len(cs)
      /\ \A h \in 1..Len(cs) : t[h] = cs[h]
      /\ t[Len(cs) + 1] = c
      /\ t # <<>>
  BY <1>5, Pushed
<1>7. /\ t \in Seq(Range(t)) /\ Len(t) = n + 1 /\ DOMAIN t = 1..(n + 1)
      /\ \A h \in 1..n : t[h] = cs[h]
      /\ t[n + 1] = c
  BY <1>3, <1>6
<1>8. \A h \in 1..(n + 1) : h = n + 1 \/ h \in 1..n
  BY <1>4
<1>9. \A h \in DOMAIN t : t[h] = c \/ (h \in DOMAIN cs /\ t[h] = cs[h])
  BY <1>4, <1>7, <1>8
<1>10. \A h \in DOMAIN t : IsCall(g, t[h])
  BY <1>2, <1>9 DEF IsPath
<1>11. ASSUME NEW h \in DOMAIN t, NEW k \in DOMAIN t, t[h].node = t[k].node
       PROVE  h = k
  <2>1. \A j \in 1..n : t[j].node \in NodesOf(cs)
    BY <1>4, <1>7 DEF NodesOf
  <2>2. t[n + 1].node = v
    BY <1>2, <1>7
  <2>3. CASE h \in 1..n /\ k \in 1..n
    BY <2>3, <1>4, <1>7, <1>11 DEF IsPath
  <2>4. QED
    BY <2>1, <2>2, <2>3, <1>7, <1>8, <1>11
<1>12. ASSUME NEW h \in 1..n PROVE LooksAt(g, t[h], t[h + 1].node)
  <2>1. CASE h = n
    BY <2>1, <1>2, <1>3, <1>4, <1>7
  <2>2. CASE h # n
    <3>1. h \in 1..(n - 1) /\ h + 1 \in 1..n
      BY <2>2, <1>4
    <3>2. QED
      BY <3>1, <1>3, <1>7 DEF IsPath
  <2>3. QED
    BY <2>1, <2>2
<1>13. NodesOf(t) = NodesOf(cs) \cup {v}
  <2>1. n + 1 \in DOMAIN t /\ \A h \in DOMAIN cs : h \in DOMAIN t /\ t[h] = cs[h]
    BY <1>4, <1>7
  <2>2. v \in NodesOf(t)
    BY <2>1, <1>2, <1>7 DEF NodesOf
  <2>3. NodesOf(cs) \subseteq NodesOf(t)
    BY <2>1 DEF NodesOf
  <2>4. NodesOf(t) \subseteq NodesOf(cs) \cup {v}
    BY <1>2, <1>9 DEF NodesOf
  <2>5. QED
    BY <2>2, <2>3, <2>4
<1>14. Len(t) - 1 = n
  BY <1>4, <1>7
<1>15. IsPath(g, t)
  BY <1>7, <1>10, <1>11, <1>12, <1>14 DEF IsPath
<1>16. QED
  BY <1>1, <1>9, <1>13, <1>15

\* The call on top goes on to its next neighbour.
LEMMA PathAdvances ==
    ASSUME NEW g, Readies(g), NEW cs, IsPath(g, cs), cs # <<>>,
           NEW n, n = Len(cs), cs[n].at \in DOMAIN Neighbours(g, cs[n].node),
           NEW t, t = Advanced(cs)
    PROVE  /\ IsPath(g, t) /\ NodesOf(t) = NodesOf(cs) /\ DOMAIN t = DOMAIN cs /\ n \in DOMAIN cs
           /\ \A h \in DOMAIN t : h # n => t[h] = cs[h]
           /\ t[n] = [node |-> cs[n].node, at |-> cs[n].at + 1]
<1>1. PICK u, i : u = cs[n].node /\ i = cs[n].at
  OBVIOUS
<1>2. cs \in Seq(Range(cs)) /\ n \in Nat /\ DOMAIN cs = 1..n /\ n \in DOMAIN cs
  BY PathFacts
<1>3. cs[n] = [node |-> u, at |-> i]
  BY <1>1, <1>2 DEF IsPath, IsCall
<1>4. PICK c : c = [node |-> u, at |-> i + 1]
  OBVIOUS
<1>5. cs \in Seq(Range(cs)) /\ n \in DOMAIN cs /\ t = Put(cs, n, c)
  <2>1. [cs[n] EXCEPT !.at = @ + 1] = c
    BY <1>3, <1>4
  <2>2. t = [cs EXCEPT ![n] = [cs[n] EXCEPT !.at = @ + 1]]
    BY <1>2 DEF Advanced
  <2>3. QED
    BY <2>1, <2>2, <1>2 DEF Put
<1>6. PICK s, m, r : s = cs /\ m = n /\ r = t
  OBVIOUS
<1>a. s \in Seq(Range(s)) /\ m \in DOMAIN s /\ r = Put(s, m, c)
  BY <1>5, <1>6
<1>7. /\ r \in Seq(Range(r)) /\ Len(r) = Len(s) /\ Len(s) \in Nat
      /\ DOMAIN r = 1..Len(s) /\ DOMAIN s = 1..Len(s)
      /\ \A h \in 1..Len(s) : r[h] = IF h = m THEN c ELSE s[h]
      /\ r # <<>>
  BY <1>a, Changed
<1>8. /\ t \in Seq(Range(t)) /\ Len(t) = n /\ DOMAIN t = 1..n
      /\ \A h \in 1..n : t[h] = IF h = n THEN c ELSE cs[h]
  BY <1>6, <1>7
<1>9. t[n] = c /\ (\A h \in 1..n : h # n => t[h] = cs[h]) /\ (\A h \in 1..n : t[h].node = cs[h].node)
  <2>1. t[n] = c /\ \A h \in 1..n : h # n => t[h] = cs[h]
    BY <1>2, <1>8
  <2>2. c.node = cs[n].node
    BY <1>1, <1>4
  <2>3. QED
    BY <2>1, <2>2
<1>10. IsCall(g, c)
  <2>1. Len(Neighbours(g, u)) \in Nat /\ i \in 1..Len(Neighbours(g, u))
    BY <1>1, NeighboursAreSeq
  <2>2. c.node = u /\ c.at = i + 1
    BY <1>4
  <2>3. QED
    BY <2>1, <2>2, <1>4 DEF IsCall
<1>11. \A h \in 1..n : IsCall(g, t[h])
  BY <1>2, <1>9, <1>10 DEF IsPath
<1>12. \A h, k \in 1..n : t[h].node = t[k].node => h = k
  BY <1>2, <1>9 DEF IsPath
<1>13. ASSUME NEW h \in 1..(n - 1) PROVE LooksAt(g, t[h], t[h + 1].node)
  <2>1. h \in 1..n /\ h # n /\ h + 1 \in 1..n
    BY <1>2
  <2>2. LooksAt(g, cs[h], cs[h + 1].node)
    BY DEF IsPath
  <2>3. QED
    BY <2>1, <2>2, <1>9
<1>14. NodesOf(t) = NodesOf(cs)
  BY <1>2, <1>8, <1>9 DEF NodesOf
<1>15. IsPath(g, t)
  BY <1>8, <1>11, <1>12, <1>13 DEF IsPath
<1>16. QED
  BY <1>1, <1>2, <1>4, <1>8, <1>9, <1>14, <1>15

\* The call on top returns.
LEMMA PathShrinks ==
    ASSUME NEW g, NEW cs, IsPath(g, cs), cs # <<>>, Len(cs) # 1, NEW t, t = Front(cs)
    PROVE  /\ IsPath(g, t) /\ t # <<>>
           /\ NodesOf(t) = NodesOf(cs) \ {cs[Len(cs)].node}
           /\ LooksAt(g, t[Len(t)], cs[Len(cs)].node)
           /\ DOMAIN t \subseteq DOMAIN cs
           /\ \A h \in DOMAIN t : t[h] = cs[h]
<1>a. PICK n : n = Len(cs)
  OBVIOUS
<1>1. cs \in Seq(Range(cs)) /\ n \in Nat \ {0, 1} /\ DOMAIN cs = 1..n /\ cs # <<>>
  BY <1>a, PathFacts
<1>2. /\ t \in Seq(Range(t)) /\ Len(t) = n - 1 /\ DOMAIN t = 1..(n - 1)
      /\ \A h \in 1..(n - 1) : t[h] = cs[h]
  BY <1>a, <1>1, Popped
<1>3. \A h \in 1..(n - 1) : h \in 1..n /\ h # n
  BY <1>1
<1>4. \A h \in 1..n : h = n \/ h \in 1..(n - 1)
  BY <1>1
<1>5. NodesOf(t) = NodesOf(cs) \ {cs[n].node}
  <2>1. ASSUME NEW h \in 1..(n - 1) PROVE t[h].node \in NodesOf(cs) /\ t[h].node # cs[n].node
    <3>1. h \in DOMAIN cs /\ n \in DOMAIN cs /\ h # n
      BY <1>1, <1>3
    <3>2. cs[h].node # cs[n].node
      BY <3>1 DEF IsPath
    <3>3. QED
      BY <3>1, <3>2, <1>2 DEF NodesOf
  <2>2. ASSUME NEW h \in 1..n, cs[h].node # cs[n].node PROVE cs[h].node \in NodesOf(t)
    BY <2>2, <1>2, <1>4 DEF NodesOf
  <2>3. NodesOf(t) \subseteq NodesOf(cs) \ {cs[n].node}
    BY <2>1, <1>2 DEF NodesOf
  <2>4. NodesOf(cs) \ {cs[n].node} \subseteq NodesOf(t)
    BY <2>2, <1>1 DEF NodesOf
  <2>5. QED
    BY <2>3, <2>4
<1>6. LooksAt(g, t[n - 1], cs[n].node)
  <2>1. n - 1 \in 1..(n - 1) /\ (n - 1) + 1 = n
    BY <1>1
  <2>2. LooksAt(g, cs[n - 1], cs[(n - 1) + 1].node)
    BY <2>1, <1>a DEF IsPath
  <2>3. QED
    BY <2>1, <2>2, <1>2
<1>7. ASSUME NEW h \in 1..(n - 2) PROVE LooksAt(g, t[h], t[h + 1].node)
  <2>1. h \in 1..(n - 1) /\ h + 1 \in 1..(n - 1)
    BY <1>1
  <2>2. LooksAt(g, cs[h], cs[h + 1].node)
    BY <2>1, <1>a DEF IsPath
  <2>3. QED
    BY <2>1, <2>2, <1>2
<1>8. IsPath(g, t)
  <2>1. Len(t) - 1 = n - 2
    BY <1>1, <1>2
  <2>2. \A h \in DOMAIN t : h \in DOMAIN cs /\ t[h] = cs[h]
    BY <1>1, <1>2, <1>3
  <2>3. (\A h \in DOMAIN t : IsCall(g, t[h])) /\ \A h, k \in DOMAIN t : t[h].node = t[k].node => h = k
    BY <2>2 DEF IsPath
  <2>4. \A h \in 1..(Len(t) - 1) : LooksAt(g, t[h], t[h + 1].node)
    BY <2>1, <1>7
  <2>5. QED
    BY <2>3, <2>4, <1>2 DEF IsPath
<1>9. t # <<>>
  <2>1. Len(t) >= 1
    BY <1>1, <1>2
  <2>2. QED
    BY <2>1, <1>2, OwnRange
<1>10. QED
  BY <1>a, <1>1, <1>2, <1>3, <1>5, <1>6, <1>8, <1>9

\* The part of the path from v on, where the call on top looks at v, is a cycle.
LEMMA PathCloses ==
    ASSUME Readies(uses), IsPath(uses, calls), calls # <<>>, NEW n, n = Len(calls),
           NEW v \in NodesOf(calls), LooksAt(uses, calls[n], v)
    PROVE  IsCycle(uses, CycleTo(v))
<1>1. n \in Nat /\ DOMAIN calls = 1..n /\ n >= 1
  BY PathFacts
<1>2. PICK path : path = [h \in DOMAIN calls |-> calls[h].node]
  OBVIOUS
<1>3. PICK k : k = CHOOSE h \in DOMAIN path : path[h] = v
  OBVIOUS
<1>4. DOMAIN path = 1..n /\ \A h \in 1..n : path[h] = calls[h].node
  BY <1>1, <1>2
<1>5. k \in 1..n /\ path[k] = v
  <2>1. \E h \in DOMAIN path : path[h] = v
    BY <1>1, <1>4 DEF NodesOf
  <2>2. QED
    BY <2>1, <1>3, <1>4
<1>6. path \in Seq(NodesOf(calls)) /\ Len(path) = n
  <2>1. \A h \in 1..n : path[h] \in NodesOf(calls)
    BY <1>1, <1>4 DEF NodesOf
  <2>2. path \in [1..n -> NodesOf(calls)]
    BY <2>1, <1>1, <1>2
  <2>3. path \in Seq(NodesOf(calls))
    BY <2>2, <1>1, SeqDef
  <2>4. QED
    BY <2>3, <1>1, <1>4
<1>7. PICK r : r = SubSeq(path, k, n)
  OBVIOUS
<1>8. /\ r \in Seq(NodesOf(calls)) /\ Len(r) = n - k + 1
      /\ \A i \in 1..(n - k + 1) : r[i] = path[k + i - 1]
  <2>1. k \in 1..(n + 1) /\ n \in (k - 1)..n
    BY <1>1, <1>5
  <2>2. SubSeq(path, k, n) \in Seq(NodesOf(calls)) /\ Len(SubSeq(path, k, n)) = n - k + 1
    BY <2>1, <1>1, <1>5, <1>6
  <2>3. \A i \in 1..(n - k + 1) : SubSeq(path, k, n)[i] = path[k + i - 1]
    BY <2>1, <1>1, <1>5, <1>6
  <2>4. QED
    BY <2>2, <2>3, <1>7
<1>9. PICK c : c = CycleTo(v)
  OBVIOUS
<1>10. c = Append(r, v)
  BY <1>2, <1>3, <1>6, <1>7, <1>9 DEF CycleTo
<1>11. PICK m : m = n - k + 1
  OBVIOUS
<1>12. m \in Nat /\ m >= 1 /\ k + m - 1 = n
  BY <1>1, <1>5, <1>11
<1>13. Len(c) = m + 1 /\ c[m + 1] = v /\ \A i \in 1..m : c[i] = path[k + i - 1]
  <2>1. v \in NodesOf(calls) /\ r \in Seq(NodesOf(calls)) /\ Len(r) = m
    BY <1>8, <1>11
  <2>2. Len(c) = m + 1 /\ c[m + 1] = v /\ \A i \in 1..m : c[i] = r[i]
    BY <2>1, <1>10, <1>12
  <2>3. QED
    BY <2>2, <1>8, <1>11
<1>14. c[1] = v
  <2>1. 1 \in 1..m /\ k + 1 - 1 = k
    BY <1>5, <1>12
  <2>2. QED
    BY <2>1, <1>5, <1>13
<1>15. ASSUME NEW i \in 1..m PROVE c[i + 1] \in Range(Neighbours(uses, c[i]))
  <2>1. PICK h : h = k + i - 1
    OBVIOUS
  <2>2. h \in 1..n /\ c[i] = calls[h].node
    <3>1. h \in 1..n
      BY <2>1, <1>1, <1>5, <1>12
    <3>2. c[i] = path[h]
      BY <2>1, <1>13
    <3>3. QED
      BY <3>1, <3>2, <1>4
  <2>3. LooksAt(uses, calls[h], c[i + 1])
    <3>1. CASE i = m
      <4>1. h = n /\ c[i + 1] = v
        BY <3>1, <2>1, <1>12, <1>13
      <4>2. QED
        BY <4>1
    <3>2. CASE i # m
      <4>1. i + 1 \in 1..m /\ k + (i + 1) - 1 = h + 1 /\ h \in 1..(n - 1) /\ h + 1 \in 1..n
        BY <3>2, <2>1, <1>5, <1>12
      <4>2. c[i + 1] = calls[h + 1].node
        BY <4>1, <1>4, <1>13
      <4>3. QED
        BY <4>1, <4>2 DEF IsPath
    <3>3. QED
      BY <3>1, <3>2
  <2>4. QED
    BY <2>2, <2>3 DEF LooksAt, Range
<1>16. Len(c) > 1 /\ Len(c) - 1 = m /\ c[1] = c[Len(c)]
  BY <1>12, <1>13, <1>14
<1>17. QED
  BY <1>9, <1>15, <1>16 DEF IsCycle

\* A node whose neighbours are settled settles.
LEMMA Settles ==
    ASSUME NEW g, NEW ns, Settled(g, ns), NEW u, u \notin ns, Range(Neighbours(g, u)) \subseteq ns
    PROVE  Settled(g, ns \cup {u})
<1>1. ASSUME NEW w \in ns \cup {u} PROVE Range(Neighbours(g, w)) \subseteq ns
  BY <1>1 DEF Settled
<1>2. ASSUME NEW s \in SUBSET (ns \cup {u}), s # {}
      PROVE  \E w \in s : Range(Neighbours(g, w)) \cap s = {}
  <2>1. CASE s = {u}
    BY <2>1
  <2>2. CASE s # {u}
    <3>1. s \ {u} \in SUBSET ns /\ s \ {u} # {}
      BY <2>2, <1>2
    <3>2. PICK w \in s \ {u} : Range(Neighbours(g, w)) \cap (s \ {u}) = {}
      BY <3>1 DEF Settled, Acyclic
    <3>3. u \notin Range(Neighbours(g, w))
      BY <3>1, <3>2, <1>1
    <3>4. QED
      BY <3>2, <3>3
  <2>3. QED
    BY <2>1, <2>2
<1>3. QED
  BY <1>1, <1>2 DEF Settled, Acyclic

LEMMA SettledPart ==
    ASSUME NEW g, NEW ns, Acyclic(g, ns), NEW ms \in SUBSET ns
    PROVE  Acyclic(g, ms)
  BY DEF Acyclic

LEMMA PassedMore ==
    ASSUME NEW g, NEW c, NEW ns, Passed(g, c, ns), NEW ms, ns \subseteq ms
    PROVE  Passed(g, c, ms)
  BY DEF Passed

LEMMA PassedOneMore ==
    ASSUME NEW g, NEW c, IsCall(g, c), NEW ns, Passed(g, c, ns), Neighbours(g, c.node)[c.at] \in ns,
           NEW d, d = [node |-> c.node, at |-> c.at + 1], Readies(g)
    PROVE  Passed(g, d, ns)
<1>1. d.node = c.node /\ d.at = c.at + 1 /\ c.at \in Int
  BY NeighboursAreSeq DEF IsCall
<1>2. ASSUME NEW i \in 1..(d.at - 1) PROVE i = c.at \/ i \in 1..(c.at - 1)
  BY <1>1
<1>3. QED
  BY <1>1, <1>2 DEF Passed

LEMMA StartsFacts ==
    ASSUME NEW ss, ss \in Seq(Range(ss)), ss # <<>>
    PROVE  /\ Tail(ss) \in Seq(Range(Tail(ss)))
           /\ Range(ss) = {Head(ss)} \cup Range(Tail(ss))
<1>1. PICK n, t : n = Len(ss) /\ t = Tail(ss)
  OBVIOUS
<1>2. n \in Nat /\ n >= 1 /\ DOMAIN ss = 1..n
  BY <1>1, OwnRange
<1>3. t \in Seq(Range(ss)) /\ Len(t) = n - 1 /\ \A i \in 1..(n - 1) : t[i] = ss[i + 1]
  BY <1>1, <1>2
<1>4. t \in Seq(Range(t)) /\ DOMAIN t = 1..(n - 1)
  BY <1>3, OwnRange
<1>5. Head(ss) = ss[1]
  BY <1>2
<1>6. \A i \in 1..n : i = 1 \/ (i - 1 \in 1..(n - 1) /\ (i - 1) + 1 = i)
  BY <1>2
<1>7. \A i \in 1..n : ss[i] = ss[1] \/ ss[i] \in Range(t)
  <2>1. ASSUME NEW i \in 1..n, i # 1 PROVE ss[i] \in Range(t)
    <3>1. t[i - 1] = ss[i] /\ i - 1 \in DOMAIN t
      BY <2>1, <1>3, <1>4, <1>6
    <3>2. QED
      BY <3>1 DEF Range
  <2>2. QED
    BY <2>1
<1>8. \A i \in 1..(n - 1) : t[i] \in Range(ss)
  <2>1. \A i \in 1..(n - 1) : i + 1 \in DOMAIN ss
    BY <1>2
  <2>2. QED
    BY <2>1, <1>3 DEF Range
<1>9. ss[1] \in Range(ss)
  BY <1>2 DEF Range
<1>10. Range(ss) \subseteq {ss[1]} \cup Range(t)
  BY <1>2, <1>7 DEF Range
<1>11. Range(t) \subseteq Range(ss)
  BY <1>4, <1>8 DEF Range
<1>12. QED
  BY <1>1, <1>4, <1>5, <1>9, <1>10, <1>11

\* recStack is the set of the nodes of the path.
LEMMA RecStackIsPath == recStack = NodesOf(calls)
  BY DEF recStack, NodesOf

LEMMA InitSearches ==
    ASSUME SearchInit
    PROVE  SearchInv
<1>1. uses = <<>> /\ starts = <<>> /\ calls = <<>> /\ visited = {} /\ cycles = {} /\ found = <<>>
  BY DEF SearchInit
<1>2. DOMAIN uses = {} /\ DOMAIN found = {} /\ starts \in Seq(Range(starts)) /\ found \in Seq(Range(found))
  BY <1>1
<1>3. IsPath(uses, calls) /\ NodesOf(calls) = {} /\ DOMAIN calls = {}
  BY <1>1, NoCalls
<1>4. Settled(uses, {})
  BY DEF Settled, Acyclic
<1>5. QED
  BY <1>1, <1>2, <1>3, <1>4 DEF SearchInv, Readies, CyclesExact

LEMMA BeginKeeps ==
    ASSUME SearchInv, NEW g, NEW names, Searchable(g, names), BeginSearch(g, names)
    PROVE  SearchInv'
<1>1. /\ uses' = g /\ starts' = names /\ calls' = <<>> /\ visited' = {} /\ cycles' = {} /\ found' = found
  BY DEF BeginSearch
<1>2. Readies(g) /\ names \in Seq(Range(names)) /\ DOMAIN g \subseteq Range(names)
  BY DEF Searchable, Readies
<1>3. IsPath(g, calls') /\ NodesOf(calls') = {} /\ DOMAIN calls' = {}
  BY <1>1, NoCalls
<1>4. Settled(g, {})
  BY DEF Settled, Acyclic
<1>5. CyclesExact' /\ found' \in Seq(Range(found'))
  BY <1>1 DEF SearchInv, CyclesExact
<1>6. QED
  BY <1>1, <1>2, <1>3, <1>4, <1>5 DEF SearchInv

\* A new call of dfs: the node goes on the path, no node settles.
LEMMA VisitKeeps ==
    ASSUME SearchInv, NEW v, v \notin visited, Visit(v), UNCHANGED <<uses, cycles, found>>,
           calls # <<>> => LooksAt(uses, calls[Len(calls)], v),
           starts' \in Seq(Range(starts')), Range(starts) \subseteq {v} \cup Range(starts')
    PROVE  SearchInv'
<1>1. PICK g, t : g = uses /\ t = calls'
  OBVIOUS
<1>2. /\ Readies(g) /\ IsPath(g, calls) /\ v \notin NodesOf(calls)
      /\ calls # <<>> => LooksAt(g, calls[Len(calls)], v)
      /\ t = Push(calls, [node |-> v, at |-> 1])
  BY <1>1 DEF SearchInv, Visit, Push
<1>3. /\ IsPath(g, t) /\ NodesOf(t) = NodesOf(calls) \cup {v}
      /\ \A h \in DOMAIN t : t[h] = [node |-> v, at |-> 1] \/ (h \in DOMAIN calls /\ t[h] = calls[h])
  BY <1>2, PathGrows
<1>4. visited' = visited \cup {v} /\ visited' \ NodesOf(t) = visited \ NodesOf(calls)
  BY <1>3 DEF Visit
<1>5. ASSUME cycles' = {}
      PROVE  /\ Settled(g, visited' \ NodesOf(t))
             /\ \A h \in DOMAIN t : Passed(g, t[h], visited' \ NodesOf(t))
  <2>1. Settled(g, visited' \ NodesOf(t))
    BY <1>1, <1>4, <1>5 DEF SearchInv
  <2>2. ASSUME NEW h \in DOMAIN t PROVE Passed(g, t[h], visited' \ NodesOf(t))
    <3>1. CASE t[h] = [node |-> v, at |-> 1]
      BY <3>1 DEF Passed
    <3>2. CASE h \in DOMAIN calls /\ t[h] = calls[h]
      BY <3>2, <1>1, <1>4, <1>5 DEF SearchInv
    <3>3. QED
      BY <3>1, <3>2, <1>3
  <2>3. QED
    BY <2>1, <2>2
<1>6. NodesOf(t) \subseteq visited' /\ DOMAIN uses \subseteq visited' \cup Range(starts')
  BY <1>3, <1>4 DEF SearchInv
<1>7. /\ Readies(uses') /\ found' \in Seq(Range(found')) /\ CyclesExact'
      /\ \A c \in cycles' : IsCycle(uses', c)
  BY DEF SearchInv, CyclesExact
<1>8. QED
  BY <1>1, <1>3, <1>5, <1>6, <1>7 DEF SearchInv

LEMMA StartKeeps ==
    ASSUME SearchInv, StartFrom
    PROVE  SearchInv'
<1>1. starts \in Seq(Range(starts)) /\ starts # <<>>
  BY DEF SearchInv, StartFrom
<1>2. starts' \in Seq(Range(starts')) /\ Range(starts) = {Head(starts)} \cup Range(starts')
  BY <1>1, StartsFacts DEF StartFrom
<1>3. QED
  BY <1>2, VisitKeeps DEF StartFrom

LEMMA SkipKeeps ==
    ASSUME SearchInv, SkipStart
    PROVE  SearchInv'
<1>1. starts \in Seq(Range(starts)) /\ starts # <<>>
  BY DEF SearchInv, SkipStart
<1>2. starts' \in Seq(Range(starts')) /\ Range(starts) = {Head(starts)} \cup Range(starts')
  BY <1>1, StartsFacts DEF SkipStart
<1>3. DOMAIN uses \subseteq visited \cup Range(starts')
  BY <1>2 DEF SearchInv, SkipStart
<1>4. UNCHANGED <<uses, calls, visited, cycles, found>>
  BY DEF SkipStart
<1>5. CyclesExact'
  BY <1>4 DEF SearchInv, CyclesExact
<1>6. QED
  BY <1>2, <1>3, <1>4, <1>5 DEF SearchInv

\* The call on top looks at a neighbour.
LEMMA LooksAtNeighbour ==
    ASSUME SearchInv, AtNeighbour
    PROVE  /\ calls # <<>> /\ IsCall(uses, Here) /\ LooksAt(uses, Here, Neighbour)
           /\ Here = calls[Len(calls)] /\ Len(calls) \in DOMAIN calls
<1>1. Readies(uses) /\ IsPath(uses, calls) /\ calls # <<>>
  BY DEF SearchInv, AtNeighbour
<1>2. Len(calls) \in DOMAIN calls
  BY <1>1, PathFacts
<1>3. IsCall(uses, Here)
  BY <1>1, <1>2 DEF IsPath, Here
<1>4. Here.at \in DOMAIN Neighbours(uses, Here.node)
  BY <1>1, <1>3, NeighboursAreSeq DEF IsCall, AtNeighbour
<1>5. QED
  BY <1>1, <1>2, <1>3, <1>4 DEF LooksAt, Neighbour, Here

LEMMA VisitNeighbourKeeps ==
    ASSUME SearchInv, VisitNeighbour
    PROVE  SearchInv'
<1>1. LooksAt(uses, calls[Len(calls)], Neighbour)
  BY LooksAtNeighbour DEF VisitNeighbour
<1>2. starts' \in Seq(Range(starts')) /\ Range(starts) \subseteq {Neighbour} \cup Range(starts')
  BY DEF SearchInv, VisitNeighbour
<1>3. QED
  BY <1>1, <1>2, VisitKeeps DEF VisitNeighbour

LEMMA CloseKeeps ==
    ASSUME SearchInv, CloseCycle
    PROVE  SearchInv'
<1>1. PICK g, t, n, c : g = uses /\ t = calls' /\ n = Len(calls) /\ c = CycleTo(Neighbour)
  OBVIOUS
<1>2. UNCHANGED <<uses, starts, visited, found>> /\ cycles' = cycles \cup {c} /\ t = Advanced(calls)
  BY <1>1 DEF CloseCycle
<1>3. Readies(g) /\ IsPath(g, calls) /\ calls # <<>> /\ LooksAt(g, calls[n], Neighbour)
  BY <1>1, LooksAtNeighbour DEF SearchInv, CloseCycle
<1>4. /\ IsPath(g, t) /\ NodesOf(t) = NodesOf(calls) /\ DOMAIN t = DOMAIN calls /\ n \in DOMAIN calls
      /\ \A h \in DOMAIN t : h # n => t[h] = calls[h]
      /\ t[n] = [node |-> calls[n].node, at |-> calls[n].at + 1]
  <2>1. calls[n].at \in DOMAIN Neighbours(g, calls[n].node)
    BY <1>3 DEF LooksAt
  <2>2. QED
    BY <2>1, <1>1, <1>2, <1>3, PathAdvances
<1>5. IsCycle(uses, c)
  <2>1. Neighbour \in NodesOf(calls)
    BY RecStackIsPath DEF CloseCycle
  <2>2. QED
    BY <2>1, <1>1, <1>3, PathCloses
<1>6. \A d \in cycles' : IsCycle(uses', d)
  BY <1>2, <1>5 DEF SearchInv
<1>7. cycles' # {}
  BY <1>2
<1>8. CyclesExact' /\ found' \in Seq(Range(found')) /\ starts' \in Seq(Range(starts'))
  BY <1>2 DEF SearchInv, CyclesExact
<1>9. QED
  BY <1>1, <1>2, <1>3, <1>4, <1>6, <1>7, <1>8 DEF SearchInv

LEMMA PassKeeps ==
    ASSUME SearchInv, PassVisited
    PROVE  SearchInv'
<1>1. PICK g, t, n : g = uses /\ t = calls' /\ n = Len(calls)
  OBVIOUS
<1>2. UNCHANGED <<uses, starts, visited, cycles, found>> /\ t = Advanced(calls)
  BY <1>1 DEF PassVisited
<1>3. /\ Readies(g) /\ IsPath(g, calls) /\ calls # <<>> /\ LooksAt(g, calls[n], Neighbour)
      /\ IsCall(g, calls[n])
  BY <1>1, LooksAtNeighbour DEF SearchInv, PassVisited
<1>4. /\ IsPath(g, t) /\ NodesOf(t) = NodesOf(calls) /\ DOMAIN t = DOMAIN calls /\ n \in DOMAIN calls
      /\ \A h \in DOMAIN t : h # n => t[h] = calls[h]
      /\ t[n] = [node |-> calls[n].node, at |-> calls[n].at + 1]
  <2>1. calls[n].at \in DOMAIN Neighbours(g, calls[n].node)
    BY <1>3 DEF LooksAt
  <2>2. QED
    BY <2>1, <1>1, <1>2, <1>3, PathAdvances
<1>5. PICK ns : ns = visited \ NodesOf(calls)
  OBVIOUS
<1>6. Neighbour \in ns
  BY <1>5, RecStackIsPath DEF PassVisited
<1>7. ASSUME cycles = {}, NEW h \in DOMAIN t PROVE Passed(g, t[h], ns)
  <2>1. Passed(g, calls[h], ns)
    BY <1>1, <1>4, <1>5, <1>7 DEF SearchInv
  <2>2. CASE h = n
    BY <2>1, <2>2, <1>3, <1>4, <1>6, PassedOneMore DEF LooksAt
  <2>3. CASE h # n
    BY <2>1, <2>3, <1>4
  <2>4. QED
    BY <2>2, <2>3
<1>8. cycles = {} => Settled(g, ns)
  BY <1>1, <1>5 DEF SearchInv
<1>9. CyclesExact' /\ found' \in Seq(Range(found')) /\ starts' \in Seq(Range(starts'))
  BY <1>2 DEF SearchInv, CyclesExact
<1>10. \A c \in cycles' : IsCycle(uses', c)
  BY <1>2 DEF SearchInv
<1>11. NodesOf(t) \subseteq visited' /\ DOMAIN uses' \subseteq visited' \cup Range(starts')
  BY <1>2, <1>4 DEF SearchInv
<1>12. visited' \ NodesOf(t) = ns
  BY <1>2, <1>4, <1>5
<1>13. QED
  BY <1>1, <1>2, <1>3, <1>4, <1>7, <1>8, <1>9, <1>10, <1>11, <1>12 DEF SearchInv

\* A call returns: all neighbours of its node are settled, and so is it.
LEMMA LeaveKeeps ==
    ASSUME SearchInv, Leave
    PROVE  SearchInv'
<1>1. PICK g, n, u : g = uses /\ n = Len(calls) /\ u = calls[n].node
  OBVIOUS
<1>2. /\ UNCHANGED <<uses, starts, visited, cycles, found>>
      /\ calls' = IF n = 1 THEN <<>> ELSE Advanced(Front(calls))
  BY <1>1 DEF Leave
<1>3. /\ Readies(g) /\ IsPath(g, calls) /\ n \in DOMAIN calls /\ n \in Nat /\ n # 0
      /\ DOMAIN calls = 1..n
  BY <1>1, PathFacts DEF SearchInv, Leave
<1>4. IsCall(g, calls[n]) /\ calls[n].at > Len(Neighbours(g, u))
  BY <1>1, <1>3 DEF IsPath, Leave, Here
<1>5. PICK ns : ns = visited \ NodesOf(calls)
  OBVIOUS
<1>6. u \in NodesOf(calls) /\ u \in visited /\ u \notin ns
  BY <1>1, <1>3, <1>5 DEF NodesOf, SearchInv
<1>7. ASSUME cycles = {} PROVE Settled(g, ns \cup {u})
  <2>1. Settled(g, ns) /\ Passed(g, calls[n], ns)
    BY <1>1, <1>3, <1>5, <1>7 DEF SearchInv
  <2>2. Range(Neighbours(g, u)) \subseteq ns
    <3>1. DOMAIN Neighbours(g, u) = 1..Len(Neighbours(g, u)) /\ Len(Neighbours(g, u)) \in Nat
      BY <1>3, NeighboursAreSeq
    <3>2. calls[n].at \in Int
      BY <1>1, <1>4, <3>1 DEF IsCall
    <3>3. \A i \in DOMAIN Neighbours(g, u) : i \in 1..(calls[n].at - 1)
      BY <3>1, <3>2, <1>4
    <3>4. QED
      BY <3>3, <2>1, <1>1 DEF Passed, Range
  <2>3. QED
    BY <2>1, <2>2, <1>6, Settles
<1>8. PICK t : t = calls'
  OBVIOUS
<1>9. /\ IsPath(g, t) /\ NodesOf(t) = NodesOf(calls) \ {u}
      /\ cycles = {} => \A h \in DOMAIN t : Passed(g, t[h], ns \cup {u})
  <2>1. CASE n = 1
    <3>1. t = <<>>
      BY <2>1, <1>2, <1>8
    <3>2. NodesOf(calls) \ {u} = {}
      <4>1. DOMAIN calls = {n}
        BY <2>1, <1>3
      <4>2. QED
        BY <4>1, <1>1 DEF NodesOf
    <3>3. IsPath(g, t) /\ NodesOf(t) = {} /\ DOMAIN t = {}
      BY <3>1, NoCalls
    <3>4. QED
      BY <3>2, <3>3
  <2>2. CASE n # 1
    <3>1. PICK r : r = Front(calls)
      OBVIOUS
    <3>2. PICK cs : cs = calls
      OBVIOUS
    <3>a. IsPath(g, cs) /\ cs # <<>> /\ Len(cs) # 1 /\ r = Front(cs)
      BY <3>1, <3>2, <2>2, <1>1, <1>3, PathFacts
    <3>b. /\ IsPath(g, r) /\ r # <<>>
          /\ NodesOf(r) = NodesOf(cs) \ {cs[Len(cs)].node}
          /\ LooksAt(g, r[Len(r)], cs[Len(cs)].node)
          /\ DOMAIN r \subseteq DOMAIN cs
          /\ \A h \in DOMAIN r : r[h] = cs[h]
      BY <3>a, PathShrinks
    <3>3. PICK m : m = Len(r) /\ LooksAt(g, r[m], u)
      BY <3>2, <3>b, <1>1
    <3>4. r[m].at \in DOMAIN Neighbours(g, r[m].node) /\ t = Advanced(r)
      BY <3>1, <3>3, <2>2, <1>2, <1>8 DEF LooksAt
    <3>5. /\ IsPath(g, t) /\ NodesOf(t) = NodesOf(r) /\ DOMAIN t = DOMAIN r /\ m \in DOMAIN r
          /\ \A h \in DOMAIN t : h # m => t[h] = r[h]
          /\ t[m] = [node |-> r[m].node, at |-> r[m].at + 1]
      BY <3>b, <3>3, <3>4, <1>3, PathAdvances
    <3>6. ASSUME cycles = {}, NEW h \in DOMAIN t PROVE Passed(g, t[h], ns \cup {u})
      <4>1. h \in DOMAIN calls /\ r[h] = calls[h]
        BY <3>2, <3>b, <3>5, <3>6
      <4>2. Passed(g, r[h], ns)
        BY <4>1, <3>6, <1>1, <1>5 DEF SearchInv
      <4>3. Passed(g, r[h], ns \cup {u})
        BY <4>2, PassedMore
      <4>4. CASE h = m
        <5>1. IsCall(g, r[m]) /\ Neighbours(g, r[m].node)[r[m].at] \in ns \cup {u}
          BY <3>b, <3>3, <3>5 DEF LooksAt, IsPath
        <5>2. QED
          BY <5>1, <4>3, <4>4, <3>5, <1>3, PassedOneMore
      <4>5. CASE h # m
        BY <4>3, <4>5, <3>5, <3>6
      <4>6. QED
        BY <4>4, <4>5
    <3>7. NodesOf(t) = NodesOf(calls) \ {u}
      BY <3>2, <3>b, <3>5, <1>1
    <3>8. QED
      BY <3>5, <3>6, <3>7
  <2>3. QED
    BY <2>1, <2>2
<1>10. visited' \ NodesOf(t) = ns \cup {u}
  BY <1>2, <1>5, <1>6, <1>9
<1>11. NodesOf(t) \subseteq visited' /\ DOMAIN uses' \subseteq visited' \cup Range(starts')
  BY <1>2, <1>9 DEF SearchInv
<1>12. CyclesExact' /\ found' \in Seq(Range(found')) /\ starts' \in Seq(Range(starts'))
  BY <1>2 DEF SearchInv, CyclesExact
<1>13. \A c \in cycles' : IsCycle(uses', c)
  BY <1>2 DEF SearchInv
<1>14. ASSUME cycles' = {}
       PROVE  /\ Settled(uses', visited' \ NodesOf(calls'))
              /\ \A h \in DOMAIN calls' : Passed(uses', calls'[h], visited' \ NodesOf(calls'))
  <2>1. cycles = {} /\ uses' = g
    BY <1>1, <1>2, <1>14
  <2>2. QED
    BY <2>1, <1>7, <1>8, <1>9, <1>10
<1>15. Readies(uses') /\ IsPath(uses', calls') /\ NodesOf(calls') \subseteq visited'
  BY <1>1, <1>2, <1>3, <1>8, <1>9, <1>11
<1>16. QED
  BY <1>11, <1>12, <1>13, <1>14, <1>15 DEF SearchInv

\* The search ends: every node that has neighbours has settled.
LEMMA EndKeeps ==
    ASSUME SearchInv, EndSearch
    PROVE  SearchInv'
<1>1. PICK g, cs, e : g = uses /\ cs = cycles /\ e = [uses |-> g, cycles |-> cs]
  OBVIOUS
<1>2. e.uses = g /\ e.cycles = cs
  BY <1>1
<1>3. cs = {} => Acyclic(g, DOMAIN g)
  <2>1. calls = <<>> /\ starts = <<>>
    BY DEF EndSearch
  <2>2. NodesOf(calls) = {} /\ Range(starts) = {}
    BY <2>1, NoCalls DEF Range
  <2>3. DOMAIN g \in SUBSET visited /\ visited \ NodesOf(calls) = visited
    BY <2>2, <1>1 DEF SearchInv
  <2>4. cs = {} => Acyclic(g, visited)
    BY <2>3, <1>1 DEF SearchInv, Settled
  <2>5. QED
    BY <2>3, <2>4, SettledPart
<1>4. \A c \in cs : IsCycle(g, c)
  BY <1>1 DEF SearchInv
<1>5. PICK s, t : s = found /\ t = found'
  OBVIOUS
<1>6. s \in Seq(Range(s)) /\ t = Push(s, e)
  BY <1>1, <1>5 DEF SearchInv, EndSearch, Push
<1>7. /\ t \in Seq(Range(t)) /\ Len(t) = Len(s) + 1 /\ Len(s) \in Nat
      /\ DOMAIN t = 1..(Len(s) + 1) /\ DOMAIN s = 1..Len(s)
      /\ \A h \in 1..Len(s) : t[h] = s[h]
      /\ t[Len(s) + 1] = e
      /\ t # <<>>
  BY <1>6, Pushed
<1>8. CyclesExact'
  <2>1. ASSUME NEW i \in DOMAIN t
        PROVE  /\ \A c \in t[i].cycles : IsCycle(t[i].uses, c)
               /\ t[i].cycles = {} => Acyclic(t[i].uses, DOMAIN t[i].uses)
    <3>1. CASE i = Len(s) + 1
      BY <3>1, <1>2, <1>3, <1>4, <1>7
    <3>2. CASE i # Len(s) + 1
      <4>1. i \in DOMAIN s /\ t[i] = s[i]
        BY <3>2, <1>7
      <4>2. QED
        BY <4>1, <1>5 DEF SearchInv, CyclesExact
    <3>3. QED
      BY <3>1, <3>2
  <2>2. QED
    BY <2>1, <1>5 DEF CyclesExact
<1>9. uses' = <<>> /\ visited' = {} /\ cycles' = {} /\ calls' = <<>> /\ starts' = <<>>
  BY DEF EndSearch
<1>10. IsPath(uses', calls') /\ NodesOf(calls') = {} /\ DOMAIN calls' = {} /\ DOMAIN uses' = {}
  BY <1>9, NoCalls
<1>11. Settled(uses', {})
  BY DEF Settled, Acyclic
<1>12. starts' \in Seq(Range(starts'))
  BY <1>9
<1>13. QED
  BY <1>5, <1>7, <1>8, <1>9, <1>10, <1>11, <1>12 DEF SearchInv, Readies

LEMMA SearchStutters ==
    ASSUME SearchInv, UNCHANGED searchVars
    PROVE  SearchInv'
<1>1. UNCHANGED <<uses, starts, calls, visited, cycles, found>>
  BY DEF searchVars
<1>2. CyclesExact'
  BY <1>1 DEF SearchInv, CyclesExact
<1>3. QED
  BY <1>1, <1>2 DEF SearchInv

\* The search for cycles, on every graph and from every sequence of nodes that
\* has the graph's: what it reports are cycles, and when it reports none there
\* is none.  A node is left only when all its neighbours have been, or when a
\* cycle was found; so without one the nodes that were left are closed under
\* edges and the order in which they were left is a topological one.
\* detectStepCycles and findPrimitiveCycles (validate.go).
THEOREM SearchCorrect == SearchSpec => []CyclesExact
<1>1. SearchInit => SearchInv
  BY InitSearches
<1>2. SearchInv /\ [SearchNext]_searchVars => SearchInv'
  <2>1. SUFFICES ASSUME SearchInv, [SearchNext]_searchVars PROVE SearchInv'
    OBVIOUS
  <2>2. CASE \E g, names : Searchable(g, names) /\ BeginSearch(g, names)
    BY <2>1, <2>2, BeginKeeps
  <2>3. CASE SearchStep
    <3>1. CASE StartFrom
      BY <2>1, <3>1, StartKeeps
    <3>2. CASE SkipStart
      BY <2>1, <3>2, SkipKeeps
    <3>3. CASE VisitNeighbour
      BY <2>1, <3>3, VisitNeighbourKeeps
    <3>4. CASE CloseCycle
      BY <2>1, <3>4, CloseKeeps
    <3>5. CASE PassVisited
      BY <2>1, <3>5, PassKeeps
    <3>6. CASE Leave
      BY <2>1, <3>6, LeaveKeeps
    <3>7. QED
      BY <2>3, <3>1, <3>2, <3>3, <3>4, <3>5, <3>6 DEF SearchStep
  <2>4. CASE EndSearch
    BY <2>1, <2>4, EndKeeps
  <2>5. CASE UNCHANGED searchVars
    BY <2>1, <2>5, SearchStutters
  <2>6. QED
    BY <2>1, <2>2, <2>3, <2>4, <2>5 DEF SearchNext
<1>3. SearchInv => CyclesExact
  BY DEF SearchInv
<1>4. QED
  BY <1>1, <1>2, <1>3, PTL DEF SearchSpec

-----------------------------------------------------------------------------
(* The search for cycles ends *)

RangesOf(g) == {Range(g[u]) : u \in DOMAIN g}

LEMMA RangeIsFinite ==
    ASSUME NEW s, s \in Seq(Range(s))
    PROVE  IsFiniteSet(Range(s))
<1>1. Len(s) \in Nat /\ DOMAIN s = 1..Len(s)
  BY OwnRange
<1>2. IsFiniteSet(1..Len(s))
  BY <1>1, FS_Interval
<1>3. s \in [1..Len(s) -> Range(s)]
  BY <1>1
<1>4. s \in Surjection(1..Len(s), Range(s))
  BY <1>1, <1>3 DEF Surjection, Range
<1>5. QED
  BY <1>2, <1>4, FS_Surjection

\* The nodes that a search may come to.
LEMMA KnownIsFinite ==
    ASSUME NEW g, Readies(g), IsFiniteSet(DOMAIN g), NEW names, names \in Seq(Range(names))
    PROVE  IsFiniteSet(DOMAIN g \cup (UNION RangesOf(g)) \cup Range(names))
<1>1. PICK f : f = [u \in DOMAIN g |-> Range(g[u])]
  OBVIOUS
<1>2. f \in Surjection(DOMAIN g, RangesOf(g))
  BY <1>1 DEF Surjection, RangesOf
<1>3. IsFiniteSet(RangesOf(g))
  BY <1>2, FS_Surjection
<1>4. \A r \in RangesOf(g) : IsFiniteSet(r)
  BY RangeIsFinite DEF RangesOf, Readies
<1>5. IsFiniteSet(UNION RangesOf(g))
  BY <1>3, <1>4, FS_UNION
<1>6. IsFiniteSet(DOMAIN g \cup (UNION RangesOf(g)))
  BY <1>5, FS_Union
<1>7. QED
  BY <1>6, RangeIsFinite, FS_Union

FiniteInv == IsFiniteSet(DOMAIN uses)

LEMMA KnownFacts ==
    ASSUME SearchInv, FiniteInv
    PROVE  /\ Known = DOMAIN uses \cup (UNION RangesOf(uses)) \cup Range(starts)
           /\ IsFiniteSet(Known \ visited) /\ Cardinality(Known \ visited) \in Nat
<1>1. Known = DOMAIN uses \cup (UNION RangesOf(uses)) \cup Range(starts)
  BY DEF Known, RangesOf
<1>2. Readies(uses) /\ starts \in Seq(Range(starts))
  BY DEF SearchInv
<1>3. IsFiniteSet(Known)
  BY <1>1, <1>2, KnownIsFinite DEF FiniteInv
<1>4. IsFiniteSet(Known \ visited)
  BY <1>3, FS_Subset
<1>5. QED
  BY <1>1, <1>4, FS_CardinalityType

\* One node less to come to.
LEMMA OneVisited ==
    ASSUME NEW S, IsFiniteSet(S), NEW v \in S, NEW T, T \subseteq S \ {v}
    PROVE  Cardinality(T) \in Nat /\ Cardinality(S) \in Nat /\ Cardinality(T) < Cardinality(S)
<1>1. Cardinality(S) \in Nat
  BY FS_CardinalityType
<1>2. IsFiniteSet(S \ {v}) /\ Cardinality(S \ {v}) = Cardinality(S) - 1
  BY FS_RemoveElement
<1>3. IsFiniteSet(T) /\ Cardinality(T) <= Cardinality(S \ {v})
  BY <1>2, FS_Subset
<1>4. Cardinality(T) \in Nat
  BY <1>3, FS_CardinalityType
<1>5. QED
  BY <1>1, <1>2, <1>3, <1>4

\* The order of the four parts.
LEMMA LessOfFour ==
    ASSUME NEW a, NEW b, NEW c, NEW d, NEW e, NEW f, NEW g, NEW h,
           \/ a \in Nat /\ e \in Nat /\ a < e
           \/ a = e /\ b \in Nat /\ f \in Nat /\ b < f
           \/ a = e /\ b = f /\ c \in Nat /\ g \in Nat /\ c < g
           \/ a = e /\ b = f /\ c = g /\ d \in Nat /\ h \in Nat /\ d < h
    PROVE  Less(<<a, b, c, d>>, <<e, f, g, h>>)
<1>1. PICK x, y : x = <<a, b, c, d>> /\ y = <<e, f, g, h>>
  OBVIOUS
<1>2. /\ DOMAIN x = 1..4 /\ DOMAIN y = 1..4
      /\ x[1] = a /\ x[2] = b /\ x[3] = c /\ x[4] = d
      /\ y[1] = e /\ y[2] = f /\ y[3] = g /\ y[4] = h
  BY <1>1
<1>3. \A i \in 1..4 : i = 1 \/ i = 2 \/ i = 3 \/ i = 4
  OBVIOUS
<1>4. CASE a \in Nat /\ e \in Nat /\ a < e
  <2>1. 1 \in DOMAIN x /\ \A j \in DOMAIN x : ~(j < 1)
    BY <1>2
  <2>2. QED
    BY <2>1, <1>1, <1>2, <1>4 DEF Less
<1>5. CASE a = e /\ b \in Nat /\ f \in Nat /\ b < f
  <2>1. 2 \in DOMAIN x /\ \A j \in DOMAIN x : j < 2 => j = 1
    BY <1>2
  <2>2. QED
    BY <2>1, <1>1, <1>2, <1>5 DEF Less
<1>6. CASE a = e /\ b = f /\ c \in Nat /\ g \in Nat /\ c < g
  <2>1. 3 \in DOMAIN x /\ \A j \in DOMAIN x : j < 3 => j = 1 \/ j = 2
    BY <1>2
  <2>2. QED
    BY <2>1, <1>1, <1>2, <1>6 DEF Less
<1>7. CASE a = e /\ b = f /\ c = g /\ d \in Nat /\ h \in Nat /\ d < h
  <2>1. 4 \in DOMAIN x /\ \A j \in DOMAIN x : j < 4 => j = 1 \/ j = 2 \/ j = 3
    BY <1>2
  <2>2. QED
    BY <2>1, <1>1, <1>2, <1>7 DEF Less
<1>8. QED
  BY <1>4, <1>5, <1>6, <1>7

\* What is left in the call on top.
LeftHere == IF calls = <<>> THEN 0 ELSE Len(Neighbours(uses, Here.node)) + 1 - Here.at

LEMMA VisitIsLess ==
    ASSUME SearchInv, FiniteInv, NEW v \in Known \ visited, visited' = visited \cup {v}, uses' = uses,
           Range(starts') \subseteq Range(starts)
    PROVE  Less(SearchLeft', SearchLeft)
<1>1. PICK S, T : S = Known \ visited /\ T = (Known \ visited)'
  OBVIOUS
<1>2. IsFiniteSet(S) /\ v \in S
  BY <1>1, KnownFacts
<1>3. T \subseteq S \ {v}
  BY <1>1 DEF Known
<1>4. Cardinality(T) \in Nat /\ Cardinality(S) \in Nat /\ Cardinality(T) < Cardinality(S)
  BY <1>2, <1>3, OneVisited
<1>5. PICK b, c, d, f, g, h : /\ SearchLeft' = <<Cardinality(T), b, c, d>>
                              /\ SearchLeft = <<Cardinality(S), f, g, h>>
  BY <1>1 DEF SearchLeft
<1>6. QED
  BY <1>4, <1>5, LessOfFour

\* The call on top goes on.
LEMMA NextNeighbourIsLess ==
    ASSUME SearchInv, AtNeighbour, UNCHANGED <<uses, starts, visited>>, calls' = Advanced(calls)
    PROVE  Less(SearchLeft', SearchLeft)
<1>1. PICK g, t, n, x : g = uses /\ t = calls' /\ n = Len(calls) /\ x = calls[n]
  OBVIOUS
<1>2. Readies(g) /\ IsPath(g, calls) /\ calls # <<>> /\ LooksAt(g, calls[n], Neighbour) /\ IsCall(g, x)
  BY <1>1, LooksAtNeighbour DEF SearchInv
<1>3. /\ IsPath(g, t) /\ NodesOf(t) = NodesOf(calls) /\ DOMAIN t = DOMAIN calls /\ n \in DOMAIN calls
      /\ \A h \in DOMAIN t : h # n => t[h] = calls[h]
      /\ t[n] = [node |-> calls[n].node, at |-> calls[n].at + 1]
  <2>1. calls[n].at \in DOMAIN Neighbours(g, calls[n].node) /\ t = Advanced(calls)
    BY <1>1, <1>2 DEF LooksAt
  <2>2. QED
    BY <2>1, <1>1, <1>2, PathAdvances
<1>4. Len(t) = n /\ t # <<>>
  <2>1. Len(t) \in Nat /\ DOMAIN t = 1..Len(t) /\ (t # <<>> <=> Len(t) >= 1)
    BY <1>3, PathFacts
  <2>2. n \in Nat /\ DOMAIN calls = 1..n /\ n >= 1
    BY <1>1, <1>2, PathFacts
  <2>3. 1..Len(t) = 1..n
    BY <2>1, <2>2, <1>3
  <2>4. Len(t) = n
    <3>1. PICK k : k = Len(t)
      OBVIOUS
    <3>2. k \in Nat /\ n \in Nat /\ n >= 1 /\ 1..k = 1..n
      BY <3>1, <2>1, <2>2, <2>3
    <3>3. n \in 1..n /\ n \in 1..k /\ k >= 1
      BY <3>2
    <3>4. k \in 1..k /\ k \in 1..n
      BY <3>2, <3>3
    <3>5. k = n
      BY <3>2, <3>3, <3>4
    <3>6. QED
      BY <3>1, <3>5
  <2>5. QED
    BY <2>1, <2>2, <2>4
<1>5. PICK k : k = Len(Neighbours(g, x.node))
  OBVIOUS
<1>6. k \in Nat /\ x.at \in 1..k
  <2>1. DOMAIN Neighbours(g, x.node) = 1..k /\ k \in Nat
    BY <1>2, <1>5, NeighboursAreSeq
  <2>2. QED
    BY <2>1, <1>1, <1>2 DEF LooksAt
<1>7. LeftHere = k + 1 - x.at
  BY <1>1, <1>2, <1>5 DEF LeftHere, Here
<1>8. LeftHere' = k + 1 - (x.at + 1)
  <2>1. Here' = t[n]
    BY <1>1, <1>4 DEF Here
  <2>2. Here'.node = x.node /\ Here'.at = x.at + 1
    BY <2>1, <1>1, <1>3
  <2>3. calls' # <<>> /\ uses' = g
    BY <1>1, <1>4
  <2>4. Len(Neighbours(uses', Here'.node)) = k
    BY <2>2, <2>3, <1>5
  <2>5. QED
    BY <2>2, <2>3, <2>4 DEF LeftHere
<1>9. PICK d, h : d = LeftHere' /\ h = LeftHere
  OBVIOUS
<1>10. d \in Nat /\ h \in Nat /\ d < h
  BY <1>6, <1>7, <1>8, <1>9
<1>11. PICK a, b : /\ SearchLeft' = <<a, b, n, d>> /\ SearchLeft = <<a, b, n, h>>
  <2>1. (Known \ visited)' = Known \ visited
    BY DEF Known
  <2>2. SearchLeft' = <<Cardinality((Known \ visited)'), Len(starts'), Len(calls'), LeftHere'>>
    BY DEF SearchLeft, LeftHere
  <2>3. SearchLeft = <<Cardinality(Known \ visited), Len(starts), Len(calls), LeftHere>>
    BY DEF SearchLeft, LeftHere
  <2>4. QED
    BY <2>1, <2>2, <2>3, <1>1, <1>4, <1>9
<1>12. QED
  BY <1>10, <1>11, LessOfFour

LEMMA LeaveIsLess ==
    ASSUME SearchInv, Leave
    PROVE  Less(SearchLeft', SearchLeft)
<1>1. PICK n : n = Len(calls)
  OBVIOUS
<1>2. UNCHANGED <<uses, starts, visited>> /\ calls' = IF n = 1 THEN <<>> ELSE Advanced(Front(calls))
  BY <1>1 DEF Leave
<1>3. PICK s : s = calls
  OBVIOUS
<1>4. s \in Seq(Range(s)) /\ s # <<>> /\ n \in Nat /\ n >= 1 /\ n = Len(s)
  BY <1>1, <1>3, PathFacts DEF SearchInv, Leave
<1>5. Len(calls') = n - 1
  <2>1. CASE n = 1
    BY <2>1, <1>2
  <2>2. CASE n # 1
    <3>1. PICK r : r = Front(s)
      OBVIOUS
    <3>2. /\ r \in Seq(Range(r)) /\ Len(r) = Len(s) - 1 /\ Len(s) \in Nat \ {0}
          /\ DOMAIN r = 1..(Len(s) - 1) /\ DOMAIN s = 1..Len(s)
          /\ \A h \in 1..(Len(s) - 1) : r[h] = s[h]
      BY <3>1, <1>4, Popped
    <3>3. PICK m, e : m = Len(r) /\ e = [r[m] EXCEPT !.at = @ + 1]
      OBVIOUS
    <3>4. calls' = Put(r, m, e)
      BY <3>1, <3>3, <2>2, <1>2, <1>3 DEF Advanced, Put
    <3>5. m \in DOMAIN r /\ r \in Seq(Range(r))
      BY <3>2, <3>3, <2>2, <1>4
    <3>6. Len(calls') = Len(r)
      BY <3>4, <3>5, Changed
    <3>7. QED
      BY <3>2, <3>6, <1>4
  <2>3. QED
    BY <2>1, <2>2
<1>6. PICK a, b, d, h : SearchLeft' = <<a, b, n - 1, d>> /\ SearchLeft = <<a, b, n, h>>
  <2>1. (Known \ visited)' = Known \ visited
    BY <1>2 DEF Known
  <2>2. SearchLeft' = <<Cardinality((Known \ visited)'), Len(starts'), Len(calls'), LeftHere'>>
    BY DEF SearchLeft, LeftHere
  <2>3. SearchLeft = <<Cardinality(Known \ visited), Len(starts), Len(calls), LeftHere>>
    BY DEF SearchLeft, LeftHere
  <2>4. QED
    BY <2>1, <2>2, <2>3, <1>1, <1>2, <1>5
<1>7. n - 1 \in Nat /\ n \in Nat /\ n - 1 < n
  BY <1>4
<1>8. QED
  BY <1>6, <1>7, LessOfFour

LEMMA SkipIsLess ==
    ASSUME SearchInv, SkipStart
    PROVE  Less(SearchLeft', SearchLeft)
<1>1. starts \in Seq(Range(starts)) /\ starts # <<>> /\ starts' = Tail(starts)
  BY DEF SearchInv, SkipStart
<1>2. Range(starts) = {Head(starts)} \cup Range(starts')
  BY <1>1, StartsFacts
<1>3. (Known \ visited)' = Known \ visited
  BY <1>2 DEF Known, SkipStart
<1>4. PICK f : f = Len(starts)
  OBVIOUS
<1>5. Len(starts') = f - 1 /\ f \in Nat /\ f >= 1
  BY <1>1, <1>4, OwnRange
<1>6. PICK a, c, d, g, h : SearchLeft' = <<a, f - 1, c, d>> /\ SearchLeft = <<a, f, g, h>>
  <2>1. SearchLeft' = <<Cardinality((Known \ visited)'), Len(starts'), Len(calls'), LeftHere'>>
    BY DEF SearchLeft, LeftHere
  <2>2. SearchLeft = <<Cardinality(Known \ visited), Len(starts), Len(calls), LeftHere>>
    BY DEF SearchLeft, LeftHere
  <2>3. QED
    BY <2>1, <2>2, <1>3, <1>4, <1>5
<1>7. f - 1 \in Nat /\ f \in Nat /\ f - 1 < f
  BY <1>5
<1>8. QED
  BY <1>6, <1>7, LessOfFour

LEMMA SearchNearsItsEnd ==
    ASSUME SearchInv, FiniteInv, SearchStep
    PROVE  Less(SearchLeft', SearchLeft)
<1>1. CASE StartFrom
  <2>1. starts \in Seq(Range(starts)) /\ starts # <<>> /\ starts' = Tail(starts)
    BY <1>1 DEF SearchInv, StartFrom
  <2>2. Range(starts) = {Head(starts)} \cup Range(starts')
    BY <2>1, StartsFacts
  <2>3. Head(starts) \in Known \ visited
    BY <2>2, <1>1 DEF Known, StartFrom
  <2>4. Range(starts') \subseteq Range(starts) /\ visited' = visited \cup {Head(starts)} /\ uses' = uses
    BY <2>2, <1>1 DEF StartFrom, Visit
  <2>5. QED
    BY <2>3, <2>4, VisitIsLess
<1>2. CASE VisitNeighbour
  <2>1. PICK g, v, x : g = uses /\ v = Neighbour /\ x = Here
    OBVIOUS
  <2>2. x.at \in DOMAIN Neighbours(g, x.node) /\ Neighbours(g, x.node)[x.at] = v
    BY <2>1, <1>2, LooksAtNeighbour DEF VisitNeighbour, LooksAt
  <2>3. x.node \in DOMAIN g
    BY <2>2 DEF Neighbours
  <2>4. v \in Range(g[x.node])
    BY <2>2, <2>3 DEF Neighbours, Range
  <2>5. v \in Known
    BY <2>1, <2>3, <2>4 DEF Known
  <2>6. v \in Known \ visited /\ visited' = visited \cup {v} /\ uses' = uses /\ Range(starts') \subseteq Range(starts)
    BY <2>1, <2>5, <1>2 DEF VisitNeighbour, Visit
  <2>7. QED
    BY <2>6, VisitIsLess
<1>3. CASE SkipStart
  BY <1>3, SkipIsLess
<1>4. CASE CloseCycle
  BY <1>4, NextNeighbourIsLess DEF CloseCycle
<1>5. CASE PassVisited
  BY <1>5, NextNeighbourIsLess DEF PassVisited
<1>6. CASE Leave
  BY <1>6, LeaveIsLess
<1>7. QED
  BY <1>1, <1>2, <1>3, <1>4, <1>5, <1>6 DEF SearchStep

LEMMA SearchNextKeeps ==
    ASSUME SearchInv, SearchNext
    PROVE  SearchInv'
  BY BeginKeeps, StartKeeps, SkipKeeps, VisitNeighbourKeeps, CloseKeeps, PassKeeps, LeaveKeeps, EndKeeps
  DEF SearchNext, SearchStep

LEMMA FiniteKept ==
    ASSUME FiniteInv, [SearchNext]_searchVars
    PROVE  FiniteInv'
<1>1. CASE \E g, names : Searchable(g, names) /\ BeginSearch(g, names)
  <2>1. PICK g, names : Searchable(g, names) /\ BeginSearch(g, names)
    BY <1>1
  <2>2. names \in Seq(Range(names)) /\ DOMAIN g \subseteq Range(names) /\ uses' = g
    BY <2>1 DEF Searchable, BeginSearch
  <2>3. IsFiniteSet(Range(names))
    BY <2>2, RangeIsFinite
  <2>4. IsFiniteSet(DOMAIN g)
    BY <2>2, <2>3, FS_Subset
  <2>5. QED
    BY <2>2, <2>4 DEF FiniteInv
<1>2. CASE SearchStep
  BY <1>2 DEF SearchStep, StartFrom, SkipStart, VisitNeighbour, CloseCycle, PassVisited, Leave, FiniteInv
<1>3. CASE EndSearch
  <2>1. DOMAIN uses' = {}
    BY <1>3 DEF EndSearch
  <2>2. QED
    BY <2>1, FS_EmptySet DEF FiniteInv
<1>4. CASE UNCHANGED searchVars
  BY <1>4 DEF searchVars, FiniteInv
<1>5. QED
  BY <1>1, <1>2, <1>3, <1>4 DEF SearchNext

\* Every search ends, whatever its graph: each of its steps makes what is left
\* of it less.  A node is visited once, there are finitely many, and a call
\* goes through its neighbours once.  detectStepCycles and findPrimitiveCycles
\* (validate.go).
THEOREM SearchesEnd == SearchSpec => SearchAdvances
<1>1. SearchInit => SearchInv /\ FiniteInv
  <2>1. SUFFICES ASSUME SearchInit PROVE SearchInv /\ FiniteInv
    OBVIOUS
  <2>2. DOMAIN uses = {}
    BY <2>1 DEF SearchInit
  <2>3. QED
    BY <2>1, <2>2, InitSearches, FS_EmptySet DEF FiniteInv
<1>2. SearchInv /\ FiniteInv /\ [SearchNext]_searchVars => (SearchInv /\ FiniteInv)'
  BY SearchNextKeeps, SearchStutters, FiniteKept
<1>3. SearchInv /\ FiniteInv /\ [SearchNext]_searchVars
        => [SearchStep => Less(SearchLeft', SearchLeft)]_searchVars
  BY SearchNearsItsEnd
<1>4. QED
  BY <1>1, <1>2, <1>3, PTL DEF SearchSpec, SearchAdvances
=============================================================================
