------------------------------ MODULE Progress ------------------------------
(***************************************************************************)
(* What is left of a computation, written as a sequence: the part that is  *)
(* done last comes last, and may grow when one before it shrinks.  A part  *)
(* that is not begun can come to any amount of work.                       *)
(***************************************************************************)
EXTENDS Integers

NotYet == -1

\* a is less than b: there is no endless sequence of which each is less than
\* the one before.
Less(a, b) ==
  /\ DOMAIN a = DOMAIN b
  /\ \E i \in DOMAIN a :
       /\ a[i] \in Nat /\ (b[i] = NotYet \/ (b[i] \in Nat /\ a[i] < b[i]))
       /\ \A j \in DOMAIN a : j < i => a[j] = b[j]
=============================================================================
