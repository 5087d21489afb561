---------------------------- MODULE ExecutionLog ----------------------------
(***************************************************************************)
(* The controller's execution store (internal/state/store.go): an          *)
(* append-only SQLite table read back by three queries.  A log is a        *)
(* sequence of rows in id order; the queries are pure operators over it.   *)
(*                                                                         *)
(* A row keeps the columns the controller's decisions depend on.  The      *)
(* content hash, the timestamp and the JSON inputs are left out; of the    *)
(* change set only "has it any change" (totalChanges > 0) is read back.    *)
(* The field run is a ghost: the number of the command that wrote the row, *)
(* which the table does not have.                                          *)
(***************************************************************************)
EXTENDS Integers, Sequences

\* The statuses the controller writes (the schema comment also lists
\* "pending" and "blocked", which no code writes).
Status == {"skipped", "applied", "partial", "failed", "rolled_back"}

\* Record: one INSERT.
Record(log, row) == Append(log, row)

\* The largest id of a non-empty set: ORDER BY id DESC LIMIT 1.
Newest(ids) == CHOOSE i \in ids : \A j \in ids : j <= i

RowsOf(log, n, t) ==
  {i \in DOMAIN log : log[i].node = n /\ log[i].target = t}

\* LatestExecution finds a row / the row it returns, whatever its status.
HasExecution(log, n, t) == RowsOf(log, n, t) # {}
LatestExecution(log, n, t) == log[Newest(RowsOf(log, n, t))]

\* LastRun: the ids of every row that has the plan hash of the newest row.
LastRun(log) ==
  {i \in DOMAIN log : log[i].plan = log[Len(log)].plan}
=============================================================================
