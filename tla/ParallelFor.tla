---------------------------- MODULE ParallelFor ----------------------------
(***************************************************************************)
(* What ParallelExecutor::run promises its caller, without chunks, cursor, *)
(* buffers or barrier: a call of n tasks begins and ends each of them      *)
(* exactly once, the shared table does not change while any may read it,   *)
(* and when the call returns the table has absorbed every key that a task  *)
(* computed.                                                               *)
(***************************************************************************)
EXTENDS Integers

CONSTANTS
  Keys,       \* keys of the shared table
  MaxTasks    \* the most tasks one call passes

VARIABLES
  running,    \* a call has not returned
  pending,    \* tasks of the call that have not begun
  busy,       \* tasks that have begun and not ended
  computed,   \* keys missing from the table that tasks have computed
  table       \* keys of the shared table

vars == <<running, pending, busy, computed, table>>

Init ==
  /\ running = FALSE
  /\ pending = {} /\ busy = {}
  /\ computed = {} /\ table = {}

Call(n) ==
  /\ ~ running
  /\ running' = TRUE
  /\ pending' = 0 .. n - 1
  /\ UNCHANGED <<busy, computed, table>>

Begin(t) ==
  /\ t \in pending
  /\ pending' = pending \ {t}
  /\ busy' = busy \cup {t}
  /\ UNCHANGED <<running, computed, table>>

Compute(k) ==
  /\ busy # {}
  /\ k \notin table
  /\ computed' = computed \cup {k}
  /\ UNCHANGED <<running, pending, busy, table>>

End(t) ==
  /\ t \in busy
  /\ busy' = busy \ {t}
  /\ UNCHANGED <<running, pending, computed, table>>

Return ==
  /\ running /\ pending = {} /\ busy = {}
  /\ running' = FALSE
  /\ table' = table \cup computed
  /\ computed' = {}
  /\ UNCHANGED <<pending, busy>>

\* Between two calls the caller itself may add a key.
Write(k) ==
  /\ ~ running
  /\ table' = table \cup {k}
  /\ UNCHANGED <<running, pending, busy, computed>>

Next ==
  \/ \E n \in 1 .. MaxTasks : Call(n)
  \/ \E t \in 0 .. MaxTasks - 1 : Begin(t) \/ End(t)
  \/ \E k \in Keys : Compute(k) \/ Write(k)
  \/ Return

Spec == Init /\ [][Next]_vars
=============================================================================
