-------------------------- MODULE ParallelExecutor --------------------------
(***************************************************************************)
(* ParallelExecutor::run (algo_parallel_executor.cpp) over the shared node *)
(* time-window table (pdm_cache_time_window.cpp).  A call forks chunks     *)
(* that claim task indices from one atomic cursor; each chunk writes the   *)
(* lists it misses to a buffer of its own, and after the join the calling  *)
(* thread archives the buffers one by one into the table.                  *)
(*                                                                         *)
(* Abstracted: what a task computes; the three maps (pick, drop, other)    *)
(* are one, as a key names its map; a vector of TimeWindow objects is one  *)
(* list, named by who created it and for which key.                        *)
(***************************************************************************)
EXTENDS Integers, FiniteSets

CONSTANTS
  WorkerCount,   \* the constructor's argument; <= 0 asks for the default
  MaxTasks,      \* bound: the most tasks one call passes
  Keys           \* the node time-window keys

ASSUME WorkersAssumption == WorkerCount \in Int

ASSUME TasksAssumption == MaxTasks \in Nat

AtLeast(a, b) == IF a < b THEN b ELSE a

AtMost(a, b) == IF a < b THEN a ELSE b

\* Counted from the number asked for, not from the threads the pool has.
ChunkCount(n) == AtMost(n, AtLeast(WorkerCount, 1) + 1)

Chunks == 0 .. AtLeast(WorkerCount, 1)

Serial == -1   \* the calling thread, as creator of a list

Lists == (Chunks \cup {Serial}) \X Keys

VARIABLES
  phase,       \* the calling thread: between calls, in sync_wait, archiving
  taskCount,   \* task_count of the current call
  cursor,      \* the atomic cursor of the current call
  at,          \* where each chunk is
  task,        \* the index each chunk claimed last
  want,        \* keys the chunk's task has yet to look up
  using,       \* the list the chunk's inference reads
  buffers,     \* the lists of each chunk's store buffer
  frozen,      \* the lists of the shared table
  freed,       \* lists that were deleted
  parallel,    \* the table's parallel flag
  archived     \* how many buffers the call has archived

chunkVars == <<cursor, at, task, want, using>>

vars == <<phase, taskCount, chunkVars, buffers, frozen, freed, parallel, archived>>

Phases == {"serial", "parallel", "archive", "failed"}

TypeOK ==
  /\ phase \in Phases
  /\ taskCount \in 0 .. MaxTasks
  /\ cursor \in Nat
  /\ at \in [Chunks -> {"claim", "run", "done"}]
  /\ task \in [Chunks -> Nat]
  /\ \A c \in Chunks : at[c] = "run" => task[c] < taskCount
  /\ want \in [Chunks -> SUBSET Keys]
  /\ using \in [Chunks -> SUBSET Lists]
  /\ buffers \in [Chunks -> SUBSET Lists]
  /\ frozen \subseteq Lists
  /\ freed \subseteq Lists
  /\ parallel \in BOOLEAN
  /\ archived \in 0 .. AtLeast(WorkerCount, 1) + 1

\* Chunks beyond the call's chunk_count do not exist: they are "done".
Init ==
  /\ phase = "serial"
  /\ taskCount = 0 /\ cursor = 0 /\ archived = 0
  /\ at = [c \in Chunks |-> "done"]
  /\ task = [c \in Chunks |-> 0]
  /\ want = [c \in Chunks |-> {}]
  /\ using = [c \in Chunks |-> {}]
  /\ buffers = [c \in Chunks |-> {}]
  /\ frozen = {} /\ freed = {}
  /\ parallel = FALSE

----------------------------------------------------------------------------
KeysOf(lists) == {l[2] : l \in lists}

\* find followed by create on a miss.
GetOrCreate(lists, creator, k) ==
  IF k \in KeysOf(lists) THEN lists ELSE lists \cup {<<creator, k>>}

----------------------------------------------------------------------------
(* The calling thread *)

\* A call without tasks returns at once and changes nothing.
Run(n) ==
  /\ phase = "serial"
  /\ phase' = "parallel"
  /\ taskCount' = n
  /\ cursor' = 0 /\ archived' = 0
  /\ at' = [c \in Chunks |-> IF c < ChunkCount(n) THEN "claim" ELSE "done"]
  /\ parallel' = TRUE
  /\ UNCHANGED <<task, want, using, buffers, frozen, freed>>

JoinKeepsFlag ==
  /\ phase = "parallel"
  /\ \A c \in Chunks : at[c] = "done"
  /\ phase' = "archive"
  /\ UNCHANGED <<taskCount, chunkVars, buffers, frozen, freed, parallel, archived>>

JoinCallOnly ==
  /\ phase = "parallel"
  /\ at[ChunkCount(taskCount) - 1] = "done"
  /\ phase' = "archive"
  /\ parallel' = FALSE
  /\ UNCHANGED <<taskCount, chunkVars, buffers, frozen, freed, archived>>

\* lf::join, then the guard's destructor.
Join ==
  /\ phase = "parallel"
  /\ \A c \in Chunks : at[c] = "done"
  /\ phase' = "archive"
  /\ parallel' = FALSE
  /\ UNCHANGED <<taskCount, chunkVars, buffers, frozen, freed, archived>>

ArchiveKeepsBuffer ==
  LET new == {l \in buffers[archived] : l[2] \notin KeysOf(frozen)}
  IN /\ phase = "archive"
     /\ archived < ChunkCount(taskCount)
     /\ frozen' = frozen \cup new
     /\ freed' = freed \cup (buffers[archived] \ new)
     /\ archived' = archived + 1
     /\ UNCHANGED <<phase, taskCount, chunkVars, buffers, parallel>>

ArchiveSkipsOne ==
  LET new == {l \in buffers[archived] : l[2] \notin KeysOf(frozen)}
  IN /\ phase = "archive"
     /\ archived < ChunkCount(taskCount)
     /\ IF archived = 0 THEN UNCHANGED <<frozen, freed>>
        ELSE frozen' = frozen \cup new /\ freed' = freed \cup (buffers[archived] \ new)
     /\ buffers' = [buffers EXCEPT ![archived] = {}]
     /\ archived' = archived + 1
     /\ UNCHANGED <<phase, taskCount, chunkVars, parallel>>

\* The next buffer moves into the table: a list whose key is there already is
\* deleted, and the buffer is left empty.  The table refuses while it is
\* flagged parallel; then the buffers' destructors delete what they hold.
Archive ==
  LET mine == buffers[archived]
      new == {l \in mine : l[2] \notin KeysOf(frozen)}
  IN /\ phase = "archive"
     /\ archived < ChunkCount(taskCount)
     /\ IF mine # {} /\ parallel
        THEN /\ phase' = "failed"
             /\ freed' = freed \cup UNION {buffers[c] : c \in Chunks}
             /\ buffers' = [c \in Chunks |-> {}]
             /\ UNCHANGED <<frozen, archived>>
        ELSE /\ frozen' = frozen \cup new
             /\ freed' = freed \cup (mine \ new)
             /\ buffers' = [buffers EXCEPT ![archived] = {}]
             /\ archived' = archived + 1
             /\ UNCHANGED phase
     /\ UNCHANGED <<taskCount, chunkVars, parallel>>

\* run returns and the buffers' destructors run.
Return ==
  /\ phase = "archive"
  /\ archived = ChunkCount(taskCount)
  /\ phase' = "serial"
  /\ freed' = freed \cup UNION {buffers[c] : c \in Chunks}
  /\ buffers' = [c \in Chunks |-> {}]
  /\ UNCHANGED <<taskCount, chunkVars, frozen, parallel, archived>>

\* Between calls, time windows are inferred without a buffer.
SerialLookup(k) ==
  /\ phase = "serial"
  /\ IF parallel
     THEN phase' = "failed" /\ UNCHANGED frozen
     ELSE frozen' = GetOrCreate(frozen, Serial, k) /\ UNCHANGED phase
  /\ UNCHANGED <<taskCount, chunkVars, buffers, freed, parallel, archived>>

----------------------------------------------------------------------------
(* The chunks *)

\* The task will look up the keys of the chain it infers: any set of keys.
Claim(c) ==
  /\ at[c] = "claim"
  /\ cursor' = cursor + 1
  /\ IF cursor >= taskCount
     THEN at' = [at EXCEPT ![c] = "done"] /\ UNCHANGED <<task, want>>
     ELSE /\ at' = [at EXCEPT ![c] = "run"]
          /\ task' = [task EXCEPT ![c] = cursor]
          /\ \E K \in SUBSET Keys : want' = [want EXCEPT ![c] = K]
  /\ UNCHANGED <<phase, taskCount, using, buffers, frozen, freed, parallel, archived>>

\* The table is searched first and is only read; a list it lacks comes from
\* the chunk's own buffer, where it is created if needed.
Lookup(c, k) ==
  /\ at[c] = "run" /\ k \in want[c]
  /\ want' = [want EXCEPT ![c] = @ \ {k}]
  /\ IF k \in KeysOf(frozen)
     THEN /\ using' = [using EXCEPT ![c] = {l \in frozen : l[2] = k}]
          /\ UNCHANGED buffers
     ELSE /\ buffers' = [buffers EXCEPT ![c] = GetOrCreate(@, c, k)]
          /\ using' = [using EXCEPT ![c] = {l \in buffers'[c] : l[2] = k}]
  /\ UNCHANGED <<phase, taskCount, cursor, at, task, frozen, freed, parallel, archived>>

\* The body returned, or threw at any point: both end in the chunk's loop.
EndTask(c) ==
  /\ at[c] = "run"
  /\ at' = [at EXCEPT ![c] = "claim"]
  /\ want' = [want EXCEPT ![c] = {}]
  /\ using' = [using EXCEPT ![c] = {}]
  /\ UNCHANGED <<phase, taskCount, cursor, task, buffers, frozen, freed, parallel, archived>>

ChunkStep(c) == Claim(c) \/ (\E k \in Keys : Lookup(c, k)) \/ EndTask(c)

----------------------------------------------------------------------------
Next ==
  \/ \E n \in 1 .. MaxTasks : Run(n)
  \/ Join
  \/ Archive
  \/ Return
  \/ \E k \in Keys : SerialLookup(k)
  \/ \E c \in Chunks : ChunkStep(c)

Spec == Init /\ [][Next]_vars

\* The call is made on a thread that does nothing else, and a forked chunk is
\* run by the forking thread or stolen by a worker of the pool.
FairSpec ==
  Spec /\ WF_vars(Join \/ Archive \/ Return)
       /\ \A c \in Chunks : WF_vars(ChunkStep(c))
----------------------------------------------------------------------------
(* Properties *)

Executing == {c \in Chunks : at[c] = "run"}

Buffered == UNION {buffers[c] : c \in Chunks}

Unclaimed == IF phase = "parallel" THEN cursor .. taskCount - 1 ELSE {}

InHand == {task[c] : c \in Executing}

Computed == IF phase = "parallel" THEN KeysOf(Buffered) ELSE {}

\* While the buffers are archived the table counts as having absorbed them.
Absorbed == KeysOf(frozen) \cup
              (IF phase = "archive" THEN KeysOf(Buffered) ELSE {})

Promise == INSTANCE ParallelFor WITH
  running <- phase = "parallel", pending <- Unclaimed, busy <- InHand,
  computed <- Computed, table <- Absorbed

\* The executor keeps what it promises: every task of a call is begun and ended
\* once by one chunk, although the chunks race for the cursor and tasks throw;
\* and at the join no computed list is lost on its way into the table.
KeepsPromise == Promise!Spec

\* Every list has one owner: the table, one buffer, or nobody once deleted.
\* The table holds one list for a key although chunks compute the same key
\* twice; otherwise a destructor deletes a list again, or never.
OwnedOnce ==
  /\ Buffered \cap frozen = {}
  /\ freed \cap (Buffered \cup frozen) = {}
  /\ \A l, m \in frozen : l[2] = m[2] => l = m
  /\ \A c, d \in Chunks : c # d => buffers[c] \cap buffers[d] = {}

\* While a chunk infers with a list, nobody deletes it: the list stays in the
\* table or in the chunk's own buffer until the task ends.
ListsInUseLive ==
  \A c \in Chunks : using[c] \subseteq (frozen \cup buffers[c]) \ freed

\* The throwing checks of the table (direct write or archive while parallel)
\* never fire: the flag is set exactly from the fork to the join.
ChecksSilent == phase # "failed" /\ (parallel <=> phase = "parallel")

\* No step writes the table while a chunk that might read it has not finished:
\* readers take no lock.
TableReadOnly ==
  [][(\E c \in Chunks : at[c] # "done") => frozen' = frozen]_vars

\* The strengthening that makes the invariants above inductive.
Quiet == phase # "parallel" => \A c \in Chunks : at[c] = "done"

NoTaskNoUse ==
  \A c \in Chunks : at[c] # "run" => want[c] = {} /\ using[c] = {}

\* Two chunks never execute the same index, and none executes an index the
\* cursor has yet to give out.
ClaimedOnce ==
  \A c \in Executing : /\ task[c] < cursor
                       /\ \A d \in Executing : task[c] = task[d] => c = d

\* A chunk of the call only stops when the cursor has passed the last task.
Exhausted ==
  phase = "parallel" =>
    /\ taskCount > 0
    /\ \A c \in Chunks : at[c] = "done" => \/ c >= ChunkCount(taskCount)
                                          \/ cursor >= taskCount

BuffersOwn == \A c \in Chunks : \A l \in buffers[c] : l[1] = c

BuffersDrain ==
  /\ \A c \in Chunks :
       c >= ChunkCount(taskCount) => at[c] = "done" /\ buffers[c] = {}
  /\ phase = "serial" => \A c \in Chunks : buffers[c] = {}
  /\ phase = "parallel" => archived = 0
  /\ phase = "archive" => /\ archived <= ChunkCount(taskCount)
                          /\ \A c \in Chunks : c < archived => buffers[c] = {}

FreedAreDuplicates == KeysOf(freed) \subseteq KeysOf(frozen)

IInv ==
  /\ TypeOK /\ OwnedOnce /\ ListsInUseLive /\ ChecksSilent
  /\ Quiet /\ NoTaskNoUse /\ ClaimedOnce /\ Exhausted
  /\ BuffersOwn /\ BuffersDrain /\ FreedAreDuplicates

\* A call returns: the chunks run out of tasks and the buffers are archived.
RunReturns == phase = "parallel" ~> phase = "serial"
=============================================================================
