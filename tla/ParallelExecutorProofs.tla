----------------------- MODULE ParallelExecutorProofs -----------------------
(***************************************************************************)
(* Proofs about ParallelExecutor, for every number of workers, tasks and   *)
(* keys: IInv is inductive, and under IInv every step is a step of the     *)
(* promise ParallelFor or leaves its variables unchanged.                  *)
(***************************************************************************)
EXTENDS ParallelExecutor, TLAPS

\* The width of a call is positive and fits the chunks that exist.
LEMMA Width ==
  ASSUME NEW n \in Nat
  PROVE  /\ AtLeast(WorkerCount, 1) \in Nat
         /\ ChunkCount(n) \in 0 .. AtLeast(WorkerCount, 1) + 1
         /\ n > 0 => ChunkCount(n) > 0
BY WorkersAssumption DEF AtLeast, AtMost, ChunkCount

\* A list created by somebody for a key is a list.
LEMMA CreatedIsList ==
  ASSUME NEW c \in Chunks \cup {Serial}, NEW k \in Keys
  PROVE  /\ <<c, k>> \in Lists
         /\ <<c, k>>[1] = c /\ <<c, k>>[2] = k
BY DEF Lists

\* The type of all variables holds initially and is kept by every step, given
\* that the other buffers' chunks exist.
LEMMA Typing ==
  ASSUME TypeOK, BuffersDrain, [Next]_vars
  PROVE  TypeOK'
<1> USE DEF TypeOK
<1>0. AtLeast(WorkerCount, 1) \in Nat /\ taskCount \in Nat
  BY Width, TasksAssumption, 0 \in Nat
<1>1. ASSUME NEW n \in 1 .. MaxTasks, Run(n)
      PROVE  TypeOK'
  BY <1>0, <1>1, TasksAssumption DEF Run, Phases
<1>2. CASE Join
  BY <1>2 DEF Join, chunkVars, Phases
<1>3. CASE Archive
  <2>1. archived \in Chunks /\ archived + 1 \in 0 .. AtLeast(WorkerCount, 1) + 1
    BY <1>0, <1>3, Width DEF Archive, Chunks
  <2> QED BY <2>1, <1>3 DEF Archive, chunkVars, Phases
<1>4. CASE Return
  BY <1>4 DEF Return, chunkVars, Phases
<1>5. ASSUME NEW k \in Keys, SerialLookup(k)
      PROVE  TypeOK'
  BY <1>5, CreatedIsList DEF SerialLookup, GetOrCreate, chunkVars, Phases
<1>6. ASSUME NEW c \in Chunks, Claim(c)
      PROVE  TypeOK'
  <2>1. CASE cursor >= taskCount
    BY <2>1, <1>6 DEF Claim
  <2>2. CASE ~ cursor >= taskCount
    <3>1. cursor < taskCount
      BY <2>2, <1>0
    <3> QED BY <3>1, <2>2, <1>6 DEF Claim
  <2> QED BY <2>1, <2>2
<1>7. ASSUME NEW c \in Chunks, NEW k \in Keys, Lookup(c, k)
      PROVE  TypeOK'
  <2>1. CASE k \in KeysOf(frozen)
    BY <2>1, <1>7 DEF Lookup
  <2>2. CASE k \notin KeysOf(frozen)
    <3>1. GetOrCreate(buffers[c], c, k) \subseteq Lists
      BY CreatedIsList DEF GetOrCreate
    <3>2. buffers' \in [Chunks -> SUBSET Lists]
      BY <3>1, <2>2, <1>7 DEF Lookup
    <3>3. using' \in [Chunks -> SUBSET Lists]
      BY <3>2, <2>2, <1>7 DEF Lookup
    <3> QED BY <3>2, <3>3, <1>7, <2>2 DEF Lookup
  <2> QED BY <2>1, <2>2
<1>8. ASSUME NEW c \in Chunks, EndTask(c)
      PROVE  TypeOK'
  BY <1>8 DEF EndTask
<1>9. CASE UNCHANGED vars
  BY <1>9 DEF vars, chunkVars
<1> QED BY <1>1, <1>2, <1>3, <1>4, <1>5, <1>6, <1>7, <1>8, <1>9 DEF Next, ChunkStep

LEMMA InitIInv == Init => IInv
<1> SUFFICES ASSUME Init PROVE IInv
  OBVIOUS
<1>0. AtLeast(WorkerCount, 1) \in Nat
  BY Width, 0 \in Nat
<1>1. TypeOK
  <2>1. phase \in Phases /\ parallel \in BOOLEAN
    BY DEF Init, Phases
  <2>5. taskCount \in 0 .. MaxTasks /\ cursor \in Nat
    BY TasksAssumption DEF Init
  <2>2. archived \in 0 .. AtLeast(WorkerCount, 1) + 1
    BY <1>0 DEF Init
  <2>3. at \in [Chunks -> {"claim", "run", "done"}] /\ task \in [Chunks -> Nat]
        /\ \A c \in Chunks : at[c] = "run" => task[c] < taskCount
    BY DEF Init
  <2>4. /\ want \in [Chunks -> SUBSET Keys] /\ using \in [Chunks -> SUBSET Lists]
        /\ buffers \in [Chunks -> SUBSET Lists] /\ frozen \subseteq Lists /\ freed \subseteq Lists
    BY DEF Init
  <2> QED BY <2>1, <2>2, <2>3, <2>4, <2>5 DEF TypeOK
<1>2. OwnedOnce /\ ListsInUseLive
  BY DEF Init, OwnedOnce, ListsInUseLive, Buffered
<1>3. ChecksSilent /\ Quiet /\ NoTaskNoUse
  BY DEF Init, ChecksSilent, Quiet, NoTaskNoUse
<1>5. ClaimedOnce /\ Exhausted
  BY DEF Init, ClaimedOnce, Executing, Exhausted
<1>4. BuffersOwn /\ BuffersDrain /\ FreedAreDuplicates
  BY DEF Init, BuffersOwn, BuffersDrain, FreedAreDuplicates, KeysOf
<1> QED BY <1>1, <1>2, <1>3, <1>4, <1>5 DEF IInv

----------------------------------------------------------------------------
(* One lemma for each action: what it does to the conjuncts of IInv other  *)
(* than TypeOK.                                                            *)

Rest ==
  /\ OwnedOnce /\ ListsInUseLive /\ ChecksSilent
  /\ Quiet /\ NoTaskNoUse /\ ClaimedOnce /\ Exhausted
  /\ BuffersOwn /\ BuffersDrain /\ FreedAreDuplicates

\* A new call finds all buffers empty and starts its chunks without tasks.
LEMMA RunKeeps ==
  ASSUME IInv, NEW n \in 1 .. MaxTasks, Run(n)
  PROVE  Rest'
<1> USE DEF IInv, Run
<1>1. OwnedOnce' /\ FreedAreDuplicates'
  BY DEF OwnedOnce, Buffered, FreedAreDuplicates
<1>2. \A c \in Chunks : at[c] = "done" /\ using[c] = {} /\ want[c] = {} /\ buffers[c] = {}
  BY DEF Quiet, NoTaskNoUse, BuffersDrain, ChecksSilent
<1>3. at' \in [Chunks -> {"claim", "done"}]
  OBVIOUS
<1>4. ListsInUseLive' /\ NoTaskNoUse' /\ BuffersOwn'
  BY <1>2 DEF ListsInUseLive, NoTaskNoUse, BuffersOwn
<1>5. ChecksSilent' /\ Quiet'
  BY DEF ChecksSilent, Quiet
<1>6. ClaimedOnce'
  BY <1>3 DEF ClaimedOnce, Executing
<1>8. Exhausted'
  <2>1. \A c \in Chunks : c \in Int /\ ChunkCount(n) \in Int
    BY Width, WorkersAssumption DEF Chunks
  <2>2. \A c \in Chunks : c < ChunkCount(n) \/ c >= ChunkCount(n)
    BY <2>1
  <2>3. ChunkCount(taskCount)' = ChunkCount(n)
    BY DEF ChunkCount
  <2> QED BY <2>2, <2>3 DEF Exhausted, TypeOK
<1>7. BuffersDrain'
  <2>1. ASSUME NEW c \in Chunks, c >= ChunkCount(n)
        PROVE  at'[c] = "done" /\ buffers'[c] = {}
    <3>1. c \in Int /\ ChunkCount(n) \in Int
      BY TasksAssumption, WorkersAssumption DEF Chunks, ChunkCount, AtMost, AtLeast
    <3>2. ~ c < ChunkCount(n)
      BY <2>1, <3>1
    <3> QED BY <3>2, <1>2
  <2>2. ChunkCount(taskCount)' = ChunkCount(n)
    BY DEF ChunkCount
  <2> QED BY <2>1, <2>2, <1>2 DEF BuffersDrain
<1> QED BY <1>1, <1>4, <1>5, <1>6, <1>7, <1>8 DEF Rest

\* The join changes only what the calling thread does and the flag.
LEMMA JoinKeeps ==
  ASSUME IInv, Join
  PROVE  Rest'
<1> USE DEF IInv, Join, chunkVars
<1>1. OwnedOnce' /\ ListsInUseLive' /\ FreedAreDuplicates' /\ BuffersOwn'
  BY DEF OwnedOnce, Buffered, ListsInUseLive, FreedAreDuplicates, BuffersOwn
<1>2. ChecksSilent' /\ Quiet' /\ NoTaskNoUse' /\ ClaimedOnce' /\ Exhausted'
  BY DEF ChecksSilent, Quiet, NoTaskNoUse, ClaimedOnce, Executing, Exhausted
<1>3. BuffersDrain'
  <2>1. ChunkCount(taskCount)' = ChunkCount(taskCount)
    BY DEF ChunkCount
  <2>2. ChunkCount(taskCount) >= 0 /\ \A c \in Chunks : ~ c < 0
    BY Width, TasksAssumption DEF TypeOK, Chunks
  <2> QED BY <2>1, <2>2 DEF BuffersDrain
<1> QED BY <1>1, <1>2, <1>3 DEF Rest

\* Archiving one buffer hands each of its lists to the table or deletes it; the
\* table's refusal is out of reach, as the flag is down.
LEMMA ArchiveKeeps ==
  ASSUME IInv, Archive
  PROVE  Rest'
<1> USE DEF IInv, TypeOK
<1> DEFINE mine == buffers[archived]
           new == {l \in mine : l[2] \notin KeysOf(frozen)}
<1>0. /\ phase = "archive" /\ phase' = phase
      /\ frozen' = frozen \cup new
      /\ freed' = freed \cup (mine \ new)
      /\ buffers' = [buffers EXCEPT ![archived] = {}]
      /\ archived' = archived + 1 /\ archived < ChunkCount(taskCount)
      /\ UNCHANGED <<taskCount, cursor, at, task, want, using, parallel>>
  BY DEF Archive, ChecksSilent, chunkVars
<1>1. archived \in Chunks /\ ChunkCount(taskCount) \in Int
  BY <1>0, Width, TasksAssumption DEF Chunks
<1>2. mine \subseteq Buffered /\ Buffered' \subseteq Buffered /\ Buffered' \cap mine = {}
  BY <1>0, <1>1 DEF Buffered, OwnedOnce
<1>3. \A l, m \in new : l[2] = m[2] => l = m
  BY <1>1 DEF BuffersOwn, Lists
<1>4. \A l \in frozen : l[2] \in KeysOf(frozen)
  BY DEF KeysOf
<1>5. OwnedOnce'
  <2>1. \A l, m \in frozen' : l[2] = m[2] => l = m
    BY <1>0, <1>3, <1>4 DEF OwnedOnce
  <2>2. \A c, d \in Chunks : c # d => buffers'[c] \cap buffers'[d] = {}
    BY <1>0, <1>1 DEF OwnedOnce
  <2>3. Buffered' \cap frozen' = {} /\ freed' \cap (Buffered' \cup frozen') = {}
    BY <1>0, <1>2 DEF OwnedOnce
  <2> QED BY <2>1, <2>2, <2>3 DEF OwnedOnce
<1>6. \A c \in Chunks : at[c] = "done" /\ using[c] = {} /\ want[c] = {}
  BY <1>0 DEF Quiet, NoTaskNoUse
<1>7. ListsInUseLive' /\ NoTaskNoUse' /\ Quiet' /\ ChecksSilent'
  BY <1>0, <1>6 DEF ListsInUseLive, NoTaskNoUse, Quiet, ChecksSilent
<1>8. ClaimedOnce' /\ Exhausted'
  BY <1>0 DEF ClaimedOnce, Executing, Exhausted
<1>9. BuffersOwn'
  BY <1>0, <1>1 DEF BuffersOwn
<1>10. BuffersDrain'
  <2>1. ChunkCount(taskCount)' = ChunkCount(taskCount)
    BY <1>0 DEF ChunkCount
  <2>2. \A c \in Chunks : buffers[c] = {} => buffers'[c] = {}
    BY <1>0, <1>1
  <2>3. ASSUME NEW c \in Chunks, c < archived'
        PROVE  buffers'[c] = {}
    <3>1. c < archived \/ c = archived
      BY <1>0, <2>3 DEF Chunks
    <3> QED BY <3>1, <1>0, <1>1, <2>2 DEF BuffersDrain
  <2>4. archived' <= ChunkCount(taskCount)
    BY <1>0, <1>1
  <2> QED BY <1>0, <2>1, <2>2, <2>3, <2>4 DEF BuffersDrain
<1>11. FreedAreDuplicates'
  <2>1. \A l \in mine \ new : l[2] \in KeysOf(frozen)
    OBVIOUS
  <2> QED BY <1>0, <2>1 DEF FreedAreDuplicates, KeysOf
<1> QED BY <1>5, <1>7, <1>8, <1>9, <1>10, <1>11 DEF Rest

\* All buffers are empty when run returns: their destructors delete nothing.
LEMMA ReturnKeeps ==
  ASSUME IInv, Return
  PROVE  Rest' /\ freed' = freed /\ \A c \in Chunks : buffers[c] = {}
<1> USE DEF IInv, Return, chunkVars, TypeOK
<1>1. \A c \in Chunks : buffers[c] = {}
  <2>1. ChunkCount(taskCount) \in Int /\ \A c \in Chunks : c \in Int
    BY Width, TasksAssumption DEF Chunks
  <2>2. \A c \in Chunks : c < ChunkCount(taskCount) \/ c >= ChunkCount(taskCount)
    BY <2>1
  <2> QED BY <2>2 DEF BuffersDrain
<1>2. Buffered = {} /\ Buffered' = {} /\ buffers' = buffers /\ freed' = freed
  BY <1>1 DEF Buffered
<1>3. OwnedOnce'
  BY <1>2 DEF OwnedOnce
<1>6. FreedAreDuplicates' /\ BuffersOwn'
  BY <1>2 DEF FreedAreDuplicates, KeysOf, BuffersOwn
<1>4. ListsInUseLive' /\ NoTaskNoUse' /\ Quiet' /\ ChecksSilent'
  BY <1>2 DEF ListsInUseLive, NoTaskNoUse, Quiet, ChecksSilent
<1>5. ClaimedOnce' /\ BuffersDrain' /\ Exhausted'
  BY <1>1, <1>2 DEF ClaimedOnce, Executing, BuffersDrain, ChunkCount, Exhausted
<1> QED BY <1>1, <1>2, <1>3, <1>4, <1>5, <1>6 DEF Rest

\* Between calls a missing list is created in the table itself.
LEMMA SerialLookupKeeps ==
  ASSUME IInv, NEW k \in Keys, SerialLookup(k)
  PROVE  Rest'
<1> USE DEF IInv, TypeOK
<1>0. /\ phase = "serial" /\ phase' = phase
      /\ frozen' = GetOrCreate(frozen, Serial, k)
      /\ UNCHANGED <<taskCount, cursor, at, task, want, using, buffers, freed, parallel, archived>>
  BY DEF SerialLookup, ChecksSilent, chunkVars
<1>1. \A c \in Chunks : at[c] = "done" /\ using[c] = {} /\ want[c] = {} /\ buffers[c] = {}
  BY <1>0 DEF Quiet, NoTaskNoUse, BuffersDrain
<1>2. Buffered' = {}
  BY <1>0, <1>1 DEF Buffered
<1>3. CASE k \in KeysOf(frozen)
  BY <1>0, <1>1, <1>2, <1>3 DEF GetOrCreate, Rest, OwnedOnce, Buffered, ListsInUseLive,
     ChecksSilent, Quiet, NoTaskNoUse, ClaimedOnce, Executing, BuffersOwn, BuffersDrain,
     ChunkCount, FreedAreDuplicates, Exhausted
<1>4. CASE k \notin KeysOf(frozen)
  <2>1. frozen' = frozen \cup {<<Serial, k>>} /\ <<Serial, k>>[2] = k
    BY <1>0, <1>4 DEF GetOrCreate
  <2>2. \A l \in frozen \cup freed : l[2] # k
    BY <1>4 DEF FreedAreDuplicates, KeysOf
  <2>3. OwnedOnce'
    BY <1>0, <1>1, <1>2, <2>1, <2>2 DEF OwnedOnce
  <2>4. ListsInUseLive' /\ NoTaskNoUse' /\ Quiet' /\ ChecksSilent'
    BY <1>0, <1>1 DEF ListsInUseLive, NoTaskNoUse, Quiet, ChecksSilent
  <2>5. ClaimedOnce' /\ BuffersDrain' /\ BuffersOwn' /\ Exhausted'
    BY <1>0, <1>1 DEF ClaimedOnce, Executing, BuffersDrain, ChunkCount, BuffersOwn, Exhausted
  <2>6. FreedAreDuplicates'
    BY <1>0, <2>1 DEF FreedAreDuplicates, KeysOf
  <2> QED BY <2>3, <2>4, <2>5, <2>6 DEF Rest
<1> QED BY <1>3, <1>4

----------------------------------------------------------------------------
\* A claim takes the cursor's index for one chunk and passes it for all.
LEMMA ClaimKeeps ==
  ASSUME IInv, NEW c \in Chunks, Claim(c)
  PROVE  Rest'
<1> USE DEF IInv, TypeOK, Claim
<1>0. phase = "parallel"
  BY DEF Quiet
<1>1. OwnedOnce' /\ FreedAreDuplicates' /\ BuffersOwn'
  BY DEF OwnedOnce, Buffered, FreedAreDuplicates, KeysOf, BuffersOwn
<1>2. ListsInUseLive' /\ ChecksSilent' /\ Quiet'
  BY <1>0 DEF ListsInUseLive, ChecksSilent, Quiet
<1>3. BuffersDrain'
  <2>1. ChunkCount(taskCount)' = ChunkCount(taskCount)
    BY DEF ChunkCount
  <2>2. ~ c >= ChunkCount(taskCount)
    BY DEF BuffersDrain
  <2> QED BY <1>0, <2>1, <2>2 DEF BuffersDrain
<1>4. CASE cursor >= taskCount
  <2>1. NoTaskNoUse'
    BY <1>4 DEF NoTaskNoUse
  <2>2. ClaimedOnce'
    BY <1>4 DEF ClaimedOnce, Executing
  <2>3. Exhausted'
    BY <1>0, <1>4, TasksAssumption DEF Exhausted
  <2> QED BY <1>1, <1>2, <1>3, <2>1, <2>2, <2>3 DEF Rest
<1>5. CASE ~ cursor >= taskCount
  <2>1. NoTaskNoUse'
    BY <1>5 DEF NoTaskNoUse
  <2>2. ClaimedOnce'
    <3>1. Executing' = Executing \cup {c} /\ c \notin Executing /\ Executing \subseteq Chunks
      BY <1>5 DEF Executing
    <3>2. task'[c] = cursor /\ \A d \in Executing : task'[d] = task[d] /\ task[d] < cursor
      BY <1>5, <3>1 DEF ClaimedOnce
    <3>3. \A d \in Executing : task[d] \in Nat /\ task[d] # cursor
      BY <3>1, <3>2
    <3> QED BY <3>1, <3>2, <3>3 DEF ClaimedOnce
  <2>3. ChunkCount(taskCount)' = ChunkCount(taskCount)
    BY DEF ChunkCount
  <2>4. \A d \in Chunks : at'[d] = "done" => at[d] = "done"
    BY <1>5
  <2>5. Exhausted'
    BY <1>0, <1>5, <2>3, <2>4 DEF Exhausted
  <2> QED BY <1>1, <1>2, <1>3, <2>1, <2>2, <2>5 DEF Rest
<1> QED BY <1>4, <1>5

\* A lookup writes at most the chunk's own buffer, and only a key that the
\* table lacks: no list of that key has been deleted.
LEMMA LookupKeeps ==
  ASSUME IInv, NEW c \in Chunks, NEW k \in Keys, Lookup(c, k)
  PROVE  Rest'
<1> USE DEF IInv, TypeOK, Lookup
<1>0. phase = "parallel" /\ UNCHANGED <<phase, taskCount, cursor, at, task, frozen, freed, parallel, archived>>
  BY DEF Quiet
<1>1. ChecksSilent' /\ Quiet' /\ FreedAreDuplicates'
  BY <1>0 DEF ChecksSilent, Quiet, FreedAreDuplicates, KeysOf
<1>2. ClaimedOnce' /\ Exhausted'
  BY <1>0 DEF ClaimedOnce, Executing, Exhausted, ChunkCount
<1>3. ChunkCount(taskCount)' = ChunkCount(taskCount)
  BY <1>0 DEF ChunkCount
<1>4. ~ c >= ChunkCount(taskCount)
  BY DEF BuffersDrain
<1>5. NoTaskNoUse'
  BY <1>0 DEF NoTaskNoUse
<1>6. \A d \in Chunks : d # c => using'[d] = using[d] /\ buffers'[d] = buffers[d]
  OBVIOUS
<1>7. BuffersDrain'
  BY <1>0, <1>3, <1>4, <1>6 DEF BuffersDrain
<1>8. CASE k \in KeysOf(frozen)
  <2>1. buffers' = buffers
    BY <1>8
  <2>2. OwnedOnce' /\ BuffersOwn'
    BY <1>0, <2>1 DEF OwnedOnce, Buffered, BuffersOwn
  <2>3. using'[c] \subseteq frozen
    BY <1>8
  <2>4. ListsInUseLive'
    BY <1>0, <1>6, <2>1, <2>3 DEF ListsInUseLive, OwnedOnce
  <2> QED BY <1>1, <1>2, <1>5, <1>7, <2>2, <2>4 DEF Rest
<1>9. CASE k \notin KeysOf(frozen)
  <2>1. /\ buffers'[c] \subseteq buffers[c] \cup {<<c, k>>}
        /\ buffers[c] \subseteq buffers'[c]
        /\ using'[c] \subseteq buffers'[c]
    BY <1>9 DEF GetOrCreate
  <2>9. \A l \in frozen \cup freed : l[2] # k
    BY <1>9 DEF KeysOf, FreedAreDuplicates
  <2>2. <<c, k>> \notin frozen /\ <<c, k>> \notin freed
    BY <2>9, CreatedIsList
  <2>3. Buffered' \subseteq Buffered \cup {<<c, k>>}
    BY <1>6, <2>1 DEF Buffered
  <2>4. BuffersOwn'
    BY <1>6, <2>1, CreatedIsList DEF BuffersOwn
  <2>5. \A d, e \in Chunks : d # e => buffers'[d] \cap buffers'[e] = {}
    BY <2>4 DEF BuffersOwn
  <2>6. OwnedOnce'
    BY <1>0, <2>2, <2>3, <2>5 DEF OwnedOnce
  <2>7. buffers'[c] \cap freed = {}
    BY <2>1, <2>2 DEF OwnedOnce, Buffered
  <2>8. ListsInUseLive'
    BY <1>0, <1>6, <2>1, <2>7 DEF ListsInUseLive
  <2> QED BY <1>1, <1>2, <1>5, <1>7, <2>4, <2>6, <2>8 DEF Rest
<1> QED BY <1>8, <1>9

LEMMA EndTaskKeeps ==
  ASSUME IInv, NEW c \in Chunks, EndTask(c)
  PROVE  Rest'
<1> USE DEF IInv, TypeOK, EndTask
<1>0. phase = "parallel"
  BY DEF Quiet
<1>1. OwnedOnce' /\ FreedAreDuplicates' /\ BuffersOwn'
  BY DEF OwnedOnce, Buffered, FreedAreDuplicates, KeysOf, BuffersOwn
<1>2. ListsInUseLive' /\ NoTaskNoUse'
  BY DEF ListsInUseLive, NoTaskNoUse
<1>3. ChecksSilent' /\ Quiet'
  BY <1>0 DEF ChecksSilent, Quiet
<1>4. ClaimedOnce' /\ Exhausted'
  BY <1>0 DEF ClaimedOnce, Executing, Exhausted, ChunkCount
<1>5. BuffersDrain'
  <2>1. ChunkCount(taskCount)' = ChunkCount(taskCount)
    BY DEF ChunkCount
  <2>2. ~ c >= ChunkCount(taskCount)
    BY DEF BuffersDrain
  <2> QED BY <1>0, <2>1, <2>2 DEF BuffersDrain
<1> QED BY <1>1, <1>2, <1>3, <1>4, <1>5 DEF Rest

\* IInv is inductive.
LEMMA Inductive == IInv /\ [Next]_vars => IInv'
<1> SUFFICES ASSUME IInv, [Next]_vars PROVE IInv'
  OBVIOUS
<1>1. TypeOK'
  BY Typing DEF IInv
<1>2. Rest'
  <2>1. CASE UNCHANGED vars
    BY <2>1 DEF vars, chunkVars, IInv, Rest, OwnedOnce, Buffered, ListsInUseLive,
       ChecksSilent, Quiet, NoTaskNoUse, ClaimedOnce, Executing, BuffersOwn,
       BuffersDrain, ChunkCount, FreedAreDuplicates, KeysOf, Exhausted
  <2>2. CASE Next
    BY <2>2, RunKeeps, JoinKeeps, ArchiveKeeps, ReturnKeeps, SerialLookupKeeps,
       ClaimKeeps, LookupKeeps, EndTaskKeeps DEF Next, ChunkStep
  <2> QED BY <2>1, <2>2
<1> QED BY <1>1, <1>2 DEF IInv, Rest

----------------------------------------------------------------------------
\* Every variable keeps its type: no chunk executes an index that is not one of
\* the call's tasks.
THEOREM TypeCorrect == Spec => []TypeOK
<1>1. IInv => TypeOK
  BY DEF IInv
<1> QED BY <1>1, InitIInv, Inductive, PTL DEF Spec

\* Every time-window list has one owner, so none is deleted twice and none is
\* lost (store buffers, archive and their destructors).
THEOREM ListsAreOwnedOnce == Spec => []OwnedOnce
<1>1. IInv => OwnedOnce
  BY DEF IInv
<1> QED BY <1>1, InitIInv, Inductive, PTL DEF Spec

\* A list that a task's inference reads is never deleted under it.
THEOREM ListsInUseAreLive == Spec => []ListsInUseLive
<1>1. IInv => ListsInUseLive
  BY DEF IInv
<1> QED BY <1>1, InitIInv, Inductive, PTL DEF Spec

\* The logic_error checks of the table never fire.
THEOREM ChecksAreSilent == Spec => []ChecksSilent
<1>1. IInv => ChecksSilent
  BY DEF IInv
<1> QED BY <1>1, InitIInv, Inductive, PTL DEF Spec

\* The table is written only when every chunk has finished.
THEOREM TableIsReadOnly == Spec => TableReadOnly
<1>1. ASSUME IInv, [Next]_vars
      PROVE  [(\E c \in Chunks : at[c] # "done") => frozen' = frozen]_vars
  <2> SUFFICES ASSUME phase = "parallel", Next PROVE frozen' = frozen
    BY <1>1 DEF IInv, Quiet
  <2>1. CASE \E n \in 1 .. MaxTasks : Run(n)
    BY <2>1 DEF Run
  <2>2. CASE Join \/ Archive \/ Return \/ \E k \in Keys : SerialLookup(k)
    BY <2>2 DEF Join, Archive, Return, SerialLookup
  <2>3. ASSUME NEW c \in Chunks, ChunkStep(c)
        PROVE  frozen' = frozen
    BY <2>3 DEF ChunkStep, Claim, Lookup, EndTask
  <2> QED BY <2>1, <2>2, <2>3 DEF Next
<1> QED BY <1>1, InitIInv, Inductive, PTL DEF Spec, TableReadOnly

----------------------------------------------------------------------------
\* Initially nothing runs and the table is empty.
LEMMA InitRefines == Init => Promise!Init
<1> SUFFICES ASSUME Init PROVE Promise!Init
  OBVIOUS
<1>1. InHand = {} /\ Unclaimed = {} /\ Computed = {}
  BY DEF Init, InHand, Executing, Unclaimed, Computed
<1>2. Absorbed = {}
  BY DEF Init, Absorbed, KeysOf
<1>3. (phase = "parallel") = FALSE
  BY DEF Init
<1> QED BY <1>1, <1>2, <1>3 DEF Promise!Init

\* Every step of the executor is a step of the promise or none: the join is the
\* return of the promise, and archiving is silent.
LEMMA StepRefines ==
  ASSUME IInv, [Next]_vars
  PROVE  [Promise!Next]_(Promise!vars)
<1> USE DEF IInv, TypeOK
<1>q. phase # "parallel" => Executing = {} /\ Unclaimed = {} /\ Computed = {} /\ InHand = {}
  BY DEF Quiet, Executing, Unclaimed, Computed, InHand
<1>1. ASSUME NEW n \in 1 .. MaxTasks, Run(n)
      PROVE  Promise!Call(n)
  <2>1. Executing' = {} /\ InHand' = {}
    BY <1>1 DEF Run, Executing, InHand
  <2>2. Buffered = {} /\ Buffered' = {}
    BY <1>1 DEF Run, Buffered, BuffersDrain
  <2>3. Unclaimed' = 0 .. n - 1 /\ Computed' = {} /\ Absorbed' = Absorbed
    BY <1>1, <2>2 DEF Run, Unclaimed, Computed, Absorbed, KeysOf
  <2>4. ~ (phase = "parallel") /\ (phase' = "parallel") = TRUE
    BY <1>1 DEF Run
  <2> QED BY <1>1, <1>q, <2>1, <2>3, <2>4 DEF Promise!Call, Run
<1>2. ASSUME Join
      PROVE  Promise!Return
  <2>1. cursor >= taskCount
    <3>1. 0 \in Chunks /\ ~ 0 >= ChunkCount(taskCount)
      BY <1>2, Width, TasksAssumption DEF Join, Exhausted, Chunks
    <3> QED BY <1>2, <3>1 DEF Join, Exhausted
  <2>2. Unclaimed = {} /\ InHand = {}
    BY <1>2, <2>1, TasksAssumption DEF Join, Unclaimed, InHand, Executing
  <2>3. Unclaimed' = {} /\ InHand' = {} /\ Computed' = {}
    BY <1>2, <2>2 DEF Join, chunkVars, Unclaimed, InHand, Executing, Computed
  <2>4. Absorbed' = Absorbed \cup Computed
    BY <1>2 DEF Join, Absorbed, Computed, KeysOf, Buffered
  <2>5. phase = "parallel" /\ (phase' = "parallel") = FALSE
    BY <1>2 DEF Join
  <2> QED BY <2>2, <2>3, <2>4, <2>5 DEF Promise!Return
<1>3. ASSUME Archive
      PROVE  UNCHANGED Promise!vars
  <2> DEFINE mine == buffers[archived]
             new == {l \in mine : l[2] \notin KeysOf(frozen)}
  <2>0. /\ phase = "archive" /\ phase' = phase
        /\ frozen' = frozen \cup new
        /\ buffers' = [buffers EXCEPT ![archived] = {}]
        /\ archived < ChunkCount(taskCount)
        /\ UNCHANGED <<taskCount, cursor, at, task>>
    BY <1>3 DEF Archive, ChecksSilent, chunkVars
  <2>1. archived \in Chunks
    BY <2>0, Width, TasksAssumption DEF Chunks
  <2>2. Buffered = Buffered' \cup mine
    BY <2>0, <2>1 DEF Buffered
  <2>3. KeysOf(frozen') = KeysOf(frozen) \cup KeysOf(mine)
    BY <2>0 DEF KeysOf
  <2>4. KeysOf(Buffered) = KeysOf(Buffered') \cup KeysOf(mine)
    BY <2>2 DEF KeysOf
  <2>5. Absorbed = KeysOf(frozen) \cup KeysOf(Buffered) /\ Absorbed' = KeysOf(frozen') \cup KeysOf(Buffered')
    BY <2>0 DEF Absorbed, KeysOf
  <2>6. Absorbed' = Absorbed
    BY <2>3, <2>4, <2>5
  <2>7. UNCHANGED <<Unclaimed, InHand, Computed>>
    BY <2>0 DEF Unclaimed, InHand, Executing, Computed
  <2>8. (phase' = "parallel") = (phase = "parallel")
    BY <2>0
  <2> QED BY <2>6, <2>7, <2>8 DEF Promise!vars
<1>4. ASSUME Return
      PROVE  UNCHANGED Promise!vars
  <2>1. Buffered = {} /\ Buffered' = {}
    BY <1>4, ReturnKeeps DEF Return, Buffered
  <2>2. UNCHANGED <<Unclaimed, InHand, Computed>>
    BY <1>4 DEF Return, chunkVars, Unclaimed, InHand, Executing, Computed
  <2>3. Absorbed' = Absorbed
    BY <1>4, <2>1 DEF Return, Absorbed, KeysOf
  <2>4. (phase' = "parallel") = (phase = "parallel")
    BY <1>4 DEF Return
  <2> QED BY <2>2, <2>3, <2>4 DEF Promise!vars
<1>5. ASSUME NEW k \in Keys, SerialLookup(k)
      PROVE  Promise!Write(k)
  <2>0. /\ phase = "serial" /\ phase' = phase
        /\ frozen' = GetOrCreate(frozen, Serial, k)
        /\ UNCHANGED <<taskCount, cursor, at, task, buffers>>
    BY <1>5 DEF SerialLookup, ChecksSilent, chunkVars
  <2>1. KeysOf(frozen') = KeysOf(frozen) \cup {k}
    <3>1. CASE k \in KeysOf(frozen)
      BY <2>0, <3>1 DEF GetOrCreate
    <3>2. CASE k \notin KeysOf(frozen)
      <4>1. frozen' = frozen \cup {<<Serial, k>>} /\ <<Serial, k>>[2] = k
        BY <2>0, <3>2 DEF GetOrCreate
      <4> QED BY <4>1 DEF KeysOf
    <3> QED BY <3>1, <3>2
  <2>2. Absorbed' = Absorbed \cup {k}
    BY <2>0, <2>1 DEF Absorbed
  <2>3. UNCHANGED <<Unclaimed, InHand, Computed>>
    BY <2>0 DEF Unclaimed, InHand, Executing, Computed
  <2>4. ~ (phase = "parallel") /\ (phase' = "parallel") = (phase = "parallel")
    BY <2>0
  <2> QED BY <2>2, <2>3, <2>4 DEF Promise!Write
<1>6. ASSUME NEW c \in Chunks, Claim(c)
      PROVE  \/ cursor \in 0 .. MaxTasks - 1 /\ Promise!Begin(cursor)
             \/ UNCHANGED Promise!vars
  <2>0. phase = "parallel" /\ (phase' = "parallel") = (phase = "parallel")
    BY <1>6 DEF Claim, Quiet
  <2>1. Computed' = Computed /\ Absorbed' = Absorbed
    BY <1>6 DEF Claim, Computed, Absorbed, Buffered, KeysOf
  <2>2. CASE cursor >= taskCount
    <3>1. Unclaimed' = {} /\ Unclaimed = {}
      BY <1>6, <2>2 DEF Claim, Unclaimed
    <3>2. InHand' = InHand
      BY <1>6, <2>2 DEF Claim, InHand, Executing
    <3> QED BY <2>0, <2>1, <3>1, <3>2 DEF Promise!vars
  <2>3. CASE ~ cursor >= taskCount
    <3>0. cursor \in Int /\ taskCount \in Int /\ cursor < taskCount /\ taskCount <= MaxTasks
      BY <2>3, TasksAssumption
    <3>1. cursor \in Unclaimed /\ cursor \in 0 .. MaxTasks - 1
      BY <2>0, <3>0, TasksAssumption DEF Unclaimed
    <3>2. Unclaimed' = Unclaimed \ {cursor}
      BY <1>6, <2>0, <2>3 DEF Claim, Unclaimed
    <3>3. InHand' = InHand \cup {cursor}
      <4>1. Executing' = Executing \cup {c} /\ c \notin Executing /\ Executing \subseteq Chunks
        BY <1>6, <2>3 DEF Claim, Executing
      <4>2. task'[c] = cursor /\ \A d \in Executing : task'[d] = task[d]
        BY <1>6, <2>3, <4>1 DEF Claim
      <4> QED BY <4>1, <4>2 DEF InHand
    <3> QED BY <2>0, <2>1, <3>1, <3>2, <3>3 DEF Promise!Begin
  <2> QED BY <2>2, <2>3
<1>7. ASSUME NEW c \in Chunks, NEW k \in Keys, Lookup(c, k)
      PROVE  Promise!Compute(k) \/ UNCHANGED Promise!vars
  <2>0. /\ phase = "parallel" /\ (phase' = "parallel") = (phase = "parallel")
        /\ UNCHANGED <<phase, taskCount, cursor, at, task, frozen>>
    BY <1>7 DEF Lookup, Quiet
  <2>1. UNCHANGED <<Unclaimed, InHand, Absorbed>>
    BY <2>0 DEF Unclaimed, InHand, Executing, Absorbed, KeysOf
  <2>2. CASE k \in KeysOf(frozen) \/ k \in KeysOf(buffers[c])
    <3>1. buffers' = buffers
      BY <1>7, <2>2 DEF Lookup, GetOrCreate
    <3>2. Computed' = Computed
      BY <2>0, <3>1 DEF Computed, Buffered, KeysOf
    <3> QED BY <2>0, <2>1, <3>2 DEF Promise!vars
  <2>3. CASE k \notin KeysOf(frozen) /\ k \notin KeysOf(buffers[c])
    <3>1. buffers' = [buffers EXCEPT ![c] = @ \cup {<<c, k>>}]
      BY <1>7, <2>3 DEF Lookup, GetOrCreate
    <3>2. Buffered' = Buffered \cup {<<c, k>>} /\ <<c, k>>[2] = k
      BY <3>1 DEF Buffered
    <3>6. KeysOf(Buffered') = KeysOf(Buffered) \cup {k}
      BY <3>2 DEF KeysOf
    <3>3. Computed' = Computed \cup {k}
      <4>1. Computed = KeysOf(Buffered)
        BY <2>0 DEF Computed
      <4>2. Computed' = KeysOf(Buffered')
        BY <2>0 DEF Computed, KeysOf
      <4> QED BY <3>6, <4>1, <4>2
    <3>4. InHand # {}
      BY <1>7 DEF Lookup, InHand, Executing
    <3>5. k \notin Absorbed
      BY <2>0, <2>3 DEF Absorbed
    <3> QED BY <2>0, <2>1, <3>3, <3>4, <3>5 DEF Promise!Compute
  <2> QED BY <2>2, <2>3
<1>8. ASSUME NEW c \in Chunks, EndTask(c)
      PROVE  task[c] \in 0 .. MaxTasks - 1 /\ Promise!End(task[c])
  <2>0. phase = "parallel" /\ (phase' = "parallel") = (phase = "parallel")
    BY <1>8 DEF EndTask, Quiet
  <2>1. UNCHANGED <<Unclaimed, Computed, Absorbed>>
    BY <1>8 DEF EndTask, Unclaimed, Computed, Absorbed, Buffered, KeysOf
  <2>2. Executing' = Executing \ {c} /\ c \in Executing
    BY <1>8 DEF EndTask, Executing
  <2>3. InHand' = InHand \ {task[c]} /\ task[c] \in InHand
    BY <1>8, <2>2 DEF EndTask, InHand, ClaimedOnce
  <2>4. task[c] \in 0 .. MaxTasks - 1
    BY <1>8, TasksAssumption DEF EndTask
  <2> QED BY <2>0, <2>1, <2>3, <2>4 DEF Promise!End
<1>9. CASE UNCHANGED vars
  <2>1. UNCHANGED <<Unclaimed, InHand, Computed, Absorbed>>
    BY <1>9 DEF vars, chunkVars, Unclaimed, InHand, Executing, Computed, Absorbed, KeysOf, Buffered
  <2>2. (phase' = "parallel") = (phase = "parallel")
    BY <1>9 DEF vars
  <2> QED BY <2>1, <2>2 DEF Promise!vars
<1> QED BY <1>1, <1>2, <1>3, <1>4, <1>5, <1>6, <1>7, <1>8, <1>9
       DEF Next, ChunkStep, Promise!Next

\* run implements what it promises its caller: tasks begin and end exactly once
\* each, the table is stable in between, and no computed key is lost.
THEOREM ExecutorKeepsPromise == Spec => KeepsPromise
<1> QED BY InitIInv, Inductive, InitRefines, StepRefines, PTL
       DEF Spec, KeepsPromise, Promise!Spec
=============================================================================
