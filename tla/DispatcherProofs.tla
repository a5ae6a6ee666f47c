-------------------------- MODULE DispatcherProofs --------------------------
(***************************************************************************)
(* Proofs about Dispatcher for every set of jobs, files and workers: the   *)
(* first layer of the invariant (types and check slots), the second (where *)
(* files are, what parks and cancels rely on) with the safety properties   *)
(* that follow, and the refinement of JobAccounting.  A step of a lemma    *)
(* groups the conjuncts its action can disturb in the same way.            *)
(***************************************************************************)
EXTENDS DispatcherInvariant, FiniteSetTheorems, TLAPS

-----------------------------------------------------------------------------
(* Counting files.                                                         *)

(* Every set of files is finite and has a natural number of members.       *)
LEMMA CountFiles ==
    ASSUME NEW S, S \subseteq Items
    PROVE  /\ IsFiniteSet(S)
           /\ Cardinality(S) \in Nat
           /\ Cardinality(S) = 0 <=> S = {}
<1>1. IsFiniteSet(S) BY FS_Subset, DispatcherAssumption DEF DispatcherAssumption
<1>q. QED BY <1>1, FS_CardinalityType, FS_EmptySet

(* One file more, one file less.                                           *)
LEMMA CountOne ==
    ASSUME NEW S, S \subseteq Items, NEW i \in Items
    PROVE  /\ i \notin S => Cardinality(S \union {i}) = Cardinality(S) + 1
           /\ i \in S => /\ Cardinality(S \ {i}) = Cardinality(S) - 1
                         /\ Cardinality(S) > 0
<1>1. IsFiniteSet(S) /\ Cardinality(S) \in Nat /\ (Cardinality(S) = 0 <=> S = {})
      BY CountFiles
<1>2. i \notin S => Cardinality(S \union {i}) = Cardinality(S) + 1
      BY <1>1, FS_AddElement
<1>3. i \in S => Cardinality(S \ {i}) = Cardinality(S) - 1
      BY <1>1, FS_RemoveElement
<1>4. i \in S => Cardinality(S) > 0
      BY <1>1
<1>q. QED BY <1>2, <1>3, <1>4

(* Fewer files do not count more.                                          *)
LEMMA CountSubset ==
    ASSUME NEW S, S \subseteq Items, NEW T, T \subseteq S
    PROVE  /\ Cardinality(T) <= Cardinality(S)
           /\ Cardinality(T) = Cardinality(S) => T = S
<1>1. IsFiniteSet(S) BY CountFiles
<1>q. QED BY <1>1, FS_Subset

-----------------------------------------------------------------------------
(* The checking stage.                                                     *)

Slots == {i \in Items : check[i] \notin {"none", "left"}}

(* Initially nothing runs.                                                 *)
LEMMA InitSlotInv == Init => SlotInv
<1> SUFFICES ASSUME Init PROVE SlotInv OBVIOUS
<1> USE DEF Init
<1>1. \A j \in Jobs : ItemsOf(j) \subseteq Items BY DEF ItemsOf
<1>2. \A j \in Jobs : Cardinality(ItemsOf(j)) \in Nat BY <1>1, CountFiles
<1>3. TypeOK BY <1>1, <1>2, DispatcherAssumption
      DEF TypeOK, StateRecord, LoopIdle, DispatcherAssumption, CheckSteps, LoopSteps, RunnerSteps, CancelActors
<1>4. WorkersHold /\ LoopHolds /\ UncheckedWait /\ QueuedUnchecked /\ CheckpointsOwn
      BY <1>1 DEF WorkersHold, LoopHolds, UncheckedWait, QueuedUnchecked, CheckpointsOwn, LoopIdle, ItemsOf
<1>5. ChecksCounted
  <2> SUFFICES ASSUME NEW j \in Jobs PROVE Cardinality(ChecksOf(j)) = 0
      BY DEF ChecksCounted
  <2>1. ChecksOf(j) = {} BY DEF ChecksOf, ItemsOf
  <2>q. QED BY <2>1, FS_EmptySet
<1>6. CheckSlotsExact
  <2>1. Slots = {} BY DEF Slots
  <2>2. Cardinality(Slots) = 0 BY <2>1, FS_EmptySet
  <2>q. QED BY <2>2, DispatcherAssumption DEF CheckSlotsExact, Slots, DispatcherAssumption
<1>q. QED BY <1>3, <1>4, <1>5, <1>6 DEF SlotInv

(* The steps that leave the check threads and their counters alone, and    *)
(* put no file back into a check_queue.                                    *)
SlotFrame == UNCHANGED <<check, inFlight, activeChecks>> /\ checkQ' \subseteq checkQ

(* Such a step keeps what SlotInv says of the check threads.               *)
LEMMA SlotFrameKeeps ==
    ASSUME SlotInv, SlotFrame
    PROVE  UncheckedWait' /\ ChecksCounted' /\ CheckSlotsExact'
<1> USE DEF SlotFrame
<1>1. \A j \in Jobs : ChecksOf(j)' = ChecksOf(j) BY DEF ChecksOf, ItemsOf
<1>2. UncheckedWait' BY DEF SlotInv, UncheckedWait
<1>3. ChecksCounted' BY <1>1 DEF SlotInv, ChecksCounted
<1>4. CheckSlotsExact' BY DEF SlotInv, CheckSlotsExact
<1>q. QED BY <1>2, <1>3, <1>4

(* Every file has a job; NoItem is no file.                                *)
LEMMA JobOfType == \A i \in Items : JobOf[i] \in Jobs
BY DispatcherAssumption DEF DispatcherAssumption

(* The loop's and the workers' empty hand is no file.                      *)
LEMMA NoItemOutside == NoItem \notin Items
BY DispatcherAssumption DEF DispatcherAssumption

(* The runner's steps start no check and count none.                       *)
LEMMA RunnerSlots ==
    ASSUME SlotInv, NEW j \in Jobs,
           \/ QueuedCancelled(j)
           \/ End(j)
           \/ RequestPark(j)
           \/ ParkSnapshot(j)
           \/ ParkCommit(j)
           \/ ParkRefused(j)
           \/ ParkUncancelled(j)
           \/ RunnerCancels(j)
           \/ DetachRefused(j)
    PROVE  SlotInv'
<1> USE DEF trackerVars, queueVars, activeVars, countVars, checkVars, workerVars, cancelVars,
            runnerVars, userVars
<1>1. CASE QueuedCancelled(j)
  <2>1. SlotFrame BY <1>1 DEF QueuedCancelled, SlotFrame, Record
  <2>2. TypeOK' BY <1>1 DEF QueuedCancelled, SlotInv, TypeOK, StateRecord, RunnerSteps, ItemsOf
  <2>3. WorkersHold' /\ LoopHolds' /\ QueuedUnchecked' /\ CheckpointsOwn'
    BY <1>1 DEF QueuedCancelled, SlotInv, TypeOK, WorkersHold, LoopHolds, QueuedUnchecked, CheckpointsOwn, ItemsOf
  <2>q. QED BY <2>1, <2>2, <2>3, SlotFrameKeeps DEF SlotInv
<1>2. CASE End(j)
  <2>1. SlotFrame BY <1>2 DEF End, SlotFrame, Record
  <2>2. TypeOK' BY <1>2 DEF End, SlotInv, TypeOK, StateRecord, RunnerSteps, ItemsOf
  <2>3. WorkersHold' /\ LoopHolds' /\ QueuedUnchecked' /\ CheckpointsOwn'
    BY <1>2 DEF End, SlotInv, TypeOK, WorkersHold, LoopHolds, QueuedUnchecked, CheckpointsOwn, ItemsOf
  <2>q. QED BY <2>1, <2>2, <2>3, SlotFrameKeeps DEF SlotInv
<1>3. CASE RequestPark(j)
  <2>1. SlotFrame BY <1>3 DEF RequestPark, SlotFrame, Record
  <2>2. TypeOK' BY <1>3 DEF RequestPark, SlotInv, TypeOK, StateRecord, RunnerSteps, ItemsOf
  <2>3. WorkersHold' /\ LoopHolds' /\ QueuedUnchecked' /\ CheckpointsOwn'
    BY <1>3 DEF RequestPark, SlotInv, TypeOK, WorkersHold, LoopHolds, QueuedUnchecked, CheckpointsOwn, ItemsOf
  <2>q. QED BY <2>1, <2>2, <2>3, SlotFrameKeeps DEF SlotInv
<1>4. CASE ParkSnapshot(j)
  <2>1. SlotFrame BY <1>4 DEF ParkSnapshot, SlotFrame, Record
  <2>2. TypeOK'
    <3>1. snap' \in [Jobs -> StateRecord]
      BY <1>4 DEF ParkSnapshot, SlotInv, TypeOK, StateRecord, ItemsOf
    <3>q. QED BY <1>4, <3>1 DEF ParkSnapshot, SlotInv, TypeOK, RunnerSteps
  <2>3. WorkersHold' /\ LoopHolds' /\ QueuedUnchecked' /\ CheckpointsOwn'
    BY <1>4 DEF ParkSnapshot, SlotInv, TypeOK, WorkersHold, LoopHolds, QueuedUnchecked, CheckpointsOwn, ItemsOf
  <2>q. QED BY <2>1, <2>2, <2>3, SlotFrameKeeps DEF SlotInv
<1>5. CASE ParkCommit(j)
  <2>1. SlotFrame BY <1>5 DEF ParkCommit, SlotFrame, Record
  <2>2. TypeOK' BY <1>5 DEF ParkCommit, SlotInv, TypeOK, StateRecord, RunnerSteps, ItemsOf
  <2>3. WorkersHold' /\ LoopHolds' /\ QueuedUnchecked' /\ CheckpointsOwn'
    BY <1>5 DEF ParkCommit, SlotInv, TypeOK, WorkersHold, LoopHolds, QueuedUnchecked, CheckpointsOwn, ItemsOf
  <2>q. QED BY <2>1, <2>2, <2>3, SlotFrameKeeps DEF SlotInv
<1>6. CASE ParkRefused(j)
  <2>1. SlotFrame BY <1>6 DEF ParkRefused, SlotFrame, Record
  <2>2. TypeOK' BY <1>6 DEF ParkRefused, SlotInv, TypeOK, StateRecord, RunnerSteps, ItemsOf
  <2>3. WorkersHold' /\ LoopHolds' /\ QueuedUnchecked' /\ CheckpointsOwn'
    BY <1>6 DEF ParkRefused, SlotInv, TypeOK, WorkersHold, LoopHolds, QueuedUnchecked, CheckpointsOwn, ItemsOf
  <2>q. QED BY <2>1, <2>2, <2>3, SlotFrameKeeps DEF SlotInv
<1>7. CASE ParkUncancelled(j)
  <2>1. SlotFrame BY <1>7 DEF ParkUncancelled, SlotFrame, Record
  <2>2. TypeOK' BY <1>7 DEF ParkUncancelled, SlotInv, TypeOK, StateRecord, RunnerSteps, ItemsOf
  <2>3. WorkersHold' /\ LoopHolds' /\ QueuedUnchecked' /\ CheckpointsOwn'
    BY <1>7 DEF ParkUncancelled, SlotInv, TypeOK, WorkersHold, LoopHolds, QueuedUnchecked, CheckpointsOwn, ItemsOf
  <2>q. QED BY <2>1, <2>2, <2>3, SlotFrameKeeps DEF SlotInv
<1>8. CASE RunnerCancels(j)
  <2>1. SlotFrame BY <1>8 DEF RunnerCancels, SlotFrame, Record
  <2>2. TypeOK'
    <3>1. cancelStep' \in [CancelActors -> [Jobs -> {"none", "flagged", "draining", "drained"}]]
      BY <1>8 DEF RunnerCancels, SlotInv, TypeOK, CancelActors
    <3>2. runner' \in [Jobs -> RunnerSteps] /\ row' \in [Jobs -> {"active", "cancelled", "completed"}]
      BY <1>8 DEF RunnerCancels, SlotInv, TypeOK, RunnerSteps
    <3>q. QED BY <1>8, <3>1, <3>2 DEF RunnerCancels, SlotInv, TypeOK, StateRecord
  <2>3. WorkersHold' /\ LoopHolds' /\ QueuedUnchecked' /\ CheckpointsOwn'
    BY <1>8 DEF RunnerCancels, SlotInv, TypeOK, WorkersHold, LoopHolds, QueuedUnchecked, CheckpointsOwn, ItemsOf
  <2>q. QED BY <2>1, <2>2, <2>3, SlotFrameKeeps DEF SlotInv
<1>9. CASE DetachRefused(j)
  <2>1. SlotFrame BY <1>9 DEF DetachRefused, SlotFrame, Record
  <2>2. TypeOK' BY <1>9 DEF DetachRefused, SlotInv, TypeOK, StateRecord, RunnerSteps, ItemsOf
  <2>3. WorkersHold' /\ LoopHolds' /\ QueuedUnchecked' /\ CheckpointsOwn'
    BY <1>9 DEF DetachRefused, SlotInv, TypeOK, WorkersHold, LoopHolds, QueuedUnchecked, CheckpointsOwn, ItemsOf
  <2>q. QED BY <2>1, <2>2, <2>3, SlotFrameKeeps DEF SlotInv
<1>q. QED BY <1>1, <1>2, <1>3, <1>4, <1>5, <1>6, <1>7, <1>8, <1>9

(* Users and hours touch no check thread.                                  *)
LEMMA UserSlots ==
    ASSUME SlotInv, NEW j \in Jobs,
           \/ RequestCancel(j)
           \/ CancelRow(j)
           \/ TogglePause(j)
           \/ Close(j)
           \/ Open(j)
           \/ Cleanup(j)
           \/ LoopCancels(j)
    PROVE  SlotInv'
<1> USE DEF trackerVars, queueVars, activeVars, countVars, checkVars, workerVars, cancelVars,
            runnerVars, userVars
<1>1. CASE RequestCancel(j)
  <2>1. SlotFrame BY <1>1 DEF RequestCancel, SlotFrame, Record
  <2>2. TypeOK' BY <1>1 DEF RequestCancel, SlotInv, TypeOK, StateRecord
  <2>3. WorkersHold' /\ LoopHolds' /\ QueuedUnchecked' /\ CheckpointsOwn'
    BY <1>1 DEF RequestCancel, SlotInv, TypeOK, WorkersHold, LoopHolds, QueuedUnchecked, CheckpointsOwn
  <2>q. QED BY <2>1, <2>2, <2>3, SlotFrameKeeps DEF SlotInv
<1>2. CASE CancelRow(j)
  <2>1. SlotFrame BY <1>2 DEF CancelRow, SlotFrame, Record
  <2>2. TypeOK' BY <1>2 DEF CancelRow, SlotInv, TypeOK, StateRecord
  <2>3. WorkersHold' /\ LoopHolds' /\ QueuedUnchecked' /\ CheckpointsOwn'
    BY <1>2 DEF CancelRow, SlotInv, TypeOK, WorkersHold, LoopHolds, QueuedUnchecked, CheckpointsOwn
  <2>q. QED BY <2>1, <2>2, <2>3, SlotFrameKeeps DEF SlotInv
<1>3. CASE TogglePause(j)
  <2>1. SlotFrame BY <1>3 DEF TogglePause, SlotFrame, Record
  <2>2. TypeOK' BY <1>3 DEF TogglePause, SlotInv, TypeOK, StateRecord
  <2>3. WorkersHold' /\ LoopHolds' /\ QueuedUnchecked' /\ CheckpointsOwn'
    BY <1>3 DEF TogglePause, SlotInv, TypeOK, WorkersHold, LoopHolds, QueuedUnchecked, CheckpointsOwn
  <2>q. QED BY <2>1, <2>2, <2>3, SlotFrameKeeps DEF SlotInv
<1>4. CASE Close(j)
  <2>1. SlotFrame BY <1>4 DEF Close, SlotFrame, Record
  <2>2. TypeOK' BY <1>4 DEF Close, SlotInv, TypeOK, StateRecord
  <2>3. WorkersHold' /\ LoopHolds' /\ QueuedUnchecked' /\ CheckpointsOwn'
    BY <1>4 DEF Close, SlotInv, TypeOK, WorkersHold, LoopHolds, QueuedUnchecked, CheckpointsOwn
  <2>q. QED BY <2>1, <2>2, <2>3, SlotFrameKeeps DEF SlotInv
<1>5. CASE Open(j)
  <2>1. SlotFrame BY <1>5 DEF Open, SlotFrame, Record
  <2>2. TypeOK' BY <1>5 DEF Open, SlotInv, TypeOK, StateRecord
  <2>3. WorkersHold' /\ LoopHolds' /\ QueuedUnchecked' /\ CheckpointsOwn'
    BY <1>5 DEF Open, SlotInv, TypeOK, WorkersHold, LoopHolds, QueuedUnchecked, CheckpointsOwn
  <2>q. QED BY <2>1, <2>2, <2>3, SlotFrameKeeps DEF SlotInv
<1>6. CASE Cleanup(j)
  <2>1. SlotFrame BY <1>6 DEF Cleanup, SlotFrame, Record
  <2>2. TypeOK' BY <1>6 DEF Cleanup, SlotInv, TypeOK, StateRecord
  <2>3. WorkersHold' /\ LoopHolds' /\ QueuedUnchecked' /\ CheckpointsOwn'
    BY <1>6 DEF Cleanup, SlotInv, TypeOK, WorkersHold, LoopHolds, QueuedUnchecked, CheckpointsOwn
  <2>q. QED BY <2>1, <2>2, <2>3, SlotFrameKeeps DEF SlotInv
<1>7. CASE LoopCancels(j)
  <2>1. SlotFrame BY <1>7 DEF LoopCancels, SlotFrame, Record
  <2>2. TypeOK'
    <3>1. cancelStep' \in [CancelActors -> [Jobs -> {"none", "flagged", "draining", "drained"}]]
      BY <1>7 DEF LoopCancels, SlotInv, TypeOK, CancelActors
    <3>q. QED BY <1>7, <3>1 DEF LoopCancels, LoopAt, LoopSteps, SlotInv, TypeOK, StateRecord
  <2>3. WorkersHold' /\ LoopHolds' /\ QueuedUnchecked' /\ CheckpointsOwn'
    BY <1>7 DEF LoopCancels, SlotInv, TypeOK, WorkersHold, LoopHolds, QueuedUnchecked, CheckpointsOwn, LoopAt
  <2>q. QED BY <2>1, <2>2, <2>3, SlotFrameKeeps DEF SlotInv
<1>q. QED BY <1>1, <1>2, <1>3, <1>4, <1>5, <1>6, <1>7

(* A cancel clears queues; check threads go on.                            *)
LEMMA CancelSlots ==
    ASSUME SlotInv, NEW j \in Jobs, NEW c \in CancelActors,
           \/ CancelReads(c, j)
           \/ CancelClears(c, j)
           \/ CancelDone(c, j)
    PROVE  SlotInv'
<1> USE DEF trackerVars, queueVars, activeVars, countVars, checkVars, workerVars, cancelVars,
            runnerVars, userVars
<1>1. CASE CancelReads(c, j)
  <2>1. SlotFrame BY <1>1 DEF CancelReads, SlotFrame, Record
  <2>2. TypeOK'
    <3>1. cancelStep' \in [CancelActors -> [Jobs -> {"none", "flagged", "draining", "drained"}]]
      BY <1>1 DEF CancelReads, SlotInv, TypeOK
    <3>q. QED BY <1>1, <3>1 DEF CancelReads, SlotInv, TypeOK, StateRecord
  <2>3. WorkersHold' /\ LoopHolds' /\ QueuedUnchecked' /\ CheckpointsOwn'
    BY <1>1 DEF CancelReads, SlotInv, TypeOK, WorkersHold, LoopHolds, QueuedUnchecked, CheckpointsOwn
  <2>q. QED BY <2>1, <2>2, <2>3, SlotFrameKeeps DEF SlotInv
<1>2. CASE CancelClears(c, j)
  <2>1. SlotFrame BY <1>2 DEF CancelClears, SlotFrame, Record
  <2>2. TypeOK'
    <3>1. cancelStep' \in [CancelActors -> [Jobs -> {"none", "flagged", "draining", "drained"}]]
      BY <1>2 DEF CancelClears, SlotInv, TypeOK
    <3>2. Cardinality(seen[j]) \in Nat
      BY CountFiles DEF SlotInv, TypeOK
    <3>3. completed' \in [Jobs -> Nat]
      BY <1>2, <3>2 DEF CancelClears, SlotInv, TypeOK
    <3>q. QED BY <1>2, <3>1, <3>3 DEF CancelClears, SlotInv, TypeOK, StateRecord
  <2>3. WorkersHold' /\ LoopHolds' /\ QueuedUnchecked' /\ CheckpointsOwn'
    BY <1>2 DEF CancelClears, SlotInv, TypeOK, WorkersHold, LoopHolds, QueuedUnchecked, CheckpointsOwn
  <2>q. QED BY <2>1, <2>2, <2>3, SlotFrameKeeps DEF SlotInv
<1>3. CASE CancelDone(c, j)
  <2>1. SlotFrame BY <1>3 DEF CancelDone, SlotFrame, Record
  <2>2. TypeOK'
    <3>1. cancelStep' \in [CancelActors -> [Jobs -> {"none", "flagged", "draining", "drained"}]]
      BY <1>3 DEF CancelDone, SlotInv, TypeOK
    <3>q. QED BY <1>3, <3>1 DEF CancelDone, LoopIdle, LoopSteps, RunnerSteps, SlotInv, TypeOK, StateRecord
  <2>3. WorkersHold' /\ LoopHolds' /\ QueuedUnchecked' /\ CheckpointsOwn'
    BY <1>3 DEF CancelDone, SlotInv, TypeOK, WorkersHold, LoopHolds, QueuedUnchecked, CheckpointsOwn, LoopIdle
  <2>q. QED BY <2>1, <2>2, <2>3, SlotFrameKeeps DEF SlotInv
<1>q. QED BY <1>1, <1>2, <1>3

(* The loop's steps after a pick.                                          *)
LEMMA LoopSlots ==
    ASSUME SlotInv, 
           \/ SelectJobs
           \/ AssignNothing
           \/ Requeue
           \/ RequeueFails
           \/ Settle
           \/ Finish
           \/ Release
           \/ SettleUnstarted
           \/ FinishUnstarted
    PROVE  SlotInv'
<1> USE DEF trackerVars, queueVars, activeVars, countVars, checkVars, workerVars, cancelVars,
            runnerVars, userVars
<1>1. CASE SelectJobs
  <2>1. SlotFrame BY <1>1 DEF SelectJobs, SlotFrame, Record
  <2>2. TypeOK' BY <1>1 DEF SelectJobs, SlotInv, TypeOK, StateRecord, LoopSteps, LoopIdle
  <2>3. WorkersHold' /\ LoopHolds' /\ QueuedUnchecked' /\ CheckpointsOwn'
    BY <1>1 DEF SelectJobs, SlotInv, TypeOK, WorkersHold, LoopHolds, QueuedUnchecked, CheckpointsOwn, LoopIdle
  <2>q. QED BY <2>1, <2>2, <2>3, SlotFrameKeeps DEF SlotInv
<1>2. CASE AssignNothing
  <2>1. SlotFrame BY <1>2 DEF AssignNothing, SlotFrame, Record
  <2>2. TypeOK' BY <1>2 DEF AssignNothing, SlotInv, TypeOK, StateRecord, LoopIdle, LoopSteps
  <2>3. WorkersHold' /\ LoopHolds' /\ QueuedUnchecked' /\ CheckpointsOwn'
    BY <1>2 DEF AssignNothing, SlotInv, TypeOK, WorkersHold, LoopHolds, QueuedUnchecked, CheckpointsOwn, LoopIdle
  <2>q. QED BY <2>1, <2>2, <2>3, SlotFrameKeeps DEF SlotInv
<1>3. CASE Requeue
  <2>1. SlotFrame BY <1>3 DEF Requeue, SlotFrame, Record
  <2>2. loop.item \in Items /\ JobOf[loop.item] \in Jobs
    BY <1>3, JobOfType DEF Requeue, SlotInv, LoopHolds
  <2>3. TypeOK' BY <1>3, <2>2 DEF Requeue, SlotInv, TypeOK, StateRecord, LoopIdle, LoopSteps, Decrement
  <2>4. WorkersHold' /\ LoopHolds' /\ QueuedUnchecked' /\ CheckpointsOwn'
    BY <1>3 DEF Requeue, SlotInv, TypeOK, WorkersHold, LoopHolds, QueuedUnchecked, CheckpointsOwn, LoopIdle
  <2>q. QED BY <2>1, <2>3, <2>4, SlotFrameKeeps DEF SlotInv
<1>4. CASE RequeueFails
  <2>1. SlotFrame BY <1>4 DEF RequeueFails, SlotFrame, Record
  <2>2. TypeOK' BY <1>4 DEF RequeueFails, SlotInv, TypeOK, StateRecord, LoopAt, LoopSteps
  <2>3. WorkersHold' /\ LoopHolds' /\ QueuedUnchecked' /\ CheckpointsOwn'
    BY <1>4 DEF RequeueFails, SlotInv, TypeOK, WorkersHold, LoopHolds, QueuedUnchecked, CheckpointsOwn, LoopAt
  <2>q. QED BY <2>1, <2>2, <2>3, SlotFrameKeeps DEF SlotInv
<1>5. CASE Settle
  <2>1. SlotFrame BY <1>5 DEF Settle, SlotFrame, Record
  <2>2. loop.item \in Items /\ JobOf[loop.item] \in Jobs
    BY <1>5, JobOfType DEF Settle, SlotInv, LoopHolds
  <2>3. TypeOK' BY <1>5, <2>2 DEF Settle, SlotInv, TypeOK, StateRecord, Record, LoopAt, LoopSteps
  <2>4. WorkersHold' /\ LoopHolds' /\ QueuedUnchecked' /\ CheckpointsOwn'
    BY <1>5 DEF Settle, SlotInv, TypeOK, WorkersHold, LoopHolds, QueuedUnchecked, CheckpointsOwn, Record, LoopAt
  <2>q. QED BY <2>1, <2>3, <2>4, SlotFrameKeeps DEF SlotInv
<1>6. CASE Finish
  <2>1. SlotFrame BY <1>6 DEF Finish, SlotFrame, Record
  <2>2. loop.item \in Items /\ JobOf[loop.item] \in Jobs
    BY <1>6, JobOfType DEF Finish, SlotInv, LoopHolds
  <2>3. TypeOK' BY <1>6, <2>2 DEF Finish, SlotInv, TypeOK, StateRecord, LoopAt, LoopSteps
  <2>4. WorkersHold' /\ LoopHolds' /\ QueuedUnchecked' /\ CheckpointsOwn'
    BY <1>6 DEF Finish, SlotInv, TypeOK, WorkersHold, LoopHolds, QueuedUnchecked, CheckpointsOwn, LoopAt
  <2>q. QED BY <2>1, <2>3, <2>4, SlotFrameKeeps DEF SlotInv
<1>7. CASE Release
  <2>1. SlotFrame BY <1>7 DEF Release, SlotFrame, Record
  <2>2. loop.item \in Items /\ JobOf[loop.item] \in Jobs
    BY <1>7, JobOfType DEF Release, SlotInv, LoopHolds
  <2>3. TypeOK' BY <1>7, <2>2 DEF Release, SlotInv, TypeOK, StateRecord, LoopIdle, LoopSteps, Decrement
  <2>4. WorkersHold' /\ LoopHolds' /\ QueuedUnchecked' /\ CheckpointsOwn'
    BY <1>7 DEF Release, SlotInv, TypeOK, WorkersHold, LoopHolds, QueuedUnchecked, CheckpointsOwn, LoopIdle
  <2>q. QED BY <2>1, <2>3, <2>4, SlotFrameKeeps DEF SlotInv
<1>8. CASE SettleUnstarted
  <2>1. SlotFrame BY <1>8 DEF SettleUnstarted, SlotFrame, Record
  <2>2. loop.item \in Items /\ JobOf[loop.item] \in Jobs
    BY <1>8, JobOfType DEF SettleUnstarted, SlotInv, LoopHolds
  <2>3. TypeOK' BY <1>8, <2>2 DEF SettleUnstarted, SlotInv, TypeOK, StateRecord, Record, LoopAt, LoopIdle, LoopSteps
  <2>4. WorkersHold' /\ LoopHolds' /\ QueuedUnchecked' /\ CheckpointsOwn'
    BY <1>8 DEF SettleUnstarted, SlotInv, TypeOK, WorkersHold, LoopHolds, QueuedUnchecked, CheckpointsOwn, Record, LoopAt, LoopIdle
  <2>q. QED BY <2>1, <2>3, <2>4, SlotFrameKeeps DEF SlotInv
<1>9. CASE FinishUnstarted
  <2>1. SlotFrame BY <1>9 DEF FinishUnstarted, SlotFrame, Record
  <2>2. loop.item \in Items /\ JobOf[loop.item] \in Jobs
    BY <1>9, JobOfType DEF FinishUnstarted, SlotInv, LoopHolds
  <2>3. TypeOK' BY <1>9, <2>2 DEF FinishUnstarted, SlotInv, TypeOK, StateRecord, LoopIdle, LoopSteps
  <2>4. WorkersHold' /\ LoopHolds' /\ QueuedUnchecked' /\ CheckpointsOwn'
    BY <1>9 DEF FinishUnstarted, SlotInv, TypeOK, WorkersHold, LoopHolds, QueuedUnchecked, CheckpointsOwn, LoopIdle
  <2>q. QED BY <2>1, <2>3, <2>4, SlotFrameKeeps DEF SlotInv
<1>q. QED BY <1>1, <1>2, <1>3, <1>4, <1>5, <1>6, <1>7, <1>8, <1>9

(* Workers hold a file exactly while they are not idle.                    *)
LEMMA WorkerSlots ==
    ASSUME SlotInv, NEW w \in Workers,
           \/ WorkerEnds(w)
           \/ WorkerGivesBack(w)
           \/ Reap(w)
    PROVE  SlotInv'
<1> USE DEF trackerVars, queueVars, activeVars, countVars, checkVars, workerVars, cancelVars,
            runnerVars, userVars
<1>1. CASE WorkerEnds(w)
  <2>1. SlotFrame BY <1>1 DEF WorkerEnds, SlotFrame, Record
  <2>2. TypeOK' BY <1>1 DEF WorkerEnds, SlotInv, TypeOK, StateRecord
  <2>3. WorkersHold' /\ LoopHolds' /\ QueuedUnchecked' /\ CheckpointsOwn'
    BY <1>1 DEF WorkerEnds, SlotInv, TypeOK, WorkersHold, LoopHolds, QueuedUnchecked, CheckpointsOwn
  <2>q. QED BY <2>1, <2>2, <2>3, SlotFrameKeeps DEF SlotInv
<1>2. CASE WorkerGivesBack(w)
  <2>1. SlotFrame BY <1>2 DEF WorkerGivesBack, SlotFrame, Record
  <2>2. TypeOK' BY <1>2 DEF WorkerGivesBack, SlotInv, TypeOK, StateRecord, WorkersHold
  <2>3. WorkersHold' /\ LoopHolds' /\ QueuedUnchecked' /\ CheckpointsOwn'
    BY <1>2 DEF WorkerGivesBack, SlotInv, TypeOK, WorkersHold, LoopHolds, QueuedUnchecked, CheckpointsOwn
  <2>q. QED BY <2>1, <2>2, <2>3, SlotFrameKeeps DEF SlotInv
<1>3. CASE Reap(w)
  <2>1. SlotFrame BY <1>3 DEF Reap, SlotFrame, Record
  <2>2. TypeOK' BY <1>3 DEF Reap, SlotInv, TypeOK, StateRecord, LoopAt, LoopIdle, LoopSteps, WorkersHold
  <2>3. WorkersHold' /\ LoopHolds' /\ QueuedUnchecked' /\ CheckpointsOwn'
    BY <1>3, NoItemOutside DEF Reap, SlotInv, TypeOK, WorkersHold, LoopHolds, QueuedUnchecked, CheckpointsOwn, LoopAt, LoopIdle
  <2>q. QED BY <2>1, <2>2, <2>3, SlotFrameKeeps DEF SlotInv
<1>q. QED BY <1>1, <1>2, <1>3

(* An assignment fills an idle worker.                                     *)
LEMMA AssignSlots ==
    ASSUME SlotInv, NEW w \in Workers, NEW i \in Items,
           \/ Assign(w, i)
    PROVE  SlotInv'
<1> USE DEF trackerVars, queueVars, activeVars, countVars, checkVars, workerVars, cancelVars,
            runnerVars, userVars
<1>1. CASE Assign(w, i)
  <2>1. SlotFrame BY <1>1 DEF Assign, SlotFrame, Record
  <2>2. JobOf[i] \in Jobs BY JobOfType
  <2>3. TypeOK' BY <1>1, <2>2 DEF Assign, SlotInv, TypeOK, StateRecord, LoopIdle, LoopSteps
  <2>4. WorkersHold' /\ LoopHolds' /\ QueuedUnchecked' /\ CheckpointsOwn'
    BY <1>1, NoItemOutside DEF Assign, SlotInv, TypeOK, WorkersHold, LoopHolds, QueuedUnchecked, CheckpointsOwn, LoopIdle, Eligible, FreeFor
  <2>q. QED BY <2>1, <2>3, <2>4, SlotFrameKeeps DEF SlotInv
<1>q. QED BY <1>1

(* A file the loop takes off item_queue goes into its hands.               *)
LEMMA AssignItemSlots ==
    ASSUME SlotInv, NEW i \in Items,
           \/ AssignRaises(i)
           \/ AssignStrands(i)
    PROVE  SlotInv'
<1> USE DEF trackerVars, queueVars, activeVars, countVars, checkVars, workerVars, cancelVars,
            runnerVars, userVars
<1>1. CASE AssignRaises(i)
  <2>1. SlotFrame BY <1>1 DEF AssignRaises, SlotFrame, Record
  <2>2. JobOf[i] \in Jobs BY JobOfType
  <2>3. TypeOK' BY <1>1, <2>2 DEF AssignRaises, SlotInv, TypeOK, StateRecord, LoopAt, LoopSteps
  <2>4. WorkersHold' /\ LoopHolds' /\ QueuedUnchecked' /\ CheckpointsOwn'
    BY <1>1 DEF AssignRaises, SlotInv, TypeOK, WorkersHold, LoopHolds, QueuedUnchecked, CheckpointsOwn, LoopAt, Eligible
  <2>q. QED BY <2>1, <2>3, <2>4, SlotFrameKeeps DEF SlotInv
<1>2. CASE AssignStrands(i)
  <2>1. SlotFrame BY <1>2 DEF AssignStrands, SlotFrame, Record
  <2>2. JobOf[i] \in Jobs BY JobOfType
  <2>3. TypeOK' BY <1>2, <2>2 DEF AssignStrands, SlotInv, TypeOK, StateRecord, LoopAt, LoopSteps
  <2>4. WorkersHold' /\ LoopHolds' /\ QueuedUnchecked' /\ CheckpointsOwn'
    BY <1>2 DEF AssignStrands, SlotInv, TypeOK, WorkersHold, LoopHolds, QueuedUnchecked, CheckpointsOwn, LoopAt, Eligible
  <2>q. QED BY <2>1, <2>3, <2>4, SlotFrameKeeps DEF SlotInv
<1>q. QED BY <1>1, <1>2

(* A check thread that goes on keeps its slot.                              *)
SlotMove(i) ==
    /\ check[i] \notin {"none", "left"}
    /\ \E step \in CheckSteps \ {"none", "left"} : check' = [check EXCEPT ![i] = step]
    /\ UNCHANGED <<inFlight, activeChecks, checkQ>>

(* A check thread that moves on keeps its slot and its count.              *)
LEMMA SlotMoveKeeps ==
    ASSUME SlotInv, NEW i \in Items, SlotMove(i)
    PROVE  UncheckedWait' /\ ChecksCounted' /\ CheckSlotsExact'
<1> PICK step \in CheckSteps \ {"none", "left"} : check' = [check EXCEPT ![i] = step]
    BY DEF SlotMove
<1>0. check \in [Items -> CheckSteps] BY DEF SlotInv, TypeOK
<1>1. \A j \in Jobs : ChecksOf(j)' = ChecksOf(j)
      BY <1>0 DEF ChecksOf, ItemsOf, SlotMove
<1>2. Slots' = Slots BY <1>0 DEF Slots, SlotMove
<1>3. UncheckedWait' BY <1>0 DEF SlotInv, UncheckedWait, SlotMove
<1>4. ChecksCounted' BY <1>1 DEF SlotInv, ChecksCounted, SlotMove
<1>5. CheckSlotsExact' BY <1>2 DEF SlotInv, CheckSlotsExact, Slots, SlotMove
<1>q. QED BY <1>3, <1>4, <1>5

(* The steps of a check thread that keep its slot.                         *)
LEMMA CheckSlots ==
    ASSUME SlotInv, NEW i \in Items,
           \/ CheckBegins(i) \/ CheckNeedsWorker(i) \/ CheckAppends(i)
           \/ CheckDecides(i) \/ CheckRecords(i) \/ CheckFinishes(i)
    PROVE  SlotInv'
<1> USE DEF trackerVars, queueVars, activeVars, countVars, checkVars, workerVars, cancelVars,
            runnerVars, userVars
<1>1. CASE CheckBegins(i)
  <2>1. SlotMove(i) BY <1>1 DEF CheckBegins, SlotMove, CheckGoes, CheckSteps
  <2>2. TypeOK' BY <1>1, JobOfType DEF CheckBegins, SlotInv, TypeOK, StateRecord, CheckGoes, CheckSteps
  <2>3. WorkersHold' /\ LoopHolds' /\ QueuedUnchecked' /\ CheckpointsOwn'
    BY <1>1 DEF CheckBegins, SlotInv, TypeOK, WorkersHold, LoopHolds, QueuedUnchecked, CheckpointsOwn,
                  CheckGoes, ItemsOf
  <2>q. QED BY <2>1, <2>2, <2>3, SlotMoveKeeps DEF SlotInv
<1>2. CASE CheckNeedsWorker(i)
  <2>1. SlotMove(i) BY <1>2 DEF CheckNeedsWorker, SlotMove, CheckGoes, CheckSteps
  <2>2. TypeOK' BY <1>2, JobOfType DEF CheckNeedsWorker, SlotInv, TypeOK, StateRecord, CheckGoes, CheckSteps
  <2>3. WorkersHold' /\ LoopHolds' /\ QueuedUnchecked' /\ CheckpointsOwn'
    BY <1>2 DEF CheckNeedsWorker, SlotInv, TypeOK, WorkersHold, LoopHolds, QueuedUnchecked, CheckpointsOwn,
                  CheckGoes, ItemsOf
  <2>q. QED BY <2>1, <2>2, <2>3, SlotMoveKeeps DEF SlotInv
<1>3. CASE CheckAppends(i)
  <2>1. SlotMove(i) BY <1>3 DEF CheckAppends, SlotMove, CheckGoes, CheckSteps
  <2>2. TypeOK' BY <1>3, JobOfType DEF CheckAppends, SlotInv, TypeOK, StateRecord, CheckGoes, CheckSteps
  <2>3. WorkersHold' /\ LoopHolds' /\ QueuedUnchecked' /\ CheckpointsOwn'
    BY <1>3 DEF CheckAppends, SlotInv, TypeOK, WorkersHold, LoopHolds, QueuedUnchecked, CheckpointsOwn,
                  CheckGoes, ItemsOf
  <2>q. QED BY <2>1, <2>2, <2>3, SlotMoveKeeps DEF SlotInv
<1>4. CASE CheckDecides(i)
  <2>1. SlotMove(i) BY <1>4 DEF CheckDecides, SlotMove, CheckGoes, CheckSteps
  <2>2. TypeOK' BY <1>4, JobOfType DEF CheckDecides, SlotInv, TypeOK, StateRecord, CheckGoes, CheckSteps
  <2>3. WorkersHold' /\ LoopHolds' /\ QueuedUnchecked' /\ CheckpointsOwn'
    BY <1>4 DEF CheckDecides, SlotInv, TypeOK, WorkersHold, LoopHolds, QueuedUnchecked, CheckpointsOwn,
                  CheckGoes, ItemsOf
  <2>q. QED BY <2>1, <2>2, <2>3, SlotMoveKeeps DEF SlotInv
<1>5. CASE CheckRecords(i)
  <2>1. SlotMove(i) BY <1>5 DEF CheckRecords, SlotMove, CheckGoes, CheckSteps
  <2>2. TypeOK' BY <1>5, JobOfType DEF CheckRecords, SlotInv, TypeOK, StateRecord, CheckGoes, CheckSteps, Record
  <2>3. WorkersHold' /\ LoopHolds' /\ QueuedUnchecked' /\ CheckpointsOwn'
    BY <1>5 DEF CheckRecords, SlotInv, TypeOK, WorkersHold, LoopHolds, QueuedUnchecked, CheckpointsOwn,
                  CheckGoes, ItemsOf, Record
  <2>q. QED BY <2>1, <2>2, <2>3, SlotMoveKeeps DEF SlotInv
<1>6. CASE CheckFinishes(i)
  <2>1. SlotMove(i) BY <1>6 DEF CheckFinishes, SlotMove, CheckGoes, CheckSteps
  <2>2. TypeOK' BY <1>6, JobOfType DEF CheckFinishes, SlotInv, TypeOK, StateRecord, CheckGoes, CheckSteps
  <2>3. WorkersHold' /\ LoopHolds' /\ QueuedUnchecked' /\ CheckpointsOwn'
    BY <1>6 DEF CheckFinishes, SlotInv, TypeOK, WorkersHold, LoopHolds, QueuedUnchecked, CheckpointsOwn,
                  CheckGoes, ItemsOf
  <2>q. QED BY <2>1, <2>2, <2>3, SlotMoveKeeps DEF SlotInv
<1>q. QED BY <1>1, <1>2, <1>3, <1>4, <1>5, <1>6

(* A started thread keeps the slot the pick took.                          *)
LEMMA StartCheckSlots == ASSUME SlotInv, StartCheck PROVE SlotInv'
<1> USE DEF trackerVars, queueVars, activeVars, countVars, checkVars, workerVars, cancelVars,
            runnerVars, userVars
<1>1. loop.item \in Items /\ check[loop.item] = "starting"
      BY DEF StartCheck, SlotInv, LoopHolds
<1>2. SlotMove(loop.item) BY <1>1 DEF StartCheck, SlotMove, CheckSteps
<1>3. TypeOK' BY <1>1 DEF StartCheck, SlotInv, TypeOK, StateRecord, CheckSteps, LoopIdle, LoopSteps
<1>4. WorkersHold' /\ LoopHolds' /\ QueuedUnchecked' /\ CheckpointsOwn'
  BY <1>1 DEF StartCheck, SlotInv, TypeOK, WorkersHold, LoopHolds, QueuedUnchecked, CheckpointsOwn,
              LoopIdle, ItemsOf
<1>q. QED BY <1>1, <1>2, <1>3, <1>4, SlotMoveKeeps DEF SlotInv

(* A pick takes an in-flight slot and counts in active_checks.             *)
LEMMA PickCheckSlots == ASSUME SlotInv, NEW i \in Items, PickCheck(i) PROVE SlotInv'
<1> USE DEF trackerVars, queueVars, activeVars, countVars, checkVars, workerVars, cancelVars,
            runnerVars, userVars
<1> DEFINE k == JobOf[i]
<1>0. /\ check[i] = "none" /\ k \in Jobs
      /\ check \in [Items -> CheckSteps]
      /\ check' = [check EXCEPT ![i] = "starting"]
      BY JobOfType DEF PickCheck, SlotInv, UncheckedWait, TypeOK
<1>1. \A j \in Jobs : ChecksOf(j)' = IF j = k THEN ChecksOf(k) \union {i} ELSE ChecksOf(j)
      BY <1>0 DEF ChecksOf, ItemsOf
<1>2. Cardinality(ChecksOf(k) \union {i}) = Cardinality(ChecksOf(k)) + 1
  <2>1. ChecksOf(k) \subseteq Items /\ i \notin ChecksOf(k) BY <1>0 DEF ChecksOf, ItemsOf
  <2>q. QED BY <2>1, CountOne
<1>3. Slots' = Slots \union {i} BY <1>0 DEF Slots
<1>4. Cardinality(Slots \union {i}) = Cardinality(Slots) + 1
  <2>1. Slots \subseteq Items /\ i \notin Slots BY <1>0 DEF Slots
  <2>q. QED BY <2>1, CountOne
<1>5. TypeOK' BY <1>0 DEF PickCheck, SlotInv, TypeOK, StateRecord, CheckSteps, LoopAt, LoopSteps
<1>6. WorkersHold' /\ LoopHolds' /\ QueuedUnchecked' /\ CheckpointsOwn' /\ UncheckedWait'
  BY <1>0 DEF PickCheck, SlotInv, TypeOK, WorkersHold, LoopHolds, QueuedUnchecked, CheckpointsOwn,
              UncheckedWait, LoopAt, ItemsOf
<1>7. ChecksCounted'
  <2> SUFFICES ASSUME NEW j \in Jobs PROVE activeChecks'[j] = Cardinality(ChecksOf(j)')
      BY DEF ChecksCounted
  <2>q. QED BY <1>0, <1>1, <1>2 DEF PickCheck, SlotInv, TypeOK, ChecksCounted
<1>8. CheckSlotsExact'
  <2>1. inFlight = Cardinality(Slots) /\ inFlight <= MaxChecks
    BY DEF SlotInv, CheckSlotsExact, Slots
  <2>2. inFlight' = Cardinality(Slots') /\ inFlight' <= MaxChecks
    BY <1>3, <1>4, <2>1, DispatcherAssumption DEF PickCheck, SlotInv, TypeOK, DispatcherAssumption
  <2>q. QED BY <2>2 DEF CheckSlotsExact, Slots
<1>q. QED BY <1>5, <1>6, <1>7, <1>8 DEF SlotInv

(* A thread that could not start gives both back.                          *)
LEMMA StartCheckFailsSlots == ASSUME SlotInv, StartCheckFails PROVE SlotInv'
<1> USE DEF trackerVars, queueVars, activeVars, countVars, checkVars, workerVars, cancelVars,
            runnerVars, userVars
<1> DEFINE i == loop.item
           k == JobOf[i]
<1>0. /\ i \in Items /\ check[i] = "starting" /\ k \in Jobs
      /\ check \in [Items -> CheckSteps]
      /\ check' = [check EXCEPT ![i] = "none"]
      BY JobOfType DEF StartCheckFails, SlotInv, LoopHolds, TypeOK
<1>1. \A j \in Jobs : ChecksOf(j)' = IF j = k THEN ChecksOf(k) \ {i} ELSE ChecksOf(j)
      BY <1>0 DEF ChecksOf, ItemsOf
<1>2. Cardinality(ChecksOf(k) \ {i}) = Cardinality(ChecksOf(k)) - 1 /\ Cardinality(ChecksOf(k)) > 0
  <2>1. ChecksOf(k) \subseteq Items /\ i \in ChecksOf(k) BY <1>0 DEF ChecksOf, ItemsOf
  <2>q. QED BY <2>1, CountOne
<1>3. Slots' = Slots \ {i} BY <1>0 DEF Slots
<1>4. Cardinality(Slots \ {i}) = Cardinality(Slots) - 1 /\ Cardinality(Slots) > 0
  <2>1. Slots \subseteq Items /\ i \in Slots BY <1>0 DEF Slots
  <2>q. QED BY <1>0, <2>1, CountOne
<1>5. TypeOK'
  <2>1. activeChecks' \in [Jobs -> Nat]
    BY <1>0, <1>2 DEF StartCheckFails, SlotInv, TypeOK, ChecksCounted
  <2>2. inFlight' \in Nat
    BY <1>4 DEF StartCheckFails, SlotInv, TypeOK, CheckSlotsExact, Slots
  <2>q. QED BY <1>0, <2>1, <2>2
        DEF StartCheckFails, SlotInv, TypeOK, StateRecord, CheckSteps, LoopIdle, LoopSteps
<1>6. WorkersHold' /\ LoopHolds' /\ QueuedUnchecked' /\ CheckpointsOwn' /\ UncheckedWait'
  BY <1>0 DEF StartCheckFails, SlotInv, TypeOK, WorkersHold, LoopHolds, QueuedUnchecked,
              CheckpointsOwn, UncheckedWait, LoopIdle, ItemsOf
<1>7. ChecksCounted'
  <2> SUFFICES ASSUME NEW j \in Jobs PROVE activeChecks'[j] = Cardinality(ChecksOf(j)')
      BY DEF ChecksCounted
  <2>q. QED BY <1>0, <1>1, <1>2 DEF StartCheckFails, SlotInv, TypeOK, ChecksCounted
<1>8. CheckSlotsExact'
  <2>1. inFlight = Cardinality(Slots) /\ inFlight <= MaxChecks
    BY DEF SlotInv, CheckSlotsExact, Slots
  <2>2. inFlight' = Cardinality(Slots') /\ inFlight' <= MaxChecks
    BY <1>3, <1>4, <2>1, DispatcherAssumption DEF StartCheckFails, SlotInv, TypeOK, DispatcherAssumption
  <2>q. QED BY <2>2 DEF CheckSlotsExact, Slots
<1>q. QED BY <1>5, <1>6, <1>7, <1>8 DEF SlotInv

(* The slot goes first ...                                                 *)
LEMMA CheckReleasesSlots == ASSUME SlotInv, NEW i \in Items, CheckReleases(i) PROVE SlotInv'
<1> USE DEF trackerVars, queueVars, activeVars, countVars, checkVars, workerVars, cancelVars,
            runnerVars, userVars
<1>0. /\ check[i] = "leaving"
      /\ check \in [Items -> CheckSteps]
      /\ check' = [check EXCEPT ![i] = "left"]
      BY DEF CheckReleases, SlotInv, TypeOK
<1>1. \A j \in Jobs : ChecksOf(j)' = ChecksOf(j) BY <1>0 DEF ChecksOf, ItemsOf
<1>3. Slots' = Slots \ {i} BY <1>0 DEF Slots
<1>4. Cardinality(Slots \ {i}) = Cardinality(Slots) - 1 /\ Cardinality(Slots) > 0
  <2>1. Slots \subseteq Items /\ i \in Slots BY <1>0 DEF Slots
  <2>q. QED BY <2>1, CountOne
<1>5. TypeOK'
  <2>1. inFlight' \in Nat
    BY <1>4 DEF CheckReleases, SlotInv, TypeOK, CheckSlotsExact, Slots
  <2>q. QED BY <1>0, <2>1 DEF CheckReleases, SlotInv, TypeOK, StateRecord, CheckSteps
<1>6. WorkersHold' /\ LoopHolds' /\ QueuedUnchecked' /\ CheckpointsOwn' /\ UncheckedWait'
  BY <1>0 DEF CheckReleases, SlotInv, TypeOK, WorkersHold, LoopHolds, QueuedUnchecked,
              CheckpointsOwn, UncheckedWait, ItemsOf
<1>7. ChecksCounted' BY <1>1 DEF CheckReleases, SlotInv, ChecksCounted
<1>8. CheckSlotsExact'
  <2>1. inFlight = Cardinality(Slots) /\ inFlight <= MaxChecks
    BY DEF SlotInv, CheckSlotsExact, Slots
  <2>2. inFlight' = Cardinality(Slots') /\ inFlight' <= MaxChecks
    BY <1>3, <1>4, <2>1, DispatcherAssumption DEF CheckReleases, SlotInv, TypeOK, DispatcherAssumption
  <2>q. QED BY <2>2 DEF CheckSlotsExact, Slots
<1>q. QED BY <1>5, <1>6, <1>7, <1>8 DEF SlotInv

(* ... active_checks after it.                                             *)
LEMMA CheckLeavesSlots == ASSUME SlotInv, NEW i \in Items, CheckLeaves(i) PROVE SlotInv'
<1> USE DEF trackerVars, queueVars, activeVars, countVars, checkVars, workerVars, cancelVars,
            runnerVars, userVars
<1> DEFINE k == JobOf[i]
<1>0. /\ check[i] = "left" /\ k \in Jobs
      /\ check \in [Items -> CheckSteps]
      /\ check' = [check EXCEPT ![i] = "none"]
      BY JobOfType DEF CheckLeaves, CheckGoes, SlotInv, TypeOK
<1>1. \A j \in Jobs : ChecksOf(j)' = IF j = k THEN ChecksOf(k) \ {i} ELSE ChecksOf(j)
      BY <1>0 DEF ChecksOf, ItemsOf
<1>2. Cardinality(ChecksOf(k) \ {i}) = Cardinality(ChecksOf(k)) - 1 /\ Cardinality(ChecksOf(k)) > 0
  <2>1. ChecksOf(k) \subseteq Items /\ i \in ChecksOf(k) BY <1>0 DEF ChecksOf, ItemsOf
  <2>q. QED BY <2>1, CountOne
<1>3. Slots' = Slots BY <1>0 DEF Slots
<1>5. TypeOK'
  <2>1. activeChecks' \in [Jobs -> Nat]
    BY <1>0 DEF CheckLeaves, SlotInv, TypeOK, Decrement
  <2>q. QED BY <1>0, <2>1 DEF CheckLeaves, CheckGoes, SlotInv, TypeOK, StateRecord, CheckSteps
<1>6. WorkersHold' /\ LoopHolds' /\ QueuedUnchecked' /\ CheckpointsOwn' /\ UncheckedWait'
  BY <1>0 DEF CheckLeaves, CheckGoes, SlotInv, TypeOK, WorkersHold, LoopHolds, QueuedUnchecked,
              CheckpointsOwn, UncheckedWait, ItemsOf
<1>7. ChecksCounted'
  <2> SUFFICES ASSUME NEW j \in Jobs PROVE activeChecks'[j] = Cardinality(ChecksOf(j)')
      BY DEF ChecksCounted
  <2>q. QED BY <1>0, <1>1, <1>2 DEF CheckLeaves, SlotInv, TypeOK, ChecksCounted, Decrement
<1>8. CheckSlotsExact'
  BY <1>3 DEF CheckLeaves, CheckGoes, SlotInv, CheckSlotsExact, Slots
<1>q. QED BY <1>5, <1>6, <1>7, <1>8 DEF SlotInv

(* A new tracker starts from active_checks = 0, and nothing of its job is  *)
(* being checked.                                                          *)
LEMMA SubmitSlots == ASSUME SlotInv, NEW j \in Jobs, Submit(j) PROVE SlotInv'
<1> USE DEF trackerVars, queueVars, activeVars, countVars, checkVars, workerVars, cancelVars,
            runnerVars, userVars
<1>1. \A i \in ItemsOf(j) : check[i] = "none"
      BY DEF Submit, SlotInv, QueuedUnchecked
<1>2. saved[j].items \subseteq ItemsOf(j) /\ saved[j].items \subseteq Items
      BY DEF SlotInv, CheckpointsOwn, ItemsOf
<1>3. saved[j].completed \in Nat /\ Cardinality(saved[j].items) \in Nat
      BY <1>2, CountFiles DEF SlotInv, TypeOK, StateRecord
<1>4. TypeOK'
  <2>1. /\ completed' \in [Jobs -> Nat] /\ total' \in [Jobs -> Nat]
        /\ activeChecks' \in [Jobs -> Nat] /\ activeProc' \in [Jobs -> Nat]
    BY <1>3 DEF Submit, SlotInv, TypeOK
  <2>q. QED BY <1>2, <2>1 DEF Submit, SlotInv, TypeOK, StateRecord, RunnerSteps
<1>5. WorkersHold' /\ LoopHolds' /\ QueuedUnchecked' /\ CheckpointsOwn'
  BY DEF Submit, SlotInv, TypeOK, WorkersHold, LoopHolds, QueuedUnchecked, CheckpointsOwn, ItemsOf
<1>6. UncheckedWait' BY <1>1, <1>2 DEF Submit, SlotInv, UncheckedWait
<1>7. ChecksCounted'
  <2> SUFFICES ASSUME NEW k \in Jobs PROVE activeChecks'[k] = Cardinality(ChecksOf(k)')
      BY DEF ChecksCounted
  <2>1. ChecksOf(k)' = ChecksOf(k) BY DEF Submit, ChecksOf, ItemsOf
  <2>2. ChecksOf(j) = {} BY <1>1 DEF ChecksOf
  <2>q. QED BY <2>1, <2>2, FS_EmptySet DEF Submit, SlotInv, TypeOK, ChecksCounted
<1>8. CheckSlotsExact' BY DEF Submit, SlotInv, CheckSlotsExact
<1>q. QED BY <1>4, <1>5, <1>6, <1>7, <1>8 DEF SlotInv

(* A detached job has no check thread left: active_checks is 0.            *)
LEMMA DetachSlots == ASSUME SlotInv, NEW j \in Jobs, Detach(j) PROVE SlotInv'
<1> USE DEF trackerVars, queueVars, activeVars, countVars, checkVars, workerVars, cancelVars,
            runnerVars, userVars
<1>1. ChecksOf(j) = {}
  <2>1. ChecksOf(j) \subseteq Items BY DEF ChecksOf, ItemsOf
  <2>2. Cardinality(ChecksOf(j)) = 0 BY DEF Detach, SlotInv, ChecksCounted
  <2>q. QED BY <2>1, <2>2, CountFiles
<1>2. SlotFrame BY DEF Detach, SlotFrame
<1>3. TypeOK' BY DEF Detach, SlotInv, TypeOK, StateRecord, RunnerSteps
<1>4. WorkersHold' /\ LoopHolds' /\ CheckpointsOwn'
  BY DEF Detach, SlotInv, WorkersHold, LoopHolds, CheckpointsOwn, ItemsOf
<1>5. QueuedUnchecked'
  BY <1>1 DEF Detach, SlotInv, TypeOK, QueuedUnchecked, ChecksOf, ItemsOf
<1>q. QED BY <1>2, <1>3, <1>4, <1>5, SlotFrameKeeps DEF SlotInv

(* Stuttering keeps SlotInv.                                               *)
LEMMA StutterSlots == ASSUME SlotInv, UNCHANGED vars PROVE SlotInv'
<1> USE DEF vars
<1>1. SlotFrame BY DEF SlotFrame
<1>2. TypeOK' BY DEF SlotInv, TypeOK, StateRecord
<1>3. WorkersHold' /\ LoopHolds' /\ QueuedUnchecked' /\ CheckpointsOwn'
  BY DEF SlotInv, WorkersHold, LoopHolds, QueuedUnchecked, CheckpointsOwn, ItemsOf
<1>q. QED BY <1>1, <1>2, <1>3, SlotFrameKeeps DEF SlotInv

(* SlotInv is inductive.                                                   *)
LEMMA NextSlotInv == SlotInv /\ [Next]_vars => SlotInv'
<1> SUFFICES ASSUME SlotInv, [Next]_vars PROVE SlotInv' OBVIOUS
<1>1. CASE LoopStep BY <1>1, StartCheckSlots, StartCheckFailsSlots, LoopSlots DEF LoopStep
<1>2. ASSUME NEW i \in Items, CheckThread(i) PROVE SlotInv'
      BY <1>2, CheckSlots, CheckReleasesSlots, CheckLeavesSlots DEF CheckThread
<1>3. ASSUME NEW i \in Items, LoopItem(i) PROVE SlotInv'
      BY <1>3, PickCheckSlots, AssignItemSlots DEF LoopItem
<1>4. ASSUME NEW w \in Workers, WorkerStep(w) PROVE SlotInv'
      BY <1>4, WorkerSlots, AssignSlots DEF WorkerStep
<1>5. ASSUME NEW j \in Jobs, RunnerStep(j) PROVE SlotInv'
      BY <1>5, SubmitSlots, DetachSlots, RunnerSlots DEF RunnerStep
<1>6. ASSUME NEW j \in Jobs, CancelStep(j) PROVE SlotInv'
      BY <1>6, UserSlots, CancelSlots DEF CancelStep
<1>7. ASSUME NEW j \in Jobs, Cleanup(j) \/ UserStep(j) PROVE SlotInv'
      BY <1>7, UserSlots DEF UserStep
<1>8. CASE UNCHANGED vars BY <1>8, StutterSlots
<1>q. QED BY <1>1, <1>2, <1>3, <1>4, <1>5, <1>6, <1>7, <1>8 DEF Next

(* The first layer of the invariant holds in every reachable state.        *)
THEOREM SlotCorrect == Spec => []SlotInv
BY InitSlotInv, NextSlotInv, PTL DEF Spec

(***************************************************************************)
(* No variable leaves its type: the counters of active checks and of slots *)
(* in flight never go below zero, although a failed thread start lowers    *)
(* them without a floor.                                                   *)
(***************************************************************************)
THEOREM TypeCorrect == Spec => []TypeOK
<1>1. SlotInv => TypeOK BY DEF SlotInv
<1>q. QED BY <1>1, SlotCorrect, PTL

(***************************************************************************)
(* The in-flight count is the number of check threads and never over the   *)
(* cap, whichever threads could not be started.                            *)
(***************************************************************************)
THEOREM SlotsCorrect == Spec => []CheckSlotsExact
<1>1. SlotInv => CheckSlotsExact BY DEF SlotInv
<1>q. QED BY <1>1, SlotCorrect, PTL

-----------------------------------------------------------------------------
(* What the invariant gives.                                               *)

(* Once the fence is reached nothing of the job runs.                      *)
LEMMA FenceQuiet ==
    ASSUME IInv
    PROVE  \A j \in Jobs : Parking(j) =>
              \A i \in ItemsOf(j) : check[i] = "none" /\ ~Running(i) /\ ~InProcess(i)
<1> SUFFICES ASSUME NEW j \in Jobs, Parking(j), NEW i \in ItemsOf(j)
             PROVE  check[i] = "none" /\ ~Running(i) /\ ~InProcess(i)
    OBVIOUS
<1>1. check[i] = "none"
  <2>1. ChecksOf(j) \subseteq Items BY DEF ChecksOf, ItemsOf
  <2>2. Cardinality(ChecksOf(j)) = 0
    BY DEF IInv, SlotInv, PlaceInv, ChecksCounted, Fence
  <2>q. QED BY <2>1, <2>2, CountFiles DEF ChecksOf
<1>2. ~InProcess(i)
  <2>1. ProcessOf(j) \subseteq Items BY DEF ProcessOf, ItemsOf
  <2>2. Cardinality(ProcessOf(j)) \in Nat BY <2>1, CountFiles
  <2>3. Cardinality(ProcessOf(j)) = 0
    BY <2>2 DEF IInv, PlaceInv, ProcessCounted, Fence
  <2>q. QED BY <2>1, <2>3, CountFiles DEF ProcessOf
<1>3. ~Running(i)
  BY <1>1, <1>2 DEF Running, HeldByCheck, HeldByLoop, InProcess, IInv, PlaceInv, Fence, ItemsOf
<1>q. QED BY <1>1, <1>2, <1>3

(* A step that settles nothing and starts nothing keeps the counts.        *)
LEMMA CountFrameKeeps ==
    ASSUME IInv, SlotInv', UNCHANGED <<completed, total, settled, activeProc>>,
           \A k \in Jobs : ProcessOf(k)' \subseteq ProcessOf(k)
    PROVE  Tallies' /\ ProcessCounted'
<1>1. \A k \in Jobs : ProcessOf(k) \subseteq Items /\ ProcessOf(k)' \subseteq Items
      BY DEF ProcessOf, ItemsOf
<1>2. \A k \in Jobs : Cardinality(ProcessOf(k)') <= Cardinality(ProcessOf(k))
      BY <1>1, CountSubset
<1>3. \A k \in Jobs : Cardinality(ProcessOf(k)') \in Nat /\ Cardinality(ProcessOf(k)) \in Nat
      BY <1>1, CountFiles
<1>4. ProcessCounted' BY <1>2, <1>3 DEF ProcessCounted, IInv, PlaceInv, SlotInv, TypeOK
<1>5. Tallies' BY DEF Tallies, ItemsOf, IInv, PlaceInv
<1>q. QED BY <1>4, <1>5

(* A file is taken out of active_processing and leaves the loop's hands.   *)
LEMMA ProcessDropKeeps ==
    ASSUME IInv, SlotInv', NEW i \in Items, InProcess(i),
           activeProc' = [activeProc EXCEPT ![JobOf[i]] = Decrement(@)],
           \A k \in Jobs : ProcessOf(k)' \subseteq ProcessOf(k) \ {i}
    PROVE  ProcessCounted'
<1> SUFFICES ASSUME NEW j \in Jobs PROVE activeProc'[j] >= Cardinality(ProcessOf(j)')
    BY DEF ProcessCounted
<1> DEFINE P == ProcessOf(j)
           Q == ProcessOf(j)'
<1>1. P \subseteq Items /\ Q \subseteq Items BY DEF ProcessOf, ItemsOf
<1>2. Cardinality(P) \in Nat /\ Cardinality(Q) \in Nat BY <1>1, CountFiles
<1>3. activeProc[j] >= Cardinality(P) /\ activeProc[j] \in Nat /\ activeProc \in [Jobs -> Nat]
      BY DEF IInv, PlaceInv, ProcessCounted, SlotInv, TypeOK
<1>4. CASE j = JobOf[i]
  <2>1. Q \subseteq P \ {i} /\ i \in P BY <1>4 DEF ProcessOf, ItemsOf
  <2>2. Cardinality(P \ {i}) = Cardinality(P) - 1 BY <1>1, <2>1, CountOne
  <2>3. Cardinality(Q) <= Cardinality(P \ {i})
    <3>1. P \ {i} \subseteq Items BY <1>1
    <3>q. QED BY <2>1, <3>1, CountSubset
  <2>4. Cardinality(P) > 0 BY <1>1, <2>1, CountOne
  <2>5. activeProc'[j] = Decrement(activeProc[j]) BY <1>3, <1>4
  <2> HIDE DEF P, Q
  <2>6. activeProc'[j] >= Cardinality(Q) BY <1>2, <1>3, <2>2, <2>3, <2>4, <2>5 DEF Decrement
  <2>q. QED BY <2>6 DEF Q
<1>5. CASE j # JobOf[i]
  <2>1. Q \subseteq P BY <1>5
  <2>2. Cardinality(Q) <= Cardinality(P) BY <1>1, <2>1, CountSubset
  <2>3. activeProc'[j] = activeProc[j] BY <1>3, <1>5
  <2> HIDE DEF P, Q
  <2>4. activeProc'[j] >= Cardinality(Q) BY <1>2, <1>3, <2>2, <2>3
  <2>q. QED BY <2>4 DEF Q
<1>q. QED BY <1>4, <1>5

(* A file is counted in active_processing and goes to a worker or fails.   *)
LEMMA ProcessAddKeeps ==
    ASSUME IInv, SlotInv', NEW i \in Items,
           activeProc' = [activeProc EXCEPT ![JobOf[i]] = @ + 1],
           \A k \in Jobs : ProcessOf(k)' \subseteq
                             IF k = JobOf[i] THEN ProcessOf(k) \union {i} ELSE ProcessOf(k)
    PROVE  ProcessCounted'
<1> SUFFICES ASSUME NEW j \in Jobs PROVE activeProc'[j] >= Cardinality(ProcessOf(j)')
    BY DEF ProcessCounted
<1> DEFINE P == ProcessOf(j)
           Q == ProcessOf(j)'
<1>1. P \subseteq Items /\ Q \subseteq Items BY DEF ProcessOf, ItemsOf
<1>2. Cardinality(P) \in Nat /\ Cardinality(Q) \in Nat BY <1>1, CountFiles
<1>3. activeProc[j] >= Cardinality(P) /\ activeProc[j] \in Nat /\ activeProc \in [Jobs -> Nat]
      BY DEF IInv, PlaceInv, ProcessCounted, SlotInv, TypeOK
<1>4. CASE j = JobOf[i]
  <2>1. Q \subseteq P \union {i} BY <1>4
  <2>2. Cardinality(P \union {i}) \in Nat /\ Cardinality(P \union {i}) <= Cardinality(P) + 1
    <3>1. P \union {i} \subseteq Items BY <1>1
    <3>2. CASE i \in P
      <4>1. P \union {i} = P BY <3>2
      <4>2. Cardinality(P \union {i}) = Cardinality(P) BY <4>1, Zenon
      <4> HIDE DEF P
      <4>q. QED BY <1>2, <4>2
    <3>3. CASE i \notin P
      <4>1. Cardinality(P \union {i}) = Cardinality(P) + 1 BY <1>1, <3>3, CountOne
      <4> HIDE DEF P
      <4>q. QED BY <1>2, <4>1
    <3>q. QED BY <3>2, <3>3
  <2>3. Cardinality(Q) <= Cardinality(P \union {i})
    <3>1. P \union {i} \subseteq Items BY <1>1
    <3>q. QED BY <2>1, <3>1, CountSubset
  <2>4. activeProc'[j] = activeProc[j] + 1 BY <1>3, <1>4
  <2> HIDE DEF P, Q
  <2>5. activeProc'[j] >= Cardinality(Q) BY <1>2, <1>3, <2>2, <2>3, <2>4
  <2>q. QED BY <2>5 DEF Q
<1>5. CASE j # JobOf[i]
  <2>1. Q \subseteq P BY <1>5
  <2>2. Cardinality(Q) <= Cardinality(P) BY <1>1, <2>1, CountSubset
  <2>3. activeProc'[j] = activeProc[j] BY <1>3, <1>5
  <2> HIDE DEF P, Q
  <2>4. activeProc'[j] >= Cardinality(Q) BY <1>2, <1>3, <2>2, <2>3
  <2>q. QED BY <2>4 DEF Q
<1>q. QED BY <1>4, <1>5

(* record_completion keeps the tally exact, and whoever reads is_done in   *)
(* it settled the job's last file.                                         *)
LEMMA RecordCounts ==
    ASSUME IInv, NEW i \in Items, i \notin settled, Record(i), UNCHANGED total
    PROVE  Tallies' /\ (IsLast(i) => ItemsOf(JobOf[i]) \subseteq settled')
<1> DEFINE k == JobOf[i]
           S == settled \intersect ItemsOf(k)
<1>1. k \in Jobs /\ i \in ItemsOf(k) BY JobOfType DEF ItemsOf
<1>2. S \subseteq Items /\ ItemsOf(k) \subseteq Items /\ i \notin S BY DEF ItemsOf
<1>3. settled' \intersect ItemsOf(k) = S \union {i} BY <1>1 DEF Record
<1>4. \A j \in Jobs \ {k} : settled' \intersect ItemsOf(j) = settled \intersect ItemsOf(j)
      BY DEF Record, ItemsOf
<1>5. Cardinality(S \union {i}) = Cardinality(S) + 1 BY <1>2, CountOne
<1>6. /\ completed \in [Jobs -> Nat] /\ completed' = [completed EXCEPT ![k] = @ + 1]
      /\ \A j \in Jobs : /\ completed[j] = Cardinality(settled \intersect ItemsOf(j))
                          /\ total[j] = Cardinality(ItemsOf(j))
      BY DEF IInv, PlaceInv, SlotInv, TypeOK, Tallies, Record
<1>7. Tallies'
  <2> SUFFICES ASSUME NEW j \in Jobs
               PROVE  /\ completed'[j] = Cardinality(settled' \intersect ItemsOf(j))
                      /\ total[j] = Cardinality(ItemsOf(j))
      BY DEF Tallies, ItemsOf
  <2>1. CASE j = k BY <1>1, <1>3, <1>5, <1>6, <2>1
  <2>2. CASE j # k BY <1>4, <1>6, <2>2
  <2>q. QED BY <2>1, <2>2
<1>8. ASSUME IsLast(i) PROVE ItemsOf(k) \subseteq settled'
  <2>1. /\ S \union {i} \subseteq ItemsOf(k)
        /\ Cardinality(ItemsOf(k)) \in Nat /\ Cardinality(S \union {i}) \in Nat
    BY <1>1, <1>2, CountFiles
  <2>2. Cardinality(S \union {i}) >= Cardinality(ItemsOf(k))
    BY <1>1, <1>5, <1>6, <1>8 DEF IsLast
  <2>3. Cardinality(S \union {i}) <= Cardinality(ItemsOf(k)) BY <1>2, <2>1, CountSubset
  <2>4. S \union {i} = ItemsOf(k) BY <1>2, <2>1, <2>2, <2>3, CountSubset
  <2>q. QED BY <1>3, <2>4
<1>q. QED BY <1>7, <1>8

-----------------------------------------------------------------------------
(* Steps that move no file: of the users, the hours and most of a runner's.*)
FilesFrame ==
    UNCHANGED <<checkQ, itemQ, check, task, wstate, loop, settled, completed, total, activeProc>>

(* Where no file moves, the exclusions and the counts stay.                *)
LEMMA FilesFrameKeeps ==
    ASSUME IInv, SlotInv', FilesFrame
    PROVE  QueueExcludes' /\ RunExcludes' /\ OneWorker' /\ Tallies' /\ ProcessCounted'
<1> USE DEF FilesFrame
<1>1. QueueExcludes' /\ RunExcludes' /\ OneWorker'
  BY DEF IInv, PlaceInv, QueueExcludes, RunExcludes, OneWorker, InQueue, Running,
         HeldByCheck, HeldByWorker, HeldByLoop
<1>2. \A k \in Jobs : ProcessOf(k)' \subseteq ProcessOf(k)
  BY DEF ProcessOf, InProcess, ItemsOf, HeldByWorker
<1>q. QED BY <1>1, <1>2, CountFrameKeeps

(* A job cancelled before it was admitted has no tracker.                  *)
LEMMA QueuedCancelledPlaces ==
    ASSUME IInv, SlotInv', NEW j \in Jobs, QueuedCancelled(j)
    PROVE  PlaceInv'
<1> USE DEF trackerVars, queueVars, activeVars, countVars, checkVars, workerVars, cancelVars,
            QueuedCancelled, IInv, PlaceInv, SlotInv, TypeOK
<1>1. QueueExcludes' /\ RunExcludes' /\ OneWorker' /\ Tallies' /\ ProcessCounted'
  <2>1. FilesFrame BY DEF FilesFrame
  <2>q. QED BY <2>1, FilesFrameKeeps
<1>2. SeenExcludes' /\ NothingLost' /\ FinishersDone'
  BY JobOfType, NoItemOutside DEF SeenExcludes, CountsLockFree, CancelActors, NothingLost,
         Live, IsCancelled, InQueue, Running, HeldByCheck, HeldByWorker, HeldByLoop,
         WorkersHold, LoopHolds, FinishersDone, Cancelling, QueuedUnchecked, ItemsOf
<1>3. Fence' /\ ParkingKept' /\ CommittedSaved' /\ Cancelling'
  BY JobOfType, NoItemOutside, FenceQuiet DEF Fence, CommittedSaved, ParkingKept, Parking,
         RemainderOf, ItemsOf, Cancelling, IsCancelled, LoopHolds, CancelActors
<1>4. QueuedEmpty' /\ QueuedKept'
  BY JobOfType, NoItemOutside DEF QueuedEmpty, QueuedKept, QueuedUnchecked, RemainderOf,
         InQueue, Running, HeldByCheck, HeldByWorker, HeldByLoop, InProcess, ItemsOf,
         LoopHolds, CommittedSaved, ParkingKept, Parking
<1>q. QED BY <1>1, <1>2, <1>3, <1>4 DEF PlaceInv

(* The runner ends its job; its tracker is done.                           *)
LEMMA EndPlaces ==
    ASSUME IInv, SlotInv', NEW j \in Jobs, End(j)
    PROVE  PlaceInv'
<1> USE DEF trackerVars, queueVars, activeVars, countVars, checkVars, workerVars, cancelVars,
            End, IInv, PlaceInv, SlotInv, TypeOK
<1>1. QueueExcludes' /\ RunExcludes' /\ OneWorker' /\ Tallies' /\ ProcessCounted'
  <2>1. FilesFrame BY DEF FilesFrame
  <2>q. QED BY <2>1, FilesFrameKeeps
<1>2. SeenExcludes' /\ NothingLost' /\ FinishersDone'
  BY JobOfType, NoItemOutside DEF SeenExcludes, CountsLockFree, CancelActors, NothingLost,
         Live, IsCancelled, InQueue, Running, HeldByCheck, HeldByWorker, HeldByLoop,
         WorkersHold, LoopHolds, FinishersDone, Cancelling, QueuedUnchecked, ItemsOf
<1>3. Fence' /\ ParkingKept' /\ CommittedSaved' /\ Cancelling'
  BY JobOfType, NoItemOutside, FenceQuiet DEF Fence, CommittedSaved, ParkingKept, Parking,
         RemainderOf, ItemsOf, Cancelling, IsCancelled, LoopHolds, CancelActors
<1>4. QueuedEmpty' /\ QueuedKept'
  BY JobOfType, NoItemOutside DEF QueuedEmpty, QueuedKept, QueuedUnchecked, RemainderOf,
         InQueue, Running, HeldByCheck, HeldByWorker, HeldByLoop, InProcess, ItemsOf,
         LoopHolds, CommittedSaved, ParkingKept, Parking
<1>q. QED BY <1>1, <1>2, <1>3, <1>4 DEF PlaceInv

(* The fence is requested: nothing runs less, nothing moves.               *)
LEMMA RequestParkPlaces ==
    ASSUME IInv, SlotInv', NEW j \in Jobs, RequestPark(j)
    PROVE  PlaceInv'
<1> USE DEF queueVars, activeVars, countVars, checkVars, workerVars, cancelVars, runnerVars,
            userVars, RequestPark, TrackersLockFree, IInv, PlaceInv, SlotInv, TypeOK
<1>1. QueueExcludes' /\ RunExcludes' /\ OneWorker' /\ Tallies' /\ ProcessCounted'
  <2>1. FilesFrame BY DEF FilesFrame
  <2>q. QED BY <2>1, FilesFrameKeeps
<1>2. SeenExcludes' /\ NothingLost' /\ FinishersDone'
  BY JobOfType, NoItemOutside DEF SeenExcludes, CountsLockFree, CancelActors, NothingLost,
         Live, IsCancelled, InQueue, Running, HeldByCheck, HeldByWorker, HeldByLoop,
         WorkersHold, LoopHolds, FinishersDone, Cancelling, QueuedUnchecked, ItemsOf
<1>3. Fence' /\ ParkingKept' /\ CommittedSaved' /\ Cancelling'
  BY JobOfType, NoItemOutside, FenceQuiet DEF Fence, CommittedSaved, ParkingKept, Parking,
         RemainderOf, ItemsOf, Cancelling, IsCancelled, LoopHolds, CancelActors
<1>4. QueuedEmpty' /\ QueuedKept'
  BY JobOfType, NoItemOutside DEF QueuedEmpty, QueuedKept, QueuedUnchecked, RemainderOf,
         InQueue, Running, HeldByCheck, HeldByWorker, HeldByLoop, InProcess, ItemsOf,
         LoopHolds, CommittedSaved, ParkingKept, Parking
<1>q. QED BY <1>1, <1>2, <1>3, <1>4 DEF PlaceInv

(* Both counters are zero, so the queues hold all that is left.            *)
LEMMA ParkSnapshotPlaces ==
    ASSUME IInv, SlotInv', NEW j \in Jobs, ParkSnapshot(j)
    PROVE  PlaceInv'
<1> USE DEF trackerVars, queueVars, activeVars, countVars, checkVars, workerVars, cancelVars,
            userVars, ParkSnapshot, TrackersLockFree, CountsLockFree, IInv, PlaceInv, SlotInv,
            TypeOK
<1>1. QueueExcludes' /\ RunExcludes' /\ OneWorker' /\ Tallies' /\ ProcessCounted'
  <2>1. FilesFrame BY DEF FilesFrame
  <2>q. QED BY <2>1, FilesFrameKeeps
<1>2. SeenExcludes' /\ NothingLost' /\ FinishersDone'
  BY JobOfType, NoItemOutside DEF SeenExcludes, CancelActors, NothingLost, Live, IsCancelled,
         InQueue, Running, HeldByCheck, HeldByWorker, HeldByLoop, WorkersHold, LoopHolds,
         FinishersDone, Cancelling, QueuedUnchecked, ItemsOf
<1>3. Fence' /\ CommittedSaved'
  BY JobOfType, NoItemOutside DEF Fence, Parking, LoopHolds, CommittedSaved
<1>4. ParkingKept'
  <2>1. j \in Live /\ runner[j] = "waiting"
    BY DEF Live, IsCancelled, Cancelling
  <2>2. \A i \in ItemsOf(j) : ~Running(i)
    <3>1. ChecksOf(j) \subseteq Items /\ ProcessOf(j) \subseteq Items
      BY DEF ChecksOf, ProcessOf, ItemsOf
    <3>2. Cardinality(ChecksOf(j)) = 0
      BY DEF ChecksCounted
    <3>3. Cardinality(ProcessOf(j)) \in Nat /\ activeProc[j] = 0
          /\ activeProc[j] >= Cardinality(ProcessOf(j))
      BY <3>1, CountFiles DEF ProcessCounted
    <3>4. ChecksOf(j) = {} /\ ProcessOf(j) = {} BY <3>1, <3>2, <3>3, CountFiles
    <3>q. QED BY <3>4 DEF ChecksOf, ProcessOf, InProcess, Running, HeldByCheck, HeldByLoop
  <2>3. (itemQ \union checkQ) \intersect ItemsOf(j) = ItemsOf(j) \ settled
    BY <2>1, <2>2 DEF NothingLost, QueueExcludes, InQueue, ItemsOf
  <2>4. snap'[j] = [items |-> ItemsOf(j) \ settled, completed |-> completed[j]]
    BY <2>3
  <2>q. QED BY <2>1, <2>4
        DEF Live, ParkingKept, Parking, RemainderOf, ItemsOf
<1>5. Cancelling'
  BY JobOfType, NoItemOutside DEF Cancelling, CancelActors, IsCancelled
<1>6. QueuedEmpty' /\ QueuedKept'
  BY JobOfType, NoItemOutside DEF QueuedEmpty, QueuedKept, QueuedUnchecked, RemainderOf,
         InQueue, Running, HeldByCheck, HeldByWorker, HeldByLoop, InProcess, ItemsOf,
         LoopHolds, CommittedSaved, ParkingKept, Parking
<1>q. QED BY <1>1, <1>2, <1>3, <1>4, <1>5, <1>6 DEF PlaceInv

(* The row takes the snapshot as it is.                                    *)
LEMMA ParkCommitPlaces ==
    ASSUME IInv, SlotInv', NEW j \in Jobs, ParkCommit(j)
    PROVE  PlaceInv'
<1> USE DEF trackerVars, queueVars, activeVars, countVars, checkVars, workerVars, cancelVars,
            userVars, ParkCommit, IInv, PlaceInv, SlotInv, TypeOK
<1>1. QueueExcludes' /\ RunExcludes' /\ OneWorker' /\ Tallies' /\ ProcessCounted'
  <2>1. FilesFrame BY DEF FilesFrame
  <2>q. QED BY <2>1, FilesFrameKeeps
<1>2. SeenExcludes' /\ NothingLost' /\ FinishersDone'
  BY JobOfType, NoItemOutside DEF SeenExcludes, CountsLockFree, CancelActors, NothingLost,
         Live, IsCancelled, InQueue, Running, HeldByCheck, HeldByWorker, HeldByLoop,
         WorkersHold, LoopHolds, FinishersDone, Cancelling, QueuedUnchecked, ItemsOf
<1>3. Fence' /\ ParkingKept' /\ CommittedSaved' /\ Cancelling'
  BY JobOfType, NoItemOutside, FenceQuiet DEF Fence, CommittedSaved, ParkingKept, Parking,
         RemainderOf, ItemsOf, Cancelling, IsCancelled, LoopHolds, CancelActors
<1>4. QueuedEmpty' /\ QueuedKept'
  BY JobOfType, NoItemOutside DEF QueuedEmpty, QueuedKept, QueuedUnchecked, RemainderOf,
         InQueue, Running, HeldByCheck, HeldByWorker, HeldByLoop, InProcess, ItemsOf,
         LoopHolds, CommittedSaved, ParkingKept, Parking
<1>q. QED BY <1>1, <1>2, <1>3, <1>4 DEF PlaceInv

(* A refused park goes back to waiting with nothing changed.               *)
LEMMA ParkRefusedPlaces ==
    ASSUME IInv, SlotInv', NEW j \in Jobs, ParkRefused(j)
    PROVE  PlaceInv'
<1> USE DEF trackerVars, queueVars, activeVars, countVars, checkVars, workerVars, cancelVars,
            userVars, ParkRefused, IInv, PlaceInv, SlotInv, TypeOK
<1>1. QueueExcludes' /\ RunExcludes' /\ OneWorker' /\ Tallies' /\ ProcessCounted'
  <2>1. FilesFrame BY DEF FilesFrame
  <2>q. QED BY <2>1, FilesFrameKeeps
<1>2. SeenExcludes' /\ NothingLost' /\ FinishersDone'
  BY JobOfType, NoItemOutside DEF SeenExcludes, CountsLockFree, CancelActors, NothingLost,
         Live, IsCancelled, InQueue, Running, HeldByCheck, HeldByWorker, HeldByLoop,
         WorkersHold, LoopHolds, FinishersDone, Cancelling, QueuedUnchecked, ItemsOf
<1>3. Fence' /\ ParkingKept' /\ CommittedSaved' /\ Cancelling'
  BY JobOfType, NoItemOutside, FenceQuiet DEF Fence, CommittedSaved, ParkingKept, Parking,
         RemainderOf, ItemsOf, Cancelling, IsCancelled, LoopHolds, CancelActors
<1>4. QueuedEmpty' /\ QueuedKept'
  BY JobOfType, NoItemOutside DEF QueuedEmpty, QueuedKept, QueuedUnchecked, RemainderOf,
         InQueue, Running, HeldByCheck, HeldByWorker, HeldByLoop, InProcess, ItemsOf,
         LoopHolds, CommittedSaved, ParkingKept, Parking
<1>q. QED BY <1>1, <1>2, <1>3, <1>4 DEF PlaceInv

(* The runner saw no cancel after its commit.                              *)
LEMMA ParkUncancelledPlaces ==
    ASSUME IInv, SlotInv', NEW j \in Jobs, ParkUncancelled(j)
    PROVE  PlaceInv'
<1> USE DEF trackerVars, queueVars, activeVars, countVars, checkVars, workerVars, cancelVars,
            userVars, ParkUncancelled, IInv, PlaceInv, SlotInv, TypeOK
<1>1. QueueExcludes' /\ RunExcludes' /\ OneWorker' /\ Tallies' /\ ProcessCounted'
  <2>1. FilesFrame BY DEF FilesFrame
  <2>q. QED BY <2>1, FilesFrameKeeps
<1>2. SeenExcludes' /\ NothingLost' /\ FinishersDone'
  BY JobOfType, NoItemOutside DEF SeenExcludes, CountsLockFree, CancelActors, NothingLost,
         Live, IsCancelled, InQueue, Running, HeldByCheck, HeldByWorker, HeldByLoop,
         WorkersHold, LoopHolds, FinishersDone, Cancelling, QueuedUnchecked, ItemsOf
<1>3. Fence' /\ ParkingKept' /\ CommittedSaved' /\ Cancelling'
  BY JobOfType, NoItemOutside, FenceQuiet DEF Fence, CommittedSaved, ParkingKept, Parking,
         RemainderOf, ItemsOf, Cancelling, IsCancelled, LoopHolds, CancelActors
<1>4. QueuedEmpty' /\ QueuedKept'
  BY JobOfType, NoItemOutside DEF QueuedEmpty, QueuedKept, QueuedUnchecked, RemainderOf,
         InQueue, Running, HeldByCheck, HeldByWorker, HeldByLoop, InProcess, ItemsOf,
         LoopHolds, CommittedSaved, ParkingKept, Parking
<1>q. QED BY <1>1, <1>2, <1>3, <1>4 DEF PlaceInv

(* The runner starts a cancel of the job it was parking.                   *)
LEMMA RunnerCancelsPlaces ==
    ASSUME IInv, SlotInv', NEW j \in Jobs, RunnerCancels(j)
    PROVE  PlaceInv'
<1> USE DEF queueVars, activeVars, countVars, checkVars, workerVars, RunnerCancels, IInv,
            PlaceInv, SlotInv, TypeOK
<1>1. QueueExcludes' /\ RunExcludes' /\ OneWorker' /\ Tallies' /\ ProcessCounted'
  <2>1. FilesFrame BY DEF FilesFrame
  <2>q. QED BY <2>1, FilesFrameKeeps
<1>2. SeenExcludes'
  <2>1. cancelStep["runner"][j] = "none"
    BY DEF Cancelling
  <2>2. \A k \in Jobs : ~CountsLockFree(k) => ~CountsLockFree(k)'
    BY <2>1 DEF CountsLockFree, CancelActors
  <2>3. cancelled \subseteq cancelled' OBVIOUS
  <2>q. QED BY <2>2, <2>3 DEF SeenExcludes, Running, HeldByCheck, HeldByWorker, HeldByLoop
<1>3. NothingLost'
  BY JobOfType, NoItemOutside DEF NothingLost, Live, IsCancelled, InQueue, Running,
         HeldByCheck, HeldByWorker, HeldByLoop, WorkersHold, LoopHolds, FinishersDone,
         Cancelling, QueuedUnchecked, ItemsOf
<1>4. FinishersDone'
  BY JobOfType, NoItemOutside DEF FinishersDone, LoopHolds, Cancelling, ItemsOf
<1>5. Fence' /\ CommittedSaved'
  BY JobOfType, NoItemOutside DEF Fence, Parking, LoopHolds, CommittedSaved
<1>6. ParkingKept'
  BY JobOfType, NoItemOutside, FenceQuiet DEF ParkingKept, Parking, RemainderOf, ItemsOf,
         Cancelling, IsCancelled
<1>7. Cancelling'
  <2>1. CASE j \in attached
    BY <2>1 DEF Cancelling, CancelActors
  <2>2. CASE j \notin attached
    BY <2>2 DEF Cancelling, CancelActors
  <2>q. QED BY <2>1, <2>2
<1>8. QueuedEmpty' /\ QueuedKept'
  <2>1. \A k \in Jobs : runner'[k] = "queued" => runner[k] = "queued"
    OBVIOUS
  <2>q. QED BY <2>1 DEF QueuedEmpty, QueuedKept, RemainderOf, InQueue, Running, HeldByCheck,
        HeldByWorker, HeldByLoop, InProcess, ItemsOf
<1>q. QED BY <1>1, <1>2, <1>3, <1>4, <1>5, <1>6, <1>7, <1>8 DEF PlaceInv

(* Only a cancelled job is refused: the fence still holds.                 *)
LEMMA DetachRefusedPlaces ==
    ASSUME IInv, SlotInv', NEW j \in Jobs, DetachRefused(j)
    PROVE  PlaceInv'
<1> USE DEF trackerVars, queueVars, activeVars, countVars, checkVars, workerVars, cancelVars,
            userVars, DetachRefused, TrackersLockFree, IInv, PlaceInv, SlotInv, TypeOK
<1>1. QueueExcludes' /\ RunExcludes' /\ OneWorker' /\ Tallies' /\ ProcessCounted'
  <2>1. FilesFrame BY DEF FilesFrame
  <2>q. QED BY <2>1, FilesFrameKeeps
<1>2. SeenExcludes' /\ NothingLost' /\ FinishersDone'
  BY JobOfType, NoItemOutside DEF SeenExcludes, CountsLockFree, CancelActors, NothingLost,
         Live, IsCancelled, InQueue, Running, HeldByCheck, HeldByWorker, HeldByLoop,
         WorkersHold, LoopHolds, FinishersDone, Cancelling, QueuedUnchecked, ItemsOf
<1>3. Fence' /\ CommittedSaved'
  BY JobOfType, NoItemOutside DEF Fence, Parking, LoopHolds, CommittedSaved
<1>4. ParkingKept'
  BY JobOfType, NoItemOutside, FenceQuiet DEF ParkingKept, Parking, RemainderOf, ItemsOf,
         Cancelling, IsCancelled
<1>5. Cancelling'
  <2>1. runner'[j] = "waiting"
    BY DEF Fence, ParkingKept, Parking
  <2>q. QED BY <2>1 DEF Cancelling
<1>6. QueuedEmpty' /\ QueuedKept'
  BY JobOfType, NoItemOutside DEF QueuedEmpty, QueuedKept, QueuedUnchecked, RemainderOf,
         InQueue, Running, HeldByCheck, HeldByWorker, HeldByLoop, InProcess, ItemsOf,
         LoopHolds, CommittedSaved, ParkingKept, Parking
<1>q. QED BY <1>1, <1>2, <1>3, <1>4, <1>5, <1>6 DEF PlaceInv

(* A flag makes its job's promises void, not its exclusions.               *)
LEMMA RequestCancelPlaces ==
    ASSUME IInv, SlotInv', NEW j \in Jobs, RequestCancel(j)
    PROVE  PlaceInv'
<1> USE DEF trackerVars, queueVars, activeVars, countVars, checkVars, workerVars, cancelVars,
            runnerVars, RequestCancel, IInv, PlaceInv, SlotInv, TypeOK
<1>1. QueueExcludes' /\ RunExcludes' /\ OneWorker' /\ Tallies' /\ ProcessCounted'
  <2>1. FilesFrame BY DEF FilesFrame
  <2>q. QED BY <2>1, FilesFrameKeeps
<1>2. SeenExcludes' /\ NothingLost' /\ FinishersDone'
  BY JobOfType, NoItemOutside DEF SeenExcludes, CountsLockFree, CancelActors, NothingLost,
         Live, IsCancelled, InQueue, Running, HeldByCheck, HeldByWorker, HeldByLoop,
         WorkersHold, LoopHolds, FinishersDone, Cancelling, QueuedUnchecked, ItemsOf
<1>3. Fence' /\ ParkingKept' /\ CommittedSaved' /\ Cancelling'
  BY JobOfType, NoItemOutside, FenceQuiet DEF Fence, CommittedSaved, ParkingKept, Parking,
         RemainderOf, ItemsOf, Cancelling, IsCancelled, LoopHolds, CancelActors
<1>4. QueuedEmpty' /\ QueuedKept'
  BY JobOfType, NoItemOutside DEF QueuedEmpty, QueuedKept, QueuedUnchecked, RemainderOf,
         InQueue, Running, HeldByCheck, HeldByWorker, HeldByLoop, InProcess, ItemsOf,
         LoopHolds, CommittedSaved, ParkingKept, Parking
<1>q. QED BY <1>1, <1>2, <1>3, <1>4 DEF PlaceInv

(* The row of a flagged job.                                               *)
LEMMA CancelRowPlaces ==
    ASSUME IInv, SlotInv', NEW j \in Jobs, CancelRow(j)
    PROVE  PlaceInv'
<1> USE DEF trackerVars, queueVars, activeVars, countVars, checkVars, workerVars, cancelVars,
            runnerVars, CancelRow, IInv, PlaceInv, SlotInv, TypeOK
<1>1. QueueExcludes' /\ RunExcludes' /\ OneWorker' /\ Tallies' /\ ProcessCounted'
  <2>1. FilesFrame BY DEF FilesFrame
  <2>q. QED BY <2>1, FilesFrameKeeps
<1>2. SeenExcludes' /\ NothingLost' /\ FinishersDone'
  BY JobOfType, NoItemOutside DEF SeenExcludes, CountsLockFree, CancelActors, NothingLost,
         Live, IsCancelled, InQueue, Running, HeldByCheck, HeldByWorker, HeldByLoop,
         WorkersHold, LoopHolds, FinishersDone, Cancelling, QueuedUnchecked, ItemsOf
<1>3. Fence' /\ ParkingKept' /\ CommittedSaved' /\ Cancelling'
  BY JobOfType, NoItemOutside, FenceQuiet DEF Fence, CommittedSaved, ParkingKept, Parking,
         RemainderOf, ItemsOf, Cancelling, IsCancelled, LoopHolds, CancelActors
<1>4. QueuedEmpty' /\ QueuedKept'
  BY JobOfType, NoItemOutside DEF QueuedEmpty, QueuedKept, QueuedUnchecked, RemainderOf,
         InQueue, Running, HeldByCheck, HeldByWorker, HeldByLoop, InProcess, ItemsOf,
         LoopHolds, CommittedSaved, ParkingKept, Parking
<1>q. QED BY <1>1, <1>2, <1>3, <1>4 DEF PlaceInv

(* A pause moves no file.                                                  *)
LEMMA TogglePausePlaces ==
    ASSUME IInv, SlotInv', NEW j \in Jobs, TogglePause(j)
    PROVE  PlaceInv'
<1> USE DEF trackerVars, queueVars, activeVars, countVars, checkVars, workerVars, cancelVars,
            runnerVars, TogglePause, IInv, PlaceInv, SlotInv, TypeOK
<1>1. QueueExcludes' /\ RunExcludes' /\ OneWorker' /\ Tallies' /\ ProcessCounted'
  <2>1. FilesFrame BY DEF FilesFrame
  <2>q. QED BY <2>1, FilesFrameKeeps
<1>2. SeenExcludes' /\ NothingLost' /\ FinishersDone'
  BY JobOfType, NoItemOutside DEF SeenExcludes, CountsLockFree, CancelActors, NothingLost,
         Live, IsCancelled, InQueue, Running, HeldByCheck, HeldByWorker, HeldByLoop,
         WorkersHold, LoopHolds, FinishersDone, Cancelling, QueuedUnchecked, ItemsOf
<1>3. Fence' /\ ParkingKept' /\ CommittedSaved' /\ Cancelling'
  BY JobOfType, NoItemOutside, FenceQuiet DEF Fence, CommittedSaved, ParkingKept, Parking,
         RemainderOf, ItemsOf, Cancelling, IsCancelled, LoopHolds, CancelActors
<1>4. QueuedEmpty' /\ QueuedKept'
  BY JobOfType, NoItemOutside DEF QueuedEmpty, QueuedKept, QueuedUnchecked, RemainderOf,
         InQueue, Running, HeldByCheck, HeldByWorker, HeldByLoop, InProcess, ItemsOf,
         LoopHolds, CommittedSaved, ParkingKept, Parking
<1>q. QED BY <1>1, <1>2, <1>3, <1>4 DEF PlaceInv

(* Closed hours move no file.                                              *)
LEMMA ClosePlaces ==
    ASSUME IInv, SlotInv', NEW j \in Jobs, Close(j)
    PROVE  PlaceInv'
<1> USE DEF trackerVars, queueVars, activeVars, countVars, checkVars, workerVars, cancelVars,
            runnerVars, Close, IInv, PlaceInv, SlotInv, TypeOK
<1>1. QueueExcludes' /\ RunExcludes' /\ OneWorker' /\ Tallies' /\ ProcessCounted'
  <2>1. FilesFrame BY DEF FilesFrame
  <2>q. QED BY <2>1, FilesFrameKeeps
<1>2. SeenExcludes' /\ NothingLost' /\ FinishersDone'
  BY JobOfType, NoItemOutside DEF SeenExcludes, CountsLockFree, CancelActors, NothingLost,
         Live, IsCancelled, InQueue, Running, HeldByCheck, HeldByWorker, HeldByLoop,
         WorkersHold, LoopHolds, FinishersDone, Cancelling, QueuedUnchecked, ItemsOf
<1>3. Fence' /\ ParkingKept' /\ CommittedSaved' /\ Cancelling'
  BY JobOfType, NoItemOutside, FenceQuiet DEF Fence, CommittedSaved, ParkingKept, Parking,
         RemainderOf, ItemsOf, Cancelling, IsCancelled, LoopHolds, CancelActors
<1>4. QueuedEmpty' /\ QueuedKept'
  BY JobOfType, NoItemOutside DEF QueuedEmpty, QueuedKept, QueuedUnchecked, RemainderOf,
         InQueue, Running, HeldByCheck, HeldByWorker, HeldByLoop, InProcess, ItemsOf,
         LoopHolds, CommittedSaved, ParkingKept, Parking
<1>q. QED BY <1>1, <1>2, <1>3, <1>4 DEF PlaceInv

(* Open hours move no file.                                                *)
LEMMA OpenPlaces ==
    ASSUME IInv, SlotInv', NEW j \in Jobs, Open(j)
    PROVE  PlaceInv'
<1> USE DEF trackerVars, queueVars, activeVars, countVars, checkVars, workerVars, cancelVars,
            runnerVars, Open, IInv, PlaceInv, SlotInv, TypeOK
<1>1. QueueExcludes' /\ RunExcludes' /\ OneWorker' /\ Tallies' /\ ProcessCounted'
  <2>1. FilesFrame BY DEF FilesFrame
  <2>q. QED BY <2>1, FilesFrameKeeps
<1>2. SeenExcludes' /\ NothingLost' /\ FinishersDone'
  BY JobOfType, NoItemOutside DEF SeenExcludes, CountsLockFree, CancelActors, NothingLost,
         Live, IsCancelled, InQueue, Running, HeldByCheck, HeldByWorker, HeldByLoop,
         WorkersHold, LoopHolds, FinishersDone, Cancelling, QueuedUnchecked, ItemsOf
<1>3. Fence' /\ ParkingKept' /\ CommittedSaved' /\ Cancelling'
  BY JobOfType, NoItemOutside, FenceQuiet DEF Fence, CommittedSaved, ParkingKept, Parking,
         RemainderOf, ItemsOf, Cancelling, IsCancelled, LoopHolds, CancelActors
<1>4. QueuedEmpty' /\ QueuedKept'
  BY JobOfType, NoItemOutside DEF QueuedEmpty, QueuedKept, QueuedUnchecked, RemainderOf,
         InQueue, Running, HeldByCheck, HeldByWorker, HeldByLoop, InProcess, ItemsOf,
         LoopHolds, CommittedSaved, ParkingKept, Parking
<1>q. QED BY <1>1, <1>2, <1>3, <1>4 DEF PlaceInv

-----------------------------------------------------------------------------
(* The runner's other steps, the cancels and the cleanup.                  *)

(* The files a job has settled and the files left over add up to its files. *)
LEMMA CountRemainder ==
    ASSUME NEW j \in Jobs
    PROVE  Cardinality(ItemsOf(j) \ settled) + Cardinality(settled \intersect ItemsOf(j))
             = Cardinality(ItemsOf(j))
<1>1. ItemsOf(j) \subseteq Items /\ settled \intersect ItemsOf(j) \subseteq Items
      /\ ItemsOf(j) \intersect settled = settled \intersect ItemsOf(j)
  BY DEF ItemsOf
<1>2. /\ Cardinality(ItemsOf(j)) \in Nat /\ IsFiniteSet(ItemsOf(j))
      /\ Cardinality(settled \intersect ItemsOf(j)) \in Nat
  BY <1>1, CountFiles
<1>3. Cardinality(ItemsOf(j) \ settled)
        = Cardinality(ItemsOf(j)) - Cardinality(settled \intersect ItemsOf(j))
  BY <1>1, <1>2, FS_Difference
<1>q. QED BY <1>2, <1>3

(* The new tracker's queue is the checkpoint, which is what is left.       *)
LEMMA SubmitPlaces ==
    ASSUME IInv, SlotInv', NEW j \in Jobs, Submit(j)
    PROVE  PlaceInv'
<1> USE DEF checkVars, workerVars, cancelVars, userVars, Submit, TrackersLockFree, IInv,
            PlaceInv, SlotInv, TypeOK
<1>a. /\ saved[j].items = ItemsOf(j) \ settled /\ saved[j].completed = completed[j]
      /\ \A i \in ItemsOf(j) : check[i] = "none" /\ ~InQueue(i) /\ ~Running(i) /\ ~InProcess(i)
      /\ j \notin cancelled
      BY DEF QueuedKept, RemainderOf, QueuedEmpty, QueuedUnchecked, Cancelling
<1>1. QueueExcludes' /\ RunExcludes' /\ OneWorker' /\ SeenExcludes'
  BY JobOfType, NoItemOutside, <1>a DEF QueueExcludes, RunExcludes, OneWorker, SeenExcludes,
         CountsLockFree, InQueue, Running, HeldByCheck, HeldByWorker, HeldByLoop, WorkersHold,
         LoopHolds, UncheckedWait, QueuedUnchecked, CancelActors
<1>2. NothingLost' /\ FinishersDone'
  BY JobOfType, NoItemOutside, <1>a DEF NothingLost, Live, IsCancelled, InQueue, Running,
         HeldByCheck, HeldByWorker, HeldByLoop, WorkersHold, LoopHolds, FinishersDone,
         Cancelling, QueuedUnchecked, ItemsOf
<1>3. Fence' /\ ParkingKept' /\ CommittedSaved' /\ Cancelling'
  BY JobOfType, NoItemOutside, <1>a, FenceQuiet DEF Fence, CommittedSaved, ParkingKept,
         Parking, RemainderOf, ItemsOf, Cancelling, IsCancelled, LoopHolds, CancelActors
<1>4. QueuedEmpty' /\ QueuedKept'
  BY JobOfType, NoItemOutside, <1>a DEF QueuedEmpty, QueuedKept, QueuedUnchecked, RemainderOf,
         InQueue, Running, HeldByCheck, HeldByWorker, HeldByLoop, InProcess, ItemsOf,
         LoopHolds, CommittedSaved, ParkingKept, Parking
<1>5. Tallies' /\ ProcessCounted'
  <2>1. Cardinality(ItemsOf(j) \ settled) + Cardinality(settled \intersect ItemsOf(j))
          = Cardinality(ItemsOf(j))
    BY CountRemainder
  <2>2. completed' = completed /\ total' = total /\ settled' = settled
    BY <1>a, <2>1 DEF Tallies
  <2>3. Tallies'
    <3>1. Tallies OBVIOUS
    <3> HIDE DEF IInv, PlaceInv, SlotInv, TypeOK, Submit
    <3>q. QED BY <2>2, <3>1 DEF Tallies, ItemsOf
  <2>4. \A k \in Jobs : ProcessOf(k)' = ProcessOf(k)
    BY DEF ProcessOf, InProcess, HeldByWorker, ItemsOf
  <2>5. Cardinality(ProcessOf(j)) = 0
    <3>1. ProcessOf(j) = {} BY <1>a DEF ProcessOf
    <3>q. QED BY <3>1, FS_EmptySet
  <2>6. activeProc'[j] = 0 /\ \A k \in Jobs \ {j} : activeProc'[k] = activeProc[k]
    OBVIOUS
  <2>7. ProcessCounted' BY <2>4, <2>5, <2>6 DEF ProcessCounted
  <2>q. QED BY <2>3, <2>7
<1>q. QED BY <1>1, <1>2, <1>3, <1>4, <1>5 DEF PlaceInv

(* The queues go: the checkpoint has what they held.                       *)
LEMMA DetachPlaces ==
    ASSUME IInv, SlotInv', NEW j \in Jobs, Detach(j)
    PROVE  PlaceInv'
<1> USE DEF activeVars, countVars, checkVars, workerVars, cancelVars, userVars, Detach,
            TrackersLockFree, IInv, PlaceInv, SlotInv, TypeOK
<1>a. Parking(j) BY DEF Parking
<1>b. \A i \in ItemsOf(j) : check[i] = "none" /\ ~Running(i) /\ ~InProcess(i)
      BY <1>a, FenceQuiet
<1>1. QueueExcludes' /\ RunExcludes' /\ OneWorker' /\ SeenExcludes'
  BY JobOfType, NoItemOutside, <1>a, <1>b DEF QueueExcludes, RunExcludes, OneWorker,
         SeenExcludes, CountsLockFree, InQueue, Running, HeldByCheck, HeldByWorker,
         HeldByLoop, WorkersHold, LoopHolds, UncheckedWait, QueuedUnchecked, CancelActors
<1>2. NothingLost' /\ FinishersDone'
  BY JobOfType, NoItemOutside, <1>a, <1>b DEF NothingLost, Live, IsCancelled, InQueue,
         Running, HeldByCheck, HeldByWorker, HeldByLoop, WorkersHold, LoopHolds,
         FinishersDone, Cancelling, QueuedUnchecked, ItemsOf
<1>3. Fence' /\ ParkingKept' /\ CommittedSaved' /\ Cancelling'
  BY JobOfType, NoItemOutside, <1>a, <1>b, FenceQuiet DEF Fence, CommittedSaved, ParkingKept,
         Parking, RemainderOf, ItemsOf, Cancelling, IsCancelled, LoopHolds, CancelActors
<1>4. QueuedEmpty' /\ QueuedKept'
  BY JobOfType, NoItemOutside, <1>a, <1>b DEF QueuedEmpty, QueuedKept, QueuedUnchecked,
         RemainderOf, InQueue, Running, HeldByCheck, HeldByWorker, HeldByLoop, InProcess,
         ItemsOf, LoopHolds, CommittedSaved, ParkingKept, Parking
<1>5. Tallies' /\ ProcessCounted'
  <2>1. \A k \in Jobs : ProcessOf(k)' \subseteq ProcessOf(k)
    BY JobOfType, NoItemOutside, <1>a, <1>b DEF ProcessOf, InProcess, ItemsOf, HeldByWorker
  <2>q. QED BY <2>1, CountFrameKeeps
<1>q. QED BY <1>1, <1>2, <1>3, <1>4, <1>5 DEF PlaceInv

(* A done tracker is forgotten.                                            *)
LEMMA CleanupPlaces ==
    ASSUME IInv, SlotInv', NEW j \in Jobs, Cleanup(j)
    PROVE  PlaceInv'
<1> USE DEF queueVars, activeVars, countVars, checkVars, workerVars, cancelVars, runnerVars,
            userVars, Cleanup, LoopIdle, IInv, PlaceInv, SlotInv, TypeOK
<1>1. QueueExcludes' /\ RunExcludes' /\ OneWorker' /\ SeenExcludes'
  BY JobOfType, NoItemOutside DEF QueueExcludes, RunExcludes, OneWorker, SeenExcludes,
         CountsLockFree, InQueue, Running, HeldByCheck, HeldByWorker, HeldByLoop, WorkersHold,
         LoopHolds, UncheckedWait, QueuedUnchecked, CancelActors
<1>2. NothingLost' /\ FinishersDone'
  BY JobOfType, NoItemOutside DEF NothingLost, Live, IsCancelled, InQueue, Running,
         HeldByCheck, HeldByWorker, HeldByLoop, WorkersHold, LoopHolds, FinishersDone,
         Cancelling, QueuedUnchecked, ItemsOf
<1>3. Fence' /\ ParkingKept' /\ CommittedSaved' /\ Cancelling'
  BY JobOfType, NoItemOutside, FenceQuiet DEF Fence, CommittedSaved, ParkingKept, Parking,
         RemainderOf, ItemsOf, Cancelling, IsCancelled, LoopHolds, CancelActors
<1>4. QueuedEmpty' /\ QueuedKept'
  BY JobOfType, NoItemOutside DEF QueuedEmpty, QueuedKept, QueuedUnchecked, RemainderOf,
         InQueue, Running, HeldByCheck, HeldByWorker, HeldByLoop, InProcess, ItemsOf,
         LoopHolds, CommittedSaved, ParkingKept, Parking
<1>5. Tallies' /\ ProcessCounted'
  <2>1. \A k \in Jobs : ProcessOf(k)' \subseteq ProcessOf(k)
    BY JobOfType, NoItemOutside DEF ProcessOf, InProcess, ItemsOf, HeldByWorker
  <2>q. QED BY <2>1, CountFrameKeeps
<1>q. QED BY <1>1, <1>2, <1>3, <1>4, <1>5 DEF PlaceInv

(* The loop cancels a flagged job.                                         *)
LEMMA LoopCancelsPlaces ==
    ASSUME IInv, SlotInv', NEW j \in Jobs, LoopCancels(j)
    PROVE  PlaceInv'
<1> USE DEF queueVars, activeVars, countVars, checkVars, workerVars, runnerVars, userVars,
            LoopCancels, LoopAt, LoopIdle, IsCancelled, IInv, PlaceInv, SlotInv, TypeOK
<1>1. QueueExcludes' /\ RunExcludes' /\ OneWorker' /\ SeenExcludes'
  BY JobOfType, NoItemOutside DEF QueueExcludes, RunExcludes, OneWorker, SeenExcludes,
         CountsLockFree, InQueue, Running, HeldByCheck, HeldByWorker, HeldByLoop, WorkersHold,
         LoopHolds, UncheckedWait, QueuedUnchecked, CancelActors
<1>2. NothingLost' /\ FinishersDone'
  BY JobOfType, NoItemOutside DEF NothingLost, Live, InQueue, Running, HeldByCheck,
         HeldByWorker, HeldByLoop, WorkersHold, LoopHolds, FinishersDone, Cancelling,
         QueuedUnchecked, ItemsOf
<1>3. Fence' /\ ParkingKept' /\ CommittedSaved' /\ Cancelling'
  BY JobOfType, NoItemOutside, FenceQuiet DEF Fence, CommittedSaved, ParkingKept, Parking,
         RemainderOf, ItemsOf, Cancelling, LoopHolds, CancelActors
<1>4. QueuedEmpty' /\ QueuedKept'
  BY JobOfType, NoItemOutside DEF QueuedEmpty, QueuedKept, QueuedUnchecked, RemainderOf,
         InQueue, Running, HeldByCheck, HeldByWorker, HeldByLoop, InProcess, ItemsOf,
         LoopHolds, CommittedSaved, ParkingKept, Parking
<1>5. Tallies' /\ ProcessCounted'
  <2>1. \A k \in Jobs : ProcessOf(k)' \subseteq ProcessOf(k)
    BY JobOfType, NoItemOutside DEF ProcessOf, InProcess, ItemsOf, HeldByWorker
  <2>q. QED BY <2>1, CountFrameKeeps
<1>q. QED BY <1>1, <1>2, <1>3, <1>4, <1>5 DEF PlaceInv

(* What a cancel reads is queued, so nobody runs it.                       *)
LEMMA CancelReadsPlaces ==
    ASSUME IInv, SlotInv', NEW c \in CancelActors, NEW j \in Jobs, CancelReads(c, j)
    PROVE  PlaceInv'
<1> USE DEF trackerVars, queueVars, activeVars, countVars, checkVars, workerVars, runnerVars,
            userVars, CancelReads, CountsLockFree, IInv, PlaceInv, SlotInv, TypeOK
<1>1. QueueExcludes' /\ RunExcludes' /\ OneWorker'
  BY JobOfType, NoItemOutside DEF QueueExcludes, RunExcludes, OneWorker, InQueue, Running,
         HeldByCheck, HeldByWorker, HeldByLoop, WorkersHold, LoopHolds, UncheckedWait,
         QueuedUnchecked
<1>2. SeenExcludes'
  <2>1. j \in cancelled /\ ~CountsLockFree(j)'
    BY DEF Cancelling
  <2>2. \A k \in Jobs \ {j} : seen'[k] = seen[k] /\ (~CountsLockFree(k) => ~CountsLockFree(k)')
    OBVIOUS
  <2>3. \A i \in seen'[j] : JobOf[i] = j /\ ~Running(i) /\ i \notin settled
    BY DEF ItemsOf, QueueExcludes, InQueue
  <2>4. \A i \in Items : Running(i)' = Running(i)
    BY DEF Running, HeldByCheck, HeldByWorker, HeldByLoop
  <2>5. seen[j] \subseteq Items /\ \A k \in Jobs : seen'[k] \subseteq Items
    OBVIOUS
  <2>q. QED BY <2>1, <2>2, <2>3, <2>4, <2>5 DEF SeenExcludes
<1>3. NothingLost' /\ FinishersDone'
  BY JobOfType, NoItemOutside DEF NothingLost, Live, IsCancelled, InQueue, Running,
         HeldByCheck, HeldByWorker, HeldByLoop, WorkersHold, LoopHolds, FinishersDone,
         Cancelling, QueuedUnchecked, ItemsOf
<1>4. Fence' /\ ParkingKept' /\ CommittedSaved' /\ Cancelling'
  BY JobOfType, NoItemOutside, FenceQuiet DEF Fence, CommittedSaved, ParkingKept, Parking,
         RemainderOf, ItemsOf, Cancelling, IsCancelled, LoopHolds, CancelActors
<1>5. QueuedEmpty' /\ QueuedKept'
  BY JobOfType, NoItemOutside DEF QueuedEmpty, QueuedKept, QueuedUnchecked, RemainderOf,
         InQueue, Running, HeldByCheck, HeldByWorker, HeldByLoop, InProcess, ItemsOf,
         LoopHolds, CommittedSaved, ParkingKept, Parking
<1>6. Tallies' /\ ProcessCounted'
  <2>1. \A k \in Jobs : ProcessOf(k)' \subseteq ProcessOf(k)
    BY JobOfType, NoItemOutside DEF ProcessOf, InProcess, ItemsOf, HeldByWorker
  <2>q. QED BY <2>1, CountFrameKeeps
<1>q. QED BY <1>1, <1>2, <1>3, <1>4, <1>5, <1>6 DEF PlaceInv

(* What was read is counted, what came after is dropped.                   *)
LEMMA CancelClearsPlaces ==
    ASSUME IInv, SlotInv', NEW c \in CancelActors, NEW j \in Jobs, CancelClears(c, j)
    PROVE  PlaceInv'
<1> USE DEF trackerVars, activeVars, checkVars, workerVars, runnerVars, userVars,
            CancelClears, IInv, PlaceInv, SlotInv, TypeOK
<1>a. /\ seen[j] \subseteq ItemsOf(j) /\ ItemsOf(j) \subseteq Items
      /\ \A i \in seen[j] : ~Running(i) /\ i \notin settled
      /\ j \in cancelled /\ (j \in flag \/ runner[j] = "ended")
      BY DEF Cancelling, SeenExcludes, ItemsOf
<1>b. \A k \in Jobs \ {j} : /\ settled' \intersect ItemsOf(k) = settled \intersect ItemsOf(k)
                            /\ ItemsOf(k) \ settled' = ItemsOf(k) \ settled
                            /\ completed'[k] = completed[k]
      BY <1>a DEF ItemsOf
<1>1. QueueExcludes' /\ RunExcludes' /\ OneWorker' /\ SeenExcludes'
  BY JobOfType, NoItemOutside, <1>a, <1>b DEF QueueExcludes, RunExcludes, OneWorker,
         SeenExcludes, CountsLockFree, InQueue, Running, HeldByCheck, HeldByWorker,
         HeldByLoop, WorkersHold, LoopHolds, UncheckedWait, QueuedUnchecked, CancelActors
<1>2. NothingLost' /\ FinishersDone'
  BY JobOfType, NoItemOutside, <1>a, <1>b DEF NothingLost, Live, IsCancelled, InQueue,
         Running, HeldByCheck, HeldByWorker, HeldByLoop, WorkersHold, LoopHolds,
         FinishersDone, Cancelling, QueuedUnchecked, ItemsOf
<1>3. Fence' /\ ParkingKept' /\ CommittedSaved' /\ Cancelling'
  BY JobOfType, NoItemOutside, <1>a, <1>b, FenceQuiet DEF Fence, CommittedSaved, ParkingKept,
         Parking, RemainderOf, ItemsOf, Cancelling, IsCancelled, LoopHolds, CancelActors
<1>4. QueuedEmpty' /\ QueuedKept'
  BY JobOfType, NoItemOutside, <1>a, <1>b DEF QueuedEmpty, QueuedKept, QueuedUnchecked,
         RemainderOf, InQueue, Running, HeldByCheck, HeldByWorker, HeldByLoop, InProcess,
         ItemsOf, LoopHolds, CommittedSaved, ParkingKept, Parking
<1>5. Tallies' /\ ProcessCounted'
  <2> DEFINE S == settled \intersect ItemsOf(j)
  <2>1. /\ settled' \intersect ItemsOf(j) = S \union seen[j]
        /\ S \intersect seen[j] = {} /\ S \subseteq Items /\ seen[j] \subseteq Items
    BY <1>a
  <2>2. Cardinality(S \union seen[j]) = Cardinality(S) + Cardinality(seen[j])
    <3>1. /\ IsFiniteSet(S) /\ IsFiniteSet(seen[j])
          /\ Cardinality(S) \in Nat /\ Cardinality(seen[j]) \in Nat
      BY <2>1, CountFiles
    <3>2. Cardinality(S \union seen[j])
            = Cardinality(S) + Cardinality(seen[j]) - Cardinality(S \intersect seen[j])
      BY <3>1, FS_Union
    <3>3. Cardinality(S \intersect seen[j]) = 0 BY <2>1, FS_EmptySet
    <3>q. QED BY <3>1, <3>2, <3>3
  <2>3. Tallies'
    <3> SUFFICES ASSUME NEW k \in Jobs
                 PROVE  /\ completed'[k] = Cardinality(settled' \intersect ItemsOf(k))
                        /\ total'[k] = Cardinality(ItemsOf(k))
        BY DEF Tallies, ItemsOf
    <3>1. /\ completed[k] = Cardinality(settled \intersect ItemsOf(k))
          /\ total'[k] = Cardinality(ItemsOf(k))
      BY DEF Tallies
    <3>2. CASE k = j BY <2>1, <2>2, <3>1, <3>2
    <3>3. CASE k # j BY <1>b, <3>1, <3>3
    <3>q. QED BY <3>2, <3>3
  <2>4. \A k \in Jobs : ProcessOf(k)' = ProcessOf(k) /\ activeProc'[k] = activeProc[k]
    BY DEF ProcessOf, InProcess, HeldByWorker, ItemsOf
  <2>5. ProcessCounted' BY <2>4 DEF ProcessCounted
  <2>q. QED BY <2>3, <2>5
<1>q. QED BY <1>1, <1>2, <1>3, <1>4, <1>5 DEF PlaceInv

(* done_event of a cancelled job.                                          *)
LEMMA CancelDonePlaces ==
    ASSUME IInv, SlotInv', NEW c \in CancelActors, NEW j \in Jobs, CancelDone(c, j)
    PROVE  PlaceInv'
<1> USE DEF queueVars, activeVars, countVars, checkVars, workerVars, userVars, CancelDone,
            LoopIdle, IInv, PlaceInv, SlotInv, TypeOK
<1>1. QueueExcludes' /\ RunExcludes' /\ OneWorker' /\ SeenExcludes'
  BY JobOfType, NoItemOutside DEF QueueExcludes, RunExcludes, OneWorker, SeenExcludes,
         CountsLockFree, InQueue, Running, HeldByCheck, HeldByWorker, HeldByLoop, WorkersHold,
         LoopHolds, UncheckedWait, QueuedUnchecked, CancelActors
<1>2. NothingLost' /\ FinishersDone'
  BY JobOfType, NoItemOutside DEF NothingLost, Live, IsCancelled, InQueue, Running,
         HeldByCheck, HeldByWorker, HeldByLoop, WorkersHold, LoopHolds, FinishersDone,
         Cancelling, QueuedUnchecked, ItemsOf
<1>3. Fence' /\ CommittedSaved'
  BY JobOfType, NoItemOutside DEF Fence, Parking, LoopHolds, CommittedSaved
<1>4. ParkingKept'
  BY JobOfType, NoItemOutside, FenceQuiet DEF ParkingKept, Parking, RemainderOf, ItemsOf,
         Cancelling, IsCancelled
<1>5. Cancelling'
  <2>1. CASE c = "loop"
    BY <2>1 DEF Cancelling, CancelActors
  <2>2. CASE c = "runner"
    BY <2>2 DEF Cancelling, CancelActors
  <2>q. QED BY <2>1, <2>2 DEF CancelActors
<1>6. QueuedEmpty' /\ QueuedKept'
  BY JobOfType, NoItemOutside DEF QueuedEmpty, QueuedKept, QueuedUnchecked, RemainderOf,
         InQueue, Running, HeldByCheck, HeldByWorker, HeldByLoop, InProcess, ItemsOf,
         LoopHolds, CommittedSaved, ParkingKept, Parking
<1>7. Tallies' /\ ProcessCounted'
  <2>1. \A k \in Jobs : ProcessOf(k)' \subseteq ProcessOf(k)
    BY JobOfType, NoItemOutside DEF ProcessOf, InProcess, ItemsOf, HeldByWorker
  <2>q. QED BY <2>1, CountFrameKeeps
<1>q. QED BY <1>1, <1>2, <1>3, <1>4, <1>5, <1>6, <1>7 DEF PlaceInv

-----------------------------------------------------------------------------
(* The check threads.                                                      *)

(* A file goes from check_queue to its check thread.                       *)
LEMMA PickCheckPlaces ==
    ASSUME IInv, SlotInv', NEW i \in Items, PickCheck(i)
    PROVE  PlaceInv'
<1> USE DEF trackerVars, countVars, workerVars, cancelVars, runnerVars, userVars, PickCheck,
            LoopAt, LoopIdle, IsCancelled, IInv, PlaceInv, SlotInv, TypeOK
<1>1. QueueExcludes' /\ RunExcludes' /\ OneWorker' /\ SeenExcludes'
  BY JobOfType, NoItemOutside DEF QueueExcludes, RunExcludes, OneWorker, SeenExcludes,
         CountsLockFree, InQueue, Running, HeldByCheck, HeldByWorker, HeldByLoop, WorkersHold,
         LoopHolds, UncheckedWait, QueuedUnchecked, CancelActors
<1>2. NothingLost' /\ FinishersDone'
  BY JobOfType, NoItemOutside DEF NothingLost, Live, InQueue, Running, HeldByCheck,
         HeldByWorker, HeldByLoop, WorkersHold, LoopHolds, FinishersDone, Cancelling,
         QueuedUnchecked, ItemsOf
<1>3. Fence' /\ ParkingKept' /\ CommittedSaved' /\ Cancelling'
  BY JobOfType, NoItemOutside, FenceQuiet DEF Fence, CommittedSaved, ParkingKept, Parking,
         RemainderOf, ItemsOf, Cancelling, LoopHolds, CancelActors
<1>4. QueuedEmpty' /\ QueuedKept'
  BY JobOfType, NoItemOutside DEF QueuedEmpty, QueuedKept, QueuedUnchecked, RemainderOf,
         InQueue, Running, HeldByCheck, HeldByWorker, HeldByLoop, InProcess, ItemsOf,
         LoopHolds, CommittedSaved, ParkingKept, Parking
<1>5. Tallies' /\ ProcessCounted'
  <2>1. \A k \in Jobs : ProcessOf(k)' \subseteq ProcessOf(k)
    BY JobOfType, NoItemOutside DEF ProcessOf, InProcess, ItemsOf, HeldByWorker
  <2>q. QED BY <2>1, CountFrameKeeps
<1>q. QED BY <1>1, <1>2, <1>3, <1>4, <1>5 DEF PlaceInv

(* Its thread starts.                                                      *)
LEMMA StartCheckPlaces ==
    ASSUME IInv, SlotInv', StartCheck
    PROVE  PlaceInv'
<1> USE DEF trackerVars, queueVars, activeVars, countVars, workerVars, cancelVars, runnerVars,
            userVars, StartCheck, LoopIdle, IInv, PlaceInv, SlotInv, TypeOK
<1>1. QueueExcludes' /\ RunExcludes' /\ OneWorker' /\ SeenExcludes'
  BY JobOfType, NoItemOutside DEF QueueExcludes, RunExcludes, OneWorker, SeenExcludes,
         CountsLockFree, InQueue, Running, HeldByCheck, HeldByWorker, HeldByLoop, WorkersHold,
         LoopHolds, UncheckedWait, QueuedUnchecked, CancelActors
<1>2. NothingLost' /\ FinishersDone'
  BY JobOfType, NoItemOutside DEF NothingLost, Live, IsCancelled, InQueue, Running,
         HeldByCheck, HeldByWorker, HeldByLoop, WorkersHold, LoopHolds, FinishersDone,
         Cancelling, QueuedUnchecked, ItemsOf
<1>3. Fence' /\ ParkingKept' /\ CommittedSaved' /\ Cancelling'
  BY JobOfType, NoItemOutside, FenceQuiet DEF Fence, CommittedSaved, ParkingKept, Parking,
         RemainderOf, ItemsOf, Cancelling, IsCancelled, LoopHolds, CancelActors
<1>4. QueuedEmpty' /\ QueuedKept'
  BY JobOfType, NoItemOutside DEF QueuedEmpty, QueuedKept, QueuedUnchecked, RemainderOf,
         InQueue, Running, HeldByCheck, HeldByWorker, HeldByLoop, InProcess, ItemsOf,
         LoopHolds, CommittedSaved, ParkingKept, Parking
<1>5. Tallies' /\ ProcessCounted'
  <2>1. \A k \in Jobs : ProcessOf(k)' \subseteq ProcessOf(k)
    BY JobOfType, NoItemOutside DEF ProcessOf, InProcess, ItemsOf, HeldByWorker
  <2>q. QED BY <2>1, CountFrameKeeps
<1>q. QED BY <1>1, <1>2, <1>3, <1>4, <1>5 DEF PlaceInv

(* It goes back to check_queue.                                            *)
LEMMA StartCheckFailsPlaces ==
    ASSUME IInv, SlotInv', StartCheckFails
    PROVE  PlaceInv'
<1> USE DEF trackerVars, countVars, workerVars, cancelVars, runnerVars, userVars,
            StartCheckFails, LoopIdle, IInv, PlaceInv, SlotInv, TypeOK
<1>1. QueueExcludes' /\ RunExcludes' /\ OneWorker' /\ SeenExcludes'
  BY JobOfType, NoItemOutside DEF QueueExcludes, RunExcludes, OneWorker, SeenExcludes,
         CountsLockFree, InQueue, Running, HeldByCheck, HeldByWorker, HeldByLoop, WorkersHold,
         LoopHolds, UncheckedWait, QueuedUnchecked, CancelActors
<1>2. NothingLost' /\ FinishersDone'
  BY JobOfType, NoItemOutside DEF NothingLost, Live, IsCancelled, InQueue, Running,
         HeldByCheck, HeldByWorker, HeldByLoop, WorkersHold, LoopHolds, FinishersDone,
         Cancelling, QueuedUnchecked, ItemsOf
<1>3. Fence' /\ ParkingKept' /\ CommittedSaved' /\ Cancelling'
  BY JobOfType, NoItemOutside, FenceQuiet DEF Fence, CommittedSaved, ParkingKept, Parking,
         RemainderOf, ItemsOf, Cancelling, IsCancelled, LoopHolds, CancelActors
<1>4. QueuedEmpty' /\ QueuedKept'
  BY JobOfType, NoItemOutside DEF QueuedEmpty, QueuedKept, QueuedUnchecked, RemainderOf,
         InQueue, Running, HeldByCheck, HeldByWorker, HeldByLoop, InProcess, ItemsOf,
         LoopHolds, CommittedSaved, ParkingKept, Parking
<1>5. Tallies' /\ ProcessCounted'
  <2>1. \A k \in Jobs : ProcessOf(k)' \subseteq ProcessOf(k)
    BY JobOfType, NoItemOutside DEF ProcessOf, InProcess, ItemsOf, HeldByWorker
  <2>q. QED BY <2>1, CountFrameKeeps
<1>q. QED BY <1>1, <1>2, <1>3, <1>4, <1>5 DEF PlaceInv

(* Only a cancelled or done job's file is left alone.                      *)
LEMMA CheckBeginsPlaces ==
    ASSUME IInv, SlotInv', NEW i \in Items, CheckBegins(i)
    PROVE  PlaceInv'
<1> USE DEF trackerVars, queueVars, activeVars, countVars, workerVars, cancelVars, runnerVars,
            userVars, CheckBegins, CheckGoes, IsCancelled, IInv, PlaceInv, SlotInv, TypeOK
<1>1. QueueExcludes' /\ RunExcludes' /\ OneWorker' /\ SeenExcludes'
  BY JobOfType, NoItemOutside DEF QueueExcludes, RunExcludes, OneWorker, SeenExcludes,
         CountsLockFree, InQueue, Running, HeldByCheck, HeldByWorker, HeldByLoop, WorkersHold,
         LoopHolds, UncheckedWait, QueuedUnchecked, CancelActors
<1>2. NothingLost' /\ FinishersDone'
  BY JobOfType, NoItemOutside DEF NothingLost, Live, InQueue, Running, HeldByCheck,
         HeldByWorker, HeldByLoop, WorkersHold, LoopHolds, FinishersDone, Cancelling,
         QueuedUnchecked, ItemsOf
<1>3. Fence' /\ ParkingKept' /\ CommittedSaved' /\ Cancelling'
  BY JobOfType, NoItemOutside, FenceQuiet DEF Fence, CommittedSaved, ParkingKept, Parking,
         RemainderOf, ItemsOf, Cancelling, LoopHolds, CancelActors
<1>4. QueuedEmpty' /\ QueuedKept'
  BY JobOfType, NoItemOutside DEF QueuedEmpty, QueuedKept, QueuedUnchecked, RemainderOf,
         InQueue, Running, HeldByCheck, HeldByWorker, HeldByLoop, InProcess, ItemsOf,
         LoopHolds, CommittedSaved, ParkingKept, Parking
<1>5. Tallies' /\ ProcessCounted'
  <2>1. \A k \in Jobs : ProcessOf(k)' \subseteq ProcessOf(k)
    BY JobOfType, NoItemOutside DEF ProcessOf, InProcess, ItemsOf, HeldByWorker
  <2>q. QED BY <2>1, CountFrameKeeps
<1>q. QED BY <1>1, <1>2, <1>3, <1>4, <1>5 DEF PlaceInv

(* Only a cancelled or done job's file is dropped.                         *)
LEMMA CheckNeedsWorkerPlaces ==
    ASSUME IInv, SlotInv', NEW i \in Items, CheckNeedsWorker(i)
    PROVE  PlaceInv'
<1> USE DEF trackerVars, queueVars, activeVars, countVars, workerVars, cancelVars, runnerVars,
            userVars, CheckNeedsWorker, CheckGoes, IsCancelled, IInv, PlaceInv, SlotInv,
            TypeOK
<1>1. QueueExcludes' /\ RunExcludes' /\ OneWorker' /\ SeenExcludes'
  BY JobOfType, NoItemOutside DEF QueueExcludes, RunExcludes, OneWorker, SeenExcludes,
         CountsLockFree, InQueue, Running, HeldByCheck, HeldByWorker, HeldByLoop, WorkersHold,
         LoopHolds, UncheckedWait, QueuedUnchecked, CancelActors
<1>2. NothingLost' /\ FinishersDone'
  BY JobOfType, NoItemOutside DEF NothingLost, Live, InQueue, Running, HeldByCheck,
         HeldByWorker, HeldByLoop, WorkersHold, LoopHolds, FinishersDone, Cancelling,
         QueuedUnchecked, ItemsOf
<1>3. Fence' /\ ParkingKept' /\ CommittedSaved' /\ Cancelling'
  BY JobOfType, NoItemOutside, FenceQuiet DEF Fence, CommittedSaved, ParkingKept, Parking,
         RemainderOf, ItemsOf, Cancelling, LoopHolds, CancelActors
<1>4. QueuedEmpty' /\ QueuedKept'
  BY JobOfType, NoItemOutside DEF QueuedEmpty, QueuedKept, QueuedUnchecked, RemainderOf,
         InQueue, Running, HeldByCheck, HeldByWorker, HeldByLoop, InProcess, ItemsOf,
         LoopHolds, CommittedSaved, ParkingKept, Parking
<1>5. Tallies' /\ ProcessCounted'
  <2>1. \A k \in Jobs : ProcessOf(k)' \subseteq ProcessOf(k)
    BY JobOfType, NoItemOutside DEF ProcessOf, InProcess, ItemsOf, HeldByWorker
  <2>q. QED BY <2>1, CountFrameKeeps
<1>q. QED BY <1>1, <1>2, <1>3, <1>4, <1>5 DEF PlaceInv

(* The file goes from its check thread to item_queue.                      *)
LEMMA CheckAppendsPlaces ==
    ASSUME IInv, SlotInv', NEW i \in Items, CheckAppends(i)
    PROVE  PlaceInv'
<1> USE DEF trackerVars, activeVars, countVars, workerVars, cancelVars, runnerVars, userVars,
            CheckAppends, CheckGoes, IInv, PlaceInv, SlotInv, TypeOK
<1>1. QueueExcludes' /\ RunExcludes' /\ OneWorker' /\ SeenExcludes'
  BY JobOfType, NoItemOutside DEF QueueExcludes, RunExcludes, OneWorker, SeenExcludes,
         CountsLockFree, InQueue, Running, HeldByCheck, HeldByWorker, HeldByLoop, WorkersHold,
         LoopHolds, UncheckedWait, QueuedUnchecked, CancelActors
<1>2. NothingLost' /\ FinishersDone'
  BY JobOfType, NoItemOutside DEF NothingLost, Live, IsCancelled, InQueue, Running,
         HeldByCheck, HeldByWorker, HeldByLoop, WorkersHold, LoopHolds, FinishersDone,
         Cancelling, QueuedUnchecked, ItemsOf
<1>3. Fence' /\ ParkingKept' /\ CommittedSaved' /\ Cancelling'
  BY JobOfType, NoItemOutside, FenceQuiet DEF Fence, CommittedSaved, ParkingKept, Parking,
         RemainderOf, ItemsOf, Cancelling, IsCancelled, LoopHolds, CancelActors
<1>4. QueuedEmpty' /\ QueuedKept'
  BY JobOfType, NoItemOutside DEF QueuedEmpty, QueuedKept, QueuedUnchecked, RemainderOf,
         InQueue, Running, HeldByCheck, HeldByWorker, HeldByLoop, InProcess, ItemsOf,
         LoopHolds, CommittedSaved, ParkingKept, Parking
<1>5. Tallies' /\ ProcessCounted'
  <2>1. \A k \in Jobs : ProcessOf(k)' \subseteq ProcessOf(k)
    BY JobOfType, NoItemOutside DEF ProcessOf, InProcess, ItemsOf, HeldByWorker
  <2>q. QED BY <2>1, CountFrameKeeps
<1>q. QED BY <1>1, <1>2, <1>3, <1>4, <1>5 DEF PlaceInv

(* Only a done job's file is not recorded.                                 *)
LEMMA CheckDecidesPlaces ==
    ASSUME IInv, SlotInv', NEW i \in Items, CheckDecides(i)
    PROVE  PlaceInv'
<1> USE DEF trackerVars, queueVars, activeVars, countVars, workerVars, cancelVars, runnerVars,
            userVars, CheckDecides, CheckGoes, IInv, PlaceInv, SlotInv, TypeOK
<1>1. QueueExcludes' /\ RunExcludes' /\ OneWorker' /\ SeenExcludes'
  BY JobOfType, NoItemOutside DEF QueueExcludes, RunExcludes, OneWorker, SeenExcludes,
         CountsLockFree, InQueue, Running, HeldByCheck, HeldByWorker, HeldByLoop, WorkersHold,
         LoopHolds, UncheckedWait, QueuedUnchecked, CancelActors
<1>2. NothingLost' /\ FinishersDone'
  BY JobOfType, NoItemOutside DEF NothingLost, Live, IsCancelled, InQueue, Running,
         HeldByCheck, HeldByWorker, HeldByLoop, WorkersHold, LoopHolds, FinishersDone,
         Cancelling, QueuedUnchecked, ItemsOf
<1>3. Fence' /\ ParkingKept' /\ CommittedSaved' /\ Cancelling'
  BY JobOfType, NoItemOutside, FenceQuiet DEF Fence, CommittedSaved, ParkingKept, Parking,
         RemainderOf, ItemsOf, Cancelling, IsCancelled, LoopHolds, CancelActors
<1>4. QueuedEmpty' /\ QueuedKept'
  BY JobOfType, NoItemOutside DEF QueuedEmpty, QueuedKept, QueuedUnchecked, RemainderOf,
         InQueue, Running, HeldByCheck, HeldByWorker, HeldByLoop, InProcess, ItemsOf,
         LoopHolds, CommittedSaved, ParkingKept, Parking
<1>5. Tallies' /\ ProcessCounted'
  <2>1. \A k \in Jobs : ProcessOf(k)' \subseteq ProcessOf(k)
    BY JobOfType, NoItemOutside DEF ProcessOf, InProcess, ItemsOf, HeldByWorker
  <2>q. QED BY <2>1, CountFrameKeeps
<1>q. QED BY <1>1, <1>2, <1>3, <1>4, <1>5 DEF PlaceInv

(* done_event, set by who settled the last file.                           *)
LEMMA CheckFinishesPlaces ==
    ASSUME IInv, SlotInv', NEW i \in Items, CheckFinishes(i)
    PROVE  PlaceInv'
<1> USE DEF queueVars, activeVars, countVars, workerVars, cancelVars, runnerVars, userVars,
            CheckFinishes, CheckGoes, IInv, PlaceInv, SlotInv, TypeOK
<1>1. QueueExcludes' /\ RunExcludes' /\ OneWorker' /\ SeenExcludes'
  BY JobOfType, NoItemOutside DEF QueueExcludes, RunExcludes, OneWorker, SeenExcludes,
         CountsLockFree, InQueue, Running, HeldByCheck, HeldByWorker, HeldByLoop, WorkersHold,
         LoopHolds, UncheckedWait, QueuedUnchecked, CancelActors
<1>2. NothingLost' /\ FinishersDone'
  BY JobOfType, NoItemOutside DEF NothingLost, Live, IsCancelled, InQueue, Running,
         HeldByCheck, HeldByWorker, HeldByLoop, WorkersHold, LoopHolds, FinishersDone,
         Cancelling, QueuedUnchecked, ItemsOf
<1>3. Fence' /\ ParkingKept' /\ CommittedSaved' /\ Cancelling'
  BY JobOfType, NoItemOutside, FenceQuiet DEF Fence, CommittedSaved, ParkingKept, Parking,
         RemainderOf, ItemsOf, Cancelling, IsCancelled, LoopHolds, CancelActors
<1>4. QueuedEmpty' /\ QueuedKept'
  BY JobOfType, NoItemOutside DEF QueuedEmpty, QueuedKept, QueuedUnchecked, RemainderOf,
         InQueue, Running, HeldByCheck, HeldByWorker, HeldByLoop, InProcess, ItemsOf,
         LoopHolds, CommittedSaved, ParkingKept, Parking
<1>5. Tallies' /\ ProcessCounted'
  <2>1. \A k \in Jobs : ProcessOf(k)' \subseteq ProcessOf(k)
    BY JobOfType, NoItemOutside DEF ProcessOf, InProcess, ItemsOf, HeldByWorker
  <2>q. QED BY <2>1, CountFrameKeeps
<1>q. QED BY <1>1, <1>2, <1>3, <1>4, <1>5 DEF PlaceInv

(* The in-flight slot is given back.                                       *)
LEMMA CheckReleasesPlaces ==
    ASSUME IInv, SlotInv', NEW i \in Items, CheckReleases(i)
    PROVE  PlaceInv'
<1> USE DEF trackerVars, queueVars, activeVars, countVars, workerVars, cancelVars, runnerVars,
            userVars, CheckReleases, IInv, PlaceInv, SlotInv, TypeOK
<1>1. QueueExcludes' /\ RunExcludes' /\ OneWorker' /\ SeenExcludes'
  BY JobOfType, NoItemOutside DEF QueueExcludes, RunExcludes, OneWorker, SeenExcludes,
         CountsLockFree, InQueue, Running, HeldByCheck, HeldByWorker, HeldByLoop, WorkersHold,
         LoopHolds, UncheckedWait, QueuedUnchecked, CancelActors
<1>2. NothingLost' /\ FinishersDone'
  BY JobOfType, NoItemOutside DEF NothingLost, Live, IsCancelled, InQueue, Running,
         HeldByCheck, HeldByWorker, HeldByLoop, WorkersHold, LoopHolds, FinishersDone,
         Cancelling, QueuedUnchecked, ItemsOf
<1>3. Fence' /\ ParkingKept' /\ CommittedSaved' /\ Cancelling'
  BY JobOfType, NoItemOutside, FenceQuiet DEF Fence, CommittedSaved, ParkingKept, Parking,
         RemainderOf, ItemsOf, Cancelling, IsCancelled, LoopHolds, CancelActors
<1>4. QueuedEmpty' /\ QueuedKept'
  BY JobOfType, NoItemOutside DEF QueuedEmpty, QueuedKept, QueuedUnchecked, RemainderOf,
         InQueue, Running, HeldByCheck, HeldByWorker, HeldByLoop, InProcess, ItemsOf,
         LoopHolds, CommittedSaved, ParkingKept, Parking
<1>5. Tallies' /\ ProcessCounted'
  <2>1. \A k \in Jobs : ProcessOf(k)' \subseteq ProcessOf(k)
    BY JobOfType, NoItemOutside DEF ProcessOf, InProcess, ItemsOf, HeldByWorker
  <2>q. QED BY <2>1, CountFrameKeeps
<1>q. QED BY <1>1, <1>2, <1>3, <1>4, <1>5 DEF PlaceInv

(* active_checks drops when nothing of the file is left to do.             *)
LEMMA CheckLeavesPlaces ==
    ASSUME IInv, SlotInv', NEW i \in Items, CheckLeaves(i)
    PROVE  PlaceInv'
<1> USE DEF trackerVars, queueVars, countVars, workerVars, cancelVars, runnerVars, userVars,
            CheckLeaves, CheckGoes, Decrement, TrackersLockFree, IInv, PlaceInv, SlotInv,
            TypeOK
<1>1. QueueExcludes' /\ RunExcludes' /\ OneWorker' /\ SeenExcludes'
  BY JobOfType, NoItemOutside DEF QueueExcludes, RunExcludes, OneWorker, SeenExcludes,
         CountsLockFree, InQueue, Running, HeldByCheck, HeldByWorker, HeldByLoop, WorkersHold,
         LoopHolds, UncheckedWait, QueuedUnchecked, CancelActors
<1>2. NothingLost' /\ FinishersDone'
  BY JobOfType, NoItemOutside DEF NothingLost, Live, IsCancelled, InQueue, Running,
         HeldByCheck, HeldByWorker, HeldByLoop, WorkersHold, LoopHolds, FinishersDone,
         Cancelling, QueuedUnchecked, ItemsOf
<1>3. Fence' /\ ParkingKept' /\ CommittedSaved' /\ Cancelling'
  BY JobOfType, NoItemOutside, FenceQuiet DEF Fence, CommittedSaved, ParkingKept, Parking,
         RemainderOf, ItemsOf, Cancelling, IsCancelled, LoopHolds, CancelActors
<1>4. QueuedEmpty' /\ QueuedKept'
  BY JobOfType, NoItemOutside DEF QueuedEmpty, QueuedKept, QueuedUnchecked, RemainderOf,
         InQueue, Running, HeldByCheck, HeldByWorker, HeldByLoop, InProcess, ItemsOf,
         LoopHolds, CommittedSaved, ParkingKept, Parking
<1>5. Tallies' /\ ProcessCounted'
  <2>1. \A k \in Jobs : ProcessOf(k)' \subseteq ProcessOf(k)
    BY JobOfType, NoItemOutside DEF ProcessOf, InProcess, ItemsOf, HeldByWorker
  <2>q. QED BY <2>1, CountFrameKeeps
<1>q. QED BY <1>1, <1>2, <1>3, <1>4, <1>5 DEF PlaceInv

(* The file goes from its check thread to the settled ones.                *)
LEMMA CheckRecordsPlaces ==
    ASSUME IInv, SlotInv', NEW i \in Items, CheckRecords(i)
    PROVE  PlaceInv'
<1> USE DEF trackerVars, queueVars, activeVars, workerVars, cancelVars, runnerVars, userVars,
            CheckRecords, Record, CheckGoes, IInv, PlaceInv, SlotInv, TypeOK
<1>a. i \notin settled
      BY DEF RunExcludes, Running, HeldByCheck
<1>b. Tallies' /\ (IsLast(i) => ItemsOf(JobOf[i]) \subseteq settled')
      BY <1>a, RecordCounts
<1>1. QueueExcludes' /\ RunExcludes' /\ OneWorker' /\ SeenExcludes'
  BY JobOfType, NoItemOutside, <1>a, <1>b DEF QueueExcludes, RunExcludes, OneWorker,
         SeenExcludes, CountsLockFree, InQueue, Running, HeldByCheck, HeldByWorker,
         HeldByLoop, WorkersHold, LoopHolds, UncheckedWait, QueuedUnchecked, CancelActors
<1>2. NothingLost' /\ FinishersDone'
  BY JobOfType, NoItemOutside, <1>a, <1>b DEF NothingLost, Live, IsCancelled, InQueue,
         Running, HeldByCheck, HeldByWorker, HeldByLoop, WorkersHold, LoopHolds,
         FinishersDone, Cancelling, QueuedUnchecked, ItemsOf
<1>3. Fence' /\ ParkingKept' /\ CommittedSaved' /\ Cancelling'
  BY JobOfType, NoItemOutside, <1>a, <1>b, FenceQuiet DEF Fence, CommittedSaved, ParkingKept,
         Parking, RemainderOf, ItemsOf, Cancelling, IsCancelled, LoopHolds, CancelActors
<1>4. QueuedEmpty' /\ QueuedKept'
  BY JobOfType, NoItemOutside, <1>a, <1>b DEF QueuedEmpty, QueuedKept, QueuedUnchecked,
         RemainderOf, InQueue, Running, HeldByCheck, HeldByWorker, HeldByLoop, InProcess,
         ItemsOf, LoopHolds, CommittedSaved, ParkingKept, Parking
<1>5. Tallies' /\ ProcessCounted'
  <2>1. \A k \in Jobs : ProcessOf(k)' = ProcessOf(k) /\ activeProc'[k] = activeProc[k]
    BY DEF ProcessOf, InProcess, HeldByWorker, ItemsOf
  <2>2. ProcessCounted' BY <2>1 DEF ProcessCounted
  <2>q. QED BY <1>b, <2>2
<1>q. QED BY <1>1, <1>2, <1>3, <1>4, <1>5 DEF PlaceInv

-----------------------------------------------------------------------------
(* The dispatch loop and the workers.                                      *)

(* Candidates are only read.                                               *)
LEMMA SelectJobsPlaces ==
    ASSUME IInv, SlotInv', SelectJobs
    PROVE  PlaceInv'
<1> USE DEF trackerVars, queueVars, activeVars, countVars, checkVars, workerVars, cancelVars,
            runnerVars, userVars, SelectJobs, LoopIdle, IsCancelled, IInv, PlaceInv, SlotInv,
            TypeOK
<1>1. QueueExcludes' /\ RunExcludes' /\ OneWorker' /\ SeenExcludes'
  BY JobOfType, NoItemOutside DEF QueueExcludes, RunExcludes, OneWorker, SeenExcludes,
         CountsLockFree, InQueue, Running, HeldByCheck, HeldByWorker, HeldByLoop, WorkersHold,
         LoopHolds, UncheckedWait, QueuedUnchecked, CancelActors
<1>2. NothingLost' /\ FinishersDone'
  BY JobOfType, NoItemOutside DEF NothingLost, Live, InQueue, Running, HeldByCheck,
         HeldByWorker, HeldByLoop, WorkersHold, LoopHolds, FinishersDone, Cancelling,
         QueuedUnchecked, ItemsOf
<1>3. Fence' /\ ParkingKept' /\ CommittedSaved' /\ Cancelling'
  BY JobOfType, NoItemOutside, FenceQuiet DEF Fence, CommittedSaved, ParkingKept, Parking,
         RemainderOf, ItemsOf, Cancelling, LoopHolds, CancelActors
<1>4. QueuedEmpty' /\ QueuedKept'
  BY JobOfType, NoItemOutside DEF QueuedEmpty, QueuedKept, QueuedUnchecked, RemainderOf,
         InQueue, Running, HeldByCheck, HeldByWorker, HeldByLoop, InProcess, ItemsOf,
         LoopHolds, CommittedSaved, ParkingKept, Parking
<1>5. Tallies' /\ ProcessCounted'
  <2>1. \A k \in Jobs : ProcessOf(k)' \subseteq ProcessOf(k)
    BY JobOfType, NoItemOutside DEF ProcessOf, InProcess, ItemsOf, HeldByWorker
  <2>q. QED BY <2>1, CountFrameKeeps
<1>q. QED BY <1>1, <1>2, <1>3, <1>4, <1>5 DEF PlaceInv

(* Nothing is picked.                                                      *)
LEMMA AssignNothingPlaces ==
    ASSUME IInv, SlotInv', AssignNothing
    PROVE  PlaceInv'
<1> USE DEF trackerVars, queueVars, activeVars, countVars, checkVars, workerVars, cancelVars,
            runnerVars, userVars, AssignNothing, LoopIdle, Eligible, FreeFor, IInv, PlaceInv,
            SlotInv, TypeOK
<1>1. QueueExcludes' /\ RunExcludes' /\ OneWorker' /\ SeenExcludes'
  BY JobOfType, NoItemOutside DEF QueueExcludes, RunExcludes, OneWorker, SeenExcludes,
         CountsLockFree, InQueue, Running, HeldByCheck, HeldByWorker, HeldByLoop, WorkersHold,
         LoopHolds, UncheckedWait, QueuedUnchecked, CancelActors
<1>2. NothingLost' /\ FinishersDone'
  BY JobOfType, NoItemOutside DEF NothingLost, Live, IsCancelled, InQueue, Running,
         HeldByCheck, HeldByWorker, HeldByLoop, WorkersHold, LoopHolds, FinishersDone,
         Cancelling, QueuedUnchecked, ItemsOf
<1>3. Fence' /\ ParkingKept' /\ CommittedSaved' /\ Cancelling'
  BY JobOfType, NoItemOutside, FenceQuiet DEF Fence, CommittedSaved, ParkingKept, Parking,
         RemainderOf, ItemsOf, Cancelling, IsCancelled, LoopHolds, CancelActors
<1>4. QueuedEmpty' /\ QueuedKept'
  BY JobOfType, NoItemOutside DEF QueuedEmpty, QueuedKept, QueuedUnchecked, RemainderOf,
         InQueue, Running, HeldByCheck, HeldByWorker, HeldByLoop, InProcess, ItemsOf,
         LoopHolds, CommittedSaved, ParkingKept, Parking
<1>5. Tallies' /\ ProcessCounted'
  <2>1. \A k \in Jobs : ProcessOf(k)' \subseteq ProcessOf(k)
    BY JobOfType, NoItemOutside DEF ProcessOf, InProcess, ItemsOf, HeldByWorker
  <2>q. QED BY <2>1, CountFrameKeeps
<1>q. QED BY <1>1, <1>2, <1>3, <1>4, <1>5 DEF PlaceInv

(* A file goes from item_queue to a worker and is counted.                 *)
LEMMA AssignPlaces ==
    ASSUME IInv, SlotInv', NEW w \in Workers, NEW i \in Items, Assign(w, i)
    PROVE  PlaceInv'
<1> USE DEF trackerVars, countVars, checkVars, cancelVars, runnerVars, userVars, Assign,
            LoopIdle, Eligible, FreeFor, IInv, PlaceInv, SlotInv, TypeOK
<1>1. QueueExcludes' /\ RunExcludes' /\ OneWorker' /\ SeenExcludes'
  BY JobOfType, NoItemOutside DEF QueueExcludes, RunExcludes, OneWorker, SeenExcludes,
         CountsLockFree, InQueue, Running, HeldByCheck, HeldByWorker, HeldByLoop, WorkersHold,
         LoopHolds, UncheckedWait, QueuedUnchecked, CancelActors
<1>2. NothingLost' /\ FinishersDone'
  BY JobOfType, NoItemOutside DEF NothingLost, Live, IsCancelled, InQueue, Running,
         HeldByCheck, HeldByWorker, HeldByLoop, WorkersHold, LoopHolds, FinishersDone,
         Cancelling, QueuedUnchecked, ItemsOf
<1>3. Fence' /\ ParkingKept' /\ CommittedSaved' /\ Cancelling'
  BY JobOfType, NoItemOutside, FenceQuiet DEF Fence, CommittedSaved, ParkingKept, Parking,
         RemainderOf, ItemsOf, Cancelling, IsCancelled, LoopHolds, CancelActors
<1>4. QueuedEmpty' /\ QueuedKept'
  BY JobOfType, NoItemOutside DEF QueuedEmpty, QueuedKept, QueuedUnchecked, RemainderOf,
         InQueue, Running, HeldByCheck, HeldByWorker, HeldByLoop, InProcess, ItemsOf,
         LoopHolds, CommittedSaved, ParkingKept, Parking
<1>5. Tallies' /\ ProcessCounted'
  <2>1. \A k \in Jobs : ProcessOf(k)' \subseteq
                          IF k = JobOf[i] THEN ProcessOf(k) \union {i} ELSE ProcessOf(k)
    BY JobOfType, NoItemOutside DEF ProcessOf, InProcess, HeldByWorker, ItemsOf
  <2>2. ProcessCounted' BY <2>1, ProcessAddKeeps
  <2>3. Tallies' BY DEF Tallies, ItemsOf
  <2>q. QED BY <2>2, <2>3
<1>q. QED BY <1>1, <1>2, <1>3, <1>4, <1>5 DEF PlaceInv

(* A file goes from item_queue into the loop's hands, not counted.         *)
LEMMA AssignRaisesPlaces ==
    ASSUME IInv, SlotInv', NEW i \in Items, AssignRaises(i)
    PROVE  PlaceInv'
<1> USE DEF trackerVars, activeVars, countVars, checkVars, workerVars, cancelVars, runnerVars,
            userVars, AssignRaises, LoopAt, Eligible, FreeFor, IInv, PlaceInv, SlotInv, TypeOK
<1>1. QueueExcludes' /\ RunExcludes' /\ OneWorker' /\ SeenExcludes'
  BY JobOfType, NoItemOutside DEF QueueExcludes, RunExcludes, OneWorker, SeenExcludes,
         CountsLockFree, InQueue, Running, HeldByCheck, HeldByWorker, HeldByLoop, WorkersHold,
         LoopHolds, UncheckedWait, QueuedUnchecked, CancelActors
<1>2. NothingLost' /\ FinishersDone'
  BY JobOfType, NoItemOutside DEF NothingLost, Live, IsCancelled, InQueue, Running,
         HeldByCheck, HeldByWorker, HeldByLoop, WorkersHold, LoopHolds, FinishersDone,
         Cancelling, QueuedUnchecked, ItemsOf
<1>3. Fence' /\ ParkingKept' /\ CommittedSaved' /\ Cancelling'
  BY JobOfType, NoItemOutside, FenceQuiet DEF Fence, CommittedSaved, ParkingKept, Parking,
         RemainderOf, ItemsOf, Cancelling, IsCancelled, LoopHolds, CancelActors
<1>4. QueuedEmpty' /\ QueuedKept'
  BY JobOfType, NoItemOutside DEF QueuedEmpty, QueuedKept, QueuedUnchecked, RemainderOf,
         InQueue, Running, HeldByCheck, HeldByWorker, HeldByLoop, InProcess, ItemsOf,
         LoopHolds, CommittedSaved, ParkingKept, Parking
<1>5. Tallies' /\ ProcessCounted'
  <2>1. \A k \in Jobs : ProcessOf(k)' \subseteq ProcessOf(k)
    BY JobOfType, NoItemOutside DEF ProcessOf, InProcess, ItemsOf, HeldByWorker
  <2>q. QED BY <2>1, CountFrameKeeps
<1>q. QED BY <1>1, <1>2, <1>3, <1>4, <1>5 DEF PlaceInv

(* A file goes from item_queue into the loop's hands, counted.             *)
LEMMA AssignStrandsPlaces ==
    ASSUME IInv, SlotInv', NEW i \in Items, AssignStrands(i)
    PROVE  PlaceInv'
<1> USE DEF trackerVars, countVars, checkVars, workerVars, cancelVars, runnerVars, userVars,
            AssignStrands, LoopAt, Eligible, IInv, PlaceInv, SlotInv, TypeOK
<1>1. QueueExcludes' /\ RunExcludes' /\ OneWorker' /\ SeenExcludes'
  BY JobOfType, NoItemOutside DEF QueueExcludes, RunExcludes, OneWorker, SeenExcludes,
         CountsLockFree, InQueue, Running, HeldByCheck, HeldByWorker, HeldByLoop, WorkersHold,
         LoopHolds, UncheckedWait, QueuedUnchecked, CancelActors
<1>2. NothingLost' /\ FinishersDone'
  BY JobOfType, NoItemOutside DEF NothingLost, Live, IsCancelled, InQueue, Running,
         HeldByCheck, HeldByWorker, HeldByLoop, WorkersHold, LoopHolds, FinishersDone,
         Cancelling, QueuedUnchecked, ItemsOf
<1>3. Fence' /\ ParkingKept' /\ CommittedSaved' /\ Cancelling'
  BY JobOfType, NoItemOutside, FenceQuiet DEF Fence, CommittedSaved, ParkingKept, Parking,
         RemainderOf, ItemsOf, Cancelling, IsCancelled, LoopHolds, CancelActors
<1>4. QueuedEmpty' /\ QueuedKept'
  BY JobOfType, NoItemOutside DEF QueuedEmpty, QueuedKept, QueuedUnchecked, RemainderOf,
         InQueue, Running, HeldByCheck, HeldByWorker, HeldByLoop, InProcess, ItemsOf,
         LoopHolds, CommittedSaved, ParkingKept, Parking
<1>5. Tallies' /\ ProcessCounted'
  <2>1. \A k \in Jobs : ProcessOf(k)' \subseteq
                          IF k = JobOf[i] THEN ProcessOf(k) \union {i} ELSE ProcessOf(k)
    BY JobOfType, NoItemOutside DEF ProcessOf, InProcess, HeldByWorker, ItemsOf
  <2>2. ProcessCounted' BY <2>1, ProcessAddKeeps
  <2>3. Tallies' BY DEF Tallies, ItemsOf
  <2>q. QED BY <2>2, <2>3
<1>q. QED BY <1>1, <1>2, <1>3, <1>4, <1>5 DEF PlaceInv

(* The worker still holds its file.                                        *)
LEMMA WorkerEndsPlaces ==
    ASSUME IInv, SlotInv', NEW w \in Workers, WorkerEnds(w)
    PROVE  PlaceInv'
<1> USE DEF trackerVars, queueVars, activeVars, countVars, checkVars, cancelVars, runnerVars,
            userVars, WorkerEnds, IInv, PlaceInv, SlotInv, TypeOK
<1>1. QueueExcludes' /\ RunExcludes' /\ OneWorker' /\ SeenExcludes'
  BY JobOfType, NoItemOutside DEF QueueExcludes, RunExcludes, OneWorker, SeenExcludes,
         CountsLockFree, InQueue, Running, HeldByCheck, HeldByWorker, HeldByLoop, WorkersHold,
         LoopHolds, UncheckedWait, QueuedUnchecked, CancelActors
<1>2. NothingLost' /\ FinishersDone'
  BY JobOfType, NoItemOutside DEF NothingLost, Live, IsCancelled, InQueue, Running,
         HeldByCheck, HeldByWorker, HeldByLoop, WorkersHold, LoopHolds, FinishersDone,
         Cancelling, QueuedUnchecked, ItemsOf
<1>3. Fence' /\ ParkingKept' /\ CommittedSaved' /\ Cancelling'
  BY JobOfType, NoItemOutside, FenceQuiet DEF Fence, CommittedSaved, ParkingKept, Parking,
         RemainderOf, ItemsOf, Cancelling, IsCancelled, LoopHolds, CancelActors
<1>4. QueuedEmpty' /\ QueuedKept'
  BY JobOfType, NoItemOutside DEF QueuedEmpty, QueuedKept, QueuedUnchecked, RemainderOf,
         InQueue, Running, HeldByCheck, HeldByWorker, HeldByLoop, InProcess, ItemsOf,
         LoopHolds, CommittedSaved, ParkingKept, Parking
<1>5. Tallies' /\ ProcessCounted'
  <2>1. \A k \in Jobs : ProcessOf(k)' \subseteq ProcessOf(k)
    BY JobOfType, NoItemOutside DEF ProcessOf, InProcess, ItemsOf, HeldByWorker
  <2>q. QED BY <2>1, CountFrameKeeps
<1>q. QED BY <1>1, <1>2, <1>3, <1>4, <1>5 DEF PlaceInv

(* The worker still holds the file it gives back.                          *)
LEMMA WorkerGivesBackPlaces ==
    ASSUME IInv, SlotInv', NEW w \in Workers, WorkerGivesBack(w)
    PROVE  PlaceInv'
<1> USE DEF trackerVars, queueVars, activeVars, countVars, checkVars, cancelVars, runnerVars,
            userVars, WorkerGivesBack, IInv, PlaceInv, SlotInv, TypeOK
<1>1. QueueExcludes' /\ RunExcludes' /\ OneWorker' /\ SeenExcludes'
  BY JobOfType, NoItemOutside DEF QueueExcludes, RunExcludes, OneWorker, SeenExcludes,
         CountsLockFree, InQueue, Running, HeldByCheck, HeldByWorker, HeldByLoop, WorkersHold,
         LoopHolds, UncheckedWait, QueuedUnchecked, CancelActors
<1>2. NothingLost' /\ FinishersDone'
  BY JobOfType, NoItemOutside DEF NothingLost, Live, IsCancelled, InQueue, Running,
         HeldByCheck, HeldByWorker, HeldByLoop, WorkersHold, LoopHolds, FinishersDone,
         Cancelling, QueuedUnchecked, ItemsOf
<1>3. Fence' /\ ParkingKept' /\ CommittedSaved' /\ Cancelling'
  BY JobOfType, NoItemOutside, FenceQuiet DEF Fence, CommittedSaved, ParkingKept, Parking,
         RemainderOf, ItemsOf, Cancelling, IsCancelled, LoopHolds, CancelActors
<1>4. QueuedEmpty' /\ QueuedKept'
  BY JobOfType, NoItemOutside DEF QueuedEmpty, QueuedKept, QueuedUnchecked, RemainderOf,
         InQueue, Running, HeldByCheck, HeldByWorker, HeldByLoop, InProcess, ItemsOf,
         LoopHolds, CommittedSaved, ParkingKept, Parking
<1>5. Tallies' /\ ProcessCounted'
  <2>1. \A k \in Jobs : ProcessOf(k)' \subseteq ProcessOf(k)
    BY JobOfType, NoItemOutside DEF ProcessOf, InProcess, ItemsOf, HeldByWorker
  <2>q. QED BY <2>1, CountFrameKeeps
<1>q. QED BY <1>1, <1>2, <1>3, <1>4, <1>5 DEF PlaceInv

(* A file goes from its worker into the loop's hands.                      *)
LEMMA ReapPlaces ==
    ASSUME IInv, SlotInv', NEW w \in Workers, Reap(w)
    PROVE  PlaceInv'
<1> USE DEF trackerVars, queueVars, activeVars, countVars, checkVars, cancelVars, runnerVars,
            userVars, Reap, LoopAt, LoopIdle, IInv, PlaceInv, SlotInv, TypeOK
<1>1. QueueExcludes' /\ RunExcludes' /\ OneWorker' /\ SeenExcludes'
  BY JobOfType, NoItemOutside DEF QueueExcludes, RunExcludes, OneWorker, SeenExcludes,
         CountsLockFree, InQueue, Running, HeldByCheck, HeldByWorker, HeldByLoop, WorkersHold,
         LoopHolds, UncheckedWait, QueuedUnchecked, CancelActors
<1>2. NothingLost' /\ FinishersDone'
  BY JobOfType, NoItemOutside DEF NothingLost, Live, IsCancelled, InQueue, Running,
         HeldByCheck, HeldByWorker, HeldByLoop, WorkersHold, LoopHolds, FinishersDone,
         Cancelling, QueuedUnchecked, ItemsOf
<1>3. Fence' /\ ParkingKept' /\ CommittedSaved' /\ Cancelling'
  BY JobOfType, NoItemOutside, FenceQuiet DEF Fence, CommittedSaved, ParkingKept, Parking,
         RemainderOf, ItemsOf, Cancelling, IsCancelled, LoopHolds, CancelActors
<1>4. QueuedEmpty' /\ QueuedKept'
  BY JobOfType, NoItemOutside DEF QueuedEmpty, QueuedKept, QueuedUnchecked, RemainderOf,
         InQueue, Running, HeldByCheck, HeldByWorker, HeldByLoop, InProcess, ItemsOf,
         LoopHolds, CommittedSaved, ParkingKept, Parking
<1>5. Tallies' /\ ProcessCounted'
  <2>1. \A k \in Jobs : ProcessOf(k)' \subseteq ProcessOf(k)
    BY JobOfType, NoItemOutside DEF ProcessOf, InProcess, ItemsOf, HeldByWorker
  <2>q. QED BY <2>1, CountFrameKeeps
<1>q. QED BY <1>1, <1>2, <1>3, <1>4, <1>5 DEF PlaceInv

(* A file goes from the loop's hands to item_queue and is not counted any more.*)
LEMMA RequeuePlaces ==
    ASSUME IInv, SlotInv', Requeue
    PROVE  PlaceInv'
<1> USE DEF trackerVars, countVars, checkVars, workerVars, cancelVars, runnerVars, userVars,
            Requeue, LoopIdle, Decrement, IInv, PlaceInv, SlotInv, TypeOK
<1>1. QueueExcludes' /\ RunExcludes' /\ OneWorker' /\ SeenExcludes'
  BY JobOfType, NoItemOutside DEF QueueExcludes, RunExcludes, OneWorker, SeenExcludes,
         CountsLockFree, InQueue, Running, HeldByCheck, HeldByWorker, HeldByLoop, WorkersHold,
         LoopHolds, UncheckedWait, QueuedUnchecked, CancelActors
<1>2. NothingLost' /\ FinishersDone'
  BY JobOfType, NoItemOutside DEF NothingLost, Live, IsCancelled, InQueue, Running,
         HeldByCheck, HeldByWorker, HeldByLoop, WorkersHold, LoopHolds, FinishersDone,
         Cancelling, QueuedUnchecked, ItemsOf
<1>3. Fence' /\ ParkingKept' /\ CommittedSaved' /\ Cancelling'
  BY JobOfType, NoItemOutside, FenceQuiet DEF Fence, CommittedSaved, ParkingKept, Parking,
         RemainderOf, ItemsOf, Cancelling, IsCancelled, LoopHolds, CancelActors
<1>4. QueuedEmpty' /\ QueuedKept'
  BY JobOfType, NoItemOutside DEF QueuedEmpty, QueuedKept, QueuedUnchecked, RemainderOf,
         InQueue, Running, HeldByCheck, HeldByWorker, HeldByLoop, InProcess, ItemsOf,
         LoopHolds, CommittedSaved, ParkingKept, Parking
<1>5. Tallies' /\ ProcessCounted'
  <2>1. loop.item \in Items /\ InProcess(loop.item) /\ ~HeldByWorker(loop.item)
    BY DEF InProcess, LoopHolds, FinishersDone, RunExcludes, Running, HeldByLoop
  <2>2. \A k \in Jobs : ProcessOf(k)' \subseteq ProcessOf(k) \ {loop.item}
    BY <2>1, NoItemOutside DEF ProcessOf, InProcess, HeldByWorker, ItemsOf
  <2>3. ProcessCounted' BY <2>1, <2>2, ProcessDropKeeps
  <2>4. Tallies' BY DEF Tallies, ItemsOf
  <2>q. QED BY <2>3, <2>4
<1>q. QED BY <1>1, <1>2, <1>3, <1>4, <1>5 DEF PlaceInv

(* It stays in the loop's hands to be failed.                              *)
LEMMA RequeueFailsPlaces ==
    ASSUME IInv, SlotInv', RequeueFails
    PROVE  PlaceInv'
<1> USE DEF trackerVars, queueVars, activeVars, countVars, checkVars, workerVars, cancelVars,
            runnerVars, userVars, RequeueFails, LoopAt, IInv, PlaceInv, SlotInv, TypeOK
<1>1. QueueExcludes' /\ RunExcludes' /\ OneWorker' /\ SeenExcludes'
  BY JobOfType, NoItemOutside DEF QueueExcludes, RunExcludes, OneWorker, SeenExcludes,
         CountsLockFree, InQueue, Running, HeldByCheck, HeldByWorker, HeldByLoop, WorkersHold,
         LoopHolds, UncheckedWait, QueuedUnchecked, CancelActors
<1>2. NothingLost' /\ FinishersDone'
  BY JobOfType, NoItemOutside DEF NothingLost, Live, IsCancelled, InQueue, Running,
         HeldByCheck, HeldByWorker, HeldByLoop, WorkersHold, LoopHolds, FinishersDone,
         Cancelling, QueuedUnchecked, ItemsOf
<1>3. Fence' /\ ParkingKept' /\ CommittedSaved' /\ Cancelling'
  BY JobOfType, NoItemOutside, FenceQuiet DEF Fence, CommittedSaved, ParkingKept, Parking,
         RemainderOf, ItemsOf, Cancelling, IsCancelled, LoopHolds, CancelActors
<1>4. QueuedEmpty' /\ QueuedKept'
  BY JobOfType, NoItemOutside DEF QueuedEmpty, QueuedKept, QueuedUnchecked, RemainderOf,
         InQueue, Running, HeldByCheck, HeldByWorker, HeldByLoop, InProcess, ItemsOf,
         LoopHolds, CommittedSaved, ParkingKept, Parking
<1>5. Tallies' /\ ProcessCounted'
  <2>1. \A k \in Jobs : ProcessOf(k)' \subseteq ProcessOf(k)
    BY JobOfType, NoItemOutside DEF ProcessOf, InProcess, ItemsOf, HeldByWorker
  <2>q. QED BY <2>1, CountFrameKeeps
<1>q. QED BY <1>1, <1>2, <1>3, <1>4, <1>5 DEF PlaceInv

(* A file goes from the loop's hands to the settled ones, still counted.   *)
LEMMA SettlePlaces ==
    ASSUME IInv, SlotInv', Settle
    PROVE  PlaceInv'
<1> USE DEF trackerVars, queueVars, activeVars, checkVars, workerVars, cancelVars, runnerVars,
            userVars, Settle, LoopAt, Record, IInv, PlaceInv, SlotInv, TypeOK
<1>a. loop.item \in Items /\ loop.item \notin settled
      BY DEF LoopHolds, RunExcludes, Running, HeldByLoop
<1>b. Tallies' /\ (IsLast(loop.item) => ItemsOf(JobOf[loop.item]) \subseteq settled')
      BY <1>a, RecordCounts
<1>c. ~Parking(JobOf[loop.item])
      BY <1>a, FenceQuiet, JobOfType DEF Running, HeldByLoop, ItemsOf
<1>1. QueueExcludes' /\ RunExcludes' /\ OneWorker' /\ SeenExcludes'
  BY JobOfType, NoItemOutside, <1>a, <1>b, <1>c DEF QueueExcludes, RunExcludes, OneWorker,
         SeenExcludes, CountsLockFree, InQueue, Running, HeldByCheck, HeldByWorker,
         HeldByLoop, WorkersHold, LoopHolds, UncheckedWait, QueuedUnchecked, CancelActors
<1>2. NothingLost' /\ FinishersDone'
  BY JobOfType, NoItemOutside, <1>a, <1>b, <1>c DEF NothingLost, Live, IsCancelled, InQueue,
         Running, HeldByCheck, HeldByWorker, HeldByLoop, WorkersHold, LoopHolds,
         FinishersDone, Cancelling, QueuedUnchecked, ItemsOf
<1>3. Fence' /\ ParkingKept' /\ CommittedSaved' /\ Cancelling'
  BY JobOfType, NoItemOutside, <1>a, <1>b, <1>c, FenceQuiet DEF Fence, CommittedSaved,
         ParkingKept, Parking, RemainderOf, ItemsOf, Cancelling, IsCancelled, LoopHolds,
         CancelActors
<1>4. QueuedEmpty' /\ QueuedKept'
  BY JobOfType, NoItemOutside, <1>a, <1>b, <1>c DEF QueuedEmpty, QueuedKept, QueuedUnchecked,
         RemainderOf, InQueue, Running, HeldByCheck, HeldByWorker, HeldByLoop, InProcess,
         ItemsOf, LoopHolds, CommittedSaved, ParkingKept, Parking
<1>5. Tallies' /\ ProcessCounted'
  <2>1. \A k \in Jobs : ProcessOf(k)' \subseteq ProcessOf(k) /\ ProcessOf(k) \subseteq Items
    BY NoItemOutside DEF LoopIdle, ProcessOf, InProcess, HeldByWorker, ItemsOf
  <2>2. \A k \in Jobs : /\ Cardinality(ProcessOf(k)') <= Cardinality(ProcessOf(k))
                        /\ Cardinality(ProcessOf(k)') \in Nat
                        /\ Cardinality(ProcessOf(k)) \in Nat
    <3>1. \A k \in Jobs : ProcessOf(k)' \subseteq Items BY <2>1
    <3>q. QED BY <2>1, <3>1, CountSubset, CountFiles
  <2>3. activeProc' = activeProc OBVIOUS
  <2>4. ProcessCounted'
    BY <2>2, <2>3 DEF ProcessCounted
  <2>q. QED BY <1>b, <2>4
<1>q. QED BY <1>1, <1>2, <1>3, <1>4, <1>5 DEF PlaceInv

(* The same for a file that never started.                                 *)
LEMMA SettleUnstartedPlaces ==
    ASSUME IInv, SlotInv', SettleUnstarted
    PROVE  PlaceInv'
<1> USE DEF trackerVars, queueVars, activeVars, checkVars, workerVars, cancelVars, runnerVars,
            userVars, SettleUnstarted, LoopAt, LoopIdle, Record, IInv, PlaceInv, SlotInv,
            TypeOK
<1>a. loop.item \in Items /\ loop.item \notin settled
      BY DEF LoopHolds, RunExcludes, Running, HeldByLoop
<1>b. Tallies' /\ (IsLast(loop.item) => ItemsOf(JobOf[loop.item]) \subseteq settled')
      BY <1>a, RecordCounts
<1>c. ~Parking(JobOf[loop.item])
      BY <1>a, FenceQuiet, JobOfType DEF Running, HeldByLoop, ItemsOf
<1>1. QueueExcludes' /\ RunExcludes' /\ OneWorker' /\ SeenExcludes'
  BY JobOfType, NoItemOutside, <1>a, <1>b, <1>c DEF QueueExcludes, RunExcludes, OneWorker,
         SeenExcludes, CountsLockFree, InQueue, Running, HeldByCheck, HeldByWorker,
         HeldByLoop, WorkersHold, LoopHolds, UncheckedWait, QueuedUnchecked, CancelActors
<1>2. NothingLost' /\ FinishersDone'
  BY JobOfType, NoItemOutside, <1>a, <1>b, <1>c DEF NothingLost, Live, IsCancelled, InQueue,
         Running, HeldByCheck, HeldByWorker, HeldByLoop, WorkersHold, LoopHolds,
         FinishersDone, Cancelling, QueuedUnchecked, ItemsOf
<1>3. Fence' /\ ParkingKept' /\ CommittedSaved' /\ Cancelling'
  BY JobOfType, NoItemOutside, <1>a, <1>b, <1>c, FenceQuiet DEF Fence, CommittedSaved,
         ParkingKept, Parking, RemainderOf, ItemsOf, Cancelling, IsCancelled, LoopHolds,
         CancelActors
<1>4. QueuedEmpty' /\ QueuedKept'
  BY JobOfType, NoItemOutside, <1>a, <1>b, <1>c DEF QueuedEmpty, QueuedKept, QueuedUnchecked,
         RemainderOf, InQueue, Running, HeldByCheck, HeldByWorker, HeldByLoop, InProcess,
         ItemsOf, LoopHolds, CommittedSaved, ParkingKept, Parking
<1>5. Tallies' /\ ProcessCounted'
  <2>1. \A k \in Jobs : ProcessOf(k)' \subseteq ProcessOf(k) /\ ProcessOf(k) \subseteq Items
    BY NoItemOutside DEF ProcessOf, InProcess, HeldByWorker, ItemsOf
  <2>2. \A k \in Jobs : /\ Cardinality(ProcessOf(k)') <= Cardinality(ProcessOf(k))
                        /\ Cardinality(ProcessOf(k)') \in Nat
                        /\ Cardinality(ProcessOf(k)) \in Nat
    <3>1. \A k \in Jobs : ProcessOf(k)' \subseteq Items BY <2>1
    <3>q. QED BY <2>1, <3>1, CountSubset, CountFiles
  <2>3. activeProc' = activeProc OBVIOUS
  <2>4. ProcessCounted'
    BY <2>2, <2>3 DEF ProcessCounted
  <2>q. QED BY <1>b, <2>4
<1>q. QED BY <1>1, <1>2, <1>3, <1>4, <1>5 DEF PlaceInv

(* done_event on the loop's thread.                                        *)
LEMMA FinishPlaces ==
    ASSUME IInv, SlotInv', Finish
    PROVE  PlaceInv'
<1> USE DEF queueVars, activeVars, countVars, checkVars, workerVars, cancelVars, runnerVars,
            userVars, Finish, LoopAt, IInv, PlaceInv, SlotInv, TypeOK
<1>a. loop.item \in Items /\ ~Parking(JobOf[loop.item])
      BY FenceQuiet, JobOfType DEF InProcess, LoopHolds, ItemsOf
<1>1. QueueExcludes' /\ RunExcludes' /\ OneWorker' /\ SeenExcludes'
  BY JobOfType, NoItemOutside, <1>a DEF QueueExcludes, RunExcludes, OneWorker, SeenExcludes,
         CountsLockFree, InQueue, Running, HeldByCheck, HeldByWorker, HeldByLoop, WorkersHold,
         LoopHolds, UncheckedWait, QueuedUnchecked, CancelActors
<1>2. NothingLost' /\ FinishersDone'
  BY JobOfType, NoItemOutside, <1>a DEF NothingLost, Live, IsCancelled, InQueue, Running,
         HeldByCheck, HeldByWorker, HeldByLoop, WorkersHold, LoopHolds, FinishersDone,
         Cancelling, QueuedUnchecked, ItemsOf
<1>3. Fence' /\ ParkingKept' /\ CommittedSaved' /\ Cancelling'
  BY JobOfType, NoItemOutside, <1>a, FenceQuiet DEF Fence, CommittedSaved, ParkingKept,
         Parking, RemainderOf, ItemsOf, Cancelling, IsCancelled, LoopHolds, CancelActors
<1>4. QueuedEmpty' /\ QueuedKept'
  BY JobOfType, NoItemOutside, <1>a DEF QueuedEmpty, QueuedKept, QueuedUnchecked, RemainderOf,
         InQueue, Running, HeldByCheck, HeldByWorker, HeldByLoop, InProcess, ItemsOf,
         LoopHolds, CommittedSaved, ParkingKept, Parking
<1>5. Tallies' /\ ProcessCounted'
  <2>1. \A k \in Jobs : ProcessOf(k)' \subseteq ProcessOf(k)
    BY JobOfType, NoItemOutside, <1>a DEF ProcessOf, InProcess, ItemsOf, HeldByWorker
  <2>q. QED BY <2>1, CountFrameKeeps
<1>q. QED BY <1>1, <1>2, <1>3, <1>4, <1>5 DEF PlaceInv

(* The same under _trackers_lock.                                          *)
LEMMA FinishUnstartedPlaces ==
    ASSUME IInv, SlotInv', FinishUnstarted
    PROVE  PlaceInv'
<1> USE DEF queueVars, activeVars, countVars, checkVars, workerVars, cancelVars, runnerVars,
            userVars, FinishUnstarted, LoopIdle, IInv, PlaceInv, SlotInv, TypeOK
<1>a. loop.item \in Items /\ ~Parking(JobOf[loop.item])
      BY JobOfType DEF Fence, LoopHolds
<1>1. QueueExcludes' /\ RunExcludes' /\ OneWorker' /\ SeenExcludes'
  BY JobOfType, NoItemOutside, <1>a DEF QueueExcludes, RunExcludes, OneWorker, SeenExcludes,
         CountsLockFree, InQueue, Running, HeldByCheck, HeldByWorker, HeldByLoop, WorkersHold,
         LoopHolds, UncheckedWait, QueuedUnchecked, CancelActors
<1>2. NothingLost' /\ FinishersDone'
  BY JobOfType, NoItemOutside, <1>a DEF NothingLost, Live, IsCancelled, InQueue, Running,
         HeldByCheck, HeldByWorker, HeldByLoop, WorkersHold, LoopHolds, FinishersDone,
         Cancelling, QueuedUnchecked, ItemsOf
<1>3. Fence' /\ ParkingKept' /\ CommittedSaved' /\ Cancelling'
  BY JobOfType, NoItemOutside, <1>a, FenceQuiet DEF Fence, CommittedSaved, ParkingKept,
         Parking, RemainderOf, ItemsOf, Cancelling, IsCancelled, LoopHolds, CancelActors
<1>4. QueuedEmpty' /\ QueuedKept'
  BY JobOfType, NoItemOutside, <1>a DEF QueuedEmpty, QueuedKept, QueuedUnchecked, RemainderOf,
         InQueue, Running, HeldByCheck, HeldByWorker, HeldByLoop, InProcess, ItemsOf,
         LoopHolds, CommittedSaved, ParkingKept, Parking
<1>5. Tallies' /\ ProcessCounted'
  <2>1. \A k \in Jobs : ProcessOf(k)' \subseteq ProcessOf(k)
    BY JobOfType, NoItemOutside, <1>a DEF ProcessOf, InProcess, ItemsOf, HeldByWorker
  <2>q. QED BY <2>1, CountFrameKeeps
<1>q. QED BY <1>1, <1>2, <1>3, <1>4, <1>5 DEF PlaceInv

(* active_processing drops for a settled file.                             *)
LEMMA ReleasePlaces ==
    ASSUME IInv, SlotInv', Release
    PROVE  PlaceInv'
<1> USE DEF trackerVars, queueVars, countVars, checkVars, workerVars, cancelVars, runnerVars,
            userVars, Release, LoopIdle, Decrement, IInv, PlaceInv, SlotInv, TypeOK
<1>1. QueueExcludes' /\ RunExcludes' /\ OneWorker' /\ SeenExcludes'
  BY JobOfType, NoItemOutside DEF QueueExcludes, RunExcludes, OneWorker, SeenExcludes,
         CountsLockFree, InQueue, Running, HeldByCheck, HeldByWorker, HeldByLoop, WorkersHold,
         LoopHolds, UncheckedWait, QueuedUnchecked, CancelActors
<1>2. NothingLost' /\ FinishersDone'
  BY JobOfType, NoItemOutside DEF NothingLost, Live, IsCancelled, InQueue, Running,
         HeldByCheck, HeldByWorker, HeldByLoop, WorkersHold, LoopHolds, FinishersDone,
         Cancelling, QueuedUnchecked, ItemsOf
<1>3. Fence' /\ ParkingKept' /\ CommittedSaved' /\ Cancelling'
  BY JobOfType, NoItemOutside, FenceQuiet DEF Fence, CommittedSaved, ParkingKept, Parking,
         RemainderOf, ItemsOf, Cancelling, IsCancelled, LoopHolds, CancelActors
<1>4. QueuedEmpty' /\ QueuedKept'
  BY JobOfType, NoItemOutside DEF QueuedEmpty, QueuedKept, QueuedUnchecked, RemainderOf,
         InQueue, Running, HeldByCheck, HeldByWorker, HeldByLoop, InProcess, ItemsOf,
         LoopHolds, CommittedSaved, ParkingKept, Parking
<1>5. Tallies' /\ ProcessCounted'
  <2>1. loop.item \in Items /\ InProcess(loop.item) /\ ~HeldByWorker(loop.item)
    BY DEF InProcess, LoopHolds, FinishersDone, RunExcludes, Running, HeldByLoop
  <2>2. \A k \in Jobs : ProcessOf(k)' \subseteq ProcessOf(k) \ {loop.item}
    BY <2>1, NoItemOutside DEF ProcessOf, InProcess, HeldByWorker, ItemsOf
  <2>3. ProcessCounted' BY <2>1, <2>2, ProcessDropKeeps
  <2>4. Tallies' BY DEF Tallies, ItemsOf
  <2>q. QED BY <2>3, <2>4
<1>q. QED BY <1>1, <1>2, <1>3, <1>4, <1>5 DEF PlaceInv

-----------------------------------------------------------------------------
(* The inductive invariant.                                                *)

(* Before any job is submitted.                                            *)
LEMMA InitPlaceInv == Init => PlaceInv
<1> SUFFICES ASSUME Init PROVE PlaceInv OBVIOUS
<1>0. SlotInv BY InitSlotInv
<1>1. \A i \in Items : ~InQueue(i) /\ ~Running(i) /\ ~InProcess(i) /\ i \notin settled
  BY NoItemOutside DEF Init, InQueue, Running, HeldByCheck, HeldByWorker, HeldByLoop, InProcess,
                       LoopIdle
<1>2. QueueExcludes /\ RunExcludes /\ OneWorker /\ SeenExcludes /\ NothingLost /\ FinishersDone
  BY <1>1 DEF Init, QueueExcludes, RunExcludes, OneWorker, SeenExcludes, NothingLost,
              FinishersDone, InQueue, Running, HeldByCheck, HeldByWorker, HeldByLoop, LoopIdle, Live
<1>3. \A j \in Jobs : Cardinality(settled \intersect ItemsOf(j)) = 0 /\ Cardinality(ProcessOf(j)) = 0
  <2> SUFFICES ASSUME NEW j \in Jobs
               PROVE  settled \intersect ItemsOf(j) = {} /\ ProcessOf(j) = {}
      BY FS_EmptySet
  <2>q. QED BY <1>1 DEF Init, ProcessOf, ItemsOf
<1>4. Tallies /\ ProcessCounted BY <1>3 DEF Init, Tallies, ProcessCounted
<1>5. Fence /\ ParkingKept /\ CommittedSaved /\ QueuedEmpty /\ QueuedKept /\ Cancelling
  BY <1>1 DEF Init, Fence, ParkingKept, CommittedSaved, QueuedEmpty, QueuedKept, Cancelling,
              Parking, RemainderOf, ItemsOf, CancelActors
<1>q. QED BY <1>2, <1>4, <1>5 DEF PlaceInv

(* Stuttering keeps PlaceInv.                                              *)
LEMMA StutterPlaces == ASSUME IInv, SlotInv', UNCHANGED vars PROVE PlaceInv'
<1> USE DEF vars, IInv, PlaceInv
<1>1. QueueExcludes' /\ RunExcludes' /\ OneWorker' /\ Tallies' /\ ProcessCounted'
  <2>1. FilesFrame BY DEF FilesFrame
  <2>q. QED BY <2>1, FilesFrameKeeps
<1>2. SeenExcludes' /\ NothingLost' /\ FinishersDone'
  BY DEF SeenExcludes, CountsLockFree, NothingLost, Live, IsCancelled, FinishersDone,
         InQueue, Running, HeldByCheck, HeldByWorker, HeldByLoop, ItemsOf
<1>3. Fence' /\ ParkingKept' /\ CommittedSaved' /\ QueuedEmpty' /\ QueuedKept' /\ Cancelling'
  BY DEF Fence, ParkingKept, CommittedSaved, QueuedEmpty, QueuedKept, Cancelling, Parking,
         RemainderOf, InQueue, Running, HeldByCheck, HeldByWorker, HeldByLoop, InProcess, ItemsOf
<1>q. QED BY <1>1, <1>2, <1>3

(* PlaceInv is inductive, given SlotInv.                                   *)
LEMMA NextPlaceInv == ASSUME IInv, [Next]_vars PROVE PlaceInv'
<1>0. SlotInv' BY NextSlotInv DEF IInv
<1>1. CASE LoopStep
  BY <1>0, <1>1, StartCheckPlaces, StartCheckFailsPlaces, SelectJobsPlaces, AssignNothingPlaces,
     RequeuePlaces, RequeueFailsPlaces, SettlePlaces, FinishPlaces, ReleasePlaces,
     SettleUnstartedPlaces, FinishUnstartedPlaces DEF LoopStep
<1>2. ASSUME NEW i \in Items, CheckThread(i) PROVE PlaceInv'
  BY <1>0, <1>2, CheckBeginsPlaces, CheckNeedsWorkerPlaces, CheckAppendsPlaces,
     CheckDecidesPlaces, CheckRecordsPlaces, CheckFinishesPlaces, CheckReleasesPlaces,
     CheckLeavesPlaces DEF CheckThread
<1>3. ASSUME NEW i \in Items, LoopItem(i) PROVE PlaceInv'
  BY <1>0, <1>3, PickCheckPlaces, AssignRaisesPlaces, AssignStrandsPlaces DEF LoopItem
<1>4. ASSUME NEW w \in Workers, WorkerStep(w) PROVE PlaceInv'
  BY <1>0, <1>4, WorkerEndsPlaces, WorkerGivesBackPlaces, ReapPlaces, AssignPlaces DEF WorkerStep
<1>5. ASSUME NEW j \in Jobs, RunnerStep(j) PROVE PlaceInv'
  BY <1>0, <1>5, SubmitPlaces, QueuedCancelledPlaces, EndPlaces, RequestParkPlaces,
     ParkSnapshotPlaces, ParkCommitPlaces, ParkRefusedPlaces, ParkUncancelledPlaces,
     RunnerCancelsPlaces, DetachPlaces, DetachRefusedPlaces DEF RunnerStep
<1>6. ASSUME NEW j \in Jobs, CancelStep(j) PROVE PlaceInv'
  BY <1>0, <1>6, LoopCancelsPlaces, CancelReadsPlaces, CancelClearsPlaces, CancelDonePlaces
  DEF CancelStep
<1>7. ASSUME NEW j \in Jobs, Cleanup(j) \/ UserStep(j) PROVE PlaceInv'
  BY <1>0, <1>7, CleanupPlaces, RequestCancelPlaces, CancelRowPlaces, TogglePausePlaces,
     ClosePlaces, OpenPlaces DEF UserStep
<1>8. CASE UNCHANGED vars BY <1>0, <1>8, StutterPlaces
<1>q. QED BY <1>1, <1>2, <1>3, <1>4, <1>5, <1>6, <1>7, <1>8 DEF Next

(***************************************************************************)
(* The inductive invariant holds: where every file of every job is, what   *)
(* the counters count, and what a park, a cancel and an end may rely on.   *)
(***************************************************************************)
THEOREM InvariantHolds == Spec => []IInv
<1>1. Init => IInv BY InitSlotInv, InitPlaceInv DEF IInv
<1>2. IInv /\ [Next]_vars => IInv'
  <2> SUFFICES ASSUME IInv, [Next]_vars PROVE IInv' OBVIOUS
  <2>1. SlotInv' BY NextSlotInv DEF IInv
  <2>2. PlaceInv' BY NextPlaceInv
  <2>q. QED BY <2>1, <2>2 DEF IInv
<1>q. QED BY <1>1, <1>2, PTL DEF Spec

-----------------------------------------------------------------------------
(* The safety properties.                                                  *)

(***************************************************************************)
(* No file of a live job is ever lost or held twice, whatever check        *)
(* threads, workers, the loop and a park do to it.                         *)
(***************************************************************************)
THEOREM OnePlaceHolds == Spec => []OnePlace
<1>1. IInv => OnePlace
  <2> SUFFICES ASSUME IInv, NEW i \in Items, JobOf[i] \in Live
               PROVE  \E p \in Places : IsAt(i, p) /\ \A q \in Places \ {p} : ~IsAt(i, q)
      BY DEF OnePlace
  <2>1. \E p \in Places : IsAt(i, p)
    BY DEF IInv, PlaceInv, NothingLost, InQueue, Running, Places, IsAt
  <2>2. \A p, q \in Places : IsAt(i, p) /\ IsAt(i, q) => p = q
    BY DEF IInv, PlaceInv, QueueExcludes, RunExcludes, InQueue, Running, Places, IsAt
  <2>q. QED BY <2>1, <2>2
<1>q. QED BY <1>1, InvariantHolds, PTL

(***************************************************************************)
(* The tally a job is ended by counts its settled files, and its total all *)
(* of its files, across any number of parks and resumes.                   *)
(***************************************************************************)
THEOREM TallyHolds == Spec => []TallyExact
<1>1. IInv => TallyExact
  BY DEF TallyExact, IInv, PlaceInv, SlotInv, TypeOK, Tallies, Live
<1>q. QED BY <1>1, InvariantHolds, PTL

(***************************************************************************)
(* A job that is done without a cancel has settled all its files, and no   *)
(* queue, check thread, worker or loop step still has one.                 *)
(***************************************************************************)
THEOREM DoneHolds == Spec => []DoneIsComplete
<1>1. IInv => DoneIsComplete
  BY DEF DoneIsComplete, IInv, PlaceInv, SlotInv, TypeOK, FinishersDone, QueueExcludes, RunExcludes,
         ItemsOf
<1>q. QED BY <1>1, InvariantHolds, PTL

(***************************************************************************)
(* What a park commits is exactly what is left of the job, and it stays so *)
(* until the job is submitted again.                                       *)
(***************************************************************************)
THEOREM ParkHolds == Spec => []ParkKeepsRemainder
<1>1. IInv => ParkKeepsRemainder
  <2> SUFFICES ASSUME IInv, NEW j \in Jobs, ~IsCancelled(j)
               PROVE  /\ Parking(j) => /\ ContinuationOf(j, snap[j])
                                       /\ \A i \in ItemsOf(j) : ~Running(i)
                      /\ runner[j] = "queued" => /\ ContinuationOf(j, saved[j])
                                                 /\ \A i \in ItemsOf(j) : ~Running(i) /\ ~InQueue(i)
      BY DEF ParkKeepsRemainder, Parking
  <2>1. CASE Parking(j)
    BY <2>1, FenceQuiet DEF ContinuationOf, IInv, PlaceInv, ParkingKept, RemainderOf, Tallies,
                            IsCancelled, Parking
  <2>2. CASE runner[j] = "queued"
    BY <2>2 DEF ContinuationOf, IInv, PlaceInv, QueuedKept, QueuedEmpty, RemainderOf, Tallies,
                IsCancelled, Parking
  <2>q. QED BY <2>1, <2>2
<1>q. QED BY <1>1, InvariantHolds, PTL

(***************************************************************************)
(* park_if_unavailable never raises after its durable commit.              *)
(***************************************************************************)
THEOREM DetachHolds == Spec => []DetachNeverRaises
<1>1. IInv => DetachNeverRaises BY DEF DetachNeverRaises, IInv, PlaceInv, Cancelling
<1>q. QED BY <1>1, InvariantHolds, PTL

(***************************************************************************)
(* From its durable commit until it is submitted again, a job that nobody  *)
(* cancels settles and starts nothing.                                     *)
(***************************************************************************)
THEOREM CommitHolds == Spec => NoWorkAfterCommit
<1> USE DEF trackerVars, queueVars, activeVars, countVars, checkVars, workerVars, cancelVars,
            runnerVars, userVars
<1> DEFINE Settles == \/ \E i \in Items : CheckRecords(i)
                      \/ Settle \/ SettleUnstarted
                      \/ \E c \in CancelActors, j \in Jobs : CancelClears(c, j)
           Takes == \E w \in Workers : Reap(w) \/ \E i \in Items : Assign(w, i)
           Quiet(j) == runner[j] \in {"committed", "detaching", "queued"} /\ j \notin cancelled
<1>1. [Next]_vars => (settled' = settled \/ Settles) /\ (task' = task \/ Takes)
  <2>1. LoopStep => (settled' = settled \/ Settles) /\ task' = task
    BY DEF LoopStep, StartCheck, StartCheckFails, SelectJobs, AssignNothing, Requeue, RequeueFails,
           Settle, Finish, Release, SettleUnstarted, FinishUnstarted
  <2>2. \A i \in Items : CheckThread(i) \/ LoopItem(i) => (settled' = settled \/ Settles) /\ task' = task
    BY DEF CheckThread, CheckBegins, CheckNeedsWorker, CheckAppends, CheckDecides, CheckRecords,
           CheckFinishes, CheckReleases, CheckLeaves, LoopItem, PickCheck, AssignRaises, AssignStrands
  <2>3. \A w \in Workers : WorkerStep(w) => settled' = settled /\ (task' = task \/ Takes)
    BY DEF WorkerStep, WorkerEnds, WorkerGivesBack, Reap, Assign
  <2>4. \A j \in Jobs : RunnerStep(j) => settled' = settled /\ task' = task
    BY DEF RunnerStep, Submit, QueuedCancelled, End, RequestPark, ParkSnapshot, ParkCommit,
           ParkRefused, ParkUncancelled, RunnerCancels, Detach, DetachRefused
  <2>5. \A j \in Jobs : CancelStep(j) => (settled' = settled \/ Settles) /\ task' = task
    BY DEF CancelStep, LoopCancels, CancelReads, CancelClears, CancelDone
  <2>6. \A j \in Jobs : Cleanup(j) \/ UserStep(j) => settled' = settled /\ task' = task
    BY DEF Cleanup, UserStep, RequestCancel, CancelRow, TogglePause, Close, Open
  <2>7. UNCHANGED vars => settled' = settled /\ task' = task BY DEF vars
  <2> HIDE DEF Settles, Takes
  <2>q. QED BY <2>1, <2>2, <2>3, <2>4, <2>5, <2>6, <2>7 DEF Next
<1>2. ASSUME IInv, [Next]_vars, NEW i \in Items, Quiet(JobOf[i])
      PROVE  (i \in settled' => i \in settled) /\ (HeldByWorker(i)' => HeldByWorker(i))
  <2>1. JobOf[i] \in Jobs /\ i \in ItemsOf(JobOf[i]) BY JobOfType DEF ItemsOf
  <2>2. ~Running(i)
    BY <1>2, <2>1, FenceQuiet DEF Parking, IInv, PlaceInv, QueuedEmpty
  <2>3. i \in itemQ => JobOf[i] \in parkRequested
    BY <1>2, <2>1 DEF Parking, IInv, PlaceInv, QueuedEmpty, InQueue, Fence
  <2>4. i \in settled' => i \in settled
    <3>1. CASE settled' = settled BY <3>1
    <3>2. CASE Settles
      BY <1>2, <2>2, <3>2 DEF CheckRecords, Settle, SettleUnstarted, CancelClears, Record, Running,
         HeldByCheck, HeldByLoop, IInv, PlaceInv, SlotInv, LoopHolds, SeenExcludes, Cancelling
    <3>q. QED BY <1>1, <1>2, <3>1, <3>2
  <2>5. HeldByWorker(i)' => HeldByWorker(i)
    <3>1. CASE task' = task BY <3>1 DEF HeldByWorker
    <3>2. CASE Takes
      BY <1>2, <2>3, <3>2, NoItemOutside
      DEF Reap, Assign, Eligible, HeldByWorker, IInv, SlotInv, TypeOK
    <3>q. QED BY <1>1, <1>2, <3>1, <3>2
  <2>q. QED BY <2>4, <2>5
<1>3. IInv /\ [Next]_vars =>
        \A i \in Items :
            LET j == JobOf[i] IN
            runner[j] \in {"committed", "detaching", "queued"} /\ j \notin cancelled
            => /\ i \in settled' => i \in settled
               /\ HeldByWorker(i)' => HeldByWorker(i)
  BY <1>2
<1>q. QED BY <1>3, InvariantHolds, PTL DEF Spec, NoWorkAfterCommit

-----------------------------------------------------------------------------
(* JobAccounting is implemented: read through the job's tally, its row and *)
(* the requests to cancel it, every step of Dispatcher is one of the       *)
(* promised steps or changes none of them.                                 *)

(* A row completes only with its last file, and its runner has ended then. *)
CompletedRows ==
    \A j \in Jobs : row[j] = "completed" =>
        runner[j] = "ended" /\ ItemsOf(j) \subseteq settled

AccountInv == IInv /\ CompletedRows

(* What the job's user sees asked for.                                     *)
Asked == [j \in Jobs |-> j \in flag \/ j \in cancelled \/ row[j] = "cancelled"]

(* The part of the state JobAccounting speaks of.                          *)
accounts == <<settled, completed, row, flag, cancelled>>

-----------------------------------------------------------------------------
(* Which steps touch the accounts, and which leave them alone.             *)

(* The steps that JobAccounting must explain.                              *)
Telling == \/ Settle \/ SettleUnstarted
           \/ \E i \in Items : CheckRecords(i)
           \/ \E j \in Jobs : \/ Submit(j) \/ QueuedCancelled(j) \/ End(j) \/ RunnerCancels(j)
                              \/ LoopCancels(j) \/ RequestCancel(j) \/ CancelRow(j)
                              \/ \E c \in CancelActors : CancelClears(c, j)

(* Every other step leaves tally, rows, flags and cancelled trackers alone.*)
LEMMA OthersSilent == ASSUME [Next]_vars PROVE UNCHANGED accounts \/ Telling
<1> USE DEF trackerVars, queueVars, activeVars, countVars, checkVars, workerVars, cancelVars,
            runnerVars, userVars, accounts
<1>1. LoopStep => UNCHANGED accounts \/ Telling
  BY DEF LoopStep, StartCheck, StartCheckFails, SelectJobs, AssignNothing, Requeue, RequeueFails,
         Finish, Release, FinishUnstarted, Telling
<1>2. \A i \in Items : CheckThread(i) \/ LoopItem(i) => UNCHANGED accounts \/ Telling
  BY DEF CheckThread, CheckBegins, CheckNeedsWorker, CheckAppends, CheckDecides, CheckGoes,
         CheckFinishes, CheckReleases, CheckLeaves, LoopItem, PickCheck, AssignRaises,
         AssignStrands, Telling
<1>3. \A w \in Workers : WorkerStep(w) => UNCHANGED accounts
  BY DEF WorkerStep, WorkerEnds, WorkerGivesBack, Reap, Assign
<1>4. \A j \in Jobs : RunnerStep(j) => UNCHANGED accounts \/ Telling
  BY DEF RunnerStep, RequestPark, ParkSnapshot, ParkCommit, ParkRefused, ParkUncancelled,
         Detach, DetachRefused, Telling
<1>5. \A j \in Jobs : CancelStep(j) => UNCHANGED accounts \/ Telling
  BY DEF CancelStep, CancelReads, CancelDone, Telling
<1>6. \A j \in Jobs : Cleanup(j) \/ UserStep(j) => UNCHANGED accounts \/ Telling
  BY DEF Cleanup, UserStep, TogglePause, Close, Open, Telling
<1>7. UNCHANGED vars => UNCHANGED accounts BY DEF vars
<1> HIDE DEF accounts
<1>q. QED BY <1>1, <1>2, <1>3, <1>4, <1>5, <1>6, <1>7 DEF Next

(* A step that leaves the accounts alone is a stutter of the promise.      *)
LEMMA SilentStutters == ASSUME UNCHANGED accounts PROVE UNCHANGED Accounting!vars
BY DEF accounts, Accounting!vars

-----------------------------------------------------------------------------
(* The strengthening.                                                      *)

(* Nobody wakes a runner that has ended.                                   *)
LEMMA EndedForGood ==
    ASSUME IInv, [Next]_vars, NEW j \in Jobs, runner[j] = "ended"
    PROVE  runner'[j] = "ended"
<1> USE DEF trackerVars, queueVars, activeVars, countVars, checkVars, workerVars, cancelVars,
            runnerVars, userVars
<1>0. runner \in [Jobs -> RunnerSteps] BY DEF IInv, SlotInv, TypeOK
<1>1. LoopStep => runner' = runner
  BY DEF LoopStep, StartCheck, StartCheckFails, SelectJobs, AssignNothing, Requeue, RequeueFails,
         Settle, SettleUnstarted, Finish, Release, FinishUnstarted
<1>2. \A i \in Items : CheckThread(i) \/ LoopItem(i) => runner' = runner
  BY DEF CheckThread, CheckBegins, CheckNeedsWorker, CheckAppends, CheckDecides, CheckRecords,
         CheckFinishes, CheckReleases, CheckLeaves, LoopItem, PickCheck, AssignRaises, AssignStrands
<1>3. \A w \in Workers : WorkerStep(w) => runner' = runner
  BY DEF WorkerStep, WorkerEnds, WorkerGivesBack, Reap, Assign
<1>4. \A k \in Jobs : RunnerStep(k) => runner'[j] = "ended"
  BY <1>0 DEF RunnerStep, Submit, QueuedCancelled, End, RequestPark, ParkSnapshot, ParkCommit,
     ParkRefused, ParkUncancelled, RunnerCancels, Detach, DetachRefused
<1>5. \A k \in Jobs : CancelStep(k) => runner'[j] = "ended"
  <2> SUFFICES ASSUME NEW k \in Jobs, CancelStep(k) PROVE runner'[j] = "ended" OBVIOUS
  <2>1. CASE \E c \in CancelActors : CancelDone(c, k)
    BY <1>0, <2>1 DEF CancelDone, IInv, PlaceInv, Cancelling
  <2>2. CASE LoopCancels(k) \/ \E c \in CancelActors : CancelReads(c, k) \/ CancelClears(c, k)
    BY <2>2 DEF LoopCancels, CancelReads, CancelClears
  <2>q. QED BY <2>1, <2>2 DEF CancelStep
<1>6. \A k \in Jobs : Cleanup(k) \/ UserStep(k) => runner' = runner
  BY DEF Cleanup, UserStep, RequestCancel, CancelRow, TogglePause, Close, Open
<1>7. UNCHANGED vars => runner' = runner BY DEF vars
<1>q. QED BY <1>1, <1>2, <1>3, <1>4, <1>5, <1>6, <1>7 DEF Next

(* No step of the accounts takes an outcome back.                          *)
LEMMA SettledGrows == ASSUME [Next]_vars PROVE settled \subseteq settled'
<1>1. CASE UNCHANGED accounts BY <1>1 DEF accounts
<1>2. CASE Telling
  BY <1>2 DEF Telling, Settle, SettleUnstarted, CheckRecords, Record, Submit, QueuedCancelled, End,
     RunnerCancels, LoopCancels, RequestCancel, CancelRow, CancelClears, countVars, userVars
<1>q. QED BY <1>1, <1>2, OthersSilent

(* Only End completes a row.                                               *)
LEMMA OnlyEndCompletes ==
    ASSUME IInv, [Next]_vars, NEW j \in Jobs, row'[j] = "completed", row[j] # "completed"
    PROVE  runner'[j] = "ended" /\ ItemsOf(j) \subseteq settled
<1>0. row \in [Jobs -> {"active", "cancelled", "completed"}] /\ runner \in [Jobs -> RunnerSteps]
  BY DEF IInv, SlotInv, TypeOK
<1>1. PICK k \in Jobs : QueuedCancelled(k) \/ End(k) \/ RunnerCancels(k) \/ CancelRow(k)
  BY <1>0, OthersSilent DEF Telling, Settle, SettleUnstarted, CheckRecords, Submit, LoopCancels,
     RequestCancel, CancelClears, userVars, accounts
<1>2. ~(QueuedCancelled(k) \/ RunnerCancels(k) \/ CancelRow(k))
  BY <1>0 DEF QueuedCancelled, RunnerCancels, CancelRow
<1>3. End(k) /\ k = j /\ j \in done \ cancelled BY <1>0, <1>1, <1>2 DEF End
<1>q. QED BY <1>0, <1>3 DEF End, IInv, PlaceInv, FinishersDone

(* The strengthened invariant holds in every state.                        *)
LEMMA AccountInvHolds == Spec => []AccountInv
<1>1. Init => CompletedRows BY DEF Init, CompletedRows
<1>2. IInv /\ CompletedRows /\ [Next]_vars => CompletedRows'
  <2> SUFFICES ASSUME IInv, CompletedRows, [Next]_vars,
                      NEW j \in Jobs, row'[j] = "completed"
               PROVE  runner'[j] = "ended" /\ ItemsOf(j) \subseteq settled'
      BY DEF CompletedRows, ItemsOf
  <2>1. settled \subseteq settled' BY SettledGrows
  <2>2. CASE row[j] = "completed"
    BY <2>1, <2>2, EndedForGood DEF CompletedRows
  <2>3. CASE row[j] # "completed"
    BY <2>1, <2>3, OnlyEndCompletes
  <2>q. QED BY <2>2, <2>3
<1>q. QED BY <1>1, <1>2, InvariantHolds, PTL DEF Spec, AccountInv

-----------------------------------------------------------------------------
(* One step each.                                                          *)

(* What every step below may use.                                          *)
LEMMA AccountTypes ==
    ASSUME AccountInv
    PROVE  /\ completed \in [Jobs -> Nat]
           /\ row \in [Jobs -> {"active", "cancelled", "completed"}]
           /\ flag \subseteq Jobs /\ cancelled \subseteq Jobs
BY DEF AccountInv, IInv, SlotInv, TypeOK

(* One outcome, of a file that ran: its row cannot have completed.         *)
LEMMA RecordImplements ==
    ASSUME AccountInv, NEW i \in Items, Running(i), Record(i), UNCHANGED <<row, flag, cancelled>>
    PROVE  Accounting!Next
<1>1. JobOf[i] \in Jobs /\ i \in ItemsOf(JobOf[i]) BY JobOfType DEF ItemsOf
<1>2. i \notin settled BY DEF AccountInv, IInv, PlaceInv, RunExcludes
<1>3. row[JobOf[i]] # "completed" BY <1>1, <1>2 DEF AccountInv, CompletedRows
<1>4. Accounting!Settle(i) BY <1>2, <1>3 DEF Accounting!Settle, Record
<1>q. QED BY <1>4 DEF Accounting!Next

(* Check threads and the loop record one outcome at a time.                *)
LEMMA RecordersImplement ==
    ASSUME AccountInv, \/ Settle \/ SettleUnstarted
                       \/ \E i \in Items : CheckRecords(i)
    PROVE  Accounting!Next
<1>1. CASE \E i \in Items : CheckRecords(i)
  <2> PICK i \in Items : CheckRecords(i) BY <1>1
  <2>1. Running(i) BY DEF CheckRecords, Running, HeldByCheck
  <2>2. Record(i) /\ UNCHANGED <<row, flag, cancelled>>
    BY DEF CheckRecords, trackerVars, userVars
  <2>q. QED BY <2>1, <2>2, RecordImplements
<1>2. CASE Settle \/ SettleUnstarted
  <2>1. loop.item \in Items
    BY <1>2 DEF Settle, SettleUnstarted, AccountInv, IInv, SlotInv, LoopHolds
  <2>2. Running(loop.item) BY <1>2 DEF Settle, SettleUnstarted, Running, HeldByLoop
  <2>3. Record(loop.item) /\ UNCHANGED <<row, flag, cancelled>>
    BY <1>2 DEF Settle, SettleUnstarted, trackerVars, userVars
  <2>q. QED BY <2>1, <2>2, <2>3, RecordImplements
<1>q. QED BY <1>1, <1>2

(* A cancel settles what it found queued, which nobody had settled.        *)
LEMMA CancelClearsImplements ==
    ASSUME AccountInv, NEW j \in Jobs, NEW c \in CancelActors, CancelClears(c, j)
    PROVE  Accounting!Next
<1>1. j \in cancelled BY DEF CancelClears, AccountInv, IInv, PlaceInv, Cancelling
<1>2. seen[j] \in SUBSET Accounting!ItemsOf(j) /\ seen[j] \intersect settled = {}
  BY DEF AccountInv, IInv, SlotInv, TypeOK, PlaceInv, SeenExcludes, Accounting!ItemsOf
<1>3. Asked' = Asked /\ Asked[j] BY <1>1 DEF CancelClears, Asked, trackerVars, userVars
<1>4. /\ settled' = settled \union seen[j]
      /\ completed' = [completed EXCEPT ![j] = @ + Cardinality(seen[j])]
      /\ row' = row
  BY DEF CancelClears, userVars
<1>5. Accounting!Cardinality(seen[j]) = Cardinality(seen[j])
  BY DEF Accounting!Cardinality, Cardinality
<1>6. Accounting!SettleDrained(j, seen[j])
  BY <1>2, <1>3, <1>4, <1>5 DEF Accounting!SettleDrained, Asked
<1>q. QED BY <1>2, <1>6 DEF Accounting!Next

(* A new tracker starts from the tally the job had: the promise stutters.  *)
LEMMA SubmitImplements ==
    ASSUME AccountInv, NEW j \in Jobs, Submit(j)
    PROVE  UNCHANGED Accounting!vars
<1>1. saved[j].completed = completed[j]
  BY DEF Submit, AccountInv, IInv, PlaceInv, QueuedKept, RemainderOf
<1>2. completed' = completed BY <1>1, AccountTypes DEF Submit
<1>q. QED BY <1>2 DEF Submit, Accounting!vars, userVars

(* The loop takes notice of a request that was made before.                *)
LEMMA LoopCancelsImplements ==
    ASSUME AccountInv, NEW j \in Jobs, LoopCancels(j)
    PROVE  UNCHANGED Accounting!vars
<1>1. j \in flag BY DEF LoopCancels, IsCancelled
<1>2. Asked' = Asked BY <1>1 DEF LoopCancels, Asked, userVars
<1>q. QED BY <1>2 DEF LoopCancels, Asked, Accounting!vars, userVars, countVars

(* The flag of the cancel route.                                           *)
LEMMA RequestCancelImplements ==
    ASSUME AccountInv, NEW j \in Jobs, RequestCancel(j)
    PROVE  Accounting!Next
<1>1. Asked' = [Asked EXCEPT ![j] = TRUE] BY DEF RequestCancel, Asked, trackerVars
<1>2. Accounting!Ask(j) BY <1>1 DEF Accounting!Ask, RequestCancel, Asked, countVars
<1>q. QED BY <1>2 DEF Accounting!Next

(* A row that somebody asked to cancel is cancelled, once.                 *)
LEMMA RowCancelImplements ==
    ASSUME AccountInv, NEW j \in Jobs, row[j] = "active", Asked[j], Asked' = Asked,
           row' = [row EXCEPT ![j] = "cancelled"], UNCHANGED <<settled, completed>>
    PROVE  Accounting!Next
<1>1. Accounting!Cancel(j) BY DEF Accounting!Cancel, Asked
<1>q. QED BY <1>1 DEF Accounting!Next

(* Whoever cancels a row does it on a request, and asks for nothing new.   *)
LEMMA CancellersImplement ==
    ASSUME AccountInv, NEW j \in Jobs, QueuedCancelled(j) \/ RunnerCancels(j) \/ CancelRow(j)
    PROVE  Accounting!Next \/ UNCHANGED Accounting!vars
<1>1. j \in flag BY DEF QueuedCancelled, RunnerCancels, CancelRow
<1>2. UNCHANGED <<settled, completed>>
  BY DEF QueuedCancelled, RunnerCancels, CancelRow, countVars
<1>3. row[j] # "completed"
  BY DEF QueuedCancelled, RunnerCancels, CancelRow, AccountInv, CompletedRows
<1>4. Asked' = Asked
  BY <1>1, AccountTypes DEF Asked, QueuedCancelled, RunnerCancels, CancelRow, trackerVars
<1>5. CASE row[j] = "active"
  <2>1. row' = [row EXCEPT ![j] = "cancelled"]
    BY <1>5 DEF QueuedCancelled, RunnerCancels, CancelRow
  <2>2. Asked[j] BY <1>1 DEF Asked
  <2>q. QED BY <1>2, <1>4, <1>5, <2>1, <2>2, RowCancelImplements
<1>6. CASE row[j] = "cancelled"
  <2>1. row' = row BY <1>6, AccountTypes DEF QueuedCancelled, RunnerCancels, CancelRow
  <2>q. QED BY <1>2, <1>4, <2>1 DEF Asked, Accounting!vars
<1>q. QED BY <1>3, <1>5, <1>6, AccountTypes

(* The runner takes its result: completed, cancelled or cancelled before.  *)
LEMMA EndImplements ==
    ASSUME AccountInv, NEW j \in Jobs, End(j)
    PROVE  Accounting!Next \/ UNCHANGED Accounting!vars
<1>1. UNCHANGED <<settled, completed, cancelled>> BY DEF End, countVars, trackerVars
<1>2. row[j] # "completed" BY DEF End, AccountInv, CompletedRows
<1>3. CASE row[j] = "cancelled"
  <2>1. row' = row BY <1>3 DEF End
  <2>2. Asked' = Asked BY <1>1, <1>3, <2>1 DEF End, Asked
  <2>q. QED BY <1>1, <2>1, <2>2 DEF Asked, Accounting!vars
<1>4. CASE row[j] = "active" /\ j \in cancelled
  <2>1. row' = [row EXCEPT ![j] = "cancelled"] BY <1>4 DEF End
  <2>2. Asked' = Asked BY <1>1, <1>4, <2>1, AccountTypes DEF End, Asked
  <2>3. Asked[j] BY <1>4 DEF Asked
  <2>q. QED BY <1>1, <1>4, <2>1, <2>2, <2>3, RowCancelImplements
<1>5. CASE row[j] = "active" /\ j \notin cancelled
  <2>1. row' = [row EXCEPT ![j] = "completed"] BY <1>5 DEF End
  <2>2. Accounting!ItemsOf(j) \subseteq settled
    BY <1>5 DEF End, AccountInv, IInv, PlaceInv, FinishersDone, ItemsOf, Accounting!ItemsOf
  <2>3. Asked' = [Asked EXCEPT ![j] = FALSE]
    BY <1>1, <1>5, <2>1, AccountTypes DEF End, Asked
  <2>4. Accounting!Complete(j)
    BY <1>1, <1>5, <2>1, <2>2, <2>3 DEF Accounting!Complete, Asked
  <2>q. QED BY <2>4 DEF Accounting!Next
<1>q. QED BY <1>2, <1>3, <1>4, <1>5, AccountTypes

-----------------------------------------------------------------------------
(* The refinement.                                                         *)

(* Every step of the dispatcher is a promised step or a stutter.           *)
LEMMA StepImplements ==
    ASSUME AccountInv, [Next]_vars PROVE [Accounting!Next]_(Accounting!vars)
<1>1. CASE UNCHANGED accounts BY <1>1, SilentStutters
<1>2. CASE Telling
  BY <1>2, RecordersImplement, CancelClearsImplements, SubmitImplements, LoopCancelsImplements,
     RequestCancelImplements, CancellersImplement, EndImplements DEF Telling
<1>q. QED BY <1>1, <1>2, OthersSilent

(***************************************************************************)
(* Queues, check threads, workers, parks and cancels together keep what a  *)
(* job promises: each file settled at most once and counted exactly, a row *)
(* completed only when all are settled and cancelled only when asked.      *)
(***************************************************************************)
THEOREM AccountingImplemented == Spec => ImplementsAccounting
<1>1. Init => Accounting!Init BY DEF Init, Accounting!Init
<1>2. AccountInv /\ [Next]_vars => [Accounting!Next]_(Accounting!vars)
  BY StepImplements
<1>q. QED BY <1>1, <1>2, AccountInvHolds, PTL DEF Spec, ImplementsAccounting, Accounting!Spec

=============================================================================
