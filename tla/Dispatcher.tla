----------------------------- MODULE Dispatcher -----------------------------
(***************************************************************************)
(* The shared dispatcher (jobs/dispatcher.py): every running job has a     *)
(* JobTracker with two queues.  The one dispatch-loop thread takes files   *)
(* off check_queue for short-lived check threads and off item_queue for    *)
(* the workers, and reaps the workers; check threads record files that     *)
(* need nothing or append them to item_queue; each job's runner thread     *)
(* waits for its tracker and parks it when its worker groups close         *)
(* (jobs/parking.py); users cancel and pause jobs from web threads.        *)
(*                                                                         *)
(* The order of files inside a queue and of jobs inside a pass is left     *)
(* open here (a pick takes any eligible file).                             *)
(***************************************************************************)
EXTENDS Integers, FiniteSets

CONSTANTS
    Jobs,          \* job ids, each submitted by one runner thread
    Items,         \* the ProcessableItems of every job
    JobOf,         \* [Items -> Jobs]
    Workers,       \* the pool's processing workers
    MaxChecks,     \* _max_checks: check threads in flight at a time
    MaxGiveBacks,  \* bound: how often a worker may give one file back
    MaxCloses,     \* bound: [Jobs -> Nat], how often the hours may close on each job
    Cancellable,   \* bound: the jobs a user may cancel
    Pausable,      \* bound: the jobs a user may pause
    NoItem         \* the loop or a worker holds no file

ASSUME DispatcherAssumption ==
    /\ IsFiniteSet(Items)
    /\ JobOf \in [Items -> Jobs]
    /\ MaxChecks \in Nat \ {0}
    /\ MaxGiveBacks \in Nat
    /\ MaxCloses \in [Jobs -> Nat]
    /\ Cancellable \subseteq Jobs
    /\ Pausable \subseteq Jobs
    /\ NoItem \notin Items

ItemsOf(j) == {i \in Items : JobOf[i] = j}

CancelActors == {"loop", "runner"}
CheckSteps == {"none", "starting", "run", "checking", "appending",
               "recording", "finishing", "leaving", "left"}
LoopSteps == {"idle", "starting", "selecting", "settling", "finishing", "releasing",
              "requeueing", "settlingUnstarted", "finishingUnstarted", "cancelling"}
RunnerSteps == {"queued", "waiting", "committing", "committed", "detaching",
                "cancelling", "broken", "ended"}

VARIABLES
    \* JobTracker
    attached,       \* the jobs whose tracker is in _trackers
    done,           \* the jobs whose done_event is set
    cancelled,      \* the jobs whose tracker.cancelled is set
    parkRequested,  \* the jobs whose tracker.park_requested is set
    checkQ,         \* the files in their tracker's check_queue
    itemQ,          \* the files in their tracker's item_queue
    activeChecks,   \* [Jobs -> Nat]: tracker.active_checks
    activeProc,     \* [Jobs -> Nat]: tracker.active_processing
    completed,      \* [Jobs -> Nat]: tracker.successful + tracker.failed
    total,          \* [Jobs -> Nat]: tracker.total_items
    settled,        \* the files counted in completed (each has its Files-panel row)
    \* threads
    inFlight,       \* _checks_in_flight
    check,          \* [Items -> CheckSteps]: where the check thread of a file is
    task,           \* [Workers -> Items \union {NoItem}]: current_item of a busy worker
    wstate,         \* [Workers -> ...]: idle, busy, or its thread has ended with a result
    loop,           \* [step, item, cands]: where the dispatch loop is
    cancelStep,     \* [CancelActors -> [Jobs -> ...]]: where JobTracker.cancel is
    seen,           \* [Jobs -> SUBSET Items]: the queued files a running cancel() saw
    runner,         \* [Jobs -> RunnerSteps]: where the job's runner thread is
    snap,           \* [Jobs -> [items, completed]]: park_snapshot's answer
    giveBacks,      \* [Items -> Nat]: how often workers gave the file back
    \* job manager and policy
    saved,          \* [Jobs -> [items, completed]]: what the job's next pass starts from
    row,            \* [Jobs -> ...]: status; PENDING and RUNNING are "active"
    flag,           \* the jobs whose cancellation flag is set
    paused,         \* the jobs a user paused
    open,           \* the jobs whose kind has open worker capacity
    closes          \* [Jobs -> Nat]

trackerVars == <<attached, done, cancelled, parkRequested, total>>
queueVars   == <<checkQ, itemQ>>
activeVars  == <<activeChecks, activeProc>>
countVars   == <<completed, settled>>
checkVars   == <<check, inFlight>>
workerVars  == <<task, wstate, giveBacks>>
cancelVars  == <<cancelStep, seen>>
runnerVars  == <<runner, snap, saved>>
userVars    == <<row, flag, paused, open, closes>>

vars == <<attached, done, cancelled, parkRequested, total, checkQ, itemQ, activeChecks,
          activeProc, completed, settled, check, inFlight, task, wstate, giveBacks, loop,
          cancelStep, seen, runner, snap, saved, row, flag, paused, open, closes>>

LoopIdle == [step |-> "idle", item |-> NoItem, cands |-> {}]
LoopAt(step, i) == [step |-> step, item |-> i, cands |-> {}]

Init ==
    /\ attached = {} /\ done = {} /\ cancelled = {} /\ parkRequested = {}
    /\ total = [j \in Jobs |-> Cardinality(ItemsOf(j))]
    /\ checkQ = {} /\ itemQ = {}
    /\ activeChecks = [j \in Jobs |-> 0]
    /\ activeProc = [j \in Jobs |-> 0]
    /\ completed = [j \in Jobs |-> 0]
    /\ settled = {}
    /\ check = [i \in Items |-> "none"]
    /\ inFlight = 0
    /\ task = [w \in Workers |-> NoItem]
    /\ wstate = [w \in Workers |-> "idle"]
    /\ giveBacks = [i \in Items |-> 0]
    /\ loop = LoopIdle
    /\ cancelStep = [c \in CancelActors |-> [j \in Jobs |-> "none"]]
    /\ seen = [j \in Jobs |-> {}]
    /\ runner = [j \in Jobs |-> "queued"]
    /\ saved = [j \in Jobs |-> [items |-> ItemsOf(j), completed |-> 0]]
    /\ snap = saved
    /\ row = [j \in Jobs |-> "active"]
    /\ flag = {} /\ paused = {}
    /\ open = Jobs
    /\ closes = [j \in Jobs |-> 0]

-----------------------------------------------------------------------------
(* Locks and shared tests.                                                 *)

(* assign_task's failure is recorded before _assign_tasks_locked lets go   *)
(* of _trackers_lock; every other section under that lock is one action.   *)
NoTrackersLock == TRUE   \* broken variant: recorded after the lock is released
TrackersLockFree == loop.step \notin {"settlingUnstarted", "finishingUnstarted"}

(* JobTracker.cancel is the only holder of _counts_lock seen half-way.     *)
CountsLockFree(j) == \A c \in CancelActors : cancelStep[c][j] # "draining"

IsCancelled(j) == j \in flag \/ j \in cancelled

Decrement(n) == IF n > 0 THEN n - 1 ELSE 0   \* max(0, n - 1)

(* Broken variant: += without the lock, which may lose an increment.       *)
RecordUnlocked(i) ==
    /\ completed' \in {completed, [completed EXCEPT ![JobOf[i]] = @ + 1]}
    /\ settled' = settled \union {i}

(* record_completion under _counts_lock, for one file.                     *)
Record(i) ==
    /\ CountsLockFree(JobOf[i])
    /\ completed' = [completed EXCEPT ![JobOf[i]] = @ + 1]
    /\ settled' = settled \union {i}

IsLastButOne(i) == completed[JobOf[i]] + 2 >= total[JobOf[i]]   \* broken variant

(* ... and the is_done it reads inside that lock.                          *)
IsLast(i) == completed[JobOf[i]] + 1 >= total[JobOf[i]]

-----------------------------------------------------------------------------
(* The runner thread: submit, wait, park, end.                             *)

(* Broken variant: the new tracker keeps the old one's park request.       *)
SubmitStillParking(j) ==
    /\ runner[j] = "queued"
    /\ row[j] = "active" /\ j \notin flag
    /\ j \in open
    /\ j \notin attached
    /\ TrackersLockFree
    /\ attached' = attached \union {j}
    /\ UNCHANGED parkRequested
    /\ checkQ' = checkQ \union saved[j].items
    /\ completed' = [completed EXCEPT ![j] = saved[j].completed]
    /\ total' = [total EXCEPT ![j] = Cardinality(saved[j].items) + saved[j].completed]
    /\ done' = IF saved[j].items = {} THEN done \union {j} ELSE done
    /\ activeChecks' = [activeChecks EXCEPT ![j] = 0]
    /\ activeProc' = [activeProc EXCEPT ![j] = 0]
    /\ runner' = [runner EXCEPT ![j] = "waiting"]
    /\ UNCHANGED <<cancelled, itemQ, settled, loop, snap, saved>>
    /\ UNCHANGED <<checkVars, workerVars, cancelVars, userVars>>

(* submit_items, once the runner was admitted: a new JobTracker from the   *)
(* job's listing or from its checkpoint.                                   *)
Submit(j) ==
    /\ runner[j] = "queued"
    /\ row[j] = "active" /\ j \notin flag
    /\ j \in open
    /\ j \notin attached
    /\ TrackersLockFree
    /\ attached' = attached \union {j}
    /\ parkRequested' = parkRequested \ {j}
    /\ checkQ' = checkQ \union saved[j].items
    /\ completed' = [completed EXCEPT ![j] = saved[j].completed]
    /\ total' = [total EXCEPT ![j] = Cardinality(saved[j].items) + saved[j].completed]
    /\ done' = IF saved[j].items = {} THEN done \union {j} ELSE done
    /\ activeChecks' = [activeChecks EXCEPT ![j] = 0]
    /\ activeProc' = [activeProc EXCEPT ![j] = 0]
    /\ runner' = [runner EXCEPT ![j] = "waiting"]
    /\ UNCHANGED <<cancelled, itemQ, settled, loop, snap, saved>>
    /\ UNCHANGED <<checkVars, workerVars, cancelVars, userVars>>

(* A job cancelled before it is admitted never reaches the dispatcher.     *)
QueuedCancelled(j) ==
    /\ runner[j] = "queued"
    /\ j \in flag
    /\ row' = [row EXCEPT ![j] = "cancelled"]
    /\ flag' = flag \ {j}
    /\ runner' = [runner EXCEPT ![j] = "ended"]
    /\ UNCHANGED <<loop, snap, saved, paused, open, closes>>
    /\ UNCHANGED <<trackerVars, queueVars, activeVars, countVars, checkVars, workerVars, cancelVars>>

(* Broken variant: the result's cancelled flag is not looked at.           *)
EndIgnoringCancel(j) ==
    /\ runner[j] = "waiting"
    /\ j \in done
    /\ row' = IF row[j] # "active" THEN row
              ELSE [row EXCEPT ![j] = "completed"]
    /\ flag' = flag \ {j}
    /\ runner' = [runner EXCEPT ![j] = "ended"]
    /\ UNCHANGED <<loop, snap, saved, paused, open, closes>>
    /\ UNCHANGED <<trackerVars, queueVars, activeVars, countVars, checkVars, workerVars, cancelVars>>

(* tracker.wait returned: the runner takes the result, sets the row's      *)
(* final status and clears the job's flags.                                *)
End(j) ==
    /\ runner[j] = "waiting"
    /\ j \in done
    /\ row' = IF row[j] # "active" THEN row
              ELSE [row EXCEPT ![j] = IF j \in cancelled THEN "cancelled" ELSE "completed"]
    /\ flag' = flag \ {j}
    /\ runner' = [runner EXCEPT ![j] = "ended"]
    /\ UNCHANGED <<loop, snap, saved, paused, open, closes>>
    /\ UNCHANGED <<trackerVars, queueVars, activeVars, countVars, checkVars, workerVars, cancelVars>>

(* park_if_unavailable on a tick of the wait: request_park once no         *)
(* capacity is open.                                                       *)
RequestPark(j) ==
    /\ runner[j] = "waiting"
    /\ j \notin open
    /\ j \in attached /\ j \notin done
    /\ TrackersLockFree
    /\ parkRequested' = parkRequested \union {j}
    /\ UNCHANGED <<attached, done, cancelled, total, loop>>
    /\ UNCHANGED <<queueVars, activeVars, countVars, checkVars, workerVars, cancelVars,
                   runnerVars, userVars>>

(* Broken variant: check threads are not waited for.                       *)
ParkSnapshotEarly(j) ==
    /\ runner[j] = "waiting"
    /\ j \in attached /\ j \in parkRequested /\ j \notin done
    /\ activeProc[j] = 0
    /\ TrackersLockFree /\ CountsLockFree(j)
    /\ j \notin flag
    /\ snap' = [snap EXCEPT ![j] = [items |-> (itemQ \union checkQ) \intersect ItemsOf(j),
                                    completed |-> completed[j]]]
    /\ runner' = [runner EXCEPT ![j] = "committing"]
    /\ UNCHANGED <<loop, saved>>
    /\ UNCHANGED <<trackerVars, queueVars, activeVars, countVars, checkVars, workerVars,
                   cancelVars, userVars>>

(* park_snapshot past its fence, and no cancellation seen after it.        *)
ParkSnapshot(j) ==
    /\ runner[j] = "waiting"
    /\ j \in attached /\ j \in parkRequested /\ j \notin done
    /\ activeChecks[j] = 0 /\ activeProc[j] = 0
    /\ TrackersLockFree /\ CountsLockFree(j)
    /\ j \notin flag
    /\ snap' = [snap EXCEPT ![j] = [items |-> (itemQ \union checkQ) \intersect ItemsOf(j),
                                    completed |-> completed[j]]]
    /\ runner' = [runner EXCEPT ![j] = "committing"]
    /\ UNCHANGED <<loop, saved>>
    /\ UNCHANGED <<trackerVars, queueVars, activeVars, countVars, checkVars, workerVars,
                   cancelVars, userVars>>

(* write_checkpoint and park_job: the row refers to the new checkpoint.    *)
ParkCommit(j) ==
    /\ runner[j] = "committing"
    /\ row[j] = "active"
    /\ saved' = [saved EXCEPT ![j] = snap[j]]
    /\ runner' = [runner EXCEPT ![j] = "committed"]
    /\ UNCHANGED <<loop, snap>>
    /\ UNCHANGED <<trackerVars, queueVars, activeVars, countVars, checkVars, workerVars,
                   cancelVars, userVars>>

(* The row was cancelled meanwhile, or the checkpoint could not be stored: *)
(* the admitted work is kept and the next tick tries again.                *)
ParkRefused(j) ==
    /\ runner[j] = "committing"
    /\ runner' = [runner EXCEPT ![j] = "waiting"]
    /\ UNCHANGED <<loop, snap, saved>>
    /\ UNCHANGED <<trackerVars, queueVars, activeVars, countVars, checkVars, workerVars,
                   cancelVars, userVars>>

(* The cancellation test after the commit: not cancelled so far.           *)
ParkUncancelled(j) ==
    /\ runner[j] = "committed"
    /\ j \notin flag
    /\ runner' = [runner EXCEPT ![j] = "detaching"]
    /\ UNCHANGED <<loop, snap, saved>>
    /\ UNCHANGED <<trackerVars, queueVars, activeVars, countVars, checkVars, workerVars,
                   cancelVars, userVars>>

(* ... or it was: manager.cancel_job and dispatcher.cancel_job.            *)
RunnerCancels(j) ==
    /\ runner[j] = "committed"
    /\ j \in flag
    /\ row' = IF row[j] = "active" THEN [row EXCEPT ![j] = "cancelled"] ELSE row
    /\ IF j \in attached
       THEN /\ cancelled' = cancelled \union {j}
            /\ cancelStep' = [cancelStep EXCEPT !["runner"][j] = "flagged"]
            /\ runner' = [runner EXCEPT ![j] = "cancelling"]
       ELSE /\ runner' = [runner EXCEPT ![j] = "waiting"]
            /\ UNCHANGED <<cancelled, cancelStep>>
    /\ UNCHANGED <<attached, done, parkRequested, total, seen, loop, snap, saved,
                   flag, paused, open, closes>>
    /\ UNCHANGED <<queueVars, activeVars, countVars, checkVars, workerVars>>

(* detach_parked: the tracker goes, its queues are cleared, JobParked is   *)
(* raised and the runner waits for capacity again.                         *)
Detach(j) ==
    /\ runner[j] = "detaching"
    /\ TrackersLockFree
    /\ j \in attached /\ j \notin done
    /\ activeChecks[j] = 0 /\ activeProc[j] = 0 /\ j \in parkRequested
    /\ attached' = attached \ {j}
    /\ checkQ' = checkQ \ ItemsOf(j)
    /\ itemQ' = itemQ \ ItemsOf(j)
    /\ runner' = [runner EXCEPT ![j] = "queued"]
    /\ UNCHANGED <<done, cancelled, parkRequested, total, loop, snap, saved>>
    /\ UNCHANGED <<activeVars, countVars, checkVars, workerVars, cancelVars, userVars>>

(* detach_parked raised or answered False: fine when the job is cancelled, *)
(* a RuntimeError otherwise.                                               *)
DetachRefused(j) ==
    /\ runner[j] = "detaching"
    /\ TrackersLockFree
    /\ \/ j \notin attached \/ j \in done
       \/ activeChecks[j] > 0 \/ activeProc[j] > 0
    /\ LET refused == j \notin attached \/ (activeChecks[j] = 0 /\ activeProc[j] = 0)
       IN runner' = [runner EXCEPT
            ![j] = IF refused /\ (row[j] = "cancelled" \/ j \in flag)
                   THEN "waiting" ELSE "broken"]
    /\ UNCHANGED <<loop, snap, saved>>
    /\ UNCHANGED <<trackerVars, queueVars, activeVars, countVars, checkVars, workerVars,
                   cancelVars, userVars>>

-----------------------------------------------------------------------------
(* The checking stage: _submit_checks and the check threads.               *)

(* _get_next_check_item: popleft and active_checks + 1 under               *)
(* _trackers_lock, then the in-flight slot.                                *)
PickCheck(i) ==
    LET j == JobOf[i] IN
    /\ loop = LoopIdle
    /\ inFlight < MaxChecks
    /\ i \in checkQ
    /\ j \in attached /\ j \notin done /\ j \notin parkRequested
    /\ j \notin paused /\ ~IsCancelled(j)
    /\ j \in open
    /\ checkQ' = checkQ \ {i}
    /\ activeChecks' = [activeChecks EXCEPT ![j] = @ + 1]
    /\ inFlight' = inFlight + 1
    /\ check' = [check EXCEPT ![i] = "starting"]
    /\ loop' = LoopAt("starting", i)
    /\ UNCHANGED <<itemQ, activeProc>>
    /\ UNCHANGED <<trackerVars, countVars, workerVars, cancelVars, runnerVars, userVars>>

StartCheck ==
    /\ loop.step = "starting"
    /\ check' = [check EXCEPT ![loop.item] = "run"]
    /\ loop' = LoopIdle
    /\ UNCHANGED inFlight
    /\ UNCHANGED <<trackerVars, queueVars, activeVars, countVars, workerVars, cancelVars,
                   runnerVars, userVars>>

(* Broken variant: the in-flight slot is not given back.                   *)
StartCheckFailsLeaking ==
    LET i == loop.item IN
    /\ loop.step = "starting"
    /\ check' = [check EXCEPT ![i] = "none"]
    /\ UNCHANGED inFlight
    /\ activeChecks' = [activeChecks EXCEPT ![JobOf[i]] = @ - 1]
    /\ checkQ' = checkQ \union {i}
    /\ loop' = LoopIdle
    /\ UNCHANGED <<itemQ, activeProc>>
    /\ UNCHANGED <<trackerVars, countVars, workerVars, cancelVars, runnerVars, userVars>>

(* thread.start raised: slots released, the file back in check_queue.      *)
StartCheckFails ==
    LET i == loop.item IN
    /\ loop.step = "starting"
    /\ check' = [check EXCEPT ![i] = "none"]
    /\ inFlight' = inFlight - 1
    /\ activeChecks' = [activeChecks EXCEPT ![JobOf[i]] = @ - 1]
    /\ checkQ' = checkQ \union {i}
    /\ loop' = LoopIdle
    /\ UNCHANGED <<itemQ, activeProc>>
    /\ UNCHANGED <<trackerVars, countVars, workerVars, cancelVars, runnerVars, userVars>>

CheckGoes(i, step) ==
    /\ check' = [check EXCEPT ![i] = step]
    /\ UNCHANGED <<inFlight, loop>>

(* _run_check: a job cancelled or done before any work is left alone.      *)
CheckBegins(i) ==
    /\ check[i] = "run"
    /\ CheckGoes(i, IF IsCancelled(JobOf[i]) \/ JobOf[i] \in done THEN "leaving" ELSE "checking")
    /\ UNCHANGED <<trackerVars, queueVars, activeVars, countVars, workerVars, cancelVars,
                   runnerVars, userVars>>

(* NEEDS_GENERATION, or the check raised: the guard before the append.     *)
CheckNeedsWorker(i) ==
    /\ check[i] = "checking"
    /\ CheckGoes(i, IF IsCancelled(JobOf[i]) \/ JobOf[i] \in done THEN "leaving" ELSE "appending")
    /\ UNCHANGED <<trackerVars, queueVars, activeVars, countVars, workerVars, cancelVars,
                   runnerVars, userVars>>

(* item_queue.append, without a lock.                                      *)
CheckAppends(i) ==
    /\ check[i] = "appending"
    /\ itemQ' = itemQ \union {i}
    /\ CheckGoes(i, "leaving")
    /\ UNCHANGED checkQ
    /\ UNCHANGED <<trackerVars, activeVars, countVars, workerVars, cancelVars, runnerVars, userVars>>

(* A terminal answer: record_check_result's own done test.                 *)
CheckDecides(i) ==
    /\ check[i] = "checking"
    /\ CheckGoes(i, IF JobOf[i] \in done THEN "leaving" ELSE "recording")
    /\ UNCHANGED <<trackerVars, queueVars, activeVars, countVars, workerVars, cancelVars,
                   runnerVars, userVars>>

(* Broken variant: a raise after the count routes the file to a worker.    *)
CheckRecordsThenRaises(i) ==
    /\ check[i] = "recording"
    /\ Record(i)
    /\ CheckGoes(i, IF IsLast(i) THEN "finishing" ELSE "appending")
    /\ UNCHANGED <<trackerVars, queueVars, activeVars, workerVars, cancelVars, runnerVars, userVars>>

CheckRecords(i) ==
    /\ check[i] = "recording"
    /\ Record(i)
    /\ CheckGoes(i, IF IsLast(i) THEN "finishing" ELSE "leaving")
    /\ UNCHANGED <<trackerVars, queueVars, activeVars, workerVars, cancelVars, runnerVars, userVars>>

(* Broken variant: a raising callback keeps done_event from being set.     *)
CheckFinishesUnguarded(i) ==
    /\ check[i] = "finishing"
    /\ UNCHANGED done
    /\ CheckGoes(i, "leaving")
    /\ UNCHANGED <<attached, cancelled, parkRequested, total>>
    /\ UNCHANGED <<queueVars, activeVars, countVars, workerVars, cancelVars, runnerVars, userVars>>

(* The callbacks have run; done_event.set.                                 *)
CheckFinishes(i) ==
    /\ check[i] = "finishing"
    /\ done' = done \union {JobOf[i]}
    /\ CheckGoes(i, "leaving")
    /\ UNCHANGED <<attached, cancelled, parkRequested, total>>
    /\ UNCHANGED <<queueVars, activeVars, countVars, workerVars, cancelVars, runnerVars, userVars>>

(* _run_check_and_release: the slot first, active_checks after it.         *)
CheckReleases(i) ==
    /\ check[i] = "leaving"
    /\ check' = [check EXCEPT ![i] = "left"]
    /\ inFlight' = inFlight - 1
    /\ UNCHANGED loop
    /\ UNCHANGED <<trackerVars, queueVars, activeVars, countVars, workerVars, cancelVars,
                   runnerVars, userVars>>

CheckLeaves(i) ==
    /\ check[i] = "left"
    /\ TrackersLockFree
    /\ activeChecks' = [activeChecks EXCEPT ![JobOf[i]] = Decrement(@)]
    /\ CheckGoes(i, "none")
    /\ UNCHANGED activeProc
    /\ UNCHANGED <<trackerVars, queueVars, countVars, workerVars, cancelVars, runnerVars, userVars>>

-----------------------------------------------------------------------------
(* Assigning files to workers (_assign_tasks_locked).                      *)

(* The candidates: pause and cancel are asked about outside the locks.     *)
SelectJobs ==
    /\ loop = LoopIdle
    /\ itemQ # {}
    /\ loop' = [step |-> "selecting", item |-> NoItem,
                cands |-> {j \in attached : j \notin paused /\ ~IsCancelled(j)}]
    /\ UNCHANGED <<trackerVars, queueVars, activeVars, countVars, checkVars, workerVars,
                   cancelVars, runnerVars, userVars>>

(* Broken variant: the candidates are not tested again for parking.        *)
EligibleStale(i) ==
    LET j == JobOf[i] IN
    /\ loop.step = "selecting"
    /\ i \in itemQ
    /\ j \in loop.cands
    /\ j \in attached /\ j \notin done /\ j \notin cancelled
    /\ CountsLockFree(j)

(* Under both locks again: what may still be picked.                       *)
Eligible(i) ==
    LET j == JobOf[i] IN
    /\ loop.step = "selecting"
    /\ i \in itemQ
    /\ j \in loop.cands
    /\ j \in attached /\ j \notin done /\ j \notin parkRequested /\ j \notin cancelled
    /\ CountsLockFree(j)

FreeFor(w, i) == wstate[w] = "idle" /\ JobOf[i] \in open

Assign(w, i) ==
    /\ Eligible(i) /\ FreeFor(w, i)
    /\ itemQ' = itemQ \ {i}
    /\ activeProc' = [activeProc EXCEPT ![JobOf[i]] = @ + 1]
    /\ task' = [task EXCEPT ![w] = i]
    /\ wstate' = [wstate EXCEPT ![w] = "busy"]
    /\ loop' = LoopIdle
    /\ UNCHANGED <<checkQ, activeChecks, giveBacks>>
    /\ UNCHANGED <<trackerVars, countVars, checkVars, cancelVars, runnerVars, userVars>>

(* assign_task raised: active_processing is dropped again and the file is  *)
(* failed (_fail_unstarted_item) with _trackers_lock held.                 *)
AssignRaises(i) ==
    /\ Eligible(i)
    /\ \E w \in Workers : FreeFor(w, i)
    /\ itemQ' = itemQ \ {i}
    /\ loop' = LoopAt("settlingUnstarted", i)
    /\ UNCHANGED checkQ
    /\ UNCHANGED <<trackerVars, activeVars, countVars, checkVars, workerVars, cancelVars,
                   runnerVars, userVars>>

(* No configured worker can run a file that nodes gave back: it is taken   *)
(* off the queue and failed once the locks are released.                   *)
AssignStrands(i) ==
    /\ Eligible(i)
    /\ giveBacks[i] > 0
    /\ itemQ' = itemQ \ {i}
    /\ activeProc' = [activeProc EXCEPT ![JobOf[i]] = @ + 1]
    /\ loop' = LoopAt("settling", i)
    /\ UNCHANGED <<checkQ, activeChecks>>
    /\ UNCHANGED <<trackerVars, countVars, checkVars, workerVars, cancelVars, runnerVars, userVars>>

AssignNothing ==
    /\ loop.step = "selecting"
    /\ \A i \in itemQ, w \in Workers : ~(Eligible(i) /\ FreeFor(w, i))
    /\ loop' = LoopIdle
    /\ UNCHANGED <<trackerVars, queueVars, activeVars, countVars, checkVars, workerVars,
                   cancelVars, runnerVars, userVars>>

-----------------------------------------------------------------------------
(* Workers and the reaping of their results (_check_completions).          *)

(* The file's outcome is in: published, failed, skipped or cancelled.      *)
WorkerEnds(w) ==
    /\ wstate[w] = "busy"
    /\ wstate' = [wstate EXCEPT ![w] = "ended"]
    /\ UNCHANGED <<task, giveBacks, loop>>
    /\ UNCHANGED <<trackerVars, queueVars, activeVars, countVars, checkVars, cancelVars,
                   runnerVars, userVars>>

(* Its GPU or its node could not run it: last_task_handed_off or           *)
(* last_task_requeue is set instead.                                       *)
WorkerGivesBack(w) ==
    /\ wstate[w] = "busy"
    /\ giveBacks[task[w]] < MaxGiveBacks
    /\ wstate' = [wstate EXCEPT ![w] = "gaveBack"]
    /\ giveBacks' = [giveBacks EXCEPT ![task[w]] = @ + 1]
    /\ UNCHANGED <<task, loop>>
    /\ UNCHANGED <<trackerVars, queueVars, activeVars, countVars, checkVars, cancelVars,
                   runnerVars, userVars>>

(* check_completion frees the worker; a job without a live tracker only    *)
(* gets a log line.                                                        *)
Reap(w) ==
    /\ loop = LoopIdle
    /\ wstate[w] \in {"ended", "gaveBack"}
    /\ wstate' = [wstate EXCEPT ![w] = "idle"]
    /\ task' = [task EXCEPT ![w] = NoItem]
    /\ LET i == task[w] IN
       loop' = IF JobOf[i] \in attached \ done
               THEN LoopAt(IF wstate[w] = "ended" THEN "settling" ELSE "requeueing", i)
               ELSE LoopIdle
    /\ UNCHANGED giveBacks
    /\ UNCHANGED <<trackerVars, queueVars, activeVars, countVars, checkVars, cancelVars,
                   runnerVars, userVars>>

(* appendleft and active_processing - 1 together under _trackers_lock      *)
(* (_requeue_for_another_gpu, _requeue_or_fail without a failure).         *)
Requeue ==
    LET i == loop.item IN
    /\ loop.step = "requeueing"
    /\ itemQ' = itemQ \union {i}
    /\ activeProc' = [activeProc EXCEPT ![JobOf[i]] = Decrement(@)]
    /\ loop' = LoopIdle
    /\ UNCHANGED <<checkQ, activeChecks>>
    /\ UNCHANGED <<trackerVars, countVars, checkVars, workerVars, cancelVars, runnerVars, userVars>>

(* _requeue_or_fail with a failure: the file is failed, still counted in   *)
(* active_processing.                                                      *)
RequeueFails ==
    /\ loop.step = "requeueing"
    /\ loop' = LoopAt("settling", loop.item)
    /\ UNCHANGED <<trackerVars, queueVars, activeVars, countVars, checkVars, workerVars,
                   cancelVars, runnerVars, userVars>>

(* record_completion on the loop's thread.                                 *)
Settle ==
    LET i == loop.item IN
    /\ loop.step = "settling"
    /\ Record(i)
    /\ loop' = LoopAt(IF IsLast(i) THEN "finishing" ELSE "releasing", i)
    /\ UNCHANGED <<trackerVars, queueVars, activeVars, checkVars, workerVars, cancelVars,
                   runnerVars, userVars>>

Finish ==
    /\ loop.step = "finishing"
    /\ done' = done \union {JobOf[loop.item]}
    /\ loop' = LoopAt("releasing", loop.item)
    /\ UNCHANGED <<attached, cancelled, parkRequested, total>>
    /\ UNCHANGED <<queueVars, activeVars, countVars, checkVars, workerVars, cancelVars,
                   runnerVars, userVars>>

Release ==
    /\ loop.step = "releasing"
    /\ activeProc' = [activeProc EXCEPT ![JobOf[loop.item]] = Decrement(@)]
    /\ loop' = LoopIdle
    /\ UNCHANGED activeChecks
    /\ UNCHANGED <<trackerVars, queueVars, countVars, checkVars, workerVars, cancelVars,
                   runnerVars, userVars>>

SettleUnstarted ==
    LET i == loop.item IN
    /\ loop.step = "settlingUnstarted"
    /\ Record(i)
    /\ loop' = IF IsLast(i) THEN LoopAt("finishingUnstarted", i) ELSE LoopIdle
    /\ UNCHANGED <<trackerVars, queueVars, activeVars, checkVars, workerVars, cancelVars,
                   runnerVars, userVars>>

FinishUnstarted ==
    /\ loop.step = "finishingUnstarted"
    /\ done' = done \union {JobOf[loop.item]}
    /\ loop' = LoopIdle
    /\ UNCHANGED <<attached, cancelled, parkRequested, total>>
    /\ UNCHANGED <<queueVars, activeVars, countVars, checkVars, workerVars, cancelVars,
                   runnerVars, userVars>>

(* _cleanup_done_trackers, a minute after the job was done.                *)
Cleanup(j) ==
    /\ loop = LoopIdle
    /\ j \in attached /\ j \in done
    /\ ~\E w \in Workers : wstate[w] # "idle" /\ JobOf[task[w]] = j
    /\ attached' = attached \ {j}
    /\ UNCHANGED <<done, cancelled, parkRequested, total, loop>>
    /\ UNCHANGED <<queueVars, activeVars, countVars, checkVars, workerVars, cancelVars,
                   runnerVars, userVars>>

-----------------------------------------------------------------------------
(* Cancelling.                                                             *)

(* Broken variant: jobs that are being parked are passed over.             *)
LoopCancelsUnparked(j) ==
    /\ loop = LoopIdle
    /\ j \in attached /\ j \notin done /\ j \notin parkRequested
    /\ IsCancelled(j) /\ j \notin cancelled
    /\ cancelled' = cancelled \union {j}
    /\ cancelStep' = [cancelStep EXCEPT !["loop"][j] = "flagged"]
    /\ loop' = LoopAt("cancelling", NoItem)
    /\ UNCHANGED <<attached, done, parkRequested, total, seen>>
    /\ UNCHANGED <<queueVars, activeVars, countVars, checkVars, workerVars, runnerVars, userVars>>

(* _handle_cancellations.                                                  *)
LoopCancels(j) ==
    /\ loop = LoopIdle
    /\ j \in attached /\ j \notin done
    /\ IsCancelled(j) /\ j \notin cancelled
    /\ cancelled' = cancelled \union {j}
    /\ cancelStep' = [cancelStep EXCEPT !["loop"][j] = "flagged"]
    /\ loop' = LoopAt("cancelling", NoItem)
    /\ UNCHANGED <<attached, done, parkRequested, total, seen>>
    /\ UNCHANGED <<queueVars, activeVars, countVars, checkVars, workerVars, runnerVars, userVars>>

(* JobTracker.cancel under _counts_lock: first the queues are read ...     *)
CancelReads(c, j) ==
    /\ cancelStep[c][j] = "flagged"
    /\ CountsLockFree(j)
    /\ seen' = [seen EXCEPT ![j] = (checkQ \union itemQ) \intersect ItemsOf(j)]
    /\ cancelStep' = [cancelStep EXCEPT ![c][j] = "draining"]
    /\ UNCHANGED loop
    /\ UNCHANGED <<trackerVars, queueVars, activeVars, countVars, checkVars, workerVars,
                   runnerVars, userVars>>

(* ... then cleared, and what was read counts as failed.                   *)
CancelClears(c, j) ==
    /\ cancelStep[c][j] = "draining"
    /\ checkQ' = checkQ \ ItemsOf(j)
    /\ itemQ' = itemQ \ ItemsOf(j)
    /\ completed' = [completed EXCEPT ![j] = @ + Cardinality(seen[j])]
    /\ settled' = settled \union seen[j]
    /\ seen' = [seen EXCEPT ![j] = {}]
    /\ cancelStep' = [cancelStep EXCEPT ![c][j] = "drained"]
    /\ UNCHANGED loop
    /\ UNCHANGED <<trackerVars, activeVars, checkVars, workerVars, runnerVars, userVars>>

CancelDone(c, j) ==
    /\ cancelStep[c][j] = "drained"
    /\ done' = done \union {j}
    /\ cancelStep' = [cancelStep EXCEPT ![c][j] = "none"]
    /\ loop' = IF c = "loop" THEN LoopIdle ELSE loop
    /\ runner' = IF c = "runner" THEN [runner EXCEPT ![j] = "waiting"] ELSE runner
    /\ UNCHANGED <<attached, cancelled, parkRequested, total, seen, snap, saved>>
    /\ UNCHANGED <<queueVars, activeVars, countVars, checkVars, workerVars, userVars>>

-----------------------------------------------------------------------------
(* Users, and the worker groups' hours.                                    *)

(* The cancel route: the job's flag first ...                              *)
RequestCancel(j) ==
    /\ j \in Cancellable
    /\ row[j] = "active"
    /\ flag' = flag \union {j}
    /\ UNCHANGED <<loop, row, paused, open, closes>>
    /\ UNCHANGED <<trackerVars, queueVars, activeVars, countVars, checkVars, workerVars,
                   cancelVars, runnerVars>>

(* ... then manager.cancel_job on a row that is still active.              *)
CancelRow(j) ==
    /\ j \in flag /\ row[j] = "active"
    /\ row' = [row EXCEPT ![j] = "cancelled"]
    /\ UNCHANGED <<loop, flag, paused, open, closes>>
    /\ UNCHANGED <<trackerVars, queueVars, activeVars, countVars, checkVars, workerVars,
                   cancelVars, runnerVars>>

TogglePause(j) ==
    /\ j \in Pausable
    /\ row[j] = "active"
    /\ paused' = IF j \in paused THEN paused \ {j} ELSE paused \union {j}
    /\ UNCHANGED <<loop, row, flag, open, closes>>
    /\ UNCHANGED <<trackerVars, queueVars, activeVars, countVars, checkVars, workerVars,
                   cancelVars, runnerVars>>

Close(j) ==
    /\ j \in open
    /\ closes[j] < MaxCloses[j]
    /\ open' = open \ {j}
    /\ closes' = [closes EXCEPT ![j] = @ + 1]
    /\ UNCHANGED <<loop, row, flag, paused>>
    /\ UNCHANGED <<trackerVars, queueVars, activeVars, countVars, checkVars, workerVars,
                   cancelVars, runnerVars>>

Open(j) ==
    /\ j \notin open
    /\ open' = open \union {j}
    /\ UNCHANGED <<loop, row, flag, paused, closes>>
    /\ UNCHANGED <<trackerVars, queueVars, activeVars, countVars, checkVars, workerVars,
                   cancelVars, runnerVars>>

-----------------------------------------------------------------------------
CheckThread(i) == \/ CheckBegins(i) \/ CheckNeedsWorker(i) \/ CheckAppends(i)
                  \/ CheckDecides(i) \/ CheckRecords(i) \/ CheckFinishes(i)
                  \/ CheckReleases(i) \/ CheckLeaves(i)

LoopItem(i) == PickCheck(i) \/ AssignRaises(i) \/ AssignStrands(i)

LoopStep == \/ StartCheck \/ StartCheckFails \/ SelectJobs \/ AssignNothing
            \/ Requeue \/ RequeueFails \/ Settle \/ Finish \/ Release
            \/ SettleUnstarted \/ FinishUnstarted

WorkerStep(w) == \/ WorkerEnds(w) \/ WorkerGivesBack(w) \/ Reap(w)
                 \/ \E i \in Items : Assign(w, i)

RunnerStep(j) == \/ Submit(j) \/ QueuedCancelled(j) \/ End(j)
                 \/ RequestPark(j) \/ ParkSnapshot(j) \/ ParkCommit(j) \/ ParkRefused(j)
                 \/ ParkUncancelled(j) \/ RunnerCancels(j) \/ Detach(j) \/ DetachRefused(j)

CancelStep(j) == \/ LoopCancels(j)
                 \/ \E c \in CancelActors : CancelReads(c, j) \/ CancelClears(c, j) \/ CancelDone(c, j)

UserStep(j) == RequestCancel(j) \/ CancelRow(j) \/ TogglePause(j) \/ Close(j) \/ Open(j)

Next == \/ LoopStep
        \/ \E i \in Items : CheckThread(i) \/ LoopItem(i)
        \/ \E w \in Workers : WorkerStep(w)
        \/ \E j \in Jobs : RunnerStep(j) \/ CancelStep(j) \/ Cleanup(j) \/ UserStep(j)

Spec == Init /\ [][Next]_vars

(***************************************************************************)
(* Every thread goes on.  One pass of the loop runs all its stages, so a   *)
(* stage that keeps having something to do is not passed over for ever     *)
(* (strong fairness); a thread that could not be started or a checkpoint   *)
(* that could not be stored is retried and succeeds in the end.            *)
(***************************************************************************)
Fairness ==
    /\ WF_vars(LoopStep) /\ SF_vars(StartCheck)
    /\ \A i \in Items : WF_vars(CheckThread(i)) /\ SF_vars(PickCheck(i))
    /\ \A w \in Workers : WF_vars(WorkerEnds(w)) /\ SF_vars(Reap(w))
    /\ SF_vars(\E i \in Items, w \in Workers : Assign(w, i))
    /\ \A j \in Jobs :
        /\ WF_vars(Submit(j) \/ QueuedCancelled(j) \/ End(j))
        /\ WF_vars(RequestPark(j)) /\ SF_vars(ParkSnapshot(j))
        /\ WF_vars(ParkCommit(j) \/ ParkRefused(j)) /\ SF_vars(ParkCommit(j))
        /\ WF_vars(ParkUncancelled(j) \/ RunnerCancels(j) \/ Detach(j) \/ DetachRefused(j))
        /\ SF_vars(LoopCancels(j))
        /\ \A c \in CancelActors :
            WF_vars(CancelReads(c, j) \/ CancelClears(c, j) \/ CancelDone(c, j))
        /\ WF_vars(CancelRow(j))

FairSpec == Spec /\ Fairness

-----------------------------------------------------------------------------
(* Where a file of a job can be.                                           *)

HeldByCheck(i) == check[i] \in {"starting", "run", "checking", "appending", "recording"}
HeldByWorker(i) == \E w \in Workers : task[w] = i
HeldByLoop(i) == /\ loop.item = i
                 /\ loop.step \in {"settling", "requeueing", "settlingUnstarted"}
InQueue(i) == i \in checkQ \/ i \in itemQ
Running(i) == HeldByCheck(i) \/ HeldByWorker(i) \/ HeldByLoop(i)

Places == {"checkQ", "itemQ", "check", "worker", "loop", "settled"}
IsAt(i, p) == \/ p = "checkQ" /\ i \in checkQ
              \/ p = "itemQ" /\ i \in itemQ
              \/ p = "check" /\ HeldByCheck(i)
              \/ p = "worker" /\ HeldByWorker(i)
              \/ p = "loop" /\ HeldByLoop(i)
              \/ p = "settled" /\ i \in settled

(* The jobs whose accounting must be exact: a tracker nobody has asked to  *)
(* cancel (a check thread drops its file as soon as the flag is set).      *)
Live == {j \in attached : ~IsCancelled(j)}

StateRecord == [items : SUBSET Items, completed : Nat]

(* Every variable stays in its type.                                       *)
TypeOK ==
    /\ attached \subseteq Jobs /\ done \subseteq Jobs
    /\ cancelled \subseteq Jobs /\ parkRequested \subseteq Jobs
    /\ checkQ \subseteq Items /\ itemQ \subseteq Items /\ settled \subseteq Items
    /\ activeChecks \in [Jobs -> Nat] /\ activeProc \in [Jobs -> Nat]
    /\ completed \in [Jobs -> Nat] /\ total \in [Jobs -> Nat]
    /\ inFlight \in Nat
    /\ check \in [Items -> CheckSteps]
    /\ task \in [Workers -> Items \union {NoItem}]
    /\ wstate \in [Workers -> {"idle", "busy", "ended", "gaveBack"}]
    /\ giveBacks \in [Items -> Nat]
    /\ loop \in [step : LoopSteps, item : Items \union {NoItem}, cands : SUBSET Jobs]
    /\ cancelStep \in [CancelActors -> [Jobs -> {"none", "flagged", "draining", "drained"}]]
    /\ seen \in [Jobs -> SUBSET Items]
    /\ runner \in [Jobs -> RunnerSteps]
    /\ snap \in [Jobs -> StateRecord] /\ saved \in [Jobs -> StateRecord]
    /\ row \in [Jobs -> {"active", "cancelled", "completed"}]
    /\ flag \subseteq Jobs /\ paused \subseteq Jobs /\ open \subseteq Jobs
    /\ closes \in [Jobs -> Nat]

(***************************************************************************)
(* Every file of a live job is in exactly one place: a queue, a check      *)
(* thread, a worker, the loop's hands, or settled.  Violated, a file is    *)
(* lost (its job waits for ever) or runs and counts twice: the check       *)
(* threads, the loop and the workers all move files under different locks. *)
(***************************************************************************)
OnePlace ==
    \A i \in Items : JobOf[i] \in Live =>
        \E p \in Places : IsAt(i, p) /\ \A q \in Places \ {p} : ~IsAt(i, q)

(***************************************************************************)
(* A job's tally is the number of its settled files, whatever happened to  *)
(* the job, and a live job's total is the number of all its files.         *)
(* record_completion compares these two counters, which a park and a       *)
(* resume recompute from the checkpoint, to decide that the job is done.   *)
(***************************************************************************)
TallyExact ==
    /\ \A j \in Jobs : completed[j] = Cardinality(settled \intersect ItemsOf(j))
    /\ \A j \in Live : total[j] = Cardinality(ItemsOf(j))

(***************************************************************************)
(* A job whose wait returned without a cancel has settled every file, and  *)
(* nothing of it runs or waits anywhere any more.                          *)
(***************************************************************************)
DoneIsComplete ==
    \A j \in done \ cancelled : \A i \in ItemsOf(j) :
        i \in settled /\ ~InQueue(i) /\ ~Running(i)

(***************************************************************************)
(* From the snapshot to the detach, and while the job waits parked, the    *)
(* continuation is exactly what is left of the job: no file that still     *)
(* runs, none already settled, none missing.  The fence is two counters    *)
(* the check threads and the loop drop at different moments.               *)
(***************************************************************************)
ContinuationOf(j, c) ==
    /\ c.items = ItemsOf(j) \ settled
    /\ c.completed = Cardinality(settled \intersect ItemsOf(j))

ParkKeepsRemainder ==
    \A j \in {k \in Jobs : ~IsCancelled(k)} :
        /\ runner[j] \in {"committing", "committed", "detaching"} =>
              /\ ContinuationOf(j, snap[j])
              /\ \A i \in ItemsOf(j) : ~Running(i)
        /\ runner[j] = "queued" /\ row[j] = "active" =>
              /\ ContinuationOf(j, saved[j])
              /\ \A i \in ItemsOf(j) : ~Running(i) /\ ~InQueue(i)

(* detach_parked never raises after the checkpoint was committed: only a   *)
(* cancel can end a drained job between the two.                           *)
DetachNeverRaises == \A j \in Jobs : runner[j] # "broken"

(* The in-flight count is the number of check threads, never over the cap: *)
(* a slot a failed thread start leaks would shrink the pool for good.      *)
CheckSlotsExact ==
    /\ inFlight = Cardinality({i \in Items : check[i] \notin {"none", "left"}})
    /\ inFlight <= MaxChecks

(***************************************************************************)
(* Once its continuation is committed a job settles and starts nothing     *)
(* until it is submitted again: work done then would be done twice.        *)
(***************************************************************************)
NoWorkAfterCommit ==
    [][\A i \in Items :
        LET j == JobOf[i] IN
        runner[j] \in {"committed", "detaching", "queued"} /\ j \notin cancelled
        => /\ i \in settled' => i \in settled
           /\ HeldByWorker(i)' => HeldByWorker(i)]_vars

(***************************************************************************)
(* dispatcher.py: "Guard: never re-queue into a job cancel() already       *)
(* drained."  The guard is read before the append, and nothing orders the  *)
(* two against a cancel.                                                   *)
(***************************************************************************)
NeverRequeuedOnceDrained ==
    [][\A i \in Items :
        check[i] = "appending" /\ check'[i] = "leaving"
        => JobOf[i] \notin done \intersect cancelled]_vars

(* A job's wait ends: it is done, cancelled or parked.                     *)
WaitEnds == \A j \in Jobs : runner[j] = "waiting" ~> runner[j] \in {"queued", "ended"}

(* A cancel ends the job, in whatever state it reaches it, also while its  *)
(* worker groups stay closed.                                              *)
CancelEnds == \A j \in Jobs : j \in flag ~> runner[j] = "ended"

(* When its hours open again, a job runs to its end across any parking.    *)
HoursOpenAgain == \A j \in Jobs : WF_vars(Open(j))
EveryJobEnds == HoursOpenAgain => \A j \in Jobs : <>(runner[j] = "ended")

-----------------------------------------------------------------------------
(* What a job promises (JobAccounting), for this dispatcher.               *)
Accounting == INSTANCE JobAccounting WITH
    tally <- completed,
    asked <- [j \in Jobs |-> j \in flag \/ j \in cancelled \/ row[j] = "cancelled"]

ImplementsAccounting == Accounting!Spec
=============================================================================
