------------------------------ MODULE Parking ------------------------------
(***************************************************************************)
(* One job's durable hand-off when its hours close: checkpoint file, row,  *)
(* tracker and the runner's passes, with the process stopping at any step. *)
(* The dispatcher's threads are abstracted to their promise, which module  *)
(* Dispatcher checks: park_snapshot answers exactly the unfinished files.  *)
(***************************************************************************)
EXTENDS Integers, FiniteSets

CONSTANTS
  Files,        \* the job's files
  Runner,       \* whose passes: "previews", "markers" or "loudness"
  MaxParks,     \* bound: checkpoints written
  MaxStops      \* bound: stops of the process

ASSUME FilesAssumption == IsFiniteSet(Files) /\ Files # {}
ASSUME RunnerAssumption == Runner \in {"previews", "markers", "loudness"}
ASSUME BoundsAssumption == MaxParks \in Nat /\ MaxStops \in Nat

References == 1..MaxParks
NoFile == 0

VARIABLES
  mem,       \* the manager's row: status and parked_checkpoint (0: none)
  db,        \* the stored row
  disk,      \* the checkpoint files: reference -> its items, {} where there is none
  trash,     \* references of ended rows, about to be unlinked
  flag,      \* the cancellation flag
  cancelling,\* the cancel route has set the flag and not yet cancelled the row
  open,      \* the job's hours
  done,      \* files that are finished in fact
  left,      \* the tracker's unfinished files
  fence,     \* park_requested: "down", "up" while files in flight end, "drained" once none is, and none is picked
  tracker,   \* "none", "attached" or "cancelled"
  pc,        \* the runner
  passRef,   \* the reference this pass started from
  newRef,    \* the reference being committed
  parked,    \* the pass ended by parking
  written,   \* references used so far
  stops      \* stops of the process so far

vars == <<mem, db, disk, trash, flag, cancelling, open, done, left, fence, tracker, pc, passRef, newRef, parked,
          written, stops>>
rows == <<mem, db, trash>>
pass == <<passRef, newRef, parked, written>>
work == <<done, left, fence>>

Statuses == {"PENDING", "RUNNING", "COMPLETED", "FAILED", "CANCELLED", "INTERRUPTED"}
Ended(status) == status \in {"COMPLETED", "FAILED", "CANCELLED"}
Live(status) == status \in {"PENDING", "RUNNING"}

TypeOK ==
  /\ mem \in [status : Statuses, ref : References \cup {NoFile}]
  /\ db \in [status : Statuses, ref : References \cup {NoFile}]
  /\ disk \in [References -> SUBSET Files] /\ trash \subseteq References
  /\ flag \in BOOLEAN /\ cancelling \in BOOLEAN /\ open \in BOOLEAN /\ parked \in BOOLEAN
  /\ done \subseteq Files /\ left \subseteq Files
  /\ fence \in {"down", "up", "drained"} /\ tracker \in {"none", "attached", "cancelled"}
  /\ pc \in {"stopped", "loaded", "start", "gate", "running", "snapshot", "written", "committed", "detached",
             "teardown", "next", "ended"}
  /\ passRef \in References \cup {NoFile} /\ newRef \in References \cup {NoFile}
  /\ written \in 0..MaxParks /\ stops \in 0..MaxStops
  /\ tracker # "none" => pc \in {"running", "snapshot", "written", "committed"}

Init ==
  /\ mem = [status |-> "PENDING", ref |-> NoFile] /\ db = mem
  /\ disk = [r \in References |-> {}] /\ trash = {}
  /\ flag = FALSE /\ cancelling = FALSE /\ open = TRUE
  /\ done = {} /\ left = {} /\ fence = "down" /\ tracker = "none"
  /\ pc = "start" /\ passRef = NoFile /\ newRef = NoFile /\ parked = FALSE /\ written = 0 /\ stops = 0

-----------------------------------------------------------------------------
\* _persist_job: an ended row drops its continuation, whose file goes after the row is stored. A row that a restart
\* interrupted keeps it.
Settle(status) ==
  /\ mem' = [status |-> status, ref |-> NoFile]
  /\ db' = mem'
  /\ trash' = IF mem.ref = NoFile THEN trash ELSE trash \cup {mem.ref}

Unlink(r) ==
  /\ r \in trash
  /\ trash' = trash \ {r}
  /\ disk' = [disk EXCEPT ![r] = {}]
  /\ UNCHANGED <<mem, db, flag, cancelling, open, work, tracker, pc, pass, stops>>

\* cancel_job, complete_job: a row that has ended stays as it is.
SettleLive(status) == IF Live(mem.status) THEN Settle(status) ELSE UNCHANGED rows

-----------------------------------------------------------------------------
\* A pass of the runner: run_job_once, _run_intro_credits_pass, _run_loudness_pass.

StartPass ==
  /\ pc = "start"
  /\ pc' = IF Runner = "loudness" /\ mem.status = "CANCELLED" THEN "ended" ELSE "gate"
  /\ passRef' = mem.ref
  /\ parked' = FALSE
  /\ UNCHANGED <<rows, disk, flag, cancelling, open, work, tracker, newRef, written, stops>>

\* A requested cancel ends the pass: one that waits for a slot cancels the row, one that waits for capacity leaves
\* that to the cancel route.
LeaveGate ==
  /\ pc = "gate" /\ flag
  /\ SettleLive("CANCELLED") \/ UNCHANGED rows
  /\ pc' = "teardown"
  /\ UNCHANGED <<disk, flag, cancelling, open, work, tracker, pass, stops>>

\* Broken variant: the continuation is removed as soon as it has been read.
ResumeConsuming ==
  /\ pc = "gate" /\ open /\ ~flag /\ Live(mem.status)
  /\ mem' = [mem EXCEPT !.status = "RUNNING"] /\ db' = mem'
  /\ left' = IF passRef = NoFile THEN Files ELSE disk[passRef]
  /\ trash' = IF passRef = NoFile THEN trash ELSE trash \cup {passRef}
  /\ tracker' = "attached"
  /\ pc' = "running"
  /\ UNCHANGED <<disk, flag, cancelling, open, done, fence, pass, stops>>

\* The gate lets a live job in (JobGate, Policy); the pass resumes the continuation it read, or lists every file.
Resume ==
  /\ pc = "gate" /\ open /\ ~flag /\ Live(mem.status)
  /\ mem' = [mem EXCEPT !.status = "RUNNING"] /\ db' = mem'
  /\ left' = IF passRef = NoFile THEN Files ELSE disk[passRef]
  /\ tracker' = "attached"
  /\ pc' = "running"
  /\ UNCHANGED <<trash, disk, flag, cancelling, open, done, fence, pass, stops>>

\* A file that was picked ends; behind the fence nothing more is picked.
FinishFile(f) ==
  /\ pc = "running" /\ tracker = "attached" /\ f \in left /\ fence # "drained"
  /\ done' = done \cup {f}
  /\ left' = left \ {f}
  /\ UNCHANGED <<rows, disk, flag, cancelling, open, fence, tracker, pc, pass, stops>>

\* The dispatch loop cancels the tracker of a job whose flag is set.
LoopCancels ==
  /\ flag /\ tracker = "attached"
  /\ tracker' = "cancelled"
  /\ UNCHANGED <<rows, disk, flag, cancelling, open, work, pc, pass, stops>>

\* wait_for_tracker returns: all files finished, or the tracker cancelled.
EndWait ==
  /\ pc = "running" /\ (left = {} \/ tracker = "cancelled")
  /\ SettleLive(IF tracker = "cancelled" \/ flag THEN "CANCELLED" ELSE "COMPLETED")
  /\ tracker' = "none" /\ fence' = "down"
  /\ pc' = "teardown"
  /\ UNCHANGED <<disk, flag, cancelling, open, done, left, pass, stops>>

-----------------------------------------------------------------------------
\* park_if_unavailable.

\* request_park: the hours are closed. Nothing lowers the fence but the end of the tracker.
RaiseFence ==
  /\ pc = "running" /\ ~open /\ tracker = "attached" /\ left # {} /\ fence = "down"
  /\ written < MaxParks
  /\ fence' = "up"
  /\ UNCHANGED <<rows, disk, flag, cancelling, open, done, left, tracker, pc, pass, stops>>

\* Broken variant: the park is given up when the hours open, and the fence left as it is.
TakeSnapshotWhileClosed ==
  /\ pc = "running" /\ ~open /\ tracker = "attached" /\ left # {} /\ fence # "down" /\ ~flag
  /\ written < MaxParks
  /\ fence' = "drained"
  /\ IF mem.status = "CANCELLED" THEN tracker' = "cancelled" /\ pc' = pc
                                 ELSE tracker' = tracker /\ pc' = "snapshot"
  /\ UNCHANGED <<rows, disk, flag, cancelling, open, done, left, pass, stops>>

\* park_snapshot, tried again and again whatever the hours are now: the drain is over and nobody has cancelled so far.
TakeSnapshot ==
  /\ pc = "running" /\ tracker = "attached" /\ left # {} /\ fence # "down" /\ ~flag
  /\ written < MaxParks
  /\ fence' = "drained"
  /\ IF mem.status = "CANCELLED" THEN tracker' = "cancelled" /\ pc' = pc
                                 ELSE tracker' = tracker /\ pc' = "snapshot"
  /\ UNCHANGED <<rows, disk, flag, cancelling, open, done, left, pass, stops>>

\* write_checkpoint: a new, unique reference, on disk before anything refers to it.
WriteCheckpoint ==
  /\ pc = "snapshot"
  /\ newRef' = written + 1
  /\ written' = written + 1
  /\ disk' = [disk EXCEPT ![written + 1] = left]
  /\ pc' = "written"
  /\ UNCHANGED <<rows, flag, cancelling, open, work, tracker, passRef, parked, stops>>

\* The write fails: the tracker keeps its work, and its fence.
WriteFails ==
  /\ pc = "snapshot"
  /\ pc' = "running"
  /\ UNCHANGED <<rows, disk, flag, cancelling, open, work, tracker, pass, stops>>

\* Broken variant: the row is parked whatever became of it meanwhile.
ParkJobAnyway ==
  /\ pc = "written"
  /\ mem' = [status |-> "PENDING", ref |-> newRef] /\ db' = mem'
  /\ pc' = "committed"
  /\ UNCHANGED <<trash, disk, flag, cancelling, open, work, tracker, pass, stops>>

\* park_job: row and reference are committed together.
ParkJob ==
  /\ pc = "written" /\ Live(mem.status)
  /\ mem' = [status |-> "PENDING", ref |-> newRef] /\ db' = mem'
  /\ pc' = "committed"
  /\ UNCHANGED <<trash, disk, flag, cancelling, open, work, tracker, pass, stops>>

\* The row has ended (park_job refuses), or cannot be stored: the new checkpoint goes. The bound leaves a reference for
\* the next try.
ParkFails ==
  /\ pc = "written" /\ (~Live(mem.status) \/ written < MaxParks)
  /\ disk' = [disk EXCEPT ![newRef] = {}]
  /\ pc' = "running"
  /\ UNCHANGED <<rows, flag, cancelling, open, work, tracker, pass, stops>>

\* A cancel requested since the commit wins: row and tracker are cancelled.
CancelAfterCommit ==
  /\ pc = "committed" /\ flag
  /\ SettleLive("CANCELLED")
  /\ tracker' = "cancelled"
  /\ pc' = "running"
  /\ UNCHANGED <<disk, flag, cancelling, open, work, pass, stops>>

\* detach_parked; a tracker the loop has cancelled is not detached.
Detach ==
  /\ pc = "committed" /\ ~flag
  /\ IF tracker = "attached" THEN tracker' = "none" /\ fence' = "down" /\ pc' = "detached"
                             ELSE UNCHANGED <<tracker, fence>> /\ pc' = "running"
  /\ UNCHANGED <<rows, disk, flag, cancelling, open, done, left, pass, stops>>

\* The continuation this one replaces goes last; JobParked ends the pass.
DropPrevious ==
  /\ pc = "detached"
  /\ disk' = IF passRef \notin {NoFile, newRef} THEN [disk EXCEPT ![passRef] = {}] ELSE disk
  /\ parked' = TRUE
  /\ pc' = "teardown"
  /\ UNCHANGED <<rows, flag, cancelling, open, work, tracker, passRef, newRef, written, stops>>

-----------------------------------------------------------------------------
\* The end of a pass.

\* Broken variant: every runner clears the flag, whatever the row says.
TearDownClearing ==
  /\ pc = "teardown"
  /\ flag' = FALSE
  /\ pc' = "next"
  /\ UNCHANGED <<rows, disk, cancelling, open, work, tracker, pass, stops>>

\* The preview runner clears the flag of an ended row only; the other two always do.
TearDown ==
  /\ pc = "teardown"
  /\ flag' = (flag /\ Runner = "previews" /\ ~Ended(mem.status))
  /\ pc' = "next"
  /\ UNCHANGED <<rows, disk, cancelling, open, work, tracker, pass, stops>>

\* The loop around the passes: a parked job runs again; the preview runner looks at the row first.
NextPass ==
  /\ pc = "next"
  /\ pc' = IF parked /\ (Runner = "previews" => mem.status = "PENDING") THEN "start" ELSE "ended"
  /\ UNCHANGED <<rows, disk, flag, cancelling, open, work, tracker, pass, stops>>

-----------------------------------------------------------------------------
\* Users, hours and the process.

\* The cancel route: first the flag ...
RequestCancel ==
  /\ pc \notin {"stopped", "loaded"} /\ Live(mem.status) /\ ~flag
  /\ flag' = TRUE /\ cancelling' = TRUE
  /\ UNCHANGED <<rows, disk, open, work, tracker, pc, pass, stops>>

\* ... then, after a log line, the row.
CancelRow ==
  /\ cancelling
  /\ cancelling' = FALSE
  /\ SettleLive("CANCELLED")
  /\ UNCHANGED <<disk, flag, open, work, tracker, pc, pass, stops>>

SetHours ==
  /\ open' = ~open
  /\ UNCHANGED <<rows, disk, flag, cancelling, work, tracker, pc, pass, stops>>

\* The process stops: what was in memory is gone, an unlink under way too.
Stop ==
  /\ pc # "stopped" /\ stops < MaxStops
  /\ stops' = stops + 1
  /\ pc' = "stopped" /\ tracker' = "none" /\ left' = {} /\ fence' = "down"
  /\ flag' = FALSE /\ cancelling' = FALSE /\ trash' = {}
  /\ passRef' = NoFile /\ newRef' = NoFile /\ parked' = FALSE
  /\ UNCHANGED <<mem, db, disk, open, done, written>>

\* _load_jobs: a row that was RUNNING is stored as failed and kept for the revival.
Load ==
  /\ pc = "stopped"
  /\ db' = IF db.status = "RUNNING" THEN [db EXCEPT !.status = "INTERRUPTED"] ELSE db
  /\ mem' = db'
  /\ pc' = IF Live(db.status) THEN "loaded" ELSE "ended"
  /\ UNCHANGED <<trash, disk, flag, cancelling, open, work, tracker, pass, stops>>

\* restore_capacity_waits, requeue_interrupted_jobs: the row is PENDING again and its runner starts.
Revive ==
  /\ pc = "loaded"
  /\ mem' = [mem EXCEPT !.status = "PENDING"] /\ db' = mem'
  /\ pc' = "start"
  /\ UNCHANGED <<trash, disk, flag, cancelling, open, work, tracker, pass, stops>>

PassStep ==
  \/ StartPass \/ LeaveGate \/ Resume \/ EndWait \/ LoopCancels \/ TearDown \/ NextPass
  \/ TakeSnapshot \/ WriteCheckpoint \/ ParkJob \/ CancelAfterCommit \/ Detach \/ ParkFails \/ DropPrevious
  \/ CancelRow \/ Load \/ Revive

Next ==
  \/ PassStep \/ (\E f \in Files : FinishFile(f)) \/ RaiseFence \/ WriteFails
  \/ (\E r \in References : Unlink(r)) \/ RequestCancel \/ SetHours \/ Stop

Spec == Init /\ [][Next]_vars

\* Threads go on, files are picked and end while the fence is down, and the process starts again; nobody has to cancel
\* and hours need not open.
ThreadSpec == Spec /\ WF_vars(PassStep) /\ \A f \in Files : WF_vars(fence = "down" /\ FinishFile(f))

\* And a checkpoint that is written again and again is written in the end.
FairSpec == ThreadSpec /\ SF_vars(WriteCheckpoint)

-----------------------------------------------------------------------------
\* The row's continuation, as a stop would find it, is on disk and holds every file that is not finished: no stop
\* between the checkpoint, the row and the removal of the old checkpoint loses work.
ContinuationCovers == ~Ended(db.status) /\ db.ref # NoFile => Files \ done \subseteq disk[db.ref] /\ disk[db.ref] # {}

\* A job whose cancel or completion is stored never comes back to life, not even after a restart.
EndedStaysEnded == [][Ended(db.status) => db'.status = db.status]_db

\* A cancel is authoritative and never becomes a parked job (parking.py): its runner ends.
CancelEndsRunner == mem.status = "CANCELLED" ~> pc \in {"stopped", "ended"}

\* Once its hours stay open, a job ends, across parks, failed and refused parks, behind whose fence nothing is picked
\* any more, and a stop of the process at any step.
EndsOnceOpen == <>[]open => <>Ended(db.status)

\* A restart puts a job it interrupted back in the queue (auto_requeue_on_restart): once the process is up, no row
\* is left as interrupted.
InterruptedIsRequeued == pc = "ended" => db.status # "INTERRUPTED"
=============================================================================
