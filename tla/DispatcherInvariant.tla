------------------------ MODULE DispatcherInvariant ------------------------
(***************************************************************************)
(* The inductive invariant of Dispatcher.  Its first layer (SlotInv) is    *)
(* about the checking stage and is inductive on its own; the second        *)
(* (PlaceInv) says where files are, what the two fence counters count, and *)
(* what a park, a cancel and an end rely on.                               *)
(***************************************************************************)
EXTENDS Dispatcher

(* The files of a job with a check thread, until active_checks is dropped. *)
ChecksOf(j) == {i \in ItemsOf(j) : check[i] # "none"}

(* The files of a job that active_processing must count.                   *)
InProcess(i) == \/ HeldByWorker(i)
                \/ /\ loop.item = i
                   /\ loop.step \in {"settling", "requeueing", "finishing", "releasing"}
ProcessOf(j) == {i \in ItemsOf(j) : InProcess(i)}

(* A parking runner between its snapshot and its detach.                   *)
Parking(j) == runner[j] \in {"committing", "committed", "detaching"}

-----------------------------------------------------------------------------
WorkersHold == \A w \in Workers : wstate[w] = "idle" <=> task[w] = NoItem

LoopHolds ==
    /\ loop.step \notin {"idle", "selecting", "cancelling"} => loop.item \in Items
    /\ loop.step = "starting" => check[loop.item] = "starting"

UncheckedWait == \A i \in checkQ : check[i] = "none"

QueuedUnchecked ==
    \A j \in Jobs : runner[j] = "queued" =>
        j \notin attached /\ \A i \in ItemsOf(j) : check[i] = "none"

CheckpointsOwn ==
    \A j \in Jobs : saved[j].items \subseteq ItemsOf(j) /\ snap[j].items \subseteq ItemsOf(j)

ChecksCounted == \A j \in Jobs : activeChecks[j] = Cardinality(ChecksOf(j))

SlotInv ==
    /\ TypeOK /\ WorkersHold /\ LoopHolds /\ UncheckedWait
    /\ QueuedUnchecked /\ CheckpointsOwn /\ ChecksCounted /\ CheckSlotsExact

-----------------------------------------------------------------------------
(* Which places exclude each other.                                        *)
QueueExcludes ==
    \A i \in Items :
        /\ i \in checkQ => i \notin itemQ
        /\ InQueue(i) => ~Running(i) /\ i \notin settled

RunExcludes ==
    \A i \in Items :
        /\ HeldByCheck(i) => ~HeldByWorker(i) /\ ~HeldByLoop(i)
        /\ HeldByWorker(i) => ~HeldByLoop(i)
        /\ Running(i) => i \notin settled

OneWorker == \A v, w \in Workers : task[v] = task[w] /\ task[v] # NoItem => v = w

SeenExcludes ==
    \A j \in Jobs :
        /\ seen[j] # {} => j \in cancelled /\ ~CountsLockFree(j)
        /\ \A i \in seen[j] : JobOf[i] = j /\ ~Running(i) /\ i \notin settled

(* Nothing of a live job is lost.                                          *)
NothingLost ==
    \A i \in Items : JobOf[i] \in Live => InQueue(i) \/ Running(i) \/ i \in settled

(* Whoever goes to set done_event has settled the job's last file.         *)
FinishersDone ==
    /\ \A i \in Items : check[i] = "finishing" => ItemsOf(JobOf[i]) \subseteq settled
    /\ loop.step \in {"finishing", "finishingUnstarted"} => ItemsOf(JobOf[loop.item]) \subseteq settled
    /\ loop.step = "releasing" => loop.item \in settled
    /\ \A j \in done \ cancelled : ItemsOf(j) \subseteq settled

Tallies ==
    \A j \in Jobs :
        /\ completed[j] = Cardinality(settled \intersect ItemsOf(j))
        /\ total[j] = Cardinality(ItemsOf(j))

ProcessCounted == \A j \in Jobs : activeProc[j] >= Cardinality(ProcessOf(j))

(* The drained fence holds from the snapshot on, cancelled or not.         *)
Fence ==
    \A j \in Jobs : Parking(j) =>
        /\ j \in parkRequested
        /\ activeChecks[j] = 0 /\ activeProc[j] = 0
        /\ loop.step \in {"settlingUnstarted", "finishingUnstarted"} => JobOf[loop.item] # j

(* What is left of a job, with the tally it has reached.                   *)
RemainderOf(j, c) == c.items = ItemsOf(j) \ settled /\ c.completed = completed[j]

ParkingKept ==
    \A j \in Jobs : Parking(j) /\ j \notin flag =>
        j \in attached /\ j \notin done /\ RemainderOf(j, snap[j])

CommittedSaved ==
    \A j \in Jobs : runner[j] \in {"committed", "detaching"} => saved[j] = snap[j]

QueuedEmpty ==
    \A j \in Jobs : runner[j] = "queued" =>
        \A i \in ItemsOf(j) : ~InQueue(i) /\ ~Running(i) /\ ~InProcess(i)

QueuedKept ==
    \A j \in Jobs : runner[j] = "queued" /\ j \notin flag => RemainderOf(j, saved[j])

Cancelling ==
    /\ \A j \in Jobs :
        /\ \A c \in CancelActors : cancelStep[c][j] # "none" => j \in cancelled
        /\ cancelStep["runner"][j] # "none" => runner[j] = "cancelling"
        /\ cancelStep["loop"][j] # "none" => loop.step = "cancelling"
        /\ j \in cancelled => j \in flag \/ runner[j] = "ended"
        /\ runner[j] = "ended" => row[j] # "active" /\ j \notin flag
        /\ runner[j] # "broken"
    /\ \A j, k \in Jobs : cancelStep["loop"][j] # "none" /\ cancelStep["loop"][k] # "none" => j = k

PlaceInv ==
    /\ QueueExcludes /\ RunExcludes /\ OneWorker /\ SeenExcludes /\ NothingLost
    /\ FinishersDone /\ Tallies /\ ProcessCounted /\ Fence
    /\ ParkingKept /\ CommittedSaved /\ QueuedEmpty /\ QueuedKept /\ Cancelling

IInv == SlotInv /\ PlaceInv
=============================================================================
