------------------------------ MODULE JobGate ------------------------------
(***************************************************************************)
(* The start-up gate (web/job_gate.py) with its runners: how a job gets    *)
(* its place in line, when it is let in, and how the policies the gate     *)
(* asks outside its lock meet the operator's calls.                        *)
(*                                                                         *)
(* Every job is of one kind; a job is a number, its order of creation.     *)
(* Callers without a registered request (embedded callers) are left out.   *)
(***************************************************************************)
EXTENDS Integers, FiniteSets, FiniteSetsExt

CONSTANTS
  Jobs,            \* the jobs, numbered in order of creation
  Priorities,      \* dispatch priorities, the smallest first
  StartupSlots,    \* STARTUP_SLOTS (3 in the code)
  MaxOperations    \* bound: operator steps and failures in a behaviour

ASSUME JobsAssumption == Jobs \subseteq Nat \ {0} /\ IsFiniteSet(Jobs)
ASSUME PrioritiesAssumption == Priorities \subseteq Nat \ {0} /\ Priorities # {}
ASSUME SlotsAssumption == StartupSlots \in Nat \ {0} /\ MaxOperations \in Nat

NoRequest == [claimed |-> FALSE, prio |-> 0, ready |-> FALSE, complete |-> FALSE, waiting |-> FALSE]
NotAsked == [prio |-> 0, ready |-> FALSE, gone |-> FALSE]

VARIABLES
  row,         \* the job manager's side: status, priority, a pause of its own, a cancel, whether its deadline has
               \* passed and whether it is a batch of webhooks whose timer is not over
  open,        \* some worker of the kind is open now
  paused,      \* processing_paused: everything is held
  call,        \* priority calls the manager has taken and the gate not yet (0: none)
  start,       \* a _start_job_async call on its way: from a batch of jobs, prepared before any is started, or alone
  orphaned,    \* history, read by properties only: jobs with a request whose start was skipped for a thread that ends
  request,     \* _requests
  line,        \* _heap: a job's priority in line, 0 when it is not in it
  active,      \* _active
  kindOpen,    \* _kind_limits: what the last refresh read of the kind's capacity
  moved,       \* _policy_epoch is past _refreshed_epoch
  due,         \* _refresh_at has passed
  refresher,   \* the job whose runner holds _refresh_lock, 0 when none does
  limit,       \* the capacity the refresh under way has read
  snapshot,    \* the requests of the refresh under way, still the gate's own
  answer,      \* the policies it has asked
  touched,     \* requests whose revision moved since the snapshot
  pc,          \* where the job's runner is
  slot,        \* the runner's record of holding a slot
  operations   \* operator steps and failures taken

vars == <<row, open, paused, call, start, orphaned, request, line, active, kindOpen, moved, due, refresher, limit,
          snapshot, answer, touched, pc, slot, operations>>
asking == <<refresher, limit, snapshot, answer>>
starts == <<start, orphaned>>
manager == <<row, open, paused, call, starts>>

RunnerStates == {"idle", "claimed", "preflight", "capacity", "poll", "refresh", "test", "admitted", "running",
                 "leaving", "exiting"}
StartCalls == {"no", "batch", "alone"}

TypeOK ==
  /\ row \in [Jobs -> [status : {"PENDING", "RUNNING", "COMPLETED", "CANCELLED"}, prio : Priorities,
                       held : BOOLEAN, cancel : BOOLEAN, passed : BOOLEAN, batched : BOOLEAN]]
  /\ paused \in BOOLEAN /\ start \in [Jobs -> StartCalls] /\ orphaned \in SUBSET Jobs
  /\ open \in BOOLEAN /\ kindOpen \in BOOLEAN /\ limit \in BOOLEAN /\ moved \in BOOLEAN /\ due \in BOOLEAN
  /\ call \in [Jobs -> Priorities \cup {0}] /\ line \in [Jobs -> Priorities \cup {0}]
  /\ request \in [Jobs -> {NoRequest} \cup [claimed : BOOLEAN, prio : Priorities, ready : BOOLEAN,
                                            complete : BOOLEAN, waiting : BOOLEAN]]
  /\ answer \in [Jobs -> {NotAsked} \cup [prio : Priorities, ready : BOOLEAN, gone : BOOLEAN]]
  /\ active \in 0..StartupSlots /\ refresher \in Jobs \cup {0}
  /\ snapshot \in SUBSET Jobs /\ touched \in SUBSET Jobs
  /\ pc \in [Jobs -> RunnerStates] /\ slot \in [Jobs -> BOOLEAN]
  /\ operations \in 0..MaxOperations

Pending(j) == row[j].status = "PENDING"
Live(j) == row[j].status \in {"PENDING", "RUNNING"}
Waiting(j) == pc[j] \in {"poll", "refresh", "test"}
Registered(j) == request[j] # NoRequest

Init ==
  /\ row \in [Jobs -> [status : {"PENDING"}, prio : Priorities, held : {FALSE}, cancel : {FALSE}, passed : BOOLEAN,
                      batched : BOOLEAN]]
  /\ paused = FALSE /\ start = [j \in Jobs |-> "batch"] /\ orphaned = {}
  /\ open = TRUE /\ kindOpen = FALSE /\ limit = FALSE /\ moved = TRUE /\ due = TRUE
  /\ call = [j \in Jobs |-> 0] /\ line = [j \in Jobs |-> 0]
  /\ request = [j \in Jobs |-> NoRequest] /\ answer = [j \in Jobs |-> NotAsked]
  /\ active = 0 /\ refresher = 0 /\ snapshot = {} /\ touched = {}
  /\ pc = [j \in Jobs |-> "idle"] /\ slot = [j \in Jobs |-> FALSE]
  /\ operations = 0

-----------------------------------------------------------------------------
\* The gate's own pieces.

\* _policy: what the manager and the settings say of a job when the gate asks.
Policy(j) ==
  [gone |-> ~Live(j),
   prio |-> IF Live(j) THEN row[j].prio ELSE request[j].prio,
   ready |-> /\ Live(j) /\ ~row[j].held /\ ~row[j].cancel /\ ~paused
             /\ request[j].complete \/ row[j].passed]

Eligible == {j \in Jobs : line[j] # 0 /\ (Registered(j) => request[j].ready) /\ kindOpen}

Ahead(j, k) == line[j] < line[k] \/ (line[j] = line[k] /\ j <= k)

\* _next_eligible: the head of the line is j.
IsNext(j) == active < StartupSlots /\ j \in Eligible /\ \A k \in Eligible : Ahead(j, k)

\* register_request, when the gate has no request of the job yet.
Registration(j) ==
  /\ request' = [request EXCEPT ![j] = [NoRequest EXCEPT !.prio = row[j].prio]]
  /\ line' = [line EXCEPT ![j] = row[j].prio]
  /\ moved' = TRUE

\* Broken variant: the slot is given back whether or not the runner still holds it.
ReleaseSlotAgain(j) ==
  /\ active' = IF active > 0 THEN active - 1 ELSE 0
  /\ slot' = [slot EXCEPT ![j] = FALSE]

\* release_slot: a slot the runner no longer holds is left alone.
ReleaseSlot(j) ==
  /\ active' = IF slot[j] /\ active > 0 THEN active - 1 ELSE active
  /\ slot' = [slot EXCEPT ![j] = FALSE]

\* finish_request of the request as it stands, which leaves a refresh under way nothing to apply it to.
Unregister(j) ==
  /\ request' = [request EXCEPT ![j] = NoRequest]
  /\ line' = [line EXCEPT ![j] = 0]
  /\ snapshot' = snapshot \ {j}
  /\ answer' = [answer EXCEPT ![j] = NotAsked]
  /\ moved' = TRUE

-----------------------------------------------------------------------------
\* The runner of a job.

\* prepare_admissions of a recovered batch or a drain: the place in line before any runner starts, also while the
\* job's last thread has yet to leave _inflight_jobs.
Prepare(j) ==
  /\ start[j] = "batch" /\ pc[j] \in {"idle", "exiting"} /\ Live(j) /\ ~Registered(j)
  /\ Registration(j)
  /\ UNCHANGED <<manager, active, kindOpen, due, asking, touched, pc, slot, operations>>

\* A start that comes to nothing: the drain passes over a held job, the batch's timer will start the job, or the job
\* has ended.
DeclineStart(j) ==
  /\ start[j] # "no"
  /\ (start[j] = "batch" /\ row[j].held) \/ row[j].batched \/ ~Live(j)
  /\ start' = [start EXCEPT ![j] = "no"]
  /\ UNCHANGED <<row, open, paused, call, orphaned, request, line, active, kindOpen, moved, due, asking, touched, pc,
                 slot, operations>>

\* A start that finds the job in _inflight_jobs: a request made since the thread gave up its own gets no runner.
SkipDuplicate(j) ==
  /\ start[j] # "no" /\ pc[j] # "idle"
  /\ start' = [start EXCEPT ![j] = "no"]
  /\ orphaned' = IF pc[j] = "exiting" /\ Registered(j) THEN orphaned \cup {j} ELSE orphaned
  /\ UNCHANGED <<row, open, paused, call, request, line, active, kindOpen, moved, due, asking, touched, pc, slot,
                 operations>>

\* Broken variant: the failed start leaves its request in line.
StartFailsInLine(j) ==
  /\ start[j] # "no" /\ pc[j] = "idle" /\ ~row[j].batched /\ operations < MaxOperations
  /\ operations' = operations + 1
  /\ start' = [start EXCEPT ![j] = "no"]
  /\ UNCHANGED <<row, open, paused, call, orphaned, request, line, moved, active, kindOpen, due, asking, touched, pc,
                 slot>>

\* A start that raises before its thread runs takes its unowned request back.
StartFails(j) ==
  /\ start[j] # "no" /\ pc[j] = "idle" /\ ~row[j].batched /\ operations < MaxOperations
  /\ operations' = operations + 1
  /\ Unregister(j)
  /\ start' = [start EXCEPT ![j] = "no"] /\ orphaned' = orphaned \ {j}
  /\ UNCHANGED <<row, open, paused, call, active, kindOpen, due, refresher, limit, touched, pc, slot>>

\* claim_admission by the runner that won the in-flight claim.
Claim(j) ==
  /\ start[j] # "no" /\ pc[j] = "idle" /\ Live(j) /\ ~row[j].batched
  /\ request' = [request EXCEPT ![j] =
       [IF Registered(j) THEN @ ELSE [NoRequest EXCEPT !.prio = row[j].prio] EXCEPT !.claimed = TRUE]]
  /\ line' = [line EXCEPT ![j] = IF Registered(j) THEN @ ELSE row[j].prio]
  /\ moved' = (moved \/ ~Registered(j))
  /\ start' = [start EXCEPT ![j] = "no"] /\ orphaned' = orphaned \ {j}
  /\ pc' = [pc EXCEPT ![j] = "claimed"]
  /\ UNCHANGED <<row, open, paused, call, active, kindOpen, due, asking, touched, slot, operations>>

\* The thread finds processing paused: the job stays pending and the thread ends.
PauseExit(j) ==
  /\ pc[j] = "claimed" /\ paused
  /\ pc' = [pc EXCEPT ![j] = "leaving"]
  /\ UNCHANGED <<manager, request, line, active, kindOpen, moved, due, asking, touched, slot, operations>>

\* The run begins: a retry whose deadline is ahead waits it out first (defer_preflight).
BeginPreflight(j) ==
  /\ pc[j] = "claimed" /\ ~paused /\ ~row[j].passed
  /\ request' = [request EXCEPT ![j].waiting = TRUE, ![j].ready = FALSE]
  /\ touched' = touched \cup {j}
  /\ moved' = TRUE
  /\ pc' = [pc EXCEPT ![j] = "preflight"]
  /\ UNCHANGED <<manager, line, active, kindOpen, due, asking, slot, operations>>

SkipPreflight(j) ==
  /\ pc[j] = "claimed" /\ ~paused /\ row[j].passed
  /\ pc' = [pc EXCEPT ![j] = "capacity"]
  /\ UNCHANGED <<manager, request, line, active, kindOpen, moved, due, asking, touched, slot, operations>>

\* The retry's wait is over. The runner may extend it locally, so a passed deadline does not yet end it.
EndPreflight(j) ==
  /\ pc[j] = "preflight" /\ row[j].passed /\ ~row[j].cancel /\ ~paused
  /\ pc' = [pc EXCEPT ![j] = "capacity"]
  /\ UNCHANGED <<manager, request, line, active, kindOpen, moved, due, asking, touched, slot, operations>>

\* wait_for_capacity has returned, admission_options completes the preflight and acquire joins the line.
EnterGate(j) ==
  /\ pc[j] = "capacity" /\ open /\ ~row[j].held /\ ~paused /\ ~row[j].cancel
  /\ request' = [request EXCEPT ![j].complete = TRUE, ![j].waiting = FALSE]
  /\ line' = [line EXCEPT ![j] = IF @ = 0 THEN row[j].prio ELSE @]
  /\ moved' = TRUE
  /\ touched' = touched \cup {j}
  /\ pc' = [pc EXCEPT ![j] = "poll"]
  /\ UNCHANGED <<manager, active, kindOpen, due, asking, slot, operations>>

\* The refresh is recent and nothing has moved since.
SkipRefresh(j) ==
  /\ pc[j] = "poll" /\ ~row[j].cancel
  /\ refresher = 0 /\ ~moved /\ ~due
  /\ pc' = [pc EXCEPT ![j] = "test"]
  /\ UNCHANGED <<manager, request, line, active, kindOpen, moved, due, asking, touched, slot, operations>>

\* _refresh_requests_once, first section: the requests in line, and their kind's capacity read after it.
BeginRefresh(j) ==
  /\ pc[j] = "poll" /\ ~row[j].cancel
  /\ refresher = 0 /\ (moved \/ due)
  /\ refresher' = j
  /\ snapshot' = {k \in Jobs : Registered(k) /\ line[k] # 0}
  /\ answer' = [k \in Jobs |-> NotAsked]
  /\ touched' = {}
  /\ moved' = FALSE
  /\ limit' = open
  /\ pc' = [pc EXCEPT ![j] = "refresh"]
  /\ UNCHANGED <<manager, request, line, active, kindOpen, due, slot, operations>>

\* One policy asked, outside the gate's lock.
AskPolicy(k) ==
  /\ k \in snapshot /\ answer[k] = NotAsked
  /\ answer' = [answer EXCEPT ![k] = Policy(k)]
  /\ UNCHANGED <<manager, request, line, active, kindOpen, moved, due, refresher, limit, snapshot, touched, pc,
                 slot, operations>>

\* Broken variant: a job that is gone leaves the gate whoever owns its request.
RetiredWhoever == {k \in snapshot : answer[k].gone /\ k \notin touched}

\* An unowned request of a job that is gone leaves the gate.
Retired == {k \in snapshot : answer[k].gone /\ ~request[k].claimed /\ k \notin touched}

\* Broken variant: an answer is taken whatever the gate was told while it was asked.
ApplyAnswersAlways ==
  request' = [k \in Jobs |->
    IF k \in Retired THEN NoRequest
    ELSE IF k \in snapshot
    THEN [request[k] EXCEPT !.prio = answer[k].prio, !.ready = answer[k].ready /\ ~request[k].waiting]
    ELSE request[k]]

\* Broken variant: readiness by the job's deadline alone, not by the runner's own wait.
ApplyAnswersUnawaited ==
  request' = [k \in Jobs |->
    IF k \in Retired THEN NoRequest
    ELSE IF k \in snapshot \ touched
    THEN [request[k] EXCEPT !.prio = answer[k].prio, !.ready = answer[k].ready]
    ELSE request[k]]

\* The last section's updates: an answer counts for a request the gate was told nothing of meanwhile.
ApplyAnswers ==
  request' = [k \in Jobs |->
    IF k \in Retired THEN NoRequest
    ELSE IF k \in snapshot \ touched
    THEN [request[k] EXCEPT !.prio = answer[k].prio, !.ready = answer[k].ready /\ ~request[k].waiting]
    ELSE request[k]]

\* _refresh_requests_once, last section.
ApplyRefresh(j) ==
  /\ pc[j] = "refresh" /\ refresher = j
  /\ \A k \in snapshot : answer[k] # NotAsked
  /\ ApplyAnswers
  /\ line' = [k \in Jobs |-> IF line[k] = 0 THEN 0 ELSE request'[k].prio]
  /\ kindOpen' = limit
  /\ refresher' = 0 /\ limit' = FALSE /\ snapshot' = {} /\ touched' = {}
  /\ answer' = [k \in Jobs |-> NotAsked]
  /\ due' = FALSE
  /\ pc' = [pc EXCEPT ![j] = "test"]
  /\ UNCHANGED <<manager, active, moved, slot, operations>>

\* The head of the line takes a slot.
Admit(j) ==
  /\ pc[j] = "test" /\ ~row[j].cancel /\ IsNext(j)
  /\ line' = [line EXCEPT ![j] = 0]
  /\ active' = active + 1
  /\ slot' = [slot EXCEPT ![j] = TRUE]
  /\ pc' = [pc EXCEPT ![j] = "admitted"]
  /\ UNCHANGED <<manager, request, kindOpen, moved, due, asking, touched, operations>>

\* Anyone else waits, for a notice or for _POLL_SECONDS.
StayInLine(j) ==
  /\ pc[j] = "test" /\ ~row[j].cancel /\ ~IsNext(j)
  /\ pc' = [pc EXCEPT ![j] = "poll"]
  /\ UNCHANGED <<manager, request, line, active, kindOpen, moved, due, asking, touched, slot, operations>>

\* The runner looks again before it starts: workers that closed or a pause meanwhile send it back.
GiveBack(j) ==
  /\ pc[j] = "admitted" /\ (~open \/ row[j].held \/ paused)
  /\ ReleaseSlot(j)
  /\ pc' = [pc EXCEPT ![j] = "capacity"]
  /\ UNCHANGED <<manager, request, line, kindOpen, moved, due, asking, touched, operations>>

Run(j) ==
  /\ pc[j] = "admitted" /\ open /\ ~row[j].held /\ ~paused
  /\ row' = [row EXCEPT ![j].status = IF @ = "PENDING" THEN "RUNNING" ELSE @]
  /\ pc' = [pc EXCEPT ![j] = "running"]
  /\ UNCHANGED <<open, paused, call, starts, request, line, active, kindOpen, moved, due, asking, touched, slot,
                 operations>>

\* _on_dispatch_start: the files are submitted and the slot goes back early.
Submit(j) ==
  /\ pc[j] = "running" /\ slot[j]
  /\ ReleaseSlot(j)
  /\ UNCHANGED <<manager, request, line, kindOpen, moved, due, asking, touched, pc, operations>>

\* The run is over: its teardown gives back what it may still hold.
EndRun(j) ==
  /\ pc[j] = "running"
  /\ row' = [row EXCEPT ![j].status = IF Live(j) THEN IF row[j].cancel THEN "CANCELLED" ELSE "COMPLETED" ELSE @]
  /\ ReleaseSlot(j)
  /\ pc' = [pc EXCEPT ![j] = "leaving"]
  /\ UNCHANGED <<open, paused, call, starts, request, line, kindOpen, moved, due, asking, touched, operations>>

\* The run parks: the row is PENDING again and the same runner, its request still its own, waits for capacity.
Park(j) ==
  /\ pc[j] = "running" /\ row[j].status = "RUNNING" /\ ~row[j].cancel /\ operations < MaxOperations
  /\ operations' = operations + 1
  /\ row' = [row EXCEPT ![j].status = "PENDING"]
  /\ ReleaseSlot(j)
  /\ pc' = [pc EXCEPT ![j] = "capacity"]
  /\ UNCHANGED <<open, paused, call, starts, request, line, kindOpen, moved, due, asking, touched>>

\* A cancelled wait takes its entry out of the line and no slot; the runner settles the row.
Leave(j) ==
  /\ pc[j] \in {"preflight", "capacity", "poll", "test"} /\ row[j].cancel
  /\ row' = [row EXCEPT ![j].status = IF Live(j) THEN "CANCELLED" ELSE @]
  /\ line' = [line EXCEPT ![j] = IF Waiting(j) THEN 0 ELSE @]
  /\ pc' = [pc EXCEPT ![j] = "leaving"]
  /\ UNCHANGED <<open, paused, call, starts, request, active, kindOpen, moved, due, asking, touched, slot, operations>>

\* finish_admission, when the runner's thread ends ...
Finish(j) ==
  /\ pc[j] = "leaving"
  /\ Unregister(j)
  /\ pc' = [pc EXCEPT ![j] = "exiting"]
  /\ UNCHANGED <<manager, active, kindOpen, due, refresher, limit, touched, slot, operations>>

\* ... and then, under another lock, _inflight_jobs.discard.
Exit(j) ==
  /\ pc[j] = "exiting"
  /\ pc' = [pc EXCEPT ![j] = "idle"]
  /\ UNCHANGED <<manager, request, line, active, kindOpen, moved, due, asking, touched, slot, operations>>

-----------------------------------------------------------------------------
\* The operator, the schedule and the clock.

\* api_jobs.py set priority: the manager first ...
SetPriority(j, p) ==
  /\ Live(j) /\ call[j] = 0 /\ p # row[j].prio /\ operations < MaxOperations
  /\ operations' = operations + 1
  /\ row' = [row EXCEPT ![j].prio = p]
  /\ call' = [call EXCEPT ![j] = p]
  /\ UNCHANGED <<open, paused, starts, request, line, active, kindOpen, moved, due, asking, touched, pc, slot>>

\* ... then reprioritize: the new place in line now, not at the next refresh.
Reprioritize(j) ==
  /\ call[j] # 0
  /\ call' = [call EXCEPT ![j] = 0]
  /\ IF Registered(j)
     THEN /\ request' = [request EXCEPT ![j].prio = call[j]]
          /\ line' = [line EXCEPT ![j] = IF @ = 0 THEN 0 ELSE call[j]]
          /\ touched' = touched \cup {j}
          /\ moved' = TRUE
     ELSE UNCHANGED <<request, line, touched, moved>>
  /\ UNCHANGED <<row, open, paused, starts, active, kindOpen, due, asking, pc, slot, operations>>

\* pause_job and resume_job: a pending job whose hold is lifted is started, unless everything is held.
SetHold(j) ==
  /\ Live(j) /\ operations < MaxOperations
  /\ operations' = operations + 1
  /\ row' = [row EXCEPT ![j].held = ~@]
  /\ start' = [start EXCEPT ![j] = IF @ = "no" /\ row[j].held /\ Pending(j) /\ ~paused THEN "alone" ELSE @]
  /\ UNCHANGED <<open, paused, call, orphaned, request, line, active, kindOpen, moved, due, asking, touched, pc, slot>>

\* pause_processing.
PauseAll ==
  /\ ~paused /\ operations < MaxOperations
  /\ operations' = operations + 1
  /\ paused' = TRUE
  /\ UNCHANGED <<row, open, call, starts, request, line, active, kindOpen, moved, due, asking, touched, pc, slot>>

\* resume_processing: every pending job is prepared and started.
ResumeAll ==
  /\ paused /\ operations < MaxOperations
  /\ operations' = operations + 1
  /\ paused' = FALSE
  /\ start' = [j \in Jobs |-> IF Pending(j) THEN "batch" ELSE start[j]]
  /\ UNCHANGED <<row, open, call, orphaned, request, line, active, kindOpen, moved, due, asking, touched, pc, slot>>

\* request_cancellation and the row, under one lock as the bulk route does.
Cancel(j) ==
  /\ Live(j) /\ operations < MaxOperations
  /\ operations' = operations + 1
  /\ row' = [row EXCEPT ![j].cancel = TRUE, ![j].status = "CANCELLED", ![j].held = FALSE]
  /\ UNCHANGED <<open, paused, call, starts, request, line, active, kindOpen, moved, due, asking, touched, pc, slot>>

SetCapacity ==
  /\ operations < MaxOperations
  /\ operations' = operations + 1
  /\ open' = ~open
  /\ UNCHANGED <<row, paused, call, starts, request, line, active, kindOpen, moved, due, asking, touched, pc, slot>>

DeadlinePasses(j) ==
  /\ ~row[j].passed
  /\ row' = [row EXCEPT ![j].passed = TRUE]
  /\ UNCHANGED <<open, paused, call, starts, request, line, active, kindOpen, moved, due, asking, touched, pc, slot,
                 operations>>

\* The timer of a batch of webhooks: the job is an ordinary one from then on, and started unless everything is held.
TimerFires(j) ==
  /\ row[j].batched /\ row[j].passed /\ Live(j)
  /\ row' = [row EXCEPT ![j].batched = FALSE]
  /\ start' = [start EXCEPT ![j] = IF @ = "no" /\ ~paused THEN "alone" ELSE @]
  /\ UNCHANGED <<open, paused, call, orphaned, request, line, active, kindOpen, moved, due, asking, touched, pc, slot,
                 operations>>

RefreshFallsDue ==
  /\ ~due /\ refresher = 0
  /\ due' = TRUE
  /\ UNCHANGED <<manager, request, line, active, kindOpen, moved, asking, touched, pc, slot, operations>>

Refresh(j) == BeginRefresh(j) \/ SkipRefresh(j)
Test(j) == Admit(j) \/ StayInLine(j)
Wait(j) == BeginPreflight(j) \/ SkipPreflight(j) \/ EndPreflight(j) \/ EnterGate(j) \/ Leave(j)
Recheck(j) == GiveBack(j) \/ Run(j)
Start(j) == Claim(j) \/ DeclineStart(j) \/ SkipDuplicate(j)
Runner(j) ==
  \/ Prepare(j) \/ Start(j) \/ StartFails(j) \/ PauseExit(j) \/ Wait(j) \/ Refresh(j) \/ AskPolicy(j)
  \/ ApplyRefresh(j) \/ Test(j) \/ Recheck(j) \/ Submit(j) \/ EndRun(j) \/ Park(j) \/ Finish(j) \/ Exit(j)
Operator(j) == (\E p \in Priorities : SetPriority(j, p)) \/ Reprioritize(j) \/ SetHold(j) \/ Cancel(j)
Clock(j) == DeadlinePasses(j) \/ TimerFires(j)

Next ==
  \/ \E j \in Jobs : Runner(j) \/ Operator(j) \/ Clock(j)
  \/ PauseAll \/ ResumeAll \/ SetCapacity \/ RefreshFallsDue

Spec == Init /\ [][Next]_vars

\* A start that was called is answered, threads run, runs end, deadlines pass and timers fire; a waiter sleeps between
\* polls, so none keeps the refresh lock from the rest.
Fairness ==
  /\ \A j \in Jobs :
       /\ WF_vars(Start(j)) /\ WF_vars(PauseExit(j)) /\ WF_vars(Wait(j)) /\ SF_vars(Refresh(j)) /\ WF_vars(AskPolicy(j))
       /\ WF_vars(ApplyRefresh(j)) /\ WF_vars(Test(j)) /\ WF_vars(Recheck(j)) /\ WF_vars(EndRun(j))
       /\ WF_vars(Finish(j)) /\ WF_vars(Exit(j)) /\ WF_vars(Reprioritize(j)) /\ WF_vars(DeadlinePasses(j))
       /\ WF_vars(TimerFires(j))
  /\ WF_vars(RefreshFallsDue)

FairSpec == Spec /\ Fairness

-----------------------------------------------------------------------------
\* The gate counts exactly the slots its runners hold: a slot given back when the files are submitted is not given
\* back again by the teardown, which would let one job too many through.
SlotsHeld == active = Cardinality({j \in Jobs : slot[j]})

\* A ready job at the head of the line is one that takes the slot: its runner does not wait out a retry delay, and a
\* job without a runner has a start or a timer on its way, so that no failed or declined start keeps the others out.
\* The one exemption is a start skipped for a thread that was about to end.
HeadIsReachable ==
  \A j \in Jobs : IsNext(j) =>
    /\ pc[j] # "preflight"
    /\ pc[j] \in {"idle", "exiting"} /\ Pending(j) /\ ~row[j].held /\ ~paused
         => start[j] # "no" \/ row[j].batched \/ j \in orphaned

\* A runner waiting in line keeps its request and its place, whatever a refresh that asked before it came says.
WaiterKeepsPlace == \A j \in Jobs : Waiting(j) => Registered(j) /\ line[j] # 0

\* A job standing where the manager wants it, with no priority call under way, is not moved by an answer the gate
\* asked for before the operator's last call.
AnswerNeverMisplaces ==
  [][\A j \in Jobs : line[j] = row[j].prio /\ call[j] = 0 /\ line'[j] # 0 /\ row'[j].prio = row[j].prio
        => line'[j] = row[j].prio]_<<row, line>>

\* A waiting runner leaves the line, unless its job or everything is held, no worker of its kind is open, or the line
\* is headed by a job whose start was skipped for a thread that was about to end.
WaitersGoOn ==
  \A j \in Jobs :
    Waiting(j) ~> (~Waiting(j) \/ row[j].held \/ paused \/ ~open \/ \E k \in orphaned : IsNext(k))

\* Without that last exemption: what the line promises, and a skipped start breaks.
EveryWaiterGoesOn == \A j \in Jobs : Waiting(j) ~> (~Waiting(j) \/ row[j].held \/ paused \/ ~open)
=============================================================================
