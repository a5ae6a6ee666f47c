------------------------------ MODULE Webhooks ------------------------------
(***************************************************************************)
(* The batching of import webhooks (web/webhooks.py) and the start of the  *)
(* queued preview jobs it feeds (web/routes/job_runner.py): webhooks of    *)
(* one (source, server) key join one batch and one waiting job; a timer, a *)
(* user, a Resume or a restart closes the batch; the job's thread runs.    *)
(*                                                                         *)
(* The actors are request handlers, timer threads, the thread that starts  *)
(* the queued jobs after Resume or at start-up, and each job's own thread. *)
(* What runs under _pending_lock is one step.                              *)
(***************************************************************************)
EXTENDS Integers, FiniteSets

CONSTANTS
  Files,       \* the media files that webhooks announce
  MaxJobs,     \* bound: jobs created for this key
  MaxTimers,   \* bound: timer callbacks that wait for the lock at one time
  Troubles,    \* of "crash", "pause", "cancel" and "fail", those that may happen, each once
  MaxTroubles  \* bound: how many of them happen

Jobs == 1..MaxJobs
Timers == 1..MaxTimers
Settled == {"cancelled", "done"}
NoBatch == [job |-> 0, files |-> {}, token |-> 0]
NoWork == [job |-> 0, waiting |-> FALSE, files |-> {}]

VARIABLES
  seen,      \* _recent_dispatches: files whose webhook is a duplicate now
  batch,     \* _pending_batches[key], with the token its timer carries
  woken,     \* tokens of timer callbacks that wait for _pending_lock
  job,       \* the saved rows: status, webhook_debounce_pending, webhook_paths,
             \* and whether webhook_fire_at and the longest wait have passed
  thread,    \* where each job's thread is; "none": not in _inflight_jobs
  given,     \* the webhook_paths each thread was started with
  drain,     \* the loop over queued jobs: phase, work left, the job at hand
  paused,    \* processing_paused
  accepted,  \* history: files whose webhook a job took on
  left       \* the troubles that have not happened yet

vars == <<seen, batch, woken, job, thread, given, drain, paused, accepted, left>>

Idle == [phase |-> "idle", work |-> {}, cur |-> NoWork]

Init ==
  /\ seen = {}
  /\ batch = NoBatch
  /\ woken = {}
  /\ job = [j \in Jobs |->
              [status |-> "none", waiting |-> FALSE, files |-> {}, due |-> FALSE, aged |-> FALSE]]
  /\ thread = [j \in Jobs |-> "none"]
  /\ given = [j \in Jobs |-> {}]
  /\ drain = Idle
  /\ paused = FALSE
  /\ accepted = [j \in Jobs |-> {}]
  /\ left = Troubles

Serving == drain.phase # "boot"
Pending(j) == job[j].status = "pending"
Spend(what) == what \in left /\ Cardinality(Troubles \ left) < MaxTroubles /\ left' = left \ {what}

-----------------------------------------------------------------------------
(* Timers. A timer is its token: a cancelled one whose callback already     *)
(* runs cannot be stopped, and finds that the batch carries another token.  *)

\* A token that no running callback carries; which one tells nothing.
FreshTimer(t) == t \notin woken /\ \A u \in Timers : u < t => u \in woken

\* threading.Timer calls back: at the deadline, or a little before it when
\* the wall clock was set back meanwhile.
TimerWakes ==
  /\ batch # NoBatch
  /\ batch.token \notin woken
  /\ woken' = woken \cup {batch.token}
  /\ UNCHANGED <<seen, batch, job, thread, given, drain, paused, accepted, left>>

DeadlinePasses(j) ==
  /\ Pending(j) /\ job[j].waiting /\ ~job[j].due
  /\ job' = [job EXCEPT ![j].due = TRUE]
  /\ UNCHANGED <<seen, batch, woken, thread, given, drain, paused, accepted, left>>

\* The longest wait since the batch was opened passes.
LongestWaitPasses(j) ==
  /\ Pending(j) /\ job[j].waiting /\ ~job[j].aged
  /\ job' = [job EXCEPT ![j].aged = TRUE]
  /\ UNCHANGED <<seen, batch, woken, thread, given, drain, paused, accepted, left>>

-----------------------------------------------------------------------------
(* A webhook arrives.                                                       *)

\* A batch whose job is no longer waiting is dropped, its timer cancelled.
LiveBatch == IF batch # NoBatch /\ ~Pending(batch.job) THEN NoBatch ELSE batch

\* The first file of a batch: its job is created and the batch opened.
OpenBatch(f) ==
  \E j \in Jobs, t \in Timers :
    /\ job[j].status = "none" /\ \A i \in Jobs : i < j => job[i].status # "none"
    /\ FreshTimer(t)
    /\ job' = [job EXCEPT ![j] = [status |-> "pending", waiting |-> TRUE, files |-> {f},
                                  due |-> FALSE, aged |-> FALSE]]
    /\ batch' = [job |-> j, files |-> {f}, token |-> t]
    /\ accepted' = [accepted EXCEPT ![j] = {f}]

\* Broken variant: each file starts the whole delay over.
BrokenJoinedDeadlinePassed(j) == FALSE

\* The deadline of a batch that another file joins: the delay starts over,
\* but not beyond the longest wait.
JoinedDeadlinePassed(j) == job[j].aged

\* Broken variant: the file joins the batch in memory only.
BrokenJoinBatch(f) ==
  LET j == LiveBatch.job IN
  \E t \in Timers :
    /\ FreshTimer(t)
    /\ batch' = [LiveBatch EXCEPT !.files = @ \cup {f}, !.token = t]
    /\ job' = [job EXCEPT ![j].due = JoinedDeadlinePassed(j)]
    /\ accepted' = [accepted EXCEPT ![j] = @ \cup {f}]

\* A further file: the job's saved paths and deadline follow the batch.
JoinBatch(f) ==
  LET j == LiveBatch.job IN
  \E t \in Timers :
    /\ FreshTimer(t)
    /\ batch' = [LiveBatch EXCEPT !.files = @ \cup {f}, !.token = t]
    /\ job' = [job EXCEPT ![j].files = LiveBatch.files \cup {f},
                          ![j].waiting = TRUE,
                          ![j].due = JoinedDeadlinePassed(j)]
    /\ accepted' = [accepted EXCEPT ![j] = @ \cup {f}]

\* _check_and_record_dedup, then open or join.
Webhook(f) ==
  /\ Serving
  /\ \/ /\ f \in seen
        /\ batch' = LiveBatch
        /\ UNCHANGED <<seen, job, accepted>>
     \/ /\ f \notin seen
        /\ seen' = seen \cup {f}
        /\ IF LiveBatch = NoBatch THEN OpenBatch(f) ELSE JoinBatch(f)
  /\ UNCHANGED <<woken, thread, given, drain, paused, left>>

\* Saving the job fails: the sender is told so and may send again. A file
\* that was joining an open batch stays in the batch.
WebhookFails(f) ==
  /\ Serving
  /\ f \notin seen
  /\ Spend("fail")
  /\ batch' = IF LiveBatch = NoBatch THEN NoBatch ELSE [LiveBatch EXCEPT !.files = @ \cup {f}]
  /\ UNCHANGED <<seen, woken, job, thread, given, drain, paused, accepted>>

\* _RECENT_DISPATCH_TTL_SECONDS pass.
DuplicateWindowEnds(f) ==
  /\ f \in seen
  /\ seen' = seen \ {f}
  /\ UNCHANGED <<batch, woken, job, thread, given, drain, paused, accepted, left>>

-----------------------------------------------------------------------------
(* Starting a job, and closing a batch.                                     *)

\* The guard on _inflight_jobs and the re-read of the status under its lock.
MayStart(j) == thread[j] = "none" /\ job[j].status \notin Settled

StartThread(j, paths) ==
  IF MayStart(j)
    THEN /\ thread' = [thread EXCEPT ![j] = "check"]
         /\ given' = [given EXCEPT ![j] = paths]
    ELSE UNCHANGED <<thread, given>>

\* The job keeps the batch's files and waits no more: what was saved about
\* its deadline is removed.
Ready(b) == [job EXCEPT ![b.job] = [status |-> "pending", waiting |-> FALSE, files |-> b.files,
                                    due |-> FALSE, aged |-> FALSE]]

\* _dispatch_webhook_batch: it starts at once unless processing is paused.
Dispatch(b) ==
  /\ job' = Ready(b)
  /\ IF paused THEN UNCHANGED <<thread, given>> ELSE StartThread(b.job, b.files)
  /\ UNCHANGED left

\* The same, failing before the job was saved or when its thread cannot
\* start. The exception is caught and the batch is gone.
DispatchFails(b) ==
  /\ Spend("fail")
  /\ job' \in {job, Ready(b)}
  /\ UNCHANGED <<thread, given>>

\* The batch is claimed: its job is dispatched when it still waits.
Claim ==
  /\ batch' = NoBatch
  /\ IF Pending(batch.job)
       THEN Dispatch(batch) \/ DispatchFails(batch)
       ELSE UNCHANGED <<job, thread, given, left>>

\* Whether the callback with token t holds the batch's current timer.
HoldsBatch(t) == batch # NoBatch /\ batch.token = t

\* Broken variant: a callback does not look at the deadline.
BrokenDeadlineReached(j) == TRUE

\* fire_at, which a later webhook may have moved.
DeadlineReached(j) == job[j].due

\* The three ways _execute_webhook_job can go for the timer with token t.
TimerIsObsolete(t) ==
  /\ t \in woken
  /\ ~HoldsBatch(t)
  /\ woken' = woken \ {t}
  /\ UNCHANGED <<seen, batch, job, thread, given, drain, paused, accepted, left>>

TimerIsEarly(t) ==
  /\ t \in woken
  /\ HoldsBatch(t) /\ ~DeadlineReached(batch.job)
  /\ woken' = woken \ {t}
  /\ \E u \in Timers : FreshTimer(u) /\ batch' = [batch EXCEPT !.token = u]
  /\ UNCHANGED <<seen, job, thread, given, drain, paused, accepted, left>>

TimerClaims(t) ==
  /\ t \in woken
  /\ HoldsBatch(t) /\ DeadlineReached(batch.job)
  /\ woken' = woken \ {t}
  /\ Claim
  /\ UNCHANGED <<seen, drain, paused, accepted>>

\* The user fires the batch now.
FireNow ==
  /\ Serving
  /\ batch # NoBatch
  /\ Claim
  /\ UNCHANGED <<seen, woken, drain, paused, accepted>>

-----------------------------------------------------------------------------
(* Pause, Resume, and the loop that starts what is queued.                  *)

Pause ==
  /\ Serving
  /\ ~paused
  /\ Spend("pause")
  /\ paused' = TRUE
  /\ UNCHANGED <<seen, batch, woken, job, thread, given, drain, accepted>>

Resume ==
  /\ paused
  /\ drain = Idle
  /\ paused' = FALSE
  /\ drain' = [drain EXCEPT !.phase = "list"]
  /\ UNCHANGED <<seen, batch, woken, job, thread, given, accepted, left>>

\* What the loop keeps of a queued job: a copy of its config.
Copy(j, rows) == [job |-> j, waiting |-> rows[j].waiting, files |-> rows[j].files]
Queued(rows) == {Copy(j, rows) : j \in {i \in Jobs : rows[i].status = "pending"}}

\* resume_running_and_drain_pending reads the queue, unless paused again.
ListQueue ==
  /\ drain.phase = "list"
  /\ drain' = IF paused THEN Idle ELSE [drain EXCEPT !.phase = "start", !.work = Queued(job)]
  /\ UNCHANGED <<seen, batch, woken, job, thread, given, paused, accepted, left>>

\* ensure_pending_webhook restores the batch of a job that waits for one.
RestoreBatch(j) ==
  \E t \in Timers : FreshTimer(t) /\ batch' = [job |-> j, files |-> job[j].files, token |-> t]

\* ensure_pending_webhook answers TRUE.
WaitsForBatch(j) == job[j].waiting

\* _start_job_async, first half: TRUE of ensure_pending_webhook ends it.
EnsurePending(w) ==
  /\ drain.phase \in {"boot", "start"} /\ drain.cur = NoWork
  /\ w \in drain.work
  /\ drain' = [drain EXCEPT !.work = @ \ {w}, !.cur = IF WaitsForBatch(w.job) THEN NoWork ELSE w]
  /\ IF job[w.job].waiting /\ Pending(w.job) /\ batch = NoBatch
       THEN RestoreBatch(w.job)
       ELSE UNCHANGED batch
  /\ UNCHANGED <<seen, woken, job, thread, given, paused, accepted, left>>

\* Broken variant: the thread gets the paths of the copy.
BrokenPathsFor(w) == w.files

\* A copy taken while the job waited for its batch may be short of paths.
PathsFor(w) == IF w.waiting THEN job[w.job].files ELSE w.files

\* Second half: a copy taken while the job still waited is replaced by what
\* is saved now, then the thread is started unless one is in flight.
StartQueued ==
  LET w == drain.cur IN
  /\ w # NoWork
  /\ drain' = [drain EXCEPT !.cur = NoWork]
  /\ IF w.waiting /\ ~Pending(w.job)
       THEN UNCHANGED <<thread, given>>
       ELSE StartThread(w.job, PathsFor(w))
  /\ UNCHANGED <<seen, batch, woken, job, paused, accepted, left>>

DrainEnds ==
  /\ drain.phase \in {"boot", "start"} /\ drain.work = {} /\ drain.cur = NoWork
  /\ drain' = Idle
  /\ UNCHANGED <<seen, batch, woken, job, thread, given, paused, accepted, left>>

-----------------------------------------------------------------------------
(* A job's thread, a user's cancel, a restart.                              *)

\* run_job_once under a pause: the job keeps its paths and stays queued.
FindsPause(j) ==
  /\ thread[j] = "check" /\ paused
  /\ thread' = [thread EXCEPT ![j] = "leave"]
  /\ job' = [job EXCEPT ![j].files = given[j]]
  /\ UNCHANGED <<seen, batch, woken, given, drain, paused, accepted, left>>

\* start_job leaves a cancelled job alone.
Begins(j) ==
  /\ thread[j] = "check" /\ ~paused
  /\ thread' = [thread EXCEPT ![j] = "run"]
  /\ job' = IF Pending(j) THEN [job EXCEPT ![j].status = "running"] ELSE job
  /\ UNCHANGED <<seen, batch, woken, given, drain, paused, accepted, left>>

Ends(j) ==
  /\ thread[j] = "run"
  /\ thread' = [thread EXCEPT ![j] = "leave"]
  /\ job' = IF job[j].status = "running" THEN [job EXCEPT ![j].status = "done"] ELSE job
  /\ UNCHANGED <<seen, batch, woken, given, drain, paused, accepted, left>>

\* run_job's finally: only now may another thread start for the job.
Leaves(j) ==
  /\ thread[j] = "leave"
  /\ thread' = [thread EXCEPT ![j] = "none"]
  /\ given' = [given EXCEPT ![j] = {}]
  /\ UNCHANGED <<seen, batch, woken, job, drain, paused, accepted, left>>

Cancel(j) ==
  /\ Serving
  /\ job[j].status \in {"pending", "running"}
  /\ Spend("cancel")
  /\ job' = [job EXCEPT ![j].status = "cancelled"]
  /\ UNCHANGED <<seen, batch, woken, thread, given, drain, paused, accepted>>

\* Only the rows and the settings survive. Start-up revives the interrupted
\* jobs and walks them before the first request is served.
Revived == [j \in Jobs |-> IF job[j].status = "running" THEN [job[j] EXCEPT !.status = "pending"] ELSE job[j]]

Restart ==
  /\ Spend("crash")
  /\ seen' = {}
  /\ batch' = NoBatch
  /\ woken' = {}
  /\ thread' = [j \in Jobs |-> "none"]
  /\ given' = [j \in Jobs |-> {}]
  /\ job' = Revived
  /\ drain' = [phase |-> "boot", work |-> Queued(Revived), cur |-> NoWork]
  /\ UNCHANGED <<paused, accepted>>

Next ==
  \/ TimerWakes \/ FireNow \/ Pause \/ Resume
  \/ ListQueue \/ StartQueued \/ DrainEnds \/ Restart
  \/ \E f \in Files : Webhook(f) \/ WebhookFails(f) \/ DuplicateWindowEnds(f)
  \/ \E t \in Timers : TimerIsObsolete(t) \/ TimerIsEarly(t) \/ TimerClaims(t)
  \/ \E w \in drain.work : EnsurePending(w)
  \/ \E j \in Jobs : DeadlinePasses(j) \/ LongestWaitPasses(j)
  \/ \E j \in Jobs : FindsPause(j) \/ Begins(j) \/ Ends(j) \/ Leaves(j) \/ Cancel(j)

Spec == Init /\ [][Next]_vars

\* Threads and clocks go on. A timer that is armed again and again still
\* gets the lock some time: webhooks do not arrive without a break.
NoFailure(A) == A /\ UNCHANGED left
Fairness ==
  /\ SF_vars(TimerWakes)
  /\ SF_vars(\E t \in Timers : NoFailure(TimerClaims(t)))
  /\ \A t \in Timers : WF_vars(TimerIsObsolete(t)) /\ WF_vars(TimerIsEarly(t))
  /\ WF_vars(ListQueue) /\ WF_vars(StartQueued) /\ WF_vars(DrainEnds)
  /\ WF_vars(\E w \in drain.work : EnsurePending(w))
  /\ \A j \in Jobs : WF_vars(DeadlinePasses(j)) /\ WF_vars(LongestWaitPasses(j))
  /\ \A j \in Jobs : WF_vars(FindsPause(j)) /\ WF_vars(Begins(j)) /\ WF_vars(Ends(j)) /\ WF_vars(Leaves(j))

FairSpec == Spec /\ Fairness

-----------------------------------------------------------------------------
(* Properties.                                                              *)

\* What was accepted is saved: every file a job took on is in its saved
\* paths from then on, so that no restart loses it (webhooks.py:1185, "a
\* job revived after a restart" needs webhook_paths of the open batch).
AcceptedIsSaved == \A j \in Jobs : accepted[j] \subseteq job[j].files

\* A job's thread works on every file the job took on, also when a Resume
\* or a restart copied the job's config before the last file joined.
RunsEveryFile == \A j \in Jobs : thread[j] = "run" => accepted[j] \subseteq given[j]

\* Its wait for the batch ends at its deadline or when the user fires it:
\* an early or obsolete timer, Resume and a restart do not end it.
WaitEndsWhenDue ==
  [][\A j \in Jobs : job[j].waiting /\ ~job'[j].waiting => job[j].due \/ FireNow]_vars

\* Unless someone pauses processing or a step fails, every queued job leaves the queue, through late timers, files
\* that keep joining its batch, cancels and restarts.
Undisturbed == [](Troubles \cap {"pause", "fail"} \subseteq left)
QueuedIsRun == Undisturbed => \A j \in Jobs : Pending(j) ~> ~Pending(j)

\* ensure_pending_webhook says it returns "True when the job is owned by the
\* debounce scheduler": a queued job it answers True for has a batch.
AnsweredIsOwned ==
  [][\A w \in drain.work :
       EnsurePending(w) /\ job[w.job].waiting /\ Pending(w.job) => batch'.job = w.job]_vars

\* Clearing Pause all "must fully resume the queue — draining every PENDING
\* job" (api_jobs.py): once processing runs, what is queued starts.
ResumeStartsQueued == \A j \in Jobs : Pending(j) /\ ~paused ~> ~Pending(j) \/ paused

=============================================================================
