--------------------------- MODULE WebhooksProofs ---------------------------
(***************************************************************************)
(* Proofs about module Webhooks, for every set of files and every number   *)
(* of jobs, timers and troubles.                                           *)
(*                                                                         *)
(* That accepted files are saved is not inductive: a dispatch saves the    *)
(* batch's files, a paused thread those it was given, and a thread is      *)
(* given what the loop copied earlier.  HooksInv says that each of these   *)
(* holds every accepted file for as long as it may be used, because a job  *)
(* that has left its batch takes on no further file.                       *)
(***************************************************************************)
EXTENDS Webhooks, TLAPS

Rows == [status : {"none", "pending", "running", "done", "cancelled"}, waiting : BOOLEAN, files : SUBSET Files,
         due : BOOLEAN, aged : BOOLEAN]
Batches == [job : Jobs, files : SUBSET Files, token : Timers]
Copies == [job : Jobs, waiting : BOOLEAN, files : SUBSET Files]

TypeOK ==
  /\ job \in [Jobs -> Rows] /\ batch \in Batches \cup {NoBatch}
  /\ thread \in [Jobs -> {"none", "check", "run", "leave"}] /\ given \in [Jobs -> SUBSET Files]
  /\ drain \in [phase : {"idle", "list", "boot", "start"}, work : SUBSET Copies, cur : Copies \cup {NoWork}]
  /\ accepted \in [Jobs -> SUBSET Files]

\* A job that does not exist has taken on nothing and is nowhere.
NotYet == \A j \in Jobs : job[j].status = "none" => accepted[j] = {} /\ thread[j] = "none" /\ ~job[j].waiting

\* The batch of a queued job has all its files, and its job waits for it.
BatchHolds ==
  batch # NoBatch => /\ job[batch.job].status # "none"
                     /\ Pending(batch.job) => job[batch.job].waiting /\ accepted[batch.job] \subseteq batch.files

\* A thread was given all files of a job that no longer waits.
ThreadHolds ==
  \A j \in Jobs : thread[j] \in {"check", "run"} => ~job[j].waiting /\ accepted[j] \subseteq given[j]

\* So has a copy that was taken when the job no longer waited.
CopyHolds(w) == ~w.waiting => ~job[w.job].waiting /\ accepted[w.job] \subseteq w.files
CopiesHold ==
  /\ \A w \in drain.work : job[w.job].status # "none" /\ CopyHolds(w)
  /\ drain.cur # NoWork =>
       job[drain.cur.job].status # "none" /\ ~job[drain.cur.job].waiting /\ CopyHolds(drain.cur)

HooksInv == TypeOK /\ NotYet /\ AcceptedIsSaved /\ BatchHolds /\ ThreadHolds /\ CopiesHold

-----------------------------------------------------------------------------
\* Lemmas of the steps: each keeps the invariant.

\* What the loop keeps of a saved row.
LEMMA QueuedCopies ==
  ASSUME NEW rows \in [Jobs -> Rows]
  PROVE  /\ Queued(rows) \subseteq Copies
         /\ \A w \in Queued(rows) : /\ rows[w.job].status = "pending" /\ w.waiting = rows[w.job].waiting
                                    /\ w.files = rows[w.job].files
<1>1. \A j \in Jobs : Copy(j, rows) \in Copies BY DEF Copy, Copies, Rows
<1>q. QED BY <1>1 DEF Queued, Copy

\* A callback that starts holds nothing yet.
LEMMA TimerWakesHooks == HooksInv /\ TimerWakes => HooksInv'
<1> SUFFICES ASSUME HooksInv, TimerWakes PROVE HooksInv' OBVIOUS
<1> USE DEF TimerWakes, HooksInv, TypeOK, Pending
<1>1. TypeOK' BY DEF Rows, Batches, Copies
<1>2. NotYet' BY DEF NotYet
<1>3. AcceptedIsSaved' BY DEF AcceptedIsSaved
<1>4. BatchHolds' BY DEF BatchHolds
<1>5. ThreadHolds' BY DEF ThreadHolds
<1>6. CopiesHold' BY DEF CopiesHold, CopyHolds
<1>q. QED BY <1>1, <1>2, <1>3, <1>4, <1>5, <1>6

\* A deadline moves no file.
LEMMA DeadlinePassesHooks == \A j \in Jobs : HooksInv /\ DeadlinePasses(j) => HooksInv'
<1> SUFFICES ASSUME NEW j \in Jobs, HooksInv, DeadlinePasses(j) PROVE HooksInv' OBVIOUS
<1> USE DEF DeadlinePasses, HooksInv, TypeOK, Pending
<1>1. TypeOK' BY DEF Rows, Batches, Copies
<1>2. NotYet' BY DEF NotYet
<1>3. AcceptedIsSaved' BY DEF AcceptedIsSaved
<1>4. BatchHolds' BY DEF BatchHolds
<1>5. ThreadHolds' BY DEF ThreadHolds
<1>6. CopiesHold' BY DEF CopiesHold, CopyHolds
<1>q. QED BY <1>1, <1>2, <1>3, <1>4, <1>5, <1>6

\* Nor does the longest wait.
LEMMA LongestWaitPassesHooks == \A j \in Jobs : HooksInv /\ LongestWaitPasses(j) => HooksInv'
<1> SUFFICES ASSUME NEW j \in Jobs, HooksInv, LongestWaitPasses(j) PROVE HooksInv' OBVIOUS
<1> USE DEF LongestWaitPasses, HooksInv, TypeOK, Pending
<1>1. TypeOK' BY DEF Rows, Batches, Copies
<1>2. NotYet' BY DEF NotYet
<1>3. AcceptedIsSaved' BY DEF AcceptedIsSaved
<1>4. BatchHolds' BY DEF BatchHolds
<1>5. ThreadHolds' BY DEF ThreadHolds
<1>6. CopiesHold' BY DEF CopiesHold, CopyHolds
<1>q. QED BY <1>1, <1>2, <1>3, <1>4, <1>5, <1>6

\* A file that could not be saved was not taken on.
LEMMA WebhookFailsHooks == \A f \in Files : HooksInv /\ WebhookFails(f) => HooksInv'
<1> SUFFICES ASSUME NEW f \in Files, HooksInv, WebhookFails(f) PROVE HooksInv' OBVIOUS
<1> USE DEF WebhookFails, LiveBatch, Spend, HooksInv, TypeOK, Pending
<1>1. TypeOK' BY DEF Rows, Batches, Copies
<1>2. NotYet' BY DEF NotYet
<1>3. AcceptedIsSaved' BY DEF AcceptedIsSaved
<1>4. BatchHolds' BY DEF BatchHolds
<1>5. ThreadHolds' BY DEF ThreadHolds
<1>6. CopiesHold' BY DEF CopiesHold, CopyHolds
<1>q. QED BY <1>1, <1>2, <1>3, <1>4, <1>5, <1>6

\* The window of duplicates moves no file.
LEMMA DuplicateWindowEndsHooks == \A f \in Files : HooksInv /\ DuplicateWindowEnds(f) => HooksInv'
<1> SUFFICES ASSUME NEW f \in Files, HooksInv, DuplicateWindowEnds(f) PROVE HooksInv' OBVIOUS
<1> USE DEF DuplicateWindowEnds, HooksInv, TypeOK, Pending
<1>1. TypeOK' BY DEF Rows, Batches, Copies
<1>2. NotYet' BY DEF NotYet
<1>3. AcceptedIsSaved' BY DEF AcceptedIsSaved
<1>4. BatchHolds' BY DEF BatchHolds
<1>5. ThreadHolds' BY DEF ThreadHolds
<1>6. CopiesHold' BY DEF CopiesHold, CopyHolds
<1>q. QED BY <1>1, <1>2, <1>3, <1>4, <1>5, <1>6

\* An obsolete callback leaves the batch alone.
LEMMA TimerIsObsoleteHooks == \A t \in Timers : HooksInv /\ TimerIsObsolete(t) => HooksInv'
<1> SUFFICES ASSUME NEW t \in Timers, HooksInv, TimerIsObsolete(t) PROVE HooksInv' OBVIOUS
<1> USE DEF TimerIsObsolete, HooksInv, TypeOK, Pending
<1>1. TypeOK' BY DEF Rows, Batches, Copies
<1>2. NotYet' BY DEF NotYet
<1>3. AcceptedIsSaved' BY DEF AcceptedIsSaved
<1>4. BatchHolds' BY DEF BatchHolds
<1>5. ThreadHolds' BY DEF ThreadHolds
<1>6. CopiesHold' BY DEF CopiesHold, CopyHolds
<1>q. QED BY <1>1, <1>2, <1>3, <1>4, <1>5, <1>6

\* An early callback arms another timer for the same batch.
LEMMA TimerIsEarlyHooks == \A t \in Timers : HooksInv /\ TimerIsEarly(t) => HooksInv'
<1> SUFFICES ASSUME NEW t \in Timers, HooksInv, TimerIsEarly(t) PROVE HooksInv' OBVIOUS
<1> USE DEF TimerIsEarly, HooksInv, TypeOK, Pending
<1>1. TypeOK'
  <2>1. PICK u \in Timers : batch' = [batch EXCEPT !.token = u] OBVIOUS
  <2>2. batch \in Batches BY DEF HoldsBatch
  <2>3. batch' \in Batches BY <2>1, <2>2 DEF Batches
  <2>q. QED BY <2>3
<1>2. NotYet' BY DEF NotYet
<1>3. AcceptedIsSaved' BY DEF AcceptedIsSaved
<1>4. BatchHolds'
  <2>1. PICK u \in Timers : batch' = [batch EXCEPT !.token = u] OBVIOUS
  <2>2. batch \in Batches BY DEF HoldsBatch
  <2>3. batch # NoBatch /\ batch'.job = batch.job /\ batch'.files = batch.files
        BY <2>1, <2>2 DEF HoldsBatch, Batches
  <2>q. QED BY <2>3 DEF BatchHolds
<1>5. ThreadHolds' BY DEF ThreadHolds
<1>6. CopiesHold' BY DEF CopiesHold, CopyHolds
<1>q. QED BY <1>1, <1>2, <1>3, <1>4, <1>5, <1>6

\* A pause moves no file.
LEMMA PauseHooks == HooksInv /\ Pause => HooksInv'
<1> SUFFICES ASSUME HooksInv, Pause PROVE HooksInv' OBVIOUS
<1> USE DEF Pause, Spend, HooksInv, TypeOK, Pending
<1>1. TypeOK' BY DEF Rows, Batches, Copies
<1>2. NotYet' BY DEF NotYet
<1>3. AcceptedIsSaved' BY DEF AcceptedIsSaved
<1>4. BatchHolds' BY DEF BatchHolds
<1>5. ThreadHolds' BY DEF ThreadHolds
<1>6. CopiesHold' BY DEF CopiesHold, CopyHolds
<1>q. QED BY <1>1, <1>2, <1>3, <1>4, <1>5, <1>6

\* Resume starts the loop over the queue.
LEMMA ResumeHooks == HooksInv /\ Resume => HooksInv'
<1> SUFFICES ASSUME HooksInv, Resume PROVE HooksInv' OBVIOUS
<1> USE DEF Resume, Idle, HooksInv, TypeOK, Pending
<1>1. TypeOK' BY DEF Rows, Batches, Copies
<1>2. NotYet' BY DEF NotYet
<1>3. AcceptedIsSaved' BY DEF AcceptedIsSaved
<1>4. BatchHolds' BY DEF BatchHolds
<1>5. ThreadHolds' BY DEF ThreadHolds
<1>6. CopiesHold' BY DEF CopiesHold, CopyHolds
<1>q. QED BY <1>1, <1>2, <1>3, <1>4, <1>5, <1>6

\* The loop copies saved rows.
LEMMA ListQueueHooks == HooksInv /\ ListQueue => HooksInv'
<1> SUFFICES ASSUME HooksInv, ListQueue PROVE HooksInv' OBVIOUS
<1> USE DEF ListQueue, HooksInv, TypeOK, Pending
<1>1. TypeOK'
  <2>1. Queued(job) \subseteq Copies BY QueuedCopies
  <2>2. drain' \in [phase : {"idle", "list", "boot", "start"}, work : SUBSET Copies, cur : Copies \cup {NoWork}]
        BY <2>1 DEF Idle
  <2>q. QED BY <2>2
<1>2. NotYet' BY DEF NotYet
<1>3. AcceptedIsSaved' BY DEF AcceptedIsSaved
<1>4. BatchHolds' BY DEF BatchHolds
<1>5. ThreadHolds' BY DEF ThreadHolds
<1>6. CopiesHold'
  <2>1. ASSUME NEW w \in Queued(job) PROVE job[w.job].status # "none" /\ CopyHolds(w)
    <3>1. /\ w \in Copies /\ job[w.job].status = "pending" /\ w.waiting = job[w.job].waiting
          /\ w.files = job[w.job].files
          BY QueuedCopies
    <3>2. w.job \in Jobs BY <3>1 DEF Copies
    <3>q. QED BY <3>1, <3>2 DEF AcceptedIsSaved, CopyHolds
  <2>2. drain'.cur = NoWork \/ drain'.cur = drain.cur BY DEF Idle
  <2>3. drain'.work = {} \/ drain'.work = Queued(job) BY DEF Idle
  <2>4. \A w : CopyHolds(w)' <=> CopyHolds(w) BY DEF CopyHolds
  <2>q. QED BY <2>1, <2>2, <2>3, <2>4 DEF CopiesHold
<1>q. QED BY <1>1, <1>2, <1>3, <1>4, <1>5, <1>6

\* A restored batch has the saved files; a copy goes on only if its job waits no more.
LEMMA EnsurePendingHooks == \A w \in drain.work : HooksInv /\ EnsurePending(w) => HooksInv'
<1> SUFFICES ASSUME NEW w \in drain.work, HooksInv, EnsurePending(w) PROVE HooksInv' OBVIOUS
<1> USE DEF EnsurePending, RestoreBatch, WaitsForBatch, HooksInv, TypeOK, Pending
<1>1. TypeOK'
  <2>1. w \in Copies OBVIOUS
  <2>2. drain' \in [phase : {"idle", "list", "boot", "start"}, work : SUBSET Copies, cur : Copies \cup {NoWork}]
        BY <2>1
  <2>3. w.job \in Jobs /\ job[w.job].files \in SUBSET Files BY <2>1 DEF Copies, Rows
  <2>4. batch' \in Batches \cup {NoBatch} BY <2>3 DEF Batches
  <2>q. QED BY <2>2, <2>4
<1>2. NotYet' BY DEF NotYet
<1>3. AcceptedIsSaved' BY DEF AcceptedIsSaved
<1>4. BatchHolds'
  <2>1. w.job \in Jobs BY DEF Copies
  <2>2. CASE batch' = batch BY <2>2 DEF BatchHolds
  <2>3. CASE batch' # batch
    <3>1. PICK t \in Timers : batch' = [job |-> w.job, files |-> job[w.job].files, token |-> t] BY <2>3
    <3>2. batch'.job = w.job /\ batch'.files = job[w.job].files /\ Pending(w.job) /\ job[w.job].waiting BY <2>3, <3>1
    <3>q. QED BY <2>1, <3>2 DEF BatchHolds, AcceptedIsSaved
  <2>q. QED BY <2>2, <2>3
<1>5. ThreadHolds' BY DEF ThreadHolds
<1>6. CopiesHold' BY DEF CopiesHold, CopyHolds
<1>q. QED BY <1>1, <1>2, <1>3, <1>4, <1>5, <1>6

\* The thread gets what the copy, or the row, has.
LEMMA StartQueuedHooks == HooksInv /\ StartQueued => HooksInv'
<1> SUFFICES ASSUME HooksInv, StartQueued PROVE HooksInv' OBVIOUS
<1> USE DEF StartQueued, StartThread, MayStart, PathsFor, HooksInv, TypeOK, Pending
<1>1. TypeOK' BY DEF Rows, Batches, Copies
<1>2. NotYet' BY DEF NotYet, CopiesHold, Copies, CopyHolds
<1>3. AcceptedIsSaved' BY DEF AcceptedIsSaved
<1>4. BatchHolds' BY DEF BatchHolds
<1>5. ThreadHolds' BY DEF ThreadHolds, CopiesHold, CopyHolds, Copies, AcceptedIsSaved
<1>6. CopiesHold' BY DEF CopiesHold, CopyHolds
<1>q. QED BY <1>1, <1>2, <1>3, <1>4, <1>5, <1>6

\* The loop has nothing left.
LEMMA DrainEndsHooks == HooksInv /\ DrainEnds => HooksInv'
<1> SUFFICES ASSUME HooksInv, DrainEnds PROVE HooksInv' OBVIOUS
<1> USE DEF DrainEnds, Idle, HooksInv, TypeOK, Pending
<1>1. TypeOK' BY DEF Rows, Batches, Copies
<1>2. NotYet' BY DEF NotYet
<1>3. AcceptedIsSaved' BY DEF AcceptedIsSaved
<1>4. BatchHolds' BY DEF BatchHolds
<1>5. ThreadHolds' BY DEF ThreadHolds
<1>6. CopiesHold' BY DEF CopiesHold, CopyHolds
<1>q. QED BY <1>1, <1>2, <1>3, <1>4, <1>5, <1>6

\* What the thread was given goes back to the row.
LEMMA FindsPauseHooks == \A j \in Jobs : HooksInv /\ FindsPause(j) => HooksInv'
<1> SUFFICES ASSUME NEW j \in Jobs, HooksInv, FindsPause(j) PROVE HooksInv' OBVIOUS
<1> USE DEF FindsPause, HooksInv, TypeOK, Pending
<1>1. TypeOK' BY DEF Rows, Batches, Copies
<1>2. NotYet' BY DEF NotYet
<1>3. AcceptedIsSaved' BY DEF AcceptedIsSaved, ThreadHolds
<1>4. BatchHolds' BY DEF BatchHolds
<1>5. ThreadHolds' BY DEF ThreadHolds
<1>6. CopiesHold' BY DEF CopiesHold, CopyHolds
<1>q. QED BY <1>1, <1>2, <1>3, <1>4, <1>5, <1>6

\* The job runs.
LEMMA BeginsHooks == \A j \in Jobs : HooksInv /\ Begins(j) => HooksInv'
<1> SUFFICES ASSUME NEW j \in Jobs, HooksInv, Begins(j) PROVE HooksInv' OBVIOUS
<1> USE DEF Begins, HooksInv, TypeOK, Pending
<1>1. TypeOK' BY DEF Rows, Batches, Copies
<1>2. NotYet' BY DEF NotYet
<1>3. AcceptedIsSaved' BY DEF AcceptedIsSaved
<1>4. BatchHolds' BY DEF BatchHolds
<1>5. ThreadHolds' BY DEF ThreadHolds
<1>6. CopiesHold' BY DEF CopiesHold, CopyHolds
<1>q. QED BY <1>1, <1>2, <1>3, <1>4, <1>5, <1>6

\* The job has run.
LEMMA EndsHooks == \A j \in Jobs : HooksInv /\ Ends(j) => HooksInv'
<1> SUFFICES ASSUME NEW j \in Jobs, HooksInv, Ends(j) PROVE HooksInv' OBVIOUS
<1> USE DEF Ends, HooksInv, TypeOK, Pending
<1>1. TypeOK' BY DEF Rows, Batches, Copies
<1>2. NotYet' BY DEF NotYet
<1>3. AcceptedIsSaved' BY DEF AcceptedIsSaved
<1>4. BatchHolds' BY DEF BatchHolds
<1>5. ThreadHolds' BY DEF ThreadHolds
<1>6. CopiesHold' BY DEF CopiesHold, CopyHolds
<1>q. QED BY <1>1, <1>2, <1>3, <1>4, <1>5, <1>6

\* The thread is gone.
LEMMA LeavesHooks == \A j \in Jobs : HooksInv /\ Leaves(j) => HooksInv'
<1> SUFFICES ASSUME NEW j \in Jobs, HooksInv, Leaves(j) PROVE HooksInv' OBVIOUS
<1> USE DEF Leaves, HooksInv, TypeOK, Pending
<1>1. TypeOK' BY DEF Rows, Batches, Copies
<1>2. NotYet' BY DEF NotYet
<1>3. AcceptedIsSaved' BY DEF AcceptedIsSaved
<1>4. BatchHolds' BY DEF BatchHolds
<1>5. ThreadHolds' BY DEF ThreadHolds
<1>6. CopiesHold' BY DEF CopiesHold, CopyHolds
<1>q. QED BY <1>1, <1>2, <1>3, <1>4, <1>5, <1>6

\* A cancel moves no file.
LEMMA CancelHooks == \A j \in Jobs : HooksInv /\ Cancel(j) => HooksInv'
<1> SUFFICES ASSUME NEW j \in Jobs, HooksInv, Cancel(j) PROVE HooksInv' OBVIOUS
<1> USE DEF Cancel, Spend, HooksInv, TypeOK, Pending
<1>1. TypeOK' BY DEF Rows, Batches, Copies
<1>2. NotYet' BY DEF NotYet
<1>3. AcceptedIsSaved' BY DEF AcceptedIsSaved
<1>4. BatchHolds' BY DEF BatchHolds
<1>5. ThreadHolds' BY DEF ThreadHolds
<1>6. CopiesHold' BY DEF CopiesHold, CopyHolds
<1>q. QED BY <1>1, <1>2, <1>3, <1>4, <1>5, <1>6

\* Only the rows are left, and the loop's copies of them.
LEMMA RestartHooks == HooksInv /\ Restart => HooksInv'
<1> SUFFICES ASSUME HooksInv, Restart PROVE HooksInv' OBVIOUS
<1> USE DEF Restart, Spend, HooksInv, TypeOK, Pending
<1>1. TypeOK'
  <2>1. Revived \in [Jobs -> Rows] BY DEF Revived, Rows
  <2>2. Queued(Revived) \subseteq Copies BY <2>1, QueuedCopies
  <2>q. QED BY <2>1, <2>2
<1>2. NotYet' BY DEF NotYet, Revived, Rows
<1>3. AcceptedIsSaved' BY DEF AcceptedIsSaved, Revived, Rows
<1>4. BatchHolds' BY DEF BatchHolds, Revived
<1>5. ThreadHolds' BY DEF ThreadHolds
<1>6. CopiesHold'
  <2>1. Revived \in [Jobs -> Rows] BY DEF Revived, Rows
  <2>2. \A j \in Jobs : accepted[j] \subseteq Revived[j].files BY DEF Revived, AcceptedIsSaved, Rows
  <2>3. ASSUME NEW w \in Queued(Revived) PROVE job'[w.job].status # "none" /\ CopyHolds(w)'
    <3>1. /\ w \in Copies /\ Revived[w.job].status = "pending" /\ w.waiting = Revived[w.job].waiting
          /\ w.files = Revived[w.job].files
          BY <2>1, QueuedCopies
    <3>2. w.job \in Jobs BY <3>1 DEF Copies
    <3>q. QED BY <2>2, <3>1, <3>2 DEF CopyHolds
  <2>q. QED BY <2>3 DEF CopiesHold
<1>q. QED BY <1>1, <1>2, <1>3, <1>4, <1>5, <1>6
\* The first file of a batch, or one more: the row and the batch take it on together.
LEMMA WebhookHooks == \A f \in Files : HooksInv /\ Webhook(f) => HooksInv'
<1> SUFFICES ASSUME NEW f \in Files, HooksInv, Webhook(f) PROVE HooksInv' OBVIOUS
<1> USE DEF HooksInv, TypeOK, Pending
<1>1. LiveBatch \in {batch, NoBatch} /\ (LiveBatch # NoBatch => Pending(LiveBatch.job)) BY DEF LiveBatch
<1>2. CASE f \in seen
  <2>1. batch' \in {batch, NoBatch} /\ UNCHANGED <<job, accepted, thread, given, drain>> BY <1>1, <1>2 DEF Webhook
  <2>2. TypeOK' /\ NotYet' /\ AcceptedIsSaved' BY <2>1 DEF NotYet, AcceptedIsSaved
  <2>3. BatchHolds' BY <2>1 DEF BatchHolds
  <2>4. ThreadHolds' /\ CopiesHold' BY <2>1 DEF ThreadHolds, CopiesHold, CopyHolds
  <2>q. QED BY <2>2, <2>3, <2>4
<1>3. CASE f \notin seen /\ LiveBatch = NoBatch
  <2>1. PICK j \in Jobs, t \in Timers :
          /\ job[j].status = "none"
          /\ job' = [job EXCEPT ![j] = [status |-> "pending", waiting |-> TRUE, files |-> {f},
                                        due |-> FALSE, aged |-> FALSE]]
          /\ batch' = [job |-> j, files |-> {f}, token |-> t]
          /\ accepted' = [accepted EXCEPT ![j] = {f}]
        BY <1>3 DEF Webhook, OpenBatch
  <2>2. UNCHANGED <<thread, given, drain>> BY DEF Webhook
  <2>3. TypeOK' BY <2>1, <2>2 DEF Rows, Batches
  <2>4. NotYet' /\ AcceptedIsSaved' BY <2>1, <2>2 DEF NotYet, AcceptedIsSaved
  <2>5. BatchHolds' BY <2>1 DEF BatchHolds
  <2>6. ThreadHolds' BY <2>1, <2>2 DEF ThreadHolds, NotYet
  <2>7. CopiesHold' BY <2>1, <2>2 DEF CopiesHold, CopyHolds
  <2>q. QED BY <2>3, <2>4, <2>5, <2>6, <2>7
<1>4. CASE f \notin seen /\ LiveBatch # NoBatch
  <2> DEFINE j == batch.job
  <2>1. /\ LiveBatch = batch /\ batch \in Batches /\ batch # NoBatch /\ j \in Jobs /\ Pending(j)
        BY <1>1, <1>4 DEF Batches
  <2>2. PICK t \in Timers :
          /\ batch' = [batch EXCEPT !.files = @ \cup {f}, !.token = t]
          /\ job' = [job EXCEPT ![j].files = batch.files \cup {f}, ![j].waiting = TRUE,
                                ![j].due = JoinedDeadlinePassed(j)]
          /\ accepted' = [accepted EXCEPT ![j] = @ \cup {f}]
        BY <1>4, <2>1 DEF Webhook, JoinBatch
  <2>3. UNCHANGED <<thread, given, drain>> BY DEF Webhook
  <2>4. job[j].waiting /\ accepted[j] \subseteq batch.files BY <2>1 DEF BatchHolds
  <2> HIDE DEF j
  <2>5. batch' \in Batches /\ batch'.job = j /\ batch'.files = batch.files \cup {f} /\ batch.files \in SUBSET Files
        BY <2>1, <2>2 DEF Batches, j
  <2>6. TypeOK'
    <3>1. job[j] \in Rows BY <2>1
    <3>2. [job[j] EXCEPT !.files = batch.files \cup {f}, !.waiting = TRUE, !.due = JoinedDeadlinePassed(j)] \in Rows
          BY <2>5, <3>1 DEF Rows, JoinedDeadlinePassed
    <3>3. job' \in [Jobs -> Rows] BY <2>1, <2>2, <3>2
    <3>4. accepted' \in [Jobs -> SUBSET Files] BY <2>1, <2>2
    <3>q. QED BY <2>3, <2>5, <3>3, <3>4
  <2>7. NotYet' BY <2>1, <2>2, <2>3 DEF NotYet
  <2>8. AcceptedIsSaved' BY <2>1, <2>2, <2>4 DEF AcceptedIsSaved
  <2>9. BatchHolds' BY <2>1, <2>2, <2>4, <2>5 DEF BatchHolds
  <2>10. ThreadHolds' BY <2>1, <2>2, <2>3, <2>4 DEF ThreadHolds
  <2>11. CopiesHold' BY <2>1, <2>2, <2>3, <2>4 DEF CopiesHold, CopyHolds, Copies
  <2>q. QED BY <2>6, <2>7, <2>8, <2>9, <2>10, <2>11
<1>q. QED BY <1>2, <1>3, <1>4

\* A claimed batch goes to its job with all its files, or stays with the row when the dispatch fails.
LEMMA ClaimHooks ==
  ASSUME HooksInv, batch # NoBatch, Claim, UNCHANGED <<drain, accepted>>
  PROVE  HooksInv'
<1> USE DEF HooksInv, TypeOK, Pending
<1> DEFINE j == batch.job
<1>1. batch \in Batches /\ j \in Jobs /\ batch.files \in SUBSET Files /\ batch' = NoBatch BY DEF Batches, Claim
<1>2. CASE ~Pending(j)
  <2>1. UNCHANGED <<job, thread, given>> BY <1>2 DEF Claim
  <2>2. TypeOK' /\ NotYet' /\ AcceptedIsSaved' BY <1>1, <2>1 DEF NotYet, AcceptedIsSaved
  <2>3. BatchHolds' /\ ThreadHolds' /\ CopiesHold'
        BY <1>1, <2>1 DEF BatchHolds, ThreadHolds, CopiesHold, CopyHolds
  <2>q. QED BY <2>2, <2>3
<1>3. CASE Pending(j)
  <2>1. /\ job' \in {job, Ready(batch)}
        /\ \/ UNCHANGED <<thread, given>>
           \/ /\ job' = Ready(batch) /\ thread' = [thread EXCEPT ![j] = "check"]
              /\ given' = [given EXCEPT ![j] = batch.files]
        BY <1>3 DEF Claim, Dispatch, DispatchFails, StartThread
  <2>2. job[j].waiting /\ accepted[j] \subseteq batch.files BY <1>3 DEF BatchHolds
  <2>3. Ready(batch) = [job EXCEPT ![j] = [status |-> "pending", waiting |-> FALSE, files |-> batch.files,
                                           due |-> FALSE, aged |-> FALSE]]
        BY DEF Ready
  <2> HIDE DEF j
  <2>4. TypeOK'
    <3>1. Ready(batch) \in [Jobs -> Rows] BY <1>1, <2>3 DEF Rows
    <3>2. thread' \in [Jobs -> {"none", "check", "run", "leave"}] BY <1>1, <2>1
    <3>3. given' \in [Jobs -> SUBSET Files] BY <1>1, <2>1
    <3>q. QED BY <1>1, <2>1, <3>1, <3>2, <3>3
  <2>5. NotYet' BY <1>1, <1>3, <2>1, <2>3 DEF NotYet
  <2>6. AcceptedIsSaved' BY <1>1, <2>1, <2>2, <2>3 DEF AcceptedIsSaved
  <2>7. BatchHolds' BY <1>1 DEF BatchHolds
  <2>8. ThreadHolds' BY <1>1, <2>1, <2>2, <2>3 DEF ThreadHolds
  <2>9. CopiesHold' BY <1>1, <1>3, <2>1, <2>3 DEF CopiesHold, CopyHolds, Copies
  <2>q. QED BY <2>4, <2>5, <2>6, <2>7, <2>8, <2>9
<1>q. QED BY <1>2, <1>3

\* Nothing exists yet.
LEMMA InitHooks == Init => HooksInv
<1> SUFFICES ASSUME Init PROVE HooksInv OBVIOUS
<1> USE DEF Init, Idle
<1>1. TypeOK BY DEF TypeOK, Rows
<1>2. NotYet /\ AcceptedIsSaved /\ BatchHolds BY DEF NotYet, AcceptedIsSaved, BatchHolds
<1>3. ThreadHolds /\ CopiesHold BY DEF ThreadHolds, CopiesHold
<1>q. QED BY <1>1, <1>2, <1>3 DEF HooksInv

\* Every step keeps the invariant.
LEMMA StepHooks == HooksInv /\ [Next]_vars => HooksInv'
<1> SUFFICES ASSUME HooksInv, [Next]_vars PROVE HooksInv' OBVIOUS
<1>1. CASE TimerWakes \/ FireNow \/ Pause \/ Resume
      BY <1>1, TimerWakesHooks, ClaimHooks, PauseHooks, ResumeHooks DEF FireNow
<1>2. CASE ListQueue \/ StartQueued \/ DrainEnds \/ Restart
      BY <1>2, ListQueueHooks, StartQueuedHooks, DrainEndsHooks, RestartHooks
<1>3. CASE \E f \in Files : Webhook(f) \/ WebhookFails(f) \/ DuplicateWindowEnds(f)
      BY <1>3, WebhookHooks, WebhookFailsHooks, DuplicateWindowEndsHooks
<1>4. CASE \E t \in Timers : TimerIsObsolete(t) \/ TimerIsEarly(t) \/ TimerClaims(t)
      BY <1>4, TimerIsObsoleteHooks, TimerIsEarlyHooks, ClaimHooks DEF TimerClaims, HoldsBatch
<1>5. CASE \E w \in drain.work : EnsurePending(w) BY <1>5, EnsurePendingHooks
<1>6. CASE \E j \in Jobs : DeadlinePasses(j) \/ LongestWaitPasses(j)
      BY <1>6, DeadlinePassesHooks, LongestWaitPassesHooks
<1>7. CASE \E j \in Jobs : FindsPause(j) \/ Begins(j) \/ Ends(j) \/ Leaves(j) \/ Cancel(j)
      BY <1>7, FindsPauseHooks, BeginsHooks, EndsHooks, LeavesHooks, CancelHooks
<1>8. CASE UNCHANGED vars
  <2>1. TypeOK' /\ NotYet' /\ AcceptedIsSaved' BY <1>8 DEF vars, HooksInv, TypeOK, NotYet, AcceptedIsSaved
  <2>2. BatchHolds' /\ ThreadHolds' /\ CopiesHold'
        BY <1>8 DEF vars, HooksInv, BatchHolds, Pending, ThreadHolds, CopiesHold, CopyHolds
  <2>q. QED BY <2>1, <2>2 DEF HooksInv
<1>q. QED BY <1>1, <1>2, <1>3, <1>4, <1>5, <1>6, <1>7, <1>8 DEF Next

\* The invariant holds in every reachable state.
THEOREM InvariantHolds == Spec => []HooksInv
<1>q. QED BY InitHooks, StepHooks, PTL DEF Spec

\* schedule_webhook_job and the restart: every file a job took on is in its saved paths from then on.
THEOREM AcceptedHolds == Spec => []AcceptedIsSaved
<1>1. HooksInv => AcceptedIsSaved BY DEF HooksInv
<1>q. QED BY <1>1, InvariantHolds, PTL

\* _start_job_async and _dispatch_webhook_batch: a job's thread works on every file the job took on.
THEOREM RunsHolds == Spec => []RunsEveryFile
<1>1. HooksInv => RunsEveryFile BY DEF HooksInv, ThreadHolds, RunsEveryFile
<1>q. QED BY <1>1, InvariantHolds, PTL
=============================================================================
