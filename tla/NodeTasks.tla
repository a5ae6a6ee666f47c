----------------------------- MODULE NodeTasks -----------------------------
(***************************************************************************)
(* One file's tries on one node: the app's side of each task               *)
(* (nodes/executor.py), the node's task table (nodes/server/tasks.py) and  *)
(* the requests between them, which may be lost or late, while the job is  *)
(* cancelled or paused, the app stops and the node restarts.               *)
(*                                                                         *)
(* A try is its task's id, as the app gives it to the start.  A poll, a    *)
(* fetch and a cancel are one step at the node; a start and a DELETE are   *)
(* on the way for a while.  Waits decide only that a step comes late.      *)
(* Log lines, progress, GPUs, wrong keys and a full temp folder are left   *)
(* out.  A connection does not outlive the node's process.                 *)
(***************************************************************************)
EXTENDS Integers, FiniteSets

CONSTANTS
  Tries,       \* bound: tries of the file
  MaxLost,     \* bound: answers that never come while the node is up, or come too late
  MaxDown,     \* bound: stops and crashes of the node
  MaxWaits,    \* bound: answers by which the node asks this address to wait
  MaxPauses    \* bound: flips of the job's pause

ASSUME BoundsAssumption == Tries \in Nat \ {0} /\ {MaxLost, MaxDown, MaxWaits, MaxPauses} \subseteq Nat

Ids == 1..Tries

VARIABLES
  pc, outcome,     \* the app's run of each try, and how it ended
  seen, told,      \* its cancel was seen, and reached the node
  sentPause,       \* the pause the node was sent
  held,            \* polls have been held back for as long as the node keeps an unpolled task
  asked, sends,    \* the thread that frees the task: waits for an answer, DELETEs it has left to send
  keeps,           \* an unanswered DELETE is kept for the node's next answer
  pending,         \* _pending_deletes
  job,             \* the job: cancelled, paused
  app,             \* "up", "stopping" (request_shutdown) or "gone"
  starts, deletes, \* requests on the way
  answer,          \* the node's answer to a start
  node,            \* "up", "closing" (_stop set), "closed" (close() collected the tasks) or "down"
  table,           \* ids in _tasks
  op,              \* the op's thread
  status,          \* what it finished with
  cancelled, paused, discarded,   \* the task's flags
  dropping,        \* tasks out of the table, or stopped, on their way to _discard
  stopped, toldStop,              \* stopped_by_node, told_stopping
  dir,             \* tasks whose temp dir is there
  gone,            \* _deleted_unknown
  budget,          \* bounded steps taken
  deleted,         \* history: ids whose DELETE this process of the node has served
  blamed           \* history: tries whose node went away, or went silent, without telling

appVars == <<pc, outcome, seen, told, sentPause, held>>
freeVars == <<asked, sends, keeps, pending>>
netVars == <<starts, deletes, answer>>
taskVars == <<table, op, status, cancelled, paused, discarded, dropping, dir>>
stopVars == <<node, stopped, toldStop, gone, deleted>>
vars == <<appVars, freeVars, job, app, netVars, taskVars, stopVars, budget, blamed>>

TypeOK ==
  /\ pc \in [Ids -> {"new", "added", "starting", "polling", "fetching", "over"}]
  /\ outcome \in [Ids -> {"none", "published", "failed", "cancelled", "returned", "dropped"}]
  /\ seen \in [Ids -> BOOLEAN] /\ told \in [Ids -> BOOLEAN] /\ sentPause \in [Ids -> BOOLEAN] /\ held \in [Ids -> BOOLEAN]
  /\ asked \subseteq Ids /\ sends \in [Ids -> 0..3] /\ keeps \subseteq Ids /\ pending \subseteq Ids
  /\ job \in [cancelled : BOOLEAN, paused : BOOLEAN] /\ app \in {"up", "stopping", "gone"}
  /\ starts \subseteq Ids /\ deletes \subseteq Ids /\ answer \in [Ids -> {"none", "ok", "refused"}]
  /\ node \in {"up", "closing", "closed", "down"} /\ gone \cup deleted \subseteq Ids /\ toldStop \subseteq stopped
  /\ op \in [Ids -> {"no", "making", "running", "finished", "ended"}] /\ status \in [Ids -> {"none", "done", "failed", "cancelled"}]
  /\ table \cup cancelled \cup paused \cup discarded \cup dropping \cup stopped \cup dir \cup blamed \subseteq Ids

Init ==
  /\ pc = [i \in Ids |-> "new"] /\ outcome = [i \in Ids |-> "none"] /\ seen = [i \in Ids |-> FALSE]
  /\ told = seen /\ sentPause = seen /\ held = seen
  /\ asked = {} /\ sends = [i \in Ids |-> 0] /\ keeps = {} /\ pending = {}
  /\ job = [cancelled |-> FALSE, paused |-> FALSE] /\ app = "up"
  /\ starts = {} /\ deletes = {} /\ answer = [i \in Ids |-> "none"]
  /\ node = "up" /\ stopped = {} /\ toldStop = {} /\ gone = {} /\ deleted = {}
  /\ table = {} /\ op = [i \in Ids |-> "no"] /\ status = [i \in Ids |-> "none"] /\ cancelled = {} /\ paused = {}
  /\ discarded = {} /\ dropping = {} /\ dir = {}
  /\ budget = [lost |-> 0, down |-> 0, waits |-> 0, pauses |-> 0] /\ blamed = {}

AppRuns == app # "gone"
Serving == node # "down"
Loses == budget.lost < MaxLost /\ budget' = [budget EXCEPT !.lost = @ + 1]
Finished(i) == op[i] \in {"finished", "ended"}
Requeued(i) == outcome[i] \in {"returned", "dropped"}

-----------------------------------------------------------------------------
(* The app: run_on_node and _TaskRun                                       *)

\* How a run ends that could not be finished: a cancelled job's file, or one freed by the app's stop, is not queued again.
Unavailable(i, how) == IF seen[i] \/ app = "stopping" THEN "cancelled" ELSE how

\* The run is over; free: its task is deleted on the node, from a thread.
End(i, how, free) ==
  /\ pc' = [pc EXCEPT ![i] = "over"] /\ outcome' = [outcome EXCEPT ![i] = how]
  /\ seen' = [seen EXCEPT ![i] = FALSE] /\ told' = [told EXCEPT ![i] = FALSE]
  /\ sentPause' = [sentPause EXCEPT ![i] = FALSE] /\ held' = [held EXCEPT ![i] = FALSE]
  /\ sends' = [sends EXCEPT ![i] = IF free THEN 3 ELSE @]
  /\ keeps' = IF free THEN keeps \cup {i} ELSE keeps
  /\ UNCHANGED <<asked, pending>>

\* A worker takes the file: for the first time, or because the last try gave it back.
Add(i) ==
  /\ app = "up" /\ pc[i] = "new" /\ ~job.cancelled
  /\ \A j \in Ids : j < i => pc[j] = "over" /\ Requeued(j)
  /\ pc' = [pc EXCEPT ![i] = "added"]
  /\ UNCHANGED <<outcome, seen, told, sentPause, held, freeVars, job, app, netVars, taskVars, stopVars, budget, blamed>>

Send(i) ==
  /\ AppRuns /\ pc[i] = "added" /\ Serving
  /\ pc' = [pc EXCEPT ![i] = "starting"] /\ starts' = starts \cup {i}
  /\ UNCHANGED <<outcome, seen, told, sentPause, held, freeVars, job, app, deletes, answer, taskVars, stopVars, budget, blamed>>

\* The connection is never made.
SendFails(i) ==
  /\ AppRuns /\ pc[i] = "added" /\ ~Serving
  /\ End(i, Unavailable(i, "returned"), FALSE)
  /\ UNCHANGED <<job, app, netVars, taskVars, stopVars, budget, blamed>>

\* No answer to the start: the node may have it, so it is told to free the task.
StartUnanswered(i) ==
  /\ AppRuns /\ pc[i] = "starting"
  /\ \/ Loses /\ (starts' = starts \/ starts' = starts \ {i})
     \/ i \notin starts /\ op[i] # "making" /\ answer[i] = "none" /\ UNCHANGED <<starts, budget>>
  /\ End(i, Unavailable(i, "returned"), TRUE) /\ answer' = [answer EXCEPT ![i] = "none"]
  /\ UNCHANGED <<job, app, deletes, taskVars, stopVars, blamed>>

Started(i) ==
  /\ AppRuns /\ pc[i] = "starting" /\ answer[i] = "ok"
  /\ pc' = [pc EXCEPT ![i] = "polling"] /\ answer' = [answer EXCEPT ![i] = "none"]
  /\ UNCHANGED <<outcome, seen, told, sentPause, held, freeVars, job, app, starts, deletes, taskVars, stopVars, budget, blamed>>

Refused(i) ==
  /\ AppRuns /\ pc[i] = "starting" /\ answer[i] = "refused"
  /\ End(i, Unavailable(i, "returned"), FALSE) /\ answer' = [answer EXCEPT ![i] = "none"]
  /\ UNCHANGED <<job, app, starts, deletes, taskVars, stopVars, budget, blamed>>

\* A cancel that waits until the job is resumed.
SeeCancelResumed(i) ==
  /\ AppRuns /\ pc[i] = "polling" /\ job.cancelled /\ ~seen[i] /\ sentPause[i] = job.paused /\ ~job.paused
  /\ seen' = [seen EXCEPT ![i] = TRUE]
  /\ UNCHANGED <<pc, outcome, told, sentPause, held, freeVars, job, app, netVars, taskVars, stopVars, budget, blamed>>
SeeCancel(i) ==
  /\ AppRuns /\ pc[i] = "polling" /\ job.cancelled /\ ~seen[i]
  /\ seen' = [seen EXCEPT ![i] = TRUE]
  /\ UNCHANGED <<pc, outcome, told, sentPause, held, freeVars, job, app, netVars, taskVars, stopVars, budget, blamed>>

ForwardCancel(i) ==
  /\ AppRuns /\ pc[i] = "polling" /\ seen[i] /\ ~told[i] /\ Serving /\ i \in table
  /\ told' = [told EXCEPT ![i] = TRUE] /\ cancelled' = cancelled \cup {i}
  /\ UNCHANGED <<pc, outcome, seen, sentPause, held, freeVars, job, app, netVars, table, op, status, paused, discarded, dropping, dir, stopVars, budget, blamed>>

ForwardPause(i) ==
  /\ AppRuns /\ pc[i] = "polling" /\ ~seen[i] /\ ~job.cancelled /\ sentPause[i] # job.paused /\ Serving /\ i \in table
  /\ sentPause' = [sentPause EXCEPT ![i] = job.paused]
  /\ paused' = IF job.paused THEN paused \cup {i} ELSE paused \ {i}
  /\ UNCHANGED <<pc, outcome, seen, told, held, freeVars, job, app, netVars, table, op, status, cancelled, discarded, dropping, dir, stopVars, budget, blamed>>

\* The node's answer to a request about the task: it stopped the task and says so, it does not know it, or it knows it.
AnswerStopping(i) == i \in table /\ i \in stopped
AnswerUnknown(i) == i \notin table
AnswerKnown(i) == i \in table /\ i \notin stopped

\* A poll finds the task working, which counts as contact and ends a hold.
PollRunning(i) ==
  /\ AppRuns /\ pc[i] = "polling" /\ Serving /\ AnswerKnown(i) /\ ~Finished(i) /\ held[i]
  /\ held' = [held EXCEPT ![i] = FALSE]
  /\ UNCHANGED <<pc, outcome, seen, told, sentPause, freeVars, job, app, netVars, taskVars, stopVars, budget, blamed>>

PollDone(i) ==
  /\ AppRuns /\ pc[i] = "polling" /\ Serving /\ AnswerKnown(i) /\ Finished(i) /\ status[i] = "done"
  /\ pc' = [pc EXCEPT ![i] = "fetching"] /\ held' = [held EXCEPT ![i] = FALSE]
  /\ UNCHANGED <<outcome, seen, told, sentPause, freeVars, job, app, netVars, taskVars, stopVars, budget, blamed>>

PollEnded(i) ==
  /\ AppRuns /\ pc[i] = "polling" /\ Serving /\ AnswerKnown(i) /\ Finished(i) /\ status[i] # "done"
  /\ End(i, status[i], TRUE)
  /\ UNCHANGED <<job, app, netVars, taskVars, stopVars, budget, blamed>>

\* A node that no longer knows the task dropped the file, unless it held this app back for so long.
PollUnknown(i) ==
  /\ AppRuns /\ pc[i] = "polling" /\ Serving /\ AnswerUnknown(i)
  /\ End(i, Unavailable(i, IF held[i] THEN "returned" ELSE "dropped"), FALSE)
  /\ UNCHANGED <<job, app, netVars, taskVars, stopVars, budget, blamed>>

PollStopping(i) ==
  /\ AppRuns /\ pc[i] = "polling" /\ Serving /\ AnswerStopping(i)
  /\ toldStop' = toldStop \cup {i}
  /\ End(i, Unavailable(i, "returned"), TRUE)
  /\ UNCHANGED <<job, app, netVars, taskVars, node, stopped, gone, deleted, budget, blamed>>

\* The node asks this address to wait (429) until it drops the task for want of a poll.
PollHeld(i) ==
  /\ AppRuns /\ pc[i] = "polling" /\ Serving /\ ~held[i]
  /\ budget.waits < MaxWaits /\ budget' = [budget EXCEPT !.waits = @ + 1]
  /\ held' = [held EXCEPT ![i] = TRUE]
  /\ UNCHANGED <<pc, outcome, seen, told, sentPause, freeVars, job, app, netVars, taskVars, stopVars, blamed>>

GiveUpHeld(i) ==
  /\ AppRuns /\ pc[i] = "polling" /\ held[i]
  /\ End(i, Unavailable(i, "returned"), TRUE)
  /\ UNCHANGED <<job, app, netVars, taskVars, stopVars, budget, blamed>>

\* Polls, or fetches, go unanswered until the node counts as gone.
Silent(i) ==
  /\ AppRuns /\ pc[i] \in {"polling", "fetching"}
  /\ IF Serving THEN Loses ELSE UNCHANGED budget
  /\ End(i, IF pc[i] = "fetching" /\ job.cancelled THEN "cancelled" ELSE Unavailable(i, "dropped"), TRUE)
  /\ blamed' = blamed \cup {i}
  /\ UNCHANGED <<job, app, netVars, taskVars, stopVars>>

CancelWaitOver(i) ==
  /\ AppRuns /\ pc[i] = "polling" /\ seen[i] /\ Serving /\ (AnswerKnown(i) \/ held[i])
  /\ End(i, "cancelled", TRUE)
  /\ UNCHANGED <<job, app, netVars, taskVars, stopVars, budget, blamed>>

Fetch(i) ==
  /\ AppRuns /\ pc[i] = "fetching" /\ Serving
  /\ \/ AnswerKnown(i) /\ End(i, "published", TRUE) /\ UNCHANGED toldStop
     \/ AnswerUnknown(i) /\ End(i, Unavailable(i, "dropped"), TRUE) /\ UNCHANGED toldStop
     \/ AnswerStopping(i) /\ End(i, Unavailable(i, "returned"), TRUE) /\ toldStop' = toldStop \cup {i}
     \/ (job.cancelled \/ app = "stopping") /\ End(i, "cancelled", TRUE) /\ UNCHANGED toldStop
  /\ UNCHANGED <<job, app, netVars, taskVars, node, stopped, gone, deleted, budget, blamed>>

-----------------------------------------------------------------------------
(* Freeing a task: the DELETE's thread, the DELETEs kept for a node that   *)
(* was silent, and the app's stop                                          *)

SendDelete(i) ==
  /\ AppRuns /\ sends[i] > 0 /\ i \notin asked
  /\ IF Serving THEN asked' = asked \cup {i} /\ deletes' = deletes \cup {i} /\ UNCHANGED <<sends, keeps, pending>>
     ELSE /\ sends' = [sends EXCEPT ![i] = @ - 1] /\ UNCHANGED <<asked, deletes>>
          /\ IF sends[i] = 1 THEN pending' = pending \cup (keeps \cap {i}) /\ keeps' = keeps \ {i}
             ELSE UNCHANGED <<pending, keeps>>
  /\ UNCHANGED <<appVars, job, app, starts, answer, taskVars, stopVars, budget, blamed>>

DeleteUnanswered(i) ==
  /\ AppRuns /\ i \in asked
  /\ \/ Loses /\ (deletes' = deletes \/ deletes' = deletes \ {i})
     \/ i \notin deletes /\ UNCHANGED <<deletes, budget>>
  /\ asked' = asked \ {i} /\ sends' = [sends EXCEPT ![i] = @ - 1]
  /\ IF sends[i] = 1 THEN pending' = pending \cup (keeps \cap {i}) /\ keeps' = keeps \ {i}
     ELSE UNCHANGED <<pending, keeps>>
  /\ UNCHANGED <<appVars, job, app, starts, answer, taskVars, stopVars, blamed>>

\* A check heard the node: the kept DELETEs are sent once more.
SendPending ==
  /\ app = "up" /\ pending # {} /\ node = "up"
  /\ pending' = {} /\ keeps' = keeps \cup pending
  /\ sends' = [i \in Ids |-> IF i \in pending THEN 1 ELSE sends[i]]
  /\ UNCHANGED <<appVars, asked, job, app, netVars, taskVars, stopVars, budget, blamed>>

\* cancel_running_tasks: one DELETE for every run under way, by the id its start asked for.
StopApp ==
  /\ app = "up" /\ app' = "stopping"
  /\ LET running == {i \in Ids : pc[i] \in {"added", "starting", "polling", "fetching"}}
     IN deletes' = IF Serving THEN deletes \cup running ELSE deletes
  /\ UNCHANGED <<appVars, freeVars, job, starts, answer, taskVars, stopVars, budget, blamed>>

\* The process ends, at any moment; what it sent may still arrive.
ExitApp ==
  /\ AppRuns /\ app' = "gone" /\ asked' = {} /\ sends' = [i \in Ids |-> 0] /\ keeps' = {} /\ pending' = {}
  /\ pc' = [i \in Ids |-> IF pc[i] = "new" THEN "new" ELSE "over"]
  /\ seen' = [i \in Ids |-> FALSE] /\ told' = seen' /\ sentPause' = seen' /\ held' = seen'
  /\ UNCHANGED <<outcome, job, netVars, taskVars, stopVars, budget, blamed>>

CancelJob == /\ AppRuns /\ ~job.cancelled /\ job' = [job EXCEPT !.cancelled = TRUE]
             /\ UNCHANGED <<appVars, freeVars, app, netVars, taskVars, stopVars, budget, blamed>>

PauseJob == /\ AppRuns /\ budget.pauses < MaxPauses /\ budget' = [budget EXCEPT !.pauses = @ + 1]
            /\ job' = [job EXCEPT !.paused = ~@]
            /\ UNCHANGED <<appVars, freeVars, app, netVars, taskVars, stopVars, blamed>>

-----------------------------------------------------------------------------
(* The node: TaskTable                                                     *)

\* _refuse_stopping, _refuse_deleted: asked before the temp dir is made, and again under the lock that registers.
Refuses(i) == node # "up" \/ i \in gone

\* The answer to a start, which somebody may still wait for.
Reply(i, a) == answer' = [answer EXCEPT ![i] = IF pc[i] = "starting" THEN a ELSE "none"]

MakeDir(i) ==
  /\ Serving /\ i \in starts /\ starts' = starts \ {i}
  /\ IF Refuses(i)
     THEN Reply(i, "refused") /\ UNCHANGED <<op, dir>>
     ELSE op' = [op EXCEPT ![i] = "making"] /\ dir' = dir \cup {i} /\ UNCHANGED answer
  /\ UNCHANGED <<appVars, freeVars, job, app, deletes, table, status, cancelled, paused, discarded, dropping, stopVars, budget, blamed>>

\* A registration that does not ask again.
RegisterUnchecked(i) ==
  /\ op[i] = "making"
  /\ Reply(i, "ok") /\ op' = [op EXCEPT ![i] = "running"] /\ table' = table \cup {i}
  /\ UNCHANGED <<appVars, freeVars, job, app, starts, deletes, status, cancelled, paused, discarded, dropping, dir, stopVars, budget, blamed>>
Register(i) ==
  /\ op[i] = "making"
  /\ IF Refuses(i)
     THEN /\ Reply(i, "refused") /\ op' = [op EXCEPT ![i] = "no"] /\ dir' = dir \ {i}
          /\ UNCHANGED table
     ELSE /\ Reply(i, "ok") /\ op' = [op EXCEPT ![i] = "running"] /\ table' = table \cup {i}
          /\ UNCHANGED dir
  /\ UNCHANGED <<appVars, freeVars, job, app, starts, deletes, status, cancelled, paused, discarded, dropping, stopVars, budget, blamed>>

\* What an op's pause_check answers: a cancelled task never reads as paused.
Paused(i) == i \in paused /\ i \notin cancelled

\* The op returns or raises, and its task is finished.
OpReturns(i) ==
  /\ op[i] = "running" /\ ~Paused(i) /\ op' = [op EXCEPT ![i] = "finished"]
  /\ \E s \in (IF i \in cancelled THEN {"cancelled"} ELSE {"done", "failed"}) : status' = [status EXCEPT ![i] = s]
  /\ UNCHANGED <<appVars, freeVars, job, app, netVars, table, cancelled, paused, discarded, dropping, dir, stopVars, budget, blamed>>

\* _run's finally: a task discarded meanwhile leaves its temp dir to its own thread.
ThreadEnds(i) ==
  /\ op[i] = "finished" /\ op' = [op EXCEPT ![i] = "ended"]
  /\ dir' = IF i \in discarded THEN dir \ {i} ELSE dir
  /\ UNCHANGED <<appVars, freeVars, job, app, netVars, table, status, cancelled, paused, discarded, dropping, stopVars, budget, blamed>>

\* The set of ids a DELETE that found no task leaves behind.
RefusedAfter(i) == IF i \in table THEN gone ELSE gone \cup {i}

HandleDelete(i) ==
  /\ Serving /\ i \in deletes /\ deletes' = deletes \ {i} /\ deleted' = deleted \cup {i}
  /\ table' = table \ {i} /\ dropping' = IF i \in table THEN dropping \cup {i} ELSE dropping
  /\ gone' = RefusedAfter(i)
  /\ asked' = asked \ {i} /\ sends' = [sends EXCEPT ![i] = IF i \in asked THEN 0 ELSE @] /\ keeps' = keeps \ (asked \cap {i})
  /\ UNCHANGED <<appVars, pending, job, app, starts, answer, op, status, cancelled, paused, discarded, dir, node, stopped, toldStop, budget, blamed>>

\* A discard that leaves the temp dir to a thread that may be past looking.
DiscardForThread(i) ==
  /\ i \in dropping /\ dropping' = dropping \ {i}
  /\ discarded' = discarded \cup {i} /\ cancelled' = cancelled \cup {i} /\ UNCHANGED dir
  /\ UNCHANGED <<appVars, freeVars, job, app, netVars, table, op, status, paused, stopVars, budget, blamed>>
Discard(i) ==
  /\ i \in dropping /\ dropping' = dropping \ {i}
  /\ discarded' = discarded \cup {i} /\ cancelled' = cancelled \cup {i}
  /\ dir' = IF Finished(i) THEN dir \ {i} ELSE dir
  /\ UNCHANGED <<appVars, freeVars, job, app, netVars, table, op, status, paused, stopVars, budget, blamed>>

\* Nobody has asked after the task for as long as the node keeps it: the run is over, or the node holds the app back.
Unpolled(i) == pc[i] = "over" \/ (pc[i] = "polling" /\ held[i])
Reap(i) ==
  /\ node = "up" /\ i \in table /\ Unpolled(i)
  /\ table' = table \ {i} /\ dropping' = dropping \cup {i}
  /\ UNCHANGED <<appVars, freeVars, job, app, netVars, op, status, cancelled, paused, discarded, dir, stopVars, budget, blamed>>

-----------------------------------------------------------------------------
(* The node's stop, its end and its next start                             *)

BeginClose ==
  /\ node = "up" /\ budget.down < MaxDown /\ budget' = [budget EXCEPT !.down = @ + 1]
  /\ node' = "closing"
  /\ UNCHANGED <<appVars, freeVars, job, app, netVars, taskVars, stopped, toldStop, gone, deleted, blamed>>

\* A close that forgets its tasks, so that they read as unknown.
CollectForgetting ==
  /\ node = "closing" /\ node' = "closed" /\ dropping' = dropping \cup table /\ table' = {}
  /\ UNCHANGED <<appVars, freeVars, job, app, netVars, op, status, cancelled, paused, discarded, dir, stopped, toldStop, gone, deleted, budget, blamed>>
Collect ==
  /\ node = "closing" /\ node' = "closed" /\ stopped' = table /\ dropping' = dropping \cup table
  /\ UNCHANGED <<appVars, freeVars, job, app, netVars, table, op, status, cancelled, paused, discarded, dir, toldStop, gone, deleted, budget, blamed>>

\* The process is gone, and every request it was serving with it.  Tasks it leaves untold read as dropped files.
Untold == table \ toldStop
Exit ==
  /\ node' = "down" /\ blamed' = blamed \cup Untold
  /\ table' = {} /\ dropping' = {} /\ stopped' = {} /\ toldStop' = {} /\ gone' = {} /\ deleted' = {}
  /\ op' = [i \in Ids |-> IF op[i] = "no" THEN "no" ELSE "ended"]
  /\ starts' = {} /\ deletes' = {}
  /\ UNCHANGED <<appVars, freeVars, job, app, answer, status, cancelled, paused, discarded, dir>>

\* The stop has waited for its ops and for the app to ask after each task, or both for long enough.
EndClose == node = "closed" /\ dropping = {} /\ Exit /\ UNCHANGED budget

Crash == node \in {"up", "closing"} /\ budget.down < MaxDown /\ budget' = [budget EXCEPT !.down = @ + 1] /\ Exit

\* A new process removes what an earlier one left in the temp folder.
StartNode ==
  /\ node = "down" /\ node' = "up" /\ dir' = {}
  /\ UNCHANGED <<appVars, freeVars, job, app, netVars, table, op, status, cancelled, paused, discarded, dropping, stopped, toldStop, gone, deleted, budget, blamed>>

-----------------------------------------------------------------------------

AppStep(i) ==
  \/ Send(i) \/ SendFails(i) \/ StartUnanswered(i) \/ Started(i) \/ Refused(i) \/ SeeCancel(i) \/ ForwardCancel(i)
  \/ ForwardPause(i) \/ PollRunning(i) \/ PollDone(i) \/ PollEnded(i) \/ PollUnknown(i) \/ PollStopping(i)
  \/ GiveUpHeld(i) \/ Silent(i) \/ CancelWaitOver(i) \/ Fetch(i) \/ SendDelete(i) \/ DeleteUnanswered(i)

NodeStep(i) == MakeDir(i) \/ Register(i) \/ ThreadEnds(i) \/ HandleDelete(i) \/ Discard(i) \/ Reap(i)

Next ==
  \/ \E i \in Ids : Add(i) \/ AppStep(i) \/ PollHeld(i) \/ NodeStep(i) \/ OpReturns(i)
  \/ SendPending \/ StopApp \/ ExitApp \/ CancelJob \/ PauseJob
  \/ BeginClose \/ Collect \/ EndClose \/ Crash \/ StartNode

Spec == Init /\ [][Next]_vars

\* What is scheduled goes on: the app's threads, the node's requests, reaper and stop, and a supervisor that starts the
\* node again.  An op returns once it is cancelled; one that is not may work for ever.  The file is never taken again by
\* itself, nothing makes the app end, and nothing needs to get lost or be held back.
Fairness ==
  /\ \A i \in Ids : WF_vars(AppStep(i) /\ UNCHANGED budget) /\ WF_vars(i \in cancelled /\ OpReturns(i))
  /\ \A i \in Ids : WF_vars(MakeDir(i)) /\ WF_vars(Register(i)) /\ WF_vars(ThreadEnds(i)) /\ WF_vars(HandleDelete(i))
                    /\ WF_vars(Discard(i)) /\ WF_vars(Reap(i))
                    /\ WF_vars(CancelWaitOver(i)) /\ WF_vars(PollUnknown(i)) /\ WF_vars(SeeCancel(i))
  /\ WF_vars(Collect) /\ WF_vars(EndClose) /\ WF_vars(StartNode)

FairSpec == Spec /\ Fairness

-----------------------------------------------------------------------------

\* An op never starts on the node once it served a DELETE of its id, in whatever order the two requests arrive: else a
\* start that was late works on the file beside its next try (TaskTable.start, delete).
DeletedNeverStarts == [][\A i \in deleted : op'[i] = "running" => op[i] = "running"]_vars

\* A file is dropped, which two times fail it, only by a node that died, stopped untold or went silent: never by its
\* routine stop that the app was told of, by its asking this app to wait, or by its freeing what the app gave up.
DropsHaveACause == \A i \in Ids : outcome[i] = "dropped" => i \in blamed

\* What a run that is over left on the node is freed in the end, op, temp dir and all, whatever became of its DELETE:
\* by the DELETE, by the expiry of what nobody polls, by the stop, or by the node's next start.
OrphansFreed == \A i \in Ids : (i \in dir /\ pc[i] = "over") ~> i \notin dir

\* A cancelled job's run ends, whether its task is working, paused, held back, lost or being fetched.
CancelEndsRun == \A i \in Ids : (job.cancelled /\ pc[i] \notin {"new", "over"}) ~> pc[i] = "over"

=============================================================================
