--------------------------- MODULE NodeTasksProofs ---------------------------
(***************************************************************************)
(* Proofs about module NodeTasks, for every number of tries and every      *)
(* bound on losses, stops, waits and pauses.                               *)
(*                                                                         *)
(* Neither property is inductive.  That a drop has a cause rests on what   *)
(* may take a task the app still asks after out of the node's table: while *)
(* the app is up, no DELETE of a run that is not over is on its way, the   *)
(* reaper takes only what is not polled, and the node's end blames itself  *)
(* for what it did not tell.  That a deleted id never starts rests on a    *)
(* start being sent once and consumed before its op can exist.             *)
(***************************************************************************)
EXTENDS NodeTasks, TLAPS

\* Only a run that is over is freed: by a thread's DELETEs, by one kept for later, or because the node said it stops it.
Freed ==
  \A i \in Ids : /\ sends[i] > 0 \/ i \in asked \cup keeps \cup pending \cup toldStop => pc[i] = "over"
                 /\ i \in asked => sends[i] > 0

\* A DELETE on its way is for a run that is over, or the app is on its way out.
DeletesLate == app = "up" => \A i \in deletes : pc[i] = "over"

\* What a running app asks after is in the node's table, unless the node holds it back or went without telling.
Tracked ==
  /\ \A i \in Ids : held[i] => pc[i] = "polling"
  /\ app = "up" => \A i \in Ids : /\ answer[i] = "ok" => pc[i] = "starting"
                                  /\ answer[i] = "ok" \/ pc[i] \in {"polling", "fetching"} =>
                                       held[i] \/ i \in table \cup blamed

\* A start is sent once, and taken up before its op exists; what is registered has an op.
Worked(i) == op[i] \in {"running", "finished", "ended"}
StartsOnce ==
  \A i \in Ids : /\ pc[i] \in {"new", "added"} => i \notin starts /\ op[i] = "no"
                 /\ i \in starts => op[i] = "no"
                 /\ i \in table \cup dropping \cup discarded => Worked(i)

\* A deleted id is refused from then on, or its op had already begun.
DeletedRefused == \A i \in deleted \ gone : Worked(i)

\* The temp dir is there for as long as an op works in it, and for as long as the node answers for its task.
DirsKept ==
  /\ node # "closed" => stopped = {}
  /\ node = "down" => table = {} /\ \A i \in Ids : op[i] \in {"no", "ended"}
  /\ (dropping \cup discarded) \cap table \subseteq stopped
  /\ \A i \in Ids : op[i] \in {"making", "running"} \/ i \in table \ stopped => i \in dir

TasksInv == TypeOK /\ Freed /\ DeletesLate /\ Tracked /\ DropsHaveACause /\ StartsOnce /\ DeletedRefused /\ DirsKept

\* A fetch the node answers finds the files: what is published was not removed by a DELETE, the reaper or a stop.
FetchFindsFiles == \A i \in Ids : pc[i] = "fetching" /\ AnswerKnown(i) => i \in dir

\* What an op works in is not removed under it.
OpKeepsDir == \A i \in Ids : op[i] = "running" => i \in dir

-----------------------------------------------------------------------------
\* The first state, and the steps: each keeps the invariant.

\* Nothing is on its way at the start.
LEMMA InitTasks == Init => TasksInv
<1> SUFFICES ASSUME Init PROVE TasksInv OBVIOUS
<1> USE DEF Init
<1>1. TypeOK BY DEF TypeOK
<1>2. Freed /\ DeletesLate /\ Tracked BY DEF Freed, DeletesLate, Tracked
<1>3. DropsHaveACause /\ StartsOnce /\ DeletedRefused BY DEF DropsHaveACause, StartsOnce, DeletedRefused
<1>4. DirsKept BY DEF DirsKept
<1>q. QED BY <1>1, <1>2, <1>3, <1>4 DEF TasksInv

\* A worker takes the file.
LEMMA AddKeeps == ASSUME TasksInv, NEW i \in Ids, Add(i) PROVE TasksInv'
<1> USE DEF TasksInv, TypeOK, Add, Requeued, freeVars, netVars, taskVars, stopVars
<1>1. TypeOK' OBVIOUS
<1>2. Freed' BY DEF Freed
<1>3. DeletesLate' BY DEF DeletesLate, Freed
<1>4. Tracked' BY DEF Tracked, Freed, DeletesLate
<1>5. StartsOnce' BY DEF StartsOnce, Worked
<1>6. DropsHaveACause' /\ DeletedRefused' /\ DirsKept'
  BY DEF DropsHaveACause, DeletedRefused, DirsKept, Worked
<1>q. QED BY <1>1, <1>2, <1>3, <1>4, <1>5, <1>6

\* The start goes out, once.
LEMMA SendKeeps == ASSUME TasksInv, NEW i \in Ids, Send(i) PROVE TasksInv'
<1> USE DEF TasksInv, TypeOK, Send, Serving, AppRuns, freeVars, taskVars, stopVars
<1>1. TypeOK' OBVIOUS
<1>2. Freed' BY DEF Freed
<1>3. DeletesLate' BY DEF DeletesLate, Freed
<1>4. Tracked' BY DEF Tracked, Freed, DeletesLate
<1>5. StartsOnce' BY DEF StartsOnce, Worked
<1>6. DropsHaveACause' /\ DeletedRefused' /\ DirsKept'
  BY DEF DropsHaveACause, DeletedRefused, DirsKept, Worked
<1>q. QED BY <1>1, <1>2, <1>3, <1>4, <1>5, <1>6

\* No connection: nothing reached the node.
LEMMA SendFailsKeeps == ASSUME TasksInv, NEW i \in Ids, SendFails(i) PROVE TasksInv'
<1> USE DEF TasksInv, TypeOK, SendFails, Unavailable, End, Serving, AppRuns, netVars, taskVars, stopVars
<1>1. TypeOK' OBVIOUS
<1>2. Freed' BY DEF Freed
<1>3. DeletesLate' BY DEF DeletesLate, Freed
<1>4. Tracked' BY DEF Tracked, Freed, DeletesLate
<1>5. DropsHaveACause' BY DEF DropsHaveACause, Tracked
<1>6. StartsOnce' BY DEF StartsOnce, Worked
<1>7. DeletedRefused' /\ DirsKept'
  BY DEF DeletedRefused, DirsKept, Worked
<1>q. QED BY <1>1, <1>2, <1>3, <1>4, <1>5, <1>6, <1>7

\* A start without an answer ends its run, and what it may have started is freed.
LEMMA StartUnansweredKeeps == ASSUME TasksInv, NEW i \in Ids, StartUnanswered(i) PROVE TasksInv'
<1> USE DEF TasksInv, TypeOK, StartUnanswered, Unavailable, End, Loses, AppRuns, taskVars, stopVars
<1>1. TypeOK' OBVIOUS
<1>2. Freed' BY DEF Freed
<1>3. DeletesLate' BY DEF DeletesLate, Freed
<1>4. Tracked' BY DEF Tracked, Freed, DeletesLate
<1>5. DropsHaveACause' BY DEF DropsHaveACause, Tracked
<1>6. StartsOnce' BY DEF StartsOnce, Worked
<1>7. DeletedRefused' /\ DirsKept'
  BY DEF DeletedRefused, DirsKept, Worked
<1>q. QED BY <1>1, <1>2, <1>3, <1>4, <1>5, <1>6, <1>7

\* The node said ok, so the task is registered or the node went since.
LEMMA StartedKeeps == ASSUME TasksInv, NEW i \in Ids, Started(i) PROVE TasksInv'
<1> USE DEF TasksInv, TypeOK, Started, AppRuns, freeVars, taskVars, stopVars
<1>1. TypeOK' OBVIOUS
<1>2. Freed' BY DEF Freed
<1>3. DeletesLate' BY DEF DeletesLate, Freed
<1>4. Tracked' BY DEF Tracked, Freed, DeletesLate
<1>5. StartsOnce' BY DEF StartsOnce, Worked
<1>6. DropsHaveACause' /\ DeletedRefused' /\ DirsKept'
  BY DEF DropsHaveACause, DeletedRefused, DirsKept, Worked
<1>q. QED BY <1>1, <1>2, <1>3, <1>4, <1>5, <1>6

\* A refused start left nothing.
LEMMA RefusedKeeps == ASSUME TasksInv, NEW i \in Ids, Refused(i) PROVE TasksInv'
<1> USE DEF TasksInv, TypeOK, Refused, Unavailable, End, AppRuns, taskVars, stopVars
<1>1. TypeOK' OBVIOUS
<1>2. Freed' BY DEF Freed
<1>3. DeletesLate' BY DEF DeletesLate, Freed
<1>4. Tracked' BY DEF Tracked, Freed, DeletesLate
<1>5. DropsHaveACause' BY DEF DropsHaveACause, Tracked
<1>6. StartsOnce' BY DEF StartsOnce, Worked
<1>7. DeletedRefused' /\ DirsKept'
  BY DEF DeletedRefused, DirsKept, Worked
<1>q. QED BY <1>1, <1>2, <1>3, <1>4, <1>5, <1>6, <1>7

\* The run notes the cancel.
LEMMA SeeCancelKeeps == ASSUME TasksInv, NEW i \in Ids, SeeCancel(i) PROVE TasksInv'
<1> USE DEF TasksInv, TypeOK, SeeCancel, AppRuns, freeVars, netVars, taskVars, stopVars
<1>1. TypeOK' OBVIOUS
<1>2. Freed' /\ DeletesLate' /\ Tracked' /\ DropsHaveACause' /\ StartsOnce' /\ DeletedRefused' /\ DirsKept'
  BY DEF Freed, DeletesLate, Tracked, DropsHaveACause, StartsOnce, DeletedRefused, DirsKept, Worked
<1>q. QED BY <1>1, <1>2

\* The node is told to cancel.
LEMMA ForwardCancelKeeps == ASSUME TasksInv, NEW i \in Ids, ForwardCancel(i) PROVE TasksInv'
<1> USE DEF TasksInv, TypeOK, ForwardCancel, Serving, AppRuns, freeVars, netVars, stopVars
<1>1. TypeOK' OBVIOUS
<1>2. Freed' /\ DeletesLate' /\ Tracked' /\ DropsHaveACause' /\ StartsOnce' /\ DeletedRefused' /\ DirsKept'
  BY DEF Freed, DeletesLate, Tracked, DropsHaveACause, StartsOnce, DeletedRefused, DirsKept, Worked
<1>q. QED BY <1>1, <1>2

\* The node is told to pause or go on.
LEMMA ForwardPauseKeeps == ASSUME TasksInv, NEW i \in Ids, ForwardPause(i) PROVE TasksInv'
<1> USE DEF TasksInv, TypeOK, ForwardPause, Serving, AppRuns, freeVars, netVars, stopVars
<1>1. TypeOK' OBVIOUS
<1>2. Freed' /\ DeletesLate' /\ Tracked' /\ DropsHaveACause' /\ StartsOnce' /\ DeletedRefused' /\ DirsKept'
  BY DEF Freed, DeletesLate, Tracked, DropsHaveACause, StartsOnce, DeletedRefused, DirsKept, Worked
<1>q. QED BY <1>1, <1>2

\* An answer ends a hold; its task is in the table.
LEMMA PollRunningKeeps == ASSUME TasksInv, NEW i \in Ids, PollRunning(i) PROVE TasksInv'
<1> USE DEF TasksInv, TypeOK, PollRunning, Finished, AnswerKnown, Serving, AppRuns, freeVars,
            netVars, taskVars, stopVars
<1>1. TypeOK' OBVIOUS
<1>2. Tracked' BY DEF Tracked, Freed, DeletesLate
<1>3. Freed' /\ DeletesLate' /\ DropsHaveACause' /\ StartsOnce' /\ DeletedRefused' /\ DirsKept'
  BY DEF Freed, DeletesLate, DropsHaveACause, StartsOnce, DeletedRefused, DirsKept, Worked
<1>q. QED BY <1>1, <1>2, <1>3

\* A finished task is fetched while the node knows it.
LEMMA PollDoneKeeps == ASSUME TasksInv, NEW i \in Ids, PollDone(i) PROVE TasksInv'
<1> USE DEF TasksInv, TypeOK, PollDone, Finished, AnswerKnown, Serving, AppRuns, freeVars, netVars, taskVars, stopVars
<1>1. TypeOK' OBVIOUS
<1>2. Freed' BY DEF Freed
<1>3. DeletesLate' BY DEF DeletesLate, Freed
<1>4. Tracked' BY DEF Tracked, Freed, DeletesLate
<1>5. StartsOnce' BY DEF StartsOnce, Worked
<1>6. DropsHaveACause' /\ DeletedRefused' /\ DirsKept'
  BY DEF DropsHaveACause, DeletedRefused, DirsKept, Worked
<1>q. QED BY <1>1, <1>2, <1>3, <1>4, <1>5, <1>6

\* A task that failed or was cancelled is freed.
LEMMA PollEndedKeeps == ASSUME TasksInv, NEW i \in Ids, PollEnded(i) PROVE TasksInv'
<1> USE DEF TasksInv, TypeOK, PollEnded, End, Finished, AnswerKnown, Serving, AppRuns, netVars, taskVars, stopVars
<1>1. TypeOK' OBVIOUS
<1>2. Freed' BY DEF Freed
<1>3. DeletesLate' BY DEF DeletesLate, Freed
<1>4. Tracked' BY DEF Tracked, Freed, DeletesLate
<1>5. DropsHaveACause' BY DEF DropsHaveACause, Tracked
<1>6. StartsOnce' BY DEF StartsOnce, Worked
<1>7. DeletedRefused' /\ DirsKept'
  BY DEF DeletedRefused, DirsKept, Worked
<1>q. QED BY <1>1, <1>2, <1>3, <1>4, <1>5, <1>6, <1>7

\* An unknown task that was not held back went with its node, untold.
LEMMA PollUnknownKeeps == ASSUME TasksInv, NEW i \in Ids, PollUnknown(i) PROVE TasksInv'
<1> USE DEF TasksInv, TypeOK, PollUnknown, Unavailable, End, AnswerUnknown, Serving, AppRuns,
            netVars, taskVars, stopVars
<1>1. TypeOK' OBVIOUS
<1>2. Freed' BY DEF Freed
<1>3. DeletesLate' BY DEF DeletesLate, Freed
<1>4. Tracked' BY DEF Tracked, Freed, DeletesLate
<1>5. DropsHaveACause' BY DEF DropsHaveACause, Tracked
<1>6. StartsOnce' BY DEF StartsOnce, Worked
<1>7. DeletedRefused' /\ DirsKept'
  BY DEF DeletedRefused, DirsKept, Worked
<1>q. QED BY <1>1, <1>2, <1>3, <1>4, <1>5, <1>6, <1>7

\* A stopping node gives the file back.
LEMMA PollStoppingKeeps == ASSUME TasksInv, NEW i \in Ids, PollStopping(i) PROVE TasksInv'
<1> USE DEF TasksInv, TypeOK, PollStopping, Unavailable, End, AnswerStopping, Serving, AppRuns, netVars, taskVars
<1>1. TypeOK' OBVIOUS
<1>2. Freed' BY DEF Freed
<1>3. DeletesLate' BY DEF DeletesLate, Freed
<1>4. Tracked' BY DEF Tracked, Freed, DeletesLate
<1>5. DropsHaveACause' BY DEF DropsHaveACause, Tracked
<1>6. StartsOnce' BY DEF StartsOnce, Worked
<1>7. DeletedRefused' /\ DirsKept'
  BY DEF DeletedRefused, DirsKept, Worked
<1>q. QED BY <1>1, <1>2, <1>3, <1>4, <1>5, <1>6, <1>7

\* The node holds the app back.
LEMMA PollHeldKeeps == ASSUME TasksInv, NEW i \in Ids, PollHeld(i) PROVE TasksInv'
<1> USE DEF TasksInv, TypeOK, PollHeld, Serving, AppRuns, freeVars, netVars, taskVars, stopVars
<1>1. TypeOK' OBVIOUS
<1>2. Tracked' BY DEF Tracked, Freed, DeletesLate
<1>3. Freed' /\ DeletesLate' /\ DropsHaveACause' /\ StartsOnce' /\ DeletedRefused' /\ DirsKept'
  BY DEF Freed, DeletesLate, DropsHaveACause, StartsOnce, DeletedRefused, DirsKept, Worked
<1>q. QED BY <1>1, <1>2, <1>3

\* A run that was held back too long gives the file back.
LEMMA GiveUpHeldKeeps == ASSUME TasksInv, NEW i \in Ids, GiveUpHeld(i) PROVE TasksInv'
<1> USE DEF TasksInv, TypeOK, GiveUpHeld, Unavailable, End, AppRuns, netVars, taskVars, stopVars
<1>1. TypeOK' OBVIOUS
<1>2. Freed' BY DEF Freed
<1>3. DeletesLate' BY DEF DeletesLate, Freed
<1>4. Tracked' BY DEF Tracked, Freed, DeletesLate
<1>5. DropsHaveACause' BY DEF DropsHaveACause, Tracked
<1>6. StartsOnce' BY DEF StartsOnce, Worked
<1>7. DeletedRefused' /\ DirsKept'
  BY DEF DeletedRefused, DirsKept, Worked
<1>q. QED BY <1>1, <1>2, <1>3, <1>4, <1>5, <1>6, <1>7

\* A silent node is to blame.
LEMMA SilentKeeps == ASSUME TasksInv, NEW i \in Ids, Silent(i) PROVE TasksInv'
<1> USE DEF TasksInv, TypeOK, Silent, Unavailable, End, Loses, Serving, AppRuns, netVars, taskVars, stopVars
<1>1. TypeOK' OBVIOUS
<1>2. Freed' BY DEF Freed
<1>3. DeletesLate' BY DEF DeletesLate, Freed
<1>4. Tracked' BY DEF Tracked, Freed, DeletesLate
<1>5. DropsHaveACause' BY DEF DropsHaveACause, Tracked
<1>6. StartsOnce' BY DEF StartsOnce, Worked
<1>7. DeletedRefused' /\ DirsKept'
  BY DEF DeletedRefused, DirsKept, Worked
<1>q. QED BY <1>1, <1>2, <1>3, <1>4, <1>5, <1>6, <1>7

\* A cancelled run ends without its task.
LEMMA CancelWaitOverKeeps == ASSUME TasksInv, NEW i \in Ids, CancelWaitOver(i) PROVE TasksInv'
<1> USE DEF TasksInv, TypeOK, CancelWaitOver, End, AnswerKnown, Serving, AppRuns, netVars, taskVars, stopVars
<1>1. TypeOK' OBVIOUS
<1>2. Freed' BY DEF Freed
<1>3. DeletesLate' BY DEF DeletesLate, Freed
<1>4. Tracked' BY DEF Tracked, Freed, DeletesLate
<1>5. DropsHaveACause' BY DEF DropsHaveACause, Tracked
<1>6. StartsOnce' BY DEF StartsOnce, Worked
<1>7. DeletedRefused' /\ DirsKept'
  BY DEF DeletedRefused, DirsKept, Worked
<1>q. QED BY <1>1, <1>2, <1>3, <1>4, <1>5, <1>6, <1>7

\* A fetch of a task the node no longer knows: the node went, untold.
LEMMA FetchKeeps == ASSUME TasksInv, NEW i \in Ids, Fetch(i) PROVE TasksInv'
<1> USE DEF TasksInv, TypeOK, Fetch, Unavailable, End, AnswerStopping, AnswerUnknown, AnswerKnown,
            Serving, AppRuns, netVars, taskVars
<1>1. TypeOK'
  <2>1. pc' = [pc EXCEPT ![i] = "over"] /\ sends' = [sends EXCEPT ![i] = 3] /\ keeps' = keeps \cup {i} OBVIOUS
  <2>2. outcome' \in [Ids -> {"none", "published", "failed", "cancelled", "returned", "dropped"}] OBVIOUS
  <2>3. toldStop' \subseteq stopped OBVIOUS
  <2>4. seen' \in [Ids -> BOOLEAN] /\ told' \in [Ids -> BOOLEAN] /\ sentPause' \in [Ids -> BOOLEAN]
        /\ held' \in [Ids -> BOOLEAN]
    OBVIOUS
  <2>q. QED BY <2>1, <2>2, <2>3, <2>4
<1>2. Freed' BY DEF Freed
<1>3. DeletesLate' BY DEF DeletesLate, Freed
<1>4. Tracked' BY DEF Tracked, Freed, DeletesLate
<1>5. DropsHaveACause' BY DEF DropsHaveACause, Tracked
<1>6. StartsOnce' BY DEF StartsOnce, Worked
<1>7. DeletedRefused' /\ DirsKept'
  BY DEF DeletedRefused, DirsKept, Worked
<1>q. QED BY <1>1, <1>2, <1>3, <1>4, <1>5, <1>6, <1>7

\* DELETEs are for runs that are over.
LEMMA SendDeleteKeeps == ASSUME TasksInv, NEW i \in Ids, SendDelete(i) PROVE TasksInv'
<1> USE DEF TasksInv, TypeOK, SendDelete, Serving, AppRuns, appVars, taskVars, stopVars
<1>1. TypeOK' OBVIOUS
<1>2. Freed' BY DEF Freed
<1>3. DeletesLate' BY DEF DeletesLate, Freed
<1>4. Tracked' /\ DropsHaveACause' /\ StartsOnce' /\ DeletedRefused' /\ DirsKept'
  BY DEF Tracked, DropsHaveACause, StartsOnce, DeletedRefused, DirsKept, Worked
<1>q. QED BY <1>1, <1>2, <1>3, <1>4

\* A DELETE without an answer is tried again, or kept.
LEMMA DeleteUnansweredKeeps == ASSUME TasksInv, NEW i \in Ids, DeleteUnanswered(i) PROVE TasksInv'
<1> USE DEF TasksInv, TypeOK, DeleteUnanswered, Loses, AppRuns, appVars, taskVars, stopVars
<1>1. TypeOK'
  <2>1. sends' \in [Ids -> 0..3] BY DEF Freed
  <2>q. QED BY <2>1
<1>2. Freed' BY DEF Freed
<1>3. DeletesLate' BY DEF DeletesLate, Freed
<1>4. Tracked' /\ DropsHaveACause' /\ StartsOnce' /\ DeletedRefused' /\ DirsKept'
  BY DEF Tracked, DropsHaveACause, StartsOnce, DeletedRefused, DirsKept, Worked
<1>q. QED BY <1>1, <1>2, <1>3, <1>4

\* Kept DELETEs are sent once more.
LEMMA SendPendingKeeps == ASSUME TasksInv, SendPending PROVE TasksInv'
<1> USE DEF TasksInv, TypeOK, SendPending, appVars, netVars, taskVars, stopVars
<1>1. TypeOK' OBVIOUS
<1>2. Freed' BY DEF Freed
<1>3. DeletesLate' /\ Tracked' /\ DropsHaveACause' /\ StartsOnce' /\ DeletedRefused' /\ DirsKept'
  BY DEF DeletesLate, Tracked, DropsHaveACause, StartsOnce, DeletedRefused, DirsKept, Worked
<1>q. QED BY <1>1, <1>2, <1>3

\* The app frees what runs, and drops nothing from then on.
LEMMA StopAppKeeps == ASSUME TasksInv, StopApp PROVE TasksInv'
<1> USE DEF TasksInv, TypeOK, StopApp, Serving, appVars, freeVars, taskVars, stopVars
<1>1. TypeOK' OBVIOUS
<1>2. DeletesLate' BY DEF DeletesLate, Freed
<1>3. Tracked' BY DEF Tracked, Freed, DeletesLate
<1>4. Freed' /\ DropsHaveACause' /\ StartsOnce' /\ DeletedRefused' /\ DirsKept'
  BY DEF Freed, DropsHaveACause, StartsOnce, DeletedRefused, DirsKept, Worked
<1>q. QED BY <1>1, <1>2, <1>3, <1>4

\* Every run of a process that ends is over.
LEMMA ExitAppKeeps == ASSUME TasksInv, ExitApp PROVE TasksInv'
<1> USE DEF TasksInv, TypeOK, ExitApp, AppRuns, netVars, taskVars, stopVars
<1>1. TypeOK' OBVIOUS
<1>2. Freed' BY DEF Freed
<1>3. DeletesLate' BY DEF DeletesLate, Freed
<1>4. Tracked' BY DEF Tracked, Freed, DeletesLate
<1>5. StartsOnce' BY DEF StartsOnce, Worked
<1>6. DropsHaveACause' /\ DeletedRefused' /\ DirsKept'
  BY DEF DropsHaveACause, DeletedRefused, DirsKept, Worked
<1>q. QED BY <1>1, <1>2, <1>3, <1>4, <1>5, <1>6

\* The job is cancelled.
LEMMA CancelJobKeeps == ASSUME TasksInv, CancelJob PROVE TasksInv'
<1> USE DEF TasksInv, TypeOK, CancelJob, AppRuns, appVars, freeVars, netVars, taskVars, stopVars
<1>1. TypeOK' OBVIOUS
<1>2. Freed' /\ DeletesLate' /\ Tracked' /\ DropsHaveACause' /\ StartsOnce' /\ DeletedRefused' /\ DirsKept'
  BY DEF Freed, DeletesLate, Tracked, DropsHaveACause, StartsOnce, DeletedRefused, DirsKept, Worked
<1>q. QED BY <1>1, <1>2

\* The job is paused or resumed.
LEMMA PauseJobKeeps == ASSUME TasksInv, PauseJob PROVE TasksInv'
<1> USE DEF TasksInv, TypeOK, PauseJob, AppRuns, appVars, freeVars, netVars, taskVars, stopVars
<1>1. TypeOK' OBVIOUS
<1>2. Freed' /\ DeletesLate' /\ Tracked' /\ DropsHaveACause' /\ StartsOnce' /\ DeletedRefused' /\ DirsKept'
  BY DEF Freed, DeletesLate, Tracked, DropsHaveACause, StartsOnce, DeletedRefused, DirsKept, Worked
<1>q. QED BY <1>1, <1>2

\* A start is taken up once, and not for a deleted id.
LEMMA MakeDirKeeps == ASSUME TasksInv, NEW i \in Ids, MakeDir(i) PROVE TasksInv'
<1> USE DEF TasksInv, TypeOK, MakeDir, Reply, Refuses, Serving, appVars, freeVars, stopVars
<1>1. TypeOK' OBVIOUS
<1>2. Tracked' BY DEF Tracked, Freed, DeletesLate
<1>3. StartsOnce' BY DEF StartsOnce, Worked
<1>4. DeletedRefused' BY DEF DeletedRefused, StartsOnce, Worked
<1>5. DirsKept' BY DEF DirsKept, StartsOnce, Worked
<1>6. Freed' /\ DeletesLate' /\ DropsHaveACause'
  BY DEF Freed, DeletesLate, DropsHaveACause
<1>q. QED BY <1>1, <1>2, <1>3, <1>4, <1>5, <1>6

\* A registration asks again whether the id was deleted.
LEMMA RegisterKeeps == ASSUME TasksInv, NEW i \in Ids, Register(i) PROVE TasksInv'
<1> USE DEF TasksInv, TypeOK, Register, Reply, Refuses, appVars, freeVars, stopVars
<1>1. TypeOK' OBVIOUS
<1>2. Tracked' BY DEF Tracked, Freed, DeletesLate
<1>3. StartsOnce' BY DEF StartsOnce, Worked
<1>4. DeletedRefused' BY DEF DeletedRefused, StartsOnce, Worked
<1>5. DirsKept' BY DEF DirsKept, StartsOnce, Worked
<1>6. Freed' /\ DeletesLate' /\ DropsHaveACause'
  BY DEF Freed, DeletesLate, DropsHaveACause
<1>q. QED BY <1>1, <1>2, <1>3, <1>4, <1>5, <1>6

\* The op finishes.
LEMMA OpReturnsKeeps == ASSUME TasksInv, NEW i \in Ids, OpReturns(i) PROVE TasksInv'
<1> USE DEF TasksInv, TypeOK, OpReturns, Paused, appVars, freeVars, netVars, stopVars
<1>1. TypeOK' OBVIOUS
<1>2. StartsOnce' BY DEF StartsOnce, Worked
<1>3. DeletedRefused' BY DEF DeletedRefused, StartsOnce, Worked
<1>4. DirsKept' BY DEF DirsKept, StartsOnce, Worked
<1>5. Freed' /\ DeletesLate' /\ Tracked' /\ DropsHaveACause'
  BY DEF Freed, DeletesLate, Tracked, DropsHaveACause
<1>q. QED BY <1>1, <1>2, <1>3, <1>4, <1>5

\* A discarded task's thread removes its temp dir.
LEMMA ThreadEndsKeeps == ASSUME TasksInv, NEW i \in Ids, ThreadEnds(i) PROVE TasksInv'
<1> USE DEF TasksInv, TypeOK, ThreadEnds, appVars, freeVars, netVars, stopVars
<1>1. TypeOK' OBVIOUS
<1>2. StartsOnce' BY DEF StartsOnce, Worked
<1>3. DeletedRefused' BY DEF DeletedRefused, StartsOnce, Worked
<1>4. DirsKept' BY DEF DirsKept, StartsOnce, Worked
<1>5. Freed' /\ DeletesLate' /\ Tracked' /\ DropsHaveACause'
  BY DEF Freed, DeletesLate, Tracked, DropsHaveACause
<1>q. QED BY <1>1, <1>2, <1>3, <1>4, <1>5

\* A DELETE takes the task, or has its id refused.
LEMMA HandleDeleteKeeps == ASSUME TasksInv, NEW i \in Ids, HandleDelete(i) PROVE TasksInv'
<1> USE DEF TasksInv, TypeOK, HandleDelete, RefusedAfter, Serving, appVars
<1>1. TypeOK' OBVIOUS
<1>2. Freed' BY DEF Freed
<1>3. DeletesLate' BY DEF DeletesLate, Freed
<1>4. Tracked' BY DEF Tracked, Freed, DeletesLate
<1>5. StartsOnce' BY DEF StartsOnce, Worked
<1>6. DeletedRefused' BY DEF DeletedRefused, StartsOnce, Worked
<1>7. DirsKept' BY DEF DirsKept, StartsOnce, Worked
<1>8. DropsHaveACause'
  BY DEF DropsHaveACause
<1>q. QED BY <1>1, <1>2, <1>3, <1>4, <1>5, <1>6, <1>7, <1>8

\* A discarded task's temp dir goes unless its op works in it.
LEMMA DiscardKeeps == ASSUME TasksInv, NEW i \in Ids, Discard(i) PROVE TasksInv'
<1> USE DEF TasksInv, TypeOK, Discard, Finished, appVars, freeVars, netVars, stopVars
<1>1. TypeOK' OBVIOUS
<1>2. StartsOnce' BY DEF StartsOnce, Worked
<1>3. DirsKept' BY DEF DirsKept, StartsOnce, Worked
<1>4. Freed' /\ DeletesLate' /\ Tracked' /\ DropsHaveACause' /\ DeletedRefused'
  BY DEF Freed, DeletesLate, Tracked, DropsHaveACause, DeletedRefused, Worked
<1>q. QED BY <1>1, <1>2, <1>3, <1>4

\* The reaper takes only what nobody polls.
LEMMA ReapKeeps == ASSUME TasksInv, NEW i \in Ids, Reap(i) PROVE TasksInv'
<1> USE DEF TasksInv, TypeOK, Reap, Unpolled, appVars, freeVars, netVars, stopVars
<1>1. TypeOK' OBVIOUS
<1>2. Tracked' BY DEF Tracked, Freed, DeletesLate
<1>3. StartsOnce' BY DEF StartsOnce, Worked
<1>4. DirsKept' BY DEF DirsKept, StartsOnce, Worked
<1>5. Freed' /\ DeletesLate' /\ DropsHaveACause' /\ DeletedRefused'
  BY DEF Freed, DeletesLate, DropsHaveACause, DeletedRefused, Worked
<1>q. QED BY <1>1, <1>2, <1>3, <1>4, <1>5

\* The node begins to stop.
LEMMA BeginCloseKeeps == ASSUME TasksInv, BeginClose PROVE TasksInv'
<1> USE DEF TasksInv, TypeOK, BeginClose, appVars, freeVars, netVars, taskVars
<1>1. TypeOK' OBVIOUS
<1>2. DirsKept' BY DEF DirsKept, StartsOnce, Worked
<1>3. Freed' /\ DeletesLate' /\ Tracked' /\ DropsHaveACause' /\ StartsOnce' /\ DeletedRefused'
  BY DEF Freed, DeletesLate, Tracked, DropsHaveACause, StartsOnce, DeletedRefused, Worked
<1>q. QED BY <1>1, <1>2, <1>3

\* The stop marks its tasks as stopped by the node.
LEMMA CollectKeeps == ASSUME TasksInv, Collect PROVE TasksInv'
<1> USE DEF TasksInv, TypeOK, Collect, appVars, freeVars, netVars
<1>1. TypeOK'
  BY DEF DirsKept
<1>2. StartsOnce' BY DEF StartsOnce, Worked
<1>3. DirsKept' BY DEF DirsKept, StartsOnce, Worked
<1>4. Freed' /\ DeletesLate' /\ Tracked' /\ DropsHaveACause' /\ DeletedRefused'
  BY DEF Freed, DeletesLate, Tracked, DropsHaveACause, DeletedRefused, Worked
<1>q. QED BY <1>1, <1>2, <1>3, <1>4

\* The process ends; what it did not tell is blamed.
LEMMA EndCloseKeeps == ASSUME TasksInv, EndClose PROVE TasksInv'
<1> USE DEF TasksInv, TypeOK, EndClose, Exit, Untold, appVars, freeVars
<1>1. TypeOK' OBVIOUS
<1>2. Freed' BY DEF Freed
<1>3. DeletesLate' BY DEF DeletesLate, Freed
<1>4. Tracked' BY DEF Tracked, Freed, DeletesLate
<1>5. DropsHaveACause' BY DEF DropsHaveACause, Tracked
<1>6. StartsOnce' BY DEF StartsOnce, Worked
<1>7. DeletedRefused' BY DEF DeletedRefused, StartsOnce, Worked
<1>8. DirsKept' BY DEF DirsKept, StartsOnce, Worked
<1>q. QED BY <1>1, <1>2, <1>3, <1>4, <1>5, <1>6, <1>7, <1>8

\* So it is when it dies.
LEMMA CrashKeeps == ASSUME TasksInv, Crash PROVE TasksInv'
<1> USE DEF TasksInv, TypeOK, Crash, Exit, Untold, appVars, freeVars
<1>1. TypeOK' OBVIOUS
<1>2. Freed' BY DEF Freed
<1>3. DeletesLate' BY DEF DeletesLate, Freed
<1>4. Tracked' BY DEF Tracked, Freed, DeletesLate
<1>5. DropsHaveACause' BY DEF DropsHaveACause, Tracked
<1>6. StartsOnce' BY DEF StartsOnce, Worked
<1>7. DeletedRefused' BY DEF DeletedRefused, StartsOnce, Worked
<1>8. DirsKept' BY DEF DirsKept, StartsOnce, Worked
<1>q. QED BY <1>1, <1>2, <1>3, <1>4, <1>5, <1>6, <1>7, <1>8

\* A new process starts with an empty temp folder.
LEMMA StartNodeKeeps == ASSUME TasksInv, StartNode PROVE TasksInv'
<1> USE DEF TasksInv, TypeOK, StartNode, appVars, freeVars, netVars
<1>1. TypeOK' OBVIOUS
<1>2. DirsKept' BY DEF DirsKept, StartsOnce, Worked
<1>3. Freed' /\ DeletesLate' /\ Tracked' /\ DropsHaveACause' /\ StartsOnce' /\ DeletedRefused'
  BY DEF Freed, DeletesLate, Tracked, DropsHaveACause, StartsOnce, DeletedRefused, Worked
<1>q. QED BY <1>1, <1>2, <1>3

\* A step that changes nothing.
LEMMA StutterKeeps == ASSUME TasksInv, UNCHANGED vars PROVE TasksInv'
BY DEF TasksInv, TypeOK, Freed, DeletesLate, Tracked, DropsHaveACause, StartsOnce, DeletedRefused, DirsKept, Worked,
       vars, appVars, freeVars, netVars, taskVars, stopVars

-----------------------------------------------------------------------------
\* The theorems.

\* The invariant: who is freed, what the app may rely on, and what the node's table, ops and temp dirs have in common.
THEOREM InvariantHolds == Spec => []TasksInv
<1>1. TasksInv /\ [Next]_vars => TasksInv'
  <2> SUFFICES ASSUME TasksInv, [Next]_vars PROVE TasksInv' OBVIOUS
  <2>1. CASE \E i \in Ids : Add(i) \/ PollHeld(i) \/ OpReturns(i)
    BY <2>1, AddKeeps, PollHeldKeeps, OpReturnsKeeps
  <2>2. CASE \E i \in Ids : AppStep(i)
    BY <2>2, SendKeeps, SendFailsKeeps, StartUnansweredKeeps, StartedKeeps, RefusedKeeps, SeeCancelKeeps,
       ForwardCancelKeeps, ForwardPauseKeeps, PollRunningKeeps, PollDoneKeeps, PollEndedKeeps, PollUnknownKeeps,
       PollStoppingKeeps, GiveUpHeldKeeps, SilentKeeps, CancelWaitOverKeeps, FetchKeeps, SendDeleteKeeps,
       DeleteUnansweredKeeps DEF AppStep
  <2>3. CASE \E i \in Ids : NodeStep(i)
    BY <2>3, MakeDirKeeps, RegisterKeeps, ThreadEndsKeeps, HandleDeleteKeeps, DiscardKeeps, ReapKeeps DEF NodeStep
  <2>4. CASE SendPending \/ StopApp \/ ExitApp \/ CancelJob \/ PauseJob
    BY <2>4, SendPendingKeeps, StopAppKeeps, ExitAppKeeps, CancelJobKeeps, PauseJobKeeps
  <2>5. CASE BeginClose \/ Collect \/ EndClose \/ Crash \/ StartNode
    BY <2>5, BeginCloseKeeps, CollectKeeps, EndCloseKeeps, CrashKeeps, StartNodeKeeps
  <2>6. CASE UNCHANGED vars BY <2>6, StutterKeeps
  <2>q. QED BY <2>1, <2>2, <2>3, <2>4, <2>5, <2>6 DEF Next
<1>q. QED BY <1>1, InitTasks, PTL DEF Spec

\* Every variable keeps its type.
THEOREM TypeCorrect == Spec => []TypeOK
<1>1. TasksInv => TypeOK BY DEF TasksInv
<1>q. QED BY <1>1, InvariantHolds, PTL

\* A dropped file was dropped by a node that died, stopped untold or went silent.
THEOREM DropsCaused == Spec => []DropsHaveACause
<1>1. TasksInv => DropsHaveACause BY DEF TasksInv
<1>q. QED BY <1>1, InvariantHolds, PTL

\* Whatever order a start and the DELETE of its id arrive in, the op never starts after it.
THEOREM DeletedNeverStart == Spec => DeletedNeverStarts
<1>1. TasksInv /\ [Next]_vars => [\A i \in deleted : op'[i] = "running" => op[i] = "running"]_vars
  <2> SUFFICES ASSUME TasksInv, Next, NEW d \in deleted, op'[d] = "running" PROVE op[d] = "running"
    OBVIOUS
  <2> USE DEF TasksInv, TypeOK
  <2>1. CASE op' = op BY <2>1
  <2>2. ASSUME NEW i \in Ids, Register(i) PROVE op[d] = "running"
    BY <2>2 DEF Register, Refuses, DeletedRefused, Worked
  <2>3. CASE \E i \in Ids : MakeDir(i) \/ OpReturns(i) \/ ThreadEnds(i)
    BY <2>3 DEF MakeDir, OpReturns, ThreadEnds
  <2>4. CASE EndClose \/ Crash BY <2>4 DEF EndClose, Crash, Exit
  <2>5. CASE \E i \in Ids : Add(i) \/ AppStep(i) \/ PollHeld(i)
    <3> SUFFICES ASSUME NEW i \in Ids, Add(i) \/ AppStep(i) \/ PollHeld(i) PROVE op' = op BY <2>5, <2>1
    <3>1. CASE Add(i) \/ PollHeld(i) BY <3>1 DEF Add, PollHeld, taskVars
    <3>2. CASE Send(i) \/ SendFails(i) \/ StartUnanswered(i) \/ Started(i) \/ Refused(i) \/ SeeCancel(i)
      BY <3>2 DEF Send, SendFails, StartUnanswered, Started, Refused, SeeCancel, taskVars
    <3>3. CASE ForwardCancel(i) \/ ForwardPause(i) \/ PollRunning(i) \/ PollDone(i) \/ PollEnded(i) \/ PollUnknown(i)
      BY <3>3 DEF ForwardCancel, ForwardPause, PollRunning, PollDone, PollEnded, PollUnknown, taskVars
    <3>4. CASE PollStopping(i) \/ GiveUpHeld(i) \/ Silent(i) \/ CancelWaitOver(i) \/ Fetch(i) \/ SendDelete(i)
            \/ DeleteUnanswered(i)
      BY <3>4 DEF PollStopping, GiveUpHeld, Silent, CancelWaitOver, Fetch, SendDelete, DeleteUnanswered, taskVars
    <3>q. QED BY <3>1, <3>2, <3>3, <3>4 DEF AppStep
  <2>6. CASE \E i \in Ids : HandleDelete(i) \/ Discard(i) \/ Reap(i)
    BY <2>1, <2>6 DEF HandleDelete, Discard, Reap
  <2>7. CASE SendPending \/ StopApp \/ ExitApp \/ CancelJob \/ PauseJob \/ BeginClose \/ Collect \/ StartNode
    BY <2>1, <2>7 DEF SendPending, StopApp, ExitApp, CancelJob, PauseJob, BeginClose, Collect, StartNode, taskVars
  <2>q. QED BY <2>2, <2>3, <2>4, <2>5, <2>6, <2>7 DEF Next, NodeStep
<1>q. QED BY <1>1, InvariantHolds, PTL DEF Spec, DeletedNeverStarts

\* The files of a task are there for as long as the app may fetch them.
THEOREM FetchesFind == Spec => []FetchFindsFiles
<1>1. TasksInv => FetchFindsFiles BY DEF TasksInv, TypeOK, DirsKept, FetchFindsFiles, AnswerKnown
<1>q. QED BY <1>1, InvariantHolds, PTL

\* No DELETE, reaper or stop removes the temp dir of an op that still works in it.
THEOREM OpsKeepDirs == Spec => []OpKeepsDir
<1>1. TasksInv => OpKeepsDir BY DEF TasksInv, DirsKept, OpKeepsDir
<1>q. QED BY <1>1, InvariantHolds, PTL
=============================================================================
