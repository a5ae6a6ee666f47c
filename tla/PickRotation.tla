---------------------------- MODULE PickRotation ----------------------------
(***************************************************************************)
(* Whose file is next (jobs/dispatcher.py): the order in which the loop    *)
(* picks among jobs of several kinds for its check threads and for the     *)
(* workers, and the shares of the check threads a kind may hold.           *)
(*                                                                         *)
(* A job is a number, its order of submission.  A file is one of its       *)
(* job's, not told apart from the others.                                  *)
(***************************************************************************)
EXTENDS Integers, Sequences, SequencesExt, FiniteSetsExt, FiniteSets

CONSTANTS
  Jobs,            \* 1..n, in order of submission
  Kinds,           \* job kinds
  KindOf,          \* a job's kind
  Capped,          \* kinds with check_share < 1 (0.5 for both in the code)
  Files,           \* files of a job
  Threads,         \* _max_checks
  Workers,         \* workers, each open to every kind that has capacity
  Priorities,      \* dispatch priorities
  MaxOperations    \* bound: operator steps in a behaviour

ASSUME JobsAssumption == Jobs \subseteq Nat \ {0} /\ KindOf \in [Jobs -> Kinds] /\ Capped \subseteq Kinds
ASSUME SizesAssumption == {Threads, Workers, Files} \subseteq Nat \ {0} /\ MaxOperations \in Nat
ASSUME PrioritiesAssumption == Priorities \subseteq Nat \ {0} /\ Priorities # {}

VARIABLES
  attached,    \* jobs that have a tracker
  prio,        \* a job's priority
  recent,      \* jobs by last_picked, the longest ago first; a job never picked is not in it
  checks,      \* length of a job's check_queue
  items,       \* length of its item_queue
  checking,    \* its check threads at work
  busy,        \* workers at work on its files
  ended,       \* jobs whose done_event is set
  held,        \* jobs paused or asked to park
  inFlight,    \* _checks_in_flight
  byKind,      \* _checks_by_kind
  snapshot,    \* the copy of byKind the loop picks by; <<>> when it is not picking
  open,        \* kinds with capacity
  operations,  \* operator steps taken
  overtaken    \* history: the jobs of its kind a waiting job has seen picked since its own last pick

queues == <<checks, items, checking, busy, ended>>
slots == <<inFlight, byKind>>
vars == <<attached, prio, recent, queues, held, slots, snapshot, open, operations, overtaken>>

TypeOK ==
  /\ attached \subseteq Jobs /\ ended \subseteq Jobs /\ held \subseteq Jobs /\ open \subseteq Kinds
  /\ prio \in [Jobs -> Priorities] /\ recent \in Seq(Jobs)
  /\ {checks, items} \subseteq [Jobs -> 0..Files]
  /\ checking \in [Jobs -> 0..Threads] /\ busy \in [Jobs -> 0..Workers]
  /\ inFlight \in 0..Threads /\ byKind \in [Kinds -> 0..Threads]
  /\ snapshot \in {<<>>} \cup [Kinds -> 0..Threads]
  /\ operations \in 0..MaxOperations /\ overtaken \in [Jobs -> SUBSET Jobs]

Init ==
  /\ attached = {} /\ ended = {} /\ held = {} /\ open = Kinds
  /\ prio \in [Jobs -> Priorities]
  /\ recent = <<>>
  /\ checks = [j \in Jobs |-> Files]
  /\ items = [j \in Jobs |-> 0] /\ checking = [j \in Jobs |-> 0] /\ busy = [j \in Jobs |-> 0]
  /\ inFlight = 0 /\ byKind = [k \in Kinds |-> 0] /\ snapshot = <<>>
  /\ operations = 0 /\ overtaken = [j \in Jobs |-> {}]

-----------------------------------------------------------------------------
\* The order and the limits.

LastPicked(j) == IF j \in ToSet(recent) THEN CHOOSE i \in DOMAIN recent : recent[i] = j ELSE 0

\* Broken variant: the order forgets who was picked last.
BeforeBySubmission(i, j) == prio[i] < prio[j] \/ (prio[i] = prio[j] /\ i < j)

\* The order of the sort keys (priority, last_picked, submission_order).
Before(i, j) ==
  \/ prio[i] < prio[j]
  \/ prio[i] = prio[j] /\ LastPicked(i) < LastPicked(j)
  \/ prio[i] = prio[j] /\ LastPicked(i) = LastPicked(j) /\ i < j

Stamp(j) == recent' = Append(SelectSeq(recent, LAMBDA i : i # j), j)

AtLeastOne(n) == IF n < 1 THEN 1 ELSE n

\* Half of the threads for a capped kind, three quarters for all of them together.
KindCap == AtLeastOne(Threads \div 2)
CappedLimit == AtLeastOne((Threads * 3) \div 4)

\* Only kinds of jobs that still have a tracker count towards the common limit.
CappedInFlight(counts) == MapThenSumSet(LAMBDA k : counts[k], {k \in Capped : \E j \in attached : KindOf[j] = k})

\* Broken variant: no kind has a share of its own.
WithinNoShare(k, counts) == TRUE

WithinShare(k, counts) == k \in Capped => counts[k] < KindCap /\ CappedInFlight(counts) < CappedLimit

CanCheck(j) == j \in attached \ (ended \cup held) /\ checks[j] > 0
MayPick(j, counts) == CanCheck(j) /\ KindOf[j] \in open /\ WithinShare(KindOf[j], counts)

CanProcess(j) == j \in attached \ (ended \cup held) /\ items[j] > 0 /\ KindOf[j] \in open

First(S) == CHOOSE j \in S : \A i \in S \ {j} : Before(j, i)

\* What every pick leaves: the stamp, and who has now been passed by whom.
Turn(j) ==
  /\ Stamp(j)
  /\ overtaken' = [i \in Jobs |-> IF i = j THEN {} ELSE overtaken[i] \cup {j}]

-----------------------------------------------------------------------------
\* The dispatch loop.

TakeSnapshot ==
  /\ snapshot = <<>> /\ inFlight < Threads
  /\ snapshot' = byKind
  /\ UNCHANGED <<attached, prio, recent, queues, held, slots, open, operations, overtaken>>

Candidates == {j \in Jobs : MayPick(j, snapshot)}

PickCheck ==
  /\ snapshot # <<>> /\ Candidates # {}
  /\ LET j == First(Candidates) IN
       /\ checks' = [checks EXCEPT ![j] = @ - 1]
       /\ checking' = [checking EXCEPT ![j] = @ + 1]
       /\ byKind' = [byKind EXCEPT ![KindOf[j]] = @ + 1]
       /\ Turn(j)
  /\ inFlight' = inFlight + 1 /\ snapshot' = <<>>
  /\ UNCHANGED <<attached, prio, items, busy, ended, held, open, operations>>

\* The thread does not start: the slots and the file go back, the stamp stays.
StartFails ==
  /\ snapshot # <<>> /\ Candidates # {} /\ operations < MaxOperations
  /\ Turn(First(Candidates))
  /\ snapshot' = <<>> /\ operations' = operations + 1
  /\ UNCHANGED <<attached, prio, queues, held, slots, open>>

PickNothing ==
  /\ snapshot # <<>> /\ Candidates = {}
  /\ snapshot' = <<>>
  /\ UNCHANGED <<attached, prio, recent, queues, held, slots, open, operations, overtaken>>

FreeWorkers == Workers - MapThenSumSet(LAMBDA j : busy[j], Jobs)

Assign ==
  /\ snapshot = <<>> /\ FreeWorkers > 0
  /\ \E j \in Jobs : CanProcess(j)
  /\ LET j == First({i \in Jobs : CanProcess(i)}) IN
       /\ items' = [items EXCEPT ![j] = @ - 1]
       /\ busy' = [busy EXCEPT ![j] = @ + 1]
       /\ Turn(j)
  /\ UNCHANGED <<attached, prio, checks, checking, ended, held, slots, snapshot, open, operations>>

\* Nothing of the job is left once this file is recorded.
LastFile(j) == checks[j] + items[j] + checking[j] + busy[j] = 1
EndIfLast(j) == ended' = IF LastFile(j) THEN ended \cup {j} ELSE ended

EndWork(j) ==
  /\ busy[j] > 0
  /\ busy' = [busy EXCEPT ![j] = @ - 1]
  /\ EndIfLast(j)
  /\ UNCHANGED <<attached, prio, recent, checks, items, checking, held, slots, snapshot, open, operations, overtaken>>

\* Broken variant: the kind's slot is not given back.
EndCheckHoldingShare(j) ==
  /\ checking[j] > 0
  /\ checking' = [checking EXCEPT ![j] = @ - 1]
  /\ inFlight' = inFlight - 1 /\ byKind' = byKind
  /\ items' = items /\ EndIfLast(j)
  /\ UNCHANGED <<attached, prio, recent, checks, busy, held, snapshot, open, operations, overtaken>>

\* A check ends: the file is settled, or needs a worker; of a cancelled job it is dropped.
EndCheck(j) ==
  /\ checking[j] > 0
  /\ checking' = [checking EXCEPT ![j] = @ - 1]
  /\ inFlight' = inFlight - 1 /\ byKind' = [byKind EXCEPT ![KindOf[j]] = @ - 1]
  /\ \/ items' = items /\ EndIfLast(j)
     \/ j \notin ended /\ items' = [items EXCEPT ![j] = @ + 1] /\ ended' = ended
  /\ UNCHANGED <<attached, prio, recent, checks, busy, held, snapshot, open, operations, overtaken>>

\* A tracker done for a minute, that no busy worker refers to, is forgotten; its check threads may still run.
Forget(j) ==
  /\ j \in attached \cap ended /\ busy[j] = 0
  /\ attached' = attached \ {j}
  /\ UNCHANGED <<prio, recent, queues, held, slots, snapshot, open, operations, overtaken>>

-----------------------------------------------------------------------------
\* Runners and the operator.

Submit(j) ==
  /\ j \notin attached \cup ended /\ \A i \in Jobs : i < j => i \in attached \cup ended
  /\ attached' = attached \cup {j}
  /\ UNCHANGED <<prio, recent, queues, held, slots, snapshot, open, operations, overtaken>>

Operate == operations < MaxOperations /\ operations' = operations + 1

SetPriority(j, p) ==
  /\ Operate /\ j \in attached /\ prio[j] # p
  /\ prio' = [prio EXCEPT ![j] = p]
  /\ UNCHANGED <<attached, recent, queues, held, slots, snapshot, open, overtaken>>

Hold(j) ==
  /\ Operate /\ j \in attached
  /\ held' = SymDiff(held, {j})
  /\ UNCHANGED <<attached, prio, recent, queues, slots, snapshot, open, overtaken>>

Cancel(j) ==
  /\ Operate /\ j \in attached \ ended
  /\ ended' = ended \cup {j}
  /\ checks' = [checks EXCEPT ![j] = 0] /\ items' = [items EXCEPT ![j] = 0]
  /\ UNCHANGED <<attached, prio, recent, checking, busy, held, slots, snapshot, open, overtaken>>

SetCapacity(k) ==
  /\ Operate
  /\ open' = SymDiff(open, {k})
  /\ UNCHANGED <<attached, prio, recent, queues, held, slots, snapshot, overtaken>>

Loop == TakeSnapshot \/ PickCheck \/ PickNothing
Next ==
  \/ Loop \/ StartFails \/ Assign
  \/ \E j \in Jobs : EndWork(j) \/ EndCheck(j) \/ Forget(j) \/ Submit(j) \/ Hold(j) \/ Cancel(j)
                       \/ \E p \in Priorities : SetPriority(j, p)
  \/ \E k \in Kinds : SetCapacity(k)

Spec == Init /\ [][Next]_vars

\* The loop runs, work ends and runners submit. The checks of a capped kind may stay on a dead mount for ever.
Fairness ==
  /\ WF_vars(TakeSnapshot) /\ WF_vars(PickCheck \/ PickNothing) /\ WF_vars(Assign)
  /\ \A j \in Jobs : WF_vars(Submit(j)) /\ WF_vars(EndWork(j)) /\ WF_vars(KindOf[j] \notin Capped /\ EndCheck(j))

FairSpec == Spec /\ Fairness

-----------------------------------------------------------------------------
\* Properties.

\* Among jobs of a kind that could all be picked, a check never goes to a job of lower priority, nor to one of the
\* same priority that had a turn since the other's last (_pick_order with _stamp_pick), whatever was paused, failed
\* to start, changed priority or went to a worker in between.
PicksInTurn ==
  [][\A i, k \in Jobs :
       checks'[k] < checks[k] /\ checking'[k] > checking[k] /\ i # k /\ KindOf[i] = KindOf[k] /\ CanCheck(i)
         => prio[k] < prio[i] \/ (prio[k] = prio[i] /\ k \notin overtaken[i])]_vars

Waits(j) == CanCheck(j) /\ KindOf[j] \in open

\* Where no check hangs for ever, one that could be picked does not wait for ever: each end gives its kind a slot back
\* (_on_check_done).
NoCheckHangs == \A j \in Jobs : []<>(checking[j] = 0) \/ []<><<EndCheck(j)>>_vars
ChecksGoOn == NoCheckHangs => \A j \in Jobs : []<>~Waits(j)

\* Preview checks go on even when every check of a capped kind hangs (the kind's share stops short of all threads).
PreviewsGoOn == \A j \in {i \in Jobs : KindOf[i] \notin Capped} : []<>~Waits(j)

\* The docstring of _capped_kinds_limit: all capped kinds together leave preview checks threads of their own.
PreviewsKeepThreads ==
  MapThenSumSet(LAMBDA j : checking[j], {j \in Jobs : KindOf[j] \in Capped}) < Threads
=============================================================================
