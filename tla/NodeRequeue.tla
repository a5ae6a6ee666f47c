---------------------------- MODULE NodeRequeue ----------------------------
(***************************************************************************)
(* What becomes of a file that a worker node gives back: one job's queue,  *)
(* one worker of this app and one per node, the dispatch loop's passes and *)
(* what the tracker remembers of each file. The files' checks, parks and   *)
(* cancels are in module Dispatcher, which leaves the choice of a worker   *)
(* open.                                                                   *)
(***************************************************************************)
EXTENDS Integers, FiniteSets, SequencesExt

CONSTANTS
  Files, Nodes,
  App,                    \* this app's own worker
  MAX_NODE_DROPS, MAX_NODE_START_FAILURES,
  MaxTurns                \* bound: times a worker's members open, close or are lost

Workers == Nodes \cup {App}
Nobody == "nobody"
Nothing == "nothing"

ASSUME NamesAssumption ==
  IsFiniteSet(Files) /\ IsFiniteSet(Nodes) /\ App \notin Nodes /\ Nobody \notin Workers /\ Nothing \notin Files
\* A single drop is never final: the code allows one before it fails a file (2).
ASSUME LimitsAssumption == MAX_NODE_DROPS \in Nat \ {0, 1} /\ MAX_NODE_START_FAILURES \in Nat \ {0}
ASSUME BoundsAssumption == MaxTurns \in Nat

VARIABLES
  queue,      \* item_queue
  running,    \* each worker's file
  ended,      \* how a worker's file ended, until the loop has seen it
  member,     \* each worker's members: "open", "closed" (they come back) or "lost" (someone has to act)
  suspect,    \* nodes whose new files are held back
  ready,      \* nodes that a check begun since their last drop found ready
  back,       \* the loop's copy of ready for this pass
  pass,       \* the loop is assigning
  limits,     \* what the tracker remembers of each file
  outcome,    \* how each file ended
  turns,      \* turns of members so far
  stayed      \* history: the app's worker was open throughout

vars == <<queue, running, ended, member, suspect, ready, back, pass, limits, outcome, turns, stayed>>
members == <<member, turns, stayed>>

Fresh == [excluded |-> {},          \* nodes that cannot see it
          dropped_on |-> Nobody,    \* the node that last dropped it or failed its start
          sent_back |-> Nobody,     \* that node, when it runs there again only for want of others
          stays_off |-> Nobody,     \* a node it is not handed back to again
          drops |-> <<>>,           \* the node of every drop that counts
          starts |-> 0,             \* failed starts that count
          waits |-> {},             \* nodes that failed its start
          waiting |-> {}]           \* those of them whose wait is still running

Init ==
  /\ \E order \in SetToSeqs(Files) : queue = order
  /\ running = [w \in Workers |-> Nothing] /\ ended = [w \in Workers |-> Nothing]
  /\ member \in [Workers -> {"open", "closed"}] /\ stayed = (member[App] = "open")
  /\ suspect = {} /\ ready = {} /\ back = {} /\ pass = FALSE
  /\ limits = [f \in Files |-> Fresh]
  /\ outcome = [f \in Files |-> Nothing]
  /\ turns = 0

TypeOK ==
  /\ queue \in Seq(Files) /\ IsInjective(queue)
  /\ running \in [Workers -> Files \cup {Nothing}]
  /\ ended \in [Workers -> {Nothing, "done", "dropped", "not_started", "not_visible"}]
  /\ member \in [Workers -> {"open", "closed", "lost"}]
  /\ suspect \subseteq Nodes /\ ready \subseteq Nodes /\ back \subseteq Nodes /\ pass \in BOOLEAN
  /\ \A f \in Files :
       /\ limits[f].excluded \subseteq Nodes
       /\ limits[f].waiting \subseteq limits[f].waits /\ limits[f].waits \subseteq Nodes
       /\ limits[f].dropped_on \in Nodes \cup {Nobody}
       /\ limits[f].stays_off \in Nodes \cup {Nobody} /\ limits[f].sent_back \in {Nobody, limits[f].dropped_on}
       /\ limits[f].starts \in 0..MAX_NODE_START_FAILURES /\ Len(limits[f].drops) <= MAX_NODE_DROPS
  /\ outcome \in [Files -> {Nothing, "done", "drops", "starts", "not_visible"}]
  /\ turns \in 0..MaxTurns /\ stayed \in BOOLEAN
  \* A file is queued, with one worker, or settled.
  /\ \A f \in Files :
       Cardinality({w \in Workers : running[w] = f}) = IF outcome[f] = Nothing /\ ~Contains(queue, f) THEN 1 ELSE 0

-----------------------------------------------------------------------------
\* What the pool answers.

\* runs_kind_outside, can_run_outside: open now, busy or not; open now or later without anyone acting.
RunsOutside(nodes) == \E w \in Workers \ nodes : member[w] = "open"
CanRunOutside(nodes) == \E w \in Workers \ nodes : member[w] # "lost"

\* _find_available_worker.
Free(nodes) == {w \in Workers \ (nodes \cup suspect) : running[w] = Nothing /\ member[w] = "open"}

-----------------------------------------------------------------------------
\* _claim_worker.

\* Workers off the node that dropped the file, and off those that cannot see it or whose wait is running.
Elsewhere(f) == Free(limits[f].excluded \cup {limits[f].dropped_on} \cup limits[f].waiting)

\* Broken variant: the file waits for the node's next check although nobody else runs its kind.
HeldAlways(f) ==
  LET l == limits[f]
  IN  /\ l.dropped_on # Nobody /\ Elsewhere(f) = {}
      /\ l.dropped_on \in l.waiting \/ l.dropped_on \notin back \/ l.stays_off = l.dropped_on

\* The file stays queued and a later one may take the worker.
Held(f) ==
  LET l == limits[f]
  IN  /\ l.dropped_on # Nobody /\ Elsewhere(f) = {}
      /\ \/ l.dropped_on \in l.waiting
         \/ /\ l.dropped_on \notin back \/ l.stays_off = l.dropped_on
            /\ RunsOutside(l.excluded \cup {l.dropped_on})

Takers(f) ==
  IF Held(f) THEN {}
  ELSE IF limits[f].dropped_on # Nobody /\ Elsewhere(f) # {} THEN Elsewhere(f)
  ELSE Free(limits[f].excluded \cup limits[f].waiting)

Stranded(f) == ~Held(f) /\ Takers(f) = {} /\ limits[f].excluded # {} /\ ~CanRunOutside(limits[f].excluded)

\* The scan goes on behind a file that has limits of its own, and stops at one that nobody free may take.
PassedOver(f) ==
  /\ Takers(f) = {} /\ ~Stranded(f)
  /\ Held(f) \/ limits[f].excluded # {} \/ limits[f].waiting # {}

Reached(i) == \A j \in 1..i - 1 : PassedOver(queue[j])

-----------------------------------------------------------------------------
\* The dispatch loop.

\* refresh_suspect_nodes, _nodes_back_since_drop: asked of the registry before the locks are taken.
BeginPass ==
  /\ ~pass /\ queue # <<>>
  /\ pass' = TRUE
  /\ suspect' = suspect \ ready
  /\ back' = {n \in ready : \E i \in DOMAIN queue : limits[queue[i]].dropped_on = n}
  /\ UNCHANGED <<queue, running, ended, members, ready, limits, outcome>>

Assign(i, w) ==
  /\ pass /\ Reached(i) /\ w \in Takers(queue[i])
  /\ running' = [running EXCEPT ![w] = queue[i]]
  /\ queue' = RemoveAt(queue, i)
  /\ limits' = [limits EXCEPT ![queue[i]].sent_back = IF w = limits[queue[i]].dropped_on THEN w ELSE Nobody]
  /\ UNCHANGED <<ended, members, suspect, ready, back, pass, outcome>>

\* A file that no configured worker can run any more fails, and the pass is over.
Strand(i) ==
  /\ pass /\ Reached(i) /\ Stranded(queue[i])
  /\ outcome' = [outcome EXCEPT ![queue[i]] = "not_visible"]
  /\ queue' = RemoveAt(queue, i)
  /\ pass' = FALSE
  /\ UNCHANGED <<running, ended, members, suspect, ready, back, limits>>

EndPass ==
  /\ pass
  /\ \A i \in DOMAIN queue : Reached(i) => Takers(queue[i]) = {} /\ ~Stranded(queue[i])
  /\ pass' = FALSE
  /\ UNCHANGED <<queue, running, ended, members, suspect, ready, back, limits, outcome>>

-----------------------------------------------------------------------------
\* _requeue_or_fail: what the loop does with a file that a worker gave back.

\* Broken variant: every drop counts.
AfterDropCounting(l, n) == [l EXCEPT !.drops = Append(l.drops, n), !.dropped_on = n, !.sent_back = Nobody]

\* A drop counts, unless the file was handed back there for want of others while others run its kind.
AfterDrop(l, n) ==
  LET seen == [l EXCEPT !.dropped_on = n, !.sent_back = Nobody]
  IN  IF l.sent_back = n /\ RunsOutside(l.excluded \cup {n}) THEN [seen EXCEPT !.stays_off = n]
                                                            ELSE [seen EXCEPT !.drops = Append(l.drops, n)]

\* A failed start makes the file wait before it goes there again; it counts once nobody else runs its kind.
AfterFailedStart(l, n) ==
  LET waits == l.waits \cup {n}
  IN  [l EXCEPT !.dropped_on = n, !.sent_back = Nobody, !.waits = waits, !.waiting = @ \cup {n},
                !.starts = IF RunsOutside(l.excluded \cup waits) THEN @ ELSE @ + 1]

AfterNotVisible(l, n) == [l EXCEPT !.sent_back = Nobody, !.excluded = @ \cup {n}]

Reason(l) ==
  IF Len(l.drops) >= MAX_NODE_DROPS THEN "drops"
  ELSE IF l.starts >= MAX_NODE_START_FAILURES THEN "starts" ELSE Nothing

\* The file goes to the front of the queue, or fails.
GiveBack(w) ==
  LET f == running[w]
      l == CASE ended[w] = "dropped" -> AfterDrop(limits[f], w)
             [] ended[w] = "not_started" -> AfterFailedStart(limits[f], w)
             [] ended[w] = "not_visible" -> AfterNotVisible(limits[f], w)
      failure == IF ended[w] = "not_visible" /\ ~CanRunOutside(l.excluded) THEN "not_visible" ELSE Reason(l)
  IN  /\ ~pass /\ ended[w] \notin {Nothing, "done"}
      /\ suspect' = IF ended[w] = "not_visible" THEN suspect ELSE suspect \cup {w}
      /\ limits' = [limits EXCEPT ![f] = l]
      /\ outcome' = [outcome EXCEPT ![f] = failure]
      /\ queue' = IF failure = Nothing THEN <<f>> \o queue ELSE queue
      /\ running' = [running EXCEPT ![w] = Nothing]
      /\ ended' = [ended EXCEPT ![w] = Nothing]
      /\ UNCHANGED <<members, ready, back, pass>>

Complete(w) ==
  /\ ~pass /\ ended[w] = "done"
  /\ outcome' = [outcome EXCEPT ![running[w]] = "done"]
  /\ running' = [running EXCEPT ![w] = Nothing]
  /\ ended' = [ended EXCEPT ![w] = Nothing]
  /\ UNCHANGED <<queue, members, suspect, ready, back, pass, limits>>

-----------------------------------------------------------------------------
\* Worker threads, the registry's checks, time, and the groups' hours and settings.

\* A worker's thread ends; a node that drops a file or does not take it is reported unavailable to the registry.
End(w, how) ==
  /\ running[w] # Nothing /\ ended[w] = Nothing
  /\ w = App => how = "done"
  /\ ended' = [ended EXCEPT ![w] = how]
  /\ ready' = IF how \in {"dropped", "not_started"} THEN ready \ {w} ELSE ready
  /\ UNCHANGED <<queue, running, members, suspect, back, pass, limits, outcome>>

CheckFindsReady(n) ==
  /\ n \notin ready
  /\ ready' = ready \cup {n}
  /\ UNCHANGED <<queue, running, ended, members, suspect, back, pass, limits, outcome>>

HoldRunsOut(n) ==
  /\ n \in suspect
  /\ suspect' = suspect \ {n}
  /\ UNCHANGED <<queue, running, ended, members, ready, back, pass, limits, outcome>>

WaitRunsOut(f, n) ==
  /\ n \in limits[f].waiting
  /\ limits' = [limits EXCEPT ![f].waiting = @ \ {n}]
  /\ UNCHANGED <<queue, running, ended, members, suspect, ready, back, pass, outcome>>

\* Hours open and close; a node's members may need someone to act.
Turn(w, how) ==
  /\ turns < MaxTurns /\ member[w] # how
  /\ member' = [member EXCEPT ![w] = how]
  /\ turns' = turns + 1
  /\ stayed' = (stayed /\ w # App)
  /\ UNCHANGED <<queue, running, ended, suspect, ready, back, pass, limits, outcome>>

Loop ==
  \/ BeginPass \/ EndPass
  \/ (\E i \in DOMAIN queue : Strand(i) \/ \E w \in Workers : Assign(i, w))
  \/ (\E w \in Workers : GiveBack(w) \/ Complete(w))

Ends(w) == \E how \in {"done", "dropped", "not_started", "not_visible"} : End(w, how)

Next ==
  \/ Loop
  \/ (\E w \in Workers : Ends(w) \/ \E how \in {"open", "closed", "lost"} : Turn(w, how))
  \/ (\E n \in Nodes : CheckFindsReady(n) \/ HoldRunsOut(n) \/ \E f \in Files : WaitRunsOut(f, n))

Spec == Init /\ [][Next]_vars

\* The loop runs on and looks at every worker between two passes; workers end, and holds and waits run out. No node
\* has to check ready again, nor to do any work.
FairSpec ==
  /\ Spec /\ WF_vars(Loop)
  /\ \A w \in Workers : WF_vars(Ends(w)) /\ SF_vars(GiveBack(w) \/ Complete(w))
  /\ \A n \in Nodes : WF_vars(HoldRunsOut(n)) /\ \A f \in Files : WF_vars(WaitRunsOut(f, n))

-----------------------------------------------------------------------------
\* As long as this app's own workers have run the kind throughout, a file fails for drops only when two nodes dropped it or
\* refused to start it, and never for failed starts or for being invisible: no single node costs a file.
OneNodeCostsNoFile ==
  stayed => \A f \in Files :
    /\ outcome[f] \notin {"starts", "not_visible"}
    /\ outcome[f] = "drops" => Cardinality(ToSet(limits[f].drops) \cup limits[f].waits) > 1

\* A file never waits for ever while a worker runs its kind on a node that can see it, whatever the nodes drop or
\* fail to answer, unless two nodes refuse it after each other for ever: its wait on one ends while the other has it.
RefusedBy(f, n) == running[n] = f /\ ended[n] = "not_started"
RefusedInTurn(f) == \E m, n \in Nodes : m # n /\ []<>RefusedBy(f, m) /\ []<>RefusedBy(f, n)
FilesGoOn ==
  \A f \in Files : []<>(outcome[f] # Nothing \/ ~RunsOutside(limits[f].excluded)) \/ RefusedInTurn(f)
=============================================================================
