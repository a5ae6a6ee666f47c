-------------------------- MODULE NodeRequeueProofs --------------------------
(***************************************************************************)
(* Proofs about module NodeRequeue, for every set of files and of nodes,   *)
(* every limit and any number of members' turns.                           *)
(*                                                                         *)
(* That one node costs no file is not inductive.  It rests on sent_back:   *)
(* a file that runs on the node that dropped it last is known to have been *)
(* sent back there, so a second drop of that node does not count while the *)
(* app's worker runs.  This holds only because a file that runs is neither *)
(* queued nor run by another worker, which would assign it anew.           *)
(***************************************************************************)
EXTENDS NodeRequeue, FiniteSetTheorems, SequenceTheorems, TLAPS

\* What the tracker may remember of a file.
Limits == [excluded : SUBSET Nodes, dropped_on : Nodes \cup {Nobody}, sent_back : Nodes \cup {Nobody},
           stays_off : Nodes \cup {Nobody}, drops : Seq(Nodes), starts : Nat, waits : SUBSET Nodes,
           waiting : SUBSET Nodes]

VarsOK ==
  /\ queue \in Seq(Files) /\ IsInjective(queue)
  /\ running \in [Workers -> Files \cup {Nothing}]
  /\ ended \in [Workers -> {Nothing, "done", "dropped", "not_started", "not_visible"}]
  /\ member \in [Workers -> {"open", "closed", "lost"}]
  /\ suspect \subseteq Nodes /\ ready \subseteq Nodes /\ back \subseteq Nodes /\ pass \in BOOLEAN
  /\ limits \in [Files -> Limits]
  /\ outcome \in [Files -> {Nothing, "done", "drops", "starts", "not_visible"}]
  /\ turns \in 0..MaxTurns /\ stayed \in BOOLEAN

\* A file is queued once, with one worker, or settled.
Queued == ToSet(queue)
Placed ==
  /\ \A f \in Queued : outcome[f] = Nothing /\ \A w \in Workers : running[w] # f
  /\ \A w \in Workers : running[w] # Nothing => /\ outcome[running[w]] = Nothing
                                                /\ \A u \in Workers : running[u] = running[w] => u = w
  /\ \A f \in Files : outcome[f] = Nothing => f \in Queued \/ \E w \in Workers : running[w] = f

\* Only nodes give files back, and only files that they run.
EndsOK == ended[App] \in {Nothing, "done"} /\ \A w \in Workers : ended[w] # Nothing => running[w] # Nothing

\* A file that has not failed is within its limits.
AtMost(l) == l.waiting \subseteq l.waits /\ Len(l.drops) <= MAX_NODE_DROPS /\ l.starts <= MAX_NODE_START_FAILURES
Within(l) == Len(l.drops) < MAX_NODE_DROPS /\ l.starts < MAX_NODE_START_FAILURES
WithinLimits == \A f \in Files : AtMost(limits[f]) /\ (outcome[f] = Nothing => Within(limits[f]))

\* What is known of a file that runs: whether its node is the one that dropped it last.
SentBack ==
  /\ \A f \in Files : limits[f].sent_back \in {Nobody, limits[f].dropped_on}
  /\ \A w \in Workers : running[w] # Nothing =>
       LET l == limits[running[w]] IN l.sent_back = IF w = l.dropped_on THEN w ELSE Nobody

\* The nodes that have dropped a file or refused to start it: the last of them is known, and two counted drops take two.
Troubled(l) == ToSet(l.drops) \cup l.waits
Two(l) == \E m, n \in Troubled(l) : m # n
Spread(l) ==
  /\ l.dropped_on = Nobody => l.drops = <<>> /\ l.waits = {}
  /\ l.dropped_on # Nobody => l.dropped_on \in Troubled(l)
  /\ Len(l.drops) > 1 => Two(l)
  /\ l.starts = 0
DropsSpread ==
  stayed => \A f \in Files : /\ Spread(limits[f])
                             /\ outcome[f] \notin {"starts", "not_visible"}
                             /\ outcome[f] = "drops" => Len(limits[f].drops) > 1

\* The app's worker, of which the history speaks.
Stayed == stayed => member[App] = "open"

RequeueInv == VarsOK /\ Placed /\ EndsOK /\ WithinLimits /\ SentBack /\ Stayed /\ DropsSpread

-----------------------------------------------------------------------------
\* Lemmas about the queue and about what is remembered of a file.

\* Taking an entry out of a queue without repetitions leaves the others.
LEMMA RemoveAtLeaves ==
  ASSUME NEW s \in Seq(Files), IsInjective(s), NEW i \in DOMAIN s
  PROVE  /\ RemoveAt(s, i) \in Seq(Files) /\ IsInjective(RemoveAt(s, i))
         /\ ToSet(RemoveAt(s, i)) = ToSet(s) \ {s[i]}
<1> DEFINE a == SubSeq(s, 1, i - 1)
           b == SubSeq(s, i + 1, Len(s))
           r == RemoveAt(s, i)
<1>1. DOMAIN s = 1..Len(s) /\ Len(s) \in Nat /\ i \in 1..Len(s) OBVIOUS
<1>2. /\ a \in Seq(Files) /\ Len(a) = i - 1 /\ \A k \in 1..i - 1 : a[k] = s[k]
      /\ b \in Seq(Files) /\ Len(b) = Len(s) - i /\ \A k \in 1..Len(s) - i : b[k] = s[i + k]
  BY <1>1
<1>3. r = a \o b BY DEF RemoveAt
<1> HIDE DEF a, b, r
<1>4. r \in Seq(Files) /\ Len(r) = Len(s) - 1
  <2>1. r \in Seq(Files) /\ Len(r) = Len(a) + Len(b) BY <1>2, <1>3, ConcatProperties
  <2>q. QED BY <1>1, <1>2, <2>1
<1>5. \A k \in 1..Len(s) - 1 : r[k] = IF k < i THEN s[k] ELSE s[k + 1]
  <2> SUFFICES ASSUME NEW k \in 1..Len(s) - 1 PROVE r[k] = IF k < i THEN s[k] ELSE s[k + 1] OBVIOUS
  <2>1. CASE k < i BY <1>1, <1>2, <1>3, <2>1
  <2>2. CASE ~(k < i)
    <3>1. k - (i - 1) \in 1..Len(s) - i BY <1>1, <2>2
    <3>2. r[k] = b[k - (i - 1)]
      <4>1. k \in 1..Len(a) + Len(b) /\ ~(k <= Len(a)) BY <1>1, <1>2, <2>2
      <4>2. r[k] = b[k - Len(a)] BY <1>2, <1>3, <4>1, ConcatProperties
      <4>q. QED BY <1>2, <4>2
    <3>3. b[k - (i - 1)] = s[i + (k - (i - 1))] BY <1>2, <3>1
    <3>4. i + (k - (i - 1)) = k + 1 BY <1>1
    <3>q. QED BY <2>2, <3>2, <3>3, <3>4
  <2>q. QED BY <2>1, <2>2
<1>6. DOMAIN r = 1..Len(s) - 1 BY <1>1, <1>4
<1>7. IsInjective(r)
  <2> SUFFICES ASSUME NEW j \in 1..Len(s) - 1, NEW k \in 1..Len(s) - 1, r[j] = r[k] PROVE j = k
    BY <1>6 DEF IsInjective
  <2>1. \A u, v \in 1..Len(s) : s[u] = s[v] => u = v BY <1>1 DEF IsInjective
  <2>q. QED BY <2>1, <1>1, <1>5
<1>8. ToSet(r) = ToSet(s) \ {s[i]}
  <2>1. ASSUME NEW k \in 1..Len(s) - 1 PROVE r[k] \in ToSet(s) \ {s[i]}
    <3>1. \A u \in 1..Len(s) : s[u] = s[i] => u = i BY <1>1 DEF IsInjective
    <3>q. QED BY <3>1, <1>1, <1>5 DEF ToSet
  <2>2. ASSUME NEW x \in ToSet(s) \ {s[i]} PROVE x \in ToSet(r)
    <3>1. PICK u \in 1..Len(s) : x = s[u] /\ u # i BY <1>1 DEF ToSet
    <3>2. CASE u < i
      <4>1. u \in 1..Len(s) - 1 /\ r[u] = x BY <1>1, <1>5, <3>1, <3>2
      <4>q. QED BY <4>1, <1>6 DEF ToSet
    <3>3. CASE u > i
      <4>1. u - 1 \in 1..Len(s) - 1 /\ r[u - 1] = x BY <1>1, <1>5, <3>1, <3>3
      <4>q. QED BY <4>1, <1>6 DEF ToSet
    <3>q. QED BY <1>1, <3>1, <3>2, <3>3
  <2>q. QED BY <2>1, <2>2, <1>6 DEF ToSet
<1>q. QED BY <1>4, <1>7, <1>8 DEF r

\* A file that comes back goes to the front.
LEMMA ToTheFront ==
  ASSUME NEW s \in Seq(Files), IsInjective(s), NEW f \in Files, f \notin ToSet(s)
  PROVE  <<f>> \o s \in Seq(Files) /\ IsInjective(<<f>> \o s) /\ ToSet(<<f>> \o s) = ToSet(s) \cup {f}
<1> DEFINE r == <<f>> \o s
<1>1. DOMAIN s = 1..Len(s) /\ Len(s) \in Nat OBVIOUS
<1>2. r \in Seq(Files) /\ DOMAIN r = 1..Len(s) + 1 /\ r[1] = f /\ \A k \in 1..Len(s) : r[k + 1] = s[k] BY <1>1
<1>3. \A k \in 1..Len(s) + 1 : k = 1 \/ (k - 1 \in 1..Len(s) /\ r[k] = s[k - 1]) BY <1>1, <1>2
<1>4. \A k \in 1..Len(s) : s[k] \in ToSet(s) BY <1>1 DEF ToSet
<1>5. IsInjective(r) BY <1>1, <1>2, <1>3, <1>4 DEF IsInjective
<1>6. ToSet(r) \subseteq ToSet(s) \cup {f} BY <1>2, <1>3, <1>4 DEF ToSet
<1>7. ASSUME NEW x \in ToSet(s) PROVE x \in ToSet(r)
  <2>1. PICK k \in 1..Len(s) : x = s[k] BY <1>1 DEF ToSet
  <2>2. k + 1 \in DOMAIN r /\ r[k + 1] = x BY <1>1, <1>2, <2>1
  <2>q. QED BY <2>2 DEF ToSet
<1>8. f \in ToSet(r) BY <1>1, <1>2 DEF ToSet
<1>q. QED BY <1>2, <1>5, <1>6, <1>7, <1>8

\* A counted drop adds its node.
LEMMA DropCounts ==
  ASSUME NEW s \in Seq(Nodes), NEW n \in Nodes
  PROVE  Append(s, n) \in Seq(Nodes) /\ Len(Append(s, n)) = Len(s) + 1 /\ ToSet(Append(s, n)) = ToSet(s) \cup {n}
<1> DEFINE r == Append(s, n)
<1>1. DOMAIN s = 1..Len(s) /\ Len(s) \in Nat OBVIOUS
<1>2. r \in Seq(Nodes) /\ Len(r) = Len(s) + 1 /\ DOMAIN r = 1..Len(s) + 1 /\ r[Len(s) + 1] = n
      /\ \A k \in 1..Len(s) : r[k] = s[k] BY <1>1
<1>3. \A k \in 1..Len(s) + 1 : r[k] = n \/ k \in 1..Len(s) BY <1>1, <1>2
<1>4. ToSet(r) \subseteq ToSet(s) \cup {n} BY <1>1, <1>2, <1>3 DEF ToSet
<1>5. \A k \in 1..Len(s) : k \in DOMAIN r /\ r[k] = s[k] BY <1>1, <1>2
<1>6. ToSet(s) \cup {n} \subseteq ToSet(r) BY <1>1, <1>2, <1>5 DEF ToSet
<1>q. QED BY <1>2, <1>4, <1>6

\* A job starts with each of its files queued once.
LEMMA FirstQueue ==
  ASSUME NEW s \in SetToSeqs(Files)
  PROVE  s \in Seq(Files) /\ IsInjective(s) /\ ToSet(s) = Files
<1> DEFINE n == Cardinality(Files)
<1>1. n \in Nat BY NamesAssumption, FS_CardinalityType
<1>2. s \in [1..n -> Files] /\ \A i, j \in 1..n : i # j => s[i] # s[j] BY DEF SetToSeqs
<1>3. s \in Seq(Files) BY <1>1, <1>2
<1>4. IsInjective(s) BY <1>2 DEF IsInjective
<1>5. s \in Injection(1..n, Files) BY <1>2, <1>4 DEF Injection
<1>6. Cardinality(1..n) = n BY <1>1, FS_Interval
<1>7. s \in Surjection(1..n, Files) BY <1>5, <1>6, FS_Injection, NamesAssumption
<1>8. ToSet(s) = Files BY <1>2, <1>7 DEF Surjection, ToSet
<1>q. QED BY <1>3, <1>4, <1>8

\* Two different nodes make a set of more than one.
LEMMA TwoNodes ==
  ASSUME NEW S \in SUBSET Nodes, NEW m \in S, NEW n \in S, m # n
  PROVE  Cardinality(S) > 1
<1>1. IsFiniteSet(S) /\ Cardinality(S) \in Nat BY NamesAssumption, FS_Subset, FS_CardinalityType
<1>2. Cardinality(S) # 0 BY <1>1, FS_EmptySet
<1>3. Cardinality(S) # 1 BY <1>1, FS_Singleton
<1>q. QED BY <1>1, <1>2, <1>3

\* A drop, a failed start and a file that the node cannot see, as the tracker remembers them.
LEMMA AfterDropOK ==
  ASSUME NEW l \in Limits, NEW n \in Nodes, AtMost(l), Within(l)
  PROVE  AfterDrop(l, n) \in Limits /\ AtMost(AfterDrop(l, n)) /\ AfterDrop(l, n).sent_back = Nobody
<1>1. Append(l.drops, n) \in Seq(Nodes) /\ Len(Append(l.drops, n)) = Len(l.drops) + 1 BY DropCounts DEF Limits
<1>2. Len(l.drops) \in Nat BY DEF Limits
<1>3. AfterDrop(l, n) \in Limits BY <1>1 DEF AfterDrop, Limits
<1>q. QED BY <1>1, <1>2, <1>3, LimitsAssumption DEF AfterDrop, AtMost, Within, Limits

\* So is what a failed start leaves.
LEMMA AfterFailedStartOK ==
  ASSUME NEW l \in Limits, NEW n \in Nodes, AtMost(l), Within(l)
  PROVE  /\ AfterFailedStart(l, n) \in Limits /\ AtMost(AfterFailedStart(l, n))
         /\ AfterFailedStart(l, n).sent_back = Nobody
<1> DEFINE c == IF RunsOutside(l.excluded \cup (l.waits \cup {n})) THEN l.starts ELSE l.starts + 1
           r == [l EXCEPT !.dropped_on = n, !.sent_back = Nobody, !.waits = l.waits \cup {n},
                          !.waiting = l.waiting \cup {n}, !.starts = c]
<1>1. AfterFailedStart(l, n) = r BY DEF AfterFailedStart
<1>2. c \in Nat /\ c <= MAX_NODE_START_FAILURES BY LimitsAssumption DEF Limits, Within
<1> HIDE DEF c
<1>3. r \in Limits BY <1>2 DEF Limits
<1>4. AtMost(r) /\ r.sent_back = Nobody BY <1>2 DEF Limits, AtMost
<1>q. QED BY <1>1, <1>3, <1>4

\* So is what a node that cannot see the file leaves.
LEMMA AfterNotVisibleOK ==
  ASSUME NEW l \in Limits, NEW n \in Nodes, AtMost(l), Within(l)
  PROVE  AfterNotVisible(l, n) \in Limits /\ AtMost(AfterNotVisible(l, n)) /\ AfterNotVisible(l, n).sent_back = Nobody
BY DEF AfterNotVisible, Limits, AtMost

\* While the app's worker is open, somebody runs the kind off any nodes.
LEMMA AppRuns ==
  ASSUME member[App] = "open", NEW S \in SUBSET Nodes
  PROVE  RunsOutside(S) /\ CanRunOutside(S)
BY NamesAssumption DEF RunsOutside, CanRunOutside, Workers

\* A drop of the node that dropped the file last does not count; one of another node makes two.
LEMMA AfterDropSpreads ==
  ASSUME NEW l \in Limits, NEW n \in Nodes, member[App] = "open", Spread(l),
         l.sent_back = IF n = l.dropped_on THEN n ELSE Nobody
  PROVE  Spread(AfterDrop(l, n))
<1> DEFINE r == AfterDrop(l, n)
<1>0. Nobody \notin Nodes BY NamesAssumption DEF Workers
<1>1. RunsOutside(l.excluded \cup {n}) BY AppRuns DEF Limits
<1>2. CASE n = l.dropped_on
  <2>1. r = [l EXCEPT !.dropped_on = n, !.sent_back = Nobody, !.stays_off = n] BY <1>1, <1>2 DEF AfterDrop
  <2>2. r.dropped_on = n /\ r.drops = l.drops /\ r.waits = l.waits /\ r.starts = l.starts BY <2>1 DEF Limits
  <2>q. QED BY <1>0, <1>2, <2>2 DEF Spread, Troubled, Two
<1>3. CASE n # l.dropped_on
  <2>1. r = [l EXCEPT !.dropped_on = n, !.sent_back = Nobody, !.drops = Append(l.drops, n)]
    BY <1>0, <1>3 DEF AfterDrop
  <2>2. r.dropped_on = n /\ r.drops = Append(l.drops, n) /\ r.waits = l.waits /\ r.starts = l.starts BY <2>1 DEF Limits
  <2>3. Troubled(r) = Troubled(l) \cup {n} /\ Len(r.drops) = Len(l.drops) + 1
    BY <2>2, DropCounts DEF Troubled, Limits
  <2>4. CASE l.dropped_on = Nobody
    <3>1. Len(l.drops) = 0 BY <2>4 DEF Spread
    <3>q. QED BY <1>0, <2>2, <2>3, <3>1 DEF Spread
  <2>5. CASE l.dropped_on # Nobody
    <3>1. Two(r) BY <1>3, <2>3, <2>5 DEF Spread, Two
    <3>q. QED BY <1>0, <2>2, <2>3, <3>1 DEF Spread
  <2>q. QED BY <2>4, <2>5
<1>q. QED BY <1>2, <1>3

\* A failed start does not count, and only adds to the nodes that had trouble.
LEMMA AfterFailedStartSpreads ==
  ASSUME NEW l \in Limits, NEW n \in Nodes, member[App] = "open", Spread(l)
  PROVE  Spread(AfterFailedStart(l, n))
<1> DEFINE r == AfterFailedStart(l, n)
<1>0. Nobody \notin Nodes BY NamesAssumption DEF Workers
<1>1. RunsOutside(l.excluded \cup (l.waits \cup {n})) BY AppRuns DEF Limits
<1>2. r.dropped_on = n /\ r.drops = l.drops /\ r.waits = l.waits \cup {n} /\ r.starts = l.starts
  BY <1>1 DEF AfterFailedStart, Limits
<1>3. Troubled(r) = Troubled(l) \cup {n} BY <1>2 DEF Troubled
<1>q. QED BY <1>0, <1>2, <1>3 DEF Spread, Two

\* And of a node that cannot see it: it neither drops nor waits.
LEMMA AfterNotVisibleSpreads ==
  ASSUME NEW l \in Limits, NEW n \in Nodes, Spread(l)
  PROVE  Spread(AfterNotVisible(l, n))
<1> DEFINE r == AfterNotVisible(l, n)
<1>1. r.dropped_on = l.dropped_on /\ r.drops = l.drops /\ r.waits = l.waits /\ r.starts = l.starts
  BY DEF AfterNotVisible, Limits
<1>q. QED BY <1>1 DEF Spread, Two, Troubled

-----------------------------------------------------------------------------
\* The first state, and the steps: each keeps the invariant.

\* Every file is queued, and nothing is remembered.
LEMMA InitRequeue == Init => RequeueInv
<1> SUFFICES ASSUME Init PROVE RequeueInv OBVIOUS
<1>0. Fresh \in Limits /\ AtMost(Fresh) /\ Within(Fresh) /\ Fresh.sent_back = Nobody
  <2>1. <<>> \in Seq(Nodes) /\ Len(<<>>) = 0 OBVIOUS
  <2>2. Fresh \in Limits BY <2>1 DEF Fresh, Limits
  <2>q. QED BY <2>1, <2>2, LimitsAssumption DEF Fresh, AtMost, Within
<1>1. queue \in Seq(Files) /\ IsInjective(queue) /\ Queued = Files BY FirstQueue DEF Init, Queued
<1>2. VarsOK
  <2>1. member \in [Workers -> {"open", "closed", "lost"}] BY DEF Init
  <2>2. stayed \in BOOLEAN /\ pass \in BOOLEAN BY DEF Init
  <2>3. limits \in [Files -> Limits] BY <1>0 DEF Init
  <2>4. suspect = {} /\ ready = {} /\ back = {} /\ turns \in 0..MaxTurns BY BoundsAssumption DEF Init
  <2>5. /\ outcome \in [Files -> {Nothing, "done", "drops", "starts", "not_visible"}]
        /\ running \in [Workers -> Files \cup {Nothing}]
        /\ ended \in [Workers -> {Nothing, "done", "dropped", "not_started", "not_visible"}]
    BY DEF Init
  <2>q. QED BY <1>1, <2>1, <2>2, <2>3, <2>4, <2>5 DEF VarsOK
<1>3. Placed BY <1>1, NamesAssumption DEF Placed, Init
<1>4. EndsOK BY DEF EndsOK, Init, Workers
<1>5. WithinLimits BY <1>0 DEF WithinLimits, Init
<1>6. SentBack BY <1>0 DEF SentBack, Init
<1>7. Stayed BY DEF Stayed, Init
<1>8. DropsSpread
  <2>1. Spread(Fresh) BY DEF Spread, Fresh
  <2>q. QED BY <2>1 DEF DropsSpread, Init, Nothing
<1>q. QED BY <1>2, <1>3, <1>4, <1>5, <1>6, <1>7, <1>8 DEF RequeueInv

\* A step that leaves the queue, the workers and what is remembered alone.
LEMMA BystanderKeeps ==
  ASSUME RequeueInv, UNCHANGED <<queue, running, ended, members, limits, outcome>>,
         suspect' \subseteq Nodes, ready' \subseteq Nodes, back' \subseteq Nodes, pass' \in BOOLEAN
  PROVE  RequeueInv'
<1> USE DEF RequeueInv, members
<1>1. VarsOK' BY DEF VarsOK
<1>2. Placed' /\ EndsOK' BY DEF Placed, Queued, EndsOK
<1>3. WithinLimits' /\ SentBack' BY DEF WithinLimits, SentBack
<1>4. Stayed' /\ DropsSpread' BY DEF Stayed, DropsSpread
<1>q. QED BY <1>1, <1>2, <1>3, <1>4

\* A file leaves the queue for one worker, and it is known whether that one dropped it last.
LEMMA AssignKeeps ==
  ASSUME RequeueInv, NEW i \in DOMAIN queue, NEW w \in Workers, Assign(i, w)
  PROVE  RequeueInv'
<1> USE DEF RequeueInv
<1> DEFINE f == queue[i]
           b == IF w = limits[f].dropped_on THEN w ELSE Nobody
           l == [limits[f] EXCEPT !.sent_back = b]
<1>1. f \in Files /\ f \in Queued /\ f # Nothing BY NamesAssumption DEF VarsOK, Queued, ToSet
<1>2. queue' \in Seq(Files) /\ IsInjective(queue') /\ Queued' = Queued \ {f}
  BY RemoveAtLeaves DEF Assign, VarsOK, Queued
<1>3. running[w] = Nothing
  <2>1. w \in Elsewhere(f) \/ w \in Free(limits[f].excluded \cup limits[f].waiting) BY DEF Assign, Takers
  <2>q. QED BY <2>1 DEF Elsewhere, Free
<1>4. running' = [running EXCEPT ![w] = f] /\ limits' = [limits EXCEPT ![f] = l] BY DEF Assign
<1>b. limits[f] \in Limits BY <1>1 DEF VarsOK
<1>c. b \in Nodes \cup {Nobody} BY <1>b, NamesAssumption DEF Limits
<1>5. l \in Limits /\ l.drops = limits[f].drops /\ l.waits = limits[f].waits /\ l.waiting = limits[f].waiting
      /\ l.starts = limits[f].starts /\ l.dropped_on = limits[f].dropped_on
      /\ l.sent_back = IF w = l.dropped_on THEN w ELSE Nobody
  BY <1>b, <1>c DEF Limits
<1>6. UNCHANGED <<ended, member, turns, stayed, suspect, ready, back, outcome, pass>> BY DEF Assign, members
<1>7. VarsOK' BY <1>1, <1>2, <1>4, <1>5, <1>6 DEF VarsOK
<1> HIDE DEF l, f
<1>8. Placed'
  <2>1. running'[w] = f /\ \A u \in Workers \ {w} : running'[u] = running[u] /\ running[u] # f
    BY <1>1, <1>4 DEF VarsOK, Placed
  <2>2. \A g \in Queued' : outcome'[g] = Nothing /\ \A u \in Workers : running'[u] # g
    BY <1>2, <1>6, <2>1 DEF Placed
  <2>3. \A u \in Workers : running'[u] # Nothing => /\ outcome'[running'[u]] = Nothing
                                                   /\ \A v \in Workers : running'[v] = running'[u] => v = u
    BY <1>1, <1>6, <2>1 DEF Placed
  <2>4. \A g \in Files : outcome'[g] = Nothing => g \in Queued' \/ \E u \in Workers : running'[u] = g
    BY <1>2, <1>3, <1>6, <2>1, NamesAssumption DEF Placed
  <2>q. QED BY <2>2, <2>3, <2>4 DEF Placed
<1>9. EndsOK' BY <1>1, <1>4, <1>6 DEF VarsOK, EndsOK
<1>10. WithinLimits' BY <1>1, <1>4, <1>5, <1>6 DEF VarsOK, WithinLimits, AtMost, Within
<1>11. SentBack'
  <2>1. \A g \in Files : limits'[g].sent_back \in {Nobody, limits'[g].dropped_on}
    BY <1>1, <1>4, <1>5 DEF VarsOK, SentBack
  <2>2. limits'[running'[w]] = l BY <1>1, <1>4 DEF VarsOK, f
  <2>3. ASSUME NEW u \in Workers \ {w}, running'[u] # Nothing PROVE running'[u] = running[u] /\ running[u] # f
    BY <1>1, <1>4, <2>3 DEF VarsOK, Placed
  <2>4. \A u \in Workers \ {w} : running'[u] # Nothing => limits'[running'[u]] = limits[running[u]]
    BY <1>1, <1>4, <2>3 DEF VarsOK
  <2>5. ASSUME NEW u \in Workers, running'[u] # Nothing
        PROVE  limits'[running'[u]].sent_back = IF u = limits'[running'[u]].dropped_on THEN u ELSE Nobody
    <3>1. CASE u = w BY <1>5, <2>2, <3>1
    <3>2. CASE u # w BY <2>3, <2>4, <2>5, <3>2 DEF SentBack
    <3>q. QED BY <3>1, <3>2
  <2>q. QED BY <2>1, <2>5 DEF SentBack
<1>12. Stayed' BY <1>6 DEF Stayed
<1>13. DropsSpread'
  <2>1. Spread(limits[f]) => Spread(l) BY <1>5 DEF Spread, Two, Troubled
  <2>2. \A g \in Files : limits'[g] = IF g = f THEN l ELSE limits[g] BY <1>1, <1>4 DEF VarsOK
  <2>q. QED BY <1>1, <1>5, <1>6, <2>1, <2>2 DEF DropsSpread
<1>q. QED BY <1>7, <1>8, <1>9, <1>10, <1>11, <1>12, <1>13

\* A queued file that nobody can run any more fails, which the app's worker rules out.
LEMMA StrandKeeps ==
  ASSUME RequeueInv, NEW i \in DOMAIN queue, Strand(i)
  PROVE  RequeueInv'
<1> USE DEF RequeueInv
<1> DEFINE f == queue[i]
<1>1. f \in Files /\ f \in Queued BY DEF VarsOK, Queued, ToSet
<1>2. queue' \in Seq(Files) /\ IsInjective(queue') /\ Queued' = Queued \ {f}
  BY RemoveAtLeaves DEF Strand, VarsOK, Queued
<1>3. outcome' = [outcome EXCEPT ![f] = "not_visible"] /\ pass' = FALSE
      /\ UNCHANGED <<running, ended, member, turns, stayed, suspect, ready, back, limits>> BY DEF Strand, members
<1>4. ~stayed
  <2>1. ~CanRunOutside(limits[f].excluded) BY DEF Strand, Stranded
  <2>q. QED BY <1>1, <2>1, AppRuns DEF Stayed, VarsOK, Limits
<1>5. VarsOK' BY <1>2, <1>3 DEF VarsOK
<1>6. Placed' BY <1>1, <1>2, <1>3 DEF VarsOK, Placed, Nothing
<1>7. EndsOK' /\ SentBack' /\ Stayed' BY <1>3 DEF EndsOK, SentBack, Stayed
<1>8. WithinLimits' BY <1>1, <1>3 DEF VarsOK, WithinLimits, Nothing
<1>9. DropsSpread' BY <1>3, <1>4 DEF DropsSpread
<1>q. QED BY <1>5, <1>6, <1>7, <1>8, <1>9

\* A file that a node gave back goes to the front, or it fails for what is remembered of it.
LEMMA GiveBackKeeps ==
  ASSUME RequeueInv, NEW w \in Workers, GiveBack(w)
  PROVE  RequeueInv'
<1> USE DEF RequeueInv
<1> DEFINE f == running[w]
<1>1. w \in Nodes BY DEF GiveBack, EndsOK, Workers
<1>2. f \in Files /\ f # Nothing /\ outcome[f] = Nothing /\ f \notin Queued /\ limits[f] \in Limits
  BY DEF GiveBack, EndsOK, VarsOK, Placed
<1>3. AtMost(limits[f]) /\ Within(limits[f]) BY <1>2 DEF WithinLimits
<1>4. ended[w] \in {"dropped", "not_started", "not_visible"} BY DEF GiveBack, VarsOK
<1> DEFINE l == CASE ended[w] = "dropped" -> AfterDrop(limits[f], w)
                  [] ended[w] = "not_started" -> AfterFailedStart(limits[f], w)
                  [] ended[w] = "not_visible" -> AfterNotVisible(limits[f], w)
           failure == IF ended[w] = "not_visible" /\ ~CanRunOutside(l.excluded) THEN "not_visible" ELSE Reason(l)
<1>5. /\ limits' = [limits EXCEPT ![f] = l] /\ outcome' = [outcome EXCEPT ![f] = failure]
      /\ queue' = IF failure = Nothing THEN <<f>> \o queue ELSE queue
      /\ running' = [running EXCEPT ![w] = Nothing] /\ ended' = [ended EXCEPT ![w] = Nothing]
      /\ suspect' \in {suspect, suspect \cup {w}} /\ UNCHANGED <<member, turns, stayed, ready, back, pass>>
  BY DEF GiveBack, members
<1>6. l \in {AfterDrop(limits[f], w), AfterFailedStart(limits[f], w), AfterNotVisible(limits[f], w)} BY <1>4
<1>7. l \in Limits /\ AtMost(l) /\ l.sent_back = Nobody
  BY <1>1, <1>2, <1>3, <1>6, AfterDropOK, AfterFailedStartOK, AfterNotVisibleOK
<1>8. stayed => Spread(l)
  <2> SUFFICES ASSUME stayed PROVE Spread(l) OBVIOUS
  <2>1. member[App] = "open" /\ Spread(limits[f]) BY <1>2 DEF Stayed, DropsSpread
  <2>2. limits[f].sent_back = IF w = limits[f].dropped_on THEN w ELSE Nobody BY <1>2 DEF SentBack
  <2>3. Spread(AfterDrop(limits[f], w)) BY <1>1, <1>2, <2>1, <2>2, AfterDropSpreads
  <2>4. Spread(AfterFailedStart(limits[f], w)) BY <1>1, <1>2, <2>1, AfterFailedStartSpreads
  <2>5. Spread(AfterNotVisible(limits[f], w)) BY <1>1, <1>2, <2>1, AfterNotVisibleSpreads
  <2>q. QED BY <1>6, <2>3, <2>4, <2>5
<1>9. stayed => failure = Reason(l)
  <2> SUFFICES ASSUME stayed PROVE CanRunOutside(l.excluded) OBVIOUS
  <2>q. QED BY <1>7, AppRuns DEF Stayed, Limits
<1> HIDE DEF l
<1>10. Reason(l) \in {Nothing, "drops", "starts"} /\ (Reason(l) = Nothing => Within(l))
       /\ (Reason(l) = "drops" => Len(l.drops) >= MAX_NODE_DROPS) /\ (Reason(l) = "starts" => l.starts # 0)
  BY <1>7, LimitsAssumption DEF Reason, Within, Limits, Nothing
<1>11. failure \in {Nothing, "drops", "starts", "not_visible"} /\ (failure = Nothing => Within(l)) BY <1>10 DEF Nothing
<1> HIDE DEF failure
<1>12. queue' \in Seq(Files) /\ IsInjective(queue') /\ Queued' = Queued \cup (IF failure = Nothing THEN {f} ELSE {})
  BY <1>2, <1>5, ToTheFront DEF VarsOK, Queued
<1> HIDE DEF f
<1>13. running[w] = f BY DEF f
<1>14. VarsOK' BY <1>1, <1>2, <1>5, <1>7, <1>11, <1>12 DEF VarsOK
<1>15. Placed'
  <2>1. running'[w] = Nothing /\ \A u \in Workers \ {w} : running'[u] = running[u] /\ running[u] # f
    BY <1>2, <1>5, <1>13 DEF VarsOK, Placed
  <2>2. outcome'[f] = failure /\ \A g \in Files \ {f} : outcome'[g] = outcome[g] BY <1>2, <1>5 DEF VarsOK
  <2>3. \A g \in Queued' : g \in Files /\ outcome'[g] = Nothing /\ \A u \in Workers : running'[u] # g
    <3>1. \A g \in Queued : g \in Files BY DEF VarsOK, Queued, ToSet
    <3>q. QED BY <1>2, <1>12, <2>1, <2>2, <3>1, NamesAssumption DEF Placed
  <2>4. \A u \in Workers : running'[u] # Nothing => /\ outcome'[running'[u]] = Nothing
                                                   /\ \A v \in Workers : running'[v] = running'[u] => v = u
    BY <2>1, <2>2 DEF VarsOK, Placed
  <2>5. \A g \in Files : outcome'[g] = Nothing => g \in Queued' \/ \E u \in Workers : running'[u] = g
    BY <1>12, <1>13, <2>1, <2>2 DEF Placed
  <2>q. QED BY <2>3, <2>4, <2>5 DEF Placed
<1>16. EndsOK' BY <1>5 DEF VarsOK, EndsOK
<1>17. WithinLimits' BY <1>2, <1>5, <1>7, <1>11 DEF VarsOK, WithinLimits
<1>18. SentBack'
  <2>1. \A g \in Files : limits'[g].sent_back \in {Nobody, limits'[g].dropped_on}
    BY <1>2, <1>5, <1>7 DEF VarsOK, SentBack
  <2>2. ASSUME NEW u \in Workers, running'[u] # Nothing
        PROVE  running'[u] = running[u] /\ limits'[running'[u]] = limits[running[u]]
    BY <1>2, <1>5, <1>13, <2>2 DEF VarsOK, Placed
  <2>q. QED BY <2>1, <2>2 DEF SentBack
<1>19. Stayed' BY <1>5 DEF Stayed
<1>20. DropsSpread'
  <2>1. stayed => failure \notin {"starts", "not_visible"} /\ (failure = "drops" => Len(l.drops) > 1)
    <3>1. stayed => l.starts = 0 BY <1>8 DEF Spread
    <3>2. Len(l.drops) \in Nat BY <1>7 DEF Limits
    <3>q. QED BY <1>9, <1>10, <3>1, <3>2, LimitsAssumption DEF Nothing
  <2>q. QED BY <1>2, <1>5, <1>8, <2>1 DEF VarsOK, DropsSpread
<1>q. QED BY <1>14, <1>15, <1>16, <1>17, <1>18, <1>19, <1>20

\* A finished file is settled.
LEMMA CompleteKeeps ==
  ASSUME RequeueInv, NEW w \in Workers, Complete(w)
  PROVE  RequeueInv'
<1> USE DEF RequeueInv, Complete, members
<1>1. running[w] \in Files /\ running[w] # Nothing BY DEF VarsOK, EndsOK, Nothing
<1>2. VarsOK' BY <1>1 DEF VarsOK
<1>3. Placed'
  <2> DEFINE f == running[w]
  <2>1. running'[w] = Nothing /\ \A u \in Workers \ {w} : running'[u] = running[u] /\ running[u] # f
    BY <1>1 DEF VarsOK, Placed
  <2>2. outcome'[f] = "done" /\ \A g \in Files \ {f} : outcome'[g] = outcome[g] BY <1>1 DEF VarsOK
  <2>3. Queued' = Queued /\ f \notin Queued /\ Queued \subseteq Files BY <1>1 DEF VarsOK, Placed, Queued, ToSet
  <2> HIDE DEF f, Complete
  <2>4. \A g \in Queued' : outcome'[g] = Nothing /\ \A u \in Workers : running'[u] # g
    BY <2>1, <2>2, <2>3, NamesAssumption DEF Placed
  <2>5. \A u \in Workers : running'[u] # Nothing => /\ outcome'[running'[u]] = Nothing
                                                   /\ \A v \in Workers : running'[v] = running'[u] => v = u
    BY <2>1, <2>2 DEF VarsOK, Placed
  <2>6. \A g \in Files : outcome'[g] = Nothing => g \in Queued' \/ \E u \in Workers : running'[u] = g
    BY <2>1, <2>2, <2>3 DEF Placed, Nothing, f
  <2>q. QED BY <2>4, <2>5, <2>6 DEF Placed
<1>4. EndsOK' /\ Stayed' BY DEF VarsOK, EndsOK, Stayed
<1>5. WithinLimits' BY <1>1 DEF VarsOK, WithinLimits, Nothing
<1>6. SentBack' BY DEF VarsOK, SentBack
<1>7. DropsSpread' BY <1>1 DEF VarsOK, DropsSpread
<1>q. QED BY <1>2, <1>3, <1>4, <1>5, <1>6, <1>7

\* This app's own worker gives no file back.
LEMMA EndKeeps ==
  ASSUME RequeueInv, NEW w \in Workers, NEW how \in {"done", "dropped", "not_started", "not_visible"}, End(w, how)
  PROVE  RequeueInv'
<1> USE DEF RequeueInv, End, members
<1>1. VarsOK' BY DEF VarsOK
<1>2. Placed' /\ WithinLimits' BY DEF Placed, Queued, WithinLimits
<1>3. EndsOK' BY DEF VarsOK, EndsOK
<1>4. SentBack' /\ Stayed' /\ DropsSpread' BY DEF SentBack, Stayed, DropsSpread
<1>q. QED BY <1>1, <1>2, <1>3, <1>4

\* A wait that runs out leaves the node among those that had trouble.
LEMMA WaitRunsOutKeeps ==
  ASSUME RequeueInv, NEW f \in Files, NEW n \in Nodes, WaitRunsOut(f, n)
  PROVE  RequeueInv'
<1> USE DEF RequeueInv
<1> DEFINE l == [limits[f] EXCEPT !.waiting = @ \ {n}]
<1>1. limits' = [limits EXCEPT ![f] = l] BY DEF WaitRunsOut
<1>2. l \in Limits /\ l.drops = limits[f].drops /\ l.waits = limits[f].waits /\ l.waiting \subseteq limits[f].waiting
      /\ l.starts = limits[f].starts /\ l.dropped_on = limits[f].dropped_on /\ l.sent_back = limits[f].sent_back
  BY DEF VarsOK, Limits
<1>3. UNCHANGED <<queue, running, ended, member, turns, stayed, suspect, ready, back, pass, outcome>>
  BY DEF WaitRunsOut, members
<1> HIDE DEF l
<1>4. VarsOK' BY <1>1, <1>2, <1>3 DEF VarsOK
<1>5. Placed' /\ EndsOK' /\ Stayed' BY <1>3 DEF Placed, Queued, EndsOK, Stayed
<1>6. WithinLimits' BY <1>1, <1>2, <1>3 DEF VarsOK, WithinLimits, AtMost, Within
<1>7. SentBack' BY <1>1, <1>2, <1>3 DEF VarsOK, SentBack
<1>8. DropsSpread'
  <2>1. Spread(limits[f]) => Spread(l) BY <1>2 DEF Spread, Two, Troubled
  <2>2. \A g \in Files : limits'[g] = IF g = f THEN l ELSE limits[g] BY <1>1 DEF VarsOK
  <2>q. QED BY <1>2, <1>3, <2>1, <2>2 DEF DropsSpread
<1>q. QED BY <1>4, <1>5, <1>6, <1>7, <1>8

\* The history ends when the app's worker turns.
LEMMA TurnKeeps ==
  ASSUME RequeueInv, NEW w \in Workers, NEW how \in {"open", "closed", "lost"}, Turn(w, how)
  PROVE  RequeueInv'
<1> USE DEF RequeueInv, Turn
<1>1. VarsOK' BY BoundsAssumption DEF VarsOK
<1>2. Placed' /\ EndsOK' BY DEF Placed, Queued, EndsOK
<1>3. WithinLimits' /\ SentBack' BY DEF WithinLimits, SentBack
<1>4. Stayed'
  <2>1. stayed' => stayed /\ w # App OBVIOUS
  <2>2. member'[App] = member[App] \/ w = App BY DEF VarsOK, Workers
  <2>q. QED BY <2>1, <2>2 DEF Stayed
<1>5. DropsSpread' BY DEF DropsSpread
<1>q. QED BY <1>1, <1>2, <1>3, <1>4, <1>5

-----------------------------------------------------------------------------
\* The theorems.

\* The invariant: where each file is, what is remembered of it, and which nodes its counted drops came from.
THEOREM InvariantHolds == Spec => []RequeueInv
<1>1. RequeueInv /\ [Next]_vars => RequeueInv'
  <2> SUFFICES ASSUME RequeueInv, [Next]_vars PROVE RequeueInv' OBVIOUS
  <2>1. CASE BeginPass \/ EndPass
    BY <2>1, BystanderKeeps DEF BeginPass, EndPass, RequeueInv, VarsOK
  <2>2. CASE \E i \in DOMAIN queue : Strand(i) \/ \E w \in Workers : Assign(i, w)
    BY <2>2, StrandKeeps, AssignKeeps
  <2>3. CASE \E w \in Workers : GiveBack(w) \/ Complete(w)
    BY <2>3, GiveBackKeeps, CompleteKeeps
  <2>4. CASE \E w \in Workers : Ends(w) \/ \E how \in {"open", "closed", "lost"} : Turn(w, how)
    BY <2>4, EndKeeps, TurnKeeps DEF Ends
  <2>5. CASE \E n \in Nodes : CheckFindsReady(n) \/ HoldRunsOut(n)
    BY <2>5, BystanderKeeps DEF CheckFindsReady, HoldRunsOut, RequeueInv, VarsOK
  <2>6. CASE \E n \in Nodes, f \in Files : WaitRunsOut(f, n) BY <2>6, WaitRunsOutKeeps
  <2>7. CASE UNCHANGED vars BY <2>7, BystanderKeeps DEF vars, members, RequeueInv, VarsOK
  <2>q. QED BY <2>1, <2>2, <2>3, <2>4, <2>5, <2>6, <2>7 DEF Next, Loop
<1>q. QED BY <1>1, InitRequeue, PTL DEF Spec

\* Every variable keeps its type, the limits are kept, and a file is queued, with one worker, or settled.
THEOREM TypeCorrect == Spec => []TypeOK
<1>1. RequeueInv => TypeOK
  <2> SUFFICES ASSUME RequeueInv PROVE TypeOK OBVIOUS
  <2> USE DEF RequeueInv
  <2>1. \A f \in Files : /\ limits[f].excluded \subseteq Nodes
                         /\ limits[f].waiting \subseteq limits[f].waits /\ limits[f].waits \subseteq Nodes
                         /\ limits[f].dropped_on \in Nodes \cup {Nobody} /\ limits[f].stays_off \in Nodes \cup {Nobody}
                         /\ limits[f].sent_back \in {Nobody, limits[f].dropped_on}
                         /\ limits[f].starts \in 0..MAX_NODE_START_FAILURES /\ Len(limits[f].drops) <= MAX_NODE_DROPS
    BY LimitsAssumption DEF VarsOK, Limits, WithinLimits, AtMost, SentBack
  <2>2. ASSUME NEW f \in Files
        PROVE  Cardinality({w \in Workers : running[w] = f}) =
                 IF outcome[f] = Nothing /\ ~Contains(queue, f) THEN 1 ELSE 0
    <3>1. Contains(queue, f) <=> f \in Queued BY DEF Contains, Queued, ToSet, VarsOK
    <3>2. CASE \E w \in Workers : running[w] = f
      <4>1. PICK w \in Workers : running[w] = f BY <3>2
      <4>2. {u \in Workers : running[u] = f} = {w} BY <4>1, NamesAssumption DEF Placed
      <4>3. outcome[f] = Nothing /\ f \notin Queued BY <4>1, NamesAssumption DEF Placed
      <4>q. QED BY <3>1, <4>2, <4>3, FS_Singleton
    <3>3. CASE ~\E w \in Workers : running[w] = f
      <4>1. {u \in Workers : running[u] = f} = {} BY <3>3
      <4>2. ~(outcome[f] = Nothing /\ f \notin Queued) BY <3>3 DEF Placed
      <4>q. QED BY <3>1, <4>1, <4>2, FS_EmptySet
    <3>q. QED BY <3>2, <3>3
  <2>q. QED BY <2>1, <2>2 DEF TypeOK, VarsOK
<1>q. QED BY <1>1, InvariantHolds, PTL

\* A file that has ended keeps its outcome, and no worker gets it again.
KeepsSettled ==
  \A f \in Files : outcome[f] # Nothing => outcome'[f] = outcome[f] /\ \A w \in Workers : running'[w] # f
SettledForGood == [][KeepsSettled]_vars

\* Only the loop ends a file, and only one that is queued or that a worker has given back.
LEMMA OnlyLiveEnd ==
  ASSUME RequeueInv, [Next]_vars, NEW f \in Files, outcome[f] # Nothing
  PROVE  outcome'[f] = outcome[f]
<1>0. VarsOK /\ Placed /\ EndsOK BY DEF RequeueInv
<1>1. CASE \E i \in DOMAIN queue : Strand(i)
  <2>1. PICK i \in DOMAIN queue : Strand(i) BY <1>1
  <2>2. queue[i] \in Queued /\ queue[i] \in Files BY <1>0 DEF Queued, ToSet, VarsOK
  <2>3. queue[i] # f BY <1>0, <2>2 DEF Placed
  <2>q. QED BY <1>0, <2>1, <2>3 DEF Strand, VarsOK
<1>2. CASE \E w \in Workers : GiveBack(w) \/ Complete(w)
  <2>1. PICK w \in Workers : GiveBack(w) \/ Complete(w) BY <1>2
  <2>2. ended[w] # Nothing BY <2>1 DEF GiveBack, Complete, Nothing
  <2>3. running[w] # Nothing BY <1>0, <2>2 DEF EndsOK
  <2>4. running[w] # f BY <1>0, <2>3 DEF Placed
  <2>5. \E o : outcome' = [outcome EXCEPT ![running[w]] = o] BY <2>1 DEF GiveBack, Complete
  <2>q. QED BY <1>0, <2>4, <2>5 DEF VarsOK
<1>3. CASE ~\E i \in DOMAIN queue : Strand(i)
  <2>1. CASE ~\E w \in Workers : GiveBack(w) \/ Complete(w)
    <3>1. UNCHANGED outcome
      BY <1>3, <2>1 DEF Next, Loop, BeginPass, EndPass, Assign, Ends, End, Turn, CheckFindsReady, HoldRunsOut,
                        WaitRunsOut, vars
    <3>q. QED BY <3>1
  <2>q. QED BY <1>2, <2>1
<1>q. QED BY <1>1, <1>3

\* Whatever is dropped, refused or handed back, a file that has ended is never run or ended again.
THEOREM SettledHolds == Spec => SettledForGood
<1>1. RequeueInv /\ RequeueInv' /\ [Next]_vars => [KeepsSettled]_vars
  <2> SUFFICES ASSUME RequeueInv, RequeueInv', [Next]_vars, NEW f \in Files, outcome[f] # Nothing
               PROVE  outcome'[f] = outcome[f] /\ \A w \in Workers : running'[w] # f
      BY DEF KeepsSettled
  <2>1. outcome'[f] = outcome[f] BY OnlyLiveEnd
  <2>2. \A w \in Workers : running'[w] # f
    <3>1. Placed' BY DEF RequeueInv
    <3>2. f # Nothing BY NamesAssumption
    <3>q. QED BY <2>1, <3>1, <3>2 DEF Placed
  <2>q. QED BY <2>1, <2>2
<1>q. QED BY <1>1, InvariantHolds, PTL DEF Spec, SettledForGood

\* No single node costs a file while this app's own worker has run its kind throughout.
THEOREM OneNodeCostsNone == Spec => []OneNodeCostsNoFile
<1>1. RequeueInv => OneNodeCostsNoFile
  <2> SUFFICES ASSUME RequeueInv, stayed, NEW f \in Files
               PROVE  /\ outcome[f] \notin {"starts", "not_visible"}
                      /\ outcome[f] = "drops" => Cardinality(ToSet(limits[f].drops) \cup limits[f].waits) > 1
    BY DEF OneNodeCostsNoFile
  <2>1. outcome[f] \notin {"starts", "not_visible"} BY DEF RequeueInv, DropsSpread
  <2>2. ASSUME outcome[f] = "drops" PROVE Cardinality(Troubled(limits[f])) > 1
    <3>1. Two(limits[f]) BY <2>2 DEF RequeueInv, DropsSpread, Spread
    <3>2. limits[f].drops \in Seq(Nodes) /\ limits[f].waits \subseteq Nodes BY DEF RequeueInv, VarsOK, Limits
    <3>3. Troubled(limits[f]) \subseteq Nodes BY <3>2 DEF Troubled, ToSet
    <3>q. QED BY <3>1, <3>3, TwoNodes DEF Two
  <2>q. QED BY <2>1, <2>2 DEF Troubled
<1>q. QED BY <1>1, InvariantHolds, PTL
=============================================================================
