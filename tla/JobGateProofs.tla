---------------------------- MODULE JobGateProofs ----------------------------
(***************************************************************************)
(* Proofs about module JobGate, for every set of jobs, number of slots and *)
(* priorities.                                                             *)
(*                                                                         *)
(* GateInv adds to the properties what keeps them: a slot is held by a     *)
(* runner that was let in and has not ended, a runner owns its request     *)
(* from its claim to its end, and what the gate knows of a priority is the *)
(* manager's unless a call is on its way, which no answer outlives.        *)
(***************************************************************************)
EXTENDS JobGate, FiniteSetTheorems, TLAPS

Rows == [status : {"PENDING", "RUNNING", "COMPLETED", "CANCELLED"}, prio : Priorities, held : BOOLEAN, cancel : BOOLEAN,
         passed : BOOLEAN, batched : BOOLEAN]
Made == [claimed : BOOLEAN, prio : Priorities, ready : BOOLEAN, complete : BOOLEAN, waiting : BOOLEAN]
Requests == {NoRequest} \cup Made
Answers == {NotAsked} \cup [prio : Priorities, ready : BOOLEAN, gone : BOOLEAN]

\* TypeOK in parts: rows, requests, answers, and the rest.
RowsOK == row \in [Jobs -> Rows]
RequestsOK == request \in [Jobs -> Requests]
AnswersOK == answer \in [Jobs -> Answers]
RestOK ==
  /\ paused \in BOOLEAN /\ start \in [Jobs -> StartCalls] /\ orphaned \in SUBSET Jobs
  /\ open \in BOOLEAN /\ kindOpen \in BOOLEAN /\ limit \in BOOLEAN /\ moved \in BOOLEAN /\ due \in BOOLEAN
  /\ call \in [Jobs -> Priorities \cup {0}] /\ line \in [Jobs -> Priorities \cup {0}]
  /\ active \in 0..StartupSlots /\ refresher \in Jobs \cup {0}
  /\ snapshot \in SUBSET Jobs /\ touched \in SUBSET Jobs
  /\ pc \in [Jobs -> RunnerStates] /\ slot \in [Jobs -> BOOLEAN]
  /\ operations \in 0..MaxOperations

\* The parts are the whole.
LEMMA TypeParts == TypeOK <=> RowsOK /\ RequestsOK /\ AnswersOK /\ RestOK
<1>q. QED BY DEF TypeOK, RowsOK, RequestsOK, AnswersOK, RestOK, Rows, Requests, Made, Answers

\* Who holds a slot was let in and has not ended.
SlotPlaces == \A j \in Jobs : slot[j] => pc[j] \in {"admitted", "running"}

\* A runner owns its request, only requests stand in line; a runner that waits stands there, and one that waits out a
\* retry delay is not ready.
Owned ==
  \A j \in Jobs :
    /\ pc[j] \notin {"idle", "exiting"} => request[j].claimed
    /\ line[j] # 0 => Registered(j)
    /\ Waiting(j) => line[j] # 0
    /\ pc[j] = "preflight" => request[j].waiting /\ ~request[j].ready

\* A request without a runner is one a start or a timer will come for, or one whose start was skipped.
Expected ==
  \A j \in Jobs :
    Registered(j) /\ pc[j] \in {"idle", "exiting"} /\ Pending(j) /\ ~row[j].held /\ ~paused
      => start[j] # "no" \/ row[j].batched \/ j \in orphaned

\* A priority the gate has, or is about to apply, is the manager's unless a call is on its way.
Told ==
  /\ \A j \in Jobs : call[j] # 0 => call[j] = row[j].prio
  /\ \A j \in Jobs : Registered(j) /\ call[j] = 0 => request[j].prio = row[j].prio
  /\ \A k \in snapshot : Registered(k)
  /\ \A k \in snapshot : answer[k] # NotAsked /\ k \notin touched /\ call[k] = 0 => answer[k].prio = row[k].prio

GateInv == RowsOK /\ RequestsOK /\ AnswersOK /\ RestOK /\ SlotPlaces /\ SlotsHeld /\ Owned /\ Expected /\ Told

-----------------------------------------------------------------------------
\* Counting the slots that are held: one more, one less.
LEMMA CountSlots ==
  ASSUME NEW S, S \subseteq Jobs, NEW j \in Jobs
  PROVE  /\ Cardinality(S) \in Nat
         /\ j \notin S => Cardinality(S \cup {j}) = Cardinality(S) + 1
         /\ j \in S => Cardinality(S \ {j}) = Cardinality(S) - 1 /\ Cardinality(S) > 0
<1>1. IsFiniteSet(S) /\ Cardinality(S) \in Nat BY JobsAssumption, FS_Subset, FS_CardinalityType
<1>2. j \notin S => Cardinality(S \cup {j}) = Cardinality(S) + 1 BY <1>1, FS_AddElement
<1>3. j \in S => Cardinality(S \ {j}) = Cardinality(S) - 1 BY <1>1, FS_RemoveElement
<1>4. j \in S => Cardinality(S) > 0 BY <1>1, FS_EmptySet
<1>q. QED BY <1>1, <1>2, <1>3, <1>4

\* release_slot counts a slot down exactly when the runner holds it.
LEMMA ReleaseCounts ==
  ASSUME RestOK, SlotsHeld, NEW j \in Jobs, ReleaseSlot(j)
  PROVE  SlotsHeld' /\ active' \in 0..StartupSlots /\ slot' = [slot EXCEPT ![j] = FALSE]
<1> USE SlotsAssumption DEF ReleaseSlot
<1> DEFINE held == {k \in Jobs : slot[k]}
<1>1. active = Cardinality(held) /\ active \in 0..StartupSlots /\ slot \in [Jobs -> BOOLEAN] BY DEF SlotsHeld, RestOK
<1>2. {k \in Jobs : slot'[k]} = held \ {j} BY <1>1
<1>3. slot[j] => active' = active - 1 /\ active > 0 BY <1>1, CountSlots
<1>4. slot[j] => Cardinality(held \ {j}) = Cardinality(held) - 1 BY CountSlots
<1>5. ~slot[j] => active' = active /\ held \ {j} = held OBVIOUS
<1> HIDE DEF held
<1>6. SlotsHeld' BY <1>1, <1>2, <1>3, <1>4, <1>5 DEF SlotsHeld
<1>q. QED BY <1>1, <1>3, <1>5, <1>6

\* Only Admit takes a slot.
LEMMA AdmitCounts ==
  ASSUME RestOK, SlotPlaces, SlotsHeld, NEW j \in Jobs, Admit(j)
  PROVE  SlotsHeld' /\ active' \in 0..StartupSlots /\ slot' = [slot EXCEPT ![j] = TRUE]
<1> USE SlotsAssumption DEF Admit
<1> DEFINE held == {k \in Jobs : slot[k]}
<1>1. active = Cardinality(held) /\ active \in 0..StartupSlots /\ slot \in [Jobs -> BOOLEAN] BY DEF SlotsHeld, RestOK
<1>2. j \notin held BY DEF SlotPlaces
<1>3. {k \in Jobs : slot'[k]} = held \cup {j} BY <1>1
<1>4. Cardinality(held \cup {j}) = Cardinality(held) + 1 BY <1>2, CountSlots
<1>5. active < StartupSlots /\ active' = active + 1 BY DEF IsNext
<1>6. slot' = [slot EXCEPT ![j] = TRUE] OBVIOUS
<1> HIDE DEF held, Admit
<1>7. SlotsHeld' BY <1>1, <1>3, <1>4, <1>5 DEF SlotsHeld
<1>q. QED BY <1>1, <1>5, <1>6, <1>7

-----------------------------------------------------------------------------
\* A request is a made one or none, and only a made one is claimed.
LEMMA RequestFields ==
  ASSUME RequestsOK, NEW j \in Jobs
  PROVE  /\ Registered(j) => request[j] \in Made
         /\ ~Registered(j) => request[j] = NoRequest
         /\ request[j].claimed => Registered(j)
<1>q. QED BY DEF RequestsOK, Requests, Registered, NoRequest

\* A made request is registered; a first one has the priority it was made with.
LEMMA MadeFields ==
  /\ \A r \in Made : r # NoRequest
  /\ \A p \in Priorities : LET r == [NoRequest EXCEPT !.prio = p] IN
       r \in Made /\ r.prio = p /\ ~r.claimed /\ [r EXCEPT !.claimed = TRUE] \in Made
<1>1. \A r \in Made : r # NoRequest
  <2>1. \A r \in Made : r.prio # 0 BY PrioritiesAssumption DEF Made
  <2>q. QED BY <2>1 DEF NoRequest
<1>2. \A p \in Priorities : LET r == [NoRequest EXCEPT !.prio = p] IN
       r \in Made /\ r.prio = p /\ ~r.claimed /\ [r EXCEPT !.claimed = TRUE] \in Made
      BY DEF NoRequest, Made
<1>q. QED BY <1>1, <1>2

\* A request that is made or changed leaves the others alone.
LEMMA ChangedRequest ==
  ASSUME RequestsOK, NEW j \in Jobs, NEW r \in Made, request' = [request EXCEPT ![j] = r]
  PROVE  /\ RequestsOK' /\ request'[j] = r /\ Registered(j)'
         /\ \A k \in Jobs : k # j => request'[k] = request[k] /\ (Registered(k)' <=> Registered(k))
<1>1. request'[j] = r /\ \A k \in Jobs : k # j => request'[k] = request[k] BY DEF RequestsOK
<1>2. RequestsOK' BY DEF RequestsOK, Requests
<1>q. QED BY <1>1, <1>2, MadeFields DEF Registered

\* What a refresh makes of a request: it keeps owned ones, makes none ready that waits, and none up.
AppliedTo(k) ==
  /\ request'[k] \in Requests
  /\ Registered(k)' => Registered(k)
  /\ request[k].claimed => request'[k].claimed /\ request'[k] # NoRequest
  /\ request[k].waiting /\ ~request[k].ready => request'[k] = NoRequest \/ ~request'[k].ready
  /\ request'[k] # NoRequest => request'[k].waiting = request[k].waiting
  /\ request'[k] # NoRequest /\ call[k] = 0 => request'[k].prio = row[k].prio

\* _refresh_requests_once: a retired request, one with an answer nobody contradicted, and one left as it was.
LEMMA AppliedAnswers ==
  ASSUME GateInv, NEW j \in Jobs, ApplyRefresh(j), NEW k \in Jobs
  PROVE  AppliedTo(k)
<1> USE DEF ApplyRefresh, GateInv, AppliedTo
<1>1. CASE k \in Retired
  <2>1. request'[k] = NoRequest BY <1>1 DEF ApplyAnswers
  <2>q. QED BY <1>1, <2>1 DEF Retired, Registered, Requests
<1>2. CASE k \notin Retired /\ k \in snapshot \ touched
  <2>1. Registered(k) /\ request[k] \in Made BY <1>2, RequestFields DEF Told
  <2>2. answer[k] \in Answers /\ answer[k] # NotAsked BY <1>2 DEF AnswersOK
  <2>3. request'[k] = [request[k] EXCEPT !.prio = answer[k].prio, !.ready = answer[k].ready /\ ~request[k].waiting]
        BY <1>2 DEF ApplyAnswers
  <2>4. /\ request'[k] \in Made /\ request'[k].prio = answer[k].prio /\ request'[k].claimed = request[k].claimed
        /\ request'[k].waiting = request[k].waiting
        /\ request'[k].ready = (answer[k].ready /\ ~request[k].waiting)
        BY <2>1, <2>2, <2>3 DEF Made, Answers
  <2>5. call[k] = 0 => answer[k].prio = row[k].prio BY <1>2, <2>2 DEF Told
  <2>q. QED BY <2>1, <2>4, <2>5, MadeFields DEF Requests
<1>3. CASE k \notin Retired /\ k \notin snapshot \ touched
  <2>1. request'[k] = request[k] BY <1>3 DEF ApplyAnswers
  <2>q. QED BY <2>1, RequestFields DEF RequestsOK, Registered, Told
<1>q. QED BY <1>1, <1>2, <1>3

-----------------------------------------------------------------------------
\* Lemmas of the steps: each keeps the invariant.

\* A job is put in line with the manager's priority.
LEMMA PrepareGate == \A j \in Jobs : GateInv /\ Prepare(j) => GateInv'
<1> SUFFICES ASSUME NEW j \in Jobs, GateInv, Prepare(j) PROVE GateInv' OBVIOUS
<1> USE DEF Prepare, GateInv, manager, starts, asking
<1> DEFINE r == [NoRequest EXCEPT !.prio = row[j].prio]
<1>1. RowsOK' /\ AnswersOK' /\ SlotPlaces' /\ SlotsHeld' BY DEF RowsOK, AnswersOK, SlotPlaces, SlotsHeld
<1>2. row[j].prio \in Priorities BY DEF RowsOK, Rows
<1>3. r \in Made /\ r.prio = row[j].prio BY <1>2, MadeFields
<1>4. request' = [request EXCEPT ![j] = r] /\ line' = [line EXCEPT ![j] = row[j].prio] BY DEF Registration
<1> HIDE DEF r
<1>5. /\ RequestsOK' /\ request'[j] = r /\ Registered(j)'
      /\ \A k \in Jobs : k # j => request'[k] = request[k] /\ (Registered(k)' <=> Registered(k))
      BY <1>3, <1>4, ChangedRequest
<1>6. RestOK' BY <1>2, <1>4 DEF RestOK, Registration
<1>7. Owned' BY <1>2, <1>4, <1>5, PrioritiesAssumption DEF Owned, RestOK, Waiting
<1>8. Told' BY <1>3, <1>5 DEF Told, RestOK
<1>9. Expected' BY <1>5 DEF Expected, RestOK, Pending
<1>q. QED BY <1>1, <1>5, <1>6, <1>7, <1>8, <1>9

\* A failed start leaves the line and the refresh under way.
LEMMA StartFailsGate == \A j \in Jobs : GateInv /\ StartFails(j) => GateInv'
<1> SUFFICES ASSUME NEW j \in Jobs, GateInv, StartFails(j) PROVE GateInv' OBVIOUS
<1> USE PrioritiesAssumption DEF StartFails, Unregister, GateInv, manager, starts, asking
<1>1. RowsOK' /\ SlotsHeld' BY DEF RowsOK, SlotsHeld
<1>2. RequestsOK' BY DEF RequestsOK, Requests
<1>3. AnswersOK' BY DEF AnswersOK, Answers
<1>4. RestOK' BY SlotsAssumption DEF RestOK, RunnerStates, StartCalls
<1>5. SlotPlaces' BY DEF RestOK, SlotPlaces
<1>6. Owned' BY DEF RequestsOK, Requests, RestOK, Owned, Registered, Waiting
<1>7. Told' BY DEF RowsOK, Rows, RequestsOK, Requests, RestOK, Told, Registered
<1>8. Expected' BY DEF RowsOK, Rows, RequestsOK, Requests, RestOK, Expected, Registered, Pending
<1>q. QED BY <1>1, <1>2, <1>3, <1>4, <1>5, <1>6, <1>7, <1>8

\* The runner takes its request, or makes one.
LEMMA ClaimGate == \A j \in Jobs : GateInv /\ Claim(j) => GateInv'
<1> SUFFICES ASSUME NEW j \in Jobs, GateInv, Claim(j) PROVE GateInv' OBVIOUS
<1> USE DEF Claim, GateInv, manager, starts, asking
<1> DEFINE r == [IF Registered(j) THEN request[j] ELSE [NoRequest EXCEPT !.prio = row[j].prio] EXCEPT !.claimed = TRUE]
<1>1. RowsOK' /\ AnswersOK' /\ SlotsHeld' BY DEF RowsOK, AnswersOK, SlotsHeld
<1>2. SlotPlaces' BY DEF SlotPlaces, RestOK
<1>3. row[j].prio \in Priorities BY DEF RowsOK, Rows
<1>4. r \in Made /\ r.claimed /\ r.prio = IF Registered(j) THEN request[j].prio ELSE row[j].prio
  <2>1. CASE Registered(j) BY <2>1, RequestFields DEF Made
  <2>2. CASE ~Registered(j) BY <1>3, <2>2 DEF NoRequest, Made
  <2>q. QED BY <2>1, <2>2
<1>5. request' = [request EXCEPT ![j] = r] BY DEF RequestsOK
<1> HIDE DEF r
<1>6. /\ RequestsOK' /\ request'[j] = r /\ Registered(j)'
      /\ \A k \in Jobs : k # j => request'[k] = request[k] /\ (Registered(k)' <=> Registered(k))
      BY <1>4, <1>5, ChangedRequest
<1>7. RestOK' BY <1>3 DEF RestOK, RunnerStates, StartCalls
<1>8. Owned' BY <1>4, <1>6 DEF Owned, RestOK, Waiting
<1>9. Told' BY <1>4, <1>6 DEF Told, RestOK
<1>10. Expected' BY <1>6 DEF Expected, RestOK, Pending
<1>q. QED BY <1>1, <1>2, <1>6, <1>7, <1>8, <1>9, <1>10

\* A start that comes to nothing leaves its request to a lifted hold, a timer or the next refresh.
LEMMA DeclineStartGate == \A j \in Jobs : GateInv /\ DeclineStart(j) => GateInv'
<1> SUFFICES ASSUME NEW j \in Jobs, GateInv, DeclineStart(j) PROVE GateInv' OBVIOUS
<1> USE PrioritiesAssumption DEF DeclineStart, GateInv, manager, starts, asking
<1>1. RowsOK' /\ RequestsOK' /\ AnswersOK' /\ SlotsHeld' BY DEF RowsOK, RequestsOK, AnswersOK, SlotsHeld
<1>2. RestOK' BY SlotsAssumption DEF RestOK, RunnerStates, StartCalls
<1>3. SlotPlaces' BY DEF RestOK, SlotPlaces
<1>4. Owned' BY DEF RequestsOK, Requests, RestOK, Owned, Registered, Waiting
<1>5. Told' BY DEF RowsOK, Rows, RequestsOK, Requests, RestOK, Told, Registered
<1>6. Expected' BY DEF RowsOK, Rows, RequestsOK, Requests, RestOK, Expected, Registered, Pending, Live
<1>q. QED BY <1>1, <1>2, <1>3, <1>4, <1>5, <1>6

\* A start skipped for a thread that is about to end is remembered.
LEMMA SkipDuplicateGate == \A j \in Jobs : GateInv /\ SkipDuplicate(j) => GateInv'
<1> SUFFICES ASSUME NEW j \in Jobs, GateInv, SkipDuplicate(j) PROVE GateInv' OBVIOUS
<1> USE PrioritiesAssumption DEF SkipDuplicate, GateInv, manager, starts, asking
<1>1. RowsOK' /\ RequestsOK' /\ AnswersOK' /\ SlotsHeld' BY DEF RowsOK, RequestsOK, AnswersOK, SlotsHeld
<1>2. RestOK' BY SlotsAssumption DEF RestOK, RunnerStates, StartCalls
<1>3. SlotPlaces' BY DEF RestOK, SlotPlaces
<1>4. Owned' BY DEF RequestsOK, Requests, RestOK, Owned, Registered, Waiting
<1>5. Told' BY DEF RowsOK, Rows, RequestsOK, Requests, RestOK, Told, Registered
<1>6. Expected' BY DEF RowsOK, Rows, RequestsOK, Requests, RestOK, Expected, Registered, Pending, Live
<1>q. QED BY <1>1, <1>2, <1>3, <1>4, <1>5, <1>6

\* A thread that leaves for a pause still owns its request.
LEMMA PauseExitGate == \A j \in Jobs : GateInv /\ PauseExit(j) => GateInv'
<1> SUFFICES ASSUME NEW j \in Jobs, GateInv, PauseExit(j) PROVE GateInv' OBVIOUS
<1> USE PrioritiesAssumption DEF PauseExit, GateInv, manager, starts, asking
<1>1. RowsOK' /\ RequestsOK' /\ AnswersOK' /\ SlotsHeld' BY DEF RowsOK, RequestsOK, AnswersOK, SlotsHeld
<1>2. RestOK' BY SlotsAssumption DEF RestOK, RunnerStates, StartCalls
<1>3. SlotPlaces' BY DEF RestOK, SlotPlaces
<1>4. Owned' BY DEF RequestsOK, Requests, RestOK, Owned, Registered, Waiting
<1>5. Told' BY DEF RowsOK, Rows, RequestsOK, Requests, RestOK, Told, Registered
<1>6. Expected' BY DEF RowsOK, Rows, RequestsOK, Requests, RestOK, Expected, Registered, Pending, Live
<1>q. QED BY <1>1, <1>2, <1>3, <1>4, <1>5, <1>6

\* A retry's wait makes the request not ready.
LEMMA BeginPreflightGate == \A j \in Jobs : GateInv /\ BeginPreflight(j) => GateInv'
<1> SUFFICES ASSUME NEW j \in Jobs, GateInv, BeginPreflight(j) PROVE GateInv' OBVIOUS
<1> USE DEF BeginPreflight, GateInv, manager, starts, asking
<1> DEFINE r == [request[j] EXCEPT !.waiting = TRUE, !.ready = FALSE]
<1>1. RowsOK' /\ AnswersOK' /\ SlotsHeld' BY DEF RowsOK, AnswersOK, SlotsHeld
<1>2. SlotPlaces' BY DEF SlotPlaces, RestOK
<1>3. request[j] \in Made /\ request[j].claimed /\ Registered(j) BY RequestFields DEF Owned
<1>4. r \in Made /\ r.claimed /\ r.waiting /\ ~r.ready /\ r.prio = request[j].prio BY <1>3 DEF Made
<1>5. request' = [request EXCEPT ![j] = r] BY DEF RequestsOK
<1> HIDE DEF r
<1>6. /\ RequestsOK' /\ request'[j] = r /\ Registered(j)'
      /\ \A k \in Jobs : k # j => request'[k] = request[k] /\ (Registered(k)' <=> Registered(k))
      BY <1>4, <1>5, ChangedRequest
<1>7. RestOK' BY DEF RestOK, RunnerStates
<1>8. Owned' BY <1>4, <1>6 DEF Owned, RestOK, Waiting
<1>9. Told' BY <1>3, <1>4, <1>6 DEF Told, RestOK
<1>10. Expected' BY <1>6 DEF Expected, RestOK, Pending
<1>q. QED BY <1>1, <1>2, <1>6, <1>7, <1>8, <1>9, <1>10

\* Nothing to wait for.
LEMMA SkipPreflightGate == \A j \in Jobs : GateInv /\ SkipPreflight(j) => GateInv'
<1> SUFFICES ASSUME NEW j \in Jobs, GateInv, SkipPreflight(j) PROVE GateInv' OBVIOUS
<1> USE PrioritiesAssumption DEF SkipPreflight, GateInv, manager, starts, asking
<1>1. RowsOK' /\ RequestsOK' /\ AnswersOK' /\ SlotsHeld' /\ Told'
      BY DEF RowsOK, RequestsOK, AnswersOK, SlotsHeld, Told, Registered
<1>2. RestOK' BY SlotsAssumption DEF RestOK, RunnerStates
<1>3. SlotPlaces' BY DEF RestOK, SlotPlaces
<1>4. Owned' BY DEF RequestsOK, Requests, RestOK, Owned, Registered, Waiting
<1>5. Expected' BY DEF RowsOK, Rows, RequestsOK, Requests, RestOK, Expected, Registered, Pending
<1>q. QED BY <1>1, <1>2, <1>3, <1>4, <1>5

\* The retry's wait is over.
LEMMA EndPreflightGate == \A j \in Jobs : GateInv /\ EndPreflight(j) => GateInv'
<1> SUFFICES ASSUME NEW j \in Jobs, GateInv, EndPreflight(j) PROVE GateInv' OBVIOUS
<1> USE PrioritiesAssumption DEF EndPreflight, GateInv, manager, starts, asking
<1>1. RowsOK' /\ RequestsOK' /\ AnswersOK' /\ SlotsHeld' /\ Told'
      BY DEF RowsOK, RequestsOK, AnswersOK, SlotsHeld, Told, Registered
<1>2. RestOK' BY SlotsAssumption DEF RestOK, RunnerStates
<1>3. SlotPlaces' BY DEF RestOK, SlotPlaces
<1>4. Owned' BY DEF RequestsOK, Requests, RestOK, Owned, Registered, Waiting
<1>5. Expected' BY DEF RowsOK, Rows, RequestsOK, Requests, RestOK, Expected, Registered, Pending
<1>q. QED BY <1>1, <1>2, <1>3, <1>4, <1>5

\* The runner joins the line at the manager's priority.
LEMMA EnterGateGate == \A j \in Jobs : GateInv /\ EnterGate(j) => GateInv'
<1> SUFFICES ASSUME NEW j \in Jobs, GateInv, EnterGate(j) PROVE GateInv' OBVIOUS
<1> USE DEF EnterGate, GateInv, manager, starts, asking
<1> DEFINE r == [request[j] EXCEPT !.complete = TRUE, !.waiting = FALSE]
<1>1. RowsOK' /\ AnswersOK' /\ SlotsHeld' BY DEF RowsOK, AnswersOK, SlotsHeld
<1>2. SlotPlaces' BY DEF SlotPlaces, RestOK
<1>3. request[j] \in Made /\ request[j].claimed /\ Registered(j) BY RequestFields DEF Owned
<1>4. r \in Made /\ r.claimed /\ r.prio = request[j].prio BY <1>3 DEF Made
<1>5. request' = [request EXCEPT ![j] = r] BY DEF RequestsOK
<1> HIDE DEF r
<1>6. /\ RequestsOK' /\ request'[j] = r /\ Registered(j)'
      /\ \A k \in Jobs : k # j => request'[k] = request[k] /\ (Registered(k)' <=> Registered(k))
      BY <1>4, <1>5, ChangedRequest
<1>7. row[j].prio \in Priorities BY DEF RowsOK, Rows
<1>8. RestOK' BY <1>7 DEF RestOK, RunnerStates
<1>9. Owned' BY <1>4, <1>6, <1>7, PrioritiesAssumption DEF Owned, RestOK, Waiting
<1>10. Told' BY <1>3, <1>4, <1>6 DEF Told, RestOK
<1>11. Expected' BY <1>6 DEF Expected, RestOK, Pending
<1>q. QED BY <1>1, <1>2, <1>6, <1>8, <1>9, <1>10, <1>11

\* The last refresh is good enough.
LEMMA SkipRefreshGate == \A j \in Jobs : GateInv /\ SkipRefresh(j) => GateInv'
<1> SUFFICES ASSUME NEW j \in Jobs, GateInv, SkipRefresh(j) PROVE GateInv' OBVIOUS
<1> USE PrioritiesAssumption DEF SkipRefresh, GateInv, manager, starts, asking
<1>1. RowsOK' /\ RequestsOK' /\ AnswersOK' /\ SlotsHeld' /\ Told'
      BY DEF RowsOK, RequestsOK, AnswersOK, SlotsHeld, Told, Registered
<1>2. RestOK' BY SlotsAssumption DEF RestOK, RunnerStates
<1>3. SlotPlaces' BY DEF RestOK, SlotPlaces
<1>4. Owned' BY DEF RequestsOK, Requests, RestOK, Owned, Registered, Waiting
<1>5. Expected' BY DEF RowsOK, Rows, RequestsOK, Requests, RestOK, Expected, Registered, Pending
<1>q. QED BY <1>1, <1>2, <1>3, <1>4, <1>5

\* A refresh starts from registered requests and no answers.
LEMMA BeginRefreshGate == \A j \in Jobs : GateInv /\ BeginRefresh(j) => GateInv'
<1> SUFFICES ASSUME NEW j \in Jobs, GateInv, BeginRefresh(j) PROVE GateInv' OBVIOUS
<1> USE PrioritiesAssumption DEF BeginRefresh, GateInv, manager, starts, asking
<1>1. RowsOK' /\ RequestsOK' /\ SlotsHeld' BY DEF RowsOK, RequestsOK, SlotsHeld
<1>2. AnswersOK' BY DEF AnswersOK, Answers
<1>3. RestOK' BY SlotsAssumption DEF RestOK, RunnerStates
<1>4. SlotPlaces' BY DEF RestOK, SlotPlaces
<1>5. Owned' BY DEF RequestsOK, Requests, RestOK, Owned, Registered, Waiting
<1>6. Told' BY DEF RowsOK, Rows, RequestsOK, Requests, RestOK, Told, Registered
<1>7. Expected' BY DEF RowsOK, Rows, RequestsOK, Requests, RestOK, Expected, Registered, Pending
<1>q. QED BY <1>1, <1>2, <1>3, <1>4, <1>5, <1>6, <1>7

\* An answer has the priority of the moment.
LEMMA AskPolicyGate == \A j \in Jobs : GateInv /\ AskPolicy(j) => GateInv'
<1> SUFFICES ASSUME NEW j \in Jobs, GateInv, AskPolicy(j) PROVE GateInv' OBVIOUS
<1> USE DEF AskPolicy, GateInv, manager, starts
<1>1. RowsOK' /\ RequestsOK' /\ RestOK' /\ SlotPlaces' /\ SlotsHeld' /\ Owned'
      BY DEF RowsOK, RequestsOK, RestOK, SlotPlaces, SlotsHeld, Owned, Waiting, Registered
<1>2. Registered(j) /\ request[j] \in Made BY RequestFields DEF Told
<1>3. row[j].prio \in Priorities /\ request[j].prio \in Priorities BY <1>2 DEF RowsOK, Rows, Made
<1>4. Policy(j) \in Answers BY <1>3 DEF Policy, Answers
<1>5. AnswersOK' BY <1>4 DEF AnswersOK
<1>6. call[j] = 0 => Policy(j).prio = row[j].prio BY <1>2 DEF Policy, Told
<1>7. Told' BY <1>6 DEF Told, Registered, AnswersOK, RestOK
<1>8. Expected' BY DEF Expected, Registered, Pending
<1>q. QED BY <1>1, <1>5, <1>7, <1>8

\* Only answers nobody contradicted are applied, and only unowned requests retired.
LEMMA ApplyRefreshGate == \A j \in Jobs : GateInv /\ ApplyRefresh(j) => GateInv'
<1> SUFFICES ASSUME NEW j \in Jobs, GateInv, ApplyRefresh(j) PROVE GateInv' OBVIOUS
<1> USE DEF ApplyRefresh, GateInv, manager, starts
<1>1. RowsOK' /\ SlotsHeld' BY DEF RowsOK, SlotsHeld
<1>2. SlotPlaces' BY DEF SlotPlaces, RestOK
<1>3. AnswersOK' BY DEF AnswersOK, Answers
<1>4. \A k \in Jobs : AppliedTo(k) BY AppliedAnswers
<1> USE DEF AppliedTo
<1>5. RequestsOK'
  <2>1. request' = [k \in Jobs |-> request'[k]] BY DEF ApplyAnswers
  <2>q. QED BY <1>4, <2>1 DEF RequestsOK
<1>6. \A k \in Jobs : request'[k] # NoRequest => request'[k].prio \in Priorities BY <1>4 DEF Requests, Made
<1>7. \A k \in Jobs : request'[k].prio \in Priorities \cup {0} BY <1>6 DEF NoRequest
<1>8. RestOK' BY <1>7 DEF RestOK, RunnerStates
<1>9. Owned'
  <2>1. \A k \in Jobs : pc[k] \notin {"idle", "exiting"} => pc'[k] \notin {"idle", "exiting"} /\ request[k].claimed
        BY DEF Owned, RestOK
  <2>2. \A k \in Jobs : pc'[k] = pc[k] \/ (k = j /\ pc[k] = "refresh" /\ pc'[k] = "test") BY DEF RestOK
  <2>3. \A k \in Jobs : Waiting(k)' => Waiting(k) BY <2>2 DEF Waiting
  <2>4. \A k \in Jobs : Waiting(k) => line'[k] # 0
    <3>1. \A k \in Jobs : Waiting(k) => line[k] # 0 /\ request[k].claimed BY DEF Waiting, Owned
    <3>q. QED BY <1>4, <1>6, <3>1, PrioritiesAssumption
  <2>5. \A k \in Jobs : line'[k] # 0 => Registered(k)' BY <1>7 DEF NoRequest, Registered
  <2>q. QED BY <1>4, <2>1, <2>2, <2>3, <2>4, <2>5 DEF Owned
<1>10. Told' BY <1>4 DEF Told, Registered
<1>11. Expected' BY <1>4 DEF Expected, RestOK, Registered, Pending
<1>q. QED BY <1>1, <1>2, <1>3, <1>5, <1>8, <1>9, <1>10, <1>11

\* The head takes a slot and leaves the line.
LEMMA AdmitGate == \A j \in Jobs : GateInv /\ Admit(j) => GateInv'
<1> SUFFICES ASSUME NEW j \in Jobs, GateInv, Admit(j) PROVE GateInv' OBVIOUS
<1> USE PrioritiesAssumption DEF Admit, GateInv, manager, starts, asking
<1>1. SlotsHeld' /\ active' \in 0..StartupSlots /\ slot' = [slot EXCEPT ![j] = TRUE] BY AdmitCounts
<1>2. RowsOK' /\ RequestsOK' /\ AnswersOK' /\ Told' BY DEF RowsOK, RequestsOK, AnswersOK, Told, Registered
<1>3. RestOK' BY SlotsAssumption, <1>1 DEF RestOK, RunnerStates
<1>4. SlotPlaces' BY <1>1 DEF RestOK, SlotPlaces
<1>5. Owned' BY <1>1 DEF RequestsOK, Requests, RestOK, Owned, Registered, Waiting
<1>6. Expected' BY DEF RowsOK, Rows, RequestsOK, Requests, RestOK, Expected, Registered, Pending
<1>q. QED BY <1>1, <1>2, <1>3, <1>4, <1>5, <1>6

\* Anyone else goes on waiting.
LEMMA StayInLineGate == \A j \in Jobs : GateInv /\ StayInLine(j) => GateInv'
<1> SUFFICES ASSUME NEW j \in Jobs, GateInv, StayInLine(j) PROVE GateInv' OBVIOUS
<1> USE PrioritiesAssumption DEF StayInLine, GateInv, manager, starts, asking
<1>1. RowsOK' /\ RequestsOK' /\ AnswersOK' /\ SlotsHeld' /\ Told'
      BY DEF RowsOK, RequestsOK, AnswersOK, SlotsHeld, Told, Registered
<1>2. RestOK' BY SlotsAssumption DEF RestOK, RunnerStates
<1>3. SlotPlaces' BY DEF RestOK, SlotPlaces
<1>4. Owned' BY DEF RequestsOK, Requests, RestOK, Owned, Registered, Waiting
<1>5. Expected' BY DEF RowsOK, Rows, RequestsOK, Requests, RestOK, Expected, Registered, Pending
<1>q. QED BY <1>1, <1>2, <1>3, <1>4, <1>5

\* The slot goes back before the run.
LEMMA GiveBackGate == \A j \in Jobs : GateInv /\ GiveBack(j) => GateInv'
<1> SUFFICES ASSUME NEW j \in Jobs, GateInv, GiveBack(j) PROVE GateInv' OBVIOUS
<1> USE PrioritiesAssumption DEF GiveBack, GateInv, manager, starts, asking
<1>1. SlotsHeld' /\ active' \in 0..StartupSlots /\ slot' = [slot EXCEPT ![j] = FALSE] BY ReleaseCounts
<1>2. RowsOK' /\ RequestsOK' /\ AnswersOK' /\ Told' BY DEF RowsOK, RequestsOK, AnswersOK, Told, Registered
<1>3. RestOK' BY SlotsAssumption, <1>1 DEF RestOK, RunnerStates
<1>4. SlotPlaces' BY <1>1 DEF RestOK, SlotPlaces
<1>5. Owned' BY <1>1 DEF RequestsOK, Requests, RestOK, Owned, Registered, Waiting
<1>6. Expected' BY DEF RowsOK, Rows, RequestsOK, Requests, RestOK, Expected, Registered, Pending
<1>q. QED BY <1>1, <1>2, <1>3, <1>4, <1>5, <1>6

\* The run begins with the slot.
LEMMA RunGate == \A j \in Jobs : GateInv /\ Run(j) => GateInv'
<1> SUFFICES ASSUME NEW j \in Jobs, GateInv, Run(j) PROVE GateInv' OBVIOUS
<1> USE PrioritiesAssumption DEF Run, GateInv, manager, starts, asking
<1>1. RequestsOK' /\ AnswersOK' /\ SlotsHeld' BY DEF RequestsOK, AnswersOK, SlotsHeld
<1>2. RowsOK' BY DEF RowsOK, Rows
<1>3. RestOK' BY SlotsAssumption DEF RestOK, RunnerStates
<1>4. SlotPlaces' BY DEF RestOK, SlotPlaces
<1>5. Owned' BY DEF RequestsOK, Requests, RestOK, Owned, Registered, Waiting
<1>6. Told' BY DEF RowsOK, Rows, RequestsOK, Requests, RestOK, Told, Registered
<1>7. Expected' BY DEF RowsOK, Rows, RequestsOK, Requests, RestOK, Expected, Registered, Pending
<1>q. QED BY <1>1, <1>2, <1>3, <1>4, <1>5, <1>6, <1>7

\* The slot goes back when the files are submitted.
LEMMA SubmitGate == \A j \in Jobs : GateInv /\ Submit(j) => GateInv'
<1> SUFFICES ASSUME NEW j \in Jobs, GateInv, Submit(j) PROVE GateInv' OBVIOUS
<1> USE PrioritiesAssumption DEF Submit, GateInv, manager, starts, asking
<1>1. SlotsHeld' /\ active' \in 0..StartupSlots /\ slot' = [slot EXCEPT ![j] = FALSE] BY ReleaseCounts
<1>2. RowsOK' /\ RequestsOK' /\ AnswersOK' /\ Owned' /\ Told'
      BY DEF RowsOK, RequestsOK, AnswersOK, Owned, Told, Waiting, Registered
<1>3. RestOK' BY SlotsAssumption, <1>1 DEF RestOK, RunnerStates
<1>4. SlotPlaces' BY <1>1 DEF RestOK, SlotPlaces
<1>5. Expected' BY DEF RowsOK, Rows, RequestsOK, Requests, RestOK, Expected, Registered, Pending
<1>q. QED BY <1>1, <1>2, <1>3, <1>4, <1>5

\* What is still held goes back.
LEMMA EndRunGate == \A j \in Jobs : GateInv /\ EndRun(j) => GateInv'
<1> SUFFICES ASSUME NEW j \in Jobs, GateInv, EndRun(j) PROVE GateInv' OBVIOUS
<1> USE PrioritiesAssumption DEF EndRun, GateInv, manager, starts, asking
<1>1. SlotsHeld' /\ active' \in 0..StartupSlots /\ slot' = [slot EXCEPT ![j] = FALSE] BY ReleaseCounts
<1>2. RequestsOK' /\ AnswersOK' BY DEF RequestsOK, AnswersOK
<1>3. RowsOK' BY <1>1 DEF RowsOK, Rows
<1>4. RestOK' BY SlotsAssumption, <1>1 DEF RestOK, RunnerStates
<1>5. SlotPlaces' BY <1>1 DEF RestOK, SlotPlaces
<1>6. Owned' BY <1>1 DEF RequestsOK, Requests, RestOK, Owned, Registered, Waiting
<1>7. Told' BY <1>1 DEF RowsOK, Rows, RequestsOK, Requests, RestOK, Told, Registered
<1>8. Expected' BY DEF RowsOK, Rows, RequestsOK, Requests, RestOK, Expected, Registered, Pending
<1>q. QED BY <1>1, <1>2, <1>3, <1>4, <1>5, <1>6, <1>7, <1>8

\* A parked run gives its slot back too.
LEMMA ParkGate == \A j \in Jobs : GateInv /\ Park(j) => GateInv'
<1> SUFFICES ASSUME NEW j \in Jobs, GateInv, Park(j) PROVE GateInv' OBVIOUS
<1> USE PrioritiesAssumption DEF Park, GateInv, manager, starts, asking
<1>1. SlotsHeld' /\ active' \in 0..StartupSlots /\ slot' = [slot EXCEPT ![j] = FALSE] BY ReleaseCounts
<1>2. RequestsOK' /\ AnswersOK' BY DEF RequestsOK, AnswersOK
<1>3. RowsOK' BY <1>1 DEF RowsOK, Rows
<1>4. RestOK' BY SlotsAssumption, <1>1 DEF RestOK, RunnerStates
<1>5. SlotPlaces' BY <1>1 DEF RestOK, SlotPlaces
<1>6. Owned' BY <1>1 DEF RequestsOK, Requests, RestOK, Owned, Registered, Waiting
<1>7. Told' BY <1>1 DEF RowsOK, Rows, RequestsOK, Requests, RestOK, Told, Registered
<1>8. Expected' BY DEF RowsOK, Rows, RequestsOK, Requests, RestOK, Expected, Registered, Pending
<1>q. QED BY <1>1, <1>2, <1>3, <1>4, <1>5, <1>6, <1>7, <1>8

\* A cancelled wait leaves the line.
LEMMA LeaveGate == \A j \in Jobs : GateInv /\ Leave(j) => GateInv'
<1> SUFFICES ASSUME NEW j \in Jobs, GateInv, Leave(j) PROVE GateInv' OBVIOUS
<1> USE PrioritiesAssumption DEF Leave, GateInv, manager, starts, asking
<1>1. RequestsOK' /\ AnswersOK' /\ SlotsHeld' BY DEF RequestsOK, AnswersOK, SlotsHeld
<1>2. RowsOK' BY DEF RowsOK, Rows
<1>3. RestOK' BY SlotsAssumption DEF RestOK, RunnerStates
<1>4. SlotPlaces' BY DEF RestOK, SlotPlaces
<1>5. Owned' BY DEF RequestsOK, Requests, RestOK, Owned, Registered, Waiting
<1>6. Told' BY DEF RowsOK, Rows, RequestsOK, Requests, RestOK, Told, Registered
<1>7. Expected' BY DEF RowsOK, Rows, RequestsOK, Requests, RestOK, Expected, Registered, Pending
<1>q. QED BY <1>1, <1>2, <1>3, <1>4, <1>5, <1>6, <1>7

\* The runner's request is gone with it.
LEMMA FinishGate == \A j \in Jobs : GateInv /\ Finish(j) => GateInv'
<1> SUFFICES ASSUME NEW j \in Jobs, GateInv, Finish(j) PROVE GateInv' OBVIOUS
<1> USE PrioritiesAssumption DEF Finish, Unregister, GateInv, manager, starts, asking
<1>1. RowsOK' /\ SlotsHeld' BY DEF RowsOK, SlotsHeld
<1>2. RequestsOK' BY DEF RequestsOK, Requests
<1>3. AnswersOK' BY DEF AnswersOK, Answers
<1>4. RestOK' BY SlotsAssumption DEF RestOK, RunnerStates
<1>5. SlotPlaces' BY DEF RestOK, SlotPlaces
<1>6. Owned' BY DEF RequestsOK, Requests, RestOK, Owned, Registered, Waiting
<1>7. Told' BY DEF RowsOK, Rows, RequestsOK, Requests, RestOK, Told, Registered
<1>8. Expected' BY DEF RowsOK, Rows, RequestsOK, Requests, RestOK, Expected, Registered, Pending
<1>q. QED BY <1>1, <1>2, <1>3, <1>4, <1>5, <1>6, <1>7, <1>8

\* The job may be started again.
LEMMA ExitGate == \A j \in Jobs : GateInv /\ Exit(j) => GateInv'
<1> SUFFICES ASSUME NEW j \in Jobs, GateInv, Exit(j) PROVE GateInv' OBVIOUS
<1> USE PrioritiesAssumption DEF Exit, GateInv, manager, starts, asking
<1>1. RowsOK' /\ RequestsOK' /\ AnswersOK' /\ SlotsHeld' BY DEF RowsOK, RequestsOK, AnswersOK, SlotsHeld
<1>2. RestOK' BY SlotsAssumption DEF RestOK, RunnerStates, StartCalls
<1>3. SlotPlaces' BY DEF RestOK, SlotPlaces
<1>4. Owned' BY DEF RequestsOK, Requests, RestOK, Owned, Registered, Waiting
<1>5. Told' BY DEF RowsOK, Rows, RequestsOK, Requests, RestOK, Told, Registered
<1>6. Expected' BY DEF RowsOK, Rows, RequestsOK, Requests, RestOK, Expected, Registered, Pending, Live
<1>q. QED BY <1>1, <1>2, <1>3, <1>4, <1>5, <1>6

\* The call reaches the gate, and no earlier answer outlives it.
LEMMA ReprioritizeGate == \A j \in Jobs : GateInv /\ Reprioritize(j) => GateInv'
<1> SUFFICES ASSUME NEW j \in Jobs, GateInv, Reprioritize(j) PROVE GateInv' OBVIOUS
<1> USE DEF Reprioritize, GateInv, starts, asking
<1>1. RowsOK' /\ AnswersOK' /\ SlotPlaces' /\ SlotsHeld' BY DEF RowsOK, AnswersOK, SlotPlaces, SlotsHeld
<1>2. call[j] = row[j].prio /\ call[j] \in Priorities BY DEF Told, RestOK
<1>3. CASE ~Registered(j)
  <2>1. RequestsOK' /\ RestOK' BY <1>3 DEF RequestsOK, RestOK
  <2>2. Owned' BY <1>3 DEF Owned, Waiting, Registered
  <2>3. Told' BY <1>3 DEF Told, Registered, RestOK
  <2>4. Expected' BY <1>3 DEF Expected, Registered, Pending
  <2>q. QED BY <1>1, <2>1, <2>2, <2>3, <2>4
<1>4. CASE Registered(j)
  <2> DEFINE r == [request[j] EXCEPT !.prio = call[j]]
  <2>1. request[j] \in Made BY <1>4, RequestFields
  <2>2. r \in Made /\ r.prio = call[j] /\ r.claimed = request[j].claimed /\ r.waiting = request[j].waiting
        /\ r.ready = request[j].ready
        BY <1>2, <2>1 DEF Made
  <2>3. request' = [request EXCEPT ![j] = r] BY <1>4 DEF RequestsOK
  <2> HIDE DEF r
  <2>4. /\ RequestsOK' /\ request'[j] = r /\ Registered(j)'
        /\ \A k \in Jobs : k # j => request'[k] = request[k] /\ (Registered(k)' <=> Registered(k))
        BY <2>2, <2>3, ChangedRequest
  <2>5. RestOK' BY <1>2, <1>4 DEF RestOK
  <2>6. Owned' BY <1>2, <1>4, <2>2, <2>4, PrioritiesAssumption DEF Owned, RestOK, Waiting
  <2>7. Told' BY <1>2, <1>4, <2>2, <2>4 DEF Told, RestOK
  <2>8. Expected' BY <1>4, <2>4 DEF Expected, Pending
  <2>q. QED BY <1>1, <2>4, <2>5, <2>6, <2>7, <2>8
<1>q. QED BY <1>3, <1>4

\* A pause moves nobody.
LEMMA SetHoldGate == \A j \in Jobs : GateInv /\ SetHold(j) => GateInv'
<1> SUFFICES ASSUME NEW j \in Jobs, GateInv, SetHold(j) PROVE GateInv' OBVIOUS
<1> USE PrioritiesAssumption DEF SetHold, GateInv, manager, starts, asking
<1>1. RequestsOK' /\ AnswersOK' /\ SlotPlaces' /\ SlotsHeld' /\ Owned'
      BY DEF RequestsOK, AnswersOK, SlotPlaces, SlotsHeld, Owned, Waiting, Registered
<1>2. RowsOK' BY DEF RowsOK, Rows
<1>3. RestOK' BY SlotsAssumption DEF RestOK, RunnerStates, StartCalls
<1>4. Told' BY DEF RowsOK, Rows, RequestsOK, Requests, RestOK, Told, Registered
<1>5. Expected' BY DEF RowsOK, Rows, RequestsOK, Requests, RestOK, Expected, Registered, Pending
<1>q. QED BY <1>1, <1>2, <1>3, <1>4, <1>5

\* Nor does a cancel.
LEMMA CancelGate == \A j \in Jobs : GateInv /\ Cancel(j) => GateInv'
<1> SUFFICES ASSUME NEW j \in Jobs, GateInv, Cancel(j) PROVE GateInv' OBVIOUS
<1> USE PrioritiesAssumption DEF Cancel, GateInv, manager, starts, asking
<1>1. RequestsOK' /\ AnswersOK' /\ SlotPlaces' /\ SlotsHeld' /\ Owned'
      BY DEF RequestsOK, AnswersOK, SlotPlaces, SlotsHeld, Owned, Waiting, Registered
<1>2. RowsOK'
  <2>1. [row[j] EXCEPT !.cancel = TRUE, !.status = "CANCELLED", !.held = FALSE] \in Rows BY DEF RowsOK, Rows
  <2>q. QED BY <2>1 DEF RowsOK
<1>3. RestOK' BY SlotsAssumption DEF RestOK, RunnerStates
<1>4. Told' BY DEF RowsOK, Rows, RequestsOK, Requests, RestOK, Told, Registered
<1>5. Expected' BY DEF RowsOK, Rows, RequestsOK, Requests, RestOK, Expected, Registered, Pending
<1>q. QED BY <1>1, <1>2, <1>3, <1>4, <1>5

\* Nor a deadline.
LEMMA DeadlinePassesGate == \A j \in Jobs : GateInv /\ DeadlinePasses(j) => GateInv'
<1> SUFFICES ASSUME NEW j \in Jobs, GateInv, DeadlinePasses(j) PROVE GateInv' OBVIOUS
<1> USE PrioritiesAssumption DEF DeadlinePasses, GateInv, manager, starts, asking
<1>1. RequestsOK' /\ AnswersOK' /\ RestOK' /\ SlotPlaces' /\ SlotsHeld' /\ Owned'
      BY DEF RequestsOK, AnswersOK, RestOK, SlotPlaces, SlotsHeld, Owned, Waiting, Registered
<1>2. RowsOK' BY DEF RowsOK, Rows
<1>3. Told' BY DEF RowsOK, Rows, RequestsOK, Requests, RestOK, Told, Registered
<1>4. Expected' BY DEF RowsOK, Rows, RequestsOK, Requests, RestOK, Expected, Registered, Pending
<1>q. QED BY <1>1, <1>2, <1>3, <1>4

\* A batch whose timer is over has its start on its way, unless everything is held.
LEMMA TimerFiresGate == \A j \in Jobs : GateInv /\ TimerFires(j) => GateInv'
<1> SUFFICES ASSUME NEW j \in Jobs, GateInv, TimerFires(j) PROVE GateInv' OBVIOUS
<1> USE PrioritiesAssumption DEF TimerFires, GateInv, manager, starts, asking
<1>1. RequestsOK' /\ AnswersOK' /\ SlotsHeld' BY DEF RequestsOK, AnswersOK, SlotsHeld
<1>2. RowsOK' BY DEF RowsOK, Rows
<1>3. RestOK' BY SlotsAssumption DEF RestOK, RunnerStates, StartCalls
<1>4. SlotPlaces' BY DEF RestOK, SlotPlaces
<1>5. Owned' BY DEF RequestsOK, Requests, RestOK, Owned, Registered, Waiting
<1>6. Told' BY DEF RowsOK, Rows, RequestsOK, Requests, RestOK, Told, Registered
<1>7. Expected' BY DEF RowsOK, Rows, RequestsOK, Requests, RestOK, Expected, Registered, Pending, Live
<1>q. QED BY <1>1, <1>2, <1>3, <1>4, <1>5, <1>6, <1>7

\* The manager knows first; the call is on its way.
LEMMA SetPriorityGate == \A j \in Jobs, p \in Priorities : GateInv /\ SetPriority(j, p) => GateInv'
<1> SUFFICES ASSUME NEW j \in Jobs, NEW p \in Priorities, GateInv, SetPriority(j, p) PROVE GateInv' OBVIOUS
<1> USE PrioritiesAssumption DEF SetPriority, GateInv, manager, starts, asking
<1>1. RequestsOK' /\ AnswersOK' /\ SlotPlaces' /\ SlotsHeld' /\ Owned'
      BY DEF RequestsOK, AnswersOK, SlotPlaces, SlotsHeld, Owned, Waiting, Registered
<1>2. RowsOK' BY DEF RowsOK, Rows
<1>3. RestOK' BY SlotsAssumption DEF RestOK, RunnerStates
<1>4. Told' BY DEF RowsOK, Rows, RequestsOK, Requests, RestOK, Told, Registered
<1>5. Expected' BY DEF RowsOK, Rows, RequestsOK, Requests, RestOK, Expected, Registered, Pending
<1>q. QED BY <1>1, <1>2, <1>3, <1>4, <1>5

\* Nor capacity.
LEMMA SetCapacityGate == GateInv /\ SetCapacity => GateInv'
<1> SUFFICES ASSUME GateInv, SetCapacity PROVE GateInv' OBVIOUS
<1> USE PrioritiesAssumption DEF SetCapacity, GateInv, manager, starts, asking
<1>1. RowsOK' /\ RequestsOK' /\ AnswersOK' /\ SlotPlaces' /\ SlotsHeld' /\ Owned' /\ Told'
      BY DEF RowsOK, RequestsOK, AnswersOK, SlotPlaces, SlotsHeld, Owned, Told, Waiting, Registered
<1>2. RestOK' BY SlotsAssumption DEF RestOK, RunnerStates
<1>3. Expected' BY DEF RowsOK, Rows, RequestsOK, Requests, RestOK, Expected, Registered, Pending
<1>q. QED BY <1>1, <1>2, <1>3

\* While everything is held no start is expected.
LEMMA PauseAllGate == GateInv /\ PauseAll => GateInv'
<1> SUFFICES ASSUME GateInv, PauseAll PROVE GateInv' OBVIOUS
<1> USE PrioritiesAssumption DEF PauseAll, GateInv, manager, starts, asking
<1>1. RowsOK' /\ RequestsOK' /\ AnswersOK' /\ SlotPlaces' /\ SlotsHeld' /\ Owned' /\ Told'
      BY DEF RowsOK, RequestsOK, AnswersOK, SlotPlaces, SlotsHeld, Owned, Told, Waiting, Registered
<1>2. RestOK' BY SlotsAssumption DEF RestOK, StartCalls
<1>3. Expected' BY DEF RestOK, Expected, Registered, Pending
<1>q. QED BY <1>1, <1>2, <1>3

\* Resume starts every pending job.
LEMMA ResumeAllGate == GateInv /\ ResumeAll => GateInv'
<1> SUFFICES ASSUME GateInv, ResumeAll PROVE GateInv' OBVIOUS
<1> USE PrioritiesAssumption DEF ResumeAll, GateInv, manager, starts, asking
<1>1. RowsOK' /\ RequestsOK' /\ AnswersOK' /\ SlotPlaces' /\ SlotsHeld' /\ Owned' /\ Told'
      BY DEF RowsOK, RequestsOK, AnswersOK, SlotPlaces, SlotsHeld, Owned, Told, Waiting, Registered
<1>2. RestOK'
  <2>1. start' \in [Jobs -> StartCalls] /\ paused' \in BOOLEAN
    <3>1. start' \in [Jobs -> StartCalls] BY DEF RestOK, StartCalls
    <3>2. paused' = FALSE OBVIOUS
    <3>q. QED BY <3>1, <3>2
  <2>2. operations' \in 0..MaxOperations
    <3>1. operations' = operations + 1 /\ operations < MaxOperations /\ operations \in 0..MaxOperations BY DEF RestOK
    <3> HIDE DEF ResumeAll, GateInv
    <3>q. QED BY <3>1, SlotsAssumption
  <2>3. UNCHANGED <<open, call, orphaned, line, active, kindOpen, moved, due, asking, touched, pc, slot>> OBVIOUS
  <2> HIDE DEF ResumeAll
  <2>q. QED BY <2>1, <2>2, <2>3 DEF RestOK
<1>3. Expected' BY DEF RestOK, Expected, Registered, Pending
<1>q. QED BY <1>1, <1>2, <1>3

\* Nor the clock.
LEMMA RefreshFallsDueGate == GateInv /\ RefreshFallsDue => GateInv'
<1> SUFFICES ASSUME GateInv, RefreshFallsDue PROVE GateInv' OBVIOUS
<1> USE PrioritiesAssumption DEF RefreshFallsDue, GateInv, manager, starts, asking
<1>1. RowsOK' /\ RequestsOK' /\ AnswersOK' /\ SlotPlaces' /\ SlotsHeld' /\ Owned' /\ Told'
      BY DEF RowsOK, RequestsOK, AnswersOK, SlotPlaces, SlotsHeld, Owned, Told, Waiting, Registered
<1>2. RestOK' BY SlotsAssumption DEF RestOK, RunnerStates
<1>3. Expected' BY DEF RowsOK, Rows, RequestsOK, Requests, RestOK, Expected, Registered, Pending
<1>q. QED BY <1>1, <1>2, <1>3

\* Nothing is registered, held or asked yet.
LEMMA InitGate == Init => GateInv
<1> SUFFICES ASSUME Init PROVE GateInv OBVIOUS
<1> USE SlotsAssumption DEF Init
<1>1. RowsOK /\ RequestsOK /\ AnswersOK BY DEF RowsOK, Rows, RequestsOK, Requests, AnswersOK, Answers
<1>2. RestOK
  <2>1. /\ call \in [Jobs -> Priorities \cup {0}] /\ line \in [Jobs -> Priorities \cup {0}]
        /\ pc \in [Jobs -> RunnerStates] /\ slot \in [Jobs -> BOOLEAN] /\ start \in [Jobs -> StartCalls]
        BY DEF RunnerStates, StartCalls
  <2>2. active \in 0..StartupSlots /\ operations \in 0..MaxOperations /\ refresher \in Jobs \cup {0} OBVIOUS
  <2>q. QED BY <2>1, <2>2 DEF RestOK
<1>3. {j \in Jobs : slot[j]} = {} OBVIOUS
<1>4. SlotPlaces /\ SlotsHeld BY <1>3, FS_EmptySet DEF SlotPlaces, SlotsHeld
<1>5. Owned /\ Expected /\ Told BY DEF Owned, Expected, Told, Registered, Waiting
<1>q. QED BY <1>1, <1>2, <1>4, <1>5 DEF GateInv

\* Every step keeps the invariant.
LEMMA StepGate == GateInv /\ [Next]_vars => GateInv'
<1> SUFFICES ASSUME GateInv, [Next]_vars PROVE GateInv' OBVIOUS
<1>1. ASSUME NEW j \in Jobs, Runner(j) PROVE GateInv'
  <2>1. CASE Prepare(j) \/ StartFails(j) \/ Start(j)
        BY <2>1, PrepareGate, StartFailsGate, ClaimGate, DeclineStartGate, SkipDuplicateGate DEF Start
  <2>2. CASE Wait(j)
        BY <2>2, BeginPreflightGate, SkipPreflightGate, EndPreflightGate, EnterGateGate, LeaveGate DEF Wait
  <2>3. CASE Refresh(j) \/ AskPolicy(j) \/ ApplyRefresh(j)
        BY <2>3, BeginRefreshGate, SkipRefreshGate, AskPolicyGate, ApplyRefreshGate DEF Refresh
  <2>4. CASE Test(j) \/ Recheck(j) BY <2>4, AdmitGate, StayInLineGate, GiveBackGate, RunGate DEF Test, Recheck
  <2>5. CASE PauseExit(j) \/ Submit(j) \/ EndRun(j) \/ Park(j) \/ Finish(j) \/ Exit(j)
        BY <2>5, PauseExitGate, SubmitGate, EndRunGate, ParkGate, FinishGate, ExitGate
  <2>q. QED BY <1>1, <2>1, <2>2, <2>3, <2>4, <2>5 DEF Runner
<1>2. ASSUME NEW j \in Jobs, Operator(j) PROVE GateInv'
      BY <1>2, SetPriorityGate, ReprioritizeGate, SetHoldGate, CancelGate DEF Operator
<1>3. CASE UNCHANGED vars
  <2>1. RowsOK' /\ RequestsOK' /\ AnswersOK' /\ RestOK'
        BY <1>3 DEF GateInv, vars, manager, starts, asking, RowsOK, RequestsOK, AnswersOK, RestOK
  <2>2. SlotPlaces' /\ SlotsHeld' /\ Owned' /\ Expected' /\ Told'
        BY <1>3 DEF GateInv, vars, SlotPlaces, SlotsHeld, Owned, Expected, Told, Registered, Waiting, Pending
  <2>q. QED BY <2>1, <2>2 DEF GateInv
<1>q. QED BY <1>1, <1>2, <1>3, DeadlinePassesGate, TimerFiresGate, PauseAllGate, ResumeAllGate, SetCapacityGate,
             RefreshFallsDueGate
          DEF Next, Clock

\* The invariant holds in every reachable state.
THEOREM InvariantHolds == Spec => []GateInv
<1>q. QED BY InitGate, StepGate, PTL DEF Spec

\* Every variable keeps its type; among them the count of slots its bound, STARTUP_SLOTS.
THEOREM TypeCorrect == Spec => []TypeOK
<1>1. GateInv => TypeOK BY TypeParts DEF GateInv
<1>q. QED BY <1>1, InvariantHolds, PTL

\* release_slot and acquire: the gate counts exactly the slots its runners hold.
THEOREM SlotsHold == Spec => []SlotsHeld
<1>1. GateInv => SlotsHeld BY DEF GateInv
<1>q. QED BY <1>1, InvariantHolds, PTL

\* defer_preflight, finish_request and the starts of the drain: the head of the line does not wait out a retry delay,
\* and without a runner it has a start or a timer on its way, unless its start was skipped for an ending thread.
THEOREM HeadHolds == Spec => []HeadIsReachable
<1>1. GateInv => HeadIsReachable
  <2> SUFFICES ASSUME GateInv, NEW j \in Jobs, IsNext(j)
               PROVE  /\ pc[j] # "preflight"
                      /\ pc[j] \in {"idle", "exiting"} /\ Pending(j) /\ ~row[j].held /\ ~paused
                           => start[j] # "no" \/ row[j].batched \/ j \in orphaned
      BY DEF HeadIsReachable
  <2>1. line[j] # 0 /\ (Registered(j) => request[j].ready) BY DEF IsNext, Eligible
  <2>2. pc[j] # "preflight" BY <2>1, RequestFields DEF GateInv, Owned
  <2>3. Registered(j) BY <2>1 DEF GateInv, Owned
  <2>q. QED BY <2>2, <2>3 DEF GateInv, Expected
<1>q. QED BY <1>1, InvariantHolds, PTL

\* _refresh_requests_once: a waiting runner keeps its request and its place.
THEOREM WaiterHolds == Spec => []WaiterKeepsPlace
<1>1. GateInv => WaiterKeepsPlace
  <2> SUFFICES ASSUME GateInv, NEW j \in Jobs, Waiting(j) PROVE Registered(j) /\ line[j] # 0 BY DEF WaiterKeepsPlace
  <2>1. request[j].claimed /\ line[j] # 0 BY DEF GateInv, Owned, Waiting
  <2>q. QED BY <2>1, RequestFields DEF GateInv
<1>q. QED BY <1>1, InvariantHolds, PTL

-----------------------------------------------------------------------------
\* A place in line is given at the manager's priority, taken away or kept, unless a priority call is on its way.
LEMMA StepKeepsPlaces ==
  GateInv /\ [Next]_vars => \A k \in Jobs : line'[k] \in {line[k], 0, row[k].prio} \/ call[k] # 0
<1> SUFFICES ASSUME GateInv, [Next]_vars, NEW k \in Jobs PROVE line'[k] \in {line[k], 0, row[k].prio} \/ call[k] # 0
    OBVIOUS
<1>1. line \in [Jobs -> Priorities \cup {0}] BY DEF GateInv, RestOK
<1>2. ASSUME NEW j \in Jobs,
             Prepare(j) \/ StartFails(j) \/ Claim(j) \/ EnterGate(j) \/ Admit(j) \/ Leave(j) \/ Finish(j)
      PROVE  line'[k] \in {line[k], 0, row[k].prio}
      BY <1>1, <1>2 DEF Prepare, Registration, StartFails, Unregister, Claim, EnterGate, Admit, Leave, Finish
<1>3. ASSUME NEW j \in Jobs, Reprioritize(j)
      PROVE  line'[k] = line[k] \/ call[k] # 0
      BY <1>1, <1>3 DEF Reprioritize
<1>4. ASSUME NEW j \in Jobs, ApplyRefresh(j)
      PROVE  line'[k] \in {0, row[k].prio} \/ call[k] # 0
  <2>1. AppliedTo(k) BY <1>4, AppliedAnswers
  <2>2. line'[k] = 0 \/ line'[k] = request'[k].prio BY <1>4 DEF ApplyRefresh
  <2>q. QED BY <2>1, <2>2 DEF AppliedTo, NoRequest
<1>5. ASSUME NEW j \in Jobs,
             \/ BeginPreflight(j) \/ SkipPreflight(j) \/ EndPreflight(j) \/ BeginRefresh(j) \/ SkipRefresh(j)
             \/ AskPolicy(j) \/ StayInLine(j) \/ GiveBack(j) \/ Run(j) \/ Submit(j) \/ EndRun(j) \/ Park(j)
             \/ DeclineStart(j) \/ SkipDuplicate(j) \/ PauseExit(j) \/ Exit(j) \/ TimerFires(j)
             \/ (\E p \in Priorities : SetPriority(j, p)) \/ SetHold(j) \/ Cancel(j) \/ DeadlinePasses(j)
      PROVE  UNCHANGED line
      BY <1>5 DEF BeginPreflight, SkipPreflight, EndPreflight, BeginRefresh, SkipRefresh, AskPolicy, StayInLine,
                  GiveBack, Run, Submit, EndRun, Park, DeclineStart, SkipDuplicate, PauseExit, Exit, TimerFires,
                  SetPriority, SetHold, Cancel, DeadlinePasses
<1>6. CASE PauseAll \/ ResumeAll \/ SetCapacity \/ RefreshFallsDue \/ UNCHANGED vars
      BY <1>6 DEF PauseAll, ResumeAll, SetCapacity, RefreshFallsDue, vars
<1>q. QED BY <1>2, <1>3, <1>4, <1>5, <1>6 DEF Next, Runner, Operator, Clock, Start, Wait, Refresh, Test, Recheck

\* reprioritize against _refresh_requests_once: an answer asked for before the operator's last call moves no job.
THEOREM AnswersHold == Spec => AnswerNeverMisplaces
<1>1. GateInv /\ [Next]_vars
        => [\A j \in Jobs : line[j] = row[j].prio /\ call[j] = 0 /\ line'[j] # 0 /\ row'[j].prio = row[j].prio
              => line'[j] = row[j].prio]_<<row, line>>
      BY StepKeepsPlaces
<1>q. QED BY <1>1, InvariantHolds, PTL DEF Spec, AnswerNeverMisplaces
=============================================================================
