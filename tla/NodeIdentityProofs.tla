-------------------------- MODULE NodeIdentityProofs --------------------------
(***************************************************************************)
(* Proofs about NodeIdentity, for every set of machines, addresses and     *)
(* checks, whatever may fail and however many operations there are.        *)
(*                                                                         *)
(* The argument: an id gets into the settings by the user's hand, beside   *)
(* the server's Plex, or with the mark untied_uid; the mark goes away only *)
(* when the id is compared (or is lapsed then); and the id a request names *)
(* is the one last heard, whose answer is the one that is compared.        *)
(***************************************************************************)
EXTENDS NodeIdentity, TLAPS

-----------------------------------------------------------------------------
(* The inductive invariant.                                                *)

(* An id that needs no comparison any more, or still has its mark.         *)
Known(u) == u \in trusted \cup Beside \cup lapsed \cup {""}
Marked(u) == Known(u) \/ u = untied

(* A check holds check_lock from its first request to its end.             *)
UnderWay(t) == thread[t].pc \notin {"idle", "queued"}
OneAtATime == \A t, u \in Checks : UnderWay(t) /\ UnderWay(u) => t = u

(* An answer with a new id is of a machine of its own, whose info is kept. *)
NewId(t) == thread[t].pc \in {"weigh", "settle", "record"}
NewIds ==
    \A t \in Checks :
        /\ NewId(t) => thread[t].from \in Machines \ (Twins \cup {""})
        /\ thread[t].pc \in {"weigh", "settle"} => info = thread[t].from /\ heard = Nobody

(* The id heard_uid holds is the one whose /v1/info is kept.               *)
HeardKept == heard \notin {Nobody, ""} => heard = info

(* An id on its way into the settings is known or carries the mark.        *)
OnItsWay ==
    \A t \in Checks : thread[t].pc = "record" =>
        /\ Marked(thread[t].from)
        /\ untied \in {thread[t].from, ""} /\ heard \in {Nobody, thread[t].from}

(* So is the id in the settings, unless it is about to be replaced.        *)
SavedMarked ==
    \/ Marked(saved.uid)
    \/ \E t \in Checks : thread[t].pc = "record" /\ saved.addr = thread[t].addr

(* What lets work through is the id of the record, or the record is known. *)
HeardOwn ==
    Synced /\ ~Recording /\ record.uid # "" /\ heard \notin {Nobody, ""} =>
        heard = record.uid \/ Known(record.uid)

IdentityInv ==
    /\ TypeOK /\ OneAtATime /\ NewIds /\ HeardKept
    /\ OnItsWay /\ SavedMarked /\ HeardOwn

-----------------------------------------------------------------------------
(* Types, in three parts.                                                  *)

ThreadsTyped ==
    /\ thread \in [Checks -> ThreadStates]
    /\ \A t \in Checks : /\ thread[t].pc # "idle" => thread[t].addr \in Addresses
                         /\ thread[t].pc = "heard" => thread[t].state \in Probes
Switches == served \in BOOLEAN /\ due \in BOOLEAN /\ checking \in BOOLEAN /\ readyAgain \in BOOLEAN
IdsTyped ==
    /\ at \in [Addresses -> Machines \cup {Nobody}]
    /\ saved \in NodeRecords /\ record \in NodeRecords
    /\ probe \in Probes /\ info \in Machines \cup {Nobody} /\ heard \in Machines \cup {Nobody, ""}
    /\ unconfirmed \in Machines \cup {""} /\ untied \in Machines \cup {""}
    /\ operations \in 0..MaxOperations /\ trusted \subseteq Machines \cup {""}
    /\ lapsed \subseteq Machines \cup {""} /\ since \subseteq {"address", "report"}

(* The three parts are the type invariant.                                 *)
LEMMA TypeParts == TypeOK <=> ThreadsTyped /\ Switches /\ IdsTyped
  BY Zenon DEF TypeOK, ThreadsTyped, Switches, IdsTyped

(* So they are after a step.                                              *)
LEMMA TypePartsNext == ThreadsTyped' /\ Switches' /\ IdsTyped' => TypeOK'
  BY Zenon DEF TypeOK, ThreadsTyped, Switches, IdsTyped

(* The bound on operations is kept by steps that respect it.               *)
LEMMA Counting ==
    ASSUME operations \in 0..MaxOperations, operations' = operations \/ Bounded
    PROVE  operations' \in 0..MaxOperations
<1>1. MaxOperations \in Nat BY FaultsAssumption
<1>q. QED BY <1>1 DEF Bounded

(* The initial states are typed.                                           *)
LEMMA InitTypes == Init => TypeOK
<1> SUFFICES ASSUME Init PROVE TypeOK OBVIOUS
<1> USE DEF Init
<1>0. MaxOperations \in Nat /\ Own \in Machines BY MachinesAssumption, FaultsAssumption
<1>1. ThreadsTyped BY DEF ThreadsTyped, Idle, ThreadStates, Nobody
<1>2. Switches BY DEF Switches
<1>3. PICK a \in Addresses : saved = [addr |-> a, uid |-> Own] OBVIOUS
<1>4. saved \in NodeRecords /\ record \in NodeRecords BY <1>0, <1>3 DEF NodeRecords
<1>5. at \in [Addresses -> Machines \cup {Nobody}] BY <1>0
<1>6. probe \in Probes BY DEF Probes
<1>7. operations = 0 OBVIOUS
<1>8. /\ info = Nobody /\ heard = Nobody /\ unconfirmed = "" /\ untied = ""
      /\ trusted = {Own} /\ lapsed = {} /\ since = {}
  OBVIOUS
<1> HIDE DEF Init
<1>9. operations \in 0..MaxOperations BY <1>0, <1>7
<1>10. IdsTyped BY <1>0, <1>4, <1>5, <1>6, <1>8, <1>9 DEF IdsTyped
<1>q. QED BY <1>1, <1>2, <1>10, TypeParts

(* What a probe makes of an answer, or of none.                            *)
Answers == [state : {"offline", "ready", "unwell", "refused"}, from : Machines \cup {Nobody}]

(* A check hears nothing else.                                             *)
LEMMA AnswerTypes ==
    ASSUME TypeOK, NEW t \in Checks, thread[t].addr \in Addresses
    PROVE  Failures(thread[t]) \cup {Answer(thread[t])} \subseteq Answers
<1> DEFINE m == at[thread[t].addr]
<1>1. m \in Machines \cup {Nobody} BY DEF TypeOK
<1>2. Answer(thread[t]) \in Answers BY <1>1 DEF Answer, Silent, Answers
<1>3. Failures(thread[t]) \subseteq {Silent, [state |-> "refused", from |-> Nobody], [state |-> "unwell", from |-> m],
                                     [state |-> "offline", from |-> m]}
  BY DEF Failures
<1>4. {Silent, [state |-> "refused", from |-> Nobody], [state |-> "unwell", from |-> m],
       [state |-> "offline", from |-> m]} \subseteq Answers
  BY <1>1 DEF Silent, Answers
<1>q. QED BY <1>2, <1>3, <1>4

-----------------------------------------------------------------------------
(* How a step moves a check.                                               *)

(* The other checks stay as they are, and the check gets a typed state.     *)
Moves(t, r) == /\ ThreadsTyped'
               /\ thread'[t] = r
               /\ \A u \in Checks \ {t} : thread'[u] = thread[u]

(* A check is replaced.                                                    *)
LEMMA Replaced ==
    ASSUME ThreadsTyped, NEW t \in Checks, NEW r \in ThreadStates, r.pc # "idle" => r.addr \in Addresses,
           r.pc # "heard",
           thread' = [thread EXCEPT ![t] = r]
    PROVE  Moves(t, r)
  BY DEF ThreadsTyped, Moves

(* A check ends.                                                           *)
LEMMA Ended ==
    ASSUME ThreadsTyped, NEW t \in Checks, thread' = [thread EXCEPT ![t] = Idle]
    PROVE  Moves(t, Idle)
<1>1. Idle \in ThreadStates /\ Idle.pc = "idle" BY DEF Idle, ThreadStates, Nobody
<1>q. QED BY <1>1, Replaced

(* A check starts, with the registry's record.                             *)
LEMMA Starts ==
    ASSUME TypeOK, NEW t \in Checks, StartCheck(t)
    PROVE  /\ ThreadsTyped' /\ thread[t].pc = "idle" /\ thread'[t].pc = "queued"
           /\ \A u \in Checks \ {t} : thread'[u] = thread[u]
<1> DEFINE r == [Idle EXCEPT !.pc = "queued", !.addr = record.addr, !.uid = record.uid, !.live = TRUE]
<1>1. record.addr \in Addresses /\ record.uid \in Machines \cup {""} BY DEF TypeOK, NodeRecords
<1>2. r \in ThreadStates /\ r.addr \in Addresses /\ r.pc = "queued"
  BY <1>1 DEF Idle, ThreadStates, Nobody
<1>3. ThreadsTyped BY TypeParts
<1>4. thread' = [thread EXCEPT ![t] = r] BY DEF StartCheck
<1> HIDE DEF r
<1>5. Moves(t, r) BY <1>2, <1>3, <1>4, Replaced
<1>q. QED BY <1>2, <1>5 DEF Moves, StartCheck

(* A check goes on, its record's address and id as they were.              *)
LEMMA GoesOn ==
    ASSUME ThreadsTyped, NEW t \in Checks, thread[t].pc # "idle",
           NEW p \in {"probing", "weigh", "settle", "record"}
    PROVE  /\ thread' = [thread EXCEPT ![t].pc = p] => Moves(t, [thread[t] EXCEPT !.pc = p])
           /\ thread' = [thread EXCEPT ![t].pc = p, ![t].fresh = TRUE, ![t].missed = {}] =>
                 Moves(t, [thread[t] EXCEPT !.pc = p, !.fresh = TRUE, !.missed = {}])
           /\ \A s \in {"yes", "no", "unknown"} :
                thread' = [thread EXCEPT ![t].pc = p, ![t].state = s] =>
                   Moves(t, [thread[t] EXCEPT !.pc = p, !.state = s])
           /\ \A o \in Answers :
                thread' = [thread EXCEPT ![t].pc = "heard", ![t].state = o.state, ![t].from = o.from] =>
                   Moves(t, [thread[t] EXCEPT !.pc = "heard", !.state = o.state, !.from = o.from])
<1>0. thread[t] \in ThreadStates /\ thread[t].addr \in Addresses BY DEF ThreadsTyped
<1>1. LET n == [thread[t] EXCEPT !.pc = p] IN n \in ThreadStates /\ n.addr \in Addresses /\ n.pc # "heard"
  BY <1>0 DEF ThreadStates
<1>2. LET n == [thread[t] EXCEPT !.pc = p, !.fresh = TRUE, !.missed = {}]
      IN  n \in ThreadStates /\ n.addr \in Addresses /\ n.pc # "heard"
  BY <1>0 DEF ThreadStates
<1>3. \A s \in {"yes", "no", "unknown"} : LET n == [thread[t] EXCEPT !.pc = p, !.state = s]
                                         IN  n \in ThreadStates /\ n.addr \in Addresses /\ n.pc # "heard"
  BY <1>0 DEF ThreadStates
<1>4. \A o \in Answers : LET n == [thread[t] EXCEPT !.pc = "heard", !.state = o.state, !.from = o.from]
                        IN  n \in ThreadStates /\ n.addr \in Addresses /\ n.state \in Probes
  BY <1>0 DEF ThreadStates, Answers, Probes
<1>5. thread' = [thread EXCEPT ![t].pc = p] => Moves(t, [thread[t] EXCEPT !.pc = p])
  BY <1>1 DEF ThreadsTyped, Moves
<1>6. thread' = [thread EXCEPT ![t].pc = p, ![t].fresh = TRUE, ![t].missed = {}] =>
         Moves(t, [thread[t] EXCEPT !.pc = p, !.fresh = TRUE, !.missed = {}])
  BY <1>2 DEF ThreadsTyped, Moves
<1>7. \A s \in {"yes", "no", "unknown"} :
         thread' = [thread EXCEPT ![t].pc = p, ![t].state = s] => Moves(t, [thread[t] EXCEPT !.pc = p, !.state = s])
  BY <1>3 DEF ThreadsTyped, Moves
<1>8. \A o \in Answers :
         thread' = [thread EXCEPT ![t].pc = "heard", ![t].state = o.state, ![t].from = o.from] =>
            Moves(t, [thread[t] EXCEPT !.pc = "heard", !.state = o.state, !.from = o.from])
  BY <1>4 DEF ThreadsTyped, Moves
<1>q. QED BY <1>5, <1>6, <1>7, <1>8

(* An address change or a report marks every check, and moves none.        *)
LEMMA MarksAll ==
    ASSUME ThreadsTyped,
           \/ thread' = [t \in Checks |-> [thread[t] EXCEPT !.live = FALSE, !.missed = @ \cup {"address"}]]
           \/ thread' = [t \in Checks |-> [thread[t] EXCEPT !.fresh = FALSE, !.missed = @ \cup {"report"}]]
           \/ thread' = thread
    PROVE  /\ ThreadsTyped'
           /\ \A t \in Checks : /\ thread'[t].pc = thread[t].pc /\ thread'[t].addr = thread[t].addr
                                /\ thread'[t].uid = thread[t].uid /\ thread'[t].from = thread[t].from
                                /\ thread'[t].state = thread[t].state
<1>1. CASE thread' = [t \in Checks |-> [thread[t] EXCEPT !.live = FALSE, !.missed = @ \cup {"address"}]]
  <2>1. \A t \in Checks : thread[t] \in ThreadStates BY DEF ThreadsTyped
  <2>2. \A r \in ThreadStates : LET n == [r EXCEPT !.live = FALSE, !.missed = @ \cup {"address"}]
                                IN  /\ n \in ThreadStates /\ n.pc = r.pc /\ n.addr = r.addr /\ n.uid = r.uid
                                    /\ n.from = r.from /\ n.state = r.state
    BY DEF ThreadStates
  <2>q. QED BY <1>1, <2>1, <2>2 DEF ThreadsTyped
<1>2. CASE thread' = [t \in Checks |-> [thread[t] EXCEPT !.fresh = FALSE, !.missed = @ \cup {"report"}]]
  <2>1. \A t \in Checks : thread[t] \in ThreadStates BY DEF ThreadsTyped
  <2>2. \A r \in ThreadStates : LET n == [r EXCEPT !.fresh = FALSE, !.missed = @ \cup {"report"}]
                                IN  /\ n \in ThreadStates /\ n.pc = r.pc /\ n.addr = r.addr /\ n.uid = r.uid
                                    /\ n.from = r.from /\ n.state = r.state
    BY DEF ThreadStates
  <2>q. QED BY <1>2, <2>1, <2>2 DEF ThreadsTyped
<1>3. CASE thread' = thread BY <1>3 DEF ThreadsTyped
<1>q. QED BY <1>1, <1>2, <1>3

-----------------------------------------------------------------------------
(* Steps that leave the ids alone.                                         *)

(* The parts of the state the invariant relates, beside what was heard.    *)
ids == <<saved, record, info, untied, trusted, lapsed>>

(* A step that changes no id, forgets at most what was heard, and neither  *)
(* takes a new id nor ends taking one keeps the invariant.                 *)
LEMMA QuietKeeps ==
    ASSUME IdentityInv, TypeOK', OneAtATime', UNCHANGED ids, heard' \in {heard, Nobody},
           \A t \in Checks : /\ thread'[t].pc = "record" <=> thread[t].pc = "record"
                             /\ NewId(t)' => NewId(t) /\ thread'[t].from = thread[t].from
                                                     /\ thread'[t].addr = thread[t].addr
    PROVE  IdentityInv'
<1> USE DEF IdentityInv, ids
<1>1. \A t \in Checks : thread'[t].pc = "record" <=> thread[t].pc = "record"
  OBVIOUS
<1>2. Recording' = Recording
  BY <1>1 DEF Recording
<1>3. \A u : (Known(u)' <=> Known(u)) /\ (Marked(u)' <=> Marked(u))
  BY DEF Known, Marked
<1>4. NewIds'
  BY DEF NewIds, NewId
<1>5. HeardKept'
  BY DEF HeardKept
<1>6. OnItsWay'
  BY <1>1, <1>3 DEF OnItsWay, NewId
<1>7. SavedMarked'
  BY <1>1, <1>3 DEF SavedMarked, NewId
<1>8. HeardOwn'
  BY <1>2, <1>3 DEF HeardOwn, Synced
<1>q. QED BY <1>4, <1>5, <1>6, <1>7, <1>8

(* No other check is under way.                                            *)
LEMMA OnlyOne ==
    ASSUME IdentityInv, NEW t \in Checks, UnderWay(t)
    PROVE  \A u \in Checks \ {t} : thread[u].pc \in {"idle", "queued"}
  BY DEF IdentityInv, OneAtATime, UnderWay

(* A check that ends, or one that starts, is in nobody's way.              *)
LEMMA TickKeeps == ASSUME IdentityInv, Tick PROVE IdentityInv'
<1>0. TypeOK BY DEF IdentityInv
<1> PICK t \in Checks : StartCheck(t) BY DEF Tick
<1>1. /\ ThreadsTyped' /\ thread[t].pc = "idle" /\ thread'[t].pc = "queued"
      /\ \A u \in Checks \ {t} : thread'[u] = thread[u]
  BY <1>0, Starts
<1>2. TypeOK'
  <2>1. Switches' BY <1>0 DEF TypeOK, Switches, Tick, StartCheck, world
  <2>2. IdsTyped' BY <1>0 DEF TypeOK, IdsTyped, Tick, world, history, idState
  <2>q. QED BY <1>1, <2>1, <2>2, TypePartsNext
<1>3. OneAtATime' BY <1>1 DEF IdentityInv, OneAtATime, UnderWay
<1>4. UNCHANGED ids /\ heard' = heard BY DEF Tick, ids, history, idState
<1>q. QED BY <1>1, <1>2, <1>3, <1>4, QuietKeeps DEF NewId

(* Check now starts a check beside the ones there are.                     *)
LEMMA CheckNowKeeps == ASSUME IdentityInv, NEW t \in Checks, CheckNow(t) PROVE IdentityInv'
<1>0. TypeOK BY DEF IdentityInv
<1>1. /\ ThreadsTyped' /\ thread[t].pc = "idle" /\ thread'[t].pc = "queued"
      /\ \A u \in Checks \ {t} : thread'[u] = thread[u]
  BY <1>0, Starts DEF CheckNow
<1>2. TypeOK'
  <2>1. Switches' BY <1>0 DEF TypeOK, Switches, CheckNow, StartCheck, world
  <2>2. operations' \in 0..MaxOperations BY <1>0, Counting DEF TypeOK, Bounded, CheckNow
  <2>3. IdsTyped' BY <1>0, <2>2 DEF TypeOK, IdsTyped, CheckNow, world, history, idState
  <2>q. QED BY <1>1, <2>1, <2>3, TypePartsNext
<1>3. OneAtATime' BY <1>1 DEF IdentityInv, OneAtATime, UnderWay
<1>4. UNCHANGED ids /\ heard' = heard BY DEF CheckNow, ids, history, idState
<1>q. QED BY <1>1, <1>2, <1>3, <1>4, QuietKeeps DEF NewId

(* A check begins only when no other is under way (check_lock).            *)
LEMMA BeginKeeps == ASSUME IdentityInv, NEW t \in Checks, Begin(t) PROVE IdentityInv'
<1>0. TypeOK BY DEF IdentityInv
<1>1. Moves(t, [thread[t] EXCEPT !.pc = "probing", !.fresh = TRUE, !.missed = {}])
  <2>1. ThreadsTyped BY <1>0, TypeParts
  <2>q. QED BY <2>1, GoesOn DEF Begin
<1>2. thread'[t].pc = "probing" /\ thread[t].pc = "queued" /\ \A u \in Checks \ {t} : thread'[u] = thread[u]
  <2>1. thread[t] \in ThreadStates BY <1>0 DEF TypeOK
  <2>2. [thread[t] EXCEPT !.pc = "probing", !.fresh = TRUE, !.missed = {}].pc = "probing"
    BY <2>1 DEF ThreadStates
  <2>q. QED BY <1>1, <2>2 DEF Begin, Moves
<1>3. TypeOK'
  <2>1. Switches' BY <1>0 DEF TypeOK, Switches, Begin, world
  <2>2. IdsTyped' BY <1>0 DEF TypeOK, IdsTyped, Begin, world, history, idState
  <2>q. QED BY <1>1, <2>1, <2>2, TypePartsNext DEF Moves
<1>4. OneAtATime' BY <1>2 DEF OneAtATime, UnderWay, Begin
<1>5. UNCHANGED ids /\ heard' = heard BY DEF Begin, ids, history, idState
<1>q. QED BY <1>2, <1>3, <1>4, <1>5, QuietKeeps DEF NewId

(* An answer, or none, changes the check alone.                            *)
LEMMA HearKeeps == ASSUME IdentityInv, NEW t \in Checks, Hear(t) PROVE IdentityInv'
<1>0. TypeOK BY DEF IdentityInv
<1>1. PICK o \in Answers : Heard(t, o)
  <2>1. thread[t].addr \in Addresses BY <1>0 DEF TypeOK, Hear
  <2>q. QED BY <1>0, <2>1, AnswerTypes DEF Hear
<1>2. Moves(t, [thread[t] EXCEPT !.pc = "heard", !.state = o.state, !.from = o.from])
  <2>1. ThreadsTyped BY <1>0, TypeParts
  <2>q. QED BY <1>1, <2>1, GoesOn DEF Hear, Heard
<1>3. thread'[t].pc = "heard" /\ thread[t].pc = "probing" /\ \A u \in Checks \ {t} : thread'[u] = thread[u]
  <2>1. thread[t] \in ThreadStates BY <1>0 DEF TypeOK
  <2>q. QED BY <1>2, <2>1 DEF Hear, Moves, ThreadStates
<1>4. TypeOK'
  <2>1. Switches' BY <1>0 DEF TypeOK, Switches, Hear, world
  <2>2. operations' \in 0..MaxOperations BY <1>0, Counting DEF TypeOK, Bounded, Hear
  <2>3. IdsTyped' BY <1>0, <2>2 DEF TypeOK, IdsTyped, Hear, world, history, idState
  <2>q. QED BY <1>2, <2>1, <2>3, TypePartsNext DEF Moves
<1>5. OneAtATime' BY <1>3 DEF IdentityInv, OneAtATime, UnderWay
<1>6. UNCHANGED ids /\ heard' = heard BY DEF Hear, ids, history, idState
<1>q. QED BY <1>3, <1>4, <1>5, <1>6, QuietKeeps DEF NewId

(* A check that ends without taking an id changes nothing else.            *)
LEMMA OverKeeps ==
    ASSUME IdentityInv, NEW t \in Checks, Over(t), thread[t].pc # "record", UNCHANGED ids, heard' = heard,
           Switches', IdsTyped'
    PROVE  IdentityInv'
<1>1. Moves(t, Idle) BY TypeParts, Ended DEF IdentityInv, Over
<1>2. thread'[t].pc = "idle" /\ \A u \in Checks \ {t} : thread'[u] = thread[u]
  <2>1. Idle.pc = "idle" BY DEF Idle
  <2>q. QED BY <1>1, <2>1 DEF Moves
<1>3. TypeOK' BY <1>1, TypePartsNext DEF Moves
<1>4. OneAtATime' BY <1>2 DEF IdentityInv, OneAtATime, UnderWay
<1>q. QED BY <1>2, <1>3, <1>4, QuietKeeps DEF NewId

(* So does one whose answer has come too late.                             *)
LEMMA OutdatedKeeps == ASSUME IdentityInv, NEW t \in Checks, Outdated(t) PROVE IdentityInv'
<1>0. TypeOK BY DEF IdentityInv
<1>1. Switches'
  <2>1. thread[t] \in ThreadStates BY <1>0 DEF TypeOK
  <2>q. QED BY <1>0, <2>1 DEF TypeOK, Switches, Outdated, Over, world, ThreadStates
<1>2. IdsTyped' BY <1>0 DEF TypeOK, IdsTyped, Outdated, world, history, idState
<1>3. UNCHANGED ids /\ heard' = heard BY DEF Outdated, ids, history, idState
<1>q. QED BY <1>1, <1>2, <1>3, OverKeeps DEF Outdated

(* Weighing a new id changes the check alone.                              *)
LEMMA WeighKeeps == ASSUME IdentityInv, NEW t \in Checks, Weigh(t) PROVE IdentityInv'
<1>0. TypeOK /\ thread[t] \in ThreadStates BY DEF IdentityInv, TypeOK
<1>1. PICK s \in {"yes", "no", "unknown"} : thread' = [thread EXCEPT ![t].pc = "settle", ![t].state = s]
  BY DEF Weigh
<1>2. Moves(t, [thread[t] EXCEPT !.pc = "settle", !.state = s])
  <2>1. ThreadsTyped BY <1>0, TypeParts
  <2>q. QED BY <1>1, <2>1, GoesOn DEF Weigh
<1>3. /\ thread[t].pc = "weigh" /\ thread'[t].pc = "settle"
      /\ thread'[t].from = thread[t].from /\ thread'[t].addr = thread[t].addr
      /\ \A u \in Checks \ {t} : thread'[u] = thread[u]
  BY <1>0, <1>2 DEF Weigh, Moves, ThreadStates
<1>4. TypeOK'
  <2>1. Switches' BY <1>0 DEF TypeOK, Switches, Weigh, world
  <2>2. IdsTyped' BY <1>0 DEF TypeOK, IdsTyped, Weigh, world, history, idState
  <2>q. QED BY <1>2, <2>1, <2>2, TypePartsNext DEF Moves
<1>5. OneAtATime' BY <1>3 DEF IdentityInv, OneAtATime, UnderWay
<1>6. UNCHANGED ids /\ heard' = heard BY DEF Weigh, ids, history, idState
<1>q. QED BY <1>3, <1>4, <1>5, <1>6, QuietKeeps DEF NewId

(* Time, machines and servers touch no check and no id.                    *)
LEMMA OutsideKeeps == ASSUME IdentityInv, CheckFallsDue \/ Move PROVE IdentityInv'
<1>0. TypeOK BY DEF IdentityInv
<1>1. thread' = thread BY DEF CheckFallsDue, Move
<1>2. TypeOK'
  <2>1. ThreadsTyped' BY <1>0, <1>1, TypeParts, MarksAll
  <2>2. Switches' BY <1>0 DEF TypeOK, Switches, CheckFallsDue, Move, world
  <2>3. operations' \in 0..MaxOperations BY <1>0, Counting DEF TypeOK, Bounded, CheckFallsDue, Move
  <2>4. at' \in [Addresses -> Machines \cup {Nobody}] BY <1>0 DEF TypeOK, CheckFallsDue, Move, world
  <2>5. IdsTyped' BY <1>0, <2>3, <2>4 DEF TypeOK, IdsTyped, CheckFallsDue, Move, history, idState
  <2>q. QED BY <2>1, <2>2, <2>5, TypePartsNext
<1>3. OneAtATime' BY <1>1 DEF IdentityInv, OneAtATime, UnderWay
<1>4. UNCHANGED ids /\ heard' = heard BY DEF CheckFallsDue, Move, ids, history, idState
<1>q. QED BY <1>1, <1>2, <1>3, <1>4, QuietKeeps DEF NewId

(* A report only forgets what was heard.                                   *)
LEMMA ReportKeeps == ASSUME IdentityInv, ReportUnavailable PROVE IdentityInv'
<1>0. TypeOK BY DEF IdentityInv
<1>1. /\ ThreadsTyped'
      /\ \A t \in Checks : /\ thread'[t].pc = thread[t].pc /\ thread'[t].addr = thread[t].addr
                           /\ thread'[t].from = thread[t].from
  BY <1>0, TypeParts, MarksAll DEF ReportUnavailable
<1>2. TypeOK'
  <2>1. Switches' BY <1>0 DEF TypeOK, Switches, ReportUnavailable, world
  <2>2. operations' \in 0..MaxOperations BY <1>0, Counting DEF TypeOK, Bounded, ReportUnavailable
  <2>3. IdsTyped' BY <1>0, <2>2 DEF TypeOK, IdsTyped, ReportUnavailable, world
  <2>q. QED BY <1>1, <2>1, <2>3, TypePartsNext
<1>3. OneAtATime' BY <1>1 DEF IdentityInv, OneAtATime, UnderWay
<1>4. UNCHANGED ids /\ heard' = Nobody BY DEF ReportUnavailable, ids
<1>q. QED BY <1>1, <1>2, <1>3, <1>4, QuietKeeps DEF NewId

-----------------------------------------------------------------------------
(* Steps that change what is heard, taken or saved.                        *)

(* A check that takes an answer over: a new id is still to be weighed, and *)
(* what is heard otherwise is the id of the record.                        *)
LEMMA ApplyKeeps == ASSUME IdentityInv, NEW t \in Checks, Apply(t) PROVE IdentityInv'
<1>0. /\ TypeOK /\ thread[t] \in ThreadStates /\ thread[t].pc = "heard" /\ thread[t].addr \in Addresses
      /\ thread[t].from \in Machines \cup {Nobody}
  BY DEF IdentityInv, TypeOK, Apply, ThreadStates
<1>1. \A u \in Checks \ {t} : thread[u].pc \in {"idle", "queued"}
  BY <1>0, OnlyOne DEF UnderWay
<1>2. /\ ThreadsTyped' /\ \A u \in Checks \ {t} : thread'[u] = thread[u]
      /\ IsNew(thread[t]) => thread'[t].pc = "weigh" /\ thread'[t].from = thread[t].from
      /\ ~IsNew(thread[t]) => thread'[t].pc = "idle"
  <2>0. ThreadsTyped BY <1>0, TypeParts
  <2>1. CASE IsNew(thread[t])
    <3>1. Moves(t, [thread[t] EXCEPT !.pc = "weigh"])
      BY <1>0, <2>0, <2>1, GoesOn DEF Apply
    <3>2. [thread[t] EXCEPT !.pc = "weigh"].pc = "weigh" /\ [thread[t] EXCEPT !.pc = "weigh"].from = thread[t].from
      BY <1>0 DEF ThreadStates
    <3>q. QED BY <2>1, <3>1, <3>2 DEF Moves
  <2>2. CASE ~IsNew(thread[t])
    <3>1. Moves(t, Idle) BY <2>0, <2>2, Ended DEF Apply, Over
    <3>2. Idle.pc = "idle" BY DEF Idle
    <3>q. QED BY <2>2, <3>1, <3>2 DEF Moves
  <2>q. QED BY <2>1, <2>2
<1>3. /\ IsNew(thread[t]) => thread[t].from \in Machines \ (Twins \cup {""})
      /\ heard' = NowHeard(thread[t]) /\ record.uid = thread[t].uid
      /\ info' = IF thread[t].from = Nobody THEN info ELSE IF thread[t].from = "" THEN Nobody ELSE thread[t].from
  BY <1>0 DEF Apply, IsNew, IsTwin, Uid
<1>4. /\ IsNew(thread[t]) => heard' = Nobody /\ info' = thread[t].from
      /\ heard' \notin {Nobody, ""} => heard' = info' /\ heard' = record.uid
  BY <1>0, <1>3 DEF NowHeard, IsNew, IsTwin, Uid, Nobody
<1>5. UNCHANGED <<saved, record, untied, trusted, lapsed>>
  BY DEF Apply
<1>6. TypeOK'
  <2>1. Switches'
    <3>1. due' \in BOOLEAN BY DEF Apply
    <3>2. readyAgain' \in BOOLEAN BY <1>0 DEF Apply, TypeOK, ThreadStates
    <3>3. checking' \in BOOLEAN BY <1>0 DEF Apply, TypeOK, Over
    <3>q. QED BY <1>0, <3>1, <3>2, <3>3 DEF Apply, world, TypeOK, Switches
  <2>2. probe' \in Probes BY <1>0 DEF Apply, Probes, IsTwin, TypeOK
  <2>4. info' \in Machines \cup {Nobody} /\ heard' \in Machines \cup {Nobody, ""}
    BY <1>0, <1>3 DEF NowHeard, Uid, TypeOK
  <2>5. unconfirmed' \in Machines \cup {""}
    BY <1>0 DEF Apply, Uid, TypeOK
  <2>6. since' \subseteq {"address", "report"} BY <1>0 DEF Apply, ThreadStates
  <2>7. IdsTyped' BY <1>0, <1>5, <2>2, <2>4, <2>5, <2>6 DEF Apply, world, TypeOK, IdsTyped
  <2>q. QED BY <1>2, <2>1, <2>7, TypePartsNext
<1>7. OneAtATime' BY <1>1, <1>2 DEF OneAtATime, UnderWay
<1>8. \A u \in Checks : thread[u].pc # "record" /\ thread'[u].pc # "record"
  BY <1>0, <1>1, <1>2
<1>9. NewIds' BY <1>1, <1>2, <1>3, <1>4 DEF NewIds, NewId
<1>10. HeardKept' BY <1>4 DEF HeardKept
<1>11. OnItsWay' BY <1>8 DEF OnItsWay
<1>12. SavedMarked' BY <1>5, <1>8 DEF IdentityInv, SavedMarked, Marked, Known
<1>13. HeardOwn' BY <1>4, <1>5 DEF HeardOwn
<1>q. QED BY <1>6, <1>7, <1>9, <1>10, <1>11, <1>12, <1>13 DEF IdentityInv

(* A new id that is taken has the mark, unless the record had none.        *)
LEMMA TakesKeeps ==
    ASSUME IdentityInv, NEW t \in Checks, Settle(t), record.uid = thread[t].uid, thread[t].state = "yes"
    PROVE  IdentityInv'
<1> DEFINE r == thread[t]
<1>0. /\ TypeOK /\ r \in ThreadStates /\ r.pc = "settle" /\ r.addr \in Addresses
      /\ r.from \in Machines \ (Twins \cup {""}) /\ info = r.from /\ heard = Nobody
  BY DEF IdentityInv, TypeOK, Settle, NewIds, NewId
<1>1. \A u \in Checks \ {t} : thread[u].pc \in {"idle", "queued"}
  BY <1>0, OnlyOne DEF UnderWay
<1>2. /\ unconfirmed' = "" /\ heard' = r.from /\ since' = r.missed
      /\ untied' = (IF r.uid # "" THEN r.from ELSE "")
      /\ trusted' = (IF r.uid = "" THEN trusted \cup {r.from} ELSE trusted)
      /\ lapsed' = (IF saved.addr # r.addr THEN lapsed \cup {untied} ELSE lapsed)
      /\ thread' = [thread EXCEPT ![t].pc = "record"]
      /\ UNCHANGED <<world, saved, record, probe, info, readyAgain, operations, due, checking>>
  BY DEF Settle
<1>3. /\ ThreadsTyped' /\ \A u \in Checks \ {t} : thread'[u] = thread[u]
      /\ thread'[t].pc = "record" /\ thread'[t].from = r.from /\ thread'[t].addr = r.addr
  <2>1. ThreadsTyped BY <1>0, TypeParts
  <2>2. Moves(t, [r EXCEPT !.pc = "record"]) BY <1>0, <1>2, <2>1, GoesOn
  <2>3. LET n == [r EXCEPT !.pc = "record"] IN n.pc = "record" /\ n.from = r.from /\ n.addr = r.addr
    BY <1>0 DEF ThreadStates
  <2>q. QED BY <2>2, <2>3 DEF Moves
<1> HIDE DEF r
<1>4. TypeOK'
  <2>1. Switches' BY <1>0, <1>2 DEF TypeOK, Switches, world
  <2>2. since' \subseteq {"address", "report"} BY <1>0, <1>2 DEF ThreadStates
  <2>3. trusted' \subseteq Machines \cup {""} /\ lapsed' \subseteq Machines \cup {""}
    BY <1>0, <1>2 DEF TypeOK
  <2>4. IdsTyped' BY <1>0, <1>2, <2>2, <2>3 DEF TypeOK, IdsTyped, world
  <2>q. QED BY <1>3, <2>1, <2>4, TypePartsNext
<1>5. OneAtATime' BY <1>1, <1>3 DEF OneAtATime, UnderWay
<1>6. NewIds' BY <1>0, <1>1, <1>3 DEF NewIds, NewId
<1>7. HeardKept' BY <1>0, <1>2 DEF HeardKept
<1>8. OnItsWay'
  <2>1. r.from \in trusted' \/ r.from = untied' BY <1>2
  <2>2. untied' \in {r.from, ""} BY <1>2
  <2>3. \A u \in Checks : thread'[u].pc = "record" => u = t BY <1>1, <1>3
  <2>q. QED BY <1>2, <1>3, <2>1, <2>2, <2>3 DEF OnItsWay, Marked, Known
<1>9. SavedMarked'
  <2>1. CASE saved.addr = r.addr BY <1>2, <1>3, <2>1 DEF SavedMarked
  <2>2. CASE saved.addr # r.addr
    <3>1. Marked(saved.uid) BY <1>0, <1>1 DEF IdentityInv, SavedMarked, r
    <3>q. QED BY <1>2, <2>2, <3>1 DEF SavedMarked, Marked, Known
  <2>q. QED BY <2>1, <2>2
<1>10. HeardOwn' BY <1>3 DEF HeardOwn, Recording
<1>q. QED BY <1>4, <1>5, <1>6, <1>7, <1>8, <1>9, <1>10 DEF IdentityInv

(* The other ends of a new id take nothing.                                *)
LEMMA SettleKeeps == ASSUME IdentityInv, NEW t \in Checks, Settle(t) PROVE IdentityInv'
<1>1. CASE record.uid = thread[t].uid /\ thread[t].state = "yes" BY <1>1, TakesKeeps
<1>2. CASE ~(record.uid = thread[t].uid /\ thread[t].state = "yes")
  <2>1. /\ Over(t) /\ thread[t].pc = "settle" /\ UNCHANGED ids /\ heard' = heard
        /\ due' \in {due, TRUE} /\ unconfirmed' \in {unconfirmed, thread[t].from}
        /\ UNCHANGED <<world, probe, readyAgain, operations, since>>
    BY <1>2 DEF Settle, ids, idState, history
  <2>2. TypeOK /\ thread[t].from \in Machines BY <2>1 DEF IdentityInv, NewIds, NewId
  <2>3. Switches' BY <2>1, <2>2 DEF TypeOK, Switches, Over, world
  <2>4. IdsTyped' BY <2>1, <2>2 DEF TypeOK, IdsTyped, ids, world
  <2>q. QED BY <2>1, <2>3, <2>4, OverKeeps
<1>q. QED BY <1>1, <1>2

(* The settings take the id that was heard, or keep one that is known.     *)
LEMMA RecordKeeps == ASSUME IdentityInv, NEW t \in Checks, Record(t) PROVE IdentityInv'
<1> DEFINE r == thread[t]
<1>0. /\ TypeOK /\ r.pc = "record" /\ r.from \in Machines \ (Twins \cup {""})
      /\ Marked(r.from) /\ untied \in {r.from, ""} /\ heard \in {Nobody, r.from}
  BY DEF IdentityInv, Record, NewIds, NewId, OnItsWay
<1>1. \A u \in Checks \ {t} : thread[u].pc \in {"idle", "queued"}
  BY <1>0, OnlyOne DEF UnderWay
<1>2. /\ thread'[t].pc = "idle" /\ ThreadsTyped' /\ \A u \in Checks \ {t} : thread'[u] = thread[u]
  <2>1. ThreadsTyped BY <1>0, TypeParts
  <2>2. Moves(t, Idle) BY <2>1, Ended DEF Record, Over
  <2>3. Idle.pc = "idle" BY DEF Idle
  <2>q. QED BY <2>2, <2>3 DEF Moves
<1>3. saved \in NodeRecords /\ record \in NodeRecords BY <1>0 DEF TypeOK
<1>4. /\ saved' \in NodeRecords
      /\ saved.addr = r.addr => saved'.uid = r.from
      /\ saved.addr # r.addr => saved' = saved
  BY <1>0, <1>3 DEF Record, NodeRecords
<1>5. UNCHANGED <<world, record, probe, info, heard, unconfirmed, untied, due, readyAgain, operations,
                 trusted, since, lapsed>>
  BY DEF Record, idState, history
<1> HIDE DEF r
<1>6. TypeOK'
  <2>1. Switches' BY <1>0, <1>5 DEF TypeOK, Switches, world, Record, Over
  <2>2. IdsTyped' BY <1>0, <1>4, <1>5 DEF TypeOK, IdsTyped, world
  <2>q. QED BY <1>2, <2>1, <2>2, TypePartsNext
<1>7. OneAtATime' BY <1>1, <1>2 DEF OneAtATime, UnderWay
<1>8. NewIds' BY <1>1, <1>2 DEF NewIds, NewId
<1>9. HeardKept' BY <1>5 DEF IdentityInv, HeardKept
<1>10. OnItsWay' BY <1>1, <1>2 DEF OnItsWay
<1>11. saved.addr # r.addr => Marked(saved.uid)
  BY <1>1 DEF IdentityInv, SavedMarked, r
<1>12. SavedMarked' BY <1>0, <1>4, <1>5, <1>11 DEF SavedMarked, Marked, Known
<1>13. HeardOwn'
  <2> SUFFICES ASSUME record' = saved', record'.uid # "", heard' \notin {Nobody, ""}
               PROVE  heard' = record'.uid \/ Known(record.uid)'
      BY DEF HeardOwn, Synced
  <2>1. heard' = r.from BY <1>0, <1>5
  <2>2. CASE saved.addr = r.addr BY <1>4, <2>1, <2>2
  <2>3. CASE saved.addr # r.addr
    <3>1. Marked(record.uid) BY <1>4, <1>5, <1>11, <2>3
    <3>q. QED BY <1>0, <1>5, <2>1, <3>1 DEF Marked, Known
  <2>q. QED BY <2>2, <2>3
<1>q. QED BY <1>6, <1>7, <1>8, <1>9, <1>10, <1>12, <1>13 DEF IdentityInv

(* A record taken over forgets what was heard, unless it names just that.  *)
LEMMA SyncKeeps == ASSUME IdentityInv, Sync PROVE IdentityInv'
<1>0. TypeOK /\ saved \in NodeRecords /\ record \in NodeRecords BY DEF IdentityInv, TypeOK
<1>1. /\ ThreadsTyped'
      /\ \A t \in Checks : /\ thread'[t].pc = thread[t].pc /\ thread'[t].addr = thread[t].addr
                           /\ thread'[t].from = thread[t].from
  <2>1. ThreadsTyped BY <1>0, TypeParts
  <2>q. QED BY <2>1, MarksAll DEF Sync
<1>2. /\ record' = saved /\ record # saved /\ heard' \in {heard, Nobody}
      /\ heard' # Nobody => /\ saved.addr = record.addr
                            /\ saved.uid = record.uid \/ saved.uid \in {"", heard}
      /\ UNCHANGED <<world, saved, info, untied, checking, readyAgain, operations, trusted, lapsed>>
  BY DEF Sync, Synced
<1>3. TypeOK'
  <2>1. due' \in BOOLEAN BY DEF Sync
  <2>2. Switches' BY <1>0, <1>2, <2>1 DEF TypeOK, Switches, world
  <2>3. probe' \in Probes /\ unconfirmed' \in Machines \cup {""} /\ since' \subseteq {"address", "report"}
    BY <1>0 DEF Sync, Probes, TypeOK
  <2>4. IdsTyped' BY <1>0, <1>2, <2>3 DEF TypeOK, IdsTyped, world
  <2>q. QED BY <1>1, <2>2, <2>4, TypePartsNext
<1>4. OneAtATime' BY <1>1 DEF IdentityInv, OneAtATime, UnderWay
<1>5. NewIds' BY <1>1, <1>2 DEF IdentityInv, NewIds, NewId
<1>6. HeardKept' BY <1>2 DEF IdentityInv, HeardKept
<1>7. \A u : (Known(u)' <=> Known(u)) /\ (Marked(u)' <=> Marked(u)) BY <1>2 DEF Known, Marked
<1>8. OnItsWay'
  <2> SUFFICES ASSUME NEW t \in Checks, thread'[t].pc = "record"
               PROVE  /\ Marked(thread[t].from)'
                      /\ untied' \in {thread'[t].from, ""} /\ heard' \in {Nobody, thread'[t].from}
      BY DEF OnItsWay
  <2>1. /\ Marked(thread[t].from) /\ untied \in {thread[t].from, ""} /\ heard \in {Nobody, thread[t].from}
    BY <1>1 DEF IdentityInv, OnItsWay
  <2>q. QED BY <1>1, <1>2, <2>1 DEF Marked, Known
<1>9. SavedMarked'
  <2>1. CASE Marked(saved.uid) BY <1>2, <2>1 DEF SavedMarked, Marked, Known
  <2>2. CASE ~Marked(saved.uid)
    <3>1. PICK t \in Checks : thread[t].pc = "record" /\ saved.addr = thread[t].addr
      BY <2>2 DEF IdentityInv, SavedMarked
    <3>q. QED BY <1>1, <1>2, <3>1 DEF SavedMarked
  <2>q. QED BY <2>1, <2>2
<1>10. HeardOwn'
  <2> SUFFICES ASSUME record'.uid # "", heard' \notin {Nobody, ""} PROVE heard' = record'.uid
      BY DEF HeardOwn
  <2>1. saved.addr = record.addr => saved.uid # record.uid
    <3>1. saved = [addr |-> saved.addr, uid |-> saved.uid] /\ record = [addr |-> record.addr, uid |-> record.uid]
      BY <1>0 DEF NodeRecords
    <3>q. QED BY <1>2, <3>1
  <2>q. QED BY <1>2, <2>1
<1>q. QED BY <1>3, <1>4, <1>5, <1>6, <1>8, <1>9, <1>10 DEF IdentityInv

(* A request takes the mark off an id that was compared, or lets it lapse. *)
LEMMA AskKeeps == ASSUME IdentityInv, Ask PROVE IdentityInv'
<1>0. TypeOK BY DEF IdentityInv
<1>1. /\ UNCHANGED <<world, saved, record, probe, info, heard, checking, readyAgain, thread, operations, trusted,
                   since>>
      /\ untied' \in {untied, ""} /\ lapsed \subseteq lapsed' /\ lapsed' \subseteq lapsed \cup {untied}
      /\ untied' # untied => untied \in Beside \cup lapsed'
  BY DEF Ask, Tied
<1>2. TypeOK'
  <2>1. ThreadsTyped'
    <3>1. ThreadsTyped BY <1>0, TypeParts
    <3>q. QED BY <1>1, <3>1, MarksAll
  <2>2. due' \in BOOLEAN BY DEF Ask
  <2>3. Switches' BY <1>0, <1>1, <2>2 DEF TypeOK, Switches, world
  <2>4. unconfirmed' \in Machines \cup {""} BY <1>0 DEF Ask, UnconfirmedOnceTied, TypeOK
  <2>5. untied' \in Machines \cup {""} /\ lapsed' \subseteq Machines \cup {""} BY <1>0, <1>1 DEF TypeOK
  <2>6. IdsTyped' BY <1>0, <1>1, <2>4, <2>5 DEF TypeOK, IdsTyped, world
  <2>q. QED BY <2>1, <2>3, <2>6, TypePartsNext
<1>3. OneAtATime' BY <1>1 DEF IdentityInv, OneAtATime, UnderWay
<1>4. NewIds' BY <1>1 DEF IdentityInv, NewIds, NewId
<1>5. HeardKept' BY <1>1 DEF IdentityInv, HeardKept
<1>6. \A u : (Known(u) => Known(u)') /\ (Marked(u) => Marked(u)') BY <1>1 DEF Known, Marked
<1>7. OnItsWay'
  <2> SUFFICES ASSUME NEW t \in Checks, thread'[t].pc = "record"
               PROVE  /\ Marked(thread[t].from)'
                      /\ untied' \in {thread'[t].from, ""} /\ heard' \in {Nobody, thread'[t].from}
      BY DEF OnItsWay
  <2>1. /\ Marked(thread[t].from) /\ untied \in {thread[t].from, ""} /\ heard \in {Nobody, thread[t].from}
    BY <1>1 DEF IdentityInv, OnItsWay
  <2>q. QED BY <1>1, <2>1 DEF Marked, Known
<1>8. SavedMarked'
  <2>1. CASE Marked(saved.uid) BY <1>1, <2>1 DEF SavedMarked, Marked, Known
  <2>2. CASE ~Marked(saved.uid)
    <3>1. PICK t \in Checks : thread[t].pc = "record" /\ saved.addr = thread[t].addr
      BY <2>2 DEF IdentityInv, SavedMarked
    <3>q. QED BY <1>1, <3>1 DEF SavedMarked
  <2>q. QED BY <2>1, <2>2
<1>9. HeardOwn' BY <1>1 DEF IdentityInv, HeardOwn, Synced, Recording, Known
<1>q. QED BY <1>2, <1>3, <1>4, <1>5, <1>7, <1>8, <1>9 DEF IdentityInv

(* The user names no id, or one that is vouched for.                       *)
LEMMA EditKeeps == ASSUME IdentityInv, Edit PROVE IdentityInv'
<1>0. TypeOK /\ saved \in NodeRecords BY DEF IdentityInv, TypeOK
<1>1. /\ UNCHANGED <<world, record, probe, info, heard, unconfirmed, untied, due, checking, readyAgain, thread,
                   since, lapsed>>
      /\ Bounded
  BY DEF Edit, idState
<1>2. /\ saved' \in NodeRecords /\ saved'.uid \in trusted' \cup {""}
      /\ trusted \subseteq trusted' /\ trusted' \subseteq Machines \cup {""}
  <2>0. trusted \subseteq Machines \cup {""} BY <1>0 DEF TypeOK
  <2>1. CASE \E a \in Addresses : saved' = [addr |-> a, uid |-> ""] /\ trusted' = trusted
    <3>1. PICK a \in Addresses : saved' = [addr |-> a, uid |-> ""] /\ trusted' = trusted BY <2>1
    <3>2. saved' \in NodeRecords /\ saved'.uid = "" BY <3>1 DEF NodeRecords
    <3>3. saved'.uid \in trusted' \cup {""} BY <3>2
    <3>q. QED BY <2>0, <3>1, <3>2, <3>3
  <2>2. CASE \E m \in Machines \ (Twins \cup {""}) : saved' = [saved EXCEPT !.uid = m] /\ trusted' = trusted \cup {m}
    <3>1. PICK m \in Machines : saved' = [saved EXCEPT !.uid = m] /\ trusted' = trusted \cup {m} BY <2>2
    <3>2. saved' \in NodeRecords /\ saved'.uid = m BY <1>0, <3>1 DEF NodeRecords
    <3>3. saved'.uid \in trusted' \cup {""} BY <3>1, <3>2
    <3>4. trusted \subseteq trusted' /\ trusted' \subseteq Machines \cup {""} BY <2>0, <3>1
    <3>q. QED BY <3>2, <3>3, <3>4
  <2>q. QED BY <2>1, <2>2 DEF Edit
<1>3. TypeOK'
  <2>1. ThreadsTyped'
    <3>1. ThreadsTyped BY <1>0, TypeParts
    <3>q. QED BY <1>1, <3>1, MarksAll
  <2>2. Switches' BY <1>0, <1>1 DEF TypeOK, Switches, world
  <2>3. operations' \in 0..MaxOperations BY <1>0, <1>1, Counting DEF TypeOK
  <2>4. IdsTyped' BY <1>0, <1>1, <1>2, <2>3 DEF TypeOK, IdsTyped, world
  <2>q. QED BY <2>1, <2>2, <2>4, TypePartsNext
<1>4. OneAtATime' BY <1>1 DEF IdentityInv, OneAtATime, UnderWay
<1>5. NewIds' BY <1>1 DEF IdentityInv, NewIds, NewId
<1>6. HeardKept' BY <1>1 DEF IdentityInv, HeardKept
<1>7. OnItsWay' BY <1>1, <1>2 DEF IdentityInv, OnItsWay, Marked, Known
<1>8. SavedMarked' BY <1>2 DEF SavedMarked, Marked, Known
<1>9. HeardOwn' BY <1>2 DEF HeardOwn, Synced, Known
<1>q. QED BY <1>3, <1>4, <1>5, <1>6, <1>7, <1>8, <1>9 DEF IdentityInv

-----------------------------------------------------------------------------
(* The theorems.                                                           *)

(* At the start the one id there is was saved by the user.                 *)
LEMMA InitKeeps == Init => IdentityInv
<1> SUFFICES ASSUME Init PROVE IdentityInv OBVIOUS
<1>1. TypeOK BY InitTypes
<1>2. \A t \in Checks : thread[t].pc = "idle" BY DEF Init, Idle
<1>3. heard = Nobody /\ saved.uid = Own /\ trusted = {Own}
  <2> PICK a \in Addresses : saved = [addr |-> a, uid |-> Own] BY DEF Init
  <2>q. QED BY DEF Init
<1>q. QED BY <1>1, <1>2, <1>3
      DEF IdentityInv, OneAtATime, UnderWay, NewIds, NewId, HeardKept, OnItsWay, SavedMarked, Marked, Known, HeardOwn

(* Every step keeps the invariant.                                         *)
LEMMA StepKeeps == ASSUME IdentityInv, [Next]_vars PROVE IdentityInv'
<1>1. CASE Next
  BY <1>1, TickKeeps, OutsideKeeps, SyncKeeps, AskKeeps, ReportKeeps, EditKeeps, CheckNowKeeps, BeginKeeps,
     HearKeeps, OutdatedKeeps, ApplyKeeps, WeighKeeps, SettleKeeps, RecordKeeps
     DEF Next, Check
<1>2. CASE UNCHANGED vars
  <2>1. TypeOK' BY <1>2 DEF IdentityInv, TypeOK, vars, world, idState, history
  <2>2. OneAtATime' BY <1>2 DEF IdentityInv, OneAtATime, UnderWay, vars
  <2>q. QED BY <1>2, <2>1, <2>2, QuietKeeps DEF vars, ids, idState, history, NewId
<1>q. QED BY <1>1, <1>2

(* The registry and the settings stay in the inductive invariant, whatever *)
(* checks, edits, reports and machines do.                                 *)
THEOREM InvariantHolds == Spec => []IdentityInv
<1>1. Init => IdentityInv BY InitKeeps
<1>2. IdentityInv /\ [Next]_vars => IdentityInv' BY StepKeeps
<1>q. QED BY <1>1, <1>2, PTL DEF Spec

(* Every record, id and check keeps its type.                              *)
THEOREM TypeCorrect == Spec => []TypeOK
<1>1. IdentityInv => TypeOK BY DEF IdentityInv
<1>q. QED BY <1>1, InvariantHolds, PTL

(* In such a state the id a Plex database request names is one the user    *)
(* vouched for or one that answered beside the server's Plex, or its mark  *)
(* has lapsed.                                                             *)
LEMMA KnownInState == ASSUME IdentityInv PROVE WorkNamesKnownPlex
<1> SUFFICES ASSUME MaySend, served, record.uid # "", ~Recording
             PROVE  record.uid \in trusted \cup Beside \cup lapsed
    BY DEF WorkNamesKnownPlex
<1>1. record = saved /\ heard \notin {Nobody, ""} BY DEF MaySend, Synced
<1>2. Marked(record.uid) BY <1>1 DEF IdentityInv, SavedMarked, Recording
<1>3. CASE Known(record.uid) BY <1>3 DEF Known
<1>4. CASE ~Known(record.uid)
  <2>1. record.uid = untied /\ ToBeTied BY <1>2, <1>4 DEF Marked, ToBeTied
  <2>2. Tied BY <2>1 DEF MaySend, UnconfirmedOnceTied, ToBeTied
  <2>3. heard = record.uid /\ heard = info BY <1>1, <1>4 DEF IdentityInv, HeardOwn, HeardKept, Synced
  <2>q. QED BY <2>2, <2>3 DEF Tied
<1>q. QED BY <1>3, <1>4

(* plex_db_hold: work for a switched-on server's Plex names only such ids. *)
THEOREM KnownPlexNamed == Spec => []WorkNamesKnownPlex
<1>1. IdentityInv => WorkNamesKnownPlex BY KnownInState
<1>q. QED BY <1>1, InvariantHolds, PTL

=============================================================================
