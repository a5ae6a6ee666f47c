---------------------------- MODULE NodeIdentity ----------------------------
(***************************************************************************)
(* Which machine answers as a node (nodes/registry.py): the health checks  *)
(* of one node saved as a server's Plex database node, the ids it hears    *)
(* and accepts, and what lets Plex database work through to it, while      *)
(* machines change places, settings are edited and requests come in.       *)
(*                                                                         *)
(* A machine is the id it reports, "" for a release that reports none.     *)
(* Back-offs and the wait for a first check only decide when the next      *)
(* check comes: it comes at some time.  Rescans of GPUs and media access   *)
(* are left out.                                                           *)
(***************************************************************************)
EXTENDS Integers, FiniteSets

CONSTANTS
  Machines,        \* ids of the machines there are; "" may be one
  Beside,          \* machines whose answer names the Plex machine of the servers using the node
  Twins,           \* machines saved as another node
  Own,             \* the machine saved first
  Addresses,
  Checks,          \* check threads that may exist at a time
  Faults,          \* how a machine that is there may fail to answer as ready: "silent", "unwell", "refused", "stopping"
  Unreadable,      \* the settings may be unreadable while the servers are looked up
  MaxOperations    \* bound: moves of machines, edits, reports

ASSUME MachinesAssumption ==
  /\ Beside \cup Twins \cup {Own} \subseteq Machines
  /\ "none" \notin Machines /\ "" \notin Beside \cup Twins
ASSUME FaultsAssumption ==
  /\ Faults \subseteq {"silent", "unwell", "refused", "stopping"}
  /\ Unreadable \in BOOLEAN /\ MaxOperations \in Nat

Nobody == "none"

VARIABLES
  at,           \* the machine at each address
  served,       \* a Plex server that is switched on uses the node
  saved,        \* the node's stored record: address and id
  record,       \* the registry's copy of it
  probe,        \* probe_state
  info,         \* the machine whose /v1/info is kept
  heard,        \* heard_uid: Nobody stands for None
  unconfirmed,  \* unconfirmed_uid
  untied,       \* untied_uid
  due,          \* next_check has come
  checking,     \* live.checking
  readyAgain,   \* ready_check > reported_at_check
  thread,       \* the checks under way
  operations,   \* bounded steps taken
  trusted,      \* history: ids the user vouched for, by typing the key or restoring them
  since,        \* history: what happened since the check that set heard_uid began
  lapsed        \* history: ids whose mark untied_uid went away without a comparison of their own answer

idState == <<heard, unconfirmed, untied>>
world == <<at, served>>
history == <<trusted, since, lapsed>>
vars == <<world, saved, record, probe, info, idState, due, checking, readyAgain, thread, operations, history>>

\* live: no new address since the check read its record; fresh: no report since it began.
Idle == [pc |-> "idle", addr |-> 0, uid |-> "", live |-> FALSE, fresh |-> FALSE, state |-> "", from |-> Nobody,
         missed |-> {}]
NodeRecords == [addr : Addresses, uid : Machines \cup {""}]
ThreadStates ==
  [pc : {"idle", "queued", "probing", "heard", "weigh", "settle", "record"}, addr : Addresses \cup {0},
   uid : Machines \cup {""}, live : BOOLEAN, fresh : BOOLEAN,
   state : {"", "offline", "ready", "unwell", "refused", "yes", "no", "unknown"}, from : Machines \cup {Nobody},
   missed : SUBSET {"address", "report"}]
Probes == {"connecting", "ready", "unwell", "offline", "refused", "duplicate"}

TypeOK ==
  /\ at \in [Addresses -> Machines \cup {Nobody}] /\ served \in BOOLEAN
  /\ saved \in NodeRecords /\ record \in NodeRecords
  /\ probe \in Probes /\ info \in Machines \cup {Nobody} /\ heard \in Machines \cup {Nobody, ""}
  /\ unconfirmed \in Machines \cup {""} /\ untied \in Machines \cup {""}
  /\ due \in BOOLEAN /\ checking \in BOOLEAN /\ readyAgain \in BOOLEAN
  /\ thread \in [Checks -> ThreadStates]
  /\ \A t \in Checks : /\ thread[t].pc # "idle" => thread[t].addr \in Addresses
                       /\ thread[t].pc = "heard" => thread[t].state \in Probes
  /\ operations \in 0..MaxOperations /\ trusted \subseteq Machines \cup {""}
  /\ lapsed \subseteq Machines \cup {""} /\ since \subseteq {"address", "report"}

Init ==
  /\ served \in BOOLEAN /\ \E a \in Addresses : saved = [addr |-> a, uid |-> Own]
  /\ at = [a \in Addresses |-> IF a = saved.addr THEN Own ELSE Nobody]
  /\ record = saved /\ probe = "connecting" /\ info = Nobody
  /\ heard = Nobody /\ unconfirmed = "" /\ untied = ""
  /\ due = TRUE /\ checking = FALSE /\ readyAgain = FALSE
  /\ thread = [t \in Checks |-> Idle]
  /\ operations = 0 /\ trusted = {Own} /\ since = {} /\ lapsed = {}

-----------------------------------------------------------------------------
\* May Plex database work go to the node?

Synced == record = saved

\* A broken variant: an id taken while no server used the node is never compared.
NeverToBeTied == FALSE

\* What the comparison of an id taken without one decides, when the servers can be read.
ToBeTied == untied # "" /\ record.uid = untied /\ served
Tied == info \in Beside
UnconfirmedOnceTied ==
  IF ~ToBeTied THEN unconfirmed
  ELSE IF ~Tied THEN untied ELSE IF unconfirmed = untied THEN "" ELSE unconfirmed

\* plex_db_hold answers None.
MaySend ==
  /\ Synced
  /\ probe # "duplicate" /\ UnconfirmedOnceTied = ""
  /\ record.uid = "" \/ heard \notin {Nobody, ""}

-----------------------------------------------------------------------------
\* A health check.

StartCheck(t) ==
  /\ thread[t].pc = "idle"
  /\ thread' = [thread EXCEPT ![t] = [Idle EXCEPT !.pc = "queued",
                                               !.addr = record.addr, !.uid = record.uid, !.live = TRUE]]
  /\ checking' = TRUE

\* The health loop, for a check that is due.
Tick ==
  /\ Synced /\ ~checking /\ due
  /\ \E t \in Checks : StartCheck(t)
  /\ UNCHANGED <<world, saved, record, probe, info, idState, due, readyAgain, operations, history>>

\* Check now, or a report while the loop is not running: whatever is under way.
CheckNow(t) ==
  /\ Synced /\ operations < MaxOperations
  /\ StartCheck(t)
  /\ operations' = operations + 1
  /\ UNCHANGED <<world, saved, record, probe, info, idState, due, readyAgain, history>>

Begin(t) ==
  /\ thread[t].pc = "queued" /\ \A u \in Checks : thread[u].pc \in {"idle", "queued"}
  /\ thread' = [thread EXCEPT ![t].pc = "probing", ![t].fresh = TRUE, ![t].missed = {}]
  /\ UNCHANGED <<world, saved, record, probe, info, idState, due, checking, readyAgain, operations, history>>

FaultOf(o, m) ==
  IF o.state # "offline" THEN o.state ELSE IF o.from = Nobody THEN "silent" ELSE IF m # "" THEN "stopping" ELSE "none"

\* What the probe makes of an answer: a release without an id needs an update once an id is saved.
Silent == [state |-> "offline", from |-> Nobody]
Answer(r) ==
  LET m == at[r.addr]
  IN  IF m = Nobody THEN Silent ELSE [state |-> IF m = "" /\ r.uid # "" THEN "unwell" ELSE "ready", from |-> m]
Failures(r) ==
  LET m == at[r.addr]
      failing == {Silent, [state |-> "refused", from |-> Nobody], [state |-> "unwell", from |-> m],
                  [state |-> "offline", from |-> m]}
  IN  IF m = Nobody THEN {} ELSE {o \in failing : FaultOf(o, m) \in Faults}

Heard(t, o) == thread' = [thread EXCEPT ![t].pc = "heard", ![t].state = o.state, ![t].from = o.from]

Hear(t) ==
  /\ thread[t].pc = "probing"
  /\ \/ Heard(t, Answer(thread[t])) /\ operations' = operations
     \/ /\ operations < MaxOperations /\ operations' = operations + 1
        /\ \E o \in Failures(thread[t]) : Heard(t, o)
  /\ UNCHANGED <<world, saved, record, probe, info, idState, due, checking, readyAgain, history>>

\* The check is over: checking is off, whatever else is queued.
Over(t) == thread' = [thread EXCEPT ![t] = Idle] /\ checking' = FALSE

\* A broken variant: a check that ends early leaves the node marked as being checked.
OutdatedStillChecking(t) ==
  /\ thread[t].pc = "heard"
  /\ ~thread[t].live \/ record.uid # thread[t].uid
  /\ due' = (due \/ thread[t].live)
  /\ thread' = [thread EXCEPT ![t] = Idle] /\ checking' = checking
  /\ UNCHANGED <<world, saved, record, probe, info, idState, readyAgain, operations, history>>

\* The answer is about an old address, or was weighed against an id that is not the saved one any more.
Outdated(t) ==
  /\ thread[t].pc = "heard"
  /\ ~thread[t].live \/ record.uid # thread[t].uid
  /\ due' = (due \/ thread[t].live)
  /\ Over(t)
  /\ UNCHANGED <<world, saved, record, probe, info, idState, readyAgain, operations, history>>

\* The id in an answer: none from a machine that did not answer.
Uid(r) == IF r.from = Nobody THEN "" ELSE r.from
IsTwin(r) == Uid(r) \in Twins
IsNew(r) == Uid(r) # "" /\ ~IsTwin(r) /\ Uid(r) # r.uid

\* heard_uid and the events since, once the answer is taken over.
NowHeard(r) ==
  IF IsNew(r) \/ IsTwin(r) \/ (r.state = "offline" /\ Uid(r) = "") THEN Nobody ELSE Uid(r)

\* A broken variant: a check that finds the node ready as before is not noted.
ApplyUnnoted(t) ==
  LET r == thread[t]
      state == IF IsTwin(r) THEN "duplicate" ELSE r.state IN
  /\ r.pc = "heard" /\ r.live /\ record.uid = r.uid
  /\ probe' = state /\ info' = r.from /\ heard' = NowHeard(r) /\ since' = r.missed
  /\ readyAgain' = IF state = "ready" /\ probe # "ready" THEN r.fresh ELSE readyAgain
  /\ due' = (~r.fresh /\ state # "refused")
  /\ IF IsNew(r) THEN thread' = [thread EXCEPT ![t].pc = "weigh"] /\ checking' = checking ELSE Over(t)
  /\ UNCHANGED <<world, saved, record, unconfirmed, untied, operations, trusted, lapsed>>

Apply(t) ==
  LET r == thread[t]
      state == IF IsTwin(r) THEN "duplicate" ELSE r.state IN
  /\ r.pc = "heard" /\ r.live /\ record.uid = r.uid
  /\ probe' = state
  /\ info' = IF r.from = Nobody THEN info ELSE IF r.from = "" THEN Nobody ELSE r.from
  /\ heard' = NowHeard(r) /\ since' = r.missed
  /\ unconfirmed' = IF Uid(r) # "" /\ ~IsNew(r) /\ r.uid # "" /\ Uid(r) # untied
                    THEN (IF Uid(r) = r.uid THEN "" ELSE Uid(r)) ELSE unconfirmed
  /\ readyAgain' = IF state = "ready" THEN r.fresh ELSE readyAgain
  /\ due' = (~r.fresh /\ state # "refused")
  /\ IF IsNew(r) THEN thread' = [thread EXCEPT ![t].pc = "weigh"] /\ checking' = checking ELSE Over(t)
  /\ UNCHANGED <<world, saved, record, untied, operations, trusted, lapsed>>

\* A new id: may it replace the saved one without asking?
Confirmed(r) == r.uid = "" \/ ~served \/ r.from \in Beside
Weigh(t) ==
  /\ thread[t].pc = "weigh"
  /\ \/ thread' = [thread EXCEPT ![t].pc = "settle", ![t].state = IF Confirmed(thread[t]) THEN "yes" ELSE "no"]
     \/ Unreadable /\ thread[t].uid # "" /\ thread' = [thread EXCEPT ![t].pc = "settle", ![t].state = "unknown"]
  /\ UNCHANGED <<world, saved, record, probe, info, idState, due, checking, readyAgain, operations, history>>

Settle(t) ==
  LET r == thread[t] IN
  /\ r.pc = "settle"
  /\ \/ /\ record.uid # r.uid
        /\ due' = TRUE /\ Over(t)
        /\ UNCHANGED <<idState, history>>
     \/ /\ record.uid = r.uid /\ r.state = "unknown"
        /\ Over(t)
        /\ UNCHANGED <<due, idState, history>>
     \/ /\ record.uid = r.uid /\ r.state = "no"
        /\ unconfirmed' = r.from /\ Over(t)
        /\ UNCHANGED <<due, heard, untied, history>>
     \/ /\ record.uid = r.uid /\ r.state = "yes"
        /\ unconfirmed' = "" /\ heard' = r.from /\ since' = r.missed
        /\ untied' = IF r.uid # "" THEN r.from ELSE ""
        /\ trusted' = IF r.uid = "" THEN trusted \cup {r.from} ELSE trusted
        /\ lapsed' = IF saved.addr # r.addr THEN lapsed \cup {untied} ELSE lapsed
        /\ thread' = [thread EXCEPT ![t].pc = "record"]
        /\ UNCHANGED <<due, checking>>
  /\ UNCHANGED <<world, saved, record, probe, info, readyAgain, operations>>

\* The settings take the id, if the node still has the address and nobody else has the id.
Record(t) ==
  /\ thread[t].pc = "record"
  /\ saved' = IF saved.addr = thread[t].addr /\ thread[t].from \notin Twins
              THEN [saved EXCEPT !.uid = thread[t].from] ELSE saved
  /\ Over(t)
  /\ UNCHANGED <<world, record, probe, info, idState, due, readyAgain, operations, history>>

CheckFallsDue ==
  /\ ~due /\ due' = TRUE
  /\ UNCHANGED <<world, saved, record, probe, info, idState, checking, readyAgain, thread, operations, history>>

-----------------------------------------------------------------------------
\* Settings, reports, requests.

\* The registry takes over a changed record (_merge).
Sync ==
  LET moved == saved.addr # record.addr
      renamed == saved.uid # record.uid
      unheard == moved \/ (renamed /\ saved.uid \notin {"", heard}) IN
  /\ ~Synced
  /\ record' = saved
  /\ unconfirmed' = IF moved \/ renamed THEN "" ELSE unconfirmed
  /\ heard' = IF unheard THEN Nobody ELSE heard
  /\ due' = (due \/ unheard)
  /\ probe' = IF moved THEN "connecting" ELSE probe
  /\ thread' = IF ~moved THEN thread
                ELSE [t \in Checks |-> [thread[t] EXCEPT !.live = FALSE, !.missed = @ \cup {"address"}]]
  /\ since' = IF moved THEN since \cup {"address"} ELSE since
  /\ UNCHANGED <<world, saved, info, untied, checking, readyAgain, operations, trusted, lapsed>>

\* A Plex database request: an id still to be tied is compared first, and a hold brings the next check forward.
Ask ==
  /\ Synced
  /\ unconfirmed' = UnconfirmedOnceTied
  /\ untied' = IF ToBeTied /\ Tied THEN "" ELSE untied
  /\ lapsed' = IF ToBeTied /\ Tied /\ info # untied THEN lapsed \cup {untied} ELSE lapsed
  /\ due' = (due \/ ~MaySend)
  /\ <<unconfirmed, untied, due>> # <<unconfirmed', untied', due'>>
  /\ UNCHANGED <<world, saved, record, probe, info, heard, checking, readyAgain, thread, operations, trusted, since>>

Bounded == operations < MaxOperations /\ operations' = operations + 1

\* Job code: the node stopped answering, or refused the work.
ReportUnavailable ==
  /\ Synced /\ Bounded
  /\ heard' = Nobody
  /\ readyAgain' = FALSE
  /\ thread' = [t \in Checks |-> [thread[t] EXCEPT !.fresh = FALSE, !.missed = @ \cup {"report"}]]
  /\ since' = since \cup {"report"}
  /\ \/ due' = TRUE
     \/ probe = "refused" /\ due' = due
  /\ UNCHANGED <<world, saved, record, probe, info, unconfirmed, untied, checking, trusted, lapsed>>

\* The user: another address, or the key typed again, clears the id; a restored file names one.
Edit ==
  /\ Bounded
  /\ \/ \E a \in Addresses : saved' = [addr |-> a, uid |-> ""] /\ trusted' = trusted
     \/ \E m \in Machines \ (Twins \cup {""}) :
          saved' = [saved EXCEPT !.uid = m] /\ trusted' = trusted \cup {m}
  /\ saved' # saved
  /\ UNCHANGED <<world, record, probe, info, idState, due, checking, readyAgain, thread, since, lapsed>>

Move ==
  /\ Bounded
  /\ \/ \E a \in Addresses, m \in Machines \cup {Nobody} : at' = [at EXCEPT ![a] = m] /\ served' = served
     \/ served' = ~served /\ at' = at
  /\ UNCHANGED <<saved, record, probe, info, idState, due, checking, readyAgain, thread, history>>

Check(t) == Begin(t) \/ Hear(t) \/ Outdated(t) \/ Apply(t) \/ Weigh(t) \/ Settle(t) \/ Record(t)
Next ==
  \/ Tick \/ CheckFallsDue \/ Sync \/ Ask \/ ReportUnavailable \/ Edit \/ Move
  \/ \E t \in Checks : CheckNow(t) \/ Check(t)

Spec == Init /\ [][Next]_vars
\* The loop ticks, time passes, checks end, every reader takes over the settings first, and work that waits asks again.
FairSpec ==
  /\ Spec /\ WF_vars(Ask) /\ WF_vars(Tick) /\ WF_vars(CheckFallsDue) /\ WF_vars(Sync)
  /\ \A t \in Checks : WF_vars(Check(t))

-----------------------------------------------------------------------------
\* Properties.

\* While a server that is switched on uses the node, the id a request names (and every other machine refuses) is one the
\* user vouched for, or one that answered beside that server's Plex (_new_uid_confirmed, _tie_new_uid), whatever was
\* read, heard or saved in between; but for the moment in which an id is on its way into the settings (_record_uid), and
\* for an id whose mark is lost: _tie_new_uid takes the answer of another machine for the id's own, or a check of an
\* address the settings have left replaces the mark.
Recording == \E t \in Checks : thread[t].pc = "record"
WorkNamesKnownPlex ==
  MaySend /\ served /\ record.uid # "" /\ ~Recording => record.uid \in trusted \cup Beside \cup lapsed

\* Without those exceptions, as the comment on untied_uid has it: the mark stays until the id is compared.
WorkNamesOnlyKnownPlex == MaySend /\ served /\ record.uid # "" /\ ~Recording => record.uid \in trusted \cup Beside

\* The id that lets work through was heard by a check begun since the node got its address (_merge against a check
\* under way).
HeardAtThisAddress == MaySend /\ record.uid # "" => "address" \notin since

\* The comment on heard_uid: a node reported unavailable stays held until a check begun after the report hears it.
HeardSinceReport == heard \notin {Nobody, ""} => "report" \notin since

\* While a server uses the node, a saved machine that stays at its address gets its work again, after every report,
\* edit, fault or stranger, unless its id waits for the user because it could not be tied to the server's Plex
\* (untied_uid).
Back(m) == served /\ at[saved.addr] = m /\ saved.uid = m /\ (m \in Beside \/ untied # m)
WorkComesBack == \A m \in Machines \ {""} : <>[]Back(m) => <>[]MaySend

\* checked_ready_since_unavailable, by which files return to a node: a machine that stays is found ready again after any
\* report, however the report falls among the checks under way.
VouchedAgain ==
  <>[](Synced /\ at[record.addr] \notin Twins \cup {Nobody, ""}) => <>[](probe = "ready" /\ readyAgain)
=============================================================================
