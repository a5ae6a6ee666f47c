--------------------------- MODULE JobAccounting ---------------------------
(***************************************************************************)
(* What a job promises its user, without queues, threads or parking: every *)
(* file of a job is settled at most once, the tally the Jobs page shows    *)
(* counts exactly the settled files, a job completes only when none of its *)
(* files is left, and it ends cancelled only when somebody asked for that. *)
(* Dispatcher.tla is shown to implement this module.                       *)
(***************************************************************************)
EXTENDS Integers, FiniteSets

CONSTANTS
    Jobs,   \* job ids
    Items,  \* every file of every job; two jobs never share an item
    JobOf   \* [Items -> Jobs]

ItemsOf(j) == {i \in Items : JobOf[i] = j}

VARIABLES
    settled,  \* the files whose outcome the job has recorded
    tally,    \* [Jobs -> Nat]: the files done the job reports, successes and failures
    asked,    \* [Jobs -> BOOLEAN]: somebody asked for the job to be cancelled
    row       \* [Jobs -> ...]: the job's status as the user sees it

vars == <<settled, tally, asked, row>>

Init ==
    /\ settled = {}
    /\ tally = [j \in Jobs |-> 0]
    /\ asked = [j \in Jobs |-> FALSE]
    /\ row = [j \in Jobs |-> "active"]

(* A check thread or the dispatch loop records one file's outcome; a job   *)
(* already cancelled may still count a file that was running then.         *)
Settle(i) ==
    /\ i \notin settled
    /\ row[JobOf[i]] # "completed"
    /\ settled' = settled \union {i}
    /\ tally' = [tally EXCEPT ![JobOf[i]] = @ + 1]
    /\ UNCHANGED <<asked, row>>

(* A cancel counts the files it finds unpicked as failed, all in one go.   *)
SettleDrained(j, S) ==
    /\ asked[j]
    /\ S \intersect settled = {}
    /\ settled' = settled \union S
    /\ tally' = [tally EXCEPT ![j] = @ + Cardinality(S)]
    /\ UNCHANGED <<asked, row>>

Ask(j) ==
    /\ asked' = [asked EXCEPT ![j] = TRUE]
    /\ UNCHANGED <<settled, tally, row>>

Complete(j) ==
    /\ row[j] = "active"
    /\ ItemsOf(j) \subseteq settled
    /\ row' = [row EXCEPT ![j] = "completed"]
    \* A request that came too late to stop anything is dropped with the job's flags.
    /\ asked' \in {asked, [asked EXCEPT ![j] = FALSE]}
    /\ UNCHANGED <<settled, tally>>

Cancel(j) ==
    /\ row[j] = "active"
    /\ asked[j]
    /\ row' = [row EXCEPT ![j] = "cancelled"]
    /\ UNCHANGED <<settled, tally, asked>>

Next ==
    \/ \E i \in Items : Settle(i)
    \/ \E j \in Jobs : \/ \E S \in SUBSET ItemsOf(j) : SettleDrained(j, S)
                       \/ Ask(j)
                       \/ Complete(j)
                       \/ Cancel(j)

Spec == Init /\ [][Next]_vars
=============================================================================
