---------------------------- MODULE MCDispatcher ----------------------------
(* Small instances of Dispatcher for TLC. *)
EXTENDS DispatcherInvariant

CONSTANTS j1, j2, a1, a2, b1

\* Two files for the first job, one for the second.
MCJobOf == [i \in Items |-> IF i \in {a1, a2} THEN j1 ELSE j2]

\* The hours close on the first job only, once or twice.
MCCloseOnce == [j \in Jobs |-> IF j = j1 THEN 1 ELSE 0]
MCCloseTwice == [j \in Jobs |-> IF j = j1 THEN 2 ELSE 0]
=============================================================================
