----------------------------- MODULE MCJobGate -----------------------------
\* Instances of JobGate: fewer slots than jobs, so that they stand in line.
EXTENDS JobGate

TwoJobs == 1..2
TwoPriorities == 1..2

\* The job that was created first does not come first by priority, and only it may be a batch of webhooks.
LaterFirst == Init /\ row[1].prio = 2 /\ row[2].prio = 1 /\ ~row[2].batched
LaterFirstSpec == LaterFirst /\ [][Next]_vars /\ Fairness
=============================================================================
