--------------------------- MODULE MCNodeRequeue ---------------------------
\* An instance of NodeRequeue: two files, so that one of them may keep the app's worker busy while the node drops the
\* other, and one node, which a file shares with this app's worker only.
EXTENDS NodeRequeue

CONSTANTS f1, f2, n1

TwoFiles == {f1, f2}
OneNode == {n1}
=============================================================================
