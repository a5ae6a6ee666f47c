----------------------------- MODULE MCParking -----------------------------
\* Instances of Parking: two files, so that a checkpoint may hold one of them.
EXTENDS Parking

TwoFiles == {"f1", "f2"}
=============================================================================
