--------------------------- MODULE MCNodeIdentity ---------------------------
\* Instances of NodeIdentity: the machines and bounds are in the configurations.
EXTENDS NodeIdentity
=============================================================================
