---------------------------- MODULE MCNodeTasks ----------------------------
\* Instances of NodeTasks: the bounds are in the configurations.
EXTENDS NodeTasks
=============================================================================
