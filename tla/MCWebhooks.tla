---------------------------- MODULE MCWebhooks ----------------------------
\* Instances of Webhooks: a file to open a batch and one to join it, or to come when it has closed.
EXTENDS Webhooks

CONSTANTS f1, f2

MCFiles == {f1, f2}
=============================================================================
