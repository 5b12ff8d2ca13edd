---------------------------- MODULE MCPollingBot ----------------------------
EXTENDS PollingBot

CONSTANT k1

\* Two updates of one chat, and two of no chat between them.
OneChat == [t \in Tasks |-> IF t \in {2, 3} THEN NoKey ELSE k1]
=============================================================================
