--------------------------- MODULE MCConversations ---------------------------
EXTENDS Conversations

\* Updates and calls of wait are numbered apart.
ThreeUpdates == 1 .. 3
ThreeWaits == 11 .. 13
=============================================================================
