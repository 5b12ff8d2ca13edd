----------------------------- MODULE MCUpdates -----------------------------
EXTENDS Updates, TLC

CONSTANTS c1, f1, f2, a1, a2

\* The second step of the common box takes two counts, as a deletion of two messages does.
LogLong == [b \in Boxes |-> IF b = Common THEN {2, 4, 5} ELSE {}]
LogShort == [b \in Boxes |-> IF b = Common THEN {2, 4} ELSE {}]
LogChannel == [b \in Boxes |-> IF b = Common THEN {} ELSE {2, 4}]
CountOf == [b \in Boxes |->
              [p \in Log[b] |-> p - Highest({Origin} \cup {q \in Log[b] : q < p})]]

\* Updates of no container, and containers of one number each.
Single == {<<0, 0>>}
Numbered == {<<1, 1>>, <<2, 2>>}

OwnShort == {<<Common, 4>>}

StartAtOrigin == [b \in Boxes |-> Origin]
StartUnfollowed == [b \in Boxes |-> IF b = Common THEN Origin ELSE NoPts]

Interchangeable == Permutations(Attempts) \cup Permutations(Feeds)
=============================================================================
