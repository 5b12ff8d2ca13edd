-------------------------- MODULE MCAreaOwnership --------------------------
EXTENDS AreaOwnership

CONSTANTS r1, r2, r3, here, there

\* Two runs in one process and a third in another, over one store.
TwoAndOne == [r \in Runs |-> IF r = r3 THEN there ELSE here]
=============================================================================
