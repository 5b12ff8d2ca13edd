---------------------------- MODULE UpdateStream ----------------------------
(***************************************************************************)
(* What an account's listener is promised of the events of its boxes: each *)
(* is reported once at most, and with every event before it in its box     *)
(* settled, that is reported too or left out on purpose.  The update       *)
(* manager (openUpdates in packages/mtproto/src/updates/manager.ts) keeps  *)
(* the promise over a stream that loses, repeats and reorders.             *)
(***************************************************************************)
EXTENDS Naturals

CONSTANT Events     \* pairs <<box, position>>

VARIABLES
    times,    \* how often each event has been reported
    settled   \* the events nothing waits for any more

stream == <<times, settled>>

Earlier(e) == {d \in Events : d[1] = e[1] /\ d[2] < e[2]}

Init ==
    /\ times = [e \in Events |-> 0]
    /\ settled \subseteq Events

\* Events that have not been reported are, in one go, and are then settled.
Report(S) ==
    /\ \A e \in S : times[e] = 0
    /\ times' = [e \in Events |-> IF e \in S THEN 1 ELSE times[e]]
    /\ settled \cup S \subseteq settled'
    /\ \A e \in S : Earlier(e) \subseteq settled'

\* Others are given up: the account's own doing, or behind a place to start.
Settle ==
    /\ UNCHANGED times
    /\ settled \subseteq settled'

Next == (\E S \in SUBSET Events : Report(S)) \/ Settle

Spec == Init /\ [][Next]_stream
=============================================================================
