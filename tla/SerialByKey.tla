----------------------------- MODULE SerialByKey -----------------------------
(***************************************************************************)
(* What a queue promises that keeps the tasks of one key in order: a task  *)
(* begins only when every task of its key accepted before it has ended.    *)
(* Tasks are numbered in the order they are accepted in.  The scheduler of *)
(* updates (packages/core/src/scheduler/scheduler.ts) promises it.         *)
(***************************************************************************)
EXTENDS Naturals

CONSTANTS
    Tasks,   \* numbers
    KeyOf,   \* the key of each, or NoKey
    NoKey

VARIABLES accepted, begun, ended

tasks == <<accepted, begun, ended>>

SameKey(t, u) == KeyOf[t] = KeyOf[u] /\ KeyOf[t] # NoKey

Ahead(t) == {u \in accepted : u < t /\ SameKey(t, u)}

Accept(t) ==
    /\ t \notin accepted
    /\ \A u \in accepted : u < t
    /\ accepted' = accepted \cup {t}
    /\ UNCHANGED <<begun, ended>>

Begin(t) ==
    /\ t \in accepted \ begun
    /\ Ahead(t) \subseteq ended
    /\ begun' = begun \cup {t}
    /\ UNCHANGED <<accepted, ended>>

End(t) ==
    /\ t \in begun \ ended
    /\ ended' = ended \cup {t}
    /\ UNCHANGED <<accepted, begun>>

Init == accepted = {} /\ begun = {} /\ ended = {}

Next == \E t \in Tasks : Accept(t) \/ Begin(t) \/ End(t)

Spec == Init /\ [][Next]_tasks
=============================================================================
