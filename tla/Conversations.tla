---------------------------- MODULE Conversations ----------------------------
(***************************************************************************)
(* One conversation: the turns its updates take (Turn and middleware in    *)
(* packages/core/src/conversation/conversation.ts) through the lock of its *)
(* key (ConversationLocks in identity.ts), and the wait a handler may have *)
(* open for the next update (WaiterRegister in waiters.ts).  Keys share    *)
(* nothing but the closing of the register, so one of them is enough.      *)
(*                                                                         *)
(* An update holds the turn while it is handled, lends it to the others    *)
(* while a handler waits, and takes it again behind them.  Each action is  *)
(* the code between two awaits.  What a predicate of a wait decides, and   *)
(* whether an update it looked at stops there, is any choice.              *)
(***************************************************************************)
EXTENDS Naturals, FiniteSets

CONSTANTS
    Updates,   \* numbers, in the order the transport receives them
    Waits,     \* calls of wait: numbers, none of them an update's
    None,
    AtOnce,    \* waits a handler has under way at once, at most
    InTurn     \* whether the transport hands over one update of a chat at a time

ASSUME ConversationAssumption ==
    /\ Updates \subseteq Nat /\ Waits \subseteq Nat /\ Updates \cap Waits = {}
    /\ None \notin Updates \cup Waits
    /\ AtOnce \in Nat /\ InTurn \in BOOLEAN

Tickets == Updates \cup Waits

VARIABLES
    stage,    \* per update: how far its handling has come
    asked,    \* per update: the wait it was offered to, or None
    keeps,    \* per update: the ticket its turn has to give back, or None
    wait,     \* per wait: how far it has come
    caller,   \* per wait: the update whose handler called it, or None
    answer,   \* per wait: the update it was given, or None
    pending,  \* the wait that is registered, or None
    closed,   \* whether the register refuses waits
    ticket,   \* per ticket: its place in the lock's queue
    ahead,    \* per ticket: the one whose release it comes after, or None
    tail      \* the last of the lock's queue, or None

update == <<stage, asked>>
waiter == <<wait, caller, answer, pending, closed>>
lock == <<ticket, ahead, tail>>
vars == <<update, keeps, waiter, lock>>

-----------------------------------------------------------------------------
(* The lock of the conversation's key.                                     *)

Released == {t \in Tickets : ticket[t] = "released"}

\* acquire: t is behind whatever is queued.
Queue(t) ==
    /\ ticket' = [ticket EXCEPT ![t] = "queued"]
    /\ ahead' = [ahead EXCEPT ![t] = tail]
    /\ tail' = t

Comes(t) == ticket[t] = "queued" /\ ahead[t] \in {None} \cup Released

Holds(t) == ticket' = [ticket EXCEPT ![t] = "held"] /\ UNCHANGED <<ahead, tail>>

\* Mutation: the queue is dropped by whoever is released, last of it or not.
ReleaseDrops(t) ==
    /\ ticket' = [ticket EXCEPT ![t] = "released"]
    /\ tail' = None
    /\ UNCHANGED ahead

\* Mutation: the queue is never dropped.
ReleaseKeeps(t) ==
    /\ ticket' = [ticket EXCEPT ![t] = "released"]
    /\ UNCHANGED <<ahead, tail>>

\* What acquire returned is called; the queue is dropped if nobody is behind.
Release(t) ==
    /\ ticket' = [ticket EXCEPT ![t] = "released"]
    /\ tail' = IF tail = t THEN None ELSE tail
    /\ UNCHANGED ahead

-----------------------------------------------------------------------------
(* Turns.                                                                  *)

Under(u, P) == {w \in Waits : caller[w] = u /\ wait[w] \in P}

\* How many waits a turn counts, and those that have not come back to the handler.
Waiting(u) == Under(u, {"open", "settled"})
Outstanding(u) == Under(u, {"open", "settled", "queued"})

Goes(u, s) == stage' = [stage EXCEPT ![u] = s]

\* The ticket the turn has is released, if it has one.
GiveBack(u) ==
    /\ keeps' = [keeps EXCEPT ![u] = None]
    /\ \/ keeps[u] \in Tickets /\ Release(keeps[u])
       \/ keeps[u] = None /\ UNCHANGED lock

\* end: the turn is over, and what comes for it later is not kept.
End(u) == Goes(u, "done") /\ GiveBack(u)

Receive(u) ==
    /\ stage[u] = "new"
    /\ \A v \in Updates : v < u => stage[v] # "new"
    /\ Goes(u, "received")
    /\ UNCHANGED <<asked, keeps, waiter, lock>>

\* The middleware is reached.  A polling bot's scheduler first ends what is before.
Enter(u) ==
    /\ stage[u] = "received"
    /\ \A v \in Updates : v < u => stage[v] \in IF InTurn THEN {"done"} ELSE {"done", "queued", "offered", "handling"}
    /\ Goes(u, "queued")
    /\ Queue(u)
    /\ UNCHANGED <<asked, keeps, waiter>>

\* The turn is taken, and the update offered to the wait that is registered.
Offer(u) ==
    /\ stage[u] = "queued"
    /\ Comes(u)
    /\ Holds(u)
    /\ keeps' = [keeps EXCEPT ![u] = u]
    /\ asked' = [asked EXCEPT ![u] = pending]
    /\ Goes(u, IF pending = None THEN "handling" ELSE "offered")
    /\ UNCHANGED waiter

-----------------------------------------------------------------------------
(* Waits.                                                                  *)

Settled(P) == [w \in Waits |-> IF w \in P THEN "settled" ELSE wait[w]]

\* What an offer came to: the wait is answered, or fails, or stays as it was.
Told(u) ==
    \/ UNCHANGED waiter
    \/ /\ asked[u] = pending
       /\ wait' = Settled({pending})
       /\ answer' \in {answer, [answer EXCEPT ![pending] = u]}
       /\ pending' = None
       /\ UNCHANGED <<caller, closed>>

\* The predicates of the wait have been asked: the update stops here or goes on.
Answered(u) ==
    /\ stage[u] = "offered"
    /\ Told(u)
    /\ \/ End(u)
       \/ Goes(u, "handling") /\ UNCHANGED <<keeps, lock>>
    /\ UNCHANGED asked

Opens(u, w) ==
    /\ wait[w] = "new" /\ \A v \in Waits : v < w => wait[v] # "new"
    /\ Cardinality(Outstanding(u)) < AtOnce
    /\ caller' = [caller EXCEPT ![w] = u]

\* Mutation: the turn is held through the wait.
LendsNothing(u) == UNCHANGED <<keeps, lock>>

\* A turn that is over has nothing to give back.
Lends(u) == GiveBack(u)

\* Mutation: a wait is registered while the client stops.
WaitAnyway(u, w) ==
    /\ stage[u] \in {"handling", "done"}
    /\ Opens(u, w)
    /\ wait' = [Settled({pending}) EXCEPT ![w] = "open"]
    /\ pending' = w
    /\ Lends(u)
    /\ UNCHANGED <<update, answer, closed>>

(***************************************************************************)
(* wait, in the turn of u or by a handle kept past it.  The wait that was  *)
(* registered fails; this one is refused when the register is closed or    *)
(* its signal is already aborted.                                          *)
(***************************************************************************)
Wait(u, w) ==
    /\ stage[u] \in {"handling", "done"}
    /\ Opens(u, w)
    /\ \/ /\ ~closed
          /\ wait' = [Settled({pending}) EXCEPT ![w] = "open"]
          /\ pending' = w
       \/ /\ wait' = Settled({pending, w})
          /\ pending' = None
    /\ Lends(u)
    /\ UNCHANGED <<update, answer, closed>>

\* Its time is up, its signal aborted, or the conversation moves on.
GiveUp ==
    /\ pending # None
    /\ wait' = Settled({pending})
    /\ pending' = None
    /\ UNCHANGED <<update, keeps, caller, answer, closed, lock>>

Close ==
    /\ ~closed
    /\ closed' = TRUE
    /\ wait' = Settled({pending})
    /\ pending' = None
    /\ UNCHANGED <<update, keeps, caller, answer, lock>>

Open ==
    /\ closed
    /\ closed' = FALSE
    /\ UNCHANGED <<update, keeps, wait, caller, answer, pending, lock>>

BackTo(w, s) == wait' = [wait EXCEPT ![w] = s]

\* A wait is over: the last one of a turn that is open queues for it again.
Back(w) ==
    /\ wait[w] = "settled"
    /\ IF stage[caller[w]] = "handling" /\ Waiting(caller[w]) = {w}
       THEN BackTo(w, "queued") /\ Queue(w)
       ELSE BackTo(w, "back") /\ UNCHANGED lock
    /\ UNCHANGED <<update, keeps, caller, answer, pending, closed>>

\* Whether the turn is this wait's to keep: the update may have finished since.
Wanted(u) == stage[u] = "handling" /\ Waiting(u) = {} /\ keeps[u] = None

\* Mutation: the turn is kept for an update that has finished.
RegainAnyway(w) ==
    /\ wait[w] = "queued"
    /\ Comes(w)
    /\ BackTo(w, "back")
    /\ Holds(w)
    /\ keeps' = [keeps EXCEPT ![caller[w]] = w]
    /\ UNCHANGED <<update, caller, answer, pending, closed>>

Regain(w) ==
    /\ wait[w] = "queued"
    /\ Comes(w)
    /\ BackTo(w, "back")
    /\ IF Wanted(caller[w])
       THEN Holds(w) /\ keeps' = [keeps EXCEPT ![caller[w]] = w]
       ELSE Release(w) /\ UNCHANGED keeps
    /\ UNCHANGED <<update, caller, answer, pending, closed>>

\* The handlers of an update are done, with whatever they left waiting.
Finish(u) ==
    /\ stage[u] = "handling"
    /\ End(u)
    /\ UNCHANGED <<asked, waiter>>

-----------------------------------------------------------------------------

Init ==
    /\ stage = [u \in Updates |-> "new"]
    /\ asked = [u \in Updates |-> None]
    /\ keeps = [u \in Updates |-> None]
    /\ wait = [w \in Waits |-> "new"]
    /\ caller = [w \in Waits |-> None]
    /\ answer = [w \in Waits |-> None]
    /\ pending = None /\ closed = FALSE
    /\ ticket = [t \in Tickets |-> "none"]
    /\ ahead = [t \in Tickets |-> None]
    /\ tail = None

Next ==
    \/ \E u \in Updates :
          \/ Receive(u) \/ Enter(u) \/ Offer(u) \/ Answered(u) \/ Finish(u)
          \/ \E w \in Waits : Wait(u, w)
    \/ \E w \in Waits : Back(w) \/ Regain(w)
    \/ GiveUp \/ Close \/ Open

Spec == Init /\ [][Next]_vars

\* Promises that are resolved go on, predicates answer, and a handler that waits
\* for nothing ends.  A wait need not have a deadline.
FairSpec ==
    /\ Spec
    /\ \A u \in Updates :
          /\ WF_vars(Enter(u)) /\ WF_vars(Offer(u)) /\ WF_vars(Answered(u))
          /\ WF_vars(Outstanding(u) = {} /\ Finish(u))
    /\ \A w \in Waits : WF_vars(Back(w)) /\ WF_vars(Regain(w))

-----------------------------------------------------------------------------

TypeOK ==
    /\ stage \in [Updates -> {"new", "received", "queued", "offered", "handling", "done"}]
    /\ asked \in [Updates -> Waits \cup {None}]
    /\ keeps \in [Updates -> Tickets \cup {None}]
    /\ wait \in [Waits -> {"new", "open", "settled", "queued", "back"}]
    /\ caller \in [Waits -> Updates \cup {None}]
    /\ answer \in [Waits -> Updates \cup {None}]
    /\ pending \in Waits \cup {None}
    /\ closed \in BOOLEAN
    /\ ticket \in [Tickets -> {"none", "queued", "held", "released"}]
    /\ ahead \in [Tickets -> Tickets \cup {None}]
    /\ tail \in Tickets \cup {None}

Running(u) == stage[u] = "offered" \/ (stage[u] = "handling" /\ Outstanding(u) = {})

(***************************************************************************)
(* The updates of a conversation are handled one at a time: no handler     *)
(* goes on, after a wait or before one, alongside another that is not      *)
(* waiting, whatever was settled, replaced or let go meanwhile.            *)
(***************************************************************************)
RunsAlone == \A u, v \in Updates : Running(u) /\ Running(v) => u = v

(***************************************************************************)
(* Updates get the turn in the order they came in, whoever queues for it   *)
(* again between them after a wait, and whether or not the lock was        *)
(* dropped meanwhile (acquire: once everything already queued for this key *)
(* has finished).                                                          *)
(***************************************************************************)
NoneOvertakes ==
    \A u, v \in Updates :
        v < u /\ stage[u] \in {"offered", "handling", "done"} =>
            stage[v] \in {"offered", "handling", "done"}

(***************************************************************************)
(* The lock is remembered only while somebody queues for it or holds it,   *)
(* and a turn is never kept for an update that has ended.                  *)
(***************************************************************************)
NoLockLeaked ==
    /\ tail # None => \E t \in Tickets : ticket[t] \in {"queued", "held"}
    /\ \A u \in Updates : stage[u] = "done" => keeps[u] = None

(***************************************************************************)
(* A client that stops waits for no answer: nothing is registered between  *)
(* the closing of the register and its opening again.                      *)
(***************************************************************************)
NoWaitWhileClosed == closed => pending = None

(***************************************************************************)
(* Every update that is received gets its turn, however long the handlers  *)
(* before it wait for an answer: it may be the answer itself.              *)
(***************************************************************************)
EveryoneIsLetIn ==
    \A u \in Updates : stage[u] = "received" ~> stage[u] \in {"offered", "handling", "done"}

(***************************************************************************)
(* A handler whose wait was answered or has failed goes on.                *)
(***************************************************************************)
WaitComesBack == \A w \in Waits : wait[w] = "settled" ~> wait[w] = "back"
=============================================================================
