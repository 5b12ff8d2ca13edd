------------------------------ MODULE Scheduler ------------------------------
(***************************************************************************)
(* The scheduler updates are handled by: createScheduler in                *)
(* packages/core/src/scheduler/scheduler.ts.  The tasks of one key run one *)
(* after another, and no more than Limit of all of them at a time; a       *)
(* producer that finds Capacity of them unfinished waits until they are    *)
(* down to half.                                                           *)
(*                                                                         *)
(* Tasks are numbered in the order run is called for them.  Each action is *)
(* the code between two microtasks: a slot that is given back is counted   *)
(* as free at once, and as taken only when the caller it woke goes on.     *)
(* Work that fails ends as work that succeeds does.                        *)
(***************************************************************************)
EXTENDS Integers, Sequences, FiniteSets

CONSTANTS
    Tasks,      \* numbers
    Keys,
    KeyOf,      \* the key of each task, or NoKey
    NoKey,
    None,
    Limit,      \* most tasks running at once
    Capacity,   \* most tasks accepted before a producer is asked to wait
    Producers

ASSUME TaskAssumption ==
    /\ Tasks \subseteq Nat /\ IsFiniteSet(Tasks) /\ None \notin Tasks
    /\ NoKey \notin Keys
    /\ KeyOf \in [Tasks -> Keys \cup {NoKey}]

\* createScheduler raises the capacity to the limit.
ASSUME LimitAssumption == Limit \in Nat \ {0} /\ Capacity \in Nat /\ Capacity >= Limit

VARIABLES
    phase,    \* per task: how far it has come
    behind,   \* per task: the one whose end it runs after, or None
    tail,     \* per key: the last task of its chain, or None
    running,  \* the slots counted as taken
    slots,    \* waitingForSlot: who waits for one, longest first
    room,     \* waitingForRoom: the producers waiting
    drain,    \* what a call of drain has come to
    wave      \* what it is waiting for

vars == <<phase, behind, tail, running, slots, room, drain, wave>>

Phases == {"new", "behind", "waiting", "woken", "taken", "running", "released", "gone"}

In(P) == {t \in Tasks : phase[t] \in P}

Accepted == {t \in Tasks : phase[t] # "new"}
InFlight == {t \in Tasks : phase[t] \notin {"new", "gone"}}

ResumeAt == IF Capacity < 2 THEN 1 ELSE Capacity \div 2

Enters(t, p) == phase' = [phase EXCEPT ![t] = p]

(***************************************************************************)
(* acquire: a free slot is taken, and otherwise waited for.                *)
(***************************************************************************)
Acquire(t) ==
    \/ /\ running < Limit
       /\ Enters(t, "taken")
       /\ running' = running + 1
       /\ UNCHANGED slots
    \/ /\ running >= Limit
       /\ Enters(t, "waiting")
       /\ slots' = Append(slots, t)
       /\ UNCHANGED running

\* run: a task with a key goes behind its chain, and one without to a slot.
Schedule(t) ==
    /\ phase[t] = "new"
    /\ \A u \in Accepted : u < t
    /\ \/ /\ KeyOf[t] = NoKey
          /\ Acquire(t)
          /\ UNCHANGED <<behind, tail>>
       \/ /\ KeyOf[t] # NoKey
          /\ Enters(t, "behind")
          /\ behind' = [behind EXCEPT ![t] = tail[KeyOf[t]]]
          /\ tail' = [tail EXCEPT ![KeyOf[t]] = t]
          /\ UNCHANGED <<running, slots>>
    /\ UNCHANGED <<room, drain, wave>>

\* The task before it in its chain has ended.
Enter(t) ==
    /\ phase[t] = "behind"
    /\ behind[t] \in {None} \cup In({"gone"})
    /\ Acquire(t)
    /\ UNCHANGED <<behind, tail, room, drain, wave>>

\* A caller that release woke counts the slot it was given.
TakeSlot(t) ==
    /\ phase[t] = "woken"
    /\ Enters(t, "taken")
    /\ running' = running + 1
    /\ UNCHANGED <<behind, tail, slots, room, drain, wave>>

\* Mutation: a chain is forgotten once the last of it has started.
StartForgets(t) ==
    /\ phase[t] = "taken"
    /\ Enters(t, "running")
    /\ tail' = [k \in Keys |-> IF tail[k] = t THEN None ELSE tail[k]]
    /\ UNCHANGED <<behind, running, slots, room, drain, wave>>

Start(t) ==
    /\ phase[t] = "taken"
    /\ Enters(t, "running")
    /\ UNCHANGED <<behind, tail, running, slots, room, drain, wave>>

\* Mutation: a slot is given back and nobody is told.
FinishTellsNobody(t) ==
    /\ phase[t] = "running"
    /\ running' = running - 1
    /\ Enters(t, "released")
    /\ UNCHANGED <<behind, tail, slots, room, drain, wave>>

\* The work of a task ends, and release gives its slot back.
Finish(t) ==
    /\ phase[t] = "running"
    /\ running' = running - 1
    /\ \/ /\ slots = <<>>
          /\ Enters(t, "released")
          /\ UNCHANGED slots
       \/ /\ slots # <<>>
          /\ phase' = [phase EXCEPT ![t] = "released", ![Head(slots)] = "woken"]
          /\ slots' = Tail(slots)
    /\ UNCHANGED <<behind, tail, room, drain, wave>>

Dropped(t) == [k \in Keys |-> IF tail[k] = t THEN None ELSE tail[k]]

\* admitProducers, once t has left the tasks in flight.
Admitted(t) == IF Cardinality(InFlight \ {t}) > ResumeAt THEN room ELSE {}

\* Mutation: a task leaves and the producers are not told.
SettleAdmitsNobody(t) ==
    /\ phase[t] = "released"
    /\ Enters(t, "gone")
    /\ tail' = Dropped(t)
    /\ UNCHANGED <<behind, running, slots, room, drain, wave>>

\* A task's promise settles: it leaves its chain, and the tasks in flight.
Settle(t) ==
    /\ phase[t] = "released"
    /\ Enters(t, "gone")
    /\ tail' = Dropped(t)
    /\ room' = Admitted(t)
    /\ UNCHANGED <<behind, running, slots, drain, wave>>

\* whenReady, where it does not return at once, and its signal.
WhenReady(p) ==
    /\ p \notin room
    /\ Cardinality(InFlight) >= Capacity
    /\ room' = room \cup {p}
    /\ UNCHANGED <<phase, behind, tail, running, slots, drain, wave>>

Abort(p) ==
    /\ p \in room
    /\ room' = room \ {p}
    /\ UNCHANGED <<phase, behind, tail, running, slots, drain, wave>>

(***************************************************************************)
(* drain looks again after each wave, and gives up when it is told to.     *)
(***************************************************************************)
Drain ==
    /\ drain = "no" \/ (drain = "wave" /\ wave \cap InFlight = {})
    /\ wave' = InFlight
    /\ drain' = IF InFlight = {} THEN "done" ELSE "wave"
    /\ UNCHANGED <<phase, behind, tail, running, slots, room>>

Abandon ==
    /\ drain = "wave"
    /\ drain' = "abandoned"
    /\ wave' = {}
    /\ UNCHANGED <<phase, behind, tail, running, slots, room>>

Init ==
    /\ phase = [t \in Tasks |-> "new"]
    /\ behind = [t \in Tasks |-> None]
    /\ tail = [k \in Keys |-> None]
    /\ running = 0 /\ slots = <<>> /\ room = {}
    /\ drain = "no" /\ wave = {}

Microtask(t) == Enter(t) \/ TakeSlot(t) \/ Start(t) \/ Settle(t)

Next ==
    \/ \E t \in Tasks : Schedule(t) \/ Microtask(t) \/ Finish(t)
    \/ \E p \in Producers : WhenReady(p) \/ Abort(p)
    \/ Drain \/ Abandon

Spec == Init /\ [][Next]_vars

-----------------------------------------------------------------------------

TypeOK ==
    /\ phase \in [Tasks -> Phases]
    /\ behind \in [Tasks -> Tasks \cup {None}]
    /\ tail \in [Keys -> Tasks \cup {None}]
    /\ running \in Nat
    /\ slots \in Seq(Tasks)
    /\ room \subseteq Producers
    /\ drain \in {"no", "wave", "done", "abandoned"}
    /\ wave \subseteq Tasks

(***************************************************************************)
(* The order a chat's messages are answered in: the scheduler is a queue   *)
(* serial by key, whatever the slots do and whenever a chain is forgotten. *)
(***************************************************************************)
Serial == INSTANCE SerialByKey WITH
    accepted <- Accepted,
    begun <- In({"running", "released", "gone"}),
    ended <- In({"released", "gone"})

Implements == Serial!Spec

(***************************************************************************)
(* Nobody waits for a slot that is free: while a caller waits, every slot  *)
(* is taken or given to one that has been woken for it.                    *)
(***************************************************************************)
NoSlotIdle == slots # <<>> => running + Cardinality(In({"woken"})) >= Limit

(***************************************************************************)
(* No wakeup of a producer is lost: while one waits for room there is a    *)
(* task in flight, whose end is what lets it go on.                        *)
(***************************************************************************)
NoProducerStranded == room # {} => InFlight # {}
=============================================================================
