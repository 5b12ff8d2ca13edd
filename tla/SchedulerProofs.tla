--------------------------- MODULE SchedulerProofs ---------------------------
(***************************************************************************)
(* What holds of the scheduler for any number of tasks, keys, slots and    *)
(* producers: it is a queue serial by key, no slot idles while a task      *)
(* waits for one, and no producer waits on an empty scheduler.             *)
(***************************************************************************)
EXTENDS Scheduler, TLAPS, FiniteSetTheorems

SameChain(u, t) == KeyOf[u] = KeyOf[t] /\ KeyOf[u] # NoKey

(***************************************************************************)
(* A task behind another of its key knows one at least as late to wait     *)
(* for, and until it has ended has not gone further than that.             *)
(***************************************************************************)
Chains ==
    \A u, t \in Tasks :
        SameChain(u, t) /\ u < t /\ u \in InFlight /\ t \in Accepted =>
            /\ phase[t] = "behind"
            /\ behind[t] \in Tasks
            /\ u <= behind[t] /\ behind[t] < t
            /\ SameChain(u, behind[t])

\* A key with a task in flight has a tail, and no task of it is later.
Tails ==
    \A u \in InFlight :
        KeyOf[u] # NoKey =>
            /\ tail[KeyOf[u]] \in Accepted
            /\ u <= tail[KeyOf[u]]
            /\ SameChain(u, tail[KeyOf[u]])

\* Who waits for a slot waits once.
Waits ==
    /\ \A i \in 1..Len(slots) : phase[slots[i]] = "waiting"
    /\ \A i, j \in 1..Len(slots) : slots[i] = slots[j] => i = j

Counted == running = Cardinality(In({"taken", "running"}))

Slots == Waits /\ Counted /\ NoSlotIdle

IInv == TypeOK /\ Chains /\ Tails /\ Slots /\ NoProducerStranded

-----------------------------------------------------------------------------
(* Counting tasks.                                                         *)

LEMMA InFinite == ASSUME NEW P PROVE IsFiniteSet(In(P)) /\ Cardinality(In(P)) \in Nat
<1>1. IsFiniteSet(In(P))
  BY TaskAssumption, FS_Subset DEF In
<1> QED
  BY <1>1, FS_CardinalityType

LEMMA Joins ==
  ASSUME NEW P, NEW t \in Tasks, t \notin In(P), In(P)' = In(P) \cup {t}
  PROVE  Cardinality(In(P))' = Cardinality(In(P)) + 1
BY InFinite, FS_AddElement

LEMMA Leaves ==
  ASSUME NEW P, NEW t \in Tasks, t \in In(P), In(P)' = In(P) \ {t}
  PROVE  Cardinality(In(P))' = Cardinality(In(P)) - 1
BY InFinite, FS_RemoveElement

LEMMA InFlightFinite ==
  /\ IsFiniteSet(InFlight)
  /\ \A t : IsFiniteSet(InFlight \ {t})
BY TaskAssumption, FS_Subset DEF InFlight

-----------------------------------------------------------------------------
(* Slots.                                                                  *)

LEMMA AcquireKeepsSlots ==
  ASSUME TypeOK, Slots, NEW t \in Tasks,
         phase[t] \in {"new", "behind"}, Acquire(t)
  PROVE  /\ Slots'
         /\ phase' \in [Tasks -> Phases] /\ running' \in Nat /\ slots' \in Seq(Tasks)
<1> USE DEF In
<1>1. CASE /\ running < Limit /\ Enters(t, "taken")
           /\ running' = running + 1 /\ UNCHANGED slots
  <2>1. phase' = [phase EXCEPT ![t] = "taken"]
    BY <1>1 DEF Enters
  <2>2. In({"taken", "running"})' = In({"taken", "running"}) \cup {t}
        /\ t \notin In({"taken", "running"})
    BY <2>1 DEF TypeOK
  <2>3. In({"woken"})' = In({"woken"})
    BY <2>1 DEF TypeOK
  <2>4. Counted'
    BY <1>1, <2>2, Joins DEF Slots, Counted
  <2>5. Waits'
    BY <1>1, <2>1 DEF Slots, Waits, TypeOK
  <2>6. NoSlotIdle'
    <3>1. Cardinality(In({"woken"})) \in Nat /\ running \in Nat /\ Limit \in Nat
      BY InFinite, LimitAssumption DEF TypeOK
    <3>2. Cardinality(In({"woken"}))' = Cardinality(In({"woken"}))
      BY <2>3
    <3> QED
      BY <1>1, <3>1, <3>2 DEF Slots, NoSlotIdle
  <2> QED
    BY <1>1, <2>1, <2>4, <2>5, <2>6 DEF TypeOK, Slots, Phases
<1>2. CASE /\ running >= Limit /\ Enters(t, "waiting")
           /\ slots' = Append(slots, t) /\ UNCHANGED running
  <2>1. phase' = [phase EXCEPT ![t] = "waiting"]
    BY <1>2 DEF Enters
  <2>2. In({"taken", "running"})' = In({"taken", "running"})
    BY <2>1 DEF TypeOK
  <2>3. Counted'
    BY <1>2, <2>2 DEF Slots, Counted
  <2>4. Waits'
    <3>1. \A i \in 1..Len(slots) : slots[i] # t
      BY DEF Slots, Waits
    <3>2. /\ Len(slots') = Len(slots) + 1
          /\ slots'[Len(slots) + 1] = t
          /\ \A i \in 1..Len(slots) : slots'[i] = slots[i]
      BY <1>2 DEF TypeOK
    <3>3. \A i \in 1..Len(slots) : slots[i] \in Tasks
      BY DEF TypeOK
    <3>4. \A i \in 1..Len(slots') : i \in 1..Len(slots) \/ i = Len(slots) + 1
      BY <3>2 DEF TypeOK
    <3>5. \A i \in 1..Len(slots') : phase'[slots'[i]] = "waiting"
      BY <2>1, <3>1, <3>2, <3>3, <3>4 DEF Slots, Waits, TypeOK
    <3>6. \A i, j \in 1..Len(slots') : slots'[i] = slots'[j] => i = j
      BY <3>1, <3>2, <3>4 DEF Slots, Waits
    <3> QED
      BY <3>5, <3>6 DEF Waits
  <2>5. NoSlotIdle'
    <3>1. In({"woken"})' = In({"woken"})
      BY <2>1 DEF TypeOK
    <3>2. Cardinality(In({"woken"})) \in Nat
      BY InFinite
    <3>3. Cardinality(In({"woken"}))' = Cardinality(In({"woken"}))
      BY <3>1
    <3> QED
      BY <1>2, <3>2, <3>3, LimitAssumption DEF NoSlotIdle, TypeOK
  <2> QED
    BY <1>2, <2>1, <2>3, <2>4, <2>5 DEF TypeOK, Slots, Phases
<1> QED
  BY <1>1, <1>2 DEF Acquire

LEMMA TakeSlotKeepsSlots ==
  ASSUME TypeOK, Slots, NEW t \in Tasks, TakeSlot(t)
  PROVE  Slots' /\ phase' \in [Tasks -> Phases] /\ running' \in Nat
<1> USE DEF In
<1>1. phase' = [phase EXCEPT ![t] = "taken"] /\ phase[t] = "woken"
  BY DEF TakeSlot, Enters
<1>2. In({"taken", "running"})' = In({"taken", "running"}) \cup {t}
      /\ t \notin In({"taken", "running"})
  BY <1>1 DEF TypeOK
<1>3. In({"woken"})' = In({"woken"}) \ {t} /\ t \in In({"woken"})
  BY <1>1 DEF TypeOK
<1>4. Counted'
  BY <1>2, Joins DEF TakeSlot, Slots, Counted
<1>5. Waits'
  BY <1>1 DEF TakeSlot, Slots, Waits, TypeOK
<1>6. NoSlotIdle'
  <2>1. Cardinality(In({"woken"})) \in Nat
    BY InFinite
  <2>2. Cardinality(In({"woken"}))' = Cardinality(In({"woken"})) - 1
    BY <1>3, Leaves
  <2> QED
    BY <2>1, <2>2, LimitAssumption DEF TakeSlot, Slots, NoSlotIdle, TypeOK
<1> QED
  BY <1>1, <1>4, <1>5, <1>6 DEF TakeSlot, Slots, TypeOK, Phases

LEMMA StartKeepsSlots ==
  ASSUME TypeOK, Slots, NEW t \in Tasks, Start(t)
  PROVE  Slots' /\ phase' \in [Tasks -> Phases]
<1> USE DEF In
<1>1. phase' = [phase EXCEPT ![t] = "running"] /\ phase[t] = "taken"
  BY DEF Start, Enters
<1>2. In({"taken", "running"})' = In({"taken", "running"}) /\ In({"woken"})' = In({"woken"})
  BY <1>1 DEF TypeOK
<1>3. Counted' /\ NoSlotIdle'
  <2> HIDE DEF In
  <2> QED
    BY <1>2 DEF Start, Slots, Counted, NoSlotIdle
<1>4. Waits'
  BY <1>1 DEF Start, Slots, Waits, TypeOK
<1> QED
  BY <1>1, <1>3, <1>4 DEF Slots, TypeOK, Phases

LEMMA SettleKeepsSlots ==
  ASSUME TypeOK, Slots, NEW t \in Tasks, Settle(t)
  PROVE  Slots' /\ phase' \in [Tasks -> Phases]
<1> USE DEF In
<1>1. phase' = [phase EXCEPT ![t] = "gone"] /\ phase[t] = "released"
  BY DEF Settle, Enters
<1>2. In({"taken", "running"})' = In({"taken", "running"}) /\ In({"woken"})' = In({"woken"})
  BY <1>1 DEF TypeOK
<1>3. Counted' /\ NoSlotIdle'
  <2> HIDE DEF In
  <2> QED
    BY <1>2 DEF Settle, Slots, Counted, NoSlotIdle
<1>4. Waits'
  BY <1>1 DEF Settle, Slots, Waits, TypeOK
<1> QED
  BY <1>1, <1>3, <1>4 DEF Slots, TypeOK, Phases

\* What the end of t does to the others.
EndsAs(t) ==
    \A u \in Tasks :
        \/ phase'[u] = phase[u]
        \/ u = t /\ phase'[u] = "released"
        \/ phase[u] = "waiting" /\ phase'[u] = "woken"

LEMMA FinishKeepsSlots ==
  ASSUME TypeOK, Slots, NEW t \in Tasks, Finish(t)
  PROVE  /\ Slots'
         /\ phase' \in [Tasks -> Phases] /\ running' \in Nat /\ slots' \in Seq(Tasks)
         /\ EndsAs(t)
<1> USE DEF In
<1>0. /\ phase[t] = "running" /\ running' = running - 1
      /\ running \in Nat /\ Limit \in Nat
  BY LimitAssumption DEF Finish, TypeOK
<1>1. t \in In({"taken", "running"})
  BY <1>0
<1>2. running' \in Nat
  <2>1. IsFiniteSet(In({"taken", "running"})) /\ Cardinality(In({"taken", "running"})) \in Nat
    BY InFinite
  <2>2. Cardinality(In({"taken", "running"})) # 0
    BY <1>1, <2>1, FS_EmptySet
  <2> QED
    BY <1>0, <2>1, <2>2 DEF Slots, Counted
<1>3. CASE slots = <<>> /\ Enters(t, "released") /\ UNCHANGED slots
  <2>1. phase' = [phase EXCEPT ![t] = "released"]
    BY <1>3 DEF Enters
  <2>2. In({"taken", "running"})' = In({"taken", "running"}) \ {t}
    BY <2>1 DEF TypeOK
  <2>3. Counted'
    BY <1>0, <1>1, <2>2, Leaves DEF Slots, Counted
  <2> QED
    BY <1>0, <1>2, <1>3, <2>1, <2>3 DEF Slots, Waits, NoSlotIdle, TypeOK, Phases, EndsAs
<1>4. CASE /\ slots # <<>>
           /\ phase' = [phase EXCEPT ![t] = "released", ![Head(slots)] = "woken"]
           /\ slots' = Tail(slots)
  <2> DEFINE w == slots[1]
  <2>1. /\ 1 \in 1..Len(slots) /\ Head(slots) = w /\ w \in Tasks /\ Len(slots) \in Nat
        /\ slots' \in Seq(Tasks) /\ Len(slots') = Len(slots) - 1
        /\ \A i \in 1..Len(slots') : slots'[i] = slots[i + 1] /\ i + 1 \in 1..Len(slots)
    BY <1>4 DEF TypeOK
  <2>2. phase[w] = "waiting" /\ w # t
    BY <1>0, <2>1 DEF Slots, Waits
  <2>3. phase' = [phase EXCEPT ![t] = "released", ![w] = "woken"]
    BY <1>4, <2>1
  <2>4. In({"taken", "running"})' = In({"taken", "running"}) \ {t}
    BY <2>1, <2>2, <2>3 DEF TypeOK
  <2>5. In({"woken"})' = In({"woken"}) \cup {w} /\ w \notin In({"woken"})
    BY <1>0, <2>1, <2>2, <2>3 DEF TypeOK
  <2>6. Counted'
    BY <1>0, <1>1, <2>4, Leaves DEF Slots, Counted
  <2>7. NoSlotIdle'
    <3>1. Cardinality(In({"woken"})) \in Nat
      BY InFinite
    <3>2. Cardinality(In({"woken"}))' = Cardinality(In({"woken"})) + 1
      BY <2>1, <2>5, Joins
    <3>3. running + Cardinality(In({"woken"})) >= Limit
      BY <1>4 DEF Slots, NoSlotIdle
    <3> QED
      BY <1>0, <3>1, <3>2, <3>3 DEF NoSlotIdle
  <2>8. Waits'
    <3>1. \A i \in 1..Len(slots') : slots'[i] # w /\ phase[slots'[i]] = "waiting"
      <4> SUFFICES ASSUME NEW i \in 1..Len(slots')
                   PROVE  slots'[i] # w /\ phase[slots'[i]] = "waiting"
        OBVIOUS
      <4>1. slots'[i] = slots[i + 1] /\ i + 1 \in 1..Len(slots) /\ i + 1 # 1
        BY <2>1
      <4> QED
        BY <2>1, <4>1 DEF Slots, Waits
    <3>2. \A i \in 1..Len(slots') : slots'[i] \in Tasks
      BY <2>1
    <3>3. \A i \in 1..Len(slots') : phase'[slots'[i]] = "waiting"
      BY <1>0, <2>3, <3>1, <3>2 DEF TypeOK
    <3>4. \A i, j \in 1..Len(slots') : slots'[i] = slots'[j] => i = j
      BY <2>1 DEF Slots, Waits
    <3> QED
      BY <3>3, <3>4 DEF Waits
  <2>9. phase' \in [Tasks -> Phases]
    BY <2>3 DEF TypeOK, Phases
  <2>10. EndsAs(t)
    BY <2>1, <2>2, <2>3 DEF TypeOK, EndsAs
  <2> QED
    BY <1>2, <2>1, <2>6, <2>7, <2>8, <2>9, <2>10 DEF Slots
<1> QED
  BY <1>3, <1>4 DEF Finish

-----------------------------------------------------------------------------
(* Chains.                                                                 *)

\* What a step may do to a task that is neither accepted nor ended by it.
Goes(t) ==
    \/ phase'[t] = phase[t]
    \/ phase[t] \notin {"new", "behind", "gone"} /\ phase'[t] \notin {"new", "behind"}
    \/ /\ phase[t] = "behind" /\ behind[t] \in {None} \cup In({"gone"})
       /\ phase'[t] \notin {"new", "behind", "gone"}

LEMMA GoingKeepsChains ==
  ASSUME TypeOK, Chains, \A t \in Tasks : Goes(t), UNCHANGED behind
  PROVE  Chains' /\ Accepted' = Accepted /\ InFlight' \subseteq InFlight
<1>1. Accepted' = Accepted /\ InFlight' \subseteq InFlight
  BY DEF Goes, Accepted, InFlight
<1>2. ASSUME NEW u \in Tasks, NEW t \in Tasks,
             SameChain(u, t), u < t, u \in InFlight, t \in Accepted
      PROVE  phase'[t] = "behind"
  <2>1. /\ phase[t] = "behind" /\ behind[t] \in Tasks
        /\ u <= behind[t] /\ SameChain(u, behind[t])
    BY <1>2 DEF Chains
  <2>2. phase[behind[t]] # "gone"
    <3>1. SUFFICES ASSUME phase[behind[t]] = "gone" PROVE FALSE
      OBVIOUS
    <3>2. behind[t] \in Accepted /\ u # behind[t]
      BY <1>2, <2>1, <3>1 DEF Accepted, InFlight
    <3>3. u < behind[t]
      <4>1. u \in Nat /\ behind[t] \in Nat
        BY <2>1, TaskAssumption
      <4> QED
        BY <2>1, <3>2, <4>1
    <3> QED
      BY <1>2, <2>1, <3>1, <3>2, <3>3 DEF Chains
  <2> QED
    BY <2>1, <2>2, TaskAssumption DEF Goes, In
<1> QED
  BY <1>1, <1>2 DEF Chains, SameChain

LEMMA ScheduleKeepsChains ==
  ASSUME TypeOK, Chains, Tails, NEW t \in Tasks, Schedule(t)
  PROVE  Chains' /\ Tails'
<1>1. /\ phase[t] = "new" /\ \A u \in Accepted : u < t
      /\ \A u \in Tasks \ {t} : phase'[u] = phase[u]
      /\ phase'[t] \in Phases \ {"new", "gone"}
  BY DEF Schedule, Acquire, Enters, TypeOK, Phases
<1>2. /\ Accepted' = Accepted \cup {t}
      /\ InFlight' = InFlight \cup {t}
      /\ InFlight \subseteq Accepted /\ t \notin Accepted /\ Accepted \subseteq Tasks
  BY <1>1 DEF Accepted, InFlight
<1>3. \A u \in Tasks \ {t} : behind'[u] = behind[u]
  BY DEF Schedule, TypeOK
<1>4. KeyOf[t] # NoKey => /\ phase'[t] = "behind"
                          /\ behind'[t] = tail[KeyOf[t]]
                          /\ tail' = [tail EXCEPT ![KeyOf[t]] = t]
                          /\ KeyOf[t] \in Keys
  BY TaskAssumption DEF Schedule, Enters, TypeOK
<1>5. KeyOf[t] = NoKey => tail' = tail
  BY DEF Schedule
<1>6. Chains'
  <2> SUFFICES ASSUME NEW u \in Tasks, NEW v \in Tasks,
                      SameChain(u, v), u < v, u \in InFlight', v \in Accepted'
               PROVE  /\ phase'[v] = "behind" /\ behind'[v] \in Tasks
                      /\ u <= behind'[v] /\ behind'[v] < v /\ SameChain(u, behind'[v])
    BY DEF Chains, SameChain
  <2>1. CASE v # t
    <3>1. u # t
      BY <1>1, <1>2, <2>1, TaskAssumption
    <3> QED
      BY <1>1, <1>2, <1>3, <2>1, <3>1 DEF Chains
  <2>2. CASE v = t
    <3>1. u \in InFlight /\ KeyOf[u] = KeyOf[t] /\ KeyOf[t] # NoKey
      BY <1>2, <2>2, TaskAssumption DEF SameChain
    <3>2. /\ tail[KeyOf[u]] \in Accepted /\ u <= tail[KeyOf[u]]
          /\ SameChain(u, tail[KeyOf[u]])
      BY <3>1 DEF Tails
    <3> QED
      BY <1>1, <1>2, <1>4, <2>2, <3>1, <3>2
  <2> QED
    BY <2>1, <2>2
<1>7. Tails'
  <2> SUFFICES ASSUME NEW u \in InFlight', KeyOf[u] # NoKey
               PROVE  /\ tail'[KeyOf[u]] \in Accepted' /\ u <= tail'[KeyOf[u]]
                      /\ SameChain(u, tail'[KeyOf[u]])
    BY DEF Tails, SameChain
  <2>1. u \in Tasks /\ KeyOf[u] \in Keys
    BY <1>2, TaskAssumption
  <2>2. CASE KeyOf[u] = KeyOf[t]
    BY <1>1, <1>2, <1>4, <2>1, <2>2, TaskAssumption DEF SameChain, TypeOK
  <2>3. CASE KeyOf[u] # KeyOf[t]
    <3>1. u \in InFlight /\ tail'[KeyOf[u]] = tail[KeyOf[u]]
      BY <1>2, <1>4, <1>5, <2>1, <2>3 DEF TypeOK
    <3> QED
      BY <1>2, <3>1 DEF Tails
  <2> QED
    BY <2>2, <2>3
<1> QED
  BY <1>6, <1>7

LEMMA SettleKeepsChains ==
  ASSUME TypeOK, Chains, Tails, NEW t \in Tasks, Settle(t)
  PROVE  Chains' /\ Tails' /\ InFlight' = InFlight \ {t}
<1>1. phase' = [phase EXCEPT ![t] = "gone"] /\ phase[t] = "released" /\ behind' = behind
  BY DEF Settle, Enters
<1>2. /\ Accepted' = Accepted /\ InFlight' = InFlight \ {t}
      /\ t \in Accepted /\ InFlight \subseteq Tasks
  BY <1>1 DEF Accepted, InFlight, TypeOK
<1>3. Chains'
  <2>1. ASSUME NEW u \in Tasks, phase[u] = "behind" PROVE phase'[u] = "behind"
    BY <1>1, <2>1 DEF TypeOK
  <2> QED
    BY <1>1, <1>2, <2>1 DEF Chains, SameChain
<1>4. Tails'
  <2> SUFFICES ASSUME NEW u \in InFlight', KeyOf[u] # NoKey
               PROVE  /\ tail'[KeyOf[u]] \in Accepted' /\ u <= tail'[KeyOf[u]]
                      /\ SameChain(u, tail'[KeyOf[u]])
    BY DEF Tails, SameChain
  <2>1. /\ u \in InFlight /\ u # t /\ KeyOf[u] \in Keys /\ u \in Tasks
        /\ tail[KeyOf[u]] \in Accepted /\ u <= tail[KeyOf[u]]
        /\ SameChain(u, tail[KeyOf[u]])
    BY <1>2, TaskAssumption DEF Tails
  <2>2. tail[KeyOf[u]] # t
    <3>1. SUFFICES ASSUME tail[KeyOf[u]] = t PROVE FALSE
      OBVIOUS
    <3>2. u < t
      BY <2>1, <3>1, TaskAssumption
    <3> QED
      BY <1>1, <1>2, <2>1, <3>1, <3>2 DEF Chains
  <2>3. tail'[KeyOf[u]] = tail[KeyOf[u]]
    BY <2>1, <2>2 DEF Settle, Dropped
  <2> QED
    BY <1>2, <2>1, <2>3
<1> QED
  BY <1>2, <1>3, <1>4

-----------------------------------------------------------------------------
(* The invariant.                                                          *)

LEMMA TailsKept ==
  ASSUME Tails, Accepted' = Accepted, InFlight' \subseteq InFlight, UNCHANGED tail
  PROVE  Tails'
BY DEF Tails, SameChain

LEMMA InitInv == Init => IInv
<1> SUFFICES ASSUME Init PROVE IInv
  OBVIOUS
<1>1. In({"taken", "running"}) = {} /\ Accepted = {} /\ InFlight = {}
  BY DEF Init, In, Accepted, InFlight
<1>2. Counted
  BY <1>1, FS_EmptySet DEF Init, Counted
<1>3. TypeOK
  BY TaskAssumption DEF Init, TypeOK, Phases
<1>4. Waits /\ NoSlotIdle /\ NoProducerStranded
  BY DEF Init, Waits, NoSlotIdle, NoProducerStranded
<1>5. Chains /\ Tails
  BY <1>1 DEF Chains, Tails
<1> QED
  BY <1>2, <1>3, <1>4, <1>5 DEF IInv, Slots

LEMMA ResumeIsPositive == ResumeAt \in Nat \ {0}
BY LimitAssumption DEF ResumeAt

LEMMA StepInv == IInv /\ [Next]_vars => IInv'
<1> SUFFICES ASSUME IInv, [Next]_vars PROVE IInv'
  OBVIOUS
<1>0. TypeOK /\ Chains /\ Tails /\ Slots /\ NoProducerStranded
  BY DEF IInv
<1>1. ASSUME NEW t \in Tasks, Schedule(t) PROVE IInv'
  <2>2. CASE KeyOf[t] = NoKey
    <3>1. phase[t] = "new" /\ Acquire(t) /\ UNCHANGED <<behind, tail, room, drain, wave>>
      BY <1>1, <2>2 DEF Schedule
    <3>2. /\ Slots' /\ phase' \in [Tasks -> Phases] /\ running' \in Nat
          /\ slots' \in Seq(Tasks)
      BY <1>0, <3>1, AcquireKeepsSlots
    <3>3. TypeOK'
      BY <1>0, <3>1, <3>2 DEF TypeOK
    <3>4. InFlight \subseteq InFlight'
      BY <1>0, <3>1 DEF Acquire, Enters, InFlight, TypeOK
    <3>5. NoProducerStranded'
      BY <1>0, <3>1, <3>4 DEF NoProducerStranded
    <3> QED
      BY <1>0, <1>1, <3>2, <3>3, <3>5, ScheduleKeepsChains DEF IInv
  <2>3. CASE KeyOf[t] # NoKey
    <3>1. /\ phase[t] = "new" /\ phase' = [phase EXCEPT ![t] = "behind"]
          /\ behind' = [behind EXCEPT ![t] = tail[KeyOf[t]]]
          /\ tail' = [tail EXCEPT ![KeyOf[t]] = t]
          /\ KeyOf[t] \in Keys
          /\ UNCHANGED <<running, slots, room, drain, wave>>
      BY <1>1, <2>3, TaskAssumption DEF Schedule, Enters
    <3>2. TypeOK'
      BY <1>0, <3>1 DEF TypeOK, Phases
    <3>3. \A P \in SUBSET (Phases \ {"new", "behind"}) : In(P)' = In(P)
      BY <1>0, <3>1 DEF TypeOK, In
    <3>4. In({"taken", "running"})' = In({"taken", "running"}) /\ In({"woken"})' = In({"woken"})
      BY <3>3 DEF Phases
    <3>5. Counted' /\ NoSlotIdle'
      BY <1>0, <3>1, <3>4 DEF Slots, Counted, NoSlotIdle
    <3>6. Waits'
      BY <1>0, <3>1 DEF Slots, Waits, TypeOK
    <3>7. InFlight \subseteq InFlight'
      BY <1>0, <3>1 DEF InFlight, TypeOK
    <3>8. NoProducerStranded'
      BY <1>0, <3>1, <3>7 DEF NoProducerStranded
    <3> QED
      BY <1>0, <1>1, <3>2, <3>5, <3>6, <3>8, ScheduleKeepsChains DEF IInv, Slots
  <2> QED
    BY <2>2, <2>3
<1>2. ASSUME NEW t \in Tasks, Enter(t) PROVE IInv'
  <2>1. /\ phase[t] = "behind" /\ behind[t] \in {None} \cup In({"gone"})
        /\ Acquire(t) /\ UNCHANGED <<behind, tail, room, drain, wave>>
    BY <1>2 DEF Enter
  <2>2. /\ Slots' /\ phase' \in [Tasks -> Phases] /\ running' \in Nat
        /\ slots' \in Seq(Tasks)
    BY <1>0, <2>1, AcquireKeepsSlots
  <2>3. \A u \in Tasks : Goes(u)
    BY <1>0, <2>1 DEF Acquire, Enters, Goes, TypeOK
  <2>4. Chains' /\ Tails'
    BY <1>0, <2>1, <2>3, GoingKeepsChains, TailsKept
  <2>5. InFlight \subseteq InFlight'
    BY <1>0, <2>1 DEF Acquire, Enters, InFlight, TypeOK
  <2> QED
    BY <1>0, <2>1, <2>2, <2>4, <2>5 DEF IInv, TypeOK, NoProducerStranded
<1>3. ASSUME NEW t \in Tasks, TakeSlot(t) PROVE IInv'
  <2>1. \A u \in Tasks : Goes(u)
    BY <1>0, <1>3 DEF TakeSlot, Enters, Goes, TypeOK
  <2>2. Chains' /\ Tails'
    BY <1>0, <1>3, <2>1, GoingKeepsChains, TailsKept DEF TakeSlot
  <2>3. InFlight' = InFlight
    BY <1>0, <1>3 DEF TakeSlot, Enters, InFlight, TypeOK
  <2> QED
    BY <1>0, <1>3, <2>2, <2>3, TakeSlotKeepsSlots DEF IInv, TypeOK, NoProducerStranded, TakeSlot
<1>4. ASSUME NEW t \in Tasks, Start(t) PROVE IInv'
  <2>1. \A u \in Tasks : Goes(u)
    BY <1>0, <1>4 DEF Start, Enters, Goes, TypeOK
  <2>2. Chains' /\ Tails'
    BY <1>0, <1>4, <2>1, GoingKeepsChains, TailsKept DEF Start
  <2>3. InFlight' = InFlight
    BY <1>0, <1>4 DEF Start, Enters, InFlight, TypeOK
  <2> QED
    BY <1>0, <1>4, <2>2, <2>3, StartKeepsSlots DEF IInv, TypeOK, NoProducerStranded, Start
<1>5. ASSUME NEW t \in Tasks, Finish(t) PROVE IInv'
  <2>1. /\ Slots' /\ phase' \in [Tasks -> Phases] /\ running' \in Nat
        /\ slots' \in Seq(Tasks) /\ EndsAs(t) /\ phase[t] = "running"
    BY <1>0, <1>5, FinishKeepsSlots DEF Finish
  <2>2. \A u \in Tasks : Goes(u)
    BY <2>1 DEF EndsAs, Goes
  <2>3. Chains' /\ Tails'
    BY <1>0, <1>5, <2>2, GoingKeepsChains, TailsKept DEF Finish
  <2>4. InFlight' = InFlight
    BY <2>1 DEF EndsAs, InFlight
  <2> QED
    BY <1>0, <1>5, <2>1, <2>3, <2>4 DEF IInv, TypeOK, NoProducerStranded, Finish
<1>6. ASSUME NEW t \in Tasks, Settle(t) PROVE IInv'
  <2>1. Slots' /\ phase' \in [Tasks -> Phases] /\ Chains' /\ Tails'
        /\ InFlight' = InFlight \ {t}
    BY <1>0, <1>6, SettleKeepsSlots, SettleKeepsChains
  <2>2. tail' \in [Keys -> Tasks \cup {None}] /\ room' \subseteq Producers
    BY <1>0, <1>6 DEF Settle, Dropped, Admitted, TypeOK
  <2>3. TypeOK'
    BY <1>0, <1>6, <2>1, <2>2 DEF Settle, TypeOK
  <2>4. NoProducerStranded'
    <3>1. SUFFICES ASSUME InFlight \ {t} = {} PROVE room' = {}
      BY <2>1 DEF NoProducerStranded
    <3>2. ~(Cardinality(InFlight \ {t}) > ResumeAt)
      BY <3>1, FS_EmptySet, ResumeIsPositive
    <3> QED
      BY <1>6, <3>2 DEF Settle, Admitted
  <2> QED
    BY <2>1, <2>3, <2>4 DEF IInv
<1>7. ASSUME UNCHANGED <<phase, behind, tail, running, slots>>,
             room' \subseteq Producers, room' # {} => InFlight # {},
             drain' \in {"no", "wave", "done", "abandoned"}, wave' \subseteq Tasks
      PROVE  IInv'
  <2>1. Accepted' = Accepted /\ InFlight' = InFlight
    BY <1>7 DEF Accepted, InFlight
  <2>2. \A P : In(P)' = In(P)
    BY <1>7 DEF In
  <2>3. Counted' /\ NoSlotIdle' /\ Waits'
    BY <1>0, <1>7, <2>2 DEF Slots, Counted, NoSlotIdle, Waits
  <2>4. Chains' /\ Tails'
    BY <1>0, <1>7, <2>1 DEF Chains, Tails, SameChain
  <2> QED
    BY <1>0, <1>7, <2>1, <2>3, <2>4 DEF IInv, TypeOK, Slots, NoProducerStranded
<1>8. ASSUME NEW p \in Producers, WhenReady(p) PROVE IInv'
  <2>1. InFlight # {}
    <3>1. Cardinality(InFlight) >= 1
      BY <1>8, LimitAssumption, InFlightFinite, FS_CardinalityType DEF WhenReady
    <3> QED
      BY <3>1, FS_EmptySet
  <2> QED
    BY <1>0, <1>7, <1>8, <2>1 DEF WhenReady, TypeOK
<1>9. ASSUME NEW p \in Producers, Abort(p) PROVE IInv'
  BY <1>0, <1>7, <1>9 DEF Abort, TypeOK, NoProducerStranded
<1>10. CASE Drain
  <2>1. InFlight \subseteq Tasks
    BY DEF InFlight
  <2> QED
    BY <1>0, <1>7, <1>10, <2>1 DEF Drain, TypeOK, NoProducerStranded
<1>11. CASE Abandon
  BY <1>0, <1>7, <1>11 DEF Abandon, TypeOK, NoProducerStranded
<1>12. CASE UNCHANGED vars
  BY <1>0, <1>7, <1>12 DEF vars, TypeOK, NoProducerStranded
<1> QED
  BY <1>1, <1>2, <1>3, <1>4, <1>5, <1>6, <1>8, <1>9, <1>10, <1>11, <1>12
     DEF Next, Microtask

LEMMA Invariance == Spec => []IInv
BY InitInv, StepInv, PTL DEF Spec

-----------------------------------------------------------------------------

(***************************************************************************)
(* The phases, the slots and the queues stay what the scheduler's fields   *)
(* are, whatever the limits.                                               *)
(***************************************************************************)
THEOREM TypeCorrect == Spec => []TypeOK
<1>1. IInv => TypeOK
  BY DEF IInv
<1> QED
  BY <1>1, Invariance, PTL

(***************************************************************************)
(* While a caller waits for a slot, every slot is taken or given to one    *)
(* that has been woken for it: no slot idles, for any number of tasks and  *)
(* any limits.                                                             *)
(***************************************************************************)
THEOREM NothingWaitsInVain == Spec => []NoSlotIdle
<1>1. IInv => NoSlotIdle
  BY DEF IInv, Slots
<1> QED
  BY <1>1, Invariance, PTL

(***************************************************************************)
(* While a producer waits for room there is a task in flight, whose end    *)
(* lets it go on: no wakeup of a producer is lost.                         *)
(***************************************************************************)
THEOREM NoProducerIsStranded == Spec => []NoProducerStranded
<1>1. IInv => NoProducerStranded
  BY DEF IInv
<1> QED
  BY <1>1, Invariance, PTL

LEMMA BeginsInTurn ==
  ASSUME IInv, NEW t \in Tasks, Start(t) PROVE Serial!Begin(t)
<1>1. phase[t] = "taken" /\ phase' = [phase EXCEPT ![t] = "running"] /\ phase \in [Tasks -> Phases]
  BY DEF Start, Enters, IInv, TypeOK
<1>2. Accepted' = Accepted /\ t \in Accepted
  BY <1>1 DEF Accepted
<1>3. /\ In({"running", "released", "gone"})' = In({"running", "released", "gone"}) \cup {t}
      /\ In({"released", "gone"})' = In({"released", "gone"})
      /\ t \notin In({"running", "released", "gone"})
  BY <1>1 DEF In
<1>4. Serial!Ahead(t) \subseteq In({"released", "gone"})
  <2> SUFFICES ASSUME NEW u \in Serial!Ahead(t) PROVE phase[u] = "gone" /\ u \in Tasks
    BY DEF In
  <2>1. u \in Accepted /\ u \in Tasks /\ u < t /\ SameChain(u, t)
    BY DEF Serial!Ahead, Serial!SameKey, SameChain, Accepted
  <2> QED
    BY <1>1, <1>2, <2>1 DEF IInv, Chains, Accepted, InFlight
<1> QED
  BY <1>2, <1>3, <1>4 DEF Serial!Begin

(***************************************************************************)
(* The scheduler keeps the order of every key: it implements the queue     *)
(* serial by key.                                                          *)
(***************************************************************************)
THEOREM SchedulerImplements == Spec => Implements
<1>1. Init => Serial!Init
  BY DEF Init, Serial!Init, Accepted, In
<1>2. IInv /\ [Next]_vars => [Serial!Next]_(Serial!tasks)
  <2> SUFFICES ASSUME IInv, [Next]_vars PROVE [Serial!Next]_(Serial!tasks)
    OBVIOUS
  <2> DEFINE Same == UNCHANGED Serial!tasks
  <2>1. ASSUME NEW t \in Tasks, Schedule(t) PROVE Serial!Accept(t)
    <3>1. /\ phase[t] = "new" /\ \A u \in Accepted : u < t
          /\ \A u \in Tasks \ {t} : phase'[u] = phase[u]
          /\ phase'[t] \in {"behind", "waiting", "taken"}
      BY <2>1 DEF Schedule, Acquire, Enters, IInv, TypeOK
    <3> QED
      BY <3>1 DEF Serial!Accept, Accepted, In
  <2>2. ASSUME NEW t \in Tasks, Enter(t) \/ TakeSlot(t) PROVE Same
    <3>1. /\ phase[t] \in {"behind", "woken"} /\ phase'[t] \in {"waiting", "taken"}
          /\ \A u \in Tasks \ {t} : phase'[u] = phase[u]
      BY <2>2 DEF Enter, TakeSlot, Acquire, Enters, IInv, TypeOK
    <3> QED
      BY <3>1 DEF Serial!tasks, Accepted, In
  <2>3. ASSUME NEW t \in Tasks, Finish(t) PROVE Serial!End(t)
    <3>1. phase[t] = "running" /\ EndsAs(t) /\ phase' \in [Tasks -> Phases]
      BY <2>3, FinishKeepsSlots DEF Finish, IInv
    <3>2. phase'[t] = "released"
      <4>1. phase' = [phase EXCEPT ![t] = "released"]
            \/ phase' = [phase EXCEPT ![t] = "released", ![Head(slots)] = "woken"]
        BY <2>3 DEF Finish, Enters
      <4>2. slots # <<>> => Head(slots) # t
        <5>1. SUFFICES ASSUME slots # <<>> PROVE Head(slots) # t
          OBVIOUS
        <5>2. 1 \in 1..Len(slots) /\ Head(slots) = slots[1]
          BY <5>1 DEF IInv, TypeOK
        <5> QED
          BY <3>1, <5>2 DEF IInv, Slots, Waits
      <4> QED
        BY <2>3, <4>2 DEF Finish, Enters, IInv, TypeOK
    <3>3. \A u \in Tasks \ {t} : phase'[u] = phase[u] \/ (phase[u] = "waiting" /\ phase'[u] = "woken")
      BY <3>1 DEF EndsAs
    <3> QED
      BY <3>1, <3>2, <3>3 DEF Serial!End, Accepted, In
  <2>4. ASSUME NEW t \in Tasks, Settle(t) PROVE Same
    BY <2>4 DEF Settle, Enters, Serial!tasks, Accepted, In, IInv, TypeOK
  <2>5. ASSUME UNCHANGED phase PROVE Same
    BY <2>5 DEF Serial!tasks, Accepted, In
  <2> QED
    BY <2>1, <2>2, <2>3, <2>4, <2>5, BeginsInTurn
       DEF Next, Microtask, WhenReady, Abort, Drain, Abandon, vars, Serial!Next
<1> QED
  BY <1>1, <1>2, Invariance, PTL DEF Spec, Implements, Serial!Spec
=============================================================================
