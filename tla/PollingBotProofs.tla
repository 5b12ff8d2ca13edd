--------------------------- MODULE PollingBotProofs ---------------------------
(***************************************************************************)
(* What holds of a polling bot for any updates, chats, limits and sizes of *)
(* an answer: it uses the scheduler as the scheduler expects, it loses and *)
(* repeats nothing within a run, what is outstanding is bounded, and a     *)
(* stop that says it was clean was.                                        *)
(***************************************************************************)
EXTENDS PollingBot, SchedulerProofs

\* An update that is not to be asked for again: it was scheduled, or discarded.
Served(t) == t <= skipped \/ t \in Accepted

(***************************************************************************)
(* Where the offset is, and what an answer holds: all the updates there    *)
(* are between the offset and the last of it.                              *)
(***************************************************************************)
OffsetInv ==
    /\ skipped <= arrived /\ offset <= arrived + 1
    /\ \A t \in Accepted : t < offset
    /\ \A t \in Tasks : t < offset \/ t <= confirmed => Served(t)

AnswerInv ==
    loop \in {"served", "delivering"} =>
        /\ \A t \in batch : offset <= t /\ t <= arrived
        /\ \A t \in batch, u \in Tasks : u < t => u \in batch \/ Served(u)
        /\ IsFiniteSet(batch) /\ Cardinality(batch) <= MaxBatch

\* The room there is when a request is made.
RoomInv ==
    /\ loop = "room" => Loop \in room \/ Cardinality(InFlight) <= ResumeAt
    /\ loop \in {"asking", "served"} => Cardinality(InFlight) <= RoomLeft
    /\ loop = "delivering" => Cardinality(InFlight) + Cardinality(batch) <= RoomLeft + MaxBatch

\* How the loop, polling.stop and the lifecycle are when they end.
StopInv ==
    /\ loop = "off" => Accepted = {}
    /\ life \in {"idle", "failed"} => loop = "off" /\ ~fatal
    /\ hook = "none" <=> life \notin {"closing", "stopped"}
    /\ hook = "none" => ~clean
    /\ hook = "none" /\ ~polls /\ ~fatal => loop = "off"
    /\ hook # "none" => ~polls
    /\ hook = "drain" \/ (hook = "done" /\ ~fatal) => loop \in {"over", "off"}
    /\ hook = "done" /\ ~fatal => InFlight = {} \/ late
    /\ clean => ~late
    /\ life = "stopped" /\ ~late => hook = "done"

BotInv == PollTypeOK /\ OffsetInv /\ AnswerInv /\ RoomInv /\ Outstanding /\ StopInv

-----------------------------------------------------------------------------
(* What each step does to the tasks.                                       *)

LEMMA WorkKeeps ==
  ASSUME IInv, NEW t \in Tasks, Work(t)
  PROVE  /\ Accepted' = Accepted /\ InFlight' \subseteq InFlight
         /\ Loop \in room /\ Loop \notin room' => Cardinality(InFlight') <= ResumeAt
         /\ loop # "delivering" /\ UNCHANGED pollVars
<1>0. TypeOK /\ Slots
  BY DEF IInv
<1>1. loop # "delivering" /\ UNCHANGED pollVars
  BY DEF Work, AtRest
<1>2. CASE Enter(t) \/ TakeSlot(t) \/ Start(t)
  BY <1>0, <1>1, <1>2 DEF Enter, TakeSlot, Start, Acquire, Enters, TypeOK, Accepted, InFlight
<1>3. CASE Finish(t)
  <2>1. EndsAs(t) /\ phase[t] = "running"
    BY <1>0, <1>3, FinishKeepsSlots DEF Finish
  <2> QED
    BY <1>1, <1>3, <2>1 DEF EndsAs, Accepted, InFlight, Finish
<1>4. CASE Settle(t)
  <2>1. InFlight' = InFlight \ {t} /\ Accepted' = Accepted
    BY <1>0, <1>4 DEF Settle, Enters, TypeOK, Accepted, InFlight
  <2>2. Cardinality(InFlight \ {t}) \in Nat
    BY InFlightFinite, FS_RemoveElement, FS_CardinalityType, FS_Subset
  <2> QED
    BY <1>1, <1>4, <2>1, <2>2, ResumeIsPositive DEF Settle, Admitted
<1> QED
  BY <1>2, <1>3, <1>4 DEF Work, Microtask

LEMMA ScheduleAdds ==
  ASSUME TypeOK, NEW t \in Tasks, Schedule(t)
  PROVE  /\ Accepted' = Accepted \cup {t} /\ t \notin Accepted
         /\ InFlight' = InFlight \cup {t} /\ t \notin InFlight
BY DEF Schedule, Acquire, Enters, TypeOK, Accepted, InFlight

LEMMA Sizes ==
  ASSUME NEW S \in SUBSET Tasks
  PROVE  /\ IsFiniteSet(S) /\ Cardinality(S) \in Nat
         /\ \A t \in S : IsFiniteSet(S \ {t}) /\ Cardinality(S \ {t}) = Cardinality(S) - 1
         /\ \A t \in Tasks \ S : Cardinality(S \cup {t}) = Cardinality(S) + 1
         /\ \A R \in SUBSET S : Cardinality(R) \in Nat /\ Cardinality(R) <= Cardinality(S)
<1>1. IsFiniteSet(S)
  BY TaskAssumption, FS_Subset
<1> QED
  BY <1>1, FS_CardinalityType, FS_RemoveElement, FS_AddElement, FS_Subset

LEMMA InFlightSize == InFlight \in SUBSET Tasks /\ Cardinality(InFlight) \in Nat
<1>1. InFlight \in SUBSET Tasks
  BY DEF InFlight
<1> QED
  BY <1>1, Sizes

LEMMA RoomLeftType == RoomLeft \in Nat /\ ResumeAt \in Nat /\ ResumeAt <= RoomLeft /\ Capacity - 1 <= RoomLeft
BY LimitAssumption DEF RoomLeft, Greater, ResumeAt

-----------------------------------------------------------------------------
(* The parts of the invariant, each against the steps that can disturb it. *)

LEMMA TypeKept ==
  ASSUME TypeOK, BotInv, IInv, [PollNext]_allVars PROVE PollTypeOK'
<1> USE PollingAssumption DEF PollTypeOK, BotInv, server, shutdown, pollVars
<1>1. ASSUME NEW t \in Tasks, Work(t) PROVE PollTypeOK'
  BY <1>1 DEF Work
<1>2. CASE Arrive
  BY <1>2 DEF Arrive
<1>11. CASE Ready
  BY <1>11 DEF Ready
<1>12. CASE End
  BY <1>12 DEF End
<1>13. CASE Answer \/ Fail
  <2>1. CASE Answer
    BY <2>1 DEF Answer
  <2>2. CASE Fail
    BY <2>2 DEF Fail
  <2> QED
    BY <1>13, <2>1, <2>2
<1>14. CASE FailForGood \/ Rested \/ Woken
  <2>1. CASE FailForGood
    BY <2>1 DEF FailForGood
  <2>2. CASE Rested
    BY <2>2 DEF Rested
  <2>3. CASE Woken
    BY <2>3 DEF Woken
  <2> QED
    BY <1>14, <2>1, <2>2, <2>3
<1>3. CASE Serve
  BY <1>3 DEF Serve, Answers, Greater
<1>4. CASE Deliver
  BY <1>4 DEF Deliver, Greater
<1>5. CASE Begin \/ BeginFails
  <2>1. Drops => arrived' \in Tasks \cup {0} /\ confirmed' \in Nat /\ skipped' \in Nat
    BY DEF Drops, Greater
  <2>2. CASE Begin
    BY <2>1, <2>2 DEF Begin
  <2>3. CASE BeginFails
    BY <2>1, <2>3 DEF BeginFails
  <2> QED
    BY <1>5, <2>2, <2>3
<1>6. CASE Stop
  <2>1. Handling \subseteq Tasks
    BY DEF Handling, In
  <2> QED
    BY <1>6, <2>1 DEF Stop
<1>7. CASE Release
  <2>1. clean' \in BOOLEAN
    BY <1>7 DEF Release
  <2> QED
    BY <1>7, <2>1 DEF Release, PollingStop
<1>8. CASE LoopEnded \/ StopDrains \/ StopAbandons \/ Stopped
  <2>1. CASE LoopEnded
    BY <2>1 DEF LoopEnded
  <2>2. CASE StopDrains
    BY <2>2 DEF StopDrains
  <2>3. CASE StopAbandons
    BY <2>3 DEF StopAbandons
  <2>4. CASE Stopped
    BY <2>4 DEF Stopped
  <2> QED
    BY <1>8, <2>1, <2>2, <2>3, <2>4
<1>9. CASE Deadline
  BY <1>9 DEF Deadline
<1>10. CASE UNCHANGED allVars
  BY <1>10 DEF allVars
<1> QED
  BY <1>1, <1>2, <1>3, <1>4, <1>5, <1>6, <1>7, <1>8, <1>9, <1>10, <1>11, <1>12,
     <1>13, <1>14 DEF PollNext

\* The steps in which no task is scheduled, and no task ends.
Quiet == UNCHANGED phase

LEMMA QuietKeeps == ASSUME Quiet PROVE Accepted' = Accepted /\ InFlight' = InFlight
BY DEF Quiet, Accepted, InFlight

LEMMA OffsetKept ==
  ASSUME TypeOK, IInv, BotInv, PollTypeOK', [PollNext]_allVars PROVE OffsetInv'
<1> USE DEF server, shutdown, pollVars
<1>0. /\ arrived \in Nat /\ confirmed \in Nat /\ skipped \in Nat /\ offset \in Nat
      /\ OffsetInv /\ AnswerInv /\ StopInv /\ batch \subseteq Tasks
      /\ \A t \in Tasks : t \in Nat
  BY PollingAssumption DEF BotInv, PollTypeOK
<1>1. ASSUME NEW t \in Tasks, Work(t) PROVE OffsetInv'
  <2>1. Accepted' = Accepted /\ UNCHANGED pollVars
    BY <1>1, WorkKeeps
  <2> QED
    BY <1>0, <2>1 DEF OffsetInv, Served
<1>2. ASSUME Quiet, UNCHANGED <<confirmed, skipped, offset>>, arrived' \in {arrived, arrived + 1}
      PROVE  OffsetInv'
  <2>1. Accepted' = Accepted
    BY <1>2, QuietKeeps
  <2>2. arrived' \in Nat /\ arrived <= arrived'
    BY <1>0, <1>2
  <2>3. /\ arrived \in Nat /\ skipped \in Nat /\ offset \in Nat
        /\ skipped <= arrived /\ offset <= arrived + 1
    BY <1>0 DEF OffsetInv
  <2>4. skipped <= arrived' /\ offset <= arrived' + 1
    <3>1. CASE arrived' = arrived
      BY <2>3, <3>1
    <3>2. CASE arrived' = arrived + 1
      BY <2>3, <3>2
    <3> QED
      BY <1>2, <3>1, <3>2
  <2> QED
    BY <1>0, <1>2, <2>1, <2>4 DEF OffsetInv, Served
<1>3. CASE Serve
  <2>1. Accepted' = Accepted
    BY <1>3, QuietKeeps DEF Serve, vars, Quiet
  <2> QED
    BY <1>0, <1>3, <2>1 DEF Serve, Greater, OffsetInv, Served
<1>4. CASE Deliver
  <2>1. PICK t \in batch :
          /\ \A u \in batch : t <= u
          /\ Schedule(t) /\ offset' = Greater(offset, t + 1) /\ UNCHANGED server
          /\ loop = "delivering"
    BY <1>4 DEF Deliver
  <2>2. t \in Tasks /\ t \in Nat /\ Accepted' = Accepted \cup {t}
    BY <1>0, <2>1, ScheduleAdds
  <2>3. offset <= t /\ t <= arrived
    BY <1>0, <2>1 DEF AnswerInv
  <2>4. ASSUME NEW u \in Tasks, u < t PROVE Served(u)
    <3>1. u \notin batch
      BY <1>0, <2>1, <2>2, <2>4
    <3> QED
      BY <1>0, <2>1, <2>4, <3>1 DEF AnswerInv
  <2>5. offset' = t + 1 /\ UNCHANGED <<arrived, confirmed, skipped>>
    BY <1>0, <2>1, <2>2, <2>3 DEF Greater
  <2>6. \A u \in Accepted' : u < offset'
    BY <1>0, <2>2, <2>3, <2>5 DEF Accepted, OffsetInv
  <2>7. ASSUME NEW u \in Tasks, u < offset' \/ u <= confirmed PROVE Served(u)'
    <3>1. t < u => u <= confirmed
      BY <1>0, <2>2, <2>5, <2>7
    <3>2. u < t \/ u = t \/ t < u
      BY <1>0, <2>2
    <3>3. CASE u = t
      BY <2>2, <3>3 DEF Served
    <3>4. CASE u # t
      <4>1. Served(u)
        BY <1>0, <2>4, <3>1, <3>2, <3>4 DEF OffsetInv
      <4> QED
        BY <2>2, <2>5, <4>1 DEF Served
    <3> QED
      BY <3>3, <3>4
  <2> QED
    BY <1>0, <2>2, <2>3, <2>5, <2>6, <2>7 DEF OffsetInv
<1>5. CASE Begin \/ BeginFails
  <2>1. Accepted' = {} /\ Accepted = {}
    BY <1>0, <1>5, QuietKeeps DEF Begin, BeginFails, StopInv, vars, Quiet
  <2>2. offset' \in {offset, arrived + 1}
    BY <1>5 DEF Begin, BeginFails
  <2>3. CASE UNCHANGED <<server, offset>>
    BY <1>0, <2>1, <2>3 DEF OffsetInv, Served
  <2>4. CASE Drops
    <3>1. arrived' = arrived /\ skipped' = arrived /\ confirmed' \in {confirmed, arrived - 1}
      BY <2>4 DEF Drops, Greater
    <3>2. \A t \in Tasks : t < offset' \/ t <= confirmed' => t <= arrived \/ t <= skipped \/ t < offset \/ t <= confirmed
      BY <1>0, <2>2, <3>1
    <3>3. \A t \in Tasks : t < offset' \/ t <= confirmed' => t <= arrived
      BY <1>0, <2>1, <2>2, <3>1, <3>2 DEF OffsetInv, Served
    <3> QED
      BY <1>0, <2>1, <2>2, <3>1, <3>3 DEF OffsetInv, Served
  <2> QED
    BY <1>5, <2>3, <2>4 DEF Begin, BeginFails
<1>6. CASE Arrive
  BY <1>2, <1>6 DEF Arrive, vars, Quiet
<1>7. CASE Ready
  BY <1>2, <1>7 DEF Ready, WhenReady, vars, Quiet
<1>8. CASE Woken \/ Answer \/ Fail \/ FailForGood \/ Rested
  BY <1>2, <1>8 DEF Woken, Answer, Fail, FailForGood, Rested, vars, Quiet
<1>9. CASE End
  BY <1>2, <1>9 DEF End, Abort, vars, Quiet
<1>10. CASE Stop \/ Release \/ LoopEnded \/ Stopped \/ Deadline
  BY <1>2, <1>10 DEF Stop, Release, LoopEnded, Stopped, Deadline, vars, Quiet
<1>11. CASE StopDrains \/ StopAbandons
  BY <1>2, <1>11 DEF StopDrains, StopAbandons, Drain, Abandon, vars, Quiet
<1>12. CASE UNCHANGED allVars
  BY <1>2, <1>12 DEF allVars, vars, Quiet
<1> QED
  BY <1>1, <1>3, <1>4, <1>5, <1>6, <1>7, <1>8, <1>9, <1>10, <1>11, <1>12 DEF PollNext

LEMMA AnswerKept ==
  ASSUME TypeOK, IInv, BotInv, PollTypeOK', [PollNext]_allVars PROVE AnswerInv'
<1> USE DEF server, shutdown, pollVars
<1>0. /\ arrived \in Nat /\ confirmed \in Nat /\ skipped \in Nat /\ offset \in Nat
      /\ OffsetInv /\ AnswerInv /\ StopInv /\ batch \subseteq Tasks
      /\ \A t \in Tasks : t \in Nat
  BY PollingAssumption DEF BotInv, PollTypeOK
<1>1. ASSUME NEW t \in Tasks, Work(t) PROVE AnswerInv'
  <2>1. Accepted' = Accepted /\ UNCHANGED pollVars
    BY <1>1, WorkKeeps
  <2> QED
    BY <1>0, <2>1 DEF AnswerInv, Served
<1>2. ASSUME Quiet, UNCHANGED <<arrived, skipped, offset, batch>>,
             loop' \in {"served", "delivering"} => loop \in {"served", "delivering"}
      PROVE  AnswerInv'
  <2>1. Accepted' = Accepted
    BY <1>2, QuietKeeps
  <2> QED
    BY <1>0, <1>2, <2>1 DEF AnswerInv, Served
<1>3. ASSUME loop' \notin {"served", "delivering"} PROVE AnswerInv'
  BY <1>3 DEF AnswerInv
<1>4. CASE Serve
  <2>1. Accepted' = Accepted
    BY <1>4, QuietKeeps DEF Serve, vars, Quiet
  <2>2. /\ confirmed' = Greater(confirmed, offset - 1)
        /\ UNCHANGED <<arrived, skipped, offset>>
        /\ batch' \in Answers(confirmed')
    BY <1>4 DEF Serve
  <2>3. /\ confirmed' \in Nat /\ offset <= confirmed' + 1
        /\ \A u \in Tasks : u <= confirmed' => u <= confirmed \/ u < offset
    BY <1>0, <2>2 DEF Greater
  <2>4. /\ batch' \in SUBSET Tasks
        /\ \A t \in batch' : confirmed' < t /\ t <= arrived
        /\ \A t \in batch', u \in Tasks : confirmed' < u /\ u <= arrived /\ u < t => u \in batch'
        /\ Cardinality(batch') <= MaxBatch
    BY <2>2 DEF Answers
  <2>5. \A u \in Tasks : u <= confirmed' => Served(u)'
    BY <1>0, <2>1, <2>2, <2>3 DEF OffsetInv, Served
  <2>6. ASSUME NEW t \in batch', NEW u \in Tasks, u < t PROVE u \in batch' \/ Served(u)'
    <3>1. t \in Nat /\ u \in Nat /\ u <= arrived
      BY <1>0, <2>4, <2>6
    <3> QED
      BY <2>3, <2>4, <2>5, <2>6, <3>1
  <2>7. \A t \in batch' : offset' <= t /\ t <= arrived'
    <3> SUFFICES ASSUME NEW t \in batch' PROVE offset <= t /\ t <= arrived
      BY <2>2
    <3>1. t \in Nat /\ confirmed' < t /\ t <= arrived
      BY <1>0, <2>4
    <3>2. PICK c \in Nat : c = confirmed'
      BY <2>3
    <3>3. offset \in Nat /\ offset <= c + 1 /\ c < t
      BY <1>0, <2>3, <3>1, <3>2
    <3> QED
      BY <3>1, <3>3
  <2>8. IsFiniteSet(batch')
    BY <2>4, Sizes
  <2> QED
    BY <2>4, <2>6, <2>7, <2>8 DEF AnswerInv
<1>5. CASE Deliver
  <2>1. PICK t \in batch :
          /\ \A u \in batch : t <= u
          /\ Schedule(t) /\ offset' = Greater(offset, t + 1) /\ batch' = batch \ {t}
    BY <1>5 DEF Deliver
  <2>2. t \in Tasks /\ t \in Nat /\ Accepted' = Accepted \cup {t}
    BY <1>0, <2>1, ScheduleAdds
  <2>3. loop = "delivering" /\ UNCHANGED <<arrived, skipped>>
    BY <1>5 DEF Deliver
  <2>4. offset' = t + 1 \/ offset' = offset
    BY <2>1 DEF Greater
  <2>5. \A u \in batch' : offset' <= u /\ u <= arrived'
    <3> SUFFICES ASSUME NEW u \in batch \ {t} PROVE offset' <= u /\ u <= arrived
      BY <2>1, <2>3
    <3>1. u \in Nat /\ t <= u /\ u # t /\ offset <= u /\ u <= arrived
      BY <1>0, <2>1, <2>3 DEF AnswerInv
    <3> QED
      BY <1>0, <2>2, <2>4, <3>1
  <2>6. \A w \in batch', u \in Tasks : u < w => u \in batch' \/ Served(u)'
    BY <1>0, <2>1, <2>2, <2>3 DEF AnswerInv, Served
  <2>7. batch \in SUBSET Tasks /\ Cardinality(batch) <= MaxBatch
    BY <1>0, <2>3 DEF AnswerInv
  <2>8. /\ IsFiniteSet(batch') /\ Cardinality(batch') = Cardinality(batch) - 1
        /\ Cardinality(batch) \in Nat
    BY <2>1, <2>7, Sizes
  <2>9. Cardinality(batch') <= MaxBatch
    BY <2>7, <2>8, PollingAssumption
  <2> QED
    BY <2>5, <2>6, <2>8, <2>9 DEF AnswerInv
<1>6. CASE Begin \/ BeginFails
  BY <1>0, <1>3, <1>6 DEF Begin, BeginFails, StopInv
<1>7. CASE Arrive
  <2>1. Accepted' = Accepted /\ arrived' = arrived + 1 /\ UNCHANGED <<skipped, offset, loop, batch>>
    BY <1>7, QuietKeeps DEF Arrive, vars, Quiet
  <2>2. \A t \in batch : t <= arrived => t <= arrived'
    BY <1>0, <2>1
  <2> QED
    BY <1>0, <2>1, <2>2 DEF AnswerInv, Served
<1>8. CASE Ready \/ Woken \/ Fail \/ FailForGood \/ Rested \/ End
  BY <1>3, <1>8 DEF Ready, Woken, Fail, FailForGood, Rested, End
<1>9. CASE Answer
  BY <1>2, <1>9 DEF Answer, vars, Quiet
<1>10. CASE Stop \/ Release \/ LoopEnded \/ Stopped \/ Deadline
  BY <1>2, <1>10 DEF Stop, Release, LoopEnded, Stopped, Deadline, vars, Quiet
<1>11. CASE StopDrains \/ StopAbandons
  BY <1>2, <1>11 DEF StopDrains, StopAbandons, Drain, Abandon, vars, Quiet
<1>12. CASE UNCHANGED allVars
  BY <1>2, <1>12 DEF allVars, vars, Quiet
<1> QED
  BY <1>1, <1>4, <1>5, <1>6, <1>7, <1>8, <1>9, <1>10, <1>11, <1>12 DEF PollNext

LEMMA RoomKept ==
  ASSUME TypeOK, IInv, BotInv, PollTypeOK', [PollNext]_allVars PROVE RoomInv' /\ Outstanding'
<1> USE DEF server, shutdown, pollVars
<1>0. /\ RoomInv /\ Outstanding /\ AnswerInv /\ StopInv /\ batch \subseteq Tasks
      /\ Cardinality(InFlight) \in Nat /\ MaxBatch \in Nat
      /\ RoomLeft \in Nat /\ ResumeAt \in Nat /\ ResumeAt <= RoomLeft /\ Capacity - 1 <= RoomLeft
      /\ Capacity \in Nat
  BY PollingAssumption, LimitAssumption, InFlightSize, RoomLeftType DEF BotInv, PollTypeOK
<1>1. ASSUME NEW t \in Tasks, Work(t) PROVE RoomInv' /\ Outstanding'
  <2>1. InFlight' \subseteq InFlight /\ UNCHANGED pollVars /\ loop # "delivering"
        /\ (Loop \in room /\ Loop \notin room' => Cardinality(InFlight') <= ResumeAt)
    BY <1>1, WorkKeeps
  <2>2. Cardinality(InFlight') \in Nat /\ Cardinality(InFlight') <= Cardinality(InFlight)
    BY <2>1, InFlightSize, Sizes
  <2>3. Outstanding'
    BY <1>0, <2>2 DEF Outstanding, RoomLeft
  <2>4. loop = "room" => Loop \in room' \/ Cardinality(InFlight') <= ResumeAt
    BY <1>0, <2>1, <2>2 DEF RoomInv
  <2>5. loop \in {"asking", "served"} => Cardinality(InFlight') <= RoomLeft
    BY <1>0, <2>2 DEF RoomInv
  <2> QED
    BY <2>1, <2>3, <2>4, <2>5 DEF RoomInv, RoomLeft
<1>2. ASSUME Quiet PROVE Outstanding' /\ InFlight' = InFlight
  BY <1>0, <1>2, QuietKeeps DEF Outstanding, RoomLeft
<1>3. ASSUME Quiet, UNCHANGED <<loop, room, batch>> PROVE RoomInv' /\ Outstanding'
  BY <1>0, <1>2, <1>3 DEF RoomInv, RoomLeft
<1>4. ASSUME Quiet, loop' \notin {"room", "asking", "served", "delivering"} PROVE RoomInv' /\ Outstanding'
  BY <1>2, <1>4 DEF RoomInv
<1>5. CASE Serve \/ Woken
  <2>1. Cardinality(InFlight) <= RoomLeft
    BY <1>0, <1>5 DEF Serve, Woken, RoomInv
  <2>2. Quiet /\ loop' \in {"asking", "served"}
    BY <1>5 DEF Serve, Woken, vars, Quiet
  <2> QED
    BY <1>2, <2>1, <2>2 DEF RoomInv, RoomLeft
<1>6. CASE Ready
  <2>1. Quiet
    BY <1>6 DEF Ready, WhenReady, vars, Quiet
  <2>2. \/ loop' = "asking" /\ Cardinality(InFlight) < Capacity
        \/ loop' = "room" /\ Loop \in room'
    BY <1>6 DEF Ready, WhenReady
  <2>3. Cardinality(InFlight) < Capacity => Cardinality(InFlight) <= RoomLeft
    BY <1>0
  <2> QED
    BY <1>2, <2>1, <2>2, <2>3 DEF RoomInv, RoomLeft
<1>7. CASE Answer
  <2>1. Quiet /\ UNCHANGED batch /\ loop = "served" /\ loop' \in {"resting", "passing", "delivering"}
    BY <1>7 DEF Answer, vars, Quiet
  <2>2. Cardinality(InFlight) <= RoomLeft /\ Cardinality(batch) <= MaxBatch /\ Cardinality(batch) \in Nat
    BY <1>0, <2>1, Sizes DEF RoomInv, AnswerInv
  <2>3. Cardinality(InFlight) + Cardinality(batch) <= RoomLeft + MaxBatch
    BY <1>0, <2>2
  <2> QED
    BY <1>2, <2>1, <2>3 DEF RoomInv, RoomLeft
<1>8. CASE Deliver
  <2>1. PICK t \in batch : Schedule(t) /\ batch' = batch \ {t}
    BY <1>8 DEF Deliver
  <2>2. loop = "delivering" /\ loop' \in {"passing", "delivering"}
    BY <1>8 DEF Deliver
  <2>3. t \in Tasks /\ InFlight' = InFlight \cup {t} /\ t \notin InFlight
    BY <1>0, <2>1, ScheduleAdds
  <2>4. Cardinality(InFlight') = Cardinality(InFlight) + 1
    BY <2>3, InFlightSize, Sizes
  <2>5. /\ Cardinality(batch') = Cardinality(batch) - 1
        /\ Cardinality(batch) \in Nat /\ Cardinality(batch') \in Nat
    BY <1>0, <2>1, Sizes
  <2>6. Cardinality(InFlight) + Cardinality(batch) <= RoomLeft + MaxBatch
    BY <1>0, <2>2 DEF RoomInv
  <2>7. Cardinality(InFlight') + Cardinality(batch') <= RoomLeft + MaxBatch
    BY <1>0, <2>4, <2>5, <2>6
  <2>8. Cardinality(InFlight') <= RoomLeft + MaxBatch
    BY <1>0, <2>4, <2>5, <2>7
  <2> QED
    BY <2>2, <2>7, <2>8 DEF RoomInv, Outstanding, RoomLeft
<1>9. CASE Arrive \/ BeginFails \/ Stop \/ Release \/ LoopEnded \/ Stopped \/ Deadline
  BY <1>3, <1>9 DEF Arrive, BeginFails, Stop, Release, LoopEnded, Stopped, Deadline, vars, Quiet
<1>10. CASE StopDrains \/ StopAbandons
  BY <1>3, <1>10 DEF StopDrains, StopAbandons, Drain, Abandon, vars, Quiet
<1>11. CASE Begin \/ Fail \/ FailForGood \/ Rested
  BY <1>4, <1>11 DEF Begin, Fail, FailForGood, Rested, vars, Quiet
<1>12. CASE End
  BY <1>4, <1>12 DEF End, Abort, vars, Quiet
<1>13. CASE UNCHANGED allVars
  BY <1>3, <1>13 DEF allVars, vars, Quiet
<1> QED
  BY <1>1, <1>5, <1>6, <1>7, <1>8, <1>9, <1>10, <1>11, <1>12, <1>13 DEF PollNext

LEMMA StopKept ==
  ASSUME TypeOK, IInv, BotInv, PollTypeOK', [PollNext]_allVars PROVE StopInv'
<1> USE DEF server, shutdown, pollVars
<1>0. StopInv /\ PollTypeOK
  BY DEF BotInv
<1>1. ASSUME NEW t \in Tasks, Work(t) PROVE StopInv'
  <2>1. Accepted' = Accepted /\ InFlight' \subseteq InFlight /\ UNCHANGED pollVars
    BY <1>1, WorkKeeps
  <2> QED
    BY <1>0, <2>1 DEF StopInv
<1>2. ASSUME Quiet, UNCHANGED <<loop, polls, fatal, shutdown>> PROVE StopInv'
  BY <1>0, <1>2, QuietKeeps DEF StopInv
<1>3. CASE Arrive
  BY <1>2, <1>3 DEF Arrive, vars, Quiet
<1>4. CASE Deliver
  <2>1. /\ loop = "delivering" /\ loop' \in {"passing", "delivering"}
        /\ UNCHANGED <<polls, fatal, shutdown>>
    BY <1>4 DEF Deliver
  <2> QED
    BY <1>0, <2>1 DEF StopInv
<1>5. ASSUME Quiet, UNCHANGED <<polls, fatal, shutdown>>, loop \notin {"off", "over"}, loop' # "off"
      PROVE  StopInv'
  BY <1>0, <1>5, QuietKeeps DEF StopInv
<1>6. CASE Serve \/ Woken \/ Answer \/ Fail \/ Rested
  BY <1>5, <1>6 DEF Serve, Woken, Answer, Fail, Rested, vars, Quiet
<1>7. CASE Ready
  BY <1>5, <1>7 DEF Ready, WhenReady, vars, Quiet
<1>8. CASE End
  BY <1>5, <1>8 DEF End, Abort, vars, Quiet
<1>9. CASE FailForGood
  <2>1. /\ Quiet /\ loop = "asking" /\ polls /\ loop' = "over" /\ polls' = FALSE /\ fatal' = TRUE
        /\ UNCHANGED shutdown
    BY <1>9 DEF FailForGood, vars, Quiet
  <2>2. hook = "none" /\ life \notin {"idle", "failed", "closing", "stopped"}
    BY <1>0, <2>1 DEF StopInv
  <2> QED
    BY <1>0, <2>1, <2>2 DEF StopInv
<1>10. CASE Begin
  <2>1. Quiet
    BY <1>10 DEF Begin, vars, Quiet
  <2> QED
    BY <1>0, <1>10, <2>1, QuietKeeps DEF Begin, StopInv
<1>11. CASE BeginFails
  <2>1. Quiet
    BY <1>11 DEF BeginFails, vars, Quiet
  <2> QED
    BY <1>0, <1>11, <2>1, QuietKeeps DEF BeginFails, StopInv
<1>12. CASE Stop
  <2>1. Quiet
    BY <1>12 DEF Stop, vars, Quiet
  <2> QED
    BY <1>0, <1>12, <2>1, QuietKeeps DEF Stop, StopInv
<1>13. CASE Release
  <2>1. Quiet /\ InFlight' = InFlight
    BY <1>13, QuietKeeps DEF Release, vars, Quiet
  <2>2. /\ life = "draining" /\ hook = "none" /\ polls' = FALSE /\ UNCHANGED <<loop, fatal, late>>
        /\ clean' = ~late
        /\ (late /\ life' = "stopped") \/ (~late /\ life' = "closing")
        /\ (polls /\ hook' = "loop") \/ (~polls /\ hook' = "done")
    BY <1>0, <1>13 DEF Release, PollingStop, StopInv
  <2>3. loop = "off" => InFlight = {}
    BY <1>0 DEF StopInv, Accepted, InFlight
  <2> QED
    BY <1>0, <2>1, <2>2, <2>3, QuietKeeps DEF StopInv
<1>14. CASE LoopEnded
  <2>1. Quiet
    BY <1>14 DEF LoopEnded, vars, Quiet
  <2> QED
    BY <1>0, <1>14, <2>1, QuietKeeps DEF LoopEnded, StopInv
<1>15. CASE StopDrains
  <2>1. Quiet /\ (drain' = "done" => InFlight = {})
    BY <1>15 DEF StopDrains, Drain, Quiet
  <2>2. /\ hook = "drain" /\ hook' \in {"drain", "done"} /\ (hook' = "done" => drain' = "done")
        /\ UNCHANGED <<loop, polls, fatal, life, late, clean>>
    BY <1>15 DEF StopDrains
  <2> QED
    BY <1>0, <2>1, <2>2, QuietKeeps DEF StopInv
<1>16. CASE StopAbandons
  <2>1. Quiet
    BY <1>16 DEF StopAbandons, Abandon, Quiet
  <2> QED
    BY <1>0, <1>16, <2>1, QuietKeeps DEF StopAbandons, StopInv
<1>17. CASE Stopped
  <2>1. Quiet
    BY <1>17 DEF Stopped, vars, Quiet
  <2> QED
    BY <1>0, <1>17, <2>1, QuietKeeps DEF Stopped, StopInv
<1>18. CASE Deadline
  <2>1. Quiet
    BY <1>18 DEF Deadline, vars, Quiet
  <2> QED
    BY <1>0, <1>18, <2>1, QuietKeeps DEF Deadline, StopInv
<1>19. CASE UNCHANGED allVars
  BY <1>2, <1>19 DEF allVars, vars, Quiet
<1> QED
  BY <1>1, <1>3, <1>4, <1>6, <1>7, <1>8, <1>9, <1>10, <1>11, <1>12, <1>13, <1>14, <1>15,
     <1>16, <1>17, <1>18, <1>19 DEF PollNext

-----------------------------------------------------------------------------

LEMMA BotStart == PollInit => BotInv
<1> SUFFICES ASSUME PollInit PROVE BotInv
  OBVIOUS
<1>1. Accepted = {} /\ InFlight = {} /\ Cardinality(InFlight) = 0
  BY FS_EmptySet DEF PollInit, Init, Accepted, InFlight
<1>2. PollTypeOK /\ AnswerInv /\ StopInv
  BY <1>1 DEF PollInit, PollTypeOK, AnswerInv, StopInv
<1>3. OffsetInv
  BY <1>1, PollingAssumption DEF PollInit, OffsetInv
<1>4. RoomInv /\ Outstanding
  BY <1>1, RoomLeftType, PollingAssumption DEF PollInit, RoomInv, Outstanding
<1> QED
  BY <1>2, <1>3, <1>4 DEF BotInv

LEMMA BotStep == IInv /\ BotInv /\ [PollNext]_allVars => BotInv'
<1> SUFFICES ASSUME IInv, BotInv, [PollNext]_allVars PROVE BotInv'
  OBVIOUS
<1>1. TypeOK
  BY DEF IInv
<1>2. PollTypeOK'
  BY <1>1, TypeKept
<1> QED
  BY <1>1, <1>2, OffsetKept, AnswerKept, RoomKept, StopKept DEF BotInv

LEMMA StepDrives == PollTypeOK /\ [PollNext]_allVars => [Next]_vars
<1> SUFFICES ASSUME PollTypeOK, [PollNext]_allVars PROVE [Next]_vars
  OBVIOUS
<1>1. CASE \E t \in Tasks : Work(t)
  BY <1>1 DEF Work, Next
<1>2. CASE Ready
  BY <1>2, PollingAssumption DEF Ready, Next
<1>3. CASE Deliver
  <2>1. PICK t \in batch : Schedule(t)
    BY <1>3 DEF Deliver
  <2>2. t \in Tasks
    BY DEF PollTypeOK
  <2> QED
    BY <2>1, <2>2 DEF Next
<1>4. CASE End
  BY <1>4, PollingAssumption DEF End, Next
<1>5. CASE StopDrains \/ StopAbandons
  BY <1>5 DEF StopDrains, StopAbandons, Next
<1>6. CASE Arrive \/ Serve \/ Woken \/ Answer \/ Fail \/ FailForGood \/ Rested \/ Begin
  BY <1>6 DEF Arrive, Serve, Woken, Answer, Fail, FailForGood, Rested, Begin
<1>7. CASE BeginFails \/ Stop \/ Release \/ LoopEnded \/ Stopped \/ Deadline
  BY <1>7 DEF BeginFails, Stop, Release, LoopEnded, Stopped, Deadline
<1>8. CASE UNCHANGED allVars
  BY <1>8 DEF allVars
<1> QED
  BY <1>1, <1>2, <1>3, <1>4, <1>5, <1>6, <1>7, <1>8 DEF PollNext

LEMMA BotInvariance == PollSpec => [](IInv /\ BotInv) /\ Spec
<1>1. PollInit => Init /\ IInv /\ BotInv
  BY BotStart, InitInv DEF PollInit
<1>2. IInv /\ BotInv /\ [PollNext]_allVars => [Next]_vars /\ IInv' /\ BotInv'
  <2>1. BotInv => PollTypeOK
    BY DEF BotInv
  <2> QED
    BY <2>1, StepDrives, StepInv, BotStep
<1> QED
  BY <1>1, <1>2, PTL DEF PollSpec, Spec

(***************************************************************************)
(* The bot never uses its scheduler but as the scheduler's specification   *)
(* allows: updates of a chat are handled in order, one at a time, and      *)
(* whatever else is proved of the scheduler holds in the bot.              *)
(***************************************************************************)
THEOREM BotDrivesScheduler == PollSpec => Spec /\ Implements
BY BotInvariance, SchedulerImplements

(***************************************************************************)
(* No update is lost between the server and the scheduler, whichever       *)
(* requests and answers fail: what the server has forgotten was scheduled, *)
(* or discarded on request.                                                *)
(***************************************************************************)
THEOREM NothingIsForgotten == PollSpec => []NothingForgotten
<1>1. IInv /\ BotInv => NothingForgotten
  BY DEF BotInv, OffsetInv, Served, NothingForgotten
<1> QED
  BY <1>1, BotInvariance, PTL

(***************************************************************************)
(* No update is handed to the scheduler twice within a run: the offset has *)
(* always passed what was accepted before the loop delivers again.         *)
(***************************************************************************)
THEOREM NothingIsRepeated == PollSpec => []DeliveredOnce
<1>1. IInv /\ BotInv => DeliveredOnce
  <2> SUFFICES ASSUME BotInv, loop = "delivering", NEW t \in batch, t \in Accepted PROVE FALSE
    BY DEF DeliveredOnce
  <2>1. offset <= t /\ t < offset
    BY DEF BotInv, AnswerInv, OffsetInv
  <2>2. offset \in Nat /\ t \in Nat
    BY PollingAssumption DEF BotInv, PollTypeOK
  <2> QED
    BY <2>1, <2>2
<1> QED
  BY <1>1, BotInvariance, PTL

(***************************************************************************)
(* Backpressure bounds what is outstanding by the room there was when the  *)
(* request was made and one answer, however many updates arrive.           *)
(***************************************************************************)
THEOREM BacklogIsBounded == PollSpec => []Outstanding
<1>1. BotInv => Outstanding
  BY DEF BotInv
<1> QED
  BY <1>1, BotInvariance, PTL

(***************************************************************************)
(* A stop that reports that everything has finished is right: no handler is *)
(* under way or will start, unless the loop had ended on an error.         *)
(***************************************************************************)
THEOREM StopIsClean == PollSpec => []CleanStop
<1>1. BotInv => CleanStop
  BY DEF BotInv, StopInv, CleanStop
<1> QED
  BY <1>1, BotInvariance, PTL
=============================================================================
