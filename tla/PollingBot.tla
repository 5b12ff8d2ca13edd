------------------------------ MODULE PollingBot ------------------------------
(***************************************************************************)
(* A bot that receives its updates by long polling, from a server that     *)
(* keeps each of them until it is asked for a later one: createPolling in  *)
(* packages/bot-api/src/polling.ts, started and stopped by the Bot through *)
(* packages/core/src/lifecycle/lifecycle.ts.  The handlers are the tasks   *)
(* of the scheduler of module Scheduler, one for each update, and the loop *)
(* is its one producer.                                                    *)
(*                                                                         *)
(* A request may fail before it reaches the server or after, for once or   *)
(* for good; the bot may be stopped at any time, and its stop has a        *)
(* deadline.  One run is modelled, from its start until it has stopped.    *)
(***************************************************************************)
EXTENDS Scheduler

CONSTANTS
    Loop,       \* the producer the loop is
    MaxBatch    \* most updates of an answer

ASSUME PollingAssumption ==
    /\ Tasks \subseteq Nat \ {0}
    /\ Loop \in Producers
    /\ MaxBatch \in Nat \ {0}

VARIABLES
    arrived,    \* the updates the server has had: those up to this one
    confirmed,  \* those it has forgotten: up to this one
    skipped,    \* those dropPending discarded: up to this one
    offset,     \* what the next request asks from
    loop,       \* where the loop is
    batch,      \* the answer on its way, or being delivered
    polls,      \* the loop's own running
    life,       \* how far the bot has come
    tracked,    \* the handlers the lifecycle waits for
    hook,       \* how far polling.stop has come
    late,       \* the deadline of the stop has passed
    clean,      \* what the stop reports
    fatal       \* the loop ended on an error it could not recover from

server == <<arrived, confirmed, skipped>>
shutdown == <<life, tracked, hook, late, clean>>
pollVars == <<server, offset, loop, batch, polls, fatal, shutdown>>
allVars == <<vars, pollVars>>

Greater(a, b) == IF a > b THEN a ELSE b

Handling == In({"running"})

\* No answer is being delivered, which nothing interrupts.
AtRest == loop # "delivering"

-----------------------------------------------------------------------------
(* The server.                                                             *)

Arrive ==
    /\ arrived + 1 \in Tasks
    /\ arrived' = arrived + 1
    /\ UNCHANGED <<vars, confirmed, skipped, offset, loop, batch, polls, fatal, shutdown>>

\* What a request may be answered with: the first there are, and some if there are any.
Answers(n) ==
    LET left == {t \in Tasks : n < t /\ t <= arrived}
    IN  {S \in SUBSET left :
            /\ \A t \in S, u \in left : u < t => u \in S
            /\ Cardinality(S) <= MaxBatch
            /\ S = {} => left = {}}

\* A request that arrives confirms what it does not ask for any more.
Serve ==
    /\ loop = "asking"
    /\ confirmed' = Greater(confirmed, offset - 1)
    /\ batch' \in Answers(confirmed')
    /\ loop' = "served"
    /\ UNCHANGED <<vars, arrived, skipped, offset, polls, fatal, shutdown>>

-----------------------------------------------------------------------------
(* The loop.                                                               *)

\* Mutation: the backlog is asked about only when it has just been waited for.
ReadyAnyway ==
    /\ loop = "passing" /\ polls
    /\ loop' = "asking"
    /\ UNCHANGED <<vars, server, offset, batch, polls, fatal, shutdown>>

\* servePass: whether there is room is asked before every request.
Ready ==
    /\ loop = "passing" /\ polls
    /\ \/ /\ Cardinality(InFlight) < Capacity
          /\ loop' = "asking"
          /\ UNCHANGED vars
       \/ /\ loop' = "room"
          /\ WhenReady(Loop)
    /\ UNCHANGED <<server, offset, batch, polls, fatal, shutdown>>

Woken ==
    /\ loop = "room" /\ polls
    /\ Loop \notin room
    /\ loop' = "asking"
    /\ UNCHANGED <<vars, server, offset, batch, polls, fatal, shutdown>>

\* Mutation: an answer is trimmed to the room there is.
AnswerTrimmed ==
    /\ loop = "served"
    /\ offset' = IF batch = {} THEN offset
                 ELSE Greater(offset, CHOOSE n \in {t + 1 : t \in batch} : \A t \in batch : t < n)
    /\ batch' = {t \in batch : Cardinality(InFlight) + Cardinality({u \in batch : u <= t}) <= Capacity}
    /\ loop' = IF batch' = {} THEN "resting" ELSE "delivering"
    /\ UNCHANGED <<vars, server, polls, fatal, shutdown>>

\* An empty answer that came early is paced, and one that was held is not.
Answer ==
    /\ loop = "served"
    /\ loop' \in IF batch = {} THEN {"resting", "passing"} ELSE {"delivering"}
    /\ UNCHANGED <<vars, server, offset, batch, polls, fatal, shutdown>>

\* Mutation: the offset stays with the first update of an answer.
DeliverKeepsOffset ==
    /\ loop = "delivering"
    /\ \E t \in batch :
        /\ \A u \in batch : t <= u
        /\ Schedule(t)
        /\ offset' = IF offset > t THEN offset ELSE t
        /\ batch' = batch \ {t}
    /\ loop' = IF batch' = {} THEN "passing" ELSE "delivering"
    /\ UNCHANGED <<server, polls, fatal, shutdown>>

(***************************************************************************)
(* deliver, one update after another: nothing interrupts it.               *)
(***************************************************************************)
Deliver ==
    /\ loop = "delivering"
    /\ \E t \in batch :
        /\ \A u \in batch : t <= u
        /\ Schedule(t)
        /\ offset' = Greater(offset, t + 1)
        /\ batch' = batch \ {t}
    /\ loop' = IF batch' = {} THEN "passing" ELSE "delivering"
    /\ UNCHANGED <<server, polls, fatal, shutdown>>

\* recover: the request, or its answer, was lost, and is tried again later.
Fail ==
    /\ loop \in {"asking", "served"} /\ polls
    /\ loop' = "resting"
    /\ batch' = {}
    /\ UNCHANGED <<vars, server, offset, polls, fatal, shutdown>>

\* recover and fail: the server refuses, and asking again would not help.
FailForGood ==
    /\ loop = "asking" /\ polls
    /\ loop' = "over"
    /\ polls' = FALSE
    /\ fatal' = TRUE
    /\ UNCHANGED <<vars, server, offset, batch, shutdown>>

Rested ==
    /\ loop = "resting" /\ polls
    /\ loop' = "passing"
    /\ UNCHANGED <<vars, server, offset, batch, polls, fatal, shutdown>>

\* Aborted, or found stopped at the top of the loop.
End ==
    /\ loop \in {"passing", "room", "asking", "served", "resting"} /\ ~polls
    /\ loop' = "over"
    /\ batch' = {}
    /\ IF Loop \in room THEN Abort(Loop) ELSE UNCHANGED vars
    /\ UNCHANGED <<server, offset, polls, fatal, shutdown>>

-----------------------------------------------------------------------------
(* Starting and stopping.                                                  *)

\* What a dropPending that reaches the server makes it forget.
Drops ==
    /\ confirmed' = Greater(confirmed, arrived - 1)
    /\ skipped' = arrived
    /\ UNCHANGED arrived

\* #startPolling, with dropPending or without.
Begin ==
    /\ life \in {"idle", "failed"} /\ hook = "none"
    /\ life' = "running"
    /\ polls' = TRUE
    /\ loop' = "passing"
    /\ \/ UNCHANGED <<server, offset>>
       \/ Drops /\ offset' = IF arrived > confirmed THEN arrived + 1 ELSE offset
    /\ UNCHANGED <<vars, batch, fatal, tracked, hook, late, clean>>

\* It fails: before there is a loop, or while the queue is being dropped.
BeginFails ==
    /\ life \in {"idle", "failed"} /\ hook = "none"
    /\ life' = "failed"
    /\ polls' \in BOOLEAN
    /\ UNCHANGED server \/ (polls' /\ Drops)
    /\ UNCHANGED <<vars, offset, loop, batch, fatal, tracked, hook, late, clean>>

\* stop, by the application or queued by onFatal: what is running is waited for.
Stop ==
    /\ AtRest
    /\ life \in {"running", "failed"}
    /\ life' = "draining"
    /\ tracked' = Handling
    /\ UNCHANGED <<vars, server, offset, loop, batch, polls, fatal, hook, late, clean>>

\* Mutation: the scheduler is drained while the loop may still deliver.
PollingStopAtOnce ==
    /\ polls' = FALSE
    /\ hook' = IF loop # "off" THEN "drain" ELSE "done"

\* polling.stop: the loop is aborted and waited for, and then the scheduler.
PollingStop ==
    /\ polls' = FALSE
    /\ hook' = IF polls THEN "loop" ELSE "done"

\* The drain of the lifecycle is over, and onStop is called.
Release ==
    /\ AtRest
    /\ life = "draining"
    /\ late \/ tracked \cap Handling = {}
    /\ clean' = ~late
    /\ PollingStop
    /\ life' = IF late THEN "stopped" ELSE "closing"
    /\ UNCHANGED <<vars, server, offset, loop, batch, fatal, tracked, late>>

\* Mutation: a loop that never was is waited for.
LoopEndedOnly ==
    /\ hook = "loop"
    /\ loop = "over"
    /\ hook' = "drain"
    /\ UNCHANGED <<vars, server, offset, loop, batch, polls, fatal, life, tracked, late, clean>>

LoopEnded ==
    /\ hook = "loop"
    /\ loop \in {"over", "off"}
    /\ hook' = "drain"
    /\ UNCHANGED <<vars, server, offset, loop, batch, polls, fatal, life, tracked, late, clean>>

StopDrains ==
    /\ hook = "drain"
    /\ Drain
    /\ hook' = IF drain' = "done" THEN "done" ELSE "drain"
    /\ UNCHANGED <<server, offset, loop, batch, polls, fatal, life, tracked, late, clean>>

StopAbandons ==
    /\ hook = "drain" /\ late
    /\ Abandon
    /\ hook' = "done"
    /\ UNCHANGED <<server, offset, loop, batch, polls, fatal, life, tracked, late, clean>>

Stopped ==
    /\ life = "closing"
    /\ hook = "done"
    /\ life' = "stopped"
    /\ UNCHANGED <<vars, server, offset, loop, batch, polls, fatal, tracked, hook, late, clean>>

\* The deadline: whatever stop waits for then is abandoned.
Deadline ==
    /\ AtRest
    /\ life \in {"draining", "closing"} /\ ~late
    /\ late' = TRUE
    /\ life' = IF life = "closing" THEN "stopped" ELSE life
    /\ clean' = FALSE
    /\ UNCHANGED <<vars, server, offset, loop, batch, polls, fatal, tracked, hook>>

-----------------------------------------------------------------------------

\* The code of a handler, and of the scheduler around it.
Work(t) ==
    /\ AtRest
    /\ Microtask(t) \/ Finish(t)
    /\ UNCHANGED pollVars

PollInit ==
    /\ Init
    /\ arrived = 0 /\ confirmed = 0 /\ skipped = 0
    /\ offset = 0 /\ loop = "off" /\ batch = {} /\ polls = FALSE /\ fatal = FALSE
    /\ life = "idle" /\ tracked = {} /\ hook = "none" /\ late = FALSE /\ clean = FALSE

PollNext ==
    \/ \E t \in Tasks : Work(t)
    \/ Arrive \/ Serve
    \/ Ready \/ Woken \/ Answer \/ Deliver \/ Fail \/ FailForGood \/ Rested \/ End
    \/ Begin \/ BeginFails \/ Stop \/ Release \/ LoopEnded
    \/ StopDrains \/ StopAbandons \/ Stopped \/ Deadline

PollSpec == PollInit /\ [][PollNext]_allVars

(***************************************************************************)
(* Handlers end, the runtime runs what is due and waits end; the server    *)
(* hears some of the requests and the loop some of the answers.  Nothing   *)
(* is asked of the deadline.                                               *)
(***************************************************************************)
FairPollSpec ==
    /\ PollSpec
    /\ \A t \in Tasks : WF_allVars(Work(t))
    /\ WF_allVars(Deliver)
    /\ WF_allVars(Ready \/ Woken \/ Rested) /\ WF_allVars(End)
    /\ SF_allVars(Serve) /\ SF_allVars(Answer)
    /\ WF_allVars(fatal /\ Stop)
    /\ WF_allVars(Release \/ LoopEnded \/ StopDrains \/ Stopped)

-----------------------------------------------------------------------------

PollTypeOK ==
    /\ arrived \in Tasks \cup {0} /\ confirmed \in Nat /\ skipped \in Nat
    /\ offset \in Nat
    /\ loop \in {"off", "passing", "room", "asking", "served", "delivering", "resting", "over"}
    /\ batch \subseteq Tasks
    /\ polls \in BOOLEAN /\ fatal \in BOOLEAN /\ late \in BOOLEAN /\ clean \in BOOLEAN
    /\ life \in {"idle", "running", "failed", "draining", "closing", "stopped"}
    /\ tracked \subseteq Tasks
    /\ hook \in {"none", "loop", "drain", "done"}

(***************************************************************************)
(* No update is lost between the server and the scheduler, whichever       *)
(* request or answer is: what the server has forgotten was scheduled, or   *)
(* discarded on request.                                                   *)
(***************************************************************************)
NothingForgotten ==
    \A t \in Tasks : t <= confirmed => t <= skipped \/ t \in Accepted

(***************************************************************************)
(* Within a run no update is handed to the handlers twice, however often   *)
(* it is asked for again.                                                  *)
(***************************************************************************)
DeliveredOnce == loop = "delivering" => batch \cap Accepted = {}

(***************************************************************************)
(* Backpressure: what is outstanding is bounded by the room there was when *)
(* the request was made and one answer, however many updates arrive and    *)
(* however slow the handlers are.                                          *)
(***************************************************************************)
RoomLeft == Greater(Capacity - 1, ResumeAt)

Outstanding == Cardinality(InFlight) <= RoomLeft + MaxBatch

(***************************************************************************)
(* A stop that reports that everything has finished is right: no handler   *)
(* is under way or will start, unless the loop had ended on an error.      *)
(***************************************************************************)
CleanStop == life = "stopped" /\ clean /\ ~fatal => InFlight = {} /\ loop \in {"over", "off"}

(***************************************************************************)
(* Every update that arrives while the loop runs is handled to its end,    *)
(* whatever requests fail on the way, unless the bot is stopped.           *)
(***************************************************************************)
EveryUpdateIsHandled ==
    \A t \in Tasks :
        t <= arrived /\ life = "running" ~>
            t <= skipped \/ phase[t] = "gone" \/ life # "running"

(***************************************************************************)
(* A stop ends, the one a fatal error queues and that of a bot that failed *)
(* to start among them, and not only because its deadline passes.          *)
(***************************************************************************)
StopEnds == fatal \/ life \in {"draining", "closing"} ~> life = "stopped"
=============================================================================
