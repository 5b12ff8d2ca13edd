# A verification of Yuigram

Yuigram is a TypeScript framework for Telegram clients and bots. The modules here
describe in TLA+ the parts of it that decide which updates are handled, in what order
and how often: on the side of a client the update manager of
`packages/mtproto/src/updates` and the area of a store its account owns; on the side
of a bot the polling loop and its stop; and, common to both, the scheduler updates are
handled by, the turns and waits of a conversation, and the stored runs of its flows.
TLC checks them on small instances, and TLAPS proves the theorems for every instance.
The rest of the system is listed here and, where it is worth it, planned in section 8.

## 1. The system

| Component | State it keeps | Operations | Talks to |
|---|---|---|---|
| Update sequences (`updates/state.ts`) | the count of each box, the container number, remembered identities | `judge`, `judgeContainer`, `advance`, `reset`, `remember` | nobody: values only |
| Update manager (`updates/manager.ts`) | windows (`pending`), catch-ups (`catching`), channels gone and followed, calls awaited, what arrived early | `feed`, `absorb`, `expect`, `recover`, `watchChannel`, `unwatchChannel`, `close` | the server through `invoke`, the peer store, timers, `onUpdate`, `onPosition` |
| Own effects (`updates/local.ts`) | none | what of an answer is the call's own | the manager |
| Account (`account.ts`, `storage/updates.ts`) | the position written down, the network, the lifecycle | `feed`, `#invoke`, `#catchUp`, `#remember`, start and stop | manager, connections, dispatcher |
| MTProto session (`session/`) | requests in flight, acknowledgements, salts, message numbers | send, receive, resend, expire | one connection |
| Connections and datacenters (`network/`) | channels open and reconnecting, keys, the home datacenter | open, lose, reopen, migrate, sign in | session, storage |
| Storage ownership (`storage/ownership.ts`, `core/src/storage/guard.ts`, leases of `packages/redis` and `packages/sqlite`) | who has the name in a process, who has the lease in the store, the claim written in the area, writes under way | claim, take over, write, renew, lose, release | every write of the account |
| Worker (`worker/`) | calls and streams in flight on each side of a message port | call, answer, cancel, close | an account behind the port |
| File transfers (`files/`) | parts in flight, file references | download, upload, refresh | pools of connections |
| Conversations and scenes (`core/src/conversation`) | a queue per key, one waiter per key, the journal of a flow, timers | take a turn, lend it, wait, offer, start, replay, time out, cancel, resume | scheduler, dispatcher, stores |
| Keyed sessions (`core/src/session`) | a queue per key, the value loaded | load, change, save | dispatcher, stores |
| Scheduler (`core/src/scheduler`) | a chain per key, slots, who waits for a slot or for room | `run`, `whenReady`, `drain` | whatever produces updates |
| Lifecycle, dispatcher (`core/src`) | phases, what is tracked, handlers | start, stop, track, drain, dispatch | everything above |
| Text streaming (`core/src/stream`) | the text shown, the edit in flight | push, flush, finish | the sender |
| Bot polling, webhook, throttle (`bot-api/src`) | the offset, the batch in hand, a retry time | poll, deliver, stop | Bot API server |
| Stores (`core/src/storage`, `redis`, `sqlite`) | keys and values | get, set, delete | files, servers |
| Formatting, cryptography, wire formats, generated API | none | conversions | — |

What makes them hard: every `await` in the manager is a place where the stream, a
timer, an answer to another question or a caller may come in between; the network
loses, repeats and reorders; the process may end between taking a position and
writing it down; and a hand-over from a window to a catch-up to a retry that
forgets one list loses updates with nothing left to notice it by. The scheduler counts
a slot as free before the caller it is for has taken it. A write is admitted by what a
run believes and lands after what it believed has changed. A handler that waits lends
its turn to the update it waits for. A flow is run again from the top after its process
died between doing something and writing that it was done.

What makes each correct: the manager steps over nothing, hands out once and in
order, resolves what it holds and goes on asking about what is followed; the
account resumes only from what was reported; the session answers each request
once; an area has one owner; a key's turns do not overlap; a conversation gets
each update at most once; the scheduler keeps to its limit; a stop waits for what
was tracked; polling confirms only what it delivered.

## 2. Modules

| Module | Models | Uses |
|---|---|---|
| `UpdateState` | `state.ts`: the verdicts and how a count is moved on | |
| `Updates` | `manager.ts` for an account that holds a position: the core of the system | `UpdateState`, `UpdateStream` |
| `UpdateStream` | what the manager promises its listener: an abstract specification, which `Updates` implements | |
| `UpdatesBaseline` | the question for a starting position (`establish`, `holdEarly`, `drainEarly`), the position written down (`#remember`, `storage/updates.ts`) and the run that resumes from it | `UpdateState` |
| `Scheduler` | `core/src/scheduler/scheduler.ts`, microtask by microtask | `SerialByKey` |
| `SerialByKey` | a queue that keeps the tasks of a key in order: an abstract specification, which `Scheduler` implements | |
| `PollingBot` | `bot-api/src/polling.ts` with the starting, stopping and draining of `bot.ts` and `lifecycle.ts`, composed with the scheduler and with a server that keeps updates until a later one is asked for | `Scheduler` |
| `AreaOwnership` | `storage/ownership.ts` over the guards of processes and the leases of a store | |
| `Conversations` | the turns, the lock and the waits of one conversation (`conversation.ts`, `identity.ts`, `waiters.ts`), behind a transport that hands over updates at once or one at a time | |
| `Flows` | `flows.ts`: a stored run of a conversation, its passes, deadlines, shutdowns and crashes | |
| `MCUpdates`, `MCPollingBot`, `MCAreaOwnership`, `MCConversations`, `MCFlows` | the instances TLC checks; `UpdatesBaseline` is checked directly | |
| `UpdateStateProofs` | the least and the greatest of a set of positions | `UpdateState` |
| `UpdatesProofs` | the inductive invariants of `Updates`: types, nothing stepped over or handed out past a hole, the promise of `UpdateStream`, the following of a channel, one catch-up of a box and no way back | `Updates`, `UpdateStateProofs` |
| `UpdatesBaselineProofs` | the inductive invariants of `UpdatesBaseline`: types, the stored position, why a position is asked for, and that what is early is kept | `UpdatesBaseline`, `UpdateStateProofs` |
| `SchedulerProofs` | the invariant of `Scheduler` and that it implements `SerialByKey` | `Scheduler` |
| `PollingBotProofs` | that the bot drives the scheduler as it allows; nothing lost, repeated or unbounded; a clean stop | `PollingBot`, `SchedulerProofs` |
| `AreaOwnershipProofs` | safety of a leased area, and of the names of any | `AreaOwnership` |
| `ConversationsProofs` | one handler at a time, and nothing left behind | `Conversations` |
| `FlowsProofs` | effects happen once, an update answers once, and the stored journal grows and can be replayed | `Flows` |

`Updates` and `UpdatesBaseline` divide the manager between them. `Updates` has
any number of boxes, containers, catch-ups of several pages, two catch-ups at once,
channels and their followers, and assumes there is a position. `UpdatesBaseline`
begins without one and has crashes, the store and several runs, and keeps only one
box with one-page catch-ups, which is what the question for a position and the
store need to be told apart from each other.

## 3. How the state and the actions correspond to the code

An **event** is something that happened in a box at the server: a pair of the box
and the position (`pts`) it left the box at; `Count` is its `pts_count`. The log of
each box is a constant, and the server works through it (`Happen`). The stream is not
a queue: `Feed` may deliver any set of events that have happened, at any time and as
often as it likes, so loss, duplication and reordering are in every run. Between two
`await`s the code is one action; at each `await` anything else may happen.

| `Updates` | `manager.ts` |
|---|---|
| `local`, `seq` | `UpdateState.#common.pts`, `.seq` and `#channels` (`NoPts`: no entry) |
| `known` | `#seen`, the remembered identities, without the limit of 2000 |
| `pending`, `waiting` | `pending`: a window (`ordered`) or a retry (`asking`), and its `waiting` list |
| `catching`, `held` | `catching`, and the list each of its entries holds |
| `att` | the calls of `catchUp` in progress: naming the channel, asking, saving, draining |
| `feed` | the calls of `feed` and `absorb` in progress, around the `await` of `harvest` and between two updates of a container |
| `gone`, `watching`, `follow`, `closed` | `gone`, `watching`, the timer of `followAgain`, `closed` |
| `srv`, `member` | the server (external) |
| `handed`, `twice`, `skipped` | histories: what `onUpdate` was given, and what a position was taken past without asking |

`Consume` is `consume` with everything it calls before it returns: the verdict, the
dispatch, `closeWindow` and its passes over what is held. `Run` says in one
definition what those passes let through: every held position with all between it
and the count held as well. `TakePage` and the five `Answer` actions are the
branches of `catchUp` by the kind of difference; `Completed` is its end. `Begun` and
`Recovering` are the two ways an attempt is made, by a window or a retry (which
replaces the entry, `manager.ts:597`) and by `recover` (which joins it, `:1241`).

| `UpdatesBaseline` | code |
|---|---|
| `established`, `early` | `established` and `early` in `manager.ts` |
| `asking` | `establishing`: being asked, draining what was early, inside the `await` of a container's peers, with an update handled and not yet removed, saving |
| `taking` | `early[0]` as `drainEarly` was given it, until `early.shift()` |
| `awaiting` | who awaits that promise, and so goes on to `#remember` after it: `feed`, and `recover` by way of `#catchUp` |
| `again` | the timer of `establishLater` |
| `arriving` | calls of `holdEarly` inside the `await` of `harvest`, which every one of them goes through |
| `owed`, `writing`, `store` | a `#remember` about to be made, the writes under way, and `storage/updates.ts` |
| `told`, `waited` | histories: what Telegram answered, what was held early |
| `dropped`, `cut`, `passed` | histories: what was reported as dropped at the limit (`:1114`), what `early.shift()` removed in the place of another (`:659`), and what waited behind a gap as another answer went past it (`:711`) |

| `Scheduler` | `scheduler.ts` |
|---|---|
| `phase` | where the `async` function of a task is: behind its chain, waiting for a slot, woken, holding one, at work, slot given back, settled |
| `behind`, `tail` | the promise a task is chained to, and `chains` |
| `running`, `slots`, `room` | `running`, `waitingForSlot`, `waitingForRoom` |
| `drain`, `wave` | a call of `drain`, and the promises it awaits at the moment |

| `PollingBot` | code |
|---|---|
| `offset`, `loop`, `polls` | `offset`, where `run` and `servePass` are, and `running` of `polling.ts` |
| `batch` | the answer of `getUpdates`, on its way or being delivered |
| `life`, `tracked`, `late`, `clean` | the state, `#inFlight`, the deadline and `#drained` of `lifecycle.ts` |
| `hook` | how far `polling.stop` has come, inside `onStop` |
| `arrived`, `confirmed`, `skipped` | the server (external) |

`Deliver` takes one update at a time and nothing comes between two of them
(`AtRest`), because `deliver` does not await. `Release` is the end of the lifecycle's
own drain and the call of `polling.stop`; that drain lists what is tracked once.

| `AreaOwnership` | code |
|---|---|
| `stage` | how far a call of `claimArea`, or of the `release` it returns, has come |
| `registry`, `holds`, `waitsFor` | the map of `processGuard`, `entry.held`, and whose `quiet` is awaited in `take` |
| `owner`, `token` | the lease in the store: who has it, and the last token |
| `turn`, `believes` | the token of a run's lease, and `held` of it |
| `claim` | the claim written in the area |
| `writing`, `adrift` | writes counted by `mutating`, and writes sent whose answer nobody awaits any more |

A write is admitted by `Put` and lands in another step, `PutAnswered` or `Arrives`: so
any number of other steps come between the check of `mutating` and the store's own.

| `Conversations` | code |
|---|---|
| `ticket`, `ahead`, `tail` | the promises of `ConversationLocks.acquire` and `#queues` |
| `stage`, `keeps` | where the middleware is with an update, and `#release` of its `Turn` |
| `wait`, `caller`, `pending`, `closed` | a call of `wait` and of `Turn.during` around it, whose it is, `#pending` and `#closed` of `waiters.ts` |
| `asked` | the entry `offer` has in hand while a predicate of it is awaited |

| `Flows` | code |
|---|---|
| `store` | the record in the store: status, journal, the wait it is at, what started it |
| `pass` | the `Pass` under way: what drives it, its own journal, the steps replayed so far |
| `timer`, `fired`, `found` | `#timers`, an expiry that waits for the conversation's turn, and what `resume` has read |
| `handlers`, `next` | the handlers of an update, which may call `start`, and a start that waits for the run before to be cancelled |
| `done`, `lost` | histories: how often the effect at each place was really run, and whether a failure of the store has left nothing to look at the deadline |

The function of a flow is `Program`, a map from what the steps so far came to (`"ok"` or
`"thrown"`) to the label of the next: that is all a replay depends on.

What is abstracted:

- a list that holds updates is a set, drained in any order in `Updates`, which
  allows more than the code does, and lowest first in `UpdatesBaseline`;
- delays, backoff and dates are left out: a timer that is set may fire at any time;
- identities are remembered without limit, so nothing is said of an update that
  returns after 2000 others;
- updates that belong to no box, and those of secret chats (`qts`), are handed out
  by the code without being judged, and are left out;
- which updates of an answer are the call's own is the constant `Own`; recognising
  them in the stream before the answer comes (`expect`, `local.ts`) is not modelled;
- an event takes at least one step (`CountAssumption`). Telegram sends some with
  `pts_count` 0, which have the position of the event before them;
- in `UpdatesBaseline`, once there is a position, the peers of an update are written
  down at once, a catch-up has one page, and there is one at a time;
- in `Scheduler` a task that fails ends as one that succeeds, and there is one call of
  `drain` at a time, as the code around it makes;
- in `PollingBot` pauses have no length, and there is one run of a bot, which cannot be
  started again once it was stopped;
- in `AreaOwnership` the guard is that of a process (not of a browser's origin), a run
  has one write under way besides its claims, and time is the step `Lapse`;
- in `Conversations` what a predicate says and whether an update stops at a wait is any
  choice; scenes and flows are what handlers do;
- in `Flows` there is one version of one deterministic function. The store may fail to
  write what a step came to and how a run ended, and to read the run at a deadline or
  in `resume`, but not to write that a run or a wait began, that an answer was rejected
  or that a run at no wait was cancelled, nor to read the run for an update. An effect
  whose start could not be written is passed over in a replay as one that threw, where
  the code would try it again if that is safe to repeat. A run that is over is kept until
  another replaces it.

## 4. What the runs check

Every run says `CHECK_DEADLOCK FALSE`: a manager that is closed, a bot that has
stopped, an area given back or a conversation with nothing left to hear of may stop.

| Run | Question | Bounds |
|---|---|---|
| `gaps` | Over a stream that loses, repeats and reorders: does no position step over an event (`NothingSteppedOver`), is nothing handed out past a hole (`NoHoleBehind`), does no box move back (`NeverBack`), is each chased once (`OneChase`)? | one box with three events, the second of two steps; up to two updates at a time; catch-ups of two pages, two attempts |
| `containers` | With two containers taken in at once, each update of one between two of the other: does no position step over an event (`NothingSteppedOver`) or move back (`NeverBack`), and is everything that waits out a gap, a catch-up or a container out of sequence accounted for in the end (`HeldIsResolved`)? | a channel of two events, the second of two steps, and a common box in which a container out of sequence waits; two feeds of up to two updates, in containers of two numbers; one attempt of one page, under `FairSpec` |
| `chases` | Gaps, overflows and new sessions start catch-ups of one box at once, and answers to the account's own calls report the same events: does no position step over an event for it (`NothingSteppedOver`), and is what is handed out what a listener was promised, each event once and in order (`KeepsThePromise`)? | two events, one of them the account's own; two attempts |
| `watch` | Two callers follow a channel with no count and stop; it is left and joined; refreshes fail or find it too far behind: does it go on being asked about (`FollowedIsAsked`), and do the counts agree (`TypeOK`)? | a channel of two events, enough pages for either, one attempt |
| `baseline` | Peers are written down slowly, or not; questions fail, half way too: is what is held while there is no position let through in the end (`HeldIsLetThrough`)? | two events, one a container; room for one to wait; one run, which writes down its first position only (`MaxWrites = 0`), under `FairSpec` |
| `stranded` | the second finding of section 7: `EarlyIsHandedOut`, which says what the documentation says, fails | those of `baseline` |
| `restart` | Whatever is in the store, after any crash and with writes landing in any order, is it safe to resume from (`StoredIsSafe`)? Whatever was held before there was a position, does some list still have it until it is handed out or given up (`Kept`)? Is a position asked for only while something waits for it (`AsksForAReason`)? | the same two events and room for one, two runs, three writes at once besides that of the question |
| `polling` | Does a bot whose requests and answers are lost forget no update (`NothingForgotten`), deliver none twice (`DeliveredOnce`), handle each (`EveryUpdateIsHandled`), in the order of its chat (`Implements`), with what is outstanding bounded (`Outstanding`)? Does nobody wait in vain for a slot (`NoSlotIdle`) or for room (`NoProducerStranded`)? Does a stop end (`StopEnds`), and is a clean one clean (`CleanStop`)? | four updates, the first and last of one chat and two of none; two at once, room for two, answers of two |
| `ownership` | Over leases that lapse, answers that are lost and processes that die: does no write of a superseded run land (`NoLateWrite`), does the claim name the owner (`ClaimIsTheOwners`), is no name left with a run that ended (`NoNameLeaked`), does a takeover go on (`TakeoverGoesOn`)? | three runs, two of them in one process, which may die; one of that process and the other one take over; one answer lost |
| `conversations` | However waits are answered, replaced, timed out, cancelled or left behind: does one handler go on at a time (`RunsAlone`), do updates get the turn in the order they came in (`NoneOvertakes`), is the lock dropped (`NoLockLeaked`), is nothing awaited while the client stops (`NoWaitWhileClosed`), is each update let in (`EveryoneIsLetIn`) and does each wait come back (`WaitComesBack`)? | three updates and three waits, one at a time by each handler; the transport hands updates over at once |
| `flows` | Wherever the process stops, whatever is delivered again: does an effect happen once (`AtMostOnce`), can a stored run be carried on (`NeverDiverges`), does an update answer one wait (`AnswersOnce`), is the journal never rewritten (`JournalGrows`), is each deadline acted on (`DeadlineIsKept`)? | a function that asks with a deadline and apologises when it passes, orders once, and asks again, for one thing or another as the order went, with another deadline; three updates, two runs, two stops, two failures of the store, to write or to read |
| `polled_wait` | the finding of section 7: with a transport that hands over one update of a chat at a time, `EveryoneIsLetIn` fails | those of `conversations` |

Why these bounds. A hole needs an event missing and one beyond it; a window that
lets through some of what it holds and not all of it needs a third, and a difference
between "what was reached" and "what is next" needs an event of more than one step:
hence the log of `gaps`. In `containers` two feeds are enough for one to come between two
updates of the other, the channel has two events so that there is one to step over and a
place to go back to, and the second of two numbers is a container out of sequence. Such a
container waits in the common box whichever box its updates belong to, and they are judged
in their own once that has been asked about: two boxes are enough, and updates of no
container are left to the other runs. Two attempts are enough for one catch-up to replace or join
another. Two pages are enough for a catch-up to stop half way and for the next page
to be asked from another position. For the question, two events are enough for one
to be covered by the answer and one beyond it, and room for one of them to wait is the
limit, at which the other drops it or is cut off in its place. In `baseline` and `stranded`
no position is written down but the one the question itself waits for: the others end
nothing anybody waits for, and the three at once of `restart` make its states ten times
as many.

In `polling`, two of four updates have a slot, a third waits for one and the fourth is
behind the first of its chat; an answer of two is enough to go past the capacity of
two, and what is left after it to have the loop wait for room. In `ownership`, a steal
within a process and one between processes, at the same time, need three runs; one lost
answer is enough for a write to land after its run was given up. In `conversations`
three updates are one that waits, its answer, and one that comes behind while the turn
is taken back; a third wait is one opened, while another is coming back, by a handle
kept past its update. In `flows` two stops are a crash within the recovery from a
crash, and two runs are a start that replaces; two failures of the store are one to
write what a deadline came to and one to write the end that follows, which together leave
a run with a deadline that has passed and no timer, a case `DeadlineIsKept` has to except.
The theorems of section 6 hold without
these bounds.

`NeverBack`, `OneChase` and `FollowedIsAsked` are checked where they hold. With an
overflow or a new session a box may be chased twice, and then move back, and a channel
may be forgotten for want of pages: those are findings 1 and 2 of section 7, and the
theorems about them have the same hypotheses. So `OneChase` covers the windows, retries and
follow-on catch-ups of one box, and not the half of that hazard that `recover` and an
overflow are: there `chases` shows what is left, `NothingSteppedOver` and `KeepsThePromise`.

In `UpdatesBaseline` every update that finds no position waits for its peers, which may
fail, before it is held, as in the code, and a question may fail half way through what
waits. The documentation's promise does not hold then (`EarlyIsHandedOut`, run `stranded`).
What does hold is `HeldIsLetThrough`, of what is held while there is no position, and
`Kept`, of all that is held, with the two exceptions the code makes named as such: `passed`
(section 7, 5) and `cut`. `AsksForAReason` does not say that an account that has a position
asks for no other, for it does (section 7, 4), only that somebody waits for the answer.

`NeverDiverges` says nothing once the store has failed to write, where it does not hold
(section 7, 6); that a step could not be stored is a hazard no property here catches. The
other properties of `flows` hold then too. `DeadlineIsKept` is about a run that can be
carried on, and excepts a failure of the store that leaves nothing to look at the deadline
(`lost`; section 7). `AnswersOnce` speaks of answers only: an update that a wait rejected, or
whose code it made fail, is not recorded as used (section 7). `ownership` has
`Leases = TRUE`: over a store that does not lease its areas `NoLateWrite` does not hold.

## 5. Fairness

`Updates!Fairness` says that timers fire (`WindowEnds`, `Refresh`), that a catch-up
goes on between two awaits (`Saved`, `Drain`, `Drained`), and that a question is in the end
answered or fails, of the event loop and of the deadline `invoke` puts on a call. Nothing
obliges the server to deliver anything, and nothing is said of feeds. Two assumptions are
strong: a channel that is to be named again and again is at some time found (`Name`), and a
box that is asked about again and again is at some time answered to the last page
(`AnswerFinal`). A manager that retries for ever, and is refused for ever, resolves nothing,
and the code promises nothing else. Strong fairness for `WindowEnds` is no assumption
about the code: a timer that is due fires, but in the model it has to find one of the
`Attempts` free, which is a bound, and with one attempt another box may always have it.
While a window holds anything only its timer ends it, so none is put off for ever.
`UpdatesBaseline!FairSpec` says as much, with strong fairness for the question for a
position, for a catch-up and for writing down the peers of a container that is early, each
of which may fail as often as it likes and is tried again. `Happen`, `Close`, `Stop`,
`Recover` and every delivery are left free.

`PollingBot!FairPollSpec`: a handler ends and the microtasks of the scheduler run;
`deliver` is finished; a wait for room, a pause or an abort is noticed; the steps of a
stop follow each other, and the stop a fatal error queues is made. That the server
hears some of the requests and the loop some of the answers is strong fairness: a bot
that is cut off for good handles nothing. The deadline of a stop is not assumed to
pass, so `StopEnds` does not rest on it. `AreaOwnership!FairSpec`: the store answers a
write or the write fails, and a run that is granted its name goes on. Nothing is said of
runs giving their area back. `Conversations!FairSpec`: a promise that is resolved goes
on, predicates answer, and a handler that waits for nothing ends. A wait is not assumed
to be answered, which is what makes `EveryoneIsLetIn` worth checking. `Flows!FairSpec`:
a pass goes on to its next step, handlers end, timers fire, and a process that ended is
followed by one that calls `resume`. An expiry needs strong fairness, because it waits
for a turn that others take; no update is assumed to come.

## 6. What is proved

The theorems hold for every value of the constants that satisfies the named
assumptions. Those of the update manager: that boxes, attempts and `None` are distinct
(`BoxAssumption`), that the logs are sets of positions up to some highest one (`LogAssumption`), that the steps of
a box partition its log, each event taking up where the one before it ends
(`CountAssumption`), that a box starts at one of its
positions or has none (`StartAssumption`), and the types of the bounds.

**`UpdatesProofs`.** `IInv` is `TypeOK`, `NothingSteppedOver` and
`AskedIsAccounted`. `NothingSteppedOver` alone is not inductive: a page of a
difference hands out what lies between the position it was *asked from* and the one
it ends at, and takes the latter as the count, so what lies before the position
asked from has to be accounted for already, though the count may have moved, or the
channel been forgotten, while the answer was on its way. `AskedIsAccounted` says so
of every attempt. It becomes true when an attempt is made, because the position is
the count of the moment, and stays true because what is accounted for only grows.
There is a lemma for each action: `ConsumeStep` for an update, `FreedStep` for a
window that ends, `TakePageStep` for a page, `CompletedStep` for the end of a
catch-up. `RunIsUnbroken` says what the passes of `closeWindow` leave behind.

- `TypeCorrect`: `Spec => []TypeOK`
- `NeverSteppedOver`: `Spec => []NothingSteppedOver`

*What is handed out.* Every step hands out nothing, or hands out through
`Dispatch` events its box has reached by the end of the step (`NextHands`). What was
handed out is remembered, so

nothing is handed out twice (`HandedOnce`, a part of the refinement below), and what lies
before a position its box has reached is accounted for, so

- `NeverPastAHole`: `Spec => NoHoleBehind`.

Together these are a refinement. `UpdateStream` knows only how often each event was
reported and which are settled; with `times` read from `handed` and `twice` and
`settled` being `Accounted`, each step of the manager reports a set of events that were
never reported before and whose predecessors are settled by the end of it, or settles
some, or stutters:

- `ManagerKeepsThePromise`: `Spec => KeepsThePromise`.

*The verdicts, and the passes of a window.* `judge` compares a position and a number of
steps with a count; what is meant is the order of the log. They agree as long as the count
is always the position of an event or the origin, which `Happened` (below) says of every
reachable state, whatever mix of stream, windows and answers brought a box there:

- `VerdictsAreByOrder`: `Spec => []JudgedByOrder`: an update is seen exactly when it is
  counted, and applied exactly when nothing of the log lies between.

The passes of `closeWindow` judge what is held one update at a time, where the model lets
through all of `Run` in one step. `OnTheWay` is the invariant of that loop: the box stands
at the last of what has been applied, and that is the part of `Run` up to there.

- `PassesApplyRun`: the loop starts on the way; what it drops as seen is behind; what it
  applies is the next of `Run` and keeps it on the way; and where it finds gaps only, all of
  `Run` is applied, and what it keeps is what `CloseWindow` keeps.

*The following of a channel.* `Arranged` says that a channel somebody follows has its
timer set or a refreshing call under way. A call that ends sets the timer again, but one
that runs out of pages hands its channel to another call that sets none: so no such
call may run out. `PagesCounted` bounds the pages it has asked for by the number of
positions of the log up to the one it asks from, each page ending at a later one. That
a page ends at a position of the log, no further than the server has come when it is
asked, is `Happened`, an invariant of its own: nothing is known here before it has
happened. The theorem needs `EnoughPages`, that no answer stalls (says there is more and
moves nothing) and a call may follow more pages than its channel has events; otherwise a
channel is forgotten (section 7, 2).

- `FollowingGoesOn`: if `EnoughPages`, `Spec => []FollowedIsAsked`

*One catch-up, and no way back.* `Lone` says of a box that one call at most chases it,
which is the one its entry in `catching` is of, that no window of it is open meanwhile,
and that the box stands where the call asks from. The last part is what makes the answer
move the box forward: `Reached` and the drain that follow start from where it was asked.
It is kept because an update that comes while the call is under way is held, and
because a gap opens a window only where nothing is chased. `Lone` is inductive for each
box that only its own gaps have asked about (`GapsOnly`), whatever becomes of the others;
`AllLone` puts them together, with `ClosedIsStill` for what goes on after a close. Where
an overflow, a new session or a follower has the box asked about besides, it fails
(section 7, 1), so the theorems assume there is none: `OnlyGaps`.

- `ChasedOnce`: if `OnlyGaps`, `Spec => []OneChase`
- `NothingTakenBack`: if `OnlyGaps`, `Spec => NeverBack`
- `GapsTakeNothingBack`: if `GapsOnly(b)`, `Spec => [][closed \/ MovesOn(b)]_vars`: the same
  of one box, whatever the others do

What is left of it without any hypothesis bounds the harm: a box goes back only with an
answer, and to no position before the one that was asked from, which had been reached.

- `BackOnlyWithAnAnswer`: `Spec => [][\A b \in Boxes : MovesOn(b) \/ Lands(b)]_vars`

**`UpdatesBaselineProofs`.** A position in the store came from `local` by way of a
write; `local` comes from the answer to the question, from a catch-up or from the
store of the run before. `IInv` therefore says that each of those is safe: `local`,
every write under way, the store, and the position a catch-up was asked from; and
that what is early was held early (`InHand`). A crash then loses nothing the store
counts.

- `TypeCorrect`: `Spec => []TypeOK`
- `StoredStaysSafe`: `Spec => []StoredIsSafe`

`AskInv` is about why the question is asked. An update that is late may ask when there
is a position already, and a question that is over may be asked again; but whoever asks has
put an update on the list of early ones or waits as a recovery, and the list is only
shortened while an answer is being dealt with. A question that is to be asked again finds
something on that list as long as there is no position (`establishLater`), and a run that
is over has nothing of it left (`Down`), so the next starts with no reason and no question.

- `QuestionHasAReason`: `Spec => []AsksForAReason`

`Kept` does not say why an update that a window or a catch-up lets go of had been handed
out. `KeptInv` does. Whatever waits behind a gap or for a catch-up lies ahead of the box
(`Settled`), so what the box goes past it hands out, except when an answer takes it past,
which is `passed`. A second answer may be lower than where the box has got to and take it
back; then what lies between was handed out, since an answer on its way is no older than
the one before (`AnswerInv`), and a catch-up that was asked from further on leaves out
nothing (`BehindChase`). A container is in hand while its peers are written down and may be
dropped from the list by then: it is yet to be judged, or has its place otherwise
(`HandNumbered`, `Counted`); and what has been handled has a place when something is
removed for it (`HandSettled`), if only that something is itself: what is not is `cut`.

- `EarlyIsKept`: `Spec => []Kept`

**`SchedulerProofs`.** A queue serial by key needs more than what each task awaits:
the entry of a key may have been dropped, or be that of a later task. `Chains` says
that as long as a task is in flight every later one of its key is behind one at least
as late, and `Tails` that a key with a task in flight has an entry that is no earlier
than any of them. `Waits` and `Counted` say that who waits for a slot waits once, and
that `running` is the number of slots taken, so `NoSlotIdle` follows release by release.

- `TypeCorrect`: `Spec => []TypeOK`
- `NothingWaitsInVain`: `Spec => []NoSlotIdle`
- `NoProducerIsStranded`: `Spec => []NoProducerStranded`
- `SchedulerImplements`: `Spec => Implements`

**`PollingBotProofs`.** The bot is the scheduler with an environment: every step of it
is a step of `Scheduler!Next` or leaves the scheduler alone, so what is proved of the
scheduler holds of it. `OffsetInv` says that whatever lies below the offset, or was
forgotten by the server, was scheduled or dropped, and that nothing scheduled lies
above; `AnswerInv`, that an answer has no gap; `RoomInv`, what a request that has been
made says of the backlog, which only shrinks until it is answered; `StopInv`, how the
loop, `polling.stop` and the lifecycle are when each of them is over.

- `BotDrivesScheduler`: `PollSpec => Spec /\ Implements`
- `NothingIsForgotten`: `PollSpec => []NothingForgotten`
- `NothingIsRepeated`: `PollSpec => []DeliveredOnce`
- `BacklogIsBounded`: `PollSpec => []Outstanding`
- `StopIsClean`: `PollSpec => []CleanStop`

**`AreaOwnershipProofs`.** `Tokens`: the owner, if there is one, has the last token, no
two runs have one token and none has a later one. A run whose write the store lets
through therefore has the latest turn (`OwnerIsLatest`), and no run can have been given
the area after it. `Leaving` says that a claim is taken back only by a run on its way
out, and `AtHome` that a name is held in the process of its run. `TypeOK`, `AtHome` and
`NoNameLeaked` are inductive by themselves (`NamesInv`), so of names nothing is assumed.
`NoLateWrite` needs `Leases` (section 7, 7), and `ClaimIsTheOwners` speaks of leases only.

- `TypeCorrect`: `Spec => []TypeOK`
- `LeasedAreaIsSafe`: if `Leases`, `Spec => []NoLateWrite`
- `ClaimStaysTheOwners`: if `Leases`, `Spec => []ClaimIsTheOwners`
- `NoNameIsLeaked`: `Spec => []NoNameLeaked`

**`ConversationsProofs`.** The lock keeps no queue, only who is before whom and who is
last. `IsQueue` says there is a sequence these are the links of: each ticket in it once,
only its head held, its last the one remembered. So a ticket that is held or whose turn
has come is the head, and there is one holder. `TurnInv` ties each turn to its ticket:
an update that is offered or handled without waiting has one, and it is held.
`QueueSteps` says what each step does to that sequence: its head leaves, or one joins at
the end, or neither; it is a theorem of its own (`LockIsAQueue`) that no run can check,
the sequence being nowhere in the state. `OrderInv` adds that the updates in it are in
the order they came in (`InOrder`), because one enters only after those before it have;
so the head, which is who is let in, is before every update that is still queued. The
order of the updates alone is not inductive: it says nothing of who is in the queue.

- `TypeCorrect`: `Spec => []TypeOK`
- `OneAtATime`: `Spec => []RunsAlone`
- `OrderIsKept`: `Spec => []NoneOvertakes`
- `LockIsAQueue`: `Spec => []IsQueue`, and every step is one of `Moves`
- `NoLockIsLeaked`: `Spec => []NoLockLeaked`
- `ClosedHasNoWait`: `Spec => []NoWaitWhileClosed`

**`FlowsProofs`.** The function of a flow is a constant, so what holds is shown of every
program: `FlowAssumption` and `ProgramAssumption` say of it that a step that does not
return is followed by another, whatever it gives, that only effects may be repeated, and
that returning is no effect. A pass has a copy of the journal, which may be ahead of the stored one because a
write failed; the code has been given what the steps of `past` came to. `PassInv` says how
the three hang together: the stored journal is behind the copy and contradicts none of
it (`Behind`), the copy is at the step the code is at, if that is an effect that has
started, or at the one before (`Abreast`). `DoneInv`: what has been run is in the *stored*
journal, since an effect is run only once "started" has been written; so a pass that
finds it there does not run it again unless that was declared safe. `AtMostOnce` alone
says nothing of an effect that is under way. Of updates: one that has not been used in
this pass answers nothing before it (`Unanswered`).

Replays rest on `Synced`: until a write fails the copy is what is stored, and what the
code was given is what the journal gives. After a failure it is not (section 7, 6), which
is why `NeverDiverges` has `fails = 0` and the others have not.

- `FlowTypeCorrect`: `Spec => []TypeOK`
- `EffectsHappenOnce`: `Spec => []AtMostOnce`
- `UpdateAnswersOnce`: `Spec => []AnswersOnce`
- `StoredJournalGrows`: `Spec => JournalGrows`
- `StoredRunsReplay`: `Spec => []NeverDiverges`

**Only model-checked.** Every safety property of the passing runs is a theorem, some
under the hypotheses named above. What is left to TLC is liveness, which is beyond the
prover: `HeldIsResolved`, `HeldIsLetThrough`, `EveryUpdateIsHandled`, `StopEnds`,
`TakeoverGoesOn`, `EveryoneIsLetIn`, `WaitComesBack`, `DeadlineIsKept`. No definition is
recursive: what `drainOnce` computes pass by pass is stated as a set by `Run`. That each
of its steps goes on towards that set, and that it stops nowhere short of it, is
`PassesApplyRun`; that it stops at all, which is induction over what is held, is plain
from the loop (every pass but the last shortens the list) and not proved.

## 7. Where the code and what is said of it part

**A wait behind polling** (run `polled_wait`). `docs/sessions.md:463` says that a handler
that awaits `conversation.wait` "hands its turn back while it waits — the answer belongs
to the same conversation and could not get in otherwise". It hands back the turn of the
conversation. But a polling bot runs the whole handling of an update as one task of the
scheduler (`polling.ts:247`), which starts a task only when the one before it in its chat
has ended (`scheduler.ts:173`): the answer is not let in before the handler that waits
for it is done. With a deadline the wait times out; without one, the chat is stuck. The
run has `InTurn = TRUE` and is otherwise `conversations`. A wait whose answer comes from
another chat, or an update of no chat, is not affected, and nor is a webhook.

**An update that comes while the position is taken** (run `stranded`).
`docs/mtproto.md:1875` says that an account with no stored position "holds what arrives
meanwhile. Once it has the position, what the position already covers is handed out as the
live updates it is, and what lies beyond is judged". What arrives without a position waits
for its peers to be written down (`manager.ts:1111`) before it is held, and nobody looks
again whether there is a position by then (`:1121`). In the trace a recovery has asked, its
answer was taken and the list of early updates drained; the update is pushed while the
position is being saved, and `establish` gives it the promise of the question that is over
(`:648`, `:679`). It stays in the list, with nothing to drain it. Pushed later still, it has
the question asked a second time (4 below), which drains it; if that fails it stays as
well, because `establishLater` does not ask for an account that has a position (`:695`).

TLC shows the following of these modules with other settings; no run is kept for them.

1. **Two catch-ups of one box** (`OneChase` with `Causes` as in `chases`).
   `manager.ts:542` says "One box chases at most one catch-up". `overflowed` (`:1128`)
   and `recover` (`:1241`) look at `catching` and not at `pending`; the window then runs
   out and replaces the running entry (`:597`). Nothing is stepped over or handed out
   twice for it, which is proved, but the answer that comes last moves the box back to
   where it was asked.
2. **A followed channel is forgotten** (`FollowedIsAsked` with `MaxPages = 1`). `:969`
   says "A failed refresh does not end the subscription". A refresh that runs out of
   pages leaves the rest to `queueCatchUp` (`:808-828`), whose attempt is not a refresh;
   when that fails with nothing held, nothing arranges another.
3. **A position nobody reported is resumed from.** `account.ts:5336` says "A position
   read back from the store is one Telegram reported". A question that failed lets
   `feed` return (`manager.ts:674-677`), and `#remember` writes down the position the
   state began with.
4. **An account with a position asks for another** (as an invariant of `restart`:
   `asking = "asking" => ~established`). `docs/mtproto.md:1875` says an account with no
   stored position asks. `holdEarly` waits for the peers (`:1111`) and then asks without
   looking again (`:1122`); what lies between the two positions is passed over.
5. **What was held is passed over** (`Kept` without `passed`). `:645` says "what was
   held stays held for the next attempt". A failure part of the way has the position
   taken again (`:652`), past an update the first attempt had left in a reorder window.
6. **A flow that cannot be carried on** (`NeverDiverges` without `fails = 0`). When the
   store fails to write that an effect is done (`flows.ts:545`), the code is told of the
   failure and takes its other way, while the pass keeps "done" in its journal and writes
   it with the next step. A replay then gives the code the success, meets a step it does
   not expect and is reported as a changed definition.
7. **A late write over a store that does not lease** (`NoLateWrite` with
   `Leases = FALSE`). `ownership.ts` counts the writes made through the fence; those of
   `settleClaim` and `unclaim` themselves go to the plain area (`:461`, `:503`), so a run
   that takes over does not wait for them. And `take` does not look again after waiting
   for the holder it replaces (`guard.ts:156-160`): two that take over at once are both
   given the name.
8. **A handler with two waits at once** (`AtOnce = 2`). The second replaces the first
   (`waiters.ts:223`), which comes back and, the turn being lent by the second, is left
   without one: it goes on when the second is over.

Also met, and not shown by a run:

- A channel found private stays in `gone` when the account joins it again: it is
  followed for one refresh and let go (`:981`), and its gaps are never chased.
- A followed channel with no count is asked about from position 1 (`:1003`), while
  `:249-251` says it cannot be followed until a position arrives.
- At the limit the update that is being let through is dropped from the front of
  `early`, and the one behind it is then removed in its place, unreported
  (`:1113`, `:659`), while `:82-83` says that what is dropped is reported. `Kept` has it
  as `cut`, and says that nothing else goes that way.
- A deadline may be left to nobody when the store fails. `#expire` reads the run after its
  timer is gone (`flows.ts:1018`, `:991`) and a failure is only reported (`:1019-1023`); so
  is one in `resume`; and `#finish` cancels the timer before it writes (`:1123`). Nothing
  acts on the deadline then until an update comes or a process calls `resume`. That is the
  exception `DeadlineIsKept` makes (`lost`).
- `docs/sessions.md:609` says that an update delivered twice is "not used again". The
  journal has the identity of an update only where it answered a wait
  (`flows.ts:691`): one that a wait rejected, or whose wait's own code failed, is offered
  again, counted as another attempt or taken for the next wait. `AnswersOnce` says nothing
  of those.
- A window that ends while the difference of a refresh is on its way starts a second
  catch-up, as in 1, and the channel can move back.
- `scheduler.ts:140`: a slot that is given back can be taken by a task scheduled before
  the caller it woke has counted itself; for that long more run than the limit. The
  comment at `:153` has producers "re-check the depth themselves", which `whenReady`
  does not: the bound is `Outstanding`, the room there was and one answer.
- After a fatal error `polling.stop` returns at once, as it is not running any more
  (`polling.ts:369`), so `bot.stop` may report a clean stop with updates of the last
  answer yet to start. That is the exception `CleanStop` makes.
- `polling.ts:236` calls delivery at-most-once. Within a run it is (`DeliveredOnce`); the
  last answer is confirmed only by another request, so the next run has it again.
- `waiters.ts:334-366`: when the wait an update is offered to is settled while its
  predicates are awaited, the update stops there all the same, and answers nothing.
- A flow's run that is over no longer takes the updates it has used (`flows.ts:818`): one
  delivered again reaches the handlers, and may start the flow a second time, though a
  finished run is kept "for inspection and redelivered updates".
- A pass under way when the client stops may arm a timer after `shutdown` (`:1009`).
- A session whose load fails starts afresh and is saved over the one in the store
  (`core/src/session/session.ts`), and a handler that waits inside a session keeps the
  queue of its key, as in the finding above.
- An update of a secret chat has a `qts` and no `pts`, so it is handed out without being
  judged (`:437`), though `docs/mtproto.md`, section 9, counts it among the sequences; an
  update that takes no steps has the identity of the one before it (`:1404`); closing
  does not stop a dispatch under way.

## 8. Plan

What is left, the behaviour that matters most first.

| Module | Models | To be shown |
|---|---|---|
| `OwnEffects` | `expect`, `local.ts`: what the stream reports of a call before its answer, the limit on calls watched | an own effect is withheld exactly when its call is answered; nothing withheld is lost when a call fails or the process ends |
| `Session` | `mtproto/session`: requests, containers, acknowledgements, resends | each call settles once; a resend is not a second execution |
| `Lifecycle` | overlapping starts and stops, and an application of several clients | no start marks a stopped client running; a stop that reports success waited for what was tracked |
| `KeyedSessions` | `core/session` around a handler | nothing saved is lost between two updates of a key |
| `Connections` | `mtproto/network`: opening, losing, migrating | one connection per purpose; what waits is resumed or refused |
| `Worker` | `mtproto/worker` | calls and streams over a port settle once, also when either side goes |
| `Transfers` | `mtproto/files` | every part once; a refreshed reference is used by all |
| `StreamEngine`, `Throttle` | `core/stream`, `bot-api/throttle` | one edit in flight; the last text is shown |

Compositions: the account, whose stop waits for the manager, over `Updates` and
`AreaOwnership`; conversations, with their flows, under the scheduler of `PollingBot`
rather than behind the constant `InTurn`. Theorems wanted: one settlement per call in
`Session`; that nothing withheld is lost in `OwnEffects`.

## 9. Not modelled

The formatting and parsing of text, cryptography, the wire formats, the generated
API, and the mapping of what Telegram sends to entities are conversions without state
that the repository's tests cover. The stores are I/O; the file store's order of
writes is a candidate. The key exchange is a fixed sequence of messages. The methods
of an account that only build a query and return its answer have no behaviour of
their own. Webhooks, inline answers and paging keep next to no state.

The components that do have behaviour and have no module yet (own effects of a call,
the session and its connections, keyed sessions, the worker protocol, transfers,
lifecycle, text streaming and throttling) are the plan of section 8. Most of the
repository's lines are generated types and account methods that ask once and return,
so the share of it these modules stand for is small; they stand for the parts where
order, failure and time matter.
