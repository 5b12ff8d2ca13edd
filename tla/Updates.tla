------------------------------ MODULE Updates ------------------------------
(***************************************************************************)
(* The update manager of an account that holds a position: what            *)
(* openUpdates in packages/mtproto/src/updates/manager.ts does with what   *)
(* the stream reports, with what its own calls are answered, and with the  *)
(* differences it asks for.                                                *)
(*                                                                         *)
(* An event is a pair <<box, pts>>: something that happened in a box and   *)
(* left it at pts.  The server's log of each box is a constant; srv says   *)
(* how much of it has happened.  The stream is not a channel of the model: *)
(* any event that has happened may arrive at any time, again, or never,    *)
(* which is loss, duplication and reordering at once.                      *)
(*                                                                         *)
(* Each action is the code between two awaits.  A list the code holds      *)
(* updates in is a set here: it is drained in any order instead of arrival *)
(* order.                                                                  *)
(***************************************************************************)
EXTENDS UpdateState, FiniteSets

CONSTANTS
    Common,       \* the common box
    Channels,     \* the channels, each a box of its own
    Log,          \* the positions at which something happens, by box
    MaxPts,       \* the highest of them
    Count,        \* how many steps each of them takes, by box and position
    Start,        \* the position resumed from, by box, or NoPts
    Own,          \* the events this account's own calls bring about
    Feeds,        \* calls of feed in progress at once, at most
    Attempts,     \* catch-ups in progress at once, at most
    None,
    MaxBatch,     \* updates in a container, at most
    Containers,   \* the first and the last number of a container; <<0, 0>> for none
    MaxPages,     \* MAX_PAGES: pages one catch-up follows
    Stalling,     \* whether a page may be followed by another and move nothing
    MaxWatchers,  \* callers following one channel, at most
    Causes,       \* what besides a gap has the common box asked about
    Watchable,    \* the channels a caller may follow
    Leavable      \* the channels the account may leave and join again

Boxes == {Common} \cup Channels

ASSUME BoxAssumption == Common \notin Channels /\ None \notin Attempts

ASSUME LogAssumption ==
    /\ MaxPts \in Nat
    /\ Log \in [Boxes -> SUBSET (Origin + 1 .. MaxPts)]

\* The steps of a box's events partition its log: each takes up where one ends.
ASSUME CountAssumption ==
    \A b \in Boxes : \A p \in Log[b] :
        /\ Count[b][p] \in Nat \ {0}
        /\ p - Count[b][p] \in Log[b] \cup {Origin}
        /\ \A q \in Log[b] : q < p => q <= p - Count[b][p]

ASSUME StartAssumption ==
    /\ Start \in [Boxes -> Positions]
    /\ Start[Common] # NoPts
    /\ \A b \in Boxes : Start[b] \in Log[b] \cup {Origin, NoPts}

ASSUME BoundAssumption ==
    /\ MaxBatch \in Nat /\ MaxWatchers \in Nat
    /\ Containers \subseteq {r \in Nat \X Nat : r[1] <= r[2] /\ (r[1] = 0 <=> r[2] = 0)}
    /\ MaxPages \in Nat \ {0}
    /\ Stalling \in BOOLEAN
    /\ Causes \subseteq {"overflow", "new-session"}
    /\ Watchable \subseteq Channels /\ Leavable \subseteq Channels

\* What the server may say the last container was, 0 for nothing.
Numbers == {0} \cup {r[2] : r \in Containers}

Events == UNION {{<<b, p>> : p \in Log[b]} : b \in Boxes}

VARIABLES
    srv,       \* how far each box has got at the server
    member,    \* whether the account can see each channel
    local,     \* how far each box has got here, or NoPts
    seq,       \* the last container counted
    known,     \* identities remembered: handed out, or accounted for without
    handed,    \* history: the events handed to onUpdate
    twice,     \* history: the events handed to onUpdate more than once
    skipped,   \* history: the events a position was taken without asking for
    feed,      \* what each call of feed in progress is doing
    pending,   \* per box: no gap waiting, one waiting in order, or to be asked
    waiting,   \* per box: what a gap holds
    catching,  \* per box: the entry of the catch-up running, or None
    held,      \* per entry: what arrived while catching up
    att,       \* per attempt: what a call of catchUp is doing
    gone,      \* channels found private
    watching,  \* per channel: how many callers follow it
    follow,    \* per channel: whether the next ask is arranged
    closed

server == <<srv, member>>
sequence == <<local, known, handed, twice, skipped>>
windows == <<pending, waiting>>
following == <<watching, follow>>
vars == <<srv, member, local, seq, known, handed, twice, skipped, feed, pending,
          waiting, catching, held, att, gone, watching, follow, closed>>

-----------------------------------------------------------------------------
(* What there is to say about a box.                                       *)

\* The positions a box can be reported at.
Stops(b) == Log[b] \cup {Origin}

Occurred == {e \in Events : e[2] <= srv[e[1]]}

Between(b, from, to) == {<<b, q>> : q \in {x \in Log[b] : from < x /\ x <= to}}

Before(b, p) == {<<b, q>> : q \in {x \in Log[b] : x < p}}

At(b, S) == {p \in Log[b] : <<b, p>> \in S}

\* Mutation: everything held is let through, holes and all.
RunOverHoles(b, l, H) == {p \in H : p > l}

(***************************************************************************)
(* What the passes of closeWindow apply of the held positions H, for a box *)
(* at l: each one everything before which has been held or counted.  A box *)
(* with no count takes the first of them as the place to start.            *)
(***************************************************************************)
Run(b, l, H) ==
    IF H = {} THEN {}
    ELSE LET from == IF l = NoPts THEN Lowest(H) - 1 ELSE l
         IN  {p \in H : from < p /\ \A q \in Log[b] : from < q /\ q <= p => q \in H}

Reached(l, applied) == IF applied = {} THEN l ELSE Highest(applied)

\* What nothing can be missed behind, once a box with no count starts at p.
StartedOver(b, l, p) == IF l = NoPts THEN Before(b, p) ELSE {}

-----------------------------------------------------------------------------
(* Handing out, and holding.                                               *)

\* Mutation: what is handed out is not looked up among what is remembered.
DispatchAll(S, remembered) ==
    /\ handed' = handed \cup S
    /\ twice' = twice \cup (S \cap handed)
    /\ known' = remembered \cup S

(***************************************************************************)
(* Hand out the updates of S that are not remembered, and remember them.   *)
(* An answer's own effects are remembered before they are fed, so they are *)
(* among the ones that are not handed out.                                 *)
(***************************************************************************)
Dispatch(S, remembered) ==
    /\ handed' = handed \cup (S \ remembered)
    /\ twice' = twice \cup ((S \ remembered) \cap handed)
    /\ known' = remembered \cup S

\* Mutation: a catch-up is arranged without looking for one that is running.
QueueAnother(b, U, ordered, running, lists) ==
    /\ ~closed /\ b \notin gone
    /\ held' = lists
    /\ waiting' = [waiting EXCEPT ![b] = @ \cup U]
    /\ pending' = [pending EXCEPT ![b] = "asking"]

(***************************************************************************)
(* Arrange a catch-up of b with U waiting for it, or let U join the one    *)
(* that is running or arranged.  lists is what the entries hold once the   *)
(* caller has taken what it took out of them.                              *)
(***************************************************************************)
QueueCatchUp(b, U, ordered, running, lists) ==
    \/ /\ closed \/ b \in gone
       /\ held' = lists
       /\ UNCHANGED windows
    \/ /\ ~closed /\ b \notin gone
       /\ running # None
       /\ held' = [lists EXCEPT ![running] = @ \cup U]
       /\ UNCHANGED windows
    \/ /\ ~closed /\ b \notin gone
       /\ running = None
       /\ held' = lists
       /\ waiting' = [waiting EXCEPT ![b] = @ \cup U]
       /\ pending' = [pending EXCEPT ![b] =
              IF ordered /\ @ # "asking" THEN "ordered" ELSE "asking"]

\* Let through what a window holds, for a box that has just come to stand at l.
Released(b, l) == IF pending[b] = "ordered" THEN Run(b, l, At(b, waiting[b])) ELSE {}

CloseWindow(b, l) ==
    LET left == {e \in waiting[b] : e[2] > l}
    IN  IF pending[b] = "ordered"
        THEN /\ waiting' = [waiting EXCEPT ![b] = left]
             /\ pending' = [pending EXCEPT ![b] = IF left = {} THEN "none" ELSE @]
        ELSE UNCHANGED windows

\* Mutation: what arrives while a box is catching up is judged there and then.
NeverHolding(b) == FALSE

\* A box that is catching up is not to be moved by the stream.
Holding(b) == catching[b] # None

\* Deal with one update: hold it, discard it, apply it, or note a gap.
Consume(e, remembered) ==
    LET b == e[1]
        p == e[2]
        verdict == Judge(local[b], p, Count[b][p])
        freed == Released(b, Advance(local[b], p))
        top == Reached(Advance(local[b], p), freed)
    IN  \/ /\ Holding(b)
           /\ held' = [held EXCEPT ![catching[b]] = @ \cup {e}]
           /\ known' = remembered
           /\ UNCHANGED <<local, handed, twice, skipped, windows>>
        \/ /\ ~Holding(b) /\ verdict = "seen"
           /\ known' = remembered
           /\ UNCHANGED <<local, handed, twice, skipped, windows, held>>
        \/ /\ ~Holding(b) /\ verdict = "apply"
           /\ local' = [local EXCEPT ![b] = top]
           /\ Dispatch({e} \cup {<<b, q>> : q \in freed}, remembered)
           /\ skipped' = skipped \cup StartedOver(b, local[b], p)
           /\ CloseWindow(b, top)
           /\ UNCHANGED held
        \/ /\ ~Holding(b) /\ verdict = "gap"
           /\ QueueCatchUp(b, {e}, TRUE, None, held)
           /\ known' = remembered
           /\ UNCHANGED <<local, handed, twice, skipped>>

-----------------------------------------------------------------------------
(* What calls of catchUp and of feed are doing.                            *)

NoAttempt ==
    [phase |-> "idle", box |-> Common, entry |-> None, asked |-> NoPts,
     floor |-> Origin, page |-> 0, before |-> NoPts, todo |-> {}, refresh |-> FALSE]

NoFeed == [phase |-> "idle", left |-> {}, start |-> 0, number |-> 0]

\* An attempt is chasing its box from the moment it is made until it is answered.
Chasing(s) == att[s].phase \in {"naming", "asking"}

\* An entry lives as long as a call of catchUp refers to it.
Free(s) == \A t \in Attempts : (t = s => att[t].phase = "idle") /\ att[t].entry # s

AskFrom(l) == IF l = NoPts THEN Origin ELSE l

(***************************************************************************)
(* A call of catchUp for b that has just been made, b standing at l.  The  *)
(* common box is asked about at once; a channel has first to be named.     *)
(***************************************************************************)
Begun(b, entry, refresh, l) ==
    [phase |-> IF b = Common THEN "asking" ELSE "naming",
     box |-> b, entry |-> entry, asked |-> IF b = Common THEN l ELSE NoPts,
     floor |-> srv[b], page |-> 1, before |-> l, todo |-> {}, refresh |-> refresh]

\* recover: join the entry of a catch-up that is running, but ask all the same.
Recovering(s, b, refresh, l) ==
    LET entry == IF catching[b] = None THEN s ELSE catching[b]
    IN  /\ Free(s)
        /\ att' = [att EXCEPT ![s] = Begun(b, entry, refresh, l)]
        /\ catching' = [catching EXCEPT ![b] = entry]

FollowAgain(b) ==
    follow' = IF b \in Channels /\ watching[b] > 0 /\ ~closed
              THEN [follow EXCEPT ![b] = TRUE] ELSE follow

\* What refreshChannel does once recover has returned: a channel found private is let go.
RefreshReturned(s, private) ==
    LET b == att[s].box
    IN  IF att[s].refresh /\ b \in private
        THEN /\ watching' = [watching EXCEPT ![b] = 0]
             /\ follow' = [follow EXCEPT ![b] = FALSE]
        ELSE UNCHANGED following

\* Mutation: a refresh that has thrown arranges no other.
RefreshGivesUp(s) == UNCHANGED following

\* ... and once it has thrown: the channel is asked again after the interval.
RefreshThrew(s) ==
    /\ UNCHANGED watching
    /\ IF att[s].refresh THEN FollowAgain(att[s].box) ELSE UNCHANGED follow

-----------------------------------------------------------------------------
(* The server, and what it may be told of.                                 *)

\* The next thing happens in a box.
Happen(b) ==
    /\ \E p \in Log[b] :
          /\ p > srv[b]
          /\ \A q \in Log[b] : q > srv[b] => p <= q
          /\ srv' = [srv EXCEPT ![b] = p]
    /\ UNCHANGED <<member, local, seq, known, handed, twice, skipped, feed, windows,
                   catching, held, att, gone, following, closed>>

\* The account leaves a channel, or joins it again.
LeaveOrJoin(c) ==
    /\ member' = [member EXCEPT ![c] = ~@]
    /\ UNCHANGED <<srv, local, seq, known, handed, twice, skipped, feed, windows,
                   catching, held, att, gone, following, closed>>

-----------------------------------------------------------------------------
(* What the connection reports.                                            *)

\* A single update arrives, or a container: its peers are written down first.
Feed(f, U, start, number) ==
    /\ ~closed /\ feed[f] = NoFeed
    /\ feed' = [feed EXCEPT ![f] =
           [phase |-> "harvest", left |-> U, start |-> start, number |-> number]]
    /\ UNCHANGED <<server, sequence, seq, windows, catching, held, att, gone,
                   following, closed>>

(***************************************************************************)
(* The answer to a call of this account's arrives.  What of it is the      *)
(* call's own is remembered, and the whole goes the way the stream's does. *)
(***************************************************************************)
Absorb(f, U, start, number) ==
    /\ ~closed /\ feed[f] = NoFeed
    /\ known' = known \cup (U \cap Own)
    /\ feed' = [feed EXCEPT ![f] =
           [phase |-> "harvest", left |-> U, start |-> start, number |-> number]]
    /\ UNCHANGED <<server, local, handed, twice, skipped, seq, windows, catching, held,
                   att, gone, following, closed>>

\* An answer that is only a position is judged at once, and never handed out.
AbsorbPosition(e) ==
    /\ ~closed
    /\ Consume(e, known \cup {e})
    /\ UNCHANGED <<server, seq, feed, catching, att, gone, following, closed>>

\* The peers could not be written down: feed rejects, and nothing was judged.
FeedFails(f) ==
    /\ feed[f].phase = "harvest"
    /\ feed' = [feed EXCEPT ![f] = NoFeed]
    /\ UNCHANGED <<server, sequence, seq, windows, catching, held, att, gone,
                   following, closed>>

\* A container already counted is discarded whole.
FeedSeen(f) ==
    /\ feed[f].phase = "harvest"
    /\ JudgeContainer(seq, feed[f].start) = "seen"
    /\ feed' = [feed EXCEPT ![f] = NoFeed]
    /\ UNCHANGED <<server, sequence, seq, windows, catching, held, att, gone,
                   following, closed>>

(***************************************************************************)
(* A container out of sequence waits for a catch-up of the common box,     *)
(* with everything in it, whichever box that belongs to.                   *)
(***************************************************************************)
FeedGap(f) ==
    /\ feed[f].phase = "harvest"
    /\ JudgeContainer(seq, feed[f].start) = "gap"
    /\ QueueCatchUp(Common, feed[f].left, FALSE, catching[Common], held)
    /\ feed' = [feed EXCEPT ![f] = NoFeed]
    /\ UNCHANGED <<server, sequence, seq, catching, att, gone, following, closed>>

\* Mutation: a container's first update is judged, and the others are taken to follow it.
FeedTrusts(f) ==
    /\ \E e \in feed[f].left :
          /\ \/ /\ feed[f].phase = "harvest" /\ JudgeContainer(seq, feed[f].start) = "apply"
                /\ Consume(e, known)
             \/ /\ feed[f].phase = "consume"
                /\ local' = [local EXCEPT ![e[1]] = e[2]]
                /\ Dispatch({e}, known)
                /\ UNCHANGED <<skipped, windows, held>>
          /\ feed' = [feed EXCEPT ![f].left = @ \ {e}, ![f].phase = "consume"]
    /\ UNCHANGED <<server, seq, catching, att, gone, following, closed>>

\* One more of a container's updates is consumed; other work may come between two.
FeedConsume(f) ==
    /\ \/ feed[f].phase = "harvest" /\ JudgeContainer(seq, feed[f].start) = "apply"
       \/ feed[f].phase = "consume"
    /\ \E e \in feed[f].left :
          /\ Consume(e, known)
          /\ feed' = [feed EXCEPT ![f].left = @ \ {e}, ![f].phase = "consume"]
    /\ UNCHANGED <<server, seq, catching, att, gone, following, closed>>

\* All of them have been: the container is counted.
FeedDone(f) ==
    /\ feed[f].phase = "consume" /\ feed[f].left = {}
    /\ seq' = AdvanceContainer(seq, feed[f].number)
    /\ feed' = [feed EXCEPT ![f] = NoFeed]
    /\ UNCHANGED <<server, sequence, windows, catching, held, att, gone, following, closed>>

\* The server has stopped keeping the stream: the common box is caught up at once.
Overflow(s) ==
    /\ "overflow" \in Causes
    /\ ~closed
    /\ catching[Common] = None
    /\ Free(s)
    /\ catching' = [catching EXCEPT ![Common] = s]
    /\ att' = [att EXCEPT ![s] = Begun(Common, s, FALSE, local[Common])]
    /\ UNCHANGED <<server, sequence, seq, feed, windows, held, gone, following, closed>>

-----------------------------------------------------------------------------
(* The reorder window, and the catch-up it ends in.                        *)

\* The window has run out: what can be let through is, and the rest is asked about.
WindowEnds(b, s) ==
    LET freed == Released(b, local[b])
        top == Reached(local[b], freed)
        left == IF pending[b] = "ordered" THEN {e \in waiting[b] : e[2] > top}
                ELSE waiting[b]
    IN  /\ pending[b] # "none"
        /\ local' = [local EXCEPT ![b] = top]
        /\ Dispatch({<<b, q>> : q \in freed}, known)
        /\ skipped' = skipped \cup
              (IF freed = {} THEN {} ELSE StartedOver(b, local[b], Lowest(freed)))
        /\ waiting' = [waiting EXCEPT ![b] = {}]
        /\ pending' = [pending EXCEPT ![b] = "none"]
        /\ IF pending[b] = "ordered" /\ left = {}
           THEN UNCHANGED <<catching, held, att>>
           ELSE /\ Free(s)
                /\ catching' = [catching EXCEPT ![b] = s]
                /\ held' = [held EXCEPT ![s] = left]
                /\ att' = [att EXCEPT ![s] = Begun(b, s, FALSE, top)]
        /\ UNCHANGED <<server, seq, feed, gone, following, closed>>

\* The connection's session was replaced: the common box is caught up now.
Recover(s) ==
    /\ "new-session" \in Causes
    /\ ~closed
    /\ Recovering(s, Common, FALSE, local[Common])
    /\ UNCHANGED <<server, sequence, seq, feed, windows, held, gone, following, closed>>

\* The channel's access hash has been found, and its difference is asked for.
Name(s) ==
    /\ att[s].phase = "naming"
    /\ att' = [att EXCEPT ![s].phase = "asking",
                          ![s].asked = AskFrom(local[att[s].box]),
                          ![s].floor = srv[att[s].box]]
    /\ UNCHANGED <<server, sequence, seq, feed, windows, catching, held, gone,
                   following, closed>>

-----------------------------------------------------------------------------
(* What a difference is answered with, and how a catch-up ends.            *)

\* A difference is answered, for a channel only while the account can see it.
Answered(s) ==
    /\ att[s].phase = "asking"
    /\ att[s].box \in Channels => member[att[s].box]

\* Mutation: a page is taken to bring the box to where the server is by now.
TakePageAsLast(s, upto) ==
    LET b == att[s].box
    IN  /\ Dispatch(Between(b, att[s].asked, upto), known)
        /\ local' = [local EXCEPT ![b] = srv[b]]
        /\ UNCHANGED skipped

\* What a page tells of the box, handed out, and the position it ends at taken.
TakePage(s, upto) ==
    LET b == att[s].box
    IN  /\ Dispatch(Between(b, att[s].asked, upto), known)
        /\ local' = [local EXCEPT ![b] = upto]
        /\ UNCHANGED skipped

\* Only the common box's answers say where the containers stand.
TakeSeq(s, number) ==
    /\ att[s].box # Common => number = 0
    /\ seq' = AdvanceContainer(seq, number)

\* The attempt is over, and what was held is about to be consumed.
Completed(s) ==
    LET b == att[s].box
        entry == att[s].entry
    IN  /\ catching' = [catching EXCEPT ![b] = None]
        /\ held' = [held EXCEPT ![entry] = {}]
        /\ att' = [att EXCEPT ![s].phase = "draining", ![s].todo = held[entry]]
        /\ UNCHANGED watching
        /\ FollowAgain(b)

\* The server has nothing to add to the position it was asked from.
AnswerEmpty(s, number) ==
    LET b == att[s].box
    IN  /\ Answered(s)
        /\ att[s].asked >= att[s].floor
        /\ local' = IF b = Common THEN local ELSE [local EXCEPT ![b] = att[s].asked]
        /\ TakeSeq(s, number)
        /\ Completed(s)
        /\ UNCHANGED <<server, known, handed, twice, skipped, feed, windows, gone, closed>>

\* The last page: the box is taken to stand where the server says it does.
AnswerFinal(s, upto, number) ==
    /\ Answered(s)
    /\ upto >= att[s].floor
    /\ TakePage(s, upto)
    /\ TakeSeq(s, number)
    /\ Completed(s)
    /\ UNCHANGED <<server, feed, windows, gone, closed>>

(***************************************************************************)
(* A page that is not the last: the next is asked for, unless this attempt *)
(* has followed as many as it may.  The position is then written down, and *)
(* the box is not catching up meanwhile.                                   *)
(***************************************************************************)
AnswerSlice(s, upto, number) ==
    LET b == att[s].box
    IN  /\ Answered(s)
        /\ upto > att[s].asked \/ Stalling
        /\ TakePage(s, upto)
        /\ TakeSeq(s, number)
        /\ \/ /\ att[s].page < MaxPages
              /\ att' = [att EXCEPT ![s].asked = upto, ![s].floor = srv[b],
                                    ![s].page = @ + 1]
              /\ UNCHANGED catching
           \/ /\ att[s].page = MaxPages
              /\ att' = [att EXCEPT ![s].phase = "saving"]
              /\ catching' = [catching EXCEPT ![b] = None]
        /\ UNCHANGED <<server, feed, windows, held, gone, following, closed>>

(***************************************************************************)
(* The box is too far behind.  The common one takes the position the       *)
(* server names; a channel is forgotten, and its next update starts it     *)
(* afresh.                                                                 *)
(***************************************************************************)
AnswerTooLong(s, upto) ==
    LET b == att[s].box
    IN  /\ Answered(s)
        /\ upto >= att[s].floor
        /\ local' = [local EXCEPT ![b] = IF b = Common THEN upto ELSE NoPts]
        /\ skipped' = skipped \cup (IF b = Common THEN Between(b, att[s].asked, upto) ELSE {})
        /\ Completed(s)
        /\ UNCHANGED <<server, seq, known, handed, twice, feed, windows, gone, closed>>

\* CHANNEL_PRIVATE: the channel is not chased again, and what waited is let go.
AnswerPrivate(s) ==
    LET b == att[s].box
        entry == att[s].entry
        shared == \E t \in Attempts \ {s} : att[t].entry = entry
    IN  /\ att[s].phase = "asking"
        /\ b \in Channels /\ ~member[b]
        /\ gone' = gone \cup {b}
        /\ catching' = [catching EXCEPT ![b] = None]
        /\ held' = IF shared THEN held ELSE [held EXCEPT ![entry] = {}]
        /\ att' = [att EXCEPT ![s] = NoAttempt]
        /\ RefreshReturned(s, gone')
        /\ UNCHANGED <<server, sequence, seq, feed, windows, closed>>

\* Mutation: what was held is let go with the catch-up that failed.
CatchUpForgets(s) ==
    /\ Chasing(s)
    /\ catching' = [catching EXCEPT ![att[s].box] = None]
    /\ held' = [held EXCEPT ![att[s].entry] = {}]
    /\ att' = [att EXCEPT ![s] = NoAttempt]
    /\ RefreshThrew(s)
    /\ UNCHANGED <<server, sequence, seq, feed, windows, gone, closed>>

\* The call failed, or the channel could not be named: what was held waits for another.
CatchUpFails(s) ==
    LET b == att[s].box
        entry == att[s].entry
    IN  /\ Chasing(s)
        /\ catching' = [catching EXCEPT ![b] = None]
        /\ IF held[entry] = {}
           THEN UNCHANGED <<windows, held>>
           ELSE QueueCatchUp(b, held[entry], FALSE, None, [held EXCEPT ![entry] = {}])
        /\ att' = [att EXCEPT ![s] = NoAttempt]
        /\ RefreshThrew(s)
        /\ UNCHANGED <<server, sequence, seq, feed, gone, closed>>

(***************************************************************************)
(* The position has been written down after a catch-up ran out of pages:   *)
(* another is arranged, and it was a failure if nothing moved.             *)
(***************************************************************************)
Saved(s) ==
    LET b == att[s].box
        entry == att[s].entry
    IN  /\ att[s].phase = "saving"
        /\ QueueCatchUp(b, held[entry], FALSE, catching[b], [held EXCEPT ![entry] = {}])
        /\ att' = [att EXCEPT ![s] = NoAttempt]
        /\ IF local[b] = att[s].before THEN RefreshThrew(s) ELSE RefreshReturned(s, gone)
        /\ UNCHANGED <<server, sequence, seq, feed, catching, gone, closed>>

\* One more of what was held is consumed, judged against where the box now stands.
Drain(s) ==
    /\ att[s].phase = "draining"
    /\ \E e \in att[s].todo :
          /\ Consume(e, known)
          /\ att' = [att EXCEPT ![s].todo = @ \ {e}]
    /\ UNCHANGED <<server, seq, feed, catching, gone, following, closed>>

Drained(s) ==
    /\ att[s].phase = "draining" /\ att[s].todo = {}
    /\ att' = [att EXCEPT ![s] = NoAttempt]
    /\ RefreshReturned(s, gone)
    /\ UNCHANGED <<server, sequence, seq, feed, windows, catching, held, gone, closed>>

-----------------------------------------------------------------------------
(* Following a channel, and stopping.                                      *)

(***************************************************************************)
(* A caller follows a channel, with the position its dialog gave or none   *)
(* (pts = NoPts).  The first of them starts the asking.                    *)
(***************************************************************************)
WatchChannel(c, pts, s) ==
    /\ ~closed
    /\ watching[c] < MaxWatchers
    /\ watching' = [watching EXCEPT ![c] = @ + 1]
    /\ IF watching[c] > 0
       THEN UNCHANGED <<local, skipped, catching, att>>
       ELSE LET told == pts # NoPts /\ local[c] = NoPts
                l == IF told THEN pts ELSE local[c]
            IN  /\ local' = [local EXCEPT ![c] = l]
                /\ skipped' = skipped \cup (IF told THEN Before(c, pts + 1) ELSE {})
                /\ Recovering(s, c, TRUE, l)
    /\ UNCHANGED <<server, known, handed, twice, seq, feed, windows, held, gone,
                   follow, closed>>

\* Mutation: a caller that stops twice is counted twice.
UnwatchTwice(c) ==
    /\ watching' = [watching EXCEPT ![c] = @ - 1]
    /\ follow' = [follow EXCEPT ![c] = @ /\ watching[c] > 1]
    /\ UNCHANGED <<server, sequence, seq, feed, windows, catching, held, att, gone, closed>>

\* A caller stops following; the last of them stops the asking.
UnwatchChannel(c) ==
    /\ watching[c] > 0
    /\ watching' = [watching EXCEPT ![c] = @ - 1]
    /\ follow' = [follow EXCEPT ![c] = @ /\ watching[c] > 1]
    /\ UNCHANGED <<server, sequence, seq, feed, windows, catching, held, att, gone, closed>>

\* The interval has passed, and a followed channel is asked about again.
Refresh(c, s) ==
    /\ follow[c]
    /\ follow' = [follow EXCEPT ![c] = FALSE]
    /\ Recovering(s, c, TRUE, local[c])
    /\ UNCHANGED <<server, sequence, seq, feed, windows, held, gone, watching, closed>>

\* Stop.  A catch-up that is waiting for its answer is not stopped by it.
Close ==
    /\ ~closed
    /\ closed' = TRUE
    /\ pending' = [b \in Boxes |-> "none"]
    /\ waiting' = [b \in Boxes |-> {}]
    /\ catching' = [b \in Boxes |-> None]
    /\ watching' = [c \in Channels |-> 0]
    /\ follow' = [c \in Channels |-> FALSE]
    /\ UNCHANGED <<server, sequence, seq, feed, held, att, gone>>

-----------------------------------------------------------------------------
Init ==
    /\ srv = [b \in Boxes |-> Larger(Start[b], Origin)]
    /\ member = [c \in Channels |-> TRUE]
    /\ local = Start
    /\ seq = 0
    /\ known = {} /\ handed = {} /\ twice = {}
    /\ skipped = UNION {Before(b, Start[b] + 1) : b \in Boxes}
    /\ feed = [f \in Feeds |-> NoFeed]
    /\ pending = [b \in Boxes |-> "none"]
    /\ waiting = [b \in Boxes |-> {}]
    /\ catching = [b \in Boxes |-> None]
    /\ held = [s \in Attempts |-> {}]
    /\ att = [s \in Attempts |-> NoAttempt]
    /\ gone = {}
    /\ watching = [c \in Channels |-> 0]
    /\ follow = [c \in Channels |-> FALSE]
    /\ closed = FALSE

\* What may arrive together, and as which container.
Batches == {U \in SUBSET Occurred : U # {} /\ Cardinality(U) <= MaxBatch}

Environment ==
    \/ \E b \in Boxes : Happen(b)
    \/ \E c \in Leavable : LeaveOrJoin(c)

FeedStep(f) ==
    \/ FeedFails(f) \/ FeedSeen(f) \/ FeedGap(f) \/ FeedConsume(f) \/ FeedDone(f)

Stream ==
    \/ \E f \in Feeds, U \in Batches, span \in Containers :
          \/ Feed(f, U, span[1], span[2])
          \/ U \cap Own # {} /\ Absorb(f, U, span[1], span[2])
    \/ \E e \in Occurred \cap Own : AbsorbPosition(e)
    \/ \E f \in Feeds : FeedStep(f)

Answer(s) ==
    \/ \E number \in Numbers :
          \/ AnswerEmpty(s, number)
          \/ \E upto \in Stops(att[s].box) :
                /\ att[s].asked <= upto /\ upto <= srv[att[s].box]
                /\ AnswerFinal(s, upto, number) \/ AnswerSlice(s, upto, number)
    \/ \E upto \in Stops(att[s].box) :
          upto <= srv[att[s].box] /\ AnswerTooLong(s, upto)
    \/ AnswerPrivate(s)

Chase(s) ==
    \/ Overflow(s)
    \/ \E b \in Boxes : WindowEnds(b, s)
    \/ Recover(s)
    \/ Name(s) \/ Answer(s) \/ CatchUpFails(s) \/ Saved(s) \/ Drain(s) \/ Drained(s)

Follow ==
    \E c \in Watchable :
       \/ \E s \in Attempts :
             \/ Refresh(c, s)
             \/ \E pts \in Stops(c) \cup {NoPts} : pts <= srv[c] /\ WatchChannel(c, pts, s)
       \/ UnwatchChannel(c)

Next ==
    \/ Environment
    \/ Stream
    \/ \E s \in Attempts : Chase(s)
    \/ Follow
    \/ Close

Spec == Init /\ [][Next]_vars

(***************************************************************************)
(* Timers fire, what a catch-up is at goes on, and a box that is asked     *)
(* about again and again is in the end named and answered to the last      *)
(* page.  A window waits for one of Attempts to be free, which is a bound  *)
(* of the model: hence the strong fairness.  Nothing is said of feeds.     *)
(***************************************************************************)
Fairness ==
    /\ \A b \in Boxes : SF_vars(\E s \in Attempts : WindowEnds(b, s))
    /\ \A s \in Attempts :
          /\ WF_vars(Answer(s) \/ CatchUpFails(s) \/ Saved(s) \/ Drain(s) \/ Drained(s))
          /\ SF_vars(Name(s))
          /\ \A b \in Boxes :
                SF_vars(\E upto \in Stops(b) :
                           /\ att[s].box = b
                           /\ att[s].asked <= upto /\ upto <= srv[b]
                           /\ AnswerFinal(s, upto, 0))
    /\ \A c \in Watchable : WF_vars(\E s \in Attempts : Refresh(c, s))

FairSpec == Spec /\ Fairness
-----------------------------------------------------------------------------
FeedType ==
    [phase : {"idle", "harvest", "consume"}, left : SUBSET Events, start : Nat, number : Nat]

\* An attempt that is not idle refers to the entry it joined or made.
ActiveType ==
    [phase : {"naming", "asking", "saving", "draining"}, box : Boxes, entry : Attempts,
     asked : Positions, floor : Nat, page : Nat, before : Positions,
     todo : SUBSET Events, refresh : BOOLEAN]

AttemptType == {NoAttempt} \cup ActiveType

\* Every variable keeps to its type.
TypeOK ==
    /\ srv \in [Boxes -> Nat]
    /\ member \in [Channels -> BOOLEAN]
    /\ local \in [Boxes -> Positions]
    /\ seq \in Nat
    /\ known \subseteq Events /\ handed \subseteq Events
    /\ twice \subseteq Events /\ skipped \subseteq Events
    /\ feed \in [Feeds -> FeedType]
    /\ pending \in [Boxes -> {"none", "ordered", "asking"}]
    /\ waiting \in [Boxes -> SUBSET Events]
    /\ catching \in [Boxes -> Attempts \cup {None}]
    /\ held \in [Attempts -> SUBSET Events]
    /\ att \in [Attempts -> AttemptType]
    /\ gone \subseteq Channels
    /\ watching \in [Channels -> Nat]
    /\ follow \in [Channels -> BOOLEAN]
    /\ closed \in BOOLEAN

Accounted == known \cup skipped

(***************************************************************************)
(* No position is past an event that is not accounted for: everything a    *)
(* box has counted was handed out, was withheld as this account's own      *)
(* doing, or is behind a position taken without asking for it (where it    *)
(* was resumed or joined, or a box too far behind).  A step over an event  *)
(* leaves nothing to notice it by (the gap verdict in state.ts).           *)
(***************************************************************************)
NothingSteppedOver ==
    \A b \in Boxes : \A p \in Log[b] : p <= local[b] => <<b, p>> \in Accounted

(***************************************************************************)
(* An update is handed out only with everything before it in its box       *)
(* accounted for, whether it came from the stream, from a window or from a *)
(* page of a difference.                                                   *)
(***************************************************************************)
NoHoleBehind ==
    [][\A e \in handed' \ handed : Before(e[1], e[2]) \subseteq known' \cup skipped']_vars

(***************************************************************************)
(* One box chases at most one catch-up (hold in manager.ts).               *)
(***************************************************************************)
OneChase ==
    \A s, t \in Attempts :
        Chasing(s) /\ Chasing(t) /\ att[s].box = att[t].box => s = t

(***************************************************************************)
(* While the manager is open no box moves back, except a channel that is   *)
(* forgotten: a position read before an await does not overwrite what was  *)
(* counted during it.                                                      *)
(***************************************************************************)
NeverBack ==
    [][closed \/ \A b \in Boxes : local'[b] = NoPts \/ local'[b] >= local[b]]_vars

(***************************************************************************)
(* What waits out a gap or a catch-up is not lost: it is accounted for in  *)
(* the end, unless the manager is closed or the channel is gone.           *)
(***************************************************************************)
Waits(e) ==
    \/ \E b \in Boxes : e \in waiting[b]
    \/ \E s \in Attempts : e \in held[s] \cup att[s].todo

HeldIsResolved ==
    \A e \in Events : Waits(e) ~> (e \in Accounted \/ closed \/ e[1] \in gone)

(***************************************************************************)
(* A followed channel goes on being asked about: the next ask is arranged, *)
(* or a catch-up of the channel is running or is.  A failed refresh does   *)
(* not end the subscription (refreshChannel in manager.ts).                *)
(***************************************************************************)
FollowedIsAsked ==
    \A c \in Channels : watching[c] > 0 =>
        \/ follow[c] \/ pending[c] # "none"
        \/ \E s \in Attempts : att[s].box = c /\ att[s].phase # "idle"

(***************************************************************************)
(* The manager is the stream a listener is promised: of every step, what   *)
(* is handed out is new, and nothing before it is left open behind it.     *)
(***************************************************************************)
Promised == INSTANCE UpdateStream WITH
    times <- [e \in Events |-> IF e \in twice THEN 2 ELSE IF e \in handed THEN 1 ELSE 0],
    settled <- Accounted

KeepsThePromise == Promised!Spec
=============================================================================
