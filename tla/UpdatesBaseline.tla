-------------------------- MODULE UpdatesBaseline --------------------------
(***************************************************************************)
(* Where an account starts in the stream: the question for a starting      *)
(* position (establish in updates/manager.ts), what arrives before it is   *)
(* answered, the position written down (account.ts, storage/updates.ts)    *)
(* and the run that resumes from it.                                       *)
(*                                                                         *)
(* One box, each event of which takes one step, so an event is the         *)
(* position it leaves the box at.  An update arrives alone or as a         *)
(* container of one.  Catch-ups are of one page and one at a time here;    *)
(* Updates has the rest.                                                   *)
(***************************************************************************)
EXTENDS UpdateState, FiniteSets, Sequences

CONSTANTS
    MaxPts,     \* the last event
    Numbered,   \* the events that arrive as a numbered container
    MaxEarly,   \* MAX_EARLY: updates held before there is a position
    MaxRuns,    \* runs of the account, at most
    MaxWrites,  \* positions on their way to the store at once, at most
    None

Log == Origin + 1 .. MaxPts

ASSUME BaselineAssumption ==
    /\ MaxPts \in Nat /\ MaxEarly \in Nat \ {0} /\ MaxRuns \in Nat /\ MaxWrites \in Nat
    /\ Numbered \subseteq Log
    /\ None \notin [from : Nat, floor : Nat, recovering : BOOLEAN]

VARIABLES
    srv,          \* how far the box has got at the server
    told,         \* history: the highest answer to the question, or 0
    handed,       \* history: the events handed to a handler, by any run
    store,        \* the position written down, or None
    writing,      \* positions on their way to the store
    runs,         \* runs so far
    up,           \* whether one of them is up
    local, seq,   \* how far the box and the containers have got here
    established,  \* whether the account takes itself to have a position
    arriving,     \* updates whose peers are being written down
    early,        \* what arrived before there was a position
    asking,       \* what the question for it is doing
    floor,        \* how far the server had got when it was asked
    awaiting,     \* who waits for the question to end: "feed", "recover"
    taking,       \* the early update in hand, or 0
    again,        \* whether the question is to be asked again
    owed,         \* whether a position is about to be written down
    pending, window,  \* whether a gap waits, and what it holds
    chasing,      \* a catch-up that is running, or None
    held,         \* what arrived while catching up
    todo,         \* what is left of it once the catch-up has ended
    waited,       \* history: what this run has held early
    dropped,      \* history: ... and reported as dropped at the limit
    cut,          \* history: ... and removed there in the place of another
    passed        \* history: what waited behind a gap as an answer went past it

place == <<local, seq>>
question == <<established, early, asking, floor, awaiting, taking, again>>
gaps == <<pending, window, chasing, held, todo>>
fate == <<waited, dropped, cut, passed>>
history == <<told, fate>>
storage == <<store, writing, runs, up>>
vars == <<srv, told, handed, storage, place, question, arriving, owed, gaps, fate>>

-----------------------------------------------------------------------------
\* Containers are numbered in the order they happen.
SeqAt(p) == Cardinality({q \in Numbered : q <= p})

NumberOf(p) == IF p \in Numbered THEN SeqAt(p) ELSE 0

\* What of H follows on from l without a hole.
Unbroken(l, H) == {p \in H : p > l /\ l + 1 .. p \subseteq H}

Top(l, applied) == Highest(applied \cup {l})

\* Let P wait for a catch-up, or join the one that is running.
Queue(P, kind) ==
    IF chasing # None
    THEN held' = held \cup P /\ UNCHANGED <<pending, window>>
    ELSE /\ window' = window \cup P
         /\ pending' = IF kind = "ordered" /\ pending # "asking" THEN "ordered" ELSE "asking"
         /\ UNCHANGED held

\* Deal with one update, as Updates does, in a box whose events take one step each.
Consume(p) ==
    LET freed == IF pending = "ordered" THEN Unbroken(p, window) ELSE {}
        left == {q \in window : q > Top(p, freed)}
        verdict == Judge(local, p, 1)
    IN  \/ /\ chasing # None
           /\ held' = held \cup {p}
           /\ UNCHANGED <<local, handed, pending, window>>
        \/ /\ chasing = None /\ verdict = "seen"
           /\ UNCHANGED <<local, handed, pending, window, held>>
        \/ /\ chasing = None /\ verdict = "apply"
           /\ local' = Top(p, freed)
           /\ handed' = handed \cup {p} \cup freed
           /\ IF pending = "ordered"
              THEN /\ window' = left
                   /\ pending' = IF left = {} THEN "none" ELSE "ordered"
              ELSE UNCHANGED <<pending, window>>
           /\ UNCHANGED held
        \/ /\ chasing = None /\ verdict = "gap"
           /\ Queue({p}, "ordered")
           /\ UNCHANGED <<local, handed>>

\* Deal with a container whose peers have been written down.
ConsumeContainer(p) ==
    LET verdict == JudgeContainer(seq, NumberOf(p))
    IN  \/ /\ verdict = "seen"
           /\ UNCHANGED <<place, handed, pending, window, held>>
        \/ /\ verdict = "gap"
           /\ Queue({p}, "asking")
           /\ UNCHANGED <<place, handed>>
        \/ /\ verdict = "apply"
           /\ Consume(p)
           /\ seq' = AdvanceContainer(seq, NumberOf(p))

-----------------------------------------------------------------------------
(* The server, and the position written down.                              *)

\* The next thing happens in the box.
Happen ==
    /\ srv < MaxPts
    /\ srv' = srv + 1
    /\ UNCHANGED <<told, handed, storage, place, question, arriving, owed, gaps, fate>>

\* first: written by the question itself, which waits for it.
Snapshot(first) == [pts |-> local, seq |-> seq, first |-> first]

\* Once per batch, and nothing waits for the one before.
Remember ==
    /\ owed /\ Cardinality(writing) < MaxWrites
    /\ owed' = FALSE
    /\ writing' = writing \cup {Snapshot(FALSE)}
    /\ UNCHANGED <<srv, handed, store, runs, up, place, question, arriving, gaps, history>>

(***************************************************************************)
(* A write is over.  The one the question made ends the question, and what *)
(* waited for that goes on to write the position down again.               *)
(***************************************************************************)
Written(w) ==
    /\ writing' = writing \ {w}
    /\ IF w.first
       THEN /\ asking' = "no" /\ awaiting' = {}
            /\ owed' = (owed \/ awaiting # {})
       ELSE UNCHANGED <<asking, awaiting, owed>>
    /\ UNCHANGED <<srv, handed, runs, up, place, established, arriving, early, floor,
                   taking, again, gaps, history>>

\* Writes may land in another order than they were made.
Write(w) ==
    /\ w \in writing
    /\ store' = [pts |-> w.pts, seq |-> w.seq]
    /\ Written(w)

\* A store that will not take the position does not fail the stream.
WriteFails(w) ==
    /\ w \in writing
    /\ UNCHANGED store
    /\ Written(w)

\* The account is closed or dies: only what was written down is left.
Stop ==
    /\ up
    /\ up' = FALSE
    /\ writing' = {}
    /\ local' = Origin /\ seq' = 0
    /\ established' = FALSE
    /\ arriving' = {} /\ early' = <<>>
    /\ asking' = "no" /\ floor' = Origin /\ awaiting' = {}
    /\ taking' = 0 /\ again' = FALSE /\ owed' = FALSE
    /\ pending' = "none" /\ window' = {}
    /\ chasing' = None /\ held' = {} /\ todo' = {}
    /\ waited' = {} /\ dropped' = {} /\ cut' = {} /\ passed' = {}
    /\ UNCHANGED <<srv, told, handed, store, runs>>

\* A run resumes from the position written down; one that finds none has none.
Start ==
    /\ ~up /\ runs < MaxRuns
    /\ up' = TRUE /\ runs' = runs + 1
    /\ IF store = None THEN UNCHANGED <<local, seq>>
       ELSE local' = store.pts /\ seq' = store.seq
    /\ established' = (store # None)
    /\ UNCHANGED <<srv, told, handed, store, writing, arriving, early, asking, floor,
                   awaiting, taking, again, owed, gaps, fate>>

-----------------------------------------------------------------------------
(* The question for a starting position, and what waits for it.            *)

\* Ask, unless the question is being asked: then what arrives joins the wait.
Establish ==
    IF asking = "no"
    THEN asking' = "asking" /\ floor' = srv
    ELSE UNCHANGED <<asking, floor>>

(***************************************************************************)
(* An update is kept for when there is a position.  Beyond the limit the   *)
(* oldest is dropped, and that is reported.                                *)
(***************************************************************************)
HoldEarly(p) ==
    LET full == Len(early) >= MaxEarly
    IN  /\ early' = Append(IF full THEN Tail(early) ELSE early, p)
        /\ dropped' = IF full THEN dropped \cup {Head(early)} ELSE dropped
        /\ waited' = waited \cup {p}
        /\ Establish
        /\ awaiting' = awaiting \cup {"feed"}
        /\ UNCHANGED <<srv, told, handed, storage, place, established, taking, again, owed,
                       gaps, cut, passed>>

\* An update arrives before there is a position; each arrives once so.
Arrive(p) ==
    /\ up /\ ~established /\ p <= srv
    /\ p \notin waited \cup arriving
    /\ arriving' = arriving \cup {p}
    /\ UNCHANGED <<srv, handed, storage, place, question, owed, gaps, history>>

\* Its peers have been written down.  There may be a position by now: nobody looks.
Harvested(p) ==
    /\ p \in arriving
    /\ arriving' = arriving \ {p}
    /\ HoldEarly(p)

\* They could not be: feed rejects, and the update was never taken.
ArrivalFails(p) ==
    /\ p \in arriving
    /\ arriving' = arriving \ {p}
    /\ UNCHANGED <<srv, handed, storage, place, question, owed, gaps, history>>

\* Mutation: a question that fails is not asked again.
QuestionFailsForGood ==
    /\ asking' = "no" /\ taking' = 0
    /\ awaiting' = {}
    /\ owed' = (owed \/ "feed" \in awaiting)
    /\ UNCHANGED <<srv, handed, storage, place, established, arriving, early, floor, again,
                   gaps, history>>

\* The question fails: it is asked again later, if anything waits for it.
QuestionFails ==
    /\ asking' = "no" /\ taking' = 0
    /\ again' = (again \/ early # <<>>)
    /\ awaiting' = {}
    /\ owed' = (owed \/ "feed" \in awaiting)
    /\ UNCHANGED <<srv, handed, storage, place, established, arriving, early, floor, gaps,
                   history>>

Unanswered ==
    /\ asking = "asking"
    /\ QuestionFails

\* Mutation: it is asked again without looking whether it has been answered since.
AskAgainAnyway ==
    /\ again
    /\ again' = FALSE
    /\ Establish
    /\ UNCHANGED <<srv, handed, storage, place, established, arriving, early, awaiting,
                   taking, owed, gaps, history>>

AskAgain ==
    /\ again
    /\ again' = FALSE
    /\ IF established THEN UNCHANGED <<asking, floor>> ELSE Establish
    /\ UNCHANGED <<srv, handed, storage, place, established, arriving, early, awaiting,
                   taking, owed, gaps, history>>

\* Telegram says where every sequence stands, and its word is taken.  Asked a second
\* time, it may go past what has been waiting behind a gap since the first.
TakeBaseline(upto) ==
    /\ asking = "asking"
    /\ floor <= upto /\ upto <= srv
    /\ told' = Larger(told, upto)
    /\ local' = upto
    /\ seq' = AdvanceContainer(seq, SeqAt(upto))
    /\ asking' = "draining"
    /\ passed' = passed \cup {p \in window \cup held \cup todo : p <= upto}
    /\ UNCHANGED <<srv, handed, storage, established, arriving, early, floor, awaiting,
                   taking, again, owed, gaps, waited, dropped, cut>>

\* Mutation: what the position covers is old, and is discarded as such.
DrainAsOld(p) == Consume(p)

\* What the position covers is handed out all the same; what lies beyond is judged.
DrainUpdate(p) ==
    \/ /\ p <= local
       /\ handed' = handed \cup {p}
       /\ UNCHANGED <<local, pending, window, held>>
    \/ p > local /\ Consume(p)

\* The next early update: alone, or in a container the position covers.
DrainOne ==
    /\ asking = "draining" /\ early # <<>>
    /\ NumberOf(Head(early)) <= seq
    /\ taking' = Head(early)
    /\ asking' = "handled"
    /\ DrainUpdate(Head(early))
    /\ UNCHANGED <<srv, storage, seq, established, arriving, early, floor, awaiting, again,
                   owed, chasing, todo, history>>

\* A container beyond it is taken as one: its peers are written down first.
DrainContainer ==
    /\ asking = "draining" /\ early # <<>>
    /\ NumberOf(Head(early)) > seq
    /\ taking' = Head(early)
    /\ asking' = "harvesting"
    /\ UNCHANGED <<srv, handed, storage, place, established, arriving, early, floor,
                   awaiting, again, owed, gaps, history>>

DrainHarvested ==
    /\ asking = "harvesting"
    /\ asking' = "handled"
    /\ ConsumeContainer(taking)
    /\ UNCHANGED <<srv, storage, established, arriving, early, floor, awaiting, taking, again,
                   owed, chasing, todo, history>>

(***************************************************************************)
(* Removed only once handled, so that a failure leaves it for the next     *)
(* attempt.  What is removed is the first of the list, which is another if *)
(* the limit has taken the one in hand meanwhile.                          *)
(***************************************************************************)
Shift ==
    /\ asking = "handled"
    /\ asking' = "draining" /\ taking' = 0
    /\ early' = Tail(early)
    /\ cut' = cut \cup ({Head(early)} \ {taking})
    /\ UNCHANGED <<srv, handed, storage, place, established, arriving, floor, awaiting, again,
                   owed, gaps, told, waited, dropped, passed>>

\* Only writing down the peers of a container may fail.
DrainFails ==
    /\ asking = "harvesting"
    /\ QuestionFails

\* Nothing is left: there is a position, and it is written down.
Established ==
    /\ asking = "draining" /\ early = <<>>
    /\ established' = TRUE
    /\ asking' = "saving"
    /\ writing' = writing \cup {Snapshot(TRUE)}
    /\ UNCHANGED <<srv, handed, store, runs, up, place, arriving, early, floor, awaiting,
                   taking, again, owed, gaps, history>>

-----------------------------------------------------------------------------
(* Following the stream from the position.                                 *)

\* An update is dealt with, and the position is about to be written down.
Feed(p) ==
    /\ up /\ established /\ p <= srv
    /\ \/ p \notin Numbered /\ Consume(p) /\ UNCHANGED seq
       \/ p \in Numbered /\ ConsumeContainer(p)
    /\ owed' = TRUE
    /\ UNCHANGED <<srv, storage, question, arriving, chasing, todo, history>>

\* A catch-up: where it was asked from, how far the server was, who asked.
CatchUp(from, recovering) ==
    chasing' = [from |-> from, floor |-> srv, recovering |-> recovering]

\* The connection has a session: the account asks what it missed, or where it stands.
Recover ==
    /\ up
    /\ \/ /\ ~established
          /\ Establish
          /\ awaiting' = awaiting \cup {"recover"}
          /\ UNCHANGED chasing
       \/ /\ established /\ chasing = None /\ pending = "none"
          /\ CatchUp(local, TRUE)
          /\ UNCHANGED <<asking, floor, awaiting>>
    /\ UNCHANGED <<srv, handed, storage, place, established, arriving, early, taking, again,
                   owed, pending, window, held, todo, history>>

\* The reorder window has run out: what cannot be let through is asked about.
WindowEnds ==
    LET freed == IF pending = "ordered" THEN Unbroken(local, window) ELSE {}
        top == Top(local, freed)
        left == IF pending = "ordered" THEN {q \in window : q > top} ELSE window
    IN  /\ pending # "none" /\ chasing = None
        /\ local' = top
        /\ handed' = handed \cup freed
        /\ window' = {} /\ pending' = "none"
        /\ IF pending = "ordered" /\ left = {}
           THEN UNCHANGED <<chasing, held>>
           ELSE CatchUp(top, FALSE) /\ held' = left
        /\ UNCHANGED <<srv, storage, seq, question, arriving, owed, todo, history>>

\* Mutation: the position is taken and what led to it is not handed out.
TakeOnlyPosition(upto) == handed' = handed /\ local' = upto

\* What the server kept is handed out, and its word taken for where the box is.
TakeDifference(upto) ==
    /\ handed' = handed \cup (chasing.from + 1 .. upto)
    /\ local' = upto

\* A catch-up is over; recover writes the position down, a window's leaves that to feed.
CaughtUp(upto) ==
    /\ chasing # None
    /\ chasing.floor <= upto /\ upto <= srv
    /\ TakeDifference(upto)
    /\ seq' = AdvanceContainer(seq, SeqAt(upto))
    /\ owed' = (owed \/ chasing.recovering)
    /\ todo' = todo \cup held
    /\ held' = {}
    /\ chasing' = None
    /\ UNCHANGED <<srv, storage, question, arriving, pending, window, history>>

\* What was held waits for the next attempt.
CatchUpFails ==
    /\ chasing # None
    /\ chasing' = None
    /\ held' = {}
    /\ window' = window \cup held
    /\ pending' = IF held = {} THEN pending ELSE "asking"
    /\ UNCHANGED <<srv, handed, storage, place, question, arriving, owed, todo, history>>

DrainHeld(p) ==
    /\ p \in todo
    /\ \A q \in todo : p <= q
    /\ Consume(p)
    /\ todo' = todo \ {p}
    /\ UNCHANGED <<srv, storage, seq, question, arriving, owed, chasing, history>>

-----------------------------------------------------------------------------
Init ==
    /\ srv \in Origin .. MaxPts
    /\ told = 0 /\ handed = {}
    /\ store = None /\ writing = {} /\ runs = 1 /\ up = TRUE
    /\ local = Origin /\ seq = 0
    /\ established = FALSE
    /\ arriving = {} /\ early = <<>>
    /\ asking = "no" /\ floor = Origin /\ awaiting = {}
    /\ taking = 0 /\ again = FALSE /\ owed = FALSE
    /\ pending = "none" /\ window = {}
    /\ chasing = None /\ held = {} /\ todo = {}
    /\ waited = {} /\ dropped = {} /\ cut = {} /\ passed = {}

AnswersAndTimers ==
    \/ Unanswered \/ AskAgain \/ \E upto \in Origin .. MaxPts : TakeBaseline(upto)
    \/ DrainOne \/ DrainContainer \/ DrainHarvested \/ Shift \/ DrainFails \/ Established
    \/ WindowEnds \/ CatchUpFails \/ \E upto \in Origin .. MaxPts : CaughtUp(upto)
    \/ \E p \in Log : DrainHeld(p)

Next ==
    \/ Happen \/ Remember \/ Stop \/ Start \/ Recover
    \/ \E w \in writing : Write(w) \/ WriteFails(w)
    \/ \E p \in Log : Arrive(p) \/ Harvested(p) \/ ArrivalFails(p) \/ Feed(p)
    \/ AnswersAndTimers

Spec == Init /\ [][Next]_vars

(***************************************************************************)
(* Timers fire and what has been started goes on; a question asked again   *)
(* and again is answered some time, Telegram being there, and the peers of *)
(* a container are written down some time if that is tried again and again.*)
(***************************************************************************)
FairSpec ==
    /\ Spec
    /\ WF_vars(AskAgain) /\ WF_vars(DrainOne) /\ WF_vars(DrainContainer)
    /\ WF_vars(Shift) /\ WF_vars(Established) /\ WF_vars(WindowEnds)
    /\ SF_vars(DrainHarvested)
    /\ WF_vars(\E w \in writing : Write(w) \/ WriteFails(w))
    /\ \A p \in Log : WF_vars(Harvested(p))
    /\ WF_vars(\E p \in Log : DrainHeld(p))
    /\ SF_vars(\E upto \in Origin .. MaxPts : TakeBaseline(upto))
    /\ SF_vars(\E upto \in Origin .. MaxPts : CaughtUp(upto))

-----------------------------------------------------------------------------
Positioned == [pts : Origin .. MaxPts, seq : Nat]

\* Every variable holds what its comment says of it.
TypeOK ==
    /\ srv \in Origin .. MaxPts /\ told \in 0 .. MaxPts
    /\ handed \subseteq Log /\ waited \subseteq Log /\ dropped \subseteq waited
    /\ cut \subseteq waited /\ passed \subseteq Log
    /\ store \in Positioned \cup {None}
    /\ writing \subseteq [pts : Origin .. MaxPts, seq : Nat, first : BOOLEAN]
    /\ runs \in Nat /\ up \in BOOLEAN
    /\ local \in Origin .. MaxPts /\ seq \in Nat
    /\ established \in BOOLEAN /\ again \in BOOLEAN /\ owed \in BOOLEAN
    /\ arriving \subseteq Log /\ early \in Seq(waited)
    /\ asking \in {"no", "asking", "draining", "harvesting", "handled", "saving"}
    /\ floor \in Origin .. MaxPts /\ awaiting \subseteq {"feed", "recover"}
    /\ taking \in Log \cup {0}
    /\ pending \in {"none", "ordered", "asking"}
    /\ window \subseteq Log /\ held \subseteq Log /\ todo \subseteq Log
    /\ chasing \in [from : Origin .. MaxPts, floor : Origin .. MaxPts,
                     recovering : BOOLEAN] \cup {None}

Listed(s) == {s[i] : i \in DOMAIN s}

\* Everything up to l was handed out, or lay behind the position Telegram gave.
Safe(l) == \A p \in Log : p <= l => p \in handed \/ p <= told

(***************************************************************************)
(* Any position written down is safe to resume from: whatever it counts    *)
(* was handed out by a run, or lay behind a position Telegram gave as a    *)
(* start.  A crash may come at any point, and writes may land out of order *)
(* (#remember in account.ts).                                              *)
(***************************************************************************)
StoredIsSafe == store # None => Safe(store.pts)

(***************************************************************************)
(* What arrived before the position was known is never lost from sight: it *)
(* has been handed out or reported as dropped, or some list still has it,  *)
(* however the question for the position, windows and catch-ups interleave.*)
(* There are the two exceptions that establish and holdEarly make, and no  *)
(* third: what was cut at the limit while another was in hand, and what    *)
(* waited behind a gap as a question asked again was answered.             *)
(***************************************************************************)
Kept ==
    \A p \in waited :
        p \in handed \cup dropped \cup cut \cup passed \cup Listed(early) \cup window
             \cup held \cup todo

(***************************************************************************)
(* The question is asked, and asked again, only while something waits for  *)
(* it: an update that was held, or a recovery (establish, establishLater;  *)
(* docs/mtproto.md 9.3).  An answer takes the place of every count, so one *)
(* nobody waits for passes over whatever lies between for nothing.         *)
(***************************************************************************)
AsksForAReason == asking = "asking" => early # <<>> \/ "recover" \in awaiting

(***************************************************************************)
(* What is held while the account has no position does not stay where it   *)
(* is: in the end it is handed out or reported as dropped, or has gone by  *)
(* one of the two exceptions, if the run lasts.  The question may fail any *)
(* number of times, half way through what waits as well (establishLater).  *)
(***************************************************************************)
HeldIsLetThrough ==
    \A p \in Log :
        p \in Listed(early) /\ ~established
            ~> p \in handed \cup dropped \cup cut \cup passed \/ ~up

(***************************************************************************)
(* What docs/mtproto.md 9.3 says: what is held for a position is handed    *)
(* out once there is one, or at least reported as dropped.  The code does  *)
(* not keep this for an update whose peers are being written down as the   *)
(* position is taken (holdEarly).                                          *)
(***************************************************************************)
EarlyIsHandedOut ==
    \A p \in Log : p \in waited ~> p \in handed \cup dropped \/ ~up
=============================================================================
