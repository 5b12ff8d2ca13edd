--------------------------- MODULE UpdatesProofs ---------------------------
(***************************************************************************)
(* What holds of the update manager for every log, however many channels,  *)
(* feeds and catch-ups there are at once: its boxes step over nothing, and *)
(* what it hands out is handed out once, with no hole behind it.           *)
(***************************************************************************)
EXTENDS Updates, UpdateStateProofs

-----------------------------------------------------------------------------
(* Facts about positions.                                                  *)

LEMMA EventParts ==
  ASSUME NEW e \in Events
  PROVE  e[1] \in Boxes /\ e[2] \in Log[e[1]] /\ e = <<e[1], e[2]>>
BY DEF Events

LEMMA EventOf ==
  ASSUME NEW b \in Boxes, NEW p \in Log[b]
  PROVE  <<b, p>> \in Events
BY DEF Events

LEMMA LogType ==
  ASSUME NEW b \in Boxes, NEW p \in Log[b]
  PROVE  p \in Nat /\ p > Origin /\ p <= MaxPts
<1>1. p \in Origin + 1 .. MaxPts /\ MaxPts \in Nat
  BY LogAssumption
<1> QED
  BY <1>1 DEF Origin

(***************************************************************************)
(* What closeWindow applies for a box at l ends at a position behind which *)
(* everything after l was held.                                            *)
(***************************************************************************)
LEMMA RunIsUnbroken ==
  ASSUME NEW b \in Boxes, NEW l \in Nat, NEW H \in SUBSET Log[b]
  PROVE  /\ Run(b, l, H) \subseteq H
         /\ Reached(l, Run(b, l, H)) \in Nat
         /\ Reached(l, Run(b, l, H)) >= l
         /\ \A q \in Log[b] : l < q /\ q <= Reached(l, Run(b, l, H)) => q \in Run(b, l, H)
<1> DEFINE R == Run(b, l, H)
<1>1. R = IF H = {} THEN {}
          ELSE {p \in H : l < p /\ \A q \in Log[b] : l < q /\ q <= p => q \in H}
  <2>1. l # NoPts
    BY DEF NoPts
  <2> QED
    BY <2>1 DEF Run
<1>2. R \in SUBSET Nat /\ \A x \in R : x <= MaxPts
  BY <1>1, LogType
<1>3. CASE R = {}
  BY <1>3, LogType DEF Reached
<1>4. CASE R # {}
  <2>1. Highest(R) \in R
    BY <1>2, <1>4, HighestIsHighest, LogAssumption
  <2>2. Reached(l, R) = Highest(R)
    BY <1>4 DEF Reached
  <2>3. ASSUME NEW q \in Log[b], l < q, q <= Highest(R)
        PROVE  q \in R
    <3>1. q \in H /\ \A x \in Log[b] : l < x /\ x <= Highest(R) => x \in H
      BY <1>1, <2>1, <2>3
    <3>2. \A x \in Log[b] : x <= q => x <= Highest(R)
      BY <2>1, <1>2, <2>3, LogType
    <3> QED
      BY <1>1, <1>4, <2>3, <3>1, <3>2
  <2> QED
    BY <1>1, <1>2, <2>1, <2>2, <2>3
<1> QED
  BY <1>3, <1>4

-----------------------------------------------------------------------------
(* Every variable keeps to its type, and no position is past an event that *)
(* is not accounted for.  The second needs that the same holds of the      *)
(* positions differences are being asked from, which later become part of  *)
(* what is counted: an answer tells of nothing before the position it was  *)
(* asked from.                                                             *)

AskedIsAccounted ==
    \A s \in Attempts : att[s].phase = "asking" =>
        \A p \in Log[att[s].box] : p <= att[s].asked => <<att[s].box, p>> \in Accounted

IInv == TypeOK /\ NothingSteppedOver /\ AskedIsAccounted

\* The variables one consumed update, or one page of a difference, may change.
StreamType ==
    /\ local \in [Boxes -> Positions]
    /\ known \subseteq Events /\ handed \subseteq Events
    /\ twice \subseteq Events /\ skipped \subseteq Events

WindowType ==
    /\ pending \in [Boxes -> {"none", "ordered", "asking"}]
    /\ waiting \in [Boxes -> SUBSET Events]
    /\ held \in [Attempts -> SUBSET Events]

LEMMA DispatchStep ==
  ASSUME StreamType, NEW S \in SUBSET Events, NEW R \in SUBSET Events,
         known \subseteq R, Dispatch(S, R)
  PROVE  /\ known' \subseteq Events /\ handed' \subseteq Events /\ twice' \subseteq Events
         /\ known \subseteq known' /\ S \subseteq known'
BY DEF StreamType, Dispatch

LEMMA QueueCatchUpStep ==
  ASSUME WindowType, NEW b \in Boxes, NEW U \in SUBSET Events, NEW ordered \in BOOLEAN,
         NEW running \in Attempts \cup {None}, NEW lists \in [Attempts -> SUBSET Events],
         QueueCatchUp(b, U, ordered, running, lists)
  PROVE  WindowType'
<1>1. CASE UNCHANGED windows /\ held' = lists
  BY <1>1 DEF WindowType, windows
<1>2. CASE /\ running # None
           /\ held' = [lists EXCEPT ![running] = @ \cup U]
           /\ UNCHANGED windows
  BY <1>2 DEF WindowType, windows
<1>3. CASE /\ held' = lists
           /\ waiting' = [waiting EXCEPT ![b] = @ \cup U]
           /\ pending' = [pending EXCEPT ![b] =
                 IF ordered /\ @ # "asking" THEN "ordered" ELSE "asking"]
  BY <1>3 DEF WindowType
<1> QED
  BY <1>1, <1>2, <1>3 DEF QueueCatchUp

LEMMA CloseWindowStep ==
  ASSUME WindowType, NEW b \in Boxes, NEW l, CloseWindow(b, l), UNCHANGED held
  PROVE  WindowType'
<1>1. CASE pending[b] = "ordered"
  BY <1>1 DEF WindowType, CloseWindow
<1>2. CASE pending[b] # "ordered"
  BY <1>2 DEF WindowType, CloseWindow, windows
<1> QED
  BY <1>1, <1>2

\* What a window lets go of, once its box stands at l.
LEMMA ReleasedIsUnbroken ==
  ASSUME NEW b \in Boxes, NEW l \in Nat
  PROVE  /\ Released(b, l) \subseteq Log[b]
         /\ Reached(l, Released(b, l)) \in Nat
         /\ Reached(l, Released(b, l)) >= l
         /\ \A q \in Log[b] : l < q /\ q <= Reached(l, Released(b, l)) => q \in Released(b, l)
<1> DEFINE H == At(b, waiting[b])
<1>1. H \in SUBSET Log[b]
  BY DEF At
<1>2. CASE pending[b] = "ordered"
  <2>1. Released(b, l) = Run(b, l, H)
    BY <1>2 DEF Released
  <2> HIDE DEF H
  <2> QED
    BY <1>1, <2>1, RunIsUnbroken
<1>3. CASE pending[b] # "ordered"
  BY <1>3, LogType DEF Released, Reached
<1> QED
  BY <1>2, <1>3

\* The steps of a box partition its log: what is next follows on from what is counted.
LEMMA NothingBetween ==
  ASSUME NEW b \in Boxes, NEW p \in Log[b], NEW l \in Nat, l + Count[b][p] = p,
         NEW q \in Log[b], q < p
  PROVE  q <= l
BY CountAssumption, LogType

(***************************************************************************)
(* Consuming one update keeps the types and steps over nothing, whatever   *)
(* verdict it gets and whatever it lets through behind it.                 *)
(***************************************************************************)
LEMMA ConsumeStep ==
  ASSUME StreamType, WindowType, NothingSteppedOver,
         catching \in [Boxes -> Attempts \cup {None}],
         NEW e \in Events, NEW R \in SUBSET Events, known \subseteq R,
         Consume(e, R)
  PROVE  /\ StreamType' /\ WindowType' /\ NothingSteppedOver'
         /\ Accounted \subseteq Accounted'
<1> DEFINE b == e[1]
           p == e[2]
           l == Advance(local[b], p)
           freed == Released(b, l)
           top == Reached(l, freed)
<1>0. b \in Boxes /\ p \in Log[b] /\ e = <<b, p>>
  BY EventParts
<1>1. CASE /\ known' = R
           /\ UNCHANGED <<local, handed, twice, skipped>>
           /\ WindowType'
  BY <1>1 DEF StreamType, NothingSteppedOver, Accounted
<1>2. CASE catching[b] # None /\ held' = [held EXCEPT ![catching[b]] = @ \cup {e}]
           /\ known' = R /\ UNCHANGED <<local, handed, twice, skipped, windows>>
  <2>1. WindowType'
    BY <1>0, <1>2 DEF WindowType, windows
  <2> QED
    BY <1>1, <1>2, <2>1
<1>3. CASE known' = R /\ UNCHANGED <<local, handed, twice, skipped, windows, held>>
  <2>1. WindowType'
    BY <1>3 DEF WindowType, windows
  <2> QED
    BY <1>1, <1>3, <2>1
<1>4. CASE /\ QueueCatchUp(b, {e}, TRUE, None, held)
           /\ known' = R /\ UNCHANGED <<local, handed, twice, skipped>>
  <2>1. WindowType'
    BY <1>0, <1>4, QueueCatchUpStep DEF WindowType
  <2> QED
    BY <1>1, <1>4, <2>1
<1>5. CASE /\ Judge(local[b], p, Count[b][p]) = "apply"
           /\ local' = [local EXCEPT ![b] = top]
           /\ Dispatch({e} \cup {<<b, q>> : q \in freed}, R)
           /\ skipped' = skipped \cup StartedOver(b, local[b], p)
           /\ CloseWindow(b, top)
           /\ UNCHANGED held
  <2>1. p \in Nat /\ local[b] \in Positions
    BY <1>0, LogType DEF StreamType
  <2>2. l = p /\ (local[b] = NoPts \/ (local[b] \in Nat /\ local[b] + Count[b][p] = p))
    <3>1. CASE local[b] = NoPts
      BY <2>1, <3>1 DEF Advance, Larger, NoPts
    <3>2. CASE local[b] # NoPts
      <4>1. local[b] \in Nat /\ Count[b][p] \in Nat \ {0}
        BY <1>0, <2>1, <3>2, CountAssumption DEF Positions
      <4>2. local[b] + Count[b][p] = p
        BY <1>5, <3>2 DEF Judge
      <4> QED
        BY <2>1, <4>1, <4>2 DEF Advance, Larger
    <3> QED
      BY <3>1, <3>2
  <2>3. /\ freed \subseteq Log[b] /\ top \in Nat /\ top >= p
        /\ \A q \in Log[b] : p < q /\ q <= top => q \in freed
    BY <1>0, <2>1, <2>2, ReleasedIsUnbroken
  <2> DEFINE S == {e} \cup {<<b, q>> : q \in freed}
  <2>4. S \in SUBSET Events
    BY <1>0, <2>3, EventOf
  <2> HIDE DEF l, freed, top
  <2>5. /\ known' \subseteq Events /\ handed' \subseteq Events /\ twice' \subseteq Events
        /\ known \subseteq known' /\ S \subseteq known'
    <3> HIDE DEF S
    <3>1. Dispatch(S, R)
      BY <1>5 DEF S
    <3> QED
      BY <2>4, <3>1, DispatchStep
  <2>6. skipped \subseteq skipped' /\ skipped' \subseteq Events
    BY <1>0, <1>5, EventOf DEF StreamType, StartedOver, Before
  <2>7. StreamType'
    BY <1>0, <1>5, <2>3, <2>5, <2>6 DEF StreamType, Positions
  <2>8. Accounted \subseteq Accounted'
    BY <2>5, <2>6 DEF Accounted
  <2>9. ASSUME NEW q \in Log[b], q <= top
        PROVE  <<b, q>> \in Accounted'
    <3>0. q \in Nat
      BY <1>0, LogType
    <3>1. CASE q > p
      <4>1. <<b, q>> \in S
        BY <2>1, <2>3, <2>9, <3>0, <3>1
      <4> QED
        BY <2>5, <4>1 DEF Accounted
    <3>2. CASE q = p
      <4>1. e \in known'
        BY <2>5
      <4> QED
        BY <1>0, <3>2, <4>1 DEF Accounted
    <3>3. CASE q < p /\ local[b] = NoPts
      BY <1>5, <3>3 DEF Accounted, StartedOver, Before
    <3>4. CASE q < p /\ local[b] # NoPts
      <4>1. q <= local[b]
        BY <1>0, <2>2, <3>4, NothingBetween
      <4>2. <<b, q>> \in Accounted
        BY <1>0, <4>1 DEF NothingSteppedOver
      <4> QED
        BY <2>8, <4>2
    <3> QED
      BY <2>1, <3>0, <3>1, <3>2, <3>3, <3>4
  <2>10. NothingSteppedOver'
    <3>1. SUFFICES ASSUME NEW c \in Boxes, NEW q \in Log[c], q <= local'[c]
                   PROVE  <<c, q>> \in Accounted'
      BY DEF NothingSteppedOver
    <3>2. CASE c = b
      <4>1. local'[c] = top
        BY <1>0, <1>5, <3>2 DEF StreamType
      <4> QED
        BY <2>9, <3>1, <3>2, <4>1
    <3>3. CASE c # b
      <4>1. local'[c] = local[c]
        BY <1>5, <3>3 DEF StreamType
      <4> QED
        BY <2>8, <3>1, <4>1 DEF NothingSteppedOver
    <3> QED
      BY <3>2, <3>3
  <2>11. WindowType'
    BY <1>0, <1>5, CloseWindowStep
  <2> QED
    BY <2>7, <2>8, <2>10, <2>11
<1> QED
  BY <1>2, <1>3, <1>4, <1>5 DEF Consume, Holding

-----------------------------------------------------------------------------
(* The parts of the invariant an action that leaves most things alone keeps. *)

OtherType ==
    /\ srv \in [Boxes -> Nat]
    /\ member \in [Channels -> BOOLEAN]
    /\ seq \in Nat
    /\ catching \in [Boxes -> Attempts \cup {None}]
    /\ gone \subseteq Channels
    /\ watching \in [Channels -> Nat]
    /\ follow \in [Channels -> BOOLEAN]
    /\ closed \in BOOLEAN

LEMMA TypeParts ==
  TypeOK <=> /\ StreamType /\ WindowType /\ OtherType
             /\ feed \in [Feeds -> FeedType] /\ att \in [Attempts -> AttemptType]
BY DEF TypeOK, StreamType, WindowType, OtherType

LEMMA TypePartsNext ==
  TypeOK' <=> /\ StreamType' /\ WindowType' /\ OtherType'
              /\ feed' \in [Feeds -> FeedType] /\ att' \in [Attempts -> AttemptType]
BY DEF TypeOK, StreamType, WindowType, OtherType

LEMMA SequenceUnchanged ==
  ASSUME StreamType, NothingSteppedOver, UNCHANGED sequence
  PROVE  StreamType' /\ NothingSteppedOver' /\ Accounted' = Accounted
BY DEF StreamType, NothingSteppedOver, Accounted, sequence

LEMMA WindowsUnchanged ==
  ASSUME WindowType, UNCHANGED windows, held' \in [Attempts -> SUBSET Events]
  PROVE  WindowType'
BY DEF WindowType, windows

LEMMA AttemptsUnchanged ==
  ASSUME AskedIsAccounted, UNCHANGED att, Accounted \subseteq Accounted'
  PROVE  AskedIsAccounted'
BY DEF AskedIsAccounted

\* Only what the attempt that changed is asking from has to be looked at.
LEMMA AttemptChanged ==
  ASSUME AskedIsAccounted, Accounted \subseteq Accounted', NEW s \in Attempts,
         \A t \in Attempts \ {s} : att'[t] = att[t],
         att'[s].phase = "asking" =>
            \A p \in Log[att'[s].box] :
               p <= att'[s].asked => <<att'[s].box, p>> \in Accounted'
  PROVE  AskedIsAccounted'
<1>1. SUFFICES ASSUME NEW t \in Attempts, att'[t].phase = "asking",
                      NEW p \in Log[att'[t].box], p <= att'[t].asked
               PROVE  <<att'[t].box, p>> \in Accounted'
  BY DEF AskedIsAccounted
<1>2. CASE t = s
  BY <1>1, <1>2
<1>3. CASE t # s
  BY <1>1, <1>3 DEF AskedIsAccounted
<1> QED
  BY <1>2, <1>3

\* A call of catchUp asks from where its box stands, or does not ask yet.
LEMMA BegunAttempt ==
  ASSUME TypeOK, NothingSteppedOver', AskedIsAccounted, Accounted \subseteq Accounted',
         NEW s \in Attempts, NEW b \in Boxes, NEW entry \in Attempts,
         NEW refresh \in BOOLEAN, local'[b] \in Positions,
         att' = [att EXCEPT ![s] = Begun(b, entry, refresh, local'[b])]
  PROVE  AskedIsAccounted' /\ att' \in [Attempts -> AttemptType]
<1> DEFINE new == Begun(b, entry, refresh, local'[b])
<1>1. new \in AttemptType
  BY DEF Begun, AttemptType, ActiveType, TypeOK, Positions
<1>2. att'[s] = new /\ \A t \in Attempts \ {s} : att'[t] = att[t]
  BY DEF TypeOK
<1>3. att' \in [Attempts -> AttemptType]
  BY <1>1 DEF TypeOK
<1>4. new.phase = "asking" => new.box = b /\ new.asked = local'[b]
  BY DEF Begun
<1> HIDE DEF new
<1>5. att'[s].phase = "asking" =>
        \A p \in Log[att'[s].box] : p <= att'[s].asked => <<att'[s].box, p>> \in Accounted'
  BY <1>2, <1>4 DEF NothingSteppedOver
<1> QED
  BY <1>2, <1>3, <1>5, AttemptChanged

LEMMA NoAttemptType == NoAttempt \in AttemptType /\ NoAttempt.phase # "asking"
BY DEF NoAttempt, AttemptType

LEMMA ActiveAttempt ==
  ASSUME NEW a \in AttemptType, a.phase # "idle"
  PROVE  a \in ActiveType
BY DEF AttemptType, NoAttempt

LEMMA NoFeedType == NoFeed \in FeedType
BY DEF NoFeed, FeedType

\* An attempt that goes on to do something else than ask.
LEMMA AttemptStops ==
  ASSUME TypeOK, AskedIsAccounted, Accounted \subseteq Accounted',
         NEW s \in Attempts, NEW new \in AttemptType, new.phase # "asking",
         att' = [att EXCEPT ![s] = new]
  PROVE  AskedIsAccounted' /\ att' \in [Attempts -> AttemptType]
<1>1. att'[s] = new /\ \A t \in Attempts \ {s} : att'[t] = att[t]
  BY DEF TypeOK
<1>2. att' \in [Attempts -> AttemptType]
  BY DEF TypeOK
<1> QED
  BY <1>1, <1>2, AttemptChanged

-----------------------------------------------------------------------------
(* One lemma for the steps of each kind: what happens at the server, what  *)
(* the connection reports, how a catch-up starts, how it is answered, how  *)
(* it ends, and what a caller does.                                        *)

LEMMA EnvironmentStep ==
  ASSUME IInv, Environment
  PROVE  IInv'
<1>0. /\ StreamType /\ WindowType /\ OtherType /\ NothingSteppedOver /\ AskedIsAccounted
      /\ feed \in [Feeds -> FeedType] /\ att \in [Attempts -> AttemptType]
  BY TypeParts DEF IInv
<1>1. /\ UNCHANGED <<sequence, windows, held, att, feed, seq, catching, gone, following, closed>>
      /\ OtherType'
  <2>1. CASE \E b \in Boxes : Happen(b)
    <3>1. srv' \in [Boxes -> Nat]
      BY <1>0, <2>1, LogType DEF Happen, OtherType
    <3> QED
      BY <1>0, <2>1, <3>1 DEF Happen, OtherType, sequence, windows, following
  <2>2. CASE \E c \in Leavable : LeaveOrJoin(c)
    <3>1. member' \in [Channels -> BOOLEAN]
      BY <1>0, <2>2 DEF LeaveOrJoin, OtherType
    <3> QED
      BY <1>0, <2>2, <3>1 DEF LeaveOrJoin, OtherType, sequence, windows, following
  <2> QED
    BY <2>1, <2>2 DEF Environment
<1>2. StreamType' /\ NothingSteppedOver' /\ Accounted' = Accounted
  BY <1>0, <1>1, SequenceUnchanged
<1>3. WindowType'
  BY <1>0, <1>1, WindowsUnchanged DEF WindowType
<1>4. AskedIsAccounted'
  BY <1>0, <1>1, <1>2, AttemptsUnchanged
<1> QED
  BY <1>0, <1>1, <1>2, <1>3, <1>4, TypePartsNext DEF IInv

\* A step that takes in one update for a caller of consume.
LEMMA ConsumerStep ==
  ASSUME IInv, NEW e \in Events, NEW R \in SUBSET Events, known \subseteq R, Consume(e, R),
         OtherType', feed' \in [Feeds -> FeedType],
         \/ UNCHANGED att
         \/ \E s \in Attempts, new \in AttemptType :
               new.phase # "asking" /\ att' = [att EXCEPT ![s] = new]
  PROVE  IInv'
<1>0. /\ StreamType /\ WindowType /\ OtherType /\ NothingSteppedOver /\ AskedIsAccounted
      /\ att \in [Attempts -> AttemptType]
      /\ catching \in [Boxes -> Attempts \cup {None}]
  BY TypeParts DEF IInv, OtherType
<1>1. StreamType' /\ WindowType' /\ NothingSteppedOver' /\ Accounted \subseteq Accounted'
  BY <1>0, ConsumeStep
<1>2. AskedIsAccounted' /\ att' \in [Attempts -> AttemptType]
  <2>1. CASE UNCHANGED att
    BY <1>0, <1>1, <2>1, AttemptsUnchanged
  <2>2. CASE \E s \in Attempts, new \in AttemptType :
               new.phase # "asking" /\ att' = [att EXCEPT ![s] = new]
    <3>1. PICK s \in Attempts, new \in AttemptType :
               new.phase # "asking" /\ att' = [att EXCEPT ![s] = new]
      BY <2>2
    <3> QED
      BY <1>0, <1>1, <3>1, AttemptStops DEF IInv
  <2> QED
    BY <2>1, <2>2
<1> QED
  BY <1>1, <1>2, TypePartsNext DEF IInv

LEMMA ArrivalStep ==
  ASSUME IInv, NEW f \in Feeds, NEW U \in SUBSET Events, NEW start \in Nat,
         NEW number \in Nat, Feed(f, U, start, number) \/ Absorb(f, U, start, number)
  PROVE  IInv'
<1>0. /\ StreamType /\ WindowType /\ OtherType /\ NothingSteppedOver /\ AskedIsAccounted
      /\ feed \in [Feeds -> FeedType] /\ att \in [Attempts -> AttemptType]
  BY TypeParts DEF IInv
<1>1. /\ UNCHANGED <<local, handed, twice, skipped, windows, held, att>>
      /\ OtherType'
      /\ known \subseteq known' /\ known' \subseteq known \cup U
      /\ feed' = [feed EXCEPT ![f] =
             [phase |-> "harvest", left |-> U, start |-> start, number |-> number]]
  BY <1>0 DEF Feed, Absorb, OtherType, sequence, windows, following, server
<1>2. feed' \in [Feeds -> FeedType]
  BY <1>0, <1>1 DEF FeedType
<1>3. StreamType' /\ NothingSteppedOver' /\ Accounted \subseteq Accounted'
  BY <1>0, <1>1 DEF StreamType, NothingSteppedOver, Accounted
<1>4. WindowType'
  BY <1>0, <1>1, WindowsUnchanged DEF WindowType
<1>5. AskedIsAccounted'
  BY <1>0, <1>1, <1>3, AttemptsUnchanged
<1> QED
  BY <1>0, <1>1, <1>2, <1>3, <1>4, <1>5, TypePartsNext DEF IInv

LEMMA FeedStepKeeps ==
  ASSUME IInv, NEW f \in Feeds, FeedStep(f)
  PROVE  IInv'
<1>0. /\ StreamType /\ WindowType /\ OtherType /\ NothingSteppedOver /\ AskedIsAccounted
      /\ feed \in [Feeds -> FeedType] /\ att \in [Attempts -> AttemptType]
  BY TypeParts DEF IInv
<1>1. CASE FeedConsume(f)
  <2>1. PICK e \in feed[f].left :
            /\ Consume(e, known)
            /\ feed' = [feed EXCEPT ![f].left = @ \ {e}, ![f].phase = "consume"]
    BY <1>1 DEF FeedConsume
  <2>2. e \in Events
    BY <1>0, <2>1 DEF FeedType
  <2>3. feed' \in [Feeds -> FeedType]
    BY <1>0, <2>1 DEF FeedType
  <2>4. OtherType' /\ UNCHANGED att
    BY <1>0, <1>1 DEF FeedConsume, OtherType, following, server
  <2> QED
    BY <1>0, <2>1, <2>2, <2>3, <2>4, ConsumerStep DEF StreamType
<1>2. ASSUME UNCHANGED <<sequence, att>>, OtherType', WindowType',
             feed' = [feed EXCEPT ![f] = NoFeed]
      PROVE  IInv'
  <2>1. feed' \in [Feeds -> FeedType]
    BY <1>0, <1>2, NoFeedType
  <2>2. StreamType' /\ NothingSteppedOver' /\ Accounted' = Accounted
    BY <1>0, <1>2, SequenceUnchanged
  <2>3. AskedIsAccounted'
    BY <1>0, <1>2, <2>2, AttemptsUnchanged
  <2> QED
    BY <1>0, <1>2, <2>1, <2>2, <2>3, TypePartsNext DEF IInv
<1>3. CASE FeedFails(f) \/ FeedSeen(f)
  <2>1. OtherType'
    BY <1>0, <1>3 DEF FeedFails, FeedSeen, OtherType, following, server
  <2>2. WindowType'
    BY <1>0, <1>3, WindowsUnchanged DEF FeedFails, FeedSeen, WindowType
  <2> QED
    BY <1>2, <1>3, <2>1, <2>2 DEF FeedFails, FeedSeen
<1>4. CASE FeedGap(f)
  <2>1. OtherType'
    BY <1>0, <1>4 DEF FeedGap, OtherType, following, server
  <2>2. feed[f].left \in SUBSET Events /\ catching[Common] \in Attempts \cup {None}
        /\ Common \in Boxes /\ held \in [Attempts -> SUBSET Events]
    BY <1>0 DEF FeedType, OtherType, Boxes, WindowType
  <2>3. WindowType'
    BY <1>0, <1>4, <2>2, QueueCatchUpStep DEF FeedGap
  <2> QED
    BY <1>2, <1>4, <2>1, <2>3 DEF FeedGap
<1>5. CASE FeedDone(f)
  <2>1. feed[f].number \in Nat
    BY <1>0 DEF FeedType
  <2>2. seq' \in Nat
    BY <1>0, <1>5, <2>1 DEF FeedDone, OtherType, AdvanceContainer, Larger
  <2>3. OtherType'
    BY <1>0, <1>5, <2>2 DEF FeedDone, OtherType, following, server
  <2>4. WindowType'
    BY <1>0, <1>5, WindowsUnchanged DEF FeedDone, WindowType
  <2> QED
    BY <1>2, <1>5, <2>3, <2>4 DEF FeedDone
<1> QED
  BY <1>1, <1>3, <1>4, <1>5 DEF FeedStep

LEMMA StreamStep ==
  ASSUME IInv, Stream
  PROVE  IInv'
<1>1. Batches \subseteq SUBSET Events
  BY DEF Batches, Occurred
<1>2. CASE \E f \in Feeds, U \in Batches, span \in Containers :
             Feed(f, U, span[1], span[2]) \/ Absorb(f, U, span[1], span[2])
  <2>1. PICK f \in Feeds, U \in Batches, span \in Containers :
            Feed(f, U, span[1], span[2]) \/ Absorb(f, U, span[1], span[2])
    BY <1>2
  <2>2. span[1] \in Nat /\ span[2] \in Nat /\ U \in SUBSET Events
    BY <1>1, <2>1, BoundAssumption
  <2> QED
    BY <2>1, <2>2, ArrivalStep
<1>3. CASE \E e \in Occurred \cap Own : AbsorbPosition(e)
  <2>1. PICK e \in Occurred : AbsorbPosition(e)
    BY <1>3
  <2>2. e \in Events /\ known \cup {e} \in SUBSET Events
    BY <2>1 DEF Occurred, IInv, TypeOK
  <2>3. OtherType' /\ feed' \in [Feeds -> FeedType] /\ UNCHANGED att
    BY <2>1, TypeParts DEF IInv, AbsorbPosition, OtherType, following, server
  <2> QED
    BY <2>1, <2>2, <2>3, ConsumerStep DEF AbsorbPosition
<1>4. CASE \E f \in Feeds : FeedStep(f)
  BY <1>4, FeedStepKeeps
<1> QED
  BY <1>2, <1>3, <1>4 DEF Stream

-----------------------------------------------------------------------------
(* How a catch-up starts.                                                  *)

LEMMA BeginStep ==
  ASSUME IInv, StreamType', WindowType', OtherType', feed' \in [Feeds -> FeedType],
         NothingSteppedOver', Accounted \subseteq Accounted',
         NEW s \in Attempts, NEW b \in Boxes, NEW entry \in Attempts,
         NEW refresh \in BOOLEAN,
         att' = [att EXCEPT ![s] = Begun(b, entry, refresh, local'[b])]
  PROVE  IInv'
<1>1. local'[b] \in Positions
  BY DEF StreamType
<1>2. AskedIsAccounted' /\ att' \in [Attempts -> AttemptType]
  BY <1>1, BegunAttempt DEF IInv
<1> QED
  BY <1>2, TypePartsNext DEF IInv

\* A window of a box with no count that lets anything through starts it at the lowest.
LEMMA FreedFromNothing ==
  ASSUME NEW b \in Boxes, NEW H \in SUBSET Log[b], Run(b, NoPts, H) # {}
  PROVE  /\ Run(b, NoPts, H) \subseteq H
         /\ Reached(NoPts, Run(b, NoPts, H)) \in Nat
         /\ \A q \in Log[b] : q <= Reached(NoPts, Run(b, NoPts, H)) =>
               q \in Run(b, NoPts, H) \/ q < Lowest(Run(b, NoPts, H))
<1> DEFINE L == Lowest(H)
           R == Run(b, NoPts, H)
<1>1. H # {} /\ H \in SUBSET Nat
  BY LogType DEF Run
<1>2. L \in H /\ \A x \in H : L <= x
  BY <1>1, LowestIsLowest
<1>3. L \in Nat /\ L - 1 \in Nat /\ L - 1 # NoPts
  BY <1>2, LogType DEF Origin, NoPts
<1>4. R = Run(b, L - 1, H)
  BY <1>1, <1>3 DEF Run
<1>5. R \subseteq H /\ R # {}
  BY <1>4, <1>3, RunIsUnbroken
<1>6. Reached(NoPts, R) = Reached(L - 1, R)
  BY <1>5 DEF Reached
<1> HIDE DEF L
<1>7. /\ Reached(L - 1, R) \in Nat
      /\ \A q \in Log[b] : L - 1 < q /\ q <= Reached(L - 1, R) => q \in R
  BY <1>3, <1>4, RunIsUnbroken
<1>8. R \in SUBSET Nat /\ Lowest(R) \in R
  <2>1. R \in SUBSET Nat
    BY <1>1, <1>5
  <2> HIDE DEF R
  <2> QED
    BY <2>1, <1>5, LowestIsLowest
<1>9. L <= Lowest(R)
  BY <1>2, <1>5, <1>8
<1>10. ASSUME NEW q \in Log[b], q <= Reached(NoPts, R)
       PROVE  q \in R \/ q < Lowest(R)
  <2>1. q \in Nat /\ Lowest(R) \in Nat
    BY LogType, <1>8
  <2>2. CASE q < L
    BY <1>3, <1>9, <2>1, <2>2
  <2>3. CASE q >= L
    BY <1>3, <1>6, <1>7, <1>10, <2>1, <2>3
  <2> QED
    BY <1>3, <2>1, <2>2, <2>3
<1> QED
  BY <1>5, <1>6, <1>7, <1>10

\* What a window that runs out lets through leaves nothing behind that is not accounted for.
LEMMA FreedStep ==
  ASSUME StreamType, NothingSteppedOver, NEW b \in Boxes, NEW freed, NEW top,
         freed = Released(b, local[b]), top = Reached(local[b], freed),
         local' = [local EXCEPT ![b] = top],
         Dispatch({<<b, q>> : q \in freed}, known),
         skipped' = skipped \cup
            (IF freed = {} THEN {} ELSE StartedOver(b, local[b], Lowest(freed)))
  PROVE  StreamType' /\ NothingSteppedOver' /\ Accounted \subseteq Accounted'
<1> DEFINE S == {<<b, q>> : q \in freed}
<1>1. freed \in SUBSET Log[b] /\ top \in Positions
      /\ \A q \in Log[b] : q <= top =>
            q \in freed \/ q <= local[b] \/ (freed # {} /\ local[b] = NoPts /\ q < Lowest(freed))
  <2>1. CASE local[b] \in Nat
    BY <2>1, ReleasedIsUnbroken, LogType DEF Positions
  <2>2. CASE local[b] = NoPts /\ freed # {}
    <3>1. freed = Run(b, NoPts, At(b, waiting[b])) /\ At(b, waiting[b]) \in SUBSET Log[b]
      BY <2>2 DEF Released, At
    <3> QED
      BY <2>2, <3>1, FreedFromNothing DEF Positions
  <2>3. CASE local[b] = NoPts /\ freed = {}
    BY <2>3 DEF Reached, Positions
  <2> QED
    BY <2>1, <2>2, <2>3 DEF StreamType, Positions
<1>2. S \in SUBSET Events
  BY <1>1, EventOf
<1>3. /\ known' \subseteq Events /\ handed' \subseteq Events /\ twice' \subseteq Events
      /\ known \subseteq known' /\ S \subseteq known'
  <2> known \in SUBSET Events
    BY DEF StreamType
  <2> HIDE DEF S
  <2>1. Dispatch(S, known)
    BY DEF S
  <2> QED
    BY <1>2, <2>1, DispatchStep
<1>4. skipped \subseteq skipped' /\ skipped' \subseteq Events
  BY EventOf DEF StreamType, StartedOver, Before
<1>5. StreamType'
  BY <1>1, <1>3, <1>4 DEF StreamType
<1>6. Accounted \subseteq Accounted'
  BY <1>3, <1>4 DEF Accounted
<1>7. NothingSteppedOver'
  <2>1. SUFFICES ASSUME NEW c \in Boxes, NEW q \in Log[c], q <= local'[c]
                 PROVE  <<c, q>> \in Accounted'
    BY DEF NothingSteppedOver
  <2>2. CASE c # b
    <3>1. local'[c] = local[c]
      BY <2>2 DEF StreamType
    <3> QED
      BY <1>6, <2>1, <3>1 DEF NothingSteppedOver
  <2>3. CASE c = b /\ q \in freed
    BY <1>3, <2>3 DEF Accounted
  <2>4. CASE c = b /\ q <= local[b]
    BY <1>6, <2>4 DEF NothingSteppedOver
  <2>5. CASE c = b /\ freed # {} /\ local[b] = NoPts /\ q < Lowest(freed)
    BY <2>5 DEF StartedOver, Before, Accounted
  <2>6. c = b => q <= top
    BY <2>1 DEF StreamType
  <2> QED
    BY <1>1, <2>2, <2>3, <2>4, <2>5, <2>6
<1> QED
  BY <1>5, <1>6, <1>7

LEMMA WindowEndsStep ==
  ASSUME IInv, NEW b \in Boxes, NEW s \in Attempts, WindowEnds(b, s)
  PROVE  IInv'
<1> DEFINE freed == Released(b, local[b])
           top == Reached(local[b], freed)
           left == IF pending[b] = "ordered" THEN {e \in waiting[b] : e[2] > top}
                   ELSE waiting[b]
<1>0. /\ StreamType /\ WindowType /\ OtherType /\ NothingSteppedOver /\ AskedIsAccounted
      /\ feed \in [Feeds -> FeedType] /\ att \in [Attempts -> AttemptType]
  BY TypeParts DEF IInv
<1>1. /\ local' = [local EXCEPT ![b] = top]
      /\ Dispatch({<<b, q>> : q \in freed}, known)
      /\ skipped' = skipped \cup
            (IF freed = {} THEN {} ELSE StartedOver(b, local[b], Lowest(freed)))
      /\ waiting' = [waiting EXCEPT ![b] = {}]
      /\ pending' = [pending EXCEPT ![b] = "none"]
      /\ \/ UNCHANGED <<catching, held, att>>
         \/ /\ catching' = [catching EXCEPT ![b] = s]
            /\ held' = [held EXCEPT ![s] = left]
            /\ att' = [att EXCEPT ![s] = Begun(b, s, FALSE, top)]
      /\ UNCHANGED <<server, seq, feed, gone, following, closed>>
  BY DEF WindowEnds
<1>2. left \subseteq Events
  BY <1>0 DEF WindowType
<1> HIDE DEF left
<1>3. StreamType' /\ NothingSteppedOver' /\ Accounted \subseteq Accounted'
  BY <1>0, <1>1, FreedStep
<1>4. WindowType'
  BY <1>0, <1>1, <1>2 DEF WindowType
<1>5. OtherType'
  BY <1>0, <1>1 DEF OtherType, server, following
<1>6. feed' \in [Feeds -> FeedType] /\ local'[b] = top
  BY <1>0, <1>1 DEF StreamType
<1> HIDE DEF freed, top
<1>7. CASE UNCHANGED att
  <2>1. AskedIsAccounted'
    BY <1>0, <1>3, <1>7, AttemptsUnchanged
  <2> QED
    BY <1>0, <1>3, <1>4, <1>5, <1>6, <1>7, <2>1, TypePartsNext DEF IInv
<1>8. CASE att' = [att EXCEPT ![s] = Begun(b, s, FALSE, top)]
  BY <1>3, <1>4, <1>5, <1>6, <1>8, BeginStep
<1> QED
  BY <1>1, <1>7, <1>8

LEMMA RecoveringStep ==
  ASSUME IInv, StreamType', NothingSteppedOver', Accounted \subseteq Accounted',
         UNCHANGED <<windows, held>>, feed' \in [Feeds -> FeedType],
         catching' \in [Boxes -> Attempts \cup {None}] => OtherType',
         NEW s \in Attempts, NEW b \in Boxes, NEW refresh \in BOOLEAN,
         Recovering(s, b, refresh, local'[b])
  PROVE  IInv'
<1> DEFINE entry == IF catching[b] = None THEN s ELSE catching[b]
<1>1. entry \in Attempts /\ catching' \in [Boxes -> Attempts \cup {None}]
  BY DEF Recovering, IInv, TypeOK
<1>2. att' = [att EXCEPT ![s] = Begun(b, entry, refresh, local'[b])]
  BY DEF Recovering
<1>3. WindowType'
  BY WindowsUnchanged, TypeParts DEF IInv, WindowType
<1> HIDE DEF entry
<1> QED
  BY <1>1, <1>2, <1>3, BeginStep

\* A step that leaves every count alone, and lets s do something other than ask.
LEMMA QuietStep ==
  ASSUME IInv, UNCHANGED sequence, WindowType', OtherType', feed' \in [Feeds -> FeedType],
         \/ UNCHANGED att
         \/ \E s \in Attempts, new \in AttemptType :
               new.phase # "asking" /\ att' = [att EXCEPT ![s] = new]
  PROVE  IInv'
<1>1. StreamType' /\ NothingSteppedOver' /\ Accounted' = Accounted
  BY TypeParts, SequenceUnchanged DEF IInv
<1>2. CASE UNCHANGED att
  <2>1. AskedIsAccounted'
    BY <1>1, <1>2, AttemptsUnchanged DEF IInv
  <2> QED
    BY <1>1, <1>2, <2>1, TypeParts, TypePartsNext DEF IInv
<1>3. CASE \E s \in Attempts, new \in AttemptType :
               new.phase # "asking" /\ att' = [att EXCEPT ![s] = new]
  <2>1. PICK s \in Attempts, new \in AttemptType :
               new.phase # "asking" /\ att' = [att EXCEPT ![s] = new]
    BY <1>3
  <2>2. AskedIsAccounted' /\ att' \in [Attempts -> AttemptType]
    BY <1>1, <2>1, AttemptStops DEF IInv
  <2> QED
    BY <1>1, <2>2, TypePartsNext DEF IInv
<1> QED
  BY <1>2, <1>3

LEMMA StartStep ==
  ASSUME IInv, NEW s \in Attempts, Overflow(s) \/ Recover(s) \/ Name(s)
  PROVE  IInv'
<1>0. /\ StreamType /\ WindowType /\ OtherType /\ NothingSteppedOver /\ AskedIsAccounted
      /\ feed \in [Feeds -> FeedType] /\ att \in [Attempts -> AttemptType]
  BY TypeParts DEF IInv
<1>1. /\ UNCHANGED <<server, sequence, seq, feed, windows, held, gone, following, closed>>
      /\ feed' \in [Feeds -> FeedType]
  BY <1>0 DEF Overflow, Recover, Name
<1>2. StreamType' /\ NothingSteppedOver' /\ Accounted' = Accounted /\ local' = local
  BY <1>0, <1>1, SequenceUnchanged DEF sequence
<1>3. WindowType'
  BY <1>0, <1>1, WindowsUnchanged DEF WindowType
<1>4. catching' \in [Boxes -> Attempts \cup {None}] => OtherType'
  BY <1>0, <1>1 DEF OtherType, server, following
<1>5. Common \in Boxes
  BY DEF Boxes
<1>6. CASE Overflow(s)
  <2>1. catching' \in [Boxes -> Attempts \cup {None}]
    BY <1>0, <1>5, <1>6 DEF Overflow, OtherType
  <2>2. att' = [att EXCEPT ![s] = Begun(Common, s, FALSE, local'[Common])]
    BY <1>2, <1>6 DEF Overflow
  <2> QED
    BY <1>1, <1>2, <1>3, <1>4, <1>5, <2>1, <2>2, BeginStep
<1>7. CASE Recover(s)
  <2>1. Recovering(s, Common, FALSE, local'[Common])
    BY <1>2, <1>7 DEF Recover
  <2> QED
    BY <1>1, <1>2, <1>4, <1>5, <2>1, RecoveringStep
<1>8. CASE Name(s)
  <2> DEFINE b == att[s].box
             new == [att[s] EXCEPT !.phase = "asking", !.asked = AskFrom(local[b]),
                                   !.floor = srv[b]]
  <2>0. att[s] \in ActiveType
    BY <1>0, <1>8, ActiveAttempt DEF Name
  <2>1. b \in Boxes /\ AskFrom(local[b]) \in Positions /\ srv[b] \in Nat
    BY <1>0, <2>0 DEF ActiveType, AskFrom, StreamType, Positions, OtherType, Origin
  <2>2. att' = [att EXCEPT ![s] = new]
    BY <1>8 DEF Name
  <2>3. new \in AttemptType /\ new.box = b /\ new.asked = AskFrom(local[b])
    BY <2>0, <2>1 DEF AttemptType, ActiveType
  <2> HIDE DEF new
  <2>4. /\ att'[s].box = b /\ att'[s].asked = AskFrom(local[b])
        /\ \A t \in Attempts \ {s} : att'[t] = att[t]
        /\ att' \in [Attempts -> AttemptType]
    BY <1>0, <2>2, <2>3
  <2>5. ASSUME NEW p \in Log[b], p <= AskFrom(local[b])
        PROVE  <<b, p>> \in Accounted'
    <3>1. p \in Nat /\ p > Origin
      BY <2>1, LogType
    <3>2. local[b] # NoPts /\ p <= local[b]
      BY <2>5, <3>1 DEF AskFrom, Origin
    <3> QED
      BY <1>0, <1>2, <2>1, <3>2 DEF NothingSteppedOver
  <2>6. AskedIsAccounted'
    BY <1>0, <1>2, <2>4, <2>5, AttemptChanged
  <2>7. catching' \in [Boxes -> Attempts \cup {None}]
    BY <1>0, <1>8 DEF Name, OtherType
  <2> QED
    BY <1>1, <1>2, <1>3, <1>4, <2>4, <2>6, <2>7, TypePartsNext DEF IInv
<1> QED
  BY <1>6, <1>7, <1>8

-----------------------------------------------------------------------------
(* What an answer leaves behind it.                                        *)

\* A page of a difference, and the position it ends at, step over nothing.
LEMMA TakePageStep ==
  ASSUME IInv, NEW s \in Attempts, att[s].phase = "asking",
         NEW upto \in Stops(att[s].box), TakePage(s, upto)
  PROVE  /\ StreamType' /\ NothingSteppedOver' /\ Accounted \subseteq Accounted'
         /\ local'[att[s].box] = upto
         /\ \A p \in Log[att[s].box] : p <= upto => <<att[s].box, p>> \in Accounted'
<1> DEFINE b == att[s].box
           S == Between(b, att[s].asked, upto)
<1>0. StreamType /\ NothingSteppedOver /\ AskedIsAccounted /\ b \in Boxes
      /\ att[s].asked \in Positions
  BY TypeParts, ActiveAttempt DEF IInv, ActiveType
<1>1. upto \in Nat /\ upto \in Positions
  BY <1>0, LogType DEF Stops, Origin, Positions
<1>2. S \in SUBSET Events
  BY <1>0, EventOf DEF Between
<1>3. /\ local' = [local EXCEPT ![b] = upto] /\ UNCHANGED skipped
      /\ Dispatch(S, known)
  BY DEF TakePage
<1>4. /\ known' \subseteq Events /\ handed' \subseteq Events /\ twice' \subseteq Events
      /\ known \subseteq known' /\ S \subseteq known'
  <2> known \in SUBSET Events
    BY <1>0 DEF StreamType
  <2> HIDE DEF S
  <2> QED
    BY <1>0, <1>2, <1>3, DispatchStep
<1>5. StreamType'
  BY <1>0, <1>1, <1>3, <1>4 DEF StreamType
<1>6. Accounted \subseteq Accounted'
  BY <1>3, <1>4 DEF Accounted
<1>7. ASSUME NEW p \in Log[b], p <= upto
      PROVE  <<b, p>> \in Accounted'
  <2>1. CASE p <= att[s].asked
    BY <1>0, <1>6, <1>7, <2>1 DEF AskedIsAccounted
  <2>2. CASE att[s].asked < p
    BY <1>4, <1>7, <2>2 DEF Between, Accounted
  <2>3. p \in Nat
    BY <1>0, LogType
  <2> QED
    BY <1>0, <2>1, <2>2, <2>3 DEF Positions, NoPts
<1>8. local'[b] = upto
  BY <1>0, <1>3 DEF StreamType
<1>9. NothingSteppedOver'
  <2>1. SUFFICES ASSUME NEW c \in Boxes, NEW q \in Log[c], q <= local'[c]
                 PROVE  <<c, q>> \in Accounted'
    BY DEF NothingSteppedOver
  <2>2. CASE c # b
    <3>1. local'[c] = local[c]
      BY <1>0, <1>3, <2>2 DEF StreamType
    <3> QED
      BY <1>0, <1>6, <2>1, <3>1 DEF NothingSteppedOver
  <2>3. CASE c = b
    BY <1>7, <1>8, <2>1, <2>3
  <2> QED
    BY <2>2, <2>3
<1> QED
  BY <1>5, <1>6, <1>7, <1>8, <1>9

\* What is left once an attempt is over: the types, and nothing being asked by it.
LEMMA CompletedStep ==
  ASSUME IInv, NEW s \in Attempts, Completed(s), StreamType', NothingSteppedOver',
         Accounted \subseteq Accounted', UNCHANGED <<server, feed, windows, gone, closed>>,
         seq' \in Nat, att[s].phase # "idle"
  PROVE  IInv'
<1> DEFINE new == [att[s] EXCEPT !.phase = "draining", !.todo = held[att[s].entry]]
<1>0. /\ StreamType /\ WindowType /\ OtherType
      /\ feed \in [Feeds -> FeedType] /\ att \in [Attempts -> AttemptType]
  BY TypeParts DEF IInv
<1>1. att[s] \in ActiveType /\ held[att[s].entry] \in SUBSET Events
  BY <1>0, ActiveAttempt DEF WindowType, ActiveType
<1>2. new \in AttemptType /\ new.phase # "asking"
  BY <1>1 DEF AttemptType, ActiveType
<1>3. att' = [att EXCEPT ![s] = new]
  BY DEF Completed
<1> HIDE DEF new
<1>4. AskedIsAccounted' /\ att' \in [Attempts -> AttemptType]
  BY <1>2, <1>3, AttemptStops DEF IInv
<1>5. WindowType'
  BY <1>0 DEF WindowType, Completed, windows
<1>6. att[s].box \in Boxes
  BY <1>1 DEF ActiveType
<1>7. OtherType'
  BY <1>0, <1>6 DEF OtherType, Completed, FollowAgain, server
<1> QED
  BY <1>0, <1>4, <1>5, <1>7, TypePartsNext DEF IInv

LEMMA AnswerSliceStep ==
  ASSUME IInv, NEW s \in Attempts, NEW upto \in Stops(att[s].box), NEW number \in Nat,
         AnswerSlice(s, upto, number)
  PROVE  IInv'
<1> DEFINE b == att[s].box
           next == [att[s] EXCEPT !.asked = upto, !.floor = srv[b], !.page = @ + 1]
           last == [att[s] EXCEPT !.phase = "saving"]
<1>0. /\ StreamType /\ WindowType /\ OtherType /\ NothingSteppedOver /\ AskedIsAccounted
      /\ feed \in [Feeds -> FeedType] /\ att \in [Attempts -> AttemptType]
  BY TypeParts DEF IInv
<1>1. att[s].phase = "asking" /\ TakePage(s, upto) /\ TakeSeq(s, number)
      /\ UNCHANGED <<server, feed, windows, held, gone, following, closed>>
      /\ \/ att' = [att EXCEPT ![s] = next] /\ UNCHANGED catching
         \/ att' = [att EXCEPT ![s] = last] /\ catching' = [catching EXCEPT ![b] = None]
  BY DEF AnswerSlice, Answered
<1>2. att[s] \in ActiveType
  BY <1>0, <1>1, ActiveAttempt
<1>3. b \in Boxes /\ upto \in Positions /\ srv[b] \in Nat
  BY <1>0, <1>2, LogType DEF ActiveType, Stops, Positions, Origin, OtherType
<1>4. /\ StreamType' /\ NothingSteppedOver' /\ Accounted \subseteq Accounted'
      /\ \A p \in Log[b] : p <= upto => <<b, p>> \in Accounted'
  BY <1>1, TakePageStep
<1>5. /\ next \in AttemptType /\ next.box = b /\ next.asked = upto
      /\ last \in AttemptType /\ last.phase # "asking"
  <2>1. att[s].page + 1 \in Nat
    BY <1>2 DEF ActiveType
  <2>2. next \in ActiveType
    BY <1>2, <1>3, <2>1 DEF ActiveType
  <2>3. next.box = b /\ next.asked = upto
    BY <1>2 DEF ActiveType
  <2>4. last \in ActiveType /\ last.phase # "asking"
    BY <1>2 DEF ActiveType
  <2> QED
    BY <2>2, <2>3, <2>4 DEF AttemptType
<1>6. WindowType'
  BY <1>0, <1>1, WindowsUnchanged DEF WindowType
<1>7. seq' \in Nat
  BY <1>0, <1>1 DEF TakeSeq, AdvanceContainer, Larger, OtherType
<1>8. OtherType' /\ feed' \in [Feeds -> FeedType]
  BY <1>0, <1>1, <1>3, <1>7 DEF OtherType, server, following
<1> HIDE DEF next, last
<1>9. AskedIsAccounted' /\ att' \in [Attempts -> AttemptType]
  <2>1. CASE att' = [att EXCEPT ![s] = next]
    <3>1. /\ att'[s] = next /\ \A t \in Attempts \ {s} : att'[t] = att[t]
          /\ att' \in [Attempts -> AttemptType]
      BY <1>0, <1>5, <2>1
    <3> QED
      BY <1>0, <1>4, <1>5, <3>1, AttemptChanged
  <2>2. CASE att' = [att EXCEPT ![s] = last]
    BY <1>4, <1>5, <2>2, AttemptStops DEF IInv
  <2> QED
    BY <1>1, <2>1, <2>2
<1> QED
  BY <1>4, <1>6, <1>8, <1>9, TypePartsNext DEF IInv

LEMMA AnswerPositionStep ==
  ASSUME IInv, NEW s \in Attempts, NEW upto \in Stops(att[s].box), NEW number \in Nat,
         \/ AnswerEmpty(s, number)
         \/ AnswerFinal(s, upto, number)
         \/ AnswerTooLong(s, upto)
  PROVE  IInv'
<1> DEFINE b == att[s].box
<1>0. /\ StreamType /\ OtherType /\ NothingSteppedOver /\ AskedIsAccounted
      /\ feed \in [Feeds -> FeedType] /\ att \in [Attempts -> AttemptType]
  BY TypeParts DEF IInv
<1>1. /\ att[s].phase = "asking" /\ Completed(s)
      /\ UNCHANGED <<server, feed, windows, gone, closed>>
  BY DEF AnswerEmpty, AnswerFinal, AnswerTooLong, Answered
<1>2. att[s] \in ActiveType
  BY <1>0, <1>1, ActiveAttempt
<1>3. b \in Boxes /\ upto \in Nat /\ att[s].asked \in Positions
  BY <1>2, LogType DEF ActiveType, Stops, Origin
<1>4. seq' \in Nat
  BY <1>0 DEF AnswerEmpty, AnswerFinal, AnswerTooLong, TakeSeq, AdvanceContainer, Larger,
              OtherType
<1>5. StreamType' /\ NothingSteppedOver' /\ Accounted \subseteq Accounted'
  <2>1. CASE AnswerFinal(s, upto, number)
    BY <1>1, <2>1, TakePageStep DEF AnswerFinal
  <2>2. ASSUME NEW l \in Positions,
               \/ local' = local
               \/ local' = [local EXCEPT ![b] = l],
               UNCHANGED <<known, handed, twice>>,
               skipped \subseteq skipped', skipped' \subseteq Events,
               \A p \in Log[b] : p <= l => <<b, p>> \in Accounted'
        PROVE  StreamType' /\ NothingSteppedOver' /\ Accounted \subseteq Accounted'
    <3>1. StreamType' /\ Accounted \subseteq Accounted'
      BY <1>0, <2>2 DEF StreamType, Accounted
    <3>2. ASSUME NEW c \in Boxes, NEW q \in Log[c], q <= local'[c]
          PROVE  <<c, q>> \in Accounted'
      <4>1. CASE local'[c] = local[c]
        BY <1>0, <3>1, <3>2, <4>1 DEF NothingSteppedOver
      <4>2. local'[c] = local[c] \/ (c = b /\ local'[c] = l)
        BY <1>0, <1>3, <2>2 DEF StreamType
      <4> QED
        BY <2>2, <3>2, <4>1, <4>2
    <3> QED
      BY <3>1, <3>2 DEF NothingSteppedOver
  <2>3. CASE AnswerEmpty(s, number)
    <3>1. \A p \in Log[b] : p <= att[s].asked => <<b, p>> \in Accounted'
      BY <1>0, <1>1, <2>3 DEF AskedIsAccounted, AnswerEmpty, Accounted
    <3>2. /\ \/ local' = local
             \/ local' = [local EXCEPT ![b] = att[s].asked]
          /\ UNCHANGED <<known, handed, twice, skipped>>
      BY <2>3 DEF AnswerEmpty
    <3> QED
      BY <1>0, <1>3, <2>2, <3>1, <3>2 DEF StreamType
  <2>4. CASE AnswerTooLong(s, upto) /\ b = Common
    <3>1. /\ local' = [local EXCEPT ![b] = upto]
          /\ skipped' = skipped \cup Between(b, att[s].asked, upto)
          /\ UNCHANGED <<known, handed, twice>>
      BY <2>4 DEF AnswerTooLong
    <3>2. skipped \subseteq skipped' /\ skipped' \subseteq Events /\ upto \in Positions
      BY <1>0, <1>3, <3>1, EventOf DEF Between, StreamType, Positions
    <3>3. ASSUME NEW p \in Log[b], p <= upto
          PROVE  <<b, p>> \in Accounted'
      <4>1. CASE p <= att[s].asked
        BY <1>0, <1>1, <3>1, <3>3, <4>1 DEF AskedIsAccounted, Accounted
      <4>2. CASE att[s].asked < p
        BY <3>1, <3>3, <4>2 DEF Between, Accounted
      <4>3. p \in Nat
        BY <1>3, LogType
      <4> QED
        BY <1>3, <4>1, <4>2, <4>3 DEF Positions, NoPts
    <3> QED
      BY <2>2, <3>1, <3>2, <3>3
  <2>5. CASE AnswerTooLong(s, upto) /\ b # Common
    <3>1. /\ local' = [local EXCEPT ![b] = NoPts] /\ NoPts \in Positions
          /\ UNCHANGED <<known, handed, twice>> /\ skipped' = skipped
      BY <2>5 DEF AnswerTooLong, Positions
    <3>2. \A p \in Log[b] : ~(p <= NoPts)
      BY <1>3, LogType DEF NoPts
    <3> QED
      BY <1>0, <2>2, <3>1, <3>2 DEF StreamType
  <2> QED
    BY <2>1, <2>3, <2>4, <2>5
<1> QED
  BY <1>1, <1>4, <1>5, CompletedStep

LEMMA EndedStep ==
  ASSUME IInv, NEW s \in Attempts,
         AnswerPrivate(s) \/ CatchUpFails(s) \/ Saved(s) \/ Drained(s)
  PROVE  IInv'
<1>0. /\ StreamType /\ WindowType /\ OtherType
      /\ feed \in [Feeds -> FeedType] /\ att \in [Attempts -> AttemptType]
  BY TypeParts DEF IInv
<1>1. /\ att[s].phase # "idle" /\ att' = [att EXCEPT ![s] = NoAttempt]
      /\ UNCHANGED <<server, sequence, seq, feed, closed>>
  BY DEF AnswerPrivate, CatchUpFails, Saved, Drained, Chasing
<1>2. att[s].box \in Boxes /\ att[s].entry \in Attempts
  BY <1>0, <1>1, ActiveAttempt DEF ActiveType
<1>3. /\ catching' \in [Boxes -> Attempts \cup {None}]
      /\ gone' \subseteq Channels
  BY <1>0, <1>2 DEF AnswerPrivate, CatchUpFails, Saved, Drained, OtherType
<1>4. watching' \in [Channels -> Nat] /\ follow' \in [Channels -> BOOLEAN]
  <2>1. ASSUME NEW b \in Boxes, FollowAgain(b)
        PROVE  follow' \in [Channels -> BOOLEAN]
    BY <1>0, <2>1 DEF FollowAgain, OtherType
  <2>2. CASE RefreshThrew(s)
    BY <1>0, <1>2, <2>1, <2>2 DEF RefreshThrew, OtherType
  <2>3. CASE RefreshReturned(s, gone')
    <3>1. \/ UNCHANGED <<watching, follow>>
          \/ /\ watching' = [watching EXCEPT ![att[s].box] = 0]
             /\ follow' = [follow EXCEPT ![att[s].box] = FALSE]
      BY <2>3 DEF RefreshReturned, following
    <3>2. watching \in [Channels -> Nat] /\ follow \in [Channels -> BOOLEAN]
      BY <1>0 DEF OtherType
    <3>3. watching' \in [Channels -> Nat]
      BY <3>1, <3>2
    <3>4. follow' \in [Channels -> BOOLEAN]
      BY <3>1, <3>2
    <3> QED
      BY <3>3, <3>4
  <2>4. RefreshThrew(s) \/ RefreshReturned(s, gone')
    BY DEF AnswerPrivate, CatchUpFails, Saved, Drained
  <2> QED
    BY <2>2, <2>3, <2>4
<1>5. OtherType' /\ feed' \in [Feeds -> FeedType]
  BY <1>0, <1>1, <1>3, <1>4 DEF OtherType, server
<1>6. WindowType'
  <2> DEFINE lists == [held EXCEPT ![att[s].entry] = {}]
             U == held[att[s].entry]
  <2>1. lists \in [Attempts -> SUBSET Events] /\ U \in SUBSET Events
        /\ catching[att[s].box] \in Attempts \cup {None}
    BY <1>0, <1>2 DEF WindowType, OtherType
  <2>2. CASE UNCHANGED windows /\ (held' = held \/ held' = lists)
    BY <1>0, <2>1, <2>2, WindowsUnchanged DEF WindowType
  <2>3. CASE QueueCatchUp(att[s].box, U, FALSE, None, lists)
    <3> HIDE DEF lists, U
    <3> QED
      BY <1>0, <1>2, <2>1, <2>3, QueueCatchUpStep
  <2>4. CASE QueueCatchUp(att[s].box, U, FALSE, catching[att[s].box], lists)
    <3> HIDE DEF lists, U
    <3> QED
      BY <1>0, <1>2, <2>1, <2>4, QueueCatchUpStep
  <2>5. \/ UNCHANGED windows /\ (held' = held \/ held' = lists)
        \/ QueueCatchUp(att[s].box, U, FALSE, None, lists)
        \/ QueueCatchUp(att[s].box, U, FALSE, catching[att[s].box], lists)
    <3> USE DEF windows
    <3>1. CASE AnswerPrivate(s)
      BY <3>1 DEF AnswerPrivate
    <3>2. CASE CatchUpFails(s)
      BY <3>2 DEF CatchUpFails
    <3>3. CASE Saved(s)
      BY <3>3 DEF Saved
    <3>4. CASE Drained(s)
      BY <3>4 DEF Drained
    <3> QED
      BY <3>1, <3>2, <3>3, <3>4
  <2> QED
    BY <2>2, <2>3, <2>4, <2>5
<1> QED
  BY <1>1, <1>5, <1>6, NoAttemptType, QuietStep

LEMMA DrainStep ==
  ASSUME IInv, NEW s \in Attempts, Drain(s)
  PROVE  IInv'
<1>0. OtherType /\ feed \in [Feeds -> FeedType] /\ att \in [Attempts -> AttemptType]
      /\ known \in SUBSET Events
  BY TypeParts DEF IInv, StreamType
<1>1. PICK e \in att[s].todo :
         /\ Consume(e, known)
         /\ att' = [att EXCEPT ![s].todo = @ \ {e}]
  BY DEF Drain
<1>2. att[s] \in ActiveType
  BY <1>0, ActiveAttempt DEF Drain
<1> DEFINE new == [att[s] EXCEPT !.todo = @ \ {e}]
<1>3. new \in AttemptType /\ new.phase # "asking" /\ e \in Events
  BY <1>1, <1>2 DEF ActiveType, AttemptType, Drain
<1>4. att' = [att EXCEPT ![s] = new]
  BY <1>1
<1>5. OtherType' /\ feed' \in [Feeds -> FeedType]
  BY <1>0 DEF Drain, OtherType, server, following
<1> HIDE DEF new
<1> QED
  BY <1>0, <1>1, <1>3, <1>4, <1>5, ConsumerStep

-----------------------------------------------------------------------------
(* What a caller does.                                                     *)

LEMMA WatchStep ==
  ASSUME IInv, NEW c \in Channels, NEW s \in Attempts, NEW pts \in Stops(c) \cup {NoPts},
         WatchChannel(c, pts, s)
  PROVE  IInv'
<1> DEFINE told == pts # NoPts /\ local[c] = NoPts
           l == IF told THEN pts ELSE local[c]
<1>0. /\ StreamType /\ WindowType /\ OtherType /\ NothingSteppedOver /\ AskedIsAccounted
      /\ feed \in [Feeds -> FeedType] /\ att \in [Attempts -> AttemptType] /\ c \in Boxes
  BY TypeParts DEF IInv, Boxes
<1>1. /\ watching' = [watching EXCEPT ![c] = @ + 1]
      /\ UNCHANGED <<server, known, handed, twice, seq, feed, windows, held, gone,
                     follow, closed>>
  BY DEF WatchChannel
<1>2. watching' \in [Channels -> Nat]
  BY <1>0, <1>1 DEF OtherType
<1>3. catching' \in [Boxes -> Attempts \cup {None}] => OtherType'
  BY <1>0, <1>1, <1>2 DEF OtherType, server
<1>4. feed' \in [Feeds -> FeedType]
  BY <1>0, <1>1
<1>5. WindowType'
  BY <1>0, <1>1, WindowsUnchanged DEF WindowType
<1>6. CASE watching[c] > 0
  <2>1. UNCHANGED <<local, skipped, catching, att>>
    BY <1>6 DEF WatchChannel
  <2>2. UNCHANGED sequence /\ OtherType'
    BY <1>0, <1>1, <1>3, <2>1 DEF sequence, OtherType
  <2> QED
    BY <1>4, <1>5, <2>1, <2>2, QuietStep
<1>7. CASE ~(watching[c] > 0)
  <2>1. /\ local' = [local EXCEPT ![c] = l]
        /\ skipped' = skipped \cup (IF told THEN Before(c, pts + 1) ELSE {})
        /\ Recovering(s, c, TRUE, l)
    BY <1>7 DEF WatchChannel
  <2>2. l \in Positions /\ pts \in Positions
    BY <1>0, LogType DEF StreamType, Stops, Positions, Origin
  <2>3. local'[c] = l
    BY <1>0, <2>1 DEF StreamType
  <2>4. StreamType' /\ Accounted \subseteq Accounted'
    BY <1>0, <1>1, <2>1, <2>2, EventOf DEF StreamType, Before, Accounted
  <2>5. ASSUME NEW b \in Boxes, NEW q \in Log[b], q <= local'[b]
        PROVE  <<b, q>> \in Accounted'
    <3>1. CASE local'[b] = local[b]
      BY <1>0, <2>4, <2>5, <3>1 DEF NothingSteppedOver
    <3>2. CASE b = c /\ told
      <4>1. q <= pts /\ q \in Nat /\ pts \in Nat
        BY <2>2, <2>3, <2>5, <3>2, LogType DEF Positions
      <4>2. q < pts + 1
        BY <4>1
      <4> QED
        BY <2>1, <3>2, <4>2 DEF Before, Accounted
    <3>3. local'[b] = local[b] \/ (b = c /\ told)
      BY <1>0, <2>1 DEF StreamType
    <3> QED
      BY <3>1, <3>2, <3>3
  <2>6. NothingSteppedOver'
    BY <2>5 DEF NothingSteppedOver
  <2> HIDE DEF l
  <2> QED
    BY <1>0, <1>1, <1>3, <1>4, <2>1, <2>3, <2>4, <2>6, RecoveringStep
<1> QED
  BY <1>6, <1>7

LEMMA FollowStep ==
  ASSUME IInv, Follow
  PROVE  IInv'
<1>0. /\ StreamType /\ WindowType /\ OtherType /\ NothingSteppedOver
      /\ feed \in [Feeds -> FeedType] /\ Watchable \subseteq Channels
  BY TypeParts, BoundAssumption DEF IInv
<1>1. CASE \E c \in Watchable, s \in Attempts : Refresh(c, s)
  <2>1. PICK c \in Watchable, s \in Attempts : Refresh(c, s)
    BY <1>1
  <2>2. c \in Boxes
    BY <1>0 DEF Boxes
  <2>3. StreamType' /\ NothingSteppedOver' /\ Accounted' = Accounted /\ local' = local
    BY <1>0, <2>1, SequenceUnchanged DEF Refresh, sequence
  <2>4. catching' \in [Boxes -> Attempts \cup {None}] => OtherType'
    BY <1>0, <2>1 DEF Refresh, OtherType, server
  <2>5. Recovering(s, c, TRUE, local'[c]) /\ UNCHANGED <<windows, held, feed>>
    BY <2>1, <2>3 DEF Refresh
  <2> QED
    BY <1>0, <2>2, <2>3, <2>4, <2>5, RecoveringStep
<1>2. CASE \E c \in Watchable, s \in Attempts :
              \E pts \in Stops(c) \cup {NoPts} : WatchChannel(c, pts, s)
  BY <1>0, <1>2, WatchStep
<1>3. CASE \E c \in Watchable : UnwatchChannel(c)
  <2>1. PICK c \in Watchable : UnwatchChannel(c)
    BY <1>3
  <2>2. watching[c] - 1 \in Nat
    BY <1>0, <2>1 DEF UnwatchChannel, OtherType
  <2>3. OtherType' /\ UNCHANGED <<sequence, windows, held, feed, att>>
    BY <1>0, <2>1, <2>2 DEF UnwatchChannel, OtherType, server
  <2>4. WindowType'
    BY <1>0, <2>3, WindowsUnchanged DEF WindowType
  <2> QED
    BY <1>0, <2>3, <2>4, QuietStep
<1> QED
  BY <1>1, <1>2, <1>3 DEF Follow

LEMMA CloseStep ==
  ASSUME IInv, Close
  PROVE  IInv'
<1>0. WindowType /\ OtherType /\ feed \in [Feeds -> FeedType]
  BY TypeParts DEF IInv
<1>1. OtherType'
  BY <1>0 DEF Close, OtherType, server
<1>2. WindowType'
  BY <1>0 DEF Close, WindowType
<1>3. UNCHANGED <<sequence, feed, att>>
  BY DEF Close
<1> QED
  BY <1>0, <1>1, <1>2, <1>3, QuietStep

LEMMA ChaseStep ==
  ASSUME IInv, NEW s \in Attempts, Chase(s)
  PROVE  IInv'
<1>1. CASE Overflow(s) \/ Recover(s) \/ Name(s)
  BY <1>1, StartStep
<1>2. CASE \E b \in Boxes : WindowEnds(b, s)
  BY <1>2, WindowEndsStep
<1>3. CASE Answer(s)
  <2>1. Numbers \subseteq Nat /\ Origin \in Stops(att[s].box)
    BY BoundAssumption DEF Stops, Numbers
  <2>2. CASE \E number \in Numbers : AnswerEmpty(s, number)
    BY <2>1, <2>2, AnswerPositionStep
  <2>3. CASE \E number \in Numbers : \E upto \in Stops(att[s].box) :
               AnswerFinal(s, upto, number) \/ AnswerSlice(s, upto, number)
    BY <2>1, <2>3, AnswerPositionStep, AnswerSliceStep
  <2>4. CASE \E upto \in Stops(att[s].box) : AnswerTooLong(s, upto)
    <3>1. 0 \in Nat
      OBVIOUS
    <3> QED
      BY <2>4, <3>1, AnswerPositionStep
  <2>5. CASE AnswerPrivate(s)
    BY <2>5, EndedStep
  <2> QED
    BY <1>3, <2>2, <2>3, <2>4, <2>5 DEF Answer
<1>4. CASE CatchUpFails(s) \/ Saved(s) \/ Drained(s)
  BY <1>4, EndedStep
<1>5. CASE Drain(s)
  BY <1>5, DrainStep
<1> QED
  BY <1>1, <1>2, <1>3, <1>4, <1>5 DEF Chase

-----------------------------------------------------------------------------
(* The invariant, and what it is for.                                      *)

LEMMA StutterStep ==
  ASSUME IInv, UNCHANGED vars
  PROVE  IInv'
<1>1. UNCHANGED <<sequence, windows, held, att, feed, server, seq, catching, gone,
                  following, closed>>
  BY DEF vars, sequence, windows, server, following
<1>2. WindowType' /\ OtherType' /\ feed' \in [Feeds -> FeedType]
  BY <1>1, TypeParts DEF IInv, WindowType, OtherType, windows, server, following
<1> QED
  BY <1>1, <1>2, QuietStep

LEMMA InitKeeps == Init => IInv
<1> SUFFICES ASSUME Init PROVE IInv
  OBVIOUS
<1>1. Start \in [Boxes -> Positions] /\ \A b \in Boxes : Larger(Start[b], Origin) \in Nat
  BY StartAssumption DEF Larger, Positions, NoPts, Origin
<1>2. skipped \subseteq Events
  BY EventOf DEF Init, Before
<1>3. NoFeed \in FeedType /\ NoAttempt \in AttemptType
  BY NoFeedType, NoAttemptType
<1>4. StreamType
  BY <1>1, <1>2 DEF Init, StreamType
<1>5. WindowType
  BY DEF Init, WindowType
<1>6. OtherType
  BY <1>1 DEF Init, OtherType
<1>7. TypeOK
  BY <1>3, <1>4, <1>5, <1>6, TypeParts DEF Init
<1>8. NothingSteppedOver
  <2>1. SUFFICES ASSUME NEW b \in Boxes, NEW p \in Log[b], p <= Start[b]
                 PROVE  <<b, p>> \in skipped
    BY DEF NothingSteppedOver, Accounted, Init
  <2>2. p \in Nat /\ Start[b] \in Int
    BY <1>1, LogType DEF Positions, NoPts
  <2>3. p < Start[b] + 1
    BY <2>1, <2>2
  <2> QED
    BY <2>3 DEF Init, Before
<1>9. AskedIsAccounted
  BY DEF Init, AskedIsAccounted, NoAttempt
<1> QED
  BY <1>7, <1>8, <1>9 DEF IInv

LEMMA NextKeeps == IInv /\ [Next]_vars => IInv'
<1> SUFFICES ASSUME IInv, [Next]_vars PROVE IInv'
  OBVIOUS
<1>1. CASE Environment
  BY <1>1, EnvironmentStep
<1>2. CASE Stream
  BY <1>2, StreamStep
<1>3. CASE \E s \in Attempts : Chase(s)
  BY <1>3, ChaseStep
<1>4. CASE Follow
  BY <1>4, FollowStep
<1>5. CASE Close
  BY <1>5, CloseStep
<1>6. CASE UNCHANGED vars
  BY <1>6, StutterStep
<1> QED
  BY <1>1, <1>2, <1>3, <1>4, <1>5, <1>6 DEF Next

(***************************************************************************)
(* In every behaviour of the manager the inductive invariant holds: the    *)
(* types, that no position is past an event not accounted for, and that no *)
(* difference is asked from a position past one.                           *)
(***************************************************************************)
THEOREM Invariance == Spec => []IInv
<1>1. Init => IInv
  BY InitKeeps
<1>2. IInv /\ [Next]_vars => IInv'
  BY NextKeeps
<1> QED
  BY <1>1, <1>2, PTL DEF Spec

(***************************************************************************)
(* Every variable of the manager keeps to its type, whatever boxes, calls  *)
(* and catch-ups there are.                                                *)
(***************************************************************************)
THEOREM TypeCorrect == Spec => []TypeOK
<1>1. IInv => TypeOK
  BY DEF IInv
<1> QED
  BY <1>1, Invariance, PTL

(***************************************************************************)
(* No box's position ever steps over an event that is not accounted for,   *)
(* for any logs, any number of channels, of containers taken in at once    *)
(* and of catch-ups running at once, including two of one box.             *)
(***************************************************************************)
THEOREM NeverSteppedOver == Spec => []NothingSteppedOver
<1>1. IInv => NothingSteppedOver
  BY DEF IInv
<1> QED
  BY <1>1, Invariance, PTL

-----------------------------------------------------------------------------
(***************************************************************************)
(* What is handed out.  Every step either hands out nothing, or hands out, *)
(* through Dispatch, events its box has reached by the end of the step.    *)
(* What is behind them is then accounted for because no box steps over     *)
(* anything.                                                               *)
(***************************************************************************)

HandsNothing == known \subseteq known' /\ UNCHANGED <<handed, twice>>

HandsReached ==
    \E S \in SUBSET Events, R \in SUBSET Events :
        /\ known \subseteq R
        /\ Dispatch(S, R)
        /\ \A e \in S : e[2] <= local'[e[1]]

Hands == HandsNothing \/ HandsReached

LEMMA ReachesAll ==
  ASSUME NEW b \in Boxes, NEW l, NEW S \in SUBSET Log[b]
  PROVE  \A q \in S : q <= Reached(l, S)
<1>1. SUFFICES ASSUME NEW q \in S
               PROVE  q <= Reached(l, S)
  OBVIOUS
<1>2. S \in SUBSET Nat /\ S # {} /\ \A x \in S : x <= MaxPts
  BY <1>1, LogType
<1>3. Highest(S) \in S /\ \A x \in S : Highest(S) >= x
  BY <1>2, HighestIsHighest, LogAssumption
<1>4. Reached(l, S) = Highest(S)
  BY <1>2 DEF Reached
<1> QED
  BY <1>1, <1>2, <1>3, <1>4

\* What is let through of a box has been reached by it.
LEMMA FreedIsReached ==
  ASSUME StreamType, NEW b \in Boxes, NEW S \in SUBSET Log[b], NEW R \in SUBSET Events,
         known \subseteq R, NEW top, local' = [local EXCEPT ![b] = top],
         \A q \in S : q <= top,
         Dispatch({<<b, q>> : q \in S}, R)
  PROVE  HandsReached
<1> DEFINE U == {<<b, q>> : q \in S}
<1>1. U \in SUBSET Events
  BY EventOf
<1>2. local'[b] = top
  BY DEF StreamType
<1>3. \A e \in U : e[2] <= local'[e[1]]
  BY <1>2
<1>4. Dispatch(U, R)
  OBVIOUS
<1> HIDE DEF U
<1> QED
  BY <1>1, <1>3, <1>4 DEF HandsReached

LEMMA ConsumeHands ==
  ASSUME StreamType, NEW e \in Events, NEW R \in SUBSET Events, known \subseteq R,
         Consume(e, R)
  PROVE  Hands
<1> DEFINE b == e[1]
           p == e[2]
           l == Advance(local[b], p)
           freed == Released(b, l)
           top == Reached(l, freed)
<1>0. b \in Boxes /\ p \in Log[b] /\ e = <<b, p>>
  BY EventParts
<1>1. CASE known' = R /\ UNCHANGED <<handed, twice>>
  BY <1>1 DEF Hands, HandsNothing
<1>2. CASE /\ local' = [local EXCEPT ![b] = top]
           /\ Dispatch({e} \cup {<<b, q>> : q \in freed}, R)
  <2>1. p \in Nat /\ local[b] \in Positions
    BY <1>0, LogType DEF StreamType
  <2>2. l \in Nat /\ p <= l
    BY <2>1 DEF Advance, Larger, Positions, NoPts
  <2> HIDE DEF l
  <2>3. freed \subseteq Log[b] /\ top \in Nat /\ l <= top
    BY <1>0, <2>2, ReleasedIsUnbroken
  <2> HIDE DEF freed
  <2>4. \A q \in freed : q <= top
    BY <1>0, <2>3, ReachesAll
  <2> HIDE DEF top
  <2> DEFINE S == {p} \cup freed
  <2>5. S \in SUBSET Log[b] /\ \A q \in S : q <= top
    BY <1>0, <2>1, <2>2, <2>3, <2>4
  <2>6. {<<b, q>> : q \in S} = {e} \cup {<<b, q>> : q \in freed}
    BY <1>0
  <2>7. Dispatch({<<b, q>> : q \in S}, R)
    BY <1>2, <2>6
  <2> HIDE DEF S
  <2> QED
    BY <1>0, <1>2, <2>5, <2>7, FreedIsReached DEF Hands
<1> QED
  BY <1>1, <1>2 DEF Consume

LEMMA StreamHands ==
  ASSUME IInv, Stream
  PROVE  Hands
<1>0. StreamType /\ feed \in [Feeds -> FeedType] /\ known \in SUBSET Events
  BY TypeParts DEF IInv, StreamType
<1>1. ASSUME NEW e \in Occurred \cap Own, AbsorbPosition(e)
      PROVE  Hands
  <2>1. e \in Events /\ known \cup {e} \in SUBSET Events
    BY <1>0, <1>1 DEF Occurred
  <2>2. Consume(e, known \cup {e})
    BY <1>1 DEF AbsorbPosition
  <2> QED
    BY <1>0, <2>1, <2>2, ConsumeHands
<1>2. ASSUME NEW f \in Feeds, FeedConsume(f)
      PROVE  Hands
  <2>1. PICK e \in feed[f].left : Consume(e, known)
    BY <1>2 DEF FeedConsume
  <2>2. e \in Events
    BY <1>0, <2>1 DEF FeedType
  <2> QED
    BY <1>0, <2>1, <2>2, ConsumeHands
<1>3. ASSUME NEW f \in Feeds, FeedFails(f) \/ FeedSeen(f) \/ FeedGap(f) \/ FeedDone(f)
      PROVE  Hands
  BY <1>3 DEF FeedFails, FeedSeen, FeedGap, FeedDone, sequence, Hands, HandsNothing
<1>4. ASSUME NEW f \in Feeds, NEW U, NEW number, NEW start,
             Feed(f, U, start, number) \/ Absorb(f, U, start, number)
      PROVE  Hands
  BY <1>4 DEF Feed, Absorb, sequence, Hands, HandsNothing
<1> QED
  BY <1>1, <1>2, <1>3, <1>4 DEF Stream, FeedStep

LEMMA WindowEndsHands ==
  ASSUME IInv, NEW b \in Boxes, NEW s \in Attempts, WindowEnds(b, s)
  PROVE  Hands
<1> DEFINE freed == Released(b, local[b])
           top == Reached(local[b], freed)
<1>0. StreamType /\ local[b] \in Positions /\ known \in SUBSET Events
  BY TypeParts DEF IInv, StreamType
<1>1. /\ local' = [local EXCEPT ![b] = top]
      /\ Dispatch({<<b, q>> : q \in freed}, known)
  BY DEF WindowEnds
<1>2. freed \subseteq Log[b]
  BY DEF Released, Run, At
<1> HIDE DEF freed
<1>3. \A q \in freed : q <= top
  BY <1>2, ReachesAll
<1> HIDE DEF top
<1> QED
  BY <1>0, <1>1, <1>2, <1>3, FreedIsReached DEF Hands

LEMMA PageHands ==
  ASSUME IInv, NEW s \in Attempts, att[s].phase = "asking",
         NEW upto \in Stops(att[s].box), TakePage(s, upto)
  PROVE  Hands
<1> DEFINE b == att[s].box
           S == {x \in Log[b] : att[s].asked < x /\ x <= upto}
<1>0. StreamType /\ b \in Boxes /\ known \in SUBSET Events
  BY TypeParts, ActiveAttempt DEF IInv, ActiveType, StreamType
<1>1. local' = [local EXCEPT ![b] = upto] /\ Dispatch({<<b, q>> : q \in S}, known)
  BY DEF TakePage, Between
<1>2. S \in SUBSET Log[b] /\ \A q \in S : q <= upto
  OBVIOUS
<1> HIDE DEF S
<1> QED
  BY <1>0, <1>1, <1>2, FreedIsReached DEF Hands

LEMMA ChaseHands ==
  ASSUME IInv, NEW s \in Attempts, Chase(s)
  PROVE  Hands
<1>0. StreamType /\ att \in [Attempts -> AttemptType] /\ known \in SUBSET Events
  BY TypeParts DEF IInv, StreamType
<1>1. CASE \E b \in Boxes : WindowEnds(b, s)
  BY <1>1, WindowEndsHands
<1>2. CASE \E upto \in Stops(att[s].box), number \in Numbers :
              AnswerFinal(s, upto, number) \/ AnswerSlice(s, upto, number)
  <2>1. PICK upto \in Stops(att[s].box) : TakePage(s, upto) /\ att[s].phase = "asking"
    BY <1>2 DEF AnswerFinal, AnswerSlice, Answered
  <2> QED
    BY <2>1, PageHands
<1>3. CASE Drain(s)
  <2>1. PICK e \in att[s].todo : Consume(e, known)
    BY <1>3 DEF Drain
  <2>2. e \in Events
    BY <1>0, <1>3, <2>1, ActiveAttempt DEF Drain, ActiveType
  <2> QED
    BY <1>0, <2>1, <2>2, ConsumeHands
<1>4. CASE UNCHANGED <<known, handed, twice>>
  BY <1>4 DEF Hands, HandsNothing
<1>5. Overflow(s) \/ Recover(s) \/ Name(s) \/ CatchUpFails(s) \/ Saved(s) \/ Drained(s)
        \/ AnswerPrivate(s) => UNCHANGED <<known, handed, twice>>
  BY DEF Overflow, Recover, Name, CatchUpFails, Saved, Drained, AnswerPrivate, sequence
<1>6. ASSUME NEW number, NEW upto, AnswerEmpty(s, number) \/ AnswerTooLong(s, upto)
      PROVE  UNCHANGED <<known, handed, twice>>
  BY <1>6 DEF AnswerEmpty, AnswerTooLong
<1> QED
  BY <1>1, <1>2, <1>3, <1>4, <1>5, <1>6 DEF Chase, Answer

LEMMA FollowHands ==
  ASSUME Follow
  PROVE  Hands
<1>1. ASSUME NEW c, NEW s, NEW pts,
             Refresh(c, s) \/ WatchChannel(c, pts, s) \/ UnwatchChannel(c)
      PROVE  Hands
  BY <1>1 DEF Refresh, WatchChannel, UnwatchChannel, sequence, Hands, HandsNothing
<1> QED
  BY <1>1 DEF Follow

\* Whatever the manager does, it hands out only what its boxes have reached.
LEMMA NextHands ==
  ASSUME IInv, [Next]_vars
  PROVE  Hands
<1>1. CASE Environment \/ Close \/ UNCHANGED vars
  BY <1>1 DEF Environment, Happen, LeaveOrJoin, Close, vars, sequence, Hands, HandsNothing
<1>2. CASE Stream
  BY <1>2, StreamHands
<1>3. CASE \E s \in Attempts : Chase(s)
  BY <1>3, ChaseHands
<1>4. CASE Follow
  BY <1>4, FollowHands
<1> QED
  BY <1>1, <1>2, <1>3, <1>4 DEF Next

-----------------------------------------------------------------------------
(* What has been handed out is remembered, which is what withholds it when *)
(* it comes again.                                                         *)
HandedIsKnown == handed \subseteq known

\* Nothing has been handed out twice, by the stream, a window or a difference.
HandedOnce == twice = {}

(***************************************************************************)
(* Whatever is handed out has nothing unaccounted for before it in its     *)
(* box, whether it came from the stream, from a window or from a page.     *)
(***************************************************************************)
THEOREM NeverPastAHole == Spec => NoHoleBehind
<1>1. ASSUME IInv, [Next]_vars
      PROVE  \A e \in handed' \ handed : Before(e[1], e[2]) \subseteq known' \cup skipped'
  <2>1. SUFFICES ASSUME NEW e \in handed' \ handed, NEW q \in Log[e[1]], q < e[2]
                 PROVE  <<e[1], q>> \in Accounted'
    BY DEF Before, Accounted
  <2>2. e \in Events /\ e[2] <= local'[e[1]]
    <3>1. HandsReached
      BY <1>1, <2>1, NextHands DEF Hands, HandsNothing
    <3> QED
      BY <2>1, <3>1 DEF HandsReached, Dispatch
  <2>3. StreamType' /\ NothingSteppedOver'
    BY <1>1, NextKeeps, TypePartsNext DEF IInv
  <2>4. e[1] \in Boxes /\ e[2] \in Nat /\ q \in Nat
    BY <2>1, <2>2, EventParts, LogType
  <2>5. local'[e[1]] \in Positions
    BY <2>3, <2>4 DEF StreamType
  <2>6. q <= local'[e[1]]
    BY <2>1, <2>2, <2>4, <2>5 DEF Positions, NoPts
  <2> QED
    BY <2>1, <2>3, <2>4, <2>6 DEF NothingSteppedOver
<1> QED
  BY <1>1, Invariance, PTL DEF Spec, NoHoleBehind

-----------------------------------------------------------------------------
(* The promise made to a listener.                                         *)

LEMMA SettledGrows == IInv /\ [Next]_vars => Accounted \subseteq Accounted'
<1> SUFFICES ASSUME IInv, [Next]_vars PROVE Accounted \subseteq Accounted'
  OBVIOUS
<1>1. known \subseteq known'
  BY NextHands DEF Hands, HandsNothing, HandsReached, Dispatch
<1>2. skipped \subseteq skipped'
  <2>1. CASE Environment \/ Close \/ UNCHANGED vars
    BY <2>1 DEF Environment, Happen, LeaveOrJoin, Close, vars, sequence
  <2>2. CASE Stream
    <3>1. ASSUME NEW e, NEW R, Consume(e, R) PROVE skipped \subseteq skipped'
      BY <3>1 DEF Consume, sequence
    <3>2. \/ \E e, R : Consume(e, R)
          \/ skipped \subseteq skipped'
      BY <2>2 DEF Stream, Feed, FeedStep, FeedFails, FeedSeen, FeedGap, FeedConsume, FeedDone,
                  Absorb, AbsorbPosition, sequence
    <3> QED
      BY <3>1, <3>2
  <2>3. ASSUME NEW s \in Attempts, Chase(s) PROVE skipped \subseteq skipped'
    BY <2>3 DEF Chase, Overflow, WindowEnds, Recover, Name, Answer, AnswerEmpty, AnswerFinal,
                AnswerSlice, AnswerTooLong, AnswerPrivate, CatchUpFails, Saved, Drain,
                Drained, TakePage, Consume, sequence
  <2>4. CASE Follow
    BY <2>4 DEF Follow, Refresh, WatchChannel, UnwatchChannel, sequence
  <2> QED
    BY <2>1, <2>2, <2>3, <2>4 DEF Next
<1> QED
  BY <1>1, <1>2 DEF Accounted

(***************************************************************************)
(* What a listener sees of the manager is the promised stream, for every   *)
(* log and any number of channels, feeds and catch-ups.                    *)
(***************************************************************************)
THEOREM ManagerKeepsThePromise == Spec => KeepsThePromise
<1> DEFINE Inv == IInv /\ HandedIsKnown /\ HandedOnce
           Times == [e \in Events |-> IF e \in twice THEN 2 ELSE IF e \in handed THEN 1 ELSE 0]
<1>1. Init => Promised!Init /\ HandedIsKnown /\ HandedOnce
  <2>1. Init => Accounted \subseteq Events
    BY InitKeeps, TypeParts DEF IInv, TypeOK, Accounted
  <2> QED
    BY <2>1 DEF Init, Promised!Init, HandedIsKnown, HandedOnce
<1>2. ASSUME Inv, [Next]_vars PROVE Inv' /\ [Promised!Next]_(Promised!stream)
  <2>1. IInv' /\ Accounted \subseteq Accounted' /\ Hands
    BY <1>2, NextKeeps, NextHands, SettledGrows
  <2>2. twice = {} /\ handed \subseteq known
    BY <1>2 DEF HandedOnce, HandedIsKnown
  <2>3. CASE HandsNothing
    <3>1. HandedIsKnown' /\ HandedOnce'
      BY <2>2, <2>3 DEF HandsNothing, HandedIsKnown, HandedOnce
    <3>2. Promised!Settle
      BY <2>1, <2>3 DEF HandsNothing, Promised!Settle
    <3> QED
      BY <2>1, <3>1, <3>2 DEF Promised!Next
  <2>4. CASE HandsReached
    <3>1. handed' \ handed \in SUBSET Events
      BY <2>1, TypePartsNext DEF IInv, StreamType
    <3>2. PICK N \in SUBSET Events : N = handed' \ handed
      BY <3>1
    <3>3. /\ twice' = {} /\ handed' \subseteq known' /\ handed' = handed \cup N
          /\ N \cap handed = {}
          /\ \A e \in N : e[2] <= local'[e[1]]
      BY <2>2, <2>4, <3>2 DEF HandsReached, Dispatch
    <3>4. \A e \in N : Promised!Earlier(e) \subseteq Accounted'
      <4> SUFFICES ASSUME NEW e \in N, NEW d \in Events, d[1] = e[1], d[2] < e[2]
                   PROVE  d \in Accounted'
        BY DEF Promised!Earlier
      <4>1. /\ e[1] \in Boxes /\ e[2] \in Nat /\ d[2] \in Log[d[1]] /\ d[2] \in Nat
            /\ d = <<d[1], d[2]>>
        BY <3>3, EventParts, LogType
      <4>2. StreamType' /\ NothingSteppedOver'
        BY <2>1, TypePartsNext DEF IInv
      <4>3. local'[e[1]] \in Positions
        BY <4>1, <4>2 DEF StreamType
      <4>4. d[2] <= local'[d[1]]
        BY <3>3, <4>1, <4>3 DEF Positions, NoPts
      <4> QED
        BY <4>1, <4>2, <4>4 DEF NothingSteppedOver
    <3>5. Times' = [e \in Events |-> IF e \in N THEN 1 ELSE Times[e]]
      BY <2>2, <3>3
    <3>6. \A e \in N : Times[e] = 0
      BY <2>2, <3>3
    <3>7. Accounted \cup N \subseteq Accounted'
      BY <2>1, <3>3 DEF Accounted
    <3>8. Promised!Report(N)
      BY <3>4, <3>5, <3>6, <3>7 DEF Promised!Report
    <3>9. HandedIsKnown' /\ HandedOnce'
      BY <3>3 DEF HandedIsKnown, HandedOnce
    <3>10. Promised!Next
      BY <3>8 DEF Promised!Next
    <3> QED
      BY <2>1, <3>9, <3>10
  <2> QED
    BY <2>1, <2>3, <2>4 DEF Hands
<1>3. Init => IInv
  BY InitKeeps
<1> QED
  BY <1>1, <1>2, <1>3, PTL DEF Spec, KeepsThePromise, Promised!Spec

-----------------------------------------------------------------------------
(***************************************************************************)
(* Nothing is known here before it has happened at the server: where the   *)
(* boxes stand, what is held, and what differences are asked from.         *)
(***************************************************************************)
Stood(b, l, upto) == l = NoPts \/ (l \in Stops(b) /\ l <= upto)

BoxesHappened == \A b \in Boxes : Stood(b, local[b], srv[b]) /\ Origin <= srv[b]

HeldHappened ==
    /\ \A b \in Boxes : waiting[b] \subseteq Occurred
    /\ \A s \in Attempts : held[s] \subseteq Occurred

AttemptHappened(a) ==
    /\ a.todo \subseteq Occurred
    /\ a.phase = "asking" => Stood(a.box, a.asked, a.floor) /\ a.floor <= srv[a.box]

Happened ==
    /\ BoxesHappened /\ HeldHappened
    /\ \A s \in Attempts : AttemptHappened(att[s])
    /\ \A f \in Feeds : feed[f].left \subseteq Occurred

LEMMA ReachedIsOf ==
  ASSUME NEW b \in Boxes, NEW l, NEW S \in SUBSET Log[b]
  PROVE  Reached(l, S) \in S \cup {l}
<1>1. CASE S = {}
  BY <1>1 DEF Reached
<1>2. CASE S # {}
  <2>1. S \in SUBSET Nat /\ \A x \in S : x <= MaxPts
    BY LogType
  <2>2. Highest(S) \in S
    BY <1>2, <2>1, HighestIsHighest, LogAssumption
  <2> QED
    BY <1>2, <2>2 DEF Reached
<1> QED
  BY <1>1, <1>2

LEMMA ReleasedIsHeld ==
  ASSUME NEW b \in Boxes, NEW l
  PROVE  /\ Released(b, l) \subseteq At(b, waiting[b])
         /\ Reached(l, Released(b, l)) \in At(b, waiting[b]) \cup {l}
<1>1. Released(b, l) \subseteq At(b, waiting[b])
  BY DEF Released, Run
<1>2. Released(b, l) \in SUBSET Log[b]
  BY <1>1 DEF At
<1>3. Reached(l, Released(b, l)) \in Released(b, l) \cup {l}
  BY <1>2, ReachedIsOf
<1> QED
  BY <1>1, <1>3

\* Consuming moves one box at most, not one that is catching up, and never back.
LEMMA ConsumeMoves ==
  ASSUME StreamType, NEW e \in Events, NEW R, Consume(e, R)
  PROVE  /\ \A c \in Boxes \ {e[1]} : local'[c] = local[c]
         /\ \/ local'[e[1]] = local[e[1]]
            \/ /\ catching[e[1]] = None
               /\ local'[e[1]] \in {e[2]} \cup At(e[1], waiting[e[1]])
               /\ local[e[1]] = NoPts \/ local'[e[1]] >= local[e[1]]
<1> DEFINE b == e[1]
           p == e[2]
           l == Advance(local[b], p)
           top == Reached(l, Released(b, l))
<1>0. b \in Boxes /\ p \in Log[b] /\ p \in Nat /\ p > Origin
  BY EventParts, LogType
<1>1. CASE UNCHANGED local
  BY <1>1
<1>2. CASE /\ catching[b] = None
           /\ local' = [local EXCEPT ![b] = top]
           /\ Judge(local[b], p, Count[b][p]) = "apply"
  <2>1. l = p /\ (local[b] = NoPts \/ (local[b] \in Nat /\ p >= local[b]))
    <3>1. CASE local[b] = NoPts
      BY <1>0, <3>1 DEF Advance, Larger, NoPts
    <3>2. CASE local[b] # NoPts
      <4>1. local[b] \in Nat /\ Count[b][p] \in Nat \ {0}
        BY <1>0, <3>2, CountAssumption DEF Positions, StreamType
      <4>2. local[b] + Count[b][p] = p
        BY <1>2, <3>2 DEF Judge
      <4> QED
        BY <1>0, <4>1, <4>2 DEF Advance, Larger
    <3> QED
      BY <3>1, <3>2
  <2>2. top \in Nat /\ top >= p /\ top \in At(b, waiting[b]) \cup {p}
    BY <1>0, <2>1, ReleasedIsHeld, ReleasedIsUnbroken
  <2> HIDE DEF top
  <2>3. local'[b] = top /\ \A c \in Boxes \ {b} : local'[c] = local[c]
    BY <1>0, <1>2 DEF StreamType
  <2>4. local[b] = NoPts \/ top >= local[b]
    BY <1>0, <2>1, <2>2
  <2> QED
    BY <1>2, <2>2, <2>3, <2>4
<1> QED
  BY <1>1, <1>2 DEF Consume, Holding

\* Arranging a catch-up adds what waits for it, and wakes only a box with none running.
LEMMA QueueHolds ==
  ASSUME WindowType, NEW b \in Boxes, NEW U \in SUBSET Events, NEW ordered,
         NEW running \in Attempts \cup {None}, NEW lists \in [Attempts -> SUBSET Events],
         QueueCatchUp(b, U, ordered, running, lists)
  PROVE  /\ \A c \in Boxes : waiting'[c] \subseteq waiting[c] \cup U
         /\ \A s \in Attempts : held'[s] \subseteq lists[s] \cup U
         /\ \A c \in Boxes : pending'[c] = pending[c] \/ (c = b /\ running = None /\ ~closed)
<1>1. CASE UNCHANGED windows /\ held' = lists
  BY <1>1 DEF windows
<1>2. CASE /\ running # None
           /\ held' = [lists EXCEPT ![running] = @ \cup U]
           /\ UNCHANGED windows
  BY <1>2 DEF windows
<1>3. CASE /\ ~closed /\ running = None
           /\ held' = lists
           /\ waiting' = [waiting EXCEPT ![b] = @ \cup U]
           /\ pending' = [pending EXCEPT ![b] =
                 IF ordered /\ @ # "asking" THEN "ordered" ELSE "asking"]
  BY <1>3 DEF WindowType
<1> QED
  BY <1>1, <1>2, <1>3 DEF QueueCatchUp

LEMMA ConsumeHolds ==
  ASSUME WindowType, catching \in [Boxes -> Attempts \cup {None}],
         NEW e \in Events, NEW R, Consume(e, R)
  PROVE  /\ \A c \in Boxes : waiting'[c] \subseteq waiting[c] \cup {e}
         /\ \A s \in Attempts : held'[s] \subseteq held[s] \cup {e}
         /\ \A c \in Boxes : \/ pending'[c] = pending[c] \/ pending'[c] = "none"
                             \/ catching[c] = None /\ ~closed
<1>0. e[1] \in Boxes
  BY EventParts
<1>1. CASE UNCHANGED windows /\ (UNCHANGED held \/ \E s \in Attempts :
                                     held' = [held EXCEPT ![s] = @ \cup {e}])
  BY <1>1 DEF windows, WindowType
<1>2. CASE (\E l : CloseWindow(e[1], l)) /\ UNCHANGED held
  <2>1. PICK l : CloseWindow(e[1], l)
    BY <1>2
  <2> QED
    BY <1>0, <1>2, <2>1 DEF CloseWindow, windows, WindowType
<1>3. CASE ~Holding(e[1]) /\ QueueCatchUp(e[1], {e}, TRUE, None, held)
  <2>1. {e} \in SUBSET Events /\ None \in Attempts \cup {None}
    OBVIOUS
  <2>2. held \in [Attempts -> SUBSET Events]
    BY DEF WindowType
  <2>3. /\ \A c \in Boxes : waiting'[c] \subseteq waiting[c] \cup {e}
        /\ \A s \in Attempts : held'[s] \subseteq held[s] \cup {e}
        /\ \A c \in Boxes : pending'[c] = pending[c] \/ (c = e[1] /\ None = None /\ ~closed)
    BY <1>0, <1>3, <2>1, <2>2, QueueHolds
  <2>4. catching[e[1]] = None
    BY <1>3 DEF Holding
  <2> QED
    BY <2>3, <2>4
<1>4. Holding(e[1]) => catching[e[1]] \in Attempts
  BY <1>0 DEF Holding
<1> QED
  BY <1>1, <1>2, <1>3, <1>4 DEF Consume

\* Nothing that has happened at the server is taken back.
LEMMA ServerGrows ==
  ASSUME IInv, [Next]_vars
  PROVE  \A b \in Boxes : srv[b] \in Nat /\ srv'[b] \in Nat /\ srv'[b] >= srv[b]
<1>0. srv \in [Boxes -> Nat]
  BY DEF IInv, TypeOK
<1>1. ASSUME NEW b \in Boxes, Happen(b)
      PROVE  \A c \in Boxes : srv[c] \in Nat /\ srv'[c] \in Nat /\ srv'[c] >= srv[c]
  <2>1. PICK p \in Log[b] : p > srv[b] /\ srv' = [srv EXCEPT ![b] = p]
    BY <1>1 DEF Happen
  <2>2. p \in Nat
    BY LogType
  <2> QED
    BY <1>0, <2>1, <2>2
<1>2. ASSUME UNCHANGED srv
      PROVE  \A c \in Boxes : srv[c] \in Nat /\ srv'[c] \in Nat /\ srv'[c] >= srv[c]
  BY <1>0, <1>2
<1>3. CASE Environment
  <2>1. CASE \E b \in Boxes : Happen(b)
    <3>1. PICK b \in Boxes : Happen(b)
      BY <2>1
    <3> QED
      BY <1>0, <1>1, <3>1
  <2>2. CASE UNCHANGED srv
    BY <1>2, <2>2
  <2> QED
    BY <1>3, <2>1, <2>2 DEF Environment, LeaveOrJoin
<1>4. CASE Stream
  <2>1. UNCHANGED srv
    BY <1>4 DEF Stream, Feed, FeedStep, FeedFails, FeedSeen, FeedGap, FeedConsume, FeedDone,
                Absorb, AbsorbPosition, server
  <2> QED
    BY <1>2, <2>1
<1>5. ASSUME NEW s \in Attempts, Chase(s) PROVE UNCHANGED srv
  BY <1>5 DEF Chase, Overflow, WindowEnds, Recover, Name, Answer, AnswerEmpty, AnswerFinal,
              AnswerSlice, AnswerTooLong, AnswerPrivate, CatchUpFails, Saved, Drain,
              Drained, server
<1>6. CASE Follow \/ Close \/ UNCHANGED vars
  <2>1. UNCHANGED srv
    BY <1>6 DEF Follow, Refresh, WatchChannel, UnwatchChannel, Close, vars, server
  <2> QED
    BY <1>2, <2>1
<1> QED
  BY <1>0, <1>2, <1>3, <1>4, <1>5, <1>6 DEF Next

\* Consuming something that has happened holds only what has.
LEMMA ConsumeIsOf ==
  ASSUME IInv, Happened, NEW e \in Occurred, NEW R, Consume(e, R)
  PROVE  /\ \A b \in Boxes : local'[b] = local[b] \/ Stood(b, local'[b], srv[b])
         /\ \A b \in Boxes : waiting'[b] \subseteq Occurred
         /\ \A s \in Attempts : held'[s] \subseteq Occurred
<1>0. StreamType /\ WindowType /\ catching \in [Boxes -> Attempts \cup {None}] /\ e \in Events
  BY TypeParts DEF IInv, OtherType, Occurred
<1>1. \A b \in Boxes : At(b, waiting[b]) \subseteq Log[b]
                       /\ \A p \in At(b, waiting[b]) : p <= srv[b]
  BY DEF Happened, HeldHappened, Occurred, At
<1>2. e[1] \in Boxes /\ e[2] \in Log[e[1]] /\ e[2] <= srv[e[1]]
  BY <1>0, EventParts DEF Occurred
<1>3. ASSUME NEW b \in Boxes
      PROVE  local'[b] = local[b] \/ Stood(b, local'[b], srv[b])
  BY <1>0, <1>1, <1>2, ConsumeMoves DEF Stood, Stops
<1>4. /\ \A b \in Boxes : waiting'[b] \subseteq waiting[b] \cup {e}
      /\ \A s \in Attempts : held'[s] \subseteq held[s] \cup {e}
  BY <1>0, ConsumeHolds
<1>5. /\ \A b \in Boxes : waiting'[b] \subseteq Occurred
      /\ \A s \in Attempts : held'[s] \subseteq Occurred
  BY <1>4 DEF Happened, HeldHappened
<1> QED
  BY <1>3, <1>5

\* A catch-up arranged for what has happened holds only that.
LEMMA QueueIsOf ==
  ASSUME IInv, Happened, NEW b \in Boxes, NEW U \in SUBSET Occurred,
         NEW ordered, NEW running \in Attempts \cup {None},
         NEW lists \in [Attempts -> SUBSET Occurred],
         QueueCatchUp(b, U, ordered, running, lists)
  PROVE  /\ \A c \in Boxes : waiting'[c] \subseteq Occurred
         /\ \A s \in Attempts : held'[s] \subseteq Occurred
<1>1. WindowType /\ Occurred \subseteq Events
  BY TypeParts DEF IInv, Occurred
<1>2. U \in SUBSET Events /\ lists \in [Attempts -> SUBSET Events]
  BY <1>1
<1>3. /\ \A c \in Boxes : waiting'[c] \subseteq waiting[c] \cup U
      /\ \A s \in Attempts : held'[s] \subseteq lists[s] \cup U
  BY <1>1, <1>2, QueueHolds
<1> QED
  BY <1>3 DEF Happened, HeldHappened

LEMMA StreamIsOf ==
  ASSUME IInv, Happened, Stream
  PROVE  /\ \A b \in Boxes : local'[b] = local[b] \/ Stood(b, local'[b], srv[b])
         /\ \A b \in Boxes : waiting'[b] \subseteq Occurred
         /\ \A s \in Attempts : held'[s] \subseteq Occurred
         /\ \A f \in Feeds : feed'[f].left \subseteq Occurred
         /\ UNCHANGED att
<1>0. /\ feed \in [Feeds -> FeedType] /\ WindowType
      /\ catching \in [Boxes -> Attempts \cup {None}] /\ Common \in Boxes
  BY TypeParts DEF IInv, OtherType, Boxes
<1>1. /\ \A b \in Boxes : waiting[b] \subseteq Occurred
      /\ \A s \in Attempts : held[s] \subseteq Occurred
      /\ \A f \in Feeds : feed[f].left \subseteq Occurred
      /\ NoFeed.left = {}
  BY DEF Happened, HeldHappened, NoFeed
<1>2. ASSUME NEW f \in Feeds, NEW U \in SUBSET Occurred, NEW start, NEW number,
             Feed(f, U, start, number) \/ Absorb(f, U, start, number)
      PROVE  /\ UNCHANGED <<local, waiting, held, att>>
             /\ \A g \in Feeds : feed'[g].left \subseteq Occurred
  BY <1>0, <1>1, <1>2 DEF Feed, Absorb, sequence, windows
<1>3. ASSUME NEW e \in Occurred, AbsorbPosition(e)
      PROVE  UNCHANGED <<feed, att>> /\ Consume(e, known \cup {e})
  BY <1>3 DEF AbsorbPosition
<1>4. ASSUME NEW f \in Feeds, FeedFails(f) \/ FeedSeen(f) \/ FeedDone(f)
      PROVE  /\ UNCHANGED <<local, waiting, held, att>>
             /\ \A g \in Feeds : feed'[g].left \subseteq Occurred
  BY <1>0, <1>1, <1>4 DEF FeedFails, FeedSeen, FeedDone, sequence, windows
<1>5. ASSUME NEW f \in Feeds, FeedGap(f)
      PROVE  /\ UNCHANGED <<local, att>>
             /\ \A b \in Boxes : waiting'[b] \subseteq Occurred
             /\ \A s \in Attempts : held'[s] \subseteq Occurred
             /\ \A g \in Feeds : feed'[g].left \subseteq Occurred
  <2>1. /\ feed[f].left \in SUBSET Occurred /\ held \in [Attempts -> SUBSET Occurred]
        /\ catching[Common] \in Attempts \cup {None}
    BY <1>0, <1>1 DEF WindowType
  <2>2. QueueCatchUp(Common, feed[f].left, FALSE, catching[Common], held)
    BY <1>5 DEF FeedGap
  <2>3. /\ \A b \in Boxes : waiting'[b] \subseteq Occurred
        /\ \A s \in Attempts : held'[s] \subseteq Occurred
    BY <1>0, <2>1, <2>2, QueueIsOf
  <2>4. /\ UNCHANGED <<local, att>>
        /\ \A g \in Feeds : feed'[g].left \subseteq Occurred
    BY <1>0, <1>1, <1>5 DEF FeedGap, sequence
  <2> QED
    BY <2>3, <2>4
<1>6. ASSUME NEW f \in Feeds, FeedConsume(f)
      PROVE  /\ UNCHANGED att
             /\ \E e \in Occurred : Consume(e, known)
             /\ \A g \in Feeds : feed'[g].left \subseteq Occurred
  <2>1. PICK e \in feed[f].left :
            /\ Consume(e, known)
            /\ feed' = [feed EXCEPT ![f].left = @ \ {e}, ![f].phase = "consume"]
    BY <1>6 DEF FeedConsume
  <2>2. e \in Occurred
    BY <1>1, <2>1
  <2>3. \A g \in Feeds : feed'[g].left \subseteq feed[g].left
    BY <1>0, <2>1 DEF FeedType
  <2>4. UNCHANGED att
    BY <1>6 DEF FeedConsume
  <2> QED
    BY <1>1, <2>1, <2>2, <2>3, <2>4
<1>7. CASE \E f \in Feeds, U \in Batches, span \in Containers :
             Feed(f, U, span[1], span[2]) \/ Absorb(f, U, span[1], span[2])
  <2>1. Batches \subseteq SUBSET Occurred
    BY DEF Batches
  <2>2. /\ UNCHANGED <<local, waiting, held, att>>
        /\ \A g \in Feeds : feed'[g].left \subseteq Occurred
    BY <1>2, <1>7, <2>1
  <2> QED
    BY <1>1, <2>2
<1>8. CASE \E e \in Occurred \cap Own : AbsorbPosition(e)
  BY <1>1, <1>3, <1>8, ConsumeIsOf
<1>9. ASSUME NEW f \in Feeds, FeedStep(f)
      PROVE  /\ \A b \in Boxes : local'[b] = local[b] \/ Stood(b, local'[b], srv[b])
             /\ \A b \in Boxes : waiting'[b] \subseteq Occurred
             /\ \A s \in Attempts : held'[s] \subseteq Occurred
             /\ \A g \in Feeds : feed'[g].left \subseteq Occurred
             /\ UNCHANGED att
  <2>1. CASE FeedConsume(f)
    BY <1>6, <2>1, ConsumeIsOf
  <2>2. CASE FeedGap(f)
    BY <1>5, <2>2
  <2>3. CASE FeedFails(f) \/ FeedSeen(f) \/ FeedDone(f)
    BY <1>1, <1>4, <2>3
  <2> QED
    BY <1>9, <2>1, <2>2, <2>3 DEF FeedStep
<1> QED
  BY <1>7, <1>8, <1>9 DEF Stream

\* A call of catchUp just made asks from nowhere yet, or from where its box stands.
LEMMA BegunIsOf ==
  ASSUME NEW b \in Boxes, NEW entry, NEW refresh, NEW l, Stood(b, l, srv[b]), srv[b] \in Nat
  PROVE  AttemptHappened(Begun(b, entry, refresh, l))
BY DEF AttemptHappened, Begun

LEMMA NoAttemptIsOf == AttemptHappened(NoAttempt)
BY DEF AttemptHappened, NoAttempt

LEMMA OneAttemptIsOf ==
  ASSUME IInv, Happened, NEW s \in Attempts, NEW new, AttemptHappened(new),
         att' = [att EXCEPT ![s] = new]
  PROVE  \A t \in Attempts : AttemptHappened(att'[t])
BY DEF IInv, TypeOK, Happened

LEMMA RecoveringIsOf ==
  ASSUME IInv, Happened, NEW s \in Attempts, NEW b \in Boxes, NEW refresh, NEW l,
         Recovering(s, b, refresh, l), Stood(b, l, srv[b])
  PROVE  \A t \in Attempts : AttemptHappened(att'[t])
<1>1. srv[b] \in Nat
  BY DEF IInv, TypeOK
<1>2. PICK entry : att' = [att EXCEPT ![s] = Begun(b, entry, refresh, l)]
  BY DEF Recovering
<1> QED
  BY <1>1, <1>2, BegunIsOf, OneAttemptIsOf

LEMMA CompletedIsOf ==
  ASSUME IInv, Happened, NEW s \in Attempts, Completed(s), att[s].phase = "asking"
  PROVE  /\ \A t \in Attempts : AttemptHappened(att'[t])
         /\ \A t \in Attempts : held'[t] \subseteq Occurred
<1> DEFINE new == [att[s] EXCEPT !.phase = "draining", !.todo = held[att[s].entry]]
<1>0. att \in [Attempts -> AttemptType] /\ held \in [Attempts -> SUBSET Events]
  BY DEF IInv, TypeOK
<1>1. att[s] \in ActiveType
  BY <1>0, ActiveAttempt
<1>2. att' = [att EXCEPT ![s] = new] /\ held' = [held EXCEPT ![att[s].entry] = {}]
  BY DEF Completed
<1>3. new.phase = "draining" /\ new.todo = held[att[s].entry]
  BY <1>1 DEF ActiveType
<1>4. att[s].entry \in Attempts
  BY <1>1 DEF ActiveType
<1> HIDE DEF new
<1>5. AttemptHappened(new)
  BY <1>3, <1>4 DEF AttemptHappened, Happened, HeldHappened
<1>6. \A t \in Attempts : held'[t] \subseteq Occurred
  BY <1>0, <1>2 DEF Happened, HeldHappened
<1> QED
  BY <1>2, <1>5, <1>6, OneAttemptIsOf

\* Where an answer leaves the box, and what it leaves of the attempt.
LEMMA AnswerIsOf ==
  ASSUME IInv, Happened, NEW s \in Attempts, Answer(s)
  PROVE  /\ \A b \in Boxes : local'[b] = local[b] \/ Stood(b, local'[b], srv[b])
         /\ \A b \in Boxes : waiting'[b] \subseteq Occurred
         /\ \A t \in Attempts : held'[t] \subseteq Occurred
         /\ \A t \in Attempts : AttemptHappened(att'[t])
<1> DEFINE b == att[s].box
<1>0. /\ StreamType /\ att \in [Attempts -> AttemptType] /\ att[s].phase = "asking"
      /\ srv \in [Boxes -> Nat] /\ held \in [Attempts -> SUBSET Events]
  BY TypeParts DEF IInv, OtherType, WindowType, Answer, AnswerEmpty, AnswerFinal, AnswerSlice,
                   AnswerTooLong, AnswerPrivate, Answered
<1>1. att[s] \in ActiveType
  BY <1>0, ActiveAttempt
<1>2. b \in Boxes /\ srv[b] \in Nat /\ att[s].floor \in Nat
  BY <1>0, <1>1 DEF ActiveType
<1>3. /\ \A c \in Boxes : waiting[c] \subseteq Occurred
      /\ \A t \in Attempts : held[t] \subseteq Occurred
  BY DEF Happened, HeldHappened
<1>4. UNCHANGED waiting
  BY DEF Answer, AnswerEmpty, AnswerFinal, AnswerSlice, AnswerTooLong, AnswerPrivate, windows
<1>5. ASSUME NEW upto, Stood(b, upto, srv[b]), local' = [local EXCEPT ![b] = upto]
      PROVE  \A c \in Boxes : local'[c] = local[c] \/ Stood(c, local'[c], srv[c])
  BY <1>0, <1>2, <1>5 DEF StreamType
<1>6. ASSUME NEW number, AnswerEmpty(s, number)
      PROVE  /\ \A c \in Boxes : local'[c] = local[c] \/ Stood(c, local'[c], srv[c])
             /\ Completed(s)
  <2>1. Stood(b, att[s].asked, att[s].floor) /\ att[s].floor <= srv[b]
    BY <1>0 DEF Happened, AttemptHappened
  <2>2. \A q \in Stops(b) : q \in Nat
    BY <1>2, LogType DEF Stops, Origin
  <2>3. Stood(b, att[s].asked, srv[b])
    BY <1>2, <2>1, <2>2 DEF Stood
  <2>4. local' = local \/ local' = [local EXCEPT ![b] = att[s].asked]
    BY <1>6 DEF AnswerEmpty
  <2>5. Completed(s)
    BY <1>6 DEF AnswerEmpty
  <2> QED
    BY <1>5, <2>3, <2>4, <2>5
<1>7. ASSUME NEW upto \in Stops(b), upto <= srv[b], NEW number,
             AnswerFinal(s, upto, number) \/ AnswerTooLong(s, upto)
      PROVE  /\ \A c \in Boxes : local'[c] = local[c] \/ Stood(c, local'[c], srv[c])
             /\ Completed(s)
  <2>1. Completed(s)
    BY <1>7 DEF AnswerFinal, AnswerTooLong
  <2>2. local' = [local EXCEPT ![b] = upto] \/ local' = [local EXCEPT ![b] = NoPts]
    BY <1>7 DEF AnswerFinal, AnswerTooLong, TakePage
  <2>3. Stood(b, upto, srv[b]) /\ Stood(b, NoPts, srv[b])
    BY <1>7 DEF Stood
  <2> QED
    BY <1>5, <2>1, <2>2, <2>3
<1>8. ASSUME NEW upto \in Stops(b), upto <= srv[b], NEW number, AnswerSlice(s, upto, number)
      PROVE  /\ \A c \in Boxes : local'[c] = local[c] \/ Stood(c, local'[c], srv[c])
             /\ UNCHANGED held
             /\ \A t \in Attempts : AttemptHappened(att'[t])
  <2> DEFINE next == [att[s] EXCEPT !.asked = upto, !.floor = srv[b], !.page = @ + 1]
             last == [att[s] EXCEPT !.phase = "saving"]
  <2>1. local' = [local EXCEPT ![b] = upto] /\ UNCHANGED held
    BY <1>8 DEF AnswerSlice, TakePage
  <2>2. Stood(b, upto, srv[b])
    BY <1>8 DEF Stood
  <2>3. att' = [att EXCEPT ![s] = next] \/ att' = [att EXCEPT ![s] = last]
    BY <1>8 DEF AnswerSlice
  <2>4. /\ next.todo = att[s].todo /\ next.box = b /\ next.asked = upto /\ next.floor = srv[b]
        /\ last.todo = att[s].todo /\ last.phase = "saving"
    BY <1>1 DEF ActiveType
  <2>5. att[s].todo \subseteq Occurred
    BY DEF Happened, AttemptHappened
  <2> HIDE DEF next, last
  <2>6. AttemptHappened(next) /\ AttemptHappened(last)
    BY <1>2, <2>2, <2>4, <2>5 DEF AttemptHappened
  <2>7. \A t \in Attempts : AttemptHappened(att'[t])
    BY <2>3, <2>6, OneAttemptIsOf
  <2> QED
    BY <1>5, <2>1, <2>2, <2>7
<1>9. CASE AnswerPrivate(s)
  <2>1. UNCHANGED local /\ att' = [att EXCEPT ![s] = NoAttempt]
    BY <1>9 DEF AnswerPrivate, sequence
  <2>2. held' = held \/ held' = [held EXCEPT ![att[s].entry] = {}]
    BY <1>9 DEF AnswerPrivate
  <2>3. \A t \in Attempts : held'[t] \subseteq held[t]
    BY <1>0, <2>2
  <2>4. \A t \in Attempts : AttemptHappened(att'[t])
    BY <2>1, NoAttemptIsOf, OneAttemptIsOf
  <2> QED
    BY <1>3, <1>4, <2>1, <2>3, <2>4
<1>10. CASE \E number : AnswerEmpty(s, number)
  BY <1>0, <1>3, <1>4, <1>6, <1>10, CompletedIsOf
<1>11. CASE \E number : \E upto \in Stops(b) :
               upto <= srv[b] /\ (AnswerFinal(s, upto, number) \/ AnswerTooLong(s, upto))
  BY <1>0, <1>3, <1>4, <1>7, <1>11, CompletedIsOf
<1>12. CASE \E number : \E upto \in Stops(b) : upto <= srv[b] /\ AnswerSlice(s, upto, number)
  BY <1>3, <1>4, <1>8, <1>12
<1> QED
  BY <1>9, <1>10, <1>11, <1>12 DEF Answer

\* A window that runs out leaves its box where something held for it was.
LEMMA WindowEndsIsOf ==
  ASSUME IInv, Happened, NEW b \in Boxes, NEW s \in Attempts, WindowEnds(b, s)
  PROVE  /\ \A c \in Boxes : local'[c] = local[c] \/ Stood(c, local'[c], srv[c])
         /\ \A c \in Boxes : waiting'[c] \subseteq Occurred
         /\ \A t \in Attempts : held'[t] \subseteq Occurred
         /\ \A t \in Attempts : AttemptHappened(att'[t])
<1> DEFINE top == Reached(local[b], Released(b, local[b]))
           left == IF pending[b] = "ordered" THEN {e \in waiting[b] : e[2] > top}
                   ELSE waiting[b]
<1>0. StreamType /\ WindowType /\ srv[b] \in Nat
  BY TypeParts DEF IInv, OtherType
<1>1. /\ Stood(b, local[b], srv[b])
      /\ \A c \in Boxes : waiting[c] \subseteq Occurred
      /\ \A t \in Attempts : held[t] \subseteq Occurred
  BY DEF Happened, HeldHappened, BoxesHappened
<1>2. \A p \in At(b, waiting[b]) : p \in Stops(b) /\ p <= srv[b]
  BY <1>1 DEF At, Occurred, Stops
<1>3. Stood(b, top, srv[b])
  BY <1>1, <1>2, ReleasedIsHeld DEF Stood
<1>4. left \subseteq Occurred
  BY <1>1
<1>5. /\ local' = [local EXCEPT ![b] = top]
      /\ waiting' = [waiting EXCEPT ![b] = {}]
      /\ \/ UNCHANGED <<held, att>>
         \/ /\ held' = [held EXCEPT ![s] = left]
            /\ att' = [att EXCEPT ![s] = Begun(b, s, FALSE, top)]
  BY DEF WindowEnds
<1> HIDE DEF top, left
<1>6. \A c \in Boxes : local'[c] = local[c] \/ Stood(c, local'[c], srv[c])
  BY <1>0, <1>3, <1>5 DEF StreamType
<1>7. \A c \in Boxes : waiting'[c] \subseteq Occurred
  BY <1>0, <1>1, <1>5 DEF WindowType
<1>8. \A t \in Attempts : held'[t] \subseteq Occurred
  BY <1>0, <1>1, <1>4, <1>5 DEF WindowType
<1>9. \A t \in Attempts : AttemptHappened(att'[t])
  <2>1. AttemptHappened(Begun(b, s, FALSE, top))
    BY <1>0, <1>3, BegunIsOf
  <2>2. CASE UNCHANGED att
    BY <2>2 DEF Happened
  <2>3. CASE att' = [att EXCEPT ![s] = Begun(b, s, FALSE, top)]
    BY <2>1, <2>3, OneAttemptIsOf
  <2> QED
    BY <1>5, <2>2, <2>3
<1> QED
  BY <1>6, <1>7, <1>8, <1>9

\* A catch-up that failed, or ran out of pages, hands what it held to another.
LEMMA ReturnedIsOf ==
  ASSUME IInv, Happened, NEW s \in Attempts, CatchUpFails(s) \/ Saved(s)
  PROVE  /\ UNCHANGED local
         /\ \A c \in Boxes : waiting'[c] \subseteq Occurred
         /\ \A t \in Attempts : held'[t] \subseteq Occurred
         /\ \A t \in Attempts : AttemptHappened(att'[t])
<1> DEFINE b == att[s].box
           entry == att[s].entry
           lists == [held EXCEPT ![entry] = {}]
<1>0. WindowType /\ att \in [Attempts -> AttemptType]
      /\ catching \in [Boxes -> Attempts \cup {None}]
  BY TypeParts DEF IInv, OtherType
<1>1. att[s] \in ActiveType
  BY <1>0, ActiveAttempt DEF CatchUpFails, Saved, Chasing
<1>2. /\ \A c \in Boxes : waiting[c] \subseteq Occurred
      /\ \A t \in Attempts : held[t] \subseteq Occurred
      /\ b \in Boxes /\ entry \in Attempts
  BY <1>1 DEF Happened, HeldHappened, ActiveType
<1>3. held[entry] \in SUBSET Occurred /\ lists \in [Attempts -> SUBSET Occurred]
  BY <1>0, <1>2 DEF WindowType
<1>4. catching[b] \in Attempts \cup {None} /\ None \in Attempts \cup {None}
  BY <1>0, <1>2
<1>5. /\ UNCHANGED local
      /\ att' = [att EXCEPT ![s] = NoAttempt]
      /\ \/ UNCHANGED <<windows, held>>
         \/ \E running \in {None, catching[b]} :
               QueueCatchUp(b, held[entry], FALSE, running, lists)
  BY DEF CatchUpFails, Saved, sequence
<1> HIDE DEF lists
<1>6. CASE UNCHANGED <<windows, held>>
  BY <1>2, <1>5, <1>6, NoAttemptIsOf, OneAttemptIsOf DEF windows
<1>7. CASE \E running \in {None, catching[b]} :
               QueueCatchUp(b, held[entry], FALSE, running, lists)
  BY <1>2, <1>3, <1>4, <1>5, <1>7, QueueIsOf, NoAttemptIsOf, OneAttemptIsOf
<1> QED
  BY <1>5, <1>6, <1>7

LEMMA DrainIsOf ==
  ASSUME IInv, Happened, NEW s \in Attempts, Drain(s)
  PROVE  /\ \A c \in Boxes : local'[c] = local[c] \/ Stood(c, local'[c], srv[c])
         /\ \A c \in Boxes : waiting'[c] \subseteq Occurred
         /\ \A t \in Attempts : held'[t] \subseteq Occurred
         /\ \A t \in Attempts : AttemptHappened(att'[t])
<1>0. att \in [Attempts -> AttemptType] /\ att[s].phase = "draining"
  BY TypeParts DEF IInv, Drain
<1>1. att[s] \in ActiveType
  BY <1>0, ActiveAttempt
<1>2. PICK e \in att[s].todo : /\ Consume(e, known)
                              /\ att' = [att EXCEPT ![s].todo = @ \ {e}]
  BY DEF Drain
<1>3. att[s].todo \subseteq Occurred
  BY DEF Happened, AttemptHappened
<1> DEFINE new == [att[s] EXCEPT !.todo = @ \ {e}]
<1>4. att' = [att EXCEPT ![s] = new]
  BY <1>2
<1>5. new.phase = "draining" /\ new.todo \subseteq Occurred
  BY <1>0, <1>1, <1>3 DEF ActiveType
<1> HIDE DEF new
<1>6. \A t \in Attempts : AttemptHappened(att'[t])
  BY <1>4, <1>5, OneAttemptIsOf DEF AttemptHappened
<1>7. e \in Occurred
  BY <1>2, <1>3
<1> QED
  BY <1>2, <1>6, <1>7, ConsumeIsOf

LEMMA ChaseIsOf ==
  ASSUME IInv, Happened, NEW s \in Attempts, Chase(s)
  PROVE  /\ \A b \in Boxes : local'[b] = local[b] \/ Stood(b, local'[b], srv[b])
         /\ \A b \in Boxes : waiting'[b] \subseteq Occurred
         /\ \A t \in Attempts : held'[t] \subseteq Occurred
         /\ \A t \in Attempts : AttemptHappened(att'[t])
<1>0. /\ \A b \in Boxes : waiting[b] \subseteq Occurred
      /\ \A t \in Attempts : held[t] \subseteq Occurred
      /\ \A b \in Boxes : Stood(b, local[b], srv[b]) /\ Origin <= srv[b] /\ srv[b] \in Nat
      /\ att \in [Attempts -> AttemptType] /\ Common \in Boxes
  BY DEF Happened, HeldHappened, BoxesHappened, IInv, TypeOK, Boxes
<1>1. CASE Overflow(s) \/ Recover(s) \/ Name(s) \/ Drained(s)
  <2>1. UNCHANGED <<local, waiting, held>>
    BY <1>1 DEF Overflow, Recover, Name, Drained, sequence, windows
  <2>2. CASE Overflow(s)
    <3>1. att' = [att EXCEPT ![s] = Begun(Common, s, FALSE, local[Common])]
      BY <2>2 DEF Overflow
    <3> QED
      BY <1>0, <2>1, <3>1, BegunIsOf, OneAttemptIsOf
  <2>3. CASE Recover(s)
    <3>1. Recovering(s, Common, FALSE, local[Common])
      BY <2>3 DEF Recover
    <3> QED
      BY <1>0, <2>1, <3>1, RecoveringIsOf
  <2>4. CASE Name(s)
    <3> DEFINE b == att[s].box
               new == [att[s] EXCEPT !.phase = "asking", !.asked = AskFrom(local[b]),
                                     !.floor = srv[b]]
    <3>0. att[s] \in ActiveType
      BY <1>0, <2>4, ActiveAttempt DEF Name
    <3>1. b \in Boxes
      BY <3>0 DEF ActiveType
    <3>2. Stood(b, AskFrom(local[b]), srv[b])
      BY <1>0, <3>1 DEF Stood, AskFrom, Stops
    <3>3. att' = [att EXCEPT ![s] = new]
      BY <2>4 DEF Name
    <3>4. /\ new.todo = att[s].todo /\ new.box = b
          /\ new.asked = AskFrom(local[b]) /\ new.floor = srv[b]
      BY <3>0 DEF ActiveType
    <3>5. att[s].todo \subseteq Occurred
      BY DEF Happened, AttemptHappened
    <3> HIDE DEF new
    <3>6. AttemptHappened(new)
      BY <1>0, <3>1, <3>2, <3>4, <3>5 DEF AttemptHappened
    <3> QED
      BY <1>0, <2>1, <3>3, <3>6, OneAttemptIsOf
  <2>5. CASE Drained(s)
    <3>1. att' = [att EXCEPT ![s] = NoAttempt]
      BY <2>5 DEF Drained
    <3> QED
      BY <1>0, <2>1, <3>1, NoAttemptIsOf, OneAttemptIsOf
  <2> QED
    BY <1>1, <2>2, <2>3, <2>4, <2>5
<1>2. CASE \E b \in Boxes : WindowEnds(b, s)
  BY <1>2, WindowEndsIsOf
<1>3. CASE Answer(s)
  BY <1>3, AnswerIsOf
<1>4. CASE CatchUpFails(s) \/ Saved(s)
  BY <1>4, ReturnedIsOf
<1>5. CASE Drain(s)
  BY <1>5, DrainIsOf
<1> QED
  BY <1>1, <1>2, <1>3, <1>4, <1>5 DEF Chase

LEMMA FollowIsOf ==
  ASSUME IInv, Happened, Follow
  PROVE  /\ \A b \in Boxes : local'[b] = local[b] \/ Stood(b, local'[b], srv[b])
         /\ UNCHANGED <<waiting, held>>
         /\ \A t \in Attempts : AttemptHappened(att'[t])
<1>0. /\ \A b \in Boxes : Stood(b, local[b], srv[b])
      /\ local \in [Boxes -> Positions] /\ Watchable \subseteq Boxes
      /\ \A t \in Attempts : AttemptHappened(att[t])
  BY BoundAssumption DEF Happened, BoxesHappened, IInv, TypeOK, Boxes
<1>1. UNCHANGED <<waiting, held>>
  BY DEF Follow, Refresh, WatchChannel, UnwatchChannel, windows
<1>2. ASSUME NEW c \in Watchable, UnwatchChannel(c)
      PROVE  UNCHANGED <<local, att>>
  BY <1>2 DEF UnwatchChannel, sequence
<1>3. ASSUME NEW c \in Watchable, NEW s \in Attempts, Refresh(c, s)
      PROVE  UNCHANGED local /\ \A t \in Attempts : AttemptHappened(att'[t])
  <2>1. UNCHANGED local /\ Recovering(s, c, TRUE, local[c])
    BY <1>3 DEF Refresh, sequence
  <2> QED
    BY <1>0, <2>1, RecoveringIsOf
<1>4. ASSUME NEW c \in Watchable, NEW s \in Attempts, NEW pts \in Stops(c) \cup {NoPts},
             pts <= srv[c], WatchChannel(c, pts, s)
      PROVE  /\ \A b \in Boxes : local'[b] = local[b] \/ Stood(b, local'[b], srv[b])
             /\ \A t \in Attempts : AttemptHappened(att'[t])
  <2>1. CASE UNCHANGED <<local, att>>
    BY <1>0, <2>1
  <2>2. CASE \E l \in {pts, local[c]} :
               local' = [local EXCEPT ![c] = l] /\ Recovering(s, c, TRUE, l)
    <3>1. PICK l \in {pts, local[c]} :
               local' = [local EXCEPT ![c] = l] /\ Recovering(s, c, TRUE, l)
      BY <2>2
    <3>2. Stood(c, l, srv[c])
      BY <1>0, <1>4 DEF Stood
    <3> QED
      BY <1>0, <3>1, <3>2, RecoveringIsOf
  <2> QED
    BY <1>4, <2>1, <2>2 DEF WatchChannel
<1> QED
  BY <1>0, <1>1, <1>2, <1>3, <1>4 DEF Follow

LEMMA HappenedKeeps ==
  ASSUME IInv, Happened, [Next]_vars
  PROVE  Happened'
<1>1. \A b \in Boxes : srv[b] \in Nat /\ srv'[b] \in Nat /\ srv'[b] >= srv[b]
  BY ServerGrows
<1>2. Occurred \subseteq Occurred'
  <2> SUFFICES ASSUME NEW e \in Occurred PROVE e \in Occurred'
    OBVIOUS
  <2>1. e \in Events /\ e[2] <= srv[e[1]]
    BY DEF Occurred
  <2>2. e[1] \in Boxes /\ e[2] \in Nat
    BY <2>1, EventParts, LogType
  <2> QED
    BY <1>1, <2>1, <2>2 DEF Occurred
<1>3. /\ \A b \in Boxes : local'[b] = local[b] \/ Stood(b, local'[b], srv[b])
      /\ \A b \in Boxes : waiting'[b] \subseteq Occurred
      /\ \A t \in Attempts : held'[t] \subseteq Occurred
      /\ \A t \in Attempts : AttemptHappened(att'[t])
      /\ \A f \in Feeds : feed'[f].left \subseteq Occurred
  <2>0. /\ \A b \in Boxes : waiting[b] \subseteq Occurred
        /\ \A t \in Attempts : held[t] \subseteq Occurred
        /\ \A t \in Attempts : AttemptHappened(att[t])
        /\ \A f \in Feeds : feed[f].left \subseteq Occurred
    BY DEF Happened, HeldHappened
  <2>1. CASE Stream
    BY <2>0, <2>1, StreamIsOf
  <2>2. ASSUME NEW s \in Attempts, Chase(s) PROVE UNCHANGED feed
    BY <2>2 DEF Chase, Overflow, WindowEnds, Recover, Name, Answer, AnswerEmpty,
                AnswerFinal, AnswerSlice, AnswerTooLong, AnswerPrivate, CatchUpFails, Saved,
                Drain, Drained
  <2>3. CASE \E s \in Attempts : Chase(s)
    BY <2>0, <2>2, <2>3, ChaseIsOf
  <2>4. CASE Follow
    <3>1. UNCHANGED feed
      BY <2>4 DEF Follow, Refresh, WatchChannel, UnwatchChannel
    <3> QED
      BY <2>0, <2>4, <3>1, FollowIsOf
  <2>5. CASE Close
    <3>1. UNCHANGED <<local, held, att, feed>> /\ waiting' = [b \in Boxes |-> {}]
      BY <2>5 DEF Close, sequence
    <3> QED
      BY <2>0, <3>1
  <2>6. CASE Environment \/ UNCHANGED vars
    <3>1. UNCHANGED <<local, held, att, feed, waiting>>
      BY <2>6 DEF Environment, Happen, LeaveOrJoin, vars, windows
    <3> QED
      BY <2>0, <3>1
  <2> QED
    BY <2>1, <2>3, <2>4, <2>5, <2>6 DEF Next
<1>4. BoxesHappened'
  <2> SUFFICES ASSUME NEW b \in Boxes PROVE (Stood(b, local[b], srv[b]) /\ Origin <= srv[b])'
    BY DEF BoxesHappened
  <2>1. Stood(b, local'[b], srv[b]) /\ Origin <= srv[b] /\ Origin \in Nat
    BY <1>3 DEF Happened, BoxesHappened, Origin
  <2>2. \A q \in Stops(b) : q \in Nat
    BY LogType DEF Stops, Origin
  <2> QED
    BY <1>1, <2>1, <2>2 DEF Stood
<1>5. HeldHappened'
  BY <1>2, <1>3 DEF HeldHappened
<1>6. ASSUME NEW t \in Attempts PROVE AttemptHappened(att[t])'
  <2>1. AttemptHappened(att'[t]) /\ att'[t] \in AttemptType
    BY <1>3, NextKeeps DEF IInv, TypeOK
  <2>2. CASE att'[t].phase = "asking"
    <3>1. att'[t].box \in Boxes /\ att'[t].floor \in Nat
      BY <2>1, <2>2, ActiveAttempt DEF ActiveType
    <3> QED
      BY <1>1, <1>2, <2>1, <3>1 DEF AttemptHappened
  <2>3. CASE att'[t].phase # "asking"
    BY <1>2, <2>1, <2>3 DEF AttemptHappened
  <2> QED
    BY <2>2, <2>3
<1>7. \A f \in Feeds : feed'[f].left \subseteq Occurred'
  BY <1>2, <1>3
<1> QED
  BY <1>4, <1>5, <1>6, <1>7 DEF Happened

LEMMA InitHappened == Init => Happened
<1> SUFFICES ASSUME Init PROVE Happened
  OBVIOUS
<1>1. BoxesHappened
  <2> SUFFICES ASSUME NEW b \in Boxes PROVE Stood(b, local[b], srv[b]) /\ Origin <= srv[b]
    BY DEF BoxesHappened
  <2>1. /\ local[b] = Start[b] /\ srv[b] = Larger(Start[b], Origin)
        /\ Start[b] \in Stops(b) \cup {NoPts}
    BY StartAssumption DEF Init, Stops
  <2>2. \A q \in Stops(b) \cup {NoPts} : q \in Int
    BY LogType DEF Stops, Origin, NoPts
  <2>3. Larger(Start[b], Origin) >= Start[b] /\ Larger(Start[b], Origin) >= Origin
    BY <2>1, <2>2 DEF Larger, Origin
  <2>4. Larger(Start[b], Origin) \in Int
    BY <2>1, <2>2 DEF Larger, Origin
  <2> QED
    BY <2>1, <2>2, <2>3, <2>4 DEF Stood, Origin
<1> QED
  BY <1>1, NoAttemptIsOf DEF Happened, HeldHappened, Init, NoFeed

LEMMA HappenedInvariance == Spec => []Happened
<1>1. IInv /\ Happened /\ [Next]_vars => Happened'
  BY HappenedKeeps
<1> QED
  BY <1>1, InitHappened, Invariance, PTL DEF Spec

-----------------------------------------------------------------------------
(* What is judged by arithmetic on positions and steps is what the order   *)
(* of the log says, and the passes of a window apply what Run says.        *)

LEMMA StopType == ASSUME NEW b \in Boxes, NEW l \in Stops(b) PROVE l \in Nat /\ l >= Origin
BY LogType DEF Stops, Origin

(***************************************************************************)
(* For a box at one of its stops: what is counted is seen, what follows on *)
(* is applied, and anything else is behind a gap (judge in state.ts).      *)
(***************************************************************************)
LEMMA VerdictIsOrder ==
  ASSUME NEW b \in Boxes, NEW p \in Log[b], NEW l \in Stops(b)
  PROVE  /\ Judge(l, p, Count[b][p]) = "seen" <=> p <= l
         /\ Judge(l, p, Count[b][p]) = "apply" <=>
               l < p /\ \A q \in Log[b] : q <= l \/ p <= q
<1> DEFINE c == Count[b][p]
<1>1. l \in Nat /\ l >= Origin /\ l # NoPts /\ p \in Nat /\ p > Origin
  BY StopType, LogType DEF NoPts
<1>2. /\ c \in Nat \ {0} /\ p - c \in Stops(b)
      /\ \A q \in Log[b] : q < p => q <= p - c
  BY CountAssumption DEF Stops
<1>3. p - c \in Nat /\ p - c >= Origin
  BY <1>2, StopType
<1> HIDE DEF c
<1>4. l < p => l <= p - c
  BY <1>1, <1>2, <1>3 DEF Stops
<1>5. CASE p <= l
  BY <1>1, <1>2, <1>5 DEF Judge, c
<1>6. CASE l = p - c
  <2>1. l < p /\ Judge(l, p, c) = "apply"
    BY <1>1, <1>2, <1>6 DEF Judge
  <2>2. \A q \in Log[b] : q <= l \/ p <= q
    BY <1>1, <1>2, <1>6, LogType
  <2> QED
    BY <1>1, <2>1, <2>2 DEF c
<1>7. CASE l < p /\ l # p - c
  <2>1. l < p - c /\ p - c < p
    BY <1>1, <1>2, <1>3, <1>4, <1>7
  <2>2. p - c \in Log[b]
    BY <1>1, <1>2, <1>3, <2>1 DEF Stops
  <2>3. Judge(l, p, c) = "gap"
    BY <1>1, <1>2, <1>3, <2>1 DEF Judge
  <2>4. ~(p - c <= l \/ p <= p - c)
    BY <1>1, <1>3, <2>1
  <2> QED
    BY <1>1, <1>7, <2>2, <2>3, <2>4 DEF c
<1> QED
  BY <1>1, <1>5, <1>6, <1>7

(***************************************************************************)
(* Whatever the stream, windows and differences did to where a box stands, *)
(* an update is judged by its place in the log: seen when it is counted,   *)
(* applied when nothing is between, a gap otherwise (judge in state.ts).   *)
(***************************************************************************)
JudgedByOrder ==
    \A b \in Boxes : \A p \in Log[b] :
        LET l == local[b]
            verdict == Judge(l, p, Count[b][p])
        IN  l # NoPts =>
            /\ verdict = "seen" <=> p <= l
            /\ verdict = "apply" <=> l < p /\ \A q \in Log[b] : q <= l \/ p <= q

THEOREM VerdictsAreByOrder == Spec => []JudgedByOrder
<1>1. Happened => JudgedByOrder
  BY VerdictIsOrder DEF Happened, BoxesHappened, Stood, JudgedByOrder
<1> QED
  BY <1>1, HappenedInvariance, PTL

-----------------------------------------------------------------------------
\* What the passes over H have applied once a box that was at l0 stands at l.
Passed(b, l0, H, l) == {p \in Run(b, l0, H) : p <= l}

\* Where the passes over H may have brought a box that was at l0.
OnTheWay(b, l0, H, l) == l = Reached(l0, Passed(b, l0, H, l))

LEMMA WayType ==
  ASSUME NEW b \in Boxes, NEW l0 \in Stops(b) \cup {NoPts}, NEW H \in SUBSET Log[b],
         NEW l, OnTheWay(b, l0, H, l)
  PROVE  \/ l = l0 /\ Passed(b, l0, H, l) = {}
         \/ l \in Passed(b, l0, H, l) /\ l \in Run(b, l0, H) /\ l \in Log[b]
<1> DEFINE P == Passed(b, l0, H, l)
<1>1. P \subseteq Run(b, l0, H) /\ P \in SUBSET Log[b]
  BY DEF Passed, Run
<1> HIDE DEF P
<1>2. CASE P = {}
  BY <1>2 DEF OnTheWay, Reached, P
<1>3. CASE P # {}
  <2>1. P \in SUBSET Nat /\ \A x \in P : x <= MaxPts
    BY <1>1, LogType
  <2>2. Highest(P) \in P
    BY <1>3, <2>1, HighestIsHighest, LogAssumption
  <2>3. l = Highest(P)
    BY <1>3 DEF OnTheWay, Reached, P
  <2> QED
    BY <1>1, <2>2, <2>3 DEF P
<1> QED
  BY <1>2, <1>3

\* What follows on from one that is let through, and is held, is let through.
LEMMA RunGoesOn ==
  ASSUME NEW b \in Boxes, NEW l0 \in Stops(b) \cup {NoPts}, NEW H \in SUBSET Log[b],
         NEW l \in Run(b, l0, H), NEW p \in H, l < p,
         \A q \in Log[b] : q <= p => q <= l \/ q \in H
  PROVE  p \in Run(b, l0, H)
<1> DEFINE from == IF l0 = NoPts THEN Lowest(H) - 1 ELSE l0
<1>1. H # {} /\ Run(b, l0, H) =
        {x \in H : from < x /\ \A q \in Log[b] : from < q /\ q <= x => q \in H}
  BY DEF Run
<1>2. from \in Int
  <2>1. H \in SUBSET Nat
    BY LogType
  <2>2. Lowest(H) \in Nat
    BY <1>1, <2>1, LowestIsLowest
  <2> QED
    BY <2>2, StopType
<1> HIDE DEF from
<1>3. l \in Nat /\ p \in Nat /\ from < l /\ \A q \in Log[b] : from < q /\ q <= l => q \in H
  BY <1>1, LogType
<1>4. from < p
  BY <1>2, <1>3
<1>5. \A q \in Log[b] : from < q /\ q <= p => q \in H
  BY <1>3
<1> QED
  BY <1>1, <1>4, <1>5

\* Behind one that is let through, everything after another that is has been held.
LEMMA RunIsHeld ==
  ASSUME NEW b \in Boxes, NEW l0 \in Stops(b) \cup {NoPts}, NEW H \in SUBSET Log[b],
         NEW l \in Run(b, l0, H), NEW r \in Run(b, l0, H)
  PROVE  \A q \in Log[b] : l < q /\ q <= r => q \in H
<1> DEFINE from == IF l0 = NoPts THEN Lowest(H) - 1 ELSE l0
<1>1. H # {} /\ Run(b, l0, H) =
        {x \in H : from < x /\ \A q \in Log[b] : from < q /\ q <= x => q \in H}
  BY DEF Run
<1>2. from \in Int
  <2>1. H \in SUBSET Nat
    BY LogType
  <2>2. Lowest(H) \in Nat
    BY <1>1, <2>1, LowestIsLowest
  <2> QED
    BY <2>2, StopType
<1> HIDE DEF from
<1>3. l \in Nat /\ from < l /\ \A q \in Log[b] : from < q /\ q <= r => q \in H
  BY <1>1, LogType
<1> QED
  BY <1>2, <1>3, LogType

\* What Run lets through, for a box that has a count.
LEMMA RunFromStop ==
  ASSUME NEW b \in Boxes, NEW H \in SUBSET Log[b], NEW l \in Stops(b)
  PROVE  Run(b, l, H) = {p \in H : l < p /\ \A q \in Log[b] : l < q /\ q <= p => q \in H}
<1>1. l # NoPts
  BY StopType DEF NoPts
<1> QED
  BY <1>1 DEF Run

\* An update that follows on is one Run lets through, and the box comes to stand at it.
LEMMA NextIsInRun ==
  ASSUME NEW b \in Boxes, NEW l0 \in Stops(b) \cup {NoPts}, NEW H \in SUBSET Log[b],
         NEW l, OnTheWay(b, l0, H, l), NEW p \in H,
         Judge(l, p, Count[b][p]) = "apply", l = NoPts => p = Lowest(H)
  PROVE  /\ p \in Run(b, l0, H) /\ Advance(l, p) = p
         /\ Passed(b, l0, H, p) = Passed(b, l0, H, l) \cup {p}
<1> DEFINE R == Run(b, l0, H)
<1>1. R \subseteq H /\ p \in Nat /\ p > Origin /\ \A x \in H : x \in Nat
  BY LogType DEF Run
<1>2. CASE l = NoPts
  <2>1. l0 = NoPts /\ Passed(b, l0, H, l) = {}
    <3>1. l \notin Log[b]
      BY <1>2, LogType DEF NoPts
    <3> QED
      BY <1>2, <3>1, WayType
  <2>2. R = {x \in H : p - 1 < x /\ \A q \in Log[b] : p - 1 < q /\ q <= x => q \in H}
    BY <1>2, <2>1 DEF Run
  <2> HIDE DEF R
  <2>3. \A q \in Log[b] : p - 1 < q /\ q <= p => q = p
    BY <1>1, LogType
  <2>4. p \in R
    BY <1>1, <2>2, <2>3
  <2>5. \A x \in R : x <= p => x = p
    BY <1>1, <2>2
  <2>6. p <= p /\ Advance(l, p) = p
    BY <1>1, <1>2 DEF Advance, Larger, NoPts
  <2>7. Passed(b, l0, H, p) = {p}
    BY <2>4, <2>5, <2>6 DEF Passed, R
  <2> QED
    BY <2>1, <2>4, <2>6, <2>7 DEF R
<1>3. CASE l # NoPts
  <2>1. l \in Stops(b) /\ l \in Nat
    <3>1. l \in Stops(b)
      BY <1>3, WayType DEF Stops
    <3> QED
      BY <3>1, StopType
  <2>2. l < p /\ \A q \in Log[b] : q <= l \/ p <= q
    BY <2>1, VerdictIsOrder
  <2>3. \A q \in Log[b] : q <= p => q <= l \/ q = p
    BY <1>1, <2>2, LogType
  <2>4. p \in R
    <3>1. CASE l = l0
      <4>1. l0 \in Stops(b)
        BY <2>1, <3>1
      <4>2. R = {x \in H : l < x /\ \A q \in Log[b] : l < q /\ q <= x => q \in H}
        BY <3>1, <4>1, RunFromStop
      <4> HIDE DEF R
      <4>3. \A q \in Log[b] : l < q /\ q <= p => q = p
        BY <2>1, <2>3, LogType
      <4> QED
        BY <2>2, <4>2, <4>3
    <3>2. CASE l \in R
      BY <1>1, <2>1, <2>2, <2>3, <3>2, RunGoesOn
    <3> QED
      BY <3>1, <3>2, WayType
  <2> HIDE DEF R
  <2>5. \A x \in R : x <= p <=> x <= l \/ x = p
    BY <1>1, <2>1, <2>2, <2>3
  <2>6. Advance(l, p) = p
    BY <1>1, <2>1, <2>2 DEF Advance, Larger
  <2>7. Passed(b, l0, H, p) = Passed(b, l0, H, l) \cup {p}
    BY <2>4, <2>5 DEF Passed, R
  <2> QED
    BY <2>4, <2>6, <2>7 DEF R
<1> QED
  BY <1>2, <1>3

\* While Run would let more through, the next of it follows on from where the box stands.
LEMMA RunIsNotStuck ==
  ASSUME NEW b \in Boxes, NEW l0 \in Stops(b) \cup {NoPts}, NEW H \in SUBSET Log[b],
         NEW l, OnTheWay(b, l0, H, l), NEW r \in Run(b, l0, H), ~(r <= l)
  PROVE  \E p \in H : Judge(l, p, Count[b][p]) = "apply"
<1>1. r \in H /\ H \in SUBSET Nat
  BY LogType DEF Run
<1>2. CASE l = NoPts
  BY <1>1, <1>2 DEF Judge
<1>3. CASE l # NoPts
  <2> DEFINE Ahead == {p \in H : l < p}
             n == Lowest(Ahead)
  <2>1. l \in Stops(b) /\ l \in Nat
    <3>1. l \in Stops(b)
      BY <1>3, WayType DEF Stops
    <3> QED
      BY <3>1, StopType
  <2>2. r \in Ahead /\ Ahead \in SUBSET Nat
    <3>1. r \in Nat /\ l < r
      BY <1>1, <2>1
    <3> QED
      BY <1>1, <3>1
  <2>3. n \in Ahead /\ \A x \in Ahead : n <= x
    BY <2>2, LowestIsLowest
  <2> HIDE DEF n
  <2>4. n \in H /\ n \in Nat /\ l < n /\ n <= r
    BY <1>1, <2>2, <2>3
  <2>5. \A q \in Log[b] : l < q /\ q <= r => q \in H
    <3>1. CASE l = l0
      <4>1. l0 \in Stops(b)
        BY <2>1, <3>1
      <4>2. r \in {x \in H : l < x /\ \A q \in Log[b] : l < q /\ q <= x => q \in H}
        BY <3>1, <4>1, RunFromStop
      <4> QED
        BY <4>2
    <3>2. CASE l \in Run(b, l0, H)
      BY <2>1, <3>2, RunIsHeld
    <3> QED
      BY <3>1, <3>2, WayType
  <2>6. ASSUME NEW q \in Log[b], l < q
        PROVE  n <= q
    <3>1. CASE q <= r
      BY <2>3, <2>5, <2>6, <3>1
    <3>2. CASE ~(q <= r)
      BY <1>1, <2>4, <3>2, LogType
    <3> QED
      BY <3>1, <3>2
  <2>7. \A q \in Log[b] : q <= l \/ n <= q
    BY <2>1, <2>6, LogType
  <2> QED
    BY <2>1, <2>4, <2>7, VerdictIsOrder
<1> QED
  BY <1>2, <1>3

(***************************************************************************)
(* Run is what the passes of closeWindow compute (drainOnce in manager.ts, *)
(* which goes over what is held in order of position and judges each where *)
(* the box then stands).  For a box at l0 and held updates H: nothing has  *)
(* been applied at first; what is dropped as seen is already behind; each  *)
(* update applied is the next one of Run; and when a pass finds gaps only, *)
(* all of Run has been applied, and what is kept is what lies ahead.       *)
(***************************************************************************)
THEOREM PassesApplyRun ==
  ASSUME NEW b \in Boxes, NEW l0 \in Stops(b) \cup {NoPts}, NEW H \in SUBSET Log[b],
         NEW l, OnTheWay(b, l0, H, l)
  PROVE  /\ OnTheWay(b, l0, H, l0) /\ Passed(b, l0, H, l0) = {}
         /\ \A p \in H : Judge(l, p, Count[b][p]) = "seen" => p <= l
         /\ \A p \in H : Judge(l, p, Count[b][p]) = "apply" /\ (l = NoPts => p = Lowest(H)) =>
               /\ Passed(b, l0, H, Advance(l, p)) = Passed(b, l0, H, l) \cup {p}
               /\ OnTheWay(b, l0, H, Advance(l, p))
         /\ (\A p \in H : Judge(l, p, Count[b][p]) # "apply") =>
               /\ Passed(b, l0, H, l) = Run(b, l0, H)
               /\ l = Reached(l0, Run(b, l0, H))
               /\ {p \in H : Judge(l, p, Count[b][p]) = "gap"} = {p \in H : p > l}
<1>1. OnTheWay(b, l0, H, l0) /\ Passed(b, l0, H, l0) = {}
  <2>1. \A p \in Run(b, l0, H) : ~(p <= l0)
    <3>1. CASE l0 = NoPts
      BY <3>1, LogType DEF Run, NoPts
    <3>2. CASE l0 \in Stops(b)
      <4>1. Run(b, l0, H) =
              {p \in H : l0 < p /\ \A q \in Log[b] : l0 < q /\ q <= p => q \in H}
        BY <3>2, RunFromStop
      <4> QED
        BY <3>2, <4>1, StopType, LogType
    <3> QED
      BY <3>1, <3>2
  <2> QED
    BY <2>1 DEF OnTheWay, Passed, Reached
<1>2. l = NoPts \/ l \in Stops(b)
  BY WayType DEF Stops
<1>3. \A p \in H : Judge(l, p, Count[b][p]) = "seen" => p <= l
  <2>1. CASE l = NoPts
    BY <2>1 DEF Judge
  <2>2. CASE l \in Stops(b)
    BY <2>2, VerdictIsOrder
  <2> QED
    BY <1>2, <2>1, <2>2
<1>4. ASSUME NEW p \in H, Judge(l, p, Count[b][p]) = "apply", l = NoPts => p = Lowest(H)
      PROVE  /\ Passed(b, l0, H, Advance(l, p)) = Passed(b, l0, H, l) \cup {p}
             /\ OnTheWay(b, l0, H, Advance(l, p))
  <2>1. /\ p \in Run(b, l0, H) /\ Advance(l, p) = p
        /\ Passed(b, l0, H, p) = Passed(b, l0, H, l) \cup {p}
    BY <1>4, NextIsInRun
  <2> DEFINE P == Passed(b, l0, H, p)
  <2>2. p \in P /\ P \in SUBSET Nat /\ \A x \in P : x <= p
    BY <2>1, LogType DEF Passed, Run
  <2>3. p \in Nat
    BY LogType
  <2> HIDE DEF P
  <2>4. Highest(P) \in P /\ p <= Highest(P)
    BY <2>2, <2>3, HighestIsHighest
  <2> DEFINE top == Highest(P)
  <2>5. top \in Nat /\ top <= p /\ p <= top
    BY <2>2, <2>4
  <2> HIDE DEF top
  <2>6. top = p
    BY <2>3, <2>5
  <2> QED
    BY <2>1, <2>2, <2>6 DEF OnTheWay, Reached, P, top
<1>5. ASSUME \A p \in H : Judge(l, p, Count[b][p]) # "apply"
      PROVE  /\ Passed(b, l0, H, l) = Run(b, l0, H)
             /\ l = Reached(l0, Run(b, l0, H))
             /\ {p \in H : Judge(l, p, Count[b][p]) = "gap"} = {p \in H : p > l}
  <2>1. Passed(b, l0, H, l) = Run(b, l0, H)
    <3>1. \A r \in Run(b, l0, H) : r <= l
      BY <1>5, RunIsNotStuck
    <3> QED
      BY <3>1 DEF Passed
  <2>2. ASSUME NEW p \in H
        PROVE  Judge(l, p, Count[b][p]) = "gap" <=> p > l
    <3>1. l \in Stops(b) /\ l \in Nat /\ l # NoPts /\ p \in Nat
      BY <1>2, <1>5, StopType, LogType DEF Judge
    <3>2. Judge(l, p, Count[b][p]) \in {"apply", "seen", "gap"}
      BY DEF Judge
    <3> QED
      BY <1>5, <3>1, <3>2, VerdictIsOrder
  <2> QED
    BY <2>1, <2>2 DEF OnTheWay
<1> QED
  BY <1>1, <1>3, <1>4, <1>5

-----------------------------------------------------------------------------
(***************************************************************************)
(* A followed channel: the next ask is arranged or a call that will        *)
(* arrange it is waiting for its answer.  A call that runs out of pages    *)
(* leaves the channel to another that arranges nothing, so what is shown   *)
(* is of differences that do not: every page moves the channel, and there  *)
(* are fewer things to tell of than pages one call follows.                *)
(***************************************************************************)
EnoughPages == ~Stalling /\ \A c \in Channels : Cardinality(Log[c]) < MaxPages

Refreshing(s, c) == Chasing(s) /\ att[s].box = c /\ att[s].refresh

Arranged ==
    /\ \A c \in Channels : watching[c] > 0 =>
          follow[c] \/ \E s \in Attempts : Refreshing(s, c)
    /\ closed => \A c \in Channels : watching[c] = 0

UpTo(b, p) == {q \in Stops(b) : q <= p}

PageCounted(a) ==
    /\ a.phase = "naming" => a.page = 1
    /\ a.box \in Channels /\ a.phase = "asking" =>
          a.asked \in Stops(a.box) /\ a.page <= Cardinality(UpTo(a.box, a.asked))

PagesCounted == \A s \in Attempts : PageCounted(att[s])

\* Each position a page may end at is one more than the one before it.
LEMMA PagesAreCounted ==
  ASSUME NEW c \in Channels, NEW p \in Stops(c)
  PROVE  /\ Cardinality(UpTo(c, p)) \in Nat \ {0}
         /\ \A q \in Stops(c) : q > p => /\ Cardinality(UpTo(c, p)) < Cardinality(UpTo(c, q))
                                      /\ Cardinality(UpTo(c, p)) <= Cardinality(Log[c])
<1>0. c \in Boxes /\ MaxPts \in Nat /\ Log[c] \in SUBSET Nat /\ Origin \in Nat
      /\ \A x \in Log[c] : x > Origin /\ x <= MaxPts
  BY LogType, LogAssumption DEF Boxes, Origin
<1>1. IsFiniteSet(Log[c])
  BY <1>0, FS_BoundedSetOfNaturals
<1>2. IsFiniteSet(Stops(c)) /\ Cardinality(Stops(c)) = Cardinality(Log[c]) + 1
  <2>1. Origin \notin Log[c]
    BY <1>0
  <2> QED
    BY <1>1, <2>1, FS_AddElement DEF Stops
<1>3. \A q : IsFiniteSet(UpTo(c, q)) /\ Cardinality(UpTo(c, q)) \in Nat
  BY <1>2, FS_Subset, FS_CardinalityType DEF UpTo
<1>4. \A q \in Stops(c) : q \in Nat
  BY <1>0 DEF Stops
<1>5. UpTo(c, p) # {}
  BY <1>4 DEF UpTo
<1>6. Cardinality(UpTo(c, p)) \in Nat \ {0}
  BY <1>3, <1>5, FS_EmptySet
<1>7. ASSUME NEW q \in Stops(c), q > p
      PROVE  /\ Cardinality(UpTo(c, p)) < Cardinality(UpTo(c, q))
             /\ Cardinality(UpTo(c, p)) <= Cardinality(Log[c])
  <2>1. UpTo(c, p) \in SUBSET UpTo(c, q) /\ UpTo(c, q) \in SUBSET Stops(c)
    BY <1>4, <1>7 DEF UpTo
  <2>2. UpTo(c, p) # UpTo(c, q)
    BY <1>4, <1>7 DEF UpTo
  <2>3. Cardinality(UpTo(c, p)) < Cardinality(UpTo(c, q))
    BY <1>3, <2>1, <2>2, FS_Subset
  <2>4. Cardinality(UpTo(c, q)) <= Cardinality(Stops(c))
    BY <1>2, <2>1, FS_Subset
  <2>5. Cardinality(Log[c]) \in Nat
    BY <1>1, FS_CardinalityType
  <2> QED
    BY <1>2, <1>3, <2>3, <2>4, <2>5
<1> QED
  BY <1>6, <1>7

\* A channel's call never runs out of pages.
LEMMA SliceIsCounted ==
  ASSUME EnoughPages, IInv, PagesCounted, NEW s \in Attempts,
         NEW upto \in Stops(att[s].box), NEW number, AnswerSlice(s, upto, number),
         att[s].box \in Channels
  PROVE  /\ att' = [att EXCEPT ![s].asked = upto, ![s].floor = srv[att[s].box],
                                ![s].page = @ + 1]
         /\ PageCounted(att'[s])
<1> DEFINE c == att[s].box
           p == att[s].asked
           new == [att[s] EXCEPT !.asked = upto, !.floor = srv[c], !.page = @ + 1]
<1>0. att \in [Attempts -> AttemptType] /\ att[s].phase = "asking"
  BY DEF IInv, TypeOK, AnswerSlice, Answered
<1>1. att[s] \in ActiveType
  BY <1>0, ActiveAttempt
<1>2. p \in Stops(c) /\ att[s].page <= Cardinality(UpTo(c, p)) /\ att[s].page \in Nat
  BY <1>0, <1>1 DEF PagesCounted, PageCounted, ActiveType
<1>3. upto > p
  BY DEF AnswerSlice, EnoughPages
<1>4. /\ Cardinality(UpTo(c, p)) < Cardinality(UpTo(c, upto))
      /\ Cardinality(UpTo(c, p)) <= Cardinality(Log[c])
      /\ Cardinality(UpTo(c, p)) \in Nat
  BY <1>2, <1>3, PagesAreCounted
<1>5. Cardinality(UpTo(c, upto)) \in Nat
  BY PagesAreCounted
<1>6. Cardinality(Log[c]) \in Nat
  <2>1. Log[c] \in SUBSET Nat /\ MaxPts \in Nat /\ \A x \in Log[c] : x <= MaxPts
    BY LogType, LogAssumption DEF Boxes
  <2> QED
    BY <2>1, FS_BoundedSetOfNaturals, FS_CardinalityType
<1>7. att[s].page < MaxPages
  BY <1>2, <1>4, <1>6, BoundAssumption DEF EnoughPages
<1>8. att' = [att EXCEPT ![s].asked = upto, ![s].floor = srv[att[s].box], ![s].page = @ + 1]
  BY <1>7, BoundAssumption DEF AnswerSlice
<1>9. /\ new.phase = "asking" /\ new.box = c /\ new.asked = upto
      /\ new.page = att[s].page + 1
  BY <1>0, <1>1 DEF ActiveType
<1>10. att[s].page + 1 <= Cardinality(UpTo(c, upto))
  BY <1>2, <1>4, <1>5
<1>11. att'[s] = new
  BY <1>0, <1>8
<1> HIDE DEF new
<1>12. PageCounted(att'[s])
  BY <1>9, <1>10, <1>11 DEF PageCounted
<1> QED
  BY <1>8, <1>12

\* What no step takes from a channel followed: an ask arranged, or a call that will arrange it.
GoesOn(c) ==
    watching'[c] > 0 =>
        /\ watching[c] > 0
        /\ follow[c] => follow'[c]
        /\ \A s \in Attempts : Refreshing(s, c) => follow'[c] \/ Refreshing(s, c)'

LEMMA OneAttemptCounted ==
  ASSUME IInv, PagesCounted, NEW s \in Attempts, NEW new, PageCounted(new),
         att' = [att EXCEPT ![s] = new]
  PROVE  PagesCounted'
<1>1. att'[s] = new /\ \A t \in Attempts \ {s} : att'[t] = att[t]
  BY DEF IInv, TypeOK
<1>2. \A t \in Attempts : PageCounted(att'[t])
  BY <1>1 DEF PagesCounted
<1> QED
  BY <1>2 DEF PagesCounted, PageCounted

LEMMA BegunCounted ==
  ASSUME NEW b \in Boxes, NEW entry, NEW refresh, NEW l
  PROVE  PageCounted(Begun(b, entry, refresh, l))
BY BoxAssumption DEF Begun, PageCounted

\* A step that changes one attempt, idle before or not refreshing, and arranges no less.
LEMMA OthersGoOn ==
  ASSUME IInv, NEW s \in Attempts, NEW new, att' = [att EXCEPT ![s] = new],
         NEW c \in Channels, ~Refreshing(s, c), UNCHANGED following
  PROVE  GoesOn(c)
<1>1. \A t \in Attempts \ {s} : att'[t] = att[t]
  BY DEF IInv, TypeOK
<1>2. ASSUME NEW t \in Attempts, Refreshing(t, c)
      PROVE  Refreshing(t, c)'
  BY <1>1, <1>2 DEF Refreshing, Chasing
<1> QED
  BY <1>2 DEF GoesOn, following

LEMMA FreeIsQuiet ==
  ASSUME NEW s \in Attempts, Free(s)
  PROVE  att[s].phase = "idle" /\ \A c : ~Refreshing(s, c)
BY DEF Free, Refreshing, Chasing

\* A call that is over arranges the next ask of a channel still followed.
LEMMA CompletedGoesOn ==
  ASSUME IInv, Arranged, PagesCounted, NEW s \in Attempts, Completed(s), UNCHANGED closed,
         att[s].phase = "asking"
  PROVE  PagesCounted' /\ \A c \in Channels : GoesOn(c)
<1> DEFINE new == [att[s] EXCEPT !.phase = "draining", !.todo = held[att[s].entry]]
<1>0. att \in [Attempts -> AttemptType] /\ follow \in [Channels -> BOOLEAN]
      /\ watching \in [Channels -> Nat]
  BY DEF IInv, TypeOK
<1>1. att[s] \in ActiveType
  BY <1>0, ActiveAttempt
<1>2. att' = [att EXCEPT ![s] = new] /\ new.phase = "draining"
  BY <1>1 DEF Completed, ActiveType
<1> HIDE DEF new
<1>3. PagesCounted'
  BY <1>2, OneAttemptCounted DEF PageCounted
<1>4. ASSUME NEW c \in Channels, watching'[c] > 0
      PROVE  GoesOn(c)
  <2>1. watching[c] > 0 /\ ~closed
    BY <1>0, <1>4 DEF Completed, Arranged
  <2>2. follow[c] => follow'[c]
    BY <1>0 DEF Completed, FollowAgain
  <2>3. ASSUME NEW t \in Attempts, Refreshing(t, c)
        PROVE  follow'[c] \/ Refreshing(t, c)'
    <3>1. CASE t # s
      <4>1. att'[t] = att[t]
        BY <1>0, <1>2, <3>1
      <4> QED
        BY <2>3, <4>1 DEF Refreshing, Chasing
    <3>2. CASE t = s
      <4>1. att[s].box = c
        BY <2>3, <3>2 DEF Refreshing
      <4>2. follow' = [follow EXCEPT ![c] = TRUE]
        BY <2>1, <4>1 DEF Completed, FollowAgain
      <4> QED
        BY <1>0, <4>2
    <3> QED
      BY <3>1, <3>2
  <2> QED
    BY <2>1, <2>2, <2>3 DEF GoesOn
<1>5. \A c \in Channels : GoesOn(c)
  BY <1>4 DEF GoesOn
<1> QED
  BY <1>3, <1>5

\* So does one that has thrown, or it lets the channel go.
LEMMA EndedGoesOn ==
  ASSUME IInv, Arranged, PagesCounted, NEW s \in Attempts,
         AnswerPrivate(s) \/ CatchUpFails(s) \/ Saved(s) \/ Drained(s)
  PROVE  PagesCounted' /\ \A c \in Channels : GoesOn(c)
<1>0. att \in [Attempts -> AttemptType] /\ follow \in [Channels -> BOOLEAN]
      /\ watching \in [Channels -> Nat]
  BY DEF IInv, TypeOK
<1>1. att' = [att EXCEPT ![s] = NoAttempt] /\ UNCHANGED closed
  BY DEF AnswerPrivate, CatchUpFails, Saved, Drained
<1>2. PagesCounted'
  <2>1. PageCounted(NoAttempt)
    BY DEF PageCounted, NoAttempt
  <2> QED
    BY <1>1, <2>1, OneAttemptCounted
<1>3. \/ RefreshThrew(s)
      \/ AnswerPrivate(s) /\ RefreshReturned(s, gone') /\ att[s].box \in gone'
      \/ ~Chasing(s) /\ RefreshReturned(s, gone)
  BY DEF AnswerPrivate, CatchUpFails, Saved, Drained, Chasing
<1>4. ASSUME NEW c \in Channels, watching'[c] > 0
      PROVE  GoesOn(c)
  <2>1. watching[c] > 0 /\ (follow[c] => follow'[c]) /\ (~closed)
    BY <1>0, <1>3, <1>4 DEF RefreshThrew, RefreshReturned, FollowAgain, following, Arranged
  <2>2. ASSUME NEW t \in Attempts, Refreshing(t, c)
        PROVE  follow'[c] \/ Refreshing(t, c)'
    <3>1. CASE t # s
      <4>1. att'[t] = att[t]
        BY <1>0, <1>1, <3>1
      <4> QED
        BY <2>2, <4>1 DEF Refreshing, Chasing
    <3>2. CASE t = s
      <4>1. att[s].box = c /\ att[s].refresh /\ Chasing(s)
        BY <2>2, <3>2 DEF Refreshing
      <4>2. CASE RefreshThrew(s)
        <5>1. follow' = [follow EXCEPT ![c] = TRUE]
          BY <2>1, <4>1, <4>2 DEF RefreshThrew, FollowAgain
        <5> QED
          BY <1>0, <5>1
      <4>3. CASE RefreshReturned(s, gone') /\ att[s].box \in gone'
        <5>1. watching' = [watching EXCEPT ![c] = 0]
          BY <4>1, <4>3 DEF RefreshReturned
        <5> QED
          BY <1>0, <1>4, <5>1
      <4> QED
        BY <1>3, <4>1, <4>2, <4>3
    <3> QED
      BY <3>1, <3>2
  <2> QED
    BY <2>1, <2>2 DEF GoesOn
<1>5. \A c \in Channels : GoesOn(c)
  BY <1>4 DEF GoesOn
<1> QED
  BY <1>2, <1>5

LEMMA SliceGoesOn ==
  ASSUME EnoughPages, IInv, PagesCounted, NEW s \in Attempts,
         NEW upto \in Stops(att[s].box), NEW number, AnswerSlice(s, upto, number)
  PROVE  PagesCounted' /\ \A c \in Channels : GoesOn(c)
<1> DEFINE b == att[s].box
           next == [att[s] EXCEPT !.asked = upto, !.floor = srv[b], !.page = @ + 1]
           last == [att[s] EXCEPT !.phase = "saving"]
<1>0. att \in [Attempts -> AttemptType] /\ att[s].phase = "asking" /\ UNCHANGED following
  BY DEF IInv, TypeOK, AnswerSlice, Answered
<1>1. att[s] \in ActiveType
  BY <1>0, ActiveAttempt
<1>2. att' = [att EXCEPT ![s] = next] \/ att' = [att EXCEPT ![s] = last]
  BY DEF AnswerSlice
<1>3. b \in Channels => att'[s] = next /\ PageCounted(att'[s])
  <2>1. b \in Channels => /\ att' = [att EXCEPT ![s].asked = upto, ![s].floor = srv[b],
                                               ![s].page = @ + 1]
                          /\ PageCounted(att'[s])
    BY SliceIsCounted
  <2> QED
    BY <1>0, <2>1
<1>4. /\ next.box = b /\ next.phase = "asking" /\ next.refresh = att[s].refresh
      /\ last.box = b /\ last.phase = "saving"
  BY <1>0, <1>1 DEF ActiveType
<1> HIDE DEF next, last
<1>5. att'[s] \in {next, last} /\ \A t \in Attempts \ {s} : att'[t] = att[t]
  BY <1>0, <1>2
<1>6. PageCounted(att'[s])
  BY <1>3, <1>4, <1>5 DEF PageCounted
<1>7. PagesCounted'
  BY <1>2, <1>5, <1>6, OneAttemptCounted
<1>8. ASSUME NEW c \in Channels
      PROVE  GoesOn(c)
  <2>1. ASSUME NEW t \in Attempts, Refreshing(t, c)
        PROVE  Refreshing(t, c)'
    <3>1. CASE t # s
      BY <1>5, <2>1, <3>1 DEF Refreshing, Chasing
    <3>2. CASE t = s
      <4>1. b = c /\ att[s].refresh
        BY <2>1, <3>2 DEF Refreshing
      <4>2. att'[s] = next
        BY <1>0, <1>3, <4>1
      <4> QED
        BY <1>4, <3>2, <4>1, <4>2 DEF Refreshing, Chasing
    <3> QED
      BY <3>1, <3>2
  <2> QED
    BY <1>0, <2>1 DEF GoesOn, following
<1> QED
  BY <1>7, <1>8

LEMMA BeginGoesOn ==
  ASSUME IInv, Happened, PagesCounted, NEW s \in Attempts,
         Overflow(s) \/ Recover(s) \/ Name(s) \/ Drain(s) \/ \E b \in Boxes : WindowEnds(b, s)
  PROVE  PagesCounted' /\ \A c \in Channels : GoesOn(c)
<1>0. att \in [Attempts -> AttemptType] /\ Common \in Boxes /\ UNCHANGED following
  BY DEF IInv, TypeOK, Boxes, Overflow, Recover, Name, Drain, WindowEnds
<1>1. ASSUME Free(s), NEW b \in Boxes, NEW entry, NEW l,
             att' = [att EXCEPT ![s] = Begun(b, entry, FALSE, l)]
      PROVE  PagesCounted' /\ \A c \in Channels : GoesOn(c)
  BY <1>0, <1>1, FreeIsQuiet, BegunCounted, OneAttemptCounted, OthersGoOn
<1>2. CASE Overflow(s) \/ Recover(s)
  <2>1. Free(s) /\ \E entry : att' = [att EXCEPT ![s] = Begun(Common, entry, FALSE, local[Common])]
    BY <1>2 DEF Overflow, Recover, Recovering
  <2> QED
    BY <1>0, <1>1, <2>1
<1>3. ASSUME NEW b \in Boxes, WindowEnds(b, s)
      PROVE  PagesCounted' /\ \A c \in Channels : GoesOn(c)
  <2>1. CASE UNCHANGED att
    BY <1>0, <2>1 DEF PagesCounted, GoesOn, Refreshing, Chasing, following
  <2>2. CASE Free(s) /\ \E l : att' = [att EXCEPT ![s] = Begun(b, s, FALSE, l)]
    BY <1>1, <2>2
  <2> QED
    BY <1>3, <2>1, <2>2 DEF WindowEnds
<1>4. CASE Name(s)
  <2> DEFINE b == att[s].box
             new == [att[s] EXCEPT !.phase = "asking", !.asked = AskFrom(local[b]),
                                   !.floor = srv[b]]
  <2>0. att[s] \in ActiveType /\ att[s].phase = "naming"
    BY <1>0, <1>4, ActiveAttempt DEF Name
  <2>1. b \in Boxes
    BY <2>0 DEF ActiveType
  <2>2. AskFrom(local[b]) \in Stops(b)
    BY <2>1 DEF Happened, BoxesHappened, Stood, AskFrom, Stops
  <2>3. att' = [att EXCEPT ![s] = new]
    BY <1>4 DEF Name
  <2>4. att[s].page = 1
    BY <2>0 DEF PagesCounted, PageCounted
  <2>5. /\ new.phase = "asking" /\ new.box = b /\ new.refresh = att[s].refresh
        /\ new.asked = AskFrom(local[b]) /\ new.page = 1
    BY <2>0, <2>4 DEF ActiveType
  <2> HIDE DEF new
  <2>6. b \in Channels => 1 <= Cardinality(UpTo(b, AskFrom(local[b])))
    BY <2>2, PagesAreCounted
  <2>7. PagesCounted'
    BY <2>2, <2>3, <2>5, <2>6, OneAttemptCounted DEF PageCounted
  <2>8. att'[s] = new /\ \A t \in Attempts \ {s} : att'[t] = att[t]
    BY <1>0, <2>3
  <2>9. \A c \in Channels, t \in Attempts : Refreshing(t, c) => Refreshing(t, c)'
    BY <2>5, <2>8 DEF Refreshing, Chasing
  <2> QED
    BY <1>0, <2>7, <2>9 DEF GoesOn, following
<1>5. CASE Drain(s)
  <2>0. att[s] \in ActiveType /\ att[s].phase = "draining"
    BY <1>0, <1>5, ActiveAttempt DEF Drain
  <2>1. PICK e : att' = [att EXCEPT ![s].todo = @ \ {e}]
    BY <1>5 DEF Drain
  <2> DEFINE new == [att[s] EXCEPT !.todo = @ \ {e}]
  <2>2. att' = [att EXCEPT ![s] = new]
    BY <2>1
  <2>3. new.phase = "draining"
    BY <2>0 DEF ActiveType
  <2> HIDE DEF new
  <2>4. PagesCounted'
    BY <2>2, <2>3, OneAttemptCounted DEF PageCounted
  <2>5. \A c \in Channels : ~Refreshing(s, c)
    BY <2>0 DEF Refreshing, Chasing
  <2> QED
    BY <1>0, <2>2, <2>4, <2>5, OthersGoOn
<1> QED
  BY <1>2, <1>3, <1>4, <1>5

\* Following a channel starts the asking, and so does the interval that has passed.
LEMMA FollowArranges ==
  ASSUME IInv, Arranged, PagesCounted, Follow
  PROVE  PagesCounted' /\ Arranged'
<1>0. /\ att \in [Attempts -> AttemptType] /\ follow \in [Channels -> BOOLEAN]
      /\ watching \in [Channels -> Nat] /\ Watchable \subseteq Channels
      /\ Channels \subseteq Boxes
  BY BoundAssumption DEF IInv, TypeOK, Boxes
<1>1. UNCHANGED closed
  BY DEF Follow, Refresh, WatchChannel, UnwatchChannel
<1>2. ASSUME NEW c \in Channels, NEW s \in Attempts, NEW l, Recovering(s, c, TRUE, l)
      PROVE  /\ PagesCounted' /\ Refreshing(s, c)'
             /\ \A t \in Attempts, d \in Channels : Refreshing(t, d) => Refreshing(t, d)'
  <2>1. Free(s) /\ c \in Boxes
    BY <1>0, <1>2 DEF Recovering
  <2>2. PICK entry : att' = [att EXCEPT ![s] = Begun(c, entry, TRUE, l)]
    BY <1>2 DEF Recovering
  <2>3. PagesCounted'
    BY <2>1, <2>2, BegunCounted, OneAttemptCounted
  <2>4. att'[s] = Begun(c, entry, TRUE, l) /\ \A t \in Attempts \ {s} : att'[t] = att[t]
    BY <1>0, <2>2
  <2>5. Refreshing(s, c)'
    BY <2>4, BoxAssumption DEF Begun, Refreshing, Chasing
  <2>6. \A t \in Attempts, d \in Channels : Refreshing(t, d) => Refreshing(t, d)'
    BY <2>1, <2>4, FreeIsQuiet DEF Refreshing, Chasing
  <2> QED
    BY <2>3, <2>5, <2>6
<1>3. ASSUME NEW c \in Channels, UnwatchChannel(c)
      PROVE  PagesCounted' /\ Arranged'
  <2>1. UNCHANGED att
    BY <1>3 DEF UnwatchChannel
  <2>2. PagesCounted'
    BY <2>1 DEF PagesCounted
  <2>3. /\ ~closed
        /\ watching' = [watching EXCEPT ![c] = @ - 1]
        /\ follow' = [follow EXCEPT ![c] = @ /\ watching[c] > 1]
    BY <1>3 DEF UnwatchChannel, Arranged
  <2>4. ASSUME NEW d \in Channels, watching'[d] > 0
        PROVE  follow'[d] \/ \E s \in Attempts : Refreshing(s, d)'
    <3>1. watching[d] > 0 /\ (d = c => watching[c] > 1)
      BY <1>0, <2>3, <2>4
    <3>2. follow[d] => follow'[d]
      BY <1>0, <2>3, <3>1
    <3> QED
      BY <2>1, <3>1, <3>2 DEF Arranged, Refreshing, Chasing
  <2> QED
    BY <1>1, <2>2, <2>3, <2>4 DEF Arranged
<1>4. ASSUME NEW c \in Channels, NEW s \in Attempts, Refresh(c, s)
      PROVE  PagesCounted' /\ Arranged'
  <2>1. /\ Recovering(s, c, TRUE, local[c])
        /\ follow' = [follow EXCEPT ![c] = FALSE] /\ UNCHANGED watching
    BY <1>4 DEF Refresh
  <2>2. /\ PagesCounted' /\ Refreshing(s, c)'
        /\ \A t \in Attempts, d \in Channels : Refreshing(t, d) => Refreshing(t, d)'
    BY <1>2, <2>1
  <2>3. \A d \in Channels \ {c} : follow'[d] = follow[d]
    BY <1>0, <2>1
  <2> QED
    BY <1>1, <2>1, <2>2, <2>3 DEF Arranged
<1>5. ASSUME NEW c \in Channels, NEW s \in Attempts, NEW pts, WatchChannel(c, pts, s)
      PROVE  PagesCounted' /\ Arranged'
  <2>1. /\ watching' = [watching EXCEPT ![c] = @ + 1] /\ UNCHANGED follow
        /\ ~closed
    BY <1>5 DEF WatchChannel
  <2>2. \A d \in Channels \ {c} : watching'[d] = watching[d]
    BY <1>0, <2>1
  <2>3. CASE watching[c] > 0 /\ UNCHANGED att
    BY <1>1, <2>1, <2>2, <2>3 DEF Arranged, PagesCounted, Refreshing, Chasing
  <2>4. CASE \E l : Recovering(s, c, TRUE, l)
    <3>1. /\ PagesCounted' /\ Refreshing(s, c)'
          /\ \A t \in Attempts, d \in Channels : Refreshing(t, d) => Refreshing(t, d)'
      BY <1>2, <2>4
    <3> QED
      BY <1>1, <2>1, <2>2, <3>1 DEF Arranged
  <2> QED
    BY <1>5, <2>3, <2>4 DEF WatchChannel
<1> QED
  BY <1>0, <1>3, <1>4, <1>5 DEF Follow

LEMMA ArrangedKeeps ==
  ASSUME EnoughPages, IInv, Happened, Arranged, PagesCounted, [Next]_vars
  PROVE  PagesCounted' /\ Arranged'
<1>1. ASSUME UNCHANGED closed, \A c \in Channels : GoesOn(c)
      PROVE  Arranged'
  <2>1. ASSUME NEW c \in Channels, watching'[c] > 0
        PROVE  follow'[c] \/ \E s \in Attempts : Refreshing(s, c)'
    BY <1>1, <2>1 DEF GoesOn, Arranged
  <2>2. closed' => \A c \in Channels : watching'[c] = 0
    <3>1. watching' \in [Channels -> Nat]
      BY NextKeeps DEF IInv, TypeOK
    <3> QED
      BY <1>1, <3>1 DEF GoesOn, Arranged
  <2> QED
    BY <2>1, <2>2 DEF Arranged
<1>2. CASE Follow
  BY <1>2, FollowArranges
<1>3. CASE Close
  <2>1. UNCHANGED att /\ watching' = [c \in Channels |-> 0]
    BY <1>3 DEF Close
  <2> QED
    BY <2>1 DEF PagesCounted, Arranged
<1>4. CASE Environment \/ UNCHANGED vars
  <2>1. UNCHANGED <<att, following, closed>>
    BY <1>4 DEF Environment, Happen, LeaveOrJoin, vars, following
  <2> QED
    BY <2>1 DEF PagesCounted, Arranged, Refreshing, Chasing, following
<1>5. CASE Stream
  <2>1. UNCHANGED <<att, following, closed>>
    BY <1>5 DEF Stream, Feed, FeedStep, FeedFails, FeedSeen, FeedGap, FeedConsume, FeedDone,
                Absorb, AbsorbPosition
  <2> QED
    BY <2>1 DEF PagesCounted, Arranged, Refreshing, Chasing, following
<1>6. ASSUME NEW s \in Attempts, Chase(s)
      PROVE  PagesCounted' /\ \A c \in Channels : GoesOn(c)
  <2>1. CASE \/ \E number : AnswerEmpty(s, number)
             \/ \E number, upto : AnswerFinal(s, upto, number)
             \/ \E upto : AnswerTooLong(s, upto)
    <3>1. Completed(s) /\ att[s].phase = "asking" /\ UNCHANGED closed
      BY <2>1 DEF AnswerEmpty, AnswerFinal, AnswerTooLong, Answered
    <3> QED
      BY <3>1, CompletedGoesOn
  <2>2. CASE \E number : \E upto \in Stops(att[s].box) : AnswerSlice(s, upto, number)
    BY <2>2, SliceGoesOn
  <2>3. CASE AnswerPrivate(s) \/ CatchUpFails(s) \/ Saved(s) \/ Drained(s)
    BY <2>3, EndedGoesOn
  <2>4. CASE Overflow(s) \/ Recover(s) \/ Name(s) \/ Drain(s) \/ \E b \in Boxes : WindowEnds(b, s)
    BY <2>4, BeginGoesOn
  <2>5. CASE Answer(s)
    <3>1. \/ \E number : AnswerEmpty(s, number)
          \/ \E number : \E upto \in Stops(att[s].box) : AnswerFinal(s, upto, number)
          \/ \E number : \E upto \in Stops(att[s].box) : AnswerSlice(s, upto, number)
          \/ \E upto : AnswerTooLong(s, upto)
          \/ AnswerPrivate(s)
      BY <2>5 DEF Answer
    <3> QED
      BY <2>1, <2>2, <2>3, <3>1
  <2> QED
    BY <1>6, <2>3, <2>4, <2>5 DEF Chase
<1>7. ASSUME NEW s \in Attempts, Chase(s)
      PROVE  UNCHANGED closed
  BY <1>7 DEF Chase, Overflow, WindowEnds, Recover, Name, Answer, AnswerEmpty, AnswerFinal,
              AnswerSlice, AnswerTooLong, AnswerPrivate, CatchUpFails, Saved, Drain, Drained
<1> QED
  BY <1>1, <1>2, <1>3, <1>4, <1>5, <1>6, <1>7 DEF Next

(***************************************************************************)
(* A followed channel goes on being asked about, whatever fails, as long   *)
(* as a difference of a channel does not run out of pages.                 *)
(***************************************************************************)
THEOREM FollowingGoesOn == ASSUME EnoughPages PROVE Spec => []FollowedIsAsked
<1>1. Init => Arranged /\ PagesCounted
  BY DEF Init, Arranged, PagesCounted, PageCounted, NoAttempt
<1>2. IInv /\ Happened /\ Arranged /\ PagesCounted /\ [Next]_vars
         => (Arranged /\ PagesCounted)'
  BY ArrangedKeeps
<1>3. IInv /\ Arranged => FollowedIsAsked
  BY DEF IInv, TypeOK, Arranged, FollowedIsAsked, Refreshing, Chasing
<1> QED
  BY <1>1, <1>2, <1>3, Invariance, HappenedInvariance, PTL DEF Spec

-----------------------------------------------------------------------------
(***************************************************************************)
(* A box that nothing but its own gaps has asked about: no caller follows  *)
(* it, and no overflow or new session has it asked about besides.          *)
(***************************************************************************)
GapsOnly(b) == (b = Common => Causes = {}) /\ b \notin Watchable

Chases(s, b) == Chasing(s) /\ att[s].box = b

\* One call chases it, the one its entry is of, and no window of it is open meanwhile.
AloneIn(b) ==
    \A s \in Attempts : Chases(s, b) =>
        /\ ~closed => catching[b] = s
        /\ pending[b] = "none"
        /\ \A t \in Attempts : Chases(t, b) => t = s

\* ... and the box stands where that call asks from.
Unmoved(b) ==
    \A s \in Attempts : ~closed /\ Chases(s, b) /\ att[s].phase = "asking" =>
        local[b] \in {att[s].asked, NoPts}

Lone(b) == AloneIn(b) /\ Unmoved(b)

ClosedIsStill == closed => \A b \in Boxes : pending[b] = "none"

\* A step after which whoever chases b does what it did, with b where it was.
Undisturbed(b) ==
    \A s \in Attempts : Chases(s, b)' =>
        /\ att'[s] = att[s]
        /\ pending'[b] = pending[b] \/ pending'[b] = "none"
        /\ closed' \/ (~closed /\ catching'[b] = catching[b] /\ local'[b] = local[b])

LEMMA UndisturbedStays ==
  ASSUME NEW b \in Boxes, Lone(b), Undisturbed(b)
  PROVE  Lone(b)'
<1>1. \A s \in Attempts : Chases(s, b)' => Chases(s, b)
  BY DEF Undisturbed, Chases, Chasing
<1>2. AloneIn(b)'
  BY <1>1 DEF Lone, AloneIn, Undisturbed
<1>3. Unmoved(b)'
  BY <1>1 DEF Lone, Unmoved, Undisturbed
<1> QED
  BY <1>2, <1>3 DEF Lone

LEMMA NoneIsNoAttempt ==
  ASSUME NEW s \in Attempts
  PROVE  s # None
BY BoxAssumption

\* Consuming neither moves a box that is chased nor arranges a catch-up of it.
LEMMA ConsumeIsQuiet ==
  ASSUME IInv, ClosedIsStill, NEW b \in Boxes, Lone(b), NEW e \in Events, NEW R, Consume(e, R),
         UNCHANGED <<catching, closed>>,
         \A s \in Attempts : Chases(s, b)' => att'[s] = att[s]
  PROVE  Undisturbed(b)
<1>0. StreamType /\ WindowType /\ catching \in [Boxes -> Attempts \cup {None}] /\ e[1] \in Boxes
      /\ closed \in BOOLEAN
  BY TypeParts, EventParts DEF IInv, OtherType
<1>1. SUFFICES ASSUME NEW s \in Attempts, Chases(s, b)'
               PROVE  /\ att'[s] = att[s]
                      /\ pending'[b] = pending[b] \/ pending'[b] = "none"
                      /\ closed' \/ (~closed /\ catching'[b] = catching[b] /\ local'[b] = local[b])
  BY DEF Undisturbed
<1>2. att'[s] = att[s] /\ Chases(s, b)
  BY <1>1 DEF Chases, Chasing
<1>3. ~closed => catching[b] # None
  BY <1>2, NoneIsNoAttempt DEF Lone, AloneIn
<1>4. pending'[b] = pending[b] \/ pending'[b] = "none"
  BY <1>0, <1>3, ConsumeHolds
<1>5. ~closed => local'[b] = local[b]
  BY <1>0, <1>3, ConsumeMoves
<1> QED
  BY <1>0, <1>2, <1>4, <1>5

\* A call that is over leaves no other chasing its box.
LEMMA EndIsQuiet ==
  ASSUME IInv, NEW s \in Attempts, NEW new, att' = [att EXCEPT ![s] = new],
         ~(new.phase \in {"naming", "asking"}), UNCHANGED closed,
         NEW b \in Boxes, Lone(b),
         Chases(s, b) \/ UNCHANGED <<catching[b], local[b], pending[b]>>
  PROVE  Undisturbed(b)
<1>1. att'[s] = new /\ \A t \in Attempts \ {s} : att'[t] = att[t]
  BY DEF IInv, TypeOK
<1>2. SUFFICES ASSUME NEW t \in Attempts, Chases(t, b)'
               PROVE  /\ att'[t] = att[t]
                      /\ UNCHANGED <<catching[b], local[b], pending[b]>>
  BY DEF Undisturbed, IInv, TypeOK
<1>3. t # s
  BY <1>1, <1>2 DEF Chases, Chasing
<1>4. att'[t] = att[t] /\ Chases(t, b)
  BY <1>1, <1>2, <1>3 DEF Chases, Chasing
<1>5. ~Chases(s, b)
  BY <1>3, <1>4 DEF Lone, AloneIn
<1> QED
  BY <1>4, <1>5

\* A call made for another box leaves this one alone.
LEMMA BeginIsQuiet ==
  ASSUME IInv, NEW s \in Attempts, NEW new, att' = [att EXCEPT ![s] = new],
         Free(s), UNCHANGED closed, NEW b \in Boxes, new.box # b,
         UNCHANGED <<catching[b], local[b], pending[b]>>
  PROVE  Undisturbed(b)
<1>1. att'[s] = new /\ \A t \in Attempts \ {s} : att'[t] = att[t]
  BY DEF IInv, TypeOK
<1> QED
  BY <1>1 DEF Undisturbed, Chases, IInv, TypeOK

LEMMA StreamIsQuiet ==
  ASSUME IInv, ClosedIsStill, Stream, NEW b \in Boxes, Lone(b)
  PROVE  Undisturbed(b)
<1>0. UNCHANGED <<catching, att, closed>> /\ closed \in BOOLEAN /\ WindowType
      /\ catching \in [Boxes -> Attempts \cup {None}] /\ feed \in [Feeds -> FeedType]
      /\ Common \in Boxes
  BY TypeParts DEF Stream, Feed, FeedStep, FeedFails, FeedSeen, FeedGap, FeedConsume, FeedDone,
         Absorb, AbsorbPosition, IInv, OtherType, Boxes
<1>1. CASE \E e \in Events : \E R : Consume(e, R)
  BY <1>0, <1>1, ConsumeIsQuiet
<1>2. CASE UNCHANGED <<local, pending>>
  BY <1>0, <1>2 DEF Undisturbed
<1>3. ASSUME NEW f \in Feeds, FeedGap(f)
      PROVE  Undisturbed(b)
  <2>1. /\ feed[f].left \in SUBSET Events /\ held \in [Attempts -> SUBSET Events]
        /\ catching[Common] \in Attempts \cup {None}
    BY <1>0 DEF FeedType, WindowType
  <2>2. QueueCatchUp(Common, feed[f].left, FALSE, catching[Common], held) /\ UNCHANGED local
    BY <1>3 DEF FeedGap, sequence
  <2>3. pending'[b] = pending[b] \/ (catching[b] = None /\ ~closed)
    BY <1>0, <2>1, <2>2, QueueHolds
  <2>4. \A s \in Attempts : Chases(s, b)' => Chases(s, b)
    BY <1>0 DEF Chases, Chasing
  <2>5. \A s \in Attempts : Chases(s, b) => pending'[b] = pending[b]
    BY <2>3, NoneIsNoAttempt DEF Lone, AloneIn
  <2> QED
    BY <1>0, <2>2, <2>4, <2>5 DEF Undisturbed
<1>4. CASE \E e \in Occurred : AbsorbPosition(e)
  BY <1>1, <1>4 DEF AbsorbPosition, Occurred
<1>5. ASSUME NEW f \in Feeds, FeedConsume(f)
      PROVE  Undisturbed(b)
  BY <1>0, <1>1, <1>5 DEF FeedConsume, FeedType
<1>6. ASSUME NEW f \in Feeds, FeedStep(f)
      PROVE  Undisturbed(b)
  BY <1>2, <1>3, <1>5, <1>6 DEF FeedStep, FeedFails, FeedSeen, FeedDone, sequence, windows
<1>7. ASSUME NEW f, NEW U, NEW start, NEW number,
             Feed(f, U, start, number) \/ Absorb(f, U, start, number)
      PROVE  UNCHANGED <<local, pending>>
  BY <1>7 DEF Feed, Absorb, sequence, windows
<1> QED
  BY <1>2, <1>4, <1>6, <1>7 DEF Stream

LEMMA CompletedIsQuiet ==
  ASSUME IInv, NEW s \in Attempts, Completed(s), att[s].phase = "asking",
         UNCHANGED <<windows, closed>>, NEW b \in Boxes, Lone(b),
         \A c \in Boxes \ {att[s].box} : local'[c] = local[c]
  PROVE  Undisturbed(b)
<1> DEFINE new == [att[s] EXCEPT !.phase = "draining", !.todo = held[att[s].entry]]
<1>0. att \in [Attempts -> AttemptType] /\ catching \in [Boxes -> Attempts \cup {None}]
  BY DEF IInv, TypeOK
<1>1. att[s] \in ActiveType
  BY <1>0, ActiveAttempt
<1>2. /\ att' = [att EXCEPT ![s] = new] /\ new.phase = "draining"
      /\ catching' = [catching EXCEPT ![att[s].box] = None]
  BY <1>1 DEF Completed, ActiveType
<1> HIDE DEF new
<1>3. Chases(s, b) \/ UNCHANGED <<catching[b], local[b], pending[b]>>
  BY <1>0, <1>2 DEF Chases, Chasing, windows
<1> QED
  BY <1>2, <1>3, EndIsQuiet

LEMMA EndedIsQuiet ==
  ASSUME IInv, NEW s \in Attempts, NEW b \in Boxes, Lone(b),
         AnswerPrivate(s) \/ CatchUpFails(s) \/ Drained(s)
  PROVE  Undisturbed(b)
<1>0. att \in [Attempts -> AttemptType] /\ catching \in [Boxes -> Attempts \cup {None}]
      /\ WindowType
  BY TypeParts DEF IInv, OtherType
<1>1. /\ att' = [att EXCEPT ![s] = NoAttempt] /\ UNCHANGED <<local, closed>>
      /\ NoAttempt.phase = "idle"
  BY DEF AnswerPrivate, CatchUpFails, Drained, sequence, NoAttempt
<1>2. ASSUME b # att[s].box \/ Drained(s)
      PROVE  UNCHANGED <<catching[b], local[b], pending[b]>>
  <2>1. catching'[b] = catching[b]
    BY <1>0, <1>2 DEF AnswerPrivate, CatchUpFails, Drained
  <2>2. pending'[b] = pending[b]
    <3>1. CASE UNCHANGED windows
      BY <3>1 DEF windows
    <3>2. CASE CatchUpFails(s) /\ held[att[s].entry] # {}
      <4>1. QueueCatchUp(att[s].box, held[att[s].entry], FALSE, None,
                         [held EXCEPT ![att[s].entry] = {}])
        BY <3>2 DEF CatchUpFails
      <4>2. b # att[s].box
        BY <1>0, <1>2, <3>2 DEF Drained, CatchUpFails, Chasing
      <4> QED
        BY <1>0, <4>1, <4>2 DEF QueueCatchUp, WindowType, windows
    <3> QED
      BY <3>1, <3>2 DEF AnswerPrivate, CatchUpFails, Drained
  <2> QED
    BY <1>1, <2>1, <2>2
<1>3. Chases(s, b) \/ UNCHANGED <<catching[b], local[b], pending[b]>>
  <2>1. CASE Drained(s)
    BY <1>2, <2>1
  <2>2. CASE (AnswerPrivate(s) \/ CatchUpFails(s)) /\ b = att[s].box
    BY <2>2 DEF Chases, Chasing, AnswerPrivate, CatchUpFails
  <2> QED
    BY <1>2, <2>1, <2>2
<1> QED
  BY <1>1, <1>3, EndIsQuiet

\* Another is arranged once the position is written down, if none has begun meanwhile.
LEMMA SavedIsQuiet ==
  ASSUME IInv, NEW s \in Attempts, NEW b \in Boxes, Lone(b), Saved(s)
  PROVE  Undisturbed(b)
<1>0. /\ att \in [Attempts -> AttemptType] /\ catching \in [Boxes -> Attempts \cup {None}]
      /\ WindowType /\ closed \in BOOLEAN
  BY TypeParts DEF IInv, OtherType
<1>1. /\ att' = [att EXCEPT ![s] = NoAttempt] /\ UNCHANGED <<local, catching, closed>>
      /\ QueueCatchUp(att[s].box, held[att[s].entry], FALSE, catching[att[s].box],
                      [held EXCEPT ![att[s].entry] = {}])
  BY DEF Saved, sequence
<1>2. \A t \in Attempts : Chases(t, b)' => Chases(t, b) /\ att'[t] = att[t]
  BY <1>0, <1>1 DEF Chases, Chasing, NoAttempt
<1>3. pending'[b] = pending[b] \/ (~closed /\ catching[b] = None)
  BY <1>0, <1>1 DEF QueueCatchUp, WindowType, windows
<1>4. \A t \in Attempts : Chases(t, b) => pending'[b] = pending[b]
  BY <1>3, NoneIsNoAttempt DEF Lone, AloneIn
<1> QED
  BY <1>0, <1>1, <1>2, <1>4 DEF Undisturbed

\* A page leaves the box where the next one is asked from.
LEMMA SliceStaysLone ==
  ASSUME IInv, NEW s \in Attempts, NEW upto, NEW number, AnswerSlice(s, upto, number),
         NEW b \in Boxes, Lone(b)
  PROVE  Lone(b)'
<1> DEFINE next == [att[s] EXCEPT !.asked = upto, !.floor = srv[att[s].box], !.page = @ + 1]
           last == [att[s] EXCEPT !.phase = "saving"]
<1>0. /\ att \in [Attempts -> AttemptType] /\ catching \in [Boxes -> Attempts \cup {None}]
      /\ att[s].phase = "asking" /\ StreamType
      /\ UNCHANGED <<windows, closed>> /\ local' = [local EXCEPT ![att[s].box] = upto]
      /\ \/ att' = [att EXCEPT ![s] = next] /\ UNCHANGED catching
         \/ att' = [att EXCEPT ![s] = last] /\ catching' = [catching EXCEPT ![att[s].box] = None]
  BY TypeParts DEF IInv, AnswerSlice, Answered, TakePage, OtherType
<1>1. att[s] \in ActiveType
  BY <1>0, ActiveAttempt
<1>2. /\ next.box = att[s].box /\ next.phase = "asking" /\ next.asked = upto
      /\ last.phase = "saving" /\ last.box = att[s].box
  BY <1>0, <1>1 DEF ActiveType
<1> HIDE DEF next, last
<1>3. CASE b # att[s].box
  <2>1. \A t \in Attempts \ {s} : att'[t] = att[t]
    BY <1>0
  <2>2. att'[s].box # b
    BY <1>0, <1>2, <1>3
  <2>3. UNCHANGED <<catching[b], local[b], pending[b], closed>>
    BY <1>0, <1>3 DEF windows, StreamType
  <2>4. Undisturbed(b)
    BY <2>1, <2>2, <2>3 DEF Undisturbed, Chases, IInv, TypeOK
  <2> QED
    BY <2>4, UndisturbedStays
<1>4. CASE b = att[s].box /\ att' = [att EXCEPT ![s] = last]
  <2>1. Undisturbed(b)
    BY <1>0, <1>2, <1>4, EndIsQuiet DEF Chases, Chasing
  <2> QED
    BY <2>1, UndisturbedStays
<1>5. CASE b = att[s].box /\ att' = [att EXCEPT ![s] = next] /\ UNCHANGED catching
  <2>1. att'[s] = next /\ \A t \in Attempts \ {s} : att'[t] = att[t]
    BY <1>0, <1>5
  <2>2. local'[b] = upto /\ pending'[b] = pending[b]
    BY <1>0, <1>5 DEF StreamType, windows
  <2>3. \A t \in Attempts : Chases(t, b)' => Chases(t, b)
    BY <1>0, <1>2, <1>5, <2>1 DEF Chases, Chasing
  <2>4. AloneIn(b)'
    BY <1>0, <1>5, <2>2, <2>3 DEF Lone, AloneIn
  <2>5. Chases(s, b)
    BY <1>0, <1>5 DEF Chases, Chasing
  <2>6. \A t \in Attempts : Chases(t, b)' => t = s
    BY <2>3, <2>5 DEF Lone, AloneIn
  <2>7. Unmoved(b)'
    BY <1>2, <2>1, <2>2, <2>6 DEF Unmoved
  <2> QED
    BY <2>4, <2>7 DEF Lone
<1> QED
  BY <1>0, <1>3, <1>4, <1>5

LEMMA NameStaysLone ==
  ASSUME IInv, NEW s \in Attempts, Name(s), NEW b \in Boxes, Lone(b)
  PROVE  Lone(b)'
<1> DEFINE new == [att[s] EXCEPT !.phase = "asking", !.asked = AskFrom(local[att[s].box]),
                                 !.floor = srv[att[s].box]]
<1>0. att \in [Attempts -> AttemptType] /\ att[s].phase = "naming"
      /\ UNCHANGED <<local, windows, catching, closed>>
  BY DEF IInv, TypeOK, Name, sequence
<1>1. att[s] \in ActiveType
  BY <1>0, ActiveAttempt
<1>2. att' = [att EXCEPT ![s] = new]
  BY DEF Name
<1>3. /\ new.box = att[s].box /\ new.phase = "asking"
      /\ new.asked = AskFrom(local[att[s].box])
  BY <1>1 DEF ActiveType
<1> HIDE DEF new
<1>4. att'[s] = new /\ \A t \in Attempts \ {s} : att'[t] = att[t]
  BY <1>0, <1>2
<1>5. \A t \in Attempts : Chases(t, b)' => Chases(t, b)
  BY <1>0, <1>3, <1>4 DEF Chases, Chasing
<1>6. AloneIn(b)'
  BY <1>0, <1>5 DEF Lone, AloneIn, windows
<1>7. ASSUME NEW t \in Attempts, ~closed', Chases(t, b)', att'[t].phase = "asking"
      PROVE  local'[b] \in {att'[t].asked, NoPts}
  <2>1. CASE t = s
    <3>1. att[s].box = b
      BY <1>3, <1>4, <1>7, <2>1 DEF Chases
    <3> QED
      BY <1>0, <1>3, <1>4, <2>1, <3>1 DEF AskFrom
  <2>2. CASE t # s
    BY <1>0, <1>4, <1>5, <1>7, <2>2 DEF Lone, Unmoved
  <2> QED
    BY <2>1, <2>2
<1>8. Unmoved(b)'
  BY <1>7 DEF Unmoved
<1> QED
  BY <1>6, <1>8 DEF Lone

\* The window that runs out is of a box nothing chases, and asks from where it leaves it.
LEMMA WindowEndsStaysLone ==
  ASSUME IInv, ClosedIsStill, NEW s \in Attempts, NEW d \in Boxes, WindowEnds(d, s),
         NEW b \in Boxes, Lone(b)
  PROVE  Lone(b)'
<1> DEFINE top == Reached(local[d], Released(d, local[d]))
<1>0. /\ StreamType /\ WindowType /\ att \in [Attempts -> AttemptType]
      /\ catching \in [Boxes -> Attempts \cup {None}] /\ closed \in BOOLEAN
  BY TypeParts DEF IInv, OtherType
<1>1. /\ pending[d] # "none" /\ UNCHANGED closed
      /\ pending' = [pending EXCEPT ![d] = "none"]
      /\ local' = [local EXCEPT ![d] = top]
      /\ \/ UNCHANGED <<catching, att>>
         \/ /\ Free(s) /\ catching' = [catching EXCEPT ![d] = s]
            /\ att' = [att EXCEPT ![s] = Begun(d, s, FALSE, top)]
  BY DEF WindowEnds
<1>2. ~closed /\ pending'[d] = "none" /\ local'[d] = top
  BY <1>0, <1>1 DEF ClosedIsStill, StreamType, WindowType
<1> HIDE DEF top
<1>3. /\ Begun(d, s, FALSE, top).box = d
      /\ Begun(d, s, FALSE, top).phase = "asking" => Begun(d, s, FALSE, top).asked = top
  BY DEF Begun
<1>4. CASE b # d
  <2>1. UNCHANGED <<catching[b], local[b], pending[b], closed>>
    BY <1>0, <1>1, <1>4 DEF StreamType, WindowType
  <2>2. CASE UNCHANGED att
    BY <1>0, <2>1, <2>2, UndisturbedStays DEF Undisturbed
  <2>3. CASE Free(s) /\ att' = [att EXCEPT ![s] = Begun(d, s, FALSE, top)]
    BY <1>3, <1>4, <2>1, <2>3, BeginIsQuiet, UndisturbedStays
  <2> QED
    BY <1>1, <2>2, <2>3
<1>5. CASE b = d
  <2>1. \A t \in Attempts : ~Chases(t, b)
    BY <1>1, <1>5 DEF Lone, AloneIn
  <2>2. CASE UNCHANGED att
    BY <2>1, <2>2 DEF Lone, AloneIn, Unmoved, Chases, Chasing
  <2>3. CASE /\ catching' = [catching EXCEPT ![d] = s]
             /\ att' = [att EXCEPT ![s] = Begun(d, s, FALSE, top)]
    <3>1. /\ att'[s] = Begun(d, s, FALSE, top) /\ catching'[b] = s
          /\ \A t \in Attempts \ {s} : att'[t] = att[t]
      BY <1>0, <1>5, <2>3
    <3>2. \A t \in Attempts : Chases(t, b)' => t = s
      BY <2>1, <3>1 DEF Chases, Chasing
    <3>3. AloneIn(b)'
      BY <1>2, <1>5, <3>1, <3>2 DEF AloneIn
    <3>4. Unmoved(b)'
      BY <1>2, <1>3, <1>5, <3>1, <3>2 DEF Unmoved
    <3> QED
      BY <3>3, <3>4 DEF Lone
  <2> QED
    BY <1>1, <2>2, <2>3
<1> QED
  BY <1>4, <1>5

LEMMA ChaseStaysLone ==
  ASSUME IInv, ClosedIsStill, NEW s \in Attempts, Chase(s),
         NEW b \in Boxes, GapsOnly(b), Lone(b)
  PROVE  Lone(b)'
<1>0. /\ StreamType /\ att \in [Attempts -> AttemptType] /\ Common \in Boxes
      /\ catching \in [Boxes -> Attempts \cup {None}]
  BY TypeParts DEF IInv, OtherType, Boxes
<1>1. CASE Overflow(s) \/ Recover(s)
  <2>1. b # Common
    BY <1>1 DEF GapsOnly, Overflow, Recover
  <2>2. /\ Free(s) /\ UNCHANGED <<local, pending, closed>>
        /\ \E entry : /\ att' = [att EXCEPT ![s] = Begun(Common, entry, FALSE, local[Common])]
                      /\ catching' = [catching EXCEPT ![Common] = entry]
    BY <1>1 DEF Overflow, Recover, Recovering, sequence, windows
  <2>3. PICK entry : /\ att' = [att EXCEPT ![s] = Begun(Common, entry, FALSE, local[Common])]
                     /\ catching' = [catching EXCEPT ![Common] = entry]
    BY <2>2
  <2>4. Begun(Common, entry, FALSE, local[Common]).box # b
    BY <2>1 DEF Begun
  <2>5. UNCHANGED <<catching[b], local[b], pending[b]>>
    BY <1>0, <2>1, <2>2, <2>3
  <2> QED
    BY <2>2, <2>3, <2>4, <2>5, BeginIsQuiet, UndisturbedStays
<1>2. CASE \E d \in Boxes : WindowEnds(d, s)
  BY <1>2, WindowEndsStaysLone
<1>3. CASE Name(s)
  BY <1>3, NameStaysLone
<1>4. CASE \/ \E number : AnswerEmpty(s, number)
           \/ \E number, upto : AnswerFinal(s, upto, number)
           \/ \E upto : AnswerTooLong(s, upto)
  <2>1. /\ Completed(s) /\ att[s].phase = "asking" /\ UNCHANGED <<windows, closed>>
        /\ \/ UNCHANGED local
           \/ \E upto : local' = [local EXCEPT ![att[s].box] = upto]
    BY <1>4 DEF AnswerEmpty, AnswerFinal, AnswerTooLong, Answered, TakePage
  <2>2. \A c \in Boxes \ {att[s].box} : local'[c] = local[c]
    BY <1>0, <2>1 DEF StreamType
  <2> QED
    BY <2>1, <2>2, CompletedIsQuiet, UndisturbedStays
<1>5. CASE \E number, upto : AnswerSlice(s, upto, number)
  BY <1>5, SliceStaysLone
<1>6. CASE AnswerPrivate(s) \/ CatchUpFails(s) \/ Drained(s)
  BY <1>6, EndedIsQuiet, UndisturbedStays
<1>7. CASE Saved(s)
  BY <1>7, SavedIsQuiet, UndisturbedStays
<1>8. CASE Drain(s)
  <2>0. att[s] \in ActiveType /\ att[s].phase = "draining" /\ UNCHANGED <<catching, closed>>
    BY <1>0, <1>8, ActiveAttempt DEF Drain
  <2>1. PICK e \in att[s].todo : /\ Consume(e, known)
                                /\ att' = [att EXCEPT ![s].todo = @ \ {e}]
    BY <1>8 DEF Drain
  <2>2. e \in Events
    BY <2>0, <2>1 DEF ActiveType
  <2>3. att'[s].phase = "draining" /\ \A t \in Attempts \ {s} : att'[t] = att[t]
    BY <1>0, <2>0, <2>1 DEF ActiveType
  <2>4. \A t \in Attempts : Chases(t, b)' => att'[t] = att[t]
    BY <2>3 DEF Chases, Chasing
  <2> QED
    BY <2>0, <2>1, <2>2, <2>4, ConsumeIsQuiet, UndisturbedStays
<1>9. CASE Answer(s)
  <2>1. \/ \E number : AnswerEmpty(s, number)
        \/ \E number, upto : AnswerFinal(s, upto, number)
        \/ \E number, upto : AnswerSlice(s, upto, number)
        \/ \E upto : AnswerTooLong(s, upto)
        \/ AnswerPrivate(s)
    BY <1>9 DEF Answer
  <2> QED
    BY <1>4, <1>5, <1>6, <2>1
<1> QED
  BY <1>1, <1>2, <1>3, <1>6, <1>7, <1>8, <1>9 DEF Chase

LEMMA FollowIsQuiet ==
  ASSUME IInv, Follow, NEW b \in Boxes, GapsOnly(b)
  PROVE  Undisturbed(b)
<1>0. /\ StreamType /\ att \in [Attempts -> AttemptType]
      /\ catching \in [Boxes -> Attempts \cup {None}] /\ closed \in BOOLEAN
  BY TypeParts DEF IInv, OtherType
<1>1. PICK c \in Watchable :
          \/ UnwatchChannel(c)
          \/ \E s \in Attempts : Refresh(c, s) \/ \E pts : WatchChannel(c, pts, s)
  BY DEF Follow
<1>2. b # c /\ UNCHANGED <<pending, closed>>
  BY <1>1 DEF GapsOnly, UnwatchChannel, Refresh, WatchChannel, windows
<1>3. CASE UNCHANGED <<att, catching, local>>
  BY <1>0, <1>2, <1>3 DEF Undisturbed
<1>4. CASE \E s \in Attempts : \E l :
               /\ Recovering(s, c, TRUE, l)
               /\ UNCHANGED local \/ local' = [local EXCEPT ![c] = l]
  <2>0. PICK s \in Attempts : \E l :
               /\ Recovering(s, c, TRUE, l)
               /\ UNCHANGED local \/ local' = [local EXCEPT ![c] = l]
    BY <1>4
  <2>1. PICK l : /\ Recovering(s, c, TRUE, l)
                 /\ UNCHANGED local \/ local' = [local EXCEPT ![c] = l]
    BY <2>0
  <2>2. PICK entry : /\ att' = [att EXCEPT ![s] = Begun(c, entry, TRUE, l)]
                     /\ catching' = [catching EXCEPT ![c] = entry]
    BY <2>1 DEF Recovering
  <2>3. Free(s) /\ Begun(c, entry, TRUE, l).box # b
    BY <1>2, <2>1 DEF Recovering, Begun
  <2>4. UNCHANGED <<catching[b], local[b], pending[b]>>
    BY <1>0, <1>2, <2>1, <2>2 DEF StreamType
  <2> QED
    BY <1>2, <2>2, <2>3, <2>4, BeginIsQuiet
<1> QED
  BY <1>1, <1>3, <1>4 DEF UnwatchChannel, Refresh, WatchChannel, sequence

\* Once the manager is closed no window opens.
LEMMA ClosedStaysStill ==
  ASSUME IInv, ClosedIsStill, [Next]_vars
  PROVE  ClosedIsStill'
<1>0. /\ WindowType /\ catching \in [Boxes -> Attempts \cup {None}] /\ Common \in Boxes
      /\ feed \in [Feeds -> FeedType] /\ att \in [Attempts -> AttemptType]
  BY TypeParts DEF IInv, OtherType, Boxes
<1>1. ASSUME NEW e \in Events, NEW R, Consume(e, R), NEW b \in Boxes
      PROVE  pending'[b] = pending[b] \/ pending'[b] = "none" \/ ~closed
  BY <1>0, <1>1, ConsumeHolds
<1>2. ASSUME NEW c, NEW U, NEW ordered, NEW running, NEW lists,
             QueueCatchUp(c, U, ordered, running, lists), closed
      PROVE  UNCHANGED pending
  BY <1>2 DEF QueueCatchUp, windows
<1>3. ASSUME NEW b \in Boxes, closed, UNCHANGED closed,
             pending'[b] = pending[b] \/ pending'[b] = "none"
      PROVE  pending'[b] = "none"
  BY <1>3 DEF ClosedIsStill
<1>4. CASE Stream
  <2>1. UNCHANGED closed
    BY <1>4 DEF Stream, Feed, FeedStep, FeedFails, FeedSeen, FeedGap, FeedConsume, FeedDone,
                Absorb, AbsorbPosition
  <2>2. \/ \E e \in Events, R \in {known} \cup {known \cup {x} : x \in Events} : Consume(e, R)
        \/ \E U, running : QueueCatchUp(Common, U, FALSE, running, held)
        \/ UNCHANGED pending
    BY <1>0, <1>4 DEF Stream, Feed, FeedStep, FeedFails, FeedSeen, FeedGap, FeedConsume,
                FeedDone, Absorb, AbsorbPosition, FeedType, Occurred, windows
  <2> QED
    BY <1>1, <1>2, <1>3, <2>1, <2>2 DEF ClosedIsStill
<1>5. ASSUME NEW s \in Attempts, Chase(s)
      PROVE  ClosedIsStill'
  <2>1. UNCHANGED closed
    BY <1>5 DEF Chase, Overflow, WindowEnds, Recover, Name, Answer, AnswerEmpty, AnswerFinal,
              AnswerSlice, AnswerTooLong, AnswerPrivate, CatchUpFails, Saved, Drain, Drained
  <2>2. CASE Drain(s)
    <3>1. \E e \in Events : Consume(e, known)
      BY <1>0, <2>2, ActiveAttempt DEF Drain, ActiveType
    <3> QED
      BY <1>1, <1>3, <2>1, <3>1 DEF ClosedIsStill
  <2>3. CASE \E b \in Boxes : WindowEnds(b, s)
    <3>1. PICK b \in Boxes : pending' = [pending EXCEPT ![b] = "none"]
      BY <2>3 DEF WindowEnds
    <3> QED
      BY <1>0, <2>1, <3>1 DEF ClosedIsStill, WindowType
  <2>4. CASE CatchUpFails(s) \/ Saved(s)
    <3>1. closed => UNCHANGED pending
      BY <1>2, <2>4 DEF CatchUpFails, Saved, windows
    <3> QED
      BY <2>1, <3>1 DEF ClosedIsStill
  <2>5. CASE UNCHANGED windows
    BY <2>1, <2>5 DEF ClosedIsStill, windows
  <2> QED
    BY <1>5, <2>2, <2>3, <2>4, <2>5 DEF Chase, Overflow, Recover, Name, Answer, AnswerEmpty,
       AnswerFinal, AnswerSlice, AnswerTooLong, AnswerPrivate, Drained
<1>6. CASE Close
  BY <1>6 DEF Close, ClosedIsStill
<1>7. CASE Environment \/ Follow \/ UNCHANGED vars
  <2>1. UNCHANGED <<pending, closed>>
    BY <1>7 DEF Environment, Happen, LeaveOrJoin, Follow, Refresh, WatchChannel, UnwatchChannel,
                vars, windows
  <2> QED
    BY <2>1 DEF ClosedIsStill
<1> QED
  BY <1>4, <1>5, <1>6, <1>7 DEF Next

LEMMA NextStaysLone ==
  ASSUME IInv, ClosedIsStill, [Next]_vars, NEW b \in Boxes, GapsOnly(b), Lone(b)
  PROVE  Lone(b)'
<1>1. CASE Stream
  BY <1>1, StreamIsQuiet, UndisturbedStays
<1>2. ASSUME NEW s \in Attempts, Chase(s) PROVE Lone(b)'
  BY <1>2, ChaseStaysLone
<1>3. CASE Follow
  BY <1>3, FollowIsQuiet, UndisturbedStays
<1>4. CASE Close
  <2>1. closed' /\ UNCHANGED att /\ pending' = [c \in Boxes |-> "none"]
    BY <1>4 DEF Close
  <2> QED
    BY <2>1 DEF Lone, AloneIn, Unmoved, Chases, Chasing
<1>5. CASE Environment \/ UNCHANGED vars
  <2>1. UNCHANGED <<att, pending, catching, local, closed>>
    BY <1>5 DEF Environment, Happen, LeaveOrJoin, vars, windows
  <2> QED
    BY <2>1 DEF Lone, AloneIn, Unmoved, Chases, Chasing
<1> QED
  BY <1>1, <1>2, <1>3, <1>4, <1>5 DEF Next

AllLone == ClosedIsStill /\ \A b \in Boxes : GapsOnly(b) => Lone(b)

LEMMA LoneInvariance == Spec => []AllLone
<1>1. Init => AllLone
  BY DEF Init, AllLone, ClosedIsStill, Lone, AloneIn, Unmoved, Chases, Chasing, NoAttempt
<1>2. IInv /\ AllLone /\ [Next]_vars => AllLone'
  <2> SUFFICES ASSUME IInv, AllLone, [Next]_vars PROVE AllLone'
    OBVIOUS
  <2>1. ClosedIsStill'
    BY ClosedStaysStill DEF AllLone
  <2>2. ASSUME NEW b \in Boxes, GapsOnly(b) PROVE Lone(b)'
    BY <2>2, NextStaysLone DEF AllLone
  <2>3. \A b \in Boxes : GapsOnly(b)' => Lone(b)'
    BY <2>2 DEF GapsOnly
  <2> QED
    BY <2>1, <2>3 DEF AllLone
<1> QED
  BY <1>1, <1>2, Invariance, PTL DEF Spec

\* Every box is one that nothing but its own gaps has asked about.
OnlyGaps == Causes = {} /\ Watchable = {}

(***************************************************************************)
(* A box is chased by one catch-up, however many gaps it has and whatever  *)
(* becomes of them, as long as nothing else has it asked about.            *)
(***************************************************************************)
THEOREM ChasedOnce == ASSUME OnlyGaps PROVE Spec => []OneChase
<1>1. IInv /\ AllLone => OneChase
  <2> SUFFICES ASSUME IInv, AllLone, NEW s \in Attempts, NEW t \in Attempts,
                      Chasing(s), Chasing(t), att[s].box = att[t].box
               PROVE  s = t
    BY DEF OneChase
  <2>1. att[s].box \in Boxes
    BY ActiveAttempt DEF IInv, TypeOK, Chasing, ActiveType
  <2>2. Lone(att[s].box)
    BY <2>1 DEF AllLone, GapsOnly, OnlyGaps
  <2> QED
    BY <2>2 DEF Lone, AloneIn, Chases
<1> QED
  BY <1>1, Invariance, LoneInvariance, PTL

MovesOn(b) == local'[b] = NoPts \/ local'[b] >= local[b]

LEMMA ConsumeMovesOn ==
  ASSUME IInv, NEW e \in Events, NEW R, Consume(e, R), NEW b \in Boxes
  PROVE  MovesOn(b)
<1>1. StreamType /\ e[1] \in Boxes /\ e[2] \in Nat
      /\ \A x \in At(e[1], waiting[e[1]]) : x \in Nat
  BY TypeParts, EventParts, LogType DEF IInv, At
<1>2. local[b] \in Nat \cup {NoPts}
  BY <1>1 DEF StreamType, Positions
<1>3. CASE local'[b] = local[b]
  BY <1>2, <1>3 DEF MovesOn, NoPts
<1>4. CASE b = e[1] /\ local'[b] \in {e[2]} \cup At(b, waiting[b])
           /\ (local[b] = NoPts \/ local'[b] >= local[b])
  BY <1>1, <1>2, <1>4 DEF MovesOn, NoPts
<1> QED
  BY <1>1, <1>3, <1>4, ConsumeMoves

\* An answer to a question from a position brings b to that one, or beyond.
Lands(b) ==
    \E s \in Attempts : /\ att[s].phase = "asking" /\ att[s].box = b
                       /\ local'[b] >= att[s].asked

LEMMA AnswerLands ==
  ASSUME IInv, Happened, NEW s \in Attempts, Answer(s), NEW b \in Boxes
  PROVE  \/ local'[b] = local[b] \/ local'[b] = NoPts
         \/ att[s].phase = "asking" /\ att[s].box = b /\ local'[b] >= att[s].asked
<1>0. StreamType /\ att \in [Attempts -> AttemptType] /\ att[s].phase = "asking"
  BY TypeParts DEF IInv, Answer, AnswerEmpty, AnswerFinal, AnswerSlice, AnswerTooLong,
                   AnswerPrivate, Answered
<1>1. att[s] \in ActiveType
  BY <1>0, ActiveAttempt
<1>2. att[s].asked \in Nat \cup {NoPts} /\ att[s].floor \in Nat /\ att[s].box \in Boxes
  BY <1>0, <1>1 DEF ActiveType, Positions
<1>3. CASE UNCHANGED local \/ b # att[s].box
  <2>1. UNCHANGED local \/ \E upto : local' = [local EXCEPT ![att[s].box] = upto]
    BY DEF Answer, AnswerEmpty, AnswerFinal, AnswerSlice, AnswerTooLong, AnswerPrivate,
           TakePage, sequence
  <2> QED
    BY <1>0, <1>3, <2>1 DEF StreamType
<1>4. ASSUME b = att[s].box, NEW upto, att[s].asked <= upto,
             local' = [local EXCEPT ![b] = upto]
      PROVE  att[s].box = b /\ local'[b] >= att[s].asked
  <2>1. local'[b] = upto
    BY <1>0, <1>4 DEF StreamType
  <2> QED
    BY <1>4, <2>1
<1>5. CASE b = att[s].box /\ \E number : AnswerEmpty(s, number)
  <2>1. UNCHANGED local \/ local' = [local EXCEPT ![b] = att[s].asked]
    BY <1>5 DEF AnswerEmpty
  <2>2. att[s].asked <= att[s].asked
    BY <1>2 DEF NoPts
  <2> QED
    BY <1>0, <1>3, <1>4, <1>5, <2>1, <2>2
<1>6. CASE b = att[s].box /\ \E number : \E upto \in Stops(b) :
              /\ att[s].asked <= upto
              /\ AnswerFinal(s, upto, number) \/ AnswerSlice(s, upto, number)
  BY <1>0, <1>4, <1>6 DEF AnswerFinal, AnswerSlice, TakePage
<1>7. ASSUME b = att[s].box, NEW upto \in Stops(b), AnswerTooLong(s, upto)
      PROVE  local'[b] = NoPts \/ local'[b] >= att[s].asked
  <2>1. upto >= att[s].floor /\ Stood(b, att[s].asked, att[s].floor)
    BY <1>0, <1>7 DEF AnswerTooLong, Happened, AttemptHappened
  <2>2. upto \in Nat
    BY <1>2, <1>7, LogType DEF Stops, Origin
  <2>3. att[s].asked <= upto
    BY <1>2, <2>1, <2>2 DEF Stood, NoPts
  <2>4. CASE local' = [local EXCEPT ![b] = upto]
    BY <1>4, <1>7, <2>3, <2>4
  <2>5. CASE local' = [local EXCEPT ![b] = NoPts]
    BY <1>0, <2>5 DEF StreamType
  <2> QED
    BY <1>7, <2>4, <2>5 DEF AnswerTooLong
<1>8. CASE AnswerPrivate(s)
  BY <1>3, <1>8 DEF AnswerPrivate, sequence
<1>9. \/ b # att[s].box
      \/ \E number : AnswerEmpty(s, number)
      \/ \E number : \E upto \in Stops(b) :
              /\ att[s].asked <= upto
              /\ AnswerFinal(s, upto, number) \/ AnswerSlice(s, upto, number)
      \/ \E upto \in Stops(b) : AnswerTooLong(s, upto)
      \/ AnswerPrivate(s)
  BY DEF Answer
<1> QED
  BY <1>0, <1>3, <1>5, <1>6, <1>7, <1>8, <1>9

LEMMA WindowEndsMovesOn ==
  ASSUME IInv, NEW s \in Attempts, NEW d \in Boxes, WindowEnds(d, s), NEW b \in Boxes
  PROVE  MovesOn(b)
<1> DEFINE top == Reached(local[d], Released(d, local[d]))
<1>0. StreamType /\ local[b] \in Nat \cup {NoPts} /\ local' = [local EXCEPT ![d] = top]
  BY TypeParts DEF IInv, WindowEnds, StreamType, Positions
<1>1. local[d] \in Nat => top >= local[d]
  BY ReleasedIsUnbroken
<1>2. top \in Nat \cup {NoPts}
  <2>1. local[d] \in Nat \cup {NoPts}
    BY <1>0 DEF StreamType, Positions
  <2>2. \A x \in At(d, waiting[d]) : x \in Nat
    BY LogType DEF At
  <2> QED
    BY <2>1, <2>2, ReleasedIsHeld
<1> HIDE DEF top
<1>3. CASE b = d
  BY <1>0, <1>1, <1>2, <1>3 DEF MovesOn, StreamType, NoPts
<1>4. CASE b # d
  BY <1>0, <1>4 DEF MovesOn, StreamType, NoPts
<1> QED
  BY <1>3, <1>4

\* A channel that begins to be followed is told its position only if it had none.
LEMMA FollowMovesOn ==
  ASSUME IInv, Follow, NEW b \in Boxes
  PROVE  MovesOn(b)
<1>1. StreamType /\ local[b] \in Nat \cup {NoPts}
  BY TypeParts DEF IInv, StreamType, Positions
<1>2. CASE UNCHANGED local
  BY <1>1, <1>2 DEF MovesOn, NoPts
<1>3. ASSUME NEW c \in Watchable, NEW pts \in Stops(c) \cup {NoPts},
             NEW s \in Attempts, WatchChannel(c, pts, s)
      PROVE  MovesOn(b)
  <2>1. \/ UNCHANGED local
        \/ local' = [local EXCEPT ![c] = IF pts # NoPts /\ local[c] = NoPts THEN pts ELSE local[c]]
    BY <1>3 DEF WatchChannel
  <2>2. CASE local'[b] = local[b]
    BY <1>1, <2>2 DEF MovesOn, NoPts
  <2>3. CASE local[b] = NoPts /\ local'[b] = pts /\ b = c
    <3>1. pts \in Nat \cup {NoPts}
      BY <2>3, LogType DEF Stops, Origin
    <3> QED
      BY <2>3, <3>1 DEF MovesOn, NoPts
  <2> QED
    BY <1>1, <1>2, <2>1, <2>2, <2>3 DEF StreamType
<1> QED
  BY <1>2, <1>3 DEF Follow, Refresh, UnwatchChannel, sequence

\* A step moves a box on, or is an answer that takes it to where it ends.
LEMMA NextMovesOrLands ==
  ASSUME IInv, Happened, [Next]_vars, NEW b \in Boxes
  PROVE  MovesOn(b) \/ Lands(b)
<1>0. /\ StreamType /\ feed \in [Feeds -> FeedType] /\ att \in [Attempts -> AttemptType]
      /\ local[b] \in Nat \cup {NoPts}
  BY TypeParts DEF IInv, StreamType, Positions
<1>1. CASE local'[b] = local[b]
  BY <1>0, <1>1 DEF MovesOn, NoPts
<1>2. CASE \E e \in Events, R \in {known} \cup {known \cup {x} : x \in Events} : Consume(e, R)
  BY <1>2, ConsumeMovesOn
<1>3. CASE Stream
  <2>1. \/ \E e \in Events, R \in {known} \cup {known \cup {x} : x \in Events} : Consume(e, R)
        \/ UNCHANGED local
    BY <1>0, <1>3 DEF Stream, Feed, FeedStep, FeedFails, FeedSeen, FeedGap, FeedConsume,
                FeedDone, Absorb, AbsorbPosition, FeedType, Occurred, sequence
  <2> QED
    BY <1>1, <1>2, <2>1
<1>4. ASSUME NEW s \in Attempts, Chase(s) PROVE MovesOn(b) \/ Lands(b)
  <2>1. CASE Answer(s)
    <3>1. CASE local'[b] = NoPts
      BY <3>1 DEF MovesOn
    <3> QED
      BY <1>1, <2>1, <3>1, AnswerLands DEF Lands
  <2>2. CASE \E d \in Boxes : WindowEnds(d, s)
    BY <2>2, WindowEndsMovesOn
  <2>3. CASE Drain(s)
    <3>1. \E e \in Events : Consume(e, known)
      BY <1>0, <2>3, ActiveAttempt DEF Drain, ActiveType
    <3> QED
      BY <1>2, <3>1
  <2> QED
    BY <1>1, <1>4, <2>1, <2>2, <2>3 DEF Chase, Overflow, Recover, Name, CatchUpFails, Saved,
                                        Drained, sequence
<1>5. CASE Follow
  BY <1>5, FollowMovesOn
<1>6. CASE Environment \/ Close \/ UNCHANGED vars
  BY <1>1, <1>6 DEF Environment, Happen, LeaveOrJoin, Close, vars, sequence
<1> QED
  BY <1>3, <1>4, <1>5, <1>6 DEF Next

(***************************************************************************)
(* Whatever has a box asked about, and also once the manager is closed: a  *)
(* box goes back only with an answer, and never to before the position the *)
(* question was asked from (catchUp in manager.ts).                        *)
(***************************************************************************)
THEOREM BackOnlyWithAnAnswer == Spec => [][\A b \in Boxes : MovesOn(b) \/ Lands(b)]_vars
<1>1. IInv /\ Happened /\ [Next]_vars => \A b \in Boxes : MovesOn(b) \/ Lands(b)
  BY NextMovesOrLands
<1> QED
  BY <1>1, Invariance, HappenedInvariance, PTL DEF Spec

\* Where a box stands where the call that chases it asks from, that is no way back.
LEMMA LoneMovesOn ==
  ASSUME IInv, Happened, [Next]_vars, ~closed, NEW b \in Boxes, Lone(b)
  PROVE  MovesOn(b)
<1>1. CASE MovesOn(b)
  BY <1>1
<1>2. CASE Lands(b)
  <2>1. PICK s \in Attempts : /\ att[s].phase = "asking" /\ att[s].box = b
                              /\ local'[b] >= att[s].asked
    BY <1>2 DEF Lands
  <2>2. local[b] \in {att[s].asked, NoPts}
    BY <2>1 DEF Lone, Unmoved, Chases, Chasing
  <2>3. CASE local[b] = att[s].asked
    BY <2>1, <2>3 DEF MovesOn
  <2>4. CASE local[b] = NoPts
    <3>1. /\ att \in [Attempts -> AttemptType]
      BY TypeParts DEF IInv
    <3>2. att[s].asked \in Nat \cup {NoPts}
      BY <2>1, <3>1, ActiveAttempt DEF ActiveType, Positions
    <3>3. local'[b] \in Nat \cup {NoPts}
      BY NextKeeps DEF IInv, TypeOK, Positions
    <3> QED
      BY <2>1, <2>4, <3>2, <3>3 DEF MovesOn, NoPts
  <2> QED
    BY <2>2, <2>3, <2>4
<1> QED
  BY <1>1, <1>2, NextMovesOrLands

(***************************************************************************)
(* A box that only its own gaps have asked about never moves back, however *)
(* the other boxes are followed, overflow or are chased twice.             *)
(***************************************************************************)
THEOREM GapsTakeNothingBack ==
  ASSUME NEW b \in Boxes, GapsOnly(b)
  PROVE  Spec => [][closed \/ MovesOn(b)]_vars
<1>1. IInv /\ Happened /\ AllLone /\ [Next]_vars => closed \/ MovesOn(b)
  BY LoneMovesOn DEF AllLone
<1> QED
  BY <1>1, Invariance, HappenedInvariance, LoneInvariance, PTL DEF Spec

(***************************************************************************)
(* With gaps only, no box ever moves back: nothing the stream brings in    *)
(* while a difference is asked for is overwritten by its answer.           *)
(***************************************************************************)
THEOREM NothingTakenBack == ASSUME OnlyGaps PROVE Spec => NeverBack
<1>1. IInv /\ Happened /\ AllLone /\ [Next]_vars
         => closed \/ \A b \in Boxes : local'[b] = NoPts \/ local'[b] >= local[b]
  BY LoneMovesOn DEF AllLone, GapsOnly, OnlyGaps, MovesOn
<1> QED
  BY <1>1, Invariance, HappenedInvariance, LoneInvariance, PTL DEF Spec, NeverBack
=============================================================================
