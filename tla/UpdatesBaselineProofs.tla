----------------------- MODULE UpdatesBaselineProofs -----------------------
(***************************************************************************)
(* What holds of an account's position across its runs, however many there *)
(* are, whatever order writes land in and however peers' writes fare.      *)
(***************************************************************************)
EXTENDS UpdatesBaseline, UpdateStateProofs

-----------------------------------------------------------------------------
(* Facts about positions.                                                  *)

LEMMA LogType == Log \subseteq Nat /\ \A p \in Log : p > Origin /\ p <= MaxPts
BY BaselineAssumption DEF Log, Origin

LEMMA SeqAtType == ASSUME NEW p PROVE SeqAt(p) \in Nat
<1> DEFINE Behind == {q \in Numbered : q <= p}
<1>1. IsFiniteSet(Log)
  <2>1. Origin + 1 \in Int /\ MaxPts \in Int
    BY BaselineAssumption DEF Origin
  <2> QED
    BY <2>1, FS_Interval DEF Log
<1>2. Behind \subseteq Log
  BY BaselineAssumption
<1>3. IsFiniteSet(Behind)
  BY <1>1, <1>2, FS_Subset
<1>4. Cardinality(Behind) \in Nat
  BY <1>3, FS_CardinalityType
<1> QED
  BY <1>4 DEF SeqAt

LEMMA NumberType == ASSUME NEW p PROVE NumberOf(p) \in Nat
BY SeqAtType DEF NumberOf

LEMMA AdvanceType ==
  ASSUME NEW s \in Nat, NEW n \in Nat
  PROVE  AdvanceContainer(s, n) \in Nat
BY DEF AdvanceContainer, Larger

(***************************************************************************)
(* Letting through what follows on from l leaves no hole behind where it   *)
(* ends.                                                                   *)
(***************************************************************************)
LEMMA UnbrokenHasNoHole ==
  ASSUME NEW l \in Origin .. MaxPts, NEW H \in SUBSET Log,
         NEW F, F = Unbroken(l, H) \/ F = {}
  PROVE  /\ F \subseteq H
         /\ Top(l, F) \in Origin .. MaxPts
         /\ Top(l, F) >= l
         /\ \A p \in Log : l < p /\ p <= Top(l, F) => p \in F
<1>1. MaxPts \in Nat /\ Origin = 1
  BY BaselineAssumption DEF Origin
<1>2. F \subseteq H
  BY DEF Unbroken
<1>3. /\ F \cup {l} \in SUBSET Nat
      /\ F \cup {l} # {}
      /\ \A x \in F \cup {l} : x <= MaxPts
  BY <1>1, <1>2, LogType
<1>4. /\ Top(l, F) \in F \cup {l}
      /\ \A x \in F \cup {l} : x <= Top(l, F)
  BY <1>1, <1>3, HighestIsHighest DEF Top
<1>5. Top(l, F) \in Origin .. MaxPts
  <2>1. \A x \in F \cup {l} : x \in Origin .. MaxPts
    BY <1>1, <1>2, LogType
  <2> QED
    BY <1>4, <2>1
<1>6. ASSUME NEW p \in Log, l < p, p <= Top(l, F)
      PROVE  p \in F
  <2>1. Top(l, F) \in F /\ F = Unbroken(l, H)
    BY <1>1, <1>4, <1>6, LogType
  <2>2. l + 1 .. Top(l, F) \subseteq H
    BY <2>1 DEF Unbroken
  <2>3. p \in H /\ l + 1 .. p \subseteq H
    BY <1>1, <1>5, <1>6, <2>2, LogType
  <2> QED
    BY <1>6, <2>1, <2>3 DEF Unbroken
<1> QED
  BY <1>2, <1>4, <1>5, <1>6

-----------------------------------------------------------------------------
(* What taking an update in does.                                          *)

\* What a position may change to, with what was handed out on the way.
Followed ==
    /\ handed \subseteq handed' /\ handed' \subseteq Log
    /\ local' \in Origin .. MaxPts
    /\ \A p \in Log : local < p /\ p <= local' => p \in handed'

\* What waits stays within the log.
WaitsIn ==
    /\ pending' \in {"none", "ordered", "asking"}
    /\ window' \subseteq Log /\ held' \subseteq Log

LEMMA QueueWaits ==
  ASSUME TypeOK, NEW P \in SUBSET Log, NEW kind, Queue(P, kind)
  PROVE  WaitsIn
BY DEF TypeOK, Queue, WaitsIn

LEMMA ConsumeFollows ==
  ASSUME TypeOK, NEW p \in Log, Consume(p)
  PROVE  Followed /\ WaitsIn
<1> DEFINE freed == IF pending = "ordered" THEN Unbroken(p, window) ELSE {}
           top == Top(p, freed)
<1>1. MaxPts \in Nat /\ Origin = 1 /\ local \in Nat
  BY BaselineAssumption DEF TypeOK, Origin
<1>2. p \in Origin .. MaxPts
  BY <1>1, LogType
<1>3. /\ freed \subseteq window
      /\ top \in Origin .. MaxPts
      /\ top >= p
      /\ \A x \in Log : p < x /\ x <= top => x \in freed
  <2>1. freed = Unbroken(p, window) \/ freed = {}
    OBVIOUS
  <2> QED
    BY <1>2, <2>1, UnbrokenHasNoHole DEF TypeOK
<1>4. CASE UNCHANGED <<local, handed, pending, window>> /\ held' = held \cup {p}
  BY <1>1, <1>4, LogType DEF TypeOK, Followed, WaitsIn
<1>5. CASE UNCHANGED <<local, handed, pending, window, held>>
  BY <1>1, <1>5, LogType DEF TypeOK, Followed, WaitsIn
<1>6. CASE /\ Judge(local, p, 1) = "apply"
           /\ local' = top
           /\ handed' = handed \cup {p} \cup freed
           /\ UNCHANGED held
           /\ \/ UNCHANGED <<pending, window>>
              \/ /\ window' = {q \in window : q > top}
                 /\ pending' \in {"none", "ordered"}
  <2>1. p = local + 1
    <3>1. local # NoPts
      BY <1>1 DEF NoPts
    <3> QED
      BY <1>1, <1>6, <3>1, <1>2 DEF Judge
  <2>2. handed' \subseteq Log
    BY <1>3, <1>6 DEF TypeOK
  <2>3. ASSUME NEW x \in Log, local < x, x <= local' PROVE x \in handed'
    <3>1. x = p \/ p < x
      BY <1>1, <2>1, <2>3, LogType
    <3> QED
      BY <1>3, <1>6, <2>3, <3>1
  <2>4. WaitsIn
    BY <1>6 DEF TypeOK, WaitsIn
  <2> QED
    BY <1>3, <1>6, <2>2, <2>3, <2>4 DEF Followed
<1>7. CASE Queue({p}, "ordered") /\ UNCHANGED <<local, handed>>
  <2>1. WaitsIn
    BY <1>7, QueueWaits
  <2> QED
    BY <1>1, <1>7, <2>1, LogType DEF TypeOK, Followed
<1> QED
  BY <1>4, <1>5, <1>6, <1>7 DEF Consume

LEMMA ConsumeContainerFollows ==
  ASSUME TypeOK, NEW p \in Log, ConsumeContainer(p)
  PROVE  Followed /\ WaitsIn /\ seq' \in Nat
<1>1. MaxPts \in Nat /\ Origin = 1
  BY BaselineAssumption DEF Origin
<1>2. CASE UNCHANGED <<place, handed, pending, window, held>>
  BY <1>1, <1>2, LogType DEF TypeOK, Followed, WaitsIn, place
<1>3. CASE Queue({p}, "asking") /\ UNCHANGED <<place, handed>>
  <2>1. WaitsIn
    BY <1>3, QueueWaits
  <2> QED
    BY <1>1, <1>3, <2>1, LogType DEF TypeOK, Followed, place
<1>4. CASE Consume(p) /\ seq' = AdvanceContainer(seq, NumberOf(p))
  BY <1>4, ConsumeFollows, NumberType, AdvanceType DEF TypeOK
<1> QED
  BY <1>2, <1>3, <1>4 DEF ConsumeContainer

-----------------------------------------------------------------------------
(***************************************************************************)
(* The inductive invariant.  A position may come to be written down from   *)
(* where the box stands, from a write under way, from the store by way of  *)
(* another run, and from a catch-up that brings the box from where it was  *)
(* asked; so each of these is safe, and not only the one in the store.     *)
(***************************************************************************)
InHand == asking \in {"harvesting", "handled"} => taking \in Log /\ early # <<>>

EverySourceIsSafe ==
    /\ Safe(local)
    /\ \A w \in writing : Safe(w.pts)
    /\ store # None => Safe(store.pts)
    /\ chasing # None => Safe(chasing.from)

IInv == TypeOK /\ InHand /\ EverySourceIsSafe

\* Nothing that was safe is made unsafe: what was handed out or told stays so.
LEMMA SafeStays ==
  ASSUME TypeOK, NEW l \in Origin .. MaxPts, Safe(l),
         handed \subseteq handed',
         told' \in Nat, told <= told'
  PROVE  Safe(l)'
BY LogType DEF Safe, TypeOK

\* Where the box has been brought to by taking something in is safe.
LEMMA FollowedIsSafe ==
  ASSUME TypeOK, Safe(local), Followed, UNCHANGED told
  PROVE  Safe(local)'
<1>1. ASSUME NEW p \in Log, p <= local'
      PROVE  p \in handed' \/ p <= told
  <2>1. p \in Nat /\ local \in Nat
    BY BaselineAssumption, LogType DEF TypeOK, Origin
  <2>2. CASE p <= local
    BY <2>2 DEF Safe, Followed
  <2>3. CASE local < p
    BY <1>1, <2>3 DEF Followed
  <2> QED
    BY <2>1, <2>2, <2>3
<1> QED
  BY <1>1 DEF Safe

\* Everything else a step leaves where it was stays safe.
LEMMA OthersStaySafe ==
  ASSUME TypeOK, EverySourceIsSafe,
         handed \subseteq handed', told' \in Nat, told <= told'
  PROVE  /\ Safe(local) /\ UNCHANGED local => Safe(local)'
         /\ UNCHANGED writing => \A w \in writing' : Safe(w.pts)'
         /\ UNCHANGED store => (store' # None => Safe(store.pts)')
         /\ UNCHANGED chasing => (chasing' # None => Safe(chasing.from)')
<1>1. /\ local \in Origin .. MaxPts
      /\ \A w \in writing : w.pts \in Origin .. MaxPts
      /\ store # None => store.pts \in Origin .. MaxPts
      /\ chasing # None => chasing.from \in Origin .. MaxPts
  BY DEF TypeOK, Positioned
<1> QED
  BY <1>1, SafeStays DEF EverySourceIsSafe, Safe

-----------------------------------------------------------------------------
(* Type correctness.                                                       *)

\* Joining the wait for a position leaves every list what it is.
LEMMA HoldEarlyTypes ==
  ASSUME TypeOK, InHand, NEW p \in Log, HoldEarly(p), arriving' \subseteq Log
  PROVE  TypeOK' /\ InHand'
<1>1. /\ asking' \in {asking, "asking"}
      /\ floor' \in Origin .. MaxPts
  BY DEF HoldEarly, Establish, TypeOK
<1>2. early \in Seq(waited) /\ waited' = waited \cup {p} /\ waited' \subseteq Log
  BY DEF HoldEarly, TypeOK
<1>3. early \in Seq(waited')
  BY <1>2
<1>4. early' \in Seq(waited') /\ dropped' \subseteq waited'
  <2>1. CASE Len(early) >= MaxEarly
    <3>1. early # <<>>
      BY <1>2, <2>1, BaselineAssumption
    <3>2. Head(early) \in waited /\ Tail(early) \in Seq(waited')
      BY <1>2, <1>3, <3>1
    <3> QED
      BY <1>2, <2>1, <3>2 DEF HoldEarly, TypeOK
  <2>2. CASE ~(Len(early) >= MaxEarly)
    BY <1>2, <1>3, <2>2 DEF HoldEarly, TypeOK
  <2> QED
    BY <2>1, <2>2
<1>5. awaiting' \subseteq {"feed", "recover"}
  BY DEF HoldEarly, TypeOK
<1>6. asking' \in {"no", "asking", "draining", "harvesting", "handled", "saving"}
  BY <1>1 DEF TypeOK
<1>7. early' # <<>>
  <2>1. /\ early' = Append(early, p) \/ early' = Append(Tail(early), p)
        /\ Len(early) >= MaxEarly => early # <<>>
    BY <1>2, BaselineAssumption DEF HoldEarly
  <2> QED
    BY <1>2, <2>1, BaselineAssumption DEF HoldEarly
<1>8. InHand'
  BY <1>1, <1>4, <1>7 DEF InHand, HoldEarly
<1>9. cut' \subseteq waited' /\ passed' \subseteq Log
  BY <1>2 DEF HoldEarly, TypeOK
<1> QED
  BY <1>1, <1>2, <1>4, <1>5, <1>6, <1>8, <1>9
  DEF HoldEarly, TypeOK, storage, place, gaps

LEMMA QuestionFailsTypes ==
  ASSUME TypeOK, QuestionFails
  PROVE  TypeOK' /\ InHand'
BY DEF TypeOK, InHand, QuestionFails, storage, place, gaps, history, fate

\* A catch-up asked from where the box stands.
LEMMA CatchUpTypes ==
  ASSUME TypeOK, NEW from \in Origin .. MaxPts, NEW r \in BOOLEAN, CatchUp(from, r)
  PROVE  /\ chasing' \in [from : Origin .. MaxPts, floor : Origin .. MaxPts,
                          recovering : BOOLEAN] \cup {None}
         /\ chasing'.from = from
<1>1. srv \in Origin .. MaxPts
  BY DEF TypeOK
<1> QED
  BY <1>1 DEF CatchUp

\* What is written down is a position.
LEMMA SnapshotType ==
  ASSUME TypeOK, NEW first \in BOOLEAN
  PROVE  /\ Snapshot(first) \in [pts : Origin .. MaxPts, seq : Nat, first : BOOLEAN]
         /\ Snapshot(first).pts = local
BY DEF TypeOK, Snapshot

\* TypeOK, by what a step usually leaves alone.
PlaceTypes ==
    /\ srv \in Origin .. MaxPts /\ told \in 0 .. MaxPts
    /\ handed \subseteq Log /\ waited \subseteq Log /\ dropped \subseteq waited
    /\ cut \subseteq waited /\ passed \subseteq Log
    /\ local \in Origin .. MaxPts /\ seq \in Nat

StorageTypes ==
    /\ store \in Positioned \cup {None}
    /\ writing \subseteq [pts : Origin .. MaxPts, seq : Nat, first : BOOLEAN]
    /\ runs \in Nat /\ up \in BOOLEAN /\ owed \in BOOLEAN

QuestionTypes ==
    /\ established \in BOOLEAN /\ again \in BOOLEAN
    /\ arriving \subseteq Log /\ early \in Seq(waited)
    /\ asking \in {"no", "asking", "draining", "harvesting", "handled", "saving"}
    /\ floor \in Origin .. MaxPts /\ awaiting \subseteq {"feed", "recover"}
    /\ taking \in Log \cup {0}

GapTypes ==
    /\ pending \in {"none", "ordered", "asking"}
    /\ window \subseteq Log /\ held \subseteq Log /\ todo \subseteq Log
    /\ chasing \in [from : Origin .. MaxPts, floor : Origin .. MaxPts,
                     recovering : BOOLEAN] \cup {None}

LEMMA TypeStep ==
  ASSUME TypeOK, InHand, [Next]_vars
  PROVE  TypeOK' /\ InHand'
<1> USE DEF storage, place, gaps, history, fate
<1>0. MaxPts \in Nat /\ Origin = 1
  BY BaselineAssumption DEF Origin
<1>1. CASE UNCHANGED vars
  BY <1>1 DEF TypeOK, InHand, vars, question
<1>2. CASE Happen
  BY <1>0, <1>2 DEF TypeOK, InHand, Happen, question
<1>3. CASE Remember
  <2>1. /\ writing' \subseteq [pts : Origin .. MaxPts, seq : Nat, first : BOOLEAN]
        /\ owed' = FALSE
    BY <1>3, SnapshotType DEF TypeOK, Remember
  <2>2. UNCHANGED <<srv, handed, store, runs, up, local, seq, question, arriving, gaps, history>>
    BY <1>3 DEF Remember
  <2> QED
    <3>1. PlaceTypes' /\ GapTypes'
      BY <2>2 DEF TypeOK, PlaceTypes, GapTypes
    <3>2. StorageTypes'
      BY <2>1, <2>2 DEF TypeOK, StorageTypes
    <3>3. QuestionTypes' /\ InHand'
      BY <2>2 DEF TypeOK, QuestionTypes, question, InHand
    <3> QED
      BY <3>1, <3>2, <3>3 DEF TypeOK, PlaceTypes, StorageTypes, QuestionTypes, GapTypes
<1>4. ASSUME NEW w \in writing, Write(w) \/ WriteFails(w)
      PROVE  TypeOK' /\ InHand'
  <2>1. store' \in Positioned \cup {None}
    BY <1>4 DEF Write, WriteFails, TypeOK, Positioned
  <2>2. /\ writing' \subseteq writing /\ awaiting' \in {awaiting, {}}
        /\ asking' \in {asking, "no"}
        /\ UNCHANGED <<srv, handed, runs, up, place, established, arriving, early, floor,
                       taking, again, gaps, history>>
    BY <1>4 DEF Write, WriteFails, Written
  <2>3. owed' \in BOOLEAN
    BY <1>4 DEF Write, WriteFails, Written, TypeOK
  <2> QED
    BY <2>1, <2>2, <2>3 DEF TypeOK, InHand
<1>5. CASE Stop
  <2>1. early' \in Seq(waited')
    BY <1>5 DEF Stop
  <2>2. asking' = "no" /\ local' = 1 /\ floor' = 1 /\ chasing' = None
    BY <1>0, <1>5 DEF Stop
  <2>3. 1 \in 1 .. MaxPts
    BY <1>0 DEF TypeOK
  <2> QED
    BY <1>0, <1>5, <2>1, <2>2, <2>3 DEF TypeOK, InHand, Stop
<1>6. CASE Start
  BY <1>6 DEF TypeOK, InHand, Start, Positioned
<1>7. ASSUME NEW p \in Log, Arrive(p)
      PROVE  TypeOK' /\ InHand'
  BY <1>7 DEF TypeOK, InHand, Arrive, question
<1>8. ASSUME NEW p \in Log, Harvested(p)
      PROVE  TypeOK' /\ InHand'
  BY <1>8, HoldEarlyTypes DEF TypeOK, Harvested
<1>9. ASSUME NEW p \in Log, ArrivalFails(p)
      PROVE  TypeOK' /\ InHand'
  BY <1>9 DEF TypeOK, InHand, ArrivalFails, question
<1>10. CASE Unanswered
  BY <1>10, QuestionFailsTypes DEF Unanswered
<1>11. CASE AskAgain
  <2>1. asking' \in {asking, "asking"} /\ floor' \in Origin .. MaxPts
    BY <1>11 DEF TypeOK, AskAgain, Establish
  <2>2. again' = FALSE /\ (asking' = asking \/ asking' = "asking")
        /\ UNCHANGED <<srv, handed, storage, place, established, arriving, early, awaiting,
                       taking, owed, gaps, history>>
    BY <1>11 DEF AskAgain, Establish
  <2>3. PlaceTypes' /\ GapTypes' /\ StorageTypes'
    BY <2>2 DEF TypeOK, PlaceTypes, GapTypes, StorageTypes
  <2>4. QuestionTypes' /\ InHand'
    BY <2>1, <2>2 DEF TypeOK, QuestionTypes, InHand
  <2> QED
    BY <2>3, <2>4 DEF TypeOK, PlaceTypes, StorageTypes, QuestionTypes, GapTypes
<1>12. ASSUME NEW upto \in Origin .. MaxPts, TakeBaseline(upto)
       PROVE  TypeOK' /\ InHand'
  <2>1. seq' \in Nat
    BY <1>12, SeqAtType, AdvanceType DEF TypeOK, TakeBaseline
  <2>2. told' \in 0 .. MaxPts
    BY <1>0, <1>12 DEF TypeOK, TakeBaseline, Larger
  <2> QED
    BY <1>0, <1>12, <2>1, <2>2 DEF TypeOK, InHand, TakeBaseline
<1>13. CASE DrainOne
  <2>1. early \in Seq(waited) /\ early # <<>> /\ waited \subseteq Log
    BY <1>13 DEF DrainOne, TypeOK
  <2>2. Head(early) \in Log
    BY <2>1
  <2>3. handed' \subseteq Log /\ local' \in Origin .. MaxPts /\ WaitsIn
    <3>1. CASE Consume(Head(early))
      BY <2>2, <3>1, ConsumeFollows DEF Followed
    <3>2. CASE /\ handed' = handed \cup {Head(early)}
               /\ UNCHANGED <<local, pending, window, held>>
      BY <2>2, <3>2 DEF TypeOK, WaitsIn
    <3> QED
      BY <1>13, <3>1, <3>2 DEF DrainOne, DrainUpdate
  <2> QED
    BY <1>13, <2>1, <2>2, <2>3 DEF TypeOK, InHand, DrainOne, WaitsIn
<1>14. CASE DrainContainer
  <2>1. early \in Seq(waited) /\ early # <<>> /\ waited \subseteq Log
    BY <1>14 DEF DrainContainer, TypeOK
  <2>2. Head(early) \in Log
    BY <2>1
  <2> QED
    BY <1>14, <2>1, <2>2 DEF TypeOK, InHand, DrainContainer
<1>15. CASE DrainHarvested
  <2>2. Followed /\ WaitsIn /\ seq' \in Nat
    BY <1>15, ConsumeContainerFollows DEF DrainHarvested, InHand
  <2>3. /\ asking = "harvesting" /\ asking' = "handled"
        /\ UNCHANGED <<srv, storage, established, arriving, early, floor, taking, awaiting,
                       again, owed, chasing, todo, history>>
    BY <1>15 DEF DrainHarvested
  <2> QED
    BY <2>2, <2>3 DEF TypeOK, InHand, WaitsIn, Followed
<1>16. CASE DrainFails
  BY <1>16, QuestionFailsTypes DEF DrainFails
<1>17. CASE Established
  <2>1. writing' \subseteq [pts : Origin .. MaxPts, seq : Nat, first : BOOLEAN]
    BY <1>17, SnapshotType DEF TypeOK, Established
  <2>2. /\ established' = TRUE /\ asking' = "saving"
        /\ UNCHANGED <<srv, handed, store, runs, up, place, arriving, early, floor, awaiting,
                       taking, again, owed, gaps, history>>
    BY <1>17 DEF Established
  <2> QED
    BY <2>1, <2>2 DEF TypeOK, InHand, place, gaps, history, fate
<1>18. ASSUME NEW p \in Log, Feed(p)
       PROVE  TypeOK' /\ InHand'
  <2>1. Followed /\ WaitsIn /\ seq' \in Nat
    <3>1. CASE Consume(p) /\ UNCHANGED seq
      BY <3>1, ConsumeFollows DEF TypeOK
    <3>2. CASE ConsumeContainer(p)
      BY <3>2, ConsumeContainerFollows
    <3> QED
      BY <1>18, <3>1, <3>2 DEF Feed
  <2>2. /\ owed' = TRUE
        /\ UNCHANGED <<srv, storage, question, arriving, chasing, todo, history>>
    BY <1>18 DEF Feed
  <2>3. srv' = srv /\ UNCHANGED <<storage, history, question, arriving, chasing, todo>>
    BY <2>2
  <2>4. InHand'
    BY <2>3 DEF InHand, question
  <2>5. srv' \in Origin .. MaxPts /\ chasing' \in [from : Origin .. MaxPts,
            floor : Origin .. MaxPts, recovering : BOOLEAN] \cup {None}
    BY <2>3 DEF TypeOK
  <2> QED
    BY <2>1, <2>2, <2>4, <2>5 DEF TypeOK, WaitsIn, Followed, question
<1>19. CASE Recover
  <2>1. chasing' \in [from : Origin .. MaxPts, floor : Origin .. MaxPts,
                      recovering : BOOLEAN] \cup {None}
    BY <1>19, CatchUpTypes DEF TypeOK, Recover
  <2>2. /\ asking' \in {asking, "asking"}
        /\ floor' \in Origin .. MaxPts
        /\ awaiting' \subseteq {"feed", "recover"}
    BY <1>19 DEF Recover, Establish, TypeOK
  <2> QED
    BY <1>19, <2>1, <2>2 DEF TypeOK, InHand, Recover
<1>20. CASE WindowEnds
  <2> DEFINE freed == IF pending = "ordered" THEN Unbroken(local, window) ELSE {}
             top == Top(local, freed)
  <2>1. freed \subseteq window /\ top \in Origin .. MaxPts
    <3>1. freed = Unbroken(local, window) \/ freed = {}
      OBVIOUS
    <3>2. local \in Origin .. MaxPts /\ window \in SUBSET Log
      BY DEF TypeOK
    <3> HIDE DEF freed
    <3> QED
      BY <3>1, <3>2, UnbrokenHasNoHole
  <2>2. /\ local' = top /\ handed' = handed \cup freed
        /\ \/ UNCHANGED <<chasing, held>>
           \/ CatchUp(top, FALSE) /\ held' \subseteq window
    BY <1>20 DEF WindowEnds, TypeOK
  <2>3. handed' \subseteq Log /\ held' \subseteq Log
    BY <2>1, <2>2 DEF TypeOK
  <2>4. chasing' \in [from : Origin .. MaxPts, floor : Origin .. MaxPts,
                      recovering : BOOLEAN] \cup {None}
    BY <2>1, <2>2, CatchUpTypes DEF TypeOK
  <2> HIDE DEF freed, top
  <2>5. local' \in Origin .. MaxPts
    BY <2>1, <2>2
  <2> QED
    BY <1>20, <2>3, <2>4, <2>5 DEF TypeOK, InHand, WindowEnds, question
<1>21. CASE CatchUpFails
  BY <1>21 DEF TypeOK, InHand, CatchUpFails, question
<1>22. ASSUME NEW upto \in Origin .. MaxPts, CaughtUp(upto)
       PROVE  TypeOK' /\ InHand'
  <2>1. seq' \in Nat
    BY <1>22, SeqAtType, AdvanceType DEF TypeOK, CaughtUp
  <2>2. handed' \subseteq Log
    <3>1. chasing.from \in Origin .. MaxPts
      BY <1>22 DEF CaughtUp, TypeOK
    <3>2. chasing.from + 1 .. upto \subseteq Log
      BY <1>0, <3>1 DEF Log
    <3> QED
      BY <1>22, <3>2 DEF TypeOK, CaughtUp, TakeDifference
  <2> QED
    BY <1>22, <2>1, <2>2 DEF TypeOK, InHand, CaughtUp, TakeDifference, question
<1>23. ASSUME NEW p \in Log, DrainHeld(p)
       PROVE  TypeOK' /\ InHand'
  <2>1. Followed /\ WaitsIn
    BY <1>23, ConsumeFollows DEF DrainHeld
  <2> QED
    BY <1>23, <2>1 DEF TypeOK, InHand, DrainHeld, WaitsIn, Followed, question
<1>24. CASE Shift
  <2>1. early \in Seq(waited) /\ early # <<>>
    BY <1>24 DEF Shift, TypeOK, InHand
  <2>2. Tail(early) \in Seq(waited) /\ Head(early) \in waited
    BY <2>1
  <2>3. early' \in Seq(waited) /\ cut' \subseteq waited /\ asking' = "draining" /\ taking' = 0
    BY <1>24, <2>2 DEF Shift, TypeOK
  <2>4. UNCHANGED <<srv, handed, storage, place, established, arriving, floor, awaiting,
                    again, owed, gaps, told, waited, dropped, passed>>
    BY <1>24 DEF Shift
  <2> QED
    BY <2>3, <2>4 DEF TypeOK, InHand
<1> QED
  BY <1>1, <1>2, <1>3, <1>4, <1>5, <1>6, <1>7, <1>8, <1>9, <1>10, <1>11, <1>12, <1>13,
     <1>14, <1>15, <1>16, <1>17, <1>18, <1>19, <1>20, <1>21, <1>22, <1>23, <1>24
  DEF Next, AnswersAndTimers

-----------------------------------------------------------------------------
(* Every position that may come to be written down is safe.                *)

\* Taking something in leaves every one of them so.
LEMMA FollowedKeepsSafe ==
  ASSUME TypeOK, EverySourceIsSafe, Followed,
         UNCHANGED <<told, store, writing, chasing>>
  PROVE  EverySourceIsSafe'
<1>1. handed \subseteq handed' /\ told' \in Nat /\ told <= told'
  BY DEF Followed, TypeOK
<1>2. Safe(local)'
  BY FollowedIsSafe DEF EverySourceIsSafe
<1> QED
  BY <1>1, <1>2, OthersStaySafe DEF EverySourceIsSafe

\* So does whatever moves no position.
LEMMA StillKeepsSafe ==
  ASSUME TypeOK, EverySourceIsSafe,
         UNCHANGED <<local, handed, told, store, writing, chasing>>
  PROVE  EverySourceIsSafe'
<1>1. handed \subseteq handed' /\ told' \in Nat /\ told <= told'
  BY DEF TypeOK
<1> QED
  BY <1>1, OthersStaySafe DEF EverySourceIsSafe

LEMMA SafeStep ==
  ASSUME IInv, [Next]_vars
  PROVE  EverySourceIsSafe'
<1> USE DEF storage, place, gaps, history, fate, IInv
<1>0. /\ MaxPts \in Nat /\ Origin = 1
      /\ told \in Nat /\ told <= told
      /\ Safe(Origin) /\ Safe(Origin)'
  BY BaselineAssumption, LogType DEF Origin, Safe, TypeOK
<1>1. CASE UNCHANGED vars
  BY <1>1, StillKeepsSafe DEF vars
<1>2. CASE \/ Happen \/ AskAgain \/ Unanswered \/ DrainFails \/ DrainContainer \/ Shift
           \/ \E p \in Log : Arrive(p) \/ Harvested(p) \/ ArrivalFails(p)
  <2>1. UNCHANGED <<local, handed, told, store, writing, chasing>>
    BY <1>2 DEF Happen, AskAgain, Unanswered, DrainFails, DrainContainer, Shift, Arrive,
                Harvested, ArrivalFails, HoldEarly, QuestionFails
  <2> QED
    BY <2>1, StillKeepsSafe
<1>3. CASE Remember \/ Established
  <2>1. PICK first \in BOOLEAN : writing' = writing \cup {Snapshot(first)}
    BY <1>3 DEF Remember, Established
  <2>2. UNCHANGED <<local, handed, told, store, chasing>>
    BY <1>3 DEF Remember, Established
  <2>3. /\ Safe(local)'
        /\ \A w \in writing : Safe(w.pts)
        /\ store' # None => Safe(store.pts)'
        /\ chasing' # None => Safe(chasing.from)'
    BY <1>0, <2>2, OthersStaySafe DEF EverySourceIsSafe
  <2>4. ASSUME NEW w \in writing' PROVE Safe(w.pts)'
    <3>1. CASE w \in writing
      BY <2>2, <2>3, <3>1 DEF Safe
    <3>2. CASE w = Snapshot(first)
      BY <2>2, <3>2, SnapshotType DEF EverySourceIsSafe, Safe
    <3> QED
      BY <2>1, <2>4, <3>1, <3>2
  <2> QED
    BY <2>3, <2>4 DEF EverySourceIsSafe
<1>4. ASSUME NEW w \in writing, Write(w) \/ WriteFails(w)
      PROVE  EverySourceIsSafe'
  <2>1. /\ UNCHANGED <<local, handed, told, chasing>>
        /\ writing' \subseteq writing
        /\ store' = store \/ store'.pts = w.pts
    BY <1>4 DEF Write, WriteFails, Written
  <2>2. \A v \in writing : Safe(v.pts)'
    BY <2>1 DEF EverySourceIsSafe, Safe
  <2> QED
    BY <1>0, <2>1, <2>2, OthersStaySafe DEF EverySourceIsSafe
<1>5. CASE Stop
  <2>1. UNCHANGED <<handed, told, store>> /\ local' = Origin
    BY <1>5 DEF Stop
  <2>2. writing' = {} /\ chasing' = None
    BY <1>5 DEF Stop
  <2>3. store' # None => Safe(store.pts)'
    BY <1>0, <2>1, OthersStaySafe
  <2> QED
    BY <1>0, <2>1, <2>2, <2>3 DEF EverySourceIsSafe, Safe
<1>6. CASE Start
  <2>1. /\ UNCHANGED <<handed, told, store, writing, chasing>>
        /\ UNCHANGED local \/ (store # None /\ local' = store.pts)
    BY <1>6 DEF Start
  <2>2. Safe(local)'
    BY <2>1 DEF EverySourceIsSafe, Safe
  <2> QED
    BY <1>0, <2>1, <2>2, OthersStaySafe DEF EverySourceIsSafe
<1>7. ASSUME NEW upto \in Origin .. MaxPts, TakeBaseline(upto)
      PROVE  EverySourceIsSafe'
  <2>1. /\ UNCHANGED <<handed, store, writing, chasing>>
        /\ local' = upto
        /\ told' \in Nat /\ told <= told' /\ upto <= told'
    BY <1>0, <1>7 DEF TakeBaseline, Larger
  <2>2. Safe(local)'
    BY <1>0, <2>1, LogType DEF Safe
  <2> QED
    BY <2>1, <2>2, OthersStaySafe DEF EverySourceIsSafe
<1>8. CASE DrainOne
  <2>1. early \in Seq(waited) /\ early # <<>> /\ waited \subseteq Log
    BY <1>8 DEF DrainOne, TypeOK
  <2>2. Head(early) \in Log
    BY <2>1
  <2>3. Followed
    <3>1. CASE Consume(Head(early))
      BY <2>2, <3>1, ConsumeFollows
    <3>2. CASE handed' = handed \cup {Head(early)} /\ UNCHANGED local
      <4>1. local \in Origin .. MaxPts /\ local \in Nat /\ handed \subseteq Log
        BY <1>0 DEF TypeOK
      <4>2. \A p \in Log : ~(local < p /\ p <= local)
        BY <4>1, LogType
      <4> QED
        BY <2>2, <3>2, <4>1, <4>2 DEF Followed
    <3> QED
      BY <1>8, <3>1, <3>2 DEF DrainOne, DrainUpdate
  <2> QED
    BY <1>8, <2>3, FollowedKeepsSafe DEF DrainOne
<1>9. CASE DrainHarvested
  <2>1. Followed
    BY <1>9, ConsumeContainerFollows DEF DrainHarvested, InHand
  <2> QED
    BY <1>9, <2>1, FollowedKeepsSafe DEF DrainHarvested
<1>10. ASSUME NEW p \in Log, Feed(p)
       PROVE  EverySourceIsSafe'
  <2>1. Followed
    BY <1>10, ConsumeFollows, ConsumeContainerFollows DEF Feed
  <2> QED
    BY <1>10, <2>1, FollowedKeepsSafe DEF Feed
<1>11. ASSUME NEW p \in Log, DrainHeld(p)
       PROVE  EverySourceIsSafe'
  <2>1. Followed
    BY <1>11, ConsumeFollows DEF DrainHeld
  <2> QED
    BY <1>11, <2>1, FollowedKeepsSafe DEF DrainHeld
<1>12. CASE Recover
  <2>1. UNCHANGED <<local, handed, told, store, writing>>
    BY <1>12 DEF Recover
  <2>2. UNCHANGED chasing \/ chasing'.from = local
    BY <1>12, CatchUpTypes DEF Recover, TypeOK
  <2>3. Safe(local)'
    BY <2>1 DEF EverySourceIsSafe, Safe
  <2> QED
    BY <1>0, <2>1, <2>2, <2>3, OthersStaySafe DEF EverySourceIsSafe, Safe
<1>13. CASE WindowEnds
  <2> DEFINE freed == IF pending = "ordered" THEN Unbroken(local, window) ELSE {}
             top == Top(local, freed)
  <2>1. /\ freed \subseteq window
        /\ top \in Origin .. MaxPts
        /\ \A p \in Log : local < p /\ p <= top => p \in freed
    <3>1. freed = Unbroken(local, window) \/ freed = {}
      OBVIOUS
    <3>2. local \in Origin .. MaxPts /\ window \in SUBSET Log
      BY DEF TypeOK
    <3> HIDE DEF freed
    <3> QED
      BY <3>1, <3>2, UnbrokenHasNoHole
  <2>2. local' = top /\ handed' = handed \cup freed
    BY <1>13 DEF WindowEnds
  <2>3. UNCHANGED chasing \/ CatchUp(top, FALSE)
    BY <1>13 DEF WindowEnds
  <2> HIDE DEF freed, top
  <2>4. Followed
    BY <2>1, <2>2 DEF Followed, TypeOK
  <2>5. UNCHANGED <<told, store, writing>>
    BY <1>13 DEF WindowEnds
  <2>6. Safe(local)'
    BY <2>4, <2>5, FollowedIsSafe DEF EverySourceIsSafe
  <2>7. UNCHANGED chasing \/ chasing'.from = local'
    BY <2>1, <2>2, <2>3, CatchUpTypes
  <2> QED
    BY <1>0, <2>4, <2>5, <2>6, <2>7, OthersStaySafe DEF EverySourceIsSafe, Followed, Safe
<1>14. CASE CatchUpFails
  <2>1. UNCHANGED <<local, handed, told, store, writing>> /\ chasing' = None
    BY <1>14 DEF CatchUpFails
  <2> QED
    BY <1>0, <2>1, OthersStaySafe DEF EverySourceIsSafe
<1>15. ASSUME NEW upto \in Origin .. MaxPts, CaughtUp(upto)
       PROVE  EverySourceIsSafe'
  <2>1. /\ UNCHANGED <<told, store, writing>>
        /\ chasing # None /\ chasing' = None
        /\ handed' = handed \cup (chasing.from + 1 .. upto)
        /\ local' = upto
    BY <1>15 DEF CaughtUp, TakeDifference
  <2>2. chasing.from \in Origin .. MaxPts
    BY <2>1 DEF TypeOK
  <2>3. ASSUME NEW p \in Log, p <= upto
        PROVE  p \in handed' \/ p <= told
    <3>1. p \in Nat
      BY LogType
    <3>2. CASE p <= chasing.from
      BY <2>1, <3>2 DEF EverySourceIsSafe, Safe
    <3>3. CASE chasing.from < p
      BY <1>0, <2>1, <2>2, <2>3, <3>1, <3>3
    <3> QED
      BY <1>0, <2>2, <3>1, <3>2, <3>3
  <2>4. Safe(local)'
    BY <2>1, <2>3 DEF Safe
  <2> QED
    BY <1>0, <2>1, <2>4, OthersStaySafe DEF EverySourceIsSafe
<1> QED
  BY <1>1, <1>2, <1>3, <1>4, <1>5, <1>6, <1>7, <1>8, <1>9, <1>10, <1>11, <1>12, <1>13,
     <1>14, <1>15
  DEF Next, AnswersAndTimers

-----------------------------------------------------------------------------
LEMMA InitIInv == Init => IInv
<1> SUFFICES ASSUME Init PROVE IInv
  OBVIOUS
<1>1. MaxPts \in Nat /\ Origin = 1
  BY BaselineAssumption DEF Origin
<1>2. srv \in Origin .. MaxPts /\ Origin \in Origin .. MaxPts
  BY <1>1 DEF Init
<1>3. early \in Seq(waited)
  BY DEF Init
<1>4. TypeOK
  <2>1. /\ told \in 0 .. MaxPts /\ local \in Origin .. MaxPts /\ floor \in Origin .. MaxPts
        /\ seq \in Nat /\ runs \in Nat /\ taking \in Log \cup {0}
    BY <1>1, <1>2 DEF Init
  <2>2. /\ handed = {} /\ waited = {} /\ dropped = {} /\ cut = {} /\ passed = {}
        /\ writing = {} /\ arriving = {} /\ awaiting = {} /\ window = {} /\ held = {} /\ todo = {}
    BY DEF Init
  <2>3. /\ store = None /\ chasing = None /\ asking = "no" /\ pending = "none"
        /\ up = TRUE /\ established = FALSE /\ again = FALSE /\ owed = FALSE
    BY DEF Init
  <2> QED
    BY <1>2, <1>3, <2>1, <2>2, <2>3 DEF TypeOK
<1>5. Safe(Origin)
  BY <1>1, LogType DEF Safe
<1> QED
  BY <1>4, <1>5 DEF Init, IInv, InHand, EverySourceIsSafe

\* In every state of every run, all of it holds.
THEOREM Invariance == Spec => []IInv
<1>1. IInv /\ [Next]_vars => IInv'
  BY TypeStep, SafeStep DEF IInv
<1> QED
  BY InitIInv, <1>1, PTL DEF Spec

\* Every variable holds what its comment says of it.
THEOREM TypeCorrect == Spec => []TypeOK
<1>1. IInv => TypeOK
  BY DEF IInv
<1> QED
  BY Invariance, <1>1, PTL

(***************************************************************************)
(* A position that is in the store when a run ends, however it ends, is    *)
(* safe to resume from: what it counts was handed out, or lay behind a     *)
(* position Telegram gave as a start (#remember in account.ts).            *)
(***************************************************************************)
THEOREM StoredStaysSafe == Spec => []StoredIsSafe
<1>1. IInv => StoredIsSafe
  BY DEF IInv, EverySourceIsSafe, StoredIsSafe
<1> QED
  BY Invariance, <1>1, PTL

-----------------------------------------------------------------------------
(***************************************************************************)
(* The question.  It is asked while something is held early or a recovery  *)
(* waits; one that is to be asked again finds something held early; and    *)
(* the write it makes is made by an account that has its position.  An     *)
(* account that is down has nothing of a run left.                         *)
(***************************************************************************)
Down ==
    /\ waited = {} /\ arriving = {} /\ early = <<>> /\ todo = {}
    /\ asking = "no" /\ ~again /\ ~established
    /\ pending = "none" /\ chasing = None /\ local = Origin

AskInv ==
    /\ asking = "asking" => early # <<>> \/ "recover" \in awaiting
    /\ again /\ ~established /\ asking \in {"no", "asking"} => early # <<>>
    /\ \A w \in writing : w.first => established
    /\ ~up => Down

\* Whatever is neither the server's nor the store's is done by a run that is up.
LEMMA OnlyUp ==
  ASSUME ~up => Down, [Next]_vars
  PROVE  \/ up
         \/ Start
         \/ UNCHANGED <<waited, arriving, early, todo, asking, again, established, pending,
                        chasing, local, up>>
<1> USE DEF storage, place, gaps, history, fate, question
<1>1. CASE UNCHANGED vars
  BY <1>1 DEF vars
<1>2. CASE Happen \/ Remember \/ Stop \/ Start \/ Recover
  BY <1>2 DEF Happen, Remember, Stop, Recover
<1>3. ASSUME NEW w \in writing, Write(w) \/ WriteFails(w), ~up
      PROVE  UNCHANGED <<waited, arriving, early, todo, asking, again, established, pending,
                         chasing, local, up>>
  BY <1>3 DEF Write, WriteFails, Written, Down
<1>4. ASSUME NEW p \in Log, Arrive(p) \/ Harvested(p) \/ ArrivalFails(p) \/ Feed(p)
      PROVE  up
  BY <1>4 DEF Arrive, Harvested, ArrivalFails, Feed, Down
<1>5. CASE AnswersAndTimers
  BY <1>5
  DEF AnswersAndTimers, Down, Unanswered, AskAgain, TakeBaseline, DrainOne, DrainContainer,
      DrainHarvested, Shift, DrainFails, Established, WindowEnds, CatchUpFails, CaughtUp,
      DrainHeld
<1> QED
  BY <1>1, <1>2, <1>3, <1>4, <1>5 DEF Next

LEMMA DownStays ==
  ASSUME ~up => Down, [Next]_vars
  PROVE  ~up' => Down'
<1>1. CASE UNCHANGED <<waited, arriving, early, todo, asking, again, established, pending,
                       chasing, local, up>>
  BY <1>1 DEF Down
<1>2. CASE Start
  BY <1>2 DEF Start
<1>3. CASE up
  <2>1. CASE Stop
    BY <2>1 DEF Stop, Down
  <2>2. CASE ~Stop
    <3>1. UNCHANGED up
      BY <1>3, <2>2
      DEF Next, AnswersAndTimers, vars, storage, Happen, Remember, Start, Recover, Write,
          WriteFails, Written, Arrive, Harvested, HoldEarly, ArrivalFails, Feed, Unanswered,
          QuestionFails, AskAgain, TakeBaseline, DrainOne, DrainContainer, DrainHarvested,
          Shift, DrainFails, Established, WindowEnds, CatchUpFails, CaughtUp, DrainHeld
    <3> QED
      BY <1>3, <3>1
  <2> QED
    BY <2>1, <2>2
<1> QED
  BY <1>1, <1>2, <1>3, OnlyUp

LEMMA AskStep ==
  ASSUME TypeOK, InHand, InHand', AskInv, [Next]_vars
  PROVE  AskInv'
<1> USE DEF storage, place, gaps, history, fate, question
<1>0. ~up' => Down'
  BY DownStays DEF AskInv
<1>1. CASE UNCHANGED vars
  BY <1>0, <1>1 DEF AskInv, vars
<1>2. CASE \/ Happen \/ CatchUpFails \/ WindowEnds
           \/ \E upto \in Origin .. MaxPts : CaughtUp(upto)
           \/ \E p \in Log : Arrive(p) \/ ArrivalFails(p) \/ Feed(p) \/ DrainHeld(p)
  <2>1. UNCHANGED <<established, early, asking, awaiting, again, writing>>
    BY <1>2
    DEF Happen, CatchUpFails, WindowEnds, CaughtUp, Arrive, ArrivalFails, Feed, DrainHeld
  <2> QED
    BY <1>0, <2>1 DEF AskInv
<1>3. CASE Remember
  <2>1. /\ UNCHANGED <<established, early, asking, awaiting, again>>
        /\ writing' = writing \cup {Snapshot(FALSE)}
    BY <1>3 DEF Remember
  <2>2. Snapshot(FALSE).first = FALSE
    BY DEF Snapshot
  <2> QED
    BY <1>0, <2>1, <2>2 DEF AskInv
<1>4. ASSUME NEW w \in writing, Write(w) \/ WriteFails(w)
      PROVE  AskInv'
  <2>1. /\ UNCHANGED <<established, early, again>>
        /\ writing' \subseteq writing
        /\ \/ w.first /\ asking' = "no"
           \/ UNCHANGED <<asking, awaiting>>
    BY <1>4 DEF Write, WriteFails, Written
  <2>2. w.first => established
    BY DEF AskInv
  <2> QED
    BY <1>0, <2>1, <2>2 DEF AskInv
<1>5. CASE Stop
  BY <1>0, <1>5 DEF AskInv, Stop
<1>6. CASE Start
  <2>1. ~up /\ UNCHANGED <<early, asking, awaiting, again, writing>>
    BY <1>6 DEF Start
  <2>2. asking = "no" /\ ~again /\ \A w \in writing : ~w.first
    BY <2>1 DEF AskInv, Down
  <2> QED
    BY <1>0, <2>1, <2>2 DEF AskInv
<1>7. ASSUME NEW p \in Log, Harvested(p)
      PROVE  AskInv'
  <2>1. UNCHANGED <<established, writing>>
    BY <1>7 DEF Harvested, HoldEarly
  <2>2. early' # <<>>
    <3>1. early' = Append(early, p) \/ early' = Append(Tail(early), p)
      BY <1>7 DEF Harvested, HoldEarly
    <3>2. early \in Seq(waited) /\ (Len(early) >= MaxEarly => early # <<>>)
      BY BaselineAssumption DEF TypeOK
    <3> QED
      BY <1>7, <3>1, <3>2, BaselineAssumption DEF Harvested, HoldEarly
  <2> QED
    BY <1>0, <2>1, <2>2 DEF AskInv
<1>8. CASE Unanswered \/ DrainFails
  <2>1. /\ asking' = "no" /\ again' = (again \/ early # <<>>)
        /\ UNCHANGED <<established, early, writing>>
    BY <1>8 DEF Unanswered, DrainFails, QuestionFails
  <2>2. asking = "asking" \/ early # <<>>
    BY <1>8 DEF Unanswered, DrainFails, InHand
  <2> QED
    BY <1>0, <2>1, <2>2 DEF AskInv
<1>9. CASE AskAgain
  <2>1. /\ again /\ again' = FALSE
        /\ UNCHANGED <<established, early, awaiting, writing>>
    BY <1>9 DEF AskAgain
  <2>2. UNCHANGED asking \/ (asking = "no" /\ ~established)
    BY <1>9 DEF AskAgain, Establish
  <2> QED
    BY <1>0, <2>1, <2>2 DEF AskInv
<1>10. CASE Recover
  <2>1. /\ UNCHANGED <<established, early, again, writing>>
        /\ \/ UNCHANGED <<asking, awaiting>>
           \/ /\ "recover" \in awaiting'
              /\ asking' = asking \/ (asking = "no" /\ asking' = "asking")
    BY <1>10 DEF Recover, Establish
  <2> QED
    BY <1>0, <2>1 DEF AskInv
<1>11. CASE \/ \E upto \in Origin .. MaxPts : TakeBaseline(upto)
            \/ DrainOne \/ DrainContainer \/ DrainHarvested \/ Shift
  <2>1. asking' \in {"draining", "harvesting", "handled"} /\ UNCHANGED <<established, writing>>
    BY <1>11 DEF TakeBaseline, DrainOne, DrainContainer, DrainHarvested, Shift
  <2> QED
    BY <1>0, <2>1 DEF AskInv
<1>12. CASE Established
  <2>1. asking' = "saving" /\ established'
    BY <1>12 DEF Established
  <2> QED
    BY <1>0, <2>1 DEF AskInv
<1> QED
  BY <1>1, <1>2, <1>3, <1>4, <1>5, <1>6, <1>7, <1>8, <1>9, <1>10, <1>11, <1>12
  DEF Next, AnswersAndTimers

LEMMA AskInvariance == Spec => []AskInv
<1>1. Init => AskInv
  BY DEF Init, AskInv
<1>2. IInv /\ IInv' /\ AskInv /\ [Next]_vars => AskInv'
  BY AskStep DEF IInv
<1> QED
  BY <1>1, <1>2, Invariance, PTL DEF Spec

(***************************************************************************)
(* The question is asked only while an update that was held or a recovery  *)
(* waits for it, whoever comes late to the wait and however often it fails *)
(* and is asked again (establish, establishLater).                         *)
(***************************************************************************)
THEOREM QuestionHasAReason == Spec => []AsksForAReason
<1>1. AskInv => AsksForAReason
  BY DEF AskInv, AsksForAReason
<1> QED
  BY <1>1, AskInvariance, PTL

-----------------------------------------------------------------------------
(***************************************************************************)
(* What the answers say.  Telegram has said nothing its box had not        *)
(* reached, and an answer on its way is no older than the one before it;   *)
(* only a catch-up that is running has updates held for it.                *)
(***************************************************************************)
AnswerInv ==
    /\ told <= srv
    /\ asking = "asking" => told <= floor
    /\ chasing = None => held = {}

LEMMA ConsumeHolds ==
  ASSUME NEW p, Consume(p) \/ ConsumeContainer(p), chasing = None, held = {}
  PROVE  held' = {}
<1>1. ASSUME Consume(p) PROVE held' = {}
  BY <1>1 DEF Consume, Queue
<1> QED
  BY <1>1 DEF ConsumeContainer, Queue

\* A window that ends lets everything through, or starts a catch-up for the rest.
LEMMA WindowEndsOrChases ==
  ASSUME TypeOK, WindowEnds
  PROVE  /\ chasing = None
         /\ UNCHANGED <<chasing, held>> \/ (chasing' # None /\ chasing'.from = local')
<1> DEFINE freed == IF pending = "ordered" THEN Unbroken(local, window) ELSE {}
           top == Top(local, freed)
<1>1. top \in Origin .. MaxPts
  <2>1. freed = Unbroken(local, window) \/ freed = {}
    OBVIOUS
  <2> QED
    BY <2>1, UnbrokenHasNoHole DEF TypeOK
<1>2. /\ chasing = None /\ local' = top
      /\ UNCHANGED <<chasing, held>> \/ CatchUp(top, FALSE)
  BY DEF WindowEnds
<1> HIDE DEF top
<1>3. ASSUME CatchUp(top, FALSE) PROVE chasing' # None /\ chasing'.from = top
  <2>1. MaxPts \in Nat /\ srv \in Origin .. MaxPts
    BY BaselineAssumption DEF TypeOK
  <2>2. chasing' \in [from : Nat, floor : Nat, recovering : BOOLEAN]
    BY <1>1, <1>3, <2>1 DEF CatchUp, Origin
  <2> QED
    BY <1>3, <2>2, BaselineAssumption DEF CatchUp
<1> QED
  BY <1>2, <1>3

LEMMA AnswerStep ==
  ASSUME TypeOK, AnswerInv, AskInv, [Next]_vars
  PROVE  AnswerInv'
<1> USE DEF storage, place, gaps, history, fate, question
<1>0. /\ MaxPts \in Nat /\ Origin = 1
      /\ srv \in Nat /\ told \in Nat /\ floor \in Nat
  BY BaselineAssumption DEF Origin, TypeOK
<1>1. CASE UNCHANGED vars
  BY <1>1 DEF AnswerInv, vars
<1>2. CASE Happen
  BY <1>0, <1>2 DEF AnswerInv, Happen
<1>3. CASE \/ Remember
           \/ \E w \in writing : Write(w) \/ WriteFails(w)
           \/ \E p \in Log : Arrive(p) \/ ArrivalFails(p)
           \/ Unanswered \/ DrainFails \/ DrainContainer \/ Shift \/ Established
  <2>1. /\ UNCHANGED <<srv, told, floor, chasing, held>>
        /\ asking' = asking \/ asking' # "asking"
    BY <1>3
    DEF Remember, Write, WriteFails, Written, Arrive, ArrivalFails, Unanswered, DrainFails,
        QuestionFails, DrainContainer, Shift, Established
  <2> QED
    BY <2>1 DEF AnswerInv
<1>4. CASE Stop
  BY <1>4 DEF AnswerInv, Stop
<1>5. CASE Start
  BY <1>5 DEF AnswerInv, Start
<1>6. CASE \/ \E p \in Log : Harvested(p)
           \/ AskAgain
  <2>1. /\ UNCHANGED <<srv, told, chasing, held>>
        /\ UNCHANGED <<asking, floor>> \/ floor' = srv
    BY <1>6 DEF Harvested, HoldEarly, AskAgain, Establish
  <2> QED
    BY <2>1 DEF AnswerInv
<1>7. CASE Recover
  <2>1. /\ UNCHANGED <<srv, told, held>>
        /\ UNCHANGED <<asking, floor>> \/ floor' = srv
        /\ chasing' = chasing \/ chasing = None
    BY <1>7 DEF Recover, Establish
  <2>2. chasing' = None => held' = {}
    BY <2>1 DEF AnswerInv
  <2> QED
    BY <2>1, <2>2 DEF AnswerInv
<1>8. ASSUME NEW upto \in Origin .. MaxPts, TakeBaseline(upto)
      PROVE  AnswerInv'
  <2>1. /\ asking' = "draining" /\ told' = Larger(told, upto) /\ upto <= srv
        /\ UNCHANGED <<srv, chasing, held>>
    BY <1>8 DEF TakeBaseline
  <2>2. told' <= srv
    BY <2>1 DEF AnswerInv, Larger
  <2> QED
    BY <2>1, <2>2 DEF AnswerInv
<1>9. CASE DrainOne
  <2>1. /\ UNCHANGED <<srv, told, floor, chasing>> /\ asking' = "handled"
        /\ Consume(Head(early)) \/ UNCHANGED held
    BY <1>9 DEF DrainOne, DrainUpdate
  <2> QED
    BY <2>1, ConsumeHolds DEF AnswerInv
<1>10. CASE DrainHarvested
  <2>1. /\ UNCHANGED <<srv, told, floor, chasing>> /\ asking' = "handled"
        /\ ConsumeContainer(taking)
    BY <1>10 DEF DrainHarvested
  <2> QED
    BY <2>1, ConsumeHolds DEF AnswerInv
<1>11. ASSUME NEW p \in Log, Feed(p) \/ DrainHeld(p)
       PROVE  AnswerInv'
  <2>1. /\ UNCHANGED <<srv, told, floor, asking, chasing>>
        /\ Consume(p) \/ ConsumeContainer(p)
    BY <1>11 DEF Feed, DrainHeld
  <2> QED
    BY <2>1, ConsumeHolds DEF AnswerInv
<1>12. CASE WindowEnds
  <2>1. /\ UNCHANGED <<srv, told, floor, asking>>
        /\ chasing = None
        /\ UNCHANGED <<chasing, held>> \/ chasing' # None
    BY <1>12, WindowEndsOrChases DEF WindowEnds
  <2> QED
    BY <2>1 DEF AnswerInv
<1>13. CASE CatchUpFails \/ \E upto \in Origin .. MaxPts : CaughtUp(upto)
  <2>1. UNCHANGED <<srv, told, floor, asking>> /\ held' = {}
    BY <1>13 DEF CatchUpFails, CaughtUp
  <2> QED
    BY <2>1 DEF AnswerInv
<1> QED
  BY <1>1, <1>2, <1>3, <1>4, <1>5, <1>6, <1>7, <1>8, <1>9, <1>10, <1>11, <1>12, <1>13
  DEF Next, AnswersAndTimers

LEMMA AnswerInvariance == Spec => []AnswerInv
<1>1. Init => AnswerInv
  BY BaselineAssumption DEF Init, AnswerInv, Origin
<1>2. IInv /\ AskInv /\ AnswerInv /\ [Next]_vars => AnswerInv'
  BY AnswerStep DEF IInv
<1> QED
  BY <1>1, <1>2, Invariance, AskInvariance, PTL DEF Spec

-----------------------------------------------------------------------------
(***************************************************************************)
(* What arrived early is kept.  Kept itself is not inductive: it does not  *)
(* say why what leaves a list (a window that is cleared, an update judged  *)
(* to be seen) was handed out.  It was, because what waits for a catch-up  *)
(* lies ahead of the box, and whatever moves the box on hands out what it  *)
(* moves past or, an answer, passes over it.  An answer may also bring the *)
(* box back, but only over what was handed out.                            *)
(***************************************************************************)
Gone(p) == p \in handed \cup dropped \cup cut \cup passed

Settled(p) == Gone(p) \/ (p \in window \cup held \cup todo /\ p > local)

NothingUnplaced == \A p \in waited : p \in Listed(early) \/ Settled(p)

\* What a run resumes from was counted by another, and this one has held nothing.
Resumed == established /\ waited = {} /\ arriving = {} /\ asking = "no" /\ ~again

\* A container the box has reached is counted among the containers, or was handed out.
Counted == Resumed \/ \A p \in Numbered : p <= local => SeqAt(p) <= seq \/ p \in handed

\* What is in hand and handled has its place, so it may be taken off the list.
HandSettled == asking = "handled" => Settled(taking)

\* A container in hand is yet to come, or was dealt with meanwhile.
HandNumbered ==
    asking = "harvesting" =>
        taking \in Numbered /\ (SeqAt(taking) > seq \/ Settled(taking))

\* If an answer has brought the box back, it was over what had been handed out.
BehindChase ==
    chasing # None => \A p \in Log : local < p /\ p <= chasing.from => p \in handed

KeptInv == NothingUnplaced /\ HandSettled /\ HandNumbered /\ BehindChase /\ Counted

-----------------------------------------------------------------------------
(* The numbers of containers.                                              *)

LEMMA NumberedIsLog == Numbered \subseteq Log /\ Log \subseteq Nat
BY BaselineAssumption, LogType

LEMMA BehindIsFinite ==
  ASSUME NEW r PROVE IsFiniteSet({x \in Numbered : x <= r})
<1>1. Origin + 1 \in Int /\ MaxPts \in Int
  BY BaselineAssumption DEF Origin
<1>2. IsFiniteSet(Log)
  BY <1>1, FS_Interval DEF Log
<1>3. {x \in Numbered : x <= r} \subseteq Log
  BY BaselineAssumption
<1> QED
  BY <1>2, <1>3, FS_Subset

\* A container's number is larger than that of any position before it.
LEMMA SeqAtGrows ==
  ASSUME NEW p \in Nat, NEW q \in Numbered, p < q
  PROVE  SeqAt(p) < SeqAt(q)
<1> DEFINE Behind(r) == {x \in Numbered : x <= r}
<1>1. q \in Behind(q) \ Behind(p) /\ Behind(p) \subseteq Behind(q)
  <2>1. q \in Nat /\ Numbered \subseteq Nat
    BY NumberedIsLog
  <2>2. q <= q /\ ~(q <= p)
    BY <2>1
  <2>3. ASSUME NEW x \in Numbered, x <= p PROVE x <= q
    BY <2>1, <2>3
  <2> QED
    BY <2>2, <2>3
<1>2. IsFiniteSet(Behind(q)) /\ IsFiniteSet(Behind(p))
  BY BehindIsFinite
<1>3. Cardinality(Behind(p)) < Cardinality(Behind(q))
  <2>1. Behind(p) # Behind(q)
    BY <1>1
  <2>2. Cardinality(Behind(p)) \in Nat /\ Cardinality(Behind(q)) \in Nat
    BY <1>2, FS_CardinalityType
  <2> HIDE DEF Behind
  <2>3. /\ Cardinality(Behind(p)) <= Cardinality(Behind(q))
        /\ Cardinality(Behind(q)) # Cardinality(Behind(p))
    BY <1>1, <1>2, <2>1, FS_Subset
  <2> QED
    BY <2>2, <2>3
<1> QED
  BY <1>3 DEF SeqAt

\* So a position whose number reaches a container's lies no further back.
LEMMA SeqAtReaches ==
  ASSUME NEW p \in Nat, NEW q \in Numbered, SeqAt(q) <= SeqAt(p)
  PROVE  q <= p
<1>1. q \in Nat /\ SeqAt(p) \in Nat /\ SeqAt(q) \in Nat
  BY NumberedIsLog, SeqAtType
<1>2. p < q => SeqAt(p) < SeqAt(q)
  BY SeqAtGrows
<1> QED
  BY <1>1, <1>2

\* Every container has a number.
LEMMA NumberIsPositive ==
  ASSUME NEW q \in Numbered
  PROVE  NumberOf(q) = SeqAt(q) /\ SeqAt(q) \in Nat /\ SeqAt(q) > 0
<1>1. q \in Nat /\ q > 0
  BY NumberedIsLog, LogType DEF Origin
<1>2. 0 \in Nat /\ 0 < q
  BY <1>1
<1>3. SeqAt(0) < SeqAt(q) /\ SeqAt(0) \in Nat /\ SeqAt(q) \in Nat
  BY <1>2, SeqAtGrows, SeqAtType
<1> QED
  BY <1>3 DEF NumberOf

-----------------------------------------------------------------------------
(* What taking an update in does to what waits for a catch-up.             *)

Waits(p) == p > local /\ p \in window \cup held

LEMMA QueueKeepsWaiting ==
  ASSUME NEW P, NEW kind, Queue(P, kind)
  PROVE  window \cup held \cup P \subseteq window' \cup held'
BY DEF Queue

\* What waits goes on waiting or is handed out; so does what is taken in.
LEMMA ConsumeKeepsWaiting ==
  ASSUME TypeOK, NEW q \in Log, Consume(q),
         NEW p \in Log, Waits(p) \/ (p = q /\ p > local)
  PROVE  p \in handed' \/ Waits(p)'
<1> DEFINE freed == IF pending = "ordered" THEN Unbroken(q, window) ELSE {}
           top == Top(q, freed)
<1>1. MaxPts \in Nat /\ Origin = 1 /\ local \in Nat /\ p \in Nat /\ q \in Nat /\ p > local
  BY BaselineAssumption, LogType DEF TypeOK, Origin, Waits
<1>2. CASE /\ UNCHANGED local
           /\ window \cup held \cup {q} \subseteq window' \cup held'
  BY <1>1, <1>2 DEF Waits
<1>3. CASE Judge(local, q, 1) = "seen" /\ UNCHANGED <<local, window, held>>
  <2>1. ~(q > local)
    <3>1. local # NoPts
      BY <1>1 DEF NoPts
    <3> QED
      BY <1>1, <1>3, <3>1 DEF Judge
  <2> QED
    BY <1>3, <2>1 DEF Waits
<1>4. CASE /\ Judge(local, q, 1) = "apply"
           /\ local' = top
           /\ handed' = handed \cup {q} \cup freed
           /\ UNCHANGED held
           /\ UNCHANGED window \/ window' = {r \in window : r > top}
  <2>1. top \in Nat
    <3>1. freed = Unbroken(q, window) \/ freed = {}
      OBVIOUS
    <3>2. q \in Origin .. MaxPts
      BY <1>1, LogType
    <3>3. top \in Origin .. MaxPts
      BY <3>1, <3>2, UnbrokenHasNoHole DEF TypeOK
    <3> QED
      BY <1>1, <3>3
  <2>2. p <= top => p \in handed'
    <3>1. Followed
      BY ConsumeFollows
    <3> QED
      BY <1>1, <1>4, <3>1 DEF Followed
  <2> HIDE DEF top
  <2>3. p > top => p \in handed' \/ Waits(p)'
    BY <1>4 DEF Waits
  <2> QED
    BY <1>1, <2>1, <2>2, <2>3
<1> QED
  BY <1>2, <1>3, <1>4, QueueKeepsWaiting DEF Consume

LEMMA ContainerKeepsWaiting ==
  ASSUME TypeOK, NEW q \in Log, ConsumeContainer(q),
         NEW p \in Log, Waits(p)
  PROVE  p \in handed' \/ Waits(p)'
<1>1. CASE UNCHANGED <<place, handed, pending, window, held>>
  BY <1>1 DEF Waits, place
<1>2. CASE Queue({q}, "asking") /\ UNCHANGED <<place, handed>>
  BY <1>2, QueueKeepsWaiting DEF Waits, place
<1>3. CASE Consume(q)
  BY <1>3, ConsumeKeepsWaiting
<1> QED
  BY <1>1, <1>2, <1>3 DEF ConsumeContainer

\* A container that has not been counted gets its place when it is taken in.
LEMMA ContainerIsPlaced ==
  ASSUME TypeOK, NEW q \in Numbered, ConsumeContainer(q), SeqAt(q) > seq,
         q <= local => q \in handed
  PROVE  q \in handed' \/ Waits(q)'
<1>1. /\ q \in Log /\ q \in Nat /\ local \in Nat /\ seq \in Nat
      /\ NumberOf(q) = SeqAt(q) /\ SeqAt(q) \in Nat
  BY NumberedIsLog, NumberIsPositive, BaselineAssumption DEF TypeOK, Origin
<1>2. handed \subseteq handed'
  BY <1>1, ConsumeContainerFollows DEF Followed
<1>3. CASE q <= local
  BY <1>2, <1>3
<1>4. CASE q > local
  <2>1. JudgeContainer(seq, NumberOf(q)) # "seen"
    BY <1>1 DEF JudgeContainer
  <2>2. CASE Queue({q}, "asking") /\ UNCHANGED <<place, handed>>
    BY <1>4, <2>2, QueueKeepsWaiting DEF Waits, place
  <2>3. CASE Consume(q)
    BY <1>1, <1>4, <2>3, ConsumeKeepsWaiting
  <2> QED
    BY <2>1, <2>2, <2>3 DEF ConsumeContainer
<1> QED
  BY <1>1, <1>3, <1>4

\* If it counts another container, that one was the very next.
LEMMA ContainerCounts ==
  ASSUME TypeOK, NEW q \in Log, ConsumeContainer(q),
         NEW p \in Numbered, SeqAt(p) > seq, ~(SeqAt(p) > seq')
  PROVE  p = q
<1>1. /\ p \in Nat /\ q \in Nat /\ seq \in Nat
      /\ SeqAt(p) \in Nat /\ SeqAt(q) \in Nat /\ NumberOf(q) \in Nat
  BY NumberedIsLog, SeqAtType, NumberType DEF TypeOK
<1>2. seq' # seq
  BY <1>1
<1>3. JudgeContainer(seq, NumberOf(q)) = "apply" /\ seq' = AdvanceContainer(seq, NumberOf(q))
  BY <1>2 DEF ConsumeContainer, place
<1>4. NumberOf(q) = seq + 1 /\ seq' = NumberOf(q)
  BY <1>1, <1>2, <1>3 DEF JudgeContainer, AdvanceContainer, Larger
<1>5. q \in Numbered /\ NumberOf(q) = SeqAt(q)
  BY <1>1, <1>4 DEF NumberOf
<1>6. SeqAt(p) = SeqAt(q)
  BY <1>1, <1>4, <1>5
<1>7. p <= q /\ q <= p
  BY <1>1, <1>5, <1>6, SeqAtReaches
<1> QED
  BY <1>1, <1>7

-----------------------------------------------------------------------------
(* What has its place keeps it, whatever the run does.                     *)

\* What has not been reached is not reached unless it is handed out.
LEMMA FollowedLeavesAhead ==
  ASSUME TypeOK, Followed, NEW p \in Log, p > local
  PROVE  p \in handed' \/ p > local'
<1>1. MaxPts \in Nat /\ Origin = 1 /\ p \in Nat /\ local \in Nat /\ local' \in Nat
  BY BaselineAssumption, LogType DEF TypeOK, Origin, Followed
<1> QED
  BY <1>1 DEF Followed

\* A window that ends hands out what it moves past, and the rest waits on.
LEMMA WindowEndsKeepsWaiting ==
  ASSUME TypeOK, AnswerInv, WindowEnds
  PROVE  /\ Followed
         /\ \A p \in Log : Waits(p) => p \in handed' \/ Waits(p)'
<1> DEFINE freed == IF pending = "ordered" THEN Unbroken(local, window) ELSE {}
           top == Top(local, freed)
           left == IF pending = "ordered" THEN {q \in window : q > top} ELSE window
<1>1. /\ freed \subseteq window
      /\ top \in Origin .. MaxPts
      /\ \A p \in Log : local < p /\ p <= top => p \in freed
  <2>1. freed = Unbroken(local, window) \/ freed = {}
    OBVIOUS
  <2> QED
    BY <2>1, UnbrokenHasNoHole DEF TypeOK
<1>2. /\ local' = top /\ handed' = handed \cup freed /\ held = {}
      /\ left = {} \/ held' = left \/ left \subseteq held'
  BY DEF WindowEnds, AnswerInv
<1>3. Followed
  <2> HIDE DEF freed, top
  <2> QED
    BY <1>1, <1>2 DEF Followed, TypeOK
<1>4. ASSUME NEW p \in Log, Waits(p)
      PROVE  p \in handed' \/ Waits(p)'
  <2>1. p \in window
    BY <1>2, <1>4 DEF Waits
  <2>2. p \in handed' \/ p > local'
    BY <1>3, <1>4, FollowedLeavesAhead DEF Waits
  <2>3. CASE p > local'
    <3>1. p \in left
      BY <1>2, <2>1, <2>3
    <3> HIDE DEF left
    <3> QED
      BY <1>2, <2>3, <3>1 DEF Waits
  <2> QED
    BY <2>2, <2>3
<1> QED
  BY <1>3, <1>4

\* A difference hands out whatever lies between the box and where it ends.
LEMMA CaughtUpHandsOut ==
  ASSUME TypeOK, BehindChase, NEW upto \in Origin .. MaxPts, CaughtUp(upto)
  PROVE  \A p \in Log : local < p /\ p <= upto => p \in handed'
<1>1. MaxPts \in Nat /\ Origin = 1 /\ upto \in Nat
  BY BaselineAssumption DEF Origin
<1>2. /\ chasing # None
      /\ handed' = handed \cup (chasing.from + 1 .. upto)
  BY DEF CaughtUp, TakeDifference
<1>3. chasing.from \in Nat
  BY <1>1, <1>2 DEF TypeOK
<1> SUFFICES ASSUME NEW p \in Log, local < p, p <= upto
             PROVE  p \in handed'
  OBVIOUS
<1>4. CASE p <= chasing.from
  BY <1>2, <1>4 DEF BehindChase
<1>5. CASE ~(p <= chasing.from)
  BY <1>1, <1>2, <1>3, <1>5, LogType
<1> QED
  BY <1>4, <1>5

\* Taking something in, wherever it comes from.
LEMMA TakingInKeepsSettled ==
  ASSUME TypeOK, NEW q \in Log, Consume(q) \/ ConsumeContainer(q),
         UNCHANGED <<dropped, cut, passed>>,
         NEW p \in Log, Settled(p), todo' = todo \/ (todo' = todo \ {q} /\ Consume(q))
  PROVE  Settled(p)'
<1>1. Followed
  BY ConsumeFollows, ConsumeContainerFollows
<1>2. CASE Gone(p)
  BY <1>1, <1>2 DEF Settled, Gone, Followed
<1>3. CASE Waits(p)
  <2>1. p \in handed' \/ Waits(p)'
    BY <1>3, ConsumeKeepsWaiting, ContainerKeepsWaiting
  <2> QED
    BY <2>1 DEF Settled, Gone, Waits
<1>4. CASE p \in todo /\ p > local /\ p \in todo'
  <2>1. p \in handed' \/ p > local'
    BY <1>1, <1>4, FollowedLeavesAhead
  <2> QED
    BY <1>4, <2>1 DEF Settled, Gone
<1>5. CASE p = q /\ p > local /\ Consume(q)
  <2>1. p \in handed' \/ Waits(p)'
    BY <1>5, ConsumeKeepsWaiting
  <2> QED
    BY <2>1 DEF Settled, Gone, Waits
<1> QED
  BY <1>2, <1>3, <1>4, <1>5 DEF Settled, Waits

LEMMA SettledStays ==
  ASSUME IInv, AnswerInv, BehindChase, [Next]_vars, ~Start, ~Stop,
         NEW p \in Log, Settled(p)
  PROVE  Settled(p)'
<1> USE DEF storage, place, gaps, history, fate, question, IInv
<1>0. /\ MaxPts \in Nat /\ Origin = 1 /\ local \in Nat /\ p \in Nat
  BY BaselineAssumption, LogType DEF Origin, TypeOK
<1>1. CASE \/ UNCHANGED vars
           \/ Happen \/ Remember \/ Recover \/ Unanswered \/ AskAgain \/ DrainContainer
           \/ Shift \/ DrainFails \/ Established
           \/ \E w \in writing : Write(w) \/ WriteFails(w)
           \/ \E q \in Log : Arrive(q) \/ Harvested(q) \/ ArrivalFails(q)
  <2>1. /\ UNCHANGED <<local, handed, window, held, todo, passed>>
        /\ dropped \subseteq dropped' /\ cut \subseteq cut'
    BY <1>1
    DEF vars, Happen, Remember, Recover, Unanswered, QuestionFails, AskAgain, DrainContainer,
        Shift, DrainFails, Established, Write, WriteFails, Written, Arrive, Harvested,
        HoldEarly, ArrivalFails
  <2> QED
    BY <2>1 DEF Settled, Gone
<1>2. ASSUME NEW upto \in Origin .. MaxPts, TakeBaseline(upto)
      PROVE  Settled(p)'
  <2>1. /\ UNCHANGED <<handed, window, held, todo, dropped, cut>> /\ local' = upto
        /\ passed' = passed \cup {q \in window \cup held \cup todo : q <= upto}
    BY <1>2 DEF TakeBaseline
  <2>2. p <= upto \/ p > upto
    BY <1>0
  <2> QED
    BY <2>1, <2>2 DEF Settled, Gone
<1>3. CASE DrainOne
  <2>1. Head(early) \in Log
    <3>1. early \in Seq(waited) /\ early # <<>> /\ waited \subseteq Log
      BY <1>3 DEF DrainOne, TypeOK
    <3> QED
      BY <3>1
  <2>2. UNCHANGED <<dropped, cut, passed, todo>>
    BY <1>3 DEF DrainOne
  <2>3. CASE Consume(Head(early))
    BY <2>1, <2>2, <2>3, TakingInKeepsSettled
  <2>4. CASE handed \subseteq handed' /\ UNCHANGED <<local, pending, window, held>>
    BY <2>2, <2>4 DEF Settled, Gone
  <2> QED
    BY <1>3, <2>3, <2>4 DEF DrainOne, DrainUpdate
<1>4. CASE DrainHarvested
  <2>1. taking \in Log /\ ConsumeContainer(taking) /\ UNCHANGED <<dropped, cut, passed, todo>>
    BY <1>4 DEF DrainHarvested, InHand
  <2> QED
    BY <2>1, TakingInKeepsSettled
<1>5. ASSUME NEW q \in Log, Feed(q) \/ DrainHeld(q)
      PROVE  Settled(p)'
  <2>1. /\ Consume(q) \/ ConsumeContainer(q)
        /\ UNCHANGED <<dropped, cut, passed>>
        /\ todo' = todo \/ (todo' = todo \ {q} /\ Consume(q))
    BY <1>5 DEF Feed, DrainHeld
  <2> QED
    BY <2>1, TakingInKeepsSettled
<1>6. CASE WindowEnds
  <2>1. UNCHANGED <<dropped, cut, passed, todo>>
    BY <1>6 DEF WindowEnds
  <2>2. /\ handed \subseteq handed'
        /\ p > local => p \in handed' \/ p > local'
        /\ Waits(p) => p \in handed' \/ Waits(p)'
    BY <1>6, WindowEndsKeepsWaiting, FollowedLeavesAhead DEF Followed
  <2> QED
    BY <2>1, <2>2 DEF Settled, Gone, Waits
<1>7. ASSUME NEW upto \in Origin .. MaxPts, CaughtUp(upto)
      PROVE  Settled(p)'
  <2>1. /\ UNCHANGED <<dropped, cut, passed, window>> /\ handed \subseteq handed'
        /\ todo' = todo \cup held /\ local' = upto
    BY <1>7 DEF CaughtUp, TakeDifference
  <2>2. p > local => p \in handed' \/ p > upto
    BY <1>0, <1>7, CaughtUpHandsOut
  <2> QED
    BY <2>1, <2>2 DEF Settled, Gone
<1>8. CASE CatchUpFails
  <2>1. /\ UNCHANGED <<dropped, cut, passed, handed, local, todo>>
        /\ window' = window \cup held
    BY <1>8 DEF CatchUpFails
  <2> QED
    BY <2>1 DEF Settled, Gone
<1> QED
  BY <1>1, <1>2, <1>3, <1>4, <1>5, <1>6, <1>7, <1>8 DEF Next, AnswersAndTimers

-----------------------------------------------------------------------------
(* Lists of early updates.                                                 *)

\* The first of a list is taken off it, and nothing else.
LEMMA TailListed ==
  ASSUME NEW S, NEW s \in Seq(S), s # <<>>
  PROVE  Listed(s) \subseteq {Head(s)} \cup Listed(Tail(s))
<1>1. ASSUME NEW i \in DOMAIN s PROVE s[i] \in {Head(s)} \cup Listed(Tail(s))
  <2>1. CASE i = 1
    BY <2>1
  <2>2. CASE i # 1
    <3>1. i - 1 \in DOMAIN Tail(s) /\ Tail(s)[i - 1] = s[i]
      BY <2>2
    <3> QED
      BY <3>1 DEF Listed
  <2> QED
    BY <2>1, <2>2
<1> QED
  BY <1>1 DEF Listed

LEMMA AppendListed ==
  ASSUME NEW S, NEW s \in Seq(S), NEW x \in S
  PROVE  Listed(Append(s, x)) = Listed(s) \cup {x}
<1>1. ASSUME NEW i \in DOMAIN s PROVE i \in DOMAIN Append(s, x) /\ Append(s, x)[i] = s[i]
  OBVIOUS
<1>2. Len(s) + 1 \in DOMAIN Append(s, x) /\ Append(s, x)[Len(s) + 1] = x
  OBVIOUS
<1>3. ASSUME NEW i \in DOMAIN Append(s, x)
      PROVE  i = Len(s) + 1 \/ i \in DOMAIN s
  OBVIOUS
<1>4. Listed(Append(s, x)) \subseteq Listed(s) \cup {x}
  BY <1>1, <1>2, <1>3 DEF Listed
<1>5. Listed(s) \cup {x} \subseteq Listed(Append(s, x))
  BY <1>1, <1>2 DEF Listed
<1> QED
  BY <1>4, <1>5

-----------------------------------------------------------------------------
(* The rest of it, one part at a time.                                     *)

\* A box that is catching up is moved by nothing but an answer.
LEMMA ConsumeMoves ==
  ASSUME NEW q, Consume(q) \/ ConsumeContainer(q), chasing # None
  PROVE  UNCHANGED local
<1>1. ASSUME Consume(q) PROVE UNCHANGED local
  BY <1>1 DEF Consume
<1> QED
  BY <1>1 DEF ConsumeContainer, place

\* Taking in, and letting through, hands out what it moves past; no number goes back.
LEMMA MovesFollow ==
  ASSUME IInv, AnswerInv,
         DrainOne \/ DrainHarvested \/ WindowEnds \/ \E q \in Log : Feed(q) \/ DrainHeld(q)
  PROVE  Followed /\ seq' \in Nat /\ seq <= seq'
<1>0. /\ MaxPts \in Nat /\ Origin = 1 /\ local \in Nat /\ seq \in Nat
      /\ \A p \in Log : p \in Nat
  BY BaselineAssumption, LogType DEF Origin, IInv, TypeOK
<1>1. ASSUME NEW q \in Log, Consume(q) \/ ConsumeContainer(q)
      PROVE  Followed
  BY <1>1, ConsumeFollows, ConsumeContainerFollows DEF IInv
<1>2. ASSUME NEW q \in Log, ConsumeContainer(q)
      PROVE  seq' \in Nat /\ seq <= seq'
  <2>1. NumberOf(q) \in Nat
    BY NumberType
  <2>2. seq' = seq \/ seq' = AdvanceContainer(seq, NumberOf(q))
    BY <1>2 DEF ConsumeContainer, place
  <2> QED
    BY <1>0, <2>1, <2>2 DEF AdvanceContainer, Larger
<1>3. CASE DrainOne
  <2>1. Head(early) \in Log
    <3>1. early \in Seq(waited) /\ early # <<>> /\ waited \subseteq Log
      BY <1>3 DEF DrainOne, IInv, TypeOK
    <3> QED
      BY <3>1
  <2>2. UNCHANGED seq
    BY <1>3 DEF DrainOne
  <2>3. CASE Consume(Head(early))
    BY <1>0, <1>1, <2>1, <2>2, <2>3
  <2>4. CASE handed' = handed \cup {Head(early)} /\ UNCHANGED local
    <3>1. local \in Origin .. MaxPts /\ handed \subseteq Log
      BY DEF IInv, TypeOK
    <3> QED
      BY <1>0, <2>1, <2>2, <2>4, <3>1 DEF Followed
  <2> QED
    BY <1>3, <2>3, <2>4 DEF DrainOne, DrainUpdate
<1>4. CASE DrainHarvested
  <2>1. taking \in Log /\ ConsumeContainer(taking)
    BY <1>4 DEF DrainHarvested, IInv, InHand
  <2> QED
    BY <1>1, <1>2, <2>1
<1>5. CASE WindowEnds
  <2>1. UNCHANGED seq
    BY <1>5 DEF WindowEnds
  <2> QED
    BY <1>0, <1>5, <2>1, WindowEndsKeepsWaiting DEF IInv
<1>6. ASSUME NEW q \in Log, Feed(q) \/ DrainHeld(q)
      PROVE  Followed /\ seq' \in Nat /\ seq <= seq'
  <2>1. (Consume(q) /\ UNCHANGED seq) \/ ConsumeContainer(q)
    BY <1>6 DEF Feed, DrainHeld
  <2> QED
    BY <1>0, <1>1, <1>2, <2>1
<1> QED
  BY <1>3, <1>4, <1>5, <1>6

LEMMA BehindChaseStep ==
  ASSUME IInv, AnswerInv, AskInv, BehindChase, [Next]_vars
  PROVE  BehindChase'
<1> USE DEF storage, place, gaps, history, fate, question, IInv
<1>0. /\ MaxPts \in Nat /\ Origin = 1 /\ told \in Nat /\ floor \in Nat
      /\ \A p \in Log : p \in Nat
  BY BaselineAssumption, LogType DEF Origin, TypeOK
<1>1. CASE \/ UNCHANGED vars
           \/ Happen \/ Remember \/ Unanswered \/ AskAgain \/ DrainContainer
           \/ Shift \/ DrainFails \/ Established
           \/ \E w \in writing : Write(w) \/ WriteFails(w)
           \/ \E q \in Log : Arrive(q) \/ Harvested(q) \/ ArrivalFails(q)
  <2>1. UNCHANGED <<local, handed, chasing>>
    BY <1>1
    DEF vars, Happen, Remember, Unanswered, QuestionFails, AskAgain, DrainContainer,
        Shift, DrainFails, Established, Write, WriteFails, Written, Arrive, Harvested,
        HoldEarly, ArrivalFails
  <2> QED
    BY <2>1 DEF BehindChase
<1>2. CASE Stop \/ CatchUpFails \/ \E upto \in Origin .. MaxPts : CaughtUp(upto)
  BY <1>2 DEF BehindChase, Stop, CatchUpFails, CaughtUp
<1>3. CASE Start
  <2>1. chasing = None /\ UNCHANGED chasing
    BY <1>3 DEF Start, AskInv, Down
  <2> QED
    BY <2>1 DEF BehindChase
<1>4. CASE Recover
  <2>1. UNCHANGED <<local, handed>> /\ (UNCHANGED chasing \/ CatchUp(local, TRUE))
    BY <1>4 DEF Recover
  <2>2. CASE UNCHANGED chasing
    BY <2>1, <2>2 DEF BehindChase
  <2>3. CASE CatchUp(local, TRUE)
    <3>1. chasing'.from = local' /\ local' \in Nat
      BY <1>0, <2>1, <2>3 DEF CatchUp, TypeOK
    <3> QED
      BY <1>0, <3>1 DEF BehindChase
  <2> QED
    BY <2>1, <2>2, <2>3
<1>5. ASSUME NEW upto \in Origin .. MaxPts, TakeBaseline(upto)
      PROVE  BehindChase'
  <2>1. /\ UNCHANGED <<handed, chasing>> /\ local' = upto
        /\ told <= floor /\ floor <= upto
    BY <1>5 DEF TakeBaseline, AnswerInv
  <2>2. ASSUME chasing # None, NEW p \in Log, upto < p, p <= chasing.from
        PROVE  p \in handed
    <3>1. p \in handed \/ p <= told
      BY <2>2 DEF EverySourceIsSafe, Safe
    <3> QED
      BY <1>0, <2>1, <2>2, <3>1
  <2> QED
    BY <2>1, <2>2 DEF BehindChase
<1>6. CASE DrainOne \/ DrainHarvested \/ \E q \in Log : Feed(q) \/ DrainHeld(q)
  <2>1. /\ UNCHANGED chasing
        /\ UNCHANGED local \/ \E q : Consume(q) \/ ConsumeContainer(q)
    BY <1>6 DEF DrainOne, DrainUpdate, DrainHarvested, Feed, DrainHeld
  <2>2. chasing # None => UNCHANGED local
    BY <2>1, ConsumeMoves
  <2>3. handed \subseteq handed'
    BY <1>6, MovesFollow DEF Followed
  <2> QED
    BY <2>1, <2>2, <2>3 DEF BehindChase
<1>7. CASE WindowEnds
  <2>1. chasing = None /\ (UNCHANGED chasing \/ chasing'.from = local')
    BY <1>7, WindowEndsOrChases
  <2>2. local' \in Nat
    BY <1>0, <1>7, WindowEndsKeepsWaiting DEF Followed
  <2> QED
    BY <1>0, <2>1, <2>2 DEF BehindChase
<1> QED
  BY <1>1, <1>2, <1>3, <1>4, <1>5, <1>6, <1>7 DEF Next, AnswersAndTimers

LEMMA ResumedStays ==
  ASSUME AskInv, Resumed, [Next]_vars, ~Stop
  PROVE  Resumed'
<1> USE DEF storage, place, gaps, history, fate, question
<1>1. established /\ waited = {} /\ arriving = {} /\ asking = "no" /\ ~again
  BY DEF Resumed
<1>2. UNCHANGED <<established, waited, arriving, asking, again>>
  <2>1. CASE UNCHANGED vars \/ Happen \/ Remember \/ Recover
    BY <1>1, <2>1 DEF vars, Happen, Remember, Recover
  <2>2. CASE Start
    BY <1>1, <2>2 DEF Start, AskInv, Down
  <2>3. ASSUME NEW w \in writing, Write(w) \/ WriteFails(w)
        PROVE  UNCHANGED <<established, waited, arriving, asking, again>>
    BY <1>1, <2>3 DEF Write, WriteFails, Written
  <2>4. ASSUME NEW p \in Log, Arrive(p) \/ Harvested(p) \/ ArrivalFails(p) \/ Feed(p)
        PROVE  UNCHANGED <<established, waited, arriving, asking, again>>
    BY <1>1, <2>4 DEF Arrive, Harvested, ArrivalFails, Feed
  <2>5. CASE AnswersAndTimers
    BY <1>1, <2>5
    DEF AnswersAndTimers, Unanswered, AskAgain, TakeBaseline, DrainOne, DrainContainer,
        DrainHarvested, Shift, DrainFails, Established, WindowEnds, CatchUpFails, CaughtUp,
        DrainHeld
  <2> QED
    BY <2>1, <2>2, <2>3, <2>4, <2>5 DEF Next
<1> QED
  BY <1>1, <1>2 DEF Resumed

\* The numbers counted keep up with a box that hands out what it moves past.
CountedAt == \A p \in Numbered : p <= local => SeqAt(p) <= seq \/ p \in handed

LEMMA OnwardCounts ==
  ASSUME TypeOK, TypeOK', CountedAt, handed \subseteq handed', seq <= seq',
         \A p \in Log : p > local => p \in handed' \/ p > local'
  PROVE  CountedAt'
<1> SUFFICES ASSUME NEW p \in Numbered, p <= local', p \notin handed'
             PROVE  SeqAt(p) <= seq'
  BY DEF CountedAt, SeqAt
<1>1. p \in Log /\ p \in Nat /\ SeqAt(p) \in Nat
  BY NumberedIsLog, SeqAtType
<1>2. seq \in Nat /\ seq' \in Nat /\ local \in Nat /\ local' \in Nat
  BY BaselineAssumption DEF TypeOK, Origin
<1>3. p <= local
  BY <1>1, <1>2
<1>4. SeqAt(p) <= seq
  BY <1>3 DEF CountedAt
<1> QED
  BY <1>1, <1>2, <1>4

\* An answer says where the containers stand too.
LEMMA AnswerCounts ==
  ASSUME NEW upto \in Origin .. MaxPts, NEW p \in Numbered, p <= upto, seq \in Nat
  PROVE  SeqAt(p) <= AdvanceContainer(seq, SeqAt(upto))
<1>1. p \in Nat /\ upto \in Nat /\ SeqAt(p) \in Nat /\ SeqAt(upto) \in Nat
  BY NumberedIsLog, SeqAtType, BaselineAssumption DEF Origin
<1>2. SeqAt(p) <= SeqAt(upto)
  <2> DEFINE Behind(r) == {x \in Numbered : x <= r}
  <2>1. Behind(p) \subseteq Behind(upto)
    <3>1. Numbered \subseteq Nat
      BY NumberedIsLog
    <3>2. ASSUME NEW x \in Numbered, x <= p PROVE x <= upto
      BY <1>1, <3>1, <3>2
    <3> QED
      BY <3>2
  <2>2. IsFiniteSet(Behind(upto))
    BY BehindIsFinite
  <2>3. Cardinality(Behind(p)) <= Cardinality(Behind(upto))
    BY <2>1, <2>2, FS_Subset
  <2> QED
    BY <2>3 DEF SeqAt
<1> QED
  BY <1>1, <1>2 DEF AdvanceContainer, Larger

LEMMA CountedStep ==
  ASSUME IInv, IInv', AnswerInv, AskInv, BehindChase, Counted, [Next]_vars
  PROVE  Counted'
<1> USE DEF storage, place, gaps, history, fate, question
<1>0. /\ MaxPts \in Nat /\ Origin = 1 /\ local \in Nat /\ seq \in Nat
      /\ \A p \in Log : p \in Nat /\ p > Origin
  BY BaselineAssumption, LogType DEF Origin, IInv, TypeOK
<1>1. CASE Stop
  <2>1. local' = Origin
    BY <1>1 DEF Stop
  <2> QED
    BY <1>0, <2>1, NumberedIsLog DEF Counted
<1>2. CASE Start
  <2>1. Down /\ ~up
    BY <1>2 DEF AskInv, Start
  <2>2. CASE store = None
    <3>1. local' = Origin
      BY <1>2, <2>1, <2>2 DEF Start, Down
    <3> QED
      BY <1>0, <3>1, NumberedIsLog DEF Counted
  <2>3. CASE store # None
    <3>1. /\ established' /\ waited' = {} /\ arriving' = {} /\ asking' = "no" /\ again' = again
      BY <1>2, <2>1, <2>3 DEF Start, Down
    <3> QED
      BY <2>1, <3>1 DEF Counted, Resumed, Down
  <2> QED
    BY <2>2, <2>3
<1>3. CASE Resumed /\ ~Stop
  BY <1>3, ResumedStays DEF Counted
<1>4. ASSUME CountedAt, ~Stop, ~Start PROVE CountedAt'
  <2>1. CASE \/ UNCHANGED vars
             \/ Happen \/ Remember \/ Recover \/ Unanswered \/ AskAgain \/ DrainContainer
             \/ Shift \/ DrainFails \/ Established \/ CatchUpFails
             \/ \E w \in writing : Write(w) \/ WriteFails(w)
             \/ \E q \in Log : Arrive(q) \/ Harvested(q) \/ ArrivalFails(q)
    <3>1. UNCHANGED <<local, seq, handed>>
      BY <2>1
      DEF vars, Happen, Remember, Recover, Unanswered, QuestionFails, AskAgain,
          DrainContainer, Shift, DrainFails, Established, CatchUpFails, Write, WriteFails,
          Written, Arrive, Harvested, HoldEarly, ArrivalFails
    <3> QED
      BY <1>4, <3>1 DEF CountedAt, SeqAt
  <2>2. CASE \/ DrainOne \/ DrainHarvested \/ WindowEnds
             \/ \E q \in Log : Feed(q) \/ DrainHeld(q)
    <3>1. Followed /\ seq <= seq'
      BY <2>2, MovesFollow
    <3>2. \A p \in Log : p > local => p \in handed' \/ p > local'
      BY <3>1, FollowedLeavesAhead DEF IInv
    <3> QED
      BY <1>4, <3>1, <3>2, OnwardCounts DEF IInv, Followed
  <2>3. ASSUME NEW upto \in Origin .. MaxPts, TakeBaseline(upto) \/ CaughtUp(upto)
        PROVE  CountedAt'
    <3>1. local' = upto /\ seq' = AdvanceContainer(seq, SeqAt(upto))
      BY <2>3 DEF TakeBaseline, CaughtUp, TakeDifference
    <3>2. ASSUME NEW p \in Numbered, p <= local' PROVE SeqAt(p) <= seq'
      BY <1>0, <3>1, <3>2, AnswerCounts
    <3> QED
      BY <3>2 DEF CountedAt, SeqAt
  <2> QED
    BY <1>4, <2>1, <2>2, <2>3 DEF Next, AnswersAndTimers
<1> QED
  BY <1>1, <1>2, <1>3, <1>4 DEF Counted, CountedAt

\* What is taken off the early updates has its place, or was cut.
LEMMA UnplacedStep ==
  ASSUME IInv, AnswerInv, AskInv, BehindChase, NothingUnplaced, HandSettled, [Next]_vars,
         ~Start, ~Stop
  PROVE  NothingUnplaced'
<1> USE DEF storage, place, gaps, history, fate, question
<1>0. early \in Seq(waited) /\ waited \subseteq Log
  BY DEF IInv, TypeOK
<1>1. \A p \in waited : Settled(p) => Settled(p)'
  BY <1>0, SettledStays
<1>2. ASSUME NEW q \in Log, Harvested(q)
      PROVE  NothingUnplaced'
  <2>1. waited' = waited \cup {q} /\ early \in Seq(waited')
    BY <1>0, <1>2 DEF Harvested, HoldEarly
  <2>2. /\ q \in Listed(early)'
        /\ \A p \in Listed(early) : p \in Listed(early)' \/ p \in dropped'
    <3>1. CASE Len(early) >= MaxEarly
      <4>1. early # <<>>
        BY <1>0, <3>1, BaselineAssumption
      <4>2. Tail(early) \in Seq(waited')
        BY <2>1, <4>1
      <4>3. early' = Append(Tail(early), q) /\ dropped' = dropped \cup {Head(early)}
        BY <1>2, <3>1 DEF Harvested, HoldEarly
      <4>4. Listed(early)' = Listed(Tail(early)) \cup {q}
        BY <2>1, <4>2, <4>3, AppendListed DEF Listed
      <4>5. Listed(early) \subseteq {Head(early)} \cup Listed(Tail(early))
        BY <1>0, <4>1, TailListed
      <4> QED
        BY <4>3, <4>4, <4>5
    <3>2. CASE ~(Len(early) >= MaxEarly)
      <4>1. early' = Append(early, q)
        BY <1>2, <3>2 DEF Harvested, HoldEarly
      <4>2. Listed(early)' = Listed(early) \cup {q}
        BY <2>1, <4>1, AppendListed DEF Listed
      <4> QED
        BY <4>2
    <3> QED
      BY <3>1, <3>2
  <2>3. \A p \in Listed(early) : p \in Listed(early)' \/ Settled(p)'
    BY <2>2 DEF Settled, Gone
  <2> QED
    BY <1>1, <2>1, <2>2, <2>3 DEF NothingUnplaced
<1>3. CASE Shift
  <2>1. early # <<>> /\ UNCHANGED waited /\ early' = Tail(early)
    BY <1>3 DEF Shift, IInv, InHand
  <2>2. PICK h : h = Head(early)
    OBVIOUS
  <2>3. Listed(early) \subseteq {h} \cup Listed(early)'
    BY <1>0, <2>1, <2>2, TailListed DEF Listed
  <2>4. CASE h = taking
    <3>1. Settled(h) /\ h \in Log
      BY <1>3, <2>4 DEF Shift, HandSettled, IInv, InHand
    <3>2. Settled(h)'
      BY <3>1, SettledStays
    <3> QED
      BY <1>1, <2>1, <2>3, <3>2 DEF NothingUnplaced
  <2>5. CASE h # taking
    <3>1. Settled(h)'
      BY <1>3, <2>2, <2>5 DEF Shift, Settled, Gone
    <3> QED
      BY <1>1, <2>1, <2>3, <3>1 DEF NothingUnplaced
  <2> QED
    BY <2>4, <2>5
<1>4. CASE ~Shift /\ ~(\E q \in Log : Harvested(q))
  <2>1. UNCHANGED <<early, waited>>
    BY <1>4
    DEF Next, AnswersAndTimers, vars, Happen, Remember, Stop, Start, Recover, Write,
        WriteFails, Written, Arrive, ArrivalFails, Feed, Unanswered, QuestionFails, AskAgain,
        TakeBaseline, DrainOne, DrainContainer, DrainHarvested, DrainFails, Established,
        WindowEnds, CatchUpFails, CaughtUp, DrainHeld
  <2> QED
    BY <1>1, <2>1 DEF NothingUnplaced, Listed
<1> QED
  BY <1>2, <1>3, <1>4

LEMMA HandSettledStep ==
  ASSUME IInv, AnswerInv, BehindChase, Counted, HandSettled, HandNumbered, [Next]_vars,
         ~Start, ~Stop
  PROVE  HandSettled'
<1> USE DEF storage, place, gaps, history, fate, question
<1>1. CASE DrainOne
  <2>1. PICK h : h = Head(early)
    OBVIOUS
  <2>2. h \in Log
    <3>1. early \in Seq(waited) /\ early # <<>> /\ waited \subseteq Log
      BY <1>1 DEF DrainOne, IInv, TypeOK
    <3> QED
      BY <2>1, <3>1
  <2>3. taking' = h /\ DrainUpdate(h)
    BY <1>1, <2>1 DEF DrainOne
  <2>4. h \in handed' \/ Waits(h)'
    <3>1. CASE handed' = handed \cup {h}
      BY <3>1
    <3>2. CASE h > local /\ Consume(h)
      BY <2>2, <3>2, ConsumeKeepsWaiting DEF IInv
    <3> QED
      BY <2>3, <3>1, <3>2 DEF DrainUpdate
  <2> QED
    BY <2>3, <2>4 DEF HandSettled, Settled, Gone, Waits
<1>2. CASE DrainHarvested
  <2>1. /\ taking \in Numbered /\ taking \in Log /\ ConsumeContainer(taking)
        /\ SeqAt(taking) > seq \/ Settled(taking)
        /\ UNCHANGED taking
    BY <1>2 DEF DrainHarvested, HandNumbered, IInv, InHand
  <2>2. CASE Settled(taking)
    <3>1. PICK h : h = taking
      OBVIOUS
    <3>2. Settled(h)'
      BY <1>2, <2>1, <2>2, <3>1, SettledStays
    <3> QED
      BY <2>1, <3>1, <3>2 DEF HandSettled
  <2>3. CASE SeqAt(taking) > seq
    <3>1. taking <= local => taking \in handed
      <4>1. ~Resumed
        BY <1>2 DEF Resumed, DrainHarvested
      <4>2. SeqAt(taking) \in Nat /\ seq \in Nat
        BY SeqAtType DEF IInv, TypeOK
      <4> QED
        BY <2>1, <2>3, <4>1, <4>2 DEF Counted
    <3>2. PICK h : h = taking
      OBVIOUS
    <3>3. h \in handed' \/ Waits(h)'
      BY <2>1, <2>3, <3>1, <3>2, ContainerIsPlaced DEF IInv
    <3> QED
      BY <2>1, <3>2, <3>3 DEF HandSettled, Settled, Gone, Waits
  <2> QED
    BY <2>1, <2>2, <2>3
<1>3. CASE ~DrainOne /\ ~DrainHarvested
  <2> SUFFICES ASSUME asking' = "handled" PROVE Settled(taking)'
    BY DEF HandSettled
  <2>1. asking = "handled" /\ UNCHANGED taking
    BY <1>3
    DEF Next, AnswersAndTimers, vars, Happen, Remember, Stop, Start, Recover, Establish, Write,
        WriteFails, Written, Arrive, Harvested, HoldEarly, ArrivalFails, Feed, Unanswered,
        QuestionFails, AskAgain, TakeBaseline, DrainContainer, Shift, DrainFails, Established,
        WindowEnds, CatchUpFails, CaughtUp, DrainHeld
  <2>2. PICK h : h = taking
    OBVIOUS
  <2>3. Settled(h) /\ h \in Log
    BY <2>1, <2>2 DEF HandSettled, IInv, InHand
  <2>4. Settled(h)'
    BY <2>3, SettledStays
  <2> QED
    BY <2>1, <2>2, <2>4
<1> QED
  BY <1>1, <1>2, <1>3

LEMMA HandNumberedStep ==
  ASSUME IInv, AnswerInv, BehindChase, Counted, HandNumbered, [Next]_vars, ~Start, ~Stop
  PROVE  HandNumbered'
<1> USE DEF storage, place, gaps, history, fate, question
<1> SUFFICES ASSUME asking' = "harvesting"
             PROVE  taking' \in Numbered /\ (SeqAt(taking)' > seq' \/ Settled(taking)')
  BY DEF HandNumbered
<1>1. CASE DrainContainer
  <2>1. PICK h : h = Head(early)
    OBVIOUS
  <2>2. taking' = h /\ NumberOf(h) > seq /\ UNCHANGED seq
    BY <1>1, <2>1 DEF DrainContainer
  <2>3. seq \in Nat
    BY DEF IInv, TypeOK
  <2>4. h \in Numbered /\ SeqAt(h) > seq
    BY <2>2, <2>3 DEF NumberOf
  <2> QED
    BY <2>2, <2>4 DEF SeqAt
<1>2. CASE ~DrainContainer
  <2>1. asking = "harvesting" /\ UNCHANGED taking
    BY <1>2
    DEF Next, AnswersAndTimers, vars, Happen, Remember, Stop, Start, Recover, Establish, Write,
        WriteFails, Written, Arrive, Harvested, HoldEarly, ArrivalFails, Feed, Unanswered,
        QuestionFails, AskAgain, TakeBaseline, DrainOne, DrainHarvested, Shift, DrainFails,
        Established, WindowEnds, CatchUpFails, CaughtUp, DrainHeld
  <2>2. PICK h : h = taking
    OBVIOUS
  <2>3. h \in Numbered /\ h \in Log /\ (SeqAt(h) > seq \/ Settled(h))
    BY <2>1, <2>2 DEF HandNumbered, IInv, InHand
  <2>4. CASE Settled(h)
    <3>1. Settled(h)'
      BY <2>3, <2>4, SettledStays
    <3> QED
      BY <2>1, <2>2, <2>3, <3>1
  <2>5. CASE SeqAt(h) > seq'
    BY <2>1, <2>2, <2>3, <2>5 DEF SeqAt
  <2>6. CASE SeqAt(h) > seq /\ ~(SeqAt(h) > seq')
    <3>1. /\ SeqAt(h) \in Nat /\ seq \in Nat /\ h \in Nat /\ local \in Nat
      BY SeqAtType, NumberedIsLog, <2>3, BaselineAssumption DEF IInv, TypeOK, Origin
    <3>2. h <= local => h \in handed
      <4>1. ~Resumed
        BY <2>1 DEF Resumed
      <4> QED
        BY <2>3, <2>6, <3>1, <4>1 DEF Counted
    <3>3. ASSUME NEW q \in Log, ConsumeContainer(q)
          PROVE  h \in handed' \/ Waits(h)'
      <4>1. h = q
        BY <2>3, <2>6, <3>3, ContainerCounts DEF IInv
      <4> QED
        BY <2>3, <2>6, <3>2, <3>3, <4>1, ContainerIsPlaced DEF IInv
    <3>4. ASSUME NEW upto \in Origin .. MaxPts, CaughtUp(upto)
          PROVE  h \in handed'
      <4>1. upto \in Nat /\ SeqAt(upto) \in Nat
        BY SeqAtType, BaselineAssumption DEF Origin
      <4>2. seq' = AdvanceContainer(seq, SeqAt(upto)) /\ handed \subseteq handed'
        BY <3>4 DEF CaughtUp, TakeDifference
      <4>3. SeqAt(h) <= SeqAt(upto)
        BY <2>6, <3>1, <4>1, <4>2 DEF AdvanceContainer, Larger
      <4>4. h <= upto
        BY <2>3, <4>1, <4>3, SeqAtReaches
      <4>5. local < h => h \in handed'
        BY <2>3, <3>4, <4>4, CaughtUpHandsOut DEF IInv
      <4> QED
        BY <3>1, <3>2, <4>2, <4>5
    <3>5. \/ \E q \in Log : ConsumeContainer(q)
          \/ \E upto \in Origin .. MaxPts : CaughtUp(upto)
      <4>1. seq' # seq
        BY <2>6
      <4> QED
        BY <1>2, <2>1, <4>1
        DEF Next, AnswersAndTimers, vars, Happen, Remember, Stop, Start, Recover, Write,
            WriteFails, Written, Arrive, Harvested, HoldEarly, ArrivalFails, Feed, Unanswered,
            QuestionFails, AskAgain, TakeBaseline, DrainOne, DrainHarvested, Shift,
            DrainFails, Established, WindowEnds, CatchUpFails, DrainHeld, IInv, InHand
    <3>6. h \in handed' \/ Waits(h)'
      BY <3>3, <3>4, <3>5
    <3>7. Settled(h)'
      BY <3>6 DEF Settled, Gone, Waits
    <3> QED
      BY <2>1, <2>2, <2>3, <3>7
  <2> QED
    BY <2>3, <2>4, <2>5, <2>6
<1> QED
  BY <1>1, <1>2

\* A run that ends or begins has held nothing.
LEMMA EndsKeepKept ==
  ASSUME AskInv, Start \/ Stop
  PROVE  NothingUnplaced' /\ HandSettled' /\ HandNumbered'
<1>1. waited' = {} /\ asking' = "no"
  BY DEF Start, Stop, AskInv, Down, fate
<1> QED
  BY <1>1 DEF NothingUnplaced, HandSettled, HandNumbered

LEMMA KeptInvariance == Spec => []KeptInv
<1>1. Init => KeptInv
  <2>1. \A p \in Numbered : ~(p <= Origin)
    BY NumberedIsLog, LogType DEF Origin
  <2> QED
    BY <2>1
    DEF Init, KeptInv, NothingUnplaced, HandSettled, HandNumbered, BehindChase, Counted
<1>2. IInv /\ IInv' /\ AskInv /\ AnswerInv /\ KeptInv /\ [Next]_vars => KeptInv'
  <2> SUFFICES ASSUME IInv, IInv', AskInv, AnswerInv, KeptInv, [Next]_vars
               PROVE  KeptInv'
    OBVIOUS
  <2>1. BehindChase'
    BY BehindChaseStep DEF KeptInv
  <2>2. Counted'
    BY CountedStep DEF KeptInv
  <2>3. CASE Start \/ Stop
    BY <2>1, <2>2, <2>3, EndsKeepKept DEF KeptInv
  <2>4. CASE ~Start /\ ~Stop
    <3>1. NothingUnplaced'
      BY <2>4, UnplacedStep DEF KeptInv
    <3>2. HandSettled'
      BY <2>4, HandSettledStep DEF KeptInv
    <3>3. HandNumbered'
      BY <2>4, HandNumberedStep DEF KeptInv
    <3> QED
      BY <2>1, <2>2, <3>1, <3>2, <3>3 DEF KeptInv
  <2> QED
    BY <2>3, <2>4
<1> QED
  BY <1>1, <1>2, Invariance, AskInvariance, AnswerInvariance, PTL DEF Spec

(***************************************************************************)
(* Whatever arrived before the position was known is waiting somewhere,    *)
(* handed out or reported as dropped, however slow its peers, however      *)
(* often the question fails and whatever is going on beside it; but for    *)
(* what was cut at the limit or passed over by a second answer (establish, *)
(* drainEarly, holdEarly).                                                 *)
(***************************************************************************)
THEOREM EarlyIsKept == Spec => []Kept
<1>1. KeptInv => Kept
  BY DEF KeptInv, NothingUnplaced, Settled, Gone, Kept
<1> QED
  BY <1>1, KeptInvariance, PTL
=============================================================================
