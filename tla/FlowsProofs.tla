----------------------------- MODULE FlowsProofs -----------------------------
(***************************************************************************)
(* What holds of a durable flow for every program, any number of runs, of  *)
(* processes that end, and of writes that fail: its effects happen at most *)
(* once, an update answers one wait, and what is stored only grows; and,   *)
(* until a write fails, what is stored can be replayed.                    *)
(*                                                                         *)
(* A pass carries a copy of the journal that runs ahead of the stored one, *)
(* and what the code has been given so far.  The invariant says how the    *)
(* three hang together: the stored journal is behind the copy and never    *)
(* contradicts it, the copy is at the place the code is at or one before,  *)
(* and what has been run is in the stored one.                             *)
(***************************************************************************)
EXTENDS Flows, SequenceTheorems, TLAPS

Outcome == {"ok", "thrown"}

\* What is written of a step.  Only an effect is written down before it has ended.
Entries ==
    {e \in [kind : {"started", "done", "failed", "answer", "error", "timeout", "cancelled"},
            label : Labels, by : Updates \cup {None}] :
        e.kind = "started" => e.label \in Effects}

WaitLabels == (Labels \ Effects) \cup {None}

StoreType ==
    store \in [run : Nat, status : {"none", "active", "over"}, journal : Seq(Entries),
               waiting : WaitLabels, by : Updates \cup {None}]

PassType ==
    pass \in [drive : {"none", "update", "cancel", "start", "deadline"}, of : Updates \cup {None},
              journal : Seq(Entries), waiting : WaitLabels, at : WaitLabels, past : Histories,
              used : BOOLEAN, stage : {"code", "begun", "done", "failed"}]

RestType ==
    /\ due \in BOOLEAN
    /\ handlers \in Updates \cup {None} /\ next \in Updates \cup {None}
    /\ timer \in BOOLEAN /\ fired \in BOOLEAN
    /\ found \in {"no", "nothing", "due", "waits"} /\ life \in {"new", "on", "off"}
    /\ stops \in Nat /\ fails \in Nat /\ lost \in BOOLEAN

\* Every variable holds what its comment says of it.
TypeOK == StoreType /\ PassType /\ done \in [Places -> Nat] /\ RestType

\* Whether e is what is still to be settled of the step l.
Pending(e, l) == e.kind = "started" /\ e.label = l /\ l \in Effects

(***************************************************************************)
(* The journal a pass carries is at the step the code is at, where that is *)
(* an effect that started, or at the one before it.                        *)
(***************************************************************************)
Abreast ==
    /\ Len(pass.journal) \in {Len(pass.past), Place}
    /\ Len(pass.journal) = Place => Pending(pass.journal[Place], Step)
    /\ pass.stage # "code" => Len(store.journal) = Place
    /\ pass.at = pass.waiting

\* The stored journal is behind the one carried, and says nothing else.
Behind ==
    /\ Len(store.journal) <= Len(pass.journal)
    /\ \A i \in 1 .. Len(store.journal) :
          /\ store.journal[i].label = pass.journal[i].label
          /\ Settled(store.journal[i]) =>
                store.journal[i] = pass.journal[i] /\ i <= Len(pass.past)

\* An update that has not been used answers nothing before this pass.
Unanswered ==
    ~pass.used => /\ pass.of \in Updates
                  /\ \A i \in 1 .. Len(pass.journal) : pass.journal[i].by # pass.of

Distinct(j) ==
    \A i, k \in 1 .. Len(j) : j[i].by = j[k].by /\ j[i].by # None => i = k

PassInv ==
    /\ pass.drive = "none" => pass = NoPass
    /\ pass.drive # "none" =>
        Active /\ Abreast /\ Behind /\ Unanswered /\ Distinct(pass.journal)

\* What has been run is written down, and only what may be repeated was run again.
DoneInv ==
    /\ \A i \in Places : done[i] > 0 => i <= Len(store.journal)
    /\ pass.drive # "none" /\ pass.stage = "begun" => done[Place] = 0 \/ Step \in Repeatable
    /\ AtMostOnce

IInv == TypeOK /\ PassInv /\ DoneInv /\ AnswersOnce

(***************************************************************************)
(* Until the store fails, the pass carries just what is stored, and the    *)
(* code was given what the journal says.                                   *)
(***************************************************************************)
Synced ==
    fails = 0 =>
        /\ Active => Follows(store)
        /\ pass.drive # "none" =>
              /\ store.journal = pass.journal /\ store.waiting = pass.waiting
              /\ pass.past = Outcomes(SubSeq(pass.journal, 1, Len(pass.past)))

-----------------------------------------------------------------------------
(* Journals and what they give.                                            *)

LEMMA HistoryType ==
  ASSUME NEW h \in Histories
  PROVE  h \in Seq(Outcome) /\ Len(h) \in Nat /\ Len(h) + 1 \in Places
BY FlowAssumption DEF Outcome, Places

LEMMA Given == ASSUME NEW e PROVE Gives(e) \in Outcome
BY DEF Gives, Outcome

\* A step that does not return is followed by one, whatever it gave.
LEMMA GoesOn ==
  ASSUME NEW h \in Histories, Program[h] # Return, NEW o \in Outcome
  PROVE  Append(h, o) \in Histories /\ Len(Append(h, o)) = Len(h) + 1
<1>1. Append(h, o) \in Histories
  BY ProgramAssumption DEF Outcome
<1> QED
  BY <1>1, HistoryType, AppendProperties

LEMMA ProgramType ==
  ASSUME NEW h \in Histories
  PROVE  /\ Program[h] \in Labels \cup {Return}
         /\ Program[h] # Return => Program[h] \in Labels /\ Program[h] # None
BY ProgramAssumption DEF Labels

LEMMA OutcomesIs ==
  ASSUME NEW j \in Seq(Entries)
  PROVE  /\ Outcomes(j) \in Seq(Outcome) /\ Len(Outcomes(j)) = Len(j)
         /\ \A i \in 1 .. Len(j) : Outcomes(j)[i] = Gives(j[i])
<1>1. Len(j) \in Nat
  BY LenProperties
<1>2. \A i \in 1 .. Len(j) : Gives(j[i]) \in Outcome
  BY Given
<1> QED
  BY <1>1, <1>2 DEF Outcomes

LEMMA FirstOf ==
  ASSUME NEW j \in Seq(Entries), NEW n \in 0 .. Len(j)
  PROVE  /\ SubSeq(j, 1, n) \in Seq(Entries) /\ Len(SubSeq(j, 1, n)) = n
         /\ \A i \in 1 .. n : SubSeq(j, 1, n)[i] = j[i]
<1>1. Len(j) \in Nat /\ n \in Nat /\ \A i \in 1 .. n : j[i] \in Entries
  BY LenProperties, ElementOfSeq
<1> QED
  BY <1>1, SubSeqProperties

LEMMA SameFirst ==
  ASSUME NEW j \in Seq(Entries), NEW k \in Seq(Entries), NEW n \in 0 .. Len(j), n <= Len(k),
         \A i \in 1 .. n : j[i] = k[i]
  PROVE  SubSeq(j, 1, n) = SubSeq(k, 1, n)
<1>1. n \in 0 .. Len(k)
  BY LenProperties
<1> QED
  BY <1>1, FirstOf, SeqEqual

LEMMA OutcomesOfFirst ==
  ASSUME NEW j \in Seq(Entries), NEW n \in 0 .. Len(j)
  PROVE  /\ Outcomes(SubSeq(j, 1, n)) \in Seq(Outcome) /\ Len(Outcomes(SubSeq(j, 1, n))) = n
         /\ \A i \in 1 .. n : Outcomes(SubSeq(j, 1, n))[i] = Gives(j[i])
<1> DEFINE f == SubSeq(j, 1, n)
<1>1. f \in Seq(Entries) /\ Len(f) = n /\ \A i \in 1 .. n : f[i] = j[i]
  BY FirstOf
<1> HIDE DEF f
<1>2. /\ Outcomes(f) \in Seq(Outcome) /\ Len(Outcomes(f)) = Len(f)
      /\ \A i \in 1 .. Len(f) : Outcomes(f)[i] = Gives(f[i])
  BY <1>1, OutcomesIs
<1>3. /\ Outcomes(f) \in Seq(Outcome) /\ Len(Outcomes(f)) = n
      /\ \A i \in 1 .. n : Outcomes(f)[i] = Gives(j[i])
  BY <1>1, <1>2
<1> QED
  BY <1>3 DEF f

\* What a journal gives is what it gave before its last entry, and what that gives.
LEMMA OutcomesGrow ==
  ASSUME NEW j \in Seq(Entries), NEW n \in 1 .. Len(j)
  PROVE  Outcomes(SubSeq(j, 1, n)) = Append(Outcomes(SubSeq(j, 1, n - 1)), Gives(j[n]))
<1>1. Len(j) \in Nat /\ n - 1 \in 0 .. Len(j) /\ n \in 0 .. Len(j)
  BY LenProperties
<1> DEFINE s == Outcomes(SubSeq(j, 1, n))
           t == Outcomes(SubSeq(j, 1, n - 1))
<1>2. /\ s \in Seq(Outcome) /\ Len(s) = n
      /\ \A i \in 1 .. n : s[i] = Gives(j[i])
  BY <1>1, OutcomesOfFirst
<1>3. /\ t \in Seq(Outcome) /\ Len(t) = n - 1
      /\ \A i \in 1 .. n - 1 : t[i] = Gives(j[i])
  BY <1>1, OutcomesOfFirst
<1>4. Gives(j[n]) \in Outcome
  BY Given
<1> HIDE DEF s, t
<1>5. Append(t, Gives(j[n])) = s
  BY <1>1, <1>2, <1>3, <1>4, AppendProperties, SeqEqual
<1> QED
  BY <1>5 DEF s, t

LEMMA NotedIs ==
  ASSUME PassType, Len(pass.journal) \in {Len(pass.past), Place}, NEW e \in Entries
  PROVE  /\ Noted(e) \in Seq(Entries) /\ Len(Noted(e)) = Place
         /\ \A i \in 1 .. Len(pass.past) : Noted(e)[i] = pass.journal[i]
         /\ Noted(e)[Place] = e
<1>1. pass.journal \in Seq(Entries) /\ Len(pass.past) \in Nat /\ Len(pass.past) <= Len(pass.journal)
  BY HistoryType DEF PassType, Place
<1>2. Place - 1 = Len(pass.past)
  BY <1>1 DEF Place
<1> QED
  BY <1>1, <1>2, FirstOf, AppendProperties DEF Noted, Place

(***************************************************************************)
(* A run whose journal can be followed is carried on from its last settled *)
(* step: the code is given what the journal says, and has a step to take.  *)
(***************************************************************************)
LEMMA CarriedOn ==
  ASSUME NEW rec, rec.journal \in Seq(Entries), Follows(rec), NEW p, p = Outcomes(Past(rec.journal))
  PROVE  /\ p \in Histories /\ p = Outcomes(SubSeq(rec.journal, 1, Len(p)))
         /\ Len(rec.journal) \in {Len(p), Len(p) + 1}
         /\ Len(rec.journal) = Len(p) + 1 => Pending(rec.journal[Len(p) + 1], Program[p])
         /\ \A i \in 1 .. Len(rec.journal) : Settled(rec.journal[i]) => i <= Len(p)
<1> DEFINE j == rec.journal
<1>1. /\ j \in Seq(Entries) /\ Len(j) \in Nat
      /\ \A i \in 1 .. Len(j) : j[i] \in Entries
  BY LenProperties, ElementOfSeq
<1>2. ASSUME NEW i \in 1 .. Len(j)
      PROVE  /\ Outcomes(SubSeq(j, 1, i - 1)) \in Histories
             /\ Program[Outcomes(SubSeq(j, 1, i - 1))] = j[i].label /\ j[i].label \in Labels
  BY <1>1 DEF Follows, Entries
<1>3. CASE j = <<>>
  <2>1. p = <<>>
    BY <1>3 DEF Past, Outcomes
  <2>2. p = Outcomes(SubSeq(j, 1, 0))
    BY <2>1, <1>3, SubSeqEmpty DEF Outcomes
  <2> QED
    BY <2>1, <2>2, <1>3, FlowAssumption
<1>4. CASE j # <<>> /\ ~Settled(j[Len(j)])
  <2>1. Len(j) \in 1 .. Len(j)
    BY <1>1, <1>4, EmptySeq
  <2>2. p = Outcomes(SubSeq(j, 1, Len(j) - 1))
    BY <1>4 DEF Past
  <2>3. p \in Histories /\ Program[p] = j[Len(j)].label
    BY <2>1, <2>2, <1>2
  <2>4. Len(p) = Len(j) - 1
    <3>1. Len(j) - 1 \in 0 .. Len(j)
      BY <1>1, <2>1
    <3> QED
      BY <3>1, <1>1, <2>2, FirstOf, OutcomesIs
  <2>5. Pending(j[Len(j)], Program[p])
    BY <1>1, <1>4, <2>1, <2>3 DEF Pending, Settled, Entries
  <2> QED
    BY <1>1, <1>4, <2>1, <2>2, <2>3, <2>4, <2>5
<1>5. CASE j # <<>> /\ Settled(j[Len(j)])
  <2>1. Len(j) \in 1 .. Len(j)
    BY <1>1, <1>5, EmptySeq
  <2>2. p = Outcomes(j) /\ j = SubSeq(j, 1, Len(j))
    BY <1>1, <1>5, SubSeqFull DEF Past
  <2>3. p = Append(Outcomes(SubSeq(j, 1, Len(j) - 1)), Gives(j[Len(j)]))
    BY <1>1, <2>1, <2>2, OutcomesGrow
  <2>4. p \in Histories
    BY <2>1, <2>3, <1>2, Given, GoesOn DEF Labels
  <2>5. Len(p) = Len(j)
    BY <1>1, <2>2, OutcomesIs
  <2>6. p = Outcomes(SubSeq(j, 1, Len(p)))
    BY <2>2, <2>5
  <2> QED
    BY <1>1, <2>4, <2>5, <2>6
<1> QED
  BY <1>3, <1>4, <1>5

-----------------------------------------------------------------------------
(* Steps of a pass that note what its step came to.                        *)

\* What the rest of the invariant says, the type of the other variables apart.
Sound ==
    /\ StoreType /\ PassType /\ done \in [Places -> Nat]
    /\ PassInv /\ DoneInv /\ AnswersOnce

LEMMA PassParts ==
  ASSUME Sound, pass.drive # "none"
  PROVE  /\ Active /\ Abreast /\ Behind /\ Unanswered /\ Distinct(pass.journal)
         /\ pass.past \in Histories /\ Len(pass.past) \in Nat
         /\ Place \in Places /\ Place \in Nat /\ Place = Len(pass.past) + 1
         /\ Len(pass.journal) \in {Len(pass.past), Place}
         /\ pass.journal \in Seq(Entries) /\ store.journal \in Seq(Entries)
         /\ Len(pass.journal) \in Nat /\ Len(store.journal) \in Nat
         /\ \A i \in 1 .. Len(pass.journal) : pass.journal[i] \in Entries
         /\ \A i \in 1 .. Len(store.journal) : store.journal[i] \in Entries
<1>1. pass.past \in Histories /\ pass.journal \in Seq(Entries) /\ store.journal \in Seq(Entries)
  BY DEF Sound, PassType, StoreType
<1>2. Active /\ Abreast /\ Behind /\ Unanswered /\ Distinct(pass.journal)
  BY DEF Sound, PassInv
<1> QED
  BY <1>1, <1>2, HistoryType, LenProperties, ElementOfSeq DEF Place, Abreast

LEMMA RecordKeeps ==
  ASSUME Sound, pass.drive # "none", Step # Return, UNCHANGED done,
         NEW e \in Entries, e.label = Step, Settled(e),
         e.by = None \/ (e.by = pass.of /\ ~pass.used),
         Record(e)
  PROVE  Sound'
<1> DEFINE J == store.journal
           PJ == pass.journal
<1>1. /\ Abreast /\ Behind /\ Unanswered /\ Distinct(PJ)
      /\ pass.past \in Histories /\ Len(pass.past) \in Nat
      /\ Place \in Nat /\ Place = Len(pass.past) + 1 /\ Place \in Places
      /\ Len(PJ) \in {Len(pass.past), Place}
      /\ PJ \in Seq(Entries) /\ J \in Seq(Entries) /\ Len(PJ) \in Nat /\ Len(J) \in Nat
  BY PassParts
<1>2. /\ Noted(e) \in Seq(Entries) /\ Len(Noted(e)) = Place
      /\ \A i \in 1 .. Len(pass.past) : Noted(e)[i] = PJ[i]
      /\ Noted(e)[Place] = e
  BY <1>1, NotedIs DEF Sound
<1>3. PICK o \in Outcome :
        pass' = [pass EXCEPT !.journal = Noted(e), !.waiting = None, !.at = None,
                             !.used = TRUE, !.stage = "code", !.past = Append(@, o)]
  BY Given DEF Record, Outcome
<1>4. Append(pass.past, o) \in Histories /\ Len(Append(pass.past, o)) = Place
  BY <1>1, GoesOn DEF Step
<1>5. /\ pass'.journal = Noted(e) /\ pass'.past = Append(pass.past, o) /\ pass'.drive = pass.drive
      /\ pass'.stage = "code" /\ pass'.used /\ pass'.at = None /\ pass'.waiting = None
      /\ PassType'
  <2>1. None \in WaitLabels
    BY DEF WaitLabels
  <2> QED
    BY <1>2, <1>3, <1>4, <2>1 DEF Sound, PassType
<1>6. /\ StoreType' /\ store'.journal \in {J, Noted(e)} /\ store'.status = store.status
  <2>1. None \in WaitLabels
    BY DEF WaitLabels
  <2>2. CASE Written(Noted(e), None)
    BY <1>2, <2>1, <2>2 DEF Written, Sound, StoreType
  <2>3. CASE StoreFails
    BY <2>3 DEF StoreFails, Fails, Sound, StoreType
  <2> QED
    BY <2>2, <2>3 DEF Record
<1> HIDE DEF J, PJ
<1>7. Len(J) <= Len(PJ) /\ Place' = Place + 1
      /\ \A i \in 1 .. Len(J) : /\ J[i].label = PJ[i].label
                                /\ Settled(J[i]) => J[i] = PJ[i] /\ i <= Len(pass.past)
  BY <1>1, <1>4, <1>5 DEF Behind, Place, J, PJ
<1>8. \A i \in 1 .. Len(J) : /\ i <= Place /\ J[i].label = Noted(e)[i].label
                             /\ Settled(J[i]) => J[i] = Noted(e)[i]
  <2> SUFFICES ASSUME NEW i \in 1 .. Len(J)
               PROVE  /\ i <= Place /\ J[i].label = Noted(e)[i].label
                      /\ Settled(J[i]) => J[i] = Noted(e)[i]
    OBVIOUS
  <2>1. CASE i <= Len(pass.past)
    BY <1>1, <1>2, <1>7, <2>1
  <2>2. CASE i > Len(pass.past)
    <3>1. i = Place /\ Len(PJ) = Place
      BY <1>1, <1>7, <2>2
    <3>2. PJ[Place].label = Step
      BY <1>1, <3>1 DEF Abreast, Pending, PJ
    <3> QED
      BY <1>2, <1>7, <3>1, <3>2, <2>2, <1>1
  <2> QED
    BY <1>1, <2>1, <2>2
<1>9. Behind'
  <2>1. CASE store'.journal = J
    BY <1>1, <1>2, <1>4, <1>5, <1>8, <2>1 DEF Behind
  <2>2. CASE store'.journal = Noted(e)
    BY <1>1, <1>2, <1>4, <1>5, <2>2 DEF Behind
  <2> QED
    BY <1>6, <2>1, <2>2 DEF J
<1>10. Abreast'
  BY <1>1, <1>2, <1>4, <1>5, <1>7 DEF Abreast, Place
<1>11. Distinct(Noted(e))
  <2>1. e.by = None \/ \A i \in 1 .. Len(PJ) : PJ[i].by # e.by
    BY <1>1 DEF Unanswered, PJ
  <2> SUFFICES ASSUME NEW i \in 1 .. Place, NEW k \in 1 .. Place,
                      Noted(e)[i].by = Noted(e)[k].by, Noted(e)[i].by # None
               PROVE  i = k
    BY <1>2 DEF Distinct
  <2>2. CASE i = Place /\ k = Place
    BY <2>2
  <2>3. CASE i \in 1 .. Len(pass.past) /\ k \in 1 .. Len(pass.past)
    <3>1. PJ[i].by = PJ[k].by /\ PJ[i].by # None /\ i \in 1 .. Len(PJ) /\ k \in 1 .. Len(PJ)
      BY <1>1, <1>2, <2>3
    <3> QED
      BY <1>1, <3>1 DEF Distinct
  <2>4. CASE i = Place /\ k \in 1 .. Len(pass.past)
    BY <1>1, <1>2, <2>1, <2>4
  <2>5. CASE i \in 1 .. Len(pass.past) /\ k = Place
    BY <1>1, <1>2, <2>1, <2>5
  <2> QED
    BY <1>1, <2>2, <2>3, <2>4, <2>5
<1>12. PassInv'
  BY <1>1, <1>5, <1>6, <1>9, <1>10, <1>11, PassParts DEF PassInv, Active, Unanswered
<1>13. AnswersOnce'
  BY <1>6, <1>11 DEF Sound, AnswersOnce, Distinct, J
<1>14. DoneInv'
  <2>0. Len(J) \in Nat
    BY <1>1, <1>7 DEF J, PJ
  <2>1. Len(J) <= Len(store'.journal) /\ Len(store'.journal) \in Nat
        /\ \A i \in 1 .. Len(J) : store'.journal[i].label = J[i].label
    <3>1. Len(J) <= Place /\ Len(J) \in Nat
      BY <1>1, <1>7 DEF J, PJ
    <3>2. CASE store'.journal = J
      BY <3>1, <3>2
    <3>3. CASE store'.journal = Noted(e)
      BY <1>1, <1>2, <1>8, <3>1, <3>3
    <3> QED
      BY <1>6, <3>2, <3>3
  <2>2. \A i \in Places : i \in Nat \ {0}
    BY HistoryType DEF Places
  <2>3. done' = done /\ \A i \in Places : done[i] > 0 => i \in 1 .. Len(J)
    BY <1>1, <2>2 DEF Sound, DoneInv, J
  <2>4. AtMostOnce'
    <3>1. AtMostOnce
      BY <1>1 DEF Sound, DoneInv
    <3>2. ASSUME NEW i \in Places, done[i] > 0, i \in 1 .. Len(J)
          PROVE  store'.journal[i].label = J[i].label
      BY <2>1, <3>2
    <3> QED
      <4> SUFFICES ASSUME NEW i \in Places, done[i] > 1
                   PROVE  i <= Len(store'.journal) /\ store'.journal[i].label \in Repeatable
        BY <2>3 DEF AtMostOnce
      <4>1. done[i] \in Nat
        BY DEF Sound
      <4>2. i \in Nat /\ i \in 1 .. Len(J) /\ J[i].label \in Repeatable
        BY <2>2, <2>3, <3>1, <4>1 DEF AtMostOnce, J
      <4>3. store'.journal[i].label = J[i].label
        BY <2>1, <4>2
      <4>4. i <= Len(store'.journal)
        BY <2>1, <2>0, <4>2
      <4> QED
        BY <4>2, <4>3, <4>4
  <2>5. \A i \in Places : done'[i] > 0 => i <= Len(store'.journal)
    <3> SUFFICES ASSUME NEW i \in Places, done[i] > 0 PROVE i <= Len(store'.journal)
      BY <2>3
    <3>1. i \in Nat /\ i \in 1 .. Len(J)
      BY <2>2, <2>3
    <3> QED
      BY <2>0, <2>1, <3>1
  <2> QED
    BY <1>5, <2>4, <2>5 DEF DoneInv
<1> QED
  BY <1>5, <1>6, <1>12, <1>13, <1>14 DEF Sound

\* What is noted of a step is an entry, and only of an effect that it has started.
LEMMA EntryIs ==
  ASSUME Sound, pass.drive # "none", Step # Return, NEW by \in Updates \cup {None},
         NEW kind \in {"done", "failed", "answer", "error", "timeout", "cancelled"}
  PROVE  /\ Entry(kind, by) \in Entries /\ Settled(Entry(kind, by))
         /\ Entry(kind, by).label = Step /\ Entry(kind, by).by = by
<1>1. Step \in Labels
  BY PassParts, ProgramType DEF Step
<1> QED
  BY <1>1 DEF Entry, Entries, Settled

\* An effect that has started, where the code is.
LEMMA EffectAt ==
  ASSUME Sound, pass.stage # "code"
  PROVE  pass.drive # "none" /\ Len(store.journal) = Place /\ Step # Return /\ Step \in Effects
<1>1. pass.drive # "none"
  BY DEF Sound, PassInv, NoPass
<1>2. Len(store.journal) = Place /\ Len(pass.journal) = Place
  BY <1>1, PassParts DEF Abreast, Behind
<1>3. Pending(pass.journal[Place], Step) /\ pass.journal[Place] \in Entries
  BY <1>1, <1>2, PassParts DEF Abreast
<1> QED
  BY <1>1, <1>2, <1>3 DEF Pending, Entries, Labels

LEMMA UncertainKeeps == ASSUME Sound, Uncertain PROVE Sound'
<1>1. pass.drive # "none" /\ Step \in Effects /\ Step # Return
  <2>1. pass.drive # "none" /\ Began /\ Step \in Effects
    BY DEF Uncertain, Running
  <2>2. Len(pass.journal) = Place /\ pass.journal[Place] \in Entries
    BY <2>1, PassParts DEF Began
  <2> QED
    BY <2>1, <2>2, PassParts DEF Abreast, Pending, Entries, Labels
<1>2. Record(Entry("failed", None)) /\ UNCHANGED done
  BY DEF Uncertain, outside
<1> QED
  BY <1>1, <1>2, EntryIs, RecordKeeps

LEMMA EndEffectKeeps == ASSUME Sound, EndEffect PROVE Sound'
<1>1. /\ pass.stage \in {"done", "failed"} /\ Record(Entry(pass.stage, None)) /\ UNCHANGED done
  BY DEF EndEffect, outside
<1> QED
  BY <1>1, EffectAt, EntryIs, RecordKeeps

LEMMA WaitNotes == ASSUME Sound, CancelWait \/ TimeOut \/ Answer PROVE Sound'
<1>1. pass.drive # "none" /\ Step # Return /\ UNCHANGED done
  BY DEF CancelWait, TimeOut, Answer, Here, AtWait, Running, outside
<1>2. CASE CancelWait
  BY <1>1, <1>2, EntryIs, RecordKeeps DEF CancelWait
<1>3. CASE TimeOut
  BY <1>1, <1>3, EntryIs, RecordKeeps DEF TimeOut
<1>4. CASE Answer
  <2>1. ~pass.used /\ pass.of \in Updates
    BY <1>1, <1>4, PassParts DEF Answer, Unanswered
  <2>2. CASE Record(Entry("answer", pass.of))
    BY <1>1, <2>1, <2>2, EntryIs, RecordKeeps
  <2>3. CASE Record(Entry("error", None))
    BY <1>1, <2>3, EntryIs, RecordKeeps
  <2> QED
    BY <1>4, <2>2, <2>3 DEF Answer
<1> QED
  BY <1>2, <1>3, <1>4

LEMMA StartEffectKeeps == ASSUME Sound, StartEffect PROVE Sound'
<1> DEFINE J == store.journal
           PJ == pass.journal
           e == Entry("started", None)
<1>1. /\ pass.drive # "none" /\ pass.stage = "code" /\ Step \in Effects
      /\ ~Began \/ Step \in Repeatable
      /\ UNCHANGED done
  BY DEF StartEffect, Running, outside
<1>2. /\ Active /\ Abreast /\ Behind /\ Unanswered /\ Distinct(PJ)
      /\ pass.past \in Histories /\ Len(pass.past) \in Nat
      /\ Place \in Nat /\ Place = Len(pass.past) + 1 /\ Place \in Places
      /\ Len(PJ) \in {Len(pass.past), Place}
      /\ PJ \in Seq(Entries) /\ J \in Seq(Entries) /\ Len(PJ) \in Nat /\ Len(J) \in Nat
  BY <1>1, PassParts
<1>3. Step # Return /\ Step \in Labels /\ e \in Entries /\ e.by = None /\ Pending(e, Step)
  <2>1. Step # Return
    BY <1>1, ProgramAssumption
  <2> QED
    BY <1>1, <1>2, <2>1, ProgramType DEF Step, Entry, Entries, Pending
<1>4. /\ Noted(e) \in Seq(Entries) /\ Len(Noted(e)) = Place
      /\ \A i \in 1 .. Len(pass.past) : Noted(e)[i] = PJ[i]
      /\ Noted(e)[Place] = e
  BY <1>2, <1>3, NotedIs DEF Sound
<1>5. PassType' /\ StoreType'
  <2>1. CASE Written(Noted(e), pass.waiting) /\ pass' = [pass EXCEPT !.journal = Noted(e), !.stage = "begun"]
    BY <1>4, <2>1 DEF Written, Sound, StoreType, PassType
  <2>2. CASE StoreFails /\ pass' = [pass EXCEPT !.journal = Noted(e), !.past = Append(@, "thrown")]
    <3>1. Append(pass.past, "thrown") \in Histories
      BY <1>2, <1>3, GoesOn DEF Step, Outcome
    <3> QED
      BY <1>4, <2>2, <3>1 DEF StoreFails, Fails, Sound, StoreType, PassType
  <2> QED
    BY <2>1, <2>2 DEF StartEffect
<1>6. /\ pass'.journal = Noted(e) /\ pass'.waiting = pass.waiting /\ pass'.at = pass.at
      /\ pass'.used = pass.used /\ pass'.of = pass.of /\ pass'.drive = pass.drive
      /\ store'.status = store.status
      /\ \/ /\ store'.journal = Noted(e) /\ pass'.past = pass.past /\ pass'.stage = "begun"
         \/ /\ store'.journal = J /\ pass'.past = Append(pass.past, "thrown")
            /\ Len(Append(pass.past, "thrown")) = Place /\ pass'.stage = "code"
  <2>1. CASE Written(Noted(e), pass.waiting) /\ pass' = [pass EXCEPT !.journal = Noted(e), !.stage = "begun"]
    BY <2>1 DEF Written, Sound, StoreType, PassType
  <2>2. CASE StoreFails /\ pass' = [pass EXCEPT !.journal = Noted(e), !.past = Append(@, "thrown")]
    <3>1. Len(Append(pass.past, "thrown")) = Place
      BY <1>2, <1>3, GoesOn DEF Step, Outcome
    <3> QED
      BY <1>1, <2>2, <3>1 DEF StoreFails, Fails, Sound, StoreType, PassType
  <2> QED
    BY <2>1, <2>2 DEF StartEffect
<1> HIDE DEF J, PJ, e
<1>7. \A i \in 1 .. Len(J) : /\ i <= Place /\ J[i].label = Noted(e)[i].label
                             /\ Settled(J[i]) => J[i] = Noted(e)[i] /\ i <= Len(pass.past)
  <2> SUFFICES ASSUME NEW i \in 1 .. Len(J)
               PROVE  /\ i <= Place /\ J[i].label = Noted(e)[i].label
                      /\ Settled(J[i]) => J[i] = Noted(e)[i] /\ i <= Len(pass.past)
    OBVIOUS
  <2>1. /\ Len(J) <= Len(PJ) /\ J[i].label = PJ[i].label
        /\ Settled(J[i]) => J[i] = PJ[i] /\ i <= Len(pass.past)
    BY <1>2 DEF Behind, J, PJ
  <2>2. CASE i <= Len(pass.past)
    BY <1>2, <1>4, <2>1, <2>2
  <2>3. CASE i > Len(pass.past)
    <3>1. i = Place /\ Len(PJ) = Place
      BY <1>2, <2>1, <2>3
    <3>2. PJ[Place].label = Step
      BY <1>2, <3>1 DEF Abreast, Pending, PJ
    <3> QED
      BY <1>2, <1>3, <1>4, <2>1, <2>3, <3>1, <3>2 DEF Pending
  <2> QED
    BY <1>2, <2>2, <2>3
<1>8. Len(J) <= Place
  BY <1>2 DEF Behind, J, PJ
<1>9. Distinct(Noted(e)) /\ \A i \in 1 .. Place : Noted(e)[i].by # pass.of \/ pass.used
  <2>1. Distinct(Noted(e))
    <3> SUFFICES ASSUME NEW i \in 1 .. Place, NEW k \in 1 .. Place,
                        Noted(e)[i].by = Noted(e)[k].by, Noted(e)[i].by # None
                 PROVE  i = k
      BY <1>4 DEF Distinct
    <3>0. Noted(e)[Place].by = None
      BY <1>3, <1>4
    <3>1. i \in 1 .. Len(pass.past) /\ k \in 1 .. Len(pass.past)
      <4>1. i # Place /\ k # Place
        BY <3>0
      <4> QED
        BY <1>2, <4>1
    <3>2. PJ[i].by = PJ[k].by /\ PJ[i].by # None /\ i \in 1 .. Len(PJ) /\ k \in 1 .. Len(PJ)
      BY <1>2, <1>4, <3>1
    <3> QED
      BY <1>2, <3>2 DEF Distinct
  <2>2. ASSUME ~pass.used, NEW i \in 1 .. Place PROVE Noted(e)[i].by # pass.of
    <3>1. pass.of \in Updates /\ \A k \in 1 .. Len(PJ) : PJ[k].by # pass.of
      BY <1>2, <2>2 DEF Unanswered, PJ
    <3>2. CASE i = Place
      BY <1>3, <1>4, <3>1, <3>2, FlowAssumption
    <3>3. CASE i \in 1 .. Len(pass.past)
      BY <1>2, <1>4, <3>1, <3>3
    <3> QED
      BY <1>2, <3>2, <3>3
  <2> QED
    BY <2>1, <2>2
<1>10. CASE /\ store'.journal = Noted(e) /\ pass'.past = pass.past /\ pass'.stage = "begun"
  <2>1. Place' = Place /\ Step' = Step
    BY <1>10 DEF Place, Step
  <2>2. ~Settled(e)
    BY <1>3 DEF Pending, Settled
  <2>3. Behind'
    BY <1>2, <1>4, <1>6, <1>10, <2>2 DEF Behind
  <2>4. Abreast'
    BY <1>2, <1>3, <1>4, <1>6, <1>10, <2>1 DEF Abreast
  <2>5. PassInv' /\ AnswersOnce'
    <3>1. Unanswered'
      BY <1>2, <1>4, <1>6, <1>9 DEF Unanswered
    <3>2. AnswersOnce' /\ Distinct(pass.journal)'
      BY <1>6, <1>9, <1>10 DEF AnswersOnce, Distinct
    <3> QED
      BY <1>1, <1>2, <1>6, <2>3, <2>4, <3>1, <3>2 DEF PassInv, Active
  <2>6. done[Place] = 0 \/ Step \in Repeatable
    <3>1. ~Began => Place > Len(J)
      BY <1>2 DEF Began, Behind, J, PJ
    <3> QED
      BY <1>1, <1>2, <3>1 DEF Sound, DoneInv, J
  <2>7. \A i \in Places : i \in Nat \ {0}
    BY HistoryType DEF Places
  <2>8. DoneInv'
    <3>1. \A i \in Places : done'[i] > 0 => i <= Len(store'.journal)
      BY <1>1, <1>2, <1>4, <1>8, <1>10, <2>7 DEF Sound, DoneInv, J
    <3>2. done'[Place'] = 0 \/ Step' \in Repeatable
      BY <1>1, <2>1, <2>6
    <3>3. AtMostOnce'
      <4> SUFFICES ASSUME NEW i \in Places, done[i] > 1
                   PROVE  /\ i <= Len(store'.journal)
                          /\ store'.journal[i].label \in Repeatable
        BY <1>1 DEF AtMostOnce
      <4>1. i <= Len(J) /\ J[i].label \in Repeatable
        BY <1>1, <2>7 DEF Sound, DoneInv, AtMostOnce, J
      <4> QED
        BY <1>4, <1>7, <1>8, <1>10, <2>7, <4>1
    <3> QED
      BY <3>1, <3>2, <3>3 DEF DoneInv
  <2> QED
    BY <1>1, <1>5, <2>5, <2>8 DEF Sound
<1>11. CASE /\ store'.journal = J /\ pass'.past = Append(pass.past, "thrown")
            /\ Len(Append(pass.past, "thrown")) = Place /\ pass'.stage = "code"
  <2>1. Place' = Place + 1
    BY <1>11 DEF Place
  <2>2. Behind'
    BY <1>2, <1>4, <1>6, <1>7, <1>8, <1>11 DEF Behind
  <2>3. Abreast'
    BY <1>2, <1>4, <1>6, <1>11, <2>1 DEF Abreast
  <2>4. PassInv' /\ AnswersOnce'
    <3>1. Unanswered'
      BY <1>2, <1>4, <1>6, <1>9 DEF Unanswered
    <3>2. AnswersOnce' /\ Distinct(pass.journal)'
      BY <1>6, <1>9, <1>11 DEF AnswersOnce, Distinct, Sound, J
    <3> QED
      BY <1>1, <1>2, <1>6, <2>2, <2>3, <3>1, <3>2 DEF PassInv, Active
  <2>5. DoneInv'
    BY <1>1, <1>11 DEF Sound, DoneInv, AtMostOnce, J
  <2> QED
    BY <1>1, <1>5, <2>4, <2>5 DEF Sound
<1> QED
  BY <1>6, <1>10, <1>11

LEMMA RunEffectKeeps == ASSUME Sound, RunEffect PROVE Sound'
<1>1. pass.stage = "begun" /\ pass.drive # "none" /\ UNCHANGED store
      /\ done' = [done EXCEPT ![Place] = @ + 1]
  BY EffectAt DEF RunEffect
<1>2. PICK s \in {"done", "failed"} : pass' = [pass EXCEPT !.stage = s]
  BY DEF RunEffect
<1>3. /\ PassType' /\ pass'.stage = s /\ pass'.drive = pass.drive /\ pass'.past = pass.past
      /\ pass'.journal = pass.journal /\ pass'.of = pass.of /\ pass'.used = pass.used
      /\ pass'.at = pass.at /\ pass'.waiting = pass.waiting
  BY <1>2 DEF Sound, PassType
<1>4. Place' = Place /\ Step' = Step
  BY <1>3 DEF Place, Step
<1>5. PassInv'
  BY <1>1, <1>3, <1>4, PassParts
     DEF PassInv, Active, Abreast, Behind, Unanswered, Pending, Distinct
<1>6. /\ Place \in Places /\ Len(store.journal) = Place /\ Place \in Nat
      /\ store.journal[Place].label = Step
  <2>1. Place \in Places /\ Len(store.journal) = Place /\ Place \in Nat /\ Len(pass.past) \in Nat
        /\ Place = Len(pass.past) + 1
    BY <1>1, EffectAt, PassParts
  <2>2. Len(pass.journal) = Place /\ Place \in 1 .. Len(store.journal)
    BY <1>1, <2>1, PassParts DEF Behind, Abreast
  <2>3. pass.journal[Place].label = Step
    BY <1>1, <2>2, PassParts DEF Abreast, Pending
  <2> QED
    BY <1>1, <2>1, <2>2, <2>3, PassParts DEF Behind
<1>7. done[Place] = 0 \/ Step \in Repeatable
  BY <1>1 DEF Sound, DoneInv
<1>8. done' \in [Places -> Nat] /\ done'[Place] = done[Place] + 1
      /\ \A i \in Places : i # Place => done'[i] = done[i]
  BY <1>1, <1>6 DEF Sound
<1>9. DoneInv'
  <2>1. AtMostOnce'
    BY <1>1, <1>6, <1>7, <1>8 DEF Sound, DoneInv, AtMostOnce
  <2>2. \A i \in Places : done'[i] > 0 => i <= Len(store'.journal)
    BY <1>1, <1>6, <1>8 DEF Sound, DoneInv
  <2> QED
    BY <1>3, <2>1, <2>2 DEF DoneInv
<1> QED
  BY <1>1, <1>3, <1>5, <1>8, <1>9 DEF Sound, StoreType, AnswersOnce

-----------------------------------------------------------------------------
(* Steps that end a pass, or begin one.                                    *)

LEMMA NoPassType == NoPass.drive = "none" /\ (pass' = NoPass => PassType')
<1>1. None \in WaitLabels /\ <<>> \in Seq(Entries) /\ <<>> \in Histories
  BY FlowAssumption, EmptySeq DEF WaitLabels
<1>2. ASSUME NEW j \in Seq(Entries), NEW h \in Histories
      PROVE  [drive |-> "none", of |-> None, journal |-> j, waiting |-> None, at |-> None,
              past |-> h, used |-> FALSE, stage |-> "code"]
                \in [drive : {"none", "update", "cancel", "start", "deadline"},
                    of : Updates \cup {None}, journal : Seq(Entries), waiting : WaitLabels,
                    at : WaitLabels, past : Histories, used : BOOLEAN,
                    stage : {"code", "begun", "done", "failed"}]
  BY <1>1
<1> QED
  BY <1>1, <1>2 DEF NoPass, PassType

\* What a pass leaves stored is what was, or what it carries.
LEMMA OverKeeps ==
  ASSUME Sound, pass' = NoPass, UNCHANGED done, StoreType',
         \/ store'.journal = store.journal
         \/ pass.drive # "none" /\ store'.journal = pass.journal
  PROVE  Sound'
<1>1. PassType' /\ PassInv' /\ pass'.drive = "none"
  BY NoPassType DEF PassInv
<1>2. CASE store'.journal = store.journal
  <2>1. DoneInv'
    BY <1>1, <1>2 DEF Sound, DoneInv, AtMostOnce
  <2> QED
    BY <1>1, <1>2, <2>1 DEF Sound, AnswersOnce
<1>3. CASE pass.drive # "none" /\ store'.journal = pass.journal
  <2>1. AnswersOnce'
    BY <1>3, PassParts DEF AnswersOnce, Distinct
  <2>2. /\ Len(store.journal) \in Nat /\ Len(pass.journal) \in Nat
        /\ Len(store.journal) <= Len(pass.journal)
        /\ \A i \in 1 .. Len(store.journal) : store.journal[i].label = pass.journal[i].label
    BY <1>3, PassParts DEF Behind
  <2>3. \A i \in Places : i \in Nat \ {0}
    BY HistoryType DEF Places
  <2>4. \A i \in Places : done[i] > 0 => i \in 1 .. Len(store.journal)
    BY <2>2, <2>3 DEF Sound, DoneInv
  <2>5. AtMostOnce'
    BY <1>3, <2>2, <2>3, <2>4 DEF Sound, DoneInv, AtMostOnce
  <2>6. DoneInv'
    BY <1>1, <1>3, <2>2, <2>3, <2>4, <2>5 DEF DoneInv
  <2> QED
    BY <1>1, <2>1, <2>6 DEF Sound
<1> QED
  BY <1>2, <1>3

LEMMA PassEnds == ASSUME Sound, Arm \/ StayAt \/ Finish \/ Crash \/ Exit PROVE Sound'
<1>1. CASE Arm
  <2>1. pass.drive # "none" /\ pass' = NoPass /\ UNCHANGED done /\ Written(pass.journal, Step)
        /\ Step \notin Effects /\ Step # Return
    BY <1>1 DEF Arm, AtWait, Running, Over
  <2>2. Step \in WaitLabels
    BY <2>1, PassParts, ProgramType DEF Step, WaitLabels
  <2>3. StoreType' /\ store'.journal = pass.journal
    BY <2>1, <2>2, PassParts DEF Written, Sound, StoreType
  <2> QED
    BY <2>1, <2>3, OverKeeps
<1>2. CASE StayAt
  <2>1. pass.drive # "none" /\ pass' = NoPass /\ UNCHANGED done
        /\ (Written(pass.journal, pass.at) \/ UNCHANGED store)
    BY <1>2 DEF StayAt, Here, AtWait, Running, Over, outside
  <2>2. pass.at \in WaitLabels
    BY DEF Sound, PassType
  <2>3. StoreType' /\ store'.journal \in {store.journal, pass.journal}
    BY <2>1, <2>2, PassParts DEF Written, Sound, StoreType
  <2> QED
    BY <2>1, <2>3, OverKeeps
<1>3. CASE Finish
  <2>1. pass.drive # "none" /\ pass' = NoPass /\ UNCHANGED done
        /\ \/ store' = [store EXCEPT !.status = "over", !.waiting = None, !.journal = pass.journal]
           \/ UNCHANGED store
    BY <1>3 DEF Finish, Running, Over, outside
  <2>2. None \in WaitLabels
    BY DEF WaitLabels
  <2>3. StoreType' /\ store'.journal \in {store.journal, pass.journal}
    BY <2>1, <2>2, PassParts DEF Sound, StoreType
  <2> QED
    BY <2>1, <2>3, OverKeeps
<1>4. CASE Crash \/ Exit
  <2>1. pass' = NoPass /\ UNCHANGED <<store, done>>
    BY <1>4 DEF Crash, Exit, Dies, outside
  <2> QED
    BY <2>1, OverKeeps DEF Sound, StoreType
<1> QED
  BY <1>1, <1>2, <1>3, <1>4

LEMMA BeginsKeeps ==
  ASSUME NEW drive \in {"update", "cancel", "start", "deadline"}, NEW u \in Updates \cup {None},
         NEW rec, store' = rec, StoreType', rec.status = "active", Follows(rec),
         Begins(drive, u, rec), Distinct(rec.journal),
         drive = "update" => u \in Updates /\ \A i \in 1 .. Len(rec.journal) : rec.journal[i].by # u,
         done' \in [Places -> Nat], \A i \in Places : done'[i] > 0 => i <= Len(rec.journal),
         AtMostOnce'
  PROVE  Sound'
<1> DEFINE p == Outcomes(Past(rec.journal))
<1>1. rec.journal \in Seq(Entries) /\ rec.waiting \in WaitLabels
  BY DEF StoreType
<1>2. /\ p \in Histories /\ Len(p) \in Nat
      /\ Len(rec.journal) \in {Len(p), Len(p) + 1}
      /\ Len(rec.journal) = Len(p) + 1 => Pending(rec.journal[Len(p) + 1], Program[p])
      /\ \A i \in 1 .. Len(rec.journal) : Settled(rec.journal[i]) => i <= Len(p)
  BY <1>1, CarriedOn, HistoryType
<1> HIDE DEF p
<1>3. pass' = [drive |-> drive, of |-> u, journal |-> rec.journal, waiting |-> rec.waiting,
               at |-> rec.waiting, past |-> p, used |-> drive # "update", stage |-> "code"]
  BY DEF Begins, p
<1>4. /\ pass'.drive = drive /\ pass'.of = u /\ pass'.journal = rec.journal
      /\ pass'.waiting = rec.waiting /\ pass'.at = rec.waiting /\ pass'.past = p
      /\ pass'.used = (drive # "update") /\ pass'.stage = "code"
  BY <1>3
<1>5. PassType'
  BY <1>1, <1>2, <1>3 DEF PassType
<1>6. Place' = Len(p) + 1 /\ Step' = Program[p]
  BY <1>4 DEF Place, Step
<1>7. Abreast' /\ Behind'
  BY <1>1, <1>2, <1>4, <1>6, LenProperties DEF Abreast, Behind
<1>8. Unanswered'
  BY <1>4 DEF Unanswered
<1>9. PassInv'
  BY <1>4, <1>7, <1>8 DEF PassInv, Active, Distinct
<1>10. DoneInv' /\ AnswersOnce'
  BY <1>4 DEF DoneInv, AnswersOnce, Distinct
<1> QED
  BY <1>5, <1>9, <1>10 DEF Sound

LEMMA FollowsSound ==
  ASSUME Sound, pass.drive = "none", UNCHANGED <<store, done>>, Active, Follows(store),
         NEW drive \in {"update", "cancel", "deadline"}, NEW u \in Updates \cup {None},
         drive = "update" => u \in Updates /\ ~Handled(u),
         Begins(drive, u, store)
  PROVE  Sound'
<1>1. StoreType' /\ AtMostOnce' /\ Distinct(store.journal)
  BY DEF Sound, StoreType, DoneInv, AtMostOnce, AnswersOnce, Distinct
<1>2. done' \in [Places -> Nat] /\ \A i \in Places : done'[i] > 0 => i <= Len(store.journal)
  BY DEF Sound, DoneInv
<1> QED
  BY <1>1, <1>2, BeginsKeeps DEF Active, Handled

\* The passes that are drawn from what is stored.
LEMMA DrivesKeep ==
  ASSUME Sound, (\E u \in Updates : Offer(u)) \/ Cancel \/ Expire PROVE Sound'
<1>1. ASSUME UNCHANGED <<store, done, pass>> PROVE Sound'
  BY <1>1 DEF Sound, StoreType, PassType, PassInv, Active, Abreast, Behind, Unanswered, Distinct,
              Pending, Place, Step, DoneInv, AtMostOnce, AnswersOnce
<1>2. ASSUME NEW u \in Updates, Offer(u) PROVE Sound'
  <2>1. UNCHANGED <<store, done>> /\ pass.drive = "none"
    BY <1>2 DEF Offer, outside, Idle
  <2>2. CASE Active /\ Follows(store)
    BY <1>2, <2>1, <2>2, FollowsSound DEF Offer
  <2> QED
    BY <1>1, <1>2, <2>1, <2>2 DEF Offer
<1>3. CASE Expire
  <2>1. UNCHANGED <<store, done>> /\ pass.drive = "none"
    BY <1>3 DEF Expire, outside, Idle
  <2>2. CASE Active /\ Follows(store) /\ Begins("deadline", None, store)
    BY <2>1, <2>2, FollowsSound
  <2> QED
    BY <1>1, <1>3, <2>1, <2>2 DEF Expire
<1>4. CASE Cancel
  <2>1. UNCHANGED done /\ pass.drive = "none" /\ Active
    BY <1>4 DEF Cancel, outside
  <2>2. CASE Follows(store) /\ Begins("cancel", None, store) /\ UNCHANGED store
    BY <2>1, <2>2, FollowsSound
  <2>3. CASE store' = [store EXCEPT !.status = "over"] /\ UNCHANGED pass
    <3>1. StoreType' /\ store'.journal = store.journal
      BY <2>3 DEF Sound, StoreType
    <3>2. pass' = NoPass
      BY <2>1, <2>3 DEF Sound, PassInv
    <3> QED
      BY <2>1, <3>1, <3>2, OverKeeps
  <2> QED
    BY <1>4, <2>2, <2>3 DEF Cancel, CancelRun
<1> QED
  BY <1>2, <1>3, <1>4

LEMMA RunKeeps == ASSUME Sound, RestType, Run PROVE Sound'
<1> DEFINE rec == [run |-> store.run + 1, status |-> "active", journal |-> <<>>,
                   waiting |-> None, by |-> next]
<1>1. store' = rec /\ Begins("start", next, rec) /\ next \in Updates \cup {None}
      /\ done' = [i \in DOMAIN done |-> 0]
  BY DEF Run, RestType
<1>2. StoreType'
  <2>1. ASSUME NEW j \in Seq(Entries)
        PROVE  [run |-> store.run + 1, status |-> "active", journal |-> j, waiting |-> None,
                by |-> next]
                 \in [run : Nat, status : {"none", "active", "over"}, journal : Seq(Entries),
                      waiting : WaitLabels, by : Updates \cup {None}]
    BY <1>1 DEF Sound, StoreType, WaitLabels
  <2> QED
    BY <1>1, <2>1, EmptySeq DEF StoreType
<1>3. rec.journal = <<>> /\ Len(rec.journal) = 0 /\ rec.waiting = None /\ rec.status = "active"
  BY EmptySeq
<1>4. Follows(rec) /\ Distinct(rec.journal)
  BY <1>3 DEF Follows, Distinct
<1>5. done' \in [Places -> Nat] /\ \A i \in Places : done'[i] = 0
  BY <1>1 DEF Sound
<1>6. AtMostOnce'
  BY <1>5 DEF AtMostOnce
<1> HIDE DEF rec
<1> QED
  BY <1>1, <1>2, <1>3, <1>4, <1>5, <1>6, BeginsKeeps

\* Steps of the timers, the handlers and the process alone.
Aside ==
    \/ Leave \/ Start \/ TimePasses \/ Shutdown \/ StartAgain
    \/ Fire \/ ExpireFails \/ ResumeReads \/ Resume

LEMMA AsideKeeps == ASSUME Sound, Aside \/ UNCHANGED vars PROVE Sound'
<1>1. UNCHANGED <<store, done, pass>>
  BY DEF Aside, Leave, Start, TimePasses, Fire, ExpireFails, ResumeReads, Resume, Shutdown, StartAgain,
         vars, outside, turn
<1> QED
  BY <1>1 DEF Sound, StoreType, PassType, PassInv, Active, Abreast, Behind, Unanswered, Distinct,
              Pending, Place, Step, DoneInv, AtMostOnce, AnswersOnce

LEMMA SoundKept == ASSUME Sound, RestType, [Next]_vars PROVE Sound'
BY UncertainKeeps, EndEffectKeeps, WaitNotes, StartEffectKeeps, RunEffectKeeps, PassEnds,
   DrivesKeep, RunKeeps, AsideKeeps DEF Next, Proceeds, Aside

-----------------------------------------------------------------------------

LEMMA RestKept == ASSUME TypeOK, [Next]_vars PROVE RestType'
<1> USE DEF RestType
<1>1. RestType /\ pass.of \in Updates \cup {None}
  BY DEF TypeOK, PassType
<1>2. ASSUME NEW l, Arms(l) PROVE timer' \in BOOLEAN
  BY <1>2 DEF Arms
<1>3. ASSUME NEW j, NEW l, Written(j, l)
      PROVE timer' \in BOOLEAN /\ fails' \in Nat /\ lost' \in BOOLEAN
  BY <1>1, <1>2, <1>3 DEF Written
<1>4. ASSUME NEW e, Record(e)
      PROVE timer' \in BOOLEAN /\ fails' \in Nat /\ lost' \in BOOLEAN
  BY <1>1, <1>3, <1>4 DEF Record, StoreFails, Fails
<1>5. Over => handlers' \in Updates \cup {None}
  BY <1>1 DEF Over
<1>0. Loses => lost' \in BOOLEAN
  BY DEF Loses
<1>6. CASE StartEffect
  BY <1>1, <1>3, <1>6 DEF StartEffect, StoreFails, Fails, outside
<1>7. CASE Uncertain \/ EndEffect
  BY <1>1, <1>4, <1>7 DEF Uncertain, EndEffect, outside
<1>8. CASE RunEffect
  BY <1>1, <1>8 DEF RunEffect, timing
<1>9. CASE CancelWait \/ TimeOut \/ Answer
  BY <1>1, <1>4, <1>9 DEF CancelWait, TimeOut, Answer, outside
<1>10. CASE Arm
  BY <1>1, <1>3, <1>5, <1>10 DEF Arm
<1>11. CASE StayAt
  BY <1>1, <1>3, <1>5, <1>11 DEF StayAt, outside
<1>12. CASE Finish
  <2>1. fails' \in Nat
    BY <1>1, <1>12 DEF Finish, Fails
  <2>2. lost' \in BOOLEAN
    BY <1>0, <1>1, <1>12 DEF Finish
  <2> QED
    BY <1>1, <1>5, <1>12, <2>1, <2>2 DEF Finish, outside
<1>13. CASE (\E u \in Updates : Offer(u)) \/ Leave \/ Start
  BY <1>1, <1>13 DEF Offer, Leave, Start, outside, timing
<1>14. CASE Cancel
  BY <1>1, <1>14 DEF Cancel, CancelRun, outside
<1>15. CASE Run \/ TimePasses
  BY <1>1, <1>15 DEF Run, TimePasses, turn, timing
<1>16. CASE Fire \/ ExpireFails \/ ResumeReads \/ Resume
  <2>1. fails' \in Nat
    BY <1>1, <1>16 DEF Fire, ExpireFails, ResumeReads, Resume, Fails
  <2>2. lost' \in BOOLEAN
    BY <1>0, <1>1, <1>16 DEF Fire, ExpireFails, ResumeReads, Resume
  <2> QED
    BY <1>1, <1>16, <2>1, <2>2 DEF Fire, ExpireFails, ResumeReads, Resume, outside, turn
<1>17. CASE Expire
  BY <1>1, <1>17 DEF Expire, outside
<1>18. CASE Shutdown \/ StartAgain
  <2>1. stops' \in Nat
    BY <1>1, <1>18 DEF Shutdown, StartAgain
  <2> QED
    BY <1>1, <1>18, <2>1 DEF Shutdown, StartAgain, outside, turn
<1>19. CASE Crash \/ Exit
  <2>1. stops' \in Nat
    BY <1>1, <1>19 DEF Crash, Exit
  <2> QED
    BY <1>1, <1>19, <2>1 DEF Crash, Exit, Dies, outside
<1>20. CASE UNCHANGED vars
  BY <1>1, <1>20 DEF vars, outside, turn, timing
<1> QED
  BY <1>6, <1>7, <1>8, <1>9, <1>10, <1>11, <1>12, <1>13, <1>14, <1>15, <1>16, <1>17, <1>18,
     <1>19, <1>20 DEF Next, Proceeds

LEMMA InitInv == Init => IInv
<1> SUFFICES ASSUME Init PROVE IInv
  OBVIOUS
<1>1. StoreType
  <2>1. ASSUME NEW j \in Seq(Entries)
        PROVE  [run |-> 0, status |-> "none", journal |-> j, waiting |-> None, by |-> None]
                 \in [run : Nat, status : {"none", "active", "over"}, journal : Seq(Entries),
                      waiting : WaitLabels, by : Updates \cup {None}]
    BY DEF WaitLabels
  <2> QED
    BY <2>1, EmptySeq DEF Init, StoreType
<1>2. PassType
  <2>1. None \in WaitLabels /\ <<>> \in Seq(Entries) /\ <<>> \in Histories
    BY FlowAssumption, EmptySeq DEF WaitLabels
  <2>2. ASSUME NEW j \in Seq(Entries), NEW h \in Histories
        PROVE  [drive |-> "none", of |-> None, journal |-> j, waiting |-> None, at |-> None,
                past |-> h, used |-> FALSE, stage |-> "code"]
                  \in [drive : {"none", "update", "cancel", "start", "deadline"},
                      of : Updates \cup {None}, journal : Seq(Entries), waiting : WaitLabels,
                      at : WaitLabels, past : Histories, used : BOOLEAN,
                      stage : {"code", "begun", "done", "failed"}]
    BY <2>1
  <2> QED
    BY <2>1, <2>2 DEF Init, NoPass, PassType
<1>3. done \in [Places -> Nat] /\ \A i \in Places : done[i] = 0
  BY DEF Init
<1>4. RestType
  BY FlowAssumption DEF Init, RestType
<1>5. PassInv /\ pass.drive = "none"
  BY NoPassType DEF Init, PassInv
<1>6. DoneInv
  BY <1>3, <1>5 DEF DoneInv, AtMostOnce
<1>7. AnswersOnce
  <2>1. store.journal = <<>> /\ Len(store.journal) = 0
    BY EmptySeq DEF Init
  <2> QED
    BY <2>1 DEF AnswersOnce
<1> QED
  BY <1>1, <1>2, <1>3, <1>4, <1>5, <1>6, <1>7 DEF IInv, TypeOK

LEMMA Kept == IInv /\ [Next]_vars => IInv'
BY SoundKept, RestKept DEF IInv, TypeOK, Sound

LEMMA FlowInvariance == Spec => []IInv
BY InitInv, Kept, PTL DEF Spec

\* Every variable holds what its comment says of it, whatever fails.
THEOREM FlowTypeCorrect == Spec => []TypeOK
<1>1. IInv => TypeOK
  BY DEF IInv
<1> QED
  BY <1>1, FlowInvariance, PTL

(***************************************************************************)
(* For every program and wherever writes fail and processes end: an effect *)
(* not declared safe to repeat is run at most once in a run.               *)
(***************************************************************************)
THEOREM EffectsHappenOnce == Spec => []AtMostOnce
<1>1. IInv => AtMostOnce
  BY DEF IInv, DoneInv
<1> QED
  BY <1>1, FlowInvariance, PTL

(***************************************************************************)
(* No update answers two waits of a run, however often it is delivered and *)
(* whichever of the writes after it fail.                                  *)
(***************************************************************************)
THEOREM UpdateAnswersOnce == Spec => []AnswersOnce
<1>1. IInv => AnswersOnce
  BY DEF IInv
<1> QED
  BY <1>1, FlowInvariance, PTL

-----------------------------------------------------------------------------
(* What a step stores.                                                     *)

\* A step keeps the journal, notes the step the code is at, stores what the pass
\* carries, or begins another run.
LEMMA Stores ==
  ASSUME IInv, [Next]_vars
  PROVE  \/ store'.journal = store.journal
         \/ pass.drive # "none" /\ store'.journal = pass.journal
         \/ pass.drive # "none" /\ \E e : store'.journal = Noted(e)
         \/ store'.run = store.run + 1
<1>1. store = [run |-> store.run, status |-> store.status, journal |-> store.journal,
               waiting |-> store.waiting, by |-> store.by]
  BY DEF IInv, TypeOK, StoreType
<1>2. ASSUME NEW j, NEW w, Written(j, w) PROVE store'.journal = j
  BY <1>1, <1>2 DEF Written
<1>3. ASSUME NEW e, Record(e)
      PROVE  store'.journal = store.journal \/ store'.journal = Noted(e)
  BY <1>2, <1>3 DEF Record, StoreFails, Fails
<1>4. CASE StartEffect
  BY <1>2, <1>4 DEF StartEffect, Running, StoreFails, Fails
<1>5. CASE Uncertain \/ CancelWait \/ TimeOut \/ Answer
  BY <1>3, <1>5 DEF Uncertain, CancelWait, TimeOut, Answer, Running, Here, AtWait
<1>6. CASE EndEffect
  BY <1>3, <1>6, EffectAt DEF EndEffect, IInv, TypeOK, Sound
<1>7. CASE Arm \/ StayAt
  BY <1>2, <1>7 DEF Arm, StayAt, Running, Here, AtWait
<1>8. CASE Finish
  BY <1>1, <1>8 DEF Finish, Running
<1>9. CASE Cancel
  BY <1>1, <1>9 DEF Cancel, CancelRun
<1>10. CASE Run
  BY <1>10 DEF Run
<1>11. CASE RunEffect \/ (\E u \in Updates : Offer(u)) \/ Expire \/ Aside \/ Crash \/ Exit \/ UNCHANGED vars
  BY <1>11 DEF RunEffect, Offer, Expire, Aside, Leave, Start, TimePasses, Fire, ExpireFails, ResumeReads,
               Resume, Shutdown, StartAgain, Crash, Exit, Dies, vars
<1> QED
  BY <1>4, <1>5, <1>6, <1>7, <1>8, <1>9, <1>10, <1>11 DEF Next, Proceeds, Aside

(***************************************************************************)
(* Within a run the stored journal only grows, and nothing settled in it   *)
(* changes, though a pass carries on from what it could not write.         *)
(***************************************************************************)
THEOREM StoredJournalGrows == Spec => JournalGrows
<1>1. ASSUME IInv, [Next]_vars, store'.run = store.run, NEW i \in 1 .. Len(store.journal)
      PROVE  /\ i <= Len(store'.journal)
             /\ Settled(store.journal[i]) => store'.journal[i] = store.journal[i]
  <2>1. Sound /\ store.run \in Nat
    BY <1>1 DEF IInv, TypeOK, Sound, StoreType
  <2>2. Len(store.journal) \in Nat
    BY <2>1, LenProperties DEF Sound, StoreType
  <2>3. CASE pass.drive # "none"
    <3>1. /\ Len(store.journal) <= Len(pass.journal) /\ Len(pass.journal) \in Nat
          /\ Len(pass.journal) \in {Len(pass.past), Place} /\ Len(pass.past) \in Nat
          /\ Place = Len(pass.past) + 1 /\ pass.journal \in Seq(Entries)
          /\ Settled(store.journal[i]) => store.journal[i] = pass.journal[i] /\ i <= Len(pass.past)
      BY <1>1, <2>1, <2>3, PassParts DEF Behind
    <3>2. ASSUME NEW e
          PROVE  Len(Noted(e)) = Place /\ \A k \in 1 .. Len(pass.past) : Noted(e)[k] = pass.journal[k]
      <4>1. /\ SubSeq(pass.journal, 1, Place - 1) \in Seq(Entries)
            /\ Len(SubSeq(pass.journal, 1, Place - 1)) = Place - 1
            /\ \A k \in 1 .. Place - 1 : SubSeq(pass.journal, 1, Place - 1)[k] = pass.journal[k]
        <5>1. Place - 1 \in 0 .. Len(pass.journal)
          BY <3>1
        <5> QED
          BY <3>1, <5>1, FirstOf
      <4>2. SubSeq(pass.journal, 1, Place - 1) \in Seq(Entries \cup {e}) /\ e \in Entries \cup {e}
        BY <4>1, SeqMonotonic
      <4> QED
        BY <3>1, <4>1, <4>2, AppendProperties DEF Noted
    <3>3. CASE store'.journal = store.journal
      BY <2>2, <3>3
    <3>4. CASE store'.journal = pass.journal
      BY <2>2, <3>1, <3>4
    <3>5. ASSUME NEW e, store'.journal = Noted(e)
          PROVE  /\ i <= Len(store'.journal)
                 /\ Settled(store.journal[i]) => store'.journal[i] = store.journal[i]
      BY <2>2, <3>1, <3>2, <3>5
    <3>6. store'.run # store.run + 1
      BY <1>1, <2>1
    <3> QED
      BY <1>1, <3>3, <3>4, <3>5, <3>6, Stores
  <2>4. CASE pass.drive = "none"
    BY <1>1, <2>1, <2>2, <2>4, Stores
  <2> QED
    BY <2>3, <2>4
<1>2. IInv /\ [Next]_vars =>
        [store'.run = store.run =>
          \A i \in 1 .. Len(store.journal) :
              i <= Len(store'.journal)
                  /\ (Settled(store.journal[i]) => store'.journal[i] = store.journal[i])]_vars
  BY <1>1
<1> QED
  BY <1>2, FlowInvariance, PTL DEF Spec, JournalGrows

-----------------------------------------------------------------------------
(* Until the store fails: what is stored is what the pass has gone through. *)

InStep == IInv /\ Synced

LEMMA SyncedParts ==
  ASSUME InStep, fails = 0, pass.drive # "none"
  PROVE  /\ store.journal = pass.journal /\ store.waiting = pass.waiting
         /\ pass.past = Outcomes(SubSeq(pass.journal, 1, Len(pass.past)))
         /\ Follows(store)
BY PassParts DEF InStep, Synced, IInv, TypeOK, Sound

\* What is noted of the step the code is at can be followed as far as it was.
LEMMA NotedFollows ==
  ASSUME InStep, fails = 0, pass.drive # "none", NEW e \in Entries, e.label = Step,
         NEW i \in 1 .. Place
  PROVE  LET h == Outcomes(SubSeq(Noted(e), 1, i - 1))
         IN  h \in Histories /\ Program[h] = Noted(e)[i].label
<1> DEFINE PJ == pass.journal
<1>1. /\ pass.past \in Histories /\ Len(pass.past) \in Nat /\ Place = Len(pass.past) + 1
      /\ Len(PJ) \in {Len(pass.past), Place} /\ PJ \in Seq(Entries) /\ Len(PJ) \in Nat
      /\ Place \in Nat
  BY PassParts DEF InStep, IInv, TypeOK, Sound
<1>2. /\ Noted(e) \in Seq(Entries) /\ Len(Noted(e)) = Place
      /\ \A k \in 1 .. Len(pass.past) : Noted(e)[k] = PJ[k]
      /\ Noted(e)[Place] = e
  BY <1>1, NotedIs DEF InStep, IInv, TypeOK
<1>3. SubSeq(Noted(e), 1, i - 1) = SubSeq(PJ, 1, i - 1)
  <2>1. i - 1 \in 0 .. Len(PJ) /\ i - 1 <= Len(Noted(e)) /\ i - 1 \in 0 .. Len(Noted(e))
        /\ \A k \in 1 .. i - 1 : Noted(e)[k] = PJ[k]
    BY <1>1, <1>2
  <2> QED
    BY <1>1, <1>2, <2>1, SameFirst
<1>4. CASE i = Place
  <2>1. i - 1 = Len(pass.past)
    BY <1>1, <1>4
  <2>2. Outcomes(SubSeq(PJ, 1, i - 1)) = pass.past
    BY <2>1, SyncedParts
  <2> QED
    BY <1>1, <1>2, <1>3, <1>4, <2>2 DEF Step
<1>5. CASE i # Place
  <2>1. i \in 1 .. Len(store.journal) /\ store.journal = PJ /\ Noted(e)[i] = PJ[i]
    BY <1>1, <1>2, <1>5, SyncedParts
  <2> QED
    BY <1>3, <2>1, SyncedParts DEF Follows
<1> QED
  BY <1>4, <1>5

LEMMA RecordSyncs ==
  ASSUME InStep, pass.drive # "none", Step # Return, NEW e \in Entries, e.label = Step, Record(e)
  PROVE  Synced'
<1> SUFFICES ASSUME fails' = 0 PROVE Synced'
  BY DEF Synced
<1>1. fails = 0 /\ Written(Noted(e), None)
  BY DEF Record, Written, StoreFails, Fails, InStep, IInv, TypeOK, RestType
<1>2. /\ pass.past \in Histories /\ Len(pass.past) \in Nat /\ Place = Len(pass.past) + 1
      /\ Len(pass.journal) \in {Len(pass.past), Place} /\ pass.journal \in Seq(Entries)
      /\ Place \in Nat /\ Len(pass.journal) \in Nat
  BY PassParts DEF InStep, IInv, TypeOK, Sound
<1>3. /\ Noted(e) \in Seq(Entries) /\ Len(Noted(e)) = Place
      /\ \A k \in 1 .. Len(pass.past) : Noted(e)[k] = pass.journal[k]
      /\ Noted(e)[Place] = e
  BY <1>2, NotedIs DEF InStep, IInv, TypeOK
<1>4. store'.journal = Noted(e) /\ store'.waiting = None
  BY <1>1 DEF Written, InStep, IInv, TypeOK, StoreType
<1>5. Follows(store')
  BY <1>1, <1>3, <1>4, NotedFollows DEF Follows
<1>6. pass'.journal = Noted(e) /\ pass'.waiting = None /\ pass'.past = Append(pass.past, Gives(e))
  BY <1>1 DEF Record, Written, InStep, IInv, TypeOK, PassType
<1>7. Len(pass'.past) = Place
  BY <1>6, <1>2, Given, GoesOn DEF Step
<1>8. pass'.past = Outcomes(SubSeq(pass'.journal, 1, Len(pass'.past)))
  <2>1. Place \in 1 .. Len(Noted(e)) /\ Place - 1 \in 0 .. Len(Noted(e))
        /\ Place - 1 <= Len(pass.journal) /\ Place - 1 = Len(pass.past)
    BY <1>2, <1>3
  <2>2. Outcomes(SubSeq(Noted(e), 1, Place)) = Append(Outcomes(SubSeq(Noted(e), 1, Place - 1)), Gives(e))
    BY <1>3, <2>1, OutcomesGrow
  <2>3. SubSeq(Noted(e), 1, Place - 1) = SubSeq(pass.journal, 1, Len(pass.past))
    BY <1>2, <1>3, <2>1, SameFirst
  <2> QED
    BY <1>1, <1>6, <1>7, <2>2, <2>3, SyncedParts
<1> QED
  BY <1>4, <1>5, <1>6, <1>8 DEF Synced

LEMMA StartEffectSyncs == ASSUME InStep, StartEffect PROVE Synced'
<1> SUFFICES ASSUME fails' = 0 PROVE Synced'
  BY DEF Synced
<1> DEFINE e == Entry("started", None)
           PJ == pass.journal
<1>1. /\ fails = 0 /\ Written(Noted(e), pass.waiting)
      /\ pass' = [pass EXCEPT !.journal = Noted(e), !.stage = "begun"]
  BY DEF StartEffect, Written, StoreFails, Fails, InStep, IInv, TypeOK, RestType
<1>2. pass.drive # "none" /\ Step \in Effects /\ Step # Return
  BY ProgramAssumption DEF StartEffect, Running
<1>3. /\ pass.past \in Histories /\ Len(pass.past) \in Nat /\ Place = Len(pass.past) + 1
      /\ Len(PJ) \in {Len(pass.past), Place} /\ PJ \in Seq(Entries)
      /\ Place \in Nat /\ Len(PJ) \in Nat
      /\ Len(PJ) = Place => Pending(PJ[Place], Step)
  BY <1>2, PassParts DEF InStep, IInv, TypeOK, Sound, Abreast
<1>4. e \in Entries /\ e.label = Step /\ Gives(e) = "thrown"
  BY <1>2, <1>3, ProgramType DEF Step, Entry, Entries, Gives
<1> HIDE DEF e, PJ
<1>5. /\ Noted(e) \in Seq(Entries) /\ Len(Noted(e)) = Place
      /\ \A k \in 1 .. Len(pass.past) : Noted(e)[k] = PJ[k]
      /\ Noted(e)[Place] = e
  BY <1>3, <1>4, NotedIs DEF InStep, IInv, TypeOK, PJ
<1>6. store'.journal = Noted(e) /\ store'.waiting = pass.waiting
  BY <1>1 DEF Written, InStep, IInv, TypeOK, StoreType
<1>7. pass'.journal = Noted(e) /\ pass'.waiting = pass.waiting /\ pass'.past = pass.past
  BY <1>1 DEF InStep, IInv, TypeOK, PassType
<1>8. pass.past = Outcomes(SubSeq(Noted(e), 1, Len(pass.past)))
  <2>1. Len(pass.past) \in 0 .. Len(Noted(e)) /\ Len(pass.past) <= Len(PJ)
    BY <1>3, <1>5
  <2>2. SubSeq(Noted(e), 1, Len(pass.past)) = SubSeq(PJ, 1, Len(pass.past))
    BY <1>3, <1>5, <2>1, SameFirst
  <2> QED
    BY <1>1, <1>2, <2>2, SyncedParts DEF PJ
\* A pass that still carries the wait it began at is at the effect after it, again.
<1>9. ASSUME pass.waiting # None
      PROVE  Outcomes(Noted(e)) \in Histories /\ Program[Outcomes(Noted(e))] = pass.waiting
  <2>1. Outcomes(PJ) \in Histories /\ Program[Outcomes(PJ)] = pass.waiting
    BY <1>1, <1>2, <1>9, SyncedParts DEF Follows, PJ
  <2>2. CASE Len(PJ) = Len(pass.past)
    <3>1. PJ = SubSeq(PJ, 1, Len(PJ))
      BY <1>3, SubSeqFull
    <3>2. Outcomes(PJ) = pass.past
      BY <1>1, <1>2, <2>2, <3>1, SyncedParts DEF PJ
    <3>3. pass.waiting \notin Effects
      BY <1>9 DEF InStep, IInv, TypeOK, PassType, WaitLabels
    <3> QED
      BY <1>2, <2>1, <3>2, <3>3 DEF Step
  <2>3. CASE Len(PJ) = Place
    <3>1. Gives(PJ[Place]) = Gives(e)
      BY <1>3, <1>4, <2>3 DEF Pending, Gives
    <3>2. /\ Outcomes(PJ) \in Seq(Outcome) /\ Len(Outcomes(PJ)) = Place
          /\ \A k \in 1 .. Place : Outcomes(PJ)[k] = Gives(PJ[k])
      BY <1>3, <2>3, OutcomesIs
    <3>3. /\ Outcomes(Noted(e)) \in Seq(Outcome) /\ Len(Outcomes(Noted(e))) = Place
          /\ \A k \in 1 .. Place : Outcomes(Noted(e))[k] = Gives(Noted(e)[k])
      BY <1>5, OutcomesIs
    <3>4. \A k \in 1 .. Place : Gives(Noted(e)[k]) = Gives(PJ[k])
      BY <1>3, <1>5, <3>1
    <3>5. Outcomes(Noted(e)) = Outcomes(PJ)
      BY <3>2, <3>3, <3>4, SeqEqual
    <3> QED
      BY <2>1, <3>5
  <2> QED
    BY <1>3, <2>2, <2>3
<1>10. Follows(store')
  BY <1>1, <1>2, <1>4, <1>5, <1>6, <1>9, NotedFollows DEF Follows
<1> QED
  BY <1>6, <1>7, <1>8, <1>10 DEF Synced

LEMMA NotesSync ==
  ASSUME InStep, Uncertain \/ EndEffect \/ CancelWait \/ TimeOut \/ Answer
  PROVE  Synced'
<1>1. Sound
  BY DEF InStep, IInv, TypeOK, Sound
<1>2. CASE Uncertain
  <2>1. pass.drive # "none" /\ Step # Return
    BY <1>2, ProgramAssumption DEF Uncertain, Running
  <2> QED
    BY <1>1, <1>2, <2>1, EntryIs, RecordSyncs DEF Uncertain
<1>3. CASE EndEffect
  BY <1>1, <1>3, EffectAt, EntryIs, RecordSyncs DEF EndEffect
<1>4. CASE CancelWait \/ TimeOut \/ Answer
  <2>1. pass.drive # "none" /\ Step # Return
    BY <1>4 DEF CancelWait, TimeOut, Answer, Here, AtWait, Running
  <2>2. pass.of \in Updates \cup {None}
    BY <1>1 DEF Sound, PassType
  <2> QED
    BY <1>1, <1>4, <2>1, <2>2, EntryIs, RecordSyncs DEF CancelWait, TimeOut, Answer
<1> QED
  BY <1>2, <1>3, <1>4

LEMMA ArmSyncs == ASSUME InStep, Arm PROVE Synced'
<1> SUFFICES ASSUME fails' = 0 PROVE Follows(store') /\ pass'.drive = "none"
  BY DEF Synced
<1>1. /\ fails = 0 /\ pass.drive # "none" /\ Step \notin Effects
      /\ store'.journal = pass.journal /\ store'.waiting = Step /\ pass' = NoPass
  BY DEF Arm, AtWait, Running, Over, Written, InStep, IInv, TypeOK, StoreType
<1>2. /\ pass.journal \in Seq(Entries) /\ Len(pass.journal) = Len(pass.past)
      /\ pass.past \in Histories
  BY <1>1, PassParts DEF Abreast, Pending, InStep, IInv, TypeOK, Sound
<1>3. Outcomes(pass.journal) = pass.past
  <2>1. pass.journal = SubSeq(pass.journal, 1, Len(pass.journal))
    BY <1>2, SubSeqFull
  <2> QED
    BY <1>1, <1>2, <2>1, SyncedParts
<1> QED
  BY <1>1, <1>2, <1>3, SyncedParts, NoPassType DEF Follows, Step

LEMMA OverSyncs == ASSUME InStep, StayAt \/ Finish \/ Crash \/ Exit PROVE Synced'
<1> SUFFICES ASSUME fails' = 0, Active' PROVE Follows(store') /\ pass'.drive = "none"
  BY NoPassType DEF Synced, StayAt, Finish, Over, Crash, Exit, Dies
<1>1. pass'.drive = "none"
  BY NoPassType DEF StayAt, Finish, Over, Crash, Exit, Dies
<1>2. CASE StayAt
  <2>1. fails = 0 /\ pass.drive # "none" /\ (Written(pass.journal, pass.at) \/ UNCHANGED store)
    BY <1>2 DEF StayAt, Here, AtWait, Running, Written
  <2>2. pass.at = store.waiting /\ pass.journal = store.journal /\ Follows(store)
    BY <2>1, SyncedParts, PassParts DEF Abreast, InStep, IInv, TypeOK, Sound
  <2>3. store'.journal = store.journal /\ store'.waiting = store.waiting
    BY <2>1, <2>2 DEF Written, InStep, IInv, TypeOK, StoreType
  <2> QED
    BY <1>1, <2>2, <2>3 DEF Follows
<1>3. CASE Finish
  <2>1. store'.status = "over"
    <3>1. fails' # fails + 1
      BY DEF InStep, IInv, TypeOK, RestType
    <3> QED
      BY <1>3, <3>1 DEF Finish, Fails, InStep, IInv, TypeOK, StoreType
  <2> QED
    BY <2>1 DEF Active
<1>4. CASE Crash \/ Exit
  <2>1. UNCHANGED <<store, fails>>
    BY <1>4 DEF Crash, Exit, Dies
  <2> QED
    BY <1>1, <2>1 DEF InStep, Synced, Active
<1> QED
  BY <1>2, <1>3, <1>4

LEMMA BeginsSyncs ==
  ASSUME NEW drive, NEW u, NEW rec, store' = rec, StoreType', Follows(rec), Begins(drive, u, rec)
  PROVE  Synced'
<1>1. /\ pass'.journal = rec.journal /\ pass'.waiting = rec.waiting
      /\ pass'.past = Outcomes(Past(rec.journal))
  BY DEF Begins
<1>2. rec.journal \in Seq(Entries)
  BY DEF StoreType
<1> QED
  BY <1>1, <1>2, CarriedOn DEF Synced

LEMMA DrivesSync ==
  ASSUME InStep, (\E u \in Updates : Offer(u)) \/ Cancel \/ Expire PROVE Synced'
<1>0. StoreType /\ (UNCHANGED store => StoreType')
  BY DEF InStep, IInv, TypeOK, StoreType
<1>1. ASSUME UNCHANGED <<store, pass, fails>> PROVE Synced'
  BY <1>1 DEF InStep, Synced, Active, Follows
<1>2. ASSUME NEW u \in Updates, Offer(u) PROVE Synced'
  BY <1>0, <1>1, <1>2, BeginsSyncs DEF Offer
<1>3. CASE Expire
  BY <1>0, <1>1, <1>3, BeginsSyncs DEF Expire
<1>4. CASE Cancel
  <2>1. CASE store' = [store EXCEPT !.status = "over"] /\ UNCHANGED pass
    BY <1>0, <1>4, <2>1 DEF Cancel, Synced, Active, StoreType
  <2> QED
    BY <1>0, <1>4, <2>1, BeginsSyncs DEF Cancel, CancelRun
<1> QED
  BY <1>2, <1>3, <1>4

LEMMA RunSyncs == ASSUME InStep, Run, StoreType' PROVE Synced'
<1> DEFINE rec == [run |-> store.run + 1, status |-> "active", journal |-> <<>>,
                   waiting |-> None, by |-> next]
<1>1. store' = rec /\ Begins("start", next, rec)
  BY DEF Run
<1>2. Len(rec.journal) = 0 /\ rec.waiting = None
  BY EmptySeq
<1>3. Follows(rec)
  BY <1>2 DEF Follows
<1> HIDE DEF rec
<1> QED
  BY <1>1, <1>3, BeginsSyncs

LEMMA RunEffectSyncs == ASSUME InStep, RunEffect PROVE Synced'
<1>1. /\ UNCHANGED <<store, fails>> /\ pass'.drive = pass.drive /\ pass'.journal = pass.journal
      /\ pass'.waiting = pass.waiting /\ pass'.past = pass.past
  BY DEF RunEffect, InStep, IInv, TypeOK, PassType
<1> QED
  BY <1>1 DEF InStep, Synced, Active

LEMMA SyncedKept == InStep /\ [Next]_vars => InStep'
<1> SUFFICES ASSUME InStep, [Next]_vars PROVE InStep'
  OBVIOUS
<1>1. IInv'
  BY Kept DEF InStep
<1>2. CASE Aside \/ UNCHANGED vars
  <2>1. /\ UNCHANGED <<store, pass>>
        /\ UNCHANGED fails \/ Fails
    BY <1>2 DEF Aside, Leave, Start, TimePasses, Fire, ExpireFails, ResumeReads, Resume,
                Shutdown, StartAgain, vars, turn, Fails
  <2>2. fails' = 0 => fails = 0
    BY <2>1 DEF Fails, InStep, IInv, TypeOK, RestType
  <2> QED
    BY <1>1, <2>1, <2>2 DEF InStep, Synced, Active
<1>3. CASE Run
  BY <1>1, <1>3, RunSyncs DEF InStep, IInv, TypeOK
<1> QED
  BY <1>1, <1>2, <1>3, StartEffectSyncs, NotesSync, RunEffectSyncs, ArmSyncs, OverSyncs, DrivesSync
     DEF InStep, Next, Proceeds, Aside

(***************************************************************************)
(* For every program, and wherever processes end: until a write of its     *)
(* store fails, a stored run can be replayed, up to the wait it is at.     *)
(***************************************************************************)
THEOREM StoredRunsReplay == Spec => []NeverDiverges
<1>1. Init => InStep
  BY InitInv, NoPassType DEF InStep, Synced, Init, Active
<1>2. InStep => NeverDiverges
  BY DEF InStep, Synced, NeverDiverges
<1> QED
  BY <1>1, <1>2, SyncedKept, PTL DEF Spec
=============================================================================
