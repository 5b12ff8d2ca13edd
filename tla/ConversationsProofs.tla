-------------------------- MODULE ConversationsProofs --------------------------
(***************************************************************************)
(* What holds of a conversation for any number of updates and waits: its   *)
(* updates are handled one at a time, its lock is dropped when nobody      *)
(* queues for it, and nothing waits for an answer while the client stops.  *)
(*                                                                         *)
(* The lock keeps no queue: every ticket knows the one before it, and the  *)
(* lock the last.  What makes it a lock is that there is a queue, s, of    *)
(* those who are not done with it, which these are the links of.           *)
(***************************************************************************)
EXTENDS Conversations, Sequences, TLAPS

Live(t) == ticket[t] \in {"queued", "held"}

Queued(s) ==
    /\ s \in Seq(Tickets)
    /\ \A i, j \in 1..Len(s) : s[i] = s[j] => i = j
    /\ \A i \in 1..Len(s) : Live(s[i])
    /\ \A t \in Tickets : Live(t) => \E i \in 1..Len(s) : s[i] = t
    /\ \A i \in 2..Len(s) : ticket[s[i]] = "queued" /\ ahead[s[i]] = s[i - 1]
    /\ tail = IF Len(s) = 0 THEN None ELSE s[Len(s)]

IsQueue == \E s : Queued(s)

\* A ticket is used for what its update, or its wait, has come to.
TicketsInv ==
    /\ \A u \in Updates : stage[u] \in {"new", "received"} => ticket[u] = "none"
    /\ \A u \in Updates : stage[u] = "queued" => ticket[u] = "queued"
    /\ \A w \in Waits : wait[w] \in {"new", "open", "settled"} => ticket[w] = "none"
    /\ \A w \in Waits : wait[w] = "queued" => ticket[w] = "queued"
    /\ \A w \in Waits : wait[w] = "new" <=> caller[w] = None
    /\ pending # None => wait[pending] = "open"
    /\ \A u \in Updates : stage[u] = "offered" => asked[u] # None

\* A turn keeps a ticket that is held, its own or that of a wait of it.
TurnOf(u) ==
    /\ keeps[u] # None => /\ stage[u] \in {"offered", "handling"}
                          /\ ticket[keeps[u]] = "held"
                          /\ keeps[u] = u \/ (keeps[u] \in Waits /\ caller[keeps[u]] = u)
    /\ stage[u] = "offered" => keeps[u] # None
    /\ stage[u] = "handling" /\ Outstanding(u) = {} => keeps[u] # None

TurnInv == \A u \in Updates : TurnOf(u)

ConvInv == TypeOK /\ IsQueue /\ TicketsInv /\ TurnInv /\ NoWaitWhileClosed

-----------------------------------------------------------------------------
(* The lock.                                                               *)

LEMMA NoneIsNoTicket == None \notin Tickets /\ Updates \cap Waits = {}
BY ConversationAssumption DEF Tickets

LEMMA FrontIsFirst ==
  ASSUME NEW s, Queued(s), NEW t \in Tickets, ticket[t] = "held" \/ Comes(t)
  PROVE  Len(s) \in Nat \ {0} /\ s[1] = t
<1>1. PICK i \in 1..Len(s) : s[i] = t
  BY DEF Queued, Live, Comes
<1>2. Len(s) \in Nat
  BY DEF Queued
<1>3. ASSUME i \in 2..Len(s) PROVE FALSE
  <2>1. ticket[t] = "queued" /\ ahead[t] = s[i - 1]
    BY <1>1, <1>3 DEF Queued
  <2>2. i - 1 \in 1..Len(s)
    BY <1>2, <1>3
  <2>3. s[i - 1] \in Tickets /\ Live(s[i - 1])
    BY <2>2 DEF Queued
  <2>4. ahead[t] = None \/ ticket[ahead[t]] = "released"
    BY <2>1 DEF Comes, Released
  <2> QED
    BY <2>1, <2>3, <2>4, NoneIsNoTicket DEF Live
<1> QED
  BY <1>1, <1>2, <1>3

LEMMA OneHolder ==
  ASSUME IsQueue, NEW t \in Tickets, NEW u \in Tickets, ticket[t] = "held", ticket[u] = "held"
  PROVE  t = u
BY FrontIsFirst DEF IsQueue

\* Who joins is last.
LEMMA QueueJoins ==
  ASSUME TypeOK, NEW s, Queued(s), NEW t \in Tickets, ticket[t] = "none", Queue(t)
  PROVE  Queued(Append(s, t))'
<1>1. Queued(s)
  OBVIOUS
<1>2. s \in Seq(Tickets) /\ Len(s) \in Nat
  BY <1>1 DEF Queued
<1> DEFINE r == Append(s, t)
<1>3. /\ r \in Seq(Tickets) /\ Len(r) = Len(s) + 1 /\ r[Len(r)] = t
      /\ \A i \in 1..Len(s) : r[i] = s[i]
  BY <1>2
<1>4. \A i \in 1..Len(s) : s[i] # t /\ s[i] \in Tickets
  BY <1>1, <1>2 DEF Queued, Live
<1>5. /\ ticket' = [ticket EXCEPT ![t] = "queued"] /\ ahead' = [ahead EXCEPT ![t] = tail]
      /\ tail' = t
      /\ ticket \in [Tickets -> {"none", "queued", "held", "released"}]
      /\ ahead \in [Tickets -> Tickets \cup {None}]
  BY DEF Queue, TypeOK
<1>6. \A i, j \in 1..Len(r) : r[i] = r[j] => i = j
  <2> SUFFICES ASSUME NEW i \in 1..Len(r), NEW j \in 1..Len(r), r[i] = r[j] PROVE i = j
    OBVIOUS
  <2>1. \A k \in 1..Len(r) : k = Len(r) \/ k \in 1..Len(s)
    BY <1>2, <1>3
  <2>2. CASE i \in 1..Len(s) /\ j \in 1..Len(s)
    BY <1>1, <1>3, <2>2 DEF Queued
  <2> QED
    BY <1>3, <1>4, <2>1, <2>2
<1>7. \A i \in 1..Len(r) : Live(r[i])'
  BY <1>1, <1>2, <1>3, <1>4, <1>5 DEF Queued, Live
<1>8. \A u \in Tickets : Live(u)' => \E i \in 1..Len(r) : r[i] = u
  <2> SUFFICES ASSUME NEW u \in Tickets, Live(u)' PROVE \E i \in 1..Len(r) : r[i] = u
    OBVIOUS
  <2>1. CASE u = t
    BY <1>2, <1>3, <2>1
  <2>2. CASE u # t
    <3>1. Live(u)
      BY <1>5, <2>2 DEF Live
    <3>2. PICK i \in 1..Len(s) : s[i] = u
      BY <1>1, <3>1 DEF Queued
    <3> QED
      BY <1>2, <1>3, <3>2
  <2> QED
    BY <2>1, <2>2
<1>9. \A i \in 2..Len(r) : ticket'[r[i]] = "queued" /\ ahead'[r[i]] = r[i - 1]
  <2> SUFFICES ASSUME NEW i \in 2..Len(r) PROVE ticket'[r[i]] = "queued" /\ ahead'[r[i]] = r[i - 1]
    OBVIOUS
  <2>1. CASE i = Len(r)
    <3>1. i - 1 = Len(s) /\ Len(s) # 0 /\ i - 1 \in 1..Len(s)
      BY <1>2, <1>3, <2>1
    <3>2. tail = s[i - 1]
      BY <1>1, <3>1 DEF Queued
    <3> QED
      BY <1>3, <1>5, <2>1, <3>1, <3>2
  <2>2. CASE i # Len(r)
    <3>1. i \in 2..Len(s) /\ i \in 1..Len(s) /\ i - 1 \in 1..Len(s)
      BY <1>2, <1>3, <2>2
    <3>2. ticket[s[i]] = "queued" /\ ahead[s[i]] = s[i - 1]
      BY <1>1, <3>1 DEF Queued
    <3> QED
      BY <1>3, <1>4, <1>5, <3>1, <3>2
  <2> QED
    BY <2>1, <2>2
<1>10. tail' = IF Len(r) = 0 THEN None ELSE r[Len(r)]
  BY <1>2, <1>3, <1>5
<1> HIDE DEF r
<1>11. Queued(r)'
  BY <1>3, <1>6, <1>7, <1>8, <1>9, <1>10 DEF Queued
<1> QED
  BY <1>11 DEF r

\* Who comes takes the turn where it is.
LEMMA HoldingKeepsQueue ==
  ASSUME TypeOK, NEW s, Queued(s), NEW t \in Tickets, Comes(t), Holds(t)
  PROVE  Queued(s)'
<1>1. Queued(s)
  OBVIOUS
<1>2. Len(s) \in Nat \ {0} /\ s[1] = t /\ s \in Seq(Tickets)
  BY <1>1, FrontIsFirst DEF Queued
<1>3. /\ ticket' = [ticket EXCEPT ![t] = "held"] /\ ahead' = ahead /\ tail' = tail
      /\ ticket \in [Tickets -> {"none", "queued", "held", "released"}]
      /\ ticket[t] = "queued"
  BY DEF Holds, TypeOK, Comes
<1>4. \A u \in Tickets : Live(u)' <=> Live(u)
  BY <1>3 DEF Live
<1>5. \A i \in 2..Len(s) : s[i] # t /\ s[i] \in Tickets
  BY <1>1, <1>2 DEF Queued
<1>6. \A i \in 2..Len(s) : ticket'[s[i]] = "queued" /\ ahead'[s[i]] = s[i - 1]
  BY <1>1, <1>3, <1>5 DEF Queued
<1>7. \A i \in 1..Len(s) : s[i] \in Tickets
  BY <1>2
<1> QED
  BY <1>1, <1>3, <1>4, <1>6, <1>7 DEF Queued

\* Who is released was first.
LEMMA ReleaseShiftsQueue ==
  ASSUME TypeOK, NEW s, Queued(s), NEW t \in Tickets, ticket[t] = "held" \/ Comes(t), Release(t)
  PROVE  s # <<>> /\ Queued(Tail(s))'
<1>1. Queued(s)
  OBVIOUS
<1>2. Len(s) \in Nat \ {0} /\ s[1] = t /\ s \in Seq(Tickets)
  BY <1>1, FrontIsFirst DEF Queued
<1> DEFINE r == Tail(s)
<1>3. /\ r \in Seq(Tickets) /\ Len(r) = Len(s) - 1
      /\ \A i \in 1..Len(r) : r[i] = s[i + 1] /\ i + 1 \in 2..Len(s) /\ i + 1 \in 1..Len(s)
  BY <1>2
<1>4. /\ ticket' = [ticket EXCEPT ![t] = "released"] /\ ahead' = ahead
      /\ tail' = IF tail = t THEN None ELSE tail
      /\ ticket \in [Tickets -> {"none", "queued", "held", "released"}]
  BY DEF Release, TypeOK
<1>5. \A i \in 2..Len(s) : s[i] # t /\ s[i] \in Tickets
  BY <1>1, <1>2 DEF Queued
<1>6. \A i, j \in 1..Len(r) : r[i] = r[j] => i = j
  <2> SUFFICES ASSUME NEW i \in 1..Len(r), NEW j \in 1..Len(r), r[i] = r[j] PROVE i = j
    OBVIOUS
  <2>1. i + 1 = j + 1
    BY <1>1, <1>3 DEF Queued
  <2> QED
    BY <1>2, <1>3, <2>1
<1>7. \A i \in 1..Len(r) : Live(r[i])'
  BY <1>1, <1>3, <1>4, <1>5 DEF Queued, Live
<1>8. \A u \in Tickets : Live(u)' => \E i \in 1..Len(r) : r[i] = u
  <2> SUFFICES ASSUME NEW u \in Tickets, Live(u)' PROVE \E i \in 1..Len(r) : r[i] = u
    OBVIOUS
  <2>1. u # t /\ Live(u)
    BY <1>4 DEF Live
  <2>2. PICK i \in 1..Len(s) : s[i] = u
    BY <1>1, <2>1 DEF Queued
  <2>3. i # 1 /\ i - 1 \in 1..Len(r) /\ (i - 1) + 1 = i
    BY <1>2, <1>3, <2>1, <2>2
  <2>4. r[i - 1] = s[i]
    BY <1>3, <2>3
  <2> QED
    BY <2>2, <2>3, <2>4
<1>9. \A i \in 2..Len(r) : ticket'[r[i]] = "queued" /\ ahead'[r[i]] = r[i - 1]
  <2> SUFFICES ASSUME NEW i \in 2..Len(r) PROVE ticket'[r[i]] = "queued" /\ ahead'[r[i]] = r[i - 1]
    OBVIOUS
  <2>1. /\ i \in 1..Len(r) /\ i - 1 \in 1..Len(r) /\ i + 1 \in 2..Len(s)
        /\ (i + 1) - 1 = i /\ (i - 1) + 1 = i
    BY <1>2, <1>3
  <2>2. r[i] = s[i + 1] /\ r[i - 1] = s[i]
    BY <1>3, <2>1
  <2>3. ticket[s[i + 1]] = "queued" /\ ahead[s[i + 1]] = s[i]
    BY <1>1, <2>1 DEF Queued
  <2> QED
    BY <1>4, <1>5, <2>1, <2>2, <2>3
<1>10. tail' = IF Len(r) = 0 THEN None ELSE r[Len(r)]
  <2>1. tail = s[Len(s)]
    BY <1>1, <1>2 DEF Queued
  <2>2. CASE Len(s) = 1
    BY <1>2, <1>3, <1>4, <2>1, <2>2
  <2>3. CASE Len(s) # 1
    <3>1. Len(s) \in 2..Len(s) /\ Len(r) \in 1..Len(r) /\ Len(r) + 1 = Len(s) /\ Len(r) # 0
      BY <1>2, <1>3, <2>3
    <3>2. r[Len(r)] = s[Len(s)] /\ s[Len(s)] # t
      BY <1>3, <1>5, <3>1
    <3> QED
      BY <1>4, <2>1, <3>1, <3>2
  <2> QED
    BY <2>2, <2>3
<1> HIDE DEF r
<1>11. Queued(r)'
  BY <1>3, <1>6, <1>7, <1>8, <1>9, <1>10 DEF Queued
<1> QED
  BY <1>2, <1>11 DEF r

LEMMA QueueStays == ASSUME NEW s, Queued(s), UNCHANGED lock PROVE Queued(s)'
BY DEF lock, Queued, Live

\* What a step does to the queue: nothing, or its first leaves, or one joins it.
Moves(s) ==
    \/ Queued(s)'
    \/ s # <<>> /\ Queued(Tail(s))'
    \/ \E u \in Updates : Enter(u) /\ Queued(Append(s, u))'
    \/ \E w \in Waits : Back(w) /\ Queued(Append(s, w))'

\* What giving the turn back does to the lock.
LEMMA GivingBack ==
  ASSUME TypeOK, TurnInv, NEW u \in Updates, GiveBack(u)
  PROVE  /\ \A s : Queued(s) => Queued(s)' \/ (s # <<>> /\ Queued(Tail(s))')
         /\ keeps' = [keeps EXCEPT ![u] = None]
         /\ \A t \in Tickets : ticket'[t] = IF t = keeps[u] THEN "released" ELSE ticket[t]
         /\ ticket' \in [Tickets -> {"none", "queued", "held", "released"}]
         /\ ahead' \in [Tickets -> Tickets \cup {None}] /\ tail' \in Tickets \cup {None}
<1>1. CASE keeps[u] \in Tickets /\ Release(keeps[u])
  <2>1. ticket[keeps[u]] = "held"
    BY <1>1, NoneIsNoTicket DEF TurnInv, TurnOf
  <2>2. \A s : Queued(s) => s # <<>> /\ Queued(Tail(s))'
    BY <1>1, <2>1, ReleaseShiftsQueue
  <2>3. /\ ticket' = [ticket EXCEPT ![keeps[u]] = "released"] /\ ahead' = ahead
        /\ tail' \in {tail, None}
    BY <1>1 DEF Release
  <2>4. ticket \in [Tickets -> {"none", "queued", "held", "released"}]
        /\ ahead \in [Tickets -> Tickets \cup {None}] /\ tail \in Tickets \cup {None}
    BY DEF TypeOK
  <2>5. keeps' = [keeps EXCEPT ![u] = None]
    BY DEF GiveBack
  <2> QED
    BY <1>1, <2>2, <2>3, <2>4, <2>5
<1>2. CASE keeps[u] = None /\ UNCHANGED lock
  <2>1. (\A s : Queued(s) => Queued(s)') /\ keeps' = [keeps EXCEPT ![u] = None]
    BY <1>2, QueueStays DEF GiveBack
  <2>2. \A t \in Tickets : t # keeps[u]
    BY <1>2, NoneIsNoTicket
  <2>3. ticket' = ticket /\ ahead' = ahead /\ tail' = tail
    BY <1>2 DEF lock
  <2>4. ticket \in [Tickets -> {"none", "queued", "held", "released"}]
        /\ ahead \in [Tickets -> Tickets \cup {None}] /\ tail \in Tickets \cup {None}
    BY DEF TypeOK
  <2> QED
    BY <2>1, <2>2, <2>3, <2>4
<1> QED
  BY <1>1, <1>2 DEF GiveBack

-----------------------------------------------------------------------------
(* Each part of the invariant, step by step.                               *)

LEMMA QueueSteps == ASSUME ConvInv, [Next]_vars, NEW s, Queued(s) PROVE Moves(s)
<1> USE DEF Moves
<1>0. TypeOK /\ TicketsInv /\ TurnInv /\ Updates \subseteq Tickets /\ Waits \subseteq Tickets
  BY DEF ConvInv, Tickets
<1>1. ASSUME NEW u \in Updates, Receive(u) PROVE Moves(s)
  BY <1>0, <1>1, QueueStays DEF Receive
<1>2. ASSUME NEW u \in Updates, Enter(u) PROVE Moves(s)
  <2>1. ticket[u] = "none" /\ Queue(u)
    BY <1>0, <1>2 DEF Enter, TicketsInv
  <2> QED
    BY <1>0, <1>2, <2>1, QueueJoins
<1>3. ASSUME NEW u \in Updates, Offer(u) PROVE Moves(s)
  BY <1>0, <1>3, HoldingKeepsQueue DEF Offer
<1>4. ASSUME NEW u \in Updates, Answered(u) PROVE Moves(s)
  BY <1>0, <1>4, QueueStays, GivingBack DEF Answered, End
<1>5. ASSUME NEW u \in Updates, Finish(u) PROVE Moves(s)
  BY <1>0, <1>5, GivingBack DEF Finish, End
<1>6. ASSUME NEW u \in Updates, NEW w \in Waits, Wait(u, w) PROVE Moves(s)
  BY <1>0, <1>6, GivingBack DEF Wait, Lends
<1>7. ASSUME NEW w \in Waits, Back(w) PROVE Moves(s)
  <2>1. UNCHANGED lock \/ (Queue(w) /\ ticket[w] = "none")
    BY <1>0, <1>7 DEF Back, TicketsInv
  <2> QED
    BY <1>0, <1>7, <2>1, QueueJoins, QueueStays
<1>8. ASSUME NEW w \in Waits, Regain(w) PROVE Moves(s)
  BY <1>0, <1>8, HoldingKeepsQueue, ReleaseShiftsQueue DEF Regain
<1>9. CASE GiveUp \/ Close \/ Open \/ UNCHANGED vars
  BY <1>0, <1>9, QueueStays DEF GiveUp, Close, Open, vars
<1> QED
  BY <1>1, <1>2, <1>3, <1>4, <1>5, <1>6, <1>7, <1>8, <1>9 DEF Next

LEMMA QueueKept == ASSUME ConvInv, [Next]_vars PROVE IsQueue'
BY QueueSteps DEF ConvInv, IsQueue, Moves

LEMMA TypeKept == ASSUME ConvInv, [Next]_vars PROVE TypeOK'
<1> USE DEF TypeOK, vars, update, waiter, lock
<1>0. TypeOK /\ IsQueue /\ TurnInv /\ TicketsInv /\ Updates \subseteq Tickets /\ Waits \subseteq Tickets
  BY DEF ConvInv, Tickets
<1>1. ASSUME NEW u \in Updates, Receive(u) PROVE TypeOK'
  BY <1>0, <1>1 DEF Receive, Goes
<1>2. ASSUME NEW u \in Updates, Enter(u) PROVE TypeOK'
  BY <1>0, <1>2 DEF Enter, Goes, Queue
<1>3. ASSUME NEW u \in Updates, Offer(u) PROVE TypeOK'
  BY <1>0, <1>3 DEF Offer, Goes, Holds
<1>settles. \A P : Settled(P) \in [Waits -> {"new", "open", "settled", "queued", "back"}]
  BY <1>0 DEF Settled
<1>gives. ASSUME NEW u \in Updates, GiveBack(u)
          PROVE  /\ keeps' \in [Updates -> Tickets \cup {None}]
                 /\ ticket' \in [Tickets -> {"none", "queued", "held", "released"}]
                 /\ ahead' \in [Tickets -> Tickets \cup {None}] /\ tail' \in Tickets \cup {None}
  BY <1>0, <1>gives, GivingBack
<1>4. ASSUME NEW u \in Updates, Answered(u) PROVE TypeOK'
  <2>1. /\ wait' \in [Waits -> {"new", "open", "settled", "queued", "back"}]
        /\ answer' \in [Waits -> Updates \cup {None}] /\ pending' \in Waits \cup {None}
        /\ caller' = caller /\ closed' = closed
    BY <1>0, <1>4, <1>settles DEF Answered, Told
  <2>2. stage' \in [Updates -> {"new", "received", "queued", "offered", "handling", "done"}]
        /\ asked' = asked
    BY <1>0, <1>4 DEF Answered, Goes, End
  <2>3. /\ keeps' \in [Updates -> Tickets \cup {None}]
        /\ ticket' \in [Tickets -> {"none", "queued", "held", "released"}]
        /\ ahead' \in [Tickets -> Tickets \cup {None}] /\ tail' \in Tickets \cup {None}
    BY <1>0, <1>4, <1>gives DEF Answered, End
  <2> QED
    BY <1>0, <2>1, <2>2, <2>3
<1>5. ASSUME NEW u \in Updates, Finish(u) PROVE TypeOK'
  BY <1>0, <1>5, <1>gives DEF Finish, End, Goes
<1>6. ASSUME NEW u \in Updates, NEW w \in Waits, Wait(u, w) PROVE TypeOK'
  <2>1. wait' \in [Waits -> {"new", "open", "settled", "queued", "back"}] /\ pending' \in Waits \cup {None}
    BY <1>0, <1>6, <1>settles DEF Wait
  <2>2. caller' \in [Waits -> Updates \cup {None}]
    BY <1>0, <1>6 DEF Wait, Opens
  <2> QED
    BY <1>0, <1>6, <1>gives, <2>1, <2>2 DEF Wait, Lends
<1>7. ASSUME NEW w \in Waits, Back(w) PROVE TypeOK'
  BY <1>0, <1>7 DEF Back, BackTo, Queue
<1>8. ASSUME NEW w \in Waits, Regain(w) PROVE TypeOK'
  <2>1. caller[w] \in Updates
    BY <1>0, <1>8 DEF Regain, TicketsInv
  <2>2. wait' = [wait EXCEPT ![w] = "back"] /\ UNCHANGED <<update, caller, answer, pending, closed>>
    BY <1>8 DEF Regain, BackTo
  <2>3. CASE Holds(w) /\ keeps' = [keeps EXCEPT ![caller[w]] = w]
    BY <1>0, <2>1, <2>2, <2>3 DEF Holds
  <2>4. CASE Release(w) /\ UNCHANGED keeps
    BY <1>0, <2>2, <2>4 DEF Release
  <2> QED
    BY <1>8, <2>3, <2>4 DEF Regain
<1>9. CASE GiveUp \/ Close
  <2>1. /\ wait' = Settled({pending}) /\ pending' = None /\ closed' \in BOOLEAN
        /\ UNCHANGED <<update, keeps, caller, answer, lock>>
    BY <1>0, <1>9 DEF GiveUp, Close
  <2> QED
    BY <1>0, <2>1, <1>settles
<1>10. CASE Open \/ UNCHANGED vars
  BY <1>0, <1>10 DEF Open
<1> QED
  BY <1>1, <1>2, <1>3, <1>4, <1>5, <1>6, <1>7, <1>8, <1>9, <1>10 DEF Next

\* What is settled, and what settling it leaves outstanding.
LEMMA Settling ==
  ASSUME TypeOK, NEW P, wait' = Settled(P)
  PROVE  \A w \in Waits : wait'[w] = IF w \in P THEN "settled" ELSE wait[w]
BY DEF Settled

LEMMA TicketsKept == ASSUME ConvInv, [Next]_vars PROVE TicketsInv'
<1> USE DEF vars, update, waiter, lock
<1>0. TypeOK /\ IsQueue /\ TurnInv /\ TicketsInv /\ Updates \subseteq Tickets /\ Waits \subseteq Tickets
      /\ NoWaitWhileClosed
  BY DEF ConvInv, Tickets
<1>1. ASSUME NEW u \in Updates, Receive(u) PROVE TicketsInv'
  BY <1>0, <1>1 DEF Receive, Goes, TicketsInv, TypeOK
<1>2. ASSUME NEW u \in Updates, Enter(u) PROVE TicketsInv'
  <2>1. /\ stage' = [stage EXCEPT ![u] = "queued"] /\ ticket' = [ticket EXCEPT ![u] = "queued"]
        /\ UNCHANGED <<asked, waiter>>
    BY <1>2 DEF Enter, Goes, Queue
  <2> QED
    BY <1>0, <2>1, NoneIsNoTicket DEF TicketsInv, TypeOK
<1>3. ASSUME NEW u \in Updates, Offer(u) PROVE TicketsInv'
  <2>1. /\ stage' = [stage EXCEPT ![u] = IF pending = None THEN "handling" ELSE "offered"]
        /\ ticket' = [ticket EXCEPT ![u] = "held"]
        /\ asked' = [asked EXCEPT ![u] = pending] /\ UNCHANGED waiter
    BY <1>3 DEF Offer, Goes, Holds
  <2> QED
    BY <1>0, <2>1, NoneIsNoTicket DEF TicketsInv, TypeOK
<1>gives. ASSUME NEW u \in Updates, GiveBack(u)
          PROVE  \A t \in Tickets : \/ ticket'[t] = ticket[t]
                                    \/ ticket[t] = "held" /\ ticket'[t] = "released"
  BY <1>0, <1>gives, GivingBack, NoneIsNoTicket DEF TurnInv, TurnOf
<1>4. ASSUME NEW u \in Updates, Answered(u) PROVE TicketsInv'
  <2>1. \A t \in Tickets : \/ ticket'[t] = ticket[t]
                           \/ ticket[t] = "held" /\ ticket'[t] = "released"
    BY <1>0, <1>4, <1>gives DEF Answered, End
  <2>2. /\ stage[u] = "offered" /\ asked' = asked
        /\ stage' \in {[stage EXCEPT ![u] = "done"], [stage EXCEPT ![u] = "handling"]}
    BY <1>4 DEF Answered, End, Goes
  <2>3. CASE UNCHANGED waiter
    BY <1>0, <2>1, <2>2, <2>3 DEF TicketsInv, TypeOK
  <2>4. CASE wait' = Settled({pending}) /\ pending' = None /\ caller' = caller /\ asked[u] = pending
    <3>1. pending # None
      BY <1>0, <2>2, <2>4 DEF TicketsInv
    <3>2. \A w \in Waits : wait'[w] = IF w = pending THEN "settled" ELSE wait[w]
      BY <1>0, <2>4, Settling
    <3>3. wait[pending] = "open"
      BY <1>0, <3>1 DEF TicketsInv
    <3>4. \A v \in Updates : stage'[v] \in {"new", "received", "queued", "offered"} => stage'[v] = stage[v]
      BY <1>0, <2>2 DEF TypeOK
    <3>5. \A v \in Updates : /\ stage'[v] \in {"new", "received"} => ticket'[v] = "none"
                             /\ stage'[v] = "queued" => ticket'[v] = "queued"
                             /\ stage'[v] = "offered" => asked'[v] # None
      BY <1>0, <2>1, <2>2, <3>4 DEF TicketsInv
    <3>6. \A w \in Waits : /\ wait'[w] \in {"new", "open", "settled"} => ticket'[w] = "none"
                           /\ wait'[w] = "queued" => ticket'[w] = "queued"
                           /\ wait'[w] = "new" <=> caller'[w] = None
      BY <1>0, <2>1, <2>4, <3>2, <3>3 DEF TicketsInv
    <3> QED
      BY <2>4, <3>5, <3>6 DEF TicketsInv
  <2> QED
    BY <1>4, <2>3, <2>4 DEF Answered, Told
<1>5. ASSUME NEW u \in Updates, Finish(u) PROVE TicketsInv'
  <2>1. \A t \in Tickets : \/ ticket'[t] = ticket[t]
                           \/ ticket[t] = "held" /\ ticket'[t] = "released"
    BY <1>0, <1>5, <1>gives DEF Finish, End
  <2>2. stage[u] = "handling" /\ stage' = [stage EXCEPT ![u] = "done"] /\ UNCHANGED <<asked, waiter>>
    BY <1>5 DEF Finish, End, Goes
  <2> QED
    BY <1>0, <2>1, <2>2 DEF TicketsInv, TypeOK
<1>6. ASSUME NEW u \in Updates, NEW w \in Waits, Wait(u, w) PROVE TicketsInv'
  <2>1. \A t \in Tickets : \/ ticket'[t] = ticket[t]
                           \/ ticket[t] = "held" /\ ticket'[t] = "released"
    BY <1>0, <1>6, <1>gives DEF Wait, Lends
  <2>2. wait[w] = "new" /\ caller' = [caller EXCEPT ![w] = u] /\ UNCHANGED <<stage, asked>>
        /\ u # None /\ w # None
    BY <1>6, NoneIsNoTicket DEF Wait, Opens, Tickets
  <2>3. CASE wait' = [Settled({pending}) EXCEPT ![w] = "open"] /\ pending' = w
    <3>1. \A v \in Waits : wait'[v] = IF v = w THEN "open" ELSE IF v = pending THEN "settled" ELSE wait[v]
      BY <2>3 DEF Settled
    <3>2. \A v \in Waits : v = pending => wait[v] = "open"
      BY <1>0, NoneIsNoTicket DEF TicketsInv, Tickets
    <3>3. \A v \in Waits : /\ wait'[v] \in {"new", "open", "settled"} => ticket'[v] = "none"
                           /\ wait'[v] = "queued" => ticket'[v] = "queued"
      BY <1>0, <2>1, <2>2, <3>1, <3>2 DEF TicketsInv
    <3>4. \A v \in Waits : wait'[v] = "new" <=> caller'[v] = None
      BY <1>0, <2>2, <3>1, <3>2 DEF TicketsInv, TypeOK
    <3>5. pending' # None => wait'[pending'] = "open"
      BY <2>3, <3>1
    <3> QED
      BY <1>0, <2>1, <2>2, <3>3, <3>4, <3>5 DEF TicketsInv
  <2>4. CASE wait' = Settled({pending, w}) /\ pending' = None
    <3>1. \A v \in Waits : wait'[v] = IF v \in {pending, w} THEN "settled" ELSE wait[v]
      BY <1>0, <2>4, Settling
    <3>2. \A v \in Waits : v = pending => wait[v] = "open"
      BY <1>0, NoneIsNoTicket DEF TicketsInv, Tickets
    <3>3. \A v \in Waits : wait'[v] \in {"new", "open", "settled"} => ticket'[v] = "none"
      BY <1>0, <2>1, <2>2, <3>1, <3>2 DEF TicketsInv
    <3>4. \A v \in Waits : wait'[v] = "queued" => ticket'[v] = "queued"
      BY <1>0, <2>1, <3>1 DEF TicketsInv
    <3>5. \A v \in Waits : wait'[v] = "new" <=> caller'[v] = None
      BY <1>0, <2>2, <3>1, <3>2 DEF TicketsInv, TypeOK
    <3>6. \A v \in Updates : /\ stage'[v] \in {"new", "received"} => ticket'[v] = "none"
                             /\ stage'[v] = "queued" => ticket'[v] = "queued"
                             /\ stage'[v] = "offered" => asked'[v] # None
      BY <1>0, <2>1, <2>2 DEF TicketsInv
    <3> QED
      BY <2>4, <3>3, <3>4, <3>5, <3>6 DEF TicketsInv
  <2> QED
    BY <1>6, <2>3, <2>4 DEF Wait
<1>7. ASSUME NEW w \in Waits, Back(w) PROVE TicketsInv'
  <2>1. wait[w] = "settled" /\ UNCHANGED <<update, caller, pending>>
    BY <1>7 DEF Back
  <2>2. CASE wait' = [wait EXCEPT ![w] = "queued"] /\ ticket' = [ticket EXCEPT ![w] = "queued"]
    BY <1>0, <2>1, <2>2, NoneIsNoTicket DEF TicketsInv, TypeOK
  <2>3. CASE wait' = [wait EXCEPT ![w] = "back"] /\ UNCHANGED lock
    BY <1>0, <2>1, <2>3 DEF TicketsInv, TypeOK
  <2> QED
    BY <1>7, <2>2, <2>3 DEF Back, BackTo, Queue
<1>8. ASSUME NEW w \in Waits, Regain(w) PROVE TicketsInv'
  <2>1. /\ wait[w] = "queued" /\ wait' = [wait EXCEPT ![w] = "back"]
        /\ UNCHANGED <<update, caller, pending>>
        /\ ticket' \in {[ticket EXCEPT ![w] = "held"], [ticket EXCEPT ![w] = "released"]}
    BY <1>8 DEF Regain, BackTo, Holds, Release
  <2> QED
    BY <1>0, <2>1, NoneIsNoTicket DEF TicketsInv, TypeOK
<1>9. CASE GiveUp \/ Close
  <2>1. /\ wait' = Settled({pending}) /\ pending' = None /\ UNCHANGED <<update, caller, lock>>
    BY <1>9 DEF GiveUp, Close
  <2>2. \A v \in Waits : wait'[v] = IF v = pending THEN "settled" ELSE wait[v]
    BY <1>0, <2>1, Settling
  <2>3. \A v \in Waits : v = pending => wait[v] = "open"
    BY <1>0, NoneIsNoTicket DEF TicketsInv, Tickets
  <2> QED
    BY <1>0, <2>1, <2>2, <2>3 DEF TicketsInv
<1>10. CASE Open \/ UNCHANGED vars
  BY <1>0, <1>10 DEF Open, TicketsInv
<1> QED
  BY <1>1, <1>2, <1>3, <1>4, <1>5, <1>6, <1>7, <1>8, <1>9, <1>10 DEF Next

\* Two turns never keep a ticket each.
LEMMA OneKeeper ==
  ASSUME TypeOK, IsQueue, TurnInv, NEW u \in Updates, NEW v \in Updates,
         keeps[u] # None, keeps[v] # None
  PROVE  u = v
<1>1. keeps[u] \in Tickets /\ keeps[v] \in Tickets
  BY DEF TypeOK
<1>2. /\ ticket[keeps[u]] = "held" /\ ticket[keeps[v]] = "held"
      /\ keeps[u] = u \/ (keeps[u] \in Waits /\ caller[keeps[u]] = u)
      /\ keeps[v] = v \/ (keeps[v] \in Waits /\ caller[keeps[v]] = v)
  BY DEF TurnInv, TurnOf
<1>3. keeps[u] = keeps[v]
  BY <1>1, <1>2, OneHolder
<1> QED
  BY <1>2, <1>3, NoneIsNoTicket

\* A turn that nothing of it happens to.
LEMMA TurnStays ==
  ASSUME NEW v \in Updates, TurnOf(v), stage'[v] = stage[v], keeps'[v] = keeps[v],
         keeps[v] # None => ticket'[keeps[v]] = ticket[keeps[v]],
         keeps[v] \in Waits => caller'[keeps[v]] = caller[keeps[v]],
         stage[v] = "handling" /\ Outstanding(v)' = {} => Outstanding(v) = {} \/ keeps[v] # None
  PROVE  TurnOf(v)'
BY DEF TurnOf

\* What is outstanding is a matter of the waits that are open, settled or queued.
LEMMA OutstandingSame ==
  ASSUME NEW v \in Updates, caller' = caller,
         \A w \in Waits : wait'[w] = wait[w] \/ {wait[w], wait'[w]} \subseteq {"open", "settled", "queued"}
  PROVE  Outstanding(v)' = Outstanding(v)
BY DEF Outstanding, Under

LEMMA TurnKept == ASSUME ConvInv, [Next]_vars PROVE TurnInv'
<1> USE DEF vars, update, waiter, lock
<1>0. TypeOK /\ IsQueue /\ TurnInv /\ TicketsInv /\ Updates \subseteq Tickets /\ Waits \subseteq Tickets
  BY DEF ConvInv, Tickets
<1>held. \A v \in Updates : keeps[v] # None => keeps[v] \in Tickets /\ ticket[keeps[v]] = "held"
  BY <1>0 DEF TurnInv, TurnOf, TypeOK
<1>1. ASSUME NEW u \in Updates, Receive(u) PROVE TurnInv'
  <2>1. stage[u] = "new" /\ stage' = [stage EXCEPT ![u] = "received"] /\ UNCHANGED <<keeps, waiter, lock>>
    BY <1>1 DEF Receive, Goes
  <2>2. \A v \in Updates : Outstanding(v)' = Outstanding(v)
    BY <2>1 DEF Outstanding, Under
  <2> QED
    BY <1>0, <2>1, <2>2 DEF TurnInv, TurnOf, TypeOK
<1>2. ASSUME NEW u \in Updates, Enter(u) PROVE TurnInv'
  <2>1. /\ stage[u] = "received" /\ stage' = [stage EXCEPT ![u] = "queued"]
        /\ ticket' = [ticket EXCEPT ![u] = "queued"] /\ UNCHANGED <<keeps, waiter>> /\ ticket[u] = "none"
    BY <1>0, <1>2 DEF Enter, Goes, Queue, TicketsInv
  <2>2. \A v \in Updates : Outstanding(v)' = Outstanding(v)
    BY <2>1 DEF Outstanding, Under
  <2>3. \A v \in Updates : keeps[v] # None => ticket'[keeps[v]] = "held"
    BY <1>0, <1>held, <2>1 DEF TypeOK
  <2> QED
    BY <1>0, <2>1, <2>2, <2>3 DEF TurnInv, TurnOf, TypeOK
<1>3. ASSUME NEW u \in Updates, Offer(u) PROVE TurnInv'
  <2>1. /\ stage[u] = "queued" /\ ticket[u] = "queued" /\ stage'[u] \in {"handling", "offered"}
        /\ \A v \in Updates : v # u => stage'[v] = stage[v] /\ keeps'[v] = keeps[v]
        /\ ticket' = [ticket EXCEPT ![u] = "held"] /\ keeps'[u] = u /\ UNCHANGED waiter
    BY <1>0, <1>3 DEF Offer, Goes, Holds, TicketsInv, TypeOK
  <2>2. \A v \in Updates : Outstanding(v)' = Outstanding(v)
    BY <2>1 DEF Outstanding, Under
  <2>3. \A v \in Updates : keeps[v] # None => ticket'[keeps[v]] = ticket[keeps[v]]
    BY <1>0, <1>held, <2>1 DEF TypeOK
  <2>4. TurnOf(u)'
    BY <1>0, <2>1, NoneIsNoTicket DEF TurnOf, TypeOK
  <2>5. ASSUME NEW v \in Updates, v # u PROVE TurnOf(v)'
    BY <1>0, <2>1, <2>2, <2>3, <2>5, TurnStays DEF TurnInv
  <2> QED
    BY <2>4, <2>5 DEF TurnInv
<1>gives. ASSUME NEW u \in Updates, GiveBack(u)
          PROVE  /\ keeps'[u] = None
                 /\ \A v \in Updates : v # u => keeps'[v] = keeps[v]
                 /\ \A v \in Updates : v # u /\ keeps[v] # None => ticket'[keeps[v]] = ticket[keeps[v]]
  <2>1. /\ keeps' = [keeps EXCEPT ![u] = None]
        /\ \A t \in Tickets : ticket'[t] = IF t = keeps[u] THEN "released" ELSE ticket[t]
    BY <1>0, <1>gives, GivingBack
  <2>2. \A v \in Updates : v # u /\ keeps[v] # None => keeps[v] # keeps[u]
    BY <1>0, OneKeeper
  <2> QED
    BY <1>0, <1>held, <2>1, <2>2 DEF TypeOK
\* A turn that is over keeps nothing, and the others go on as they were.
<1>ends. ASSUME NEW u \in Updates, End(u), \A v \in Updates : Outstanding(v)' = Outstanding(v), caller' = caller
         PROVE  TurnInv'
  <2>1. /\ stage' = [stage EXCEPT ![u] = "done"] /\ keeps'[u] = None
        /\ \A v \in Updates : v # u => keeps'[v] = keeps[v]
        /\ \A v \in Updates : v # u /\ keeps[v] # None => ticket'[keeps[v]] = ticket[keeps[v]]
    BY <1>ends, <1>gives DEF End, Goes
  <2>2. TurnOf(u)'
    BY <1>0, <2>1 DEF TurnOf, TypeOK
  <2>3. ASSUME NEW v \in Updates, v # u PROVE TurnOf(v)'
    BY <1>0, <1>ends, <2>1, <2>3, TurnStays DEF TurnInv, TypeOK
  <2> QED
    BY <2>2, <2>3 DEF TurnInv
<1>4. ASSUME NEW u \in Updates, Answered(u) PROVE TurnInv'
  <2>1. caller' = caller /\ (wait' = wait \/ (wait' = Settled({pending}) /\ asked[u] = pending))
    BY <1>4 DEF Answered, Told
  <2>2. ASSUME wait' = Settled({pending}), asked[u] = pending, NEW w \in Waits
        PROVE  wait'[w] = wait[w] \/ (wait[w] = "open" /\ wait'[w] = "settled")
    <3>1. pending # None
      BY <1>0, <1>4, <2>2 DEF TicketsInv, Answered
    <3> QED
      BY <1>0, <2>2, <3>1, Settling DEF TicketsInv
  <2>3. ASSUME NEW v \in Updates PROVE Outstanding(v)' = Outstanding(v)
    BY <2>1, <2>2, OutstandingSame
  <2>4. CASE End(u)
    BY <1>ends, <2>1, <2>3, <2>4
  <2>5. CASE Goes(u, "handling") /\ UNCHANGED <<keeps, lock>>
    <3>1. stage[u] = "offered" /\ stage' = [stage EXCEPT ![u] = "handling"]
      BY <1>4, <2>5 DEF Answered, Goes
    <3>2. TurnOf(u)'
      BY <1>0, <2>1, <2>5, <3>1 DEF TurnInv, TurnOf, TypeOK
    <3>3. ASSUME NEW v \in Updates, v # u PROVE TurnOf(v)'
      BY <1>0, <2>1, <2>3, <2>5, <3>1, <3>3, TurnStays DEF TurnInv, TypeOK
    <3> QED
      BY <3>2, <3>3 DEF TurnInv
  <2> QED
    BY <1>4, <2>4, <2>5 DEF Answered
<1>5. ASSUME NEW u \in Updates, Finish(u) PROVE TurnInv'
  <2>1. \A v \in Updates : Outstanding(v)' = Outstanding(v)
    BY <1>5 DEF Finish, Outstanding, Under
  <2> QED
    BY <1>5, <1>ends, <2>1 DEF Finish
<1>6. ASSUME NEW u \in Updates, NEW w \in Waits, Wait(u, w) PROVE TurnInv'
  <2>1. /\ stage[u] \in {"handling", "done"} /\ wait[w] = "new" /\ caller' = [caller EXCEPT ![w] = u]
        /\ stage' = stage /\ wait'[w] \in {"open", "settled"}
        /\ \A x \in Waits : x # w => wait'[x] = wait[x] \/ (x = pending /\ wait'[x] = "settled")
    BY <1>0, <1>6 DEF Wait, Opens, Settled, TypeOK
  <2>2. /\ keeps'[u] = None
        /\ \A v \in Updates : v # u => keeps'[v] = keeps[v]
        /\ \A v \in Updates : v # u /\ keeps[v] # None => ticket'[keeps[v]] = ticket[keeps[v]]
    BY <1>6, <1>gives DEF Wait, Lends
  <2>3. w \in Outstanding(u)'
    BY <1>0, <2>1 DEF Outstanding, Under, TypeOK
  <2>4. TurnOf(u)'
    BY <2>1, <2>2, <2>3 DEF TurnOf
  <2>5. ASSUME NEW v \in Updates, v # u PROVE TurnOf(v)'
    <3>1. Outstanding(v) \subseteq Outstanding(v)'
      <4> SUFFICES ASSUME NEW x \in Waits, caller[x] = v, wait[x] \in {"open", "settled", "queued"}
                   PROVE  caller'[x] = v /\ wait'[x] \in {"open", "settled", "queued"}
        BY DEF Outstanding, Under
      <4>1. x # w
        BY <2>1
      <4> QED
        BY <1>0, <2>1, <4>1 DEF TypeOK
    <3>2. keeps[v] # w
      BY <1>0, <1>held, <2>1, NoneIsNoTicket DEF TicketsInv, Tickets
    <3>3. keeps[v] \in Waits => caller'[keeps[v]] = caller[keeps[v]]
      BY <1>0, <2>1, <3>2 DEF TypeOK
    <3>4. TurnOf(v) /\ stage'[v] = stage[v] /\ keeps'[v] = keeps[v]
      BY <1>0, <2>1, <2>2, <2>5 DEF TurnInv
    <3> QED
      BY <2>2, <2>5, <3>1, <3>3, <3>4, TurnStays
  <2> QED
    BY <2>4, <2>5 DEF TurnInv
<1>7. ASSUME NEW w \in Waits, Back(w) PROVE TurnInv'
  <2>1. wait[w] = "settled" /\ ticket[w] = "none" /\ UNCHANGED <<update, keeps, caller>>
    BY <1>0, <1>7 DEF Back, TicketsInv
  <2>2. \A v \in Updates : keeps[v] # None => ticket'[keeps[v]] = ticket[keeps[v]]
    BY <1>0, <1>7, <1>held, <2>1 DEF Back, Queue, TypeOK
  <2>3. ASSUME NEW v \in Updates, stage[v] = "handling", Outstanding(v)' = {} PROVE Outstanding(v) = {}
    <3>1. CASE wait' = [wait EXCEPT ![w] = "queued"]
      BY <1>0, <2>1, <2>3, <3>1 DEF Outstanding, Under, TypeOK
    <3>2. CASE wait' = [wait EXCEPT ![w] = "back"] /\ caller[w] # v
      BY <1>0, <2>1, <2>3, <3>2 DEF Outstanding, Under, TypeOK
    <3>3. CASE wait' = [wait EXCEPT ![w] = "back"] /\ caller[w] = v /\ Waiting(v) # {w}
      <4>1. w \in Waiting(v)
        BY <2>1, <3>3 DEF Waiting, Under
      <4>2. PICK x \in Waiting(v) : x # w
        BY <3>3, <4>1
      <4>3. x \in Outstanding(v)'
        BY <1>0, <2>1, <3>3, <4>2 DEF Waiting, Outstanding, Under, TypeOK
      <4> QED
        BY <2>3, <4>3
    <3> QED
      BY <1>7, <2>3, <3>1, <3>2, <3>3 DEF Back, BackTo
  <2>4. ASSUME NEW v \in Updates PROVE TurnOf(v)'
    BY <1>0, <2>1, <2>2, <2>3, TurnStays DEF TurnInv
  <2> QED
    BY <2>4 DEF TurnInv
<1>8. ASSUME NEW w \in Waits, Regain(w) PROVE TurnInv'
  <2> PICK c \in Updates : caller[w] = c
    BY <1>0, <1>8 DEF Regain, TicketsInv, TypeOK
  <2>1. /\ wait[w] = "queued" /\ ticket[w] = "queued" /\ c # None
        /\ wait' = [wait EXCEPT ![w] = "back"] /\ UNCHANGED <<update, caller>>
    BY <1>0, <1>8, NoneIsNoTicket DEF Regain, BackTo, TicketsInv, TypeOK, Tickets
  <2>2. \A t \in Tickets : t # w => ticket'[t] = ticket[t]
    BY <1>0, <1>8 DEF Regain, Holds, Release, TypeOK
  <2>3. \A v \in Updates : keeps[v] # None => ticket'[keeps[v]] = ticket[keeps[v]]
    BY <1>held, <2>1, <2>2
  <2>4. ASSUME NEW v \in Updates, v # c PROVE TurnOf(v)'
    <3>1. Outstanding(v)' = Outstanding(v)
      BY <1>0, <2>1, <2>4 DEF Outstanding, Under, TypeOK
    <3>2. keeps'[v] = keeps[v]
      BY <1>0, <1>8, <2>4 DEF Regain, TypeOK
    <3>3. TurnOf(v) /\ stage'[v] = stage[v]
      BY <1>0, <2>1 DEF TurnInv
    <3> QED
      BY <2>1, <2>3, <3>1, <3>2, <3>3, TurnStays
  <2>5. TurnOf(c)'
    <3>1. CASE Wanted(c) /\ Holds(w) /\ keeps' = [keeps EXCEPT ![c] = w]
      <4>1. keeps'[c] = w /\ ticket'[w] = "held" /\ stage'[c] = "handling" /\ caller'[w] = c
        BY <1>0, <2>1, <3>1 DEF Wanted, Holds, TypeOK
      <4> QED
        BY <4>1, NoneIsNoTicket DEF TurnOf, Tickets
    <3>2. CASE ~Wanted(c) /\ UNCHANGED keeps
      <4>1. ASSUME stage[c] = "handling", Outstanding(c)' = {} PROVE keeps[c] # None
        <5>1. Waiting(c) \subseteq Outstanding(c)'
          BY <1>0, <2>1 DEF Waiting, Outstanding, Under, TypeOK
        <5> QED
          BY <3>2, <4>1, <5>1 DEF Wanted
      <4>2. TurnOf(c) /\ stage'[c] = stage[c] /\ keeps'[c] = keeps[c]
        BY <1>0, <2>1, <3>2 DEF TurnInv
      <4> QED
        BY <2>1, <2>3, <4>1, <4>2, TurnStays
    <3> QED
      BY <1>8, <3>1, <3>2 DEF Regain
  <2> QED
    BY <2>4, <2>5 DEF TurnInv
<1>9. CASE GiveUp \/ Close \/ Open \/ UNCHANGED vars
  <2>1. caller' = caller /\ (wait' = wait \/ wait' = Settled({pending})) /\ UNCHANGED <<update, keeps, lock>>
    BY <1>9 DEF GiveUp, Close, Open
  <2>2. \A w \in Waits : wait'[w] = wait[w] \/ (wait[w] = "open" /\ wait'[w] = "settled")
    BY <1>0, <2>1, Settling, NoneIsNoTicket DEF TicketsInv, Tickets
  <2>3. ASSUME NEW v \in Updates PROVE TurnOf(v)'
    <3>1. Outstanding(v)' = Outstanding(v)
      BY <2>1, <2>2, OutstandingSame
    <3> QED
      BY <1>0, <2>1, <3>1, TurnStays DEF TurnInv
  <2> QED
    BY <2>3 DEF TurnInv
<1> QED
  BY <1>1, <1>2, <1>3, <1>4, <1>5, <1>6, <1>7, <1>8, <1>9 DEF Next

LEMMA ClosedKept == ASSUME ConvInv, [Next]_vars PROVE NoWaitWhileClosed'
BY DEF ConvInv, NoWaitWhileClosed, Next, vars, update, waiter, lock, Receive, Enter, Offer, Answered, Told,
       Finish, Wait, Back, Regain, GiveUp, Close, Open

-----------------------------------------------------------------------------
(* The order of the updates: they join the queue as they came, and whoever *)
(* has had the turn was first in it.                                       *)

Joined(u) == stage[u] \notin {"new", "received"}

InOrder(s) ==
    \A i, j \in 1..Len(s) : i < j /\ s[i] \in Updates /\ s[j] \in Updates => s[i] < s[j]

OrderInv ==
    /\ \A u, v \in Updates : v < u /\ Joined(u) => Joined(v)
    /\ \E s : Queued(s) /\ InOrder(s)
    /\ NoneOvertakes

\* Nobody takes back that it has joined, and who joins does so by entering.
LEMMA Joining ==
  ASSUME TypeOK, [Next]_vars
  PROVE  /\ \A u \in Updates : Joined(u) => Joined(u)'
         /\ \A u \in Updates : Joined(u)' => Joined(u) \/ Enter(u)
<1> USE DEF TypeOK, Joined
<1>1. ASSUME NEW u \in Updates, Enter(u)
      PROVE  stage' = [stage EXCEPT ![u] = "queued"]
  BY <1>1 DEF Enter, Goes
<1>2. ASSUME NEW u \in Updates, Receive(u) PROVE stage[u] = "new" /\ stage' = [stage EXCEPT ![u] = "received"]
  BY <1>2 DEF Receive, Goes
<1>3. ASSUME NEW u \in Updates, Offer(u) \/ Answered(u) \/ Finish(u)
      PROVE  Joined(u) /\ \E x \in {"offered", "handling", "done"} : stage' = [stage EXCEPT ![u] = x]
  BY <1>3 DEF Offer, Answered, Finish, End, Goes
<1>4. ASSUME NEW w \in Waits, (\E u \in Updates : Wait(u, w)) \/ Back(w) \/ Regain(w) PROVE stage' = stage
  BY <1>4 DEF Wait, Back, Regain, update
<1>5. CASE GiveUp \/ Close \/ Open \/ UNCHANGED vars
  BY <1>5 DEF GiveUp, Close, Open, vars, update
<1> QED
  BY <1>1, <1>2, <1>3, <1>4, <1>5 DEF Next

\* Nobody takes back having had the turn, and who gets it is offered.
LEMMA HadTheTurn ==
  ASSUME TypeOK, [Next]_vars
  PROVE  \A u \in Updates :
            /\ stage[u] \in {"offered", "handling", "done"} => stage'[u] \in {"offered", "handling", "done"}
            /\ stage'[u] \in {"offered", "handling", "done"} =>
                  stage[u] \in {"offered", "handling", "done"} \/ Offer(u)
<1> USE DEF TypeOK
<1>1. ASSUME NEW u \in Updates, Enter(u) \/ Receive(u)
      PROVE  /\ stage[u] \in {"new", "received"}
             /\ \E x \in {"received", "queued"} : stage' = [stage EXCEPT ![u] = x]
  BY <1>1 DEF Enter, Receive, Goes
<1>2. ASSUME NEW u \in Updates, Offer(u)
      PROVE  \E x \in {"offered", "handling"} : stage' = [stage EXCEPT ![u] = x]
  BY <1>2 DEF Offer, Goes
<1>3. ASSUME NEW u \in Updates, Answered(u) \/ Finish(u)
      PROVE  /\ stage[u] \in {"offered", "handling"}
             /\ \E x \in {"handling", "done"} : stage' = [stage EXCEPT ![u] = x]
  BY <1>3 DEF Answered, Finish, End, Goes
<1>4. ASSUME NEW w \in Waits, (\E u \in Updates : Wait(u, w)) \/ Back(w) \/ Regain(w) PROVE stage' = stage
  BY <1>4 DEF Wait, Back, Regain, update
<1>5. CASE GiveUp \/ Close \/ Open \/ UNCHANGED vars
  BY <1>5 DEF GiveUp, Close, Open, vars, update
<1> QED
  BY <1>1, <1>2, <1>3, <1>4, <1>5 DEF Next

\* An update that has joined was before one that joins now.
LEMMA EntersInOrder ==
  ASSUME ConvInv, OrderInv, NEW u \in Updates, Enter(u), NEW v \in Updates, Live(v)
  PROVE  v < u
<1>1. stage[u] = "received"
  BY DEF Enter
<1>2. Joined(v) /\ v # u
  BY <1>1 DEF ConvInv, TicketsInv, Live, Joined
<1>3. ~(u < v)
  BY <1>1, <1>2 DEF OrderInv, Joined
<1>4. u \in Nat /\ v \in Nat
  BY ConversationAssumption
<1> QED
  BY <1>2, <1>3, <1>4

LEMMA OrderOfQueue ==
  ASSUME ConvInv, OrderInv, [Next]_vars PROVE \E s : Queued(s)' /\ InOrder(s)
<1>1. PICK s : Queued(s) /\ InOrder(s)
  BY DEF OrderInv
<1>2. s \in Seq(Tickets) /\ Len(s) \in Nat
  BY <1>1 DEF Queued
<1>3. CASE Queued(s)'
  BY <1>1, <1>3
<1>4. CASE s # <<>> /\ Queued(Tail(s))'
  <2>1. \A i \in 1..Len(Tail(s)) : Tail(s)[i] = s[i + 1] /\ i + 1 \in 1..Len(s)
    BY <1>2, <1>4
  <2>2. \A i, j \in 1..Len(Tail(s)) : i < j => i + 1 < j + 1
    OBVIOUS
  <2>3. InOrder(Tail(s))
    BY <1>1, <2>1, <2>2 DEF InOrder
  <2> QED
    BY <1>4, <2>3
<1>5. ASSUME NEW t \in Tickets, Queued(Append(s, t))',
             t \in Updates => \A v \in Updates : Live(v) => v < t
      PROVE  InOrder(Append(s, t))
  <2>1. /\ Len(Append(s, t)) = Len(s) + 1 /\ Append(s, t)[Len(s) + 1] = t
        /\ \A i \in 1..Len(s) : Append(s, t)[i] = s[i] /\ Live(s[i])
    BY <1>1, <1>2 DEF Queued
  <2> DEFINE r == Append(s, t)
  <2> SUFFICES ASSUME NEW i \in 1..Len(r), NEW j \in 1..Len(r), i < j, r[i] \in Updates, r[j] \in Updates
               PROVE  r[i] < r[j]
    BY DEF InOrder
  <2>2. i \in 1..Len(s) /\ (j \in 1..Len(s) \/ j = Len(s) + 1)
    BY <1>2, <2>1
  <2>3. CASE j \in 1..Len(s)
    BY <1>1, <2>1, <2>2, <2>3 DEF InOrder
  <2>4. CASE j = Len(s) + 1
    BY <1>5, <2>1, <2>2, <2>4
  <2> QED
    BY <2>2, <2>3, <2>4
<1>6. ASSUME NEW u \in Updates, Enter(u), Queued(Append(s, u))' PROVE InOrder(Append(s, u))
  BY <1>5, <1>6, EntersInOrder DEF Tickets
<1>7. ASSUME NEW w \in Waits, Queued(Append(s, w))' PROVE InOrder(Append(s, w))
  BY <1>5, <1>7, NoneIsNoTicket DEF Tickets
<1> QED
  BY <1>1, <1>3, <1>4, <1>6, <1>7, QueueSteps DEF Moves

\* Who takes the turn is before every update that is queued.
LEMMA FirstIsEarliest ==
  ASSUME ConvInv, OrderInv, NEW u \in Updates, Comes(u), NEW v \in Updates, v < u
  PROVE  stage[v] # "queued"
<1> SUFFICES ASSUME stage[v] = "queued" PROVE FALSE
  OBVIOUS
<1>1. PICK s : Queued(s) /\ InOrder(s)
  BY DEF OrderInv
<1>2. Len(s) \in Nat \ {0} /\ s[1] = u
  BY <1>1, FrontIsFirst DEF Tickets
<1>3. v \in Tickets /\ Live(v)
  BY DEF ConvInv, TicketsInv, Live, Tickets
<1>4. PICK j \in 1..Len(s) : s[j] = v
  BY <1>1, <1>3 DEF Queued
<1>5. u \in Nat /\ v \in Nat
  BY ConversationAssumption
<1>6. 1 \in 1..Len(s) /\ (j = 1 \/ 1 < j)
  BY <1>2
<1>7. j # 1 => u < v
  BY <1>1, <1>2, <1>4, <1>6 DEF InOrder
<1> QED
  BY <1>2, <1>4, <1>5, <1>7

LEMMA OrderKept == ASSUME ConvInv, OrderInv, [Next]_vars PROVE OrderInv'
<1>0. TypeOK
  BY DEF ConvInv
<1>1. \A u, v \in Updates : v < u /\ Joined(u)' => Joined(v)'
  <2> SUFFICES ASSUME NEW u \in Updates, NEW v \in Updates, v < u, Joined(u)' PROVE Joined(v)'
    OBVIOUS
  <2>1. CASE Joined(u)
    BY <1>0, <2>1, Joining DEF OrderInv
  <2>2. CASE Enter(u)
    <3>1. Joined(v)
      BY <2>2 DEF Enter, Joined
    <3> QED
      BY <1>0, <3>1, Joining
  <2> QED
    BY <1>0, <2>1, <2>2, Joining
<1>2. \E s : Queued(s)' /\ InOrder(s)'
  BY OrderOfQueue DEF InOrder
<1>3. NoneOvertakes'
  <2>1. \A u \in Updates :
           /\ stage[u] \in {"offered", "handling", "done"} => stage'[u] \in {"offered", "handling", "done"}
           /\ stage'[u] \in {"offered", "handling", "done"} =>
                 stage[u] \in {"offered", "handling", "done"} \/ Offer(u)
    BY <1>0, HadTheTurn
  <2> SUFFICES ASSUME NEW u \in Updates, NEW v \in Updates, v < u,
                      stage'[u] \in {"offered", "handling", "done"}
               PROVE  stage'[v] \in {"offered", "handling", "done"}
    BY DEF NoneOvertakes
  <2>2. CASE stage[u] \in {"offered", "handling", "done"}
    BY <2>1, <2>2 DEF OrderInv, NoneOvertakes
  <2>3. CASE Offer(u)
    <3>1. Comes(u) /\ Joined(u)
      BY <2>3 DEF Offer, Joined
    <3>2. Joined(v) /\ stage[v] # "queued"
      BY <3>1, FirstIsEarliest DEF OrderInv
    <3>3. stage[v] \in {"offered", "handling", "done"}
      BY <1>0, <3>2 DEF Joined, TypeOK
    <3> QED
      BY <2>1, <3>3
  <2> QED
    BY <2>1, <2>2, <2>3
<1> QED
  BY <1>1, <1>2, <1>3 DEF OrderInv

LEMMA OrderStart == ASSUME Init PROVE OrderInv
<1>1. Queued(<<>>) /\ InOrder(<<>>)
  BY DEF Init, Queued, Live, InOrder
<1>2. NoneOvertakes /\ \A u \in Updates : ~Joined(u)
  BY DEF Init, NoneOvertakes, Joined
<1> QED
  BY <1>1, <1>2 DEF OrderInv

-----------------------------------------------------------------------------

LEMMA ConvStart == ASSUME Init PROVE ConvInv
<1>1. TypeOK
  BY NoneIsNoTicket DEF Init, TypeOK, Tickets
<1>2. Queued(<<>>)
  BY DEF Init, Queued, Live
<1>3. TicketsInv /\ TurnInv /\ NoWaitWhileClosed
  BY NoneIsNoTicket DEF Init, TicketsInv, TurnInv, TurnOf, NoWaitWhileClosed, Tickets
<1> QED
  BY <1>1, <1>2, <1>3 DEF ConvInv, IsQueue

LEMMA ConvInvariance == Spec => []ConvInv
<1>1. ConvInv /\ [Next]_vars => ConvInv'
  BY TypeKept, QueueKept, TicketsKept, TurnKept, ClosedKept DEF ConvInv
<1> QED
  BY <1>1, ConvStart, PTL DEF Spec

LEMMA AloneInConversation == ASSUME ConvInv PROVE RunsAlone
<1>1. \A u \in Updates : Running(u) => keeps[u] # None
  BY DEF ConvInv, TurnInv, TurnOf, Running
<1> QED
  BY <1>1, OneKeeper DEF ConvInv, RunsAlone

LEMMA LockIsDropped == ASSUME ConvInv PROVE NoLockLeaked
<1>1. PICK s : Queued(s)
  BY DEF ConvInv, IsQueue
<1>2. ASSUME tail # None PROVE \E t \in Tickets : ticket[t] \in {"queued", "held"}
  <2>1. Len(s) \in Nat /\ Len(s) # 0 /\ s \in Seq(Tickets)
    BY <1>1, <1>2 DEF Queued
  <2>2. Len(s) \in 1..Len(s) /\ s[Len(s)] \in Tickets
    BY <2>1
  <2> QED
    BY <1>1, <2>2 DEF Queued, Live
<1>3. \A u \in Updates : stage[u] = "done" => keeps[u] = None
  BY DEF ConvInv, TurnInv, TurnOf
<1> QED
  BY <1>2, <1>3 DEF NoLockLeaked

(***************************************************************************)
(* The tickets, the turns and the waits stay what they are in identity.ts, *)
(* conversation.ts and waiters.ts, for any number of updates and waits.    *)
(***************************************************************************)
THEOREM TypeCorrect == Spec => []TypeOK
<1>1. ConvInv => TypeOK
  BY DEF ConvInv
<1> QED
  BY <1>1, ConvInvariance, PTL

(***************************************************************************)
(* The lock is a queue (acquire in identity.ts), though all it has is its  *)
(* tail and each ticket the one before: at every step the first leaves it, *)
(* or one joins it behind all the others, or it stays as it is.  No run    *)
(* can check this one: the queue is nowhere in the state.                  *)
(***************************************************************************)
THEOREM LockIsAQueue == Spec => []IsQueue /\ [][\A s : Queued(s) => Moves(s)]_vars
<1>1. ConvInv => IsQueue
  BY DEF ConvInv
<1>2. ConvInv /\ [Next]_vars => [\A s : Queued(s) => Moves(s)]_vars
  BY QueueSteps
<1> QED
  BY <1>1, <1>2, ConvInvariance, PTL DEF Spec

(***************************************************************************)
(* The updates of a conversation get its turn in the order they came in    *)
(* (middleware in conversation.ts), whoever lends it and takes it again.   *)
(***************************************************************************)
THEOREM OrderIsKept == Spec => []NoneOvertakes
<1>1. Init => OrderInv
  BY OrderStart
<1>2. ConvInv /\ OrderInv /\ [Next]_vars => OrderInv'
  BY OrderKept
<1>3. OrderInv => NoneOvertakes
  BY DEF OrderInv
<1> QED
  BY <1>1, <1>2, <1>3, ConvInvariance, PTL DEF Spec

(***************************************************************************)
(* The lock and the turns (identity.ts, conversation.ts): however the      *)
(* updates of a conversation and the waits of its handlers come, are       *)
(* answered, given up and come back, one of its updates runs at a time.    *)
(***************************************************************************)
THEOREM OneAtATime == Spec => []RunsAlone
BY ConvInvariance, AloneInConversation, PTL

(***************************************************************************)
(* The lock is remembered only while somebody queues for it or holds it,   *)
(* and no turn outlives its update (release and end).                      *)
(***************************************************************************)
THEOREM NoLockIsLeaked == Spec => []NoLockLeaked
<1>1. ConvInv => NoLockLeaked
  BY LockIsDropped
<1> QED
  BY <1>1, ConvInvariance, PTL

(***************************************************************************)
(* Nothing is registered between the closing of the register and its       *)
(* opening again: a client that stops waits for no answer.                 *)
(***************************************************************************)
THEOREM ClosedHasNoWait == Spec => []NoWaitWhileClosed
<1>1. ConvInv => NoWaitWhileClosed
  BY DEF ConvInv
<1> QED
  BY <1>1, ConvInvariance, PTL
=============================================================================
