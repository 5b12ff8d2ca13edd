------------------------ MODULE AreaOwnershipProofs ------------------------
(***************************************************************************)
(* What holds of an area that the store leases, for any number of runs and *)
(* processes, of lost answers and of deaths: no write lands after a        *)
(* successor has the area, and its claim is its owner's.  Leased or not,   *)
(* no name is left with a run that has ended.                              *)
(*                                                                         *)
(* The owner, where there is one, has the last token granted; so a run     *)
(* whose write the store lets through has the latest turn of all.          *)
(***************************************************************************)
EXTENDS AreaOwnership, TLAPS

Tokens ==
    /\ Leases
    /\ owner \in {0, token}
    /\ \A r \in Runs : turn[r] <= token
    /\ \A r, s \in Runs : turn[r] # 0 /\ turn[r] = turn[s] => r = s

\* A claim is taken back only on the way out.
Leaving == \A r \in Runs : "unclaim" \in adrift[r] => stage[r] \in {"draining", "gone", "crashed"}

\* A name is held in the process of the run that has it.
AtHome == \A p \in Processes : registry[p] # None => Proc[registry[p]] = p

IInv == TypeOK /\ Tokens /\ Leaving /\ AtHome /\ NoLateWrite /\ ClaimIsTheOwners /\ NoNameLeaked

LEMMA InitInv == Leases /\ Init => IInv
BY RunAssumption
   DEF Init, IInv, TypeOK, Tokens, Leaving, AtHome, NoLateWrite, ClaimIsTheOwners,
       NoNameLeaked, Stages

-----------------------------------------------------------------------------
(* The area.                                                               *)

LEMMA OwnerIsLatest ==
  ASSUME TypeOK, Tokens, NEW r \in Runs, Mine(r)
  PROVE  ~Succeeded(r) /\ \A s \in Runs : Mine(s) => s = r
BY DEF TypeOK, Tokens, Mine, Succeeded

\* What a write that the store lets through, or does not, may do to the area.
LEMMA StoreKeeps ==
  ASSUME IInv, NEW r \in Runs, NEW c \in Runs \cup {None}, Store(r, c)
  PROVE  /\ late' = {} /\ claim' \in Runs \cup {None} /\ believes' \subseteq Runs
         /\ claim' = claim \/ (Mine(r) /\ claim' = c)
BY OwnerIsLatest DEF IInv, TypeOK, NoLateWrite, Store, Lands, Refuses, area, Tokens

LEMMA GrantKeeps ==
  ASSUME TypeOK, Tokens, NEW r \in Runs, Grant(r),
         turn' = turn \/ turn' = [turn EXCEPT ![r] = token + 1]
  PROVE  /\ Tokens' /\ owner' \in Nat /\ token' \in Nat /\ turn' \in [Runs -> Nat]
         /\ \A s \in Runs : Mine(s)' => s = r /\ turn' # turn
<1>1. /\ token \in Nat /\ turn \in [Runs -> Nat] /\ token' = token + 1 /\ owner' = token + 1
      /\ \A s \in Runs : turn[s] <= token
  BY DEF TypeOK, Tokens, Grant
<1>2. \A s \in Runs : turn'[s] = turn[s] \/ (s = r /\ turn'[s] = token + 1 /\ turn' # turn)
  BY <1>1
<1>3. turn' \in [Runs -> Nat]
  BY <1>1
<1>4. \A s \in Runs : turn[s] \in Nat /\ turn[s] # token + 1
  BY <1>1
<1> QED
  BY <1>1, <1>2, <1>3, <1>4 DEF Tokens, Mine

-----------------------------------------------------------------------------
(* Steps that only move a run on.                                          *)

LEMMA MovesOn ==
  ASSUME IInv, NEW r \in Runs, NEW s \in Stages,
         Goes(r, s), UNCHANGED <<lease, claim, late, lost, writing, adrift>>,
         s # "open", s \notin Ended,
         stage[r] \in {"draining", "gone", "crashed"} => s \in {"draining", "gone", "crashed"},
         registry' \in [Processes -> Runs \cup {None}],
         \A p \in Processes : registry'[p] \in {registry[p], None} \/ (registry'[p] = r /\ Proc[r] = p),
         holds' \subseteq Runs, waitsFor' \in [Runs -> Runs \cup {None}]
  PROVE  IInv'
<1>1. stage' = [stage EXCEPT ![r] = s]
  BY DEF Goes
<1>2. TypeOK'
  BY <1>1 DEF IInv, TypeOK, lease
<1>3. Tokens' /\ \A t \in Runs : Mine(t)' <=> Mine(t)
  BY DEF IInv, Tokens, Mine, lease
<1>4. Leaving' /\ NoLateWrite'
  BY <1>1 DEF IInv, TypeOK, Leaving, NoLateWrite
<1>5. ClaimIsTheOwners'
  BY <1>1, <1>3 DEF IInv, TypeOK, ClaimIsTheOwners
<1>6. AtHome' /\ NoNameLeaked'
  BY <1>1, RunAssumption DEF IInv, TypeOK, AtHome, NoNameLeaked
<1> QED
  BY <1>2, <1>3, <1>4, <1>5, <1>6 DEF IInv

LEMMA TakeMovesOn ==
  ASSUME IInv, NEW r \in Runs, stage[r] \in {"idle", "guarding"}, Take(r), UNCHANGED lost
  PROVE  IInv'
<1>1. Leases /\ Proc[r] \in Processes
  BY RunAssumption DEF IInv, Tokens
<1>2. UNCHANGED <<lease, claim, late, lost, writing, adrift>> /\ Goes(r, "leasing")
  BY <1>1 DEF Take, lease, area, sent
<1>3. /\ registry' \in [Processes -> Runs \cup {None}]
      /\ \A p \in Processes : registry'[p] = registry[p] \/ (registry'[p] = r /\ Proc[r] = p)
      /\ holds' \subseteq Runs /\ waitsFor' \in [Runs -> Runs \cup {None}]
  BY <1>1 DEF Take, IInv, TypeOK
<1> QED
  BY <1>2, <1>3, MovesOn DEF Stages, Ended

LEMMA ClaimStep == ASSUME IInv, NEW r \in Runs, Claim(r) PROVE IInv'
<1>1. CASE Take(r)
  BY <1>1, TakeMovesOn DEF Claim, Take, sent
<1>2. CASE /\ Goes(r, "refused") /\ UNCHANGED <<guard, lease, area, sent>>
  <2>1. stage' = [stage EXCEPT ![r] = "refused"] /\ stage[r] = "idle"
    BY <1>2 DEF Goes, Claim
  <2>2. \A p \in Processes : registry[p] # r \/ r = None
    BY <2>1 DEF IInv, NoNameLeaked, Ended
  <2>3. TypeOK'
    BY <1>2, <2>1 DEF IInv, TypeOK, Stages, guard, lease, area, sent
  <2>4. Tokens' /\ Leaving' /\ NoLateWrite' /\ ClaimIsTheOwners' /\ AtHome'
    BY <1>2, <2>1 DEF IInv, TypeOK, Tokens, Leaving, NoLateWrite, ClaimIsTheOwners, AtHome, Mine,
                      guard, lease, area, sent
  <2>5. NoNameLeaked'
    BY <1>2, <2>1, <2>2, RunAssumption DEF IInv, TypeOK, NoNameLeaked, guard
  <2> QED
    BY <2>3, <2>4, <2>5 DEF IInv
<1>3. CASE /\ Holder(r) \in holds
           /\ holds' = holds \ {Holder(r)}
           /\ waitsFor' = [waitsFor EXCEPT ![r] =
                  IF stage[Holder(r)] = "leasing" THEN None ELSE Holder(r)]
           /\ Goes(r, "guarding") /\ UNCHANGED <<registry, lease, area, sent>>
  <2>1. /\ registry' \in [Processes -> Runs \cup {None}] /\ UNCHANGED registry
        /\ holds' \subseteq Runs /\ waitsFor' \in [Runs -> Runs \cup {None}]
        /\ UNCHANGED <<lease, claim, late, lost, writing, adrift>>
        /\ stage[r] = "idle"
    BY <1>3 DEF IInv, TypeOK, area, sent, Claim
  <2> QED
    BY <1>3, <2>1, MovesOn DEF Stages, Ended
<1> QED
  BY <1>1, <1>2, <1>3 DEF Claim

LEMMA GrantedStep == ASSUME IInv, NEW r \in Runs, Granted(r) PROVE IInv'
BY TakeMovesOn DEF Granted, Take, sent

LEMMA GuardKept ==
  ASSUME IInv, UNCHANGED guard
  PROVE  /\ registry' \in [Processes -> Runs \cup {None}]
         /\ \A p \in Processes : registry'[p] = registry[p]
         /\ holds' \subseteq Runs /\ waitsFor' \in [Runs -> Runs \cup {None}]
BY DEF IInv, TypeOK, guard

LEMMA LetGoKeeps ==
  ASSUME IInv, NEW r \in Runs, LetGo(r)
  PROVE  /\ Goes(r, "draining")
         /\ registry' \in [Processes -> Runs \cup {None}]
         /\ \A p \in Processes : registry'[p] = registry[p]
         /\ holds' \subseteq Runs /\ waitsFor' \in [Runs -> Runs \cup {None}]
BY DEF IInv, TypeOK, LetGo

LEMMA SettleStep == ASSUME IInv, NEW r \in Runs, Settle(r) PROVE IInv'
<1>1. UNCHANGED <<lease, claim, late, lost, writing, adrift>> /\ stage[r] = "settling"
  BY DEF Settle, area, sent
<1> QED
  BY <1>1, MovesOn, GuardKept DEF Settle, Stages, Ended

LEMMA ReleaseStep == ASSUME IInv, NEW r \in Runs, Release(r) PROVE IInv'
<1>1. UNCHANGED <<lease, claim, late, lost, writing, adrift>> /\ stage[r] = "open"
  BY DEF Release, area, sent
<1> QED
  BY <1>1, MovesOn, GuardKept DEF Release, Stages, Ended

LEMMA DrainedStep == ASSUME IInv, NEW r \in Runs, Drained(r) PROVE IInv'
<1>1. UNCHANGED <<lease, claim, late, lost, writing, adrift>> /\ stage[r] = "quieting"
  BY DEF Drained, area, sent
<1> QED
  BY <1>1, MovesOn, GuardKept DEF Drained, Stages, Ended

-----------------------------------------------------------------------------
(* Steps that change the lease.                                            *)

\* The lease may go to r, or to nobody; no run that has the area gains it.
LEMMA LeaseChanges ==
  ASSUME IInv, NEW r \in Runs, NEW s \in {"settling", "draining"}, Goes(r, s),
         Tokens', owner' \in Nat, token' \in Nat, turn' \in [Runs -> Nat],
         \A t \in Runs \ {r} : Mine(t)' => Mine(t),
         believes' \subseteq Runs, holds' \subseteq Runs,
         stage[r] \notin {"draining", "gone", "crashed"},
         lost' \in Nat, UNCHANGED <<registry, waitsFor, area, writing>>,
         \/ UNCHANGED adrift
         \/ s = "draining" /\ adrift' = [adrift EXCEPT ![r] = @ \cup {"unclaim"}]
  PROVE  IInv'
<1>1. stage' = [stage EXCEPT ![r] = s]
  BY DEF Goes
<1>2. adrift' \in [Runs -> SUBSET Kinds]
      /\ \A t \in Runs \ {r} : adrift'[t] = adrift[t]
  BY DEF IInv, TypeOK, Kinds
<1>3. TypeOK'
  BY <1>1, <1>2 DEF IInv, TypeOK, area, Stages
<1>4. Leaving'
  <2>1. "unclaim" \in adrift'[r] => s = "draining"
    BY DEF IInv, TypeOK, Leaving
  <2> QED
    BY <1>1, <1>2, <2>1 DEF IInv, TypeOK, Leaving
<1>5. ClaimIsTheOwners' /\ NoLateWrite'
  BY <1>1 DEF IInv, TypeOK, ClaimIsTheOwners, NoLateWrite, area
<1>6. AtHome' /\ NoNameLeaked'
  BY <1>1 DEF IInv, TypeOK, AtHome, NoNameLeaked, Ended
<1> QED
  BY <1>3, <1>4, <1>5, <1>6 DEF IInv

LEMMA LeaseStep == ASSUME IInv, NEW r \in Runs, Lease(r) PROVE IInv'
<1>1. CASE /\ Grant(r) /\ turn' = [turn EXCEPT ![r] = token + 1]
           /\ believes' = believes \cup {r} /\ Goes(r, "settling") /\ UNCHANGED guard
  <2>1. /\ Tokens' /\ owner' \in Nat /\ token' \in Nat /\ turn' \in [Runs -> Nat]
        /\ \A s \in Runs : Mine(s)' => s = r
    BY <1>1, GrantKeeps DEF IInv
  <2> QED
    BY <1>1, <2>1, LeaseChanges, GuardKept DEF Lease, guard, sent, IInv, TypeOK
<1>2. CASE LetGo(r) /\ UNCHANGED lease
  <2>1. UNCHANGED <<lease, claim, late, lost, writing, adrift>> /\ stage[r] = "leasing"
    BY <1>2 DEF Lease, area, sent
  <2> QED
    BY <1>2, <2>1, MovesOn, LetGoKeeps DEF Stages, Ended
<1> QED
  BY <1>1, <1>2 DEF Lease

LEMMA LeaseUnansweredStep == ASSUME IInv, NEW r \in Runs, LeaseUnanswered(r) PROVE IInv'
<1>1. Grant(r) /\ LetGo(r) /\ UNCHANGED <<turn, believes, area, writing, adrift>>
      /\ lost' = lost + 1 /\ stage[r] = "leasing"
  BY DEF LeaseUnanswered, Loses
<1>2. /\ Tokens' /\ owner' \in Nat /\ token' \in Nat /\ turn' \in [Runs -> Nat]
      /\ \A s \in Runs : Mine(s)' => s = r
  BY <1>1, GrantKeeps DEF IInv
<1> QED
  BY <1>1, <1>2, LeaseChanges, LetGoKeeps DEF LetGo, IInv, TypeOK

LEMMA UnleaseStep == ASSUME IInv, NEW r \in Runs, Unlease(r) PROVE IInv'
<1>1. /\ LetGo(r) /\ UNCHANGED <<token, turn, area, writing, adrift>>
      /\ owner' \in {0, owner} /\ lost' \in {lost, lost + 1} /\ believes' = believes \ {r}
      /\ stage[r] = "unleasing"
  BY DEF Unlease, Loses
<1>2. Tokens' /\ owner' \in Nat /\ \A t \in Runs : Mine(t)' => Mine(t)
  BY <1>1 DEF IInv, TypeOK, Tokens, Mine
<1> QED
  BY <1>1, <1>2, LeaseChanges, LetGoKeeps DEF LetGo, IInv, TypeOK

LEMMA LapseStep == ASSUME IInv, Lapse \/ \E r \in Runs : RenewFails(r) PROVE IInv'
<1>1. /\ UNCHANGED <<stage, guard, token, turn, area, sent>>
      /\ owner' \in {0, owner} /\ believes' \subseteq Runs
  BY DEF Lapse, RenewFails, IInv, TypeOK
<1>2. Tokens' /\ owner' \in Nat /\ \A t \in Runs : Mine(t)' => Mine(t)
  BY <1>1 DEF IInv, TypeOK, Tokens, Mine
<1> QED
  BY <1>1, <1>2 DEF IInv, TypeOK, Leaving, AtHome, NoLateWrite, ClaimIsTheOwners, NoNameLeaked,
                    guard, area, sent

-----------------------------------------------------------------------------
(* Steps that write.                                                       *)

\* A write of r: the lease and the guard are kept, and only r moves on.
LEMMA Writes ==
  ASSUME IInv, NEW r \in Runs, UNCHANGED <<guard, owner, token, turn>>,
         late' = {}, claim' \in Runs \cup {None}, believes' \subseteq Runs,
         writing' \subseteq Runs, lost' \in Nat, adrift' \in [Runs -> SUBSET Kinds],
         NEW s \in Stages, Goes(r, s), s \notin Ended \/ s = stage[r],
         stage[r] \in {"draining", "gone", "crashed"} => s = stage[r],
         \A t \in Runs : "unclaim" \in adrift'[t] => "unclaim" \in adrift[t],
         s = "open" /\ stage[r] # "open" => Mine(r) /\ claim' = r,
         claim' = claim \/ (Mine(r) /\ (claim' = r \/ s # "open"))
  PROVE  IInv'
<1>1. stage' = [stage EXCEPT ![r] = s]
  BY DEF Goes
<1>2. TypeOK'
  BY <1>1 DEF IInv, TypeOK, guard
<1>3. Tokens' /\ \A t \in Runs : Mine(t)' <=> Mine(t)
  BY DEF IInv, Tokens, Mine
<1>4. Leaving' /\ NoLateWrite' /\ AtHome' /\ NoNameLeaked'
  BY <1>1 DEF IInv, TypeOK, Leaving, NoLateWrite, AtHome, NoNameLeaked, guard, Ended
<1>5. ClaimIsTheOwners'
  <2> SUFFICES ASSUME NEW t \in Runs, stage'[t] = "open", Mine(t) PROVE claim' = t
    BY <1>3 DEF ClaimIsTheOwners
  <2>1. CASE claim' # claim
    <3>1. t = r
      BY <2>1, OwnerIsLatest DEF IInv
    <3> QED
      BY <1>1, <2>1, <3>1 DEF IInv, TypeOK
  <2>2. CASE claim' = claim
    <3>1. CASE t = r /\ stage[r] # "open"
      BY <1>1, <3>1 DEF IInv, TypeOK
    <3>2. CASE stage[t] = "open"
      BY <2>2, <3>2 DEF IInv, Tokens, ClaimIsTheOwners
    <3> QED
      BY <1>1, <3>1, <3>2 DEF IInv, TypeOK
  <2> QED
    BY <2>1, <2>2
<1> QED
  BY <1>2, <1>3, <1>4, <1>5 DEF IInv

LEMMA ClaimedStep == ASSUME IInv, NEW r \in Runs, Claimed(r) PROVE IInv'
<1>1. stage[r] = "claiming" /\ UNCHANGED <<guard, owner, token, turn, writing>>
  BY DEF Claimed
<1>2. CASE /\ Store(r, r) /\ Goes(r, IF Mine(r) THEN "open" ELSE "unleasing")
           /\ UNCHANGED <<adrift, lost>>
  <2>1. /\ late' = {} /\ claim' \in Runs \cup {None} /\ believes' \subseteq Runs
        /\ claim' = claim \/ (Mine(r) /\ claim' = r)
    BY <1>2, StoreKeeps
  <2>2. Mine(r) => claim' = r
    BY <1>2 DEF Store, Lands
  <2> QED
    BY <1>1, <1>2, <2>1, <2>2, Writes DEF Stages, Ended, IInv, TypeOK
<1>3. CASE Unanswered(r, "claim") /\ Goes(r, "unleasing")
  BY <1>1, <1>3, Writes DEF Unanswered, Loses, area, Stages, Ended, Kinds, IInv, TypeOK, NoLateWrite
<1> QED
  BY <1>2, <1>3 DEF Claimed

LEMMA Stays == ASSUME IInv, NEW r \in Runs, UNCHANGED stage PROVE Goes(r, stage[r]) /\ stage[r] \in Stages
BY DEF IInv, TypeOK, Goes

LEMMA PutStep == ASSUME IInv, NEW r \in Runs, Put(r) PROVE IInv'
<1>1. UNCHANGED <<stage, guard, lease, area, adrift, lost>> /\ writing' = writing \cup {r}
  BY DEF Put
<1> QED
  BY <1>1, Writes, Stays DEF lease, area, IInv, TypeOK, NoLateWrite

LEMMA PutAnsweredStep == ASSUME IInv, NEW r \in Runs, PutAnswered(r) PROVE IInv'
<1>1. UNCHANGED <<stage, guard, owner, token, turn>> /\ writing' = writing \ {r}
  BY DEF PutAnswered
<1>2. CASE Store(r, What(r, "put")) /\ UNCHANGED <<adrift, lost>>
  <2>1. What(r, "put") = claim /\ claim \in Runs \cup {None}
    BY DEF What, IInv, TypeOK
  <2>2. late' = {} /\ claim' = claim /\ believes' \subseteq Runs
    BY <1>2, <2>1, StoreKeeps
  <2> QED
    BY <1>1, <1>2, <2>1, <2>2, Writes, Stays DEF IInv, TypeOK
<1>3. CASE Unanswered(r, "put")
  BY <1>1, <1>3, Writes, Stays DEF Unanswered, Loses, area, Kinds, IInv, TypeOK, NoLateWrite
<1> QED
  BY <1>2, <1>3 DEF PutAnswered

LEMMA ArrivesStep == ASSUME IInv, NEW r \in Runs, NEW kind \in Kinds, Arrives(r, kind) PROVE IInv'
<1>1. /\ UNCHANGED <<stage, guard, lease, writing, lost>>
      /\ kind \in adrift[r] /\ adrift' = [adrift EXCEPT ![r] = @ \ {kind}]
  BY DEF Arrives
<1>2. adrift' \in [Runs -> SUBSET Kinds] /\ \A t \in Runs : adrift'[t] \subseteq adrift[t]
  BY <1>1 DEF IInv, TypeOK
<1>3. late' = {} /\ claim' \in {claim, What(r, kind)} /\ (claim' # claim => Mine(r))
  BY <1>1, OwnerIsLatest DEF Arrives, Lands, area, IInv, NoLateWrite
<1>4. What(r, kind) \in {r, None, claim} /\ (What(r, kind) = None => kind = "unclaim" \/ claim = None)
  BY RunAssumption DEF What
<1>5. kind = "unclaim" => stage[r] # "open"
  BY <1>1 DEF IInv, Leaving
<1> QED
  BY <1>1, <1>2, <1>3, <1>4, <1>5, Writes, Stays DEF lease, IInv, TypeOK

LEMMA UnclaimedStep == ASSUME IInv, NEW r \in Runs, Unclaimed(r) PROVE IInv'
<1>1. stage[r] = "unclaiming" /\ UNCHANGED <<owner, token, turn, writing>>
  BY DEF Unclaimed
<1>2. CASE Store(r, None) /\ Goes(r, "unleasing") /\ UNCHANGED <<guard, adrift, lost>>
  <2>1. /\ late' = {} /\ claim' \in Runs \cup {None} /\ believes' \subseteq Runs
        /\ claim' = claim \/ Mine(r)
    BY <1>2, StoreKeeps
  <2> QED
    BY <1>1, <1>2, <2>1, Writes DEF Stages, Ended, IInv, TypeOK
<1>3. CASE Unanswered(r, "unclaim") /\ LetGo(r)
  <2>1. Tokens' /\ \A t \in Runs : Mine(t)' <=> Mine(t)
    BY <1>1 DEF IInv, Tokens, Mine
  <2>2. /\ adrift' = [adrift EXCEPT ![r] = @ \cup {"unclaim"}]
        /\ lost' \in Nat /\ UNCHANGED <<believes, area>>
    BY <1>3 DEF Unanswered, Loses, IInv, TypeOK
  <2> QED
    BY <1>1, <1>3, <2>1, <2>2, LeaseChanges, LetGoKeeps DEF LetGo, IInv, TypeOK
<1> QED
  BY <1>2, <1>3 DEF Unclaimed

-----------------------------------------------------------------------------
(* Steps that end a run.                                                   *)

LEMMA FreeStep == ASSUME IInv, NEW r \in Runs, Free(r) PROVE IInv'
<1>1. /\ stage' = [stage EXCEPT ![r] = "gone"] /\ stage[r] = "draining"
      /\ registry' = [p \in Processes |-> IF registry[p] = r THEN None ELSE registry[p]]
      /\ UNCHANGED <<holds, waitsFor, lease, area, sent>>
  BY DEF Free, Goes
<1>2. TypeOK'
  BY <1>1 DEF IInv, TypeOK, Stages, lease, area, sent
<1>3. Tokens' /\ Leaving' /\ NoLateWrite' /\ ClaimIsTheOwners'
  BY <1>1 DEF IInv, TypeOK, Tokens, Leaving, NoLateWrite, ClaimIsTheOwners, Mine, lease, area, sent
<1>4. AtHome' /\ NoNameLeaked'
  BY <1>1 DEF IInv, TypeOK, AtHome, NoNameLeaked
<1> QED
  BY <1>2, <1>3, <1>4 DEF IInv

LEMMA CrashStep == ASSUME IInv, NEW p \in Processes, Crash(p) PROVE IInv'
<1> DEFINE dead == {r \in Runs : Proc[r] = p /\ stage[r] \notin Ended}
<1>1. /\ stage' = [r \in Runs |-> IF r \in dead THEN "crashed" ELSE stage[r]]
      /\ registry' = [registry EXCEPT ![p] = None]
      /\ holds' = holds \ dead
      /\ waitsFor' = [r \in Runs |-> IF r \in dead THEN None ELSE waitsFor[r]]
      /\ believes' = believes \ dead /\ writing' = writing \ dead
      /\ adrift' = [r \in Runs |-> IF r \in dead THEN adrift[r] \cup Sent(r) ELSE adrift[r]]
      /\ UNCHANGED <<owner, token, turn, area, lost>>
  BY DEF Crash
<1>2. \A r \in Runs : Sent(r) \subseteq Kinds
  BY DEF Sent, Kinds
<1>3. TypeOK'
  BY <1>1, <1>2 DEF IInv, TypeOK, Stages, area
<1>4. Tokens' /\ NoLateWrite' /\ ClaimIsTheOwners'
  BY <1>1 DEF IInv, TypeOK, Tokens, NoLateWrite, ClaimIsTheOwners, Mine, area
<1>5. Leaving'
  BY <1>1 DEF IInv, TypeOK, Leaving
<1>6. AtHome' /\ NoNameLeaked'
  BY <1>1, RunAssumption DEF IInv, TypeOK, AtHome, NoNameLeaked
<1> QED
  BY <1>3, <1>4, <1>5, <1>6 DEF IInv

LEMMA StepInv == IInv /\ [Next]_vars => IInv'
<1> SUFFICES ASSUME IInv, [Next]_vars PROVE IInv'
  OBVIOUS
<1>1. ASSUME NEW r \in Runs, Proceeds(r) PROVE IInv'
  BY <1>1, GrantedStep, LeaseStep, SettleStep, ClaimedStep, DrainedStep, UnclaimedStep,
     UnleaseStep, FreeStep DEF Proceeds
<1>2. CASE UNCHANGED vars
  BY <1>2 DEF vars, IInv, TypeOK, Tokens, Leaving, AtHome, NoLateWrite, ClaimIsTheOwners,
              NoNameLeaked, Mine, guard, lease, area, sent
<1>3. Mortal \subseteq Processes
  BY RunAssumption
<1> QED
  BY <1>1, <1>2, <1>3, ClaimStep, LeaseUnansweredStep, PutStep, PutAnsweredStep, ArrivesStep,
     ReleaseStep, LapseStep, CrashStep DEF Next

(***************************************************************************)
(* Over a store that leases its areas, no write of a run lands once a      *)
(* successor has been given the area, for any number of runs, processes,   *)
(* lost answers and deaths.                                                *)
(***************************************************************************)
THEOREM LeasedAreaIsSafe ==
  ASSUME Leases
  PROVE  Spec => []NoLateWrite
<1>1. Init => IInv
  BY InitInv
<1>2. IInv => NoLateWrite
  BY DEF IInv
<1> QED
  BY <1>1, <1>2, StepInv, PTL DEF Spec

(***************************************************************************)
(* Over such a store the claim of a run that owns its lease is its own:    *)
(* neither a slower claim nor the clearing of an earlier one lands over it. *)
(***************************************************************************)
THEOREM ClaimStaysTheOwners ==
  ASSUME Leases
  PROVE  Spec => []ClaimIsTheOwners
<1>1. Init => IInv
  BY InitInv
<1>2. IInv => ClaimIsTheOwners
  BY DEF IInv
<1> QED
  BY <1>1, <1>2, StepInv, PTL DEF Spec

-----------------------------------------------------------------------------
(* The names of a process, whether or not the store leases its areas.      *)

NamesInv == TypeOK /\ AtHome /\ NoNameLeaked

LEMMA NamesAtFirst == Init => NamesInv
BY RunAssumption DEF Init, NamesInv, TypeOK, AtHome, NoNameLeaked, Stages

\* A run that moves on keeps its name, and ends only once it has none.
LEMMA NamesMove ==
  ASSUME NamesInv, TypeOK', NEW r \in Runs, NEW s \in Stages, Goes(r, s),
         \A p \in Processes : \/ registry'[p] \in {registry[p], None}
                              \/ registry'[p] = r /\ Proc[r] = p,
         s \in Ended => \A p \in Processes : registry'[p] # r
  PROVE  NamesInv'
<1>1. stage' = [stage EXCEPT ![r] = s]
  BY DEF Goes
<1> QED
  BY <1>1, RunAssumption DEF NamesInv, TypeOK, AtHome, NoNameLeaked

LEMMA TypesOfClaim ==
  ASSUME TypeOK, NEW r \in Runs, Claim(r) \/ Granted(r)
  PROVE  TypeOK'
<1>1. Proc[r] \in Processes
  BY RunAssumption
<1>2. CASE Take(r) /\ UNCHANGED lost
  <2>1. token' \in Nat /\ turn' \in [Runs -> Nat]
    BY <1>2 DEF Take, TypeOK
  <2>2. registry' \in [Processes -> Runs \cup {None}] /\ waitsFor' \in [Runs -> Runs \cup {None}]
        /\ holds' \subseteq Runs
    BY <1>1, <1>2 DEF Take, TypeOK
  <2>3. stage' \in [Runs -> Stages]
    BY <1>2 DEF Take, Goes, TypeOK, Stages
  <2> QED
    BY <1>2, <2>1, <2>2, <2>3 DEF Take, TypeOK, area, sent
<1>3. CASE Goes(r, "refused") /\ UNCHANGED <<guard, lease, area, sent>>
  BY <1>3 DEF TypeOK, Goes, Stages, guard, lease, area, sent
<1>4. CASE /\ holds' = holds \ {Holder(r)}
           /\ waitsFor' = [waitsFor EXCEPT ![r] =
                  IF stage[Holder(r)] = "leasing" THEN None ELSE Holder(r)]
           /\ Goes(r, "guarding") /\ UNCHANGED <<registry, lease, area, sent>>
  BY <1>1, <1>4 DEF TypeOK, Goes, Stages, Holder, lease, area, sent
<1> QED
  BY <1>2, <1>3, <1>4 DEF Claim, Granted, Take, sent

LEMMA TypesOfStore ==
  ASSUME TypeOK, NEW r \in Runs, NEW c \in Runs \cup {None}, Store(r, c)
  PROVE  claim' \in Runs \cup {None} /\ late' \subseteq Runs /\ believes' \subseteq Runs
BY DEF TypeOK, Store, Lands, Refuses, area

LEMMA NamesStep == NamesInv /\ [Next]_vars => NamesInv'
<1> SUFFICES ASSUME NamesInv, [Next]_vars PROVE NamesInv'
  OBVIOUS
<1>0. TypeOK
  BY DEF NamesInv
<1>a. ASSUME NEW r \in Runs PROVE Proc[r] \in Processes
  BY <1>a, RunAssumption
<1>1. ASSUME NEW r \in Runs, Claim(r) \/ Granted(r) PROVE NamesInv'
  <2>1. TypeOK'
    BY <1>0, <1>1, TypesOfClaim
  <2>2. CASE Goes(r, "refused") /\ UNCHANGED registry /\ stage[r] = "idle"
    <3>1. \A p \in Processes : registry'[p] # r
      BY <2>2, RunAssumption DEF NamesInv, NoNameLeaked, Ended
    <3> QED
      BY <2>1, <2>2, <3>1, NamesMove DEF Stages
  <2>3. CASE Goes(r, "guarding") /\ UNCHANGED registry
    BY <2>1, <2>3, NamesMove DEF Stages, Ended
  <2>4. CASE Take(r)
    <3>1. PICK s \in {"leasing", "settling"} : Goes(r, s)
      BY <2>4 DEF Take
    <3>2. \A p \in Processes : registry'[p] = registry[p] \/ (registry'[p] = r /\ Proc[r] = p)
      BY <2>4, <1>0, <1>a DEF Take, TypeOK
    <3> QED
      BY <2>1, <3>1, <3>2, NamesMove DEF Stages, Ended
  <2> QED
    BY <1>1, <2>2, <2>3, <2>4 DEF Claim, Granted, guard
<1>2. ASSUME NEW r \in Runs, Free(r) PROVE NamesInv'
  <2>1. /\ Goes(r, "gone")
        /\ registry' = [p \in Processes |-> IF registry[p] = r THEN None ELSE registry[p]]
        /\ UNCHANGED <<holds, waitsFor, lease, area, sent>>
    BY <1>2 DEF Free
  <2>2. TypeOK'
    BY <1>0, <2>1 DEF TypeOK, Goes, Stages, lease, area, sent
  <2>3. \A p \in Processes : registry'[p] \in {registry[p], None} /\ registry'[p] # r
    BY <2>1, RunAssumption
  <2> QED
    BY <2>1, <2>2, <2>3, NamesMove DEF Stages
<1>3. ASSUME NEW r \in Runs, Lease(r) \/ LeaseUnanswered(r) \/ Settle(r) \/ Drained(r) \/ Unlease(r)
                              \/ Release(r)
      PROVE  NamesInv'
  <2>1. PICK s \in Stages \ Ended : Goes(r, s)
    BY <1>3 DEF Lease, LeaseUnanswered, Settle, Drained, Unlease, Release, LetGo, Stages, Ended
  <2>2. /\ UNCHANGED <<registry, waitsFor, area, writing, adrift>>
        /\ holds' \in {holds, holds \ {r}}
    BY <1>3 DEF Lease, LeaseUnanswered, Settle, Drained, Unlease, Release, LetGo, guard, sent
  <2>3. lost' \in {lost, lost + 1}
    BY <1>3 DEF Lease, LeaseUnanswered, Settle, Drained, Unlease, Release, Loses, sent
  <2>4. owner' \in {owner, token + 1, 0} /\ token' \in {token, token + 1}
        /\ turn' \in {turn, [turn EXCEPT ![r] = token + 1]}
        /\ believes' \in {believes, believes \cup {r}, believes \ {r}}
    BY <1>3 DEF Lease, LeaseUnanswered, Settle, Drained, Unlease, Release, Grant, lease
  <2>5. stage' \in [Runs -> Stages]
    BY <1>0, <2>1 DEF TypeOK, Goes
  <2>6. owner' \in Nat /\ token' \in Nat /\ turn' \in [Runs -> Nat] /\ lost' \in Nat
    BY <1>0, <2>3, <2>4 DEF TypeOK
  <2>7. TypeOK'
    BY <1>0, <2>2, <2>4, <2>5, <2>6 DEF TypeOK, area
  <2> QED
    BY <2>1, <2>2, <2>7, NamesMove
<1>4. ASSUME NEW r \in Runs, Claimed(r) \/ Unclaimed(r) PROVE NamesInv'
  <2>1. PICK s \in Stages \ Ended : Goes(r, s)
    BY <1>4 DEF Claimed, Unclaimed, LetGo, Stages, Ended
  <2>2. /\ UNCHANGED <<registry, waitsFor, owner, token, turn, writing>>
        /\ holds' \in {holds, holds \ {r}}
    BY <1>4 DEF Claimed, Unclaimed, LetGo, guard
  <2>3. claim' \in Runs \cup {None} /\ late' \subseteq Runs /\ believes' \subseteq Runs
    BY <1>0, <1>4, TypesOfStore DEF Claimed, Unclaimed, Unanswered, area, TypeOK
  <2>4. lost' \in {lost, lost + 1} /\ \E k \in Kinds : adrift' \in {adrift, [adrift EXCEPT ![r] = @ \cup {k}]}
    BY <1>4 DEF Claimed, Unclaimed, Unanswered, Loses, Kinds
  <2>5. stage' \in [Runs -> Stages]
    BY <1>0, <2>1 DEF TypeOK, Goes
  <2>6. lost' \in Nat /\ adrift' \in [Runs -> SUBSET Kinds]
    BY <1>0, <2>4 DEF TypeOK
  <2>7. TypeOK'
    BY <1>0, <2>2, <2>3, <2>5, <2>6 DEF TypeOK
  <2> QED
    BY <2>1, <2>2, <2>7, NamesMove
<1>5. ASSUME NEW r \in Runs, NEW kind \in Kinds,
             Put(r) \/ PutAnswered(r) \/ Arrives(r, kind) \/ RenewFails(r) \/ Lapse
      PROVE  NamesInv'
  <2>1. UNCHANGED <<stage, guard, token, turn>> /\ owner' \in {owner, 0}
    BY <1>5 DEF Put, PutAnswered, Arrives, RenewFails, Lapse, lease
  <2>2. What(r, "put") \in Runs \cup {None} /\ What(r, kind) \in Runs \cup {None}
    BY <1>0 DEF TypeOK, What
  <2>3. claim' \in Runs \cup {None} /\ late' \subseteq Runs /\ believes' \subseteq Runs
    <3>1. CASE PutAnswered(r)
      BY <1>0, <2>2, <3>1, TypesOfStore DEF PutAnswered, Unanswered, area, TypeOK
    <3>2. CASE Arrives(r, kind)
      BY <1>0, <2>2, <3>2 DEF Arrives, Lands, area, lease, TypeOK
    <3> QED
      BY <1>0, <1>5, <3>1, <3>2 DEF Put, RenewFails, Lapse, area, lease, TypeOK
  <2>4. writing' \subseteq Runs /\ lost' \in Nat /\ adrift' \in [Runs -> SUBSET Kinds]
    BY <1>0, <1>5 DEF Put, PutAnswered, Arrives, RenewFails, Lapse, Unanswered, Loses, sent, Kinds, TypeOK
  <2> QED
    BY <1>0, <2>1, <2>3, <2>4 DEF NamesInv, TypeOK, AtHome, NoNameLeaked, guard
<1>6. ASSUME NEW p \in Processes, Crash(p) PROVE NamesInv'
  <2> DEFINE dead == {r \in Runs : Proc[r] = p /\ stage[r] \notin Ended}
  <2>1. /\ stage' = [r \in Runs |-> IF r \in dead THEN "crashed" ELSE stage[r]]
        /\ registry' = [registry EXCEPT ![p] = None]
        /\ holds' = holds \ dead
        /\ waitsFor' = [r \in Runs |-> IF r \in dead THEN None ELSE waitsFor[r]]
        /\ believes' = believes \ dead /\ writing' = writing \ dead
        /\ adrift' = [r \in Runs |-> IF r \in dead THEN adrift[r] \cup Sent(r) ELSE adrift[r]]
        /\ UNCHANGED <<owner, token, turn, area, lost>>
    BY <1>6 DEF Crash
  <2>2. \A r \in Runs : Sent(r) \subseteq Kinds
    BY DEF Sent, Kinds
  <2>3. TypeOK'
    BY <1>0, <2>1, <2>2 DEF TypeOK, Stages, area
  <2> QED
    BY <1>0, <2>1, <2>3, RunAssumption DEF NamesInv, TypeOK, AtHome, NoNameLeaked
<1>7. CASE UNCHANGED vars
  BY <1>7 DEF vars, guard, lease, area, sent, NamesInv, TypeOK, AtHome, NoNameLeaked
<1>8. ASSUME Lapse, Runs = {} PROVE NamesInv'
  BY <1>8 DEF Lapse, guard, area, sent, NamesInv, TypeOK, AtHome, NoNameLeaked
<1>9. Mortal \subseteq Processes /\ Kinds # {}
  BY RunAssumption DEF Kinds
<1> QED
  BY <1>1, <1>2, <1>3, <1>4, <1>5, <1>6, <1>7, <1>8, <1>9 DEF Next, Proceeds

(***************************************************************************)
(* The stages, the guards, the leases and the writes stay what they are in *)
(* ownership.ts, guard.ts and lease.ts, whatever is lost and whoever dies. *)
(***************************************************************************)
THEOREM TypeCorrect == Spec => []TypeOK
<1>1. Init => NamesInv
  BY NamesAtFirst
<1>2. NamesInv => TypeOK
  BY DEF NamesInv
<1> QED
  BY <1>1, <1>2, NamesStep, PTL DEF Spec

(***************************************************************************)
(* A name is never left with a run that has ended, whether or not the store *)
(* leases its areas: the next run of the process can be given it.          *)
(***************************************************************************)
THEOREM NoNameIsLeaked == Spec => []NoNameLeaked
<1>1. Init => NamesInv
  BY NamesAtFirst
<1>2. NamesInv => NoNameLeaked
  BY DEF NamesInv
<1> QED
  BY <1>1, <1>2, NamesStep, PTL DEF Spec
=============================================================================
