---------------------------- MODULE AreaOwnership ----------------------------
(***************************************************************************)
(* One run at a time over an account's storage area: claimArea, fenced and *)
(* release in packages/mtproto/src/storage/ownership.ts, over the guard of *)
(* each process (take in packages/core/src/storage/guard.ts) and, where    *)
(* the store leases its areas, over its lease (packages/redis/src/lease.ts *)
(* and lease in packages/sqlite/src/store.ts).                             *)
(*                                                                         *)
(* A run is one call of claimArea and what is done with the area it gets.  *)
(* A write is checked against the run's own belief when it is admitted and *)
(* against the store's lease when it lands, which is later; its answer may *)
(* be lost, and then it lands after nobody waits for it, or never.         *)
(***************************************************************************)
EXTENDS Naturals

CONSTANTS
    Runs,
    Processes,
    Proc,       \* the process each run is in
    Leases,     \* whether the store leases its areas
    TakeOver,   \* the runs that take over, and the others are refused
    MaxLost,    \* answers of the store that are lost, at most
    Mortal,     \* the processes that may die
    None

ASSUME RunAssumption ==
    /\ None \notin Runs /\ None \notin Processes
    /\ Proc \in [Runs -> Processes]
    /\ Leases \in BOOLEAN /\ MaxLost \in Nat
    /\ TakeOver \subseteq Runs /\ Mortal \subseteq Processes

VARIABLES
    stage,     \* how far each run has come
    registry,  \* the guard of each process: whose entry has the name
    holds,     \* the runs whose entry is held
    waitsFor,  \* whose writes a run taking over waits for, or None
    owner,     \* the lease the store keeps, by its token, or 0
    token,     \* the last token granted
    turn,      \* the token of each run, or 0
    believes,  \* the runs whose lease has not been refused
    claim,     \* the run the area's claim names, or None
    writing,   \* the runs with a write counted and not answered
    adrift,    \* per run: the writes under way that nobody waits for
    lost,      \* how many answers have been lost
    late       \* history: the runs a write of which came after a successor

guard == <<registry, holds, waitsFor>>
lease == <<owner, token, turn, believes>>
area == <<claim, late>>
sent == <<writing, adrift, lost>>
vars == <<stage, guard, lease, area, sent>>

Stages == {"idle", "refused", "guarding", "leasing", "settling", "claiming", "open",
           "quieting", "unclaiming", "unleasing", "draining", "gone", "crashed"}

Ended == {"idle", "refused", "gone", "crashed"}

Kinds == {"put", "claim", "unclaim"}

Loses == lost < MaxLost /\ lost' = lost + 1

Goes(r, s) == stage' = [stage EXCEPT ![r] = s]

\* What fenced asks before a write: the guard's word, and the lease's.
Held(r) == r \in holds /\ (Leases => r \in believes)

\* What the store asks: whether the lease is this run's, where it leases at all.
Mine(r) == ~Leases \/ (turn[r] # 0 /\ owner = turn[r])

\* Whether a run with a later turn has been given the area.
Succeeded(r) == \E s \in Runs : turn[s] > turn[r] /\ stage[s] \in {"open", "quieting"}

\* Nothing a run has admitted is unanswered, once it has said how to ask.
Quiet(r) == r \notin writing /\ (Leases => stage[r] # "claiming")

-----------------------------------------------------------------------------
(* The guard of a process.                                                 *)

\* The name is r's.  Without a lease, this is when its turn comes.
Take(r) ==
    /\ registry' = [registry EXCEPT ![Proc[r]] = r]
    /\ holds' = holds \cup {r}
    /\ waitsFor' = [waitsFor EXCEPT ![r] = None]
    /\ Goes(r, IF Leases THEN "leasing" ELSE "settling")
    /\ token' = IF Leases THEN token ELSE token + 1
    /\ turn' = IF Leases THEN turn ELSE [turn EXCEPT ![r] = token']
    /\ UNCHANGED <<owner, believes, area, sent>>

Holder(r) == registry[Proc[r]]

(***************************************************************************)
(* claimArea asks the guard.  A name that is held is refused, or stolen:   *)
(* its holder is told, and waited for if it has said how.                  *)
(***************************************************************************)
Claim(r) ==
    /\ stage[r] = "idle"
    /\ \/ Holder(r) \notin holds /\ Take(r)
       \/ /\ Holder(r) \in holds /\ r \notin TakeOver
          /\ Goes(r, "refused")
          /\ UNCHANGED <<guard, lease, area, sent>>
       \/ /\ Holder(r) \in holds /\ r \in TakeOver
          /\ holds' = holds \ {Holder(r)}
          /\ waitsFor' = [waitsFor EXCEPT ![r] =
                 IF stage[Holder(r)] = "leasing" THEN None ELSE Holder(r)]
          /\ Goes(r, "guarding")
          /\ UNCHANGED <<registry, lease, area, sent>>

Granted(r) ==
    /\ stage[r] = "guarding"
    /\ waitsFor[r] # None => Quiet(waitsFor[r])
    /\ Take(r)

\* The hold is given back: what it admitted is waited for, then the name is free.
LetGo(r) ==
    /\ Goes(r, "draining")
    /\ holds' = holds \ {r}
    /\ UNCHANGED <<registry, waitsFor>>

Free(r) ==
    /\ stage[r] = "draining"
    /\ Quiet(r)
    /\ Goes(r, "gone")
    /\ registry' = [p \in Processes |-> IF registry[p] = r THEN None ELSE registry[p]]
    /\ UNCHANGED <<holds, waitsFor, lease, area, sent>>

-----------------------------------------------------------------------------
(* The lease of the store.                                                 *)

Grant(r) ==
    /\ owner = 0 \/ r \in TakeOver
    /\ token' = token + 1
    /\ owner' = token + 1

\* Mutation: the claim is written down without asking whether the name was taken.
LeaseKeepsName(r) ==
    /\ stage[r] = "leasing"
    /\ \/ /\ Grant(r)
          /\ turn' = [turn EXCEPT ![r] = token + 1]
          /\ believes' = believes \cup {r}
          /\ Goes(r, "settling")
       \/ /\ owner # 0 /\ r \notin TakeOver
          /\ Goes(r, "refused")
          /\ UNCHANGED lease
    /\ UNCHANGED <<guard, area, sent>>

\* leaseFromStore: granted, or refused while another's lease is live.
Lease(r) ==
    /\ stage[r] = "leasing"
    /\ \/ /\ Grant(r)
          /\ turn' = [turn EXCEPT ![r] = token + 1]
          /\ believes' = believes \cup {r}
          /\ Goes(r, "settling")
          /\ UNCHANGED guard
       \/ /\ owner # 0 /\ r \notin TakeOver
          /\ LetGo(r)
          /\ UNCHANGED lease
    /\ UNCHANGED <<area, sent>>

\* The store granted it, and the run was told nothing.
LeaseUnanswered(r) ==
    /\ Loses
    /\ stage[r] = "leasing"
    /\ Grant(r)
    /\ LetGo(r)
    /\ UNCHANGED <<turn, believes, area, writing, adrift>>

\* The lease runs out: not renewed in time, or never to be renewed again.
Lapse ==
    /\ owner # 0
    /\ owner' = 0
    /\ UNCHANGED <<stage, guard, token, turn, believes, area, sent>>

\* keepRenewed finds the lease gone.
RenewFails(r) ==
    /\ Leases /\ stage[r] = "open" /\ r \in believes /\ ~Mine(r)
    /\ believes' = believes \ {r}
    /\ UNCHANGED <<stage, guard, owner, token, turn, area, sent>>

\* release of the lease, which frees only what is still this run's.
Unlease(r) ==
    /\ stage[r] = "unleasing"
    /\ believes' = believes \ {r}
    /\ \/ owner' = (IF Leases /\ Mine(r) THEN 0 ELSE owner) /\ UNCHANGED lost
       \/ Loses /\ UNCHANGED owner
    /\ LetGo(r)
    /\ UNCHANGED <<token, turn, area, writing, adrift>>

-----------------------------------------------------------------------------
(* Writes.                                                                 *)

\* What a write of r changes if the store lets it, and what of it is too late.
Lands(r, claims) ==
    /\ claim' = claims
    /\ late' = IF Succeeded(r) THEN late \cup {r} ELSE late

\* The store refuses it, and the run is told it has lost the area.
Refuses(r) == Leases /\ believes' = believes \ {r} /\ UNCHANGED area

\* Mutation: the store does not look at the lease.
StoreForgetsLease(r, claims) == Lands(r, claims) /\ UNCHANGED believes

\* A write reaches the store: it lands or is refused.
Store(r, claims) ==
    \/ Mine(r) /\ Lands(r, claims) /\ UNCHANGED believes
    \/ ~Mine(r) /\ Refuses(r)

\* Its answer is lost: nobody waits for it, and it may still land.
Unanswered(r, kind) ==
    /\ Loses
    /\ adrift' = [adrift EXCEPT ![r] = @ \cup {kind}]
    /\ UNCHANGED <<believes, area>>

What(r, kind) == CASE kind = "claim" -> r [] kind = "unclaim" -> None [] OTHER -> claim

\* settleClaim: the claim is judged and written, through the fence if there is one.
Settle(r) ==
    /\ stage[r] = "settling"
    /\ Goes(r, IF Leases /\ ~Held(r) THEN "unleasing" ELSE "claiming")
    /\ UNCHANGED <<guard, lease, area, sent>>

Claimed(r) ==
    /\ stage[r] = "claiming"
    /\ \/ /\ Store(r, r)
          /\ Goes(r, IF Mine(r) THEN "open" ELSE "unleasing")
          /\ UNCHANGED <<adrift, lost>>
       \/ Unanswered(r, "claim") /\ Goes(r, "unleasing")
    /\ UNCHANGED <<guard, owner, token, turn, writing>>

Working(r) == stage[r] \in {"open", "quieting", "unclaiming", "unleasing"}

\* Mutation: a write is admitted whether or not the name is still held.
PutAnyway(r) ==
    /\ Working(r) /\ (Leases => r \in believes) /\ r \notin writing
    /\ writing' = writing \cup {r}
    /\ UNCHANGED <<stage, guard, lease, area, adrift, lost>>

\* mutating: a write is admitted, counted, and sent.
Put(r) ==
    /\ Working(r) /\ Held(r) /\ r \notin writing
    /\ writing' = writing \cup {r}
    /\ UNCHANGED <<stage, guard, lease, area, adrift, lost>>

PutAnswered(r) ==
    /\ r \in writing
    /\ writing' = writing \ {r}
    /\ \/ Store(r, What(r, "put")) /\ UNCHANGED <<adrift, lost>>
       \/ Unanswered(r, "put")
    /\ UNCHANGED <<stage, guard, owner, token, turn>>

\* A write nobody waits for arrives.
Arrives(r, kind) ==
    /\ kind \in adrift[r]
    /\ adrift' = [adrift EXCEPT ![r] = @ \ {kind}]
    /\ IF Mine(r) THEN Lands(r, What(r, kind)) ELSE UNCHANGED area
    /\ UNCHANGED <<stage, guard, lease, writing, lost>>

-----------------------------------------------------------------------------
(* Releasing, and crashing.                                                *)

Release(r) ==
    /\ stage[r] = "open"
    /\ Goes(r, "quieting")
    /\ UNCHANGED <<guard, lease, area, sent>>

\* Mutation: whoever releases takes the claim away, whoever's it is.
DrainedAndUnclaims(r) ==
    /\ stage[r] = "quieting"
    /\ Quiet(r)
    /\ claim' = None
    /\ Goes(r, "unleasing")
    /\ UNCHANGED <<guard, lease, late, sent>>

\* unclaim takes back only a claim of its own, if the run still holds the area.
Drained(r) ==
    /\ stage[r] = "quieting"
    /\ Quiet(r)
    /\ Goes(r, IF Held(r) /\ claim = r THEN "unclaiming" ELSE "unleasing")
    /\ UNCHANGED <<guard, lease, area, sent>>

\* A failure other than a refusal skips the lease, which lapses by itself.
Unclaimed(r) ==
    /\ stage[r] = "unclaiming"
    /\ \/ /\ Store(r, None)
          /\ Goes(r, "unleasing")
          /\ UNCHANGED <<guard, adrift, lost>>
       \/ Unanswered(r, "unclaim") /\ LetGo(r)
    /\ UNCHANGED <<owner, token, turn, writing>>

\* What a run of a process that dies had sent may still arrive.
Sent(r) ==
    (IF r \in writing THEN {"put"} ELSE {})
        \cup (IF stage[r] = "claiming" THEN {"claim"} ELSE {})
        \cup (IF stage[r] = "unclaiming" THEN {"unclaim"} ELSE {})

Crash(p) ==
    LET dead == {r \in Runs : Proc[r] = p /\ stage[r] \notin Ended}
    IN  /\ dead # {}
        /\ stage' = [r \in Runs |-> IF r \in dead THEN "crashed" ELSE stage[r]]
        /\ registry' = [registry EXCEPT ![p] = None]
        /\ holds' = holds \ dead
        /\ waitsFor' = [r \in Runs |-> IF r \in dead THEN None ELSE waitsFor[r]]
        /\ believes' = believes \ dead
        /\ writing' = writing \ dead
        /\ adrift' = [r \in Runs |-> IF r \in dead THEN adrift[r] \cup Sent(r) ELSE adrift[r]]
        /\ UNCHANGED <<owner, token, turn, area, lost>>

-----------------------------------------------------------------------------

Init ==
    /\ stage = [r \in Runs |-> "idle"]
    /\ holds = {} /\ believes = {} /\ writing = {} /\ late = {}
    /\ registry = [p \in Processes |-> None]
    /\ waitsFor = [r \in Runs |-> None]
    /\ owner = 0 /\ token = 0
    /\ turn = [r \in Runs |-> 0]
    /\ claim = None
    /\ adrift = [r \in Runs |-> {}] /\ lost = 0

Proceeds(r) ==
    \/ Granted(r) \/ Lease(r) \/ Settle(r) \/ Claimed(r)
    \/ Drained(r) \/ Unclaimed(r) \/ Unlease(r) \/ Free(r)

Next ==
    \/ \E r \in Runs :
          \/ Claim(r) \/ Proceeds(r) \/ LeaseUnanswered(r)
          \/ Put(r) \/ PutAnswered(r) \/ \E kind \in Kinds : Arrives(r, kind)
          \/ RenewFails(r) \/ Release(r)
    \/ \E p \in Mortal : Crash(p)
    \/ Lapse

Spec == Init /\ [][Next]_vars

\* The store answers a write or it fails, and a promise that is resolved goes on.
FairSpec ==
    Spec /\ \A r \in Runs : WF_vars(Granted(r)) /\ WF_vars(Claimed(r)) /\ WF_vars(PutAnswered(r))

-----------------------------------------------------------------------------

TypeOK ==
    /\ stage \in [Runs -> Stages]
    /\ registry \in [Processes -> Runs \cup {None}]
    /\ waitsFor \in [Runs -> Runs \cup {None}]
    /\ holds \subseteq Runs /\ believes \subseteq Runs
    /\ writing \subseteq Runs /\ late \subseteq Runs
    /\ owner \in Nat /\ token \in Nat /\ turn \in [Runs -> Nat]
    /\ claim \in Runs \cup {None}
    /\ adrift \in [Runs -> SUBSET Kinds] /\ lost \in Nat

(***************************************************************************)
(* No write of a run lands once a run with a later turn has been given the *)
(* area, whatever was under way when it was superseded, paused past its    *)
(* lease or killed (the fence in ownership.ts and the scripts of lease.ts).*)
(***************************************************************************)
NoLateWrite == late = {}

(***************************************************************************)
(* While a run that has the area owns its lease, the area's claim names    *)
(* it: neither the claim of a slower run nor the clearing of an earlier    *)
(* one lands over it.                                                      *)
(***************************************************************************)
ClaimIsTheOwners ==
    \A r \in Runs : stage[r] = "open" /\ Leases /\ Mine(r) => claim = r

(***************************************************************************)
(* A name is never left with a run that has ended: whatever refuses it on  *)
(* the way, the next run of the process can be given it.                   *)
(***************************************************************************)
NoNameLeaked ==
    \A p \in Processes : registry[p] # None => stage[registry[p]] \notin Ended

(***************************************************************************)
(* A run that takes over is not kept waiting for ever: what it waits for   *)
(* cannot grow, because the run it supersedes admits nothing further.      *)
(***************************************************************************)
TakeoverGoesOn == \A r \in Runs : stage[r] = "guarding" ~> stage[r] # "guarding"
=============================================================================
