---------------------------- MODULE UpdateState ----------------------------
(***************************************************************************)
(* The sequences an account follows, as values: what                       *)
(* packages/mtproto/src/updates/state.ts answers, and nothing that acts.   *)
(*                                                                         *)
(* A box is a sequence of its own: the common one, or a channel's.  Each   *)
(* thing that happens in a box leaves the box at a position (its pts) and  *)
(* takes a number of steps to get there (its pts_count).                   *)
(***************************************************************************)
EXTENDS Integers

\* A channel that is not followed has no local count.
NoPts == -1

\* Where a box stands before anything has happened in it.
Origin == 1

Positions == Nat \cup {NoPts}

Larger(a, b) == IF a >= b THEN a ELSE b

Highest(S) == CHOOSE x \in S : \A y \in S : x >= y

Lowest(S) == CHOOSE x \in S : \A y \in S : x <= y

\* Mutation: whatever is ahead of the box is applied, and no gap is seen.
JudgeAhead(local, pts, count) == IF local # NoPts /\ local + count > pts THEN "seen" ELSE "apply"

(***************************************************************************)
(* What should happen to an update that arrived at pts having taken count  *)
(* steps, for a box whose local count is local.                            *)
(***************************************************************************)
Judge(local, pts, count) ==
    CASE local = NoPts -> "apply"
      [] local # NoPts /\ local + count = pts -> "apply"
      [] local # NoPts /\ local + count > pts -> "seen"
      [] OTHER -> "gap"

(***************************************************************************)
(* The same for a container: containers are numbered apart from the        *)
(* updates inside them, and one that has no start is outside the sequence. *)
(***************************************************************************)
JudgeContainer(seq, seqStart) ==
    CASE seqStart = 0 -> "apply"
      [] seqStart # 0 /\ seq + 1 = seqStart -> "apply"
      [] seqStart # 0 /\ seq + 1 > seqStart -> "seen"
      [] OTHER -> "gap"

\* Moving a box on to an applied update never moves it back.
Advance(local, pts) == Larger(local, pts)

AdvanceContainer(seq, number) == IF number > 0 THEN Larger(seq, number) ELSE seq
=============================================================================
