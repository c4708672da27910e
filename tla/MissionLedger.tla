---------------------------- MODULE MissionLedger ----------------------------
(***************************************************************************)
(* What a mission promises about its waypoints, without the reasons it     *)
(* pauses, recovers or gives up for: they are settled one at a time and in *)
(* order, the mission is done only when none is left, and giving up drops  *)
(* all that are left at once.                                              *)
(***************************************************************************)
EXTENDS Sequences

CONSTANT Plan

VARIABLES
  phase,  \* "waiting", "running", "done" or "given_up"
  left    \* waypoints not yet settled

ledgerVars == <<phase, left>>

LedgerInit == phase = "waiting" /\ left = Plan

Start == phase = "waiting" /\ phase' = "running" /\ UNCHANGED left

Settle ==
  /\ phase \in {"waiting", "running"} /\ left # <<>>
  /\ phase' = "running" /\ left' = Tail(left)

Finish == phase = "running" /\ left = <<>> /\ phase' = "done" /\ UNCHANGED left

Abandon == phase = "running" /\ phase' = "given_up" /\ left' = <<>>

LedgerNext == Start \/ Settle \/ Finish \/ Abandon

LedgerSpec == LedgerInit /\ [][LedgerNext]_ledgerVars
=============================================================================
