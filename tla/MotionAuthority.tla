--------------------------- MODULE MotionAuthority ---------------------------
(***************************************************************************)
(* What the safety supervisor promises about motion, without the inputs,   *)
(* timers and watchdogs it decides by (docs/SAFETY_MODEL.md, 5, 8, 9, 10): *)
(* authority over motion, once withdrawn or locked, is restored only after *)
(* a revalidation that took place since, and reduced authority is never    *)
(* silently raised.                                                        *)
(***************************************************************************)
VARIABLES
  authority,  \* "awaiting", "granted", "reduced", "withdrawn" or "locked"
  vetted      \* a revalidation succeeded since authority was last lost

authorityVars == <<authority, vetted>>

AuthorityInit == authority = "awaiting" /\ vetted = FALSE

Grant ==
  /\ authority = "awaiting"
  /\ authority' = "granted" /\ UNCHANGED vetted

Reduce ==
  /\ authority = "granted"
  /\ authority' = "reduced" /\ UNCHANGED vetted

Withdraw ==
  /\ authority \in {"awaiting", "granted", "reduced"}
  /\ authority' = "withdrawn" /\ vetted' = FALSE

Lock == authority' = "locked" /\ vetted' = FALSE

Unlock ==
  /\ authority = "locked"
  /\ authority' = "withdrawn" /\ vetted' = FALSE

Vet ==
  /\ authority = "withdrawn"
  /\ vetted' = TRUE /\ UNCHANGED authority

Restore ==
  /\ authority = "withdrawn" /\ vetted
  /\ authority' = "granted" /\ vetted' = FALSE

AuthorityNext ==
  Grant \/ Reduce \/ Withdraw \/ Lock \/ Unlock \/ Vet \/ Restore

AuthoritySpec == AuthorityInit /\ [][AuthorityNext]_authorityVars
=============================================================================
