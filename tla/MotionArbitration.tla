-------------------------- MODULE MotionArbitration --------------------------
(***************************************************************************)
(* safety/arbitration.py: how a requested motion becomes the authorized    *)
(* one.  A pure function of the request, the safety state, the E-stop and  *)
(* the confidence score; velocities are integers.                          *)
(***************************************************************************)
EXTENDS Integers

CONSTANTS
  LinearMax, AngularMax   \* velocity limits of each state that may move

ActiveState == {"ACTIVE_NORMAL", "ACTIVE_RESTRICTED", "ACTIVE_DEGRADED"}
ZeroMotionState == {"BOOT", "INACTIVE", "SAFE_STOP", "E_STOP_LATCHED", "RECOVERY"}
SafetyState == ActiveState \cup ZeroMotionState

ASSUME LimitsAssumption ==
  /\ LinearMax \in [ActiveState -> Nat]
  /\ AngularMax \in [ActiveState -> Nat]

\* A request is absent (the mission published nothing), not finite, past its
\* expiry, or live.
RequestKind == {"absent", "invalid", "expired", "live"}
Request == [kind: RequestKind, linear: Int, angular: Int]

Decision == {"AUTHORIZED", "AUTHORIZED_CLAMPED",
             "REJECTED_ZEROED", "REJECTED_EXPIRED", "REJECTED_DEGRADED"}
Rejection == {"REJECTED_ZEROED", "REJECTED_EXPIRED", "REJECTED_DEGRADED"}
AuthorizedCommand == [decision: Decision, linear: Int, angular: Int]

Zero(decision) == [decision |-> decision, linear |-> 0, angular |-> 0]

IsZero(command) == command.linear = 0 /\ command.angular = 0

\* Limit the magnitude and keep the sign.
Clamp(v, max) == IF v > max THEN max ELSE IF v < -max THEN -max ELSE v

\* A command that is rejected for its low score keeps the speed of a crawl.
FaultyArbitrate(request, state, estop, lowConfidence) ==
  IF request.kind = "invalid" \/ estop \/ state \notin ActiveState
    THEN Zero("REJECTED_ZEROED")
  ELSE IF request.kind \in {"absent", "expired"}
    THEN Zero("REJECTED_EXPIRED")
  ELSE LET clamped == IF lowConfidence THEN "ACTIVE_DEGRADED" ELSE state
       IN  [decision |-> IF lowConfidence THEN "REJECTED_DEGRADED" ELSE "AUTHORIZED_CLAMPED",
            linear |-> Clamp(request.linear, LinearMax[clamped]),
            angular |-> Clamp(request.angular, AngularMax[clamped])]

Arbitrate(request, state, estop, lowConfidence) ==
  IF request.kind = "invalid" \/ estop \/ state \notin ActiveState
    THEN Zero("REJECTED_ZEROED")
  ELSE IF request.kind \in {"absent", "expired"}
    THEN Zero("REJECTED_EXPIRED")
  ELSE IF lowConfidence
    THEN Zero("REJECTED_DEGRADED")
  ELSE LET linear  == Clamp(request.linear, LinearMax[state])
           angular == Clamp(request.angular, AngularMax[state])
           clamped == linear # request.linear \/ angular # request.angular
       IN  [decision |-> IF clamped THEN "AUTHORIZED_CLAMPED" ELSE "AUTHORIZED",
            linear |-> linear, angular |-> angular]

\* The command is within the limits of the state it was authorized in.
WithinLimits(command, state) ==
  IF state \in ActiveState
  THEN /\ command.linear  \in -LinearMax[state] .. LinearMax[state]
       /\ command.angular \in -AngularMax[state] .. AngularMax[state]
  ELSE IsZero(command)
=============================================================================
