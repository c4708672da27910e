--------------------------- MODULE MCSafetyBridge ---------------------------
(***************************************************************************)
(* Small instance of the bridge: one required stream and the bumper, each  *)
(* stale after one period, a request that lives one, a timer that may be   *)
(* one period late.                                                        *)
(***************************************************************************)
EXTENDS SafetyBridge

MCStreams == {"imu"}
MCWeight == [imu |-> 18, contact |-> 2]
MCTrusted == [imu |-> 16, contact |-> 20]
MCLinearMax ==
  [ACTIVE_NORMAL |-> 3, ACTIVE_RESTRICTED |-> 2, ACTIVE_DEGRADED |-> 1]
MCAngularMax == MCLinearMax
MCDeadline == [imu |-> 1, gateway |-> 1]
MCWarnAfter == [imu |-> 0, contact |-> 0]
MCStaleAfter == [imu |-> 1, contact |-> 1]
MCVelocities == {[linear |-> 9, angular |-> 0]}
MCPulseSets == SUBSET OperatorTopic
MCTickGaps == {0, 1, 2}
=============================================================================
