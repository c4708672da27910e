---------------------------- MODULE MCMissionNode ----------------------------
(***************************************************************************)
(* Small instance of the mission and clamp nodes: a plan of one waypoint   *)
(* with no retry, and a queue of two messages between the nodes.          *)
(***************************************************************************)
EXTENDS MissionNode

MCWaypoint == {"w1"}
MCPlan == <<"w1">>
MCTimeout == [w1 |-> 1]
MCSafetySignals == {{}, {"safety_inhibits", "low_confidence"}}
MCPoseSignals == {{}, {"reached"}, {"keepout_violation"}}
MCGaps == {1}
=============================================================================
