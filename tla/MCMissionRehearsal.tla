-------------------------- MODULE MCMissionRehearsal --------------------------
(* Mission files for TLC: four that are simulated, one of them with a request  *)
(* that is not clean and a dock before its last leg, one that only inspects,   *)
(* and three that are refused for different reasons.                           *)
EXTENDS MissionRehearsal

W(kind, distance, angle, speed) ==
  [kind |-> kind, distance |-> distance, angle |-> angle, speed |-> speed]
Leg == W("move", 25, -720, 50)
Dock == W("dock", 0, 0, 0)
Good == [named |-> TRUE, source |-> {"words"}, notes |-> {}, topics |-> {}, waypoints |-> <<Leg, Dock>>]

MCMissions ==
  {[Good EXCEPT !.waypoints = <<W("", 5, 0, 20), W("not_an_object", 0, 0, 0), Dock>>],
   [Good EXCEPT !.waypoints = <<W("patrol", 5, 0, 20), Dock>>, !.notes = {"actuator", "never"}],
   [Good EXCEPT !.source = {}, !.named = FALSE, !.waypoints = <<Dock, Leg>>],
   [Good EXCEPT !.waypoints = <<W("inspect", 5, 0, 20)>>],
   [Good EXCEPT !.waypoints = <<>>, !.topics = {Motor, Requested}],
   [Good EXCEPT !.waypoints = <<W("stop", 0, 0, 51)>>, !.notes = {"words"}],
   [Good EXCEPT !.waypoints = <<W("move", 1, -721, 0), Dock>>]}
===============================================================================
