--------------------------- MODULE MCMissionCompiler ---------------------------
(* Clauses for TLC: every template that a check looks at, each slot inside and  *)
(* outside of a profile, and one clause for each way of being refused.          *)
EXTENDS MissionCompiler

C(template, name) ==
  [template |-> template, name |-> name, limit |-> 0, vague |-> FALSE, phrases |-> {}]

MCClauses ==
  {C("move_to_target", "alpha"), C("patrol_area", "human_only"), C("inspect_zone", "inspection"),
   C("pause_at_checkpoint", "dock"), C("return_to_dock", ""), C("avoid_region", "alpha"),
   C("avoid_region", "dock"),
   [C("speed_limit", "") EXCEPT !.limit = 50], C("speed_limit", ""),
   C("time_window", "daylight"), C("time_window", "night"),
   C("restricted_corridor_avoidance", ""), C("safe_stop_on_trigger", "battery"),
   C("recovery_directive_return_to_dock", "battery"),
   [C("inspect_zone", "unclear") EXCEPT !.vague = TRUE],
   [C("none", "") EXCEPT !.vague = TRUE],
   [C("none", "") EXCEPT !.phrases = {"shutdown"}],
   [C("none", "") EXCEPT !.phrases = {"actuator"}]}
MCAsides == {{"shell"}, {"shutdown"}}
===============================================================================
