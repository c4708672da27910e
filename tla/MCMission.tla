------------------------------ MODULE MCMission ------------------------------
(***************************************************************************)
(* Small instance: a plan of two waypoints with different timeouts, one    *)
(* retry, a backup that lasts two ticks, and every combination of the      *)
(* signals of a tick with at most one operator command.                    *)
(***************************************************************************)
EXTENDS MissionOrchestrator

MCPlan == <<"w1", "w2">>
MCWaypoint == {"w1", "w2"}
MCTimeout == [w1 |-> 2, w2 |-> 3]

InputsOf(commands, signals) ==
  [commands : commands, signals : signals, gap : {1}]

SomeCommands == {{}} \cup {{c} : c \in Command} \cup {{"abort", "start"}}

MCInputs ==
  {in \in InputsOf(SomeCommands, SUBSET (Signal \ {"low_confidence"})) :
     ~({"keepout_violation", "keepout_pending"} \subseteq in.signals)}
=============================================================================
