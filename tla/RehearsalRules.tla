---------------------------- MODULE RehearsalRules ----------------------------
(***************************************************************************)
(* What a mission rehearsal decides: the plan built from a mission file,   *)
(* the validator's rejections, the supervisor's verdict and the table of   *)
(* legal status changes (rehearsal_plan, _validator, _safety, _supervisor, *)
(* _state_machine).                                                        *)
(*                                                                         *)
(* Distances are metres, angles degrees, speeds cm/s.  A text is the set   *)
(* of the phrases in it that a pattern knows ("words" for any other).  The *)
(* diagnostics are the set of rejection codes; which one the report names  *)
(* first is not told apart.                                                *)
(***************************************************************************)
EXTENDS Integers, Sequences, SequencesExt

MaxDistance == 25
MaxAngle == 720
MaxSpeed == 50

Motor == "/cmd_vel"
Requested == "/cmd_vel_requested"

Phrase == {"actuator", "loop", "override", "estop", "zone", "speed"}
Word == Phrase \cup {"words", "never"}
StageKind == {"move", "patrol", "inspect", "wait", "stop", "dock"}
MovingKind == {"move", "patrol", "inspect"}
EndKind == {"stop", "dock"}

-----------------------------------------------------------------------------
(* rehearsal_plan.py *)

\* An entry that names no kind is a move.
Coerced(w) == [w EXCEPT !.kind = IF @ = "" THEN "move" ELSE @]

\* Entries that are not JSON objects are skipped.
Coercible(w) == w.kind # "not_an_object"
CoerceWaypoints(entries) ==
  LET kept == SelectSeq(entries, Coercible)
  IN [i \in DOMAIN kept |-> Coerced(kept[i])]

RiskBand(waypoints) ==
  CASE waypoints = << >> -> "blocked"
    [] \E w \in Range(waypoints) : w.kind \notin {"stop", "wait", "dock", "patrol"} -> "guarded"
    [] OTHER -> "low"

\* No requested topics means the default one.
BuildPlan(m) ==
  LET waypoints == CoerceWaypoints(m.waypoints)
  IN [source |-> m.source, waypoints |-> waypoints, notes |-> m.notes,
      topics |-> IF m.topics = {} THEN {Requested} ELSE m.topics,
      risk |-> RiskBand(waypoints)]

-----------------------------------------------------------------------------
(* rehearsal_safety.py and rehearsal_validator.py *)

Reason == [actuator |-> "direct_actuator_command", loop |-> "unbounded_loop",
           override |-> "safety_override", estop |-> "estop_override",
           zone |-> "restricted_zone", speed |-> "unsafe_speed"]

\* A text that says never may describe the boundary.
ScanText(text) ==
  LET described == IF "never" \in text THEN {"actuator", "override", "estop"} ELSE {}
  IN {Reason[p] : p \in (text \cap Phrase) \ described}

Raise(fault, code) == IF fault THEN {code} ELSE {}

FaultyWaypointFaults(w) ==
  Raise(w.distance > MaxDistance \/ w.angle > MaxAngle, "out_of_range_parameter")
    \cup Raise(w.distance < 0, "out_of_range_parameter")
    \cup Raise(w.speed > MaxSpeed, "unsafe_speed")
    \cup Raise(w.kind \notin StageKind, "malformed_mission_graph")
WaypointFaults(w) ==
  Raise(w.distance \notin 0 .. MaxDistance \/ w.angle \notin -MaxAngle .. MaxAngle,
        "out_of_range_parameter")
    \cup Raise(w.speed > MaxSpeed, "unsafe_speed")
    \cup Raise(w.kind \notin StageKind, "malformed_mission_graph")

Kinds(plan) == {w.kind : w \in Range(plan.waypoints)}

ValidatePlan(plan) ==
  (UNION {WaypointFaults(w) : w \in Range(plan.waypoints)})
    \cup Raise(plan.waypoints = << >>, "malformed_mission_graph")
    \cup Raise(Motor \in plan.topics, "direct_actuator_command")
    \cup Raise(Requested \notin plan.topics /\ Kinds(plan) \cap MovingKind # {},
               "missing_stop_condition")
    \cup Raise(Kinds(plan) \cap {"move", "patrol"} # {} /\ Kinds(plan) \cap EndKind = {},
               "missing_stop_condition")
    \cup ScanText(plan.source)
    \cup ScanText(plan.notes)

\* What is wrong with the request itself, a warning included: an empty id or an
\* empty proposal source.
ValidateRequest(m) ==
  Raise(~m.named, "malformed_mission_graph")
    \cup Raise(m.source = {}, "unsafe_proposal_source")

-----------------------------------------------------------------------------
(* rehearsal_supervisor.py *)

ReviewPlan(plan, codes) ==
  LET reasons == codes \cup Raise(plan.risk = "blocked", "safety_blocked")
  IN CASE reasons # {} ->
            [status |-> "rejected", safety |-> "unsafe_rejected", reasons |-> reasons]
       [] reasons = {} /\ plan.risk = "restricted" ->
            [status |-> "needs_review", safety |-> "requires_review", reasons |-> {}]
       [] OTHER ->
            [status |-> "approved", reasons |-> {},
             safety |-> IF plan.risk = "low" THEN "safe" ELSE "guarded"]

-----------------------------------------------------------------------------
(* rehearsal_state_machine.py *)

REHEARSAL_TRANSITIONS ==
  [created |-> {"validated", "rejected"},
   validated |-> {"approved", "rejected"},
   approved |-> {"rehearsing", "rejected"},
   rehearsing |-> {"paused", "completed", "aborted", "rejected"},
   paused |-> {"rehearsing", "aborted", "completed", "rejected"},
   rejected |-> {}, aborted |-> {}, completed |-> {}]

RehearsalStatus == DOMAIN REHEARSAL_TRANSITIONS
===============================================================================
