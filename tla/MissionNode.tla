----------------------------- MODULE MissionNode -----------------------------
(***************************************************************************)
(* rover_mission_runtime: the ROS node around the mission orchestrator,    *)
(* and the clamp node that lets Nav2 request motion on its behalf.         *)
(*                                                                         *)
(* The mission node keeps the last safety state and the operator pulses,   *)
(* evaluates on a timer and publishes the mission state.  The clamp keeps  *)
(* the last mission state it was sent and lets a Nav2 command through      *)
(* within that state's envelope.  Between them is a queue that drops its   *)
(* oldest message when it is full.                                         *)
(*                                                                         *)
(* Poses are not kept: what the pose means to the mission is chosen at     *)
(* each tick.  A Nav2 command changes no state: the clamp answers it with  *)
(* zero or not, as the state it last heard of says.                        *)
(***************************************************************************)
EXTENDS MissionOrchestrator

CONSTANTS
  MinimumSensorHealth,  \* minimum_sensor_health of the plan's constraints
  SafetySignals,        \* what a safety state may raise of SafetySignal
  PoseSignals,          \* what a pose may raise of PoseSignal
  Gaps,                 \* time between two ticks
  Depth                 \* of the queue between the nodes

PoseSignal == {"reached", "keepout_violation", "keepout_pending"}
SafetySignal == {"safety_inhibits", "low_confidence"}

\* What the node may present to the orchestrator.
NodeInputs ==
  {in \in [commands : SUBSET Command, signals : SUBSET Signal, gap : Gaps] :
     ~({"keepout_violation", "keepout_pending"} \subseteq in.signals)}

ASSUME NodeAssumption ==
  /\ MinimumSensorHealth \in 0 .. 4
  /\ SafetySignals \subseteq SUBSET SafetySignal
  /\ PoseSignals \subseteq SUBSET PoseSignal
  /\ \A pose \in PoseSignals : ~({"keepout_violation", "keepout_pending"} \subseteq pose)
  /\ NodeInputs \subseteq MissionInputs
  /\ Depth \in Nat \ {0}

VARIABLES
  heard,       \* what _latest_safety_state and _latest_confidence raise
  operator,    \* the _operator_* pulses that are set
  inFlight,    \* mission states published and not yet received by the clamp
  clampState   \* _latest_state of the clamp

nodeVars == <<heard, operator, inFlight, clampState>>
allVars == <<vars, nodeVars>>

\* The /operator/... topics of the mission node.
OperatorTopic == Command \cup {"operator_recovery"}

NodeTypeOK ==
  /\ TypeOK
  /\ heard \subseteq SafetySignal
  /\ operator \subseteq OperatorTopic
  /\ inFlight \in Seq(MissionState) /\ Len(inFlight) <= Depth
  /\ clampState \in MissionState

\* The safety state is BOOT, which inhibits, whatever the plan makes of a
\* confidence of zero.
NodeInit ==
  /\ Init
  /\ heard \in {h \in SafetySignals : "safety_inhibits" \in h}
  /\ operator = {}
  /\ inFlight = <<>>
  /\ clampState = "IDLE"

-----------------------------------------------------------------------------
(***************************************************************************)
(* The mission node.                                                       *)
(***************************************************************************)
\* A message with a state that is not one changes nothing, and a negative
\* confidence leaves the last one in force.
OnSafety ==
  /\ heard' \in SafetySignals
  /\ UNCHANGED <<vars, operator, inFlight, clampState>>

FaultySetOp(p) ==
  /\ operator' = {p}
  /\ UNCHANGED <<vars, heard, inFlight, clampState>>

SetOp(p) ==
  /\ operator' = operator \cup {p}
  /\ UNCHANGED <<vars, heard, inFlight, clampState>>

\* No reading of an empty frame is healthy.
HealthySensors == 0

FaultyFrameSignals ==
  IF HealthySensors <= MinimumSensorHealth THEN {"sensors_degraded"} ELSE {}

\* The clearance of an empty frame is no obstruction.
FrameSignals ==
  IF HealthySensors < MinimumSensorHealth THEN {"sensors_degraded"} ELSE {}

TickInputs(pose, gap) ==
  [commands |-> operator \cap Command,
   signals |-> heard \cup pose \cup FrameSignals \cup (operator \ Command),
   gap |-> gap]

FaultySent(state) ==
  IF Len(inFlight) < Depth THEN Append(inFlight, state) ELSE inFlight

Sent(state) ==
  IF Len(inFlight) < Depth THEN Append(inFlight, state)
                           ELSE Append(Tail(inFlight), state)

NodeTick(pose, gap) ==
  /\ operator' = {}
  /\ UNCHANGED <<heard, clampState>>
  /\ Tick(TickInputs(pose, gap))
  /\ inFlight' = Sent(mission')

TimerFires == \E pose \in PoseSignals, gap \in Gaps : NodeTick(pose, gap)

-----------------------------------------------------------------------------
(***************************************************************************)
(* The clamp node.                                                         *)
(***************************************************************************)
OnState ==
  /\ inFlight # <<>>
  /\ clampState' = Head(inFlight)
  /\ inFlight' = Tail(inFlight)
  /\ UNCHANGED <<vars, heard, operator>>

\* The states whose envelope is not zero: a Nav2 command that arrives in one is
\* let through, clamped, and in any other replaced by zero.
OpenStates == UnderWay

NodeNext ==
  \/ OnSafety
  \/ \E p \in OperatorTopic : SetOp(p)
  \/ TimerFires
  \/ OnState

NodeSpec == NodeInit /\ [][NodeNext]_allVars /\ WF_allVars(TimerFires) /\ WF_allVars(OnState)

-----------------------------------------------------------------------------
(***************************************************************************)
(* Properties.                                                             *)
(***************************************************************************)
\* The newest state the clamp holds or will be sent.
NewestSent == IF inFlight = <<>> THEN clampState ELSE inFlight[Len(inFlight)]

\* However late the clamp is, it is only late: the newest state it holds or
\* will be sent is the mission's, so it never keeps an envelope open for a
\* mission that has ended and said so (mission_node.py _tick publishes on every
\* tick, nav2_velocity_clamp.py _on_state).
ClampOnlyLate == NewestSent = mission

\* An operator's abort of a mission that was started is never lost among the
\* other pulses, recoveries and queued messages: mission and clamp both end up
\* aborted and stay so (mission_node.py _set_op, nav2_velocity_clamp.py).
AbortClosesClamp ==
  "abort" \in operator /\ mission \notin {"IDLE", "COMPLETE"}
    ~> [](mission = "ABORTED" /\ clampState = "ABORTED")

\* mission_node.py _tick: with an empty frame the constraints fall back to the
\* operator's pause and the safety state.  A prepared mission that neither of
\* them holds, nor its confidence nor a keepout, gets under way.  With the
\* default minimum_sensor_health it is refuted by a run.
TrustsSafetyState ==
  [][\A pose \in PoseSignals, gap \in Gaps :
       mission = "PREPARING" /\ mission' = "PREPARING" /\ operator = {} /\ heard = {}
         /\ "keepout_violation" \notin pose => ~NodeTick(pose, gap)]_allVars

=============================================================================
