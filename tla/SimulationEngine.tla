--------------------------- MODULE SimulationEngine ---------------------------
(***************************************************************************)
(* simulation/engine.py: the loop that runs a scenario.  One step injects  *)
(* the faults due, reads the sensors, lets the mission ask for motion, has *)
(* the supervisor arbitrate, applies the result to the vehicle and moves   *)
(* the clock.  Assemble is the step up to the supervisor's inputs, Respond *)
(* the rest of it; the mission, which comes first, sees the confidence and *)
(* the safety state the supervisor left on the step before.                *)
(*                                                                         *)
(* A scenario is chosen once and everything after that is determined.      *)
(* Time is in units of 50 ms and speed in cm/s, so that a position is in   *)
(* half millimetres; the rover drives along a line, waypoints ahead of it, *)
(* and a zone is a stretch of that line.                                   *)
(***************************************************************************)
EXTENDS SafetySupervisor, FaultInjector, SensorSimulator

CONSTANTS
  WarnAfter, StaleAfter,  \* warn_ms and safe_stop_ms of each stream
  Confidence,             \* per stream, what its readings can have in the scenarios
  CommandTimeout,         \* command_timeout_ms of the gateway
  Waypoint, NoWaypoint, Plan, Timeout, MaxAttempts, BackupDuration,
                          \* the mission plan (see MissionOrchestrator)
  Position, Tolerance,    \* of each waypoint
  Approach,               \* approach_distance_m of the controller
  SpeedLimit, MinScore, MinHealthy,  \* of the plan's constraints
  Scenarios

VARIABLES
  scenario,    \* _scenario
  now,         \* _clock
  pose, speed, \* pose_x and linear_velocity of _state
  lastApplied, \* last_authorized_at_ms, NeverApplied before the first
  lastScore,   \* _mission_confidence
  behavior, behaviorWaypoint, behaviorAge, attempts, decision,
  mission, active, activeAge, remaining, completed, aborted, request, inhibited
               \* of _mission_orchestrator

\* Signals and commands the engine can give the mission: it never pauses,
\* resumes or aborts one.
MissionInputs ==
  {in \in [commands: SUBSET {"start"},
           signals: SUBSET {"low_confidence", "sensors_degraded", "obstructed",
                            "keepout_violation", "keepout_pending",
                            "safety_inhibits", "reached", "operator_recovery"},
           gap: {0} \cup {s.step : s \in {r \in Scenarios : r.planned}}] :
     ~({"keepout_violation", "keepout_pending"} \subseteq in.signals)}

M == INSTANCE MissionOrchestrator

missionVars == <<behavior, behaviorWaypoint, behaviorAge, attempts, decision, mission,
                 active, activeAge, remaining, completed, aborted, request, inhibited>>
worldVars == <<faultStatus, cached, scenario, now, pose, speed, lastApplied, lastScore>>
engineVars == <<vars, worldVars, missionVars>>

NeverApplied == -1
None == -1

\* ScenarioDefinition: its faults, when each operator pulse and each contact
\* comes, and who asks for motion: the mission plan (with its least clearance,
\* its keepouts and a restricted zone, empty for none), or a script.
Scenario ==
  [faults: Seq(FaultProfile), pulseAt: [Pulse -> Nat \cup {None}], contacts: SUBSET Nat,
   planned: BOOLEAN, clearance: Nat, keepouts: SUBSET [from: Int, to: Int, margin: Nat],
   slow: [from: Int, to: Int, limit: Nat],
   script: [speed: Int, starts: Nat, ends: Nat \cup {None}],
   step: Nat \ {0}, duration: Nat \ {0}]

\* What the supervisor can be shown of a stream.
Views(s) == {<<"missing", 0>>} \cup ({"fresh", "warn", "stale"} \X Confidence[s])

EngineFrames ==
  {f \in {[level      |-> [s \in Stream |-> v[s][1]],
           confidence |-> [s \in Stream |-> v[s][2]],
           contact    |-> flags[1], biased |-> flags[2], disagrees |-> flags[3]] :
            v \in {[lidar |-> l, imu |-> i, encoder |-> e, contact |-> c] :
                     l \in Views("lidar"), i \in Views("imu"),
                     e \in Views("encoder"), c \in Views("contact")},
            flags \in BOOLEAN \X BOOLEAN \X BOOLEAN} : WellFormed(f)}

EngineRequests ==
  [kind: {"absent", "live"},
   linear: -SpeedLimit .. SpeedLimit \cup {s.script.speed : s \in Scenarios},
   angular: {0}]

ASSUME EngineAssumption ==
  /\ EngineFrames \subseteq Frames /\ EngineRequests \subseteq Requests
  /\ SUBSET Pulse \subseteq PulseSets
  /\ Plan \in Seq(Waypoint) /\ NoWaypoint \notin Waypoint
  /\ RequiredStreams = {"lidar", "imu", "encoder"}
  /\ Period \in [Stream -> Nat \ {0}]
  /\ WarnAfter \in [Stream -> Nat] /\ StaleAfter \in [Stream -> Nat]
  /\ Confidence \in [Stream -> SUBSET (0 .. 20)]
  /\ {12, 18} \subseteq Confidence["lidar"] /\ 20 \in Confidence["contact"]
  /\ CommandTimeout \in Nat
  /\ Position \in [Waypoint -> Int] /\ Tolerance \in [Waypoint -> Nat]
  /\ Approach \in Nat /\ \A w \in Waypoint : Tolerance[w] < Approach
  /\ SpeedLimit \in Nat /\ MinScore \in Nat /\ MinHealthy \in 0 .. 4
  /\ {0} \cup {s.step : s \in Scenarios} \subseteq TickGaps
  /\ \A s \in Scenarios :
       /\ s.step \in Nat \ {0} /\ s.script.speed \in Int /\ s.slow.limit \in Nat
       /\ s.faults \in Seq(FaultProfile)
       /\ \A z \in s.keepouts : z.from \in Int /\ z.to \in Int
       /\ \A st \in [DOMAIN s.faults -> FaultStatus] :
            LET e == FaultEffect(s.faults, st)
            IN  /\ e \in Effects
                /\ ImuConfidence(e) \in Confidence["imu"]
                /\ EncoderConfidence(e) \in Confidence["encoder"]

EngineInit ==
  /\ Init /\ M!Init
  /\ scenario \in Scenarios
  /\ faultStatus = Armed(scenario.faults)
  /\ cached = [s \in Stream |-> NoReading]
  /\ now = 0 /\ pose = 0 /\ speed = 0
  /\ lastApplied = NeverApplied
  /\ lastScore = FullScore

-----------------------------------------------------------------------------
(***************************************************************************)
(* The frame, from the readings of the step.                               *)
(***************************************************************************)
LevelOf(s, readings) ==
  LET age == Larger(0, now - readings[s].stamp)
  IN  IF ~Taken(readings[s]) THEN "missing"
      ELSE IF age > StaleAfter[s] THEN "stale"
      ELSE IF age > WarnAfter[s] THEN "warn"
      ELSE "fresh"

SimulatedFrame(readings) ==
  [level      |-> [s \in Stream |-> LevelOf(s, readings)],
   confidence |-> [s \in Stream |-> readings[s].confidence],
   contact    |-> readings["contact"].value = 1,
   biased     |-> Size(readings["imu"].value) > 2,
   disagrees  |-> /\ Taken(readings["imu"]) /\ Taken(readings["encoder"])
                  /\ Size(readings["imu"].value - readings["encoder"].value) > 8]

\* _count_healthy_sensors.
HealthyCount(readings) ==
  Cardinality({s \in Stream : readings[s].healthy /\ readings[s].confidence > 10})

-----------------------------------------------------------------------------
(***************************************************************************)
(* What the mission is shown, and what it asks for.                        *)
(***************************************************************************)
\* A pulse belongs to the step its configured time falls in.
Pulses ==
  {p \in Pulse : scenario.pulseAt[p] \in now .. now + scenario.step - 1}

FaultySinceLastStep == 0
SinceLastStep == IF now = 0 THEN 0 ELSE scenario.step

FaultyInKeepout == \E z \in scenario.keepouts : z.from + z.margin <= pose /\ pose <= z.to
InKeepout == \E z \in scenario.keepouts : z.from <= pose /\ pose <= z.to

KeepoutPending ==
  /\ ~InKeepout
  /\ \E z \in scenario.keepouts : z.from - z.margin <= pose /\ pose <= z.to + z.margin

\* Where the mission drives to, and how far that is.
Goal == IF active # NoWaypoint THEN active
        ELSE IF remaining = <<>> THEN NoWaypoint ELSE Head(remaining)
DistanceTo(waypoint) == Size(Position[waypoint] - pose)

\* Read off the world of this step.
Observed(readings) ==
  {signal \in M!Signal \ {"safety_inhibits"} :
     CASE signal = "low_confidence"    -> lastScore < MinScore
       [] signal = "sensors_degraded"  -> HealthyCount(readings) < MinHealthy
       [] signal = "obstructed"        -> /\ Taken(readings["lidar"])
                                          /\ readings["lidar"].value < scenario.clearance
       [] signal = "keepout_violation" -> InKeepout
       [] signal = "keepout_pending"   -> KeepoutPending
       [] signal = "reached"           -> /\ Goal # NoWaypoint
                                          /\ DistanceTo(Goal) <= Tolerance[Goal]
       [] signal = "operator_recovery" -> "recovery" \in Pulses}

FaultySignals(readings) == Observed(readings)

\* The safety state is the one the supervisor left on the step before.
Signals(readings) ==
  Observed(readings) \cup (IF state \in ActiveState THEN {} ELSE {"safety_inhibits"})

MissionInput(readings) ==
  [commands |-> IF "activate" \in Pulses THEN {"start"} ELSE {},
   signals  |-> Signals(readings),
   gap      |-> SinceLastStep]

\* effective_max_linear where motion is not inhibited.
EffectiveLimit ==
  IF scenario.slow.from <= pose /\ pose <= scenario.slow.to
  THEN Smaller(SpeedLimit, scenario.slow.limit) ELSE SpeedLimit

\* WaypointController.steer, heading for the goal: full speed until the
\* approach, then down to half of it at the edge of the tolerance.
SpeedTowards(waypoint) ==
  LET distance == DistanceTo(waypoint)
      span     == Approach - Tolerance[waypoint]
  IN  IF distance >= Approach THEN EffectiveLimit
      ELSE Clamp((EffectiveLimit * (span + distance - Tolerance[waypoint]))
                   \div (2 * span), EffectiveLimit)

RequestOf(linear) == [kind |-> "live", linear |-> linear, angular |-> 0]
NoRequest == [kind |-> "absent", linear |-> 0, angular |-> 0]

\* requested_motion of the mission's evaluation.
PlannedRequest ==
  CASE request' = "none"   -> NoRequest
    [] request' = "zero"   -> RequestOf(0)
    [] request' = "drive"  -> RequestOf(SpeedTowards(active'))
    [] request' = "backup" -> RequestOf(-Smaller(EffectiveLimit, SpeedLimit \div 2))

\* _MissionLayer.request.
ScriptedRequest ==
  IF /\ now >= scenario.script.starts
     /\ scenario.script.ends = None \/ now < scenario.script.ends
  THEN RequestOf(scenario.script.speed) ELSE NoRequest

-----------------------------------------------------------------------------
(***************************************************************************)
(* SimulationEngine.step.                                                  *)
(***************************************************************************)
Between == inputs = NoInputs

\* total_steps were made.
Over == now + scenario.step > scenario.duration

Assemble ==
  /\ Between /\ ~Over
  /\ faultStatus' = StatusesAt(scenario.faults, now)
  /\ cached' = Sensed(FaultEffect(scenario.faults, faultStatus'), now, speed,
                      now \in scenario.contacts)
  /\ UNCHANGED <<scenario, now, pose, speed, lastApplied, lastScore>>
  /\ IF scenario.planned THEN M!Tick(MissionInput(cached')) ELSE UNCHANGED missionVars
  /\ inputs' = [frame     |-> SimulatedFrame(cached'),
                pulses    |-> Pulses,
                request   |-> IF scenario.planned THEN PlannedRequest ELSE ScriptedRequest,
                heartbeat |-> ~FaultEffect(scenario.faults, faultStatus').silent,
                gap       |-> SinceLastStep]
  /\ UNCHANGED <<state, estopLatched, resetArmedPrev, recoveryAge,
                 recoveryValidated, sincePet, authorized>>

Slip == Slipped(FaultEffect(scenario.faults, faultStatus))

FaultyGatewayTimedOut == lastApplied # NeverApplied /\ now - lastApplied >= CommandTimeout

\* _GatewayLayer: it looks at the clock before it takes the command.
GatewayTimedOut == lastApplied # NeverApplied /\ now - lastApplied > CommandTimeout

\* A timeout does not count as a command applied.
Apply ==
  IF GatewayTimedOut
  THEN speed' = 0 /\ UNCHANGED <<pose, lastApplied>>
  ELSE /\ speed' = (authorized'.linear * (10 - Slip)) \div 10
       /\ pose' = pose + speed' * scenario.step
       /\ lastApplied' = now

Respond ==
  /\ Evaluate
  /\ lastScore' = Score(inputs.frame)
  /\ Apply
  /\ now' = now + scenario.step
  /\ UNCHANGED <<faultStatus, cached, scenario, missionVars>>

EngineNext == Assemble \/ Respond

EngineSpec == EngineInit /\ [][EngineNext]_engineVars /\ WF_engineVars(EngineNext)

-----------------------------------------------------------------------------
(***************************************************************************)
(* Properties.                                                             *)
(***************************************************************************)
EngineTypeOK ==
  /\ TypeOK
  /\ scenario \in Scenarios
  /\ faultStatus \in [DOMAIN scenario.faults -> FaultStatus]
  /\ cached \in [Stream -> Reading]
  /\ now \in Nat /\ pose \in Int /\ speed \in Int
  /\ lastApplied \in {NeverApplied} \cup Nat

\* The last step made, between two steps.
LastStep == now - scenario.step

\* After every step exactly those faults are in force whose window holds the
\* time of the step, however the window falls between the steps: the injector
\* neither keeps a fault that is over nor shows one too short to be seen
\* (injector.py evaluate, "Move FIRED faults to CLEARED").
FaultsFollowTheirWindows ==
  Between /\ now > 0 =>
    \A i \in DOMAIN scenario.faults :
      faultStatus[i] = "FIRED" <=> LET f == scenario.faults[i]
                                   IN  ActiveAt(f, LastStep) /\ ~OverAt(f, LastStep)

\* For how long fault i has been in force at this step.
InForceFor(i) == now - scenario.faults[i].from

\* Silence stops the rover: with the bridge or the lidar gone for longer than
\* the lidar may be stale, with every lidar packet late by more than that (unless a
\* loss keeps the late ones from being read), or
\* with the gateway's heartbeat gone for longer than its deadline, the vehicle
\* stands still, on every step.  The one exception is the step that promotes a
\* SAFE_STOP (supervisor.py:464, which asks the watchdogs nothing).
SilenceStopsTheRover ==
  [][Respond =>
       \A i \in DOMAIN scenario.faults :
         LET f == scenario.faults[i]
         IN  /\ faultStatus[i] = "FIRED"
             /\ \/ /\ f.type \in {"drop_lidar", "bridge_disconnect"}
                   /\ InForceFor(i) > StaleAfter["lidar"]
                \/ /\ f.type = "delay_lidar" /\ f.amount > StaleAfter["lidar"]
                   /\ InForce(scenario.faults, faultStatus, "drop_lidar") = {}
                   /\ InForce(scenario.faults, faultStatus, "bridge_disconnect") = {}
                   /\ InForceFor(i) >= Period["lidar"] + scenario.step
                \/ /\ f.type = "command_timeout" /\ state # "SAFE_STOP"
                   /\ InForceFor(i) > Deadline["gateway"]
             => speed' = 0]_engineVars

\* A rover that drives a plan moves only if the supervisor was in an active
\* state on the step before, which the mission went by, and still is on this
\* one: the mission's outdated view of the supervisor costs a step of motion
\* and never gains one (engine.py:347).
TwoStepsAgree ==
  [][Respond /\ scenario.planned /\ speed' # 0
       => state \in ActiveState /\ state' \in ActiveState]_engineVars

\* A keepout is entered, from either side, by less than the way made in one
\* step, since it is the step after that sees the violation, and then never left
\* again: the rover stands where it is and its mission neither completes nor
\* aborts (keepout.py signed_distance, recovery.py:112).
KeepoutHolds ==
  [][scenario.planned =>
       \A z \in scenario.keepouts :
         z.from <= pose /\ pose <= z.to =>
           /\ pose' = pose
           /\ \/ pose - z.from < SpeedLimit * scenario.step
              \/ z.to - pose < SpeedLimit * scenario.step
              \/ pose = 0
           /\ mission' \notin {"COMPLETE", "ABORTED"}]_engineVars

\* A run whose step is longer than the gateway's timeout moves on its first step
\* at most: the timeout leaves last_authorized_at_ms as it was, so that every
\* later step times out as well.  With any shorter step the gateway never times
\* out, and the vehicle does what was authorized, less the slip (engine.py:128).
GatewayObeys ==
  [][Respond =>
       IF scenario.step > CommandTimeout /\ now > 0 THEN speed' = 0
       ELSE /\ IsZero(authorized') => speed' = 0
            /\ Slip = 0 => speed' = authorized'.linear]_engineVars

\* What a run comes to, when its scenario leaves time for it and does not spend
\* the activation on the first step, where BOOT refuses it, or on readings a
\* fault has made old.  With every fault
\* over, no latch and no contact, a recovery asked for after the last fault
\* brings the rover back to an active state; and a plan without faults and
\* keepouts is completed, also where the rover's own speed makes the simulated
\* lidar report an obstacle.
Settled(time) == time + scenario.duration \div 2 < scenario.duration

Recoverable ==
  /\ scenario.contacts = {}
  /\ scenario.pulseAt["estop"] = None
  /\ scenario.pulseAt["activate"] >= scenario.step
  /\ scenario.keepouts = {}
  /\ Settled(scenario.pulseAt["recovery"])
  /\ scenario.faults # <<>> => scenario.pulseAt["recovery"] # None
  /\ \A i \in DOMAIN scenario.faults :
       /\ scenario.faults[i].from > scenario.pulseAt["activate"]
       /\ scenario.faults[i].lasts # Forever
       /\ scenario.faults[i].from + scenario.faults[i].lasts + scenario.step
            < scenario.pulseAt["recovery"]

Undisturbed ==
  /\ scenario.planned /\ scenario.faults = <<>> /\ scenario.contacts = {}
  /\ scenario.keepouts = {}
  /\ \A p \in Pulse \ {"activate"} : scenario.pulseAt[p] = None
  /\ scenario.pulseAt["activate"] >= scenario.step
  /\ Settled(scenario.pulseAt["activate"])

RunsComeToTheirEnd ==
  Between /\ Over =>
    /\ Recoverable => state \in ActiveState
    /\ Undisturbed => mission = "COMPLETE"

\* The engine is a caller that the guarantees of the supervisor and of the
\* mission hold for: it gives them inputs of the kind they assume, and in time.
SupervisorHosted == Init /\ [][Next]_vars
MissionHosted == M!Init /\ [][M!Next]_missionVars

\* docs/FAULT_INJECTION.md 7.6: a watchdog_expiration is detected as the
\* expiration of its watchdog.  Refuted by a run: nothing reads the fault.
WatchdogFaultIsDetected ==
  [][Respond =>
       \A i \in DOMAIN scenario.faults :
         /\ faultStatus[i] = "FIRED"
         /\ scenario.faults[i].type = "watchdog_expiration"
         /\ InForceFor(i) > 2 * StaleAfter["contact"]
         => speed' = 0]_engineVars
=============================================================================
