---------------------------- MODULE SafetyBridge ----------------------------
(***************************************************************************)
(* rover_safety_bridge: the ROS node around the safety supervisor.  Its    *)
(* subscriber callbacks overwrite the latest message of each topic; a      *)
(* timer assembles the frame from whatever is cached, calls evaluate and   *)
(* publishes what it authorized.  Callbacks and timer run on one thread:   *)
(* nothing comes between the assembling and the evaluation.                *)
(*                                                                         *)
(* Time is counted in timer periods, since the messages were received and  *)
(* since the last tick.  The executor may be late by at most MaxStall      *)
(* periods.                                                                *)
(***************************************************************************)
EXTENDS SafetySupervisor

CONSTANTS
  WarnAfter,    \* warn_ms and safe_stop_ms of each stream, in periods
  StaleAfter,
  Trusted,      \* confidence the bridge gives each stream's readings, in twentieths
  RequestLife,  \* command_lifetime_ms, in periods
  Velocities,   \* [linear, angular] of the velocities that may be requested
  BootGap,      \* first clock reading, from the zero the watchdogs start at
  MaxStall

BridgeFrames ==
  {f \in [level: [Stream -> Level], confidence: {Trusted}, contact: BOOLEAN,
          biased: {FALSE}, disagrees: BOOLEAN] : WellFormed(f)}

BridgeRequests ==
  [kind: {"absent"}, linear: {0}, angular: {0}]
    \cup {[kind |-> k, linear |-> v.linear, angular |-> v.angular] :
            k \in {"live", "expired"}, v \in Velocities}

ASSUME BridgeAssumption ==
  /\ WarnAfter \in [Stream -> Nat] /\ StaleAfter \in [Stream -> Nat]
  /\ \A s \in Stream : WarnAfter[s] < StaleAfter[s]
  /\ Trusted \in [Stream -> 0 .. 20]
  /\ RequestLife \in Nat \ {0} /\ MaxStall \in Nat \ {0} /\ BootGap \in Nat
  /\ Velocities \subseteq [linear: Int, angular: Int]
  /\ BridgeFrames \subseteq Frames /\ BridgeRequests \subseteq Requests
  /\ SUBSET {"activate", "estop", "recovery", "reset"} \subseteq PulseSets
  /\ 0 .. MaxStall \cup {BootGap} \subseteq TickGaps

VARIABLES
  sinceHeard,    \* per stream, time since _latest_* was received, or NeverHeard
  bumper,        \* asserted, of _latest_contact
  ratesDisagree, \* angular rates of _latest_imu and _latest_odom
  requested,     \* velocity of _latest_request
  sinceRequest,  \* time since it was received, or NeverHeard
  operator,      \* the pulses set in _operator
  sinceTick      \* time since the last tick

cacheVars == <<sinceHeard, bumper, ratesDisagree, requested, sinceRequest>>
bridgeVars == <<cacheVars, operator, sinceTick>>
allVars == <<vars, bridgeVars>>

NeverHeard == -1

\* Ages past these limits are alike to every guard and property.
HeardLimit(s) == StaleAfter[s] + MaxStall + 1
RequestLimit == RequestLife + MaxStall + 1

\* The topics /operator/...; there is none for reset_armed.
OperatorTopic == {"activate", "estop", "recovery", "reset"}

BridgeTypeOK ==
  /\ TypeOK
  /\ sinceHeard \in [Stream -> {NeverHeard} \cup Nat]
  /\ \A s \in Stream : sinceHeard[s] <= HeardLimit(s)
  /\ bumper \in BOOLEAN /\ ratesDisagree \in BOOLEAN
  /\ requested \in Velocities
  /\ sinceRequest \in {NeverHeard} \cup 0 .. RequestLimit
  /\ operator \subseteq OperatorTopic
  /\ sinceTick \in 0 .. MaxStall \cup {BootGap}

\* The watchdogs were started when the bridge's clock still read zero: the
\* first tick finds them young on simulation time, and old on wall time.
BridgeInit ==
  /\ Init
  /\ sinceHeard = [s \in Stream |-> NeverHeard]
  /\ bumper = FALSE /\ ratesDisagree = FALSE
  /\ requested \in Velocities /\ sinceRequest = NeverHeard
  /\ operator = {}
  /\ sinceTick \in {0, BootGap}

-----------------------------------------------------------------------------
(***************************************************************************)
(* Subscriber callbacks.  A message with a value that is not finite is     *)
(* dropped, and one that carries False on an operator topic changes        *)
(* nothing: neither is an action.                                          *)
(***************************************************************************)
Idle == inputs = NoInputs

\* The rates can disagree only once both readings are there.
NewRates(s) ==
  IF s \in {"imu", "encoder"} /\ {"imu", "encoder"} \subseteq RequiredStreams
       /\ \A r \in {"imu", "encoder"} : sinceHeard'[r] # NeverHeard
  THEN BOOLEAN ELSE {ratesDisagree}

OnSensor(s) ==
  /\ Idle
  /\ sinceHeard' = [sinceHeard EXCEPT ![s] = 0]
  /\ ratesDisagree' \in NewRates(s)
  /\ UNCHANGED <<vars, bumper, requested, sinceRequest, operator, sinceTick>>

OnContact ==
  /\ Idle
  /\ sinceHeard' = [sinceHeard EXCEPT !["contact"] = 0]
  /\ bumper' \in BOOLEAN
  /\ UNCHANGED <<vars, ratesDisagree, requested, sinceRequest, operator, sinceTick>>

OnRequested ==
  /\ Idle
  /\ requested' \in Velocities
  /\ sinceRequest' = 0
  /\ UNCHANGED <<vars, sinceHeard, bumper, ratesDisagree, operator, sinceTick>>

FaultySetPulse(p) ==
  /\ Idle
  /\ operator' = {p}
  /\ UNCHANGED <<vars, cacheVars, sinceTick>>

\* _set_pulse: the pulses already set since the last tick are kept.
SetPulse(p) ==
  /\ Idle
  /\ operator' = operator \cup {p}
  /\ UNCHANGED <<vars, cacheVars, sinceTick>>

-----------------------------------------------------------------------------
(***************************************************************************)
(* The timer.                                                              *)
(***************************************************************************)
LevelOf(s) ==
  IF sinceHeard[s] = NeverHeard THEN "missing"
  ELSE IF sinceHeard[s] > StaleAfter[s] THEN "stale"
  ELSE IF sinceHeard[s] > WarnAfter[s] THEN "warn"
  ELSE "fresh"

FaultyAssembledFrame ==
  [level |-> [s \in Stream |-> IF sinceHeard[s] = NeverHeard THEN "missing"
                                                             ELSE "fresh"],
   confidence |-> Trusted, contact |-> bumper,
   biased |-> FALSE, disagrees |-> ratesDisagree]

\* _build_lidar, _build_imu, _build_encoder and _build_contact.
AssembledFrame ==
  [level |-> [s \in Stream |-> LevelOf(s)],
   confidence |-> Trusted, contact |-> bumper,
   biased |-> FALSE, disagrees |-> ratesDisagree]

\* An expired request is passed through.
AssembledRequest ==
  IF sinceRequest = NeverHeard
  THEN [kind |-> "absent", linear |-> 0, angular |-> 0]
  ELSE [kind |-> IF sinceRequest >= RequestLife THEN "expired" ELSE "live",
        linear |-> requested.linear, angular |-> requested.angular]

\* Pulses are dropped once the supervisor is given them.
Tick ==
  /\ Idle
  /\ sinceTick > 0
  /\ inputs' = [frame |-> AssembledFrame, pulses |-> operator,
                request |-> AssembledRequest, heartbeat |-> TRUE, gap |-> sinceTick]
  /\ operator' = {}
  /\ sinceTick' = 0
  /\ UNCHANGED <<state, estopLatched, resetArmedPrev, recoveryAge,
                 recoveryValidated, sincePet, authorized, cacheVars>>

Respond == Evaluate /\ UNCHANGED bridgeVars

Older(n, max) == IF n = NeverHeard THEN n ELSE Saturate(n + 1, max)

Elapse ==
  /\ Idle
  /\ sinceTick < MaxStall
  /\ sinceTick' = sinceTick + 1
  /\ sinceHeard' = [s \in Stream |-> Older(sinceHeard[s], HeardLimit(s))]
  /\ sinceRequest' = Older(sinceRequest, RequestLimit)
  /\ UNCHANGED <<vars, bumper, ratesDisagree, requested, operator>>

BridgeNext ==
  \/ \E s \in RequiredStreams : OnSensor(s)
  \/ OnContact \/ OnRequested
  \/ \E p \in OperatorTopic : SetPulse(p)
  \/ Elapse \/ Tick \/ Respond

\* Time passes, the timer fires, and the call it makes returns.
BridgeSpec ==
  /\ BridgeInit /\ [][BridgeNext]_allVars
  /\ WF_allVars(Elapse) /\ WF_allVars(Tick) /\ WF_allVars(Respond)

-----------------------------------------------------------------------------
(***************************************************************************)
(* Properties.                                                             *)
(***************************************************************************)
\* Time since the evaluation that authorized the current command.
Standing == IF inputs = NoInputs THEN sinceTick ELSE inputs.gap

\* A rover that moves is in touch: each sensor, and whoever asked for the
\* motion, was heard from within its limit of the tick that authorized it,
\* however the messages fell between the ticks and however late the timer is
\* (safety_bridge_node.py, "Freshness is measured against receive-time only").
MovingMeansHeard ==
  ~IsZero(authorized) =>
    /\ \A s \in Stream : /\ sinceHeard[s] # NeverHeard
                         /\ sinceHeard[s] <= StaleAfter[s] + Standing
    /\ sinceRequest # NeverHeard
    /\ sinceRequest < RequestLife + Standing

\* No operator's E-stop is lost, whatever other messages come before the next
\* tick (safety_bridge_node.py _set_pulse, _tick).
EStopIsTaken == "estop" \in operator ~> estopLatched

\* A latched bridge stays latched and still until it is restarted: a reset
\* needs an arming pulse on the tick before, and whatever is published, with
\* whatever lateness of the timer, never amounts to one (safety_bridge_node.py
\* _set_pulse; section 5 of the README has what the manual says).
LatchIsForGood == [][estopLatched => (estopLatched /\ IsZero(authorized))']_allVars

=============================================================================
