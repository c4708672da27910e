------------------------- MODULE MissionOrchestrator -------------------------
(***************************************************************************)
(* mission/orchestrator.py: the mission state machine.  One call of        *)
(* evaluate is one Tick: it takes the operator's command, asks the         *)
(* recovery policy, moves the mission state, and produces the motion       *)
(* request the safety supervisor will arbitrate.                           *)
(*                                                                         *)
(* The waypoint timer saturates at the waypoint's timeout, the only value  *)
(* it is compared with.  Poses and velocities are not kept: whether the    *)
(* active waypoint is reached is an input, and a request is nothing, zero, *)
(* a drive towards the waypoint or a backup.                               *)
(***************************************************************************)
EXTENDS RecoveryPolicy, Sequences

CONSTANTS
  Plan,      \* the waypoints of the mission plan, in order
  Timeout,   \* timeout_seconds of each
  MissionInputs   \* inputs the caller may present

Command == {"start", "pause", "resume", "abort"}

\* low_confidence, sensors_degraded, obstructed (forward clearance below the
\* minimum) and keepout_violation come from the constraints' observations;
\* safety_inhibits says that the safety state of the last evaluation was none
\* of the active ones; reached that the pose is within the active waypoint's
\* tolerances.
Signal == {"low_confidence", "sensors_degraded", "obstructed", "keepout_violation",
           "keepout_pending", "safety_inhibits", "reached", "operator_recovery"}

ASSUME MissionAssumption ==
  /\ Plan \in Seq(Waypoint) /\ Plan # <<>>
  /\ Timeout \in [Waypoint -> Nat \ {0}]
  /\ \A in \in MissionInputs :
       /\ in.commands \subseteq Command
       /\ in.signals \subseteq Signal
       /\ ~({"keepout_violation", "keepout_pending"} \subseteq in.signals)
       /\ in.gap \in Nat

VARIABLES
  mission,    \* _state
  active,     \* _active_waypoint
  activeAge,  \* time since _active_started_at_ms, NoTimer for None
  remaining,  \* the queue's _remaining, _completed and _aborted
  completed,
  aborted,
  request,    \* requested_motion of the last evaluation
  inhibited   \* motion_inhibited of the last evaluation

missionVars == <<mission, active, activeAge, remaining, completed, aborted,
                 request, inhibited>>
vars == <<policyVars, missionVars>>

MissionState == {"IDLE", "PREPARING", "ACTIVE", "PAUSED", "RECOVERY", "DEGRADED",
                 "ABORTING", "ABORTED", "COMPLETE"}

AllowedMissionTransitions ==
  [IDLE      |-> {"PREPARING", "ABORTED"},
   PREPARING |-> {"ACTIVE", "PAUSED", "ABORTING", "ABORTED"},
   ACTIVE    |-> {"PAUSED", "RECOVERY", "DEGRADED", "ABORTING", "COMPLETE"},
   PAUSED    |-> {"ACTIVE", "RECOVERY", "ABORTING"},
   RECOVERY  |-> {"ACTIVE", "DEGRADED", "ABORTING"},
   DEGRADED  |-> {"ACTIVE", "RECOVERY", "ABORTING"},
   ABORTING  |-> {"ABORTED"},
   ABORTED   |-> {},
   COMPLETE  |-> {}]

\* _transition: a target the table does not allow is refused.
Moved(from, to) == IF to \in AllowedMissionTransitions[from] THEN to ELSE from

TypeOK ==
  /\ PolicyTypeOK
  /\ mission \in MissionState
  /\ active \in Waypoint \cup {NoWaypoint}
  /\ activeAge \in {NoTimer} \cup Nat
  /\ active # NoWaypoint => activeAge <= Timeout[active]
  /\ remaining \in Seq(Waypoint) /\ completed \in Seq(Waypoint)
  /\ aborted \in Seq(Waypoint)
  /\ request \in {"none", "zero", "drive", "backup"}
  /\ inhibited \in BOOLEAN

Init ==
  /\ PolicyInit
  /\ mission = "IDLE"
  /\ active = NoWaypoint
  /\ activeAge = NoTimer
  /\ remaining = Plan /\ completed = <<>> /\ aborted = <<>>
  /\ request = "none"
  /\ inhibited = FALSE

-----------------------------------------------------------------------------
(***************************************************************************)
(* The parts of a tick, in the order evaluate runs them.                   *)
(***************************************************************************)
\* _handle_operator: at most one command is taken, in this order.
Commanded(in) ==
  IF "abort" \in in.commands /\ mission \notin {"ABORTED", "ABORTING"}
    THEN Moved(mission, "ABORTING")
  ELSE IF "pause" \in in.commands /\ mission = "ACTIVE" THEN "PAUSED"
  ELSE IF "resume" \in in.commands /\ mission = "PAUSED" THEN "ACTIVE"
  ELSE IF "start" \in in.commands /\ mission = "IDLE" THEN "PREPARING"
  ELSE mission

FaultyInhibitors == {"low_confidence", "sensors_degraded", "obstructed",
                     "safety_inhibits"}
Inhibitors == {"low_confidence", "sensors_degraded", "obstructed",
               "keepout_violation", "safety_inhibits"}

\* evaluate_constraints, called after the operator's command was taken.
MotionInhibited(in) ==
  Inhibitors \cap in.signals # {} \/ Commanded(in) = "PAUSED"

AgedTimer(in) ==
  IF active = NoWaypoint \/ activeAge = NoTimer THEN activeAge
  ELSE Capped(activeAge + in.gap, Timeout[active])

\* _waypoint_timed_out.
WaypointTimedOut(in) ==
  /\ active # NoWaypoint /\ activeAge # NoTimer
  /\ AgedTimer(in) >= Timeout[active]

PolicyInputs(in) ==
  [waypoint |-> active, timedOut |-> WaypointTimedOut(in),
   signals |-> in.signals, gap |-> in.gap]

\* Any clearing of a recovery gives the waypoint a fresh timer.
FaultyTimer(in) ==
  IF decision' = "CLEAR" /\ mission = "PAUSED" THEN NoTimer ELSE AgedTimer(in)
Timer(in) == IF decision' = "CLEAR" THEN 0 ELSE AgedTimer(in)

\* implied_state, for a mission under way.
FaultyImplied(from) ==
  CASE behavior' = "none"                 -> from
    [] behavior' = "MISSION_ABORT"        -> "ABORTING"
    [] behavior' = "SAFE_STOP_ESCALATION" -> IF from = "RECOVERY" THEN from
                                                                  ELSE "DEGRADED"
    [] OTHER                              -> "RECOVERY"

Implied(from) ==
  CASE behavior' = "none"                 -> from
    [] behavior' = "MISSION_ABORT"        -> "ABORTING"
    [] behavior' = "SAFE_STOP_ESCALATION" -> "DEGRADED"
    [] OTHER                              -> "RECOVERY"

UnderWay == {"ACTIVE", "RECOVERY", "DEGRADED"}

\* _determine_next_state, from the state the operator's command left.
Determined(in) ==
  LET from == Commanded(in)
  IN  CASE from = "PREPARING" ->
             IF MotionInhibited(in) THEN from ELSE Moved(from, "ACTIVE")
        [] from = "ABORTING"  -> Moved(from, "ABORTED")
        [] from \in UnderWay  ->
             IF Implied(from) # from THEN Moved(from, Implied(from))
             ELSE IF decision' = "CLEAR" THEN "ACTIVE"
             ELSE from
        [] OTHER              -> from

HeadOrNone(queue) == IF queue = <<>> THEN NoWaypoint ELSE Head(queue)

\* The waypoint an active mission drives to: preparation begins with the head
\* of the queue, and so does a mission that has none.
Target(in) ==
  IF active = NoWaypoint \/ Commanded(in) = "PREPARING" THEN HeadOrNone(remaining)
                                                         ELSE active

\* _begin_next_waypoint.
Begin(waypoint) ==
  /\ active' = waypoint
  /\ activeAge' = IF waypoint = NoWaypoint THEN NoTimer ELSE 0

-----------------------------------------------------------------------------
(***************************************************************************)
(* How a tick ends, by the mission state it determined.                    *)
(***************************************************************************)
\* Idle, preparing, paused, aborting and over: nothing is requested.
Rest(in) ==
  /\ Determined(in) \notin UnderWay \cup {"ABORTED"} \/ mission = "ABORTED"
  /\ mission' = Determined(in)
  /\ activeAge' = Timer(in)
  /\ request' = "none"
  /\ UNCHANGED <<active, remaining, completed, aborted>>

\* abort_remaining; the active waypoint and its timer are left as they were.
FinishAbort(in) ==
  /\ Determined(in) = "ABORTED" /\ mission # "ABORTED"
  /\ mission' = "ABORTED"
  /\ remaining' = <<>> /\ aborted' = aborted \o remaining
  /\ activeAge' = Timer(in)
  /\ request' = "none"
  /\ UNCHANGED <<active, completed>>

\* A degraded mission asks for zero motion, and so does a recovery, except
\* that it backs up while it retries a waypoint.
Recover(in) ==
  /\ Determined(in) \in {"DEGRADED", "RECOVERY"}
  /\ mission' = Determined(in)
  /\ activeAge' = Timer(in)
  /\ request' = IF /\ mission' = "RECOVERY" /\ behavior' = "BACKUP_AND_RETRY"
                   /\ active # NoWaypoint /\ ~inhibited'
                THEN "backup" ELSE "zero"
  /\ UNCHANGED <<active, remaining, completed, aborted>>

DriveOn(in) ==
  /\ Determined(in) = "ACTIVE" /\ Target(in) # NoWaypoint
  /\ "reached" \notin in.signals
  /\ mission' = "ACTIVE"
  /\ IF Target(in) = active THEN activeAge' = Timer(in) /\ UNCHANGED active
                            ELSE Begin(Target(in))
  /\ request' = IF inhibited' THEN "zero" ELSE "drive"
  /\ UNCHANGED <<remaining, completed, aborted>>

\* A reached waypoint is settled and the next one is begun on the same tick.
Reach(in) ==
  /\ Determined(in) = "ACTIVE" /\ Target(in) # NoWaypoint
  /\ "reached" \in in.signals
  /\ mission' = "ACTIVE"
  /\ remaining' = Tail(remaining)
  /\ completed' = Append(completed, Head(remaining))
  /\ Begin(HeadOrNone(remaining'))
  /\ request' = "zero"
  /\ UNCHANGED aborted

FaultyComplete(in) ==
  /\ Determined(in) = "ACTIVE" /\ active = NoWaypoint
  /\ mission' = "COMPLETE"
  /\ Begin(NoWaypoint)
  /\ request' = "none"
  /\ UNCHANGED <<remaining, completed, aborted>>

Complete(in) ==
  /\ Determined(in) = "ACTIVE" /\ Target(in) = NoWaypoint
  /\ mission' = "COMPLETE"
  /\ Begin(NoWaypoint)
  /\ request' = "none"
  /\ UNCHANGED <<remaining, completed, aborted>>

Tick(in) ==
  /\ EvaluatePolicy(PolicyInputs(in))
  /\ inhibited' = MotionInhibited(in)
  /\ Rest(in) \/ FinishAbort(in) \/ Recover(in)
       \/ DriveOn(in) \/ Reach(in) \/ Complete(in)

Next == \E in \in MissionInputs : Tick(in)

Spec == Init /\ [][Next]_vars /\ WF_vars(Next)

-----------------------------------------------------------------------------
(***************************************************************************)
(* Safety.                                                                 *)
(***************************************************************************)
\* No waypoint is lost, duplicated or reordered: the queue's three lists are
\* at all times a division of the plan, the mission completes only with every
\* waypoint completed and drops waypoints only by aborting, and the waypoint
\* being driven to is the head of the queue (waypoints.py, orchestrator.py
\* _begin_next_waypoint and _drive_active_waypoint, which settles whatever the
\* head of the queue is).
QueueInv ==
  /\ completed \o remaining \o aborted = Plan
  /\ aborted # <<>> => mission = "ABORTED"
  /\ mission = "ABORTED" => remaining = <<>>
  /\ mission = "COMPLETE" => completed = Plan
  /\ mission \in {"IDLE", "PREPARING", "COMPLETE"} => active = NoWaypoint
  /\ active # NoWaypoint /\ mission # "ABORTED" =>
       remaining # <<>> /\ active = Head(remaining)

\* The mission state and the policy's behaviour, kept by two objects, agree: a
\* degraded mission always has the escalation that will clear it, a recovering
\* one a behaviour that will, so that neither is stranded; and a backup is of
\* the waypoint still active (recovery.py implied_state).
RecoveryInv ==
  /\ mission = "DEGRADED" => behavior = "SAFE_STOP_ESCALATION"
  /\ mission = "RECOVERY" =>
       behavior \in {"STOP_AND_REEVALUATE", "BACKUP_AND_RETRY",
                     "WAIT_FOR_SENSOR_RECOVERY"}
  /\ mission = "ACTIVE" => behavior \in {"none", "STOP_AND_REEVALUATE"}
  /\ behavior = "BACKUP_AND_RETRY" =>
       active # NoWaypoint /\ behaviorWaypoint = active

\* The budget is the plan's: no waypoint gets more attempts than it allows, and
\* the one that would exceed it has latched the abort, from which the mission
\* only stops (recovery.py evaluate, "Mission abort is terminal").
BudgetInv ==
  /\ \A w \in Waypoint : attempts[w] > MaxAttempts => behavior = "MISSION_ABORT"
  /\ behavior = "MISSION_ABORT" => mission \in {"PAUSED", "ABORTING", "ABORTED"}

\* Every waypoint being driven to has a running timer, whatever was cleared or
\* paused since it was begun (orchestrator.py _waypoint_timed_out treats a
\* missing one as "not timed out", for ever).
TimerInv == active # NoWaypoint => activeAge # NoTimer

\* Whatever the mission state, a tick on which the constraints inhibit motion
\* or a keepout is violated requests none; a backup is requested only while
\* the policy backs up, and a drive only by an active mission
\* (constraints.py, orchestrator.py _drive_recovery).
InhibitedMeansStill ==
  [][request' \in {"drive", "backup"} =>
       /\ behavior' = "BACKUP_AND_RETRY" <=> request' = "backup"
       /\ \A in \in {i \in MissionInputs : i.signals \cap
                       {"low_confidence", "sensors_degraded", "obstructed",
                        "keepout_violation", "safety_inhibits"} # {}} : ~Tick(in)]_vars

\* The mission implements the ledger: waypoints are settled one at a time.
LedgerPhase ==
  CASE mission = "IDLE"     -> "waiting"
    [] mission = "COMPLETE" -> "done"
    [] mission = "ABORTED"  -> "given_up"
    [] OTHER                -> "running"

Ledger ==
  INSTANCE MissionLedger WITH
    left  <- remaining,
    phase <- LedgerPhase

ImplementsLedger == Ledger!LedgerSpec

-----------------------------------------------------------------------------
(***************************************************************************)
(* Liveness.  evaluate is called once per tick of a clock that never       *)
(* stops, hence WF_vars(Next).                                             *)
(***************************************************************************)
\* A calm tick: time passes, the operator is silent, and neither the sensors,
\* the supervisor nor a keepout holds the mission; the waypoint may still be
\* unreachable, obstructed or too uncertain to drive to.
Calm(in) ==
  /\ in.commands = {} /\ in.gap > 0
  /\ in.signals \subseteq {"low_confidence", "obstructed", "reached"}

\* Timers, retries and the budget settle every mission under way: it completes
\* or aborts, unless it was paused (or was never started).
MissionSettles ==
  <>[][\E in \in MissionInputs : Calm(in) /\ Tick(in)]_vars =>
    <>[](mission \notin UnderWay \cup {"ABORTING"})

-----------------------------------------------------------------------------
(***************************************************************************)
(* What a comment in the code says and the code does not do; refuted by a  *)
(* run.                                                                    *)
(***************************************************************************)
\* recovery.py _engage restarts the timer when the behaviour changes, so that
\* a backup lasts the configured duration.
BackupStartsItsTimer ==
  [][behavior' = "BACKUP_AND_RETRY" /\ behavior # "BACKUP_AND_RETRY"
       => behaviorAge' = 0]_vars
=============================================================================
