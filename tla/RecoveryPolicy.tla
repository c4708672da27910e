---------------------------- MODULE RecoveryPolicy ----------------------------
(***************************************************************************)
(* mission/recovery.py: the policy that picks a recovery behaviour for a   *)
(* mission in trouble, counts the attempts made for each waypoint and      *)
(* gives the mission up when the budget is spent.                          *)
(*                                                                         *)
(* RecoveryPolicy.evaluate is called once per mission tick; each action is *)
(* one of its returns, taken with the signals of that tick.                *)
(***************************************************************************)
EXTENDS Integers

CONSTANTS
  Waypoint,        \* waypoint ids
  NoWaypoint,      \* no waypoint is active
  MaxAttempts,     \* max_recovery_attempts of the plan
  BackupDuration   \* backup_duration_ms

ASSUME PolicyAssumption ==
  /\ NoWaypoint \notin Waypoint
  /\ MaxAttempts \in Nat
  /\ BackupDuration \in Nat \ {0}

VARIABLES
  behavior,          \* _active, "none" for None
  behaviorWaypoint,  \* _active_waypoint_id
  behaviorAge,       \* time since _started_at_ms at the last tick, NoTimer for None
  attempts,          \* _attempt_counts
  decision           \* decision of the last snapshot

policyVars == <<behavior, behaviorWaypoint, behaviorAge, attempts, decision>>

Behavior == {"none", "STOP_AND_REEVALUATE", "BACKUP_AND_RETRY",
             "WAIT_FOR_SENSOR_RECOVERY", "SAFE_STOP_ESCALATION", "MISSION_ABORT"}
NoTimer == -1

Capped(n, max) == IF n > max THEN max ELSE n

PolicyTypeOK ==
  /\ behavior \in Behavior
  /\ behaviorWaypoint \in Waypoint \cup {NoWaypoint}
  /\ behaviorAge \in {NoTimer} \cup 0 .. BackupDuration
  /\ attempts \in [Waypoint -> 0 .. MaxAttempts + 1]
  /\ decision \in {"CONTINUE", "ENGAGE", "ESCALATE", "CLEAR"}

PolicyInit ==
  /\ behavior = "none"
  /\ behaviorWaypoint = NoWaypoint
  /\ behaviorAge = NoTimer
  /\ attempts = [w \in Waypoint |-> 0]
  /\ decision = "CONTINUE"

-----------------------------------------------------------------------------
(***************************************************************************)
(* s is what the orchestrator passes on a tick: the active waypoint,       *)
(* whether it timed out, the time since the previous tick, and the set of  *)
(* signals raised.                                                         *)
(***************************************************************************)
Elapsed(s) == Capped(behaviorAge + s.gap, BackupDuration)

AgedBehavior(s) == IF behaviorAge = NoTimer THEN NoTimer ELSE Elapsed(s)

\* _active is overwritten before it is compared with the new behaviour, so the
\* timer of the behaviour being replaced is kept.
Engage(b, s) ==
  /\ behavior' = b
  /\ behaviorWaypoint' = s.waypoint
  /\ behaviorAge' = IF behaviorAge = NoTimer THEN 0 ELSE Elapsed(s)

Clear ==
  /\ behavior' = "none"
  /\ behaviorAge' = NoTimer
  /\ decision' = "CLEAR"
  /\ UNCHANGED <<behaviorWaypoint, attempts>>

Hold(s) ==
  /\ behaviorAge' = AgedBehavior(s)
  /\ decision' = "CONTINUE"
  /\ UNCHANGED <<behavior, behaviorWaypoint, attempts>>

HoldAbort(s) == behavior = "MISSION_ABORT" /\ Hold(s)

OperatorAsks(s) == "operator_recovery" \in s.signals /\ behavior = "none"

EngageOnOperator(s) ==
  /\ OperatorAsks(s)
  /\ Engage("STOP_AND_REEVALUATE", s)
  /\ decision' = "ENGAGE"
  /\ UNCHANGED attempts

\* Neither latched nor taken by the operator's request.
Open(s) == behavior # "MISSION_ABORT" /\ ~OperatorAsks(s)

EscalateOnKeepout(s) ==
  /\ Open(s) /\ "keepout_violation" \in s.signals
  /\ Engage("SAFE_STOP_ESCALATION", s)
  /\ decision' = IF behavior # "SAFE_STOP_ESCALATION" THEN "ESCALATE" ELSE "CONTINUE"
  /\ UNCHANGED attempts

-----------------------------------------------------------------------------
\* The active waypoint ran out of time.
TimedOut(s) == Open(s) /\ "keepout_violation" \notin s.signals /\ s.timedOut

InBackup(s) == behavior = "BACKUP_AND_RETRY" /\ behaviorWaypoint = s.waypoint

BackupElapsed(s) == behaviorAge # NoTimer /\ Elapsed(s) >= BackupDuration

HoldBackup(s) == TimedOut(s) /\ InBackup(s) /\ ~BackupElapsed(s) /\ Hold(s)

EndBackup(s) == TimedOut(s) /\ InBackup(s) /\ BackupElapsed(s) /\ Clear

\* The first attempt past the budget latches the abort.
FaultySpendAttempt(s) == UNCHANGED attempts
SpendAttempt(s) == attempts' = [attempts EXCEPT ![s.waypoint] = @ + 1]

FaultyBudgetSpent(s) == attempts[s.waypoint] > MaxAttempts
BudgetSpent(s) == attempts[s.waypoint] + 1 > MaxAttempts

StartBackup(s) ==
  /\ TimedOut(s) /\ ~InBackup(s) /\ ~BudgetSpent(s)
  /\ SpendAttempt(s)
  /\ Engage("BACKUP_AND_RETRY", s)
  /\ decision' = "ENGAGE"

GiveUp(s) ==
  /\ TimedOut(s) /\ ~InBackup(s) /\ BudgetSpent(s)
  /\ SpendAttempt(s)
  /\ Engage("MISSION_ABORT", s)
  /\ decision' = "ESCALATE"

-----------------------------------------------------------------------------
\* In time, and outside every keepout.
InTime(s) == Open(s) /\ "keepout_violation" \notin s.signals /\ ~s.timedOut

SensorsFail(s) == "sensors_degraded" \in s.signals /\ behavior = "none"

WaitForSensors(s) ==
  /\ InTime(s) /\ SensorsFail(s)
  /\ Engage("WAIT_FOR_SENSOR_RECOVERY", s)
  /\ decision' = "ENGAGE"
  /\ UNCHANGED attempts

SupervisorHolds(s) ==
  "safety_inhibits" \in s.signals /\ behavior # "SAFE_STOP_ESCALATION"

FollowSupervisor(s) ==
  /\ InTime(s) /\ ~SensorsFail(s) /\ SupervisorHolds(s)
  /\ Engage("SAFE_STOP_ESCALATION", s)
  /\ decision' = "ESCALATE"
  /\ UNCHANGED attempts

\* _should_clear, where the keepout_violation argument is false.
ShouldClear(s) ==
  CASE behavior = "SAFE_STOP_ESCALATION"     -> "safety_inhibits" \notin s.signals
    [] behavior = "WAIT_FOR_SENSOR_RECOVERY" -> "sensors_degraded" \notin s.signals
    [] behavior = "STOP_AND_REEVALUATE"      ->
         {"keepout_pending", "sensors_degraded"} \cap s.signals = {}
    [] behavior = "BACKUP_AND_RETRY"         ->
         s.waypoint # behaviorWaypoint \/ BackupElapsed(s)

\* None of the earlier returns was taken.
Settles(s) == InTime(s) /\ ~SensorsFail(s) /\ ~SupervisorHolds(s)

ClearRecovery(s) == Settles(s) /\ behavior # "none" /\ ShouldClear(s) /\ Clear

HoldRecovery(s) == Settles(s) /\ behavior # "none" /\ ~ShouldClear(s) /\ Hold(s)

NoRecovery(s) == Settles(s) /\ behavior = "none" /\ Hold(s)

EvaluatePolicy(s) ==
  \/ HoldAbort(s) \/ EngageOnOperator(s) \/ EscalateOnKeepout(s)
  \/ HoldBackup(s) \/ EndBackup(s) \/ StartBackup(s) \/ GiveUp(s)
  \/ WaitForSensors(s) \/ FollowSupervisor(s)
  \/ ClearRecovery(s) \/ HoldRecovery(s) \/ NoRecovery(s)
=============================================================================
