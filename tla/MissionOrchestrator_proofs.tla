---------------------- MODULE MissionOrchestrator_proofs ----------------------
(***************************************************************************)
(* Proofs about the mission, for every plan, timeout, retry budget, backup *)
(* duration and set of inputs.                                             *)
(***************************************************************************)
EXTENDS MissionOrchestrator, SequenceTheorems, TLAPS

IInv == TypeOK /\ QueueInv /\ RecoveryInv /\ BudgetInv /\ TimerInv

-----------------------------------------------------------------------------
(***************************************************************************)
(* The recovery policy on one tick.                                        *)
(***************************************************************************)
\* Inputs the orchestrator may pass to the policy in this state.
Presentable(s) ==
  /\ s.waypoint \in Waypoint \cup {NoWaypoint} /\ s.gap \in Nat
  /\ s.timedOut \in BOOLEAN /\ (s.timedOut => s.waypoint \in Waypoint)
  /\ behavior = "BACKUP_AND_RETRY" =>
       s.waypoint \in Waypoint /\ behaviorWaypoint = s.waypoint

WithinBudget ==
  \A w \in Waypoint : attempts[w] > MaxAttempts => behavior = "MISSION_ABORT"

\* A tick of the policy keeps its types (recovery.py evaluate).
LEMMA PolicyTyped ==
  ASSUME NEW s, PolicyTypeOK, WithinBudget, Presentable(s), EvaluatePolicy(s)
  PROVE  PolicyTypeOK'
<1> USE PolicyAssumption DEF PolicyTypeOK, Behavior, NoTimer, Presentable
<1>1. behaviorAge # NoTimer => Elapsed(s) \in 0 .. BackupDuration
  BY DEF Elapsed, Capped
<1>2. AgedBehavior(s) \in {NoTimer} \cup 0 .. BackupDuration
  BY <1>1 DEF AgedBehavior
<1>3. ASSUME NEW b \in Behavior, Engage(b, s)
      PROVE  /\ behavior' \in Behavior
             /\ behaviorWaypoint' \in Waypoint \cup {NoWaypoint}
             /\ behaviorAge' \in {NoTimer} \cup 0 .. BackupDuration
  BY <1>1, <1>3 DEF Engage
<1>4. CASE HoldAbort(s) \/ HoldBackup(s) \/ HoldRecovery(s) \/ NoRecovery(s)
  BY <1>2, <1>4 DEF HoldAbort, HoldBackup, HoldRecovery, NoRecovery, Hold
<1>5. CASE EndBackup(s) \/ ClearRecovery(s)
  BY <1>5 DEF EndBackup, ClearRecovery, Clear
<1>6. CASE EngageOnOperator(s) \/ EscalateOnKeepout(s) \/ WaitForSensors(s)
             \/ FollowSupervisor(s)
  BY <1>3, <1>6 DEF EngageOnOperator, EscalateOnKeepout, WaitForSensors,
                    FollowSupervisor
<1>7. CASE StartBackup(s) \/ GiveUp(s)
  <2>1. s.waypoint \in Waypoint /\ behavior # "MISSION_ABORT"
    BY <1>7 DEF StartBackup, GiveUp, TimedOut, Open
  <2>2. attempts[s.waypoint] \in 0 .. MaxAttempts
    BY <2>1 DEF WithinBudget
  <2>3. attempts' \in [Waypoint -> 0 .. MaxAttempts + 1]
    BY <1>7, <2>1, <2>2 DEF StartBackup, GiveUp, SpendAttempt
  <2> QED BY <1>3, <1>7, <2>3 DEF StartBackup, GiveUp
<1> QED BY <1>4, <1>5, <1>6, <1>7 DEF EvaluatePolicy

\* What a tick of the policy guarantees the orchestrator: a clear is reported
\* exactly when a behaviour ends, the abort is latched and follows only a
\* timeout, a backup is of the active waypoint, and nothing but an operator's
\* stop survives a tick without trouble.
LEMMA PolicyStep ==
  ASSUME NEW s, PolicyTypeOK, WithinBudget, Presentable(s), EvaluatePolicy(s)
  PROVE  /\ WithinBudget'
         /\ decision' = "CLEAR" <=> behavior # "none" /\ behavior' = "none"
         /\ behavior = "MISSION_ABORT" => behavior' = "MISSION_ABORT"
         /\ behavior' = "MISSION_ABORT" => behavior = "MISSION_ABORT" \/ s.timedOut
         /\ behavior' = "BACKUP_AND_RETRY" =>
              s.waypoint \in Waypoint /\ behaviorWaypoint' = s.waypoint
         /\ (/\ {"keepout_violation", "sensors_degraded", "safety_inhibits"}
                   \cap s.signals = {}
             /\ ~s.timedOut
             /\ behavior \notin {"BACKUP_AND_RETRY", "MISSION_ABORT"})
               => behavior' \in {"none", "STOP_AND_REEVALUATE"}
<1> USE PolicyAssumption DEF PolicyTypeOK, Behavior, Presentable
<1>1. CASE HoldAbort(s) \/ HoldBackup(s) \/ NoRecovery(s)
  BY <1>1 DEF HoldAbort, HoldBackup, NoRecovery, Hold, WithinBudget, TimedOut, Open,
              OperatorAsks
<1>2. CASE EndBackup(s) \/ ClearRecovery(s)
  BY <1>2 DEF EndBackup, ClearRecovery, Clear, WithinBudget, TimedOut, InBackup,
              Settles, InTime, Open
<1>3. CASE EngageOnOperator(s) \/ EscalateOnKeepout(s) \/ WaitForSensors(s)
             \/ FollowSupervisor(s)
  BY <1>3 DEF EngageOnOperator, EscalateOnKeepout, WaitForSensors, FollowSupervisor,
              Engage, WithinBudget, OperatorAsks, Open, InTime, SensorsFail,
              SupervisorHolds
<1>4. CASE HoldRecovery(s)
  BY <1>4 DEF HoldRecovery, Hold, ShouldClear, WithinBudget, Settles, InTime, Open,
              SensorsFail, SupervisorHolds
<1>5. CASE StartBackup(s) \/ GiveUp(s)
  <2>1. /\ s.timedOut /\ s.waypoint \in Waypoint /\ behavior # "MISSION_ABORT"
        /\ attempts' = [attempts EXCEPT ![s.waypoint] = @ + 1]
        /\ behaviorWaypoint' = s.waypoint
    BY <1>5 DEF StartBackup, GiveUp, TimedOut, Open, SpendAttempt, Engage
  <2>2. \/ behavior' = "MISSION_ABORT"
        \/ behavior' = "BACKUP_AND_RETRY" /\ attempts[s.waypoint] + 1 <= MaxAttempts
    BY <1>5, <2>1 DEF StartBackup, GiveUp, Engage, BudgetSpent
  <2>3. WithinBudget'
    BY <2>1, <2>2 DEF WithinBudget
  <2>4. decision' # "CLEAR"
    BY <1>5 DEF StartBackup, GiveUp
  <2> QED BY <2>1, <2>2, <2>3, <2>4
<1> QED BY <1>1, <1>2, <1>3, <1>4, <1>5 DEF EvaluatePolicy

-----------------------------------------------------------------------------
(***************************************************************************)
(* The parts of a tick of the orchestrator.                                *)
(***************************************************************************)
\* A caller's inputs, and what the policy is given, are as PolicyStep assumes.
LEMMA InputsPresentable ==
  ASSUME NEW in \in MissionInputs, IInv
  PROVE  /\ Presentable(PolicyInputs(in)) /\ WithinBudget /\ PolicyTypeOK
         /\ PolicyInputs(in).signals = in.signals
         /\ PolicyInputs(in).waypoint = active
         /\ PolicyInputs(in).timedOut => active # NoWaypoint
<1>1. in.gap \in Nat
  BY MissionAssumption
<1>2. WaypointTimedOut(in) \in BOOLEAN /\ (WaypointTimedOut(in) => active # NoWaypoint)
  BY DEF WaypointTimedOut
<1> QED
  BY <1>1, <1>2, PolicyAssumption
  DEF Presentable, PolicyInputs, WithinBudget, IInv, TypeOK, RecoveryInv, BudgetInv

\* The operator's command moves the mission along five edges only.
LEMMA CommandedFacts ==
  ASSUME NEW in, mission \in MissionState
  PROVE  \/ Commanded(in) = mission
         \/ /\ Commanded(in) = "ABORTING"
            /\ mission \in {"PREPARING", "ACTIVE", "PAUSED", "RECOVERY", "DEGRADED"}
         \/ Commanded(in) = "PAUSED" /\ mission = "ACTIVE"
         \/ Commanded(in) = "ACTIVE" /\ mission = "PAUSED"
         \/ Commanded(in) = "PREPARING" /\ mission = "IDLE"
BY DEF Commanded, Moved, AllowedMissionTransitions, MissionState

\* The state a mission under way is taken to follows the policy's behaviour;
\* the table allows every such move.
LEMMA UnderWayFollows ==
  ASSUME NEW in, Commanded(in) \in UnderWay, behavior' \in Behavior,
         decision' = "CLEAR" => behavior' = "none"
  PROVE  /\ behavior' = "MISSION_ABORT" => Determined(in) = "ABORTING"
         /\ behavior' = "SAFE_STOP_ESCALATION" => Determined(in) = "DEGRADED"
         /\ behavior' \in {"STOP_AND_REEVALUATE", "BACKUP_AND_RETRY",
                           "WAIT_FOR_SENSOR_RECOVERY"} => Determined(in) = "RECOVERY"
         /\ behavior' = "none" =>
              Determined(in) = IF decision' = "CLEAR" THEN "ACTIVE" ELSE Commanded(in)
<1> DEFINE from == Commanded(in)
<1>1. from \in {"ACTIVE", "RECOVERY", "DEGRADED"}
  BY DEF UnderWay
<1>2. Determined(in) = IF Implied(from) # from THEN Moved(from, Implied(from))
                       ELSE IF decision' = "CLEAR" THEN "ACTIVE" ELSE from
  BY <1>1 DEF Determined, UnderWay
<1>3. Implied(from) = CASE behavior' = "none"                 -> from
                        [] behavior' = "MISSION_ABORT"        -> "ABORTING"
                        [] behavior' = "SAFE_STOP_ESCALATION" -> "DEGRADED"
                        [] OTHER                              -> "RECOVERY"
  BY DEF Implied
<1>4. \A to \in {"ABORTING", "DEGRADED", "RECOVERY"} \ {from} : Moved(from, to) = to
  BY <1>1 DEF Moved, AllowedMissionTransitions
<1> HIDE DEF from
<1>5. CASE behavior' = "none"
  BY <1>2, <1>3, <1>5 DEF from
<1>6. CASE behavior' # "none"
  <2>1. Implied(from) \in {"ABORTING", "DEGRADED", "RECOVERY"}
    BY <1>3, <1>6 DEF Behavior
  <2>2. CASE Implied(from) = from
    <3>1. Determined(in) = Implied(from)
      BY <1>2, <1>6, <2>2
    <3> QED BY <1>2, <1>3, <1>6, <2>1, <2>2, <3>1 DEF Behavior
  <2>3. CASE Implied(from) # from
    BY <1>2, <1>3, <1>4, <1>6, <2>1, <2>3 DEF Behavior
  <2> QED BY <2>2, <2>3
<1> QED BY <1>5, <1>6

\* Everything later proofs need of one tick, the policy's part included.
TickSummary(in) ==
  /\ PolicyTypeOK' /\ WithinBudget'
  /\ Determined(in) \in MissionState
  /\ Determined(in) = "IDLE" => mission = "IDLE"
  /\ Determined(in) = "PREPARING" => mission \in {"IDLE", "PREPARING"}
  /\ Determined(in) = "COMPLETE" => mission = "COMPLETE"
  /\ Determined(in) = "PAUSED" => mission \in {"ACTIVE", "PAUSED"}
  /\ Determined(in) = "ABORTED" => mission \notin {"IDLE", "COMPLETE"}
  /\ Determined(in) \in UnderWay \cup {"ABORTING"} =>
       mission \in {"IDLE", "PREPARING", "PAUSED"} \cup UnderWay
  /\ mission = "ABORTED" => Determined(in) = "ABORTED"
  /\ Determined(in) = "ACTIVE" => behavior' \in {"none", "STOP_AND_REEVALUATE"}
  /\ Determined(in) = "DEGRADED" => behavior' = "SAFE_STOP_ESCALATION"
  /\ Determined(in) = "RECOVERY" =>
       behavior' \in {"STOP_AND_REEVALUATE", "BACKUP_AND_RETRY",
                     "WAIT_FOR_SENSOR_RECOVERY"}
  /\ behavior' = "MISSION_ABORT" => Determined(in) \in {"PAUSED", "ABORTING", "ABORTED"}
  /\ behavior' = "BACKUP_AND_RETRY" => active # NoWaypoint /\ behaviorWaypoint' = active

LEMMA TickFacts ==
  ASSUME NEW in \in MissionInputs, IInv, EvaluatePolicy(PolicyInputs(in))
  PROVE  TickSummary(in)
<1> DEFINE s == PolicyInputs(in)
<1>1. /\ Presentable(s) /\ WithinBudget /\ PolicyTypeOK
      /\ s.signals = in.signals /\ s.waypoint = active
      /\ s.timedOut => active # NoWaypoint
  BY InputsPresentable
<1>2. /\ WithinBudget'
      /\ decision' = "CLEAR" <=> behavior # "none" /\ behavior' = "none"
      /\ behavior = "MISSION_ABORT" => behavior' = "MISSION_ABORT"
      /\ behavior' = "MISSION_ABORT" => behavior = "MISSION_ABORT" \/ s.timedOut
      /\ behavior' = "BACKUP_AND_RETRY" =>
           s.waypoint \in Waypoint /\ behaviorWaypoint' = s.waypoint
      /\ (/\ {"keepout_violation", "sensors_degraded", "safety_inhibits"}
                \cap s.signals = {}
          /\ ~s.timedOut
          /\ behavior \notin {"BACKUP_AND_RETRY", "MISSION_ABORT"})
            => behavior' \in {"none", "STOP_AND_REEVALUATE"}
  BY <1>1, PolicyStep
<1>3. PolicyTypeOK' /\ behavior' \in Behavior
  BY <1>1, PolicyTyped DEF PolicyTypeOK
<1>4. behavior' = "BACKUP_AND_RETRY" => active # NoWaypoint /\ behaviorWaypoint' = active
  BY <1>1, <1>2, PolicyAssumption
<1> HIDE DEF s
<1>5. /\ mission \in MissionState
      /\ mission \in {"IDLE", "PREPARING", "COMPLETE"} => active = NoWaypoint
      /\ behavior = "BACKUP_AND_RETRY" => active # NoWaypoint
      /\ behavior = "MISSION_ABORT" => mission \in {"PAUSED", "ABORTING", "ABORTED"}
      /\ mission = "DEGRADED" => behavior = "SAFE_STOP_ESCALATION"
      /\ mission = "RECOVERY" => behavior # "none"
  BY DEF IInv, TypeOK, QueueInv, RecoveryInv, BudgetInv
<1>6. mission \in {"IDLE", "PREPARING", "COMPLETE"} => behavior' # "MISSION_ABORT"
  BY <1>1, <1>2, <1>5
<1>7. CASE Commanded(in) \in UnderWay
  <2>1. mission \in UnderWay \cup {"PAUSED"}
    BY <1>5, <1>7, CommandedFacts DEF UnderWay
  <2>2. /\ behavior' = "MISSION_ABORT" => Determined(in) = "ABORTING"
        /\ behavior' = "SAFE_STOP_ESCALATION" => Determined(in) = "DEGRADED"
        /\ behavior' \in {"STOP_AND_REEVALUATE", "BACKUP_AND_RETRY",
                          "WAIT_FOR_SENSOR_RECOVERY"} => Determined(in) = "RECOVERY"
        /\ behavior' = "none" =>
             Determined(in) = IF decision' = "CLEAR" THEN "ACTIVE" ELSE Commanded(in)
    BY <1>2, <1>3, <1>7, UnderWayFollows
  <2>3. behavior' = "none" => Determined(in) = "ACTIVE"
    <3>1. CASE decision' = "CLEAR"
      BY <2>2, <3>1
    <3>2. CASE decision' # "CLEAR"
      <4>1. behavior' = "none" => behavior = "none"
        BY <1>2, <3>2
      <4>2. behavior' = "none" => Commanded(in) = "ACTIVE"
        BY <1>5, <1>7, <4>1, CommandedFacts DEF UnderWay
      <4> QED BY <2>2, <3>2, <4>2
    <3> QED BY <3>1, <3>2
  <2>4. \/ behavior' = "MISSION_ABORT" /\ Determined(in) = "ABORTING"
        \/ behavior' = "SAFE_STOP_ESCALATION" /\ Determined(in) = "DEGRADED"
        \/ behavior' \in {"STOP_AND_REEVALUATE", "BACKUP_AND_RETRY",
                          "WAIT_FOR_SENSOR_RECOVERY"} /\ Determined(in) = "RECOVERY"
        \/ behavior' = "none" /\ Determined(in) = "ACTIVE"
    BY <1>3, <2>2, <2>3 DEF Behavior
  <2> QED BY <1>2, <1>3, <1>4, <2>1, <2>4 DEF TickSummary, UnderWay, MissionState
<1>8. CASE Commanded(in) = "PREPARING"
  <2>1. mission \in {"IDLE", "PREPARING"}
    BY <1>5, <1>8, CommandedFacts
  <2>2. /\ MotionInhibited(in) => Determined(in) = "PREPARING"
        /\ ~MotionInhibited(in) => Determined(in) = "ACTIVE"
    BY <1>8 DEF Determined, UnderWay, Moved, AllowedMissionTransitions
  <2>3. ~MotionInhibited(in) => behavior' \in {"none", "STOP_AND_REEVALUATE"}
    <3>1. ~MotionInhibited(in) =>
            {"keepout_violation", "sensors_degraded", "safety_inhibits"}
              \cap s.signals = {}
      BY <1>1 DEF MotionInhibited, Inhibitors
    <3> QED BY <1>1, <1>2, <1>5, <2>1, <3>1
  <2> QED BY <1>2, <1>3, <1>4, <1>6, <2>1, <2>2, <2>3
          DEF TickSummary, UnderWay, MissionState
<1>9. CASE Commanded(in) \in {"IDLE", "PAUSED", "ABORTING", "ABORTED", "COMPLETE"}
  <2>1. Determined(in) = IF Commanded(in) = "ABORTING" THEN "ABORTED" ELSE Commanded(in)
    BY <1>9 DEF Determined, UnderWay, Moved, AllowedMissionTransitions
  <2>2. behavior' = "MISSION_ABORT" => Commanded(in) \in {"PAUSED", "ABORTING", "ABORTED"}
    BY <1>5, <1>6, <1>9, CommandedFacts
  <2> QED BY <1>2, <1>3, <1>4, <1>5, <1>9, <2>1, <2>2, CommandedFacts
          DEF TickSummary, UnderWay, MissionState
<1>10. Commanded(in) \in MissionState
  BY <1>5, CommandedFacts DEF MissionState
<1> QED BY <1>7, <1>8, <1>9, <1>10 DEF MissionState, UnderWay

-----------------------------------------------------------------------------
(***************************************************************************)
(* The queue.                                                              *)
(***************************************************************************)
\* Moving the head of t to the end of s leaves their concatenation as it was
\* (waypoints.py pop_completed).
LEMMA PopKeepsOrder ==
  ASSUME NEW S, NEW s \in Seq(S), NEW t \in Seq(S), t # <<>>
  PROVE  /\ Head(t) \in S /\ Tail(t) \in Seq(S) /\ Append(s, Head(t)) \in Seq(S)
         /\ Append(s, Head(t)) \o Tail(t) = s \o t
<1> DEFINE popped == Append(s, Head(t))
<1>1. /\ Head(t) \in S /\ Tail(t) \in Seq(S) /\ Len(Tail(t)) = Len(t) - 1
      /\ \A i \in 1 .. Len(Tail(t)) : Tail(t)[i] = t[i + 1]
  BY HeadTailProperties
<1>2. /\ popped \in Seq(S) /\ Len(popped) = Len(s) + 1
      /\ \A i \in 1 .. Len(s) : popped[i] = s[i]
      /\ popped[Len(s) + 1] = Head(t)
  BY <1>1, AppendProperties
<1>3. Head(t) = t[1]
  OBVIOUS
<1>4. Len(s) \in Nat /\ Len(t) \in Nat
  BY LenProperties
<1> HIDE DEF popped
<1>5. /\ popped \o Tail(t) \in Seq(S)
      /\ Len(popped \o Tail(t)) = Len(popped) + Len(Tail(t))
      /\ \A i \in 1 .. Len(popped) + Len(Tail(t)) :
           (popped \o Tail(t))[i] =
             IF i <= Len(popped) THEN popped[i] ELSE Tail(t)[i - Len(popped)]
  BY <1>1, <1>2, ConcatProperties
<1>6. /\ s \o t \in Seq(S) /\ Len(s \o t) = Len(s) + Len(t)
      /\ \A i \in 1 .. Len(s) + Len(t) :
           (s \o t)[i] = IF i <= Len(s) THEN s[i] ELSE t[i - Len(s)]
  BY ConcatProperties
<1>7. \A i \in 1 .. Len(s \o t) : (popped \o Tail(t))[i] = (s \o t)[i]
  <2> SUFFICES ASSUME NEW i \in 1 .. Len(s) + Len(t)
               PROVE  (popped \o Tail(t))[i] = (s \o t)[i]
    BY <1>6
  <2>1. CASE i <= Len(s)
    BY <1>1, <1>2, <1>4, <1>5, <1>6, <2>1
  <2>2. CASE i = Len(s) + 1
    BY <1>1, <1>2, <1>3, <1>4, <1>5, <1>6, <2>2
  <2>3. CASE i > Len(s) + 1
    <3>1. /\ (popped \o Tail(t))[i] = Tail(t)[i - (Len(s) + 1)]
          /\ (s \o t)[i] = t[i - Len(s)]
      BY <1>1, <1>2, <1>4, <1>5, <1>6, <2>3
    <3>2. i - (Len(s) + 1) \in 1 .. Len(Tail(t))
      BY <1>1, <1>4, <2>3
    <3>3. Tail(t)[i - (Len(s) + 1)] = t[(i - (Len(s) + 1)) + 1]
      BY <1>1, <3>2
    <3>4. (i - (Len(s) + 1)) + 1 = i - Len(s)
      BY <1>4
    <3> QED BY <3>1, <3>3, <3>4
  <2>4. i <= Len(s) \/ i = Len(s) + 1 \/ i > Len(s) + 1
    BY <1>4
  <2> QED BY <2>1, <2>2, <2>3, <2>4
<1>8. popped \o Tail(t) = s \o t
  BY <1>1, <1>2, <1>4, <1>5, <1>6, <1>7, SeqEqual
<1> QED BY <1>1, <1>2, <1>8 DEF popped

\* Ages stay within the timeout of the waypoint they belong to.
LEMMA TimerBounds ==
  ASSUME NEW in \in MissionInputs, IInv
  PROVE  /\ Timer(in) \in {NoTimer} \cup Nat
         /\ active # NoWaypoint => Timer(in) <= Timeout[active] /\ Timer(in) # NoTimer
<1>1. in.gap \in Nat
  BY MissionAssumption
<1>2. /\ activeAge \in {NoTimer} \cup Nat /\ active \in Waypoint \cup {NoWaypoint}
      /\ active # NoWaypoint => activeAge <= Timeout[active] /\ activeAge # NoTimer
  BY DEF IInv, TypeOK, TimerInv
<1>3. active # NoWaypoint => Timeout[active] \in Nat \ {0}
  BY <1>2, MissionAssumption
<1> QED BY <1>1, <1>2, <1>3 DEF Timer, AgedTimer, Capped, NoTimer

\* Where a mission heads: to nowhere only when nothing remains, otherwise to
\* the head of the queue (orchestrator.py _begin_next_waypoint).
LEMMA TargetFacts ==
  ASSUME NEW in, IInv, mission # "ABORTED"
  PROVE  /\ Target(in) \in Waypoint \cup {NoWaypoint}
         /\ Target(in) # NoWaypoint => remaining # <<>> /\ Target(in) = Head(remaining)
         /\ Target(in) = NoWaypoint => remaining = <<>>
<1>1. remaining \in Seq(Waypoint) /\ active \in Waypoint \cup {NoWaypoint}
  BY DEF IInv, TypeOK
<1>2. remaining # <<>> => Head(remaining) \in Waypoint
  BY <1>1, HeadTailProperties
<1>3. active # NoWaypoint => remaining # <<>> /\ active = Head(remaining)
  BY DEF IInv, QueueInv
<1> QED BY <1>1, <1>2, <1>3, PolicyAssumption DEF Target, HeadOrNone

\* A tick leaves the mission where it determined, unless it completes it.
LEMMA TickLands ==
  ASSUME NEW in, Tick(in)
  PROVE  \/ mission' = Determined(in)
         \/ Complete(in) /\ Determined(in) = "ACTIVE" /\ mission' = "COMPLETE"
BY DEF Tick, Rest, FinishAbort, Recover, DriveOn, Reach, Complete

-----------------------------------------------------------------------------
(***************************************************************************)
(* One tick preserves each part of the invariant.                          *)
(***************************************************************************)
\* The queue, the active waypoint and its timer keep their types.
LEMMA TypeStep ==
  ASSUME NEW in \in MissionInputs, IInv, Tick(in)
  PROVE  TypeOK' /\ TimerInv'
<1>1. /\ remaining \in Seq(Waypoint) /\ completed \in Seq(Waypoint)
      /\ aborted \in Seq(Waypoint) /\ active \in Waypoint \cup {NoWaypoint}
  BY DEF IInv, TypeOK
<1>2. TickSummary(in)
  BY TickFacts DEF Tick
<1>3. PolicyTypeOK' /\ mission' \in MissionState
  BY <1>2, TickLands DEF TickSummary, MissionState
<1>4. inhibited' \in BOOLEAN
  BY DEF Tick, MotionInhibited
<1>5. /\ Timer(in) \in {NoTimer} \cup Nat
      /\ active # NoWaypoint => Timer(in) <= Timeout[active] /\ Timer(in) # NoTimer
  BY TimerBounds
<1>6. ASSUME NEW w \in Waypoint \cup {NoWaypoint}, Begin(w)
      PROVE  /\ active' = w /\ activeAge' \in {NoTimer} \cup Nat
             /\ w # NoWaypoint => activeAge' <= Timeout[w] /\ activeAge' # NoTimer
  <2>1. w # NoWaypoint => Timeout[w] \in Nat
    BY MissionAssumption
  <2> QED BY <1>6, <2>1 DEF Begin, NoTimer
<1> DEFINE Timed == /\ active' \in Waypoint \cup {NoWaypoint}
                    /\ activeAge' \in {NoTimer} \cup Nat
                    /\ active' # NoWaypoint =>
                         activeAge' <= Timeout[active'] /\ activeAge' # NoTimer
           Queued == /\ remaining' \in Seq(Waypoint) /\ completed' \in Seq(Waypoint)
                     /\ aborted' \in Seq(Waypoint)
           Asked == request' \in {"none", "zero", "drive", "backup"}
<1>7. CASE Rest(in) \/ Recover(in)
  <2>1. Timed
    BY <1>1, <1>5, <1>7 DEF Rest, Recover
  <2>2. Queued /\ Asked
    BY <1>1, <1>7 DEF Rest, Recover
  <2> QED BY <1>3, <1>4, <2>1, <2>2 DEF TypeOK, TimerInv
<1>8. CASE FinishAbort(in)
  <2>1. Timed
    BY <1>1, <1>5, <1>8 DEF FinishAbort
  <2>2. <<>> \in Seq(Waypoint) /\ aborted \o remaining \in Seq(Waypoint)
    BY <1>1, EmptySeq, ConcatProperties
  <2>3. Queued /\ Asked
    BY <1>1, <1>8, <2>2 DEF FinishAbort
  <2> QED BY <1>3, <1>4, <2>1, <2>3 DEF TypeOK, TimerInv
<1>9. CASE DriveOn(in) \/ Reach(in) \/ Complete(in)
  <2>1. mission # "ABORTED"
    BY <1>2, <1>9 DEF TickSummary, DriveOn, Reach, Complete
  <2>2. /\ Target(in) \in Waypoint \cup {NoWaypoint}
        /\ Target(in) # NoWaypoint => remaining # <<>>
    BY <2>1, TargetFacts
  <2>3. CASE DriveOn(in)
    <3>1. CASE Target(in) = active
      <4>1. activeAge' = Timer(in) /\ active' = active
        BY <2>3, <3>1 DEF DriveOn
      <4> QED BY <1>1, <1>3, <1>4, <1>5, <2>3, <4>1 DEF DriveOn, TypeOK, TimerInv
    <3>2. CASE Target(in) # active
      <4>1. Begin(Target(in))
        BY <2>3, <3>2 DEF DriveOn
      <4>2. Timed
        BY <1>6, <2>2, <4>1
      <4> QED BY <1>1, <1>3, <1>4, <2>3, <4>2 DEF DriveOn, TypeOK, TimerInv
    <3> QED BY <3>1, <3>2
  <2>4. CASE Reach(in)
    <3>1. remaining # <<>>
      BY <2>2, <2>4 DEF Reach
    <3>2. /\ Tail(remaining) \in Seq(Waypoint)
          /\ Append(completed, Head(remaining)) \in Seq(Waypoint)
      BY <1>1, <3>1, PopKeepsOrder
    <3>3. Queued /\ Asked
      BY <1>1, <2>4, <3>2 DEF Reach
    <3>4. HeadOrNone(remaining') \in Waypoint \cup {NoWaypoint}
      BY <3>3, HeadTailProperties DEF HeadOrNone
    <3>5. Timed
      BY <1>6, <2>4, <3>4 DEF Reach
    <3> QED BY <1>3, <1>4, <3>3, <3>5 DEF TypeOK, TimerInv
  <2>5. CASE Complete(in)
    <3>1. Timed
      BY <1>6, <2>5 DEF Complete
    <3> QED BY <1>1, <1>3, <1>4, <2>5, <3>1 DEF Complete, TypeOK, TimerInv
  <2> QED BY <1>9, <2>3, <2>4, <2>5
<1> QED BY <1>7, <1>8, <1>9 DEF Tick

\* The queue stays a division of the plan.
LEMMA QueueStep ==
  ASSUME NEW in \in MissionInputs, IInv, Tick(in)
  PROVE  QueueInv'
<1>1. /\ remaining \in Seq(Waypoint) /\ completed \in Seq(Waypoint)
      /\ aborted \in Seq(Waypoint)
  BY DEF IInv, TypeOK
<1>2. TickSummary(in)
  BY TickFacts DEF Tick
<1>3. QueueInv
  BY DEF IInv
<1>4. CASE Rest(in)
  BY <1>2, <1>3, <1>4 DEF Rest, QueueInv, TickSummary
<1>5. CASE Recover(in)
  BY <1>2, <1>3, <1>5 DEF Recover, QueueInv, TickSummary
<1>6. CASE FinishAbort(in)
  <2>1. aborted = <<>> /\ mission # "ABORTED"
    BY <1>3, <1>6 DEF QueueInv, FinishAbort
  <2>2. completed \o remaining \in Seq(Waypoint)
    BY <1>1, ConcatProperties
  <2>3. /\ aborted \o remaining = remaining
        /\ completed \o <<>> = completed
        /\ (completed \o remaining) \o aborted = completed \o remaining
    BY <1>1, <2>1, <2>2, ConcatEmptySeq
  <2>4. completed' \o remaining' \o aborted' = Plan
    BY <1>3, <1>6, <2>3 DEF QueueInv, FinishAbort
  <2> QED BY <1>6, <2>4 DEF QueueInv, FinishAbort
<1>7. CASE DriveOn(in) \/ Reach(in) \/ Complete(in)
  <2>1. mission # "ABORTED"
    BY <1>2, <1>7 DEF TickSummary, DriveOn, Reach, Complete
  <2>2. aborted = <<>>
    BY <1>3, <2>1 DEF QueueInv
  <2>3. /\ Target(in) # NoWaypoint => remaining # <<>> /\ Target(in) = Head(remaining)
        /\ Target(in) = NoWaypoint => remaining = <<>>
    BY <2>1, TargetFacts
  <2>4. CASE DriveOn(in)
    <3>1. active' = Target(in)
      BY <2>4 DEF DriveOn, Begin
    <3> QED BY <1>3, <2>2, <2>3, <2>4, <3>1 DEF DriveOn, QueueInv
  <2>5. CASE Reach(in)
    <3>1. remaining # <<>>
      BY <2>3, <2>5 DEF Reach
    <3>2. Append(completed, Head(remaining)) \o Tail(remaining) = completed \o remaining
      BY <1>1, <3>1, PopKeepsOrder
    <3>3. completed' \o remaining' \o aborted' = Plan
      BY <1>3, <2>5, <3>2 DEF QueueInv, Reach
    <3>4. active' = HeadOrNone(remaining')
      BY <2>5 DEF Reach, Begin
    <3> QED BY <2>2, <2>5, <3>3, <3>4 DEF QueueInv, Reach, HeadOrNone
  <2>6. CASE Complete(in)
    <3>1. remaining = <<>>
      BY <2>3, <2>6 DEF Complete
    <3>2. (completed \o remaining) \o aborted = completed
      BY <1>1, <2>2, <3>1, ConcatEmptySeq
    <3> QED BY <1>3, <2>2, <2>6, <3>2 DEF QueueInv, Complete, Begin
  <2> QED BY <1>7, <2>4, <2>5, <2>6
<1> QED BY <1>4, <1>5, <1>6, <1>7 DEF Tick

\* The mission state and the policy's behaviour stay in agreement.
LEMMA RecoveryStep ==
  ASSUME NEW in \in MissionInputs, IInv, Tick(in)
  PROVE  RecoveryInv' /\ BudgetInv'
<1>1. TickSummary(in)
  BY TickFacts DEF Tick
<1>2. CASE behavior' = "BACKUP_AND_RETRY"
  <2>1. Determined(in) # "ACTIVE" /\ active # NoWaypoint /\ behaviorWaypoint' = active
    BY <1>1, <1>2 DEF TickSummary
  <2>2. active' = active
    BY <2>1 DEF Tick, Rest, FinishAbort, Recover, DriveOn, Reach, Complete
  <2> QED BY <1>1, <1>2, <2>1, <2>2, TickLands
          DEF RecoveryInv, BudgetInv, TickSummary, WithinBudget
<1>3. CASE behavior' # "BACKUP_AND_RETRY"
  BY <1>1, <1>3, TickLands DEF RecoveryInv, BudgetInv, TickSummary, WithinBudget
<1> QED BY <1>2, <1>3

-----------------------------------------------------------------------------
(***************************************************************************)
(* The theorems.                                                           *)
(***************************************************************************)
LEMMA InitTyped == Init => IInv
<1> SUFFICES ASSUME Init PROVE IInv
  OBVIOUS
<1> USE MissionAssumption, PolicyAssumption
<1>1. TypeOK
  <2>1. PolicyTypeOK
    BY DEF Init, PolicyInit, PolicyTypeOK, Behavior, NoTimer
  <2>2. <<>> \in Seq(Waypoint)
    BY EmptySeq
  <2>3. mission \in MissionState /\ activeAge \in {NoTimer} \cup Nat
    BY DEF Init, MissionState
  <2> QED BY <2>1, <2>2, <2>3 DEF Init, TypeOK
<1>2. (<<>> \o Plan) \o <<>> = Plan
  BY ConcatEmptySeq
<1>3. QueueInv
  BY <1>2 DEF Init, QueueInv
<1>4. RecoveryInv /\ BudgetInv /\ TimerInv
  BY DEF Init, PolicyInit, RecoveryInv, BudgetInv, TimerInv
<1> QED BY <1>1, <1>3, <1>4 DEF IInv

LEMMA StutterKeeps ==
  ASSUME IInv, UNCHANGED vars
  PROVE  IInv'
<1> USE DEF vars, policyVars, missionVars
<1>1. TypeOK'
  BY DEF IInv, TypeOK, PolicyTypeOK
<1>2. QueueInv'
  BY DEF IInv, QueueInv
<1>3. RecoveryInv' /\ BudgetInv' /\ TimerInv'
  BY DEF IInv, RecoveryInv, BudgetInv, TimerInv
<1> QED BY <1>1, <1>2, <1>3 DEF IInv

\* The invariant is inductive.
LEMMA StepTyped ==
  ASSUME IInv, [Next]_vars
  PROVE  IInv'
<1>1. CASE Next
  <2>1. PICK in \in MissionInputs : Tick(in)
    BY <1>1 DEF Next
  <2> QED BY <2>1, TypeStep, QueueStep, RecoveryStep DEF IInv
<1> QED BY <1>1, StutterKeeps

LEMMA InvariantHolds == Spec => []IInv
BY InitTyped, StepTyped, PTL DEF Spec

\* Every variable keeps its type (orchestrator.py and recovery.py, the fields of
\* the mission and of its policy).
THEOREM TypeCorrect == Spec => []TypeOK
<1>1. IInv => TypeOK
  BY DEF IInv
<1> QED BY <1>1, InvariantHolds, PTL

\* No waypoint of any plan is lost, duplicated or reordered (waypoints.py).
THEOREM QueueCorrect == Spec => []QueueInv
<1>1. IInv => QueueInv
  BY DEF IInv
<1> QED BY <1>1, InvariantHolds, PTL

\* The mission state and the policy's behaviour agree: no mission is stranded in
\* a recovery that nothing will clear (recovery.py implied_state).
THEOREM RecoveryCorrect == Spec => []RecoveryInv
<1>1. IInv => RecoveryInv
  BY DEF IInv
<1> QED BY <1>1, InvariantHolds, PTL

\* No waypoint gets more attempts than the budget allows, whatever the budget
\* (recovery.py evaluate).
THEOREM BudgetCorrect == Spec => []BudgetInv
<1>1. IInv => BudgetInv
  BY DEF IInv
<1> QED BY <1>1, InvariantHolds, PTL

\* A waypoint being driven to always has a running timer (orchestrator.py
\* _waypoint_timed_out).
THEOREM TimerCorrect == Spec => []TimerInv
<1>1. IInv => TimerInv
  BY DEF IInv
<1> QED BY <1>1, InvariantHolds, PTL

\* A tick with a reason to inhibit motion requests none, and motion is asked for
\* in the two ways the policy's behaviour allows (orchestrator.py
\* _drive_recovery and _drive_active_waypoint).
LEMMA InhibitedStep ==
  ASSUME IInv, Next, request' \in {"drive", "backup"}
  PROVE  /\ behavior' = "BACKUP_AND_RETRY" <=> request' = "backup"
         /\ \A in \in {i \in MissionInputs : i.signals \cap
              {"low_confidence", "sensors_degraded", "obstructed",
               "keepout_violation", "safety_inhibits"} # {}} : ~Tick(in)
<1>1. ASSUME NEW in \in MissionInputs, Tick(in)
      PROVE  /\ ~MotionInhibited(in)
             /\ behavior' = "BACKUP_AND_RETRY" <=> request' = "backup"
  <2>1. TickSummary(in) /\ inhibited' = MotionInhibited(in)
    BY <1>1, TickFacts DEF Tick
  <2>2. Recover(in) \/ DriveOn(in)
    BY <1>1 DEF Tick, Rest, FinishAbort, Reach, Complete
  <2>3. CASE Recover(in)
    BY <2>1, <2>3 DEF Recover
  <2>4. CASE DriveOn(in)
    BY <2>1, <2>4 DEF DriveOn, TickSummary
  <2> QED BY <2>2, <2>3, <2>4
<1>2. PICK in \in MissionInputs : Tick(in)
  BY DEF Next
<1> QED BY <1>1, <1>2 DEF MotionInhibited, Inhibitors

THEOREM InhibitedCorrect == Spec => InhibitedMeansStill
<1>1. IInv /\ [Next]_vars =>
        [request' \in {"drive", "backup"} =>
           /\ behavior' = "BACKUP_AND_RETRY" <=> request' = "backup"
           /\ \A in \in {i \in MissionInputs : i.signals \cap
                {"low_confidence", "sensors_degraded", "obstructed",
                 "keepout_violation", "safety_inhibits"} # {}} : ~Tick(in)]_vars
  BY InhibitedStep
<1> QED BY <1>1, InvariantHolds, PTL DEF Spec, InhibitedMeansStill

-----------------------------------------------------------------------------
(***************************************************************************)
(* The mission implements the ledger.                                      *)
(***************************************************************************)
\* A mission that has not begun has its whole plan before it.
WholePlan == mission = "IDLE" => remaining = Plan

LEMMA WholePlanStep ==
  ASSUME IInv, WholePlan, [Next]_vars
  PROVE  WholePlan'
<1>1. CASE Next
  <2>1. PICK in \in MissionInputs : Tick(in)
    BY <1>1 DEF Next
  <2>2. TickSummary(in)
    BY <2>1, TickFacts DEF Tick
  <2>3. mission' = "IDLE" => mission = "IDLE" /\ Rest(in)
    BY <2>1, <2>2 DEF TickSummary, Tick, FinishAbort, Recover, DriveOn, Reach, Complete,
                      Rest
  <2> QED BY <2>3 DEF WholePlan, Rest
<1>2. CASE UNCHANGED vars
  BY <1>2 DEF WholePlan, vars, missionVars
<1> QED BY <1>1, <1>2

LEMMA WholePlanHolds == Spec => []WholePlan
<1>1. Init => WholePlan
  BY DEF Init, WholePlan
<1> QED BY <1>1, WholePlanStep, InvariantHolds, PTL DEF Spec

LEMMA LedgerStep ==
  ASSUME IInv, WholePlan, [Next]_vars
  PROVE  [Ledger!LedgerNext]_(Ledger!ledgerVars)
<1> USE DEF Ledger!LedgerNext, Ledger!ledgerVars, Ledger!Start, Ledger!Settle,
            Ledger!Finish, Ledger!Abandon
<1>1. CASE Next
  <2>1. PICK in \in MissionInputs : Tick(in)
    BY <1>1 DEF Next
  <2>2. TickSummary(in) /\ mission \in MissionState
    BY <2>1, TickFacts DEF Tick, IInv, TypeOK
  <2>3. CASE (Rest(in) \/ Recover(in) \/ DriveOn(in)) /\ mission # "ABORTED"
    <3>1. /\ mission' = Determined(in) /\ remaining' = remaining
          /\ Determined(in) # "ABORTED"
      BY <2>3 DEF Rest, Recover, DriveOn
    <3>2. LedgerPhase' = LedgerPhase \/ (LedgerPhase = "waiting" /\ LedgerPhase' = "running")
      BY <2>2, <3>1 DEF LedgerPhase, TickSummary, MissionState, UnderWay
    <3> QED BY <3>1, <3>2
  <2>4. CASE FinishAbort(in)
    <3>1. LedgerPhase = "running" /\ LedgerPhase' = "given_up"
      BY <2>2, <2>4 DEF LedgerPhase, FinishAbort, TickSummary, MissionState
    <3> QED BY <2>4, <3>1 DEF FinishAbort
  <2>5. CASE Reach(in)
    <3>1. mission \in {"IDLE", "PREPARING", "PAUSED"} \cup UnderWay
      BY <2>2, <2>5 DEF Reach, TickSummary, UnderWay
    <3>2. remaining # <<>>
      BY <2>5, <3>1, TargetFacts DEF Reach, UnderWay
    <3>3. LedgerPhase \in {"waiting", "running"} /\ LedgerPhase' = "running"
      BY <2>5, <3>1 DEF LedgerPhase, Reach, UnderWay
    <3> QED BY <2>5, <3>2, <3>3 DEF Reach
  <2>6. CASE Complete(in)
    <3>1. mission \in {"IDLE", "PREPARING", "PAUSED"} \cup UnderWay
      BY <2>2, <2>6 DEF Complete, TickSummary, UnderWay
    <3>2. remaining = <<>>
      BY <2>6, <3>1, TargetFacts DEF Complete, UnderWay
    <3>3. mission # "IDLE"
      BY <3>2, MissionAssumption DEF WholePlan
    <3>4. LedgerPhase = "running" /\ LedgerPhase' = "done"
      BY <2>6, <3>1, <3>3 DEF LedgerPhase, Complete, UnderWay
    <3> QED BY <2>6, <3>2, <3>4 DEF Complete
  <2>7. CASE mission = "ABORTED"
    <3>1. Determined(in) = "ABORTED"
      BY <2>2, <2>7 DEF TickSummary
    <3>2. mission' = mission /\ remaining' = remaining
      BY <2>1, <2>7, <3>1
      DEF Tick, Rest, FinishAbort, Recover, DriveOn, Reach, Complete
    <3> QED BY <3>2 DEF LedgerPhase
  <2> QED BY <2>1, <2>3, <2>4, <2>5, <2>6, <2>7 DEF Tick
<1>2. CASE UNCHANGED vars
  <2>1. mission' = mission /\ remaining' = remaining
    BY <1>2 DEF vars, missionVars
  <2> QED BY <2>1 DEF LedgerPhase
<1> QED BY <1>1, <1>2

\* The mission settles its waypoints one at a time and in order, completes only
\* with none left and gives up all that are left at once: it implements the
\* ledger, for every plan (orchestrator.py, waypoints.py).
THEOREM LedgerImplemented == Spec => ImplementsLedger
<1>1. Init => Ledger!LedgerInit
  BY DEF Init, Ledger!LedgerInit, LedgerPhase
<1> QED BY <1>1, LedgerStep, InvariantHolds, WholePlanHolds, PTL
        DEF Spec, ImplementsLedger, Ledger!LedgerSpec

\* Whoever ticks the orchestrator as its specification says, however seldom, is
\* given all of these guarantees.
LEMMA MissionWhateverTheHost ==
  Init /\ [][Next]_vars => []IInv /\ InhibitedMeansStill /\ ImplementsLedger
<1>1. Init => IInv /\ WholePlan /\ Ledger!LedgerInit
  BY InitTyped DEF Init, WholePlan, Ledger!LedgerInit, LedgerPhase
<1>2. IInv /\ [Next]_vars => IInv'
  BY StepTyped
<1>3. IInv /\ WholePlan /\ [Next]_vars => WholePlan'
  BY WholePlanStep
<1>4. IInv /\ [Next]_vars =>
        [request' \in {"drive", "backup"} =>
           /\ behavior' = "BACKUP_AND_RETRY" <=> request' = "backup"
           /\ \A in \in {i \in MissionInputs : i.signals \cap
                {"low_confidence", "sensors_degraded", "obstructed",
                 "keepout_violation", "safety_inhibits"} # {}} : ~Tick(in)]_vars
  BY InhibitedStep
<1> QED BY <1>1, <1>2, <1>3, <1>4, LedgerStep, PTL
        DEF InhibitedMeansStill, ImplementsLedger, Ledger!LedgerSpec

-----------------------------------------------------------------------------
(***************************************************************************)
(* Every calm tick counts.                                                 *)
(***************************************************************************)
\* What a mission under way still has before it: waypoints, and for the one at
\* the head of the queue attempts, the stages of an attempt, and in each stage
\* the time until its timer is up.
Unsettled == UnderWay \cup {"ABORTING"}

AttemptsLeft ==
  IF remaining = <<>> THEN 0 ELSE MaxAttempts + 1 - attempts[Head(remaining)]

Stage == CASE behavior = "none"             -> 0
           [] behavior = "BACKUP_AND_RETRY" -> 1
           [] OTHER                         -> 2

TimeLeft ==
  IF behavior # "none" THEN BackupDuration - behaviorAge
  ELSE IF active # NoWaypoint THEN Timeout[active] - activeAge
  ELSE IF remaining # <<>> THEN Timeout[Head(remaining)] + 1
  ELSE 0

LessIsLeft ==
  \/ Len(remaining') < Len(remaining)
  \/ /\ remaining' = remaining
     /\ \/ AttemptsLeft' < AttemptsLeft
        \/ /\ AttemptsLeft' = AttemptsLeft
           /\ \/ Stage' < Stage
              \/ Stage' = Stage /\ TimeLeft' < TimeLeft

\* A behaviour has a start time for as long as it is in force (recovery.py
\* _engage sets it where it is missing, and _clear drops both).
BehaviorTimed == behavior # "none" => behaviorAge # NoTimer

LEMMA BehaviorTimedStep ==
  ASSUME IInv, BehaviorTimed, [Next]_vars
  PROVE  BehaviorTimed'
<1>1. CASE Next
  <2>1. PICK in \in MissionInputs : Tick(in)
    BY <1>1 DEF Next
  <2> DEFINE s == PolicyInputs(in)
  <2>2. EvaluatePolicy(s) /\ s.gap \in Nat
    BY <2>1, MissionAssumption DEF Tick, PolicyInputs
  <2>3. behaviorAge \in {NoTimer} \cup 0 .. BackupDuration /\ BackupDuration \in Nat
    BY PolicyAssumption DEF IInv, TypeOK, PolicyTypeOK
  <2> HIDE DEF s
  <2>4. behaviorAge # NoTimer => Elapsed(s) \in Nat /\ Elapsed(s) # NoTimer
    BY <2>2, <2>3 DEF Elapsed, Capped, NoTimer
  <2>5. ASSUME NEW b, Engage(b, s) PROVE behaviorAge' # NoTimer
    BY <2>4, <2>5 DEF Engage, NoTimer
  <2>6. ASSUME Hold(s) PROVE BehaviorTimed'
    BY <2>4, <2>6 DEF Hold, AgedBehavior, BehaviorTimed
  <2>7. ASSUME Clear PROVE BehaviorTimed'
    BY <2>7 DEF Clear, BehaviorTimed
  <2> QED BY <2>2, <2>5, <2>6, <2>7
          DEF EvaluatePolicy, HoldAbort, EngageOnOperator, EscalateOnKeepout, HoldBackup,
              EndBackup, StartBackup, GiveUp, WaitForSensors, FollowSupervisor,
              ClearRecovery, HoldRecovery, NoRecovery, BehaviorTimed
<1> QED BY <1>1 DEF vars, policyVars, BehaviorTimed

\* What is left can be counted.
LEMMA LeftIsNatural ==
  ASSUME IInv
  PROVE  /\ Len(remaining) \in Nat /\ AttemptsLeft \in Nat /\ Stage \in Nat
         /\ TimeLeft \in Nat
<1>1. /\ remaining \in Seq(Waypoint) /\ active \in Waypoint \cup {NoWaypoint}
      /\ attempts \in [Waypoint -> 0 .. MaxAttempts + 1]
      /\ behaviorAge \in {NoTimer} \cup 0 .. BackupDuration
      /\ activeAge \in {NoTimer} \cup Nat
      /\ active # NoWaypoint => activeAge <= Timeout[active]
  BY DEF IInv, TypeOK, PolicyTypeOK
<1>2. MaxAttempts \in Nat /\ BackupDuration \in Nat /\ Timeout \in [Waypoint -> Nat \ {0}]
  BY PolicyAssumption, MissionAssumption
<1>3. remaining # <<>> => Head(remaining) \in Waypoint
  BY <1>1, HeadTailProperties
<1>4. AttemptsLeft \in Nat
  BY <1>1, <1>2, <1>3 DEF AttemptsLeft
<1>5. TimeLeft \in Nat
  BY <1>1, <1>2, <1>3 DEF TimeLeft, NoTimer
<1> QED BY <1>1, <1>4, <1>5, LenProperties DEF Stage

\* The policy on a calm tick of a mission under way: it finds nothing, or waits
\* for a backup that is not over, or ends what it was doing, or spends an attempt.
CalmPolicy(in) ==
  \/ /\ behavior = "none" /\ behavior' = "none" /\ decision' = "CONTINUE"
     /\ ~WaypointTimedOut(in) /\ attempts' = attempts
  \/ /\ behavior = "BACKUP_AND_RETRY" /\ behavior' = "BACKUP_AND_RETRY"
     /\ decision' = "CONTINUE" /\ attempts' = attempts
     /\ behaviorAge' > behaviorAge
  \/ /\ behavior # "none" /\ behavior' = "none" /\ decision' = "CLEAR"
     /\ attempts' = attempts
  \/ /\ active # NoWaypoint /\ attempts' = [attempts EXCEPT ![active] = @ + 1]
     /\ behavior' \in {"BACKUP_AND_RETRY", "MISSION_ABORT"}
     /\ decision' # "CLEAR"

LEMMA PolicyOnCalm ==
  ASSUME NEW in \in MissionInputs, IInv, BehaviorTimed, mission \in UnderWay,
         Calm(in), Tick(in)
  PROVE  CalmPolicy(in)
<1> DEFINE s == PolicyInputs(in)
<1>1. /\ EvaluatePolicy(s) /\ s.gap \in Nat /\ s.gap > 0 /\ s.waypoint = active
      /\ s.signals \subseteq {"low_confidence", "obstructed", "reached"}
      /\ s.timedOut = WaypointTimedOut(in)
  BY MissionAssumption DEF Tick, PolicyInputs, Calm
<1>2. /\ behavior \in Behavior /\ behavior # "MISSION_ABORT"
      /\ behavior = "BACKUP_AND_RETRY" => behaviorWaypoint = active
  BY DEF IInv, TypeOK, PolicyTypeOK, BudgetInv, RecoveryInv, UnderWay
<1>3. /\ behavior # "none" => behaviorAge \in 0 .. BackupDuration /\ behaviorAge # NoTimer
      /\ BackupDuration \in Nat
  BY PolicyAssumption DEF IInv, TypeOK, PolicyTypeOK, BehaviorTimed, NoTimer
<1>4. s.timedOut => active # NoWaypoint
  BY <1>1 DEF WaypointTimedOut
<1> HIDE DEF s
<1>5. ~HoldAbort(s) /\ ~EngageOnOperator(s) /\ ~EscalateOnKeepout(s)
      /\ ~WaitForSensors(s) /\ ~FollowSupervisor(s)
  BY <1>1, <1>2 DEF HoldAbort, EngageOnOperator, OperatorAsks, EscalateOnKeepout,
     WaitForSensors, SensorsFail, FollowSupervisor, SupervisorHolds
<1>6. ASSUME Hold(s), behavior = "BACKUP_AND_RETRY", ~BackupElapsed(s) PROVE CalmPolicy(in)
  <2>1. behaviorAge' = Elapsed(s) /\ Elapsed(s) < BackupDuration
    <3>1. Elapsed(s) \in Int
      BY <1>1, <1>3, <1>6 DEF Elapsed, Capped
    <3> QED BY <1>3, <1>6, <3>1 DEF Hold, AgedBehavior, BackupElapsed
  <2>2. behaviorAge' > behaviorAge
    BY <1>1, <1>3, <1>6, <2>1 DEF Elapsed, Capped
  <2> QED BY <1>6, <2>2 DEF Hold, CalmPolicy
<1>7. CASE HoldBackup(s)
  BY <1>6, <1>7 DEF HoldBackup, InBackup
<1>8. CASE EndBackup(s)
  BY <1>8 DEF EndBackup, InBackup, Clear, CalmPolicy
<1>9. CASE StartBackup(s) \/ GiveUp(s)
  BY <1>1, <1>4, <1>9 DEF StartBackup, GiveUp, TimedOut, SpendAttempt, Engage, CalmPolicy
<1>10. CASE ClearRecovery(s)
  BY <1>10 DEF ClearRecovery, Clear, CalmPolicy
<1>11. CASE HoldRecovery(s)
  <2>1. behavior = "BACKUP_AND_RETRY" /\ ~BackupElapsed(s)
    <3>1. ~ShouldClear(s) /\ behavior # "none"
      BY <1>11 DEF HoldRecovery
    <3>2. behavior \notin {"SAFE_STOP_ESCALATION", "WAIT_FOR_SENSOR_RECOVERY",
                           "STOP_AND_REEVALUATE"}
      BY <1>1, <3>1 DEF ShouldClear
    <3>3. behavior = "BACKUP_AND_RETRY"
      BY <1>2, <3>1, <3>2 DEF Behavior
    <3> QED BY <3>1, <3>3 DEF ShouldClear
  <2> QED BY <1>6, <1>11, <2>1 DEF HoldRecovery
<1>12. CASE NoRecovery(s)
  BY <1>1, <1>12 DEF NoRecovery, Settles, InTime, Hold, CalmPolicy
<1> QED BY <1>1, <1>5, <1>7, <1>8, <1>9, <1>10, <1>11, <1>12 DEF EvaluatePolicy

\* A tick that drives on, reaches or completes.
LEMMA DrivingCounts ==
  ASSUME NEW in \in MissionInputs, IInv, mission \in UnderWay, Calm(in), Tick(in),
         Determined(in) = "ACTIVE", attempts' = attempts, behavior' = "none",
         \/ behavior # "none"
         \/ decision' = "CONTINUE" /\ ~WaypointTimedOut(in)
  PROVE  mission' \notin Unsettled \/ LessIsLeft
<1>1. Commanded(in) = mission
  BY DEF Calm, Commanded
<1>2. /\ Target(in) \in Waypoint \cup {NoWaypoint}
      /\ Target(in) # NoWaypoint => remaining # <<>> /\ Target(in) = Head(remaining)
  BY TargetFacts DEF UnderWay
<1>3. remaining \in Seq(Waypoint)
  BY DEF IInv, TypeOK
<1>4. CASE Complete(in)
  BY <1>4 DEF Complete, Unsettled, UnderWay
<1>5. CASE Reach(in)
  <2>1. Len(Tail(remaining)) = Len(remaining) - 1 /\ Len(remaining) \in Nat
    BY <1>2, <1>3, <1>5, HeadTailProperties, LenProperties DEF Reach
  <2> QED BY <1>5, <2>1 DEF Reach, LessIsLeft
<1>6. CASE DriveOn(in)
  <2>1. remaining' = remaining /\ AttemptsLeft' = AttemptsLeft
    BY <1>6 DEF DriveOn, AttemptsLeft
  <2>2. CASE behavior # "none"
    <3>1. Stage' < Stage
      BY <2>2 DEF Stage
    <3> QED BY <2>1, <3>1 DEF LessIsLeft
  <2>3. CASE behavior = "none"
    <3>1. Stage' = Stage
      BY <2>3 DEF Stage
    <3>2. CASE active # NoWaypoint
      <4>1. active' = active /\ activeAge' = AgedTimer(in)
        BY <1>1, <1>6, <2>3, <3>2 DEF DriveOn, Target, Timer, UnderWay
      <4>2. /\ activeAge \in Nat /\ activeAge # NoTimer /\ Timeout[active] \in Nat
            /\ in.gap \in Nat /\ in.gap > 0
        BY <3>2, MissionAssumption DEF IInv, TypeOK, TimerInv, Calm
      <4>3. ~(AgedTimer(in) >= Timeout[active])
        BY <2>3, <3>2, <4>2 DEF WaypointTimedOut
      <4>4. AgedTimer(in) = activeAge + in.gap
        BY <3>2, <4>2, <4>3 DEF AgedTimer, Capped
      <4>5. TimeLeft' < TimeLeft
        BY <2>3, <3>2, <4>1, <4>2, <4>4 DEF TimeLeft
      <4> QED BY <2>1, <3>1, <4>5 DEF LessIsLeft
    <3>3. CASE active = NoWaypoint
      <4>1. Target(in) # NoWaypoint /\ remaining # <<>> /\ Target(in) = Head(remaining)
        BY <1>2, <1>6 DEF DriveOn
      <4>2. active' = Head(remaining) /\ active' # NoWaypoint /\ activeAge' = 0
        BY <1>6, <3>3, <4>1 DEF DriveOn, Begin
      <4>3. Timeout[Head(remaining)] \in Nat
        BY <1>2, <4>1, MissionAssumption
      <4>4. TimeLeft' < TimeLeft
        BY <2>1, <2>3, <3>3, <4>1, <4>2, <4>3 DEF TimeLeft
      <4> QED BY <2>1, <3>1, <4>4 DEF LessIsLeft
    <3> QED BY <3>2, <3>3
  <2> QED BY <2>2, <2>3
<1> QED BY <1>4, <1>5, <1>6 DEF Tick, Rest, FinishAbort, Recover, UnderWay

LEMMA CalmTickCounts ==
  ASSUME NEW in \in MissionInputs, IInv, BehaviorTimed, mission \in Unsettled,
         Calm(in), Tick(in)
  PROVE  mission' \notin Unsettled \/ LessIsLeft
<1>1. Commanded(in) = mission
  BY DEF Calm, Commanded
<1>2. CASE mission = "ABORTING"
  <2>1. Determined(in) = "ABORTED"
    BY <1>1, <1>2 DEF Determined, Moved, AllowedMissionTransitions, UnderWay
  <2> QED BY <1>2, <2>1 DEF Tick, Rest, FinishAbort, Recover, DriveOn, Reach, Complete,
                            UnderWay, Unsettled
<1>3. CASE mission \in UnderWay
  <2>1. CalmPolicy(in)
    BY <1>3, PolicyOnCalm
  <2>2. behavior' \in Behavior
    BY <2>1 DEF CalmPolicy, Behavior
  <2>3. decision' = "CLEAR" => behavior' = "none"
    BY <2>1 DEF CalmPolicy
  <2>4. /\ behavior' = "MISSION_ABORT" => Determined(in) = "ABORTING"
        /\ behavior' = "BACKUP_AND_RETRY" => Determined(in) = "RECOVERY"
        /\ behavior' = "none" =>
             Determined(in) = IF decision' = "CLEAR" THEN "ACTIVE" ELSE mission
    BY <1>1, <1>3, <2>2, <2>3, UnderWayFollows
  <2>5. behavior = "none" => mission = "ACTIVE"
    BY <1>3 DEF UnderWay, IInv, RecoveryInv
  <2>6. CASE /\ behavior = "none" /\ behavior' = "none" /\ decision' = "CONTINUE"
             /\ ~WaypointTimedOut(in) /\ attempts' = attempts
    BY <1>3, <2>4, <2>5, <2>6, DrivingCounts
  <2>7. CASE /\ behavior # "none" /\ behavior' = "none" /\ decision' = "CLEAR"
             /\ attempts' = attempts
    BY <1>3, <2>4, <2>7, DrivingCounts
  <2>8. CASE /\ behavior = "BACKUP_AND_RETRY" /\ behavior' = "BACKUP_AND_RETRY"
             /\ attempts' = attempts /\ behaviorAge' > behaviorAge
    <3>1. remaining' = remaining
      BY <2>4, <2>8 DEF Tick, Rest, FinishAbort, Recover, DriveOn, Reach, Complete
    <3>2. AttemptsLeft' = AttemptsLeft /\ Stage' = Stage
      BY <2>8, <3>1 DEF AttemptsLeft, Stage
    <3>3. /\ behaviorAge \in Int /\ behaviorAge' \in Int /\ BackupDuration \in Int
      <4>1. IInv'
        BY StepTyped DEF Next
      <4> QED BY <4>1, PolicyAssumption DEF IInv, TypeOK, PolicyTypeOK, NoTimer
    <3>4. /\ TimeLeft = BackupDuration - behaviorAge
          /\ TimeLeft' = BackupDuration - behaviorAge'
      BY <2>8 DEF TimeLeft
    <3>5. BackupDuration - behaviorAge' < BackupDuration - behaviorAge
      <4> DEFINE old == behaviorAge
                 new == behaviorAge'
      <4>1. old \in Int /\ new \in Int /\ BackupDuration \in Int /\ new > old
        BY <2>8, <3>3
      <4> HIDE DEF old, new
      <4>2. BackupDuration - new < BackupDuration - old
        BY <4>1
      <4> QED BY <4>2 DEF old, new
    <3>6. TimeLeft' < TimeLeft
      BY <3>4, <3>5, Zenon
    <3> QED BY <3>1, <3>2, <3>6 DEF LessIsLeft
  <2>9. CASE /\ active # NoWaypoint /\ attempts' = [attempts EXCEPT ![active] = @ + 1]
             /\ behavior' \in {"BACKUP_AND_RETRY", "MISSION_ABORT"}
    <3>1. remaining' = remaining
      BY <2>4, <2>9 DEF Tick, Rest, FinishAbort, Recover, DriveOn, Reach, Complete, UnderWay
    <3>2. remaining # <<>> /\ active = Head(remaining) /\ active \in Waypoint
      BY <1>3, <2>9 DEF IInv, TypeOK, QueueInv, UnderWay
    <3>3. /\ attempts \in [Waypoint -> 0 .. MaxAttempts + 1] /\ MaxAttempts \in Nat
      BY PolicyAssumption DEF IInv, TypeOK, PolicyTypeOK
    <3>4. attempts'[active] = attempts[active] + 1 /\ attempts[active] \in Nat
      BY <2>9, <3>2, <3>3
    <3>5. AttemptsLeft' < AttemptsLeft
      BY <3>1, <3>2, <3>3, <3>4 DEF AttemptsLeft
    <3> QED BY <3>1, <3>5 DEF LessIsLeft
  <2> QED BY <2>1, <2>6, <2>7, <2>8, <2>9 DEF CalmPolicy
<1> QED BY <1>2, <1>3 DEF Unsettled

\* Every calm tick brings a mission under way nearer to its end: in the
\* lexicographic order of what it has left, all of it natural numbers, each one
\* leaves less, until the mission is settled; and no calm tick unsettles a
\* mission that is idle, paused or over (orchestrator.py evaluate; recovery.py,
\* the budget and the timers).
THEOREM CalmTicksCount ==
  Spec =>
    /\ [](/\ Len(remaining) \in Nat /\ AttemptsLeft \in Nat
          /\ Stage \in Nat /\ TimeLeft \in Nat)
    /\ [][(\E in \in MissionInputs : Calm(in) /\ Tick(in)) =>
            /\ mission \in Unsettled => mission' \notin Unsettled \/ LessIsLeft
            /\ mission \in {"IDLE", "PAUSED", "ABORTED", "COMPLETE"} => mission' = mission
            /\ mission' = "PREPARING" => mission = "PREPARING"]_vars
<1>1. Init => BehaviorTimed
  BY DEF Init, PolicyInit, BehaviorTimed
<1>2. IInv /\ BehaviorTimed /\ [Next]_vars => BehaviorTimed'
  BY BehaviorTimedStep
<1>3. ASSUME NEW in \in MissionInputs, IInv, BehaviorTimed, Calm(in), Tick(in)
      PROVE  /\ mission \in Unsettled => mission' \notin Unsettled \/ LessIsLeft
             /\ mission \in {"IDLE", "PAUSED", "ABORTED", "COMPLETE"} => mission' = mission
             /\ mission' = "PREPARING" => mission = "PREPARING"
  <2>1. mission \in Unsettled => mission' \notin Unsettled \/ LessIsLeft
    BY <1>3, CalmTickCounts
  <2>2. Commanded(in) = mission
    BY <1>3 DEF Calm, Commanded
  <2>3. mission \in {"IDLE", "PAUSED", "ABORTED", "COMPLETE"} => Determined(in) = mission
    BY <2>2 DEF Determined, UnderWay
  <2>4. mission \in {"IDLE", "PAUSED", "ABORTED", "COMPLETE"} => mission' = mission
    BY <1>3, <2>3, TickLands
  <2>5. Determined(in) = "PREPARING" => mission \in {"IDLE", "PREPARING"}
    BY <1>3, TickFacts DEF Tick, TickSummary
  <2>6. mission' = "PREPARING" => Determined(in) = "PREPARING"
    BY <1>3, TickLands
  <2> QED BY <2>1, <2>4, <2>5, <2>6
<1>4. IInv /\ BehaviorTimed /\ [Next]_vars =>
        [(\E in \in MissionInputs : Calm(in) /\ Tick(in)) =>
            /\ mission \in Unsettled => mission' \notin Unsettled \/ LessIsLeft
            /\ mission \in {"IDLE", "PAUSED", "ABORTED", "COMPLETE"} => mission' = mission
            /\ mission' = "PREPARING" => mission = "PREPARING"]_vars
  BY <1>3
<1>5. IInv => /\ Len(remaining) \in Nat /\ AttemptsLeft \in Nat
              /\ Stage \in Nat /\ TimeLeft \in Nat
  BY LeftIsNatural
<1> QED BY <1>1, <1>2, <1>4, <1>5, InvariantHolds, PTL DEF Spec
=============================================================================
