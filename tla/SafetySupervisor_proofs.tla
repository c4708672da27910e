----------------------- MODULE SafetySupervisor_proofs -----------------------
(***************************************************************************)
(* Proofs about the safety supervisor, for every set of streams, every     *)
(* weight, limit, deadline and warm-up time, and every set of inputs.      *)
(***************************************************************************)
EXTENDS SafetySupervisor, TLAPS

-----------------------------------------------------------------------------
(***************************************************************************)
(* The pure parts: clamping, arbitration, the transition table.            *)
(***************************************************************************)
\* Clamping brings any velocity within its limit (arbitration.py:218).
LEMMA ClampBounds ==
  ASSUME NEW v \in Int, NEW max \in Nat
  PROVE  Clamp(v, max) \in -max .. max
BY DEF Clamp

\* What arbitration returns, in every state and for every request: a command
\* within the limits of the state, zero under an E-stop, and non-zero only for
\* a live request with confidence.
LEMMA ArbitrateSafe ==
  ASSUME NEW request \in Request, NEW s \in SafetyState,
         NEW estop \in BOOLEAN, NEW low \in BOOLEAN
  PROVE  LET command == Arbitrate(request, s, estop, low)
         IN  /\ command \in AuthorizedCommand
             /\ WithinLimits(command, s)
             /\ command.decision \in Rejection => IsZero(command)
             /\ ~IsZero(command) =>
                  s \in ActiveState /\ ~estop /\ ~low /\ request.kind = "live"
<1> DEFINE command == Arbitrate(request, s, estop, low)
<1>1. CASE /\ s \in ActiveState /\ ~estop /\ ~low /\ request.kind = "live"
  <2>1. /\ request.linear \in Int /\ request.angular \in Int
        /\ LinearMax[s] \in Nat /\ AngularMax[s] \in Nat
    BY <1>1, LimitsAssumption DEF Request
  <2>2. /\ Clamp(request.linear, LinearMax[s]) \in -LinearMax[s] .. LinearMax[s]
        /\ Clamp(request.angular, AngularMax[s]) \in -AngularMax[s] .. AngularMax[s]
    BY <2>1, ClampBounds
  <2>3. /\ command.decision \in {"AUTHORIZED_CLAMPED", "AUTHORIZED"}
        /\ command.linear = Clamp(request.linear, LinearMax[s])
        /\ command.angular = Clamp(request.angular, AngularMax[s])
        /\ command = [decision |-> command.decision, linear |-> command.linear,
                      angular |-> command.angular]
    BY <1>1 DEF Arbitrate
  <2>4. command \in AuthorizedCommand
    <3>1. command.linear \in Int /\ command.angular \in Int
      BY <2>1, <2>2, <2>3
    <3> HIDE DEF command
    <3> QED BY <3>1, <2>3 DEF AuthorizedCommand, Decision
  <2>5. WithinLimits(command, s)
    BY <1>1, <2>2, <2>3 DEF WithinLimits
  <2>6. command.decision \notin Rejection
    BY <2>3 DEF Rejection
  <2> QED BY <1>1, <2>4, <2>5, <2>6
<1>2. CASE ~(s \in ActiveState /\ ~estop /\ ~low /\ request.kind = "live")
  <2>1. \E d \in Decision : command = Zero(d)
    BY <1>2 DEF Arbitrate, Request, RequestKind, Decision
  <2>2. command \in AuthorizedCommand /\ IsZero(command)
    BY <2>1 DEF Zero, IsZero, AuthorizedCommand
  <2>3. WithinLimits(command, s)
    <3>1. s \in ActiveState => LinearMax[s] \in Nat /\ AngularMax[s] \in Nat
      BY LimitsAssumption
    <3>2. command.linear = 0 /\ command.angular = 0
      BY <2>2 DEF IsZero
    <3> HIDE DEF command
    <3> QED BY <2>2, <3>1, <3>2 DEF WithinLimits
  <2> QED BY <2>2, <2>3
<1> QED BY <1>1, <1>2

\* The entries of the transition table that the proofs rely on.
LEMMA TableFacts ==
  /\ \A s \in SafetyState \ {"RECOVERY"} : TransitionAllowed(s, "E_STOP_LATCHED")
  /\ ~TransitionAllowed("RECOVERY", "E_STOP_LATCHED")
  /\ \A s \in SafetyState \ {"E_STOP_LATCHED"} : TransitionAllowed(s, "SAFE_STOP")
  /\ TransitionAllowed("SAFE_STOP", "RECOVERY")
  /\ TransitionAllowed("E_STOP_LATCHED", "RECOVERY")
  /\ TransitionAllowed("SAFE_STOP", "ACTIVE_NORMAL")
  /\ TransitionAllowed("INACTIVE", "ACTIVE_NORMAL")
  /\ ~TransitionAllowed("BOOT", "ACTIVE_NORMAL")
  /\ \A t \in {"ACTIVE_NORMAL", "ACTIVE_RESTRICTED"} :
       ~TransitionAllowed("ACTIVE_DEGRADED", t)
  /\ \A s \in {"ACTIVE_NORMAL", "ACTIVE_RESTRICTED"}, t \in ActiveState :
       TransitionAllowed(s, t)
BY DEF TransitionAllowed, AllowedTransitions, SafetyState, ActiveState, ZeroMotionState

-----------------------------------------------------------------------------
(***************************************************************************)
(* Types.                                                                  *)
(***************************************************************************)
\* The inputs of an evaluation that is due have the types of the parameters.
LEMMA InputsTyped ==
  ASSUME TypeOK, Due
  PROVE  /\ inputs \in SupervisorInputs
         /\ inputs.frame \in Frame
         /\ inputs.request \in Request
         /\ inputs.gap \in Nat
         /\ inputs.heartbeat \in BOOLEAN
<1>1. inputs \in SupervisorInputs
  BY DEF TypeOK, Due
<1> QED BY <1>1, SupervisorAssumption DEF SupervisorInputs

\* Petting and aging a watchdog keeps its age at most one past its deadline.
LEMMA PetAgeBounds ==
  ASSUME TypeOK, Due, NEW w \in Watchdog
  PROVE  PetAge(w) \in Nat /\ PetAge(w) <= Deadline[w] + 1
<1>1. inputs.gap \in Nat
  BY InputsTyped
<1>2. sincePet[w] \in Nat /\ Deadline[w] \in Nat
  BY SupervisorAssumption DEF TypeOK
<1> QED BY <1>1, <1>2 DEF PetAge, Saturate

\* The recovery clock runs up to the warm-up time, and only once it started.
LEMMA RecoveryAgeBounds ==
  ASSUME TypeOK, Due
  PROVE  /\ RecoveryElapsed \in 0 .. WarmUp
         /\ AgeRecovery =>
              /\ recoveryAge' \in {NeverEntered} \cup 0 .. WarmUp
              /\ recoveryAge' = NeverEntered <=> recoveryAge = NeverEntered
<1>1. inputs.gap \in Nat /\ WarmUp \in Nat
  BY InputsTyped, SupervisorAssumption
<1>2. recoveryAge \in {NeverEntered} \cup 0 .. WarmUp
  BY DEF TypeOK
<1>3. RecoveryElapsed \in 0 .. WarmUp
  BY <1>1, <1>2 DEF RecoveryElapsed, Saturate, NeverEntered
<1> QED BY <1>1, <1>2, <1>3 DEF AgeRecovery, NeverEntered

\* What every evaluation establishes, whichever branch it took.
LEMMA ConcludeFacts ==
  ASSUME TypeOK, Due, NEW target \in SafetyState, Conclude(target),
         estopLatched' \in BOOLEAN
  PROVE  /\ state' = IF TransitionAllowed(state, target) THEN target ELSE state
         /\ state' \in SafetyState
         /\ resetArmedPrev' \in BOOLEAN
         /\ sincePet' \in [Watchdog -> Nat]
         /\ \A w \in Watchdog : sincePet'[w] <= Deadline[w] + 1
         /\ inputs' = NoInputs
         /\ authorized' \in AuthorizedCommand
         /\ authorized'.decision \in Rejection => IsZero(authorized')
         /\ WithinLimits(authorized', state')
         /\ ~IsZero(authorized') =>
              /\ state' \in ActiveState
              /\ ~Pulsed("estop") /\ ~estopLatched'
              /\ ~LowConfidence(inputs.frame)
              /\ inputs.request.kind = "live"
<1>1. state' = IF TransitionAllowed(state, target) THEN target ELSE state
  BY DEF Conclude
<1>2. state' \in SafetyState
  BY <1>1 DEF TypeOK
<1>3. /\ sincePet' \in [Watchdog -> Nat]
      /\ \A w \in Watchdog : sincePet'[w] <= Deadline[w] + 1
  BY PetAgeBounds DEF Conclude
<1>4. resetArmedPrev' \in BOOLEAN /\ inputs' = NoInputs
  BY DEF Conclude, Pulsed
<1> DEFINE estop == Pulsed("estop") \/ estopLatched'
           low   == LowConfidence(inputs.frame)
<1>5. estop \in BOOLEAN /\ low \in BOOLEAN
  BY DEF Pulsed, LowConfidence
<1>6. authorized' = Arbitrate(inputs.request, state', estop, low)
  BY DEF Conclude
<1>7. inputs.request \in Request
  BY InputsTyped
<1> HIDE DEF estop, low
<1>8. /\ authorized' \in AuthorizedCommand
      /\ authorized'.decision \in Rejection => IsZero(authorized')
      /\ WithinLimits(authorized', state')
      /\ ~IsZero(authorized') =>
           state' \in ActiveState /\ ~estop /\ ~low /\ inputs.request.kind = "live"
  BY <1>2, <1>5, <1>6, <1>7, ArbitrateSafe
<1> QED BY <1>1, <1>2, <1>3, <1>4, <1>8 DEF estop, low

\* Every branch of evaluate concludes with a state of the enum as its target,
\* and leaves the latch, the validation and the recovery clock well typed.
LEMMA EvaluateConcludes ==
  ASSUME TypeOK, Evaluate
  PROVE  /\ Due
         /\ estopLatched' \in BOOLEAN
         /\ recoveryValidated' \in BOOLEAN
         /\ recoveryAge' \in {NeverEntered} \cup 0 .. WarmUp
         /\ \E target \in SafetyState : Conclude(target)
<1> USE DEF SafetyState, ActiveState, ZeroMotionState
<1>1. /\ estopLatched \in BOOLEAN
      /\ recoveryValidated \in BOOLEAN
      /\ 0 \in 0 .. WarmUp
  BY SupervisorAssumption DEF TypeOK
<1>2. Due
  BY DEF Evaluate, AssertEStop, HoldEStop, RefuseReset, AcceptReset, LatchHolds,
         StopOnWatchdog, StopOnContact, StopOnFreshness, BeginRecovery,
         ValidateRecovery, ContinueRecovery, Promote, HoldSafeStop, Activate,
         CompleteBoot, StayActive, NothingStops, Unlatched
<1>3. AgeRecovery => recoveryAge' \in {NeverEntered} \cup 0 .. WarmUp
  BY <1>2, RecoveryAgeBounds
<1>4. CASE AssertEStop
  BY <1>1, <1>2, <1>3, <1>4 DEF AssertEStop
<1>5. CASE HoldEStop \/ RefuseReset
  BY <1>1, <1>2, <1>3, <1>5 DEF HoldEStop, RefuseReset
<1>6. CASE AcceptReset
  BY <1>1, <1>2, <1>6 DEF AcceptReset
<1>7. CASE StopOnWatchdog \/ StopOnContact \/ StopOnFreshness
  BY <1>1, <1>2, <1>3, <1>7 DEF StopOnWatchdog, StopOnContact, StopOnFreshness
<1>8. CASE BeginRecovery
  BY <1>1, <1>2, <1>8 DEF BeginRecovery
<1>9. CASE ValidateRecovery \/ ContinueRecovery
  BY <1>1, <1>2, <1>3, <1>9 DEF ValidateRecovery, ContinueRecovery
<1>10. CASE Promote \/ HoldSafeStop
  BY <1>1, <1>2, <1>3, <1>10 DEF Promote, HoldSafeStop
<1>11. CASE Activate \/ CompleteBoot
  BY <1>1, <1>2, <1>3, <1>11 DEF Activate, CompleteBoot
<1>12. CASE StayActive
  <2>1. ChosenActiveState \in SafetyState
    BY DEF ChosenActiveState
  <2> QED BY <1>1, <1>2, <1>3, <1>12, <2>1 DEF StayActive
<1> QED BY <1>4, <1>5, <1>6, <1>7, <1>8, <1>9, <1>10, <1>11, <1>12 DEF Evaluate

LEMMA InitTyped == Init => TypeOK
<1>1. ASSUME Init PROVE TypeOK
  <2>1. \A w \in Watchdog : Deadline[w] \in Nat
    BY SupervisorAssumption
  <2>2. authorized \in AuthorizedCommand /\ IsZero(authorized)
    BY <1>1 DEF Init, Zero, AuthorizedCommand, Decision, IsZero
  <2>3. /\ sincePet \in [Watchdog -> Nat]
        /\ \A w \in Watchdog : sincePet[w] <= Deadline[w] + 1
    BY <1>1, <2>1 DEF Init
  <2>4. state \in SafetyState
    BY <1>1 DEF Init, SafetyState, ZeroMotionState
  <2> QED BY <1>1, <2>2, <2>3, <2>4 DEF Init, TypeOK
<1> QED BY <1>1

LEMMA StepTyped ==
  ASSUME TypeOK, [Next]_vars
  PROVE  TypeOK'
<1>1. CASE Present
  BY <1>1 DEF Present, TypeOK
<1>2. CASE Evaluate
  <2>1. PICK target \in SafetyState : Conclude(target)
    BY <1>2, EvaluateConcludes
  <2> QED BY <1>2, <2>1, EvaluateConcludes, ConcludeFacts DEF TypeOK
<1>3. CASE UNCHANGED vars
  BY <1>3 DEF vars, TypeOK
<1> QED BY <1>1, <1>2, <1>3 DEF Next

\* Every reachable state of the supervisor is well typed; in particular a rejected
\* command is a zero, and no watchdog age and no recovery age leaves its range.
THEOREM TypeCorrect == Spec => []TypeOK
BY InitTyped, StepTyped, PTL DEF Spec

-----------------------------------------------------------------------------
(***************************************************************************)
(* The latch and the safety state.                                         *)
(***************************************************************************)
LEMMA LatchStep ==
  ASSUME TypeOK, LatchInv, [Next]_vars
  PROVE  LatchInv'
<1>1. CASE Present \/ UNCHANGED vars
  BY <1>1 DEF Present, vars, LatchInv
<1>2. CASE AssertEStop
  BY <1>2, TableFacts DEF AssertEStop, Conclude, LatchInv, TypeOK
<1>3. CASE HoldEStop \/ RefuseReset
  BY <1>3 DEF HoldEStop, RefuseReset, LatchHolds, Conclude, LatchInv
<1>4. CASE AcceptReset
  BY <1>4, TableFacts DEF AcceptReset, LatchHolds, Conclude, LatchInv, TransitionAllowed
<1>5. CASE StopOnWatchdog \/ StopOnContact \/ StopOnFreshness
  BY <1>5 DEF StopOnWatchdog, StopOnContact, StopOnFreshness, Unlatched, Conclude,
              LatchInv
<1>6. CASE BeginRecovery \/ ValidateRecovery \/ ContinueRecovery
  BY <1>6 DEF BeginRecovery, ValidateRecovery, ContinueRecovery, NothingStops,
              Unlatched, Conclude, LatchInv
<1>7. CASE Promote \/ HoldSafeStop
  BY <1>7 DEF Promote, HoldSafeStop, NothingStops, Unlatched, Conclude, LatchInv
<1>8. CASE Activate \/ CompleteBoot
  BY <1>8 DEF Activate, CompleteBoot, NothingStops, Unlatched, Conclude, LatchInv
<1>9. CASE StayActive
  <2>1. ChosenActiveState # "E_STOP_LATCHED"
    BY DEF ChosenActiveState
  <2> QED BY <1>9, <2>1 DEF StayActive, NothingStops, Unlatched, Conclude, LatchInv
<1> QED BY <1>1, <1>2, <1>3, <1>4, <1>5, <1>6, <1>7, <1>8, <1>9 DEF Next, Evaluate

\* The latch is set exactly in E_STOP_LATCHED and, after an E-stop during a
\* recovery, in RECOVERY.
THEOREM LatchCorrect == Spec => []LatchInv
<1>1. Init => LatchInv
  BY DEF Init, LatchInv
<1> QED BY <1>1, LatchStep, TypeCorrect, PTL DEF Spec

-----------------------------------------------------------------------------
(***************************************************************************)
(* The pending validation.                                                 *)
(***************************************************************************)
\* A pending validation survives a tick only where the rover is still held.
LEMMA ValidationStep ==
  ASSUME TypeOK, LatchInv, ValidationInv, [Next]_vars
  PROVE  ValidationInv'
<1>1. Due /\ AgeRecovery => (recoveryAge' = NeverEntered <=> recoveryAge = NeverEntered)
  BY RecoveryAgeBounds
<1>2. CASE Present \/ UNCHANGED vars
  BY <1>2 DEF Present, vars, ValidationInv
<1>3. CASE AssertEStop
  BY <1>1, <1>3, TableFacts DEF AssertEStop, Conclude, ValidationInv
<1>4. CASE AcceptReset
  BY <1>4 DEF AcceptReset, ValidationInv, NeverEntered
<1>5. CASE HoldEStop \/ RefuseReset
  BY <1>1, <1>5 DEF HoldEStop, RefuseReset, LatchHolds, Conclude, ValidationInv
<1>6. CASE StopOnWatchdog \/ StopOnContact \/ StopOnFreshness
  <2>1. state # "E_STOP_LATCHED"
    BY <1>6 DEF StopOnWatchdog, StopOnContact, StopOnFreshness, Unlatched, LatchInv
  <2>2. state' = "SAFE_STOP"
    BY <1>6, <2>1, TableFacts DEF StopOnWatchdog, StopOnContact, StopOnFreshness,
       Conclude, TypeOK
  <2> QED BY <1>1, <1>6, <2>2 DEF StopOnWatchdog, StopOnContact, StopOnFreshness,
             Unlatched, ValidationInv
<1>7. CASE BeginRecovery
  BY <1>7, TableFacts DEF BeginRecovery, NothingStops, Unlatched, Conclude,
              ValidationInv, NeverEntered
<1>8. CASE ValidateRecovery \/ ContinueRecovery
  BY <1>1, <1>8 DEF ValidateRecovery, ContinueRecovery, NothingStops, Unlatched,
                    Conclude, ValidationInv
<1>9. CASE Promote \/ HoldSafeStop
  BY <1>1, <1>9 DEF Promote, HoldSafeStop, NothingStops, Unlatched, Conclude,
                    ValidationInv
<1>10. CASE Activate \/ CompleteBoot
  BY <1>1, <1>10 DEF Activate, CompleteBoot, NothingStops, Unlatched, Conclude,
                    ValidationInv
<1>11. CASE StayActive
  <2>1. ChosenActiveState # "RECOVERY" /\ state \notin {"SAFE_STOP", "RECOVERY"}
    BY <1>11 DEF StayActive, ChosenActiveState, ActiveState
  <2> QED BY <1>11, <2>1 DEF StayActive, NothingStops, Unlatched, Conclude,
             ValidationInv
<1> QED BY <1>2, <1>3, <1>4, <1>5, <1>6, <1>7, <1>8, <1>9, <1>10, <1>11
        DEF Next, Evaluate

\* A validation is pending only while the rover is held and unlatched, and a
\* recovery always has a start time.
THEOREM ValidationCorrect == Spec => []ValidationInv
<1>1. Init => ValidationInv
  BY DEF Init, ValidationInv
<1> QED BY <1>1, ValidationStep, LatchCorrect, TypeCorrect, PTL DEF Spec

-----------------------------------------------------------------------------
(***************************************************************************)
(* Motion.                                                                 *)
(***************************************************************************)
LEMMA MotionStep ==
  ASSUME TypeOK, LatchInv, MotionInv, [Next]_vars
  PROVE  MotionInv'
<1>1. CASE Present \/ UNCHANGED vars
  BY <1>1 DEF Present, vars, MotionInv
<1>2. CASE Evaluate
  <2>1. PICK target \in SafetyState : Conclude(target)
    BY <1>2, EvaluateConcludes
  <2>2. /\ WithinLimits(authorized', state')
        /\ ~IsZero(authorized') => ~estopLatched'
    BY <1>2, <2>1, EvaluateConcludes, ConcludeFacts
  <2> QED BY <2>2 DEF MotionInv, WithinLimits, IsZero
<1> QED BY <1>1, <1>2 DEF Next

\* The authorized command is always within the limits of the current state,
\* and zero while the latch is set.
THEOREM MotionCorrect == Spec => []MotionInv
<1>1. Init => MotionInv
  BY DEF Init, MotionInv, WithinLimits, ActiveState, IsZero, Zero
<1> QED BY <1>1, MotionStep, LatchCorrect, TypeCorrect, PTL DEF Spec

\* A tick that authorizes motion is a tick on which nothing stopped the rover.
LEMMA MotionMeansNothingStops ==
  ASSUME TypeOK, LatchInv, Evaluate, ~IsZero(authorized')
  PROVE  /\ NothingStops
         /\ ~LowConfidence(inputs.frame)
         /\ inputs.request.kind = "live"
<1>1. PICK target \in SafetyState : Conclude(target)
  BY EvaluateConcludes
<1>2. /\ state' \in ActiveState
      /\ ~Pulsed("estop") /\ ~estopLatched'
      /\ ~LowConfidence(inputs.frame)
      /\ inputs.request.kind = "live"
  BY <1>1, EvaluateConcludes, ConcludeFacts
<1>3. ~AssertEStop /\ ~HoldEStop /\ ~RefuseReset
  BY <1>2 DEF AssertEStop, HoldEStop, RefuseReset, LatchHolds
<1>4. ~AcceptReset
  BY <1>2, TableFacts DEF AcceptReset, LatchHolds, LatchInv, Conclude,
     TransitionAllowed, ActiveState
<1>5. ~StopOnWatchdog /\ ~StopOnContact /\ ~StopOnFreshness
  BY <1>2, TableFacts DEF StopOnWatchdog, StopOnContact, StopOnFreshness,
     Unlatched, LatchInv, Conclude, TypeOK, ActiveState
<1> QED BY <1>2, <1>3, <1>4, <1>5 DEF Evaluate, BeginRecovery, ValidateRecovery,
           ContinueRecovery, Promote, HoldSafeStop, Activate, CompleteBoot, StayActive

\* An evaluation takes the inputs; presenting them and stuttering do not.
LEMMA OnlyEvaluateTakesInputs ==
  ASSUME Evaluated, [Next]_vars
  PROVE  Evaluate
<1>1. ~Present /\ ~UNCHANGED vars
  BY DEF Evaluated, Present, vars
<1> QED BY <1>1 DEF Next

\* A tick that authorizes motion saw sound inputs.
LEMMA SoundInputsStep ==
  ASSUME TypeOK, LatchInv, [Next]_vars, Evaluated, ~IsZero(authorized')
  PROVE  /\ ~Pulsed("estop")
         /\ ~inputs.frame.contact
         /\ InputsUsable(inputs.frame)
         /\ inputs.request.kind = "live"
         /\ ~LowConfidence(inputs.frame)
BY OnlyEvaluateTakesInputs, MotionMeansNothingStops DEF NothingStops, Unlatched

\* Motion is authorized only on a tick whose own inputs are sound: no E-stop,
\* no contact, nothing stale or missing, a live request and enough confidence.
THEOREM MotionFromSoundInputs == Spec => MotionNeedsSoundInputs
<1>1. ASSUME TypeOK, LatchInv, [Next]_vars, Evaluated, ~IsZero(authorized')
      PROVE  /\ ~Pulsed("estop")
             /\ ~inputs.frame.contact
             /\ InputsUsable(inputs.frame)
             /\ inputs.request.kind = "live"
             /\ ~LowConfidence(inputs.frame)
  BY <1>1, SoundInputsStep
<1> QED BY <1>1, LatchCorrect, TypeCorrect, PTL DEF Spec, MotionNeedsSoundInputs

\* The age the registry compares tells an overdue watchdog from one in time, though
\* it saturates one past the deadline.
LEMMA OverdueExpires ==
  ASSUME TypeOK, Due
  PROVE  Overdue = Expired
<1>1. ASSUME NEW w \in Watchdog
      PROVE  ~Petted(w) /\ sincePet[w] + inputs.gap > Deadline[w] <=> PetAge(w) > Deadline[w]
  <2>1. sincePet[w] \in Nat /\ inputs.gap \in Nat /\ Deadline[w] \in Nat
    BY InputsTyped, SupervisorAssumption DEF TypeOK
  <2> QED BY <2>1 DEF PetAge, Saturate
<1> QED BY <1>1 DEF Overdue, Expired

\* A tick with an expired watchdog is active only after a promotion.
LEMMA ExpiredStep ==
  ASSUME TypeOK, LatchInv, [Next]_vars, Evaluated, Expired # {},
         state' \in ActiveState
  PROVE  state = "SAFE_STOP" /\ recoveryValidated
<1>1. Evaluate
  BY OnlyEvaluateTakesInputs
<1>2. ~AssertEStop /\ ~HoldEStop /\ ~RefuseReset /\ ~AcceptReset
  <2>1. CASE AssertEStop
    BY <2>1, TableFacts DEF AssertEStop, Conclude, TypeOK, ActiveState
  <2>2. CASE HoldEStop \/ RefuseReset \/ AcceptReset
    BY <2>2 DEF HoldEStop, RefuseReset, AcceptReset, LatchHolds, LatchInv,
       Conclude, ActiveState
  <2> QED BY <2>1, <2>2
<1>3. ~StopOnWatchdog /\ ~StopOnContact /\ ~StopOnFreshness
  BY TableFacts DEF StopOnWatchdog, StopOnContact, StopOnFreshness,
     Unlatched, LatchInv, Conclude, TypeOK, ActiveState
<1>4. NothingStops /\ state = "SAFE_STOP"
  BY <1>1, <1>2, <1>3 DEF Evaluate, BeginRecovery, ValidateRecovery,
     ContinueRecovery, Promote, HoldSafeStop, Activate, CompleteBoot, StayActive,
     NothingStops, WatchdogEscalates
<1>5. ~BeginRecovery /\ ~HoldSafeStop
  BY <1>4 DEF BeginRecovery, HoldSafeStop, Conclude, ActiveState
<1> QED BY <1>1, <1>2, <1>3, <1>4, <1>5 DEF Evaluate, ValidateRecovery,
     ContinueRecovery, Promote, Promotable, Activate, CompleteBoot, StayActive,
     ActiveState

\* An active rover is stopped for a reason.
LEMMA StopStep ==
  ASSUME TypeOK, LatchInv, [Next]_vars, Evaluated,
         state \in ActiveState, state' = "SAFE_STOP"
  PROVE  Expired # {} \/ inputs.frame.contact \/ ~InputsUsable(inputs.frame)
<1>1. Evaluate
  BY OnlyEvaluateTakesInputs
<1>2. state \notin {"BOOT", "INACTIVE", "SAFE_STOP", "RECOVERY"} /\ ~estopLatched
  BY DEF ActiveState, LatchInv
<1>3. ~AssertEStop
  BY <1>2, TableFacts DEF AssertEStop, Conclude, TypeOK
<1>4. StopOnWatchdog \/ StopOnContact \/ StopOnFreshness \/ StayActive
  BY <1>1, <1>2, <1>3 DEF Evaluate, HoldEStop, RefuseReset, AcceptReset, LatchHolds,
     BeginRecovery, ValidateRecovery, ContinueRecovery, Promote, Promotable, HoldSafeStop,
     Activate, CompleteBoot
<1>5. ~StayActive
  BY <1>2 DEF StayActive, Conclude, ChosenActiveState
<1> QED BY <1>4, <1>5 DEF StopOnWatchdog, StopOnContact, StopOnFreshness, WatchdogEscalates

LEMMA WatchdogStep ==
  ASSUME TypeOK, LatchInv, [Next]_vars, Evaluated
  PROVE  /\ Overdue # {} /\ state' \in ActiveState => state = "SAFE_STOP" /\ recoveryValidated
         /\ state \in ActiveState /\ state' = "SAFE_STOP" =>
              Overdue # {} \/ inputs.frame.contact \/ ~InputsUsable(inputs.frame)
<1>1. Overdue = Expired
  BY OverdueExpires DEF Evaluated, Due
<1> QED BY <1>1, ExpiredStep, StopStep

\* A tick on which a watchdog is past its deadline ends in an active state only by
\* promoting a validated SAFE_STOP, and a watchdog at its deadline stops nothing.
THEOREM WatchdogStops == Spec => WatchdogStopsMotion
<1>1. ASSUME TypeOK, LatchInv, [Next]_vars, Evaluated
      PROVE  /\ Overdue # {} /\ state' \in ActiveState =>
                  state = "SAFE_STOP" /\ recoveryValidated
             /\ state \in ActiveState /\ state' = "SAFE_STOP" =>
                  Overdue # {} \/ inputs.frame.contact \/ ~InputsUsable(inputs.frame)
  BY <1>1, WatchdogStep
<1> QED BY <1>1, LatchCorrect, TypeCorrect, PTL DEF Spec, WatchdogStopsMotion

\* What a tick that releases the latch saw and did.
LEMMA ReleaseStep ==
  ASSUME TypeOK, LatchInv, [Next]_vars, estopLatched, ~estopLatched'
  PROVE  /\ resetArmedPrev /\ Pulsed("reset") /\ ~Pulsed("estop")
         /\ InputsUsable(inputs.frame) /\ ~inputs.frame.contact
         /\ state' = "RECOVERY" /\ recoveryAge' = 0 /\ ~recoveryValidated'
         /\ IsZero(authorized')
<1>1. AcceptReset
  BY DEF Next, Present, vars, Evaluate, AssertEStop, HoldEStop, RefuseReset,
     StopOnWatchdog, StopOnContact, StopOnFreshness, BeginRecovery,
     ValidateRecovery, ContinueRecovery, Promote, HoldSafeStop, Activate,
     CompleteBoot, StayActive, NothingStops, Unlatched
<1>2. state' = "RECOVERY"
  BY <1>1, TableFacts DEF AcceptReset, LatchInv, Conclude, TransitionAllowed
<1>3. IsZero(authorized')
  <2>1. ~NothingStops
    BY DEF NothingStops, Unlatched
  <2> QED BY <1>1, <2>1, MotionMeansNothingStops DEF Evaluate
<1> QED BY <1>1, <1>2, <1>3 DEF AcceptReset, LatchHolds, ResetUnsafe

\* The latch is released only by an armed reset on usable inputs, into a
\* recovery that starts over.
THEOREM LatchReleaseCorrect == Spec => LatchRelease
<1>1. ASSUME TypeOK, LatchInv, [Next]_vars, estopLatched, ~estopLatched'
      PROVE  /\ resetArmedPrev /\ Pulsed("reset") /\ ~Pulsed("estop")
             /\ InputsUsable(inputs.frame) /\ ~inputs.frame.contact
             /\ state' = "RECOVERY" /\ recoveryAge' = 0 /\ ~recoveryValidated'
             /\ IsZero(authorized')
  BY <1>1, ReleaseStep
<1> QED BY <1>1, LatchCorrect, TypeCorrect, PTL DEF Spec, LatchRelease

-----------------------------------------------------------------------------
(***************************************************************************)
(* Refinement.                                                             *)
(***************************************************************************)
\* Each branch of evaluate is a step of the abstract motion authority, or
\* leaves authority and validation as they are.
LEMMA AuthorityStep ==
  ASSUME TypeOK, LatchInv, ValidationInv, [Next]_vars
  PROVE  [MA!AuthorityNext]_(MA!authorityVars)
<1> USE DEF MA!AuthorityNext, MA!authorityVars, Authority, SafetyState, ActiveState,
            ZeroMotionState
<1>1. CASE Present \/ UNCHANGED vars
  <2>1. UNCHANGED <<state, estopLatched, recoveryValidated>>
    BY <1>1 DEF Present, vars
  <2> QED BY <2>1
<1>2. CASE AssertEStop
  BY <1>2 DEF AssertEStop, MA!Lock
<1>3. CASE HoldEStop \/ RefuseReset
  BY <1>3 DEF HoldEStop, RefuseReset, LatchHolds
<1>4. CASE AcceptReset
  BY <1>4, TableFacts DEF AcceptReset, LatchHolds, LatchInv, Conclude,
     TransitionAllowed, MA!Unlock
<1>5. CASE StopOnWatchdog \/ StopOnContact \/ StopOnFreshness
  <2>1. /\ ~estopLatched /\ ~estopLatched' /\ state # "E_STOP_LATCHED"
        /\ UNCHANGED recoveryValidated
    BY <1>5 DEF StopOnWatchdog, StopOnContact, StopOnFreshness, Unlatched, LatchInv
  <2>2. state' = "SAFE_STOP"
    BY <1>5, <2>1, TableFacts DEF StopOnWatchdog, StopOnContact, StopOnFreshness,
       Conclude, TypeOK
  <2>3. recoveryValidated = FALSE \/ state \in {"SAFE_STOP", "RECOVERY"}
    BY DEF ValidationInv, TypeOK
  <2> QED BY <2>1, <2>2, <2>3 DEF TypeOK, MA!Withdraw
<1>6. CASE BeginRecovery
  BY <1>6, TableFacts DEF BeginRecovery, NothingStops, Unlatched, Conclude
<1>7. CASE ValidateRecovery
  BY <1>7, TableFacts DEF ValidateRecovery, NothingStops, Unlatched, Conclude, MA!Vet
<1>8. CASE ContinueRecovery
  BY <1>8 DEF ContinueRecovery, NothingStops, Unlatched, Conclude
<1>9. CASE Promote
  BY <1>9, TableFacts DEF Promote, Promotable, NothingStops, Unlatched, Conclude,
     MA!Restore
<1>10. CASE HoldSafeStop
  BY <1>10 DEF HoldSafeStop, NothingStops, Unlatched, Conclude
<1>11. CASE Activate
  BY <1>11, TableFacts DEF Activate, NothingStops, Unlatched, Conclude, MA!Grant
<1>12. CASE CompleteBoot
  BY <1>12 DEF CompleteBoot, NothingStops, Unlatched, Conclude
<1>13. CASE StayActive
  <2>1. ~estopLatched /\ ~estopLatched' /\ UNCHANGED recoveryValidated
    BY <1>13 DEF StayActive, NothingStops, Unlatched
  <2>2. CASE state = "ACTIVE_DEGRADED"
    BY <1>13, <2>1, <2>2, TableFacts DEF StayActive, ChosenActiveState, Conclude
  <2>3. CASE state \in {"ACTIVE_NORMAL", "ACTIVE_RESTRICTED"}
    BY <1>13, <2>1, <2>3, TableFacts DEF StayActive, ChosenActiveState, Conclude,
       MA!Reduce
  <2> QED BY <1>13, <2>2, <2>3 DEF StayActive
<1> QED BY <1>1, <1>2, <1>3, <1>4, <1>5, <1>6, <1>7, <1>8, <1>9, <1>10, <1>11,
           <1>12, <1>13 DEF Next, Evaluate

\* The supervisor implements the abstract motion authority: motion lost comes
\* back only through a revalidation made since it was lost.
THEOREM AuthorityImplemented == Spec => ImplementsAuthority
<1>1. Init => MA!AuthorityInit
  BY DEF Init, MA!AuthorityInit, Authority
<1> QED BY <1>1, AuthorityStep, ValidationCorrect, LatchCorrect, TypeCorrect, PTL
        DEF Spec, ImplementsAuthority, MA!AuthoritySpec

\* Whoever calls the supervisor as its specification says, however seldom, is
\* given all of these guarantees.
LEMMA WhateverTheHost ==
  Init /\ [][Next]_vars =>
    /\ [](TypeOK /\ LatchInv /\ ValidationInv /\ MotionInv)
    /\ MotionNeedsSoundInputs /\ WatchdogStopsMotion /\ LatchRelease
    /\ ImplementsAuthority
<1> DEFINE Safe == TypeOK /\ LatchInv /\ ValidationInv /\ MotionInv
<1>1. Init => Safe /\ MA!AuthorityInit
  BY InitTyped DEF Init, LatchInv, ValidationInv, MotionInv, WithinLimits, ActiveState, IsZero,
     Zero, MA!AuthorityInit, Authority
<1>2. Safe /\ [Next]_vars => Safe'
  BY StepTyped, LatchStep, ValidationStep, MotionStep
<1>3. ASSUME Safe, [Next]_vars
      PROVE  Evaluated /\ ~IsZero(authorized') =>
               /\ ~Pulsed("estop")
               /\ ~inputs.frame.contact
               /\ InputsUsable(inputs.frame)
               /\ inputs.request.kind = "live"
               /\ ~LowConfidence(inputs.frame)
  BY <1>3, SoundInputsStep
<1>4. ASSUME Safe, [Next]_vars
      PROVE  Evaluated =>
               /\ Overdue # {} /\ state' \in ActiveState =>
                    state = "SAFE_STOP" /\ recoveryValidated
               /\ state \in ActiveState /\ state' = "SAFE_STOP" =>
                    Overdue # {} \/ inputs.frame.contact \/ ~InputsUsable(inputs.frame)
  BY <1>4, WatchdogStep
<1>5. ASSUME Safe, [Next]_vars
      PROVE  estopLatched /\ ~estopLatched' =>
               /\ resetArmedPrev /\ Pulsed("reset") /\ ~Pulsed("estop")
               /\ InputsUsable(inputs.frame) /\ ~inputs.frame.contact
               /\ state' = "RECOVERY" /\ recoveryAge' = 0 /\ ~recoveryValidated'
               /\ IsZero(authorized')
  BY <1>5, ReleaseStep
<1>6. Safe /\ [Next]_vars => [MA!AuthorityNext]_(MA!authorityVars)
  BY AuthorityStep
<1> HIDE DEF Safe
<1>7. Init /\ [][Next]_vars => []Safe
  BY <1>1, <1>2, PTL
<1>8. Safe => TypeOK /\ LatchInv /\ ValidationInv /\ MotionInv
  BY DEF Safe
<1> QED BY <1>1, <1>3, <1>4, <1>5, <1>6, <1>7, <1>8, PTL
        DEF MotionNeedsSoundInputs, WatchdogStopsMotion, LatchRelease, ImplementsAuthority,
            MA!AuthoritySpec

-----------------------------------------------------------------------------
(***************************************************************************)
(* Coming to rest in a calm environment.                                   *)
(***************************************************************************)
SafeInv == TypeOK /\ LatchInv /\ ValidationInv

\* In a calm tick nothing stops a supervisor that is not latched: the readings
\* it is shown pet every watchdog, and nobody commands anything.
LEMMA CalmFacts ==
  ASSUME TypeOK, Calm, Due
  PROVE  /\ \A p \in Pulse : ~Pulsed(p)
         /\ AllFresh /\ Score(inputs.frame) >= RecoveryScore
         /\ inputs.gap \in Nat \ {0}
         /\ ~estopLatched => NothingStops
<1>1. /\ inputs.pulses = {} /\ inputs.heartbeat /\ inputs.gap > 0
      /\ InputsUsable(inputs.frame) /\ AllFresh /\ ~inputs.frame.contact
      /\ Score(inputs.frame) >= RecoveryScore
  BY DEF Calm, Due
<1>2. inputs.gap \in Nat \ {0} /\ inputs.frame \in Frame
  BY <1>1, InputsTyped
<1>3. \A s \in Stream : inputs.frame.level[s] \in {"fresh", "warn"}
  BY <1>1, <1>2 DEF InputsUsable, AnySafeStop, AnyMissingRequired, Frame, Level
<1>4. \A w \in Watchdog : Petted(w)
  BY <1>1, <1>3 DEF Petted, Watchdog, Stream
<1>5. Expired = {}
  BY <1>4, SupervisorAssumption DEF Expired, PetAge
<1>6. \A p \in Pulse : ~Pulsed(p)
  BY <1>1 DEF Pulsed
<1>7. ~WatchdogEscalates
  BY <1>5 DEF WatchdogEscalates
<1>8. ~estopLatched => NothingStops
  BY <1>1, <1>6, <1>7 DEF NothingStops, Unlatched, Pulse
<1> QED BY <1>1, <1>2, <1>6, <1>8

\* Where a calm supervisor ends up: booted, in no recovery unless the latch holds
\* it there, and with no validation left to spend.
AtRest ==
  /\ state # "BOOT"
  /\ state = "RECOVERY" => estopLatched
  /\ ~recoveryValidated

\* At most k evaluations from rest: one leaves BOOT and one spends a validation,
\* one makes it, and each one before that has warmed up by at least a unit.
Within(k) ==
  \/ AtRest
  \/ k >= 1 /\ (state = "BOOT" \/ (state = "SAFE_STOP" /\ recoveryValidated))
  \/ /\ k >= 2 /\ state = "RECOVERY" /\ ~estopLatched
     /\ WarmUp - recoveryAge <= k - 2

\* Only the four branches without a pulse and without a reason to stop are left,
\* and the latch's own.
LEMMA CalmBranches ==
  ASSUME SafeInv, Calm, Evaluate
  PROVE  \/ HoldEStop \/ ValidateRecovery \/ ContinueRecovery
         \/ Promote \/ HoldSafeStop \/ CompleteBoot \/ StayActive
<1>1. Due
  BY EvaluateConcludes DEF SafeInv
<1>2. /\ \A p \in Pulse : ~Pulsed(p)
      /\ ~estopLatched => NothingStops
  BY <1>1, CalmFacts DEF SafeInv
<1>3. ~AssertEStop /\ ~RefuseReset /\ ~AcceptReset /\ ~BeginRecovery /\ ~Activate
  BY <1>2 DEF Pulse, AssertEStop, RefuseReset, AcceptReset, BeginRecovery, Activate
<1>4. ~StopOnWatchdog /\ ~StopOnContact /\ ~StopOnFreshness
  BY <1>2 DEF StopOnWatchdog, StopOnContact, StopOnFreshness, Unlatched, NothingStops
<1> QED BY <1>3, <1>4 DEF Evaluate

LEMMA CalmEvaluation ==
  ASSUME SafeInv, Calm, Evaluate
  PROVE  /\ estopLatched' = estopLatched
         /\ state = "BOOT" => state' = "INACTIVE" /\ ~recoveryValidated'
         /\ state = "SAFE_STOP" /\ recoveryValidated
              => state' = "ACTIVE_NORMAL" /\ ~recoveryValidated'
         /\ state = "RECOVERY" /\ ~estopLatched
              => \/ state' = "SAFE_STOP" /\ recoveryValidated'
                 \/ /\ state' = "RECOVERY" /\ WarmUp - recoveryAge > 0
                    /\ recoveryAge' >= recoveryAge + 1
         /\ AtRest => AtRest'
<1>1. Due
  BY EvaluateConcludes DEF SafeInv
<1>2. /\ \A p \in Pulse : ~Pulsed(p)
      /\ AllFresh /\ Score(inputs.frame) >= RecoveryScore
      /\ inputs.gap \in Nat \ {0}
      /\ ~estopLatched => NothingStops
  BY <1>1, CalmFacts DEF SafeInv
<1>3. CASE HoldEStop
  <2>1. state' = state /\ estopLatched' /\ recoveryValidated' = recoveryValidated
    BY <1>3, TableFacts DEF HoldEStop, LatchHolds, Conclude, SafeInv, LatchInv, TransitionAllowed
  <2>2. estopLatched /\ state \in {"E_STOP_LATCHED", "RECOVERY"} /\ ~recoveryValidated
    BY <1>3 DEF HoldEStop, LatchHolds, SafeInv, LatchInv, ValidationInv
  <2>3. estopLatched' = estopLatched
    BY <1>3 DEF HoldEStop
  <2>4. ~recoveryValidated' /\ estopLatched'
    BY <2>1, <2>2, Zenon
  <2>5. state' # "BOOT"
    BY <2>1, <2>2
  <2>6. AtRest'
    BY <2>4, <2>5, Zenon DEF AtRest
  <2>7. state # "BOOT" /\ state # "SAFE_STOP"
    BY <2>2
  <2> QED BY <2>2, <2>3, <2>6, <2>7
<1>4. CASE ValidateRecovery
  <2>1. state = "RECOVERY" /\ ~estopLatched /\ recoveryValidated' = TRUE
    BY <1>4 DEF ValidateRecovery, NothingStops, Unlatched
  <2>2. state' = "SAFE_STOP" /\ estopLatched' = estopLatched
    BY <1>4, <2>1, TableFacts DEF ValidateRecovery, Conclude, SafetyState, ZeroMotionState
  <2>3. ~AtRest
    BY <2>1 DEF AtRest
  <2> QED BY <2>1, <2>2, <2>3
<1>5. CASE ContinueRecovery
  <2>1. RecoveryElapsed < WarmUp
    <3>1. RecoveryElapsed \in Nat /\ WarmUp \in Nat
      BY <1>1, RecoveryAgeBounds, SupervisorAssumption DEF SafeInv
    <3> QED BY <1>2, <1>5, <3>1 DEF ContinueRecovery, RecoveryPassed
  <2>2. recoveryAge # NeverEntered /\ recoveryAge \in 0 .. WarmUp
    BY <1>5 DEF ContinueRecovery, SafeInv, ValidationInv, TypeOK
  <2>3. RecoveryElapsed = recoveryAge + inputs.gap
    BY <1>2, <2>1, <2>2, SupervisorAssumption DEF RecoveryElapsed, Saturate
  <2>4. recoveryAge' >= recoveryAge + 1 /\ WarmUp - recoveryAge > 0
    BY <1>2, <1>5, <2>1, <2>2, <2>3, SupervisorAssumption DEF ContinueRecovery, AgeRecovery
  <2>5. state' = "RECOVERY"
    BY <1>5 DEF ContinueRecovery, Conclude
  <2> QED BY <1>5, <2>4, <2>5 DEF ContinueRecovery, NothingStops, Unlatched, AtRest
<1>6. CASE Promote
  BY <1>6, TableFacts DEF Promote, Promotable, NothingStops, Unlatched, Conclude, AtRest
<1>7. CASE HoldSafeStop
  <2>1. ~recoveryValidated
    BY <1>2, <1>7 DEF HoldSafeStop, Promotable
  <2>2. state' = "SAFE_STOP"
    BY <1>7 DEF HoldSafeStop, Conclude
  <2> QED BY <1>7, <2>1, <2>2 DEF HoldSafeStop, NothingStops, Unlatched, AtRest
<1>8. CASE CompleteBoot
  <2>1. ~recoveryValidated
    BY <1>8 DEF CompleteBoot, SafeInv, ValidationInv
  <2>2. state' = "INACTIVE"
    BY <1>8 DEF CompleteBoot, Conclude, TransitionAllowed, AllowedTransitions
  <2> QED BY <1>8, <2>1, <2>2 DEF CompleteBoot, NothingStops, Unlatched, AtRest
<1>9. CASE StayActive
  <2>1. state \in ActiveState /\ ~recoveryValidated
    BY <1>9 DEF StayActive, SafeInv, ValidationInv, ActiveState
  <2>2. state' \in ActiveState
    BY <1>9, <2>1 DEF StayActive, Conclude, ChosenActiveState, ActiveState
  <2> QED BY <1>9, <2>1, <2>2 DEF StayActive, NothingStops, Unlatched, AtRest, ActiveState
<1> QED BY <1>3, <1>4, <1>5, <1>6, <1>7, <1>8, <1>9, CalmBranches

\* What a calm step does to a supervisor that is k evaluations from rest: it
\* stays so until it evaluates, and then it is j away.
Nearer(k, j) ==
  /\ SafeInv /\ Calm /\ Within(k) /\ [Next]_vars => Within(k)'
  /\ SafeInv /\ Calm /\ Within(k) /\ Due /\ <<Next>>_vars => Within(j)'

LEMMA NearerByOne ==
  ASSUME NEW k \in Nat, NEW j \in Nat, k = j + 1
  PROVE  Nearer(k, j)
<1>0. SafeInv => /\ recoveryAge \in Int /\ WarmUp \in Nat
                 /\ state = "RECOVERY" => recoveryAge >= 0
  BY SupervisorAssumption DEF SafeInv, TypeOK, ValidationInv, NeverEntered
<1>1. ASSUME SafeInv, Calm, Within(k), Evaluate PROVE Within(j)' /\ Within(k)'
  <2>1. recoveryAge' \in Int
    BY <1>1, EvaluateConcludes DEF SafeInv, NeverEntered
  <2>2. CASE AtRest
    BY <1>1, <2>2, CalmEvaluation DEF Within
  <2>3. CASE state = "BOOT" /\ k >= 1
    <3>1. AtRest'
      BY <1>1, <2>3, CalmEvaluation DEF AtRest
    <3> QED BY <3>1 DEF Within
  <2>4. CASE state = "SAFE_STOP" /\ recoveryValidated /\ k >= 1
    <3>1. AtRest'
      BY <1>1, <2>4, CalmEvaluation DEF AtRest
    <3> QED BY <3>1 DEF Within
  <2>5. CASE /\ k >= 2 /\ state = "RECOVERY" /\ ~estopLatched
             /\ WarmUp - recoveryAge <= k - 2
    <3>1. CASE state' = "SAFE_STOP" /\ recoveryValidated'
      BY <2>5, <3>1 DEF Within
    <3>2. CASE /\ state' = "RECOVERY" /\ WarmUp - recoveryAge > 0
               /\ recoveryAge' >= recoveryAge + 1
      <4>1. ~estopLatched'
        BY <1>1, <2>5, CalmEvaluation
      <4>2. j >= 2 /\ WarmUp - recoveryAge' <= j - 2 /\ WarmUp - recoveryAge' <= k - 2
        BY <1>0, <1>1, <2>1, <2>5, <3>2
      <4> QED BY <2>5, <3>2, <4>1, <4>2 DEF Within
    <3> QED BY <1>1, <2>5, <3>1, <3>2, CalmEvaluation
  <2> QED BY <1>1, <2>2, <2>3, <2>4, <2>5 DEF Within
<1>2. ASSUME Within(k), state' = state, estopLatched' = estopLatched,
             recoveryValidated' = recoveryValidated, recoveryAge' = recoveryAge
      PROVE  Within(k)'
  BY <1>2, Zenon DEF Within, AtRest
<1>3. ASSUME SafeInv, Calm, Within(k), [Next]_vars PROVE Within(k)'
  BY <1>1, <1>2, <1>3 DEF Next, Present, vars
<1>4. ASSUME SafeInv, Calm, Within(k), Due, <<Next>>_vars PROVE Within(j)'
  BY <1>1, <1>4 DEF Next, Present, Due
<1> QED BY <1>3, <1>4 DEF Nearer

\* A calm supervisor that is idle is presented with inputs, and then evaluates.
\* With a warm-up of at most twenty units (the code's 1000 ms, in steps of the
\* simulation's 50 ms) no state is more than twenty-two evaluations from rest.
LEMMA AlwaysWithin ==
  ASSUME WarmUp <= 20, SafeInv
  PROVE  Within(22)
<1>1. /\ state = "RECOVERY" => recoveryAge \in 0 .. WarmUp
      /\ recoveryValidated => state \in {"SAFE_STOP", "RECOVERY"} /\ ~estopLatched
  BY DEF SafeInv, TypeOK, ValidationInv
<1>2. state = "RECOVERY" => WarmUp - recoveryAge <= 22 - 2
  BY <1>1, SupervisorAssumption
<1> QED BY <1>1, <1>2 DEF Within, AtRest

\* Once the environment is calm the supervisor comes to rest: whatever state the
\* calm finds it in, it leaves BOOT, finishes a recovery that is not latched and
\* spends a validation (supervisor.py _propose_state).
THEOREM ComesToRest ==
  ASSUME WarmUp <= 20
  PROVE  Spec /\ []ENABLED <<Next>>_vars => CalmSettles
<1>1. /\ Nearer(22, 21) /\ Nearer(21, 20) /\ Nearer(20, 19) /\ Nearer(19, 18)
      /\ Nearer(18, 17) /\ Nearer(17, 16) /\ Nearer(16, 15) /\ Nearer(15, 14)
      /\ Nearer(14, 13) /\ Nearer(13, 12) /\ Nearer(12, 11) /\ Nearer(11, 10)
      /\ Nearer(10, 9) /\ Nearer(9, 8) /\ Nearer(8, 7) /\ Nearer(7, 6)
      /\ Nearer(6, 5) /\ Nearer(5, 4) /\ Nearer(4, 3) /\ Nearer(3, 2)
      /\ Nearer(2, 1) /\ Nearer(1, 0)
  BY NearerByOne
<1>2. Spec => []SafeInv
  BY TypeCorrect, LatchCorrect, ValidationCorrect, PTL DEF SafeInv
<1>3. SafeInv /\ ~Due /\ <<Next>>_vars => Due'
  BY SupervisorAssumption, EvaluateConcludes DEF SafeInv, Due, Next, Present
<1>4. SafeInv => Within(22)
  BY AlwaysWithin
<1>5. Within(0) => AtRest
  BY DEF Within
<1>6. Due /\ UNCHANGED vars => Due'
  BY DEF Due, vars
<1>7. SafeInv /\ Calm /\ AtRest /\ [Next]_vars => AtRest'
  BY CalmEvaluation DEF Next, Present, vars, AtRest
<1> QED BY <1>1, <1>2, <1>3, <1>4, <1>5, <1>6, <1>7, PTL DEF Spec, CalmSettles, Nearer, AtRest
=============================================================================
