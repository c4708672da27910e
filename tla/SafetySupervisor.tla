-------------------------- MODULE SafetySupervisor --------------------------
(***************************************************************************)
(* safety/supervisor.py: the state machine that owns motion authority.     *)
(*                                                                         *)
(* The caller (the simulation engine, or the ROS bridge's timer) assembles *)
(* the inputs of a tick and calls evaluate.  Present is the assembling,    *)
(* and the other actions are the branches of evaluate, in the priority     *)
(* order of _propose_state; each one is the whole call, from petting the   *)
(* watchdogs to arbitration.  Ages are in time units and saturate where no *)
(* guard can tell them apart any more.                                     *)
(*                                                                         *)
(* An operator whose name starts with Faulty is a plausible mistake in the *)
(* operator that follows it.  No action uses it; it is put in the place of *)
(* the right one to see that the properties tell the two apart.            *)
(***************************************************************************)
EXTENDS SensorFrames, MotionArbitration

CONSTANTS
  Deadline,     \* deadline of each watchdog
  WarmUp,       \* recovery_required_warm_ms
  Frames,       \* frames, operator pulses, requests and tick gaps the caller
  PulseSets,    \*   may present
  Requests,
  TickGaps,
  NoInputs      \* no evaluation is due

Watchdog == RequiredStreams \cup {"gateway"}
Pulse == {"activate", "estop", "recovery", "reset_armed", "reset"}

\* SupervisorInputs, with the time since the previous evaluation.
SupervisorInputs ==
  [frame: Frames, pulses: PulseSets, request: Requests,
   heartbeat: BOOLEAN, gap: TickGaps]

ASSUME SupervisorAssumption ==
  /\ "gateway" \notin Stream
  /\ Deadline \in [Watchdog -> Nat \ {0}]
  /\ WarmUp \in Nat
  /\ Frames \subseteq Frame /\ \A f \in Frames : WellFormed(f)
  /\ PulseSets \subseteq SUBSET Pulse
  /\ Requests \subseteq Request
  /\ TickGaps \subseteq Nat
  /\ NoInputs \notin SupervisorInputs

VARIABLES
  state,              \* _state
  estopLatched,       \* _estop_latched
  resetArmedPrev,     \* _reset_armed_prev
  recoveryAge,        \* time since _recovery_entered_ms, NeverEntered if None
  recoveryValidated,  \* _recovery_validated
  sincePet,           \* per watchdog, time since last_pet_ms at the last tick
  authorized,         \* the command the last evaluation returned
  inputs              \* the inputs about to be evaluated, or NoInputs

vars == <<state, estopLatched, resetArmedPrev, recoveryAge, recoveryValidated,
          sincePet, authorized, inputs>>

NeverEntered == -1

\* ALLOWED_TRANSITIONS.
AllowedTransitions ==
  [BOOT              |-> {"INACTIVE", "SAFE_STOP", "E_STOP_LATCHED"},
   INACTIVE          |-> {"ACTIVE_NORMAL", "SAFE_STOP", "E_STOP_LATCHED"},
   ACTIVE_NORMAL     |-> {"ACTIVE_RESTRICTED", "ACTIVE_DEGRADED", "SAFE_STOP",
                          "E_STOP_LATCHED"},
   ACTIVE_RESTRICTED |-> {"ACTIVE_NORMAL", "ACTIVE_DEGRADED", "SAFE_STOP",
                          "E_STOP_LATCHED"},
   ACTIVE_DEGRADED   |-> {"SAFE_STOP", "E_STOP_LATCHED"},
   SAFE_STOP         |-> {"RECOVERY", "E_STOP_LATCHED", "ACTIVE_NORMAL"},
   E_STOP_LATCHED    |-> {"RECOVERY"},
   RECOVERY          |-> {"SAFE_STOP"}]

TransitionAllowed(from, to) == from = to \/ to \in AllowedTransitions[from]

TypeOK ==
  /\ state \in SafetyState
  /\ estopLatched \in BOOLEAN
  /\ resetArmedPrev \in BOOLEAN
  /\ recoveryAge \in {NeverEntered} \cup 0 .. WarmUp
  /\ recoveryValidated \in BOOLEAN
  /\ sincePet \in [Watchdog -> Nat]
  /\ \A w \in Watchdog : sincePet[w] <= Deadline[w] + 1
  /\ authorized \in AuthorizedCommand
  /\ authorized.decision \in Rejection => IsZero(authorized)
  /\ inputs \in SupervisorInputs \cup {NoInputs}

Init ==
  /\ state = "BOOT"
  /\ estopLatched = FALSE
  /\ resetArmedPrev = FALSE
  /\ recoveryAge = NeverEntered
  /\ recoveryValidated = FALSE
  /\ sincePet = [w \in Watchdog |-> 0]
  /\ authorized = Zero("REJECTED_ZEROED")
  /\ inputs = NoInputs

-----------------------------------------------------------------------------
(***************************************************************************)
(* Watchdogs.  The gateway's is petted by its heartbeat, a sensor's by a   *)
(* reading that is present and not safe-stop stale.  All four escalate to  *)
(* SAFE_STOP, and an escalation to the current state is no proposal.       *)
(***************************************************************************)
Saturate(n, max) == IF n > max THEN max ELSE n

Petted(w) ==
  IF w = "gateway" THEN inputs.heartbeat
                   ELSE inputs.frame.level[w] \in {"fresh", "warn"}

PetAge(w) ==
  IF Petted(w) THEN 0 ELSE Saturate(sincePet[w] + inputs.gap, Deadline[w] + 1)

FaultyExpired == {w \in Watchdog : PetAge(w) >= Deadline[w]}
Expired == {w \in Watchdog : PetAge(w) > Deadline[w]}

WatchdogEscalates == Expired # {} /\ state # "SAFE_STOP"

\* _recovery_entered_ms or now_ms: never entered counts as entered now.
RecoveryElapsed ==
  IF recoveryAge = NeverEntered THEN 0
                                ELSE Saturate(recoveryAge + inputs.gap, WarmUp)

FaultyAgeRecovery ==
  recoveryAge' = IF recoveryAge = NeverEntered THEN NeverEntered ELSE 0

AgeRecovery ==
  recoveryAge' = IF recoveryAge = NeverEntered THEN NeverEntered
                                               ELSE RecoveryElapsed

-----------------------------------------------------------------------------
(***************************************************************************)
(* What every evaluation does around its proposal: pet and evaluate the    *)
(* watchdogs, make the transition if the table allows it (and refuse it    *)
(* otherwise), arbitrate in the resulting state, and remember whether this *)
(* tick armed a reset.  Each branch below fixes the latch, the validation  *)
(* flag and the recovery timer first, as _propose_state does.              *)
(***************************************************************************)
Due == inputs # NoInputs

Pulsed(p) == p \in inputs.pulses

\* Arbitrates in the state the tick started in.
FaultyConclude(target) ==
  /\ state' = IF TransitionAllowed(state, target) THEN target ELSE state
  /\ sincePet' = [w \in Watchdog |-> PetAge(w)]
  /\ authorized' = Arbitrate(inputs.request, state,
                             Pulsed("estop") \/ estopLatched',
                             LowConfidence(inputs.frame))
  /\ resetArmedPrev' = Pulsed("reset_armed")
  /\ inputs' = NoInputs

Conclude(target) ==
  /\ state' = IF TransitionAllowed(state, target) THEN target ELSE state
  /\ sincePet' = [w \in Watchdog |-> PetAge(w)]
  /\ authorized' = Arbitrate(inputs.request, state',
                             Pulsed("estop") \/ estopLatched',
                             LowConfidence(inputs.frame))
  /\ resetArmedPrev' = Pulsed("reset_armed")
  /\ inputs' = NoInputs

FaultyAssertEStop ==
  /\ Due
  /\ Pulsed("estop")
  /\ estopLatched' = TRUE
  /\ UNCHANGED recoveryValidated
  /\ AgeRecovery
  /\ Conclude("E_STOP_LATCHED")

\* 1. The operator E-stop is taken first and sets the latch.
AssertEStop ==
  /\ Due
  /\ Pulsed("estop")
  /\ estopLatched' = TRUE
  /\ recoveryValidated' = FALSE
  /\ AgeRecovery
  /\ Conclude("E_STOP_LATCHED")

LatchHolds == Due /\ ~Pulsed("estop") /\ estopLatched

FaultyResetUnsafe == ~InputsUsable(inputs.frame)
ResetUnsafe == ~InputsUsable(inputs.frame) \/ inputs.frame.contact

HoldEStop ==
  /\ LatchHolds
  /\ ~Pulsed("reset")
  /\ UNCHANGED <<estopLatched, recoveryValidated>>
  /\ AgeRecovery
  /\ Conclude("E_STOP_LATCHED")

RefuseReset ==
  /\ LatchHolds
  /\ Pulsed("reset")
  /\ ~resetArmedPrev \/ ResetUnsafe
  /\ UNCHANGED <<estopLatched, recoveryValidated>>
  /\ AgeRecovery
  /\ Conclude("E_STOP_LATCHED")

FaultyAcceptReset ==
  /\ LatchHolds
  /\ Pulsed("reset")
  /\ ~ResetUnsafe
  /\ estopLatched' = FALSE
  /\ recoveryValidated' = FALSE
  /\ recoveryAge' = 0
  /\ Conclude("RECOVERY")

AcceptReset ==
  /\ LatchHolds
  /\ Pulsed("reset")
  /\ resetArmedPrev /\ ~ResetUnsafe
  /\ estopLatched' = FALSE
  /\ recoveryValidated' = FALSE
  /\ recoveryAge' = 0
  /\ Conclude("RECOVERY")

FaultyUnlatched == Due /\ ~Pulsed("estop")
Unlatched == Due /\ ~Pulsed("estop") /\ ~estopLatched

\* 2.-4. An expired watchdog, an asserted contact, an unusable frame.
StopOnWatchdog ==
  /\ Unlatched
  /\ WatchdogEscalates
  /\ UNCHANGED <<estopLatched, recoveryValidated>>
  /\ AgeRecovery
  /\ Conclude("SAFE_STOP")

StopOnContact ==
  /\ Unlatched /\ ~WatchdogEscalates
  /\ inputs.frame.contact
  /\ UNCHANGED <<estopLatched, recoveryValidated>>
  /\ AgeRecovery
  /\ Conclude("SAFE_STOP")

StopOnFreshness ==
  /\ Unlatched /\ ~WatchdogEscalates /\ ~inputs.frame.contact
  /\ ~InputsUsable(inputs.frame)
  /\ UNCHANGED <<estopLatched, recoveryValidated>>
  /\ AgeRecovery
  /\ Conclude("SAFE_STOP")

FaultyNothingStops ==
  Unlatched /\ ~WatchdogEscalates /\ InputsUsable(inputs.frame)

\* What is left for the remaining branches: no reason to stop on this tick.
NothingStops ==
  /\ Unlatched /\ ~WatchdogEscalates /\ ~inputs.frame.contact
  /\ InputsUsable(inputs.frame)

AllFresh == ~AnyWarn(inputs.frame)

\* 5. The recovery flow.
BeginRecovery ==
  /\ NothingStops
  /\ state = "SAFE_STOP" /\ Pulsed("recovery")
  /\ recoveryAge' = 0
  /\ UNCHANGED <<estopLatched, recoveryValidated>>
  /\ Conclude("RECOVERY")

RecoveryPassed ==
  AllFresh /\ RecoveryElapsed >= WarmUp /\ Score(inputs.frame) >= RecoveryScore

ValidateRecovery ==
  /\ NothingStops
  /\ state = "RECOVERY" /\ RecoveryPassed
  /\ recoveryValidated' = TRUE
  /\ UNCHANGED estopLatched
  /\ AgeRecovery
  /\ Conclude("SAFE_STOP")

ContinueRecovery ==
  /\ NothingStops
  /\ state = "RECOVERY" /\ ~RecoveryPassed
  /\ UNCHANGED <<estopLatched, recoveryValidated>>
  /\ AgeRecovery
  /\ Conclude("RECOVERY")

FaultyPromotable == state = "SAFE_STOP" /\ AllFresh
Promotable == state = "SAFE_STOP" /\ recoveryValidated /\ AllFresh

Promote ==
  /\ NothingStops
  /\ ~Pulsed("recovery")
  /\ Promotable
  /\ recoveryValidated' = FALSE
  /\ UNCHANGED estopLatched
  /\ AgeRecovery
  /\ Conclude("ACTIVE_NORMAL")

HoldSafeStop ==
  /\ NothingStops
  /\ state = "SAFE_STOP" /\ ~Pulsed("recovery")
  /\ ~Promotable
  /\ UNCHANGED <<estopLatched, recoveryValidated>>
  /\ AgeRecovery
  /\ Conclude("SAFE_STOP")

\* 6. Activation.  From BOOT the proposal is made and the table refuses it.
Activate ==
  /\ NothingStops
  /\ state \in {"BOOT", "INACTIVE"} /\ Pulsed("activate") /\ AllFresh
  /\ UNCHANGED <<estopLatched, recoveryValidated>>
  /\ AgeRecovery
  /\ Conclude("ACTIVE_NORMAL")

CompleteBoot ==
  /\ NothingStops
  /\ state \in {"BOOT", "INACTIVE"} /\ ~(Pulsed("activate") /\ AllFresh)
  /\ UNCHANGED <<estopLatched, recoveryValidated>>
  /\ AgeRecovery
  /\ Conclude("INACTIVE")

\* 7. The active states follow the inputs.  Leaving ACTIVE_DEGRADED for a less
\* restrictive state is proposed on good inputs and refused by the table.
InputsDegraded ==
  inputs.frame.disagrees \/ inputs.frame.biased \/ AnyWarn(inputs.frame)

ChosenActiveState ==
  IF InputsDegraded THEN "ACTIVE_DEGRADED"
  ELSE IF Score(inputs.frame) < NormalScore THEN "ACTIVE_RESTRICTED"
  ELSE "ACTIVE_NORMAL"

StayActive ==
  /\ NothingStops
  /\ state \in ActiveState
  /\ UNCHANGED <<estopLatched, recoveryValidated>>
  /\ AgeRecovery
  /\ Conclude(ChosenActiveState)

Evaluate ==
  \/ AssertEStop \/ HoldEStop \/ RefuseReset \/ AcceptReset
  \/ StopOnWatchdog \/ StopOnContact \/ StopOnFreshness
  \/ BeginRecovery \/ ValidateRecovery \/ ContinueRecovery
  \/ Promote \/ HoldSafeStop
  \/ Activate \/ CompleteBoot \/ StayActive

\* The caller assembles the next inputs.
Present ==
  /\ inputs = NoInputs
  /\ inputs' \in SupervisorInputs
  /\ UNCHANGED <<state, estopLatched, resetArmedPrev, recoveryAge,
                 recoveryValidated, sincePet, authorized>>

Next == Present \/ Evaluate

\* The engine loop and the bridge timer call evaluate again and again.
Spec == Init /\ [][Next]_vars /\ WF_vars(Next)

-----------------------------------------------------------------------------
(***************************************************************************)
(* Properties.                                                             *)
(***************************************************************************)
\* The latch and the state agree up to the one exception the transition table
\* makes: an E-stop asserted during RECOVERY sets the latch (supervisor.py:419)
\* and its transition is refused, so a latched supervisor is in E_STOP_LATCHED
\* or RECOVERY, and E_STOP_LATCHED is never shown without the latch.
LatchInv ==
  /\ estopLatched => state \in {"E_STOP_LATCHED", "RECOVERY"}
  /\ state = "E_STOP_LATCHED" => estopLatched

\* A validation is pending only while the rover is still held, and never
\* outlives an E-stop: it cannot be spent after motion was lost again.  A
\* recovery, and what it validated, always has a start time, so that the
\* fallback `_recovery_entered_ms or now_ms` (supervisor.py:488) never decides.
ValidationInv ==
  /\ recoveryValidated => state \in {"SAFE_STOP", "RECOVERY"} /\ ~estopLatched
  /\ recoveryValidated \/ state = "RECOVERY" => recoveryAge # NeverEntered

\* The command handed to the gateway is within the limits of the state the
\* supervisor is in, and zero while the latch is set, whatever was requested.
MotionInv ==
  /\ WithinLimits(authorized, state)
  /\ estopLatched => IsZero(authorized)

Evaluated == inputs # NoInputs /\ inputs' = NoInputs

\* An evaluation that authorizes motion saw a live request, no E-stop, no
\* contact, no stale or missing stream and a score above the floor on that
\* same tick: the state it moves in never covers for older inputs.
MotionNeedsSoundInputs ==
  [][Evaluated /\ ~IsZero(authorized') =>
       /\ ~Pulsed("estop")
       /\ ~inputs.frame.contact
       /\ InputsUsable(inputs.frame)
       /\ inputs.request.kind = "live"
       /\ ~LowConfidence(inputs.frame)]_vars

\* A watchdog that is not petted on this tick and whose last pet is more than its
\* deadline ago; one at its deadline is still in time (watchdog.py:53).
Overdue == {w \in Watchdog : ~Petted(w) /\ sincePet[w] + inputs.gap > Deadline[w]}

\* An overdue watchdog stops motion on the tick it is seen, with one exception:
\* the tick that promotes a validated SAFE_STOP, where an escalation to the
\* current state is no escalation (supervisor.py:464).  And no watchdog stops the
\* rover early: an active rover is brought to SAFE_STOP by an overdue watchdog, a
\* contact or inputs that are not usable, and by nothing else.
WatchdogStopsMotion ==
  [][Evaluated =>
       /\ Overdue # {} /\ state' \in ActiveState =>
            state = "SAFE_STOP" /\ recoveryValidated
       /\ state \in ActiveState /\ state' = "SAFE_STOP" =>
            Overdue # {} \/ inputs.frame.contact \/ ~InputsUsable(inputs.frame)]_vars

\* The latch is released only by a reset pulse whose arming pulse came on the
\* tick before, on usable inputs, and releasing it neither moves the rover nor
\* leaves a validation behind: the recovery clock starts over.
LatchRelease ==
  [][estopLatched /\ ~estopLatched' =>
       /\ resetArmedPrev /\ Pulsed("reset") /\ ~Pulsed("estop")
       /\ InputsUsable(inputs.frame) /\ ~inputs.frame.contact
       /\ state' = "RECOVERY" /\ recoveryAge' = 0 /\ ~recoveryValidated'
       /\ IsZero(authorized')]_vars

\* The supervisor implements the abstract motion authority.
Authority ==
  IF estopLatched THEN "locked"
  ELSE CASE state \in {"BOOT", "INACTIVE"}                     -> "awaiting"
         [] state \in {"ACTIVE_NORMAL", "ACTIVE_RESTRICTED"}   -> "granted"
         [] state = "ACTIVE_DEGRADED"                          -> "reduced"
         [] state \in {"SAFE_STOP", "RECOVERY"}                -> "withdrawn"
         [] state = "E_STOP_LATCHED"                           -> "locked"

MA == INSTANCE MotionAuthority
        WITH authority <- Authority, vetted <- recoveryValidated

\* Refinement: withdrawn or locked authority comes back only through a
\* revalidation made since, and ACTIVE_DEGRADED never relaxes by itself.
ImplementsAuthority == MA!AuthoritySpec

-----------------------------------------------------------------------------
(***************************************************************************)
(* Statements of the documentation that the code does not meet; each is    *)
(* refuted by a run of its own.                                            *)
(***************************************************************************)
\* docs/SAFETY_MODEL.md 5.3: SAFE_STOP is left for ACTIVE_NORMAL only after
\* RECOVERY has validated.  A validation that was not spent survives a second
\* recovery that fails, and promotes the rover all the same.
PromotionFollowsFullRecovery ==
  [][state = "SAFE_STOP" /\ state' = "ACTIVE_NORMAL" => recoveryAge >= WarmUp]_vars

-----------------------------------------------------------------------------
(***************************************************************************)
(* Liveness, under an environment that is eventually calm: no operator     *)
(* pulse, fresh inputs, a score good enough for recovery, a heartbeat, and *)
(* time passing between the ticks.                                         *)
(***************************************************************************)
Calm ==
  inputs # NoInputs =>
    /\ inputs.pulses = {} /\ inputs.heartbeat /\ inputs.gap > 0
    /\ InputsUsable(inputs.frame) /\ AllFresh /\ ~inputs.frame.contact
    /\ Score(inputs.frame) >= RecoveryScore

\* Once the environment is calm the supervisor comes to rest: it leaves BOOT,
\* finishes every recovery that is not latched, and spends every validation by
\* promoting; it does not wait in RECOVERY or on a validated SAFE_STOP forever.
CalmSettles ==
  <>[]Calm => <>[](/\ state # "BOOT"
                   /\ state = "RECOVERY" => estopLatched
                   /\ ~recoveryValidated)
=============================================================================
