# TLA+ models of the rover safety platform

This directory models the parts of the platform that keep state or decide
something: the safety supervisor and the mission layer, the ROS nodes that host
them, the simulation engine that hosts them offline, the recorder of a run and
its validators, the rehearsal of a mission, and the compiler of dictated and
proposed missions. TLC checks the models on small instances; TLAPS proves the
main invariants and refinements for every value of the constants, and three of the
four liveness properties under the hypotheses that section 4 names.

`PROJECT.json` maps each definition to the source lines it stands for and lists
the runs, the faults that each property is known to detect, the findings, the
hazards and the theorems.

## 1. The system

Paths below are relative to the repository; `app/` stands for `backend/app/`.

```
 operator topics        sensors                    operator topics
       |                   |                             |
       v                   v                             v
 +--------------+   request   +------------------+  authorized  +---------+
 | mission node |------------>|  safety bridge   |------------->| gateway |
 | orchestrator |<------------|  supervisor      |              +---------+
 +--------------+ safety state+------------------+
       | mission state              ^
       v                            | request
 +--------------+                   |
 | Nav2 clamp   |-------------------+
 +--------------+
```

In simulation, `app/simulation/engine.py` takes the place of the nodes: one
loop calls the fault injector, the sensors, the mission, the supervisor, the
gateway and the vehicle on each step of a simulated clock, and
`app/telemetry/run_recorder.py` writes what happened to a run directory.
Missions reach the platform as files: `app/natural_language_mission` compiles
dictated text into a mission plan, `app/mission_proposal` does so for the
answer of a provider, and `app/mission_rehearsal` rehearses a mission file and
leaves an audit bundle. These three write evidence; none of them drives.

### Components

| Component | State | Operations | What makes it correct |
|---|---|---|---|
| Safety supervisor (`app/safety/supervisor.py`, `transitions.py`) | safety state, E-stop latch, arming of the last tick, recovery start, pending validation | `evaluate`, once per tick: pets watchdogs, proposes a state by fixed priority, applies it if the table allows, arbitrates motion | latch, validation and state stay consistent; motion only on sound inputs of the same tick; lost authority returns only through revalidation; recoveries end |
| Watchdogs (`watchdog.py`) | last pet of each stream and of the gateway | pet, evaluate | an expired watchdog stops motion |
| Freshness, confidence (`freshness.py`, `confidence.py`) | none | evaluate a frame | missing, stale and disagreeing readings are told apart |
| Motion arbitration (`arbitration.py`) | none | arbitrate a request | the command is within the limits of the state |
| Recovery policy (`app/mission/recovery.py`) | active behaviour, its waypoint and start, attempts per waypoint | `evaluate`, once per mission tick | the budget holds, a spent budget aborts, no behaviour is stranded |
| Mission orchestrator (`orchestrator.py`, `constraints.py`, `waypoints.py`) | mission state, active waypoint and its timer, the queue's three lists | `evaluate`: operator command, constraints, policy, next state, motion request | waypoints are settled once and in order; inhibited ticks request nothing; missions end |
| Safety bridge (`rover_safety_bridge`) | latest message per topic, operator pulses, clock | subscriber callbacks, timer | stale caches do not move the rover; pulses are not lost |
| Mission node, Nav2 clamp (`rover_mission_runtime`) | latest safety state, operator pulses; the clamp's latest mission state | callbacks, timer; clamp a Nav2 command | pulses are not lost; Nav2 is closed when the mission is |
| Simulation engine, gateway (`app/simulation/engine.py`) | clock, last command, vehicle, the supervisor's last score | `step` | a silent part stops the rover; the mission's outdated view gains no motion; runs come to their end |
| Fault injector (`app/faults`) | status of each fault | `evaluate`, once per step | a fault is in force in its window and at no other step |
| Sensors, vehicle, zones (`app/simulation`) | last reading per stream; pose and speed | sense, apply a command | a lost or late packet is seen as one |
| Run recorder (`app/telemetry`) | event file, streams, metadata, chain tip and count | open, append, finalize, close | what was accepted survives a crash |
| Run validators (`app/validation`) | none | judge a run directory | what they accept as finalized is what was finalized |
| Mission rehearsal (`app/mission_rehearsal`, its tools) | rehearsal status and events; twelve files | rehearse, regenerate the replay, validate the audit | nothing is simulated unsupervised; the files tell one story |
| Mission compiler and proposals (`app/natural_language_mission`, `app/mission_proposal`) | none between inputs | sanitize, parse, check, classify | nothing is dropped; accepted plans stay in their envelope; nothing forbidden passes |

The remaining packages (skills, verification, incident analysis, reviews,
analytics, exports, the registry, the console) are batch computations over
files; section 6 says why they are left out, and `PROJECT.json` lists each.

### What is hard here

- *Two records of one fact.* The latch and the state, the mission state and the
  recovery behaviour, the pending validation and the recovery it came from are
  kept by separate fields that branches update independently; a refused
  transition leaves some of them changed. An event and its copy, an audit and
  the eleven files beside it are written one after the other.
- *Long protocols.* Arm, reset, recover, validate, promote; time out, back up,
  retry, abort. Each step is a tick of its own, and anything may come between.
- *Timers.* Watchdogs, recovery warm-up, waypoint timeout, backup duration,
  request lifetime, fault windows and the gateway's timeout are restarted by
  different code than reads them.
- *Caches.* The nodes evaluate what they last heard, at a time of their own; in
  the engine the mission sees the supervisor as it was a step ago.
- *Messages.* Pulses of one period lose their order; a bounded queue between
  mission node and clamp drops its oldest message; a loss hides a delay.
- *Crash and restart.* The latch and the mission are in memory only; files are
  truncated and then written; a rerun writes over an earlier run.
- *Several gates in a row.* Sanitizer, parser, envelope, contradiction check and
  status each look at other fields and know other phrases.

Within a process everything runs on one thread (rclpy's default executor, the
engine's loop, a tool): callbacks interleave with ticks, not with each other.

## 2. Modules

| Module | Models | Notes |
|---|---|---|
| `SensorFrames` | the frame and the two reports on it | a reading is a freshness level and a confidence; scores in exact integers |
| `MotionArbitration` | arbitration of a request | pure operators, integer velocities |
| `SafetySupervisor` | the supervisor and its watchdogs | one action per branch of `evaluate`, each the whole call |
| `MotionAuthority` | abstract promise of the supervisor | five values of authority and one bit |
| `RecoveryPolicy` | the recovery policy | one action per return of `evaluate` |
| `MissionOrchestrator` | a mission tick, with the policy and the queue | one `Tick` per `evaluate` |
| `MissionLedger` | abstract promise of a mission | waypoints settled one at a time, in order |
| `SafetyBridge` | bridge node around the supervisor | extends `SafetySupervisor`; the node's tick provides its inputs |
| `MissionNode` | mission node and Nav2 clamp | extends `MissionOrchestrator`; a queue between the nodes |
| `FaultInjector` | fault windows, life cycle and effect of a tick | pure operators on a list of profiles and statuses |
| `SensorSimulator` | periods, caches and readings under faults | pure operators |
| `SimulationEngine` | the engine's step | extends `SafetySupervisor`, instantiates `MissionOrchestrator`; a scenario is a constant of the behaviour |
| `RunRecording` | recorder, crash, rerun, damage, validators | one action per write |
| `RehearsalRules` | plan, validator, supervisor and status table of a rehearsal | pure operators |
| `MissionRehearsal` | the three rehearsal tools on one bundle | one action per phase and per write |
| `MissionCompiler` | sanitizer, adapter and compiler | a text is a sequence of clauses |
| `MC*` | small instances for TLC | |
| `*_proofs` | theorems and proofs | one per component |

Correspondence with the code:

- **Supervisor.** `Present` is the caller assembling `SupervisorInputs`; the
  other actions are the branches of `_propose_state` in its order, each guarded
  by the negation of those before it. `Conclude` is the rest of the call:
  `_maybe_transition`, which refuses what the table does not allow, and
  arbitration in the state that results. Ages saturate one unit after the last
  value a guard distinguishes.
- **Mission.** The inputs of a tick are a set of operator commands and a set of
  signals (what pose, zones, sensors and supervisor amount to). `EvaluatePolicy`
  determines the policy's part; `Rest`, `FinishAbort`, `Recover`, `DriveOn`,
  `Reach` and `Complete` are the six ways `evaluate` ends.
- **Bridge.** `OnSensor`, `OnContact`, `OnRequested`, `SetPulse` are the
  callbacks; `Tick` assembles a frame from the caches, `Respond` is the call of
  `evaluate`. Time passes in `Elapse`, in timer periods. `BootGap` is the first
  clock reading: watchdogs are registered at clock zero, so on wall time the
  first tick sees a very long gap.
- **Mission node.** `OnSafety`, `SetOp`, `NodeTick` and, for the clamp, `OnState`.
  A Nav2 command changes no state; `OpenStates` says when it is let through.
- **Engine.** `Assemble` is `step` up to the supervisor: faults, sensors, contact
  and pulses, the mission on last step's supervisor, the request. `Respond` is
  the rest: evaluation, gateway, vehicle, clock. The rover drives along a line,
  which is what the code's geometry comes to for heading zero; positions are in
  millimetres, a unit of time is 50 ms, and thresholds are the code's own.
- **Recorder.** Each write is an action of its own, and a write that empties a
  file before it fills it is two: opening a recorder truncates the event file
  (`OpenEvents`) and then one stream after the other (`OpenStream`), and the row
  of a copied event is flushed (`FlushRow`) before `append_event` returns
  (`Return`). `Crash` may come after any of them. An event
  stands for its canonical bytes, which do not include the link to the one
  before: the chain is not cumulative. The validators are predicates of the
  directory.
- **Rehearsal.** `Load` to `TerminateEarly` are the phases of
  `run_mission_rehearsal`, `Truncate` and `Fill` the writing of a file by it or
  by `generate_rehearsal_replay` (`Regenerate`); `Revalidated` is what
  `validate_mission_rehearsal` says. A text is the set of known phrases in it.
  With no rejection a plan always has waypoints, and no plan is built with the
  risk band "restricted", so that the runtime's branch for a decision that
  withholds approval without a rejection is never entered and has no action.
- **Compiler.** `Dictate` and `Remark` write a text; `CompileDirectly` is the
  operator's tool, `Propose` the provider's way through `SanitizerRejects` or
  `SanitizerAccepts`; `Compile` is one compilation. The mission graph is
  modelled too; no property of a run is about it.

Operators named `Faulty...` (and `BufferedFlush`) are plausible mistakes in the
operator they stand before. Nothing uses them; they are put in its place to see
that a property notices.

## 3. Runs

| Run | Instance | States | Shows |
|---|---|---|---|
| `supervisor` | IMU and encoder, every level and score band, nine pulse sets and more, warm-up 2, deadlines 1 and 2 | 222,885 | the invariants and action properties of the supervisor, its refinement of `MotionAuthority`, and liveness |
| `mission` | two waypoints, timeouts 2 and 3, one retry, backup 2, every set of signals with one command | 1,206 (694,657 transitions) | the mission's invariants, its refinement of `MissionLedger`, and liveness |
| `bridge` | one stream and the bumper, limits of one period, a timer up to one period late, both kinds of start | 416,704 | `MovingMeansHeard`, `EStopIsTaken`, `LatchIsForGood` |
| `node` | one waypoint, no retry, queue of two | 62,784 | clamp and abort properties |
| `engine` | every type of fault alone and in pairs, pulses, zones, contacts, five time steps; two waypoints; the code's own thresholds | 49,916 | the composed loop, from the first step of a scenario to its last |
| `recorder` | four events, three copied to two streams, two runs, one damaged line | 1,694,185 | durability, what the validators accept |
| `rehearsal` | seven mission files, three tools, a death anywhere | 753,552 | supervision, transitions, the bundle's files |
| `authoring` | every text of up to three of eighteen clauses, two asides, two profiles | 669,403 | what compiler and sanitizer let through |
| `stale_validation` | as `supervisor` | violation | section 5 |
| `backup_timer` | as `mission` | violation | section 5 |
| `mission_never_prepared` | as `node` | violation | section 5 |
| `watchdog_fault` | as `engine` | violation | section 5 |

### What the properties say

*Supervisor.* `LatchInv`: latch and state agree but for an E-stop during a
recovery. `ValidationInv`: a validation is pending only while the rover is held
and unlatched. `MotionInv`: the command is within the limits of the state, zero
under the latch. `MotionNeedsSoundInputs`: a tick that authorizes motion saw a
live request, no E-stop, no contact, usable inputs and a sufficient score on
that same tick. `WatchdogStopsMotion`: a tick that finds a watchdog past its
deadline ends in an active state only by promoting a validated SAFE_STOP, and one
that finds every pet in time, at the deadline included, stops an active rover for
a reason other than the watchdogs. `LatchRelease`: what a
reset needs. `ImplementsAuthority`: the refinement. `CalmSettles`: once the
environment is calm, the supervisor comes to rest.

*Mission.* `RecoveryInv`: mission state and recovery behaviour agree, so nothing
is stranded. `BudgetInv`: the attempt past the budget latches the abort.
`TimerInv`: an active waypoint has a running timer. `InhibitedMeansStill`: an
inhibited tick requests no motion. `ImplementsLedger`: the refinement, that is
that completed, remaining and aborted waypoints divide the plan and are settled
in order. `MissionSettles`: a mission left alone completes, aborts or stays
paused.

*Bridge.* `MovingMeansHeard`: when a moving rover's command was authorized,
each sensor and the requester had been heard within their limits, however the
messages fell between the ticks. `EStopIsTaken`: an E-stop pulse reaches the
latch. `LatchIsForGood`: nothing that is published releases the latch or moves
the rover under it, until the node is restarted (section 5 says what the manual
expects).

*Mission node.* `ClampOnlyLate`: the newest mission state the clamp holds or
will be sent is the mission's. `AbortClosesClamp`: an abort of a started mission
ends with mission and clamp aborted for good. `TrustsSafetyState`: a prepared
mission that nothing holds gets under way (holds if the plan asks for no healthy
sensor, section 5).

*Engine.* `FaultsFollowTheirWindows`: a fault is in force on exactly the steps
in its window. `SilenceStopsTheRover`: with lidar, bridge or heartbeat gone for
longer than its limit, or lidar packets later than that, the vehicle stands.
`TwoStepsAgree`: the mission's view of the supervisor, a step old, never gains
the rover motion. `KeepoutHolds`: a keepout is entered, from either side, by less
than a step's way at the speed limit and then holds the rover and its mission. `GatewayObeys`: with a step longer
than the gateway's timeout nothing moves after the first step; with any other
the vehicle does what was authorized, less the slip. `RunsComeToTheirEnd`: a
recovery asked for after the last fault brings the rover back, and an
undisturbed plan is completed.

*Recorder.* `AcceptedIsDurable`: what `append_event` returned for is on disk,
whole and in order, whenever the process dies. `CopiesFollowEvents`: so are the
copies in each stream, with at most the row of the event under way after them,
torn or whole; a process that dies while it opens the files of a rerun is the
exception (section 5). `EligibleRunIsWhole`: a run that the validators call valid and that is
finalized is, event by event, the one that was sealed, after any crash, rerun
and single damaged line. `ClosedRunIsEligible`: they turn down no run that was
closed and left alone.

*Rehearsal.* `SupervisedMotion`: before a simulated motion, in memory or in a
stored audit, stand a passed validation, an approval and the check of the same
waypoint, and the plan keeps the limits the validator enforces (`WithinLimits`),
which are those of the boundary document with the three exceptions of section 5:
where the stop stands, other topics, and the texts searched for loops. `TransitionsAreEvents`:
status changes form a path and each has its event, in order. `FilesFollowAudit`:
after tools that finished, the files tell the rehearsal that the audit tells,
and a regeneration repairs the replay of one that did not finish.
`OutcomeIsTold`: replay, analytics and a later validation agree with the audit's
outcome.

*Authoring.* `NothingIsDropped`: each clause is an objective, a constraint or a
rejection with a diagnostic. `AcceptedStaysWithinOdd`: a plan that is not
rejected stays within its profile, and goes to a region its text avoids only in a
pause or a return to the dock, which the code does not compare.
`NoUnreviewedPass`: nothing vague and nothing that sanitizer or parser knows as
forbidden ends as passed, except a phrase of the parser's list alone in a field
that is not compiled. It does not speak of the risk band. `CompilerTypeOK`: scores stay in their scale and
rejections are critical.

### Bounds, and why they are enough

Deadlines, warm-up, timeouts and durations are one to three units: enough for
"before", "at" and "after" each, and for two of them to run out in either order.
Gaps between the supervisor's ticks are one unit in its own run; late and long
gaps are explored through the bridge. Two required streams are needed for a
disagreement; a third would repeat their roles. Two waypoints are the first plan
with an order to lose and with a timer to hand from one to the next; one retry
is the first budget with "within", "at" and "past". A queue of two is the
smallest where dropping the oldest differs from keeping only the newest. Frames
and pulse sets of the supervisor's run are chosen, not all: every level of every
stream, every score band and every flag occurs, and the pairs of pulses whose
priority matters.

The engine is deterministic once a scenario is given, so its run is a set of
scenarios: each type of fault before and during the drive, from shorter than a
step to longer than every limit and without an end; pairs that hide one another;
pulses in the orders that matter; keepouts under, before and beyond the start;
steps of 50 to 800 ms. `Base` lasts 110 units: activation, a drive past every
deadline, a fault, a recovery with its warm-up and the drive after it. At most
one restricted zone is used.

Four events are the first run with one copied to each stream, two to the same
stream so that their order shows, one not copied, and a neighbour to swap on
either side; a second run is what writes
over the first. Of the mission files, four are simulated: one of them docks
before its last leg, one only inspects. Three tools are a rehearsal, one that dies, and the
regeneration between or after them. Texts of three clauses hold two that
contradict each other and one beside them; one clause avoids the dock, where a
pause and a return lead. The score, which longer texts would
raise further, is proved to stay in its scale for any length.

`CHECK_DEADLOCK FALSE` stands in the runs that end: a scenario ends with its
duration, recorder and rehearsal with their bounds, a compilation with its
outcome.

### Fairness

- `SafetySupervisor`: `WF_vars(Next)`. The engine's loop and the bridge's timer
  call `evaluate` for as long as they run, and the call returns.
- `MissionOrchestrator`: `WF_vars(Next)`, for the same reason; `MissionSettles`
  further assumes that time eventually passes between ticks and that operator,
  sensors, supervisor and keepouts stop interfering.
- `SafetyBridge`: `WF` of `Elapse`, `Tick` and `Respond`: time passes, the timer
  fires, the call returns. No fairness of messages.
- `MissionNode`: `WF` of the timer and of the delivery of queued states (the
  clamp's executor spins). No fairness of operators, sensors or Nav2.
- `SimulationEngine`: `WF` of its loop. That runs come to their end is checked
  as a safety property of the last step, since scenarios are finite.
- `RunRecording`, `MissionRehearsal`, `MissionCompiler`: none. A process may die
  at any time, and none of their properties needs it not to.

`MissionSettles` excludes a keepout that stays pending: STOP_AND_REEVALUATE
engaged when no waypoint is left to time out waits for it, and as the rover does
not move it stays pending. `KeepoutHolds` shows the same of the engine.

## 4. Proofs

| Module | Theorems | Argument |
|---|---|---|
| `SafetySupervisor_proofs` | `TypeCorrect`, `LatchCorrect`, `ValidationCorrect`, `MotionCorrect`, `MotionFromSoundInputs`, `WatchdogStops`, `LatchReleaseCorrect`, `AuthorityImplemented`, `ComesToRest`; the lemma `WhateverTheHost` | `TypeOK`, then `LatchInv`, `ValidationInv`, `MotionInv`, each inductive relative to those before it; a distance from rest (`Within`) |
| `MissionOrchestrator_proofs` | `TypeCorrect`, `QueueCorrect`, `RecoveryCorrect`, `BudgetCorrect`, `TimerCorrect`, `InhibitedCorrect`, `LedgerImplemented`, `CalmTicksCount`; the lemma `MissionWhateverTheHost` | one invariant `IInv`, the conjunction of all five; a tuple of what is left (`LessIsLeft`) |
| `SafetyBridge_proofs` | `BridgeInvariant`, `BridgeTypeCorrect`, `MovingHeard`, `SupervisorSafeOverRos`, `GuaranteesHoldOverRos`, `LatchIsForGoodOverRos`, `EStopReachesLatch`, `EStopHoldsForGood`, `GatewayNeverExpires` | `BridgeInv`: types, `LatchInv`, `FlagsInv`, `StagedInv`, `MovingMeansHeard`; `NeverArmed` and `HeartbeatInv` for the last four |
| `MissionNode_proofs` | `NodeTypeCorrect`, `ClampIsOnlyLate`, `MissionSafeOverRos`, `LedgerKeptOverRos`, `PreparedGetsUnderWay`, `NoMissionWithMinimum`, `AbortReachesClamp` | `NodeInv`: `IInv`, the queue's types, `ClampOnlyLate`; `Unbegun` for the minimum; how far the clamp is behind (`Behind`) |
| `SimulationEngine_proofs` | `EngineInvariant`, `EngineTypeCorrect`, `EngineHostsSupervisor`, `EngineHostsMission`, `GatewayObeyed`, `MotionIsTwiceAgreed`, `FaultsInTheirWindows`, `SilenceStops`, `KeepoutsHold`, `SupervisorSafeInSimulation`, `MissionSafeInSimulation`, `VehicleKeepsLimits`, `ContactStopsTheRover` | `EngineInv`: types of both parts, and which of the two calls comes next; beside it `GatewayInv`, `RequestInv`, `FaultInv`, `SilenceInv` with `PresentedInv`, `KeepoutInv`, `VehicleInv`, `BumperInv` |
| `RunRecording_proofs` | `RecordingInvariant`, `RecordingTypeCorrect`, `AcceptedEventsSurvive`, `AccidentsAreNoticed`, `ClosedRunsAreAccepted`, `CopiesInvariant`, `CopiesAreThere` | `RecordingInv`: the file is a chain, `accepted` its prefix, what each phase has done so far; `CopiesInv` for the streams |
| `MissionRehearsal_proofs` | `RehearsalInvariant`, `RehearsalTypeCorrect`, `SimulatedMotionIsSupervised`, `BundleFollowsAudit`, `StoryIsTold`, `OutcomeAgrees` | `RInv`: records in memory and on disk are well-formed and `Checked`; what each phase has established; `FilesInv`, `StoryInv` |
| `MissionCompiler_proofs` | `CompilerInvariant`, `CompilerTypeCorrect`, `EveryClauseIsAccountedFor`, `AcceptedPlansStayWithinOdd`, `PassesAreReviewed` | `CompilerInv`: a plan is the compilation of the text, an outcome is the class of its status |

**Supervisor.** Each action is one `evaluate`, so the step lemmas have one case
per branch; what the branches share is proved once of `Conclude`. `LatchInv`
needs the table: a proposal of E_STOP_LATCHED is refused only in RECOVERY, and a
latched supervisor proposes nothing else. `ValidationInv` needs `LatchInv`. The
refinement needs both: a rover that is withdrawn and unvetted cannot be granted
authority because `Promote` is the only way up, and it spends the validation.
`WhateverTheHost` states all of it of `Init /\ [][Next]_vars`, without fairness:
whoever calls the supervisor in steps of its specification, and does what it
likes in between, is given every guarantee.

That it comes to rest once the environment is calm (`ComesToRest`) is liveness.
A calm evaluation leaves every state nearer to rest: BOOT is left, a recovery
warms up, a validation is spent. `NearerByOne` proves it of one evaluation,
`AlwaysWithin` that no state is further than 22 evaluations away if the warm-up
takes at most 20 of them, and 22 instances of the first make a chain that the
temporal prover follows. Twenty is what the code's default comes to: 1000 ms
(`supervisor.py:112`) in steps of 50 ms.

**Mission.** No part is inductive alone. That a mission in RECOVERY has a
behaviour that clears needs the policy's decision and the mission's branch on it
to agree (`TickSummary`); that needs the policy's types, which need the budget
(`attempts` stays within `MaxAttempts + 1` only because the attempt past the
budget latches the abort); the queue needs that the active waypoint is the head
of what remains, which needs `RecoveryInv` to know that a backup is of that
waypoint. `MissionWhateverTheHost` is the same for whoever ticks the mission.

`CalmTicksCount` is the heart of `MissionSettles`: a mission under way has
waypoints left, attempts left, a stage to go and time on a timer, natural numbers
all four, and each calm tick lowers them in lexicographic order until the mission
is settled, which it stays on calm ticks. A recovery that is charged buys itself a
new timer with an attempt, a waypoint that is done buys new attempts with itself.

**Bridge.** `StagedInv` says that nothing comes between assembling the inputs and
evaluating them; with it, what the supervisor saw is what the caches hold, and
`MotionNeedsSoundInputs` turns into a statement about messages. The supervisor's
guarantees, of states and of steps, carry over because each step of the bridge
is one of the supervisor's or leaves it alone (`SupervisorIsHosted`,
`WhateverTheHost`).

What the node can never do follows from what its topics lack: nothing arms a
reset (`NeverArmed`), so the latch is for good, and nothing withholds the
heartbeat, so the gateway's watchdog is never what stops the rover. An E-stop
reaches the latch because time, the timer and the return of the call each keep
the pulse until it is taken (`Fresh`, `Aged`, `Pending`, `Taken`);
`EStopHoldsForGood` joins the two: from then on the command is zero for ever.

**Mission node.** The tick's inputs are of the kind the orchestrator was
specified for, whatever was heard, so `IInv` and the ledger carry over;
`ClampOnlyLate` is inductive with the queue's types: a full queue loses its head,
never the message being sent. `PreparedGetsUnderWay` needs a proviso, that the
plan asks for no healthy sensor; `NoMissionWithMinimum` shows that it cannot be
weakened: with any other minimum the empty frame inhibits every tick, and
`Unbegun` is inductive. Together they are the finding `mission_never_prepared`
for every plan.

An abort ends with the clamp closed (`AbortReachesClamp`): the timer takes it, an
aborted mission sends nothing but ABORTED, and of the messages still in flight
each delivery leaves one fewer that says otherwise (`Behind`), while a send into
a full queue loses the oldest. The queue has at most ten places, as the nodes ask
for (`mission_node.py:112`, `nav2_velocity_clamp.py:84`), which makes a chain of
ten.

**Engine.** Whatever the faults do to a reading, it stays a reading; the frame
made of them is one the supervisor was specified for, and the signals made of
pose and zones are ones the mission was specified for. So the engine implements
both specifications, and the guarantees of the two hold in simulation, for every
scenario: `SupervisorSafeInSimulation`, and for a plan that is not empty
`MissionSafeInSimulation`, which instantiates the mission's proofs and first
shows that their mission is the engine's (`SameMission`).
`FaultInv` ties every fault's status to the time the injector last looked, so a
fault's age is the clock's and not a count of steps. `SilenceInv` says, fault by
fault, what silence leaves behind: a lost lidar was last read before the loss, a
late one shows nothing newer than its delay, and the gateway's watchdog has aged
at least as long as the silence; `PresentedInv` carries that to what the
supervisor is shown, and its own lemma (`MotionMeansNothingStops`) does the rest.
That the largest delay in force exists is proved by a smallest counterexample
(`LargestExists`), over the library's well-founded order of finite sets.
`KeepoutInv` says of a rover inside a keepout that its mission has not ended and
that it is less than a step's way inside, or where it started: the mission that sees the keepout is
inhibited before it requests anything, so the step that enters is the last one.
That step is bounded because the request is (`SpeedWithinRequest`) and neither
the arbitration nor the slip makes it larger.

Two results are about the vehicle and not about commands. Between two steps its
speed is within the limit of the supervisor's state, and zero in every state
without motion and under the latch (`VehicleKeepsLimits`): gateway, arbitration
and slip only take away. `ContactStopsTheRover` follows a contact from its step
through the bumper's reading to the answer: for as long as the reading shows it
the rover does not move. A contact set for a time between two steps is excluded
by its hypothesis, because the code never looks at one (section 5).

**Recorder.** A damaged line is noticed because digests are injective and differ
from the genesis link, both assumptions: a changed or torn line breaks its own
parse or its successor's link, a lost, doubled or swapped one breaks a link or
the count, and damage at the very end is told by the tip in the metadata. The
case that needs most care is a loss, after which every later line moves up
(`NoLineMovesUp`). The copies need no order of their own: the row of an event is
its rank among the events of its stream (`RowOf`), which later events leave
alone (`RowsOfOneMore`) and a prefix shares (`PrefixKeepsRows`). `CopiesInv` says
how far each stream is while an event is being copied: the event's own stream
may hold one row more than the accepted events, torn or whole.

**Rehearsal.** `SupervisedMotion` is not inductive: that a record may be extended
by a simulated motion depends on the phase. `RInv` keeps for each phase what has
been established, and for the record that validator and supervisor spoke in the
second and the third event; that the plan keeps the limits follows from the
validator's silence alone (`CleanPlans`). `FilesFollowAudit` speaks of the
moments when no tool runs; `FilesInv` adds what holds in between: the tool has
written the files before the `k`-th and has exactly the rest to do, and while it
writes the replay the audit is the one it read. `StoryInv` says that the status
of a record determines its transitions and the events its trace opens with
(`Told`), and once the supervisor has spoken that the verdicts in it are those on
its plan (`Judged`): what replay, analytics and a later validation read is a
function of the two.

**Compiler.** A compilation is one step, so the invariant only says where plan
and outcome come from; the work is in the lemmas on the operators: a status that
passes has no rejection (`StatusTells`), an objective that is not refused is
inside (`AcceptedIsInside`), a text that passes is clean (`CleanText`). That no
clause is lost is counting: the places of a text fall into three disjoint sets
(`ClauseIsOneOfThree`), and a list of clauses picked by rank has one entry for
each place (`RankTellsApart`, `ClausesAtPlaces`), which no induction over the
text is needed for.

**Assumptions.** Only the named `ASSUME`s of the modules: shapes of the constants
(weights, deadlines, timeouts, sets of inputs, clauses and their templates),
`warn < stale` for each stream, no waypoint called `NoWaypoint`, injective
digests. TLC evaluates each of them. The theorems on liveness have two further
hypotheses.

- A bound: `WarmUp <= 20` in `ComesToRest`, `Depth <= 10` in `AbortReachesClamp`.
  The temporal prover has no induction over numbers, so the chain of steps is
  written out, and its length is that of the code's defaults.
- Enabledness: `[]ENABLED <<Next>>_vars`, `[]TimerReady`, `[]NodeReady`. Weak
  fairness promises an action that stays enabled, and the provers do not look
  into `ENABLED`. Each is true of the models: TLC found `TimerReady` and
  `NodeReady` invariant when they were added to the runs `bridge` and `node`; the
  deadlock check of `supervisor` shows that `Next` can always be taken, and as
  every step either fills `inputs` or empties it, it is never a stutter.
  `SomeBranchApplies`, proved, is the part of it that is not a matter of reading
  a guard: whatever is presented, one of the branches of `evaluate` takes it.

**Model-checked only.** Two properties.

- `MissionSettles`. `CalmTicksCount` proves what each calm tick does; that a
  quantity which falls in a lexicographic order of natural numbers stops falling
  is an induction over time, and the code bounds neither the number of waypoints
  nor their timers, so it cannot be written out either.
- `RunsComeToTheirEnd`. That a run has recovered or completed its plan by its
  last step depends on the duration that the scenario gives it and on deadlines,
  speeds and distances together; it is a claim about chosen scenarios, not about
  all values of the constants.

`TrustsSafetyState` and the guarantees of `MissionSafeInSimulation` are proved
under the provisos their theorems name. Proved and not part of a run are the type
invariants of bridge, mission node, engine, recorder and rehearsal, the division
of the queue (`QueueCorrect`), the two hosting theorems of the engine,
`CalmTicksCount`, `VehicleKeepsLimits`, `ContactStopsTheRover`, and of the bridge
`EStopHoldsForGood` and `GatewayNeverExpires`.

## 5. Findings

Each of these is a run that violates what a document or comment of the
repository says.

- `stale_validation`: a validation not yet spent survives a second recovery; if
  that one fails, the rover is promoted on the strength of the first.
- `backup_timer`: a backup engaged over another recovery inherits its timer and
  may end at once, its attempt charged.
- `mission_never_prepared`: the mission node passes an empty frame, whose number
  of healthy sensors is below the default minimum, so that no mission with that
  default gets under way over ROS. The same property holds in `node`, where the
  minimum is zero.
- `watchdog_fault`: nothing reads a `watchdog_expiration` fault: it is armed,
  fires and clears, and no watchdog expires.

Met while modelling and not kept as runs:

*Supervisor, mission, nodes.*

- An E-stop during RECOVERY sets the latch, but the state stays RECOVERY
  (`supervisor.py:574`, against `docs/SAFETY_MODEL.md:318`): the table refuses
  the transition. Motion stays zero; `LatchInv` names the exception.
- SAFE_STOP is promoted on a tick that reports an expired watchdog
  (`supervisor.py:464` and `:512`, against `docs/SAFETY_MODEL.md:222` and `:260`);
  `WatchdogStopsMotion` and `SilenceStopsTheRover` name the exception.
- A keepout violation during a backup has one timeout charged twice, which with
  a budget of one aborts the mission (`recovery.py:131` and `:136`).
- No reset is accepted over ROS, as the node has no topic for the arming pulse
  (`safety_bridge_node.py:337` and `:341`, against `rover_ws/tests/manual.md:83`);
  `LatchIsForGood` says so, for every order of messages and ticks.
- A pause is dropped while the mission recovers or is degraded, and the clamp
  lets Nav2 move on (`orchestrator.py:314`, against `nav2_velocity_clamp.py:26`).
- Activation accepts disagreeing sensors (`supervisor.py:529`, against
  `docs/SAFETY_MODEL.md:66`) and degrades a tick later.
- Every cleared recovery restarts the waypoint's timer, not only a backup
  (`orchestrator.py:238`); a stop-and-reevaluate engaged before the start does
  not stop the first drive request (`orchestrator.py:350`, against `:525`).

*Engine.*

- Once more than 750 ms lie between two applied commands the gateway stays at
  zero for good: a timeout does not count as a command (`engine.py:128`).
- A silent consumer (`command_timeout`) does not stop the gateway from consuming
  (against `docs/FAULT_INJECTION.md:188`); the heartbeat's watchdog is what stops
  the rover.
- A fault window between two steps never acts; a loss of the lidar keeps delayed
  packets from being read; a contact counts only if its time is that of a step.
- With the default clearance the rover's own speed makes the simulated lidar
  report an obstacle, so that it drives in starts and stops.
- An activation on the first step is lost, because BOOT refuses it.

*Recorder.*

- The summary of an earlier run survives a rerun, and vouches for a later one
  that never wrote its own; a crashed run is told by a missing summary or by a
  warning only.
- The event file is emptied before the streams of an earlier run
  (`run_recorder.py:97-112`): a crash in between leaves old rows beside an event
  file without a line. `CopiesFollowEvents` names the exception.
- Metadata is not replaced in one step, and `engine.run` has no `finally`: a
  crash while finalizing leaves no readable metadata.
- The recorder takes events after it is finalized and until it is closed; the
  validators then turn the run down by its count.
- No validator compares the copies with the events.

*Rehearsal.*

- A plan "must end in a stop or dock waypoint"
  (`docs/REHEARSAL_SAFETY_BOUNDARY.md:52`): the validator asks for one anywhere
  (`rehearsal_validator.py:141`), and for none at all if the plan only inspects.
  Both plans are in the run.
- `/cmd_vel_requested` "is the only motion-bearing topic" (`:54`): a plan may ask
  for any topic but `/cmd_vel`, as long as this one is among them when something
  moves (`rehearsal_validator.py:122`). `while True:` is to be rejected "in any
  input text" (`:40`): only the proposal source and the notes are searched
  (`:151`, `:160`). `WithinLimits` names these and the one before.
- The diagnostics of the request are printed and dropped
  (`run_mission_rehearsal.py:105`), so that a rehearsal may complete whose stored
  audit is later found invalid; `OutcomeIsTold` names the exception.
- A rerun overwrites the bundle of an earlier one, file by file.

*Authoring.*

- `docs/NATURAL_LANGUAGE_MISSION_COMPILER.md:104` says that a critical mission is
  never passed automatically; the status ignores the risk band. Four inspections
  reach the critical band and are `compile_ok`; a text of three does not.
- `validate_mission_plan` compares only the recorded hash with that of the
  recompiled text: an edited objective, graph or status in a stored plan is
  called reproducible.
- "pause at alpha, avoid alpha" is accepted, and so is "return to dock, avoid
  dock": the search for contradictions looks at moves, patrols and inspections
  only (`constraints.py:101`, against `docs/MISSION_ASSURANCE_MODEL.md:59`);
  `AcceptedStaysWithinOdd` names the exception.
- A phrase that only the compiler's list has, such as "bypass supervisor", passes
  both gates in a field of a proposal that is not compiled, as the sanitizer reads
  that field with its own list (`sanitizer.py:112`); `NoUnreviewedPass` names the
  exception, and the run contains it.
- "avoid restricted corridors" is matched by the template of a region to avoid
  before the one of corridors.

## 6. Not modelled

*In modelled parts.* Floating-point geometry (steering, the second dimension of
zones, noise), wording, messages dropped because a value is not finite, a clock
that is set back, ROS discovery and transport other than the queue to the clamp.
Restarting a node is its initial state again; what is lost then (the latch) is
listed as a hazard. The recorder's state, command, sensor and world-model
streams and the schema of an event are left out, as are Markdown and diagrams in
the rehearsal's bundle, and in the compiler the splitting of a text into
clauses, the plan's hash and the replay binding.

*Other parts.* Most of the code is batch computation: verification of
requirements, runtime validation and host qualification, programme reviews,
incident analysis, analytics and exports read files and write a report, keep
nothing between inputs and run alone. A model of them would restate their rules,
and no order of events could go wrong in it. Skill authoring matches patterns
and walks syntax trees over the text of a program; its rules are about strings.
The registry compares files with recorded digests and rebuilds them; what a
crash leaves is found by the next comparison. Its in-place write, its trust in
the recorded verdict and its failure on a torn file (against the docstring of
`hydrate_registry`) are known and are not modelled. HTTP gateway, console, ROS
launch files, adapters and observers show or pass on what others decide. The
share of the repository's lines that the models cover is small for this reason.

## 7. Plan

Done: supervisor, mission, bridge, mission node and clamp, engine with injector,
sensors and gateway, recorder and validators, rehearsal, compiler and proposals,
each with its proofs.

Left, in this order:

1. Bridge and mission node composed: two publishers of one request topic, a
   silent odometry, an abort that reaches the gateway as zero.
2. The registry: hydration, verdicts on stored artefacts, a crash while it is
   written.
3. Proofs: what the composition of 1 guarantees its operator, from the theorems
   on its two halves.
