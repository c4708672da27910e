------------------------- MODULE MissionNode_proofs -------------------------
(***************************************************************************)
(* Proofs about the mission and clamp nodes, for every plan, every number  *)
(* of sensors asked for, every gap between ticks and every depth of the    *)
(* queue.                                                                  *)
(*                                                                         *)
(* The node presents the orchestrator with inputs it was specified for, so *)
(* the mission's invariant carries over; the queue adds its own.           *)
(***************************************************************************)
EXTENDS MissionNode, MissionOrchestrator_proofs

-----------------------------------------------------------------------------
(***************************************************************************)
(* The mission inside the node.                                            *)
(***************************************************************************)
\* The node's own variables have their types.
QueueTypeOK ==
  /\ heard \subseteq SafetySignal
  /\ operator \subseteq OperatorTopic
  /\ inFlight \in Seq(MissionState) /\ Len(inFlight) <= Depth
  /\ clampState \in MissionState

NodeInv == IInv /\ QueueTypeOK /\ ClampOnlyLate

\* Whatever was heard and whichever pulses are set, the tick's inputs are of
\* the kind the orchestrator was told to expect (mission_node.py _tick).
LEMMA InputsTyped ==
  ASSUME NEW pose \in PoseSignals, NEW gap \in Gaps, QueueTypeOK
  PROVE  TickInputs(pose, gap) \in MissionInputs
<1> DEFINE in == TickInputs(pose, gap)
<1>1. pose \subseteq PoseSignal /\ ~({"keepout_violation", "keepout_pending"} \subseteq pose)
  BY NodeAssumption
<1>2. operator \ Command \subseteq {"operator_recovery"}
  BY DEF QueueTypeOK, OperatorTopic
<1>3. FrameSignals \subseteq {"sensors_degraded"}
  BY DEF FrameSignals
<1>4. in.signals \subseteq Signal
  BY <1>1, <1>2, <1>3 DEF TickInputs, QueueTypeOK, Signal, SafetySignal, PoseSignal
<1>5. ~({"keepout_violation", "keepout_pending"} \subseteq in.signals)
  BY <1>1, <1>2, <1>3 DEF TickInputs, QueueTypeOK, SafetySignal
<1>6. in \in [commands : SUBSET Command, signals : SUBSET Signal, gap : Gaps]
  BY <1>4 DEF TickInputs
<1>7. in \in NodeInputs
  BY <1>5, <1>6 DEF NodeInputs
<1> QED BY <1>7, NodeAssumption

\* Each step of the nodes is a tick of the mission or leaves it alone.
LEMMA NodeStepHosts ==
  ASSUME QueueTypeOK, [NodeNext]_allVars
  PROVE  [Next]_vars
<1>1. CASE TimerFires
  <2>1. PICK pose \in PoseSignals, gap \in Gaps : NodeTick(pose, gap)
    BY <1>1 DEF TimerFires
  <2>2. Tick(TickInputs(pose, gap))
    BY <2>1 DEF NodeTick
  <2> QED BY <2>2, InputsTyped DEF Next
<1>2. CASE ~TimerFires
  BY <1>2 DEF NodeNext, allVars, OnSafety, SetOp, OnState
<1> QED BY <1>1, <1>2

-----------------------------------------------------------------------------
(***************************************************************************)
(* The queue.                                                              *)
(***************************************************************************)
\* A full queue loses its oldest message, and never the one being sent.
LEMMA SentFacts ==
  ASSUME NEW S, NEW m \in S, inFlight \in Seq(S), Len(inFlight) <= Depth
  PROVE  /\ Sent(m) \in Seq(S) /\ Len(Sent(m)) <= Depth
         /\ Sent(m) # <<>> /\ Sent(m)[Len(Sent(m))] = m
<1>1. Depth \in Nat \ {0}
  BY NodeAssumption
<1>2. CASE Len(inFlight) < Depth
  BY <1>1, <1>2 DEF Sent
<1>3. CASE ~(Len(inFlight) < Depth)
  <2>1. inFlight # <<>>
    BY <1>1, <1>3
  <2>2. Tail(inFlight) \in Seq(S) /\ Len(Tail(inFlight)) = Len(inFlight) - 1
    BY <2>1
  <2>3. Sent(m) = Append(Tail(inFlight), m)
    BY <1>3 DEF Sent
  <2> QED BY <1>1, <2>1, <2>2, <2>3
<1> QED BY <1>2, <1>3

\* Receiving keeps the newest message newest (nav2_velocity_clamp.py _on_state).
LEMMA OnStateKeeps ==
  ASSUME QueueTypeOK, ClampOnlyLate, OnState
  PROVE  QueueTypeOK' /\ ClampOnlyLate'
<1>1. /\ inFlight # <<>> /\ clampState' = Head(inFlight) /\ inFlight' = Tail(inFlight)
      /\ mission' = mission /\ heard' = heard /\ operator' = operator
  BY DEF OnState, vars, missionVars
<1>2. inFlight \in Seq(MissionState) /\ Len(inFlight) <= Depth
  BY DEF QueueTypeOK
<1>3. /\ Head(inFlight) \in MissionState /\ Tail(inFlight) \in Seq(MissionState)
      /\ Len(Tail(inFlight)) = Len(inFlight) - 1 /\ Len(inFlight) \in Nat \ {0}
      /\ \A i \in 1 .. Len(Tail(inFlight)) : Tail(inFlight)[i] = inFlight[i + 1]
  BY <1>1, <1>2, HeadTailProperties, EmptySeq
<1>4. Depth \in Nat
  BY NodeAssumption
<1>5. QueueTypeOK'
  BY <1>1, <1>2, <1>3, <1>4 DEF QueueTypeOK
<1>6. CASE Len(inFlight) = 1
  <2>1. Tail(inFlight) = <<>>
    <3>1. Len(Tail(inFlight)) = 0
      BY <1>3, <1>6
    <3> QED BY <1>3, <3>1, EmptySeq
  <2>2. Head(inFlight) = inFlight[Len(inFlight)]
    BY <1>1, <1>2, <1>6
  <2> QED BY <1>1, <1>5, <2>1, <2>2 DEF ClampOnlyLate, NewestSent
<1>7. CASE Len(inFlight) # 1
  <2>1. Len(Tail(inFlight)) \in 1 .. Len(Tail(inFlight))
    BY <1>3, <1>7
  <2>2. Tail(inFlight) # <<>>
    <3>1. Len(<<>>) = 0
      OBVIOUS
    <3>2. Len(Tail(inFlight)) # 0
      BY <1>3, <1>7
    <3> QED BY <3>1, <3>2, Zenon
  <2>3. Tail(inFlight)[Len(Tail(inFlight))] = inFlight[Len(inFlight)]
    BY <1>3, <2>1
  <2> QED BY <1>1, <1>5, <2>2, <2>3 DEF ClampOnlyLate, NewestSent
<1> QED BY <1>6, <1>7, <1>5

\* Every step keeps the queue's types and what the clamp will know.
LEMMA QueueKept ==
  ASSUME NodeInv, IInv', [NodeNext]_allVars
  PROVE  QueueTypeOK' /\ ClampOnlyLate'
<1>0. QueueTypeOK /\ ClampOnlyLate
  BY DEF NodeInv
<1>1. ASSUME NEW pose \in PoseSignals, NEW gap \in Gaps, NodeTick(pose, gap)
      PROVE  QueueTypeOK' /\ ClampOnlyLate'
  <2>1. mission' \in MissionState
    BY DEF IInv, TypeOK
  <2>2. inFlight \in Seq(MissionState) /\ Len(inFlight) <= Depth
    BY <1>0 DEF QueueTypeOK
  <2>3. /\ Sent(mission') \in Seq(MissionState) /\ Len(Sent(mission')) <= Depth
        /\ Sent(mission') # <<>> /\ Sent(mission')[Len(Sent(mission'))] = mission'
    BY <2>1, <2>2, SentFacts
  <2>4. /\ operator' = {} /\ heard' = heard /\ clampState' = clampState
        /\ inFlight' = Sent(mission')
    BY <1>1 DEF NodeTick
  <2> QED BY <1>0, <2>3, <2>4 DEF QueueTypeOK, ClampOnlyLate, NewestSent
<1>2. CASE OnSafety
  <2>1. heard' \subseteq SafetySignal
    BY <1>2, NodeAssumption DEF OnSafety
  <2> QED BY <1>0, <1>2, <2>1 DEF OnSafety, QueueTypeOK, ClampOnlyLate, NewestSent,
                                  vars, missionVars
<1>3. ASSUME NEW p \in OperatorTopic, SetOp(p)
      PROVE  QueueTypeOK' /\ ClampOnlyLate'
  BY <1>0, <1>3 DEF SetOp, QueueTypeOK, ClampOnlyLate, NewestSent, vars, missionVars
<1>4. CASE OnState
  BY <1>0, <1>4, OnStateKeeps
<1>5. CASE UNCHANGED allVars
  BY <1>0, <1>5 DEF allVars, nodeVars, QueueTypeOK, ClampOnlyLate, NewestSent, vars,
                    missionVars
<1> QED BY <1>1, <1>2, <1>3, <1>4, <1>5 DEF NodeNext, TimerFires

-----------------------------------------------------------------------------
(***************************************************************************)
(* Theorems.                                                               *)
(***************************************************************************)
LEMMA NodeInitInv == NodeInit => NodeInv
<1> SUFFICES ASSUME NodeInit PROVE NodeInv
  OBVIOUS
<1>1. IInv
  BY InitTyped DEF NodeInit
<1>2. QueueTypeOK
  BY NodeAssumption DEF NodeInit, QueueTypeOK, MissionState
<1>3. ClampOnlyLate
  BY DEF NodeInit, Init, ClampOnlyLate, NewestSent
<1> QED BY <1>1, <1>2, <1>3 DEF NodeInv

LEMMA NodeInvStep ==
  ASSUME NodeInv, [NodeNext]_allVars
  PROVE  NodeInv'
<1>1. IInv'
  BY NodeStepHosts, StepTyped DEF NodeInv
<1>2. QueueTypeOK' /\ ClampOnlyLate'
  BY <1>1, QueueKept
<1> QED BY <1>1, <1>2 DEF NodeInv

LEMMA NodeInvariant == NodeSpec => []NodeInv
BY NodeInitInv, NodeInvStep, PTL DEF NodeSpec

\* Every reachable state of both nodes and of the mission they host is well
\* typed: the queue stays within its depth however slow the clamp is.
THEOREM NodeTypeCorrect == NodeSpec => []NodeTypeOK
<1>1. NodeInv => NodeTypeOK
  BY DEF NodeInv, IInv, QueueTypeOK, NodeTypeOK
<1> QED BY <1>1, NodeInvariant, PTL

\* However many messages the queue drops, the newest mission state that the
\* clamp holds or will be sent is the mission's own.
THEOREM ClampIsOnlyLate == NodeSpec => []ClampOnlyLate
<1>1. NodeInv => ClampOnlyLate
  BY DEF NodeInv
<1> QED BY <1>1, NodeInvariant, PTL

\* What the mission guarantees its caller holds over ROS: no waypoint is lost,
\* no recovery stranded, the budget is kept and timers run.
THEOREM MissionSafeOverRos ==
  NodeSpec => [](QueueInv /\ RecoveryInv /\ BudgetInv /\ TimerInv)
<1>1. NodeInv => QueueInv /\ RecoveryInv /\ BudgetInv /\ TimerInv
  BY DEF NodeInv, IInv
<1> QED BY <1>1, NodeInvariant, PTL

\* The mission that the node ticks is used as its specification says, so over
\* ROS too it implements the ledger and asks for motion only with nothing to
\* inhibit it (mission_node.py _tick).
THEOREM LedgerKeptOverRos == NodeSpec => InhibitedMeansStill /\ ImplementsLedger
<1>1. NodeInit => Init
  BY DEF NodeInit
<1>2. NodeInv /\ [NodeNext]_allVars => [Next]_vars
  BY NodeStepHosts DEF NodeInv
<1> QED BY <1>1, <1>2, NodeInvariant, MissionWhateverTheHost, PTL DEF NodeSpec

-----------------------------------------------------------------------------
(***************************************************************************)
(* A prepared mission gets under way.                                      *)
(***************************************************************************)
\* With no sensor asked for, a tick on which nobody commands and neither the
\* safety state nor the pose holds the mission is not inhibited.
LEMMA NothingHolds ==
  ASSUME MinimumSensorHealth = 0, NEW pose \in PoseSignals, NEW gap \in Gaps,
         mission = "PREPARING", operator = {}, heard = {}, "keepout_violation" \notin pose
  PROVE  /\ Commanded(TickInputs(pose, gap)) = "PREPARING"
         /\ ~MotionInhibited(TickInputs(pose, gap))
<1> DEFINE in == TickInputs(pose, gap)
<1>1. FrameSignals = {}
  BY DEF FrameSignals, HealthySensors
<1>2. in.commands = {} /\ in.signals = pose
  BY <1>1 DEF TickInputs
<1>3. Inhibitors \cap pose = {}
  BY NodeAssumption DEF PoseSignal, Inhibitors
<1> HIDE DEF in
<1>4. Commanded(in) = "PREPARING"
  BY <1>2 DEF Commanded
<1>5. ~MotionInhibited(in)
  BY <1>2, <1>3, <1>4 DEF MotionInhibited
<1> QED BY <1>4, <1>5 DEF in

\* A prepared mission whose motion is not inhibited becomes active, or complete
\* when its queue is empty (orchestrator.py _determine_next_state).
LEMMA PreparedLeaves ==
  ASSUME NEW in, mission = "PREPARING", Commanded(in) = "PREPARING", ~MotionInhibited(in),
         Tick(in)
  PROVE  mission' \in {"ACTIVE", "COMPLETE"}
<1>1. Determined(in) = "ACTIVE"
  <2>1. Moved("PREPARING", "ACTIVE") = "ACTIVE"
    BY DEF Moved, AllowedMissionTransitions
  <2>2. "PREPARING" \notin UnderWay
    BY DEF UnderWay
  <2> QED BY <2>1, <2>2 DEF Determined
<1>2. ~Rest(in) /\ ~FinishAbort(in) /\ ~Recover(in)
  BY <1>1 DEF Rest, FinishAbort, Recover, UnderWay
<1> QED BY <1>2 DEF Tick, DriveOn, Reach, Complete

\* A prepared mission that neither the operator, the safety state, the
\* confidence nor a keepout holds gets under way at the next tick, whatever the
\* plan, the timeouts and the budget are (mission_node.py _tick): the constraints
\* fall back to the safety state, provided the plan asks for no healthy sensor.
\* The proviso is what the code needs; with the default minimum the run
\* mission_never_prepared refutes the same property.
THEOREM PreparedGetsUnderWay ==
  ASSUME MinimumSensorHealth = 0
  PROVE  NodeSpec => TrustsSafetyState
<1>1. ASSUME NEW pose \in PoseSignals, NEW gap \in Gaps,
             mission = "PREPARING", mission' = "PREPARING", operator = {}, heard = {},
             "keepout_violation" \notin pose
      PROVE  ~NodeTick(pose, gap)
  <2> SUFFICES ASSUME NodeTick(pose, gap) PROVE FALSE
    OBVIOUS
  <2>1. Tick(TickInputs(pose, gap))
    BY DEF NodeTick
  <2>2. mission' \in {"ACTIVE", "COMPLETE"}
    BY <1>1, <2>1, NothingHolds, PreparedLeaves
  <2> QED BY <1>1, <2>2
<1>2. [NodeNext]_allVars =>
        [\A pose \in PoseSignals, gap \in Gaps :
           mission = "PREPARING" /\ mission' = "PREPARING" /\ operator = {} /\ heard = {}
             /\ "keepout_violation" \notin pose => ~NodeTick(pose, gap)]_allVars
  BY <1>1
<1> QED BY <1>2, PTL DEF NodeSpec, TrustsSafetyState
\* A mission that never began.
Unbegun == mission \in {"IDLE", "PREPARING", "ABORTING", "ABORTED"} /\ request = "none"

LEMMA UnbegunStep ==
  ASSUME Unbegun, NEW in, "sensors_degraded" \in in.signals, Tick(in)
  PROVE  Unbegun'
<1> DEFINE Before == {"IDLE", "PREPARING", "ABORTING", "ABORTED"}
<1>1. MotionInhibited(in)
  BY DEF MotionInhibited, Inhibitors
<1>2. /\ Moved("IDLE", "ABORTING") = "IDLE" /\ Moved("PREPARING", "ABORTING") = "ABORTING"
      /\ Moved("ABORTING", "ABORTED") = "ABORTED"
  BY DEF Moved, AllowedMissionTransitions
<1>3. Commanded(in) \in Before
  BY <1>2 DEF Unbegun, Commanded
<1>4. Before \cap UnderWay = {}
  BY DEF UnderWay
<1>5. Determined(in) \in Before
  BY <1>1, <1>2, <1>3, <1>4 DEF Determined
<1>6. Determined(in) \notin {"DEGRADED", "RECOVERY", "ACTIVE"}
  BY <1>5
<1>7. ~Recover(in) /\ ~DriveOn(in) /\ ~Reach(in) /\ ~Complete(in)
  BY <1>6 DEF Recover, DriveOn, Reach, Complete
<1>8. Rest(in) \/ FinishAbort(in)
  BY <1>7 DEF Tick
<1> QED BY <1>5, <1>8 DEF Unbegun, Rest, FinishAbort

\* The proviso of PreparedGetsUnderWay cannot be weakened: with any minimum
\* above zero, the default among them, no mission over ROS ever gets under way
\* or requests motion, because _tick evaluates an empty frame (mission_node.py
\* _tick, constraints.py evaluate_constraints).
THEOREM NoMissionWithMinimum ==
  ASSUME MinimumSensorHealth > 0
  PROVE  NodeSpec => []Unbegun
<1>1. FrameSignals = {"sensors_degraded"}
  BY NodeAssumption DEF FrameSignals, HealthySensors
<1>2. NodeInit => Unbegun
  BY DEF NodeInit, Init, Unbegun
<1>3. ASSUME Unbegun, [NodeNext]_allVars PROVE Unbegun'
  <2>1. ASSUME NEW pose \in PoseSignals, NEW gap \in Gaps, NodeTick(pose, gap)
        PROVE  Unbegun'
    <3>1. Tick(TickInputs(pose, gap)) /\ "sensors_degraded" \in TickInputs(pose, gap).signals
      BY <1>1, <2>1 DEF NodeTick, TickInputs
    <3> QED BY <1>3, <3>1, UnbegunStep
  <2>2. CASE UNCHANGED vars
    BY <1>3, <2>2 DEF vars, missionVars, Unbegun
  <2> QED BY <1>3, <2>1, <2>2 DEF NodeNext, TimerFires, allVars, OnSafety, SetOp, OnState
<1> QED BY <1>2, <1>3, PTL DEF NodeSpec

-----------------------------------------------------------------------------
(***************************************************************************)
(* An abort is for good, and reaches the clamp.                            *)
(***************************************************************************)
Over == mission = "ABORTED"

\* Nothing leaves ABORTED (orchestrator.py ALLOWED_TRANSITIONS).
LEMMA OverStays ==
  ASSUME Over, [NodeNext]_allVars
  PROVE  Over'
<1>1. ASSUME NEW in, Tick(in) PROVE Over'
  <2>1. Commanded(in) = "ABORTED"
    BY DEF Commanded, Over
  <2>2. Determined(in) = "ABORTED"
    BY <2>1 DEF Determined, UnderWay
  <2> QED BY <1>1, <2>2 DEF Tick, Rest, FinishAbort, Recover, DriveOn, Reach, Complete, Over
<1>2. CASE TimerFires
  BY <1>1, <1>2 DEF TimerFires, NodeTick
<1>3. CASE ~TimerFires
  BY <1>3 DEF NodeNext, OnSafety, SetOp, OnState, allVars, vars, missionVars, Over
<1> QED BY <1>2, <1>3

\* The tick that takes an abort finishes it: aborting is passed through.
LEMMA AbortTaken ==
  ASSUME mission \in MissionState, "abort" \in operator,
         mission \notin {"IDLE", "COMPLETE"}, TimerFires
  PROVE  Over'
<1>1. PICK pose \in PoseSignals, gap \in Gaps : NodeTick(pose, gap)
  BY DEF TimerFires
<1> DEFINE in == TickInputs(pose, gap)
<1>2. "abort" \in in.commands /\ Tick(in)
  BY <1>1 DEF NodeTick, TickInputs, Command
<1> HIDE DEF in
<1>3. Commanded(in) \in {"ABORTING", "ABORTED"}
  BY <1>2 DEF Commanded, Moved, AllowedMissionTransitions, MissionState
<1>4. Determined(in) = "ABORTED"
  BY <1>3 DEF Determined, Moved, AllowedMissionTransitions, UnderWay
<1> QED BY <1>2, <1>4 DEF Tick, Rest, FinishAbort, Recover, DriveOn, Reach, Complete, Over,
                          UnderWay

\* Until then it is kept, whichever pulses and messages come.
LEMMA AbortKept ==
  ASSUME "abort" \in operator, [NodeNext]_allVars, ~TimerFires
  PROVE  "abort" \in operator' /\ mission' = mission
BY DEF NodeNext, OnSafety, SetOp, OnState, allVars, nodeVars, vars, missionVars

\* What is in flight is at most k messages behind.
Lag(k) == \A i \in DOMAIN inFlight : i > k => inFlight[i] = "ABORTED"

\* Taking the head of a queue leaves its other messages, each one place nearer.
LEMMA HeadTaken ==
  ASSUME NEW S, NEW q \in Seq(S), q # <<>>
  PROVE  /\ Head(q) = q[1] /\ 1 \in DOMAIN q
         /\ Tail(q) \in Seq(S)
         /\ \A i \in DOMAIN Tail(q) : i + 1 \in DOMAIN q /\ Tail(q)[i] = q[i + 1]
<1>1. /\ Head(q) = q[1] /\ Len(q) \in Nat \ {0} /\ Tail(q) \in Seq(S)
      /\ Len(Tail(q)) = Len(q) - 1
      /\ \A i \in 1 .. Len(Tail(q)) : Tail(q)[i] = q[i + 1]
  BY HeadTailProperties, EmptySeq
<1>2. DOMAIN q = 1 .. Len(q) /\ DOMAIN Tail(q) = 1 .. Len(Tail(q))
  BY <1>1
<1> QED BY <1>1, <1>2

LEMMA LagStep ==
  ASSUME NEW k \in Nat, QueueTypeOK, Over, Lag(k), [NodeNext]_allVars
  PROVE  Lag(k)'
<1>1. inFlight \in Seq(MissionState)
  BY DEF QueueTypeOK
<1>2. ASSUME NEW q \in Seq(MissionState), \A i \in DOMAIN q : i > k => q[i] = "ABORTED",
             inFlight' = Append(q, "ABORTED")
      PROVE  Lag(k)'
  <2>1. "ABORTED" \in MissionState
    BY DEF MissionState
  <2>2. /\ DOMAIN q = 1 .. Len(q) /\ Len(q) \in Nat
        /\ DOMAIN Append(q, "ABORTED") = 1 .. Len(q) + 1
        /\ \A i \in 1 .. Len(q) : Append(q, "ABORTED")[i] = q[i]
        /\ Append(q, "ABORTED")[Len(q) + 1] = "ABORTED"
    BY <2>1, AppendProperties
  <2> QED BY <1>2, <2>2 DEF Lag
<1>3. CASE OnState
  BY <1>1, <1>3, HeadTaken DEF OnState, Lag
<1>4. CASE TimerFires
  <2>1. inFlight' = Sent("ABORTED")
    BY <1>4, OverStays DEF TimerFires, NodeTick, NodeNext, Over
  <2>2. CASE inFlight' = Append(inFlight, "ABORTED")
    BY <1>1, <1>2, <2>2 DEF Lag
  <2>3. CASE inFlight' = Append(Tail(inFlight), "ABORTED") /\ inFlight # <<>>
    <3>1. /\ Tail(inFlight) \in Seq(MissionState)
          /\ \A i \in DOMAIN Tail(inFlight) : i > k => Tail(inFlight)[i] = "ABORTED"
      BY <1>1, <2>3, HeadTaken DEF Lag
    <3> QED BY <1>2, <2>3, <3>1
  <2>4. inFlight = <<>> => Len(inFlight) < Depth
    BY NodeAssumption
  <2> QED BY <2>1, <2>2, <2>3, <2>4 DEF Sent
<1>5. CASE UNCHANGED inFlight
  BY <1>5 DEF Lag
<1> QED BY <1>3, <1>4, <1>5 DEF NodeNext, OnSafety, SetOp, allVars, nodeVars

\* Each message the clamp receives brings it one nearer.
LEMMA LagShrinks ==
  ASSUME NEW k \in Nat, QueueTypeOK, Lag(k + 1), OnState
  PROVE  Lag(k)'
<1>1. inFlight \in Seq(MissionState)
  BY DEF QueueTypeOK
<1>2. \A i \in DOMAIN Tail(inFlight) : i + 1 \in DOMAIN inFlight /\ i \in Nat
                                         /\ Tail(inFlight)[i] = inFlight[i + 1]
  BY <1>1, HeadTaken DEF OnState
<1> QED BY <1>2 DEF OnState, Lag

\* The timer can fire while an abort waits for it, and the clamp receive what is
\* there.  The prover does not look into ENABLED; TLC finds both in every state
\* of the instance.
NodeReady ==
  /\ "abort" \in operator => ENABLED <<TimerFires>>_allVars
  /\ inFlight # <<>> => ENABLED <<OnState>>_allVars

Behind(k) == Over /\ Lag(k)

\* What a step does to a clamp that is k messages behind: the clamp stays so
\* until it receives one, and then it is j behind.
Closer(k, j) ==
  /\ Behind(k) => inFlight # <<>> \/ Behind(j)
  /\ NodeInv /\ Behind(k) /\ [NodeNext]_allVars => Behind(k)'
  /\ NodeInv /\ Behind(k) /\ <<OnState>>_allVars => Behind(j)'

LEMMA CloserByOne ==
  ASSUME NEW k \in Nat, NEW j \in Nat, k = j + 1
  PROVE  Closer(k, j)
<1>1. Behind(k) /\ inFlight = <<>> => Behind(j)
  BY DEF Behind, Lag
<1>2. NodeInv /\ Behind(k) /\ [NodeNext]_allVars => Behind(k)'
  BY OverStays, LagStep DEF NodeInv, Behind
<1>3. NodeInv /\ Behind(k) /\ <<OnState>>_allVars => Behind(j)'
  BY OverStays, LagShrinks DEF NodeInv, NodeNext, Behind
<1> QED BY <1>1, <1>2, <1>3 DEF Closer

\* The depth given to both ends of the queue (mission_node.py, latched;
\* nav2_velocity_clamp.py, the subscription to /mission/state).
LEMMA TenMessages ==
  NodeSpec /\ []NodeReady => (Behind(10) ~> Behind(0))
<1>1. /\ Closer(10, 9) /\ Closer(9, 8) /\ Closer(8, 7) /\ Closer(7, 6) /\ Closer(6, 5)
      /\ Closer(5, 4) /\ Closer(4, 3) /\ Closer(3, 2) /\ Closer(2, 1) /\ Closer(1, 0)
  BY CloserByOne
<1> QED BY <1>1, NodeInvariant, PTL DEF Closer, NodeReady, NodeSpec

\* A clamp that is behind by nothing is aborted, or will be with the next
\* message, and no message makes it anything else.
LEMMA NothingBehind ==
  ASSUME NodeInv, Behind(0)
  PROVE  /\ clampState # "ABORTED" => inFlight # <<>>
         /\ [NodeNext]_allVars /\ clampState = "ABORTED" => clampState' = "ABORTED"
         /\ OnState => clampState' = "ABORTED"
<1>1. ASSUME OnState PROVE clampState' = "ABORTED"
  <2>1. inFlight \in Seq(MissionState) /\ inFlight # <<>> /\ clampState' = Head(inFlight)
    BY <1>1 DEF NodeInv, QueueTypeOK, OnState
  <2>2. Head(inFlight) = inFlight[1] /\ 1 \in DOMAIN inFlight
    BY <2>1, HeadTaken
  <2> QED BY <2>1, <2>2 DEF Behind, Lag
<1>2. ~OnState /\ [NodeNext]_allVars => clampState' = clampState
  BY DEF NodeNext, OnSafety, SetOp, TimerFires, NodeTick, allVars, nodeVars
<1>3. inFlight = <<>> => clampState = "ABORTED"
  BY DEF NodeInv, ClampOnlyLate, NewestSent, Behind, Over
<1> QED BY <1>1, <1>2, <1>3

\* An abort of a started mission is never lost: mission and clamp both end up
\* aborted and stay so (mission_node.py _set_op, _tick; nav2_velocity_clamp.py
\* _on_state), for every plan and with a queue of the depth the nodes ask for.
THEOREM AbortReachesClamp ==
  ASSUME Depth <= 10
  PROVE  NodeSpec /\ []NodeReady => AbortClosesClamp
<1> DEFINE Asked == "abort" \in operator /\ mission \notin {"IDLE", "COMPLETE"}
           Closed == clampState = "ABORTED"
           Waiting == inFlight # <<>>
<1>1. NodeInv /\ Asked /\ [NodeNext]_allVars => Asked' \/ Over'
  BY AbortTaken, AbortKept DEF NodeInv, IInv, TypeOK
<1>2. NodeInv /\ Asked /\ <<TimerFires>>_allVars => Over'
  BY AbortTaken DEF NodeInv, IInv, TypeOK
<1>3. Asked => "abort" \in operator
  OBVIOUS
<1>4. Over /\ [NodeNext]_allVars => Over'
  BY OverStays
<1>5. NodeInv /\ Over => Behind(10)
  BY NodeAssumption DEF NodeInv, QueueTypeOK, Behind, Lag
<1>6. NodeInv /\ Behind(0) /\ [NodeNext]_allVars => Behind(0)'
  BY OverStays, LagStep DEF NodeInv, Behind
<1>7. NodeInv /\ Behind(0) => Closed \/ Waiting
  BY NothingBehind
<1>8. NodeInv /\ Behind(0) /\ [NodeNext]_allVars => (Closed => Closed')
  BY NothingBehind
<1>9. NodeInv /\ Behind(0) /\ <<OnState>>_allVars => Closed'
  BY NothingBehind
<1>10. Behind(0) /\ Closed => mission = "ABORTED" /\ clampState = "ABORTED"
  BY DEF Behind, Over
<1> HIDE DEF Closed
<1> QED BY <1>1, <1>2, <1>3, <1>4, <1>5, <1>6, <1>7, <1>8, <1>9, <1>10, TenMessages,
           NodeInvariant, PTL DEF NodeReady, NodeSpec, AbortClosesClamp, Asked, Waiting
=============================================================================
