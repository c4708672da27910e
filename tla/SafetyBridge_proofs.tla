------------------------- MODULE SafetyBridge_proofs -------------------------
(***************************************************************************)
(* Proofs about the ROS bridge, for every set of required streams, every   *)
(* freshness limit, request lifetime and lateness of the timer.            *)
(*                                                                         *)
(* The bridge runs the supervisor's own actions, so the supervisor's step  *)
(* lemmas carry over.  What has to be added is that the frame under        *)
(* evaluation is the one assembled from the caches as they still are.      *)
(***************************************************************************)
EXTENDS SafetyBridge, SafetySupervisor_proofs

-----------------------------------------------------------------------------
(***************************************************************************)
(* The invariant.                                                          *)
(***************************************************************************)
\* A flag computed from readings is only set once they are there.
FlagsInv ==
  /\ bumper => sinceHeard["contact"] # NeverHeard
  /\ ratesDisagree => \A s \in {"imu", "encoder"} :
                        s \in RequiredStreams /\ sinceHeard[s] # NeverHeard

\* Nothing comes between assembling the inputs and evaluating them.
StagedInv ==
  inputs # NoInputs => /\ inputs.frame = AssembledFrame
                       /\ inputs.request = AssembledRequest

BridgeInv == BridgeTypeOK /\ LatchInv /\ FlagsInv /\ StagedInv /\ MovingMeansHeard

\* The ages are never negative, except that of what was never heard.
LEMMA Ages ==
  ASSUME BridgeTypeOK
  PROVE  /\ \A s \in Stream :
              /\ sinceHeard[s] \in {NeverHeard} \cup Nat
              /\ HeardLimit(s) \in Nat /\ StaleAfter[s] \in Nat
         /\ sinceRequest \in {NeverHeard} \cup Nat
         /\ RequestLife \in Nat \ {0} /\ RequestLimit \in Nat
         /\ MaxStall \in Nat \ {0} /\ sinceTick \in Nat
BY BridgeAssumption DEF BridgeTypeOK, HeardLimit, RequestLimit

\* Aging keeps what was never heard, and adds at most one to what was.
LEMMA OlderFacts ==
  ASSUME NEW n \in {NeverHeard} \cup Nat, NEW max \in Nat, n <= max
  PROVE  /\ Older(n, max) \in {NeverHeard} \cup 0 .. max
         /\ Older(n, max) = NeverHeard <=> n = NeverHeard
         /\ Older(n, max) <= n + 1
BY DEF Older, Saturate, NeverHeard

\* Whatever is cached, the assembled frame and request are of the kind the
\* supervisor was told to expect.
LEMMA AssembledTyped ==
  ASSUME BridgeTypeOK, FlagsInv
  PROVE  /\ AssembledFrame \in Frames
         /\ AssembledRequest \in Requests
<1>1. AssembledFrame \in BridgeFrames
  <2>1. \A s \in Stream : LevelOf(s) \in Level
    BY DEF LevelOf, Level
  <2>2. AssembledFrame \in [level: [Stream -> Level], confidence: {Trusted},
                            contact: BOOLEAN, biased: {FALSE}, disagrees: BOOLEAN]
    BY <2>1 DEF AssembledFrame, BridgeTypeOK
  <2>3. \A s \in Stream : sinceHeard[s] # NeverHeard => LevelOf(s) # "missing"
    BY DEF LevelOf
  <2>4. "contact" \in Stream /\ RequiredStreams \subseteq Stream
    BY DEF Stream
  <2>5. WellFormed(AssembledFrame)
    BY <2>3, <2>4 DEF AssembledFrame, WellFormed, FlagsInv
  <2> QED BY <2>2, <2>5 DEF BridgeFrames
<1>2. AssembledRequest \in BridgeRequests
  <2>1. requested \in Velocities
    BY DEF BridgeTypeOK
  <2> QED BY <2>1 DEF AssembledRequest, BridgeRequests
<1> QED BY <1>1, <1>2, BridgeAssumption

-----------------------------------------------------------------------------
(***************************************************************************)
(* Each action of the bridge, as a step of the supervisor.                 *)
(***************************************************************************)
\* The timer's tick presents inputs the supervisor's model admits.
LEMMA TickPresents ==
  ASSUME BridgeTypeOK, FlagsInv, Tick
  PROVE  Present
<1>1. AssembledFrame \in Frames /\ AssembledRequest \in Requests
  BY AssembledTyped
<1>2. operator \in PulseSets
  BY BridgeAssumption DEF BridgeTypeOK, OperatorTopic
<1>3. sinceTick \in TickGaps
  BY BridgeAssumption DEF BridgeTypeOK
<1>4. inputs' \in SupervisorInputs
  BY <1>1, <1>2, <1>3 DEF Tick, SupervisorInputs
<1> QED BY <1>4 DEF Tick, Idle, Present

\* Every step of the bridge is a step of the supervisor or leaves it alone.
LEMMA BridgeStepHosts ==
  ASSUME BridgeTypeOK, FlagsInv, [BridgeNext]_allVars
  PROVE  [Next]_vars
<1>1. CASE Tick
  BY <1>1, TickPresents DEF Next
<1>2. CASE Respond
  BY <1>2 DEF Respond, Next
<1>3. CASE Elapse \/ OnContact \/ OnRequested
  BY <1>3 DEF Elapse, OnContact, OnRequested
<1>4. CASE \E s \in RequiredStreams : OnSensor(s)
  BY <1>4 DEF OnSensor
<1>5. CASE \E p \in OperatorTopic : SetPulse(p)
  BY <1>5 DEF SetPulse
<1>6. CASE UNCHANGED allVars
  BY <1>6 DEF allVars
<1> QED BY <1>1, <1>2, <1>3, <1>4, <1>5, <1>6 DEF BridgeNext

-----------------------------------------------------------------------------
(***************************************************************************)
(* The steps.                                                              *)
(***************************************************************************)
LEMMA BridgeStepTyped ==
  ASSUME BridgeTypeOK, FlagsInv, [BridgeNext]_allVars
  PROVE  BridgeTypeOK'
<1>1. TypeOK /\ TypeOK'
  BY BridgeStepHosts, StepTyped DEF BridgeTypeOK
<1>2. CASE Tick
  BY <1>1, <1>2, BridgeAssumption DEF Tick, BridgeTypeOK, cacheVars
<1>3. CASE Respond \/ UNCHANGED allVars
  BY <1>1, <1>3 DEF Respond, bridgeVars, cacheVars, allVars, BridgeTypeOK
<1>4. CASE Elapse
  <2>1. \A s \in Stream : /\ sinceHeard'[s] \in {NeverHeard} \cup Nat
                          /\ sinceHeard'[s] <= HeardLimit(s)
    <3>1. TAKE s \in Stream
    <3>2. /\ sinceHeard[s] \in {NeverHeard} \cup Nat /\ HeardLimit(s) \in Nat
          /\ sinceHeard[s] <= HeardLimit(s)
      BY Ages DEF BridgeTypeOK
    <3>3. sinceHeard'[s] = Older(sinceHeard[s], HeardLimit(s))
      BY <1>4 DEF Elapse
    <3>4. sinceHeard'[s] \in {NeverHeard} \cup 0 .. HeardLimit(s)
      BY <3>2, <3>3, OlderFacts
    <3> QED BY <3>2, <3>4 DEF NeverHeard
  <2>2. sinceHeard' \in [Stream -> {NeverHeard} \cup Nat]
    BY <1>4, <2>1 DEF Elapse
  <2>3. sinceRequest' \in {NeverHeard} \cup 0 .. RequestLimit
    <3>1. sinceRequest <= RequestLimit
      BY Ages DEF BridgeTypeOK, NeverHeard
    <3> QED BY <1>4, <3>1, Ages, OlderFacts DEF Elapse
  <2>4. sinceTick' \in 0 .. MaxStall
    BY <1>4, Ages DEF Elapse
  <2> QED BY <1>1, <1>4, <2>1, <2>2, <2>3, <2>4 DEF Elapse, BridgeTypeOK, HeardLimit
<1>5. CASE (\E s \in RequiredStreams : OnSensor(s)) \/ OnContact
  <2>1. PICK s \in Stream : sinceHeard' = [sinceHeard EXCEPT ![s] = 0]
    BY <1>5 DEF OnSensor, OnContact, Stream
  <2>2. /\ sinceHeard' \in [Stream -> {NeverHeard} \cup Nat]
        /\ \A t \in Stream : sinceHeard'[t] <= HeardLimit(t)
    BY <2>1, Ages DEF BridgeTypeOK
  <2>3. bumper' \in BOOLEAN /\ ratesDisagree' \in BOOLEAN
    BY <1>5 DEF OnSensor, OnContact, NewRates, BridgeTypeOK
  <2>4. UNCHANGED <<requested, sinceRequest, operator, sinceTick>>
    BY <1>5 DEF OnSensor, OnContact
  <2> QED BY <1>1, <2>2, <2>3, <2>4 DEF BridgeTypeOK, HeardLimit
<1>6. CASE OnRequested
  BY <1>1, <1>6, Ages DEF OnRequested, BridgeTypeOK
<1>7. CASE \E p \in OperatorTopic : SetPulse(p)
  BY <1>1, <1>7 DEF SetPulse, cacheVars, BridgeTypeOK
<1> QED BY <1>2, <1>3, <1>4, <1>5, <1>6, <1>7 DEF BridgeNext

LEMMA FlagsStep ==
  ASSUME BridgeTypeOK, FlagsInv, [BridgeNext]_allVars
  PROVE  FlagsInv'
<1>1. "contact" \in Stream /\ RequiredStreams \subseteq Stream
  BY DEF Stream
<1>2. CASE Tick \/ Respond \/ OnRequested \/ UNCHANGED allVars
  BY <1>2 DEF Tick, Respond, OnRequested, bridgeVars, cacheVars, allVars, FlagsInv
<1>3. CASE \E p \in OperatorTopic : SetPulse(p)
  BY <1>3 DEF SetPulse, cacheVars, FlagsInv
<1>4. CASE Elapse
  <2>1. \A s \in Stream : sinceHeard'[s] = NeverHeard <=> sinceHeard[s] = NeverHeard
    BY <1>4, Ages, OlderFacts DEF Elapse, BridgeTypeOK
  <2> QED BY <1>1, <1>4, <2>1 DEF Elapse, FlagsInv
<1>5. CASE OnContact
  <2>1. \A s \in Stream : sinceHeard'[s] # NeverHeard
                            <=> s = "contact" \/ sinceHeard[s] # NeverHeard
    BY <1>5 DEF OnContact, BridgeTypeOK, NeverHeard
  <2> QED BY <1>1, <1>5, <2>1 DEF OnContact, FlagsInv
<1>6. ASSUME NEW r \in RequiredStreams, OnSensor(r) PROVE FlagsInv'
  <2>1. \A s \in Stream : sinceHeard[s] # NeverHeard => sinceHeard'[s] # NeverHeard
    BY <1>6 DEF OnSensor, BridgeTypeOK, NeverHeard
  <2>2. ratesDisagree' # ratesDisagree =>
          \A s \in {"imu", "encoder"} : s \in RequiredStreams /\ sinceHeard'[s] # NeverHeard
    BY <1>6 DEF OnSensor, NewRates
  <2> QED BY <1>1, <1>6, <2>1, <2>2 DEF OnSensor, FlagsInv
<1> QED BY <1>2, <1>3, <1>4, <1>5, <1>6 DEF BridgeNext

LEMMA StagedStep ==
  ASSUME BridgeTypeOK, StagedInv, [BridgeNext]_allVars
  PROVE  StagedInv'
<1>1. CASE Tick
  <2>1. UNCHANGED cacheVars
    BY <1>1 DEF Tick
  <2>2. AssembledFrame' = AssembledFrame /\ AssembledRequest' = AssembledRequest
    BY <2>1 DEF cacheVars, AssembledFrame, LevelOf, AssembledRequest
  <2> QED BY <1>1, <2>2 DEF Tick, StagedInv
<1>2. CASE Respond
  BY <1>2, EvaluateConcludes, ConcludeFacts DEF Respond, StagedInv, BridgeTypeOK
<1>3. CASE Elapse \/ OnContact \/ OnRequested \/ (\E s \in RequiredStreams : OnSensor(s))
  BY <1>3 DEF Elapse, OnContact, OnRequested, OnSensor, Idle, vars, StagedInv
<1>4. CASE \E p \in OperatorTopic : SetPulse(p)
  BY <1>4 DEF SetPulse, Idle, vars, StagedInv
<1>5. CASE UNCHANGED allVars
  BY <1>5 DEF allVars, vars, bridgeVars, cacheVars, StagedInv, AssembledFrame,
              LevelOf, AssembledRequest
<1> QED BY <1>1, <1>2, <1>3, <1>4, <1>5 DEF BridgeNext

\* Motion is authorized only on a frame with nothing missing or stale and for
\* a live request; what was heard then ages no faster than the timer's clock.
LEMMA HeardStep ==
  ASSUME BridgeTypeOK, LatchInv, FlagsInv, StagedInv, MovingMeansHeard,
         [BridgeNext]_allVars
  PROVE  MovingMeansHeard'
<1> SUFFICES ASSUME ~IsZero(authorized')
             PROVE  /\ \A s \in Stream : /\ sinceHeard'[s] # NeverHeard
                                         /\ sinceHeard'[s] <= StaleAfter[s] + Standing'
                    /\ sinceRequest' # NeverHeard
                    /\ sinceRequest' < RequestLife + Standing'
  BY DEF MovingMeansHeard, IsZero
<1> USE Ages
<1>1. CASE Respond
  <2>1. /\ InputsUsable(inputs.frame) /\ inputs.request.kind = "live"
        /\ inputs # NoInputs /\ inputs' = NoInputs
    BY <1>1, MotionMeansNothingStops, EvaluateConcludes, ConcludeFacts
       DEF Respond, NothingStops, Due, BridgeTypeOK
  <2>2. inputs.frame = AssembledFrame /\ inputs.request = AssembledRequest
    BY <2>1 DEF StagedInv
  <2>3. Standing' \in Nat
    BY <1>1, <2>1 DEF Standing, Respond, bridgeVars
  <2>4. \A s \in Stream : LevelOf(s) \notin {"missing", "stale"}
    BY <2>1, <2>2 DEF AssembledFrame, InputsUsable, AnySafeStop, AnyMissingRequired
  <2>5. \A s \in Stream : /\ sinceHeard[s] # NeverHeard
                          /\ sinceHeard[s] <= StaleAfter[s]
    BY <2>4 DEF LevelOf
  <2>6. sinceRequest # NeverHeard /\ sinceRequest < RequestLife
    BY <2>1, <2>2 DEF AssembledRequest, NeverHeard
  <2>7. UNCHANGED <<sinceHeard, sinceRequest>>
    BY <1>1 DEF Respond, bridgeVars, cacheVars
  <2> QED BY <2>3, <2>5, <2>6, <2>7 DEF NeverHeard
<1>2. CASE ~Respond
  <2>1. /\ \A s \in Stream : /\ sinceHeard[s] # NeverHeard
                             /\ sinceHeard[s] <= StaleAfter[s] + Standing
        /\ sinceRequest # NeverHeard
        /\ sinceRequest < RequestLife + Standing
    <3>1. UNCHANGED authorized
      BY <1>2 DEF BridgeNext, Tick, Elapse, OnContact, OnRequested, OnSensor, SetPulse,
                  allVars, vars
    <3>2. ~IsZero(authorized)
      BY <3>1 DEF IsZero
    <3> QED BY <3>2 DEF MovingMeansHeard
  <2>2. CASE Tick \/ UNCHANGED allVars
    <3>1. UNCHANGED <<sinceHeard, sinceRequest>>
      BY <2>2 DEF Tick, allVars, bridgeVars, cacheVars
    <3>2. Standing' = Standing
      <4>1. CASE Tick
        <5>1. inputs' # NoInputs
          BY <4>1, TickPresents, SupervisorAssumption DEF Present
        <5> QED BY <4>1, <5>1 DEF Tick, Idle, Standing
      <4>2. CASE UNCHANGED allVars
        BY <4>2 DEF allVars, vars, bridgeVars, Standing
      <4> QED BY <2>2, <4>1, <4>2
    <3> QED BY <2>1, <3>1, <3>2
  <2>3. CASE Elapse
    <3>1. Standing = sinceTick /\ Standing' = sinceTick + 1
      BY <2>3 DEF Elapse, Idle, vars, Standing
    <3>2. \A s \in Stream : /\ sinceHeard'[s] # NeverHeard
                            /\ sinceHeard'[s] <= sinceHeard[s] + 1
                            /\ sinceHeard'[s] \in Nat
      <4>1. TAKE s \in Stream
      <4>2. /\ sinceHeard[s] \in {NeverHeard} \cup Nat /\ HeardLimit(s) \in Nat
            /\ sinceHeard[s] <= HeardLimit(s) /\ sinceHeard[s] # NeverHeard
        BY <2>1 DEF BridgeTypeOK
      <4>3. sinceHeard'[s] = Older(sinceHeard[s], HeardLimit(s))
        BY <2>3 DEF Elapse
      <4> QED BY <4>2, <4>3, OlderFacts
    <3>3. /\ sinceRequest' # NeverHeard /\ sinceRequest' <= sinceRequest + 1
          /\ sinceRequest' \in Nat
      <4>1. sinceRequest <= RequestLimit
        BY DEF BridgeTypeOK, NeverHeard
      <4> QED BY <2>1, <2>3, <4>1, OlderFacts DEF Elapse
    <3> QED BY <2>1, <3>1, <3>2, <3>3
  <2>4. CASE OnContact \/ \E s \in RequiredStreams : OnSensor(s)
    <3>1. PICK s \in Stream : sinceHeard' = [sinceHeard EXCEPT ![s] = 0]
      BY <2>4 DEF OnSensor, OnContact, Stream
    <3>2. Standing = sinceTick /\ Standing' = sinceTick
      BY <2>4 DEF OnSensor, OnContact, Idle, vars, Standing
    <3>3. UNCHANGED sinceRequest
      BY <2>4 DEF OnSensor, OnContact
    <3> QED BY <2>1, <3>1, <3>2, <3>3 DEF BridgeTypeOK, NeverHeard
  <2>5. CASE OnRequested
    <3>1. Standing = sinceTick /\ Standing' = sinceTick
      BY <2>5 DEF OnRequested, Idle, vars, Standing
    <3> QED BY <2>1, <2>5, <3>1 DEF OnRequested, NeverHeard
  <2>6. CASE \E p \in OperatorTopic : SetPulse(p)
    <3>1. Standing' = Standing /\ UNCHANGED <<sinceHeard, sinceRequest>>
      BY <2>6 DEF SetPulse, vars, cacheVars, Standing
    <3> QED BY <2>1, <3>1
  <2> QED BY <1>2, <2>2, <2>3, <2>4, <2>5, <2>6 DEF BridgeNext
<1> QED BY <1>1, <1>2

LEMMA BridgeInitInv == BridgeInit => BridgeInv
<1> SUFFICES ASSUME BridgeInit PROVE BridgeInv
  OBVIOUS
<1>1. BridgeTypeOK
  <2>1. TypeOK
    BY InitTyped DEF BridgeInit
  <2>2. \A s \in Stream : StaleAfter[s] \in Nat /\ MaxStall \in Nat
    BY BridgeAssumption
  <2>3. /\ sinceHeard \in [Stream -> {NeverHeard} \cup Nat]
        /\ \A s \in Stream : sinceHeard[s] <= HeardLimit(s)
    BY <2>2 DEF BridgeInit, HeardLimit, NeverHeard
  <2>4. sinceTick \in 0 .. MaxStall \cup {BootGap}
    BY BridgeAssumption DEF BridgeInit
  <2> QED BY <2>1, <2>3, <2>4 DEF BridgeInit, BridgeTypeOK
<1>2. LatchInv /\ StagedInv /\ MovingMeansHeard
  BY DEF BridgeInit, Init, LatchInv, StagedInv, MovingMeansHeard, IsZero, Zero
<1>3. FlagsInv
  BY DEF BridgeInit, FlagsInv
<1> QED BY <1>1, <1>2, <1>3 DEF BridgeInv

LEMMA BridgeInvStep ==
  ASSUME BridgeInv, [BridgeNext]_allVars
  PROVE  BridgeInv'
<1>1. BridgeTypeOK' /\ FlagsInv' /\ StagedInv' /\ MovingMeansHeard'
  BY BridgeStepTyped, FlagsStep, StagedStep, HeardStep DEF BridgeInv
<1>2. LatchInv'
  BY BridgeStepHosts, LatchStep DEF BridgeInv, BridgeTypeOK
<1> QED BY <1>1, <1>2 DEF BridgeInv

-----------------------------------------------------------------------------
(***************************************************************************)
(* Theorems.                                                               *)
(***************************************************************************)
\* The invariant of the bridge.
THEOREM BridgeInvariant == BridgeSpec => []BridgeInv
BY BridgeInitInv, BridgeInvStep, PTL DEF BridgeSpec

\* Every reachable state of the bridge and of the supervisor it hosts is well
\* typed, however long a stream is silent and however late the timer is.
THEOREM BridgeTypeCorrect == BridgeSpec => []BridgeTypeOK
<1>1. BridgeInv => BridgeTypeOK
  BY DEF BridgeInv
<1> QED BY <1>1, BridgeInvariant, PTL

\* A moving rover was in touch with each of its sensors and with whoever asked
\* for the motion when the motion was authorized.
THEOREM MovingHeard == BridgeSpec => []MovingMeansHeard
<1>1. BridgeInv => MovingMeansHeard
  BY DEF BridgeInv
<1> QED BY <1>1, BridgeInvariant, PTL

\* What WhateverTheHost asks of a caller.
SupervisorHosted == Init /\ [][Next]_vars

\* The bridge uses the supervisor as the supervisor's specification says, up
\* to fairness: it presents inputs of the kind assumed and evaluates each once.
LEMMA SupervisorIsHosted == BridgeSpec => SupervisorHosted
<1>1. BridgeInit => Init
  BY DEF BridgeInit
<1>2. BridgeInv /\ [BridgeNext]_allVars => [Next]_vars
  BY BridgeStepHosts DEF BridgeInv
<1> QED BY <1>1, <1>2, BridgeInvariant, PTL DEF BridgeSpec, SupervisorHosted

\* What the supervisor guarantees its caller holds over ROS: the latch and the
\* state agree, validations stay with a held rover, and the command published
\* is within the limits of the state and zero under the latch.
THEOREM SupervisorSafeOverRos == BridgeSpec => [](LatchInv /\ ValidationInv /\ MotionInv)
BY SupervisorIsHosted, WhateverTheHost, PTL DEF SupervisorHosted

\* And so do its guarantees about steps, however late the timer and however
\* stale the streams: only sound inputs are answered with motion, an expired
\* watchdog stops it, the latch opens in two steps, and the supervisor implements
\* the authority (safety_bridge_core.py tick).
THEOREM GuaranteesHoldOverRos ==
  BridgeSpec => /\ MotionNeedsSoundInputs /\ WatchdogStopsMotion
                /\ LatchRelease /\ ImplementsAuthority
BY SupervisorIsHosted, WhateverTheHost, PTL DEF SupervisorHosted

-----------------------------------------------------------------------------
(***************************************************************************)
(* What the bridge adds to the latch.                                      *)
(***************************************************************************)
\* No pulse the bridge stages or remembers arms a reset.
NeverArmed ==
  /\ ~resetArmedPrev
  /\ inputs # NoInputs => inputs.pulses \subseteq OperatorTopic

LEMMA NeverArmedStep ==
  ASSUME BridgeTypeOK, NeverArmed, [BridgeNext]_allVars
  PROVE  NeverArmed'
<1>1. CASE Tick
  BY <1>1 DEF Tick, NeverArmed, BridgeTypeOK
<1>2. CASE Respond
  <2>1. PICK target \in SafetyState : Conclude(target)
    BY <1>2, EvaluateConcludes DEF Respond, BridgeTypeOK
  <2>2. Due
    BY <1>2, EvaluateConcludes DEF Respond, BridgeTypeOK
  <2>3. "reset_armed" \notin inputs.pulses
    BY <2>2 DEF NeverArmed, Due, OperatorTopic
  <2> QED BY <2>1, <2>3 DEF Conclude, Pulsed, NeverArmed
<1>3. CASE Elapse \/ OnContact \/ OnRequested \/ (\E s \in RequiredStreams : OnSensor(s))
  BY <1>3 DEF Elapse, OnContact, OnRequested, OnSensor, vars, NeverArmed
<1>4. CASE \E p \in OperatorTopic : SetPulse(p)
  BY <1>4 DEF SetPulse, vars, NeverArmed
<1>5. CASE UNCHANGED allVars
  BY <1>5 DEF allVars, vars, NeverArmed
<1> QED BY <1>1, <1>2, <1>3, <1>4, <1>5 DEF BridgeNext

\* Over ROS the latch is for good: there is no topic to arm a reset with, so
\* none of the resets an operator publishes releases it, and under it the command
\* is zero (safety_bridge_node.py, subscriptions and _set_pulse).
THEOREM LatchIsForGoodOverRos == BridgeSpec => LatchIsForGood
<1>1. BridgeInit => NeverArmed
  BY DEF BridgeInit, Init, NeverArmed
<1>2. BridgeInv /\ NeverArmed /\ [BridgeNext]_allVars => NeverArmed'
  BY NeverArmedStep DEF BridgeInv
<1>3. BridgeInv /\ NeverArmed /\ [BridgeNext]_allVars
        => (estopLatched => estopLatched')
  BY BridgeStepHosts, ReleaseStep DEF BridgeInv, BridgeTypeOK, NeverArmed
<1>4. MotionInv /\ estopLatched => IsZero(authorized)
  BY DEF MotionInv
<1>5. BridgeSpec => []MotionInv
  BY SupervisorSafeOverRos, PTL
<1>6. UNCHANGED allVars => (estopLatched => estopLatched')
  BY DEF allVars, vars
<1> QED BY <1>1, <1>2, <1>3, <1>4, <1>5, <1>6, BridgeInvariant, PTL
           DEF BridgeSpec, LatchIsForGood

\* What is left of an E-stop between two ticks, and on one.
Fresh == Idle /\ "estop" \in operator /\ ~(sinceTick > 0)
Aged == Idle /\ "estop" \in operator /\ sinceTick > 0
Pending == Due /\ "estop" \in operator
Taken == Due /\ Pulsed("estop")

LEMMA WaitingStep ==
  ASSUME BridgeTypeOK, FlagsInv, Idle, "estop" \in operator, [BridgeNext]_allVars
  PROVE  \/ Taken'
         \/ /\ Idle' /\ "estop" \in operator'
            /\ sinceTick' \in {sinceTick, sinceTick + 1}
<1>1. CASE Tick
  <2>1. inputs' # NoInputs
    BY <1>1, TickPresents, SupervisorAssumption DEF Present
  <2>2. inputs'.pulses = operator
    BY <1>1 DEF Tick
  <2> QED BY <2>1, <2>2 DEF Taken, Due, Pulsed
<1>2. ~Respond
  BY EvaluateConcludes DEF Respond, Due, Idle, BridgeTypeOK
<1>3. CASE Elapse \/ OnContact \/ OnRequested \/ (\E s \in RequiredStreams : OnSensor(s))
  BY <1>3 DEF Elapse, OnContact, OnRequested, OnSensor, vars, Idle
<1>4. CASE \E p \in OperatorTopic : SetPulse(p)
  BY <1>4 DEF SetPulse, vars, Idle
<1>5. CASE UNCHANGED allVars
  BY <1>5 DEF allVars, vars, bridgeVars, Idle
<1> QED BY <1>1, <1>2, <1>3, <1>4, <1>5 DEF BridgeNext

\* Nothing but the answer ends a call that is under way, and it leaves the
\* caches, the pulses that came since and the timer alone.
LEMMA CallStep ==
  ASSUME BridgeTypeOK, Due, [BridgeNext]_allVars
  PROVE  \/ UNCHANGED allVars
         \/ Respond /\ Idle' /\ UNCHANGED bridgeVars
<1>1. CASE Respond
  BY <1>1, EvaluateConcludes DEF Respond, Conclude, Idle, BridgeTypeOK
<1> QED BY <1>1 DEF BridgeNext, Tick, Elapse, OnContact, OnRequested, OnSensor, SetPulse,
           Idle, Due

\* An answer to inputs with an E-stop sets the latch.
LEMMA TakenLatches ==
  ASSUME Taken, Evaluate
  PROVE  estopLatched'
BY DEF Taken, Evaluate, AssertEStop, HoldEStop, RefuseReset, AcceptReset,
   StopOnWatchdog, StopOnContact, StopOnFreshness, BeginRecovery,
   ValidateRecovery, ContinueRecovery, Promote, HoldSafeStop, Activate,
   CompleteBoot, StayActive, LatchHolds, NothingStops, Unlatched

\* Time can pass and the timer fire between two calls, and a call can return.
\* The prover does not look into ENABLED; TLC finds all three in every state of
\* the instance, and SomeBranchApplies is the part of them about evaluate.
TimerReady ==
  /\ Idle /\ sinceTick < MaxStall => ENABLED <<Elapse>>_allVars
  /\ Idle /\ sinceTick > 0 => ENABLED <<Tick>>_allVars
  /\ Due => ENABLED <<Respond>>_allVars

\* An operator's E-stop reaches the latch, whatever comes before the next tick
\* (safety_bridge_node.py _set_pulse, _tick): time passes, the timer fires and
\* the call returns, and none of the three lets go of the pulse.
THEOREM EStopReachesLatch == BridgeSpec /\ []TimerReady => EStopIsTaken
<1>1. BridgeInv /\ "estop" \in operator => Fresh \/ Aged \/ Pending
  BY DEF Fresh, Aged, Pending, Idle, Due
<1>2. BridgeInv /\ Fresh => Idle /\ sinceTick < MaxStall
  BY Ages DEF BridgeInv, Fresh
<1>3. BridgeInv /\ Fresh /\ [BridgeNext]_allVars => Fresh' \/ Aged' \/ Taken'
  BY WaitingStep DEF BridgeInv, Fresh, Aged
<1>4. BridgeInv /\ Fresh /\ <<Elapse>>_allVars => Aged'
  BY Ages DEF BridgeInv, Fresh, Aged, Elapse, Idle, vars
<1>5. BridgeInv /\ Aged /\ [BridgeNext]_allVars => Aged' \/ Taken'
  <2>1. BridgeInv => sinceTick \in Nat
    BY Ages DEF BridgeInv
  <2> QED BY <2>1, WaitingStep DEF BridgeInv, Aged
<1>6. BridgeInv /\ Aged /\ <<Tick>>_allVars => Taken'
  <2>1. ASSUME BridgeInv, Aged, Tick PROVE Taken'
    <3>1. inputs' # NoInputs
      BY <2>1, TickPresents, SupervisorAssumption DEF Present, BridgeInv
    <3> QED BY <2>1, <3>1 DEF Tick, Taken, Due, Pulsed, Aged
  <2> QED BY <2>1
<1>7. BridgeInv /\ Taken /\ [BridgeNext]_allVars => Taken' \/ estopLatched'
  <2>1. ASSUME BridgeInv, Taken, [BridgeNext]_allVars PROVE Taken' \/ estopLatched'
    <3>1. CASE UNCHANGED allVars
      BY <2>1, <3>1 DEF allVars, vars, Taken, Due, Pulsed
    <3>2. CASE Respond
      BY <2>1, <3>2, TakenLatches DEF Respond
    <3> QED BY <2>1, <3>1, <3>2, CallStep DEF BridgeInv, Taken
  <2> QED BY <2>1
<1>8. Taken /\ <<Respond>>_allVars => estopLatched'
  BY TakenLatches DEF Respond
<1>9. BridgeInv /\ Pending /\ [BridgeNext]_allVars => Pending' \/ Fresh' \/ Aged'
  <2>1. ASSUME BridgeInv, Pending, [BridgeNext]_allVars PROVE Pending' \/ Fresh' \/ Aged'
    <3>1. CASE UNCHANGED allVars
      BY <2>1, <3>1 DEF allVars, vars, bridgeVars, Pending, Due
    <3>2. CASE Respond /\ Idle' /\ UNCHANGED bridgeVars
      BY <2>1, <3>2 DEF bridgeVars, Pending, Fresh, Aged
    <3> QED BY <2>1, <3>1, <3>2, CallStep DEF BridgeInv, Pending
  <2> QED BY <2>1
<1>10. BridgeInv /\ Pending /\ <<Respond>>_allVars => Fresh' \/ Aged'
  BY EvaluateConcludes DEF Pending, Respond, Conclude, Fresh, Aged, bridgeVars, Idle,
     BridgeInv, BridgeTypeOK
<1>11. Aged => Idle /\ sinceTick > 0
  BY DEF Aged
<1>12. Taken \/ Pending => Due
  BY DEF Taken, Pending
<1> DEFINE G1 == Idle /\ sinceTick < MaxStall
           G2 == Idle /\ sinceTick > 0
<1> HIDE DEF G1, G2
<1> QED BY <1>1, <1>2, <1>3, <1>4, <1>5, <1>6, <1>7, <1>8, <1>9, <1>10, <1>11, <1>12,
           BridgeInvariant, PTL DEF BridgeSpec, TimerReady, EStopIsTaken, G1, G2

\* From then on the rover is held: the latch an E-stop reaches is never released,
\* and under it the command published is zero (safety_bridge_core.py tick).
THEOREM EStopHoldsForGood ==
  BridgeSpec /\ []TimerReady =>
    ("estop" \in operator ~> [](estopLatched /\ IsZero(authorized)))
<1>1. MotionInv /\ estopLatched => IsZero(authorized)
  BY DEF MotionInv
<1>2. BridgeSpec => []MotionInv
  BY SupervisorSafeOverRos, PTL
<1>3. UNCHANGED allVars => (estopLatched => estopLatched')
  BY DEF allVars, vars
<1> QED BY <1>1, <1>2, <1>3, EStopReachesLatch, LatchIsForGoodOverRos, PTL
           DEF EStopIsTaken, LatchIsForGood

-----------------------------------------------------------------------------
\* The gateway's heartbeat is in everything the bridge stages.
HeartbeatInv == inputs # NoInputs => inputs.heartbeat

\* Over ROS the watchdog of the gateway never expires: nobody measures it, and
\* tick's default pets it on every call.  An escalation is always a sensor's
\* (safety_bridge_core.py evaluate, gateway_heartbeat).
THEOREM GatewayNeverExpires == BridgeSpec => [](Due => "gateway" \notin Expired)
<1>1. BridgeInit => HeartbeatInv
  BY DEF BridgeInit, Init, HeartbeatInv
<1>2. BridgeInv /\ HeartbeatInv /\ [BridgeNext]_allVars => HeartbeatInv'
  <2>1. ASSUME BridgeInv, HeartbeatInv, [BridgeNext]_allVars PROVE HeartbeatInv'
    <3>1. CASE Idle
      BY <2>1, <3>1, EvaluateConcludes DEF BridgeNext, Tick, Respond, Elapse, OnContact,
         OnRequested, OnSensor, SetPulse, allVars, vars, Idle, Due, HeartbeatInv,
         BridgeInv, BridgeTypeOK
    <3>2. CASE Due
      BY <2>1, <3>2, CallStep DEF allVars, vars, Idle, HeartbeatInv, BridgeInv
    <3> QED BY <3>1, <3>2 DEF Idle, Due
  <2> QED BY <2>1
<1>3. HeartbeatInv => (Due => "gateway" \notin Expired)
  BY SupervisorAssumption DEF HeartbeatInv, Due, Expired, PetAge, Petted, Watchdog
<1> QED BY <1>1, <1>2, <1>3, BridgeInvariant, PTL DEF BridgeSpec

-----------------------------------------------------------------------------
\* One of the branches of evaluate applies to whatever is presented.
LEMMA SomeBranchApplies ==
  ASSUME TypeOK, LatchInv, Due
  PROVE  \/ Pulsed("estop")
         \/ LatchHolds /\ ~Pulsed("reset")
         \/ LatchHolds /\ Pulsed("reset") /\ (~resetArmedPrev \/ ResetUnsafe)
         \/ LatchHolds /\ Pulsed("reset") /\ resetArmedPrev /\ ~ResetUnsafe
         \/ Unlatched /\ WatchdogEscalates
         \/ Unlatched /\ ~WatchdogEscalates /\ inputs.frame.contact
         \/ /\ Unlatched /\ ~WatchdogEscalates /\ ~inputs.frame.contact
            /\ ~InputsUsable(inputs.frame)
         \/ /\ NothingStops
            /\ state \in {"SAFE_STOP", "RECOVERY", "BOOT", "INACTIVE"} \cup ActiveState
<1>1. state \in {"SAFE_STOP", "RECOVERY", "BOOT", "INACTIVE", "E_STOP_LATCHED"} \cup ActiveState
  BY DEF TypeOK, SafetyState, ZeroMotionState
<1>2. state = "E_STOP_LATCHED" => estopLatched
  BY DEF LatchInv
<1> QED BY <1>1, <1>2, Zenon DEF Due, LatchHolds, Unlatched, NothingStops
=============================================================================
