----------------------- MODULE SimulationEngine_proofs -----------------------
(***************************************************************************)
(* Proofs about SimulationEngine: whatever its scenarios are, the engine   *)
(* hosts the supervisor and the mission as their specifications say, and   *)
(* what is proved of the two holds in it.                                  *)
(***************************************************************************)
EXTENDS SimulationEngine, SafetySupervisor_proofs, FiniteSetTheorems

\* What the mission keeps on its own and the engine's request rests on: an
\* active waypoint heads a queue that is not empty.
QueueTyped ==
  /\ active \in Waypoint \cup {NoWaypoint}
  /\ remaining \in Seq(Waypoint)
  /\ mission # "ABORTED" /\ active # NoWaypoint => remaining # <<>>

\* A reading has a confidence its stream can have, and a stream never read
\* shows nothing.
ReadingsSound ==
  \A s \in Stream : IF Taken(cached[s]) THEN cached[s].confidence \in Confidence[s]
                                        ELSE cached[s] = NoReading

\* Between two steps nothing is presented to the supervisor.
EngineInv == EngineTypeOK /\ QueueTyped /\ ReadingsSound /\ LatchInv

-----------------------------------------------------------------------------
(***************************************************************************)
(* The effect of a tick and the readings taken under it.                   *)
(***************************************************************************)
LEMMA StreamFacts ==
  /\ Stream = {"lidar", "imu", "encoder", "contact"}
  /\ Period \in [Stream -> Nat \ {0}]
BY EngineAssumption DEF Stream

LEMMA StatusesTyped ==
  ASSUME EngineTypeOK, NEW t \in Nat
  PROVE  StatusesAt(scenario.faults, t) \in [DOMAIN scenario.faults -> FaultStatus]
BY DEF EngineTypeOK, StatusesAt, StatusAt, FaultStatus

LEMMA EffectTyped ==
  ASSUME scenario \in Scenarios,
         NEW statuses \in [DOMAIN scenario.faults -> FaultStatus]
  PROVE  LET e == FaultEffect(scenario.faults, statuses)
         IN  /\ e \in Effects
             /\ ImuConfidence(e) \in Confidence["imu"]
             /\ EncoderConfidence(e) \in Confidence["encoder"]
BY EngineAssumption

\* A reading is of its type whichever way it is come by.
LEMMA SensedTyped ==
  ASSUME EngineTypeOK, ReadingsSound,
         NEW e \in Effects, NEW asserted \in BOOLEAN,
         ImuConfidence(e) \in Confidence["imu"],
         EncoderConfidence(e) \in Confidence["encoder"],
         cached' = Sensed(e, now, speed, asserted)
  PROVE  /\ cached' \in [Stream -> Reading]
         /\ ReadingsSound'
<1>0. now \in Nat /\ speed \in Int
  BY DEF EngineTypeOK
<1>1. cached' = [s \in Stream |-> cached'[s]]
  BY StreamFacts DEF Sensed
<1>2. \A s \in Stream : cached[s] \in Reading
  BY DEF EngineTypeOK
<1>3. \A s \in Stream : Confidence[s] \subseteq 0 .. 20
  BY EngineAssumption
<1>4. e.delay \in Nat /\ e.bias \in Int /\ e.offset \in Int
  BY DEF Effects
<1>5. /\ ReadLidar(e, now, speed) \in Reading
      /\ ReadLidar(e, now, speed).confidence \in Confidence["lidar"]
      /\ Taken(ReadLidar(e, now, speed))
  <2> DEFINE r == ReadLidar(e, now, speed)
  <2>1. r.value \in Int /\ r.stamp \in Int /\ r.made \in Nat
    BY <1>0, <1>4 DEF ReadLidar, Larger, Size
  <2>2. r.confidence \in {12, 18} /\ r.healthy \in BOOLEAN
    BY DEF ReadLidar
  <2>3. r = [made |-> r.made, stamp |-> r.stamp, healthy |-> r.healthy,
             confidence |-> r.confidence, value |-> r.value]
    BY DEF ReadLidar
  <2>4. {12, 18} \subseteq Confidence["lidar"]
    BY EngineAssumption
  <2> HIDE DEF r
  <2>5. r \in Reading
    BY <2>1, <2>2, <2>3 DEF Reading
  <2>6. Taken(r)
    BY <2>1 DEF Taken, NeverMade
  <2> QED BY <2>2, <2>4, <2>5, <2>6 DEF r
<1>6. /\ ReadImu(e, now) \in Reading
      /\ ReadImu(e, now).confidence \in Confidence["imu"]
      /\ Taken(ReadImu(e, now))
  BY <1>0, <1>3, <1>4, StreamFacts DEF ReadImu, Reading, Taken, NeverMade
<1>7. /\ ReadEncoder(e, now) \in Reading
      /\ ReadEncoder(e, now).confidence \in Confidence["encoder"]
      /\ Taken(ReadEncoder(e, now))
  BY <1>0, <1>3, <1>4, StreamFacts DEF ReadEncoder, Reading, Taken, NeverMade
<1>8. /\ ReadContact(now, asserted) \in Reading
      /\ ReadContact(now, asserted).confidence \in Confidence["contact"]
      /\ Taken(ReadContact(now, asserted))
  BY <1>0, EngineAssumption DEF ReadContact, Reading, Taken, NeverMade
<1>9. /\ cached'["lidar"] \in {cached["lidar"], ReadLidar(e, now, speed)}
      /\ cached'["imu"] \in {cached["imu"], ReadImu(e, now)}
      /\ cached'["encoder"] \in {cached["encoder"], ReadEncoder(e, now)}
      /\ cached'["contact"] \in {cached["contact"], ReadContact(now, asserted)}
  BY DEF Sensed
<1>10. \A s \in Stream : cached'[s] \in Reading
  BY <1>2, <1>5, <1>6, <1>7, <1>8, <1>9, StreamFacts
<1>11. ASSUME NEW s \in Stream
       PROVE  IF Taken(cached'[s]) THEN cached'[s].confidence \in Confidence[s]
                                   ELSE cached'[s] = NoReading
  <2>1. \/ cached'[s] = cached[s]
        \/ Taken(cached'[s]) /\ cached'[s].confidence \in Confidence[s]
    BY <1>5, <1>6, <1>7, <1>8, <1>9, StreamFacts
  <2> QED BY <2>1 DEF ReadingsSound
<1>12. ReadingsSound'
  BY <1>11, StreamFacts DEF ReadingsSound, Stream
<1> QED BY <1>1, <1>10, <1>12

\* The frame assembled from sound readings is one the engine may present.
LEMMA FramePresentable ==
  ASSUME NEW readings, \A s \in Stream : readings[s] \in Reading,
         \A s \in Stream : IF Taken(readings[s])
                           THEN readings[s].confidence \in Confidence[s]
                           ELSE readings[s] = NoReading
  PROVE  SimulatedFrame(readings) \in Frames
<1> DEFINE f == SimulatedFrame(readings)
           View(s) == <<LevelOf(s, readings), readings[s].confidence>>
           v == [lidar |-> View("lidar"), imu |-> View("imu"),
                 encoder |-> View("encoder"), contact |-> View("contact")]
           flags == <<f.contact, f.biased, f.disagrees>>
<1>1. ASSUME NEW s \in Stream PROVE View(s) \in Views(s)
  <2>1. CASE Taken(readings[s])
    BY <2>1 DEF LevelOf, Views
  <2>2. CASE ~Taken(readings[s])
    BY <2>2 DEF LevelOf, Views, NoReading
  <2> QED BY <2>1, <2>2
<1>2. v \in {[lidar |-> l, imu |-> i, encoder |-> e, contact |-> c] :
               l \in Views("lidar"), i \in Views("imu"),
               e \in Views("encoder"), c \in Views("contact")}
  BY <1>1, StreamFacts
<1>3. flags \in BOOLEAN \X BOOLEAN \X BOOLEAN
  <2>1. f.contact \in BOOLEAN
    BY DEF SimulatedFrame
  <2>2. f.biased \in BOOLEAN
    BY DEF SimulatedFrame
  <2>3. f.disagrees \in BOOLEAN
    BY DEF SimulatedFrame
  <2> HIDE DEF f
  <2> QED BY <2>1, <2>2, <2>3
<1>4. f = [level      |-> [s \in Stream |-> v[s][1]],
           confidence |-> [s \in Stream |-> v[s][2]],
           contact    |-> flags[1], biased |-> flags[2], disagrees |-> flags[3]]
  <2>1. \A s \in Stream : v[s] = View(s)
    BY StreamFacts
  <2>2. f.level = [s \in Stream |-> v[s][1]] /\ f.confidence = [s \in Stream |-> v[s][2]]
    BY <2>1 DEF SimulatedFrame
  <2> QED BY <2>2 DEF SimulatedFrame
<1>5. WellFormed(f)
  <2>1. \A s \in Stream : Taken(readings[s]) => f.level[s] # "missing"
    BY DEF SimulatedFrame, LevelOf
  <2>2. ~Taken(readings["contact"]) => ~f.contact
    <3>1. ~Taken(readings["contact"]) => readings["contact"].value = 0
      BY StreamFacts DEF NoReading
    <3>2. f.contact <=> readings["contact"].value = 1
      BY DEF SimulatedFrame
    <3> QED BY <3>1, <3>2
  <2>3. ~Taken(readings["imu"]) => ~f.biased
    <3>1. ~Taken(readings["imu"]) => readings["imu"].value = 0
      BY StreamFacts DEF NoReading
    <3>2. f.biased <=> Size(readings["imu"].value) > 2
      BY DEF SimulatedFrame
    <3>3. ~(Size(0) > 2)
      BY DEF Size
    <3> QED BY <3>1, <3>2, <3>3
  <2>4. f.disagrees => Taken(readings["imu"]) /\ Taken(readings["encoder"])
    BY DEF SimulatedFrame
  <2> QED BY <2>1, <2>2, <2>3, <2>4, StreamFacts, EngineAssumption DEF WellFormed
<1>6. f \in EngineFrames
  <2> HIDE DEF f, v, flags
  <2> QED BY <1>2, <1>3, <1>4, <1>5 DEF EngineFrames
<1> QED BY <1>6, EngineAssumption

-----------------------------------------------------------------------------
(***************************************************************************)
(* The mission's part of a step.                                           *)
(***************************************************************************)
LEMMA InputPresentable ==
  ASSUME EngineTypeOK, scenario.planned, NEW readings
  PROVE  MissionInput(readings) \in MissionInputs
<1> DEFINE in == MissionInput(readings)
<1>1. in.commands \in SUBSET {"start"}
  BY DEF MissionInput
<1>2. Observed(readings) \subseteq M!Signal \ {"safety_inhibits"}
  BY DEF Observed
<1>3. in.signals \in SUBSET M!Signal
  BY <1>2 DEF MissionInput, Signals, M!Signal
<1>4. ~({"keepout_violation", "keepout_pending"} \subseteq in.signals)
  <2>1. "keepout_violation" \in Observed(readings) => InKeepout
    BY DEF Observed
  <2>2. "keepout_pending" \in Observed(readings) => ~InKeepout
    BY DEF Observed, KeepoutPending
  <2>3. {"keepout_violation", "keepout_pending"} \cap in.signals
          \subseteq Observed(readings)
    BY DEF MissionInput, Signals
  <2> QED BY <2>1, <2>2, <2>3
<1>5. in.gap \in {0} \cup {s.step : s \in {r \in Scenarios : r.planned}}
  BY DEF MissionInput, SinceLastStep, EngineTypeOK
<1>6. in = [commands |-> in.commands, signals |-> in.signals, gap |-> in.gap]
  BY DEF MissionInput
<1> HIDE DEF in
<1> QED BY <1>1, <1>3, <1>4, <1>5, <1>6 DEF MissionInputs, M!Signal, in

LEMMA AbortedStays ==
  ASSUME NEW in, mission = "ABORTED"
  PROVE  M!Determined(in) = "ABORTED"
<1>1. M!Commanded(in) = "ABORTED"
  BY DEF M!Commanded
<1> QED BY <1>1 DEF M!Determined, M!UnderWay

LEMMA QueueStep ==
  ASSUME QueueTyped, NEW in, M!Tick(in)
  PROVE  /\ QueueTyped'
         /\ request' \in {"none", "zero", "drive", "backup"}
         /\ request' = "drive" => active' \in Waypoint
<1> USE DEF QueueTyped
<1>1. CASE M!Rest(in)
  <2>1. mission = "ABORTED" => mission' = "ABORTED"
    BY <1>1, AbortedStays DEF M!Rest
  <2> QED BY <1>1, <2>1 DEF M!Rest
<1>2. CASE M!FinishAbort(in)
  BY <1>2 DEF M!FinishAbort
<1>3. CASE M!Recover(in)
  <2>1. mission # "ABORTED"
    BY <1>3, AbortedStays DEF M!Recover
  <2> QED BY <1>3, <2>1 DEF M!Recover
<1>4. CASE M!DriveOn(in)
  <2>1. active' = M!Target(in) /\ M!Target(in) # NoWaypoint
    BY <1>4 DEF M!DriveOn, M!Begin
  <2>2. mission # "ABORTED"
    BY <1>4, AbortedStays DEF M!DriveOn
  <2>3. \/ M!Target(in) = active
        \/ M!Target(in) = Head(remaining) /\ remaining # <<>>
    BY <2>1 DEF M!Target, M!HeadOrNone
  <2>4. active' \in Waypoint /\ remaining # <<>>
    BY <2>1, <2>2, <2>3
  <2>5. remaining' = remaining /\ request' \in {"zero", "drive"}
    BY <1>4 DEF M!DriveOn
  <2> QED BY <2>4, <2>5
<1>5. CASE M!Reach(in)
  <2>1. mission # "ABORTED" /\ M!Target(in) # NoWaypoint
    BY <1>5, AbortedStays DEF M!Reach
  <2>2. remaining # <<>>
    BY <2>1 DEF M!Target, M!HeadOrNone
  <2>3. remaining' \in Seq(Waypoint) /\ active' = M!HeadOrNone(remaining')
    BY <1>5, <2>2 DEF M!Reach, M!Begin
  <2>4. /\ active' \in Waypoint \cup {NoWaypoint}
        /\ active' # NoWaypoint => remaining' # <<>>
    BY <2>3 DEF M!HeadOrNone
  <2>5. request' = "zero"
    BY <1>5 DEF M!Reach
  <2> QED BY <2>3, <2>4, <2>5
<1>6. CASE M!Complete(in)
  BY <1>6 DEF M!Complete, M!Begin
<1> QED BY <1>1, <1>2, <1>3, <1>4, <1>5, <1>6 DEF M!Tick

\* The request the supervisor is presented with is within the plan's limit.
LEMMA LimitTyped ==
  ASSUME EngineTypeOK
  PROVE  EffectiveLimit \in 0 .. SpeedLimit
BY EngineAssumption DEF EngineTypeOK, EffectiveLimit, Smaller

LEMMA RequestWithinLimit ==
  ASSUME EngineTypeOK,
         request' \in {"none", "zero", "drive", "backup"},
         request' = "drive" => active' \in Waypoint
  PROVE  \/ PlannedRequest = NoRequest
         \/ \E v \in -SpeedLimit .. SpeedLimit : PlannedRequest = RequestOf(v)
<1> DEFINE Asked(v) == \E u \in -SpeedLimit .. SpeedLimit : RequestOf(v) = RequestOf(u)
<1>1. ASSUME NEW v \in -SpeedLimit .. SpeedLimit PROVE Asked(v)
  OBVIOUS
<1>3. SpeedLimit \in Nat /\ pose \in Int /\ Approach \in Nat
  BY EngineAssumption DEF EngineTypeOK
<1>4. EffectiveLimit \in 0 .. SpeedLimit
  BY LimitTyped
<1>5. CASE request' = "none"
  BY <1>5 DEF PlannedRequest
<1>6. CASE request' = "zero"
  BY <1>1, <1>3, <1>6 DEF PlannedRequest
<1>7. CASE request' = "backup"
  <2>1. -Smaller(EffectiveLimit, SpeedLimit \div 2) \in -SpeedLimit .. SpeedLimit
    BY <1>3, <1>4 DEF Smaller
  <2>2. PlannedRequest = RequestOf(-Smaller(EffectiveLimit, SpeedLimit \div 2))
    BY <1>7 DEF PlannedRequest
  <2> QED BY <1>1, <2>1, <2>2
<1>8. CASE request' = "drive"
  <2> DEFINE w == active'
             d == DistanceTo(w)
  <2>1. Position[w] \in Int /\ Tolerance[w] \in Nat
    BY <1>8, EngineAssumption
  <2>2. d \in Nat
    BY <1>3, <2>1 DEF DistanceTo, Size
  <2>3. SpeedTowards(w) \in -SpeedLimit .. SpeedLimit
    <3>1. CASE d >= Approach
      BY <1>3, <1>4, <3>1 DEF SpeedTowards
    <3>2. CASE ~(d >= Approach)
      <4> DEFINE span == Approach - Tolerance[w]
                 asked == (EffectiveLimit * (span + d - Tolerance[w])) \div (2 * span)
      <4>1. span \in Nat \ {0}
        BY <1>3, <1>8, <2>1, EngineAssumption
      <4>2. EffectiveLimit * (span + d - Tolerance[w]) \in Int
        BY <1>4, <2>1, <2>2, <4>1
      <4>3. asked \in Int
        BY <4>1, <4>2
      <4>4. SpeedTowards(w) = Clamp(asked, EffectiveLimit)
        BY <3>2 DEF SpeedTowards
      <4> HIDE DEF asked, span
      <4>5. Clamp(asked, EffectiveLimit) \in -EffectiveLimit .. EffectiveLimit
        BY <1>4, <4>3, ClampBounds
      <4> QED BY <1>3, <1>4, <4>4, <4>5
    <3> QED BY <3>1, <3>2
  <2>4. PlannedRequest = RequestOf(SpeedTowards(w))
    BY <1>8 DEF PlannedRequest
  <2> QED BY <1>1, <2>3, <2>4
<1> QED BY <1>5, <1>6, <1>7, <1>8

LEMMA RequestPresentable ==
  ASSUME EngineTypeOK,
         request' \in {"none", "zero", "drive", "backup"},
         request' = "drive" => active' \in Waypoint
  PROVE  PlannedRequest \in Requests
<1>1. SpeedLimit \in Nat /\ EngineRequests \subseteq Requests
  BY EngineAssumption
<1>2. \A v \in -SpeedLimit .. SpeedLimit : RequestOf(v) \in Requests
  BY <1>1 DEF RequestOf, EngineRequests
<1>3. NoRequest \in Requests
  BY <1>1 DEF NoRequest, EngineRequests
<1> QED BY <1>2, <1>3, RequestWithinLimit

-----------------------------------------------------------------------------
(***************************************************************************)
(* The steps.                                                              *)
(***************************************************************************)
LEMMA AssemblePresents ==
  ASSUME EngineInv, Assemble
  PROVE  Present /\ EngineInv'
<1> DEFINE e == FaultEffect(scenario.faults, faultStatus')
<1>1. EngineTypeOK /\ now \in Nat /\ scenario \in Scenarios
  BY DEF EngineInv, EngineTypeOK
<1>2. faultStatus' \in [DOMAIN scenario.faults -> FaultStatus]
  BY <1>1, StatusesTyped DEF Assemble
<1>3. /\ e \in Effects
      /\ ImuConfidence(e) \in Confidence["imu"]
      /\ EncoderConfidence(e) \in Confidence["encoder"]
  BY <1>1, <1>2, EffectTyped
<1>4. /\ cached' \in [Stream -> Reading]
      /\ ReadingsSound'
  <2> HIDE DEF e
  <2>1. (now \in scenario.contacts) \in BOOLEAN
    OBVIOUS
  <2>2. cached' = Sensed(e, now, speed, now \in scenario.contacts)
    BY DEF Assemble, e
  <2> QED BY <1>1, <1>3, <2>1, <2>2, SensedTyped DEF EngineInv
<1>5. SimulatedFrame(cached') \in Frames
  <2>1. \A s \in Stream : IF Taken(cached'[s])
                           THEN cached'[s].confidence \in Confidence[s]
                           ELSE cached'[s] = NoReading
    BY <1>4 DEF ReadingsSound, Stream
  <2> QED BY <1>4, <2>1, FramePresentable
<1>6. /\ QueueTyped'
      /\ scenario.planned => PlannedRequest \in Requests
  <2>1. CASE scenario.planned
    <3>1. M!Tick(MissionInput(cached'))
      BY <2>1 DEF Assemble
    <3>2. /\ QueueTyped'
          /\ request' \in {"none", "zero", "drive", "backup"}
          /\ request' = "drive" => active' \in Waypoint
      BY <3>1, QueueStep DEF EngineInv
    <3> QED BY <1>1, <3>2, RequestPresentable
  <2>2. CASE ~scenario.planned
    BY <2>2 DEF Assemble, missionVars, QueueTyped, EngineInv
  <2> QED BY <2>1, <2>2
<1>7. ScriptedRequest \in Requests
  <2>1. /\ SpeedLimit \in Nat /\ EngineRequests \subseteq Requests
        /\ scenario.script.speed \in Int
    BY <1>1, EngineAssumption
  <2> QED BY <1>1, <2>1 DEF ScriptedRequest, RequestOf, NoRequest, EngineRequests
<1>8. SinceLastStep \in TickGaps
  BY <1>1, EngineAssumption DEF SinceLastStep
<1>9. Pulses \in PulseSets
  BY EngineAssumption DEF Pulses
<1>10. (~e.silent) \in BOOLEAN
  OBVIOUS
<1>11. inputs' \in SupervisorInputs
  <2> DEFINE asked == IF scenario.planned THEN PlannedRequest ELSE ScriptedRequest
  <2>1. asked \in Requests
    BY <1>6, <1>7
  <2>2. inputs' = [frame |-> SimulatedFrame(cached'), pulses |-> Pulses,
                   request |-> asked, heartbeat |-> ~e.silent, gap |-> SinceLastStep]
    BY DEF Assemble
  <2> HIDE DEF asked, e
  <2> QED BY <1>5, <1>8, <1>9, <1>10, <2>1, <2>2 DEF SupervisorInputs
<1>12. Present
  BY <1>11 DEF Assemble, Between, Present
<1>13. TypeOK' /\ LatchInv'
  BY <1>1, <1>12, StepTyped, LatchStep DEF EngineInv, EngineTypeOK, Next
<1>14. EngineTypeOK'
  BY <1>1, <1>2, <1>4, <1>13 DEF Assemble, EngineTypeOK
<1> QED BY <1>4, <1>6, <1>12, <1>13, <1>14 DEF EngineInv

LEMMA SlipBounded ==
  ASSUME EngineTypeOK
  PROVE  Slip \in 0 .. 10
<1>1. scenario \in Scenarios /\ faultStatus \in [DOMAIN scenario.faults -> FaultStatus]
  BY DEF EngineTypeOK
<1>2. FaultEffect(scenario.faults, faultStatus).slip \in Nat
  BY <1>1, EffectTyped DEF Effects
<1> QED BY <1>2 DEF Slip, Slipped, Smaller

\* Slip only takes speed away: it neither adds any nor turns the rover around.
LEMMA SlipShrinks ==
  ASSUME NEW max \in Nat, NEW v \in -max .. max, NEW k \in 0 .. 10
  PROVE  (v * k) \div 10 \in -max .. max
<1>1. v * k \in Int /\ v * k <= 10 * max /\ v * k >= -(10 * max)
  OBVIOUS
<1> QED BY <1>1

LEMMA ApplyTyped ==
  ASSUME EngineTypeOK, TypeOK', Apply
  PROVE  /\ pose' \in Int /\ speed' \in Int
         /\ lastApplied' \in {NeverApplied} \cup Nat
<1>1. /\ now \in Nat /\ pose \in Int /\ scenario.step \in Nat
      /\ lastApplied \in {NeverApplied} \cup Nat
  BY EngineAssumption DEF EngineTypeOK
<1>2. authorized'.linear \in Int
  BY DEF TypeOK, AuthorizedCommand
<1>3. Slip \in 0 .. 10
  BY SlipBounded
<1>4. authorized'.linear * (10 - Slip) \in Int
  BY <1>2, <1>3
<1>5. (authorized'.linear * (10 - Slip)) \div 10 \in Int
  BY <1>4
<1>6. ((authorized'.linear * (10 - Slip)) \div 10) * scenario.step \in Int
  BY <1>1, <1>5
<1>7. CASE GatewayTimedOut
  BY <1>1, <1>7 DEF Apply
<1>8. CASE ~GatewayTimedOut
  BY <1>1, <1>5, <1>6, <1>8 DEF Apply
<1> QED BY <1>7, <1>8

LEMMA RespondEvaluates ==
  ASSUME EngineInv, Respond
  PROVE  Evaluate /\ EngineInv'
<1>1. Evaluate
  BY DEF Respond
<1>2. TypeOK' /\ LatchInv'
  BY <1>1, StepTyped, LatchStep DEF EngineInv, EngineTypeOK, Next
<1>4. pose' \in Int /\ speed' \in Int /\ lastApplied' \in {NeverApplied} \cup Nat
  BY <1>2, ApplyTyped DEF Respond, EngineInv
<1>6. now' \in Nat
  <2>1. now \in Nat /\ scenario \in Scenarios /\ now' = now + scenario.step
    BY DEF EngineInv, EngineTypeOK, Respond
  <2>2. scenario.step \in Nat
    BY <2>1, EngineAssumption
  <2> QED BY <2>1, <2>2
<1>7. EngineTypeOK'
  BY <1>2, <1>4, <1>6 DEF Respond, EngineInv, EngineTypeOK
<1>8. QueueTyped' /\ ReadingsSound'
  BY DEF Respond, EngineInv, QueueTyped, ReadingsSound, missionVars
<1> QED BY <1>1, <1>2, <1>7, <1>8 DEF EngineInv

LEMMA EngineInitInv == EngineInit => EngineInv
<1> SUFFICES ASSUME EngineInit PROVE EngineInv
  OBVIOUS
<1>1. TypeOK /\ LatchInv
  BY InitTyped DEF EngineInit, Init, LatchInv
<1>2. NoReading \in Reading
  BY DEF NoReading, Reading, NeverMade
<1>3. EngineTypeOK
  BY <1>1, <1>2 DEF EngineInit, EngineTypeOK, Armed, FaultStatus
<1>4. ReadingsSound
  BY DEF EngineInit, ReadingsSound, NoReading, Taken
<1>5. QueueTyped
  BY EngineAssumption DEF EngineInit, M!Init, QueueTyped
<1> QED BY <1>1, <1>3, <1>4, <1>5 DEF EngineInv

LEMMA EngineStep ==
  ASSUME EngineInv, [EngineNext]_engineVars
  PROVE  EngineInv' /\ [Next]_vars
<1>1. CASE Assemble
  BY <1>1, AssemblePresents DEF Next
<1>2. CASE Respond
  BY <1>2, RespondEvaluates DEF Next
<1>3. CASE UNCHANGED engineVars
  <2>1. UNCHANGED vars
    BY <1>3 DEF engineVars
  <2>2. TypeOK' /\ LatchInv'
    BY <2>1, StepTyped, LatchStep DEF EngineInv, EngineTypeOK
  <2> QED BY <1>3, <2>1, <2>2
          DEF EngineInv, EngineTypeOK, QueueTyped, ReadingsSound, engineVars, worldVars,
              missionVars
<1> QED BY <1>1, <1>2, <1>3 DEF EngineNext

LEMMA MissionStep ==
  ASSUME EngineInv, [EngineNext]_engineVars
  PROVE  [M!Next]_missionVars
<1>1. CASE Assemble /\ scenario.planned
  BY <1>1, InputPresentable DEF Assemble, M!Next, EngineInv
<1>2. CASE Assemble /\ ~scenario.planned
  BY <1>2 DEF Assemble
<1>3. CASE Respond
  BY <1>3 DEF Respond
<1>4. CASE UNCHANGED engineVars
  BY <1>4 DEF engineVars
<1> QED BY <1>1, <1>2, <1>3, <1>4 DEF EngineNext

-----------------------------------------------------------------------------
(***************************************************************************)
(* Theorems.                                                               *)
(***************************************************************************)
\* The invariant of the engine.
THEOREM EngineInvariant == EngineSpec => []EngineInv
BY EngineInitInv, EngineStep, PTL DEF EngineSpec

\* Every reachable state of a run is well typed, for every set of scenarios,
\* whatever their faults do to the readings.
THEOREM EngineTypeCorrect == EngineSpec => []EngineTypeOK
<1>1. EngineInv => EngineTypeOK
  BY DEF EngineInv
<1> QED BY <1>1, EngineInvariant, PTL

\* A run uses the supervisor as the supervisor's specification says, up to
\* fairness.
THEOREM EngineHostsSupervisor == EngineSpec => SupervisorHosted
<1>1. EngineInit => Init
  BY DEF EngineInit
<1> QED BY <1>1, EngineInvariant, EngineStep, PTL DEF EngineSpec, SupervisorHosted

\* Every guarantee of the supervisor holds in the simulation, for every scenario:
\* of its states, that the latch, the validations and the motion agree with the
\* safety state; of its steps, that only sound inputs are answered with motion,
\* that an expired watchdog stops it and that the latch opens in two steps; and
\* it implements the authority (engine.py _advance_one_step).
THEOREM SupervisorSafeInSimulation ==
  EngineSpec => /\ [](LatchInv /\ ValidationInv /\ MotionInv)
                /\ MotionNeedsSoundInputs /\ WatchdogStopsMotion
                /\ LatchRelease /\ ImplementsAuthority
BY EngineHostsSupervisor, WhateverTheHost, PTL DEF SupervisorHosted

\* A run uses the mission as the mission's specification says: the signals it
\* is shown exclude each other as they should, and time passes at the step.
THEOREM EngineHostsMission == EngineSpec => MissionHosted
<1>1. EngineInit => M!Init
  BY DEF EngineInit
<1> QED BY <1>1, EngineInvariant, MissionStep, PTL DEF EngineSpec, MissionHosted

\* The gateway and the clock.  Before the first step nothing was applied; from
\* then on the last command was applied one step ago, or, where the step is
\* longer than the timeout, at the start of the run.
GatewayInv ==
  IF now = 0 THEN lastApplied = NeverApplied
  ELSE /\ now >= scenario.step
       /\ lastApplied = IF scenario.step > CommandTimeout THEN 0 ELSE now - scenario.step

LEMMA GatewayTimes ==
  ASSUME EngineInv, GatewayInv
  PROVE  GatewayTimedOut <=> scenario.step > CommandTimeout /\ now > 0
<1>1. now \in Nat /\ scenario.step \in Nat \ {0} /\ CommandTimeout \in Nat
  BY EngineAssumption DEF EngineInv, EngineTypeOK
<1> QED BY <1>1 DEF GatewayInv, GatewayTimedOut, NeverApplied

LEMMA GatewayStep ==
  ASSUME EngineInv, GatewayInv, [EngineNext]_engineVars
  PROVE  GatewayInv'
<1>1. now \in Nat /\ scenario.step \in Nat \ {0} /\ CommandTimeout \in Nat
  BY EngineAssumption DEF EngineInv, EngineTypeOK
<1>2. CASE Assemble \/ UNCHANGED engineVars
  BY <1>2 DEF Assemble, engineVars, worldVars, GatewayInv
<1>3. CASE Respond
  <2>1. now' = now + scenario.step /\ scenario' = scenario
    BY <1>3 DEF Respond
  <2>2. lastApplied' = IF scenario.step > CommandTimeout /\ now > 0
                       THEN lastApplied ELSE now
    BY <1>3, GatewayTimes DEF Respond, Apply
  <2> QED BY <1>1, <2>1, <2>2 DEF GatewayInv
<1> QED BY <1>2, <1>3 DEF EngineNext

LEMMA GatewayInvariant == EngineSpec => []GatewayInv
<1>1. EngineInit => GatewayInv
  BY DEF EngineInit, GatewayInv
<1> QED BY <1>1, GatewayStep, EngineInvariant, PTL DEF EngineSpec

\* Nothing authorized leaves the vehicle moving, whatever the slip.
LEMMA ZeroStops ==
  ASSUME EngineInv, Respond, authorized'.linear = 0
  PROVE  speed' = 0
<1>1. Slip \in 0 .. 10
  BY SlipBounded DEF EngineInv
<1>2. CASE GatewayTimedOut
  BY <1>2 DEF Respond, Apply
<1>3. CASE ~GatewayTimedOut
  <2>1. speed' = (0 * (10 - Slip)) \div 10
    BY <1>3 DEF Respond, Apply
  <2> QED BY <1>1, <2>1
<1> QED BY <1>2, <1>3

\* The gateway times out on every step after the first when the step is longer
\* than its timeout, and never otherwise; then the vehicle does what was
\* authorized, less the slip (engine.py:128, _GatewayLayer.apply).
THEOREM GatewayObeyed == EngineSpec => GatewayObeys
<1>1. ASSUME EngineInv, EngineInv', GatewayInv, Respond
      PROVE  IF scenario.step > CommandTimeout /\ now > 0 THEN speed' = 0
             ELSE /\ IsZero(authorized') => speed' = 0
                  /\ Slip = 0 => speed' = authorized'.linear
  <2>1. CASE GatewayTimedOut
    BY <1>1, <2>1, GatewayTimes DEF Respond, Apply
  <2>2. CASE ~GatewayTimedOut
    <3>1. speed' = (authorized'.linear * (10 - Slip)) \div 10
      BY <1>1, <2>2 DEF Respond, Apply
    <3>2. authorized'.linear \in Int
      BY <1>1 DEF EngineInv, EngineTypeOK, TypeOK, AuthorizedCommand
    <3>3. Slip = 0 => speed' = authorized'.linear
      <4>1. Slip = 0 => speed' = (authorized'.linear * 10) \div 10
        BY <3>1, <3>2
      <4> QED BY <3>2, <4>1
    <3>4. ~(scenario.step > CommandTimeout /\ now > 0)
      BY <1>1, <2>2, GatewayTimes
    <3> QED BY <1>1, <3>3, <3>4, ZeroStops DEF IsZero
  <2> QED BY <2>1, <2>2
<1>2. EngineInv /\ EngineInv' /\ GatewayInv /\ [EngineNext]_engineVars
        => [Respond =>
              IF scenario.step > CommandTimeout /\ now > 0 THEN speed' = 0
              ELSE /\ IsZero(authorized') => speed' = 0
                   /\ Slip = 0 => speed' = authorized'.linear]_engineVars
  BY <1>1
<1> QED BY <1>2, EngineInvariant, GatewayInvariant, PTL DEF EngineSpec, GatewayObeys

-----------------------------------------------------------------------------
(***************************************************************************)
(* The mission goes by the supervisor's state of the step before.          *)
(***************************************************************************)
\* A request for motion was made of a supervisor in an active state.
RequestInv ==
  inputs # NoInputs /\ scenario.planned /\ inputs.request.linear # 0
    => state \in ActiveState

\* A mission shown that the supervisor is not active asks for no motion.
LEMMA InhibitedAsksNothing ==
  ASSUME NEW in, M!Tick(in), "safety_inhibits" \in in.signals
  PROVE  request' \in {"none", "zero"}
<1>1. inhibited' = TRUE
  BY DEF M!Tick, M!MotionInhibited, M!Inhibitors
<1> QED BY <1>1 DEF M!Tick, M!Rest, M!FinishAbort, M!Recover, M!DriveOn, M!Reach, M!Complete

LEMMA RequestStep ==
  ASSUME EngineInv, RequestInv, [EngineNext]_engineVars
  PROVE  RequestInv'
<1>1. CASE Assemble
  <2> SUFFICES ASSUME scenario.planned, state \notin ActiveState
               PROVE  inputs'.request.linear = 0
    BY <1>1 DEF Assemble, RequestInv
  <2>1. M!Tick(MissionInput(cached'))
    BY <1>1 DEF Assemble
  <2>2. "safety_inhibits" \in MissionInput(cached').signals
    BY DEF MissionInput, Signals
  <2>3. request' \in {"none", "zero"}
    BY <2>1, <2>2, InhibitedAsksNothing
  <2>4. PlannedRequest.linear = 0
    BY <2>3 DEF PlannedRequest, NoRequest, RequestOf
  <2>5. inputs'.request = PlannedRequest
    BY <1>1 DEF Assemble
  <2> QED BY <2>4, <2>5
<1>2. CASE Respond
  <2>1. Evaluate /\ TypeOK
    BY <1>2 DEF Respond, EngineInv, EngineTypeOK
  <2>2. inputs' = NoInputs
    BY <2>1, EvaluateConcludes DEF Conclude
  <2> QED BY <2>2 DEF RequestInv
<1>3. CASE UNCHANGED engineVars
  BY <1>3 DEF engineVars, worldVars, vars, RequestInv
<1> QED BY <1>1, <1>2, <1>3 DEF EngineNext

LEMMA RequestInvariant == EngineSpec => []RequestInv
<1>1. EngineInit => RequestInv
  BY DEF EngineInit, Init, RequestInv
<1> QED BY <1>1, RequestStep, EngineInvariant, PTL DEF EngineSpec

\* The command is zero unless motion was requested and the state it is
\* authorized in is active.
LEMMA MotionWasRequested ==
  ASSUME EngineInv, Evaluate, authorized'.linear # 0
  PROVE  Due /\ inputs.request.linear # 0 /\ state' \in ActiveState
<1>1. TypeOK
  BY DEF EngineInv, EngineTypeOK
<1>2. Due /\ \E target \in SafetyState : Conclude(target)
  BY <1>1, EvaluateConcludes
<1>3. authorized' = Arbitrate(inputs.request, state', Pulsed("estop") \/ estopLatched',
                              LowConfidence(inputs.frame))
  BY <1>2 DEF Conclude
<1>4. state' \in ActiveState
  BY <1>3 DEF Arbitrate, Zero
<1>5. authorized'.linear = Clamp(inputs.request.linear, LinearMax[state'])
  BY <1>3 DEF Arbitrate, Zero
<1>6. LinearMax[state'] \in Nat
  BY <1>4, LimitsAssumption
<1>7. Clamp(0, LinearMax[state']) = 0
  BY <1>6 DEF Clamp
<1> QED BY <1>2, <1>4, <1>5, <1>7

\* A rover that drives a plan moves only where the supervisor is in an active
\* state and was on the step before (engine.py:347).
THEOREM MotionIsTwiceAgreed == EngineSpec => TwoStepsAgree
<1>1. ASSUME EngineInv, RequestInv, Respond, scenario.planned, speed' # 0
      PROVE  state \in ActiveState /\ state' \in ActiveState
  <2>1. authorized'.linear # 0
    BY <1>1, ZeroStops
  <2>2. Evaluate
    BY <1>1 DEF Respond
  <2> QED BY <1>1, <2>1, <2>2, MotionWasRequested DEF RequestInv, Due
<1>2. EngineInv /\ RequestInv /\ [EngineNext]_engineVars
        => [Respond /\ scenario.planned /\ speed' # 0
              => state \in ActiveState /\ state' \in ActiveState]_engineVars
  BY <1>1
<1> QED BY <1>2, EngineInvariant, RequestInvariant, PTL DEF EngineSpec, TwoStepsAgree
-----------------------------------------------------------------------------
(***************************************************************************)
(* The faults and the clock.                                               *)
(***************************************************************************)
\* What the status of a fault has to be once the injector has looked at it.
Fits(f, status, time) ==
  /\ status = "ARMED" <=> ~ActiveAt(f, time)
  /\ status = "CLEARED" <=> OverAt(f, time)

\* The injector has looked at every fault at the time of the step under way,
\* or between two steps at that of the last one.
FaultInv ==
  IF Between /\ now = 0 THEN \A i \in DOMAIN scenario.faults : faultStatus[i] = "ARMED"
  ELSE /\ Between => now >= scenario.step
       /\ \A i \in DOMAIN scenario.faults :
            Fits(scenario.faults[i], faultStatus[i], IF Between THEN LastStep ELSE now)

\* From armed, or from the status of an earlier time, to the one of this time:
\* a fault may fire and clear at once, and never comes back.
LEMMA StatusMoves ==
  ASSUME NEW f \in FaultProfile, NEW status \in FaultStatus, NEW t \in Nat,
         \/ status = "ARMED"
         \/ \E earlier \in 0 .. t : Fits(f, status, earlier)
  PROVE  Fits(f, StatusAt(f, status, t), t)
<1>1. f.from \in Nat /\ f.lasts \in Nat \cup {Forever}
  BY DEF FaultProfile
<1>2. OverAt(f, t) => ActiveAt(f, t)
  BY <1>1 DEF OverAt, ActiveAt, Forever
<1>3. CASE status = "ARMED"
  BY <1>2, <1>3 DEF Fits, StatusAt
<1>4. CASE status # "ARMED"
  <2>1. PICK earlier \in 0 .. t : Fits(f, status, earlier)
    BY <1>4
  <2>2. ActiveAt(f, earlier) => ActiveAt(f, t)
    BY <1>1 DEF ActiveAt
  <2>3. OverAt(f, earlier) => OverAt(f, t)
    BY <1>1 DEF OverAt, Forever
  <2>4. CASE status = "FIRED"
    BY <1>4, <2>1, <2>2, <2>4 DEF Fits, StatusAt
  <2>5. CASE status = "CLEARED"
    BY <2>1, <2>2, <2>3, <2>5 DEF Fits, StatusAt
  <2> QED BY <1>4, <2>4, <2>5 DEF FaultStatus
<1> QED BY <1>3, <1>4

LEMMA FaultStep ==
  ASSUME EngineInv, FaultInv, [EngineNext]_engineVars
  PROVE  FaultInv'
<1>1. /\ now \in Nat /\ scenario.step \in Nat \ {0}
      /\ scenario.faults \in Seq(FaultProfile)
      /\ faultStatus \in [DOMAIN scenario.faults -> FaultStatus]
  BY EngineAssumption DEF EngineInv, EngineTypeOK
<1>2. CASE Assemble
  <2>1. /\ Between /\ scenario' = scenario /\ now' = now
        /\ faultStatus' = StatusesAt(scenario.faults, now)
    BY <1>2 DEF Assemble
  <2>2. ~Between'
    BY <1>2, AssemblePresents, SupervisorAssumption DEF Present, Between
  <2>3. ASSUME NEW i \in DOMAIN scenario.faults
        PROVE  Fits(scenario.faults[i], faultStatus'[i], now)
    <3>1. scenario.faults[i] \in FaultProfile /\ faultStatus[i] \in FaultStatus
      BY <1>1
    <3>2. \/ faultStatus[i] = "ARMED"
          \/ \E earlier \in 0 .. now : Fits(scenario.faults[i], faultStatus[i], earlier)
      <4>1. CASE now = 0
        BY <2>1, <4>1 DEF FaultInv
      <4>2. CASE now # 0
        <5>1. /\ now >= scenario.step
              /\ Fits(scenario.faults[i], faultStatus[i], LastStep)
          BY <2>1, <4>2 DEF FaultInv
        <5>2. LastStep \in 0 .. now
          BY <1>1, <5>1 DEF LastStep
        <5> QED BY <5>1, <5>2
      <4> QED BY <4>1, <4>2
    <3>3. faultStatus'[i] = StatusAt(scenario.faults[i], faultStatus[i], now)
      BY <2>1 DEF StatusesAt
    <3> QED BY <1>1, <3>1, <3>2, <3>3, StatusMoves
  <2> QED BY <2>1, <2>2, <2>3 DEF FaultInv
<1>3. CASE Respond
  <2>1. /\ scenario' = scenario /\ now' = now + scenario.step
        /\ faultStatus' = faultStatus
    BY <1>3 DEF Respond
  <2>2. ~Between /\ Between'
    <3>1. Evaluate /\ TypeOK
      BY <1>3 DEF Respond, EngineInv, EngineTypeOK
    <3> QED BY <3>1, EvaluateConcludes DEF Conclude, Due, Between
  <2>3. now' # 0 /\ now' >= scenario'.step /\ LastStep' = now
    BY <1>1, <2>1 DEF LastStep
  <2>4. \A i \in DOMAIN scenario.faults : Fits(scenario.faults[i], faultStatus[i], now)
    BY <2>2 DEF FaultInv
  <2> QED BY <2>1, <2>2, <2>3, <2>4 DEF FaultInv
<1>4. CASE UNCHANGED engineVars
  BY <1>4 DEF engineVars, worldVars, vars, FaultInv, Between, LastStep
<1> QED BY <1>2, <1>3, <1>4 DEF EngineNext

\* After every step exactly the faults whose window holds its time are in
\* force, for every scenario and every length of a step (injector.py evaluate).
THEOREM FaultsInTheirWindows == EngineSpec => []FaultsFollowTheirWindows
<1>1. EngineInit => FaultInv
  BY DEF EngineInit, Init, FaultInv, Between, Armed
<1>2. ASSUME EngineInv, FaultInv PROVE FaultsFollowTheirWindows
  <2> SUFFICES ASSUME Between, now > 0, NEW i \in DOMAIN scenario.faults
               PROVE  faultStatus[i] = "FIRED" <=>
                        /\ ActiveAt(scenario.faults[i], LastStep)
                        /\ ~OverAt(scenario.faults[i], LastStep)
    BY DEF FaultsFollowTheirWindows
  <2>1. now \in Nat /\ faultStatus[i] \in FaultStatus
    BY <1>2 DEF EngineInv, EngineTypeOK
  <2>2. Fits(scenario.faults[i], faultStatus[i], LastStep)
    BY <1>2, <2>1 DEF FaultInv
  <2> QED BY <2>1, <2>2 DEF Fits, FaultStatus
<1> QED BY <1>1, <1>2, FaultStep, EngineInvariant, PTL DEF EngineSpec
-----------------------------------------------------------------------------
(***************************************************************************)
(* Silence.                                                                *)
(***************************************************************************)
\* A finite set of integers has a largest member, or a smallest set would lack one.
LEMMA LargestExists ==
  ASSUME NEW S \in SUBSET Int, IsFiniteSet(S), S # {}
  PROVE  \E a \in S : \A b \in S : b <= a
<1> DEFINE Bounded(U) == \E a \in U : \A b \in U : b <= a
           R == StrictSubsetOrdering(S)
           Bad == {U \in FiniteSubsetsOf(S) : U # {} /\ ~Bounded(U)}
<1> SUFFICES ASSUME Bad # {} PROVE FALSE
  BY DEF FiniteSubsetsOf
<1>1. PICK U \in Bad : \A V \in Bad : <<V, U>> \notin R
  <2> HIDE DEF R
  <2>1. IsWellFoundedOn(R, FiniteSubsetsOf(S))
    BY FS_StrictSubsetOrderingWellFounded DEF R
  <2> QED BY <2>1, WFMin
<1>2. U \in SUBSET S /\ IsFiniteSet(U) /\ ~Bounded(U)
  BY DEF FiniteSubsetsOf
<1>3. PICK x \in U : TRUE
  OBVIOUS
<1>4. x \in Int /\ \A b \in U : b \in Int
  BY <1>2
<1> DEFINE V == U \ {x}
<1>5. V \in FiniteSubsetsOf(S)
  BY <1>2, FS_RemoveElement DEF FiniteSubsetsOf
<1>6. <<V, U>> \in R
  BY <1>2, <1>3, <1>5 DEF StrictSubsetOrdering
<1>7. V \notin Bad
  BY <1>1, <1>6
<1>8. CASE V = {}
  BY <1>2, <1>3, <1>4, <1>8
<1>9. CASE V # {}
  <2>1. PICK a \in V : \A b \in V : b <= a
    BY <1>5, <1>7, <1>9
  <2>2. a \in Int /\ a \in U
    BY <1>4
  <2>3. CASE a <= x
    <3>1. \A b \in U : b <= x
      BY <1>4, <2>1, <2>2, <2>3
    <3> QED BY <1>2, <1>3, <3>1
  <2>4. CASE ~(a <= x)
    <3>1. \A b \in U : b <= a
      BY <1>4, <2>1, <2>2, <2>4
    <3> QED BY <1>2, <2>2, <3>1
  <2> QED BY <2>3, <2>4
<1> QED BY <1>8, <1>9

\* The delay of a tick is at least that of each delay in force.
LEMMA DelayCovers ==
  ASSUME NEW faults \in Seq(FaultProfile), NEW statuses,
         NEW i \in InForce(faults, statuses, "delay_lidar")
  PROVE  /\ FaultEffect(faults, statuses).delay \in Nat
         /\ FaultEffect(faults, statuses).delay >= faults[i].amount
<1> DEFINE forced  == InForce(faults, statuses, "delay_lidar")
           amounts == {0} \cup {faults[j].amount : j \in forced}
           f       == [j \in forced |-> faults[j].amount]
           images  == {faults[j].amount : j \in forced}
<1>1. forced \in SUBSET (1 .. Len(faults)) /\ Len(faults) \in Nat
  BY DEF InForce
<1>2. IsFiniteSet(forced)
  <2>1. IsFiniteSet(1 .. Len(faults))
    BY <1>1, FS_Interval
  <2> HIDE DEF forced
  <2> QED BY <1>1, <2>1, FS_Subset
<1>3. f \in Surjection(forced, images)
  BY DEF Surjection
<1>4. IsFiniteSet(images)
  <2> HIDE DEF f, images, forced
  <2> QED BY <1>2, <1>3, FS_Surjection
<1>5. IsFiniteSet(amounts)
  <2>1. amounts = images \cup {0}
    OBVIOUS
  <2> HIDE DEF images, amounts
  <2> QED BY <1>4, <2>1, FS_AddElement
<1>6. amounts \in SUBSET Int /\ 0 \in amounts /\ faults[i].amount \in amounts
  <2>1. \A j \in forced : faults[j] \in FaultProfile
    BY <1>1
  <2>2. \A j \in forced : faults[j].amount \in Int
    BY <2>1 DEF FaultProfile
  <2> HIDE DEF forced
  <2>3. i \in forced
    BY DEF forced
  <2> QED BY <2>2, <2>3
<1>7. \E a \in amounts : \A b \in amounts : b <= a
  <2> HIDE DEF amounts
  <2> QED BY <1>5, <1>6, LargestExists
<1>8. FaultEffect(faults, statuses).delay = CHOOSE a \in amounts : \A b \in amounts : b <= a
  BY DEF FaultEffect, Largest
<1> DEFINE delay == FaultEffect(faults, statuses).delay
<1>9. delay \in amounts /\ \A b \in amounts : b <= delay
  <2> HIDE DEF amounts
  <2> QED BY <1>7, <1>8
<1>10. delay \in Nat /\ delay >= faults[i].amount
  <2> HIDE DEF delay, amounts
  <2>1. delay \in Int /\ faults[i].amount \in Int
    BY <1>6, <1>9
  <2>2. 0 <= delay /\ faults[i].amount <= delay
    BY <1>6, <1>9
  <2> QED BY <2>1, <2>2
<1> QED BY <1>10

Lost(i) == scenario.faults[i].type \in {"drop_lidar", "bridge_disconnect"}
Late(i) == scenario.faults[i].type = "delay_lidar"
Silent(i) == scenario.faults[i].type = "command_timeout"
NoLoss ==
  /\ InForce(scenario.faults, faultStatus, "drop_lidar") = {}
  /\ InForce(scenario.faults, faultStatus, "bridge_disconnect") = {}

\* The time of the last injection and reading.
LastLook == IF Between THEN LastStep ELSE now

\* What silence does, fault by fault: a lost lidar was last read before the
\* loss, a late one shows nothing newer than its delay, and the gateway was last
\* petted before it fell silent.
SilenceInv ==
  /\ Taken(cached["lidar"]) =>
       /\ cached["lidar"].made <= LastLook
       /\ cached["lidar"].stamp <= cached["lidar"].made
  /\ Between /\ now = 0 => ~Taken(cached["lidar"])
  /\ \A i \in DOMAIN scenario.faults : faultStatus[i] = "FIRED" =>
       /\ Lost(i) /\ Taken(cached["lidar"]) =>
            cached["lidar"].made < scenario.faults[i].from
       /\ Late(i) /\ Taken(cached["lidar"])
                  /\ cached["lidar"].made >= scenario.faults[i].from =>
            cached["lidar"].stamp <= cached["lidar"].made - scenario.faults[i].amount
       /\ Silent(i) => \/ sincePet["gateway"] > Deadline["gateway"]
                       \/ sincePet["gateway"] >= LastStep - scenario.faults[i].from

\* What the supervisor is shown of it.
PresentedInv ==
  ~Between =>
    /\ inputs.frame.level["lidar"] = LevelOf("lidar", cached)
    /\ inputs.gap = SinceLastStep
    /\ \A i \in DOMAIN scenario.faults :
         faultStatus[i] = "FIRED" /\ Silent(i) => ~inputs.heartbeat
    /\ NoLoss => Taken(cached["lidar"]) /\ now - cached["lidar"].made < Period["lidar"]

\* A fault that is in force on this tick and was not before fired since the
\* last one.
LEMMA JustFired ==
  ASSUME EngineInv, FaultInv, Assemble, NEW i \in DOMAIN scenario.faults,
         faultStatus'[i] = "FIRED", faultStatus[i] # "FIRED"
  PROVE  /\ scenario.faults[i].from \in Nat /\ scenario.faults[i].from <= now
         /\ now # 0 => LastStep < scenario.faults[i].from
<1>1. /\ now \in Nat /\ scenario.step \in Nat \ {0}
      /\ scenario.faults[i] \in FaultProfile /\ faultStatus[i] \in FaultStatus
  BY EngineAssumption DEF EngineInv, EngineTypeOK
<1>2. faultStatus'[i] = StatusAt(scenario.faults[i], faultStatus[i], now)
  BY DEF Assemble, StatusesAt
<1>3. faultStatus[i] = "ARMED" /\ ActiveAt(scenario.faults[i], now)
  BY <1>1, <1>2 DEF StatusAt, FaultStatus
<1>4. now # 0 => Fits(scenario.faults[i], faultStatus[i], LastStep)
  BY DEF FaultInv, Assemble
<1>5. now # 0 => ~ActiveAt(scenario.faults[i], LastStep)
  BY <1>3, <1>4 DEF Fits
<1>6. scenario.faults[i].from \in Nat /\ LastStep \in Int
  BY <1>1 DEF FaultProfile, LastStep
<1> QED BY <1>1, <1>3, <1>5, <1>6 DEF ActiveAt
\* A step's reading of the lidar: none while it is lost or not due.
LEMMA LidarSensed ==
  ASSUME EngineInv, SilenceInv, Assemble
  PROVE  LET old    == cached["lidar"]
             read   == cached'["lidar"]
             effect == FaultEffect(scenario.faults, faultStatus')
         IN  \/ /\ read = old
                /\ effect.disconnected \/ effect.drop \/ ~DueAgain("lidar", now)
             \/ /\ ~effect.disconnected /\ ~effect.drop
                /\ Taken(read) /\ read.made = now /\ read.stamp = now - effect.delay
<1> DEFINE effect == FaultEffect(scenario.faults, faultStatus')
<1>1. cached'["lidar"] = IF effect.disconnected \/ effect.drop \/ ~DueAgain("lidar", now)
                         THEN cached["lidar"] ELSE ReadLidar(effect, now, speed)
  BY DEF Assemble, Sensed
<1>2. now \in Nat
  BY DEF EngineInv, EngineTypeOK
<1> HIDE DEF effect
<1>3. /\ ReadLidar(effect, now, speed).made = now
      /\ ReadLidar(effect, now, speed).stamp = now - effect.delay
  BY DEF ReadLidar
<1>4. Taken(ReadLidar(effect, now, speed))
  BY <1>2, <1>3 DEF Taken, NeverMade
<1> QED BY <1>1, <1>3, <1>4 DEF effect

LEMMA LossesShow ==
  ASSUME EngineInv, NEW statuses
  PROVE  LET effect == FaultEffect(scenario.faults, statuses)
         IN  /\ \A i \in DOMAIN scenario.faults :
                  /\ statuses[i] = "FIRED" /\ Lost(i) => effect.drop \/ effect.disconnected
                  /\ statuses[i] = "FIRED" /\ Silent(i) => effect.silent
             /\ InForce(scenario.faults, statuses, "drop_lidar") = {} => ~effect.drop
             /\ InForce(scenario.faults, statuses, "bridge_disconnect") = {}
                  => ~effect.disconnected
BY DEF FaultEffect, InForce, Lost, Silent

LEMMA SilenceAssembled ==
  ASSUME EngineInv, FaultInv, SilenceInv, Assemble
  PROVE  SilenceInv' /\ PresentedInv'
<1> DEFINE old    == cached["lidar"]
           read   == cached'["lidar"]
           effect == FaultEffect(scenario.faults, faultStatus')
<1>1. /\ now \in Nat /\ scenario.step \in Nat \ {0}
      /\ scenario.faults \in Seq(FaultProfile)
      /\ old \in Reading /\ sincePet \in [Watchdog -> Nat] /\ Deadline \in [Watchdog -> Nat]
      /\ Period["lidar"] \in Nat \ {0} /\ "gateway" \in Watchdog
  BY EngineAssumption, SupervisorAssumption, StreamFacts
     DEF EngineInv, EngineTypeOK, TypeOK, Watchdog
<1>2. /\ Between /\ scenario' = scenario /\ now' = now /\ sincePet' = sincePet
      /\ inputs'.frame = SimulatedFrame(cached') /\ inputs'.gap = SinceLastStep
      /\ inputs'.heartbeat = ~effect.silent
  BY DEF Assemble
<1>3. ~Between' /\ LastLook' = now /\ LastStep' = LastStep
  <2>1. ~Between'
    BY AssemblePresents, SupervisorAssumption DEF Present, Between
  <2> QED BY <1>2, <2>1 DEF LastLook, LastStep
<1>4. LastStep \in Int /\ LastStep < now
  BY <1>1 DEF LastStep
<1>5. \/ /\ read = old
         /\ effect.disconnected \/ effect.drop \/ ~DueAgain("lidar", now)
      \/ /\ ~effect.disconnected /\ ~effect.drop
         /\ Taken(read) /\ read.made = now /\ read.stamp = now - effect.delay
  BY LidarSensed
<1>6. Taken(old) => /\ now # 0 /\ old.made \in Nat /\ old.stamp \in Int
                    /\ old.made <= LastStep /\ old.stamp <= old.made
  BY <1>1, <1>2 DEF SilenceInv, LastLook, Reading, Taken
<1>7. effect.delay \in Nat
  <2>1. faultStatus' \in [DOMAIN scenario.faults -> FaultStatus]
    BY StatusesTyped DEF Assemble, EngineInv, EngineTypeOK
  <2> QED BY <2>1, EffectTyped DEF EngineInv, EngineTypeOK, Effects
<1>8. ASSUME NEW i \in DOMAIN scenario.faults, faultStatus'[i] = "FIRED"
      PROVE  /\ scenario.faults[i].from \in Nat /\ scenario.faults[i].amount \in Int
             /\ faultStatus[i] # "FIRED" =>
                  /\ scenario.faults[i].from <= now
                  /\ now # 0 => LastStep < scenario.faults[i].from
  <2>1. scenario.faults[i] \in FaultProfile
    BY <1>1
  <2> QED BY <1>8, <2>1, JustFired DEF FaultProfile
<1>9. /\ \A i \in DOMAIN scenario.faults :
           /\ faultStatus'[i] = "FIRED" /\ Lost(i) => effect.drop \/ effect.disconnected
           /\ faultStatus'[i] = "FIRED" /\ Silent(i) => effect.silent
      /\ InForce(scenario.faults, faultStatus', "drop_lidar") = {} => ~effect.drop
      /\ InForce(scenario.faults, faultStatus', "bridge_disconnect") = {}
           => ~effect.disconnected
  BY LossesShow
<1>10. ASSUME NEW i \in DOMAIN scenario.faults, faultStatus'[i] = "FIRED", Late(i)
       PROVE  effect.delay >= scenario.faults[i].amount
  <2>1. i \in InForce(scenario.faults, faultStatus', "delay_lidar")
    BY <1>10 DEF InForce, Late
  <2> QED BY <1>1, <2>1, DelayCovers
<1> HIDE DEF effect, old, read
<1>11. Taken(read) => read.made <= now /\ read.stamp <= read.made
  BY <1>1, <1>4, <1>5, <1>6, <1>7
<1>12. ASSUME NEW i \in DOMAIN scenario.faults, faultStatus'[i] = "FIRED", Lost(i), Taken(read)
       PROVE  read.made < scenario.faults[i].from
  <2>1. read = old
    BY <1>5, <1>9, <1>12
  <2>2. CASE faultStatus[i] = "FIRED"
    BY <1>12, <2>1, <2>2 DEF SilenceInv, old
  <2>3. CASE faultStatus[i] # "FIRED"
    BY <1>4, <1>6, <1>8, <1>12, <2>1, <2>3
  <2> QED BY <2>2, <2>3
<1>13. ASSUME NEW i \in DOMAIN scenario.faults, faultStatus'[i] = "FIRED", Late(i),
              Taken(read), read.made >= scenario.faults[i].from
       PROVE  read.stamp <= read.made - scenario.faults[i].amount
  <2>1. CASE read = old
    <3>1. CASE faultStatus[i] = "FIRED"
      BY <1>13, <2>1, <3>1 DEF SilenceInv, old
    <3>2. CASE faultStatus[i] # "FIRED"
      BY <1>4, <1>6, <1>8, <1>13, <2>1, <3>2
    <3> QED BY <3>1, <3>2
  <2>2. CASE read.made = now /\ read.stamp = now - effect.delay
    BY <1>1, <1>7, <1>8, <1>10, <1>13, <2>2
  <2> QED BY <1>5, <2>1, <2>2
<1>14. ASSUME NEW i \in DOMAIN scenario.faults, faultStatus'[i] = "FIRED", Silent(i)
       PROVE  \/ sincePet["gateway"] > Deadline["gateway"]
              \/ sincePet["gateway"] >= LastStep - scenario.faults[i].from
  <2>1. CASE faultStatus[i] = "FIRED"
    BY <1>14, <2>1 DEF SilenceInv
  <2>2. CASE faultStatus[i] # "FIRED"
    <3>1. LastStep - scenario.faults[i].from <= 0
      BY <1>1, <1>4, <1>8, <1>14, <2>2
    <3>2. sincePet["gateway"] \in Nat
      BY <1>1
    <3>3. scenario.faults[i].from \in Nat
      BY <1>8, <1>14
    <3> QED BY <1>4, <3>1, <3>2, <3>3
  <2> QED BY <2>1, <2>2
<1>15. SilenceInv'
  BY <1>2, <1>3, <1>11, <1>12, <1>13, <1>14 DEF SilenceInv, Lost, Late, Silent, read
<1>16. inputs'.frame.level["lidar"] = LevelOf("lidar", cached')
  BY <1>2, StreamFacts DEF SimulatedFrame
<1>17. NoLoss' => Taken(read) /\ now - read.made < Period["lidar"]
  <2> SUFFICES ASSUME NoLoss' PROVE Taken(read) /\ now - read.made < Period["lidar"]
    OBVIOUS
  <2>1. ~effect.drop /\ ~effect.disconnected
    BY <1>2, <1>9 DEF NoLoss
  <2>2. CASE read = old
    <3>1. ~DueAgain("lidar", now)
      BY <1>1, <1>4, <1>5, <1>6, <2>1, <2>2
    <3> QED BY <1>1, <1>6, <2>2, <3>1 DEF DueAgain, old
  <2>3. CASE read.made = now /\ Taken(read)
    BY <1>1, <2>3
  <2> QED BY <1>5, <2>2, <2>3
<1>18. PresentedInv'
  <2>1. SinceLastStep' = SinceLastStep
    BY <1>2 DEF SinceLastStep
  <2>2. inputs'.frame.level["lidar"] = LevelOf("lidar", cached)'
    BY <1>2, <1>16 DEF LevelOf
  <2> QED BY <1>2, <1>9, <1>17, <2>1, <2>2 DEF PresentedInv, Silent, read
<1> QED BY <1>15, <1>18

LEMMA SilenceAnswered ==
  ASSUME EngineInv, FaultInv, SilenceInv, PresentedInv, Respond
  PROVE  SilenceInv' /\ PresentedInv'
<1>1. /\ now \in Nat /\ scenario.step \in Nat \ {0}
      /\ scenario.faults \in Seq(FaultProfile)
      /\ sincePet \in [Watchdog -> Nat] /\ Deadline \in [Watchdog -> Nat]
      /\ "gateway" \in Watchdog
  BY EngineAssumption, SupervisorAssumption DEF EngineInv, EngineTypeOK, TypeOK, Watchdog
<1>2. Due /\ inputs' = NoInputs /\ sincePet' = [w \in Watchdog |-> PetAge(w)]
  BY EvaluateConcludes DEF Respond, Conclude, EngineInv, EngineTypeOK
<1>3. /\ scenario' = scenario /\ now' = now + scenario.step
      /\ faultStatus' = faultStatus /\ cached' = cached
  BY DEF Respond
<1>4. ~Between /\ Between' /\ LastStep' = now /\ LastLook' = now /\ LastLook = now
      /\ now' # 0
  <2>1. ~Between /\ Between'
    BY <1>2 DEF Between, Due
  <2>2. LastStep' = now /\ now' # 0
    BY <1>1, <1>3 DEF LastStep
  <2> QED BY <2>1, <2>2 DEF LastLook
<1>5. ASSUME NEW i \in DOMAIN scenario.faults, faultStatus[i] = "FIRED", Silent(i)
      PROVE  \/ sincePet'["gateway"] > Deadline["gateway"]
             \/ sincePet'["gateway"] >= now - scenario.faults[i].from
  <2> DEFINE from == scenario.faults[i].from
             pet  == sincePet["gateway"]
             D    == Deadline["gateway"]
  <2>1. from \in Nat /\ pet \in Nat /\ D \in Nat
    <3>1. scenario.faults[i] \in FaultProfile
      BY <1>1
    <3> QED BY <1>1, <3>1 DEF FaultProfile
  <2>2. sincePet'["gateway"] = Saturate(pet + SinceLastStep, D + 1)
    BY <1>1, <1>2, <1>4, <1>5 DEF PetAge, Petted, PresentedInv
  <2>3. pet > D \/ pet >= LastStep - from
    BY <1>5 DEF SilenceInv
  <2>4. now >= from
    <3>1. Fits(scenario.faults[i], faultStatus[i], now)
      BY <1>4 DEF FaultInv
    <3>2. ActiveAt(scenario.faults[i], now)
      BY <1>5, <3>1 DEF Fits
    <3> QED BY <3>2 DEF ActiveAt
  <2> HIDE DEF from, pet, D
  <2>5. CASE now = 0
    BY <1>1, <2>1, <2>2, <2>4, <2>5 DEF Saturate, SinceLastStep, from, D
  <2>6. CASE now # 0
    <3>1. SinceLastStep = scenario.step /\ LastStep = now - scenario.step
      BY <2>6 DEF SinceLastStep, LastStep
    <3>2. sincePet'["gateway"] > D \/ sincePet'["gateway"] >= now - from
      BY <1>1, <2>1, <2>2, <2>3, <3>1 DEF Saturate
    <3> QED BY <3>2 DEF from, D
  <2> QED BY <2>5, <2>6
<1>6. SilenceInv'
  BY <1>3, <1>4, <1>5 DEF SilenceInv, Lost, Late, Silent
<1> QED BY <1>4, <1>6 DEF PresentedInv

LEMMA SilenceStep ==
  ASSUME EngineInv, FaultInv, SilenceInv, PresentedInv, [EngineNext]_engineVars
  PROVE  SilenceInv' /\ PresentedInv'
<1>1. CASE UNCHANGED engineVars
  <2>1. /\ UNCHANGED <<inputs, sincePet, faultStatus, cached, scenario, now>>
        /\ LevelOf("lidar", cached)' = LevelOf("lidar", cached)
    BY <1>1 DEF engineVars, worldVars, vars, LevelOf
  <2> QED BY <2>1 DEF SilenceInv, PresentedInv, LastLook, LastStep, Between, SinceLastStep,
                      NoLoss, Lost, Late, Silent
<1> QED BY <1>1, SilenceAssembled, SilenceAnswered DEF EngineNext

\* Motion means that the lidar shown is current and no watchdog is overdue.
LEMMA MotionMeansHeard ==
  ASSUME EngineInv, Respond, speed' # 0
  PROVE  /\ inputs.frame.level["lidar"] \notin {"missing", "stale"}
         /\ Expired = {} \/ state = "SAFE_STOP"
<1>1. TypeOK /\ LatchInv /\ Evaluate
  BY DEF Respond, EngineInv, EngineTypeOK
<1>2. ~IsZero(authorized')
  BY ZeroStops DEF IsZero
<1>3. NothingStops
  BY <1>1, <1>2, MotionMeansNothingStops
<1>4. "lidar" \in Stream
  BY StreamFacts
<1>5. inputs.frame.level["lidar"] \notin {"missing", "stale"}
  BY <1>3, <1>4 DEF NothingStops, InputsUsable, AnySafeStop, AnyMissingRequired
<1> QED BY <1>3, <1>5 DEF NothingStops, WatchdogEscalates

\* Silence stops the rover, for every scenario, deadline and length of a step:
\* a lidar lost or late for longer than it may be stale, and a gateway silent
\* for longer than its deadline (injector.py, sensor_sim.py, watchdogs.py).
THEOREM SilenceStops == EngineSpec => SilenceStopsTheRover
<1>1. ASSUME EngineInv, FaultInv, SilenceInv, PresentedInv, Respond, speed' # 0,
             NEW i \in DOMAIN scenario.faults, faultStatus[i] = "FIRED"
      PROVE  LET f == scenario.faults[i]
             IN  /\ ~(/\ f.type \in {"drop_lidar", "bridge_disconnect"}
                      /\ InForceFor(i) > StaleAfter["lidar"])
                 /\ ~(/\ f.type = "delay_lidar" /\ f.amount > StaleAfter["lidar"]
                      /\ NoLoss
                      /\ InForceFor(i) >= Period["lidar"] + scenario.step)
                 /\ ~(/\ f.type = "command_timeout" /\ state # "SAFE_STOP"
                      /\ InForceFor(i) > Deadline["gateway"])
  <2> DEFINE f     == scenario.faults[i]
             lidar == cached["lidar"]
  <2>1. /\ now \in Nat /\ scenario.step \in Nat \ {0}
        /\ f.from \in Nat /\ f.amount \in Int
        /\ lidar \in Reading /\ Period["lidar"] \in Nat /\ StaleAfter["lidar"] \in Nat
    <3>1. /\ now \in Nat /\ scenario.step \in Nat \ {0} /\ f \in FaultProfile
          /\ lidar \in Reading
      BY <1>1, EngineAssumption, StreamFacts DEF EngineInv, EngineTypeOK
    <3> QED BY <3>1, EngineAssumption, StreamFacts DEF FaultProfile
  <2>2. Evaluate /\ Due /\ ~Between
    BY <1>1, EvaluateConcludes DEF Respond, EngineInv, EngineTypeOK, Due, Between
  <2>3. /\ inputs.frame.level["lidar"] = LevelOf("lidar", cached)
        /\ inputs.gap = SinceLastStep
        /\ NoLoss => Taken(lidar) /\ now - lidar.made < Period["lidar"]
    BY <1>1, <2>2 DEF PresentedInv
  <2>4. Taken(lidar) /\ ~(now - lidar.stamp > StaleAfter["lidar"])
    <3>1. LevelOf("lidar", cached) \notin {"missing", "stale"}
      BY <1>1, <2>3, MotionMeansHeard
    <3>2. lidar.stamp \in Int
      BY <2>1 DEF Reading
    <3> QED BY <2>1, <3>1, <3>2 DEF LevelOf, Larger
  <2>5. lidar.made \in Nat /\ lidar.stamp \in Int /\ lidar.stamp <= lidar.made
    BY <1>1, <2>1, <2>4 DEF Reading, Taken, SilenceInv
  <2>6. ~(/\ f.type \in {"drop_lidar", "bridge_disconnect"}
          /\ InForceFor(i) > StaleAfter["lidar"])
    <3>1. f.type \in {"drop_lidar", "bridge_disconnect"} => lidar.made < f.from
      BY <1>1, <2>4 DEF SilenceInv, Lost
    <3>2. InForceFor(i) = now - f.from
      BY DEF InForceFor
    <3> HIDE DEF f, lidar
    <3> QED BY <2>1, <2>4, <2>5, <3>1, <3>2
  <2>7. ~(/\ f.type = "delay_lidar" /\ f.amount > StaleAfter["lidar"] /\ NoLoss
          /\ InForceFor(i) >= Period["lidar"] + scenario.step)
    <3> SUFFICES ASSUME f.type = "delay_lidar", f.amount > StaleAfter["lidar"], NoLoss,
                        InForceFor(i) >= Period["lidar"] + scenario.step
                 PROVE  FALSE
      OBVIOUS
    <3>1. now - lidar.made < Period["lidar"]
      BY <2>3
    <3>2. now - f.from >= Period["lidar"] + scenario.step
      BY DEF InForceFor
    <3>3. lidar.made >= f.from
      BY <2>1, <2>5, <3>1, <3>2
    <3>4. lidar.stamp <= lidar.made - f.amount
      BY <1>1, <2>4, <3>3 DEF SilenceInv, Late
    <3>5. lidar.made <= now
      BY <1>1, <2>2, <2>4 DEF SilenceInv, LastLook
    <3> HIDE DEF f, lidar
    <3> QED BY <2>1, <2>4, <2>5, <3>4, <3>5
  <2>8. ~(/\ f.type = "command_timeout" /\ state # "SAFE_STOP"
          /\ InForceFor(i) > Deadline["gateway"])
    <3> SUFFICES ASSUME f.type = "command_timeout", state # "SAFE_STOP",
                        now - f.from > Deadline["gateway"]
                 PROVE  FALSE
      BY DEF InForceFor
    <3>1. /\ sincePet["gateway"] \in Nat /\ Deadline["gateway"] \in Nat
          /\ "gateway" \in Watchdog
      BY <1>1, SupervisorAssumption DEF EngineInv, EngineTypeOK, TypeOK, Watchdog
    <3>2. ~inputs.heartbeat
      BY <1>1, <2>2 DEF PresentedInv, Silent
    <3>3. \/ sincePet["gateway"] > Deadline["gateway"]
          \/ sincePet["gateway"] >= LastStep - f.from
      BY <1>1 DEF SilenceInv, Silent
    <3>4. now # 0 /\ SinceLastStep = scenario.step /\ LastStep = now - scenario.step
      BY <2>1, <3>1 DEF SinceLastStep, LastStep
    <3>5. PetAge("gateway") = Saturate(sincePet["gateway"] + scenario.step,
                                       Deadline["gateway"] + 1)
      BY <2>3, <3>2, <3>4 DEF PetAge, Petted
    <3> HIDE DEF f
    <3>6. PetAge("gateway") > Deadline["gateway"]
      BY <2>1, <3>1, <3>3, <3>4, <3>5 DEF Saturate
    <3>7. Expired # {}
      BY <3>1, <3>6 DEF Expired
    <3> QED BY <1>1, <3>7, MotionMeansHeard
  <2> QED BY <2>6, <2>7, <2>8
<1>2. EngineInit => SilenceInv /\ PresentedInv
  BY StreamFacts DEF EngineInit, Init, SilenceInv, PresentedInv, Between, Armed, Taken, NoReading
<1>3. EngineInit => FaultInv
  BY DEF EngineInit, Init, FaultInv, Between, Armed
<1>4. EngineInv /\ FaultInv /\ SilenceInv /\ PresentedInv /\ [EngineNext]_engineVars
        => [Respond =>
              \A i \in DOMAIN scenario.faults :
                LET f == scenario.faults[i]
                IN  /\ faultStatus[i] = "FIRED"
                    /\ \/ /\ f.type \in {"drop_lidar", "bridge_disconnect"}
                          /\ InForceFor(i) > StaleAfter["lidar"]
                       \/ /\ f.type = "delay_lidar" /\ f.amount > StaleAfter["lidar"]
                          /\ InForce(scenario.faults, faultStatus, "drop_lidar") = {}
                          /\ InForce(scenario.faults, faultStatus, "bridge_disconnect") = {}
                          /\ InForceFor(i) >= Period["lidar"] + scenario.step
                       \/ /\ f.type = "command_timeout" /\ state # "SAFE_STOP"
                          /\ InForceFor(i) > Deadline["gateway"]
                    => speed' = 0]_engineVars
  BY <1>1 DEF NoLoss
<1> QED BY <1>2, <1>3, <1>4, FaultStep, SilenceStep, EngineInvariant, PTL
        DEF EngineSpec, SilenceStopsTheRover

-----------------------------------------------------------------------------
(***************************************************************************)
(* Keepouts.                                                               *)
(***************************************************************************)
Ended == {"ABORTING", "ABORTED", "COMPLETE"}

\* The mission as the engine drives it: it is never paused, it has no waypoint
\* before it is under way, and a latched abort is being carried out.
MissionShape ==
  /\ mission \in {"IDLE", "PREPARING"} \cup M!UnderWay \cup Ended
  /\ behavior \in M!Behavior
  /\ mission \in {"IDLE", "PREPARING", "COMPLETE"} => active = NoWaypoint
  /\ behavior = "MISSION_ABORT" => mission \in {"ABORTING", "ABORTED"}

\* Less than the way made in one step from an edge, or where the run began.
JustInside(p, z) ==
  \/ p - z.from < SpeedLimit * scenario.step
  \/ z.to - p < SpeedLimit * scenario.step
  \/ p = 0

\* In a keepout the mission is neither over nor about to be, and it asks for no
\* motion; one that is over asks for none anywhere.
KeepoutInv ==
  scenario.planned =>
    /\ MissionShape
    /\ InKeepout => mission \notin Ended
    /\ ~Between =>
         /\ inputs.request.linear \in -SpeedLimit .. SpeedLimit
         /\ InKeepout \/ mission \in Ended => inputs.request.linear = 0
    /\ \A z \in scenario.keepouts : z.from <= pose /\ pose <= z.to => JustInside(pose, z)

\* What the policy may answer on a tick.
LEMMA PolicyAnswers ==
  ASSUME NEW s, behavior \in M!Behavior, M!EvaluatePolicy(s)
  PROVE  /\ behavior' \in M!Behavior
         /\ behavior' = "MISSION_ABORT" => behavior = "MISSION_ABORT" \/ s.timedOut
         /\ "keepout_violation" \in s.signals /\ behavior # "MISSION_ABORT" =>
              /\ behavior' \in {"STOP_AND_REEVALUATE", "SAFE_STOP_ESCALATION"}
              /\ decision' # "CLEAR"
<1> USE DEF M!Behavior
<1>1. CASE M!HoldAbort(s) \/ M!HoldBackup(s) \/ M!HoldRecovery(s) \/ M!NoRecovery(s)
  BY <1>1 DEF M!HoldAbort, M!HoldBackup, M!HoldRecovery, M!NoRecovery, M!Hold, M!TimedOut,
              M!Settles, M!InTime
<1>2. CASE M!EndBackup(s) \/ M!ClearRecovery(s)
  BY <1>2 DEF M!EndBackup, M!ClearRecovery, M!Clear, M!TimedOut, M!Settles, M!InTime
<1>3. CASE M!EngageOnOperator(s) \/ M!EscalateOnKeepout(s)
  BY <1>3 DEF M!EngageOnOperator, M!EscalateOnKeepout, M!Engage
<1>4. CASE M!WaitForSensors(s) \/ M!FollowSupervisor(s)
  BY <1>4 DEF M!WaitForSensors, M!FollowSupervisor, M!Engage, M!InTime
<1>5. CASE M!StartBackup(s) \/ M!GiveUp(s)
  BY <1>5 DEF M!StartBackup, M!GiveUp, M!Engage, M!TimedOut
<1> QED BY <1>1, <1>2, <1>3, <1>4, <1>5 DEF M!EvaluatePolicy

\* Where a mission that only the engine commands is taken.
LEMMA WhereTo ==
  ASSUME MissionShape, NEW in, in.commands \subseteq {"start"}, behavior' \in M!Behavior
  PROVE  /\ mission = "IDLE" =>
              M!Determined(in) \in {"IDLE", "PREPARING", "ACTIVE"}
         /\ mission = "PREPARING" => M!Determined(in) \in {"PREPARING", "ACTIVE"}
         /\ mission \in {"IDLE", "PREPARING"} /\ M!MotionInhibited(in) =>
              M!Determined(in) \in {"IDLE", "PREPARING"}
         /\ mission = "COMPLETE" => M!Determined(in) = "COMPLETE"
         /\ mission \in {"ABORTING", "ABORTED"} => M!Determined(in) = "ABORTED"
         /\ mission \in M!UnderWay =>
              /\ M!Determined(in) \in M!UnderWay \cup {"ABORTING"}
              /\ behavior' = "MISSION_ABORT" <=> M!Determined(in) = "ABORTING"
              /\ behavior' \in {"STOP_AND_REEVALUATE", "SAFE_STOP_ESCALATION"}
                   /\ decision' # "CLEAR" => M!Determined(in) \in {"RECOVERY", "DEGRADED"}
<1>1. M!Commanded(in) = IF mission = "IDLE" /\ "start" \in in.commands THEN "PREPARING"
                                                                     ELSE mission
  BY DEF M!Commanded, MissionShape, M!UnderWay, Ended
<1>2. /\ M!Moved("PREPARING", "ACTIVE") = "ACTIVE"
      /\ M!Moved("ABORTING", "ABORTED") = "ABORTED"
  BY DEF M!Moved, M!AllowedMissionTransitions
<1>3. CASE M!Commanded(in) = "PREPARING"
  <2>1. M!Determined(in) = IF M!MotionInhibited(in) THEN "PREPARING" ELSE "ACTIVE"
    BY <1>2, <1>3 DEF M!Determined, M!UnderWay
  <2> QED BY <1>1, <1>3, <2>1 DEF M!UnderWay
<1>4. CASE M!Commanded(in) \in {"IDLE", "COMPLETE", "ABORTED"}
  <2>1. M!Determined(in) = M!Commanded(in)
    BY <1>4 DEF M!Determined, M!UnderWay
  <2> QED BY <1>1, <1>4, <2>1 DEF M!UnderWay
<1>5. CASE M!Commanded(in) = "ABORTING"
  <2>1. M!Determined(in) = "ABORTED"
    BY <1>2, <1>5 DEF M!Determined, M!UnderWay
  <2> QED BY <1>1, <1>5, <2>1 DEF M!UnderWay
<1>6. CASE M!Commanded(in) \in M!UnderWay
  <2> DEFINE from == M!Commanded(in)
             to   == M!Implied(from)
  <2>1. from = mission /\ from \in {"ACTIVE", "RECOVERY", "DEGRADED"}
    BY <1>1, <1>6 DEF M!UnderWay
  <2>2. M!Determined(in) = IF to # from THEN M!Moved(from, to)
                           ELSE IF decision' = "CLEAR" THEN "ACTIVE" ELSE from
    BY <2>1 DEF M!Determined, M!UnderWay
  <2>3. /\ behavior' = "none" => to = from
        /\ behavior' = "MISSION_ABORT" => to = "ABORTING"
        /\ behavior' = "SAFE_STOP_ESCALATION" => to = "DEGRADED"
        /\ behavior' \in {"STOP_AND_REEVALUATE", "BACKUP_AND_RETRY",
                          "WAIT_FOR_SENSOR_RECOVERY"} => to = "RECOVERY"
    BY DEF M!Implied
  <2>4. \A t \in {"ABORTING", "DEGRADED", "RECOVERY"} \ {from} : M!Moved(from, t) = t
    BY <2>1 DEF M!Moved, M!AllowedMissionTransitions
  <2> HIDE DEF from, to
  <2>5. behavior' = "none" =>
          M!Determined(in) \in {"ACTIVE", "RECOVERY", "DEGRADED"}
    BY <2>1, <2>2, <2>3
  <2>6. behavior' = "MISSION_ABORT" => M!Determined(in) = "ABORTING"
    BY <2>1, <2>2, <2>3, <2>4
  <2>7. behavior' \in {"SAFE_STOP_ESCALATION", "STOP_AND_REEVALUATE", "BACKUP_AND_RETRY",
                       "WAIT_FOR_SENSOR_RECOVERY"} =>
          /\ M!Determined(in) \in {"ACTIVE", "RECOVERY", "DEGRADED"}
          /\ decision' # "CLEAR" => M!Determined(in) \in {"RECOVERY", "DEGRADED"}
    BY <2>1, <2>2, <2>3, <2>4
  <2> QED BY <2>1, <2>5, <2>6, <2>7 DEF M!UnderWay, M!Behavior
<1> QED BY <1>1, <1>3, <1>4, <1>5, <1>6 DEF MissionShape, Ended, M!UnderWay

\* A mission that is over, or about to be, has asked for nothing.
LEMMA OverAsksNothing ==
  ASSUME NEW in, M!Tick(in), mission' \in Ended
  PROVE  request' = "none"
BY DEF M!Tick, M!Rest, M!FinishAbort, M!Recover, M!DriveOn, M!Reach, M!Complete, Ended

\* The mission keeps its shape.
LEMMA ShapeStep ==
  ASSUME MissionShape, NEW in, in.commands \subseteq {"start"}, M!Tick(in)
  PROVE  MissionShape'
<1>1. M!EvaluatePolicy(M!PolicyInputs(in))
  BY DEF M!Tick
<1>2. /\ behavior' \in M!Behavior
      /\ behavior' = "MISSION_ABORT" => behavior = "MISSION_ABORT" \/ active # NoWaypoint
  <2>1. M!PolicyInputs(in).timedOut => active # NoWaypoint
    BY DEF M!PolicyInputs, M!WaypointTimedOut
  <2>2. behavior \in M!Behavior
    BY DEF MissionShape
  <2> QED BY <1>1, <2>1, <2>2, PolicyAnswers
<1> DEFINE D == M!Determined(in)
<1>3. /\ D \in {"IDLE", "PREPARING"} \cup M!UnderWay \cup Ended
      /\ D = "IDLE" => mission = "IDLE"
      /\ D = "PREPARING" => mission \in {"IDLE", "PREPARING"}
      /\ D = "COMPLETE" => mission = "COMPLETE"
      /\ behavior' = "MISSION_ABORT" => D \in {"ABORTING", "ABORTED"}
  BY <1>2, WhereTo DEF MissionShape, Ended, M!UnderWay
<1>4. CASE M!Rest(in)
  BY <1>2, <1>3, <1>4 DEF M!Rest, MissionShape
<1>5. CASE M!FinishAbort(in)
  BY <1>2, <1>5 DEF M!FinishAbort, MissionShape, Ended
<1>6. CASE M!Recover(in)
  BY <1>2, <1>3, <1>6 DEF M!Recover, MissionShape, M!UnderWay
<1>7. CASE M!DriveOn(in) \/ M!Reach(in)
  BY <1>2, <1>3, <1>7 DEF M!DriveOn, M!Reach, MissionShape, M!UnderWay
<1>8. CASE M!Complete(in)
  BY <1>2, <1>3, <1>8 DEF M!Complete, M!Begin, MissionShape, Ended
<1> QED BY <1>4, <1>5, <1>6, <1>7, <1>8 DEF M!Tick

\* A tick in a keepout neither asks for motion nor ends the mission.
LEMMA KeepoutTick ==
  ASSUME MissionShape, mission \notin Ended, NEW in, in.commands \subseteq {"start"},
         "keepout_violation" \in in.signals, M!Tick(in)
  PROVE  request' \in {"none", "zero"} /\ mission' \notin Ended
<1>1. M!MotionInhibited(in) /\ inhibited' = TRUE
  BY DEF M!Tick, M!MotionInhibited, M!Inhibitors
<1>2. request' \in {"none", "zero"}
  BY <1>1 DEF M!Tick, M!Rest, M!FinishAbort, M!Recover, M!DriveOn, M!Reach, M!Complete
<1>3. /\ behavior' \in {"STOP_AND_REEVALUATE", "SAFE_STOP_ESCALATION"}
      /\ decision' # "CLEAR"
  <2>1. M!EvaluatePolicy(M!PolicyInputs(in)) /\ M!PolicyInputs(in).signals = in.signals
    BY DEF M!Tick, M!PolicyInputs
  <2>2. behavior \in M!Behavior /\ behavior # "MISSION_ABORT"
    BY DEF MissionShape, Ended
  <2> QED BY <2>1, <2>2, PolicyAnswers
<1>4. M!Determined(in) \in {"IDLE", "PREPARING", "RECOVERY", "DEGRADED"}
  <2>1. behavior' \in M!Behavior
    BY <1>3 DEF M!Behavior
  <2>2. mission \in {"IDLE", "PREPARING"} \cup M!UnderWay
    BY DEF MissionShape
  <2> QED BY <1>1, <1>3, <2>1, <2>2, WhereTo
<1>5. mission' = M!Determined(in)
  BY <1>4 DEF M!Tick, M!Rest, M!FinishAbort, M!Recover, M!DriveOn, M!Reach, M!Complete
<1> QED BY <1>2, <1>4, <1>5 DEF Ended

\* The wheels turn no faster than was asked for, whatever is authorized of it.
LEMMA SpeedWithinRequest ==
  ASSUME EngineInv, ~Between, Respond,
         NEW max \in Nat, inputs.request.linear \in -max .. max
  PROVE  speed' \in -max .. max
<1>1. Slip \in 0 .. 10
  BY SlipBounded DEF EngineInv
<1>2. authorized'.linear \in -max .. max
  <2>1. CASE authorized'.linear = 0
    BY <2>1
  <2>2. CASE authorized'.linear # 0
    <3>1. \E target \in SafetyState : Conclude(target)
      BY EvaluateConcludes DEF Respond, EngineInv, EngineTypeOK
    <3>2. authorized' = Arbitrate(inputs.request, state', Pulsed("estop") \/ estopLatched',
                                  LowConfidence(inputs.frame))
      BY <3>1 DEF Conclude
    <3>3. state' \in ActiveState
      BY <2>2, <3>2 DEF Arbitrate, Zero
    <3>4. authorized'.linear = Clamp(inputs.request.linear, LinearMax[state'])
      BY <2>2, <3>2 DEF Arbitrate, Zero
    <3>5. LinearMax[state'] \in Nat
      BY <3>3, LimitsAssumption
    <3> QED BY <3>4, <3>5 DEF Clamp
  <2> QED BY <2>1, <2>2
<1>3. CASE GatewayTimedOut
  BY <1>3 DEF Respond, Apply
<1>4. CASE ~GatewayTimedOut
  <2>1. speed' = (authorized'.linear * (10 - Slip)) \div 10
    BY <1>4 DEF Respond, Apply
  <2>2. 10 - Slip \in 0 .. 10
    BY <1>1
  <2> QED BY <1>2, <2>1, <2>2, SlipShrinks
<1> QED BY <1>3, <1>4

LEMMA KeepoutAssembled ==
  ASSUME EngineInv, KeepoutInv, Assemble
  PROVE  KeepoutInv'
<1> SUFFICES ASSUME scenario.planned PROVE KeepoutInv'
  BY DEF Assemble, KeepoutInv
<1> DEFINE in == MissionInput(cached')
<1>1. /\ MissionShape
      /\ InKeepout => mission \notin Ended
      /\ \A z \in scenario.keepouts : z.from <= pose /\ pose <= z.to => JustInside(pose, z)
  BY DEF KeepoutInv
<1>2. M!Tick(in) /\ UNCHANGED <<scenario, pose>> /\ inputs'.request = PlannedRequest
  BY DEF Assemble
<1>3. in.commands \subseteq {"start"} /\ (InKeepout => "keepout_violation" \in in.signals)
  BY DEF MissionInput, Signals, Observed, M!Signal
<1> HIDE DEF in
<1>4. MissionShape'
  BY <1>1, <1>2, <1>3, ShapeStep
<1>5. InKeepout => request' \in {"none", "zero"} /\ mission' \notin Ended
  BY <1>1, <1>2, <1>3, KeepoutTick
<1>6. mission' \in Ended => request' = "none"
  BY <1>2, OverAsksNothing
<1>7. inputs'.request.linear \in -SpeedLimit .. SpeedLimit
  <2>1. request' \in {"none", "zero", "drive", "backup"} /\ (request' = "drive" => active' \in Waypoint)
    BY <1>2, QueueStep DEF EngineInv
  <2>2. \/ PlannedRequest = NoRequest
        \/ \E v \in -SpeedLimit .. SpeedLimit : PlannedRequest = RequestOf(v)
    BY <2>1, RequestWithinLimit DEF EngineInv
  <2>3. SpeedLimit \in Nat
    BY EngineAssumption
  <2> QED BY <1>2, <2>2, <2>3 DEF NoRequest, RequestOf
<1>8. InKeepout \/ mission' \in Ended => inputs'.request.linear = 0
  BY <1>2, <1>5, <1>6 DEF PlannedRequest, NoRequest, RequestOf
<1>9. InKeepout' = InKeepout
  BY <1>2 DEF InKeepout
<1> QED BY <1>1, <1>2, <1>4, <1>5, <1>7, <1>8, <1>9 DEF KeepoutInv, JustInside

LEMMA KeepoutAnswered ==
  ASSUME EngineInv, KeepoutInv, Respond
  PROVE  /\ KeepoutInv'
         /\ scenario.planned /\ InKeepout => pose' = pose
<1> SUFFICES ASSUME scenario.planned
             PROVE  KeepoutInv' /\ (InKeepout => pose' = pose)
  BY DEF Respond, KeepoutInv
<1>1. ~Between /\ Between'
  BY EvaluateConcludes DEF Respond, Conclude, EngineInv, EngineTypeOK, Between, Due
<1>2. /\ MissionShape
      /\ InKeepout => mission \notin Ended
      /\ inputs.request.linear \in -SpeedLimit .. SpeedLimit
      /\ InKeepout \/ mission \in Ended => inputs.request.linear = 0
      /\ \A z \in scenario.keepouts : z.from <= pose /\ pose <= z.to => JustInside(pose, z)
  BY <1>1 DEF KeepoutInv
<1>3. UNCHANGED <<scenario, missionVars>>
  BY DEF Respond
<1>4. /\ SpeedLimit \in Nat /\ pose \in Int /\ scenario.step \in Nat \ {0}
      /\ \A z \in scenario.keepouts : z.from \in Int /\ z.to \in Int
  BY EngineAssumption DEF EngineInv, EngineTypeOK
<1>5. speed' \in -SpeedLimit .. SpeedLimit
  BY <1>1, <1>2, <1>4, SpeedWithinRequest
<1>6. InKeepout \/ mission \in Ended => speed' = 0
  <2>1. inputs.request.linear = 0 => speed' = 0
    <3>1. inputs.request.linear = 0 => authorized'.linear = 0
      BY MotionWasRequested DEF Respond
    <3> QED BY <3>1, ZeroStops
  <2> QED BY <1>2, <2>1
<1>7. pose' \in {pose, pose + speed' * scenario.step}
  BY DEF Respond, Apply
<1>8. InKeepout \/ mission \in Ended => pose' = pose
  BY <1>4, <1>6, <1>7
<1>9. MissionShape' /\ mission' = mission
  BY <1>2, <1>3 DEF missionVars, MissionShape
<1>10. InKeepout' => mission' \notin Ended
  <2>1. pose' = pose => InKeepout' = InKeepout
    BY <1>3 DEF InKeepout
  <2> QED BY <1>2, <1>8, <1>9, <2>1
<1>11. ASSUME NEW z \in scenario.keepouts, z.from <= pose', pose' <= z.to
       PROVE  JustInside(pose', z)
  <2>1. CASE z.from <= pose /\ pose <= z.to
    <3>1. pose' = pose
      BY <1>8, <2>1 DEF InKeepout
    <3> QED BY <1>2, <2>1, <3>1
  <2>2. CASE ~(z.from <= pose /\ pose <= z.to)
    <3>1. /\ speed' * scenario.step <= SpeedLimit * scenario.step
          /\ speed' * scenario.step >= -(SpeedLimit * scenario.step)
          /\ speed' * scenario.step \in Int /\ SpeedLimit * scenario.step \in Int
      BY <1>4, <1>5
    <3> DEFINE way == speed' * scenario.step
               most == SpeedLimit * scenario.step
    <3> HIDE DEF way, most
    <3>2. pose' - z.from < most \/ z.to - pose' < most
      <4>1. /\ pose' = pose \/ pose' = pose + way
            /\ way <= most /\ way >= -most /\ way \in Int /\ most \in Int
        BY <1>7, <3>1 DEF way, most
      <4>2. pose' # pose
        BY <1>11, <2>2
      <4> QED BY <1>4, <1>11, <2>2, <4>1, <4>2
    <3> QED BY <3>2 DEF most, JustInside
  <2> QED BY <2>1, <2>2
<1>12. \A z \in scenario'.keepouts : z.from <= pose' /\ pose' <= z.to => JustInside(pose, z)'
  BY <1>3, <1>11 DEF JustInside
<1> QED BY <1>1, <1>3, <1>8, <1>9, <1>10, <1>12 DEF KeepoutInv

LEMMA KeepoutStep ==
  ASSUME EngineInv, KeepoutInv, [EngineNext]_engineVars
  PROVE  KeepoutInv' /\ (scenario.planned /\ InKeepout => pose' = pose)
<1>1. CASE Assemble
  BY <1>1, KeepoutAssembled DEF Assemble
<1>2. CASE UNCHANGED engineVars
  <2>1. UNCHANGED <<scenario, pose, mission, active, behavior, inputs>>
    BY <1>2 DEF engineVars, worldVars, vars, missionVars
  <2> QED BY <2>1 DEF KeepoutInv, MissionShape, InKeepout, Between, JustInside
<1> QED BY <1>1, <1>2, KeepoutAnswered DEF EngineNext

\* For every plan, scenario and set of keepouts: a keepout is entered by less
\* than one step's way, and never left again by a mission that neither completes
\* nor aborts (keepout.py signed_distance, recovery.py:112).
THEOREM KeepoutsHold == EngineSpec => KeepoutHolds
<1>1. ASSUME EngineInit PROVE KeepoutInv
  <2>1. /\ scenario \in Scenarios /\ pose = 0 /\ Between /\ mission = "IDLE"
        /\ behavior = "none" /\ active = NoWaypoint
    BY <1>1 DEF EngineInit, Init, Between, M!Init, M!PolicyInit
  <2> QED BY <2>1 DEF KeepoutInv, MissionShape, M!Behavior, Ended, JustInside
<1>2. ASSUME EngineInv, EngineInv', KeepoutInv, KeepoutInv', scenario.planned,
             scenario' = scenario,
             scenario.planned /\ InKeepout => pose' = pose,
             NEW z \in scenario.keepouts, z.from <= pose, pose <= z.to
      PROVE  /\ pose' = pose
             /\ \/ pose - z.from < SpeedLimit * scenario.step
                \/ z.to - pose < SpeedLimit * scenario.step
                \/ pose = 0
             /\ mission' \notin {"COMPLETE", "ABORTED"}
  <2>1. InKeepout /\ JustInside(pose, z) /\ pose' = pose
    BY <1>2 DEF InKeepout, KeepoutInv
  <2>2. InKeepout'
    BY <1>2, <2>1 DEF InKeepout
  <2>3. mission' \notin Ended
    BY <1>2, <2>2 DEF KeepoutInv
  <2> QED BY <2>1, <2>3 DEF JustInside, Ended
<1>3. EngineInv /\ EngineInv' /\ KeepoutInv /\ KeepoutInv' /\ [EngineNext]_engineVars
        => [scenario.planned =>
              \A z \in scenario.keepouts :
                z.from <= pose /\ pose <= z.to =>
                  /\ pose' = pose
                  /\ \/ pose - z.from < SpeedLimit * scenario.step
                     \/ z.to - pose < SpeedLimit * scenario.step
                     \/ pose = 0
                  /\ mission' \notin {"COMPLETE", "ABORTED"}]_engineVars
  <2> SUFFICES ASSUME EngineInv, EngineInv', KeepoutInv, KeepoutInv', [EngineNext]_engineVars,
                      scenario.planned,
                      NEW z \in scenario.keepouts, z.from <= pose, pose <= z.to
               PROVE  /\ pose' = pose
                      /\ \/ pose - z.from < SpeedLimit * scenario.step
                         \/ z.to - pose < SpeedLimit * scenario.step
                         \/ pose = 0
                      /\ mission' \notin {"COMPLETE", "ABORTED"}
    OBVIOUS
  <2>1. scenario' = scenario
    BY DEF EngineNext, Assemble, Respond, engineVars, worldVars
  <2> QED BY <1>2, <2>1, KeepoutStep
<1>4. EngineInv /\ KeepoutInv /\ [EngineNext]_engineVars => KeepoutInv'
  BY KeepoutStep
<1> QED BY <1>1, <1>3, <1>4, EngineInvariant, PTL DEF EngineSpec, KeepoutHolds
-----------------------------------------------------------------------------
(***************************************************************************)
(* The mission's own guarantees.                                           *)
(***************************************************************************)
P == INSTANCE MissionOrchestrator_proofs

\* The mission the engine steps and the one its proofs speak of are the same.
LEMMA SameMission ==
  /\ M!Init <=> P!Init
  /\ M!Next <=> P!Next
  /\ (UNCHANGED missionVars) <=> UNCHANGED P!vars
  /\ (UNCHANGED M!vars) <=> UNCHANGED P!vars
  /\ \A in : M!Tick(in) <=> P!Tick(in)
  /\ M!RecoveryInv <=> P!RecoveryInv
<1>1. ASSUME NEW in PROVE M!Tick(in) <=> P!Tick(in)
  BY DEF M!Behavior, P!Behavior, M!NoTimer, P!NoTimer, M!Capped, P!Capped,
         M!Elapsed, P!Elapsed, M!AgedBehavior, P!AgedBehavior, M!Engage, P!Engage,
         M!Clear, P!Clear, M!Hold, P!Hold, M!HoldAbort, P!HoldAbort,
         M!OperatorAsks, P!OperatorAsks, M!EngageOnOperator, P!EngageOnOperator,
         M!Open, P!Open, M!EscalateOnKeepout, P!EscalateOnKeepout, M!TimedOut, P!TimedOut,
         M!InBackup, P!InBackup, M!BackupElapsed, P!BackupElapsed, M!HoldBackup, P!HoldBackup,
         M!EndBackup, P!EndBackup, M!SpendAttempt, P!SpendAttempt,
         M!BudgetSpent, P!BudgetSpent, M!StartBackup, P!StartBackup, M!GiveUp, P!GiveUp,
         M!InTime, P!InTime, M!SensorsFail, P!SensorsFail, M!WaitForSensors, P!WaitForSensors,
         M!SupervisorHolds, P!SupervisorHolds, M!FollowSupervisor, P!FollowSupervisor,
         M!ShouldClear, P!ShouldClear, M!Settles, P!Settles, M!ClearRecovery, P!ClearRecovery,
         M!HoldRecovery, P!HoldRecovery, M!NoRecovery, P!NoRecovery,
         M!EvaluatePolicy, P!EvaluatePolicy, M!Command, P!Command, M!Signal, P!Signal,
         M!MissionState, P!MissionState,
         M!AllowedMissionTransitions, P!AllowedMissionTransitions, M!Moved, P!Moved,
         M!Commanded, P!Commanded, M!Inhibitors, P!Inhibitors,
         M!MotionInhibited, P!MotionInhibited, M!AgedTimer, P!AgedTimer,
         M!WaypointTimedOut, P!WaypointTimedOut, M!PolicyInputs, P!PolicyInputs,
         M!Timer, P!Timer, M!Implied, P!Implied, M!UnderWay, P!UnderWay,
         M!Determined, P!Determined, M!HeadOrNone, P!HeadOrNone, M!Target, P!Target,
         M!Begin, P!Begin, M!Rest, P!Rest, M!FinishAbort, P!FinishAbort, M!Recover, P!Recover,
         M!DriveOn, P!DriveOn, M!Reach, P!Reach, M!Complete, P!Complete, M!Tick, P!Tick
<1>2. M!Next <=> P!Next
  BY <1>1 DEF M!Next, P!Next
<1>3. M!Init <=> P!Init
  BY DEF M!Init, P!Init, M!PolicyInit, P!PolicyInit, M!NoTimer, P!NoTimer
<1>4. (UNCHANGED missionVars) <=> UNCHANGED P!vars
  BY DEF missionVars, P!vars, P!missionVars, P!policyVars
<1>5. (UNCHANGED M!vars) <=> UNCHANGED P!vars
  BY DEF M!vars, M!missionVars, M!policyVars, P!vars, P!missionVars, P!policyVars
<1>6. M!RecoveryInv <=> P!RecoveryInv
  BY DEF M!RecoveryInv, P!RecoveryInv
<1> QED BY <1>1, <1>2, <1>3, <1>4, <1>5, <1>6

\* Every guarantee of the mission holds in the simulation, for every scenario and
\* every plan that is not empty: no waypoint is lost, no recovery stranded, the
\* budget kept and the timer running; motion is requested only with nothing to
\* inhibit it; and the ledger is implemented (engine.py _advance_one_step).
THEOREM MissionSafeInSimulation ==
  ASSUME Plan # <<>>, Timeout \in [Waypoint -> Nat \ {0}], MaxAttempts \in Nat,
         BackupDuration \in Nat \ {0}
  PROVE  EngineSpec => /\ [](M!QueueInv /\ M!RecoveryInv /\ M!BudgetInv /\ M!TimerInv)
                       /\ M!InhibitedMeansStill /\ M!ImplementsLedger
<1>1. P!Init /\ [][P!Next]_P!vars => []P!IInv /\ P!InhibitedMeansStill /\ P!ImplementsLedger
  <2>1. NoWaypoint \notin Waypoint /\ Plan \in Seq(Waypoint)
    BY EngineAssumption
  <2>2. \A in \in MissionInputs :
                  /\ in.commands \subseteq P!Command
                  /\ in.signals \subseteq P!Signal
                  /\ ~({"keepout_violation", "keepout_pending"} \subseteq in.signals)
                  /\ in.gap \in Nat
    <3>1. \A s \in Scenarios : s.step \in Nat
      BY EngineAssumption
    <3>2. \A in \in MissionInputs : in.gap \in Nat
      BY <3>1 DEF MissionInputs
    <3> QED BY <3>2 DEF MissionInputs, P!Command, P!Signal
  <2> QED BY <2>1, <2>2, P!MissionWhateverTheHost
<1>2. P!IInv => M!QueueInv /\ M!RecoveryInv /\ M!BudgetInv /\ M!TimerInv
  <2>1. M!TimerInv <=> P!TimerInv
    BY DEF M!TimerInv, P!TimerInv, M!NoTimer, P!NoTimer
  <2>2. (M!QueueInv <=> P!QueueInv) /\ (M!BudgetInv <=> P!BudgetInv)
    BY DEF M!QueueInv, P!QueueInv, M!BudgetInv, P!BudgetInv
  <2> QED BY <2>1, <2>2, SameMission DEF P!IInv
<1>3. [request' \in {"drive", "backup"} =>
           /\ behavior' = "BACKUP_AND_RETRY" <=> request' = "backup"
           /\ \A in \in {i \in MissionInputs : i.signals \cap
                {"low_confidence", "sensors_degraded", "obstructed",
                 "keepout_violation", "safety_inhibits"} # {}} : ~P!Tick(in)]_(P!vars) =>
      [request' \in {"drive", "backup"} =>
           /\ behavior' = "BACKUP_AND_RETRY" <=> request' = "backup"
           /\ \A in \in {i \in MissionInputs : i.signals \cap
                {"low_confidence", "sensors_degraded", "obstructed",
                 "keepout_violation", "safety_inhibits"} # {}} : ~M!Tick(in)]_(M!vars)
  BY SameMission
<1>4. M!Init => P!Init
  BY SameMission
<1>5. [M!Next]_missionVars => [P!Next]_(P!vars)
  BY SameMission
<1>6. M!LedgerPhase = P!LedgerPhase
  BY DEF M!LedgerPhase, P!LedgerPhase, M!UnderWay, P!UnderWay
<1>7. M!LedgerPhase' = P!LedgerPhase'
  BY DEF M!LedgerPhase, P!LedgerPhase, M!UnderWay, P!UnderWay
<1>8. P!Ledger!LedgerInit => M!Ledger!LedgerInit
  BY <1>6 DEF M!Ledger!LedgerInit, P!Ledger!LedgerInit
<1>9. [P!Ledger!LedgerNext]_(P!Ledger!ledgerVars) => [M!Ledger!LedgerNext]_(M!Ledger!ledgerVars)
  BY <1>6, <1>7 DEF M!Ledger!LedgerNext, P!Ledger!LedgerNext, M!Ledger!ledgerVars,
     P!Ledger!ledgerVars, M!Ledger!Start, P!Ledger!Start, M!Ledger!Settle,
     P!Ledger!Settle, M!Ledger!Finish, P!Ledger!Finish, M!Ledger!Abandon, P!Ledger!Abandon
<1> QED BY <1>1, <1>2, <1>3, <1>4, <1>5, <1>8, <1>9, EngineHostsMission, PTL
        DEF MissionHosted, M!InhibitedMeansStill, P!InhibitedMeansStill,
            M!ImplementsLedger, P!ImplementsLedger, M!Ledger!LedgerSpec, P!Ledger!LedgerSpec

-----------------------------------------------------------------------------
(***************************************************************************)
(* The vehicle itself: what is authorized, slipped and applied, end to end. *)
(***************************************************************************)
\* The vehicle keeps to the limit of the state the supervisor is in.
VehicleInv ==
  Between => IF state \in ActiveState THEN speed \in -LinearMax[state] .. LinearMax[state]
                                      ELSE speed = 0

LEMMA VehicleAnswers ==
  ASSUME EngineInv, MotionInv', Respond
  PROVE  VehicleInv'
<1>1. Slip \in 0 .. 10
  BY SlipBounded DEF EngineInv
<1>2. speed' = 0 \/ speed' = (authorized'.linear * (10 - Slip)) \div 10
  BY DEF Respond, Apply
<1>3. WithinLimits(authorized', state')
  BY DEF MotionInv
<1>4. CASE state' \in ActiveState
  <2>1. LinearMax[state'] \in Nat
    BY <1>4, LimitsAssumption
  <2>2. authorized'.linear \in -LinearMax[state'] .. LinearMax[state']
    BY <1>3, <1>4 DEF WithinLimits
  <2>3. 10 - Slip \in 0 .. 10
    BY <1>1
  <2>4. speed' \in -LinearMax[state'] .. LinearMax[state']
    BY <1>2, <2>1, <2>2, <2>3, SlipShrinks
  <2> QED BY <1>4, <2>4 DEF VehicleInv
<1>5. CASE state' \notin ActiveState
  <2>1. authorized'.linear = 0
    BY <1>3, <1>5 DEF WithinLimits, IsZero
  <2> QED BY <1>5, <2>1, ZeroStops DEF VehicleInv
<1> QED BY <1>4, <1>5

\* Between two steps the vehicle moves no faster than the state the supervisor is
\* in allows, whatever was asked for, applied and lost to the wheels on the way;
\* in every other state, and under the latch, it stands (engine.py _GatewayLayer,
\* vehicle_model.py VehicleModel.apply).
THEOREM VehicleKeepsLimits ==
  EngineSpec => [](Between =>
    /\ IF state \in ActiveState THEN speed \in -LinearMax[state] .. LinearMax[state]
                                ELSE speed = 0
    /\ estopLatched => speed = 0)
<1>1. EngineInit => VehicleInv
  BY LimitsAssumption DEF EngineInit, Init, VehicleInv, ActiveState
<1>2. EngineInv /\ MotionInv' /\ VehicleInv /\ [EngineNext]_engineVars => VehicleInv'
  <2>1. ASSUME EngineInv, Assemble PROVE VehicleInv'
    BY <2>1, AssemblePresents, SupervisorAssumption DEF Present, VehicleInv, Between
  <2> QED BY <2>1, VehicleAnswers DEF EngineNext, engineVars, worldVars, vars, VehicleInv, Between
<1>3. EngineInv /\ VehicleInv =>
        (Between =>
           /\ IF state \in ActiveState THEN speed \in -LinearMax[state] .. LinearMax[state]
                                       ELSE speed = 0
           /\ estopLatched => speed = 0)
  BY DEF EngineInv, LatchInv, VehicleInv, ActiveState
<1>4. EngineSpec => []MotionInv
  BY SupervisorSafeInSimulation, PTL
<1> QED BY <1>1, <1>2, <1>3, <1>4, EngineInvariant, PTL DEF EngineSpec

-----------------------------------------------------------------------------
\* Step by step, c is the time of this look at the bumper or of an earlier one.
Looked(c) == \E k \in Nat : c = LastLook - k * scenario.step

\* A contact asserted on a step is what the bumper shows for a period from then:
\* only another assertion replaces it sooner.
BumperInv ==
  \A c \in scenario.contacts : Looked(c) /\ c >= 0 /\ LastLook < c + Period["contact"] =>
    /\ Taken(cached["contact"]) /\ cached["contact"].value = 1
    /\ c <= cached["contact"].made /\ cached["contact"].made <= LastLook

\* And it is what the supervisor is shown.
BumperShown == ~Between => inputs.frame.contact = (cached["contact"].value = 1)

LEMMA BumperAssembled ==
  ASSUME EngineInv, BumperInv, Assemble
  PROVE  BumperInv' /\ BumperShown'
<1> DEFINE old == cached["contact"]
           new == cached'["contact"]
<1>1. /\ now \in Nat /\ scenario.step \in Nat \ {0} /\ Period["contact"] \in Nat \ {0}
      /\ old \in Reading
  BY EngineAssumption, StreamFacts DEF EngineInv, EngineTypeOK
<1>2. /\ Between /\ scenario' = scenario /\ now' = now
      /\ inputs'.frame = SimulatedFrame(cached')
      /\ new = IF now \notin scenario.contacts /\ ~DueAgain("contact", now)
               THEN old ELSE ReadContact(now, now \in scenario.contacts)
  BY DEF Assemble, Sensed
<1>3. LastLook' = now
  BY <1>2, AssemblePresents, SupervisorAssumption DEF Present, Between, LastLook
<1>4. LastLook = now - scenario.step
  BY <1>2 DEF LastLook, LastStep
<1>5. SimulatedFrame(cached').contact = (new.value = 1)
  BY DEF SimulatedFrame
<1>6. ASSUME NEW c \in scenario.contacts, Looked(c)', c >= 0, now < c + Period["contact"]
      PROVE  Taken(new) /\ new.value = 1 /\ c <= new.made /\ new.made <= now
  <2>1. PICK k \in Nat : c = now - k * scenario.step
    BY <1>2, <1>3, <1>6 DEF Looked
  <2>2. k * scenario.step \in Nat /\ c \in Int
    BY <1>1, <2>1
  <2>3. CASE now \in scenario.contacts
    <3>1. new = ReadContact(now, TRUE)
      BY <1>2, <2>3
    <3>2. new.value = 1 /\ new.made = now
      BY <3>1 DEF ReadContact
    <3> HIDE DEF new
    <3> QED BY <1>1, <2>1, <2>2, <3>2 DEF Taken, NeverMade
  <2>4. CASE now \notin scenario.contacts
    <3>1. k # 0
      BY <1>1, <1>6, <2>1, <2>4
    <3>2. k - 1 \in Nat /\ c = LastLook - (k - 1) * scenario.step
      BY <1>1, <1>4, <2>1, <3>1
    <3>3. Looked(c)
      BY <3>2 DEF Looked
    <3>4. LastLook < c + Period["contact"]
      BY <1>1, <1>4, <1>6, <2>2
    <3>5. /\ Taken(old) /\ old.value = 1 /\ c <= old.made /\ old.made <= LastLook
      BY <1>6, <3>3, <3>4 DEF BumperInv
    <3>6. old.made \in Int
      BY <1>1 DEF Reading, NeverMade
    <3>7. now - old.made < Period["contact"]
      BY <1>1, <1>6, <2>2, <3>5, <3>6
    <3>8. new = old
      BY <1>1, <1>2, <2>4, <3>5, <3>6, <3>7 DEF DueAgain
    <3> HIDE DEF old, new
    <3> QED BY <1>1, <1>4, <3>5, <3>6, <3>8
  <2> QED BY <2>3, <2>4
<1> QED BY <1>2, <1>3, <1>5, <1>6 DEF BumperInv, BumperShown, Between

\* The rover never moves on a contact, nor for the period after it in which the
\* bumper still shows it, whatever else is asked for; a contact set for a time
\* between two steps is never looked at (engine.py:322, sensor_simulator.py
\* _maybe_contact).
THEOREM ContactStopsTheRover ==
  EngineSpec =>
    [][Respond => \A c \in scenario.contacts :
         c >= 0 /\ (\E k \in Nat : c = now - k * scenario.step)
                /\ now < c + Period["contact"] => speed' = 0]_engineVars
<1>1. EngineInit => BumperInv /\ BumperShown
  <2>1. ASSUME EngineInit, NEW c \in scenario.contacts, Looked(c), c >= 0 PROVE FALSE
    <3>1. scenario.step \in Nat \ {0} /\ LastLook = 0 - scenario.step
      BY <2>1, EngineAssumption DEF EngineInit, Init, LastLook, Between, LastStep
    <3>2. PICK k \in Nat : c = LastLook - k * scenario.step
      BY <2>1 DEF Looked
    <3>3. k * scenario.step \in Nat
      BY <3>1, <3>2
    <3> QED BY <2>1, <3>1, <3>2, <3>3
  <2> QED BY <2>1 DEF BumperInv, BumperShown, EngineInit, Init, Between
<1>2. EngineInv /\ BumperInv /\ BumperShown /\ [EngineNext]_engineVars
        => BumperInv' /\ BumperShown'
  <2>1. ASSUME EngineInv, BumperInv, Respond PROVE BumperInv' /\ BumperShown'
    <3>1. ~Between /\ Between'
      BY <2>1, EvaluateConcludes DEF Respond, EngineInv, EngineTypeOK, Conclude, Between, Due
    <3>2. /\ now \in Nat /\ scenario.step \in Nat
          /\ now' = now + scenario.step /\ scenario' = scenario /\ cached' = cached
      BY <2>1, EngineAssumption DEF Respond, EngineInv, EngineTypeOK
    <3>3. LastLook = now /\ LastLook' = now
      BY <3>1, <3>2 DEF LastLook, LastStep
    <3> QED BY <2>1, <3>1, <3>2, <3>3 DEF BumperInv, BumperShown, Looked
  <2>2. ASSUME BumperInv, BumperShown, UNCHANGED engineVars PROVE BumperInv' /\ BumperShown'
    BY <2>2 DEF engineVars, worldVars, vars, BumperInv, BumperShown, Looked, LastLook,
       LastStep, Between
  <2> QED BY <2>1, <2>2, BumperAssembled DEF EngineNext
<1>3. ASSUME EngineInv, BumperInv, BumperShown, Respond,
             NEW c \in scenario.contacts, c >= 0, \E k \in Nat : c = now - k * scenario.step,
             now < c + Period["contact"]
      PROVE  speed' = 0
  <2>1. ~Between /\ Evaluate /\ TypeOK /\ LatchInv
    BY <1>3, EvaluateConcludes DEF Respond, EngineInv, EngineTypeOK, Between, Due
  <2>2. LastLook = now
    BY <2>1 DEF LastLook
  <2>3. inputs.frame.contact
    BY <1>3, <2>1, <2>2 DEF BumperInv, BumperShown, Looked
  <2>4. authorized'.linear = 0
    BY <2>1, <2>3, MotionMeansNothingStops DEF NothingStops, IsZero
  <2> QED BY <1>3, <2>4, ZeroStops
<1>4. EngineInv /\ BumperInv /\ BumperShown /\ [EngineNext]_engineVars
        => [Respond => \A c \in scenario.contacts :
              c >= 0 /\ (\E k \in Nat : c = now - k * scenario.step)
                     /\ now < c + Period["contact"] => speed' = 0]_engineVars
  BY <1>3
<1> QED BY <1>1, <1>2, <1>4, EngineInvariant, PTL DEF EngineSpec
=============================================================================
