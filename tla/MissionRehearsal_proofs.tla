------------------------ MODULE MissionRehearsal_proofs ------------------------
(* Type correctness of the mission rehearsal tools, that no motion is simulated *)
(* without validation, approval and a safety check, and that the files of a     *)
(* bundle follow its audit, for every set of mission files.                     *)
EXTENDS MissionRehearsal, SequenceTheorems, WellFoundedInduction, TLAPS

Subtype ==
  {"created", "completed", "rehearsal_started", "rehearsal_terminated_early",
   "passed", "rejected", "approved", "needs_review", "waypoint_requested",
   "waypoint_reached", "safety_check_passed", "motion_request_simulated"}
EventSet == [type : EventType, subtype : Subtype, waypoint : Int]

Passed == Event("validation", "passed", 0)
Approved == Event("supervisor", "approved", 0)
Simulated(e) == e.subtype = "motion_request_simulated"

\* Each simulated request follows the check of its waypoint, after the verdicts
\* of validator and supervisor, which are the second and the third event.
Checked(j) ==
  \A i \in 1 .. Len(j.events) : Simulated(j.events[i]) =>
    /\ i > 4
    /\ j.events[2] = Passed /\ j.events[3] = Approved
    /\ j.events[i - 1] = Event("safety", "safety_check_passed", j.events[i].waypoint)
    /\ WithinLimits(j.plan)

LegalPath(t) ==
  \A i \in 1 .. Len(t) : t[i][2] \in REHEARSAL_TRANSITIONS[t[i][1]]

\* A record of a rehearsal, in memory or on disk.
Record(j) ==
  /\ DOMAIN j = {"status", "request", "plan", "codes", "decision", "transitions", "events", "next"}
  /\ j.status \in RehearsalStatus
  /\ j.transitions \in Seq(RehearsalStatus \X RehearsalStatus) /\ LegalPath(j.transitions)
  /\ j.events \in Seq(EventSet) /\ j.next \in Int

NoneSimulated(j) == \A i \in 1 .. Len(j.events) : ~Simulated(j.events[i])

Verdict == {"approved", "rejected", "needs_review"}

\* What the tool has established by the time it is in a phase.
PhaseInv ==
  /\ phase \in {"validate", "review", "open"} => job.events = << >>
  /\ phase \in {"review", "open", "supervise"} => job.codes = ValidatePlan(job.plan)
  /\ phase \in {"open", "supervise"} => job.decision.status \in Verdict
  /\ phase \in {"supervise", "terminate"} => NoneSimulated(job)
  /\ phase = "supervise" =>
       /\ Len(job.events) = 2 /\ (job.status # "rejected" => job.events[2] = Passed)
       /\ job.status # "rejected" => job.codes = {}
  /\ phase = "enter" =>
       /\ NoneSimulated(job) /\ Len(job.events) = 3
  /\ phase \in {"enter", "visit"} =>
       /\ job.events[2] = Passed /\ job.events[3] = Approved /\ WithinLimits(job.plan)
  /\ phase = "visit" => Len(job.events) >= 4

Phases == {"idle", "write", "fill"} \cup RunPhase

RInv ==
  /\ phase \in Phases
  /\ phase = "idle" => job = NoJob
  /\ phase # "idle" => Record(job) /\ Checked(job)
  /\ PhaseInv
  /\ todo \in Seq(File) /\ (phase \in {"write", "fill"} => todo # << >>)
  /\ unsure \subseteq File
  /\ DOMAIN bundle = File
  /\ Stored("rehearsal-audit") => Record(Audit) /\ Checked(Audit)
  /\ started \in 0 .. MaxRehearsals

-----------------------------------------------------------------------------
(* A plan with no rejections keeps the limits the validator enforces. *)
LEMMA CleanPlans ==
  ASSUME NEW plan, ValidatePlan(plan) = {}
  PROVE  WithinLimits(plan)
<1> DEFINE P1 == UNION {WaypointFaults(w) : w \in Range(plan.waypoints)}
           P2 == Raise(plan.waypoints = << >>, "malformed_mission_graph")
           P3 == Raise(Motor \in plan.topics, "direct_actuator_command")
           P4 == Raise(Requested \notin plan.topics /\ Kinds(plan) \cap MovingKind # {},
                       "missing_stop_condition")
           P5 == Raise(Kinds(plan) \cap {"move", "patrol"} # {} /\ Kinds(plan) \cap EndKind = {},
                       "missing_stop_condition")
           P6 == ScanText(plan.source)
           P7 == ScanText(plan.notes)
<1>0. P1 \cup P2 \cup P3 \cup P4 \cup P5 \cup P6 \cup P7 = {}
  BY Zenon DEF ValidatePlan
<1>1. P1 = {} /\ P2 = {} /\ P3 = {} /\ P4 = {} /\ P5 = {} /\ P6 = {} /\ P7 = {}
  <2> HIDE DEF P1, P2, P3, P4, P5, P6, P7
  <2> QED BY <1>0
<1>2. \A w \in Range(plan.waypoints) :
        /\ w.distance \in 0 .. MaxDistance /\ w.angle \in -MaxAngle .. MaxAngle
        /\ ~(w.speed > MaxSpeed)
  <2>1. \A w \in Range(plan.waypoints) : WaypointFaults(w) = {} BY <1>1
  <2> QED BY <2>1 DEF WaypointFaults, Raise
<1>3. plan.waypoints # << >> /\ Motor \notin plan.topics
  <2>1. plan.waypoints # << >> BY <1>1 DEF Raise
  <2>2. Motor \notin plan.topics BY <1>1 DEF Raise
  <2> QED BY <2>1, <2>2
<1>4. ASSUME NEW w \in Range(plan.waypoints), w.kind \in MovingKind
      PROVE  Requested \in plan.topics
  <2>1. w.kind \in Kinds(plan) \cap MovingKind
    BY <1>4 DEF Kinds
  <2>2. ~(Requested \notin plan.topics /\ Kinds(plan) \cap MovingKind # {})
    BY <1>1 DEF Raise
  <2> QED BY <2>1, <2>2
<1>5. \A text \in {plan.source, plan.notes} : ScanText(text) = {}
  BY <1>1
<1>6. ASSUME NEW text, ScanText(text) = {}
      PROVE  text \cap {"loop", "zone", "speed"} = {} /\ (text \cap Phrase # {} => "never" \in text)
  <2>1. \A p \in text \cap Phrase :
          p \in IF "never" \in text THEN {"actuator", "override", "estop"} ELSE {}
    BY <1>6 DEF ScanText
  <2> QED BY <2>1 DEF Phrase
<1>7. \A text \in {plan.source, plan.notes} :
        text \cap {"loop", "zone", "speed"} = {} /\ (text \cap Phrase # {} => "never" \in text)
  BY <1>5, <1>6
<1>9. ASSUME NEW w \in Range(plan.waypoints), w.kind \in {"move", "patrol"}
      PROVE  \E e \in Range(plan.waypoints) : e.kind \in EndKind
  <2>1. w.kind \in Kinds(plan) \cap {"move", "patrol"}
    BY <1>9 DEF Kinds
  <2>2. ~(Kinds(plan) \cap {"move", "patrol"} # {} /\ Kinds(plan) \cap EndKind = {})
    BY <1>1 DEF Raise
  <2>3. PICK k \in Kinds(plan) : k \in EndKind
    BY <2>1, <2>2
  <2> QED BY <2>3 DEF Kinds
<1> HIDE DEF P1, P2, P3, P4, P5, P6, P7
<1>8. ASSUME NEW w \in Range(plan.waypoints)
      PROVE  /\ w.distance >= 0 /\ w.distance <= 25 /\ ~(w.speed > 50)
             /\ w.angle <= 720 /\ -w.angle <= 720
             /\ w.kind \in MovingKind => Requested \in plan.topics
  <2>1. w.distance \in 0 .. 25 /\ w.angle \in (-720) .. 720
    BY <1>2 DEF MaxDistance, MaxAngle
  <2>2. ~(w.speed > 50)
    BY <1>2 DEF MaxSpeed
  <2>3. w.distance >= 0 /\ w.distance <= 25
    BY <2>1
  <2>4. w.angle <= 720 /\ -w.angle <= 720
    <3>1. \A a \in (-720) .. 720 : a <= 720 /\ -a <= 720
      OBVIOUS
    <3> QED BY <2>1, <3>1, Zenon
  <2> QED BY <2>2, <2>3, <2>4, <1>4, Zenon
<1> QED BY <1>8, <1>9, <1>3, <1>7, Zenon DEF WithinLimits

(* The elements of two sequences joined. *)
LEMMA Joined ==
  ASSUME NEW S, NEW a \in Seq(S), NEW b \in Seq(S)
  PROVE  /\ Len(a \o b) = Len(a) + Len(b)
         /\ \A i \in 1 .. Len(a) : (a \o b)[i] = a[i]
         /\ \A i \in 1 .. Len(b) : (a \o b)[Len(a) + i] = b[i]
OBVIOUS

(* Constant facts. *)
LEMMA FileFacts ==
  /\ BundleFiles \in Seq(File) /\ BundleFiles # << >>
  /\ ReplayFiles \in Seq(File) /\ ReplayFiles # << >> /\ Range(ReplayFiles) \subseteq File
  /\ "rehearsal-audit" \in File
<1>1. File = {"mission-request", "mission-plan", "validator-result", "supervisor-review",
    "rehearsal-events", "timeline", "timeline-mmd", "replay-review",
    "replay-review-md", "analytics", "rehearsal-audit", "rehearsal-report"}
  BY DEF File, Range, BundleFiles
<1>2. Range(ReplayFiles) = {"replay-review", "replay-review-md", "analytics"}
  BY DEF Range, ReplayFiles
<1> QED BY <1>1, <1>2 DEF BundleFiles, ReplayFiles

(* An audit file holds the record itself. *)
LEMMA AuditContent ==
  ASSUME NEW a PROVE Content("rehearsal-audit", a) = a
BY DEF Content

(* Events other than simulated requests leave Checked as it was. *)
LEMMA MoreEvents ==
  ASSUME NEW j, NEW k, Record(j), Record(k), Checked(j), k.plan = j.plan,
         NEW more \in Seq(EventSet), k.events = j.events \o more,
         \A i \in 1 .. Len(more) : ~Simulated(more[i])
  PROVE  Checked(k) /\ (NoneSimulated(j) => NoneSimulated(k))
<1>1. j.events \in Seq(EventSet) /\ Len(j.events) \in Nat /\ Len(more) \in Nat
  BY DEF Record
<1>2. /\ Len(k.events) = Len(j.events) + Len(more)
      /\ \A i \in 1 .. Len(j.events) : k.events[i] = j.events[i]
      /\ \A i \in (Len(j.events) + 1) .. Len(k.events) : k.events[i] = more[i - Len(j.events)]
  BY <1>1
<1>3. ASSUME NEW i \in 1 .. Len(k.events), Simulated(k.events[i])
      PROVE  i \in 1 .. Len(j.events)
  <2> SUFFICES ASSUME i > Len(j.events) PROVE FALSE BY <1>1
  <2>1. i - Len(j.events) \in 1 .. Len(more) BY <1>1, <1>2
  <2> QED BY <1>2, <1>3, <2>1
<1>4. ASSUME NEW i \in 1 .. Len(k.events), Simulated(k.events[i])
      PROVE  /\ i > 4
             /\ k.events[2] = Passed /\ k.events[3] = Approved
             /\ k.events[i - 1] = Event("safety", "safety_check_passed", k.events[i].waypoint)
             /\ WithinLimits(k.plan)
  <2>1. i \in 1 .. Len(j.events) /\ Simulated(j.events[i]) BY <1>2, <1>3, <1>4
  <2>2. /\ i > 4 /\ j.events[2] = Passed /\ j.events[3] = Approved
        /\ j.events[i - 1] = Event("safety", "safety_check_passed", j.events[i].waypoint)
        /\ WithinLimits(j.plan)
    BY <2>1 DEF Checked
  <2>3. i - 1 \in 1 .. Len(j.events) /\ 2 \in 1 .. Len(j.events) /\ 3 \in 1 .. Len(j.events)
    BY <2>1, <2>2, <1>1
  <2> QED BY <2>1, <2>2, <2>3, <1>2
<1>5. Checked(k) BY <1>4 DEF Checked
<1>6. NoneSimulated(j) => NoneSimulated(k) BY <1>2, <1>3 DEF NoneSimulated
<1> QED BY <1>5, <1>6

(* What a legal status change makes of a record, and that it is one again. *)
Successor(j, k, more) ==
  /\ Record(k) /\ k.plan = j.plan /\ k.codes = j.codes /\ k.decision = j.decision
  /\ k.events = j.events \o more

AdvancedTo(j, k, to, more) == Successor(j, k, more) /\ k.status = to

LEMMA AdvancedRecord ==
  ASSUME NEW j, Record(j), NEW to, Legal(j.status, to), NEW more \in Seq(EventSet)
  PROVE  AdvancedTo(j, Advanced(j, to, more), to, more)
<1> DEFINE k == Advanced(j, to, more)
<1>1. /\ DOMAIN k = DOMAIN j /\ k.status = to /\ k.plan = j.plan /\ k.codes = j.codes
      /\ k.decision = j.decision /\ k.transitions = Append(j.transitions, <<j.status, to>>)
      /\ k.events = j.events \o more /\ k.next = j.next
  <2>1. \A x, y, z :
          LET h == [j EXCEPT !.status = x, !.transitions = y, !.events = z]
          IN /\ DOMAIN h = DOMAIN j /\ h.status = x /\ h.plan = j.plan /\ h.codes = j.codes
             /\ h.decision = j.decision /\ h.transitions = y /\ h.events = z /\ h.next = j.next
    BY DEF Record
  <2> QED BY <2>1 DEF Advanced
<1>2. j.status \in RehearsalStatus /\ to \in REHEARSAL_TRANSITIONS[j.status]
  BY DEF Record, Legal
<1>3. RehearsalStatus = {"created", "validated", "approved", "rehearsing", "paused",
                         "rejected", "aborted", "completed"}
  BY DEF RehearsalStatus, REHEARSAL_TRANSITIONS
<1>4. to \in RehearsalStatus
  BY <1>2, <1>3 DEF REHEARSAL_TRANSITIONS
<1>5. Append(j.transitions, <<j.status, to>>) \in Seq(RehearsalStatus \X RehearsalStatus)
  BY <1>2, <1>4 DEF Record
<1>6. LegalPath(Append(j.transitions, <<j.status, to>>))
  <2> DEFINE t == j.transitions
             u == Append(t, <<j.status, to>>)
  <2>1. t \in Seq(RehearsalStatus \X RehearsalStatus) /\ LegalPath(t) BY DEF Record
  <2>2. \A i \in 1 .. Len(u) : u[i] = IF i <= Len(t) THEN t[i] ELSE <<j.status, to>> BY <2>1
  <2>3. Len(u) = Len(t) + 1 /\ Len(t) \in Nat BY <2>1
  <2>4. ASSUME NEW i \in 1 .. Len(u) PROVE u[i][2] \in REHEARSAL_TRANSITIONS[u[i][1]]
    <3>1. CASE i <= Len(t) BY <3>1, <2>1, <2>2, <2>3 DEF LegalPath
    <3>2. CASE ~(i <= Len(t))
      <4>1. u[i] = <<j.status, to>> BY <3>2, <2>2
      <4> QED BY <4>1, <1>2
    <3> QED BY <3>1, <3>2
  <2> HIDE DEF u
  <2>5. LegalPath(u) BY <2>4 DEF LegalPath
  <2> QED BY <2>5 DEF u
<1>7. j.events \o more \in Seq(EventSet) BY DEF Record
<1>8. j.next \in Int BY DEF Record
<1> HIDE DEF k
<1>9. Record(k) BY <1>1, <1>4, <1>5, <1>6, <1>7, <1>8 DEF Record
<1>10. AdvancedTo(j, k, to, more)
  BY <1>1, <1>9 DEF AdvancedTo, Successor
<1> QED BY <1>10 DEF k


(* The record a tool starts from, a verdict or the next waypoint stored in it. *)
LEMMA StoredVerdict ==
  ASSUME NEW j, Record(j), NEW x
  PROVE  /\ LET k == [j EXCEPT !.codes = x]
            IN Record(k) /\ k.plan = j.plan /\ k.codes = x /\ k.events = j.events
                 /\ k.status = j.status
         /\ LET k == [j EXCEPT !.decision = x]
            IN Record(k) /\ k.plan = j.plan /\ k.codes = j.codes /\ k.events = j.events
                 /\ k.status = j.status /\ k.decision = x
BY DEF Record

LEMMA MoreEventsRecord ==
  ASSUME NEW j, Record(j), NEW more \in Seq(EventSet)
  PROVE  Successor(j, [j EXCEPT !.events = j.events \o more], more)
<1>1. j.events \o more \in Seq(EventSet) BY DEF Record
<1> QED BY <1>1 DEF Record, Successor

(* Adding the events of a waypoint once validator and supervisor have agreed. *)
LEMMA VisitChecked ==
  ASSUME NEW j, NEW k, Record(j), Record(k), Checked(j), k.plan = j.plan, Len(j.events) >= 4,
         j.events[2] = Passed, j.events[3] = Approved, WithinLimits(j.plan),
         NEW kind, NEW w \in Int, k.events = j.events \o WaypointEvents(kind, w)
  PROVE  Checked(k) /\ Len(k.events) >= 4 /\ k.events[2] = Passed /\ k.events[3] = Approved
<1> DEFINE more == WaypointEvents(kind, w)
<1>1. /\ more \in Seq(EventSet) /\ Len(more) \in 3 .. 4
      /\ more[1] = Event("motion", "waypoint_requested", w)
      /\ more[2] = Event("safety", "safety_check_passed", w)
      /\ more[3] = Event("motion", "motion_request_simulated", w)
      /\ Len(more) = 4 => more[4] = Event("motion", "waypoint_reached", w)
  <2>1. CASE kind \in MovingKind
    BY <2>1 DEF WaypointEvents, Event, EventSet, EventType, Subtype
  <2>2. CASE kind \notin MovingKind
    BY <2>2 DEF WaypointEvents, Event, EventSet, EventType, Subtype
  <2> QED BY <2>1, <2>2
<1>2. \A i \in 1 .. Len(more) : Simulated(more[i]) => i = 3 /\ more[i].waypoint = w
  <2>1. /\ more[1].subtype = "waypoint_requested" /\ more[2].subtype = "safety_check_passed"
        /\ more[3].waypoint = w
        /\ Len(more) = 4 => more[4].subtype = "waypoint_reached"
    <3> HIDE DEF more
    <3> QED BY <1>1 DEF Event
  <2> HIDE DEF more
  <2>2. \A i \in 1 .. Len(more) : i \in {1, 2, 3} \/ (i = 4 /\ Len(more) = 4)
    <3>1. Len(more) \in 3 .. 4 BY <1>1, Zenon
    <3>2. \A n \in 3 .. 4 : \A i \in 1 .. n : i \in {1, 2, 3} \/ (i = 4 /\ n = 4)
      OBVIOUS
    <3> QED BY <3>1, <3>2, Zenon
  <2> QED BY <2>1, <2>2 DEF Simulated
<1> HIDE DEF more
<1>3. j.events \in Seq(EventSet) /\ Len(j.events) \in Nat /\ Len(more) \in Nat
  BY <1>1 DEF Record
<1>4. k.events = j.events \o more
  BY DEF more
<1>5. /\ Len(k.events) = Len(j.events) + Len(more)
      /\ \A i \in 1 .. Len(j.events) : k.events[i] = j.events[i]
      /\ \A i \in (Len(j.events) + 1) .. Len(k.events) : k.events[i] = more[i - Len(j.events)]
  BY <1>1, <1>3, <1>4
<1>6. Len(k.events) >= 4 /\ k.events[2] = Passed /\ k.events[3] = Approved
  BY <1>3, <1>5
<1>7. ASSUME NEW i \in 1 .. Len(k.events), Simulated(k.events[i])
      PROVE  i > 4 /\ k.events[i - 1] = Event("safety", "safety_check_passed", k.events[i].waypoint)
  <2>1. CASE i <= Len(j.events)
    <3>1. Simulated(j.events[i]) /\ k.events[i] = j.events[i] BY <1>5, <1>7, <2>1, <1>3
    <3>2. i > 4 /\ j.events[i - 1] = Event("safety", "safety_check_passed", j.events[i].waypoint)
      BY <3>1, <2>1, <1>3 DEF Checked
    <3>3. k.events[i - 1] = j.events[i - 1] BY <1>5, <2>1, <3>2, <1>3
    <3> QED BY <3>1, <3>2, <3>3
  <2>2. CASE i > Len(j.events)
    <3>1. i - Len(j.events) \in 1 .. Len(more) /\ k.events[i] = more[i - Len(j.events)]
      <4>1. i \in 1 .. (Len(j.events) + Len(more)) BY <1>5
      <4>2. i - Len(j.events) \in 1 .. Len(more) BY <1>3, <2>2, <4>1
      <4>3. i \in (Len(j.events) + 1) .. Len(k.events) BY <1>3, <1>5, <2>2, <4>1
      <4>4. k.events[i] = more[i - Len(j.events)] BY <1>5, <4>3, Zenon
      <4> QED BY <4>2, <4>4
    <3>2. i - Len(j.events) = 3 /\ k.events[i].waypoint = w
      BY <1>2, <1>7, <3>1
    <3> DEFINE n == Len(j.events)
    <3>3. n \in Nat /\ i = n + 3 /\ i - 1 \in (n + 1) .. Len(k.events) /\ (i - 1) - n = 2
      BY <1>3, <1>5, <3>2
    <3>4. k.events[i - 1] = more[2]
      BY <1>5, <3>3
    <3>5. k.events[i - 1] = Event("safety", "safety_check_passed", k.events[i].waypoint)
      BY <1>1, <3>2, <3>4
    <3>6. i > 4
      BY <3>3
    <3> QED BY <3>5, <3>6
  <2>3. i \in Int BY <1>3, <1>5
  <2>4. i <= Len(j.events) \/ i > Len(j.events) BY <2>3, <1>3
  <2> QED BY <2>1, <2>2, <2>4, Zenon
<1>8. WithinLimits(k.plan) OBVIOUS
<1> QED BY <1>6, <1>7, <1>8 DEF Checked


(* A tool starts with nothing in memory and, perhaps, nothing on disk. *)
LEMMA StartsRight == RehearsalInit => RInv
<1> SUFFICES ASSUME RehearsalInit PROVE RInv OBVIOUS
<1>1. phase = "idle" /\ job = NoJob /\ todo = << >> /\ unsure = {} /\ started = 0
  BY DEF RehearsalInit
<1>2. bundle = [f \in File |-> Absent]
  BY DEF RehearsalInit
<1>3. ~Stored("rehearsal-audit")
  BY <1>2, FileFacts DEF Stored, Absent
<1>4. todo \in Seq(File) BY <1>1
<1>5. started \in 0 .. MaxRehearsals BY <1>1, RehearsalAssumption
<1>6. DOMAIN bundle = File BY <1>2
<1>7. PhaseInv BY <1>1 DEF PhaseInv
<1> QED BY <1>1, <1>3, <1>4, <1>5, <1>6, <1>7 DEF RInv, Phases, RunPhase


(* What every step in which the bundle stays as it is has to show. *)
LEMMA InMemory ==
  ASSUME RInv, UNCHANGED <<bundle, unsure>>, phase' \in Phases \ {"idle"},
         Record(job'), Checked(job'), PhaseInv',
         todo' \in Seq(File), phase' \in {"write", "fill"} => todo' # << >>,
         started' \in 0 .. MaxRehearsals
  PROVE  RInv'
<1>1. Stored("rehearsal-audit")' = Stored("rehearsal-audit") /\ Audit' = Audit
  BY DEF Stored, Audit
<1> QED BY <1>1 DEF RInv

LEMMA LoadStep == ASSUME RInv, NEW m \in Missions, Load(m) PROVE RInv'
<1>1. phase' = "validate" /\ UNCHANGED <<todo, bundle, unsure>>
  BY DEF Load
<1>2. /\ job'.status = "created" /\ job'.events = << >> /\ job'.transitions = << >>
      /\ job'.next = 1
      /\ DOMAIN job' = {"status", "request", "plan", "codes", "decision", "transitions",
                        "events", "next"}
  BY DEF Load
<1>3. "created" \in RehearsalStatus
  BY DEF RehearsalStatus, REHEARSAL_TRANSITIONS
<1>4. Record(job')
  BY <1>2, <1>3 DEF Record, LegalPath
<1>5. Checked(job')
  BY <1>2 DEF Checked
<1>6. started' \in 0 .. MaxRehearsals
  BY RehearsalAssumption DEF Load, RInv
<1>7. PhaseInv'
  BY <1>1, <1>2 DEF PhaseInv
<1> QED BY <1>1, <1>4, <1>5, <1>6, <1>7, InMemory DEF Phases, RunPhase, RInv

LEMMA ValidateStep == ASSUME RInv, Validate PROVE RInv'
<1>1. /\ phase = "validate" /\ phase' = "review" /\ UNCHANGED <<todo, bundle, unsure, started>>
      /\ job' = [job EXCEPT !.codes = ValidatePlan(job.plan)]
  BY DEF Validate
<1>2. Record(job) /\ job.events = << >>
  BY <1>1 DEF RInv, PhaseInv
<1>3. /\ Record(job') /\ job'.events = << >> /\ job'.plan = job.plan
      /\ job'.codes = ValidatePlan(job.plan)
  BY <1>1, <1>2, StoredVerdict
<1>4. Checked(job') BY <1>3 DEF Checked
<1>5. PhaseInv' BY <1>1, <1>3 DEF PhaseInv
<1> QED BY <1>1, <1>3, <1>4, <1>5, InMemory DEF RInv, Phases, RunPhase


LEMMA ReviewStep == ASSUME RInv, Review PROVE RInv'
<1>1. /\ phase = "review" /\ phase' = "open" /\ UNCHANGED <<todo, bundle, unsure, started>>
      /\ job' = [job EXCEPT !.decision = ReviewPlan(job.plan, job.codes)]
  BY DEF Review
<1>2. Record(job) /\ job.events = << >> /\ job.codes = ValidatePlan(job.plan)
  BY <1>1 DEF RInv, PhaseInv
<1>3. /\ Record(job') /\ job'.events = << >> /\ job'.plan = job.plan /\ job'.codes = job.codes
      /\ job'.decision = ReviewPlan(job.plan, job.codes)
  BY <1>1, <1>2, StoredVerdict
<1>4. Checked(job') BY <1>3 DEF Checked
<1>5. \A plan, codes : ReviewPlan(plan, codes).status \in Verdict
  BY DEF ReviewPlan, Verdict
<1>6. PhaseInv' BY <1>1, <1>2, <1>3, <1>5 DEF PhaseInv
<1> QED BY <1>1, <1>3, <1>4, <1>6, InMemory DEF RInv, Phases, RunPhase

LEMMA OpenStep ==
  ASSUME RInv, OpenValidated \/ OpenRejected PROVE RInv'
<1>1. PICK to \in {"validated", "rejected"} :
        OpenRehearsal(to) /\ (to = "validated" => job.codes = {})
  BY DEF OpenValidated, OpenRejected
<1> DEFINE more == <<Event("mission", "created", 0), ValidationEvent(job.codes)>>
<1>2. /\ phase = "open" /\ Legal(job.status, to) /\ phase' = "supervise"
      /\ job' = Advanced(job, to, more) /\ UNCHANGED <<todo, bundle, unsure, started>>
  BY <1>1 DEF OpenRehearsal
<1>3. /\ Record(job) /\ Checked(job) /\ job.events = << >>
      /\ job.codes = ValidatePlan(job.plan) /\ job.decision.status \in Verdict
  BY <1>2 DEF RInv, PhaseInv
<1>4. /\ ValidationEvent(job.codes) \in EventSet /\ ~Simulated(ValidationEvent(job.codes))
      /\ job.codes = {} => ValidationEvent(job.codes) = Passed
  BY DEF ValidationEvent, Event, EventSet, EventType, Subtype, Simulated, Passed
<1>5. Event("mission", "created", 0) \in EventSet /\ ~Simulated(Event("mission", "created", 0))
  BY DEF Event, EventSet, EventType, Subtype, Simulated
<1>6. /\ more \in Seq(EventSet) /\ Len(more) = 2 /\ more[2] = ValidationEvent(job.codes)
      /\ \A i \in 1 .. Len(more) : ~Simulated(more[i])
  BY <1>4, <1>5
<1> HIDE DEF more
<1>7. /\ Record(job') /\ job'.status = to /\ job'.plan = job.plan /\ job'.codes = job.codes
      /\ job'.decision = job.decision /\ job'.events = job.events \o more
  <2>1. /\ Record(job) /\ more \in Seq(EventSet) /\ Legal(job.status, to)
        /\ job' = Advanced(job, to, more)
    BY <1>2, <1>3, <1>6, Zenon
  <2>2. AdvancedTo(job, job', to, more)
    BY <2>1, AdvancedRecord, Zenon
  <2> QED BY <2>2 DEF AdvancedTo, Successor
<1>8. NoneSimulated(job) BY <1>3 DEF NoneSimulated
<1>9. Checked(job') /\ NoneSimulated(job')
  BY <1>3, <1>6, <1>7, <1>8, MoreEvents
<1>10. job'.events = more
  BY <1>3, <1>6, <1>7
<1>11. PhaseInv'
  BY <1>1, <1>2, <1>3, <1>4, <1>6, <1>7, <1>9, <1>10 DEF PhaseInv
<1> QED BY <1>2, <1>7, <1>9, <1>11, InMemory DEF RInv, Phases, RunPhase

LEMMA SuperviseStep ==
  ASSUME RInv, SuperviseRejected \/ SuperviseApproved PROVE RInv'
<1>1. /\ phase = "supervise" /\ UNCHANGED <<todo, bundle, unsure, started>>
      /\ phase' \in {"terminate", "enter"}
      /\ phase' = "enter" => job.status # "rejected"
  BY DEF SuperviseRejected, SuperviseApproved
<1>2. /\ Record(job) /\ Checked(job) /\ NoneSimulated(job) /\ Len(job.events) = 2
      /\ job.status # "rejected" => job.events[2] = Passed /\ WithinLimits(job.plan)
      /\ job.decision.status \in Verdict
  BY <1>1, CleanPlans DEF RInv, PhaseInv
<1> DEFINE more == <<SupervisorEvent>>
<1>3. SupervisorEvent \in EventSet /\ ~Simulated(SupervisorEvent)
  BY <1>2 DEF SupervisorEvent, Event, EventSet, EventType, Subtype, Simulated, Verdict
<1>4. more \in Seq(EventSet) /\ Len(more) = 1 /\ more[1] = SupervisorEvent
  BY <1>3
<1>5. /\ Record(job') /\ job'.plan = job.plan /\ job'.events = job.events \o more
      /\ phase' = "enter" => SupervisorEvent = Approved
  <2>1. CASE SuperviseRejected
    <3>1. job' = [job EXCEPT !.events = job.events \o more] /\ phase' = "terminate"
      <4>1. Append(job.events, SupervisorEvent) = job.events \o more
        BY <1>2, <1>3 DEF Record
      <4> QED BY <4>1, <2>1 DEF SuperviseRejected
    <3> HIDE DEF more
    <3>2. Successor(job, job', more) BY <1>2, <1>4, <3>1, MoreEventsRecord, Zenon
    <3> QED BY <3>1, <3>2 DEF Successor
  <2>2. CASE SuperviseApproved
    <3>1. SupervisorEvent = Approved BY <2>2 DEF SuperviseApproved, SupervisorEvent, Approved
    <3>2. /\ Legal(job.status, "approved") /\ job' = Advanced(job, "approved", more)
      BY <2>2 DEF SuperviseApproved
    <3> HIDE DEF more
    <3>3. AdvancedTo(job, job', "approved", more) BY <1>2, <1>4, <3>2, AdvancedRecord, Zenon
    <3> QED BY <3>1, <3>3 DEF AdvancedTo, Successor
  <2> QED BY <2>1, <2>2
<1> HIDE DEF more
<1>6. Checked(job') /\ NoneSimulated(job')
  <2>1. \A i \in 1 .. Len(more) : ~Simulated(more[i])
    BY <1>3, <1>4
  <2> QED BY <1>2, <1>4, <1>5, <2>1, MoreEvents
<1>7. Len(job'.events) = 3 /\ job'.events[2] = job.events[2] /\ job'.events[3] = SupervisorEvent
  <2>1. job.events \in Seq(EventSet) /\ more \in Seq(EventSet) /\ job'.events = job.events \o more
    BY <1>2, <1>4, <1>5 DEF Record
  <2>2. Len(job'.events) = Len(job.events) + Len(more)
    BY <2>1, Joined
  <2>3. /\ \A i \in 1 .. Len(job.events) : job'.events[i] = job.events[i]
        /\ \A i \in 1 .. Len(more) : job'.events[Len(job.events) + i] = more[i]
    BY <2>1, Joined
  <2> QED BY <1>2, <1>4, <2>2, <2>3
<1>8. PhaseInv'
  <2>1. CASE phase' = "terminate" BY <2>1, <1>6 DEF PhaseInv
  <2>2. CASE phase' = "enter" BY <2>2, <1>1, <1>2, <1>5, <1>6, <1>7 DEF PhaseInv
  <2> QED BY <1>1, <2>1, <2>2
<1> QED BY <1>1, <1>5, <1>6, <1>8, InMemory DEF RInv, Phases, RunPhase


LEMMA EnterStep == ASSUME RInv, EnterRehearsing PROVE RInv'
<1> DEFINE more == <<Event("mission", "rehearsal_started", 0)>>
<1>1. /\ phase = "enter" /\ phase' = "visit" /\ UNCHANGED <<todo, bundle, unsure, started>>
      /\ Legal(job.status, "rehearsing") /\ job' = Advanced(job, "rehearsing", more)
  BY DEF EnterRehearsing
<1>2. /\ Record(job) /\ Checked(job) /\ Len(job.events) = 3
      /\ job.events[2] = Passed /\ job.events[3] = Approved /\ WithinLimits(job.plan)
  BY <1>1 DEF RInv, PhaseInv
<1>3. /\ more \in Seq(EventSet) /\ Len(more) = 1 /\ \A i \in 1 .. Len(more) : ~Simulated(more[i])
  BY DEF Event, EventSet, EventType, Subtype, Simulated
<1> HIDE DEF more
<1>4. Successor(job, job', more)
  <2>1. AdvancedTo(job, job', "rehearsing", more) BY <1>1, <1>2, <1>3, AdvancedRecord, Zenon
  <2> QED BY <2>1 DEF AdvancedTo
<1>5. Checked(job')
  BY <1>2, <1>3, <1>4, MoreEvents DEF Successor
<1>6. Len(job'.events) >= 4 /\ job'.events[2] = Passed /\ job'.events[3] = Approved
  <2>1. job.events \in Seq(EventSet) /\ more \in Seq(EventSet) /\ job'.events = job.events \o more
    BY <1>2, <1>3, <1>4 DEF Record, Successor
  <2>2. Len(job'.events) = Len(job.events) + Len(more)
    BY <2>1, Joined
  <2>3. \A i \in 1 .. Len(job.events) : job'.events[i] = job.events[i]
    BY <2>1, Joined
  <2> QED BY <1>2, <1>3, <2>2, <2>3
<1>7. Record(job') /\ WithinLimits(job'.plan) BY <1>2, <1>4 DEF Successor
<1>8. PhaseInv' BY <1>1, <1>6, <1>7 DEF PhaseInv
<1> QED BY <1>1, <1>5, <1>7, <1>8, InMemory DEF RInv, Phases, RunPhase

LEMMA VisitStep == ASSUME RInv, Visit PROVE RInv'
<1> DEFINE kind == job.plan.waypoints[job.next].kind
           more == WaypointEvents(kind, job.next)
<1>1. /\ phase = "visit" /\ UNCHANGED <<phase, todo, bundle, unsure, started>>
      /\ job' = [job EXCEPT !.next = job.next + 1, !.events = job.events \o more]
  BY DEF Visit
<1>2. /\ Record(job) /\ Checked(job) /\ Len(job.events) >= 4
      /\ job.events[2] = Passed /\ job.events[3] = Approved /\ WithinLimits(job.plan)
      /\ job.next \in Int
  BY <1>1 DEF RInv, PhaseInv, Record
<1>3. more \in Seq(EventSet)
  <2>1. CASE kind \in MovingKind
    BY <1>2, <2>1 DEF WaypointEvents, Event, EventSet, EventType, Subtype
  <2>2. CASE kind \notin MovingKind
    BY <1>2, <2>2 DEF WaypointEvents, Event, EventSet, EventType, Subtype
  <2> QED BY <2>1, <2>2
<1>4. Record(job') /\ job'.plan = job.plan /\ job'.events = job.events \o more
  <2> HIDE DEF more
  <2>1. job.events \o more \in Seq(EventSet) BY <1>2, <1>3 DEF Record
  <2> QED BY <1>1, <1>2, <2>1 DEF Record
<1>5. Checked(job') /\ Len(job'.events) >= 4 /\ job'.events[2] = Passed /\ job'.events[3] = Approved
  BY <1>2, <1>4, VisitChecked
<1>6. PhaseInv' BY <1>1, <1>2, <1>4, <1>5 DEF PhaseInv
<1> QED BY <1>1, <1>4, <1>5, <1>6, InMemory DEF RInv, Phases, RunPhase

LEMMA ReportStep == ASSUME RInv, Complete \/ TerminateEarly PROVE RInv'
<1>1. PICK k : Report(k) /\ Record(k) /\ Checked(k)
  <2>1. CASE Complete
    <3> DEFINE more == <<Event("mission", "completed", 0)>>
    <3>1. /\ phase = "visit" /\ Legal(job.status, "completed")
          /\ Report(Advanced(job, "completed", more))
      BY <2>1 DEF Complete
    <3>2. Record(job) /\ Checked(job)
      BY <3>1 DEF RInv
    <3>3. /\ more \in Seq(EventSet) /\ \A i \in 1 .. Len(more) : ~Simulated(more[i])
      BY DEF Event, EventSet, EventType, Subtype, Simulated
    <3> HIDE DEF more
    <3>4. Successor(job, Advanced(job, "completed", more), more)
      <4>1. AdvancedTo(job, Advanced(job, "completed", more), "completed", more)
        BY <3>1, <3>2, <3>3, AdvancedRecord, Zenon
      <4> QED BY <4>1 DEF AdvancedTo
    <3> DEFINE k == Advanced(job, "completed", more)
    <3> HIDE DEF k
    <3>5. Successor(job, k, more) /\ Report(k) BY <3>1, <3>4 DEF k
    <3>6. Record(k) /\ Checked(k) BY <3>2, <3>3, <3>5, MoreEvents DEF Successor
    <3> QED BY <3>5, <3>6
  <2>2. CASE TerminateEarly
    <3> DEFINE more == <<Event("audit", "rehearsal_terminated_early", 0)>>
               k == [job EXCEPT !.events = job.events \o more]
    <3>1. phase = "terminate" /\ Record(job) /\ Checked(job)
      BY <2>2 DEF TerminateEarly, RInv
    <3>2. /\ more \in Seq(EventSet) /\ \A i \in 1 .. Len(more) : ~Simulated(more[i])
      BY DEF Event, EventSet, EventType, Subtype, Simulated
    <3>3. Append(job.events, Event("audit", "rehearsal_terminated_early", 0)) = job.events \o more
      <4>1. Event("audit", "rehearsal_terminated_early", 0) \in EventSet
        BY DEF Event, EventSet, EventType, Subtype
      <4> QED BY <3>1, <4>1 DEF Record
    <3>4. Report(k) BY <2>2, <3>3 DEF TerminateEarly
    <3> HIDE DEF more
    <3>5. Successor(job, k, more) BY <3>1, <3>2, MoreEventsRecord
    <3> HIDE DEF k
    <3>6. Record(k) /\ Checked(k) BY <3>1, <3>2, <3>5, MoreEvents DEF Successor
    <3> QED BY <3>4, <3>6
  <2> QED BY <2>1, <2>2
<1>2. /\ phase' = "write" /\ job' = k /\ todo' = BundleFiles /\ unsure' = File
      /\ UNCHANGED <<bundle, started>>
  BY <1>1 DEF Report
<1>3. Stored("rehearsal-audit")' = Stored("rehearsal-audit") /\ Audit' = Audit
  BY <1>2 DEF Stored, Audit
<1>4. PhaseInv' BY <1>2 DEF PhaseInv
<1> QED BY <1>1, <1>2, <1>3, <1>4, FileFacts DEF RInv, Phases, RunPhase


LEMMA TruncateStep == ASSUME RInv, Truncate PROVE RInv'
<1>1. /\ phase = "write" /\ phase' = "fill" /\ UNCHANGED <<job, todo, unsure, started>>
      /\ bundle' = [bundle EXCEPT ![Head(todo)] = Torn]
  BY DEF Truncate
<1>2. DOMAIN bundle' = File
  BY <1>1 DEF RInv
<1>3. Stored("rehearsal-audit")' => Stored("rehearsal-audit") /\ Audit' = Audit
  <2>1. CASE Head(todo) = "rehearsal-audit"
    BY <1>1, <2>1, FileFacts DEF RInv, Stored, Torn
  <2>2. CASE Head(todo) # "rehearsal-audit"
    <3>1. bundle'["rehearsal-audit"] = bundle["rehearsal-audit"]
      BY <1>1, <2>2, FileFacts DEF RInv
    <3> QED BY <3>1 DEF Stored, Audit
  <2> QED BY <2>1, <2>2
<1>4. PhaseInv' BY <1>1 DEF PhaseInv
<1> QED BY <1>1, <1>2, <1>3, <1>4 DEF RInv, Phases, RunPhase

LEMMA FillStep == ASSUME RInv, Fill PROVE RInv'
<1>1. /\ phase = "fill" /\ UNCHANGED started
      /\ bundle' = [bundle EXCEPT ![Head(todo)] = Whole(Content(Head(todo), job))]
      /\ todo' = Tail(todo)
      /\ phase' = IF Len(todo) = 1 THEN "idle" ELSE "write"
      /\ job' = IF Len(todo) = 1 THEN NoJob ELSE job
  BY DEF Fill
<1>2. Record(job) /\ Checked(job) /\ todo \in Seq(File) /\ todo # << >>
  BY <1>1 DEF RInv
<1>3. todo' \in Seq(File) /\ (Len(todo) # 1 => todo' # << >>)
  <2>1. \A t \in Seq(File) : t # << >> =>
          Tail(t) \in Seq(File) /\ (Len(t) # 1 => Tail(t) # << >>)
    <3> SUFFICES ASSUME NEW t \in Seq(File), t # << >>
                 PROVE  Tail(t) \in Seq(File) /\ (Len(t) # 1 => Tail(t) # << >>)
      OBVIOUS
    <3>1. Tail(t) \in Seq(File) /\ Len(Tail(t)) = Len(t) - 1
      BY HeadTailProperties
    <3>2. Len(t) \in Nat \ {0}
      BY EmptySeq
    <3>3. Len(t) # 1 => Len(Tail(t)) # 0
      BY <3>1, <3>2
    <3>4. Len(t) # 1 => Tail(t) # << >>
      BY <3>3, EmptySeq
    <3> QED BY <3>1, <3>4
  <2> QED BY <1>1, <1>2, <2>1
<1>4. unsure' \subseteq File
  BY FileFacts DEF Fill, RInv
<1>5. DOMAIN bundle' = File
  BY <1>1 DEF RInv
<1>6. Stored("rehearsal-audit")' => Record(Audit') /\ Checked(Audit')
  <2>1. CASE Head(todo) = "rehearsal-audit"
    <3>1. bundle'["rehearsal-audit"] = Whole(job)
      BY <1>1, <2>1, FileFacts, AuditContent DEF RInv
    <3>2. Audit' = job BY <3>1 DEF Audit, Whole
    <3> QED BY <3>2, <1>2
  <2>2. CASE Head(todo) # "rehearsal-audit"
    <3>1. bundle'["rehearsal-audit"] = bundle["rehearsal-audit"]
      BY <1>1, <2>2, FileFacts DEF RInv
    <3>2. Stored("rehearsal-audit")' = Stored("rehearsal-audit") /\ Audit' = Audit
      BY <3>1 DEF Stored, Audit
    <3> QED BY <3>2 DEF RInv
  <2> QED BY <2>1, <2>2
<1>7. PhaseInv' BY <1>1 DEF PhaseInv
<1> QED BY <1>1, <1>2, <1>3, <1>4, <1>5, <1>6, <1>7 DEF RInv, Phases, RunPhase

LEMMA RegenerateStep == ASSUME RInv, Regenerate PROVE RInv'
<1>1. /\ started < MaxRehearsals /\ Stored("rehearsal-audit") /\ phase' = "write"
      /\ started' = started + 1 /\ job' = Audit /\ todo' = ReplayFiles
      /\ unsure' = unsure \cup Range(ReplayFiles) /\ UNCHANGED bundle
  BY DEF Regenerate
<1>2. Stored("rehearsal-audit")' = Stored("rehearsal-audit") /\ Audit' = Audit
  BY <1>1 DEF Stored, Audit
<1>3. Record(job') /\ Checked(job') BY <1>1 DEF RInv
<1>4. started' \in 0 .. MaxRehearsals
  BY <1>1, RehearsalAssumption DEF RInv
<1>5. PhaseInv' BY <1>1 DEF PhaseInv
<1>6. unsure' \subseteq File BY <1>1, FileFacts DEF RInv
<1> QED BY <1>1, <1>2, <1>3, <1>4, <1>5, <1>6, FileFacts DEF RInv, Phases, RunPhase

LEMMA DieStep == ASSUME RInv, Die PROVE RInv'
<1>1. phase' = "idle" /\ job' = NoJob /\ todo' = << >> /\ UNCHANGED <<bundle, unsure, started>>
  BY DEF Die
<1>2. Stored("rehearsal-audit")' = Stored("rehearsal-audit") /\ Audit' = Audit
  BY <1>1 DEF Stored, Audit
<1>3. PhaseInv' BY <1>1 DEF PhaseInv
<1>4. todo' \in Seq(File) BY <1>1
<1> QED BY <1>1, <1>2, <1>3, <1>4 DEF RInv, Phases, RunPhase

(* The invariant of the rehearsal tools. *)
THEOREM RehearsalInvariant == RehearsalSpec => []RInv
<1>1. RehearsalInit => RInv
  BY StartsRight
<1>2. RInv /\ [RehearsalStep]_rehearsalVars => RInv'
  <2> SUFFICES ASSUME RInv, [RehearsalStep]_rehearsalVars PROVE RInv'
    OBVIOUS
  <2>1. ASSUME NEW m \in Missions, Load(m) PROVE RInv'
    BY <2>1, LoadStep
  <2>2. CASE Validate BY <2>2, ValidateStep
  <2>3. CASE Review BY <2>3, ReviewStep
  <2>4. CASE OpenValidated \/ OpenRejected BY <2>4, OpenStep
  <2>5. CASE SuperviseRejected \/ SuperviseApproved BY <2>5, SuperviseStep
  <2>6. CASE EnterRehearsing BY <2>6, EnterStep
  <2>7. CASE Visit BY <2>7, VisitStep
  <2>8. CASE Complete \/ TerminateEarly BY <2>8, ReportStep
  <2>9. CASE Truncate BY <2>9, TruncateStep
  <2>10. CASE Fill BY <2>10, FillStep
  <2>11. CASE Regenerate BY <2>11, RegenerateStep
  <2>12. CASE Die BY <2>12, DieStep
  <2>13. CASE UNCHANGED rehearsalVars
    <3>1. UNCHANGED <<phase, job, todo, bundle, unsure, started>>
      BY <2>13 DEF rehearsalVars
    <3>2. Stored("rehearsal-audit")' = Stored("rehearsal-audit") /\ Audit' = Audit
      BY <3>1 DEF Stored, Audit
    <3>3. PhaseInv' BY <3>1 DEF RInv, PhaseInv
    <3> QED BY <3>1, <3>2, <3>3 DEF RInv
  <2> QED
    BY <2>1, <2>2, <2>3, <2>4, <2>5, <2>6, <2>7, <2>8, <2>9, <2>10, <2>11, <2>12, <2>13
    DEF RehearsalStep
<1> QED BY <1>1, <1>2, PTL DEF RehearsalSpec

(* The type invariant of MissionRehearsal: in memory and on disk, a record of  *)
(* a rehearsal is well-formed and its status changes are in the table          *)
(* (rehearsal_state_machine.py).                                               *)
THEOREM RehearsalTypeCorrect == RehearsalSpec => []RehearsalTypeOK
<1>1. ASSUME NEW j, Record(j) PROVE WellFormed(j) /\ j # NoJob
  <2>1. j # NoJob
    <3>1. "plan" \in DOMAIN j BY <1>1 DEF Record
    <3>2. "plan" \notin DOMAIN NoJob BY DEF NoJob
    <3> QED BY <3>1, <3>2
  <2>2. \A i \in DOMAIN j.events : j.events[i].type \in EventType
    <3>1. j.events \in Seq(EventSet) BY <1>1 DEF Record
    <3>2. \A i \in DOMAIN j.events : j.events[i] \in EventSet BY <3>1
    <3> QED BY <3>2 DEF EventSet
  <2>3. \A i \in DOMAIN j.transitions :
          j.transitions[i][2] \in REHEARSAL_TRANSITIONS[j.transitions[i][1]]
    <3>1. DOMAIN j.transitions = 1 .. Len(j.transitions) BY <1>1 DEF Record
    <3>2. LegalPath(j.transitions) BY <1>1 DEF Record
    <3> QED BY <3>1, <3>2 DEF LegalPath
  <2>4. j.status \in RehearsalStatus BY <1>1 DEF Record
  <2> QED BY <2>1, <2>2, <2>3, <2>4 DEF WellFormed
<1>2. RInv => RehearsalTypeOK
  <2> SUFFICES ASSUME RInv PROVE RehearsalTypeOK OBVIOUS
  <2>1. phase \in {"idle", "write", "fill"} \cup RunPhase BY DEF RInv, Phases
  <2>2. (phase = "idle") = (job = NoJob) BY <1>1 DEF RInv
  <2>3. job # NoJob => WellFormed(job) BY <1>1 DEF RInv
  <2>4. Range(todo) \subseteq File BY DEF RInv, Range
  <2>5. Stored("rehearsal-audit") => WellFormed(Audit) BY <1>1 DEF RInv
  <2>6. unsure \subseteq File /\ DOMAIN bundle = File /\ started \in 0 .. MaxRehearsals
    BY DEF RInv
  <2> QED BY <2>1, <2>2, <2>3, <2>4, <2>5, <2>6 DEF RehearsalTypeOK
<1> QED BY <1>2, RehearsalInvariant, PTL

(* No simulated motion without validation, approval and the safety check of    *)
(* the same waypoint, of a plan that keeps the limits of rehearsal_validator.py *)
(* (rehearsal_runtime.py, rehearsal_supervisor.py): for every mission file,    *)
(* wherever the tools are interrupted.                                         *)
THEOREM SimulatedMotionIsSupervised == RehearsalSpec => []SupervisedMotion
<1>1. ASSUME NEW j, Record(j), Checked(j), NEW i \in DOMAIN j.events,
             j.events[i].subtype = "motion_request_simulated"
      PROVE  /\ WithinLimits(j.plan)
             /\ \E v, s, c \in 1 .. (i - 1) :
                  /\ v < s /\ s < c
                  /\ j.events[v] = Event("validation", "passed", 0)
                  /\ j.events[s] = Event("supervisor", "approved", 0)
                  /\ j.events[c] = Event("safety", "safety_check_passed", j.events[i].waypoint)
  <2>1. i \in 1 .. Len(j.events) /\ i \in Int BY <1>1 DEF Record
  <2>2. /\ i > 4 /\ j.events[2] = Passed /\ j.events[3] = Approved
        /\ j.events[i - 1] = Event("safety", "safety_check_passed", j.events[i].waypoint)
        /\ WithinLimits(j.plan)
    BY <1>1, <2>1 DEF Checked, Simulated
  <2>3. 2 \in 1 .. (i - 1) /\ 3 \in 1 .. (i - 1) /\ i - 1 \in 1 .. (i - 1) /\ 2 < 3 /\ 3 < i - 1
    BY <2>1, <2>2
  <2> QED BY <2>2, <2>3 DEF Passed, Approved
<1>2. RInv => SupervisedMotion
  <2> SUFFICES ASSUME RInv PROVE SupervisedMotion OBVIOUS
  <2>1. \A r \in Records : Record(r) /\ Checked(r) BY DEF RInv, Records
  <2> QED BY <1>1, <2>1 DEF SupervisedMotion
<1> QED BY <1>2, RehearsalInvariant, PTL

-----------------------------------------------------------------------------
(* The files of the bundle. *)

LEMMA LongerThanOne ==
  ASSUME NEW S, NEW t \in Seq(S), t # << >>, Len(t) # 1
  PROVE  Len(t) > 1
<1>1. \A n \in Nat \ {0} : n # 1 => n > 1
  OBVIOUS
<1>2. Len(t) \in Nat \ {0}
  BY EmptySeq
<1> QED BY <1>1, <1>2, Zenon

\* What is left of the files from the k-th on is the last when it is one file.
LEMMA OnlyTheLast ==
  ASSUME NEW S, NEW files \in Seq(S), NEW k \in 1 .. Len(files),
         NEW t \in Seq(S), Len(t) = 1, Len(t) = Len(files) - k + 1,
         \A i \in 1 .. Len(t) : t[i] = files[k + i - 1]
  PROVE  k = Len(files) /\ t = <<files[k]>>
<1>1. k = Len(files) /\ k + 1 - 1 = k
  <2>1. \A m, n \in Nat : \A i \in 1 .. m : n = 1 /\ n = m - i + 1 => i = m
    OBVIOUS
  <2>2. Len(files) \in Nat /\ Len(t) \in Nat
    BY LenProperties
  <2>3. k = Len(files)
    BY <2>1, <2>2, Zenon
  <2> QED BY <2>2, <2>3
<1>2. t[1] = files[k] /\ files[k] \in S
  BY <1>1
<1>3. <<files[k]>> \in Seq(S) /\ Len(<<files[k]>>) = 1 /\ <<files[k]>>[1] = files[k]
  BY <1>2
<1>4. \A i \in 1 .. Len(t) : t[i] = <<files[k]>>[i]
  BY <1>2, <1>3
<1>5. t = <<files[k]>>
  BY <1>3, <1>4, SeqEqual
<1> QED BY <1>1, <1>5

\* The tool has written the files before the k-th and has the rest to do.
WritingAt(files, k) ==
  /\ Len(todo) = Len(files) - k + 1
  /\ \A i \in 1 .. Len(todo) : todo[i] = files[k + i - 1]
  /\ \A i \in 1 .. k - 1 : bundle[files[i]] = Whole(Content(files[i], job))
Writing(files) == \E k \in 1 .. Len(files) : WritingAt(files, k)

\* What FilesFollowAudit says, whether or not a tool runs.
Consistent ==
  Stored("rehearsal-audit") =>
    \A f \in File \ unsure :
      f \in Range(ReplayFiles) \/ "rehearsal-audit" \notin unsure =>
        bundle[f] = Whole(Content(f, Audit))

WritesBundle == unsure = File /\ Writing(BundleFiles)

\* The replay is of the stored audit, and the files it leaves alone are as sure
\* as they were.
WritesReplay ==
  /\ Range(ReplayFiles) \subseteq unsure
  /\ Stored("rehearsal-audit") /\ Audit = job
  /\ Consistent /\ Writing(ReplayFiles)

FilesInv ==
  IF phase \in {"write", "fill"} THEN WritesBundle \/ WritesReplay ELSE Consistent

LEMMA FilesDiffer ==
  /\ \A i, j \in 1 .. Len(BundleFiles) : BundleFiles[i] = BundleFiles[j] => i = j
  /\ \A i, j \in 1 .. Len(ReplayFiles) : ReplayFiles[i] = ReplayFiles[j] => i = j
  /\ Len(BundleFiles) = 12 /\ Len(ReplayFiles) = 3
  /\ BundleFiles[11] = "rehearsal-audit" /\ BundleFiles[12] = "rehearsal-report"
  /\ ReplayFiles[3] = "analytics"
  /\ "rehearsal-audit" \notin Range(ReplayFiles)
<1>1. Range(ReplayFiles) = {"replay-review", "replay-review-md", "analytics"}
  BY DEF Range, ReplayFiles
<1> QED BY <1>1 DEF BundleFiles, ReplayFiles

\* The file at the head is the k-th, and none of those already written.
LEMMA HeadIsNext ==
  ASSUME RInv, NEW files \in Seq(File), NEW k \in 1 .. Len(files), WritingAt(files, k),
         \A i, j \in 1 .. Len(files) : files[i] = files[j] => i = j
  PROVE  /\ Head(todo) = files[k]
         /\ \A i \in 1 .. k - 1 : files[i] \in File /\ files[i] # files[k]
         /\ files[k] \in File /\ k \in Nat /\ Len(files) \in Nat
<1>1. k \in Nat /\ Len(files) \in Nat /\ k >= 1 /\ k <= Len(files)
  OBVIOUS
<1>2. Len(todo) >= 1 /\ todo[1] = files[k]
  BY <1>1 DEF WritingAt
<1>3. todo \in Seq(File)
  BY DEF RInv
<1>4. Head(todo) = todo[1]
  BY <1>2, <1>3
<1>5. \A i \in 1 .. k - 1 : i \in 1 .. Len(files) /\ i # k
  BY <1>1
<1> QED BY <1>1, <1>2, <1>4, <1>5

LEMMA TruncateGoesOn ==
  ASSUME RInv, Truncate, NEW files \in Seq(File), Writing(files),
         \A i, j \in 1 .. Len(files) : files[i] = files[j] => i = j
  PROVE  Writing(files)'
<1>1. PICK k \in 1 .. Len(files) : WritingAt(files, k)
  BY DEF Writing
<1>2. /\ bundle' = [bundle EXCEPT ![files[k]] = Torn] /\ todo' = todo /\ job' = job
  BY <1>1, HeadIsNext DEF Truncate
<1>3. \A i \in 1 .. k - 1 : bundle'[files[i]] = bundle[files[i]]
  BY <1>1, <1>2, HeadIsNext DEF RInv
<1>4. \A i \in 1 .. k - 1 : bundle'[files[i]] = Whole(Content(files[i], job))
  BY <1>1, <1>3 DEF WritingAt
<1> QED BY <1>1, <1>2, <1>4 DEF Writing, WritingAt

LEMMA FillGoesOn ==
  ASSUME RInv, Fill, NEW files \in Seq(File), Writing(files),
         \A i, j \in 1 .. Len(files) : files[i] = files[j] => i = j
  PROVE  /\ Len(todo) # 1 => Writing(files)'
         /\ Len(todo) = 1 =>
              /\ todo = <<files[Len(files)]>>
              /\ \A i \in 1 .. Len(files) :
                   bundle'[files[i]] = Whole(Content(files[i], job))
<1>1. PICK k \in 1 .. Len(files) : WritingAt(files, k)
  BY DEF Writing
<1>2. /\ bundle' = [bundle EXCEPT ![files[k]] = Whole(Content(files[k], job))]
      /\ todo' = Tail(todo) /\ (Len(todo) # 1 => job' = job)
  BY <1>1, HeadIsNext DEF Fill
<1>3. /\ \A i \in 1 .. k - 1 : files[i] \in File /\ files[i] # files[k]
      /\ files[k] \in File /\ k \in Nat /\ Len(files) \in Nat /\ DOMAIN bundle = File
      /\ k >= 1 /\ k <= Len(files)
  BY <1>1, HeadIsNext DEF RInv
<1>4. ASSUME NEW i \in 1 .. k PROVE bundle'[files[i]] = Whole(Content(files[i], job))
  <2>1. CASE i = k
    BY <1>2, <1>3, <2>1
  <2>2. CASE i # k
    <3>1. i \in 1 .. k - 1
      BY <1>3, <2>2
    <3>2. bundle'[files[i]] = bundle[files[i]]
      BY <1>2, <1>3, <3>1
    <3> QED BY <1>1, <3>1, <3>2 DEF WritingAt
  <2> QED BY <2>1, <2>2
<1>5. /\ todo \in Seq(File) /\ Len(todo) = Len(files) - k + 1
      /\ \A i \in 1 .. Len(todo) : todo[i] = files[k + i - 1]
  BY <1>1 DEF RInv, WritingAt
<1>6. CASE Len(todo) = 1
  <2>1. k = Len(files) /\ todo = <<files[k]>>
    BY <1>1, <1>5, <1>6, OnlyTheLast
  <2> QED BY <1>4, <1>6, <2>1
<1>7. CASE Len(todo) # 1
  <2>1. k + 1 \in 1 .. Len(files) /\ todo # << >>
    BY <1>3, <1>5, <1>7
  <2>2. /\ Len(todo') = Len(files) - (k + 1) + 1
        /\ \A i \in 1 .. Len(todo') : todo'[i] = todo[i + 1]
    BY <1>2, <1>3, <1>5, <2>1
  <2>3. \A i \in 1 .. Len(todo') : todo'[i] = files[(k + 1) + i - 1]
    <3> SUFFICES ASSUME NEW i \in 1 .. Len(todo')
                 PROVE  todo'[i] = files[(k + 1) + i - 1]
      OBVIOUS
    <3>1. i + 1 \in 1 .. Len(todo) /\ k + (i + 1) - 1 = (k + 1) + i - 1
      BY <1>3, <1>5, <2>2
    <3>2. todo[i + 1] = files[k + (i + 1) - 1]
      BY <1>5, <3>1
    <3> QED BY <2>2, <3>1, <3>2
  <2>4. \A i \in 1 .. (k + 1) - 1 : bundle'[files[i]] = Whole(Content(files[i], job'))
    BY <1>2, <1>3, <1>4, <1>7
  <2>5. WritingAt(files, k + 1)'
    BY <2>2, <2>3, <2>4 DEF WritingAt
  <2> QED BY <1>7, <2>1, <2>5 DEF Writing
<1> QED BY <1>6, <1>7

\* A tool about to write its first file has written none.
LEMMA BeginsWriting ==
  ASSUME NEW files \in Seq(File), files # << >>, todo' = files
  PROVE  Writing(files)'
<1>1. Len(files) \in Nat /\ 1 \in 1 .. Len(files)
  BY EmptySeq
<1>2. WritingAt(files, 1)'
  BY <1>1 DEF WritingAt
<1> QED BY <1>1, <1>2 DEF Writing

\* Writing a file of the replay leaves the audit and the sure files alone.
LEMMA ReplayLeavesRest ==
  ASSUME RInv, WritesReplay,
         \E f \in Range(ReplayFiles) : \E c : bundle' = [bundle EXCEPT ![f] = c]
  PROVE  /\ Stored("rehearsal-audit")' /\ Audit' = Audit
         /\ \A f \in File \ Range(ReplayFiles) : bundle'[f] = bundle[f]
<1>1. \A f \in File \ Range(ReplayFiles) : bundle'[f] = bundle[f]
  BY DEF RInv
<1>2. bundle'["rehearsal-audit"] = bundle["rehearsal-audit"]
  BY <1>1, FileFacts, FilesDiffer
<1> QED BY <1>1, <1>2 DEF Stored, Audit, WritesReplay

LEMMA NextIsReplay ==
  ASSUME RInv, WritesReplay
  PROVE  Head(todo) \in Range(ReplayFiles)
<1>1. PICK k \in 1 .. Len(ReplayFiles) : WritingAt(ReplayFiles, k)
  BY DEF WritesReplay, Writing
<1>2. /\ ReplayFiles \in Seq(File)
      /\ \A i, j \in 1 .. Len(ReplayFiles) : ReplayFiles[i] = ReplayFiles[j] => i = j
  BY FilesDiffer DEF ReplayFiles, BundleFiles, File, Range
<1>3. Head(todo) = ReplayFiles[k]
  BY ONLY RInv, <1>1, <1>2, HeadIsNext
<1>4. k \in DOMAIN ReplayFiles
  BY <1>1, <1>2
<1> QED BY <1>3, <1>4 DEF Range

LEMMA FilesTruncate ==
  ASSUME RInv, FilesInv, Truncate
  PROVE  FilesInv'
<1>1. phase = "write" /\ phase' = "fill" /\ UNCHANGED <<job, unsure>>
      /\ bundle' = [bundle EXCEPT ![Head(todo)] = Torn]
  BY DEF Truncate
<1>2. CASE WritesBundle
  BY <1>1, <1>2, FileFacts, FilesDiffer, TruncateGoesOn DEF WritesBundle, FilesInv
<1>3. CASE WritesReplay
  <2>1. Writing(ReplayFiles)'
    BY <1>3, FileFacts, FilesDiffer, TruncateGoesOn DEF WritesReplay
  <2>2. /\ Stored("rehearsal-audit")' /\ Audit' = Audit
        /\ \A f \in File \ Range(ReplayFiles) : bundle'[f] = bundle[f]
    BY <1>1, <1>3, NextIsReplay, ReplayLeavesRest
  <2>3. Consistent'
    BY <1>1, <1>3, <2>2 DEF Consistent, WritesReplay
  <2> QED BY <1>1, <1>3, <2>1, <2>2, <2>3 DEF WritesReplay, FilesInv
<1> QED BY <1>1, <1>2, <1>3 DEF FilesInv

LEMMA FilesFill ==
  ASSUME RInv, FilesInv, Fill
  PROVE  FilesInv'
<1>1. /\ phase = "fill" /\ bundle' = [bundle EXCEPT ![Head(todo)] = Whole(Content(Head(todo), job))]
      /\ phase' = IF Len(todo) = 1 THEN "idle" ELSE "write"
      /\ job' = IF Len(todo) = 1 THEN NoJob ELSE job
      /\ unsure' = CASE Len(todo) > 1 -> unsure
                     [] todo = <<Last(BundleFiles)>> -> {}
                     [] OTHER -> unsure \ Range(ReplayFiles)
  BY DEF Fill
<1>2. Len(todo) # 1 => Len(todo) > 1
  BY <1>1, LongerThanOne DEF RInv
<1>3. Len(todo) # 1 => unsure' = unsure /\ job' = job /\ phase' = "write"
  <2> SUFFICES ASSUME Len(todo) # 1 PROVE unsure' = unsure /\ job' = job /\ phase' = "write"
    OBVIOUS
  <2>1. Len(todo) > 1
    BY <1>2
  <2>2. todo # <<Last(BundleFiles)>>
    OBVIOUS
  <2>3. unsure' = unsure
    BY <1>1, <2>1, <2>2, SMT
  <2> QED BY <1>1, <2>3
<1>4. CASE WritesBundle
  <2>1. /\ Len(todo) # 1 => Writing(BundleFiles)'
        /\ Len(todo) = 1 =>
             /\ todo = <<BundleFiles[12]>>
             /\ \A i \in 1 .. 12 :
                  bundle'[BundleFiles[i]] = Whole(Content(BundleFiles[i], job))
    BY <1>4, FileFacts, FilesDiffer, FillGoesOn DEF WritesBundle
  <2>2. CASE Len(todo) # 1
    BY <1>3, <1>4, <2>1, <2>2 DEF WritesBundle, FilesInv
  <2>3. CASE Len(todo) = 1
    <3>1. phase' = "idle"
      BY <1>1, <2>3
    <3>2. \A f \in File : bundle'[f] = Whole(Content(f, job))
      BY <2>1, <2>3, FilesDiffer DEF File, Range, BundleFiles
    <3>3. "rehearsal-audit" \in File
      BY FileFacts
    <3>4. bundle'["rehearsal-audit"] = Whole(job)
      BY <3>2, <3>3, AuditContent
    <3>5. Audit' = job
      BY <3>4 DEF Audit, Whole
    <3> QED BY <3>1, <3>2, <3>5 DEF FilesInv, Consistent
  <2> QED BY <2>2, <2>3
<1>5. CASE WritesReplay
  <2>1. /\ Len(todo) # 1 => Writing(ReplayFiles)'
        /\ Len(todo) = 1 =>
             /\ todo = <<"analytics">>
             /\ \A i \in 1 .. 3 :
                  bundle'[ReplayFiles[i]] = Whole(Content(ReplayFiles[i], job))
    BY <1>5, FileFacts, FilesDiffer, FillGoesOn DEF WritesReplay
  <2>2. /\ Stored("rehearsal-audit")' /\ Audit' = Audit
        /\ \A f \in File \ Range(ReplayFiles) : bundle'[f] = bundle[f]
    BY <1>1, <1>5, NextIsReplay, ReplayLeavesRest
  <2>3. CASE Len(todo) # 1
    <3>1. Consistent'
      BY <1>3, <1>5, <2>2, <2>3 DEF Consistent, WritesReplay
    <3> QED BY <1>3, <1>5, <2>1, <2>2, <2>3, <3>1 DEF WritesReplay, FilesInv
  <2>4. CASE Len(todo) = 1
    <3>1. phase' = "idle" /\ unsure' = unsure \ Range(ReplayFiles)
      <4>1. todo # <<Last(BundleFiles)>>
        BY <2>1, <2>4, FilesDiffer DEF Last
      <4> QED BY <1>1, <2>4, <4>1
    <3>2. \A f \in Range(ReplayFiles) : bundle'[f] = Whole(Content(f, job))
      BY <2>1, <2>4, FilesDiffer DEF Range, ReplayFiles
    <3>3. Audit' = job
      BY <1>5, <2>2 DEF WritesReplay
    <3>4. ASSUME NEW f \in File \ unsure', f \notin Range(ReplayFiles),
                 "rehearsal-audit" \notin unsure'
          PROVE  bundle'[f] = Whole(Content(f, job))
      <4>1. f \in File \ unsure /\ "rehearsal-audit" \notin unsure
        BY <3>1, <3>4, FilesDiffer
      <4>2. bundle[f] = Whole(Content(f, Audit)) /\ Audit = job
        BY <1>5, <4>1 DEF WritesReplay, Consistent
      <4> QED BY <2>2, <3>4, <4>2
    <3> QED BY <3>1, <3>2, <3>3, <3>4 DEF FilesInv, Consistent
  <2> QED BY <2>3, <2>4
<1> QED BY <1>1, <1>4, <1>5 DEF FilesInv

LEMMA FilesStep ==
  ASSUME RInv, FilesInv, [RehearsalStep]_rehearsalVars
  PROVE  FilesInv'
<1>1. ASSUME UNCHANGED <<bundle, unsure>>, phase \notin {"write", "fill"},
             phase' \notin {"write", "fill"}
      PROVE  FilesInv'
  BY <1>1 DEF FilesInv, Consistent, Stored, Audit
<1>2. ASSUME NEW m \in Missions, Load(m) PROVE FilesInv'
  BY <1>1, <1>2 DEF Load
<1>3. CASE \/ Validate \/ Review \/ OpenValidated \/ OpenRejected
           \/ SuperviseRejected \/ SuperviseApproved \/ EnterRehearsing \/ Visit
  BY <1>1, <1>3 DEF Validate, Review, OpenValidated, OpenRejected, OpenRehearsal,
     SuperviseRejected, SuperviseApproved, EnterRehearsing, Visit
<1>4. CASE Complete \/ TerminateEarly
  <2>1. phase' = "write" /\ unsure' = File /\ todo' = BundleFiles
    BY <1>4 DEF Complete, TerminateEarly, Report
  <2> QED BY <2>1, FileFacts, BeginsWriting DEF FilesInv, WritesBundle
<1>5. CASE Truncate
  BY <1>5, FilesTruncate
<1>6. CASE Fill
  BY <1>6, FilesFill
<1>7. CASE Regenerate
  <2>1. /\ phase = "idle" /\ phase' = "write" /\ Stored("rehearsal-audit") /\ job' = Audit
        /\ todo' = ReplayFiles /\ unsure' = unsure \cup Range(ReplayFiles) /\ bundle' = bundle
    BY <1>7 DEF Regenerate
  <2>2. Stored("rehearsal-audit")' /\ Audit' = job'
    BY <2>1 DEF Stored, Audit
  <2>3. Writing(ReplayFiles)'
    BY <2>1, FileFacts, BeginsWriting
  <2>4. Consistent'
    BY <2>1, <2>2 DEF FilesInv, Consistent, Stored, Audit
  <2> QED BY <2>1, <2>2, <2>3, <2>4 DEF FilesInv, WritesReplay
<1>8. CASE Die
  <2>1. phase' = "idle" /\ UNCHANGED <<bundle, unsure>>
    BY <1>8 DEF Die
  <2>2. Consistent
    BY DEF FilesInv, WritesBundle, WritesReplay, Consistent
  <2> QED BY <2>1, <2>2 DEF FilesInv, Consistent, Stored, Audit
<1>9. CASE UNCHANGED rehearsalVars
  <2>1. UNCHANGED <<phase, job, todo, bundle, unsure>>
    BY <1>9 DEF rehearsalVars
  <2> QED BY <2>1 DEF FilesInv, WritesBundle, WritesReplay, Writing, WritingAt, Consistent,
                      Stored, Audit
<1> QED BY <1>2, <1>3, <1>4, <1>5, <1>6, <1>7, <1>8, <1>9 DEF RehearsalStep

(* After tools that finished, and wherever an earlier one died, the files of    *)
(* the bundle tell the story of its audit, and regenerating the replay repairs  *)
(* its three files (rehearsal_reporter.py, replay generation): for every set    *)
(* of mission files and every number of tools run.                              *)
THEOREM BundleFollowsAudit == RehearsalSpec => []FilesFollowAudit
<1>1. RehearsalInit => FilesInv
  <2> SUFFICES ASSUME RehearsalInit PROVE FilesInv
    OBVIOUS
  <2>1. phase = "idle" /\ bundle = [f \in File |-> Absent]
    BY DEF RehearsalInit
  <2>2. ~Stored("rehearsal-audit")
    BY <2>1, FileFacts DEF Stored, Absent
  <2> QED BY <2>1, <2>2 DEF FilesInv, Consistent
<1>2. FilesInv => FilesFollowAudit
  BY DEF FilesInv, Consistent, FilesFollowAudit
<1> QED BY <1>1, <1>2, FilesStep, RehearsalInvariant, PTL DEF RehearsalSpec

-----------------------------------------------------------------------------
(* The story of a rehearsal: its status, its transitions and its events. *)

Created == Event("mission", "created", 0)
Refused == Event("validation", "rejected", 0)
Started == Event("mission", "rehearsal_started", 0)
Completed == Event("mission", "completed", 0)

\* The transitions by which a rehearsal comes to a status, and the events its
\* stream opens with by then.
Trail ==
  [created |-> << >>,
   rejected |-> << <<"created", "rejected">> >>,
   validated |-> << <<"created", "validated">> >>,
   approved |-> << <<"created", "validated">>, <<"validated", "approved">> >>,
   rehearsing |-> << <<"created", "validated">>, <<"validated", "approved">>,
                     <<"approved", "rehearsing">> >>,
   completed |-> << <<"created", "validated">>, <<"validated", "approved">>,
                    <<"approved", "rehearsing">>, <<"rehearsing", "completed">> >>]

Opening ==
  [created |-> << >>,
   rejected |-> <<Created, Refused>>,
   validated |-> <<Created, Passed>>,
   approved |-> <<Created, Passed, Approved>>,
   rehearsing |-> <<Created, Passed, Approved, Started>>,
   completed |-> <<Created, Passed, Approved, Started>>]

Opens(events, first) ==
  /\ Len(events) >= Len(first)
  /\ \A i \in 1 .. Len(first) : events[i] = first[i]

Told(j) ==
  /\ j.status \in DOMAIN Trail
  /\ j.transitions = Trail[j.status]
  /\ Opens(j.events, Opening[j.status])
  /\ j.status = "completed" => \E i \in 1 .. Len(j.events) : j.events[i] = Completed

\* The verdicts in a record are those on its plan, and its status follows them.
Judged(j) ==
  /\ j.codes = ValidatePlan(j.plan) /\ j.decision = ReviewPlan(j.plan, j.codes)
  /\ (j.status = "rejected") = (j.codes # {})
  /\ j.status \in {"approved", "rehearsing", "completed"} => j.decision.status = "approved"

Ended(j) == Told(j) /\ Judged(j) /\ j.status \in {"completed", "rejected"}

StatusIn ==
  [validate |-> {"created"}, review |-> {"created"}, open |-> {"created"},
   supervise |-> {"validated", "rejected"}, terminate |-> {"rejected"},
   enter |-> {"approved"}, visit |-> {"rehearsing"},
   write |-> {"completed", "rejected"}, fill |-> {"completed", "rejected"}]

StoryInv ==
  /\ phase # "idle" => Told(job) /\ job.status \in StatusIn[phase]
  /\ phase = "open" => job.decision = ReviewPlan(job.plan, job.codes)
  /\ phase \in {"supervise", "terminate", "enter", "visit", "write", "fill"} => Judged(job)
  /\ Stored("rehearsal-audit") => Ended(Audit)

LEMMA StatusNames ==
  /\ DOMAIN Trail = {"created", "rejected", "validated", "approved", "rehearsing", "completed"}
  /\ DOMAIN Opening = DOMAIN Trail
BY DEF Trail, Opening

LEMMA OpeningIsEvents == \A s \in DOMAIN Trail : Opening[s] \in Seq(EventSet)
<1>1. {Created, Refused, Passed, Approved, Started} \subseteq EventSet
  BY DEF Created, Refused, Passed, Approved, Started, Event, EventSet, EventType, Subtype
<1>2. \A a, b, c, d \in EventSet :
        /\ << >> \in Seq(EventSet) /\ <<a, b>> \in Seq(EventSet)
        /\ <<a, b, c>> \in Seq(EventSet) /\ <<a, b, c, d>> \in Seq(EventSet)
  OBVIOUS
<1>3. /\ Opening["created"] = << >> /\ Opening["rejected"] = <<Created, Refused>>
      /\ Opening["validated"] = <<Created, Passed>>
      /\ Opening["approved"] = <<Created, Passed, Approved>>
      /\ Opening["rehearsing"] = <<Created, Passed, Approved, Started>>
      /\ Opening["completed"] = <<Created, Passed, Approved, Started>>
  BY DEF Opening
<1>4. \A s \in {"created", "rejected", "validated", "approved", "rehearsing", "completed"} :
        Opening[s] \in Seq(EventSet)
  BY <1>1, <1>2, <1>3, Zenon
<1> QED BY <1>4, StatusNames

LEMMA OpeningGrows ==
  /\ Opening["approved"] = Append(Opening["validated"], Approved)
  /\ Opening["rehearsing"] = Append(Opening["approved"], Started)
  /\ Len(Opening["validated"]) = 2 /\ Len(Opening["approved"]) = 3
BY DEF Opening

\* An opening that is all there was goes on with the next event.
LEMMA OpensNext ==
  ASSUME NEW events \in Seq(EventSet), NEW first \in Seq(EventSet), NEW e \in EventSet,
         Opens(events, first), Len(events) = Len(first)
  PROVE  Opens(events \o <<e>>, Append(first, e))
<1>1. Len(events) \in Nat /\ Len(first) \in Nat
  OBVIOUS
<1>2. \A i \in 1 .. Len(first) : events[i] = first[i]
  BY DEF Opens
<1>3. /\ Len(events \o <<e>>) = Len(first) + 1
      /\ \A i \in 1 .. Len(first) + 1 :
           (events \o <<e>>)[i] = IF i <= Len(first) THEN events[i] ELSE e
  OBVIOUS
<1>4. /\ Len(Append(first, e)) = Len(first) + 1
      /\ \A i \in 1 .. Len(first) + 1 :
           Append(first, e)[i] = IF i <= Len(first) THEN first[i] ELSE e
  OBVIOUS
<1>5. \A i \in 1 .. Len(first) + 1 : (events \o <<e>>)[i] = Append(first, e)[i]
  BY <1>1, <1>2, <1>3, <1>4
<1>6. Len(first) + 1 >= Len(first) + 1
  BY <1>1
<1> QED BY <1>3, <1>4, <1>5, <1>6 DEF Opens

\* A stream that grows opens as it did.
LEMMA OpensStill ==
  ASSUME NEW events \in Seq(EventSet), NEW more \in Seq(EventSet), NEW first \in Seq(EventSet),
         Opens(events, first)
  PROVE  Opens(events \o more, first)
<1>1. /\ Len(events \o more) = Len(events) + Len(more)
      /\ \A i \in 1 .. Len(events) : (events \o more)[i] = events[i]
  BY Joined
<1>2. Len(events) \in Nat /\ Len(more) \in Nat /\ Len(first) \in Nat
  OBVIOUS
<1>3. Len(first) <= Len(events) /\ \A i \in 1 .. Len(first) : events[i] = first[i]
  BY <1>2 DEF Opens
<1>4. \A i \in 1 .. Len(first) : i \in 1 .. Len(events)
  BY <1>2, <1>3
<1> HIDE DEF Opens
<1>5. \A i \in 1 .. Len(first) : (events \o more)[i] = first[i]
  BY <1>1, <1>3, <1>4
<1>6. Len(events \o more) >= Len(first)
  BY <1>1, <1>2, <1>3
<1> QED BY <1>5, <1>6 DEF Opens

LEMMA AdvancedTrail ==
  ASSUME NEW j, Record(j), NEW to, NEW more
  PROVE  Advanced(j, to, more).transitions = Append(j.transitions, <<j.status, to>>)
BY DEF Advanced, Record

\* The trail and the opening grow by one transition and by its events.
LEMMA TrailGrows ==
  /\ Trail["rejected"] = Append(Trail["created"], <<"created", "rejected">>)
  /\ Trail["validated"] = Append(Trail["created"], <<"created", "validated">>)
  /\ Trail["approved"] = Append(Trail["validated"], <<"validated", "approved">>)
  /\ Trail["rehearsing"] = Append(Trail["approved"], <<"approved", "rehearsing">>)
  /\ Trail["completed"] = Append(Trail["rehearsing"], <<"rehearsing", "completed">>)
BY DEF Trail

\* A rehearsal that has only told its opening goes on to the next status.
LEMMA AdvancedTold ==
  ASSUME NEW j, Record(j), Told(j), NEW to \in DOMAIN Trail \ {"completed"}, Legal(j.status, to),
         NEW more \in Seq(EventSet),
         Trail[to] = Append(Trail[j.status], <<j.status, to>>),
         Opens(j.events \o more, Opening[to])
  PROVE  Told(Advanced(j, to, more))
<1> DEFINE k == Advanced(j, to, more)
<1>1. k.status = to /\ k.events = j.events \o more
  <2> HIDE DEF k
  <2>1. AdvancedTo(j, k, to, more)
    BY AdvancedRecord DEF k
  <2> QED BY <2>1 DEF AdvancedTo, Successor
<1>2. k.transitions = Append(j.transitions, <<j.status, to>>)
  BY AdvancedTrail
<1> HIDE DEF k
<1>3. k.transitions = Trail[k.status] /\ k.status # "completed"
  BY <1>1, <1>2 DEF Told
<1> QED BY <1>1, <1>3 DEF Told, k

\* A record that only grew by events tells what it told.
LEMMA GrownTold ==
  ASSUME NEW j, NEW k, Record(j), Told(j), NEW more \in Seq(EventSet),
         k.status = j.status, k.transitions = j.transitions, k.events = j.events \o more
  PROVE  Told(k)
<1>1. j.events \in Seq(EventSet) /\ Opening[j.status] \in Seq(EventSet) /\ j.status \in DOMAIN Trail
  BY OpeningIsEvents DEF Record, Told
<1>2. Opens(k.events, Opening[k.status])
  BY <1>1, OpensStill DEF Told
<1>3. k.status = "completed" => \E i \in 1 .. Len(k.events) : k.events[i] = Completed
  <2> SUFFICES ASSUME j.status = "completed"
               PROVE  \E i \in 1 .. Len(k.events) : k.events[i] = Completed
    OBVIOUS
  <2>1. PICK i \in 1 .. Len(j.events) : j.events[i] = Completed
    BY DEF Told
  <2>2. /\ Len(k.events) = Len(j.events) + Len(more)
        /\ k.events[i] = j.events[i]
    BY <1>1, Joined
  <2>3. Len(j.events) \in Nat /\ Len(more) \in Nat
    BY <1>1
  <2>4. i \in 1 .. Len(k.events)
    BY <2>2, <2>3
  <2> QED BY <2>1, <2>2, <2>4
<1> QED BY <1>1, <1>2, <1>3 DEF Told

\* What a step that leaves the bundle alone has to show.
LEMMA StoryInMemory ==
  ASSUME StoryInv, UNCHANGED bundle, phase' \in Phases \ {"idle"},
         Told(job'), job'.status \in StatusIn[phase'],
         phase' = "open" => job'.decision = ReviewPlan(job'.plan, job'.codes),
         phase' \in {"supervise", "terminate", "enter", "visit", "write", "fill"} => Judged(job')
  PROVE  StoryInv'
<1>1. Stored("rehearsal-audit")' = Stored("rehearsal-audit") /\ Audit' = Audit
  BY DEF Stored, Audit
<1> QED BY <1>1 DEF StoryInv

LEMMA StoryLoad == ASSUME RInv, StoryInv, NEW m \in Missions, Load(m) PROVE StoryInv'
<1>1. /\ job'.status = "created" /\ job'.transitions = << >> /\ job'.events = << >>
      /\ phase' = "validate" /\ UNCHANGED bundle
  BY DEF Load
<1>2. Opens(job'.events, Opening["created"])
  BY <1>1 DEF Opens, Opening
<1>3. Told(job')
  BY <1>1, <1>2, StatusNames DEF Told, Trail
<1> QED BY <1>1, <1>3, StoryInMemory DEF StatusIn, Phases, RunPhase

LEMMA StoryVerdicts == ASSUME RInv, StoryInv, Validate \/ Review PROVE StoryInv'
<1>1. Record(job) /\ Told(job) /\ job.status = "created" /\ job.events = << >>
  BY DEF Validate, Review, RInv, PhaseInv, StoryInv, StatusIn
<1>2. CASE Validate
  <2>1. /\ phase' = "review" /\ UNCHANGED bundle
        /\ job'.status = job.status /\ job'.transitions = job.transitions
        /\ job'.events = job.events
    BY <1>1, <1>2 DEF Validate, Record
  <2>2. Told(job')
    BY <1>1, <2>1 DEF Told
  <2> QED BY <1>1, <2>1, <2>2, StoryInMemory DEF StatusIn, Phases, RunPhase
<1>3. CASE Review
  <2>1. /\ phase' = "open" /\ UNCHANGED bundle
        /\ job'.status = job.status /\ job'.transitions = job.transitions
        /\ job'.events = job.events
        /\ job'.decision = ReviewPlan(job'.plan, job'.codes)
    BY <1>1, <1>3 DEF Review, Record
  <2>2. Told(job')
    BY <1>1, <2>1 DEF Told
  <2> QED BY <1>1, <2>1, <2>2, StoryInMemory DEF StatusIn, Phases, RunPhase
<1> QED BY <1>2, <1>3

LEMMA StoryOpen ==
  ASSUME RInv, StoryInv, OpenValidated \/ OpenRejected PROVE StoryInv'
<1>1. PICK to \in {"validated", "rejected"} :
        OpenRehearsal(to) /\ (to = "rejected") = (job.codes # {})
  BY DEF OpenValidated, OpenRejected
<1> DEFINE more == <<Event("mission", "created", 0), ValidationEvent(job.codes)>>
<1>2. /\ phase = "open" /\ Legal(job.status, to) /\ phase' = "supervise"
      /\ job' = Advanced(job, to, more) /\ UNCHANGED bundle
  BY <1>1 DEF OpenRehearsal
<1>3. /\ Record(job) /\ Told(job) /\ job.events = << >> /\ job.status = "created"
      /\ job.codes = ValidatePlan(job.plan) /\ job.decision = ReviewPlan(job.plan, job.codes)
  BY <1>2 DEF RInv, PhaseInv, StoryInv, StatusIn
<1>4. /\ ValidationEvent(job.codes) = IF to = "validated" THEN Passed ELSE Refused
      /\ Event("mission", "created", 0) = Created
  BY <1>1 DEF ValidationEvent, Passed, Refused, Created
<1>5. more \in Seq(EventSet) /\ Len(more) = 2 /\ more[1] = Created
      /\ more[2] = IF to = "validated" THEN Passed ELSE Refused
  BY <1>4 DEF Created, Passed, Refused, Event, EventSet, EventType, Subtype
<1> HIDE DEF more
<1>6. job.events \o more = more
  BY <1>3, <1>5
<1>7. Opens(job.events \o more, Opening[to])
  <2>1. \A e : Opens(more, <<more[1], e>>) <=> more[2] = e
    BY <1>5 DEF Opens
  <2>2. Opening["validated"] = <<Created, Passed>> /\ Opening["rejected"] = <<Created, Refused>>
    BY DEF Opening
  <2>3. Opening[to] = <<more[1], more[2]>>
    BY <1>1, <1>5, <2>2
  <2> QED BY <1>6, <2>1, <2>3
<1>8. to \in DOMAIN Trail \ {"completed"} /\ Trail[to] = Append(Trail[job.status], <<job.status, to>>)
  BY <1>1, <1>3, StatusNames, TrailGrows
<1>9. Told(job')
  BY <1>2, <1>3, <1>5, <1>7, <1>8, AdvancedTold
<1>10. AdvancedTo(job, job', to, more)
  BY <1>2, <1>3, <1>5, AdvancedRecord
<1>11. Judged(job')
  <2>1. /\ job'.plan = job.plan /\ job'.codes = job.codes /\ job'.decision = job.decision
        /\ job'.status = to
    BY <1>10 DEF AdvancedTo, Successor
  <2> QED BY <1>1, <1>3, <2>1 DEF Judged
<1>12. job'.status = to BY <1>10 DEF AdvancedTo
<1> QED BY <1>1, <1>2, <1>9, <1>11, <1>12, StoryInMemory DEF StatusIn, Phases, RunPhase

LEMMA StorySupervise ==
  ASSUME RInv, StoryInv, SuperviseRejected \/ SuperviseApproved PROVE StoryInv'
<1>1. phase = "supervise" /\ UNCHANGED bundle
  BY DEF SuperviseRejected, SuperviseApproved
<1>2. /\ Record(job) /\ Told(job) /\ Judged(job) /\ Len(job.events) = 2
      /\ job.status \in {"validated", "rejected"} /\ job.decision.status \in Verdict
  BY <1>1 DEF RInv, PhaseInv, StoryInv, StatusIn
<1> DEFINE more == <<SupervisorEvent>>
<1>3. SupervisorEvent \in EventSet /\ more \in Seq(EventSet)
  BY <1>2 DEF SupervisorEvent, Event, EventSet, EventType, Subtype, Verdict
<1>4. CASE SuperviseRejected
  <2>1. Append(job.events, SupervisorEvent) = job.events \o more
    BY <1>2, <1>3 DEF Record
  <2>2. /\ phase' = "terminate" /\ job.status = "rejected"
        /\ job' = [job EXCEPT !.events = job.events \o more]
    BY <1>4, <2>1 DEF SuperviseRejected
  <2> HIDE DEF more
  <2>3. /\ job'.status = job.status /\ job'.transitions = job.transitions
        /\ job'.events = job.events \o more /\ job'.plan = job.plan
        /\ job'.codes = job.codes /\ job'.decision = job.decision
    BY <1>2, <2>2 DEF Record
  <2>4. Told(job')
    BY <1>2, <1>3, <2>3, GrownTold
  <2>5. Judged(job')
    BY <1>2, <2>3 DEF Judged
  <2> QED BY <1>1, <2>2, <2>3, <2>4, <2>5, StoryInMemory DEF StatusIn, Phases, RunPhase
<1>5. CASE SuperviseApproved
  <2>1. /\ job.status = "validated" /\ job.decision.status = "approved"
        /\ Legal(job.status, "approved") /\ phase' = "enter"
        /\ job' = Advanced(job, "approved", more)
    BY <1>2, <1>5 DEF SuperviseApproved
  <2>2. SupervisorEvent = Approved
    BY <2>1 DEF SupervisorEvent, Approved
  <2>3. Opens(job.events \o <<Approved>>, Append(Opening["validated"], Approved))
    BY <1>2, <1>3, <2>1, <2>2, OpensNext, OpeningGrows, OpeningIsEvents DEF Told, Record
  <2>4. Opens(job.events \o more, Opening["approved"])
    BY <2>2, <2>3, OpeningGrows
  <2> HIDE DEF more
  <2>5. AdvancedTo(job, job', "approved", more)
    BY <1>2, <1>3, <2>1, AdvancedRecord
  <2>6. Told(job')
    <3>1. /\ "approved" \in DOMAIN Trail \ {"completed"}
          /\ Trail["approved"] = Append(Trail[job.status], <<job.status, "approved">>)
      BY <2>1, StatusNames, TrailGrows
    <3> QED BY <1>2, <1>3, <2>1, <2>4, <3>1, AdvancedTold
  <2>7. Judged(job') /\ job'.status = "approved"
    BY <1>2, <2>1, <2>5 DEF Judged, AdvancedTo, Successor
  <2> QED BY <1>1, <2>1, <2>6, <2>7, StoryInMemory DEF StatusIn, Phases, RunPhase
<1> QED BY <1>4, <1>5

LEMMA StoryEnter == ASSUME RInv, StoryInv, EnterRehearsing PROVE StoryInv'
<1> DEFINE more == <<Started>>
<1>1. /\ phase = "enter" /\ phase' = "visit" /\ UNCHANGED bundle
      /\ Legal(job.status, "rehearsing") /\ job' = Advanced(job, "rehearsing", more)
  BY DEF EnterRehearsing, Started
<1>2. /\ Record(job) /\ Told(job) /\ Judged(job) /\ Len(job.events) = 3
      /\ job.status = "approved"
  BY <1>1 DEF RInv, PhaseInv, StoryInv, StatusIn
<1>3. Started \in EventSet /\ more \in Seq(EventSet)
  BY DEF Started, Event, EventSet, EventType, Subtype
<1>4. Opens(job.events \o more, Opening["rehearsing"])
  BY <1>2, <1>3, OpensNext, OpeningGrows, OpeningIsEvents DEF Told, Record
<1> HIDE DEF more
<1>5. Told(job')
  <2>1. /\ "rehearsing" \in DOMAIN Trail \ {"completed"}
        /\ Trail["rehearsing"] = Append(Trail[job.status], <<job.status, "rehearsing">>)
    BY <1>2, StatusNames, TrailGrows
  <2> QED BY <1>1, <1>2, <1>3, <1>4, <2>1, AdvancedTold
<1>6. AdvancedTo(job, job', "rehearsing", more)
  BY <1>1, <1>2, <1>3, AdvancedRecord
<1>7. Judged(job') /\ job'.status = "rehearsing"
  BY <1>2, <1>6 DEF Judged, AdvancedTo, Successor
<1> QED BY <1>1, <1>5, <1>7, StoryInMemory DEF StatusIn, Phases, RunPhase

LEMMA StoryVisit == ASSUME RInv, StoryInv, Visit PROVE StoryInv'
<1> DEFINE kind == job.plan.waypoints[job.next].kind
           more == WaypointEvents(kind, job.next)
<1>1. /\ phase = "visit" /\ phase' = "visit" /\ UNCHANGED bundle
      /\ job' = [job EXCEPT !.next = job.next + 1, !.events = job.events \o more]
  BY DEF Visit
<1>2. Record(job) /\ Told(job) /\ Judged(job) /\ job.status = "rehearsing" /\ job.next \in Int
  BY <1>1 DEF RInv, StoryInv, StatusIn, Record
<1>3. more \in Seq(EventSet)
  <2>1. CASE kind \in MovingKind
    BY <1>2, <2>1 DEF WaypointEvents, Event, EventSet, EventType, Subtype
  <2>2. CASE kind \notin MovingKind
    BY <1>2, <2>2 DEF WaypointEvents, Event, EventSet, EventType, Subtype
  <2> QED BY <2>1, <2>2
<1> HIDE DEF more
<1>4. /\ job'.status = job.status /\ job'.transitions = job.transitions
      /\ job'.events = job.events \o more /\ job'.plan = job.plan
      /\ job'.codes = job.codes /\ job'.decision = job.decision
  BY <1>1, <1>2 DEF Record
<1>5. Told(job')
  BY <1>2, <1>3, <1>4, GrownTold
<1>6. Judged(job')
  BY <1>2, <1>4 DEF Judged
<1> QED BY <1>1, <1>2, <1>4, <1>5, <1>6, StoryInMemory DEF StatusIn, Phases, RunPhase

LEMMA StoryComplete == ASSUME RInv, StoryInv, Complete PROVE StoryInv'
<1> DEFINE more == <<Completed>>
<1>1. /\ phase = "visit" /\ phase' = "write" /\ UNCHANGED bundle
      /\ Legal(job.status, "completed") /\ job' = Advanced(job, "completed", more)
  BY DEF Complete, Report, Completed
<1>2. Record(job) /\ Told(job) /\ Judged(job) /\ job.status = "rehearsing"
  BY <1>1 DEF RInv, StoryInv, StatusIn
<1>3. Completed \in EventSet /\ more \in Seq(EventSet) /\ Len(more) = 1 /\ more[1] = Completed
  BY DEF Completed, Event, EventSet, EventType, Subtype
<1> HIDE DEF more
<1>4. AdvancedTo(job, job', "completed", more)
  BY <1>1, <1>2, <1>3, AdvancedRecord
<1>5. job'.transitions = Append(job.transitions, <<job.status, "completed">>)
  BY <1>1, <1>2, AdvancedTrail
<1>6. job'.transitions = Trail["completed"]
  BY <1>2, <1>5, TrailGrows DEF Told
<1>7. job'.status = "completed" /\ job'.events = job.events \o more
  BY <1>4 DEF AdvancedTo, Successor
<1>8. Opens(job'.events, Opening["completed"])
  <2>1. Opening["completed"] = Opening["rehearsing"]
    BY DEF Opening
  <2>2. Opens(job.events, Opening["rehearsing"]) /\ job.events \in Seq(EventSet)
    BY <1>2 DEF Told, Record
  <2>3. Opening["rehearsing"] \in Seq(EventSet)
    BY StatusNames, OpeningIsEvents
  <2> QED BY <1>3, <1>7, <2>1, <2>2, <2>3, OpensStill
<1>9. \E i \in 1 .. Len(job'.events) : job'.events[i] = Completed
  <2>1. job.events \in Seq(EventSet) /\ Len(job.events) \in Nat
    BY <1>2 DEF Record
  <2>2. /\ Len(job'.events) = Len(job.events) + 1
        /\ job'.events[Len(job.events) + 1] = Completed
    BY <1>3, <1>7, <2>1, Joined
  <2>3. Len(job.events) + 1 \in 1 .. Len(job'.events)
    BY <2>1, <2>2
  <2> QED BY <2>2, <2>3
<1>10. Told(job')
  BY <1>6, <1>7, <1>8, <1>9, StatusNames DEF Told
<1>11. Judged(job')
  BY <1>2, <1>4 DEF Judged, AdvancedTo, Successor
<1> QED BY <1>1, <1>7, <1>10, <1>11, StoryInMemory DEF StatusIn, Phases, RunPhase

LEMMA StoryTerminate == ASSUME RInv, StoryInv, TerminateEarly PROVE StoryInv'
<1> DEFINE more == <<Event("audit", "rehearsal_terminated_early", 0)>>
<1>1. Event("audit", "rehearsal_terminated_early", 0) \in EventSet /\ more \in Seq(EventSet)
  BY DEF Event, EventSet, EventType, Subtype
<1>2. /\ phase = "terminate" /\ phase' = "write" /\ UNCHANGED bundle
      /\ Record(job) /\ Told(job) /\ Judged(job) /\ job.status = "rejected"
  BY DEF TerminateEarly, Report, RInv, StoryInv, StatusIn
<1>3. Append(job.events, Event("audit", "rehearsal_terminated_early", 0)) = job.events \o more
  BY <1>1, <1>2 DEF Record
<1>4. job' = [job EXCEPT !.events = job.events \o more]
  BY <1>3 DEF TerminateEarly, Report
<1> HIDE DEF more
<1>5. /\ job'.status = job.status /\ job'.transitions = job.transitions
      /\ job'.events = job.events \o more /\ job'.plan = job.plan
      /\ job'.codes = job.codes /\ job'.decision = job.decision
  BY <1>2, <1>4 DEF Record
<1>6. Told(job')
  BY <1>1, <1>2, <1>5, GrownTold
<1>7. Judged(job')
  BY <1>2, <1>5 DEF Judged
<1> QED BY <1>2, <1>5, <1>6, <1>7, StoryInMemory DEF StatusIn, Phases, RunPhase

\* Writing, a later tool and a death leave a record that has ended as it is.
LEMMA StoryOnDisk ==
  ASSUME RInv, StoryInv, Truncate \/ Fill \/ Regenerate \/ Die PROVE StoryInv'
<1>1. phase \in {"write", "fill"} => Ended(job)
  BY DEF StoryInv, StatusIn, Ended
<1>2. /\ phase' \in {"write", "fill", "idle"}
      /\ phase' # "idle" => Ended(job')
  <2>1. CASE Truncate BY <1>1, <2>1 DEF Truncate
  <2>2. CASE Fill BY <1>1, <2>2 DEF Fill
  <2>3. CASE Regenerate BY <2>3 DEF Regenerate, StoryInv
  <2>4. CASE Die BY <2>4 DEF Die
  <2> QED BY <2>1, <2>2, <2>3, <2>4
<1>3. Stored("rehearsal-audit")' => Ended(Audit')
  <2>1. CASE Truncate
    <3>1. bundle' = [bundle EXCEPT ![Head(todo)] = Torn]
      BY <2>1 DEF Truncate
    <3>2. CASE Head(todo) = "rehearsal-audit"
      BY <3>1, <3>2, FileFacts DEF RInv, Stored, Torn
    <3>3. CASE Head(todo) # "rehearsal-audit"
      <4>1. bundle'["rehearsal-audit"] = bundle["rehearsal-audit"]
        BY <3>1, <3>3, FileFacts DEF RInv
      <4> QED BY <4>1 DEF Stored, Audit, StoryInv
    <3> QED BY <3>2, <3>3
  <2>2. CASE Fill
    <3>1. /\ bundle' = [bundle EXCEPT ![Head(todo)] = Whole(Content(Head(todo), job))]
          /\ Ended(job)
      BY <1>1, <2>2 DEF Fill
    <3>2. CASE Head(todo) = "rehearsal-audit"
      <4>1. bundle'["rehearsal-audit"] = Whole(job)
        BY <3>1, <3>2, FileFacts, AuditContent DEF RInv
      <4> QED BY <3>1, <4>1 DEF Audit, Whole
    <3>3. CASE Head(todo) # "rehearsal-audit"
      <4>1. bundle'["rehearsal-audit"] = bundle["rehearsal-audit"]
        BY <3>1, <3>3, FileFacts DEF RInv
      <4> QED BY <4>1 DEF Stored, Audit, StoryInv
    <3> QED BY <3>2, <3>3
  <2>3. CASE Regenerate \/ Die
    <3>1. bundle' = bundle
      BY <2>3 DEF Regenerate, Die
    <3> QED BY <3>1 DEF Stored, Audit, StoryInv
  <2> QED BY <2>1, <2>2, <2>3
<1>4. phase' \in {"write", "fill"} => job'.status \in StatusIn[phase']
  BY <1>2 DEF Ended, StatusIn
<1> QED BY <1>2, <1>3, <1>4 DEF StoryInv, Ended

LEMMA StoryStep == ASSUME RInv, StoryInv, [RehearsalStep]_rehearsalVars PROVE StoryInv'
<1>1. ASSUME NEW m \in Missions, Load(m) PROVE StoryInv' BY <1>1, StoryLoad
<1>2. CASE Validate \/ Review BY <1>2, StoryVerdicts
<1>3. CASE OpenValidated \/ OpenRejected BY <1>3, StoryOpen
<1>4. CASE SuperviseRejected \/ SuperviseApproved BY <1>4, StorySupervise
<1>5. CASE EnterRehearsing BY <1>5, StoryEnter
<1>6. CASE Visit BY <1>6, StoryVisit
<1>7. CASE Complete BY <1>7, StoryComplete
<1>8. CASE TerminateEarly BY <1>8, StoryTerminate
<1>9. CASE Truncate \/ Fill \/ Regenerate \/ Die BY <1>9, StoryOnDisk
<1>10. CASE UNCHANGED rehearsalVars
  <2>1. UNCHANGED <<phase, job, bundle>>
    BY <1>10 DEF rehearsalVars
  <2> QED BY <2>1 DEF StoryInv, Stored, Audit
<1> QED BY <1>1, <1>2, <1>3, <1>4, <1>5, <1>6, <1>7, <1>8, <1>9, <1>10 DEF RehearsalStep

LEMMA StoryInvariant == RehearsalSpec => []StoryInv
<1>1. RehearsalInit => StoryInv
  <2> SUFFICES ASSUME RehearsalInit PROVE StoryInv
    OBVIOUS
  <2>1. phase = "idle" /\ bundle = [f \in File |-> Absent]
    BY DEF RehearsalInit
  <2>2. ~Stored("rehearsal-audit")
    BY <2>1, FileFacts DEF Stored, Absent
  <2> QED BY <2>1, <2>2 DEF StoryInv
<1> QED BY <1>1, StoryStep, RehearsalInvariant, PTL DEF RehearsalSpec


\* Where the first event of a kind is in a stream, 0 when there is none.
PlaceOf(events, e) == SelectInSeq(events, LAMBDA x : x = e)

LEMMA SmallestExists ==
  ASSUME NEW T \in SUBSET Nat, T # {}
  PROVE  \E x \in T : \A y \in T : x <= y
<1> DEFINE R == {ss \in Nat \X Nat : ss[1] < ss[2]}
<1>1. IsWellFoundedOn(R, Nat)
  BY NatLessThanWellFounded DEF OpToRel
<1>2. PICK x \in T : \A y \in T : <<y, x>> \notin R
  <2> HIDE DEF R
  <2> QED BY <1>1, WFMin
<1>3. \A y \in T : ~(y < x)
  BY <1>2
<1> QED BY <1>3

\* The first place of an event that is in a stream.
LEMMA FirstPlace ==
  ASSUME NEW events \in Seq(EventSet), NEW e, NEW h \in 1 .. Len(events), events[h] = e
  PROVE  PlaceOf(events, e) \in 1 .. h /\ events[PlaceOf(events, e)] = e
<1> DEFINE I == {i \in 1 .. Len(events) : events[i] = e}
<1>1. h \in I /\ I \in SUBSET Nat /\ I # {}
  OBVIOUS
<1>2. \E x \in I : \A y \in I : x <= y
  <2> HIDE DEF I
  <2> QED BY <1>1, SmallestExists
<1>3. PlaceOf(events, e) = CHOOSE x \in I : \A y \in I : x =< y
  BY <1>1 DEF PlaceOf, SelectInSeq, Min
<1>4. PlaceOf(events, e) \in I /\ \A y \in I : PlaceOf(events, e) <= y
  BY <1>2, <1>3
<1>5. \A p \in I : p <= h => p \in 1 .. h /\ events[p] = e
  OBVIOUS
<1> QED BY <1>1, <1>4, <1>5, Zenon

\* Where the first event of a kind is when the opening has it at place h and not
\* before.
LEMMA PlaceInOpening ==
  ASSUME NEW events \in Seq(EventSet), NEW first \in Seq(EventSet), Opens(events, first),
         NEW h \in 1 .. Len(first), \A i \in 1 .. h : first[i] = first[h] => i = h
  PROVE  PlaceOf(events, first[h]) = h
<1>1. h \in 1 .. Len(events) /\ \A i \in 1 .. h : events[i] = first[i]
  BY DEF Opens
<1>2. events[h] = first[h]
  BY <1>1
<1>3. PlaceOf(events, first[h]) \in 1 .. h /\ events[PlaceOf(events, first[h])] = first[h]
  BY <1>1, <1>2, FirstPlace
<1>4. \A i \in 1 .. h : events[i] = first[h] => i = h
  BY <1>1
<1> QED BY <1>3, <1>4, Zenon

LEMMA EventsDiffer ==
  /\ Created # Refused /\ Created # Passed /\ Created # Approved /\ Created # Started
  /\ Created # Completed /\ Passed # Approved /\ Passed # Started /\ Passed # Completed
  /\ Approved # Started /\ Approved # Completed /\ Started # Completed
  /\ Refused # Completed
BY DEF Created, Refused, Passed, Approved, Started, Completed, Event

\* What the openings and the trails hold.
LEMMA OpeningValues ==
  /\ Opening["created"] = << >> /\ Opening["rejected"] = <<Created, Refused>>
  /\ Opening["validated"] = <<Created, Passed>>
  /\ Opening["approved"] = <<Created, Passed, Approved>>
  /\ Opening["rehearsing"] = <<Created, Passed, Approved, Started>>
  /\ Opening["completed"] = <<Created, Passed, Approved, Started>>
BY DEF Opening

LEMMA TrailValues ==
  /\ Trail["created"] = << >> /\ Trail["rejected"] = << <<"created", "rejected">> >>
  /\ Trail["validated"] = << <<"created", "validated">> >>
  /\ Trail["approved"] = << <<"created", "validated">>, <<"validated", "approved">> >>
  /\ Trail["rehearsing"] = << <<"created", "validated">>, <<"validated", "approved">>,
                              <<"approved", "rehearsing">> >>
  /\ Trail["completed"] = << <<"created", "validated">>, <<"validated", "approved">>,
                             <<"approved", "rehearsing">>, <<"rehearsing", "completed">> >>
BY DEF Trail

LEMMA MarkValues ==
  /\ Mark(<<"created", "validated">>) = Passed /\ Mark(<<"created", "rejected">>) = Refused
  /\ Mark(<<"validated", "approved">>) = Approved
  /\ Mark(<<"approved", "rehearsing">>) = Started
  /\ Mark(<<"rehearsing", "completed">>) = Completed
BY DEF Mark, Passed, Refused, Approved, Started, Completed

\* An opening repeats no event and does not have the completion.
LEMMA OpeningDiffers ==
  ASSUME NEW s \in DOMAIN Trail
  PROVE  /\ \A i, j \in 1 .. Len(Opening[s]) : Opening[s][i] = Opening[s][j] => i = j
         /\ \A i \in 1 .. Len(Opening[s]) : Opening[s][i] # Completed
<1> DEFINE Clean(first) ==
      /\ \A i, j \in 1 .. Len(first) : first[i] = first[j] => i = j
      /\ \A i \in 1 .. Len(first) : first[i] # Completed
<1>1. Clean(<< >>)
  OBVIOUS
<1>2. \A a, b : a # b /\ a # Completed /\ b # Completed => Clean(<<a, b>>)
  OBVIOUS
<1>3. ASSUME NEW a, NEW b, NEW c, a # b, a # c, b # c,
             a # Completed, b # Completed, c # Completed
      PROVE  Clean(<<a, b, c>>)
  <2> DEFINE q == <<a, b, c>>
  <2>1. Len(q) = 3 /\ q[1] = a /\ q[2] = b /\ q[3] = c
    OBVIOUS
  <2> HIDE DEF q
  <2>2. \A i, j \in {1, 2, 3} : q[i] = q[j] => i = j
    BY <1>3, <2>1
  <2>3. \A i \in {1, 2, 3} : q[i] # Completed
    BY <1>3, <2>1
  <2>4. 1 .. Len(q) = {1, 2, 3}
    BY <2>1
  <2>5. Clean(q)
    BY <2>2, <2>3, <2>4
  <2> QED BY <2>5 DEF q
<1>4. ASSUME NEW a, NEW b, NEW c, NEW d,
             a # b, a # c, a # d, b # c, b # d, c # d,
             a # Completed, b # Completed, c # Completed, d # Completed
      PROVE  Clean(<<a, b, c, d>>)
  <2> DEFINE q == <<a, b, c, d>>
  <2>1. Len(q) = 4 /\ q[1] = a /\ q[2] = b /\ q[3] = c /\ q[4] = d
    OBVIOUS
  <2> HIDE DEF q
  <2>2. \A i, j \in {1, 2, 3, 4} : q[i] = q[j] => i = j
    BY <1>4, <2>1
  <2>3. \A i \in {1, 2, 3, 4} : q[i] # Completed
    BY <1>4, <2>1
  <2>4. 1 .. Len(q) = {1, 2, 3, 4}
    BY <2>1
  <2>5. Clean(q)
    BY <2>2, <2>3, <2>4
  <2> QED BY <2>5 DEF q
<1> HIDE DEF Clean
<1>5. Clean(<<Created, Refused>>) /\ Clean(<<Created, Passed>>)
  BY <1>2, EventsDiffer, Zenon
<1>6. Clean(<<Created, Passed, Approved>>)
  BY <1>3, EventsDiffer
<1>7. Clean(<<Created, Passed, Approved, Started>>)
  BY <1>4, EventsDiffer
<1>8. Clean(Opening[s])
  BY <1>1, <1>5, <1>6, <1>7, OpeningValues, StatusNames, Zenon
<1> QED BY <1>8 DEF Clean

\* The mark of every transition but the completion has its place in the opening.
LEMMA TrailMarks ==
  ASSUME NEW s \in DOMAIN Trail, NEW i \in DOMAIN Trail[s]
  PROVE  /\ i \in 1 .. 4
         /\ i = 4 => s = "completed" /\ Mark(Trail[s][i]) = Completed /\ Len(Opening[s]) = 4
         /\ i # 4 => i + 1 \in 1 .. Len(Opening[s]) /\ Mark(Trail[s][i]) = Opening[s][i + 1]
<1> DEFINE Marked(name, trail, first) == \A n \in DOMAIN trail :
      /\ n \in 1 .. 4
      /\ n = 4 => name = "completed" /\ Mark(trail[n]) = Completed /\ Len(first) = 4
      /\ n # 4 => n + 1 \in 1 .. Len(first) /\ Mark(trail[n]) = first[n + 1]
<1>1. Marked("created", << >>, << >>)
  OBVIOUS
<1>2. \A name, t, a, b : Mark(t) = b => Marked(name, <<t>>, <<a, b>>)
  OBVIOUS
<1>3. \A name, t, u, a, b, c :
        Mark(t) = b /\ Mark(u) = c => Marked(name, <<t, u>>, <<a, b, c>>)
  OBVIOUS
<1>4. \A name, t, u, v, a, b, c, d :
        Mark(t) = b /\ Mark(u) = c /\ Mark(v) = d => Marked(name, <<t, u, v>>, <<a, b, c, d>>)
  OBVIOUS
<1>5. \A t, u, v, w, a, b, c, d :
        Mark(t) = b /\ Mark(u) = c /\ Mark(v) = d /\ Mark(w) = Completed =>
          Marked("completed", <<t, u, v, w>>, <<a, b, c, d>>)
  OBVIOUS
<1> HIDE DEF Marked
<1>6. /\ Marked("created", Trail["created"], Opening["created"])
      /\ Marked("rejected", Trail["rejected"], Opening["rejected"])
      /\ Marked("validated", Trail["validated"], Opening["validated"])
  BY <1>1, <1>2, MarkValues, TrailValues, OpeningValues, Zenon
<1>7. Marked("approved", Trail["approved"], Opening["approved"])
  BY <1>3, MarkValues, TrailValues, OpeningValues, Zenon
<1>8. Marked("rehearsing", Trail["rehearsing"], Opening["rehearsing"])
  BY <1>4, MarkValues, TrailValues, OpeningValues, Zenon
<1>9. Marked("completed", Trail["completed"], Opening["completed"])
  BY <1>5, MarkValues, TrailValues, OpeningValues, Zenon
<1>10. Marked(s, Trail[s], Opening[s])
  BY <1>6, <1>7, <1>8, <1>9, StatusNames
<1> QED BY <1>10 DEF Marked

\* The places of the marks of a record's transitions.
LEMMA MarksInOrder ==
  ASSUME NEW r, Record(r), Told(r), NEW i \in DOMAIN r.transitions
  PROVE  /\ PlaceOf(r.events, Mark(r.transitions[i])) # 0
         /\ i > 1 => PlaceOf(r.events, Mark(r.transitions[i - 1]))
                       < PlaceOf(r.events, Mark(r.transitions[i]))
<1> DEFINE At(n) == PlaceOf(r.events, Mark(r.transitions[n]))
           first == Opening[r.status]
<1>1. /\ r.events \in Seq(EventSet) /\ r.status \in DOMAIN Trail
      /\ r.transitions = Trail[r.status] /\ first \in Seq(EventSet) /\ Opens(r.events, first)
  BY OpeningIsEvents DEF Record, Told
<1>2. \A n \in DOMAIN r.transitions :
        /\ n \in 1 .. 4
        /\ n = 4 => r.status = "completed" /\ Mark(r.transitions[n]) = Completed /\ Len(first) = 4
        /\ n # 4 => n + 1 \in 1 .. Len(first) /\ Mark(r.transitions[n]) = first[n + 1]
  BY <1>1, TrailMarks
<1>3. \A h \in 1 .. Len(first) : PlaceOf(r.events, first[h]) = h
  <2> SUFFICES ASSUME NEW h \in 1 .. Len(first) PROVE PlaceOf(r.events, first[h]) = h
    OBVIOUS
  <2>1. \A k \in 1 .. h : first[k] = first[h] => k = h
    <3>1. \A k \in 1 .. Len(first) : first[k] = first[h] => k = h
      BY <1>1, OpeningDiffers
    <3>2. Len(first) \in Nat
      BY <1>1
    <3>3. \A k \in 1 .. h : k \in 1 .. Len(first)
      BY <3>2
    <3> QED BY <3>1, <3>3, Zenon
  <2> HIDE DEF first
  <2> QED BY <1>1, <2>1, PlaceInOpening
<1>4. \A n \in DOMAIN r.transitions : n # 4 => At(n) = n + 1
  BY <1>2, <1>3
<1>5. 4 \in DOMAIN r.transitions => At(4) \in Nat /\ At(4) > 4
  <2> SUFFICES ASSUME 4 \in DOMAIN r.transitions PROVE At(4) \in Nat /\ At(4) > 4
    OBVIOUS
  <2>1. r.status = "completed" /\ Mark(r.transitions[4]) = Completed /\ Len(first) = 4
    BY <1>2
  <2>2. PICK h \in 1 .. Len(r.events) : r.events[h] = Completed
    BY <2>1 DEF Told
  <2>3. At(4) \in 1 .. h /\ r.events[At(4)] = Completed
    BY <1>1, <2>1, <2>2, FirstPlace
  <2>4. \A n \in 1 .. 4 : r.events[n] # Completed
    BY <1>1, <2>1, OpeningDiffers DEF Opens
  <2> HIDE DEF At
  <2> QED BY <2>3, <2>4
<1>6. i > 1 => i - 1 \in DOMAIN r.transitions /\ i - 1 # 4
  <2>1. DOMAIN r.transitions = 1 .. Len(r.transitions) /\ Len(r.transitions) \in Nat
    BY <1>1 DEF Record
  <2> QED BY <1>2, <2>1
<1> HIDE DEF At, first
<1>7. At(i) # 0 /\ (i > 1 => At(i - 1) < At(i))
  BY <1>2, <1>4, <1>5, <1>6
<1> QED BY <1>7 DEF At

\* A told record's transitions lead to its status.
LEMMA TrailsArePaths ==
  ASSUME NEW s \in DOMAIN Trail
  PROVE  /\ s = IF Trail[s] = << >> THEN "created" ELSE Trail[s][Len(Trail[s])][2]
         /\ \A i \in DOMAIN Trail[s] :
              Trail[s][i][1] = IF i = 1 THEN "created" ELSE Trail[s][i - 1][2]
<1> DEFINE Path(name, trail) ==
      /\ name = IF trail = << >> THEN "created" ELSE trail[Len(trail)][2]
      /\ \A i \in DOMAIN trail : trail[i][1] = IF i = 1 THEN "created" ELSE trail[i - 1][2]
<1>1. Path("created", Trail["created"])
  BY TrailValues
<1>2. Path("rejected", Trail["rejected"]) /\ Path("validated", Trail["validated"])
  BY TrailValues
<1>3. Path("approved", Trail["approved"])
  BY TrailValues
<1>4. Path("rehearsing", Trail["rehearsing"])
  BY TrailValues
<1>5. Path("completed", Trail["completed"])
  BY TrailValues
<1> HIDE DEF Path
<1>6. Path(s, Trail[s])
  BY <1>1, <1>2, <1>3, <1>4, <1>5, StatusNames
<1> QED BY <1>6 DEF Path

(* Every state transition becomes an event in the audit bundle                  *)
(* (MISSION_REHEARSAL_STATE_MACHINE.md, rehearsal_runtime.py): for every set of *)
(* mission files and wherever a tool dies, the transitions of a record form a   *)
(* path to its status, and their events come in the same order.                 *)
THEOREM StoryIsTold == RehearsalSpec => []TransitionsAreEvents
<1>1. ASSUME NEW r, Record(r), Told(r)
      PROVE  /\ r.status = IF r.transitions = << >> THEN "created" ELSE Last(r.transitions)[2]
             /\ \A i \in DOMAIN r.transitions :
                  /\ r.transitions[i][1] = IF i = 1 THEN "created" ELSE r.transitions[i - 1][2]
                  /\ PlaceOf(r.events, Mark(r.transitions[i])) # 0
                  /\ i > 1 => PlaceOf(r.events, Mark(r.transitions[i - 1]))
                                < PlaceOf(r.events, Mark(r.transitions[i]))
  <2>1. r.status \in DOMAIN Trail /\ r.transitions = Trail[r.status]
    BY <1>1 DEF Told
  <2>2. /\ r.status = IF r.transitions = << >> THEN "created"
                      ELSE r.transitions[Len(r.transitions)][2]
        /\ \A i \in DOMAIN r.transitions :
             r.transitions[i][1] = IF i = 1 THEN "created" ELSE r.transitions[i - 1][2]
    BY <2>1, TrailsArePaths
  <2>3. \A i \in DOMAIN r.transitions :
          /\ PlaceOf(r.events, Mark(r.transitions[i])) # 0
          /\ i > 1 => PlaceOf(r.events, Mark(r.transitions[i - 1]))
                        < PlaceOf(r.events, Mark(r.transitions[i]))
    BY <1>1, MarksInOrder
  <2> QED BY <2>2, <2>3 DEF Last
<1>2. ASSUME NEW r, Record(r), Told(r)
      PROVE  \A i \in DOMAIN r.transitions : i > 1 => i - 1 \in DOMAIN r.transitions
  <2>1. DOMAIN r.transitions = 1 .. Len(r.transitions) /\ Len(r.transitions) \in Nat
    <3>1. \A s \in DOMAIN Trail :
            DOMAIN Trail[s] = 1 .. Len(Trail[s]) /\ Len(Trail[s]) \in Nat
      BY StatusNames, TrailValues
    <3> QED BY <1>2, <3>1 DEF Told
  <2> QED BY <2>1
<1>3. RInv /\ StoryInv => \A r \in Records : Record(r) /\ Told(r)
  BY DEF Records, RInv, StoryInv, Ended
<1>4. RInv /\ StoryInv => TransitionsAreEvents
  <2> SUFFICES ASSUME RInv, StoryInv, NEW r \in Records
               PROVE  LET t == r.transitions
                          place == [i \in DOMAIN t |-> PlaceOf(r.events, Mark(t[i]))]
                      IN /\ r.status = IF t = << >> THEN "created" ELSE Last(t)[2]
                         /\ \A i \in DOMAIN t :
                              /\ t[i][1] = IF i = 1 THEN "created" ELSE t[i - 1][2]
                              /\ place[i] # 0
                              /\ i > 1 => place[i - 1] < place[i]
    BY DEF TransitionsAreEvents, PlaceOf
  <2> DEFINE t == r.transitions
             place == [i \in DOMAIN t |-> PlaceOf(r.events, Mark(t[i]))]
  <2>1. Record(r) /\ Told(r)
    BY <1>3
  <2>2. \A i \in DOMAIN t : /\ place[i] = PlaceOf(r.events, Mark(t[i]))
                            /\ i > 1 => place[i - 1] = PlaceOf(r.events, Mark(t[i - 1]))
    BY <1>2, <2>1
  <2> HIDE DEF place
  <2>3. \A i \in DOMAIN t : place[i] # 0 /\ (i > 1 => place[i - 1] < place[i])
    BY <1>1, <2>1, <2>2
  <2> QED BY <1>1, <2>1, <2>3 DEF place
<1> QED BY <1>3, <1>4, StoryInvariant, RehearsalInvariant, PTL

(* The replay, the analytics and a later validation agree with the outcome of   *)
(* the stored audit (rehearsal_analytics.py, rehearsal_replay.py,               *)
(* rehearsal_validator.py): for every set of mission files and wherever a tool  *)
(* dies.                                                                        *)
THEOREM OutcomeAgrees == RehearsalSpec => []OutcomeIsTold
<1>1. ASSUME NEW a, Ended(a)
      PROVE  /\ Revalidated(a) => a.status = "completed"
             /\ a.status = "completed" /\ ValidateRequest(a.request) = {} => Revalidated(a)
             /\ AnalyticsOf(a).completed = (a.status = "completed")
             /\ AnalyticsOf(a).approved = (a.status = "completed")
             /\ AnalyticsOf(a).rejected = ~(a.status = "completed")
             /\ (ReplayBundle(a).review = "passed") = (a.status = "completed")
             /\ (FinalSafety(a) = "unsafe_rejected") = ~(a.status = "completed")
  <2>1. /\ a.codes = ValidatePlan(a.plan) /\ a.decision = ReviewPlan(a.plan, a.codes)
        /\ a.status \in {"completed", "rejected"} /\ (a.status = "rejected") = (a.codes # {})
        /\ a.status = "completed" => a.decision.status = "approved"
    BY <1>1 DEF Ended, Judged
  <2>2. a.codes # {} => a.decision.status = "rejected"
    <3>1. \A plan, codes : codes # {} => ReviewPlan(plan, codes).status = "rejected"
      BY DEF ReviewPlan
    <3> QED BY <2>1, <3>1
  <2>3. CASE a.status = "completed"
    <3>1. a.codes = {} /\ a.decision.status = "approved"
      BY <2>1, <2>3
    <3>2. ValidateRequest(a.request) = {} => Revalidated(a)
      BY <2>1, <3>1 DEF Revalidated
    <3>3. AnalyticsOf(a).completed /\ AnalyticsOf(a).approved /\ ~AnalyticsOf(a).rejected
      BY <2>3, <3>1 DEF AnalyticsOf
    <3>4. ReplayBundle(a).review = "passed"
      BY <2>3 DEF ReplayBundle
    <3>5. FinalSafety(a) # "unsafe_rejected"
      BY <2>3 DEF FinalSafety
    <3> QED BY <2>3, <3>2, <3>3, <3>4, <3>5 DEF AnalyticsOf
  <2>4. CASE a.status = "rejected"
    <3>1. a.codes # {} /\ a.decision.status = "rejected"
      BY <2>1, <2>2, <2>4
    <3>2. ~Revalidated(a)
      BY <2>1, <3>1 DEF Revalidated
    <3>3. ~AnalyticsOf(a).completed /\ ~AnalyticsOf(a).approved /\ AnalyticsOf(a).rejected
      BY <2>4, <3>1 DEF AnalyticsOf
    <3>4. ReplayBundle(a).review = "rejected"
      BY <2>4 DEF ReplayBundle
    <3>5. FinalSafety(a) = "unsafe_rejected"
      BY <2>4 DEF FinalSafety
    <3> QED BY <2>4, <3>2, <3>3, <3>4, <3>5 DEF AnalyticsOf
  <2> QED BY <2>1, <2>3, <2>4
<1>2. StoryInv => OutcomeIsTold
  BY <1>1 DEF StoryInv, OutcomeIsTold
<1> QED BY <1>2, StoryInvariant, PTL
===============================================================================
