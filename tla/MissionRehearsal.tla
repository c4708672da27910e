--------------------------- MODULE MissionRehearsal ---------------------------
(***************************************************************************)
(* The mission rehearsal tools: run_mission_rehearsal takes a mission file *)
(* through plan, validator, supervisor and the simulated run, and writes   *)
(* the audit bundle file by file; generate_rehearsal_replay writes three   *)
(* of these files again from the stored audit; validate_mission_rehearsal  *)
(* judges the stored audit anew.                                           *)
(*                                                                         *)
(* The tools run one at a time on one bundle directory, and each may die   *)
(* between any two steps and inside a write, which truncates the file      *)
(* before it fills it.                                                     *)
(***************************************************************************)
EXTENDS RehearsalRules

CONSTANTS
  Missions,      \* the mission files an operator has
  MaxRehearsals  \* bound: tools started on the directory

ASSUME RehearsalAssumption == MaxRehearsals \in Nat

VARIABLES
  phase,   \* what the running tool is doing; "idle" when none runs
  job,     \* what it holds in memory
  todo,    \* the files it has still to write
  bundle,  \* the bundle directory: what is in each file
  unsure,  \* history: the files a tool set out to write and did not finish with
  started  \* tools started so far

rehearsalVars == <<phase, job, todo, bundle, unsure, started>>

BundleFiles ==
  <<"mission-request", "mission-plan", "validator-result", "supervisor-review",
    "rehearsal-events", "timeline", "timeline-mmd", "replay-review",
    "replay-review-md", "analytics", "rehearsal-audit", "rehearsal-report">>
ReplayFiles == <<"replay-review", "replay-review-md", "analytics">>
File == Range(BundleFiles)

Absent == [state |-> "absent"]
Torn == [state |-> "torn"]
Whole(content) == [state |-> "whole", says |-> content]
Stored(f) == bundle[f].state = "whole"
Audit == bundle["rehearsal-audit"].says
NoJob == [status |-> "none"]

-----------------------------------------------------------------------------
(* The event stream (rehearsal_events.py); the place of an event in the     *)
(* stream is its sequence number and its time.                              *)

Event(type, subtype, waypoint) == [type |-> type, subtype |-> subtype, waypoint |-> waypoint]

FaultyValidationEvent(codes) ==
  Event("validation", IF codes \subseteq {"unsafe_speed"} THEN "passed" ELSE "rejected", 0)
ValidationEvent(codes) ==
  Event("validation", IF codes = {} THEN "passed" ELSE "rejected", 0)

\* The events of the i-th waypoint.
WaypointEvents(kind, i) ==
  <<Event("motion", "waypoint_requested", i),
    Event("safety", "safety_check_passed", i),
    Event("motion", "motion_request_simulated", i)>>
    \o IF kind \in MovingKind THEN <<Event("motion", "waypoint_reached", i)>> ELSE << >>

\* A status change, its transition record and the events that go with it.
Advanced(j, to, events) ==
  [j EXCEPT !.status = to,
            !.transitions = Append(@, <<j.status, to>>),
            !.events = @ \o events]
Legal(from, to) == to \in REHEARSAL_TRANSITIONS[from]

FinalSafety(j) ==
  CASE j.status # "completed" -> "unsafe_rejected"
    [] j.status = "completed" /\ j.decision.safety = "safe" -> "safe"
    [] OTHER -> "guarded"

-----------------------------------------------------------------------------
(* What each file of the bundle says of an audit record. *)

ReplayTypes == {"mission", "motion", "safety", "supervisor"}
ReplayBundle(a) ==
  [review |-> CASE a.status = "completed" -> "passed"
                [] a.status \in {"rejected", "aborted"} -> "rejected"
                [] OTHER -> "partial",
   markers |-> SelectSeq(a.events, LAMBDA e : e.type \in ReplayTypes),
   bag_backed |-> FALSE]

AnalyticsOf(a) ==
  LET approved == a.decision.status = "approved"
  IN [approved |-> approved /\ a.codes = {},
      completed |-> a.status = "completed",
      rejected |-> a.status = "rejected" \/ ~approved,
      supervisor |-> ~approved,
      validator |-> a.codes # {}]

Content(f, a) ==
  CASE f = "mission-request" -> a.request
    [] f = "mission-plan" -> a.plan
    [] f = "validator-result" -> a.codes
    [] f = "supervisor-review" -> a.decision
    [] f = "rehearsal-events" -> a.events
    [] f = "timeline" -> <<a.transitions, a.events>>
    [] f = "timeline-mmd" -> a.transitions
    [] f \in {"replay-review", "replay-review-md"} -> ReplayBundle(a)
    [] f = "analytics" -> AnalyticsOf(a)
    [] f \in {"rehearsal-audit", "rehearsal-report"} -> a

-----------------------------------------------------------------------------
RehearsalInit ==
  /\ phase = "idle" /\ job = NoJob /\ todo = << >>
  /\ bundle = [f \in File |-> Absent]
  /\ unsure = {} /\ started = 0

\* run_mission_rehearsal: the request's own diagnostics are printed and dropped.
Load(m) ==
  /\ phase = "idle" /\ started < MaxRehearsals
  /\ phase' = "validate" /\ started' = started + 1
  /\ job' = [status |-> "created", request |-> [named |-> m.named, source |-> m.source],
             plan |-> BuildPlan(m), codes |-> {}, decision |-> NoJob, transitions |-> << >>,
             events |-> << >>, next |-> 1]
  /\ UNCHANGED <<todo, bundle, unsure>>

Validate ==
  /\ phase = "validate"
  /\ phase' = "review"
  /\ job' = [job EXCEPT !.codes = ValidatePlan(job.plan)]
  /\ UNCHANGED <<todo, bundle, unsure, started>>

Review ==
  /\ phase = "review"
  /\ phase' = "open"
  /\ job' = [job EXCEPT !.decision = ReviewPlan(job.plan, job.codes)]
  /\ UNCHANGED <<todo, bundle, unsure, started>>

\* run_rehearsal from here on.  Created and validation events come first.
OpenRehearsal(to) ==
  /\ phase = "open" /\ Legal(job.status, to)
  /\ phase' = "supervise"
  /\ job' = Advanced(job, to, <<Event("mission", "created", 0), ValidationEvent(job.codes)>>)
  /\ UNCHANGED <<todo, bundle, unsure, started>>
OpenValidated == OpenRehearsal("validated") /\ job.codes = {}
OpenRejected == OpenRehearsal("rejected") /\ job.codes # {}

SupervisorEvent == Event("supervisor", job.decision.status, 0)

\* The decision is recorded even when the validator has already rejected.
SuperviseRejected ==
  /\ phase = "supervise" /\ job.status = "rejected"
  /\ phase' = "terminate"
  /\ job' = [job EXCEPT !.events = Append(@, SupervisorEvent)]
  /\ UNCHANGED <<todo, bundle, unsure, started>>

\* With no rejection code the plan has waypoints, and no plan is built with the
\* band "restricted": the supervisor never refuses one the validator passed.
SuperviseApproved ==
  /\ phase = "supervise" /\ job.status # "rejected" /\ job.decision.status = "approved"
  /\ Legal(job.status, "approved")
  /\ phase' = "enter"
  /\ job' = Advanced(job, "approved", <<SupervisorEvent>>)
  /\ UNCHANGED <<todo, bundle, unsure, started>>

EnterRehearsing ==
  /\ phase = "enter" /\ Legal(job.status, "rehearsing")
  /\ phase' = "visit"
  /\ job' = Advanced(job, "rehearsing", <<Event("mission", "rehearsal_started", 0)>>)
  /\ UNCHANGED <<todo, bundle, unsure, started>>

Visit ==
  /\ phase = "visit" /\ job.next <= Len(job.plan.waypoints)
  /\ job' = [job EXCEPT !.next = @ + 1,
                        !.events = @ \o WaypointEvents(job.plan.waypoints[job.next].kind, job.next)]
  /\ UNCHANGED <<phase, todo, bundle, unsure, started>>

\* The audit record is complete; the reporter starts writing.
Report(j) ==
  /\ phase' = "write"
  /\ job' = j
  /\ todo' = BundleFiles
  /\ unsure' = File
  /\ UNCHANGED <<bundle, started>>

Complete ==
  /\ phase = "visit" /\ job.next > Len(job.plan.waypoints)
  /\ Legal(job.status, "completed")
  /\ Report(Advanced(job, "completed", <<Event("mission", "completed", 0)>>))

TerminateEarly ==
  /\ phase = "terminate"
  /\ Report([job EXCEPT !.events = Append(@, Event("audit", "rehearsal_terminated_early", 0))])

-----------------------------------------------------------------------------
(* Writing, by run_mission_rehearsal and generate_rehearsal_replay. *)

Truncate ==
  /\ phase = "write"
  /\ phase' = "fill"
  /\ bundle' = [bundle EXCEPT ![Head(todo)] = Torn]
  /\ UNCHANGED <<job, todo, unsure, started>>

Fill ==
  /\ phase = "fill"
  /\ bundle' = [bundle EXCEPT ![Head(todo)] = Whole(Content(Head(todo), job))]
  /\ todo' = Tail(todo)
  /\ phase' = IF Len(todo) = 1 THEN "idle" ELSE "write"
  /\ job' = IF Len(todo) = 1 THEN NoJob ELSE job
  /\ unsure' = CASE Len(todo) > 1 -> unsure
                 [] todo = <<Last(BundleFiles)>> -> {}
                 [] OTHER -> unsure \ Range(ReplayFiles)
  /\ UNCHANGED started

\* generate_rehearsal_replay: plan, runtime and decision come from the audit,
\* which must be there and parse.
FaultyRegenerate ==
  /\ phase = "idle" /\ started < MaxRehearsals /\ Stored("rehearsal-audit")
  /\ phase' = "write" /\ started' = started + 1
  /\ job' = Audit
  /\ todo' = <<"replay-review", "replay-review-md">>
  /\ unsure' = unsure \cup Range(ReplayFiles)
  /\ UNCHANGED bundle
Regenerate ==
  /\ phase = "idle" /\ started < MaxRehearsals /\ Stored("rehearsal-audit")
  /\ phase' = "write" /\ started' = started + 1
  /\ job' = Audit
  /\ todo' = ReplayFiles
  /\ unsure' = unsure \cup Range(ReplayFiles)
  /\ UNCHANGED bundle

Die ==
  /\ phase # "idle"
  /\ phase' = "idle" /\ job' = NoJob /\ todo' = << >>
  /\ UNCHANGED <<bundle, unsure, started>>

RehearsalStep ==
  \/ \E m \in Missions : Load(m)
  \/ Validate \/ Review \/ OpenValidated \/ OpenRejected
  \/ SuperviseRejected \/ SuperviseApproved
  \/ EnterRehearsing \/ Visit \/ Complete \/ TerminateEarly
  \/ Truncate \/ Fill \/ Regenerate \/ Die

RehearsalSpec == RehearsalInit /\ [][RehearsalStep]_rehearsalVars

-----------------------------------------------------------------------------
(* validate_mission_rehearsal: what it says of the stored audit. *)

FaultyRevalidated(a) ==
  ValidateRequest(a.request) = {} /\ ReviewPlan(a.plan, {}).status = "approved"
Revalidated(a) ==
  LET codes == ValidatePlan(a.plan)
  IN /\ ValidateRequest(a.request) = {}
     /\ codes = {}
     /\ ReviewPlan(a.plan, codes).status = "approved"

-----------------------------------------------------------------------------
(* Properties *)

RunPhase == {"validate", "review", "open", "supervise", "enter", "visit", "terminate"}
EventType == {"mission", "validation", "supervisor", "motion", "safety", "audit"}

WellFormed(j) ==
  /\ j.status \in RehearsalStatus
  /\ \A i \in DOMAIN j.events : j.events[i].type \in EventType
  /\ \A i \in DOMAIN j.transitions : j.transitions[i][2] \in REHEARSAL_TRANSITIONS[j.transitions[i][1]]

\* Type invariant.
RehearsalTypeOK ==
  /\ phase \in {"idle", "write", "fill"} \cup RunPhase
  /\ (phase = "idle") = (job = NoJob)
  /\ job # NoJob => WellFormed(job)
  /\ Range(todo) \subseteq File /\ unsure \subseteq File
  /\ DOMAIN bundle = File
  /\ Stored("rehearsal-audit") => WellFormed(Audit)
  /\ started \in 0 .. MaxRehearsals

\* The records in which a reviewer may read the events of a rehearsal.
Records ==
  (IF job = NoJob THEN {} ELSE {job}) \cup (IF Stored("rehearsal-audit") THEN {Audit} ELSE {})

\* The limits a simulated plan keeps.  They are those of the boundary document
\* (REHEARSAL_SAFETY_BOUNDARY.md, section 3) with three exceptions, where the
\* validator asks for less: a plan that moves or patrols has a stop or a dock,
\* which need not be its last waypoint, and one that only inspects has none;
\* topics other than these two are not looked at; and loops are looked for in
\* the proposal source and the notes, not in every text.
WithinLimits(plan) ==
  /\ plan.waypoints # << >> /\ Motor \notin plan.topics
  /\ (\E w \in Range(plan.waypoints) : w.kind \in {"move", "patrol"})
       => \E w \in Range(plan.waypoints) : w.kind \in EndKind
  /\ \A w \in Range(plan.waypoints) :
       /\ w.distance >= 0 /\ w.distance <= 25 /\ ~(w.speed > 50)
       /\ w.angle <= 720 /\ -w.angle <= 720
       /\ w.kind \in MovingKind => Requested \in plan.topics
  /\ \A text \in {plan.source, plan.notes} :
       /\ text \cap {"loop", "zone", "speed"} = {}
       /\ text \cap Phrase # {} => "never" \in text

\* No simulated motion without approval (rehearsal_supervisor.py): wherever a
\* motion request can be read, in memory or in the stored audit, the events
\* before it show a passed validation, the supervisor's approval and the safety
\* check of the same waypoint, and the plan keeps the limits above.
SupervisedMotion ==
  \A r \in Records : \A i \in DOMAIN r.events :
    r.events[i].subtype = "motion_request_simulated" =>
      /\ WithinLimits(r.plan)
      /\ \E v, s, c \in 1 .. (i - 1) :
           /\ v < s /\ s < c
           /\ r.events[v] = Event("validation", "passed", 0)
           /\ r.events[s] = Event("supervisor", "approved", 0)
           /\ r.events[c] = Event("safety", "safety_check_passed", r.events[i].waypoint)

\* The event by which a status change is recorded.
Mark(transition) ==
  CASE transition[2] = "validated" -> Event("validation", "passed", 0)
    [] transition = <<"created", "rejected">> -> Event("validation", "rejected", 0)
    [] transition[2] = "approved" -> Event("supervisor", "approved", 0)
    [] transition[2] = "rehearsing" -> Event("mission", "rehearsal_started", 0)
    [] transition[2] = "completed" -> Event("mission", "completed", 0)
    [] OTHER -> Event("supervisor", "rejected", 0)

\* Every state transition becomes an event in the audit bundle
\* (MISSION_REHEARSAL_STATE_MACHINE.md): the transitions of a record form a
\* path from created to its status, and their marks are in the events in the
\* same order.
TransitionsAreEvents ==
  \A r \in Records :
    LET t == r.transitions
        place == [i \in DOMAIN t |-> SelectInSeq(r.events, LAMBDA e : e = Mark(t[i]))]
    IN /\ r.status = IF t = << >> THEN "created" ELSE Last(t)[2]
       /\ \A i \in DOMAIN t :
            /\ t[i][1] = IF i = 1 THEN "created" ELSE t[i - 1][2]
            /\ place[i] # 0
            /\ i > 1 => place[i - 1] < place[i]

\* After tools that finished, the bundle is one rehearsal told twelve times; and
\* regenerating the replay repairs its three files after a run that did not
\* finish, against the audit that is there.
FilesFollowAudit ==
  phase = "idle" /\ Stored("rehearsal-audit") =>
    \A f \in File \ unsure :
      f \in Range(ReplayFiles) \/ "rehearsal-audit" \notin unsure =>
        bundle[f] = Whole(Content(f, Audit))

\* The replay, the analytics and a later validation of the stored audit agree
\* with its outcome: nothing incomplete is ever counted as complete or found
\* valid, and a completed rehearsal whose request was clean is found valid.
OutcomeIsTold ==
  Stored("rehearsal-audit") =>
    LET a == Audit
        done == a.status = "completed"
    IN /\ Revalidated(a) => done
       /\ done /\ ValidateRequest(a.request) = {} => Revalidated(a)
       /\ AnalyticsOf(a).completed = done
       /\ AnalyticsOf(a).approved = done /\ AnalyticsOf(a).rejected = ~done
       /\ (ReplayBundle(a).review = "passed") = done
       /\ (FinalSafety(a) = "unsafe_rejected") = ~done
===============================================================================
