---------------------------- MODULE MissionCompiler ----------------------------
(***************************************************************************)
(* From a text to a mission plan.  compile_mission_intent compiles what an *)
(* operator wrote; propose_mission_from_text sends a provider's proposal   *)
(* through the sanitizer first (natural_language_mission and               *)
(* mission_proposal).                                                      *)
(*                                                                         *)
(* A text is a sequence of clauses, split already.  A clause is            *)
(*   template  the first template it matches, "none" when it matches none  *)
(*   name      its place, window, condition or trigger, "" without a slot  *)
(*   limit     its speed in cm/s, 0 for other templates                    *)
(*   vague     it contains an ambiguity phrase, which in a clause that     *)
(*             matches is in the slot: the patterns are anchored           *)
(*   phrases   what it contains of the two lists of forbidden phrases      *)
(* and two clauses are equal when their wording is.                        *)
(***************************************************************************)
EXTENDS Integers, Sequences, FiniteSets, SequencesExt

CONSTANTS
  Clauses,    \* the clauses that may be uttered
  Asides,     \* forbidden phrases a proposal may have outside the compiled text
  MaxClauses  \* bound: clauses of one text

\* A speed has no sign in the grammar, and only the listed phrases are told apart.
ASSUME CompilerAssumption ==
  /\ MaxClauses \in Nat
  /\ \A c \in Clauses : /\ c.limit \in Nat /\ c.vague \in BOOLEAN
                        /\ c.phrases \subseteq {"actuator", "shell", "shutdown"}
  /\ Asides \subseteq SUBSET {"actuator", "shell", "shutdown"}

VARIABLES
  phase,     \* "dictate", "sanitize", "compile", "done"
  proposal,  \* MissionProposal: three fields that are compiled and the rest
  odd,       \* the profile compiled for
  input,     \* compiler_input: the text handed to the compiler
  plan,      \* MissionPlan
  outcome    \* final_outcome, "pending" before; "" when the compiler runs by itself

compilerVars == <<phase, proposal, odd, input, plan, outcome>>

\* The phrases that only one list has, and those that both have.
SanitizerPhrases == {"actuator", "shell"}
CompilerPhrases == {"shutdown", "shell"}

\* One place stands for those that both profiles treat alike.
Profiles ==
  [default |-> [authorized |-> {"alpha", "inspection", "dock"}, prohibited |-> {"human_only"},
                limit |-> 150, window |-> "daylight"],
   night |-> [authorized |-> {"dock"}, prohibited |-> {"alpha", "human_only"},
              limit |-> 50, window |-> "night"]]

-----------------------------------------------------------------------------
(* parser.py and constraints.py: what becomes of a clause *)

Stage ==
  [move_to_target |-> "move", patrol_area |-> "patrol", inspect_zone |-> "inspect",
   return_to_dock |-> "dock_return", wait_for_condition |-> "wait",
   pause_at_checkpoint |-> "pause", terminate_mission |-> "terminate"]

ConstraintKind ==
  [avoid_region |-> "avoid", restricted_corridor_avoidance |-> "restricted_corridor",
   speed_limit |-> "speed_limit", time_window |-> "time_window",
   safe_stop_on_trigger |-> "safety_trigger",
   recovery_directive_return_to_dock |-> "recovery_directive",
   continue_under_degraded |-> "contingency"]

\* A clause matches one of these templates or none.
ASSUME TemplateAssumption ==
  \A c \in Clauses : c.template \in DOMAIN Stage \cup DOMAIN ConstraintKind \cup {"none"}

Verdict(c) ==
  IF c.phrases \cap CompilerPhrases # {} THEN "dangerous_unsupported_instruction"
  ELSE IF c.template = "none" THEN IF c.vague THEN "ambiguous_clause" ELSE "unsupported_instruction"
  ELSE IF c.vague THEN "ambiguous_destination" ELSE "accepted"

IsObjective(c) == Verdict(c) = "accepted" /\ c.template \in DOMAIN Stage
IsConstraint(c) == Verdict(c) = "accepted" /\ c.template \in DOMAIN ConstraintKind

FaultyIsRejected(c) == Verdict(c) \notin {"accepted", "ambiguous_destination"}
IsRejected(c) == Verdict(c) # "accepted"

\* The clauses of a text that matched one of the templates.
Of(text, templates) ==
  {c \in Range(text) : Verdict(c) = "accepted" /\ c.template \in templates}

-----------------------------------------------------------------------------
(* validator.py.  Diagnostics are merged on code, message, clause and field, *)
(* of which code and clause decide the rest: a set.                          *)

NoClause == [template |-> "none", name |-> "", limit |-> 0, vague |-> FALSE, phrases |-> {}]
Diag(code, c) == [code |-> code, clause |-> c]
Rejections ==
  {"empty_intent", "dangerous_unsupported_instruction", "odd_violation", "contradiction",
   "no_objectives"}
HasRejection(diags) == \E d \in diags : d.code \in Rejections

ParseDiagnostics(text) ==
  {Diag(Verdict(c), c) : c \in {c \in Range(text) : Verdict(c) # "accepted"}}
    \cup {d \in {Diag("empty_intent", NoClause)} : text = << >>}

Placed == {"move_to_target", "patrol_area", "inspect_zone", "pause_at_checkpoint"}

FaultyOutsideOdd(text, profile) ==
  {c \in Of(text, Placed) : c.name \in profile.prohibited}
    \cup {c \in Of(text, {"speed_limit"}) : c.limit \notin 1 .. profile.limit}
    \cup {c \in Of(text, {"time_window"}) : c.name # profile.window}
OutsideOdd(text, profile) ==
  {c \in Of(text, Placed) : c.name \in profile.prohibited \/ c.name \notin profile.authorized}
    \cup {c \in Of(text, {"speed_limit"}) : c.limit \notin 1 .. profile.limit}
    \cup {c \in Of(text, {"time_window"}) : c.name # profile.window}

\* A pause or a return to the dock is not looked at: either may be at a region
\* to be avoided.
Visited(text) == {c.name : c \in Of(text, {"move_to_target", "patrol_area", "inspect_zone"})}
Contradictory(text) ==
  {c \in Of(text, {"avoid_region"}) : c.name \in Visited(text)}
    \cup {c \in Of(text, {"speed_limit"}) : c.limit = 0}

Triggered(text) == Of(text, {"safe_stop_on_trigger"}) # {}
Recoverable(text) == Of(text, {"recovery_directive_return_to_dock", "return_to_dock"}) # {}

Diagnostics(text, profile) ==
  ParseDiagnostics(text)
    \cup {d \in {Diag("no_objectives", NoClause)} : Of(text, DOMAIN Stage) = {}}
    \cup {Diag("odd_violation", c) : c \in OutsideOdd(text, profile)}
    \cup {Diag("contradiction", c) : c \in Contradictory(text)}
    \cup {d \in {Diag("missing_recovery_path", NoClause)} : Triggered(text) /\ ~Recoverable(text)}

-----------------------------------------------------------------------------
(* risk.py *)

\* How often the text has a clause that matched one of the templates.
Count(text, templates) ==
  Cardinality({i \in DOMAIN text : Verdict(text[i]) = "accepted" /\ text[i].template \in templates})

RawScore(text, profile, diags) ==
  LET objectives == Count(text, DOMAIN Stage)
      slow == {i \in DOMAIN text : text[i] \in Of(text, {"speed_limit"})
                                     /\ text[i].limit \in 1 .. (profile.limit - 1)}
  IN 10 * (IF objectives > 1 THEN objectives - 1 ELSE 0)
       + 15 * Count(text, {"patrol_area", "inspect_zone"})
       + 20 * Count(text, {"restricted_corridor_avoidance"})
       + 10 * Count(text, {"time_window", "safe_stop_on_trigger"})
       - 5 * Count(text, {"recovery_directive_return_to_dock"})
       - 5 * Cardinality(slow)
       + 5 * Cardinality({d \in diags : d.code \notin Rejections})

FaultyScore(raw, rejected) == IF rejected /\ raw < 95 THEN 95 ELSE raw
Score(raw, rejected) ==
  CASE rejected /\ raw < 95 -> 95
    [] ~rejected /\ raw < 0 -> 0
    [] raw > 100 -> 100
    [] OTHER -> raw

Band(score) ==
  CASE score >= 90 -> "critical"
    [] score \in 70 .. 89 -> "high"
    [] score \in 50 .. 69 -> "elevated"
    [] score \in 30 .. 49 -> "moderate"
    [] score \in 10 .. 29 -> "low"
    [] OTHER -> "informational"

-----------------------------------------------------------------------------
(* compiler.py.  Nodes are numbered: 0 the start, then the objectives, the   *)
(* end and, where there is one, the recovery dock.                           *)

Edge(from, to, when) == [from |-> from, to |-> to, when |-> when]

BuildGraph(stages, docking) ==
  LET end == Len(stages) + 1
      dock == end + 1
      main == {Edge(i - 1, i, "") : i \in 1 .. end}
      recovery == {Edge(i, dock, "safety_trigger") : i \in 1 .. (end - 1)} \cup {Edge(dock, end, "")}
  IN [stages |-> stages, edges |-> IF docking THEN main \cup recovery ELSE main]
RejectedGraph == [stages |-> << >>, edges |-> {Edge(0, 1, "rejected")}]

FaultyFinalStatus(diags) ==
  CASE HasRejection(diags) -> "compile_rejected"
    [] ~HasRejection(diags) /\ \E d \in diags : d.code = "ambiguous_clause" -> "compile_ambiguous"
    [] OTHER -> IF diags = {} THEN "compile_ok" ELSE "compile_ok_with_warnings"
FinalStatus(diags) ==
  CASE HasRejection(diags) -> "compile_rejected"
    [] ~HasRejection(diags) /\ \E d \in diags : d.code \in {"ambiguous_clause", "ambiguous_destination"}
         -> "compile_ambiguous"
    [] OTHER -> IF diags = {} THEN "compile_ok" ELSE "compile_ok_with_warnings"

\* The clauses of a text at some of its places, in their order.
Rank(places, i) == Cardinality({j \in places : j <= i})
ClausesAt(text, places) ==
  [k \in 1 .. Cardinality(places) |-> text[CHOOSE i \in places : Rank(places, i) = k]]

CompileIntent(text, profile) ==
  LET objectives == ClausesAt(text, {i \in DOMAIN text : IsObjective(text[i])})
      diags == Diagnostics(text, profile)
      score == Score(RawScore(text, profile, diags), HasRejection(diags))
  IN [objectives |-> objectives,
      constraints |-> ClausesAt(text, {i \in DOMAIN text : IsConstraint(text[i])}),
      rejected |-> ClausesAt(text, {i \in DOMAIN text : IsRejected(text[i])}),
      diagnostics |-> diags,
      score |-> score,
      band |-> Band(score),
      status |-> FinalStatus(diags),
      graph |-> IF HasRejection(diags) THEN RejectedGraph
                ELSE BuildGraph([i \in DOMAIN objectives |-> Stage[objectives[i].template]],
                                Triggered(text) /\ Of(text, {"return_to_dock"}) = {})]

-----------------------------------------------------------------------------
(* The two tools *)

NoPlan == [status |-> ""]
Empty == [intent |-> << >>, constraints |-> << >>, recovery |-> << >>, aside |-> {}]
Field == {"intent", "constraints", "recovery"}
Text(p) == p.intent \o p.constraints \o p.recovery

CompilerInit ==
  /\ phase = "dictate" /\ proposal = Empty /\ odd = "default"
  /\ input = << >> /\ plan = NoPlan /\ outcome = ""

\* The operator writes, or the provider answers.
Dictate(field, c) ==
  /\ phase = "dictate" /\ Len(Text(proposal)) < MaxClauses
  /\ proposal' = [proposal EXCEPT ![field] = Append(@, c)]
  /\ UNCHANGED <<phase, odd, input, plan, outcome>>

Remark(phrases) ==
  /\ phase = "dictate" /\ proposal.aside = {}
  /\ proposal' = [proposal EXCEPT !.aside = phrases]
  /\ UNCHANGED <<phase, odd, input, plan, outcome>>

\* compile_mission_intent: the text as it is, for the profile asked for.
CompileDirectly(profile) ==
  /\ phase = "dictate"
  /\ proposal = [Empty EXCEPT !.intent = proposal.intent]
  /\ phase' = "compile" /\ odd' = profile /\ input' = proposal.intent
  /\ UNCHANGED <<proposal, plan, outcome>>

\* propose_mission_from_text, always for the default profile.
Propose ==
  /\ phase = "dictate"
  /\ phase' = "sanitize"
  /\ UNCHANGED <<proposal, odd, input, plan, outcome>>

\* The sanitizer reads every field of the proposal.
Corpus(p) == p.aside \cup UNION {c.phrases : c \in Range(Text(p))}

SanitizerRejects ==
  /\ phase = "sanitize" /\ Corpus(proposal) \cap SanitizerPhrases # {}
  /\ phase' = "done" /\ outcome' = "proposal_rejected_by_sanitizer"
  /\ UNCHANGED <<proposal, odd, input, plan>>

SanitizerAccepts ==
  /\ phase = "sanitize" /\ Corpus(proposal) \cap SanitizerPhrases = {}
  /\ phase' = "compile" /\ input' = Text(proposal) /\ outcome' = "pending"
  /\ UNCHANGED <<proposal, odd, plan>>

Classified(status) ==
  CASE status \in {"compile_ok", "compile_ok_with_warnings"} -> "proposal_compiled_validation_passed"
    [] status = "compile_ambiguous" -> "proposal_compiled_requires_review"
    [] OTHER -> "proposal_rejected_by_compiler"

Compile ==
  /\ phase = "compile"
  /\ phase' = "done"
  /\ plan' = CompileIntent(input, Profiles[odd])
  /\ outcome' = IF outcome = "" THEN "" ELSE Classified(plan'.status)
  /\ UNCHANGED <<proposal, odd, input>>

CompilerNext ==
  \/ \E field \in Field, c \in Clauses : Dictate(field, c)
  \/ \E phrases \in Asides : Remark(phrases)
  \/ \E profile \in DOMAIN Profiles : CompileDirectly(profile)
  \/ Propose \/ SanitizerRejects \/ SanitizerAccepts \/ Compile

CompilerSpec == CompilerInit /\ [][CompilerNext]_compilerVars

-----------------------------------------------------------------------------
(* Properties *)

Status == {"compile_ok", "compile_ok_with_warnings", "compile_ambiguous", "compile_rejected"}
Bands == {"critical", "high", "elevated", "moderate", "low", "informational"}
Outcome ==
  {"", "pending", "proposal_rejected_by_sanitizer", "proposal_rejected_by_compiler",
   "proposal_compiled_requires_review", "proposal_compiled_validation_passed"}

Compiled == plan # NoPlan
Accepted == Compiled /\ plan.status # "compile_rejected"

\* Type invariant; the score stays within its scale and every rejection puts the
\* mission into the critical band (risk.py).
CompilerTypeOK ==
  /\ phase \in {"dictate", "sanitize", "compile", "done"}
  /\ DOMAIN proposal = Field \cup {"aside"}
  /\ odd \in DOMAIN Profiles /\ outcome \in Outcome
  /\ Compiled =>
       /\ plan.status \in Status
       /\ plan.score \in 0 .. 100 /\ plan.band \in Bands
       /\ plan.status = "compile_rejected" => plan.band = "critical"

\* Where an objective takes the rover, of those that take it somewhere.
Going == Placed \cup {"return_to_dock"}
Destination(c) == IF c.template = "return_to_dock" THEN "dock" ELSE c.name

\* The compiler never relaxes the envelope (odd.py): a plan that is not rejected,
\* read back from the text, drives only to zones its profile lists, and neither
\* sets a higher speed nor another window than the profile's.  And where the
\* text avoids a region, a plan that still goes there does so in a pause or a
\* return to the dock only, the two that the search for contradictions skips
\* (constraints.py, against MISSION_ASSURANCE_MODEL.md, section 4).
AcceptedStaysWithinOdd ==
  Accepted =>
    \A i \in DOMAIN input :
      LET c == input[i]
          profile == Profiles[odd]
      IN IsObjective(c) \/ IsConstraint(c) =>
           /\ c.template \in Placed =>
                c.name \in profile.authorized /\ c.name \notin profile.prohibited
           /\ c.template = "speed_limit" => c.limit > 0 /\ c.limit <= profile.limit
           /\ c.template = "time_window" => c.name = profile.window
           /\ c.template = "avoid_region" =>
                \A j \in DOMAIN input :
                  IsObjective(input[j]) /\ input[j].template \in Going
                    /\ Destination(input[j]) = c.name
                  => input[j].template \in {"pause_at_checkpoint", "return_to_dock"}

\* Nothing is silently dropped or accepted (validator.py): every clause of the
\* compiled text is an objective, a constraint or a rejected clause with a
\* diagnostic of its own, each list as long as the text has such clauses; and
\* the text is all that was dictated.
NothingIsDropped ==
  Compiled =>
    /\ input = Text(proposal)
    /\ Len(plan.objectives) + Len(plan.constraints) + Len(plan.rejected) = Len(input)
    /\ \A i \in DOMAIN input :
         \/ input[i] \in Range(plan.objectives) \cup Range(plan.constraints)
         \/ /\ input[i] \in Range(plan.rejected)
            /\ \E d \in plan.diagnostics : d.clause = input[i]

\* What no proposal may contain (sanitizer.py, templates.py) never ends in a
\* passed validation, with one exception: a phrase that only the compiler's list
\* has, in a field that is not compiled, is read by neither.  What is ambiguous
\* is never settled without a reviewer; what the sanitizer refuses is not
\* compiled.  The risk band has no part in it: a critical plan may pass.
NoUnreviewedPass ==
  /\ outcome = "proposal_compiled_validation_passed" =>
       /\ \A c \in Range(Text(proposal)) : c.phrases = {} /\ ~c.vague
       /\ proposal.aside \subseteq CompilerPhrases \ SanitizerPhrases
  /\ outcome = "proposal_rejected_by_sanitizer" => plan = NoPlan
  /\ plan.status \in {"compile_ok", "compile_ok_with_warnings"} => \A c \in Range(input) : ~c.vague

===============================================================================
