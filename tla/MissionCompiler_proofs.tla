------------------------ MODULE MissionCompiler_proofs ------------------------
(***************************************************************************)
(* What a compiled plan promises, for any set of clauses and texts of any  *)
(* length: the diagnostics are sets over the clauses of the text, so each  *)
(* claim is an argument about one clause.                                  *)
(***************************************************************************)
EXTENDS MissionCompiler, FiniteSetTheorems, TLAPS

Proposals ==
  [intent : Seq(Clauses), constraints : Seq(Clauses), recovery : Seq(Clauses),
   aside : SUBSET {"actuator", "shell", "shutdown"}]

\* The text compiled is what was dictated, and a plan is what the compiler makes of it.
CompilerInv ==
  /\ phase \in {"dictate", "sanitize", "compile", "done"}
  /\ proposal \in Proposals
  /\ odd \in {"default", "night"}
  /\ input \in Seq(Clauses)
  /\ phase \in {"dictate", "sanitize"} => outcome = ""
  /\ phase = "compile" => outcome \in {"", "pending"} /\ input = Text(proposal)
  /\ outcome # "" /\ outcome # "proposal_rejected_by_sanitizer" =>
       Corpus(proposal) \cap SanitizerPhrases = {}
  /\ plan = NoPlan => outcome \in {"", "pending", "proposal_rejected_by_sanitizer"}
  /\ plan # NoPlan =>
       /\ phase = "done" /\ input = Text(proposal)
       /\ plan = CompileIntent(input, Profiles[odd])
       /\ outcome # "proposal_rejected_by_sanitizer"
       /\ outcome # "" => outcome = Classified(plan.status)

-----------------------------------------------------------------------------
(* Operators *)

\* The status tells whether something was rejected or is ambiguous.
LEMMA StatusTells ==
  ASSUME NEW diags
  PROVE  /\ FinalStatus(diags) \in Status
         /\ FinalStatus(diags) = "compile_rejected" <=> HasRejection(diags)
         /\ FinalStatus(diags) \in {"compile_ok", "compile_ok_with_warnings"} =>
              ~\E d \in diags : d.code \in {"ambiguous_clause", "ambiguous_destination"}
<1>1. CASE HasRejection(diags)
  <2>1. FinalStatus(diags) = "compile_rejected" BY <1>1 DEF FinalStatus
  <2> QED BY <1>1, <2>1 DEF Status
<1>2. CASE ~HasRejection(diags) /\ \E d \in diags : d.code \in {"ambiguous_clause", "ambiguous_destination"}
  <2>1. FinalStatus(diags) = "compile_ambiguous" BY <1>2 DEF FinalStatus
  <2> QED BY <1>2, <2>1 DEF Status
<1>3. CASE ~HasRejection(diags) /\ ~\E d \in diags : d.code \in {"ambiguous_clause", "ambiguous_destination"}
  <2>1. FinalStatus(diags) \in {"compile_ok", "compile_ok_with_warnings"} BY <1>3 DEF FinalStatus
  <2> QED BY <1>3, <2>1 DEF Status
<1> QED BY <1>1, <1>2, <1>3

\* The fields of a plan that the properties read.
LEMMA PlanFields ==
  ASSUME NEW text, NEW profile
  PROVE  LET p == CompileIntent(text, profile)
             diags == Diagnostics(text, profile)
         IN /\ p.status = FinalStatus(diags) /\ p.diagnostics = diags
            /\ p.score = Score(RawScore(text, profile, diags), HasRejection(diags))
            /\ p.band = Band(p.score)
            /\ p # NoPlan
<1>1. CompileIntent(text, profile).status = FinalStatus(Diagnostics(text, profile)) BY DEF CompileIntent
<1>2. CompileIntent(text, profile) # NoPlan
  <2>1. NoPlan.status = "" BY DEF NoPlan
  <2>2. FinalStatus(Diagnostics(text, profile)) # "" BY StatusTells DEF Status
  <2> QED BY <1>1, <2>1, <2>2
<1> QED BY <1>1, <1>2 DEF CompileIntent

\* A clause that is refused has its diagnostic.
LEMMA RefusalIsDiagnosed ==
  ASSUME NEW text, NEW profile, NEW c \in Range(text), Verdict(c) # "accepted"
  PROVE  \E d \in Diagnostics(text, profile) : d.code = Verdict(c) /\ d.clause = c
<1>1. Diag(Verdict(c), c) \in Diagnostics(text, profile) BY DEF Diagnostics, ParseDiagnostics
<1> QED BY <1>1 DEF Diag

\* Neither a clause outside of the profile nor a contradiction goes with a plan
\* that is not rejected.
LEMMA AcceptedIsInside ==
  ASSUME NEW text, NEW profile, ~HasRejection(Diagnostics(text, profile))
  PROVE  OutsideOdd(text, profile) = {} /\ Contradictory(text) = {}
<1>1. ASSUME NEW c \in OutsideOdd(text, profile) PROVE FALSE
  <2>1. Diag("odd_violation", c) \in Diagnostics(text, profile) BY DEF Diagnostics
  <2> QED BY <2>1 DEF Diag, HasRejection, Rejections
<1>2. ASSUME NEW c \in Contradictory(text) PROVE FALSE
  <2>1. Diag("contradiction", c) \in Diagnostics(text, profile) BY DEF Diagnostics
  <2> QED BY <2>1 DEF Diag, HasRejection, Rejections
<1> QED BY <1>1, <1>2

\* Without a refusal of either kind, a text has no forbidden phrase and no vague clause.
LEMMA CleanText ==
  ASSUME NEW text, NEW profile, NEW c \in Range(text),
         FinalStatus(Diagnostics(text, profile)) \in {"compile_ok", "compile_ok_with_warnings"}
  PROVE  c.phrases \cap CompilerPhrases = {} /\ ~c.vague
<1> DEFINE diags == Diagnostics(text, profile)
<1>1. ~HasRejection(diags) /\ ~\E d \in diags : d.code \in {"ambiguous_clause", "ambiguous_destination"}
  BY StatusTells
<1>2. Verdict(c) # "dangerous_unsupported_instruction"
  <2>1. SUFFICES ASSUME Verdict(c) = "dangerous_unsupported_instruction" PROVE FALSE OBVIOUS
  <2>2. PICK d \in diags : d.code = "dangerous_unsupported_instruction" BY <2>1, RefusalIsDiagnosed
  <2> QED BY <1>1, <2>2 DEF HasRejection, Rejections
<1>3. Verdict(c) \notin {"ambiguous_clause", "ambiguous_destination"}
  <2>1. SUFFICES ASSUME Verdict(c) \in {"ambiguous_clause", "ambiguous_destination"} PROVE FALSE OBVIOUS
  <2>2. PICK d \in diags : d.code = Verdict(c) BY <2>1, RefusalIsDiagnosed
  <2> QED BY <1>1, <2>1, <2>2
<1>4. c.phrases \cap CompilerPhrases = {} BY <1>2 DEF Verdict
<1>5. ~c.vague BY <1>3, <1>4 DEF Verdict
<1> QED BY <1>4, <1>5

\* The compiled text is made of clauses.
LEMMA TextIsClauses ==
  ASSUME NEW p \in Proposals
  PROVE  Text(p) \in Seq(Clauses)
BY DEF Text, Proposals

\* Every clause of a sequence over Clauses is one of them.
LEMMA ClauseOf ==
  ASSUME NEW s \in Seq(Clauses), NEW c \in Range(s)
  PROVE  c \in Clauses
BY DEF Range

-----------------------------------------------------------------------------
(* The clauses at some places *)

\* The rank tells the places apart, and counts up to how many there are.
LEMMA RankTellsApart ==
  ASSUME NEW n \in Nat, NEW places \in SUBSET (1 .. n)
  PROVE  /\ IsFiniteSet(places) /\ Cardinality(places) \in Nat
         /\ \A i \in places : Rank(places, i) \in 1 .. Cardinality(places)
         /\ \A i, j \in places : Rank(places, i) = Rank(places, j) => i = j
<1>1. IsFiniteSet(places) /\ Cardinality(places) \in Nat
  <2>1. IsFiniteSet(1 .. n) BY FS_Interval
  <2> QED BY <2>1, FS_Subset, FS_CardinalityType
<1> DEFINE upTo(i) == {j \in places : j <= i}
<1>2. ASSUME NEW i \in places
      PROVE  /\ IsFiniteSet(upTo(i)) /\ Cardinality(upTo(i)) \in Nat /\ i \in upTo(i)
             /\ Cardinality(upTo(i)) <= Cardinality(places) /\ Cardinality(upTo(i)) # 0
  <2>1. upTo(i) \in SUBSET places /\ i \in upTo(i) OBVIOUS
  <2> HIDE DEF upTo
  <2>2. IsFiniteSet(upTo(i)) /\ Cardinality(upTo(i)) <= Cardinality(places) BY <2>1, <1>1, FS_Subset
  <2>3. Cardinality(upTo(i)) \in Nat /\ Cardinality(upTo(i)) # 0
    BY <2>1, <2>2, FS_CardinalityType, FS_EmptySet
  <2> QED BY <2>1, <2>2, <2>3
<1>3. ASSUME NEW i \in places, NEW j \in places, i < j
      PROVE  Cardinality(upTo(i)) # Cardinality(upTo(j))
  <2>1. \A k \in places : k \in Int OBVIOUS
  <2>2. \A k \in upTo(i) : k \in upTo(j) BY <2>1, <1>3
  <2>3. upTo(i) \in SUBSET upTo(j) /\ j \notin upTo(i)
    <3>1. j \notin upTo(i)
      <4>1. ~(j <= i) BY <2>1, <1>3
      <4> QED BY <4>1
    <3> HIDE DEF upTo
    <3> QED BY <2>2, <3>1
  <2>4. j \in upTo(j) /\ IsFiniteSet(upTo(j)) BY <1>2
  <2> HIDE DEF upTo
  <2> QED BY <2>3, <2>4, FS_Subset
<1>4. \A i \in places : Rank(places, i) = Cardinality(upTo(i)) BY DEF Rank
<1> HIDE DEF upTo
<1>5. ASSUME NEW i \in places PROVE Rank(places, i) \in 1 .. Cardinality(places)
  <2>1. /\ Cardinality(upTo(i)) \in Nat /\ Cardinality(upTo(i)) # 0
        /\ Cardinality(upTo(i)) <= Cardinality(places)
    BY <1>2
  <2> QED BY <2>1, <1>1, <1>4
<1>6. ASSUME NEW i \in places, NEW j \in places, i # j PROVE Rank(places, i) # Rank(places, j)
  <2>1. i < j \/ j < i BY <1>6
  <2> QED BY <2>1, <1>3, <1>4
<1> QED BY <1>1, <1>5, <1>6

\* They are as many as the places, and each of them is there.
LEMMA ClausesAtPlaces ==
  ASSUME NEW text, NEW n \in Nat, NEW places \in SUBSET (1 .. n)
  PROVE  /\ Len(ClausesAt(text, places)) = Cardinality(places)
         /\ \A i \in places : text[i] \in Range(ClausesAt(text, places))
<1> DEFINE m == Cardinality(places)
           list == ClausesAt(text, places)
           values == {list[k] : k \in 1 .. m}
<1>1. m \in Nat BY RankTellsApart
<1>2. /\ DOMAIN list = 1 .. m
      /\ \A k \in 1 .. m : list[k] = text[CHOOSE i \in places : Rank(places, i) = k]
      /\ list = [k \in 1 .. m |-> list[k]]
  BY DEF ClausesAt
<1>3. ASSUME NEW i \in places PROVE text[i] \in Range(list)
  <2> DEFINE k == Rank(places, i)
             chosen == CHOOSE j \in places : Rank(places, j) = k
  <2>1. k \in 1 .. m BY RankTellsApart
  <2>2. chosen \in places /\ Rank(places, chosen) = k OBVIOUS
  <2>3. chosen = i BY <2>2, RankTellsApart
  <2>4. list[k] = text[chosen] BY <1>2, <2>1
  <2> QED BY <1>2, <2>1, <2>3, <2>4 DEF Range
<1> HIDE DEF m, list
<1>4. list \in [1 .. m -> values] BY <1>2
<1> HIDE DEF values
<1>5. Len(list) = m BY <1>1, <1>4
<1> QED BY <1>3, <1>5 DEF m, list

\* A clause that is not rejected is an objective or a constraint and not both.
LEMMA ClauseIsOneOfThree ==
  ASSUME NEW c \in Clauses
  PROVE  /\ IsObjective(c) \/ IsConstraint(c) \/ IsRejected(c)
         /\ ~(IsObjective(c) /\ IsConstraint(c))
         /\ ~(IsRejected(c) /\ (IsObjective(c) \/ IsConstraint(c)))
<1>1. c.template \in DOMAIN Stage \cup DOMAIN ConstraintKind \cup {"none"} BY TemplateAssumption
<1>2. Verdict(c) = "accepted" => c.template # "none" BY DEF Verdict
<1>3. DOMAIN Stage \cap DOMAIN ConstraintKind = {} BY DEF Stage, ConstraintKind
<1> QED BY <1>1, <1>2, <1>3 DEF IsObjective, IsConstraint, IsRejected

-----------------------------------------------------------------------------
(* The invariant *)

\* The dictated text reaches the compiler unchanged and past the sanitizer.
THEOREM CompilerInvariant == CompilerSpec => []CompilerInv
<1>1. CompilerInit => CompilerInv
  <2> SUFFICES ASSUME CompilerInit PROVE CompilerInv OBVIOUS
  <2>1. << >> \in Seq(Clauses) OBVIOUS
  <2>2. proposal \in Proposals BY <2>1 DEF CompilerInit, Empty, Proposals
  <2> QED BY <2>1, <2>2 DEF CompilerInit, CompilerInv
<1>2. CompilerInv /\ [CompilerNext]_compilerVars => CompilerInv'
  <2> SUFFICES ASSUME CompilerInv, [CompilerNext]_compilerVars PROVE CompilerInv' OBVIOUS
  <2>1. CASE UNCHANGED compilerVars BY <2>1 DEF compilerVars, CompilerInv, Text, Corpus
  <2>2. ASSUME NEW field \in Field, NEW c \in Clauses, Dictate(field, c) PROVE CompilerInv'
    <3>1. proposal' \in Proposals
      <4>1. proposal[field] \in Seq(Clauses) BY DEF CompilerInv, Proposals, Field
      <4>2. Append(proposal[field], c) \in Seq(Clauses) BY <4>1
      <4>3. proposal' = [proposal EXCEPT ![field] = Append(proposal[field], c)] BY <2>2 DEF Dictate
      <4>4. field = "intent" \/ field = "constraints" \/ field = "recovery" BY DEF Field
      <4> QED BY <4>2, <4>3, <4>4 DEF CompilerInv, Proposals
    <3>2. phase = "dictate" /\ outcome = "" /\ plan = NoPlan BY <2>2 DEF Dictate, CompilerInv
    <3> QED BY <2>2, <3>1, <3>2 DEF Dictate, CompilerInv
  <2>3. ASSUME NEW phrases \in Asides, Remark(phrases) PROVE CompilerInv'
    <3>1. proposal' \in Proposals BY <2>3, CompilerAssumption DEF Remark, CompilerInv, Proposals
    <3>2. phase = "dictate" /\ outcome = "" /\ plan = NoPlan BY <2>3 DEF Remark, CompilerInv
    <3> QED BY <2>3, <3>1, <3>2 DEF Remark, CompilerInv
  <2>4. ASSUME NEW profile \in DOMAIN Profiles, CompileDirectly(profile) PROVE CompilerInv'
    <3>1. proposal.constraints = << >> /\ proposal.recovery = << >>
      <4>1. proposal = [Empty EXCEPT !.intent = proposal.intent] BY <2>4 DEF CompileDirectly
      <4>2. [Empty EXCEPT !.intent = proposal.intent].constraints = << >> BY DEF Empty
      <4>3. [Empty EXCEPT !.intent = proposal.intent].recovery = << >> BY DEF Empty
      <4> QED BY <4>1, <4>2, <4>3
    <3>2. Text(proposal') = proposal.intent
      <4>1. proposal' = proposal BY <2>4 DEF CompileDirectly
      <4>2. proposal.intent \in Seq(Clauses) BY DEF CompilerInv, Proposals
      <4>3. (proposal.intent \o << >>) \o << >> = proposal.intent BY <4>2
      <4> QED BY <3>1, <4>1, <4>3 DEF Text
    <3>3. profile \in {"default", "night"} BY DEF Profiles
    <3>4. phase = "dictate" /\ outcome = "" /\ plan = NoPlan BY <2>4 DEF CompileDirectly, CompilerInv
    <3>5. proposal.intent \in Seq(Clauses) BY DEF CompilerInv, Proposals
    <3>6. /\ phase' = "compile" /\ odd' = profile /\ input' = proposal.intent
          /\ proposal' = proposal /\ plan' = plan /\ outcome' = outcome
      BY <2>4 DEF CompileDirectly
    <3> QED BY <3>2, <3>3, <3>4, <3>5, <3>6 DEF CompilerInv
  <2>5. CASE Propose BY <2>5 DEF Propose, CompilerInv
  <2>6. CASE SanitizerRejects BY <2>6 DEF SanitizerRejects, CompilerInv
  <2>7. CASE SanitizerAccepts
    <3>1. Text(proposal) \in Seq(Clauses) BY TextIsClauses DEF CompilerInv
    <3>2. Text(proposal') = Text(proposal) /\ Corpus(proposal') = Corpus(proposal)
      BY <2>7 DEF SanitizerAccepts
    <3>3. plan = NoPlan BY <2>7 DEF SanitizerAccepts, CompilerInv
    <3> QED BY <2>7, <3>1, <3>2, <3>3 DEF SanitizerAccepts, CompilerInv
  <2>8. CASE Compile
    <3>1. plan' = CompileIntent(input, Profiles[odd]) /\ plan' # NoPlan BY <2>8, PlanFields DEF Compile
    <3>2. Text(proposal') = Text(proposal) /\ Corpus(proposal') = Corpus(proposal)
          /\ input' = Text(proposal')
      BY <2>8 DEF Compile, CompilerInv
    <3>3. outcome' # "proposal_rejected_by_sanitizer" /\ (outcome' # "" => outcome' = Classified(plan'.status))
          /\ (outcome' # "" => outcome = "pending")
      BY <2>8 DEF Compile, CompilerInv, Classified
    <3> QED BY <2>8, <3>1, <3>2, <3>3 DEF Compile, CompilerInv
  <2> QED BY <2>1, <2>2, <2>3, <2>4, <2>5, <2>6, <2>7, <2>8 DEF CompilerNext
<1> QED BY <1>1, <1>2, PTL DEF CompilerSpec

-----------------------------------------------------------------------------
(* The properties *)

\* Whatever is dictated, a plan that is not rejected stays within its profile,
\* and goes to what it avoids in a pause or a return to the dock only
\* (validator.py, constraints.py).
THEOREM AcceptedPlansStayWithinOdd == CompilerSpec => []AcceptedStaysWithinOdd
<1>1. CompilerInv => AcceptedStaysWithinOdd
  <2> SUFFICES ASSUME CompilerInv, Accepted, NEW i \in DOMAIN input,
                      IsObjective(input[i]) \/ IsConstraint(input[i])
               PROVE  LET c == input[i]
                          profile == Profiles[odd]
                      IN /\ c.template \in Placed =>
                              c.name \in profile.authorized /\ c.name \notin profile.prohibited
                         /\ c.template = "speed_limit" => c.limit > 0 /\ c.limit <= profile.limit
                         /\ c.template = "time_window" => c.name = profile.window
                         /\ c.template = "avoid_region" =>
                              \A j \in DOMAIN input :
                                IsObjective(input[j]) /\ input[j].template \in Going
                                  /\ Destination(input[j]) = c.name
                                => input[j].template \in {"pause_at_checkpoint", "return_to_dock"}
    BY DEF AcceptedStaysWithinOdd
  <2> DEFINE c == input[i]
             profile == Profiles[odd]
             diags == Diagnostics(input, profile)
  <2>1. plan = CompileIntent(input, profile) BY DEF CompilerInv, Accepted, Compiled
  <2>2. plan.status = FinalStatus(diags) BY <2>1, PlanFields
  <2>3. ~HasRejection(diags) BY <2>2, StatusTells DEF Accepted
  <2>4. OutsideOdd(input, profile) = {} /\ Contradictory(input) = {} BY <2>3, AcceptedIsInside
  <2>5. c \in Range(input) /\ Verdict(c) = "accepted" BY DEF Range, IsObjective, IsConstraint
  <2>6. \A templates : c.template \in templates => c \in Of(input, templates) BY <2>5 DEF Of
  <2>7. ASSUME c.template \in Placed
        PROVE  c.name \in profile.authorized /\ c.name \notin profile.prohibited
    BY <2>4, <2>6, <2>7 DEF OutsideOdd
  <2>8. ASSUME c.template = "speed_limit" PROVE c.limit > 0 /\ c.limit <= profile.limit
    <3>1. c \in Of(input, {"speed_limit"}) BY <2>6, <2>8
    <3>2. c.limit \in 1 .. profile.limit BY <2>4, <3>1 DEF OutsideOdd
    <3>3. profile.limit \in Nat
      <4>1. Profiles["default"].limit \in Nat /\ Profiles["night"].limit \in Nat BY DEF Profiles
      <4>2. odd = "default" \/ odd = "night" BY DEF CompilerInv
      <4> QED BY <4>1, <4>2
    <3> QED BY <3>2, <3>3
  <2>9. ASSUME c.template = "time_window" PROVE c.name = profile.window
    <3>1. c \in Of(input, {"time_window"}) BY <2>6, <2>9
    <3> QED BY <2>4, <3>1 DEF OutsideOdd
  <2>10. ASSUME c.template = "avoid_region", NEW j \in DOMAIN input,
                IsObjective(input[j]), input[j].template \in Going,
                Destination(input[j]) = c.name,
                input[j].template \notin {"pause_at_checkpoint", "return_to_dock"}
         PROVE  FALSE
    <3>1. /\ input[j].template \in {"move_to_target", "patrol_area", "inspect_zone"}
          /\ input[j].name = c.name
      BY <2>10 DEF Going, Placed, Destination
    <3>2. input[j] \in Of(input, {"move_to_target", "patrol_area", "inspect_zone"})
      BY <2>10, <3>1 DEF Of, Range, IsObjective
    <3>3. c.name \in Visited(input) BY <3>1, <3>2 DEF Visited
    <3>4. c \in Of(input, {"avoid_region"}) BY <2>6, <2>10
    <3> QED BY <2>4, <3>3, <3>4 DEF Contradictory
  <2> QED BY <2>7, <2>8, <2>9, <2>10
<1> QED BY <1>1, CompilerInvariant, PTL

\* However long the text, nothing vague and nothing that either list forbids ends
\* in a passed validation, but for a phrase of the compiler's list alone that
\* stands in a field it is not given (sanitizer.py, adapter.py, compiler.py).
THEOREM PassesAreReviewed == CompilerSpec => []NoUnreviewedPass
<1>1. CompilerInv => NoUnreviewedPass
  <2> SUFFICES ASSUME CompilerInv PROVE NoUnreviewedPass OBVIOUS
  <2>1. ASSUME plan.status \in {"compile_ok", "compile_ok_with_warnings"}, NEW c \in Range(input)
        PROVE  c.phrases \cap CompilerPhrases = {} /\ ~c.vague
    <3>1. plan # NoPlan
      <4>1. NoPlan.status = "" BY DEF NoPlan
      <4> QED BY <2>1, <4>1
    <3>2. plan = CompileIntent(input, Profiles[odd]) BY <3>1 DEF CompilerInv
    <3>3. FinalStatus(Diagnostics(input, Profiles[odd])) = plan.status BY <3>2, PlanFields
    <3> QED BY <2>1, <3>3, CleanText
  <2>2. ASSUME outcome = "proposal_compiled_validation_passed"
        PROVE  /\ \A c \in Range(Text(proposal)) : c.phrases = {} /\ ~c.vague
               /\ proposal.aside \subseteq CompilerPhrases \ SanitizerPhrases
    <3>1. Corpus(proposal) \cap SanitizerPhrases = {} BY <2>2 DEF CompilerInv
    <3>2. plan # NoPlan BY <2>2 DEF CompilerInv
    <3>3. outcome = Classified(plan.status) /\ input = Text(proposal) BY <2>2, <3>2 DEF CompilerInv
    <3>4. plan.status \in {"compile_ok", "compile_ok_with_warnings"} BY <2>2, <3>3 DEF Classified
    <3>5. ASSUME NEW c \in Range(input) PROVE c.phrases = {} /\ ~c.vague
      <4>1. c \in Clauses BY ClauseOf DEF CompilerInv
      <4>2. c.phrases \subseteq {"actuator", "shell", "shutdown"} BY <4>1, CompilerAssumption
      <4>3. c.phrases \subseteq Corpus(proposal) BY <3>3 DEF Corpus
      <4>4. c.phrases \cap CompilerPhrases = {} /\ ~c.vague BY <2>1, <3>4
      <4> QED BY <3>1, <4>2, <4>3, <4>4 DEF SanitizerPhrases, CompilerPhrases
    <3>6. proposal.aside \subseteq {"actuator", "shell", "shutdown"}
      BY DEF CompilerInv, Proposals
    <3>7. proposal.aside \subseteq Corpus(proposal) BY DEF Corpus
    <3>8. proposal.aside \subseteq CompilerPhrases \ SanitizerPhrases
      BY <3>1, <3>6, <3>7 DEF SanitizerPhrases, CompilerPhrases
    <3> QED BY <3>3, <3>5, <3>8
  <2>3. outcome = "proposal_rejected_by_sanitizer" => plan = NoPlan BY DEF CompilerInv
  <2> QED BY <2>1, <2>2, <2>3 DEF NoUnreviewedPass
<1> QED BY <1>1, CompilerInvariant, PTL

\* The points of a text are counted, so that its score is a number, however
\* long the text.
LEMMA ScoreIsANumber ==
  ASSUME NEW text \in Seq(Clauses), NEW profile
  PROVE  RawScore(text, profile, Diagnostics(text, profile)) \in Int
<1> DEFINE diags == Diagnostics(text, profile)
           warnings == {d \in diags : d.code \notin Rejections}
           f == [i \in DOMAIN text |-> Diag(Verdict(text[i]), text[i])]
           own == {f[i] : i \in DOMAIN text}
           path == Diag("missing_recovery_path", NoClause)
<1>1. DOMAIN text = 1 .. Len(text) /\ Len(text) \in Nat OBVIOUS
<1>2. IsFiniteSet(DOMAIN text) BY <1>1, FS_Interval
<1>3. \A S \in SUBSET DOMAIN text : Cardinality(S) \in Nat BY <1>2, FS_Subset, FS_CardinalityType
<1>4. \A templates : Count(text, templates) \in Nat BY <1>3 DEF Count
<1>5. Cardinality(warnings) \in Nat
  <2>1. f \in Surjection(DOMAIN text, own) BY DEF Surjection
  <2>2. IsFiniteSet(own) BY <1>2, <2>1, FS_Surjection
  <2>3. IsFiniteSet(own \cup {path}) BY <2>2, FS_AddElement
  <2>4. ASSUME NEW d \in warnings PROVE d \in own \cup {path}
    <3>1. CASE \E c \in Range(text) : d = Diag(Verdict(c), c) BY <3>1 DEF Range
    <3>2. CASE d.code \in Rejections BY <3>2
    <3>3. CASE d = path BY <3>3
    <3> QED BY <3>1, <3>2, <3>3 DEF Diagnostics, ParseDiagnostics, Diag, Rejections
  <2>5. warnings \in SUBSET (own \cup {path}) BY <2>4
  <2> HIDE DEF warnings, own
  <2> QED BY <2>3, <2>5, FS_Subset, FS_CardinalityType
<1>6. Cardinality({i \in DOMAIN text : text[i] \in Of(text, {"speed_limit"})
                                         /\ text[i].limit \in 1 .. (profile.limit - 1)}) \in Nat
  BY <1>3
<1> DEFINE objectives == Count(text, DOMAIN Stage)
           zones == Count(text, {"patrol_area", "inspect_zone"})
           corridors == Count(text, {"restricted_corridor_avoidance"})
           guarded == Count(text, {"time_window", "safe_stop_on_trigger"})
           directives == Count(text, {"recovery_directive_return_to_dock"})
           slow == Cardinality({i \in DOMAIN text : text[i] \in Of(text, {"speed_limit"})
                                         /\ text[i].limit \in 1 .. (profile.limit - 1)})
           warned == Cardinality({d \in diags : d.code \notin Rejections})
<1>7. RawScore(text, profile, diags) =
        10 * (IF objectives > 1 THEN objectives - 1 ELSE 0) + 15 * zones + 20 * corridors
          + 10 * guarded - 5 * directives - 5 * slow + 5 * warned
  BY DEF RawScore
<1>8. /\ objectives \in Nat /\ zones \in Nat /\ corridors \in Nat /\ guarded \in Nat
      /\ directives \in Nat /\ slow \in Nat /\ warned \in Nat
  BY <1>4, <1>5, <1>6
<1> HIDE DEF objectives, zones, corridors, guarded, directives, slow, warned
<1>9. RawScore(text, profile, diags) \in Int BY <1>7, <1>8
<1> QED BY <1>9

\* Types hold and every rejected mission is critical, however its points add up
\* (risk.py).
THEOREM CompilerTypeCorrect == CompilerSpec => []CompilerTypeOK
<1>1. CompilerInv => CompilerTypeOK
  <2> SUFFICES ASSUME CompilerInv PROVE CompilerTypeOK OBVIOUS
  <2>1. DOMAIN proposal = Field \cup {"aside"} BY DEF CompilerInv, Proposals, Field
  <2>2. odd \in DOMAIN Profiles BY DEF CompilerInv, Profiles
  <2>3. ASSUME Compiled
        PROVE  /\ plan.status \in Status
               /\ plan.score \in 0 .. 100 /\ plan.band \in Bands
               /\ plan.status = "compile_rejected" => plan.band = "critical"
    <3> DEFINE diags == Diagnostics(input, Profiles[odd])
               raw == RawScore(input, Profiles[odd], diags)
               rejected == HasRejection(diags)
    <3>1. plan = CompileIntent(input, Profiles[odd]) BY <2>3 DEF CompilerInv, Compiled
    <3>2. plan.status = FinalStatus(diags) /\ plan.score = Score(raw, rejected)
          /\ plan.band = Band(plan.score)
      BY <3>1, PlanFields
    <3>3. raw \in Int BY ScoreIsANumber DEF CompilerInv
    <3> HIDE DEF raw
    <3>4. Score(raw, TRUE) \in 95 .. 100 BY <3>3 DEF Score
    <3>5. Score(raw, FALSE) \in 0 .. 100 BY <3>3 DEF Score
    <3>6. plan.status \in Status /\ (plan.status = "compile_rejected" <=> rejected)
      BY <3>2, StatusTells
    <3>7. CASE rejected
      <4>1. rejected = TRUE BY <3>7 DEF HasRejection
      <4>2. plan.score \in 95 .. 100 BY <3>2, <3>4, <4>1
      <4>3. plan.band = "critical" BY <3>2, <4>2 DEF Band
      <4> QED BY <3>6, <4>2, <4>3 DEF Bands
    <3>8. CASE ~rejected
      <4>1. rejected = FALSE BY <3>8 DEF HasRejection
      <4>2. plan.score \in 0 .. 100 BY <3>2, <3>5, <4>1
      <4>3. plan.band \in Bands BY <3>2, <4>2 DEF Band, Bands
      <4> QED BY <3>6, <3>8, <4>2, <4>3
    <3> QED BY <3>7, <3>8
  <2>4. outcome \in Outcome
    <3>1. CASE plan = NoPlan BY <3>1 DEF CompilerInv, Outcome
    <3>2. CASE plan # NoPlan BY <3>2 DEF CompilerInv, Outcome, Classified
    <3> QED BY <3>1, <3>2
  <2> QED BY <2>1, <2>2, <2>3, <2>4 DEF CompilerTypeOK, CompilerInv
<1> QED BY <1>1, CompilerInvariant, PTL
\* However long the text, each of its clauses is in the plan, as an objective, as
\* a constraint or refused with a diagnostic, and none of them twice (parser.py,
\* compiler.py): what an operator dictated is never dropped without a word.
THEOREM EveryClauseIsAccountedFor == CompilerSpec => []NothingIsDropped
<1>1. CompilerInv => NothingIsDropped
  <2> SUFFICES ASSUME CompilerInv, Compiled
               PROVE  /\ input = Text(proposal)
                      /\ Len(plan.objectives) + Len(plan.constraints) + Len(plan.rejected) = Len(input)
                      /\ \A i \in DOMAIN input :
                           \/ input[i] \in Range(plan.objectives) \cup Range(plan.constraints)
                           \/ /\ input[i] \in Range(plan.rejected)
                              /\ \E d \in plan.diagnostics : d.clause = input[i]
    BY DEF NothingIsDropped
  <2> DEFINE n == Len(input)
             O == {i \in DOMAIN input : IsObjective(input[i])}
             C == {i \in DOMAIN input : IsConstraint(input[i])}
             R == {i \in DOMAIN input : IsRejected(input[i])}
  <2>1. /\ plan = CompileIntent(input, Profiles[odd]) /\ input = Text(proposal)
        /\ input \in Seq(Clauses)
    BY DEF CompilerInv, Compiled
  <2>2. n \in Nat /\ DOMAIN input = 1 .. n /\ \A i \in 1 .. n : input[i] \in Clauses BY <2>1
  <2>3. /\ plan.objectives = ClausesAt(input, O) /\ plan.constraints = ClausesAt(input, C)
        /\ plan.rejected = ClausesAt(input, R)
        /\ plan.diagnostics = Diagnostics(input, Profiles[odd])
    BY <2>1 DEF CompileIntent
  <2>4. O \in SUBSET (1 .. n) /\ C \in SUBSET (1 .. n) /\ R \in SUBSET (1 .. n) BY <2>2
  <2>5. O \cap C = {} /\ (O \cup C) \cap R = {} /\ (O \cup C) \cup R = 1 .. n
    BY <2>2, ClauseIsOneOfThree
  <2>6. \A i \in R : \E d \in Diagnostics(input, Profiles[odd]) : d.clause = input[i]
    <3> SUFFICES ASSUME NEW i \in R PROVE \E d \in Diagnostics(input, Profiles[odd]) : d.clause = input[i]
      OBVIOUS
    <3>1. input[i] \in Range(input) /\ Verdict(input[i]) # "accepted" BY DEF Range, IsRejected
    <3> QED BY <3>1, RefusalIsDiagnosed
  <2> HIDE DEF n, O, C, R
  <2>7. /\ Len(plan.objectives) = Cardinality(O) /\ Len(plan.constraints) = Cardinality(C)
        /\ Len(plan.rejected) = Cardinality(R)
        /\ \A i \in O : input[i] \in Range(plan.objectives)
        /\ \A i \in C : input[i] \in Range(plan.constraints)
        /\ \A i \in R : input[i] \in Range(plan.rejected)
    BY <2>2, <2>3, <2>4, ClausesAtPlaces
  <2>8. Cardinality(O) + Cardinality(C) + Cardinality(R) = n
    <3>1. IsFiniteSet(O) /\ IsFiniteSet(C) /\ IsFiniteSet(R) BY <2>2, <2>4, RankTellsApart
    <3>2. /\ Cardinality(O) \in Nat /\ Cardinality(C) \in Nat /\ Cardinality(R) \in Nat
          /\ Cardinality({}) = 0
      BY <3>1, FS_CardinalityType, FS_EmptySet
    <3>3. IsFiniteSet(O \cup C) /\ Cardinality(O \cup C) = Cardinality(O) + Cardinality(C)
      <4>1. Cardinality(O \cup C) = Cardinality(O) + Cardinality(C) - Cardinality(O \cap C)
        BY <3>1, FS_Union
      <4>2. IsFiniteSet(O \cup C) BY <3>1, FS_Union
      <4>3. O \cap C = {} BY <2>5
      <4>4. Cardinality(O \cap C) = 0 BY <4>3, <3>2
      <4> QED BY <4>1, <4>2, <4>4, <3>2
    <3>4. Cardinality((O \cup C) \cup R) = Cardinality(O \cup C) + Cardinality(R)
      <4>1. Cardinality((O \cup C) \cup R) =
              Cardinality(O \cup C) + Cardinality(R) - Cardinality((O \cup C) \cap R)
        BY <3>1, <3>3, FS_Union
      <4>2. (O \cup C) \cap R = {} BY <2>5
      <4>3. Cardinality((O \cup C) \cap R) = 0 BY <4>2, <3>2
      <4> QED BY <4>1, <4>3, <3>2, <3>3
    <3>5. Cardinality(1 .. n) = n BY <2>2, FS_Interval
    <3> QED BY <3>3, <3>4, <3>5, <2>5
  <2>9. \A i \in DOMAIN input : i \in O \/ i \in C \/ i \in R BY <2>2, <2>5
  <2> QED BY <2>1, <2>3, <2>6, <2>7, <2>8, <2>9 DEF n
<1> QED BY <1>1, CompilerInvariant, PTL

===============================================================================
