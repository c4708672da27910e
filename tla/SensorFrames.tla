---------------------------- MODULE SensorFrames ----------------------------
(***************************************************************************)
(* The frame the safety supervisor evaluates on a tick, and the two        *)
(* reports computed from it: freshness (safety/freshness.py) and           *)
(* confidence (safety/confidence.py).                                      *)
(*                                                                         *)
(* A reading is abstracted to its freshness level and its confidence.  The *)
(* level is the outcome of comparing the reading's age with the two        *)
(* thresholds of its stream; the ages themselves are not kept, because a   *)
(* reading may be replaced between two ticks by one of any age (a delayed  *)
(* packet is older than the one it replaces).                              *)
(***************************************************************************)
EXTENDS Integers, Functions

CONSTANTS
  RequiredStreams,  \* required sensor streams; in the code lidar, imu, encoder
  Weight            \* weight of each stream in the score, in twentieths

Stream == RequiredStreams \cup {"contact"}

ASSUME StreamAssumption == "contact" \notin RequiredStreams
ASSUME WeightAssumption == Weight \in [Stream -> 0 .. 20]

\* "missing" : the frame carries no reading;   "fresh": age <= warn_ms;
\* "warn": warn_ms < age <= safe_stop_ms;      "stale": age > safe_stop_ms.
Level == {"missing", "fresh", "warn", "stale"}

\* contact: the bumper reading is present and activated.  biased: the IMU's
\* bias estimate is above tolerance.  disagrees: IMU and encoder angular rates
\* differ by more than the threshold.
Frame == [level: [Stream -> Level], confidence: [Stream -> 0 .. 20],
          contact: BOOLEAN, biased: BOOLEAN, disagrees: BOOLEAN]

\* Each flag needs the readings it is computed from.
WellFormed(f) ==
  /\ f.contact => f.level["contact"] # "missing"
  /\ f.biased => "imu" \in RequiredStreams /\ f.level["imu"] # "missing"
  /\ f.disagrees => \A s \in {"imu", "encoder"} :
                      s \in RequiredStreams /\ f.level[s] # "missing"

-----------------------------------------------------------------------------
(***************************************************************************)
(* FreshnessReport.  A missing required stream counts as safe-stop stale;  *)
(* a missing optional one (contact) does not, yet it still counts as       *)
(* missing, since any_missing_required ranges over every stream.           *)
(***************************************************************************)
AnyWarn(f) == \E s \in Stream : f.level[s] = "warn"

AnySafeStop(f) ==
  \E s \in Stream : \/ f.level[s] = "stale"
                    \/ f.level[s] = "missing" /\ s \in RequiredStreams

AnyMissingRequired(f) == \E s \in Stream : f.level[s] = "missing"

\* The conjunction the supervisor repeats: nothing stale and nothing missing.
InputsUsable(f) == ~AnySafeStop(f) /\ ~AnyMissingRequired(f)

-----------------------------------------------------------------------------
(***************************************************************************)
(* ConfidenceScorer.evaluate, in exact integers: confidences, weights and  *)
(* the bias penalty in twentieths, halves for the warn factor and tenths   *)
(* for the disagreement penalty, so that a score of 1.0 is FullScore.      *)
(***************************************************************************)
FullScore == 20 * 20 * 2 * 20 * 10

\* Share of its weight a stream contributes, in halves.  The contact reading
\* counts in full whenever it is present, however old it is.
Trust(f, s) ==
  IF f.level[s] = "missing" THEN 0
  ELSE IF s = "contact" THEN 2
  ELSE CASE f.level[s] = "fresh" -> 2
         [] f.level[s] = "warn"  -> 1
         [] f.level[s] = "stale" -> 0

Contribution(f, s) ==
  Weight[s] * f.confidence[s] * Trust(f, s)
            * (IF s = "imu" /\ f.biased THEN 17 ELSE 20)

RawScore(f) == SumFunction([s \in Stream |-> Contribution(f, s)])

Score(f) ==
  LET scored == RawScore(f) * (IF f.disagrees THEN 7 ELSE 10)
  IN  IF scored > FullScore THEN FullScore ELSE scored

ConfidenceFloor == (20 * FullScore) \div 100  \* arbitration: below it, zero
RecoveryScore   == (60 * FullScore) \div 100  \* needed to validate a recovery
NormalScore     == (70 * FullScore) \div 100  \* needed to stay unrestricted

LowConfidence(f) == Score(f) < ConfidenceFloor
=============================================================================
