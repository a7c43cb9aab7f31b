--------------------------- MODULE OfficialRecords ---------------------------
(***************************************************************************)
(* The values of scripts/swe-bench-official-evaluator.mjs: frozen          *)
(* predictions and evaluation records, and what the evaluator admits as    *)
(* one.  An exception is a predicate that is FALSE.                        *)
(*                                                                         *)
(* A prediction keeps the keys its admission looks at, without schema      *)
(* version and model name; a record keeps whose it is, its outcome, and    *)
(* how far its provenance goes.  The SHA-256 digest of a patch is the set  *)
(* of that patch, and the empty string the empty set.                      *)
(***************************************************************************)

Sha256(patch) == {patch}
NoDigest == {}

InputKeys == {"evaluationBatchId", "attemptId", "instanceId", "modelPatch"}

\* exactRecord: the keys are these and no others.
ExactRecord(value, keys) == DOMAIN value = keys

\* createFrozenPrediction returns rather than throws.
IsPredictionInput(input) == ExactRecord(input, InputKeys)

\* What it returns.
CreateFrozenPrediction(input) ==
  [k \in InputKeys \cup {"modelPatchSha256"} |->
     IF k = "modelPatchSha256" THEN Sha256(input.modelPatch) ELSE input[k]]

\* readFrozenPrediction of the file that holds the prediction.
ReadFrozenPrediction(file) == CreateFrozenPrediction([k \in InputKeys |-> file[k]])

-----------------------------------------------------------------------------
Verdicts == {"resolved", "test-failed", "inconclusive"}

OfficialReasons ==
  {"official-resolved", "official-unresolved", "invalid-prediction",
   "missing-exact-patch", "config-mismatch", "digest-mismatch", "evaluator-error",
   "evaluator-timeout", "report-missing", "report-malformed", "report-mismatch",
   "uncertain-external-effect"}

\* "none": fallbackProvenance; "manifest": baseProvenance; "image": with the pinned image.
Provenances == {"none", "manifest", "image"}

\* officialRecord.
OfficialRecord(prediction, provenance, verdict, reason) ==
  [evaluationBatchId |-> prediction.evaluationBatchId,
   attemptId         |-> prediction.attemptId,
   instanceId        |-> prediction.instanceId,
   patchSha256       |-> prediction.modelPatchSha256,
   provenance        |-> provenance,
   verdict           |-> verdict,
   reason            |-> reason]

VerdictOf(reason) ==
  CASE reason = "official-resolved"   -> "resolved"
    [] reason = "official-unresolved" -> "test-failed"
    [] OTHER                          -> "inconclusive"

\* admitOfficialEvaluationRecord returns rather than throws.
IsOfficialRecord(record) ==
  /\ record.patchSha256 = NoDigest => record.reason = "invalid-prediction"
  /\ record.reason \in OfficialReasons
  /\ record.verdict = VerdictOf(record.reason)

\* fallbackPrediction, of a prediction that was not admitted.
FallbackPrediction(value) ==
  [evaluationBatchId |-> value.evaluationBatchId, attemptId |-> value.attemptId,
   instanceId |-> value.instanceId, modelPatchSha256 |-> NoDigest]

\* The exceptions of evaluateFrozenPrediction.
Thrown == [reason |-> "thrown"]

\* What an evaluation of an admitted prediction under a manifest comes to: a refusal
\* before the evaluator ran, its failure, or what its report says.
EvaluatorOutcomes(prediction) ==
  {Thrown}
  \cup {OfficialRecord(prediction, "manifest", "inconclusive", why) :
          why \in {"config-mismatch", "digest-mismatch", "evaluator-error"}}
  \cup {OfficialRecord(prediction, "image", VerdictOf(why), why) :
          why \in {"evaluator-timeout", "evaluator-error", "report-missing",
                   "report-malformed", "report-mismatch",
                   "official-resolved", "official-unresolved"}}

\* evaluateFrozenPrediction({prediction, ...}).
EvaluateFrozenPrediction(input, hasManifest) ==
  IF ~IsPredictionInput(input)
  THEN {OfficialRecord(FallbackPrediction(input), "none", "inconclusive",
                       "invalid-prediction")}
  ELSE LET prediction == CreateFrozenPrediction(input) IN
       IF hasManifest
       THEN EvaluatorOutcomes(prediction)
       ELSE {OfficialRecord(prediction, "none", "inconclusive", "config-mismatch")}

=============================================================================
