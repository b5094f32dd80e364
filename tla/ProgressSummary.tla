---------------------------- MODULE ProgressSummary ----------------------------
(***************************************************************************)
(* SummarizeProgress: what a page shows of the progress of a drill.  It is *)
(* computed from the aggregate by rules of its own, which the handlers do  *)
(* not use: whether a check passed, what is complete, what blocks the      *)
(* drill and what to do next.  The properties compare it with the rules    *)
(* the handlers apply.                                                     *)
(***************************************************************************)
EXTENDS DrillLifecycle

\* The checkpoints with an initial result; those without it, next first.
InitialCompleted == {c \in checkpoints : HasInitialResult(results, c)}
Pending == checkpoints \ InitialCompleted
\* 0 when every checkpoint has its initial result.
NextCheckpoint == IF Pending = {} THEN 0 ELSE CHOOSE c \in Pending : \A d \in Pending : c <= d

\* initialPassed looks at the deviation first, and without one at the result;
\* evidence of blanks only would count as evidence here.
ResultPasses(r) ==
  /\ r.outcome = "pass"
  /\ r.evidence # "empty"
  /\ MeasuredSeconds(r) <= MaxSeconds[r.code]

\* Mutant: only the initial result is looked at.
InitialPassedAtFirst(c) ==
  \E r \in results : r.code = c /\ r.attempt = 1 /\ ResultPasses(r)
InitialPassed(c) ==
  IF \E d \in deviations : d.code = c
  THEN \A d \in deviations : d.code = c => d.status = "closed"
  ELSE \E r \in results : r.code = c /\ r.attempt = 1 /\ ResultPasses(r)

PassedChecks == {c \in InitialCompleted : InitialPassed(c)}
FailedChecks == InitialCompleted \ PassedChecks

CompletionPercent ==
  IF checkpoints = {} THEN 0
  ELSE (Cardinality(PassedChecks) * 100) \div Cardinality(checkpoints)

OpenDeviations == {d \in deviations : d.status # "closed"}

LatestAttempt(d) == NextAttempt(d.code) - 1

\* The reason shown beside an open deviation: its rule, or that it waits.
BlockingReason(d) == IF d.status = "ready_for_retest" THEN "waits_for_retest" ELSE d.rule

\* Mutant: deviations before the next checkpoint.
NextActionDeviationsFirst ==
  IF OpenDeviations # {} THEN "close_deviations"
  ELSE IF NextCheckpoint # 0 THEN "record_check"
  ELSE IF drill.status \in {"ready_for_review", "returned"} THEN "submit"
  ELSE IF drill.status = "under_review" THEN "await_decision"
  ELSE IF drill.status = "activated" THEN "archive"
  ELSE "continue"

NextAction ==
  IF NextCheckpoint # 0 THEN "record_check"
  ELSE IF OpenDeviations # {} THEN "close_deviations"
  ELSE IF drill.status \in {"ready_for_review", "returned"} THEN "submit"
  ELSE IF drill.status = "under_review" THEN "await_decision"
  ELSE IF drill.status = "activated" THEN "archive"
  ELSE "continue"

-----------------------------------------------------------------------------
(* Properties *)

LatestPasses(c) ==
  \E r \in results : r.code = c /\ IsLatest(r) /\ EvaluateResult(c, r) = Passed

\* The checks that count as passed are those whose latest attempt passes the
\* rules of EvaluateResult, although the summary looks at the first attempt
\* and at the deviation only; every other recorded one has an open deviation,
\* shown with the attempt and, until there is new material, the rule that
\* this attempt broke.  100 % is shown exactly from ready_for_review on.
SummaryIsHonest ==
  /\ \A c \in InitialCompleted : c \in PassedChecks <=> LatestPasses(c)
  /\ FailedChecks = {d.code : d \in OpenDeviations}
  /\ \A d \in OpenDeviations : \E r \in results :
       /\ r.code = d.code /\ r.attempt = LatestAttempt(d)
       /\ EvaluateResult(r.code, r) = d.rule
       /\ BlockingReason(d) \in {d.rule, "waits_for_retest"}
  /\ CompletionPercent = 100 <=> drill.status \in Gated

\* The next action that is shown is one the handlers take: the checkpoint that
\* is named is the only one RecordCheck accepts, deviations are to be closed
\* only while remediation and retests are accepted, and a drill that has
\* nothing of the kind is in the status the action is for.
NextActionIsAccepted ==
  /\ NextCheckpoint # 0 =>
       /\ drill.status \in {"baseline_frozen", "executing"}
       /\ \A c \in checkpoints :
            c = NextCheckpoint <=>
              /\ ~HasInitialResult(results, c)
              /\ \A d \in checkpoints : d < c => HasInitialResult(results, d)
  /\ NextAction = "close_deviations" <=> drill.status = "remediation"
  /\ NextAction = "continue" <=> drill.status \in {"absent", "draft"}
=============================================================================
