--------------------------- MODULE DrillLifecycle ---------------------------
(***************************************************************************)
(* One drill record of shelter-drill-gate and the nine commands that       *)
(* change it (internal/application over internal/domain).                  *)
(*                                                                         *)
(* A command handler loads the aggregate, checks the caller's expected     *)
(* version, validates, changes the aggregate in memory, and saves it with  *)
(* version + 1 and one audit event in the same transaction.  An error at   *)
(* any point rolls the transaction back, so a rejected command is a        *)
(* stuttering step here and an accepted one is a single action.  How       *)
(* handlers interleave, retry and crash is the subject of CommandService.  *)
(*                                                                         *)
(* Names are compared after strings.TrimSpace everywhere in the code, so a *)
(* name below stands for all the strings that trim to it.  Digests are     *)
(* SHA-256 sums and are modelled as the value they are computed from.      *)
(* Every command carries the version its caller last saw; checkVersion     *)
(* refuses it unless that is the current one, so the current version is    *)
(* the only one the actions below need.                                    *)
(*                                                                         *)
(* A definition marked "Mutant" is not part of the specification: it is    *)
(* the next definition with a plausible bug in it, kept to show that a     *)
(* property notices.                                                       *)
(***************************************************************************)
EXTENDS Integers, Sequences, FiniteSets

CONSTANTS
  People,           \* names a form may carry for a lead or a reviewer
  Blank,            \* a string that trims to the empty string
  Profiles,         \* the create and revise forms: lead, capacity, date
  MaxCapacity,      \* 100000 in the code
  Layouts,          \* normalised baseline layouts a form may carry
  CompleteLayouts,  \* those with an entry in each of the four lists
  CheckpointCount,  \* 4 in the code
  MaxSeconds,       \* time limit of each checkpoint, in seconds
  Second,           \* ticks of the clock in a second
  Day,              \* ticks in a day
  ResultInputs,     \* the forms for a check or a retest
  MaxItems,         \* bound: items in one returned review
  Answers,          \* responses, each with its evidence, to a review item
  MaxVersion        \* bound: commands accepted for the drill

\* Checkpoints are named by their order; GenerateCheckpoints fixes both.
Codes == 1..CheckpointCount
Names == People \cup {Blank}
Evidence == {"empty", "spaces", "digest"}

ASSUME ProfilesAssumption ==
  /\ Blank \notin People
  /\ Profiles \subseteq [lead : Names, capacity : Int, date : Int]
  /\ MaxCapacity \in Nat
ASSUME LayoutsAssumption == CompleteLayouts \subseteq Layouts
ASSUME CheckpointsAssumption ==
  /\ CheckpointCount \in Nat \ {0}
  /\ MaxSeconds \in [Codes -> Nat]
  /\ Second \in Nat \ {0}
  /\ Day \in Nat \ {0}
ASSUME ResultsAssumption ==
  ResultInputs \subseteq
    [participants : Int, start : Int, end : Int, zone : Int,
     outcome : {"pass", "fail", "other"}, evidence : Evidence, recorder : Names]
ASSUME ReviewAssumption ==
  /\ MaxItems \in Nat
  /\ Blank \notin Answers
ASSUME BoundAssumption == MaxVersion \in Nat

VARIABLES
  drill,        \* the row of drills: status, version, baselineVersion, profile
  baseline,     \* the frozen LayoutBaseline, or NoBaseline
  checkpoints,  \* codes of the generated checkpoints
  results,      \* checkpoint_results
  deviations,   \* deviations, at most one per checkpoint
  materials,    \* remediation_materials
  retests,      \* retest_attempts
  rounds,       \* review_rounds with their review_items, in order
  decision,     \* the ActivationDecision, or NoDecision
  events,       \* event types of audit_events, in order of sequence
  preview       \* the last baseline preview the page holds, or NoPreview

vars == <<drill, baseline, checkpoints, results, deviations, materials,
          retests, rounds, decision, events, preview>>

-----------------------------------------------------------------------------
(* Values *)

\* "absent" stands for a drill whose row has not been inserted.
Statuses == {"absent", "draft", "baseline_frozen", "executing", "remediation",
             "ready_for_review", "under_review", "returned", "activated"}
EventTypes == {"drill_created", "drill_revised", "baseline_frozen",
               "checkpoint_recorded", "deviation_remediated",
               "checkpoint_retested", "review_submitted", "review_decided",
               "review_items_responded"}
Rules == {"evidence_missing", "time_exceeded", "manual_failure"}
Passed == "passed"

NoProfile  == [lead |-> Blank, capacity |-> 0, date |-> 0]
NoPreview  == [version |-> 0]
NoBaseline == [version |-> 0]
NoDecision == [reviewer |-> Blank]

DrillRow == [status : Statuses, version : 0..MaxVersion, baselineVersion : Nat,
             profile : Profiles \cup {NoProfile}]
Result == [code : Codes, attempt : Nat, participants : Int, start : Int,
           end : Int, outcome : {"pass", "fail", "other"}, evidence : Evidence]
Deviation == [code : Codes, rule : Rules,
              status : {"open", "ready_for_retest", "closed"},
              retestResult : Nat]
Material == [code : Codes, version : Nat]
RetestAttempt == [code : Codes, attempt : Int, result : Nat, material : Nat,
                  rule : Rules \cup {Passed}]
Preview == [version : Nat, layout : Layouts, profile : Profiles]
Baseline == [version : Nat, layout : Layouts,
             confirmed : Preview \cup {NoPreview}]
ReviewRound == [reviewer : Names, frozen : BOOLEAN,
                items : UNION {[1..n -> Answers \cup {Blank}] : n \in 1..MaxItems}]

\* The greatest of a set of naturals, 0 when it is empty.
Highest(S) == IF S = {} THEN 0 ELSE CHOOSE n \in S : \A m \in S : m <= n

\* baselineDigest and the digest of DecisionDocument, as what they digest.
ContentDigest(version, layout) == <<version, layout>>
\* Mutant: the digest leaves the drill's version out.
PreviewDigestOfLayout(version, layout) == <<layout>>
PreviewDigest(version, layout) == <<version, layout>>
Document(profile, base, digest, reviewer) ==
  [profile |-> profile, baselineVersion |-> base.version,
   baselineDigest |-> digest, reviewer |-> reviewer]
Decision == [reviewer : Names, baselineDigest : Nat \X Layouts,
             documentDigest : [profile : Profiles, baselineVersion : Nat,
                               baselineDigest : Nat \X Layouts,
                               reviewer : Names]]

-----------------------------------------------------------------------------
(* Rules of internal/domain *)

ValidProfile(in) == in.lead # Blank /\ in.capacity \in 1..MaxCapacity

HasInitialResult(res, code) == \E r \in res : r.code = code /\ r.attempt = 1
AllInitialResults(cps, res) ==
  cps # {} /\ \A c \in cps : HasInitialResult(res, c)
\* Mutant: material that waits for its retest counts as a closed deviation.
NoDeviationOpen(devs) == \A d \in devs : d.status # "open"
AllDeviationsClosed(devs) == \A d \in devs : d.status = "closed"

Attempts(code) == {r.attempt : r \in {s \in results : s.code = code}}
\* Mutant: attempts are numbered across the checkpoints.
NextAttemptOfDrill(code) == Highest({r.attempt : r \in results}) + 1
NextAttempt(code) == Highest(Attempts(code)) + 1
MaterialVersions(code) == {m.version : m \in {n \in materials : n.code = code}}
MaterialVersion(code) == Highest(MaterialVersions(code))

\* A form's times carry a zone; its dates are read in that zone.
LocalDate(time, zone) == (time + zone) \div Day

ValidateResult(in) ==
  /\ in.participants > 0
  /\ in.end > in.start
  /\ in.outcome \in {"pass", "fail"}
  /\ in.recorder # Blank

\* Mutant: a check may overlap the preceding one.
ValidateResultByStart(code, in) ==
  /\ ValidateResult(in)
  /\ in.participants <= drill.profile.capacity
  /\ LocalDate(in.start, in.zone) = drill.profile.date
  /\ LocalDate(in.end, in.zone) = drill.profile.date
  /\ \A r \in results : r.attempt = 1 /\ r.code < code => in.start >= r.start

ValidateResultForDrill(code, in) ==
  /\ ValidateResult(in)
  /\ in.participants <= drill.profile.capacity
  /\ LocalDate(in.start, in.zone) = drill.profile.date
  /\ LocalDate(in.end, in.zone) = drill.profile.date
  /\ \A r \in results : r.attempt = 1 /\ r.code < code => in.start >= r.end

\* Measured in whole seconds, what is left over dropped.
MeasuredSeconds(r) == (r.end - r.start) \div Second

EvaluateResult(code, r) ==
  IF r.evidence # "digest" THEN "evidence_missing"
  ELSE IF MeasuredSeconds(r) > MaxSeconds[code] THEN "time_exceeded"
  ELSE IF r.outcome # "pass" THEN "manual_failure"
  ELSE Passed

BuildResult(code, in, attempt) ==
  [code |-> code, attempt |-> attempt, participants |-> in.participants,
   start |-> in.start, end |-> in.end, outcome |-> in.outcome,
   evidence |-> in.evidence]

\* Mutant: deviations are looked at before missing results.
StatusByDeviationsFirst(res, devs) ==
  IF drill.status \in {"activated", "under_review", "returned"} THEN drill.status
  ELSE IF ~AllDeviationsClosed(devs) THEN "remediation"
  ELSE IF ~AllInitialResults(checkpoints, res) THEN "executing"
  ELSE "ready_for_review"

\* The status RecalculateProgress leaves, given the handler's new data.
RecalculatedStatus(res, devs) ==
  IF drill.status \in {"activated", "under_review", "returned"} THEN drill.status
  ELSE IF ~AllInitialResults(checkpoints, res) THEN "executing"
  ELSE IF ~AllDeviationsClosed(devs) THEN "remediation"
  ELSE "ready_for_review"

Independent(reviewer) == reviewer # Blank /\ reviewer # drill.profile.lead

\* The index of CurrentOpenReviewRound, 0 when it returns nil.
CurrentOpenReviewRound == Highest({i \in DOMAIN rounds : ~rounds[i].frozen})

\* FreezeReviewResponses accepts a round whose items are all answered.
AllAnswered(round) == \A i \in DOMAIN round.items : round.items[i] # Blank

-----------------------------------------------------------------------------
(* Commands.  One that changes the drill saves it with the next version    *)
(* and appends one event.                                                  *)

NextRow(status, baselineVersion, profile) ==
  [status |-> status, version |-> drill.version + 1,
   baselineVersion |-> baselineVersion, profile |-> profile]

\* Mutant: an event only for a change of status.
SaveStatusChange(status, event) ==
  /\ drill.version < MaxVersion
  /\ drill' = NextRow(status, drill.baselineVersion, drill.profile)
  /\ events' = IF status = drill.status THEN events ELSE Append(events, event)

Save(status, event) ==
  /\ drill.version < MaxVersion
  /\ drill' = NextRow(status, drill.baselineVersion, drill.profile)
  /\ events' = Append(events, event)

CreateDrill(in) ==
  /\ drill.status = "absent"
  /\ drill.version < MaxVersion
  /\ ValidProfile(in)
  /\ drill' = NextRow("draft", 0, in)
  /\ events' = <<"drill_created">>
  /\ UNCHANGED <<baseline, checkpoints, results, deviations, materials,
                 retests, rounds, decision, preview>>

\* Mutant: the status is not looked at.
ReviseDrillInAnyStatus(in) ==
  /\ drill.status # "absent"
  /\ ValidProfile(in)
  /\ drill.version < MaxVersion
  /\ drill' = NextRow(drill.status, drill.baselineVersion, in)
  /\ events' = Append(events, "drill_revised")
  /\ UNCHANGED <<baseline, checkpoints, results, deviations, materials,
                 retests, rounds, decision, preview>>

ReviseDrill(in) ==
  /\ drill.status = "draft"
  /\ ValidProfile(in)
  /\ drill.version < MaxVersion
  /\ drill' = NextRow("draft", drill.baselineVersion, in)
  /\ events' = Append(events, "drill_revised")
  /\ UNCHANGED <<baseline, checkpoints, results, deviations, materials,
                 retests, rounds, decision, preview>>

\* Read only: it computes the digest the caller may freeze against.  An
\* incomplete layout is previewed with its validation errors.
PreviewBaseline(layout) ==
  /\ drill.status = "draft"
  /\ preview' = [version |-> drill.version, layout |-> layout,
                 profile |-> drill.profile]
  /\ UNCHANGED <<drill, baseline, checkpoints, results, deviations, materials,
                 retests, rounds, decision, events>>

\* held is the preview whose digest the command carries, NoPreview when it
\* carries none.  No preview is of use once the baseline is frozen.
FreezeBaseline(layout, held) ==
  /\ held # NoPreview =>
       PreviewDigest(held.version, held.layout) = PreviewDigest(drill.version, layout)
  /\ drill.status = "draft"
  /\ layout \in CompleteLayouts
  /\ drill.version < MaxVersion
  /\ drill' = NextRow("baseline_frozen", drill.baselineVersion + 1, drill.profile)
  /\ baseline' = [version |-> drill.baselineVersion + 1, layout |-> layout,
                  confirmed |-> held]
  /\ checkpoints' = Codes
  /\ events' = Append(events, "baseline_frozen")
  /\ preview' = NoPreview
  /\ UNCHANGED <<results, deviations, materials, retests, rounds, decision>>

RecordCheck(code, in) ==
  LET rule == EvaluateResult(code, in)
      res  == results \cup {BuildResult(code, in, 1)}
      devs == IF rule = Passed THEN deviations
              ELSE deviations \cup {[code |-> code, rule |-> rule,
                                     status |-> "open", retestResult |-> 0]}
  IN /\ drill.status \in {"baseline_frozen", "executing", "remediation"}
     /\ code \in checkpoints
     /\ ~HasInitialResult(results, code)
     /\ \A c \in checkpoints : c < code => HasInitialResult(results, c)
     /\ ValidateResultForDrill(code, in)
     /\ results' = res
     /\ deviations' = devs
     /\ Save(RecalculatedStatus(res, devs), "checkpoint_recorded")
     /\ UNCHANGED <<baseline, checkpoints, materials, retests, rounds,
                    decision, preview>>

\* The two statuses a handler gives a deviation.
Closed(d, rule, attempt) ==
  [code |-> d.code, rule |-> rule, status |-> "closed", retestResult |-> attempt]
ReadyForRetest(d, rule) ==
  [code |-> d.code, rule |-> rule, status |-> "ready_for_retest",
   retestResult |-> d.retestResult]

\* A form with a blank cause, action or evidence is refused; the texts of
\* an accepted one are not kept here.
Remediate(d) ==
  /\ drill.status = "remediation"
  /\ d.status # "closed"
  /\ deviations' = (deviations \ {d}) \cup {ReadyForRetest(d, d.rule)}
  /\ materials' = materials \cup
       {[code |-> d.code, version |-> MaterialVersion(d.code) + 1]}
  /\ Save(drill.status, "deviation_remediated")
  /\ UNCHANGED <<baseline, checkpoints, results, retests, rounds, decision, preview>>

\* Mutants: the rule is always, or never, taken from the retest.
RetestedRuleAlways(d, rule, attempt) ==
  IF rule = Passed THEN Closed(d, rule, attempt) ELSE ReadyForRetest(d, rule)
RetestedRuleNever(d, rule, attempt) ==
  IF rule = Passed THEN Closed(d, d.rule, attempt) ELSE ReadyForRetest(d, d.rule)

\* The deviation after a retest: closed by a result that passes, else ready
\* for another retest under the rule the last one broke.
Retested(d, rule, attempt) ==
  IF rule = Passed THEN Closed(d, d.rule, attempt) ELSE ReadyForRetest(d, rule)

\* The handler does not look at the drill's status.
Retest(d, in) ==
  LET attempt == NextAttempt(d.code)
      rule == EvaluateResult(d.code, in)
      res  == results \cup {BuildResult(d.code, in, attempt)}
      devs == (deviations \ {d}) \cup {Retested(d, rule, attempt)}
  IN /\ d.status = "ready_for_retest"
     /\ d.code \in checkpoints
     /\ ValidateResultForDrill(d.code, in)
     /\ results' = res
     /\ retests' = retests \cup
          {[code |-> d.code, attempt |-> attempt - 1, result |-> attempt,
            material |-> MaterialVersion(d.code), rule |-> rule]}
     /\ deviations' = devs
     /\ Save(RecalculatedStatus(res, devs), "checkpoint_retested")
     /\ UNCHANGED <<baseline, checkpoints, materials, rounds, decision, preview>>

\* Mutant: the answers are not frozen.
RoundsLeftOpen == rounds

\* A returned drill is resubmitted with the answers to its open round,
\* which are frozen.
FrozenRounds ==
  IF drill.status = "returned"
  THEN [rounds EXCEPT ![CurrentOpenReviewRound].frozen = TRUE]
  ELSE rounds

SubmitReview ==
  /\ drill.status \in {"ready_for_review", "returned"}
  /\ AllInitialResults(checkpoints, results)
  /\ AllDeviationsClosed(deviations)
  /\ drill.status = "returned" =>
       /\ CurrentOpenReviewRound # 0
       /\ AllAnswered(rounds[CurrentOpenReviewRound])
  /\ rounds' = FrozenRounds
  /\ Save("under_review", "review_submitted")
  /\ UNCHANGED <<baseline, checkpoints, results, deviations, materials,
                 retests, decision, preview>>

\* Mutant: the new round gets the number of the last one.
RejectReviewOverLast(reviewer, itemCount) ==
  /\ drill.status = "under_review"
  /\ Independent(reviewer)
  /\ itemCount > 0
  /\ LET round == [reviewer |-> reviewer, frozen |-> FALSE,
                   items |-> [i \in 1..itemCount |-> Blank]]
     IN rounds' = IF rounds = <<>> THEN <<round>>
                  ELSE [rounds EXCEPT ![Len(rounds)] = round]
  /\ Save("returned", "review_decided")
  /\ UNCHANGED <<baseline, checkpoints, results, deviations, materials,
                 retests, decision, preview>>

\* Items whose fields are not all filled are refused.
RejectReview(reviewer, itemCount) ==
  /\ drill.status = "under_review"
  /\ Independent(reviewer)
  /\ itemCount > 0
  /\ rounds' = Append(rounds, [reviewer |-> reviewer, frozen |-> FALSE,
                               items |-> [i \in 1..itemCount |-> Blank]])
  /\ Save("returned", "review_decided")
  /\ UNCHANGED <<baseline, checkpoints, results, deviations, materials,
                 retests, decision, preview>>

ApproveReview(reviewer) ==
  LET digest == ContentDigest(baseline.version, baseline.layout)
  IN /\ drill.status = "under_review"
     /\ AllInitialResults(checkpoints, results)
     /\ AllDeviationsClosed(deviations)
     /\ Independent(reviewer)
     /\ decision' = [reviewer |-> reviewer, baselineDigest |-> digest,
                     documentDigest |-> Document(drill.profile, baseline, digest, reviewer)]
     /\ Save("activated", "review_decided")
     /\ UNCHANGED <<baseline, checkpoints, results, deviations, materials,
                    retests, rounds, preview>>

\* given maps some of the open round's items to their answers.  An unknown
\* item, one given twice or a blank answer refuses the whole command; a
\* command without answers is accepted.
RespondToReview(given) ==
  LET open == CurrentOpenReviewRound
  IN /\ drill.status = "returned"
     /\ open # 0
     /\ DOMAIN given \subseteq DOMAIN rounds[open].items
     /\ rounds' = [rounds EXCEPT ![open].items =
          [i \in DOMAIN rounds[open].items |->
             IF i \in DOMAIN given THEN given[i] ELSE rounds[open].items[i]]]
     /\ Save(drill.status, "review_items_responded")
     /\ UNCHANGED <<baseline, checkpoints, results, deviations, materials,
                    retests, decision, preview>>

-----------------------------------------------------------------------------
Init ==
  /\ drill = [status |-> "absent", version |-> 0, baselineVersion |-> 0,
              profile |-> NoProfile]
  /\ baseline = NoBaseline
  /\ checkpoints = {}
  /\ results = {}
  /\ deviations = {}
  /\ materials = {}
  /\ retests = {}
  /\ rounds = <<>>
  /\ decision = NoDecision
  /\ events = <<>>
  /\ preview = NoPreview

Next ==
  \/ \E in \in Profiles : CreateDrill(in) \/ ReviseDrill(in)
  \/ \E layout \in Layouts : PreviewBaseline(layout)
  \/ \E layout \in Layouts, held \in {preview, NoPreview} : FreezeBaseline(layout, held)
  \/ \E code \in Codes, in \in ResultInputs : RecordCheck(code, in)
  \/ \E d \in deviations : Remediate(d)
  \/ \E d \in deviations, in \in ResultInputs : Retest(d, in)
  \/ SubmitReview
  \/ \E reviewer \in Names, n \in 0..MaxItems : RejectReview(reviewer, n)
  \/ \E reviewer \in Names : ApproveReview(reviewer)
  \/ \E S \in SUBSET (1..MaxItems) : \E given \in [S -> Answers] : RespondToReview(given)

Spec == Init /\ [][Next]_vars

-----------------------------------------------------------------------------
(* Properties *)

\* Every row has the shape of its type in models.go.
TypeOK ==
  /\ drill \in DrillRow
  /\ baseline \in Baseline \cup {NoBaseline}
  /\ checkpoints \subseteq Codes
  /\ results \subseteq Result
  /\ deviations \subseteq Deviation
  /\ materials \subseteq Material
  /\ retests \subseteq RetestAttempt
  /\ rounds \in Seq(ReviewRound)
  /\ decision \in Decision \cup {NoDecision}
  /\ events \in Seq(EventTypes)
  /\ preview \in Preview \cup {NoPreview}

Gated == {"ready_for_review", "under_review", "returned", "activated"}

\* The status a handler last wrote always agrees with the rows it was
\* computed from, although each handler writes it on its own: nothing is
\* recorded before the baseline is frozen, a field drill that is not through
\* has a checkpoint without result, remediation has a deviation to close, and
\* from ready_for_review on every check is done and every deviation closed.
StatusMatchesProgress ==
  /\ drill.status \in {"absent", "draft"} =>
       /\ checkpoints = {} /\ baseline = NoBaseline /\ drill.baselineVersion = 0
  /\ drill.status \notin {"absent", "draft"} =>
       /\ checkpoints = Codes
       /\ baseline # NoBaseline /\ baseline.version = drill.baselineVersion
       /\ baseline.layout \in CompleteLayouts
  /\ drill.status \in {"absent", "draft", "baseline_frozen"} =>
       /\ results = {} /\ deviations = {} /\ materials = {} /\ retests = {}
  /\ drill.status = "executing" => ~AllInitialResults(checkpoints, results)
  /\ drill.status = "remediation" =>
       /\ AllInitialResults(checkpoints, results)
       /\ ~AllDeviationsClosed(deviations)
  /\ drill.status \in Gated =>
       /\ AllInitialResults(checkpoints, results)
       /\ AllDeviationsClosed(deviations)

IsLatest(r) == r.attempt = Highest(Attempts(r.code))

\* A checkpoint whose latest attempt breaks a rule has a deviation that is
\* not closed and names that rule, and no other checkpoint has one.
OpenDeviationIffLatestFails ==
  \A r \in results : IsLatest(r) =>
    LET rule == EvaluateResult(r.code, r)
        open == {d \in deviations : d.code = r.code /\ d.status # "closed"}
    IN /\ rule # Passed <=> open # {}
       /\ \A d \in open : d.rule = rule

\* The gate: from ready_for_review on, the latest attempt of each checkpoint
\* exists and breaks no rule.
GateIsEarned ==
  drill.status \in Gated =>
    \A code \in Codes : \E r \in results :
      r.code = code /\ IsLatest(r) /\ EvaluateResult(code, r) = Passed

\* The history of a checkpoint is complete: its attempts are numbered without
\* gaps; each attempt after the first is the subject of one retest row, on
\* remediation material that was submitted; a closed deviation names an
\* attempt that passed.  INSERT OR IGNORE would drop a row with a used number.
RetestHistoryConsistent ==
  /\ \A code \in Codes :
       /\ Attempts(code) = 1..Cardinality({r \in results : r.code = code})
       /\ MaterialVersions(code) = 1..Cardinality({m \in materials : m.code = code})
  /\ \A r \in results : r.attempt > 1 =>
       \E t \in retests : /\ t.code = r.code
                          /\ t.result = r.attempt
                          /\ t.attempt = r.attempt - 1
                          /\ t.rule = EvaluateResult(r.code, r)
                          /\ t.material \in MaterialVersions(r.code)
  /\ \A t \in retests : \E r \in results : r.code = t.code /\ r.attempt = t.result
  /\ \A d \in deviations : d.status = "closed" =>
       \E r \in results : /\ r.code = d.code
                          /\ r.attempt = d.retestResult
                          /\ EvaluateResult(r.code, r) = Passed

\* No check or retest of a checkpoint starts before the initial checks of the
\* checkpoints that precede it have ended, and none counts more participants
\* than the capacity the drill has now.
ResultsFitTheDrill ==
  \A r \in results :
    /\ r.participants <= drill.profile.capacity
    /\ \A s \in results : s.attempt = 1 /\ s.code < r.code => s.end <= r.start

\* A decision exists exactly for an activated drill, was taken by someone
\* other than the lead the drill still has, and verifies: the document rebuilt
\* from the rows of today has the digest that was signed.
DecisionStands ==
  /\ decision # NoDecision <=> drill.status = "activated"
  /\ decision # NoDecision =>
       /\ Independent(decision.reviewer)
       /\ decision.baselineDigest = ContentDigest(baseline.version, baseline.layout)
       /\ decision.documentDigest =
            Document(drill.profile, baseline, decision.baselineDigest, decision.reviewer)

\* At most one round is open: the last one, while the drill is returned.  A
\* frozen round has an answer to each of its items.
OpenRoundIffReturned ==
  /\ drill.status = "returned" => rounds # <<>>
  /\ \A i \in DOMAIN rounds :
       /\ ~rounds[i].frozen <=> i = Len(rounds) /\ drill.status = "returned"
       /\ rounds[i].frozen => AllAnswered(rounds[i])

\* A baseline frozen against a preview is the layout that was previewed, for
\* the profile that was shown with it.
FrozenAsPreviewed ==
  baseline # NoBaseline /\ baseline.confirmed # NoPreview =>
    /\ baseline.confirmed.layout = baseline.layout
    /\ baseline.confirmed.profile = drill.profile

Count(type) == Cardinality({i \in DOMAIN events : events[i] = type})

\* The audit timeline accounts for the record: one event for each version,
\* and as many events of each kind as rows of the tables it reports on.
TimelineAccountsForState ==
  /\ Len(events) = drill.version
  /\ Count("drill_created") = (IF drill.status = "absent" THEN 0 ELSE 1)
  /\ Count("baseline_frozen") = drill.baselineVersion
  /\ Count("checkpoint_recorded") + Count("checkpoint_retested") = Cardinality(results)
  /\ Count("checkpoint_retested") = Cardinality(retests)
  /\ Count("deviation_remediated") = Cardinality(materials)
  /\ Count("review_decided") =
       Len(rounds) + (IF decision = NoDecision THEN 0 ELSE 1)
  /\ Count("review_submitted") = Count("review_decided") +
       (IF drill.status = "under_review" THEN 1 ELSE 0)

\* What was answered in a round that was resubmitted never changes, no round
\* is ever lost, and no command changes an activated drill: all nine handlers
\* refuse it, Retest without a look at its status.
ClosedRecordsStay ==
  [][/\ drill.status # "activated"
     /\ Len(rounds') >= Len(rounds)
     /\ \A i \in DOMAIN rounds : rounds[i].frozen => rounds'[i] = rounds[i]]_vars

=============================================================================
