------------------------ MODULE DrillLifecycleProofs ------------------------
(* Proofs of the safety properties of DrillLifecycle, for every number of   *)
(* checkpoints and every set of forms.                                      *)
EXTENDS DrillLifecycle, FiniteSetTheorems, TLAPS

(***************************************************************************)
(* The inductive invariant.                                                *)
(***************************************************************************)

IsNumbering(S) == Highest(S) \in Nat /\ S = 1..Highest(S)

\* Attempts and material versions count from 1 without gaps.
Numbered == \A code \in Codes : /\ IsNumbering(Attempts(code))
                                /\ IsNumbering(MaterialVersions(code))

\* No two rows share what the tables declare UNIQUE.
KeysUnique ==
  /\ \A r, s \in results : r.code = s.code /\ r.attempt = s.attempt => r = s
  /\ \A d, e \in deviations : d.code = e.code => d = e

\* Checkpoints are recorded in order, and only recorded ones deviate.
RecordedInOrder ==
  /\ \A r \in results : \A c \in Codes : c <= r.code => HasInitialResult(results, c)
  /\ \A d \in deviations : HasInitialResult(results, d.code)

\* Retest looks at the deviation's status only: a deviation is ready for
\* retest in no status but remediation.
RetestOnlyInRemediation ==
  \A d \in deviations : d.status = "ready_for_retest" => drill.status = "remediation"

\* A preview of the current version shows the current profile.
PreviewCurrent ==
  preview # NoPreview =>
    /\ preview.version <= drill.version
    /\ preview.version = drill.version => preview.profile = drill.profile

\* Nothing exists before the drill, and its profile is one that was given.
Exists == IF drill.status = "absent"
          THEN drill.version = 0 /\ preview = NoPreview
          ELSE drill.profile \in Profiles

IInv ==
  /\ TypeOK
  /\ Numbered
  /\ KeysUnique
  /\ RecordedInOrder
  /\ PreviewCurrent
  /\ Exists
  /\ StatusMatchesProgress
  /\ RetestOnlyInRemediation
  /\ OpenDeviationIffLatestFails
  /\ ResultsFitTheDrill
  /\ DecisionStands
  /\ OpenRoundIffReturned
  /\ FrozenAsPreviewed

\* The parts that only depend on what was recorded in the field.
FieldInv == Numbered /\ KeysUnique /\ RecordedInOrder /\ OpenDeviationIffLatestFails

(***************************************************************************)
(* Lemmas on the operators.                                                *)
(***************************************************************************)

LEMMA HighestInterval == \A n \in Nat : Highest(1..n) = n
<1> SUFFICES ASSUME NEW n \in Nat PROVE Highest(1..n) = n
  OBVIOUS
<1>1. CASE n = 0
  BY <1>1 DEF Highest
<1>2. CASE n # 0
  <2>1. n \in 1..n /\ 1..n # {} /\ \A m \in 1..n : m <= n
    BY <1>2
  <2>2. \A k \in 1..n : (\A m \in 1..n : m <= k) => k = n
    BY <2>1
  <2> QED BY <2>1, <2>2 DEF Highest
<1> QED BY <1>1, <1>2

LEMMA HighestSingle == \A k \in Nat : Highest({k}) = k
BY DEF Highest

\* Adding the next number to a numbering leaves a numbering.
LEMMA NumberingGrows ==
  ASSUME NEW S, IsNumbering(S)
  PROVE  /\ IsNumbering(S \cup {Highest(S) + 1})
         /\ Highest(S \cup {Highest(S) + 1}) = Highest(S) + 1
<1> DEFINE n == Highest(S)
<1>1. n \in Nat /\ S = 1..n
  BY DEF IsNumbering
<1> HIDE DEF n
<1>2. (1..n) \cup {n + 1} = 1..(n + 1) /\ n + 1 \in Nat
  BY <1>1
<1>3. Highest(1..(n + 1)) = n + 1
  BY <1>2, HighestInterval
<1>4. S \cup {n + 1} = 1..(n + 1)
  BY <1>1, <1>2
<1>5. Highest(S \cup {n + 1}) = n + 1
  BY <1>3, <1>4
<1> QED BY <1>2, <1>4, <1>5 DEF IsNumbering, n

LEMMA EvaluateResultType ==
  \A code, r : EvaluateResult(code, r) \in Rules \cup {Passed}
BY DEF EvaluateResult, Rules, Passed

LEMMA PassedIsNoRule == Passed \notin Rules
BY DEF Passed, Rules

\* While a drill is returned its last round is the open one; otherwise none is.
LEMMA OpenRound ==
  ASSUME TypeOK, OpenRoundIffReturned
  PROVE  CurrentOpenReviewRound =
           IF drill.status = "returned" THEN Len(rounds) ELSE 0
<1> DEFINE open == {i \in DOMAIN rounds : ~rounds[i].frozen}
<1>1. rounds \in Seq(ReviewRound) /\ Len(rounds) \in Nat /\ DOMAIN rounds = 1..Len(rounds)
  BY DEF TypeOK
<1>2. CASE drill.status = "returned"
  <2>1. rounds # <<>> /\ Len(rounds) \in DOMAIN rounds
    BY <1>1, <1>2 DEF OpenRoundIffReturned
  <2>2. open = {Len(rounds)}
    BY <1>1, <1>2, <2>1 DEF OpenRoundIffReturned
  <2> QED BY <1>1, <1>2, <2>2, HighestSingle DEF CurrentOpenReviewRound
<1>3. CASE drill.status # "returned"
  <2>1. open = {}
    BY <1>1, <1>3 DEF OpenRoundIffReturned
  <2> QED BY <1>3, <2>1 DEF CurrentOpenReviewRound, Highest
<1> QED BY <1>2, <1>3

LEMMA FieldUnchanged ==
  ASSUME FieldInv, UNCHANGED <<results, deviations, materials>>
  PROVE  FieldInv'
BY DEF FieldInv, Numbered, KeysUnique, RecordedInOrder, HasInitialResult,
       OpenDeviationIffLatestFails, IsLatest, IsNumbering, Attempts, MaterialVersions,
       EvaluateResult, MeasuredSeconds

(***************************************************************************)
(* The invariant holds initially and every command preserves it.           *)
(***************************************************************************)

LEMMA InitIInv == Init => IInv
<1> SUFFICES ASSUME Init PROVE IInv
  OBVIOUS
<1> USE DEF Init
<1>1. TypeOK
  BY BoundAssumption DEF TypeOK, DrillRow, Statuses
<1>2. Numbered
  BY DEF Numbered, IsNumbering, Attempts, MaterialVersions, Highest
<1>3. /\ KeysUnique /\ RecordedInOrder /\ PreviewCurrent /\ Exists
      /\ RetestOnlyInRemediation /\ OpenDeviationIffLatestFails /\ ResultsFitTheDrill
      /\ OpenRoundIffReturned /\ FrozenAsPreviewed
  BY DEF KeysUnique, RecordedInOrder, PreviewCurrent, Exists,
         RetestOnlyInRemediation, OpenDeviationIffLatestFails, ResultsFitTheDrill,
         OpenRoundIffReturned, FrozenAsPreviewed
<1>4. StatusMatchesProgress /\ DecisionStands
  BY DEF StatusMatchesProgress, DecisionStands, Gated
<1> QED BY <1>1, <1>2, <1>3, <1>4 DEF IInv

\* What a command that saves the drill leaves in its row.
LEMMA RowSaved ==
  ASSUME IInv, drill.version < MaxVersion,
         NEW status \in Statuses, NEW version \in Nat, NEW profile \in Profiles,
         drill' = NextRow(status, version, profile)
  PROVE  /\ drill' \in DrillRow
         /\ drill'.status = status
         /\ drill'.version = drill.version + 1
         /\ drill'.baselineVersion = version
         /\ drill'.profile = profile
BY BoundAssumption DEF IInv, TypeOK, NextRow, DrillRow

LEMMA Saved ==
  ASSUME IInv, drill.status # "absent",
         NEW status \in Statuses, NEW type \in EventTypes, Save(status, type)
  PROVE  /\ drill' \in DrillRow
         /\ drill'.status = status
         /\ drill'.version = drill.version + 1
         /\ drill'.baselineVersion = drill.baselineVersion
         /\ drill'.profile = drill.profile
         /\ events' \in Seq(EventTypes)
<1>1. drill.version < MaxVersion /\ drill.profile \in Profiles /\ drill.baselineVersion \in Nat
  BY DEF IInv, TypeOK, DrillRow, Exists, Save
<1>2. events' \in Seq(EventTypes)
  BY DEF Save, IInv, TypeOK
<1> QED BY <1>1, <1>2, RowSaved DEF Save

LEMMA CreateDrillStep ==
  ASSUME IInv, NEW in \in Profiles, CreateDrill(in)
  PROVE  IInv'
<1> USE DEF CreateDrill
<1>1. FieldInv'
  BY FieldUnchanged DEF IInv, FieldInv
<1>2. /\ drill' \in DrillRow /\ drill'.status = "draft" /\ drill'.version = 1
      /\ drill'.baselineVersion = 0 /\ drill'.profile = in
  <2>1. drill.version = 0
    BY DEF IInv, Exists
  <2> QED BY <2>1, RowSaved DEF Statuses
<1>3. TypeOK'
  <2>1. events' \in Seq(EventTypes)
    BY DEF EventTypes
  <2> QED BY <1>2, <2>1 DEF IInv, TypeOK
<1>4. PreviewCurrent' /\ Exists'
  BY <1>2 DEF IInv, Exists, PreviewCurrent
<1>5. StatusMatchesProgress' /\ ResultsFitTheDrill' /\ RetestOnlyInRemediation'
  BY <1>2 DEF IInv, StatusMatchesProgress, ResultsFitTheDrill, Gated,
              RetestOnlyInRemediation
<1>6. DecisionStands' /\ OpenRoundIffReturned' /\ FrozenAsPreviewed'
  BY <1>2 DEF IInv, StatusMatchesProgress, DecisionStands, OpenRoundIffReturned,
              FrozenAsPreviewed, AllAnswered
<1> QED BY <1>1, <1>3, <1>4, <1>5, <1>6 DEF IInv, FieldInv

LEMMA ReviseDrillStep ==
  ASSUME IInv, NEW in \in Profiles, ReviseDrill(in)
  PROVE  IInv'
<1> USE DEF ReviseDrill
<1>1. FieldInv'
  BY FieldUnchanged DEF IInv, FieldInv
<1>2. /\ drill' \in DrillRow /\ drill'.status = "draft"
      /\ drill'.version = drill.version + 1 /\ drill.version \in Nat
      /\ drill'.baselineVersion = drill.baselineVersion /\ drill'.profile = in
  BY RowSaved DEF Statuses, IInv, TypeOK, DrillRow
<1>3. TypeOK'
  <2>1. events' \in Seq(EventTypes)
    BY DEF IInv, TypeOK, EventTypes
  <2> QED BY <1>2, <2>1 DEF IInv, TypeOK
<1>4. PreviewCurrent'
  <2>1. preview # NoPreview => preview.version \in Nat /\ preview.version <= drill.version
    BY DEF IInv, TypeOK, Preview, PreviewCurrent
  <2> QED BY <1>2, <2>1 DEF PreviewCurrent
<1>5. Exists' /\ StatusMatchesProgress' /\ ResultsFitTheDrill' /\ RetestOnlyInRemediation'
  BY <1>2 DEF IInv, Exists, StatusMatchesProgress, ResultsFitTheDrill, Gated,
              RetestOnlyInRemediation
<1>6. DecisionStands' /\ OpenRoundIffReturned' /\ FrozenAsPreviewed'
  BY <1>2 DEF IInv, StatusMatchesProgress, DecisionStands, OpenRoundIffReturned,
              FrozenAsPreviewed, AllAnswered
<1> QED BY <1>1, <1>3, <1>4, <1>5, <1>6 DEF IInv, FieldInv

LEMMA PreviewBaselineStep ==
  ASSUME IInv, NEW layout \in Layouts, PreviewBaseline(layout)
  PROVE  IInv'
<1> USE DEF PreviewBaseline
<1>1. FieldInv'
  BY FieldUnchanged DEF IInv, FieldInv
<1>2. /\ preview' \in Preview /\ preview'.version = drill.version
      /\ preview'.profile = drill.profile /\ drill.version \in Nat
  BY DEF IInv, TypeOK, DrillRow, Exists, Preview
<1>3. TypeOK'
  BY <1>2 DEF IInv, TypeOK
<1>4. PreviewCurrent' /\ Exists'
  BY <1>2 DEF IInv, PreviewCurrent, Exists
<1>5. /\ StatusMatchesProgress' /\ ResultsFitTheDrill' /\ RetestOnlyInRemediation'
      /\ DecisionStands' /\ OpenRoundIffReturned' /\ FrozenAsPreviewed'
  BY DEF IInv, StatusMatchesProgress, ResultsFitTheDrill, RetestOnlyInRemediation,
         AllInitialResults, AllDeviationsClosed, HasInitialResult,
         DecisionStands, OpenRoundIffReturned, FrozenAsPreviewed, AllAnswered, Independent
<1> QED BY <1>1, <1>3, <1>4, <1>5 DEF IInv, FieldInv

LEMMA FreezeBaselineStep ==
  ASSUME IInv, NEW layout \in Layouts, NEW held \in {preview, NoPreview},
         FreezeBaseline(layout, held)
  PROVE  IInv'
<1> USE DEF FreezeBaseline
<1>1. FieldInv'
  BY FieldUnchanged DEF IInv, FieldInv
<1>2. /\ drill' \in DrillRow /\ drill'.status = "baseline_frozen"
      /\ drill'.version = drill.version + 1 /\ drill.version \in Nat
      /\ drill'.baselineVersion = drill.baselineVersion + 1 /\ drill.baselineVersion \in Nat
      /\ drill'.profile = drill.profile /\ drill.profile \in Profiles
  BY RowSaved DEF Statuses, IInv, TypeOK, DrillRow, Exists
<1>3. /\ baseline' \in Baseline /\ baseline'.version = drill.baselineVersion + 1
      /\ baseline'.layout = layout /\ baseline'.confirmed = held
  BY <1>2 DEF IInv, TypeOK, Baseline
<1>4. baseline' # NoBaseline
  BY <1>2, <1>3 DEF NoBaseline, IInv, StatusMatchesProgress
<1>5. TypeOK'
  <2>1. events' \in Seq(EventTypes)
    BY DEF IInv, TypeOK, EventTypes
  <2> QED BY <1>2, <1>3, <2>1 DEF IInv, TypeOK
<1>6. PreviewCurrent' /\ Exists'
  BY <1>2 DEF IInv, PreviewCurrent, Exists
<1>7. StatusMatchesProgress' /\ ResultsFitTheDrill' /\ RetestOnlyInRemediation'
  BY <1>2, <1>3, <1>4 DEF IInv, StatusMatchesProgress, ResultsFitTheDrill, Gated,
              RetestOnlyInRemediation
<1>8. DecisionStands' /\ OpenRoundIffReturned'
  BY <1>2 DEF IInv, StatusMatchesProgress, DecisionStands, OpenRoundIffReturned, AllAnswered
<1>9. FrozenAsPreviewed'
  <2>1. CASE held = NoPreview
    BY <1>3, <2>1 DEF FrozenAsPreviewed
  <2>2. CASE held # NoPreview
    <3>1. held = preview /\ preview.version = drill.version /\ preview.layout = layout
      BY <2>2 DEF PreviewDigest
    <3>2. preview.profile = drill.profile
      BY <2>2, <3>1 DEF IInv, PreviewCurrent
    <3> QED BY <1>2, <1>3, <3>1, <3>2 DEF FrozenAsPreviewed
  <2> QED BY <2>1, <2>2
<1> QED BY <1>1, <1>5, <1>6, <1>7, <1>8, <1>9 DEF IInv, FieldInv

\* A result keeps what its form's evaluation depends on.
LEMMA BuildResultEvaluates ==
  ASSUME NEW code \in Codes, NEW in \in ResultInputs, NEW attempt \in Nat
  PROVE  /\ BuildResult(code, in, attempt) \in Result
         /\ BuildResult(code, in, attempt).code = code
         /\ BuildResult(code, in, attempt).attempt = attempt
         /\ BuildResult(code, in, attempt).participants = in.participants
         /\ BuildResult(code, in, attempt).start = in.start
         /\ BuildResult(code, in, attempt).end = in.end
         /\ EvaluateResult(code, BuildResult(code, in, attempt)) = EvaluateResult(code, in)
BY ResultsAssumption DEF BuildResult, Result, EvaluateResult, MeasuredSeconds

LEMMA RecordCheckStep ==
  ASSUME IInv, NEW code \in Codes, NEW in \in ResultInputs, RecordCheck(code, in)
  PROVE  IInv'
<1> DEFINE rule == EvaluateResult(code, in)
           new  == BuildResult(code, in, 1)
           dev  == [code |-> code, rule |-> rule, status |-> "open", retestResult |-> 0]
<1>1. /\ new \in Result /\ new.code = code /\ new.attempt = 1
      /\ new.participants = in.participants /\ new.start = in.start /\ new.end = in.end
      /\ EvaluateResult(code, new) = rule
  BY BuildResultEvaluates
<1>2. rule \in Rules \cup {Passed}
  BY EvaluateResultType
<1>3. /\ results' = results \cup {new}
      /\ deviations' = IF rule = Passed THEN deviations ELSE deviations \cup {dev}
      /\ Save(RecalculatedStatus(results', deviations'), "checkpoint_recorded")
      /\ ~HasInitialResult(results, code)
      /\ \A c \in checkpoints : c < code => HasInitialResult(results, c)
      /\ ValidateResultForDrill(code, in)
      /\ UNCHANGED <<baseline, checkpoints, materials, retests, rounds, decision, preview>>
  BY DEF RecordCheck
<1>4. /\ results \subseteq Result /\ deviations \subseteq Deviation
      /\ code \in checkpoints /\ checkpoints = Codes
  BY DEF IInv, TypeOK, RecordCheck, StatusMatchesProgress
<1>5. drill.status \in {"baseline_frozen", "executing"}
  BY <1>3, <1>4 DEF RecordCheck, IInv, StatusMatchesProgress, AllInitialResults
<1>6. /\ dev.code = code /\ dev.rule = rule /\ dev.status = "open"
      /\ rule # Passed => dev \in Deviation
  BY <1>2 DEF Deviation
<1> HIDE DEF rule, new, dev
<1>7. /\ \A r \in results : r.code \in Codes /\ r.code < code
      /\ \A d \in deviations : d.code # code
  <2>1. ASSUME NEW r \in results PROVE r.code \in Codes /\ ~(code <= r.code)
    BY <1>3, <1>4 DEF Result, IInv, RecordedInOrder
  <2>2. \A r \in results : r.code \in Codes /\ r.code < code
    BY <2>1, CheckpointsAssumption DEF Codes
  <2>3. \A d \in deviations : d.code # code
    BY <1>3 DEF IInv, RecordedInOrder
  <2> QED BY <2>2, <2>3
<1>8. /\ Attempts(code)' = {1}
      /\ \A c \in Codes : c # code => Attempts(c)' = Attempts(c)
  <2>1. \A r \in results : r.code # code
    BY <1>7, CheckpointsAssumption DEF Codes
  <2>2. Attempts(code)' = {1}
    BY <1>1, <1>3, <2>1 DEF Attempts
  <2>3. ASSUME NEW c \in Codes, c # code PROVE Attempts(c)' = Attempts(c)
    BY <1>1, <1>3, <2>3 DEF Attempts
  <2> QED BY <2>2, <2>3
<1>9. Numbered'
  <2>1. IsNumbering({1})
    BY HighestSingle DEF IsNumbering
  <2>2. ASSUME NEW c \in Codes PROVE IsNumbering(Attempts(c)')
    BY <1>8, <2>1 DEF IInv, Numbered
  <2>3. ASSUME NEW c \in Codes PROVE IsNumbering(MaterialVersions(c)')
    BY <1>3 DEF IInv, Numbered, MaterialVersions
  <2> QED BY <2>2, <2>3 DEF Numbered, IsNumbering
<1>10. KeysUnique'
  BY <1>1, <1>3, <1>6, <1>7, CheckpointsAssumption DEF IInv, KeysUnique, Codes
<1>11. RecordedInOrder'
  <2>1. \A c \in Codes : HasInitialResult(results, c) => HasInitialResult(results', c)
    BY <1>3 DEF HasInitialResult
  <2>2. HasInitialResult(results', code)
    BY <1>1, <1>3 DEF HasInitialResult
  <2>3. \A c \in Codes : c <= code => HasInitialResult(results', c)
    <3> SUFFICES ASSUME NEW c \in Codes, c <= code PROVE HasInitialResult(results', c)
      OBVIOUS
    <3>1. c < code \/ c = code
      BY CheckpointsAssumption DEF Codes
    <3> QED BY <1>3, <1>4, <2>1, <2>2, <3>1
  <2>4. \A r \in results' : \A c \in Codes : c <= r.code => HasInitialResult(results', c)
    BY <1>1, <1>3, <2>1, <2>3 DEF IInv, RecordedInOrder
  <2>5. \A d \in deviations' : HasInitialResult(results', d.code)
    BY <1>3, <1>4, <1>6, <2>1, <2>2 DEF IInv, RecordedInOrder, Deviation
  <2> QED BY <2>4, <2>5 DEF RecordedInOrder
<1>12. OpenDeviationIffLatestFails'
  <2> DEFINE open(r, devs) == {d \in devs : d.code = r.code /\ d.status # "closed"}
  <2>1. /\ rule # Passed <=> open(new, deviations') # {}
        /\ \A d \in open(new, deviations') : d.rule = rule
    BY <1>1, <1>3, <1>6, <1>7
  <2>2. ASSUME NEW r \in results, IsLatest(r)'
        PROVE  /\ EvaluateResult(r.code, r) # Passed <=> open(r, deviations') # {}
               /\ \A d \in open(r, deviations') : d.rule = EvaluateResult(r.code, r)
    <3>1. r.code # code /\ r.code \in Codes
      BY <1>7, CheckpointsAssumption DEF Codes
    <3>2. IsLatest(r)
      BY <1>8, <2>2, <3>1 DEF IsLatest
    <3>3. open(r, deviations') = open(r, deviations)
      BY <1>3, <1>6, <3>1
    <3> QED BY <3>2, <3>3 DEF IInv, OpenDeviationIffLatestFails
  <2> QED BY <1>1, <1>3, <2>1, <2>2 DEF OpenDeviationIffLatestFails, IsLatest,
                                       EvaluateResult, MeasuredSeconds
<1>13. /\ drill.status # "absent"
       /\ RecalculatedStatus(results', deviations') \in
            {"executing", "remediation", "ready_for_review"}
       /\ "checkpoint_recorded" \in EventTypes
  BY <1>5 DEF RecalculatedStatus, EventTypes
<1>14. /\ drill' \in DrillRow
       /\ drill'.status = RecalculatedStatus(results', deviations')
       /\ drill'.version = drill.version + 1
       /\ drill'.baselineVersion = drill.baselineVersion
       /\ drill'.profile = drill.profile
       /\ events' \in Seq(EventTypes)
  BY <1>3, <1>13, Saved DEF Statuses
<1>15. TypeOK'
  BY <1>1, <1>3, <1>4, <1>6, <1>14 DEF IInv, TypeOK
<1>16. ResultsFitTheDrill'
  BY <1>1, <1>3, <1>7, <1>14, CheckpointsAssumption
     DEF IInv, ResultsFitTheDrill, ValidateResultForDrill, Codes
<1>17. StatusMatchesProgress'
  BY <1>3, <1>4, <1>5, <1>13, <1>14
     DEF IInv, StatusMatchesProgress, RecalculatedStatus, Gated
<1>18. RetestOnlyInRemediation'
  BY <1>3, <1>5, <1>6 DEF IInv, RetestOnlyInRemediation
<1>19. PreviewCurrent' /\ Exists'
  BY <1>3, <1>13, <1>14 DEF IInv, PreviewCurrent, Exists, TypeOK, Preview, DrillRow
<1>20. DecisionStands' /\ OpenRoundIffReturned' /\ FrozenAsPreviewed'
  BY <1>3, <1>5, <1>13, <1>14
     DEF IInv, DecisionStands, OpenRoundIffReturned, FrozenAsPreviewed, Independent, AllAnswered
<1> QED BY <1>9, <1>10, <1>11, <1>12, <1>15, <1>16, <1>17, <1>18, <1>19, <1>20 DEF IInv

LEMMA RemediateStep ==
  ASSUME IInv, NEW d \in deviations, Remediate(d)
  PROVE  IInv'
<1> DEFINE ready == ReadyForRetest(d, d.rule)
           version == MaterialVersion(d.code) + 1
           material == [code |-> d.code, version |-> version]
<1>1. /\ drill.status = "remediation" /\ d.status # "closed"
      /\ deviations' = (deviations \ {d}) \cup {ready}
      /\ materials' = materials \cup {material}
      /\ Save("remediation", "deviation_remediated")
      /\ UNCHANGED <<baseline, checkpoints, results, retests, rounds, decision, preview>>
  BY DEF Remediate
<1>2. /\ d \in Deviation /\ deviations \subseteq Deviation
      /\ materials \subseteq Material /\ results \subseteq Result
  BY DEF IInv, TypeOK
<1>3. /\ ready \in Deviation /\ ready.code = d.code /\ ready.rule = d.rule
      /\ ready.status = "ready_for_retest" /\ d.code \in Codes
  BY <1>2 DEF ReadyForRetest, Deviation
<1>4. /\ IsNumbering(MaterialVersions(d.code)) /\ version = Highest(MaterialVersions(d.code)) + 1
      /\ version \in Nat
  BY <1>3 DEF IInv, Numbered, MaterialVersion, IsNumbering
<1>5. material \in Material /\ material.code = d.code /\ material.version = version
  BY <1>3, <1>4 DEF Material
<1> HIDE DEF ready, version, material
<1>6. Numbered'
  <2>1. ASSUME NEW c \in Codes PROVE IsNumbering(Attempts(c)')
    BY <1>1 DEF IInv, Numbered, Attempts
  <2>2. ASSUME NEW c \in Codes, c # d.code
        PROVE IsNumbering(MaterialVersions(c)')
    <3>1. MaterialVersions(c)' = MaterialVersions(c)
      BY <1>1, <1>5, <2>2 DEF MaterialVersions
    <3> QED BY <3>1 DEF IInv, Numbered
  <2>3. IsNumbering(MaterialVersions(d.code)')
    <3>1. MaterialVersions(d.code)' = MaterialVersions(d.code) \cup {version}
      BY <1>1, <1>5 DEF MaterialVersions
    <3> QED BY <1>4, <3>1, NumberingGrows
  <2> QED BY <2>1, <2>2, <2>3 DEF Numbered, IsNumbering
<1>7. KeysUnique' /\ RecordedInOrder'
  BY <1>1, <1>3 DEF IInv, KeysUnique, RecordedInOrder, HasInitialResult
<1>8. OpenDeviationIffLatestFails'
  <2> DEFINE open(r, devs) == {e \in devs : e.code = r.code /\ e.status # "closed"}
  <2>1. ASSUME NEW r \in results
        PROVE  /\ open(r, deviations') # {} <=> open(r, deviations) # {}
               /\ \A e \in open(r, deviations') : \E f \in open(r, deviations) : e.rule = f.rule
    BY <1>1, <1>3
  <2>2. ASSUME NEW r \in results PROVE IsLatest(r)' <=> IsLatest(r)
    BY <1>1 DEF IsLatest, Attempts
  <2> QED BY <1>1, <2>1, <2>2 DEF IInv, OpenDeviationIffLatestFails, EvaluateResult, MeasuredSeconds
<1>9. /\ drill' \in DrillRow
      /\ drill'.status = "remediation"
      /\ drill'.version = drill.version + 1
      /\ drill'.baselineVersion = drill.baselineVersion
      /\ drill'.profile = drill.profile
      /\ events' \in Seq(EventTypes)
  BY <1>1, Saved DEF Statuses, EventTypes
<1>10. TypeOK'
  BY <1>1, <1>3, <1>5, <1>9 DEF IInv, TypeOK
<1>11. StatusMatchesProgress'
  <2>1. ready \in deviations' /\ ready.status # "closed"
    BY <1>1, <1>3
  <2> QED BY <1>1, <1>9, <2>1
          DEF IInv, StatusMatchesProgress, Gated, AllInitialResults, AllDeviationsClosed
<1>12. ResultsFitTheDrill' /\ RetestOnlyInRemediation'
  BY <1>1, <1>9 DEF IInv, ResultsFitTheDrill, RetestOnlyInRemediation
<1>13. PreviewCurrent' /\ Exists'
  BY <1>1, <1>9 DEF IInv, PreviewCurrent, Exists, TypeOK, Preview, DrillRow
<1>14. DecisionStands' /\ OpenRoundIffReturned' /\ FrozenAsPreviewed'
  BY <1>1, <1>9
     DEF IInv, DecisionStands, OpenRoundIffReturned, FrozenAsPreviewed, Independent, AllAnswered
<1> QED BY <1>6, <1>7, <1>8, <1>10, <1>11, <1>12, <1>13, <1>14 DEF IInv

LEMMA RetestStep ==
  ASSUME IInv, NEW d \in deviations, NEW in \in ResultInputs, Retest(d, in)
  PROVE  IInv'
<1> DEFINE attempt == NextAttempt(d.code)
           rule == EvaluateResult(d.code, in)
           new  == BuildResult(d.code, in, attempt)
           dev  == Retested(d, rule, attempt)
           row  == [code |-> d.code, attempt |-> attempt - 1, result |-> attempt,
                    material |-> MaterialVersion(d.code), rule |-> rule]
<1>1. /\ d.status = "ready_for_retest" /\ d.code \in checkpoints
      /\ ValidateResultForDrill(d.code, in)
      /\ results' = results \cup {new}
      /\ retests' = retests \cup {row}
      /\ deviations' = (deviations \ {d}) \cup {dev}
      /\ Save(RecalculatedStatus(results', deviations'), "checkpoint_retested")
      /\ UNCHANGED <<baseline, checkpoints, materials, rounds, decision, preview>>
  BY DEF Retest
<1>2. drill.status = "remediation"
  BY <1>1 DEF IInv, RetestOnlyInRemediation
<1>3. /\ d \in Deviation /\ d.code \in Codes /\ deviations \subseteq Deviation
      /\ results \subseteq Result
  BY DEF IInv, TypeOK, Deviation
<1>4. /\ IsNumbering(Attempts(d.code)) /\ attempt = Highest(Attempts(d.code)) + 1
      /\ attempt \in Nat /\ attempt > 1 /\ attempt \notin Attempts(d.code)
      /\ \A k \in Attempts(d.code) : k # attempt
  <2>1. IsNumbering(Attempts(d.code))
    BY <1>3 DEF IInv, Numbered
  <2>2. 1 \in Attempts(d.code)
    BY DEF IInv, RecordedInOrder, HasInitialResult, Attempts
  <2> QED BY <2>1, <2>2 DEF IsNumbering, NextAttempt
<1>5. /\ new \in Result /\ new.code = d.code /\ new.attempt = attempt
      /\ new.participants = in.participants /\ new.start = in.start /\ new.end = in.end
      /\ EvaluateResult(d.code, new) = rule
  BY <1>3, <1>4, BuildResultEvaluates
<1>6. rule \in Rules \cup {Passed}
  BY EvaluateResultType
<1>7. /\ dev \in Deviation /\ dev.code = d.code
      /\ rule = Passed => dev.status = "closed"
      /\ rule # Passed => dev.status = "ready_for_retest" /\ dev.rule = rule
  BY <1>3, <1>4, <1>6 DEF Retested, Closed, ReadyForRetest, Deviation
<1>8. row \in RetestAttempt
  <2>1. MaterialVersion(d.code) \in Nat
    BY <1>3 DEF IInv, Numbered, IsNumbering, MaterialVersion
  <2> QED BY <1>3, <1>4, <1>6, <2>1 DEF RetestAttempt
<1> HIDE DEF attempt, rule, new, dev, row
<1>9. /\ Attempts(d.code)' = Attempts(d.code) \cup {attempt}
      /\ \A c \in Codes : c # d.code => Attempts(c)' = Attempts(c)
  <2>1. Attempts(d.code)' = Attempts(d.code) \cup {attempt}
    BY <1>1, <1>5 DEF Attempts
  <2>2. ASSUME NEW c \in Codes, c # d.code PROVE Attempts(c)' = Attempts(c)
    BY <1>1, <1>5, <2>2 DEF Attempts
  <2> QED BY <2>1, <2>2
<1>10. IsNumbering(Attempts(d.code)') /\ Highest(Attempts(d.code)') = attempt
  BY <1>4, <1>9, NumberingGrows
<1>11. Numbered'
  <2>1. ASSUME NEW c \in Codes PROVE IsNumbering(Attempts(c)')
    BY <1>9, <1>10 DEF IInv, Numbered
  <2>2. ASSUME NEW c \in Codes PROVE IsNumbering(MaterialVersions(c)')
    BY <1>1 DEF IInv, Numbered, MaterialVersions
  <2> QED BY <2>1, <2>2 DEF Numbered, IsNumbering
<1>12. KeysUnique'
  <2>1. \A r \in results : ~(r.code = new.code /\ r.attempt = new.attempt)
    BY <1>4, <1>5 DEF Attempts
  <2> QED BY <1>1, <1>7, <2>1 DEF IInv, KeysUnique
<1>13. RecordedInOrder'
  <2>1. \A c \in Codes : HasInitialResult(results, c) => HasInitialResult(results', c)
    BY <1>1 DEF HasInitialResult
  <2>2. \A c \in Codes : c <= d.code => HasInitialResult(results', c)
    <3>1. PICK r \in results : r.code = d.code
      BY DEF IInv, RecordedInOrder, HasInitialResult
    <3> QED BY <2>1, <3>1 DEF IInv, RecordedInOrder
  <2>3. \A r \in results' : \A c \in Codes : c <= r.code => HasInitialResult(results', c)
    BY <1>1, <1>5, <2>1, <2>2 DEF IInv, RecordedInOrder
  <2>4. \A e \in deviations' : HasInitialResult(results', e.code)
    BY <1>1, <1>3, <1>7, <2>1 DEF IInv, RecordedInOrder, Deviation
  <2> QED BY <2>3, <2>4 DEF RecordedInOrder
<1>14. OpenDeviationIffLatestFails'
  <2> DEFINE open(r, devs) == {e \in devs : e.code = r.code /\ e.status # "closed"}
  <2>1. /\ rule # Passed <=> open(new, deviations') # {}
        /\ \A e \in open(new, deviations') : e.rule = rule
    <3>1. \A e \in deviations \ {d} : e.code # d.code
      BY DEF IInv, KeysUnique
    <3> QED BY <1>1, <1>5, <1>7, <3>1
  <2>2. ASSUME NEW r \in results, IsLatest(r)'
        PROVE  /\ EvaluateResult(r.code, r) # Passed <=> open(r, deviations') # {}
               /\ \A e \in open(r, deviations') : e.rule = EvaluateResult(r.code, r)
    <3>1. r.code # d.code
      <4> SUFFICES ASSUME r.code = d.code PROVE FALSE
        OBVIOUS
      <4>1. r.attempt \in Attempts(d.code)
        BY DEF Attempts
      <4> QED BY <1>4, <1>10, <2>2, <4>1 DEF IsLatest
    <3>2. IsLatest(r)
      BY <1>3, <1>9, <2>2, <3>1 DEF IsLatest, Result
    <3>3. open(r, deviations') = open(r, deviations)
      BY <1>1, <1>7, <3>1
    <3> QED BY <3>2, <3>3 DEF IInv, OpenDeviationIffLatestFails
  <2> QED BY <1>1, <1>5, <2>1, <2>2 DEF OpenDeviationIffLatestFails, IsLatest,
                                       EvaluateResult, MeasuredSeconds
<1>15. /\ AllInitialResults(checkpoints, results')
       /\ RecalculatedStatus(results', deviations') =
            IF AllDeviationsClosed(deviations') THEN "ready_for_review" ELSE "remediation"
  <2>1. AllInitialResults(checkpoints, results')
    BY <1>1, <1>2 DEF IInv, StatusMatchesProgress, AllInitialResults, HasInitialResult
  <2> QED BY <1>2, <2>1 DEF RecalculatedStatus
<1>16. /\ drill' \in DrillRow
       /\ drill'.status = RecalculatedStatus(results', deviations')
       /\ drill'.version = drill.version + 1
       /\ drill'.baselineVersion = drill.baselineVersion
       /\ drill'.profile = drill.profile
       /\ events' \in Seq(EventTypes)
  <2>1. RecalculatedStatus(results', deviations') \in Statuses
    BY <1>15 DEF Statuses
  <2> QED BY <1>1, <1>2, <2>1, Saved DEF EventTypes
<1>17. TypeOK'
  BY <1>1, <1>5, <1>7, <1>8, <1>16 DEF IInv, TypeOK
<1>18. StatusMatchesProgress'
  BY <1>1, <1>2, <1>15, <1>16 DEF IInv, StatusMatchesProgress, Gated
<1>19. RetestOnlyInRemediation'
  BY <1>15, <1>16 DEF RetestOnlyInRemediation, AllDeviationsClosed
<1>20. ResultsFitTheDrill'
  BY <1>1, <1>4, <1>5, <1>16 DEF IInv, ResultsFitTheDrill, ValidateResultForDrill
<1>21. PreviewCurrent' /\ Exists'
  BY <1>1, <1>2, <1>15, <1>16 DEF IInv, PreviewCurrent, Exists, TypeOK, Preview, DrillRow
<1>22. DecisionStands' /\ OpenRoundIffReturned' /\ FrozenAsPreviewed'
  BY <1>1, <1>2, <1>15, <1>16
     DEF IInv, DecisionStands, OpenRoundIffReturned, FrozenAsPreviewed, Independent, AllAnswered
<1> QED BY <1>11, <1>12, <1>13, <1>14, <1>17, <1>18, <1>19, <1>20, <1>21, <1>22 DEF IInv

\* The last round of a returned drill, and what a round is made of.
LEMMA LastRound ==
  ASSUME IInv, drill.status = "returned"
  PROVE  /\ CurrentOpenReviewRound = Len(rounds)
         /\ Len(rounds) \in 1..Len(rounds)
         /\ DOMAIN rounds = 1..Len(rounds)
         /\ rounds[Len(rounds)] \in ReviewRound
         /\ ~rounds[Len(rounds)].frozen
<1>1. /\ rounds \in Seq(ReviewRound) /\ rounds # <<>> /\ Len(rounds) \in Nat
      /\ DOMAIN rounds = 1..Len(rounds)
  BY DEF IInv, TypeOK, OpenRoundIffReturned
<1>2. CurrentOpenReviewRound = Len(rounds)
  BY OpenRound DEF IInv
<1>3. Len(rounds) \in 1..Len(rounds)
  BY <1>1
<1>4. rounds[Len(rounds)] \in ReviewRound
  BY <1>1, <1>3
<1> QED BY <1>1, <1>2, <1>3, <1>4 DEF IInv, OpenRoundIffReturned

\* Commands of the review phase leave what was recorded in the field alone
\* and move the drill between statuses that all need it to be complete.
LEMMA ReviewStep ==
  ASSUME IInv, NEW status \in {"under_review", "returned", "activated"},
         drill.status \in {"ready_for_review", "under_review", "returned"},
         Save(status, "review_submitted") \/ Save(status, "review_decided")
           \/ Save(status, "review_items_responded"),
         UNCHANGED <<baseline, checkpoints, results, deviations, materials, retests, preview>>
  PROVE  /\ drill' \in DrillRow /\ drill'.status = status /\ drill'.profile = drill.profile
         /\ events' \in Seq(EventTypes)
         /\ FieldInv' /\ PreviewCurrent' /\ Exists' /\ StatusMatchesProgress'
         /\ RetestOnlyInRemediation' /\ ResultsFitTheDrill' /\ FrozenAsPreviewed'
<1>1. /\ drill' \in DrillRow
      /\ drill'.status = status
      /\ drill'.version = drill.version + 1
      /\ drill'.baselineVersion = drill.baselineVersion
      /\ drill'.profile = drill.profile
      /\ events' \in Seq(EventTypes)
  BY Saved DEF Statuses, EventTypes
<1>2. FieldInv'
  BY FieldUnchanged DEF IInv, FieldInv
<1>3. StatusMatchesProgress'
  BY <1>1 DEF IInv, StatusMatchesProgress, Gated
<1>4. PreviewCurrent' /\ Exists'
  BY <1>1 DEF IInv, PreviewCurrent, Exists, TypeOK, Preview, DrillRow
<1>5. RetestOnlyInRemediation' /\ ResultsFitTheDrill' /\ FrozenAsPreviewed'
  BY <1>1 DEF IInv, RetestOnlyInRemediation, ResultsFitTheDrill, FrozenAsPreviewed
<1> QED BY <1>1, <1>2, <1>3, <1>4, <1>5

LEMMA SubmitReviewStep ==
  ASSUME IInv, SubmitReview
  PROVE  IInv'
<1>1. /\ drill.status \in {"ready_for_review", "returned"}
      /\ rounds' = FrozenRounds
      /\ Save("under_review", "review_submitted")
      /\ UNCHANGED <<baseline, checkpoints, results, deviations, materials, retests,
                     decision, preview>>
  BY DEF SubmitReview
<1>2. /\ drill' \in DrillRow /\ drill'.status = "under_review"
      /\ drill'.profile = drill.profile /\ events' \in Seq(EventTypes)
      /\ FieldInv' /\ PreviewCurrent' /\ Exists' /\ StatusMatchesProgress'
      /\ RetestOnlyInRemediation' /\ ResultsFitTheDrill' /\ FrozenAsPreviewed'
  BY <1>1, ReviewStep
<1>3. rounds' \in Seq(ReviewRound) /\ OpenRoundIffReturned'
  <2>1. CASE drill.status = "ready_for_review"
    <3>1. rounds' = rounds
      BY <1>1, <2>1 DEF FrozenRounds
    <3> QED BY <1>2, <2>1, <3>1 DEF IInv, TypeOK, OpenRoundIffReturned, AllAnswered
  <2>2. CASE drill.status = "returned"
    <3> DEFINE n == Len(rounds)
               last == [rounds[n] EXCEPT !.frozen = TRUE]
    <3>1. /\ n \in 1..n /\ DOMAIN rounds = 1..n /\ rounds[n] \in ReviewRound
          /\ AllAnswered(rounds[n]) /\ rounds \in Seq(ReviewRound)
          /\ rounds' = [rounds EXCEPT ![n] = last]
      BY <1>1, <2>2, LastRound DEF SubmitReview, FrozenRounds, IInv, TypeOK
    <3>2. last \in ReviewRound /\ last.frozen /\ last.items = rounds[n].items
      BY <3>1 DEF ReviewRound
    <3> HIDE DEF last
    <3>3. rounds' \in Seq(ReviewRound) /\ Len(rounds') = n /\ DOMAIN rounds' = 1..n
      BY <3>1, <3>2
    <3>4. ASSUME NEW i \in 1..n
          PROVE  rounds'[i].frozen /\ AllAnswered(rounds'[i])
      <4>1. CASE i = n
        BY <3>1, <3>2, <4>1 DEF AllAnswered
      <4>2. CASE i # n
        BY <3>1, <4>2, <2>2 DEF IInv, OpenRoundIffReturned
      <4> QED BY <4>1, <4>2
    <3> QED BY <1>2, <3>3, <3>4 DEF OpenRoundIffReturned, AllAnswered
  <2> QED BY <1>1, <2>1, <2>2
<1>4. TypeOK'
  BY <1>1, <1>2, <1>3 DEF IInv, TypeOK
<1>5. DecisionStands'
  BY <1>1, <1>2 DEF IInv, DecisionStands
<1> QED BY <1>2, <1>3, <1>4, <1>5 DEF IInv, FieldInv

LEMMA RejectReviewStep ==
  ASSUME IInv, NEW reviewer \in Names, NEW n \in 0..MaxItems, RejectReview(reviewer, n)
  PROVE  IInv'
<1> DEFINE round == [reviewer |-> reviewer, frozen |-> FALSE,
                     items |-> [i \in 1..n |-> Blank]]
<1>1. /\ drill.status = "under_review" /\ n > 0
      /\ rounds' = Append(rounds, round)
      /\ Save("returned", "review_decided")
      /\ UNCHANGED <<baseline, checkpoints, results, deviations, materials, retests,
                     decision, preview>>
  BY DEF RejectReview
<1>2. /\ drill' \in DrillRow /\ drill'.status = "returned"
      /\ drill'.profile = drill.profile /\ events' \in Seq(EventTypes)
      /\ FieldInv' /\ PreviewCurrent' /\ Exists' /\ StatusMatchesProgress'
      /\ RetestOnlyInRemediation' /\ ResultsFitTheDrill' /\ FrozenAsPreviewed'
  BY <1>1, ReviewStep
<1>3. round \in ReviewRound /\ ~round.frozen
  <2>1. n \in 1..MaxItems
    BY <1>1, ReviewAssumption
  <2>2. [i \in 1..n |-> Blank] \in [1..n -> Answers \cup {Blank}]
    OBVIOUS
  <2> QED BY <2>1, <2>2 DEF ReviewRound
<1> HIDE DEF round
<1>4. rounds \in Seq(ReviewRound) /\ Len(rounds) \in Nat /\ DOMAIN rounds = 1..Len(rounds)
  BY DEF IInv, TypeOK
<1>5. /\ rounds' \in Seq(ReviewRound) /\ Len(rounds') = Len(rounds) + 1
      /\ DOMAIN rounds' = 1..(Len(rounds) + 1)
      /\ \A i \in 1..Len(rounds) : rounds'[i] = rounds[i]
      /\ rounds'[Len(rounds) + 1] = round
  BY <1>1, <1>3, <1>4
<1>6. OpenRoundIffReturned'
  <2>1. \A i \in 1..Len(rounds) : rounds[i].frozen /\ AllAnswered(rounds[i])
    BY <1>1, <1>4 DEF IInv, OpenRoundIffReturned
  <2>2. ASSUME NEW i \in DOMAIN rounds'
        PROVE  /\ ~rounds'[i].frozen <=> i = Len(rounds') /\ drill'.status = "returned"
               /\ rounds'[i].frozen => AllAnswered(rounds'[i])
    <3>1. CASE i = Len(rounds) + 1
      BY <1>2, <1>3, <1>5, <3>1
    <3>2. CASE i # Len(rounds) + 1
      <4>1. i \in 1..Len(rounds) /\ rounds'[i] = rounds[i]
        BY <1>4, <1>5, <3>2
      <4> QED BY <1>4, <1>5, <2>1, <4>1
    <3> QED BY <3>1, <3>2
  <2>3. rounds' # <<>>
    BY <1>4, <1>5
  <2> QED BY <2>2, <2>3 DEF OpenRoundIffReturned, AllAnswered
<1>7. TypeOK'
  BY <1>1, <1>2, <1>5 DEF IInv, TypeOK
<1>8. DecisionStands'
  BY <1>1, <1>2 DEF IInv, DecisionStands
<1> QED BY <1>2, <1>6, <1>7, <1>8 DEF IInv, FieldInv

LEMMA ApproveReviewStep ==
  ASSUME IInv, NEW reviewer \in Names, ApproveReview(reviewer)
  PROVE  IInv'
<1> DEFINE digest == ContentDigest(baseline.version, baseline.layout)
<1>1. /\ drill.status = "under_review" /\ Independent(reviewer)
      /\ decision' = [reviewer |-> reviewer, baselineDigest |-> digest,
                      documentDigest |-> Document(drill.profile, baseline, digest, reviewer)]
      /\ Save("activated", "review_decided")
      /\ UNCHANGED <<baseline, checkpoints, results, deviations, materials, retests,
                     rounds, preview>>
  BY DEF ApproveReview
<1>2. /\ drill' \in DrillRow /\ drill'.status = "activated"
      /\ drill'.profile = drill.profile /\ events' \in Seq(EventTypes)
      /\ FieldInv' /\ PreviewCurrent' /\ Exists' /\ StatusMatchesProgress'
      /\ RetestOnlyInRemediation' /\ ResultsFitTheDrill' /\ FrozenAsPreviewed'
  BY <1>1, ReviewStep
<1>3. /\ decision' \in Decision /\ decision'.reviewer = reviewer
      /\ decision'.baselineDigest = digest
      /\ decision'.documentDigest = Document(drill.profile, baseline, digest, reviewer)
  <2>1. baseline.version \in Nat /\ baseline.layout \in Layouts /\ drill.profile \in Profiles
    BY <1>1 DEF IInv, TypeOK, StatusMatchesProgress, Baseline, Exists
  <2>2. digest \in Nat \X Layouts
    BY <2>1 DEF ContentDigest
  <2>3. Document(drill.profile, baseline, digest, reviewer) \in
          [profile : Profiles, baselineVersion : Nat, baselineDigest : Nat \X Layouts,
           reviewer : Names]
    BY <2>1, <2>2 DEF Document
  <2> QED BY <1>1, <2>2, <2>3 DEF Decision
<1>4. decision' # NoDecision
  BY <1>1, <1>3 DEF NoDecision, Independent
<1>5. TypeOK'
  BY <1>1, <1>2, <1>3 DEF IInv, TypeOK
<1>6. OpenRoundIffReturned'
  BY <1>1, <1>2 DEF IInv, OpenRoundIffReturned, AllAnswered
<1>7. DecisionStands'
  BY <1>1, <1>2, <1>3, <1>4 DEF DecisionStands, Independent, Document, ContentDigest
<1> QED BY <1>2, <1>5, <1>6, <1>7 DEF IInv, FieldInv

\* A round with other items is a round.
LEMMA ItemsReplaced ==
  ASSUME NEW r \in ReviewRound, NEW k \in 1..MaxItems,
         NEW given \in [1..k -> Answers \cup {Blank}]
  PROVE  /\ [r EXCEPT !.items = given] \in ReviewRound
         /\ [r EXCEPT !.items = given].frozen = r.frozen
BY DEF ReviewRound

LEMMA RespondToReviewStep ==
  ASSUME IInv, NEW S \in SUBSET (1..MaxItems), NEW given \in [S -> Answers],
         RespondToReview(given)
  PROVE  IInv'
<1> DEFINE n == Len(rounds)
           items == [i \in DOMAIN rounds[n].items |->
                       IF i \in DOMAIN given THEN given[i] ELSE rounds[n].items[i]]
           last == [rounds[n] EXCEPT !.items = items]
<1>1. /\ drill.status = "returned"
      /\ Save("returned", "review_items_responded")
      /\ UNCHANGED <<baseline, checkpoints, results, deviations, materials, retests,
                     decision, preview>>
  BY DEF RespondToReview
<1>2. /\ drill' \in DrillRow /\ drill'.status = "returned"
      /\ drill'.profile = drill.profile /\ events' \in Seq(EventTypes)
      /\ FieldInv' /\ PreviewCurrent' /\ Exists' /\ StatusMatchesProgress'
      /\ RetestOnlyInRemediation' /\ ResultsFitTheDrill' /\ FrozenAsPreviewed'
  BY <1>1, ReviewStep
<1>3. /\ n \in 1..n /\ DOMAIN rounds = 1..n /\ rounds[n] \in ReviewRound
      /\ ~rounds[n].frozen /\ CurrentOpenReviewRound = n /\ rounds \in Seq(ReviewRound)
  BY <1>1, LastRound DEF IInv, TypeOK
<1>4. rounds' = [rounds EXCEPT ![n] = last]
  BY <1>3 DEF RespondToReview
<1>5. last \in ReviewRound /\ ~last.frozen
  <2>1. PICK k \in 1..MaxItems : rounds[n].items \in [1..k -> Answers \cup {Blank}]
    BY <1>3 DEF ReviewRound
  <2>2. items \in [1..k -> Answers \cup {Blank}]
    BY <2>1
  <2> HIDE DEF items
  <2> QED BY <1>3, <2>2, ItemsReplaced
<1> HIDE DEF last, items
<1>6. /\ rounds' \in Seq(ReviewRound) /\ Len(rounds') = n /\ DOMAIN rounds' = 1..n
      /\ rounds'[n] = last /\ \A i \in 1..n : i # n => rounds'[i] = rounds[i]
  <2>1. n \in Nat /\ n > 0
    BY <1>3
  <2> HIDE DEF n
  <2>2. rounds' \in Seq(ReviewRound) /\ DOMAIN rounds' = 1..n
    BY <1>3, <1>4, <1>5, <2>1
  <2>3. Len(rounds') = n
    BY <2>1, <2>2
  <2>4. rounds'[n] = last /\ \A i \in 1..n : i # n => rounds'[i] = rounds[i]
    BY <1>3, <1>4, <2>1
  <2> QED BY <2>2, <2>3, <2>4
<1>7. OpenRoundIffReturned'
  <2>1. ASSUME NEW i \in 1..n
        PROVE  /\ ~rounds'[i].frozen <=> i = n
               /\ rounds'[i].frozen => AllAnswered(rounds'[i])
    <3>1. CASE i = n
      BY <1>5, <1>6, <3>1
    <3>2. CASE i # n
      BY <1>1, <1>3, <1>6, <3>2 DEF IInv, OpenRoundIffReturned
    <3> QED BY <3>1, <3>2
  <2>2. rounds' # <<>>
    <3>1. n # 0
      BY <1>3
    <3> HIDE DEF n
    <3> QED BY <1>6, <3>1
  <2> QED BY <1>2, <1>6, <2>1, <2>2 DEF OpenRoundIffReturned, AllAnswered
<1>8. TypeOK'
  BY <1>1, <1>2, <1>6 DEF IInv, TypeOK
<1>9. DecisionStands'
  BY <1>1, <1>2 DEF IInv, DecisionStands
<1> QED BY <1>2, <1>7, <1>8, <1>9 DEF IInv, FieldInv

LEMMA StutterStep ==
  ASSUME IInv, UNCHANGED vars
  PROVE  IInv'
<1> USE DEF vars
<1>1. FieldInv'
  BY FieldUnchanged DEF IInv, FieldInv
<1>2. TypeOK' /\ PreviewCurrent' /\ Exists'
  BY DEF IInv, TypeOK, PreviewCurrent, Exists
<1>3. StatusMatchesProgress' /\ RetestOnlyInRemediation' /\ ResultsFitTheDrill'
  BY DEF IInv, StatusMatchesProgress, RetestOnlyInRemediation, ResultsFitTheDrill
<1>4. DecisionStands' /\ OpenRoundIffReturned' /\ FrozenAsPreviewed'
  BY DEF IInv, DecisionStands, OpenRoundIffReturned, FrozenAsPreviewed, AllAnswered,
         Independent
<1> QED BY <1>1, <1>2, <1>3, <1>4 DEF IInv, FieldInv

LEMMA NextIInv == IInv /\ [Next]_vars => IInv'
<1> SUFFICES ASSUME IInv, [Next]_vars PROVE IInv'
  OBVIOUS
<1>1. ASSUME NEW in \in Profiles, CreateDrill(in) PROVE IInv'
  BY <1>1, CreateDrillStep
<1>2. ASSUME NEW in \in Profiles, ReviseDrill(in) PROVE IInv'
  BY <1>2, ReviseDrillStep
<1>3. ASSUME NEW layout \in Layouts, PreviewBaseline(layout) PROVE IInv'
  BY <1>3, PreviewBaselineStep
<1>4. ASSUME NEW layout \in Layouts, NEW held \in {preview, NoPreview},
             FreezeBaseline(layout, held)
      PROVE IInv'
  BY <1>4, FreezeBaselineStep
<1>5. ASSUME NEW code \in Codes, NEW in \in ResultInputs, RecordCheck(code, in) PROVE IInv'
  BY <1>5, RecordCheckStep
<1>6. ASSUME NEW d \in deviations, Remediate(d) PROVE IInv'
  BY <1>6, RemediateStep
<1>7. ASSUME NEW d \in deviations, NEW in \in ResultInputs, Retest(d, in) PROVE IInv'
  BY <1>7, RetestStep
<1>8. ASSUME SubmitReview PROVE IInv'
  BY <1>8, SubmitReviewStep
<1>9. ASSUME NEW reviewer \in Names, NEW n \in 0..MaxItems, RejectReview(reviewer, n)
      PROVE IInv'
  BY <1>9, RejectReviewStep
<1>10. ASSUME NEW reviewer \in Names, ApproveReview(reviewer) PROVE IInv'
  BY <1>10, ApproveReviewStep
<1>11. ASSUME NEW S \in SUBSET (1..MaxItems), NEW given \in [S -> Answers],
              RespondToReview(given)
       PROVE IInv'
  BY <1>11, RespondToReviewStep
<1>12. CASE UNCHANGED vars
  BY <1>12, StutterStep
<1> QED BY <1>1, <1>2, <1>3, <1>4, <1>5, <1>6, <1>7, <1>8, <1>9, <1>10, <1>11, <1>12
        DEF Next

(***************************************************************************)
(* The history of the checkpoints and the audit timeline: a second         *)
(* invariant, inductive together with the first.                           *)
(***************************************************************************)

TablesFinite == IsFiniteSet(results) /\ IsFiniteSet(materials) /\ IsFiniteSet(retests)

\* A deviation that waits for a retest has material.
MaterialReady ==
  \A d \in deviations : d.status = "ready_for_retest" => MaterialVersions(d.code) # {}

\* Each attempt after the first has its retest row, each retest row its
\* attempt, and no two rows share what the table declares UNIQUE.
RetestRows ==
  /\ \A r \in results : r.attempt > 1 =>
       \E t \in retests : /\ t.code = r.code
                          /\ t.result = r.attempt
                          /\ t.attempt = r.attempt - 1
                          /\ t.rule = EvaluateResult(r.code, r)
                          /\ t.material \in MaterialVersions(r.code)
  /\ \A t \in retests : /\ t.result \in Attempts(t.code)
                        /\ t.attempt = t.result - 1
  /\ \A t, u \in retests : t.code = u.code /\ t.result = u.result => t = u

ClosedByPass ==
  \A d \in deviations : d.status = "closed" =>
    \E r \in results : /\ r.code = d.code
                       /\ r.attempt = d.retestResult
                       /\ EvaluateResult(r.code, r) = Passed

HistoryInv == TablesFinite /\ MaterialReady /\ RetestRows /\ ClosedByPass
                /\ TimelineAccountsForState

LEMMA InitHistory == Init => HistoryInv
<1> SUFFICES ASSUME Init PROVE HistoryInv
  OBVIOUS
<1>1. IsFiniteSet({}) /\ Cardinality({}) = 0
  BY FS_EmptySet
<1>2. TablesFinite /\ MaterialReady /\ RetestRows /\ ClosedByPass
  BY <1>1 DEF Init, TablesFinite, MaterialReady, RetestRows, ClosedByPass
<1>3. ASSUME NEW type PROVE Count(type) = 0
  <2>1. {i \in DOMAIN events : events[i] = type} = {}
    BY DEF Init
  <2> QED BY <1>1, <2>1 DEF Count
<1>4. TimelineAccountsForState
  BY <1>1, <1>3 DEF Init, TimelineAccountsForState
<1> QED BY <1>2, <1>4 DEF HistoryInv

\* The number of events of a kind is a number.
LEMMA CountType ==
  ASSUME TypeOK, NEW type
  PROVE  Count(type) \in Nat
<1>1. Len(events) \in Nat /\ DOMAIN events = 1..Len(events)
  BY DEF TypeOK
<1>2. IsFiniteSet(1..Len(events))
  BY <1>1, FS_Interval
<1>3. {i \in DOMAIN events : events[i] = type} \in SUBSET (1..Len(events))
  BY <1>1
<1> QED BY <1>2, <1>3, FS_Subset, FS_CardinalityType DEF Count

\* An event more of one kind, and of that kind only.
LEMMA CountAppended ==
  ASSUME TypeOK, NEW new \in EventTypes, events' = Append(events, new)
  PROVE  /\ Len(events') = Len(events) + 1
         /\ Count(new)' = Count(new) + 1
         /\ \A type : type # new => Count(type)' = Count(type)
<1> DEFINE n == Len(events)
           At(type) == {i \in DOMAIN events : events[i] = type}
<1>1. events \in Seq(EventTypes) /\ n \in Nat /\ DOMAIN events = 1..n
  BY DEF TypeOK
<1>2. /\ Len(events') = n + 1 /\ DOMAIN events' = 1..(n + 1)
      /\ events'[n + 1] = new /\ \A i \in 1..n : events'[i] = events[i]
  BY <1>1
<1>3. IsFiniteSet(At(new)) /\ n + 1 \notin At(new)
  <2>1. IsFiniteSet(1..n) /\ At(new) \in SUBSET (1..n)
    BY <1>1, FS_Interval
  <2> QED BY <1>1, <2>1, FS_Subset
<1>4. Count(new)' = Count(new) + 1
  <2>1. {i \in DOMAIN events' : events'[i] = new} = At(new) \cup {n + 1}
    BY <1>1, <1>2
  <2>2. Cardinality(At(new) \cup {n + 1}) = Cardinality(At(new)) + 1
    <3> HIDE DEF At
    <3> QED BY <1>3, FS_AddElement
  <2> QED BY <2>1, <2>2 DEF Count
<1>5. ASSUME NEW type, type # new PROVE Count(type)' = Count(type)
  <2>1. {i \in DOMAIN events' : events'[i] = type} = At(type)
    BY <1>1, <1>2, <1>5
  <2> QED BY <2>1 DEF Count
<1> QED BY <1>2, <1>4, <1>5

\* Commands that record nothing leave the history alone.
LEMMA RecordsKept ==
  ASSUME HistoryInv, UNCHANGED <<results, deviations, materials, retests>>
  PROVE  TablesFinite' /\ MaterialReady' /\ RetestRows' /\ ClosedByPass'
BY DEF HistoryInv, TablesFinite, MaterialReady, RetestRows, ClosedByPass, Attempts,
       MaterialVersions, EvaluateResult, MeasuredSeconds

\* A new attempt is a new row.
LEMMA ResultAdded ==
  ASSUME IInv, HistoryInv, NEW new, new.attempt \notin Attempts(new.code),
         results' = results \cup {new}
  PROVE  /\ IsFiniteSet(results') /\ Cardinality(results') = Cardinality(results) + 1
         /\ Attempts(new.code)' = Attempts(new.code) \cup {new.attempt}
         /\ \A code : Attempts(code) \subseteq Attempts(code)'
<1>1. new \notin results
  BY DEF Attempts
<1>2. IsFiniteSet(results') /\ Cardinality(results') = Cardinality(results) + 1
  BY <1>1, FS_AddElement DEF HistoryInv, TablesFinite
<1>3. Attempts(new.code)' = Attempts(new.code) \cup {new.attempt}
  BY DEF Attempts
<1>4. \A code : Attempts(code) \subseteq Attempts(code)'
  BY DEF Attempts
<1> QED BY <1>2, <1>3, <1>4

LEMMA RecordCheckHistory ==
  ASSUME IInv, HistoryInv, NEW code \in Codes, NEW in \in ResultInputs, RecordCheck(code, in)
  PROVE  HistoryInv'
<1> DEFINE rule == EvaluateResult(code, in)
           new  == BuildResult(code, in, 1)
           dev  == [code |-> code, rule |-> rule, status |-> "open", retestResult |-> 0]
           status == RecalculatedStatus(results', deviations')
<1>1. new.code = code /\ new.attempt = 1
  BY BuildResultEvaluates
<1>2. /\ results' = results \cup {new}
      /\ deviations' = IF rule = Passed THEN deviations ELSE deviations \cup {dev}
      /\ Save(status, "checkpoint_recorded")
      /\ ~HasInitialResult(results, code)
      /\ drill.status \in {"baseline_frozen", "executing", "remediation"}
      /\ UNCHANGED <<baseline, checkpoints, materials, retests, rounds, decision, preview>>
  BY DEF RecordCheck
<1>3. dev.status = "open"
  OBVIOUS
<1>4. status \in {"executing", "remediation", "ready_for_review"}
  BY <1>2 DEF RecalculatedStatus
<1> HIDE DEF rule, new, dev, status
<1>5. new.attempt \notin Attempts(new.code)
  BY <1>1, <1>2 DEF HasInitialResult, Attempts
<1>6. /\ IsFiniteSet(results') /\ Cardinality(results') = Cardinality(results) + 1
      /\ \A c : Attempts(c) \subseteq Attempts(c)'
  BY <1>2, <1>5, ResultAdded
<1>7. TablesFinite'
  BY <1>2, <1>6 DEF HistoryInv, TablesFinite
<1>8. MaterialReady'
  BY <1>2, <1>3 DEF HistoryInv, MaterialReady, MaterialVersions
<1>9. RetestRows'
  BY <1>1, <1>2, <1>6
     DEF HistoryInv, RetestRows, MaterialVersions, EvaluateResult, MeasuredSeconds
<1>10. ClosedByPass'
  BY <1>2, <1>3 DEF HistoryInv, ClosedByPass, EvaluateResult, MeasuredSeconds
<1>11. TimelineAccountsForState'
  <2>1. /\ drill'.status = status /\ drill'.version = drill.version + 1
        /\ drill'.baselineVersion = drill.baselineVersion
    BY <1>2, <1>4, Saved DEF Statuses, EventTypes
  <2>2. /\ Len(events') = Len(events) + 1
        /\ Count("checkpoint_recorded")' = Count("checkpoint_recorded") + 1
        /\ \A type : type # "checkpoint_recorded" => Count(type)' = Count(type)
    BY <1>2, CountAppended DEF Save, EventTypes, IInv
  <2>3. \A type : Count(type) \in Nat
    BY CountType DEF IInv
  <2>4. Cardinality(results) \in Nat
    BY FS_CardinalityType DEF HistoryInv, TablesFinite
  <2>5. /\ Count("drill_created")' = Count("drill_created")
        /\ Count("baseline_frozen")' = Count("baseline_frozen")
        /\ Count("checkpoint_retested")' = Count("checkpoint_retested")
        /\ Count("deviation_remediated")' = Count("deviation_remediated")
        /\ Count("review_decided")' = Count("review_decided")
        /\ Count("review_submitted")' = Count("review_submitted")
    BY <2>2
  <2>6. TimelineAccountsForState
    BY DEF HistoryInv
  <2>7. /\ drill.status # "absent" /\ drill.status # "under_review"
        /\ drill'.status # "absent" /\ drill'.status # "under_review"
    BY <1>2, <1>4, <2>1
  <2>8. UNCHANGED <<materials, retests, rounds, decision>>
    BY <1>2
  <2> HIDE DEF Count
  <2> QED BY SMTT(30), <1>6, <2>1, <2>2, <2>3, <2>4, <2>5, <2>6, <2>7, <2>8 DEF TimelineAccountsForState
<1> QED BY <1>7, <1>8, <1>9, <1>10, <1>11 DEF HistoryInv

LEMMA RemediateHistory ==
  ASSUME IInv, HistoryInv, NEW d \in deviations, Remediate(d)
  PROVE  HistoryInv'
<1> DEFINE ready == ReadyForRetest(d, d.rule)
           version == MaterialVersion(d.code) + 1
           material == [code |-> d.code, version |-> version]
<1>1. /\ drill.status = "remediation"
      /\ deviations' = (deviations \ {d}) \cup {ready}
      /\ materials' = materials \cup {material}
      /\ Save("remediation", "deviation_remediated")
      /\ UNCHANGED <<baseline, checkpoints, results, retests, rounds, decision, preview>>
  BY DEF Remediate
<1>2. /\ ready.code = d.code /\ ready.status = "ready_for_retest"
      /\ material.code = d.code /\ material.version = version
  BY DEF ReadyForRetest
<1>3. d.code \in Codes
  BY DEF IInv, TypeOK, Deviation
<1>4. version \notin MaterialVersions(d.code)
  BY <1>3 DEF IInv, Numbered, MaterialVersion, IsNumbering
<1> HIDE DEF ready, version, material
<1>5. material \notin materials
  BY <1>2, <1>4 DEF MaterialVersions
<1>6. IsFiniteSet(materials') /\ Cardinality(materials') = Cardinality(materials) + 1
  BY <1>1, <1>5, FS_AddElement DEF HistoryInv, TablesFinite
<1>7. TablesFinite'
  BY <1>1, <1>6 DEF HistoryInv, TablesFinite
<1>8. \A code : MaterialVersions(code) \subseteq MaterialVersions(code)'
  BY <1>1 DEF MaterialVersions
<1>9. MaterialReady'
  <2>1. version \in MaterialVersions(d.code)'
    BY <1>1, <1>2 DEF MaterialVersions
  <2> QED BY <1>1, <1>2, <1>8, <2>1 DEF HistoryInv, MaterialReady
<1>10. RetestRows'
  BY <1>1, <1>8 DEF HistoryInv, RetestRows, Attempts, EvaluateResult, MeasuredSeconds
<1>11. ClosedByPass'
  BY <1>1, <1>2 DEF HistoryInv, ClosedByPass, EvaluateResult, MeasuredSeconds
<1>12. TimelineAccountsForState'
  <2>1. /\ drill'.status = "remediation" /\ drill'.version = drill.version + 1
        /\ drill'.baselineVersion = drill.baselineVersion
    BY <1>1, Saved DEF Statuses, EventTypes
  <2>2. /\ Len(events') = Len(events) + 1
        /\ Count("deviation_remediated")' = Count("deviation_remediated") + 1
        /\ \A type : type # "deviation_remediated" => Count(type)' = Count(type)
    BY <1>1, CountAppended DEF Save, EventTypes, IInv
  <2> HIDE DEF Count
  <2> QED BY <1>1, <1>6, <2>1, <2>2 DEF HistoryInv, TimelineAccountsForState
<1> QED BY <1>7, <1>9, <1>10, <1>11, <1>12 DEF HistoryInv

LEMMA RetestHistory ==
  ASSUME IInv, HistoryInv, NEW d \in deviations, NEW in \in ResultInputs, Retest(d, in)
  PROVE  HistoryInv'
<1> DEFINE attempt == NextAttempt(d.code)
           rule == EvaluateResult(d.code, in)
           new  == BuildResult(d.code, in, attempt)
           dev  == Retested(d, rule, attempt)
           material == MaterialVersion(d.code)
           row  == [code |-> d.code, attempt |-> attempt - 1, result |-> attempt,
                    material |-> material, rule |-> rule]
           status == RecalculatedStatus(results', deviations')
<1>1. /\ d.status = "ready_for_retest"
      /\ results' = results \cup {new}
      /\ retests' = retests \cup {row}
      /\ deviations' = (deviations \ {d}) \cup {dev}
      /\ Save(status, "checkpoint_retested")
      /\ UNCHANGED <<baseline, checkpoints, materials, rounds, decision, preview>>
  BY DEF Retest
<1>2. drill.status = "remediation" /\ status \in {"executing", "remediation", "ready_for_review"}
  BY <1>1 DEF IInv, RetestOnlyInRemediation, RecalculatedStatus
<1>3. d.code \in Codes
  BY DEF IInv, TypeOK, Deviation
<1>4. attempt \in Nat /\ attempt \notin Attempts(d.code)
  BY <1>3 DEF IInv, Numbered, NextAttempt, IsNumbering
<1>5. /\ new.code = d.code /\ new.attempt = attempt
      /\ EvaluateResult(d.code, new) = rule
  BY <1>3, <1>4, BuildResultEvaluates
<1>6. /\ dev.code = d.code
      /\ dev.status = "closed" => rule = Passed /\ dev.retestResult = attempt
      /\ dev.status \in {"closed", "ready_for_retest"}
  BY DEF Retested, Closed, ReadyForRetest
<1>7. material \in MaterialVersions(d.code)
  <2>1. MaterialVersions(d.code) # {} /\ IsNumbering(MaterialVersions(d.code))
    BY <1>1, <1>3 DEF HistoryInv, MaterialReady, IInv, Numbered
  <2> QED BY <2>1 DEF IsNumbering, MaterialVersion
<1>8. /\ row.code = d.code /\ row.attempt = attempt - 1 /\ row.result = attempt
      /\ row.material = material /\ row.rule = rule
  OBVIOUS
<1> HIDE DEF attempt, rule, new, dev, material, row, status
<1>9. /\ IsFiniteSet(results') /\ Cardinality(results') = Cardinality(results) + 1
      /\ Attempts(d.code)' = Attempts(d.code) \cup {attempt}
      /\ \A c : Attempts(c) \subseteq Attempts(c)'
  BY <1>1, <1>4, <1>5, ResultAdded
<1>10. \A t \in retests : t.result \in Attempts(t.code)
  BY DEF HistoryInv, RetestRows
<1>11. \A t \in retests : ~(t.code = d.code /\ t.result = attempt)
  BY <1>4, <1>10
<1>12. IsFiniteSet(retests') /\ Cardinality(retests') = Cardinality(retests) + 1
  <2>1. row \notin retests
    BY <1>8, <1>11
  <2> QED BY <1>1, <2>1, FS_AddElement DEF HistoryInv, TablesFinite
<1>13. TablesFinite'
  BY <1>1, <1>9, <1>12 DEF HistoryInv, TablesFinite
<1>14. MaterialReady'
  BY <1>1, <1>6, <1>7 DEF HistoryInv, MaterialReady, MaterialVersions
<1>15. RetestRows'
  <2>1. ASSUME NEW r \in results', r.attempt > 1
        PROVE  \E t \in retests' : /\ t.code = r.code
                                   /\ t.result = r.attempt
                                   /\ t.attempt = r.attempt - 1
                                   /\ t.rule = EvaluateResult(r.code, r)
                                   /\ t.material \in MaterialVersions(r.code)
    <3>1. CASE r = new
      BY <1>1, <1>5, <1>7, <1>8, <3>1
    <3>2. CASE r \in results
      BY <1>1, <2>1, <3>2 DEF HistoryInv, RetestRows
    <3> QED BY <1>1, <3>1, <3>2
  <2>2. ASSUME NEW t \in retests' PROVE t.result \in Attempts(t.code)' /\ t.attempt = t.result - 1
    BY <1>1, <1>8, <1>9, <2>2 DEF HistoryInv, RetestRows
  <2>3. ASSUME NEW t \in retests', NEW u \in retests', t.code = u.code, t.result = u.result
        PROVE  t = u
    BY <1>1, <1>8, <1>11, <2>3 DEF HistoryInv, RetestRows
  <2>4. \A code : MaterialVersions(code)' = MaterialVersions(code)
    BY <1>1 DEF MaterialVersions
  <2> QED BY <2>1, <2>2, <2>3, <2>4 DEF RetestRows, EvaluateResult, MeasuredSeconds
<1>16. ClosedByPass'
  BY <1>1, <1>5, <1>6 DEF HistoryInv, ClosedByPass, EvaluateResult, MeasuredSeconds
<1>17. TimelineAccountsForState'
  <2>1. /\ drill'.status = status /\ drill'.version = drill.version + 1
        /\ drill'.baselineVersion = drill.baselineVersion
    BY <1>1, <1>2, Saved DEF Statuses, EventTypes
  <2>2. /\ Len(events') = Len(events) + 1
        /\ Count("checkpoint_retested")' = Count("checkpoint_retested") + 1
        /\ \A type : type # "checkpoint_retested" => Count(type)' = Count(type)
    BY <1>1, CountAppended DEF Save, EventTypes, IInv
  <2>3. \A type : Count(type) \in Nat
    BY CountType DEF IInv
  <2>4. Cardinality(results) \in Nat /\ Cardinality(retests) \in Nat
    BY FS_CardinalityType DEF HistoryInv, TablesFinite
  <2>5. /\ Count("drill_created")' = Count("drill_created")
        /\ Count("baseline_frozen")' = Count("baseline_frozen")
        /\ Count("checkpoint_recorded")' = Count("checkpoint_recorded")
        /\ Count("deviation_remediated")' = Count("deviation_remediated")
        /\ Count("review_decided")' = Count("review_decided")
        /\ Count("review_submitted")' = Count("review_submitted")
    BY <2>2
  <2>6. TimelineAccountsForState
    BY DEF HistoryInv
  <2> HIDE DEF Count
  <2> QED BY SMTT(30), <1>1, <1>2, <1>9, <1>12, <2>1, <2>2, <2>3, <2>4, <2>5, <2>6
          DEF TimelineAccountsForState
<1> QED BY <1>13, <1>14, <1>15, <1>16, <1>17 DEF HistoryInv

\* A command other than the three that record: what it adds to the timeline
\* and to the rounds keeps the account.
LEMMA OtherCommand ==
  ASSUME IInv, HistoryInv, NEW new \in EventTypes, events' = Append(events, new),
         new \notin {"checkpoint_recorded", "checkpoint_retested", "deviation_remediated"},
         drill'.version = drill.version + 1, drill'.status # "absent",
         drill.status = "absent" <=> new = "drill_created",
         drill'.baselineVersion =
           drill.baselineVersion + (IF new = "baseline_frozen" THEN 1 ELSE 0),
         Len(rounds') + (IF decision' = NoDecision THEN 0 ELSE 1) =
           Len(rounds) + (IF decision = NoDecision THEN 0 ELSE 1)
             + (IF new = "review_decided" THEN 1 ELSE 0),
         drill.status = "under_review" <=> new = "review_decided",
         drill'.status = "under_review" <=> new = "review_submitted",
         UNCHANGED <<results, deviations, materials, retests>>
  PROVE  HistoryInv'
<1>1. /\ Len(events') = Len(events) + 1
      /\ Count(new)' = Count(new) + 1
      /\ \A type : type # new => Count(type)' = Count(type)
  BY CountAppended DEF IInv
<1>2. \A type : Count(type) \in Nat
  BY CountType DEF IInv
<1>3. /\ Len(rounds) \in Nat /\ drill.version \in Nat /\ drill.baselineVersion \in Nat
  BY DEF IInv, TypeOK, DrillRow
<1>4. TimelineAccountsForState
  BY DEF HistoryInv
<1> HIDE DEF Count
<1>5. /\ Len(events') = drill'.version
      /\ Count("drill_created")' = 1
      /\ Count("baseline_frozen")' = drill'.baselineVersion
  BY <1>1, <1>2, <1>3, <1>4 DEF TimelineAccountsForState
<1>6. /\ Count("checkpoint_recorded")' + Count("checkpoint_retested")' = Cardinality(results')
      /\ Count("checkpoint_retested")' = Cardinality(retests')
      /\ Count("deviation_remediated")' = Cardinality(materials')
  <2>1. /\ Count("checkpoint_recorded")' = Count("checkpoint_recorded")
        /\ Count("checkpoint_retested")' = Count("checkpoint_retested")
        /\ Count("deviation_remediated")' = Count("deviation_remediated")
    BY <1>1
  <2> QED BY <1>4, <2>1 DEF TimelineAccountsForState
<1>7. Count("review_decided")' = Len(rounds') + (IF decision' = NoDecision THEN 0 ELSE 1)
  <2>1. Count("review_decided")' =
          Count("review_decided") + (IF new = "review_decided" THEN 1 ELSE 0)
    BY <1>1, <1>2
  <2> QED BY <1>4, <2>1 DEF TimelineAccountsForState
<1>8. Count("review_submitted")' = Count("review_decided")' +
        (IF drill'.status = "under_review" THEN 1 ELSE 0)
  <2>1. Count("review_submitted") = Count("review_decided") +
          (IF drill.status = "under_review" THEN 1 ELSE 0)
    BY <1>4 DEF TimelineAccountsForState
  <2>2. CASE new = "review_submitted"
    <3>1. /\ Count("review_submitted")' = Count("review_submitted") + 1
          /\ Count("review_decided")' = Count("review_decided")
      BY <1>1, <2>2
    <3> QED BY <1>2, <2>1, <2>2, <3>1
  <2>3. CASE new = "review_decided"
    <3>1. /\ Count("review_decided")' = Count("review_decided") + 1
          /\ Count("review_submitted")' = Count("review_submitted")
      BY <1>1, <2>3
    <3> QED BY <1>2, <2>1, <2>3, <3>1
  <2>4. CASE new \notin {"review_submitted", "review_decided"}
    <3>1. /\ Count("review_decided")' = Count("review_decided")
          /\ Count("review_submitted")' = Count("review_submitted")
      BY <1>1, <2>4
    <3> QED BY <2>1, <2>4, <3>1
  <2> QED BY <2>2, <2>3, <2>4
<1>9. TimelineAccountsForState'
  BY <1>5, <1>6, <1>7, <1>8 DEF TimelineAccountsForState
<1> QED BY <1>9, RecordsKept DEF HistoryInv

LEMMA OtherHistory ==
  ASSUME IInv, HistoryInv,
         \/ \E in \in Profiles : CreateDrill(in) \/ ReviseDrill(in)
         \/ \E layout \in Layouts, held \in {preview, NoPreview} : FreezeBaseline(layout, held)
         \/ \E reviewer \in Names : ApproveReview(reviewer)
  PROVE  HistoryInv'
<1>1. ASSUME NEW in \in Profiles, CreateDrill(in) PROVE HistoryInv'
  <2>1. events = <<>> /\ drill.version = 0
    <3>1. Len(events) = 0
      BY <1>1 DEF CreateDrill, IInv, Exists, HistoryInv, TimelineAccountsForState
    <3> QED BY <1>1, <3>1 DEF CreateDrill, IInv, Exists, TypeOK
  <2>2. events' = Append(events, "drill_created")
    BY <1>1, <2>1 DEF CreateDrill
  <2>3. /\ drill.baselineVersion = 0
        /\ drill'.version = 1 /\ drill'.status = "draft" /\ drill'.baselineVersion = 0
    BY <1>1, <2>1 DEF CreateDrill, NextRow, IInv, StatusMatchesProgress
  <2>4. Len(rounds) \in Nat
    BY DEF IInv, TypeOK
  <2> QED BY <1>1, <2>1, <2>2, <2>3, <2>4, OtherCommand DEF CreateDrill, EventTypes
<1>2. ASSUME NEW in \in Profiles, ReviseDrill(in) PROVE HistoryInv'
  <2>1. /\ drill'.version = drill.version + 1 /\ drill'.status = "draft"
        /\ drill'.baselineVersion = drill.baselineVersion
    BY <1>2 DEF ReviseDrill, NextRow
  <2>2. Len(rounds) \in Nat /\ drill.baselineVersion \in Nat
    BY DEF IInv, TypeOK, DrillRow
  <2> QED BY <1>2, <2>1, <2>2, OtherCommand DEF ReviseDrill, EventTypes
<1>3. ASSUME NEW layout \in Layouts, NEW held \in {preview, NoPreview}, FreezeBaseline(layout, held)
      PROVE  HistoryInv'
  <2>1. /\ drill'.version = drill.version + 1 /\ drill'.status = "baseline_frozen"
        /\ drill'.baselineVersion = drill.baselineVersion + 1
    BY <1>3 DEF FreezeBaseline, NextRow
  <2>2. Len(rounds) \in Nat
    BY DEF IInv, TypeOK
  <2> QED BY <1>3, <2>1, <2>2, OtherCommand DEF FreezeBaseline, EventTypes
<1>4. ASSUME NEW reviewer \in Names, ApproveReview(reviewer) PROVE HistoryInv'
  <2>1. /\ drill'.version = drill.version + 1 /\ drill'.status = "activated"
        /\ drill'.baselineVersion = drill.baselineVersion
        /\ events' = Append(events, "review_decided")
    BY <1>4 DEF ApproveReview, Save, NextRow
  <2>2. decision = NoDecision /\ decision' # NoDecision
    <3>1. DecisionStands /\ DecisionStands'
      BY <1>4, ApproveReviewStep DEF IInv
    <3> QED BY <1>4, <2>1, <3>1 DEF DecisionStands, ApproveReview
  <2>3. Len(rounds) \in Nat /\ drill.baselineVersion \in Nat
    BY DEF IInv, TypeOK, DrillRow
  <2> QED BY <1>4, <2>1, <2>2, <2>3, OtherCommand DEF ApproveReview, EventTypes
<1> QED BY <1>1, <1>2, <1>3, <1>4

LEMMA RoundsHistory ==
  ASSUME IInv, HistoryInv,
         \/ SubmitReview
         \/ \E reviewer \in Names, n \in 0..MaxItems : RejectReview(reviewer, n)
         \/ \E S \in SUBSET (1..MaxItems) : \E given \in [S -> Answers] : RespondToReview(given)
  PROVE  HistoryInv'
<1>1. rounds \in Seq(ReviewRound) /\ Len(rounds) \in Nat /\ drill.baselineVersion \in Nat
  BY DEF IInv, TypeOK, DrillRow
<1>2. ASSUME SubmitReview PROVE HistoryInv'
  <2>1. /\ drill'.version = drill.version + 1 /\ drill'.status = "under_review"
        /\ drill'.baselineVersion = drill.baselineVersion
        /\ events' = Append(events, "review_submitted")
    BY <1>2 DEF SubmitReview, Save, NextRow
  <2>2. Len(rounds') = Len(rounds)
    <3>1. CASE drill.status = "returned"
      <4> DEFINE last == [rounds[CurrentOpenReviewRound] EXCEPT !.frozen = TRUE]
      <4>1. rounds' = [rounds EXCEPT ![CurrentOpenReviewRound] = last]
        BY <1>2, <3>1 DEF SubmitReview, FrozenRounds
      <4> HIDE DEF last
      <4> QED BY <1>1, <4>1
    <3>2. CASE drill.status # "returned"
      BY <1>2, <3>2 DEF SubmitReview, FrozenRounds
    <3> QED BY <3>1, <3>2
  <2> QED BY <1>1, <1>2, <2>1, <2>2, OtherCommand DEF SubmitReview, EventTypes
<1>3. ASSUME NEW reviewer \in Names, NEW n \in 0..MaxItems, RejectReview(reviewer, n)
      PROVE  HistoryInv'
  <2>1. /\ drill'.version = drill.version + 1 /\ drill'.status = "returned"
        /\ drill'.baselineVersion = drill.baselineVersion
        /\ events' = Append(events, "review_decided")
    BY <1>3 DEF RejectReview, Save, NextRow
  <2>2. Len(rounds') = Len(rounds) + 1
    <3> DEFINE round == [reviewer |-> reviewer, frozen |-> FALSE,
                         items |-> [i \in 1..n |-> Blank]]
    <3>1. rounds' = Append(rounds, round)
      BY <1>3 DEF RejectReview
    <3> HIDE DEF round
    <3> QED BY <1>1, <3>1
  <2> QED BY <1>1, <1>3, <2>1, <2>2, OtherCommand DEF RejectReview, EventTypes
<1>4. ASSUME NEW given, RespondToReview(given) PROVE HistoryInv'
  <2>1. /\ drill'.version = drill.version + 1 /\ drill'.status = "returned"
        /\ drill'.baselineVersion = drill.baselineVersion
        /\ events' = Append(events, "review_items_responded")
    BY <1>4 DEF RespondToReview, Save, NextRow
  <2>2. Len(rounds') = Len(rounds)
    <3> DEFINE open == CurrentOpenReviewRound
               items == [i \in DOMAIN rounds[open].items |->
                           IF i \in DOMAIN given THEN given[i] ELSE rounds[open].items[i]]
               last == [rounds[open] EXCEPT !.items = items]
    <3>1. rounds' = [rounds EXCEPT ![open] = last]
      BY <1>4 DEF RespondToReview
    <3> HIDE DEF last
    <3> QED BY <1>1, <3>1
  <2> QED BY <1>1, <1>4, <2>1, <2>2, OtherCommand DEF RespondToReview, EventTypes
<1> QED BY <1>2, <1>3, <1>4

LEMMA NextHistory == IInv /\ HistoryInv /\ [Next]_vars => HistoryInv'
<1> SUFFICES ASSUME IInv, HistoryInv, [Next]_vars PROVE HistoryInv'
  OBVIOUS
<1>1. ASSUME UNCHANGED <<drill, results, deviations, materials, retests, rounds, decision, events>>
      PROVE  HistoryInv'
  <2>1. TimelineAccountsForState'
    BY <1>1 DEF HistoryInv, TimelineAccountsForState, Count
  <2> QED BY <1>1, <2>1, RecordsKept DEF HistoryInv
<1>2. ASSUME NEW layout \in Layouts, PreviewBaseline(layout) PROVE HistoryInv'
  BY <1>1, <1>2 DEF PreviewBaseline
<1>3. CASE UNCHANGED vars
  BY <1>1, <1>3 DEF vars
<1>4. ASSUME NEW code \in Codes, NEW in \in ResultInputs, RecordCheck(code, in)
      PROVE  HistoryInv'
  BY <1>4, RecordCheckHistory
<1>5. ASSUME NEW d \in deviations, Remediate(d) PROVE HistoryInv'
  BY <1>5, RemediateHistory
<1>6. ASSUME NEW d \in deviations, NEW in \in ResultInputs, Retest(d, in) PROVE HistoryInv'
  BY <1>6, RetestHistory
<1> QED BY <1>2, <1>3, <1>4, <1>5, <1>6, OtherHistory, RoundsHistory DEF Next

\* What is numbered without gaps and repetitions is as many as its last number.
LEMMA NumberedSet ==
  ASSUME NEW S, IsFiniteSet(S), NEW n \in Nat, NEW f \in [S -> 1..n],
         \A s, t \in S : f[s] = f[t] => s = t,
         \A k \in 1..n : \E s \in S : f[s] = k
  PROVE  Cardinality(S) = n
<1>1. f \in Bijection(S, 1..n)
  BY DEF Bijection, Injection, Surjection, IsInjective
<1>2. Cardinality(1..n) = Cardinality(S)
  BY <1>1, FS_Bijection DEF ExistsBijection
<1> QED BY <1>2, FS_Interval

LEMMA HistoryConsistent == IInv /\ HistoryInv => RetestHistoryConsistent
<1> SUFFICES ASSUME IInv, HistoryInv PROVE RetestHistoryConsistent
  OBVIOUS
<1>1. ASSUME NEW code \in Codes
      PROVE  Attempts(code) = 1..Cardinality({r \in results : r.code = code})
  <2> DEFINE S == {r \in results : r.code = code}
             n == Highest(Attempts(code))
             f == [r \in S |-> r.attempt]
  <2>1. n \in Nat /\ Attempts(code) = 1..n
    BY DEF IInv, Numbered, IsNumbering
  <2>2. IsFiniteSet(S)
    BY FS_Subset DEF HistoryInv, TablesFinite
  <2>3. f \in [S -> 1..n] /\ \A k \in 1..n : \E s \in S : f[s] = k
    <3>1. Attempts(code) = {r.attempt : r \in S}
      BY DEF Attempts
    <3> QED BY <2>1, <3>1
  <2>4. \A s, t \in S : f[s] = f[t] => s = t
    BY DEF IInv, KeysUnique
  <2>5. Cardinality(S) = n
    <3> HIDE DEF f, S, n
    <3> QED BY <2>1, <2>2, <2>3, <2>4, NumberedSet
  <2> QED BY <2>1, <2>5
<1>2. ASSUME NEW code \in Codes
      PROVE  MaterialVersions(code) = 1..Cardinality({m \in materials : m.code = code})
  <2> DEFINE S == {m \in materials : m.code = code}
             n == Highest(MaterialVersions(code))
             f == [m \in S |-> m.version]
  <2>1. n \in Nat /\ MaterialVersions(code) = 1..n
    BY DEF IInv, Numbered, IsNumbering
  <2>2. IsFiniteSet(S)
    BY FS_Subset DEF HistoryInv, TablesFinite
  <2>3. f \in [S -> 1..n] /\ \A k \in 1..n : \E s \in S : f[s] = k
    <3>1. MaterialVersions(code) = {m.version : m \in S}
      BY DEF MaterialVersions
    <3> QED BY <2>1, <3>1
  <2>4. \A s, t \in S : f[s] = f[t] => s = t
    BY DEF IInv, TypeOK, Material
  <2>5. Cardinality(S) = n
    <3> HIDE DEF f, S, n
    <3> QED BY <2>1, <2>2, <2>3, <2>4, NumberedSet
  <2> QED BY <2>1, <2>5
<1>3. \A t \in retests : \E r \in results : r.code = t.code /\ r.attempt = t.result
  BY DEF HistoryInv, RetestRows, Attempts
<1> QED BY <1>1, <1>2, <1>3 DEF RetestHistoryConsistent, HistoryInv, RetestRows, ClosedByPass

(***************************************************************************)
(* Theorems.                                                               *)
(***************************************************************************)

\* The strengthening holds in every reachable state.
THEOREM Invariance == Spec => []IInv
BY InitIInv, NextIInv, PTL DEF Spec

\* Every row always has its type.
THEOREM TypeCorrect == Spec => []TypeOK
<1>1. IInv => TypeOK
  BY DEF IInv
<1> QED BY <1>1, Invariance, PTL

\* The status always agrees with the rows it is computed from.
THEOREM StatusCorrect == Spec => []StatusMatchesProgress
<1>1. IInv => StatusMatchesProgress
  BY DEF IInv
<1> QED BY <1>1, Invariance, PTL

\* Retest needs no status guard of its own.
THEOREM RetestGuarded == Spec => []RetestOnlyInRemediation
<1>1. IInv => RetestOnlyInRemediation
  BY DEF IInv
<1> QED BY <1>1, Invariance, PTL

\* A deviation is open exactly while the latest attempt breaks its rule.
THEOREM DeviationsTrackAttempts == Spec => []OpenDeviationIffLatestFails
<1>1. IInv => OpenDeviationIffLatestFails
  BY DEF IInv
<1> QED BY <1>1, Invariance, PTL

\* No drill passes the gate with a checkpoint whose latest attempt fails.
THEOREM GateCorrect == Spec => []GateIsEarned
<1>1. IInv => GateIsEarned
  <2> SUFFICES ASSUME IInv, drill.status \in Gated, NEW code \in Codes
               PROVE  \E r \in results : /\ r.code = code
                                         /\ IsLatest(r)
                                         /\ EvaluateResult(code, r) = Passed
    BY DEF GateIsEarned
  <2>1. \A d \in deviations : d.status = "closed"
    BY DEF IInv, StatusMatchesProgress, AllDeviationsClosed
  <2>2. HasInitialResult(results, code)
    BY DEF IInv, StatusMatchesProgress, AllInitialResults, Gated
  <2>3. Highest(Attempts(code)) \in Attempts(code)
    <3>1. 1 \in Attempts(code)
      BY <2>2 DEF HasInitialResult, Attempts
    <3> QED BY <3>1 DEF IInv, Numbered, IsNumbering
  <2>4. PICK r \in results : r.code = code /\ IsLatest(r)
    BY <2>3 DEF Attempts, IsLatest
  <2>5. EvaluateResult(code, r) = Passed
    BY <2>1, <2>4 DEF IInv, OpenDeviationIffLatestFails
  <2> QED BY <2>4, <2>5
<1> QED BY <1>1, Invariance, PTL

\* Checks follow the order of the checkpoints and fit the drill's capacity.
THEOREM ChecksInOrder == Spec => []ResultsFitTheDrill
<1>1. IInv => ResultsFitTheDrill
  BY DEF IInv
<1> QED BY <1>1, Invariance, PTL

\* A drill is activated exactly by an independent decision that verifies.
THEOREM DecisionCorrect == Spec => []DecisionStands
<1>1. IInv => DecisionStands
  BY DEF IInv
<1> QED BY <1>1, Invariance, PTL

\* A drill is returned exactly while its last round is open.
THEOREM RoundsCorrect == Spec => []OpenRoundIffReturned
<1>1. IInv => OpenRoundIffReturned
  BY DEF IInv
<1> QED BY <1>1, Invariance, PTL

\* A confirmed baseline is the one that was previewed.
THEOREM PreviewBinds == Spec => []FrozenAsPreviewed
<1>1. IInv => FrozenAsPreviewed
  BY DEF IInv
<1> QED BY <1>1, Invariance, PTL

\* The second invariant holds in every reachable state.
THEOREM HistoryInvariance == Spec => []HistoryInv
BY InitHistory, NextHistory, Invariance, PTL DEF Spec

\* Attempts and materials are numbered without gaps, each attempt after the
\* first has its one retest row, and a closed deviation names a passed attempt.
THEOREM HistoryCorrect == Spec => []RetestHistoryConsistent
BY HistoryConsistent, Invariance, HistoryInvariance, PTL

\* The audit timeline accounts for every row of the record.
THEOREM TimelineCorrect == Spec => []TimelineAccountsForState
<1>1. HistoryInv => TimelineAccountsForState
  BY DEF HistoryInv
<1> QED BY <1>1, HistoryInvariance, PTL

\* No command changes an activated drill.
LEMMA ActivatedForever ==
  ASSUME IInv, Next
  PROVE  drill.status # "activated"
<1> SUFFICES ASSUME drill.status = "activated" PROVE FALSE
  OBVIOUS
<1>1. \A d \in deviations : ~(d.status = "ready_for_retest")
  BY DEF IInv, RetestOnlyInRemediation
<1> QED BY <1>1 DEF Next, CreateDrill, ReviseDrill, PreviewBaseline, FreezeBaseline,
                    RecordCheck, Remediate, Retest, SubmitReview, RejectReview,
                    ApproveReview, RespondToReview

\* Nothing but the preview, which no table holds, may change.
UnchangedTables ==
  UNCHANGED <<drill, baseline, checkpoints, results, deviations, materials, retests,
              rounds, decision, events>>

\* A command gives the drill a new version; a preview changes no table.
LEMMA CommandsChangeTheVersion ==
  ASSUME TypeOK, [Next]_vars
  PROVE  drill'.version = drill.version + 1 \/ UnchangedTables
<1>1. ASSUME NEW in \in Profiles, CreateDrill(in) PROVE drill'.version = drill.version + 1
  BY <1>1 DEF CreateDrill, NextRow
<1>2. ASSUME NEW in \in Profiles, ReviseDrill(in) PROVE drill'.version = drill.version + 1
  BY <1>2 DEF ReviseDrill, NextRow
<1>3. ASSUME NEW layout \in Layouts, PreviewBaseline(layout) PROVE UnchangedTables
  BY <1>3 DEF PreviewBaseline, UnchangedTables
<1>4. ASSUME NEW layout \in Layouts, NEW held \in {preview, NoPreview},
             FreezeBaseline(layout, held)
      PROVE  drill'.version = drill.version + 1
  BY <1>4 DEF FreezeBaseline, NextRow
<1>5. ASSUME NEW status, NEW event, Save(status, event)
      PROVE  drill'.version = drill.version + 1
  BY <1>5 DEF Save, NextRow
<1>6. ASSUME NEW code \in Codes, NEW in \in ResultInputs, RecordCheck(code, in)
      PROVE  drill'.version = drill.version + 1
  BY <1>6, <1>5 DEF RecordCheck
<1>7. ASSUME NEW d \in deviations, Remediate(d) PROVE drill'.version = drill.version + 1
  BY <1>7, <1>5 DEF Remediate
<1>8. ASSUME NEW d \in deviations, NEW in \in ResultInputs, Retest(d, in)
      PROVE  drill'.version = drill.version + 1
  BY <1>8, <1>5 DEF Retest
<1>9. ASSUME SubmitReview PROVE drill'.version = drill.version + 1
  BY <1>9, <1>5 DEF SubmitReview
<1>10. ASSUME NEW reviewer \in Names, NEW n \in 0..MaxItems, RejectReview(reviewer, n)
       PROVE  drill'.version = drill.version + 1
  BY <1>10, <1>5 DEF RejectReview
<1>11. ASSUME NEW reviewer \in Names, ApproveReview(reviewer)
       PROVE  drill'.version = drill.version + 1
  BY <1>11, <1>5 DEF ApproveReview
<1>12. ASSUME NEW S \in SUBSET (1..MaxItems), NEW given \in [S -> Answers],
              RespondToReview(given)
       PROVE  drill'.version = drill.version + 1
  BY <1>12, <1>5 DEF RespondToReview
<1>13. CASE UNCHANGED vars
  BY <1>13 DEF vars, UnchangedTables
<1> QED BY <1>1, <1>2, <1>3, <1>4, <1>6, <1>7, <1>8, <1>9, <1>10, <1>11, <1>12, <1>13
        DEF Next

\* No round is lost and no frozen round changes.
LEMMA RoundsKept ==
  ASSUME IInv, [Next]_vars
  PROVE  /\ Len(rounds') >= Len(rounds)
         /\ \A i \in DOMAIN rounds :
              /\ rounds[i].frozen => rounds'[i] = rounds[i]
              /\ rounds'[i].reviewer = rounds[i].reviewer
              /\ DOMAIN rounds'[i].items = DOMAIN rounds[i].items
<1> DEFINE Kept == /\ Len(rounds') >= Len(rounds)
                   /\ \A i \in DOMAIN rounds :
                        /\ rounds[i].frozen => rounds'[i] = rounds[i]
                        /\ rounds'[i].reviewer = rounds[i].reviewer
                        /\ DOMAIN rounds'[i].items = DOMAIN rounds[i].items
<1>1. rounds \in Seq(ReviewRound) /\ Len(rounds) \in Nat /\ DOMAIN rounds = 1..Len(rounds)
  BY DEF IInv, TypeOK
<1>2. CASE UNCHANGED rounds
  BY <1>1, <1>2
<1>3. ASSUME SubmitReview PROVE Kept
  <2>1. CASE drill.status # "returned"
    BY <1>1, <1>3, <2>1 DEF SubmitReview, FrozenRounds
  <2>2. CASE drill.status = "returned"
    <3>1. CurrentOpenReviewRound = Len(rounds) /\ ~rounds[Len(rounds)].frozen
      BY <2>2, LastRound
    <3> DEFINE last == [rounds[Len(rounds)] EXCEPT !.frozen = TRUE]
    <3>2. rounds' = [rounds EXCEPT ![Len(rounds)] = last]
      BY <1>3, <2>2, <3>1 DEF SubmitReview, FrozenRounds
    <3>3. last.reviewer = rounds[Len(rounds)].reviewer /\ last.items = rounds[Len(rounds)].items
      BY <2>2, LastRound DEF ReviewRound
    <3> HIDE DEF last
    <3>4. Len(rounds') = Len(rounds)
      BY <1>1, <3>2
    <3> QED BY <1>1, <3>1, <3>2, <3>3, <3>4
  <2> QED BY <2>1, <2>2
<1>4. ASSUME NEW reviewer, NEW n, RejectReview(reviewer, n) PROVE Kept
  <2> DEFINE round == [reviewer |-> reviewer, frozen |-> FALSE,
                       items |-> [i \in 1..n |-> Blank]]
  <2>1. rounds' = Append(rounds, round)
    BY <1>4 DEF RejectReview
  <2> HIDE DEF round
  <2> QED BY <1>1, <2>1
<1>5. ASSUME NEW given, RespondToReview(given) PROVE Kept
  <2>1. CurrentOpenReviewRound = Len(rounds) /\ ~rounds[Len(rounds)].frozen
    BY <1>5, LastRound DEF RespondToReview
  <2> DEFINE items == [i \in DOMAIN rounds[Len(rounds)].items |->
                         IF i \in DOMAIN given THEN given[i]
                         ELSE rounds[Len(rounds)].items[i]]
             last == [rounds[Len(rounds)] EXCEPT !.items = items]
  <2>2. rounds' = [rounds EXCEPT ![Len(rounds)] = last]
    BY <1>5, <2>1 DEF RespondToReview
  <2>3. last.reviewer = rounds[Len(rounds)].reviewer
          /\ DOMAIN last.items = DOMAIN rounds[Len(rounds)].items
    <3>1. rounds[Len(rounds)] \in ReviewRound
      BY <1>5, LastRound DEF RespondToReview
    <3>2. last.reviewer = rounds[Len(rounds)].reviewer /\ last.items = items
      BY <3>1 DEF ReviewRound
    <3> QED BY <3>2
  <2> HIDE DEF last
  <2>4. Len(rounds') = Len(rounds)
    BY <1>1, <2>2
  <2> QED BY <1>1, <2>1, <2>2, <2>3, <2>4
<1> QED BY <1>2, <1>3, <1>4, <1>5
        DEF Next, vars, CreateDrill, ReviseDrill, PreviewBaseline, FreezeBaseline,
            RecordCheck, Remediate, Retest, ApproveReview

\* What a command keeps: rows are only added, and what was fixed when the
\* baseline was frozen or the decision signed never changes.
LEMMA TablesGrow ==
  ASSUME IInv, [Next]_vars
  PROVE  /\ results \subseteq results' /\ materials \subseteq materials'
         /\ retests \subseteq retests'
         /\ decision # NoDecision => decision' = decision
         /\ drill.status \notin {"absent", "draft"} =>
              /\ drill'.status \notin {"absent", "draft"}
              /\ drill'.profile = drill.profile
              /\ drill'.baselineVersion = drill.baselineVersion
              /\ baseline' = baseline
<1>1. CASE UNCHANGED vars
  BY <1>1 DEF vars
<1>2. CASE Next
  <2>1. decision = NoDecision
    BY <1>2, ActivatedForever DEF IInv, DecisionStands
  <2>2. results \subseteq results' /\ materials \subseteq materials' /\ retests \subseteq retests'
    BY <1>2 DEF Next, CreateDrill, ReviseDrill, PreviewBaseline, FreezeBaseline,
            RecordCheck, Remediate, Retest, SubmitReview, RejectReview,
            ApproveReview, RespondToReview
  <2>3. ASSUME drill.status \notin {"absent", "draft"}
        PROVE  /\ drill'.status \notin {"absent", "draft"}
               /\ drill'.profile = drill.profile
               /\ drill'.baselineVersion = drill.baselineVersion
               /\ baseline' = baseline
    <3>1. ASSUME NEW status, NEW type, Save(status, type)
          PROVE  /\ drill'.status = status
                 /\ drill'.profile = drill.profile
                 /\ drill'.baselineVersion = drill.baselineVersion
      BY <3>1 DEF Save, NextRow
    <3>2. \A res, devs : RecalculatedStatus(res, devs) \notin {"absent", "draft"}
      BY DEF RecalculatedStatus
    <3>3. UNCHANGED baseline
      BY <1>2, <2>3 DEF Next, CreateDrill, ReviseDrill, PreviewBaseline, FreezeBaseline,
              RecordCheck, Remediate, Retest, SubmitReview, RejectReview,
              ApproveReview, RespondToReview
    <3> DEFINE Saves == \E status, type : Save(status, type) /\ status \notin {"absent", "draft"}
    <3>4. ASSUME NEW code, NEW in, RecordCheck(code, in) PROVE Saves
      BY <3>2, <3>4 DEF RecordCheck
    <3>5. ASSUME NEW d, Remediate(d) PROVE Saves
      BY <2>3, <3>5 DEF Remediate
    <3>6. ASSUME NEW d, NEW in, Retest(d, in) PROVE Saves
      BY <3>2, <3>6 DEF Retest
    <3>7. /\ SubmitReview => Saves
          /\ \A reviewer, n : RejectReview(reviewer, n) => Saves
          /\ \A reviewer : ApproveReview(reviewer) => Saves
      <4>1. SubmitReview => Saves
        BY DEF SubmitReview
      <4>2. ASSUME NEW reviewer, NEW n, RejectReview(reviewer, n) PROVE Saves
        BY <4>2 DEF RejectReview
      <4>3. ASSUME NEW reviewer, ApproveReview(reviewer) PROVE Saves
        BY <4>3 DEF ApproveReview
      <4> QED BY <4>1, <4>2, <4>3
    <3>8. ASSUME NEW given, RespondToReview(given) PROVE Saves
      BY <2>3, <3>8 DEF RespondToReview
    <3>9. UNCHANGED drill \/ Saves
      <4> HIDE DEF Saves
      <4> QED BY <1>2, <2>3, <3>4, <3>5, <3>6, <3>7, <3>8
              DEF Next, CreateDrill, ReviseDrill, PreviewBaseline, FreezeBaseline
    <3> QED BY <2>3, <3>1, <3>3, <3>9
  <2> QED BY <2>1, <2>2, <2>3
<1> QED BY <1>1, <1>2

\* No row disappears: a checkpoint or a baseline is kept, and a deviation that
\* is replaced is replaced by one of the same checkpoint.
LEMMA KeysKept ==
  ASSUME IInv, Next
  PROVE  /\ checkpoints \subseteq checkpoints'
         /\ \A d \in deviations : \E e \in deviations' : e.code = d.code
         /\ baseline = NoBaseline \/ baseline' = baseline
<1>1. checkpoints \subseteq checkpoints'
  <2>1. checkpoints \subseteq Codes
    BY DEF IInv, TypeOK
  <2> QED BY <2>1 DEF Next, CreateDrill, ReviseDrill, PreviewBaseline, FreezeBaseline,
              RecordCheck, Remediate, Retest, SubmitReview, RejectReview,
              ApproveReview, RespondToReview
<1>2. baseline = NoBaseline \/ baseline' = baseline
  <2>1. drill.status = "draft" => baseline = NoBaseline
    BY DEF IInv, StatusMatchesProgress
  <2> QED BY <2>1 DEF Next, CreateDrill, ReviseDrill, PreviewBaseline, FreezeBaseline,
              RecordCheck, Remediate, Retest, SubmitReview, RejectReview,
              ApproveReview, RespondToReview
<1>3. ASSUME NEW d \in deviations PROVE \E e \in deviations' : e.code = d.code
  <2>1. ASSUME deviations \subseteq deviations' PROVE \E e \in deviations' : e.code = d.code
    BY <2>1
  <2>2. ASSUME NEW c \in deviations, NEW e, e.code = c.code,
               deviations' = (deviations \ {c}) \cup {e}
        PROVE  \E f \in deviations' : f.code = d.code
    BY <2>2
  <2>3. ASSUME NEW c \in deviations, Remediate(c) PROVE \E e \in deviations' : e.code = d.code
    <3>1. ReadyForRetest(c, c.rule).code = c.code
      BY DEF ReadyForRetest
    <3> QED BY <2>2, <2>3, <3>1 DEF Remediate
  <2>4. ASSUME NEW c \in deviations, NEW in \in ResultInputs, Retest(c, in)
        PROVE  \E e \in deviations' : e.code = d.code
    <3> DEFINE new == Retested(c, EvaluateResult(c.code, in), NextAttempt(c.code))
    <3>1. new.code = c.code
      BY DEF Retested, Closed, ReadyForRetest
    <3>2. deviations' = (deviations \ {c}) \cup {new}
      BY <2>4 DEF Retest
    <3> HIDE DEF new
    <3> QED BY <2>2, <3>1, <3>2
  <2> QED BY <2>1, <2>3, <2>4 DEF Next, CreateDrill, ReviseDrill, PreviewBaseline,
              FreezeBaseline, RecordCheck, SubmitReview, RejectReview,
              ApproveReview, RespondToReview
<1> QED BY <1>1, <1>2, <1>3

\* A command appends one event, whatever its kind.
LEMMA EventAppended ==
  ASSUME IInv, HistoryInv, Next, drill' # drill
  PROVE  \E type \in EventTypes : events' = Append(events, type)
<1>1. ASSUME NEW in \in Profiles, CreateDrill(in)
      PROVE  events' = Append(events, "drill_created")
  <2>1. drill.version = 0 /\ Len(events) = drill.version
    BY <1>1 DEF CreateDrill, IInv, Exists, HistoryInv, TimelineAccountsForState
  <2>2. events \in Seq(EventTypes)
    BY DEF IInv, TypeOK
  <2>3. events = <<>>
    BY <2>1, <2>2
  <2>4. events' = <<"drill_created">>
    BY <1>1 DEF CreateDrill
  <2> QED BY <2>3, <2>4
<1>2. ASSUME NEW status, NEW type \in EventTypes, Save(status, type)
      PROVE  \E t \in EventTypes : events' = Append(events, t)
  BY <1>2 DEF Save
<1>3. ASSUME NEW code, NEW in, RecordCheck(code, in)
      PROVE  \E t \in EventTypes : events' = Append(events, t)
  BY <1>2, <1>3 DEF RecordCheck, EventTypes
<1>4. ASSUME NEW d, Remediate(d) PROVE \E t \in EventTypes : events' = Append(events, t)
  BY <1>2, <1>4 DEF Remediate, EventTypes
<1>5. ASSUME NEW d, NEW in, Retest(d, in)
      PROVE  \E t \in EventTypes : events' = Append(events, t)
  BY <1>2, <1>5 DEF Retest, EventTypes
<1>6. ASSUME SubmitReview PROVE \E t \in EventTypes : events' = Append(events, t)
  BY <1>2, <1>6 DEF SubmitReview, EventTypes
<1>7. ASSUME NEW reviewer, NEW n, RejectReview(reviewer, n)
      PROVE  \E t \in EventTypes : events' = Append(events, t)
  BY <1>2, <1>7 DEF RejectReview, EventTypes
<1>8. ASSUME NEW reviewer, ApproveReview(reviewer)
      PROVE  \E t \in EventTypes : events' = Append(events, t)
  BY <1>2, <1>8 DEF ApproveReview, EventTypes
<1>9. ASSUME NEW given, RespondToReview(given)
      PROVE  \E t \in EventTypes : events' = Append(events, t)
  BY <1>2, <1>9 DEF RespondToReview, EventTypes
<1>10. ASSUME NEW in \in Profiles, ReviseDrill(in)
       PROVE  \E t \in EventTypes : events' = Append(events, t)
  BY <1>10 DEF ReviseDrill, EventTypes
<1>11. ASSUME NEW layout, NEW held, FreezeBaseline(layout, held)
       PROVE  \E t \in EventTypes : events' = Append(events, t)
  BY <1>11 DEF FreezeBaseline, EventTypes
<1>12. ASSUME NEW layout, PreviewBaseline(layout) PROVE FALSE
  BY <1>12 DEF PreviewBaseline
<1>13. "drill_created" \in EventTypes
  BY DEF EventTypes
<1> QED BY <1>1, <1>3, <1>4, <1>5, <1>6, <1>7, <1>8, <1>9, <1>10, <1>11, <1>12, <1>13 DEF Next

\* Answers that were resubmitted for review are never rewritten, and an
\* activated drill never changes.
THEOREM FrozenForever == Spec => ClosedRecordsStay
<1>1. IInv /\ [Next]_vars =>
        [/\ drill.status # "activated"
         /\ Len(rounds') >= Len(rounds)
         /\ \A i \in DOMAIN rounds : rounds[i].frozen => rounds'[i] = rounds[i]]_vars
  BY ActivatedForever, RoundsKept
<1> QED BY <1>1, Invariance, PTL DEF Spec, ClosedRecordsStay

=============================================================================
