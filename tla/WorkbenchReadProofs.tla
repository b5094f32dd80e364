------------------------- MODULE WorkbenchReadProofs -------------------------
(* What GetWorkbench shows, for every number of checkpoints and every set   *)
(* of forms: the view a read puts together while commands are committed     *)
(* between its queries, and the progress, which agrees with the rules the   *)
(* handlers apply.                                                          *)
EXTENDS WorkbenchRead, ProgressSummary, DrillLifecycleProofs

(***************************************************************************)
(* The inductive invariant.  Every command gives the drill a new version,  *)
(* and the row of the drill is read first: as long as the version that was *)
(* read is the current one, whatever was read is what the tables hold.     *)
(***************************************************************************)

\* The stages at which a part of the view has been read.
ReadEvents == {"answered"}
ReadDecision == {"events"} \cup ReadEvents
ReadItems == {"decision"} \cup ReadDecision
ReadRounds == {"items"} \cup ReadItems
ReadRetests == {"rounds"} \cup ReadRounds
ReadMaterials == {"retests"} \cup ReadRetests
ReadDeviations == {"materials"} \cup ReadMaterials
ReadResults == {"deviations"} \cup ReadDeviations
ReadCheckpoints == {"results"} \cup ReadResults
ReadBaseline == {"checkpoints"} \cup ReadCheckpoints
ReadDrill == {"baseline"} \cup ReadBaseline

IsView ==
  view = [drill |-> view.drill, baseline |-> view.baseline,
          checkpoints |-> view.checkpoints, results |-> view.results,
          deviations |-> view.deviations, materials |-> view.materials,
          retests |-> view.retests, rounds |-> view.rounds,
          decision |-> view.decision, events |-> view.events]

\* The rounds as they are in the table, without the items not read yet.
RoundsSoFar ==
  [i \in DOMAIN rounds |->
     [reviewer |-> rounds[i].reviewer, frozen |-> rounds[i].frozen,
      items |-> IF i \in Unread THEN <<>> ELSE rounds[i].items]]

ExactSoFar ==
  /\ view.drill = drill
  /\ stage \in ReadBaseline => view.baseline = baseline
  /\ stage \in ReadCheckpoints => view.checkpoints = checkpoints
  /\ stage \in ReadResults => view.results = results
  /\ stage \in ReadDeviations => view.deviations = deviations
  /\ stage \in ReadMaterials => view.materials = materials
  /\ stage \in ReadRetests => view.retests = retests
  /\ stage \in ReadRounds => view.rounds = RoundsSoFar
  /\ stage \in ReadItems => Unread = {}
  /\ stage \in ReadDecision => view.decision = decision
  /\ stage \in ReadEvents => view.events = events

\* A drill whose row names no baseline has none.
BaselineNamed == drill.baselineVersion = 0 => baseline = NoBaseline

ReadInv ==
  /\ BaselineNamed
  /\ stage \in Stages
  /\ IsView
  /\ stage \in ReadDrill =>
       /\ view.drill.version \in Nat
       /\ view.drill.version <= drill.version
       /\ view.drill.version = drill.version => ExactSoFar
       /\ view.drill.status = "activated" => view.drill.version = drill.version
  /\ stage \in ReadDecision /\ purpose = "verify" => view.drill.status = "activated"

-----------------------------------------------------------------------------
\* An activated drill keeps its version.
LEMMA ActivatedKeepsVersion ==
  ASSUME IInv, [Next]_vars, drill.status = "activated"
  PROVE  drill' = drill
BY ActivatedForever DEF vars

LEMMA BaselineStaysNamed ==
  ASSUME IInv, BaselineNamed, [Next]_vars
  PROVE  BaselineNamed'
<1> DEFINE Kept == drill'.baselineVersion = drill.baselineVersion /\ baseline' = baseline
<1>1. drill.baselineVersion \in Nat
  BY DEF IInv, TypeOK, DrillRow
<1>2. ASSUME NEW layout \in Layouts, NEW held \in {preview, NoPreview},
             FreezeBaseline(layout, held)
      PROVE  drill'.baselineVersion = drill.baselineVersion + 1
  BY <1>2 DEF FreezeBaseline, NextRow
<1>3. ASSUME NEW in \in Profiles, CreateDrill(in)
      PROVE  baseline' = NoBaseline
  BY <1>3 DEF CreateDrill, IInv, StatusMatchesProgress
<1>4. ASSUME NEW in \in Profiles, ReviseDrill(in) PROVE Kept
  BY <1>4 DEF ReviseDrill, NextRow
<1>5. ASSUME NEW layout \in Layouts, PreviewBaseline(layout) PROVE Kept
  BY <1>5 DEF PreviewBaseline
<1>6. ASSUME NEW status, NEW event, Save(status, event)
      PROVE  drill'.baselineVersion = drill.baselineVersion
  BY <1>6 DEF Save, NextRow
<1>7. ASSUME NEW code \in Codes, NEW in \in ResultInputs, RecordCheck(code, in) PROVE Kept
  BY <1>7, <1>6 DEF RecordCheck
<1>8. ASSUME NEW d \in deviations, Remediate(d) PROVE Kept
  BY <1>8, <1>6 DEF Remediate
<1>9. ASSUME NEW d \in deviations, NEW in \in ResultInputs, Retest(d, in) PROVE Kept
  BY <1>9, <1>6 DEF Retest
<1>10. ASSUME SubmitReview PROVE Kept
  BY <1>10, <1>6 DEF SubmitReview
<1>11. ASSUME NEW reviewer \in Names, NEW n \in 0..MaxItems, RejectReview(reviewer, n)
       PROVE  Kept
  BY <1>11, <1>6 DEF RejectReview
<1>12. ASSUME NEW reviewer \in Names, ApproveReview(reviewer) PROVE Kept
  BY <1>12, <1>6 DEF ApproveReview
<1>13. ASSUME NEW S \in SUBSET (1..MaxItems), NEW given \in [S -> Answers],
              RespondToReview(given)
       PROVE  Kept
  BY <1>13, <1>6 DEF RespondToReview
<1>14. CASE UNCHANGED vars
  BY <1>14 DEF vars, BaselineNamed
<1>15. Kept => BaselineNamed'
  BY DEF BaselineNamed
<1>16. drill'.baselineVersion = drill.baselineVersion + 1 => BaselineNamed'
  BY <1>1 DEF BaselineNamed
<1>17. baseline' = NoBaseline => BaselineNamed'
  BY DEF BaselineNamed
<1> HIDE DEF Kept
<1> QED BY <1>2, <1>3, <1>4, <1>5, <1>7, <1>8, <1>9, <1>10, <1>11, <1>12, <1>13, <1>14,
           <1>15, <1>16, <1>17 DEF Next

LEMMA InitReadInv == ReadInit => ReadInv
BY DEF ReadInit, Init, BaselineNamed, ReadInv, Stages, Ended, NothingRead, IsView, ReadDrill, ReadBaseline,
       ReadCheckpoints, ReadResults, ReadDeviations, ReadMaterials, ReadRetests,
       ReadRounds, ReadItems, ReadDecision, ReadEvents

\* A command makes the view old, or leaves everything that was read as it was.
LEMMA CommandReadInv ==
  ASSUME IInv, ReadInv, [Next]_vars, UNCHANGED readVars
  PROVE  ReadInv'
<1>1. drill.version \in Nat
  BY DEF IInv, TypeOK, DrillRow
<1>2. stage' = stage /\ purpose' = purpose /\ view' = view
  BY DEF readVars
<1>3. stage' \in Stages /\ IsView' /\ BaselineNamed'
  BY <1>2, BaselineStaysNamed DEF ReadInv, IsView
<1>4. (stage \in ReadDecision /\ purpose = "verify" => view.drill.status = "activated")'
  BY <1>2 DEF ReadInv
<1>5. ASSUME stage \in ReadDrill
      PROVE  /\ view.drill.version \in Nat
             /\ view.drill.version <= drill'.version
             /\ view.drill.version = drill'.version => ExactSoFar'
             /\ view.drill.status = "activated" => view.drill.version = drill'.version
  <2>1. /\ view.drill.version \in Nat
        /\ view.drill.version <= drill.version
        /\ view.drill.version = drill.version => ExactSoFar
        /\ view.drill.status = "activated" => view.drill.version = drill.version
    BY <1>5 DEF ReadInv
  <2>2. CASE drill'.version = drill.version + 1
    <3>1. view.drill.version # drill'.version /\ view.drill.version <= drill'.version
      BY <1>1, <2>1, <2>2
    <3>2. view.drill.status # "activated"
      <4> SUFFICES ASSUME view.drill.status = "activated" PROVE FALSE
        OBVIOUS
      <4>1. view.drill = drill
        BY <2>1 DEF ExactSoFar
      <4>2. drill' = drill
        BY <4>1, ActivatedKeepsVersion
      <4> QED BY <4>2, <1>1, <2>2
    <3> QED BY <2>1, <3>1, <3>2
  <2>3. CASE UNCHANGED Tables
    <3>1. /\ drill' = drill /\ baseline' = baseline /\ checkpoints' = checkpoints
          /\ results' = results /\ deviations' = deviations /\ materials' = materials
          /\ retests' = retests /\ rounds' = rounds /\ decision' = decision
          /\ events' = events
      BY <2>3 DEF Tables
    <3>2. ExactSoFar => ExactSoFar'
      BY <3>1, <1>2 DEF ExactSoFar, RoundsSoFar, Unread
    <3> QED BY <2>1, <3>1, <3>2
  <2> QED BY <2>2, <2>3, CommandsChangeTheVersion DEF IInv, UnchangedTables, Tables
<1> QED BY <1>2, <1>3, <1>4, <1>5 DEF ReadInv

LEMMA StartReadInv ==
  ASSUME IInv, ReadInv, NEW p \in Purposes, StartRead(p), UNCHANGED vars
  PROVE  ReadInv'
<1>1. BaselineNamed'
  BY DEF ReadInv, BaselineNamed, vars
<1> QED
  BY <1>1 DEF ReadInv, StartRead, Stages, Ended, Following, NothingRead, IsView, ReadDrill,
         ReadBaseline, ReadCheckpoints, ReadResults, ReadDeviations, ReadMaterials,
         ReadRetests, ReadRounds, ReadItems, ReadDecision, ReadEvents

LEMMA LoadDrillInv ==
  ASSUME IInv, ReadInv, LoadDrill, UNCHANGED vars
  PROVE  ReadInv'
<1>1. stage' = "baseline" /\ view' = [view EXCEPT !.drill = drill]
  BY DEF LoadDrill, Advance, Following
<1>2. IsView' /\ view'.drill = drill
  BY <1>1 DEF ReadInv, IsView
<1>3. drill' = drill /\ drill.version \in Nat
  BY DEF vars, IInv, TypeOK, DrillRow
<1>4. stage' \in Stages /\ BaselineNamed'
  BY <1>1 DEF Stages, Following, ReadInv, BaselineNamed, vars
<1>5. ExactSoFar'
  BY <1>1, <1>2, <1>3 DEF ExactSoFar, ReadBaseline, ReadCheckpoints, ReadResults, ReadDeviations,
       ReadMaterials, ReadRetests, ReadRounds, ReadItems, ReadDecision, ReadEvents
<1> QED BY <1>1, <1>2, <1>3, <1>4, <1>5 DEF ReadInv, ReadDecision, ReadEvents

\* A query keeps the invariant if it reads one part of the view as it is in
\* the tables, and nothing of the row of the drill.
LEMMA QueryReadInv ==
  ASSUME IInv, ReadInv, UNCHANGED vars, UNCHANGED purpose,
         stage \in ReadDrill, stage' \in Stages, IsView', view'.drill = view.drill,
         view.drill.version = drill.version /\ ExactSoFar => ExactSoFar',
         stage' \in ReadDecision /\ stage \notin ReadDecision /\ purpose = "verify" =>
           view'.drill.status = "activated"
  PROVE  ReadInv'
<1>1. drill' = drill /\ BaselineNamed'
  BY DEF vars, ReadInv, BaselineNamed
<1> QED BY <1>1 DEF ReadInv

LEMMA LoadBaselineInv ==
  ASSUME IInv, ReadInv, LoadBaseline, UNCHANGED vars
  PROVE  ReadInv'
<1>1. /\ stage = "baseline" /\ stage' = "checkpoints" /\ UNCHANGED purpose
      /\ view' = [view EXCEPT !.baseline = IF view.drill.baselineVersion = 0 THEN NoBaseline ELSE baseline]
  BY DEF LoadBaseline, Advance, Following
<1>2. IsView' /\ view'.drill = view.drill
  BY <1>1 DEF ReadInv, IsView
<1>3. view.drill.version = drill.version /\ ExactSoFar => ExactSoFar'
  BY <1>1, <1>2 DEF vars, ReadInv, IsView, ExactSoFar, RoundsSoFar, Unread, BaselineNamed,
         ReadDrill, ReadBaseline, ReadCheckpoints, ReadResults, ReadDeviations,
         ReadMaterials, ReadRetests, ReadRounds, ReadItems, ReadDecision, ReadEvents
<1>4. stage' \in Stages /\ stage \in ReadDrill
  BY <1>1 DEF Stages, Following, ReadDrill, ReadBaseline, ReadCheckpoints, ReadResults, ReadDeviations,
         ReadMaterials, ReadRetests, ReadRounds, ReadItems, ReadDecision, ReadEvents
<1>5. stage' \in ReadDecision => stage \in ReadDecision
  BY <1>1 DEF ReadDecision, ReadEvents
<1> QED BY <1>1, <1>2, <1>3, <1>4, <1>5, QueryReadInv

LEMMA LoadCheckpointsInv ==
  ASSUME IInv, ReadInv, LoadCheckpoints, UNCHANGED vars
  PROVE  ReadInv'
<1>1. /\ stage = "checkpoints" /\ stage' = "results" /\ UNCHANGED purpose
      /\ view' = [view EXCEPT !.checkpoints = checkpoints]
  BY DEF LoadCheckpoints, Advance, Following
<1>2. IsView' /\ view'.drill = view.drill
  BY <1>1 DEF ReadInv, IsView
<1>3. view.drill.version = drill.version /\ ExactSoFar => ExactSoFar'
  BY <1>1, <1>2 DEF vars, ReadInv, IsView, ExactSoFar, RoundsSoFar, Unread,
         ReadDrill, ReadBaseline, ReadCheckpoints, ReadResults, ReadDeviations,
         ReadMaterials, ReadRetests, ReadRounds, ReadItems, ReadDecision, ReadEvents
<1>4. stage' \in Stages /\ stage \in ReadDrill
  BY <1>1 DEF Stages, Following, ReadDrill, ReadBaseline, ReadCheckpoints, ReadResults, ReadDeviations,
         ReadMaterials, ReadRetests, ReadRounds, ReadItems, ReadDecision, ReadEvents
<1>5. stage' \in ReadDecision => stage \in ReadDecision
  BY <1>1 DEF ReadDecision, ReadEvents
<1> QED BY <1>1, <1>2, <1>3, <1>4, <1>5, QueryReadInv

LEMMA LoadResultsInv ==
  ASSUME IInv, ReadInv, LoadResults, UNCHANGED vars
  PROVE  ReadInv'
<1>1. /\ stage = "results" /\ stage' = "deviations" /\ UNCHANGED purpose
      /\ view' = [view EXCEPT !.results = results]
  BY DEF LoadResults, Advance, Following
<1>2. IsView' /\ view'.drill = view.drill
  BY <1>1 DEF ReadInv, IsView
<1>3. view.drill.version = drill.version /\ ExactSoFar => ExactSoFar'
  BY <1>1, <1>2 DEF vars, ReadInv, IsView, ExactSoFar, RoundsSoFar, Unread,
         ReadDrill, ReadBaseline, ReadCheckpoints, ReadResults, ReadDeviations,
         ReadMaterials, ReadRetests, ReadRounds, ReadItems, ReadDecision, ReadEvents
<1>4. stage' \in Stages /\ stage \in ReadDrill
  BY <1>1 DEF Stages, Following, ReadDrill, ReadBaseline, ReadCheckpoints, ReadResults, ReadDeviations,
         ReadMaterials, ReadRetests, ReadRounds, ReadItems, ReadDecision, ReadEvents
<1>5. stage' \in ReadDecision => stage \in ReadDecision
  BY <1>1 DEF ReadDecision, ReadEvents
<1> QED BY <1>1, <1>2, <1>3, <1>4, <1>5, QueryReadInv

LEMMA LoadDeviationsInv ==
  ASSUME IInv, ReadInv, LoadDeviations, UNCHANGED vars
  PROVE  ReadInv'
<1>1. /\ stage = "deviations" /\ stage' = "materials" /\ UNCHANGED purpose
      /\ view' = [view EXCEPT !.deviations = deviations]
  BY DEF LoadDeviations, Advance, Following
<1>2. IsView' /\ view'.drill = view.drill
  BY <1>1 DEF ReadInv, IsView
<1>3. view.drill.version = drill.version /\ ExactSoFar => ExactSoFar'
  BY <1>1, <1>2 DEF vars, ReadInv, IsView, ExactSoFar, RoundsSoFar, Unread,
         ReadDrill, ReadBaseline, ReadCheckpoints, ReadResults, ReadDeviations,
         ReadMaterials, ReadRetests, ReadRounds, ReadItems, ReadDecision, ReadEvents
<1>4. stage' \in Stages /\ stage \in ReadDrill
  BY <1>1 DEF Stages, Following, ReadDrill, ReadBaseline, ReadCheckpoints, ReadResults, ReadDeviations,
         ReadMaterials, ReadRetests, ReadRounds, ReadItems, ReadDecision, ReadEvents
<1>5. stage' \in ReadDecision => stage \in ReadDecision
  BY <1>1 DEF ReadDecision, ReadEvents
<1> QED BY <1>1, <1>2, <1>3, <1>4, <1>5, QueryReadInv

LEMMA LoadMaterialsInv ==
  ASSUME IInv, ReadInv, LoadMaterials, UNCHANGED vars
  PROVE  ReadInv'
<1>1. /\ stage = "materials" /\ stage' = "retests" /\ UNCHANGED purpose
      /\ view' = [view EXCEPT !.materials = materials]
  BY DEF LoadMaterials, Advance, Following
<1>2. IsView' /\ view'.drill = view.drill
  BY <1>1 DEF ReadInv, IsView
<1>3. view.drill.version = drill.version /\ ExactSoFar => ExactSoFar'
  BY <1>1, <1>2 DEF vars, ReadInv, IsView, ExactSoFar, RoundsSoFar, Unread,
         ReadDrill, ReadBaseline, ReadCheckpoints, ReadResults, ReadDeviations,
         ReadMaterials, ReadRetests, ReadRounds, ReadItems, ReadDecision, ReadEvents
<1>4. stage' \in Stages /\ stage \in ReadDrill
  BY <1>1 DEF Stages, Following, ReadDrill, ReadBaseline, ReadCheckpoints, ReadResults, ReadDeviations,
         ReadMaterials, ReadRetests, ReadRounds, ReadItems, ReadDecision, ReadEvents
<1>5. stage' \in ReadDecision => stage \in ReadDecision
  BY <1>1 DEF ReadDecision, ReadEvents
<1> QED BY <1>1, <1>2, <1>3, <1>4, <1>5, QueryReadInv

LEMMA LoadRetestsInv ==
  ASSUME IInv, ReadInv, LoadRetests, UNCHANGED vars
  PROVE  ReadInv'
<1>1. /\ stage = "retests" /\ stage' = "rounds" /\ UNCHANGED purpose
      /\ view' = [view EXCEPT !.retests = retests]
  BY DEF LoadRetests, Advance, Following
<1>2. IsView' /\ view'.drill = view.drill
  BY <1>1 DEF ReadInv, IsView
<1>3. view.drill.version = drill.version /\ ExactSoFar => ExactSoFar'
  BY <1>1, <1>2 DEF vars, ReadInv, IsView, ExactSoFar, RoundsSoFar, Unread,
         ReadDrill, ReadBaseline, ReadCheckpoints, ReadResults, ReadDeviations,
         ReadMaterials, ReadRetests, ReadRounds, ReadItems, ReadDecision, ReadEvents
<1>4. stage' \in Stages /\ stage \in ReadDrill
  BY <1>1 DEF Stages, Following, ReadDrill, ReadBaseline, ReadCheckpoints, ReadResults, ReadDeviations,
         ReadMaterials, ReadRetests, ReadRounds, ReadItems, ReadDecision, ReadEvents
<1>5. stage' \in ReadDecision => stage \in ReadDecision
  BY <1>1 DEF ReadDecision, ReadEvents
<1> QED BY <1>1, <1>2, <1>3, <1>4, <1>5, QueryReadInv

LEMMA LoadEventsInv ==
  ASSUME IInv, ReadInv, LoadEvents, UNCHANGED vars
  PROVE  ReadInv'
<1>1. /\ stage = "events" /\ stage' = "answered" /\ UNCHANGED purpose
      /\ view' = [view EXCEPT !.events = events]
  BY DEF LoadEvents, Advance, Following
<1>2. IsView' /\ view'.drill = view.drill
  BY <1>1 DEF ReadInv, IsView
<1>3. view.drill.version = drill.version /\ ExactSoFar => ExactSoFar'
  BY <1>1, <1>2 DEF vars, ReadInv, IsView, ExactSoFar, RoundsSoFar, Unread,
         ReadDrill, ReadBaseline, ReadCheckpoints, ReadResults, ReadDeviations,
         ReadMaterials, ReadRetests, ReadRounds, ReadItems, ReadDecision, ReadEvents
<1>4. stage' \in Stages /\ stage \in ReadDrill
  BY <1>1 DEF Stages, Ended, Following, ReadDrill, ReadBaseline, ReadCheckpoints, ReadResults, ReadDeviations,
         ReadMaterials, ReadRetests, ReadRounds, ReadItems, ReadDecision, ReadEvents
<1>5. stage' \in ReadDecision => stage \in ReadDecision
  BY <1>1 DEF ReadDecision, ReadEvents
<1> QED BY <1>1, <1>2, <1>3, <1>4, <1>5, QueryReadInv

\* Every round of the table has items.
LEMMA RoundsHaveItems ==
  ASSUME TypeOK
  PROVE  /\ rounds \in Seq(ReviewRound) /\ DOMAIN rounds = 1..Len(rounds) /\ Len(rounds) \in Nat
         /\ \A i \in DOMAIN rounds :
              /\ rounds[i].items # <<>>
              /\ rounds[i] = [reviewer |-> rounds[i].reviewer, frozen |-> rounds[i].frozen,
                             items |-> rounds[i].items]
<1>1. rounds \in Seq(ReviewRound) /\ DOMAIN rounds = 1..Len(rounds) /\ Len(rounds) \in Nat
  BY DEF TypeOK
<1>2. ASSUME NEW r \in ReviewRound
      PROVE  r.items # <<>> /\ r = [reviewer |-> r.reviewer, frozen |-> r.frozen, items |-> r.items]
  <2>1. PICK n \in 1..MaxItems : r.items \in [1..n -> Answers \cup {Blank}]
    BY <1>2 DEF ReviewRound
  <2>2. 1 \in DOMAIN r.items
    BY <2>1
  <2>3. DOMAIN <<>> = {}
    OBVIOUS
  <2> QED BY <1>2, <2>2, <2>3 DEF ReviewRound
<1>3. \A i \in DOMAIN rounds : rounds[i] \in ReviewRound
  BY <1>1
<1> QED BY <1>1, <1>2, <1>3

LEMMA LoadDecisionInv ==
  ASSUME IInv, ReadInv, LoadDecision, UNCHANGED vars
  PROVE  ReadInv'
<1>1. /\ stage = "decision" /\ UNCHANGED purpose
      /\ view' = [view EXCEPT !.decision = decision]
      /\ \/ stage' = "unavailable"
         \/ stage' = "events" /\ (purpose = "verify" => DecisionAvailable')
  BY DEF LoadDecision, Advance, Following
<1>2. IsView' /\ view'.drill = view.drill
  BY <1>1 DEF ReadInv, IsView
<1>3. view.drill.version = drill.version /\ ExactSoFar => ExactSoFar'
  BY <1>1, <1>2 DEF vars, ReadInv, IsView, ExactSoFar, RoundsSoFar, Unread,
         ReadDrill, ReadBaseline, ReadCheckpoints, ReadResults, ReadDeviations,
         ReadMaterials, ReadRetests, ReadRounds, ReadItems, ReadDecision, ReadEvents
<1>4. stage' \in Stages /\ stage \in ReadDrill
  BY <1>1 DEF Stages, Ended, Following, ReadDrill, ReadBaseline, ReadCheckpoints, ReadResults, ReadDeviations,
         ReadMaterials, ReadRetests, ReadRounds, ReadItems, ReadDecision, ReadEvents
<1>5. stage' \in ReadDecision /\ purpose = "verify" => view'.drill.status = "activated"
  BY <1>1 DEF ReadDecision, ReadEvents, DecisionAvailable
<1> QED BY <1>1, <1>2, <1>3, <1>4, <1>5, QueryReadInv

LEMMA LoadRoundsInv ==
  ASSUME IInv, ReadInv, LoadRounds, UNCHANGED vars
  PROVE  ReadInv'
<1>1. /\ stage = "rounds" /\ stage' = "items" /\ UNCHANGED purpose
      /\ view' = [view EXCEPT !.rounds = [i \in DOMAIN rounds |-> WithoutItems(rounds[i])]]
  BY DEF LoadRounds, Advance, Following
<1>2. IsView' /\ view'.drill = view.drill
  BY <1>1 DEF ReadInv, IsView
<1>3. view'.rounds = [i \in DOMAIN rounds |-> WithoutItems(rounds[i])]
  BY <1>1 DEF ReadInv, IsView
<1>4. Unread' = DOMAIN rounds
  <2>1. DOMAIN view'.rounds = DOMAIN rounds
    BY <1>3
  <2>2. \A i \in DOMAIN rounds : view'.rounds[i].items = <<>>
    BY <1>3 DEF WithoutItems
  <2> QED BY <2>1, <2>2 DEF Unread
<1>5. view'.rounds = RoundsSoFar'
  BY <1>3, <1>4 DEF RoundsSoFar, WithoutItems, vars
<1>6. view.drill.version = drill.version /\ ExactSoFar => ExactSoFar'
  BY <1>1, <1>2, <1>5 DEF vars, ReadInv, IsView, ExactSoFar,
         ReadDrill, ReadBaseline, ReadCheckpoints, ReadResults, ReadDeviations,
         ReadMaterials, ReadRetests, ReadRounds, ReadItems, ReadDecision, ReadEvents
<1>7. stage' \in Stages /\ stage \in ReadDrill
  BY <1>1 DEF Stages, Following, ReadDrill, ReadBaseline, ReadCheckpoints, ReadResults, ReadDeviations,
         ReadMaterials, ReadRetests, ReadRounds, ReadItems, ReadDecision, ReadEvents
<1>8. stage' \notin ReadDecision
  BY <1>1 DEF ReadDecision, ReadEvents
<1> QED BY <1>1, <1>2, <1>6, <1>7, <1>8, QueryReadInv

LEMMA LoadReviewItemsInv ==
  ASSUME IInv, ReadInv, LoadReviewItems, UNCHANGED vars
  PROVE  ReadInv'
<1>1. PICK i \in Unread :
        view' = [view EXCEPT !.rounds =
          [j \in DOMAIN view.rounds |->
             IF j = i THEN [reviewer |-> view.rounds[i].reviewer,
                            frozen |-> view.rounds[i].frozen,
                            items |-> rounds[i].items]
             ELSE view.rounds[j]]]
  BY DEF LoadReviewItems
<1>2. stage = "items" /\ stage' = "items" /\ UNCHANGED purpose
  BY DEF LoadReviewItems
<1>3. IsView' /\ view'.drill = view.drill
  BY <1>1 DEF ReadInv, IsView
<1>4. view'.rounds = [j \in DOMAIN view.rounds |->
             IF j = i THEN [reviewer |-> view.rounds[i].reviewer,
                            frozen |-> view.rounds[i].frozen,
                            items |-> rounds[i].items]
             ELSE view.rounds[j]]
  BY <1>1 DEF ReadInv, IsView
<1>5. ASSUME view.rounds = RoundsSoFar PROVE view'.rounds = RoundsSoFar'
  <2>1. DOMAIN view.rounds = DOMAIN rounds /\ i \in DOMAIN rounds
    BY <1>5 DEF RoundsSoFar, Unread
  <2>2. rounds[i].items # <<>>
    BY <2>1, RoundsHaveItems DEF IInv
  <2>3. Unread' = Unread \ {i}
    BY <1>4, <2>1, <2>2 DEF Unread
  <2>4. ASSUME NEW j \in DOMAIN rounds
        PROVE  view'.rounds[j] = [reviewer |-> rounds[j].reviewer, frozen |-> rounds[j].frozen,
                                  items |-> IF j \in Unread' THEN <<>> ELSE rounds[j].items]
    <3>1. view.rounds[j] = [reviewer |-> rounds[j].reviewer, frozen |-> rounds[j].frozen,
                            items |-> IF j \in Unread THEN <<>> ELSE rounds[j].items]
      BY <1>5 DEF RoundsSoFar
    <3>2. CASE j = i
      BY <1>4, <2>1, <2>3, <3>1, <3>2
    <3>3. CASE j # i
      BY <1>4, <2>1, <2>3, <3>1, <3>3
    <3> QED BY <3>2, <3>3
  <2>5. view'.rounds = [j \in DOMAIN rounds |-> view'.rounds[j]]
    BY <1>4, <2>1
  <2> QED BY <2>4, <2>5 DEF RoundsSoFar, vars
<1>6. view.drill.version = drill.version /\ ExactSoFar => ExactSoFar'
  BY <1>1, <1>2, <1>3, <1>5 DEF vars, ReadInv, IsView, ExactSoFar,
         ReadDrill, ReadBaseline, ReadCheckpoints, ReadResults, ReadDeviations,
         ReadMaterials, ReadRetests, ReadRounds, ReadItems, ReadDecision, ReadEvents
<1>7. stage' \in Stages /\ stage \in ReadDrill
  BY <1>2 DEF Stages, Following, ReadDrill, ReadBaseline, ReadCheckpoints, ReadResults, ReadDeviations,
         ReadMaterials, ReadRetests, ReadRounds, ReadItems, ReadDecision, ReadEvents
<1>8. stage' \notin ReadDecision
  BY <1>2 DEF ReadDecision, ReadEvents
<1> QED BY <1>2, <1>3, <1>6, <1>7, <1>8, QueryReadInv

LEMMA ItemsLoadedInv ==
  ASSUME IInv, ReadInv, ItemsLoaded, UNCHANGED vars
  PROVE  ReadInv'
<1>1. stage = "items" /\ stage' = "decision" /\ Unread = {} /\ UNCHANGED <<purpose, view>>
  BY DEF ItemsLoaded, Advance, Following
<1>2. IsView' /\ view'.drill = view.drill
  BY <1>1 DEF ReadInv, IsView
<1>3. view.drill.version = drill.version /\ ExactSoFar => ExactSoFar'
  BY <1>1, <1>2 DEF vars, ReadInv, ExactSoFar, RoundsSoFar, Unread,
         ReadDrill, ReadBaseline, ReadCheckpoints, ReadResults, ReadDeviations,
         ReadMaterials, ReadRetests, ReadRounds, ReadItems, ReadDecision, ReadEvents
<1>4. stage' \in Stages /\ stage \in ReadDrill
  BY <1>1 DEF Stages, Following, ReadDrill, ReadBaseline, ReadCheckpoints, ReadResults, ReadDeviations,
         ReadMaterials, ReadRetests, ReadRounds, ReadItems, ReadDecision, ReadEvents
<1>5. stage' \notin ReadDecision
  BY <1>1 DEF ReadDecision, ReadEvents
<1> QED BY <1>1, <1>2, <1>3, <1>4, <1>5, QueryReadInv

LEMMA NextReadInv == IInv /\ ReadInv /\ [ReadNext]_allVars => ReadInv'
<1> SUFFICES ASSUME IInv, ReadInv, [ReadNext]_allVars PROVE ReadInv'
  OBVIOUS
<1>1. CASE Next /\ UNCHANGED readVars
  BY <1>1, CommandReadInv
<1>2. CASE UNCHANGED allVars
  <2>1. UNCHANGED vars /\ UNCHANGED readVars
    BY <1>2 DEF allVars, readVars
  <2> QED BY <2>1, CommandReadInv
<1>3. ASSUME NEW p \in Purposes, StartRead(p), UNCHANGED vars PROVE ReadInv'
  BY <1>3, StartReadInv
<1>4. CASE DrillNotFound /\ UNCHANGED vars
  <2>1. BaselineNamed'
    BY <1>4 DEF ReadInv, BaselineNamed, vars
  <2> QED BY <1>4, <2>1 DEF DrillNotFound, ReadInv, IsView, Stages, Ended,
         ReadDrill, ReadBaseline, ReadCheckpoints, ReadResults, ReadDeviations,
         ReadMaterials, ReadRetests, ReadRounds, ReadItems, ReadDecision, ReadEvents
<1> QED
  BY <1>1, <1>2, <1>3, <1>4, LoadDrillInv, LoadBaselineInv, LoadCheckpointsInv,
     LoadResultsInv, LoadDeviationsInv, LoadMaterialsInv, LoadRetestsInv, LoadRoundsInv,
     LoadReviewItemsInv, ItemsLoadedInv, LoadDecisionInv, LoadEventsInv DEF ReadNext, Query

LEMMA ReadSteps == [ReadNext]_allVars => [Next]_vars
BY DEF ReadNext, allVars

(***************************************************************************)
(* The second invariant, for a view that mixes versions: what was read may *)
(* be behind the tables, but everything in it is still there.  Results,    *)
(* materials, retests and rounds are only added to; a baseline, a frozen   *)
(* round and a decision never change.                                      *)
(***************************************************************************)

\* The row is that of an earlier version: a drill that left draft keeps its
\* profile and baseline, and a drill that was returned keeps a round.
RowBehind ==
  stage \in ReadDrill =>
    /\ view.drill.status \in Statuses \ {"absent"}
    /\ view.drill.status = "returned" => rounds # <<>>
    /\ view.drill.status # "draft" =>
         /\ drill.status \notin {"absent", "draft"}
         /\ view.drill.profile = drill.profile
         /\ view.drill.baselineVersion = drill.baselineVersion

BaselineBehind ==
  stage \in ReadBaseline /\ view.drill.status # "draft" => view.baseline = baseline

RowsBehind ==
  /\ stage \in ReadResults => view.results \subseteq results
  /\ stage \in ReadMaterials => view.materials \subseteq materials
  /\ stage \in ReadRetests => view.retests \subseteq retests

\* A round that was open when it was read may have been frozen since.
RoundsBehind ==
  /\ stage \in ReadRounds =>
       /\ Len(view.rounds) \in Nat /\ DOMAIN view.rounds = 1..Len(view.rounds)
       /\ Len(view.rounds) <= Len(rounds)
       /\ view.drill.status = "returned" => view.rounds # <<>>
       /\ \A i \in DOMAIN view.rounds : view.rounds[i].frozen =>
            /\ rounds[i].frozen
            /\ i \notin Unread => view.rounds[i].items = rounds[i].items
  /\ stage \in ReadItems => Unread = {}

DecisionBehind ==
  stage \in ReadDecision /\ view.decision # NoDecision => view.decision = decision

BehindInv ==
  /\ RowBehind
  /\ BaselineBehind
  /\ RowsBehind
  /\ RoundsBehind
  /\ DecisionBehind
  /\ TimelineAccountsForView

LEMMA InitBehind == ReadInit => BehindInv
BY DEF ReadInit, BehindInv, RowBehind, BaselineBehind, RowsBehind, RoundsBehind,
       DecisionBehind, TimelineAccountsForView, ReadDrill, ReadBaseline, ReadCheckpoints,
       ReadResults, ReadDeviations, ReadMaterials, ReadRetests, ReadRounds, ReadItems,
       ReadDecision, ReadEvents

\* The tables grow, the view stays.
LEMMA CommandBehind ==
  ASSUME IInv, BehindInv, [Next]_vars, UNCHANGED readVars
  PROVE  BehindInv'
<1> USE DEF readVars
<1>1. Unread' = Unread
  BY DEF Unread
<1>2. RoundsBehind'
  <2> SUFFICES ASSUME stage \in ReadRounds PROVE RoundsBehind'
    BY DEF RoundsBehind, ReadRounds
  <2>1. rounds \in Seq(ReviewRound) /\ Len(rounds) \in Nat /\ DOMAIN rounds = 1..Len(rounds)
    BY DEF IInv, TypeOK
  <2>2. IInv' /\ Len(rounds') >= Len(rounds) /\ Len(rounds') \in Nat
    BY NextIInv, RoundsKept DEF IInv, TypeOK
  <2> QED BY <1>1, <2>1, <2>2, RoundsKept DEF BehindInv, RoundsBehind
<1>3. rounds # <<>> => rounds' # <<>>
  <2>1. rounds \in Seq(ReviewRound) /\ rounds' \in Seq(ReviewRound)
    BY NextIInv DEF IInv, TypeOK
  <2> QED BY <2>1, RoundsKept
<1>4. RowBehind' /\ RowsBehind' /\ DecisionBehind'
  BY <1>3, TablesGrow DEF BehindInv, RowBehind, RowsBehind, DecisionBehind
<1>5. BaselineBehind'
  BY TablesGrow DEF BehindInv, RowBehind, BaselineBehind, ReadDrill
<1>6. TimelineAccountsForView'
  BY DEF BehindInv, TimelineAccountsForView, Reported
<1> QED BY <1>2, <1>4, <1>5, <1>6 DEF BehindInv

\* A query changes the view and neither the drill nor what was read before.
LEMMA QueryBehind ==
  ASSUME IInv, ReadInv, BehindInv, UNCHANGED vars,
         stage \in ReadDrill, view'.drill = view.drill,
         BaselineBehind', RowsBehind', RoundsBehind', DecisionBehind',
         stage' # "answered"
  PROVE  BehindInv'
<1>1. RowBehind'
  BY DEF vars, BehindInv, RowBehind
<1> QED BY <1>1 DEF BehindInv, TimelineAccountsForView

LEMMA StartReadBehind ==
  ASSUME BehindInv, UNCHANGED vars, NEW p \in Purposes, StartRead(p)
  PROVE  BehindInv'
<1>1. stage' = "drill"
  BY DEF StartRead, Following
<1> QED BY <1>1 DEF BehindInv, RowBehind, BaselineBehind, RowsBehind, RoundsBehind,
       DecisionBehind, TimelineAccountsForView, ReadDrill, ReadBaseline, ReadCheckpoints,
       ReadResults, ReadDeviations, ReadMaterials, ReadRetests, ReadRounds, ReadItems,
       ReadDecision, ReadEvents

LEMMA LoadDrillBehind ==
  ASSUME IInv, ReadInv, LoadDrill, UNCHANGED vars
  PROVE  BehindInv'
<1>1. /\ stage = "drill" /\ stage' = "baseline" /\ drill.status # "absent"
      /\ view' = [view EXCEPT !.drill = drill]
  BY DEF LoadDrill, Advance, Following
<1>2. view'.drill = drill
  BY <1>1 DEF ReadInv, IsView
<1>3. RowBehind'
  BY <1>1, <1>2 DEF IInv, TypeOK, DrillRow, OpenRoundIffReturned, vars, RowBehind
<1> QED BY <1>1, <1>3 DEF BehindInv, BaselineBehind, RowsBehind, RoundsBehind,
       DecisionBehind, TimelineAccountsForView, ReadBaseline, ReadCheckpoints,
       ReadResults, ReadDeviations, ReadMaterials, ReadRetests, ReadRounds, ReadItems,
       ReadDecision, ReadEvents

LEMMA LoadBaselineBehind ==
  ASSUME IInv, ReadInv, BehindInv, LoadBaseline, UNCHANGED vars
  PROVE  BehindInv'
<1>1. /\ stage = "baseline" /\ stage' = "checkpoints"
      /\ view' = [view EXCEPT !.baseline =
                    IF view.drill.baselineVersion = 0 THEN NoBaseline ELSE baseline]
  BY DEF LoadBaseline, Advance, Following
<1>2. /\ view'.drill = view.drill /\ view'.decision = view.decision
      /\ view'.baseline = IF view.drill.baselineVersion = 0 THEN NoBaseline ELSE baseline
  BY <1>1 DEF ReadInv, IsView
<1>3. stage \in ReadDrill
  BY <1>1 DEF ReadDrill
<1>4. BaselineBehind'
  BY <1>1, <1>2, <1>3 DEF vars, ReadInv, BaselineNamed, BehindInv, RowBehind, BaselineBehind
<1> QED BY <1>1, <1>2, <1>3, <1>4, QueryBehind DEF RowsBehind, RoundsBehind,
       DecisionBehind, ReadCheckpoints,
       ReadResults, ReadDeviations, ReadMaterials, ReadRetests, ReadRounds, ReadItems,
       ReadDecision, ReadEvents

\* The tables whose rows are only added to.
LEMMA LoadRowsBehind ==
  ASSUME IInv, ReadInv, BehindInv, UNCHANGED vars,
         LoadCheckpoints \/ LoadResults \/ LoadDeviations \/ LoadMaterials \/ LoadRetests
  PROVE  BehindInv'
<1>1. /\ view'.drill = view.drill /\ view'.baseline = view.baseline
      /\ stage \in ReadDrill /\ stage' # "answered"
      /\ stage \in ReadBaseline
      /\ stage' \notin ReadRounds
  BY DEF ReadInv, IsView, LoadCheckpoints, LoadResults, LoadDeviations, LoadMaterials,
         LoadRetests, Advance, Following, ReadDrill, ReadBaseline, ReadCheckpoints,
         ReadResults, ReadDeviations, ReadMaterials, ReadRetests, ReadRounds, ReadItems,
         ReadDecision, ReadEvents
<1>2. BaselineBehind'
  BY <1>1 DEF vars, BehindInv, BaselineBehind
<1>3. RowsBehind'
  BY DEF vars, ReadInv, IsView, BehindInv, RowsBehind,
         LoadCheckpoints, LoadResults, LoadDeviations, LoadMaterials,
         LoadRetests, Advance, Following, ReadResults, ReadDeviations, ReadMaterials,
         ReadRetests, ReadRounds, ReadItems, ReadDecision, ReadEvents
<1>4. RoundsBehind' /\ DecisionBehind'
  BY <1>1 DEF RoundsBehind, DecisionBehind, ReadRounds, ReadItems
<1> QED BY <1>1, <1>2, <1>3, <1>4, QueryBehind

LEMMA LoadRoundsBehind ==
  ASSUME IInv, ReadInv, BehindInv, LoadRounds, UNCHANGED vars
  PROVE  BehindInv'
<1>1. /\ stage = "rounds" /\ stage' = "items"
      /\ view' = [view EXCEPT !.rounds = [i \in DOMAIN rounds |-> WithoutItems(rounds[i])]]
  BY DEF LoadRounds, Advance, Following
<1>2. /\ view'.drill = view.drill /\ view'.baseline = view.baseline
      /\ view'.results = view.results /\ view'.materials = view.materials
      /\ view'.retests = view.retests
      /\ view'.rounds = [i \in DOMAIN rounds |-> WithoutItems(rounds[i])]
  BY <1>1 DEF ReadInv, IsView
<1>3. stage \in ReadDrill /\ stage \in ReadBaseline /\ stage \in ReadResults
        /\ stage \in ReadMaterials /\ stage \in ReadRetests
  BY <1>1 DEF ReadDrill, ReadBaseline, ReadCheckpoints, ReadResults, ReadDeviations,
         ReadMaterials, ReadRetests
<1>4. RoundsBehind'
  <2>1. rounds \in Seq(ReviewRound) /\ Len(rounds) \in Nat /\ DOMAIN rounds = 1..Len(rounds)
    BY DEF IInv, TypeOK
  <2>2. DOMAIN view'.rounds = 1..Len(rounds) /\ Len(view'.rounds) = Len(rounds)
    BY <1>2, <2>1
  <2>3. \A i \in DOMAIN view'.rounds :
          /\ view'.rounds[i].frozen = rounds[i].frozen
          /\ view'.rounds[i].items = <<>>
    BY <1>2, <2>1, <2>2 DEF WithoutItems
  <2>4. \A i \in DOMAIN view'.rounds : i \in Unread'
    BY <2>3 DEF Unread
  <2>5. rounds # <<>> => view'.rounds # <<>>
    BY <2>1, <2>2
  <2>6. stage' \notin ReadItems
    BY <1>1 DEF ReadItems, ReadDecision, ReadEvents
  <2> QED BY <1>2, <1>3, <2>1, <2>2, <2>3, <2>4, <2>5, <2>6
          DEF vars, BehindInv, RowBehind, RoundsBehind
<1>5. BaselineBehind' /\ RowsBehind'
  BY <1>2, <1>3 DEF vars, BehindInv, BaselineBehind, RowsBehind
<1>6. DecisionBehind'
  BY <1>1 DEF DecisionBehind, ReadDecision, ReadEvents
<1> QED BY <1>1, <1>2, <1>3, <1>4, <1>5, <1>6, QueryBehind

LEMMA LoadReviewItemsBehind ==
  ASSUME IInv, ReadInv, BehindInv, LoadReviewItems, UNCHANGED vars
  PROVE  BehindInv'
<1>1. PICK i \in Unread :
        view' = [view EXCEPT !.rounds =
          [j \in DOMAIN view.rounds |->
             IF j = i THEN [reviewer |-> view.rounds[i].reviewer,
                            frozen |-> view.rounds[i].frozen,
                            items |-> rounds[i].items]
             ELSE view.rounds[j]]]
  BY DEF LoadReviewItems
<1>2. stage = "items" /\ stage' = "items"
  BY DEF LoadReviewItems
<1>3. /\ view'.drill = view.drill /\ view'.baseline = view.baseline
      /\ view'.results = view.results /\ view'.materials = view.materials
      /\ view'.retests = view.retests
      /\ view'.rounds = [j \in DOMAIN view.rounds |->
             IF j = i THEN [reviewer |-> view.rounds[i].reviewer,
                            frozen |-> view.rounds[i].frozen,
                            items |-> rounds[i].items]
             ELSE view.rounds[j]]
  BY <1>1 DEF ReadInv, IsView
<1>4. /\ stage \in ReadDrill /\ stage \in ReadBaseline /\ stage \in ReadResults
      /\ stage \in ReadMaterials /\ stage \in ReadRetests /\ stage \in ReadRounds
      /\ stage \notin ReadItems
  BY <1>2 DEF ReadDrill, ReadBaseline, ReadCheckpoints, ReadResults, ReadDeviations,
         ReadMaterials, ReadRetests, ReadRounds, ReadItems, ReadDecision, ReadEvents
<1>5. RoundsBehind'
  <2> DEFINE n == Len(view.rounds)
  <2>1. /\ n \in Nat /\ DOMAIN view.rounds = 1..n /\ n <= Len(rounds)
        /\ view.drill.status = "returned" => view.rounds # <<>>
        /\ \A j \in DOMAIN view.rounds : view.rounds[j].frozen =>
             /\ rounds[j].frozen
             /\ j \notin Unread => view.rounds[j].items = rounds[j].items
    BY <1>4 DEF BehindInv, RoundsBehind
  <2>2. i \in DOMAIN view.rounds
    BY DEF Unread
  <2>3. DOMAIN view'.rounds = 1..n /\ Len(view'.rounds) = n
    BY <1>3, <2>1
  <2>4. view.rounds # <<>> => view'.rounds # <<>>
    BY <2>1, <2>2, <2>3
  <2>5. ASSUME NEW j \in DOMAIN view'.rounds, view'.rounds[j].frozen
        PROVE  rounds[j].frozen /\ (j \notin Unread' => view'.rounds[j].items = rounds[j].items)
    <3>1. CASE j = i
      BY <1>3, <2>1, <2>2, <2>3, <2>5, <3>1
    <3>2. CASE j # i
      <4>1. j \in DOMAIN view.rounds /\ view'.rounds[j] = view.rounds[j]
        BY <1>3, <2>1, <2>3, <3>2
      <4>2. j \in Unread => j \in Unread'
        BY <4>1 DEF Unread
      <4> QED BY <2>1, <2>5, <4>1, <4>2
    <3> QED BY <3>1, <3>2
  <2> HIDE DEF n
  <2> QED BY <1>2, <1>3, <1>4, <2>1, <2>3, <2>4, <2>5 DEF vars, RoundsBehind
<1>6. BaselineBehind' /\ RowsBehind'
  BY <1>3, <1>4 DEF vars, BehindInv, BaselineBehind, RowsBehind
<1>7. DecisionBehind'
  BY <1>2 DEF DecisionBehind, ReadDecision, ReadEvents
<1> QED BY <1>2, <1>3, <1>4, <1>5, <1>6, <1>7, QueryBehind

LEMMA ItemsLoadedBehind ==
  ASSUME IInv, ReadInv, BehindInv, ItemsLoaded, UNCHANGED vars
  PROVE  BehindInv'
<1>1. stage = "items" /\ stage' = "decision" /\ Unread = {} /\ UNCHANGED <<purpose, view>>
  BY DEF ItemsLoaded, Advance, Following
<1>2. /\ stage \in ReadDrill /\ stage \in ReadBaseline /\ stage \in ReadResults
      /\ stage \in ReadMaterials /\ stage \in ReadRetests /\ stage \in ReadRounds
  BY <1>1 DEF ReadDrill, ReadBaseline, ReadCheckpoints, ReadResults, ReadDeviations,
         ReadMaterials, ReadRetests, ReadRounds
<1>3. Unread' = Unread
  BY <1>1 DEF Unread
<1>4. RoundsBehind'
  BY <1>1, <1>2, <1>3 DEF vars, BehindInv, RoundsBehind
<1>5. BaselineBehind' /\ RowsBehind'
  BY <1>1, <1>2 DEF vars, BehindInv, BaselineBehind, RowsBehind
<1>6. DecisionBehind'
  BY <1>1 DEF DecisionBehind, ReadDecision, ReadEvents
<1> QED BY <1>1, <1>2, <1>4, <1>5, <1>6, QueryBehind

LEMMA LoadDecisionBehind ==
  ASSUME IInv, ReadInv, BehindInv, LoadDecision, UNCHANGED vars
  PROVE  BehindInv'
<1>1. /\ stage = "decision" /\ view' = [view EXCEPT !.decision = decision]
      /\ stage' \in {"unavailable", "events"}
  BY DEF LoadDecision, Advance, Following
<1>2. /\ view'.drill = view.drill /\ view'.baseline = view.baseline
      /\ view'.results = view.results /\ view'.materials = view.materials
      /\ view'.retests = view.retests /\ view'.rounds = view.rounds
      /\ view'.decision = decision
  BY <1>1 DEF ReadInv, IsView
<1>3. /\ stage \in ReadDrill /\ stage \in ReadBaseline /\ stage \in ReadResults
      /\ stage \in ReadMaterials /\ stage \in ReadRetests /\ stage \in ReadRounds
      /\ stage \in ReadItems
  BY <1>1 DEF ReadDrill, ReadBaseline, ReadCheckpoints, ReadResults, ReadDeviations,
         ReadMaterials, ReadRetests, ReadRounds, ReadItems
<1>4. Unread' = Unread
  BY <1>2 DEF Unread
<1>5. RoundsBehind'
  BY <1>2, <1>3, <1>4 DEF vars, BehindInv, RoundsBehind
<1>6. BaselineBehind' /\ RowsBehind' /\ DecisionBehind'
  BY <1>2, <1>3 DEF vars, BehindInv, BaselineBehind, RowsBehind, DecisionBehind
<1> QED BY <1>1, <1>2, <1>3, <1>5, <1>6, QueryBehind

LEMMA DisjointUnion ==
  \A S, T : IsFiniteSet(S) /\ IsFiniteSet(T) /\ S \cap T = {} =>
            Cardinality(S \cup T) = Cardinality(S) + Cardinality(T)
<1> TAKE S, T
<1> HAVE IsFiniteSet(S) /\ IsFiniteSet(T) /\ S \cap T = {}
<1>1. Cardinality(S \cap T) = 0
  BY FS_EmptySet
<1>2. Cardinality(S) \in Nat /\ Cardinality(T) \in Nat
  BY FS_CardinalityType
<1>3. Cardinality(S \cup T) = Cardinality(S) + Cardinality(T) - Cardinality(S \cap T)
  BY FS_Union
<1> QED BY <1>1, <1>2, <1>3

\* The events are read last, when the timeline accounts for all that was read.
LEMMA LoadEventsBehind ==
  ASSUME IInv, HistoryInv, ReadInv, BehindInv, LoadEvents, UNCHANGED vars
  PROVE  BehindInv'
<1>1. stage = "events" /\ stage' = "answered" /\ view' = [view EXCEPT !.events = events]
  BY DEF LoadEvents, Advance, Following
<1>2. /\ view'.drill = view.drill /\ view'.baseline = view.baseline
      /\ view'.results = view.results /\ view'.materials = view.materials
      /\ view'.retests = view.retests /\ view'.rounds = view.rounds
      /\ view'.decision = view.decision /\ view'.events = events
  BY <1>1 DEF ReadInv, IsView
<1>3. /\ stage \in ReadDrill /\ stage \in ReadBaseline /\ stage \in ReadResults
      /\ stage \in ReadMaterials /\ stage \in ReadRetests /\ stage \in ReadRounds
      /\ stage \in ReadItems /\ stage \in ReadDecision
  BY <1>1 DEF ReadDrill, ReadBaseline, ReadCheckpoints, ReadResults, ReadDeviations,
         ReadMaterials, ReadRetests, ReadRounds, ReadItems, ReadDecision
<1>4. Unread' = Unread
  BY <1>2 DEF Unread
<1>5. RoundsBehind'
  BY <1>2, <1>3, <1>4 DEF vars, BehindInv, RoundsBehind
<1>6. RowBehind' /\ BaselineBehind' /\ RowsBehind' /\ DecisionBehind'
  BY <1>2, <1>3 DEF vars, BehindInv, RowBehind, BaselineBehind, RowsBehind, DecisionBehind
<1>7. TimelineAccountsForView'
  <2> DEFINE At(type) == {i \in DOMAIN events : events[i] = type}
  <2>1. ASSUME NEW type PROVE IsFiniteSet(At(type)) /\ Reported({type})' = Count(type)
    <3>1. IsFiniteSet(1..Len(events))
      BY FS_Interval DEF IInv, TypeOK
    <3>2. At(type) \in SUBSET (1..Len(events))
      BY DEF IInv, TypeOK
    <3>3. {i \in DOMAIN view'.events : view'.events[i] \in {type}} = At(type)
      BY <1>2
    <3> QED BY <3>1, <3>2, <3>3, FS_Subset DEF Count, Reported
  <2>2. Reported({"checkpoint_recorded", "checkpoint_retested"})'
          = Count("checkpoint_recorded") + Count("checkpoint_retested")
    <3>1. {i \in DOMAIN view'.events : view'.events[i] \in {"checkpoint_recorded", "checkpoint_retested"}}
            = At("checkpoint_recorded") \cup At("checkpoint_retested")
      BY <1>2
    <3>2. At("checkpoint_recorded") \cap At("checkpoint_retested") = {}
      OBVIOUS
    <3>3. Cardinality(At("checkpoint_recorded") \cup At("checkpoint_retested"))
            = Cardinality(At("checkpoint_recorded")) + Cardinality(At("checkpoint_retested"))
      BY <2>1, <3>2, DisjointUnion
    <3> QED BY <3>1, <3>3 DEF Count, Reported
  <2>3. /\ Cardinality(view.results) <= Cardinality(results)
        /\ Cardinality(view.retests) <= Cardinality(retests)
        /\ Cardinality(view.materials) <= Cardinality(materials)
        /\ Cardinality(view.results) \in Nat /\ Cardinality(view.retests) \in Nat
        /\ Cardinality(view.materials) \in Nat
        /\ Cardinality(results) \in Nat /\ Cardinality(retests) \in Nat
        /\ Cardinality(materials) \in Nat
    <3>1. /\ view.results \in SUBSET results /\ view.retests \in SUBSET retests
          /\ view.materials \in SUBSET materials
      BY <1>3 DEF BehindInv, RowsBehind
    <3> QED BY <3>1, FS_Subset, FS_CardinalityType DEF HistoryInv, TablesFinite
  <2>4. /\ Len(view.rounds) \in Nat /\ Len(view.rounds) <= Len(rounds) /\ Len(rounds) \in Nat
        /\ view.decision # NoDecision => decision # NoDecision
    BY <1>3 DEF BehindInv, RoundsBehind, DecisionBehind, IInv, TypeOK
  <2>5. view.drill.version \in Nat /\ view.drill.version <= Len(events) /\ Len(events) \in Nat
    BY <1>3 DEF ReadInv, HistoryInv, TimelineAccountsForState, IInv, TypeOK
  <2>6. /\ Count("checkpoint_recorded") + Count("checkpoint_retested") = Cardinality(results)
        /\ Count("checkpoint_retested") = Cardinality(retests)
        /\ Count("deviation_remediated") = Cardinality(materials)
        /\ Count("review_decided") = Len(rounds) + (IF decision = NoDecision THEN 0 ELSE 1)
    BY DEF HistoryInv, TimelineAccountsForState
  <2>7. /\ Reported({"checkpoint_recorded", "checkpoint_retested"})' = Cardinality(results)
        /\ Reported({"checkpoint_retested"})' = Cardinality(retests)
        /\ Reported({"deviation_remediated"})' = Cardinality(materials)
        /\ Reported({"review_decided"})' = Len(rounds) + (IF decision = NoDecision THEN 0 ELSE 1)
    BY <2>1, <2>2, <2>6
  <2>8. Len(view'.events) >= view'.drill.version
    BY <1>2, <2>5
  <2>9. Reported({"review_decided"})' >= Len(view'.rounds) + (IF view'.decision = NoDecision THEN 0 ELSE 1)
    <3>1. view'.rounds = view.rounds /\ view'.decision = view.decision
      BY <1>2
    <3>2. Len(rounds) + (IF decision = NoDecision THEN 0 ELSE 1)
            >= Len(view.rounds) + (IF view.decision = NoDecision THEN 0 ELSE 1)
      <4> DEFINE shown == Len(view.rounds)
                 stored == Len(rounds)
                 a == IF view.decision = NoDecision THEN 0 ELSE 1
                 b == IF decision = NoDecision THEN 0 ELSE 1
      <4>1. shown \in Nat /\ stored \in Nat /\ shown <= stored
        BY <2>4
      <4>2. a \in {0, 1} /\ b \in {0, 1} /\ (a = 1 => b = 1)
        BY <2>4
      <4> HIDE DEF shown, stored, a, b
      <4>3. stored + b >= shown + a
        BY <4>1, <4>2
      <4> QED BY <4>3 DEF shown, stored, a, b
    <3> HIDE DEF At
    <3> QED BY <2>7, <3>1, <3>2
  <2>10. /\ Reported({"checkpoint_recorded", "checkpoint_retested"})' >= Cardinality(view'.results)
         /\ Reported({"checkpoint_retested"})' >= Cardinality(view'.retests)
         /\ Reported({"deviation_remediated"})' >= Cardinality(view'.materials)
    BY <1>2, <2>3, <2>7
  <2> QED BY <2>8, <2>9, <2>10 DEF TimelineAccountsForView
<1> QED BY <1>5, <1>6, <1>7 DEF BehindInv

LEMMA NextBehind ==
  IInv /\ HistoryInv /\ ReadInv /\ BehindInv /\ [ReadNext]_allVars => BehindInv'
<1> SUFFICES ASSUME IInv, HistoryInv, ReadInv, BehindInv, [ReadNext]_allVars PROVE BehindInv'
  OBVIOUS
<1>1. CASE Next /\ UNCHANGED readVars
  BY <1>1, CommandBehind
<1>2. CASE UNCHANGED allVars
  <2>1. UNCHANGED vars /\ UNCHANGED readVars
    BY <1>2 DEF allVars, readVars
  <2> QED BY <2>1, CommandBehind
<1>3. ASSUME NEW p \in Purposes, StartRead(p), UNCHANGED vars PROVE BehindInv'
  BY <1>3, StartReadBehind
<1>4. CASE DrillNotFound /\ UNCHANGED vars
  BY <1>4 DEF DrillNotFound, BehindInv, RowBehind, BaselineBehind, RowsBehind, RoundsBehind,
       DecisionBehind, TimelineAccountsForView, ReadDrill, ReadBaseline, ReadCheckpoints,
       ReadResults, ReadDeviations, ReadMaterials, ReadRetests, ReadRounds, ReadItems,
       ReadDecision, ReadEvents
<1> QED
  BY <1>1, <1>2, <1>3, <1>4, LoadDrillBehind, LoadBaselineBehind, LoadRowsBehind,
     LoadRoundsBehind, LoadReviewItemsBehind, ItemsLoadedBehind, LoadDecisionBehind,
     LoadEventsBehind DEF ReadNext, Query

-----------------------------------------------------------------------------
\* Both invariants hold in every reachable state.
THEOREM ReadInvariance == ReadSpec => [](IInv /\ ReadInv)
<1>1. ReadInit => IInv
  BY InitIInv DEF ReadInit
<1>2. IInv /\ ReadInv /\ [ReadNext]_allVars => (IInv /\ ReadInv)'
  BY ReadSteps, NextIInv, NextReadInv
<1> QED BY <1>1, <1>2, InitReadInv, PTL DEF ReadSpec

LEMMA ExactWhenAnswered ==
  ASSUME IInv, ReadInv, stage = "answered", view.drill.version = drill.version
  PROVE  view = Tables
<1>1. ExactSoFar /\ IsView
  BY DEF ReadInv, ReadDrill, ReadBaseline, ReadCheckpoints, ReadResults, ReadDeviations,
         ReadMaterials, ReadRetests, ReadRounds, ReadItems, ReadDecision, ReadEvents
<1>2. view.rounds = RoundsSoFar /\ Unread = {}
  BY <1>1 DEF ExactSoFar, ReadDrill, ReadBaseline, ReadCheckpoints, ReadResults, ReadDeviations,
         ReadMaterials, ReadRetests, ReadRounds, ReadItems, ReadDecision, ReadEvents
<1>3. view.rounds = [i \in DOMAIN rounds |-> rounds[i]]
  BY <1>2, RoundsHaveItems DEF RoundsSoFar, IInv
<1>4. rounds = [i \in DOMAIN rounds |-> rounds[i]]
  BY RoundsHaveItems DEF IInv
<1> QED BY <1>1, <1>3, <1>4 DEF ExactSoFar, IsView, Tables,
         ReadDrill, ReadBaseline, ReadCheckpoints, ReadResults, ReadDeviations,
         ReadMaterials, ReadRetests, ReadRounds, ReadItems, ReadDecision, ReadEvents

\* A view whose version is current shows exactly what the drill is.
THEOREM CurrentViewExact == ReadSpec => []CurrentViewIsExact
<1>1. IInv /\ ReadInv => CurrentViewIsExact
  BY ExactWhenAnswered DEF CurrentViewIsExact
<1> QED BY <1>1, ReadInvariance, PTL

\* A verification that is answered finds no error and reports what the rows
\* are: a decision that was signed is found in order at any later time.
THEOREM VerificationCorrect == ReadSpec => []VerificationHolds
<1>1. IInv /\ ReadInv => VerificationHolds
  <2> SUFFICES ASSUME IInv, ReadInv, stage = "answered", purpose = "verify"
               PROVE  VerificationValid /\ view = Tables
    BY DEF VerificationHolds, Answered
  <2>1. view.drill.status = "activated" /\ view.drill.version = drill.version
    BY DEF ReadInv, ReadDrill, ReadBaseline, ReadCheckpoints, ReadResults, ReadDeviations,
         ReadMaterials, ReadRetests, ReadRounds, ReadItems, ReadDecision, ReadEvents
  <2>2. view = Tables
    BY <2>1, ExactWhenAnswered
  <2>3. view.drill = drill /\ view.baseline = baseline /\ view.decision = decision
    BY <2>2 DEF Tables
  <2>4. decision # NoDecision
    BY <2>1, <2>3 DEF IInv, DecisionStands
  <2> QED BY <2>2, <2>3, <2>4 DEF IInv, DecisionStands, VerificationValid,
             BaselineDigestAgrees, DocumentDigestAgrees, DocumentRead
<1> QED BY <1>1, ReadInvariance, PTL

\* All four invariants hold in every reachable state.
THEOREM BehindInvariance == ReadSpec => [](HistoryInv /\ BehindInv)
<1>1. ReadInit => HistoryInv /\ BehindInv
  BY InitHistory, InitBehind DEF ReadInit
<1>2. /\ IInv /\ ReadInv /\ HistoryInv /\ BehindInv /\ [ReadNext]_allVars
      => (HistoryInv /\ BehindInv)'
  BY ReadSteps, NextHistory, NextBehind
<1> QED BY <1>1, <1>2, ReadInvariance, PTL DEF ReadSpec

\* The timeline beside a view reports all that the view shows, although
\* everything is read before it and commands go on in between.
THEOREM TimelineReachesView == ReadSpec => []TimelineAccountsForView
<1>1. BehindInv => TimelineAccountsForView
  BY DEF BehindInv
<1> QED BY <1>1, BehindInvariance, PTL

\* A view that mixes versions shows a whole review, and a decision that
\* verifies unless the row of the drill was read while it was a draft.
THEOREM ReviewShownWhole == ReadSpec => []ShownReviewIsWhole
<1>1. IInv /\ BehindInv => ShownReviewIsWhole
  <2> SUFFICES ASSUME IInv, BehindInv, stage = "answered"
               PROVE  /\ view.drill.status = "returned" => view.rounds # <<>>
                      /\ Unread = {}
                      /\ \A i \in DOMAIN view.rounds :
                           view.rounds[i].frozen => AllAnswered(view.rounds[i])
                      /\ view.decision # NoDecision /\ view.drill.status # "draft" =>
                           VerificationValid
    BY DEF ShownReviewIsWhole, Answered
  <2>1. /\ stage \in ReadDrill /\ stage \in ReadBaseline /\ stage \in ReadRounds
        /\ stage \in ReadItems /\ stage \in ReadDecision
    BY DEF ReadDrill, ReadBaseline, ReadCheckpoints, ReadResults, ReadDeviations,
           ReadMaterials, ReadRetests, ReadRounds, ReadItems, ReadDecision, ReadEvents
  <2>2. /\ view.drill.status = "returned" => view.rounds # <<>>
        /\ Unread = {}
    BY <2>1 DEF BehindInv, RoundsBehind
  <2>3. ASSUME NEW i \in DOMAIN view.rounds, view.rounds[i].frozen
        PROVE  AllAnswered(view.rounds[i])
    <3>1. i \in DOMAIN rounds
      BY <2>1 DEF BehindInv, RoundsBehind, IInv, TypeOK
    <3>2. rounds[i].frozen /\ view.rounds[i].items = rounds[i].items
      BY <2>1, <2>2, <2>3 DEF BehindInv, RoundsBehind
    <3> QED BY <3>1, <3>2 DEF IInv, OpenRoundIffReturned, AllAnswered
  <2>4. ASSUME view.decision # NoDecision, view.drill.status # "draft"
        PROVE  VerificationValid
    <3>1. view.decision = decision /\ view.baseline = baseline
            /\ view.drill.profile = drill.profile
      BY <2>1, <2>4 DEF BehindInv, DecisionBehind, BaselineBehind, RowBehind
    <3> QED BY <2>4, <3>1 DEF IInv, DecisionStands, VerificationValid,
               BaselineDigestAgrees, DocumentDigestAgrees, DocumentRead
  <2> QED BY <2>2, <2>3, <2>4
<1> QED BY <1>1, ReadInvariance, BehindInvariance, PTL

-----------------------------------------------------------------------------
(***************************************************************************)
(* The progress shown beside a view.  Its inductive invariant adds to that *)
(* of the drill what the rules of the summary rely on and the handlers do  *)
(* not: the recorded checkpoints are the first ones, and one that was      *)
(* tried again has a deviation.                                            *)
(***************************************************************************)

\* A checkpoint that was tried again has a deviation.
RetestedDeviates ==
  \A r \in results : r.attempt = 1 \/ \E d \in deviations : d.code = r.code
\* The recorded checkpoints are the first ones.
Recorded == {c \in Codes : HasInitialResult(results, c)}
RecordedUpTo == \E k \in 0..CheckpointCount : Recorded = 1..k
PInv == IInv /\ RetestedDeviates /\ RecordedUpTo

-----------------------------------------------------------------------------
LEMMA RetestedDeviatesStep ==
  ASSUME RetestedDeviates, [Next]_vars
  PROVE  RetestedDeviates'
<1>1. CASE UNCHANGED <<results, deviations>>
  BY <1>1 DEF RetestedDeviates
<1>2. ASSUME NEW code \in Codes, NEW in \in ResultInputs, RecordCheck(code, in)
      PROVE  RetestedDeviates'
  <2> DEFINE new == BuildResult(code, in, 1)
  <2>1. results' = results \cup {new} /\ deviations \subseteq deviations'
    BY <1>2 DEF RecordCheck
  <2>2. new.attempt = 1
    BY DEF BuildResult
  <2> QED BY <2>1, <2>2 DEF RetestedDeviates
<1>3. ASSUME NEW d \in deviations, Remediate(d) PROVE RetestedDeviates'
  <2> DEFINE new == ReadyForRetest(d, d.rule)
  <2>1. results' = results /\ deviations' = (deviations \ {d}) \cup {new}
    BY <1>3 DEF Remediate
  <2>2. new.code = d.code
    BY DEF ReadyForRetest
  <2> HIDE DEF new
  <2> QED BY <2>1, <2>2 DEF RetestedDeviates
<1>4. ASSUME NEW d \in deviations, NEW in \in ResultInputs, Retest(d, in)
      PROVE  RetestedDeviates'
  <2> DEFINE rule == EvaluateResult(d.code, in)
             new == Retested(d, rule, NextAttempt(d.code))
             result == BuildResult(d.code, in, NextAttempt(d.code))
  <2>1. /\ results' = results \cup {result}
        /\ deviations' = (deviations \ {d}) \cup {new}
    BY <1>4 DEF Retest
  <2>2. new.code = d.code /\ result.code = d.code
    BY DEF Retested, Closed, ReadyForRetest, BuildResult
  <2> HIDE DEF new, result
  <2> QED BY <2>1, <2>2 DEF RetestedDeviates
<1> QED BY <1>1, <1>2, <1>3, <1>4
        DEF Next, vars, CreateDrill, ReviseDrill, PreviewBaseline, FreezeBaseline,
            SubmitReview, RejectReview, ApproveReview, RespondToReview

LEMMA RecordedUpToStep ==
  ASSUME IInv, RecordedUpTo, [Next]_vars
  PROVE  RecordedUpTo'
<1>1. CASE UNCHANGED results
  BY <1>1 DEF RecordedUpTo, Recorded, HasInitialResult
<1>2. ASSUME NEW code \in Codes, NEW in \in ResultInputs, RecordCheck(code, in)
      PROVE  RecordedUpTo'
  <2> DEFINE new == BuildResult(code, in, 1)
  <2>1. PICK k \in 0..CheckpointCount : Recorded = 1..k
    BY DEF RecordedUpTo
  <2>2. results' = results \cup {new} /\ new.code = code /\ new.attempt = 1
    BY <1>2 DEF RecordCheck, BuildResult
  <2> HIDE DEF new
  <2>3. Recorded' = Recorded \cup {code}
    BY <2>2 DEF Recorded, HasInitialResult
  <2>4. checkpoints = Codes
    BY <1>2 DEF RecordCheck, IInv, StatusMatchesProgress
  <2>5. /\ code \notin Recorded
        /\ \A c \in Codes : c < code => c \in Recorded
    BY <1>2, <2>4 DEF RecordCheck, Recorded
  <2>6. code = k + 1
    BY <2>1, <2>5, CheckpointsAssumption DEF Codes
  <2>7. Recorded' = 1..(k + 1) /\ k + 1 \in 0..CheckpointCount
    BY <2>1, <2>3, <2>6, CheckpointsAssumption DEF Codes
  <2> QED BY <2>7 DEF RecordedUpTo
<1>3. ASSUME NEW d \in deviations, NEW in \in ResultInputs, Retest(d, in)
      PROVE  RecordedUpTo'
  <2> DEFINE new == BuildResult(d.code, in, NextAttempt(d.code))
  <2>1. results' = results \cup {new} /\ new.code = d.code
    BY <1>3 DEF Retest, BuildResult
  <2>2. HasInitialResult(results, d.code)
    BY DEF IInv, RecordedInOrder
  <2> HIDE DEF new
  <2>3. Recorded' = Recorded
    BY <2>1, <2>2 DEF Recorded, HasInitialResult
  <2> QED BY <2>3 DEF RecordedUpTo
<1> QED BY <1>1, <1>2, <1>3
        DEF Next, vars, CreateDrill, ReviseDrill, PreviewBaseline, FreezeBaseline, Remediate,
            SubmitReview, RejectReview, ApproveReview, RespondToReview

LEMMA PInvariance == Spec => []PInv
<1>1. Init => RetestedDeviates /\ RecordedUpTo
  <2>1. CASE Init
    <3>1. Recorded = 1..0 /\ 0 \in 0..CheckpointCount
      BY <2>1, CheckpointsAssumption DEF Init, Recorded, HasInitialResult
    <3> QED BY <2>1, <3>1 DEF Init, RetestedDeviates, RecordedUpTo
  <2> QED BY <2>1
<1>2. IInv /\ RetestedDeviates /\ RecordedUpTo /\ [Next]_vars
        => RetestedDeviates' /\ RecordedUpTo'
  BY RetestedDeviatesStep, RecordedUpToStep
<1>3. Spec => []IInv
  BY Invariance
<1> QED BY <1>1, <1>2, <1>3, PTL DEF Spec, PInv

-----------------------------------------------------------------------------
(* Facts of a state *)

LEMMA StatusType ==
  ASSUME IInv
  PROVE  drill.status \in Statuses
BY DEF IInv, TypeOK, DrillRow

LEMMA CodesExist == Codes # {}
BY CheckpointsAssumption DEF Codes

LEMMA LatestExists ==
  ASSUME IInv, NEW c \in Codes, HasInitialResult(results, c)
  PROVE  /\ \E r \in results : r.code = c /\ IsLatest(r)
         /\ Highest(Attempts(c)) \in Nat
<1>1. 1 \in Attempts(c)
  BY DEF HasInitialResult, Attempts
<1>2. Highest(Attempts(c)) \in Attempts(c) /\ Highest(Attempts(c)) \in Nat
  BY <1>1 DEF IInv, Numbered, IsNumbering
<1> QED BY <1>2 DEF Attempts, IsLatest

\* Rows of the field belong to checkpoints that were generated.
LEMMA FieldHasCheckpoints ==
  ASSUME IInv
  PROVE  /\ \A r \in results : r.code \in Codes
         /\ \A d \in deviations : d.code \in Codes /\ HasInitialResult(results, d.code)
         /\ results # {} \/ deviations # {} => checkpoints = Codes
         /\ checkpoints \in {{}, Codes}
BY DEF IInv, TypeOK, Result, Deviation, RecordedInOrder, StatusMatchesProgress, HasInitialResult

LEMMA PassedIsLatest ==
  ASSUME PInv, NEW c \in InitialCompleted
  PROVE  /\ c \in PassedChecks <=> LatestPasses(c)
         /\ c \in PassedChecks <=> \A d \in deviations : d.code = c => d.status = "closed"
<1>1. c \in checkpoints /\ c \in Codes /\ HasInitialResult(results, c)
  BY DEF InitialCompleted, PInv, IInv, TypeOK
<1>2. PICK r \in results : r.code = c /\ IsLatest(r)
  BY <1>1, LatestExists DEF PInv
<1>3. \A s \in results : s.code = c /\ IsLatest(s) => s = r
  BY <1>2 DEF PInv, IInv, KeysUnique, IsLatest
<1>4. LatestPasses(c) <=> EvaluateResult(c, r) = Passed
  BY <1>2, <1>3 DEF LatestPasses
<1>5. EvaluateResult(c, r) = Passed <=> \A d \in deviations : d.code = c => d.status = "closed"
  BY <1>2 DEF PInv, IInv, OpenDeviationIffLatestFails
<1>6. CASE \E d \in deviations : d.code = c
  BY <1>4, <1>5, <1>6 DEF PassedChecks, InitialPassed
<1>7. CASE ~\E d \in deviations : d.code = c
  <2>1. r.attempt = 1 /\ EvaluateResult(c, r) = Passed
    BY <1>2, <1>5, <1>7 DEF PInv, RetestedDeviates
  <2>2. /\ r.evidence = "digest" /\ ~(MeasuredSeconds(r) > MaxSeconds[c])
        /\ r.outcome = "pass"
    BY <2>1 DEF EvaluateResult, Passed
  <2>3. MeasuredSeconds(r) \in Int /\ MaxSeconds[c] \in Nat
    BY <1>1, <1>2, CheckpointsAssumption DEF PInv, IInv, TypeOK, Result, MeasuredSeconds
  <2>4. ResultPasses(r)
    BY <1>2, <2>2, <2>3 DEF ResultPasses
  <2>5. c \in PassedChecks
    BY <1>2, <1>7, <2>1, <2>4 DEF PassedChecks, InitialPassed
  <2> QED BY <1>4, <1>7, <2>1, <2>5
<1> QED BY <1>6, <1>7

LEMMA FailedDeviate ==
  ASSUME PInv
  PROVE  FailedChecks = {d.code : d \in OpenDeviations}
<1>1. ASSUME NEW c \in FailedChecks PROVE c \in {d.code : d \in OpenDeviations}
  BY <1>1, PassedIsLatest DEF FailedChecks, OpenDeviations
<1>2. ASSUME NEW d \in OpenDeviations PROVE d.code \in FailedChecks
  <2>1. d.code \in InitialCompleted
    BY <1>2, FieldHasCheckpoints DEF PInv, OpenDeviations, InitialCompleted
  <2> QED BY <1>2, <2>1, PassedIsLatest DEF FailedChecks, OpenDeviations
<1> QED BY <1>1, <1>2

LEMMA OpenShowsLatest ==
  ASSUME PInv, NEW d \in OpenDeviations
  PROVE  /\ \E r \in results : /\ r.code = d.code /\ r.attempt = LatestAttempt(d)
                               /\ EvaluateResult(r.code, r) = d.rule
         /\ BlockingReason(d) \in {d.rule, "waits_for_retest"}
<1>1. d \in deviations /\ d.status # "closed"
  BY DEF OpenDeviations
<1>2. PICK r \in results : r.code = d.code /\ IsLatest(r)
  BY <1>1, FieldHasCheckpoints, LatestExists DEF PInv
<1>3. Highest(Attempts(d.code)) \in Nat
  BY <1>1, FieldHasCheckpoints, LatestExists DEF PInv
<1>4. r.attempt = LatestAttempt(d)
  BY <1>2, <1>3 DEF IsLatest, LatestAttempt, NextAttempt
<1>5. EvaluateResult(r.code, r) = d.rule
  BY <1>1, <1>2 DEF PInv, IInv, OpenDeviationIffLatestFails
<1> QED BY <1>2, <1>4, <1>5 DEF BlockingReason

\* 100 % is reached only when every check passed, although it is rounded down.
LEMMA WholeIsHundred ==
  ASSUME NEW n \in Nat \ {0}, NEW p \in 0..n
  PROVE  (p * 100) \div n = 100 <=> p = n
<1>1. CASE p = n
  <2>1. p * 100 = 100 * n
    BY <1>1
  <2> QED BY <1>1, <2>1
<1>2. CASE p < n
  <2>1. p * 100 < 100 * n
    BY <1>2
  <2>2. ASSUME (p * 100) \div n = 100 PROVE FALSE
    <3>1. p * 100 = n * ((p * 100) \div n) + ((p * 100) % n) /\ (p * 100) % n >= 0
      OBVIOUS
    <3> QED BY <2>1, <2>2, <3>1
  <2> QED BY <1>2, <2>2
<1> QED BY <1>1, <1>2

LEMMA HundredIffGated ==
  ASSUME PInv
  PROVE  CompletionPercent = 100 <=> drill.status \in Gated
<1> USE DEF PInv
<1>1. CASE checkpoints = {}
  BY <1>1 DEF IInv, StatusMatchesProgress, Gated, CompletionPercent, AllInitialResults
<1>2. CASE checkpoints = Codes
  <2>1. IsFiniteSet(Codes) /\ Cardinality(Codes) = CheckpointCount
    BY CheckpointsAssumption, FS_Interval DEF Codes
  <2>2. PassedChecks \in SUBSET Codes
    BY <1>2 DEF PassedChecks, InitialCompleted
  <2>3. /\ IsFiniteSet(PassedChecks) /\ Cardinality(PassedChecks) <= CheckpointCount
        /\ Cardinality(PassedChecks) = CheckpointCount <=> PassedChecks = Codes
    BY <2>1, <2>2, FS_Subset
  <2>4. Cardinality(PassedChecks) \in Nat
    BY <2>3, FS_CardinalityType
  <2>5. Codes # {}
    BY CodesExist
  <2>6. CompletionPercent = (Cardinality(PassedChecks) * 100) \div CheckpointCount
    BY <1>2, <2>1, <2>5 DEF CompletionPercent
  <2>7. CompletionPercent = 100 <=> PassedChecks = Codes
    <3> DEFINE p == Cardinality(PassedChecks)
    <3>1. p \in 0..CheckpointCount /\ CheckpointCount \in Nat \ {0}
      BY <2>3, <2>4, CheckpointsAssumption
    <3>2. CompletionPercent = (p * 100) \div CheckpointCount
      BY <2>6
    <3>3. p = CheckpointCount <=> PassedChecks = Codes
      BY <2>3
    <3> HIDE DEF p
    <3> QED BY <3>1, <3>2, <3>3, WholeIsHundred
  <2>8. PassedChecks = Codes <=>
          AllInitialResults(checkpoints, results) /\ AllDeviationsClosed(deviations)
    <3>1. ASSUME PassedChecks = Codes
          PROVE  AllInitialResults(checkpoints, results) /\ AllDeviationsClosed(deviations)
      <4>1. InitialCompleted = checkpoints
        BY <1>2, <3>1 DEF PassedChecks, InitialCompleted
      <4>2. \A d \in deviations : d.code \in Codes
        BY FieldHasCheckpoints
      <4> QED BY <1>2, <2>5, <3>1, <4>1, <4>2, PassedIsLatest
              DEF InitialCompleted, AllInitialResults, AllDeviationsClosed
    <3>2. ASSUME AllInitialResults(checkpoints, results), AllDeviationsClosed(deviations)
          PROVE  PassedChecks = Codes
      <4>1. InitialCompleted = Codes
        BY <1>2, <3>2 DEF AllInitialResults, InitialCompleted
      <4>2. \A c \in InitialCompleted : c \in PassedChecks
        BY <3>2, PassedIsLatest DEF AllDeviationsClosed
      <4> QED BY <2>2, <4>1, <4>2
    <3> QED BY <3>1, <3>2
  <2>9. drill.status \in Gated <=>
          AllInitialResults(checkpoints, results) /\ AllDeviationsClosed(deviations)
    <3>1. drill.status \in Statuses
      BY StatusType
    <3> QED BY <1>2, <2>5, <3>1 DEF IInv, StatusMatchesProgress, Gated, AllInitialResults,
                HasInitialResult, Statuses
  <2> QED BY <2>7, <2>8, <2>9
<1> QED BY <1>1, <1>2, FieldHasCheckpoints

\* The summary agrees with the rules of EvaluateResult.
THEOREM SummaryHonest == Spec => []SummaryIsHonest
<1>1. PInv => SummaryIsHonest
  BY PassedIsLatest, FailedDeviate, OpenShowsLatest, HundredIffGated DEF SummaryIsHonest
<1> QED BY <1>1, PInvariance, PTL

-----------------------------------------------------------------------------
LEMMA NextIsFirstMissing ==
  ASSUME PInv, NextCheckpoint # 0
  PROVE  /\ drill.status \in {"baseline_frozen", "executing"}
         /\ \A c \in checkpoints :
              c = NextCheckpoint <=>
                /\ ~HasInitialResult(results, c)
                /\ \A d \in checkpoints : d < c => HasInitialResult(results, d)
<1> USE DEF PInv
<1>1. Pending # {}
  BY DEF NextCheckpoint
<1>2. checkpoints = Codes
  BY <1>1, FieldHasCheckpoints DEF Pending
<1>3. PICK k \in 0..CheckpointCount : Recorded = 1..k
  BY DEF RecordedUpTo
<1>4. Pending = (k + 1)..CheckpointCount
  <2>1. Pending = Codes \ Recorded
    BY <1>2 DEF Pending, InitialCompleted, Recorded
  <2> QED BY <1>3, <2>1, CheckpointsAssumption DEF Codes
<1>5. k + 1 \in Pending /\ \A d \in Pending : k + 1 <= d
  BY <1>1, <1>4, CheckpointsAssumption
<1>6. NextCheckpoint = k + 1
  <2>1. \A c \in Pending : (\A d \in Pending : c <= d) => c = k + 1
    BY <1>4, <1>5, CheckpointsAssumption
  <2> QED BY <1>1, <1>5, <2>1 DEF NextCheckpoint
<1>7. \A c \in Codes : HasInitialResult(results, c) <=> c \in 1..k
  BY <1>3 DEF Recorded
<1>8. ~AllInitialResults(checkpoints, results)
  BY <1>2, <1>4, <1>5, <1>7, CheckpointsAssumption DEF AllInitialResults, Codes
<1>9. drill.status \in {"baseline_frozen", "executing"}
  <2>1. checkpoints # {} /\ drill.status \in Statuses
    BY <1>2, CodesExist, StatusType
  <2> QED BY <1>8, <2>1 DEF IInv, StatusMatchesProgress, Statuses, Gated
<1> QED BY <1>2, <1>6, <1>7, <1>9, CheckpointsAssumption DEF Codes

LEMMA NextActionFits ==
  ASSUME PInv
  PROVE  /\ NextAction = "close_deviations" <=> drill.status = "remediation"
         /\ NextAction = "continue" <=> drill.status \in {"absent", "draft"}
<1> USE DEF PInv
<1>1. drill.status \in Statuses /\ checkpoints \in {{}, Codes} /\ Codes # {}
  BY FieldHasCheckpoints, CodesExist, StatusType
<1>2. NextCheckpoint # 0 <=> checkpoints # {} /\ ~AllInitialResults(checkpoints, results)
  <2>1. Pending # {} <=> checkpoints # {} /\ ~AllInitialResults(checkpoints, results)
    BY DEF Pending, InitialCompleted, AllInitialResults
  <2>2. CASE Pending = {}
    BY <2>1, <2>2 DEF NextCheckpoint
  <2>3. CASE Pending # {}
    <3>1. PICK k \in 0..CheckpointCount : Recorded = 1..k
      BY DEF RecordedUpTo
    <3>2. checkpoints = Codes
      BY <1>1, <2>3 DEF Pending
    <3>3. Pending = (k + 1)..CheckpointCount
      <4>1. Pending = Codes \ Recorded
        BY <3>2 DEF Pending, InitialCompleted, Recorded
      <4> QED BY <3>1, <4>1, CheckpointsAssumption DEF Codes
    <3>4. k + 1 \in Pending /\ \A d \in Pending : k + 1 <= d
      BY <2>3, <3>3, CheckpointsAssumption
    <3>5. \A c \in Pending : c # 0
      BY <3>3, CheckpointsAssumption
    <3>6. NextCheckpoint \in Pending
      BY <2>3, <3>4 DEF NextCheckpoint
    <3> QED BY <2>1, <2>3, <3>5, <3>6
  <2> QED BY <2>2, <2>3
<1>3. OpenDeviations = {} <=> AllDeviationsClosed(deviations)
  BY DEF OpenDeviations, AllDeviationsClosed
<1>4. drill.status = "baseline_frozen" => ~AllInitialResults(checkpoints, results)
  BY <1>1 DEF IInv, StatusMatchesProgress, AllInitialResults, HasInitialResult
<1>5. drill.status \in {"absent", "draft"} <=> checkpoints = {}
  BY <1>1 DEF IInv, StatusMatchesProgress
<1>6. drill.status \in {"absent", "draft"} => OpenDeviations = {}
  BY DEF IInv, StatusMatchesProgress, OpenDeviations
<1> QED BY <1>1, <1>2, <1>3, <1>4, <1>5, <1>6
        DEF IInv, StatusMatchesProgress, NextAction, Statuses, Gated

\* The handlers take the next action that is shown.
THEOREM ShownActionAccepted == Spec => []NextActionIsAccepted
<1>1. PInv => NextActionIsAccepted
  BY NextIsFirstMissing, NextActionFits DEF NextActionIsAccepted
<1> QED BY <1>1, PInvariance, PTL
=============================================================================
