---------------------------- MODULE WorkbenchRead ----------------------------
(***************************************************************************)
(* The reads of a drill: GetWorkbench, which the detail and the timeline   *)
(* handlers call, and VerifyDecision, which verification and export call.  *)
(*                                                                         *)
(* Both load the aggregate with one query after the other, outside any     *)
(* transaction, so commands are committed between two queries and the view *)
(* may be put together from several versions of the drill.  LoadAggregate  *)
(* reads the row of the drill first; the properties say what follows from  *)
(* that for a view that mixes versions.                                    *)
(*                                                                         *)
(* A query reads one state of its tables: SQLite runs with journal_mode    *)
(* WAL.  The queries for review items run inside the rows of the rounds,   *)
(* on another connection, so each reads a state of its own.  One read runs *)
(* at a time: reads change nothing, so they cannot disturb each other.     *)
(***************************************************************************)
EXTENDS DrillLifecycle

VARIABLES
  purpose,  \* "detail" for GetWorkbench, "verify" for VerifyDecision
  stage,    \* the query that comes next, or how the read ended
  view      \* the Aggregate and the events, as read so far

readVars == <<purpose, stage, view>>
allVars == <<vars, purpose, stage, view>>

Purposes == {"detail", "verify"}

\* Mutants: the row of the drill, the rounds or the events are read in another
\* place.
FollowingDrillLast ==
  [begin |-> "baseline", baseline |-> "checkpoints",
   checkpoints |-> "results", results |-> "deviations",
   deviations |-> "materials", materials |-> "retests", retests |-> "rounds",
   rounds |-> "items", items |-> "decision", decision |-> "drill",
   drill |-> "events", events |-> "answered"]
FollowingEventsFirst ==
  [begin |-> "events", events |-> "drill", drill |-> "baseline",
   baseline |-> "checkpoints",
   checkpoints |-> "results", results |-> "deviations",
   deviations |-> "materials", materials |-> "retests", retests |-> "rounds",
   rounds |-> "items", items |-> "decision", decision |-> "answered"]

FollowingRoundsFirst ==
  [begin |-> "rounds", rounds |-> "items", items |-> "drill",
   drill |-> "baseline", baseline |-> "checkpoints",
   checkpoints |-> "results", results |-> "deviations",
   deviations |-> "materials", materials |-> "retests", retests |-> "decision",
   decision |-> "events", events |-> "answered"]

\* The order of the queries in loadAggregate, and LoadEvents after it.
Following ==
  [begin |-> "drill", drill |-> "baseline", baseline |-> "checkpoints",
   checkpoints |-> "results", results |-> "deviations",
   deviations |-> "materials", materials |-> "retests", retests |-> "rounds",
   rounds |-> "items", items |-> "decision", decision |-> "events",
   events |-> "answered"]
Ended == {"idle", "answered", "not_found", "unavailable"}
Stages == DOMAIN Following \cup Ended

\* The Aggregate of Go's zero values, before anything is read.
NothingRead ==
  [drill |-> [status |-> "absent", version |-> 0, baselineVersion |-> 0,
              profile |-> NoProfile],
   baseline |-> NoBaseline, checkpoints |-> {}, results |-> {},
   deviations |-> {}, materials |-> {}, retests |-> {}, rounds |-> <<>>,
   decision |-> NoDecision, events |-> <<>>]

\* What a read at one moment would return.
Tables ==
  [drill |-> drill, baseline |-> baseline, checkpoints |-> checkpoints,
   results |-> results, deviations |-> deviations, materials |-> materials,
   retests |-> retests, rounds |-> rounds, decision |-> decision,
   events |-> events]

-----------------------------------------------------------------------------
(* The checks of VerifyDecision on the aggregate it has loaded *)

\* DecisionDocumentFor, with the rows that were read.
DocumentRead ==
  Document(view.drill.profile, view.baseline, view.decision.baselineDigest,
           view.decision.reviewer)

\* Mutant: a decision is enough, whatever the status that was read.
HasDecision == view.decision # NoDecision
\* Verification and export are refused unless this holds.
DecisionAvailable == view.drill.status = "activated" /\ view.decision # NoDecision

BaselineDigestAgrees ==
  view.decision.baselineDigest = ContentDigest(view.baseline.version, view.baseline.layout)
DocumentDigestAgrees == view.decision.documentDigest = DocumentRead

\* Errors is empty; the audit timeline is the subject of AuditChain.
VerificationValid == BaselineDigestAgrees /\ DocumentDigestAgrees

-----------------------------------------------------------------------------
(* Queries *)

\* The rounds that were read whose items are not: they have none yet.
WithoutItems(round) ==
  [reviewer |-> round.reviewer, frozen |-> round.frozen, items |-> <<>>]
Unread == {i \in DOMAIN view.rounds : view.rounds[i].items = <<>>}

Advance == stage' = Following[stage] /\ UNCHANGED purpose

StartRead(p) ==
  /\ stage \in Ended
  /\ purpose' = p
  /\ stage' = Following.begin
  /\ view' = NothingRead

LoadDrill ==
  /\ stage = "drill"
  /\ drill.status # "absent"
  /\ view' = [view EXCEPT !.drill = drill]
  /\ Advance

\* scanDrill finds no row and returns ErrNotFound.
DrillNotFound ==
  /\ stage = "drill"
  /\ drill.status = "absent"
  /\ stage' = "not_found"
  /\ UNCHANGED <<purpose, view>>

\* The baseline of the version the row names; a drill without one is asked
\* for none.
LoadBaseline ==
  /\ stage = "baseline"
  /\ view' = [view EXCEPT !.baseline =
                IF view.drill.baselineVersion = 0 THEN NoBaseline ELSE baseline]
  /\ Advance

LoadCheckpoints ==
  /\ stage = "checkpoints"
  /\ view' = [view EXCEPT !.checkpoints = checkpoints]
  /\ Advance

LoadResults ==
  /\ stage = "results"
  /\ view' = [view EXCEPT !.results = results]
  /\ Advance

LoadDeviations ==
  /\ stage = "deviations"
  /\ view' = [view EXCEPT !.deviations = deviations]
  /\ Advance

LoadMaterials ==
  /\ stage = "materials"
  /\ view' = [view EXCEPT !.materials = materials]
  /\ Advance

LoadRetests ==
  /\ stage = "retests"
  /\ view' = [view EXCEPT !.retests = retests]
  /\ Advance

LoadRounds ==
  /\ stage = "rounds"
  /\ view' = [view EXCEPT !.rounds = [i \in DOMAIN rounds |-> WithoutItems(rounds[i])]]
  /\ Advance

\* The items of one round; the loop goes through the rounds in order.
LoadReviewItems ==
  /\ stage = "items"
  /\ \E i \in Unread :
       /\ \A j \in Unread : i <= j
       /\ view' = [view EXCEPT !.rounds =
            [j \in DOMAIN view.rounds |->
               IF j = i THEN [reviewer |-> view.rounds[i].reviewer,
                              frozen |-> view.rounds[i].frozen,
                              items |-> rounds[i].items]
               ELSE view.rounds[j]]]
  /\ UNCHANGED <<purpose, stage>>

ItemsLoaded ==
  /\ stage = "items"
  /\ Unread = {}
  /\ Advance
  /\ UNCHANGED view

\* VerifyDecision looks at the status and the decision before it reads on.
LoadDecision ==
  /\ stage = "decision"
  /\ view' = [view EXCEPT !.decision = decision]
  /\ IF purpose = "verify" /\ ~DecisionAvailable'
     THEN stage' = "unavailable" /\ UNCHANGED purpose
     ELSE Advance

LoadEvents ==
  /\ stage = "events"
  /\ view' = [view EXCEPT !.events = events]
  /\ Advance

Query ==
  \/ LoadDrill \/ DrillNotFound \/ LoadBaseline \/ LoadCheckpoints
  \/ LoadResults \/ LoadDeviations \/ LoadMaterials \/ LoadRetests
  \/ LoadRounds \/ LoadReviewItems \/ ItemsLoaded \/ LoadDecision \/ LoadEvents

-----------------------------------------------------------------------------
ReadInit == Init /\ purpose = "detail" /\ stage = "idle" /\ view = NothingRead

ReadNext ==
  \/ Next /\ UNCHANGED readVars
  \/ (\E p \in Purposes : StartRead(p)) /\ UNCHANGED vars
  \/ Query /\ UNCHANGED vars

ReadSpec == ReadInit /\ [][ReadNext]_allVars

-----------------------------------------------------------------------------
(* Properties *)

Answered(p) == stage = "answered" /\ purpose = p

\* A view whose version is still the version of the drill shows exactly what
\* the drill is, although its rows were read one table after the other: a
\* view that mixes versions carries an old one, and the command a page sends
\* with that version is refused.
CurrentViewIsExact ==
  stage = "answered" /\ view.drill.version = drill.version => view = Tables

Reported(types) == Cardinality({i \in DOMAIN view.events : view.events[i] \in types})

\* The timeline that is shown reaches the version that is shown and reports
\* every result, retest, material, returned round and decision beside it.
TimelineAccountsForView ==
  stage = "answered" =>
    /\ Len(view.events) >= view.drill.version
    /\ Reported({"checkpoint_recorded", "checkpoint_retested"}) >= Cardinality(view.results)
    /\ Reported({"checkpoint_retested"}) >= Cardinality(view.retests)
    /\ Reported({"deviation_remediated"}) >= Cardinality(view.materials)
    /\ Reported({"review_decided"}) >=
         Len(view.rounds) + (IF view.decision = NoDecision THEN 0 ELSE 1)

\* A verification or an export that is answered finds no error, and reports
\* the rows as they are and stay: two exports cannot differ.
VerificationHolds == Answered("verify") => VerificationValid /\ view = Tables

\* What a detail view shows of the review is whole, although rounds, items
\* and decision are read at different moments: a drill shown as returned has a
\* round, each round its items, a frozen one all its answers.  The decision
\* verifies, unless the row of the drill was read while it was a draft and the
\* decision after it was signed: then the page is shown decision_valid = false
\* for a decision that is in order.
ShownReviewIsWhole ==
  Answered("detail") =>
    /\ view.drill.status = "returned" => view.rounds # <<>>
    /\ Unread = {}
    /\ \A i \in DOMAIN view.rounds : view.rounds[i].frozen => AllAnswered(view.rounds[i])
    /\ view.decision # NoDecision /\ view.drill.status # "draft" => VerificationValid
=============================================================================
