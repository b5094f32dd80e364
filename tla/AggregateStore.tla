---------------------------- MODULE AggregateStore ----------------------------
(***************************************************************************)
(* The tables under DrillLifecycle: what SaveAggregate and AppendEvent     *)
(* write for each command of a drill, and what LoadAggregate and           *)
(* LoadEvents make of the tables afterwards.                               *)
(*                                                                         *)
(* SaveAggregate writes the whole aggregate again after each command, row  *)
(* by row.  What becomes of a row that exists already is up to its         *)
(* statement: INSERT OR IGNORE keeps it, ON CONFLICT DO UPDATE writes the  *)
(* columns it names.  The handlers of DrillLifecycle work on the aggregate *)
(* they loaded; StoredAsProduced says that this is the one the last        *)
(* command produced.                                                       *)
(*                                                                         *)
(* A table is the set of its rows.  Ids of rows are random and new ones    *)
(* stand for new keys.  The rows of review_items are read in the order of  *)
(* their rowid, which an update keeps: position.                           *)
(***************************************************************************)
EXTENDS DrillLifecycle, AuditChain

VARIABLE tables

storeVars == <<vars, tables>>

EmptyTables ==
  [drills |-> {}, baselines |-> {}, checkpoints |-> {}, results |-> {},
   deviations |-> {}, materials |-> {}, retests |-> {}, rounds |-> {},
   items |-> {}, decisions |-> {}, audit |-> <<>>]

-----------------------------------------------------------------------------
(* Unique keys of the tables: whether two rows share one *)

SameBaseline(a, b) == a.version = b.version
SameCheckpoint(a, b) == a = b
SameResult(a, b) == a.code = b.code /\ a.attempt = b.attempt
SameDeviation(a, b) == a.code = b.code
SameMaterial(a, b) == a.code = b.code /\ a.version = b.version
\* UNIQUE result_id, and UNIQUE (deviation_id, attempt).
SameRetest(a, b) == a.code = b.code /\ (a.result = b.result \/ a.attempt = b.attempt)
SameRound(a, b) == a.round = b.round
SameItem(a, b) == a.round = b.round /\ a.position = b.position
SameDecision(a, b) == TRUE

\* No command brings two rows with one key.
InsertOrIgnore(table, rows, Same(_, _)) ==
  table \cup {row \in rows : \A old \in table : ~Same(old, row)}

\* Merge(old, row) is what ON CONFLICT DO UPDATE makes of a row that exists.
Upsert(table, rows, Same(_, _), Merge(_, _)) ==
  {old \in table : \A row \in rows : ~Same(old, row)} \cup
  {row \in rows : \A old \in table : ~Same(old, row)} \cup
  UNION {{Merge(old, row) : old \in {o \in table : Same(o, row)}} : row \in rows}

\* Every column but the id and the key.
MergeCheckpoint(old, row) == row
MergeDeviation(old, row) == row
\* Mutant: the flag of a round that exists is not written.
MergeRoundTimes(old, row) == old
\* resubmitted_at and responses_frozen.
MergeRound(old, row) == [old EXCEPT !.frozen = row.frozen]
\* response, evidence_digest and responded_at.
MergeItem(old, row) == [old EXCEPT !.answer = row.answer]

-----------------------------------------------------------------------------
(* SaveAggregate *)

RoundRows(seq) ==
  {[round |-> i, reviewer |-> seq[i].reviewer, frozen |-> seq[i].frozen] : i \in DOMAIN seq}
ItemRows(seq) ==
  UNION {{[round |-> i, position |-> p, answer |-> seq[i].items[p]] :
            p \in DOMAIN seq[i].items} : i \in DOMAIN seq}

\* The aggregate a handler passes to SaveAggregate.
Aggregate ==
  [drill |-> drill, baseline |-> baseline, checkpoints |-> checkpoints,
   results |-> results, deviations |-> deviations, materials |-> materials,
   retests |-> retests, rounds |-> rounds, decision |-> decision]

SaveAggregate(t, a, audit) ==
  [drills |-> {a.drill},
   baselines |-> InsertOrIgnore(t.baselines,
     IF a.baseline.version > 0 THEN {a.baseline} ELSE {}, SameBaseline),
   checkpoints |-> Upsert(t.checkpoints, a.checkpoints, SameCheckpoint, MergeCheckpoint),
   results |-> InsertOrIgnore(t.results, a.results, SameResult),
   deviations |-> Upsert(t.deviations, a.deviations, SameDeviation, MergeDeviation),
   materials |-> InsertOrIgnore(t.materials, a.materials, SameMaterial),
   retests |-> InsertOrIgnore(t.retests, a.retests, SameRetest),
   rounds |-> Upsert(t.rounds, RoundRows(a.rounds), SameRound, MergeRound),
   items |-> Upsert(t.items, ItemRows(a.rounds), SameItem, MergeItem),
   decisions |-> InsertOrIgnore(t.decisions,
     IF a.decision = NoDecision THEN {} ELSE {a.decision}, SameDecision),
   audit |-> audit]

\* The rows of audit_events after the command that leads to row.  Commands
\* come a tick apart, and a payload stands for the texts of its command.
Audited(t, type, row) == AppendEvent(t.audit, type, row.status, row.version)

-----------------------------------------------------------------------------
(* Commands *)

Command == drill' # drill

\* The type of the event that was appended last.
LatestType == events[Len(events)]

\* The handler of CreateDrill inserts the row and calls no SaveAggregate.
InsertDrill ==
  /\ Command
  /\ tables.drills = {}
  /\ tables' = [tables EXCEPT !.drills = {drill'},
                              !.audit = Audited(tables, LatestType', drill')]

\* UpdateDrill finds the row of the version that was loaded, or the command
\* fails with a conflict.
UpdateDrill ==
  /\ Command
  /\ \E row \in tables.drills : row.version = drill.version
  /\ tables' = SaveAggregate(tables, Aggregate', Audited(tables, LatestType', drill'))

ReadOnly == ~Command /\ UNCHANGED tables

StoreInit == Init /\ tables = EmptyTables
StoreNext == Next /\ (InsertDrill \/ UpdateDrill \/ ReadOnly)
StoreSpec == StoreInit /\ [][StoreNext]_storeVars

-----------------------------------------------------------------------------
(* LoadAggregate and LoadEvents *)

LoadBaseline(row) ==
  IF row.baselineVersion = 0 THEN NoBaseline
  ELSE CHOOSE b \in tables.baselines : b.version = row.baselineVersion

\* ORDER BY a column that has another value in each row.
OrderedBy(rows, column) ==
  [p \in 1..Cardinality(rows) |->
     CHOOSE row \in rows : Cardinality({r \in rows : r[column] <= row[column]}) = p]

LoadReviewItems(round) ==
  LET rows == OrderedBy({i \in tables.items : i.round = round}, "position")
  IN [p \in DOMAIN rows |-> rows[p].answer]

LoadReviewRounds ==
  LET rows == OrderedBy(tables.rounds, "round")
  IN [i \in DOMAIN rows |->
        [reviewer |-> rows[i].reviewer, frozen |-> rows[i].frozen,
         items |-> LoadReviewItems(rows[i].round)]]

LoadDecision ==
  IF tables.decisions = {} THEN NoDecision ELSE CHOOSE d \in tables.decisions : TRUE

LoadAggregate ==
  LET row == CHOOSE r \in tables.drills : TRUE
  IN [drill |-> row, baseline |-> LoadBaseline(row),
      checkpoints |-> tables.checkpoints, results |-> tables.results,
      deviations |-> tables.deviations, materials |-> tables.materials,
      retests |-> tables.retests, rounds |-> LoadReviewRounds,
      decision |-> LoadDecision]

-----------------------------------------------------------------------------
(* Properties *)

\* What LoadAggregate makes of the tables is the aggregate the last handler
\* produced, although a row that exists is ignored, or updated in some of its
\* columns only, when the aggregate is saved again; no row is left over.
StoredAsProduced ==
  tables.drills # {} =>
    /\ LoadAggregate = Aggregate
    /\ [i \in DOMAIN tables.audit |-> tables.audit[i].type] = events

\* The timeline of events as the program writes and reads it verifies.
HonestChainVerifies == Verify(tables.audit)

\* Verification notices what happens to the rows of the timeline, except that
\* the last ones are missing: for values that stand in the next row, or, for
\* the last row, in the first one.
DamageIsNoticed ==
  LET rows == tables.audit
      Values(i, column) == {rows[(i % Len(rows)) + 1][column]}
  IN NoticesDamage(rows, Values)
=============================================================================
