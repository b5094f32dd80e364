------------------------- MODULE AggregateStoreProofs -------------------------
(* The chain of audit events that the commands write verifies, for every   *)
(* drill, and no change of its rows but the loss of the last ones goes     *)
(* unnoticed.  The other tables hold the aggregate that the last command   *)
(* produced, and loading gives it back.                                    *)
EXTENDS AggregateStore, DrillLifecycleProofs, SequenceTheorems

\* What is missing at the end of a chain leaves a chain that verifies.
LEMMA VerifiedSequence ==
  ASSUME NEW S, NEW rows \in Seq(S), Verify(rows)
  PROVE  \A i \in 1..Len(rows) : RowFits(rows, i) /\ rows[i].sequence = i
BY DEF Verify, RowFits

\* The event that a command appends fits the chain it finds.
LEMMA AppendKeepsChain ==
  ASSUME NEW S, NEW rows \in Seq(S), Verify(rows),
         NEW type, NEW payload, NEW time
  PROVE  Verify(AppendEvent(rows, type, payload, time))
<1> DEFINE n == Len(rows)
           event == [BuildEvent(LastSequence(rows) + 1, type, payload, time, LastHash(rows))
                       EXCEPT !.time = StoredTime(@)]
           new == Append(rows, event)
<1>1. event.sequence = LastSequence(rows) + 1 /\ event.previous = LastHash(rows)
  BY DEF BuildEvent
<1>2. EventHash(event) = event.hash
  BY DEF BuildEvent, EventHash, StoredTime
<1> HIDE DEF event
<1>3. /\ n \in Nat /\ Len(new) = n + 1 /\ DOMAIN new = 1..(n + 1)
      /\ new[n + 1] = event /\ \A i \in 1..n : new[i] = rows[i]
  BY DEF new
<1>4. LastSequence(rows) = n
  <2>1. CASE rows = <<>>
    BY <2>1 DEF LastSequence
  <2>2. CASE rows # <<>>
    <3>1. n \in 1..n
      BY <2>2
    <3> QED BY <2>2, <3>1, VerifiedSequence DEF LastSequence
  <2> QED BY <2>1, <2>2
<1>5. LastHash(rows) = PreviousOf(new, n + 1)
  <2>1. CASE rows = <<>>
    BY <1>3, <2>1 DEF LastHash, PreviousOf
  <2>2. CASE rows # <<>>
    BY <1>3, <2>2 DEF LastHash, PreviousOf
  <2> QED BY <2>1, <2>2
<1>6. RowFits(new, n + 1)
  BY <1>1, <1>2, <1>3, <1>4, <1>5 DEF RowFits
<1>7. ASSUME NEW i \in 1..n PROVE RowFits(new, i)
  <2>1. RowFits(rows, i)
    BY <1>7 DEF Verify
  <2>2. new[i] = rows[i] /\ PreviousOf(new, i) = PreviousOf(rows, i)
    BY <1>3 DEF PreviousOf
  <2> QED BY <2>1, <2>2 DEF RowFits
<1>8. Verify(new)
  BY <1>3, <1>6, <1>7 DEF Verify
<1> QED BY <1>8 DEF AppendEvent, event, new

-----------------------------------------------------------------------------
(* Damage *)

\* Another value in a column of row i.
LEMMA AlteredIsNoticed ==
  ASSUME NEW V, NEW rows \in Seq([Columns -> V]), Verify(rows),
         NEW i \in DOMAIN rows, NEW column \in Columns,
         NEW value, value # rows[i][column]
  PROVE  ~Verify(Altered(rows, i, column, value))
<1> DEFINE row == [rows[i] EXCEPT ![column] = value]
           new == Altered(rows, i, column, value)
<1>1. DOMAIN new = DOMAIN rows /\ new[i] = row
      /\ \A j \in DOMAIN rows : j # i => new[j] = rows[j]
  BY DEF Altered
<1>2. rows[i] \in [Columns -> V] /\ i \in 1..Len(rows)
  OBVIOUS
<1>3. row[column] = value /\ \A c \in Columns : c # column => row[c] = rows[i][c]
  BY <1>2
<1>4. PreviousOf(new, i) = PreviousOf(rows, i)
  BY <1>1, <1>2 DEF PreviousOf
<1>5. RowFits(rows, i)
  BY DEF Verify
<1> HIDE DEF row, new
<1>6. SUFFICES ~RowFits(new, i)
  BY <1>1 DEF Verify, new
<1>7. CASE column = "sequence"
  BY <1>1, <1>3, <1>5, <1>7 DEF RowFits, Columns
<1>8. CASE column = "previous"
  BY <1>1, <1>3, <1>4, <1>5, <1>8 DEF RowFits, Columns
<1>9. CASE column = "hash"
  BY <1>1, <1>3, <1>5, <1>9 DEF RowFits, Columns, EventHash
<1>10. CASE column \in {"type", "payload", "time"}
  BY <1>1, <1>3, <1>5, <1>10 DEF RowFits, Columns, EventHash
<1> QED BY <1>7, <1>8, <1>9, <1>10 DEF Columns

\* Another value in a column of row i, its hash brought in line: the hash in
\* the next row does not fit it any more.
LEMMA RehashedIsNoticed ==
  ASSUME NEW V, NEW rows \in Seq([Columns -> V]), Verify(rows),
         NEW i \in DOMAIN rows, i < Len(rows), NEW column \in Columns, column # "hash",
         NEW value, value # rows[i][column]
  PROVE  ~Verify(Rehashed(rows, i, column, value))
<1> DEFINE row == [rows[i] EXCEPT ![column] = value]
           hashed == [row EXCEPT !.hash = EventHash(row)]
           new == Rehashed(rows, i, column, value)
<1>1. /\ DOMAIN new = DOMAIN rows /\ new[i] = hashed
      /\ \A j \in DOMAIN rows : j # i => new[j] = rows[j]
  BY DEF Rehashed
<1>2. rows[i] \in [Columns -> V] /\ i \in 1..Len(rows) /\ i + 1 \in DOMAIN rows
  OBVIOUS
<1>3. row[column] = value /\ \A c \in Columns : c # column => row[c] = rows[i][c]
  BY <1>2
<1>4. hashed.hash = EventHash(row)
  BY <1>2 DEF Columns
<1>5. RowFits(rows, i) /\ RowFits(rows, i + 1)
  BY <1>2 DEF Verify
<1>6. EventHash(row) # EventHash(rows[i])
  <2> HIDE DEF row
  <2>1. CASE column = "sequence"
    BY <1>3, <2>1 DEF Columns, EventHash
  <2>2. CASE column = "previous"
    BY <1>3, <2>2 DEF Columns, EventHash
  <2>3. CASE column \in {"type", "payload", "time"}
    BY <1>3, <2>3 DEF Columns, EventHash
  <2> QED BY <2>1, <2>2, <2>3 DEF Columns
<1>7. rows[i + 1].previous = rows[i].hash
  BY <1>2, <1>5 DEF RowFits, PreviousOf
<1> HIDE DEF row, hashed, new
<1>8. PreviousOf(new, i + 1) = EventHash(row) /\ new[i + 1] = rows[i + 1]
  <2>1. i + 1 # 1 /\ (i + 1) - 1 = i /\ i + 1 # i
    BY <1>2
  <2> QED BY <1>1, <1>2, <1>4, <2>1 DEF PreviousOf
<1>9. ~RowFits(new, i + 1)
  BY <1>5, <1>6, <1>7, <1>8 DEF RowFits
<1> QED BY <1>1, <1>2, <1>9 DEF Verify, new

\* Rows that are missing are noticed exactly when others follow them.
LEMMA LossIsNoticed ==
  ASSUME NEW V, NEW rows \in Seq([Columns -> V]), Verify(rows),
         NEW i \in DOMAIN rows, NEW j \in i..Len(rows)
  PROVE  Verify(Without(rows, i, j)) <=> j = Len(rows)
<1> DEFINE n == Len(rows)
           left == SubSeq(rows, 1, i - 1)
           right == SubSeq(rows, j + 1, n)
           new == Without(rows, i, j)
<1>1. i \in 1..n /\ n \in Nat /\ j \in i..n
  OBVIOUS
<1>2. left \in Seq([Columns -> V]) /\ Len(left) = i - 1
      /\ \A k \in 1..(i - 1) : left[k] = rows[k]
  BY <1>1
<1>3. right \in Seq([Columns -> V]) /\ Len(right) = n - j
      /\ \A k \in 1..(n - j) : right[k] = rows[j + k]
  BY <1>1
<1> HIDE DEF left, right
<1>4. /\ new \in Seq([Columns -> V]) /\ Len(new) = (i - 1) + (n - j)
      /\ \A k \in 1..(i - 1) : new[k] = rows[k]
      /\ \A k \in 1..(n - j) : new[(i - 1) + k] = rows[j + k]
  <2>1. new = left \o right
    BY DEF Without, left, right
  <2>2. new \in Seq([Columns -> V]) /\ Len(new) = (i - 1) + (n - j)
    BY <1>1, <1>2, <1>3, <2>1
  <2>3. ASSUME NEW k \in 1..(i - 1) PROVE new[k] = rows[k]
    BY <1>1, <1>2, <1>3, <2>1
  <2>4. ASSUME NEW k \in 1..(n - j) PROVE new[(i - 1) + k] = rows[j + k]
    <3>1. /\ (i - 1) + k \in 1..((i - 1) + (n - j)) /\ (i - 1) + k > i - 1
          /\ ((i - 1) + k) - (i - 1) = k
      BY <1>1
    <3> DEFINE m == (i - 1) + k
    <3>2. m \in 1..(Len(left) + Len(right)) /\ ~(m <= Len(left)) /\ m - Len(left) = k
      BY <1>1, <1>2, <1>3, <3>1
    <3> HIDE DEF m
    <3>3. \A p \in 1..(Len(left) + Len(right)) : (left \o right)[p] =
            IF p <= Len(left) THEN left[p] ELSE right[p - Len(left)]
      BY <1>2, <1>3, ConcatProperties
    <3>4. (left \o right)[m] = right[m - Len(left)]
      BY <3>2, <3>3
    <3> QED BY <1>3, <2>1, <3>2, <3>4 DEF m
  <2> QED BY <2>2, <2>3, <2>4
<1> HIDE DEF new
<1>5. CASE j = n
  <2>1. DOMAIN new = 1..(i - 1)
    BY <1>1, <1>4, <1>5
  <2>2. \A k \in 1..(i - 1) : RowFits(new, k)
    <3> TAKE k \in 1..(i - 1)
    <3>1. k \in DOMAIN rows /\ (k = 1 \/ k - 1 \in 1..(i - 1)) /\ new[k] = rows[k]
      BY <1>1, <1>4
    <3>2. PreviousOf(new, k) = PreviousOf(rows, k)
      BY <1>4, <3>1 DEF PreviousOf
    <3> QED BY <3>1, <3>2 DEF RowFits, Verify
  <2> QED BY <1>5, <2>1, <2>2 DEF Verify, new
<1>6. CASE j < n
  <2>1. i \in DOMAIN new /\ new[i] = rows[j + 1]
    <3>1. 1 \in 1..(n - j) /\ (i - 1) + 1 = i
      BY <1>1, <1>6
    <3>2. DOMAIN new = 1..((i - 1) + (n - j))
      BY <1>4
    <3> QED BY <1>1, <1>4, <1>6, <3>1, <3>2
  <2>2. rows[j + 1].sequence = j + 1
    BY <1>1, <1>6, VerifiedSequence
  <2>3. ~RowFits(new, i)
    BY <1>1, <2>1, <2>2 DEF RowFits
  <2> QED BY <1>1, <1>6, <2>1, <2>3 DEF Verify, new
<1> QED BY <1>1, <1>5, <1>6

-----------------------------------------------------------------------------
(* The rows the commands of a drill write *)

\* The rows are a sequence, whatever their columns contain.
IsTable(rows) == \E V : rows \in Seq([Columns -> V])
ChainInv == IsTable(tables.audit) /\ Verify(tables.audit)

LEMMA AppendedIsTable ==
  ASSUME NEW rows, IsTable(rows), NEW type, NEW payload, NEW time
  PROVE  IsTable(AppendEvent(rows, type, payload, time))
<1> DEFINE event == [BuildEvent(LastSequence(rows) + 1, type, payload, time, LastHash(rows))
                       EXCEPT !.time = StoredTime(@)]
<1>1. PICK V : rows \in Seq([Columns -> V])
  BY DEF IsTable
<1> DEFINE W == V \cup {event.sequence, event.type, event.payload, event.time,
                        event.previous, event.hash}
<1>2. event \in [Columns -> W]
  <2>1. event = [sequence |-> event.sequence, type |-> event.type,
                 payload |-> event.payload, time |-> event.time,
                 previous |-> event.previous, hash |-> event.hash]
    <3> DEFINE row == [sequence |-> LastSequence(rows) + 1, type |-> type,
                       payload |-> payload, time |-> time,
                       previous |-> LastHash(rows), hash |-> NoHash]
               built == [row EXCEPT !.hash = EventHash(row)]
    <3>1. event = [built EXCEPT !.time = StoredTime(@)]
      BY DEF BuildEvent
    <3>2. built = [sequence |-> row.sequence, type |-> type, payload |-> payload,
                   time |-> time, previous |-> row.previous, hash |-> EventHash(row)]
      OBVIOUS
    <3> HIDE DEF built, row, event
    <3> QED BY <3>1, <3>2
  <2> HIDE DEF event
  <2> QED BY <2>1 DEF Columns
<1> HIDE DEF event
<1>3. [Columns -> V] \subseteq [Columns -> W]
  OBVIOUS
<1> HIDE DEF W
<1>4. rows \in Seq([Columns -> W])
  BY <1>1, <1>3
<1>5. Append(rows, event) \in Seq([Columns -> W])
  BY <1>2, <1>4
<1> QED BY <1>5 DEF IsTable, AppendEvent, event

LEMMA AuditedIsChain ==
  ASSUME ChainInv, NEW type, NEW row
  PROVE  /\ IsTable(Audited(tables, type, row))
         /\ Verify(Audited(tables, type, row))
<1>1. PICK V : tables.audit \in Seq([Columns -> V])
  BY DEF ChainInv, IsTable
<1>2. Verify(Audited(tables, type, row))
  BY <1>1, AppendKeepsChain DEF ChainInv, Audited
<1>3. IsTable(Audited(tables, type, row))
  BY AppendedIsTable DEF ChainInv, Audited
<1> QED BY <1>2, <1>3

\* The timeline stays a sequence of rows that verifies.
THEOREM ChainInvariance == StoreSpec => []ChainInv
<1>1. StoreInit => ChainInv
  <2> SUFFICES ASSUME StoreInit PROVE ChainInv
    OBVIOUS
  <2>1. tables.audit = <<>>
    BY DEF StoreInit, EmptyTables
  <2>2. <<>> \in Seq([Columns -> {}])
    OBVIOUS
  <2> QED BY <2>1, <2>2 DEF ChainInv, IsTable, Verify
<1>2. ChainInv /\ [StoreNext]_storeVars => ChainInv'
  <2> SUFFICES ASSUME ChainInv, [StoreNext]_storeVars PROVE ChainInv'
    OBVIOUS
  <2>1. CASE tables' = tables
    BY <2>1 DEF ChainInv, IsTable
  <2>2. ASSUME NEW type, NEW row, tables'.audit = Audited(tables, type, row)
        PROVE  ChainInv'
    BY <2>2, AuditedIsChain DEF ChainInv
  <2>3. CASE InsertDrill
    BY <2>2, <2>3 DEF InsertDrill, Audited
  <2>4. CASE UpdateDrill
    BY <2>2, <2>4 DEF UpdateDrill, SaveAggregate
  <2> QED BY <2>1, <2>3, <2>4 DEF StoreNext, storeVars, ReadOnly
<1> QED BY <1>1, <1>2, PTL DEF StoreSpec

\* The timeline the commands write verifies, in every reachable state.
THEOREM TimelineVerifies == StoreSpec => []HonestChainVerifies
<1>1. ChainInv => HonestChainVerifies
  BY DEF ChainInv, HonestChainVerifies
<1> QED BY <1>1, ChainInvariance, PTL

\* Whatever happens to the rows of a timeline is noticed, unless the last rows
\* are missing and nothing else.
THEOREM DamageNoticed == StoreSpec => []DamageIsNoticed
<1>1. ASSUME ChainInv PROVE DamageIsNoticed
  <2>1. PICK V : tables.audit \in Seq([Columns -> V])
    BY <1>1 DEF ChainInv, IsTable
  <2>2. Verify(tables.audit)
    BY <1>1 DEF ChainInv
  <2> QED BY <2>1, <2>2, AlteredIsNoticed, RehashedIsNoticed, LossIsNoticed
          DEF DamageIsNoticed, NoticesDamage
<1> QED BY <1>1, ChainInvariance, PTL

-----------------------------------------------------------------------------
(* The aggregate in the tables *)

\* The tables as a function of the aggregate: one row for each of its parts
\* and no other.  LoadAggregate is exact on such tables, and SaveAggregate
\* leads from those of one aggregate to those of the next.
Stored ==
  /\ tables = [drills |-> tables.drills, baselines |-> tables.baselines,
               checkpoints |-> tables.checkpoints, results |-> tables.results,
               deviations |-> tables.deviations, materials |-> tables.materials,
               retests |-> tables.retests, rounds |-> tables.rounds,
               items |-> tables.items, decisions |-> tables.decisions,
               audit |-> tables.audit]
  /\ tables.drills = IF drill.status = "absent" THEN {} ELSE {drill}
  /\ tables.baselines = IF baseline = NoBaseline THEN {} ELSE {baseline}
  /\ tables.checkpoints = checkpoints
  /\ tables.results = results
  /\ tables.deviations = deviations
  /\ tables.materials = materials
  /\ tables.retests = retests
  /\ tables.rounds = RoundRows(rounds)
  /\ tables.items = ItemRows(rounds)
  /\ tables.decisions = IF decision = NoDecision THEN {} ELSE {decision}

\* A timeline lists the types of the events that were appended.
TypesStored == [i \in DOMAIN tables.audit |-> tables.audit[i].type] = events

\* A baseline has a version, so that SaveAggregate does not pass it over.
BaselineCounted == baseline # NoBaseline => baseline.version > 0

StoreInv == Stored /\ TypesStored /\ BaselineCounted

\* Rows that are kept and rows with new keys: nothing is ignored.
LEMMA ResultsInserted ==
  ASSUME NEW old, NEW new, old \subseteq new,
         \A a, b \in new : a.code = b.code /\ a.attempt = b.attempt => a = b
  PROVE  InsertOrIgnore(old, new, SameResult) = new
BY DEF InsertOrIgnore, SameResult

LEMMA MaterialsInserted ==
  ASSUME NEW old, NEW new, old \subseteq new, new \subseteq Material
  PROVE  InsertOrIgnore(old, new, SameMaterial) = new
<1>1. \A a, b \in new : a.code = b.code /\ a.version = b.version => a = b
  BY DEF Material
<1> QED BY <1>1 DEF InsertOrIgnore, SameMaterial

LEMMA RetestsInserted ==
  ASSUME NEW old, NEW new, old \subseteq new, new \subseteq RetestAttempt,
         \A a, b \in new : a.code = b.code /\ a.result = b.result => a = b,
         \A a \in new : a.attempt = a.result - 1
  PROVE  InsertOrIgnore(old, new, SameRetest) = new
<1>1. ASSUME NEW a \in new, NEW b \in new, a.code = b.code, a.attempt = b.attempt
      PROVE  a = b
  <2>1. a.result \in Nat /\ b.result \in Nat
    BY DEF RetestAttempt
  <2> QED BY <1>1, <2>1
<1> QED BY <1>1 DEF InsertOrIgnore, SameRetest

LEMMA CheckpointsUpserted ==
  ASSUME NEW old, NEW new, old \subseteq new
  PROVE  Upsert(old, new, SameCheckpoint, MergeCheckpoint) = new
<1> DEFINE Merged(row) == {MergeCheckpoint(o, row) : o \in {o \in old : SameCheckpoint(o, row)}}
<1>1. \A row : Merged(row) = IF row \in old THEN {row} ELSE {}
  BY DEF SameCheckpoint, MergeCheckpoint
<1>2. UNION {Merged(row) : row \in new} = old
  <2> HIDE DEF Merged
  <2> QED BY <1>1
<1> QED BY <1>2 DEF Upsert, SameCheckpoint

LEMMA DeviationsUpserted ==
  ASSUME NEW old, NEW new, \A d \in old : \E e \in new : e.code = d.code
  PROVE  Upsert(old, new, SameDeviation, MergeDeviation) = new
<1> DEFINE Merged(row) == {MergeDeviation(o, row) : o \in {o \in old : SameDeviation(o, row)}}
<1>1. \A row : Merged(row) = IF \E o \in old : o.code = row.code THEN {row} ELSE {}
  BY DEF SameDeviation, MergeDeviation
<1>2. UNION {Merged(row) : row \in new} = {row \in new : \E o \in old : o.code = row.code}
  <2> HIDE DEF Merged
  <2> QED BY <1>1
<1>3. {d \in old : \A row \in new : ~SameDeviation(d, row)} = {}
  BY DEF SameDeviation
<1>4. {row \in new : \A o \in old : ~SameDeviation(o, row)}
        = {row \in new : ~(\E o \in old : o.code = row.code)}
  BY DEF SameDeviation
<1> HIDE DEF Merged
<1>5. Upsert(old, new, SameDeviation, MergeDeviation)
        = {d \in old : \A row \in new : ~SameDeviation(d, row)} \cup
          {row \in new : \A o \in old : ~SameDeviation(o, row)} \cup
          UNION {Merged(row) : row \in new}
  BY DEF Upsert, Merged
<1> QED BY <1>2, <1>3, <1>4, <1>5

\* A round that exists gets its flag; its reviewer is the one it has.
LEMMA RoundsUpserted ==
  ASSUME NEW old, NEW new, DOMAIN old \subseteq DOMAIN new,
         \A i \in DOMAIN old : new[i].reviewer = old[i].reviewer
  PROVE  Upsert(RoundRows(old), RoundRows(new), SameRound, MergeRound) = RoundRows(new)
<1> DEFINE Row(s, i) == [round |-> i, reviewer |-> s[i].reviewer, frozen |-> s[i].frozen]
           A == RoundRows(old)
           B == RoundRows(new)
           Merged(row) == {MergeRound(o, row) : o \in {o \in A : SameRound(o, row)}}
<1>1. /\ \A x : x \in A <=> \E i \in DOMAIN old : x = Row(old, i)
      /\ \A x : x \in B <=> \E i \in DOMAIN new : x = Row(new, i)
  BY DEF RoundRows
<1>2. \A s, i : Row(s, i).round = i
  OBVIOUS
<1>3. \A i \in DOMAIN old : MergeRound(Row(old, i), Row(new, i)) = Row(new, i)
  BY DEF MergeRound
<1> HIDE DEF A, B, Row
<1>4. ASSUME NEW i \in DOMAIN new
      PROVE  Merged(Row(new, i)) = IF i \in DOMAIN old THEN {Row(new, i)} ELSE {}
  <2>1. {o \in A : SameRound(o, Row(new, i))} = IF i \in DOMAIN old THEN {Row(old, i)} ELSE {}
    BY <1>1, <1>2 DEF SameRound
  <2> QED BY <1>3, <2>1
<1>5. {o \in A : \A row \in B : ~SameRound(o, row)} = {}
  BY <1>1, <1>2 DEF SameRound
<1>6. {row \in B : \A o \in A : ~SameRound(o, row)}
        = {Row(new, i) : i \in DOMAIN new \ DOMAIN old}
  BY <1>1, <1>2 DEF SameRound
<1> HIDE DEF Merged
<1>7. UNION {Merged(row) : row \in B} = {Row(new, i) : i \in DOMAIN old}
  BY <1>1, <1>4
<1>8. Upsert(A, B, SameRound, MergeRound)
        = {o \in A : \A row \in B : ~SameRound(o, row)} \cup
          {row \in B : \A o \in A : ~SameRound(o, row)} \cup
          UNION {Merged(row) : row \in B}
  BY DEF Upsert, Merged
<1>9. B = {Row(new, i) : i \in DOMAIN new}
  BY <1>1
<1>10. Upsert(A, B, SameRound, MergeRound) = B
  <2> DEFINE kept == {Row(new, i) : i \in DOMAIN old}
             added == {Row(new, i) : i \in DOMAIN new \ DOMAIN old}
  <2>1. Upsert(A, B, SameRound, MergeRound) = {} \cup added \cup kept
    BY <1>5, <1>6, <1>7, <1>8
  <2>2. added \cup kept = {Row(new, i) : i \in DOMAIN new}
    OBVIOUS
  <2> HIDE DEF kept, added
  <2> QED BY <1>9, <2>1, <2>2
<1> QED BY <1>10 DEF A, B

\* An item that exists gets its answer; no round gets or loses items.
LEMMA ItemsUpserted ==
  ASSUME NEW old, NEW new, DOMAIN old \subseteq DOMAIN new,
         \A i \in DOMAIN old : DOMAIN new[i].items = DOMAIN old[i].items
  PROVE  Upsert(ItemRows(old), ItemRows(new), SameItem, MergeItem) = ItemRows(new)
<1> DEFINE Row(s, i, p) == [round |-> i, position |-> p, answer |-> s[i].items[p]]
           A == ItemRows(old)
           B == ItemRows(new)
           Merged(row) == {MergeItem(o, row) : o \in {o \in A : SameItem(o, row)}}
<1>1. /\ \A x : x \in A <=> \E i \in DOMAIN old : \E p \in DOMAIN old[i].items : x = Row(old, i, p)
      /\ \A x : x \in B <=> \E i \in DOMAIN new : \E p \in DOMAIN new[i].items : x = Row(new, i, p)
  BY DEF ItemRows
<1>2. \A s, i, p : Row(s, i, p).round = i /\ Row(s, i, p).position = p
  OBVIOUS
<1>3. \A i \in DOMAIN old : \A p \in DOMAIN old[i].items :
        MergeItem(Row(old, i, p), Row(new, i, p)) = Row(new, i, p)
  BY DEF MergeItem
<1> HIDE DEF A, B, Row
<1>4. ASSUME NEW i \in DOMAIN new, NEW p \in DOMAIN new[i].items
      PROVE  Merged(Row(new, i, p)) = IF i \in DOMAIN old THEN {Row(new, i, p)} ELSE {}
  <2>1. {o \in A : SameItem(o, Row(new, i, p))}
          = IF i \in DOMAIN old THEN {Row(old, i, p)} ELSE {}
    BY <1>1, <1>2 DEF SameItem
  <2> QED BY <1>3, <2>1
<1>5. {o \in A : \A row \in B : ~SameItem(o, row)} = {}
  BY <1>1, <1>2 DEF SameItem
<1>6. ASSUME NEW x
      PROVE  x \in {row \in B : \A o \in A : ~SameItem(o, row)} <=>
               \E i \in DOMAIN new \ DOMAIN old : \E p \in DOMAIN new[i].items : x = Row(new, i, p)
  BY <1>1, <1>2 DEF SameItem
<1> HIDE DEF Merged
<1>7. ASSUME NEW x
      PROVE  x \in UNION {Merged(row) : row \in B} <=>
               \E i \in DOMAIN old : \E p \in DOMAIN new[i].items : x = Row(new, i, p)
  BY <1>1, <1>4
<1>8. Upsert(A, B, SameItem, MergeItem)
        = {o \in A : \A row \in B : ~SameItem(o, row)} \cup
          {row \in B : \A o \in A : ~SameItem(o, row)} \cup
          UNION {Merged(row) : row \in B}
  BY DEF Upsert, Merged
<1>9. ASSUME NEW x PROVE x \in Upsert(A, B, SameItem, MergeItem) <=> x \in B
  BY <1>1, <1>5, <1>6, <1>7, <1>8
<1>10. Upsert(A, B, SameItem, MergeItem) = B
  BY <1>9
<1> QED BY <1>10 DEF A, B

\* Rows that are numbered from 1 come back in the order of their numbers.
LEMMA OrderedByNumber ==
  ASSUME NEW n \in Nat, NEW f, f = [p \in 1..n |-> f[p]], NEW column,
         \A p \in 1..n : f[p][column] = p,
         NEW rows, rows = {f[p] : p \in 1..n}
  PROVE  OrderedBy(rows, column) = f
<1>1. ASSUME NEW p \in 0..n
      PROVE  Cardinality({f[q] : q \in 1..p}) = p
  <2> DEFINE S == {f[q] : q \in 1..p}
             g == [q \in 1..p |-> f[q]]
  <2>1. g \in Bijection(1..p, S)
    <3>1. \A q, r \in 1..p : g[q] = g[r] => q = r
      OBVIOUS
    <3> QED BY <3>1 DEF Bijection, Injection, Surjection, IsInjective
  <2>2. IsFiniteSet(1..p) /\ Cardinality(1..p) = p
    <3>1. p \in Int /\ 1 \in Int /\ p >= 0
      OBVIOUS
    <3>2. IsFiniteSet(1..p) /\ Cardinality(1..p) = IF 1 > p THEN 0 ELSE p - 1 + 1
      BY <3>1, FS_Interval
    <3> QED BY <3>1, <3>2
  <2> HIDE DEF S, g
  <2>3. Cardinality(S) = Cardinality(1..p)
    BY <2>1, <2>2, FS_Bijection DEF ExistsBijection
  <2> QED BY <2>2, <2>3 DEF S
<1>2. Cardinality(rows) = n
  BY <1>1
<1>3. ASSUME NEW p \in 1..n
      PROVE  Cardinality({r \in rows : r[column] <= f[p][column]}) = p
  <2>1. {r \in rows : r[column] <= f[p][column]} = {f[q] : q \in 1..p}
    OBVIOUS
  <2>2. p \in 0..n
    OBVIOUS
  <2>3. Cardinality({f[q] : q \in 1..p}) = p
    BY <1>1, <2>2
  <2> QED BY <2>1, <2>3
<1>4. ASSUME NEW p \in 1..n
      PROVE  f[p] = CHOOSE row \in rows : Cardinality({r \in rows : r[column] <= row[column]}) = p
  <2>1. f[p] \in rows
    OBVIOUS
  <2>2. ASSUME NEW row \in rows, Cardinality({r \in rows : r[column] <= row[column]}) = p
        PROVE  row = f[p]
    <3>1. PICK q \in 1..n : row = f[q]
      OBVIOUS
    <3>2. q = p
      BY <1>3, <2>2, <3>1
    <3> QED BY <3>1, <3>2
  <2> QED BY <1>3, <2>1, <2>2
<1>5. OrderedBy(rows, column)
        = [p \in 1..n |-> CHOOSE row \in rows :
             Cardinality({r \in rows : r[column] <= row[column]}) = p]
  BY <1>2 DEF OrderedBy
<1>6. OrderedBy(rows, column) = [p \in 1..n |-> f[p]]
  BY <1>4, <1>5
<1> QED BY <1>6

LEMMA InitStoreInv == StoreInit => StoreInv
BY DEF StoreInit, Init, EmptyTables, StoreInv, Stored, TypesStored, BaselineCounted,
       RoundRows, ItemRows, NoBaseline

\* A preview writes nothing.
LEMMA PreviewStores ==
  ASSUME StoreInv, UnchangedTables, UNCHANGED tables
  PROVE  StoreInv'
BY DEF StoreInv, Stored, TypesStored, BaselineCounted, UnchangedTables

\* The type of the row that AppendEvent adds.
LEMMA TypesAppended ==
  ASSUME TypesStored, events \in Seq(EventTypes), NEW type \in EventTypes,
         events' = Append(events, type), IsTable(tables.audit), NEW row,
         tables'.audit = Audited(tables, LatestType', row)
  PROVE  TypesStored'
<1> DEFINE rows == tables.audit
           event == [BuildEvent(LastSequence(rows) + 1, type, row.status, row.version, LastHash(rows))
                       EXCEPT !.time = StoredTime(@)]
           n == Len(events)
<1>1. /\ n \in Nat /\ DOMAIN events = 1..n /\ DOMAIN events' = 1..(n + 1)
      /\ Len(events') = n + 1 /\ events'[n + 1] = type
      /\ \A i \in 1..n : events'[i] = events[i]
      /\ events' = [i \in DOMAIN events' |-> events'[i]]
  <2>1. n \in Nat /\ DOMAIN events = 1..n
    OBVIOUS
  <2>2. events' \in Seq(EventTypes) /\ Len(events') = n + 1
    OBVIOUS
  <2>3. events'[n + 1] = type /\ \A i \in 1..n : events'[i] = events[i]
    <3> HIDE DEF event
    <3> QED BY <2>1
  <2>4. DOMAIN events' = 1..(n + 1) /\ events' = [i \in DOMAIN events' |-> events'[i]]
    BY ONLY <2>2
  <2> QED BY ONLY <2>1, <2>2, <2>3, <2>4
<1>2. event.type = type
  BY DEF BuildEvent, StoredTime
<1>3. tables'.audit = Append(rows, event)
  BY <1>1 DEF Audited, AppendEvent, LatestType
<1>4. DOMAIN rows = 1..n /\ \A i \in 1..n : rows[i].type = events[i]
  BY <1>1 DEF TypesStored
<1>5. PICK V : rows \in Seq([Columns -> V])
  BY DEF IsTable
<1>6. Len(rows) = n
  BY <1>1, <1>4, <1>5
<1> HIDE DEF rows, event
<1>7. /\ DOMAIN tables'.audit = 1..(n + 1) /\ tables'.audit[n + 1] = event
      /\ \A i \in 1..n : tables'.audit[i] = rows[i]
  BY <1>1, <1>3, <1>5, <1>6
<1>8. \A i \in 1..(n + 1) : tables'.audit[i].type = events'[i]
  BY <1>1, <1>2, <1>4, <1>7
<1>9. [i \in DOMAIN tables'.audit |-> tables'.audit[i].type] = [i \in DOMAIN events' |-> events'[i]]
  BY <1>1, <1>7, <1>8
<1> QED BY <1>1, <1>9 DEF TypesStored

\* The first row: nothing but the drill and its event.
LEMMA InsertStores ==
  ASSUME IInv, HistoryInv, StoreInv, ChainInv, Next, InsertDrill
  PROVE  StoreInv'
<1>1. tables.drills = {} /\ drill' # drill
  BY DEF InsertDrill, Command
<1>2. drill.status = "absent"
  BY <1>1 DEF StoreInv, Stored
<1>3. deviations = {}
  BY <1>2 DEF IInv, StatusMatchesProgress
<1>4. PICK in \in Profiles : CreateDrill(in)
  BY <1>1, <1>2, <1>3 DEF Next, ReviseDrill, PreviewBaseline, FreezeBaseline,
         RecordCheck, SubmitReview, RejectReview, ApproveReview, RespondToReview
<1>5. /\ UNCHANGED <<baseline, checkpoints, results, deviations, materials, retests, rounds,
                     decision>>
      /\ drill'.status = "draft"
  BY <1>4 DEF CreateDrill, NextRow
<1>6. tables' = [drills |-> {drill'}, baselines |-> tables.baselines,
                 checkpoints |-> tables.checkpoints, results |-> tables.results,
                 deviations |-> tables.deviations, materials |-> tables.materials,
                 retests |-> tables.retests, rounds |-> tables.rounds,
                 items |-> tables.items, decisions |-> tables.decisions,
                 audit |-> Audited(tables, LatestType', drill')]
  <2> DEFINE chain == Audited(tables, LatestType', drill')
  <2>1. tables' = [tables EXCEPT !.drills = {drill'}, !.audit = chain]
    BY DEF InsertDrill
  <2> HIDE DEF chain
  <2>2. tables' = [drills |-> {drill'}, baselines |-> tables.baselines,
                 checkpoints |-> tables.checkpoints, results |-> tables.results,
                 deviations |-> tables.deviations, materials |-> tables.materials,
                 retests |-> tables.retests, rounds |-> tables.rounds,
                 items |-> tables.items, decisions |-> tables.decisions,
                 audit |-> chain]
    BY <2>1 DEF StoreInv, Stored
  <2> QED BY <2>2 DEF chain
<1>7. Stored'
  <2> DEFINE chain == Audited(tables, LatestType', drill')
  <2>1. tables' = [drills |-> {drill'}, baselines |-> tables.baselines,
                 checkpoints |-> tables.checkpoints, results |-> tables.results,
                 deviations |-> tables.deviations, materials |-> tables.materials,
                 retests |-> tables.retests, rounds |-> tables.rounds,
                 items |-> tables.items, decisions |-> tables.decisions,
                 audit |-> chain]
    BY <1>6
  <2> HIDE DEF chain
  <2> QED BY <1>5, <2>1 DEF StoreInv, Stored
<1>8. BaselineCounted'
  BY <1>5 DEF StoreInv, BaselineCounted
<1>9. TypesStored'
  <2>1. PICK type \in EventTypes : events' = Append(events, type)
    BY <1>1, EventAppended
  <2>2. tables'.audit = Audited(tables, LatestType', drill')
    <3> HIDE DEF Audited
    <3> QED BY <1>6
  <2> QED BY <2>1, <2>2, TypesAppended DEF IInv, TypeOK, StoreInv, ChainInv
<1> QED BY <1>7, <1>8, <1>9 DEF StoreInv

\* Each table after SaveAggregate.
LEMMA UpdateStores ==
  ASSUME IInv, HistoryInv, StoreInv, ChainInv, IInv', HistoryInv', Next, UpdateDrill
  PROVE  StoreInv'
<1> DEFINE chain == Audited(tables, LatestType', drill')
<1>1. drill' # drill /\ tables.drills # {} /\ tables' = SaveAggregate(tables, Aggregate', chain)
  BY DEF UpdateDrill, Command
<1>2. drill.status # "absent" /\ drill'.status # "absent"
  <2>1. drill.status # "absent"
    BY <1>1 DEF StoreInv, Stored
  <2>2. drill'.version = drill.version + 1
    BY <1>1, CommandsChangeTheVersion DEF IInv, UnchangedTables
  <2>3. drill.version \in Nat
    BY DEF IInv, TypeOK, DrillRow
  <2> QED BY <2>1, <2>2, <2>3 DEF IInv, Exists
<1>3. /\ results \subseteq results' /\ materials \subseteq materials' /\ retests \subseteq retests'
      /\ decision # NoDecision => decision' = decision
  BY TablesGrow
<1>4. /\ tables'.drills = {drill'}
      /\ tables'.baselines = InsertOrIgnore(tables.baselines,
           IF baseline'.version > 0 THEN {baseline'} ELSE {}, SameBaseline)
      /\ tables'.checkpoints = Upsert(checkpoints, checkpoints', SameCheckpoint, MergeCheckpoint)
      /\ tables'.results = InsertOrIgnore(results, results', SameResult)
      /\ tables'.deviations = Upsert(deviations, deviations', SameDeviation, MergeDeviation)
      /\ tables'.materials = InsertOrIgnore(materials, materials', SameMaterial)
      /\ tables'.retests = InsertOrIgnore(retests, retests', SameRetest)
      /\ tables'.rounds = Upsert(RoundRows(rounds), RoundRows(rounds'), SameRound, MergeRound)
      /\ tables'.items = Upsert(ItemRows(rounds), ItemRows(rounds'), SameItem, MergeItem)
      /\ tables'.decisions = InsertOrIgnore(tables.decisions,
           IF decision' = NoDecision THEN {} ELSE {decision'}, SameDecision)
      /\ tables'.audit = chain
      /\ tables' = [drills |-> tables'.drills, baselines |-> tables'.baselines,
               checkpoints |-> tables'.checkpoints, results |-> tables'.results,
               deviations |-> tables'.deviations, materials |-> tables'.materials,
               retests |-> tables'.retests, rounds |-> tables'.rounds,
               items |-> tables'.items, decisions |-> tables'.decisions,
               audit |-> tables'.audit]
  <2> HIDE DEF chain
  <2> QED BY <1>1 DEF SaveAggregate, Aggregate, StoreInv, Stored
<1>5. BaselineCounted' /\ tables'.baselines = IF baseline' = NoBaseline THEN {} ELSE {baseline'}
  <2>1. BaselineCounted'
    <3>1. CASE baseline' = baseline
      BY <3>1 DEF StoreInv, BaselineCounted
    <3>2. CASE baseline' # baseline
      <4>1. baseline'.version = drill.baselineVersion + 1
        <5>1. \E layout, held : FreezeBaseline(layout, held)
          BY <3>2 DEF Next, CreateDrill, ReviseDrill, PreviewBaseline,
                  RecordCheck, Remediate, Retest, SubmitReview, RejectReview,
                  ApproveReview, RespondToReview
        <5> QED BY <5>1 DEF FreezeBaseline
      <4>2. drill.baselineVersion \in Nat
        BY DEF IInv, TypeOK, DrillRow
      <4> QED BY <4>1, <4>2 DEF BaselineCounted
    <3> QED BY <3>1, <3>2
  <2>2. baseline'.version > 0 <=> baseline' # NoBaseline
    BY <2>1 DEF BaselineCounted, NoBaseline
  <2>3. baseline = NoBaseline \/ baseline' = baseline
    BY KeysKept
  <2>4. tables.baselines = IF baseline = NoBaseline THEN {} ELSE {baseline}
    BY DEF StoreInv, Stored
  <2> QED BY <1>4, <2>1, <2>2, <2>3, <2>4 DEF InsertOrIgnore, SameBaseline
<1>6. tables'.checkpoints = checkpoints' /\ tables'.deviations = deviations'
  BY <1>4, KeysKept, CheckpointsUpserted, DeviationsUpserted
<1>7. tables'.results = results'
  BY <1>3, <1>4, ResultsInserted DEF IInv, KeysUnique
<1>8. tables'.materials = materials'
  BY <1>3, <1>4, MaterialsInserted DEF IInv, TypeOK
<1>9. tables'.retests = retests'
  BY <1>3, <1>4, RetestsInserted DEF IInv, TypeOK, HistoryInv, RetestRows
<1>10. tables'.rounds = RoundRows(rounds)' /\ tables'.items = ItemRows(rounds)'
  <2>1. DOMAIN rounds \subseteq DOMAIN rounds'
    <3>1. /\ rounds \in Seq(ReviewRound) /\ rounds' \in Seq(ReviewRound)
      BY DEF IInv, TypeOK
    <3> QED BY <3>1, RoundsKept
  <2>2. \A i \in DOMAIN rounds : /\ rounds'[i].reviewer = rounds[i].reviewer
                                 /\ DOMAIN rounds'[i].items = DOMAIN rounds[i].items
    BY RoundsKept
  <2>3. RoundRows(rounds') = RoundRows(rounds)' /\ ItemRows(rounds') = ItemRows(rounds)'
    BY DEF RoundRows, ItemRows
  <2> QED BY <1>4, <2>1, <2>2, <2>3, RoundsUpserted, ItemsUpserted
<1>11. tables'.decisions = IF decision' = NoDecision THEN {} ELSE {decision'}
  <2>1. tables.decisions = IF decision = NoDecision THEN {} ELSE {decision}
    BY DEF StoreInv, Stored
  <2> QED BY <1>3, <1>4, <2>1 DEF InsertOrIgnore, SameDecision
<1>12. TypesStored'
  <2>1. PICK type \in EventTypes : events' = Append(events, type)
    BY <1>1, EventAppended
  <2>2. tables'.audit = Audited(tables, LatestType', drill')
    BY <1>4
  <2> QED BY <2>1, <2>2, TypesAppended DEF IInv, TypeOK, StoreInv, ChainInv
<1>13. Stored'
  <2> HIDE DEF chain
  <2> QED BY <1>2, <1>4, <1>5, <1>6, <1>7, <1>8, <1>9, <1>10, <1>11 DEF Stored
<1> QED BY <1>5, <1>12, <1>13 DEF StoreInv

LEMMA NextStoreInv ==
  IInv /\ HistoryInv /\ ChainInv /\ StoreInv /\ [StoreNext]_storeVars => StoreInv'
<1> SUFFICES ASSUME IInv, HistoryInv, ChainInv, StoreInv, [StoreNext]_storeVars PROVE StoreInv'
  OBVIOUS
<1>1. CASE UNCHANGED storeVars
  <2>1. UnchangedTables /\ UNCHANGED tables
    BY <1>1 DEF storeVars, vars, UnchangedTables
  <2> QED BY <2>1, PreviewStores
<1>2. CASE Next /\ ReadOnly
  <2>1. drill' = drill /\ drill.version \in Nat
    BY <1>2 DEF ReadOnly, Command, IInv, TypeOK, DrillRow
  <2>2. UnchangedTables
    BY <1>2, <2>1, CommandsChangeTheVersion DEF IInv
  <2> QED BY <1>2, <2>2, PreviewStores DEF ReadOnly
<1>3. CASE Next /\ InsertDrill
  BY <1>3, InsertStores
<1>4. CASE Next /\ UpdateDrill
  <2>1. IInv' /\ HistoryInv'
    BY <1>4, NextIInv, NextHistory
  <2> QED BY <1>4, <2>1, UpdateStores
<1> QED BY <1>1, <1>2, <1>3, <1>4 DEF StoreNext

-----------------------------------------------------------------------------
\* LoadAggregate undoes what SaveAggregate did.
LEMMA LoadedRounds ==
  ASSUME IInv, StoreInv
  PROVE  LoadReviewRounds = rounds
<1> DEFINE n == Len(rounds)
           row == [i \in 1..n |-> [round |-> i, reviewer |-> rounds[i].reviewer,
                                   frozen |-> rounds[i].frozen]]
<1>1. rounds \in Seq(ReviewRound) /\ n \in Nat /\ DOMAIN rounds = 1..n
  BY DEF IInv, TypeOK
<1>2. \A i \in 1..n : rounds[i] \in ReviewRound
  BY <1>1
<1>3. OrderedBy(tables.rounds, "round") = row
  <2>1. tables.rounds = {row[i] : i \in 1..n}
    BY <1>1 DEF StoreInv, Stored, RoundRows
  <2>2. \A i \in 1..n : row[i]["round"] = i
    OBVIOUS
  <2>3. row = [i \in 1..n |-> row[i]]
    OBVIOUS
  <2> HIDE DEF row
  <2> QED BY <1>1, <2>1, <2>2, <2>3, OrderedByNumber
<1>4. ASSUME NEW i \in 1..n PROVE LoadReviewItems(i) = rounds[i].items
  <2>1. PICK m \in 1..MaxItems : rounds[i].items \in [1..m -> Answers \cup {Blank}]
    BY <1>2 DEF ReviewRound
  <2> DEFINE item == [p \in 1..m |-> [round |-> i, position |-> p, answer |-> rounds[i].items[p]]]
             rows == {r \in tables.items : r.round = i}
  <2>2. rows = {item[p] : p \in 1..m}
    <3>1. DOMAIN rounds[i].items = 1..m
      BY <2>1
    <3>2. \A x : x \in tables.items <=>
            \E j \in 1..n : \E p \in DOMAIN rounds[j].items :
              x = [round |-> j, position |-> p, answer |-> rounds[j].items[p]]
      BY <1>1 DEF StoreInv, Stored, ItemRows
    <3> QED BY <3>1, <3>2
  <2>3. \A p \in 1..m : item[p]["position"] = p
    OBVIOUS
  <2>4. item = [p \in 1..m |-> item[p]] /\ m \in Nat
    BY <2>1, ReviewAssumption
  <2> HIDE DEF item, rows
  <2>5. OrderedBy(rows, "position") = item
    BY <2>2, <2>3, <2>4, OrderedByNumber
  <2>6. LoadReviewItems(i) = [p \in DOMAIN item |-> item[p].answer]
    BY <2>5 DEF LoadReviewItems, rows
  <2>7. DOMAIN item = 1..m /\ \A p \in 1..m : item[p].answer = rounds[i].items[p]
    BY DEF item
  <2>8. rounds[i].items = [p \in 1..m |-> rounds[i].items[p]]
    BY <2>1
  <2> QED BY <2>6, <2>7, <2>8
<1>5. LoadReviewRounds = [i \in 1..n |-> [reviewer |-> rounds[i].reviewer,
                                          frozen |-> rounds[i].frozen,
                                          items |-> LoadReviewItems(i)]]
  <2>1. DOMAIN row = 1..n /\ \A i \in 1..n : /\ row[i].reviewer = rounds[i].reviewer
                                             /\ row[i].frozen = rounds[i].frozen
                                             /\ row[i].round = i
    OBVIOUS
  <2> HIDE DEF row
  <2>2. LoadReviewRounds = [i \in 1..n |-> [reviewer |-> row[i].reviewer,
                                            frozen |-> row[i].frozen,
                                            items |-> LoadReviewItems(row[i].round)]]
    BY <1>3, <2>1 DEF LoadReviewRounds
  <2> QED BY <2>1, <2>2
<1>6. \A i \in 1..n : rounds[i] = [reviewer |-> rounds[i].reviewer, frozen |-> rounds[i].frozen,
                                   items |-> rounds[i].items]
  BY <1>2 DEF ReviewRound
<1>7. rounds = [i \in 1..n |-> rounds[i]]
  BY <1>1
<1> QED BY <1>4, <1>5, <1>6, <1>7

LEMMA LoadedAsStored == IInv /\ StoreInv => StoredAsProduced
<1> SUFFICES ASSUME IInv, StoreInv, tables.drills # {} PROVE StoredAsProduced
  BY DEF StoredAsProduced
<1>1. drill.status # "absent" /\ tables.drills = {drill}
  BY DEF StoreInv, Stored
<1>2. (CHOOSE r \in tables.drills : TRUE) = drill
  BY <1>1
<1>3. LoadBaseline(drill) = baseline
  <2>1. CASE drill.baselineVersion = 0
    <3>1. baseline = NoBaseline
      BY <1>1, <2>1 DEF IInv, StatusMatchesProgress, StoreInv, BaselineCounted
    <3> QED BY <2>1, <3>1 DEF LoadBaseline
  <2>2. CASE drill.baselineVersion # 0
    <3>1. baseline # NoBaseline /\ baseline.version = drill.baselineVersion
      BY <1>1, <2>2 DEF IInv, StatusMatchesProgress
    <3>2. tables.baselines = {baseline}
      BY <3>1 DEF StoreInv, Stored
    <3> QED BY <2>2, <3>1, <3>2 DEF LoadBaseline
  <2> QED BY <2>1, <2>2
<1>4. LoadDecision = decision
  <2>1. tables.decisions = IF decision = NoDecision THEN {} ELSE {decision}
    BY DEF StoreInv, Stored
  <2> QED BY <2>1 DEF LoadDecision
<1>5. LoadAggregate = Aggregate
  BY <1>2, <1>3, <1>4, LoadedRounds DEF LoadAggregate, Aggregate, StoreInv, Stored
<1> QED BY <1>5 DEF StoredAsProduced, StoreInv, TypesStored

\* The tables hold the aggregate and nothing else, in every reachable state.
THEOREM StoreInvariance == StoreSpec => [](IInv /\ HistoryInv /\ StoreInv)
<1>1. StoreInit => IInv /\ HistoryInv /\ StoreInv
  BY InitIInv, InitHistory, InitStoreInv DEF StoreInit
<1>2. [StoreNext]_storeVars => [Next]_vars
  BY DEF StoreNext, storeVars
<1>3. /\ IInv /\ HistoryInv /\ StoreInv /\ ChainInv /\ [StoreNext]_storeVars
      => (IInv /\ HistoryInv /\ StoreInv)'
  BY <1>2, NextIInv, NextHistory, NextStoreInv
<1> QED BY <1>1, <1>3, ChainInvariance, PTL DEF StoreSpec

\* What is loaded is what the last command produced, although SaveAggregate
\* writes every row again and the tables ignore or merge the ones they have.
THEOREM LoadedAsProduced == StoreSpec => []StoredAsProduced
BY LoadedAsStored, StoreInvariance, PTL

\* A command finds no drill if it creates one, and otherwise the row of the
\* version it loaded.
RowIsFound == IF drill.status = "absent" THEN tables.drills = {}
              ELSE \E row \in tables.drills : row.version = drill.version

\* The tables stop no command that the rules accept: with the drill to itself
\* none meets a conflict in UpdateDrill, so StoreNext does not narrow Next.
THEOREM NoConflictAlone == StoreSpec => []RowIsFound
<1>1. StoreInv => RowIsFound
  BY DEF StoreInv, Stored, RowIsFound
<1> QED BY <1>1, StoreInvariance, PTL
=============================================================================
