------------------------------ MODULE AuditChain ------------------------------
(***************************************************************************)
(* The audit events of one drill (internal/audit and the queries of        *)
(* internal/storage/audit.go): each row carries the hash of the row before *)
(* it and the hash of itself, and Verify reads the rows in order.          *)
(*                                                                         *)
(* A hash is modelled as the value it is computed from: a SHA-256 sum that *)
(* two different inputs share is not a case the code prepares for.  Rows   *)
(* are kept in the order of their sequence numbers, as LoadEvents returns  *)
(* them.  The drill id is the same in all of them and is left out.         *)
(***************************************************************************)
EXTENDS Integers, Sequences

CONSTANT NoHash  \* the empty string, previous_hash of the first row

Columns == {"sequence", "type", "payload", "time", "previous", "hash"}

\* Mutant: the payload is not hashed.
HashWithoutPayload(row) == <<row.previous, row.sequence, row.type, row.time>>
EventHash(row) == <<row.previous, row.sequence, row.type, row.payload, row.time>>

\* The row as BuildEvent fills it; hash is current_hash.
BuildEvent(sequence, type, payload, time, previous) ==
  LET row == [sequence |-> sequence, type |-> type, payload |-> payload,
              time |-> time, previous |-> previous, hash |-> NoHash]
  IN [row EXCEPT !.hash = EventHash(row)]

\* Sequence and current_hash of the last row, 0 and "" when there is none.
LastSequence(rows) == IF rows = <<>> THEN 0 ELSE rows[Len(rows)].sequence
LastHash(rows) == IF rows = <<>> THEN NoHash ELSE rows[Len(rows)].hash

\* Mutant: times are stored in seconds, of two ticks each.
TimeInSeconds(time) == (time \div 2) * 2
\* formatTime and the parsing in LoadEvents keep every digit of a time.
StoredTime(time) == time

\* The rows after AppendEvent.  The hash is computed from the time before it
\* is stored.
AppendEvent(rows, type, payload, time) ==
  LET event == BuildEvent(LastSequence(rows) + 1, type, payload, time, LastHash(rows))
  IN Append(rows, [event EXCEPT !.time = StoredTime(@)])

-----------------------------------------------------------------------------
(* Verify: what it accepts at each position *)

PreviousOf(rows, i) == IF i = 1 THEN NoHash ELSE rows[i - 1].hash

RowFits(rows, i) ==
  /\ rows[i].sequence = i
  /\ rows[i].previous = PreviousOf(rows, i)
  /\ EventHash(rows[i]) = rows[i].hash

Verify(rows) == \A i \in DOMAIN rows : RowFits(rows, i)

-----------------------------------------------------------------------------
(* What may happen to the rows of the file outside the program *)

\* One column of row i holds another value.
Altered(rows, i, column, value) == [rows EXCEPT ![i] = [@ EXCEPT ![column] = value]]

\* So it does, and the hash of the row was computed anew.
Rehashed(rows, i, column, value) ==
  LET row == [rows[i] EXCEPT ![column] = value]
  IN [rows EXCEPT ![i] = [row EXCEPT !.hash = EventHash(row)]]

\* The rows from i to j are gone.
Without(rows, i, j) == SubSeq(rows, 1, i - 1) \o SubSeq(rows, j + 1, Len(rows))

\* Nothing that happens to a verified chain goes unnoticed: neither another
\* value in a column, also when the hash of its row was brought in line and
\* the row has a successor, nor the loss of rows, unless they are the last
\* ones: what is left of the chain verifies then, and Verify is not told how
\* many events there were.
NoticesDamage(rows, Values(_, _)) ==
  \A i \in DOMAIN rows :
    /\ \A column \in Columns : \A value \in Values(i, column) \ {rows[i][column]} :
         /\ ~Verify(Altered(rows, i, column, value))
         /\ i < Len(rows) /\ column # "hash" => ~Verify(Rehashed(rows, i, column, value))
    /\ \A j \in i..Len(rows) : Verify(Without(rows, i, j)) <=> j = Len(rows)
=============================================================================
