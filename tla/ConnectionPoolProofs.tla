------------------------ MODULE ConnectionPoolProofs ------------------------
(* Who can block whom on the connection pool, for any finite number of     *)
(* requests, any number of connections and any number of review rounds.    *)
EXTENDS ConnectionPool, FiniteSetTheorems, TLAPS

ReaderPlaces == {"idle", "before", "querying", "rounds", "rows", "items", "after",
                 "finishing", "answered", "failed"}
WriterPlaces == {"idle", "lookup", "looking", "begin", "tx", "answered", "failed"}

\* The queries a request has open, from where it is.
UsesAt(place) ==
  IF place \in {"querying", "finishing", "looking"} THEN {"alone"}
  ELSE IF place = "rows" THEN {"rounds"}
  ELSE IF place = "items" THEN {"rounds", "items"}
  ELSE IF place = "tx" THEN {"tx"}
  ELSE {}

Roles == /\ \A r \in Readers : pc[r] \in ReaderPlaces
         /\ \A w \in Writers : pc[w] \in WriterPlaces

ConnsMatchPlaces ==
  \A p \in Procs, use \in Uses : <<p, use>> \in conns <=> use \in UsesAt(pc[p])

\* The items of a round are read while there is a round left.
RoundsLeft == \A r \in Readers : pc[r] = "items" => left[r] > 0

IInv == /\ TypeOK
        /\ RoundsLeft
        /\ IsFiniteSet(conns)
        /\ Roles
        /\ ConnsMatchPlaces

-----------------------------------------------------------------------------
LEMMA InitIInv == Init => IInv
<1> SUFFICES ASSUME Init PROVE IInv
  OBVIOUS
<1>1. IsFiniteSet(conns) /\ Cardinality(conns) = 0
  BY FS_EmptySet DEF Init
<1>2. TypeOK
  BY <1>1, PoolAssumption DEF Init, TypeOK, Places, Procs
<1>3. Roles /\ ConnsMatchPlaces /\ RoundsLeft
  BY DEF Init, RoundsLeft, Roles, ReaderPlaces, WriterPlaces, ConnsMatchPlaces, UsesAt, Procs
<1> QED BY <1>1, <1>2, <1>3 DEF IInv

\* A connection is only taken when there is one.
LEMMA TakeFits ==
  ASSUME IInv, NEW p \in Procs, NEW use \in Uses, Take(p, use)
  PROVE  /\ conns' \subseteq Procs \X Uses
         /\ IsFiniteSet(conns')
         /\ Cardinality(conns') <= PoolSize
<1>1. IsFiniteSet(conns) /\ Cardinality(conns) \in Nat /\ Cardinality(conns) < PoolSize
  BY FS_CardinalityType DEF IInv, Take, Available
<1>2. conns' = conns \cup {<<p, use>>}
  BY DEF Take
<1> DEFINE c == <<p, use>>
<1>3. /\ IsFiniteSet(conns \cup {c})
      /\ Cardinality(conns \cup {c}) =
           IF c \in conns THEN Cardinality(conns) ELSE Cardinality(conns) + 1
  <2> HIDE DEF c
  <2> QED BY <1>1, FS_AddElement
<1>4. IsFiniteSet(conns') /\ Cardinality(conns') <= PoolSize
  BY <1>1, <1>2, <1>3, PoolAssumption
<1>5. conns' \subseteq Procs \X Uses
  BY <1>2 DEF IInv, TypeOK
<1> QED BY <1>4, <1>5

LEMMA FewerFit ==
  ASSUME IInv, conns' \subseteq conns
  PROVE  /\ conns' \subseteq Procs \X Uses
         /\ IsFiniteSet(conns')
         /\ Cardinality(conns') <= PoolSize
<1>1. IsFiniteSet(conns') /\ Cardinality(conns') <= Cardinality(conns)
  BY FS_Subset DEF IInv
<1>2. Cardinality(conns') \in Nat /\ Cardinality(conns) \in Nat
  BY <1>1, FS_CardinalityType DEF IInv
<1> QED BY <1>1, <1>2, PoolAssumption DEF IInv, TypeOK

\* left fits a step that takes p to place.
LeftFits(p, place) ==
  /\ left' \in [Readers -> Nat]
  /\ \A r \in Readers : (IF r = p THEN place ELSE pc[r]) = "items" => left'[r] > 0

LEMMA LeftUnchanged ==
  ASSUME IInv, NEW p, NEW place, place # "items", left' = left
  PROVE  LeftFits(p, place)
BY DEF IInv, TypeOK, RoundsLeft, LeftFits

\* What a step of one request has to keep: its own connections match the
\* place it goes to, those of the others stay.
LEMMA StepOfOne ==
  ASSUME IInv, NEW p \in Procs, NEW place \in Places,
         Goto(p, place),
         p \in Readers => place \in ReaderPlaces,
         p \in Writers => place \in WriterPlaces,
         LeftFits(p, place),
         /\ conns' \subseteq Procs \X Uses
         /\ IsFiniteSet(conns')
         /\ Cardinality(conns') <= PoolSize,
         \A q \in Procs, use \in Uses :
           <<q, use>> \in conns' <=> IF q = p THEN use \in UsesAt(place) ELSE <<q, use>> \in conns
  PROVE  IInv'
<1>1. pc' = [pc EXCEPT ![p] = place] /\ pc \in [Procs -> Places]
  BY DEF Goto, IInv, TypeOK
<1>2. TypeOK' /\ RoundsLeft'
  BY <1>1 DEF TypeOK, RoundsLeft, LeftFits, Procs
<1>3. Roles'
  BY <1>1 DEF IInv, Roles, Procs
<1>4. ConnsMatchPlaces'
  <2> SUFFICES ASSUME NEW q \in Procs, NEW use \in Uses
               PROVE  <<q, use>> \in conns' <=> use \in UsesAt(pc'[q])
    BY DEF ConnsMatchPlaces
  <2>1. CASE q = p
    BY <1>1, <2>1
  <2>2. CASE q # p
    BY <1>1, <2>2 DEF IInv, ConnsMatchPlaces
  <2> QED BY <2>1, <2>2
<1> QED BY <1>2, <1>3, <1>4 DEF IInv

-----------------------------------------------------------------------------
(* The actions *)

LEMMA AskStep == ASSUME IInv, NEW p \in Procs, Ask(p) PROVE IInv'
<1>1. pc[p] = "idle" /\ conns' = conns /\ left' = left
  BY DEF Ask
<1>2. /\ conns' \subseteq Procs \X Uses /\ IsFiniteSet(conns') /\ Cardinality(conns') <= PoolSize
  BY <1>1, FewerFit
<1>3. \A use \in Uses : <<p, use>> \notin conns
  BY <1>1 DEF IInv, ConnsMatchPlaces, UsesAt
<1>4. LeftFits(p, "before") /\ LeftFits(p, "lookup")
  BY <1>1, LeftUnchanged
<1>5. CASE p \in Readers
  <2>1. Goto(p, "before")
    BY <1>5 DEF Ask
  <2>2. "before" \in Places /\ "before" \in ReaderPlaces /\ p \notin Writers /\ UsesAt("before") = {}
    BY <1>5, PoolAssumption DEF Places, ReaderPlaces, UsesAt
  <2> QED BY <1>1, <1>2, <1>3, <1>4, <2>1, <2>2, StepOfOne
<1>6. CASE p \notin Readers
  <2>1. Goto(p, "lookup")
    BY <1>6 DEF Ask
  <2>2. "lookup" \in Places /\ "lookup" \in WriterPlaces /\ UsesAt("lookup") = {}
    BY DEF Places, WriterPlaces, UsesAt
  <2> QED BY <1>1, <1>2, <1>3, <1>4, <1>6, <2>1, <2>2, StepOfOne
<1> QED BY <1>5, <1>6

LEMMA StartAloneStep == ASSUME IInv, NEW p \in Procs, StartAlone(p) PROVE IInv'
<1> DEFINE place == Running[pc[p]]
<1>1. pc[p] \in {"before", "after", "lookup"} /\ Take(p, "alone") /\ Goto(p, place) /\ left' = left
  BY DEF StartAlone, Running
<1>2. /\ pc[p] = "before" => place = "querying"
      /\ pc[p] = "after" => place = "finishing"
      /\ pc[p] = "lookup" => place = "looking"
  BY DEF Running
<1>3. /\ p \in Readers => place \in ReaderPlaces
      /\ p \in Writers => place \in WriterPlaces
      /\ place \in Places
  BY <1>1, <1>2 DEF IInv, Roles, ReaderPlaces, WriterPlaces, Places
<1>4. UsesAt(place) = {"alone"} /\ UsesAt(pc[p]) = {}
  BY <1>1, <1>2 DEF UsesAt
<1>5. \A q \in Procs, use \in Uses :
        <<q, use>> \in conns' <=> IF q = p THEN use \in UsesAt(place) ELSE <<q, use>> \in conns
  BY <1>1, <1>4 DEF Take, IInv, ConnsMatchPlaces
<1>6. LeftFits(p, place)
  BY <1>1, <1>2, LeftUnchanged
<1>7. "alone" \in Uses
  BY DEF Uses
<1> HIDE DEF place
<1> QED BY <1>1, <1>3, <1>5, <1>6, <1>7, TakeFits, StepOfOne

LEMMA EndAloneStep == ASSUME IInv, NEW p \in Procs, EndAlone(p) PROVE IInv'
<1>1. pc[p] \in {"querying", "finishing", "looking"} /\ Return(p, "alone") /\ left' = left
  BY DEF EndAlone, Done
<1>2. PICK place \in Done[pc[p]] : Goto(p, place)
  BY DEF EndAlone
<1>3. /\ pc[p] = "querying" => place = "rounds"
      /\ pc[p] = "finishing" => place = "answered"
      /\ pc[p] = "looking" => place \in {"begin", "answered"}
  BY DEF Done
<1>4. /\ p \in Readers => place \in ReaderPlaces
      /\ p \in Writers => place \in WriterPlaces
      /\ place \in Places
  BY <1>1, <1>3 DEF IInv, Roles, ReaderPlaces, WriterPlaces, Places
<1>5. UsesAt(place) = {} /\ UsesAt(pc[p]) = {"alone"}
  BY <1>1, <1>3 DEF UsesAt
<1>6. conns' \subseteq conns
  BY <1>1 DEF Return
<1>7. \A q \in Procs, use \in Uses :
        <<q, use>> \in conns' <=> IF q = p THEN use \in UsesAt(place) ELSE <<q, use>> \in conns
  BY <1>1, <1>5 DEF Return, IInv, ConnsMatchPlaces
<1>8. LeftFits(p, place)
  BY <1>1, <1>3, LeftUnchanged
<1> QED BY <1>2, <1>4, <1>6, <1>7, <1>8, FewerFit, StepOfOne

\* Opening and closing queries within the read model, and a transaction.
LEMMA OpenStep ==
  ASSUME IInv, NEW p \in Procs, NEW use \in Uses, NEW place \in Places,
         Take(p, use), Goto(p, place),
         p \in Readers => place \in ReaderPlaces,
         p \in Writers => place \in WriterPlaces,
         LeftFits(p, place),
         UsesAt(place) = UsesAt(pc[p]) \cup {use}
  PROVE  IInv'
<1>1. \A q \in Procs, u \in Uses :
        <<q, u>> \in conns' <=> IF q = p THEN u \in UsesAt(place) ELSE <<q, u>> \in conns
  BY DEF Take, IInv, ConnsMatchPlaces
<1> QED BY <1>1, TakeFits, StepOfOne

LEMMA CloseStep ==
  ASSUME IInv, NEW p \in Procs, NEW use \in Uses, NEW place \in Places,
         Return(p, use), Goto(p, place),
         p \in Readers => place \in ReaderPlaces,
         p \in Writers => place \in WriterPlaces,
         LeftFits(p, place),
         UsesAt(place) = UsesAt(pc[p]) \ {use}
  PROVE  IInv'
<1>1. \A q \in Procs, u \in Uses :
        <<q, u>> \in conns' <=> IF q = p THEN u \in UsesAt(place) ELSE <<q, u>> \in conns
  BY DEF Return, IInv, ConnsMatchPlaces
<1>2. conns' \subseteq conns
  BY DEF Return
<1> QED BY <1>1, <1>2, FewerFit, StepOfOne

LEMMA ReadStep ==
  ASSUME IInv, NEW r \in Readers,
         OpenRounds(r) \/ OpenItems(r) \/ CloseItems(r) \/ CloseRounds(r)
  PROVE  IInv'
<1> r \in Procs /\ r \notin Writers
  BY PoolAssumption DEF Procs
<1>1. /\ left \in [Readers -> Nat] /\ Rounds \in [Readers -> Nat]
      /\ \A q \in Readers : pc[q] = "items" => left[q] > 0
  BY PoolAssumption DEF IInv, TypeOK, RoundsLeft
<1>2. CASE OpenRounds(r)
  <2>1. pc[r] = "rounds" /\ Take(r, "rounds") /\ Goto(r, "rows") /\ LeftFits(r, "rows")
    BY <1>1, <1>2 DEF OpenRounds, LeftFits
  <2>2. "rounds" \in Uses /\ "rows" \in Places /\ "rows" \in ReaderPlaces
    BY DEF Uses, Places, ReaderPlaces
  <2>3. UsesAt("rows") = UsesAt(pc[r]) \cup {"rounds"}
    BY <2>1 DEF UsesAt
  <2> QED BY <2>1, <2>2, <2>3, OpenStep
<1>3. CASE OpenItems(r)
  <2>1. pc[r] = "rows" /\ Take(r, "items") /\ Goto(r, "items") /\ LeftFits(r, "items")
    BY <1>1, <1>3 DEF OpenItems, LeftFits
  <2>2. "items" \in Uses /\ "items" \in Places /\ "items" \in ReaderPlaces
    BY DEF Uses, Places, ReaderPlaces
  <2>3. UsesAt("items") = UsesAt(pc[r]) \cup {"items"}
    BY <2>1 DEF UsesAt
  <2> QED BY <2>1, <2>2, <2>3, OpenStep
<1>4. CASE CloseItems(r)
  <2>1. pc[r] = "items" /\ Return(r, "items") /\ Goto(r, "rows")
    BY <1>4 DEF CloseItems
  <2>2. "items" \in Uses /\ "rows" \in Places /\ "rows" \in ReaderPlaces
    BY DEF Uses, Places, ReaderPlaces
  <2>3. UsesAt("rows") = UsesAt(pc[r]) \ {"items"}
    BY <2>1 DEF UsesAt
  <2>4. LeftFits(r, "rows")
    BY <1>1, <1>4, <2>1 DEF CloseItems, LeftFits
  <2> QED BY <2>1, <2>2, <2>3, <2>4, CloseStep
<1>5. CASE CloseRounds(r)
  <2>1. pc[r] = "rows" /\ Return(r, "rounds") /\ Goto(r, "after") /\ LeftFits(r, "after")
    BY <1>1, <1>5 DEF CloseRounds, LeftFits
  <2>2. "rounds" \in Uses /\ "after" \in Places /\ "after" \in ReaderPlaces
    BY DEF Uses, Places, ReaderPlaces
  <2>3. UsesAt("after") = UsesAt(pc[r]) \ {"rounds"}
    BY <2>1 DEF UsesAt
  <2> QED BY <2>1, <2>2, <2>3, CloseStep
<1> QED BY <1>2, <1>3, <1>4, <1>5

LEMMA CommandStep ==
  ASSUME IInv, NEW w \in Writers, BeginTx(w) \/ EndTx(w)
  PROVE  IInv'
<1> w \in Procs /\ w \notin Readers
  BY PoolAssumption DEF Procs
<1>1. CASE BeginTx(w)
  <2>1. pc[w] = "begin" /\ Take(w, "tx") /\ Goto(w, "tx") /\ LeftFits(w, "tx")
    BY <1>1, LeftUnchanged DEF BeginTx
  <2>2. "tx" \in Uses /\ "tx" \in Places /\ "tx" \in WriterPlaces
    BY DEF Uses, Places, WriterPlaces
  <2>3. UsesAt("tx") = UsesAt(pc[w]) \cup {"tx"}
    BY <2>1 DEF UsesAt
  <2> QED BY <2>1, <2>2, <2>3, OpenStep
<1>2. CASE EndTx(w)
  <2>1. pc[w] = "tx" /\ Return(w, "tx") /\ Goto(w, "answered") /\ LeftFits(w, "answered")
    BY <1>2, LeftUnchanged DEF EndTx
  <2>2. "tx" \in Uses /\ "answered" \in Places /\ "answered" \in WriterPlaces
    BY DEF Uses, Places, WriterPlaces
  <2>3. UsesAt("answered") = UsesAt(pc[w]) \ {"tx"}
    BY <2>1 DEF UsesAt
  <2> QED BY <2>1, <2>2, <2>3, CloseStep
<1> QED BY <1>1, <1>2

LEMMA GiveUpStep == ASSUME IInv, NEW p \in Procs, GiveUp(p) PROVE IInv'
<1>1. /\ conns' = conns \ {<<p, use>> : use \in Uses}
      /\ Goto(p, "failed") /\ LeftFits(p, "failed")
  BY LeftUnchanged DEF GiveUp
<1>2. "failed" \in Places /\ "failed" \in ReaderPlaces /\ "failed" \in WriterPlaces
  BY DEF Places, ReaderPlaces, WriterPlaces
<1>3. UsesAt("failed") = {}
  BY DEF UsesAt
<1>4. \A q \in Procs, use \in Uses :
        <<q, use>> \in conns' <=> IF q = p THEN use \in UsesAt("failed") ELSE <<q, use>> \in conns
  BY <1>1, <1>3
<1>5. conns' \subseteq conns
  BY <1>1
<1> QED BY <1>1, <1>2, <1>4, <1>5, FewerFit, StepOfOne

LEMMA RespondStep == ASSUME IInv, NEW p \in Procs, Respond(p) PROVE IInv'
<1>1. pc[p] \in {"answered", "failed"} /\ conns' = conns /\ Goto(p, "idle") /\ LeftFits(p, "idle")
  BY LeftUnchanged DEF Respond
<1>2. "idle" \in Places /\ "idle" \in ReaderPlaces /\ "idle" \in WriterPlaces
  BY DEF Places, ReaderPlaces, WriterPlaces
<1>3. UsesAt("idle") = {} /\ UsesAt(pc[p]) = {}
  BY <1>1 DEF UsesAt
<1>4. \A q \in Procs, use \in Uses :
        <<q, use>> \in conns' <=> IF q = p THEN use \in UsesAt("idle") ELSE <<q, use>> \in conns
  BY <1>1, <1>3 DEF IInv, ConnsMatchPlaces
<1> QED BY <1>1, <1>2, <1>4, FewerFit, StepOfOne

LEMMA StutterStep == ASSUME IInv, UNCHANGED vars PROVE IInv'
BY DEF IInv, TypeOK, RoundsLeft, Roles, ConnsMatchPlaces, vars

LEMMA NextIInv == IInv /\ [Next]_vars => IInv'
<1> SUFFICES ASSUME IInv, [Next]_vars PROVE IInv'
  OBVIOUS
<1>1. ASSUME NEW p \in Procs, Ask(p) PROVE IInv'
  BY <1>1, AskStep
<1>2. ASSUME NEW p \in Procs, StartAlone(p) PROVE IInv'
  BY <1>2, StartAloneStep
<1>3. ASSUME NEW p \in Procs, EndAlone(p) PROVE IInv'
  BY <1>3, EndAloneStep
<1>4. ASSUME NEW p \in Procs, GiveUp(p) PROVE IInv'
  BY <1>4, GiveUpStep
<1>5. ASSUME NEW p \in Procs, Respond(p) PROVE IInv'
  BY <1>5, RespondStep
<1>6. ASSUME NEW r \in Readers,
             OpenRounds(r) \/ OpenItems(r) \/ CloseItems(r) \/ CloseRounds(r)
      PROVE  IInv'
  BY <1>6, ReadStep
<1>7. ASSUME NEW w \in Writers, BeginTx(w) \/ EndTx(w) PROVE IInv'
  BY <1>7, CommandStep
<1>8. CASE UNCHANGED vars
  BY <1>8, StutterStep
<1> QED BY <1>1, <1>2, <1>3, <1>4, <1>5, <1>6, <1>7, <1>8 DEF Next

-----------------------------------------------------------------------------
(* Theorems *)

\* The inductive invariant holds in every reachable state.
THEOREM Invariance == Spec => []IInv
<1> QED BY InitIInv, NextIInv, PTL DEF Spec

\* The pool never has more connections than it may, whatever asks for one.
THEOREM TypeCorrect == Spec => []TypeOK
<1>1. IInv => TypeOK
  BY DEF IInv
<1> QED BY <1>1, Invariance, PTL

\* A request between two queries, or at its end, has returned its
\* connections, also after it was given up.
THEOREM NothingLeaks == Spec => []NothingIsLeaked
<1>1. IInv => NothingIsLeaked
  BY DEF IInv, NothingIsLeaked, ConnsMatchPlaces, UsesAt, Holds
<1> QED BY <1>1, Invariance, PTL

\* In a circular wait each connection holds the review_rounds rows of a
\* reader of its own.
LEMMA StuckReaders ==
  ASSUME IInv, CircularWait
  PROVE  conns \subseteq Readers \X {"rounds"} /\ Cardinality(Readers) >= PoolSize
<1>1. ASSUME NEW c \in conns PROVE c \in Readers \X {"rounds"}
  <2>1. PICK p \in Procs, use \in Uses : c = <<p, use>>
    BY <1>1 DEF IInv, TypeOK
  <2>2. use \in UsesAt(pc[p]) /\ Waits(p)
    BY <1>1, <2>1 DEF IInv, ConnsMatchPlaces, CircularWait, Holds
  <2>3. pc[p] = "rows" /\ use = "rounds"
    BY <2>2 DEF Waits, UsesAt
  <2>4. p \in Readers
    BY <2>3 DEF IInv, Roles, WriterPlaces, Procs
  <2> QED BY <2>1, <2>3, <2>4
<1> DEFINE reader == [c \in conns |-> c[1]]
<1>2. reader \in Injection(conns, Readers)
  <2>1. reader \in [conns -> Readers]
    BY <1>1
  <2>2. \A c, d \in conns : reader[c] = reader[d] => c = d
    BY <1>1
  <2> QED BY <2>1, <2>2 DEF Injection, IsInjective
<1>3. Cardinality(conns) <= Cardinality(Readers)
  <2> HIDE DEF reader
  <2> QED BY <1>2, FS_Injection, PoolAssumption
<1>4. Cardinality(conns) >= PoolSize /\ Cardinality(conns) \in Nat /\ Cardinality(Readers) \in Nat
  BY FS_CardinalityType, PoolAssumption DEF IInv, CircularWait, Available
<1> QED BY <1>1, <1>3, <1>4, PoolAssumption

\* Only detail reads block each other, and only as many as connections.
THEOREM OnlyReadsBlock == Spec => []OnlyDetailsBlock
<1>1. IInv => OnlyDetailsBlock
  BY StuckReaders DEF OnlyDetailsBlock
<1> QED BY <1>1, Invariance, PTL

\* With more connections than detail reads nobody is stuck, however many
\* commands there are.
THEOREM RoomyPool ==
  ASSUME Cardinality(Readers) < PoolSize
  PROVE  Spec => []NoCircularWait
<1>1. IInv => NoCircularWait
  BY StuckReaders, FS_CardinalityType, PoolAssumption DEF NoCircularWait
<1> QED BY <1>1, Invariance, PTL
=============================================================================
