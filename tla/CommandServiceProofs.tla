------------------------ MODULE CommandServiceProofs ------------------------
(* What execute guarantees for any number of calls, request ids, drills    *)
(* and crashes.  IInv does not speak of the coordinator: the snapshot rule *)
(* of the database alone keeps commands apart.  LockInv adds what the      *)
(* mutexes are for: a retry finds the answer of the call before it, and    *)
(* the commands of one drill do not fail with SQLITE_BUSY.                 *)
EXTENDS CommandService, FiniteSetTheorems, TLAPS

Deciding == {"unsent", "received", "waiting", "locked", "accepted", "writing"}

\* What a transaction that has seen all the commits knows of its drill.
UpToDate(c) ==
  /\ Stored(c) = NoResponse
  /\ IF request[c].op = Create THEN snapshot[c].version = 0
     ELSE /\ snapshot[c].version = request[c].expected
          /\ snapshot[c].version = versions[request[c].drill]
          /\ snapshot[c].version # 0

\* A call's request and result go with its place; an open transaction that
\* may still write is up to date; a positive answer is the stored one.
CallOK(c) ==
  /\ pc[c] = "unsent" <=> request[c] = NoRequest
  /\ result[c] = Pending <=> pc[c] \in Deciding
  /\ pc[c] \in {"accepted", "writing"} =>
       /\ snapshot[c].commits <= Len(commits)
       /\ snapshot[c].commits = Len(commits) => UpToDate(c)
  /\ pc[c] = "writing" => writer = c /\ snapshot[c].commits = Len(commits)
  /\ result[c].kind \in {"applied", "replayed"} =>
       /\ pc[c] # "unsent"
       /\ result[c].response # NoResponse
       /\ Stored(c) = result[c].response
       /\ Stored(c).op = request[c].op

\* Commits come from calls that were sent, their request ids have responses,
\* and no version is ahead of its drill.
CommitsStored ==
  \A i \in DOMAIN commits :
    /\ Asked(i) # NoRequest
    /\ responses[Asked(i).id] # NoResponse
    /\ commits[i].version <= versions[commits[i].drill]

\* A response reports a commit.
ResponsesReport ==
  \A id \in RequestIDs : responses[id] # NoResponse =>
    \E i \in DOMAIN commits :
      /\ Asked(i).id = id
      /\ Asked(i).op = responses[id].op
      /\ commits[i].drill = responses[id].drill
      /\ commits[i].version = responses[id].version

History == CommitsStored /\ ResponsesReport /\ AppliedAtMostOnce /\ NoLostUpdate

IInv == TypeOK /\ History /\ \A c \in Calls : CallOK(c)

-----------------------------------------------------------------------------
LEMMA InitIInv == Init => IInv
<1> SUFFICES ASSUME Init PROVE IInv
  OBVIOUS
<1>1. TypeOK
  <2>1. commits \in Seq(Commit)
    BY DEF Init
  <2>2. want \in [Calls -> Keys \cup {NoKey}] /\ owner \in [Keys -> Calls \cup {NoCall}]
    BY DEF Init, Mutex!MutexInit
  <2>3. crashes \in 0..MaxCrashes
    BY CrashAssumption DEF Init
  <2> QED BY <2>1, <2>2, <2>3, RequestsAssumption DEF Init, TypeOK
<1>2. CommitsStored /\ ResponsesReport /\ AppliedAtMostOnce
  BY DEF Init, CommitsStored, ResponsesReport, AppliedAtMostOnce
<1>3. NoLostUpdate
  <2> SUFFICES ASSUME NEW d \in Drills
               PROVE  versions[d] = (IF d \in Existing THEN 1 ELSE 0)
                                      + Cardinality({i \in DOMAIN commits : commits[i].drill = d})
    BY DEF NoLostUpdate, Init
  <2>1. {i \in DOMAIN commits : commits[i].drill = d} = {}
    BY DEF Init
  <2> QED BY <2>1, FS_EmptySet DEF Init
<1>4. \A c \in Calls : CallOK(c)
  BY DEF Init, CallOK, Pending, Deciding
<1> QED BY <1>1, <1>2, <1>3, <1>4 DEF IInv, History

\* A call that was sent has one of the requests.
LEMMA RequestType ==
  ASSUME IInv, NEW c \in Calls, request[c] # NoRequest
  PROVE  /\ request[c] \in Requests
         /\ request[c].id \in RequestIDs /\ request[c].op \in Operations
         /\ request[c].drill \in Drills /\ request[c].expected \in Nat
         /\ LockKey(request[c]) \in Keys
<1>1. request[c] \in Requests
  BY DEF IInv, TypeOK
<1>2. /\ request[c].id \in RequestIDs /\ request[c].op \in Operations
      /\ request[c].drill \in Drills /\ request[c].expected \in Nat
  BY <1>1, RequestsAssumption
<1> QED BY <1>1, <1>2 DEF LockKey, Keys

\* Nothing of the history changes while the database does not and no request
\* that was sent does.
LEMMA HistoryKept ==
  ASSUME IInv, UNCHANGED db,
         \A c \in Calls : request[c] # NoRequest => request'[c] = request[c]
  PROVE  History'
<1>1. versions' = versions /\ responses' = responses /\ commits' = commits
  BY DEF db
<1>2. \A i \in DOMAIN commits : commits[i].call \in Calls /\ Asked(i)' = Asked(i)
  <2> SUFFICES ASSUME NEW i \in DOMAIN commits
               PROVE  commits[i].call \in Calls /\ Asked(i)' = Asked(i)
    OBVIOUS
  <2>1. commits[i] \in Commit
    BY DEF IInv, TypeOK
  <2>2. commits[i].call \in Calls
    BY <2>1 DEF Commit
  <2>3. Asked(i) # NoRequest
    BY DEF IInv, History, CommitsStored
  <2> QED BY <1>1, <2>2, <2>3 DEF Asked
<1>3. CommitsStored' /\ ResponsesReport' /\ AppliedAtMostOnce'
  <2> HIDE DEF Asked
  <2>1. CommitsStored /\ ResponsesReport /\ AppliedAtMostOnce
    BY DEF IInv, History
  <2> QED BY <1>1, <1>2, <2>1 DEF CommitsStored, ResponsesReport, AppliedAtMostOnce
<1>4. NoLostUpdate'
  BY <1>1, <1>2 DEF IInv, History, NoLostUpdate
<1> QED BY <1>3, <1>4 DEF History

\* A step of one call that leaves the database alone keeps what the others
\* rely on, as long as it does not take the write lock from one that writes.
LEMMA OthersKept ==
  ASSUME IInv, NEW c \in Calls, UNCHANGED <<db, request>>,
         \A q \in Calls : q # c =>
           /\ pc'[q] = pc[q] /\ result'[q] = result[q] /\ snapshot'[q] = snapshot[q]
           /\ pc[q] = "writing" => writer' = writer,
         CallOK(c)', TypeOK'
  PROVE  IInv'
<1>1. History'
  BY HistoryKept
<1>2. ASSUME NEW q \in Calls, q # c PROVE CallOK(q)'
  <2>1. CallOK(q)
    BY DEF IInv
  <2>2. versions' = versions /\ responses' = responses /\ commits' = commits /\ request' = request
    BY DEF db
  <2> QED BY <1>2, <2>1, <2>2 DEF CallOK, UpToDate, Stored
<1> QED BY <1>1, <1>2 DEF IInv

-----------------------------------------------------------------------------
(* Steps that leave the database alone *)

LEMMA FailureType ==
  ASSUME NEW kind \in Kinds
  PROVE  Failure(kind) \in Result /\ Failure(kind).kind = kind
BY DEF Failure, Result

\* The answer to a retry is the stored response, or an error.
LEMMA ReplayType ==
  ASSUME IInv, NEW c \in Calls, pc[c] # "unsent", Stored(c) # NoResponse
  PROVE  /\ Replay(c) \in Result
         /\ Replay(c).kind \in {"applied", "replayed"} =>
              /\ Replay(c).response = Stored(c)
              /\ Stored(c).op = request[c].op
<1>1. Stored(c) \in Response
  <2>1. request[c] # NoRequest
    BY DEF IInv, CallOK
  <2>2. request[c].id \in RequestIDs
    BY <2>1, RequestType
  <2> QED BY <2>2 DEF Stored, IInv, TypeOK
<1>2. Failure("key_reused") \in Result /\ Failure("key_reused").kind = "key_reused"
  BY FailureType DEF Kinds
<1> QED BY <1>1, <1>2 DEF Replay, Result, Kinds

LEMMA ResultDecides == Pending \notin Result
BY DEF Pending, Result, Kinds

\* A call gets its result.
LEMMA ReturnStep ==
  ASSUME IInv, NEW c \in Calls, NEW place \in {"leaving", "returned"}, NEW r \in Result,
         pc[c] # "unsent", Return(c, r), Goto(c, place),
         UNCHANGED <<db, writer, request, snapshot, gone, want, owner, crashes>>,
         r.kind \in {"applied", "replayed"} =>
           /\ r.response # NoResponse
           /\ Stored(c) = r.response
           /\ Stored(c).op = request[c].op
  PROVE  IInv'
<1>1. pc' = [pc EXCEPT ![c] = place] /\ result' = [result EXCEPT ![c] = r]
  BY DEF Return, Goto
<1>2. TypeOK'
  BY <1>1 DEF IInv, TypeOK, db
<1>3. pc'[c] = place /\ result'[c] = r
  BY <1>1 DEF IInv, TypeOK
<1>4. request[c] # NoRequest
  BY DEF IInv, CallOK
<1>5. CallOK(c)'
  BY <1>3, <1>4, ResultDecides DEF CallOK, Deciding, Stored, db
<1>6. \A q \in Calls : q # c => pc'[q] = pc[q] /\ result'[q] = result[q]
  BY <1>1 DEF IInv, TypeOK
<1> QED BY <1>2, <1>5, <1>6, OthersKept

LEMMA AnswerAtOnceStep == ASSUME IInv, NEW c \in Calls, AnswerAtOnce(c) PROVE IInv'
<1>1. /\ pc[c] # "unsent" /\ Stored(c) # NoResponse
      /\ Return(c, Replay(c)) /\ Goto(c, "returned")
      /\ UNCHANGED <<db, writer, request, snapshot, gone, want, owner, crashes>>
  BY DEF AnswerAtOnce
<1>2. /\ Replay(c) \in Result
      /\ Replay(c).kind \in {"applied", "replayed"} =>
           Replay(c).response = Stored(c) /\ Stored(c).op = request[c].op
  BY <1>1, ReplayType
<1> QED BY <1>1, <1>2, ReturnStep

LEMMA ReplayOrRefuseStep == ASSUME IInv, NEW c \in Calls, ReplayOrRefuse(c) PROVE IInv'
<1>1. /\ pc[c] # "unsent" /\ Goto(c, "leaving")
      /\ UNCHANGED <<db, writer, request, snapshot, gone, want, owner, crashes>>
  BY DEF ReplayOrRefuse
<1>2. CASE Stored(c) # NoResponse
  <2>1. Return(c, Replay(c))
    BY <1>2 DEF ReplayOrRefuse
  <2>2. /\ Replay(c) \in Result
        /\ Replay(c).kind \in {"applied", "replayed"} =>
             Replay(c).response = Stored(c) /\ Stored(c).op = request[c].op
    BY <1>1, <1>2, ReplayType
  <2> QED BY <1>1, <1>2, <2>1, <2>2, ReturnStep
<1>3. CASE Stored(c) = NoResponse
  <2>1. PICK kind \in Refusals(c) : Return(c, Failure(kind))
    BY <1>3 DEF ReplayOrRefuse
  <2>2. kind \in {"refused", "conflict"}
    BY DEF Refusals
  <2>3. Failure(kind) \in Result /\ Failure(kind).kind \notin {"applied", "replayed"}
    BY <2>2, FailureType DEF Kinds
  <2> QED BY <1>1, <2>1, <2>3, ReturnStep
<1> QED BY <1>2, <1>3

LEMMA FirstWriteBusyStep == ASSUME IInv, NEW c \in Calls, FirstWriteBusy(c) PROVE IInv'
<1>1. /\ pc[c] # "unsent" /\ Return(c, Failure("busy")) /\ Goto(c, "leaving")
      /\ UNCHANGED <<db, writer, request, snapshot, gone, want, owner, crashes>>
  BY DEF FirstWriteBusy
<1>2. Failure("busy") \in Result /\ Failure("busy").kind \notin {"applied", "replayed"}
  BY FailureType DEF Kinds
<1> QED BY <1>1, <1>2, ReturnStep

LEMMA CancelStep == ASSUME IInv, NEW c \in Calls, Cancel(c) PROVE IInv'
<1>1. /\ pc[c] # "unsent" /\ Return(c, Failure("cancelled"))
      /\ UNCHANGED <<db, writer, request, snapshot, gone, want, owner, crashes>>
  BY DEF Cancel
<1>2. Failure("cancelled") \in Result /\ Failure("cancelled").kind \notin {"applied", "replayed"}
  BY FailureType DEF Kinds
<1>3. PICK place \in {"leaving", "returned"} : Goto(c, place)
  BY DEF Cancel
<1> QED BY <1>1, <1>2, <1>3, ReturnStep

LEMMA SendStep ==
  ASSUME IInv, NEW c \in Calls, NEW r \in Requests, Send(c, r)
  PROVE  IInv'
<1>1. /\ pc[c] = "unsent" /\ request[c] = NoRequest /\ r # NoRequest
      /\ request' = [request EXCEPT ![c] = r] /\ pc' = [pc EXCEPT ![c] = "received"]
      /\ UNCHANGED <<db, writer, snapshot, result, gone, want, owner, crashes>>
  BY NullAssumption DEF IInv, CallOK, Send, Goto
<1>2. History'
  BY <1>1, HistoryKept DEF IInv, TypeOK
<1>3. TypeOK'
  BY <1>1 DEF IInv, TypeOK, db
<1>4. ASSUME NEW q \in Calls PROVE CallOK(q)'
  <2>1. CallOK(q) /\ CallOK(c)
    BY DEF IInv
  <2>2. CASE q = c
    <3>1. pc'[c] = "received" /\ request'[c] = r
      BY <1>1 DEF IInv, TypeOK
    <3> QED BY <1>1, <2>1, <2>2, <3>1 DEF CallOK, Deciding
  <2>3. CASE q # c
    <3>1. pc'[q] = pc[q] /\ request'[q] = request[q]
      BY <1>1, <2>3 DEF IInv, TypeOK
    <3> QED BY <1>1, <2>1, <3>1 DEF CallOK, UpToDate, Stored, db
  <2> QED BY <2>2, <2>3
<1> QED BY <1>2, <1>3, <1>4 DEF IInv

\* The lock, taken, had and left.
LEMMA LockStep ==
  ASSUME IInv, NEW c \in Calls, AskForLock(c) \/ EnterLock(c) \/ LeaveLock(c)
  PROVE  IInv'
<1>1. UNCHANGED <<db, writer, request, snapshot, result, gone, crashes>>
  BY DEF AskForLock, EnterLock, LeaveLock
<1>2. PICK place \in {"waiting", "locked", "returned"} :
        /\ pc' = [pc EXCEPT ![c] = place]
        /\ pc[c] # "unsent"
        /\ pc[c] \in Deciding <=> place \in Deciding
  BY DEF AskForLock, EnterLock, LeaveLock, Goto, Deciding
<1>3. request[c] # NoRequest
  BY <1>2 DEF IInv, CallOK
<1>4. LockKey(request[c]) \in Keys
  BY <1>3, RequestType
<1>5. /\ want' \in [Calls -> Keys \cup {NoKey}]
      /\ owner' \in [Keys -> Calls \cup {NoCall}]
  <2>1. PICK k \in Keys :
          \/ Mutex!Request(c, k)
          \/ Mutex!Enter(c, k)
          \/ Mutex!Leave(c, k)
    BY <1>4 DEF AskForLock, EnterLock, LeaveLock
  <2> QED BY <2>1 DEF IInv, TypeOK, Mutex!Request, Mutex!Enter, Mutex!Leave
<1>6. TypeOK'
  BY <1>1, <1>2, <1>5 DEF IInv, TypeOK, db
<1>7. pc'[c] = place /\ \A q \in Calls : q # c => pc'[q] = pc[q]
  BY <1>2 DEF IInv, TypeOK
<1>8. CallOK(c)'
  <2>1. CallOK(c)
    BY DEF IInv
  <2> QED BY <1>1, <1>2, <1>3, <1>7, <2>1 DEF CallOK, Stored, db, Deciding
<1> QED BY <1>1, <1>6, <1>7, <1>8, OthersKept

LEMMA AcceptStep == ASSUME IInv, NEW c \in Calls, Accept(c) PROVE IInv'
<1>1. /\ pc[c] = "locked" /\ Stored(c) = NoResponse
      /\ request[c].op # Create => versions[request[c].drill] # 0
      /\ request[c].op # Create => versions[request[c].drill] = request[c].expected
      /\ snapshot' = [snapshot EXCEPT ![c] = Snapshot(c)]
      /\ pc' = [pc EXCEPT ![c] = "accepted"]
      /\ UNCHANGED <<db, writer, request, result, gone, want, owner, crashes>>
  BY DEF Accept, Conflicts, Goto
<1>2. request[c] # NoRequest
  BY <1>1 DEF IInv, CallOK
<1>3. request[c].drill \in Drills
  BY <1>2, RequestType
<1>4. Len(commits) \in Nat
  BY DEF IInv, TypeOK
<1>5. Snapshot(c) \in [commits : Nat, version : Nat]
  BY <1>3, <1>4 DEF Snapshot, IInv, TypeOK
<1>6. TypeOK'
  BY <1>1, <1>5 DEF IInv, TypeOK, db
<1>7. /\ pc'[c] = "accepted" /\ snapshot'[c] = Snapshot(c)
      /\ \A q \in Calls : q # c => pc'[q] = pc[q] /\ snapshot'[q] = snapshot[q]
  BY <1>1 DEF IInv, TypeOK
<1>8. UpToDate(c)'
  BY <1>1, <1>7 DEF UpToDate, Stored, Snapshot, db
<1>9. CallOK(c)'
  <2>1. CallOK(c)
    BY DEF IInv
  <2>2. snapshot'[c].commits <= Len(commits')
    BY <1>1, <1>4, <1>7 DEF Snapshot, db
  <2> QED BY <1>1, <1>2, <1>7, <1>8, <2>1, <2>2 DEF CallOK, Stored, db, Deciding
<1> QED BY <1>1, <1>6, <1>7, <1>9, OthersKept

LEMMA FirstWriteStep == ASSUME IInv, NEW c \in Calls, FirstWrite(c) PROVE IInv'
<1>1. /\ pc[c] = "accepted" /\ writer = NoCall /\ snapshot[c].commits = Len(commits)
      /\ writer' = c /\ pc' = [pc EXCEPT ![c] = "writing"]
      /\ UNCHANGED <<db, request, snapshot, result, gone, want, owner, crashes>>
  BY DEF FirstWrite, MayWrite, Goto
<1>2. TypeOK'
  BY <1>1 DEF IInv, TypeOK, db
<1>3. pc'[c] = "writing" /\ \A q \in Calls : q # c => pc'[q] = pc[q]
  BY <1>1 DEF IInv, TypeOK
<1>4. \A q \in Calls : pc[q] # "writing"
  BY <1>1, NullAssumption DEF IInv, CallOK
<1>5. CallOK(c)'
  <2>1. CallOK(c)
    BY DEF IInv
  <2> QED BY <1>1, <1>3, <2>1 DEF CallOK, UpToDate, Stored, db, Deciding
<1> QED BY <1>1, <1>2, <1>3, <1>4, <1>5, OthersKept

\* Rollbacks and clients that leave.
LEMMA BackgroundStep ==
  ASSUME IInv, NEW c \in Calls, Rollback(c) \/ Disconnect(c)
  PROVE  IInv'
<1>1. UNCHANGED <<db, request, pc, snapshot, result, want, owner, crashes>>
  BY DEF Rollback, Disconnect
<1>2. TypeOK'
  BY <1>1 DEF IInv, TypeOK, db, Rollback, Disconnect
<1>3. \A q \in Calls : pc[q] = "writing" => writer' = writer
  BY DEF IInv, CallOK, Rollback, Disconnect
<1>4. CallOK(c)'
  <2>1. CallOK(c)
    BY DEF IInv
  <2> QED BY <1>1, <1>3, <2>1 DEF CallOK, UpToDate, Stored, db
<1> QED BY <1>1, <1>2, <1>3, <1>4, OthersKept

LEMMA CrashStep == ASSUME IInv, Crash PROVE IInv'
<1>1. /\ pc' = [c \in Calls |-> IF InProcess(c) THEN "returned" ELSE pc[c]]
      /\ result' = [c \in Calls |-> IF InProcess(c) /\ result[c] = Pending
                                    THEN Failure("lost") ELSE result[c]]
      /\ UNCHANGED <<db, request, snapshot, gone>>
  BY DEF Crash
<1>2. Failure("lost") \in Result /\ Failure("lost").kind = "lost"
  BY FailureType DEF Kinds
<1>3. TypeOK'
  <2>1. crashes' \in 0..MaxCrashes /\ writer' = NoCall
    BY CrashAssumption DEF Crash, IInv, TypeOK
  <2>2. want' \in [Calls -> Keys \cup {NoKey}] /\ owner' \in [Keys -> Calls \cup {NoCall}]
    BY DEF Crash
  <2> QED BY <1>1, <1>2, <2>1, <2>2 DEF IInv, TypeOK, db
<1>4. History'
  BY <1>1, HistoryKept
<1>5. ASSUME NEW c \in Calls PROVE CallOK(c)'
  <2>1. CallOK(c)
    BY DEF IInv
  <2>2. /\ pc'[c] = IF InProcess(c) THEN "returned" ELSE pc[c]
        /\ result'[c] = IF InProcess(c) /\ result[c] = Pending THEN Failure("lost") ELSE result[c]
    BY <1>1
  <2>3. pc'[c] \in {"unsent", "returned"} /\ (pc'[c] = "unsent" <=> pc[c] = "unsent")
    BY <2>2 DEF InProcess
  <2>4. result'[c] = Pending <=> pc'[c] = "unsent"
    BY <1>2, <2>1, <2>2, ResultDecides DEF CallOK, InProcess, Deciding
  <2>5. result'[c].kind \in {"applied", "replayed"} => result'[c] = result[c]
    BY <1>2, <2>2
  <2> QED BY <1>1, <2>1, <2>3, <2>4, <2>5 DEF CallOK, Stored, db, Deciding
<1> QED BY <1>3, <1>4, <1>5 DEF IInv

-----------------------------------------------------------------------------
(* The commit *)

\* What a commit does to the database, and that the call which commits knew
\* the drill's version.
LEMMA CommitEffect ==
  ASSUME IInv, NEW c \in Calls, CommitTx(c)
  PROVE  \E d \in Drills :
    LET v == versions[d] + 1
        response == [op |-> request[c].op, drill |-> d, version |-> v]
    IN /\ pc[c] = "writing" /\ writer = c /\ UpToDate(c)
       /\ request[c] # NoRequest
       /\ IF request[c].op = Create THEN versions[d] = 0
          ELSE /\ d = request[c].drill
               /\ versions[d] = request[c].expected /\ versions[d] # 0
       /\ versions' = [versions EXCEPT ![d] = v]
       /\ commits' = Append(commits, [call |-> c, drill |-> d, version |-> v])
       /\ responses' = [responses EXCEPT ![request[c].id] = response]
       /\ result' = [result EXCEPT ![c] = [kind |-> "applied", response |-> response]]
       /\ pc' = [pc EXCEPT ![c] = "leaving"]
       /\ writer' = NoCall
       /\ UNCHANGED <<request, snapshot, gone, want, owner, crashes>>
<1>1. pc[c] = "writing"
  BY DEF CommitTx
<1>2. writer = c /\ UpToDate(c) /\ request[c] # NoRequest
  BY <1>1 DEF IInv, CallOK
<1>3. PICK d \in Targets(c) : Recorded(c, d)
  BY DEF CommitTx
<1>4. d \in Drills
  BY <1>2, <1>3, RequestType DEF Targets
<1>5. /\ IF request[c].op = Create THEN versions[d] = 0
         ELSE /\ d = request[c].drill
              /\ versions[d] = request[c].expected /\ versions[d] # 0
      /\ snapshot[c].version = versions[d]
  BY <1>2, <1>3 DEF Targets, UpToDate
<1> DEFINE response == [op |-> request[c].op, drill |-> d, version |-> versions[d] + 1]
<1>6. /\ versions' = [versions EXCEPT ![d] = versions[d] + 1]
      /\ commits' = Append(commits, [call |-> c, drill |-> d, version |-> versions[d] + 1])
      /\ result' = [result EXCEPT ![c] = [kind |-> "applied", response |-> response]]
  BY <1>3, <1>5 DEF Recorded, Return
<1>7. result'[c].response = response
  BY <1>6 DEF IInv, TypeOK
<1>8. /\ responses' = [responses EXCEPT ![request[c].id] = response]
      /\ pc' = [pc EXCEPT ![c] = "leaving"]
      /\ writer' = NoCall
      /\ UNCHANGED <<request, snapshot, gone, want, owner, crashes>>
  BY <1>7 DEF CommitTx, Goto
<1> QED BY <1>1, <1>2, <1>4, <1>5, <1>6, <1>8

LEMMA CommitStep == ASSUME IInv, NEW c \in Calls, CommitTx(c) PROVE IInv'
<1>1. PICK d \in Drills :
    LET v == versions[d] + 1
        response == [op |-> request[c].op, drill |-> d, version |-> v]
    IN /\ pc[c] = "writing" /\ writer = c /\ UpToDate(c)
       /\ request[c] # NoRequest
       /\ IF request[c].op = Create THEN versions[d] = 0
          ELSE /\ d = request[c].drill
               /\ versions[d] = request[c].expected /\ versions[d] # 0
       /\ versions' = [versions EXCEPT ![d] = v]
       /\ commits' = Append(commits, [call |-> c, drill |-> d, version |-> v])
       /\ responses' = [responses EXCEPT ![request[c].id] = response]
       /\ result' = [result EXCEPT ![c] = [kind |-> "applied", response |-> response]]
       /\ pc' = [pc EXCEPT ![c] = "leaving"]
       /\ writer' = NoCall
       /\ UNCHANGED <<request, snapshot, gone, want, owner, crashes>>
  BY CommitEffect
<1>2. PICK v \in Nat : v = versions[d] + 1
  BY DEF IInv, TypeOK
<1>3. PICK n \in Nat : n = Len(commits)
  BY DEF IInv, TypeOK
<1>4. /\ request[c] \in Requests /\ request[c].id \in RequestIDs
      /\ request[c].op \in Operations
  BY <1>1, RequestType
<1>5. PICK id \in RequestIDs : id = request[c].id
  BY <1>4
<1>6. PICK response \in Response :
        /\ response = [op |-> request[c].op, drill |-> d, version |-> v]
        /\ response # NoResponse
  <2>1. [op |-> request[c].op, drill |-> d, version |-> v] \in Response
    BY <1>2, <1>4 DEF Response
  <2>2. NoResponse \notin Response
    BY NullAssumption DEF Response
  <2> QED BY <2>1, <2>2
<1>7. PICK new \in Commit : new = [call |-> c, drill |-> d, version |-> v]
  BY <1>2 DEF Commit
<1>8. /\ versions' = [versions EXCEPT ![d] = v]
      /\ commits' = Append(commits, new)
      /\ responses' = [responses EXCEPT ![id] = response]
      /\ result' = [result EXCEPT ![c] = [kind |-> "applied", response |-> response]]
  BY <1>1, <1>2, <1>5, <1>6, <1>7
<1>9. /\ DOMAIN commits = 1..n /\ DOMAIN commits' = 1..(n + 1) /\ Len(commits') = n + 1
      /\ commits'[n + 1] = new
      /\ \A i \in 1..n : commits'[i] = commits[i] /\ commits[i] \in Commit
  BY <1>3, <1>8 DEF IInv, TypeOK
<1>10. /\ Asked(n + 1)' = request[c]
       /\ \A i \in 1..n : Asked(i)' = Asked(i)
  BY <1>1, <1>7, <1>9 DEF Asked, Commit
<1>11. /\ responses[id] = NoResponse /\ responses'[id] = response
       /\ \A o \in RequestIDs : o # id => responses'[o] = responses[o]
  BY <1>1, <1>5, <1>8 DEF UpToDate, Stored, IInv, TypeOK
<1>12. /\ versions'[d] = v /\ versions[d] \in Nat
       /\ \A e \in Drills : e # d => versions'[e] = versions[e]
  BY <1>8 DEF IInv, TypeOK
<1>13. \A i \in 1..n : /\ Asked(i).id \in RequestIDs /\ Asked(i).id # id
                       /\ commits[i].version \in Nat /\ commits[i].drill \in Drills
                       /\ commits[i].version <= versions[commits[i].drill]
  <2> SUFFICES ASSUME NEW i \in 1..n
               PROVE  /\ Asked(i).id \in RequestIDs /\ Asked(i).id # id
                      /\ commits[i].version \in Nat /\ commits[i].drill \in Drills
                      /\ commits[i].version <= versions[commits[i].drill]
    OBVIOUS
  <2>1. /\ Asked(i) # NoRequest /\ responses[Asked(i).id] # NoResponse
        /\ commits[i].version <= versions[commits[i].drill]
    BY <1>9 DEF IInv, History, CommitsStored
  <2>2. commits[i].call \in Calls /\ commits[i].version \in Nat /\ commits[i].drill \in Drills
    BY <1>9 DEF Commit
  <2>3. Asked(i).id \in RequestIDs
    BY <2>1, <2>2, RequestType DEF Asked
  <2> QED BY <1>11, <2>1, <2>2, <2>3
<1>14. TypeOK'
  <2>1. commits' \in Seq(Commit)
    BY <1>8 DEF IInv, TypeOK
  <2>2. [kind |-> "applied", response |-> response] \in Result
    BY DEF Result, Kinds
  <2>3. result' \in [Calls -> Result \cup {Pending}]
    BY <1>8, <2>2 DEF IInv, TypeOK
  <2>4. versions' \in [Drills -> Nat] /\ responses' \in [RequestIDs -> Response \cup {NoResponse}]
    BY <1>8 DEF IInv, TypeOK
  <2>5. pc' \in [Calls -> {"unsent", "received", "waiting", "locked", "accepted",
                         "writing", "leaving", "returned"}]
    BY <1>1 DEF IInv, TypeOK
  <2> QED BY <1>1, <2>1, <2>3, <2>4, <2>5 DEF IInv, TypeOK
<1>15. CommitsStored'
  <2> SUFFICES ASSUME NEW i \in 1..(n + 1)
               PROVE  /\ Asked(i)' # NoRequest
                      /\ responses'[Asked(i)'.id] # NoResponse
                      /\ commits'[i].version <= versions'[commits'[i].drill]
    BY <1>9 DEF CommitsStored
  <2>1. CASE i = n + 1
    BY <1>1, <1>5, <1>6, <1>7, <1>9, <1>10, <1>11, <1>12, <2>1
  <2>2. CASE i \in 1..n
    <3>1. Asked(i) # NoRequest /\ responses[Asked(i).id] # NoResponse
      BY <1>9, <2>2 DEF IInv, History, CommitsStored
    <3>2. responses'[Asked(i)'.id] # NoResponse
      BY <1>10, <1>11, <1>13, <2>2, <3>1
    <3>3. commits'[i].version <= versions'[commits'[i].drill]
      BY <1>2, <1>9, <1>12, <1>13, <2>2
    <3> QED BY <1>10, <2>2, <3>1, <3>2, <3>3
  <2> QED BY <2>1, <2>2
<1>16. ResponsesReport'
  <2> SUFFICES ASSUME NEW o \in RequestIDs, responses'[o] # NoResponse
               PROVE  \E i \in 1..(n + 1) :
                        /\ Asked(i)'.id = o
                        /\ Asked(i)'.op = responses'[o].op
                        /\ commits'[i].drill = responses'[o].drill
                        /\ commits'[i].version = responses'[o].version
    BY <1>9 DEF ResponsesReport
  <2>1. CASE o = id
    <3>1. n + 1 \in 1..(n + 1)
      OBVIOUS
    <3> QED BY <1>5, <1>6, <1>7, <1>9, <1>10, <1>11, <2>1, <3>1
  <2>2. CASE o # id
    <3>1. responses'[o] = responses[o]
      BY <1>11, <2>2
    <3>2. PICK i \in 1..n : /\ Asked(i).id = o
                            /\ Asked(i).op = responses[o].op
                            /\ commits[i].drill = responses[o].drill
                            /\ commits[i].version = responses[o].version
      BY <1>9, <3>1 DEF IInv, History, ResponsesReport
    <3>3. i \in 1..(n + 1)
      OBVIOUS
    <3> QED BY <1>9, <1>10, <3>1, <3>2, <3>3
  <2> QED BY <2>1, <2>2
<1>17. AppliedAtMostOnce'
  <2> SUFFICES ASSUME NEW i \in 1..(n + 1), NEW j \in 1..(n + 1), Asked(i)'.id = Asked(j)'.id
               PROVE  i = j
    BY <1>9 DEF AppliedAtMostOnce
  <2>1. CASE i \in 1..n /\ j \in 1..n
    BY <1>9, <1>10, <2>1 DEF IInv, History, AppliedAtMostOnce
  <2>2. CASE i = n + 1 \/ j = n + 1
    BY <1>5, <1>10, <1>13, <2>2
  <2> QED BY <2>1, <2>2
<1>18. NoLostUpdate'
  <2> DEFINE First(e) == IF e \in Existing THEN 1 ELSE 0
             Of(e) == {i \in 1..n : commits[i].drill = e}
             OfNext(e) == {i \in 1..(n + 1) : commits'[i].drill = e}
  <2> SUFFICES ASSUME NEW e \in Drills
               PROVE  /\ versions'[e] = First(e) + Cardinality(OfNext(e))
                      /\ \A i, j \in OfNext(e) : i < j => commits'[i].version < commits'[j].version
                      /\ \A i \in OfNext(e) : Asked(i)'.op # Create =>
                           /\ commits'[i].drill = Asked(i)'.drill
                           /\ commits'[i].version = Asked(i)'.expected + 1
    BY <1>9 DEF NoLostUpdate
  <2>1. /\ versions[e] = First(e) + Cardinality(Of(e))
        /\ \A i, j \in Of(e) : i < j => commits[i].version < commits[j].version
        /\ \A i \in Of(e) : Asked(i).op # Create =>
             commits[i].drill = Asked(i).drill /\ commits[i].version = Asked(i).expected + 1
    BY <1>9 DEF IInv, History, NoLostUpdate
  <2>2. OfNext(e) = IF e = d THEN Of(e) \cup {n + 1} ELSE Of(e)
    BY <1>7, <1>9
  <2>3. IsFiniteSet(Of(e)) /\ Cardinality(Of(e)) \in Nat
    <3>1. IsFiniteSet(1..n) /\ Of(e) \subseteq 1..n
      BY FS_Interval
    <3> QED BY <3>1, FS_Subset, FS_CardinalityType
  <2>4. versions'[e] = First(e) + Cardinality(OfNext(e))
    <3>1. n + 1 \notin Of(e)
      OBVIOUS
    <3>2. Cardinality(Of(e) \cup {n + 1}) = Cardinality(Of(e)) + 1
      <4> HIDE DEF Of
      <4> QED BY <2>3, <3>1, FS_AddElement
    <3> HIDE DEF Of, OfNext
    <3> QED BY <1>2, <1>12, <2>1, <2>2, <2>3, <3>2
  <2>5. ASSUME NEW i \in OfNext(e), NEW j \in OfNext(e), i < j
        PROVE  commits'[i].version < commits'[j].version
    <3>1. CASE j \in 1..n
      BY <1>9, <2>1, <2>5, <3>1
    <3>2. CASE j = n + 1
      <4>1. i \in 1..n /\ commits[i].drill = d /\ commits'[j].version = v
        BY <1>7, <1>9, <2>5, <3>2
      <4> QED BY <1>2, <1>9, <1>12, <1>13, <4>1
    <3> QED BY <3>1, <3>2
  <2>6. ASSUME NEW i \in OfNext(e), Asked(i)'.op # Create
        PROVE  /\ commits'[i].drill = Asked(i)'.drill
               /\ commits'[i].version = Asked(i)'.expected + 1
    <3>1. CASE i \in 1..n
      BY <1>9, <1>10, <2>1, <2>6, <3>1
    <3>2. CASE i = n + 1
      BY <1>1, <1>2, <1>7, <1>9, <1>10, <2>6, <3>2
    <3> QED BY <3>1, <3>2
  <2> QED BY <2>4, <2>5, <2>6
<1>19. ASSUME NEW q \in Calls PROVE CallOK(q)'
  <2>1. CallOK(q) /\ CallOK(c)
    BY DEF IInv
  <2>2. CASE q = c
    <3>1. pc'[c] = "leaving" /\ result'[c] = [kind |-> "applied", response |-> response]
      BY <1>1, <1>8 DEF IInv, TypeOK
    <3>2. result'[c] # Pending
      BY <3>1 DEF Pending
    <3>3. Stored(c)' = response /\ response.op = request'[c].op
      BY <1>1, <1>5, <1>6, <1>11 DEF Stored
    <3> QED BY <1>1, <1>6, <2>2, <3>1, <3>2, <3>3 DEF CallOK, Deciding
  <2>3. CASE q # c
    <3>1. /\ pc'[q] = pc[q] /\ result'[q] = result[q]
          /\ request' = request /\ snapshot' = snapshot
      BY <1>1, <1>8, <2>3 DEF IInv, TypeOK
    <3>2. pc[q] # "writing"
      BY <1>1, <2>1, <2>3 DEF CallOK
    <3>3. pc[q] = "accepted" => snapshot[q].commits <= n /\ snapshot[q].commits \in Nat
      BY <1>3, <2>1 DEF CallOK, IInv, TypeOK
    <3>4. result[q].kind \in {"applied", "replayed"} => Stored(q)' = Stored(q)
      <4> HAVE result[q].kind \in {"applied", "replayed"}
      <4>1. Stored(q) # NoResponse /\ request[q] # NoRequest
        BY <2>1 DEF CallOK
      <4>2. request[q].id \in RequestIDs
        BY <4>1, RequestType
      <4> QED BY <1>11, <3>1, <4>1, <4>2 DEF Stored
    <3> QED BY <1>3, <1>9, <2>1, <3>1, <3>2, <3>3, <3>4 DEF CallOK, Deciding
  <2> QED BY <2>2, <2>3
<1> QED BY <1>14, <1>15, <1>16, <1>17, <1>18, <1>19 DEF IInv, History

-----------------------------------------------------------------------------
(* Every step *)

LEMMA StutterStep == ASSUME IInv, UNCHANGED vars PROVE IInv'
<1>1. History'
  <2>1. UNCHANGED db /\ request' = request
    BY DEF vars, db
  <2> QED BY <2>1, HistoryKept
<1>2. TypeOK'
  BY DEF IInv, TypeOK, vars, db
<1>3. \A c \in Calls : CallOK(c)'
  BY DEF IInv, CallOK, UpToDate, Stored, vars, db
<1> QED BY <1>1, <1>2, <1>3 DEF IInv

LEMMA NextIInv == IInv /\ [Next]_vars => IInv'
<1> SUFFICES ASSUME IInv, [Next]_vars PROVE IInv'
  OBVIOUS
<1>1. ASSUME NEW c \in Calls, NEW r \in Requests, Send(c, r) PROVE IInv'
  BY <1>1, SendStep
<1>2. ASSUME NEW c \in Calls, Step(c) PROVE IInv'
  <2>1. CASE AnswerAtOnce(c)
    BY <2>1, AnswerAtOnceStep
  <2>2. CASE AskForLock(c) \/ EnterLock(c) \/ LeaveLock(c)
    BY <2>2, LockStep
  <2>3. CASE ReplayOrRefuse(c)
    BY <2>3, ReplayOrRefuseStep
  <2>4. CASE Accept(c)
    BY <2>4, AcceptStep
  <2>5. CASE FirstWrite(c)
    BY <2>5, FirstWriteStep
  <2>6. CASE FirstWriteBusy(c)
    BY <2>6, FirstWriteBusyStep
  <2>7. CASE CommitTx(c)
    BY <2>7, CommitStep
  <2>8. CASE Rollback(c)
    BY <2>8, BackgroundStep
  <2> QED BY <1>2, <2>1, <2>2, <2>3, <2>4, <2>5, <2>6, <2>7, <2>8 DEF Step
<1>3. ASSUME NEW c \in Calls, Disconnect(c) PROVE IInv'
  BY <1>3, BackgroundStep
<1>4. ASSUME NEW c \in Calls, Cancel(c) PROVE IInv'
  BY <1>4, CancelStep
<1>5. CASE Crash
  BY <1>5, CrashStep
<1>6. CASE UNCHANGED vars
  BY <1>6, StutterStep
<1> QED BY <1>1, <1>2, <1>3, <1>4, <1>5, <1>6 DEF Next

-----------------------------------------------------------------------------
(* Each step is one of AtomicCommands, or changes nothing it shows *)

LEMMA CallUndecided ==
  ASSUME IInv, NEW c \in Calls, pc[c] \in Deciding, pc[c] # "unsent"
  PROVE  Atomic!Undecided(c)
BY DEF IInv, CallOK, Atomic!Undecided

LEMMA RetryIsAtomic ==
  ASSUME IInv, NEW c \in Calls, pc[c] \in {"received", "locked"}, Stored(c) # NoResponse,
         Return(c, Replay(c)), UNCHANGED <<db, request>>
  PROVE  Atomic!AtomicNext
<1>1. Atomic!Undecided(c)
  BY CallUndecided DEF Deciding
<1>2. Atomic!AnswerRetry(c)
  BY <1>1 DEF Atomic!AnswerRetry, Atomic!Decide, Atomic!First, Atomic!Fails,
              Return, Replay, Stored, Failure, db
<1> QED BY <1>2 DEF Atomic!AtomicNext

LEMMA FailureIsAtomic ==
  ASSUME IInv, NEW c \in Calls, pc[c] \in Deciding, pc[c] # "unsent",
         NEW kind \in {"busy", "cancelled"}, Return(c, Failure(kind)), UNCHANGED <<db, request>>
  PROVE  Atomic!AtomicNext
<1>1. Atomic!Undecided(c)
  BY CallUndecided
<1>2. Atomic!Fail(c)
  BY <1>1 DEF Atomic!Fail, Atomic!Decide, Atomic!Fails, Return, Failure, db
<1> QED BY <1>2 DEF Atomic!AtomicNext

LEMMA VerdictIsAtomic ==
  ASSUME IInv, NEW c \in Calls, ReplayOrRefuse(c)
  PROVE  Atomic!AtomicNext
<1>1. pc[c] = "locked" /\ UNCHANGED <<db, request>>
  BY DEF ReplayOrRefuse
<1>2. CASE Stored(c) # NoResponse
  BY <1>1, <1>2, RetryIsAtomic DEF ReplayOrRefuse
<1>3. CASE Stored(c) = NoResponse
  <2>1. PICK kind \in Refusals(c) : Return(c, Failure(kind))
    BY <1>3 DEF ReplayOrRefuse
  <2>2. Atomic!Undecided(c) /\ Atomic!First(c) = NoResponse
    BY <1>1, <1>3, CallUndecided DEF Deciding, Atomic!First, Stored
  <2>3. Atomic!Decide(c, Atomic!Fails(kind))
    BY <1>1, <2>1, <2>2 DEF Atomic!Decide, Atomic!Fails, Return, Failure, db
  <2>4. CASE kind = "refused"
    BY <2>2, <2>3, <2>4 DEF Atomic!RejectByRule, Atomic!AtomicNext
  <2>5. CASE kind = "conflict"
    <3>1. Conflicts(c)
      BY <2>5 DEF Refusals
    <3> QED BY <2>2, <2>3, <2>5, <3>1 DEF Conflicts, Atomic!RejectConflict, Atomic!AtomicNext
  <2> QED BY <2>4, <2>5 DEF Refusals
<1> QED BY <1>2, <1>3

LEMMA CommitIsAtomic ==
  ASSUME IInv, NEW c \in Calls, CommitTx(c)
  PROVE  Atomic!AtomicNext
<1>1. PICK d \in Drills :
    LET v == versions[d] + 1
        response == [op |-> request[c].op, drill |-> d, version |-> v]
    IN /\ pc[c] = "writing" /\ writer = c /\ UpToDate(c)
       /\ request[c] # NoRequest
       /\ IF request[c].op = Create THEN versions[d] = 0
          ELSE /\ d = request[c].drill
               /\ versions[d] = request[c].expected /\ versions[d] # 0
       /\ versions' = [versions EXCEPT ![d] = v]
       /\ commits' = Append(commits, [call |-> c, drill |-> d, version |-> v])
       /\ responses' = [responses EXCEPT ![request[c].id] = response]
       /\ result' = [result EXCEPT ![c] = [kind |-> "applied", response |-> response]]
       /\ pc' = [pc EXCEPT ![c] = "leaving"]
       /\ writer' = NoCall
       /\ UNCHANGED <<request, snapshot, gone, want, owner, crashes>>
  BY CommitEffect
<1>2. Atomic!Undecided(c) /\ Atomic!First(c) = NoResponse
  BY <1>1, CallUndecided DEF Deciding, UpToDate, Stored, Atomic!First
<1>3. versions[d] \in Nat
  BY DEF IInv, TypeOK
<1>4. Atomic!Apply(c, d)
  BY <1>1, <1>2, <1>3 DEF Atomic!Apply
<1> QED BY <1>4 DEF Atomic!AtomicNext

LEMMA CrashIsAtomic == ASSUME IInv, Crash PROVE Atomic!AtomicNext
<1> DEFINE S == {c \in Calls : InProcess(c) /\ result[c] = Pending}
<1>1. \A c \in S : Atomic!Undecided(c)
  BY DEF InProcess, IInv, CallOK, Atomic!Undecided
<1>2. result' = [c \in Calls |-> IF c \in S THEN Atomic!Fails("lost") ELSE result[c]]
  BY DEF Crash, Failure, Atomic!Fails
<1>3. UNCHANGED <<versions, responses, commits, request>>
  BY DEF Crash, db
<1>4. S \in SUBSET {c \in Calls : Atomic!Undecided(c)}
  BY <1>1
<1> HIDE DEF S
<1>5. Atomic!Lose
  BY <1>2, <1>3, <1>4 DEF Atomic!Lose
<1> QED BY <1>5 DEF Atomic!AtomicNext

LEMMA StepIsAtomic ==
  IInv /\ [Next]_vars => [Atomic!AtomicNext]_(Atomic!promised)
<1> SUFFICES ASSUME IInv, [Next]_vars
             PROVE  Atomic!AtomicNext \/ UNCHANGED <<versions, responses, commits, request, result>>
  BY DEF Atomic!promised
<1>1. ASSUME NEW c \in Calls, NEW r \in Requests, Send(c, r) PROVE Atomic!AtomicNext
  <2>1. request[c] = NoRequest
    BY <1>1 DEF IInv, CallOK, Send
  <2>2. Atomic!Arrive(c, r)
    BY <1>1, <2>1 DEF Atomic!Arrive, Send, db
  <2> QED BY <2>2 DEF Atomic!AtomicNext
<1>2. ASSUME NEW c \in Calls, AnswerAtOnce(c) PROVE Atomic!AtomicNext
  BY <1>2, RetryIsAtomic DEF AnswerAtOnce
<1>3. ASSUME NEW c \in Calls, ReplayOrRefuse(c) PROVE Atomic!AtomicNext
  BY <1>3, VerdictIsAtomic
<1>4. ASSUME NEW c \in Calls, FirstWriteBusy(c) PROVE Atomic!AtomicNext
  BY <1>4, FailureIsAtomic DEF FirstWriteBusy, Deciding
<1>5. ASSUME NEW c \in Calls, Cancel(c) PROVE Atomic!AtomicNext
  BY <1>5, FailureIsAtomic DEF Cancel, Deciding
<1>6. ASSUME NEW c \in Calls, CommitTx(c) PROVE Atomic!AtomicNext
  BY <1>6, CommitIsAtomic
<1>7. ASSUME NEW c \in Calls,
             AskForLock(c) \/ EnterLock(c) \/ LeaveLock(c) \/ Accept(c) \/ FirstWrite(c)
               \/ Rollback(c) \/ Disconnect(c)
      PROVE  UNCHANGED <<versions, responses, commits, request, result>>
  BY <1>7 DEF AskForLock, EnterLock, LeaveLock, Accept, FirstWrite, Rollback, Disconnect, db
<1>8. CASE Crash
  BY <1>8, CrashIsAtomic
<1>9. CASE UNCHANGED vars
  BY <1>9 DEF vars, db
<1> QED BY <1>1, <1>2, <1>3, <1>4, <1>5, <1>6, <1>7, <1>8, <1>9 DEF Next, Step

-----------------------------------------------------------------------------
(* What the mutexes add *)

Holding == {"locked", "accepted", "writing", "leaving"}

\* A call that is past EnterLock has its key.
LockHeld == \A c \in Calls : pc[c] \in Holding => owner[LockKey(request[c])] = c

\* The write lock is with a transaction, or waits for a rollback.
WriterKnown == writer # NoCall => pc[writer] = "writing" \/ writer \in gone

\* Commits that a transaction does not see are not related to it.
UnseenUnrelated ==
  \A c \in Calls : pc[c] = "accepted" =>
    \A i \in snapshot[c].commits + 1 .. Len(commits) : ~Related(Asked(i), request[c])

LockInv == LockHeld /\ WriterKnown /\ UnseenUnrelated /\ RetryIsNotRefused

LEMMA SameKey ==
  ASSUME NEW r, NEW s, Related(r, s)
  PROVE  LockKey(r) = LockKey(s)
BY DEF Related, LockKey

\* Of two related calls at most one is past EnterLock.
LEMMA Exclusion ==
  ASSUME LockHeld, NEW c \in Calls, NEW q \in Calls, pc[c] \in Holding, pc[q] \in Holding,
         Related(request[c], request[q])
  PROVE  c = q
BY SameKey DEF LockHeld

LEMMA InitLockInv == Init => LockInv
BY DEF Init, LockInv, LockHeld, WriterKnown, UnseenUnrelated, RetryIsNotRefused, Holding

\* The request of a commit is one that was sent.
LEMMA AskedKept ==
  ASSUME IInv, \A c \in Calls : request[c] # NoRequest => request'[c] = request[c],
         NEW i \in DOMAIN commits, commits'[i] = commits[i]
  PROVE  Asked(i)' = Asked(i) /\ Asked(i) # NoRequest /\ commits[i].call \in Calls
<1>1. commits[i].call \in Calls
  <2>1. commits[i] \in Commit
    BY DEF IInv, TypeOK
  <2> QED BY <2>1 DEF Commit
<1>2. Asked(i) # NoRequest
  BY DEF IInv, History, CommitsStored
<1> QED BY <1>1, <1>2 DEF Asked

\* While nothing is committed: a transaction that begins sees all commits, and
\* a call that is refused has found no response for its id.
LEMMA VerdictsKept ==
  ASSUME IInv, LockInv, commits' = commits,
         \A c \in Calls : request[c] # NoRequest => request'[c] = request[c],
         \A c \in Calls : pc'[c] = "accepted" =>
           \/ pc[c] = "locked" /\ snapshot'[c].commits = Len(commits)
           \/ pc[c] = "accepted" /\ snapshot'[c] = snapshot[c],
         \A c \in Calls : pc'[c] = "leaving" /\ result'[c].kind \in {"conflict", "refused"} =>
           \/ pc[c] = "locked" /\ Stored(c) = NoResponse
           \/ pc[c] = "leaving" /\ result'[c] = result[c]
  PROVE  UnseenUnrelated' /\ RetryIsNotRefused'
<1>1. Len(commits) \in Nat /\ DOMAIN commits = 1..Len(commits)
  BY DEF IInv, TypeOK
<1>2. \A i \in DOMAIN commits : Asked(i)' = Asked(i) /\ Asked(i) # NoRequest
  BY AskedKept
<1>3. ASSUME NEW c \in Calls, pc[c] # "unsent" PROVE request[c] # NoRequest /\ request'[c] = request[c]
  BY <1>3 DEF IInv, CallOK
<1>4. ASSUME NEW c \in Calls, pc'[c] = "accepted",
             NEW i \in snapshot'[c].commits + 1 .. Len(commits')
      PROVE  ~Related(Asked(i)', request'[c])
  <2>1. CASE snapshot'[c].commits = Len(commits)
    BY <1>1, <1>4, <2>1
  <2>2. CASE pc[c] = "accepted" /\ snapshot'[c] = snapshot[c]
    <3>1. i \in snapshot[c].commits + 1 .. Len(commits) /\ snapshot[c].commits \in Nat
      BY <1>4, <2>2 DEF IInv, TypeOK
    <3>2. i \in DOMAIN commits
      BY <1>1, <3>1
    <3>3. ~Related(Asked(i), request[c])
      BY <2>2, <3>1 DEF LockInv, UnseenUnrelated
    <3> QED BY <1>2, <1>3, <2>2, <3>2, <3>3
  <2> QED BY <1>4, <2>1, <2>2
<1>5. ASSUME NEW c \in Calls, pc'[c] = "leaving", result'[c].kind \in {"conflict", "refused"},
             NEW i \in DOMAIN commits
      PROVE  ~(Asked(i)'.id = request'[c].id /\ Related(Asked(i)', request'[c]))
  <2>1. CASE pc[c] = "locked" /\ Stored(c) = NoResponse
    <3>1. Asked(i).id # request[c].id
      BY <2>1 DEF IInv, History, CommitsStored, Stored
    <3> QED BY <1>2, <1>3, <2>1, <3>1
  <2>2. CASE pc[c] = "leaving" /\ result'[c] = result[c]
    <3>1. ~(Asked(i).id = request[c].id /\ Related(Asked(i), request[c]))
      BY <1>5, <2>2 DEF LockInv, RetryIsNotRefused
    <3> QED BY <1>2, <1>3, <2>2, <3>1
  <2> QED BY <1>5, <2>1, <2>2
<1> QED BY <1>4, <1>5 DEF UnseenUnrelated, RetryIsNotRefused

\* The steps that leave the coordinator and the database alone.
LEMMA QuietLockInv ==
  ASSUME IInv, LockInv, NEW c \in Calls,
         \/ \E r \in Requests : Send(c, r)
         \/ AnswerAtOnce(c) \/ ReplayOrRefuse(c) \/ Accept(c) \/ FirstWrite(c) \/ FirstWriteBusy(c)
         \/ Disconnect(c) \/ Cancel(c) \/ Rollback(c) \/ UNCHANGED vars
  PROVE  LockInv'
<1>1. commits' = commits /\ owner' = owner
  BY DEF Send, AnswerAtOnce, ReplayOrRefuse, Accept, FirstWrite, FirstWriteBusy, Disconnect,
         Cancel, Rollback, vars, db
<1>2. \A q \in Calls : request[q] # NoRequest => request'[q] = request[q]
  <2>1. pc[c] = "unsent" => request[c] = NoRequest
    BY DEF IInv, CallOK
  <2> QED BY <2>1 DEF Send, AnswerAtOnce, ReplayOrRefuse, Accept, FirstWrite, FirstWriteBusy,
              Disconnect, Cancel, Rollback, vars, IInv, TypeOK
<1>3. \A q \in Calls : pc'[q] \in Holding => pc[q] \in Holding
  BY DEF Send, AnswerAtOnce, ReplayOrRefuse, Accept, FirstWrite, FirstWriteBusy, Disconnect,
         Cancel, Rollback, vars, Goto, Holding, IInv, TypeOK
<1>4. LockHeld'
  <2> SUFFICES ASSUME NEW q \in Calls, pc'[q] \in Holding
               PROVE  owner'[LockKey(request'[q])] = q
    BY DEF LockHeld, LockKey
  <2>1. pc[q] \in Holding
    BY <1>3
  <2>2. request[q] # NoRequest
    BY <2>1 DEF Holding, IInv, CallOK
  <2> QED BY <1>1, <1>2, <2>1, <2>2 DEF LockInv, LockHeld
<1>5. WriterKnown'
  BY NullAssumption DEF Send, AnswerAtOnce, ReplayOrRefuse, Accept, FirstWrite, FirstWriteBusy,
     Disconnect, Cancel, Rollback, vars, Goto, WriterKnown, LockInv, IInv, TypeOK
<1>6. \A q \in Calls : pc'[q] = "accepted" =>
        \/ pc[q] = "locked" /\ snapshot'[q].commits = Len(commits)
        \/ pc[q] = "accepted" /\ snapshot'[q] = snapshot[q]
  BY DEF Send, AnswerAtOnce, ReplayOrRefuse, Accept, FirstWrite, FirstWriteBusy, Disconnect,
         Cancel, Rollback, vars, Goto, Snapshot, IInv, TypeOK
<1>7. \A q \in Calls : pc'[q] = "leaving" /\ result'[q].kind \in {"conflict", "refused"} =>
        \/ pc[q] = "locked" /\ Stored(q) = NoResponse
        \/ pc[q] = "leaving" /\ result'[q] = result[q]
  BY DEF Send, AnswerAtOnce, ReplayOrRefuse, Accept, FirstWrite, FirstWriteBusy, Disconnect,
         Cancel, Rollback, vars, Goto, Return, Replay, Failure, IInv, TypeOK
<1> QED BY <1>1, <1>2, <1>4, <1>5, <1>6, <1>7, VerdictsKept DEF LockInv

LEMMA CoordinatorLockInv ==
  ASSUME IInv, LockInv, NEW c \in Calls, AskForLock(c) \/ EnterLock(c) \/ LeaveLock(c)
  PROVE  LockInv'
<1>1. UNCHANGED <<commits, writer, request, snapshot, result, gone>>
  BY DEF AskForLock, EnterLock, LeaveLock, db
<1>2. PICK place \in {"waiting", "locked", "returned"} :
        /\ pc' = [pc EXCEPT ![c] = place]
        /\ pc[c] \notin {"unsent", "accepted", "writing"}
        /\ place = "locked" => EnterLock(c)
        /\ place = "waiting" => AskForLock(c)
        /\ place = "returned" => LeaveLock(c)
  BY DEF AskForLock, EnterLock, LeaveLock, Goto
<1>3. pc'[c] = place /\ \A q \in Calls : q # c => pc'[q] = pc[q]
  BY <1>2 DEF IInv, TypeOK
<1>4. \A q \in Calls : pc[q] \in Holding => LockKey(request[q]) \in Keys /\ request[q] # NoRequest
  BY RequestType DEF Holding, IInv, CallOK
<1>5. LockKey(request[c]) \in Keys
  BY <1>2, RequestType DEF IInv, CallOK
<1>6. LockHeld'
  <2> SUFFICES ASSUME NEW q \in Calls, pc'[q] \in Holding
               PROVE  owner'[LockKey(request[q])] = q
    BY <1>1 DEF LockHeld, LockKey
  <2>1. CASE q = c
    <3>1. EnterLock(c)
      BY <1>2, <1>3, <2>1 DEF Holding
    <3> QED BY <1>5, <2>1, <3>1 DEF EnterLock, Mutex!Enter, IInv, TypeOK
  <2>2. CASE q # c
    <3>1. /\ pc[q] \in Holding /\ LockKey(request[q]) \in Keys
          /\ owner[LockKey(request[q])] = q
      BY <1>3, <1>4, <2>2 DEF LockInv, LockHeld
    <3> QED BY <2>2, <3>1, NullAssumption
            DEF AskForLock, EnterLock, LeaveLock, Mutex!Request, Mutex!Enter, Mutex!Leave, IInv, TypeOK
  <2> QED BY <2>1, <2>2
<1>7. WriterKnown'
  <2>1. writer # NoCall => writer \in Calls
    BY DEF IInv, TypeOK
  <2> QED BY <1>1, <1>2, <1>3, <2>1 DEF WriterKnown, LockInv
<1>8. UnseenUnrelated' /\ RetryIsNotRefused'
  BY <1>1, <1>2, <1>3, VerdictsKept
<1> QED BY <1>6, <1>7, <1>8 DEF LockInv

LEMMA CrashLockInv == ASSUME IInv, LockInv, Crash PROVE LockInv'
BY DEF Crash, InProcess, LockInv, LockHeld, WriterKnown, UnseenUnrelated, RetryIsNotRefused, Holding

\* Whoever else has a transaction open, or is about to answer, is not related
\* to the call that commits.
LEMMA CommitLockInv == ASSUME IInv, LockInv, NEW c \in Calls, CommitTx(c) PROVE LockInv'
<1>1. PICK d \in Drills :
        /\ pc[c] = "writing" /\ request[c] # NoRequest
        /\ commits' = Append(commits, [call |-> c, drill |-> d, version |-> versions[d] + 1])
        /\ pc' = [pc EXCEPT ![c] = "leaving"]
        /\ \E r : result' = [result EXCEPT ![c] = [kind |-> "applied", response |-> r]]
        /\ writer' = NoCall
        /\ UNCHANGED <<request, snapshot, owner>>
  BY CommitEffect
<1>2. PICK n \in Nat : n = Len(commits)
  BY DEF IInv, TypeOK
<1>3. /\ DOMAIN commits = 1..n /\ DOMAIN commits' = 1..(n + 1) /\ Len(commits') = n + 1
      /\ commits'[n + 1].call = c
      /\ \A i \in 1..n : commits'[i] = commits[i]
  BY <1>1, <1>2 DEF IInv, TypeOK
<1>4. /\ Asked(n + 1)' = request[c]
      /\ \A i \in 1..n : Asked(i)' = Asked(i)
  BY <1>1, <1>3 DEF Asked
<1>5. /\ pc'[c] = "leaving" /\ result'[c].kind = "applied"
      /\ \A q \in Calls : q # c => pc'[q] = pc[q] /\ result'[q] = result[q]
  BY <1>1 DEF IInv, TypeOK
<1>6. \A q \in Calls : q # c /\ pc[q] \in Holding => ~Related(request[c], request[q])
  BY <1>1, Exclusion DEF LockInv, Holding
<1>7. LockHeld'
  <2> SUFFICES ASSUME NEW q \in Calls, pc'[q] \in Holding
               PROVE  owner[LockKey(request[q])] = q
    BY <1>1 DEF LockHeld, LockKey
  <2>1. pc[q] \in Holding
    BY <1>1, <1>5 DEF Holding
  <2> QED BY <2>1 DEF LockInv, LockHeld
<1>8. WriterKnown'
  BY <1>1 DEF WriterKnown
<1>9. ASSUME NEW q \in Calls, pc'[q] = "accepted",
             NEW i \in snapshot'[q].commits + 1 .. Len(commits')
      PROVE  ~Related(Asked(i)', request'[q])
  <2>1. q # c /\ pc[q] = "accepted" /\ snapshot[q].commits \in Nat
    BY <1>5, <1>9 DEF IInv, TypeOK
  <2>2. CASE i = n + 1
    BY <1>1, <1>4, <1>6, <2>1, <2>2 DEF Holding
  <2>3. CASE i \in snapshot[q].commits + 1 .. n
    <3>1. ~Related(Asked(i), request[q])
      BY <1>2, <2>1, <2>3 DEF LockInv, UnseenUnrelated
    <3> QED BY <1>1, <1>4, <2>1, <2>3, <3>1
  <2> QED BY <1>1, <1>3, <1>9, <2>1, <2>2, <2>3
<1>10. ASSUME NEW q \in Calls, pc'[q] = "leaving", result'[q].kind \in {"conflict", "refused"},
              NEW i \in 1..(n + 1)
       PROVE  ~(Asked(i)'.id = request'[q].id /\ Related(Asked(i)', request'[q]))
  <2>1. q # c /\ pc[q] = "leaving" /\ result[q].kind \in {"conflict", "refused"}
    BY <1>5, <1>10
  <2>2. CASE i = n + 1
    BY <1>1, <1>4, <1>6, <2>1, <2>2 DEF Holding
  <2>3. CASE i \in 1..n
    <3>1. ~(Asked(i).id = request[q].id /\ Related(Asked(i), request[q]))
      BY <1>3, <2>1, <2>3 DEF LockInv, RetryIsNotRefused
    <3> QED BY <1>1, <1>4, <2>3, <3>1
  <2> QED BY <2>2, <2>3
<1> QED BY <1>3, <1>7, <1>8, <1>9, <1>10 DEF LockInv, UnseenUnrelated, RetryIsNotRefused

LEMMA NextLockInv == IInv /\ LockInv /\ [Next]_vars => LockInv'
<1> SUFFICES ASSUME IInv, LockInv, [Next]_vars PROVE LockInv'
  OBVIOUS
<1>1. ASSUME NEW c \in Calls,
             \/ \E r \in Requests : Send(c, r)
             \/ AnswerAtOnce(c) \/ ReplayOrRefuse(c) \/ Accept(c) \/ FirstWrite(c)
             \/ FirstWriteBusy(c) \/ Disconnect(c) \/ Cancel(c) \/ Rollback(c)
      PROVE  LockInv'
  BY <1>1, QuietLockInv
<1>2. ASSUME NEW c \in Calls, AskForLock(c) \/ EnterLock(c) \/ LeaveLock(c) PROVE LockInv'
  BY <1>2, CoordinatorLockInv
<1>3. ASSUME NEW c \in Calls, CommitTx(c) PROVE LockInv'
  BY <1>3, CommitLockInv
<1>4. CASE Crash
  BY <1>4, CrashLockInv
<1>5. CASE UNCHANGED vars
  BY <1>5 DEF vars, db, LockInv, LockHeld, WriterKnown, UnseenUnrelated, RetryIsNotRefused, Asked
<1> QED BY <1>1, <1>2, <1>3, <1>4, <1>5 DEF Next, Step

\* A call that meets SQLITE_BUSY meets a writer, or a commit it does not see.
LEMMA BusyStep ==
  ASSUME IInv, LockInv, Next, NEW c \in Calls,
         pc[c] = "accepted", pc'[c] = "leaving", result'[c].kind = "busy"
  PROVE  \/ /\ writer # NoCall
            /\ ~Related(request[writer], request[c]) \/ writer \in gone
         \/ \E i \in snapshot[c].commits + 1 .. Len(commits) : ~Related(Asked(i), request[c])
<1>1. FirstWriteBusy(c)
  <2>1. ASSUME NEW q \in Calls, q # c, (\E r \in Requests : Send(q, r)) \/ Step(q) PROVE FALSE
    BY <2>1 DEF Send, Step, AnswerAtOnce, AskForLock, EnterLock, ReplayOrRefuse, Accept,
       FirstWrite, FirstWriteBusy, CommitTx, LeaveLock, Rollback, Goto, IInv, TypeOK
  <2>2. ASSUME NEW q \in Calls, Disconnect(q) PROVE FALSE
    BY <2>2 DEF Disconnect
  <2>3. ASSUME NEW q \in Calls, Cancel(q) PROVE FALSE
    <3>1. result' = [result EXCEPT ![q] = Failure("cancelled")] /\ (q = c \/ pc'[c] = pc[c])
      BY <2>3 DEF Cancel, Return, Goto, IInv, TypeOK
    <3> QED BY <3>1 DEF Failure, IInv, TypeOK
  <2>4. ASSUME Crash PROVE FALSE
    BY <2>4 DEF Crash, InProcess
  <2>5. ASSUME (\E r \in Requests : Send(c, r)) \/ Step(c) PROVE FirstWriteBusy(c)
    BY <2>5 DEF Send, Step, AnswerAtOnce, AskForLock, EnterLock, ReplayOrRefuse, Accept,
       FirstWrite, CommitTx, LeaveLock, Rollback, Goto, IInv, TypeOK
  <2> QED BY <2>1, <2>2, <2>3, <2>4, <2>5 DEF Next
<1>2. CASE writer # NoCall
  <2>1. writer \in Calls /\ (pc[writer] = "writing" \/ writer \in gone)
    BY <1>2 DEF IInv, TypeOK, LockInv, WriterKnown
  <2>2. pc[writer] = "writing" => ~Related(request[writer], request[c])
    BY <2>1, Exclusion DEF LockInv, Holding
  <2> QED BY <1>2, <2>1, <2>2
<1>3. CASE writer = NoCall
  <2>1. snapshot[c].commits # Len(commits) /\ snapshot[c].commits <= Len(commits)
    BY <1>1, <1>3 DEF FirstWriteBusy, MayWrite, IInv, CallOK
  <2>2. Len(commits) \in snapshot[c].commits + 1 .. Len(commits)
    BY <2>1 DEF IInv, TypeOK
  <2> QED BY <2>2 DEF LockInv, UnseenUnrelated
<1> QED BY <1>2, <1>3

-----------------------------------------------------------------------------
(* Theorems *)

\* The inductive invariant holds in every reachable state.
THEOREM Invariance == Spec => []IInv
<1> QED BY InitIInv, NextIInv, PTL DEF Spec

\* Every variable keeps its type.
THEOREM TypeCorrect == Spec => []TypeOK
<1>1. IInv => TypeOK
  BY DEF IInv
<1> QED BY <1>1, Invariance, PTL

\* However often a request is sent, and whatever fails, it is applied at most
\* once.
THEOREM AtMostOnce == Spec => []AppliedAtMostOnce
<1>1. IInv => AppliedAtMostOnce
  BY DEF IInv, History
<1> QED BY <1>1, Invariance, PTL

\* No command overwrites a version its page had not seen.
THEOREM NothingOverwritten == Spec => []NoLostUpdate
<1>1. IInv => NoLostUpdate
  BY DEF IInv, History
<1> QED BY <1>1, Invariance, PTL

\* What an answer reports as done is in the database, and stays there.
THEOREM Durable == Spec => []AnswersAreDurable
<1>1. IInv => AnswersAreDurable
  <2> SUFFICES ASSUME IInv, NEW c \in Calls, result[c].kind \in {"applied", "replayed"}
               PROVE  /\ Stored(c) = result[c].response
                      /\ \E i \in DOMAIN commits :
                           /\ Asked(i).id = request[c].id
                           /\ Asked(i).op = request[c].op
                           /\ commits[i].drill = result[c].response.drill
                           /\ commits[i].version = result[c].response.version
    BY DEF AnswersAreDurable
  <2>1. /\ Stored(c) = result[c].response /\ Stored(c) # NoResponse
        /\ Stored(c).op = request[c].op /\ request[c] # NoRequest
    BY DEF IInv, CallOK
  <2>2. request[c].id \in RequestIDs
    BY <2>1, RequestType
  <2>3. PICK i \in DOMAIN commits :
          /\ Asked(i).id = request[c].id
          /\ Asked(i).op = Stored(c).op
          /\ commits[i].drill = Stored(c).drill
          /\ commits[i].version = Stored(c).version
    BY <2>1, <2>2 DEF IInv, History, ResponsesReport, Stored
  <2> QED BY <2>1, <2>3
<1> QED BY <1>1, Invariance, PTL

\* The safety part of ImplementsAtomicCommands: what callers see of execute
\* could have been done by commands applied one after the other.
THEOREM ServiceIsAtomic ==
  Spec => Atomic!AtomicInit /\ [][Atomic!AtomicNext]_(Atomic!promised)
<1>1. Init => Atomic!AtomicInit
  BY DEF Init, Atomic!AtomicInit
<1> QED BY <1>1, StepIsAtomic, Invariance, PTL DEF Spec

\* A retry that waits for the call before it is not refused for what that call
\* did: every commit of a related call comes before it enters or after it has
\* left.
THEOREM RetriesReplayed == Spec => []RetryIsNotRefused
<1>1. LockInv => RetryIsNotRefused
  BY DEF LockInv
<1> QED BY <1>1, InitLockInv, NextLockInv, Invariance, PTL DEF Spec

\* The mutexes spare the commands of one drill from SQLITE_BUSY, but for the
\* rollback that outlives a request.
THEOREM BusyFromOthers == Spec => BusyOnlyFromOthers
<1> DEFINE Busy ==
      \A c \in Calls :
        pc[c] = "accepted" /\ pc'[c] = "leaving" /\ result'[c].kind = "busy" =>
          \/ /\ writer # NoCall
             /\ ~Related(request[writer], request[c]) \/ writer \in gone
          \/ \E i \in snapshot[c].commits + 1 .. Len(commits) : ~Related(Asked(i), request[c])
<1>1. IInv /\ LockInv /\ [Next]_vars => [Busy]_vars
  BY BusyStep
<1>2. BusyOnlyFromOthers <=> [][Busy]_vars
  BY PTL DEF BusyOnlyFromOthers
<1> HIDE DEF Busy
<1> QED BY <1>1, <1>2, InitLockInv, NextLockInv, Invariance, PTL DEF Spec
=============================================================================
