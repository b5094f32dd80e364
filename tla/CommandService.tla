--------------------------- MODULE CommandService ---------------------------
(***************************************************************************)
(* Service.execute of internal/application: how commands that arrive       *)
(* together are applied to the SQLite database, and how they are answered. *)
(*                                                                         *)
(* A call looks its request id up outside any lock, waits for the mutex of *)
(* its key, opens a transaction, looks the id up again, runs the handler,  *)
(* and commits the drill, the audit event and the response together.  The  *)
(* database is in WAL mode and transactions are deferred: a transaction    *)
(* reads a snapshot, and its first write fails with SQLITE_BUSY, at once,  *)
(* when another one is writing or has committed since.  busy_timeout does  *)
(* not help: a transaction that has read is not retried.                   *)
(*                                                                         *)
(* A client may leave before its answer; database/sql then rolls the       *)
(* transaction back in a goroutine of its own, and the handler may unlock  *)
(* its key before the rollback has happened.  The process may die and be   *)
(* started again on the same file.                                         *)
(*                                                                         *)
(* What a command does to its drill, and when its rules refuse it, is in   *)
(* DrillLifecycle; here it creates a drill or moves one to its next        *)
(* version, unless it is refused.  What validateMeta rejects never gets    *)
(* this far.                                                               *)
(*                                                                         *)
(* A definition marked "Mutant" is not part of the specification: it is    *)
(* the next definition with a plausible bug in it.                         *)
(***************************************************************************)
EXTENDS Naturals, Sequences, FiniteSets

CONSTANTS
  Calls,        \* HTTP requests that carry a command, each sent once
  Requests,     \* what such a request may say
  RequestIDs,
  Operations,
  Drills,       \* ids of drills
  Existing,     \* those created before, all at version 1
  MaxCrashes,   \* bound: times the process dies
  NoCall, NoKey, NoRequest, NoResponse

Create == "create_drill"

\* The lock key of a create is "create:" with the request id.
Keys == Drills \cup ({Create} \X RequestIDs)

ASSUME RequestsAssumption ==
  /\ Requests \subseteq [id : RequestIDs, op : Operations, drill : Drills, expected : Nat]
  /\ Existing \subseteq Drills
  /\ Create \in Operations
ASSUME CrashAssumption == MaxCrashes \in Nat
ASSUME NullAssumption ==
  /\ NoCall \notin Calls /\ NoKey \notin Keys /\ NoRequest \notin Requests
  /\ NoResponse \notin [op : Operations, drill : Drills, version : Nat]

VARIABLES
  versions,    \* drills.version, 0 for a drill that does not exist
  responses,   \* idempotency_results
  commits,     \* the calls committed, in order: each wrote one audit event
  writer,      \* the call whose transaction holds SQLite's write lock
  request,     \* what a call asked for
  pc,          \* where it is in execute
  snapshot,    \* how many commits its transaction sees, and the drill's
               \* version it has loaded
  result,      \* what execute returns to it, its CommandResult or error
  gone,        \* calls whose client has left
  want, owner, \* the mutexes of the coordinator, see KeyedMutex
  crashes

db == <<versions, responses, commits>>
vars == <<versions, responses, commits, writer, request, pc, snapshot, result,
          gone, want, owner, crashes>>

Mutex == INSTANCE KeyedMutex WITH Procs <- Calls, Nobody <- NoCall

-----------------------------------------------------------------------------
Response == [op : Operations, drill : Drills, version : Nat]
Commit == [call : Calls, drill : Drills, version : Nat]

\* applied and replayed carry a response; the others are errors, which are
\* not stored.  "busy" is SQLITE_BUSY, "cancelled" the end of the context and
\* "lost" a call that was in the process when it died.
Kinds == {"applied", "replayed", "key_reused", "conflict", "refused", "busy",
          "cancelled", "lost"}
Result == [kind : Kinds, response : Response \cup {NoResponse}]
Pending == [kind |-> "pending", response |-> NoResponse]
Failure(kind) == [kind |-> kind, response |-> NoResponse]

\* Mutant: every command is locked by its request id.
LockKeyOfRequest(r) == <<Create, r.id>>

LockKey(r) == IF r.op = Create THEN <<Create, r.id>> ELSE r.drill

Stored(c) == responses[request[c].id]
Goto(c, place) == pc' = [pc EXCEPT ![c] = place]
Return(c, r) == result' = [result EXCEPT ![c] = r]

\* What a stored response means to a call: only operations are compared.
Replay(c) == IF Stored(c).op = request[c].op
             THEN [kind |-> "replayed", response |-> Stored(c)]
             ELSE Failure("key_reused")

Init ==
  /\ versions = [d \in Drills |-> IF d \in Existing THEN 1 ELSE 0]
  /\ responses = [i \in RequestIDs |-> NoResponse]
  /\ commits = <<>>
  /\ writer = NoCall
  /\ request = [c \in Calls |-> NoRequest]
  /\ pc = [c \in Calls |-> "unsent"]
  /\ snapshot = [c \in Calls |-> [commits |-> 0, version |-> 0]]
  /\ result = [c \in Calls |-> Pending]
  /\ gone = {}
  /\ Mutex!MutexInit
  /\ crashes = 0

-----------------------------------------------------------------------------
(* A call *)

Send(c, r) ==
  /\ pc[c] = "unsent"
  /\ request' = [request EXCEPT ![c] = r]
  /\ Goto(c, "received")
  /\ UNCHANGED <<db, writer, snapshot, result, gone, want, owner, crashes>>

\* FindResponse before the lock.
AnswerAtOnce(c) ==
  /\ pc[c] = "received"
  /\ Stored(c) # NoResponse
  /\ Return(c, Replay(c))
  /\ Goto(c, "returned")
  /\ UNCHANGED <<db, writer, request, snapshot, gone, want, owner, crashes>>

AskForLock(c) ==
  /\ pc[c] = "received"
  /\ Stored(c) = NoResponse
  /\ Mutex!Request(c, LockKey(request[c]))
  /\ Goto(c, "waiting")
  /\ UNCHANGED <<db, writer, request, snapshot, result, gone, crashes>>

\* The wait does not end with the context of the request.
EnterLock(c) ==
  /\ pc[c] = "waiting"
  /\ Mutex!Enter(c, LockKey(request[c]))
  /\ Goto(c, "locked")
  /\ UNCHANGED <<db, writer, request, snapshot, result, gone, crashes>>

\* What the transaction's reads find, all on one snapshot: the second
\* FindResponse, then the handler's LoadAggregate, checkVersion and rules.  A
\* rule may refuse whatever the version is.
Conflicts(c) == request[c].op # Create /\ versions[request[c].drill] # request[c].expected
Refusals(c) ==
  IF request[c].op # Create /\ versions[request[c].drill] = 0 THEN {"refused"}
  ELSE IF Conflicts(c) THEN {"conflict"}
  ELSE {"refused"}

\* Mutant: the second FindResponse is left out.
ReplayOrRefuseOnce(c) ==
  /\ pc[c] = "locked"
  /\ \E kind \in Refusals(c) : Return(c, Failure(kind))
  /\ Goto(c, "leaving")
  /\ UNCHANGED <<db, writer, request, snapshot, gone, want, owner, crashes>>

ReplayOrRefuse(c) ==
  /\ pc[c] = "locked"
  /\ IF Stored(c) # NoResponse
     THEN Return(c, Replay(c))
     ELSE \E kind \in Refusals(c) : Return(c, Failure(kind))
  /\ Goto(c, "leaving")
  /\ UNCHANGED <<db, writer, request, snapshot, gone, want, owner, crashes>>

Snapshot(c) == [commits |-> Len(commits),
                version |-> IF request[c].op = Create THEN 0 ELSE versions[request[c].drill]]

\* Mutant: the version the page saw is not looked at.
AcceptAnyVersion(c) ==
  /\ pc[c] = "locked"
  /\ Stored(c) = NoResponse
  /\ request[c].op # Create => versions[request[c].drill] # 0
  /\ snapshot' = [snapshot EXCEPT ![c] = Snapshot(c)]
  /\ Goto(c, "accepted")
  /\ UNCHANGED <<db, writer, request, result, gone, want, owner, crashes>>

Accept(c) ==
  /\ pc[c] = "locked"
  /\ Stored(c) = NoResponse
  /\ request[c].op # Create => versions[request[c].drill] # 0
  /\ ~Conflicts(c)
  /\ snapshot' = [snapshot EXCEPT ![c] = Snapshot(c)]
  /\ Goto(c, "accepted")
  /\ UNCHANGED <<db, writer, request, result, gone, want, owner, crashes>>

\* Mutant: the snapshot may be an old one.
MayWriteOnOldSnapshot(c) == writer = NoCall

\* The write lock is free and nothing was committed since the snapshot.
MayWrite(c) == writer = NoCall /\ snapshot[c].commits = Len(commits)

\* The first INSERT or UPDATE.  UpdateDrill's version in the WHERE clause is
\* the one of the snapshot and matches.
FirstWrite(c) ==
  /\ pc[c] = "accepted"
  /\ MayWrite(c)
  /\ writer' = c
  /\ Goto(c, "writing")
  /\ UNCHANGED <<db, request, snapshot, result, gone, want, owner, crashes>>

FirstWriteBusy(c) ==
  /\ pc[c] = "accepted"
  /\ ~MayWrite(c)
  /\ Return(c, Failure("busy"))
  /\ Goto(c, "leaving")
  /\ UNCHANGED <<db, writer, request, snapshot, gone, want, owner, crashes>>

\* The drill a command is about: a new one gets an id nothing else has.
Targets(c) == IF request[c].op = Create THEN {d \in Drills : versions[d] = 0}
              ELSE {request[c].drill}

\* The drill is saved with the loaded version + 1.
Recorded(c, d) ==
  LET version == snapshot[c].version + 1
  IN /\ versions' = [versions EXCEPT ![d] = version]
     /\ commits' = Append(commits, [call |-> c, drill |-> d, version |-> version])
     /\ Return(c, [kind |-> "applied",
                   response |-> [op |-> request[c].op, drill |-> d, version |-> version]])

\* Mutant: the response is not part of the transaction.
CommitWithoutResponse(c) ==
  /\ pc[c] = "writing"
  /\ \E d \in Targets(c) : Recorded(c, d)
  /\ UNCHANGED responses
  /\ writer' = NoCall
  /\ Goto(c, "leaving")
  /\ UNCHANGED <<request, snapshot, gone, want, owner, crashes>>

\* The rest of the handler, SaveResponse and Commit.  It may win against a
\* client that leaves.
CommitTx(c) ==
  /\ pc[c] = "writing"
  /\ \E d \in Targets(c) : Recorded(c, d)
  /\ responses' = [responses EXCEPT ![request[c].id] = result'[c].response]
  /\ writer' = NoCall
  /\ Goto(c, "leaving")
  /\ UNCHANGED <<request, snapshot, gone, want, owner, crashes>>

LeaveLock(c) ==
  /\ pc[c] = "leaving"
  /\ Mutex!Leave(c, LockKey(request[c]))
  /\ Goto(c, "returned")
  /\ UNCHANGED <<db, writer, request, snapshot, result, gone, crashes>>

-----------------------------------------------------------------------------
(* Clients that leave, and a process that dies *)

Disconnect(c) ==
  /\ pc[c] \notin {"unsent", "returned"}
  /\ c \notin gone
  /\ gone' = gone \cup {c}
  /\ UNCHANGED <<db, writer, request, pc, snapshot, result, want, owner, crashes>>

\* Mutant: the key stays locked.
CancelWithoutUnlock(c) ==
  /\ c \in gone
  /\ pc[c] \in {"received", "locked", "accepted", "writing"}
  /\ Return(c, Failure("cancelled"))
  /\ Goto(c, "returned")
  /\ UNCHANGED <<db, writer, request, snapshot, gone, want, owner, crashes>>

\* A statement or the commit finds the context ended.  The write lock, if the
\* call has it, stays until the rollback has run.
Cancel(c) ==
  /\ c \in gone
  /\ pc[c] \in {"received", "locked", "accepted", "writing"}
  /\ Return(c, Failure("cancelled"))
  /\ Goto(c, IF pc[c] = "received" THEN "returned" ELSE "leaving")
  /\ UNCHANGED <<db, writer, request, snapshot, gone, want, owner, crashes>>

Rollback(c) ==
  /\ writer = c
  /\ pc[c] # "writing"
  /\ writer' = NoCall
  /\ UNCHANGED <<db, request, pc, snapshot, result, gone, want, owner, crashes>>

InProcess(c) == pc[c] \notin {"unsent", "returned"}

\* Mutant: the database was in memory.
CrashForgetting ==
  /\ crashes < MaxCrashes
  /\ crashes' = crashes + 1
  /\ writer' = NoCall
  /\ versions' = [d \in Drills |-> IF d \in Existing THEN 1 ELSE 0]
  /\ responses' = [i \in RequestIDs |-> NoResponse]
  /\ commits' = <<>>
  /\ pc' = [c \in Calls |-> IF InProcess(c) THEN "returned" ELSE pc[c]]
  /\ result' = [c \in Calls |-> IF InProcess(c) /\ result[c] = Pending
                                THEN Failure("lost") ELSE result[c]]
  /\ want' = [c \in Calls |-> NoKey]
  /\ owner' = [k \in Keys |-> NoCall]
  /\ UNCHANGED <<request, snapshot, gone>>

\* The process dies and is started again: what was committed is there, and
\* nothing else.
Crash ==
  /\ crashes < MaxCrashes
  /\ crashes' = crashes + 1
  /\ writer' = NoCall
  /\ pc' = [c \in Calls |-> IF InProcess(c) THEN "returned" ELSE pc[c]]
  /\ result' = [c \in Calls |-> IF InProcess(c) /\ result[c] = Pending
                                THEN Failure("lost") ELSE result[c]]
  /\ want' = [c \in Calls |-> NoKey]
  /\ owner' = [k \in Keys |-> NoCall]
  /\ UNCHANGED <<db, request, snapshot, gone>>

Step(c) == \/ AnswerAtOnce(c) \/ AskForLock(c) \/ EnterLock(c)
           \/ ReplayOrRefuse(c) \/ Accept(c)
           \/ FirstWrite(c) \/ FirstWriteBusy(c) \/ CommitTx(c)
           \/ LeaveLock(c) \/ Rollback(c)

Next == \/ \E c \in Calls : \/ \E r \in Requests : Send(c, r)
                            \/ Step(c)
                            \/ Disconnect(c) \/ Cancel(c)
        \/ Crash

\* A handler that can go on does; sync.Mutex does not starve a waiter.
Fairness == \A c \in Calls : WF_vars(Step(c)) /\ SF_vars(EnterLock(c))

Spec == Init /\ [][Next]_vars /\ Fairness

-----------------------------------------------------------------------------
(* Properties *)

\* Every variable has the type its comment says.
TypeOK ==
  /\ versions \in [Drills -> Nat]
  /\ responses \in [RequestIDs -> Response \cup {NoResponse}]
  /\ commits \in Seq(Commit)
  /\ writer \in Calls \cup {NoCall}
  /\ request \in [Calls -> Requests \cup {NoRequest}]
  /\ pc \in [Calls -> {"unsent", "received", "waiting", "locked", "accepted",
                       "writing", "leaving", "returned"}]
  /\ snapshot \in [Calls -> [commits : Nat, version : Nat]]
  /\ result \in [Calls -> Result \cup {Pending}]
  /\ gone \subseteq Calls
  /\ want \in [Calls -> Keys \cup {NoKey}]
  /\ owner \in [Keys -> Calls \cup {NoCall}]
  /\ crashes \in 0..MaxCrashes

Asked(i) == request[commits[i].call]

\* A request id is applied at most once, whatever its calls have in common
\* and however often clients and the process come and go.
AppliedAtMostOnce ==
  \A i, j \in DOMAIN commits : Asked(i).id = Asked(j).id => i = j

\* No command overwrites what its page had not seen: each version of a drill
\* after the first was written by one call, which had asked for the version
\* before it, and the drill has the version written last.
NoLostUpdate ==
  \A d \in Drills :
    LET ofDrill == {i \in DOMAIN commits : commits[i].drill = d}
        first == IF d \in Existing THEN 1 ELSE 0
    IN /\ versions[d] = first + Cardinality(ofDrill)
       /\ \A i, j \in ofDrill : i < j => commits[i].version < commits[j].version
       /\ \A i \in ofDrill : Asked(i).op # Create =>
            commits[i].drill = Asked(i).drill /\ commits[i].version = Asked(i).expected + 1

\* An answer that reports a command done reports one that is in the database,
\* for that request id and operation, and stays there through crashes.
AnswersAreDurable ==
  \A c \in Calls : result[c].kind \in {"applied", "replayed"} =>
    /\ Stored(c) = result[c].response
    /\ \E i \in DOMAIN commits :
         /\ Asked(i).id = request[c].id
         /\ Asked(i).op = request[c].op
         /\ commits[i].drill = result[c].response.drill
         /\ commits[i].version = result[c].response.version

\* Two requests that the coordinator has to keep apart: for the same drill,
\* or creates with the same id.
Related(r, s) == IF r.op = Create THEN s.op = Create /\ s.id = r.id
                 ELSE s.op # Create /\ s.drill = r.drill

\* A retry that was sent before the first call was answered waits for it and
\* is not refused for what the first call did.
RetryIsNotRefused ==
  \A c \in Calls :
    pc[c] = "leaving" /\ result[c].kind \in {"conflict", "refused"} =>
      ~\E i \in DOMAIN commits :
         Asked(i).id = request[c].id /\ Related(Asked(i), request[c])

\* SQLITE_BUSY comes only from other drills' commands, and from a command of
\* the same drill whose client has left and whose rollback is not done yet.
BusyOnlyFromOthers ==
  [][\A c \in Calls :
       pc[c] = "accepted" /\ pc'[c] = "leaving" /\ result'[c].kind = "busy" =>
         \/ /\ writer # NoCall
            /\ ~Related(request[writer], request[c]) \/ writer \in gone
         \/ \E i \in snapshot[c].commits + 1 .. Len(commits) : ~Related(Asked(i), request[c])
    ]_vars

\* Every call returns, and the write lock never stays with a dead one.
EveryCallReturns ==
  /\ \A c \in Calls : pc[c] = "received" ~> pc[c] = "returned"
  /\ writer # NoCall ~> writer = NoCall

Atomic == INSTANCE AtomicCommands
ImplementsAtomicCommands == Atomic!AtomicSpec
=============================================================================
