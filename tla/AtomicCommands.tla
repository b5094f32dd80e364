--------------------------- MODULE AtomicCommands ---------------------------
(***************************************************************************)
(* What the command service promises its callers: each call is decided in  *)
(* one step, at some moment between its arrival and its answer.  It is     *)
(* applied, at the version its caller saw, or it is a retry and gets the   *)
(* first answer, or it changes nothing.  A request id that was applied is  *)
(* never applied again and never reported as a conflict.  Overload, a      *)
(* client that leaves and a crash only ever make calls fail.               *)
(***************************************************************************)
EXTENDS Naturals, Sequences

CONSTANTS Calls, Requests, RequestIDs, Drills, Existing, Create,
          NoRequest, NoResponse, Pending

VARIABLES versions, responses, commits, request, result

promised == <<versions, responses, commits, request, result>>

AtomicInit ==
  /\ versions = [d \in Drills |-> IF d \in Existing THEN 1 ELSE 0]
  /\ responses = [i \in RequestIDs |-> NoResponse]
  /\ commits = <<>>
  /\ request = [c \in Calls |-> NoRequest]
  /\ result = [c \in Calls |-> Pending]

Undecided(c) == request[c] # NoRequest /\ result[c] = Pending
First(c) == responses[request[c].id]

Arrive(c, r) == /\ request[c] = NoRequest
                /\ request' = [request EXCEPT ![c] = r]
                /\ UNCHANGED <<versions, responses, commits, result>>

\* A create makes a new drill, anything else moves a drill from the version
\* the caller saw to the next one.
Apply(c, d) ==
  LET in == request[c]
      response == [op |-> in.op, drill |-> d, version |-> versions[d] + 1]
  IN /\ Undecided(c)
     /\ First(c) = NoResponse
     /\ IF in.op = Create THEN versions[d] = 0
        ELSE d = in.drill /\ versions[d] = in.expected /\ versions[d] > 0
     /\ versions' = [versions EXCEPT ![d] = @ + 1]
     /\ responses' = [responses EXCEPT ![in.id] = response]
     /\ commits' = Append(commits, [call |-> c, drill |-> d, version |-> versions[d] + 1])
     /\ result' = [result EXCEPT ![c] = [kind |-> "applied", response |-> response]]
     /\ UNCHANGED request

Decide(c, r) == /\ Undecided(c)
                /\ result' = [result EXCEPT ![c] = r]
                /\ UNCHANGED <<versions, responses, commits, request>>
Fails(kind) == [kind |-> kind, response |-> NoResponse]

\* A retry gets the first answer; the id of another operation is an error.
AnswerRetry(c) ==
  /\ Undecided(c) /\ First(c) # NoResponse
  /\ Decide(c, IF First(c).op = request[c].op
               THEN [kind |-> "replayed", response |-> First(c)] ELSE Fails("key_reused"))

\* The drill has moved on from what the caller saw.
RejectConflict(c) ==
  /\ Undecided(c) /\ First(c) = NoResponse
  /\ request[c].op # Create /\ versions[request[c].drill] # request[c].expected
  /\ Decide(c, Fails("conflict"))

\* A rule says no.
RejectByRule(c) ==
  /\ Undecided(c) /\ First(c) = NoResponse
  /\ Decide(c, Fails("refused"))

\* Nothing was changed and the caller may try again.
Fail(c) == \E kind \in {"busy", "cancelled"} : Decide(c, Fails(kind))

\* Any number of calls is lost together.
Lose == /\ \E S \in SUBSET {c \in Calls : Undecided(c)} :
             result' = [c \in Calls |-> IF c \in S THEN Fails("lost") ELSE result[c]]
        /\ UNCHANGED <<versions, responses, commits, request>>

AtomicNext ==
  \/ \E c \in Calls : \/ \E r \in Requests : Arrive(c, r)
                      \/ \E d \in Drills : Apply(c, d)
                      \/ AnswerRetry(c) \/ RejectConflict(c) \/ RejectByRule(c) \/ Fail(c)
  \/ Lose

Decided(c) == Undecided(c) /\ AtomicNext /\ result'[c] # Pending

\* Every call that arrives is decided.
AtomicSpec == AtomicInit /\ [][AtomicNext]_promised /\ \A c \in Calls : WF_promised(Decided(c))
=============================================================================
