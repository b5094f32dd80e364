---------------------------- MODULE RuntimeProofs ----------------------------
(* A clean end of the server cuts off no request, for any set of requests. *)
EXTENDS Runtime, TLAPS

(***************************************************************************)
(* The inductive invariant: the store is open for as long as the listener  *)
(* accepts and until the shutdown is over; a shutdown in time leaves no    *)
(* request on its way, and none comes afterwards.                          *)
(***************************************************************************)
Steps == {"sent", "read", "running", "committed", "answered"}
Stopping == {"draining", "closing", "collecting"}

Alive == {"opening", "listening", "serving"} \cup Stopping

RuntimeInv ==
  /\ proc \in Alive \cup {"ended"}
  /\ requests \in [Requests -> Steps]
  /\ accepts => proc \in {"serving", "ended"}
  /\ proc \in {"opening", "listening"} => \A r \in Requests : requests[r] = "sent"
  /\ proc \in {"listening", "serving", "draining", "closing"} => store
  /\ proc \in Stopping => stop /\ ~accepts
  /\ proc = "collecting" \/ (proc = "closing" /\ ~timedOut) => Idle
  /\ code = "0" => proc = "ended" /\ stop /\ Idle

LEMMA InitRuntimeInv == Init => RuntimeInv
BY DEF Init, RuntimeInv, Steps, Alive, Stopping

\* The handlers go on while the process lives.
LEMMA HandlersStep ==
  ASSUME RuntimeInv, NEW r \in Requests, Read(r) \/ Begin(r) \/ Commit(r) \/ Answer(r)
  PROVE  RuntimeInv'
<1>1. PICK step \in Steps \ {"sent"} : requests' = [requests EXCEPT ![r] = step]
  <2>1. CASE Begin(r)
    <3>1. proc \in {"serving", "draining", "closing"}
      BY <2>1 DEF Begin, RuntimeInv, Idle, Alive, Stopping
    <3>2. CASE store
      BY <2>1, <3>2 DEF Begin, Steps
    <3>3. CASE ~store
      BY <2>1, <3>1, <3>3 DEF RuntimeInv
    <3> QED BY <3>2, <3>3
  <2> QED BY <2>1 DEF Read, Commit, Answer, Steps
<1>2. /\ UNCHANGED <<proc, code, store, accepts, stop, done, timedOut>>
      /\ proc # "ended"
      /\ accepts \/ requests[r] # "sent"
  BY DEF Read, Begin, Commit, Answer
<1>3. requests' \in [Requests -> Steps]
  BY <1>1 DEF RuntimeInv
<1>4. proc \notin {"opening", "listening"}
  BY <1>2 DEF RuntimeInv
<1>5. ~(proc = "collecting" \/ (proc = "closing" /\ ~timedOut))
  <2>1. CASE accepts
    BY <1>2, <2>1 DEF RuntimeInv, Stopping
  <2>2. CASE ~accepts
    <3>1. ~Idle
      BY <2>2 DEF Read, Begin, Commit, Answer, Idle
    <3> QED BY <3>1 DEF RuntimeInv
  <2> QED BY <2>1, <2>2
<1> QED BY <1>2, <1>3, <1>4, <1>5 DEF RuntimeInv, Stopping

\* No other step moves a request.
LEMMA ProcessStep ==
  ASSUME RuntimeInv,
         \/ OpenStore \/ OpenFails \/ Listen \/ ListenFails
         \/ ServeFails \/ Signal \/ Ends \/ UNCHANGED vars
  PROVE  RuntimeInv'
<1>1. UNCHANGED requests /\ (Idle <=> Idle')
  BY DEF OpenStore, OpenFails, Listen, ListenFails, ServeFails, Signal, Ends, ServeEnded,
         Shutdown, Drained, ShutdownTimesOut, CloseStore, Collect, vars, Idle
<1>2. CASE OpenStore \/ OpenFails \/ Listen \/ ListenFails
  <2>1. \A r \in Requests : requests'[r] = "sent"
    BY <1>1, <1>2 DEF OpenStore, OpenFails, Listen, ListenFails, RuntimeInv
  <2>2. CASE OpenStore
    BY <1>1, <2>1, <2>2 DEF OpenStore, RuntimeInv, Alive, Stopping
  <2>3. CASE Listen
    BY <1>1, <2>3 DEF Listen, RuntimeInv, Alive, Stopping
  <2>4. CASE OpenFails \/ ListenFails
    BY <1>1, <2>4 DEF OpenFails, ListenFails, End, RuntimeInv, Alive, Stopping
  <2> QED BY <1>2, <2>2, <2>3, <2>4
<1>3. CASE ServeFails \/ Signal \/ UNCHANGED vars
  BY <1>1, <1>3 DEF ServeFails, Signal, End, vars, RuntimeInv, Alive, Stopping
<1>4. CASE ServeEnded \/ Shutdown
  BY <1>1, <1>4 DEF ServeEnded, Shutdown, End, RuntimeInv, Alive, Stopping
<1>5. CASE Drained \/ ShutdownTimesOut
  BY <1>1, <1>5 DEF Drained, ShutdownTimesOut, RuntimeInv, Alive, Stopping
<1>6. CASE CloseStore \/ Collect
  BY <1>1, <1>6 DEF CloseStore, Collect, End, RuntimeInv, Alive, Stopping
<1> QED BY <1>2, <1>3, <1>4, <1>5, <1>6 DEF Ends

\* The invariant holds in every reachable state.
THEOREM RuntimeInvariance == Spec => []RuntimeInv
<1>1. RuntimeInv /\ [Next]_vars => RuntimeInv'
  BY HandlersStep, ProcessStep DEF Next
<1> QED BY <1>1, InitRuntimeInv, PTL DEF Spec

\* A process that ends with 0 was told to stop and answered every request it
\* had read.
THEOREM CleanEnd == Spec => []CleanEndServedAll
<1>1. RuntimeInv => CleanEndServedAll
  BY DEF RuntimeInv, CleanEndServedAll, Steps, Idle
<1> QED BY <1>1, RuntimeInvariance, PTL
=============================================================================
