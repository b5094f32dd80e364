-------------------------------- MODULE Runtime --------------------------------
(***************************************************************************)
(* The server process (cmd/sheltergate/app.go): it opens the store and the *)
(* port, serves requests, and ends by a signal, by a failure of Serve, or  *)
(* because it cannot start.  The store is one for all handlers: closed too *)
(* early, it fails the commands of those that still run.                   *)
(***************************************************************************)
EXTENDS Naturals

CONSTANT Requests   \* the requests clients send

VARIABLES
  proc,      \* where runServer is: "opening", "listening", "serving", and after
             \* a signal "draining", "closing", "collecting"; at last "ended"
  code,      \* the code the process ends with, "0" or "1"; "killed" by a signal
  store,     \* whether the store is open
  accepts,   \* whether the listener accepts connections
  stop,      \* a signal waits in the channel
  done,      \* what Serve returned, as it waits in the channel
  timedOut,  \* the context of the shutdown has ended
  requests   \* how far each is: "sent", "read", "running" its transaction,
             \* "committed", "answered"; or "failed", the store being closed

vars == <<proc, code, store, accepts, stop, done, timedOut, requests>>

End(with) == proc' = "ended" /\ code' = with

-----------------------------------------------------------------------------
(* buildRuntime *)

OpenStore ==
  /\ proc = "opening"
  /\ proc' = "listening" /\ store' = TRUE
  /\ UNCHANGED <<code, accepts, stop, done, timedOut, requests>>

\* Open closes the database when Migrate fails.
OpenFails ==
  /\ proc = "opening"
  /\ End("1")
  /\ UNCHANGED <<store, accepts, stop, done, timedOut, requests>>

Listen ==
  /\ proc = "listening"
  /\ proc' = "serving" /\ accepts' = TRUE
  /\ UNCHANGED <<code, store, stop, done, timedOut, requests>>

ListenFails ==
  /\ proc = "listening"
  /\ store' = FALSE
  /\ End("1")
  /\ UNCHANGED <<accepts, stop, done, timedOut, requests>>

-----------------------------------------------------------------------------
(* The handlers *)

Read(r) ==
  /\ proc # "ended"
  /\ requests[r] = "sent" /\ accepts
  /\ requests' = [requests EXCEPT ![r] = "read"]
  /\ UNCHANGED <<proc, code, store, accepts, stop, done, timedOut>>

\* BeginTx on a store that was closed is an error: the answer is a 500.
Begin(r) ==
  /\ proc # "ended"
  /\ requests[r] = "read"
  /\ requests' = [requests EXCEPT ![r] = IF store THEN "running" ELSE "failed"]
  /\ UNCHANGED <<proc, code, store, accepts, stop, done, timedOut>>

\* A transaction that has begun keeps its connection when the store closes.
Commit(r) ==
  /\ proc # "ended"
  /\ requests[r] = "running"
  /\ requests' = [requests EXCEPT ![r] = "committed"]
  /\ UNCHANGED <<proc, code, store, accepts, stop, done, timedOut>>

Answer(r) ==
  /\ proc # "ended"
  /\ requests[r] = "committed"
  /\ requests' = [requests EXCEPT ![r] = "answered"]
  /\ UNCHANGED <<proc, code, store, accepts, stop, done, timedOut>>

-----------------------------------------------------------------------------
(* serve, and what ends it *)

ServeFails ==
  /\ proc # "ended"
  /\ accepts /\ done = "none"
  /\ done' = "error" /\ accepts' = FALSE
  /\ UNCHANGED <<proc, code, store, stop, timedOut, requests>>

\* Before signal.Notify a signal ends the process; afterwards the channel
\* holds one, and the ones that follow it are dropped.
Signal ==
  /\ \/ /\ proc \in {"opening", "listening"}
        /\ End("killed")
        /\ UNCHANGED stop
     \/ /\ proc \notin {"opening", "listening", "ended"}
        /\ ~stop /\ stop' = TRUE
        /\ UNCHANGED <<proc, code>>
  /\ UNCHANGED <<store, accepts, done, timedOut, requests>>

\* The handlers that still run are not waited for.
ServeEnded ==
  /\ proc = "serving" /\ done # "none"
  /\ store' = FALSE
  /\ End("1")
  /\ UNCHANGED <<accepts, stop, done, timedOut, requests>>

\* Mutant: the store is closed before the shutdown.
ShutdownStoreFirst ==
  /\ proc = "serving" /\ stop
  /\ proc' = "draining"
  /\ accepts' = FALSE /\ store' = FALSE
  /\ done' = IF done = "none" THEN "closed" ELSE done
  /\ UNCHANGED <<code, stop, timedOut, requests>>
\* Shutdown closes the listener, which ends Serve.
Shutdown ==
  /\ proc = "serving" /\ stop
  /\ proc' = "draining"
  /\ accepts' = FALSE
  /\ done' = IF done = "none" THEN "closed" ELSE done
  /\ UNCHANGED <<code, store, stop, timedOut, requests>>

\* No connection serves a request any more.
Idle == \A r \in Requests : requests[r] \notin {"read", "running", "committed"}

Drained ==
  /\ proc = "draining" /\ Idle
  /\ proc' = "closing"
  /\ UNCHANGED <<code, store, accepts, stop, done, timedOut, requests>>

\* Mutant: the shutdown has no timeout.
NeverTimesOut == FALSE /\ UNCHANGED vars
ShutdownTimesOut ==
  /\ proc = "draining" /\ ~Idle
  /\ proc' = "closing" /\ timedOut' = TRUE
  /\ UNCHANGED <<code, store, accepts, stop, done, requests>>

\* Its error counts when the shutdown had none.
CloseStore ==
  /\ proc = "closing"
  /\ store' = FALSE
  /\ \/ ~timedOut /\ proc' = "collecting" /\ UNCHANGED code
     \/ End("1")
  /\ UNCHANGED <<accepts, stop, done, timedOut, requests>>

\* return <-done
Collect ==
  /\ proc = "collecting" /\ done # "none"
  /\ End(IF done = "closed" THEN "0" ELSE "1")
  /\ UNCHANGED <<store, accepts, stop, done, timedOut, requests>>

-----------------------------------------------------------------------------
Init ==
  /\ proc = "opening" /\ code = "none" /\ store = FALSE /\ accepts = FALSE
  /\ stop = FALSE /\ done = "none" /\ timedOut = FALSE
  /\ requests = [r \in Requests |-> "sent"]

Ends == ServeEnded \/ Shutdown \/ Drained \/ ShutdownTimesOut \/ CloseStore \/ Collect

Next ==
  \/ OpenStore \/ OpenFails \/ Listen \/ ListenFails
  \/ \E r \in Requests : Read(r) \/ Begin(r) \/ Commit(r) \/ Answer(r)
  \/ ServeFails \/ Signal
  \/ Ends

\* The main goroutine runs when it can, and the context of the shutdown
\* ends; nothing is assumed of the handlers, which may wait for ever.
Spec == Init /\ [][Next]_vars /\ WF_vars(Ends)

-----------------------------------------------------------------------------
(* Properties *)

\* A process that ends with 0 was told to stop, and every request it had read
\* was answered after its transaction: none found the store closed, and none
\* was cut off.
CleanEndServedAll ==
  code = "0" => stop /\ \A r \in Requests : requests[r] \in {"sent", "answered"}

\* Once the signal is in the channel the process ends, even when a handler
\* waits for ever.
StopEnds == stop ~> proc = "ended"
=============================================================================
