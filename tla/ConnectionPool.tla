--------------------------- MODULE ConnectionPool ---------------------------
(***************************************************************************)
(* The database/sql pool shared by detail reads and commands.              *)
(*                                                                         *)
(* GetWorkbench runs its queries one after another on the pool, each on a  *)
(* connection of its own for as long as its rows are open.  loadReviewRounds*)
(* is the exception: while the rows of review_rounds are open it runs one  *)
(* query on review_items for each of them, and so holds one connection     *)
(* while it waits for a second.  A command uses a connection to look its   *)
(* request id up, and then one for its transaction, from BeginTx to its    *)
(* end; between the two it waits for its lock without one (Coordinator).   *)
(*                                                                         *)
(* A definition marked "Mutant" is not part of the specification: it is    *)
(* the next definition with a plausible bug in it.                         *)
(***************************************************************************)
EXTENDS Naturals, FiniteSets

CONSTANTS
  Readers,    \* detail requests that may be in flight together
  Writers,    \* commands that may be in flight together
  PoolSize,   \* SetMaxOpenConns: 8 in the code
  Rounds      \* the number of review rounds of the drill a reader reads

ASSUME PoolAssumption ==
  /\ IsFiniteSet(Readers) /\ IsFiniteSet(Writers) /\ Readers \cap Writers = {}
  /\ PoolSize \in Nat \ {0}
  /\ Rounds \in [Readers -> Nat]

VARIABLES
  conns,   \* the connections in use: who uses one, and for which query
  pc,      \* where a request is
  left     \* the rows of review_rounds a reader has still to go through

vars == <<conns, pc, left>>

Procs == Readers \cup Writers

\* What a connection is in use for: a query that runs alone, the rows of
\* review_rounds, the rows of review_items, a transaction.
Uses == {"alone", "rounds", "items", "tx"}

Available == Cardinality(conns) < PoolSize

Take(p, use) == /\ Available
                /\ conns' = conns \cup {<<p, use>>}
Return(p, use) == conns' = conns \ {<<p, use>>}
Goto(p, place) == pc' = [pc EXCEPT ![p] = place]

Init == /\ conns = {}
        /\ pc = [p \in Procs |-> "idle"]
        /\ left = [r \in Readers |-> 0]

\* A request arrives: GET /api/drills/{id}, or a command.
Ask(p) == /\ pc[p] = "idle"
          /\ Goto(p, IF p \in Readers THEN "before" ELSE "lookup")
          /\ UNCHANGED <<conns, left>>

\* The queries that run alone: those on the tables loaded before the rounds,
\* those loaded after them (the decision and the events), and a command's
\* lookup of its request id.  Each returns its connection before the next one
\* starts; one stands for the several.
Running == [before |-> "querying", after |-> "finishing", lookup |-> "looking"]
Done == [querying |-> {"rounds"}, finishing |-> {"answered"},
         looking |-> {"begin", "answered"}]

StartAlone(p) ==
  /\ pc[p] \in DOMAIN Running
  /\ Take(p, "alone")
  /\ Goto(p, Running[pc[p]])
  /\ UNCHANGED left

\* Mutant: the rows stay open.
EndAloneKeepingRows(p) ==
  /\ pc[p] \in DOMAIN Done
  /\ \E place \in Done[pc[p]] : Goto(p, place)
  /\ UNCHANGED <<conns, left>>

\* A command whose request id has a response is answered with it.
EndAlone(p) ==
  /\ pc[p] \in DOMAIN Done
  /\ Return(p, "alone")
  /\ \E place \in Done[pc[p]] : Goto(p, place)
  /\ UNCHANGED left

-----------------------------------------------------------------------------
(* loadReviewRounds and loadReviewItems *)

OpenRounds(r) ==
  /\ pc[r] = "rounds"
  /\ Take(r, "rounds")
  /\ left' = [left EXCEPT ![r] = Rounds[r]]
  /\ Goto(r, "rows")

\* loadReviewItems, with the rows of review_rounds still open.
OpenItems(r) ==
  /\ pc[r] = "rows" /\ left[r] > 0
  /\ Take(r, "items")
  /\ Goto(r, "items")
  /\ UNCHANGED left

CloseItems(r) ==
  /\ pc[r] = "items"
  /\ Return(r, "items")
  /\ left' = [left EXCEPT ![r] = @ - 1]
  /\ Goto(r, "rows")

\* Mutant: the rows of review_rounds stay open.
CloseRoundsKeepingRows(r) ==
  /\ pc[r] = "rows" /\ left[r] = 0
  /\ Goto(r, "after")
  /\ UNCHANGED <<conns, left>>

CloseRounds(r) ==
  /\ pc[r] = "rows" /\ left[r] = 0
  /\ Return(r, "rounds")
  /\ Goto(r, "after")
  /\ UNCHANGED left

-----------------------------------------------------------------------------
(* A command's transaction *)

BeginTx(w) == /\ pc[w] = "begin"
              /\ Take(w, "tx")
              /\ Goto(w, "tx")
              /\ UNCHANGED left

\* Mutant: the transaction is neither committed nor rolled back.
EndTxAbandoned(w) == /\ pc[w] = "tx"
                     /\ Goto(w, "answered")
                     /\ UNCHANGED <<conns, left>>

EndTx(w) == /\ pc[w] = "tx"
            /\ Return(w, "tx")
            /\ Goto(w, "answered")
            /\ UNCHANGED left

-----------------------------------------------------------------------------
Waits(p) == \/ pc[p] \in {"before", "after", "lookup", "rounds", "begin"}
            \/ pc[p] = "rows" /\ left[p] > 0
Holds(p) == \E use \in Uses : <<p, use>> \in conns

\* Every connection is in use by a request that waits for another one.
CircularWait == /\ ~Available
                /\ \A p \in Procs : Holds(p) => Waits(p)

\* Mutants: the rows of review_rounds stay open after an error; no timeout
\* is set.
GiveUpKeepingRows(p) == /\ CircularWait /\ Waits(p)
                        /\ Goto(p, "failed")
                        /\ UNCHANGED <<conns, left>>
GiveUpNever(p) == FALSE /\ UNCHANGED vars

\* The context of a request ends when its client disconnects, and when the
\* server's ReadTimeout of 15 seconds passes; a request that waits for a
\* connection then fails and closes its rows.  A query takes milliseconds, so
\* only a request that is stuck gets so far.
GiveUp(p) == /\ CircularWait /\ Waits(p)
             /\ conns' = conns \ {<<p, use>> : use \in Uses}
             /\ Goto(p, "failed")
             /\ UNCHANGED left

\* The answer, or the error, is sent; the next request may come.
Respond(p) == /\ pc[p] \in {"answered", "failed"}
              /\ Goto(p, "idle")
              /\ UNCHANGED <<conns, left>>

Next == \/ \E p \in Procs : Ask(p) \/ StartAlone(p) \/ EndAlone(p) \/ GiveUp(p) \/ Respond(p)
        \/ \E r \in Readers : OpenRounds(r) \/ OpenItems(r) \/ CloseItems(r) \/ CloseRounds(r)
        \/ \E w \in Writers : BeginTx(w) \/ EndTx(w)

\* The pool hands a returned connection to the request that has waited for
\* one longest, a query on a local database ends, and a request that is stuck
\* times out.  Requests come or not as they like.
Fairness ==
  /\ \A p \in Procs : SF_vars(StartAlone(p)) /\ WF_vars(EndAlone(p)) /\ WF_vars(GiveUp(p))
  /\ \A r \in Readers :
       /\ SF_vars(OpenRounds(r)) /\ SF_vars(OpenItems(r))
       /\ WF_vars(CloseItems(r)) /\ WF_vars(CloseRounds(r))
  /\ \A w \in Writers : SF_vars(BeginTx(w)) /\ WF_vars(EndTx(w))

Spec == Init /\ [][Next]_vars /\ Fairness

-----------------------------------------------------------------------------
(* Properties *)

Places == {"idle", "before", "querying", "rounds", "rows", "items", "after", "finishing",
           "lookup", "looking", "begin", "tx", "answered", "failed"}

\* Nobody uses more connections than there are.
TypeOK ==
  /\ conns \subseteq Procs \X Uses
  /\ Cardinality(conns) <= PoolSize
  /\ pc \in [Procs -> Places]
  /\ left \in [Readers -> Nat]

\* The requests in flight never all wait for each other's connections.
NoCircularWait == ~CircularWait

\* Commands never take part in a circular wait: all connections are then held
\* by detail requests that have the rows of review_rounds open, and there are
\* at least as many of these as connections.
OnlyDetailsBlock ==
  CircularWait => /\ conns \subseteq Readers \X {"rounds"}
                  /\ Cardinality(Readers) >= PoolSize

\* A request that is not being served, or waits to be given its lock, keeps
\* no connection, however its last query ended.
NothingIsLeaked ==
  \A p \in Procs :
    pc[p] \in {"idle", "before", "rounds", "after", "lookup", "begin", "answered", "failed"}
      => ~Holds(p)

\* Every detail request is answered with the whole read model.
EveryDetailIsReturned == \A r \in Readers : pc[r] = "before" ~> pc[r] = "answered"

\* So it is, and every command gets to run beside the reads.
EveryRequestIsServed ==
  /\ EveryDetailIsReturned
  /\ \A w \in Writers : pc[w] = "lookup" ~> pc[w] = "answered"

\* Whatever waits for a connection ends, if only with a timeout.
EveryRequestEnds ==
  \A p \in Procs : pc[p] \in {"before", "lookup"} ~> pc[p] \in {"answered", "failed"}
=============================================================================
