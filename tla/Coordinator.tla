---------------------------- MODULE Coordinator -----------------------------
(***************************************************************************)
(* The coordinator of internal/application: a table from lock keys to      *)
(* reference-counted mutexes, itself guarded by a mutex.                   *)
(*                                                                         *)
(* lock() registers with the key's lockRef, creating it if there is none,  *)
(* and then blocks on it; the returned unlock() first releases the lockRef *)
(* and then deregisters, dropping the table entry with its last user.  The *)
(* table's own mutex makes Register and Deregister atomic; everything else *)
(* interleaves.  In particular a lockRef is unlocked before its user is    *)
(* deregistered, and a newcomer may register between the two.              *)
(***************************************************************************)
EXTENDS Naturals, FiniteSets

CONSTANTS
  Procs,    \* goroutines, one for each command in flight
  Keys,     \* lock keys: drill ids, and "create:" with a request id
  Refs,     \* addresses of lockRefs; one is used again when collected
  Nobody, NoKey, NoRef

ASSUME CoordinatorAssumption ==
  /\ IsFiniteSet(Procs)
  /\ Nobody \notin Procs /\ NoKey \notin Keys /\ NoRef \notin Refs

VARIABLES
  locks,    \* coordinator.locks: the lockRef of a key, or NoRef
  refs,     \* lockRef.refs
  holder,   \* who holds lockRef.mu, or Nobody
  pc,       \* where a goroutine is in lock() or unlock()
  key,      \* the key it is working on
  ref       \* the lockRef its lock() call returned

vars == <<locks, refs, holder, pc, key, ref>>

Users(k) == {p \in Procs : pc[p] # "idle" /\ key[p] = k}

\* A lockRef nothing points to may be the next one to be allocated.
Unused(r) == /\ \A k \in Keys : locks[k] # r
             /\ \A p \in Procs : pc[p] # "idle" => ref[p] # r

Init ==
  /\ locks = [k \in Keys |-> NoRef]
  /\ refs = [r \in Refs |-> 0]
  /\ holder = [r \in Refs |-> Nobody]
  /\ pc = [p \in Procs |-> "idle"]
  /\ key = [p \in Procs |-> NoKey]
  /\ ref = [p \in Procs |-> NoRef]

Registered(p, k) == /\ pc' = [pc EXCEPT ![p] = "waiting"]
                    /\ key' = [key EXCEPT ![p] = k]

\* The key has a lockRef: one more user.
Join(p, k) ==
  /\ pc[p] = "idle"
  /\ locks[k] # NoRef
  /\ refs' = [refs EXCEPT ![locks[k]] = @ + 1]
  /\ ref' = [ref EXCEPT ![p] = locks[k]]
  /\ Registered(p, k)
  /\ UNCHANGED <<locks, holder>>

\* It has none: a new one with one user.
Create(p, k) ==
  /\ pc[p] = "idle"
  /\ locks[k] = NoRef
  /\ \E r \in Refs :
       /\ Unused(r)
       /\ locks' = [locks EXCEPT ![k] = r]
       /\ refs' = [refs EXCEPT ![r] = 1]
       /\ holder' = [holder EXCEPT ![r] = Nobody]
       /\ ref' = [ref EXCEPT ![p] = r]
  /\ Registered(p, k)

Acquire(p) ==
  /\ pc[p] = "waiting"
  /\ holder[ref[p]] = Nobody
  /\ holder' = [holder EXCEPT ![ref[p]] = p]
  /\ pc' = [pc EXCEPT ![p] = "holding"]
  /\ UNCHANGED <<locks, refs, key, ref>>

\* Mutant: unlock() deregisters and leaves the lockRef locked.
ReleaseLocked(p) ==
  /\ pc[p] = "holding"
  /\ pc' = [pc EXCEPT ![p] = "releasing"]
  /\ UNCHANGED <<locks, refs, holder, key, ref>>

Release(p) ==
  /\ pc[p] = "holding"
  /\ holder' = [holder EXCEPT ![ref[p]] = Nobody]
  /\ pc' = [pc EXCEPT ![p] = "releasing"]
  /\ UNCHANGED <<locks, refs, key, ref>>

\* Mutants: the entry is dropped with a user left, or never.
DroppedEarly(k, left) == IF left <= 1 THEN [locks EXCEPT ![k] = NoRef] ELSE locks
NeverDropped(k, left) == locks

\* delete(c.locks, key) when no user is left.
Dropped(k, left) == IF left = 0 THEN [locks EXCEPT ![k] = NoRef] ELSE locks

Deregister(p) ==
  /\ pc[p] = "releasing"
  /\ refs' = [refs EXCEPT ![ref[p]] = @ - 1]
  /\ locks' = Dropped(key[p], refs[ref[p]] - 1)
  /\ pc' = [pc EXCEPT ![p] = "idle"]
  /\ key' = [key EXCEPT ![p] = NoKey]
  /\ ref' = [ref EXCEPT ![p] = NoRef]
  /\ UNCHANGED holder

Next == \E p \in Procs :
  \/ \E k \in Keys : Join(p, k) \/ Create(p, k)
  \/ Acquire(p)
  \/ Release(p)
  \/ Deregister(p)

\* A command that holds its lock finishes, and the scheduler runs what can
\* run.  sync.Mutex hands itself to a waiter that was passed over for 1 ms,
\* so a goroutine that finds it free again and again gets it.
Fairness == \A p \in Procs : /\ SF_vars(Acquire(p))
                             /\ WF_vars(Release(p))
                             /\ WF_vars(Deregister(p))

Spec == Init /\ [][Next]_vars /\ Fairness

-----------------------------------------------------------------------------
(* Properties *)

\* Every variable has its type in coordinator.go.
TypeOK ==
  /\ locks \in [Keys -> Refs \cup {NoRef}]
  /\ refs \in [Refs -> Nat]
  /\ holder \in [Refs -> Procs \cup {Nobody}]
  /\ pc \in [Procs -> {"idle", "waiting", "holding", "releasing"}]
  /\ key \in [Procs -> Keys \cup {NoKey}]
  /\ ref \in [Procs -> Refs \cup {NoRef}]

\* The table has an entry exactly for the keys in use, it counts their users,
\* and all of them use the lockRef newcomers find, from lock() until unlock()
\* has returned: no entry is dropped under a user and none stays behind.
TableMatchesUsers ==
  /\ \A k \in Keys :
       /\ locks[k] # NoRef <=> Users(k) # {}
       /\ locks[k] # NoRef => refs[locks[k]] = Cardinality(Users(k))
  /\ \A p \in Procs : pc[p] # "idle" => key[p] \in Keys /\ locks[key[p]] = ref[p]

\* Two commands never hold the same key, and a command waits only for a
\* holder of its own key, although addresses are used again.
ExclusionPerKey ==
  /\ \A p, q \in Procs :
       pc[p] = "holding" /\ pc[q] = "holding" /\ key[p] = key[q] => p = q
  /\ \A p \in Procs : pc[p] = "waiting" /\ holder[ref[p]] # Nobody =>
       /\ pc[holder[ref[p]]] = "holding"
       /\ key[holder[ref[p]]] = key[p]

\* Every command that asks for its lock gets it.
EveryWaiterEnters == \A p \in Procs : pc[p] = "waiting" ~> pc[p] = "holding"

\* The coordinator implements a mutex for each key.  A process that has
\* unlocked its lockRef has left its key.
Mutex == INSTANCE KeyedMutex WITH
  want  <- [p \in Procs |-> IF pc[p] \in {"waiting", "holding"} THEN key[p] ELSE NoKey],
  owner <- [k \in Keys |-> IF \E p \in Procs : pc[p] = "holding" /\ key[p] = k
                           THEN CHOOSE p \in Procs : pc[p] = "holding" /\ key[p] = k
                           ELSE Nobody]
ImplementsKeyedMutex == Mutex!MutexSpec
=============================================================================
