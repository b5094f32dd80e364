----------------------------- MODULE KeyedMutex -----------------------------
(***************************************************************************)
(* What the command service relies on: a mutex for each key.  A process    *)
(* asks for a key, enters when nobody is in, and leaves.  Coordinator      *)
(* implements it with a table of mutexes that are created and dropped on   *)
(* demand; CommandService is written against it.  Both instantiate it.     *)
(***************************************************************************)
CONSTANTS Procs, Keys, Nobody, NoKey

VARIABLES
  want,   \* the key a process has asked for and not left, or NoKey
  owner   \* the process inside each key, or Nobody

mutexVars == <<want, owner>>

MutexInit == /\ want = [p \in Procs |-> NoKey]
             /\ owner = [k \in Keys |-> Nobody]

Request(p, k) == /\ want[p] = NoKey
                 /\ want' = [want EXCEPT ![p] = k]
                 /\ UNCHANGED owner

Enter(p, k) == /\ want[p] = k
               /\ owner[k] = Nobody
               /\ owner' = [owner EXCEPT ![k] = p]
               /\ UNCHANGED want

Leave(p, k) == /\ owner[k] = p
               /\ owner' = [owner EXCEPT ![k] = Nobody]
               /\ want' = [want EXCEPT ![p] = NoKey]

MutexNext == \E p \in Procs, k \in Keys : Request(p, k) \/ Enter(p, k) \/ Leave(p, k)

\* A key that is left is not withheld from a waiting process for ever.
MutexFairness == \A p \in Procs, k \in Keys : /\ SF_mutexVars(Enter(p, k))
                                              /\ WF_mutexVars(Leave(p, k))

MutexSpec == MutexInit /\ [][MutexNext]_mutexVars /\ MutexFairness
=============================================================================
