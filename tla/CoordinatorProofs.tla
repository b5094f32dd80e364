------------------------- MODULE CoordinatorProofs --------------------------
(* Mutual exclusion of the coordinator, for any finite set of commands, any *)
(* keys and any addresses, and that it implements a mutex for each key.     *)
EXTENDS Coordinator, FiniteSetTheorems, TLAPS

\* The two halves of TableMatchesUsers.
EntriesCounted ==
  \A k \in Keys : /\ locks[k] # NoRef <=> Users(k) # {}
                  /\ locks[k] # NoRef => refs[locks[k]] = Cardinality(Users(k))
UsersShareTheRef ==
  \A p \in Procs : pc[p] # "idle" => key[p] \in Keys /\ locks[key[p]] = ref[p]

\* No lockRef serves two keys.
RefsDistinct ==
  \A k, l \in Keys : locks[k] = locks[l] /\ locks[k] # NoRef => k = l

\* A locked lockRef is held by the goroutine that locked it, and by no other.
HoldersHold ==
  /\ \A p \in Procs : pc[p] = "holding" => holder[ref[p]] = p
  /\ \A r \in Refs : holder[r] # Nobody =>
       pc[holder[r]] = "holding" /\ ref[holder[r]] = r

IInv == /\ TypeOK
        /\ UsersShareTheRef
        /\ EntriesCounted
        /\ RefsDistinct
        /\ HoldersHold

-----------------------------------------------------------------------------
LEMMA UsersFinite ==
  \A k \in Keys : IsFiniteSet(Users(k)) /\ Cardinality(Users(k)) \in Nat
<1> TAKE k \in Keys
<1>1. Users(k) \subseteq Procs
  BY DEF Users
<1> QED BY <1>1, CoordinatorAssumption, FS_Subset, FS_CardinalityType

\* The lockRef of a user is an address, not nil.
LEMMA UserHasRef ==
  ASSUME IInv, NEW p \in Procs, pc[p] # "idle"
  PROVE  /\ key[p] \in Keys /\ ref[p] \in Refs /\ locks[key[p]] = ref[p]
         /\ p \in Users(key[p]) /\ locks[key[p]] # NoRef
<1>1. key[p] \in Keys /\ locks[key[p]] = ref[p] /\ p \in Users(key[p])
  BY DEF IInv, UsersShareTheRef, Users
<1>2. locks[key[p]] # NoRef
  BY <1>1 DEF IInv, EntriesCounted
<1> QED BY <1>1, <1>2 DEF IInv, TypeOK

LEMMA InitIInv == Init => IInv
<1> SUFFICES ASSUME Init PROVE IInv
  OBVIOUS
<1>1. TypeOK /\ UsersShareTheRef /\ RefsDistinct /\ HoldersHold
  BY DEF Init, TypeOK, UsersShareTheRef, RefsDistinct, HoldersHold
<1>2. EntriesCounted
  BY DEF Init, EntriesCounted, Users
<1> QED BY <1>1, <1>2 DEF IInv

\* A new user of key k joins the users it had.
LEMMA UserJoins ==
  ASSUME TypeOK, NEW p \in Procs, NEW k \in Keys, pc[p] = "idle", Registered(p, k)
  PROVE  /\ Users(k)' = Users(k) \cup {p} /\ p \notin Users(k)
         /\ Cardinality(Users(k)') = Cardinality(Users(k)) + 1
         /\ \A l \in Keys : l # k => Users(l)' = Users(l)
<1>1. Users(k)' = Users(k) \cup {p} /\ p \notin Users(k)
  BY DEF Users, Registered, TypeOK
<1>2. Cardinality(Users(k)') = Cardinality(Users(k)) + 1
  BY <1>1, UsersFinite, FS_AddElement
<1>3. ASSUME NEW l \in Keys, l # k PROVE Users(l)' = Users(l)
  BY <1>3 DEF Users, Registered, TypeOK
<1> QED BY <1>1, <1>2, <1>3

LEMMA JoinStep ==
  ASSUME IInv, NEW p \in Procs, NEW k \in Keys, Join(p, k)
  PROVE  IInv'
<1> USE DEF Join, Registered
<1>1. TypeOK'
  BY DEF IInv, TypeOK
<1>2. UsersShareTheRef' /\ RefsDistinct'
  BY DEF IInv, TypeOK, UsersShareTheRef, RefsDistinct
<1>3. EntriesCounted'
  <2>1. /\ Users(k)' = Users(k) \cup {p}
        /\ Cardinality(Users(k)') = Cardinality(Users(k)) + 1
        /\ \A l \in Keys : l # k => Users(l)' = Users(l)
    BY UserJoins DEF IInv
  <2>2. refs'[locks[k]] = refs[locks[k]] + 1 /\ locks' = locks
    BY DEF IInv, TypeOK
  <2>3. \A l \in Keys : l # k /\ locks[l] # NoRef => refs'[locks[l]] = refs[locks[l]]
    BY DEF IInv, TypeOK, RefsDistinct
  <2>4. (locks[k] # NoRef <=> Users(k)' # {}) /\ refs'[locks[k]] = Cardinality(Users(k)')
    BY <2>1, <2>2 DEF IInv, EntriesCounted
  <2> QED BY <2>1, <2>2, <2>3, <2>4 DEF IInv, EntriesCounted
<1>4. HoldersHold'
  BY CoordinatorAssumption DEF IInv, TypeOK, HoldersHold
<1> QED BY <1>1, <1>2, <1>3, <1>4 DEF IInv

LEMMA CreateStep ==
  ASSUME IInv, NEW p \in Procs, NEW k \in Keys, Create(p, k)
  PROVE  IInv'
<1> USE DEF Registered
<1>1. PICK r \in Refs : /\ Unused(r)
                        /\ locks' = [locks EXCEPT ![k] = r]
                        /\ refs' = [refs EXCEPT ![r] = 1]
                        /\ holder' = [holder EXCEPT ![r] = Nobody]
                        /\ ref' = [ref EXCEPT ![p] = r]
  BY DEF Create
<1>2. pc[p] = "idle" /\ locks[k] = NoRef /\ Registered(p, k) /\ r # NoRef
  BY CoordinatorAssumption DEF Create
<1>3. TypeOK'
  BY <1>1, <1>2 DEF IInv, TypeOK
<1>4. Users(k) = {}
  BY <1>2 DEF IInv, EntriesCounted
<1>5. UsersShareTheRef'
  <2> SUFFICES ASSUME NEW q \in Procs, pc'[q] # "idle"
               PROVE  key'[q] \in Keys /\ locks'[key'[q]] = ref'[q]
    BY DEF UsersShareTheRef
  <2>1. CASE q = p
    BY <1>1, <1>2, <2>1 DEF IInv, TypeOK
  <2>2. CASE q # p
    <3>1. pc[q] # "idle" /\ key'[q] = key[q] /\ ref'[q] = ref[q]
      BY <1>1, <1>2, <2>2 DEF IInv, TypeOK
    <3>2. key[q] # k
      BY <1>4, <3>1 DEF Users
    <3> QED BY <1>1, <3>1, <3>2 DEF IInv, TypeOK, UsersShareTheRef
  <2> QED BY <2>1, <2>2
<1>6. RefsDistinct'
  BY <1>1, <1>2 DEF IInv, TypeOK, RefsDistinct, Unused
<1>7. EntriesCounted'
  <2>1. /\ Users(k)' = Users(k) \cup {p}
        /\ Cardinality(Users(k)') = Cardinality(Users(k)) + 1
        /\ \A l \in Keys : l # k => Users(l)' = Users(l)
    BY <1>2, UserJoins DEF IInv
  <2>2. Cardinality(Users(k)') = 1
    BY <1>4, <2>1, FS_EmptySet
  <2>3. locks'[k] = r /\ refs'[r] = 1
    BY <1>1 DEF IInv, TypeOK
  <2>4. \A l \in Keys : l # k => /\ locks'[l] = locks[l]
                                 /\ locks[l] # NoRef => refs'[locks[l]] = refs[locks[l]]
    BY <1>1 DEF IInv, TypeOK, Unused
  <2> QED BY <1>2, <2>1, <2>2, <2>3, <2>4 DEF IInv, EntriesCounted
<1>8. HoldersHold'
  <2>1. holder[r] = Nobody
    BY <1>1 DEF IInv, TypeOK, HoldersHold, Unused
  <2> QED BY <1>1, <1>2, <2>1, CoordinatorAssumption DEF IInv, TypeOK, HoldersHold
<1> QED BY <1>3, <1>5, <1>6, <1>7, <1>8 DEF IInv

\* Locking and unlocking a lockRef leave the table and its users alone.
LEMMA TableUnchanged ==
  ASSUME IInv, UNCHANGED <<locks, refs, key, ref>>,
         \A p \in Procs : pc'[p] = "idle" <=> pc[p] = "idle"
  PROVE  UsersShareTheRef' /\ EntriesCounted' /\ RefsDistinct'
<1>1. \A k \in Keys : Users(k)' = Users(k)
  BY DEF Users
<1>2. UsersShareTheRef' /\ RefsDistinct'
  BY DEF IInv, UsersShareTheRef, RefsDistinct
<1>3. EntriesCounted'
  BY <1>1 DEF IInv, EntriesCounted
<1> QED BY <1>2, <1>3

LEMMA AcquireStep ==
  ASSUME IInv, NEW p \in Procs, Acquire(p)
  PROVE  IInv'
<1> USE DEF Acquire
<1>1. ref[p] \in Refs
  BY UserHasRef
<1>2. TypeOK'
  BY <1>1 DEF IInv, TypeOK
<1>3. UsersShareTheRef' /\ EntriesCounted' /\ RefsDistinct'
  BY TableUnchanged DEF IInv, TypeOK
<1>4. HoldersHold'
  BY <1>1, CoordinatorAssumption DEF IInv, TypeOK, HoldersHold
<1> QED BY <1>2, <1>3, <1>4 DEF IInv

LEMMA ReleaseStep ==
  ASSUME IInv, NEW p \in Procs, Release(p)
  PROVE  IInv'
<1> USE DEF Release
<1>1. ref[p] \in Refs
  BY UserHasRef
<1>2. TypeOK'
  BY <1>1 DEF IInv, TypeOK
<1>3. UsersShareTheRef' /\ EntriesCounted' /\ RefsDistinct'
  BY TableUnchanged DEF IInv, TypeOK
<1>4. HoldersHold'
  BY <1>1, CoordinatorAssumption DEF IInv, TypeOK, HoldersHold
<1> QED BY <1>2, <1>3, <1>4 DEF IInv

LEMMA DeregisterStep ==
  ASSUME IInv, NEW p \in Procs, Deregister(p)
  PROVE  IInv'
<1>0. PICK k \in Keys : k = key[p]
  BY UserHasRef DEF Deregister
<1> DEFINE left == refs[ref[p]] - 1
<1>1. /\ pc[p] = "releasing"
      /\ refs' = [refs EXCEPT ![ref[p]] = left]
      /\ locks' = Dropped(k, left)
      /\ pc' = [pc EXCEPT ![p] = "idle"]
      /\ key' = [key EXCEPT ![p] = NoKey]
      /\ ref' = [ref EXCEPT ![p] = NoRef]
      /\ UNCHANGED holder
  BY <1>0 DEF Deregister
<1>2. k \in Keys /\ ref[p] \in Refs /\ locks[k] = ref[p] /\ p \in Users(k) /\ locks[k] # NoRef
  BY <1>0, <1>1, UserHasRef
<1>3. /\ Users(k)' = Users(k) \ {p}
      /\ \A l \in Keys : l # k => Users(l)' = Users(l)
  <2>1. Users(k)' = Users(k) \ {p}
    BY <1>1, <1>2 DEF Users, IInv, TypeOK
  <2>2. ASSUME NEW l \in Keys, l # k PROVE Users(l)' = Users(l)
    BY <1>1, <1>2, <2>2 DEF Users, IInv, TypeOK
  <2> QED BY <2>1, <2>2
<1>4. /\ refs[ref[p]] = Cardinality(Users(k)) /\ left \in Nat
      /\ Cardinality(Users(k)') = left
      /\ left = 0 <=> Users(k)' = {}
  <2>1. refs[ref[p]] = Cardinality(Users(k))
    BY <1>2 DEF IInv, EntriesCounted
  <2>2. IsFiniteSet(Users(k)) /\ Cardinality(Users(k)) \in Nat
    BY <1>2, UsersFinite
  <2>3. Cardinality(Users(k) \ {p}) = Cardinality(Users(k)) - 1 /\ IsFiniteSet(Users(k) \ {p})
    BY <1>2, <2>2, FS_RemoveElement
  <2>4. Cardinality(Users(k) \ {p}) \in Nat
    BY <2>3, FS_CardinalityType
  <2>5. Cardinality(Users(k) \ {p}) = 0 <=> Users(k) \ {p} = {}
    BY <2>3, FS_EmptySet
  <2> QED BY <1>3, <2>1, <2>2, <2>3, <2>4, <2>5
<1>5. /\ locks' \in [Keys -> Refs \cup {NoRef}]
      /\ locks'[k] = IF left = 0 THEN NoRef ELSE locks[k]
      /\ \A l \in Keys : l # k => locks'[l] = locks[l]
  BY <1>1, <1>2 DEF Dropped, IInv, TypeOK
<1> HIDE DEF left
<1>6. TypeOK'
  BY <1>1, <1>2, <1>4, <1>5 DEF IInv, TypeOK
<1>7. UsersShareTheRef'
  <2> SUFFICES ASSUME NEW q \in Procs, pc'[q] # "idle"
               PROVE  key'[q] \in Keys /\ locks'[key'[q]] = ref'[q]
    BY DEF UsersShareTheRef
  <2>1. q # p /\ pc[q] # "idle" /\ key'[q] = key[q] /\ ref'[q] = ref[q]
    BY <1>1 DEF IInv, TypeOK
  <2>2. key[q] \in Keys /\ locks[key[q]] = ref[q]
    BY <2>1 DEF IInv, UsersShareTheRef
  <2>3. key[q] = k => left # 0
    <3> SUFFICES ASSUME key[q] = k PROVE q \in Users(k)'
      BY <1>4
    <3> QED BY <1>3, <2>1 DEF Users
  <2> QED BY <1>5, <2>1, <2>2, <2>3
<1>8. RefsDistinct'
  BY <1>5 DEF IInv, RefsDistinct
<1>9. EntriesCounted'
  <2>1. refs'[ref[p]] = left
    BY <1>1, <1>2 DEF IInv, TypeOK
  <2>2. \A l \in Keys : l # k /\ locks[l] # NoRef => refs'[locks[l]] = refs[locks[l]]
    BY <1>1, <1>2 DEF IInv, TypeOK, RefsDistinct
  <2>3. locks'[k] # NoRef <=> Users(k)' # {}
    BY <1>2, <1>4, <1>5
  <2>4. locks'[k] # NoRef => refs'[locks'[k]] = Cardinality(Users(k)')
    BY <1>2, <1>4, <1>5, <2>1
  <2>5. ASSUME NEW l \in Keys, l # k
        PROVE  /\ locks'[l] # NoRef <=> Users(l)' # {}
               /\ locks'[l] # NoRef => refs'[locks'[l]] = Cardinality(Users(l)')
    BY <1>3, <1>5, <2>2, <2>5 DEF IInv, EntriesCounted
  <2> QED BY <2>3, <2>4, <2>5 DEF EntriesCounted
<1>10. HoldersHold'
  <2>1. ASSUME NEW r \in Refs, holder[r] # Nobody
        PROVE  holder[r] # p /\ pc[holder[r]] = "holding" /\ ref[holder[r]] = r
               /\ holder[r] \in Procs
    BY <1>1, <2>1 DEF IInv, TypeOK, HoldersHold
  <2> QED BY <1>1, <2>1 DEF IInv, TypeOK, HoldersHold
<1> QED BY <1>6, <1>7, <1>8, <1>9, <1>10 DEF IInv

LEMMA StutterStep == ASSUME IInv, UNCHANGED vars PROVE IInv'
<1>1. UsersShareTheRef' /\ EntriesCounted' /\ RefsDistinct'
  BY TableUnchanged DEF vars
<1> QED BY <1>1 DEF IInv, vars, TypeOK, HoldersHold

LEMMA NextIInv == IInv /\ [Next]_vars => IInv'
<1> SUFFICES ASSUME IInv, [Next]_vars PROVE IInv'
  OBVIOUS
<1>1. ASSUME NEW p \in Procs, NEW k \in Keys, Join(p, k) PROVE IInv'
  BY <1>1, JoinStep
<1>2. ASSUME NEW p \in Procs, NEW k \in Keys, Create(p, k) PROVE IInv'
  BY <1>2, CreateStep
<1>3. ASSUME NEW p \in Procs, Acquire(p) PROVE IInv'
  BY <1>3, AcquireStep
<1>4. ASSUME NEW p \in Procs, Release(p) PROVE IInv'
  BY <1>4, ReleaseStep
<1>5. ASSUME NEW p \in Procs, Deregister(p) PROVE IInv'
  BY <1>5, DeregisterStep
<1>6. CASE UNCHANGED vars
  BY <1>6, StutterStep
<1> QED BY <1>1, <1>2, <1>3, <1>4, <1>5, <1>6 DEF Next

\* The strengthening holds in every reachable state.
THEOREM Invariance == Spec => []IInv
BY InitIInv, NextIInv, PTL DEF Spec

\* Every variable keeps its type.
THEOREM TypeCorrect == Spec => []TypeOK
<1>1. IInv => TypeOK
  BY DEF IInv
<1> QED BY <1>1, Invariance, PTL

\* The table holds exactly the keys in use, counts their users, and gives all
\* of them the same lockRef: nobody is left with one that was dropped.
THEOREM TableCorrect == Spec => []TableMatchesUsers
<1>1. IInv => TableMatchesUsers
  BY DEF IInv, TableMatchesUsers, EntriesCounted, UsersShareTheRef
<1> QED BY <1>1, Invariance, PTL

\* Two commands are never inside the same key, and one waits only for a holder
\* of its own key.
THEOREM Exclusion == Spec => []ExclusionPerKey
<1>1. ASSUME IInv, NEW p \in Procs, pc[p] = "waiting", holder[ref[p]] # Nobody
      PROVE  pc[holder[ref[p]]] = "holding" /\ key[holder[ref[p]]] = key[p]
  <2> DEFINE q == holder[ref[p]]
  <2>1. /\ key[p] \in Keys /\ ref[p] \in Refs /\ locks[key[p]] = ref[p]
        /\ locks[key[p]] # NoRef
    BY <1>1, UserHasRef
  <2>2. q \in Procs /\ pc[q] = "holding" /\ ref[q] = ref[p]
    BY <1>1, <2>1 DEF IInv, TypeOK, HoldersHold
  <2>3. key[q] \in Keys /\ locks[key[q]] = ref[q]
    BY <1>1, <2>2, UserHasRef
  <2> QED BY <1>1, <2>1, <2>2, <2>3 DEF IInv, RefsDistinct
<1>2. IInv => ExclusionPerKey
  BY <1>1 DEF IInv, ExclusionPerKey, UsersShareTheRef, HoldersHold
<1> QED BY <1>2, Invariance, PTL

-----------------------------------------------------------------------------
(* The refinement: a mutex for each key *)

\* The state of KeyedMutex that a state of the coordinator stands for.
Insider(place, wanted, k) ==
  IF \E p \in Procs : place[p] = "holding" /\ wanted[p] = k
  THEN CHOOSE p \in Procs : place[p] = "holding" /\ wanted[p] = k
  ELSE Nobody
AbstractWant == [p \in Procs |-> IF pc[p] \in {"waiting", "holding"} THEN key[p] ELSE NoKey]
AbstractOwner == [k \in Keys |-> Insider(pc, key, k)]

\* No two goroutines are inside one key.
OneInside(place, wanted) ==
  \A p, q \in Procs :
    place[p] = "holding" /\ place[q] = "holding" /\ wanted[p] = wanted[q] => p = q

LEMMA InsiderIs ==
  ASSUME NEW place, NEW wanted, NEW k, NEW p \in Procs, OneInside(place, wanted),
         place[p] = "holding", wanted[p] = k
  PROVE  Insider(place, wanted, k) = p
<1>1. \E q \in Procs : place[q] = "holding" /\ wanted[q] = k
  OBVIOUS
<1>2. PICK q \in Procs : /\ place[q] = "holding" /\ wanted[q] = k
                         /\ Insider(place, wanted, k) = q
  BY <1>1 DEF Insider
<1> QED BY <1>2 DEF OneInside

LEMMA NoInsider ==
  ASSUME NEW place, NEW wanted, NEW k,
         \A p \in Procs : ~(place[p] = "holding" /\ wanted[p] = k)
  PROVE  Insider(place, wanted, k) = Nobody
BY DEF Insider

\* A key has the same insider as long as nobody enters or leaves it.
LEMMA InsiderKept ==
  ASSUME OneInside(pc, key), OneInside(pc', key'), NEW k \in Keys,
         \A p \in Procs : pc[p] = "holding" /\ key[p] = k <=> pc'[p] = "holding" /\ key'[p] = k
  PROVE  Insider(pc', key', k) = Insider(pc, key, k)
<1>1. ASSUME NEW p \in Procs, pc[p] = "holding", key[p] = k
      PROVE  Insider(pc', key', k) = Insider(pc, key, k)
  BY <1>1, InsiderIs
<1>2. CASE \A p \in Procs : ~(pc[p] = "holding" /\ key[p] = k)
  BY <1>2, NoInsider
<1> QED BY <1>1, <1>2

LEMMA OneInsideHolds ==
  /\ IInv => OneInside(pc, key)
  /\ IInv' => OneInside(pc', key')
BY DEF IInv, UsersShareTheRef, HoldersHold, OneInside

\* Registering asks for the key.
LEMMA RegisterRefines ==
  ASSUME IInv, IInv', NEW p \in Procs, NEW k \in Keys, pc[p] = "idle", Registered(p, k)
  PROVE  /\ AbstractWant[p] = NoKey
         /\ AbstractWant' = [AbstractWant EXCEPT ![p] = k]
         /\ AbstractOwner' = AbstractOwner
<1> USE DEF Registered
<1>1. AbstractWant[p] = NoKey /\ AbstractWant' = [AbstractWant EXCEPT ![p] = k]
  BY DEF AbstractWant, IInv, TypeOK
<1>2. ASSUME NEW l \in Keys PROVE Insider(pc', key', l) = Insider(pc, key, l)
  <2>1. \A q \in Procs : pc[q] = "holding" /\ key[q] = l <=> pc'[q] = "holding" /\ key'[q] = l
    BY DEF IInv, TypeOK
  <2> QED BY <2>1, OneInsideHolds, InsiderKept
<1> QED BY <1>1, <1>2 DEF AbstractOwner

\* Locking the lockRef enters the key: it is free only when nobody is inside.
LEMMA AcquireRefines ==
  ASSUME IInv, IInv', NEW p \in Procs, Acquire(p)
  PROVE  /\ AbstractWant[p] = key[p] /\ key[p] \in Keys
         /\ AbstractOwner[key[p]] = Nobody
         /\ AbstractOwner' = [AbstractOwner EXCEPT ![key[p]] = p]
         /\ AbstractWant' = AbstractWant
<1>1. /\ pc[p] = "waiting" /\ holder[ref[p]] = Nobody
      /\ pc' = [pc EXCEPT ![p] = "holding"] /\ key' = key
  BY DEF Acquire
<1>2. key[p] \in Keys /\ locks[key[p]] = ref[p]
  BY <1>1, UserHasRef
<1>3. AbstractWant[p] = key[p] /\ AbstractWant' = AbstractWant
  BY <1>1 DEF AbstractWant, IInv, TypeOK
<1>4. Insider(pc, key, key[p]) = Nobody
  <2>1. ASSUME NEW q \in Procs, pc[q] = "holding", key[q] = key[p] PROVE FALSE
    <3>1. ref[q] = ref[p] /\ holder[ref[q]] = q
      BY <1>2, <2>1 DEF IInv, UsersShareTheRef, HoldersHold
    <3> QED BY <1>1, <3>1, CoordinatorAssumption
  <2> QED BY <2>1, NoInsider
<1>5. Insider(pc', key', key[p]) = p
  <2>1. pc'[p] = "holding" /\ key'[p] = key[p]
    BY <1>1 DEF IInv, TypeOK
  <2> QED BY <2>1, OneInsideHolds, InsiderIs
<1>6. ASSUME NEW l \in Keys, l # key[p] PROVE Insider(pc', key', l) = Insider(pc, key, l)
  <2>1. \A q \in Procs : pc[q] = "holding" /\ key[q] = l <=> pc'[q] = "holding" /\ key'[q] = l
    BY <1>1, <1>6 DEF IInv, TypeOK
  <2> QED BY <2>1, OneInsideHolds, InsiderKept
<1> QED BY <1>2, <1>3, <1>4, <1>5, <1>6 DEF AbstractOwner

\* Unlocking the lockRef leaves the key.
LEMMA ReleaseRefines ==
  ASSUME IInv, IInv', NEW p \in Procs, Release(p)
  PROVE  /\ key[p] \in Keys
         /\ AbstractOwner[key[p]] = p
         /\ AbstractOwner' = [AbstractOwner EXCEPT ![key[p]] = Nobody]
         /\ AbstractWant' = [AbstractWant EXCEPT ![p] = NoKey]
<1>1. /\ pc[p] = "holding" /\ pc' = [pc EXCEPT ![p] = "releasing"] /\ key' = key
  BY DEF Release
<1>2. key[p] \in Keys
  BY <1>1, UserHasRef
<1>3. AbstractWant' = [AbstractWant EXCEPT ![p] = NoKey]
  BY <1>1 DEF AbstractWant, IInv, TypeOK
<1>4. Insider(pc, key, key[p]) = p
  BY <1>1, OneInsideHolds, InsiderIs
<1>5. Insider(pc', key', key[p]) = Nobody
  <2>1. \A q \in Procs : ~(pc'[q] = "holding" /\ key'[q] = key[p])
    BY <1>1, OneInsideHolds DEF OneInside, IInv, TypeOK
  <2> QED BY <2>1, NoInsider
<1>6. ASSUME NEW l \in Keys, l # key[p] PROVE Insider(pc', key', l) = Insider(pc, key, l)
  <2>1. \A q \in Procs : pc[q] = "holding" /\ key[q] = l <=> pc'[q] = "holding" /\ key'[q] = l
    BY <1>1, <1>6 DEF IInv, TypeOK
  <2> QED BY <2>1, OneInsideHolds, InsiderKept
<1> QED BY <1>2, <1>3, <1>4, <1>5, <1>6 DEF AbstractOwner

\* Deregistering is invisible: the key was left before.
LEMMA DeregisterRefines ==
  ASSUME IInv, IInv', NEW p \in Procs, Deregister(p)
  PROVE  AbstractWant' = AbstractWant /\ AbstractOwner' = AbstractOwner
<1>1. /\ pc[p] = "releasing" /\ pc' = [pc EXCEPT ![p] = "idle"]
      /\ key' = [key EXCEPT ![p] = NoKey]
  BY DEF Deregister
<1>2. AbstractWant' = AbstractWant
  BY <1>1 DEF AbstractWant, IInv, TypeOK
<1>3. ASSUME NEW l \in Keys PROVE Insider(pc', key', l) = Insider(pc, key, l)
  <2>1. \A q \in Procs : pc[q] = "holding" /\ key[q] = l <=> pc'[q] = "holding" /\ key'[q] = l
    BY <1>1 DEF IInv, TypeOK
  <2> QED BY <2>1, OneInsideHolds, InsiderKept
<1> QED BY <1>2, <1>3 DEF AbstractOwner

LEMMA StepRefines ==
  IInv /\ IInv' /\ [Next]_vars => [Mutex!MutexNext]_(Mutex!mutexVars)
<1> SUFFICES ASSUME IInv, IInv', [Next]_vars
             PROVE  Mutex!MutexNext \/ UNCHANGED <<AbstractWant, AbstractOwner>>
  BY DEF Mutex!mutexVars, AbstractWant, AbstractOwner, Insider
<1>1. ASSUME NEW p \in Procs, NEW k \in Keys, Join(p, k) \/ Create(p, k) PROVE Mutex!MutexNext
  <2>1. pc[p] = "idle" /\ Registered(p, k)
    BY <1>1 DEF Join, Create
  <2>2. Mutex!Request(p, k)
    BY <2>1, RegisterRefines DEF Mutex!Request, AbstractWant, AbstractOwner, Insider
  <2> QED BY <2>2 DEF Mutex!MutexNext
<1>2. ASSUME NEW p \in Procs, Acquire(p) PROVE Mutex!MutexNext
  <2>1. PICK k \in Keys : k = key[p]
    BY <1>2, AcquireRefines
  <2>2. Mutex!Enter(p, k)
    BY <2>1, <1>2, AcquireRefines DEF Mutex!Enter, AbstractWant, AbstractOwner, Insider
  <2> QED BY <2>2 DEF Mutex!MutexNext
<1>3. ASSUME NEW p \in Procs, Release(p) PROVE Mutex!MutexNext
  <2>1. PICK k \in Keys : k = key[p]
    BY <1>3, ReleaseRefines
  <2>2. Mutex!Leave(p, k)
    BY <2>1, <1>3, ReleaseRefines DEF Mutex!Leave, AbstractWant, AbstractOwner, Insider
  <2> QED BY <2>2 DEF Mutex!MutexNext
<1>4. ASSUME NEW p \in Procs, Deregister(p) PROVE UNCHANGED <<AbstractWant, AbstractOwner>>
  BY <1>4, DeregisterRefines
<1>5. CASE UNCHANGED vars
  BY <1>5 DEF vars, AbstractWant, AbstractOwner, Insider
<1> QED BY <1>1, <1>2, <1>3, <1>4, <1>5 DEF Next

\* The safety part of ImplementsKeyedMutex: whatever addresses are used again
\* and in whatever order goroutines register and deregister, what they see is
\* one mutex for each key.
THEOREM CoordinatorIsKeyedMutex ==
  Spec => Mutex!MutexInit /\ [][Mutex!MutexNext]_(Mutex!mutexVars)
<1>1. Init => Mutex!MutexInit
  BY DEF Init, Mutex!MutexInit
<1> QED BY <1>1, StepRefines, Invariance, PTL DEF Spec
=============================================================================
