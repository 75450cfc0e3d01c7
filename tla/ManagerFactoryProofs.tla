------------------------- MODULE ManagerFactoryProofs -------------------------
(***************************************************************************)
(* The safety of ManagerFor for any number of callers, accounts, regions,  *)
(* roles and calls.                                                        *)
(***************************************************************************)
EXTENDS ManagerFactory, TLAPS

\* A cached manager is one of its own account, region and role, and an id that
\* a call has been served with is in the cache for good: nothing is ever removed
\* from it.
CacheInv ==
    /\ \A i \in Ids : rmCache[i] # NoManager => rmCache[i].for = i
    /\ \A i \in served : rmCache[i] # NoManager
    /\ \A c \in Callers : had[c] => want[c] \in served

IInv == TypeOK /\ LockDiscipline /\ CacheInv /\ NoCreateAfterServed /\ ManagerOfOwnRole

\* A new manager differs from the marker of an empty cache entry.
LEMMA NewManager ==
    ASSUME NEW id \in Ids, NEW c \in Callers, NEW n \in Nat
    PROVE  LET rm == [for |-> id, by |-> c, call |-> n]
           IN  rm \in Managers /\ rm # NoManager /\ rm.for = id
BY FactoryConstants DEF Managers

\* At the start nobody holds the mutex and the cache is empty.
LEMMA InitInv == Init => IInv
BY FactoryConstants
   DEF Init, IInv, TypeOK, LockDiscipline, CacheInv, NoCreateAfterServed,
       ManagerOfOwnRole, Places

\* A call begins: whether its id is served is noted in had.
LEMMA CallInv ==
    ASSUME IInv, NEW c \in Callers, NEW id \in Ids, Call(c, id)
    PROVE  IInv'
<1> USE DEF IInv, Call
<1>1. TypeOK'
  BY FactoryConstants DEF TypeOK, Places
<1>2. LockDiscipline'
  BY DEF TypeOK, LockDiscipline
<1>3. CacheInv'
  BY DEF TypeOK, CacheInv
<1>4. NoCreateAfterServed'
  BY DEF TypeOK, NoCreateAfterServed
<1>5. ManagerOfOwnRole'
  BY DEF TypeOK, ManagerOfOwnRole
<1>6. QED
  BY <1>1, <1>2, <1>3, <1>4, <1>5

\* A reader comes in only when there is no writer.
LEMMA RLockInv ==
    ASSUME IInv, NEW c \in Callers, RLock(c)
    PROVE  IInv'
<1> USE DEF IInv, RLock
<1>1. TypeOK'
  BY DEF TypeOK, Places
<1>2. LockDiscipline'
  BY DEF TypeOK, LockDiscipline
<1>3. CacheInv'
  BY DEF TypeOK, CacheInv
<1>4. NoCreateAfterServed'
  BY DEF TypeOK, NoCreateAfterServed
<1>5. ManagerOfOwnRole'
  BY DEF TypeOK, ManagerOfOwnRole
<1>6. QED
  BY <1>1, <1>2, <1>3, <1>4, <1>5

\* The lookup goes on to make a manager only when the cache has none, and then
\* the id was not served when the call began.
LEMMA LookupInv ==
    ASSUME IInv, NEW c \in Callers, Lookup(c)
    PROVE  IInv'
<1> USE DEF IInv, Lookup, RmId
<1>1. want[c] \in Ids
  BY DEF TypeOK
<1>2. TypeOK'
  BY <1>1 DEF TypeOK, Places
<1>3. LockDiscipline'
  BY DEF TypeOK, LockDiscipline
<1>4. CacheInv'
  BY <1>1 DEF TypeOK, CacheInv
<1>5. NoCreateAfterServed'
  BY <1>1 DEF TypeOK, CacheInv, NoCreateAfterServed
<1>6. ManagerOfOwnRole'
  BY <1>1 DEF TypeOK, CacheInv, ManagerOfOwnRole
<1>7. QED
  BY <1>2, <1>3, <1>4, <1>5, <1>6

\* A writer comes in only when the mutex is free.
LEMMA LockInv ==
    ASSUME IInv, NEW c \in Callers, Lock(c)
    PROVE  IInv'
<1> USE DEF IInv, Lock
<1>1. TypeOK'
  BY DEF TypeOK, Places
<1>2. LockDiscipline'
  BY DEF TypeOK, LockDiscipline
<1>3. CacheInv'
  BY DEF TypeOK, CacheInv
<1>4. NoCreateAfterServed'
  BY DEF TypeOK, NoCreateAfterServed
<1>5. ManagerOfOwnRole'
  BY DEF TypeOK, ManagerOfOwnRole
<1>6. QED
  BY <1>1, <1>2, <1>3, <1>4, <1>5

\* The store replaces or fills the entry of the call's own id, and the only
\* writer leaves.
LEMMA CreateInv ==
    ASSUME IInv, NEW c \in Callers, Create(c)
    PROVE  IInv'
<1> DEFINE rm == [for |-> want[c], by |-> c, call |-> calls]
<1>1. want[c] \in Ids /\ calls \in Nat
  BY DEF IInv, TypeOK
<1>2. rm \in Managers /\ rm # NoManager /\ rm.for = want[c]
  BY <1>1, NewManager
<1>3. /\ pc[c] = "create"
      /\ rmCache' = [rmCache EXCEPT ![want[c]] = rm]
      /\ got' = [got EXCEPT ![c] = rm]
      /\ served' = served \cup {want[c]}
      /\ writer' = {}
      /\ pc' = [pc EXCEPT ![c] = "idle"]
      /\ UNCHANGED <<want, had, readers, calls>>
  BY DEF Create, Stored, Unlocked, RmId
<1> HIDE DEF rm
<1>4. TypeOK'
  BY <1>1, <1>2, <1>3 DEF IInv, TypeOK, Places
<1>5. LockDiscipline'
  BY <1>3 DEF IInv, TypeOK, LockDiscipline
<1>6. CacheInv'
  BY <1>1, <1>2, <1>3 DEF IInv, TypeOK, CacheInv
<1>7. NoCreateAfterServed'
  BY <1>3 DEF IInv, TypeOK, NoCreateAfterServed
<1>8. ManagerOfOwnRole'
  BY <1>2, <1>3 DEF IInv, TypeOK, ManagerOfOwnRole
<1>9. QED
  BY <1>4, <1>5, <1>6, <1>7, <1>8 DEF IInv

\* The invariant is inductive: every step of every caller preserves it.
LEMMA NextInv == IInv /\ [Next]_vars => IInv'
<1> SUFFICES ASSUME IInv, [Next]_vars
             PROVE  IInv'
  OBVIOUS
<1>1. ASSUME NEW c \in Callers, Step(c)
      PROVE  IInv'
  BY <1>1, RLockInv, LookupInv, LockInv, CreateInv DEF Step
<1>2. ASSUME NEW c \in Callers, NEW id \in Ids, Call(c, id)
      PROVE  IInv'
  BY <1>2, CallInv
<1>3. CASE UNCHANGED vars
  BY <1>3 DEF vars, IInv, TypeOK, LockDiscipline, CacheInv, NoCreateAfterServed,
              ManagerOfOwnRole
<1>4. QED
  BY <1>1, <1>2, <1>3 DEF Next

\* IInv holds in every state of the factory.
THEOREM FactoryInv == Spec => []IInv
<1>1. QED
  BY InitInv, NextInv, PTL DEF Spec

\* The factory's variables keep their types, whatever the number of callers.
THEOREM FactoryTypeOK == Spec => []TypeOK
<1>1. IInv => TypeOK
  BY DEF IInv
<1>2. QED
  BY <1>1, FactoryInv, PTL

\* The store is alone with the map, whatever the number of callers: the
\* sections of sync.RWMutex in ManagerFor are used as they must be.
THEOREM FactoryLocks == Spec => []LockDiscipline
<1>1. IInv => LockDiscipline
  BY DEF IInv
<1>2. QED
  BY <1>1, FactoryInv, PTL

\* A call that begins when another one for its id has returned makes no manager.
THEOREM NoSecondManagerLater == Spec => []NoCreateAfterServed
<1>1. IInv => NoCreateAfterServed
  BY DEF IInv
<1>2. QED
  BY <1>1, FactoryInv, PTL

\* A call returns a manager with the credentials of its own role.
THEOREM OwnRole == Spec => []ManagerOfOwnRole
<1>1. IInv => ManagerOfOwnRole
  BY DEF IInv
<1>2. QED
  BY <1>1, FactoryInv, PTL
===============================================================================
