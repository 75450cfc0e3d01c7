---------------------------- MODULE ManagerFactory ----------------------------
(***************************************************************************)
(* ManagerFor of the resource manager factory: concurrent reconciliations  *)
(* look up, or make and store, the resource manager of an account, region  *)
(* and role.  The cache is guarded by a sync.RWMutex, which is released    *)
(* between the lookup and the store.                                       *)
(***************************************************************************)
EXTENDS Naturals, FiniteSets

CONSTANTS
    Callers,   \* the goroutines that call ManagerFor
    Accounts, Regions, Roles,
    NoManager, \* the cache has no entry
    MaxCalls   \* bound: calls of the instance

Ids == [account : Accounts, region : Regions, role : Roles]

\* A manager keeps the credentials of the role it was made with.
Managers == [for : Ids, by : Callers, call : Nat]

ASSUME FactoryConstants == NoManager \notin Managers /\ MaxCalls \in Nat

VARIABLES
    pc,      \* where each caller is
    want,    \* the account, region and role of its call
    got,     \* what its last call returned
    served,  \* ids for which a call has returned (history)
    had,     \* its id was in served when its call began (history)
    readers, \* callers that hold the mutex for reading
    writer,  \* {} or the caller that holds it for writing
    rmCache,
    calls    \* calls so far

vars == <<pc, want, got, served, had, readers, writer, rmCache, calls>>

\* A faulty variant: the key leaves the role out.
KeyWithoutRole(id) == [id EXCEPT !.role = CHOOSE r \in Roles : TRUE]

\* rmId
RmId(id) == id

Places == {"idle", "rlock", "lookup", "lock", "create"}

TypeOK ==
    /\ pc \in [Callers -> Places]
    /\ want \in [Callers -> Ids]
    /\ got \in [Callers -> Managers \cup {NoManager}]
    /\ served \in SUBSET Ids
    /\ had \in [Callers -> BOOLEAN]
    /\ readers \in SUBSET Callers
    /\ writer \in SUBSET Callers
    /\ rmCache \in [Ids -> Managers \cup {NoManager}]
    /\ calls \in Nat

Init ==
    /\ pc = [c \in Callers |-> "idle"]
    /\ want \in [Callers -> Ids]
    /\ got = [c \in Callers |-> NoManager]
    /\ served = {}
    /\ had = [c \in Callers |-> FALSE]
    /\ readers = {} /\ writer = {}
    /\ rmCache = [i \in Ids |-> NoManager]
    /\ calls = 0

------------------------------------------------------------------------------
\* One call of ManagerFor.

Call(c, id) ==
    /\ pc[c] = "idle" /\ calls < MaxCalls
    /\ pc' = [pc EXCEPT ![c] = "rlock"]
    /\ want' = [want EXCEPT ![c] = id]
    /\ had' = [had EXCEPT ![c] = id \in served]
    /\ calls' = calls + 1
    /\ UNCHANGED <<got, served, readers, writer, rmCache>>

\* A waiting writer keeps new readers out.
RLock(c) ==
    /\ pc[c] = "rlock"
    /\ writer = {} /\ \A d \in Callers : pc[d] # "lock"
    /\ readers' = readers \cup {c}
    /\ pc' = [pc EXCEPT ![c] = "lookup"]
    /\ UNCHANGED <<want, got, served, had, writer, rmCache, calls>>

\* The lookup and RUnlock.
Lookup(c) ==
    /\ pc[c] = "lookup"
    /\ readers' = readers \ {c}
    /\ LET rm == rmCache[RmId(want[c])]
       IN  \/ /\ rm # NoManager
              /\ got' = [got EXCEPT ![c] = rm]
              /\ served' = served \cup {want[c]}
              /\ pc' = [pc EXCEPT ![c] = "idle"]
           \/ /\ rm = NoManager
              /\ pc' = [pc EXCEPT ![c] = "lock"]
              /\ UNCHANGED <<got, served>>
    /\ UNCHANGED <<want, had, writer, rmCache, calls>>

Lock(c) ==
    /\ pc[c] = "lock"
    /\ readers = {} /\ writer = {}
    /\ writer' = {c}
    /\ pc' = [pc EXCEPT ![c] = "create"]
    /\ UNCHANGED <<want, got, served, had, readers, rmCache, calls>>

\* Faulty variants: the new manager is not stored; the mutex is not released.
NotStored(c, rm) == rmCache
KeepLocked(c) == {c}

Stored(c, rm) == [rmCache EXCEPT ![RmId(want[c])] = rm]
Unlocked(c) == {}

\* newResourceManager, the store and the deferred Unlock.  The cache is not
\* looked at again.
Create(c) ==
    /\ pc[c] = "create"
    /\ LET rm == [for |-> want[c], by |-> c, call |-> calls]
       IN  rmCache' = Stored(c, rm) /\ got' = [got EXCEPT ![c] = rm]
    /\ served' = served \cup {want[c]}
    /\ writer' = Unlocked(c)
    /\ pc' = [pc EXCEPT ![c] = "idle"]
    /\ UNCHANGED <<want, had, readers, calls>>

Step(c) == RLock(c) \/ Lookup(c) \/ Lock(c) \/ Create(c)

Next == \E c \in Callers : Step(c) \/ \E id \in Ids : Call(c, id)

Spec == Init /\ [][Next]_vars

\* A goroutine is scheduled, and sync.RWMutex lets a waiter in at last.
FairSpec ==
    /\ Spec
    /\ \A c \in Callers : /\ WF_vars(Lookup(c) \/ Create(c))
                          /\ SF_vars(RLock(c)) /\ SF_vars(Lock(c))

------------------------------------------------------------------------------

\* The mutex is held by the calls that are inside its sections and by no other:
\* the store is alone with the map.
LockDiscipline ==
    /\ readers = {c \in Callers : pc[c] = "lookup"}
    /\ writer = {c \in Callers : pc[c] = "create"}
    /\ \A c, d \in writer : c = d
    /\ writer # {} => readers = {}

\* A call that begins when another one for its account, region and role has
\* returned makes no manager: two are made only by calls that overlap.
NoCreateAfterServed == \A c \in Callers : pc[c] \in {"lock", "create"} => ~had[c]

\* A call returns a manager with the credentials of its own role.
ManagerOfOwnRole ==
    \A c \in Callers : pc[c] = "idle" /\ got[c] # NoManager => got[c].for = want[c]

\* Every call returns: the mutex is always released.
CallsReturn == \A c \in Callers : (pc[c] # "idle") ~> (pc[c] = "idle")
===============================================================================
