----------------------------- MODULE MDLockProofs -----------------------------
(***************************************************************************)
(* Proofs about MDLock, for any sets of threads, keys and mutexes.         *)
(***************************************************************************)
EXTENDS MDLock, TLAPS

\* Between Lock and Unlock of the manager's own mutex.
InManager(t) == pc[t] \in {"lookup", "store", "leave", "read", "give back"}

\* The manager's mutex protects the map.
ManagerExclusive == \A t \in Threads : InManager(t) => mu = t

\* A thread that is about to store a mutex has seen no entry, and there is none.
StoresOnlyOnce == \A t \in Threads : pc[t] = "store" => locks[key[t]] = NoMutex

\* The local variable of a thread is the map entry of its key.
LocalIsEntry ==
  \A t \in Threads :
    pc[t] \in {"leave", "acquire", "critical", "give back", "release"} =>
      l[t] = locks[key[t]]

\* A map entry, once there, stays.
EntryStays ==
  \A t \in Threads :
    pc[t] \in {"leave", "acquire"} \/ Holding(t) => locks[key[t]] # NoMutex

\* A thread past l.Lock() owns the mutex of its key.
OwnsEntry == \A t \in Threads : Holding(t) => owner[locks[key[t]]] = t

LockInv ==
  TypeOK /\ ManagerExclusive /\ StoresOnlyOnce /\ LocalIsEntry /\ EntryStays /\ OwnsEntry

LEMMA InitLockInv == Init => LockInv
BY MutexAssumption
DEF Init, LockInv, TypeOK, ManagerExclusive, StoresOnlyOnce, LocalIsEntry, EntryStays,
    OwnsEntry, InManager, Holding

LEMMA NextLockInv == LockInv /\ [Next]_vars => LockInv'
<1> SUFFICES ASSUME LockInv, [Next]_vars PROVE LockInv'
  OBVIOUS
<1> USE MutexAssumption
<1>1. CASE UNCHANGED vars
  BY <1>1
  DEF vars, LockInv, TypeOK, ManagerExclusive, StoresOnlyOnce, LocalIsEntry, EntryStays,
      OwnsEntry, InManager, Holding
<1>2. ASSUME NEW t \in Threads, CallLock(t) PROVE LockInv'
  <2>1. TypeOK'
    <3>1. PICK k \in Keys : key' = [key EXCEPT ![t] = k]
      BY <1>2 DEF CallLock
    <3>2. QED
      BY <1>2, <3>1 DEF CallLock, Goto, LockInv, TypeOK
  <2>2. ManagerExclusive'
    BY <1>2 DEF CallLock, Goto, LockInv, TypeOK, ManagerExclusive, InManager
  <2>3. StoresOnlyOnce'
    BY <1>2 DEF CallLock, Goto, LockInv, TypeOK, ManagerExclusive, InManager, StoresOnlyOnce
  <2>4. LocalIsEntry'
    BY <1>2 DEF CallLock, Goto, LockInv, TypeOK, StoresOnlyOnce, EntryStays, LocalIsEntry, Holding
  <2>5. EntryStays'
    BY <1>2 DEF CallLock, Goto, LockInv, TypeOK, EntryStays, Holding
  <2>6. OwnsEntry'
    BY <1>2 DEF CallLock, Goto, LockInv, TypeOK, OwnsEntry, EntryStays, StoresOnlyOnce, LocalIsEntry, Holding
  <2>7. QED
    BY <2>1, <2>2, <2>3, <2>4, <2>5, <2>6 DEF LockInv
<1>3. ASSUME NEW t \in Threads, LockEnter(t) \/ UnlockEnter(t) PROVE LockInv'
  <2>1. TypeOK'
    BY <1>3 DEF LockEnter, UnlockEnter, EnterManager, Goto, LockInv, TypeOK, EntryStays, LocalIsEntry, StoresOnlyOnce
  <2>2. ManagerExclusive'
    <3>1. mu = NoThread /\ mu' = t
      BY <1>3 DEF LockEnter, UnlockEnter, EnterManager
    <3>2. \A u \in Threads : ~InManager(u)
      BY <3>1 DEF LockInv, ManagerExclusive
    <3>3. \A u \in Threads : u # t => pc'[u] = pc[u]
      BY <1>3 DEF LockEnter, UnlockEnter, EnterManager, Goto, LockInv, TypeOK
    <3>4. QED
      BY <3>1, <3>2, <3>3 DEF ManagerExclusive, InManager
  <2>3. StoresOnlyOnce'
    BY <1>3 DEF LockEnter, UnlockEnter, EnterManager, Goto, LockInv, TypeOK, ManagerExclusive, InManager, StoresOnlyOnce
  <2>4. LocalIsEntry'
    BY <1>3 DEF LockEnter, UnlockEnter, EnterManager, Goto, LockInv, TypeOK, StoresOnlyOnce, EntryStays, LocalIsEntry, Holding
  <2>5. EntryStays'
    BY <1>3 DEF LockEnter, UnlockEnter, EnterManager, Goto, LockInv, TypeOK, EntryStays, Holding
  <2>6. OwnsEntry'
    BY <1>3 DEF LockEnter, UnlockEnter, EnterManager, Goto, LockInv, TypeOK, OwnsEntry, EntryStays, StoresOnlyOnce, LocalIsEntry, Holding
  <2>7. QED
    BY <2>1, <2>2, <2>3, <2>4, <2>5, <2>6 DEF LockInv
<1>4. ASSUME NEW t \in Threads, Lookup(t) PROVE LockInv'
  <2>1. TypeOK'
    BY <1>4 DEF Lookup, LockInv, TypeOK, EntryStays, LocalIsEntry, StoresOnlyOnce
  <2>2. ManagerExclusive'
    BY <1>4 DEF Lookup, LockInv, TypeOK, ManagerExclusive, InManager
  <2>3. StoresOnlyOnce'
    BY <1>4 DEF Lookup, LockInv, TypeOK, ManagerExclusive, InManager, StoresOnlyOnce
  <2>4. LocalIsEntry'
    BY <1>4 DEF Lookup, LockInv, TypeOK, StoresOnlyOnce, EntryStays, LocalIsEntry, Holding
  <2>5. EntryStays'
    BY <1>4 DEF Lookup, LockInv, TypeOK, EntryStays, Holding
  <2>6. OwnsEntry'
    BY <1>4 DEF Lookup, LockInv, TypeOK, OwnsEntry, EntryStays, StoresOnlyOnce, LocalIsEntry, Holding
  <2>7. QED
    BY <2>1, <2>2, <2>3, <2>4, <2>5, <2>6 DEF LockInv
<1>5. ASSUME NEW t \in Threads, Store(t) PROVE LockInv'
  <2> PICK x \in Mutexes :
        /\ l' = [l EXCEPT ![t] = x]
        /\ locks' = [locks EXCEPT ![key[t]] = x]
    BY <1>5 DEF Store
  <2>a. /\ pc[t] = "store" /\ pc' = [pc EXCEPT ![t] = "leave"]
        /\ UNCHANGED <<key, mu, owner>>
    BY <1>5 DEF Store, Goto
  <2>b. locks[key[t]] = NoMutex
    BY <2>a DEF LockInv, StoresOnlyOnce
  <2>1. TypeOK'
    BY <2>a DEF LockInv, TypeOK
  <2>2. ManagerExclusive'
    BY <2>a DEF LockInv, TypeOK, ManagerExclusive, InManager
  <2>3. StoresOnlyOnce'
    <3>1. \A u \in Threads : u # t => pc[u] # "store"
      BY <2>a DEF LockInv, ManagerExclusive, InManager
    <3>2. QED
      BY <2>a, <3>1 DEF LockInv, TypeOK, StoresOnlyOnce
  <2>4. LocalIsEntry'
    BY <2>a, <2>b DEF LockInv, TypeOK, LocalIsEntry, EntryStays, Holding
  <2>5. EntryStays'
    BY <2>a DEF LockInv, TypeOK, EntryStays, Holding
  <2>6. OwnsEntry'
    BY <2>a, <2>b DEF LockInv, TypeOK, OwnsEntry, EntryStays, Holding
  <2>7. QED
    BY <2>1, <2>2, <2>3, <2>4, <2>5, <2>6 DEF LockInv
<1>6. ASSUME NEW t \in Threads, LockLeave(t) \/ UnlockLeave(t) PROVE LockInv'
  <2>1. TypeOK'
    BY <1>6 DEF LockLeave, UnlockLeave, LeaveManager, Goto, LockInv, TypeOK, EntryStays, LocalIsEntry, StoresOnlyOnce
  <2>2. ManagerExclusive'
    BY <1>6 DEF LockLeave, UnlockLeave, LeaveManager, Goto, LockInv, TypeOK, ManagerExclusive, InManager
  <2>3. StoresOnlyOnce'
    BY <1>6 DEF LockLeave, UnlockLeave, LeaveManager, Goto, LockInv, TypeOK, ManagerExclusive, InManager, StoresOnlyOnce
  <2>4. LocalIsEntry'
    BY <1>6 DEF LockLeave, UnlockLeave, LeaveManager, Goto, LockInv, TypeOK, StoresOnlyOnce, EntryStays, LocalIsEntry, Holding
  <2>5. EntryStays'
    BY <1>6 DEF LockLeave, UnlockLeave, LeaveManager, Goto, LockInv, TypeOK, EntryStays, Holding
  <2>6. OwnsEntry'
    BY <1>6 DEF LockLeave, UnlockLeave, LeaveManager, Goto, LockInv, TypeOK, OwnsEntry, EntryStays, StoresOnlyOnce, LocalIsEntry, Holding
  <2>7. QED
    BY <2>1, <2>2, <2>3, <2>4, <2>5, <2>6 DEF LockInv
<1>7. ASSUME NEW t \in Threads, Acquire(t) PROVE LockInv'
  <2>1. TypeOK'
    BY <1>7 DEF Acquire, Goto, LockInv, TypeOK, EntryStays, LocalIsEntry, StoresOnlyOnce
  <2>2. ManagerExclusive'
    BY <1>7 DEF Acquire, Goto, LockInv, TypeOK, ManagerExclusive, InManager
  <2>3. StoresOnlyOnce'
    BY <1>7 DEF Acquire, Goto, LockInv, TypeOK, ManagerExclusive, InManager, StoresOnlyOnce
  <2>4. LocalIsEntry'
    BY <1>7 DEF Acquire, Goto, LockInv, TypeOK, StoresOnlyOnce, EntryStays, LocalIsEntry, Holding
  <2>5. EntryStays'
    BY <1>7 DEF Acquire, Goto, LockInv, TypeOK, EntryStays, Holding
  <2>6. OwnsEntry'
    <3>1. /\ pc[t] = "acquire" /\ pc' = [pc EXCEPT ![t] = "critical"]
          /\ owner[l[t]] = NoThread /\ owner' = [owner EXCEPT ![l[t]] = t]
          /\ UNCHANGED <<key, l, locks>>
      BY <1>7 DEF Acquire, Goto
    <3>2. l[t] = locks[key[t]] /\ l[t] \in Mutexes
      BY <3>1 DEF LockInv, TypeOK, LocalIsEntry
    <3>3. ASSUME NEW u \in Threads, u # t, Holding(u) PROVE locks[key[u]] # l[t]
      BY <3>1, <3>3 DEF LockInv, OwnsEntry
    <3>4. QED
      BY <3>1, <3>2, <3>3 DEF LockInv, TypeOK, OwnsEntry, EntryStays, Holding
  <2>7. QED
    BY <2>1, <2>2, <2>3, <2>4, <2>5, <2>6 DEF LockInv
<1>8. ASSUME NEW t \in Threads, CallUnlock(t) PROVE LockInv'
  <2>1. TypeOK'
    BY <1>8 DEF CallUnlock, Goto, LockInv, TypeOK, EntryStays, LocalIsEntry, StoresOnlyOnce
  <2>2. ManagerExclusive'
    BY <1>8 DEF CallUnlock, Goto, LockInv, TypeOK, ManagerExclusive, InManager
  <2>3. StoresOnlyOnce'
    BY <1>8 DEF CallUnlock, Goto, LockInv, TypeOK, ManagerExclusive, InManager, StoresOnlyOnce
  <2>4. LocalIsEntry'
    BY <1>8 DEF CallUnlock, Goto, LockInv, TypeOK, StoresOnlyOnce, EntryStays, LocalIsEntry, Holding
  <2>5. EntryStays'
    BY <1>8 DEF CallUnlock, Goto, LockInv, TypeOK, EntryStays, Holding
  <2>6. OwnsEntry'
    BY <1>8 DEF CallUnlock, Goto, LockInv, TypeOK, OwnsEntry, EntryStays, StoresOnlyOnce, LocalIsEntry, Holding
  <2>7. QED
    BY <2>1, <2>2, <2>3, <2>4, <2>5, <2>6 DEF LockInv
<1>9. ASSUME NEW t \in Threads, Read(t) PROVE LockInv'
  <2>1. TypeOK'
    BY <1>9 DEF Read, Goto, LockInv, TypeOK, EntryStays, LocalIsEntry, StoresOnlyOnce
  <2>2. ManagerExclusive'
    BY <1>9 DEF Read, Goto, LockInv, TypeOK, ManagerExclusive, InManager
  <2>3. StoresOnlyOnce'
    BY <1>9 DEF Read, Goto, LockInv, TypeOK, ManagerExclusive, InManager, StoresOnlyOnce
  <2>4. LocalIsEntry'
    BY <1>9 DEF Read, Goto, LockInv, TypeOK, StoresOnlyOnce, EntryStays, LocalIsEntry, Holding
  <2>5. EntryStays'
    BY <1>9 DEF Read, Goto, LockInv, TypeOK, EntryStays, Holding
  <2>6. OwnsEntry'
    BY <1>9 DEF Read, Goto, LockInv, TypeOK, OwnsEntry, EntryStays, StoresOnlyOnce, LocalIsEntry, Holding
  <2>7. QED
    BY <2>1, <2>2, <2>3, <2>4, <2>5, <2>6 DEF LockInv
<1>10. ASSUME NEW t \in Threads, Release(t) PROVE LockInv'
  <2>1. TypeOK'
    BY <1>10 DEF Release, Goto, LockInv, TypeOK, EntryStays, LocalIsEntry, StoresOnlyOnce
  <2>2. ManagerExclusive'
    BY <1>10 DEF Release, Goto, LockInv, TypeOK, ManagerExclusive, InManager
  <2>3. StoresOnlyOnce'
    BY <1>10 DEF Release, Goto, LockInv, TypeOK, ManagerExclusive, InManager, StoresOnlyOnce
  <2>4. LocalIsEntry'
    BY <1>10 DEF Release, Goto, LockInv, TypeOK, StoresOnlyOnce, EntryStays, LocalIsEntry, Holding
  <2>5. EntryStays'
    BY <1>10 DEF Release, Goto, LockInv, TypeOK, EntryStays, Holding
  <2>6. OwnsEntry'
    <3>1. /\ pc[t] = "release" /\ pc' = [pc EXCEPT ![t] = "idle"]
          /\ owner' = [owner EXCEPT ![l[t]] = NoThread]
          /\ UNCHANGED <<key, locks>>
      BY <1>10 DEF Release, Goto
    <3>2. owner[l[t]] = t
      BY <3>1 DEF LockInv, LocalIsEntry, OwnsEntry, Holding
    <3>3. ASSUME NEW u \in Threads, u # t, Holding(u) PROVE locks[key[u]] # l[t]
      BY <3>2, <3>3 DEF LockInv, OwnsEntry
    <3>4. QED
      BY <3>1, <3>3 DEF LockInv, TypeOK, OwnsEntry, EntryStays, Holding
  <2>7. QED
    BY <2>1, <2>2, <2>3, <2>4, <2>5, <2>6 DEF LockInv
<1>11. QED
  BY <1>1, <1>2, <1>3, <1>4, <1>5, <1>6, <1>7, <1>8, <1>9, <1>10 DEF Next, Locking, Unlocking

LEMMA LockInvariant == Spec => []LockInv
BY InitLockInv, NextLockInv, PTL DEF Spec

LEMMA LockInvImplies == LockInv => TypeOK /\ MutualExclusion /\ ReleasesItsOwn
BY MutexAssumption
DEF LockInv, TypeOK, LocalIsEntry, EntryStays, OwnsEntry, MutualExclusion, ReleasesItsOwn, Holding

\* Every variable keeps its type, and no thread locks a nil mutex.
THEOREM TypeCorrect == Spec => []TypeOK
BY LockInvariant, LockInvImplies, PTL

\* At most one executor at a time is between Lock and Unlock of a key, however
\* many threads race to allocate the mutex of the key (mdlock.go:33-49).
THEOREM MutuallyExclusive == Spec => []MutualExclusion
BY LockInvariant, LockInvImplies, PTL

\* Unlock finds in the map the very mutex its Lock took (mdlock.go:44-49).
THEOREM UnlocksItsOwn == Spec => []ReleasesItsOwn
BY LockInvariant, LockInvImplies, PTL

-----------------------------------------------------------------------------
(* Refinement of KeyedMutex *)

\* KeyHolder names the one thread that has the lock of the key.
HolderFact ==
  /\ \A k \in Keys : KeyHolder(k) \in Threads \union {NoThread}
  /\ \A k \in Keys, t \in Threads : KeyHolder(k) = t <=> Holding(t) /\ key[t] = k

LEMMA KeyHolderIsHolder == MutualExclusion => HolderFact
BY MutexAssumption DEF MutualExclusion, KeyHolder, HolderFact

LEMMA NextRefines ==
  ASSUME LockInv, LockInv', [Next]_vars
  PROVE  [Mutex!Next]_([k \in Keys |-> KeyHolder(k)])
<1> DEFINE holder == [k \in Keys |-> KeyHolder(k)]
<1> USE MutexAssumption
<1>1. HolderFact /\ HolderFact'
  <2>1. MutualExclusion /\ MutualExclusion'
    BY LockInvImplies, PTL
  <2>2. QED
    BY <2>1, KeyHolderIsHolder, PTL
<1>2. ASSUME NEW k \in Keys,
             \A t \in Threads : (Holding(t) /\ key[t] = k)' <=> Holding(t) /\ key[t] = k
      PROVE  KeyHolder(k)' = KeyHolder(k)
  BY <1>1, <1>2 DEF HolderFact
<1>3. CASE UNCHANGED vars
  BY <1>2, <1>3 DEF vars, Holding
<1>4. ASSUME NEW t \in Threads,
             CallLock(t) \/ LockEnter(t) \/ Lookup(t) \/ Store(t) \/ LockLeave(t)
      PROVE  holder' = holder
  <2>1. \A u \in Threads : Holding(u)' <=> Holding(u)
    BY <1>4
    DEF CallLock, LockEnter, Lookup, Store, LockLeave, EnterManager, LeaveManager, Goto,
        LockInv, TypeOK, Holding
  <2>2. \A u \in Threads : Holding(u) => key'[u] = key[u]
    <3>1. CASE CallLock(t)
      <4>1. PICK k \in Keys : key' = [key EXCEPT ![t] = k]
        BY <3>1 DEF CallLock
      <4>2. ~Holding(t)
        BY <3>1 DEF CallLock, Goto, Holding
      <4>3. QED
        BY <4>1, <4>2 DEF LockInv, TypeOK
    <3>2. CASE UNCHANGED key
      BY <3>2
    <3>3. QED
      BY <1>4, <3>1, <3>2
      DEF LockEnter, Lookup, Store, LockLeave, EnterManager, LeaveManager
  <2>3. QED
    BY <1>2, <2>1, <2>2
<1>5. ASSUME NEW t \in Threads,
             CallUnlock(t) \/ UnlockEnter(t) \/ Read(t) \/ UnlockLeave(t)
      PROVE  holder' = holder
  BY <1>2, <1>5
  DEF CallUnlock, UnlockEnter, Read, UnlockLeave, EnterManager, LeaveManager, Goto,
      LockInv, TypeOK, Holding
<1>6. ASSUME NEW t \in Threads, Acquire(t) PROVE Mutex!Lock(t, key[t])
  <2>1. key[t] \in Keys /\ pc[t] = "acquire" /\ pc' = [pc EXCEPT ![t] = "critical"]
        /\ key' = key
    BY <1>6 DEF Acquire, Goto, LockInv, TypeOK
  <2>2. /\ Holding(t)' /\ ~Holding(t) /\ key'[t] = key[t]
        /\ \A u \in Threads : u # t => pc'[u] = pc[u]
    BY <2>1 DEF Holding, LockInv, TypeOK
  <2>3. KeyHolder(key[t])' = t
    BY <1>1, <2>1, <2>2 DEF HolderFact
  <2>4. ASSUME NEW u \in Threads, Holding(u) PROVE key[u] # key[t]
    <3>1. u # t /\ Holding(u)'
      BY <2>2, <2>4 DEF Holding
    <3>2. QED
      BY <1>1, <2>1, <2>2, <2>3, <3>1 DEF HolderFact
  <2>5. KeyHolder(key[t]) = NoThread
    BY <1>1, <2>1, <2>4 DEF HolderFact
  <2>6. ASSUME NEW k \in Keys, k # key[t] PROVE KeyHolder(k)' = KeyHolder(k)
    BY <1>2, <2>1, <2>2, <2>6 DEF Holding
  <2>7. QED
    BY <2>1, <2>3, <2>5, <2>6 DEF Mutex!Lock
<1>7. ASSUME NEW t \in Threads, Release(t) PROVE Mutex!Unlock(t, key[t])
  <2>1. key[t] \in Keys /\ pc[t] = "release" /\ pc' = [pc EXCEPT ![t] = "idle"]
        /\ key' = key
    BY <1>7 DEF Release, Goto, LockInv, TypeOK
  <2>2. KeyHolder(key[t]) = t
    BY <1>1, <2>1 DEF HolderFact, Holding
  <2>a. ~Holding(t)' /\ \A u \in Threads : u # t => pc'[u] = pc[u]
    BY <2>1 DEF Holding, LockInv, TypeOK
  <2>3. ASSUME NEW u \in Threads PROVE ~(Holding(u)' /\ key'[u] = key'[t])
    <3>1. CASE u = t
      BY <2>a, <3>1
    <3>2. CASE u # t
      <4>1. ~(Holding(u) /\ key[u] = key[t])
        BY <1>1, <2>1, <2>2, <3>2 DEF HolderFact
      <4>2. QED
        BY <2>1, <2>a, <3>2, <4>1 DEF Holding
    <3>3. QED
      BY <3>1, <3>2
  <2>4. KeyHolder(key[t])' = NoThread
    BY <1>1, <2>1, <2>3 DEF HolderFact
  <2>5. ASSUME NEW k \in Keys, k # key[t] PROVE KeyHolder(k)' = KeyHolder(k)
    BY <1>2, <2>1, <2>a, <2>5 DEF Holding
  <2>6. QED
    BY <2>1, <2>2, <2>4, <2>5 DEF Mutex!Unlock
<1>8. \A t \in Threads : key[t] \in Keys
  BY DEF LockInv, TypeOK
<1>9. QED
  BY <1>3, <1>4, <1>5, <1>6, <1>7, <1>8 DEF Next, Locking, Unlocking, Mutex!Next

LEMMA InitRefines == Init => Mutex!Init
BY DEF Init, Mutex!Init, KeyHolder, Holding

\* MDLockManager behaves as one lock for each key.
THEOREM Refines == Spec => ImplementsKeyedMutex
<1>1. LockInv /\ LockInv' /\ [Next]_vars
      => [Mutex!Next]_([k \in Keys |-> KeyHolder(k)])
  BY NextRefines
<1>2. QED
  BY <1>1, InitRefines, LockInvariant, PTL DEF Spec, ImplementsKeyedMutex, Mutex!Spec
=============================================================================
