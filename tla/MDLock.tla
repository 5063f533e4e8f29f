-------------------------------- MODULE MDLock --------------------------------
(***************************************************************************)
(* MDLockManager (pkg/batcher/mdlock.go): a mutex for each                 *)
(* MachineDeployment key, allocated by the first Lock of the key, in a map *)
(* guarded by a mutex of its own.  A thread is a batch executor; it unlocks*)
(* only what it has locked.                                                *)
(***************************************************************************)
EXTENDS Naturals

CONSTANTS
  Threads,   \* batch executions
  Keys,      \* MachineDeployments
  Mutexes,   \* the *sync.Mutex values that may be allocated
  NoMutex,   \* no map entry
  NoThread   \* unlocked

ASSUME MutexAssumption == NoMutex \notin Mutexes /\ NoThread \notin Threads

VARIABLES
  pc,      \* where each thread is
  key,     \* the key it passed to Lock
  l,       \* its local variable l
  mu,      \* the thread holding the manager's mutex
  locks,   \* the map
  owner    \* the thread holding each mutex

vars == <<pc, key, l, mu, locks, owner>>

Allocated == {x \in Mutexes : \E k \in Keys : locks[k] = x}

\* A thread never calls Lock on a nil mutex.
TypeOK ==
  /\ pc \in [Threads -> {"idle", "enter", "lookup", "store", "leave", "acquire",
                         "critical", "fetch", "read", "give back", "release"}]
  /\ key \in [Threads -> Keys]
  /\ l \in [Threads -> Mutexes \union {NoMutex}]
  /\ mu \in Threads \union {NoThread}
  /\ locks \in [Keys -> Mutexes \union {NoMutex}]
  /\ owner \in [Mutexes -> Threads \union {NoThread}]
  /\ \A t \in Threads : pc[t] \in {"leave", "acquire"} => l[t] # NoMutex

Init ==
  /\ pc = [t \in Threads |-> "idle"]
  /\ key \in [Threads -> Keys]
  /\ l = [t \in Threads |-> NoMutex]
  /\ mu = NoThread
  /\ locks = [k \in Keys |-> NoMutex]
  /\ owner = [x \in Mutexes |-> NoThread]

Goto(t, from, to) ==
  /\ pc[t] = from
  /\ pc' = [pc EXCEPT ![t] = to]

\* Faulty: the map is read and written without the manager's mutex.
EnterManagerUnguarded(t, from, to) ==
  /\ Goto(t, from, to)
  /\ mu' = t
  /\ UNCHANGED <<key, l, locks, owner>>

EnterManager(t, from, to) ==
  /\ Goto(t, from, to)
  /\ mu = NoThread
  /\ mu' = t
  /\ UNCHANGED <<key, l, locks, owner>>

LeaveManager(t, from, to) ==
  /\ Goto(t, from, to)
  /\ mu' = NoThread
  /\ UNCHANGED <<key, l, locks, owner>>

-----------------------------------------------------------------------------
(* Lock(key) *)

CallLock(t) ==
  /\ Goto(t, "idle", "enter")
  /\ \E k \in Keys : key' = [key EXCEPT ![t] = k]
  /\ UNCHANGED <<l, mu, locks, owner>>

LockEnter(t) == EnterManager(t, "enter", "lookup")

\* Faulty: no check for a missing entry.
LookupUnchecked(t) ==
  /\ Goto(t, "lookup", "leave")
  /\ l' = [l EXCEPT ![t] = locks[key[t]]]
  /\ UNCHANGED <<key, mu, locks, owner>>

\* l, ok := m.locks[key]
Lookup(t) ==
  /\ pc[t] = "lookup"
  /\ l' = [l EXCEPT ![t] = locks[key[t]]]
  /\ pc' = [pc EXCEPT ![t] = IF locks[key[t]] = NoMutex THEN "store" ELSE "leave"]
  /\ UNCHANGED <<key, mu, locks, owner>>

\* l = &sync.Mutex{}; m.locks[key] = l.  A fresh mutex is nobody's: not in the
\* map, not held, and in no other thread's hands.
Store(t) ==
  /\ Goto(t, "store", "leave")
  /\ \E x \in Mutexes :
       /\ x \notin Allocated /\ \A u \in Threads : l[u] # x
       /\ l' = [l EXCEPT ![t] = x]
       /\ locks' = [locks EXCEPT ![key[t]] = x]
  /\ UNCHANGED <<key, mu, owner>>

LockLeave(t) == LeaveManager(t, "leave", "acquire")

\* Faulty: TryLock, and from the start again when the mutex is taken.
AcquireOrRetry(t) ==
  \/ /\ Goto(t, "acquire", "critical")
     /\ owner[l[t]] = NoThread
     /\ owner' = [owner EXCEPT ![l[t]] = t]
     /\ UNCHANGED <<key, l, mu, locks>>
  \/ /\ Goto(t, "acquire", "enter")
     /\ owner[l[t]] # NoThread
     /\ UNCHANGED <<key, l, mu, locks, owner>>

\* l.Lock()
Acquire(t) ==
  /\ Goto(t, "acquire", "critical")
  /\ owner[l[t]] = NoThread
  /\ owner' = [owner EXCEPT ![l[t]] = t]
  /\ UNCHANGED <<key, l, mu, locks>>

-----------------------------------------------------------------------------
(* Unlock(key) *)

CallUnlock(t) ==
  /\ Goto(t, "critical", "fetch")
  /\ l' = [l EXCEPT ![t] = NoMutex]
  /\ UNCHANGED <<key, mu, locks, owner>>

UnlockEnter(t) == EnterManager(t, "fetch", "read")

\* l := m.locks[key]
Read(t) ==
  /\ Goto(t, "read", "give back")
  /\ l' = [l EXCEPT ![t] = locks[key[t]]]
  /\ UNCHANGED <<key, mu, locks, owner>>

UnlockLeave(t) == LeaveManager(t, "give back", "release")

\* Faulty: Unlock drops the map entry, though a thread may be waiting on it.
ReleaseAndForget(t) ==
  /\ Goto(t, "release", "idle")
  /\ owner' = [owner EXCEPT ![l[t]] = NoThread]
  /\ locks' = [locks EXCEPT ![key[t]] = NoMutex]
  /\ l' = [l EXCEPT ![t] = NoMutex]
  /\ UNCHANGED <<key, mu>>

\* l.Unlock()
Release(t) ==
  /\ Goto(t, "release", "idle")
  /\ owner' = [owner EXCEPT ![l[t]] = NoThread]
  /\ l' = [l EXCEPT ![t] = NoMutex]
  /\ UNCHANGED <<key, mu, locks>>

-----------------------------------------------------------------------------
Locking(t) == LockEnter(t) \/ Lookup(t) \/ Store(t) \/ LockLeave(t) \/ Acquire(t)

Unlocking(t) ==
  CallUnlock(t) \/ UnlockEnter(t) \/ Read(t) \/ UnlockLeave(t) \/ Release(t)

Next == \E t \in Threads : CallLock(t) \/ Locking(t) \/ Unlocking(t)

Spec == Init /\ [][Next]_vars

\* A thread in a call keeps going, and leaves its critical section (module
\* CloudProvider shows that executors do).  sync.Mutex lets every waiter in
\* eventually (its starvation mode), so entering one is strongly fair.
LiveSpec ==
  /\ Spec
  /\ \A t \in Threads :
       /\ WF_vars(Lookup(t)) /\ WF_vars(Store(t)) /\ WF_vars(LockLeave(t))
       /\ WF_vars(CallUnlock(t)) /\ WF_vars(Read(t)) /\ WF_vars(UnlockLeave(t))
       /\ WF_vars(Release(t))
       /\ SF_vars(LockEnter(t)) /\ SF_vars(Acquire(t)) /\ SF_vars(UnlockEnter(t))

-----------------------------------------------------------------------------
(* Properties *)

\* The part of a critical section in which the thread relies on the lock.
Holding(t) == pc[t] \in {"critical", "fetch", "read", "give back", "release"}

\* At most one executor at a time works on a MachineDeployment's replicas.
MutualExclusion ==
  \A t, u \in Threads : Holding(t) /\ Holding(u) /\ key[t] = key[u] => t = u

\* Unlock releases the mutex that Lock took, never another or an unlocked one
\* (sync.Mutex would panic): the map entry of a key in use never changes.
ReleasesItsOwn ==
  \A t \in Threads :
    pc[t] \in {"give back", "release"} => l[t] # NoMutex /\ owner[l[t]] = t

\* Every Lock returns eventually.
LockReturns == \A t \in Threads : pc[t] = "enter" ~> pc[t] = "critical"

\* The thread that has the lock of a key.
KeyHolder(k) ==
  IF \E t \in Threads : Holding(t) /\ key[t] = k
  THEN CHOOSE t \in Threads : Holding(t) /\ key[t] = k
  ELSE NoThread

\* MDLockManager implements one lock for each key: its own mutex, the map and the
\* allocation of mutexes cannot be seen (mdlock.go:21-49).
Mutex == INSTANCE KeyedMutex WITH holder <- [k \in Keys |-> KeyHolder(k)]

ImplementsKeyedMutex == Mutex!Spec
=============================================================================
