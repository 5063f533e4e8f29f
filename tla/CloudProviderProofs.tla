-------------------------- MODULE CloudProviderProofs --------------------------
(***************************************************************************)
(* The accounting of replicas, the lock discipline of the two batch        *)
(* executors, and how far the replicas may pass the max-size annotation,   *)
(* for any number of NodeClaims, Machines and batches.                     *)
(***************************************************************************)
EXTENDS CreateRequestProofs

\* The two writes of spec.replicas.
Incremented(b) ==
  createPC[b] = "update" /\ lock = b /\ Increment(b) /\ UNCHANGED taken
Decremented(b) ==
  deletePC[b] = "update" /\ lock = b /\ Decrement(b) /\ UNCHANGED granted

\* Nothing else writes the MachineDeployment.
LEMMA ReplicaWrites ==
  ASSUME [Next]_vars
  PROVE  \/ UNCHANGED <<md, granted, taken>>
         \/ \E b \in CreateBatches : Incremented(b)
         \/ \E b \in DeleteBatches : Decremented(b)
<1>1. CASE UNCHANGED vars
  BY <1>1 DEF vars, clusterVars
<1>2. CASE EnvironmentStep
  <2>1. UNCHANGED md
    BY <1>2 DEF EnvironmentStep, Environment, CreateMachine, ProvisionMachine, ScaleDown,
                RemoveMachine, SyncMD, SyncMachines, SyncAnnotations
  <2>2. QED
    BY <1>2, <2>1 DEF EnvironmentStep
<1>3. ASSUME NEW b \in CreateBatches, CreateStep(b)
      PROVE  UNCHANGED <<md, granted, taken>> \/ Incremented(b)
  <2>1. UNCHANGED taken
    BY <1>3 DEF CreateStep
  <2>2. CASE CreateUpdate(b)
    BY <2>1, <2>2 DEF CreateUpdate, CreateAbort, Unlock, Incremented, clusterVars
  <2>3. CASE CreateStart(b) \/ CreateLock(b) \/ CreateGet(b) \/ CreateCount(b)
             \/ Poll(b) \/ PollTimeout(b) \/ CreateFinish(b)
    BY <2>1, <2>3 DEF CreateStart, CreateLock, CreateGet, CreateAbort, CreateCount, Poll,
                      PollTimeout, CreateFinish, clusterVars
  <2>4. QED
    BY <1>3, <2>2, <2>3 DEF CreateStep, CreateExecutor
<1>4. ASSUME NEW b \in DeleteBatches, DeleteStep(b)
      PROVE  UNCHANGED <<md, granted, taken>> \/ Decremented(b)
  <2>1. UNCHANGED granted
    BY <1>4 DEF DeleteStep
  <2>2. CASE DeleteUpdate(b)
    BY <2>1, <2>2 DEF DeleteUpdate, DeleteAbort, Unlock, Decremented, clusterVars
  <2>3. CASE DeleteStart(b) \/ DeleteJoin(b) \/ DeleteLock(b) \/ DeleteGet(b)
             \/ DeleteFinish(b) \/ \E nc \in NodeClaims : RollbackMark(b, nc)
    BY <2>1, <2>3 DEF DeleteStart, DeleteJoin, DeleteLock, DeleteGet, DeleteAbort,
                      DeleteFinish, RollbackMark, clusterVars
  <2>4. QED
    BY <1>4, <2>2, <2>3 DEF DeleteStep, DeleteExecutor
<1>5. ASSUME NEW nc \in NodeClaims, BindStep(nc) \/ AnnotateStep(nc) \/ Caller(nc)
      PROVE  UNCHANGED <<md, granted, taken>>
  <2>1. CASE BindStep(nc)
    BY <2>1 DEF BindStep, Bind, BindLabel, BindPatch, BindRollback
  <2>2. CASE AnnotateStep(nc)
    BY <2>2 DEF AnnotateStep, Annotate
  <2>3. CASE Caller(nc)
    BY <2>3 DEF Caller, CreateExisting, CreateAdd, CreateReturn, Terminate, DeleteFind,
                DeleteNotFound, DeleteAdd, DeleteReturn, clusterVars
  <2>4. QED
    BY <1>5, <2>1, <2>2, <2>3
<1>6. CASE Restart
  BY <1>6 DEF Restart, clusterVars
<1>7. QED
  BY <1>1, <1>2, <1>3, <1>4, <1>5, <1>6 DEF Next

-----------------------------------------------------------------------------
(* No replica change is lost or made twice. *)

LEMMA LedgerStep == Inv /\ ReplicaLedger /\ [Next]_vars => ReplicaLedger'
<1> SUFFICES ASSUME Inv, ReplicaLedger, [Next]_vars PROVE ReplicaLedger'
  OBVIOUS
<1>1. Cardinality(InitiallyBound) \in Nat
  BY NodeClaimsFinite DEF InitiallyBound
<1>2. md.replicas \in Int /\ granted \in Nat /\ taken \in Nat
  BY DEF Inv, TypeOK, ClusterTypeOK, MD
<1>3. CASE UNCHANGED <<md, granted, taken>>
  BY <1>3 DEF ReplicaLedger
<1>4. ASSUME NEW b \in CreateBatches, Incremented(b) PROVE ReplicaLedger'
  <2>1. mdCopy[b] = md
    BY <1>4 DEF Incremented, Increment, UpdateMD, Inv, CopiesCurrent, Executors
  <2>2. deficit[b] \in Nat
    BY DEF Inv, TypeOK, CreateTypeOK
  <2>3. md'.replicas = md.replicas + deficit[b]
    BY <1>4, <2>1 DEF Incremented, Increment, UpdateMD
  <2>4. QED
    BY <1>1, <1>2, <1>4, <2>2, <2>3 DEF Incremented, Increment, ReplicaLedger
<1>5. ASSUME NEW b \in DeleteBatches, Decremented(b) PROVE ReplicaLedger'
  <2> DEFINE new == Lowered(mdCopy[b].replicas, Cardinality(Annotated(b)))
  <2>1. mdCopy[b] = md
    BY <1>5 DEF Decremented, Decrement, UpdateMD, Inv, CopiesCurrent, Executors
  <2>2. Cardinality(Annotated(b)) \in Nat
    BY NodeClaimsFinite DEF Annotated, Inv, TypeOK, DeleteTypeOK
  <2>3. new \in Int
    BY <1>2, <2>1, <2>2 DEF Lowered
  <2>4. md'.replicas = new /\ taken' = taken + (md.replicas - new) /\ granted' = granted
    BY <1>5, <2>1 DEF Decremented, Decrement, UpdateMD
  <2>5. QED
    BY <1>1, <1>2, <2>3, <2>4 DEF ReplicaLedger
<1>6. QED
  BY <1>3, <1>4, <1>5, ReplicaWrites

\* spec.replicas is always the initial value plus what create batches were granted
\* minus what delete batches took, even when the executors read lagging caches and
\* any of their calls fails, takes effect and yet reports an error, or is cut short
\* by a restart (create.go:140-159, delete.go:152-170).
THEOREM ReplicasAccounted == Spec => []ReplicaLedger
<1>1. Init => ReplicaLedger
  <2>1. Cardinality(InitiallyBound) \in Nat
    BY NodeClaimsFinite DEF InitiallyBound
  <2>2. QED
    BY <2>1 DEF Init, ClusterInit, ReplicaLedger
<1>2. QED
  BY <1>1, LedgerStep, Invariance, PTL DEF Spec

-----------------------------------------------------------------------------
(* Create batches never lower spec.replicas. *)

LEMMA LoweringStep ==
  ASSUME Inv, [Next]_vars, md'.replicas < md.replicas
  PROVE  taken' > taken
<1>1. md.replicas \in Int /\ md'.replicas # md.replicas /\ taken \in Nat
  BY DEF Inv, TypeOK, ClusterTypeOK, MD
<1>2. ASSUME NEW b \in CreateBatches, Incremented(b) PROVE FALSE
  <2>1. mdCopy[b] = md /\ deficit[b] \in Nat
    BY <1>2 DEF Incremented, Increment, UpdateMD, Inv, CopiesCurrent, Executors, TypeOK,
                CreateTypeOK
  <2>2. md'.replicas = md.replicas + deficit[b]
    BY <1>2, <2>1 DEF Incremented, Increment, UpdateMD
  <2>3. QED
    BY <1>1, <2>1, <2>2
<1>3. ASSUME NEW b \in DeleteBatches, Decremented(b) PROVE taken' > taken
  <2> DEFINE new == Lowered(mdCopy[b].replicas, Cardinality(Annotated(b)))
  <2>1. mdCopy[b] = md
    BY <1>3 DEF Decremented, Decrement, UpdateMD, Inv, CopiesCurrent, Executors
  <2>2. Cardinality(Annotated(b)) \in Nat
    BY NodeClaimsFinite DEF Annotated, Inv, TypeOK, DeleteTypeOK
  <2>3. new \in Int
    BY <1>1, <2>1, <2>2 DEF Lowered
  <2>4. md'.replicas = new /\ taken' = taken + (md.replicas - new)
    BY <1>3, <2>1 DEF Decremented, Decrement, UpdateMD
  <2> HIDE DEF new
  <2>5. QED
    BY <1>1, <2>3, <2>4
<1>4. ~UNCHANGED md
  BY <1>1
<1>5. QED
  BY <1>2, <1>3, <1>4, ReplicaWrites

\* Whatever the caches show and whichever calls fail, only a decrement lowers
\* spec.replicas: a create batch that finds more unclaimed Machines than requests
\* does not give the surplus back (create.go:140-159).
THEOREM DeletesLower == Spec => OnlyDeletesLower
<1>1. Inv => [md'.replicas < md.replicas => taken' > taken]_vars \/ ~[Next]_vars
  BY LoweringStep
<1>2. QED
  BY <1>1, Invariance, PTL DEF Spec, OnlyDeletesLower

-----------------------------------------------------------------------------
(* The lock is held exactly between Lock and Unlock. *)

\* The executions inside their critical sections.
CreateInside(b) == createPC[b] \in {"get", "count", "update"}
DeleteInside(b) == deletePC[b] \in {"get", "update"}

LEMMA ExecutorsDistinct ==
  /\ NoBatch \notin CreateBatches /\ NoBatch \notin DeleteBatches
  /\ \A b \in CreateBatches, c \in DeleteBatches : b # c
BY ClusterAssumption DEF ClusterAssumption, Executors

\* Taking the lock, keeping it and giving it back all keep LockDiscipline.
LEMMA CreateDiscipline ==
  ASSUME Inv, LockDiscipline, NEW b \in CreateBatches, UNCHANGED deletePC,
         \A c \in CreateBatches \ {b} : createPC'[c] = createPC[c],
         \/ Lock(b) /\ CreateInside(b)'
         \/ Unlock(b) /\ ~CreateInside(b)'
         \/ UNCHANGED lock /\ (CreateInside(b)' <=> CreateInside(b))
  PROVE  LockDiscipline'
BY ExecutorsDistinct DEF LockDiscipline, Lock, Unlock, CreateInside

LEMMA DeleteDiscipline ==
  ASSUME Inv, LockDiscipline, NEW b \in DeleteBatches, UNCHANGED createPC,
         \A c \in DeleteBatches \ {b} : deletePC'[c] = deletePC[c],
         \/ Lock(b) /\ DeleteInside(b)'
         \/ Unlock(b) /\ ~DeleteInside(b)'
         \/ UNCHANGED lock /\ (DeleteInside(b)' <=> DeleteInside(b))
  PROVE  LockDiscipline'
BY ExecutorsDistinct DEF LockDiscipline, Lock, Unlock, DeleteInside

LEMMA LockStep == Inv /\ LockDiscipline /\ [Next]_vars => LockDiscipline'
<1> SUFFICES ASSUME Inv, LockDiscipline, [Next]_vars PROVE LockDiscipline'
  OBVIOUS
<1>1. CASE UNCHANGED <<lock, createPC, deletePC>>
  BY <1>1 DEF LockDiscipline
<1>2. ASSUME NEW b \in CreateBatches, CreateStep(b) PROVE LockDiscipline'
  <2>1. UNCHANGED deletePC /\ createPC \in [CreateBatches ->
             {"idle", "lock", "get", "count", "update", "poll", "bind", "done"}]
    BY <1>2 DEF CreateStep, deleteVars, Inv, TypeOK, CreateTypeOK
  <2>2. \A c \in CreateBatches \ {b} : createPC'[c] = createPC[c]
    BY <1>2, <2>1 DEF CreateStep, CreateExecutor, CreateStart, CreateLock, CreateGet,
       CreateAbort, CreateCount, CreateUpdate, Poll, PollTimeout, StartBinding, CreateFinish
  <2>3. CASE CreateLock(b)
    <3>1. Lock(b) /\ CreateInside(b)'
      BY <2>1, <2>3 DEF CreateLock, CreateInside
    <3>2. QED
      BY <2>1, <2>2, <3>1, CreateDiscipline
  <2>4. ASSUME CreateAbort(b) PROVE LockDiscipline'
    <3>1. Unlock(b) /\ ~CreateInside(b)'
      BY <2>1, <2>4 DEF CreateAbort, CreateInside
    <3>2. QED
      BY <2>1, <2>2, <3>1, CreateDiscipline
  <2>5. CASE CreateGet(b) \/ CreateCount(b) \/ CreateUpdate(b)
    <3>1. \/ CreateAbort(b)
          \/ Unlock(b) /\ ~CreateInside(b)'
          \/ UNCHANGED lock /\ CreateInside(b) /\ CreateInside(b)'
      BY <2>1, <2>5 DEF CreateGet, CreateCount, CreateUpdate, CreateInside
    <3>2. QED
      BY <2>1, <2>2, <2>4, <3>1, CreateDiscipline
  <2>6. CASE CreateStart(b) \/ Poll(b) \/ PollTimeout(b) \/ CreateFinish(b)
    <3>1. UNCHANGED lock /\ ~CreateInside(b) /\ ~CreateInside(b)'
      BY <2>1, <2>6 DEF CreateStart, Poll, PollTimeout, StartBinding, CreateFinish,
                        CreateInside
    <3>2. QED
      BY <2>1, <2>2, <3>1, CreateDiscipline
  <2>7. QED
    BY <1>2, <2>3, <2>5, <2>6 DEF CreateStep, CreateExecutor
<1>3. ASSUME NEW b \in DeleteBatches, DeleteStep(b) PROVE LockDiscipline'
  <2>1. UNCHANGED createPC /\ deletePC \in [DeleteBatches ->
             {"idle", "annotate", "lock", "get", "update", "rollback", "done"}]
    BY <1>3 DEF DeleteStep, createVars, Inv, TypeOK, DeleteTypeOK
  <2>2. \A c \in DeleteBatches \ {b} : deletePC'[c] = deletePC[c]
    BY <1>3, <2>1 DEF DeleteStep, DeleteExecutor, DeleteStart, DeleteJoin, Deliver,
       DeleteLock, DeleteGet, DeleteAbort, DeleteUpdate, DeleteFinish, RollbackMark
  <2>3. CASE DeleteLock(b)
    <3>1. Lock(b) /\ DeleteInside(b)'
      BY <2>1, <2>3 DEF DeleteLock, DeleteInside
    <3>2. QED
      BY <2>1, <2>2, <3>1, DeleteDiscipline
  <2>4. CASE DeleteGet(b) \/ DeleteUpdate(b)
    <3>1. \/ Unlock(b) /\ ~DeleteInside(b)'
          \/ UNCHANGED lock /\ DeleteInside(b) /\ DeleteInside(b)'
      BY <2>1, <2>4 DEF DeleteGet, DeleteAbort, DeleteUpdate, Deliver, DeleteInside
    <3>2. QED
      BY <2>1, <2>2, <3>1, DeleteDiscipline
  <2>5. CASE DeleteStart(b) \/ DeleteJoin(b) \/ DeleteFinish(b)
             \/ \E nc \in NodeClaims : RollbackMark(b, nc)
    <3>1. UNCHANGED lock /\ ~DeleteInside(b) /\ ~DeleteInside(b)'
      BY <2>1, <2>5 DEF DeleteStart, DeleteJoin, Deliver, DeleteFinish, RollbackMark,
                        DeleteInside
    <3>2. QED
      BY <2>1, <2>2, <3>1, DeleteDiscipline
  <2>6. QED
    BY <1>3, <2>3, <2>4, <2>5 DEF DeleteStep, DeleteExecutor
<1>4. ASSUME \/ UNCHANGED vars \/ EnvironmentStep
             \/ \E nc \in NodeClaims : BindStep(nc) \/ AnnotateStep(nc) \/ Caller(nc)
      PROVE  UNCHANGED <<lock, createPC, deletePC>>
  <2>1. CASE UNCHANGED vars \/ EnvironmentStep
    BY <2>1 DEF EnvironmentStep, vars, createVars, deleteVars
  <2>2. ASSUME NEW nc \in NodeClaims, BindStep(nc) \/ AnnotateStep(nc)
        PROVE  UNCHANGED <<lock, createPC, deletePC>>
    BY <2>2 DEF BindStep, Bind, BindLabel, BindPatch, BindRollback, AnnotateStep, Annotate,
                createVars, deleteVars
  <2>3. ASSUME NEW nc \in NodeClaims, Caller(nc)
        PROVE  UNCHANGED <<lock, createPC, deletePC>>
    BY <2>3 DEF Caller, CreateExisting, CreateAdd, CreateReturn, Terminate, DeleteFind,
                DeleteNotFound, DeleteAdd, DeleteReturn, createVars, deleteVars
  <2>4. QED
    BY <1>4, <2>1, <2>2, <2>3
<1>5. CASE Restart
  <2>1. /\ lock' = NoBatch
        /\ \A b \in CreateBatches : createPC'[b] \in {"idle", "done"}
        /\ \A b \in DeleteBatches : deletePC'[b] \in {"idle", "done"}
    BY <1>5 DEF Restart, CreateLost, DeleteLost
  <2>2. QED
    BY <2>1, ExecutorsDistinct DEF LockDiscipline
<1>6. QED
  BY <1>1, <1>2, <1>3, <1>4, <1>5 DEF Next

\* Whoever is between Lock and Unlock holds the lock, nobody else does, and no path
\* returns, polls or rolls back with it (create.go:130-159, delete.go:138-170).
THEOREM LockHeldInside == Spec => []LockDiscipline
<1>1. Init => LockDiscipline
  BY ExecutorsDistinct DEF Init, ClusterInit, CreateInit, DeleteInit, LockDiscipline
<1>2. QED
  BY <1>1, LockStep, Invariance, PTL DEF Spec

-----------------------------------------------------------------------------
(* The lock keeps the executors from conflicting with each other. *)

\* A step of one execution leaves the copies of the others alone, and takes its own
\* from the MachineDeployment.
LEMMA CopyReads ==
  ASSUME Inv, [Next]_vars, ~CacheLag, NEW b \in Executors
  PROVE  mdCopy'[b] = mdCopy[b] \/ mdCopy'[b] = md
<1> USE DEF MDView
<1>1. CASE UNCHANGED mdCopy
  BY <1>1
<1>2. ASSUME NEW c \in Executors, mdCopy' = [mdCopy EXCEPT ![c] = MDView]
      PROVE  mdCopy'[b] = mdCopy[b] \/ mdCopy'[b] = md
  BY <1>2 DEF Inv, TypeOK, ClusterTypeOK
<1>3. ASSUME NEW c \in CreateBatches, CreateStep(c)
      PROVE  UNCHANGED mdCopy \/ mdCopy' = [mdCopy EXCEPT ![c] = MDView]
  BY <1>3 DEF CreateStep, CreateExecutor, CreateStart, CreateLock, CreateGet, CreateAbort,
     CreateCount, CreateUpdate, Poll, PollTimeout, CreateFinish
<1>4. ASSUME NEW c \in DeleteBatches, DeleteStep(c)
      PROVE  UNCHANGED mdCopy \/ mdCopy' = [mdCopy EXCEPT ![c] = MDView]
  BY <1>4 DEF DeleteStep, DeleteExecutor, DeleteStart, DeleteJoin, DeleteLock, DeleteGet,
     DeleteAbort, DeleteUpdate, DeleteFinish, RollbackMark
<1>5. CASE UNCHANGED vars \/ EnvironmentStep
  BY <1>1, <1>5 DEF vars, EnvironmentStep
<1>6. ASSUME NEW nc \in NodeClaims, BindStep(nc) \/ AnnotateStep(nc) \/ Caller(nc)
      PROVE  UNCHANGED mdCopy
  BY <1>6 DEF BindStep, Bind, BindLabel, BindPatch, BindRollback, AnnotateStep, Annotate,
     Caller, CreateExisting, CreateAdd, CreateReturn, Terminate, DeleteFind, DeleteNotFound,
     DeleteAdd, DeleteReturn
<1>7. CASE Restart
  BY <1>1, <1>7 DEF Restart
<1>8. QED
  BY <1>1, <1>2, <1>3, <1>4, <1>5, <1>6, <1>7 DEF Next, Executors

\* An execution enters "count" or "update" by reading, and stays there only while
\* nobody writes the MachineDeployment.
CreateReady(b) == createPC[b] \in {"count", "update"}
DeleteReady(b) == deletePC[b] = "update"

LEMMA CreateReading ==
  ASSUME Inv, [Next]_vars, NEW b \in CreateBatches, CreateReady(b)'
  PROVE  CreateReady(b) \/ (mdCopy'[b] = MDView /\ UNCHANGED md)
<1>1. ASSUME NEW c \in CreateBatches, CreateStep(c)
      PROVE  CreateReady(b) \/ (mdCopy'[b] = MDView /\ UNCHANGED md)
  <2>1. CASE CreateGet(c)
    BY <2>1 DEF CreateGet, CreateAbort, CreateReady, Inv, TypeOK, CreateTypeOK, ClusterTypeOK,
                Executors, clusterVars
  <2>2. CASE CreateStart(c) \/ CreateLock(c) \/ Poll(c) \/ PollTimeout(c) \/ CreateFinish(c)
    BY <2>2 DEF CreateStart, CreateLock, Poll, PollTimeout, StartBinding, CreateFinish,
                CreateReady, Inv, TypeOK, CreateTypeOK
  <2>3. CASE CreateCount(c) \/ CreateUpdate(c)
    BY <2>3 DEF CreateCount, CreateUpdate, CreateAbort, CreateReady, Inv, TypeOK, CreateTypeOK
  <2>4. QED
    BY <1>1, <2>1, <2>2, <2>3 DEF CreateStep, CreateExecutor
<1>2. CASE UNCHANGED createPC
  BY <1>2 DEF CreateReady
<1>3. CASE Restart
  BY <1>3 DEF Restart, CreateLost, CreateReady
<1>4. ASSUME ~\E c \in CreateBatches : CreateStep(c), ~Restart PROVE UNCHANGED createPC
  <2>1. CASE UNCHANGED vars \/ EnvironmentStep
    BY <2>1 DEF EnvironmentStep, vars, createVars
  <2>2. ASSUME NEW c \in DeleteBatches, DeleteStep(c) PROVE UNCHANGED createPC
    BY <2>2 DEF DeleteStep, createVars
  <2>3. ASSUME NEW nc \in NodeClaims, BindStep(nc) \/ AnnotateStep(nc) \/ Caller(nc)
        PROVE  UNCHANGED createPC
    BY <2>3 DEF BindStep, Bind, BindLabel, BindPatch, BindRollback, AnnotateStep, Caller,
       CreateExisting, CreateAdd, CreateReturn, Terminate, DeleteFind, DeleteNotFound,
       DeleteAdd, DeleteReturn, createVars
  <2>4. QED
    BY <1>4, <2>1, <2>2, <2>3 DEF Next
<1>5. QED
  BY <1>1, <1>2, <1>3, <1>4

LEMMA DeleteReading ==
  ASSUME Inv, [Next]_vars, NEW b \in DeleteBatches, DeleteReady(b)'
  PROVE  DeleteReady(b) \/ (mdCopy'[b] = MDView /\ UNCHANGED md)
<1>1. ASSUME NEW c \in DeleteBatches, DeleteStep(c)
      PROVE  DeleteReady(b) \/ (mdCopy'[b] = MDView /\ UNCHANGED md)
  <2>1. CASE DeleteGet(c)
    BY <2>1 DEF DeleteGet, DeleteAbort, DeleteReady, Inv, TypeOK, DeleteTypeOK, ClusterTypeOK,
                Executors, clusterVars
  <2>2. CASE DeleteStart(c) \/ DeleteJoin(c) \/ DeleteLock(c) \/ DeleteFinish(c)
             \/ \E nc \in NodeClaims : RollbackMark(c, nc)
    BY <2>2 DEF DeleteStart, DeleteJoin, Deliver, DeleteLock, DeleteFinish, RollbackMark,
                DeleteReady, Inv, TypeOK, DeleteTypeOK
  <2>3. CASE DeleteUpdate(c)
    BY <2>3 DEF DeleteUpdate, DeleteAbort, Deliver, DeleteReady, Inv, TypeOK, DeleteTypeOK
  <2>4. QED
    BY <1>1, <2>1, <2>2, <2>3 DEF DeleteStep, DeleteExecutor
<1>2. CASE UNCHANGED deletePC
  BY <1>2 DEF DeleteReady
<1>3. CASE Restart
  BY <1>3 DEF Restart, DeleteLost, DeleteReady
<1>4. ASSUME ~\E c \in DeleteBatches : DeleteStep(c), ~Restart PROVE UNCHANGED deletePC
  <2>1. CASE UNCHANGED vars \/ EnvironmentStep
    BY <2>1 DEF EnvironmentStep, vars, deleteVars
  <2>2. ASSUME NEW c \in CreateBatches, CreateStep(c) PROVE UNCHANGED deletePC
    BY <2>2 DEF CreateStep, deleteVars
  <2>3. ASSUME NEW nc \in NodeClaims, BindStep(nc) \/ AnnotateStep(nc) \/ Caller(nc)
        PROVE  UNCHANGED deletePC
    BY <2>3 DEF BindStep, AnnotateStep, Annotate, Caller, CreateExisting, CreateAdd,
       CreateReturn, Terminate, DeleteFind, DeleteNotFound, DeleteAdd, DeleteReturn,
       deleteVars
  <2>4. QED
    BY <1>4, <2>1, <2>2, <2>3 DEF Next
<1>5. QED
  BY <1>1, <1>2, <1>3, <1>4

\* A write leaves the writer outside its critical section.
LEMMA WriterLeaves ==
  ASSUME Inv, [Next]_vars
  PROVE  /\ \A b \in CreateBatches : Incremented(b) => lock' = NoBatch
         /\ \A b \in DeleteBatches : Decremented(b) => lock' = NoBatch
<1>1. md.version # md.version + 1
  BY DEF Inv, TypeOK, ClusterTypeOK, MD
<1>2. ASSUME md' # md PROVE lock' = NoBatch
  <2>1. ~(UNCHANGED vars \/ EnvironmentStep \/ Restart)
    BY <1>2 DEF vars, clusterVars, EnvironmentStep, Environment, CreateMachine, ProvisionMachine,
                ScaleDown, RemoveMachine, SyncMD, SyncMachines, SyncAnnotations, Restart
  <2>2. ASSUME NEW b \in CreateBatches, CreateStep(b) PROVE lock' = NoBatch
    BY <1>2, <2>2 DEF CreateStep, CreateExecutor, CreateStart, CreateLock, CreateGet, CreateAbort,
       CreateCount, CreateUpdate, Poll, PollTimeout, CreateFinish, Unlock, clusterVars
  <2>3. ASSUME NEW b \in DeleteBatches, DeleteStep(b) PROVE lock' = NoBatch
    BY <1>2, <2>3 DEF DeleteStep, DeleteExecutor, DeleteStart, DeleteJoin, DeleteLock, DeleteGet,
       DeleteAbort, DeleteUpdate, DeleteFinish, RollbackMark, Unlock, clusterVars
  <2>4. ASSUME NEW nc \in NodeClaims PROVE ~(BindStep(nc) \/ AnnotateStep(nc) \/ Caller(nc))
    BY <1>2 DEF BindStep, Bind, BindLabel, BindPatch, BindRollback, AnnotateStep, Annotate,
       Caller, CreateExisting, CreateAdd, CreateReturn, Terminate, DeleteFind, DeleteNotFound,
       DeleteAdd, DeleteReturn, clusterVars
  <2>5. QED
    BY <2>1, <2>2, <2>3, <2>4 DEF Next
<1>3. \A b \in CreateBatches : Incremented(b) => md'.version = md.version + 1
  BY DEF Incremented, Increment, UpdateMD
<1>4. \A b \in DeleteBatches : Decremented(b) => md'.version = md.version + 1
  BY DEF Decremented, Decrement, UpdateMD
<1>5. QED
  BY <1>1, <1>2, <1>3, <1>4

LEMMA NoConflictStep ==
  ~CacheLag => (Inv /\ LockDiscipline /\ NoSelfConflict /\ [Next]_vars => NoSelfConflict')
<1> SUFFICES ASSUME ~CacheLag, Inv, LockDiscipline, NoSelfConflict, [Next]_vars
             PROVE  NoSelfConflict'
  OBVIOUS
<1>1. LockDiscipline' /\ MDView = md
  BY LockStep DEF MDView
<1>2. CASE UNCHANGED md
  <2>1. ASSUME NEW b \in CreateBatches, CreateReady(b)' PROVE mdCopy'[b] = md'
    BY <1>1, <1>2, <2>1, CopyReads, CreateReading DEF NoSelfConflict, CreateReady, Executors
  <2>2. ASSUME NEW b \in DeleteBatches, DeleteReady(b)' PROVE mdCopy'[b] = md'
    BY <1>1, <1>2, <2>2, CopyReads, DeleteReading DEF NoSelfConflict, DeleteReady, Executors
  <2>3. QED
    BY <2>1, <2>2 DEF NoSelfConflict, CreateReady, DeleteReady
<1>3. CASE ~UNCHANGED md
  <2>1. lock' = NoBatch
    BY <1>3, ReplicaWrites, WriterLeaves
  <2>2. QED
    BY <1>1, <2>1, ExecutorsDistinct DEF NoSelfConflict, LockDiscipline
<1>4. QED
  BY <1>2, <1>3

\* With current reads, whoever is about to Update the MachineDeployment holds the
\* current object: the executors never make each other's Update fail, which is
\* what the lock is for (mdlock.go:21-23).
THEOREM NoConflicts == ~CacheLag => (Spec => []NoSelfConflict)
<1>1. Init => NoSelfConflict
  BY DEF Init, ClusterInit, CreateInit, DeleteInit, NoSelfConflict
<1> SUFFICES ASSUME ~CacheLag PROVE Spec => []NoSelfConflict
  OBVIOUS
<1>2. Inv /\ LockDiscipline /\ NoSelfConflict /\ [Next]_vars => NoSelfConflict'
  BY NoConflictStep
<1>3. QED
  BY <1>1, <1>2, Invariance, LockHeldInside, PTL DEF Spec

-----------------------------------------------------------------------------
(* How far the replicas may pass the max-size annotation. *)

\* A sequence without repetition is as long as its range is large.
LEMMA DistinctElements ==
  ASSUME NEW S, NEW s \in Seq(S), IsInjective(s)
  PROVE  Cardinality(Range(s)) = Len(s)
<1>1. Len(s) \in Nat /\ DOMAIN s = 1 .. Len(s)
  OBVIOUS
<1>2. s \in Bijection(1 .. Len(s), Range(s))
  BY <1>1 DEF Bijection, Injection, Surjection, IsInjective, Range
<1>3. QED
  BY <1>1, <1>2, FS_CountingElements DEF ExistsBijection

LEMMA AppendedDistinct ==
  ASSUME NEW S, NEW s \in Seq(S), IsInjective(s), NEW x \in S, x \notin Range(s)
  PROVE  IsInjective(Append(s, x))
<1>1. /\ Len(s) \in Nat /\ DOMAIN s = 1 .. Len(s) /\ DOMAIN Append(s, x) = 1 .. Len(s) + 1
      /\ \A i \in 1 .. Len(s) : Append(s, x)[i] = s[i]
      /\ Append(s, x)[Len(s) + 1] = x
  OBVIOUS
<1>2. ASSUME NEW i \in 1 .. Len(s) + 1, NEW j \in 1 .. Len(s) + 1,
             Append(s, x)[i] = Append(s, x)[j]
      PROVE  i = j
  <2>1. /\ i \in 1 .. Len(s) \/ i = Len(s) + 1
        /\ j \in 1 .. Len(s) \/ j = Len(s) + 1
    BY <1>1
  <2>2. QED
    BY <1>1, <1>2, <2>1 DEF IsInjective, Range
<1>3. QED
  BY <1>1, <1>2 DEF IsInjective

\* The stages in which an execution may still increment.
Early == {"lock", "get", "count", "update"}

LEMMA MayIncrementHas ==
  \A nc : nc \in MayIncrement <=>
            \/ nc \in Range(createQueue)
            \/ \E b \in CreateBatches : createPC[b] \in Early /\ nc \in CreateInput(b)
BY DEF MayIncrement, Early

LEMMA InputsFinite ==
  ASSUME Inv
  PROVE  /\ Range(createQueue) \subseteq NodeClaims /\ MayIncrement \subseteq NodeClaims
         /\ \A b \in CreateBatches : CreateInput(b) \subseteq NodeClaims
         /\ \A S \in SUBSET NodeClaims :
              /\ IsFiniteSet(S) /\ Cardinality(S) \in Nat
              /\ Cardinality(S) <= Cardinality(NodeClaims)
<1>1. Range(createQueue) \subseteq NodeClaims
  BY DEF Range, Inv, TypeOK, CreateTypeOK
<1>2. \A b \in CreateBatches : CreateInput(b) \subseteq NodeClaims
  BY DEF CreateInput, Range, Inv, TypeOK, CreateTypeOK
<1>3. QED
  BY <1>1, <1>2, NodeClaimsFinite, FS_Subset, ClusterAssumption DEF MayIncrement, ClusterAssumption

-----------------------------------------------------------------------------
(* No request is there twice, and no execution asks for more than it needs. *)

\* IncrementsBounded, without the bound on the replicas.
Asked ==
  /\ IsInjective(createQueue)
  /\ \A b \in CreateBatches :
       /\ IsInjective(createInputs[b])
       /\ deficit[b] <= IF createPC[b] = "update" THEN Cardinality(CreateInput(b)) ELSE 0

LEMMA AskedRests ==
  ASSUME Asked, UNCHANGED <<createQueue, createPC, createInputs, deficit>>
  PROVE  Asked' /\ MayIncrement' = MayIncrement
<1>1. \A b \in CreateBatches : CreateInput(b)' = CreateInput(b)
  BY DEF CreateInput
<1>2. QED
  BY <1>1 DEF Asked, MayIncrement

LEMMA AskedCreateStep ==
  ASSUME Inv, CreateRequestsPlaced, Asked, NEW b \in CreateBatches, CreateStep(b)
  PROVE  /\ Asked' /\ MayIncrement' \subseteq MayIncrement
         /\ \/ UNCHANGED md
            \/ /\ Increment(b) /\ createPC[b] = "update"
               /\ createPC'[b] \notin Early \/ createInputs'[b] = <<>>
<1>1. /\ createPC \in [CreateBatches -> {"idle", "lock", "get", "count", "update", "poll", "bind", "done"}]
      /\ createInputs \in [CreateBatches -> Seq(NodeClaims)]
      /\ deficit \in [CreateBatches -> Nat]
  BY DEF Inv, TypeOK, CreateTypeOK
<1>2. ASSUME \A c \in CreateBatches \ {b} : /\ createPC'[c] = createPC[c]
                                            /\ createInputs'[c] = createInputs[c]
                                            /\ deficit'[c] = deficit[c],
             createQueue' \in {createQueue, <<>>},
             createInputs'[b] \in {createInputs[b], <<>>},
             createPC'[b] \in Early => createPC[b] \in Early \/ createInputs'[b] = <<>>,
             deficit'[b] <= IF createPC'[b] = "update" THEN Cardinality(CreateInput(b)') ELSE 0
      PROVE  Asked' /\ MayIncrement' \subseteq MayIncrement
  <2>1. \A c \in CreateBatches \ {b} : CreateInput(c)' = CreateInput(c)
    BY <1>2 DEF CreateInput
  <2>2. CreateInput(b)' \subseteq CreateInput(b)
    BY <1>2, EmptySequence DEF CreateInput
  <2>3. Range(createQueue)' \subseteq Range(createQueue) /\ IsInjective(createQueue)'
    BY <1>2, EmptySequence DEF Asked
  <2>4. Asked'
    BY <1>2, <2>1, <2>3, EmptySequence DEF Asked
  <2>5. createPC'[b] \in Early /\ CreateInput(b)' # {} => createPC[b] \in Early
    BY <1>2, EmptySequence DEF CreateInput
  <2>6. ASSUME NEW nc \in MayIncrement' PROVE nc \in MayIncrement
    <3>1. \/ nc \in Range(createQueue)'
          \/ \E c \in CreateBatches : createPC'[c] \in Early /\ nc \in CreateInput(c)'
      BY <2>6 DEF MayIncrement, Early
    <3>2. QED
      BY <1>2, <2>1, <2>2, <2>3, <2>5, <3>1, MayIncrementHas
  <2>7. QED
    BY <2>4, <2>6
<1>3. CASE CreateStart(b)
  <2>1. /\ createPC[b] = "idle" /\ createPC'[b] = "lock"
        /\ createInputs'[b] = createQueue /\ createQueue' = <<>>
        /\ \A c \in CreateBatches \ {b} : /\ createPC'[c] = createPC[c]
                                          /\ createInputs'[c] = createInputs[c]
        /\ UNCHANGED <<deficit, md>>
    BY <1>1, <1>3 DEF CreateStart, clusterVars
  <2>2. \A c \in CreateBatches \ {b} : CreateInput(c)' = CreateInput(c)
    BY <2>1 DEF CreateInput
  <2>3. CreateInput(b)' = Range(createQueue)
    BY <2>1 DEF CreateInput
  <2>4. Asked'
    BY <2>1, <2>2, EmptySequence DEF Asked
  <2>5. ASSUME NEW nc \in MayIncrement' PROVE nc \in MayIncrement
    <3>1. \/ nc \in Range(createQueue)'
          \/ \E c \in CreateBatches : createPC'[c] \in Early /\ nc \in CreateInput(c)'
      BY <2>5 DEF MayIncrement, Early
    <3>2. QED
      BY <2>1, <2>2, <2>3, <3>1, MayIncrementHas, EmptySequence
  <2>6. QED
    BY <2>1, <2>4, <2>5
<1>4. CASE CreateLock(b) \/ (CreateGet(b) /\ ~CreateAbort(b))
  BY <1>1, <1>2, <1>4 DEF CreateLock, CreateGet, clusterVars, Early, Asked
<1>5. ASSUME CreateAbort(b), createPC[b] \in Early
      PROVE  Asked' /\ MayIncrement' \subseteq MayIncrement /\ createInputs'[b] = <<>>
  BY <1>1, <1>2, <1>5 DEF CreateAbort, Early
<1>6. CASE CreateGet(b) /\ CreateAbort(b)
  BY <1>5, <1>6 DEF CreateGet, clusterVars, Early
<1>7. CASE CreateCount(b)
  <2>1. PICK unclaimed \in {Cardinality(Unclaimed), 0} :
          LET missing == Len(createInputs[b]) - unclaimed IN
          \/ /\ deficit' = [deficit EXCEPT ![b] = missing]
             /\ createPC' = [createPC EXCEPT ![b] = "update"]
          \/ /\ createPC' = [createPC EXCEPT ![b] = "poll"]
             /\ UNCHANGED deficit
    BY <1>7 DEF CreateCount
  <2>2. unclaimed \in Nat /\ Cardinality(CreateInput(b)) = Len(createInputs[b])
        /\ Len(createInputs[b]) \in Nat
    BY <1>1, UnclaimedMachines, DistinctElements DEF Asked, CreateInput
  <2>3. UNCHANGED <<createQueue, createInputs, md>> /\ createPC[b] = "count"
        /\ CreateInput(b)' = CreateInput(b)
    BY <1>7 DEF CreateCount, clusterVars, CreateInput
  <2>4. deficit'[b] <= IF createPC'[b] = "update" THEN Cardinality(CreateInput(b)) ELSE 0
    BY <1>1, <2>1, <2>2, <2>3 DEF Asked
  <2>5. /\ createPC[b] \in Early
        /\ \A c \in CreateBatches \ {b} : createPC'[c] = createPC[c] /\ deficit'[c] = deficit[c]
    BY <1>1, <2>1, <2>3 DEF Early
  <2>6. QED
    BY <1>2, <2>3, <2>4, <2>5
<1>8. CASE CreateUpdate(b)
  <2>1. CASE CreateAbort(b)
    BY <1>5, <1>8, <2>1 DEF CreateUpdate, clusterVars, Early
  <2>2. CASE ~CreateAbort(b)
    BY <1>1, <1>2, <1>8, <2>2 DEF CreateUpdate, Early
  <2>3. QED
    BY <2>1, <2>2
<1>9. CASE Poll(b) \/ PollTimeout(b)
  <2>1. /\ createPC[b] = "poll" /\ UNCHANGED <<createQueue, createInputs, deficit, md>>
        /\ createPC'[b] \in {"poll", "bind"}
        /\ \A c \in CreateBatches \ {b} : createPC'[c] = createPC[c]
    BY <1>1, <1>9 DEF Poll, PollTimeout, StartBinding, clusterVars
  <2>2. QED
    BY <1>1, <1>2, <2>1 DEF Early, Asked
<1>10. CASE CreateFinish(b)
  BY <1>1, <1>2, <1>10 DEF CreateFinish, clusterVars, Early, Asked
<1>11. QED
  BY <1>3, <1>4, <1>6, <1>7, <1>8, <1>9, <1>10 DEF CreateStep, CreateExecutor

LEMMA AskedStep ==
  ASSUME Inv, CreateRequestsPlaced, Asked, [Next]_vars
  PROVE  Asked'
<1>1. ASSUME NEW nc \in NodeClaims, CreateAdd(nc) PROVE Asked'
  <2>1. /\ createQueue' = Append(createQueue, nc)
        /\ UNCHANGED <<createPC, createInputs, deficit>>
    BY <1>1 DEF CreateAdd
  <2>2. createQueue \in Seq(NodeClaims) /\ nc \notin Range(createQueue)
    BY <1>1 DEF CreateAdd, NeedsMachine, CreateRequestsPlaced, Waiting, Inv, TypeOK, CreateTypeOK
  <2>3. IsInjective(createQueue')
    BY <2>1, <2>2, AppendedDistinct DEF Asked
  <2>4. \A b \in CreateBatches : CreateInput(b)' = CreateInput(b)
    BY <2>1 DEF CreateInput
  <2>5. QED
    BY <2>1, <2>3, <2>4 DEF Asked
<1>2. ASSUME NEW nc \in NodeClaims, BindStep(nc) \/ CreateReturn(nc) PROVE Asked'
  BY <1>2, AskedRests DEF BindStep, Bind, BindLabel, BindPatch, BindRollback, CreateReturn
<1>3. CASE Restart
  BY <1>3, EmptySequence DEF Restart, CreateLost, Asked
<1>4. CASE Rests
  BY <1>4, AskedRests DEF Rests, createVars
<1>5. QED
  BY <1>1, <1>2, <1>3, <1>4, AskedCreateStep, OtherStepsRest DEF Next, Caller

-----------------------------------------------------------------------------
(* The replicas, and the requests that may still add one. *)

Within ==
  md.replicas + Cardinality(MayIncrement) <= MaxSize - 1 + Cardinality(NodeClaims)

LEMMA WithinStays ==
  ASSUME Inv, Inv', Within, md'.replicas <= md.replicas, MayIncrement' \subseteq MayIncrement
  PROVE  Within'
<1>1. /\ Cardinality(MayIncrement) \in Nat /\ Cardinality(MayIncrement') \in Nat
      /\ Cardinality(MayIncrement') <= Cardinality(MayIncrement)
      /\ Cardinality(NodeClaims) \in Nat
  BY InputsFinite, FS_Subset
<1>2. md.replicas \in Int /\ md'.replicas \in Int /\ MaxSize \in Nat
  BY CallerAssumption DEF CallerAssumption, Inv, TypeOK, ClusterTypeOK, MD
<1>3. QED
  BY <1>1, <1>2 DEF Within

LEMMA DecrementLowers ==
  ASSUME Inv, NEW b \in DeleteBatches, DeleteStep(b)
  PROVE  md'.replicas <= md.replicas
<1>1. md.replicas \in Nat
  BY DEF Inv, TypeOK, ClusterTypeOK, MD
<1>2. CASE UNCHANGED md
  BY <1>1, <1>2
<1>3. CASE Decrement(b)
  <2>1. /\ mdCopy[b].version = md.version
        /\ md'.replicas = Lowered(mdCopy[b].replicas, Cardinality(Annotated(b)))
    BY <1>3 DEF Decrement, UpdateMD
  <2>2. mdCopy[b] = md
    BY <2>1 DEF Inv, CopiesCurrent, Executors
  <2>3. Cardinality(Annotated(b)) \in Nat
    BY NodeClaimsFinite DEF Annotated, Inv, TypeOK, DeleteTypeOK
  <2>4. QED
    BY <1>1, <2>1, <2>2, <2>3 DEF Lowered
<1>4. QED
  BY <1>2, <1>3 DEF DeleteStep, DeleteExecutor, DeleteStart, DeleteJoin, DeleteLock, DeleteGet,
                    DeleteUpdate, DeleteFinish, RollbackMark, clusterVars

LEMMA IncrementStays ==
  ASSUME Inv, Inv', CreateRequestsPlaced, Asked, Within, NEW b \in CreateBatches, CreateStep(b),
         Increment(b), createPC[b] = "update",
         createPC'[b] \notin Early \/ createInputs'[b] = <<>>
  PROVE  Within'
<1>1. mdCopy[b] = md /\ md'.replicas = md.replicas + deficit[b]
  BY DEF Inv, CopiesCurrent, Executors, Increment, UpdateMD
<1>2. CreateInput(b) \subseteq MayIncrement
  BY MayIncrementHas DEF Early
<1>3. \A nc \in CreateInput(b) :
        /\ nc \notin Range(createQueue)
        /\ \A c \in CreateBatches \ {b} : nc \notin CreateInput(c)
  BY DEF CreateRequestsPlaced
<1>4. /\ UNCHANGED createQueue
      /\ \A c \in CreateBatches \ {b} : CreateInput(c)' = CreateInput(c)
  BY DEF CreateStep, CreateExecutor, CreateStart, CreateLock, CreateGet, CreateCount,
         CreateUpdate, CreateAbort, Poll, PollTimeout, CreateFinish, CreateInput, Inv, TypeOK,
         CreateTypeOK
<1>5. MayIncrement' \subseteq MayIncrement \ CreateInput(b)
  <2>1. MayIncrement' \subseteq MayIncrement
    BY AskedCreateStep
  <2>2. ASSUME NEW nc \in MayIncrement', nc \in CreateInput(b) PROVE FALSE
    <3>1. \/ nc \in Range(createQueue)'
          \/ \E c \in CreateBatches : createPC'[c] \in Early /\ nc \in CreateInput(c)'
      BY <2>2 DEF MayIncrement, Early
    <3>2. createPC'[b] \in Early => CreateInput(b)' = {}
      BY EmptySequence DEF CreateInput
    <3>3. QED
      BY <1>3, <1>4, <2>2, <3>1, <3>2
  <2>3. QED
    BY <2>1, <2>2
<1>6. Cardinality(MayIncrement') <= Cardinality(MayIncrement) - Cardinality(CreateInput(b))
  <2>1. IsFiniteSet(MayIncrement) /\ IsFiniteSet(MayIncrement \ CreateInput(b))
    BY InputsFinite
  <2>2. MayIncrement \intersect CreateInput(b) = CreateInput(b)
    BY <1>2
  <2>3. Cardinality(MayIncrement \ CreateInput(b)) =
          Cardinality(MayIncrement) - Cardinality(CreateInput(b))
    BY <2>1, <2>2, FS_Difference
  <2>4. QED
    BY <1>5, <2>1, <2>3, FS_Subset
<1>7. deficit[b] \in Nat /\ deficit[b] <= Cardinality(CreateInput(b))
  BY DEF Asked, Inv, TypeOK, CreateTypeOK
<1>8. /\ Cardinality(MayIncrement) \in Nat /\ Cardinality(MayIncrement') \in Nat
      /\ Cardinality(CreateInput(b)) \in Nat /\ Cardinality(NodeClaims) \in Nat
      /\ md.replicas \in Nat /\ MaxSize \in Nat
  <2>1. MayIncrement' \subseteq NodeClaims
    BY <1>5, InputsFinite
  <2>2. md.replicas \in Nat /\ MaxSize \in Nat
    BY CallerAssumption DEF CallerAssumption, Inv, TypeOK, ClusterTypeOK, MD
  <2>3. QED
    BY <2>1, <2>2, InputsFinite
<1>9. QED
  BY <1>1, <1>6, <1>7, <1>8 DEF Within

LEMMA WithinStep ==
  ASSUME ~CacheLag, MaxSize > 0, Inv, Inv', CreateRequestsPlaced, Asked, Within, [Next]_vars
  PROVE  Within'
<1>1. ASSUME NEW b \in CreateBatches, CreateStep(b) PROVE Within'
  <2>1. md.replicas \in Nat
    BY DEF Inv, TypeOK, ClusterTypeOK, MD
  <2>2. CASE UNCHANGED md
    BY <1>1, <2>1, <2>2, AskedCreateStep, WithinStays
  <2>3. CASE /\ Increment(b) /\ createPC[b] = "update"
             /\ createPC'[b] \notin Early \/ createInputs'[b] = <<>>
    BY <1>1, <2>3, IncrementStays
  <2>4. QED
    BY <1>1, <2>2, <2>3, AskedCreateStep
<1>2. ASSUME NEW nc \in NodeClaims, CreateAdd(nc) PROVE Within'
  <2>1. md.replicas < MaxSize /\ UNCHANGED md
    BY <1>2 DEF CreateAdd, IsBelowMaxSize, MDView, clusterVars
  <2>2. /\ Cardinality(MayIncrement') \in Nat /\ Cardinality(NodeClaims) \in Nat
        /\ Cardinality(MayIncrement') <= Cardinality(NodeClaims)
    <3>1. /\ createQueue' \in Seq(NodeClaims)
          /\ createInputs' \in [CreateBatches -> Seq(NodeClaims)]
      BY DEF Inv, TypeOK, CreateTypeOK
    <3>2. /\ Range(createQueue)' \subseteq NodeClaims
          /\ \A b \in CreateBatches : CreateInput(b)' \subseteq NodeClaims
      BY <3>1 DEF CreateInput, Range
    <3>3. MayIncrement' \subseteq NodeClaims
      BY <3>2 DEF MayIncrement
    <3>4. QED
      BY <3>3, InputsFinite
  <2>3. md.replicas \in Int /\ MaxSize \in Nat
    BY CallerAssumption DEF CallerAssumption, Inv, TypeOK, ClusterTypeOK, MD
  <2>4. QED
    BY <2>1, <2>2, <2>3 DEF Within
<1>3. ASSUME md'.replicas <= md.replicas,
             UNCHANGED <<createQueue, createPC, createInputs, deficit>>
      PROVE  Within'
  BY <1>3, AskedRests, WithinStays
<1>4. md.replicas \in Nat
  BY DEF Inv, TypeOK, ClusterTypeOK, MD
<1>5. ASSUME NEW nc \in NodeClaims, BindStep(nc) \/ CreateReturn(nc) PROVE Within'
  BY <1>3, <1>4, <1>5 DEF BindStep, Bind, BindLabel, BindPatch, BindRollback, CreateReturn,
                          clusterVars
<1>6. CASE Restart
  <2>1. MayIncrement' = {}
    <3>1. createQueue' = <<>> /\ \A b \in CreateBatches : createInputs'[b] = <<>>
      BY <1>6 DEF Restart, CreateLost
    <3>2. QED
      BY <3>1, EmptySequence DEF MayIncrement, CreateInput
  <2>2. UNCHANGED md
    BY <1>6 DEF Restart, clusterVars
  <2>3. QED
    BY <1>4, <2>1, <2>2, WithinStays
<1>7. ASSUME NEW b \in DeleteBatches, DeleteStep(b) PROVE Within'
  BY <1>3, <1>7, DecrementLowers DEF DeleteStep, createVars
<1>8. CASE UNCHANGED vars \/ EnvironmentStep
  <2>1. UNCHANGED <<md, createVars>>
    BY <1>8 DEF vars, clusterVars, EnvironmentStep, Environment, CreateMachine, ProvisionMachine,
                ScaleDown, RemoveMachine, SyncMD, SyncMachines, SyncAnnotations
  <2>2. QED
    BY <1>3, <1>4, <2>1 DEF createVars
<1>9. ASSUME NEW nc \in NodeClaims,
             \/ AnnotateStep(nc) \/ CreateExisting(nc) \/ Terminate(nc) \/ DeleteFind(nc)
             \/ DeleteNotFound(nc) \/ DeleteAdd(nc) \/ DeleteReturn(nc)
      PROVE  Within'
  BY <1>3, <1>4, <1>9 DEF AnnotateStep, Annotate, CreateExisting, Terminate, DeleteFind,
                          DeleteNotFound, DeleteAdd, DeleteReturn, clusterVars, createVars
<1>10. QED
  BY <1>1, <1>2, <1>5, <1>6, <1>7, <1>8, <1>9 DEF Next, Caller

LEMMA IncrementsStayBounded == Spec => []IncrementsBounded
<1>1. Init => IncrementsBounded
  <2> SUFFICES ASSUME Init PROVE IncrementsBounded
    OBVIOUS
  <2>1. /\ createQueue = <<>> /\ Range(createQueue) = {} /\ IsInjective(createQueue)
        /\ \A b \in CreateBatches : /\ createInputs[b] = <<>> /\ IsInjective(createInputs[b])
                                    /\ CreateInput(b) = {}
                                    /\ deficit[b] = 0 /\ createPC[b] = "idle"
    BY EmptySequence DEF Init, CreateInit, CreateInput
  <2>2. MayIncrement = {} /\ Cardinality(MayIncrement) = 0
    BY <2>1, FS_EmptySet DEF MayIncrement
  <2>3. md.replicas = Cardinality(InitiallyBound)
    BY DEF Init, ClusterInit
  <2>4. /\ Cardinality(InitiallyBound) \in Nat /\ Cardinality(NodeClaims) \in Nat
        /\ Cardinality(InitiallyBound) <= Cardinality(NodeClaims)
    BY InitInv, InputsFinite DEF InitiallyBound
  <2>5. QED
    BY <2>1, <2>2, <2>3, <2>4, CallerAssumption DEF CallerAssumption, IncrementsBounded
<1>2. Inv /\ Inv' /\ CreateRequestsPlaced /\ IncrementsBounded /\ [Next]_vars
        => IncrementsBounded'
  <2> SUFFICES ASSUME Inv, Inv', CreateRequestsPlaced, IncrementsBounded, [Next]_vars
               PROVE  IncrementsBounded'
    OBVIOUS
  <2>1. Asked /\ (MaxSize > 0 /\ ~CacheLag => Within)
    BY DEF IncrementsBounded, Asked, Within
  <2>2. Asked'
    BY <2>1, AskedStep
  <2>3. MaxSize > 0 /\ ~CacheLag => Within'
    BY <2>1, WithinStep
  <2>4. QED
    BY <2>2, <2>3 DEF IncrementsBounded, Asked, Within
<1>3. QED
  BY <1>1, <1>2, Invariance, RequestsPlaced, PTL DEF Spec

\* With current reads the replicas pass the max-size annotation by less than the
\* number of NodeClaims let through at the same time, through lost replies and
\* restarts (cloudprovider.go:297-302, 591; create.go:140-158).
THEOREM OvershootBounded == ~CacheLag => (Spec => []MaxSizeOvershoot)
<1> SUFFICES ASSUME ~CacheLag PROVE Spec => []MaxSizeOvershoot
  OBVIOUS
<1>1. Inv /\ IncrementsBounded => MaxSizeOvershoot
  <2> SUFFICES ASSUME Inv, IncrementsBounded PROVE MaxSizeOvershoot
    OBVIOUS
  <2>1. /\ Cardinality(MayIncrement) \in Nat /\ Cardinality(NodeClaims) \in Nat
        /\ md.replicas \in Nat /\ MaxSize \in Nat
    BY InputsFinite, CallerAssumption DEF CallerAssumption, Inv, TypeOK, ClusterTypeOK, MD
  <2>2. QED
    BY <2>1 DEF IncrementsBounded, MaxSizeOvershoot
<1>2. QED
  BY <1>1, Invariance, IncrementsStayBounded, PTL
=============================================================================
