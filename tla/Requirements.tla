---------------------------- MODULE Requirements -----------------------------
(* What the batch executors and their callers must get right. *)
EXTENDS CloudProvider

\* No replica change is lost or made twice: spec.replicas is the initial value
\* plus every granted increment minus every decrement, whatever copies of the
\* MachineDeployment the executors worked from (create.go:149-158,
\* delete.go:152-169, MDLockManager).
ReplicaLedger == md.replicas = Cardinality(InitiallyBound) + granted - taken

\* Only a decrement lowers spec.replicas: a create batch that finds more unclaimed
\* Machines than it has requests, left over from batches that gave up, leaves the
\* surplus to others (create.go:140-159).
OnlyDeletesLower == [][md'.replicas < md.replicas => taken' > taken]_vars

\* The executor between Lock and Unlock, and no other, holds the lock; nobody
\* returns, polls or rolls back with it (the Unlock on every path of
\* create.go:130-159 and delete.go:138-170).
LockDiscipline ==
  /\ \A b \in CreateBatches : lock = b <=> createPC[b] \in {"get", "count", "update"}
  /\ \A b \in DeleteBatches : lock = b <=> deletePC[b] \in {"get", "update"}

\* Serialised by the lock, an executor about to Update the MachineDeployment
\* holds the current object, so the provider never conflicts with itself as long
\* as reads are current (mdlock.go:21-23).
NoSelfConflict ==
  /\ \A b \in CreateBatches : createPC[b] \in {"count", "update"} => mdCopy[b] = md
  /\ \A b \in DeleteBatches : deletePC[b] = "update" => mdCopy[b] = md

\* One batch never gives the same Machine to two NodeClaims, however often the
\* poll sees it (the "claimed" map, create.go:211-232).
PairsDistinct ==
  \A b \in CreateBatches : \A nc1, nc2 \in CreateInput(b) :
    /\ createPC[b] = "bind" /\ nc1 # nc2
    => assigned[nc1] = NoMachine \/ assigned[nc1] # assigned[nc2]

\* A Machine taken out of the unclaimed pool is a NodeClaim's, is being bound by
\* somebody, or had its label left behind by an API error or a restart.
NoOrphanLabel ==
  \A m \in Machines : machine[m].member =>
    \/ m \in labelLeaked
    \/ \E nc \in NodeClaims :
         \/ annotation[nc] = m
         \/ assigned[nc] = m /\ bindPC[nc] \in {"patch", "rollback"}

\* A Machine carrying the delete-machine annotation has been paid for with a
\* replica, is in a batch that still has to decrement or roll back, or had its mark
\* left behind by an API error or a restart (delete.go:80-82, 183-201).
NoOrphanMark ==
  \A m \in Machines : machine[m].marked =>
    \/ m \in paid \union markLeaked
    \/ \E nc \in NodeClaims : target[nc] = m /\ markPC[nc] = "annotated"

\* The Machines nobody asked to delete fit in spec.replicas: the MachineSet
\* controller never has to pick one of them (delete.go:183-187).
NoCollateralDeletion ==
  Cardinality({m \in Live : ~machine[m].marked}) <= md.replicas

\* However that fails: the Machines nobody asked to delete outnumber spec.replicas by
\* no more than the replicas that were taken for no newly marked Machine (a repeated
\* Delete, a decrement reported as failed), and the paid Machines whose mark a
\* rollback took off (delete.go:127-159, 183-201).
CollateralBounded ==
  LET Unasked == {m \in Live : ~machine[m].marked} IN
  Cardinality(Unasked) <=
    md.replicas + (taken - Cardinality(paid)) + Cardinality(Unasked \intersect paid)

\* No batch is waiting or running, and the MachineSet controller has nothing left
\* to create or delete.
Settled ==
  /\ createQueue = <<>> /\ deleteQueue = {}
  /\ \A b \in CreateBatches : createPC[b] \in {"idle", "done"}
  /\ \A b \in DeleteBatches : deletePC[b] \in {"idle", "done"}
  /\ Cardinality(Live) = md.replicas

\* A Machine whose deletion was reported as successful does not survive: once
\* everything has settled it is no longer live, whatever create batches did
\* meanwhile (delete.go:76-87, create.go:108-110).
SettledDeletes == Settled => \A m \in paid : machine[m].phase # "live"

\* Two NodeClaims never end up on one Machine (create.go:101-106).
NoDoubleClaim ==
  \A nc1, nc2 \in NodeClaims :
    annotation[nc1] = annotation[nc2] /\ annotation[nc1] # NoMachine => nc1 = nc2

\* A NodeClaim that has been given a Machine keeps it (cloudprovider.go:91-95).
AnnotationStable ==
  [][\A nc \in NodeClaims : annotation[nc] # NoMachine => annotation'[nc] = annotation[nc]]_vars

\* A Machine that is being deleted is not claimed: no step labels one for a
\* NodeClaim (create.go:108-110, delete.go:84-87).
ClaimsOnlyUsable ==
  [][\A nc \in NodeClaims :
       bindPC[nc] = "label" /\ bindPC'[nc] = "patch" =>
         /\ machine[assigned[nc]].phase = "live"
         /\ ~machine[assigned[nc]].marked]_vars

\* The pool a Machine is in, by its phase, its label and its mark.
StatusOf(object) ==
  IF object.phase \in {"absent", "gone"} THEN object.phase
  ELSE IF object.phase = "deleting" \/ object.marked THEN "condemned"
  ELSE IF object.member THEN "taken" ELSE "free"

PoolStatus == [m \in Machines |-> StatusOf(machine[m])]

Wanted == [nc \in NodeClaims |-> claim[nc] \in {"new", "creating", "launched"}]

Pool == INSTANCE MachinePool WITH
  owned <- annotation,
  wanted <- Wanted,
  status <- PoolStatus

\* Labels, marks, replica counts and the MachineSet controller's choices together
\* keep what MachinePool promises: a Machine goes to one NodeClaim, and only that
\* NodeClaim's Delete ever brings it down (create.go:79-110, delete.go:64-87).
ImplementsMachinePool == Pool!Spec

\* The providerID a launched NodeClaim reports is its annotated Machine's.
LaunchedIsAnnotated ==
  \A nc \in NodeClaims : claim[nc] = "launched" => providerID[nc] = annotation[nc]

\* Delete says NodeClaimNotFound, and the NodeClaim's finalizer goes, only when
\* the Machine is really gone, however stale the cache (cloudprovider.go:123-132,
\* machine.go:61-75).
FinishedIsGone ==
  \A nc \in NodeClaims :
    claim[nc] = "finished" =>
      providerID[nc] # NoMachine /\ machine[providerID[nc]].phase = "gone"

\* The max-size check is made before a request joins its batch and not again when
\* the batch increments, so spec.replicas may pass max-size, but never by more than
\* one replica for every further NodeClaim that was let through at the same time
\* (cloudprovider.go:297-302, 591; create.go:140-158).
MaxSizeOvershoot ==
  MaxSize > 0 => md.replicas <= MaxSize - 1 + Cardinality(NodeClaims)

\* Replicas are never over-incremented: no more are asked for than there are
\* NodeClaims to use them (create.go:98-106).
NeverOverIncremented == md.replicas <= Cardinality(NodeClaims)

\* Every execution that started returns, and with the lock released: the poll has
\* a deadline, labelling a bounded number of attempts, and every error path an
\* Unlock (create.go:111-184, delete.go:88-181).
EveryBatchEnds ==
  /\ \A b \in CreateBatches : createPC[b] # "idle" ~> createPC[b] = "done" /\ lock # b
  /\ \A b \in DeleteBatches : deletePC[b] # "idle" ~> deletePC[b] = "done" /\ lock # b

\* Every request of a batch gets a result, a Machine or an error, unless the
\* process is restarted under it and the NodeClaim starts again (create.go:118-181).
EveryRequestAnswered ==
  \A nc \in NodeClaims :
    (\E b \in CreateBatches : nc \in CreateInput(b))
      ~> \/ outcome[nc] # "none" /\ bindPC[nc] = "idle"
         \/ claim[nc] # "creating"

-----------------------------------------------------------------------------
(* Some of this holds only while create batches do not overlap. *)

\* The execution is between its start and its return.
Running(b) == createPC[b] \notin {"idle", "done"}

OneCreateAtATime ==
  \A b1, b2 \in CreateBatches : Running(b1) /\ Running(b2) => b1 = b2

\* The system, when the next create batch starts only after the last has returned.
SerialSpec == Init /\ [][Next /\ OneCreateAtATime']_vars

-----------------------------------------------------------------------------
(* What the proofs rest on besides. *)

\* Every copy of the MachineDeployment, cached or read, is the object as it once
\* was: an older version, or the current one.  ReplicaLedger rests on it.
CopiesCurrent ==
  \A copy \in {mdCache} \union {mdCopy[b] : b \in Executors} :
    /\ copy.version <= md.version
    /\ copy.version = md.version => copy = md

\* A goroutine that labels, patches or rolls back has a Machine.
BindingHasMachine ==
  \A nc \in NodeClaims :
    bindPC[nc] \in {"label", "patch", "rollback"} => assigned[nc] \in Machines

\* A delete request is in the queue or in one batch, and its caller waits in Add
\* from the moment it joins the queue until its result is delivered.
DeleteRequestsPlaced ==
  /\ \A b \in DeleteBatches :
       deletePC[b] \in {"idle", "done"} => deleteInputs[b] = {}
  /\ \A nc \in NodeClaims :
       /\ markPC[nc] # "idle" <=> \E b \in DeleteBatches : nc \in deleteInputs[b]
       /\ \A b1, b2 \in DeleteBatches :
            nc \in deleteInputs[b1] /\ nc \in deleteInputs[b2] => b1 = b2
       /\ nc \in deleteQueue => markPC[nc] = "idle"
       /\ nc \in deleteQueue \/ markPC[nc] # "idle" =>
            claim[nc] = "deleting" /\ deleted[nc] = "none" /\ target[nc] \in Machines
       /\ deleted[nc] # "none" => claim[nc] = "deleting"
       /\ claim[nc] = "checking" => target[nc] \in Machines

\* Nothing of a create request is left over for nc.
Unbound(nc) == bindPC[nc] = "idle" /\ outcome[nc] = "none" /\ assigned[nc] = NoMachine

\* nc is in the queue, or in a batch that has no Machine for it yet.
Waiting(nc) ==
  \/ nc \in Range(createQueue)
  \/ \E b \in CreateBatches : createPC[b] # "bind" /\ nc \in CreateInput(b)

\* A create request is in the queue or in one batch, which binds it in its last
\* stage only, and its caller waits in Add meanwhile; a poll never collects a
\* Machine twice, nor more Machines than there are inputs.
CreateRequestsPlaced ==
  /\ \A b \in CreateBatches :
       /\ createPC[b] \in {"idle", "done"} => createInputs[b] = <<>>
       /\ createPC[b] # "poll" => found[b] = <<>>
       /\ Len(found[b]) <= Len(createInputs[b])
       /\ IsInjective(found[b])
       /\ CreateInput(b) \intersect Range(createQueue) = {}
  /\ \A b1, b2 \in CreateBatches :
       b1 # b2 => CreateInput(b1) \intersect CreateInput(b2) = {}
  /\ \A b \in CreateBatches : \A nc \in NodeClaims :
       createPC[b] = "bind" /\ nc \in CreateInput(b) =>
         bindPC[nc] # "idle" /\ claim[nc] = "creating"
  /\ \A nc \in NodeClaims :
       /\ Waiting(nc) => claim[nc] = "creating" /\ Unbound(nc)
       /\ claim[nc] # "creating" => Unbound(nc)
       /\ bindPC[nc] # "idle" =>
            \E b \in CreateBatches : createPC[b] = "bind" /\ nc \in CreateInput(b)
       /\ bindPC[nc] = "label" => outcome[nc] = "none"
       /\ bindPC[nc] \in {"patch", "rollback"} => outcome[nc] \in {"launched", "waiting"}
       /\ bindPC[nc] = "done" => outcome[nc] # "none"

\* With current reads, a NodeClaim that is still to be given a Machine has none,
\* and one whose Create returns a Machine has that Machine.
AnnotationFollowsBinding ==
  \A nc \in NodeClaims :
    /\ Waiting(nc) \/ bindPC[nc] \in {"label", "patch"} => annotation[nc] = NoMachine
    /\ bindPC[nc] \in {"idle", "done"} /\ outcome[nc] \in {"launched", "waiting"} =>
         annotation[nc] = assigned[nc]

\* The object has, or had before it was removed, a providerID.
HadProviderID(object) ==
  \/ object.phase = "gone"
  \/ object.phase \in {"live", "deleting"} /\ object.provisioned

\* The informer never shows more of a Machine's life than has happened, and a
\* providerID that Create returns is one it has shown.
ProviderIDSeen ==
  /\ \A m \in Machines :
       /\ HadProviderID(machineCache[m]) => HadProviderID(machine[m])
       /\ machineCache[m].phase = "gone" => machine[m].phase = "gone"
  /\ \A nc \in NodeClaims :
       /\ providerID[nc] # NoMachine => HadProviderID(MachineView[providerID[nc]])
       /\ outcome[nc] = "launched" =>
            assigned[nc] \in Machines /\ HadProviderID(MachineView[assigned[nc]])

Existing == {m \in Machines : machine[m].phase # "absent"}

\* The MachineSet controller has never created more Machines, nor deleted more, than
\* the replicas it was given and that were taken allow.
MachinesFit ==
  /\ Cardinality(Existing) <= md.replicas + taken
  /\ Cardinality(Existing \ Live) <= taken

\* The requests that may still add a replica.
MayIncrement ==
  Range(createQueue) \union
    UNION {CreateInput(b) : b \in {c \in CreateBatches :
             createPC[c] \in {"lock", "get", "count", "update"}}}

\* No request is in the queue or in a batch twice, an execution asks for no more
\* replicas than it has requests, and these are within what MaxSizeOvershoot allows.
IncrementsBounded ==
  /\ IsInjective(createQueue)
  /\ \A b \in CreateBatches :
       /\ IsInjective(createInputs[b])
       /\ deficit[b] <= IF createPC[b] = "update" THEN Cardinality(CreateInput(b)) ELSE 0
  /\ MaxSize > 0 /\ ~CacheLag =>
       md.replicas + Cardinality(MayIncrement) <= MaxSize - 1 + Cardinality(NodeClaims)
=============================================================================
