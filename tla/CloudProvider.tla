---------------------------- MODULE CloudProvider ----------------------------
(***************************************************************************)
(* CloudProvider.Create and Delete on top of the two batch executors, and  *)
(* the caller that drives them: Karpenter's NodeClaim lifecycle controller *)
(* (external), which retries a failed Create or Delete and never has two   *)
(* calls for one NodeClaim outstanding.  All of it is one process, which   *)
(* may be restarted at any moment: the cluster keeps what was written, and *)
(* the caller starts again from the NodeClaims.                            *)
(***************************************************************************)
EXTENDS CreateBatch, DeleteBatch

CONSTANTS
  MaxSize,       \* the autoscaler max-size annotation of the MachineDeployment
  RepeatDelete,  \* whether Delete is called again after it has succeeded, while
                 \* the Machine still exists
  MaxRestarts    \* bound on how often the process is restarted

ASSUME CallerAssumption ==
  MaxSize \in Nat /\ RepeatDelete \in BOOLEAN /\ MaxRestarts \in Nat

VARIABLES
  claim,       \* where the life of each NodeClaim is
  providerID,  \* the Machine named by its status.providerID
  restarts     \* how often the process has been restarted

callerVars == <<claim, providerID, restarts>>

vars == <<clusterVars, lock, mdCopy, granted, taken, createVars, deleteVars, callerVars>>

CallerTypeOK ==
  /\ claim \in [NodeClaims ->
       {"new", "creating", "launched", "terminating", "checking", "deleting",
        "removing", "finished"}]
  /\ providerID \in [NodeClaims -> Machines \union {NoMachine}]
  /\ restarts \in 0 .. MaxRestarts

\* The values every variable ranges over; spec.replicas is never negative, the
\* clamp of delete.go:152-156.
TypeOK == ClusterTypeOK /\ CreateTypeOK /\ DeleteTypeOK /\ CallerTypeOK

Init ==
  /\ ClusterInit /\ CreateInit /\ DeleteInit
  /\ claim = [nc \in NodeClaims |-> IF nc \in InitiallyBound THEN "launched" ELSE "new"]
  /\ providerID = InitialMachine
  /\ restarts = 0

-----------------------------------------------------------------------------
(* Create *)

\* The NodeClaim already has the annotation: getExistingMachine.  A Machine that
\* is missing or has no providerID is an error, and the caller tries again.
CreateExisting(nc) ==
  LET m == AnnotationView[nc] IN
  /\ claim[nc] = "new" /\ m # NoMachine
  /\ Found(m) /\ MachineView[m].provisioned
  /\ providerID' = [providerID EXCEPT ![nc] = m]
  /\ claim' = [claim EXCEPT ![nc] = "launched"]
  /\ UNCHANGED <<clusterVars, lock, mdCopy, granted, taken, createVars, deleteVars, restarts>>

\* Faulty: the annotation of an earlier attempt is ignored.
NeedsMachineAlways(nc) == claim[nc] = "new"

NeedsMachine(nc) == claim[nc] = "new" /\ AnnotationView[nc] = NoMachine

\* Faulty: one comparison off.
IsAtMostMaxSize == MDView.replicas <= MaxSize

\* isBelowMaxSize: the offering of the MachineDeployment is available.
IsBelowMaxSize == MDView.replicas < MaxSize

\* Otherwise an instance type is resolved and the request joins the batcher.
CreateAdd(nc) ==
  /\ NeedsMachine(nc) /\ IsBelowMaxSize
  /\ createQueue' = Append(createQueue, nc)
  /\ claim' = [claim EXCEPT ![nc] = "creating"]
  /\ UNCHANGED <<clusterVars, lock, mdCopy, granted, taken, createPC, createInputs,
                 deficit, found, bindVars, labelLeaked, deleteVars, providerID,
                 restarts>>

\* Add returned.  A Machine without a providerID is an error as well.
CreateReturn(nc) ==
  /\ claim[nc] = "creating"
  /\ bindPC[nc] = "idle" /\ outcome[nc] # "none"
  /\ IF outcome[nc] = "launched"
     THEN /\ claim' = [claim EXCEPT ![nc] = "launched"]
          /\ providerID' = [providerID EXCEPT ![nc] = assigned[nc]]
     ELSE /\ claim' = [claim EXCEPT ![nc] = "new"]
          /\ UNCHANGED providerID
  /\ outcome' = [outcome EXCEPT ![nc] = "none"]
  /\ assigned' = [assigned EXCEPT ![nc] = NoMachine]
  /\ UNCHANGED <<clusterVars, lock, mdCopy, granted, taken, createQueue, createPC,
                 createInputs, deficit, found, bindPC, attempt, labelLeaked, deleteVars,
                 restarts>>

-----------------------------------------------------------------------------
(* Delete *)

\* The NodeClaim is deleted (external): its finalizer starts calling Delete.
Terminate(nc) ==
  /\ claim[nc] \in {"new", "launched"}
  /\ claim' = [claim EXCEPT ![nc] = "terminating"]
  /\ UNCHANGED <<clusterVars, lock, mdCopy, granted, taken, createVars, deleteVars,
                 providerID, restarts>>

\* findMachineForNodeClaim looks for the providerID, else for the annotation; a
\* Machine that is already deleting needs nothing more.  Every error, and the
\* deleting Machine, leaves the NodeClaim terminating for the next call.
DeleteFind(nc) ==
  LET m == IF providerID[nc] # NoMachine THEN providerID[nc] ELSE AnnotationView[nc] IN
  /\ claim[nc] = "terminating" /\ m # NoMachine
  /\ IF providerID[nc] # NoMachine THEN Listed(m) ELSE Found(m)
  /\ MachineView[m].phase # "deleting"
  /\ target' = [target EXCEPT ![nc] = m]
  /\ claim' = [claim EXCEPT ![nc] = "checking"]
  /\ UNCHANGED <<clusterVars, lock, mdCopy, granted, taken, createVars, deleteQueue,
                 deletePC, deleteInputs, markPC, deleted, paid, markLeaked, providerID,
                 restarts>>

\* No Machine has the providerID: NodeClaimNotFoundError, and the finalizer goes.
DeleteNotFound(nc) ==
  /\ claim[nc] \in {"terminating", "removing"}
  /\ providerID[nc] # NoMachine /\ ~Listed(providerID[nc])
  /\ claim' = [claim EXCEPT ![nc] = "finished"]
  /\ UNCHANGED <<clusterVars, lock, mdCopy, granted, taken, createVars, deleteVars,
                 providerID, restarts>>

\* The owner MachineDeployment must still have replicas to take.
DeleteAdd(nc) ==
  /\ claim[nc] = "checking"
  /\ \/ /\ MDView.replicas # 0
        /\ deleteQueue' = deleteQueue \union {nc}
        /\ claim' = [claim EXCEPT ![nc] = "deleting"]
        /\ UNCHANGED target
     \/ \* it has none, or it cannot be read
        /\ claim' = [claim EXCEPT ![nc] = "terminating"]
        /\ target' = [target EXCEPT ![nc] = NoMachine]
        /\ UNCHANGED deleteQueue
  /\ UNCHANGED <<clusterVars, lock, mdCopy, granted, taken, createVars, deletePC,
                 deleteInputs, markPC, deleted, paid, markLeaked, providerID,
                 restarts>>

\* Add returned.  After a success the caller waits for the Machine to go, or
\* calls Delete again.
DeleteReturn(nc) ==
  /\ claim[nc] = "deleting" /\ deleted[nc] # "none"
  /\ claim' = [claim EXCEPT ![nc] =
       IF deleted[nc] = "ok" /\ ~RepeatDelete THEN "removing" ELSE "terminating"]
  /\ deleted' = [deleted EXCEPT ![nc] = "none"]
  /\ target' = [target EXCEPT ![nc] = NoMachine]
  /\ UNCHANGED <<clusterVars, lock, mdCopy, granted, taken, createVars, deleteQueue,
                 deletePC, deleteInputs, markPC, paid, markLeaked, providerID,
                 restarts>>

-----------------------------------------------------------------------------
Caller(nc) ==
  \/ CreateExisting(nc) \/ CreateAdd(nc) \/ CreateReturn(nc) \/ Terminate(nc)
  \/ DeleteFind(nc) \/ DeleteNotFound(nc) \/ DeleteAdd(nc) \/ DeleteReturn(nc)

EnvironmentStep ==
  Environment /\ UNCHANGED <<lock, mdCopy, granted, taken, createVars, deleteVars, callerVars>>
CreateStep(b) == CreateExecutor(b) /\ UNCHANGED <<taken, deleteVars, callerVars>>
BindStep(nc) == Bind(nc) /\ UNCHANGED <<taken, deleteVars, callerVars>>
DeleteStep(b) == DeleteExecutor(b) /\ UNCHANGED <<granted, createVars, callerVars>>
AnnotateStep(nc) == Annotate(nc) /\ UNCHANGED <<granted, createVars, callerVars>>

\* The process is restarted: batches, lock and outstanding calls are gone, and the
\* NodeClaims are reconciled anew.
Restart ==
  /\ restarts < MaxRestarts
  /\ restarts' = restarts + 1
  /\ CreateLost /\ DeleteLost
  /\ lock' = NoBatch
  /\ claim' = [nc \in NodeClaims |->
       CASE claim[nc] = "creating" -> "new"
         [] claim[nc] \in {"checking", "deleting"} -> "terminating"
         [] OTHER -> claim[nc]]
  /\ UNCHANGED <<clusterVars, mdCopy, granted, taken, providerID>>

Next ==
  \/ EnvironmentStep \/ Restart
  \/ \E b \in CreateBatches : CreateStep(b)
  \/ \E b \in DeleteBatches : DeleteStep(b)
  \/ \E nc \in NodeClaims : BindStep(nc) \/ AnnotateStep(nc) \/ Caller(nc)

Spec == Init /\ [][Next]_vars

\* Every goroutine that can run keeps running, a call on the API server answers,
\* the poll's deadline expires, and sync.Mutex does not starve a waiter.  Nothing
\* is assumed of Cluster API, of the informers, or of who calls Create and Delete.
LiveSpec ==
  /\ Spec
  /\ \A b \in CreateBatches :
       /\ WF_vars(CreateStep(b))
       /\ SF_vars(CreateLock(b) /\ UNCHANGED <<taken, deleteVars, callerVars>>)
  /\ \A b \in DeleteBatches :
       /\ WF_vars(DeleteStep(b))
       /\ SF_vars(DeleteLock(b) /\ UNCHANGED <<granted, createVars, callerVars>>)
  /\ \A nc \in NodeClaims :
       WF_vars(BindStep(nc)) /\ WF_vars(AnnotateStep(nc))
=============================================================================
