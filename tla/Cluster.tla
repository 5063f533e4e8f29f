------------------------------- MODULE Cluster -------------------------------
(***************************************************************************)
(* The state the provider shares with the rest of the world, and the calls *)
(* it makes on it: one MachineDeployment, its Machines, the Machine        *)
(* annotations of the NodeClaims, the informer caches the controller's     *)
(* client reads from, and the per-MachineDeployment lock of the batchers.  *)
(*                                                                         *)
(* A read (Get, List) is answered from the cache; a write (Update, Patch)  *)
(* goes to the API server.  Update carries the resourceVersion of the      *)
(* object that was read, so it takes effect only when that copy is still   *)
(* current; any call may also fail, and a write may take effect and yet be *)
(* answered with an error.                                                 *)
(*                                                                         *)
(* Cluster API itself (the MachineSet and infrastructure controllers) is   *)
(* external code: its actions are what the provider relies on.             *)
(***************************************************************************)
EXTENDS Integers, FiniteSets

CONSTANTS
  Machines,        \* names of the Machines the MachineDeployment may ever own
  NodeClaims,      \* NodeClaims launched on this MachineDeployment
  CreateBatches,   \* executions of the create batch executor
  DeleteBatches,   \* executions of the delete batch executor
  NoMachine,       \* "no Machine"
  NoBatch,         \* the lock is free
  InitialMachine,  \* the Machine each NodeClaim is bound to at the start
  CacheLag,        \* whether the informer caches may lag behind the API server
  LostReplies      \* whether a write that took effect may be answered with an error

Executors == CreateBatches \union DeleteBatches

ASSUME ClusterAssumption ==
  /\ IsFiniteSet(Machines) /\ IsFiniteSet(NodeClaims)
  /\ NoMachine \notin Machines
  /\ NoBatch \notin Executors
  /\ CreateBatches \intersect DeleteBatches = {}
  /\ CacheLag \in BOOLEAN /\ LostReplies \in BOOLEAN

InitiallyBound == {nc \in NodeClaims : InitialMachine[nc] # NoMachine}

\* At the start every bound NodeClaim has a Machine of its own.
ASSUME InitialAssumption ==
  /\ InitialMachine \in [NodeClaims -> Machines \union {NoMachine}]
  /\ \A nc1, nc2 \in InitiallyBound :
        InitialMachine[nc1] = InitialMachine[nc2] => nc1 = nc2

VARIABLES
  md,               \* spec.replicas and resourceVersion of the MachineDeployment
  mdCache,          \* the informer's copy of it
  machine,          \* the Machines, as the API server has them
  machineCache,     \* the informer's copy of them
  annotation,       \* the Machine named by each NodeClaim's annotation
  annotationCache,  \* the informer's copy of the annotations
  lock,             \* the executor holding the MachineDeployment's lock
  mdCopy,           \* the MachineDeployment object each executor has read
  granted,          \* history: replicas added by create batches
  taken             \* history: replicas removed by delete batches

clusterVars == <<md, mdCache, machine, machineCache, annotation, annotationCache>>

MD == [replicas : Int, version : Nat]

\* "absent": not created yet; "deleting": it has a deletionTimestamp;
\* "gone": its finalizers ran and the object is removed.
Phases == {"absent", "live", "deleting", "gone"}

\* member: carries NodePoolMemberLabel.  marked: carries the delete-machine
\* annotation.  provisioned: spec.providerID is set.
Machine ==
  [phase : Phases, provisioned : BOOLEAN, member : BOOLEAN, marked : BOOLEAN]

Blank(phase) ==
  [phase |-> phase, provisioned |-> FALSE, member |-> FALSE, marked |-> FALSE]

ClusterTypeOK ==
  /\ md \in MD /\ mdCache \in MD
  /\ md.replicas >= 0
  /\ machine \in [Machines -> Machine] /\ machineCache \in [Machines -> Machine]
  /\ annotation \in [NodeClaims -> Machines \union {NoMachine}]
  /\ annotationCache \in [NodeClaims -> Machines \union {NoMachine}]
  /\ lock \in Executors \union {NoBatch}
  /\ mdCopy \in [Executors -> MD]
  /\ granted \in Nat /\ taken \in Nat

ClusterInit ==
  /\ md = [replicas |-> Cardinality(InitiallyBound), version |-> 0]
  /\ mdCache = md
  /\ machine = [m \in Machines |->
       IF \E nc \in InitiallyBound : InitialMachine[nc] = m
         THEN [Blank("live") EXCEPT !.provisioned = TRUE, !.member = TRUE]
         ELSE Blank("absent")]
  /\ machineCache = machine
  /\ annotation = InitialMachine
  /\ annotationCache = annotation
  /\ lock = NoBatch
  /\ mdCopy = [b \in Executors |-> md]
  /\ granted = 0 /\ taken = 0

-----------------------------------------------------------------------------
(* Calls of the provider on the cluster. *)

MDView == IF CacheLag THEN mdCache ELSE md
MachineView == IF CacheLag THEN machineCache ELSE machine
AnnotationView == IF CacheLag THEN annotationCache ELSE annotation

\* Faulty: a Machine with a deletionTimestamp counts as missing.
FoundLive(m) == MachineView[m].phase = "live"

\* machineProvider.Get finds the object, deleted or not, until it is removed.
Found(m) == MachineView[m].phase \in {"live", "deleting"}

\* machineProvider.GetByProviderID: the Machine is listed, with that providerID.
Listed(m) == Found(m) /\ MachineView[m].provisioned

\* Faulty: the list selector forgets the member label.
UnclaimedAnyLabel ==
  {m \in Machines : MachineView[m].phase = "live" /\ ~MachineView[m].marked}

\* What countUnclaimedMachines and pollForNUnclaimedMachines let through: no
\* member label (the list selector), no deletionTimestamp, no delete annotation.
Unclaimed ==
  {m \in Machines : /\ MachineView[m].phase = "live"
                    /\ ~MachineView[m].member
                    /\ ~MachineView[m].marked}

\* Update of a Machine that was just read: the API server accepts it only when
\* the copy that was read is the current object.
UpdateMachine(m, object) ==
  /\ Found(m)
  /\ MachineView[m] = machine[m]
  /\ machine' = [machine EXCEPT ![m] = object]

\* Faulty: an Update without the resourceVersion.
UpdateMDUnconditional(copy, replicas) ==
  md' = [replicas |-> replicas, version |-> md.version + 1]

\* Update of the MachineDeployment from the copy that was read.
UpdateMD(copy, replicas) ==
  /\ copy.version = md.version
  /\ md' = [replicas |-> replicas, version |-> md.version + 1]

\* Faulty: no mutex behind Lock.
LockUnguarded(b) == lock' = b

\* MDLockManager.Lock and Unlock; module MDLock refines the lock they stand for.
Lock(b) ==
  /\ lock = NoBatch
  /\ lock' = b

Unlock(b) ==
  /\ lock = b
  /\ lock' = NoBatch

-----------------------------------------------------------------------------
(* Cluster API and the informers (external). *)

Live == {m \in Machines : machine[m].phase = "live"}

\* The MachineSet controller adds a Machine while there are too few.
CreateMachine(m) ==
  /\ machine[m].phase = "absent"
  /\ Cardinality(Live) < md.replicas
  /\ machine' = [machine EXCEPT ![m] = Blank("live")]
  /\ UNCHANGED <<md, mdCache, machineCache, annotation, annotationCache>>

\* The infrastructure provider sets spec.providerID.
ProvisionMachine(m) ==
  /\ machine[m].phase = "live" /\ ~machine[m].provisioned
  /\ machine' = [machine EXCEPT ![m].provisioned = TRUE]
  /\ UNCHANGED <<md, mdCache, machineCache, annotation, annotationCache>>

\* The MachineSet controller deletes a Machine while there are too many, and
\* prefers one with the delete-machine annotation.
ScaleDown(m) ==
  /\ machine[m].phase = "live"
  /\ Cardinality(Live) > md.replicas
  /\ machine[m].marked \/ \A other \in Live : ~machine[other].marked
  /\ machine' = [machine EXCEPT ![m].phase = "deleting"]
  /\ UNCHANGED <<md, mdCache, machineCache, annotation, annotationCache>>

\* The finalizers of a deleted Machine finish and the object disappears.
RemoveMachine(m) ==
  /\ machine[m].phase = "deleting"
  /\ machine' = [machine EXCEPT ![m] = Blank("gone")]
  /\ UNCHANGED <<md, mdCache, machineCache, annotation, annotationCache>>

\* An informer catches up.  Each kind has one watch, delivered in order.
SyncMD ==
  /\ CacheLag /\ mdCache # md
  /\ mdCache' = md
  /\ UNCHANGED <<md, machine, machineCache, annotation, annotationCache>>

SyncMachines ==
  /\ CacheLag /\ machineCache # machine
  /\ machineCache' = machine
  /\ UNCHANGED <<md, mdCache, machine, annotation, annotationCache>>

SyncAnnotations ==
  /\ CacheLag /\ annotationCache # annotation
  /\ annotationCache' = annotation
  /\ UNCHANGED <<md, mdCache, machine, machineCache, annotation>>

Environment ==
  \/ \E m \in Machines : \/ CreateMachine(m) \/ ProvisionMachine(m)
                         \/ ScaleDown(m) \/ RemoveMachine(m)
  \/ SyncMD \/ SyncMachines \/ SyncAnnotations
=============================================================================
