----------------------------- MODULE CatalogProofs -----------------------------
(***************************************************************************)
(* Proofs about Catalog, for any MachineDeployments, Machines, NodeClaims, *)
(* shapes and edits.                                                       *)
(***************************************************************************)
EXTENDS Catalog, FiniteSetTheorems, WellFoundedInduction, TLAPS

-----------------------------------------------------------------------------
(* The NodeClass *)

\* The cache, and the copy of a Reconcile that is about to patch, are older than
\* the object or the same.
CopyOf(copy) ==
  /\ copy.version <= nodeClass.version
  /\ copy.version = nodeClass.version => copy = nodeClass

ClassInv ==
  /\ NodeClassTypeOK
  /\ CopyOf(classCache)
  /\ classPC = "patch" => CopyOf(classCopy)

LEMMA InitClassInv == Init => ClassInv
BY DEF Init, NodeClassInit, NodeClassTypeOK, NodeClass, NoCopy, ClassInv, CopyOf

LEMMA NoCopyType == NodeClassTypeOK => NoCopy \in NodeClass
<1> SUFFICES ASSUME NodeClassTypeOK PROVE NoCopy \in NodeClass
  OBVIOUS
<1>1. nodeClass.selector \in Selectors
  BY DEF NodeClassTypeOK, NodeClass
<1>2. (CHOOSE s \in Selectors : TRUE) \in Selectors
  BY <1>1
<1>3. QED
  BY <1>2 DEF NoCopy, NodeClass

\* A change of the object leaves every copy older.
LEMMA Outdated ==
  ASSUME ClassInv, nodeClass' \in NodeClass, nodeClass'.version = nodeClass.version + 1,
         UNCHANGED classCache,
         classPC' = "patch" => classPC = "patch" /\ UNCHANGED classCopy
  PROVE  CopyOf(classCache)' /\ (classPC = "patch" => CopyOf(classCopy))'
BY DEF ClassInv, CopyOf, NodeClassTypeOK, NodeClass

LEMMA NodeClassStepInv == ClassInv /\ NodeClassNext => ClassInv'
<1> SUFFICES ASSUME ClassInv, NodeClassNext PROVE ClassInv'
  OBVIOUS
<1>1. CASE OthersWrite
  <2>1. /\ nodeClass' \in NodeClass /\ nodeClass'.version = nodeClass.version + 1
        /\ UNCHANGED <<classCache, classCopy, classPC, classQueued>>
    <3>1. nodeClass \in NodeClass /\ nodeClass.version \in Nat
      BY DEF ClassInv, NodeClassTypeOK, NodeClass
    <3>2. PICK object \in
             {[nodeClass EXCEPT !.selector = s] : s \in Selectors}
               \union {[nodeClass EXCEPT !.extra = TRUE], [nodeClass EXCEPT !.ready = "false"],
                       [nodeClass EXCEPT !.exists = FALSE]} :
             nodeClass' = [object EXCEPT !.version = nodeClass.version + 1]
      BY <1>1 DEF OthersWrite
    <3>3. object \in NodeClass
      BY <3>1 DEF NodeClass
    <3>4. nodeClass' \in NodeClass /\ nodeClass'.version = nodeClass.version + 1
      BY <3>1, <3>2, <3>3 DEF NodeClass
    <3>5. QED
      BY <1>1, <3>4 DEF OthersWrite
  <2>2. NodeClassTypeOK'
    BY <2>1 DEF ClassInv, NodeClassTypeOK
  <2>3. QED
    BY <2>1, <2>2, Outdated DEF ClassInv
<1>2. CASE SyncNodeClass
  BY <1>2 DEF SyncNodeClass, ClassInv, CopyOf, NodeClassTypeOK, NodeClass
<1>3. CASE ReconcileStart
  BY <1>3 DEF ReconcileStart, ClassInv, CopyOf, NodeClassTypeOK
<1>4. CASE ReconcilePatch
  <2>1. /\ nodeClass' \in NodeClass /\ nodeClass'.version = nodeClass.version + 1
        /\ UNCHANGED <<classCache, classQueued>>
        /\ classPC' = "idle" /\ classCopy' = NoCopy
    <3>1. nodeClass \in NodeClass /\ nodeClass.version \in Nat /\ classCopy.extra \in BOOLEAN
      BY DEF ClassInv, NodeClassTypeOK, NodeClass
    <3>2. nodeClass' = [nodeClass EXCEPT !.ready = "true", !.extra = classCopy.extra,
                                         !.version = nodeClass.version + 1]
      BY <1>4 DEF ReconcilePatch
    <3>3. nodeClass' = [exists |-> nodeClass.exists, version |-> nodeClass.version + 1,
                        selector |-> nodeClass.selector, ready |-> "true",
                        extra |-> classCopy.extra]
      BY <3>1, <3>2 DEF NodeClass
    <3>4. nodeClass.exists \in BOOLEAN /\ nodeClass.selector \in Selectors
      BY <3>1 DEF NodeClass
    <3>5. nodeClass' \in NodeClass
      BY <3>1, <3>3, <3>4 DEF NodeClass
    <3>6. QED
      BY <1>4, <3>3, <3>5 DEF ReconcilePatch
  <2>2. NodeClassTypeOK'
    BY <2>1, NoCopyType DEF ClassInv, NodeClassTypeOK
  <2>3. QED
    BY <2>1, <2>2, Outdated DEF ClassInv
<1>5. CASE ReconcileFails
  BY <1>5, NoCopyType DEF ReconcileFails, ClassInv, CopyOf, NodeClassTypeOK
<1>6. QED
  BY <1>1, <1>2, <1>3, <1>4, <1>5 DEF NodeClassNext

\* A step of a user, of Cluster API or of Create leaves the NodeClass alone.
LEMMA ClassSteps ==
  ASSUME [Next]_vars
  PROVE  NodeClassNext \/ UNCHANGED classVars
BY DEF Next, Launch, Edit, CreateMachine, ProvisionMachine, LoseMachine, Resolve, Increment,
       IncrementFails, Bind, BindFails, GiveUp, Return, Existing, Collect, vars

LEMMA NextClassInv == ClassInv /\ [Next]_vars => ClassInv'
<1> SUFFICES ASSUME ClassInv, [Next]_vars PROVE ClassInv'
  OBVIOUS
<1>1. CASE UNCHANGED classVars
  BY <1>1 DEF classVars, ClassInv, CopyOf, NodeClassTypeOK
<1>2. QED
  BY <1>1, ClassSteps, NodeClassStepInv

LEMMA ClassInvariant == Spec => []ClassInv
BY InitClassInv, NextClassInv, PTL DEF Spec

LEMMA PatchKeepsCondition ==
  ASSUME ClassInv, [Next]_vars, nodeClass.extra, nodeClass'.exists
  PROVE  nodeClass'.extra
<1>1. CASE OthersWrite
  BY <1>1 DEF OthersWrite, ClassInv, NodeClassTypeOK, NodeClass
<1>2. CASE ReconcilePatch
  <2>1. classCopy = nodeClass
    BY <1>2 DEF ReconcilePatch, PatchApplies, ClassInv, CopyOf
  <2>2. QED
    BY <1>2, <2>1 DEF ReconcilePatch, ClassInv, NodeClassTypeOK, NodeClass
<1>3. CASE UNCHANGED nodeClass
  BY <1>3
<1>4. QED
  BY <1>1, <1>2, <1>3, ClassSteps
  DEF NodeClassNext, SyncNodeClass, ReconcileStart, ReconcileFails, classVars

\* However stale the cache, Reconcile never takes another writer's condition away:
\* its patch carries the version of its copy (controller.go:63).
THEOREM ConditionsKept == Spec => ConditionKept
<1>1. ClassInv /\ [Next]_vars => [nodeClass.extra /\ nodeClass'.exists => nodeClass'.extra]_vars
  BY PatchKeepsCondition
<1>2. QED
  BY <1>1, ClassInvariant, PTL DEF Spec, ConditionKept

-----------------------------------------------------------------------------
(* The MachineDeployments, Machines and NodeClaims *)

LEMMA InitTypeOK == Init => TypeOK
BY InitClassInv, CatalogAssumption, ShapeAssumption DEF Init, TypeOK, CatalogTypeOK, ClassInv

LEMMA ResolvableSelected ==
  ASSUME CatalogTypeOK, NEW nc \in NodeClaims, NEW d \in Resolvable(deployment, Candidates, nc)
  PROVE  d \in Deployments
BY DEF Resolvable, Preferred, Candidates, Selected, CatalogTypeOK

\* Asking for a replica changes nothing but the replicas.
LEMMA IncrementTouches ==
  ASSUME CatalogTypeOK, NEW d \in Deployments, deployment' = Incremented(d)
  PROVE  /\ DOMAIN deployment' = Deployments
         /\ \A e \in Deployments \ {d} : deployment'[e] = deployment[e]
         /\ deployment'[d] = [deployment[d] EXCEPT !.replicas = Replicas(d) + 1]
         /\ \A e \in Deployments : DOMAIN deployment'[e] = DOMAIN deployment[e]
         /\ deployment'[d].replicas \in Nat
<1>1. Replicas(d) \in Nat /\ "replicas" \in DOMAIN deployment[d]
  BY DEF CatalogTypeOK, Replicas, Fields
<1>2. QED
  BY <1>1 DEF Incremented, CatalogTypeOK

LEMMA NextCatalogTypeOK == CatalogTypeOK /\ [Next]_vars => CatalogTypeOK'
<1> SUFFICES ASSUME CatalogTypeOK, [Next]_vars PROVE CatalogTypeOK'
  OBVIOUS
<1>1. CASE UNCHANGED catalogVars
  BY <1>1 DEF catalogVars, launchVars, CatalogTypeOK
<1>2. ASSUME NEW d \in Deployments, Edit(d) PROVE CatalogTypeOK'
  <2>1. PICK shape \in Shapes :
          deployment' = [deployment EXCEPT ![d] = [shape EXCEPT !.replicas = deployment[d].replicas]]
    BY <1>2 DEF Edit
  <2> DEFINE new == [shape EXCEPT !.replicas = deployment[d].replicas]
  <2>2. "replicas" \in DOMAIN shape /\ Fields \subseteq DOMAIN shape
    BY ShapeAssumption DEF Fields
  <2>3. DOMAIN new = DOMAIN shape /\ new.replicas = deployment[d].replicas
    BY <2>2
  <2>4. /\ DOMAIN deployment' = Deployments /\ deployment'[d] = new
        /\ \A e \in Deployments \ {d} : deployment'[e] = deployment[e]
    BY <2>1 DEF CatalogTypeOK
  <2> HIDE DEF new
  <2>5. \A e \in Deployments :
          /\ Fields \subseteq DOMAIN deployment'[e]
          /\ deployment'[e].replicas = Absent \/ deployment'[e].replicas \in Nat
    BY <2>2, <2>3, <2>4 DEF CatalogTypeOK
  <2>6. edits' \in 0 .. MaxEdits
    BY <1>2, CatalogAssumption DEF Edit, CatalogTypeOK
  <2>7. QED
    BY <1>2, <2>4, <2>5, <2>6 DEF Edit, CatalogTypeOK, launchVars
<1>3. ASSUME NEW d \in Deployments, CreateMachine(d) PROVE CatalogTypeOK'
  BY <1>3 DEF CreateMachine, CatalogTypeOK, launchVars, NewMachines
<1>4. ASSUME NEW m \in Machines, ProvisionMachine(m) PROVE CatalogTypeOK'
  BY <1>4 DEF ProvisionMachine, CatalogTypeOK, launchVars
<1>5. ASSUME NEW nc \in NodeClaims, LoseMachine(nc) PROVE CatalogTypeOK'
  <2>1. machine' \in [Machines ->
          [phase : {"absent", "pending", "ready", "gone"},
           owner : Deployments \union {Absent}, member : BOOLEAN]]
    <3>1. CASE annotation[nc] \in Machines
      BY <1>5, <3>1 DEF LoseMachine, CatalogTypeOK
    <3>2. CASE annotation[nc] \notin Machines
      BY <1>5, <3>2 DEF LoseMachine, CatalogTypeOK
    <3>3. QED
      BY <3>1, <3>2
  <2>2. QED
    BY <1>5, <2>1 DEF LoseMachine, CatalogTypeOK, launchVars
<1>6. ASSUME NEW nc \in NodeClaims, Resolve(nc) PROVE CatalogTypeOK'
  <2>1. PICK d \in Deployments : chosen' = [chosen EXCEPT ![nc] = d]
    BY <1>6, ResolvableSelected DEF Resolve
  <2>2. QED
    BY <1>6, <2>1, CatalogAssumption DEF Resolve, CatalogTypeOK
<1>7. ASSUME NEW nc \in NodeClaims, Increment(nc) \/ IncrementFails(nc) PROVE CatalogTypeOK'
  <2>1. chosen[nc] \in Deployments
    BY <1>7 DEF Increment, IncrementFails, CatalogTypeOK
  <2>2. UNCHANGED deployment \/ deployment' = Incremented(chosen[nc])
    BY <1>7 DEF Increment, IncrementFails
  <2>3. /\ DOMAIN deployment' = Deployments
        /\ \A d \in Deployments :
             /\ Fields \subseteq DOMAIN deployment'[d]
             /\ deployment'[d].replicas = Absent \/ deployment'[d].replicas \in Nat
    BY <2>1, <2>2, IncrementTouches DEF CatalogTypeOK
  <2>4. QED
    BY <1>7, <2>1, <2>3 DEF Increment, IncrementFails, Fail, CatalogTypeOK
<1>8. ASSUME NEW nc \in NodeClaims, Bind(nc) \/ BindFails(nc) PROVE CatalogTypeOK'
  <2>1. PICK m \in Machines, member \in BOOLEAN :
          /\ machine' = [machine EXCEPT ![m].member = member]
          /\ annotation' \in {annotation, [annotation EXCEPT ![nc] = m]}
    BY <1>8 DEF Bind, BindFails, Unclaimed, MachinesOf
  <2>2. machine' \in [Machines ->
          [phase : {"absent", "pending", "ready", "gone"},
           owner : Deployments \union {Absent}, member : BOOLEAN]]
    <3> DEFINE R == [phase : {"absent", "pending", "ready", "gone"},
                     owner : Deployments \union {Absent}, member : BOOLEAN]
    <3>1. machine \in [Machines -> R] /\ machine[m] \in R
      BY DEF CatalogTypeOK
    <3>2. [machine[m] EXCEPT !.member = member] \in R
      BY <3>1
    <3>3. machine' = [machine EXCEPT ![m] = [machine[m] EXCEPT !.member = member]]
      BY <2>1
    <3> HIDE DEF R
    <3>4. machine' \in [Machines -> R]
      BY <3>1, <3>2, <3>3
    <3>5. QED
      BY <3>4 DEF R
  <2>3. QED
    <3>1. annotation' \in [NodeClaims -> Machines \union {NoMachine}]
      BY <2>1 DEF CatalogTypeOK
    <3>2. CASE Bind(nc)
      BY <2>2, <3>1, <3>2 DEF Bind, CatalogTypeOK
    <3>3. CASE BindFails(nc)
      BY <2>2, <3>1, <3>3 DEF BindFails, Fail, CatalogTypeOK
    <3>4. QED
      BY <1>8, <3>2, <3>3
<1>9. ASSUME NEW nc \in NodeClaims, GiveUp(nc) \/ Return(nc) \/ Existing(nc) \/ Collect(nc)
      PROVE  CatalogTypeOK'
  BY <1>9 DEF GiveUp, Fail, Return, Existing, Collect, CatalogTypeOK
<1>10. QED
  BY <1>1, <1>2, <1>3, <1>4, <1>5, <1>6, <1>7, <1>8, <1>9 DEF Next, Launch, vars

\* Every variable keeps its type; a request always names a MachineDeployment, so an
\* empty list of compatible ones is never taken the first of
\* (cloudprovider.go:302-304).
THEOREM TypeCorrect == Spec => []TypeOK
<1>1. Init => CatalogTypeOK
  BY InitTypeOK DEF TypeOK
<1>2. ClassInv /\ CatalogTypeOK => TypeOK
  BY DEF ClassInv, TypeOK
<1>3. QED
  BY <1>1, <1>2, NextCatalogTypeOK, ClassInvariant, PTL DEF Spec

-----------------------------------------------------------------------------
(* What is known of a NodeClaim's Machine *)

\* An annotated Machine exists and, if Create knows of the annotation, is claimed; what an executor has read is the
\* MachineDeployment it was asked for, and the Machine it binds belongs to that.
ClaimInv(nc) ==
  /\ annotation[nc] # NoMachine =>
       /\ machine[annotation[nc]].phase # "absent"
       /\ nc \notin misreported => machine[annotation[nc]].member
  /\ claim[nc] \in {"bound", "launched"} => annotation[nc] # NoMachine
  /\ claim[nc] = "polling" => output[nc].from = chosen[nc]
  /\ claim[nc] = "bound" => output[nc].from = machine[annotation[nc]].owner
  /\ claim[nc] = "launched" => reported[nc].from = machine[annotation[nc]].owner

OwnerInv ==
  /\ \A m \in Machines : machine[m].phase = "absent" <=> machine[m].owner = Absent
  /\ \A nc \in NodeClaims : ClaimInv(nc)

LEMMA InitOwnerInv == Init => OwnerInv
BY CatalogAssumption DEF Init, OwnerInv, ClaimInv

\* A Machine, once there, keeps its owner and its label.
MachinesKept ==
  \A m \in Machines : machine[m].phase # "absent" =>
    /\ machine'[m].phase # "absent"
    /\ machine'[m].owner = machine[m].owner
    /\ machine[m].member => machine'[m].member

LEMMA ClaimsUntouched ==
  ASSUME CatalogTypeOK, OwnerInv, MachinesKept, UNCHANGED launchVars,
         \A m \in Machines : machine'[m].phase = "absent" <=> machine'[m].owner = Absent
  PROVE  OwnerInv'
BY CatalogAssumption DEF OwnerInv, ClaimInv, MachinesKept, launchVars, CatalogTypeOK

\* A step of Create or of the garbage collection is about one NodeClaim.
LEMMA OtherClaims ==
  ASSUME OwnerInv, NEW nc \in NodeClaims, UNCHANGED <<machine, misreported>>,
         \A c \in NodeClaims \ {nc} :
           /\ claim'[c] = claim[c] /\ output'[c] = output[c] /\ annotation'[c] = annotation[c]
           /\ chosen'[c] = chosen[c] /\ reported'[c] = reported[c],
         ClaimInv(nc)'
  PROVE  OwnerInv'
BY DEF OwnerInv, ClaimInv

LEMMA NextOwnerInv == CatalogTypeOK /\ OwnerInv /\ [Next]_vars => OwnerInv'
<1> SUFFICES ASSUME CatalogTypeOK, OwnerInv, [Next]_vars PROVE OwnerInv'
  OBVIOUS
<1>1. CASE UNCHANGED <<machine, launchVars>>
  BY <1>1 DEF launchVars, OwnerInv, ClaimInv
<1>2. ASSUME NEW d \in Deployments, CreateMachine(d) PROVE OwnerInv'
  <2> DEFINE n == CHOOSE m \in NewMachines : TRUE
             member == NodePoolMemberLabel \in DOMAIN deployment[d].template
  <2>1. /\ n \in NewMachines
        /\ machine' = [machine EXCEPT ![n] = [phase |-> "pending", owner |-> d, member |-> member]]
    BY <1>2 DEF CreateMachine
  <2> HIDE DEF n, member
  <2>2. MachinesKept /\ \A m \in Machines : machine'[m].phase = "absent" <=> machine'[m].owner = Absent
    BY <2>1, CatalogAssumption DEF NewMachines, MachinesKept, OwnerInv, CatalogTypeOK
  <2>3. QED
    BY <1>2, <2>2, ClaimsUntouched DEF CreateMachine
<1>3. ASSUME NEW m \in Machines, ProvisionMachine(m) PROVE OwnerInv'
  <2>1. MachinesKept /\ \A n \in Machines : machine'[n].phase = "absent" <=> machine'[n].owner = Absent
    BY <1>3 DEF ProvisionMachine, MachinesKept, OwnerInv, CatalogTypeOK
  <2>2. QED
    BY <1>3, <2>1, ClaimsUntouched DEF ProvisionMachine
<1>4. ASSUME NEW nc \in NodeClaims, LoseMachine(nc) PROVE OwnerInv'
  <2>1. annotation[nc] \in Machines
    BY <1>4 DEF LoseMachine, OwnerInv, ClaimInv, CatalogTypeOK
  <2>2. MachinesKept /\ \A n \in Machines : machine'[n].phase = "absent" <=> machine'[n].owner = Absent
    BY <1>4, <2>1 DEF LoseMachine, MachinesKept, OwnerInv, CatalogTypeOK
  <2>3. QED
    BY <1>4, <2>2, ClaimsUntouched DEF LoseMachine
<1>5. ASSUME NEW nc \in NodeClaims,
             Resolve(nc) \/ IncrementFails(nc) \/ GiveUp(nc) \/ Collect(nc)
      PROVE  OwnerInv'
  <2>1. /\ UNCHANGED <<machine, misreported>>
        /\ claim'[nc] \in {"adding", "new", "collected"}
        /\ annotation'[nc] \in {annotation[nc], NoMachine}
        /\ \A c \in NodeClaims \ {nc} :
             /\ claim'[c] = claim[c] /\ output'[c] = output[c] /\ annotation'[c] = annotation[c]
             /\ chosen'[c] = chosen[c] /\ reported'[c] = reported[c]
    BY <1>5 DEF Resolve, IncrementFails, GiveUp, Fail, Collect, CatalogTypeOK
  <2>2. ClaimInv(nc)'
    BY <2>1 DEF OwnerInv, ClaimInv
  <2>3. QED
    BY <2>1, <2>2, OtherClaims
<1>6. ASSUME NEW nc \in NodeClaims, Increment(nc) PROVE OwnerInv'
  <2>1. /\ UNCHANGED <<machine, annotation, reported, chosen, misreported>>
        /\ claim'[nc] = "polling"
        /\ \A c \in NodeClaims \ {nc} : claim'[c] = claim[c]
    BY <1>6 DEF Increment, CatalogTypeOK
  <2>2. output' = [output EXCEPT ![nc] = Description(chosen[nc], deployment[chosen[nc]])]
    BY <1>6 DEF Increment
  <2>3. /\ output'[nc].from = chosen[nc]
        /\ \A c \in NodeClaims \ {nc} : output'[c] = output[c]
    BY <2>2 DEF Description, CatalogTypeOK
  <2>4. ClaimInv(nc)'
    BY <2>1, <2>3 DEF OwnerInv, ClaimInv
  <2>5. QED
    BY <2>1, <2>3, <2>4, OtherClaims
<1>7. ASSUME NEW nc \in NodeClaims, Bind(nc) PROVE OwnerInv'
  <2>1. PICK m \in Unclaimed(chosen[nc]) :
          /\ machine' = [machine EXCEPT ![m].member = TRUE]
          /\ annotation' = [annotation EXCEPT ![nc] = m]
    BY <1>7 DEF Bind
  <2>2. /\ m \in Machines /\ m # NoMachine
        /\ machine[m].owner = chosen[nc] /\ machine[m].phase # "absent"
    BY <1>7, <2>1, CatalogAssumption DEF Bind, Unclaimed, MachinesOf, OwnerInv, CatalogTypeOK
  <2>3. MachinesKept /\ \A n \in Machines : machine'[n].phase = machine[n].phase
                                            /\ machine'[n].owner = machine[n].owner
    BY <2>1, <2>2 DEF MachinesKept, CatalogTypeOK
  <2>4. machine'[m].member
    BY <2>1, <2>2 DEF CatalogTypeOK
  <2>5. QED
    BY <1>7, <2>1, <2>2, <2>3, <2>4 DEF Bind, MachinesKept, OwnerInv, ClaimInv, CatalogTypeOK
<1>8. ASSUME NEW nc \in NodeClaims, BindFails(nc) PROVE OwnerInv'
  <2>1. PICK m \in Unclaimed(chosen[nc]), leaked \in BOOLEAN, patched \in BOOLEAN :
          /\ machine' = [machine EXCEPT ![m].member = leaked]
          /\ annotation' = IF patched THEN [annotation EXCEPT ![nc] = m] ELSE annotation
          /\ misreported' = IF patched THEN misreported \union {nc} ELSE misreported
    BY <1>8 DEF BindFails
  <2>2. /\ m \in Machines /\ ~machine[m].member
        /\ machine[m].owner = chosen[nc] /\ machine[m].phase # "absent"
    BY <1>8, <2>1 DEF BindFails, Unclaimed, MachinesOf, OwnerInv, CatalogTypeOK
  <2>3. MachinesKept /\ \A n \in Machines : machine'[n].phase = machine[n].phase
                                            /\ machine'[n].owner = machine[n].owner
    BY <2>1, <2>2 DEF MachinesKept, CatalogTypeOK
  <2>4. /\ claim'[nc] = "new" /\ UNCHANGED reported
        /\ \A c \in NodeClaims \ {nc} :
             claim'[c] = claim[c] /\ output'[c] = output[c] /\ chosen'[c] = chosen[c]
    BY <1>8 DEF BindFails, Fail, CatalogTypeOK
  <2>5. /\ \A c \in NodeClaims \ {nc} :
             annotation'[c] = annotation[c] /\ (c \in misreported' <=> c \in misreported)
        /\ \/ annotation'[nc] = annotation[nc] /\ (nc \in misreported' <=> nc \in misreported)
           \/ annotation'[nc] = m /\ nc \in misreported'
    BY <2>1 DEF CatalogTypeOK
  <2>6. ASSUME NEW c \in NodeClaims \ {nc} PROVE ClaimInv(c)'
    BY <2>3, <2>4, <2>5 DEF MachinesKept, OwnerInv, ClaimInv, CatalogTypeOK
  <2>7. ClaimInv(nc)'
    BY <2>2, <2>3, <2>4, <2>5 DEF MachinesKept, OwnerInv, ClaimInv, CatalogTypeOK
  <2>8. QED
    BY <2>3, <2>6, <2>7 DEF OwnerInv
<1>9. ASSUME NEW nc \in NodeClaims, Return(nc) \/ Existing(nc) PROVE OwnerInv'
  <2> DEFINE owner == machine[annotation[nc]].owner
  <2>1. /\ UNCHANGED <<machine, annotation, misreported>>
        /\ annotation[nc] # NoMachine
        /\ claim'[nc] \in {"launched", "new"}
        /\ \A c \in NodeClaims \ {nc} : claim'[c] = claim[c]
    BY <1>9, CatalogAssumption DEF Return, Existing, OwnerInv, ClaimInv, CatalogTypeOK
  <2>2. /\ claim'[nc] = "launched" => reported'[nc].from = owner
        /\ \A c \in NodeClaims \ {nc} :
             reported'[c] = reported[c] /\ output'[c] = output[c] /\ chosen'[c] = chosen[c]
    <3>1. CASE Return(nc)
      BY <3>1 DEF Return, OwnerInv, ClaimInv, CatalogTypeOK
    <3>2. CASE Existing(nc)
      <4>1. reported' = [reported EXCEPT ![nc] = Description(owner, deployment[owner])]
        BY <3>2 DEF Existing, DescribedBy
      <4>2. QED
        BY <3>2, <4>1 DEF Existing, Description, CatalogTypeOK
    <3>3. QED
      BY <1>9, <3>1, <3>2
  <2>3. ClaimInv(nc)'
    BY <2>1, <2>2 DEF OwnerInv, ClaimInv
  <2>4. QED
    BY <2>1, <2>2, <2>3, OtherClaims
<1>10. QED
  BY <1>1, <1>2, <1>3, <1>4, <1>5, <1>6, <1>7, <1>8, <1>9
  DEF Next, Launch, Edit, vars, catalogVars

LEMMA OwnerInvariant == Spec => [](CatalogTypeOK /\ OwnerInv)
<1>1. Init => CatalogTypeOK /\ OwnerInv
  BY InitTypeOK, InitOwnerInv DEF TypeOK
<1>2. QED
  BY <1>1, NextCatalogTypeOK, NextOwnerInv, PTL DEF Spec

\* Through any edits and any retries, resolved to whichever MachineDeployment, what
\* Create reports of a Machine is read from its owner (cloudprovider.go:91-121).
THEOREM ReportsOwner == Spec => []ReportFromOwner
<1>1. CatalogTypeOK /\ OwnerInv => ReportFromOwner
  BY DEF OwnerInv, ClaimInv, ReportFromOwner
<1>2. QED
  BY <1>1, OwnerInvariant, PTL

\* Whatever users make of the MachineDeployments, and whichever calls fail, Karpenter
\* collects a NodeClaim only when its Machine is gone: List has it, or fails.  The
\* exception is a NodeClaim whose patch was carried out and reported as failed
\* (cloudprovider.go:223-248, create.go:335-345).
THEOREM CollectsLost == Spec => CollectsOnlyLost
<1> DEFINE Lost == \A nc \in NodeClaims :
             claim[nc] = "launched" /\ claim'[nc] = "collected" =>
               machine[annotation[nc]].phase = "gone" \/ nc \in misreported
<1>1. ASSUME CatalogTypeOK, OwnerInv, Next PROVE Lost
  <2> SUFFICES ASSUME NEW nc \in NodeClaims, claim[nc] = "launched", claim'[nc] = "collected"
               PROVE  machine[annotation[nc]].phase = "gone" \/ nc \in misreported
    OBVIOUS
  <2>1. Collect(nc)
    BY <1>1 DEF Next, Launch, Edit, CreateMachine, ProvisionMachine, LoseMachine, Resolve,
                Increment, IncrementFails, Bind, BindFails, GiveUp, Fail, Return, Existing,
                Collect, catalogVars, launchVars, CatalogTypeOK
  <2>2. annotation[nc] \in Machines /\ (nc \in misreported \/ machine[annotation[nc]].member)
    BY <1>1 DEF OwnerInv, ClaimInv, CatalogTypeOK
  <2>3. QED
    BY <2>1, <2>2 DEF Collect, ListOmits, GetNotFound, Members
<1>2. CatalogTypeOK /\ OwnerInv /\ [Next]_vars => [Lost]_vars
  BY <1>1
<1>3. QED
  BY <1>2, OwnerInvariant, PTL DEF Spec, CollectsOnlyLost

-----------------------------------------------------------------------------
(* A NodeClaim gets a Machine that suits it. *)

\* What NodeSuits asks of what is reported.
Suits(description, nc) ==
  /\ \A r \in DOMAIN nc.requests :
       nc.requests[r] <= ValueOr(description.capacity, r, 0)
  /\ \A k \in DOMAIN nc.requirements \intersect DOMAIN description.labels :
       description.labels[k] \in nc.requirements[k]
  /\ LabelTopologyZone \in DOMAIN nc.requirements =>
       LabelTopologyZone \in DOMAIN description.labels
  /\ DOMAIN description.labels \ WellKnown \subseteq DOMAIN nc.requirements

DescribedNow(d) == Description(d, deployment[d])

\* The MachineDeployment a NodeClaim is resolved to, what its executor has read of
\* it, the owner of its Machine and what is reported suit it, until they are edited.
SuitInv(nc) ==
  LET unedited(d) == d \notin editedSince[nc]
      owner == machine[annotation[nc]].owner IN
  /\ claim[nc] \in {"adding", "polling"} /\ unedited(chosen[nc]) =>
       Suits(DescribedNow(chosen[nc]), nc)
  /\ claim[nc] \in {"polling", "bound"} /\ unedited(output[nc].from) => Suits(output[nc], nc)
  /\ annotation[nc] # NoMachine /\ unedited(owner) => Suits(DescribedNow(owner), nc)
  /\ claim[nc] = "launched" /\ unedited(reported[nc].from) => Suits(reported[nc], nc)

\* What passes the filter suits: labels are single values, a zone that is asked for has
\* a name, and only the labels Karpenter knows may go unnamed.
LEMMA FilteredSuits ==
  ASSUME NEW nc \in NodeClaims, NEW d, NEW md, FiltersIn(InstanceType(md), nc)
  PROVE  Suits(Description(d, md), nc)
<1> DEFINE labels == NodeLabels(md)
           zone == LabelTopologyZone
           required == nc.requirements
<1>1. /\ InstanceType(md).capacity = ParsedCapacity(md.capacity)
      /\ InstanceType(md).requirements = [k \in DOMAIN labels |-> {labels[k]}]
      /\ InstanceType(md).offering[zone] = {ValueOr(labels, zone, "")}
      /\ zone \in DOMAIN InstanceType(md).offering
  BY DEF InstanceType
<1>2. Description(d, md).labels = labels /\ Description(d, md).capacity = ParsedCapacity(md.capacity)
  BY DEF Description
<1>3. \A r \in DOMAIN nc.requests : nc.requests[r] <= ValueOr(ParsedCapacity(md.capacity), r, 0)
  BY <1>1 DEF FiltersIn, Fits
<1>4. ASSUME NEW k \in DOMAIN required \intersect DOMAIN labels PROVE labels[k] \in required[k]
  <2>1. required[k] \intersect InstanceType(md).requirements[k] # {}
    BY <1>1 DEF FiltersIn, Compatible
  <2>2. QED
    BY <1>1, <2>1
<1>5. ASSUME zone \in DOMAIN required PROVE zone \in DOMAIN labels
  <2>1. required[zone] \intersect {ValueOr(labels, zone, "")} # {}
    BY <1>1, <1>5 DEF FiltersIn, Compatible
  <2>2. "" \notin required[zone]
    BY <1>5, ZoneAssumption
  <2>3. QED
    BY <2>1, <2>2 DEF ValueOr
<1>6. DOMAIN labels \ WellKnown \subseteq DOMAIN required
  BY <1>1 DEF FiltersIn, Compatible
<1> HIDE DEF labels, zone, required
<1>7. QED
  BY <1>2, <1>3, <1>4, <1>5, <1>6 DEF Suits, labels, zone, required

\* Replicas are no part of a description.
LEMMA ReplicasUndescribed ==
  ASSUME NEW d, NEW md, NEW n, Fields \subseteq DOMAIN md
  PROVE  Description(d, [md EXCEPT !.replicas = n]) = Description(d, md)
<1> DEFINE new == [md EXCEPT !.replicas = n]
<1>1. new.template = md.template /\ new.annotation = md.annotation /\ new.capacity = md.capacity
  BY DEF Fields
<1> HIDE DEF new
<1>2. NodeLabels(new) = NodeLabels(md)
  BY <1>1, Zenon DEF NodeLabels
<1>3. QED
  BY <1>1, <1>2 DEF Description, new

\* A step that leaves the NodeClaim alone, and changes what is described only of
\* MachineDeployments that count as edited.
LEMMA StillSuits ==
  ASSUME CatalogTypeOK, OwnerInv, NEW nc \in NodeClaims, SuitInv(nc),
         /\ claim'[nc] = claim[nc] /\ chosen'[nc] = chosen[nc] /\ output'[nc] = output[nc]
         /\ annotation'[nc] = annotation[nc] /\ reported'[nc] = reported[nc],
         editedSince[nc] \subseteq editedSince'[nc],
         annotation[nc] # NoMachine =>
           machine'[annotation[nc]].owner = machine[annotation[nc]].owner,
         \A d \in Deployments \ editedSince'[nc] : DescribedNow(d)' = DescribedNow(d)
  PROVE  SuitInv(nc)'
<1>1. claim[nc] \in {"adding", "polling"} => chosen[nc] \in Deployments
  BY DEF CatalogTypeOK
<1>2. annotation[nc] # NoMachine => machine[annotation[nc]].owner \in Deployments
  BY DEF OwnerInv, ClaimInv, CatalogTypeOK
<1>3. QED
  BY <1>1, <1>2 DEF SuitInv

AllSuit == \A nc \in NodeClaims : SuitInv(nc)

\* As StillSuits, for a step of the NodeClaim c on unedited MachineDeployments.
LEMMA OthersStillSuit ==
  ASSUME CatalogTypeOK, OwnerInv, AllSuit, NEW c \in NodeClaims,
         \A nc \in NodeClaims \ {c} :
           /\ claim'[nc] = claim[nc] /\ chosen'[nc] = chosen[nc] /\ output'[nc] = output[nc]
           /\ annotation'[nc] = annotation[nc] /\ reported'[nc] = reported[nc]
           /\ editedSince'[nc] = editedSince[nc],
         \A m \in Machines : machine'[m].owner = machine[m].owner,
         \A d \in Deployments : DescribedNow(d)' = DescribedNow(d),
         SuitInv(c)'
  PROVE  AllSuit'
<1> SUFFICES ASSUME NEW nc \in NodeClaims PROVE SuitInv(nc)'
  BY DEF AllSuit
<1>1. CASE nc = c
  BY <1>1
<1>2. CASE nc # c
  <2>1. annotation[nc] # NoMachine => annotation[nc] \in Machines
    BY DEF CatalogTypeOK
  <2>2. QED
    BY <1>2, <2>1, StillSuits DEF AllSuit
<1>3. QED
  BY <1>1, <1>2

LEMMA SameDescriptions ==
  ASSUME UNCHANGED deployment
  PROVE  \A d \in Deployments : DescribedNow(d)' = DescribedNow(d)
BY DEF DescribedNow

LEMMA IncrementedDescriptions ==
  ASSUME CatalogTypeOK, NEW d \in Deployments, deployment' = Incremented(d)
  PROVE  \A e \in Deployments : DescribedNow(e)' = DescribedNow(e)
<1> SUFFICES ASSUME NEW e \in Deployments PROVE DescribedNow(e)' = DescribedNow(e)
  OBVIOUS
<1>1. CASE e # d
  BY <1>1, IncrementTouches DEF DescribedNow
<1>2. CASE e = d
  <2> DEFINE new == [deployment[e] EXCEPT !.replicas = Replicas(e) + 1]
  <2>1. Fields \subseteq DOMAIN deployment[e]
    BY DEF CatalogTypeOK
  <2>2. Description(e, new) = Description(e, deployment[e])
    BY <2>1, ReplicasUndescribed
  <2>3. deployment'[e] = new
    BY <1>2, IncrementTouches
  <2> HIDE DEF new
  <2>4. QED
    BY <2>2, <2>3 DEF DescribedNow
<1>3. QED
  BY <1>1, <1>2

LEMMA NextAllSuit ==
  CatalogTypeOK /\ OwnerInv /\ AllSuit /\ [Next]_vars => AllSuit'
<1> SUFFICES ASSUME CatalogTypeOK, OwnerInv, AllSuit, [Next]_vars PROVE AllSuit'
  OBVIOUS
<1>1. CASE UNCHANGED catalogVars
  <2> SUFFICES ASSUME NEW nc \in NodeClaims PROVE SuitInv(nc)'
    BY DEF AllSuit
  <2>1. QED
    BY <1>1, SameDescriptions, StillSuits DEF AllSuit, catalogVars, launchVars
<1>2. ASSUME NEW d \in Deployments, Edit(d) PROVE AllSuit'
  <2> SUFFICES ASSUME NEW nc \in NodeClaims PROVE SuitInv(nc)'
    BY DEF AllSuit
  <2>1. editedSince'[nc] = editedSince[nc] \union {d} /\ UNCHANGED <<machine, launchVars>>
    BY <1>2 DEF Edit
  <2>2. \A e \in Deployments \ {d} : deployment'[e] = deployment[e]
    BY <1>2 DEF Edit, CatalogTypeOK
  <2>3. \A e \in Deployments \ editedSince'[nc] : DescribedNow(e)' = DescribedNow(e)
    BY <2>1, <2>2 DEF DescribedNow
  <2>4. QED
    BY <2>1, <2>3, StillSuits DEF AllSuit, launchVars
<1>3. ASSUME UNCHANGED <<deployment, launchVars, editedSince>>,
             \A m \in Machines : machine[m].phase # "absent" => machine'[m].owner = machine[m].owner
      PROVE  AllSuit'
  <2> SUFFICES ASSUME NEW nc \in NodeClaims PROVE SuitInv(nc)'
    BY DEF AllSuit
  <2>1. annotation[nc] # NoMachine => machine'[annotation[nc]].owner = machine[annotation[nc]].owner
    BY <1>3 DEF OwnerInv, ClaimInv, CatalogTypeOK
  <2>2. QED
    BY <1>3, <2>1, SameDescriptions, StillSuits DEF AllSuit, launchVars
<1>4. ASSUME NEW d \in Deployments, CreateMachine(d) PROVE AllSuit'
  BY <1>3, <1>4 DEF CreateMachine, NewMachines, CatalogTypeOK
<1>5. ASSUME NEW m \in Machines, ProvisionMachine(m) PROVE AllSuit'
  BY <1>3, <1>5 DEF ProvisionMachine, CatalogTypeOK
<1>6. ASSUME NEW nc \in NodeClaims, LoseMachine(nc) PROVE AllSuit'
  BY <1>3, <1>6 DEF LoseMachine, CatalogTypeOK
<1>7. ASSUME NEW nc \in NodeClaims, Resolve(nc) PROVE AllSuit'
  <2>1. PICK d \in Resolvable(deployment, Candidates, nc) : chosen' = [chosen EXCEPT ![nc] = d]
    BY <1>7 DEF Resolve
  <2>2. d \in Deployments /\ FiltersIn(InstanceType(deployment[d]), nc)
    BY <2>1, ResolvableSelected DEF Resolvable, Preferred
  <2>3. Suits(DescribedNow(d), nc)
    BY <2>2, FilteredSuits DEF DescribedNow
  <2>4. /\ UNCHANGED <<deployment, machine, output, annotation, reported>>
        /\ claim'[nc] = "adding" /\ chosen'[nc] = d /\ annotation[nc] = NoMachine
        /\ \A c \in NodeClaims \ {nc} :
             claim'[c] = claim[c] /\ chosen'[c] = chosen[c] /\ editedSince'[c] = editedSince[c]
    BY <1>7, <2>1 DEF Resolve, CatalogTypeOK
  <2>5. SuitInv(nc)'
    BY <2>3, <2>4 DEF SuitInv, DescribedNow
  <2>6. QED
    BY <2>4, <2>5, SameDescriptions, OthersStillSuit
<1>8. ASSUME NEW nc \in NodeClaims, Increment(nc) PROVE AllSuit'
  <2> DEFINE d == chosen[nc]
  <2>1. /\ d \in Deployments /\ claim[nc] = "adding" /\ claim'[nc] = "polling"
        /\ UNCHANGED <<machine, chosen, annotation, reported, editedSince>>
        /\ output' = [output EXCEPT ![nc] = DescribedNow(d)]
        /\ \A c \in NodeClaims \ {nc} : claim'[c] = claim[c]
    BY <1>8 DEF Increment, DescribedNow, CatalogTypeOK
  <2>2. \A e \in Deployments : DescribedNow(e)' = DescribedNow(e)
    BY <1>8, <2>1, SameDescriptions, IncrementedDescriptions DEF Increment
  <2>3. /\ output'[nc] = DescribedNow(d) /\ output'[nc].from = d
        /\ \A c \in NodeClaims \ {nc} : output'[c] = output[c]
    BY <2>1 DEF CatalogTypeOK, DescribedNow, Description
  <2>4. SuitInv(nc)'
    <3>1. SuitInv(nc)
      BY DEF AllSuit
    <3>2. annotation[nc] # NoMachine => machine[annotation[nc]].owner \in Deployments
      BY DEF OwnerInv, ClaimInv, CatalogTypeOK
    <3> HIDE DEF d
    <3>3. d = chosen[nc] /\ chosen' = chosen
      BY <2>1 DEF d
    <3>4. QED
      BY <2>1, <2>2, <2>3, <3>1, <3>2, <3>3 DEF SuitInv
  <2>5. QED
    BY <2>1, <2>2, <2>3, <2>4, OthersStillSuit
<1>9. ASSUME NEW nc \in NodeClaims, Bind(nc) PROVE AllSuit'
  <2>1. PICK m \in Unclaimed(chosen[nc]) :
          /\ machine' = [machine EXCEPT ![m].member = TRUE]
          /\ annotation' = [annotation EXCEPT ![nc] = m]
    BY <1>9 DEF Bind
  <2>2. m \in Machines /\ machine[m].owner = chosen[nc]
    BY <2>1 DEF Unclaimed, MachinesOf
  <2>3. /\ \A n \in Machines : machine'[n].owner = machine[n].owner
        /\ annotation'[nc] = m
        /\ \A c \in NodeClaims \ {nc} : annotation'[c] = annotation[c]
    BY <2>1, <2>2 DEF CatalogTypeOK
  <2>4. /\ UNCHANGED <<deployment, chosen, output, reported, editedSince>>
        /\ claim[nc] = "polling" /\ claim'[nc] = "bound"
        /\ \A c \in NodeClaims \ {nc} : claim'[c] = claim[c]
    BY <1>9 DEF Bind, CatalogTypeOK
  <2>5. SuitInv(nc)'
    <3>1. SuitInv(nc)
      BY DEF AllSuit
    <3>2. machine'[annotation'[nc]].owner = chosen[nc]
      BY <2>2, <2>3
    <3>3. DescribedNow(chosen[nc])' = DescribedNow(chosen[nc])
      BY <2>4 DEF DescribedNow
    <3>4. QED
      BY <2>4, <3>1, <3>2, <3>3 DEF SuitInv
  <2>6. QED
    BY <2>3, <2>4, <2>5, SameDescriptions, OthersStillSuit
<1>10. ASSUME NEW nc \in NodeClaims, IncrementFails(nc) \/ GiveUp(nc) PROVE AllSuit'
  <2>1. /\ UNCHANGED <<machine, annotation, reported, editedSince>>
        /\ claim'[nc] = "new"
        /\ \A c \in NodeClaims \ {nc} :
             claim'[c] = claim[c] /\ chosen'[c] = chosen[c] /\ output'[c] = output[c]
    BY <1>10 DEF IncrementFails, GiveUp, Fail, CatalogTypeOK
  <2>2. \A d \in Deployments : DescribedNow(d)' = DescribedNow(d)
    <3>1. \/ UNCHANGED deployment
          \/ chosen[nc] \in Deployments /\ deployment' = Incremented(chosen[nc])
      BY <1>10 DEF IncrementFails, GiveUp, CatalogTypeOK
    <3>2. QED
      BY <3>1, SameDescriptions, IncrementedDescriptions
  <2>3. SuitInv(nc)'
    <3>1. SuitInv(nc)
      BY DEF AllSuit
    <3>2. annotation[nc] # NoMachine => machine[annotation[nc]].owner \in Deployments
      BY DEF OwnerInv, ClaimInv, CatalogTypeOK
    <3>3. QED
      BY <2>1, <2>2, <3>1, <3>2 DEF SuitInv
  <2>4. QED
    BY <2>1, <2>2, <2>3, OthersStillSuit
<1>11. ASSUME NEW nc \in NodeClaims, BindFails(nc) PROVE AllSuit'
  <2>1. PICK m \in Unclaimed(chosen[nc]), leaked \in BOOLEAN :
          /\ machine' = [machine EXCEPT ![m].member = leaked]
          /\ annotation' \in {annotation, [annotation EXCEPT ![nc] = m]}
    BY <1>11 DEF BindFails
  <2>2. m \in Machines /\ machine[m].owner = chosen[nc]
    BY <2>1 DEF Unclaimed, MachinesOf
  <2>3. /\ \A n \in Machines : machine'[n].owner = machine[n].owner
        /\ annotation'[nc] \in {annotation[nc], m}
        /\ \A c \in NodeClaims \ {nc} : annotation'[c] = annotation[c]
    BY <2>1, <2>2 DEF CatalogTypeOK
  <2>4. /\ UNCHANGED <<deployment, reported, editedSince>>
        /\ claim[nc] = "polling" /\ claim'[nc] = "new"
        /\ \A c \in NodeClaims \ {nc} :
             claim'[c] = claim[c] /\ chosen'[c] = chosen[c] /\ output'[c] = output[c]
    BY <1>11 DEF BindFails, Fail, CatalogTypeOK
  <2>5. SuitInv(nc)'
    <3>1. SuitInv(nc)
      BY DEF AllSuit
    <3>2. \A d : DescribedNow(d)' = DescribedNow(d)
      BY <2>4 DEF DescribedNow
    <3>3. annotation[nc] # NoMachine => annotation[nc] \in Machines
      BY DEF CatalogTypeOK
    <3>4. annotation'[nc] # NoMachine =>
            \/ annotation[nc] # NoMachine
                 /\ machine'[annotation'[nc]].owner = machine[annotation[nc]].owner
            \/ machine'[annotation'[nc]].owner = chosen[nc]
      BY <2>2, <2>3, <3>3
    <3>5. QED
      BY <2>4, <3>1, <3>2, <3>4 DEF SuitInv
  <2>6. QED
    BY <2>3, <2>4, <2>5, SameDescriptions, OthersStillSuit
<1>12. ASSUME NEW nc \in NodeClaims, Collect(nc) PROVE AllSuit'
  <2>1. /\ UNCHANGED <<deployment, machine, chosen, output>>
        /\ claim'[nc] = "collected" /\ annotation'[nc] = NoMachine
        /\ \A c \in NodeClaims \ {nc} :
             /\ claim'[c] = claim[c] /\ annotation'[c] = annotation[c]
             /\ reported'[c] = reported[c] /\ editedSince'[c] = editedSince[c]
    BY <1>12 DEF Collect, CatalogTypeOK
  <2>2. SuitInv(nc)'
    BY <2>1 DEF SuitInv
  <2>3. QED
    BY <2>1, <2>2, SameDescriptions, OthersStillSuit
<1>13. ASSUME NEW nc \in NodeClaims, Return(nc) \/ Existing(nc) PROVE AllSuit'
  <2> DEFINE owner == machine[annotation[nc]].owner
  <2>1. /\ UNCHANGED <<deployment, machine, annotation, editedSince>>
        /\ claim'[nc] \in {"launched", "new"}
        /\ \A c \in NodeClaims \ {nc} :
             /\ claim'[c] = claim[c] /\ chosen'[c] = chosen[c] /\ output'[c] = output[c]
             /\ reported'[c] = reported[c]
    BY <1>13 DEF Return, Existing, CatalogTypeOK
  <2>2. claim'[nc] = "launched" =>
          \/ reported'[nc] = output[nc] /\ claim[nc] = "bound"
          \/ /\ reported'[nc] = DescribedNow(owner) /\ reported'[nc].from = owner
             /\ annotation[nc] # NoMachine
    <3>1. CASE Return(nc)
      BY <3>1 DEF Return, CatalogTypeOK
    <3>2. CASE Existing(nc)
      <4>1. reported' = [reported EXCEPT ![nc] = DescribedNow(owner)]
        BY <3>2 DEF Existing, DescribedBy, DescribedNow
      <4>2. reported'[nc] = DescribedNow(owner) /\ DescribedNow(owner).from = owner
        BY <4>1 DEF CatalogTypeOK, DescribedNow, Description
      <4>3. QED
        BY <3>2, <4>2 DEF Existing
    <3>3. QED
      BY <1>13, <3>1, <3>2
  <2>3. SuitInv(nc)'
    <3>1. SuitInv(nc) /\ DescribedNow(owner)' = DescribedNow(owner)
      BY <2>1 DEF AllSuit, DescribedNow
    <3>2. QED
      BY <2>1, <2>2, <3>1 DEF SuitInv
  <2>4. QED
    BY <2>1, <2>3, SameDescriptions, OthersStillSuit
<1>14. QED
  BY <1>1, <1>2, <1>4, <1>5, <1>6, <1>7, <1>8, <1>9, <1>10, <1>11, <1>12, <1>13
  DEF Next, Launch, vars

\* Through retries resolved to other MachineDeployments, and while users edit any of
\* them, a launched NodeClaim is on a Machine with the resources and a zone it asks
\* for, no label of which it excludes and, but for well-known ones, none of which it does
\* not name, except for edits since the choice (cloudprovider.go:289-313, 520-530).
\* That every label it names is there is not so, and not stated.
THEOREM SuitsNodeClaim == Spec => []NodeSuits
<1>1. Init => AllSuit
  BY DEF Init, AllSuit, SuitInv
<1>2. AllSuit => NodeSuits
  BY DEF AllSuit, SuitInv, Suits, NodeSuits
<1>3. QED
  BY <1>1, <1>2, NextAllSuit, OwnerInvariant, PTL DEF Spec

-----------------------------------------------------------------------------
(* The labels of the scale-from-zero annotation.  ScaleFromZeroLabels is a *)
(* fold over its items; induction is a search for the least exception.     *)

LEMMA Least ==
  ASSUME NEW T, T \subseteq Nat, T # {}
  PROVE  \E x \in T : \A y \in T : x <= y
<1> DEFINE R == {ss \in Nat \X Nat : ss[1] < ss[2]}
<1>1. IsWellFoundedOn(R, Nat)
  BY NatLessThanWellFounded, Zenon DEF OpToRel
<1>2. ASSUME NEW x \in Nat, NEW y \in Nat, y < x PROVE <<y, x>> \in R
  BY <1>2
<1> HIDE DEF R
<1>3. PICK x \in T : \A y \in T : ~ (<<y, x>> \in R)
  BY <1>1, WFMin
<1>4. ASSUME NEW y \in T PROVE x <= y
  <2>1. x \in Nat /\ y \in Nat
    OBVIOUS
  <2>2. ~(y < x)
    BY <1>2, <1>3, <2>1
  <2>3. QED
    BY <2>1, <2>2
<1>5. QED
  BY <1>4

LEMMA MaxIsMax ==
  ASSUME NEW n \in Nat, NEW S, S \subseteq 1 .. n, S # {}
  PROVE  Max(S) \in S /\ \A y \in S : y <= Max(S)
<1> DEFINE T == {n - x : x \in S}
<1>1. ASSUME NEW x \in S PROVE n - x \in Nat
  BY <1>1
<1>2. T \subseteq Nat /\ T # {}
  BY <1>1
<1>3. PICK t \in T : \A y \in T : t <= y
  BY <1>2, Least
<1>4. PICK x \in S : t = n - x
  OBVIOUS
<1>5. \A y \in S : x >= y
  <2>1. ASSUME NEW y \in S PROVE x >= y
    <3>1. n - y \in T
      OBVIOUS
    <3>2. n - x <= n - y
      BY <1>3, <1>4, <3>1
    <3>3. x \in Int /\ y \in Int /\ n \in Int
      OBVIOUS
    <3>4. QED
      BY <3>2, <3>3
  <2>2. QED
    BY <2>1
<1> HIDE DEF T
<1>6. Max(S) \in S /\ \A y \in S : Max(S) >= y
  BY <1>5, Zenon DEF Max
<1>7. QED
  BY <1>6

\* One turn of the loop of labelsFromScaleFromZeroAnnotation.
Over(labels, item) ==
  IF Len(item) = 2 THEN AddLabels(labels, [k \in {item[1]} |-> item[2]]) ELSE labels

\* The equation that defines the fold.
IsFold(f, items) ==
  f = [s \in SUBSET DOMAIN items |->
         IF s = {} THEN NoLabels
         ELSE Over(f[s \ {Max(s)}], items[Max(s)])]

LEMMA Unfold ==
  ASSUME NEW items
  PROVE  ScaleFromZeroLabels(items) = (CHOOSE f : IsFold(f, items))[DOMAIN items]
BY Zenon DEF ScaleFromZeroLabels, FoldLeft, MapThenFoldSet, Over, IsFold

\* The items that count, those for one key, and the labels that come of them.
Whole(items, s) == {i \in s : Len(items[i]) = 2}
At(items, s, k) == {i \in Whole(items, s) : items[i][1] = k}
Latest(items, s) ==
  [k \in {items[i][1] : i \in Whole(items, s)} |-> items[Max(At(items, s, k))][2]]

\* One more item, after the others.
LEMMA LatestOver ==
  ASSUME NEW n \in Nat, NEW items, NEW s, s \subseteq 1 .. n, s # {}
  PROVE  Latest(items, s) = Over(Latest(items, s \ {Max(s)}), items[Max(s)])
<1> DEFINE last == Max(s)
           rest == s \ {last}
<1>1. last \in s /\ \A i \in s : i <= last
  BY MaxIsMax
<1> HIDE DEF last
<1>2. CASE Len(items[last]) # 2
  <2>1. Whole(items, s) = Whole(items, rest)
    BY <1>1, <1>2 DEF Whole
  <2>2. \A k : At(items, s, k) = At(items, rest, k)
    BY <2>1 DEF At
  <2>3. Latest(items, s) = Latest(items, rest)
    BY <2>1, <2>2 DEF Latest
  <2>4. QED
    BY <1>2, <2>3 DEF Over, last
<1>3. CASE Len(items[last]) = 2
  <2> DEFINE key == items[last][1]
             value == items[last][2]
             old == Latest(items, rest)
             keys == {items[i][1] : i \in Whole(items, s)}
  <2>1. Whole(items, s) = Whole(items, rest) \union {last}
    BY <1>1, <1>3 DEF Whole
  <2>2. keys = {key} \union DOMAIN old
    BY <2>1 DEF Latest
  <2>3. Max(At(items, s, key)) = last
    <3> DEFINE at == At(items, s, key)
    <3>1. last \in at /\ at \subseteq s
      BY <1>1, <1>3 DEF At, Whole
    <3> HIDE DEF at, key
    <3>2. Max(at) \in at /\ \A i \in at : i <= Max(at)
      BY <3>1, MaxIsMax
    <3>3. Max(at) <= last /\ last <= Max(at)
      BY <1>1, <3>1, <3>2
    <3>4. Max(at) \in 1 .. n /\ last \in 1 .. n
      BY <1>1, <3>1, <3>2
    <3>5. QED
      BY <3>3, <3>4 DEF at
  <2>4. ASSUME NEW k \in DOMAIN old, k # key
        PROVE  items[Max(At(items, s, k))][2] = old[k]
    <3>1. At(items, s, k) = At(items, rest, k)
      BY <2>1, <2>4 DEF At
    <3>2. QED
      BY <3>1 DEF Latest
  <2>5. Latest(items, s) = [k \in keys |-> items[Max(At(items, s, k))][2]]
    BY DEF Latest
  <2> HIDE DEF key, value, old, keys
  <2>6. AddLabels(old, [k \in {key} |-> value]) =
          [k \in {key} \union DOMAIN old |-> IF k = key THEN value ELSE old[k]]
    BY DEF AddLabels
  <2>7. \A k \in {key} \union DOMAIN old :
          items[Max(At(items, s, k))][2] = IF k = key THEN value ELSE old[k]
    BY <2>3, <2>4 DEF value
  <2>8. Latest(items, s) = AddLabels(old, [k \in {key} |-> value])
    BY <2>2, <2>5, <2>6, <2>7
  <2>9. QED
    BY <1>3, <2>8 DEF Over, key, value, old, last
<1>4. QED
  BY <1>2, <1>3

\* The fold is what it should be: for each key the last item that has it.  The
\* equation has a solution, and on the items up to any one it has no other.
LEMMA FoldIsLatest ==
  ASSUME NEW n \in Nat, NEW items, DOMAIN items = 1 .. n
  PROVE  ScaleFromZeroLabels(items) = Latest(items, DOMAIN items)
<1> DEFINE closed == [s \in SUBSET DOMAIN items |->
                        IF s = {} THEN NoLabels ELSE Latest(items, s)]
           f == CHOOSE g : IsFold(g, items)
<1>1. Latest(items, {}) = NoLabels
  <2>1. Whole(items, {}) = {}
    BY DEF Whole
  <2>2. /\ DOMAIN Latest(items, {}) = {}
        /\ Latest(items, {}) = [k \in {} |-> items[Max(At(items, {}, k))][2]]
    BY <2>1 DEF Latest
  <2>3. QED
    BY <2>2 DEF NoLabels
<1>2. ASSUME NEW s \in SUBSET DOMAIN items, s # {}
      PROVE  closed[s] = Over(closed[s \ {Max(s)}], items[Max(s)])
  BY <1>1, <1>2, LatestOver
<1>3. IsFold(closed, items)
  BY <1>2 DEF IsFold
<1> HIDE DEF closed
<1>4. IsFold(f, items)
  BY <1>3, Zenon
<1> HIDE DEF f
<1>5. f[{}] = NoLabels
  BY <1>4 DEF IsFold
<1>6. ASSUME NEW m \in 1 .. n
      PROVE  1 .. m \subseteq 1 .. n /\ 1 .. m # {} /\ Max(1 .. m) = m
             /\ (1 .. m) \ {m} = 1 .. (m - 1)
  <2>1. Max(1 .. m) = m
    <3>1. m \in 1 .. m /\ 1 .. m \subseteq 1 .. n /\ \A i \in 1 .. m : i <= m
      OBVIOUS
    <3>2. Max(1 .. m) \in 1 .. m /\ \A i \in 1 .. m : i <= Max(1 .. m)
      BY <3>1, MaxIsMax
    <3>3. QED
      BY <3>1, <3>2
  <2>2. (1 .. m) \ {m} = 1 .. (m - 1) /\ 1 .. m # {} /\ 1 .. m \subseteq 1 .. n
    OBVIOUS
  <2>3. QED
    BY <2>1, <2>2
<1>7. ASSUME NEW m \in 1 .. n PROVE f[1 .. m] = Over(f[1 .. (m - 1)], items[m])
  <2>1. \A s \in SUBSET DOMAIN items :
          s # {} => f[s] = Over(f[s \ {Max(s)}], items[Max(s)])
    BY <1>4 DEF IsFold
  <2>2. 1 .. m \in SUBSET DOMAIN items
    BY <1>6
  <2>3. f[1 .. m] = Over(f[(1 .. m) \ {Max(1 .. m)}], items[Max(1 .. m)])
    BY <1>6, <2>1, <2>2
  <2>4. QED
    BY <1>6, <2>3
<1>8. \A m \in 0 .. n : f[1 .. m] = Latest(items, 1 .. m)
  <2> DEFINE wrong == {m \in 0 .. n : f[1 .. m] # Latest(items, 1 .. m)}
  <2>1. SUFFICES ASSUME wrong # {} PROVE FALSE
    OBVIOUS
  <2>2. PICK m \in wrong : \A i \in wrong : m <= i
    <3>1. wrong \subseteq Nat
      OBVIOUS
    <3>2. QED
      BY <2>1, <3>1, Least
  <2>3. CASE m = 0
    BY <1>1, <1>5, <2>3
  <2>4. CASE m # 0
    <3>1. m \in 1 .. n /\ m - 1 \in 0 .. n /\ m - 1 \notin wrong
      BY <2>2, <2>4
    <3>2. f[1 .. (m - 1)] = Latest(items, 1 .. (m - 1))
      BY <3>1
    <3>3. 1 .. m \subseteq 1 .. n /\ 1 .. m # {} /\ Max(1 .. m) = m
          /\ (1 .. m) \ {m} = 1 .. (m - 1)
      BY <1>6, <3>1
    <3>4. Latest(items, 1 .. m) = Over(Latest(items, 1 .. (m - 1)), items[m])
      BY <3>3, LatestOver
    <3>5. QED
      BY <1>7, <2>2, <3>1, <3>2, <3>4
  <2>5. QED
    BY <2>2, <2>3, <2>4
<1>9. QED
  BY <1>8, Unfold DEF f

\* Nobody makes the annotation anything but a sequence of items.
AnnotationsSplit == \A d \in Deployments : deployment[d].annotation \in Seq(Seq(STRING))

LEMMA AnnotationsSplitStep ==
  ASSUME CatalogTypeOK, AnnotationsSplit, [Next]_vars
  PROVE  AnnotationsSplit'
<1>1. CASE UNCHANGED deployment
  BY <1>1 DEF AnnotationsSplit
<1>2. ASSUME NEW e \in Deployments, Edit(e) PROVE AnnotationsSplit'
  <2>1. PICK shape \in Shapes :
          deployment' = [deployment EXCEPT ![e] = [shape EXCEPT !.replicas = deployment[e].replicas]]
    BY <1>2 DEF Edit
  <2>2. /\ deployment'[e].annotation = shape.annotation
        /\ \A d \in Deployments \ {e} : deployment'[d] = deployment[d]
    BY <2>1, ShapeAssumption DEF CatalogTypeOK, Fields
  <2>3. QED
    BY <2>2, ShapeAssumption DEF AnnotationsSplit
<1>3. ASSUME NEW nc \in NodeClaims, Increment(nc) \/ IncrementFails(nc),
             deployment' # deployment
      PROVE  AnnotationsSplit'
  <2>1. PICK e : deployment' = [deployment EXCEPT ![e].replicas = Replicas(e) + 1]
    BY <1>3 DEF Increment, IncrementFails, Incremented
  <2>2. \A d \in Deployments : deployment'[d].annotation = deployment[d].annotation
    BY <2>1 DEF CatalogTypeOK, Fields
  <2>3. QED
    BY <2>2 DEF AnnotationsSplit
<1>4. \/ UNCHANGED deployment
      \/ \E e \in Deployments : Edit(e)
      \/ \E nc \in NodeClaims : Increment(nc) \/ IncrementFails(nc)
  BY DEF Next, vars, catalogVars, CreateMachine, ProvisionMachine, LoseMachine, Collect, Launch,
         Resolve, Bind, BindFails, GiveUp, Return, Existing
<1>5. QED
  BY <1>1, <1>2, <1>3, <1>4

\* Whatever the annotation holds, broken items and repeated keys too, the Node labels
\* are its last item for a key and, for a key it has none for, the managed label of
\* the template (cloudprovider.go:532-544, 635-654).
THEOREM AnnotationWins == Spec => []AnnotationOverrides
<1>1. Init => AnnotationsSplit
  BY ShapeAssumption DEF Init, AnnotationsSplit
<1>2. ASSUME AnnotationsSplit, NEW d \in Deployments,
             NEW k \in DOMAIN NodeLabels(deployment[d])
      PROVE  LET items == deployment[d].annotation
                 at == {i \in DOMAIN items : Len(items[i]) = 2 /\ items[i][1] = k}
                 value == NodeLabels(deployment[d])[k]
             IN IF at = {} THEN value = deployment[d].template[k]
                ELSE \E i \in at : value = items[i][2] /\ \A j \in at : j <= i
  <2> DEFINE items == deployment[d].annotation
             at == {i \in DOMAIN items : Len(items[i]) = 2 /\ items[i][1] = k}
             value == NodeLabels(deployment[d])[k]
             template == ManagedNodeLabels(deployment[d].template)
             latest == Latest(items, DOMAIN items)
  <2>1. PICK n \in Nat : DOMAIN items = 1 .. n
    BY <1>2 DEF AnnotationsSplit
  <2>2. NodeLabels(deployment[d]) = AddLabels(template, latest)
    BY <2>1, FoldIsLatest, Zenon DEF NodeLabels
  <2>3. at = At(items, DOMAIN items, k)
    BY DEF At, Whole
  <2>4. k \in DOMAIN latest <=> at # {}
    BY <2>3 DEF Latest, At
  <2>5. k \in DOMAIN latest => latest[k] = items[Max(at)][2]
    BY <2>3 DEF Latest
  <2>6. k \in DOMAIN template => template[k] = deployment[d].template[k]
    BY DEF ManagedNodeLabels, Restrict
  <2> HIDE DEF template, latest
  <2>7. /\ k \in DOMAIN latest => value = latest[k]
        /\ k \notin DOMAIN latest => k \in DOMAIN template /\ value = template[k]
    BY <1>2, <2>2 DEF AddLabels
  <2>8. at # {} => Max(at) \in at /\ \A j \in at : j <= Max(at)
    BY <2>1, MaxIsMax
  <2> HIDE DEF items, at, value
  <2>9. IF at = {} THEN value = deployment[d].template[k]
        ELSE \E i \in at : value = items[i][2] /\ \A j \in at : j <= i
    BY <2>4, <2>5, <2>6, <2>7, <2>8
  <2>10. QED
    BY <2>9 DEF items, at, value
<1>3. AnnotationsSplit => AnnotationOverrides
  BY <1>2 DEF AnnotationOverrides
<1>4. CatalogTypeOK /\ AnnotationsSplit /\ [Next]_vars => AnnotationsSplit'
  BY AnnotationsSplitStep
<1>5. QED
  BY <1>1, <1>3, <1>4, OwnerInvariant, PTL DEF Spec
=============================================================================
