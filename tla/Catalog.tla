-------------------------------- MODULE Catalog --------------------------------
(***************************************************************************)
(* Several MachineDeployments, edited by their users while NodeClaims are  *)
(* resolved to one of them, launched on it and reported: resolveInstance-  *)
(* Type, getExistingMachine, Get and List of the CloudProvider, with the   *)
(* garbage collection of Karpenter that acts on Get and List (external).   *)
(*                                                                         *)
(* The create executor appears in two steps, increment and bind, one       *)
(* request a batch, either of which may fail in every way that leaves      *)
(* something behind; module CreateBatch has its interleavings.             *)
(***************************************************************************)
EXTENDS NodeClassStatus, InstanceTypes, FiniteSets

CONSTANTS
  Deployments,   \* names of the MachineDeployments
  Machines,      \* names of the Machines they may ever own
  NodeClaims,    \* each a record of its requirements and its requests
  Shapes,        \* what a user may make of a MachineDeployment
  InitialShape,  \* what each is at the start, with its replicas
  MaxEdits,      \* bound on the edits of a user
  MaxReplicas,   \* bound on the replicas of each that are asked for
  Failures,      \* whether calls to the API server may fail
  NoMachine      \* "no Machine"

ASSUME CatalogAssumption ==
  /\ IsFiniteSet(Machines) /\ IsFiniteSet(NodeClaims)
  /\ NoMachine \notin Machines /\ Absent \notin Deployments
  /\ MaxEdits \in Nat /\ MaxReplicas \in [Deployments -> Nat] /\ Failures \in BOOLEAN

\* Of a MachineDeployment.
Fields == {"labels", "template", "annotation", "capacity", "maxSize", "replicas"}

ASSUME ShapeAssumption ==
  /\ InitialShape \in [Deployments -> Shapes]
  /\ \A shape \in Shapes :
       /\ Fields \subseteq DOMAIN shape
       /\ shape.replicas = Absent \/ shape.replicas \in Nat
       /\ shape.annotation \in Seq(Seq(STRING))

\* No zone has an empty name, which stands for "no zone" in an offering.
ASSUME ZoneAssumption ==
  \A nc \in NodeClaims : LabelTopologyZone \in DOMAIN nc.requirements =>
    "" \notin nc.requirements[LabelTopologyZone]

VARIABLES
  deployment,   \* the MachineDeployments
  machine,      \* the Machines
  claim,        \* where each NodeClaim is
  chosen,       \* the MachineDeployment its request names
  output,       \* the MachineDeployment object its executor has read
  annotation,   \* the Machine in its annotation
  reported,     \* what Create has returned for it
  editedSince,  \* history: MachineDeployments edited since the last choice
  edits,        \* how many edits there have been
  misreported   \* history: NodeClaims annotated by a patch that was reported as failed

launchVars == <<claim, chosen, output, annotation, reported, misreported>>
catalogVars == <<deployment, machine, launchVars, editedSince, edits>>
vars == <<classVars, catalogVars>>

Nothing == [from |-> Absent, labels |-> NoLabels, capacity |-> NoLabels]

CatalogTypeOK ==
  /\ DOMAIN deployment = Deployments
  /\ \A d \in Deployments :
       /\ Fields \subseteq DOMAIN deployment[d]
       /\ deployment[d].replicas = Absent \/ deployment[d].replicas \in Nat
  /\ machine \in [Machines ->
       [phase : {"absent", "pending", "ready", "gone"},
        owner : Deployments \union {Absent}, member : BOOLEAN]]
  /\ claim \in [NodeClaims ->
       {"new", "adding", "polling", "bound", "launched", "collected"}]
  /\ chosen \in [NodeClaims -> Deployments \union {Absent}]
  /\ \A nc \in NodeClaims : claim[nc] \in {"adding", "polling"} => chosen[nc] # Absent
  /\ DOMAIN output = NodeClaims /\ DOMAIN reported = NodeClaims
  /\ annotation \in [NodeClaims -> Machines \union {NoMachine}]
  /\ editedSince \in [NodeClaims -> SUBSET Deployments]
  /\ edits \in 0 .. MaxEdits
  /\ misreported \subseteq NodeClaims

Init ==
  /\ NodeClassInit
  /\ deployment = InitialShape
  /\ machine = [m \in Machines |-> [phase |-> "absent", owner |-> Absent, member |-> FALSE]]
  /\ claim = [nc \in NodeClaims |-> "new"]
  /\ chosen = [nc \in NodeClaims |-> Absent]
  /\ output = [nc \in NodeClaims |-> Nothing]
  /\ annotation = [nc \in NodeClaims |-> NoMachine]
  /\ reported = [nc \in NodeClaims |-> Nothing]
  /\ editedSince = [nc \in NodeClaims |-> {}]
  /\ edits = 0
  /\ misreported = {}

Replicas(d) == IF deployment[d].replicas = Absent THEN 0 ELSE deployment[d].replicas

MachinesOf(d) == {m \in Machines : machine[m].owner = d /\ machine[m].phase # "gone"}

Unclaimed(d) == {m \in MachinesOf(d) : ~machine[m].member}

-----------------------------------------------------------------------------
(* Users and Cluster API (external). *)

Edit(d) ==
  /\ edits < MaxEdits
  /\ \E shape \in Shapes :
       deployment' = [deployment EXCEPT ![d] = [shape EXCEPT !.replicas = deployment[d].replicas]]
  /\ deployment' # deployment
  /\ editedSince' = [nc \in NodeClaims |-> editedSince[nc] \union {d}]
  /\ edits' = edits + 1
  /\ UNCHANGED <<classVars, machine, launchVars>>

NewMachines == {m \in Machines : machine[m].phase = "absent"}

\* A Machine, under some new name, gets the labels of its template.
CreateMachine(d) ==
  /\ Cardinality(MachinesOf(d)) < Replicas(d) /\ NewMachines # {}
  /\ machine' = [machine EXCEPT ![CHOOSE m \in NewMachines : TRUE] =
       [phase |-> "pending", owner |-> d,
        member |-> NodePoolMemberLabel \in DOMAIN deployment[d].template]]
  /\ UNCHANGED <<classVars, deployment, launchVars, editedSince, edits>>

ProvisionMachine(m) ==
  /\ machine[m].phase = "pending"
  /\ machine' = [machine EXCEPT ![m].phase = "ready"]
  /\ UNCHANGED <<classVars, deployment, launchVars, editedSince, edits>>

\* The Machine of a launched NodeClaim is lost.
LoseMachine(nc) ==
  /\ claim[nc] = "launched" /\ machine[annotation[nc]].phase = "ready"
  /\ machine' = [machine EXCEPT ![annotation[nc]].phase = "gone"]
  /\ UNCHANGED <<classVars, deployment, launchVars, editedSince, edits>>

-----------------------------------------------------------------------------
(* Create *)

\* resolveNodeClassFromNodeClaim: a client reads from the cache.
NodeClassFound == classCache.exists

\* findInstanceTypesForNodeClass: what the selector of the NodeClass selects.
Candidates == Selected(deployment, classCache.selector)

\* resolveInstanceType.  It reads every selected MachineDeployment, and one whose
\* capacity cannot be parsed ends the call for all of them.
Resolve(nc) ==
  /\ claim[nc] = "new" /\ annotation[nc] = NoMachine
  /\ NodeClassFound
  /\ \A d \in Candidates : ~Panics(deployment[d].capacity)
  /\ \E d \in Resolvable(deployment, Candidates, nc) : chosen' = [chosen EXCEPT ![nc] = d]
  /\ claim' = [claim EXCEPT ![nc] = "adding"]
  /\ editedSince' = [editedSince EXCEPT ![nc] = {}]
  /\ UNCHANGED <<classVars, deployment, machine, output, annotation, reported, edits,
                 misreported>>

\* What countUnclaimedMachines may return: a List that fails counts as none.
Counts(d) == {Cardinality(Unclaimed(d))} \union (IF Failures THEN {0} ELSE {})

\* The deployments with a replica more of d, nil replicas counting as zero.
Incremented(d) == [deployment EXCEPT ![d].replicas = Replicas(d) + 1]

\* The executor reads the MachineDeployment, which it also returns, and asks for
\* a replica when it counts no Machine as unclaimed.
Increment(nc) ==
  LET d == chosen[nc] IN
  /\ claim[nc] = "adding"
  /\ output' = [output EXCEPT ![nc] = Description(d, deployment[d])]
  /\ \E unclaimed \in Counts(d) :
       IF unclaimed = 0
       THEN Replicas(d) < MaxReplicas[d] /\ deployment' = Incremented(d)
       ELSE UNCHANGED deployment
  /\ claim' = [claim EXCEPT ![nc] = "polling"]
  /\ UNCHANGED <<classVars, machine, chosen, annotation, reported, editedSince, edits,
                 misreported>>

\* Create has failed: Karpenter will call it again.
Fail(nc) ==
  /\ claim' = [claim EXCEPT ![nc] = "new"]
  /\ chosen' = [chosen EXCEPT ![nc] = Absent]
  /\ output' = [output EXCEPT ![nc] = Nothing]

\* Get fails, or Update does, perhaps after it has been carried out.
IncrementFails(nc) ==
  LET d == chosen[nc] IN
  /\ claim[nc] = "adding" /\ Failures
  /\ \/ UNCHANGED deployment
     \/ Replicas(d) < MaxReplicas[d] /\ deployment' = Incremented(d)
  /\ Fail(nc)
  /\ UNCHANGED <<classVars, machine, annotation, reported, editedSince, edits, misreported>>

Bind(nc) ==
  /\ claim[nc] = "polling"
  /\ \E m \in Unclaimed(chosen[nc]) :
       /\ machine' = [machine EXCEPT ![m].member = TRUE]
       /\ annotation' = [annotation EXCEPT ![nc] = m]
  /\ claim' = [claim EXCEPT ![nc] = "bound"]
  /\ UNCHANGED <<classVars, deployment, chosen, output, reported, editedSince, edits,
                 misreported>>

\* The poll ends without a Machine, at its deadline or with the context.
GiveUp(nc) ==
  /\ claim[nc] = "polling"
  /\ Fail(nc)
  /\ UNCHANGED <<classVars, deployment, machine, annotation, reported, editedSince, edits,
                 misreported>>

\* The patch fails, perhaps after it has been carried out, and so may taking the
\* label off the Machine again.
BindFails(nc) ==
  /\ claim[nc] = "polling" /\ Failures
  /\ \E m \in Unclaimed(chosen[nc]), leaked, patched \in BOOLEAN :
       /\ machine' = [machine EXCEPT ![m].member = leaked]
       /\ annotation' = IF patched THEN [annotation EXCEPT ![nc] = m] ELSE annotation
       /\ misreported' = IF patched THEN misreported \union {nc} ELSE misreported
  /\ Fail(nc)
  /\ UNCHANGED <<classVars, deployment, reported, editedSince, edits>>

\* Create returns, or fails: the Machine has no providerID yet, or the capacity the
\* executor has read cannot be parsed.
Return(nc) ==
  /\ claim[nc] = "bound"
  /\ IF machine[annotation[nc]].phase = "ready" /\ Junk \notin Range(output[nc].capacity)
     THEN /\ claim' = [claim EXCEPT ![nc] = "launched"]
          /\ reported' = [reported EXCEPT ![nc] = output[nc]]
     ELSE /\ claim' = [claim EXCEPT ![nc] = "new"]
          /\ UNCHANGED reported
  /\ output' = [output EXCEPT ![nc] = Nothing]
  /\ chosen' = [chosen EXCEPT ![nc] = Absent]
  /\ UNCHANGED <<classVars, deployment, machine, annotation, editedSince, edits, misreported>>

\* Faulty: the MachineDeployment a new NodeClaim would get.
DescribedAnew(nc) == Resolvable(deployment, Deployments, nc)

\* machineDeploymentFromMachine: the label names the owner.
DescribedBy(nc) == {machine[annotation[nc]].owner}

\* getExistingMachine, for a NodeClaim that has the annotation.
Existing(nc) ==
  /\ claim[nc] = "new" /\ annotation[nc] # NoMachine
  /\ machine[annotation[nc]].phase = "ready"
  /\ \E d \in DescribedBy(nc) :
       /\ ~Panics(deployment[d].capacity)
       /\ reported' = [reported EXCEPT ![nc] = Description(d, deployment[d])]
  /\ claim' = [claim EXCEPT ![nc] = "launched"]
  /\ UNCHANGED <<classVars, deployment, machine, chosen, output, annotation, editedSince, edits,
                 misreported>>

-----------------------------------------------------------------------------
(* Get and List, and Karpenter's garbage collection of NodeClaims. *)

Members == {m \in Machines : machine[m].member /\ machine[m].phase # "gone"}

CanConvert(m) ==
  LET md == deployment[machine[m].owner] IN Convertible(md) /\ ~Panics(md.capacity)

\* Faulty: List leaves out what it cannot convert.
ListSkips(m) == m \notin Members \/ ~CanConvert(m)

\* One Machine that cannot be converted fails the whole List.
ListOmits(m) == m \notin Members /\ \A other \in Members : CanConvert(other)

GetNotFound(m) == machine[m].phase = "gone"

\* A NodeClaim whose providerID List does not have, or of which Get says NotFound,
\* is deleted (external), and what is known of it with it.
Collect(nc) ==
  /\ claim[nc] = "launched"
  /\ ListOmits(annotation[nc]) \/ GetNotFound(annotation[nc])
  /\ claim' = [claim EXCEPT ![nc] = "collected"]
  /\ annotation' = [annotation EXCEPT ![nc] = NoMachine]
  /\ reported' = [reported EXCEPT ![nc] = Nothing]
  /\ editedSince' = [editedSince EXCEPT ![nc] = {}]
  /\ UNCHANGED <<classVars, deployment, machine, chosen, output, edits, misreported>>

-----------------------------------------------------------------------------
Launch(nc) ==
  \/ Resolve(nc) \/ Increment(nc) \/ IncrementFails(nc)
  \/ Bind(nc) \/ BindFails(nc) \/ GiveUp(nc)
  \/ Return(nc) \/ Existing(nc)

Next ==
  \/ NodeClassNext /\ UNCHANGED catalogVars
  \/ \E d \in Deployments : Edit(d) \/ CreateMachine(d)
  \/ \E m \in Machines : ProvisionMachine(m)
  \/ \E nc \in NodeClaims : Launch(nc) \/ LoseMachine(nc) \/ Collect(nc)

Spec == Init /\ [][Next]_vars

\* Watch events arrive, queued objects are handed to Reconcile, and a patch that is
\* tried again and again goes through at last.
LiveSpec ==
  /\ Spec
  /\ WF_vars(SyncNodeClass /\ UNCHANGED catalogVars)
  /\ WF_vars(ReconcileStart /\ UNCHANGED catalogVars)
  /\ WF_vars((ReconcilePatch \/ ReconcileFails) /\ UNCHANGED catalogVars)
  /\ SF_vars(ReconcilePatch /\ UNCHANGED catalogVars)

-----------------------------------------------------------------------------
(* Properties *)

\* The types; a request in progress names a MachineDeployment, the check for an
\* empty list of cloudprovider.go:302-304.
TypeOK == NodeClassTypeOK /\ CatalogTypeOK

\* The Node labels are those of the scale-from-zero annotation, its last item for a
\* key counting, and the managed labels of the template where it has none
\* (cloudprovider.go:532-544, 635-654).
AnnotationOverrides ==
  \A d \in Deployments : \A k \in DOMAIN NodeLabels(deployment[d]) :
    LET items == deployment[d].annotation
        at == {i \in DOMAIN items : Len(items[i]) = 2 /\ items[i][1] = k}
        value == NodeLabels(deployment[d])[k]
    IN IF at = {} THEN value = deployment[d].template[k]
       ELSE \E i \in at : value = items[i][2] /\ \A j \in at : j <= i

\* What Create reports of a Machine comes from the MachineDeployment that owns it,
\* through retries that were resolved to another one (cloudprovider.go:91-121,
\* 263-286).
ReportFromOwner ==
  \A nc \in NodeClaims :
    claim[nc] = "launched" => reported[nc].from = machine[annotation[nc]].owner

\* A launched NodeClaim is on a Machine with the resources it requests and a zone it
\* allows, if it names zones; none of the Node's labels has a value it excludes, and
\* but for the labels Karpenter knows it names them all, unless a user has edited the
\* MachineDeployment since it was chosen (cloudprovider.go:289-313, 520-530).  A label
\* of its own that it requires may be missing: the filter looks at the labels a
\* MachineDeployment has.
NodeSuits ==
  \A nc \in NodeClaims :
    claim[nc] = "launched" /\ reported[nc].from \notin editedSince[nc] =>
      LET labels == reported[nc].labels
          required == nc.requirements
      IN /\ \A r \in DOMAIN nc.requests :
              nc.requests[r] <= ValueOr(reported[nc].capacity, r, 0)
         /\ \A k \in DOMAIN required \intersect DOMAIN labels : labels[k] \in required[k]
         /\ LabelTopologyZone \in DOMAIN required => LabelTopologyZone \in DOMAIN labels
         /\ DOMAIN labels \ WellKnown \subseteq DOMAIN required

\* Karpenter never collects a NodeClaim whose Machine is there, whatever users do to
\* MachineDeployments meanwhile and however its binding went, but for one that was
\* annotated by a patch reported as failed: its Machine has lost the label List looks
\* for (cloudprovider.go:163-182, 223-248; create.go:335-345).
CollectsOnlyLost ==
  [][\A nc \in NodeClaims :
       claim[nc] = "launched" /\ claim'[nc] = "collected" =>
         machine[annotation[nc]].phase = "gone" \/ nc \in misreported]_vars

\* No replica is asked for while a Machine of the MachineDeployment is nobody's: "we
\* won't increment replicas for Machines that already exist" (create.go:98-99).
RetriesAreCheap ==
  [][\A d \in Deployments : Replicas(d)' > Replicas(d) =>
       \A m \in MachinesOf(d) : \E nc \in NodeClaims : annotation[nc] = m]_vars

\* The patch of the status takes no other writer's condition away
\* (controller.go:63).
ConditionKept == [][nodeClass.extra /\ nodeClass'.exists => nodeClass'.extra]_vars

\* Once the others leave it alone, the NodeClass becomes and stays ready
\* (controller.go:49-72).
BecomesReady == <>[](nodeClass.exists => nodeClass.ready = "true")
=============================================================================
