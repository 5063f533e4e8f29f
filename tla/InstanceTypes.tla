----------------------------- MODULE InstanceTypes -----------------------------
(***************************************************************************)
(* How the CloudProvider reads a MachineDeployment: the labels its Nodes   *)
(* will have, its capacity, whether it may grow, and which of several a    *)
(* NodeClaim gets (pkg/cloudprovider/cloudprovider.go).  Nothing here has a*)
(* state; module Catalog calls these operators in its actions.             *)
(*                                                                         *)
(* A MachineDeployment is a record:                                        *)
(*   labels      the labels of its metadata that selectors look at         *)
(*   template    its template's labels, a function from keys to values     *)
(*   annotation  its scale-from-zero labels, split at "," and each item at *)
(*               the first "=": a sequence of sequences                    *)
(*   capacity    its capacity annotations, a function from their keys      *)
(*   maxSize     its autoscaler max-size annotation                        *)
(*   replicas    spec.replicas                                             *)
(***************************************************************************)
EXTENDS Integers, Sequences, SequencesExt, Functions, TLC

CONSTANTS
  DNSName,    \* the part of each label key before its "/", split at "."
  WellKnown,  \* the labels Karpenter knows
  LowerRank,  \* the order of the instance type names, lower-cased
  Absent,     \* the annotation or the field is not there
  Junk        \* an annotation that is not a number

NodePoolMemberLabel == "node.cluster.x-k8s.io/karpenter-member"
LabelTopologyZone == "topology.kubernetes.io/zone"
LabelInstanceTypeStable == "node.kubernetes.io/instance-type"
CapacityTypeLabelKey == "karpenter.sh/capacity-type"

NoLabels == <<>>

-----------------------------------------------------------------------------
(* Labels *)

NodeRoleLabelPrefix == <<"node-role", "kubernetes", "io">>
NodeRestrictionLabelDomain == <<"node-restriction", "kubernetes", "io">>
ManagedNodeLabelDomain == <<"node", "cluster", "x-k8s", "io">>

\* A key is managed in its domain or in a subdomain of it, but for node roles.
ManagedNodeLabels(labels) ==
  Restrict(labels,
    {k \in DOMAIN labels :
       \/ DNSName[k] = NodeRoleLabelPrefix
       \/ IsSuffix(NodeRestrictionLabelDomain, DNSName[k])
       \/ IsSuffix(ManagedNodeLabelDomain, DNSName[k])})

\* labels[k] = v, for every key and value of more.
AddLabels(labels, more) ==
  [k \in DOMAIN labels \union DOMAIN more |->
     IF k \in DOMAIN more THEN more[k] ELSE labels[k]]

\* An item without "=" is dropped; of two items for one key the later counts.
ScaleFromZeroLabels(items) ==
  FoldLeft(LAMBDA labels, item :
             IF Len(item) = 2 THEN AddLabels(labels, [k \in {item[1]} |-> item[2]])
             ELSE labels,
           NoLabels, items)

\* Faulty: the template's labels go over the annotation's.
NodeLabelsTemplateFirst(md) ==
  AddLabels(ScaleFromZeroLabels(md.annotation), ManagedNodeLabels(md.template))

NodeLabels(md) ==
  AddLabels(ManagedNodeLabels(md.template), ScaleFromZeroLabels(md.annotation))

ValueOr(labels, key, default) == IF key \in DOMAIN labels THEN labels[key] ELSE default

-----------------------------------------------------------------------------
(* Capacity *)

\* A GPU count without a GPU type is not looked at.
ParsedCapacity(annotations) ==
  LET present(keys) == Restrict(annotations, keys \intersect DOMAIN annotations)
      gpu == IF {"gpuCount", "gpuType"} \subseteq DOMAIN annotations
               THEN annotations["gpuType"] :> annotations["gpuCount"] ELSE NoLabels
  IN present({"ephemeral-storage", "pods"}) @@ gpu @@ present({"cpu", "memory"})

\* resource.MustParse panics on what is not a quantity; controller-runtime
\* recovers, and the call ends there.
Panics(annotations) == Junk \in Range(ParsedCapacity(annotations))

\* Without a maximum, or with one that is no integer, there is no limit; no
\* replicas count as zero.
IsBelowMaxSize(md) ==
  \/ md.maxSize \in {Absent, Junk}
  \/ (IF md.replicas = Absent THEN 0 ELSE md.replicas) < md.maxSize

-----------------------------------------------------------------------------
(* The instance type of a MachineDeployment *)

\* Overhead is empty, so what is allocatable is the capacity.
InstanceType(md) ==
  LET labels == NodeLabels(md) IN
  [name |-> ValueOr(labels, LabelInstanceTypeStable, ""),
   requirements |-> [k \in DOMAIN labels |-> {labels[k]}],
   capacity |-> ParsedCapacity(md.capacity),
   offering |-> [k \in {LabelTopologyZone, CapacityTypeLabelKey} |->
                   IF k = LabelTopologyZone THEN {ValueOr(labels, LabelTopologyZone, "")}
                   ELSE {"on-demand"}],
   available |-> IsBelowMaxSize(md)]

\* Karpenter's Requirements.Compatible with AllowUndefinedWellKnownLabels: the
\* NodeClaim has to know every label that is not well known, and what both
\* mention has to intersect.
Compatible(required, offered) ==
  /\ DOMAIN offered \ WellKnown \subseteq DOMAIN required
  /\ \A k \in DOMAIN required \intersect DOMAIN offered :
       required[k] \intersect offered[k] # {}

\* Karpenter's resources.Fits: a resource that is not offered counts as none.
Fits(requests, allocatable) ==
  \A r \in DOMAIN requests : requests[r] <= ValueOr(allocatable, r, 0)

\* Faulty: the offering is not looked at.
FiltersInOffered(type, nodeClaim) ==
  /\ Compatible(nodeClaim.requirements, type.requirements)
  /\ Fits(nodeClaim.requests, type.capacity)

FiltersIn(type, nodeClaim) ==
  /\ Compatible(nodeClaim.requirements, type.requirements)
  /\ Fits(nodeClaim.requests, type.capacity)
  /\ type.available /\ Compatible(nodeClaim.requirements, type.offering)

Preferred(mds, names, nodeClaim) ==
  LET compatible == {d \in names : FiltersIn(InstanceType(mds[d]), nodeClaim)}
      rank(d) == LowerRank[InstanceType(mds[d]).name]
  IN {d \in compatible : \A other \in compatible : rank(d) <= rank(other)}

\* Faulty: the first of none is taken, too.
ResolvableOrNone(mds, names, nodeClaim) ==
  LET preferred == Preferred(mds, names, nodeClaim) IN
  IF preferred = {} THEN {Absent} ELSE preferred

\* The MachineDeployments of "names" that resolveInstanceType may return: the
\* compatible ones whose lower-cased name comes first.  Of equal names any may be
\* first, since neither the list nor the sort has an order for them.
Resolvable(mds, names, nodeClaim) == Preferred(mds, names, nodeClaim)

\* MachineDeploymentProvider.List.  The client option with the NodeClass's selector
\* comes after the one with the member label and replaces it.
Selected(mds, selector) ==
  {d \in DOMAIN mds :
     IF selector = Absent THEN NodePoolMemberLabel \in mds[d].labels
     ELSE selector \in mds[d].labels}

\* createNodeClaimFromMachineDeployment: what Create reports besides the providerID.
Description(name, md) ==
  [from |-> name, labels |-> NodeLabels(md), capacity |-> ParsedCapacity(md.capacity)]

\* machineToNodeClaim refuses a MachineDeployment without cpu or memory.
Convertible(md) == {"cpu", "memory"} \subseteq DOMAIN ParsedCapacity(md.capacity)
=============================================================================
