------------------------------- MODULE MCCatalog -------------------------------
(* Instances of Catalog for TLC. *)
EXTENDS Catalog

CONSTANTS d1, d2

Level == "level.node.cluster.x-k8s.io/tier"
Worker == "node-role.kubernetes.io/worker"
Team == "example.com/team"

MCDNSName ==
  (Level :> <<"level", "node", "cluster", "x-k8s", "io">>)
    @@ (NodePoolMemberLabel :> <<"node", "cluster", "x-k8s", "io">>)
    @@ (Worker :> <<"node-role", "kubernetes", "io">>)
    @@ (Team :> <<"example", "com">>)

MCWellKnown == {LabelTopologyZone, LabelInstanceTypeStable, CapacityTypeLabelKey}

\* "Big" and "big" are one name in lower case.
MCLowerRank == ("" :> 0) @@ ("Big" :> 1) @@ ("big" :> 1) @@ ("small" :> 2)

\* The annotation has the tier, after another value and a broken item, and the template
\* another, besides a label that is not propagated.
Big ==
  [labels |-> {NodePoolMemberLabel},
   template |-> (Level :> "silver") @@ (Team :> "a"),
   annotation |-> <<<<Level, "bronze">>, <<Level>>, <<LabelTopologyZone, "z1">>,
                    <<LabelInstanceTypeStable, "Big">>, <<Level, "gold">>>>,
   capacity |-> [cpu |-> 4, memory |-> 8, gpuCount |-> Junk],
   maxSize |-> Absent, replicas |-> Absent]

\* No tier, which the NodeClaim requires.
NoTier ==
  [Big EXCEPT
     !.template = Team :> "a",
     !.annotation = <<<<LabelTopologyZone, "z2">>, <<LabelInstanceTypeStable, "big">>>>,
     !.maxSize = 1, !.replicas = 0]

\* The tier of the template, and a capacity that cannot be parsed.
Unparsable ==
  [NoTier EXCEPT !.template = Level :> "gold", !.capacity = [cpu |-> Junk, memory |-> 8]]

\* No zone, no memory, and no member label but the one a NodeClass may select.
Outside ==
  [Big EXCEPT
     !.labels = {"pool"}, !.template = Level :> "gold",
     !.annotation = <<<<LabelInstanceTypeStable, "small">>>>,
     !.capacity = [cpu |-> 4], !.maxSize = Junk]

MCShapes == {Big, NoTier, Unparsable, Outside}
MCMaxReplicas == (d1 :> 2) @@ (d2 :> 1)
MCInitialShape == (d1 :> Big) @@ (d2 :> NoTier)

AnyZone ==
  [name |-> "any", requests |-> [cpu |-> 2],
   requirements |-> (LabelTopologyZone :> {"z1", "z2"}) @@ (Level :> {"gold"})]
OneClaim == {AnyZone}
BothSelectors == {Absent, "pool"}
OneSelector == {Absent}

\* The member label on the template too, as docs/docs/design.md has it.
Labelled == [Big EXCEPT !.template = (Level :> "gold") @@ (NodePoolMemberLabel :> "")]
AnyMember ==
  {[AnyZone EXCEPT !.requirements = (NodePoolMemberLabel :> {""}) @@ AnyZone.requirements]}
ThreeReplicas == [d \in {d1, d2} |-> 3]
LabelledShapes == {Labelled}
LabelledInitialShape == [d \in {d1, d2} |-> Labelled]
=============================================================================
