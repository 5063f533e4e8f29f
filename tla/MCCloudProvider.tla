--------------------------- MODULE MCCloudProvider ---------------------------
(* Instances of CloudProvider for TLC. *)
EXTENDS Requirements

CONSTANTS m1, m2, nc1, nc2

\* Nothing exists yet: every NodeClaim is to be created.
NothingBound == [nc \in NodeClaims |-> NoMachine]

\* One NodeClaim, or two, already run on Machines of their own.
OneBound == [nc \in NodeClaims |-> IF nc = nc1 THEN m1 ELSE NoMachine]
TwoBound ==
  [nc \in NodeClaims |-> CASE nc = nc1 -> m1 [] nc = nc2 -> m2 [] OTHER -> NoMachine]

\* Executions are interchangeable; Machines and NodeClaims are where nothing is
\* bound at the start; with OneBound, all but m1 and nc1 are.
BatchSymmetry == Permutations(CreateBatches) \union Permutations(DeleteBatches)
RestSymmetry ==
  BatchSymmetry \union Permutations(Machines \ {m1}) \union Permutations(NodeClaims \ {nc1})
FullSymmetry == BatchSymmetry \union Permutations(Machines) \union Permutations(NodeClaims)
=============================================================================
