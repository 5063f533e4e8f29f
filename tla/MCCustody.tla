------------------------------ MODULE MCCustody ------------------------------
(* Instances of CloudProvider for TLC, with the history of suspect Machines. *)
EXTENDS MCCloudProvider, Custody

\* The copies of the MachineDeployment that are still going to be used.
CopiesInUse ==
  [b \in {c \in CreateBatches : createPC[c] \in {"count", "update"}}
           \union {c \in DeleteBatches : deletePC[c] = "update"} |-> mdCopy[b]]

Existent(machines) == {m \in machines : machine[m].phase # "gone"}

\* What tells two states apart where reads are current: all but copies nobody will use
\* again, the version while nobody has a copy to compare with it, the count of granted
\* replicas, the caches, and that a Machine leaked which has gone since.
Relevant ==
  <<md.replicas, IF CopiesInUse = <<>> THEN 0 ELSE md.version, CopiesInUse, lock, taken,
    machine, annotation, createQueue, createPC, createInputs, deficit, found, bindVars,
    Existent(labelLeaked), deleteQueue, deletePC, deleteInputs, target, markPC, deleted,
    paid, Existent(markLeaked), callerVars, suspect>>
=============================================================================
