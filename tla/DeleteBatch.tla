----------------------------- MODULE DeleteBatch -----------------------------
(***************************************************************************)
(* The delete batch executor (pkg/batcher/delete.go).  One execution marks *)
(* its Machines with the delete-machine annotation, one goroutine each,    *)
(* lowers spec.replicas under the lock by the number of marks that         *)
(* succeeded, and takes the marks off again when that fails.               *)
(*                                                                         *)
(* The order of the inputs does not matter here, so a batch is a set of    *)
(* NodeClaims, each naming the Machine of its request in "target".         *)
(***************************************************************************)
EXTENDS Cluster

VARIABLES
  deleteQueue,   \* requests added and not yet in a batch
  deletePC,      \* where each execution is
  deleteInputs,  \* its requests
  target,        \* the Machine each request wants deleted
  markPC,        \* the fate of each request's mark
  deleted,       \* what Add returns
  paid,          \* history: marked Machines a decrement was reported for
  markLeaked     \* history: Machines whose mark nobody takes off again

deleteVars ==
  <<deleteQueue, deletePC, deleteInputs, target, markPC, deleted, paid, markLeaked>>

DeleteTypeOK ==
  /\ deleteQueue \subseteq NodeClaims
  /\ deletePC \in [DeleteBatches ->
       {"idle", "annotate", "lock", "get", "update", "rollback", "done"}]
  /\ deleteInputs \in [DeleteBatches -> SUBSET NodeClaims]
  /\ target \in [NodeClaims -> Machines \union {NoMachine}]
  /\ markPC \in [NodeClaims -> {"idle", "annotate", "annotated", "failed"}]
  /\ deleted \in [NodeClaims -> {"none", "ok", "failed"}]
  /\ paid \subseteq Machines /\ markLeaked \subseteq Machines

DeleteInit ==
  /\ deleteQueue = {}
  /\ deletePC = [b \in DeleteBatches |-> "idle"]
  /\ deleteInputs = [b \in DeleteBatches |-> {}]
  /\ target = [nc \in NodeClaims |-> NoMachine]
  /\ markPC = [nc \in NodeClaims |-> "idle"]
  /\ deleted = [nc \in NodeClaims |-> "none"]
  /\ paid = {} /\ markLeaked = {}

\* Faulty: counts every request, marked or not.
AnnotatedAll(b) == {nc \in deleteInputs[b] : markPC[nc] \in {"annotated", "failed"}}

Annotated(b) == {nc \in deleteInputs[b] : markPC[nc] = "annotated"}

-----------------------------------------------------------------------------
(* 1) Annotate each Machine for deletion, in parallel and unlocked. *)

DeleteStart(b) ==
  /\ deletePC[b] = "idle" /\ deleteQueue # {}
  /\ deletePC' = [deletePC EXCEPT ![b] = "annotate"]
  /\ deleteInputs' = [deleteInputs EXCEPT ![b] = deleteQueue]
  /\ markPC' = [nc \in NodeClaims |-> IF nc \in deleteQueue THEN "annotate" ELSE markPC[nc]]
  /\ deleteQueue' = {}
  /\ UNCHANGED <<clusterVars, lock, mdCopy, taken, target, deleted, paid, markLeaked>>

SetMark(m) ==
  /\ ~MachineView[m].marked
  /\ UpdateMachine(m, [MachineView[m] EXCEPT !.marked = TRUE])

\* Get, then AddDeleteAnnotation, which writes nothing when the mark is there.
Annotate(nc) ==
  LET m == target[nc] IN
  /\ markPC[nc] = "annotate"
  /\ \/ /\ MachineView[m].marked /\ Found(m)
        /\ markPC' = [markPC EXCEPT ![nc] = "annotated"]
        /\ UNCHANGED <<machine, markLeaked>>
     \/ /\ SetMark(m)
        /\ markPC' = [markPC EXCEPT ![nc] = "annotated"]
        /\ UNCHANGED markLeaked
     \/ \* the Get or the Update fails
        /\ markPC' = [markPC EXCEPT ![nc] = "failed"]
        /\ UNCHANGED <<machine, markLeaked>>
     \/ \* the mark is set, but the Update reports an error
        /\ LostReplies /\ SetMark(m)
        /\ markPC' = [markPC EXCEPT ![nc] = "failed"]
        /\ markLeaked' = markLeaked \union {m}
  /\ UNCHANGED <<md, mdCache, machineCache, annotation, annotationCache, lock, mdCopy,
                 taken, deleteQueue, deletePC, deleteInputs, target, deleted, paid>>

\* The executor returns and the batcher delivers: ok where the flag still says
\* annotated, an error elsewhere.
Deliver(b, succeeded) ==
  /\ deletePC' = [deletePC EXCEPT ![b] = "done"]
  /\ deleted' = [nc \in NodeClaims |->
       IF nc \notin deleteInputs[b] THEN deleted[nc]
       ELSE IF nc \in succeeded THEN "ok" ELSE "failed"]
  /\ markPC' = [nc \in NodeClaims |-> IF nc \in deleteInputs[b] THEN "idle" ELSE markPC[nc]]
  /\ deleteInputs' = [deleteInputs EXCEPT ![b] = {}]

\* wg.Wait returns.  With nothing annotated the executor returns at once.
DeleteJoin(b) ==
  /\ deletePC[b] = "annotate"
  /\ \A nc \in deleteInputs[b] : markPC[nc] # "annotate"
  /\ IF Annotated(b) = {}
     THEN Deliver(b, {})
     ELSE /\ deletePC' = [deletePC EXCEPT ![b] = "lock"]
          /\ UNCHANGED <<deleteInputs, markPC, deleted>>
  /\ UNCHANGED <<clusterVars, lock, mdCopy, taken, deleteQueue, target, paid, markLeaked>>

-----------------------------------------------------------------------------
(* 2) Lock and decrement replicas by the number of annotated Machines. *)

DeleteLock(b) ==
  /\ deletePC[b] = "lock"
  /\ Lock(b)
  /\ deletePC' = [deletePC EXCEPT ![b] = "get"]
  /\ UNCHANGED <<clusterVars, mdCopy, taken, deleteQueue, deleteInputs, target, markPC,
                 deleted, paid, markLeaked>>

\* Faulty: the executor returns without rolling the marks back.
DeleteAbortNoRollback(b) ==
  /\ Unlock(b)
  /\ Deliver(b, {})
  /\ UNCHANGED <<mdCopy, deleteQueue, target, paid, markLeaked>>

DeleteAbort(b) ==
  /\ Unlock(b)
  /\ deletePC' = [deletePC EXCEPT ![b] = "rollback"]
  /\ UNCHANGED <<mdCopy, deleteQueue, deleteInputs, target, markPC, deleted, paid, markLeaked>>

DeleteGet(b) ==
  /\ deletePC[b] = "get"
  /\ \/ /\ mdCopy' = [mdCopy EXCEPT ![b] = MDView]
        /\ deletePC' = [deletePC EXCEPT ![b] = "update"]
        /\ UNCHANGED <<clusterVars, lock, taken, deleteQueue, deleteInputs, target,
                       markPC, deleted, paid, markLeaked>>
     \/ DeleteAbort(b) /\ UNCHANGED <<clusterVars, taken>>

\* Faulty: no clamp.
LoweredUnclamped(replicas, count) == replicas - count

\* newReplicas: never below zero.
Lowered(replicas, count) == IF replicas - count < 0 THEN 0 ELSE replicas - count

\* Faulty: a replica less for every input, though only some are marked and paid for.
DecrementInputs(b) ==
  LET current == mdCopy[b].replicas
  IN /\ UpdateMD(mdCopy[b], Lowered(current, Cardinality(deleteInputs[b])))
     /\ taken' = taken + (current - Lowered(current, Cardinality(Annotated(b))))
     /\ UNCHANGED <<mdCache, machine, machineCache, annotation, annotationCache>>

Decrement(b) ==
  LET current == mdCopy[b].replicas
      new == Lowered(current, Cardinality(Annotated(b)))
  IN /\ UpdateMD(mdCopy[b], new)
     /\ taken' = taken + (current - new)
     /\ UNCHANGED <<mdCache, machine, machineCache, annotation, annotationCache>>

\* An error rolls the marks back, whether or not the Update took effect.
DeleteUpdate(b) ==
  /\ deletePC[b] = "update"
  /\ \/ /\ Decrement(b)
        /\ Unlock(b)
        /\ Deliver(b, Annotated(b))
        /\ paid' = paid \union {target[nc] : nc \in Annotated(b)}
        /\ UNCHANGED <<mdCopy, deleteQueue, target, markLeaked>>
     \/ DeleteAbort(b) /\ UNCHANGED <<clusterVars, taken>>
     \/ LostReplies /\ DeleteAbort(b) /\ Decrement(b)

-----------------------------------------------------------------------------
(* rollbackDeleteAnnotations: one Machine after the other; errors are logged. *)

\* Get, then RemoveDeleteAnnotation, which writes nothing when it sees no mark.
RollbackMark(b, nc) ==
  LET m == target[nc] IN
  /\ deletePC[b] = "rollback" /\ nc \in Annotated(b)
  /\ \/ /\ Found(m) /\ MachineView[m].marked
        /\ UpdateMachine(m, [MachineView[m] EXCEPT !.marked = FALSE])
        /\ UNCHANGED markLeaked
     \/ /\ Found(m) /\ ~MachineView[m].marked
        /\ UNCHANGED <<machine, markLeaked>>
     \/ \* the Get or the Update fails
        /\ markLeaked' = markLeaked \union {m}
        /\ UNCHANGED machine
  /\ markPC' = [markPC EXCEPT ![nc] = "failed"]
  /\ UNCHANGED <<md, mdCache, machineCache, annotation, annotationCache, lock, mdCopy,
                 taken, deleteQueue, deletePC, deleteInputs, target, deleted, paid>>

DeleteFinish(b) ==
  /\ deletePC[b] = "rollback" /\ Annotated(b) = {}
  /\ Deliver(b, {})
  /\ UNCHANGED <<clusterVars, lock, mdCopy, taken, deleteQueue, target, paid, markLeaked>>

\* The process ends.  The marks that were still to be paid for or rolled back stay.
DeleteLost ==
  /\ deleteQueue' = {}
  /\ deletePC' = [b \in DeleteBatches |-> IF deletePC[b] = "idle" THEN "idle" ELSE "done"]
  /\ deleteInputs' = [b \in DeleteBatches |-> {}]
  /\ target' = [nc \in NodeClaims |-> NoMachine]
  /\ markPC' = [nc \in NodeClaims |-> "idle"]
  /\ deleted' = [nc \in NodeClaims |-> "none"]
  /\ markLeaked' = markLeaked \union
       {m \in Machines : \E nc \in NodeClaims : target[nc] = m /\ markPC[nc] = "annotated"}
  /\ UNCHANGED paid

DeleteExecutor(b) ==
  \/ DeleteStart(b) \/ DeleteJoin(b) \/ DeleteLock(b) \/ DeleteGet(b) \/ DeleteUpdate(b)
  \/ DeleteFinish(b)
  \/ \E nc \in NodeClaims : RollbackMark(b, nc)

=============================================================================
