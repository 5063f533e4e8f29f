----------------------------- MODULE CreateBatch -----------------------------
(***************************************************************************)
(* The create batch executor (pkg/batcher/create.go).  One execution raises*)
(* spec.replicas by the deficit under the lock, polls for unclaimed        *)
(* Machines without it, and binds what it found to its NodeClaims, one     *)
(* goroutine for each.  Executions overlap freely outside the lock.        *)
(***************************************************************************)
EXTENDS Cluster, Sequences, Functions, SequencesExt

VARIABLES
  createQueue,   \* requests added and not yet in a batch, in arrival order
  createPC,      \* where each execution is
  createInputs,  \* its inputs
  deficit,       \* replicas it is about to add
  found,         \* Machines its poll has collected
  bindPC,        \* where the goroutine binding each NodeClaim is
  attempt,       \* labelling attempts it has used up
  assigned,      \* the Machine it binds
  outcome,       \* what Add returns: a provisioned Machine, one without a
                 \* providerID yet, or an error
  labelLeaked    \* history: Machines whose label nobody takes off again

bindVars == <<bindPC, attempt, assigned, outcome>>
createVars ==
  <<createQueue, createPC, createInputs, deficit, found, bindPC, attempt,
    assigned, outcome, labelLeaked>>

MaxAttempts == 3

Min2(a, b) == IF a < b THEN a ELSE b

CreateTypeOK ==
  /\ createQueue \in Seq(NodeClaims)
  /\ createPC \in [CreateBatches ->
       {"idle", "lock", "get", "count", "update", "poll", "bind", "done"}]
  /\ createInputs \in [CreateBatches -> Seq(NodeClaims)]
  /\ deficit \in [CreateBatches -> Nat]
  /\ found \in [CreateBatches -> Seq(Machines)]
  /\ bindPC \in [NodeClaims -> {"idle", "label", "patch", "rollback", "done"}]
  /\ attempt \in [NodeClaims -> 0 .. MaxAttempts - 1]
  /\ assigned \in [NodeClaims -> Machines \union {NoMachine}]
  /\ outcome \in [NodeClaims -> {"none", "launched", "waiting", "failed"}]
  /\ labelLeaked \subseteq Machines

CreateInit ==
  /\ createQueue = <<>>
  /\ createPC = [b \in CreateBatches |-> "idle"]
  /\ createInputs = [b \in CreateBatches |-> <<>>]
  /\ deficit = [b \in CreateBatches |-> 0]
  /\ found = [b \in CreateBatches |-> <<>>]
  /\ bindPC = [nc \in NodeClaims |-> "idle"]
  /\ attempt = [nc \in NodeClaims |-> 0]
  /\ assigned = [nc \in NodeClaims |-> NoMachine]
  /\ outcome = [nc \in NodeClaims |-> "none"]
  /\ labelLeaked = {}

CreateInput(b) == Range(createInputs[b])

-----------------------------------------------------------------------------
(* 1) Count unclaimed Machines and increment replicas by the deficit. *)

\* The batcher hands every waiting request to one execution (Batcher.run).
CreateStart(b) ==
  /\ createPC[b] = "idle" /\ createQueue # <<>>
  /\ createPC' = [createPC EXCEPT ![b] = "lock"]
  /\ createInputs' = [createInputs EXCEPT ![b] = createQueue]
  /\ createQueue' = <<>>
  /\ UNCHANGED <<clusterVars, lock, mdCopy, granted, deficit, found, bindVars, labelLeaked>>

CreateLock(b) ==
  /\ createPC[b] = "lock"
  /\ Lock(b)
  /\ createPC' = [createPC EXCEPT ![b] = "get"]
  /\ UNCHANGED <<clusterVars, mdCopy, granted, createQueue, createInputs, deficit,
                 found, bindVars, labelLeaked>>

\* Faulty: returns without Unlock.
CreateAbortLocked(b) ==
  /\ createPC' = [createPC EXCEPT ![b] = "done"]
  /\ outcome' = [nc \in NodeClaims |->
                   IF nc \in CreateInput(b) THEN "failed" ELSE outcome[nc]]
  /\ createInputs' = [createInputs EXCEPT ![b] = <<>>]
  /\ deficit' = [deficit EXCEPT ![b] = 0]
  /\ UNCHANGED <<lock, mdCopy, createQueue, found, bindPC, attempt, assigned, labelLeaked>>

\* Every request of the batch fails: the executor unlocks and returns.
CreateAbort(b) ==
  /\ Unlock(b)
  /\ createPC' = [createPC EXCEPT ![b] = "done"]
  /\ outcome' = [nc \in NodeClaims |->
                   IF nc \in CreateInput(b) THEN "failed" ELSE outcome[nc]]
  /\ createInputs' = [createInputs EXCEPT ![b] = <<>>]
  /\ deficit' = [deficit EXCEPT ![b] = 0]
  /\ UNCHANGED <<mdCopy, createQueue, found, bindPC, attempt, assigned, labelLeaked>>

CreateGet(b) ==
  /\ createPC[b] = "get"
  /\ \/ /\ mdCopy' = [mdCopy EXCEPT ![b] = MDView]
        /\ createPC' = [createPC EXCEPT ![b] = "count"]
        /\ UNCHANGED <<clusterVars, lock, granted, createQueue, createInputs, deficit,
                       found, bindVars, labelLeaked>>
     \/ CreateAbort(b) /\ UNCHANGED <<clusterVars, granted>>

\* Faulty: "is there a deficit" taken for "is there a difference".
Differs(missing) == missing # 0

HasDeficit(missing) == missing > 0

\* countUnclaimedMachines is 0 when the list fails.  With no deficit the
\* executor goes on to poll without touching the MachineDeployment.
CreateCount(b) ==
  /\ createPC[b] = "count"
  /\ \E unclaimed \in {Cardinality(Unclaimed), 0} :
       LET missing == Len(createInputs[b]) - unclaimed IN
       \/ /\ HasDeficit(missing)
          /\ deficit' = [deficit EXCEPT ![b] = missing]
          /\ createPC' = [createPC EXCEPT ![b] = "update"]
          /\ UNCHANGED lock
       \/ /\ ~HasDeficit(missing)
          /\ Unlock(b)
          /\ createPC' = [createPC EXCEPT ![b] = "poll"]
          /\ UNCHANGED deficit
  /\ UNCHANGED <<clusterVars, mdCopy, granted, createQueue, createInputs, found,
                 bindVars, labelLeaked>>

Increment(b) ==
  /\ UpdateMD(mdCopy[b], mdCopy[b].replicas + deficit[b])
  /\ granted' = granted + deficit[b]
  /\ UNCHANGED <<mdCache, machine, machineCache, annotation, annotationCache>>

\* An error aborts the batch, whether or not the Update took effect.
CreateUpdate(b) ==
  /\ createPC[b] = "update"
  /\ \/ /\ Increment(b)
        /\ Unlock(b)
        /\ createPC' = [createPC EXCEPT ![b] = "poll"]
        /\ deficit' = [deficit EXCEPT ![b] = 0]
        /\ UNCHANGED <<mdCopy, createQueue, createInputs, found, bindVars, labelLeaked>>
     \/ CreateAbort(b) /\ UNCHANGED <<clusterVars, granted>>
     \/ LostReplies /\ CreateAbort(b) /\ Increment(b)

-----------------------------------------------------------------------------
(* 2) Poll for as many unclaimed Machines as there are inputs, unlocked. *)

\* The executor starts a goroutine for machines[i] and inputs[i]; an input left
\* without a Machine gets the "no Machine available" error.
StartBinding(b, machines) ==
  LET inputs == createInputs[b]
      Paired == {inputs[i] : i \in DOMAIN machines}
      MachineOf(nc) == machines[CHOOSE i \in DOMAIN machines : inputs[i] = nc]
  IN /\ createPC' = [createPC EXCEPT ![b] = "bind"]
     /\ found' = [found EXCEPT ![b] = <<>>]
     /\ bindPC' = [nc \in NodeClaims |->
          IF nc \in Paired THEN "label"
          ELSE IF nc \in CreateInput(b) THEN "done" ELSE bindPC[nc]]
     /\ attempt' = [nc \in NodeClaims |-> IF nc \in Paired THEN 0 ELSE attempt[nc]]
     /\ assigned' = [nc \in NodeClaims |->
          IF nc \in Paired THEN MachineOf(nc) ELSE assigned[nc]]
     /\ outcome' = [nc \in NodeClaims |->
          IF nc \in CreateInput(b) \ Paired THEN "failed" ELSE outcome[nc]]

\* Faulty: the poll forgets what it has collected before.
NotCollectedAnew(b) == Unclaimed

\* The Machines of a List that the "claimed" map of this poll does not have yet.
NotCollected(b) == Unclaimed \ Range(found[b])

\* One successful List: the Machines not collected before join, in any order,
\* until there are enough.  (A failed List collects nothing.)
Poll(b) ==
  LET missing == Len(createInputs[b]) - Len(found[b])
      fresh == NotCollected(b)
      size == Min2(missing, Cardinality(fresh))
  IN /\ createPC[b] = "poll" /\ size > 0
     /\ \E more \in [1 .. size -> fresh] :
          /\ IsInjective(more)
          /\ IF size = missing
             THEN StartBinding(b, found[b] \o more)
             ELSE /\ found' = [found EXCEPT ![b] = @ \o more]
                  /\ UNCHANGED <<createPC, bindVars>>
     /\ UNCHANGED <<clusterVars, lock, mdCopy, granted, createQueue, createInputs,
                    deficit, labelLeaked>>

\* The 30 s deadline, or the end of the context, ends the poll with what it has.
PollTimeout(b) ==
  /\ createPC[b] = "poll"
  /\ StartBinding(b, found[b])
  /\ UNCHANGED <<clusterVars, lock, mdCopy, granted, createQueue, createInputs,
                 deficit, labelLeaked>>

-----------------------------------------------------------------------------
(* 3) Bind each Machine to its NodeClaim (bindMachineToNodeClaim). *)

\* Faulty: the goroutine returns the result it had prepared.
BindFailsSilently(nc) ==
  /\ bindPC' = [bindPC EXCEPT ![nc] = "done"]
  /\ attempt' = [attempt EXCEPT ![nc] = 0]
  /\ UNCHANGED outcome

BindFails(nc) ==
  /\ bindPC' = [bindPC EXCEPT ![nc] = "done"]
  /\ outcome' = [outcome EXCEPT ![nc] = "failed"]
  /\ attempt' = [attempt EXCEPT ![nc] = 0]

\* Get the Machine, set the label, Update; three attempts.  Whatever else the
\* fresh object carries by now is not looked at.
SetLabel(m) == UpdateMachine(m, [MachineView[m] EXCEPT !.member = TRUE])

\* The Update failed: another attempt while there is one.
LabelAgain(nc) ==
  /\ attempt[nc] < MaxAttempts - 1
  /\ attempt' = [attempt EXCEPT ![nc] = @ + 1]
  /\ UNCHANGED <<bindPC, outcome>>

BindLabel(nc) ==
  LET m == assigned[nc] IN
  /\ bindPC[nc] = "label"
  /\ \/ /\ SetLabel(m)
        /\ bindPC' = [bindPC EXCEPT ![nc] = "patch"]
        /\ outcome' = [outcome EXCEPT ![nc] =
             IF MachineView[m].provisioned THEN "launched" ELSE "waiting"]
        /\ attempt' = [attempt EXCEPT ![nc] = 0]
        /\ UNCHANGED labelLeaked
     \/ \* the Update is refused or fails
        /\ Found(m)
        /\ LabelAgain(nc)
        /\ UNCHANGED <<machine, labelLeaked>>
     \/ \* the Get fails, or the last Update does
        /\ BindFails(nc)
        /\ UNCHANGED <<machine, labelLeaked>>
     \/ \* the label is set, but the Update reports an error
        /\ LostReplies
        /\ SetLabel(m)
        /\ labelLeaked' = labelLeaked \union {m}
        /\ \/ LabelAgain(nc)
           \/ attempt[nc] = MaxAttempts - 1 /\ BindFails(nc)
  /\ UNCHANGED <<md, mdCache, machineCache, annotation, annotationCache, lock, mdCopy,
                 granted, createQueue, createPC, createInputs, deficit, found,
                 assigned>>

\* Faulty: no rollback when the patch fails.
BindPatchNoRollback(nc) ==
  /\ bindPC[nc] = "patch"
  /\ bindPC' = [bindPC EXCEPT ![nc] = "done"]
  /\ \/ /\ annotation' = [annotation EXCEPT ![nc] = assigned[nc]]
        /\ UNCHANGED outcome
     \/ /\ outcome' = [outcome EXCEPT ![nc] = "failed"]
        /\ UNCHANGED annotation
  /\ UNCHANGED <<md, mdCache, machine, machineCache, annotationCache, lock, mdCopy,
                 granted, createQueue, createPC, createInputs, deficit, found,
                 attempt, assigned, labelLeaked>>

\* The merge patch that records the Machine on the NodeClaim.  An error leads to
\* the rollback, whether or not the patch took effect.
BindPatch(nc) ==
  /\ bindPC[nc] = "patch"
  /\ \/ /\ annotation' = [annotation EXCEPT ![nc] = assigned[nc]]
        /\ bindPC' = [bindPC EXCEPT ![nc] = "done"]
     \/ /\ bindPC' = [bindPC EXCEPT ![nc] = "rollback"]
        /\ \/ UNCHANGED annotation
           \/ LostReplies /\ annotation' = [annotation EXCEPT ![nc] = assigned[nc]]
  /\ UNCHANGED <<md, mdCache, machine, machineCache, annotationCache, lock, mdCopy,
                 granted, createQueue, createPC, createInputs, deficit, found,
                 attempt, assigned, outcome, labelLeaked>>

\* The patch failed: take the label off again.  A failed rollback is only logged.
BindRollback(nc) ==
  LET m == assigned[nc] IN
  /\ bindPC[nc] = "rollback"
  /\ \/ /\ UpdateMachine(m, [MachineView[m] EXCEPT !.member = FALSE])
        /\ UNCHANGED labelLeaked
     \/ /\ labelLeaked' = labelLeaked \union {m}
        /\ UNCHANGED machine
  /\ BindFails(nc)
  /\ UNCHANGED <<md, mdCache, machineCache, annotation, annotationCache, lock, mdCopy,
                 granted, createQueue, createPC, createInputs, deficit, found,
                 assigned>>

\* wg.Wait returns and the batcher delivers the results.
CreateFinish(b) ==
  /\ createPC[b] = "bind"
  /\ \A nc \in CreateInput(b) : bindPC[nc] = "done"
  /\ createPC' = [createPC EXCEPT ![b] = "done"]
  /\ bindPC' = [nc \in NodeClaims |->
                  IF nc \in CreateInput(b) THEN "idle" ELSE bindPC[nc]]
  /\ createInputs' = [createInputs EXCEPT ![b] = <<>>]
  /\ UNCHANGED <<clusterVars, lock, mdCopy, granted, createQueue, deficit, found,
                 attempt, assigned, outcome, labelLeaked>>

\* The process ends, and everything here with it.  A goroutine that had set the
\* label and not yet written the annotation leaves the label behind.
CreateLost ==
  /\ createQueue' = <<>>
  /\ createPC' = [b \in CreateBatches |-> IF createPC[b] = "idle" THEN "idle" ELSE "done"]
  /\ createInputs' = [b \in CreateBatches |-> <<>>]
  /\ deficit' = [b \in CreateBatches |-> 0]
  /\ found' = [b \in CreateBatches |-> <<>>]
  /\ bindPC' = [nc \in NodeClaims |-> "idle"]
  /\ attempt' = [nc \in NodeClaims |-> 0]
  /\ assigned' = [nc \in NodeClaims |-> NoMachine]
  /\ outcome' = [nc \in NodeClaims |-> "none"]
  /\ labelLeaked' = labelLeaked \union
       {m \in Machines : \E nc \in NodeClaims :
          assigned[nc] = m /\ bindPC[nc] \in {"patch", "rollback"}}

CreateExecutor(b) ==
  \/ CreateStart(b) \/ CreateLock(b) \/ CreateGet(b) \/ CreateCount(b)
  \/ CreateUpdate(b) \/ Poll(b) \/ PollTimeout(b) \/ CreateFinish(b)

Bind(nc) == BindLabel(nc) \/ BindPatch(nc) \/ BindRollback(nc)

=============================================================================
