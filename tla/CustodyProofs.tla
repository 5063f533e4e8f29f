----------------------------- MODULE CustodyProofs -----------------------------
(***************************************************************************)
(* A Machine that nothing went wrong with goes to one NodeClaim, keeps its *)
(* label, and is brought down by that NodeClaim's Delete only; and the     *)
(* MachineSet controller takes no more Machines that nobody asked to       *)
(* delete than the replicas taken for nothing account for.  For any number *)
(* of NodeClaims, Machines and batches, with current or lagging caches,    *)
(* overlapping batches, lost replies, repeated Deletes and restarts.       *)
(*                                                                         *)
(* The inductive invariant is Inv /\ CreateRequestsPlaced /\ PairsDistinct *)
(* /\ CreatedBefore /\ CustodyKept.  OneOwner alone says nothing of the    *)
(* goroutine that is about to write the second annotation, nor of the      *)
(* rollback or the delete request that is about to undo the first one's    *)
(* label; CustodyKept does.                                                *)
(***************************************************************************)
EXTENDS Custody, BindingProofs, CloudProviderProofs

\* The history only watches.
LEMMA AuditedRefines == AuditedSpec => Spec
<1>1. [Next /\ Audit]_auditVars => [Next]_vars
  BY DEF auditVars
<1>2. QED
  BY <1>1, PTL DEF AuditedSpec, Spec

\* What every state satisfies, whatever went wrong.
Placed == Inv /\ CreateRequestsPlaced /\ PairsDistinct

LEMMA AllPlaced == Spec => []Placed
<1>1. Inv /\ CreateRequestsPlaced /\ PairsDistinct => Placed
  BY DEF Placed
<1>2. QED
  BY <1>1, Invariance, RequestsPlaced, OneMachineEach, PTL

-----------------------------------------------------------------------------
(* How a Machine comes into hand, and who has it then. *)

LEMMA HolderOf ==
  ASSUME Placed, NEW m \in Machines, ~Contested(m), NEW nc \in NodeClaims, Binds(nc, m)
  PROVE  /\ \A b \in CreateBatches : m \notin Range(found[b])
         /\ \A other \in NodeClaims \ {nc} : ~Binds(other, m)
<1>1. PICK b \in CreateBatches : createPC[b] = "bind" /\ nc \in CreateInput(b)
  BY DEF Placed, CreateRequestsPlaced, Binds
<1>2. \A c \in CreateBatches \ {b} : ~Holds(c, m)
  BY <1>1 DEF Contested, Holds
<1>3. m \notin Range(found[b])
  BY <1>1, EmptySequence DEF Placed, CreateRequestsPlaced
<1>4. ASSUME NEW other \in NodeClaims \ {nc}, Binds(other, m) PROVE FALSE
  <2>1. PICK c \in CreateBatches : createPC[c] = "bind" /\ other \in CreateInput(c)
    BY <1>4 DEF Placed, CreateRequestsPlaced, Binds
  <2>2. c = b
    BY <1>2, <1>4, <2>1 DEF Holds
  <2>3. m # NoMachine
    BY ClusterAssumption DEF ClusterAssumption
  <2>4. QED
    BY <1>1, <1>4, <2>1, <2>2, <2>3 DEF Placed, PairsDistinct, Binds
<1>5. QED
  BY <1>2, <1>3, <1>4 DEF Holds

\* A Machine comes into hand only out of the unclaimed pool.
LEMMA ComesIntoHand ==
  ASSUME Placed, [Next]_vars, NEW m \in Machines, InHand(m)'
  PROVE  InHand(m) \/ (m \in Unclaimed /\ UNCHANGED machine)
<1>1. CASE UNCHANGED <<found, bindPC, assigned>>
  BY <1>1 DEF InHand, Binds
<1>2. ASSUME NEW b \in CreateBatches, CreateStep(b)
      PROVE  InHand(m) \/ (m \in Unclaimed /\ UNCHANGED machine)
  <2>0. UNCHANGED machine
    BY <1>2 DEF CreateStep, CreateExecutor, CreateStart, CreateLock, CreateGet, CreateCount,
                CreateUpdate, Increment, Poll, PollTimeout, CreateFinish, clusterVars
  <2>1. CASE CreateStart(b) \/ Aborts(b) \/ Advances(b)
    BY <1>1, <2>1 DEF CreateStart, Aborts, CreateAbort, Advances, bindVars
  <2>2. CASE CreateFinish(b)
    BY <2>2 DEF CreateFinish, InHand, Binds
  <2>3. CASE Polls(b)
    <3>1. PICK machines \in Seq(Machines) :
            /\ Len(machines) <= Len(createInputs[b]) /\ IsInjective(machines)
            /\ Range(machines) \subseteq Range(found[b]) \union Unclaimed
            /\ \/ StartBinding(b, machines)
               \/ found' = [found EXCEPT ![b] = machines] /\ UNCHANGED <<createPC, bindVars>>
      BY <2>3 DEF Polls
    <3>2. m \in Range(machines) => InHand(m) \/ m \in Unclaimed
      BY <3>1 DEF InHand, Binds
    <3>3. CASE found' = [found EXCEPT ![b] = machines] /\ UNCHANGED bindVars
      BY <2>0, <3>2, <3>3 DEF InHand, Binds, bindVars, Placed, Inv, TypeOK, CreateTypeOK
    <3>4. CASE StartBinding(b, machines)
      <4>1. PICK Paired \in SUBSET CreateInput(b) :
              /\ \A nc \in NodeClaims :
                   IF nc \in Paired
                   THEN bindPC'[nc] = "label" /\ assigned'[nc] \in Machines
                        /\ outcome'[nc] = outcome[nc]
                   ELSE IF nc \in CreateInput(b)
                   THEN bindPC'[nc] = "done" /\ assigned'[nc] = assigned[nc]
                        /\ outcome'[nc] = "failed"
                   ELSE bindPC'[nc] = bindPC[nc] /\ assigned'[nc] = assigned[nc]
                        /\ outcome'[nc] = outcome[nc]
              /\ \A nc1, nc2 \in Paired : nc1 # nc2 => assigned'[nc1] # assigned'[nc2]
              /\ \A nc \in Paired : assigned'[nc] \in Range(machines)
        BY <3>1, <3>4, Pairing DEF Placed
      <4>2. found' = [found EXCEPT ![b] = <<>>] /\ Range(<<>>) = {}
        BY <3>4, EmptySequence DEF StartBinding
      <4>3. \A c \in CreateBatches : m \in Range(found'[c]) => m \in Range(found[c])
        BY <4>2 DEF Placed, Inv, TypeOK, CreateTypeOK
      <4>4. ASSUME NEW nc \in NodeClaims, assigned'[nc] = m,
                   bindPC'[nc] \in {"label", "patch", "rollback"}
            PROVE  m \in Range(machines) \/ InHand(m)
        BY <4>1, <4>4 DEF InHand, Binds
      <4>5. QED
        BY <2>0, <3>2, <4>3, <4>4 DEF InHand, Binds
    <3>5. QED
      BY <3>1, <3>3, <3>4
  <2>4. QED
    BY <1>2, <2>1, <2>2, <2>3, CreateStepKinds DEF Placed
<1>3. ASSUME NEW nc \in NodeClaims, BindStep(nc) PROVE InHand(m)
  <2>1. UNCHANGED <<assigned, found>> /\ bindPC[nc] \in {"label", "patch", "rollback"}
    BY <1>3 DEF BindStep, Bind, BindLabel, BindPatch, BindRollback
  <2>2. \A other \in NodeClaims \ {nc} : bindPC'[other] = bindPC[other]
    BY <1>3, BindStepEffect DEF Placed
  <2>3. QED
    BY <2>1, <2>2 DEF InHand, Binds
<1>4. ASSUME NEW nc \in NodeClaims, CreateReturn(nc) PROVE InHand(m)
  <2>1. UNCHANGED <<found, bindPC>> /\ assigned' = [assigned EXCEPT ![nc] = NoMachine]
    BY <1>4 DEF CreateReturn
  <2>2. m # NoMachine
    BY ClusterAssumption DEF ClusterAssumption
  <2>3. QED
    BY <2>1, <2>2 DEF InHand, Binds, Placed, Inv, TypeOK, CreateTypeOK
<1>5. CASE Restart
  BY <1>5, EmptySequence DEF Restart, CreateLost, InHand, Binds
<1>6. ASSUME NEW nc \in NodeClaims, CreateAdd(nc) PROVE InHand(m)
  BY <1>6 DEF CreateAdd, bindVars, InHand, Binds
<1>7. CASE Rests
  BY <1>1, <1>7 DEF Rests, createVars
<1>8. QED
  BY <1>2, <1>3, <1>4, <1>5, <1>6, <1>7, OtherStepsRest DEF Next, Caller, Placed

\* A Machine keeps its label while it lives, unless its own goroutine takes it off.
LEMMA LabelStays ==
  ASSUME Inv, [Next]_vars, NEW m \in Machines,
         machine[m].phase # "absent", machine'[m].phase \in {"live", "deleting"},
         machine[m].phase \in {"live", "deleting"} => machine[m].member
  PROVE  \/ machine'[m].member
         \/ \E nc \in NodeClaims :
              BindStep(nc) /\ assigned[nc] = m /\ bindPC[nc] = "rollback"
<1>1. machine[m] \in Machine
  BY DEF Inv, TypeOK, ClusterTypeOK
<1>2. \/ machine'[m] = machine[m]
      \/ machine'[m] = Blank("gone")
      \/ machine'[m] = [machine[m] EXCEPT !.provisioned = TRUE]
      \/ machine'[m] = [machine[m] EXCEPT !.phase = "deleting"] /\ machine[m].phase = "live"
      \/ machine'[m] = [machine[m] EXCEPT !.member = TRUE]
      \/ machine'[m] = [machine[m] EXCEPT !.marked = TRUE]
      \/ machine'[m] = [machine[m] EXCEPT !.marked = FALSE]
      \/ \E nc \in NodeClaims :
           BindStep(nc) /\ assigned[nc] = m /\ bindPC[nc] = "rollback"
  BY MachineWrites
<1>3. QED
  BY <1>1, <1>2 DEF Machine, Blank, Phases

\* A Machine that was created stays created.
LEMMA StaysCreated ==
  ASSUME Inv, [Next]_vars, NEW m \in Machines, machine[m].phase # "absent"
  PROVE  machine'[m].phase # "absent"
<1>1. machine[m] \in Machine
  BY DEF Inv, TypeOK, ClusterTypeOK
<1>2. \/ machine'[m] = machine[m]
      \/ machine'[m] = Blank("gone")
      \/ machine'[m] = [machine[m] EXCEPT !.provisioned = TRUE]
      \/ machine'[m] = [machine[m] EXCEPT !.phase = "deleting"]
      \/ \E flag \in BOOLEAN : \/ machine'[m] = [machine[m] EXCEPT !.member = flag]
                               \/ machine'[m] = [machine[m] EXCEPT !.marked = flag]
  BY MachineWrites
<1>3. ASSUME NEW flag \in BOOLEAN,
             \/ machine'[m] = [machine[m] EXCEPT !.member = flag]
             \/ machine'[m] = [machine[m] EXCEPT !.marked = flag]
      PROVE  machine'[m].phase = machine[m].phase
  BY <1>1, <1>3 DEF Machine
<1>4. \/ machine'[m].phase = machine[m].phase
      \/ machine'[m] = Blank("gone")
      \/ machine'[m] = [machine[m] EXCEPT !.provisioned = TRUE]
      \/ machine'[m] = [machine[m] EXCEPT !.phase = "deleting"]
  BY <1>2, <1>3
<1>5. QED
  BY <1>1, <1>4 DEF Machine, Blank

\* A goroutine that has set the label goes on with the same Machine.
LEMMA BindingKept ==
  ASSUME Inv, CreateRequestsPlaced, [Next]_vars, NEW nc \in NodeClaims,
         bindPC'[nc] \in {"patch", "rollback"}
  PROVE  /\ assigned'[nc] = assigned[nc]
         /\ \/ bindPC[nc] \in {"patch", "rollback"}
            \/ bindPC[nc] = "label" /\ SetLabel(assigned[nc])
<1>1. CASE bindPC'[nc] = bindPC[nc] /\ assigned'[nc] = assigned[nc]
  BY <1>1
<1>2. ASSUME NEW b \in CreateBatches, CreateStep(b)
      PROVE  bindPC'[nc] = bindPC[nc] /\ assigned'[nc] = assigned[nc]
  BY <1>2, CreateStepEffect
<1>3. ASSUME NEW other \in NodeClaims, BindStep(other)
      PROVE  /\ assigned'[nc] = assigned[nc]
             /\ \/ bindPC[nc] \in {"patch", "rollback"}
                \/ bindPC[nc] = "label" /\ SetLabel(assigned[nc])
  BY <1>3, BindStepEffect
<1>4. ASSUME NEW other \in NodeClaims, CreateAdd(other) \/ CreateReturn(other)
      PROVE  bindPC'[nc] = bindPC[nc] /\ assigned'[nc] = assigned[nc]
  BY <1>4 DEF CreateAdd, CreateReturn, bindVars, Inv, TypeOK, CreateTypeOK
<1>5. ~Restart
  BY DEF Restart, CreateLost
<1>6. CASE Rests
  BY <1>1, <1>6 DEF Rests, createVars
<1>7. QED
  BY <1>1, <1>2, <1>3, <1>4, <1>5, <1>6, OtherStepsRest DEF Next, Caller

LEMMA TargetWrites ==
  ASSUME Inv, [Next]_vars, NEW nc \in NodeClaims
  PROVE  \/ target'[nc] \in {target[nc], NoMachine}
         \/ target'[nc] \in {providerID[nc], AnnotationView[nc]} /\ UNCHANGED providerID
<1>1. CASE \/ UNCHANGED vars \/ EnvironmentStep
           \/ \E b \in CreateBatches : CreateStep(b)
           \/ \E other \in NodeClaims : BindStep(other)
  BY <1>1 DEF vars, EnvironmentStep, CreateStep, BindStep, deleteVars
<1>2. ASSUME NEW b \in DeleteBatches, DeleteStep(b) PROVE UNCHANGED target
  BY <1>2 DEF DeleteStep, DeleteExecutor, DeleteStart, DeleteJoin, DeleteLock, DeleteGet,
              DeleteUpdate, DeleteAbort, DeleteFinish, RollbackMark
<1>3. ASSUME NEW other \in NodeClaims, AnnotateStep(other) PROVE UNCHANGED target
  BY <1>3 DEF AnnotateStep, Annotate
<1>4. ASSUME NEW other \in NodeClaims, Caller(other), ~DeleteFind(other)
      PROVE  UNCHANGED target \/ target' = [target EXCEPT ![other] = NoMachine]
  BY <1>4 DEF Caller, CreateExisting, CreateAdd, CreateReturn, Terminate, DeleteNotFound,
              DeleteAdd, DeleteReturn, deleteVars
<1>5. ASSUME NEW other \in NodeClaims, DeleteFind(other)
      PROVE  /\ UNCHANGED providerID
             /\ \E m \in {providerID[other], AnnotationView[other]} :
                  target' = [target EXCEPT ![other] = m]
  BY <1>5 DEF DeleteFind
<1>6. CASE Restart
  BY <1>6 DEF Restart, DeleteLost
<1>7. target \in [NodeClaims -> Machines \union {NoMachine}]
  BY DEF Inv, TypeOK, DeleteTypeOK
<1>8. QED
  BY <1>1, <1>2, <1>3, <1>4, <1>5, <1>6, <1>7 DEF Next

-----------------------------------------------------------------------------
(* How a Machine comes into use. *)

\* The informer shows an annotation only after it has been written.
LEMMA AnnotationCacheWrites ==
  ASSUME [Next]_vars
  PROVE  \/ UNCHANGED annotationCache
         \/ annotationCache' = annotation
<1>1. CASE UNCHANGED vars \/ EnvironmentStep \/ Restart
  BY <1>1 DEF vars, clusterVars, EnvironmentStep, Environment, CreateMachine, ProvisionMachine,
              ScaleDown, RemoveMachine, SyncMD, SyncMachines, SyncAnnotations, Restart
<1>2. ASSUME NEW b \in CreateBatches, CreateStep(b) PROVE UNCHANGED annotationCache
  BY <1>2 DEF CreateStep, CreateExecutor, CreateStart, CreateLock, CreateGet, CreateCount,
              CreateUpdate, Increment, Poll, PollTimeout, CreateFinish, clusterVars
<1>3. ASSUME NEW b \in DeleteBatches, DeleteStep(b) PROVE UNCHANGED annotationCache
  BY <1>3 DEF DeleteStep, DeleteExecutor, DeleteStart, DeleteJoin, DeleteLock, DeleteGet,
              DeleteUpdate, Decrement, DeleteFinish, RollbackMark, clusterVars
<1>4. ASSUME NEW nc \in NodeClaims, AnnotateStep(nc) \/ Caller(nc) PROVE UNCHANGED annotationCache
  BY <1>4 DEF AnnotateStep, Annotate, Caller, CreateExisting, CreateAdd, CreateReturn, Terminate,
              DeleteFind, DeleteNotFound, DeleteAdd, DeleteReturn, clusterVars
<1>5. ASSUME NEW nc \in NodeClaims, BindStep(nc) PROVE UNCHANGED annotationCache
  BY <1>5 DEF BindStep, Bind, BindLabel, BindPatch, BindRollback
<1>6. QED
  BY <1>1, <1>2, <1>3, <1>4, <1>5 DEF Next

\* The goroutine records the Machine on its NodeClaim.
Records(nc, m) ==
  /\ BindStep(nc) /\ bindPC[nc] = "patch" /\ assigned[nc] = m
  /\ annotation' = [annotation EXCEPT ![nc] = m]
  /\ bindPC'[nc] \in {"done", "rollback"}
  /\ UNCHANGED <<machine, found, assigned>>

LEMMA PatchRecords ==
  ASSUME Inv, NEW nc \in NodeClaims, BindStep(nc), bindPC[nc] = "patch",
         annotation' = [annotation EXCEPT ![nc] = assigned[nc]]
  PROVE  Records(nc, assigned[nc])
<1>1. BindPatch(nc)
  BY DEF BindStep, Bind, BindLabel, BindRollback
<1>2. QED
  BY <1>1 DEF BindPatch, Records, Inv, TypeOK, CreateTypeOK

\* What Used says of one NodeClaim.
UsedBy(nc, m) ==
  \/ m \in {annotation[nc], annotationCache[nc], providerID[nc], target[nc]}
  \/ /\ assigned[nc] = m /\ bindPC[nc] \in {"idle", "done"}
     /\ outcome[nc] \in {"launched", "waiting"}

\* The result a goroutine leaves is about the Machine it has recorded.
LEMMA ResultArises ==
  ASSUME Placed, [Next]_vars, NEW nc \in NodeClaims, NEW m \in Machines,
         assigned'[nc] = m, bindPC'[nc] \in {"idle", "done"},
         outcome'[nc] \in {"launched", "waiting"}
  PROVE  UsedBy(nc, m) \/ Records(nc, m)
<1>0. /\ Inv /\ CreateRequestsPlaced /\ outcome \in [NodeClaims -> {"none", "launched", "waiting", "failed"}]
      /\ assigned \in [NodeClaims -> Machines \union {NoMachine}]
  BY DEF Placed, Inv, TypeOK, CreateTypeOK
<1>1. CASE bindPC'[nc] = bindPC[nc] /\ assigned'[nc] = assigned[nc] /\ outcome'[nc] = outcome[nc]
  BY <1>1 DEF UsedBy
<1>2. ASSUME NEW b \in CreateBatches, CreateStep(b) PROVE UsedBy(nc, m)
  BY <1>0, <1>2, CreateStepEffect DEF UsedBy
<1>3. ASSUME NEW other \in NodeClaims, BindStep(other) PROVE UsedBy(nc, m) \/ Records(nc, m)
  <2>1. UNCHANGED assigned
    BY <1>0, <1>3, BindStepEffect
  <2>2. CASE other # nc
    BY <1>0, <1>1, <1>3, <2>1, <2>2, BindStepEffect
  <2>3. CASE other = nc
    <3>1. bindPC[nc] = "patch" /\ annotation' = [annotation EXCEPT ![nc] = assigned[nc]]
      BY <1>0, <1>3, <2>3, BindStepEffect
    <3>2. QED
      BY <1>0, <1>3, <2>1, <2>3, <3>1, PatchRecords
  <2>4. QED
    BY <2>2, <2>3
<1>4. ASSUME NEW other \in NodeClaims, CreateAdd(other) PROVE UsedBy(nc, m) \/ Records(nc, m)
  BY <1>1, <1>4 DEF CreateAdd, bindVars
<1>5. ASSUME NEW other \in NodeClaims, CreateReturn(other)
      PROVE  UsedBy(nc, m) \/ Records(nc, m)
  <2>1. /\ UNCHANGED bindPC /\ outcome' = [outcome EXCEPT ![other] = "none"]
        /\ assigned' = [assigned EXCEPT ![other] = NoMachine]
    BY <1>5 DEF CreateReturn
  <2>2. other # nc
    BY <1>0, <2>1
  <2>3. QED
    BY <1>0, <1>1, <2>1, <2>2
<1>6. ~Restart
  BY DEF Restart, CreateLost
<1>7. CASE Rests
  BY <1>1, <1>7 DEF Rests, createVars
<1>8. QED
  BY <1>0, <1>2, <1>3, <1>4, <1>5, <1>6, <1>7, OtherStepsRest DEF Next, Caller

\* A Machine comes into use through the patch of the goroutine that binds it, and in
\* no other way: what the caller goes by was in use before.
LEMMA UseArises ==
  ASSUME Placed, [Next]_vars, NEW m \in Machines, Used(m)', ~Used(m)
  PROVE  \E nc \in NodeClaims : Records(nc, m)
<1>0. /\ Inv /\ annotation \in [NodeClaims -> Machines \union {NoMachine}]
      /\ providerID \in [NodeClaims -> Machines \union {NoMachine}]
      /\ m # NoMachine
  BY ClusterAssumption DEF Placed, Inv, TypeOK, ClusterTypeOK, CallerTypeOK, ClusterAssumption
<1>1. \A nc \in NodeClaims : ~UsedBy(nc, m) /\ AnnotationView[nc] # m
  BY DEF Used, UsedBy, AnnotationView
<1>2. PICK nc \in NodeClaims :
        \/ m \in {annotation'[nc], annotationCache'[nc], providerID'[nc], target'[nc]}
        \/ /\ assigned'[nc] = m /\ bindPC'[nc] \in {"idle", "done"}
           /\ outcome'[nc] \in {"launched", "waiting"}
  BY DEF Used
<1>3. CASE annotation'[nc] = m
  <2>1. PICK other \in NodeClaims :
          /\ BindStep(other) /\ bindPC[other] = "patch"
          /\ annotation' = [annotation EXCEPT ![other] = assigned[other]]
    BY <1>1, <1>3, AnnotationWrites DEF UsedBy
  <2>2. assigned[other] = m
    BY <1>0, <1>1, <1>3, <2>1 DEF UsedBy
  <2>3. QED
    BY <1>0, <2>1, <2>2, PatchRecords
<1>4. annotationCache'[nc] # m
  BY <1>1, AnnotationCacheWrites DEF UsedBy
<1>5. providerID'[nc] # m
  <2>1. CASE CreateExisting(nc)
    BY <1>0, <1>1, <2>1 DEF CreateExisting
  <2>2. CASE CreateReturn(nc)
    BY <1>0, <1>1, <2>2 DEF CreateReturn, UsedBy
  <2>3. QED
    BY <1>0, <1>1, <2>1, <2>2, CallerWrites DEF UsedBy
<1>6. target'[nc] # m
  BY <1>0, <1>1, TargetWrites DEF UsedBy
<1>7. CASE /\ assigned'[nc] = m /\ bindPC'[nc] \in {"idle", "done"}
           /\ outcome'[nc] \in {"launched", "waiting"}
  BY <1>1, <1>7, ResultArises
<1>8. QED
  BY <1>2, <1>3, <1>4, <1>5, <1>6, <1>7

-----------------------------------------------------------------------------
(* Nothing the provider goes by is older than the Machine it names. *)

\* Only what a delete request names is paid for.
LEMMA PaidTargets ==
  ASSUME Inv, [Next]_vars
  PROVE  paid' \subseteq paid \union {target[nc] : nc \in NodeClaims}
<1>1. CASE \/ UNCHANGED vars \/ EnvironmentStep \/ Restart
           \/ \E b \in CreateBatches : CreateStep(b)
           \/ \E nc \in NodeClaims : BindStep(nc) \/ AnnotateStep(nc) \/ Caller(nc)
  BY <1>1 DEF vars, EnvironmentStep, CreateStep, BindStep, AnnotateStep, Annotate, Caller,
              CreateExisting, CreateAdd, CreateReturn, Terminate, DeleteFind, DeleteNotFound,
              DeleteAdd, DeleteReturn, Restart, DeleteLost, deleteVars
<1>2. ASSUME NEW b \in DeleteBatches, DeleteStep(b)
      PROVE  UNCHANGED paid \/ paid' = paid \union {target[nc] : nc \in Annotated(b)}
  BY <1>2 DEF DeleteStep, DeleteExecutor, DeleteStart, DeleteJoin, DeleteLock, DeleteGet,
              DeleteUpdate, DeleteAbort, DeleteFinish, RollbackMark
<1>3. \A b \in DeleteBatches : Annotated(b) \subseteq NodeClaims
  BY DEF Annotated, Inv, TypeOK, DeleteTypeOK
<1>4. QED
  BY <1>1, <1>2, <1>3 DEF Next

LEMMA CreatedStep == Placed /\ CreatedBefore /\ [Next]_vars => CreatedBefore'
<1> SUFFICES ASSUME Placed, CreatedBefore, [Next]_vars, NEW m \in Machines,
                    \/ InHand(m)' \/ Used(m)' \/ machineCache'[m].phase # "absent"
                    \/ m \in paid'
             PROVE  machine'[m].phase # "absent"
  BY DEF CreatedBefore
<1>0. Inv
  BY DEF Placed
<1>1. SUFFICES machine[m].phase # "absent"
  BY <1>0, StaysCreated
<1>2. InHand(m) \/ Used(m) => machine[m].phase # "absent"
  BY DEF CreatedBefore
<1>3. CASE InHand(m)'
  <2>1. m \in Unclaimed => machine[m].phase # "absent"
    BY DEF Unclaimed, MachineView, CreatedBefore
  <2>2. QED
    BY <1>2, <1>3, <2>1, ComesIntoHand
<1>4. CASE Used(m)'
  <2>1. Used(m) \/ InHand(m)
    BY <1>4, UseArises DEF Records, InHand, Binds
  <2>2. QED
    BY <1>2, <2>1
<1>5. CASE machineCache'[m].phase # "absent"
  BY <1>5, CacheWrites DEF CreatedBefore
<1>6. CASE m \in paid'
  <2>1. m \in paid \/ Used(m)
    BY <1>0, <1>6, PaidTargets DEF Used
  <2>2. QED
    BY <1>2, <2>1 DEF CreatedBefore
<1>7. QED
  BY <1>3, <1>4, <1>5, <1>6

\* At the start nothing is in hand, and what is in use is there and labelled.
LEMMA InitUse ==
  ASSUME Init, NEW m \in Machines
  PROVE  /\ ~InHand(m) /\ m \notin paid /\ machineCache = machine
         /\ \/ machine[m].phase = "live" /\ machine[m].member
            \/ ~Used(m) /\ machine[m].phase = "absent"
<1>1. m # NoMachine
  BY ClusterAssumption DEF ClusterAssumption
<1>2. ~InHand(m) /\ m \notin paid /\ machineCache = machine
  BY EmptySequence DEF Init, ClusterInit, CreateInit, DeleteInit, InHand, Binds
<1>3. Used(m) => \E nc \in InitiallyBound : InitialMachine[nc] = m
  BY <1>1 DEF Init, ClusterInit, CreateInit, DeleteInit, Used, InitiallyBound
<1>4. CASE \E nc \in InitiallyBound : InitialMachine[nc] = m
  <2>1. machine[m] = [Blank("live") EXCEPT !.provisioned = TRUE, !.member = TRUE]
    BY <1>4 DEF Init, ClusterInit
  <2>2. machine[m].phase = "live" /\ machine[m].member
    BY <2>1 DEF Blank
  <2>3. QED
    BY <1>2, <2>2
<1>5. CASE ~\E nc \in InitiallyBound : InitialMachine[nc] = m
  <2>1. machine[m] = Blank("absent")
    BY <1>5 DEF Init, ClusterInit
  <2>2. machine[m].phase = "absent"
    BY <2>1 DEF Blank
  <2>3. QED
    BY <1>2, <1>3, <1>5, <2>2
<1>6. QED
  BY <1>4, <1>5

LEMMA CreatedHolds == Spec => []CreatedBefore
<1>1. Init => CreatedBefore
  BY InitUse DEF CreatedBefore
<1>2. QED
  BY <1>1, CreatedStep, AllPlaced, PTL DEF Spec

-----------------------------------------------------------------------------
(* Custody is kept. *)

\* What the audit says of a Machine that stays above suspicion.
LEMMA Unsuspected ==
  ASSUME CustodyKept, [Next /\ Audit]_auditVars, NEW m \in Machines \ suspect'
  PROVE  m \notin suspect /\ ~Contested(m)' /\ ~Misread(m) /\ ~Disowned(m)
<1>1. CASE Audit
  BY <1>1 DEF Audit
<1>2. CASE UNCHANGED auditVars
  <2>1. m \in Machines \ suspect /\ ~Contested(m)
    BY <1>2 DEF auditVars, CustodyKept
  <2>2. UNCHANGED <<found, createInputs, assigned, bindPC>>
    BY <1>2 DEF auditVars, vars, createVars
  <2>3. ~Contested(m)'
    BY <2>1, <2>2 DEF Contested, Holds, Binds, CreateInput
  <2>4. ~Misread(m)
    BY <2>2 DEF Misread, InHand, Binds
  <2>5. ~Disowned(m)
    BY <2>2 DEF Disowned
  <2>6. QED
    BY <2>1, <2>3, <2>4, <2>5
<1>3. QED
  BY <1>1, <1>2

\* What CustodyKept says of one Machine.
Kept(m) ==
  /\ ~Contested(m)
  /\ InHand(m) => ~Used(m) /\ ~machine[m].marked
  /\ Used(m) => Labelled(m)
  /\ \A nc \in NodeClaims :
       assigned[nc] = m /\ bindPC[nc] \in {"patch", "rollback"} => Labelled(m)
  /\ \A nc1, nc2 \in NodeClaims : annotation[nc1] = m /\ annotation[nc2] = m => nc1 = nc2

\* In hand a Machine is unmarked and not in use.
LEMMA HandKept ==
  ASSUME Placed, [Next]_vars, NEW m \in Machines, Kept(m), ~Misread(m), ~Disowned(m), InHand(m)'
  PROVE  ~Used(m)' /\ ~machine'[m].marked
<1>0. Inv /\ machine[m] \in Machine
  BY DEF Placed, Inv, TypeOK, ClusterTypeOK
<1>1. CASE ~InHand(m)
  <2>1. Free(m) /\ UNCHANGED machine
    BY <1>1, ComesIntoHand DEF Misread, Unclaimed, Free
  <2>2. ~Used(m)
    BY <2>1 DEF Free, Kept, Labelled
  <2>3. ~Used(m)'
    BY <1>1, <2>2, UseArises DEF Records, InHand, Binds
  <2>4. QED
    BY <2>1, <2>3 DEF Free
<1>2. CASE InHand(m)
  <2>1. ~Used(m) /\ ~machine[m].marked
    BY <1>2 DEF Kept
  <2>2. ~Used(m)'
    <3>1. SUFFICES ASSUME NEW nc \in NodeClaims, Records(nc, m) PROVE ~InHand(m)'
      BY <2>1, UseArises
    <3>2. bindPC'[nc] = "done"
      BY <3>1 DEF Records, Disowned, Placed, Inv, TypeOK, ClusterTypeOK
    <3>3. /\ \A b \in CreateBatches : m \notin Range(found[b])
          /\ \A other \in NodeClaims \ {nc} : ~Binds(other, m)
      BY <3>1, HolderOf DEF Records, Binds, Kept
    <3>4. \A other \in NodeClaims \ {nc} : bindPC'[other] = bindPC[other]
      BY <1>0, <3>1, BindStepEffect DEF Records
    <3>5. QED
      BY <3>1, <3>2, <3>3, <3>4 DEF Records, InHand, Binds
  <2>3. ~machine'[m].marked
    <3>1. \A nc \in NodeClaims : target[nc] # m
      BY <2>1 DEF Used
    <3>2. \/ machine'[m] = machine[m]
          \/ machine'[m] = Blank("live")
          \/ machine'[m] = [machine[m] EXCEPT !.provisioned = TRUE]
          \/ machine'[m] = [machine[m] EXCEPT !.phase = "deleting"]
          \/ machine'[m] = Blank("gone")
          \/ \E flag \in BOOLEAN : machine'[m] = [machine[m] EXCEPT !.member = flag]
      BY <1>0, <3>1, MachineWrites
    <3>3. ASSUME NEW flag \in BOOLEAN, machine'[m] = [machine[m] EXCEPT !.member = flag]
          PROVE  ~machine'[m].marked
      BY <1>0, <2>1, <3>3 DEF Machine
    <3>4. CASE \/ machine'[m] = [machine[m] EXCEPT !.provisioned = TRUE]
               \/ machine'[m] = [machine[m] EXCEPT !.phase = "deleting"]
      BY <1>0, <2>1, <3>4 DEF Machine
    <3>5. CASE machine'[m] = Blank("live") \/ machine'[m] = Blank("gone")
      BY <3>5 DEF Blank
    <3>6. QED
      BY <2>1, <3>2, <3>3, <3>4, <3>5
  <2>4. QED
    BY <2>2, <2>3
<1>3. QED
  BY <1>1, <1>2

\* Whoever has set the label, or goes by the Machine, finds the label there.
LEMMA LabelKept ==
  ASSUME Placed, CreatedBefore, [Next]_vars, NEW m \in Machines, Kept(m)
  PROVE  /\ Used(m)' => Labelled(m)'
         /\ \A nc \in NodeClaims :
              assigned'[nc] = m /\ bindPC'[nc] \in {"patch", "rollback"} => Labelled(m)'
<1>0. Inv /\ machine[m] \in Machine
  BY DEF Placed, Inv, TypeOK, ClusterTypeOK
<1>1. CASE Used(m)
  <2>1. machine[m].phase # "absent" /\ Labelled(m)
    BY <1>1 DEF CreatedBefore, Kept
  <2>2. \A nc \in NodeClaims : ~(assigned[nc] = m /\ bindPC[nc] = "rollback")
    BY <1>1 DEF Kept, InHand, Binds
  <2>3. Labelled(m)'
    BY <1>0, <2>1, <2>2, LabelStays DEF Labelled
  <2>4. QED
    BY <2>3
<1>2. CASE ~Used(m)
  <2>1. ASSUME Used(m)' PROVE Labelled(m)'
    <3>1. PICK nc \in NodeClaims : Records(nc, m)
      BY <1>2, <2>1, UseArises
    <3>2. Labelled(m)
      BY <3>1 DEF Records, Kept
    <3>3. QED
      BY <3>1, <3>2 DEF Records, Labelled
  <2>2. ASSUME NEW nc \in NodeClaims, assigned'[nc] = m, bindPC'[nc] \in {"patch", "rollback"}
        PROVE  Labelled(m)'
    <3>1. /\ assigned[nc] = m
          /\ \/ bindPC[nc] \in {"patch", "rollback"}
             \/ bindPC[nc] = "label" /\ SetLabel(m)
      BY <1>0, <2>2, BindingKept DEF Placed
    <3>2. CASE bindPC[nc] = "label" /\ SetLabel(m)
      <4>1. machine'[m] = [machine[m] EXCEPT !.member = TRUE]
        BY <1>0, <3>2, LabelEffect DEF SetLabel
      <4>2. QED
        BY <1>0, <4>1 DEF Labelled, Machine
    <3>3. CASE bindPC[nc] \in {"patch", "rollback"}
      <4>1. Labelled(m) /\ machine[m].phase # "absent"
        BY <3>1, <3>3 DEF Kept, CreatedBefore, InHand, Binds
      <4>2. ASSUME NEW other \in NodeClaims, BindStep(other), assigned[other] = m,
                   bindPC[other] = "rollback"
            PROVE  FALSE
        <5>1. other = nc
          BY <3>1, <3>3, <4>2, HolderOf DEF Binds, Kept
        <5>2. bindPC'[nc] = "done"
          BY <1>0, <4>2, <5>1, BindStepEffect
        <5>3. QED
          BY <2>2, <5>2
      <4>3. QED
        BY <1>0, <4>1, <4>2, LabelStays DEF Labelled
    <3>4. QED
      BY <3>1, <3>2, <3>3
  <2>3. QED
    BY <2>1, <2>2
<1>3. QED
  BY <1>1, <1>2

\* The second annotation of a Machine is not written.
LEMMA OwnerKept ==
  ASSUME Placed, [Next]_vars, NEW m \in Machines, Kept(m),
         NEW nc1 \in NodeClaims, NEW nc2 \in NodeClaims,
         annotation'[nc1] = m, annotation'[nc2] = m
  PROVE  nc1 = nc2
<1>0. annotation \in [NodeClaims -> Machines \union {NoMachine}]
  BY DEF Placed, Inv, TypeOK, ClusterTypeOK
<1>1. CASE UNCHANGED annotation
  BY <1>1 DEF Kept
<1>2. ASSUME NEW nc \in NodeClaims, bindPC[nc] = "patch",
             annotation' = [annotation EXCEPT ![nc] = assigned[nc]]
      PROVE  nc1 = nc2
  <2>1. CASE assigned[nc] = m
    <3>1. \A other \in NodeClaims : annotation[other] # m
      BY <1>2, <2>1 DEF Kept, InHand, Binds, Used
    <3>2. QED
      BY <1>0, <1>2, <3>1
  <2>2. CASE assigned[nc] # m
    BY <1>0, <1>2, <2>2 DEF Kept
  <2>3. QED
    BY <2>1, <2>2
<1>3. QED
  BY <1>1, <1>2, AnnotationWrites

LEMMA CustodyStep ==
  Placed /\ CreatedBefore /\ CustodyKept /\ [Next /\ Audit]_auditVars => CustodyKept'
<1> SUFFICES ASSUME Placed, CreatedBefore, CustodyKept, [Next /\ Audit]_auditVars,
                    NEW m \in Machines \ suspect'
             PROVE  Kept(m)'
  BY DEF CustodyKept, Kept
<1>1. [Next]_vars
  BY DEF auditVars
<1>2. m \notin suspect /\ ~Contested(m)' /\ ~Misread(m) /\ ~Disowned(m)
  BY Unsuspected
<1>3. m \in Machines /\ Kept(m)
  BY <1>2 DEF CustodyKept, Kept
<1>4. InHand(m)' => ~Used(m)' /\ ~machine'[m].marked
  BY <1>1, <1>2, <1>3, HandKept
<1>5. /\ Used(m)' => Labelled(m)'
      /\ \A nc \in NodeClaims :
           assigned'[nc] = m /\ bindPC'[nc] \in {"patch", "rollback"} => Labelled(m)'
  BY <1>1, <1>3, LabelKept
<1>6. \A nc1, nc2 \in NodeClaims : annotation'[nc1] = m /\ annotation'[nc2] = m => nc1 = nc2
  BY <1>1, <1>3, OwnerKept
<1>7. QED
  BY <1>2, <1>4, <1>5, <1>6 DEF Kept

LEMMA CustodyHolds == AuditedSpec => []CustodyKept
<1>1. Init /\ suspect = {} => CustodyKept
  <2> SUFFICES ASSUME Init, NEW m \in Machines PROVE Kept(m)
    BY DEF CustodyKept, Kept
  <2>1. ~InHand(m) /\ (Used(m) => Labelled(m))
    BY InitUse DEF Labelled
  <2>2. ~Contested(m)
    BY EmptySequence DEF Init, CreateInit, Contested, Holds, CreateInput
  <2>3. \A nc \in NodeClaims : bindPC[nc] \notin {"patch", "rollback"}
    BY DEF Init, CreateInit
  <2>4. ASSUME NEW nc1 \in NodeClaims, NEW nc2 \in NodeClaims,
               annotation[nc1] = m, annotation[nc2] = m
        PROVE  nc1 = nc2
    <3>1. InitialMachine[nc1] = m /\ InitialMachine[nc2] = m /\ m # NoMachine
      BY <2>4, ClusterAssumption DEF Init, ClusterInit, ClusterAssumption
    <3>2. QED
      BY <3>1, InitialAssumption DEF InitialAssumption, InitiallyBound
  <2>5. QED
    BY <2>1, <2>2, <2>3, <2>4 DEF Kept
<1>2. QED
  BY <1>1, CustodyStep, AuditedRefines, AllPlaced, CreatedHolds, PTL DEF AuditedSpec

\* A Machine goes to one NodeClaim unless two executions had hold of it, or it came out
\* of an outdated List, or a patch that took effect was reported as failed.  No other
\* order of batches, failure, retry, repeated Delete or restart leads to a second owner
\* (create.go:101-106, 211-232, 315-346).
THEOREM OneOwnerEach == AuditedSpec => []OneOwner
<1>1. Inv /\ CustodyKept => OneOwner
  <2> SUFFICES ASSUME Inv, CustodyKept, NEW nc1 \in NodeClaims, NEW nc2 \in NodeClaims,
                      annotation[nc1] = annotation[nc2],
                      annotation[nc1] \notin suspect \union {NoMachine}
               PROVE  nc1 = nc2
    BY DEF OneOwner
  <2>1. annotation[nc1] \in Machines \ suspect
    BY DEF Inv, TypeOK, ClusterTypeOK
  <2>2. QED
    BY <2>1 DEF CustodyKept
<1>2. QED
  BY <1>1, CustodyHolds, Invariance, AuditedRefines, PTL

\* Under the same conditions a NodeClaim's Machine keeps the label that hides it from
\* every poll for as long as it is there: the rollback of an overlapping batch never
\* takes it off (create.go:315, 335-346).
THEOREM OwnedLabelled == AuditedSpec => []OwnedKeepsLabel
<1>1. CustodyKept => OwnedKeepsLabel
  BY DEF CustodyKept, OwnedKeepsLabel, Owned, Used, Labelled
<1>2. QED
  BY <1>1, CustodyHolds, PTL

\* Under the same conditions a Machine whose deletion has been requested is not
\* claimed, however long ago the poll saw it without the mark (create.go:108-110,
\* delete.go:84-87).
THEOREM MarkedStayUnclaimed == AuditedSpec => MarkedNotClaimed
<1>1. Inv /\ CustodyKept =>
        \A nc \in NodeClaims :
          bindPC[nc] = "label" =>
            assigned[nc] \in suspect \/ ~machine[assigned[nc]].marked
  BY DEF Inv, BindingHasMachine, CustodyKept, InHand, Binds
<1>2. (\A nc \in NodeClaims :
         bindPC[nc] = "label" =>
           assigned[nc] \in suspect \/ ~machine[assigned[nc]].marked)
      => [\A nc \in NodeClaims :
            bindPC[nc] = "label" /\ bindPC'[nc] = "patch" =>
              assigned[nc] \in suspect \/ ~machine[assigned[nc]].marked]_auditVars
  OBVIOUS
<1>3. QED
  BY <1>1, <1>2, CustodyHolds, Invariance, AuditedRefines, PTL DEF MarkedNotClaimed

-----------------------------------------------------------------------------
(* What becomes of a Machine. *)

\* A delete request names a Machine in use, for a NodeClaim that was released.
LEMMA RequestedMachine ==
  ASSUME Inv, NEW m \in Machines, Kept(m), NEW nc \in NodeClaims,
         markPC[nc] # "idle", target[nc] = m
  PROVE  Released(m) /\ Labelled(m)
<1>1. claim[nc] = "deleting"
  BY DEF Inv, DeleteRequestsPlaced
<1>2. Released(m)
  BY <1>1 DEF Released, Wanted
<1>3. QED
  BY <1>2 DEF Kept, Used

\* The MachineSet controller takes an unmarked Machine only when no other is marked.
LEMMA ScaledDown ==
  ASSUME Inv, NEW m \in Machines, ScaleDown(m)
  PROVE  machine[m].marked \/ ~NoCollateralDeletion
<1>1. SUFFICES ASSUME \A other \in Live : ~machine[other].marked PROVE ~NoCollateralDeletion
  BY DEF ScaleDown
<1>2. {x \in Live : ~machine[x].marked} = Live
  BY <1>1
<1>3. Cardinality(Live) > md.replicas /\ Cardinality(Live) \in Nat /\ md.replicas \in Int
  BY MachinesFinite DEF ScaleDown, Live, Inv, TypeOK, ClusterTypeOK, MD
<1>4. Cardinality({x \in Live : ~machine[x].marked}) = Cardinality(Live)
  BY <1>2
<1>5. NoCollateralDeletion <=> Cardinality({x \in Live : ~machine[x].marked}) <= md.replicas
  BY DEF NoCollateralDeletion
<1>6. QED
  BY <1>3, <1>4, <1>5

LEMMA FateStep ==
  ASSUME Inv, [Next]_vars, NEW m \in Machines, Kept(m)
  PROVE  Fate(m)
<1> DEFINE old == StatusOf(machine[m])
           new == StatusOf(machine'[m])
<1>0. machine[m] \in Machine
  BY DEF Inv, TypeOK, ClusterTypeOK
<1>1. \/ new = old
      \/ old = "absent" /\ new = "free"
      \/ old = "free" /\ new = "taken"
      \/ old = "taken" /\ new = "free" /\ ~Owned(m)
      \/ old = "taken" /\ new = "condemned" /\ Released(m)
      \/ old \in {"free", "taken"} /\ new = "condemned" /\ ~NoCollateralDeletion
      \/ old = "condemned" /\ new \in {"taken", "gone"}
  <2>1. CASE machine'[m] = machine[m]
    BY <2>1
  <2>2. CASE machine[m].phase = "absent" /\ machine'[m] = Blank("live")
    BY <2>2 DEF Blank, StatusOf
  <2>3. CASE machine'[m] = [machine[m] EXCEPT !.provisioned = TRUE]
    BY <1>0, <2>3 DEF Machine, StatusOf
  <2>4. CASE /\ ScaleDown(m) /\ machine[m].phase = "live"
             /\ machine'[m] = [machine[m] EXCEPT !.phase = "deleting"]
    BY <1>0, <2>4, ScaledDown DEF Machine, StatusOf
  <2>5. CASE machine[m].phase = "deleting" /\ machine'[m] = Blank("gone")
    BY <2>5 DEF Blank, StatusOf
  <2>6. ASSUME NEW nc \in NodeClaims, assigned[nc] = m, bindPC[nc] \in {"label", "rollback"},
               NEW flag \in BOOLEAN, machine'[m] = [machine[m] EXCEPT !.member = flag]
        PROVE  \/ new = old
               \/ old = "free" /\ new = "taken"
               \/ old = "taken" /\ new = "free" /\ ~Owned(m)
    <3>1. ~Owned(m)
      BY <2>6 DEF Kept, InHand, Binds, Owned, Used
    <3>2. QED
      BY <1>0, <2>6, <3>1 DEF Machine, StatusOf
  <2>7. ASSUME NEW nc \in NodeClaims, markPC[nc] # "idle", target[nc] = m, NEW flag \in BOOLEAN,
               machine'[m] = [machine[m] EXCEPT !.marked = flag]
        PROVE  \/ new = old
               \/ old = "taken" /\ new = "condemned" /\ Released(m)
               \/ old = "condemned" /\ new = "taken"
    <3>1. Released(m) /\ Labelled(m)
      BY <2>7, RequestedMachine
    <3>2. /\ machine'[m].phase = machine[m].phase /\ machine'[m].member = machine[m].member
          /\ machine'[m].marked = flag
      BY <1>0, <2>7 DEF Machine
    <3>3. CASE machine[m].phase = "live"
      BY <1>0, <3>1, <3>2, <3>3 DEF StatusOf, Labelled
    <3>4. CASE machine[m].phase # "live"
      BY <1>0, <3>2, <3>4 DEF StatusOf, Machine, Phases
    <3>5. QED
      BY <3>3, <3>4
  <2>8. ASSUME NEW nc \in NodeClaims, AnnotateStep(nc) PROVE markPC[nc] # "idle"
    BY <2>8 DEF AnnotateStep, Annotate
  <2>9. ASSUME NEW b \in DeleteBatches, NEW nc \in NodeClaims, RollbackMark(b, nc)
        PROVE  markPC[nc] # "idle"
    BY <2>9 DEF RollbackMark, Annotated
  <2>10. \/ machine'[m] = machine[m]
         \/ machine[m].phase = "absent" /\ machine'[m] = Blank("live")
         \/ machine'[m] = [machine[m] EXCEPT !.provisioned = TRUE]
         \/ /\ ScaleDown(m) /\ machine[m].phase = "live"
            /\ machine'[m] = [machine[m] EXCEPT !.phase = "deleting"]
         \/ machine[m].phase = "deleting" /\ machine'[m] = Blank("gone")
         \/ \E nc \in NodeClaims :
              /\ assigned[nc] = m
              /\ \/ bindPC[nc] = "label" /\ machine'[m] = [machine[m] EXCEPT !.member = TRUE]
                 \/ bindPC[nc] = "rollback" /\ machine'[m] = [machine[m] EXCEPT !.member = FALSE]
         \/ \E nc \in NodeClaims :
              /\ AnnotateStep(nc) /\ target[nc] = m
              /\ machine'[m] = [machine[m] EXCEPT !.marked = TRUE]
         \/ \E b \in DeleteBatches : \E nc \in NodeClaims :
              /\ RollbackMark(b, nc) /\ target[nc] = m
              /\ machine'[m] = [machine[m] EXCEPT !.marked = FALSE]
    BY MachineWrites
  <2> HIDE DEF old, new
  <2>11. QED
    BY <2>1, <2>2, <2>3, <2>4, <2>5, <2>6, <2>7, <2>8, <2>9, <2>10
<1>2. QED
  BY <1>1 DEF Fate

\* Under the same conditions a Machine goes from pool to pool in MachinePool's order:
\* it is given back only while it is nobody's, and only a NodeClaim that was released
\* has it marked (create.go:335-346, delete.go:64-87, 183-201).  The MachineSet
\* controller takes another only when those nobody asked to delete do not fit.
THEOREM FatesFollow == AuditedSpec => FateFollowsPool
<1>1. Inv /\ CustodyKept /\ [Next /\ Audit]_auditVars
        => [\A m \in Machines \ suspect' : Fate(m)]_auditVars
  <2> SUFFICES ASSUME Inv, CustodyKept, [Next /\ Audit]_auditVars, NEW m \in Machines \ suspect'
               PROVE  Fate(m)
    OBVIOUS
  <2>1. [Next]_vars
    BY DEF auditVars
  <2>2. Kept(m)
    BY Unsuspected DEF CustodyKept, Kept
  <2>3. QED
    BY <2>1, <2>2, FateStep
<1>2. QED
  BY <1>1, CustodyHolds, Invariance, AuditedRefines, PTL DEF AuditedSpec, FateFollowsPool

-----------------------------------------------------------------------------
(* How many Machines the MachineSet controller takes that nobody asked for. *)

\* Machines come alive and go one at a time, and nothing else changes with them.
LEMMA LiveWrites ==
  ASSUME Inv, [Next]_vars
  PROVE  \/ Live' = Live /\ Existing' = Existing
         \/ \E m \in Machines :
              /\ CreateMachine(m) /\ UNCHANGED <<md, taken>>
              /\ Live' = Live \union {m} /\ Existing' = Existing \union {m}
         \/ \E m \in Machines :
              /\ ScaleDown(m) /\ UNCHANGED <<md, taken>>
              /\ Live' = Live \ {m} /\ Existing' = Existing
<1>0. machine \in [Machines -> Machine]
  BY DEF Inv, TypeOK, ClusterTypeOK
<1>1. ASSUME NEW m \in Machines, CreateMachine(m) \/ ScaleDown(m)
      PROVE  UNCHANGED <<md, taken>>
  <2>1. machine' # machine
    BY <1>0, <1>1 DEF CreateMachine, ScaleDown, Blank, Machine
  <2>2. \A b \in CreateBatches : ~Incremented(b)
    BY <2>1 DEF Incremented, Increment
  <2>3. \A b \in DeleteBatches : ~Decremented(b)
    BY <2>1 DEF Decremented, Decrement
  <2>4. QED
    BY <2>2, <2>3, ReplicaWrites
<1>2. ASSUME NEW m \in Machines, CreateMachine(m)
      PROVE  Live' = Live \union {m} /\ Existing' = Existing \union {m}
  BY <1>0, <1>2 DEF CreateMachine, Live, Existing, Blank
<1>3. ASSUME NEW m \in Machines, ScaleDown(m)
      PROVE  Live' = Live \ {m} /\ Existing' = Existing
  BY <1>0, <1>3 DEF ScaleDown, Live, Existing, Machine
<1>4. ASSUME NEW m \in Machines, ~CreateMachine(m), ~ScaleDown(m)
      PROVE  /\ machine'[m].phase = "live" <=> machine[m].phase = "live"
             /\ machine'[m].phase = "absent" <=> machine[m].phase = "absent"
  <2>1. machine[m] \in Machine
    BY <1>0
  <2>2. \/ machine'[m] = machine[m]
        \/ machine'[m] = [machine[m] EXCEPT !.provisioned = TRUE]
        \/ machine[m].phase = "deleting" /\ machine'[m] = Blank("gone")
        \/ \E flag \in BOOLEAN : \/ machine'[m] = [machine[m] EXCEPT !.member = flag]
                                 \/ machine'[m] = [machine[m] EXCEPT !.marked = flag]
    BY <1>4, MachineWrites
  <2>3. ASSUME NEW flag \in BOOLEAN,
               \/ machine'[m] = [machine[m] EXCEPT !.member = flag]
               \/ machine'[m] = [machine[m] EXCEPT !.marked = flag]
        PROVE  machine'[m].phase = machine[m].phase
    BY <2>1, <2>3 DEF Machine
  <2>4. CASE machine'[m] = [machine[m] EXCEPT !.provisioned = TRUE]
    BY <2>1, <2>4 DEF Machine
  <2>5. CASE machine[m].phase = "deleting" /\ machine'[m] = Blank("gone")
    BY <2>5 DEF Blank
  <2>6. QED
    BY <2>2, <2>3, <2>4, <2>5
<1>5. CASE \A m \in Machines : ~CreateMachine(m) /\ ~ScaleDown(m)
  BY <1>4, <1>5 DEF Live, Existing
<1>6. QED
  BY <1>1, <1>2, <1>3, <1>5

LEMMA Counting ==
  ASSUME Inv
  PROVE  /\ Live \subseteq Existing
         /\ IsFiniteSet(Live) /\ IsFiniteSet(Existing) /\ IsFiniteSet(Existing \ Live)
         /\ Cardinality(Live) \in Nat /\ Cardinality(Existing) \in Nat
         /\ Cardinality(Existing \ Live) = Cardinality(Existing) - Cardinality(Live)
<1>1. Live \subseteq Existing /\ Existing \subseteq Machines
  BY DEF Live, Existing
<1>2. /\ IsFiniteSet(Live) /\ IsFiniteSet(Existing) /\ IsFiniteSet(Existing \ Live)
      /\ Cardinality(Live) \in Nat /\ Cardinality(Existing) \in Nat
  BY <1>1, MachinesFinite
<1>3. Cardinality(Existing \ Live) = Cardinality(Existing) - Cardinality(Existing \intersect Live)
  BY <1>2, FS_Difference
<1>4. Existing \intersect Live = Live
  BY <1>1
<1>5. QED
  BY <1>1, <1>2, <1>3, <1>4

\* What the increments and decrements have to do with it.
LEMMA ReplicasOrTaken ==
  ASSUME Inv, Inv', [Next]_vars
  PROVE  md'.replicas + taken' >= md.replicas + taken /\ taken' >= taken
<1>0. /\ md \in MD /\ md' \in MD /\ md.replicas \in Nat /\ taken \in Nat /\ taken' \in Nat
      /\ deficit \in [CreateBatches -> Nat]
  BY DEF Inv, TypeOK, ClusterTypeOK, CreateTypeOK, MD
<1>1. CASE UNCHANGED <<md, granted, taken>>
  BY <1>0, <1>1 DEF MD
<1>2. ASSUME NEW b \in CreateBatches, Incremented(b)
      PROVE  md'.replicas + taken' >= md.replicas + taken /\ taken' >= taken
  <2>1. mdCopy[b] = md
    BY <1>2 DEF Incremented, Increment, UpdateMD, Inv, CopiesCurrent, Executors
  <2>2. md'.replicas = md.replicas + deficit[b] /\ taken' = taken
    BY <1>2, <2>1 DEF Incremented, Increment, UpdateMD
  <2>3. QED
    BY <1>0, <2>2
<1>3. ASSUME NEW b \in DeleteBatches, Decremented(b)
      PROVE  md'.replicas + taken' >= md.replicas + taken /\ taken' >= taken
  <2>1. mdCopy[b] = md
    BY <1>3 DEF Decremented, Decrement, UpdateMD, Inv, CopiesCurrent, Executors
  <2>2. Cardinality(Annotated(b)) \in Nat
    BY NodeClaimsFinite DEF Annotated, Inv, TypeOK, DeleteTypeOK
  <2>3. PICK new : /\ new = Lowered(md.replicas, Cardinality(Annotated(b)))
                   /\ md'.replicas = new /\ taken' = taken + (md.replicas - new)
    BY <1>3, <2>1 DEF Decremented, Decrement, UpdateMD
  <2>4. new \in Nat /\ new <= md.replicas
    BY <1>0, <2>2, <2>3 DEF Lowered
  <2>5. QED
    BY <1>0, <2>3, <2>4
<1>4. QED
  BY <1>1, <1>2, <1>3, ReplicaWrites

LEMMA FitStep == Inv /\ Inv' /\ MachinesFit /\ [Next]_vars => MachinesFit'
<1> SUFFICES ASSUME Inv, Inv', MachinesFit, [Next]_vars PROVE MachinesFit'
  OBVIOUS
<1> DEFINE e == Cardinality(Existing)
           l == Cardinality(Live)
           d == Cardinality(Existing \ Live)
           r == md.replicas
           rr == md'.replicas
           tt == taken'
<1>0. /\ e \in Nat /\ l \in Nat /\ d = e - l /\ r \in Int /\ rr \in Int
      /\ taken \in Nat /\ tt \in Nat
      /\ e <= r + taken /\ d <= taken
  BY Counting DEF Inv, TypeOK, ClusterTypeOK, MD, MachinesFit
<1>1. rr + tt >= r + taken /\ tt >= taken
  BY ReplicasOrTaken
<1>2. SUFFICES ASSUME NEW E, NEW D, E = Existing', D = Existing' \ Live'
               PROVE  Cardinality(E) <= rr + tt /\ Cardinality(D) <= tt
  BY DEF MachinesFit
<1>3. CASE Live' = Live /\ Existing' = Existing
  <2>1. Cardinality(E) = e /\ Cardinality(D) = d
    BY <1>2, <1>3
  <2> HIDE DEF e, l, d, r, rr, tt
  <2>2. QED
    BY <1>0, <1>1, <2>1
<1>4. ASSUME NEW m \in Machines, CreateMachine(m), UNCHANGED <<md, taken>>,
             Live' = Live \union {m}, Existing' = Existing \union {m}
      PROVE  Cardinality(E) <= rr + tt /\ Cardinality(D) <= tt
  <2>1. m \notin Existing /\ l < r
    BY <1>4 DEF CreateMachine, Existing
  <2>2. Cardinality(Existing \union {m}) = e + 1
    BY <2>1, Counting, FS_AddElement
  <2>3. D = Existing \ Live
    BY <1>2, <1>4, <2>1, Counting
  <2>4. Cardinality(E) = e + 1 /\ Cardinality(D) = d /\ rr = r /\ tt = taken
    BY <1>2, <1>4, <2>2, <2>3
  <2> HIDE DEF e, l, d, r, rr, tt
  <2>5. QED
    BY <1>0, <2>1, <2>4
<1>5. ASSUME NEW m \in Machines, ScaleDown(m), UNCHANGED <<md, taken>>,
             Live' = Live \ {m}, Existing' = Existing
      PROVE  Cardinality(E) <= rr + tt /\ Cardinality(D) <= tt
  <2>1. m \in Live /\ l > r
    BY <1>5 DEF ScaleDown, Live
  <2>2. D = (Existing \ Live) \union {m} /\ m \notin Existing \ Live
    BY <1>2, <1>5, <2>1, Counting
  <2>3. Cardinality((Existing \ Live) \union {m}) = d + 1
    BY <2>2, Counting, FS_AddElement
  <2>4. Cardinality(E) = e /\ Cardinality(D) = d + 1 /\ rr = r /\ tt = taken
    BY <1>2, <1>5, <2>2, <2>3
  <2> HIDE DEF e, l, d, r, rr, tt
  <2>5. QED
    BY <1>0, <2>1, <2>4
<1>6. QED
  BY <1>3, <1>4, <1>5, LiveWrites

\* At the start the Machines are those of the NodeClaims that are bound.
LEMMA InitFit == Init => MachinesFit
<1> SUFFICES ASSUME Init PROVE MachinesFit
  OBVIOUS
<1>1. \A m \in Machines :
        machine[m].phase # "absent" =>
          m \in Live /\ \E nc \in InitiallyBound : InitialMachine[nc] = m
  <2> SUFFICES ASSUME NEW m \in Machines
               PROVE  machine[m].phase # "absent" =>
                        m \in Live /\ \E nc \in InitiallyBound : InitialMachine[nc] = m
    OBVIOUS
  <2>1. CASE \E nc \in InitiallyBound : InitialMachine[nc] = m
    <3>1. machine[m] = [Blank("live") EXCEPT !.provisioned = TRUE, !.member = TRUE]
      BY <2>1 DEF Init, ClusterInit
    <3>2. QED
      BY <2>1, <3>1 DEF Blank, Live
  <2>2. CASE ~\E nc \in InitiallyBound : InitialMachine[nc] = m
    BY <2>2 DEF Init, ClusterInit, Blank
  <2>3. QED
    BY <2>1, <2>2
<1>2. Existing \ Live = {}
  BY <1>1 DEF Existing
<1>3. Cardinality(Existing \ Live) = 0
  BY <1>2, FS_EmptySet
<1>4. Cardinality(Existing) <= md.replicas
  <2> DEFINE f == [m \in Existing |-> CHOOSE nc \in InitiallyBound : InitialMachine[nc] = m]
  <2>1. \A m \in Existing : f[m] \in InitiallyBound /\ InitialMachine[f[m]] = m
    BY <1>1 DEF Existing
  <2>2. f \in Injection(Existing, InitiallyBound)
    <3>1. f \in [Existing -> InitiallyBound]
      BY <2>1
    <3>2. \A x, y \in Existing : f[x] = f[y] => x = y
      BY <2>1
    <3>3. QED
      BY <3>1, <3>2 DEF Injection, IsInjective
  <2>3. IsFiniteSet(InitiallyBound)
    BY NodeClaimsFinite DEF InitiallyBound
  <2> HIDE DEF f
  <2>4. QED
    BY <2>2, <2>3, FS_Injection DEF Init, ClusterInit
<1>5. taken = 0 /\ md.replicas \in Nat /\ Cardinality(Existing) \in Nat
  BY NodeClaimsFinite, MachinesFinite DEF Init, ClusterInit, InitiallyBound, Existing
<1>6. QED
  BY <1>3, <1>4, <1>5 DEF MachinesFit

\* However many Machines the MachineSet controller takes that nobody asked to delete,
\* they are accounted for: by replicas that were taken for no newly marked Machine, and
\* by paid Machines whose mark was taken off.  Nothing else, in any order of batches,
\* failures, repeated Deletes and restarts, makes it take one (delete.go:127-201).
THEOREM CollateralAccounted == Spec => []CollateralBounded
<1>1. Spec => []MachinesFit
  BY InitFit, FitStep, Invariance, PTL DEF Spec
<1>2. ASSUME Inv, CreatedBefore, MachinesFit PROVE CollateralBounded
  <2> DEFINE unasked == {m \in Live : ~machine[m].marked}
  <2>1. unasked \union paid \subseteq Existing /\ Existing \subseteq Machines
    BY <1>2 DEF Inv, TypeOK, DeleteTypeOK, CreatedBefore, Existing, Live
  <2>2. /\ IsFiniteSet(unasked) /\ IsFiniteSet(paid) /\ IsFiniteSet(Existing)
        /\ Cardinality(unasked) \in Nat /\ Cardinality(paid) \in Nat
        /\ Cardinality(unasked \intersect paid) \in Nat /\ Cardinality(Existing) \in Nat
        /\ Cardinality(unasked \union paid) \in Nat
    BY <2>1, MachinesFinite
  <2>3. Cardinality(unasked \union paid) =
          Cardinality(unasked) + Cardinality(paid) - Cardinality(unasked \intersect paid)
    BY <2>2, FS_Union
  <2>4. Cardinality(unasked \union paid) <= Cardinality(Existing)
    BY <2>1, <2>2, FS_Subset
  <2>5. Cardinality(Existing) <= md.replicas + taken /\ md.replicas \in Int /\ taken \in Nat
    BY <1>2 DEF MachinesFit, Inv, TypeOK, ClusterTypeOK, MD
  <2>6. CollateralBounded <=>
          Cardinality(unasked) <=
            md.replicas + (taken - Cardinality(paid)) + Cardinality(unasked \intersect paid)
    BY DEF CollateralBounded
  <2> HIDE DEF unasked
  <2>7. QED
    BY <2>2, <2>3, <2>4, <2>5, <2>6
<1>3. QED
  BY <1>1, <1>2, CreatedHolds, Invariance, PTL
================================================================================
