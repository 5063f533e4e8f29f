----------------------------- MODULE BindingProofs -----------------------------
(***************************************************************************)
(* That a NodeClaim keeps the Machine it is given, that every label and    *)
(* every mark is accounted for, and that a NodeClaim is let go only when   *)
(* its Machine is gone, for any number of NodeClaims, Machines and batches.*)
(***************************************************************************)
EXTENDS CreateRequestProofs

\* What a step of a create batch does to one of the NodeClaims.
LEMMA CreateStepEffect ==
  ASSUME Inv, CreateRequestsPlaced, NEW b \in CreateBatches, CreateStep(b),
         NEW nc \in NodeClaims
  PROVE  /\ Waiting(nc)' => Waiting(nc)
         /\ \/ /\ bindPC'[nc] = bindPC[nc] /\ outcome'[nc] = outcome[nc]
               /\ assigned'[nc] = assigned[nc]
            \/ /\ Waiting(nc)
               /\ bindPC'[nc] = "label" /\ outcome'[nc] = "none" /\ assigned'[nc] \in Machines
            \/ /\ Waiting(nc)
               /\ bindPC'[nc] \in {"idle", "done"} /\ outcome'[nc] = "failed"
            \/ /\ bindPC[nc] = "done" /\ bindPC'[nc] = "idle"
               /\ outcome'[nc] = outcome[nc] /\ assigned'[nc] = assigned[nc]
<1>1. CASE CreateStart(b)
  <2>1. /\ createPC[b] = "idle"
        /\ createInputs'[b] = createQueue /\ createQueue' = <<>>
        /\ \A c \in CreateBatches \ {b} :
             createPC'[c] = createPC[c] /\ createInputs'[c] = createInputs[c]
        /\ UNCHANGED <<bindPC, outcome, assigned>>
    BY <1>1 DEF CreateStart, bindVars, Inv, TypeOK, CreateTypeOK
  <2>2. QED
    BY <2>1, EmptySequence DEF Waiting, CreateInput
<1>2. CASE Aborts(b)
  <2>1. /\ createPC[b] # "bind" /\ createInputs'[b] = <<>> /\ UNCHANGED createQueue
        /\ \A c \in CreateBatches \ {b} :
             createPC'[c] = createPC[c] /\ createInputs'[c] = createInputs[c]
        /\ UNCHANGED <<bindPC, assigned>>
        /\ outcome'[nc] = IF nc \in CreateInput(b) THEN "failed" ELSE outcome[nc]
    BY <1>2 DEF Aborts, CreateAbort, Inv, TypeOK, CreateTypeOK
  <2>2. Waiting(nc)' => Waiting(nc)
    BY <2>1, EmptySequence DEF Waiting, CreateInput
  <2>3. nc \in CreateInput(b) => Waiting(nc) /\ bindPC[nc] = "idle"
    BY <2>1 DEF Waiting, CreateRequestsPlaced, Unbound
  <2>4. QED
    BY <2>1, <2>2, <2>3
<1>3. CASE Advances(b)
  <2>1. /\ UNCHANGED <<createQueue, createInputs, bindPC, outcome, assigned>>
        /\ createPC[b] # "bind"
        /\ \A c \in CreateBatches \ {b} : createPC'[c] = createPC[c]
    BY <1>3 DEF Advances, bindVars, Inv, TypeOK, CreateTypeOK
  <2>2. QED
    BY <2>1 DEF Waiting, CreateInput
<1>4. CASE Polls(b)
  <2>1. PICK machines \in Seq(Machines) :
          /\ Len(machines) <= Len(createInputs[b]) /\ IsInjective(machines)
          /\ StartBinding(b, machines) \/ UNCHANGED <<createPC, bindVars>>
    BY <1>4 DEF Polls
  <2>2. /\ UNCHANGED <<createQueue, createInputs>> /\ createPC[b] # "bind"
        /\ \A c \in CreateBatches \ {b} : createPC'[c] = createPC[c]
    BY <1>4, <2>1 DEF Polls, StartBinding, Inv, TypeOK, CreateTypeOK
  <2>3. Waiting(nc)' => Waiting(nc)
    BY <2>2 DEF Waiting, CreateInput
  <2>4. CASE UNCHANGED <<createPC, bindVars>>
    BY <2>3, <2>4 DEF bindVars
  <2>5. CASE StartBinding(b, machines)
    <3>1. PICK Paired \in SUBSET CreateInput(b) :
            IF nc \in Paired
            THEN bindPC'[nc] = "label" /\ assigned'[nc] \in Machines
                 /\ outcome'[nc] = outcome[nc]
            ELSE IF nc \in CreateInput(b)
            THEN bindPC'[nc] = "done" /\ assigned'[nc] = assigned[nc]
                 /\ outcome'[nc] = "failed"
            ELSE bindPC'[nc] = bindPC[nc] /\ assigned'[nc] = assigned[nc]
                 /\ outcome'[nc] = outcome[nc]
      BY <2>1, <2>5, Pairing
    <3>2. nc \in CreateInput(b) => Waiting(nc) /\ outcome[nc] = "none"
      BY <2>2 DEF Waiting, CreateRequestsPlaced, Unbound
    <3>3. QED
      BY <2>3, <3>1, <3>2
  <2>6. QED
    BY <2>1, <2>4, <2>5
<1>5. CASE CreateFinish(b)
  <2>1. /\ createInputs'[b] = <<>>
        /\ \A c \in CreateBatches \ {b} :
             createPC'[c] = createPC[c] /\ createInputs'[c] = createInputs[c]
        /\ bindPC'[nc] = IF nc \in CreateInput(b) THEN "idle" ELSE bindPC[nc]
        /\ nc \in CreateInput(b) => bindPC[nc] = "done"
        /\ UNCHANGED <<createQueue, assigned, outcome>>
    BY <1>5 DEF CreateFinish, Inv, TypeOK, CreateTypeOK
  <2>2. Waiting(nc)' => Waiting(nc)
    BY <2>1, EmptySequence DEF Waiting, CreateInput
  <2>3. QED
    BY <2>1, <2>2
<1>6. QED
  BY <1>1, <1>2, <1>3, <1>4, <1>5, CreateStepKinds

\* What a goroutine that binds one NodeClaim does to the bindings.
LEMMA BindStepEffect ==
  ASSUME Inv, NEW nc \in NodeClaims, BindStep(nc)
  PROVE  /\ UNCHANGED <<createQueue, createPC, createInputs, assigned, claim, providerID>>
         /\ assigned[nc] \in Machines
         /\ \A other \in NodeClaims \ {nc} :
              bindPC'[other] = bindPC[other] /\ outcome'[other] = outcome[other]
         /\ \/ bindPC[nc] = "label" /\ bindPC'[nc] = "label" /\ outcome'[nc] = outcome[nc]
            \/ bindPC[nc] = "label" /\ bindPC'[nc] = "done" /\ outcome'[nc] = "failed"
            \/ /\ bindPC[nc] = "label" /\ bindPC'[nc] = "patch"
               /\ SetLabel(assigned[nc])
               /\ outcome'[nc] =
                    IF MachineView[assigned[nc]].provisioned THEN "launched" ELSE "waiting"
            \/ /\ bindPC[nc] = "patch" /\ bindPC'[nc] = "done" /\ outcome'[nc] = outcome[nc]
               /\ annotation' = [annotation EXCEPT ![nc] = assigned[nc]]
            \/ bindPC[nc] = "patch" /\ bindPC'[nc] = "rollback" /\ outcome'[nc] = outcome[nc]
            \/ bindPC[nc] = "rollback" /\ bindPC'[nc] = "done" /\ outcome'[nc] = "failed"
<1>1. /\ UNCHANGED <<createQueue, createPC, createInputs, assigned, claim, providerID>>
      /\ bindPC[nc] \in {"label", "patch", "rollback"}
  BY DEF BindStep, Bind, BindLabel, BindPatch, BindRollback, callerVars
<1>2. assigned[nc] \in Machines
  BY <1>1 DEF Inv, BindingHasMachine
<1>3. \A other \in NodeClaims \ {nc} :
        bindPC'[other] = bindPC[other] /\ outcome'[other] = outcome[other]
  BY DEF BindStep, Bind, BindLabel, LabelAgain, BindFails, BindPatch, BindRollback, Inv, TypeOK,
         CreateTypeOK
<1>4. CASE BindLabel(nc)
  BY <1>1, <1>2, <1>3, <1>4 DEF BindLabel, LabelAgain, BindFails, Inv, TypeOK, CreateTypeOK
<1>5. CASE BindPatch(nc)
  BY <1>1, <1>2, <1>3, <1>5 DEF BindPatch, Inv, TypeOK, CreateTypeOK
<1>6. CASE BindRollback(nc)
  BY <1>1, <1>2, <1>3, <1>6 DEF BindRollback, BindFails, Inv, TypeOK, CreateTypeOK
<1>7. QED
  BY <1>4, <1>5, <1>6 DEF BindStep, Bind

\* Only the merge patch of a binding writes an annotation.
LEMMA AnnotationWrites ==
  ASSUME [Next]_vars
  PROVE  \/ UNCHANGED annotation
         \/ \E nc \in NodeClaims :
              /\ BindStep(nc) /\ bindPC[nc] = "patch"
              /\ annotation' = [annotation EXCEPT ![nc] = assigned[nc]]
<1>1. CASE UNCHANGED vars \/ EnvironmentStep \/ Restart
  BY <1>1 DEF vars, clusterVars, EnvironmentStep, Environment, CreateMachine, ProvisionMachine,
              ScaleDown, RemoveMachine, SyncMD, SyncMachines, SyncAnnotations, Restart
<1>2. ASSUME NEW b \in CreateBatches, CreateStep(b) PROVE UNCHANGED annotation
  BY <1>2 DEF CreateStep, CreateExecutor, CreateStart, CreateLock, CreateGet, CreateCount,
              CreateUpdate, Increment, Poll, PollTimeout, CreateFinish, clusterVars
<1>3. ASSUME NEW b \in DeleteBatches, DeleteStep(b) PROVE UNCHANGED annotation
  BY <1>3 DEF DeleteStep, DeleteExecutor, DeleteStart, DeleteJoin, DeleteLock, DeleteGet,
              DeleteUpdate, Decrement, DeleteFinish, RollbackMark, clusterVars
<1>4. ASSUME NEW nc \in NodeClaims, AnnotateStep(nc) \/ Caller(nc) PROVE UNCHANGED annotation
  BY <1>4 DEF AnnotateStep, Annotate, Caller, CreateExisting, CreateAdd, CreateReturn, Terminate,
              DeleteFind, DeleteNotFound, DeleteAdd, DeleteReturn, clusterVars
<1>5. ASSUME NEW nc \in NodeClaims, BindStep(nc)
      PROVE  \/ UNCHANGED annotation
             \/ /\ bindPC[nc] = "patch"
                /\ annotation' = [annotation EXCEPT ![nc] = assigned[nc]]
  BY <1>5 DEF BindStep, Bind, BindLabel, BindPatch, BindRollback
<1>6. QED
  BY <1>1, <1>2, <1>3, <1>4, <1>5 DEF Next

-----------------------------------------------------------------------------
(* With current reads, a NodeClaim keeps the Machine it is given. *)

\* What AnnotationFollowsBinding says of one NodeClaim.
Follows(nc) ==
  /\ Waiting(nc) \/ bindPC[nc] \in {"label", "patch"} => annotation[nc] = NoMachine
  /\ bindPC[nc] \in {"idle", "done"} /\ outcome[nc] \in {"launched", "waiting"} =>
       annotation[nc] = assigned[nc]

LEMMA FollowsStep ==
  ASSUME ~CacheLag, Inv, CreateRequestsPlaced, AnnotationFollowsBinding, [Next]_vars
  PROVE  AnnotationFollowsBinding'
<1> SUFFICES ASSUME NEW nc \in NodeClaims PROVE Follows(nc)'
  BY DEF AnnotationFollowsBinding, Follows
<1>1. Follows(nc) /\ AnnotationView = annotation
  BY DEF AnnotationFollowsBinding, Follows, AnnotationView
<1>2. CASE UNCHANGED annotation
  <2>1. ASSUME Waiting(nc)' => Waiting(nc), bindPC'[nc] = bindPC[nc],
               outcome'[nc] = outcome[nc], assigned'[nc] = assigned[nc]
        PROVE  Follows(nc)'
    BY <1>1, <1>2, <2>1 DEF Follows
  <2>2. ASSUME NEW b \in CreateBatches, CreateStep(b) PROVE Follows(nc)'
    BY <1>1, <1>2, <2>2, CreateStepEffect DEF Follows
  <2>3. ASSUME NEW other \in NodeClaims, BindStep(other) PROVE Follows(nc)'
    <3>1. Waiting(nc)' <=> Waiting(nc)
      BY <2>3, BindStepEffect DEF Waiting, CreateInput
    <3>2. CASE nc # other
      BY <2>1, <2>3, <3>1, <3>2, BindStepEffect
    <3>3. CASE nc = other
      <4>1. /\ UNCHANGED assigned /\ assigned[nc] \in Machines
            /\ \/ bindPC[nc] = "label" /\ bindPC'[nc] \in {"label", "patch"}
               \/ bindPC'[nc] = "done" /\ outcome'[nc] = "failed"
               \/ bindPC'[nc] = "rollback"
               \/ annotation' = [annotation EXCEPT ![nc] = assigned[nc]]
        BY <2>3, <3>3, BindStepEffect
      <4>2. ~Waiting(nc)
        BY <2>3, <3>3 DEF BindStep, Bind, BindLabel, BindPatch, BindRollback,
                          CreateRequestsPlaced, Unbound
      <4>3. annotation' = [annotation EXCEPT ![nc] = assigned[nc]] => annotation[nc] = assigned[nc]
        BY <1>2 DEF Inv, TypeOK, ClusterTypeOK
      <4>4. bindPC'[nc] = "patch" \/ bindPC'[nc] = "label" => bindPC[nc] \in {"label", "patch"}
        BY <2>3, <3>3, BindStepEffect
      <4>5. QED
        BY <1>1, <1>2, <3>1, <4>1, <4>2, <4>3, <4>4 DEF Follows
    <3>4. QED
      BY <3>2, <3>3
  <2>4. ASSUME NEW other \in NodeClaims, CreateAdd(other) PROVE Follows(nc)'
    <3>1. /\ UNCHANGED <<createPC, createInputs, bindPC, outcome, assigned>>
          /\ createQueue' = Append(createQueue, other)
          /\ annotation[other] = NoMachine
      BY <1>1, <2>4 DEF CreateAdd, NeedsMachine, bindVars
    <3>2. Range(createQueue)' = Range(createQueue) \union {other}
      BY <3>1, RangeOfAppended DEF Inv, TypeOK, CreateTypeOK
    <3>3. Waiting(nc)' => Waiting(nc) \/ nc = other
      BY <3>1, <3>2 DEF Waiting, CreateInput
    <3>4. QED
      BY <1>1, <1>2, <3>1, <3>3 DEF Follows
  <2>5. ASSUME NEW other \in NodeClaims, CreateReturn(other) PROVE Follows(nc)'
    <3>1. /\ UNCHANGED <<createQueue, createPC, createInputs, bindPC>>
          /\ nc = other => outcome'[nc] = "none"
          /\ nc # other => outcome'[nc] = outcome[nc] /\ assigned'[nc] = assigned[nc]
      BY <2>5 DEF CreateReturn, Inv, TypeOK, CreateTypeOK
    <3>2. Waiting(nc)' <=> Waiting(nc)
      BY <3>1 DEF Waiting, CreateInput
    <3>3. QED
      BY <1>1, <1>2, <3>1, <3>2 DEF Follows
  <2>6. CASE Restart
    <3>1. ~Waiting(nc)' /\ bindPC'[nc] = "idle" /\ outcome'[nc] = "none"
      BY <2>6, EmptySequence DEF Restart, CreateLost, Waiting, CreateInput
    <3>2. QED
      BY <3>1 DEF Follows
  <2>7. CASE Rests
    <3>1. UNCHANGED <<createQueue, createPC, createInputs, bindPC, outcome, assigned>>
      BY <2>7 DEF Rests, createVars
    <3>2. Waiting(nc)' <=> Waiting(nc)
      BY <3>1 DEF Waiting, CreateInput
    <3>3. QED
      BY <2>1, <3>1, <3>2
  <2>8. QED
    BY <2>2, <2>3, <2>4, <2>5, <2>6, <2>7, OtherStepsRest DEF Next, Caller
<1>3. ASSUME NEW other \in NodeClaims, BindStep(other), bindPC[other] = "patch",
             annotation' = [annotation EXCEPT ![other] = assigned[other]]
      PROVE  Follows(nc)'
  <2>1. /\ UNCHANGED <<createQueue, createPC, createInputs, assigned>>
        /\ nc # other => bindPC'[nc] = bindPC[nc] /\ outcome'[nc] = outcome[nc]
        /\ nc = other => bindPC'[nc] \in {"done", "rollback"}
    BY <1>3, BindStepEffect
  <2>2. Waiting(nc)' <=> Waiting(nc)
    BY <2>1 DEF Waiting, CreateInput
  <2>3. ~Waiting(other)
    BY <1>3 DEF CreateRequestsPlaced, Unbound
  <2>4. /\ nc # other => annotation'[nc] = annotation[nc]
        /\ nc = other => annotation'[nc] = assigned[nc]
    BY <1>3 DEF Inv, TypeOK, ClusterTypeOK
  <2>5. QED
    BY <1>1, <2>1, <2>2, <2>3, <2>4 DEF Follows
<1>4. QED
  BY <1>2, <1>3, AnnotationWrites

LEMMA AnnotationsFollow == ~CacheLag => (Spec => []AnnotationFollowsBinding)
<1>1. Init => AnnotationFollowsBinding
  BY EmptySequence DEF Init, CreateInit, AnnotationFollowsBinding, Waiting, CreateInput
<1> SUFFICES ASSUME ~CacheLag PROVE Spec => []AnnotationFollowsBinding
  OBVIOUS
<1>2. Inv /\ CreateRequestsPlaced /\ AnnotationFollowsBinding /\ [Next]_vars
        => AnnotationFollowsBinding'
  BY FollowsStep
<1>3. QED
  BY <1>1, <1>2, Invariance, RequestsPlaced, PTL DEF Spec

LEMMA AnnotationStep ==
  ASSUME Inv, AnnotationFollowsBinding, [Next]_vars, NEW nc \in NodeClaims,
         annotation[nc] # NoMachine
  PROVE  annotation'[nc] = annotation[nc]
BY AnnotationWrites DEF AnnotationFollowsBinding, Inv, TypeOK, ClusterTypeOK

\* With current reads, a NodeClaim that has been given a Machine keeps it, through
\* retries, lost replies and restarts (cloudprovider.go:91-95).
THEOREM AnnotationsKept == ~CacheLag => (Spec => AnnotationStable)
<1> SUFFICES ASSUME ~CacheLag PROVE Spec => AnnotationStable
  OBVIOUS
<1>1. Inv /\ AnnotationFollowsBinding /\ [Next]_vars =>
        [\A nc \in NodeClaims : annotation[nc] # NoMachine => annotation'[nc] = annotation[nc]]_vars
  BY AnnotationStep
<1>2. QED
  BY <1>1, Invariance, AnnotationsFollow, PTL DEF Spec, AnnotationStable

-----------------------------------------------------------------------------
(* The providerID of a launched NodeClaim is its annotated Machine's. *)

\* Which steps change where a NodeClaim is, or its providerID.
LEMMA CallerWrites ==
  ASSUME Inv, [Next]_vars, NEW nc \in NodeClaims
  PROVE  \/ claim'[nc] = claim[nc] /\ providerID'[nc] = providerID[nc]
         \/ CreateExisting(nc)
         \/ CreateReturn(nc)
         \/ /\ DeleteNotFound(nc)
            /\ claim'[nc] = "finished" /\ providerID'[nc] = providerID[nc]
         \/ claim'[nc] \notin {"launched", "finished"} /\ providerID'[nc] = providerID[nc]
<1>1. CASE \/ UNCHANGED vars \/ EnvironmentStep
           \/ \E b \in CreateBatches : CreateStep(b)
           \/ \E b \in DeleteBatches : DeleteStep(b)
           \/ \E other \in NodeClaims : BindStep(other) \/ AnnotateStep(other)
  BY <1>1 DEF vars, EnvironmentStep, CreateStep, DeleteStep, BindStep, AnnotateStep, callerVars
<1>2. CASE Restart
  BY <1>2 DEF Restart
<1>3. ASSUME NEW other \in NodeClaims, other # nc, Caller(other)
      PROVE  claim'[nc] = claim[nc] /\ providerID'[nc] = providerID[nc]
  BY <1>3 DEF Caller, CreateExisting, CreateAdd, CreateReturn, Terminate, DeleteFind,
     DeleteNotFound, DeleteAdd, DeleteReturn, Inv, TypeOK, CallerTypeOK
<1>4. CASE CreateAdd(nc) \/ Terminate(nc) \/ DeleteFind(nc) \/ DeleteAdd(nc) \/ DeleteReturn(nc)
  BY <1>4 DEF CreateAdd, Terminate, DeleteFind, DeleteAdd, DeleteReturn, Inv, TypeOK,
              CallerTypeOK
<1>5. CASE DeleteNotFound(nc)
  BY <1>5 DEF DeleteNotFound, Inv, TypeOK, CallerTypeOK
<1>6. QED
  BY <1>1, <1>2, <1>3, <1>4, <1>5 DEF Next, Caller

LEMMA LaunchedStep ==
  ASSUME ~CacheLag, Inv, CreateRequestsPlaced, AnnotationFollowsBinding, LaunchedIsAnnotated,
         [Next]_vars
  PROVE  LaunchedIsAnnotated'
<1> SUFFICES ASSUME NEW nc \in NodeClaims, claim'[nc] = "launched"
             PROVE  providerID'[nc] = annotation'[nc]
  BY DEF LaunchedIsAnnotated
<1>1. CASE claim'[nc] = claim[nc] /\ providerID'[nc] = providerID[nc]
  <2>1. CASE UNCHANGED annotation
    BY <1>1, <2>1 DEF LaunchedIsAnnotated
  <2>2. ASSUME NEW other \in NodeClaims, BindStep(other), bindPC[other] = "patch",
               annotation' = [annotation EXCEPT ![other] = assigned[other]]
        PROVE  providerID'[nc] = annotation'[nc]
    <3>1. nc # other
      BY <1>1, <2>2 DEF CreateRequestsPlaced, Unbound
    <3>2. annotation'[nc] = annotation[nc]
      BY <2>2, <3>1 DEF Inv, TypeOK, ClusterTypeOK
    <3>3. QED
      BY <1>1, <3>2 DEF LaunchedIsAnnotated
  <2>3. QED
    BY <2>1, <2>2, AnnotationWrites
<1>2. CASE CreateExisting(nc)
  BY <1>2 DEF CreateExisting, AnnotationView, clusterVars, Inv, TypeOK, CallerTypeOK
<1>3. CASE CreateReturn(nc)
  <2>1. /\ bindPC[nc] = "idle" /\ outcome[nc] = "launched" /\ providerID'[nc] = assigned[nc]
        /\ UNCHANGED annotation
    BY <1>3 DEF CreateReturn, clusterVars, Inv, TypeOK, CallerTypeOK
  <2>2. QED
    BY <2>1 DEF AnnotationFollowsBinding
<1>4. QED
  BY <1>1, <1>2, <1>3, CallerWrites

\* With current reads, the NodeClaim that Create returns names the Machine its
\* annotation names, whether it was bound now or by an earlier attempt
\* (cloudprovider.go:91-110, create.go:326-350).
THEOREM LaunchedAnnotated == ~CacheLag => (Spec => []LaunchedIsAnnotated)
<1>1. Init => LaunchedIsAnnotated
  BY DEF Init, ClusterInit, LaunchedIsAnnotated
<1> SUFFICES ASSUME ~CacheLag PROVE Spec => []LaunchedIsAnnotated
  OBVIOUS
<1>2. Inv /\ CreateRequestsPlaced /\ AnnotationFollowsBinding /\ LaunchedIsAnnotated
        /\ [Next]_vars => LaunchedIsAnnotated'
  BY LaunchedStep
<1>3. QED
  BY <1>1, <1>2, Invariance, RequestsPlaced, AnnotationsFollow, PTL DEF Spec

-----------------------------------------------------------------------------
(* The life of one Machine. *)

\* An Update of Machine x that goes through changes one flag of the current object.
LEMMA LabelEffect ==
  ASSUME Inv, NEW x \in Machines, NEW m \in Machines, NEW flag \in BOOLEAN,
         UpdateMachine(x, [MachineView[x] EXCEPT !.member = flag])
  PROVE  /\ m = x => machine'[m] = [machine[m] EXCEPT !.member = flag]
         /\ m # x => machine'[m] = machine[m]
<1>1. machine' = [machine EXCEPT ![x] = [machine[x] EXCEPT !.member = flag]]
  BY DEF UpdateMachine
<1>2. machine \in [Machines -> Machine]
  BY DEF Inv, TypeOK, ClusterTypeOK
<1>3. QED
  BY <1>1, <1>2

LEMMA MarkEffect ==
  ASSUME Inv, NEW x \in Machines, NEW m \in Machines, NEW flag \in BOOLEAN,
         UpdateMachine(x, [MachineView[x] EXCEPT !.marked = flag])
  PROVE  /\ m = x => machine'[m] = [machine[m] EXCEPT !.marked = flag]
         /\ m # x => machine'[m] = machine[m]
<1>1. machine' = [machine EXCEPT ![x] = [machine[x] EXCEPT !.marked = flag]]
  BY DEF UpdateMachine
<1>2. machine \in [Machines -> Machine]
  BY DEF Inv, TypeOK, ClusterTypeOK
<1>3. QED
  BY <1>1, <1>2

\* Which steps change a Machine.
LEMMA MachineWrites ==
  ASSUME Inv, [Next]_vars, NEW m \in Machines
  PROVE  \/ machine'[m] = machine[m]
         \/ /\ CreateMachine(m) /\ machine[m].phase = "absent"
            /\ machine'[m] = Blank("live")
         \/ machine[m].phase = "live" /\ machine'[m] = [machine[m] EXCEPT !.provisioned = TRUE]
         \/ /\ ScaleDown(m) /\ machine[m].phase = "live"
            /\ machine'[m] = [machine[m] EXCEPT !.phase = "deleting"]
         \/ machine[m].phase = "deleting" /\ machine'[m] = Blank("gone")
         \/ \E nc \in NodeClaims :
              /\ BindStep(nc) /\ assigned[nc] = m
              /\ \/ /\ bindPC[nc] = "label"
                    /\ machine'[m] = [machine[m] EXCEPT !.member = TRUE]
                    /\ bindPC'[nc] = "patch" \/ m \in labelLeaked'
                 \/ /\ bindPC[nc] = "rollback"
                    /\ machine'[m] = [machine[m] EXCEPT !.member = FALSE]
         \/ \E nc \in NodeClaims :
              /\ AnnotateStep(nc) /\ target[nc] = m
              /\ machine'[m] = [machine[m] EXCEPT !.marked = TRUE]
              /\ markPC'[nc] = "annotated" \/ m \in markLeaked'
         \/ \E b \in DeleteBatches : \E nc \in NodeClaims :
              /\ RollbackMark(b, nc) /\ target[nc] = m
              /\ machine'[m] = [machine[m] EXCEPT !.marked = FALSE]
<1>1. CASE UNCHANGED machine
  BY <1>1
<1>2. CASE EnvironmentStep
  <2>1. ASSUME NEW x \in Machines,
               CreateMachine(x) \/ ProvisionMachine(x) \/ ScaleDown(x) \/ RemoveMachine(x)
        PROVE  \/ machine'[m] = machine[m]
               \/ /\ CreateMachine(m) /\ machine[m].phase = "absent"
                  /\ machine'[m] = Blank("live")
               \/ /\ machine[m].phase = "live"
                  /\ machine'[m] = [machine[m] EXCEPT !.provisioned = TRUE]
               \/ /\ ScaleDown(m) /\ machine[m].phase = "live"
                  /\ machine'[m] = [machine[m] EXCEPT !.phase = "deleting"]
               \/ machine[m].phase = "deleting" /\ machine'[m] = Blank("gone")
    BY <2>1 DEF CreateMachine, ProvisionMachine, ScaleDown, RemoveMachine, Inv, TypeOK, ClusterTypeOK
  <2>2. CASE SyncMD \/ SyncMachines \/ SyncAnnotations
    BY <1>1, <2>2 DEF SyncMD, SyncMachines, SyncAnnotations
  <2>3. QED
    BY <1>2, <2>1, <2>2 DEF EnvironmentStep, Environment
<1>3. ASSUME NEW b \in CreateBatches, CreateStep(b) PROVE UNCHANGED machine
  BY <1>3 DEF CreateStep, CreateExecutor, CreateStart, CreateLock, CreateGet, CreateCount,
              CreateUpdate, Increment, Poll, PollTimeout, CreateFinish, clusterVars
<1>4. ASSUME NEW nc \in NodeClaims, BindStep(nc)
      PROVE  \/ machine'[m] = machine[m]
             \/ /\ assigned[nc] = m
                /\ \/ /\ bindPC[nc] = "label"
                      /\ machine'[m] = [machine[m] EXCEPT !.member = TRUE]
                      /\ bindPC'[nc] = "patch" \/ m \in labelLeaked'
                   \/ /\ bindPC[nc] = "rollback"
                      /\ machine'[m] = [machine[m] EXCEPT !.member = FALSE]
  <2> DEFINE x == assigned[nc]
  <2>0. x \in Machines
    BY <1>4, BindStepEffect
  <2>1. CASE BindLabel(nc)
    <3>1. bindPC[nc] = "label" /\ bindPC \in [NodeClaims -> {"idle", "label", "patch", "rollback", "done"}]
      BY <2>1 DEF BindLabel, Inv, TypeOK, CreateTypeOK
    <3>2. \/ UNCHANGED machine
          \/ SetLabel(x) /\ (bindPC'[nc] = "patch" \/ x \in labelLeaked')
      BY <2>1, <3>1 DEF BindLabel
    <3>3. ASSUME SetLabel(x)
          PROVE  /\ m = x => machine'[m] = [machine[m] EXCEPT !.member = TRUE]
                 /\ m # x => machine'[m] = machine[m]
      BY <2>0, <3>3, LabelEffect DEF SetLabel
    <3>4. QED
      BY <3>1, <3>2, <3>3
  <2>2. CASE BindPatch(nc)
    BY <2>2 DEF BindPatch
  <2>3. CASE BindRollback(nc)
    <3>1. ASSUME UpdateMachine(x, [MachineView[x] EXCEPT !.member = FALSE])
          PROVE  /\ m = x => machine'[m] = [machine[m] EXCEPT !.member = FALSE]
                 /\ m # x => machine'[m] = machine[m]
      BY <2>0, <3>1, LabelEffect
    <3>2. QED
      BY <2>3, <3>1 DEF BindRollback
  <2>4. QED
    BY <1>4, <2>1, <2>2, <2>3 DEF BindStep, Bind
<1>5. ASSUME NEW nc \in NodeClaims, AnnotateStep(nc)
      PROVE  \/ machine'[m] = machine[m]
             \/ /\ target[nc] = m
                /\ machine'[m] = [machine[m] EXCEPT !.marked = TRUE]
                /\ markPC'[nc] = "annotated" \/ m \in markLeaked'
  <2> DEFINE x == target[nc]
  <2>1. x \in Machines /\ markPC[nc] = "annotate"
    BY <1>5 DEF AnnotateStep, Annotate, Inv, DeleteRequestsPlaced
  <2>2. \/ UNCHANGED machine
        \/ SetMark(x) /\ (markPC'[nc] = "annotated" \/ x \in markLeaked')
    BY <1>5 DEF AnnotateStep, Annotate, Inv, TypeOK, DeleteTypeOK
  <2>3. ASSUME SetMark(x)
        PROVE  /\ m = x => machine'[m] = [machine[m] EXCEPT !.marked = TRUE]
               /\ m # x => machine'[m] = machine[m]
    BY <2>1, <2>3, MarkEffect DEF SetMark
  <2>4. QED
    BY <2>2, <2>3
<1>6. ASSUME NEW b \in DeleteBatches, DeleteStep(b)
      PROVE  \/ machine'[m] = machine[m]
             \/ \E nc \in NodeClaims :
                  /\ RollbackMark(b, nc) /\ target[nc] = m
                  /\ machine'[m] = [machine[m] EXCEPT !.marked = FALSE]
  <2>1. CASE DeleteStart(b) \/ DeleteJoin(b) \/ DeleteLock(b) \/ DeleteGet(b) \/ DeleteUpdate(b)
             \/ DeleteFinish(b)
    BY <2>1 DEF DeleteStart, DeleteJoin, DeleteLock, DeleteGet, DeleteUpdate, Decrement,
                DeleteFinish, clusterVars
  <2>2. ASSUME NEW nc \in NodeClaims, RollbackMark(b, nc)
        PROVE  \/ machine'[m] = machine[m]
               \/ target[nc] = m /\ machine'[m] = [machine[m] EXCEPT !.marked = FALSE]
    <3> DEFINE x == target[nc]
    <3>1. x \in Machines
      BY <2>2 DEF RollbackMark, Annotated, Inv, DeleteRequestsPlaced
    <3>2. ASSUME UpdateMachine(x, [MachineView[x] EXCEPT !.marked = FALSE])
          PROVE  /\ m = x => machine'[m] = [machine[m] EXCEPT !.marked = FALSE]
                 /\ m # x => machine'[m] = machine[m]
      BY <3>1, <3>2, MarkEffect
    <3>3. QED
      BY <2>2, <3>2 DEF RollbackMark
  <2>3. QED
    BY <1>6, <2>1, <2>2 DEF DeleteStep, DeleteExecutor
<1>7. ASSUME NEW nc \in NodeClaims, Caller(nc) PROVE UNCHANGED machine
  BY <1>7 DEF Caller, CreateExisting, CreateAdd, CreateReturn, Terminate, DeleteFind,
              DeleteNotFound, DeleteAdd, DeleteReturn, clusterVars
<1>8. CASE UNCHANGED vars \/ Restart
  BY <1>1, <1>8 DEF vars, Restart, clusterVars
<1>9. QED
  BY <1>1, <1>2, <1>3, <1>4, <1>5, <1>6, <1>7, <1>8 DEF Next

\* Once a Machine has had a providerID it has it or is gone, and gone it stays.
LEMMA LifeGoesOn ==
  ASSUME Inv, [Next]_vars, NEW m \in Machines
  PROVE  /\ HadProviderID(machine[m]) => HadProviderID(machine'[m])
         /\ machine[m].phase = "gone" => machine'[m].phase = "gone"
<1>1. machine[m] \in Machine
  BY DEF Inv, TypeOK, ClusterTypeOK
<1>2. \/ machine'[m] = machine[m]
      \/ machine[m].phase = "absent" /\ machine'[m] = Blank("live")
      \/ machine[m].phase = "live" /\ machine'[m] = [machine[m] EXCEPT !.provisioned = TRUE]
      \/ machine[m].phase = "live" /\ machine'[m] = [machine[m] EXCEPT !.phase = "deleting"]
      \/ machine[m].phase = "deleting" /\ machine'[m] = Blank("gone")
      \/ \E flag \in BOOLEAN : \/ machine'[m] = [machine[m] EXCEPT !.member = flag]
                               \/ machine'[m] = [machine[m] EXCEPT !.marked = flag]
  BY MachineWrites
<1>3. ASSUME NEW flag \in BOOLEAN,
             \/ machine'[m] = [machine[m] EXCEPT !.member = flag]
             \/ machine'[m] = [machine[m] EXCEPT !.marked = flag]
      PROVE  /\ machine'[m].phase = machine[m].phase
             /\ machine'[m].provisioned = machine[m].provisioned
  BY <1>1, <1>3 DEF Machine
<1>4. \/ machine'[m].phase = machine[m].phase /\ machine'[m].provisioned = machine[m].provisioned
      \/ machine[m].phase = "absent"
      \/ /\ machine[m].phase = "live" /\ machine'[m].phase \in {"live", "deleting"}
         /\ machine'[m].provisioned \in {machine[m].provisioned, TRUE}
      \/ machine[m].phase = "deleting" /\ machine'[m].phase = "gone"
  <2>1. CASE machine[m].phase = "live" /\ machine'[m] = [machine[m] EXCEPT !.provisioned = TRUE]
    BY <1>1, <2>1 DEF Machine
  <2>2. CASE machine[m].phase = "live" /\ machine'[m] = [machine[m] EXCEPT !.phase = "deleting"]
    BY <1>1, <2>2 DEF Machine
  <2>3. CASE machine[m].phase = "deleting" /\ machine'[m] = Blank("gone")
    BY <2>3 DEF Blank
  <2>4. QED
    BY <1>2, <1>3, <2>1, <2>2, <2>3
<1>5. QED
  BY <1>4 DEF HadProviderID

\* The informer takes over the Machines as they are, and nothing else writes its copy.
LEMMA CacheWrites ==
  ASSUME [Next]_vars
  PROVE  \/ UNCHANGED machineCache
         \/ machineCache' = machine /\ UNCHANGED machine
<1>1. CASE UNCHANGED vars \/ EnvironmentStep \/ Restart
  BY <1>1 DEF vars, clusterVars, EnvironmentStep, Environment, CreateMachine, ProvisionMachine,
              ScaleDown, RemoveMachine, SyncMD, SyncMachines, SyncAnnotations, Restart
<1>2. ASSUME NEW b \in CreateBatches, CreateStep(b) PROVE UNCHANGED machineCache
  BY <1>2 DEF CreateStep, CreateExecutor, CreateStart, CreateLock, CreateGet, CreateCount,
              CreateUpdate, Increment, Poll, PollTimeout, CreateFinish, clusterVars
<1>3. ASSUME NEW b \in DeleteBatches, DeleteStep(b) PROVE UNCHANGED machineCache
  BY <1>3 DEF DeleteStep, DeleteExecutor, DeleteStart, DeleteJoin, DeleteLock, DeleteGet,
              DeleteUpdate, Decrement, DeleteFinish, RollbackMark, clusterVars
<1>4. ASSUME NEW nc \in NodeClaims, AnnotateStep(nc) \/ Caller(nc) PROVE UNCHANGED machineCache
  BY <1>4 DEF AnnotateStep, Annotate, Caller, CreateExisting, CreateAdd, CreateReturn, Terminate,
              DeleteFind, DeleteNotFound, DeleteAdd, DeleteReturn, clusterVars
<1>5. ASSUME NEW nc \in NodeClaims, BindStep(nc) PROVE UNCHANGED machineCache
  BY <1>5 DEF BindStep, Bind, BindLabel, BindPatch, BindRollback
<1>6. QED
  BY <1>1, <1>2, <1>3, <1>4, <1>5 DEF Next

LEMMA ViewGoesOn ==
  ASSUME Inv, ProviderIDSeen, [Next]_vars, NEW m \in Machines, HadProviderID(MachineView[m])
  PROVE  HadProviderID(MachineView[m])'
<1>1. CASE CacheLag
  <2>1. MachineView = machineCache /\ MachineView' = machineCache'
    BY <1>1 DEF MachineView
  <2>2. HadProviderID(machineCache[m]) => HadProviderID(machine[m])
    BY DEF ProviderIDSeen
  <2>3. HadProviderID(machineCache'[m])
    BY <2>1, <2>2, CacheWrites
  <2>4. QED
    BY <2>1, <2>3 DEF HadProviderID
<1>2. CASE ~CacheLag
  <2>1. MachineView = machine /\ MachineView' = machine'
    BY <1>2 DEF MachineView
  <2>2. HadProviderID(machine'[m])
    BY <2>1, LifeGoesOn
  <2>3. QED
    BY <2>1, <2>2 DEF HadProviderID
<1>3. QED
  BY <1>1, <1>2

-----------------------------------------------------------------------------
(* Delete says NodeClaimNotFound only of a Machine that is gone. *)

\* A request that ends as launched has a Machine that showed its providerID.
LEMMA LaunchedSeen ==
  ASSUME Inv, CreateRequestsPlaced, ProviderIDSeen, [Next]_vars,
         NEW nc \in NodeClaims, outcome'[nc] = "launched"
  PROVE  /\ assigned'[nc] = assigned[nc] /\ assigned[nc] \in Machines
         /\ HadProviderID(MachineView[assigned[nc]])
<1>1. outcome[nc] = "launched" =>
        assigned[nc] \in Machines /\ HadProviderID(MachineView[assigned[nc]])
  BY DEF ProviderIDSeen
<1>2. ASSUME NEW b \in CreateBatches, CreateStep(b)
      PROVE  outcome[nc] = "launched" /\ assigned'[nc] = assigned[nc]
  BY <1>2, CreateStepEffect
<1>3. ASSUME NEW other \in NodeClaims, BindStep(other)
      PROVE  /\ assigned'[nc] = assigned[nc]
             /\ outcome[nc] # "launched" =>
                  assigned[nc] \in Machines /\ HadProviderID(MachineView[assigned[nc]])
  <2>1. UNCHANGED assigned
    BY <1>3, BindStepEffect
  <2>2. CASE nc # other
    BY <1>3, <2>1, <2>2, BindStepEffect
  <2>3. CASE nc = other /\ outcome[nc] # "launched"
    <3>1. /\ assigned[nc] \in Machines
          /\ SetLabel(assigned[nc]) /\ MachineView[assigned[nc]].provisioned
      BY <1>3, <2>3, BindStepEffect
    <3>2. MachineView[assigned[nc]].phase \in {"live", "deleting"}
      BY <3>1 DEF SetLabel, UpdateMachine, Found
    <3>3. QED
      BY <2>1, <3>1, <3>2 DEF HadProviderID
  <2>4. QED
    BY <2>1, <2>2, <2>3
<1>4. ASSUME NEW other \in NodeClaims, CreateAdd(other)
      PROVE  outcome[nc] = "launched" /\ assigned'[nc] = assigned[nc]
  BY <1>4 DEF CreateAdd, bindVars
<1>5. ASSUME NEW other \in NodeClaims, CreateReturn(other)
      PROVE  outcome[nc] = "launched" /\ assigned'[nc] = assigned[nc]
  BY <1>5 DEF CreateReturn, Inv, TypeOK, CreateTypeOK
<1>6. CASE Restart
  BY <1>6 DEF Restart, CreateLost
<1>7. CASE Rests
  BY <1>1, <1>7 DEF Rests, createVars, bindVars
<1>8. QED
  BY <1>1, <1>2, <1>3, <1>4, <1>5, <1>6, <1>7, OtherStepsRest DEF Next, Caller

LEMMA SeenStep ==
  ASSUME Inv, CreateRequestsPlaced, ProviderIDSeen, [Next]_vars
  PROVE  ProviderIDSeen'
<1>1. ASSUME NEW m \in Machines
      PROVE  /\ HadProviderID(machineCache'[m]) => HadProviderID(machine'[m])
             /\ machineCache'[m].phase = "gone" => machine'[m].phase = "gone"
  BY LifeGoesOn, CacheWrites DEF ProviderIDSeen
<1>2. ASSUME NEW nc \in NodeClaims, providerID'[nc] # NoMachine
      PROVE  HadProviderID(MachineView[providerID[nc]])'
  <2>1. providerID'[nc] \in Machines /\ HadProviderID(MachineView[providerID'[nc]])
    <3>1. providerID[nc] \in Machines \union {NoMachine}
          /\ (providerID[nc] # NoMachine => HadProviderID(MachineView[providerID[nc]]))
      BY DEF Inv, TypeOK, CallerTypeOK, ProviderIDSeen
    <3>2. CASE providerID'[nc] = providerID[nc]
      BY <1>2, <3>1, <3>2
    <3>3. CASE CreateExisting(nc)
      BY <1>2, <3>3, ViewTypes DEF CreateExisting, Found, HadProviderID, Inv, TypeOK, CallerTypeOK
    <3>4. CASE CreateReturn(nc)
      <4>1. \/ providerID'[nc] = providerID[nc]
            \/ outcome[nc] = "launched" /\ providerID'[nc] = assigned[nc]
        BY <3>4 DEF CreateReturn, Inv, TypeOK, CallerTypeOK
      <4>2. QED
        BY <1>2, <3>1, <4>1 DEF ProviderIDSeen
    <3>5. QED
      BY <3>2, <3>3, <3>4, CallerWrites
  <2>2. PICK m \in Machines : m = providerID'[nc]
    BY <2>1
  <2>3. HadProviderID(MachineView[m])'
    BY <2>1, <2>2, ViewGoesOn
  <2>4. QED
    BY <2>2, <2>3
<1>3. QED
  BY <1>1, <1>2, LaunchedSeen, ViewGoesOn DEF ProviderIDSeen

LEMMA ProviderIDsSeen == Spec => []ProviderIDSeen
<1>1. Init => ProviderIDSeen
  <2> SUFFICES ASSUME Init PROVE ProviderIDSeen
    OBVIOUS
  <2>1. machineCache = machine /\ MachineView = machine /\ providerID = InitialMachine
        /\ \A nc \in NodeClaims : outcome[nc] = "none"
    BY DEF Init, ClusterInit, CreateInit, MachineView
  <2>2. ASSUME NEW nc \in NodeClaims, providerID[nc] # NoMachine
        PROVE  HadProviderID(machine[providerID[nc]])
    <3>1. nc \in InitiallyBound /\ InitialMachine[nc] \in Machines
      BY <2>1, <2>2, InitialAssumption DEF InitiallyBound
    <3>2. machine[InitialMachine[nc]] = [Blank("live") EXCEPT !.provisioned = TRUE, !.member = TRUE]
      BY <3>1 DEF Init, ClusterInit
    <3>3. QED
      BY <2>1, <3>2 DEF Blank, HadProviderID
  <2>3. QED
    BY <2>1, <2>2 DEF ProviderIDSeen
<1>2. Inv /\ CreateRequestsPlaced /\ ProviderIDSeen /\ [Next]_vars => ProviderIDSeen'
  BY SeenStep
<1>3. QED
  BY <1>1, <1>2, Invariance, RequestsPlaced, PTL DEF Spec

LEMMA FinishedStep ==
  ASSUME Inv, ProviderIDSeen, FinishedIsGone, [Next]_vars
  PROVE  FinishedIsGone'
<1> SUFFICES ASSUME NEW nc \in NodeClaims, claim'[nc] = "finished"
             PROVE  providerID'[nc] # NoMachine /\ machine'[providerID'[nc]].phase = "gone"
  BY DEF FinishedIsGone
<1>1. providerID[nc] \in Machines \union {NoMachine}
  BY DEF Inv, TypeOK, CallerTypeOK
<1>2. CASE claim'[nc] = claim[nc] /\ providerID'[nc] = providerID[nc]
  BY <1>1, <1>2, LifeGoesOn DEF FinishedIsGone
<1>3. CASE DeleteNotFound(nc) /\ providerID'[nc] = providerID[nc]
  <2>1. providerID[nc] \in Machines /\ ~Listed(providerID[nc])
    BY <1>1, <1>3 DEF DeleteNotFound
  <2>2. HadProviderID(MachineView[providerID[nc]])
    BY <2>1, ClusterAssumption DEF ClusterAssumption, ProviderIDSeen
  <2>3. MachineView[providerID[nc]].phase = "gone"
    BY <2>1, <2>2 DEF HadProviderID, Listed, Found
  <2>4. machine[providerID[nc]].phase = "gone"
    BY <2>1, <2>3 DEF MachineView, ProviderIDSeen
  <2>5. QED
    BY <1>3, <2>1, <2>4, LifeGoesOn, ClusterAssumption DEF ClusterAssumption
<1>4. ~CreateExisting(nc) /\ ~CreateReturn(nc)
  BY DEF CreateExisting, CreateReturn, Inv, TypeOK, CallerTypeOK
<1>5. QED
  BY <1>2, <1>3, <1>4, CallerWrites

\* However stale the cache is, and through restarts and lost replies, Delete says
\* NodeClaimNotFound, and the finalizer goes, only when the Machine is gone
\* (cloudprovider.go:123-132, machine.go:61-75).
THEOREM FinishedGone == Spec => []FinishedIsGone
<1>1. Init => FinishedIsGone
  BY DEF Init, FinishedIsGone
<1>2. Inv /\ ProviderIDSeen /\ FinishedIsGone /\ [Next]_vars => FinishedIsGone'
  BY FinishedStep
<1>3. QED
  BY <1>1, <1>2, Invariance, ProviderIDsSeen, PTL DEF Spec

-----------------------------------------------------------------------------
(* With current reads, every label and every mark is accounted for. *)

\* What is recorded as left behind, or as paid for, stays recorded.
LEMMA LeftBehindStays ==
  ASSUME [Next]_vars
  PROVE  /\ labelLeaked \subseteq labelLeaked' /\ markLeaked \subseteq markLeaked'
         /\ paid \subseteq paid'
<1>1. CASE UNCHANGED vars \/ EnvironmentStep \/ Restart
  BY <1>1 DEF vars, EnvironmentStep, Restart, CreateLost, DeleteLost, createVars, deleteVars
<1>2. ASSUME NEW b \in CreateBatches, CreateStep(b)
      PROVE  UNCHANGED <<labelLeaked, markLeaked, paid>>
  BY <1>2 DEF CreateStep, CreateExecutor, CreateStart, CreateLock, CreateGet, CreateCount,
              CreateUpdate, CreateAbort, Poll, PollTimeout, CreateFinish, deleteVars
<1>3. ASSUME NEW b \in DeleteBatches, DeleteStep(b)
      PROVE  /\ UNCHANGED labelLeaked /\ markLeaked \subseteq markLeaked'
             /\ paid \subseteq paid'
  BY <1>3 DEF DeleteStep, DeleteExecutor, DeleteStart, DeleteJoin, DeleteLock, DeleteGet,
              DeleteUpdate, DeleteAbort, DeleteFinish, RollbackMark, createVars
<1>4. ASSUME NEW nc \in NodeClaims, Caller(nc)
      PROVE  UNCHANGED <<labelLeaked, markLeaked, paid>>
  BY <1>4 DEF Caller, CreateExisting, CreateAdd, CreateReturn, Terminate, DeleteFind,
              DeleteNotFound, DeleteAdd, DeleteReturn, createVars, deleteVars
<1>5. ASSUME NEW nc \in NodeClaims, BindStep(nc)
      PROVE  labelLeaked \subseteq labelLeaked' /\ UNCHANGED <<markLeaked, paid>>
  BY <1>5 DEF BindStep, Bind, BindLabel, BindPatch, BindRollback, deleteVars
<1>6. ASSUME NEW nc \in NodeClaims, AnnotateStep(nc)
      PROVE  UNCHANGED labelLeaked /\ markLeaked \subseteq markLeaked' /\ UNCHANGED paid
  BY <1>6 DEF AnnotateStep, Annotate, createVars
<1>7. QED
  BY <1>1, <1>2, <1>3, <1>4, <1>5, <1>6 DEF Next

\* A goroutine that has set a label ends with the annotation, with the label off
\* again, or with the label recorded as left behind.
LEMMA LabelOwned ==
  ASSUME Inv, CreateRequestsPlaced, [Next]_vars, NEW nc \in NodeClaims,
         bindPC[nc] \in {"patch", "rollback"}
  PROVE  \/ assigned'[nc] = assigned[nc] /\ bindPC'[nc] \in {"patch", "rollback"}
         \/ annotation'[nc] = assigned[nc]
         \/ assigned[nc] \in labelLeaked'
         \/ ~machine'[assigned[nc]].member
<1>0. assigned[nc] \in Machines /\ ~Waiting(nc)
  BY DEF Inv, BindingHasMachine, CreateRequestsPlaced, Unbound
<1>1. ASSUME NEW b \in CreateBatches, CreateStep(b)
      PROVE  assigned'[nc] = assigned[nc] /\ bindPC'[nc] = bindPC[nc]
  BY <1>0, <1>1, CreateStepEffect
<1>2. ASSUME NEW other \in NodeClaims, other # nc, BindStep(other)
      PROVE  assigned'[nc] = assigned[nc] /\ bindPC'[nc] = bindPC[nc]
  BY <1>2, BindStepEffect
<1>3. CASE BindStep(nc)
  <2>1. CASE BindPatch(nc)
    BY <1>0, <2>1 DEF BindPatch, Inv, TypeOK, ClusterTypeOK, CreateTypeOK
  <2>2. CASE BindRollback(nc)
    <3>1. CASE UpdateMachine(assigned[nc], [MachineView[assigned[nc]] EXCEPT !.member = FALSE])
      <4>1. machine'[assigned[nc]] = [machine[assigned[nc]] EXCEPT !.member = FALSE]
        BY <1>0, <3>1, LabelEffect
      <4>2. QED
        BY <1>0, <4>1 DEF Inv, TypeOK, ClusterTypeOK, Machine
    <3>2. QED
      BY <2>2, <3>1 DEF BindRollback
  <2>3. QED
    BY <1>3, <2>1, <2>2 DEF BindStep, Bind, BindLabel
<1>4. ASSUME NEW other \in NodeClaims, CreateAdd(other) \/ CreateReturn(other)
      PROVE  assigned'[nc] = assigned[nc] /\ bindPC'[nc] = bindPC[nc]
  BY <1>4 DEF CreateAdd, CreateReturn, bindVars, Inv, TypeOK, CreateTypeOK
<1>5. CASE Restart
  BY <1>0, <1>5 DEF Restart, CreateLost
<1>6. CASE Rests
  BY <1>6 DEF Rests, createVars, bindVars
<1>7. QED
  BY <1>1, <1>2, <1>3, <1>4, <1>5, <1>6, OtherStepsRest DEF Next, Caller

LEMMA LabelStep ==
  ASSUME Inv, CreateRequestsPlaced, AnnotationFollowsBinding, NoOrphanLabel, [Next]_vars
  PROVE  NoOrphanLabel'
<1> SUFFICES ASSUME NEW m \in Machines, machine'[m].member
             PROVE  \/ m \in labelLeaked'
                    \/ \E nc \in NodeClaims :
                         \/ annotation'[nc] = m
                         \/ assigned'[nc] = m /\ bindPC'[nc] \in {"patch", "rollback"}
  BY DEF NoOrphanLabel
<1>1. CASE machine[m].member
  <2>1. CASE m \in labelLeaked
    BY <2>1, LeftBehindStays
  <2>2. ASSUME NEW nc \in NodeClaims, annotation[nc] = m
        PROVE  annotation'[nc] = m
    BY <2>2, AnnotationStep, ClusterAssumption DEF ClusterAssumption
  <2>3. ASSUME NEW nc \in NodeClaims, assigned[nc] = m, bindPC[nc] \in {"patch", "rollback"}
        PROVE  \/ m \in labelLeaked'
               \/ annotation'[nc] = m
               \/ assigned'[nc] = m /\ bindPC'[nc] \in {"patch", "rollback"}
    BY <2>3, LabelOwned
  <2>4. QED
    BY <1>1, <2>1, <2>2, <2>3 DEF NoOrphanLabel
<1>2. CASE ~machine[m].member
  <2>1. machine[m] \in Machine
    BY DEF Inv, TypeOK, ClusterTypeOK
  <2>2. PICK nc \in NodeClaims :
          /\ BindStep(nc) /\ assigned[nc] = m
          /\ bindPC'[nc] = "patch" \/ m \in labelLeaked'
    <3>1. machine'[m] # machine[m] /\ machine'[m] # Blank("live") /\ machine'[m] # Blank("gone")
          /\ machine'[m] # [machine[m] EXCEPT !.provisioned = TRUE]
          /\ machine'[m] # [machine[m] EXCEPT !.phase = "deleting"]
          /\ machine'[m] # [machine[m] EXCEPT !.member = FALSE]
          /\ machine'[m] # [machine[m] EXCEPT !.marked = TRUE]
          /\ machine'[m] # [machine[m] EXCEPT !.marked = FALSE]
      BY <1>2, <2>1 DEF Machine, Blank
    <3>2. QED
      BY <3>1, MachineWrites
  <2>3. assigned'[nc] = m
    BY <2>2, BindStepEffect
  <2>4. QED
    BY <2>2, <2>3
<1>3. QED
  BY <1>1, <1>2

\* With current reads, a Machine taken out of the unclaimed pool is a NodeClaim's or
\* is being bound, or its label is known to have been left behind by an API error or
\* a restart (create.go:315-346).
THEOREM LabelsAccounted == ~CacheLag => (Spec => []NoOrphanLabel)
<1>1. Init => NoOrphanLabel
  <2> SUFFICES ASSUME Init, NEW m \in Machines, machine[m].member
               PROVE  \E nc \in NodeClaims : annotation[nc] = m
    BY DEF NoOrphanLabel
  <2>1. CASE \E nc \in InitiallyBound : InitialMachine[nc] = m
    BY <2>1 DEF Init, ClusterInit, InitiallyBound
  <2>2. CASE ~\E nc \in InitiallyBound : InitialMachine[nc] = m
    BY <2>2 DEF Init, ClusterInit, Blank
  <2>3. QED
    BY <2>1, <2>2
<1> SUFFICES ASSUME ~CacheLag PROVE Spec => []NoOrphanLabel
  OBVIOUS
<1>2. Inv /\ CreateRequestsPlaced /\ AnnotationFollowsBinding /\ NoOrphanLabel /\ [Next]_vars
        => NoOrphanLabel'
  BY LabelStep
<1>3. QED
  BY <1>1, <1>2, Invariance, RequestsPlaced, AnnotationsFollow, PTL DEF Spec

\* A mark that an execution has set is paid for, taken off again, or recorded as
\* left behind.
LEMMA MarkOwned ==
  ASSUME ~CacheLag, Inv, [Next]_vars, NEW nc \in NodeClaims, markPC[nc] = "annotated"
  PROVE  \/ target'[nc] = target[nc] /\ markPC'[nc] = "annotated"
         \/ target[nc] \in paid' \union markLeaked'
         \/ ~machine'[target[nc]].marked
<1>1. /\ target[nc] \in Machines /\ nc \notin deleteQueue
      /\ claim[nc] = "deleting" /\ deleted[nc] = "none"
      /\ \E b \in DeleteBatches : nc \in deleteInputs[b]
      /\ \A b1, b2 \in DeleteBatches :
           nc \in deleteInputs[b1] /\ nc \in deleteInputs[b2] => b1 = b2
  BY DEF Inv, DeleteRequestsPlaced
<1>2. CASE UNCHANGED vars \/ EnvironmentStep \/ (\E b \in CreateBatches : CreateStep(b))
           \/ (\E other \in NodeClaims : BindStep(other))
  BY <1>2 DEF vars, EnvironmentStep, CreateStep, BindStep, deleteVars
<1>3. CASE Restart
  BY <1>1, <1>3 DEF Restart, DeleteLost
<1>4. ASSUME NEW other \in NodeClaims, Caller(other)
      PROVE  target'[nc] = target[nc] /\ markPC'[nc] = "annotated"
  BY <1>1, <1>4 DEF Caller, CreateExisting, CreateAdd, CreateReturn, Terminate, DeleteFind,
              DeleteNotFound, DeleteAdd, DeleteReturn, deleteVars, Inv, TypeOK, DeleteTypeOK
<1>5. ASSUME NEW other \in NodeClaims, AnnotateStep(other)
      PROVE  target'[nc] = target[nc] /\ markPC'[nc] = "annotated"
  BY <1>5 DEF AnnotateStep, Annotate, Inv, TypeOK, DeleteTypeOK
<1>6. ASSUME NEW b \in DeleteBatches, DeleteStep(b)
      PROVE  \/ target'[nc] = target[nc] /\ markPC'[nc] = "annotated"
             \/ target[nc] \in paid' \union markLeaked'
             \/ ~machine'[target[nc]].marked
  <2>1. ASSUME Deliver(b, {}), Annotated(b) = {} PROVE markPC'[nc] = "annotated"
    BY <2>1 DEF Deliver, Annotated
  <2>2. CASE DeleteStart(b)
    BY <1>1, <2>2 DEF DeleteStart
  <2>3. CASE DeleteJoin(b)
    BY <2>1, <2>3 DEF DeleteJoin
  <2>4. CASE DeleteLock(b) \/ DeleteGet(b)
    BY <2>4 DEF DeleteLock, DeleteGet, DeleteAbort
  <2>5. CASE DeleteUpdate(b)
    <3>1. CASE nc \in deleteInputs[b]
      BY <2>5, <3>1 DEF DeleteUpdate, DeleteAbort, Annotated
    <3>2. CASE nc \notin deleteInputs[b]
      BY <2>5, <3>2 DEF DeleteUpdate, DeleteAbort, Deliver
    <3>3. QED
      BY <3>1, <3>2
  <2>6. CASE DeleteFinish(b)
    BY <2>1, <2>6 DEF DeleteFinish
  <2>7. ASSUME NEW other \in NodeClaims, other # nc, RollbackMark(b, other)
        PROVE  target'[nc] = target[nc] /\ markPC'[nc] = "annotated"
    BY <2>7 DEF RollbackMark, Inv, TypeOK, DeleteTypeOK
  <2>8. CASE RollbackMark(b, nc)
    <3>1. CASE UpdateMachine(target[nc], [MachineView[target[nc]] EXCEPT !.marked = FALSE])
      <4>1. machine'[target[nc]] = [machine[target[nc]] EXCEPT !.marked = FALSE]
        BY <1>1, <3>1, MarkEffect
      <4>2. QED
        BY <1>1, <4>1 DEF Inv, TypeOK, ClusterTypeOK, Machine
    <3>2. QED
      BY <2>8, <3>1 DEF RollbackMark, MachineView
  <2>9. QED
    BY <1>6, <2>2, <2>3, <2>4, <2>5, <2>6, <2>7, <2>8 DEF DeleteStep, DeleteExecutor
<1>7. QED
  BY <1>2, <1>3, <1>4, <1>5, <1>6 DEF Next

LEMMA MarkStep ==
  ASSUME ~CacheLag, Inv, NoOrphanMark, [Next]_vars
  PROVE  NoOrphanMark'
<1> SUFFICES ASSUME NEW m \in Machines, machine'[m].marked
             PROVE  \/ m \in paid' \union markLeaked'
                    \/ \E nc \in NodeClaims : target'[nc] = m /\ markPC'[nc] = "annotated"
  BY DEF NoOrphanMark
<1>1. CASE machine[m].marked
  BY <1>1, LeftBehindStays, MarkOwned DEF NoOrphanMark
<1>2. CASE ~machine[m].marked
  <2>1. machine[m] \in Machine
    BY DEF Inv, TypeOK, ClusterTypeOK
  <2>2. PICK nc \in NodeClaims :
          /\ AnnotateStep(nc) /\ target[nc] = m
          /\ markPC'[nc] = "annotated" \/ m \in markLeaked'
    <3>1. machine'[m] # machine[m] /\ machine'[m] # Blank("live") /\ machine'[m] # Blank("gone")
          /\ machine'[m] # [machine[m] EXCEPT !.provisioned = TRUE]
          /\ machine'[m] # [machine[m] EXCEPT !.phase = "deleting"]
          /\ machine'[m] # [machine[m] EXCEPT !.member = FALSE]
          /\ machine'[m] # [machine[m] EXCEPT !.member = TRUE]
          /\ machine'[m] # [machine[m] EXCEPT !.marked = FALSE]
      BY <1>2, <2>1 DEF Machine, Blank
    <3>2. QED
      BY <3>1, MachineWrites
  <2>3. target'[nc] = m
    BY <2>2 DEF AnnotateStep, Annotate
  <2>4. QED
    BY <2>2, <2>3
<1>3. QED
  BY <1>1, <1>2

\* With current reads, a delete-machine annotation is paid for with a replica, is in
\* a batch that still has to decrement or roll back, or is known to have been left
\* behind by an API error or a restart (delete.go:80-82, 183-201).
THEOREM MarksAccounted == ~CacheLag => (Spec => []NoOrphanMark)
<1>1. Init => NoOrphanMark
  <2> SUFFICES ASSUME Init, NEW m \in Machines PROVE ~machine[m].marked
    BY DEF NoOrphanMark
  <2>1. CASE machine[m] = [Blank("live") EXCEPT !.provisioned = TRUE, !.member = TRUE]
    BY <2>1 DEF Blank
  <2>2. CASE machine[m] = Blank("absent")
    BY <2>2 DEF Blank
  <2>3. QED
    BY <2>1, <2>2 DEF Init, ClusterInit
<1> SUFFICES ASSUME ~CacheLag PROVE Spec => []NoOrphanMark
  OBVIOUS
<1>2. Inv /\ NoOrphanMark /\ [Next]_vars => NoOrphanMark'
  BY MarkStep
<1>3. QED
  BY <1>1, <1>2, Invariance, PTL DEF Spec
=============================================================================
