-------------------------- MODULE CloudProviderTypes --------------------------
(***************************************************************************)
(* Type correctness of CloudProvider, for any number of NodeClaims,        *)
(* Machines and batches, with current or lagging caches.                   *)
(*                                                                         *)
(* TypeOK alone is not inductive: that spec.replicas stays non-negative    *)
(* after an increment needs that a copy with the current resourceVersion   *)
(* is the current object, and that the Machines a failed rollback leaves   *)
(* behind are Machines needs that a binding or a delete in progress has    *)
(* one.  The inductive invariant is therefore Inv.                         *)
(***************************************************************************)
EXTENDS Requirements, FiniteSetTheorems, TLAPS

Inv == TypeOK /\ CopiesCurrent /\ BindingHasMachine /\ DeleteRequestsPlaced

LEMMA MachinesFinite ==
  ASSUME NEW S, S \subseteq Machines
  PROVE  IsFiniteSet(S) /\ Cardinality(S) \in Nat
BY FS_Subset, FS_CardinalityType, ClusterAssumption DEF ClusterAssumption

LEMMA NodeClaimsFinite ==
  ASSUME NEW S, S \subseteq NodeClaims
  PROVE  IsFiniteSet(S) /\ Cardinality(S) \in Nat
BY FS_Subset, FS_CardinalityType, ClusterAssumption DEF ClusterAssumption

LEMMA MachineTypes ==
  /\ \A phase \in Phases : Blank(phase) \in Machine
  /\ \A object \in Machine :
       /\ [object EXCEPT !.provisioned = TRUE] \in Machine
       /\ [object EXCEPT !.phase = "deleting"] \in Machine
       /\ \A flag \in BOOLEAN : /\ [object EXCEPT !.member = flag] \in Machine
                                /\ [object EXCEPT !.marked = flag] \in Machine
BY DEF Blank, Machine, Phases

LEMMA InitInv == Init => Inv
<1> SUFFICES ASSUME Init PROVE Inv
  OBVIOUS
<1>1. Cardinality(InitiallyBound) \in Nat
  BY NodeClaimsFinite DEF InitiallyBound
<1>2. ClusterTypeOK
  <2>1. [Blank("live") EXCEPT !.provisioned = TRUE, !.member = TRUE] \in Machine
    BY DEF Blank, Machine, Phases
  <2>2. Blank("absent") \in Machine
    BY MachineTypes DEF Phases
  <2>3. machine \in [Machines -> Machine]
    BY <2>1, <2>2 DEF Init, ClusterInit
  <2>4. QED
    BY <1>1, <2>3, InitialAssumption DEF Init, ClusterInit, ClusterTypeOK, MD
<1>3. CreateTypeOK
  BY DEF Init, CreateInit, CreateTypeOK, MaxAttempts
<1>4. DeleteTypeOK
  BY DEF Init, DeleteInit, DeleteTypeOK
<1>5. CallerTypeOK
  BY InitialAssumption, CallerAssumption DEF Init, CallerTypeOK
<1>6. CopiesCurrent
  BY DEF Init, ClusterInit, CopiesCurrent
<1>7. BindingHasMachine /\ DeleteRequestsPlaced
  BY DEF Init, CreateInit, DeleteInit, BindingHasMachine, DeleteRequestsPlaced
<1>8. QED
  BY <1>2, <1>3, <1>4, <1>5, <1>6, <1>7 DEF Inv, TypeOK

-----------------------------------------------------------------------------
(* What a read returns. *)

LEMMA ViewTypes ==
  ASSUME Inv
  PROVE  /\ MDView \in MD
         /\ MDView.version <= md.version
         /\ MDView.version = md.version => MDView = md
         /\ MachineView \in [Machines -> Machine]
         /\ AnnotationView \in [NodeClaims -> Machines \union {NoMachine}]
BY DEF Inv, TypeOK, ClusterTypeOK, CopiesCurrent, MDView, MachineView, AnnotationView, MD

LEMMA UnclaimedMachines == Unclaimed \subseteq Machines /\ Cardinality(Unclaimed) \in Nat
BY MachinesFinite DEF Unclaimed

-----------------------------------------------------------------------------
(* The environment. *)

LEMMA EnvironmentInv ==
  ASSUME Inv, EnvironmentStep
  PROVE  Inv'
<1> USE DEF Inv, EnvironmentStep
<1>1. CreateTypeOK' /\ DeleteTypeOK' /\ CallerTypeOK'
  BY DEF TypeOK, CreateTypeOK, DeleteTypeOK, CallerTypeOK, createVars, bindVars,
         deleteVars, callerVars, CreateTypeOK
<1>2. ASSUME NEW m \in Machines,
             CreateMachine(m) \/ ProvisionMachine(m) \/ ScaleDown(m) \/ RemoveMachine(m)
      PROVE  ClusterTypeOK' /\ CopiesCurrent'
  <2>1. machine' \in [Machines -> Machine]
    <3>1. \E object \in Machine : machine' = [machine EXCEPT ![m] = object]
      <4>1. CASE CreateMachine(m)
        BY <4>1, MachineTypes DEF CreateMachine, Phases
      <4>2. CASE ProvisionMachine(m)
        BY <4>2, MachineTypes DEF ProvisionMachine, TypeOK, ClusterTypeOK
      <4>3. CASE ScaleDown(m)
        BY <4>3, MachineTypes DEF ScaleDown, TypeOK, ClusterTypeOK
      <4>4. CASE RemoveMachine(m)
        BY <4>4, MachineTypes DEF RemoveMachine, Phases
      <4>5. QED
        BY <1>2, <4>1, <4>2, <4>3, <4>4
    <3>2. QED
      BY <3>1 DEF TypeOK, ClusterTypeOK
  <2>2. UNCHANGED <<md, mdCache, machineCache, annotation, annotationCache>>
    BY <1>2 DEF CreateMachine, ProvisionMachine, ScaleDown, RemoveMachine
  <2>3. QED
    BY <2>1, <2>2 DEF TypeOK, ClusterTypeOK, CopiesCurrent
<1>3. ASSUME SyncMD PROVE ClusterTypeOK' /\ CopiesCurrent'
  BY <1>3 DEF SyncMD, TypeOK, ClusterTypeOK, CopiesCurrent, MD
<1>4. ASSUME SyncMachines \/ SyncAnnotations PROVE ClusterTypeOK' /\ CopiesCurrent'
  BY <1>4 DEF SyncMachines, SyncAnnotations, TypeOK, ClusterTypeOK, CopiesCurrent
<1>5. BindingHasMachine' /\ DeleteRequestsPlaced'
  BY DEF BindingHasMachine, DeleteRequestsPlaced, createVars, bindVars, deleteVars, callerVars
<1>6. QED
  BY <1>1, <1>2, <1>3, <1>4, <1>5 DEF Environment, TypeOK

-----------------------------------------------------------------------------
(* Reads and writes of the MachineDeployment and of a Machine. *)

\* An Update that goes through was made from the current object.
LEMMA UpdateMDInv ==
  ASSUME Inv, NEW b \in Executors, NEW replicas \in Nat,
         UpdateMD(mdCopy[b], replicas), UNCHANGED <<mdCache, mdCopy>>
  PROVE  /\ mdCopy[b] = md
         /\ md' \in MD /\ md'.replicas >= 0
         /\ CopiesCurrent'
<1>1. mdCopy[b] = md
  BY DEF Inv, CopiesCurrent, UpdateMD
<1>2. md' \in MD /\ md'.replicas >= 0 /\ md'.version = md.version + 1
  BY DEF Inv, TypeOK, ClusterTypeOK, UpdateMD, MD
<1>3. ASSUME NEW copy \in {mdCache} \union {mdCopy[c] : c \in Executors}
      PROVE  copy.version <= md'.version /\ copy.version # md'.version
  <2>1. copy \in MD /\ copy.version <= md.version
    BY DEF Inv, TypeOK, ClusterTypeOK, CopiesCurrent
  <2>2. QED
    BY <1>2, <2>1 DEF Inv, TypeOK, ClusterTypeOK, MD
<1>4. QED
  BY <1>1, <1>2, <1>3 DEF CopiesCurrent

LEMMA ReadMDInv ==
  ASSUME Inv, NEW b \in Executors,
         mdCopy' = [mdCopy EXCEPT ![b] = MDView], UNCHANGED <<md, mdCache>>
  PROVE  mdCopy' \in [Executors -> MD] /\ CopiesCurrent'
BY ViewTypes DEF Inv, TypeOK, ClusterTypeOK, CopiesCurrent

LEMMA UpdateMachineTypes ==
  ASSUME Inv, NEW m \in Machines, NEW object \in Machine, UpdateMachine(m, object)
  PROVE  machine' \in [Machines -> Machine]
BY DEF Inv, TypeOK, ClusterTypeOK, UpdateMachine

-----------------------------------------------------------------------------
(* The create batch executor. *)

\* The lock, the copies and the counters keep their types when an execution locks
\* or unlocks and touches nothing else of the cluster.
LEMMA LockTypes ==
  ASSUME Inv, NEW b \in Executors,
         \/ Lock(b)
         \/ Unlock(b)
         \/ UNCHANGED lock,
         UNCHANGED <<clusterVars, mdCopy, granted, taken>>
  PROVE  ClusterTypeOK' /\ CopiesCurrent'
BY DEF Inv, TypeOK, ClusterTypeOK, CopiesCurrent, Lock, Unlock, clusterVars

LEMMA BindingTypes ==
  ASSUME Inv, NEW b \in CreateBatches, NEW machines \in Seq(Machines),
         StartBinding(b, machines)
  PROVE  /\ createPC' \in [CreateBatches ->
              {"idle", "lock", "get", "count", "update", "poll", "bind", "done"}]
         /\ found' \in [CreateBatches -> Seq(Machines)]
         /\ bindPC' \in [NodeClaims -> {"idle", "label", "patch", "rollback", "done"}]
         /\ attempt' \in [NodeClaims -> 0 .. MaxAttempts - 1]
         /\ assigned' \in [NodeClaims -> Machines \union {NoMachine}]
         /\ outcome' \in [NodeClaims -> {"none", "launched", "waiting", "failed"}]
         /\ BindingHasMachine'
<1> DEFINE inputs == createInputs[b]
           Paired == {inputs[i] : i \in DOMAIN machines}
           MachineOf(nc) == machines[CHOOSE i \in DOMAIN machines : inputs[i] = nc]
<1>1. ASSUME NEW nc \in Paired PROVE MachineOf(nc) \in Machines
  <2>1. PICK i \in DOMAIN machines : inputs[i] = nc
    BY <1>1
  <2>2. (CHOOSE j \in DOMAIN machines : inputs[j] = nc) \in DOMAIN machines
    BY <2>1
  <2>3. DOMAIN machines = 1 .. Len(machines)
    OBVIOUS
  <2>4. QED
    BY <2>2, <2>3
<1>2. assigned' = [nc \in NodeClaims |-> IF nc \in Paired THEN MachineOf(nc) ELSE assigned[nc]]
  BY DEF StartBinding
<1>3. assigned' \in [NodeClaims -> Machines \union {NoMachine}]
  <2> HIDE DEF Paired, MachineOf
  <2>1. QED
    BY <1>1, <1>2 DEF Inv, TypeOK, CreateTypeOK
<1>4. BindingHasMachine'
  <2>1. bindPC' = [nc \in NodeClaims |-> IF nc \in Paired THEN "label"
                     ELSE IF nc \in CreateInput(b) THEN "done" ELSE bindPC[nc]]
    BY DEF StartBinding
  <2> HIDE DEF Paired, MachineOf
  <2>2. QED
    BY <1>1, <1>2, <2>1 DEF Inv, BindingHasMachine
<1>5. QED
  BY <1>3, <1>4 DEF StartBinding, Inv, TypeOK, CreateTypeOK, MaxAttempts

LEMMA CreateInv ==
  ASSUME Inv, NEW b \in CreateBatches, CreateStep(b)
  PROVE  Inv'
<1>1. b \in Executors /\ UNCHANGED <<taken, deleteVars, callerVars>>
  BY DEF Executors, CreateStep
<1>2. DeleteTypeOK' /\ CallerTypeOK' /\ DeleteRequestsPlaced'
  BY <1>1 DEF Inv, TypeOK, DeleteTypeOK, CallerTypeOK, DeleteRequestsPlaced, deleteVars,
              callerVars
<1> SUFFICES ClusterTypeOK' /\ CopiesCurrent' /\ CreateTypeOK' /\ BindingHasMachine'
  BY <1>2 DEF Inv, TypeOK
<1>3. CASE CreateStart(b)
  <2>1. ClusterTypeOK' /\ CopiesCurrent'
    BY <1>1, <1>3, LockTypes DEF CreateStart
  <2>2. CreateTypeOK' /\ BindingHasMachine'
    BY <1>3 DEF CreateStart, Inv, TypeOK, CreateTypeOK, BindingHasMachine, bindVars
  <2>3. QED
    BY <2>1, <2>2
<1>4. CASE CreateLock(b)
  <2>1. ClusterTypeOK' /\ CopiesCurrent'
    BY <1>1, <1>4, LockTypes DEF CreateLock
  <2>2. CreateTypeOK' /\ BindingHasMachine'
    BY <1>4 DEF CreateLock, Inv, TypeOK, CreateTypeOK, BindingHasMachine, bindVars
  <2>3. QED
    BY <2>1, <2>2
<1>5. ASSUME CreateAbort(b)
      PROVE  /\ CreateTypeOK' /\ BindingHasMachine'
             /\ UNCHANGED <<clusterVars, granted>> => ClusterTypeOK' /\ CopiesCurrent'
  <2>1. UNCHANGED <<clusterVars, granted>> => ClusterTypeOK' /\ CopiesCurrent'
    BY <1>1, <1>5, LockTypes DEF CreateAbort
  <2>2. CreateTypeOK' /\ BindingHasMachine'
    BY <1>5 DEF CreateAbort, Inv, TypeOK, CreateTypeOK, BindingHasMachine
  <2>3. QED
    BY <2>1, <2>2
<1>6. CASE CreateGet(b)
  <2>1. CASE CreateAbort(b)
    BY <1>5, <1>6, <2>1 DEF CreateGet, CreateAbort
  <2>2. CASE ~CreateAbort(b)
    <3>1. /\ mdCopy' = [mdCopy EXCEPT ![b] = MDView]
          /\ createPC' = [createPC EXCEPT ![b] = "count"]
          /\ UNCHANGED <<clusterVars, lock, granted, createQueue, createInputs, deficit,
                         found, bindVars, labelLeaked>>
      BY <1>6, <2>2 DEF CreateGet
    <3>2. ClusterTypeOK' /\ CopiesCurrent'
      BY <1>1, <3>1, ReadMDInv DEF Inv, TypeOK, ClusterTypeOK, clusterVars
    <3>3. CreateTypeOK' /\ BindingHasMachine'
      BY <3>1 DEF Inv, TypeOK, CreateTypeOK, BindingHasMachine, bindVars
    <3>4. QED
      BY <3>2, <3>3
  <2>3. QED
    BY <2>1, <2>2
<1>7. CASE CreateCount(b)
  <2>1. ClusterTypeOK' /\ CopiesCurrent'
    BY <1>1, <1>7, LockTypes DEF CreateCount
  <2>2. PICK unclaimed \in {Cardinality(Unclaimed), 0} :
          LET missing == Len(createInputs[b]) - unclaimed IN
          \/ /\ missing > 0
             /\ deficit' = [deficit EXCEPT ![b] = missing]
             /\ createPC' = [createPC EXCEPT ![b] = "update"]
          \/ /\ createPC' = [createPC EXCEPT ![b] = "poll"]
             /\ UNCHANGED deficit
    BY <1>7 DEF CreateCount, HasDeficit
  <2>3. Len(createInputs[b]) \in Nat /\ unclaimed \in Nat
    BY UnclaimedMachines DEF Inv, TypeOK, CreateTypeOK
  <2>4. deficit' \in [CreateBatches -> Nat]
    BY <2>2, <2>3 DEF Inv, TypeOK, CreateTypeOK
  <2>5. CreateTypeOK' /\ BindingHasMachine'
    BY <1>7, <2>2, <2>4 DEF CreateCount, Inv, TypeOK, CreateTypeOK, BindingHasMachine, bindVars
  <2>6. QED
    BY <2>1, <2>5
<1>8. CASE CreateUpdate(b)
  <2>1. ASSUME Increment(b), Unlock(b), UNCHANGED mdCopy
        PROVE  ClusterTypeOK' /\ CopiesCurrent'
    <3>1. mdCopy[b] = md
      BY <1>1, <2>1 DEF Inv, CopiesCurrent, Increment, UpdateMD
    <3>2. mdCopy[b].replicas + deficit[b] \in Nat /\ deficit[b] \in Nat
      BY <3>1 DEF Inv, TypeOK, ClusterTypeOK, CreateTypeOK, MD
    <3>3. md' \in MD /\ md'.replicas >= 0 /\ CopiesCurrent'
      BY <1>1, <2>1, <3>2, UpdateMDInv DEF Increment
    <3>4. ClusterTypeOK'
      BY <1>1, <2>1, <3>2, <3>3 DEF Inv, TypeOK, ClusterTypeOK, Increment, Unlock
    <3>5. QED
      BY <3>3, <3>4
  <2>2. CASE CreateAbort(b) /\ UNCHANGED <<clusterVars, granted>>
    BY <1>5, <2>2
  <2>3. CASE CreateAbort(b) /\ Increment(b)
    <3>1. Unlock(b) /\ UNCHANGED mdCopy
      BY <2>3 DEF CreateAbort
    <3>2. QED
      BY <1>5, <2>1, <2>3, <3>1
  <2>4. CASE /\ Increment(b)
             /\ Unlock(b)
             /\ createPC' = [createPC EXCEPT ![b] = "poll"]
             /\ deficit' = [deficit EXCEPT ![b] = 0]
             /\ UNCHANGED <<mdCopy, createQueue, createInputs, found, bindVars, labelLeaked>>
    <3>1. CreateTypeOK' /\ BindingHasMachine'
      BY <2>4 DEF Inv, TypeOK, CreateTypeOK, BindingHasMachine, bindVars
    <3>2. QED
      BY <2>1, <2>4, <3>1
  <2>5. QED
    BY <1>8, <2>2, <2>3, <2>4 DEF CreateUpdate
<1>9. CASE Poll(b)
  <2> DEFINE missing == Len(createInputs[b]) - Len(found[b])
             fresh == NotCollected(b)
             size == Min2(missing, Cardinality(fresh))
  <2>1. ClusterTypeOK' /\ CopiesCurrent'
    BY <1>1, <1>9, LockTypes DEF Poll
  <2>2. UNCHANGED <<createQueue, createInputs, deficit, labelLeaked>>
    BY <1>9 DEF Poll
  <2>3. PICK more \in [1 .. size -> fresh] :
          IF size = missing
          THEN StartBinding(b, found[b] \o more)
          ELSE /\ found' = [found EXCEPT ![b] = @ \o more]
               /\ UNCHANGED <<createPC, bindVars>>
    BY <1>9 DEF Poll
  <2>4. fresh \subseteq Machines /\ Cardinality(fresh) \in Nat /\ size > 0
    BY <1>9, MachinesFinite DEF Poll, NotCollected, Unclaimed
  <2>5. size \in Nat
    BY <2>4 DEF Min2, Inv, TypeOK, CreateTypeOK
  <2>6. more \in Seq(Machines)
    <3> HIDE DEF size, fresh
    <3>1. QED
      BY <2>4, <2>5
  <2>7. found[b] \o more \in Seq(Machines)
    BY <2>6 DEF Inv, TypeOK, CreateTypeOK
  <2>8. CreateTypeOK' /\ BindingHasMachine'
    <3>1. CASE StartBinding(b, found[b] \o more)
      BY <2>2, <2>7, <3>1, BindingTypes DEF Inv, TypeOK, CreateTypeOK, BindingHasMachine
    <3>2. CASE /\ found' = [found EXCEPT ![b] = @ \o more]
               /\ UNCHANGED <<createPC, bindVars>>
      BY <2>2, <2>7, <3>2 DEF Inv, TypeOK, CreateTypeOK, BindingHasMachine, bindVars
    <3>3. QED
      BY <2>3, <3>1, <3>2
  <2>9. QED
    BY <2>1, <2>8
<1>10. CASE PollTimeout(b)
  <2>1. ClusterTypeOK' /\ CopiesCurrent'
    BY <1>1, <1>10, LockTypes DEF PollTimeout
  <2>2. found[b] \in Seq(Machines) /\ StartBinding(b, found[b])
    BY <1>10 DEF PollTimeout, Inv, TypeOK, CreateTypeOK
  <2>3. CreateTypeOK' /\ BindingHasMachine'
    BY <1>10, <2>2, BindingTypes DEF PollTimeout, Inv, TypeOK, CreateTypeOK, BindingHasMachine
  <2>4. QED
    BY <2>1, <2>3
<1>11. CASE CreateFinish(b)
  <2>1. ClusterTypeOK' /\ CopiesCurrent'
    BY <1>1, <1>11, LockTypes DEF CreateFinish
  <2>2. CreateTypeOK' /\ BindingHasMachine'
    BY <1>11 DEF CreateFinish, Inv, TypeOK, CreateTypeOK, BindingHasMachine
  <2>3. QED
    BY <2>1, <2>2
<1>12. QED
  BY <1>3, <1>4, <1>6, <1>7, <1>8, <1>9, <1>10, <1>11 DEF CreateStep, CreateExecutor

-----------------------------------------------------------------------------
(* The binding goroutines. *)

LEMMA BindInv ==
  ASSUME Inv, NEW nc \in NodeClaims, BindStep(nc)
  PROVE  Inv'
<1> DEFINE m == assigned[nc]
<1>1. UNCHANGED <<md, mdCache, machineCache, annotationCache, lock, mdCopy, granted, taken,
                  createQueue, createPC, createInputs, deficit, found, assigned>>
      /\ UNCHANGED <<deleteVars, callerVars>>
  BY DEF BindStep, Bind, BindLabel, BindPatch, BindRollback, LabelAgain, BindFails
<1>2. /\ bindPC[nc] \in {"label", "patch", "rollback"}
      /\ m \in Machines
      /\ MachineView[m] \in Machine
  BY ViewTypes DEF BindStep, Bind, BindLabel, BindPatch, BindRollback, Inv, BindingHasMachine
<1>3. machine' \in [Machines -> Machine]
  <2>1. CASE UpdateMachine(m, [MachineView[m] EXCEPT !.member = TRUE])
    BY <1>2, <2>1, MachineTypes, UpdateMachineTypes
  <2>2. CASE UpdateMachine(m, [MachineView[m] EXCEPT !.member = FALSE])
    BY <1>2, <2>2, MachineTypes, UpdateMachineTypes
  <2>3. CASE UNCHANGED machine
    BY <2>3 DEF Inv, TypeOK, ClusterTypeOK
  <2>4. QED
    BY <2>1, <2>2, <2>3 DEF BindStep, Bind, BindLabel, SetLabel, BindPatch, BindRollback
<1>4. annotation' \in [NodeClaims -> Machines \union {NoMachine}]
  BY <1>2 DEF BindStep, Bind, BindLabel, BindPatch, BindRollback, Inv, TypeOK, ClusterTypeOK
<1>5. ClusterTypeOK' /\ CopiesCurrent'
  BY <1>1, <1>3, <1>4 DEF Inv, TypeOK, ClusterTypeOK, CopiesCurrent
<1>6. CreateTypeOK' /\ BindingHasMachine'
  <2>1. CASE BindLabel(nc)
    <3>1. attempt' \in [NodeClaims -> 0 .. MaxAttempts - 1]
      <4>1. attempt \in [NodeClaims -> 0 .. MaxAttempts - 1]
        BY DEF Inv, TypeOK, CreateTypeOK
      <4>2. CASE attempt' = [attempt EXCEPT ![nc] = 0]
        BY <4>1, <4>2 DEF MaxAttempts
      <4>3. CASE /\ attempt[nc] < MaxAttempts - 1
                 /\ attempt' = [attempt EXCEPT ![nc] = attempt[nc] + 1]
        BY <4>1, <4>3 DEF MaxAttempts
      <4>4. QED
        BY <2>1, <4>2, <4>3 DEF BindLabel, LabelAgain, BindFails
    <3>2. \E pc \in {"label", "patch", "done"} : bindPC' = [bindPC EXCEPT ![nc] = pc]
      BY <1>2, <2>1 DEF BindLabel, LabelAgain, BindFails, Inv, TypeOK, CreateTypeOK
    <3>3. outcome' \in [NodeClaims -> {"none", "launched", "waiting", "failed"}]
      BY <2>1 DEF BindLabel, LabelAgain, BindFails, Inv, TypeOK, CreateTypeOK
    <3>4. labelLeaked' \subseteq Machines
      BY <1>2, <2>1 DEF BindLabel, Inv, TypeOK, CreateTypeOK
    <3>5. QED
      BY <1>1, <1>2, <3>1, <3>2, <3>3, <3>4 DEF Inv, TypeOK, CreateTypeOK, BindingHasMachine
  <2>2. CASE BindPatch(nc)
    BY <1>1, <1>2, <2>2 DEF BindPatch, Inv, TypeOK, CreateTypeOK, BindingHasMachine
  <2>3. CASE BindRollback(nc)
    BY <1>1, <1>2, <2>3 DEF BindRollback, BindFails, Inv, TypeOK, CreateTypeOK,
                            BindingHasMachine, MaxAttempts
  <2>4. QED
    BY <2>1, <2>2, <2>3 DEF BindStep, Bind
<1>7. DeleteTypeOK' /\ CallerTypeOK' /\ DeleteRequestsPlaced'
  BY <1>1 DEF Inv, TypeOK, DeleteTypeOK, CallerTypeOK, DeleteRequestsPlaced, deleteVars,
              callerVars
<1>8. QED
  BY <1>5, <1>6, <1>7 DEF Inv, TypeOK

-----------------------------------------------------------------------------
(* The delete batch executor. *)

LEMMA AnnotateInv ==
  ASSUME Inv, NEW nc \in NodeClaims, AnnotateStep(nc)
  PROVE  Inv'
<1> DEFINE m == target[nc]
<1>1. /\ UNCHANGED <<md, mdCache, machineCache, annotation, annotationCache, lock, mdCopy,
                     granted, taken, deleteQueue, deletePC, deleteInputs, target, deleted,
                     paid>>
      /\ UNCHANGED <<createVars, callerVars>>
      /\ markPC[nc] = "annotate"
      /\ UNCHANGED markLeaked \/ markLeaked' = markLeaked \union {m}
      /\ \E fate \in {"annotated", "failed"} : markPC' = [markPC EXCEPT ![nc] = fate]
  BY DEF AnnotateStep, Annotate
<1>2. m \in Machines /\ MachineView[m] \in Machine
  BY <1>1, ViewTypes DEF Inv, DeleteRequestsPlaced
<1>3. machine' \in [Machines -> Machine]
  <2>1. CASE UpdateMachine(m, [MachineView[m] EXCEPT !.marked = TRUE])
    BY <1>2, <2>1, MachineTypes, UpdateMachineTypes
  <2>2. CASE UNCHANGED machine
    BY <2>2 DEF Inv, TypeOK, ClusterTypeOK
  <2>3. QED
    BY <2>1, <2>2 DEF AnnotateStep, Annotate, SetMark
<1>4. ClusterTypeOK' /\ CopiesCurrent'
  BY <1>1, <1>3 DEF Inv, TypeOK, ClusterTypeOK, CopiesCurrent
<1>5. CreateTypeOK' /\ CallerTypeOK' /\ BindingHasMachine'
  BY <1>1 DEF Inv, TypeOK, CreateTypeOK, CallerTypeOK, BindingHasMachine, createVars,
              bindVars, callerVars
<1>6. DeleteTypeOK' /\ DeleteRequestsPlaced'
  BY <1>1, <1>2 DEF Inv, TypeOK, DeleteTypeOK, DeleteRequestsPlaced, callerVars
<1>7. QED
  BY <1>4, <1>5, <1>6 DEF Inv, TypeOK

\* What Deliver leaves of the delete requests.
LEMMA DeliverInv ==
  ASSUME Inv, NEW b \in DeleteBatches, NEW succeeded, Deliver(b, succeeded),
         UNCHANGED <<deleteQueue, target, claim>>
  PROVE  /\ DeleteRequestsPlaced'
         /\ deletePC' \in [DeleteBatches ->
              {"idle", "annotate", "lock", "get", "update", "rollback", "done"}]
         /\ deleteInputs' \in [DeleteBatches -> SUBSET NodeClaims]
         /\ markPC' \in [NodeClaims -> {"idle", "annotate", "annotated", "failed"}]
         /\ deleted' \in [NodeClaims -> {"none", "ok", "failed"}]
BY DEF Deliver, Inv, TypeOK, DeleteTypeOK, DeleteRequestsPlaced

LEMMA DeleteInv ==
  ASSUME Inv, NEW b \in DeleteBatches, DeleteStep(b)
  PROVE  Inv'
<1>1. b \in Executors /\ UNCHANGED <<granted, createVars, callerVars>>
  BY DEF Executors, DeleteStep
<1>2. CreateTypeOK' /\ CallerTypeOK' /\ BindingHasMachine' /\ UNCHANGED claim
  BY <1>1 DEF Inv, TypeOK, CreateTypeOK, CallerTypeOK, BindingHasMachine, createVars,
              bindVars, callerVars
<1> SUFFICES ClusterTypeOK' /\ CopiesCurrent' /\ DeleteTypeOK' /\ DeleteRequestsPlaced'
  BY <1>2 DEF Inv, TypeOK
<1>3. CASE DeleteStart(b)
  <2>1. ClusterTypeOK' /\ CopiesCurrent'
    BY <1>1, <1>3, LockTypes DEF DeleteStart
  <2>2. DeleteTypeOK' /\ DeleteRequestsPlaced'
    BY <1>2, <1>3 DEF DeleteStart, Inv, TypeOK, DeleteTypeOK, DeleteRequestsPlaced
  <2>3. QED
    BY <2>1, <2>2
<1>4. CASE DeleteJoin(b)
  <2>1. ClusterTypeOK' /\ CopiesCurrent'
    BY <1>1, <1>4, LockTypes DEF DeleteJoin
  <2>2. DeleteTypeOK' /\ DeleteRequestsPlaced'
    <3>1. CASE Deliver(b, {})
      BY <1>2, <1>4, <3>1, DeliverInv DEF DeleteJoin, Inv, TypeOK, DeleteTypeOK
    <3>2. CASE ~Deliver(b, {})
      BY <1>2, <1>4, <3>2 DEF DeleteJoin, Inv, TypeOK, DeleteTypeOK, DeleteRequestsPlaced
    <3>3. QED
      BY <3>1, <3>2
  <2>3. QED
    BY <2>1, <2>2
<1>5. CASE DeleteLock(b)
  <2>1. ClusterTypeOK' /\ CopiesCurrent'
    BY <1>1, <1>5, LockTypes DEF DeleteLock
  <2>2. DeleteTypeOK' /\ DeleteRequestsPlaced'
    BY <1>2, <1>5 DEF DeleteLock, Inv, TypeOK, DeleteTypeOK, DeleteRequestsPlaced
  <2>3. QED
    BY <2>1, <2>2
<1>6. ASSUME DeleteAbort(b), deletePC[b] \in {"get", "update"}
      PROVE  /\ DeleteTypeOK' /\ DeleteRequestsPlaced'
             /\ UNCHANGED <<clusterVars, taken>> => ClusterTypeOK' /\ CopiesCurrent'
  <2>1. UNCHANGED <<clusterVars, taken>> => ClusterTypeOK' /\ CopiesCurrent'
    BY <1>1, <1>6, LockTypes DEF DeleteAbort
  <2>2. DeleteTypeOK' /\ DeleteRequestsPlaced'
    BY <1>2, <1>6 DEF DeleteAbort, Inv, TypeOK, DeleteTypeOK, DeleteRequestsPlaced
  <2>3. QED
    BY <2>1, <2>2
<1>7. CASE DeleteGet(b)
  <2>1. CASE DeleteAbort(b)
    BY <1>6, <1>7, <2>1 DEF DeleteGet, DeleteAbort
  <2>2. CASE ~DeleteAbort(b)
    <3>1. /\ mdCopy' = [mdCopy EXCEPT ![b] = MDView]
          /\ deletePC' = [deletePC EXCEPT ![b] = "update"]
          /\ UNCHANGED <<clusterVars, lock, taken, deleteQueue, deleteInputs, target,
                         markPC, deleted, paid, markLeaked>>
      BY <1>7, <2>2 DEF DeleteGet
    <3>2. ClusterTypeOK' /\ CopiesCurrent'
      BY <1>1, <3>1, ReadMDInv DEF Inv, TypeOK, ClusterTypeOK, clusterVars
    <3>3. DeleteTypeOK' /\ DeleteRequestsPlaced'
      BY <1>2, <3>1 DEF Inv, TypeOK, DeleteTypeOK, DeleteRequestsPlaced
    <3>4. QED
      BY <3>2, <3>3
  <2>3. QED
    BY <2>1, <2>2
<1>8. CASE DeleteUpdate(b)
  <2>1. Annotated(b) \subseteq NodeClaims /\ Cardinality(Annotated(b)) \in Nat
    BY NodeClaimsFinite DEF Annotated, Inv, TypeOK, DeleteTypeOK
  <2>2. ASSUME Decrement(b), Unlock(b), UNCHANGED mdCopy
        PROVE  ClusterTypeOK' /\ CopiesCurrent'
    <3> DEFINE current == mdCopy[b].replicas
               new == Lowered(current, Cardinality(Annotated(b)))
    <3>1. mdCopy[b] = md
      BY <1>1, <2>2 DEF Inv, CopiesCurrent, Decrement, UpdateMD
    <3>2. new \in Nat /\ current - new \in Nat
      BY <2>1, <3>1 DEF Lowered, Inv, TypeOK, ClusterTypeOK, MD
    <3>3. md' \in MD /\ md'.replicas >= 0 /\ CopiesCurrent'
      BY <1>1, <2>2, <3>2, UpdateMDInv DEF Decrement
    <3>4. ClusterTypeOK'
      BY <1>1, <2>2, <3>2, <3>3 DEF Inv, TypeOK, ClusterTypeOK, Decrement, Unlock
    <3>5. QED
      BY <3>3, <3>4
  <2>3. CASE DeleteAbort(b) /\ UNCHANGED <<clusterVars, taken>>
    BY <1>6, <1>8, <2>3 DEF DeleteUpdate
  <2>4. CASE DeleteAbort(b) /\ Decrement(b)
    <3>1. Unlock(b) /\ UNCHANGED mdCopy /\ deletePC[b] = "update"
      BY <1>8, <2>4 DEF DeleteAbort, DeleteUpdate
    <3>2. QED
      BY <1>6, <2>2, <2>4, <3>1
  <2>5. CASE /\ Decrement(b)
             /\ Unlock(b)
             /\ Deliver(b, Annotated(b))
             /\ paid' = paid \union {target[nc] : nc \in Annotated(b)}
             /\ UNCHANGED <<mdCopy, deleteQueue, target, markLeaked>>
    <3>1. paid' \subseteq Machines
      BY <2>1, <2>5 DEF Annotated, Inv, TypeOK, DeleteTypeOK, DeleteRequestsPlaced
    <3>2. DeleteTypeOK' /\ DeleteRequestsPlaced'
      BY <1>2, <2>5, <3>1, DeliverInv DEF Inv, TypeOK, DeleteTypeOK
    <3>3. QED
      BY <2>2, <2>5, <3>2
  <2>6. QED
    BY <1>8, <2>3, <2>4, <2>5 DEF DeleteUpdate
<1>9. CASE DeleteFinish(b)
  <2>1. ClusterTypeOK' /\ CopiesCurrent'
    BY <1>1, <1>9, LockTypes DEF DeleteFinish
  <2>2. DeleteTypeOK' /\ DeleteRequestsPlaced'
    BY <1>2, <1>9, DeliverInv DEF DeleteFinish, Inv, TypeOK, DeleteTypeOK
  <2>3. QED
    BY <2>1, <2>2
<1>10. ASSUME NEW nc \in NodeClaims, RollbackMark(b, nc)
       PROVE  ClusterTypeOK' /\ CopiesCurrent' /\ DeleteTypeOK' /\ DeleteRequestsPlaced'
  <2> DEFINE m == target[nc]
  <2>1. markPC[nc] = "annotated" /\ m \in Machines /\ MachineView[m] \in Machine
    BY <1>10, ViewTypes DEF RollbackMark, Annotated, Inv, DeleteRequestsPlaced
  <2>2. machine' \in [Machines -> Machine]
    <3>1. CASE UpdateMachine(m, [MachineView[m] EXCEPT !.marked = FALSE])
      BY <2>1, <3>1, MachineTypes, UpdateMachineTypes
    <3>2. CASE UNCHANGED machine
      BY <3>2 DEF Inv, TypeOK, ClusterTypeOK
    <3>3. QED
      BY <1>10, <3>1, <3>2 DEF RollbackMark
  <2>3. ClusterTypeOK' /\ CopiesCurrent'
    BY <1>1, <1>10, <2>2 DEF RollbackMark, Inv, TypeOK, ClusterTypeOK, CopiesCurrent
  <2>4. DeleteTypeOK' /\ DeleteRequestsPlaced'
    BY <1>2, <1>10, <2>1 DEF RollbackMark, Inv, TypeOK, DeleteTypeOK, DeleteRequestsPlaced
  <2>5. QED
    BY <2>3, <2>4
<1>11. QED
  BY <1>3, <1>4, <1>5, <1>7, <1>8, <1>9, <1>10 DEF DeleteStep, DeleteExecutor

-----------------------------------------------------------------------------
(* CloudProvider.Create and Delete. *)

LEMMA CallerInv ==
  ASSUME Inv, NEW nc \in NodeClaims, Caller(nc)
  PROVE  Inv'
<1>1. UNCHANGED <<clusterVars, lock, mdCopy, granted, taken>>
  BY DEF Caller, CreateExisting, CreateAdd, CreateReturn, Terminate, DeleteFind,
         DeleteNotFound, DeleteAdd, DeleteReturn
<1>2. ClusterTypeOK' /\ CopiesCurrent'
  BY <1>1 DEF Inv, TypeOK, ClusterTypeOK, CopiesCurrent, clusterVars
<1> SUFFICES /\ CreateTypeOK' /\ DeleteTypeOK' /\ CallerTypeOK'
             /\ BindingHasMachine' /\ DeleteRequestsPlaced'
  BY <1>2 DEF Inv, TypeOK
<1>3. CASE CreateExisting(nc) \/ Terminate(nc) \/ DeleteNotFound(nc)
  <2>1. UNCHANGED <<createVars, deleteVars>>
    BY <1>3 DEF CreateExisting, Terminate, DeleteNotFound
  <2>2. CallerTypeOK'
    BY <1>3, ViewTypes DEF CreateExisting, Terminate, DeleteNotFound, Inv, TypeOK, CallerTypeOK
  <2>3. CreateTypeOK' /\ DeleteTypeOK' /\ BindingHasMachine'
    BY <2>1 DEF Inv, TypeOK, CreateTypeOK, DeleteTypeOK, BindingHasMachine, createVars,
                bindVars, deleteVars
  <2>4. DeleteRequestsPlaced'
    BY <1>3, <2>1 DEF CreateExisting, Terminate, DeleteNotFound, Inv, TypeOK, CallerTypeOK,
                      DeleteRequestsPlaced, deleteVars
  <2>5. QED
    BY <2>2, <2>3, <2>4
<1>4. CASE CreateAdd(nc) \/ CreateReturn(nc)
  <2>1. UNCHANGED deleteVars
    BY <1>4 DEF CreateAdd, CreateReturn
  <2>2. CASE CreateAdd(nc)
    <3>1. createQueue' \in Seq(NodeClaims)
      BY <2>2 DEF CreateAdd, Inv, TypeOK, CreateTypeOK
    <3>2. CreateTypeOK' /\ BindingHasMachine'
      BY <2>2, <3>1 DEF CreateAdd, Inv, TypeOK, CreateTypeOK, BindingHasMachine, bindVars
    <3>3. CallerTypeOK'
      BY <2>2 DEF CreateAdd, Inv, TypeOK, CallerTypeOK
    <3>4. claim[nc] = "new" /\ claim' = [claim EXCEPT ![nc] = "creating"]
      BY <2>2 DEF CreateAdd, NeedsMachine
    <3>5. DeleteTypeOK' /\ DeleteRequestsPlaced'
      BY <2>1, <3>4 DEF Inv, TypeOK, DeleteTypeOK, CallerTypeOK, DeleteRequestsPlaced, deleteVars
    <3>6. QED
      BY <3>2, <3>3, <3>5
  <2>3. CASE CreateReturn(nc)
    <3>1. CreateTypeOK' /\ BindingHasMachine'
      BY <2>3 DEF CreateReturn, Inv, TypeOK, CreateTypeOK, BindingHasMachine
    <3>2. CallerTypeOK'
      BY <2>3 DEF CreateReturn, Inv, TypeOK, CreateTypeOK, CallerTypeOK
    <3>3. /\ claim[nc] = "creating"
          /\ \E next \in {"launched", "new"} : claim' = [claim EXCEPT ![nc] = next]
      BY <2>3 DEF CreateReturn
    <3>4. DeleteTypeOK' /\ DeleteRequestsPlaced'
      BY <2>1, <3>3 DEF Inv, TypeOK, DeleteTypeOK, CallerTypeOK, DeleteRequestsPlaced, deleteVars
    <3>5. QED
      BY <3>1, <3>2, <3>4
  <2>4. QED
    BY <1>4, <2>2, <2>3
<1>5. CASE DeleteFind(nc) \/ DeleteAdd(nc) \/ DeleteReturn(nc)
  <2>1. UNCHANGED createVars
    BY <1>5 DEF DeleteFind, DeleteAdd, DeleteReturn
  <2>2. CreateTypeOK' /\ BindingHasMachine'
    BY <2>1 DEF Inv, TypeOK, CreateTypeOK, BindingHasMachine, createVars, bindVars
  <2>3. CASE DeleteFind(nc)
    <3>1. PICK m \in Machines :
            target' = [target EXCEPT ![nc] = m] /\ claim' = [claim EXCEPT ![nc] = "checking"]
      BY <2>3, ViewTypes DEF DeleteFind, Inv, TypeOK, CallerTypeOK
    <3>2. DeleteTypeOK' /\ CallerTypeOK' /\ DeleteRequestsPlaced'
      BY <2>3, <3>1 DEF DeleteFind, Inv, TypeOK, DeleteTypeOK, CallerTypeOK,
                        DeleteRequestsPlaced
    <3>3. QED
      BY <2>2, <3>2
  <2>4. CASE DeleteAdd(nc)
    <3>1. markPC[nc] = "idle" /\ deleted[nc] = "none" /\ nc \notin deleteQueue
          /\ target[nc] \in Machines /\ claim[nc] = "checking"
      BY <2>4 DEF DeleteAdd, Inv, TypeOK, DeleteTypeOK, DeleteRequestsPlaced
    <3>2. CASE /\ deleteQueue' = deleteQueue \union {nc}
               /\ claim' = [claim EXCEPT ![nc] = "deleting"]
               /\ UNCHANGED target
      BY <2>2, <2>4, <3>1, <3>2 DEF DeleteAdd, Inv, TypeOK, DeleteTypeOK, CallerTypeOK,
                              DeleteRequestsPlaced
    <3>3. CASE /\ claim' = [claim EXCEPT ![nc] = "terminating"]
               /\ target' = [target EXCEPT ![nc] = NoMachine]
               /\ UNCHANGED deleteQueue
      BY <2>2, <2>4, <3>1, <3>3 DEF DeleteAdd, Inv, TypeOK, DeleteTypeOK, CallerTypeOK,
                              DeleteRequestsPlaced
    <3>4. QED
      BY <2>2, <2>4, <3>2, <3>3 DEF DeleteAdd
  <2>5. CASE DeleteReturn(nc)
    <3>1. nc \notin deleteQueue /\ markPC[nc] = "idle"
      BY <2>5 DEF DeleteReturn, Inv, DeleteRequestsPlaced
    <3>2. DeleteTypeOK' /\ CallerTypeOK' /\ DeleteRequestsPlaced'
      BY <2>5, <3>1 DEF DeleteReturn, Inv, TypeOK, DeleteTypeOK, CallerTypeOK,
                        DeleteRequestsPlaced
    <3>3. QED
      BY <2>2, <3>2
  <2>6. QED
    BY <1>5, <2>3, <2>4, <2>5
<1>6. QED
  BY <1>3, <1>4, <1>5 DEF Caller

-----------------------------------------------------------------------------
(* A restart of the process. *)

LEMMA RestartInv ==
  ASSUME Inv, Restart
  PROVE  Inv'
<1>1. ClusterTypeOK' /\ CopiesCurrent'
  BY DEF Restart, Inv, TypeOK, ClusterTypeOK, CopiesCurrent, clusterVars
<1>2. CreateTypeOK' /\ BindingHasMachine'
  <2>1. createPC' \in [CreateBatches -> {"idle", "done"}]
    BY DEF Restart, CreateLost
  <2>2. QED
    BY <2>1 DEF Restart, CreateLost, Inv, TypeOK, CreateTypeOK, BindingHasMachine, MaxAttempts
<1>3. DeleteTypeOK'
  <2>1. deletePC' \in [DeleteBatches -> {"idle", "done"}]
    BY DEF Restart, DeleteLost
  <2>2. QED
    BY <2>1 DEF Restart, DeleteLost, Inv, TypeOK, DeleteTypeOK
<1>4. CallerTypeOK'
  <2>1. restarts' \in 0 .. MaxRestarts
    BY CallerAssumption DEF Restart, Inv, TypeOK, CallerTypeOK
  <2>2. QED
    BY <2>1 DEF Restart, Inv, TypeOK, CallerTypeOK
<1>5. DeleteRequestsPlaced'
  <2>1. \A nc \in NodeClaims : claim'[nc] # "checking"
    BY DEF Restart, Inv, TypeOK, CallerTypeOK
  <2>2. QED
    BY <2>1 DEF Restart, DeleteLost, DeleteRequestsPlaced
<1>6. QED
  BY <1>1, <1>2, <1>3, <1>4, <1>5 DEF Inv, TypeOK

-----------------------------------------------------------------------------
LEMMA NextInv == Inv /\ [Next]_vars => Inv'
<1> SUFFICES ASSUME Inv, [Next]_vars PROVE Inv'
  OBVIOUS
<1>1. CASE UNCHANGED vars
  <2>1. ClusterTypeOK' /\ CopiesCurrent'
    BY <1>1 DEF Inv, TypeOK, ClusterTypeOK, CopiesCurrent, vars, clusterVars
  <2>2. CreateTypeOK' /\ BindingHasMachine'
    BY <1>1 DEF Inv, TypeOK, CreateTypeOK, BindingHasMachine, vars, createVars, bindVars
  <2>3. DeleteTypeOK' /\ CallerTypeOK' /\ DeleteRequestsPlaced'
    BY <1>1 DEF Inv, TypeOK, DeleteTypeOK, CallerTypeOK, DeleteRequestsPlaced, vars,
                deleteVars, callerVars
  <2>4. QED
    BY <2>1, <2>2, <2>3 DEF Inv, TypeOK
<1>2. CASE Next
  BY <1>2, EnvironmentInv, CreateInv, DeleteInv, BindInv, AnnotateInv, CallerInv,
      RestartInv DEF Next
<1>3. QED
  BY <1>1, <1>2

LEMMA Invariance == Spec => []Inv
BY InitInv, NextInv, PTL DEF Spec

\* Every variable keeps its type in every behaviour, and spec.replicas is never
\* set to a negative number (delete.go:152-156).
THEOREM TypeCorrect == Spec => []TypeOK
<1>1. Inv => TypeOK
  BY DEF Inv
<1>2. QED
  BY Invariance, <1>1, PTL

=============================================================================
