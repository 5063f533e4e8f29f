-------------------------- MODULE CreateRequestProofs --------------------------
(***************************************************************************)
(* Where a create request is at any time, and that one batch never gives a *)
(* Machine to two NodeClaims, for any number of NodeClaims, Machines and   *)
(* batches, with current or lagging caches, lost replies and restarts.     *)
(***************************************************************************)
EXTENDS CloudProviderTypes

LEMMA RangeOfAppended ==
  ASSUME NEW S, NEW s \in Seq(S), NEW x \in S
  PROVE  Range(Append(s, x)) = Range(s) \union {x}
<1>1. /\ Append(s, x) \in Seq(S) /\ Len(s) \in Nat
      /\ DOMAIN s = 1 .. Len(s) /\ DOMAIN Append(s, x) = 1 .. Len(s) + 1
      /\ \A i \in 1 .. Len(s) : Append(s, x)[i] = s[i]
      /\ Append(s, x)[Len(s) + 1] = x
  OBVIOUS
<1>2. ASSUME NEW y \in Range(Append(s, x)) PROVE y \in Range(s) \union {x}
  <2>1. PICK i \in 1 .. Len(s) + 1 : y = Append(s, x)[i]
    BY <1>1, <1>2 DEF Range
  <2>2. i = Len(s) + 1 \/ i \in 1 .. Len(s)
    BY <1>1, <2>1
  <2>3. QED
    BY <1>1, <2>1, <2>2 DEF Range
<1>3. ASSUME NEW y \in Range(s) PROVE y \in Range(Append(s, x))
  <2>1. PICK i \in 1 .. Len(s) : y = s[i]
    BY <1>1, <1>3 DEF Range
  <2>2. i \in 1 .. Len(s) + 1 /\ y = Append(s, x)[i]
    BY <1>1, <2>1
  <2>3. QED
    BY <1>1, <2>2 DEF Range
<1>4. x \in Range(Append(s, x))
  BY <1>1 DEF Range
<1>5. QED
  BY <1>2, <1>3, <1>4

LEMMA EmptySequence == Range(<<>>) = {} /\ IsInjective(<<>>) /\ Len(<<>>) = 0
BY DEF Range, IsInjective

\* Distinct Machines that a poll adds to what it has collected stay distinct.
LEMMA Collected ==
  ASSUME NEW s \in Seq(Machines), NEW n \in Nat, NEW more \in Seq(Machines),
         Len(more) = n, IsInjective(s), IsInjective(more),
         \A i \in 1 .. n : more[i] \notin Range(s)
  PROVE  /\ s \o more \in Seq(Machines)
         /\ Len(s \o more) = Len(s) + n
         /\ IsInjective(s \o more)
<1>1. /\ s \o more \in Seq(Machines) /\ Len(s) \in Nat
      /\ Len(s \o more) = Len(s) + n
      /\ DOMAIN s = 1 .. Len(s) /\ DOMAIN more = 1 .. n
      /\ DOMAIN (s \o more) = 1 .. Len(s) + n
  OBVIOUS
<1>2. /\ \A i \in 1 .. Len(s) : (s \o more)[i] = s[i]
      /\ \A i \in Len(s) + 1 .. Len(s) + n :
           i - Len(s) \in 1 .. n /\ (s \o more)[i] = more[i - Len(s)]
  OBVIOUS
<1>3. ASSUME NEW i \in 1 .. Len(s) + n, NEW j \in 1 .. Len(s) + n,
             (s \o more)[i] = (s \o more)[j]
      PROVE  i = j
  <2>1. CASE i \in 1 .. Len(s) /\ j \in 1 .. Len(s)
    BY <1>1, <1>2, <1>3, <2>1 DEF IsInjective
  <2>2. CASE i \in 1 .. Len(s) /\ j \in Len(s) + 1 .. Len(s) + n
    BY <1>1, <1>2, <1>3, <2>2 DEF Range
  <2>3. CASE i \in Len(s) + 1 .. Len(s) + n /\ j \in 1 .. Len(s)
    BY <1>1, <1>2, <1>3, <2>3 DEF Range
  <2>4. CASE i \in Len(s) + 1 .. Len(s) + n /\ j \in Len(s) + 1 .. Len(s) + n
    <3>1. i - Len(s) = j - Len(s)
      BY <1>1, <1>2, <1>3, <2>4 DEF IsInjective
    <3>2. QED
      BY <1>1, <2>4, <3>1
  <2>5. QED
    BY <1>1, <2>1, <2>2, <2>3, <2>4
<1>4. QED
  BY <1>1, <1>3 DEF IsInjective

-----------------------------------------------------------------------------
(* Each request is in the queue or in one batch. *)

LEMMA InitPlaced == Init => CreateRequestsPlaced
BY EmptySequence DEF Init, CreateInit, CreateRequestsPlaced, CreateInput, Waiting, Unbound

\* Nothing of the create requests changes.
LEMMA RequestsRest ==
  ASSUME CreateRequestsPlaced,
         UNCHANGED <<createQueue, createPC, createInputs, found, bindVars>>,
         \A nc \in NodeClaims : claim'[nc] = "creating" <=> claim[nc] = "creating"
  PROVE  CreateRequestsPlaced'
<1>1. /\ Range(createQueue)' = Range(createQueue)
      /\ \A b \in CreateBatches : /\ createPC'[b] = createPC[b] /\ found'[b] = found[b]
                                 /\ createInputs'[b] = createInputs[b]
                                 /\ CreateInput(b)' = CreateInput(b)
  BY DEF CreateInput
<1>2. \A nc \in NodeClaims : /\ bindPC'[nc] = bindPC[nc] /\ outcome'[nc] = outcome[nc]
                             /\ Unbound(nc)' <=> Unbound(nc)
                             /\ Waiting(nc)' <=> Waiting(nc)
  BY <1>1 DEF Waiting, Unbound, bindVars
<1>3. QED
  BY <1>1, <1>2 DEF CreateRequestsPlaced

\* An execution advances, short of binding.
LEMMA ExecutionAdvances ==
  ASSUME Inv, CreateRequestsPlaced, NEW b \in CreateBatches, NEW pc,
         UNCHANGED <<createQueue, createInputs, found, bindVars, claim>>,
         createPC[b] \in {"lock", "get", "count", "update"},
         pc \in {"get", "count", "update", "poll"},
         createPC' = [createPC EXCEPT ![b] = pc]
  PROVE  CreateRequestsPlaced'
<1>1. /\ createPC'[b] = pc
      /\ \A c \in CreateBatches \ {b} : createPC'[c] = createPC[c]
  BY DEF Inv, TypeOK, CreateTypeOK
<1>2. \A c \in CreateBatches : createPC'[c] = "bind" <=> createPC[c] = "bind"
  BY <1>1
<1>3. /\ Range(createQueue)' = Range(createQueue)
      /\ \A c \in CreateBatches : /\ createInputs'[c] = createInputs[c]
                                 /\ found'[c] = found[c]
                                 /\ CreateInput(c)' = CreateInput(c)
  BY DEF CreateInput
<1>4. \A nc \in NodeClaims : /\ bindPC'[nc] = bindPC[nc] /\ outcome'[nc] = outcome[nc]
                             /\ claim'[nc] = claim[nc]
                             /\ Unbound(nc)' <=> Unbound(nc)
                             /\ Waiting(nc)' <=> Waiting(nc)
  BY <1>2, <1>3 DEF Waiting, Unbound, bindVars
<1>5. /\ createPC'[b] \notin {"idle", "done", "bind"}
      /\ found[b] = <<>> /\ createPC[b] \notin {"idle", "done", "bind"}
  BY <1>1 DEF CreateRequestsPlaced
<1>6. QED
  BY <1>1, <1>2, <1>3, <1>4, <1>5 DEF CreateRequestsPlaced

LEMMA StartPlaced ==
  ASSUME Inv, CreateRequestsPlaced, NEW b \in CreateBatches, CreateStart(b), UNCHANGED claim
  PROVE  CreateRequestsPlaced'
<1>1. /\ createPC[b] = "idle"
      /\ createPC' = [createPC EXCEPT ![b] = "lock"]
      /\ createInputs' = [createInputs EXCEPT ![b] = createQueue]
      /\ createQueue' = <<>>
      /\ UNCHANGED <<found, bindVars>>
  BY DEF CreateStart
<1>2. /\ createPC'[b] = "lock" /\ createInputs'[b] = createQueue
      /\ \A c \in CreateBatches \ {b} :
           createPC'[c] = createPC[c] /\ createInputs'[c] = createInputs[c]
  BY <1>1 DEF Inv, TypeOK, CreateTypeOK
<1>3. createInputs[b] = <<>> /\ CreateInput(b) = {} /\ found[b] = <<>>
  BY <1>1, EmptySequence DEF CreateRequestsPlaced, CreateInput
<1>4. /\ CreateInput(b)' = Range(createQueue) /\ Range(createQueue)' = {}
      /\ \A c \in CreateBatches \ {b} : CreateInput(c)' = CreateInput(c)
  BY <1>1, <1>2, EmptySequence DEF CreateInput
<1>5. \A nc \in NodeClaims : Waiting(nc)' <=> Waiting(nc)
  BY <1>1, <1>2, <1>3, <1>4 DEF Waiting
<1>6. Len(createQueue) \in Nat
  BY DEF Inv, TypeOK, CreateTypeOK
<1>7. QED
  BY <1>1, <1>2, <1>3, <1>4, <1>5, <1>6, EmptySequence
  DEF CreateRequestsPlaced, Unbound, bindVars

LEMMA AbortPlaced ==
  ASSUME Inv, CreateRequestsPlaced, NEW b \in CreateBatches, CreateAbort(b), UNCHANGED claim,
         createPC[b] \in {"get", "update"}
  PROVE  CreateRequestsPlaced'
<1>1. /\ createPC' = [createPC EXCEPT ![b] = "done"]
      /\ createInputs' = [createInputs EXCEPT ![b] = <<>>]
      /\ UNCHANGED <<createQueue, found, bindPC, assigned>>
      /\ \A nc \in NodeClaims :
           outcome'[nc] = IF nc \in CreateInput(b) THEN "failed" ELSE outcome[nc]
  BY DEF CreateAbort
<1>2. /\ createPC'[b] = "done" /\ createInputs'[b] = <<>>
      /\ \A c \in CreateBatches \ {b} :
           createPC'[c] = createPC[c] /\ createInputs'[c] = createInputs[c]
  BY <1>1 DEF Inv, TypeOK, CreateTypeOK
<1>3. found[b] = <<>>
  BY DEF CreateRequestsPlaced
<1>4. /\ CreateInput(b)' = {} /\ Range(createQueue)' = Range(createQueue)
      /\ \A c \in CreateBatches \ {b} : CreateInput(c)' = CreateInput(c)
  BY <1>1, <1>2, EmptySequence DEF CreateInput
<1>5. \A nc \in NodeClaims : Waiting(nc)' <=> Waiting(nc) /\ nc \notin CreateInput(b)
  BY <1>1, <1>2, <1>4 DEF Waiting, CreateRequestsPlaced
<1>6. \A nc \in NodeClaims : nc \in CreateInput(b) => Waiting(nc)
  BY DEF Waiting
<1>7. QED
  BY <1>1, <1>2, <1>3, <1>4, <1>5, <1>6, EmptySequence DEF CreateRequestsPlaced, Unbound

\* A poll collects more Machines.
LEMMA CollectPlaced ==
  ASSUME Inv, CreateRequestsPlaced, NEW b \in CreateBatches, NEW machines \in Seq(Machines),
         createPC[b] = "poll", found' = [found EXCEPT ![b] = machines],
         Len(machines) <= Len(createInputs[b]), IsInjective(machines),
         UNCHANGED <<createQueue, createPC, createInputs, bindVars, claim>>
  PROVE  CreateRequestsPlaced'
<1>1. /\ found'[b] = machines
      /\ \A c \in CreateBatches \ {b} : found'[c] = found[c]
  BY DEF Inv, TypeOK, CreateTypeOK
<1>2. /\ Range(createQueue)' = Range(createQueue)
      /\ \A c \in CreateBatches : /\ createPC'[c] = createPC[c]
                                 /\ createInputs'[c] = createInputs[c]
                                 /\ CreateInput(c)' = CreateInput(c)
  BY DEF CreateInput
<1>3. \A nc \in NodeClaims : /\ bindPC'[nc] = bindPC[nc] /\ outcome'[nc] = outcome[nc]
                             /\ claim'[nc] = claim[nc]
                             /\ Unbound(nc)' <=> Unbound(nc)
                             /\ Waiting(nc)' <=> Waiting(nc)
  BY <1>2 DEF Waiting, Unbound, bindVars
<1>4. QED
  BY <1>1, <1>2, <1>3 DEF CreateRequestsPlaced

\* What StartBinding makes of a batch: the NodeClaims that get a Machine are inputs
\* of the batch, and their Machines are distinct.
LEMMA Pairing ==
  ASSUME Inv, NEW b \in CreateBatches, NEW machines \in Seq(Machines),
         Len(machines) <= Len(createInputs[b]), IsInjective(machines),
         StartBinding(b, machines)
  PROVE  \E Paired \in SUBSET CreateInput(b) :
           /\ \A nc \in NodeClaims :
                IF nc \in Paired
                THEN bindPC'[nc] = "label" /\ assigned'[nc] \in Machines
                     /\ outcome'[nc] = outcome[nc]
                ELSE IF nc \in CreateInput(b)
                THEN bindPC'[nc] = "done" /\ assigned'[nc] = assigned[nc]
                     /\ outcome'[nc] = "failed"
                ELSE bindPC'[nc] = bindPC[nc] /\ assigned'[nc] = assigned[nc]
                     /\ outcome'[nc] = outcome[nc]
           /\ \A nc1, nc2 \in Paired : nc1 # nc2 => assigned'[nc1] # assigned'[nc2]
           /\ \A nc \in Paired : assigned'[nc] \in Range(machines)
<1> DEFINE inputs == createInputs[b]
           Paired == {inputs[i] : i \in DOMAIN machines}
           Index(nc) == CHOOSE i \in DOMAIN machines : inputs[i] = nc
<1>1. inputs \in Seq(NodeClaims) /\ Len(inputs) \in Nat /\ Len(machines) \in Nat
      /\ DOMAIN inputs = 1 .. Len(inputs) /\ DOMAIN machines = 1 .. Len(machines)
  BY DEF Inv, TypeOK, CreateTypeOK
<1>2. Paired \subseteq CreateInput(b) /\ CreateInput(b) \subseteq NodeClaims
  BY <1>1 DEF CreateInput, Range
<1>3. \A nc \in Paired : Index(nc) \in DOMAIN machines /\ inputs[Index(nc)] = nc
  OBVIOUS
<1>4. /\ bindPC' = [nc \in NodeClaims |->
             IF nc \in Paired THEN "label"
             ELSE IF nc \in CreateInput(b) THEN "done" ELSE bindPC[nc]]
      /\ assigned' = [nc \in NodeClaims |->
             IF nc \in Paired THEN machines[Index(nc)] ELSE assigned[nc]]
      /\ outcome' = [nc \in NodeClaims |->
             IF nc \in CreateInput(b) \ Paired THEN "failed" ELSE outcome[nc]]
  BY DEF StartBinding
<1>5. \A i \in DOMAIN machines : machines[i] \in Machines /\ machines[i] \in Range(machines)
  BY <1>1 DEF Range
<1>6. /\ \A nc \in Paired : /\ machines[Index(nc)] \in Machines
                            /\ machines[Index(nc)] \in Range(machines)
      /\ \A nc1, nc2 \in Paired : nc1 # nc2 => machines[Index(nc1)] # machines[Index(nc2)]
  BY <1>3, <1>5 DEF IsInjective
<1> HIDE DEF Paired, Index
<1>7. /\ \A nc \in NodeClaims :
           IF nc \in Paired
           THEN bindPC'[nc] = "label" /\ assigned'[nc] \in Machines
                /\ outcome'[nc] = outcome[nc]
           ELSE IF nc \in CreateInput(b)
           THEN bindPC'[nc] = "done" /\ assigned'[nc] = assigned[nc]
                /\ outcome'[nc] = "failed"
           ELSE bindPC'[nc] = bindPC[nc] /\ assigned'[nc] = assigned[nc]
                /\ outcome'[nc] = outcome[nc]
      /\ \A nc1, nc2 \in Paired : nc1 # nc2 => assigned'[nc1] # assigned'[nc2]
      /\ \A nc \in Paired : assigned'[nc] \in Range(machines)
  BY <1>2, <1>4, <1>6
<1>8. QED
  BY <1>2, <1>7

LEMMA BindingPlaced ==
  ASSUME Inv, CreateRequestsPlaced, NEW b \in CreateBatches, NEW machines \in Seq(Machines),
         createPC[b] = "poll", StartBinding(b, machines),
         Len(machines) <= Len(createInputs[b]), IsInjective(machines),
         UNCHANGED <<createQueue, createInputs, claim>>
  PROVE  CreateRequestsPlaced'
<1>1. PICK Paired \in SUBSET CreateInput(b) :
        \A nc \in NodeClaims :
          IF nc \in Paired
          THEN bindPC'[nc] = "label" /\ assigned'[nc] \in Machines
               /\ outcome'[nc] = outcome[nc]
          ELSE IF nc \in CreateInput(b)
          THEN bindPC'[nc] = "done" /\ assigned'[nc] = assigned[nc]
               /\ outcome'[nc] = "failed"
          ELSE bindPC'[nc] = bindPC[nc] /\ assigned'[nc] = assigned[nc]
               /\ outcome'[nc] = outcome[nc]
  BY Pairing
<1>2. /\ createPC'[b] = "bind" /\ found'[b] = <<>>
      /\ \A c \in CreateBatches \ {b} : createPC'[c] = createPC[c] /\ found'[c] = found[c]
      /\ Range(createQueue)' = Range(createQueue)
      /\ \A c \in CreateBatches : createInputs'[c] = createInputs[c]
                                  /\ CreateInput(c)' = CreateInput(c)
  BY DEF StartBinding, Inv, TypeOK, CreateTypeOK, CreateInput
<1>3. Len(createInputs[b]) \in Nat
  BY DEF Inv, TypeOK, CreateTypeOK
<1>4. \A nc \in NodeClaims : nc \in CreateInput(b) => Waiting(nc)
  BY DEF Waiting
<1>5. \A nc \in NodeClaims : Waiting(nc)' <=> Waiting(nc) /\ nc \notin CreateInput(b)
  BY <1>2 DEF Waiting, CreateRequestsPlaced
<1>6. \A nc \in NodeClaims : nc \notin CreateInput(b) =>
        bindPC'[nc] = bindPC[nc] /\ outcome'[nc] = outcome[nc] /\ (Unbound(nc)' <=> Unbound(nc))
  BY <1>1 DEF Unbound
<1>7. \A nc \in NodeClaims : nc \in CreateInput(b) =>
        /\ claim[nc] = "creating" /\ Unbound(nc)
        /\ \/ bindPC'[nc] = "label" /\ outcome'[nc] = "none"
           \/ bindPC'[nc] = "done" /\ outcome'[nc] = "failed"
  BY <1>1, <1>4 DEF CreateRequestsPlaced, Unbound
<1>8. QED
  BY <1>2, <1>3, <1>5, <1>6, <1>7, EmptySequence DEF CreateRequestsPlaced

LEMMA BindPlaced ==
  ASSUME Inv, CreateRequestsPlaced, NEW nc \in NodeClaims, BindStep(nc)
  PROVE  CreateRequestsPlaced'
<1>1. /\ UNCHANGED <<createQueue, createPC, createInputs, found, assigned, claim>>
      /\ bindPC[nc] \in {"label", "patch", "rollback"}
  BY DEF BindStep, Bind, BindLabel, BindPatch, BindRollback, callerVars
<1>2. /\ \A other \in NodeClaims \ {nc} :
           bindPC'[other] = bindPC[other] /\ outcome'[other] = outcome[other]
      /\ \/ bindPC'[nc] = "label" /\ bindPC[nc] = "label" /\ outcome'[nc] = outcome[nc]
         \/ /\ bindPC'[nc] = "patch" /\ bindPC[nc] = "label"
            /\ outcome'[nc] \in {"launched", "waiting"}
         \/ /\ bindPC[nc] = "patch" /\ bindPC'[nc] \in {"done", "rollback"}
            /\ outcome'[nc] = outcome[nc]
         \/ bindPC'[nc] = "done" /\ outcome'[nc] = "failed"
  BY DEF BindStep, Bind, BindLabel, LabelAgain, BindFails, BindPatch, BindRollback, Inv, TypeOK,
         CreateTypeOK
<1>3. /\ Range(createQueue)' = Range(createQueue)
      /\ \A c \in CreateBatches : CreateInput(c)' = CreateInput(c)
  BY <1>1 DEF CreateInput
<1>4. \A other \in NodeClaims : Waiting(other)' <=> Waiting(other)
  BY <1>1, <1>3 DEF Waiting
<1>5. \A other \in NodeClaims \ {nc} : Unbound(other)' <=> Unbound(other)
  BY <1>1, <1>2 DEF Unbound
<1>6. ~Waiting(nc) /\ claim[nc] = "creating"
  BY <1>1 DEF CreateRequestsPlaced, Unbound
<1>7. bindPC'[nc] # "idle" /\ outcome[nc] \in {"none", "launched", "waiting", "failed"}
  BY <1>2 DEF Inv, TypeOK, CreateTypeOK
<1>8. QED
  BY <1>1, <1>2, <1>3, <1>4, <1>5, <1>6, <1>7 DEF CreateRequestsPlaced

LEMMA FinishPlaced ==
  ASSUME Inv, CreateRequestsPlaced, NEW b \in CreateBatches, CreateFinish(b), UNCHANGED claim
  PROVE  CreateRequestsPlaced'
<1>1. /\ createPC[b] = "bind"
      /\ createPC'[b] = "done" /\ createInputs'[b] = <<>>
      /\ \A c \in CreateBatches \ {b} :
           createPC'[c] = createPC[c] /\ createInputs'[c] = createInputs[c]
      /\ \A nc \in NodeClaims :
           bindPC'[nc] = IF nc \in CreateInput(b) THEN "idle" ELSE bindPC[nc]
      /\ UNCHANGED <<createQueue, found, assigned, outcome>>
  BY DEF CreateFinish, Inv, TypeOK, CreateTypeOK
<1>2. /\ CreateInput(b)' = {} /\ Range(createQueue)' = Range(createQueue)
      /\ \A c \in CreateBatches \ {b} : CreateInput(c)' = CreateInput(c)
  BY <1>1, EmptySequence DEF CreateInput
<1>3. \A nc \in NodeClaims : Waiting(nc)' <=> Waiting(nc)
  BY <1>1, <1>2 DEF Waiting
<1>4. \A nc \in NodeClaims : nc \in CreateInput(b) => claim[nc] = "creating" /\ ~Waiting(nc)
  BY <1>1 DEF CreateRequestsPlaced, Unbound
<1>5. \A nc \in NodeClaims : nc \notin CreateInput(b) =>
        bindPC'[nc] = bindPC[nc] /\ (Unbound(nc)' <=> Unbound(nc))
  BY <1>1 DEF Unbound
<1>6. found[b] = <<>>
  BY <1>1 DEF CreateRequestsPlaced
<1>7. QED
  BY <1>1, <1>2, <1>3, <1>4, <1>5, <1>6, EmptySequence DEF CreateRequestsPlaced

LEMMA AddPlaced ==
  ASSUME Inv, CreateRequestsPlaced, NEW nc \in NodeClaims, CreateAdd(nc)
  PROVE  CreateRequestsPlaced'
<1>1. /\ UNCHANGED <<createPC, createInputs, found, bindPC, assigned, outcome>>
      /\ createQueue' = Append(createQueue, nc)
      /\ claim[nc] = "new" /\ claim' = [claim EXCEPT ![nc] = "creating"]
  BY DEF CreateAdd, NeedsMachine, bindVars
<1>2. /\ claim'[nc] = "creating"
      /\ \A other \in NodeClaims \ {nc} : claim'[other] = claim[other]
  BY <1>1 DEF Inv, TypeOK, CallerTypeOK
<1>3. /\ Range(createQueue)' = Range(createQueue) \union {nc}
      /\ \A c \in CreateBatches : CreateInput(c)' = CreateInput(c)
  BY <1>1, RangeOfAppended DEF CreateInput, Inv, TypeOK, CreateTypeOK
<1>4. \A other \in NodeClaims : Waiting(other)' <=> Waiting(other) \/ other = nc
  BY <1>1, <1>3 DEF Waiting
<1>5. \A other \in NodeClaims : Unbound(other)' <=> Unbound(other)
  BY <1>1 DEF Unbound
<1>6. Unbound(nc) /\ ~Waiting(nc)
  BY <1>1 DEF CreateRequestsPlaced
<1>7. \A c \in CreateBatches : nc \notin CreateInput(c)
  BY <1>1, <1>6 DEF CreateRequestsPlaced, Waiting
<1>8. QED
  BY <1>1, <1>2, <1>3, <1>4, <1>5, <1>6, <1>7 DEF CreateRequestsPlaced

LEMMA ReturnPlaced ==
  ASSUME Inv, CreateRequestsPlaced, NEW nc \in NodeClaims, CreateReturn(nc)
  PROVE  CreateRequestsPlaced'
<1>1. /\ UNCHANGED <<createQueue, createPC, createInputs, found, bindPC>>
      /\ bindPC[nc] = "idle" /\ outcome[nc] # "none"
      /\ outcome'[nc] = "none" /\ assigned'[nc] = NoMachine
      /\ \A other \in NodeClaims \ {nc} :
           /\ outcome'[other] = outcome[other] /\ assigned'[other] = assigned[other]
           /\ claim'[other] = claim[other]
  BY DEF CreateReturn, Inv, TypeOK, CreateTypeOK, CallerTypeOK
<1>2. /\ Range(createQueue)' = Range(createQueue)
      /\ \A c \in CreateBatches : CreateInput(c)' = CreateInput(c)
  BY <1>1 DEF CreateInput
<1>3. \A other \in NodeClaims : Waiting(other)' <=> Waiting(other)
  BY <1>1, <1>2 DEF Waiting
<1>4. /\ Unbound(nc)' /\ ~Waiting(nc)
      /\ \A other \in NodeClaims \ {nc} : Unbound(other)' <=> Unbound(other)
  BY <1>1 DEF Unbound, CreateRequestsPlaced
<1>5. \A c \in CreateBatches : createPC[c] = "bind" => nc \notin CreateInput(c)
  BY <1>1 DEF CreateRequestsPlaced
<1>6. QED
  BY <1>1, <1>2, <1>3, <1>4, <1>5 DEF CreateRequestsPlaced

LEMMA RestartPlaced ==
  ASSUME Inv, CreateRequestsPlaced, Restart
  PROVE  CreateRequestsPlaced'
<1>1. /\ \A c \in CreateBatches :
           createPC'[c] \in {"idle", "done"} /\ createInputs'[c] = <<>> /\ found'[c] = <<>>
      /\ createQueue' = <<>>
  BY DEF Restart, CreateLost
<1>2. Range(createQueue)' = {} /\ \A c \in CreateBatches : CreateInput(c)' = {}
  BY <1>1, EmptySequence DEF CreateInput
<1>3. \A nc \in NodeClaims : Unbound(nc)' /\ ~Waiting(nc)' /\ bindPC'[nc] = "idle"
  BY <1>2 DEF Restart, CreateLost, Unbound, Waiting
<1>4. QED
  BY <1>1, <1>2, <1>3, EmptySequence DEF CreateRequestsPlaced

-----------------------------------------------------------------------------
(* The steps of the system, as far as the create requests see them. *)

Advances(b) ==
  /\ UNCHANGED <<createQueue, createInputs, found, bindVars>>
  /\ createPC[b] \in {"lock", "get", "count", "update"}
  /\ \E pc \in {"get", "count", "update", "poll"} : createPC' = [createPC EXCEPT ![b] = pc]

Polls(b) ==
  /\ UNCHANGED <<createQueue, createInputs>>
  /\ createPC[b] = "poll"
  /\ \E machines \in Seq(Machines) :
       /\ Len(machines) <= Len(createInputs[b]) /\ IsInjective(machines)
       /\ Range(machines) \subseteq Range(found[b]) \union Unclaimed
       /\ \/ StartBinding(b, machines)
          \/ found' = [found EXCEPT ![b] = machines] /\ UNCHANGED <<createPC, bindVars>>

Aborts(b) == createPC[b] \in {"get", "update"} /\ CreateAbort(b)

Rests ==
  /\ UNCHANGED createVars
  /\ \A nc \in NodeClaims : claim'[nc] = "creating" <=> claim[nc] = "creating"

LEMMA PollPolls ==
  ASSUME Inv, CreateRequestsPlaced, NEW b \in CreateBatches, Poll(b) \/ PollTimeout(b)
  PROVE  Polls(b)
<1>1. /\ found[b] \in Seq(Machines) /\ Len(found[b]) \in Nat /\ IsInjective(found[b])
      /\ Len(createInputs[b]) \in Nat /\ Len(found[b]) <= Len(createInputs[b])
  BY DEF Inv, TypeOK, CreateTypeOK, CreateRequestsPlaced
<1>2. CASE PollTimeout(b)
  BY <1>1, <1>2 DEF PollTimeout, Polls
<1>3. CASE Poll(b)
  <2> DEFINE missing == Len(createInputs[b]) - Len(found[b])
             fresh == NotCollected(b)
             size == Min2(missing, Cardinality(fresh))
  <2>1. PICK more \in [1 .. size -> fresh] :
          /\ IsInjective(more)
          /\ IF size = missing
             THEN StartBinding(b, found[b] \o more)
             ELSE /\ found' = [found EXCEPT ![b] = found[b] \o more]
                  /\ UNCHANGED <<createPC, bindVars>>
    BY <1>3 DEF Poll
  <2>2. /\ fresh \subseteq Machines /\ Cardinality(fresh) \in Nat /\ size > 0
        /\ createPC[b] = "poll" /\ UNCHANGED <<createQueue, createInputs>>
    BY <1>3, MachinesFinite DEF Poll, NotCollected, Unclaimed
  <2>3. size \in Nat /\ size <= missing
    <3>1. missing \in Int
      BY <1>1
    <3> HIDE DEF missing, fresh
    <3>2. QED
      BY <2>2, <3>1 DEF Min2
  <2>4. \A m \in fresh : m \notin Range(found[b])
    BY DEF NotCollected
  <2> HIDE DEF size, fresh
  <2>5. /\ more \in Seq(Machines) /\ Len(more) = size
        /\ \A i \in 1 .. size : more[i] \notin Range(found[b])
    BY <2>2, <2>3, <2>4
  <2>6. /\ found[b] \o more \in Seq(Machines)
        /\ Len(found[b] \o more) = Len(found[b]) + size
        /\ IsInjective(found[b] \o more)
    BY <1>1, <2>1, <2>3, <2>5, Collected
  <2>7. Len(found[b] \o more) <= Len(createInputs[b])
    BY <1>1, <2>3, <2>6
  <2>8. Range(found[b] \o more) \subseteq Range(found[b]) \union Unclaimed
    <3>1. \A i \in 1 .. size : more[i] \in Unclaimed
      BY <2>2, <2>3 DEF NotCollected, fresh
    <3>2. \A i \in 1 .. Len(found[b]) + size :
            \/ i \in 1 .. Len(found[b]) /\ (found[b] \o more)[i] = found[b][i]
            \/ i - Len(found[b]) \in 1 .. size /\ (found[b] \o more)[i] = more[i - Len(found[b])]
      BY <1>1, <2>3, <2>5
    <3>3. DOMAIN found[b] = 1 .. Len(found[b]) /\ DOMAIN (found[b] \o more) = 1 .. Len(found[b]) + size
      BY <1>1, <2>6
    <3>4. QED
      BY <3>1, <3>2, <3>3 DEF Range
  <2>9. QED
    BY <2>1, <2>2, <2>6, <2>7, <2>8 DEF Polls
<1>4. QED
  BY <1>2, <1>3

LEMMA CreateStepKinds ==
  ASSUME Inv, CreateRequestsPlaced, NEW b \in CreateBatches, CreateStep(b)
  PROVE  /\ UNCHANGED claim
         /\ CreateStart(b) \/ Aborts(b) \/ Advances(b) \/ Polls(b) \/ CreateFinish(b)
<1>1. UNCHANGED claim
  BY DEF CreateStep, callerVars
<1>2. CASE CreateLock(b)
  BY <1>1, <1>2 DEF CreateLock, Advances, bindVars
<1>3. CASE CreateGet(b)
  BY <1>1, <1>3 DEF CreateGet, Aborts, Advances, bindVars
<1>4. CASE CreateCount(b)
  BY <1>1, <1>4 DEF CreateCount, Advances, bindVars
<1>5. CASE CreateUpdate(b)
  BY <1>1, <1>5 DEF CreateUpdate, Aborts, Advances, bindVars
<1>6. QED
  BY <1>1, <1>2, <1>3, <1>4, <1>5, PollPolls DEF CreateStep, CreateExecutor

LEMMA OtherStepsRest ==
  ASSUME Inv,
         \/ UNCHANGED vars \/ EnvironmentStep
         \/ \E b \in DeleteBatches : DeleteStep(b)
         \/ \E nc \in NodeClaims : \/ AnnotateStep(nc) \/ CreateExisting(nc) \/ Terminate(nc)
                                   \/ DeleteFind(nc) \/ DeleteNotFound(nc) \/ DeleteAdd(nc)
                                   \/ DeleteReturn(nc)
  PROVE  Rests
<1>1. CASE \/ UNCHANGED vars \/ EnvironmentStep
           \/ \E b \in DeleteBatches : DeleteStep(b)
           \/ \E nc \in NodeClaims : AnnotateStep(nc)
  BY <1>1 DEF vars, callerVars, EnvironmentStep, DeleteStep, AnnotateStep, Rests
<1>2. ASSUME NEW nc \in NodeClaims,
             \/ CreateExisting(nc) \/ Terminate(nc) \/ DeleteFind(nc) \/ DeleteNotFound(nc)
             \/ DeleteAdd(nc) \/ DeleteReturn(nc)
      PROVE  Rests
  <2>1. /\ UNCHANGED createVars /\ claim[nc] # "creating"
        /\ \E next \in {"launched", "terminating", "checking", "finished", "deleting",
                        "removing"} : claim' = [claim EXCEPT ![nc] = next]
    BY <1>2 DEF CreateExisting, Terminate, DeleteFind, DeleteNotFound, DeleteAdd, DeleteReturn
  <2>2. QED
    BY <2>1 DEF Rests, Inv, TypeOK, CallerTypeOK
<1>3. QED
  BY <1>1, <1>2

LEMMA PlacedStep == Inv /\ CreateRequestsPlaced /\ [Next]_vars => CreateRequestsPlaced'
<1> SUFFICES ASSUME Inv, CreateRequestsPlaced, [Next]_vars PROVE CreateRequestsPlaced'
  OBVIOUS
<1>1. CASE Rests
  BY <1>1, RequestsRest DEF Rests, createVars, bindVars
<1>2. ASSUME NEW b \in CreateBatches, CreateStep(b) PROVE CreateRequestsPlaced'
  <2>1. UNCHANGED claim
    BY <1>2, CreateStepKinds
  <2>2. CASE Aborts(b)
    BY <2>1, <2>2, AbortPlaced DEF Aborts
  <2>3. CASE Advances(b)
    BY <2>1, <2>3, ExecutionAdvances DEF Advances
  <2>4. CASE Polls(b)
    <3>1. PICK machines \in Seq(Machines) :
            /\ Len(machines) <= Len(createInputs[b]) /\ IsInjective(machines)
            /\ \/ StartBinding(b, machines)
               \/ found' = [found EXCEPT ![b] = machines] /\ UNCHANGED <<createPC, bindVars>>
      BY <2>4 DEF Polls
    <3>2. createPC[b] = "poll" /\ UNCHANGED <<createQueue, createInputs, claim>>
      BY <2>1, <2>4 DEF Polls
    <3>3. CASE StartBinding(b, machines)
      BY <3>1, <3>2, <3>3, BindingPlaced
    <3>4. CASE found' = [found EXCEPT ![b] = machines] /\ UNCHANGED <<createPC, bindVars>>
      BY <3>1, <3>2, <3>4, CollectPlaced
    <3>5. QED
      BY <3>1, <3>3, <3>4
  <2>5. QED
    BY <1>2, <2>1, <2>2, <2>3, <2>4, CreateStepKinds, StartPlaced, FinishPlaced
<1>3. QED
  BY <1>1, <1>2, OtherStepsRest, BindPlaced, AddPlaced, ReturnPlaced, RestartPlaced
  DEF Next, Caller

LEMMA RequestsPlaced == Spec => []CreateRequestsPlaced
BY InitPlaced, PlacedStep, Invariance, PTL DEF Spec

-----------------------------------------------------------------------------
(* A batch gives its NodeClaims different Machines. *)

LEMMA PairsStep ==
  Inv /\ CreateRequestsPlaced /\ PairsDistinct /\ [Next]_vars => PairsDistinct'
<1> SUFFICES ASSUME Inv, CreateRequestsPlaced, PairsDistinct, [Next]_vars PROVE PairsDistinct'
  OBVIOUS
<1>1. ASSUME UNCHANGED <<createPC, createInputs, assigned>> PROVE PairsDistinct'
  <2>1. \A c \in CreateBatches : CreateInput(c)' = CreateInput(c)
    BY <1>1 DEF CreateInput
  <2>2. QED
    BY <1>1, <2>1 DEF PairsDistinct
<1>2. ASSUME NEW b \in CreateBatches, CreateStep(b) PROVE PairsDistinct'
  <2>1. CASE CreateStart(b) \/ Aborts(b) \/ Advances(b) \/ CreateFinish(b)
    <3>1. /\ UNCHANGED assigned /\ createPC'[b] # "bind"
          /\ \A c \in CreateBatches \ {b} :
               createPC'[c] = createPC[c] /\ createInputs'[c] = createInputs[c]
      BY <2>1 DEF CreateStart, Aborts, CreateAbort, Advances, CreateFinish, bindVars, Inv,
                  TypeOK, CreateTypeOK
    <3>2. \A c \in CreateBatches \ {b} : CreateInput(c)' = CreateInput(c)
      BY <3>1 DEF CreateInput
    <3>3. QED
      BY <3>1, <3>2 DEF PairsDistinct
  <2>2. CASE Polls(b)
    <3>1. PICK machines \in Seq(Machines) :
            /\ Len(machines) <= Len(createInputs[b]) /\ IsInjective(machines)
            /\ StartBinding(b, machines) \/ UNCHANGED <<createPC, bindVars>>
      BY <2>2 DEF Polls
    <3>2. CASE UNCHANGED <<createPC, bindVars>>
      BY <1>1, <2>2, <3>2 DEF Polls, bindVars
    <3>3. CASE StartBinding(b, machines)
      <4>1. PICK Paired \in SUBSET CreateInput(b) :
              /\ \A nc \in NodeClaims :
                   nc \notin Paired => assigned'[nc] = assigned[nc]
              /\ \A nc1, nc2 \in Paired : nc1 # nc2 => assigned'[nc1] # assigned'[nc2]
        <5>1. PICK Paired \in SUBSET CreateInput(b) :
                /\ \A nc \in NodeClaims :
                     IF nc \in Paired
                     THEN bindPC'[nc] = "label" /\ assigned'[nc] \in Machines
                          /\ outcome'[nc] = outcome[nc]
                     ELSE IF nc \in CreateInput(b)
                     THEN bindPC'[nc] = "done" /\ assigned'[nc] = assigned[nc]
                          /\ outcome'[nc] = "failed"
                     ELSE bindPC'[nc] = bindPC[nc] /\ assigned'[nc] = assigned[nc]
                          /\ outcome'[nc] = outcome[nc]
                /\ \A nc1, nc2 \in Paired : nc1 # nc2 => assigned'[nc1] # assigned'[nc2]
                /\ \A nc \in Paired : assigned'[nc] \in Range(machines)
          BY <3>1, <3>3, Pairing
        <5>2. QED
          BY <5>1
      <4>2. /\ \A c \in CreateBatches \ {b} : createPC'[c] = createPC[c]
            /\ \A c \in CreateBatches : CreateInput(c)' = CreateInput(c)
                                        /\ CreateInput(c) \subseteq NodeClaims
        BY <2>2, <3>3 DEF StartBinding, Polls, CreateInput, Range, Inv, TypeOK, CreateTypeOK
      <4>3. \A nc \in CreateInput(b) : assigned[nc] = NoMachine
        BY <2>2, <4>2 DEF CreateRequestsPlaced, Waiting, Unbound, Polls
      <4>4. \A c \in CreateBatches \ {b} : \A nc \in CreateInput(c) : nc \notin Paired
        BY DEF CreateRequestsPlaced
      <4>5. QED
        BY <4>1, <4>2, <4>3, <4>4 DEF PairsDistinct
    <3>4. QED
      BY <3>1, <3>2, <3>3
  <2>3. QED
    BY <1>2, <2>1, <2>2, CreateStepKinds
<1>3. ASSUME NEW nc \in NodeClaims, BindStep(nc) \/ CreateAdd(nc) PROVE PairsDistinct'
  BY <1>1, <1>3 DEF BindStep, Bind, BindLabel, BindPatch, BindRollback, CreateAdd, bindVars
<1>4. ASSUME NEW nc \in NodeClaims, CreateReturn(nc) PROVE PairsDistinct'
  <2>1. /\ \A c \in CreateBatches : CreateInput(c)' = CreateInput(c)
        /\ UNCHANGED createPC
        /\ assigned' = [assigned EXCEPT ![nc] = NoMachine]
    BY <1>4 DEF CreateReturn, CreateInput
  <2>2. \A c \in CreateBatches : CreateInput(c) \subseteq NodeClaims
    BY DEF CreateInput, Range, Inv, TypeOK, CreateTypeOK
  <2>3. \A c \in CreateBatches : createPC[c] = "bind" => nc \notin CreateInput(c)
    BY <1>4 DEF CreateReturn, CreateRequestsPlaced
  <2>4. QED
    BY <2>1, <2>2, <2>3 DEF PairsDistinct, Inv, TypeOK, CreateTypeOK
<1>5. CASE Restart
  BY <1>5 DEF Restart, CreateLost, PairsDistinct
<1>6. CASE Rests
  BY <1>1, <1>6 DEF Rests, createVars
<1>7. QED
  BY <1>2, <1>3, <1>4, <1>5, <1>6, OtherStepsRest DEF Next, Caller

\* The goroutines of one batch bind different Machines, however often the poll has
\* seen each, and whatever other batches, lagging caches and restarts do meanwhile
\* (create.go:161-184, 211-232).
THEOREM OneMachineEach == Spec => []PairsDistinct
<1>1. Init => PairsDistinct
  BY DEF Init, CreateInit, PairsDistinct
<1>2. QED
  BY <1>1, PairsStep, RequestsPlaced, Invariance, PTL DEF Spec
=============================================================================
