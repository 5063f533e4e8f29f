-------------------------------- MODULE Batcher --------------------------------
(***************************************************************************)
(* The generic time-window batcher (pkg/batcher/batcher.go).  Add appends a*)
(* request to its bucket, rings the trigger and waits for its result; run  *)
(* waits for a quiet moment, takes all the buckets and starts runBatch for *)
(* each; runBatch executes the batch and delivers the results by position. *)
(*                                                                         *)
(* The map is only touched under b.mu, so each such section is one step.   *)
(* The timers run out at any moment: their lengths are not modelled.       *)
(***************************************************************************)
EXTENDS Integers, Sequences, FiniteSets, Functions

CONSTANTS
  Requests,   \* request slots, one for each concurrent caller; reused
  Targets,    \* the MachineDeployments that inputs name
  Characters, \* what names are made of; "/" is none of them
  Hashes,     \* the 64-bit hash values
  Hash(_),    \* FNV-1a, of which nothing is assumed: keys may collide
  NoResult,   \* the requestor channel is empty
  TooFew,     \* "batch executor returned too few results"
  Strangers   \* whether callers other than Requests keep ringing the trigger

ASSUME BatcherAssumption ==
  /\ NoResult \notin Requests /\ TooFew \notin Requests
  /\ NoResult # TooFew
  /\ Strangers \in BOOLEAN

\* Kubernetes allows no "/" in a namespace or a name.
ASSUME NameAssumption ==
  /\ "/" \notin Characters
  /\ \A md \in Targets :
       /\ md.namespace \in Seq(Characters) /\ md.name \in Seq(Characters)
       /\ md = [namespace |-> md.namespace, name |-> md.name]

\* Faulty: MachineDeployments of one name in two namespaces have one key.
BatchKeyOfName(md) == md.name

\* CreateInput.BatchKey and DeleteInput.BatchKey, character by character.
BatchKey(md) == md.namespace \o <<"/">> \o md.name

\* BatchKeyHasher, the key of a bucket.
Bucket(md) == Hash(BatchKey(md))

ASSUME HashAssumption == \A md \in Targets : Bucket(md) \in Hashes

VARIABLES
  pc,         \* where each caller is in Add
  target,     \* the MachineDeployment of the input it has added
  requestor,  \* its result channel, of capacity 1
  requests,   \* b.requests: the bucket of each hash
  trigger,    \* whether the trigger channel, of capacity 1, is full
  runPC,      \* where run is
  idleTimer,  \* waitForIdle's timers
  maxTimer,
  buckets,    \* the buckets run has taken and not yet started
  batches,    \* the runBatch goroutines
  done        \* b.ctx has ended

callerVars == <<pc, target, requestor, requests>>
runVars == <<runPC, idleTimer, maxTimer, buckets>>
vars == <<callerVars, trigger, runVars, batches, done>>

\* A goroutine of runBatch: its requests, the number of results its executor
\* has returned (-1 while it executes), and the position to deliver next.
IsBatch(b) ==
  /\ b.reqs \in Seq(Requests) /\ b.reqs # <<>>
  /\ b.results \in -1 .. Len(b.reqs)
  /\ b.next \in 1 .. Len(b.reqs)
  /\ b = [reqs |-> b.reqs, results |-> b.results, next |-> b.next]

TypeOK ==
  /\ pc \in [Requests -> {"idle", "signal", "wait", "abandoned"}]
  /\ target \in [Requests -> Targets]
  /\ requestor \in [Requests -> Requests \union {NoResult, TooFew}]
  /\ requests \in [Hashes -> Seq(Requests)]
  /\ trigger \in BOOLEAN
  /\ runPC \in {"select", "idle", "swap", "start", "stopped"}
  /\ idleTimer \in {"off", "running", "fired"}
  /\ maxTimer \in {"off", "running", "fired"}
  /\ buckets \in [Hashes -> Seq(Requests)]
  /\ \A b \in batches : IsBatch(b)
  /\ done \in BOOLEAN

Empty == [k \in Hashes |-> <<>>]

Init ==
  /\ pc = [r \in Requests |-> "idle"]
  /\ target \in [Requests -> Targets]
  /\ requestor = [r \in Requests |-> NoResult]
  /\ requests = Empty
  /\ trigger = FALSE
  /\ runPC = "select"
  /\ idleTimer = "off" /\ maxTimer = "off"
  /\ buckets = Empty
  /\ batches = {}
  /\ done = FALSE

-----------------------------------------------------------------------------
(* Add *)

AddRequest(r) ==
  /\ pc[r] = "idle"
  /\ \E md \in Targets :
       /\ target' = [target EXCEPT ![r] = md]
       /\ requests' = [requests EXCEPT ![Bucket(md)] = Append(@, r)]
  /\ pc' = [pc EXCEPT ![r] = "signal"]
  /\ UNCHANGED <<requestor, trigger, runVars, batches, done>>

\* Faulty: an unbuffered trigger, which only a waiting run receives.
RingUnbuffered == trigger' = (trigger \/ runPC \in {"select", "idle"})

\* A send on a full trigger falls through to the default case.
Ring == trigger' = TRUE

Signal(r) ==
  /\ pc[r] = "signal"
  /\ Ring
  /\ pc' = [pc EXCEPT ![r] = "wait"]
  /\ UNCHANGED <<target, requestor, requests, runVars, batches, done>>

\* Add returns the result, or the caller's context ends first and the request
\* stays behind.
Return(r) ==
  /\ pc[r] = "wait" /\ requestor[r] # NoResult
  /\ pc' = [pc EXCEPT ![r] = "idle"]
  /\ requestor' = [requestor EXCEPT ![r] = NoResult]
  /\ UNCHANGED <<target, requests, trigger, runVars, batches, done>>

Cancel(r) ==
  /\ pc[r] = "wait"
  /\ pc' = [pc EXCEPT ![r] = "abandoned"]
  /\ UNCHANGED <<target, requestor, requests, trigger, runVars, batches, done>>

\* The result of an abandoned request is garbage; its slot can be used again.
Forget(r) ==
  /\ pc[r] = "abandoned" /\ requestor[r] # NoResult
  /\ pc' = [pc EXCEPT ![r] = "idle"]
  /\ requestor' = [requestor EXCEPT ![r] = NoResult]
  /\ UNCHANGED <<target, requests, trigger, runVars, batches, done>>

\* Callers that Requests does not follow ring the same trigger.
StrangerSignal ==
  /\ Strangers
  /\ Ring
  /\ UNCHANGED <<callerVars, runVars, batches, done>>

-----------------------------------------------------------------------------
(* run and waitForIdle *)

Wake ==
  /\ runPC = "select" /\ trigger
  /\ trigger' = FALSE
  /\ runPC' = "idle"
  /\ idleTimer' = "running" /\ maxTimer' = "running"
  /\ UNCHANGED <<callerVars, buckets, batches, done>>

IdleExpires ==
  /\ runPC = "idle" /\ idleTimer = "running"
  /\ idleTimer' = "fired"
  /\ UNCHANGED <<callerVars, trigger, runPC, maxTimer, buckets, batches, done>>

MaxExpires ==
  /\ runPC = "idle" /\ maxTimer = "running"
  /\ maxTimer' = "fired"
  /\ UNCHANGED <<callerVars, trigger, runPC, idleTimer, buckets, batches, done>>

\* A new request restarts the idle timer, fired or not.
ResetIdle ==
  /\ runPC = "idle" /\ trigger
  /\ trigger' = FALSE
  /\ idleTimer' = "running"
  /\ UNCHANGED <<callerVars, runPC, maxTimer, buckets, batches, done>>

\* Faulty: no upper bound on the window.
QuietIdleOnly == idleTimer = "fired" \/ done

Quiet == idleTimer = "fired" \/ maxTimer = "fired" \/ done

EndWait ==
  /\ runPC = "idle" /\ Quiet
  /\ runPC' = "swap"
  /\ idleTimer' = "off" /\ maxTimer' = "off"
  /\ UNCHANGED <<callerVars, trigger, buckets, batches, done>>

\* Faulty: run does not put a new map in place.
SwapKeepingMap ==
  /\ runPC = "swap"
  /\ buckets' = requests
  /\ runPC' = "start"
  /\ UNCHANGED <<callerVars, trigger, idleTimer, maxTimer, batches, done>>

Swap ==
  /\ runPC = "swap"
  /\ buckets' = requests
  /\ requests' = Empty
  /\ runPC' = "start"
  /\ UNCHANGED <<pc, target, requestor, trigger, idleTimer, maxTimer, batches, done>>

\* Faulty: a goroutine for an empty bucket too.
StartAnyBatch(k) ==
  /\ runPC = "start"
  /\ batches' = batches \union {[reqs |-> buckets[k], results |-> -1, next |-> 1]}
  /\ buckets' = [buckets EXCEPT ![k] = <<>>]
  /\ UNCHANGED <<callerVars, trigger, runPC, idleTimer, maxTimer, done>>

\* go b.runBatch(reqs), for every bucket of the map.
StartBatch(k) ==
  /\ runPC = "start" /\ buckets[k] # <<>>
  /\ batches' = batches \union {[reqs |-> buckets[k], results |-> -1, next |-> 1]}
  /\ buckets' = [buckets EXCEPT ![k] = <<>>]
  /\ UNCHANGED <<callerVars, trigger, runPC, idleTimer, maxTimer, done>>

Again ==
  /\ runPC = "start" /\ buckets = Empty
  /\ runPC' = "select"
  /\ UNCHANGED <<callerVars, trigger, idleTimer, maxTimer, buckets, batches, done>>

\* The batcher's context ends; run returns the next time it selects that case.
EndContext ==
  /\ ~done
  /\ done' = TRUE
  /\ UNCHANGED <<callerVars, trigger, runVars, batches>>

Stop ==
  /\ runPC = "select" /\ done
  /\ runPC' = "stopped"
  /\ UNCHANGED <<callerVars, trigger, idleTimer, maxTimer, buckets, batches, done>>

Run ==
  \/ Wake \/ ResetIdle \/ EndWait \/ Swap \/ Again \/ Stop
  \/ \E k \in Hashes : StartBatch(k)

-----------------------------------------------------------------------------
(* runBatch *)

\* The executor is to return one result for each input; runBatch also copes with
\* fewer, and drops what is beyond the last request.
Execute(b) ==
  /\ b \in batches /\ b.results = -1
  /\ \E n \in 0 .. Len(b.reqs) :
       batches' = (batches \ {b}) \union {[b EXCEPT !.results = n]}
  /\ UNCHANGED <<callerVars, trigger, runVars, done>>

\* Faulty: the results are off by one position.
ResultShifted(b, i) == IF i < b.results THEN b.reqs[i + 1] ELSE TooFew

\* What the request at position i is sent: the result for the input at i.
ResultAt(b, i) == IF i <= b.results THEN b.reqs[i] ELSE TooFew

\* The send blocks while the channel is full.  The goroutine ends with the last.
Deliver(b) ==
  LET r == b.reqs[b.next]
      rest == IF b.next = Len(b.reqs) THEN {} ELSE {[b EXCEPT !.next = @ + 1]}
  IN /\ b \in batches /\ b.results # -1
     /\ requestor[r] = NoResult
     /\ requestor' = [requestor EXCEPT ![r] = ResultAt(b, b.next)]
     /\ batches' = (batches \ {b}) \union rest
     /\ UNCHANGED <<pc, target, requests, trigger, runVars, done>>

RunBatch(r) ==
  \E b \in batches : r \in Range(b.reqs) /\ (Execute(b) \/ Deliver(b))

-----------------------------------------------------------------------------
Next ==
  \/ \E r \in Requests : AddRequest(r) \/ Signal(r) \/ Return(r) \/ Cancel(r) \/ Forget(r)
  \/ StrangerSignal
  \/ IdleExpires \/ MaxExpires
  \/ Run
  \/ EndContext
  \/ \E r \in Requests : RunBatch(r)

Spec == Init /\ [][Next]_vars

\* Every goroutine that can take a step takes one, executors return and timers
\* run out.  Whether a select with several ready cases picks a given one is the
\* scheduler's choice: only the maximum timer, which once it has fired stays
\* ready for ever, is picked eventually (Go selects uniformly at random).
LiveSpec ==
  /\ Spec
  /\ \A r \in Requests : WF_vars(Signal(r)) /\ WF_vars(Return(r)) /\ WF_vars(RunBatch(r))
  /\ WF_vars(IdleExpires) /\ WF_vars(MaxExpires)
  /\ WF_vars(Run) /\ WF_vars(EndWait)

-----------------------------------------------------------------------------
(* Properties *)

Queued(r) == \E k \in Hashes : r \in Range(requests[k])

Taken(r) == \E k \in Hashes : r \in Range(buckets[k])

Undelivered(b) == {b.reqs[i] : i \in b.next .. Len(b.reqs)}

Batched(r) == \E b \in batches : r \in Undelivered(b)

Replied(r) == requestor[r] # NoResult

\* No wakeup is lost: while a request is queued its caller has yet to ring, or
\* the trigger is full, or run is on its way to take the buckets
\* (batcher.go:97-105, 127-140).
NoLostWakeup ==
  \A r \in Requests : Queued(r) =>
    pc[r] = "signal" \/ trigger \/ runPC \in {"idle", "swap", "stopped"}

\* A request is in one place at a time, from Add to its result: its bucket, the
\* buckets run has taken, a batch, its result channel.  So it is executed once and
\* answered once, and runBatch never blocks on a full result channel
\* (batcher.go:97-99, 137-144, 181-188).
OnePlace ==
  \A r \in Requests :
    /\ pc[r] # "idle" => Queued(r) \/ Taken(r) \/ Batched(r) \/ Replied(r)
    /\ pc[r] = "idle" => ~Queued(r) /\ ~Taken(r) /\ ~Batched(r) /\ ~Replied(r)
    /\ Queued(r) => ~Taken(r) /\ ~Batched(r) /\ ~Replied(r)
    /\ Taken(r) => ~Batched(r) /\ ~Replied(r)
    /\ Batched(r) => ~Replied(r)

\* Two batch keys that are different and have one hash.
Collide(md1, md2) == BatchKey(md1) # BatchKey(md2) /\ Bucket(md1) = Bucket(md2)

\* A batch mixes MachineDeployments only where the hashes of two batch keys collide,
\* never because two of them have one key: the executor takes the MachineDeployment
\* of its first input for that of all (batcher.go:93, 120-125, 142-144;
\* create.go:45-47, 125-127; delete.go:41-43, 101-103).
BatchesHomogeneous ==
  \A b \in batches : \A r1, r2 \in Undelivered(b) :
    target[r1] # target[r2] => Collide(target[r1], target[r2])

\* A caller that waits gets its result, however many other callers keep ringing
\* the trigger, unless the batcher itself is shut down (batcher.go:148-169).
AddReturns == \A r \in Requests : pc[r] = "wait" ~> pc[r] # "wait" \/ done

\* Add does for its callers what BatchService says.
Service == INSTANCE BatchService WITH
  state <- [r \in Requests |-> IF pc[r] \in {"signal", "wait"} THEN "waiting" ELSE pc[r]],
  reply <- requestor

ImplementsBatchService == Service!Spec

-----------------------------------------------------------------------------
(* What the proof of OnePlace in module BatcherProofs rests on besides. *)

Once(reqs, from) == \A i, j \in from .. Len(reqs) : reqs[i] = reqs[j] => i = j

\* No request is in its bucket or in a batch twice, each is in the bucket of
\* its hash, batches share none, and run takes new buckets only after it has started
\* batches for all of the last.
Distinct ==
  /\ \A k \in Hashes : Once(requests[k], 1) /\ Once(buckets[k], 1)
  /\ \A k \in Hashes : \A r \in Range(requests[k]) \union Range(buckets[k]) : Bucket(target[r]) = k
  /\ \A b \in batches : Once(b.reqs, b.next)
  /\ \A b1, b2 \in batches : b1 # b2 => Undelivered(b1) \intersect Undelivered(b2) = {}
  /\ runPC # "start" => buckets = Empty
=============================================================================
