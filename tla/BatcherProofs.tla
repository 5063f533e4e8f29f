----------------------------- MODULE BatcherProofs -----------------------------
(***************************************************************************)
(* Proofs about Batcher, for any callers, MachineDeployments and hash.                         *)
(***************************************************************************)
EXTENDS Batcher, TLAPS

LEMMA EmptyBuckets == Empty \in [Hashes -> Seq(Requests)]
BY DEF Empty

LEMMA InitTypeOK == Init => TypeOK
BY EmptyBuckets, BatcherAssumption DEF Init, TypeOK

\* Where the "/" is tells the namespace from the name.
LEMMA SlashSplits ==
  ASSUME NEW a \in Seq(Characters), NEW b \in Seq(Characters),
         NEW c \in Seq(Characters), NEW d \in Seq(Characters),
         a \o <<"/">> \o b = c \o <<"/">> \o d
  PROVE  Len(a) <= Len(c)
<1> SUFFICES ASSUME Len(a) > Len(c) PROVE FALSE
  OBVIOUS
<1> DEFINE i == Len(c) + 1
<1>1. Len(a) \in Nat /\ Len(c) \in Nat /\ i \in 1 .. Len(a)
  OBVIOUS
<1>2. (a \o <<"/">> \o b)[i] = a[i] /\ a[i] \in Characters
  BY <1>1
<1>3. (c \o <<"/">> \o d)[i] = "/"
  BY <1>1
<1>4. QED
  BY <1>2, <1>3, NameAssumption

LEMMA EqualParts ==
  ASSUME NEW a \in Seq(Characters), NEW b \in Seq(Characters),
         NEW c \in Seq(Characters), NEW d \in Seq(Characters),
         a \o <<"/">> \o b = c \o <<"/">> \o d
  PROVE  a = c /\ b = d
<1> DEFINE s == a \o <<"/">> \o b
           t == c \o <<"/">> \o d
<1>1. Len(a) \in Nat /\ Len(c) \in Nat /\ Len(a) = Len(c)
  <2>1. Len(a) <= Len(c)
    BY SlashSplits
  <2>2. Len(c) <= Len(a)
    BY SlashSplits
  <2>3. QED
    BY <2>1, <2>2
<1>2. /\ Len(s) = Len(a) + 1 + Len(b) /\ Len(t) = Len(c) + 1 + Len(d)
      /\ Len(b) \in Nat /\ Len(d) \in Nat
  OBVIOUS
<1>3. Len(b) = Len(d)
  BY <1>1, <1>2
<1>4. \A i \in 1 .. Len(a) : a[i] = c[i]
  <2>1. \A i \in 1 .. Len(a) : s[i] = a[i] /\ t[i] = c[i]
    BY <1>1
  <2>2. QED
    BY <2>1
<1>5. \A i \in 1 .. Len(b) : b[i] = d[i]
  <2>1. \A i \in 1 .. Len(b) : s[Len(a) + 1 + i] = b[i] /\ t[Len(a) + 1 + i] = d[i]
    BY <1>1, <1>2, <1>3
  <2>2. QED
    BY <2>1
<1>6. a = c
  BY <1>1, <1>4
<1>7. b = d
  BY <1>3, <1>5
<1>8. QED
  BY <1>6, <1>7

\* Two MachineDeployments have two batch keys (create.go:45-47, delete.go:41-43).
LEMMA KeysDiffer ==
  ASSUME NEW md1 \in Targets, NEW md2 \in Targets, BatchKey(md1) = BatchKey(md2)
  PROVE  md1 = md2
<1>1. /\ md1.namespace \in Seq(Characters) /\ md1.name \in Seq(Characters)
      /\ md2.namespace \in Seq(Characters) /\ md2.name \in Seq(Characters)
      /\ md1 = [namespace |-> md1.namespace, name |-> md1.name]
      /\ md2 = [namespace |-> md2.namespace, name |-> md2.name]
  BY NameAssumption
<1>2. md1.namespace = md2.namespace /\ md1.name = md2.name
  <2> DEFINE a == md1.namespace
             b == md1.name
             c == md2.namespace
             d == md2.name
  <2>1. a \o <<"/">> \o b = c \o <<"/">> \o d
    BY DEF BatchKey
  <2>2. a \in Seq(Characters) /\ b \in Seq(Characters) /\ c \in Seq(Characters)
        /\ d \in Seq(Characters)
    BY <1>1
  <2> HIDE DEF a, b, c, d
  <2>3. a = c /\ b = d
    BY <2>1, <2>2, EqualParts
  <2>4. QED
    BY <2>3 DEF a, b, c, d
<1>3. QED
  BY <1>1, <1>2

\* Appending to a bucket adds the request and nothing else.
LEMMA RangeOfAppend ==
  ASSUME NEW S, NEW s \in Seq(S), NEW x \in S
  PROVE  Range(Append(s, x)) = Range(s) \union {x}
<1>1. /\ Append(s, x) \in Seq(S) /\ Len(s) \in Nat
      /\ DOMAIN s = 1 .. Len(s) /\ DOMAIN Append(s, x) = 1 .. Len(s) + 1
      /\ \A i \in 1 .. Len(s) : Append(s, x)[i] = s[i]
      /\ Append(s, x)[Len(s) + 1] = x
  OBVIOUS
<1>2. ASSUME NEW y \in Range(Append(s, x)) PROVE y \in Range(s) \union {x}
  <2>1. PICK i \in 1 .. Len(s) + 1 : y = Append(s, x)[i]
    BY <1>1, <1>2 DEF Range
  <2>2. CASE i = Len(s) + 1
    BY <1>1, <2>1, <2>2
  <2>3. CASE i \in 1 .. Len(s)
    BY <1>1, <2>1, <2>3 DEF Range
  <2>4. QED
    BY <1>1, <2>1, <2>2, <2>3
<1>3. ASSUME NEW y \in Range(s) PROVE y \in Range(Append(s, x))
  <2>1. PICK i \in 1 .. Len(s) : y = s[i]
    BY <1>1, <1>3 DEF Range
  <2>2. i \in 1 .. Len(s) + 1 /\ y = Append(s, x)[i]
    BY <1>1, <2>1
  <2>3. QED
    BY <1>1, <2>2 DEF Range
<1>4. x \in Range(Append(s, x))
  BY <1>1 DEF Range
<1>5. QED
  BY <1>2, <1>3, <1>4

LEMMA NextTypeOK == TypeOK /\ [Next]_vars => TypeOK'
<1> SUFFICES ASSUME TypeOK, [Next]_vars PROVE TypeOK'
  OBVIOUS
<1> USE BatcherAssumption
<1>1. CASE UNCHANGED vars
  BY <1>1 DEF TypeOK, vars, callerVars, runVars, IsBatch
<1>2. ASSUME NEW r \in Requests, AddRequest(r) PROVE TypeOK'
  <2>1. PICK md \in Targets, k \in Hashes :
          /\ target' = [target EXCEPT ![r] = md]
          /\ requests' = [requests EXCEPT ![k] = Append(requests[k], r)]
    BY <1>2, HashAssumption DEF AddRequest
  <2>2. target' \in [Requests -> Targets] /\ requests' \in [Hashes -> Seq(Requests)]
    BY <2>1 DEF TypeOK
  <2>3. QED
    BY <1>2, <2>2 DEF AddRequest, TypeOK, runVars, IsBatch
<1>3. ASSUME NEW r \in Requests, Signal(r) PROVE TypeOK'
  BY <1>3 DEF Signal, Ring, TypeOK, runVars, IsBatch
<1>4. ASSUME NEW r \in Requests, Return(r) \/ Cancel(r) \/ Forget(r) PROVE TypeOK'
  BY <1>4 DEF Return, Cancel, Forget, TypeOK, runVars, IsBatch
<1>5. CASE StrangerSignal \/ EndContext
  BY <1>5 DEF StrangerSignal, EndContext, Ring, TypeOK, callerVars, runVars, IsBatch
<1>6. CASE IdleExpires \/ MaxExpires \/ Wake \/ ResetIdle
  BY <1>6 DEF IdleExpires, MaxExpires, Wake, ResetIdle, TypeOK, callerVars, IsBatch
<1>7. CASE EndWait \/ Again \/ Stop
  BY <1>7 DEF EndWait, Again, Stop, TypeOK, callerVars, IsBatch
<1>8. CASE Swap
  BY <1>8, EmptyBuckets DEF Swap, TypeOK, IsBatch
<1>9. ASSUME NEW k \in Hashes, StartBatch(k) PROVE TypeOK'
  <2> DEFINE b == [reqs |-> buckets[k], results |-> -1, next |-> 1]
  <2>1. batches' = batches \union {b} /\ buckets[k] \in Seq(Requests) /\ buckets[k] # <<>>
    BY <1>9 DEF StartBatch, TypeOK
  <2>2. Len(buckets[k]) \in Nat \ {0}
    BY <2>1
  <2>3. IsBatch(b)
    BY <2>1, <2>2 DEF IsBatch
  <2>4. \A c \in batches' : IsBatch(c)
    BY <2>1, <2>3 DEF TypeOK
  <2>5. buckets' \in [Hashes -> Seq(Requests)]
    BY <1>9 DEF StartBatch, TypeOK
  <2>6. QED
    BY <1>9, <2>4, <2>5 DEF StartBatch, TypeOK, callerVars, IsBatch
<1>10. ASSUME NEW b \in batches, Execute(b) PROVE TypeOK'
  <2>1. PICK n \in 0 .. Len(b.reqs) :
          batches' = (batches \ {b}) \union {[b EXCEPT !.results = n]}
    BY <1>10 DEF Execute
  <2>2. IsBatch([b EXCEPT !.results = n])
    <3>1. IsBatch(b)
      BY DEF TypeOK
    <3>2. /\ b = [reqs |-> b.reqs, results |-> b.results, next |-> b.next]
          /\ b.reqs \in Seq(Requests) /\ n \in -1 .. Len(b.reqs)
      BY <3>1, <2>1 DEF IsBatch
    <3>3. [b EXCEPT !.results = n] = [reqs |-> b.reqs, results |-> n, next |-> b.next]
      BY <3>2
    <3>4. QED
      BY <3>1, <3>2, <3>3 DEF IsBatch
  <2>3. \A c \in batches' : IsBatch(c)
    BY <2>1, <2>2 DEF TypeOK
  <2>4. QED
    BY <1>10, <2>3 DEF Execute, TypeOK, callerVars, runVars, IsBatch
<1>11. ASSUME NEW b \in batches, Deliver(b) PROVE TypeOK'
  <2> DEFINE r == b.reqs[b.next]
  <2>1. IsBatch(b)
    BY DEF TypeOK
  <2>2. r \in Requests /\ ResultAt(b, b.next) \in Requests \union {TooFew}
    BY <2>1 DEF IsBatch, ResultAt
  <2>3. requestor' \in [Requests -> Requests \union {NoResult, TooFew}]
    BY <1>11, <2>2 DEF Deliver, TypeOK
  <2>4. \A c \in batches' : IsBatch(c)
    <3>1. CASE b.next = Len(b.reqs)
      BY <1>11, <3>1 DEF Deliver, TypeOK
    <3>2. CASE b.next # Len(b.reqs)
      <4>1. IsBatch([b EXCEPT !.next = @ + 1])
        BY <2>1, <3>2 DEF IsBatch
      <4>2. batches' = (batches \ {b}) \union {[b EXCEPT !.next = @ + 1]}
        BY <1>11, <3>2 DEF Deliver
      <4>3. QED
        BY <4>1, <4>2 DEF TypeOK
    <3>3. QED
      BY <3>1, <3>2
  <2>5. QED
    BY <1>11, <2>3, <2>4 DEF Deliver, TypeOK, runVars, IsBatch
<1>12. QED
  BY <1>1, <1>2, <1>3, <1>4, <1>5, <1>6, <1>7, <1>8, <1>9, <1>10, <1>11
  DEF Next, Run, RunBatch

\* Every variable keeps its type; no batch is ever started empty.
THEOREM TypeCorrect == Spec => []TypeOK
BY InitTypeOK, NextTypeOK, PTL DEF Spec

-----------------------------------------------------------------------------

LEMMA NextNoLostWakeup ==
  TypeOK /\ NoLostWakeup /\ [Next]_vars => NoLostWakeup'
<1> SUFFICES ASSUME TypeOK, NoLostWakeup, [Next]_vars PROVE NoLostWakeup'
  OBVIOUS
<1> USE BatcherAssumption
<1>1. CASE UNCHANGED vars
  BY <1>1 DEF NoLostWakeup, Queued, vars, callerVars, runVars
<1>2. ASSUME NEW r \in Requests, AddRequest(r) PROVE NoLostWakeup'
  <2>1. PICK k \in Hashes : requests' = [requests EXCEPT ![k] = Append(@, r)]
    BY <1>2, HashAssumption DEF AddRequest
  <2>2. requests[k] \in Seq(Requests)
    BY DEF TypeOK
  <2>3. ASSUME NEW q \in Requests, q # r, Queued(q)' PROVE Queued(q)
    BY <2>1, <2>2, <2>3, RangeOfAppend DEF Queued, TypeOK
  <2>4. QED
    BY <1>2, <2>3 DEF AddRequest, NoLostWakeup, TypeOK, runVars
<1>3. ASSUME NEW r \in Requests, Signal(r) PROVE NoLostWakeup'
  BY <1>3 DEF Signal, Ring, NoLostWakeup
<1>4. ASSUME NEW r \in Requests, Return(r) \/ Cancel(r) \/ Forget(r) PROVE NoLostWakeup'
  BY <1>4 DEF Return, Cancel, Forget, NoLostWakeup, Queued, TypeOK, runVars
<1>5. CASE StrangerSignal \/ EndContext
  BY <1>5 DEF StrangerSignal, EndContext, Ring, NoLostWakeup, Queued, callerVars, runVars
<1>6. CASE IdleExpires \/ MaxExpires \/ Wake \/ ResetIdle
  BY <1>6 DEF IdleExpires, MaxExpires, Wake, ResetIdle, NoLostWakeup
<1>7. CASE EndWait \/ Again \/ Stop
  BY <1>7 DEF EndWait, Again, Stop, NoLostWakeup, Queued, callerVars
<1>8. CASE Swap
  BY <1>8 DEF Swap, NoLostWakeup, Queued, Empty, Range
<1>9. ASSUME NEW k \in Hashes, StartBatch(k) PROVE NoLostWakeup'
  BY <1>9 DEF StartBatch, NoLostWakeup, Queued, callerVars
<1>10. ASSUME NEW b \in batches, Execute(b) \/ Deliver(b) PROVE NoLostWakeup'
  BY <1>10 DEF Execute, Deliver, NoLostWakeup, Queued, callerVars, runVars
<1>11. QED
  BY <1>1, <1>2, <1>3, <1>4, <1>5, <1>6, <1>7, <1>8, <1>9, <1>10
  DEF Next, Run, RunBatch

\* However Adds, timers and swaps interleave, a queued request always has a ring
\* coming or a run that will take it (batcher.go:97-105, 127-140).
THEOREM WakeupsKept == Spec => []NoLostWakeup
<1>1. Init => NoLostWakeup
  BY DEF Init, NoLostWakeup, Queued, Empty, Range
<1>2. QED
  BY <1>1, TypeCorrect, NextNoLostWakeup, PTL DEF Spec

-----------------------------------------------------------------------------
(* Each request is in one place. *)

Place == OnePlace /\ BatchesHomogeneous /\ Distinct

LEMMA RangeOfSeq ==
  ASSUME NEW S, NEW s \in Seq(S)
  PROVE  /\ Range(s) = {s[i] : i \in 1 .. Len(s)}
         /\ Range(s) \subseteq S
         /\ s # <<>> <=> Len(s) >= 1
BY DEF Range

LEMMA InitPlace == Init => Place
BY DEF Init, Place, OnePlace, BatchesHomogeneous, Distinct, Once, Queued, Taken, Batched,
       Replied, Empty, Range

\* Steps that move no request: timers, rings, cancellations.
LEMMA NothingMoves ==
  ASSUME Place, UNCHANGED <<target, requestor, requests, buckets, batches>>,
         \A r \in Requests : pc'[r] = "idle" <=> pc[r] = "idle",
         runPC' # "start" => buckets = Empty
  PROVE  Place'
<1>1. \A b \in batches : Undelivered(b)' = Undelivered(b)
  BY DEF Undelivered
<1>2. /\ \A r \in Requests : Queued(r)' <=> Queued(r)
      /\ \A r \in Requests : Taken(r)' <=> Taken(r)
      /\ \A r \in Requests : Replied(r)' <=> Replied(r)
      /\ \A r \in Requests : Batched(r)' <=> Batched(r)
  BY <1>1 DEF Queued, Taken, Replied, Batched
<1>3. OnePlace'
  BY <1>2 DEF Place, OnePlace
<1>4. BatchesHomogeneous'
  BY <1>1 DEF Place, BatchesHomogeneous
<1>5. Distinct'
  BY <1>1 DEF Place, Distinct, Empty
<1>6. QED
  BY <1>3, <1>4, <1>5 DEF Place

LEMMA AddPlace ==
  ASSUME TypeOK, Place, NEW r \in Requests, AddRequest(r)
  PROVE  Place'
<1>1. PICK md \in Targets, k \in Hashes :
        /\ k = Bucket(md)
        /\ target' = [target EXCEPT ![r] = md]
        /\ requests' = [requests EXCEPT ![k] = Append(requests[k], r)]
  BY HashAssumption DEF AddRequest
<1>2. /\ pc' = [pc EXCEPT ![r] = "signal"]
      /\ UNCHANGED <<requestor, runPC, buckets, batches>>
      /\ ~Queued(r) /\ ~Taken(r) /\ ~Batched(r) /\ ~Replied(r)
  BY DEF AddRequest, runVars, Place, OnePlace
<1>3. /\ requests[k] \in Seq(Requests)
      /\ Range(requests'[k]) = Range(requests[k]) \union {r}
      /\ \A j \in Hashes \ {k} : requests'[j] = requests[j]
  BY <1>1, RangeOfAppend DEF TypeOK
<1>4. /\ \A q \in Requests : Queued(q)' <=> Queued(q) \/ q = r
      /\ \A q \in Requests : Taken(q)' <=> Taken(q)
      /\ \A q \in Requests : Batched(q)' <=> Batched(q)
      /\ \A q \in Requests : Replied(q)' <=> Replied(q)
      /\ \A b \in batches : Undelivered(b)' = Undelivered(b)
  BY <1>2, <1>3 DEF Queued, Taken, Batched, Replied, Undelivered
<1>5. OnePlace'
  BY <1>2, <1>4 DEF OnePlace, Place, TypeOK
<1>6. \A q \in Requests \ {r} : target'[q] = target[q]
  BY <1>1 DEF TypeOK
<1>7. \A b \in batches : Undelivered(b) \subseteq Requests \ {r}
  BY <1>2 DEF Batched, Undelivered, TypeOK, IsBatch
<1>8. BatchesHomogeneous'
  BY <1>2, <1>4, <1>6, <1>7 DEF BatchesHomogeneous, Place
<1>9. Once(requests'[k], 1)
  <2>1. Once(requests[k], 1) /\ r \notin Range(requests[k])
    BY <1>2 DEF Place, Distinct, Queued
  <2>2. requests'[k] = Append(requests[k], r)
    BY <1>1 DEF TypeOK
  <2>3. \A i \in 1 .. Len(requests[k]) : requests[k][i] # r
    BY <1>3, <2>1, RangeOfSeq
  <2>4. QED
    BY <1>3, <2>1, <2>2, <2>3 DEF Once
<1>10. \A j \in Hashes : \A q \in Range(requests'[j]) \union Range(buckets'[j]) : Bucket(target'[q]) = j
  <2>1. \A j \in Hashes : Range(requests[j]) \union Range(buckets[j]) \subseteq Requests \ {r}
    BY <1>2, RangeOfSeq DEF Queued, Taken, TypeOK
  <2>2. Bucket(target'[r]) = k
    BY <1>1 DEF TypeOK
  <2>3. QED
    BY <1>2, <1>3, <1>6, <2>1, <2>2 DEF Place, Distinct
<1>11. Distinct'
  BY <1>2, <1>3, <1>4, <1>9, <1>10 DEF Place, Distinct
<1>12. QED
  BY <1>5, <1>8, <1>11 DEF Place

\* The caller, or whoever is left, takes the result.
LEMMA ReceivePlace ==
  ASSUME TypeOK, Place, NEW r \in Requests, Return(r) \/ Forget(r)
  PROVE  Place'
<1>1. /\ UNCHANGED <<target, requests, buckets, batches, runPC>>
      /\ pc' = [pc EXCEPT ![r] = "idle"]
      /\ requestor' = [requestor EXCEPT ![r] = NoResult]
      /\ Replied(r)
  BY DEF Return, Forget, runVars, Replied
<1>2. OnePlace'
  BY <1>1 DEF OnePlace, Place, Queued, Taken, Batched, Undelivered, Replied, TypeOK
<1>3. \A b \in batches : Undelivered(b)' = Undelivered(b)
  BY DEF Undelivered
<1>4. BatchesHomogeneous'
  BY <1>1, <1>3 DEF Place, BatchesHomogeneous
<1>5. Distinct'
  BY <1>1, <1>3 DEF Place, Distinct, Empty
<1>6. QED
  BY <1>2, <1>4, <1>5 DEF Place

LEMMA SwapPlace ==
  ASSUME TypeOK, Place, Swap
  PROVE  Place'
<1>1. /\ buckets' = requests /\ requests' = Empty /\ buckets = Empty
      /\ runPC' = "start"
      /\ UNCHANGED <<pc, target, requestor, batches>>
  BY DEF Swap, Place, Distinct
<1>2. /\ \A q \in Requests : ~Taken(q) /\ ~Queued(q)'
      /\ \A q \in Requests : Taken(q)' <=> Queued(q)
      /\ \A q \in Requests : Batched(q)' <=> Batched(q)
      /\ \A q \in Requests : Replied(q)' <=> Replied(q)
  BY <1>1 DEF Queued, Taken, Batched, Replied, Undelivered, Empty, Range
<1>3. OnePlace'
  BY <1>1, <1>2 DEF Place, OnePlace
<1>4. \A k \in Hashes : Once(Empty[k], 1) /\ Range(Empty[k]) = {}
  BY DEF Empty, Once, Range
<1>5. \A b \in batches : Undelivered(b)' = Undelivered(b)
  BY DEF Undelivered
<1>6. BatchesHomogeneous'
  BY <1>1, <1>5 DEF Place, BatchesHomogeneous
<1>7. Distinct'
  BY <1>1, <1>4, <1>5 DEF Place, Distinct
<1>8. QED
  BY <1>3, <1>6, <1>7 DEF Place

LEMMA StartPlace ==
  ASSUME TypeOK, Place, NEW k \in Hashes, StartBatch(k)
  PROVE  Place'
<1> DEFINE new == [reqs |-> buckets[k], results |-> -1, next |-> 1]
<1>1. /\ batches' = batches \union {new}
      /\ buckets' = [buckets EXCEPT ![k] = <<>>]
      /\ UNCHANGED <<pc, target, requestor, requests, runPC>>
      /\ runPC = "start"
  BY DEF StartBatch, callerVars
<1>2. /\ buckets[k] \in Seq(Requests)
      /\ Undelivered(new) = Range(buckets[k])
      /\ Range(buckets[k]) \subseteq Requests
      /\ buckets'[k] = <<>> /\ Range(buckets'[k]) = {}
      /\ \A j \in Hashes \ {k} : buckets'[j] = buckets[j]
  BY <1>1, RangeOfSeq DEF TypeOK, Undelivered, Range
<1>3. \A j \in Hashes \ {k} : Range(buckets[j]) \intersect Range(buckets[k]) = {}
  BY DEF Place, Distinct
<1>4. /\ \A q \in Requests : Queued(q)' <=> Queued(q)
      /\ \A q \in Requests : Replied(q)' <=> Replied(q)
      /\ \A q \in Requests : Taken(q)' <=> Taken(q) /\ q \notin Range(buckets[k])
      /\ \A q \in Requests : Batched(q)' <=> Batched(q) \/ q \in Range(buckets[k])
  <2>1. \A q \in Requests : Taken(q)' <=> Taken(q) /\ q \notin Range(buckets[k])
    BY <1>2, <1>3 DEF Taken
  <2>2. \A q \in Requests : Batched(q)' <=> Batched(q) \/ q \in Undelivered(new)
    BY <1>1 DEF Batched, Undelivered
  <2>3. QED
    BY <1>1, <1>2, <2>1, <2>2 DEF Queued, Replied
<1>5. \A q \in Range(buckets[k]) : Taken(q)
  BY DEF Taken
<1>6. OnePlace'
  BY <1>1, <1>2, <1>4, <1>5 DEF Place, OnePlace
<1>7. BatchesHomogeneous'
  <2>1. \A q \in Range(buckets[k]) : target'[q] \in Targets /\ Bucket(target'[q]) = k
    BY <1>1, <1>2 DEF Place, Distinct, TypeOK
  <2>2. \A r1, r2 \in Undelivered(new) :
          target'[r1] # target'[r2] => Collide(target'[r1], target'[r2])
    BY <1>2, <2>1, KeysDiffer DEF Collide
  <2>3. QED
    BY <1>1, <2>2 DEF Place, BatchesHomogeneous, Undelivered
<1>8. \A b \in batches : Undelivered(b) \intersect Undelivered(new) = {}
  BY <1>2, <1>5 DEF Place, OnePlace, Batched
<1>9. Once(new.reqs, new.next) /\ Once(<<>>, 1)
  BY DEF Place, Distinct, Once
<1>10. Distinct'
  <2>1. \A b \in batches' : Undelivered(b)' = Undelivered(b)
    BY DEF Undelivered
  <2>2. \A b1, b2 \in batches' : b1 # b2 => Undelivered(b1) \intersect Undelivered(b2) = {}
    BY <1>1, <1>8 DEF Place, Distinct
  <2>3. \A b \in batches' : Once(b.reqs, b.next)
    BY <1>1, <1>9 DEF Place, Distinct
  <2>4. QED
    BY <1>1, <1>2, <1>9, <2>1, <2>2, <2>3 DEF Place, Distinct
<1>11. QED
  BY <1>6, <1>7, <1>10 DEF Place

\* A step of runBatch replaces its batch by what is left of it.
LEMMA BatchPlace ==
  ASSUME Place, NEW b \in batches, NEW rest, NEW gone,
         batches' = (batches \ {b}) \union rest,
         \A c \in rest : /\ Undelivered(c) = Undelivered(b) \ gone
                        /\ Once(c.reqs, c.next),
         rest = {} => Undelivered(b) \ gone = {},
         \A c1, c2 \in rest : c1 = c2,
         UNCHANGED <<pc, target, requests, runVars>>,
         gone \subseteq Undelivered(b),
         \A q \in Requests : Replied(q)' <=> Replied(q) \/ q \in gone
  PROVE  Place'
<1>1. /\ \A q \in Requests : Queued(q)' <=> Queued(q)
      /\ \A q \in Requests : Taken(q)' <=> Taken(q)
      /\ UNCHANGED <<runPC, buckets>>
  BY DEF Queued, Taken, runVars
<1>2. \A c \in batches \ {b} : Undelivered(c) \intersect Undelivered(b) = {}
  BY DEF Place, Distinct
<1>3. \A q \in Requests : Batched(q)' <=> Batched(q) /\ q \notin gone
  BY <1>2 DEF Batched, Undelivered
<1>4. \A q \in gone : Batched(q)
  BY DEF Batched
<1>5. OnePlace'
  BY <1>1, <1>3, <1>4 DEF Place, OnePlace
<1>6. \A c \in batches' : Undelivered(c)' = Undelivered(c)
  BY DEF Undelivered
<1>7. BatchesHomogeneous'
  BY <1>6 DEF Place, BatchesHomogeneous
<1>8. \A c1, c2 \in batches' : c1 # c2 => Undelivered(c1) \intersect Undelivered(c2) = {}
  BY <1>2 DEF Place, Distinct
<1>9. \A c \in batches' : Once(c.reqs, c.next)
  BY DEF Place, Distinct
<1>10. Distinct'
  BY <1>1, <1>6, <1>8, <1>9 DEF Place, Distinct
<1>11. QED
  BY <1>5, <1>7, <1>10 DEF Place

LEMMA NextPlace == TypeOK /\ Place /\ [Next]_vars => Place'
<1> SUFFICES ASSUME TypeOK, Place, [Next]_vars PROVE Place'
  OBVIOUS
<1>1. CASE UNCHANGED vars
  BY <1>1, NothingMoves DEF vars, callerVars, runVars, Place, Distinct
<1>2. ASSUME NEW r \in Requests, Signal(r) \/ Cancel(r) PROVE Place'
  BY <1>2, NothingMoves DEF Signal, Cancel, TypeOK, runVars, Place, Distinct
<1>3. CASE StrangerSignal \/ EndContext \/ IdleExpires \/ MaxExpires
  BY <1>3, NothingMoves DEF StrangerSignal, EndContext, IdleExpires, MaxExpires, callerVars,
                            runVars, Place, Distinct
<1>4. CASE Wake \/ ResetIdle \/ EndWait \/ Again \/ Stop
  BY <1>4, NothingMoves DEF Wake, ResetIdle, EndWait, Again, Stop, callerVars, Place, Distinct
<1>5. ASSUME NEW b \in batches, Execute(b) PROVE Place'
  <2>1. PICK n \in 0 .. Len(b.reqs) :
          batches' = (batches \ {b}) \union {[b EXCEPT !.results = n]}
    BY <1>5 DEF Execute
  <2> DEFINE c == [b EXCEPT !.results = n]
  <2>2. c.reqs = b.reqs /\ c.next = b.next
    BY DEF TypeOK, IsBatch
  <2>3. Undelivered(c) = Undelivered(b) \ {} /\ Once(c.reqs, c.next)
    BY <2>2 DEF Undelivered, Place, Distinct
  <2>4. /\ UNCHANGED <<pc, target, requests, runVars>>
        /\ \A q \in Requests : Replied(q)' <=> Replied(q) \/ q \in {}
    BY <1>5 DEF Execute, callerVars, Replied
  <2>5. batches' = (batches \ {b}) \union {c}
    BY <2>1
  <2> DEFINE rest == {c}
             gone == {}
  <2>6. /\ batches' = (batches \ {b}) \union rest
        /\ \A d \in rest : /\ Undelivered(d) = Undelivered(b) \ gone
                           /\ Once(d.reqs, d.next)
        /\ rest = {} => Undelivered(b) \ gone = {}
        /\ \A c1, c2 \in rest : c1 = c2
        /\ gone \subseteq Undelivered(b)
        /\ \A q \in Requests : Replied(q)' <=> Replied(q) \/ q \in gone
    BY <2>3, <2>4, <2>5
  <2> HIDE DEF rest, gone
  <2>7. QED
    BY <2>4, <2>6, BatchPlace
<1>6. ASSUME NEW b \in batches, Deliver(b) PROVE Place'
  <2> DEFINE r == b.reqs[b.next]
             c == [b EXCEPT !.next = @ + 1]
             rest == IF b.next = Len(b.reqs) THEN {} ELSE {c}
  <2>1. IsBatch(b) /\ Once(b.reqs, b.next)
    BY DEF TypeOK, Place, Distinct
  <2>2. /\ b.reqs \in Seq(Requests) /\ Len(b.reqs) \in Nat
        /\ b.next \in 1 .. Len(b.reqs) /\ r \in Requests
    BY <2>1 DEF IsBatch
  <2>3. /\ batches' = (batches \ {b}) \union rest
        /\ UNCHANGED <<pc, target, requests, runVars>>
        /\ requestor' = [requestor EXCEPT ![r] = ResultAt(b, b.next)]
    BY <1>6 DEF Deliver
  <2>4. r \in Undelivered(b)
    BY <2>2 DEF Undelivered
  <2>5. \A i \in b.next + 1 .. Len(b.reqs) : b.reqs[i] # r
    BY <2>1, <2>2 DEF Once
  <2>6. c.reqs = b.reqs /\ c.next = b.next + 1
    BY <2>1 DEF IsBatch
  <2>7. {b.reqs[i] : i \in b.next + 1 .. Len(b.reqs)} = Undelivered(b) \ {r}
    BY <2>2, <2>5 DEF Undelivered
  <2>8. Undelivered(c) = Undelivered(b) \ {r} /\ Once(c.reqs, c.next)
    BY <2>1, <2>2, <2>6, <2>7 DEF Undelivered, Once
  <2>9. b.next = Len(b.reqs) => Undelivered(b) \ {r} = {}
    BY <2>2 DEF Undelivered
  <2>10. ResultAt(b, b.next) # NoResult
    BY <2>2, BatcherAssumption DEF ResultAt
  <2>11. \A q \in Requests : Replied(q)' <=> Replied(q) \/ q \in {r}
    BY <2>2, <2>3, <2>10 DEF Replied, TypeOK
  <2> DEFINE gone == {r}
  <2>12. /\ \A d \in rest : /\ Undelivered(d) = Undelivered(b) \ gone
                            /\ Once(d.reqs, d.next)
         /\ rest = {} => Undelivered(b) \ gone = {}
         /\ \A c1, c2 \in rest : c1 = c2
         /\ gone \subseteq Undelivered(b)
         /\ \A q \in Requests : Replied(q)' <=> Replied(q) \/ q \in gone
    <3> HIDE DEF c, r
    <3>1. QED
      BY <2>4, <2>8, <2>9, <2>11
  <2> HIDE DEF rest, gone
  <2>13. QED
    BY <2>3, <2>12, BatchPlace
<1>7. QED
  BY <1>1, <1>2, <1>3, <1>4, <1>5, <1>6, AddPlace, ReceivePlace, SwapPlace, StartPlace
  DEF Next, Run, RunBatch

LEMMA PlaceInvariant == Spec => []Place
BY InitPlace, NextPlace, TypeCorrect, PTL DEF Spec

\* From Add to its result a request is in exactly one of its bucket, the buckets run
\* has taken, a batch, and its result channel: it is executed once and answered
\* once, and no send of runBatch ever blocks (batcher.go:97-99, 137-144, 181-188).
THEOREM InOnePlace == Spec => []OnePlace
<1>1. Place => OnePlace
  BY DEF Place
<1>2. QED
  BY <1>1, PlaceInvariant, PTL

\* Whatever the hash does, what a batch still has to deliver is of one MachineDeployment,
\* that of its first input, unless two different batch keys collide: "/" keeps the keys
\* of two MachineDeployments apart (batcher.go:120-125, 142-144; create.go:45-47, 125-127).
THEOREM BatchesOfOneKey == Spec => []BatchesHomogeneous
<1>1. Place => BatchesHomogeneous
  BY DEF Place
<1>2. QED
  BY <1>1, PlaceInvariant, PTL

-----------------------------------------------------------------------------
(* Refinement of BatchService *)

Seen == [r \in Requests |-> IF pc[r] \in {"signal", "wait"} THEN "waiting" ELSE pc[r]]

\* Of a step that is not a caller's and delivers nothing, callers see nothing.
LEMMA Unseen ==
  ASSUME UNCHANGED <<pc, requestor>>
  PROVE  UNCHANGED <<Seen, requestor>>
BY DEF Seen

LEMMA InitRefines == Init => Service!Init
BY DEF Init, Service!Init

LEMMA DeliverRefines ==
  ASSUME TypeOK, Place, NEW b \in batches, Deliver(b)
  PROVE  \E r \in Requests : Service!Answer(r)
<1> DEFINE r == b.reqs[b.next]
<1>1. IsBatch(b)
  BY DEF TypeOK
<1>2. /\ r \in Requests /\ r \in Undelivered(b)
      /\ ResultAt(b, b.next) \in {r, TooFew}
  BY <1>1 DEF IsBatch, Undelivered, ResultAt
<1>3. pc[r] # "idle"
  BY <1>2 DEF Place, OnePlace, Batched
<1>4. Seen[r] # "idle"
  BY <1>2, <1>3 DEF Seen
<1>5. /\ requestor[r] = NoResult /\ pc' = pc
      /\ requestor' = [requestor EXCEPT ![r] = ResultAt(b, b.next)]
  BY DEF Deliver
<1>6. Seen' = Seen
  BY <1>5 DEF Seen
<1>7. Service!Answer(r)
  <2> HIDE DEF r
  <2>1. QED
    BY <1>2, <1>4, <1>5, <1>6 DEF Service!Answer, Seen
<1>8. QED
  BY <1>2, <1>7

LEMMA NextRefines ==
  ASSUME TypeOK, Place, [Next]_vars
  PROVE  [Service!Next]_<<Seen, requestor>>
<1>1. CASE UNCHANGED vars
  BY <1>1, Unseen DEF vars, callerVars
<1>2. ASSUME NEW r \in Requests, AddRequest(r) PROVE Service!Submit(r)
  BY <1>2 DEF AddRequest, Service!Submit, TypeOK
<1>3. ASSUME NEW r \in Requests, Signal(r) PROVE UNCHANGED <<Seen, requestor>>
  BY <1>3 DEF Signal, Seen, TypeOK
<1>4. ASSUME NEW r \in Requests, Return(r) \/ Forget(r) PROVE Service!Return(r)
  BY <1>4 DEF Return, Forget, Service!Return, TypeOK
<1>5. ASSUME NEW r \in Requests, Cancel(r) PROVE Service!Abandon(r)
  BY <1>5 DEF Cancel, Service!Abandon, TypeOK
<1>6. CASE StrangerSignal \/ EndContext \/ IdleExpires \/ MaxExpires
  BY <1>6, Unseen DEF StrangerSignal, EndContext, IdleExpires, MaxExpires, callerVars
<1>7. CASE Run
  BY <1>7, Unseen DEF Run, Wake, ResetIdle, EndWait, Swap, Again, Stop, StartBatch, callerVars
<1>8. ASSUME NEW b \in batches, Execute(b) PROVE UNCHANGED <<Seen, requestor>>
  BY <1>8, Unseen DEF Execute, callerVars
<1>9. ASSUME NEW b \in batches, Deliver(b) PROVE Service!Next
  BY <1>9, DeliverRefines DEF Service!Next
<1>10. QED
  BY <1>1, <1>2, <1>3, <1>4, <1>5, <1>6, <1>7, <1>8, <1>9
  DEF Next, RunBatch, Service!Next

\* To its callers the batcher is the abstract service: a request is answered at most
\* once, with the result of its own input or an error, and never after its caller's
\* slot is in use again (batcher.go:93-113, 181-188).
THEOREM Refines == Spec => ImplementsBatchService
<1>1. TypeOK /\ Place /\ [Next]_vars => [Service!Next]_<<Seen, requestor>>
  BY NextRefines
<1>2. QED
  BY <1>1, InitRefines, TypeCorrect, PlaceInvariant, PTL
  DEF Spec, ImplementsBatchService, Service!Spec, Seen
=============================================================================
