----------------------------- MODULE BatchService -----------------------------
(***************************************************************************)
(* What Batcher.Add promises its callers, with no queue, timer or batch in *)
(* sight: a request is answered at most once, with the result of its own   *)
(* input or an error, and a caller leaves with its answer or because its   *)
(* context ended.                                                          *)
(***************************************************************************)
CONSTANTS
  Requests,  \* request slots: one for each concurrent caller of Add
  NoResult,  \* the result channel is empty
  TooFew     \* the error for a batch with too few results

VARIABLES
  state,  \* of each request
  reply   \* its result channel; the result of input r is written r

Init ==
  /\ state = [r \in Requests |-> "idle"]
  /\ reply = [r \in Requests |-> NoResult]

Submit(r) ==
  /\ state[r] = "idle"
  /\ state' = [state EXCEPT ![r] = "waiting"]
  /\ UNCHANGED reply

Answer(r) ==
  /\ state[r] # "idle" /\ reply[r] = NoResult
  /\ \E result \in {r, TooFew} : reply' = [reply EXCEPT ![r] = result]
  /\ UNCHANGED state

Return(r) ==
  /\ state[r] # "idle" /\ reply[r] # NoResult
  /\ state' = [state EXCEPT ![r] = "idle"]
  /\ reply' = [reply EXCEPT ![r] = NoResult]

Abandon(r) ==
  /\ state[r] = "waiting"
  /\ state' = [state EXCEPT ![r] = "abandoned"]
  /\ UNCHANGED reply

Next == \E r \in Requests : Submit(r) \/ Answer(r) \/ Return(r) \/ Abandon(r)

Spec == Init /\ [][Next]_<<state, reply>>
=============================================================================
