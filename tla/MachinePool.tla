----------------------------- MODULE MachinePool -----------------------------
(***************************************************************************)
(* What Karpenter may rely on of the Machines behind its NodeClaims, with  *)
(* no label, annotation, replica count, lock, batch or MachineSet          *)
(* controller in sight: a Machine serves one NodeClaim at most and for its *)
(* whole life, and is removed only after that NodeClaim was released.      *)
(***************************************************************************)
CONSTANTS Machines, NodeClaims, NoMachine

VARIABLES
  owned,   \* the Machine of each NodeClaim
  wanted,  \* whether each NodeClaim still needs one
  status   \* of each Machine

Init ==
  /\ owned \in [NodeClaims -> Machines \union {NoMachine}]
  /\ \A nc1, nc2 \in NodeClaims :
       owned[nc1] = owned[nc2] /\ owned[nc1] # NoMachine => nc1 = nc2
  /\ wanted = [nc \in NodeClaims |-> TRUE]
  /\ status = [m \in Machines |->
       IF \E nc \in NodeClaims : owned[nc] = m THEN "taken" ELSE "absent"]

Owners(m) == {nc \in NodeClaims : owned[nc] = m}

Becomes(m, from, to) ==
  /\ status[m] = from
  /\ status' = [status EXCEPT ![m] = to]
  /\ UNCHANGED <<owned, wanted>>

Provide(m) == Becomes(m, "absent", "free")

\* Somebody reserves the Machine, and makes it a NodeClaim's or gives it back.
Take(m) == Becomes(m, "free", "taken")
GiveBack(m) == Owners(m) = {} /\ Becomes(m, "taken", "free")

Own(nc, m) ==
  /\ owned[nc] = NoMachine
  /\ status[m] = "taken" /\ Owners(m) = {}
  /\ owned' = [owned EXCEPT ![nc] = m]
  /\ UNCHANGED <<wanted, status>>

Release(nc) ==
  /\ wanted[nc]
  /\ wanted' = [wanted EXCEPT ![nc] = FALSE]
  /\ UNCHANGED <<owned, status>>

\* A Machine nobody needs any more is condemned.  It may still be spared.
Condemn(m) ==
  /\ \E nc \in Owners(m) : ~wanted[nc]
  /\ Becomes(m, "taken", "condemned")
Spare(m) == Becomes(m, "condemned", "taken")
Remove(m) == Becomes(m, "condemned", "gone")

Next ==
  \/ \E m \in Machines : \/ Provide(m) \/ Take(m) \/ GiveBack(m)
                         \/ Condemn(m) \/ Spare(m) \/ Remove(m)
                         \/ \E nc \in NodeClaims : Own(nc, m)
  \/ \E nc \in NodeClaims : Release(nc)

Spec == Init /\ [][Next]_<<owned, wanted, status>>
=============================================================================
