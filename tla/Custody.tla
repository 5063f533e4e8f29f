------------------------------- MODULE Custody -------------------------------
(***************************************************************************)
(* Who has which Machine in hand, from the poll that collects it to the    *)
(* goroutine that hands it to a NodeClaim.  Nothing in the code keeps two  *)
(* executions from having the same one (create.go:101-103), so what is     *)
(* promised of a Machine is promised as long as nothing went wrong with    *)
(* that Machine: the history variable "suspect" collects those of which    *)
(* two executions had hold, which came out of an outdated List, or whose   *)
(* patch was reported to have failed although it took effect.  Everything  *)
(* else may happen: overlapping batches, any failing call, lost replies,   *)
(* repeated Deletes, restarts, caches that lag.                            *)
(***************************************************************************)
EXTENDS Requirements

VARIABLE suspect

auditVars == <<vars, suspect>>

Binds(nc, m) == assigned[nc] = m /\ bindPC[nc] \in {"label", "patch", "rollback"}

\* The execution has collected the Machine, or one of its goroutines binds it.
Holds(b, m) == m \in Range(found[b]) \/ \E nc \in CreateInput(b) : Binds(nc, m)

InHand(m) ==
  \/ \E b \in CreateBatches : m \in Range(found[b])
  \/ \E nc \in NodeClaims : Binds(nc, m)

Contested(m) ==
  \E b \in CreateBatches : Holds(b, m) /\ \E other \in CreateBatches \ {b} : Holds(other, m)

\* What the API server has for a Machine that a List may rightly return.
Free(m) ==
  machine[m].phase = "live" /\ ~machine[m].member /\ ~machine[m].marked

\* The Machine comes into hand out of an outdated List: it has been taken, marked or
\* removed since.
Misread(m) == MachineView[m] # machine[m] /\ ~Free(m) /\ ~InHand(m) /\ InHand(m)'

\* The patch that gives the Machine to a NodeClaim took effect, and the goroutine
\* goes on to roll back the label.
Disowned(m) ==
  \E nc \in NodeClaims :
    /\ assigned[nc] = m /\ bindPC[nc] = "patch"
    /\ bindPC'[nc] = "rollback" /\ annotation'[nc] = m

Audit ==
  suspect' = suspect \union {m \in Machines \ suspect : Contested(m)' \/ Misread(m) \/ Disowned(m)}

AuditedSpec == Init /\ suspect = {} /\ [][Next /\ Audit]_auditVars

-----------------------------------------------------------------------------
Owned(m) == \E nc \in NodeClaims : annotation[nc] = m

\* A Machine goes to one NodeClaim, unless something went wrong with that Machine:
\* no other interleaving, failure, retry or restart leads there (create.go:101-106,
\* 211-232, 315-346).
OneOwner ==
  \A nc1, nc2 \in NodeClaims :
    /\ annotation[nc1] = annotation[nc2]
    /\ annotation[nc1] \notin suspect \union {NoMachine}
    => nc1 = nc2

\* A NodeClaim's Machine keeps the label that hides it from every poll, for as
\* long as it is there: no rollback but its own takes it off (create.go:315, 335-346).
OwnedKeepsLabel ==
  \A m \in Machines \ suspect :
    Owned(m) /\ machine[m].phase \in {"live", "deleting"} => machine[m].member

\* A Machine whose deletion has been requested is not claimed, however long ago
\* the poll saw it without the mark (create.go:108-110, delete.go:84-87).
MarkedNotClaimed ==
  [][\A nc \in NodeClaims :
       bindPC[nc] = "label" /\ bindPC'[nc] = "patch" =>
         assigned[nc] \in suspect \/ ~machine[assigned[nc]].marked]_auditVars

Released(m) == \E nc \in NodeClaims : m \in {annotation[nc], target[nc]} /\ ~Wanted[nc]

\* How the pool a Machine is in may change in one step: in MachinePool's order,
\* except that the MachineSet controller takes any Machine when those nobody asked
\* to delete do not fit.
Fate(m) ==
  LET old == StatusOf(machine[m])
      new == StatusOf(machine'[m])
  IN \/ new = old
     \/ old = "absent" /\ new = "free"
     \/ old = "free" /\ new = "taken"
     \/ old = "taken" /\ new = "free" /\ ~Owned(m)
     \/ old = "taken" /\ new = "condemned" /\ Released(m)
     \/ old \in {"free", "taken"} /\ new = "condemned" /\ ~NoCollateralDeletion
     \/ old = "condemned" /\ new \in {"taken", "gone"}

\* A Machine is given back only while it is nobody's, and only a NodeClaim that was
\* released has it marked: through overlapping batches, rollbacks and restarts
\* (create.go:335-346, delete.go:64-87, 183-201).
FateFollowsPool == [][\A m \in Machines \ suspect' : Fate(m)]_auditVars

-----------------------------------------------------------------------------
(* What the proofs rest on besides. *)

\* Somebody goes by the Machine as a NodeClaim's: an annotation, current or cached, a
\* providerID, a delete request, or a goroutine that has recorded it and is about to
\* return it.
Used(m) ==
  \E nc \in NodeClaims :
    \/ m \in {annotation[nc], annotationCache[nc], providerID[nc], target[nc]}
    \/ /\ assigned[nc] = m /\ bindPC[nc] \in {"idle", "done"}
       /\ outcome[nc] \in {"launched", "waiting"}

Labelled(m) == machine[m].phase \in {"live", "deleting"} => machine[m].member

\* What the provider has in hand, goes by or has paid for, and what the informer
\* shows, has been created.
CreatedBefore ==
  \A m \in Machines :
    InHand(m) \/ Used(m) \/ machineCache[m].phase # "absent" \/ m \in paid =>
      machine[m].phase # "absent"

\* A Machine that nothing went wrong with is in one execution's hands or in use, not
\* both; in hand it has no mark, and from the label on it keeps the label.
CustodyKept ==
  \A m \in Machines \ suspect :
    /\ ~Contested(m)
    /\ InHand(m) => ~Used(m) /\ ~machine[m].marked
    /\ Used(m) => Labelled(m)
    /\ \A nc \in NodeClaims :
         assigned[nc] = m /\ bindPC[nc] \in {"patch", "rollback"} => Labelled(m)
    /\ \A nc1, nc2 \in NodeClaims : annotation[nc1] = m /\ annotation[nc2] = m => nc1 = nc2
=============================================================================
