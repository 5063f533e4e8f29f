---------------------------- MODULE NodeClassStatus ----------------------------
(***************************************************************************)
(* The ClusterAPINodeClass and the controller that sets its Ready condition*)
(* (pkg/controllers/nodeclass/status).  The controller reads from a cache, *)
(* and its merge patch replaces the whole list of conditions.              *)
(***************************************************************************)
EXTENDS Integers

CONSTANTS
  Selectors,    \* scalable resource selectors a user may set
  MaxVersion    \* bound on the changes others make to the NodeClass

ASSUME NodeClassAssumption == MaxVersion \in Nat

VARIABLES
  nodeClass,    \* the object, as the API server has it
  classCache,   \* the informer's copy of it
  classCopy,    \* the object Reconcile works on
  classPC,      \* "idle", or "patch" when it is about to patch
  classQueued   \* whether the work queue holds the NodeClass

classVars == <<nodeClass, classCache, classCopy, classPC, classQueued>>

\* "extra" is a condition of another writer; Ready is not set at first.
NodeClass ==
  [exists : BOOLEAN, version : Nat, selector : Selectors,
   ready : {"unknown", "false", "true"}, extra : BOOLEAN]

\* Reconcile holds no object between two runs.
NoCopy ==
  [exists |-> FALSE, version |-> 0, selector |-> CHOOSE s \in Selectors : TRUE,
   ready |-> "unknown", extra |-> FALSE]

NodeClassTypeOK ==
  /\ {nodeClass, classCache, classCopy} \subseteq NodeClass
  /\ classPC \in {"idle", "patch"}
  /\ classQueued \in BOOLEAN

NodeClassInit ==
  /\ \E s \in Selectors :
       nodeClass = [exists |-> TRUE, version |-> 0, selector |-> s,
                    ready |-> "unknown", extra |-> FALSE]
  /\ classCache = nodeClass /\ classCopy = NoCopy
  /\ classPC = "idle"
  /\ classQueued = TRUE

\* Other writers (external): the user and whoever else sets conditions.
OthersWrite ==
  /\ nodeClass.exists /\ nodeClass.version < MaxVersion
  /\ \E object \in
       {[nodeClass EXCEPT !.selector = s] : s \in Selectors}
         \union {[nodeClass EXCEPT !.extra = TRUE], [nodeClass EXCEPT !.ready = "false"],
                 [nodeClass EXCEPT !.exists = FALSE]} :
       nodeClass' = [object EXCEPT !.version = nodeClass.version + 1]
  /\ UNCHANGED <<classCache, classCopy, classPC, classQueued>>

\* The informer catches up, and the watch event queues the NodeClass.
SyncNodeClass ==
  /\ classCache # nodeClass
  /\ classCache' = nodeClass
  /\ classQueued' = TRUE
  /\ UNCHANGED <<nodeClass, classCopy, classPC>>

\* Faulty: a condition that is false is left alone.
NeedsReadyUnknown(object) == object.ready = "unknown"

NeedsReady(object) == object.ready \in {"unknown", "false"}

\* Reconcile of one object is never run twice at a time.  A NodeClass the cache
\* does not have any more is not handed over.
ReconcileStart ==
  /\ classPC = "idle" /\ classQueued
  /\ IF classCache.exists /\ NeedsReady(classCache)
     THEN classPC' = "patch" /\ classCopy' = classCache
     ELSE UNCHANGED <<classPC, classCopy>>
  /\ classQueued' = FALSE
  /\ UNCHANGED <<nodeClass, classCache>>

\* Faulty: a merge patch without the resourceVersion.
PatchAccepted(copy) == nodeClass.exists

\* MergeFromWithOptimisticLock: the resourceVersion of the copy is in the patch.
PatchApplies(copy) == nodeClass.exists /\ copy.version = nodeClass.version

\* The conditions are those of the copy, with Ready true.
ReconcilePatch ==
  /\ classPC = "patch" /\ PatchApplies(classCopy)
  /\ nodeClass' = [nodeClass EXCEPT !.ready = "true", !.extra = classCopy.extra,
                                    !.version = @ + 1]
  /\ classPC' = "idle" /\ classCopy' = NoCopy
  /\ UNCHANGED <<classCache, classQueued>>

\* NotFound is ignored; after a conflict or another error the object is queued again.
ReconcileFails ==
  /\ classPC = "patch"
  /\ \E again \in {nodeClass.exists, TRUE} : classQueued' = (classQueued \/ again)
  /\ classPC' = "idle" /\ classCopy' = NoCopy
  /\ UNCHANGED <<nodeClass, classCache>>

NodeClassNext ==
  \/ OthersWrite \/ SyncNodeClass
  \/ ReconcileStart \/ ReconcilePatch \/ ReconcileFails
=============================================================================
