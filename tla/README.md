# Verification of the Karpenter provider for Cluster API

The provider turns Karpenter's NodeClaims into Cluster API Machines by moving
`spec.replicas` of MachineDeployments. It never creates or deletes a Machine
itself: it asks for one more replica and waits for an unclaimed Machine to
appear, or marks a Machine and asks for one replica less. What makes this hard
is that many NodeClaims share a MachineDeployment, that requests are batched and
the batches overlap, that each batch is a sequence of API calls any of which may
fail, and that the reads come from caches. These TLA+ modules model that
protocol; TLC checks them on small instances and TLAPS proves the central facts
for instances of any size.

Paths are relative to `src/pkg/` unless they say otherwise.

## 1. Inventory

| Component | State it keeps | Operations | Modelled by |
|---|---|---|---|
| Batcher (`batcher/batcher.go`) | buckets of requests under a mutex, the trigger channel, one result channel a request, the idle and maximum timers | `Add`, `run`, `waitForIdle`, `runBatch` | `Batcher` (promise: `BatchService`) |
| MDLockManager (`batcher/mdlock.go`) | a map of mutexes, and its own mutex | `Lock`, `Unlock` | `MDLock` (promise: `KeyedMutex`) |
| Create executor (`batcher/create.go`) | per execution: the MachineDeployment it read, the Machines its poll has collected | count and increment, poll, bind (label, annotate, roll back) | `CreateBatch` |
| Delete executor (`batcher/delete.go`) | per execution: which Machines it has marked | mark, decrement, roll the marks back | `DeleteBatch` |
| CloudProvider (`cloudprovider/cloudprovider.go`) | none; owns the two batchers and the lock they share | `Create`, `Delete` | `CloudProvider` |
| - choice of a MachineDeployment, capacity, labels, offerings | none | read-only conversions | `InstanceTypes`, called by `Catalog` |
| - `Get`, `List`, `GetInstanceTypes` | none | conversion of Machines to NodeClaims, read by Karpenter's garbage collection | `Catalog` |
| Machine and MachineDeployment providers (`providers/`) | none | `Get`, `GetByProviderID`, `List`, `Update`, add and remove the delete annotation | the calls in `Cluster` and `DeleteBatch`, `Selected` of `InstanceTypes` |
| - `ParseMachineAnnotation` (`providers/providers.go`) | none | splits "namespace/name" | no: see section 5 |
| NodeClass status controller (`controllers/nodeclass/status`) | the patch it is about to send | `Reconcile` | `NodeClassStatus`, composed in `Catalog` |
| Operator, options, `main` | flags, clients | wiring | no: no protocol of its own |
| API types, CRDs, charts | | | no: declarations, generated code |
| Cluster API, API server, informers, Karpenter's lifecycle controller | the cluster | | external: environment actions of `Cluster`, and the caller in `CloudProvider` |

**How they interact.** `Create` and `Delete` call `Add` on a batcher and block on
a result channel. The batcher's goroutine collects requests until the window
closes and starts one goroutine for each MachineDeployment, so executions for the
same MachineDeployment overlap. An executor takes the MachineDeployment's lock
for its read-modify-write of `spec.replicas` and nothing else; polling, labelling,
marking and rolling back happen outside it, one goroutine a Machine for some of
them. Executions meet in the API server: in `spec.replicas`, in the
`NodePoolMemberLabel` and the delete-machine annotation of Machines, and in the
Machine annotation of NodeClaims. Cluster API reacts to the same fields.

**What makes each correct.**

* Batcher: a request that was added is executed, once, with requests of its own
  MachineDeployment as far as a 64-bit hash of the key tells them apart, and its caller gets the result for its own input, even when
  the ring of the trigger was dropped, callers keep arriving, callers give up, the
  executor returns too few results, or the batcher is shut down.
* MDLockManager: one executor at a time for a MachineDeployment; `Unlock` releases
  what `Lock` took; `Lock` returns.
* Create executor: replicas go up by what is missing and not more; a Machine gets
  one NodeClaim; a Machine that leaves the unclaimed pool is somebody's; nothing
  that is being deleted is handed out; every request is answered.
* Delete executor: replicas go down by one for each Machine that goes; a failed
  decrement leaves no mark; no Machine goes that nobody asked to delete.
* Create and Delete: a NodeClaim keeps its Machine; a launched NodeClaim reports
  its own Machine; NotFound is said only of a Machine that is gone.
* The choice and the report: a launched NodeClaim has the resources and a zone it asked
  for and no label value it excludes, and what is reported of it comes from the owner of its
  Machine, while users edit MachineDeployments and the NodeClass at any moment.
* `Get` and `List`: nothing in them makes Karpenter collect a NodeClaim that runs.
* NodeClass status controller: the NodeClass becomes ready, and no condition of
  another writer is lost on the way.

`PROJECT.json` lists the hazards, each at its line, with the properties that
would show it going wrong.

## 2. Modules

    Cluster                       shared state, API calls, Cluster API, caches
      |-- CreateBatch             the create executor
      |-- DeleteBatch             the delete executor
            \-- CloudProvider     both, Create and Delete, the caller, restarts
                  \-- Requirements            the properties; implements MachinePool
                        |-- MCCloudProvider   instances for TLC
                        |-- Custody           who has which Machine in hand
                        |     \-- MCCustody   (also on MCCloudProvider)
                        \-- CloudProviderTypes                    proofs
                              |-- CloudProviderProofs
                              \-- CreateRequestProofs
                                    \-- BindingProofs
                                          \-- CustodyProofs
                                              (also on Custody, CloudProviderProofs)
    NodeClassStatus               the status controller
    InstanceTypes                 labels, capacity, filter, choice; no state
      \-- Catalog                 both: several MachineDeployments, and users who edit them
            |-- MCCatalog         instances for TLC
            \-- CatalogProofs
    MDLock      implements KeyedMutex;      MDLockProofs
    Batcher     implements BatchService;    BatcherProofs, MCBatcher

The pieces fit as follows: `MDLock` is shown to implement `KeyedMutex`, and
`Cluster.Lock` and `Unlock` are that abstract lock for the one key the model has;
`Batcher` is shown to implement `BatchService`, and `CreateAdd`, `CreateStart`
and `CreateReturn` (for deletes `DeleteAdd`, `DeleteStart`, `DeleteReturn`) use
it as "whatever was added is taken by one execution, and answered". Both
refinements are proved. `CloudProvider` is about one MachineDeployment, in full
detail; `Catalog` is about several, with the create executor in two steps, each of
which may also fail; its requests are those that reach `CreateAdd`.

### Cluster, CreateBatch, DeleteBatch, CloudProvider

One MachineDeployment: two never share a lock or a Machine, and a batch only when the
hashes of their keys collide (`BatchesHomogeneous` of `Batcher`). Its `spec.replicas` and
`resourceVersion` are `md`. A Machine is its phase, whether it has a providerID,
the member label and the delete-machine annotation. `annotation` is the Machine
annotation of each NodeClaim.

*Reads and writes.* A `Get` or `List` is answered from the informer's copy
(`mdCache`, `machineCache`, `annotationCache`): the current state or, with `CacheLag`,
the one at the last `Sync`, which may be any time ago. A `Sync` brings its copy to the
current state, so a copy that is read at one moment is any earlier state; what the model
leaves out is an informer that is several writes behind and catches up by some of them
only, with reads of an executor before and after. "Lagging" means this below. An
`Update` carries the `resourceVersion` that was read, so it goes through only from the
current object. For the MachineDeployment the read and the `Update` are two steps
of the executor, with the lock held; for a Machine `Get` and `Update` follow each
other directly, so they are one step that succeeds when the copy read is current
and may be refused at any time. The patch of the NodeClaim has no
`resourceVersion` and always applies. Every call may fail at any time; that also
stands for cancelled contexts. With `LostReplies` a write may also be applied and answered
with an error, which the executor takes for a failure.

*Executors.* The program counter of an execution (`createPC`, `deletePC`) names
the API call it is about to make; each step is the handler's code from one such
call to the next. The goroutines it starts have their own (`bindPC`, `markPC`), so
they interleave. A create batch is a sequence, because Machines and inputs are
paired by position; in a delete batch the order does not matter and it is a set.
The poll's `List` returns Machines in any order. The deadline can pass at any
moment of the poll. A step that ends an execution clears its local variables, so
that finished executions do not multiply states.

*Callers.* `claim` is where a NodeClaim is in its life. Karpenter's lifecycle
controller calls `Create` until it succeeds, and `Delete` once the NodeClaim is
being deleted, one call at a time for a NodeClaim (a controller's work queue hands
out an object to one worker only). Karpenter remembers a `Delete` that succeeded in
a status condition and then waits; it calls `Delete` again when that status did
not get written. `RepeatDelete` says whether that happens.

*Restarts.* `Restart` may come between any two steps, `MaxRestarts` times. Queues,
executions, lock and calls in progress are gone; the MachineDeployment, the labels,
the marks and the annotations stay; the lifecycle controller reconciles every
NodeClaim anew. What an execution was about to take back stays behind and is
recorded in `labelLeaked` and `markLeaked`.

*Left out of it.* Nil replicas and more than one MachineDeployment (in `Catalog`);
the choice of instance type, but for the max-size check (in `InstanceTypes`); a
caller whose context ends while it waits (in `Batcher`). `granted`, `taken`, `paid`,
`labelLeaked` and `markLeaked` are history variables: no guard reads them, and neither does one read `suspect` of `Custody`.

### MachinePool

The promise of Create and Delete to Karpenter, without replicas, labels, marks,
batches or Cluster API: a Machine is free, taken by one NodeClaim for its whole
life, condemned only once that NodeClaim is released, and then gone or spared.
`PoolStatus` of `Requirements` is the mapping: a Machine is condemned when it is
marked or deleting, else taken when it has the member label (`StatusOf`, in that
order of precedence). As it stands the code implements it only under the restrictions of
`CloudProvider_serial`; the violation runs show the steps that are not steps of it.

### Custody

What remains of that promise without the restrictions. Nothing in the code keeps two
executions from collecting one Machine, so `Custody` follows who has a Machine in hand
(`Holds`: an execution has collected it, or one of its goroutines binds it) and keeps,
in the history variable `suspect`, the Machines that something went wrong with: two
executions had hold of it (`Contested`), it came into hand out of an outdated `List`
when it was no longer free (`Misread`), or the patch that gave it to a NodeClaim took
effect and was reported to have failed (`Disowned`). For every other Machine four
properties are stated of `AuditedSpec`, which is `Spec` with that history and excludes
nothing: it goes to one NodeClaim (`OneOwner`), keeps its label while that NodeClaim has
it (`OwnedKeepsLabel`), is not claimed once it is marked (`MarkedNotClaimed`), and moves
between the pools as `MachinePool` allows (`FateFollowsPool`), but for the one way out
that `Collateral_deletion` shows: the MachineSet controller takes a Machine nobody asked
to delete when these outnumber the replicas. How far they may do so is
`CollateralBounded`, of every Machine: by the replicas that were taken without a newly
marked Machine (a repeated Delete, a decrement reported as failed) and by the paid
Machines that a rollback has unmarked. So whenever two NodeClaims share a Machine, one
of the three things has happened to that Machine, and the code has no fourth way there.

### InstanceTypes, NodeClassStatus, Catalog

`InstanceTypes` has one operator for each conversion of `cloudprovider.go`: managed
labels, scale-from-zero labels, node labels, capacity, max-size, instance type,
filter, choice, selection and description. They are written as the code combines
them (which map goes over which, what a broken item does, what panics); strings
whose text does not matter are split already, quantities are numbers, and `Junk`
stands for text that is none. Equal names leave the choice open, because neither the
list nor the sort has an order for them.

`NodeClassStatus` is `Reconcile` between the read of its cache and the patch. The
merge patch replaces the whole list of conditions, so it is applied only with the
version of the copy; a conflict or an error queues the object again; a watch event
queues it, too.

`Catalog` is where they meet: users edit MachineDeployments (`Edit`) and the
NodeClass (`OthersWrite`), while a NodeClaim is resolved, asks for a replica, binds,
is given up and retried, returned, or found by its annotation (`Existing`), and its
Machine lost. `Collect` is Karpenter's garbage collection (external), which acts on
`List` and `Get`. The executor's interleavings are not repeated here: `Increment` and
`Bind` are one step each, but what their failures leave behind is: a `List` that fails
counts as no unclaimed Machine, `IncrementFails` may have asked for the replica all the
same, the poll may end at any moment (`GiveUp`), and `BindFails` may leave the Machine
labelled, the NodeClaim annotated, or both. `Return` and `Existing` fail for a capacity
that cannot be parsed. `editedSince` and `misreported` (the NodeClaims annotated by a
patch that was reported as failed) are history variables. A user does not edit
`spec.replicas`.

### MDLock, KeyedMutex

Each statement of `Lock` and `Unlock` is an action; the manager's mutex and the
allocated mutexes are explicit. `KeyHolder` is the refinement mapping: a key is
held by the thread between the step that acquires the mutex and the one that
releases it. A thread unlocks only the key it locked, as both executors do.

### Batcher, BatchService

The map is touched under `b.mu` only, so appending and swapping are single steps;
appending and ringing are two. The trigger is a Boolean, a channel of capacity 1.
A timer is off, running or fired, and fires at any moment. A trigger received while
waiting restarts the idle timer even when it had fired, which is what `Stop`,
drain and `Reset` do, with the timers of Go 1.23 and with the older ones. A slot of
`Requests` is reused after its caller has returned, so a run goes on for ever with
finitely many slots; a slot abandoned by its caller is reused once the batch has
answered it. `Strangers` are other callers, of which only the ringing is modelled.
An executor may return fewer results than inputs. Surplus results, which the code
drops, are left out. `BatchKey` joins namespace and name with a slash, character by
character, because what the property rests on is that this is injective: Kubernetes
allows no slash in either (`NameAssumption`). `Hash` is a constant operator of which
nothing is assumed but that it has values in `Hashes`; two keys may collide, and a
bucket then holds both, as in the code.

## 3. What the runs check

The longest passing runs take three to four minutes with two workers. `CHECK_DEADLOCK FALSE` stands
where the program may stop: each execution of an executor is used once (the bound on
the number of batches), after a shutdown of the batcher nobody need run, and in
`Catalog` a NodeClaim that no MachineDeployment suits waits for an edit.

| Run | Instance | Question and answer |
|---|---|---|
| `CloudProvider_fresh` | 2 NodeClaims to create, 2 Machines, 2 create and 1 delete execution, max-size 2, lost replies, a restart, current reads, `AuditedSpec` | Do overlapping create batches and a delete batch, with any call failing or applied and reported as failed, keep the lock, the pairing inside a batch, labels, marks, annotations, replicas and the maximum size consistent? Is what may be deleted in place of others accounted for (`CollateralBounded`)? And is a Machine that nothing went wrong with (`suspect`) one NodeClaim's for its life? Yes. |
| `CloudProvider_serial` | 2 NodeClaims to create, 3 Machines, 2 create and 2 delete executions, no repeated Delete, no lost replies, no restart, current reads, `SerialSpec` | What must be excluded for all of `MachinePool`? With create batches one after the other (deletes overlap each other and them) every Machine is given out once, none from a deletion in progress, and none deleted that nobody asked to delete. The code does not enforce these restrictions, and the violation runs and the list below them say what happens without; so nothing is concluded from this run but where the line is. |
| `CloudProvider_lagging` | 1 bound NodeClaim and 1 to create, 2 Machines, 1 create and 1 delete execution, caches that lag, a restart, repeated Delete, `LiveSpec` | Is the replica count still exact, is NotFound only said of a Machine that is gone, and does every execution return, unlocked, and answer every request, whatever Cluster API does? Yes: the resourceVersion protects the first, the order of the watch the second. |
| `MDLock` | 2 threads, 2 keys, 3 mutexes, `LiveSpec` | Mutual exclusion, release of the right mutex, refinement of `KeyedMutex`, and that every `Lock` returns: yes. (Three threads were checked for safety during development; the theorems are for any number.) |
| `Batcher` | 2 requests, 3 MachineDeployments with 3 keys ("a/bc", "ab/c", "a/c": without the slash, or without the namespace, two of them would be one), the first two of one hash, strangers that ring for ever, `LiveSpec` | No lost wakeup, each request in one place, batches mixed by a collision only, refinement of `BatchService`, and an answer for every waiting caller unless the batcher is shut down: yes. (Three requests were checked for safety during development.) |
| `Catalog` | 1 NodeClaim, 2 MachineDeployments of 4 shapes, 2 Machines, 1 edit, at most 2 and 1 replicas, failing calls, 2 selectors, `LiveSpec` | With users editing and any call failing or misreported, is a launched NodeClaim reported from its owner, on a Machine that suits it (`NodeSuits`) and never collected while its Machine is there, unless its annotation was misreported, and does the NodeClass become ready without losing a condition? Yes. |

The violation runs each show a statement of the repository that the code does
not keep; `PROJECT.json` quotes the statements under "findings".

| Run | What happens |
|---|---|
| `Claim_double` | Two create executions poll at the same time, collect the same Machine, and both bind it: the label is set without looking whether it is there. |
| `Claim_of_deleted` | A Machine is marked for deletion between the poll's `List` and the binding's `Get`, and is bound nevertheless. |
| `Over_increment` | A poll times out before the Machine object exists; the retry counts no unclaimed Machine and increments again. |
| `Collateral_deletion` | `Delete` repeated before the Machine has its deletionTimestamp finds the mark in place and decrements a second time: another Machine has to go. |
| `Absorbed_delete` | A decrement and a concurrent increment cancel before Cluster API acts: the marked Machine lives on although its Delete succeeded. |
| `Labelled_template` | With the member label in the MachineDeployment's template, as the design document asks, Machines are born claimed: no NodeClaim is bound, and a retry asks for another replica although the Machine of the first is there and nobody's (`RetriesAreCheap`). No call fails in this run; a `List` that fails does the same with any template. |

More disagreements were met while modelling and have no run of their own.
With `CacheLag`, `AnnotationStable` fails: a `Create` that bound a Machine without
a providerID is retried on a cached NodeClaim that does not show the annotation
yet, and binds a second Machine over the first (`cloudprovider.go:91-95`). And
`NoOrphanMark` fails: `RemoveDeleteAnnotation` on a cached Machine that does not
show the mark yet returns without writing, so the rollback promised by
`delete.go:80-82` succeeds and the mark stays.
With `LostReplies`, a patch that was applied and reported as failed is rolled back by
taking the label away, so the annotated Machine counts as unclaimed, the next batch
gives it to another NodeClaim (`NoDoubleClaim`), even with create batches one at a time,
and as long as it has no label `List` does not have it, so that garbage collection may
take the NodeClaim (`batcher/create.go:326-346`); `OneOwner`, `OwnedKeepsLabel` and
`CollectsOnlyLost` each exempt such a Machine. A decrement that was applied and
reported as failed has its marks rolled back: the MachineSet controller then chooses
a Machine nobody asked to delete (`NoCollateralDeletion`, `batcher/delete.go:159-201`);
a restart between the decrement and its answer ends in a second decrement likewise.
The filter for a NodeClaim looks at the labels a MachineDeployment has: one that lacks a
label of its own (not one Karpenter knows) that the NodeClaim requires is compatible
(`cloudprovider.go:520-530`), and what is launched there does not have it. `NodeSuits`
says what does hold; the shape `NoTier` of the instance lacks the required tier.
A NodeClass's selector replaces the member label in the list of MachineDeployments
instead of narrowing it (`providers/machinedeployment/machinedeployment.go:69`
against `docs/docs/design.md:27`, a path from the repository's root). A capacity
annotation that is no quantity makes `MustParse` panic, and one such
MachineDeployment keeps every NodeClaim of its NodeClass from being launched
(`cloudprovider.go:475`). A NodeClaim without providerID whose annotated Machine is
gone is never answered NotFound, so its finalizer stays (`cloudprovider.go:331`).

**Bounds.** Two Machines and two NodeClaims are the least for a Machine to be
claimed twice or for one to be deleted in place of another; with three, one can be
bound or going, one claimed, and one appear, at once. Two create
executions are the least that overlap, and also a failure with its retry (one after
the other in `CloudProvider_serial`, for a first batch, a deletion and a second one).
`RepeatDelete` is on in `CloudProvider_lagging`, where
`Delete` is called again and again until it says NotFound; in `CloudProvider_fresh`,
where the one delete execution is used up by then, a repeated call would only wait.
`CollateralBounded` was also checked, during development, on the instance of
`Collateral_deletion` (2 bound NodeClaims, 2 delete executions, repeated Delete) with lost
replies and a restart, with current and with lagging reads. The
number of executions is the only bound on the length of a behaviour:
`MaxAttempts` is the code's 3, and versions, `granted` and `taken` are bounded by
the executions. `MaxSize` is 2 where `MaxSizeOvershoot` is checked, so that the limit
is reached and passed, and 3 or 4 where it should not be in the way. One restart
(`MaxRestarts`) meets every state of every execution; the second would start from
states with one execution less. In the batcher slots are reused, so behaviours are
unbounded. In `Catalog` one edit (`MaxEdits`) falls between any two steps of a NodeClaim
and its retries; others write the NodeClass once before the first patch has gone through
(`MaxVersion` is 1, and the patch counts as a version), which is enough for a copy to be
outdated and a patch to be refused. `MaxReplicas` bounds the retries that ask for a
replica again: two of the first MachineDeployment let a Machine that was left labelled
be replaced. The four shapes are those the conversions tell apart, among them equal
names, a broken item, a missing label, a capacity that cannot be parsed and one that is
incomplete. A second NodeClaim there, or a second edit, is beyond five minutes of TLC;
the theorems of section 4 are for any number of both.

**Symmetry and view.** Executions are interchangeable; Machines and NodeClaims are too, but
for the bound one and its Machine. It is used in safety runs only. `CloudProvider_fresh`
has a view besides, `Relevant`, that leaves out what no later step and no property of the
run reads: copies of the MachineDeployment after their last use, its version while there
is no copy to compare with it, `granted`, the caches (reads are current), and leaks of
Machines that have gone.

**Fairness.** `CloudProvider.LiveSpec`: weak fairness for each execution and each
goroutine, because Go runs every runnable goroutine and API calls return; strong
fairness for taking the lock, because `sync.Mutex` hands itself to a waiter that
has starved for a millisecond (module `MDLock` assumes the same of its mutexes, and
also that a thread leaves its critical section, which `EveryBatchEnds` shows for
the executors). Nothing is assumed of Cluster API, of the informers or of callers;
restarts are bounded in number, and an execution cut short by one has ended.
`Batcher.LiveSpec`: weak fairness for callers, `run`, `runBatch` and the timers.
`EndWait` has weak fairness of its own: `select` chooses at random among ready
cases, and the maximum timer, once fired, stays ready, so it is chosen eventually.
No such fairness is assumed of the idle timer, which a ring takes back.
`Catalog.LiveSpec`: weak fairness for the informer of the NodeClass, for handing out
queued objects and for finishing a `Reconcile`; strong fairness for the patch, which
may be refused any number of times but not for ever.

Every property of a passing run has a mutant in `PROJECT.json`: a faulty variant
of a definition, kept beside it with a comment that starts with "Faulty", under
which TLC finds the property violated.

## 4. What is proved

For any sets of NodeClaims, Machines, MachineDeployments, executions, threads, keys
and requests, any number of restarts and edits, with or without lost replies. The
assumptions are those stated in the modules: `ClusterAssumption` (finite sets of
Machines and NodeClaims, distinct names), `InitialAssumption` (at the start every
bound NodeClaim has a Machine of its own), `CallerAssumption`, `MutexAssumption`,
`BatcherAssumption`, `NameAssumption` (no slash in a name), `HashAssumption` (a hash is
in `Hashes`), `NodeClassAssumption`, `CatalogAssumption`, `ShapeAssumption` (the
fields a MachineDeployment has) and `ZoneAssumption` (nobody asks for a zone with an
empty name, which the code takes for "no zone").

"With current reads" means `~CacheLag`; where it is not said, caches may lag.

* `CloudProviderTypes`: `TypeCorrect`. `TypeOK` is not inductive: that replicas
  stay non-negative after an increment needs that a copy with the current version
  is the current object (`CopiesCurrent`), and that leaked labels and marks are
  those of Machines needs that a binding and a delete request in progress have one
  (`BindingHasMachine`, `DeleteRequestsPlaced`). `Inv` is their conjunction; one
  lemma for each group of actions, one step for each action.
* `CloudProviderProofs`:
  `ReplicasAccounted`: `ReplicaWrites` shows that only two steps write
  `spec.replicas`, and from `Inv` both do it from the current object, so the ledger
  moves with it.
  `DeletesLower` (`OnlyDeletesLower`): the same two steps; a create execution that is
  about to write has a deficit of at least one.
  `LockHeldInside`: `LockDiscipline` is inductive over `Inv`; each step locks,
  unlocks or keeps the lock, and enters, leaves or stays outside accordingly.
  `NoConflicts`, with current reads: an executor is ready to write only after
  reading under the lock, and a write leaves nobody inside.
  `OvershootBounded`, with current reads: `IncrementsBounded` counts the NodeClaims
  whose requests may still add a replica (`MayIncrement`): together with the replicas
  they stay within the bound, because a NodeClaim enters only below max-size and an
  execution adds at most one for each of its inputs.
* `CreateRequestProofs`: `OneMachineEach` (`PairsDistinct`). The invariant is
  `CreateRequestsPlaced`: a request is in the queue or in one execution, its caller
  waits in `Create` meanwhile, and what a poll has collected is a sequence without
  repetition, so that pairing by position is injective.
* `BindingProofs`, on `CreateRequestsPlaced`:
  `AnnotationsKept` and `LaunchedAnnotated`, with current reads: a NodeClaim that
  waits for a Machine has no annotation, and one whose binding succeeded is
  annotated with that Machine (`AnnotationFollowsBinding`).
  `FinishedGone`: the cache never shows more of a Machine's life than has happened,
  and a providerID was seen in it before it was reported (`ProviderIDSeen`).
  `LabelsAccounted` and `MarksAccounted`, with current reads: the lemma
  `MachineWrites` lists what each step may do to a Machine's label and mark.
* `CustodyProofs`, with lagging caches, overlapping batches, lost replies, repeated
  Deletes and restarts, that is, with no condition on the constants:
  `OneOwnerEach` (`OneOwner`), `OwnedLabelled` (`OwnedKeepsLabel`), `MarkedStayUnclaimed`
  (`MarkedNotClaimed`) and `FatesFollow` (`FateFollowsPool`), about the Machines that
  nothing went wrong with. `OneOwner` is not inductive: it says nothing of the goroutine
  that is about to write a second annotation, nor of the rollback or the delete request
  that is about to undo what the first one rests on. `CustodyKept` does: such a Machine
  is in one execution's hands or in use by a NodeClaim (`Used`: an annotation, current or
  cached, a providerID, a delete request, a result on its way), and never both; in hand
  it has no mark; in use, and in hand from its labelling on, it has the label. It rests
  on `CreateRequestsPlaced`, `PairsDistinct` and on `CreatedBefore` (what anybody goes
  by has been created). The lemmas are about what may change: `ComesIntoHand` (only out
  of a `List`), `UseArises` (only from a hand or from another use), `HolderOf` (who has
  it). A step that would break `CustodyKept` otherwise makes the Machine suspect.
  `CollateralAccounted` (`CollateralBounded`): `MachinesFit` counts the Machines ever
  created against the replicas ever asked for and those that have gone against the
  replicas taken; `LiveWrites` says what a step does to either side.
* `CatalogProofs`: `TypeCorrect`; `ConditionsKept`, because a copy with the current
  version is the object (`ClassInv`); `ReportsOwner` and `CollectsLost`, because an
  annotated Machine keeps its label and its owner and an executor reads the
  MachineDeployment it was asked for (`OwnerInv`), but for a Machine whose label a
  rollback took after its patch had been applied (`misreported`); `SuitsNodeClaim`
  (`NodeSuits`), because what passes the filter suits the NodeClaim, replicas are no part
  of a description, and so everything the NodeClaim goes through suits it until it is
  edited (`SuitInv`).
  `AnnotationWins` (`AnnotationOverrides`), for annotations of any length:
  `ScaleFromZeroLabels` is a fold, that is, a function defined by an equation.
  `FoldIsLatest` gives a closed form (`Latest`: for each key the last item that has it),
  which solves the equation (`LatestOver`), and shows by search for the least exception
  (`Least`, from `WFMin` of the library) that no other solution differs on a prefix.
* `MDLockProofs`: `MutuallyExclusive`, `UnlocksItsOwn`, `TypeCorrect` and the
  refinement `Refines`. The inductive invariant says that the manager's mutex
  excludes, that a map entry is stored once and never changes, and that a thread
  past the lookup has the entry of its key.
* `BatcherProofs`: `TypeCorrect`; `WakeupsKept` (`NoLostWakeup`, inductive over
  `TypeOK`); `InOnePlace` and `BatchesOfOneKey`, from `Place`: besides both properties,
  no bucket or batch holds a request twice, batches are disjoint, and the taken
  buckets are empty when run takes new ones (`Distinct`); and the refinement of
  `BatchService`, `Refines`, where `Place` gives that an answered request is
  outstanding.

Of the properties that passing runs check, three are model-checked only besides the
liveness properties: `ClaimsOnlyUsable`, `NoCollateralDeletion` and the refinement of
`MachinePool` in `CloudProvider_serial`. They hold only where the code's circumstances
are narrowed, and a theorem about these would say little of the code; `CustodyProofs` has
what is true without. All other invariants, action properties and refinements have a
theorem. The inductive invariants were checked by TLC on the instances of the runs
before they were proved.

Two definitions had to change to be reasoned about. The status of a Machine in
`PoolStatus` was a `CASE` whose guards overlapped, so that its value depended on which
guard was chosen; it is a cascade now (`StatusOf`). Labels were combined with the
operators of module `TLC`, which have no definition the prover can expand; `AddLabels`
is the loop of the code.

Not proved: the theorems marked "with current reads" say nothing where caches lag
(with them the code does conflict with itself, and retries). All liveness properties
are only model-checked: liveness under fairness and ENABLED are outside the prover.

## 5. Not modelled, and what could follow

* `ParseMachineAnnotation`: it splits a string that only the executor writes, from
  names that cannot hold a slash. A Machine reference is a value of the model, and
  the conversion and its inverse meet nowhere else.
* The operator, its options and `main`: flags, clients and registration. They keep no
  state and have no order that matters to the rest.
* API types, generated code, CRDs and charts: declarations.
* `GetInstanceTypes` as called by Karpenter's scheduler: it is the first half of
  `resolveInstanceType`, which is modelled; what the scheduler does with it is not
  this repository's.
* Durations of timers, timeouts and back-offs: a timer fires at any moment after it
  was started, which includes every duration.
* Results that an executor returns beyond its inputs, which are dropped.
* The FNV function itself (`batcher/batcher.go:120-125`): any function may be the hash.
* Nothing follows what a batch with colliding keys does to the wrong MachineDeployment;
  `BatchesHomogeneous` says when there is one.
* An informer that catches up in part (section 2), and the order of deliveries of
  different kinds of objects beyond that each is its own.

What could follow: an instance of `Catalog` in which two NodeClaims compete for one
MachineDeployment; informers that catch up in part; the bound of `CollateralBounded` for
each kind of its causes.
