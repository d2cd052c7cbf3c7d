# A verification of the ephemeral namespace operator

The operator keeps pools of prepared OpenShift namespaces and lends them to
users for a limited time. Its state is in Kubernetes objects that three
controllers, a poller, the users and the cluster itself change concurrently,
through caches that lag behind and calls that fail. The TLA+ modules here model
those interleavings, TLC checks them on small instances, and TLAPS proves their
safety properties for instances of any size. The reservation half of the system
is also shown to implement an abstract specification of a check-out, and each
half to do to namespaces only what the other half expects of it, by TLC and by
proof.

## The system

| Part | State | Operations | What makes it correct |
|---|---|---|---|
| Reservation controller (`namespacereservation_controller.go`) | a `NamespaceReservation`'s status and finalizer, owner and `reserved` annotation of a namespace, rolebindings | assign a ready namespace, refresh the expiration, give up a waiting reservation, drain CAPI clusters and release | a namespace is assigned once; an assignment is stable; clean-up precedes collection; nobody waits beside a ready namespace |
| Poller (`poller.go`) | a map from name to expiration, shared with the reservation controller | fill the map at start, delete what has expired | the expired, and only they, are deleted in the end |
| Pool controller (`namespacepool_controller.go`, `helpers/namespaces.go`, `helpers/pool.go`) | the pool's counts, owner, label and env-status of namespaces | count, delete those in error, create, give up the excess | the limit holds; nothing is left behind; the size is reached |
| ClowdEnvironment controller (`clowdenvironment_controller.go`, `helpers/clowdenvs.go`) | env-status and completion-time of a namespace | create the FrontendEnvironment, mark ready | only complete namespaces become ready, and all of them do |
| CAPI clean-up (`helpers/capi.go`) | `Cluster` and `ROSAMachinePool` resources in a namespace | delete, wait, unblock | drained before the finalizer goes |
| Secrets (`CopySecretsFrom`, `helpers/reservation.go`) | secrets in a namespace | copy by label or annotation | retries are harmless |
| Frontends (`helpers/frontends.go`) | FrontendEnvironment, shim services | create once | a namespace does not get ready before them, or is marked as being in error first |
| Wiring (`run.go`, `main.go`) | process, caches, leader election | start | one poller at a time |

The controllers never call each other. They interact through env-status, owner
references and the `reserved` annotation of a namespace, which each writes with
optimistic concurrency and reads from the informer cache, and through the map
of the poller, which is shared memory. Events of namespaces wake the pool
controller, events of ClowdEnvironments their controller, and a deleted
reservation takes its namespace with it through the garbage collector.

What is hard here, and listed line by line under `hazards` in `PROJECT.json`:
decisions taken on stale cached copies; one of several writes failing; a crash
between two of them; deletion by name of what has changed since; work that is
dropped before it is done; and loops that must come to an end.

## Modules

    ApiCalls            a call and its failures
     ├ Cluster          the API server, the caches, the garbage collector, users
     │   └ Namespaces   readiness, UpdateAnnotations ── ClusterProofs
     │      ├ PoolAbstraction       what the reservations see of the pool
     │      │   └ ReservationController (with Poller)
     │      │       └ ReservationSystem ── MCReservationSystem; ReservationProofs,
     │      │             implements Checkout      LifecycleProofs, CheckoutProofs
     │      │             and CheckOutAbstraction
     │      ├ CheckOutAbstraction   what the pool sees of the reservations
     │      └ ClowdEnvController
     │          └ PoolController (with PoolSizing)
     │              └ PoolSystem (with CheckOutAbstraction)
     │                  implements PoolAbstraction ── MCPoolSystem;
     │                                         PoolProofs, PoolLimitProofs
     ├ SecretCopy       the secrets of one namespace until it is taken
     └ CapiCleanup      clusters and machine pools of one namespace at its end
         └ NamespaceLife (SecretCopy, then CapiCleanup) ── MCNamespaceLife, NamespaceProofs
    Checkout            what checking namespaces out amounts to
    PoolSizing
     └ IdealPool        the pool with exact counts ── IdealPoolProofs

`Cluster` is not code of the repository; it is modelled from how the code uses
controller-runtime. An object is a record with a version `rv`. `ns` and `res`
are what the server has, `nsCache` and `resCache` what Get and List return, and
`nsWatch` and `resWatch` the versions still on their way; they arrive in order.
An update succeeds only with the current version. Every write has one of three
results: `ok`, `failed`, and `lost`, when it is applied and the caller sees an
error. A refusal that follows from the state is free; other failures and
crashes use up `MaxFaults`. The owner of a namespace is a UID (the pool's is 0),
because a reservation's name can be used again. A namespace name is used once:
`CreateNamespace` draws random names.

`ReservationController` is one worker (controller-runtime's default), and a
reconcile is cut into steps where another process can act between two calls:

| Code | Steps |
|---|---|
| Get, deletion timestamp, switch on the state | `Reconcile`, `FirstStep` |
| state active | `ActiveAddFinalizer`, `ActiveRefresh` |
| state waiting, expired | `DeleteExpiredWaiting` |
| bad or missing duration | `RejectDuration` |
| no namespace ready | `AwaitNamespace` |
| list, verify, reserve, bind | `PickNamespace`, `verifyClowdEnvForReadyNs`, `CopySecretsFails`, `ReserveNamespace`, `AddRoleBindings` |
| status, finalizer | `Activate`, `AddFinalizer` |
| `handleCAPICleanup` | `AbandonUnassigned`, `MarkDeleting`, `DrainClusters`, `ReleaseFinalizer` |

`Poller` has `populateActiveReservations`, and two steps for a round:
`PollExpired` drops the entry, `PollDelete` reads and deletes by name.

`PoolController` is the worker of one pool: `PoolReconcile` counts,
`MarkErrorNamespace` and `DeleteErrorNamespace` are `DeleteNamespace`;
`CreateNamespace`, `OwnNamespace`, `ProvideClowdEnv`, `ProvisionNamespace`,
`MarkReady` and `UndoNamespace` one round of `increaseReadyNamespacesQueue`;
`PickExcess` and `MarkExcess` are `decreaseReadyNamespacesQueue`. The constant
`SyncedReconciles` says whether a reconcile may start before the cache has
caught up; the code allows it. With it TRUE a run shows what holds if the
cache is not the problem.

`ClowdEnvController` starts at the reconcile that finds the ClowdEnvironment
ready (`EnvReconcile`). `CreateFrontendEnv` and `CreateShimServices` are
`helpers/frontends.go`: a FrontendEnvironment that exists is taken to be
complete, and a shim service is silently left out if its original is not found,
for whatever reason (lines 94-97), so that success does not mean that there are
any. The calls about frontends may fail at any time and do not use up `MaxFaults`. `EnvMarkError` and `EnvMarkReady` are its two writes of the
namespace, the second with the completion-time and the conflict of the stale
Update after it.

`SecretCopy` and `CapiCleanup` are what the other modules leave out of a
namespace: the secrets that are copied into it, call by call, and its CAPI
clusters with their machine pools. `NamespaceLife` runs them one after the
other for one namespace, from its set-up to the release of its reservation.

| Code | Actions |
|---|---|
| `UpdateNamespaceResources`, `reserveNamespace`: the List of secrets | `SetUpSecrets`, `CheckOut` |
| `CopySecretsFrom`, per secret | `CopySecret`, `ReplaceSecret`, `RecreateSecret`; `CopyReturns` |
| `CopyReservationSecrets` | `FindTeam`, `CopyTeamSecret`, `TeamReturns` |
| the Update of `reserveNamespace` | `TakeNamespace` |
| `DeleteCAPIResources` | `DeleteCAPIResources` |
| `RemoveStuckROSAMachinePoolFinalizers` | `ListMachinePools`, `RemoveFinalizer` |
| the rest of `handleCAPICleanup` | `AfterPools`, `ReleaseFinalizer` |

A secret is known by the namespace its copy comes from (`content`), so that a
property can tell whose secrets a reservation has got. A cluster goes from
running to deleting, may wait for its machine pools, and is gone once they are;
somebody may also remove it without them (`LoseCluster`). The controller of a
machine pool need not ever finish.

`PoolAbstraction` and `CheckOutAbstraction` are what the two halves of the
system see of each other, as described below; the constant `SecretsMayFail`
stands for what `SecretCopy` shows, that copying secrets may fail at every
attempt. `IdealPool` is the abstract specification of the pool's arithmetic:
reconciles are atomic and counts exact.

`Checkout` is the abstract specification of the reservations: each is
requested, lent a namespace, returned and ended, and a namespace that was lent
or wasted is never lent again. `ReservationSystem` implements it
(`ImplementsCheckout`) with this mapping:

| `Checkout` | `ReservationSystem` |
|---|---|
| `stage[r]` | absent, requested or lent: from `live`, `Status.Namespace` and `Status.State` on the API server |
| `lease[r]` | `Status.Namespace` |
| `fresh` | the namespaces without the reservation rolebinding, and the one whose rolebinding the worker has just created, until it stores the status or gives up |

So `Lend` is the status update, whose answer may be lost; `Waste` is a status
update that fails or a crash before it; and everything else the controllers,
caches and the poller do is a stutter.

### How the two halves fit together

The reservation controller and the two controllers of the pool write the same
namespaces, with decisions that are older than what they write. Each half is
modelled beside an abstraction of the other one, and each implements the
abstraction that the other relies on:

| Abstraction | Used by | Implemented by | Property |
|---|---|---|---|
| `PoolAbstraction`: `poolPlan[n]` is what a reconcile of the pool has decided about n and not done yet; a ClowdEnvironment's reconcile may mark any namespace that the cache has shown to be owned | `ReservationSystem` | `PoolSystem`, where `PoolPlans` is read off the worker's step, list and namespace in hand | `ImplementsPool` |
| `CheckOutAbstraction`: `taking` is the namespace that was picked while it was seen to be ready | `PoolSystem` | `ReservationSystem`, where `Taking` is `picked` until the Update of `reserveNamespace` | `ImplementsCheckOuts` |

Either property says that a step is one of the abstraction, with its guards and
effects on the namespace, its copies in the cache and the faults; or that it
leaves plans and namespaces alone; or that it is a step of the other half, of the
cache or of the cluster, and leaves the plans alone; or a crash. So a behaviour of
the whole operator, seen without the details of one half, is one of the other
half's model. The deletions by name are in
it: `DeleteNamespace` of the pool takes what a namespace has become since it was
listed, and a set-up whose last answer was lost deletes a namespace that is ready
or lent by now (`namespacepool_controller.go:225`). What the composition leaves out
is where a model says less than the abstraction allows: `PromptCheckOuts`, a
constant of `CheckOutAbstraction`, is FALSE in `ImplementsCheckOuts`, and
the properties of `PoolConverges`, whose instance has it TRUE, are shown of an operator
whose check-outs are prompt.

Definitions with the comment *With a bug* are variants of the definition that
follows them. No specification uses them: each stands for a plausible mistake
in the code and shows that a property would notice it.

## Runs

Each run is `tlc -config <cfg> <module>`; `PROJECT.json` has the list.

| Configuration | Instance | Shows |
|---|---|---|
| `ResContention` | 1 namespace, 2 reservations and UIDs, 1 fault, secrets may fail | `TypeOK`, `ExclusiveAssignment`, `AssignmentInv` (the invariant of the proof), `FinalizerHasNamespace`, `AssignmentStable`, `ImplementsCheckout` |
| `ResCleanup` | 1 namespace, in excess, with Clowder and a CAPI cluster; bad durations, restored finalizers, secrets may fail, 1 fault; marks by the ClowdEnvironment controller up to version 3 | `ImplementsCheckOuts`, `NeverBackToPool`, `DrainCompleted` |
| `ResProgress` | 1 namespace, durations 1 and 2, the clock runs to 2, 1 fault, fair | `ExpiredReclaimed`, `ReadyServed` |
| `PoolLimit` | 3 namespaces, sizes 0 and 1, limit 1, 1 fault, reconciles start from current caches, late check-outs | `ExcessOnlyByFailures`, `ReadyIsProvisioned` |
| `PoolClowder` | 1 namespace with Clowder, sizes 0 and 1, 1 event of its ClowdEnvironment, no faults but those of calls about frontends, fair | `TypeOK`, `FrontendBeforeReady`, `ImplementsPool`, `NeverBackToPool`, `NamespacesGetReady` |
| `PoolConverges` | 2 namespaces, sizes 0 and 2, no limit, prompt check-outs, fair | `ErrorNamespacesDeleted`, `PoolSizeReached` |
| `IdealPool` | numbers up to the limit | `IdealTypeOK`, `WithinLimit`, `IncreaseSettles` |
| `NamespaceLife` | a secret of each kind, three reservations (plain, with a source, with source and team), 2 clusters, one with 2 machine pools, 1 fault, fair | `TypeOK`, `SourceCopied`, `RetrySucceeds`, `NotForcedEarly`, `DrainedAtRelease`, `CleanupFinishes` |

The bounds: a conflict needs two actors and one object, and the races of the
two controllers, a check-out and a resize are all about one namespace; a name
that is used again needs two UIDs; an excess needs one namespace more than the
limit and one for each fault. The copy of secrets needs two secrets, so that one can fail after another
succeeded, and two reservations, of which one finds what the other has left;
the cleanup needs a cluster that is waited for beside one that is not, and two
machine pools, one of which may finish while the other is stuck. The threshold
of an hour is one unit of the clock, which is all its comparison can tell
apart. One fault is a failed call, a
lost answer, or a crash, at any point of any action. In the pool's runs there is one
UID of a reservation (`MaxUid`), since nothing of the pool depends on which one
it is. `MaxVersion` bounds the version that a namespace may reach by the marks of the
ClowdEnvironment controller, where the reservations run beside it: three are enough for
creation, set-up and a mark. With five, which allows for a mark after a check-out,
the three properties of `ResCleanup` were checked with the one duration 1 (1.1
million states). The runs with 0 do not have that controller. `PoolLimit` was also
checked with reconciles that start from caches of any age and prompt check-outs (3.0
million states), and with such caches and late check-outs without faults (3.1 million);
the theorem `ExcessIsFailures` has all of it at once. Deadlock is not checked:
with all names used and the clock at its bound the instances may stop, which
the operator does not.

Fairness is assumed where the code provides it: workers and the poller keep
running (goroutines; the work queue is rate limited and fair, and every error
puts the key back), Go's iteration meets every entry of the map, watches
deliver, informers resync, the clock runs, and the garbage collector, the CAPI
controllers and Clowder finish what they began. The controllers of machine
pools are not assumed to: that is what the forced removal of finalizers is for.
Nothing is assumed of users, check-outs, faults or crashes. Faults are bounded by number, which stands for
"eventually the API server answers". `ResProgress` also assumes that the List
of the poller at start-up succeeds (`PopulateMayFail = FALSE`).

### Where the code does less than its documentation says

Four runs end with a counterexample, described under `findings`.

| Configuration | Violated | In short |
|---|---|---|
| `DocOwner` | `ActiveOwnsNamespace` | a second reservation picks a namespace from a stale list and takes its ownership before the rolebinding stops it |
| `DocPollerExpired` | `PollerDeletesOnlyExpired` | the poller deletes what has been prolonged or created anew |
| `DocSizeLimit` | `SizeLimitRespected` | a Clowder pool counts in a stale cache and exceeds its limit |
| `DocForeignSecrets` | `NoForeignSecrets` | a check-out that fails leaves its secrets in a namespace of the pool |

The assumptions of the other runs mark where the code is fragile. Changing one
constant of a configuration gives a counterexample:

| Change | Violated | What happens |
|---|---|---|
| `ResProgress`, `PopulateMayFail = TRUE` | `ExpiredReclaimed` | one failed List ends the poller for good (`poller.go:37`) |
| `PoolLimit` with the invariant `SizeLimitRespected`, `PromptCheckOuts = TRUE`, `SyncedReconciles = FALSE` | `SizeLimitRespected` | a crash or a failure in the middle of a set-up, and a stale cache after it |
| `PoolClowder` with the invariant `IsReady(ns[n]) => n \in shims` | that invariant | the shim services fail, or their originals are not found; the FrontendEnvironment exists, so they are never tried again, and the namespace is marked ready (`frontends.go:77`, 94-97) |
| `PoolClowder` with the invariant `IsReady(ns[n]) => n \in frontendEnvs` | that invariant | the FrontendEnvironment cannot be created; the namespace is marked as being in error and, by the same reconcile, ready (`clowdenvironment_controller.go:79-87`) |
| `NamespaceLife`, `RetrySucceeds` without its exception | `RetrySucceeds` | a team's secret that was copied by an attempt that failed later refuses every other attempt (`reservation.go:106`) |
| `PoolLimit` with the invariant `SizeLimitRespected` | `SizeLimitRespected` | `reserveNamespace` does not look again at what it has picked: it takes one that the pool has given up and is about to delete and replace (`namespacereservation_controller.go:338`) |
| `PoolConverges`, `MaxFaults = 1` | `ErrorNamespacesDeleted` | marked deleting, then the Delete fails: nobody lists it again (`namespaces.go:376`) |
| `PoolClowder`, `MaxFaults = 1` | `NamespacesGetReady` | a crash leaves a namespace creating forever, which keeps its place in the pool (`namespacepool_controller.go:170`) |
| `PoolLimit`, `ClowderPool = TRUE`, `PromptCheckOuts = TRUE`, `MaxEnvEvents = 1` | `ReadyIsProvisioned` | the ClowdEnvironment exists before quotas and secrets, and its controller marks the namespace ready without them (`namespaces.go:68`) |
| the same with the invariant `SizeLimitRespected`, without faults | `SizeLimitRespected` | that controller, in the middle of a reconcile, marks ready what the pool controller has begun to delete and replaced (`clowdenvironment_controller.go:87`) |

More behaviours of the models are no property, because the code does not
rule them out:

* a reconcile that fails after `ReserveNamespace` takes another namespace the
  next time, and the first stays with the reservation until it ends (`Waste`);
* a reservation without a duration, though "default: 1 hour" is documented,
  makes every reconcile panic (`RejectDuration`), because `getExpirationTime`
  dereferences the nil pointer;
* a reservation deleted between its status update, after which users deploy,
  and the Update that adds the finalizer goes at once, and its namespace is
  collected with its clusters (`namespacereservation_controller.go:222-230`);
  `DrainCompleted` speaks of reservations with the finalizer;
* a team's reservation becomes active without the team's secrets if the pool
  cannot be read at that moment (`FindTeam`, `reservation.go:23`);
* a cluster that is lost before its machine pools have been stuck for an hour
  leaves them behind: no cluster remains, the reservation is released, and
  nothing removes their finalizers any more (`DrainedAtRelease` excepts them).

### Simplifications

Some calls of the code are one step here. None of it hides an outcome: between
them the code can only fail, conflict or die, and that outcome is there, at the
cost of one of the `MaxFaults`. The theorems hold for any number of these.

* A Get from the cache and the Update or Delete after it are one step in
  `ReserveNamespace`, `UpdateAnnotations`, `PollDelete`, `TakeNamespace` and
  `RemoveFinalizer`. An Update that conflicts because the object changes in
  between is a failed call. The Delete of the poller is by name, and acts on
  what there is;
* `Retried` is a loop of `GetNamespace` and `UpdateAnnotations` that the code ends after a
  few attempts: an exhausted loop is a failed call, and a step that succeeds waits
  for a current copy. So without faults the watch is never slower than the retries;
* `EnvMarkReady` stands for three writes: ready, the completion-time, and the Update
  that conflicts with it. If the second fails or the operator dies after the
  first, this is a lost answer of `EnvMarkReady`; only the version of the namespace
  is one less than in the code;
* the pool is read as it is and not from the cache. A reconcile that reads an old
  copy is one that begins before the edit: its update of the status conflicts
  (`poolCurrent`), and the edit is an event of its own.

## Proofs

TLAPS proves every invariant, every action property and the refinement that a
run with the expectation "pass" checks, for all constants that satisfy the named
assumptions of the modules. Three theorems have hypotheses, named with them
below. Each follows from an inductive invariant, in modules that build on one
another:

| Module | Extends | Theorems |
|---|---|---|
| `ClusterProofs` | `Namespaces` | none: lemmas about the API server and the cache of namespaces |
| `ReservationProofs` | `ReservationSystem`, `ClusterProofs` | `TypeCorrect`, `AssignmentInvariant`, `AssignmentIsExclusive` |
| `LifecycleProofs` | `ReservationProofs` | `FinalizerNeedsNamespace`, `AssignmentIsStable`, `DrainIsCompleted` |
| `CheckoutProofs` | `LifecycleProofs` | `CheckoutImplemented`, `ReservedForGood`, `CheckOutsImplemented` |
| `PoolProofs` | `PoolSystem`, `ClusterProofs` | `PoolTypes`, `NotGivenBack`, `ReadyWasProvisioned`, `PoolImplemented`, `FrontendComesFirst` |
| `PoolLimitProofs` | `PoolProofs` | `ExcessIsFailures` |
| `NamespaceProofs` | `NamespaceLife` | `SecretsOfTheSource`, `ForcedOnlyWhenStuck`, `NamespaceTypes`, `NothingDeletesAtRelease` |
| `IdealPoolProofs` | `IdealPool` | `IdealTyping`, `IdealPoolWithinLimit`, `IdealPoolIncreaseSettles` |

### Reservations

`TypeCorrect`: `TypeOK` is not inductive alone, because a step writes `picked`
into the status; `PickedIsNamespace` goes with it.

`AssignmentIsExclusive` is the promise of the operator. Its difficulty is that the
namespace is picked from a stale list and that `reserveNamespace` does not look
at the owner again, so ownership does not protect it. `AssignmentInv` says what
does. (1) A copy with the current version equals the object (`VersionsAgree`
for caches and watches, `WorkerCopyAgrees` for the worker's copy), so a status
update never overwrites an assignment it has not seen. (2) A namespace is
assigned only once its rolebinding exists (`AssignedIsBound`), and the
rolebinding can be created once. (3) Between that creation and the status update
the namespace is assigned to nobody (`BoundForPicked`). The proof has one lemma
per action, and a lemma for writes of reservations that most of them share.

`LifecycleProofs` says how a reservation may change. `AllWellFormed` holds of the
object and of all its copies in the cache and on the watch: it has a namespace
exactly from the state "active" on, and the finalizer only with a namespace.
`WorkerKnows` keeps what a reconcile has read of its copy until the step that
relies on it. With both, every action stores a reservation that becomes what
`Becomes` allows: `Created`, `Edited`, `Delayed`, `Lent`, `Returned` or `Removed`,
and the last two theorems, and the next module, only look at these six.

* `FinalizerNeedsNamespace` has the hypothesis `~RestoredFinalizer`. The
  constant lets users write the finalizer themselves, as a restored backup
  does, and then it comes without a namespace;
* `DrainIsCompleted` needs `DrainInv`: a cluster that is being deleted is still
  in the cache, because only what the cache shows is deleted and the cache
  drops it after the API server. A reconcile that sees none may release.

`CheckoutImplemented` is the refinement `Spec => Abstract!Spec` with the mapping of
the table above: the initial state is that of `Checkout`, and every step is
one of its actions or a stutter. `StageSteps` translates the six ways a
reservation changes into moves of its stage; the rest is about `fresh`, where a
rolebinding that is created keeps its namespace fresh as long as the worker may
still store it, and nobody is assigned the namespace meanwhile (`AssignmentInv`).
`ReservedForGood` is independent of reservations: every write of an owner is
either the reservation's, or is based on the current version of a namespace
(`NsVersions`), of which the pool or `UpdateAnnotations` keeps the owner.

`CheckOutsImplemented` is the guarantee that the reservation controller gives to
the pool, step by step: `Pick`, `Condemn`, `Take` and `LetGo`, and everything else leaves
the namespaces alone or is not its own. It needs that the worker's copy is of a
reservation that was created (`LifeInv`), for the UID that becomes the owner, and
that only the worker of a pool with Clowder verifies (`Verifies`).

### The pool

In `PoolProofs` every action of both controllers, of users, of the cluster and of
the garbage collector stores at most one namespace, in one of the six ways of
`StoresNs`: `Begun` by the pool's worker, `Taken` into the pool, `Marked` with an
env-status, `Lent`, `Dying` or `Dead`. The invariants are then shown for these.

* `NotGivenBack`: a namespace is taken into the pool only if it has just been
  created (`OwnerInv`), and the Update of an old copy is a conflict;
* `ReadyWasProvisioned` has the hypothesis `~ClowderPool`. The pool's worker is
  then alone in marking namespaces ready, and has only one in hand to mark that
  it has provisioned (`ProvisionInv`). With Clowder the other controller marks
  one without quotas and secrets, as described under the runs;
* `PoolImplemented` is the guarantee of the two controllers to the reservations. For
  the pool's worker `PlanShapes` reads the plans off each of its steps, and
  `SetUpImplements`, `PrepareImplements`, `ReconcileImplements`, `DeletionImplements` and
  `RetirementImplements` go through them; it needs that the worker has no namespace
  in hand between two rounds (`HandsEmpty`). For the ClowdEnvironment controller
  the cache must still show an owner when a reconcile gets to its writes,
  although the event that began it is long past and the watch has delivered
  since (`EnvKnows`). That is so because the versions on the watch are in order
  and none without an owner follows one with an owner (`OwnedInOrder`);
* `FrontendComesFirst` has no hypothesis, although every call about frontends may
  fail at any time and the reconcile goes on. When the worker is about to mark a
  namespace ready, its FrontendEnvironment exists or the namespace is not
  creating: the reconcile that could not create it has marked the error before, and
  nobody makes a namespace creating a second time (`FrontInv`).

`PoolLimitProofs` counts. Its lemmas about sets of namespaces rest on
`FiniteSetTheorems` and on the assumption that `Namespace` is finite, as what a
cluster holds is.

`ExcessIsFailures` is about all namespaces that are active, in a count or not. A
reconcile counts what a cache of some age shows. A namespace is `Covered` if no
copy of it that the cache shows or has still to show, nor the namespace itself,
is anything but creating, ready, in error, or reserved: then every reconcile to
come counts it or deletes it, however old its cache is, and only the worker that
deletes it ends this (`CoverStays`). A new namespace is covered when the worker turns to the next
one, because `MarkReady` waits for the version before its own; or it is
deleted; or a call has failed (`HandLeft`). So the namespaces that are neither
covered nor in hand (`LeftBehind`) are at most as many as the failures, whoever
caused those (`StepLeavesBehind`). `NotCounted` says that a reconcile deletes or counts
all others, `TotalIsCounted` that `getPoolStatus` counts each once, and
`DeltaWithinLimit` that the arithmetic keeps to the limit; and so the namespaces there
are and those still to be created (`ToCreate`) keep to the limit and the failures
(`WithinBounds`). While the worker deletes, what is left without those in its list and
what it will create do.

Nothing is assumed of caches and of check-outs: one that comes late takes a
namespace that the worker has given up, and the worker deletes it all the same. Its
hypothesis is `~ClowderPool`: in a pool with Clowder nobody waits for the cache after a
set-up, and the next reconcile exceeds the limit (`DocSizeLimit`).

`IdealPoolProofs` is about the sizing arithmetic with exact counts.

### One namespace

`SecretsOfTheSource`: check-outs that failed have left secrets of other origins
behind, so that `content` alone says nothing. `CopyProgress` relates it to the
copy: while none has failed, an eligible secret that is not left to do has been
copied for this reservation, and once the copy is over all of them have. A
secret that is being replaced is absent and must still be left to do
(`replacing \subseteq todo`), and copying the team's secrets takes nothing away.

`ForcedOnlyWhenStuck`: the machine pools are listed and their finalizers removed in
separate calls. In between, a machine pool that was found stuck stays as old as
it was (the second conjunct of `CleanupInv`), and a cluster that waits for its
workers, or is gone, does not run again.

`NothingDeletesAtRelease`: what a reconcile knows when it releases is that the cache
showed no cluster when it began. `DrainingInv` says why that is enough: a
cluster that is being deleted is in the cache until it is gone, and only a
reconcile begins to delete one; and a machine pool is deleted only by a cluster
that waits for it or has gone since.

### Only model-checked

The liveness properties (`ExpiredReclaimed`, `ReadyServed`, `NamespacesGetReady`,
`ErrorNamespacesDeleted`, `PoolSizeReached`, `RetrySucceeds`, `CleanupFinishes`): liveness
under fairness, and `ENABLED`, are out of the prover's reach, as is induction over
data. No module uses `RECURSIVE`. That the two refinements together
cover the whole operator is the argument given under "How the two halves fit
together": each is proved, their composition is not a theorem of a module of its
own, because a module with both halves in detail would only repeat them.

## Not modelled

Several pools (they share nothing but the code), pool deletion (the code does
nothing), replicas and leader election, metrics and logs, the values in
secrets, quotas, rolebindings and ClowdEnvironments, and the conditions that
`VerifyClowdEnvReady` reads. The Go data race on the poller's map can only end
the process, which `Crash` may do at any time. A composition of the real pool
controller, the reservation controller and the ClowdEnvironment controller in
one module is beyond TLC for the smallest instance that would add anything: the
pool's runs with two Clowder namespaces, or with a stale cache and a fault, are
large already. The two abstractions, each implemented by the half it stands for,
take its place.

## Plan

1. Done: the cluster, the reservation controller and the poller, their
   properties, and the proofs of type correctness and exclusive assignment.
2. Done: the pool controller, the sizing arithmetic with its proofs, and the
   ClowdEnvironment controller.
3. Done: FrontendEnvironments with their shim services, secrets with retries,
   the CAPI cleanup with machine pools and its threshold; `Checkout` and the
   refinement.
4. Done: type correctness of `NamespaceLife`, `SourceCopied` and
   `NotForcedEarly`.
5. Done: the refinement of `Checkout`, and all the other invariants and action
   properties of the reservations, the pool and the namespace.
6. Done: `PoolAbstraction` and `CheckOutAbstraction`, and the proofs that the
   two halves of the system implement them.
7. Done: the limit of a pool without Clowder with a cache of any age, late
   check-outs and failures.
