# Formal model of the Anexia cloud controller manager

This directory holds TLA+ modules for the parts of `k8s-anexia-ccm` that decide
and change state: what the controller asks of the Anexia Engine, in which
order, what it does with each answer, and what it makes of failures. TLC checks
the modules on small instances; TLAPS proves every safety property the runs
check, and the refinement of the abstract specification, for every instance
that meets the hypotheses named below. Paths are relative to
`src/anx/provider/` unless they start with `src/`.

Contents: [the system](#the-system) · [modules](#the-modules) ·
[how the model reads the code](#how-the-model-reads-the-code) ·
[what TLC checks](#what-tlc-checks) · [where code and documentation
disagree](#where-code-and-documentation-disagree) · [what is
proved](#what-is-proved) · [not modelled](#abstractions-and-what-is-not-modelled) ·
[plan](#plan)

## The system

A Kubernetes cloud controller manager. The Kubernetes service and node
controllers (library code, run by `src/main.go`) call it through the
`cloudprovider` interfaces; it talks to the Anexia Engine over HTTP.

| Component | State it keeps | Operations | Talks to |
| --- | --- | --- | --- |
| LBaaS reconciliation, `loadbalancer/reconciliation/reconciliation.go`, `reconcile_*.go` | per call: resources retrieved, sorted by type and by deployment state; `portBackends`, `portFrontends` | `ReconcileCheck` (plan), `Reconcile` (carry out, wait, repeat), `Status` | Engine: List by tag, Get, Create, tag, Update, Destroy |
| Concurrent reconciliation, `multirecon.go` | one reconciliation per LoadBalancer | `Reconcile`, `ReconcileCheck`, `Status`: start all, wait for all, merge | reconciliations, as goroutines |
| Load balancer manager, `loadbalancer/loadbalancer.go` | LoadBalancer identifiers, address manager, one mutex | `EnsureLoadBalancer`, `UpdateLoadBalancer`, `EnsureLoadBalancerDeleted` (under the mutex), `GetLoadBalancer` (not) | Kubernetes (Services, for collisions), address manager, reconciliations |
| Address manager, `loadbalancer/address/` | fixed prefixes, prefix cache with a timestamp | `AllocateAddresses`, VIP discovery, VIP calculation | Engine (IPAM) |
| LoadBalancer discovery, `loadbalancer/discovery/` | none | List by tag at start-up | Engine |
| Instances, `instances.go` | time of the last authorization error | `InstanceExists`, `InstanceShutdown`, `InstanceMetadata`, matching of nodes to VMs | Engine (VMs) |
| Provider and configuration, `provider.go`, `configuration/`, `src/main.go` | configuration, managers | initialization | all |
| Metrics, `metrics/metrics.go` | counters, gauges | updated by the reconciliation and an HTTP transport | |
| Subject lock, `sync/sync.go` | set of locked subjects | `Lock`, `Unlock` | no caller |

**Interaction.** The service controller calls `EnsureLoadBalancer` when a
Service or the node set changed, and again, with a back-off, after an error.
Under the manager's mutex one `Reconcile` per LoadBalancer runs; all of them
see the resources of the others, because all use the tag of the Service. The
Engine works asynchronously: a created resource is deployed later or fails, a
destroyed one stays visible for a while, and a resource others refer to is not
destroyed. The controller stores nothing; after a restart all it knows is what
the Engine lists for its tag.

**What is hard.** Everything is a chain of single requests: a plan is made
from a snapshot read resource by resource, carried out request by request, and
each request may fail, fail after having been carried out, or be the last one
before a crash. The retry starts from whatever that left. The loops (destroy
until gone, create in waves, wait) are nested and leave through five
different exits; which one decides whether the controller is ever called again.

**What makes it correct.** For the reconciliation: success is only reported
when the Engine holds what the Service asks for; in the end it does; retries
duplicate nothing; old and new binds never claim one address and port; nothing
that is failed, foreign or still in use is destroyed; every call returns. For
the manager: two Services never use one external address; the status names
only ports all LoadBalancers serve. For the address manager: an address stays
with its Service, families match what was asked for. For the instances: a node
is bound to the VM it runs on, and deleted only with it. For the start: the
LoadBalancers of this cluster are used and no others, all of them unless a
request failed, and what fails in one part leaves the others working.

## The modules

| Module | Models |
| --- | --- |
| `LBaaSEngine` | the Engine as the reconciliation uses it (external): store of resources with attributes, deployment state, tags; requests as sub-actions; deployment and removal |
| `Reconciliation` | `reconciliation.go`, `reconcile_*.go`, `multirecon.go` (`Reconcile`), and `EnsureLoadBalancer` as their caller; properties |
| `ReconciliationInv`, `ReconciliationProofs` | the inductive invariant; theorems and proofs (TLAPS) |
| `DesiredState` | abstract specification: what the reconciliation promises about the parts of a Service on a LoadBalancer |
| `ReconciliationRefines`, `ReconciliationRefinesProofs` | the refinement mapping from `Reconciliation` to `DesiredState` and the invariant it needs; its proof |
| `ReconciliationChanges`, `ReconciliationChangesProofs` | what a change of the Service leaves alone and what a Reconcile that returns nil has achieved, with the invariants for both; theorems and proofs |
| `LoadBalancerManager` | several Services: `loadbalancer.go`, `address/`, `Status` and its merge, and the service controller (external); properties |
| `LoadBalancerManagerInv`, `LoadBalancerManagerProofs` | its inductive invariants; theorems and proofs |
| `Instances` | `instances.go`, and the node and the lifecycle controller (external) as its callers; properties |
| `InstancesInv`, `InstancesProofs` | its inductive invariant; theorems and proofs |
| `Startup` | `configuration/`, `provider.go`, `loadbalancer.New`, `discovery/`, fixed prefixes and `ipcalc.go`, the feature metric; properties |
| `StartupInv`, `StartupProofs` | its inductive invariant; theorems and proofs |
| `MCReconciliation`, `MCLoadBalancerManager`, `MCInstances`, `MCStartup` | the small instances for TLC |

`Reconciliation` EXTENDS `LBaaSEngine`. Each `XInv` EXTENDS its component `X`,
and both `MCX` and `XProofs` EXTEND `XInv` (for the reconciliation
`ReconciliationInv`, `ReconciliationRefines` and `ReconciliationChanges` extend
one another, and so do the modules with their proofs), so TLC and TLAPS work on the same definitions; TLC
also evaluates, on the instances it checks, hypotheses of the theorems. The
configurations only give values to constants. `PROJECT.json` lists for each definition the lines of
code it stands for. A definition `X_<Word>` in front of `X` is `X` with a
plausible mistake; substituting it for `X` has to violate the property named
in `PROJECT.json`, which shows that the property depends on that piece of code.

## How the model reads the code

**Resources.** A resource's identity for the code is what `compare.Reconcile`
compares: type, name, port, address or node, LoadBalancer, the resource it
refers to. That record is its *key*; `Backend`, `Frontend`, `Bind`, `Server`
build it as the `reconcile_*.go` files do. A name follows from the key, so it needs
no representation of its own: it has the port name and, for a server, its node,
for a bind the *family* of its address (`NamedAt`, `reconcile_binds.go:46`-`:62`).
Two binds of one port on different addresses of one family would share their
name. `OnePerFamily` says that a Service never asks for such a pair: the address
manager allocates one address for a family, and what a status shows came from an
allocation. One after the other they do occur (`faults` replaces an address).

**Steps.** One step is one request and what the code does with the answer up
to the next request. `pc[lb]` is the loop the reconciliation of LoadBalancer
`lb` is in:

| `pc` | code | actions |
| --- | --- | --- |
| `list`, `get` | `retrieveResources` | `List`, `Get`, `GetGone` (listed, then gone: an error) |
| `get`, nothing left | rest of `ReconcileCheck`, dispatch in `Reconcile` | `CheckFailed`, `CheckUpdating`, `CheckProgressing`, `CheckDestroy`, `CheckCreate`, `CheckComplete` |
| `update` | `updateFailedResources` | `Update` |
| `destroy` | the destroy loop with `allowRetry` and `newToDestroy` | `Destroy`, `DestroyNotFound`, `DestroyRefused`, `DestroyPassEnd` |
| `create`, `tag` | the create loop | `Create`, `CreateRefused`, `Tag` |
| `waitExisting`, `waitCreated` | `waitForResources` | `PollReady`, `PollBroken`, `WaitDone` |
| `returned` | `Reconcile` returned `ret[lb]` | `Join` when all have |

`PlannedCreate` and `PlannedDestroy` are the four steps of `ReconcileCheck`.
They keep the detail that decides what a port change does: `portBackends` is
filled only when no backend has to be created or destroyed, and a step finds no
targets for ports its predecessor did not fill in. Both are defined with sets:
the code iterates over maps, so the order within a type is arbitrary, and the
order between types is kept (`FirstOf`, `FirstKeys`).

**Failures** have actions of their own, enabled by `FaultKinds` and bounded by
`MaxFaults`: a request fails (`list`, `get`, `update`, `destroy`, `create`,
`tag`); it is carried out but its answer is lost (`destroylost`, `createlost`,
`taglost`); the Engine limits the rate of Destroy (`ratelimit`); the back-off of
a wait is used up (`timeout`); a deployment fails (`deploy`); the process
restarts (`crash`).

**The caller.** `Start` is `EnsureLoadBalancer` taking the Service as it is
(a deleted one asks for nothing), `Join` its return: after success the service
controller remembers what it synced and rests until the Service changes, after
an error it calls again. `ChangeService` may happen at any time, `MaxEdits`
times; a running reconciliation goes on with what it was created with.

**Several Services** (`LoadBalancerManager`). `pc[s]` is where the call of
`EnsureLoadBalancer` for Service `s` is:

| `pc` | code | actions |
| --- | --- | --- |
| `called` | `EnsureLoadBalancer` waits in `m.sync.Lock()` | `Lock` |
| `allocate` | `reconciliationForService` up to and with `AllocateAddresses` | `Rejected`, `NodeUnusable`, `Allocate`, `AllocateFailed` |
| `check` | `checkIPCollision`, one List of Services per address | `CheckCollision`, `CheckFailed`, `NoCollision` |
| `reconcile` | `New`, `Reconcile` and `Status` of all LoadBalancers | `NewFailed`; per LoadBalancer `ReconcileLB`, `ReconcileWaits`, `PollFailed`, `ReconcileRefused`, `ReconcileFailed`, `TagFailed`; `ReconcileError`, `Status`, `StatusFailed` |
| `status` | the rest of `GetLoadBalancer` | `NewFailed`, `StatusFailed`, `GetLoadBalancer` |
| `returned` | the mutex is released, the service controller has the result | `WriteStatus` |

`arg[s]` is the copy of the Service the call works with; `status[s]` is what the
API server has, which is what `checkIPCollision` reads of *other* Services. The
two differ while a call runs, and the status is written after the mutex is
released. `prefixes(list)` is the cache with its fall-backs: a prefix that can
not be retrieved is left out, a VIP that can not be retrieved is replaced by
the calculated one, each on its own, and either stays in the cache for two
minutes (`ExpireCache`). `UpdateLoadBalancer` and `EnsureLoadBalancerDeleted` only
call `EnsureLoadBalancer`.

`store[s][lb]` is what the Engine has for Service `s` on a LoadBalancer, in
*parts*: a port (its backend, with the frontend and servers) or one of its binds;
with the parts among them that are on their way out (`leaving`), whether something
is still in deployment (`deploying`), and the ports which an untagged resource
refers to (`blocked`). A reconciliation is one step per LoadBalancer here, and
`Reconciliation` has the requests in between; but the step has every result a
`Reconcile` may have:

| Action | What the Engine is left with | Returned (`recon`) |
| --- | --- | --- |
| `ReconcileLB` | exactly the targets | nil; `"early"` if one of them is a destroyed part that is still visible and was taken for existing |
| `ReconcileWaits` | what an earlier attempt left, now deployed; nothing else is created or destroyed (`reconciliation.go:245`-`:257`) | nil, but `"early"` |
| `PollFailed` | any moment of creating; the Get of a created resource fails, `Reconcile` ignores that (`:335`), finds the resource in deployment and waits for it | nil, but `"early"` |
| `ReconcileFailed`, `TagFailed` | any moment of destroying (`Torn`) or of creating (`Built`), deployed or not; after `TagFailed` the port is blocked | an error |
| `ReconcileRefused` | what can be destroyed is, the rest is tried again for ever (`destroy_refused`) | never, and the mutex is kept |

`"early"` is a nil like any other for the code: `Status` follows, the status is
written, the finalizer is removed. The properties tell the two apart, and
`early[s]` records for them on which LoadBalancers the last success was one.

A Service that is deleted or stops being of type LoadBalancer is cleaned up:
the service controller calls `GetLoadBalancer`, which takes no lock
(`holds[s]` is false) but goes through `allocate` and `check` like
`EnsureLoadBalancer`, then `EnsureLoadBalancerDeleted` if the answer was that
the load balancer exists, then it removes the finalizer. For a Service being
deleted `GetLoadBalancer` looks at no address and always says it exists. For one
that changed its type (`ChangeType`) it is refused like any other: a Service
whose address another one shows stays `retiring`.

**Nodes and machines** (`Instances`). `pc[c]` is the request the call of
controller `c` waits for: the two searches of `instancesByName`, the loop of
`filterInstances`, the first and second request with the identifier. Names are
sequences of the parts between dashes, so a wildcard prefix is a suffix test.
`Matches` keeps what `filterInstances` counts: a machine once per address it
shares with the Node. The machine a Node really runs on (`Machine`) is known to
the properties only. The lifecycle controller deletes a Node when
`InstanceExists` says no, and marks it when `InstanceShutdown` says yes.

**The start** (`Startup`). The process reads file, environment and flag
(`NewProviderConfig`), then runs `Initialize`: Kubernetes client, discovery of
the LoadBalancers resource by resource, prefixes. Any error of `loadbalancer.New`
leaves `manager` false and the process running. `envconfig` is external: an
option whose variable is unset keeps what the file says, unless it has a
default, which then overwrites the file. `calculateVIP` works on bytes, with
`% 256` for the decrement; `orNot` is `byte | ^mask` in arithmetic, which
`MCStartup` compares with the bitwise operator for every byte and mask. A prefix is the network it names.

## What TLC checks

| Run | Question | Instance | States |
| --- | --- | --- | --- |
| `changes` | does a Service that is created, deleted, renamed, rescheduled or made dual-stack in the middle of its reconciliation end up provisioned, is success reported only then, and is what it uses left alone? | 1 LoadBalancer, 5 Services, 1 change, no failure | 5.8 K |
| `multi` | does that hold for two LoadBalancers that list each other's disappearing resources, are foreign resources left alone, and does the inductive invariant hold? | 2 LoadBalancers, Services with one port and no node yet, foreign resources | 215 K |
| `faults` | do retries duplicate, clash or interrupt anything? is every step one the abstract specification allows? | created, deleted, renumbered with another address and dual-stack; 1 change, 2 failures of any kind | 1.0 M |
| `recovery` | does a resource whose deployment failed come back, and does a check that finds nothing to do mean that all is there? | 1 port, 2 failures of four kinds | 4.6 K |
| `manager` | do Services that want one VIP, on several LoadBalancers, exclude each other, keep their addresses, and still all get their turn or are cleaned up? | 2 Services, 2 LoadBalancers, IPv4 / dual-stack / host name under another port name / rejected, tagged and calculated VIPs, 1 change (type and deletion included), 1 failure of any kind, a timed-out wait and an untagged resource included | 369 K |
| `instances` | are Nodes bound to their machine, deleted and marked only when that is right, and in the end always? | 2 Nodes, 3 machines with names that collide, with and without customer prefix and ProviderID, 2 failures, 1 event | 66 K |
| `startup` | which LoadBalancers and VIPs does a process end up with, and what does it offer, when parts of its start fail? | 24 namings, fixed prefixes of all lengths (IPv4 and IPv6), 2 failures or crashes | 103 K |

Properties, by the hazard they are about:

* `NilMeansComplete`: when `Reconcile` returned nil for a LoadBalancer, the
  Engine holds exactly what was asked for (`Provisioned`, which does not use
  the definitions of the plan).
* `NoDuplicates`: no two resources of the Service on a LoadBalancer are equal.
  `compare.Reconcile` accepts any number of equal ones, so a duplicate would
  stay.
* `NoClash`: no two resources of a type have one name (binds are named by
  family), and no two binds one address and port, on a LoadBalancer; the reason the code gives for destroying
  first.
* `OnlyOwnTouched`: a resource is destroyed and updated only by the
  reconciliation of its LoadBalancer and only if it carries the Service's tag.
* `DestroysOnlyDeployed`: nothing is destroyed whose deployment failed or is
  under way, however old the snapshot is.
* `DestroysOnlyUnused`: nothing is destroyed that the Service being reconciled
  uses, as long as its ports stay or it has only one.
* `ChangesFit`: what that rests on. Resources are created port by port, nothing
  is built on the backends or frontends before they are there for all ports, and
  what is given up first is what nothing builds on, also in a snapshot that was
  read one resource at a time.
* `CheckedIsComplete`: `ReconcileCheck` finds nothing to do only when the Engine
  holds exactly what was asked for, whatever failed before, unless something it
  retrieved is gone or on its way out.
* `Terminates`, `Converges`, `FailedRecover`: every `Reconcile` returns; the
  Engine ends up with what the Service asks for and keeps it; a failed resource
  does not stay failed.
* `StatusExclusive`: no two Services show one address. It depends on one worker:
  `checkIPCollision` reads statuses that are written after the mutex is
  released, so with `--concurrent-service-syncs` above its default of 1 a second
  Service can pass the check in between. Excepted is a status written after
  `Reconcile` came back early on *all* LoadBalancers: it shows what an earlier
  attempt bound there, which this call has not compared with anybody. One
  LoadBalancer that is complete suffices to keep that out, because the merge
  drops what it does not serve.
* `AddressesStay`: a Service keeps its address, whatever happens to prefixes,
  VIPs and the cache, unless `Reconcile` came back early on *some* LoadBalancer
  (where the binds may be gone while the merge asks for all).
* `StatusIsServed`: what the status names is served by every LoadBalancer that is
  complete, whatever is on the others; when all are complete it names all they
  serve.
* `GoneLeavesNothing`: a Service that is gone has nothing on any LoadBalancer, but
  for those on which its clean-up came back early.
* `EveryServiceSettles`: every Service is in the end served (on the LoadBalancers
  where `Reconcile` did not come back early), rejected, gone, cleaned up, or waits
  for a Service that shows an address of its families; no error path keeps the
  mutex. Excepted is a reconciliation that never returns (`Looping`): it keeps the
  mutex, and all other Services wait.
* `Promise`: `Reconciliation` implements `DesiredState`. Seen from outside, a
  part of a Service appears only when it is asked for, everything not asked for
  is gone, and what it builds on is there and not given up; it is given up only
  when nothing builds on it; it disappears only after it was given up. The
  mapping: the goal is what the running reconciliations were created for
  (`want`), a part is a tagged resource without its identifier, given up is
  `deleting`. Snapshots, plans, retries and failures are stutters.
* `OnlyLostNodesDeleted`, `OwnMachine`, `ShutdownIsOff`: a Node is deleted only
  when its machine is gone, initialised with data of its own machine as long as
  that exists, and marked as shut down only when it is off.
* `LargestDiskNamed`: the type a Node is labelled with names the kind of a
  largest disk of its machine among those whose kind is known; the loop over the
  disks against a definition with quantifiers.
* `EventuallyInitialised`, `EventuallyDeleted`: a Node whose ProviderID, name or
  single address tells its machine is initialised, and one whose machine is gone
  is deleted, the pause after a refused request included.
* `OnlyOwnLoadBalancers`, `CleanStartIsComplete`: the LoadBalancers in use are
  tagged for the cluster as it was named by the strongest source, and without a
  failing request they are all of those.
* `FeaturesAreOffered`, `NodesAreManaged`: the metric tells which managers the
  controllers have; nodes are managed whatever fails for LoadBalancers.
* `VIPIsBeforeBroadcast`: the byte-wise VIP, against a definition by bits.
* `Inv`, `PlansFit`, `ChangesFit`, `ManagerInv`, `ExclusiveInv`, `KeptInv`, `NodesInv`,
  `StartInv`: the inductive invariants of the proofs, checked before they were
  proved (see [what is proved](#what-is-proved)).

**Bounds.** One LoadBalancer and one port already give every type of resource
and the dependencies between them (frontend on backend, bind on frontend,
server on backend), two waves of creation and a wave with more than one
resource; a second address makes a wave of three. Two LoadBalancers are needed
only where reconciliations meet, and there the fewest resources (a backend, a
frontend) suffice, because they meet only in `List` and `Get`. Two failures
cover a failure and one during the recovery from it. `Ids` is large enough for
every creation the bounds allow, so creation is never blocked by the bound.
For the manager two Services and two LoadBalancers suffice: collisions are
between pairs, and the merge of the statuses tells "all" from "some" with two. One
Service of the two may change its families, take a host name and rename its port,
so that what a failed attempt left is surplus for the next one; a failure there
leaves parts in deployment, on their way out or blocked, and the retries meet them
without a further failure.
For the instances a name that two machines share and one that needs the second
search are the cases the code tells apart; one Node of each, under two
controllers, meet in the pause only. The VIP is computed per prefix, so the runs
take every length with address patterns of zeros, ones and a mixture.
Deadlock is checked for the reconciliation, whose resting controller is the step
`Rest`. It is not for the other modules: when all Services are settled, all
Nodes initialised or the process is up, nothing happens any more, and
`EveryServiceSettles`, `EventuallyInitialised`, `EventuallyDeleted` and
`NodesAreManaged` say in which states that may be.

**Fairness** (`Fairness`): goroutines run (weak fairness of `Step(lb)`, of
`Start` and `Join`: the service controller calls again after an error and after
a change), and the Engine deploys and removes what it was asked to (`SettleOk`,
`Removed`). All are weakly fair, no failure is fair, and failures are bounded,
so the liveness properties say: once failures stop, ….
In `LoadBalancerManager`, `Sync` and `Lock` are strongly fair, as a work queue
and a Go mutex hand over to everyone who waits even if others take turns
meanwhile; calls that run go on, the cache expires, and the Engine deploys and
removes what it was asked to (weak fairness). A call that repeats a refused
request for ever is not made to return by that.
In `Instances` the controllers visit every Node again and again (strong fairness
of `SyncNode` and `MonitorNode`, as one worker serves all Nodes in turn),
requests are answered and the pause ends. In `Startup` the process goes on, the
controllers ask for their managers, and a process that ended is started again.

**Limits of the runs.** `NilMeansComplete` and `Converges` are checked without
failures and for one change that takes no port away beside one that stays. Two
situations make `Reconcile` return nil too early: a timed-out wait
(`nil_after_wait`), and a resource that is destroyed and still visible (next
section). A second change that takes back the first one reaches the second
situation too. In the manager both, and the Get that fails in a wait, are what
`"early"` stands for, and a property that mentions `early` does not hold without
the exception: a Service deleted after a timed-out wait loses its finalizer while
everything stays, a live one rests with a backend only or with the binds of an
earlier attempt. `DestroysOnlyUnused` and `ChangesFit` are checked for Services
with one port: with a port added or taken away beside one that stays they do not
hold (next section). The parts of `ChangesFit` about several ports that stay are
proved; TLC checks them, and all of it under failures, for two ports that swap
their external numbers with `Specs <- SpecsSwapped`, `MaxFaults = 1` and this
invariant in `faults.cfg`. `Orderly`, which the proof of `NilMeansComplete`
needs, can be added to the invariants of `changes.cfg`.

## Where code and documentation disagree

Each of these is a run whose property states what the code's documentation says,
and which TLC violates.

| Run | What the text says | What the code does |
| --- | --- | --- |
| `nil_after_wait` | "Once Reconcile returns without error, reconciliation is complete." (`reconciliation.go:51`) | after waiting for resources of an earlier attempt (`:245`-`:257`) `toCreate` and `toDestroy` are nil, and `Reconcile` returns nil without reconciling the rest |
| `destroy_refused` | "ErrResourcesNotDestroyable is returned when … Engine returned an error" (`:26`) | `allowRetry` is set after failed requests too; a Destroy refused for good is repeated for ever, under the manager's mutex |
| `vip_shared` | "ErrSingleVIPConflict is returned when asked to provision a LoadBalancer service while another already uses the single load balancer IP" (`loadbalancer.go:60`) | a Service with the host name annotation shows no IP in its status (`:430`), so another Service is given the same address |
| `not_unique` | "Found multiple VMs matching node.Name and having the expected IP address - giving up" (`instances.go:219`) | one VM counts once per matching address (`:191`); a dual-stack Node whose name another VM has too is never recognised |
| `no_prefixes` | "you have the following options. #. Set the ID of the LoadBalancer directly via the `loadBalancerIdentifier` config value" (`src/docs/source/features.rst:106`) | without prefixes and autodiscovery `addressManager` stays nil (`loadbalancer.go:226`); the first Service makes the process panic |

`destroy_refused` uses one failed tag: the untagged frontend keeps its backend
referenced, and no reconciliation can remove it. The resources are tagged "to
find" them later (`src/docs/source/loadbalancer.rst:21`); a failure between
Create and tag (`reconciliation.go:321`) leaves one that is never found.

Others were met while modelling; the model contains the behaviour, but no run
of its own states them:

* A destroyed resource that is still visible is taken for provisioned, so
  `Reconcile` returns nil too early, against `reconciliation.go:51` again. With
  `Specs <- SpecsPorts` in `changes.cfg` TLC shows it for `NilMeansComplete`.
* ReconcileCheck stops "once any step needs something to be created" (`:42`, and
  `src/docs/source/loadbalancer.rst:32`); all steps run, and with a new port missing its backend the
  frontends, binds and servers of the other ports are destroyed.
* `EnsureLoadBalancerDeleted` removes everything only if the deletion time stamp
  is set. For a Service that stops being of type LoadBalancer it provisions the
  Service once more, without nodes, and the controller then removes the
  finalizer: the binds stay. If a Service is provisioned on some LoadBalancers
  only, `GetLoadBalancer` says it does not exist, and nothing is done at all.
* A Service whose ports share a number (53/TCP and 53/UDP) loses its address in
  the merge of the statuses, which counts a LoadBalancer twice; if one of two
  LoadBalancers lacks the binds, the same count names an address it does not serve.
* A Node without ProviderID whose machine is gone is never deleted
  (`errNamedVirtualMachineNotFound` is an error for the lifecycle controller),
  against `src/docs/source/features.rst:18`; and if another machine has its
  name, the Node is bound to that one.
* Errors in `filterInstances` are swallowed, authorization errors too: no pause.
* `secondaryLoadBalancerIdentifiers` is documented
  (`src/docs/source/configuration.rst`) and read, but nothing uses it; the key in
  the file is spelled `secondaryLoadBalancersIdentifiers`.
* `autoDiscoveryTagPrefix` in the file has no effect: it has a default in the
  struct, which `envconfig` applies whenever the variable is not set. The same
  holds for `loadBalancerBackoffSteps`.
* Without autodiscovery an empty `loadBalancerIdentifier` is accepted:
  `ErrNoLoadBalancers` can not occur there.
* `calculateVIP` of a /32 or /128 returns an address outside the prefix, and it
  writes into the prefix it is given, so log lines name the VIP as prefix.

One more is visible in the action `DestroyRateLimited`: the comment at
`reconciliation.go:358` says "If we run into a rate-limiting error, abort
immediately"; that happens only if no Destroy of the pass was answered before,
otherwise `Reconcile` starts over.

## What is proved

Everything below is for all sets of LoadBalancers, ports, addresses, nodes,
Services, machines, tags and identifiers, and any mix and number of failures,
restarts and changes (`MaxFaults`, `MaxEdits`, `MaxEvents` are any naturals),
except where the last column says `NoFailures`.

| Theorem | States | Under |
| --- | --- | --- |
| **Reconciliation** `TypeCorrect` | `Spec => []TypeOK` | |
| `InvHolds` | `Spec => []Inv` | |
| `NoDuplicatesHolds` | `Spec => []NoDuplicates` | |
| `OnlyOwnTouchedHolds` | `Spec => OnlyOwnTouched` | |
| `DestroysOnlyDeployedHolds` | `Spec => DestroysOnlyDeployed` | |
| `PlansFitHolds` | `Spec => []PlansFit` | `RefusesReferenced` |
| `NoClashHolds` | `Spec => []NoClash` | `RefusesReferenced`, `PortsDiffer` |
| `PromiseHolds` | `Spec => Promise` (the refinement) | `RefusesReferenced` |
| `ChangesFitHolds` | `Spec => []ChangesFit` | `RefusesReferenced`, `PortsTogether` |
| `DestroysOnlyUnusedHolds` | `Spec => DestroysOnlyUnused` | the same |
| `CheckedIsCompleteHolds` | `Spec => CheckedIsComplete` | `RefusesReferenced`, `FiniteNames` |
| `OrderlyHolds` | `Spec => []Orderly` | `RefusesReferenced`, `PortsTogether`, `NoFailures` |
| `NilMeansCompleteHolds` | `Spec => []NilMeansComplete` | the same, `FiniteNames` |
| **Manager** `ManagerTypes` | `Spec => []TypeOK` | |
| `ManagerInvHolds` | `Spec => []ManagerInv` | |
| `GoneLeavesNothingHolds` | `Spec => []GoneLeavesNothing` | |
| `StatusIsServedHolds` | `Spec => []StatusIsServed` | `SomeLBs`, `NumbersDiffer` |
| `ExclusiveInvHolds`, `StatusExclusiveHolds` | `Spec => []ExclusiveInv`, `Spec => []StatusExclusive` | `Workers = 1`, finitely many Services, `SomeLBs`, `NumbersDiffer` |
| `KeptInvHolds` | `Spec => []KeptInv` | `SomeLBs`, `NumbersDiffer`, `SomePorts` |
| `AddressesStayHolds` | `Spec => AddressesStay` | `SomeLBs`, `NumbersDiffer`, `SomePorts` |
| **Instances** `InstancesTypes` | `Spec => []TypeOK` | |
| `NodesInvHolds` | `Spec => []NodesInv` | `FoundByName`, `OwnAddresses` |
| `OnlyLostNodesDeletedHolds` | `Spec => []OnlyLostNodesDeleted` | the same |
| `OwnMachineHolds` | `Spec => []OwnMachine` | the same |
| `ShutdownIsOffHolds` | `Spec => []ShutdownIsOff` | the same |
| `LargestDiskNamedHolds` | `Spec => []LargestDiskNamed` | the same |
| **Start** `StartInvHolds`, `StartupTypes` | `Spec => []StartInv`, `Spec => []TypeOK` | |
| `OnlyOwnLoadBalancersHolds` | `Spec => []OnlyOwnLoadBalancers` | |
| `CleanStartIsCompleteHolds` | `Spec => []CleanStartIsComplete` | |
| `FeaturesAreOfferedHolds` | `Spec => []FeaturesAreOffered` | |
| `VIPIsBeforeBroadcastHolds` | `Spec => []VIPIsBeforeBroadcast` | |

Besides the hypotheses in the last column the proofs use the assumptions on the
constants in the modules that declare them (`EngineConstants`,
`InitialIsForeign`, `ReconciliationConstants`, `ManagerConstants`,
`InstancesConstants`, `StartupConstants`): sentinels differ from values, tables
have the right domains, a Service asks for one address of a family, what exists initially belongs to others, a ProviderID a
kubelet announces is the one of its machine, a disk has a size.

### The reconciliation

*No duplicates.* `NoDuplicates` is not inductive. A duplicate could appear when a
plan made from a snapshot asks for something that meanwhile exists, and the
snapshot is read one resource at a time while everyone else goes on. `Inv` adds
what rules that out. `SnapshotInv`: while a reconciliation reads, every
resource of its LoadBalancer is in what it has seen or has yet to see, and what
it saw deployed still is. `CreateInv`, `CurInv`: until the plan is carried out
nothing equal to what it still has to create carries the tag, and the resource
being tagged is the only one of its kind. `WorkInv`: what is in the destroy and
update loops is tagged, of this LoadBalancer and (for destroy) deployed.
`RefsStayOnLB` makes `filterBinds` and `filterServers` select what belongs to
the LoadBalancer, although the Engine stores that only indirectly. All of this
holds for an Engine that destroys resources others refer to as well.

The proof has one step per action. For the reconciliation that acts, the
action's effect on each conjunct is shown; for all others one lemma
(`Bystander`) suffices: every request of another reconciliation, and every step
of the Engine, is *quiet* for them (`Quiet`): it adds nothing to their
resources, and takes no deployed one of theirs back to another state.

*No clash, and the refinement.* Equal names are weaker than equal resources: a
bind of the old frontend and one of the new frontend have one name and differ
in what they refer to. `PlansFit` is the invariant for that. A plan to create is
carried out only when its snapshot had nothing surplus, so everything of the
Service that is there is a target (`PlanInv`: what is there, what is being
tagged and what is still to come are wanted, and differ in name), and whatever
a target refers to is a resource of the Service for the same port that is
neither gone nor on its way out (`RefsStay`, `WellBuilt`). `RefsStay` needs an
Engine that refuses to destroy what is referenced (`RefusesReferenced`), as the
code expects of it (`DestroyRefused`); `NoClash` for binds needs that a Service
does not ask for one external port twice (`PortsDiffer`; Kubernetes allows it
for different protocols, which the code does not tell apart).

The refinement follows step by step: `Start` is the abstract `Adopt` of a new
goal, `Tag` (also with a lost answer) makes a part appear, `Destroy` (also lost)
gives one up, `Removed` makes it vanish, and every other step leaves goal, parts
and given-up parts unchanged. That a part appears only when all is wanted and
what it builds on stays is `PlanInv`; that it is given up only when nothing
builds on it is `RefusesReferenced` with `WellBuilt`.

*What a change leaves alone.* The four steps of `ReconcileCheck` depend on one
another: if one backend is surplus or missing, no frontend has a target, so all
frontends, binds and servers are surplus, used or not. A plan destroys nothing
in use only if the backends (and, for binds, the frontends) of all ports are in
its snapshot whenever something that builds on them is. `PortsTogether` is when
that holds: all versions of the Service have the same ports (`SamePorts`;
numbers, addresses and nodes may differ), or none has more than one
(`SinglePorts`; it may be renamed or the Service deleted). A port added or taken
away beside another is excluded, because there the code does destroy what is in
use; so is the deletion of a Service with several ports, which in the model may
be taken back at any moment, with the same effect. `Whole`
says it of what is there, `SnapshotFits` of what was listed while the reading
goes on, and `PlanCovered` of a plan being carried out, which is what keeps
`Whole` true when its next resource is created. With `SamePorts` only binds and
servers are ever given up: backends and frontends are wanted by every version,
and the invariant excludes that they become surplus for the reason above.

*Nothing to do means complete.* `Provisioned` counts: as many resources as ports
times (two, addresses, nodes), each in its place. `CheckedIsComplete` needs no
hypothesis on changes or failures. A check that finds nothing surplus and
nothing missing has a one-to-one correspondence between what it retrieved and
the targets it computed (one-to-one by `NoDuplicates` and because what a target
refers to is unique, by `PlansFit`), and the targets are counted kind by kind
(`FiniteNames`: a Service asks for finitely many things). What it retrieved is
what is there (`SnapshotInv`), unless some of it is gone or on its way out: that
is the case in which nil is returned too early, and the property excludes just
that.

*Nil means complete.* The other exits of `Reconcile` remain: after waiting, and
with a resource on its way out. `Orderly` closes both: without failures nothing
is found failed or in deployment, no Create is refused, and nothing the Service
uses is missing or on its way out. A resource is unfinished only while its
creator waits for it, so no check finds one. That only what is not wanted is on
its way out is not inductive across a change: a second change may want back what
the first one gave up. So `NoFailures` allows one change, and `CalmAt` says that
before it reached the reconciliations nothing had been given up. Both restrictions are needed: with a
timed-out wait (`nil_after_wait`) or a change that is taken back the property is
violated. An attempt without `PortsTogether` fails for a third reason: with a
port that is taken away the other port's resources are given up while they are
wanted.

### The manager

`ManagerInv` says what a call may rely on while it runs. `CallInv`: an empty
collection of addresses before it allocates, no addresses for a Service being
deleted, and a result only when every LoadBalancer returned nil, early or not.
`StoreInv`: what is on its way out is there; a LoadBalancer that is complete has
exactly the parts of this call and keeps them, since nobody else works for the
Service (the Engine removes only what is on its way out); after a clean-up it has
nothing, and there is no call for a Service that is gone. Nothing is assumed of a
LoadBalancer that is not complete, but `SocketsDiffer`: whatever attempts left on
it, in whatever state, no two of its binds have one address and number
(`NumbersDiffer`). That is the manager's share of `NoClash`: all that stays when
`Reconcile` begins to create is a target. It needs no assumption on the number of
workers, so `GoneLeavesNothing` holds for any.

`StatusIsServed` is an argument about cardinalities. `mergeReconStatus` keeps an
address and a port that are counted as often as there are LoadBalancers.
`SocketsDiffer` makes it at most one count for each, so such a count means "on
each of them", those included that came back early, about which nothing else is
known; the other direction uses that all are complete. It needs a LoadBalancer
(`SomeLBs`: discovery fails with `ErrNoLoadBalancers` else, and without discovery
there is exactly one) and ports of a Service that differ in number
(`NumbersDiffer`; see 53/TCP and 53/UDP above).

`StatusExclusive` needs one worker. A call that has passed `checkIPCollision`
relies on what the statuses of all others said then, and its own status is
written after the mutex is released. `ExclusiveInv` carries this through the
call (`FreeInv`), which is sound because nobody else writes a status meanwhile
(`SoleCall`); `SoleCall` follows from `Cardinality(Busy) < Workers`. What is
returned need not be what was checked: binds of an earlier attempt may have been
counted as well. But one LoadBalancer that is complete has only addresses this
call allocated and checked, and what the merge keeps is served by that one too.

`AddressesStay` rests on `KeptInv`: a call's copy of the status is the status as
long as it runs, and every address in it whose family is still asked for is in
what is allocated and, when all LoadBalancers are complete, returned. It also
needs a port (`SomePorts`, which Kubernetes validates).

### The instances

What a controller does with an answer is about an identifier that was looked up
several requests before, by a name that others may have. `NodesInv` says of
every call which identifier it has: in `use`, `metadata` and `returned` the one
of the Node's machine, or that machine is gone (`Identified`); in `filter` only
that machine has passed; in `plain` the machine has the plain name. A machine
never comes back, and one that is off stays off, so what was true when the
Engine answered is still true when the controller acts. Two hypotheses are about
names and addresses. `FoundByName`: a Node's machine has the prefixed name, or the
plain one and nobody has the prefixed one, because only then does the first
search not hide it. `OwnAddresses`: no other machine has an internal address of
the Node. Without them a Node is bound to a namesake, as the code has nothing
else to go by.

`LargestDiskNamed` follows from `OwnMachine` and a lemma about the loop of
`instanceType` (`LargestFound`): after each disk, what is remembered is a largest
of the disks with a kind so far. The induction is over the number of disks, with
a set in place of a predicate (`InductionTo`, from the well-foundedness of `<`);
the same induction shows that the recursive function that models the loop
exists (`DisksLooked`).

The attempt to prove `ShutdownIsOff` showed a slip in an earlier version of the
model: a `CASE` with overlapping guards, which TLC evaluates in order, but whose
value TLA+ leaves open.

### The start

`StartInv` connects the steps of a start: from the moment it is made the
configuration is `NewProviderConfig(start)` wherever something was found or
offered (`ConfigInv`), a new process has and offers nothing (`FreshInv`), and
what discovery holds is tagged for this cluster, and complete as long as no
request failed: retrieved, or still to be retrieved (`DiscoveryInv`). The
address manager holds `calculateVIP` of the configured prefixes (`AddressInv`).

That this is the address before the broadcast address is shown bit by bit
(`VIPBits`). Bit k of an address is bit r of byte i; `bitMaskForN` of what is
left of the length for that byte is one of nine masks (`FirstBits`, `MaskOf`),
also where that is negative or above eight; `orNot` keeps the bits of the mask
and sets the others (`BitOfOrNot`); the last byte is odd whenever the prefix has
two addresses, so the decrement clears its last bit and needs no borrow
(`BitOfLess`).

### Only model-checked

* `NilMeansComplete`, `DestroysOnlyUnused` and `ChangesFit` outside
  the hypotheses of their theorems are not claimed: they do not hold there
  (`nil_after_wait`, and see *Limits of the runs*). Nor do the manager's properties
  without their exceptions.
* The liveness properties (`Terminates`, `Converges`, `FailedRecover`,
  `EveryServiceSettles`, `EventuallyInitialised`, `EventuallyDeleted`,
  `NodesAreManaged`) are out of the prover's reach.

## Abstractions and what is not modelled

* `List` is one step although the client pages; a resource that appears between
  pages belongs to another LoadBalancer, and one that disappears is `GetGone`.
* `waitForResources` visits its objects in rounds; the model visits them in any
  order, any number of times, which includes the rounds.
* `tagResource` attaches a single tag under a process-wide mutex: one step.
* A request whose answer is lost has been carried out when the code learns of
  the error; a request that is carried out later still is not modelled.
* Identifiers are not reused, attributes do not change, nobody else changes
  resources that carry the Service's tag.
* Logging, counters, gauges and context cancellation (no deadline is set) are
  left out. The pending gauge is wrong after failures (a failing Create leaves the
  objects behind it counted, a retried Destroy is subtracted twice), but nothing
  reads it.
* `Reconciliation` is about one Service; `LoadBalancerManager` has several but
  no requests to the LBaaS API: there a backend, its frontend and its servers are
  one part, deployments do not fail on their own (an attempt that meets a failed
  resource ends with an error, which is `ReconcileFailed`), and a `Reconcile`
  spends no steps on waiting for a wanted port that is still on its way out before
  it builds on it. The address families of a Service are a set (the
  annotation may name one twice), prefixes are all discovered (fixed ones are in
  `Startup`), no port number occurs twice in a Service, and a tagged VIP lies in
  one prefix.
* The node synchronisation of the service controller, which calls
  `UpdateLoadBalancer` with its own copy of the Service beside the worker, is not
  modelled: with an older copy it may undo a change, or provision a deleted
  Service again, and the manager has nothing to compare the copy with.
* `LoadBalancerManager` has a Kubernetes client. If `builder.Client` failed
  (`Client` in `Startup`), `checkIPCollision` only logs that it can not check.
* In `Instances` identifiers of machines are not reused, and the node
  controller's periodic update of addresses is left out.
* In `Startup` the tags in the Engine do not change: discovery runs once, so a
  LoadBalancer tagged later is used after the next restart only. Token, customer
  prefix and back-off steps are passed on and not part of the model.
* Without a module: the subject lock (`sync/sync.go`, no caller), object
  printing, mocks and test servers; the wiring in `src/main.go`.

## Plan

Done: the Engine, the reconciliation and its concurrent execution with
failures, the abstract specification it implements, the manager with several
Services, the instances and the start; an inductive invariant for each of them,
and the theorems above; every invariant and every action property of a passing
run is a theorem. Left: the node synchronisation beside the service worker, with
its own copies of the Services.
