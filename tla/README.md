# FireFlint: verification

TLA+ modules, TLC configurations and TLAPS proofs for FireFlint / SiteGraph: a
Rust content platform with a Kubernetes storage operator, "foundation" modules
in two ports (Rust and TypeScript) and reference sandboxes of business modules.
Paths are relative to the repository (`src/`). `PROJECT.json` maps every
definition to the lines it translates and lists runs, mutants, findings,
hazards and theorems.

    tlc -workers 2 -config le_cas.cfg MCLeaderElection     # a run
    tlapm StorageRegistry_proofs.tla                       # a proof module

## 1. Inventory

### Modelled

**Leader election** (`operator/sitegraph-operator-bin`). Two or more operator
pods, one Kubernetes `Lease`. State: the Lease (holder, `renewTime`,
`leaseTransitions`, resourceVersion), each pod's place in `acquire` or
`renew_until_lost`, its clock, a request in flight. Operations: sample the
clock, read the Lease, decide, create or replace it with the version read,
retry after a failure, start and stop the controllers (`main.rs` selects
between `run_all` and the elector), crash, restart. Interactions: only through
the API server. Hard: slow calls, late writes of senders that have given up,
clock skew, truncation of times to seconds, restart under the same identity.
Correct when: one reign belongs to one pod; a Lease that is alive is not taken;
only the holder reconciles; someone leads while someone is up.

**Data store controller** (`operator/sitegraph-operator-controller`). State: a
`SiteGraphDataStore` (specification, generation, finalizer, deletion timestamp,
status), its children (Secret, ConfigMap, Service, StatefulSet, Jobs, volume),
the operator's watch cache and the locals of the running reconcile. Operations:
guard with a finalizer, create children if absent, correct drift of image and
ConfigMap, observe readiness and Job outcome, plan and patch the status, delete
or orphan the children, release the object. Interactions: users edit and delete;
the StatefulSet, Job and garbage collecting controllers act on their own; a
requeue, not a watch, brings the operator back. Hard: every call may fail, the
cache is stale, calls address objects by name, a deletion is a sequence of
calls. Correct when: data and password stay together and go only with an
erasure; Ready is true when it is said; provisioning and deletion end.

**Storage registry** (`crates/platform/data-residency`). State: storage targets,
binding policies, the time. Operations: put and remove either, resolve a
request's context to a target. Hard: the order in which bindings are filtered,
ranked and rejected; targets that disappear behind their bindings; windows that
open and close. Correct when: resolution is what the policy says, fails closed,
and never re-routes silently.

**Time and resources** (`crates/foundation/time-resource` in Rust,
`modules/foundation/time-resource` in TypeScript). State: resources, pools,
calendar (rules, blackouts, exceptions), reservations. Operations: hold,
confirm, cancel, reschedule, expire, allocate several at once, edit the
calendar. Hard: holds that expire on their own, an allocation that competes with
itself and must undo, calls of the TypeScript port that suspend between reading
the availability and using it. Correct when: nothing is booked beyond the
capacity, a cancelled reservation stays cancelled, an allocation is all or
nothing.

**Events and audit** (`crates/foundation/event-audit`, Rust port). State: the
log of events, event streams, an outbox with leases and attempts, an inbox per
consumer, a list of audit entries chained by hashes. Operations: publish, read
and append to a stream at an expected version, lease, acknowledge, fail and
recover outbox entries, begin, complete and fail an inbox entry, append to and
verify the audit log. Interactions: writers, workers and consumers share the
store and know each other through it only. Hard: a lease ends while its worker
is at work, late answers, crashes of workers and consumers, versions read long
before they are used. Correct when: an event takes effect at most once at a
consumer, Delivered means processed by all, every entry comes to rest, streams
are serial and the audit chain verifies.

**Work** (`crates/foundation/work`, Rust port). State: cases and participants,
tasks with dependencies and checklists, queues, SLA targets, the time.
Operations: create, move through states, assign, enqueue, claim, add and tick
off, escalate what breaks its SLA. Hard: dependencies that close a circle or
point to a cancelled task, a claim against an escalation, dependencies added
late. Correct when: what has begun had its prerequisites; a deadlock is the only
thing that keeps work from ending; breaches end up where they are escalated to,
however often they are claimed.

**Assets** (`crates/foundation/asset`, Rust port). State: blobs shared by equal
content, assets with versions, scans, legal holds, renditions, collections.
Hard: scans that answer late and for other assets, a purge among sharers, holds
put on at any time. Correct when: references resolve, nothing unreferenced
remains, held assets stay, infected content is not in use.

**Parties** (`crates/foundation/party`, Rust port). State: parties with
identifiers, relationships. Hard: merges that chain, hierarchies that are
circles. Correct when: a merged party leads to one that is there and found by
the old identifiers; a traversal ends and is complete.

**Identity and access** (`crates/foundation/identity-access`, Rust port). State:
principals, groups, roles, grants, delegations, policies, external identities,
the time. Hard: periods, repeated revocation, deny against allow, the same
question answered by two computations. Correct when: the list of permissions
agrees with the decisions; taking a right away gives none.

**Commerce** (`modules/commerce/src/reference/sandbox.ts`). State: carts, stock
and its reservations, a budget and its reservations, orders, payments, quotes,
the orders of idempotency keys. A direct, a quote and an approval checkout each
call one provider after another. Hard: every call is an `await`, at which other
checkouts run and clients change the cart or take back a reservation, an order
or a payment; a checkout that fails undoes nothing. Correct when: what is not in
stock is reserved; reservation, payment and order are for the same lines; one
key confirms one order.

**Content store** (`crates/sitegraph-db`, over `migrations`). State: content
objects, the versions of their data, their assignments to websites. Operations:
create, update, revert, publish, delete, replace the assignments. Hard: each is
a READ COMMITTED transaction of PostgreSQL that overlaps others, sees what they
have committed and no more, waits for their locks, and fails when it waits for
one that waits for it. Correct when: an object is assigned to what was asked
last, its data is that of its last version, and nothing is left of one that is
deleted.

### Not modelled yet

| component | state and operations | hard behaviour | properties worth stating |
|---|---|---|---|
| HTTP API and rate limiter (`crates/sitegraph-api`) | no state but a window of requests per key | checks made before the transaction of the content store | data fits the type of its object (it need not, section 6) |
| TypeScript ports of events, work, assets, parties, access | as above | awaits between a check and its use | as above, for suspended calls |
| EDI, forms and workflow, privacy sandboxes | messages, submissions, requests | awaits, retries, retention | to be derived when they are modelled |

### Left out

Admin application and adapters (user interface, pure I/O); commerce contracts
and registries (types and static tables); operator manifests (declarative);
`sitegraph-db/residency.rs` (returns the one pool there is);
`reconcile_storage_profile` and `reconcile_storage_binding` (one plan, one
patch); status wording and conditions.

## 2. Modules

| module | models | depends on |
|---|---|---|
| `LeaderElection` | `leader_election.rs`, `main.rs` | |
| `MCLeaderElection` | instances; a view that abstracts from absolute time | `LeaderElection` |
| `LeaderElection_proofs` | theorems | `LeaderElection` |
| `DataStoreReconciler` | `lib.rs`, `resources.rs` of the controller | |
| `MCDataStoreReconciler` | instances, symmetry of passwords | `DataStoreReconciler` |
| `DataStoreReconciler_proofs` | theorems | `DataStoreReconciler` |
| `StorageRegistry` | `data-residency/src/lib.rs` | |
| `MCStorageRegistry` | instances, symmetry of ids | `StorageRegistry` |
| `StorageRegistry_proofs` | theorems | `StorageRegistry` |
| `Reservations` | `time-resource` in both ports | |
| `MCReservations` | instances, bounds | `Reservations` |
| `Reservations_proofs` | theorems | `Reservations`, `SumLemmas` |
| `EventFeed` | abstract specification of what consumers are promised | |
| `EventDelivery` | `event-audit/src/lib.rs`; implements `EventFeed` | `EventFeed` |
| `MCEventDelivery` | instance, what is explored together | `EventDelivery` |
| `EventDelivery_proofs` | theorems, the steps of the refinement | `EventDelivery` |
| `WorkStore` | `work/src/lib.rs` | |
| `MCWorkStore` | instance, what is explored together | `WorkStore` |
| `WorkStore_proofs` | theorems | `WorkStore` |
| `AssetStore` | `asset/src/lib.rs` | |
| `PartyDirectory` | `party/src/lib.rs` | |
| `AccessControl` | `identity-access/src/lib.rs` | |
| `CommerceSandbox` | `commerce/src/reference/sandbox.ts` | |
| `ContentStore` | `sitegraph-db/src/lib.rs` | |
| `MCFoundation` | one instance of the last five, what is explored together | `AssetStore`, `PartyDirectory`, `AccessControl`, `CommerceSandbox`, `ContentStore` |
| `Foundation_proofs` | theorems of those five | `MCFoundation`, `SumLemmas` |
| `SumLemmas` | lemmas on sums over finite sets and induction over sets | |

Definitions named `Bug...` are not the code. Each is a plausible mistake that
stands before the definition it may replace; a mutant in `PROJECT.json` names
the property that then fails.

### LeaderElection

One action per `await`-delimited part of a call: `Begin` samples `now`, `Get`
reads the Lease and decides (`MayAcquire`, `MayRenew`), `Serve` is the API
server applying the write and answering, `Granted` and `Refused` are the
branches of `acquire` and `renew_until_lost`, `CallFails` an error of either,
with or without the write being left in flight (`Abandon`, `ServeStray`).
`mode` tells the loops apart: acquiring, renewing, and the second attempt after
a failed renewal. `Leading` is what `main.rs` does: the controllers run from a
granted acquire until the elector returns. Real time is `clock`; each pod reads
`clock + offset[r]`, divided down to seconds (`Seconds`). A deadline `due`
bounds sleeps exactly and calls by `CallTime`, which is an assumption on the
environment and not a timeout in the code. The Lease's optional duration is
always the configured one, since every pod has the same configuration.

`TimelessView` identifies states that differ by a shift of time, resource
version and `leaseTransitions`, which the system only compares: so the runs
need no bound on the clock. Faults are bounded by `MaxFaults`.

### DataStoreReconciler

One API call per step; `pc` is the next one, `seen` the cached object the
reconcile was started with, `image` and `obs` what it has read since. `Start`
branches like `reconcile_data_store`, validation first. The guard, creation,
drift, observation and status parts follow the order of the code
(`CreationOrder`, `DeletionOrder`, `OrphanOrder`). `create_if_absent` is one
step that keeps what exists. `Merged` is the merge patch, which does not remove
what became `None`. `Abort` is a failing call (its effect is the preceding
step's) or the operator's death; locals are lost and the requeue starts over.

A deletion is a request. `delete_collection` and `delete` return when the API
server has taken it, and the operator removes its finalizer without a look at
what is gone: Jobs stay (`going`) until the garbage collector has let go of
their pods, the pod outlives its StatefulSet, and the volume claim (`claim`),
with its data, stays until no pod uses it. So `DeletionRespectsPolicy` speaks of
what has been requested (`Condemned`) when the object goes, and that everything
is gone in the end is the second half of `DeletionCompletes`.

Abstracted: a specification is one of three kinds (managed, external, invalid)
and one of two policies (`SnapshotThenDelete` behaves as `Delete` in the code);
endpoint and credential references are one flag; a password is a value that is
only compared. Environment: watches may lag arbitrarily; the StatefulSet
controller makes claim and pod while there is a StatefulSet and no claim that is
being deleted; a container needs the Secret to start and initialises an empty
volume with its password; the Job logs in with it; the garbage collector removes
children of owners that are gone. Secret, ConfigMap, Service and StatefulSet have
no finalizer and vanish with the request. Assumed of users: a specification is
not edited once its object is being deleted, and children are not removed by
hand. A name is reused when nothing of its predecessor is left but what a Retain
has kept, and in particular when no deletion is in progress: otherwise a Job that
is being deleted would be taken for the new object's, whose first generation has
the same Job name, and so would the claim. The hazards list says what these assumptions set aside.

### StorageRegistry

`Resolve` follows `resolve_at` in its steps: `Candidates` (active and
matching), `Eligible` (fallbacks only if nothing else), `Best` (priority, then
specificity), ambiguity, then the checks of the target. Its specification is
separate and declarative: `InForce` says for which instants a window stands (a
half-open interval, so that of two windows that meet one counts at each instant),
`Beats` orders the bindings, and `Selected` says which target a context belongs
to, without the steps. Properties compare the two.
Ids, organizations, regions, domains and categories are model values; a
classification is a number. A revision is stored but read by nobody and left
out.

### Reservations

One module for both ports, which take the same decisions. `tasks` is the queue
of suspended calls, in the order in which a JavaScript engine continues them;
`Start` is a call up to its first `await`, `Continue` runs the head of the
queue up to its next one. With `Interleaved = FALSE` no call starts while
another is unfinished: the Rust port, whose `RefCell` makes the store `!Sync`.
`Available` is the whole of `availability`. Ids are positions; a rule's
weekdays, dates and hours are one window of time; one organization.

### EventFeed and EventDelivery

`EventFeed` is a log that only grows and a counter of effects per consumer and
event that goes from 0 to 1 once. `EventDelivery` is the store and those around
it, and implements it: `Feed == INSTANCE EventFeed WITH published <- Len(events)`,
checked as the property `FeedSpec`. The store's calls are one step each, since
its `RefCell` makes it `!Sync`. The repository has no worker and no consumer;
what is assumed of them is marked `caller:` in the module: a worker answers
once for an entry it leased, says Delivered of an event all consumers have
processed, and a consumer completes or fails what it has begun. Anybody may put a
published event into the outbox again (`OutboxEnqueue`), whatever became of its
other entries; an entry therefore names its event, workers lease entries, and
consumers see events. An event made up by the caller of `outbox_enqueue`, that the
store has never published, is left out. A worker may
answer when its lease is over and somebody else has the entry, or crash; a
consumer may crash after `inbox_begin`.

Time is abstracted. A lease runs or is over, an entry is due or not yet:
durations and their order are arbitrary, which allows more than clocks do.
Hashes of audit entries are their positions, so two entries never have one hash.
History: `effects` counts completed work, `late` remembers the entries answered
after the lease was over, an event's `author` and `seen` who appended it and
what he had read.

`OverlapNeedsLateAnswer` states the limit of the leases as it is:
`outbox_acknowledge` and `outbox_fail` take an id and not a lease, so the
late answer of one worker can free an entry that another is at work on. Without
a late answer two leases on an entry never run at once.

### WorkStore

Cases, participants, tasks, checklists, queues, SLA targets; one action per
operation of a provider. Guards are those of the code and no more: a task that
is Completed can be claimed, an escalation queue need not exist, and a removed
participant can be removed again. A task's type and priority, by which targets
are matched, are one `kind`. A dependency's `late` (added when the task had
begun) is history. Cases and participants are recorded by the code and steer
nothing; the type invariant is what is checked of them.

### AssetStore, PartyDirectory, AccessControl

Three stores, each with one action per operation. Their variables, and those of
`CommerceSandbox` and `ContentStore`, have different names, so that
`MCFoundation` can extend them all: it is one instance whose behaviours use one
of the five, for they share nothing.

`AssetStore`: content stands for its checksum (the code compares 32-bit FNV-1a
values; a collision, which would make two contents one blob, is abstracted away).
A scan result goes to every asset with a version of that blob, in whatever
state. `tainted` (the blob was known to be infected when the version was added)
and `used` (it was referred to once) are history.

`PartyDirectory`: `Traverse` is the loop of `traverse`, `Reachable` its
declarative counterpart. The code lets a party be merged into itself, merged
again or archived after it was merged; then the chain of `merged_into` breaks.
`orderly` (history) says that none of this happened, and `RedirectsResolve` is
stated for directories that are.

`AccessControl`: `Allowed` is `decide`, `EffectivePermissions` is
`effective_permissions`, each in its own words as in the code; `ListingAgrees`
compares them and names what the second does not look at: the principal's
status, policies, and the scope of delegations. A pattern of permissions is the
set it matches, a policy's conditions the set of resources it fits.

### CommerceSandbox

`calls` are the checkouts. `DirectCheckout`, `QuoteCheckout` and
`ApprovalCheckout` are what a checkout does before its first `await`, and each
action of `Continue(n)` what it does between two: `at` is the step it takes
next, the other fields its locals. `Refused(n)` are its exceptions, after which
everything done so far stays. `Intervene` are calls of other clients, `Shop`
changes carts, also while they are being checked out. Steps interleave in any
order. A checkout keeps a copy of the lines it has priced, while the cart is
the live object: `PriceApproval` reads it again after the contract was asked.
The history variable `overlapped` holds the keys of checkouts that ran at the
same time, and `stale` says that a cart changed between contract and price.

The properties name what the code does not promise. `BooksBalance`: two lines of
one product are compared with the stock one by one, and the stock goes below
zero. `ConfirmedIsBacked`: an order may break a contract that its cart kept when
it was asked. `OneOrderPerKey`: two calls with one key that overlap both confirm
an order, and so does a repetition after the reservation was released under a
checkout that had confirmed.

### ContentStore

`transactions` holds the statement each connection is at and what it has written
and not committed; the other variables are what is committed. A statement is one
step, except where it waits in the middle: the DELETE of assignments takes its
snapshot (`Clear`) and then row after row (`ClearRow`), and the DELETE of an
object locks its row and then needs those that refer to it (`Cascade`). The
locks are PostgreSQL's, derived from what the transactions have written
(`Written`, `Referenced`, `RowLocked`, `IndexLocked`). `TransactionFails` is an
error, a client that has gone, or the server's choice between two that wait for
each other, which `set_channel_assignments` and `delete_content` do: the one has
deleted assignments and needs the object, the other the reverse. A unique
violation ends a request too (`InsertRow`).

`ChannelsAsAsked` says how far the comment "Replace the full set" holds: the last
replacement's websites are all there, and beside them at most those that were
committed while it ran. History: `time` and `asked`.

## 3. Runs

Nine runs pass, three show what the code does against its own claims.

| run | asks | instance |
|---|---|---|
| `le_cas` | Does the compare-and-swap alone keep reigns apart, when nothing is timely? Type invariant, `OneLeaderPerTerm`, `LeaderHoldsOrSuperseded`, `TakeoverOnlyAfterExpiry`, `TransitionsCountTakeovers` | 2 pods, calls longer than the lease, skew, 2 faults, four initial Leases |
| `le_lead` | At the edge of the timing condition, does only the holder reconcile, and does someone in the end? `OnlyHolderReconciles`, `LeadershipSettles` | half-second ticks, skew, 2 faults |
| `ds_safety` | `DataKeepsItsSecret`, `Inv` (`ChildrenAreGuarded` and the type invariant), `ReadyMeansBootstrapped`, `DeletionRespectsPolicy` | 2 incarnations, 2 generations, all kinds and policies, 1 fault |
| `ds_live` | `ProvisioningConverges`, `ImageFollowsProfile`, `DeletionCompletes` | 1 incarnation, 2 generations, 2 images (the first profile, if there is one, names a fixed one of them), both policies, 1 fault |
| `ds_delete_invalid` | *violated*: `DeletionCompletes` with an edit to an invalid specification | no faults |
| `sr_policy` | `ResolutionFollowsPolicy`, `NoSilentReroute`, type invariant | 2 targets, 2 bindings, 3 selectors, 3 contexts, 4 kinds of target, 2 windows that meet |
| `tr_rust` | `CountedWithinCapacity`, `CancelledStaysCancelled`, `AllocationIsAllOrNothing`, type invariant | below |
| `tr_expiry` | *violated*: `ConfirmedWithinCapacity` | 1 resource, 1 range, an expiry |
| `tr_async_hold` | *violated*: `CountedWithinCapacity` in the TypeScript port | 2 suspended calls |
| `ev_delivery` | Refinement `FeedSpec`; `Inv` (`OverlapNeedsLateAnswer` and the type invariant), `AppendsExtend`, `EntriesSettle` | 2 writers, 2 workers, 2 consumers, 3 events, 3 outbox entries, batches of 2, 3 audit entries of 2 organizations |
| `work` | `WorkInv` (`StartedAfterPrerequisites` and the type invariant), `StuckForGood`, `WorkFinishes`, `OverdueIsEscalated` | 2 tasks of 2 kinds, 2 principals, 1 queue, 1 item, 1 target, 1 case with 1 participant, 3 instants |
| `foundation` | assets: `SharingIsExact`, `InfectedIsNotActive`, `HeldIsKept`; parties: `RedirectsResolve`, `HierarchyIsComplete`; access: `ListingAgrees`, `TakingGivesNothing`; commerce: `BooksBalance`, `ConfirmedIsBacked`, `OneOrderPerKey`; contents: `FoundationInv` (`ChannelsAsAsked`, `HistoryEndsInPresent` and the type invariants of the five) | 2 blobs, 2 assets with 2 versions, 2 renditions; 4 parties, 2 identifiers; 2 principals, 1 group, 2 sources of rights, 3 instants; 2 checkouts of 1 cart with 2 pieces of 2 products, 2 keys, 1 intervention; 1 object, 2 connections, 3 websites of 2 organizations, 3 versions |

Why the bounds are enough. Elections: two pods give every conflict between an
old and a new holder; a stray write and a crash, or a failed call and a second
one, are the faults of the worst scenarios; the theorems cover the rest.
Data stores: a reconcile is in conflict with at most one later specification
and one later incarnation; one fault may hit at any step, and the reconcile
after it starts from scratch. Registry: a conflict is between two bindings, and
the selectors have specificity 0, 1 and 2 on purpose; the theorems cover the
rest. `tr_rust`: three ranges that coincide, overlap and touch; `CalendarOrPool`
bounds the instance to either one resource with a calendar entry, expiring
holds and all ranges, or two resources with a pool and one range; allocations
of two requests may make up to four holds. `MaxReservations` is checked only
when a call starts.

Events: one entry is followed through everything two workers and two consumers
can do with it, the third attempt being the one that matters; an event that is
enqueued twice is a second way to its inboxes, followed with two workers through
the first attempts and with one at a time through the second (`TwoEntries`);
entries of several events meet in `outbox_lease` (order and limit) and in the
stream, where three events and batches of two give a writer between two others;
the audit chain needs two organizations and three entries for one to lie between
two of another. `OneFocus` explores these four apart. Work: a circle of dependencies needs two
tasks; a claim, an escalation and a second claim need one task and two
principals; the choice among several targets that fit a task is not exercised,
there is one target and one queue. `OneConcern` explores participants, dependencies and queues apart,
which share no state that either reads. Foundation: sharing needs two assets and
two contents; a chain of merges three parties, and no more than three are there
when parties are merged, archived or given identifiers; a circle with a way out
of it takes three relationships, and there four parties are; access is decided by two sources of
rights that add up or contradict; two checkouts meet in the stock, the budget,
the cart and the key, and two pieces of two products, one of them scarce and
outside the contract, are a duplicate line, a larger quantity or a mixed cart;
transactions conflict on one object, two at a time, and a replacement before
them leaves assignments to meet on. `OneAspectOfAssets`, `OneAspectOfParties`,
`OneAspectOfAccess`, `OneAspectOfCommerce` and `OneAspectOfContents` name what is
explored apart in each: an intervention not while two checkouts overlap, for
instance.

Deadlock is checked for the elections and the registry, where something can
always be done. A data store that is Ready, or gone with its bounds used up, has
nothing left to do, and neither has an event feed, a calendar, a set of tasks, a
store or a shop at its bounds: these runs switch the check off.

Symmetry is used in safety runs only: passwords are compared for equality, ids
of targets and bindings too (the order of ids decides nothing in `resolve_at`,
which refuses ties). In `foundation`, which has safety properties only,
contents, tenants and identifiers are compared for equality too; so are
idempotency keys, of which `OneAspectOfCommerce` fixes the first, and
connections, of which `OneAspectOfContents` takes the first idle one.

## 4. Fairness

`LeaderElection`: weak fairness of `Tick` and of the steps of a call. Timers
fire and the API server answers within `CallTime`; `tokio` runs the loops.
`Restart` is not fair: a pod may stay down, and the other has to take over.
Faults, crashes and abandoned writes are never fair. `LeadershipSettles` assumes
that some pod stays up; faults end because `MaxFaults` bounds them, and that
somebody leads for good then includes that somebody leads again and again.

`DataStoreReconciler`: weak fairness of `Observe` (watches are re-established),
of the operator's next step (every outcome but a finished deletion is a requeue
after 15, 30 or 300 s, `error_policy` included), and of the controllers of the
cluster taken together: as long as there is something to collect, to start, to
end or to succeed, one of these things happens. Nothing is assumed of users, and
pods and Jobs may fail as often as faults are left.

`EventDelivery`: fairness of callers that the repository does not have, and that
any deployment needs: somebody leases and recovers again and again, time passes,
and a worker that keeps leasing an entry answers for it at last (strong
fairness, for a crash may come between). No consumer is assumed to finish.
`EntriesSettle` carries one more premise: from some time on failures are
reported with `outbox_fail`. A receipt that says Failed
returns an entry to the outbox without looking at its attempts, for ever.

`WorkStore`: weak fairness of `SlaEscalateBreaches`, a periodic call. What
people do is not fair in the specification; `WorkFinishes` states what it needs
of them as a premise (`Worked`): blocked tasks are reopened, required items
ticked off, and a task that can be completed again and again is completed.

## 5. Proofs

Every invariant and every action property that a run checks is also a theorem,
for every value of the constants, and so is every step of the refinement of
`EventFeed`. The hypotheses are the named assumptions of the modules (bounds are
natural numbers, inputs are of their types, and a value that stands for nothing,
such as `Never`, `Gone`, `NoRow`, `Idle`, `Released` or `Nobody`, is none of the
data it is compared with), and, where a theorem has more of them, those it says.
Only liveness is left to the runs.

`LeaderElection_proofs`, for every set of pods and every timing, from
`ConfigAssumption` (what `LeaderElectionConfig::validate` checks) and
`EnvironmentAssumption` (constants are natural numbers, the first Lease is not
from the future):

* `TypeCorrect`, by induction as it stands.
* `OneLeaderPerTermHolds`, `LeaderHoldsOrSupersededHolds`. Neither is
  inductive: a write in flight may be granted later. `CasInv` adds that a
  request or stray write that can still be accepted follows the current Lease
  by one version, that it changes `leaseTransitions` exactly when it changes
  the holder, and that nobody's term is ahead of the Lease. `StoreLease` is the
  heart: what happens when a write is accepted.
* `TakeoverOnlyAfterExpiryHolds`, `TransitionsCountTakeoversHolds`: action
  properties from the same invariant.
* `OnlyHolderReconcilesHolds`: under `Timely`,
  `3 * CallTime + 2 * RetryPeriod + MaxSkew + TicksPerSecond <= LeaseDuration * TicksPerSecond`,
  only the holder runs the controllers. `TimeInv` bounds how old a leader's
  last renewal can be at each place of its loops (`Reach`); `NoForeignWrite`
  concludes that no other pod's expired read can exist yet. The deployed values
  (15 s, 3 s) satisfy `Timely` with calls of at most 2 s and skew of 2 s, and do
  not with calls of 5 s.

`StorageRegistry_proofs`, for every set of ids, contexts, targets, selectors,
windows and priorities, from `RegistryAssumption`:

* `TypeCorrect`.
* `ResolutionFollowsPolicyHolds`: the steps of `resolve_at` agree with the
  declarative policy. The lexicographic ranking is reduced to one integer
  score (`OutranksIsScore`), so that the best bindings are those nobody beats
  (`WinnersAreUnbeaten`); those it starts from are the ones whose window the
  clock lies in (`CandidatesAreApplicable`).
* `NoSilentRerouteHolds`: an action property: winners depend on the bindings
  and the time alone (`WinnersFollowBindings`), and they decide the target.

`DataStoreReconciler_proofs`, for any images, passwords, numbers of incarnations,
generations and faults, from `DataStoreAssumption`:

* `InvHolds`: the type invariant and `ChildrenAreGuarded`. What the operator
  believes is stale, so `CopiesOK` says how stale: the cache and the object a
  reconcile was started with are never ahead of the object in the cluster, agree
  with it where generations do, and know a finalizer or a deletion only if it is
  there. `PlaceOK` says what each place in a reconcile may rely on: where
  children are created the object has its finalizer, and in a deletion, what is
  not handled yet is what remains to be done.
* `DataKeepsItsSecretHolds`: `GoingOK` adds that a Secret is missing beside its
  volume, or Jobs or the volume are being deleted, only when the cache, and the
  reconcile under way, know of the deletion: so none draws a new password.
  `DeletionOK` says why the order of a deletion matters: the StatefulSet goes
  first, for with it the volume claim would be made again.
* `ReadyMeansBootstrappedHolds`: what a reconcile has observed of its Job is still
  so when it writes the status, while its object is there (`JobsOK`).
* `DeletionRespectsPolicyHolds`: an action property from the same invariant: what
  a deletion has not asked for yet is in `todo`, and once it is through, nothing
  comes back that nobody has asked to delete (`Condemned`).

`EventDelivery_proofs`, for any writers, workers, consumers, batches and bounds,
from `EventDeliveryAssumption`:

* `InvHolds`: `OverlapNeedsLateAnswer` follows from `LeasesAreHeld`: unless its
  entry was answered late, a lease that runs is the one the outbox has.
* `AppendsExtendHolds`: versions, writers and what they had read; for the audit
  chain, that every entry names the hash of the last one of its organization
  before it (`AuditIsChained`), from which `audit_verify` finds nothing broken.
* `FeedSpecHolds`: the store implements `EventFeed`, with any number of entries
  of one event. `EffectsAreProcessed` ties
  what the inbox says to what happened: an event has taken effect at a consumer
  once if its inbox says Processed and not at all otherwise, and what is being
  worked on is Processing. Every action is then a publication, one effect, or a
  stutter of the abstract feed.

`Reservations_proofs`, for any capacities, quantities, ranges, pools and bounds,
from `ReservationsAssumption`:

* `TypeCorrect`, in both ports. `TypeInv` adds what a suspended call relies on
  (`Fits`): the resources it chose and the reservations it made exist, its
  places in the requests do too, and it makes no more holds than it selected.
  Entries are only ever added, so a task that fits goes on fitting while others
  run (`StillFits`).
* `CancelledForGood` and `AllocationIsAtomic`, for the Rust port
  (`~Interleaved`). Neither is inductive: a suspended reschedule writes a state
  back, and an allocation ends by what its earlier steps did. `SyncInv` adds
  that at most one call is under way, that the reservation being moved is not a
  cancelled one, that the holds made so far are all held, and that those undone
  are all cancelled. The hypothesis is needed: in the TypeScript port another
  call may cancel the reservation that is being moved, or confirm a hold that
  is about to be undone.
* `NeverOverbooked`: `CountedWithinCapacity` in the Rust port, provided that no
  quantity and no capacity reduction is negative (`NoNegatives`). Both hypotheses
  are needed: `tr_async_hold` overbooks without the first, and without the second
  a hold of -1 makes room for one of 2 on a capacity of 1. `AvailableIsRoom` is
  the heart: `availability` subtracts all that touches the range from the whole
  of it, so a positive answer means room at every instant of the range. `CapInv`
  adds to `SyncInv` that the load is within what was granted at every instant,
  not only where a reservation starts, and what the call under way was promised:
  if it found room it still has it, and a reservation being moved can go back to
  where it was unless it has expired meanwhile. Then steps either ease the load
  (`EasedLoad`) or add one reservation for which there is room (`AddedLoad`).

`WorkStore_proofs`, for any principals, kinds, queues, targets and bounds, from
`WorkStoreAssumption`:

* `WorkInvHolds`: the type invariant and `StartedAfterPrerequisites` together are
  inductive, as every dependency in them is between two tasks that exist. What
  only moves tasks (assignment, queues, claims, escalation) is one case
  (`SameStates`); what remains is a transition, a new task and a new dependency.
* `StuckForGoodHolds`: the set of tasks that shows a task to be stuck still shows
  it after every step (`BlockersKeepStuck`), as tasks and dependencies stay, what
  is cancelled stays so, and nothing completes that waits (`BlockersStay`). So a
  deadlock over any number of tasks is for good, where the run has two.

`Foundation_proofs`, for the five stores that `MCFoundation` explores, for any
tenants, contents, products, keys, connections and bounds, each from the
assumption of its module:

* `AssetStore`: `SharingIsExactHolds`, with the type invariant, is inductive.
  `InfectedIsNotActiveHolds` needs drafts as well (`TaintsAreKnown`), for a clean
  scan of another blob may put one in use. `HeldIsKeptHolds` is an action
  property: a purge of an asset takes a shared content only if nobody else
  refers to it.
* `AccessControl`: `ListingAgreesHolds` compares `effective_permissions` with
  `decide` and needs that delegations end after they begin (`DelegationsEnd`).
  `TakingGivesNothingHolds`: what grants, delegations and allowances give can only
  shrink by such a step, and what denies can only grow.
* `ContentStore`: `ContentHolds`, with the type invariant. `TransactionOK` says
  what each statement may rely on: after its DELETE a replacement has deleted
  all that was committed before it began, and it inserts a website only where it
  has deleted the row that had it. `Compatible` is what the locks keep apart: two
  that have written the row of one object, an insertion against the deletion of
  its object, and two insertions of one website.
* `CommerceSandbox`: `BooksBalanceHolds` is about sums over reservations; stock
  falls below zero only by reservations with several lines of a product, so
  `SinglesFit` says that the others fit into the initial stock. A checkout's
  locals and the order it has made are related stage by stage (`StageOK`,
  `HandsOK`, `OwnOrderOK`), and so are orders and what was reserved and paid
  (`OrderOK`, `PaymentsApart`): that gives `ConfirmedIsBackedHolds`. For
  `OneOrderPerKeyHolds`, `KeyOK` and `FirmOrdersOK`: who runs alone with a key has
  found no order stored, and a confirmed order that has its stock is stored
  or is about to be.
* `PartyDirectory`: `RedirectsResolveHolds`. In an orderly directory every party
  has a root and a distance to it, no greater than the number of redirected
  parties (`RootsOK`), so that following redirections that often is enough;
  and no two parties that are in use share an identifier (`OneHolder`).
  `HierarchyIsCompleteHolds` is the loop of `traverse`: `WalkOK` says that all that
  was found is reachable and that what was found and left the queue has its
  relations found, and as every round takes a party, as many rounds as there are
  parties suffice.
* `FoundationInvHolds` combines the five, which share no state, and
  `RunsAreBehaviours` says that the run's behaviours, which use one of them at a
  time, are behaviours of each.

`SumLemmas` holds what the proofs of `Reservations`, `CommerceSandbox` and
`PartyDirectory` share. A sum over a set is computed by a recursive function of
the library; the lemmas say that the order does not matter, and what a sum is
when elements join, leave or keep their values. Induction is over a set of numbers
(`SetInduction`, from the least number that is missing), since the library's
theorems are about an operator, which the provers cannot instantiate. So these
sums, and with the lemma `Iterated` of `Foundation_proofs` the loops of `Survivor`
and `Traverse`, are covered for every input.

Only model-checked: liveness (`LeadershipSettles`, `ProvisioningConverges`,
`ImageFollowsProfile`, `DeletionCompletes`, `EntriesSettle`, `WorkFinishes`,
`OverdueIsEscalated`), which rests on fairness and `ENABLED`, out of the
prover's reach; the initial and step conditions of `FeedSpec` are all of it, for
`EventFeed` states no fairness.

## 6. Findings

Shown by a run:

* `ds_delete_invalid`: an invalid specification is answered before the deletion
  is looked at; the finalizer stays for ever.
* `tr_expiry`: confirming a hold does not end its expiry; the confirmed booking
  stops counting and the slot is confirmed twice.
* `tr_async_hold`: two concurrent holds in TypeScript both succeed.

Read off the models, and checked by no run:

* `operator/README.md:18` says only the lease holder reconciles. A renewal has
  no timeout (`leader_election.rs:139`) and a leader does not watch its own
  lease, so this holds under `Timely` only, which the deployed 15 s and 3 s meet
  if calls take at most 2 s.
* The status of a store is written by a merge patch, which does not remove what
  has become `None`: a store that turns invalid keeps the endpoint and secret
  references it advertised (`lib.rs:1035` of the controller).
* The operator drops its finalizer as soon as it has asked for the deletion of the
  children (`lib.rs:523`-525): the object may be gone, and its name free, while
  Jobs, pod and volume are still there. A managed store that is edited to External
  keeps the finalizer, which only the deletion of a managed one removes
  (`lib.rs:523`): it can then not be deleted, and its children stay.
* A Deleted asset becomes Quarantined when a blob it holds is found infected, and
  from there a new version makes it a draft; content known to be infected is
  accepted again, which is why `InfectedIsNotActive` excepts it.
* `availability` asks neither for the sign of a quantity nor for that of a capacity
  reduction (`i64`): a hold of a negative quantity and a negative reduction make
  room for others (`time-resource/src/lib.rs:547` and 549).
* A second removal of a participant or revocation of a grant overwrites the
  instant of the first.
* `effective_permissions` lists permissions of disabled principals and ignores
  policies and the scope of delegations.
* Delegations are not tied to the rights of the delegator; roles, grants and
  delegations carry no organization, so that an id is all it takes to revoke one.
* `modules/commerce/docs/REFERENCE-SANDBOX.md:70` promises the same order to a
  repetition with one key; the key is stored last (`sandbox.ts:195`), so that is
  kept only once the first checkout has ended. The document does exclude
  concurrent changes of stock (line 78), not those of orders.
* A checkout does not ask whether its cart is open: with another key, a cart
  that was converted is sold again. `acceptQuote` converts the quote before it
  looks for a cart, and takes any open one of the organization
  (`sandbox.ts:1240`). A released budget goes to the first organization that has
  one of that key (`sandbox.ts:1197`). An authorization brings a cancelled
  payment back (`sandbox.ts:1018`).
* A merge moves identifiers and leaves roles and relationships where they were.
* `set_channel_assignments` says "Replace the full set of channel assignments for
  an object (idempotent)" (`sitegraph-db/src/lib.rs:332`). Two at once can leave
  the union of both sets, and one that repeats a website fails.
* `list_versions` sorts by `created_at`, which is when a transaction began
  (`sitegraph-db/src/lib.rs:411`): of two updates that overlap, the one that wrote
  last need not be listed first. The objects of `migrations/0002_seed_demo.sql`
  have no versions.
* `update_content` validates the data against the type in the URL and updates the
  object whatever its own type is (`sitegraph-api/src/lib.rs`);
  `sitegraph-domain/src/lib.rs:124` says that data is validated against the
  schema of the content's type.

Set aside by an assumption of a model: policies edited while the deletion is
under way (`lib.rs:609`), the owner's uid taken from the cache while calls
address names (`resources.rs:136`), a Secret deleted by hand and re-created with
another password (`lib.rs:661`), collisions of 32-bit checksums (`asset`, 277).

## 7. Plan

1. Proofs: an abstract directory, in which a merged party is the one it was merged
   into, that `PartyDirectory` implements while it is orderly.
2. Commerce: an abstract order book keyed by idempotency key, that checkouts
   implement when those of one key do not overlap; sessions, refunds, returns.
3. The HTTP API over `ContentStore`: types and validation, memberships, tokens.
4. The awaits of the TypeScript ports of the foundation modules, event streams
   first (`reference.ts:148` replaces a stream by what it read before).
5. A composition of `LeaderElection` with two reconcilers: what holds of a data
   store while two operators overlap; an abstract mutual exclusion that the
   election implements when it is timely.
6. EDI, forms and workflow, privacy.
