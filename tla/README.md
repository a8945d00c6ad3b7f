# Mission-bound authorization: TLA+ development

This directory models the parts of the reference implementation in `src/src`
whose correctness depends on order: what happens between two transactions,
across an await, after a crash, on a retry, or down a tree of records. TLC
checks the modules on small instances; TLAPS proves the main safety results
for every value of the constants. Paths below are relative to `src/src` unless
they start with `src/`.

## 1. The system

A Mission is a stored record of approved authority. Everything an agent uses,
access tokens, attenuated roots, cross-domain grants, child Missions, is
derived from it and is meant to stop when it stops. The implementation is a set
of Node services over SQLite. A handler does its datastore work synchronously
inside `withTransaction` (`packages/store`), so a transaction is the grain of
interleaving. Between two transactions there may be an await, another request,
a timer, a fault, or the loss of the process.

### 1.1 Inventory

State, operations, interactions and what makes each part correct. The last
column names the module that models it, or says what becomes of it.

| Component | State | Operations | Interacts with | Must hold | Module |
|---|---|---|---|---|---|
| Mission lifecycle kernel (`kernel/kernel.ts`, `termination.ts`, `types.ts`) | the `missions` rows: state, termination, `projected_from`, schedule, version, count | create, create child, supersede, suspend, resume, revoke, complete, expiry, due schedule, derivation gate | everything | cascades complete and final, holds freed, no revival past expiry, derivation only under an active lineage | `MissionLifecycle` |
| Suspension scheduler (`kernel/suspension-scheduler.ts`) | process timers; the schedules persisted in the rows | arm, cancel, deliver, recover | commits published by the outbox; `fireSchedule` | every committed schedule applied, once, across crashes | `SuspensionScheduler` |
| Lifecycle outbox (`kernel/lifecycle-outbox.ts`) | event rows, delivery rows; the running pass, the queued follow-up | enqueue, publish, drain, dispose, reconcile, prune | every commit; status list, signals, grant revocation | nothing owed lost, dispositions final, a drain covers its caller | `LifecycleOutbox` |
| Derivation counting and reservations (`kernel/derivation-reservations.ts`, parts of `kernel.ts`, `attenuation.ts`, `cross-domain.ts`) | the count, the reservation ledger; derivations in flight | reserve, join, sign, release, settle, refund, boot | minters, token hook | the count exact, one artifact per identity | `DerivationReservations`, `DerivationBudget` |
| Mission containment (`contain`, `containOnEvent`, `mission-core/containment-selector.ts`) | the overlay and its event ledger per row | contain by request, contain by protected event, walk to the children | child creation, discharge, the gate | a child never out-derives its parent; authority only narrows, and no further than it must | `Containment` |
| Request idempotency (`lifecycle-idempotency.ts`, the lifecycle endpoint's handler in `adapters/provider.ts`; `creation-idempotency.ts`) | nonce rows, in two phases | claim with the commit, finalize after the signature, recover, replay | lifecycle endpoint | one decision and one answer per nonce and window | `LifecycleRequests` (creation: planned) |
| Discharge, work products | per-entry latches | discharge, propagate | containment, gate | a spent entry is spent in every child | planned with containment |
| Deferred approvals, expansion deferrals, progressive authorization | deferral rows | open, poll, approve, redeem, expire | creation | redeemed once, never after expiry | planned |
| Transaction authorization (`transaction-authorization.ts`, `txn-workflow-store.ts`) | workflow rows | admit, approve, fresh decision, mint, poll | kernel, PDP | no token on a state that moved while a decision was awaited; one token per transaction | planned |
| Continuations, dispatch hand-off | grants, claims on reservations | mint, redeem | reservations | single use | planned |
| Signing keys | the key ring file | stage, activate, retire, compromise | every signature | a published key verifies as long as what it signed | planned |
| Recovery witness | marker in the store, witness file | begin, intent, commit, finalize | every transaction | an older copy is never served | planned |
| Status list | a bit list | allocate, set | outbox | slots unique | data; not planned |
| PDP idempotency claims and their reservations (`pdp/idempotency-claims.ts`) | claims, reservations, counters | claim, permit, retransmit, settle, reconcile, sweep, correct | enforcement points | no budget over its limit but by a reported overspend; a possibly used permit never released; verdicts true | `PermitClaims` |
| PDP status resolver, observations, duration leases | cached statuses, watermarks, leases | read, reuse, extend | AS status, signals | an older state never replaces a newer | planned |
| Payments enforcement point (`mcp-payments`) | redeemed permits, the operation ledger, retained evidence, write reservations | redeem, commit, record, settle, reconcile | PDP claims | an effect only under an open claim; reports that agree | `PermitClaims` (the transaction tier) |
| Mission signals (`packages/mission-signals`) | the receiver's store and its recovery witness; the emitter's jobs, probes and stream status | verify and apply, resynchronize, restore; deliver, withhold, pause, attest, resume | outbox, Mission Status, consumers | no lease on skipped, older or stale state; what is attested was delivered | `SignalReceiver`, `SignalStream` |
| Resource authorization server, AAuth servers | redemptions, bindings | redeem | grants | redeemed once | planned |
| Transparency, orchestration | a log; plans | append, prove; plan | consumers | inclusion, order of unwinding | planned as operators |
| Intent shaping, templates, policies, mission-core comparisons, wire formats, evidence | none, or documents | pure functions | all | - | data, out of scope |
| Consoles, agent, demonstrations, UI, access request | none of the core's | clients | all | - | environment |

`PROJECT.json` lists every component with its status, and every hazard of the
code with the line where it bites and the properties aimed at it. Hazards with
no property yet belong to planned modules and say so.

### 1.2 How the modelled parts interact

* A lifecycle commit (any write of the kernel's one funnel, `setState`, or of
  `replaceSchedule` and `contain`) inserts an outbox event in its own
  transaction. Publication follows the commit. It may fail, and is then owed.
* The suspension scheduler is a synchronous subscriber of publication. It hears
  commits late, twice or out of order when publication failed. Its timers call
  back into the kernel through `fireSchedule`.
* The derivation gate reads the Mission and its lineage, then spends the count
  in the same transaction as the reservation. Signing happens after, across
  awaits.
* Containment narrows what the gate admits, in the Mission and down the tree.
* A lifecycle request claims its nonce in the transaction of the operation it
  asks for, and signs its response afterwards. A retransmission may find the
  claim, the bytes, or neither.
* The decision point reserves budget and issues a permit; the enforcement point
  redeems it, takes effect and reports. The two share no store: settlements may
  be lost or late, and each side may start anew without the other.
* The issuer's emitter, a subscriber of the outbox, delivers lifecycle events to
  receivers, and attests that nothing is outstanding. A receiver relies on that,
  on Mission Status reads, or on nothing.

`SuspensionScheduler` EXTENDS `MissionLifecycle` and composes with it: its
`Commit` step is any `Operation` of the records plus the publication of the
events that operation produced. `LifecycleOutbox` models the delivery machinery
in full over opaque events; the scheduler module uses the abstraction of it that
a synchronous subscriber sees (heard now, or owed and heard at some later
drain). `DerivationReservations` abstracts the lifecycle to one Boolean
(`derivable`) that changes at any moment, and `Containment` to a three-valued
standing per Mission, so each is checked against every order the lifecycle
could produce and more. `PermitClaims` holds both sides of the decision channel
in one module, because every property is about the two together.
`SignalReceiver` stands alone over a network that may do anything, and
`SignalStream` EXTENDS it with the emitter in the network's place;
`LifecycleRequests` reduces the Mission to its state and version, which others
change at any moment.

## 2. The modules

Every action is one transaction, or one uninterrupted run of the event loop.
`PROJECT.json` maps each definition to its lines.

### MissionLifecycle

`row[m]` is the stored record, `now` the clock. Recursion over children inside
one transaction (`cascadeChildren`, `projectSuspendedChildren`,
`restoreProjectedChildren`) is written in closed form: `Reach(S, m)` is the set
of descendants the walk visits when it continues only through members of `S`.
An operation runs the expiry clock first (`ApplyExpiry`) as the code does, and
the clock's writes stay even if the operation is refused.

| Action | Code |
|---|---|
| `Create` | `insertRecord`; for a child `createChildMission`, which asks for an active parent and nothing above it |
| `Supersede` | `supersedeInCallerTx`: the successor is inserted and the predecessor ended in one transaction |
| `Observe` | `materializeExpiry`: a decision that persists what it saw |
| `Suspend`, `Resume`, `End` | `transition` through the lifecycle endpoint, with its schedules |
| `Derive` | `gateActiveLineage` and the conditional count |
| `Tick` | time |

Abstracted: the content of a record, and carryover. Instants are small naturals.
The tree, its expiries and the successor relation are constants, which is how
the code has them (a row's `parent_id`, `expires_at` and `predecessor` never
change). The assumption that a child does not outlive its parent is
`resolveEffectiveExpiry`'s ceiling.

### SuspensionScheduler

Adds `armed` (the generation each timer is for), `up`, boot's remaining work
(`todo`, `bootAt`), and `owed` (committed, unpublished events). `Heard` is
`onLifecycleCommit` over a batch of events in commit order, `Fire` is `deliver`
with the early re-arm, the retry after a failed publication and the drain that
follows a commit; `Boot` and `Recover` are the deployment's start.

Choices: a timer may deliver early (the code caps a delay and re-arms). A
storage fault in a delivery leaves everything as it was and is retried, which
is a stuttering step. A schedule's own commit is the first event of its
transaction, so the scheduler hears it even when a later subscriber fails. The
order in which the other events of one transaction are heard is left open. One
event stands for each version a step gave a Mission: an operation that first
ran the expiry clock commits two.

### LifecycleOutbox

`event` and `delivery` are the tables; `pass`, `queued` and `caller` the running
pass, the one follow-up behind it, and what each `drain()` call awaits; `phase`
the process. `heard`, `received` and `covers` are history variables for the
properties. A pass selects its rows when it starts and then awaits one delivery
at a time, so commits, other drains, boot-time reconciliation and pruning fall
in between. Every disposition is guarded by what the attempt read. `unread` is
the set of stored events whose payload version the running release does not
recognize, after a rollback. Left out: the migration of legacy rows.

### DerivationReservations and DerivationBudget

`count` and `ledger` are durable; `owner` and `awaiting` are
`derivationsInFlight` and the order its awaits resume in; `caller` is what each
request is at. `Reserve` has one disjunct per outcome of `reserveDerivation`;
`Join` is `exclusiveDerivation`. `Drained` says that what awaits a settled
attempt resumes (microtasks, first in first out) before the event loop takes up
another request or the end of a signature. A row past its retention is no
longer found and never deleted, so the UNIQUE constraint refuses a late retry.

Assumed of the environment: the authority that settles an operation answers
with its final outcome, when no attempt of it is in flight. The dispatch
hand-off's own claim on its reservation is left out.

`DerivationBudget` is the abstract specification: charges, artifacts and tokens,
with no counter, ledger, retry or crash. `ImplementsBudget` in
`DerivationReservations` states the refinement: a reservation row maps to a
charge by `ChargeOf`, the artifacts are the ones delivered, the tokens are the
requests at work plus those spent. Checked by TLC and proved.

### Containment

Entries and selectors are a set of resources (one for an exact side, a tree for
a prefix) with a set of actions; a selector with no `actions` member is one with
all of them. The sets a side may name are the constant `Trees`, any two of which
are nested or disjoint (`TreesAssumption`), because a prefix ends at a path
segment. `contained` and `applied` are the committed overlay and ledger,
`draft` what a call sees inside its transaction, `call` the stack of the walk.
A removal by hand runs in one transaction: its writes reach the committed state
in `Answer`, or are rolled back by `Stop`. A protected event's `Write` commits
at once, mission by mission. The clock (`End`), a fault or the loss of the
process (`Fail`) may come between any two steps of a walk.

`standing` abstracts the record of `MissionLifecycle`: a suspended Mission is as
live as an active one for containment. Left out: nonce replay, `expected_version`
and evidence. An `event_id` is assumed to be reported against one Mission only;
a reporter that reuses one for a child and then its parent is a hazard of its
own, listed without a property.

### LifecycleRequests

`exchange[x]` is one HTTP exchange, `row` what is retained under the nonce they
all carry, `mission` the record as the operations see it, `decided` the history
of what was decided. `Claimed` is `claimInCallerTx`, `Recorded` and `Delivered`
the two halves of `record`, `Found` is `find` with its purge.

| Action | Code |
|---|---|
| `TurnAway` | refusals before deduplication: nothing is retained |
| `RefuseDivergent`, `Replay`, `Recover` | the three ways a stored row is met |
| `Execute`, `Refuse` | the operation's transaction, or its stale version or conflict |
| `EndGrant`, `Deliver`, `Fail` | after the commit: the grant's destruction, the signature and `send`, a fault in either |
| `Move`, `Crash`, `Tick` | other clients and clocks, the process, time |

`Tick` does not pass the end of a pending exchange's claim: a signature is
assumed to end within the window its claim is retained for (ten minutes by
default). Were it later, a purged and newly claimed nonce under the same request
would be finalized with the older observation. Left out: other keys (each key
has rows of its own), schedules on `suspend` with the refusal of one whose
deadline has passed, the discharge event store, and rows of earlier releases.
`contain`'s ledger of events is one flag, since the exchanges name one event.
`contain` awaits nothing between its commit and its answer; in the model other
exchanges may come in between, which no answer can tell, its bytes being the
same whoever writes them.

### PermitClaims

On the decision point's side, `claim[k]` is the row that holds a key and
`booked[r]` the reservation of an evaluation; on the enforcement point's,
`redeemed` is what this process of the permit store has redeemed, `ledger` the
effects and `records` the Execution Evidence. `req[r]` is where a request is on
either side, `sent` and `confirmed` the settlements under way and those whose
attempt the enforcement point has confirmed. `boot` and `epoch` number the
processes of the two sides, as the code's boot id and epoch do.

`Advanced` is the state machine of a row as every reading applies it: an open
permit becomes unresolved, then indeterminate at the end of its window, and a
settled one without a charge is purged after its horizon. `Evaluate`, `Persist`,
`AnswerConsumption` and `Retransmit` are `claimNow` and what follows, with its
awaits; `AskRedeemer` and `Settle` are `settle` before and after its question;
`Reconcile` is the enforcement point's reconciler; `Operator...` is the operator
who decides a held reservation, and may be wrong.

Left out: the lineage of a replaced boundary, statement generations, settlements
the decision point makes itself on a lease's extension, the tombstone of a
stored decision, duration leases, reads and reversible writes, and what policy
decides. One clock serves both sides. A deployment evaluates finitely many
requests (`FiniteAssumption`), so that a counter's total is a sum.

### SignalReceiver and SignalStream

`store` is one Mission's row of the receiver with its stream's record, `witness`
the generation its recovery witness holds, `copy` an older copy of the store.
`Relied` is what `signalReliance` allows; `view` is the version at which the
consumer last took effective authority, which `markRematerialized` must cover.
`Apply`, `Hear`, `TakeStatus` and the rest are one transaction each. In
`SignalReceiver` every committed event and every liveness event may arrive at
any time, in any order, again or never.

In `SignalStream` they arrive only as the emitter sends them. A delivery is
handed off, received and acknowledged in three steps, and may fail, or the
emitter be lost, after any of them. A verification event is signed across an
await, between `SignProbe` and `HandProbe`; `DropProbe` is the check after it.
`PauseStream` and `Resume` withhold a stream after a narrowing its consumer did
not declare.

Left out: signing and parsing, eviction of recorded identifiers (a version
decides on its own what a repeated event does), heartbeats of unknown streams,
backoff times, several streams. `containment_version` is folded into whether a
commit narrows. A commit and its delivery job are one step, the outbox in
between being modelled by its own module. The issuer caps what a Mission Status
response may be reused for at the staleness limit it advertises
(`StatusCapAssumption`).

## 3. The runs

| Run | Instance | States | Shows |
|---|---|---|---|
| `lifecycle_family` | three generations, a successor of the first; clock 0..2, versions to 4, limit 1 | 895k | type, cascade completeness, root causes, no stranded hold, one live generation; termination final, no revival past expiry |
| `child_active_under_suspended` | parent and child | violation | finding 1 |
| `scheduler_pair` | parent and child; clock 0..2, versions to 4, one failed publication, one crash | 230k | no schedule lost with cascades, holds and restores in one transaction, overdue applied before serving, every schedule eventually applied |
| `outbox_delivery` | two events, two subscribers, two requests and boot; two attempts, one fault, one crash, starts of other configurations and releases | 564k | nothing lost, dispositions final, a drain covers its caller, everything eventually settled |
| `derivations_retries` | a root and a refunding grant, three requests, limit 2, one crash | 120k | the count exact, one artifact, what is out is paid for, every caller answered, the budget implemented |
| `containment_walks` | a parent, two children, a grandchild; two protected events, two removals by hand; two resources, two actions | 378k | child within parent, narrowing only, loss justified |
| `containment_replay` | the same | violation | finding 2 |
| `claims_metered` | three requests under two keys of one operation, one counter with room for one; two starts of either side, clock 0..3 | 329k | an effect is charged, a verdict true, nothing contradicts, the limit holds |
| `claims_unmetered` | two requests under one key; two starts of either side, clock 0..5 | 431k | a permit in use has its claim, it leaves only as issued, every permit's claim closes |
| `signals_restore` | two commits, one read at a time, two agreements, two generations of the stream, one restore or crash in a write | 4.6M | no lease rests on skipped authority, or goes back |
| `stream_pauses` | an activation and a narrowing, delivered or withheld, and a second narrowing if both are withheld; clock 0..2 | 3.3M | types, what is attested is delivered, a pause outlasts reliance, staleness latched |
| `requests_retries` | three exchanges, four requests; window 1, validity 2, clock 0..3, two changes by others, one crash | 4.4M | one decision and one answer per window |

Each property of a passing run is paired in `PROJECT.json` with a mutant: a
plausible slip in a mapped definition (a dropped guard, a walk that stops a
generation early, a merge that replaces, a crash that forgets) under which the
same run finds the property violated.

### Bounds, and why they are enough

* Three generations are the least at which a walk has a middle: a mission that
  is both cascaded to and cascading from, or held under a held one. A fourth
  adds no new relation to the closed forms, which quantify over paths.
* `Horizon = 2` gives an instant before, at and after each expiry and deadline;
  the grandchild expires earlier than those above it, so both orders of the two
  expiries occur, and a deadline may fall before or at the expiry.
* `MaxVersion` bounds what operators start, never what the clock or a cascade
  does. Four versions allow suspend, replace or resume, suspend again.
* One crash is enough to be between any two steps; a second could only repeat
  boot. One fault, likewise: an event whose publication failed is heard after
  the newer ones that were published at once.
* Two events and two subscribers: the first sharing of a pass by rows of
  different events and different subscribers. Two attempts: one retry and one
  abandonment.
* Three callers: an owner, a waiter, and one that arrives while the waiter takes
  over. Limit 2 of two operations and tokens reaches the limit and leaves it.
* Three exchanges: an original, a retransmission and one that diverges or comes
  late. A retention shorter than the validity exercises the floor of the window;
  a clock of three passes one window and opens the next.
* Two requests under a key, and a third under another key of the same operation
  that charges the same counter: the least at which a budget is contended, a
  key is adopted, and an operation is asked for under two claims. Each side
  starts twice, so every message may meet the process it was not meant for.
  Validity, lease and window are one instant each, and the clock runs past their
  sum (`LastRequest + Validity + LeaseMax + Window`).
* Two commits: an activation and one change after it, which an event, a read or
  a restored copy may carry, skip or precede. Two agreements differ in how long
  silence is tolerated. `SignalStream_pauses` has one agreement (see section 5),
  and its constraint makes the later commits narrowings; a third commit comes only
  where both narrowings are withheld and nothing is attested, which is where a
  pause is extended. The receiver under arbitrary commits is the other run's.
* In `derivations_retries` no identity is anonymous, so that all three callers
  contend for identities.
* Two resources under a prefix and two actions: the least at which a removal can
  be finer than the entry in either way.

### Fairness, and what justifies it

* Scheduler: time passes, an armed timer of a running process fires, a lost
  process is started again and finishes its boot. No request is ever promised,
  so the liveness result does not lean on request-path observation.
* Outbox: requests keep coming, deliveries answer, backoffs pass, a lost process
  is started again. Requests must be assumed: nothing else than a request or a
  boot drains, as the code says. The result is conditional on the release that
  finally runs being able to read what is stored.
* Derivations: a signature ends, one way or the other, strongly fair because the
  event loop gets to it however many other requests it takes up in between;
  what is ready to resume, resumes.
* Claims: time passes, and the reconciler goes on listing the unresolved claims,
  which sweeps the file; it does so every third of the window. No report, retry
  or restart is promised.
* `CHECK_DEADLOCK FALSE` is used where the system may stop for good in the
  bounded instance, when its clock, events, requests or faults are used up.

## 4. The proofs

`tlapm` checks every proof; each theorem is about the unbounded specification,
for every tree, set of operations, limit and bound that satisfies the named
assumptions of the module. Every invariant and every action property that a
passing run checks is the conclusion of a theorem. TLC checked each inductive
invariant on the module's instance before it was proved.

**MissionLifecycle_proofs.** Invariants are stated of any table of rows rather
than of `row`, because one action passes through several tables (the expiry
clock's, then the operation's). For `TypeCorrect` and `CascadeIsComplete` the
invariant is `Typed /\ Rooted /\ CascadeComplete`. Completeness alone is not
inductive: a cascade visits only what it reaches through live missions, so the
proof has to exclude an absent mission between an ancestor and a live
descendant. That is `Rooted`: what exists has its whole lineage. The lemmas are
about the closed-form walks (`TerminateAllEffect`: what the cascade does to each
row; `LiveBelowIsReached`: every live mission below is reached), then one per
operation. The finite-chain part of `TreeAssumption` is what lets `Nearest`
choose.

`WholeInv` adds three facts, for `OriginsAreRootCauses`, `HeldChildrenAreFreed`
and `OneGenerationLives`. `Caused`: a cascaded row names an ancestor that ended
by a cause of its own, which later cascades must not rewrite. `HeldRight`: a
held child's parent is suspended, so every step that ends a suspension has to
release the hold or end the child, and it takes cascade completeness to see that
the walk gets there. `Succeeded`: a successor exists only once its predecessor
ended. `Keeps`, what any write but an insertion leaves of each row, composes over
the tables of one transaction and gives the action properties `TerminatedStays`
and `ExpiryComesFirst`; the latter needs that a child does not outlive its parent.

**SuspensionScheduler_proofs.** `RecordsStayLifecycle` is the refinement: whatever
is published late, twice or never, the records behave as `MissionLifecycle` says,
so its theorems hold here too. `SchedulesAreKept` needs to know what a generation
is: `Scheduled` (a schedule's generation is its row's version), and `Timely`,
`Timed` and `Deliveries` (no event, timer or boot delivery is of a version still to
come). Then an event heard late can neither displace the timer of a newer commit
nor stay behind as one that looks newer: `Announced` says a step's events have the
commit of every schedule it made, `MaxIs` that the scheduler keeps the newest.
`BootAppliesOverdue` needs `Recovering`: what boot has passed by is not overdue.

**LifecycleOutbox_proofs** (`OutboxTypes`, `NothingOwedIsLost`, `SettledStays`,
`DrainsCover`). `Passes` ties the running pass and the follow-up to the callers
that await them; `Owed` says a pending row has attempts left and only a pending
row waits, so an attempt that ends always finds a disposition; `Phases` separates
boot from requests, which is why reconciliation cannot overtake a caller; `Covering`
says that what was runnable when a caller came is in its pass or still runnable. The
last is what makes joining a queued follow-up, and not the running pass, sufficient.

**DerivationReservations_proofs** (`ReservationTypes`, `CountIsConserved`,
`OneArtifact`, `PaidFor`, `BudgetIsImplemented`). The count is inductive by
itself under the types: the lemmas `BooksReserved`, `BooksRefunded` and
`TokenKeeps` move the two sides together, and the decrement's own `> 0` guard
never bites because what is refunded is counted. One artifact per identity needs
`Exclusive` (who mints owns the operation, on a row that is not settled; nobody
waits for an identity made up for one call) and `Replayable` (a released row of a
named identity retains its artifact, so a later call replays instead of minting).

The refinement: initial states map to initial states, and under that invariant
every step is one step of `DerivationBudget` or none. `ChargedIsCount` equates the
abstract charge with the stored counter, which is how the conditional UPDATE on
`derivation_count` enforces the abstract limit.

**Containment_proofs** (`ContainmentTypes`, `ChildrenWithinParents`,
`LossesJustified`, `OnlyNarrows`). Between two calls `Standing` says a child is
within its parent: each entry of a live mission lies within an entry of its
parent's and lost what that one lost (`Covered`). During a call that is false, and
`Propagated` says for which missions and by what: those the walk is still to
reach, short of exactly the removal on its way to them. `Walk` describes the stack:
frames on one path down from the event's subject, each with the children still to
do, none of which has the event in its ledger. Without it a second visit could
answer from the ledger and write nothing. A mission below a protected event's walk
that was cut short is excused, which is finding 2 of section 5. `FromAbove` and
`Justified` carry `LossIsJustified`: an event reaches a ledger only from the parent's,
and a prefix that overlaps an entry below overlaps the one above it
(`TreesAssumption`). `OnlyNarrows` rests on `Grown`: a draft holds every removal that
is committed.

**LifecycleRequests_proofs** (`TypeCorrect`, `NonceDecidesOnce`,
`NonceAnswersOnce`). `OneDecision` and `OneAnswer` are about a history; what
carries them from step to step is the row. `RowIsLast`: the row retains the last
decision for its whole window, expired or not. `PendingOnRow`: an exchange that
is still signing reports what the row retains, which is where the assumption on
a signature's duration is used. `AnsweredFromRow`: what was answered in the
window of the last decision is what the row replays.

**PermitClaims_proofs** (`TypeCorrect`, `PermitsInUseAreOpen`,
`EffectsStayCharged`, `PermitsLeaveAsIssued`, `VerdictsAreTrue`,
`RecordsNeverConflict`, `CountersStayWithin`). One invariant for both sides: what
a row may hold (`RowsRight`), what a request may hold (`PermitsRight`,
`RedeemersRight`), that a usable permit's claim is open and not for less long
(`UsableOpen`), that an effect traces to the attempt that redeemed
(`LedgerRight`), that whatever says how an attempt ended, a record, a settlement
under way or a row, says one thing and the truth (`DispositionsRight`), and
which reservations are charged meanwhile (`ChargesRight`). The first four make
each other inductive, the last three lean on them.

Proofs of no redemption are true only under one more assumption,
`ReplayWindow <= LeaseMax`, which is a hypothesis of `VerdictsAreTrue` and
`RecordsNeverConflict`: a proof sent before the permit's validity ended must not
be taken after the lease is over. `ProofsRight` carries that, and `Kept` is what
every step leaves it with.

`CountersStayWithin` is about sums over sets of reservations, which the model
writes as a fold. The facts about it (`TotalWithout`, `TotalOfPart`: taking one
reservation out, and a part is no more than the whole) are proved from the fold's
recursion by the least cardinality at which they would fail, with no induction
theorem. A counter goes over its limit only in a settlement that commits what a
wrong release had freed, and that step reports it.

**SignalStream_proofs**, the receiver's part (`ReceiverTypeCorrect`,
`ReliedIsMaterialized`, `LeaseNeverGoesBack`, `StalenessIsLatched`). Parts of the
invariant are stated of any store, since a copy satisfies them too. Outside
recovery the version held is the highest ever stored (`Current`) and every
narrowing the consumer has not taken is latched (`Latched`); in recovery, a
response that would be accepted was asked for after the restore, so it is not
behind (`AnswersAreFresh`); a copy the witness is not ahead of is the store
(`CopyIsStore`), which is why replacing one by the other then goes unnoticed and
does no harm.

The stream's part (`StreamTypeCorrect`, `StreamImplementsReceiver`, `StreamLeases`,
`AttestationIsTrue`, `PausesOutlastReliance`). Every step of the stream is a step
of the receiver's network or leaves the receiver alone, so the receiver's
invariant holds over the stream too. Attestation needs more: an event processed
is stored, acknowledged or not (`JobsReached`), and whatever was signed, heard
or copied vouches only for events that reached the receiver (`Vouched`).

`PausesOutlastReliance` adds the dates: a withheld narrowing has a pause that runs
a window past it, or is a window old (`Withholdings`); a Mission Status response
is of before the commits it does not report, so it expires in time (`Dated`, with
`StatusCapAssumption`); and once the stream carries events again, either nothing
was heard for longer than the window, or everything older had arrived when the
first heartbeat made it state of an earlier generation (`Resumed`). The theorem is
stated under `OneAgreement`, for the reason section 5 gives.

### Only model-checked

The four liveness properties (`ScheduleEventuallyApplied`, `EventuallySettled`,
`CallersAnswered`, `PermitsClose`), which rest on fairness and ENABLED, and the
absence of deadlock where a run checks it.

## 5. What the runs found

Two runs exhibit a disagreement between the code and its documents;
`PROJECT.json` quotes the lines.

1. A child resumed on its own, or by its own schedule, is active and reported
   active while its parent is suspended, against the child-delegation draft's
   MUST. Derivation is refused all the same: the gate reads the lineage.
2. A protected event whose walk stopped part of the way (a fault, a lost
   process, a child expiring between the look and the call) is answered as
   applied when it is sent again, with no walk: the parent's ledger already
   holds it. The children keep what the parent lost.

Observations made while modelling, which no run exhibits:

* A scheduled suspension accepted on a child that its parent's suspension holds
  is committed (`kernel/kernel.ts:3559`), and discarded by the parent's resume
  before its deadline (`kernel/types.ts:784`).
* `commitSequence`, documented as monotonic (`kernel/lifecycle-outbox.ts:632`),
  falls when boot prunes the newest events (`:636`).
* A delivery of an event whose payload version is not recognized ends the pass
  and fails the requests that drained (`kernel/lifecycle-outbox.ts:485`), where
  the comment promises isolation (`:365`).
* An attenuation root whose mint fails in process stays counted
  (`attenuation.ts:449`), against the derivation-limits draft.
* The truth of a proof of no redemption rests on the replay window of the
  decision channel being no longer than a lease. The two are configured apart
  (`pdp/server.ts:345`, `enforcement-scope.ts:605`, taken together at
  `idempotency-claims.ts:1897`).
* If a longer `mission_max_stale_seconds` is agreed while a stream is paused,
  the pause ends before the state older than the withheld narrowing has aged out
  (`mission-signals/src/index.ts:2389`). `ResumedMeansAged` is therefore checked
  and proved for one agreement: emitter and consumer are taken to change it
  together, outside a pause.
* If destroying the OAuth grant fails after a committed revocation
  (`adapters/provider.ts:5916`), the retransmission replays the success from the
  retained row and nothing destroys the grant. Derivation stays gated on the
  Mission's state; the comment there promises that refresh fails structurally,
  "not just by gating".
* A held child that is terminated keeps its `projected_from`
  (`kernel/kernel.ts:5741`), which `kernel/types.ts:781` calls present only
  while held. Nothing reads it on a terminated row.

## 6. The plan

Done, in this order: the records, because everything else reads them; the
scheduler, composed with them; the outbox they all commit through; the
derivation counter and ledger with its abstract budget; containment; the claims
of the decision point with the enforcement point that redeems them; the signal
receiver, and the stream to it as an implementation of its network; the
lifecycle endpoint's retries.

Next, in order of how much depends on them:

1. **Discharge**, on the walk of `Containment`, with its event store; creation
   idempotency, the nonce of `LifecycleRequests` over `insertRecord`.
2. **Recovery witness** of the issuer: intent, commit, finalize and restored
   copies, as `SignalReceiver` has them for its own store.
3. **Deferred approvals**, expansion deferrals and the **transaction workflow**:
   decisions awaited while the Mission moves, redeemed once.
4. **PDP status resolver** and duration leases; the reversible writes of the
   enforcement point and their reservations.
5. The key ring; continuations; the resource authorization server.

Not planned: policy evaluation, intent shaping, canonicalization, signatures and
formats (pure functions of their input with no step to interleave), consoles and
demonstrations.

## 7. Running

    tlc -workers 2 -config MissionLifecycle_family.cfg MCMissionLifecycle.tla
    tlapm MissionLifecycle_proofs.tla

Configurations are named `<Module>_<question>.cfg` and run with `MC<Module>.tla`.
