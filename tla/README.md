# Noesis: specifications, model checking and proofs

Noesis runs autonomous agents ("Nous") in persistent worlds ("Grids").  A
**Grid** (TypeScript, `src/grid`) is one process: a clock, a hash-chained audit
log mirrored to MySQL, registries, a civic economy, governance and an HTTP and
WebSocket API.  Each Nous is driven by a **Brain** (Python, `src/brain`) that
polls and posts to its Grid over an unreliable network.  Land sales and labor
escrow are also **contracts** (Solidity, `src/contracts`) the Grid signs for.  A
separate package, the **Society Protocol** (`src/protocol`), lets peers share
knowledge and work in chains of collaboration over gossip, without a server.  A
**dashboard** (`src/dashboard`) follows the audit chain of a Grid over a
WebSocket.

This directory holds TLA+ modules that model the parts of that system where the
order of events decides what is right, the TLC configurations that check them on
small instances, and proofs of their most important properties for every
instance, checked with TLAPS.  Every definition is translated from the source;
`PROJECT.json` maps it to the lines it stands for.

    tlc -config MCGovernance.cfg MCGovernance      # model-check a run
    tlapm AuditPersistenceProofs.tla               # check the proofs of a module

## 1. The system

| Component | State it keeps | Operations | Interacts with | What is hard | What makes it correct |
|---|---|---|---|---|---|
| Audit chain, `audit/chain.ts`, `db/persistent-chain.ts`, `db/audit-reconcile.ts` | entries, head hash, next id; table `audit_trail` | append, fire-and-forget INSERT, reconcile every 60 ticks, snapshot at stop, load at boot | everything appends to it | statements out of order or failing, overlapping cycles, restarts over gaps | rows are what the chain held, no silent loss, no fork, the newest entry gets stored |
| Governance, `governance/`, `api/governance/` | proposals, ballots | open, commit, reveal, tally at a tick | audit chain, registry, clock | handlers cut at awaits, un-awaited scans, ticks claimed by clients, exceptions in a tally | one ballot per voter, unchangeable; one tally, borne out by the chain; every proposal that survives its process tallied |
| Labor escrow contract, `contracts/src/LaborEscrow.sol` | jobs, balance | fund, attest, finalize, dispute, resolve, refund | oracle signatures from the Grid | replayable signatures, time windows, pushed payments | solvent, paid for cause, all of a deposit leaves once |
| Marketplace, `marketplace/`, `api/routes/market.ts` | listings, bids, escrow, disputes | list, bid, accept, reject, confirm, settle, dispute, timeout sweep | wei ledger, treasury, police, audit chain, clock | requests race each other and the sweep, statements fail one by one, the clock restarts at 0 | wei conserved, one deal, one verdict, escrow as promised, nothing held for ever |
| Brain wire, `wire/client.py`, `wire/queue.py`, `api/routes/brain-wire.ts` | SQLite queue of the Brain; ingest table and runner index of the Grid | post actions, queue, replay; live and batch route | runners of the Grid | lost requests and replies, requests overtaken by their repetition, restarts of either side | nothing deleted unhandled, nothing replayed twice, the queue drains |
| Wei ledger and treasury, `economy/` | balances | transfer, charge, grant, endow | marketplace, dues, upkeep | concurrent debits | no balance negative, no wei made or lost |
| Police and court, `police/`, `api/routes/police.ts` | investigations, charges, sanctions, appeals | open, charge, convict, execute, appeal, resolve | marketplace disputes, presence | status read before and used after an await; an UPDATE that changes nothing | no sanction or freeze without a conviction |
| Presence, `civic-presence/` | presence rows, sockets, grace timers, message queue | connect, heartbeat, grace timer, escalate | Brain, runners, police | escalation scan races heartbeats and the court, crash between two updates | who is departed is frozen, a year of silence is noticed |
| Parcels and upkeep, `civic/`, `api/routes/civic-parcels.ts` | registry in memory: owner, missed periods, tick of the last upkeep; table `civic_parcels` | purchase, release, upkeep scan at every tick, reclaim, load at boot | wei ledger, governance (rate), clock | owner before payment and row after it, overlapping scans that work on copies, restarts | who owns has paid, a sale is kept, who stops paying loses the land |
| Procurement and labor rows, `economy/procurement-store.ts`, `labor-escrow-store.ts` | tenders, bids, escrow rows | open, bid, award, release | contract, ledger | two stores of one fact | the rows implement an escrow |
| Dues, endowments, groups, `economy/` | assessments, endowments | periodic assessment | ledger, clock | period key after a restart | each period assessed once |
| Firehose, `api/ws-hub.ts`, `dashboard/src/lib/transport` | ring buffer per client; last id seen, the last 500 entries shown | attach, subscribe, replay, push, drain, backfill | audit chain | backpressure, replay racing live frames, reconnection, a chain shorter than its ids | nothing owed is dropped silently, memory is bounded, a quiet page is caught up |
| Knowledge pool, `protocol/src/knowledge.ts` | one copy of each card per peer, vector clock, hybrid clock | create, edit, delete, confirm, send, merge | gossip rooms | copies lost, repeated, overtaken; concurrent changes | a merge loses no confirmation and undoes nothing |
| Chains of collaboration, `protocol/src/coc.ts` | plan in memory; steps, leases and status in SQLite; replay cache | open, plan, assign, submit, review, cancel, merge, close, expire | gossip rooms | messages in any order, leases racing results, crash between two rows | leases agree with steps, no step is held for ever |
| Whisper, dialogue, relationships | in-memory queues and scores | route, aggregate | audit chain | mostly synchronous | - |
| Registry, clock, launcher, boot | Nous records, tick, timers | tombstone, tick, start and stop | all | what is awaited and what is not; what survives | - |
| Brain cognition, dashboard pages, CLI, SDK, other contracts, rest of the protocol package | - | - | - | no protocol between processes but the ones above, or single calls | - |

Three facts of the Grid's code shape its models.  A handler in Node runs alone until
it awaits, so a model cuts it there and nowhere else.  `WorldClock` callbacks and
timers start asynchronous work they do not await (`genesis/launcher.ts:502-560`
and `633-646`), so the work of one tick may still be going on at the next.  After
a restart the clock starts again at tick 0 while the tables keep the ticks of the
old process.

The hazards this gives rise to are listed in `PROJECT.json`, each at its line
with the properties that cover it.

## 2. Modules

| Module | Models | Composed with |
|---|---|---|
| `AuditPersistence` | audit chain, MySQL mirror, reconcile, stop, crash, boot | - |
| `AuditPersistenceProofs` | its theorems | extends `AuditPersistence` |
| `Governance` | commit-reveal voting on both stores, tally, restart | - |
| `GovernanceProofs` | its theorems | extends `Governance` |
| `Escrow` | abstract: what an escrow promises | implemented by the two below |
| `LaborEscrow` | the contract, signatures, time | instantiates `Escrow` |
| `Marketplace` | market store, routes, sweep, restart | instantiates `Escrow` |
| `Sums` | facts about `SumFunction` of the community modules | - |
| `LaborEscrowProofs` | theorems, the refinement included | extends `LaborEscrow`, `Sums` |
| `MarketplaceProofs` | theorems, the refinement included | extends `Marketplace`, `Sums` |
| `BrainWire` | Brain client and queue, network, Grid routes | - |
| `Firehose` | hub, socket, dashboard client and backfill | - |
| `StreamProofs` | theorems about the two streams that leave the Grid | extends `BrainWire`, `Firehose` |
| `Knowledge` | replicas of a knowledge card and their merge | - |
| `Collaboration` | a chain of collaboration at several peers, its leases | - |
| `SocietyProofs` | theorems about the two protocols of the Society | extends `Knowledge`, `Collaboration` |
| `Parcels` | purchases, upkeep scans and reclaims of land, in memory and in the table | - |
| `Standing` | presence, escalation, police and court over one citizen's row | - |
| `CivicProofs` | theorems about a citizen's land and standing | extends `Parcels`, `Standing` |
| `MC*` | values of the constants for TLC | extend one module each |

`StreamProofs`, `SocietyProofs` and `CivicProofs` extend two components each.  The
two share no state; to stand beside another in one module, `Firehose`,
`Collaboration` and `Standing` name their specification `HubSpec`, `ChainSpec` and
`StandingSpec`, made of `HubInit`, `HubNext` and so on.

Definitions whose comment begins with "Mutant:" are not part of a model: each is
a plausible mistake in the code, kept beside the definition it would replace, and
breaks the property `PROJECT.json` names for it.

### AuditPersistence

`entries`, `lastHash` and `nextId` are the fields of `AuditChain`; `rows` is
`audit_trail`.  `AppendEvent` is the synchronous append and the INSERT it sends
(`inflight`); `Commit`, `Reject` and `Resolve` are the fate of the statement and
of its promise, which may come in any order and, for `Reject`, after the row was
written.  A reconcile cycle is cut at its awaits: `CycleQuery` (SELECT MAX(id)),
`CycleRead` (divergence and the batch), one `CycleReplay` per entry.
`StopBegin`, `SnapshotWrite`, `StopEnd` and `Exit` are the graceful stop, during
which the clock still appends; `Crash` forgets all but `rows`; `Boot` loads the
rows by ascending id.  A hash is the sequence of events it covers.  Assumed:
statements of a dead process have been executed or dropped before the next one
reads the table, and SHA-256 has no collisions.

### Governance

`proposals` and `ballots` are the two tables, `log` the events of a proposal in
the audit chain, `handler` and `scan` the local state of HTTP requests and of
`onTickClosed`.  With the SQL store ("mysql") any other handler may run at an
await; with the in-memory store ("memory", what `launcher.ts` builds) an await is
a microtask and `MayStart` lets a handler finish before another starts.
`EmitTalliedThrows` is the tally of a passed proposal whose body is no law: the
promise rejects unhandled, and the process ends with whatever its scan had left to
do.  In memory the open proposals are gone with it, and so are their tallies
(`launcher.ts:516-517` calls missed tallies non-recoverable); with SQL the tables
survive, and a scan of a later tick finds what was left.  A commit hash is the record
it hashes.  `tally.ts:79` computes the quorum in floating point: where the percentage
of the registry's size is an integer the product may lie above it, and the ceiling is
one too high (28% of 25, 14% of 50 and 7% of 100 Nous ask for 8 votes).  `Overshoot`
is the set of percentages at which that happens, any set of percentages with an
integer product; no other case differs (compared numerically for all percentages and
up to 3000 Nous), and the comparison with the supermajority is exact.  At the
registry sizes of the runs it is empty.

### Escrow, LaborEscrow, Marketplace

`Escrow` is the promise: a deposit is taken once and leaves once, all of it, to
the worker less a fee, or back to the payer.  `LaborEscrow` has one action per
external function of the contract; a signature is a bearer token that exists from
`Sign` on and may be used by anyone, any number of times; a reverting call is no
step.  An account in `Rejecting` refuses ether, and `_release` to it reverts.

`Marketplace` cuts each route at its awaits.  A transaction of
`MarketplaceStore` locks its rows with FOR UPDATE and is one step.
`confirm-settlement` is `Confirm`, `ReadRate`, `Settle`, `EmitSettled`, `Skim`;
the sweep is `SweepList` and, per item, `SweepDispute`, `SweepEmit`,
`SweepPolice`.  `RequestFails` and `SweepItemFails` end a request or an item at
any statement, `Crash` loses them all and sets the clock to 0; `cut` remembers the
listings whose dispute was committed by what failed, and whose event or investigation
nothing will write any more.  `ReportDispute` is `POST /police/investigate`, by which
any citizen may have a dispute investigated, again and again; so a dispute is not
investigated once but at least once, and what becomes of an investigation is not
modelled.  Events of the audit chain are counted for settlement, tax and dispute only; the ones for
listings, bids and accepts, and revenue statistics, are left out.  `Return` of
`Escrow` has no counterpart: the code never writes the status "refunded", an
escrow frozen by a dispute stays frozen.

### BrainWire

An event is an idempotency key.  `Post` is `post_actions` up to its request;
`LiveAccepted`, `LiveFailed`, `LiveRefused` and `LiveTimesOut` are what the
client makes of the answer; `queue` is `wire_queue` by row id; `drain` is the one
`_maybe_replay` the lock admits.  On the Grid, `Route` looks up the runner,
`ExecuteLive` runs the actions of a post one by one, and the batch route is
`Probe` (INSERT IGNORE) then `Dispatch` per event.  `LeftOf` says what a request
may still do after its client has given up.  `Stores` chooses whether the Grid
has a `BrainEventIngestStore`: the route supports both, and `main.ts` builds
none.  `GridCrash` empties the index from Civic-DID to runner, which only the
issuance of a DID fills (`bound`).  `cut` remembers events whose replay failed
after their key was stored, or whose dispatch threw: the code drops them.  Two
simplifications: `executeActions` of one action is one step, and the queueing of a
post is one step, as it has no await (a Brain that dies half way leaves what a
post of fewer actions would; SQLite runs in autocommit mode).

### Standing

One citizen: the row that presence tracking and the police both write
(`presence`, `frozen`, `seen`), the sockets and the grace timer of the presence
service, and the tables of the court (`escalation` is where the daily scan
stands).  Each SQL statement is a step of its own,
so a request is cut at every await: `ExecuteRead`, `ExecuteFreeze`,
`ExecuteRecord`, `ExecuteMark` are execute-sanction, `JudgeRead`, `JudgeResolve`,
`JudgeUnfreeze` the resolution of an appeal, `ListDeparted` to `MarkAbsent` the
daily escalation.  A write that was issued (`away`, `beats`) lands at some later
moment.  `tracked` is whether the Grid has a presence service; where it has, the
gate of `requireDid` turns a frozen citizen away before any route of the citizen
runs.  `TimePasses` stands for thirty days and a year: nothing is under way that
long.  `presumed` remembers that an escalation took place.

### Firehose

`chain` is the audit chain by id, an entry being whether its type is allowlisted, or
that it was lost before the boot: the Grid may have loaded a chain with holes, as
`AuditPersistence` leaves them.  `LastId` is then above `Length` (`audit.length`), and
the hub compares the latter with ids.  `hub` is the `ClientConnection` of the page;
`stream` what was sent on the connection, of which the page has read `socket.read`
frames and the socket of the Grid still holds the last `socket.held`, its
`bufferedAmount`.  `AppendEntry` is the synchronous `onAuditEvent`, `TryDrain` the
microtask it queues (nothing else runs before it), `Subscribe` the replay.  `Receive`
is what the page does with a frame, `RefillAnswered` and `RefillFails` the end of a
backfill.  `page.shown` is the store of the page by arrival: it drops the first of more
than `PageCapacity` entries and knows duplicates among what it still has; an entry a
backfill has brought has no id (`Copy`).  `page.gone` remembers what was pushed out.
Bytes are counted in frames.  Left out are filters, the second hub for operators, pongs
and further subscribe messages on a connection (`ws-hub.ts:235-236`; both skip the
watermark, the page sends neither), and a restart of the Grid under an open page.

### Knowledge

`copy` is the card as each pool has it, `sent` the serialised copies in the
network, each of which may arrive anywhere, any number of times, at any later
moment.  A card keeps what `mergeCard` reads: vector clock, hybrid logical clock,
tombstone, verifications, and an edit number for its content.  A pool writes
every change to SQLite before it returns, so a restart is no event.

### Collaboration

Per peer: `active`, the chain in memory; `chain`, `step` and `lease`, the rows in
SQLite; `seen`, the replay cache.  `Handle` is the engine's handler of one
message: `Send` applies it and publishes it, `Receive` applies one that another
peer published, in any order, once.  `Evaluate` is `evaluateChain`, which closes
a chain that failed or timed out and publishes that.  `ExpireLease` is the lease
monitor, three cases of one handler.  `Restart`, `CrashReceiving`, `CrashSending`
and `CrashExpiring` kill the process between two handlers or between two writes
of one; `torn` remembers the steps such a crash left half written, and a later
handler that writes both rows heals.

### Parcels

`owner` and `missed` are `ownerDid` and `missedPeriods` of the registry, `row` is
`civic_parcels`.  A purchase is `Buy` (the registry's `purchase`, which stamps the
owner before anything is paid), then the charge with its three outcomes
(`BuyCharge`, `BuyRefused`, and `BuyReplyLost`, where the money moved and the route
believes it did not), then `BuyRelease` or `BuyPersist`.  A scan is started by
`TickClosed` with copies of the parcels that are due and is cut at its awaits:
`UpkeepCharge`, `UpkeepSettle` or `UpkeepAdvance`, `UpkeepPersist`.  The code tests
`tick - lastUpkeepTick` against the period; `wait` is what is left of that
difference, so that the model can stop `tick` at a bound while time goes on, and a
restart, which sets the clock to 0 under rows with the ticks of the old process,
makes it long.  Nothing but a restart sets `wait`, because nothing in the code but
`hydrate` sets `lastUpkeepTick` of the registry.  Balances are left out: a charge
may succeed or be refused at any time, which is what wages and sales elsewhere in
the economy make of it.  `paid` and `sold` are histories.  The condition of a parcel
(worn, derelict) follows from `missed`; structures, roles, shops and entry policies
change no owner.

## 3. What the runs check

| Run | Instance | Question and answer |
|---|---|---|
| `audit` | 1 kind of event, 2 cycles, 3 ids, 1 fault, 1 crash, batch 1 | The mirror tells the truth, losses leave an error, the chain breaks only at gaps, a snapshot repairs holes, the newest entry gets stored. |
| `governance` | 2 DIDs (one not registered), 1 proposal, 1 handler, 2 scans, quorum 50/super 67 and 51/50, laws and non-laws, 2 ticks, in memory | One ballot per voter, reveals open commits, tallies follow from the log, one tally. |
| `governance_sql` | 1 DID, 2 proposals whose tally throws, 2 handlers, 1 scan, SQL | The primary key keeps one ballot per voter when two commits interleave; a due proposal is tallied although the scan it was in ended at another. |
| `labor_escrow` | 2 jobs, 2 accounts, one rejecting, 99 wei, fee 2%, window 2, time to 4 | Solvent, settles for cause, implements `Escrow`, funds are not stuck. |
| `marketplace` | 1 listing, 2 bids, 2 requests, 1 sweep, 2 offers, a legal and an illegal rate, 1 report, 1 fault | Wei conserved, one deal, one verdict, disputes reach the police unless a failure cut off their own request, implements `Escrow`, nothing held for ever. |
| `brain_wire` | 3 events in posts of one and two, 2 requests, queue of 2, batch of 2, 2 faults, with and without ingest table | Rows are deleted for handled events only, no second replay, the queue drains while the runner is bound. |
| `knowledge` | 3 peers, clocks to 1, 1 edit, 1 confirmation per peer, 2 different copies sent | A stale copy has no confirmation the other lacks, verified takes two verifiers, clocks and deletions are not undone. |
| `collaboration` | 2 peers, 2 steps, 1 worker, 1 handoff, 2 commands, 1 crash | Leases agree with steps in any order of messages, a finished chain stalls in two ways only, a silent worker loses its step. |
| `standing` | 1 charge, 2 executions and 1 resolution at a time, 2 sockets, 1 crash, with and without tracking | No sanction and no freeze without cause, who is departed is frozen, a year of silence is noticed. |
| `firehose` | buffer of 2, watermark 2, window 3, page of 3, 6 ids of which up to 3 loaded with holes, 2 connections | No entry owed is dropped silently, memory is bounded, a quiet page shows what it is owed or, being full, has pushed it out. |
| `parcels` | 1 parcel, 2 buyers, 1 request, 2 scans, rates 0 and 2%, period 2, 1 fault | An owner has paid, a sale that was answered is kept, nobody keeps land for ever without paying. |
| `parcels_upkeep` | the same, 1 scan, ticks to 3 | Violated: an upkeep is charged again although its period is not over. |

A run that expects a violation checks a sentence of the repository's documents or
comments against the code; `findings` in `PROJECT.json` quotes it.

**Known divergences.**  The modules state further sentences of the repository
that the code does not keep.  No run of the project is spent on them; listing the
formula under INVARIANTS (PROPERTIES where marked *) of the configuration named
gives the counterexample.

| Formula | Configuration | What is said, and what happens |
|---|---|---|
| `NoEntryIsLost`* | `MCAuditPersistence.cfg` | 31-CONTEXT.md:9 has every entry mirrored within seconds.  Reconciliation replays above MAX(id) only: an entry whose INSERT failed below a stored one is not written while the Grid runs. |
| `NoBallotAfterTally` | `MCGovernance.cfg` | 12-CONTEXT.md:32 calls the deadline the last tick for either action.  The commit route compares it with a tick from the request body, the reveal route with nothing. |
| `PassedTriggersLaw` | `MCGovernance.cfg` | 12-CONTEXT.md:40: on passed, the Grid immediately emits law.triggered.  A body that is no law in JSON makes the tally throw after it was recorded. |
| `SettlementIsTaxed` | `MCMarketplace.cfg` with `Offer = {1}` | market.ts:402-404: the minimum price ensures a fee of at least 1.  It bounds the asked price; the offer that is paid may be 1 wei, its fee 0, and the tax event throws after the settlement. |
| `ConfirmedIsNotDisputed`* | `MCMarketplace.cfg` | 44-CONTEXT.md:32: a dispute is fired if both confirmations do not arrive.  The sweep does not look at them and may dispute a trade both have confirmed. |
| `SanctionsAreAppealable` | `MCStanding.cfg` | 2026-06-25-phase-47-police-v3.md:4: all sanctions appealable.  The route of the appeal is behind the gate that turns a frozen citizen away. |
| `ExecutedAsDecided` | `MCBrainWire.cfg` | 38-03-PLAN.md:73: idempotency keys make delivery exactly-once at the chain.  The live route records no key: a post whose reply was lost is queued, replayed and executed again. |
| `ReplayIsComplete` | `MCFirehose.cfg` | ws-client.ts:4-6: the server replays what was missed or emits `dropped`.  The hub takes the length of the chain for its last id (ws-hub.ts:320); after a boot over a hole the newest entries are neither sent nor announced.  Without holes the sentence is a theorem (`WholeChainIsReplayed`). |
| `RefillClosesGap`* | `MCFirehose.cfg` | refill.ts:4-7: the refill closes the gap by paginating between (sinceId, latestId].  The route reads `limit` only and returns the newest entries, so a gap below them stays. |
| `ReclaimedIsForSale` | `MCParcels.cfg` | parcel-registry.ts:343-344: the ladder resets on the now-treasury parcel for resale.  In memory its owner becomes the treasury's DID, and `purchase` sells only what has no owner, so the parcel is not for sale until a restart. |
| `ReclaimedFromDefaulter`* | `MCParcels.cfg` | upkeep-scanner.ts:16-18: on insufficient balance the ladder of the parcel advances and its reclaim is announced.  The ladder is the one of the parcel as it is now, the charge and the event name the owner in the copy of the scan: after a release and a new sale the wrong owner is charged and named. |
| `EqualClocksAgree` | `MCKnowledge.cfg` with `MaxSent = 3` | crdt-properties.test.ts:365: nodes with random merge order converge to the same state.  Concurrent editing and confirming give two peers equal vector clocks after different merges, and `mergeCard` discards equals. |
| `ClaimedIsReset` | `MCCollaboration.cfg` | storage.ts:2168: claiming a lease marks it notified and resets the step in a single transaction.  The transaction marks it only; a crash before the reset leaves an assigned step nobody watches. |

**Bounds.**  Each hazard takes few actors: two statements out of order, two
cycles or two scans that overlap, two requests on one row, one fault and one
crash.  Three ids are the fewest that have a hole, a row above it and an append
after a restart over it.  Proposals share only the
registry and the scan: one is enough for the ballots, and `governance_sql` has two, for
a scan that ends at the first of them.  Its log of two lets a reveal overtake the event of
its commit and a tally both; overlapping SQL scans are not in it, as the SQL store is
not asked for `TalliedOnce`.  One listing with two
bids has every race of the marketplace but the order of a sweep's items; two listings
with one request were run as well and agree.  One sweep: that sweeps overlap is left
to the theorems, which hold for any number.  99
wei do not divide by the fee.  Two jobs show that one is not paid with the ether
of the other.  A queue of two with posts of two evicts rows whose batch is under
way.  Two faults on the wire give a lost reply and then a lost batch reply or a
crash; three faults, and two tasks with three requests, were run as well and
agree.  Three peers are the fewest at which a copy overtakes another through a
third.  Two peers and two steps let a result, a cancellation and an expired lease
arrive in either order, and a chain be done in one step and not in the other.
Two executions of one charge overlap with the verdict.  A ring buffer of two
evicts twice, so that the announced range is widened, and still sends the rest;
two connections show what a page owes to the first; three ids at boot have a hole
below a stored one, and a page of three is as large as the replay window, from which
live entries push entries out (in the code it is smaller, 500 of 512).  One parcel, two buyers and
two scans are the fewest in which land changes hands under a scan that began
before; two requests with two faults, and two parcels with one scan, were run as
well and agree.  A price of 50 makes the upkeep 1 at the founding rate and 0 when
the law is amended.  Bounds appear in guards
under the names `MaxId`, `MaxFaults`, `MaxReports`, `MaxLoaded`,
`MaxCrashes`, `MaxTick`, `MaxLog`, `MaxJobs`, `MaxTime`,
`MaxEntries`, `MaxConnects`, `MaxEdits`, `MaxCount`, `MaxSent`, `MaxHandoffs` (3 in
the code), `MaxCommands`, `MaxConnections`, `MaxWrites`, `MaxSanctions`; the
counters of `BrainWire` stop at 2, which tells "once" from "more".

**Deadlock.**  `Marketplace`, `Knowledge`, `Collaboration`, `Standing` and
`Firehose` say CHECK_DEADLOCK FALSE: these systems come to rest when nobody asks
anything of them and the bounds are used up.  In the others something can always
happen.

## 4. Fairness

Liveness is asked under the fairness the scheduling gives.  A statement the
database has accepted ends (with success or an error), a promise that is settled
is handled, an asynchronous function goes on after its await: weak fairness on
`Statement`, `Continue`, `Tallying`, `Sweeping`, `Handling`, `Returning`.  The
clock ticks and its timers start cycles, scans and sweeps: weak fairness, except
for `TickClosed`, which is strong, because in memory it is disabled while a
handler is between two microtasks and a stream of requests must not starve it (a
timer in Node is not starved by handlers that each end).  `DueGetsTallied` is asked of
the SQL store only: a tally that throws ends the process, and in memory the open
proposals with it.  It says that the proposal is marked tallied; its event may be
missing, as the statement that marks it comes first.  In `BrainWire` the
Brain keeps acting (weak fairness on `Posting`), since replay is started only by
a post that succeeds.  In `LaborEscrow` blocks are mined, the Grid's relayer
finalizes and a payer takes back what is its own.  In `Standing` the daily scan
runs and its queries come back (weak fairness on `Escalation`); in `Collaboration` the
lease monitor looks every ten seconds (weak fairness on `ExpireLease`), and a
lease whose time has not come has one that will.  In `Parcels` the clock ticks, and
scans and requests that wait for a statement go on (weak fairness on `TickClosed`,
`Upkeep`, `Buying`).  No message is ever forced to
arrive.  `Knowledge` and `Firehose` assume no fairness.  Nobody is ever forced to vote,
bid, confirm, dispute, sign, fail or crash.

## 5. What is proved

The theorems hold for all values of the constants that satisfy the assumption of
the module (`ConstantsAssumption`: bounds are naturals, a fee is at most 100%,
and the like).

**AuditPersistenceProofs**: `TypeCorrect`, `MirrorIsFaithful`
(`RowsMirrorChain`), `NoSilentLoss` (`LossLeavesError`), `WatermarkSound`
(`WatermarkIsStored`), `ChainBrokenOnlyAtGap` (`BrokenOnlyAtGap`),
`SnapshotRepairs` (`SnapshotRepairsHoles`).  None of the properties is inductive.
`IInv` adds `Provenance` (whatever is in flight, to be replayed or to be
snapshotted is an entry of the chain, so only what the chain holds can be
stored), `AckedIsStored`, and about the chain that ids ascend, that the head
continues the last entry, and that *neighbouring* ids are linked.  The last is
stated for the rows too: it is what a crash leaves and `Boot` needs to establish
the chain again from a table with gaps.

**GovernanceProofs**: `TypeCorrect`, `OneBallot` (`OneBallotPerVoter`),
`RevealOpens` (`RevealOpensCommit`), `Tallied` (`TalliedOnce`), `TallyIsReproducible`
(`TallyMatchesLog`).  `IInv` is `Types`, `Alone` (in memory one request or scan is in
progress at a time), `ScansSound` (a scan has only proposals that exist left to do),
`Ballots` and `Tallies`.  `Ballots` relates three places a ballot can be in: the
table, the event about to be emitted, and the chain.  On the SQL store the primary
key keeps the table to one ballot per voter and each commit that inserted emits
once; in memory the guard and the insert are not separated, because of `Alone`.
`Tallies` says that an open proposal has no tally in the chain, and that a scan
holds open proposals only, except the one it has just written.

That a tally can be recomputed from the chain needs `Counts` on top: in memory a
choice is in the table exactly if it is in the chain or about to be
(`ChoicesShown`); a scan that tallies works on what the chain shows, and the result
it carries is the written rule applied to it (`ScansCounted`); every tally in the
chain was right where it stands (`TalliesRight`), and stays so because the chain
only grows.  The rest is arithmetic: the tally compares the turnout with a
percentage that is rounded up and asks for a vote for or against, the written rule
compares products and asks for a vote in favour.  The two agree for all percentages from 1 to
100, except that at a percentage in `Overshoot` a turnout that meets the quorum to the
vote fails it (`QuorumRounded`, `MajorityNeedsYes`, `OutcomeRuled`).  What the theorem
takes from floating point is `OvershootAssumption`: the threshold is never too low, and
one too high only where the exact product is an integer.

**Sums**: `SumChange` (two functions that differ at one element have sums that
differ by as much), `SumConstant` and `SumZero`.  `SumFunction` folds a recursive
function over subsets; that it satisfies its equation, and what it adds up to, is
shown by minimal counterexamples: the strict subset order on finite sets is well
founded (`FS_StrictSubsetOrderingWellFounded` with `WFMin`), which takes no operator
as a parameter.

**LaborEscrowProofs**: `TypeCorrect`, `SettlesForCause` (`SettledForCause`),
`WindowIsOpenedOnce` (`WindowOpensOnce`), `Implements` (`ImplementsEscrow`, the
refinement), `StaysSolvent` (`Solvent`).  `IInv` adds `Bookkeeping`: a window is open
exactly from the attestation on, an attested job has its signature, and nothing was
sent for an unsettled one.  It is stated per job (`Sound`), so that a call on one job
is one obligation about that job.  `Solvent` is inductive relative to it: a call
touches one job, so the sum of what is owed moves by what that job is owed before
and after (`SumChange`), and the balance by the same.

**MarketplaceProofs**: `TypeCorrect`, `DealsAreOne` (`OneDeal`), `VerdictsAreOne`
(`OneVerdict`), `DisputesReachPolice` (`DisputeReachesPolice`), `MoneyIsConserved`
(`Conserved`), `Implements` (`ImplementsEscrow`).  `IInv` is `Types`, `OneDeal` and, for
each listing, `Trial`: what the tables say of the trade (`Verdict`), that at most one
request is between the settlement and its event and at most one request or sweep
between the dispute and its last record (`Alone`), and what each of them will find
when it goes on (`Duties`); a dispute that lacks a record is either the duty of one of
them or in `cut`.  Types and deals need each other: a settlement writes a
listing only because an escrow has one.  `Apart` says when a step leaves a trial
alone, so that an action is one obligation about its own listing.  Fees and taxes
are parts of the amount (`ShareIsPart`), which is why no balance becomes negative.
`MoneyMoves` says that money moves in three actions only; in each of them two of the
three places where wei can be change by the same, because an accepted bid finds no
escrow to overwrite (`OneDeal`) and a fee is a part of what it is taken from.
Besides `ConstantsAssumption` this needs that there are finitely many accounts and
listings (`FinitenessAssumption`).

**StreamProofs**, on the wire: `WireTypesCorrect`, `ReplayedAtMostOnce`
(`ReplayedOnce`), `AckedMeansHandled` (`AckedWasHandled`).  A request between its probe
and its dispatch holds the right to replay its event; `IInv` says that the right is
held by one request at a time, for a key that is in the table, and only before the
first replay.  That a row is acknowledged only when its event was dealt with needs
`WireInv`: while a batch is under way its rows still hold the events they were sent
with (or are gone: row ids are not used again), and an event of the batch that was
not dealt with is still to come at the request that carries the batch
(`BatchIsCarried`); and a key in the ingest table belongs to an event that was dealt
with, executed or cut off, or is about to be.  What posting does to the queue is a
fold of `Enqueue` over the post; it is replaced by a recursive function of the number
of events queued so far (`EnqueueAllIs`), whose existence is shown by a least
counterexample among the naturals (`LeastNat`).

On the event stream: `HubTypesCorrect`, `GapsAreAnnounced` (`NoSilentGap`),
`WholeChainIsReplayed` (`ReplayIsComplete` as long as the chain has no hole),
`MemoryIsBounded` (`HeldIsBounded`), `QuietShowsAll` (`QuietIsCaughtUp`).  The handlers of
the hub compose pushes, drains and sends; each is shown once to turn a link into one
that covers no less (`Covers`: an entry was sent or announced, or is kept in the
buffer or in the range to announce) and grows by no more than it may.  `NoSilentGap` is
then inductive with the types.  `HeldSmall` says how far above the watermark the
socket of the Grid may get in each phase of a connection, `ReadIsShown` that the page
has had every event it has read (`Has`), and `Orderly` that a page has pushed
entries out only if it is full.  Holes are as old as the boot, so that what a
connection is owed does not shrink by appends (`MissingIs`, `GapsStay`).

**SocietyProofs**, on knowledge: `TypeCorrect`, `ClocksAreSound` (`OwnClockLeads`),
`DiscardLosesNothing` (`StaleHasNothingNew`), `VerifiedIsEarned` (`VerifiedByTwo`),
`NothingIsUndone` (`ForwardOnly`).  The invariant beyond these is `Explained`: a
verification is in the copies whose vector clock covers the count it was made at,
and in no other, so that comparing clocks compares the verifications.

On chains of collaboration: `ChainTypesCorrect`, `LeasesAreKept` (`LeasesMatchSteps`),
`StallsAreExcused` (`OnlyTwoWaysToStall`).  The three are inductive together
(`ChainInv`).  `HandleKeeps` shows once that a handler keeps what the properties say of
a peer, whether the message is the peer's own or was received; a crash between two writes adds the step to `torn`, and whatever
writes both rows later makes it whole again.

**CivicProofs**, on land: `TypeCorrect`, `OwnersHavePaid` (`NoPhantomOwner`),
`SalesAreKept` (`SoldIsKept`).  `IInv` adds what holds while a purchase is under way:
it is the only one of its parcel (`OneBuyer`), the parcel is the buyer's or was
reclaimed under him while the table shows no owner (`BuyersHold`), a parcel that is
for sale in memory is for sale in the table (`ForSaleInBoth`), and a buyer whose
charge succeeded is the one who paid last (`PaidByBuyer`).  `ReclaimedIsUnsold` says
that a reclaim that is still to be written takes no land that was sold since.

On standing: `StandingTypeCorrect`, `SanctionsAreEarned`
(`NoSanctionWithoutConviction`), `FreezesAreEarned` (`FrozenForCause`),
`TheDepartedAreFrozen` (`DepartedIsFrozen`), `TimersWaitForTheLastSocket`
(`NoTimerWhileConnected`).  `StandingInv` adds `FreezeIsAskedFor`: a freeze on its way
is for a charge that asks for one, and a scan that freezes has taken the citizen for
departed.  A conviction is never taken back, which makes what an execution has read
before its awaits as good as new.

So every invariant and every action property a passing run checks, and both
refinements, are theorems.  Only model-checked is what takes fairness
(`NewestGetsStored`, `DueGetsTallied`, `FundsAreNotStuck`, `HeldIsResolved`,
`QueueDrains`, `LeaseEnds`, `DepartureIsNoticed`, `DefaulterLosesLand`): liveness
and ENABLED are out of the prover's reach.  The counterexample of `parcels_upkeep` is TLC's, too.

## 6. Plan

The order is that of importance; each step is a module with runs and, where an
inductive invariant is in reach, proofs.

1. Done: `AuditPersistence`, `Governance`, `Escrow` with `LaborEscrow` and
   `Marketplace`, `BrainWire`, `Standing`, `Firehose`, `Knowledge`, `Collaboration`,
   `Parcels`; proofs of all their safety properties.
2. `Procurement` with the rows of the labor store, as a third implementation of
   `Escrow`; `LandSale` of the contracts beside it.
3. Presence's capped message queue and the wake-up delivery, in `Standing`.
4. Cooperative work (`civic/cowork.ts`), and co-building once a route calls it.
5. Proofs of the abstract side of what `Knowledge` and `Firehose` promise: a merge as
   a join, the stream as a lossy channel that says what it lost, each stated as a
   specification of its own and implemented.

## 7. Not modelled

Cognition in the Brain (prompts, memory, planning) has no protocol but its calls
of the wire.  Dashboards, CLI and SDK are clients of the API.  `CivicTreasury`
only receives; `NousAccount` and its factory execute what their owner signs.
Whisper, dialogue and relationships are synchronous and in memory.  Of the protocol
package, identity, reputation, persona and skills are pure functions and single-row
writes; the planner, swarm, missions and adapters decide which commands to give,
which `Collaboration` leaves open; peer discovery, federation governance, bridges
and gateways are I/O around libraries, and enter the models as a network that
loses, repeats and reorders.  The MCP server, the SDK and templates call the
components above.  Co-building is left out as long as nothing but its tests calls
`completeSubTask`.  Dues, endowments and groups are single transactions each.
Schema and migrations hold no protocol but the keys and unique constraints the
models of the stores rest on.  Signature checks, gas, HTTP validation, text, logging
and metrics are left out of every module.  The tables of the snapshot other than the
audit trail, token handling and heartbeat of the Brain's client, and operator
commands that pause the clock are left out of the modules that touch them.

The modules stand for a small part of the lines of the repository: most of it is
rendering, prompts, HTTP validation, clients and tests, where order of events
decides nothing.
