-------------------------- MODULE AuditPersistence --------------------------
(***************************************************************************)
(* The hash-chained audit log of a Grid and its MySQL mirror.              *)
(*                                                                         *)
(* AuditChain (grid/src/audit/chain.ts) appends synchronously in memory.   *)
(* PersistentAuditChain sends one INSERT IGNORE per entry and does not     *)
(* wait for it; a pool of connections may commit the statements in any     *)
(* order, reject some, or commit one and lose its reply.  AuditReconcile   *)
(* looks at MAX(id) every 60 ticks and replays what is above it; a cycle   *)
(* is not awaited, so cycles may overlap.  A graceful stop snapshots the   *)
(* chain and then appends grid.stopped; a crash forgets everything but the *)
(* rows, and the next boot loads the rows in the order of their ids.       *)
(*                                                                         *)
(* A hash is the sequence of the events it covers: two hashes are equal    *)
(* exactly when they cover the same history, which is what SHA-256 is used *)
(* for.  Statements a dead process left behind are assumed to have been    *)
(* executed or dropped before the next boot reads the table.               *)
(***************************************************************************)
EXTENDS Integers, Sequences, FiniteSets

CONSTANTS
    Event,        \* what may be appended, other than grid.stopped
    Cycle,        \* reconcile cycles that may run at the same time
    MaxId,        \* bound: the largest entry id
    MaxFaults,    \* bound: statements that fail
    MaxCrashes,   \* bound: crashes
    BatchCap      \* REPLAY_BATCH_CAP

ASSUME ConstantsAssumption ==
    /\ MaxId \in Nat /\ MaxFaults \in Nat /\ MaxCrashes \in Nat
    /\ BatchCap \in Nat \ {0}

VARIABLES
    phase,            \* "up", "stopping", "stopped" or "down"
    entries,          \* AuditChain.entries
    lastHash,         \* AuditChain.lastHash
    nextId,           \* AuditChain.nextId
    inflight,         \* entries whose INSERT has not been executed
    acked,            \* entries committed, their promise not yet resolved
    rows,             \* audit_trail: id -> row
    lastPersistedId,  \* PersistentAuditChain._lastPersistedId, 0 for null
    persistError,     \* _lastPersistError of the chain or the reconciler is set
    cycle,            \* the local state of each reconcile cycle
    snapshot,         \* the shutdown snapshot: last id copied, entries still to write
    faults, crashes

memory == <<entries, lastHash, nextId>>
volatile == <<inflight, acked, lastPersistedId, persistError, cycle, snapshot>>
budget == <<faults, crashes>>
vars == <<phase, memory, volatile, rows, budget>>

GenesisHash == << >>
Hash(prev, event) == Append(prev, event)

Events == Event \cup {"grid.stopped"}
Entry == [id: 1..MaxId, event: Events, prev: Seq(Events), hash: Seq(Events)]

NoSnapshot == [top |-> 0, todo |-> {}]
Idle == [pc |-> "idle", maxId |-> 0, todo |-> {}]
InMemory == {entries[i] : i \in DOMAIN entries}

\* Mutant: the column prev_hash is taken from the head, which may have moved on.
InsertIgnoreHead(e) ==
    [k \in DOMAIN rows \cup {e.id} |->
        IF k \in DOMAIN rows THEN rows[k] ELSE [e EXCEPT !.prev = lastHash]]

\* The rows the database holds after INSERT IGNORE of an entry.
InsertIgnore(e) ==
    [k \in DOMAIN rows \cup {e.id} |-> IF k \in DOMAIN rows THEN rows[k] ELSE e]

\* The entry a sequential loop over a set of entries reaches first.
IsFirst(e, S) == e \in S /\ \A f \in S : e.id <= f.id

\* m is SELECT COALESCE(MAX(id), 0).
IsDbMax(m) ==
    IF DOMAIN rows = {} THEN m = 0
    ELSE m \in DOMAIN rows /\ \A k \in DOMAIN rows : k <= m

-----------------------------------------------------------------------------
Init ==
    /\ phase = "up"
    /\ entries = << >> /\ lastHash = GenesisHash /\ nextId = 1
    /\ inflight = {} /\ acked = {}
    /\ rows = [k \in {} |-> {}]
    /\ lastPersistedId = 0 /\ persistError = FALSE
    /\ cycle = [c \in Cycle |-> Idle]
    /\ snapshot = NoSnapshot
    /\ faults = 0 /\ crashes = 0

\* AuditChain.append and the fire-and-forget store.append of its subclass.
AppendEntry(event) ==
    LET e == [id |-> nextId, event |-> event,
              prev |-> lastHash, hash |-> Hash(lastHash, event)]
    IN  /\ entries' = Append(entries, e)
        /\ lastHash' = e.hash
        /\ nextId' = nextId + 1
        /\ inflight' = inflight \cup {e}

\* Any subsystem appends; the clock still runs while the snapshot is taken.
\* The last id is left to grid.stopped.
AppendEvent(event) ==
    /\ phase \in {"up", "stopping"} /\ nextId < MaxId
    /\ AppendEntry(event)
    /\ UNCHANGED <<phase, acked, lastPersistedId, persistError, cycle, snapshot, rows, budget>>

-----------------------------------------------------------------------------
(* The statement of one append. *)

Commit(e) ==
    /\ e \in inflight
    /\ rows' = InsertIgnore(e)
    /\ inflight' = inflight \ {e}
    /\ acked' = acked \cup {e}
    /\ UNCHANGED <<phase, memory, lastPersistedId, persistError, cycle, snapshot, budget>>

\* The statement fails, or is executed and its reply is lost.
Reject(e, executed) ==
    /\ e \in inflight /\ faults < MaxFaults
    /\ rows' = IF executed THEN InsertIgnore(e) ELSE rows
    /\ inflight' = inflight \ {e}
    /\ persistError' = TRUE
    /\ faults' = faults + 1
    /\ UNCHANGED <<phase, memory, acked, lastPersistedId, cycle, snapshot, crashes>>

\* Mutant: a success clears the error of an earlier failure.
ResolveClearsError(e) ==
    /\ e \in acked
    /\ acked' = acked \ {e}
    /\ lastPersistedId' = IF e.id > lastPersistedId THEN e.id ELSE lastPersistedId
    /\ persistError' = FALSE
    /\ UNCHANGED <<phase, memory, inflight, cycle, snapshot, rows, budget>>

\* The success handler: the watermark only advances.
Resolve(e) ==
    /\ e \in acked
    /\ acked' = acked \ {e}
    /\ lastPersistedId' = IF e.id > lastPersistedId THEN e.id ELSE lastPersistedId
    /\ UNCHANGED <<phase, memory, inflight, persistError, cycle, snapshot, rows, budget>>

-----------------------------------------------------------------------------
(* AuditReconcile.run, cut at its awaits. *)

Running == phase \in {"up", "stopping"}

CycleQuery(c) ==
    /\ Running /\ cycle[c].pc = "idle"
    /\ \E m \in 0..MaxId :
          IsDbMax(m) /\ cycle' = [cycle EXCEPT ![c] = [pc |-> "read", maxId |-> m, todo |-> {}]]
    /\ UNCHANGED <<phase, memory, inflight, acked, lastPersistedId, persistError,
                   snapshot, rows, budget>>

CycleQueryFails(c) ==
    /\ Running /\ cycle[c].pc = "idle" /\ faults < MaxFaults
    /\ persistError' = TRUE
    /\ faults' = faults + 1
    /\ UNCHANGED <<phase, memory, inflight, acked, lastPersistedId, cycle,
                   snapshot, rows, crashes>>

\* The oldest BatchCap entries above the maximum the query saw.
Missing(maxId) ==
    LET above == {e \in InMemory : e.id > maxId}
    IN  {e \in above : Cardinality({f \in above : f.id < e.id}) < BatchCap}

\* Mutant: a divergence below the warning threshold does not start the work.
DivergenceAboveThreshold(maxId) ==
    IF Len(entries) > maxId + 1 THEN Len(entries) - maxId ELSE 0

\* Back from the query: compare lengths, then collect what is to be replayed.
Divergence(maxId) == IF Len(entries) > maxId THEN Len(entries) - maxId ELSE 0

AfterQuery(maxId) ==
    IF Divergence(maxId) = 0 \/ Missing(maxId) = {} THEN Idle
    ELSE [pc |-> "replay", maxId |-> maxId, todo |-> Missing(maxId)]

CycleRead(c) ==
    /\ cycle[c].pc = "read"
    /\ cycle' = [cycle EXCEPT ![c] = AfterQuery(cycle[c].maxId)]
    /\ UNCHANGED <<phase, memory, inflight, acked, lastPersistedId, persistError,
                   snapshot, rows, budget>>

AfterReplay(c, e) ==
    IF cycle[c].todo = {e} THEN Idle
    ELSE [cycle[c] EXCEPT !.todo = cycle[c].todo \ {e}]

CycleReplay(c, e) ==
    /\ cycle[c].pc = "replay" /\ IsFirst(e, cycle[c].todo)
    /\ rows' = InsertIgnore(e)
    /\ cycle' = [cycle EXCEPT ![c] = AfterReplay(c, e)]
    /\ UNCHANGED <<phase, memory, inflight, acked, lastPersistedId, persistError,
                   snapshot, budget>>

\* One failed entry does not stop the batch: the loop goes on to the next.
CycleReplayFails(c, e) ==
    /\ cycle[c].pc = "replay" /\ IsFirst(e, cycle[c].todo)
    /\ faults < MaxFaults
    /\ persistError' = TRUE
    /\ cycle' = [cycle EXCEPT ![c] = AfterReplay(c, e)]
    /\ faults' = faults + 1
    /\ UNCHANGED <<phase, memory, inflight, acked, lastPersistedId, snapshot, rows, crashes>>

-----------------------------------------------------------------------------
(* Stop, crash and restart. *)

\* Mutant: the snapshot skips what the watermark says is stored.
StopBeginAboveWatermark ==
    /\ phase = "up" /\ nextId <= MaxId
    /\ phase' = "stopping"
    /\ snapshot' = [top |-> nextId - 1, todo |-> {e \in InMemory : e.id > lastPersistedId}]
    /\ UNCHANGED <<memory, inflight, acked, lastPersistedId, persistError, cycle, rows, budget>>

\* stop() starts the snapshot with a copy of the chain.
StopBegin ==
    /\ phase = "up" /\ nextId <= MaxId
    /\ phase' = "stopping"
    /\ snapshot' = [top |-> nextId - 1, todo |-> InMemory]
    /\ UNCHANGED <<memory, inflight, acked, lastPersistedId, persistError, cycle, rows, budget>>

SnapshotWrite(e) ==
    /\ phase = "stopping" /\ IsFirst(e, snapshot.todo)
    /\ rows' = InsertIgnore(e)
    /\ snapshot' = [snapshot EXCEPT !.todo = snapshot.todo \ {e}]
    /\ UNCHANGED <<phase, memory, inflight, acked, lastPersistedId, persistError, cycle, budget>>

\* launcher.stop() after the snapshot, and after a snapshot that threw.
StopEnd(failed) ==
    /\ phase = "stopping" /\ nextId <= MaxId
    /\ IF failed THEN snapshot.todo # {} /\ faults < MaxFaults ELSE snapshot.todo = {}
    /\ phase' = "stopped"
    /\ AppendEntry("grid.stopped")
    /\ faults' = IF failed THEN faults + 1 ELSE faults
    /\ UNCHANGED <<acked, lastPersistedId, persistError, cycle, snapshot, rows, crashes>>

\* The process is gone: only the table is left.
LoseMemory ==
    /\ phase' = "down"
    /\ entries' = << >> /\ lastHash' = GenesisHash /\ nextId' = 1
    /\ inflight' = {} /\ acked' = {}
    /\ lastPersistedId' = 0 /\ persistError' = FALSE
    /\ cycle' = [c \in Cycle |-> Idle]
    /\ snapshot' = NoSnapshot
    /\ UNCHANGED rows

Exit == phase = "stopped" /\ LoseMemory /\ UNCHANGED budget

Crash ==
    /\ phase \in {"up", "stopping"} /\ crashes < MaxCrashes
    /\ LoseMemory
    /\ crashes' = crashes + 1
    /\ UNCHANGED faults

\* loadAll: the rows by ascending id.
IsOrderedTable(s) ==
    /\ {s[i] : i \in DOMAIN s} = {rows[k] : k \in DOMAIN rows}
    /\ \A i, j \in DOMAIN s : i < j => s[i].id < s[j].id

\* Mutant: the head of the hash chain is not restored.
LoadEntriesOnly(s) ==
    /\ entries' = s
    /\ lastHash' = GenesisHash
    /\ nextId' = IF s = << >> THEN 1 ELSE s[Len(s)].id + 1

\* AuditChain.loadEntries into the fresh chain.
LoadEntries(s) ==
    /\ entries' = s
    /\ lastHash' = IF s = << >> THEN GenesisHash ELSE s[Len(s)].hash
    /\ nextId' = IF s = << >> THEN 1 ELSE s[Len(s)].id + 1

Boot ==
    /\ phase = "down"
    /\ phase' = "up"
    /\ \E s \in [1..Cardinality(DOMAIN rows) -> {rows[k] : k \in DOMAIN rows}] :
          IsOrderedTable(s) /\ LoadEntries(s)
    /\ UNCHANGED <<volatile, rows, budget>>

-----------------------------------------------------------------------------
Statement ==
    \/ \E e \in inflight : Commit(e) \/ \E executed \in BOOLEAN : Reject(e, executed)
    \/ \E e \in acked : Resolve(e)

Reconcile(c) ==
    \/ CycleQuery(c) \/ CycleQueryFails(c) \/ CycleRead(c)
    \/ \E e \in cycle[c].todo : CycleReplay(c, e) \/ CycleReplayFails(c, e)

Shutdown ==
    \/ StopBegin \/ Exit \/ Crash \/ Boot
    \/ \E e \in snapshot.todo : SnapshotWrite(e)
    \/ \E failed \in BOOLEAN : StopEnd(failed)

Next ==
    \/ \E event \in Event : AppendEvent(event)
    \/ Statement
    \/ \E c \in Cycle : Reconcile(c)
    \/ Shutdown

Spec == Init /\ [][Next]_vars

\* The database answers every statement and the clock keeps starting cycles.
\* Nothing forces an append, a fault, a stop or a crash.
Fairness ==
    /\ WF_vars(Statement)
    /\ \A c \in Cycle : WF_vars(Reconcile(c))
    /\ WF_vars(Boot) /\ WF_vars(Exit)
    /\ WF_vars(\E e \in snapshot.todo : SnapshotWrite(e)) /\ WF_vars(StopEnd(FALSE))

FairSpec == Spec /\ Fairness

-----------------------------------------------------------------------------
(* Properties. *)

CycleState == [pc : {"idle", "read", "replay"}, maxId : 0..MaxId, todo : SUBSET Entry]

\* Every variable keeps its type.
TypeOK ==
    /\ phase \in {"up", "stopping", "stopped", "down"}
    /\ entries \in Seq(Entry) /\ lastHash \in Seq(Events) /\ nextId \in 1..(MaxId + 1)
    /\ inflight \subseteq Entry /\ acked \subseteq Entry
    /\ DOMAIN rows \subseteq 1..MaxId
    /\ \A k \in DOMAIN rows : rows[k] \in Entry
    /\ lastPersistedId \in 0..MaxId /\ persistError \in BOOLEAN
    /\ cycle \in [Cycle -> CycleState]
    /\ snapshot \in [top : 0..MaxId, todo : SUBSET Entry]
    /\ faults \in 0..MaxFaults /\ crashes \in 0..MaxCrashes

\* The mirror never holds a history the Grid did not have: while a process
\* lives, every row is, field for field, the entry of the chain with its id.
\* INSERT IGNORE silently keeps the older row when an id is used twice, so this
\* rests on loadEntries continuing the ids after the last row, gaps included.
RowsMirrorChain ==
    phase # "down" => \A k \in DOMAIN rows : rows[k] \in InMemory /\ rows[k].id = k

\* An entry that is neither stored nor on its way to the store has left a mark
\* the operator can see: persistError is never cleared, so a loss is not silent.
LossLeavesError ==
    phase # "down" =>
        \A e \in InMemory : e.id \in DOMAIN rows \/ e \in inflight \/ persistError

\* What /health/detailed shows as durable is durable: the watermark and the
\* maximum each reconcile cycle works from are ids of rows.
WatermarkIsStored ==
    /\ lastPersistedId # 0 => lastPersistedId \in DOMAIN rows
    /\ \A c \in Cycle : cycle[c].maxId # 0 => cycle[c].maxId \in DOMAIN rows

Linked(i) == entries[i + 1].prev = entries[i].hash

\* The chain never forks: each entry covers the one before it unless the id in
\* between was lost before a restart, and the next append covers the last one.
\* verify() can therefore fail only at a gap in the ids.
BrokenOnlyAtGap ==
    /\ \A i \in 1..(Len(entries) - 1) :
          Linked(i) \/ entries[i + 1].id > entries[i].id + 1
    /\ entries # << >> => /\ lastHash = entries[Len(entries)].hash
                          /\ nextId = entries[Len(entries)].id + 1

\* The shutdown snapshot repairs every hole: whatever failed before, an entry of
\* the copy stop() took is stored once the loop has passed it, so a snapshot
\* that is not cut short leaves a table without gaps up to its last entry.
SnapshotRepairsHoles ==
    phase = "stopping" =>
        \A e \in InMemory : e.id <= snapshot.top =>
            e.id \in DOMAIN rows \/ e \in snapshot.todo

\* The newest entry does not stay unstored while the Grid runs: if its INSERT
\* fails, a later cycle sees the divergence and replays it.  This holds as long
\* as the chain has as many entries as its last id says, which audit-reconcile.ts
\* takes for granted (line 84) and a restart over a hole ends; entries below a
\* newer row are another matter (see NoEntryIsLost).
NewestStored == Len(entries) > 0 /\ entries[Len(entries)].id \in DOMAIN rows
Gapless == Len(entries) = nextId - 1
NewestGetsStored ==
    [](phase = "up" /\ entries # << >> /\ Gapless => <>(phase # "up" \/ NewestStored))

\* 31-CONTEXT.md:9: "every in-memory audit entry is mirrored to MySQL audit_trail
\* within seconds of commit", with the reconcile loop as belt and suspenders.
NoEntryIsLost ==
    \A k \in 1..MaxId :
        []((\E e \in InMemory : e.id = k) => <>(k \in DOMAIN rows \/ phase # "up"))
=============================================================================
