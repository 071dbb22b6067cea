----------------------- MODULE AuditPersistenceProofs -----------------------
(***************************************************************************)
(* The safety properties of AuditPersistence, for every set of events,     *)
(* number of overlapping reconcile cycles and bound.                       *)
(*                                                                         *)
(* The properties are not inductive alone.  The strengthening says where   *)
(* everything in motion comes from (Provenance: every statement, replay    *)
(* and snapshot step carries an entry of the chain, so it can only store   *)
(* what the chain holds), that ids ascend and the head continues them, and *)
(* that rows with neighbouring ids are linked, which is what survives a    *)
(* crash.                                                                  *)
(***************************************************************************)
EXTENDS AuditPersistence, FiniteSetTheorems, TLAPS

Rows == {rows[k] : k \in DOMAIN rows}
NeighboursLinked(S) == \A e, f \in S : f.id = e.id + 1 => f.prev = e.hash

Provenance ==
    /\ inflight \subseteq InMemory /\ acked \subseteq InMemory
    /\ snapshot.todo \subseteq InMemory
    /\ \A c \in Cycle : cycle[c].todo \subseteq InMemory
AckedIsStored == \A e \in acked : e.id \in DOMAIN rows
IdsAscend == \A i, j \in DOMAIN entries : i < j => entries[i].id < entries[j].id
HeadIsLast ==
    IF entries = << >> THEN nextId = 1
    ELSE /\ lastHash = entries[Len(entries)].hash
         /\ nextId = entries[Len(entries)].id + 1
RowsKeyed == \A k \in DOMAIN rows : rows[k].id = k
DownIsEmpty == phase = "down" => entries = << >>
SnapshotBelowHead == phase = "stopping" => snapshot.top < nextId

ChainInv == IdsAscend /\ HeadIsLast /\ NeighboursLinked(InMemory) /\ DownIsEmpty
TableInv == RowsMirrorChain /\ RowsKeyed /\ NeighboursLinked(Rows)
IInv ==
    /\ TypeOK /\ ChainInv /\ TableInv
    /\ Provenance /\ AckedIsStored
    /\ LossLeavesError /\ WatermarkIsStored
    /\ SnapshotBelowHead /\ SnapshotRepairsHoles

-----------------------------------------------------------------------------
(* Operators. *)

\* INSERT IGNORE adds one key at most and never changes a row.
LEMMA InsertIgnoreFacts ==
    ASSUME NEW e
    PROVE  /\ DOMAIN InsertIgnore(e) = DOMAIN rows \cup {e.id}
           /\ \A k \in DOMAIN rows : InsertIgnore(e)[k] = rows[k]
           /\ e.id \notin DOMAIN rows => InsertIgnore(e)[e.id] = e
  BY DEF InsertIgnore

\* The entries of a typed chain are entries, and their ids are in range.
LEMMA InMemoryTyped ==
    ASSUME entries \in Seq(Entry)
    PROVE  InMemory \subseteq Entry /\ \A e \in InMemory : e.id \in 1..MaxId
<1>1. InMemory \subseteq Entry
  BY DEF InMemory
<1>2. \A e \in Entry : e.id \in 1..MaxId
  BY DEF Entry
<1> QED
  BY <1>1, <1>2

\* Storing an entry of the chain keeps the table a copy of it.
LEMMA InsertKeepsTable ==
    ASSUME IInv, NEW e \in InMemory, rows' = InsertIgnore(e),
           entries' = entries, phase' = phase
    PROVE  /\ TableInv'
           /\ DOMAIN rows \subseteq DOMAIN rows' /\ e.id \in DOMAIN rows'
           /\ DOMAIN rows' \subseteq 1..MaxId /\ \A k \in DOMAIN rows' : rows'[k] \in Entry
<1>1. phase # "down"
  BY DEF IInv, ChainInv, DownIsEmpty, InMemory
<1>2. e \in Entry /\ e.id \in 1..MaxId
  BY InMemoryTyped DEF IInv, TypeOK
<1>3. InMemory' = InMemory
  BY DEF InMemory
<1>4. /\ DOMAIN rows' = DOMAIN rows \cup {e.id}
      /\ \A k \in DOMAIN rows : rows'[k] = rows[k]
      /\ e.id \notin DOMAIN rows => rows'[e.id] = e
  BY InsertIgnoreFacts
<1>5. \A k \in DOMAIN rows' : rows'[k] \in InMemory /\ rows'[k].id = k
  <2>1. \A k \in DOMAIN rows : rows[k] \in InMemory /\ rows[k].id = k
    BY <1>1 DEF IInv, TableInv, RowsMirrorChain
  <2> QED
    BY <1>4, <2>1
<1>6. RowsMirrorChain' /\ RowsKeyed'
  BY <1>3, <1>5 DEF RowsMirrorChain, RowsKeyed
<1>7. NeighboursLinked(Rows)'
  BY <1>5 DEF IInv, ChainInv, NeighboursLinked, Rows
<1>8. DOMAIN rows' \subseteq 1..MaxId /\ \A k \in DOMAIN rows' : rows'[k] \in Entry
  BY <1>2, <1>4, <1>5, InMemoryTyped DEF IInv, TypeOK
<1> QED
  BY <1>4, <1>6, <1>7, <1>8 DEF TableInv

\* What an append adds to the chain, and that the chain stays in order.
LEMMA AppendKeepsChain ==
    ASSUME IInv, NEW event \in Events, AppendEntry(event), nextId <= MaxId,
           phase # "down", phase' # "down", rows' = rows
    PROVE  /\ ChainInv' /\ TableInv'
           /\ entries' \in Seq(Entry) /\ lastHash' \in Seq(Events)
           /\ nextId' \in 1..(MaxId + 1) /\ nextId' = nextId + 1
           /\ \E e \in Entry : /\ InMemory' = InMemory \cup {e} /\ e.id = nextId
                               /\ inflight' = inflight \cup {e}
<1> DEFINE e == [id |-> nextId, event |-> event,
                 prev |-> lastHash, hash |-> Hash(lastHash, event)]
<1>1. e \in Entry /\ Hash(lastHash, event) \in Seq(Events)
  BY ConstantsAssumption DEF IInv, TypeOK, Entry, Hash
<1>2. /\ entries' = Append(entries, e) /\ lastHash' = e.hash
      /\ nextId' = nextId + 1 /\ inflight' = inflight \cup {e}
  BY DEF AppendEntry
<1>3. entries \in Seq(Entry) /\ entries' \in Seq(Entry)
  BY <1>1, <1>2 DEF IInv, TypeOK
<1>4. /\ Len(entries') = Len(entries) + 1 /\ entries'[Len(entries) + 1] = e
      /\ \A i \in 1..Len(entries) : entries'[i] = entries[i]
      /\ DOMAIN entries' = 1..(Len(entries) + 1) /\ DOMAIN entries = 1..Len(entries)
      /\ Len(entries) \in Nat
  BY <1>1, <1>2, <1>3
<1>5. InMemory' = InMemory \cup {e}
  BY <1>4 DEF InMemory
<1>6. \A i \in DOMAIN entries : entries[i].id \in 1..MaxId
  BY <1>3, InMemoryTyped DEF InMemory
<1>7. \A i \in DOMAIN entries : entries[i].id < nextId /\ (entries[i].id = nextId - 1 => i = Len(entries))
  <2> SUFFICES ASSUME NEW i \in DOMAIN entries
               PROVE  entries[i].id < nextId /\ (entries[i].id = nextId - 1 => i = Len(entries))
    OBVIOUS
  <2>1. entries # << >> /\ Len(entries) \in DOMAIN entries
    BY <1>4
  <2>2. nextId = entries[Len(entries)].id + 1
    BY <2>1 DEF IInv, ChainInv, HeadIsLast
  <2>3. i = Len(entries) \/ entries[i].id < entries[Len(entries)].id
    BY <1>4, <2>1 DEF IInv, ChainInv, IdsAscend
  <2> QED
    BY <1>6, <2>1, <2>2, <2>3
<1>8. IdsAscend'
  <2>1. \A i \in DOMAIN entries : entries'[i].id < e.id
    BY <1>4, <1>7
  <2> QED
    BY <1>4, <2>1 DEF IInv, ChainInv, IdsAscend
<1>9. HeadIsLast'
  BY <1>2, <1>4 DEF HeadIsLast
<1>10. NeighboursLinked(InMemory)'
  <2> SUFFICES ASSUME NEW f \in InMemory', NEW g \in InMemory', g.id = f.id + 1
               PROVE  g.prev = f.hash
    BY DEF NeighboursLinked
  <2>1. CASE f \in InMemory /\ g \in InMemory
    BY <2>1 DEF IInv, ChainInv, NeighboursLinked
  <2>2. CASE f \in InMemory /\ g = e
    <3>1. PICK i \in DOMAIN entries : f = entries[i]
      BY <2>2 DEF InMemory
    <3>2. entries[i].id = nextId - 1
      BY <1>6, <2>2, <3>1
    <3>3. i = Len(entries)
      BY <1>7, <3>2
    <3>4. lastHash = entries[Len(entries)].hash
      BY <1>4, <3>1 DEF IInv, ChainInv, HeadIsLast
    <3> QED
      BY <2>2, <3>1, <3>3, <3>4
  <2>3. CASE f = e
    <3>1. g = e \/ \E i \in DOMAIN entries : g = entries[i]
      BY <1>5 DEF InMemory
    <3>2. g.id <= nextId
      BY <1>6, <1>7, <3>1 DEF IInv, TypeOK
    <3> QED
      BY <2>3, <3>2 DEF IInv, TypeOK
  <2> QED
    BY <1>5, <2>1, <2>2, <2>3
<1>11. DownIsEmpty'
  BY DEF DownIsEmpty
<1>12. TableInv'
  BY <1>5 DEF IInv, TableInv, RowsMirrorChain, RowsKeyed, Rows, NeighboursLinked
<1>13. nextId' \in 1..(MaxId + 1)
  BY <1>2, ConstantsAssumption DEF IInv, TypeOK
<1> QED
  BY <1>1, <1>2, <1>3, <1>5, <1>8, <1>9, <1>10, <1>11, <1>12, <1>13 DEF ChainInv

-----------------------------------------------------------------------------
(* The invariant holds initially and is preserved. *)

LEMMA InitInv == Init => IInv
<1> SUFFICES ASSUME Init PROVE IInv
  OBVIOUS
<1>1. InMemory = {} /\ DOMAIN entries = {} /\ DOMAIN rows = {} /\ Rows = {}
  BY DEF Init, InMemory, Rows
<1>2. TypeOK
  <2>1. << >> \in Seq(Entry) /\ << >> \in Seq(Events)
    OBVIOUS
  <2>2. cycle \in [Cycle -> CycleState]
    <3>1. Idle \in CycleState
      BY ConstantsAssumption DEF Idle, CycleState
    <3>2. cycle = [c \in Cycle |-> Idle]
      BY DEF Init
    <3> QED
      BY <3>1, <3>2
  <2>3. NoSnapshot \in [top : 0..MaxId, todo : SUBSET Entry]
    BY ConstantsAssumption DEF NoSnapshot
  <2>4. DOMAIN rows \subseteq 1..MaxId /\ \A k \in DOMAIN rows : rows[k] \in Entry
    BY <1>1
  <2>5. 1 \in 1..(MaxId + 1) /\ 0 \in 0..MaxId /\ 0 \in 0..MaxFaults /\ 0 \in 0..MaxCrashes
    BY ConstantsAssumption
  <2> QED
    BY <2>1, <2>2, <2>3, <2>4, <2>5 DEF Init, TypeOK, GenesisHash
<1>3. ChainInv
  BY <1>1 DEF Init, ChainInv, IdsAscend, HeadIsLast, NeighboursLinked, DownIsEmpty
<1>4. TableInv
  BY <1>1 DEF TableInv, RowsMirrorChain, RowsKeyed, NeighboursLinked
<1>5. Provenance /\ AckedIsStored
  BY <1>1 DEF Init, Provenance, AckedIsStored, Idle, NoSnapshot
<1>6. LossLeavesError /\ WatermarkIsStored
  BY <1>1 DEF Init, LossLeavesError, WatermarkIsStored, Idle
<1>7. SnapshotBelowHead /\ SnapshotRepairsHoles
  BY DEF Init, SnapshotBelowHead, SnapshotRepairsHoles
<1> QED
  BY <1>2, <1>3, <1>4, <1>5, <1>6, <1>7 DEF IInv

\* A step that leaves the chain and the table alone keeps what is said of them.
LEMMA ChainAndTableKept ==
    ASSUME IInv, UNCHANGED <<memory, rows>>, phase' = "down" <=> phase = "down"
    PROVE  ChainInv' /\ TableInv' /\ InMemory' = InMemory
<1>1. InMemory' = InMemory /\ Rows' = Rows
  BY DEF memory, InMemory, Rows
<1>2. ChainInv'
  BY <1>1 DEF IInv, ChainInv, memory, IdsAscend, HeadIsLast, NeighboursLinked, DownIsEmpty
<1>3. TableInv'
  BY <1>1 DEF IInv, TableInv, memory, RowsMirrorChain, RowsKeyed, NeighboursLinked
<1> QED
  BY <1>1, <1>2, <1>3

\* So does a step that stores an entry of the chain.
LEMMA StoreKept ==
    ASSUME IInv, NEW e \in InMemory, rows' = InsertIgnore(e),
           UNCHANGED <<phase, memory>>
    PROVE  /\ ChainInv' /\ TableInv' /\ InMemory' = InMemory
           /\ DOMAIN rows \subseteq DOMAIN rows' /\ e.id \in DOMAIN rows'
           /\ DOMAIN rows' \subseteq 1..MaxId /\ \A k \in DOMAIN rows' : rows'[k] \in Entry
<1>1. InMemory' = InMemory
  BY DEF memory, InMemory
<1>2. ChainInv'
  BY <1>1 DEF IInv, ChainInv, memory, IdsAscend, HeadIsLast, NeighboursLinked, DownIsEmpty
<1>3. entries' = entries
  BY DEF memory
<1> QED
  BY <1>1, <1>2, <1>3, InsertKeepsTable

LEMMA AppendEventInv ==
    ASSUME IInv, NEW event \in Event, AppendEvent(event) PROVE IInv'
<1> USE DEF AppendEvent
<1>1. event \in Events /\ nextId <= MaxId
  BY ConstantsAssumption DEF Events, IInv, TypeOK
<1>2. phase # "down" /\ phase' # "down" /\ rows' = rows /\ AppendEntry(event)
  OBVIOUS
<1>3. /\ ChainInv' /\ TableInv'
      /\ entries' \in Seq(Entry) /\ lastHash' \in Seq(Events)
      /\ nextId' \in 1..(MaxId + 1) /\ nextId' = nextId + 1
      /\ \E e \in Entry : /\ InMemory' = InMemory \cup {e} /\ e.id = nextId
                          /\ inflight' = inflight \cup {e}
  BY <1>1, <1>2, AppendKeepsChain
<1>4. PICK e \in Entry : /\ InMemory' = InMemory \cup {e} /\ e.id = nextId
                         /\ inflight' = inflight \cup {e}
  BY <1>3
<1>5. TypeOK'
  BY <1>3, <1>4 DEF IInv, TypeOK, budget
<1>6. Provenance' /\ AckedIsStored'
  BY <1>4 DEF IInv, Provenance, AckedIsStored
<1>7. LossLeavesError'
  BY <1>2, <1>4 DEF IInv, LossLeavesError
<1>8. WatermarkIsStored'
  BY DEF IInv, WatermarkIsStored
<1>9. SnapshotBelowHead' /\ SnapshotRepairsHoles'
  BY <1>3, <1>4 DEF IInv, TypeOK, SnapshotBelowHead, SnapshotRepairsHoles
<1> QED
  BY <1>3, <1>5, <1>6, <1>7, <1>8, <1>9 DEF IInv

LEMMA CommitInv ==
    ASSUME IInv, NEW e \in inflight, Commit(e) PROVE IInv'
<1> USE DEF Commit
<1>1. e \in InMemory /\ e \in Entry
  BY InMemoryTyped DEF IInv, Provenance, TypeOK
<1>2. /\ ChainInv' /\ TableInv' /\ InMemory' = InMemory
      /\ DOMAIN rows \subseteq DOMAIN rows' /\ e.id \in DOMAIN rows'
      /\ DOMAIN rows' \subseteq 1..MaxId /\ \A k \in DOMAIN rows' : rows'[k] \in Entry
  BY <1>1, StoreKept
<1>3. TypeOK'
  BY <1>1, <1>2 DEF IInv, TypeOK, memory, budget
<1>4. Provenance' /\ AckedIsStored'
  BY <1>1, <1>2 DEF IInv, Provenance, AckedIsStored
<1>5. LossLeavesError'
  BY <1>2 DEF IInv, LossLeavesError
<1>6. WatermarkIsStored'
  BY <1>2 DEF IInv, WatermarkIsStored
<1>7. SnapshotBelowHead' /\ SnapshotRepairsHoles'
  BY <1>2 DEF IInv, SnapshotBelowHead, SnapshotRepairsHoles, memory
<1> QED
  BY <1>2, <1>3, <1>4, <1>5, <1>6, <1>7 DEF IInv

LEMMA RejectInv ==
    ASSUME IInv, NEW e \in inflight, NEW executed \in BOOLEAN, Reject(e, executed)
    PROVE  IInv'
<1> USE DEF Reject
<1>1. e \in InMemory
  BY DEF IInv, Provenance
<1>2. /\ ChainInv' /\ TableInv' /\ InMemory' = InMemory
      /\ DOMAIN rows \subseteq DOMAIN rows'
      /\ DOMAIN rows' \subseteq 1..MaxId /\ \A k \in DOMAIN rows' : rows'[k] \in Entry
  <2>1. CASE executed
    BY <1>1, <2>1, StoreKept
  <2>2. CASE ~executed
    BY <2>2, ChainAndTableKept DEF IInv, TypeOK
  <2> QED
    BY <2>1, <2>2
<1>3. TypeOK'
  BY <1>2, ConstantsAssumption DEF IInv, TypeOK, memory
<1>4. Provenance' /\ AckedIsStored'
  BY <1>2 DEF IInv, Provenance, AckedIsStored
<1>5. LossLeavesError'
  BY DEF LossLeavesError
<1>6. WatermarkIsStored'
  BY <1>2 DEF IInv, WatermarkIsStored
<1>7. SnapshotBelowHead' /\ SnapshotRepairsHoles'
  BY <1>2 DEF IInv, SnapshotBelowHead, SnapshotRepairsHoles, memory
<1> QED
  BY <1>2, <1>3, <1>4, <1>5, <1>6, <1>7 DEF IInv

LEMMA ResolveInv ==
    ASSUME IInv, NEW e \in acked, Resolve(e) PROVE IInv'
<1> USE DEF Resolve
<1>1. ChainInv' /\ TableInv' /\ InMemory' = InMemory
  BY ChainAndTableKept
<1>2. e.id \in DOMAIN rows /\ e.id \in 1..MaxId
  BY DEF IInv, AckedIsStored, TypeOK
<1>3. TypeOK'
  BY <1>2 DEF IInv, TypeOK, memory, budget
<1>4. Provenance' /\ AckedIsStored'
  BY <1>1 DEF IInv, Provenance, AckedIsStored
<1>5. LossLeavesError' /\ WatermarkIsStored'
  BY <1>1, <1>2 DEF IInv, LossLeavesError, WatermarkIsStored
<1>6. SnapshotBelowHead' /\ SnapshotRepairsHoles'
  BY <1>1 DEF IInv, SnapshotBelowHead, SnapshotRepairsHoles, memory
<1> QED
  BY <1>1, <1>3, <1>4, <1>5, <1>6 DEF IInv

\* A reconcile step that stores nothing: c moves to a state that carries
\* entries of the chain and a maximum the table has.
LEMMA CycleMoveInv ==
    ASSUME IInv, NEW c \in Cycle, NEW s \in CycleState,
           s.todo \subseteq InMemory, s.maxId = 0 \/ s.maxId \in DOMAIN rows,
           cycle' = [cycle EXCEPT ![c] = s],
           persistError' \in BOOLEAN, persistError => persistError',
           faults' \in 0..MaxFaults,
           UNCHANGED <<phase, memory, inflight, acked, lastPersistedId, snapshot, rows, crashes>>
    PROVE  IInv'
<1>1. ChainInv' /\ TableInv' /\ InMemory' = InMemory
  BY ChainAndTableKept
<1>2. TypeOK'
  BY DEF IInv, TypeOK, memory
<1>3. \A d \in Cycle : cycle'[d] = IF d = c THEN s ELSE cycle[d]
  BY DEF IInv, TypeOK
<1>4. Provenance' /\ AckedIsStored'
  BY <1>1, <1>3 DEF IInv, Provenance, AckedIsStored
<1>5. LossLeavesError' /\ WatermarkIsStored'
  BY <1>1, <1>3 DEF IInv, LossLeavesError, WatermarkIsStored
<1>6. SnapshotBelowHead' /\ SnapshotRepairsHoles'
  BY <1>1 DEF IInv, SnapshotBelowHead, SnapshotRepairsHoles, memory
<1> QED
  BY <1>1, <1>2, <1>4, <1>5, <1>6 DEF IInv

LEMMA CycleStateTyped ==
    ASSUME IInv, NEW c \in Cycle
    PROVE  /\ cycle[c] \in CycleState /\ cycle[c].todo \subseteq InMemory
           /\ cycle[c].maxId \in 0..MaxId /\ cycle[c].todo \subseteq Entry
           /\ cycle[c].maxId = 0 \/ cycle[c].maxId \in DOMAIN rows
           /\ Idle \in CycleState
<1>1. cycle[c] \in CycleState
  BY DEF IInv, TypeOK
<1>2. Idle \in CycleState
  BY ConstantsAssumption DEF Idle, CycleState
<1>3. cycle[c].maxId \in 0..MaxId /\ cycle[c].todo \subseteq Entry
  BY <1>1 DEF CycleState
<1> QED
  BY <1>1, <1>2, <1>3 DEF IInv, Provenance, WatermarkIsStored

LEMMA CycleQueryInv ==
    ASSUME IInv, NEW c \in Cycle, CycleQuery(c) PROVE IInv'
<1>1. PICK m \in 0..MaxId : /\ IsDbMax(m)
                           /\ cycle' = [cycle EXCEPT ![c] = [pc |-> "read", maxId |-> m, todo |-> {}]]
  BY DEF CycleQuery
<1> DEFINE s == [pc |-> "read", maxId |-> m, todo |-> {}]
<1>2. s \in CycleState
  BY DEF CycleState
<1>3. s.todo \subseteq InMemory /\ (s.maxId = 0 \/ s.maxId \in DOMAIN rows)
  BY <1>1 DEF IsDbMax
<1>4. cycle' = [cycle EXCEPT ![c] = s]
  BY <1>1
<1> HIDE DEF s
<1> QED
  BY <1>2, <1>3, <1>4, CycleMoveInv DEF CycleQuery, budget, IInv, TypeOK

LEMMA CycleQueryFailsInv ==
    ASSUME IInv, NEW c \in Cycle, CycleQueryFails(c) PROVE IInv'
<1>1. cycle' = [cycle EXCEPT ![c] = cycle[c]]
  BY DEF CycleQueryFails, IInv, TypeOK
<1>2. faults' \in 0..MaxFaults
  BY ConstantsAssumption DEF CycleQueryFails, IInv, TypeOK
<1> QED
  BY <1>1, <1>2, CycleStateTyped, CycleMoveInv DEF CycleQueryFails

\* What a cycle collects for replay is a state of a cycle.
LEMMA AfterQueryTyped ==
    ASSUME IInv, NEW c \in Cycle
    PROVE  LET s == AfterQuery(cycle[c].maxId)
           IN  /\ s \in CycleState /\ s.todo \subseteq InMemory
               /\ s.maxId = 0 \/ s.maxId \in DOMAIN rows
<1> DEFINE m == cycle[c].maxId
           r == [pc |-> "replay", maxId |-> m, todo |-> Missing(m)]
<1>1. InMemory \subseteq Entry
  BY InMemoryTyped DEF IInv, TypeOK
<1>2. Missing(m) \subseteq InMemory /\ Missing(m) \subseteq Entry
  BY <1>1 DEF Missing
<1>3. r \in CycleState /\ r.todo \subseteq InMemory /\ (r.maxId = 0 \/ r.maxId \in DOMAIN rows)
  BY <1>2, CycleStateTyped DEF CycleState
<1>4. Idle \in CycleState /\ Idle.todo = {} /\ Idle.maxId = 0
  BY CycleStateTyped DEF Idle
<1>5. AfterQuery(m) = Idle \/ AfterQuery(m) = r
  BY DEF AfterQuery
<1> QED
  BY <1>3, <1>4, <1>5

LEMMA CycleReadInv ==
    ASSUME IInv, NEW c \in Cycle, CycleRead(c) PROVE IInv'
<1> DEFINE s == AfterQuery(cycle[c].maxId)
<1>1. s \in CycleState /\ s.todo \subseteq InMemory /\ (s.maxId = 0 \/ s.maxId \in DOMAIN rows)
  BY AfterQueryTyped
<1>2. cycle' = [cycle EXCEPT ![c] = s]
  BY DEF CycleRead
<1> HIDE DEF s
<1> QED
  BY <1>1, <1>2, CycleMoveInv DEF CycleRead, budget, IInv, TypeOK

LEMMA AfterReplayTyped ==
    ASSUME IInv, NEW c \in Cycle, NEW e
    PROVE  LET s == AfterReplay(c, e)
           IN  /\ s \in CycleState /\ s.todo \subseteq InMemory
               /\ s.maxId = 0 \/ s.maxId \in DOMAIN rows
<1> DEFINE r == [cycle[c] EXCEPT !.todo = cycle[c].todo \ {e}]
<1>1. /\ cycle[c] \in CycleState /\ cycle[c].todo \subseteq InMemory
      /\ cycle[c].todo \subseteq Entry
      /\ cycle[c].maxId = 0 \/ cycle[c].maxId \in DOMAIN rows
  BY CycleStateTyped
<1>2. r \in CycleState /\ r.todo = cycle[c].todo \ {e} /\ r.maxId = cycle[c].maxId
  BY <1>1 DEF CycleState
<1>3. Idle \in CycleState /\ Idle.todo = {} /\ Idle.maxId = 0
  BY CycleStateTyped DEF Idle
<1>4. AfterReplay(c, e) = Idle \/ AfterReplay(c, e) = r
  BY DEF AfterReplay
<1> QED
  BY <1>1, <1>2, <1>3, <1>4

LEMMA CycleReplayInv ==
    ASSUME IInv, NEW c \in Cycle, NEW e \in cycle[c].todo, CycleReplay(c, e) PROVE IInv'
<1> DEFINE s == AfterReplay(c, e)
<1>1. s \in CycleState /\ s.todo \subseteq InMemory /\ (s.maxId = 0 \/ s.maxId \in DOMAIN rows)
  BY AfterReplayTyped
<1>2. e \in InMemory
  BY CycleStateTyped
<1>3. /\ cycle' = [cycle EXCEPT ![c] = s] /\ rows' = InsertIgnore(e)
      /\ UNCHANGED <<phase, memory, inflight, acked, lastPersistedId, persistError,
                     snapshot, budget>>
  BY DEF CycleReplay
<1> HIDE DEF s
<1>4. /\ ChainInv' /\ TableInv' /\ InMemory' = InMemory
      /\ DOMAIN rows \subseteq DOMAIN rows'
      /\ DOMAIN rows' \subseteq 1..MaxId /\ \A k \in DOMAIN rows' : rows'[k] \in Entry
  BY <1>2, <1>3, StoreKept
<1>5. \A d \in Cycle : cycle'[d] = IF d = c THEN s ELSE cycle[d]
  BY <1>3 DEF IInv, TypeOK
<1>6. TypeOK'
  BY <1>1, <1>3, <1>4 DEF IInv, TypeOK, memory, budget
<1>7. Provenance' /\ AckedIsStored'
  BY <1>1, <1>3, <1>4, <1>5 DEF IInv, Provenance, AckedIsStored
<1>8. LossLeavesError' /\ WatermarkIsStored'
  BY <1>1, <1>3, <1>4, <1>5 DEF IInv, LossLeavesError, WatermarkIsStored
<1>9. SnapshotBelowHead' /\ SnapshotRepairsHoles'
  BY <1>3, <1>4 DEF IInv, SnapshotBelowHead, SnapshotRepairsHoles, memory
<1> QED
  BY <1>4, <1>6, <1>7, <1>8, <1>9 DEF IInv

LEMMA CycleReplayFailsInv ==
    ASSUME IInv, NEW c \in Cycle, NEW e \in cycle[c].todo, CycleReplayFails(c, e) PROVE IInv'
<1> DEFINE s == AfterReplay(c, e)
<1>1. s \in CycleState /\ s.todo \subseteq InMemory /\ (s.maxId = 0 \/ s.maxId \in DOMAIN rows)
  BY AfterReplayTyped
<1>2. cycle' = [cycle EXCEPT ![c] = s]
  BY DEF CycleReplayFails
<1>3. faults' \in 0..MaxFaults
  BY ConstantsAssumption DEF CycleReplayFails, IInv, TypeOK
<1> HIDE DEF s
<1> QED
  BY <1>1, <1>2, <1>3, CycleMoveInv DEF CycleReplayFails

LEMMA StopBeginInv ==
    ASSUME IInv, StopBegin PROVE IInv'
<1> USE DEF StopBegin
<1>1. ChainInv' /\ TableInv' /\ InMemory' = InMemory
  BY ChainAndTableKept
<1>2. InMemory \subseteq Entry
  BY InMemoryTyped DEF IInv, TypeOK
<1>3. nextId - 1 \in 0..MaxId
  BY ConstantsAssumption DEF IInv, TypeOK
<1>4. TypeOK'
  BY <1>2, <1>3 DEF IInv, TypeOK, memory, budget
<1>5. Provenance' /\ AckedIsStored'
  BY <1>1 DEF IInv, Provenance, AckedIsStored
<1>6. LossLeavesError' /\ WatermarkIsStored'
  BY <1>1 DEF IInv, LossLeavesError, WatermarkIsStored
<1>7. SnapshotBelowHead' /\ SnapshotRepairsHoles'
  BY <1>1 DEF IInv, TypeOK, SnapshotBelowHead, SnapshotRepairsHoles, memory
<1> QED
  BY <1>1, <1>4, <1>5, <1>6, <1>7 DEF IInv

LEMMA SnapshotWriteInv ==
    ASSUME IInv, NEW e \in snapshot.todo, SnapshotWrite(e) PROVE IInv'
<1> USE DEF SnapshotWrite
<1>1. e \in InMemory
  BY DEF IInv, Provenance
<1>2. /\ ChainInv' /\ TableInv' /\ InMemory' = InMemory
      /\ DOMAIN rows \subseteq DOMAIN rows' /\ e.id \in DOMAIN rows'
      /\ DOMAIN rows' \subseteq 1..MaxId /\ \A k \in DOMAIN rows' : rows'[k] \in Entry
  BY <1>1, StoreKept
<1>3. /\ snapshot \in [top : 0..MaxId, todo : SUBSET Entry]
      /\ snapshot' \in [top : 0..MaxId, todo : SUBSET Entry]
      /\ snapshot'.top = snapshot.top /\ snapshot'.todo = snapshot.todo \ {e}
  BY DEF IInv, TypeOK
<1>4. TypeOK'
  BY <1>2, <1>3 DEF IInv, TypeOK, memory, budget
<1>5. Provenance' /\ AckedIsStored'
  BY <1>2, <1>3 DEF IInv, Provenance, AckedIsStored
<1>6. LossLeavesError' /\ WatermarkIsStored'
  BY <1>2 DEF IInv, LossLeavesError, WatermarkIsStored
<1>7. SnapshotBelowHead' /\ SnapshotRepairsHoles'
  BY <1>2, <1>3 DEF IInv, SnapshotBelowHead, SnapshotRepairsHoles, memory
<1> QED
  BY <1>2, <1>4, <1>5, <1>6, <1>7 DEF IInv

LEMMA StopEndInv ==
    ASSUME IInv, NEW failed \in BOOLEAN, StopEnd(failed) PROVE IInv'
<1> USE DEF StopEnd
<1>1. "grid.stopped" \in Events /\ nextId <= MaxId
  BY DEF Events
<1>2. phase # "down" /\ phase' # "down" /\ rows' = rows /\ AppendEntry("grid.stopped")
  OBVIOUS
<1>3. /\ ChainInv' /\ TableInv'
      /\ entries' \in Seq(Entry) /\ lastHash' \in Seq(Events)
      /\ nextId' \in 1..(MaxId + 1) /\ nextId' = nextId + 1
      /\ \E e \in Entry : /\ InMemory' = InMemory \cup {e} /\ e.id = nextId
                          /\ inflight' = inflight \cup {e}
  BY <1>1, <1>2, AppendKeepsChain
<1>4. PICK e \in Entry : /\ InMemory' = InMemory \cup {e} /\ e.id = nextId
                         /\ inflight' = inflight \cup {e}
  BY <1>3
<1>5. faults' \in 0..MaxFaults
  BY ConstantsAssumption DEF IInv, TypeOK
<1>6. TypeOK'
  BY <1>3, <1>4, <1>5 DEF IInv, TypeOK
<1>7. Provenance' /\ AckedIsStored'
  BY <1>4 DEF IInv, Provenance, AckedIsStored
<1>8. LossLeavesError' /\ WatermarkIsStored'
  BY <1>2, <1>4 DEF IInv, LossLeavesError, WatermarkIsStored
<1>9. SnapshotBelowHead' /\ SnapshotRepairsHoles'
  BY DEF SnapshotBelowHead, SnapshotRepairsHoles
<1> QED
  BY <1>3, <1>6, <1>7, <1>8, <1>9 DEF IInv

LEMMA LoseMemoryInv ==
    ASSUME IInv, LoseMemory, faults' \in 0..MaxFaults, crashes' \in 0..MaxCrashes
    PROVE  IInv'
<1> USE DEF LoseMemory
<1>1. InMemory' = {} /\ Rows' = Rows /\ DOMAIN entries' = {}
  BY DEF InMemory, Rows
<1>2. \A c \in Cycle : cycle'[c] = Idle
  OBVIOUS
<1>3. cycle' \in [Cycle -> CycleState]
  <2>1. Idle \in CycleState
    BY ConstantsAssumption DEF Idle, CycleState
  <2>2. cycle' = [c \in Cycle |-> Idle]
    OBVIOUS
  <2> QED
    BY <2>1, <2>2
<1>4. TypeOK'
  <2>1. << >> \in Seq(Entry) /\ << >> \in Seq(Events)
    OBVIOUS
  <2>2. NoSnapshot \in [top : 0..MaxId, todo : SUBSET Entry]
    BY ConstantsAssumption DEF NoSnapshot
  <2>3. 1 \in 1..(MaxId + 1) /\ 0 \in 0..MaxId
    BY ConstantsAssumption
  <2> QED
    BY <1>3, <2>1, <2>2, <2>3 DEF IInv, TypeOK, GenesisHash
<1>5. ChainInv'
  BY <1>1 DEF ChainInv, IdsAscend, HeadIsLast, NeighboursLinked, DownIsEmpty
<1>6. TableInv'
  BY <1>1 DEF IInv, TableInv, RowsMirrorChain, RowsKeyed, NeighboursLinked
<1>7. Provenance' /\ AckedIsStored'
  BY <1>2 DEF Provenance, AckedIsStored, Idle, NoSnapshot
<1>8. LossLeavesError' /\ WatermarkIsStored'
  BY <1>2 DEF LossLeavesError, WatermarkIsStored, Idle
<1>9. SnapshotBelowHead' /\ SnapshotRepairsHoles'
  BY DEF SnapshotBelowHead, SnapshotRepairsHoles
<1> QED
  BY <1>4, <1>5, <1>6, <1>7, <1>8, <1>9 DEF IInv

LEMMA BootInv ==
    ASSUME IInv, Boot PROVE IInv'
<1>1. PICK s \in [1..Cardinality(DOMAIN rows) -> Rows] : IsOrderedTable(s) /\ LoadEntries(s)
  BY DEF Boot, Rows
<1>2. UNCHANGED <<volatile, rows, budget>> /\ phase = "down" /\ phase' = "up"
  BY DEF Boot
<1>3. entries = << >> /\ InMemory = {}
  BY <1>2 DEF IInv, ChainInv, DownIsEmpty, InMemory
<1>4. entries' = s /\ InMemory' = Rows /\ Rows' = Rows
  BY <1>1, <1>2 DEF LoadEntries, InMemory, Rows, IsOrderedTable
<1>5. Rows \subseteq Entry /\ \A e \in Rows : e.id \in 1..MaxId /\ e.hash \in Seq(Events)
  BY DEF IInv, TypeOK, Rows, Entry
<1>6. Cardinality(DOMAIN rows) \in Nat
  <2>1. 1..MaxId \in SUBSET Int /\ IsFiniteSet(1..MaxId)
    BY FS_Interval, ConstantsAssumption
  <2>2. DOMAIN rows \in SUBSET (1..MaxId)
    BY DEF IInv, TypeOK
  <2>3. IsFiniteSet(DOMAIN rows)
    BY <2>1, <2>2, FS_Subset
  <2> QED
    BY <2>3, FS_CardinalityType
<1>7. s \in Seq(Entry) /\ Len(s) = Cardinality(DOMAIN rows) /\ DOMAIN s = 1..Len(s)
  BY <1>5, <1>6
<1>8. s # << >> => s[Len(s)] \in Rows
  BY <1>6, <1>7
<1>9. TypeOK'
  <2>1. nextId' \in 1..(MaxId + 1) /\ lastHash' \in Seq(Events)
    BY <1>1, <1>5, <1>8, ConstantsAssumption DEF LoadEntries, GenesisHash
  <2> QED
    BY <1>2, <1>4, <1>7, <2>1 DEF IInv, TypeOK, volatile, budget
<1>10. IdsAscend' /\ HeadIsLast'
  BY <1>1, <1>4 DEF IsOrderedTable, IdsAscend, HeadIsLast, LoadEntries
<1>11. ChainInv'
  BY <1>2, <1>4, <1>10 DEF IInv, TableInv, ChainInv, NeighboursLinked, DownIsEmpty
<1>12. TableInv'
  BY <1>2, <1>4 DEF IInv, TableInv, RowsMirrorChain, RowsKeyed, NeighboursLinked, Rows
<1>13. Provenance' /\ AckedIsStored'
  BY <1>2, <1>3 DEF IInv, Provenance, AckedIsStored, volatile
<1>14. LossLeavesError' /\ WatermarkIsStored'
  <2>1. \A e \in InMemory' : e.id \in DOMAIN rows'
    BY <1>2, <1>4 DEF IInv, TableInv, RowsKeyed, Rows
  <2> QED
    BY <1>2, <2>1 DEF IInv, LossLeavesError, WatermarkIsStored, volatile
<1>15. SnapshotBelowHead' /\ SnapshotRepairsHoles'
  BY <1>2 DEF SnapshotBelowHead, SnapshotRepairsHoles
<1> QED
  BY <1>9, <1>11, <1>12, <1>13, <1>14, <1>15 DEF IInv

LEMMA StutterInv ==
    ASSUME IInv, UNCHANGED vars PROVE IInv'
<1> USE DEF vars, volatile, budget
<1>1. ChainInv' /\ TableInv' /\ InMemory' = InMemory
  BY ChainAndTableKept
<1>2. TypeOK' /\ Provenance' /\ AckedIsStored'
  BY <1>1 DEF IInv, TypeOK, Provenance, AckedIsStored, memory
<1>3. LossLeavesError' /\ WatermarkIsStored' /\ SnapshotBelowHead' /\ SnapshotRepairsHoles'
  BY <1>1 DEF IInv, LossLeavesError, WatermarkIsStored, SnapshotBelowHead,
              SnapshotRepairsHoles, memory
<1> QED
  BY <1>1, <1>2, <1>3 DEF IInv

LEMMA NextInv == IInv /\ [Next]_vars => IInv'
<1> SUFFICES ASSUME IInv, [Next]_vars PROVE IInv'
  OBVIOUS
<1>1. ASSUME NEW event \in Event, AppendEvent(event) PROVE IInv'
  BY <1>1, AppendEventInv
<1>2. CASE Statement
  BY <1>2, CommitInv, RejectInv, ResolveInv DEF Statement
<1>3. ASSUME NEW c \in Cycle, Reconcile(c) PROVE IInv'
  BY <1>3, CycleQueryInv, CycleQueryFailsInv, CycleReadInv, CycleReplayInv,
     CycleReplayFailsInv DEF Reconcile
<1>4. CASE Shutdown
  <2>1. CASE StopBegin
    BY <2>1, StopBeginInv
  <2>2. CASE Exit
    BY <2>2, LoseMemoryInv DEF Exit, budget, IInv, TypeOK
  <2>3. CASE Crash
    <3>1. crashes' \in 0..MaxCrashes /\ faults' \in 0..MaxFaults
      BY <2>3, ConstantsAssumption DEF Crash, IInv, TypeOK
    <3> QED
      BY <2>3, <3>1, LoseMemoryInv DEF Crash
  <2>4. CASE Boot
    BY <2>4, BootInv
  <2>5. ASSUME NEW e \in snapshot.todo, SnapshotWrite(e) PROVE IInv'
    BY <2>5, SnapshotWriteInv
  <2>6. ASSUME NEW failed \in BOOLEAN, StopEnd(failed) PROVE IInv'
    BY <2>6, StopEndInv
  <2> QED
    BY <1>4, <2>1, <2>2, <2>3, <2>4, <2>5, <2>6 DEF Shutdown
<1>5. CASE UNCHANGED vars
  BY <1>5, StutterInv
<1> QED
  BY <1>1, <1>2, <1>3, <1>4, <1>5 DEF Next

-----------------------------------------------------------------------------
(* The theorems. *)

\* The strengthened invariant holds in every reachable state.
LEMMA Invariance == Spec => []IInv
<1> QED
  BY InitInv, NextInv, PTL DEF Spec

\* Every variable of the audit pipeline keeps its type.
THEOREM TypeCorrect == Spec => []TypeOK
<1>1. IInv => TypeOK
  BY DEF IInv
<1> QED
  BY <1>1, Invariance, PTL

\* The MySQL mirror is a copy of part of the chain: no lost reply, replay,
\* snapshot or reuse of an id after a crash makes a row differ from its entry.
THEOREM MirrorIsFaithful == Spec => []RowsMirrorChain
<1>1. IInv => RowsMirrorChain
  BY DEF IInv, TableInv
<1> QED
  BY <1>1, Invariance, PTL

\* An entry that is not stored and not under way has left an error to see.
THEOREM NoSilentLoss == Spec => []LossLeavesError
<1>1. IInv => LossLeavesError
  BY DEF IInv
<1> QED
  BY <1>1, Invariance, PTL

\* What is reported as durable is in the table.
THEOREM WatermarkSound == Spec => []WatermarkIsStored
<1>1. IInv => WatermarkIsStored
  BY DEF IInv
<1> QED
  BY <1>1, Invariance, PTL

\* The hash chain can be broken only where an id is missing.
THEOREM ChainBrokenOnlyAtGap == Spec => []BrokenOnlyAtGap
<1>1. ASSUME IInv PROVE BrokenOnlyAtGap
  <2>1. ASSUME NEW i \in 1..(Len(entries) - 1)
        PROVE  Linked(i) \/ entries[i + 1].id > entries[i].id + 1
    <3>1. i \in DOMAIN entries /\ i + 1 \in DOMAIN entries
      BY <1>1 DEF IInv, TypeOK
    <3>2. entries[i].id < entries[i + 1].id
      BY <1>1, <3>1 DEF IInv, ChainInv, IdsAscend
    <3>3. entries[i].id \in 1..MaxId /\ entries[i + 1].id \in 1..MaxId
      BY <1>1, <3>1, InMemoryTyped DEF IInv, TypeOK, InMemory
    <3>4. entries[i + 1].id = entries[i].id + 1 => entries[i + 1].prev = entries[i].hash
      BY <1>1, <3>1 DEF IInv, ChainInv, NeighboursLinked, InMemory
    <3> QED
      BY <3>2, <3>3, <3>4 DEF Linked
  <2> QED
    BY <1>1, <2>1 DEF IInv, ChainInv, HeadIsLast, BrokenOnlyAtGap
<1> QED
  BY <1>1, Invariance, PTL

\* A graceful stop repairs every hole up to the last entry it copied.
THEOREM SnapshotRepairs == Spec => []SnapshotRepairsHoles
<1>1. IInv => SnapshotRepairsHoles
  BY DEF IInv
<1> QED
  BY <1>1, Invariance, PTL
=============================================================================
