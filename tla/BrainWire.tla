----------------------------- MODULE BrainWire ------------------------------
(***************************************************************************)
(* The wire between a Brain and its Grid: GridWireClient.post_actions with *)
(* the SQLite queue behind it (brain/src/noesis_brain/wire), and the Grid's *)
(* routes POST /brain/actions and POST /brain/events/batch                 *)
(* (grid/src/api/routes/brain-wire.ts).                                    *)
(*                                                                         *)
(* The Brain posts the actions of a tick in a task of its own; what could  *)
(* not be delivered is queued and replayed, oldest first, after the next   *)
(* post that succeeds.  Messages are lost in both directions, and a        *)
(* request whose client has given up may still be served.  Either process  *)
(* may die: the queue and the table brain_event_ingest survive, tasks,     *)
(* requests and the Grid's index from Civic-DID to runner do not.          *)
(*                                                                         *)
(* An event stands for its idempotency key: an action of one Brain at one  *)
(* tick.  Actions decided on a message are all posted as of tick 0, so a   *)
(* Brain may well decide on the same event again.                          *)
(***************************************************************************)
EXTENDS Integers, FiniteSets, SequencesExt

CONSTANTS
    Event,       \* idempotency keys
    Posts,       \* what one call of post_actions may carry: sequences of events
    Task,        \* post_actions calls that may be in progress at the same time
    Request,     \* requests the Grid may be serving at the same time
    Stores,      \* may the Grid have a BrainEventIngestStore: subset of BOOLEAN
    Capacity,    \* QUEUE_CAPACITY
    BatchSize,   \* replay_batch_size
    MaxFaults    \* bound: messages and statements lost, dispatches that throw, crashes

ASSUME ConstantsAssumption ==
    /\ Posts \subseteq Seq(Event) \ {<< >>} /\ Stores \subseteq BOOLEAN
    /\ Capacity \in Nat \ {0} /\ BatchSize \in Nat \ {0} /\ MaxFaults \in Nat

VARIABLES
    store,      \* the Grid deduplicates: brainEventIngestStore is there
    bound,      \* the coordinator knows the runner of this Civic-DID
    task,       \* post_actions: the events posted and the request they are in
    queue,      \* wire_queue: row id -> event
    nextRow,    \* the next row id
    drain,      \* _maybe_replay: the rows dequeued and the request they are in
    request,    \* what the Grid does with each request
    ingested,   \* brain_event_ingest
    decided,    \* history, per event, 2 for more: decided by the Brain,
    executed,   \*   executed by the Grid,
    replayed,   \*   handed to the runner by the batch route
    acked,      \* history: events deleted from the queue by mark_acked
    cut,        \* history: events whose replay failed and will not be repeated
    faults

brain == <<task, queue, nextRow, drain>>
history == <<decided, executed, replayed, acked, cut>>
vars == <<store, bound, brain, request, ingested, history, faults>>

Idle == [pc |-> "idle"]
More(n) == IF n < 2 THEN n + 1 ELSE 2
Fault == faults < MaxFaults /\ faults' = faults + 1

Init ==
    /\ store \in Stores /\ bound = TRUE
    /\ task = [t \in Task |-> Idle]
    /\ queue = [r \in {} |-> {}] /\ nextRow = 1
    /\ drain = Idle
    /\ request = [r \in Request |-> Idle]
    /\ ingested = {}
    /\ decided = [e \in Event |-> 0]
    /\ executed = [e \in Event |-> 0]
    /\ replayed = [e \in Event |-> 0]
    /\ acked = {} /\ cut = {} /\ faults = 0

\* Nobody waits for the reply to a request when its client has given up.
Awaited(r) ==
    \/ \E t \in Task : task[t].pc = "posting" /\ task[t].r = r
    \/ drain.pc = "replaying" /\ drain.r = r
Free(r) == request[r] = Idle /\ ~Awaited(r)

Arriving(kind, events) == [pc |-> "arriving", kind |-> kind, todo |-> events]
Reply(status) == [pc |-> "reply", status |-> status]
Answer(r, status) == IF Awaited(r) THEN Reply(status) ELSE Idle

-----------------------------------------------------------------------------
(* The queue. *)

Rows(f, S) == [k \in S |-> f[k]]
Evict(rows) == Rows(rows, {k \in DOMAIN rows : \E l \in DOMAIN rows : l < k})

MakeRoom(rows) == IF Cardinality(DOMAIN rows) < Capacity THEN rows ELSE Evict(rows)

\* WireQueue.enqueue: make room by evicting the oldest row, then INSERT OR
\* IGNORE.  Room is made for an event that is in the queue already, too.
Enqueue(q, e) ==
    LET rows == MakeRoom(q.rows)
    IN  IF \E k \in DOMAIN rows : rows[k] = e
        THEN [rows |-> rows, next |-> q.next]
        ELSE [rows |-> [k \in DOMAIN rows \cup {q.next} |->
                            IF k = q.next THEN e ELSE rows[k]],
              next |-> q.next + 1]

EnqueueAll(events) ==
    LET after[n \in 0..Len(events)] ==
            IF n = 0 THEN [rows |-> queue, next |-> nextRow]
            ELSE Enqueue(after[n - 1], events[n])
        q == after[Len(events)]
    IN  queue' = q.rows /\ nextRow' = q.next

\* ORDER BY id: how many rows come before row k.
Rank(k, S) == Cardinality({l \in S : l < k})

\* dequeue_batch: the rows with the lowest ids; they stay in the table.
DequeueBatch(rows) ==
    Rows(rows, {k \in DOMAIN rows : Rank(k, DOMAIN rows) < BatchSize})

EventsOf(batch) ==
    LET ids == DOMAIN batch
    IN  [i \in 1..Cardinality(ids) |-> batch[CHOOSE k \in ids : Rank(k, ids) = i - 1]]

\* Mutant: as many rows are deleted as were sent, from the old end of the queue.
MarkAckedOldest(batch) ==
    {k \in DOMAIN queue : Rank(k, DOMAIN queue) < Cardinality(DOMAIN batch)}

\* mark_acked: the rows of the batch that are still there.
MarkAcked(batch) == DOMAIN queue \cap DOMAIN batch

-----------------------------------------------------------------------------
(* The Brain: post_actions, cut at the request. *)

Post(t, events, r) ==
    /\ task[t] = Idle /\ Free(r)
    /\ task' = [task EXCEPT ![t] = [pc |-> "posting", events |-> events, r |-> r]]
    /\ request' = [request EXCEPT ![r] = Arriving("live", events)]
    /\ decided' = [e \in Event |-> IF e \in ToSet(events) THEN More(decided[e]) ELSE decided[e]]
    /\ UNCHANGED <<store, bound, queue, nextRow, drain, ingested, executed, replayed,
                   acked, cut, faults>>

Sending(rows, r) == [pc |-> "replaying", batch |-> DequeueBatch(rows), r |-> r]

\* _maybe_replay: one drain at a time, and only when there is something queued.
\* The connection of the post that succeeded serves the first batch.
LiveAccepted(t) ==
    LET r == task[t].r
        starts == queue # << >> /\ drain = Idle
    IN  /\ task[t].pc = "posting" /\ request[r] = Reply("ok")
        /\ task' = [task EXCEPT ![t] = Idle]
        /\ drain' = IF starts THEN Sending(queue, r) ELSE drain
        /\ request' = [request EXCEPT ![r] =
                IF starts THEN Arriving("batch", EventsOf(DequeueBatch(queue))) ELSE Idle]
        /\ UNCHANGED <<store, bound, queue, nextRow, ingested, history, faults>>

\* A 5xx or a broken connection: every action of the post is queued.
LiveFailed(t) ==
    LET r == task[t].r
    IN  /\ task[t].pc = "posting" /\ request[r] \in {Reply("error"), Reply("broken")}
        /\ EnqueueAll(task[t].events)
        /\ task' = [task EXCEPT ![t] = Idle]
        /\ request' = [request EXCEPT ![r] = Idle]
        /\ UNCHANGED <<store, bound, drain, ingested, history, faults>>

\* A 4xx: the actions are logged and dropped.
LiveRefused(t) ==
    LET r == task[t].r
    IN  /\ task[t].pc = "posting" /\ request[r] = Reply("refused")
        /\ task' = [task EXCEPT ![t] = Idle]
        /\ request' = [request EXCEPT ![r] = Idle]
        /\ UNCHANGED <<store, bound, queue, nextRow, drain, ingested, history, faults>>

\* 2xx, accepted or duplicate: delete the batch and send the next one.
BatchAccepted ==
    LET r == drain.r
        gone == MarkAcked(drain.batch)
        rows == Rows(queue, DOMAIN queue \ gone)
    IN  /\ drain.pc = "replaying" /\ request[r] = Reply("ok")
        /\ queue' = rows
        /\ acked' = acked \cup {queue[k] : k \in gone}
        /\ drain' = IF rows = << >> THEN Idle ELSE Sending(rows, r)
        /\ request' = [request EXCEPT ![r] =
                IF rows = << >> THEN Idle ELSE Arriving("batch", EventsOf(DequeueBatch(rows)))]
        /\ UNCHANGED <<store, bound, task, nextRow, ingested, decided, executed, replayed,
                       cut, faults>>

\* Mutant: the lock of the replay is not released on an error.
StopDrainLocked == drain' = [pc |-> "locked"]
StopDrain == drain' = Idle

BatchFailed ==
    LET r == drain.r
    IN  /\ drain.pc = "replaying"
        /\ request[r] \in {Reply("error"), Reply("broken"), Reply("refused")}
        /\ StopDrain
        /\ request' = [request EXCEPT ![r] = Idle]
        /\ UNCHANGED <<store, bound, task, queue, nextRow, ingested, history, faults>>

\* What may be left of a request whose client has given up: it was lost on its
\* way, its reply was lost, or it is still being served.
LeftOf(r) ==
    CASE request[r].pc = "arriving" -> {Idle, request[r]}
      [] request[r].pc = "reply" -> {Idle}
      [] OTHER -> {request[r]}

LiveTimesOut(t) ==
    /\ task[t].pc = "posting" /\ Fault
    /\ EnqueueAll(task[t].events)
    /\ task' = [task EXCEPT ![t] = Idle]
    /\ \E left \in LeftOf(task[t].r) : request' = [request EXCEPT ![task[t].r] = left]
    /\ UNCHANGED <<store, bound, drain, ingested, history>>

BatchTimesOut ==
    /\ drain.pc = "replaying" /\ Fault
    /\ StopDrain
    /\ \E left \in LeftOf(drain.r) : request' = [request EXCEPT ![drain.r] = left]
    /\ UNCHANGED <<store, bound, task, queue, nextRow, ingested, history>>

\* The Brain restarts: the queue is a file, tasks and locks are not.
BrainCrash ==
    /\ Fault
    /\ task' = [t \in Task |-> Idle]
    /\ drain' = Idle
    /\ request' = [r \in Request |-> IF request[r].pc = "reply" THEN Idle ELSE request[r]]
    /\ UNCHANGED <<store, bound, queue, nextRow, ingested, history>>

-----------------------------------------------------------------------------
(* The Grid: the two routes, cut at the awaits between events. *)

\* The runner is looked up before anything else is done.
Route(r) ==
    /\ request[r].pc = "arriving"
    /\ request' = [request EXCEPT ![r] =
            IF bound THEN [request[r] EXCEPT !.pc = "serving"] ELSE Answer(r, "refused")]
    /\ UNCHANGED <<store, bound, brain, ingested, history, faults>>

\* On to the next event of the request, or the reply when there is none.
Continue(r) ==
    request' = [request EXCEPT ![r] =
        IF Len(request[r].todo) = 1 THEN Answer(r, "ok")
        ELSE [pc |-> "serving", kind |-> request[r].kind, todo |-> Tail(request[r].todo)]]

Serving(r, kind) == request[r].pc = "serving" /\ request[r].kind = kind
Current(r) == Head(request[r].todo)

ExecuteLive(r) ==
    /\ Serving(r, "live")
    /\ executed' = [executed EXCEPT ![Current(r)] = More(executed[Current(r)])]
    /\ Continue(r)
    /\ UNCHANGED <<store, bound, brain, ingested, decided, replayed, acked, cut, faults>>

\* executeActions throws: what came before has been done, the rest is not.
LiveThrows(r) ==
    /\ Serving(r, "live") /\ Fault
    /\ request' = [request EXCEPT ![r] = Answer(r, "error")]
    /\ UNCHANGED <<store, bound, brain, ingested, history>>

\* Mutant: the INSERT is not IGNORE: a key may be ingested again.
IsDuplicateNever(e) == FALSE
IsDuplicate(e) == e \in ingested

\* INSERT IGNORE into brain_event_ingest: skip a duplicate, dispatch a new event.
Probe(r) ==
    /\ store /\ Serving(r, "batch")
    /\ IF IsDuplicate(Current(r))
       THEN Continue(r) /\ UNCHANGED ingested
       ELSE /\ ingested' = ingested \cup {Current(r)}
            /\ request' = [request EXCEPT ![r].pc = "dispatch"]
    /\ UNCHANGED <<store, bound, brain, history, faults>>

\* The statement fails, or is executed and its reply is lost: a 500.
ProbeFails(r, inserted) ==
    LET e == Current(r)
        lost == inserted /\ e \notin ingested
    IN  /\ store /\ Serving(r, "batch") /\ Fault
        /\ ingested' = IF lost THEN ingested \cup {e} ELSE ingested
        /\ cut' = IF lost THEN cut \cup {e} ELSE cut
        /\ request' = [request EXCEPT ![r] = Answer(r, "error")]
        /\ UNCHANGED <<store, bound, brain, decided, executed, replayed, acked>>

Dispatching(r) == request[r].pc = "dispatch" \/ (~store /\ Serving(r, "batch"))

Dispatch(r) ==
    LET e == Current(r)
    IN  /\ Dispatching(r)
        /\ replayed' = [replayed EXCEPT ![e] = More(replayed[e])]
        /\ executed' = [executed EXCEPT ![e] = More(executed[e])]
        /\ Continue(r)
        /\ UNCHANGED <<store, bound, brain, ingested, decided, acked, cut, faults>>

\* The dispatch throws: logged, and the loop goes on to its reply of 200.
DispatchThrows(r) ==
    LET e == Current(r)
    IN  /\ Dispatching(r) /\ Fault
        /\ replayed' = [replayed EXCEPT ![e] = More(replayed[e])]
        /\ cut' = cut \cup {e}
        /\ Continue(r)
        /\ UNCHANGED <<store, bound, brain, ingested, decided, executed, acked>>

\* The Grid restarts.  registerCivicDid is called when a Civic-DID is issued,
\* which happens once: nothing binds it to a runner again.
GridCrash ==
    /\ Fault
    /\ bound' = FALSE
    /\ cut' = cut \cup {Current(r) : r \in {q \in Request : request[q].pc = "dispatch"}}
    /\ request' = [r \in Request |-> IF Awaited(r) THEN Reply("broken") ELSE Idle]
    /\ UNCHANGED <<store, brain, ingested, decided, executed, replayed, acked>>

-----------------------------------------------------------------------------
Posting(t) == \E events \in Posts, r \in Request : Post(t, events, r)
Returning(t) == LiveAccepted(t) \/ LiveFailed(t) \/ LiveRefused(t)
Draining == BatchAccepted \/ BatchFailed
Handling(r) == Route(r) \/ ExecuteLive(r) \/ Probe(r) \/ Dispatch(r)

Failing ==
    \/ \E t \in Task : LiveTimesOut(t)
    \/ BatchTimesOut \/ BrainCrash \/ GridCrash
    \/ \E r \in Request : \/ LiveThrows(r) \/ DispatchThrows(r)
                          \/ \E inserted \in BOOLEAN : ProbeFails(r, inserted)

Next ==
    \/ \E t \in Task : Posting(t) \/ Returning(t)
    \/ Draining
    \/ \E r \in Request : Handling(r)
    \/ Failing

Spec == Init /\ [][Next]_vars

\* The Brain goes on acting, the Grid serves what arrives, replies are read.
Fairness ==
    /\ \A t \in Task : WF_vars(Posting(t)) /\ WF_vars(Returning(t))
    /\ WF_vars(Draining)
    /\ \A r \in Request : WF_vars(Handling(r))

FairSpec == Spec /\ Fairness

-----------------------------------------------------------------------------
(* Properties. *)

RequestState ==
    {Idle}
    \cup [pc : {"arriving", "serving", "dispatch"}, kind : {"live", "batch"}, todo : Seq(Event)]
    \cup [pc : {"reply"}, status : {"ok", "error", "broken", "refused"}]

\* Every variable keeps its type; the queue is never longer than its capacity.
TypeOK ==
    /\ store \in Stores /\ bound \in BOOLEAN /\ nextRow \in Nat /\ faults \in 0..MaxFaults
    /\ \A t \in Task : task[t] = Idle \/
          task[t] \in [pc : {"posting"}, events : Posts, r : Request]
    /\ Cardinality(DOMAIN queue) <= Capacity
    /\ \A k \in DOMAIN queue : k \in 1..(nextRow - 1) /\ queue[k] \in Event
    /\ drain = Idle \/ /\ drain.pc = "replaying" /\ drain.r \in Request
                       /\ DOMAIN drain.batch \subseteq 1..(nextRow - 1)
    /\ \A r \in Request : request[r] \in RequestState
    /\ ingested \subseteq Event /\ acked \subseteq Event /\ cut \subseteq Event
    /\ {decided, executed, replayed} \subseteq [Event -> 0..2]

\* A row is deleted from the queue only for an event the Grid has dealt with:
\* executed, or taken into the ingest table by a request that is just about to
\* execute it, or cut short (see cut).  This holds although rows are evicted and
\* queued again while their batch is under way, replies are lost, and a request
\* given up is overtaken by the one that repeats it.
AboutToExecute(e) == \E r \in Request : request[r].pc = "dispatch" /\ Current(r) = e
AckedWasHandled == \A e \in acked : executed[e] > 0 \/ AboutToExecute(e) \/ e \in cut

\* With the ingest table an event is replayed at most once, however often its
\* batch is sent, by a Brain that has restarted, and to a Grid that has.
ReplayedOnce == store => \A e \in Event : replayed[e] <= 1

\* What is queued does not stay queued: while the Brain acts and the Grid knows
\* its runner, every row is delivered or evicted in the end.  After a restart of
\* the Grid (~bound) every request is refused and the queue stays as it is.
Queued(e) == \E k \in DOMAIN queue : queue[k] = e
QueueDrains == \A e \in Event : Queued(e) /\ bound ~> ~Queued(e) \/ ~bound

\* 38-03-PLAN.md:73: the idempotency keys make delivery "exactly-once at the
\* chain": nothing is executed more often than the Brain has decided it.
ExecutedAsDecided == \A e \in Event : executed[e] <= decided[e]
=============================================================================
