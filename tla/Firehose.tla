------------------------------ MODULE Firehose ------------------------------
(***************************************************************************)
(* The event stream of the audit chain: the hub of the Grid                *)
(* (grid/src/api/ws-hub.ts) with its ring buffer per client, the client of *)
(* the dashboard (dashboard/src/lib/transport) and the REST backfill of    *)
(* what the hub has dropped.                                               *)
(*                                                                         *)
(* One dashboard page and its successive connections to one run of the     *)
(* Grid.  Bytes are counted in frames.  The page subscribes without        *)
(* filters.  tryDrain is a microtask of the task that enqueued: until it   *)
(* has run the Grid does nothing else but append further entries.          *)
(*                                                                         *)
(* The chain the Grid booted with may have holes (AuditPersistence): ids   *)
(* go on after the last one loaded, and the array is shorter than that.    *)
(* The hub takes the length of the array for the head of the chain and     *)
(* compares it with ids.                                                   *)
(***************************************************************************)
EXTENDS Integers, Sequences, FiniteSets

CONSTANTS
    BufferCapacity,     \* entries of a ring buffer (256)
    Watermark,    \* frames a socket may hold before the hub stops sending (1 MiB)
    Window,       \* REPLAY_WINDOW (512)
    PageCapacity, \* entries the page keeps (500)
    MaxLoaded,    \* bound: ids the Grid boots with
    MaxEntries,   \* bound: ids of the chain
    MaxConnects   \* bound: connections of the page

ASSUME HubAssumption ==
    /\ BufferCapacity \in Nat \ {0} /\ Watermark \in Nat \ {0} /\ Window \in Nat
    /\ PageCapacity \in Nat \ {0}
    /\ MaxLoaded \in 0..MaxEntries /\ MaxEntries \in Nat \ {0} /\ MaxConnects \in Nat

VARIABLES
    chain,     \* per id, whether its entry is allowlisted or has been lost
    conn,      \* phase of the connection, the sinceId it subscribes with, the
               \* last id when the hub attached it, and connections made
    hub,       \* ClientConnection: buffer, droppedMin and Max, microtask pending
    stream,    \* frames sent on this connection
    socket,    \* read: frames the page has handled; held: the last ones sent,
               \* which the socket of the Grid still holds (bufferedAmount)
    page       \* lastSeenId, the entries shown, oldest first, the refills in
               \* progress; history: the ids that shown has pushed out

hubVars == <<chain, conn, hub, stream, socket, page>>

Kind == {"public", "private", "lost"}
LastId == Len(chain)
Id == 1..LastId
Allowlisted == {i \in Id : chain[i] = "public"}
Missing == Cardinality({i \in Id : chain[i] = "lost"})
\* audit.length
Length == LastId - Missing
NoRange == [min |-> 0, max |-> 0]
NewHub == [buffer |-> << >>, dropped |-> NoRange, draining |-> FALSE]

Hello == [type |-> "hello"]
EventFrame(id) == [type |-> "event", id |-> id]
Dropped(since, latest) == [type |-> "dropped", since |-> since, latest |-> latest]
Bye == [type |-> "bye"]

\* What the hub has of a connection: its buffer, and the frames it sends.
Link == [hub |-> hub, out |-> << >>, held |-> socket.held]
Sent(l, frame) == [l EXCEPT !.out = Append(l.out, frame), !.held = l.held + 1]
\* Mutant: only the first entry that was evicted is announced.
WidenedOnce(range, id) == IF range = NoRange THEN [min |-> id, max |-> id] ELSE range

Widened(range, id) ==
    IF range = NoRange THEN [min |-> id, max |-> id]
    ELSE [min |-> IF id < range.min THEN id ELSE range.min,
          max |-> IF id > range.max THEN id ELSE range.max]

\* RingBuffer.push, with the id of what it evicted remembered.
Pushed(h, id) ==
    LET full == Len(h.buffer) >= BufferCapacity
    IN  [buffer |-> Append(IF full THEN Tail(h.buffer) ELSE h.buffer, id),
         dropped |-> IF full THEN Widened(h.dropped, h.buffer[1]) ELSE h.dropped,
         draining |-> TRUE]

\* ClientConnection.enqueue
Enqueued(l, id) ==
    IF l.hub.buffer = << >> /\ l.hub.dropped = NoRange /\ l.held < Watermark
    THEN Sent(l, EventFrame(id))
    ELSE [l EXCEPT !.hub = Pushed(l.hub, id)]

\* The loop of replayForClient: every entry above since is enqueued if it is
\* allowlisted.
Replayed(since) ==
    LET after[n \in 0..LastId] ==
            IF n = 0 THEN Link
            ELSE IF n > since /\ chain[n] = "public" THEN Enqueued(after[n - 1], n)
            ELSE after[n - 1]
    IN  after[LastId]

Put(l) ==
    /\ hub' = l.hub
    /\ stream' = stream \o l.out
    /\ socket' = [socket EXCEPT !.held = l.held]

Attached == conn.phase \in {"open", "subscribed"}
MicrotasksDone == ~hub.draining

-----------------------------------------------------------------------------
HubInit ==
    /\ \E n \in 0..MaxLoaded : chain \in [1..n -> Kind] /\ (n > 0 => chain[n] # "lost")
    /\ conn = [phase |-> "down", since |-> 0, joined |-> 0, made |-> 0]
    /\ hub = NewHub /\ stream = << >> /\ socket = [read |-> 0, held |-> 0]
    /\ page = [lastSeen |-> 0, shown |-> << >>, gone |-> {}, refills |-> {}, halted |-> FALSE]

\* onAuditEvent: a connected client gets live entries before it has subscribed.
AppendEntry(kind) ==
    /\ LastId < MaxEntries /\ conn.phase # "closing"
    /\ chain' = Append(chain, kind)
    /\ IF kind = "public" /\ Attached
       THEN Put(Enqueued(Link, LastId + 1))
       ELSE UNCHANGED <<hub, stream, socket>>
    /\ UNCHANGED <<conn, page>>

\* Mutant: what does not fit is not put back, and more is sent than fits.
TryDrainAll ==
    /\ hub.draining
    /\ LET marked == IF hub.dropped = NoRange THEN Link
                     ELSE Sent(Link, Dropped(hub.dropped.min, hub.dropped.max))
       IN  Put([hub |-> NewHub, held |-> marked.held + Len(hub.buffer),
                out |-> marked.out \o [k \in 1..Len(hub.buffer) |-> EventFrame(hub.buffer[k])]])
    /\ UNCHANGED <<chain, conn, page>>

\* The announcement first, then entries as long as the socket takes them.
TryDrain ==
    /\ hub.draining
    /\ LET idle == [hub EXCEPT !.draining = FALSE]
           marked == IF hub.dropped = NoRange THEN Link
                     ELSE Sent(Link, Dropped(hub.dropped.min, hub.dropped.max))
           room == Watermark - marked.held
           n == IF room < 0 THEN 0 ELSE IF room < Len(hub.buffer) THEN room ELSE Len(hub.buffer)
       IN  IF socket.held >= Watermark
           THEN hub' = idle /\ UNCHANGED <<stream, socket>>
           ELSE Put([hub |-> [NewHub EXCEPT !.buffer = SubSeq(hub.buffer, n + 1, Len(hub.buffer))],
                     held |-> marked.held + n,
                     out |-> marked.out \o [k \in 1..n |-> EventFrame(hub.buffer[k])]])
    /\ UNCHANGED <<chain, conn, page>>

Flush ==
    /\ MicrotasksDone /\ socket.held > 0
    /\ socket' = [socket EXCEPT !.held = @ - 1]
    /\ UNCHANGED <<chain, conn, hub, stream, page>>

\* The page opens a socket: the hub attaches a new ClientConnection and says
\* hello; the page will subscribe from the last id it has seen.
Connect ==
    /\ conn.phase = "down" /\ ~page.halted /\ conn.made < MaxConnects
    /\ conn' = [phase |-> "open", since |-> page.lastSeen, joined |-> LastId,
                made |-> conn.made + 1]
    /\ hub' = NewHub /\ stream' = <<Hello>> /\ socket' = [read |-> 0, held |-> 1]
    /\ UNCHANGED <<chain, page>>

\* handleClientMessage and replayForClient.
Subscribe ==
    /\ conn.phase = "open" /\ MicrotasksDone
    /\ conn' = [conn EXCEPT !.phase = "subscribed"]
    /\ LET gap == Length - conn.since
       IN  \/ gap <= 0 /\ UNCHANGED <<hub, stream, socket>>
           \/ gap > Window /\ Put(Sent(Link, Dropped(conn.since, Length)))
           \/ gap \in 1..Window /\ Put(Replayed(conn.since))
    /\ UNCHANGED <<chain, page>>

\* The connection breaks; frames not yet read and entries buffered are lost.
Disconnect ==
    /\ conn.phase # "down" /\ MicrotasksDone
    /\ conn' = [conn EXCEPT !.phase = "down"]
    /\ hub' = NewHub /\ stream' = << >> /\ socket' = [read |-> 0, held |-> 0]
    /\ UNCHANGED <<chain, page>>

\* close(): bye to the client, and no further entries.
Close ==
    /\ Attached /\ MicrotasksDone
    /\ conn' = [conn EXCEPT !.phase = "closing"]
    /\ Put(Sent([Link EXCEPT !.hub = NewHub], Bye))
    /\ UNCHANGED <<chain, page>>

-----------------------------------------------------------------------------
(* The page. *)

Seen(id) == IF id > page.lastSeen THEN id ELSE page.lastSeen

\* What a refill has brought carries no id; the store gives it one of its own.
Copy == 0

\* FirehoseStore.ingest: above its capacity the store drops what came first.
Ingested(entries) ==
    LET all == page.shown \o entries
        over == Len(all) - PageCapacity
        n == IF over > 0 THEN over ELSE 0
    IN  [page EXCEPT !.shown = SubSeq(all, n + 1, Len(all)),
                     !.gone = page.gone \cup ({all[k] : k \in 1..n} \ {Copy})]

OnPage(id) == \E k \in DOMAIN page.shown : page.shown[k] = id

\* Mutant: an entry below the last id seen is taken for one already shown.
ShownIfNewer(id) == IF id > page.lastSeen THEN Ingested(<<id>>) ELSE page
\* An id is a duplicate only while its entry is on the page.
Shown(id) == IF OnPage(id) THEN page ELSE Ingested(<<id>>)

\* A range with one id is taken for empty.
RefillOf(frame) ==
    IF frame.since = frame.latest
    THEN [page EXCEPT !.lastSeen = Seen(frame.latest)]
    ELSE [page EXCEPT !.refills = page.refills \cup {[since |-> frame.since, latest |-> frame.latest]}]

Handled(frame) ==
    CASE frame.type = "hello" -> page
      [] frame.type = "event" -> [Shown(frame.id) EXCEPT !.lastSeen = Seen(frame.id)]
      [] frame.type = "dropped" -> RefillOf(frame)
      [] frame.type = "bye" -> [page EXCEPT !.halted = TRUE]

Receive ==
    /\ socket.read + socket.held < Len(stream)
    /\ page' = Handled(stream[socket.read + 1])
    /\ socket' = [socket EXCEPT !.read = @ + 1]
    /\ UNCHANGED <<chain, conn, hub, stream>>

\* GET /audit/trail looks at the limit only: it returns the newest entries, of
\* any type, and without their ids.
Trail(limit) ==
    {i \in Id : /\ chain[i] # "lost"
                /\ Cardinality({j \in Id : j > i /\ chain[j] # "lost"}) < limit}

\* runRefill asks until it has as many entries as the range has ids.  None of
\* them has an id, so that lastSeenId stays.
Refilled(r) ==
    /\ r \in page.refills
    /\ page' = [Ingested([k \in 1..(r.latest - r.since) |-> Copy])
                   EXCEPT !.refills = page.refills \ {r}]

RefillAnswered(r) == Refilled(r) /\ UNCHANGED <<chain, conn, hub, stream, socket>>

\* A failed refill is logged.
RefillFails(r) ==
    /\ r \in page.refills
    /\ page' = [page EXCEPT !.refills = page.refills \ {r}]
    /\ UNCHANGED <<chain, conn, hub, stream, socket>>

HubNext ==
    \/ \E kind \in Kind \ {"lost"} : AppendEntry(kind)
    \/ TryDrain \/ Flush \/ Connect \/ Subscribe \/ Disconnect \/ Close
    \/ Receive
    \/ \E r \in page.refills : RefillAnswered(r) \/ RefillFails(r)

HubSpec == HubInit /\ [][HubNext]_hubVars

-----------------------------------------------------------------------------
(* Properties. *)

DroppedRange == [since : 0..LastId, latest : Id]
Frame == {Hello, Bye} \cup {EventFrame(i) : i \in Id}
         \cup {Dropped(r.since, r.latest) : r \in DroppedRange}

\* Every variable keeps its type, no id is above the last one of the chain, the
\* page and the ring buffer keep their capacity, and the frames read and the
\* frames held are frames sent.
HubTypeOK ==
    /\ chain \in Seq(Kind) /\ LastId <= MaxEntries
    /\ conn \in [phase : {"down", "open", "subscribed", "closing"},
                 since : 0..LastId, joined : 0..LastId, made : 0..MaxConnects]
    /\ hub \in [buffer : Seq(Id), draining : BOOLEAN,
                dropped : {NoRange} \cup [min : Id, max : Id]]
    /\ Len(hub.buffer) <= BufferCapacity
    /\ stream \in Seq(Frame)
    /\ socket \in [read : Nat, held : Nat]
    /\ socket.read + socket.held <= Len(stream)
    /\ page \in [lastSeen : 0..LastId, shown : Seq(0..LastId), gone : SUBSET Id,
                 refills : SUBSET DroppedRange, halted : BOOLEAN]
    /\ Len(page.shown) <= PageCapacity

FramesOf(type) == {stream[k] : k \in {j \in DOMAIN stream : stream[j].type = type}}
Announced(i) == \E f \in FramesOf("dropped") : f.since <= i /\ i <= f.latest
Waiting(i) ==
    \/ \E k \in DOMAIN hub.buffer : hub.buffer[k] = i
    \/ hub.dropped # NoRange /\ hub.dropped.min <= i /\ i <= hub.dropped.max

\* What a connection owes the page: entries appended since it was attached and,
\* once it has subscribed, those after its sinceId, except as many of the newest
\* ids as the chain has holes: so far the length lags behind the last id.
Owed ==
    {i \in Allowlisted :
        \/ i > conn.joined
        \/ conn.phase = "subscribed" /\ conn.since < i /\ i <= conn.joined - Missing}

\* The hub loses nothing silently, however slow the socket: an entry owed to a
\* client was sent, waits in its ring buffer, or lies in a range of which the
\* client was, or will be, told that it was dropped.
NoSilentGap ==
    Attached => \A i \in Owed : EventFrame(i) \in FramesOf("event") \/ Announced(i) \/ Waiting(i)

\* A client that does not read costs the Grid a bounded amount of memory: the
\* ring buffer, the watermark, and the frames sent without looking at it (the
\* answer to the subscription and the bye).
HeldIsBounded == socket.held + Len(hub.buffer) <= Watermark + BufferCapacity + 2

\* A page that has read everything, from a hub that holds nothing back and has
\* announced nothing dropped on this connection, has every entry owed to it,
\* although replayed entries may follow live ones with higher ids: it shows the
\* entry, or is full and has pushed it out for entries that arrived later.
QuietIsCaughtUp ==
    (/\ conn.phase = "subscribed" /\ socket.read = Len(stream)
     /\ hub = NewHub /\ FramesOf("dropped") = {})
    => \A i \in Owed : OnPage(i) \/ (i \in page.gone /\ Len(page.shown) = PageCapacity)

\* dashboard/src/lib/transport/ws-client.ts:4-6: the client carries lastSeenId "so
\* the server can replay missed events from the ring buffer (or emit `dropped`
\* when we're outside the replay window)".
ReplayIsComplete ==
    conn.phase = "subscribed" =>
        \A i \in Allowlisted :
            i > conn.since => EventFrame(i) \in FramesOf("event") \/ Announced(i) \/ Waiting(i)

\* dashboard/src/lib/transport/refill.ts:4-7: the backfill "closes the gap by
\* paginating /api/v1/audit/trail between (sinceId, latestId]".
RefillClosesGap ==
    [][\A r \in page.refills :
          Refilled(r) => {i \in Allowlisted : r.since < i /\ i <= r.latest}
                            \subseteq Trail(r.latest - r.since) \cup {i \in Id : OnPage(i)}
      ]_hubVars
=============================================================================
