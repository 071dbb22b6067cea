---------------------------- MODULE StreamProofs -----------------------------
(***************************************************************************)
(* The two streams between the Grid and what is outside of it: the wire of *)
(* a Brain and the event stream of a dashboard page.                       *)
(*                                                                         *)
(* The wire, for any number of tasks, requests and faults and any size of  *)
(* the queue and of its batches.  That no event is replayed twice is not   *)
(* inductive: a request between its probe and its dispatch holds the right *)
(* to replay its event, and the strengthening says that this right is      *)
(* given to one request at a time, for a key that is in the table, before  *)
(* the first replay (IInv).  That what is acknowledged was dealt with      *)
(* needs what the batch under way promises: its rows still have the events *)
(* they were sent with, and an event of it that was not dealt with is open *)
(* at the request that carries the batch (WireInv).                        *)
(*                                                                         *)
(* The stream, for any capacity, watermark, window and length of the       *)
(* chain: a connection is looked at as a link that sends or keeps entries, *)
(* and every handler of the hub turns a link into one that covers no less  *)
(* (HubInv).                                                               *)
(***************************************************************************)
EXTENDS BrainWire, Firehose, FiniteSetTheorems, SequenceTheorems, WellFoundedInduction, TLAPS

\* A set of natural numbers that is not empty has a least element.
LEMMA LeastNat ==
    ASSUME NEW T \in SUBSET Nat, T # {}
    PROVE  \E x \in T : \A y \in T : x <= y
<1>1. \E x \in T : \A y \in T : ~ (<<y, x>> \in OpToRel(<, Nat))
  BY NatLessThanWellFounded, WFMin
<1>2. \A x, y \in Nat : <<y, x>> \in OpToRel(<, Nat) <=> y < x
  BY DEF OpToRel
<1>3. PICK x \in T : \A y \in T : ~ (<<y, x>> \in OpToRel(<, Nat))
  BY <1>1
<1>4. \A y \in T : x \in Nat /\ y \in Nat /\ ~(y < x)
  BY <1>2, <1>3
<1>5. \A y \in T : x <= y
  BY <1>4
<1> QED
  BY <1>5

-----------------------------------------------------------------------------
(* The wire: an event is replayed at most once. *)

InDispatch(r) == request[r].pc = "dispatch"

ReplayedIsIngested == \A e \in Event : replayed[e] > 0 => e \in ingested
DispatchIsFirst ==
    \A r \in Request : InDispatch(r) =>
        /\ Current(r) \in ingested
        /\ Current(r) \in Event => replayed[Current(r)] = 0
DispatchIsAlone ==
    \A r, q \in Request :
        InDispatch(r) /\ InDispatch(q) /\ Current(r) = Current(q) => r = q

Shape == DOMAIN request = Request /\ replayed \in [Event -> 0..2]
IInv ==
    /\ Shape
    /\ store => ReplayedIsIngested /\ DispatchIsFirst /\ DispatchIsAlone /\ ReplayedOnce

-----------------------------------------------------------------------------
LEMMA InitInv == Init => IInv
BY DEF Init, IInv, Shape, ReplayedIsIngested, DispatchIsFirst, DispatchIsAlone,
       ReplayedOnce, InDispatch, Idle

\* Requests that were in dispatch and still are.
Undisturbed ==
    /\ DOMAIN request' = Request
    /\ \A r \in Request : request'[r].pc = "dispatch" => request'[r] = request[r]

\* A step that neither ingests nor replays, and puts no request into dispatch.
LEMMA QuietStep ==
    ASSUME IInv, Undisturbed, UNCHANGED <<store, ingested, replayed>>
    PROVE  IInv'
<1>1. Shape'
  BY DEF IInv, Shape, Undisturbed
<1>2. ASSUME store PROVE (ReplayedIsIngested /\ ReplayedOnce)'
  BY <1>2 DEF IInv, ReplayedIsIngested, ReplayedOnce
<1>3. ASSUME store PROVE (DispatchIsFirst /\ DispatchIsAlone)'
  BY <1>3 DEF IInv, DispatchIsFirst, DispatchIsAlone, InDispatch, Current, Undisturbed
<1> QED
  BY <1>1, <1>2, <1>3 DEF IInv

\* The states requests are put into, none of which is "dispatch".
LEMMA Statuses ==
    /\ Idle.pc # "dispatch"
    /\ \A status : Reply(status).pc # "dispatch"
    /\ \A r, status : Answer(r, status).pc # "dispatch"
    /\ \A kind, events : Arriving(kind, events).pc # "dispatch"
BY DEF Idle, Reply, Answer, Arriving

\* One request is given a state that is not "dispatch", or keeps the one it has.
LEMMA OneRequest ==
    ASSUME IInv, NEW r, NEW value, request' = [request EXCEPT ![r] = value],
           value.pc # "dispatch" \/ value = request[r]
    PROVE  Undisturbed
BY DEF IInv, Shape, Undisturbed

\* After an event the request goes on to the next one or is answered.
LEMMA ContinueLeavesDispatch ==
    ASSUME IInv, NEW r \in Request, Continue(r)
    PROVE  Undisturbed /\ request'[r].pc # "dispatch"
<1> DEFINE value == IF Len(request[r].todo) = 1 THEN Answer(r, "ok")
                    ELSE [pc |-> "serving", kind |-> request[r].kind,
                          todo |-> Tail(request[r].todo)]
<1>1. request' = [request EXCEPT ![r] = value]
  BY DEF Continue
<1>2. value.pc # "dispatch"
  BY Statuses
<1> HIDE DEF value
<1> QED
  BY <1>1, <1>2, OneRequest DEF IInv, Shape

-----------------------------------------------------------------------------
(* The Brain never touches the table of the Grid. *)

LEMMA BrainInv ==
    ASSUME IInv,
           \/ \E t \in Task : Posting(t) \/ Returning(t) \/ LiveTimesOut(t)
           \/ Draining \/ BatchTimesOut \/ BrainCrash
    PROVE  IInv'
<1>1. ASSUME NEW t \in Task, NEW events \in Posts, NEW r \in Request, Post(t, events, r)
      PROVE  IInv'
  BY <1>1, Statuses, OneRequest, QuietStep DEF Post
<1>2. ASSUME NEW t \in Task, LiveAccepted(t) PROVE IInv'
  <2>1. \E value : /\ request' = [request EXCEPT ![task[t].r] = value]
                   /\ value.pc # "dispatch"
    <3> DEFINE value == IF queue # << >> /\ drain = Idle
                        THEN Arriving("batch", EventsOf(DequeueBatch(queue))) ELSE Idle
    <3>1. request' = [request EXCEPT ![task[t].r] = value]
      BY <1>2 DEF LiveAccepted
    <3>2. value.pc # "dispatch"
      BY Statuses
    <3> QED
      BY <3>1, <3>2
  <2>2. UNCHANGED <<store, ingested, replayed>>
    BY <1>2 DEF LiveAccepted, history
  <2> QED
    BY <2>1, <2>2, OneRequest, QuietStep
<1>3. ASSUME NEW t \in Task, LiveFailed(t) \/ LiveRefused(t) PROVE IInv'
  <2>1. request' = [request EXCEPT ![task[t].r] = Idle]
    BY <1>3 DEF LiveFailed, LiveRefused
  <2> QED
    BY <1>3, <2>1, Statuses, OneRequest, QuietStep DEF LiveFailed, LiveRefused, history
<1>4. CASE BatchAccepted
  <2>1. \E value : /\ request' = [request EXCEPT ![drain.r] = value]
                   /\ value.pc # "dispatch"
    BY <1>4, Statuses DEF BatchAccepted
  <2> QED
    BY <1>4, <2>1, OneRequest, QuietStep DEF BatchAccepted
<1>5. CASE BatchFailed
  BY <1>5, Statuses, OneRequest, QuietStep DEF BatchFailed, history
<1>6. \A r : \A left \in LeftOf(r) : left.pc # "dispatch" \/ left = request[r]
  BY Statuses DEF LeftOf
<1>7. ASSUME NEW t \in Task, LiveTimesOut(t) PROVE IInv'
  BY <1>6, <1>7, OneRequest, QuietStep DEF LiveTimesOut, history
<1>8. CASE BatchTimesOut
  BY <1>6, <1>8, OneRequest, QuietStep DEF BatchTimesOut, history
<1>9. CASE BrainCrash
  <2>1. Undisturbed
    BY <1>9, Statuses DEF BrainCrash, Undisturbed
  <2> QED
    BY <1>9, <2>1, QuietStep DEF BrainCrash, history
<1> QED
  BY <1>1, <1>2, <1>3, <1>4, <1>5, <1>7, <1>8, <1>9 DEF Posting, Returning, Draining

-----------------------------------------------------------------------------
(* The Grid serves, probes and dispatches. *)

\* The steps of a request other than its probe and its dispatch.
LEMMA QuietGridInv ==
    ASSUME IInv,
           \/ \E r \in Request : \/ Route(r) \/ ExecuteLive(r) \/ LiveThrows(r)
           \/ GridCrash
    PROVE  IInv'
<1>1. ASSUME NEW r \in Request, Route(r) PROVE IInv'
  <2>1. [request[r] EXCEPT !.pc = "serving"].pc # "dispatch"
    BY <1>1 DEF Route
  <2>2. \E value : /\ request' = [request EXCEPT ![r] = value]
                   /\ value.pc # "dispatch"
    BY <1>1, <2>1, Statuses DEF Route
  <2> QED
    BY <1>1, <2>2, OneRequest, QuietStep DEF Route, history
<1>2. ASSUME NEW r \in Request, ExecuteLive(r) PROVE IInv'
  BY <1>2, ContinueLeavesDispatch, QuietStep DEF ExecuteLive
<1>3. ASSUME NEW r \in Request, LiveThrows(r) PROVE IInv'
  BY <1>3, Statuses, OneRequest, QuietStep DEF LiveThrows, history
<1>4. CASE GridCrash
  <2>1. Undisturbed
    BY <1>4, Statuses DEF GridCrash, Undisturbed
  <2> QED
    BY <1>4, <2>1, QuietStep DEF GridCrash
<1> QED
  BY <1>1, <1>2, <1>3, <1>4

\* A statement that fails may still have stored its key; nothing is replayed.
LEMMA ProbeFailsInv ==
    ASSUME IInv, NEW r \in Request, NEW inserted \in BOOLEAN, ProbeFails(r, inserted)
    PROVE  IInv'
<1>1. Undisturbed
  BY Statuses, OneRequest DEF ProbeFails
<1>2. ingested \subseteq ingested' /\ UNCHANGED <<store, replayed>>
  BY DEF ProbeFails
<1>3. Shape'
  BY <1>1, <1>2 DEF IInv, Shape, Undisturbed
<1>4. ASSUME store PROVE (ReplayedIsIngested /\ ReplayedOnce)'
  BY <1>2, <1>4 DEF IInv, ReplayedIsIngested, ReplayedOnce
<1>5. ASSUME store PROVE (DispatchIsFirst /\ DispatchIsAlone)'
  BY <1>1, <1>2, <1>5
     DEF IInv, DispatchIsFirst, DispatchIsAlone, InDispatch, Current, Undisturbed
<1> QED
  BY <1>2, <1>3, <1>4, <1>5 DEF IInv

\* The probe gives the right to replay to one request: whoever has it holds a
\* key of the table, and this key was not in it.
LEMMA ProbeInv ==
    ASSUME IInv, NEW r \in Request, Probe(r)
    PROVE  IInv'
<1>1. CASE IsDuplicate(Current(r))
  BY <1>1, ContinueLeavesDispatch, QuietStep DEF Probe, history
<1>2. CASE ~IsDuplicate(Current(r))
  <2> DEFINE e == Current(r)
  <2>1. /\ e \notin ingested /\ ingested' = ingested \cup {e}
        /\ store /\ UNCHANGED <<store, replayed>>
        /\ request' = [request EXCEPT ![r].pc = "dispatch"]
    BY <1>2 DEF Probe, IsDuplicate, history
  <2>2. /\ DOMAIN request' = Request
        /\ \A q \in Request \ {r} : request'[q] = request[q]
        /\ request'[r] = [request[r] EXCEPT !.pc = "dispatch"]
    BY <2>1 DEF IInv, Shape
  <2>3. Current(r)' = e
    <3>1. "todo" \in DOMAIN request[r] \/ "todo" \notin DOMAIN request[r]
      OBVIOUS
    <3> QED
      BY <2>2 DEF Current
  <2>4. Shape'
    BY <2>1, <2>2 DEF IInv, Shape
  <2>5. (ReplayedIsIngested /\ ReplayedOnce)'
    BY <2>1 DEF IInv, ReplayedIsIngested, ReplayedOnce
  <2>6. e \in Event => replayed[e] = 0
    BY <2>1 DEF IInv, Shape, ReplayedIsIngested
  <2>7. \A q \in Request \ {r} :
            /\ InDispatch(q)' <=> InDispatch(q)
            /\ Current(q)' = Current(q)
            /\ InDispatch(q) => Current(q) # e
    BY <2>1, <2>2 DEF IInv, InDispatch, Current, DispatchIsFirst
  <2>8. DispatchIsFirst'
    BY <2>1, <2>3, <2>6, <2>7 DEF IInv, DispatchIsFirst
  <2>9. DispatchIsAlone'
    BY <2>1, <2>3, <2>7 DEF IInv, DispatchIsAlone
  <2> QED
    BY <2>4, <2>5, <2>8, <2>9 DEF IInv
<1> QED
  BY <1>1, <1>2

\* A dispatch, also one that throws, uses the right up.
LEMMA DispatchInv ==
    ASSUME IInv, NEW r \in Request, Dispatch(r) \/ DispatchThrows(r)
    PROVE  IInv'
<1> DEFINE e == Current(r)
<1>1. /\ Dispatching(r) /\ Continue(r) /\ UNCHANGED <<store, ingested>>
      /\ replayed' = [replayed EXCEPT ![e] = More(replayed[e])]
  BY DEF Dispatch, DispatchThrows
<1>2. Undisturbed /\ request'[r].pc # "dispatch"
  BY <1>1, ContinueLeavesDispatch
<1>3. Shape'
  <2>1. \A n \in 0..2 : More(n) \in 0..2
    BY DEF More
  <2>2. replayed' \in [Event -> 0..2]
    BY <1>1, <2>1 DEF IInv, Shape
  <2> QED
    BY <1>2, <2>2 DEF Shape, Undisturbed
<1>4. ASSUME store PROVE (ReplayedIsIngested /\ ReplayedOnce)'
  <2>1. InDispatch(r)
    BY <1>1, <1>4 DEF Dispatching, InDispatch
  <2>2. e \in ingested /\ (e \in Event => replayed[e] = 0)
    BY <2>1, <1>4 DEF IInv, DispatchIsFirst
  <2>3. \A d \in Event : replayed'[d] = IF d = e THEN 1 ELSE replayed[d]
    BY <1>1, <2>2 DEF IInv, Shape, More
  <2> QED
    BY <1>1, <1>4, <2>2, <2>3 DEF IInv, ReplayedIsIngested, ReplayedOnce
<1>5. ASSUME store PROVE (DispatchIsFirst /\ DispatchIsAlone)'
  <2>1. \A q \in Request : InDispatch(q)' => InDispatch(q) /\ Current(q)' = Current(q) /\ q # r
    BY <1>2 DEF Undisturbed, InDispatch, Current
  <2>2. InDispatch(r)
    BY <1>1, <1>5 DEF Dispatching, InDispatch
  <2>3. \A q \in Request : InDispatch(q)' => Current(q) # e
    BY <2>1, <2>2, <1>5 DEF IInv, DispatchIsAlone
  <2>4. \A d \in Event \ {e} : replayed'[d] = replayed[d]
    BY <1>1 DEF IInv, Shape
  <2> QED
    BY <1>1, <1>5, <2>1, <2>3, <2>4 DEF IInv, DispatchIsFirst, DispatchIsAlone
<1> QED
  BY <1>1, <1>3, <1>4, <1>5 DEF IInv

-----------------------------------------------------------------------------
LEMMA NextInv == IInv /\ [Next]_vars => IInv'
<1> SUFFICES ASSUME IInv, [Next]_vars PROVE IInv'
  OBVIOUS
<1>1. CASE UNCHANGED vars
  <2>1. Undisturbed
    BY <1>1 DEF vars, Undisturbed, IInv, Shape
  <2> QED
    BY <1>1, <2>1, QuietStep DEF vars, history
<1>2. ASSUME NEW t \in Task, Posting(t) \/ Returning(t) PROVE IInv'
  BY <1>2, BrainInv
<1>3. CASE Draining
  BY <1>3, BrainInv
<1>4. ASSUME NEW r \in Request, Handling(r) PROVE IInv'
  BY <1>4, QuietGridInv, ProbeInv, DispatchInv DEF Handling
<1>5. CASE Failing
  BY <1>5, BrainInv, QuietGridInv, ProbeFailsInv, DispatchInv DEF Failing
<1> QED
  BY <1>1, <1>2, <1>3, <1>4, <1>5 DEF Next

\* brain-event-ingest-store.ts: however often a batch is sent, and whoever dies
\* in between, the runner is handed an event at most once by the batch route.
THEOREM ReplayedAtMostOnce == Spec => []ReplayedOnce
<1>1. IInv => ReplayedOnce
  BY DEF IInv, ReplayedOnce
<1> QED
  BY InitInv, NextInv, <1>1, PTL DEF Spec

-----------------------------------------------------------------------------
(* The wire: tables of rows, and the order of their ids. *)

\* A table of rows below the next id, as the queue is and a batch of it.
IsTable(rows, next) ==
    /\ rows \in [DOMAIN rows -> Event] /\ DOMAIN rows \subseteq 1..(next - 1)
    /\ Cardinality(DOMAIN rows) <= Capacity

\* Ranks tell the rows of a table apart, and count from 0.
LEMMA RanksAre ==
    ASSUME NEW S \in SUBSET Nat, IsFiniteSet(S)
    PROVE  /\ Cardinality(S) \in Nat
           /\ \A k \in S : Rank(k, S) \in 0..(Cardinality(S) - 1)
           /\ \A k, l \in S : Rank(k, S) = Rank(l, S) => k = l
           /\ S # {} => \E k \in S : Rank(k, S) = 0
           /\ \A n \in 0..(Cardinality(S) - 1) : \E k \in S : Rank(k, S) = n
<1> DEFINE Below(k) == {l \in S : l < k}
<1>0. /\ \A x, y \in S : x <= y => ~(y < x)
      /\ \A x, y, z \in S : x < y /\ y < z => x < z
      /\ \A x \in S : ~(x < x)
  <2>1. \A x \in S : x \in Nat
    OBVIOUS
  <2> QED
    BY <2>1
<1>1. Cardinality(S) \in Nat
  BY FS_CardinalityType
<1>2. \A k : /\ Rank(k, S) = Cardinality(Below(k)) /\ IsFiniteSet(Below(k))
             /\ Rank(k, S) \in Nat
  <2>1. \A k : Below(k) \in SUBSET S
    OBVIOUS
  <2>2. \A k : Rank(k, S) = Cardinality(Below(k))
    BY DEF Rank
  <2> HIDE DEF Below
  <2>3. ASSUME NEW k PROVE IsFiniteSet(Below(k)) /\ Cardinality(Below(k)) \in Nat
    BY <2>1, FS_Subset, FS_CardinalityType
  <2> QED
    BY <2>2, <2>3
<1>3. ASSUME NEW k \in S PROVE Rank(k, S) \in 0..(Cardinality(S) - 1)
  <2>1. Below(k) \in SUBSET S /\ Below(k) # S
    <3>1. k \in S /\ k \notin Below(k)
      BY <1>0
    <3> QED
      BY <3>1
  <2>2. Rank(k, S) <= Cardinality(S) /\ Rank(k, S) # Cardinality(S)
    <3> HIDE DEF Below
    <3>1. Cardinality(Below(k)) <= Cardinality(S)
      BY <2>1, FS_Subset
    <3>2. Cardinality(Below(k)) # Cardinality(S)
      BY <2>1, FS_Subset
    <3> QED
      BY <1>2, <3>1, <3>2
  <2>3. Rank(k, S) \in Nat
    BY <1>2
  <2>4. \A a, b \in Nat : a <= b /\ a # b => a \in 0..(b - 1)
    OBVIOUS
  <2> QED
    BY <1>1, <2>2, <2>3, <2>4
<1>4. ASSUME NEW k \in S, NEW l \in S, k < l PROVE Rank(k, S) # Rank(l, S)
  <2>1. Below(k) \in SUBSET Below(l) /\ k \in Below(l) /\ k \notin Below(k)
    BY <1>0, <1>4
  <2> HIDE DEF Below
  <2>2. Cardinality(Below(k)) # Cardinality(Below(l))
    BY <1>2, <2>1, FS_Subset
  <2> QED
    BY <1>2, <2>2
<1>5. \A k, l \in S : Rank(k, S) = Rank(l, S) => k = l
  <2>1. \A k, l \in S : k < l \/ l < k \/ k = l
    OBVIOUS
  <2> QED
    BY <1>4, <2>1
<1>6. S # {} => \E k \in S : Rank(k, S) = 0
  <2> SUFFICES ASSUME S # {} PROVE \E k \in S : Rank(k, S) = 0
    OBVIOUS
  <2>1. PICK k \in S : \A l \in S : k <= l
    BY LeastNat
  <2>2. Below(k) = {}
    BY <1>0, <2>1
  <2> HIDE DEF Below
  <2> QED
    BY <1>2, <2>2, FS_EmptySet
<1>7. ASSUME NEW n \in 0..(Cardinality(S) - 1), ~ \E k \in S : Rank(k, S) = n PROVE FALSE
  <2> DEFINE T == (0..(Cardinality(S) - 1)) \ {n}
             f == [k \in S |-> Rank(k, S)]
  <2>1. IsFiniteSet(T) /\ Cardinality(T) = Cardinality(S) - 1
    <3>1. /\ IsFiniteSet(0..(Cardinality(S) - 1))
          /\ Cardinality(0..(Cardinality(S) - 1)) = Cardinality(S)
      BY <1>1, <1>7, FS_Interval
    <3> QED
      BY <3>1, FS_RemoveElement
  <2>2. f \in [S -> T]
    BY <1>3, <1>7
  <2>3. Cardinality(T) < Cardinality(S)
    BY <1>1, <2>1
  <2>4. \E k, l \in S : k # l /\ f[k] = f[l]
    <3> HIDE DEF T, f
    <3> QED
      BY <2>1, <2>2, <2>3, FS_PigeonHole
  <2> QED
    BY <1>5, <2>4
<1> QED
  BY <1>1, <1>3, <1>5, <1>6, <1>7

LEMMA TableIds ==
    ASSUME NEW next \in Nat \ {0}, NEW rows, IsTable(rows, next)
    PROVE  DOMAIN rows \in SUBSET Nat /\ IsFiniteSet(DOMAIN rows)
<1>1. 1..(next - 1) \subseteq Nat /\ IsFiniteSet(1..(next - 1))
  BY FS_Interval
<1> QED
  BY <1>1, FS_Subset DEF IsTable

\* Some rows of a table are a table.
LEMMA PartOfTable ==
    ASSUME NEW next \in Nat \ {0}, NEW rows, IsTable(rows, next), NEW S \in SUBSET DOMAIN rows
    PROVE  /\ IsTable(Rows(rows, S), next) /\ DOMAIN Rows(rows, S) = S
           /\ \A k \in S : Rows(rows, S)[k] = rows[k]
<1>1. DOMAIN Rows(rows, S) = S /\ \A k \in S : Rows(rows, S)[k] = rows[k]
  BY DEF Rows
<1>2. Rows(rows, S) \in [S -> Event]
  BY DEF Rows, IsTable
<1>3. Cardinality(S) <= Capacity
  <2>1. /\ Cardinality(S) <= Cardinality(DOMAIN rows) /\ Cardinality(S) \in Nat
        /\ Cardinality(DOMAIN rows) \in Nat /\ Cardinality(DOMAIN rows) <= Capacity
    BY TableIds, FS_Subset, FS_CardinalityType DEF IsTable
  <2> QED
    BY <2>1, ConstantsAssumption
<1> QED
  BY <1>1, <1>2, <1>3 DEF IsTable

\* A batch is a part of the table, and not empty unless the table is.
LEMMA BatchIs ==
    ASSUME NEW next \in Nat \ {0}, NEW rows, IsTable(rows, next)
    PROVE  LET batch == DequeueBatch(rows)
           IN  /\ IsTable(batch, next) /\ DOMAIN batch \subseteq DOMAIN rows
               /\ \A k \in DOMAIN batch : batch[k] = rows[k]
               /\ rows # << >> => DOMAIN batch # {}
<1> DEFINE S == {k \in DOMAIN rows : Rank(k, DOMAIN rows) < BatchSize}
<1>1. DequeueBatch(rows) = Rows(rows, S) /\ S \in SUBSET DOMAIN rows
  BY DEF DequeueBatch
<1>2. rows # << >> => DOMAIN rows # {}
  <2>1. << >> \in [{} -> Event]
    <3>1. << >> \in Seq(Event) /\ Len(<< >>) = 0
      BY EmptySeq
    <3>2. << >> \in [1..0 -> Event]
      BY <3>1, LenProperties
    <3> QED
      BY <3>2
  <2>2. \A f \in [{} -> Event], g \in [{} -> Event] : f = g
    OBVIOUS
  <2> QED
    BY <2>1, <2>2 DEF IsTable
<1>3. DOMAIN rows # {} => S # {}
  BY TableIds, RanksAre, ConstantsAssumption
<1> HIDE DEF S
<1>4. /\ IsTable(Rows(rows, S), next) /\ DOMAIN Rows(rows, S) = S
      /\ \A k \in S : Rows(rows, S)[k] = rows[k]
  BY <1>1, PartOfTable
<1> QED
  BY <1>1, <1>2, <1>3, <1>4

\* The events of a batch, in the order of their ids: each row is among them.
LEMMA EventsAre ==
    ASSUME NEW next \in Nat \ {0}, NEW batch, IsTable(batch, next), DOMAIN batch # {}
    PROVE  /\ EventsOf(batch) \in Seq(Event) \ {<< >>}
           /\ \A k \in DOMAIN batch : batch[k] \in ToSet(EventsOf(batch))
<1> DEFINE ids == DOMAIN batch
           n == Cardinality(ids)
           At(i) == CHOOSE k \in ids : Rank(k, ids) = i - 1
           events == [i \in 1..n |-> batch[At(i)]]
<1>1. EventsOf(batch) = events
  BY DEF EventsOf
<1>2. ids \in SUBSET Nat /\ IsFiniteSet(ids) /\ n \in Nat /\ n # 0
  BY TableIds, FS_CardinalityType, FS_EmptySet
<1>3. \A i \in 1..n : At(i) \in ids /\ Rank(At(i), ids) = i - 1
  <2>1. \A i \in 1..n : i - 1 \in 0..(n - 1)
    BY <1>2
  <2>2. \A j \in 0..(n - 1) : \E k \in ids : Rank(k, ids) = j
    BY <1>2, RanksAre
  <2> QED
    BY <2>1, <2>2
<1>4. \A k \in ids : /\ Rank(k, ids) + 1 \in 1..n /\ At(Rank(k, ids) + 1) = k
  <2>1. \A k \in ids : Rank(k, ids) \in 0..(n - 1)
    BY <1>2, RanksAre
  <2>2. \A k, l \in ids : Rank(k, ids) = Rank(l, ids) => k = l
    BY <1>2, RanksAre
  <2>3. \A k \in ids : Rank(k, ids) + 1 \in 1..n /\ (Rank(k, ids) + 1) - 1 = Rank(k, ids)
    BY <1>2, <2>1
  <2> QED
    BY <1>3, <2>2, <2>3
<1>5. events \in [1..n -> Event] /\ DOMAIN events = 1..n
  BY <1>3 DEF IsTable
<1>6. \A k \in ids : \E i \in DOMAIN events : events[i] = batch[k]
  BY <1>4, <1>5
<1> HIDE DEF events
<1>7. events \in Seq(Event) /\ events # << >>
  <2>1. events \in Seq(Event)
    BY <1>2, <1>5, SeqDef
  <2>2. 1 \in DOMAIN events
    BY <1>2, <1>5
  <2>3. DOMAIN << >> = {}
    BY EmptySeq
  <2> QED
    BY <2>1, <2>2, <2>3
<1> QED
  BY <1>1, <1>6, <1>7 DEF ToSet

-----------------------------------------------------------------------------
(* Events are queued. *)

\* The rows below an id that a queue has, the one before had, with their events.
Keeps(older, newer, next) ==
    \A k \in DOMAIN newer : k < next => k \in DOMAIN older /\ newer[k] = older[k]

\* Evicting takes the oldest row of a table, and no other.
LEMMA EvictIs ==
    ASSUME NEW next \in Nat \ {0}, NEW rows, IsTable(rows, next)
    PROVE  LET few == MakeRoom(rows)
           IN  /\ IsTable(few, next) /\ Cardinality(DOMAIN few) < Capacity
               /\ DOMAIN few \subseteq DOMAIN rows
               /\ \A k \in DOMAIN few : few[k] = rows[k]
<1> DEFINE n == Cardinality(DOMAIN rows)
           S == {k \in DOMAIN rows : \E l \in DOMAIN rows : l < k}
<1>1. DOMAIN rows \in SUBSET Nat /\ IsFiniteSet(DOMAIN rows) /\ n \in Nat /\ n <= Capacity
  BY TableIds, FS_CardinalityType DEF IsTable
<1>2. CASE n < Capacity
  BY <1>2 DEF MakeRoom
<1>3. CASE ~(n < Capacity)
  <2>1. MakeRoom(rows) = Rows(rows, S) /\ S \in SUBSET DOMAIN rows
    BY <1>3 DEF MakeRoom, Evict
  <2>2. Cardinality(S) < Capacity
    <3>1. DOMAIN rows # {}
      BY <1>1, <1>3, FS_EmptySet, ConstantsAssumption
    <3>2. PICK k \in DOMAIN rows : \A l \in DOMAIN rows : k <= l
      BY <1>1, <3>1, LeastNat
    <3>3. k \notin S
      <4>1. \A l \in DOMAIN rows : l \in Nat /\ ~(l < k)
        BY <1>1, <3>2
      <4> QED
        BY <4>1
    <3> HIDE DEF S
    <3>4. Cardinality(S) \in Nat /\ Cardinality(S) <= n /\ Cardinality(S) # n
      BY <1>1, <2>1, <3>2, <3>3, FS_Subset, FS_CardinalityType
    <3> QED
      BY <1>1, <3>4, ConstantsAssumption
  <2> HIDE DEF S
  <2>3. /\ IsTable(Rows(rows, S), next) /\ DOMAIN Rows(rows, S) = S
        /\ \A k \in S : Rows(rows, S)[k] = rows[k]
    BY <2>1, PartOfTable
  <2> QED
    BY <2>1, <2>2, <2>3
<1> QED
  BY <1>2, <1>3

LEMMA EnqueueIs ==
    ASSUME NEW q, q.next \in Nat \ {0}, IsTable(q.rows, q.next), NEW e \in Event
    PROVE  LET p == Enqueue(q, e)
           IN  /\ p.next \in Nat \ {0} /\ IsTable(p.rows, p.next) /\ q.next <= p.next
               /\ Keeps(q.rows, p.rows, q.next)
<1> DEFINE few == MakeRoom(q.rows)
           more == [k \in DOMAIN few \cup {q.next} |-> IF k = q.next THEN e ELSE few[k]]
           next == q.next
<1>1. /\ IsTable(few, next) /\ Cardinality(DOMAIN few) < Capacity
      /\ DOMAIN few \subseteq DOMAIN q.rows
      /\ \A k \in DOMAIN few : few[k] = q.rows[k]
  BY EvictIs
<1>2. CASE \E k \in DOMAIN few : few[k] = e
  <2>1. Enqueue(q, e) = [rows |-> few, next |-> q.next]
    BY <1>2 DEF Enqueue
  <2> QED
    BY <1>1, <2>1 DEF Keeps
<1>3. CASE ~ \E k \in DOMAIN few : few[k] = e
  <2>1. Enqueue(q, e) = [rows |-> more, next |-> q.next + 1]
    BY <1>3 DEF Enqueue
  <2>2. IsFiniteSet(DOMAIN few) /\ DOMAIN few \subseteq 1..(next - 1) /\ few \in [DOMAIN few -> Event]
    BY <1>1, TableIds DEF IsTable
  <2>3. DOMAIN more = DOMAIN few \cup {next} /\ more \in [DOMAIN few \cup {next} -> Event]
    BY <2>2
  <2>4. Cardinality(DOMAIN few \cup {next}) <= Capacity
    <3>1. /\ Cardinality(DOMAIN few) \in Nat
          /\ \/ Cardinality(DOMAIN few \cup {next}) = Cardinality(DOMAIN few)
             \/ Cardinality(DOMAIN few \cup {next}) = Cardinality(DOMAIN few) + 1
      BY <2>2, FS_CardinalityType, FS_AddElement
    <3> QED
      BY <1>1, <3>1, ConstantsAssumption
  <2>5. DOMAIN few \cup {next} \subseteq 1..((next + 1) - 1)
    BY <2>2
  <2>6. IsTable(more, next + 1)
    BY <2>3, <2>4, <2>5 DEF IsTable
  <2>7. Keeps(q.rows, more, next)
    BY <1>1, <2>3 DEF Keeps
  <2> HIDE DEF more
  <2> QED
    BY <2>1, <2>6, <2>7
<1> QED
  BY <1>2, <1>3

\* The equation of the loop: f[n] is the queue after the first n events.
QueuedUpTo(f, events, top) ==
    f = [n \in 0..top |->
            IF n = 0 THEN [rows |-> queue, next |-> nextRow]
            ELSE Enqueue(f[n - 1], events[n])]
QueueLoop(events) == CHOOSE f : QueuedUpTo(f, events, Len(events))

LEMMA QueueLoopExists ==
    ASSUME NEW events, Len(events) \in Nat
    PROVE  QueuedUpTo(QueueLoop(events), events, Len(events))
<1> DEFINE T == {m \in 0..Len(events) : ~ \E f : QueuedUpTo(f, events, m)}
<1>1. SUFFICES T = {}
  <2>1. T = {} => \E f : QueuedUpTo(f, events, Len(events))
    OBVIOUS
  <2> QED
    BY <2>1 DEF QueueLoop
<1>2. SUFFICES ASSUME T # {} PROVE FALSE
  OBVIOUS
<1>3. PICK m \in T : \A y \in T : m <= y
  <2>1. T \in SUBSET Nat
    OBVIOUS
  <2> HIDE DEF T
  <2> QED
    BY <1>2, <2>1, LeastNat
<1>4. m \in 0..Len(events) /\ ~ \E f : QueuedUpTo(f, events, m)
  BY <1>3
<1> DEFINE start == [rows |-> queue, next |-> nextRow]
<1>5. CASE m = 0
  <2> DEFINE f == [n \in 0..0 |-> start]
  <2>1. QueuedUpTo(f, events, 0)
    BY DEF QueuedUpTo
  <2> QED
    BY <1>4, <1>5, <2>1
<1>6. CASE m > 0
  <2>1. m - 1 \in 0..Len(events) /\ ~(m <= m - 1)
    BY <1>4, <1>6
  <2>2. PICK g : QueuedUpTo(g, events, m - 1)
    BY <1>3, <2>1
  <2> DEFINE f == [n \in 0..m |-> IF n = 0 THEN start ELSE Enqueue(g[n - 1], events[n])]
  <2>3. \A n \in 0..(m - 1) : f[n] = g[n]
    <3>1. \A n \in 0..(m - 1) : g[n] = IF n = 0 THEN start ELSE Enqueue(g[n - 1], events[n])
      BY <2>2 DEF QueuedUpTo
    <3>2. \A n \in 0..(m - 1) : f[n] = IF n = 0 THEN start ELSE Enqueue(g[n - 1], events[n])
      BY <1>4
    <3> QED
      BY <3>1, <3>2
  <2>4. \A n \in 0..m : n # 0 => n - 1 \in 0..(m - 1)
    BY <1>4
  <2>5. QueuedUpTo(f, events, m)
    <3>1. \A n \in 0..m : n # 0 => Enqueue(g[n - 1], events[n]) = Enqueue(f[n - 1], events[n])
      BY <2>3, <2>4
    <3> QED
      BY <3>1 DEF QueuedUpTo
  <2> QED
    BY <1>4, <2>5
<1> QED
  BY <1>4, <1>5, <1>6

\* A post that failed is queued whole: the queue stays a table, and no row of
\* before has another event now.
LEMMA EnqueueAllIs ==
    ASSUME nextRow \in Nat \ {0}, IsTable(queue, nextRow), NEW events \in Seq(Event),
           EnqueueAll(events)
    PROVE  /\ nextRow' \in Nat \ {0} /\ IsTable(queue', nextRow') /\ nextRow <= nextRow'
           /\ Keeps(queue, queue', nextRow)
<1> DEFINE f == QueueLoop(events)
           Good(n) == /\ f[n].next \in Nat \ {0} /\ IsTable(f[n].rows, f[n].next)
                      /\ nextRow <= f[n].next /\ Keeps(queue, f[n].rows, nextRow)
           T == {m \in 0..Len(events) : ~Good(m)}
<1>1. queue' = f[Len(events)].rows /\ nextRow' = f[Len(events)].next
  BY DEF EnqueueAll, QueueLoop, QueuedUpTo
<1>2. /\ f[0] = [rows |-> queue, next |-> nextRow]
      /\ \A n \in 1..Len(events) : f[n] = Enqueue(f[n - 1], events[n])
  <2>1. QueuedUpTo(f, events, Len(events))
    BY QueueLoopExists
  <2> HIDE DEF f
  <2> QED
    BY <2>1 DEF QueuedUpTo
<1> HIDE DEF f
<1>3. Good(0)
  BY <1>2 DEF Keeps
<1>4. ASSUME NEW n \in 1..Len(events), Good(n - 1) PROVE Good(n)
  <2>1. events[n] \in Event
    BY ElementOfSeq
  <2> DEFINE q == f[n - 1]
             p == f[n]
  <2>2. p = Enqueue(q, events[n]) /\ q.next \in Nat \ {0} /\ IsTable(q.rows, q.next)
        /\ nextRow <= q.next /\ Keeps(queue, q.rows, nextRow)
    BY <1>2, <1>4
  <2> HIDE DEF q, p
  <2>3. /\ p.next \in Nat \ {0} /\ IsTable(p.rows, p.next) /\ q.next <= p.next
        /\ Keeps(q.rows, p.rows, q.next)
    BY <2>1, <2>2, EnqueueIs
  <2>4. Keeps(queue, p.rows, nextRow)
    <3>1. DOMAIN p.rows \in SUBSET Nat
      BY <2>3, TableIds
    <3>2. \A k \in DOMAIN p.rows : k < nextRow => k < q.next
      BY <2>2, <3>1
    <3> QED
      BY <2>2, <2>3, <3>2 DEF Keeps
  <2>5. nextRow <= p.next
    BY <2>2, <2>3
  <2> QED
    BY <2>3, <2>4, <2>5 DEF p
<1> HIDE DEF Good
<1>5. T = {}
  <2> SUFFICES ASSUME T # {} PROVE FALSE
    OBVIOUS
  <2>1. PICK m \in T : \A y \in T : m <= y
    <3>1. T \in SUBSET Nat
      OBVIOUS
    <3> HIDE DEF T
    <3> QED
      BY <3>1, LeastNat
  <2>2. m \in 1..Len(events) /\ ~Good(m)
    BY <1>3, <2>1
  <2>3. m - 1 \in 0..Len(events) /\ ~(m <= m - 1)
    BY <2>2
  <2>4. Good(m - 1)
    BY <2>1, <2>3
  <2> QED
    BY <1>4, <2>2, <2>4
<1>6. Good(Len(events))
  BY <1>5
<1> QED
  BY <1>1, <1>6 DEF Good

-----------------------------------------------------------------------------
(* The invariant of the wire. *)

Busy == {"arriving", "serving", "dispatch"}
RequestStates ==
    {Idle} \cup [pc : Busy, kind : {"live", "batch"}, todo : Seq(Event) \ {<< >>}]
    \cup [pc : {"reply"}, status : {"ok", "error", "broken", "refused"}]

BrainTypes ==
    /\ task \in [Task -> {Idle} \cup [pc : {"posting"}, events : Posts, r : Request]]
    /\ nextRow \in Nat \ {0} /\ IsTable(queue, nextRow)
    /\ \/ drain = Idle
       \/ /\ drain.pc = "replaying" /\ drain.r \in Request
          /\ IsTable(drain.batch, nextRow)
GridTypes ==
    /\ store \in Stores /\ bound \in BOOLEAN /\ ingested \subseteq Event
    /\ request \in [Request -> RequestStates]
HistoryTypes ==
    /\ faults \in 0..MaxFaults /\ acked \subseteq Event /\ cut \subseteq Event
    /\ decided \in [Event -> 0..2] /\ executed \in [Event -> 0..2]
    /\ replayed \in [Event -> 0..2]
WireTypes == BrainTypes /\ GridTypes /\ HistoryTypes

DealtWith(e) == executed[e] > 0 \/ AboutToExecute(e) \/ e \in cut

\* The events a request in this state may yet leave undone: those it still has
\* to come to, none when it was answered ok, and any when it failed.
Open(state) ==
    IF state.pc \in Busy THEN ToSet(state.todo)
    ELSE IF state = Reply("ok") THEN {} ELSE Event

\* A row of the batch under way has the event it had when it was sent, and the
\* event was dealt with or is still open at the request that carries the batch.
BatchIsCarried ==
    drain.pc = "replaying" => \A k \in DOMAIN drain.batch :
        /\ k \in DOMAIN queue => queue[k] = drain.batch[k]
        /\ drain.batch[k] \in Open(request[drain.r]) \/ DealtWith(drain.batch[k])

IngestedWasHandled == \A e \in ingested : DealtWith(e)
WireInv == WireTypes /\ BatchIsCarried /\ IngestedWasHandled /\ AckedWasHandled

\* The states of a request, and what is open at each.
LEMMA StatesAre ==
    /\ Idle \in RequestStates /\ Open(Idle) = Event
    /\ \A status \in {"error", "broken", "refused"} :
          Reply(status) \in RequestStates /\ Open(Reply(status)) = Event
    /\ Reply("ok") \in RequestStates /\ Open(Reply("ok")) = {}
    /\ \A kind \in {"live", "batch"}, events \in Seq(Event) \ {<< >>} :
          /\ Arriving(kind, events) \in RequestStates
          /\ Open(Arriving(kind, events)) = ToSet(events)
<1>1. Idle \in RequestStates /\ Open(Idle) = Event
  BY DEF Idle, RequestStates, Open, Busy, Reply
<1>2. ASSUME NEW status \in {"error", "broken", "refused"}
      PROVE  Reply(status) \in RequestStates /\ Open(Reply(status)) = Event
  <2>1. Reply(status).pc = "reply" /\ Reply(status).status # Reply("ok").status
    BY DEF Reply
  <2>2. Reply(status) \in RequestStates
    BY DEF Reply, RequestStates
  <2> QED
    BY <2>1, <2>2 DEF Open, Busy
<1>3. Reply("ok") \in RequestStates /\ Open(Reply("ok")) = {}
  BY DEF Reply, RequestStates, Open, Busy
<1>4. ASSUME NEW kind \in {"live", "batch"}, NEW events \in Seq(Event) \ {<< >>}
      PROVE  /\ Arriving(kind, events) \in RequestStates
             /\ Open(Arriving(kind, events)) = ToSet(events)
  BY DEF Arriving, RequestStates, Open, Busy
<1> QED
  BY <1>1, <1>2, <1>3, <1>4

\* What was dealt with stays dealt with.
LEMMA DealtStays ==
    ASSUME cut \subseteq cut', \A e \in Event : executed[e] > 0 => executed'[e] > 0,
           \A r \in Request : request[r].pc = "dispatch" =>
               \/ request'[r] = request[r]
               \/ executed'[Current(r)] > 0 \/ Current(r) \in cut',
           NEW e \in Event, DealtWith(e)
    PROVE  DealtWith(e)'
<1>1. ASSUME NEW r \in Request, request[r].pc = "dispatch", Current(r) = e PROVE DealtWith(e)'
  <2>1. CASE request'[r] = request[r]
    BY <1>1, <2>1 DEF DealtWith, AboutToExecute, Current
  <2>2. CASE executed'[Current(r)] > 0 \/ Current(r) \in cut'
    BY <1>1, <2>2 DEF DealtWith
  <2> QED
    BY <1>1, <2>1, <2>2
<1> QED
  BY <1>1 DEF DealtWith, AboutToExecute

\* The invariant after a step that begins no batch.
LEMMA WireKeeps ==
    ASSUME WireInv, WireTypes', cut \subseteq cut', acked' = acked,
           \A e \in Event : executed[e] > 0 => executed'[e] > 0,
           \A r \in Request : request[r].pc = "dispatch" =>
               \/ request'[r] = request[r]
               \/ executed'[Current(r)] > 0 \/ Current(r) \in cut',
           \A e \in ingested' : e \in ingested \/ DealtWith(e)',
           Keeps(queue, queue', nextRow), drain' = drain \/ drain' = Idle,
           drain' = drain /\ drain.pc = "replaying" =>
               \A e \in Event : e \in Open(request[drain.r]) =>
                   e \in Open(request'[drain.r]) \/ DealtWith(e)'
    PROVE  WireInv'
<1>1. \A e \in Event : DealtWith(e) => DealtWith(e)'
  BY DealtStays
<1>2. IngestedWasHandled' /\ AckedWasHandled'
  BY <1>1 DEF WireInv, WireTypes, GridTypes, HistoryTypes, IngestedWasHandled, AckedWasHandled, DealtWith
<1>3. BatchIsCarried'
  <2>1. CASE drain' = Idle
    BY <2>1 DEF BatchIsCarried, Idle
  <2>2. CASE drain' = drain
    <3> SUFFICES ASSUME drain.pc = "replaying", NEW k \in DOMAIN drain.batch
                 PROVE  /\ k \in DOMAIN queue' => queue'[k] = drain.batch[k]
                        /\ drain.batch[k] \in Open(request'[drain.r]) \/ DealtWith(drain.batch[k])'
      BY <2>2 DEF BatchIsCarried, DealtWith, AboutToExecute
    <3>1. drain.batch[k] \in Event /\ k \in 1..(nextRow - 1) /\ nextRow \in Nat
      BY DEF WireInv, WireTypes, BrainTypes, IsTable, Idle
    <3>2. k \in DOMAIN queue => queue[k] = drain.batch[k]
      BY DEF WireInv, BatchIsCarried
    <3>3. drain.batch[k] \in Open(request[drain.r]) \/ DealtWith(drain.batch[k])
      BY DEF WireInv, BatchIsCarried
    <3>4. k < nextRow
      BY <3>1
    <3> QED
      BY <1>1, <2>2, <3>1, <3>2, <3>3, <3>4 DEF Keeps
  <2> QED
    BY <2>1, <2>2
<1> QED
  BY <1>2, <1>3 DEF WireInv

\* The batch that begins: rows of the queue, each with its event at the request.
LEMMA BatchBegins ==
    ASSUME NEW next \in Nat \ {0}, NEW rows, IsTable(rows, next), rows # << >>, NEW r \in Request
    PROVE  LET arriving == Arriving("batch", EventsOf(DequeueBatch(rows)))
               replay == Sending(rows, r)
           IN  /\ arriving \in RequestStates
               /\ replay.pc = "replaying" /\ replay.r = r /\ IsTable(replay.batch, next)
               /\ \A k \in DOMAIN replay.batch :
                     /\ k \in DOMAIN rows => rows[k] = replay.batch[k]
                     /\ replay.batch[k] \in Open(arriving)
<1> DEFINE batch == DequeueBatch(rows)
<1>1. /\ IsTable(batch, next) /\ DOMAIN batch # {}
      /\ \A k \in DOMAIN batch : batch[k] = rows[k]
  BY BatchIs
<1>2. Sending(rows, r) = [pc |-> "replaying", batch |-> batch, r |-> r]
  BY DEF Sending
<1> HIDE DEF batch
<1>3. /\ EventsOf(batch) \in Seq(Event) \ {<< >>}
      /\ \A k \in DOMAIN batch : batch[k] \in ToSet(EventsOf(batch))
  BY <1>1, EventsAre
<1> QED
  BY <1>1, <1>2, <1>3, StatesAre DEF batch

-----------------------------------------------------------------------------
(* Steps of one request. *)

\* On to the next event: only the current one is closed.
LEMMA ContinueIs ==
    ASSUME GridTypes, NEW r \in Request, request[r].pc \in {"serving", "dispatch"}, Continue(r)
    PROVE  /\ Current(r) \in Event /\ request' \in [Request -> RequestStates]
           /\ \A q \in Request \ {r} : request'[q] = request[q]
           /\ \A e \in Event : e \in Open(request[r]) => e \in Open(request'[r]) \/ e = Current(r)
<1> DEFINE s == request[r].todo
           last == Answer(r, "ok")
           later == [pc |-> "serving", kind |-> request[r].kind, todo |-> Tail(s)]
           state == IF Len(s) = 1 THEN last ELSE later
<1>1. /\ request[r] \in RequestStates /\ request[r].kind \in {"live", "batch"}
      /\ s \in Seq(Event) \ {<< >>} /\ Open(request[r]) = ToSet(s) /\ Current(r) = Head(s)
  <2>1. request[r] \in RequestStates /\ Idle.pc = "idle"
    BY DEF GridTypes, Idle
  <2>2. request[r] \in [pc : Busy, kind : {"live", "batch"}, todo : Seq(Event) \ {<< >>}]
    BY <2>1 DEF RequestStates
  <2> QED
    BY <2>1, <2>2 DEF Open, Busy, Current
<1>2. /\ Len(s) \in Nat \ {0} /\ DOMAIN s = 1..Len(s) /\ Head(s) = s[1] /\ Head(s) \in Event
      /\ Tail(s) \in Seq(Event) /\ Len(Tail(s)) = Len(s) - 1
      /\ \A i \in 1..Len(Tail(s)) : Tail(s)[i] = s[i + 1]
  <2>1. s \in Seq(Event) /\ s # << >>
    BY <1>1
  <2> HIDE DEF s
  <2>2. Len(s) \in Nat \ {0} /\ DOMAIN s = 1..Len(s) /\ Head(s) = s[1]
    BY <2>1, EmptySeq, LenProperties
  <2> QED
    BY <2>1, <2>2, HeadTailProperties
<1>3. request' = [request EXCEPT ![r] = state] /\ request \in [Request -> RequestStates]
  BY DEF Continue, GridTypes
<1>4. /\ state \in RequestStates
      /\ \A e \in Event : e \in ToSet(s) => e \in Open(state) \/ e = Head(s)
  <2>1. CASE Len(s) = 1
    <3>1. last = Reply("ok") \/ last = Idle
      BY DEF Answer
    <3>2. last \in RequestStates
      BY <3>1, StatesAre
    <3>3. \A e \in ToSet(s) : e = Head(s)
      <4> HIDE DEF s
      <4> QED
        BY <1>2, <2>1 DEF ToSet
    <3> QED
      BY <2>1, <3>2, <3>3
  <2>2. CASE Len(s) # 1
    <3> HIDE DEF s
    <3>1. Tail(s) # << >>
      <4>1. Len(<< >>) = 0
        BY EmptySeq
      <4>2. Len(Tail(s)) # 0
        BY <1>2, <2>2
      <4> QED
        BY <4>1, <4>2
    <3>2. later \in RequestStates /\ Open(later) = ToSet(Tail(s))
      BY <1>1, <1>2, <3>1 DEF RequestStates, Open, Busy
    <3>3. ASSUME NEW e \in ToSet(s) PROVE e \in ToSet(Tail(s)) \/ e = Head(s)
      <4>1. PICK i \in 1..Len(s) : e = s[i]
        BY <1>2, <3>3 DEF ToSet
      <4>2. CASE i = 1
        BY <1>2, <4>1, <4>2
      <4>3. CASE i # 1
        <5>1. i - 1 \in 1..Len(Tail(s)) /\ Tail(s)[i - 1] = s[i]
          BY <1>2, <4>3
        <5>2. DOMAIN Tail(s) = 1..Len(Tail(s))
          BY <1>2, LenProperties
        <5> QED
          BY <4>1, <5>1, <5>2 DEF ToSet
      <4> QED
        BY <4>2, <4>3
    <3> HIDE DEF later
    <3> QED
      BY <2>2, <3>2, <3>3
  <2> QED
    BY <2>1, <2>2
<1> HIDE DEF state, s
<1>5. request' \in [Request -> RequestStates] /\ request'[r] = state
      /\ \A q \in Request \ {r} : request'[q] = request[q]
  BY <1>3, <1>4
<1> QED
  BY <1>1, <1>2, <1>4, <1>5

\* A request is given up, refused or fails, or stays as it is.
LEMMA OneFails ==
    ASSUME WireInv, NEW r \in Request, NEW state,
           state \in {Idle, Reply("error"), Reply("broken"), Reply("refused"), request[r]},
           request[r].pc # "dispatch" \/ state = request[r],
           request' = [request EXCEPT ![r] = state],
           BrainTypes', HistoryTypes', UNCHANGED <<store, bound, executed, acked>>,
           cut \subseteq cut', ingested' \subseteq Event,
           \A e \in ingested' : e \in ingested \/ e \in cut',
           Keeps(queue, queue', nextRow), drain' = drain \/ drain' = Idle
    PROVE  WireInv'
<1>1. request \in [Request -> RequestStates]
  BY DEF WireInv, WireTypes, GridTypes
<1>2. state \in RequestStates /\ (state = request[r] \/ Open(state) = Event)
  BY <1>1, StatesAre
<1>3. /\ request' \in [Request -> RequestStates] /\ request'[r] = state
      /\ \A q \in Request \ {r} : request'[q] = request[q]
  BY <1>1, <1>2
<1>4. WireTypes'
  BY <1>3 DEF WireInv, WireTypes, GridTypes
<1>5. \A q \in Request : \A e \in Event : e \in Open(request[q]) => e \in Open(request'[q])
  BY <1>2, <1>3
<1>6. \A q \in Request : request[q].pc = "dispatch" => request'[q] = request[q]
  BY <1>3
<1>7. \A e \in ingested' : e \in ingested \/ DealtWith(e)'
  BY DEF DealtWith
<1>8. drain.pc = "replaying" => drain.r \in Request
  BY DEF WireInv, WireTypes, BrainTypes, Idle
<1> QED
  BY <1>4, <1>5, <1>6, <1>7, <1>8, WireKeeps

\* A request goes on, its current event dealt with.
LEMMA OneContinues ==
    ASSUME WireInv, NEW r \in Request, request[r].pc \in {"serving", "dispatch"}, Continue(r),
           HistoryTypes', UNCHANGED <<store, bound, brain, ingested, acked>>,
           cut \subseteq cut', \A e \in Event : executed[e] > 0 => executed'[e] > 0,
           \/ executed'[Current(r)] > 0 \/ Current(r) \in cut'
           \/ request[r].pc = "serving" /\ Current(r) \in ingested
    PROVE  WireInv'
<1>1. /\ Current(r) \in Event /\ request' \in [Request -> RequestStates]
      /\ \A q \in Request \ {r} : request'[q] = request[q]
      /\ \A e \in Event : e \in Open(request[r]) => e \in Open(request'[r]) \/ e = Current(r)
  BY ContinueIs DEF WireInv, WireTypes
<1>2. UNCHANGED <<task, queue, nextRow, drain>>
  BY DEF brain
<1>3. WireTypes'
  BY <1>1, <1>2 DEF WireInv, WireTypes, GridTypes, BrainTypes
<1>4. \A q \in Request : request[q].pc = "dispatch" =>
          request'[q] = request[q] \/ executed'[Current(q)] > 0 \/ Current(q) \in cut'
  BY <1>1
<1>5. ASSUME NEW e \in Event, e = Current(r) PROVE DealtWith(e)'
  <2>1. CASE executed'[e] > 0 \/ e \in cut'
    BY <2>1 DEF DealtWith
  <2>2. CASE e \in ingested
    <3>1. DealtWith(e)
      BY <2>2 DEF WireInv, IngestedWasHandled
    <3> QED
      BY <1>4, <3>1, DealtStays
  <2> QED
    BY <1>5, <2>1, <2>2
<1>6. \A e \in ingested' : e \in ingested
  OBVIOUS
<1>7. Keeps(queue, queue', nextRow)
  BY <1>2 DEF Keeps
<1>8. drain.pc = "replaying" => \A e \in Event :
          e \in Open(request[drain.r]) => e \in Open(request'[drain.r]) \/ DealtWith(e)'
  <2>1. drain.pc = "replaying" => drain.r \in Request
    BY DEF WireInv, WireTypes, BrainTypes, Idle
  <2>2. ASSUME NEW e \in Event, e \in Open(request[r]) PROVE e \in Open(request'[r]) \/ DealtWith(e)'
    BY <1>1, <1>5, <2>2
  <2> QED
    BY <1>1, <2>1, <2>2
<1> QED
  BY <1>2, <1>3, <1>4, <1>6, <1>7, <1>8, WireKeeps

-----------------------------------------------------------------------------
(* The Brain posts, queues and replays. *)

\* The queue as it was keeps its rows.
LEMMA SameRows == queue' = queue => Keeps(queue, queue', nextRow)
BY DEF Keeps

LEMMA PostKeeps ==
    ASSUME WireInv, NEW t \in Task, NEW events \in Posts, NEW r \in Request, Post(t, events, r)
    PROVE  WireInv'
<1>1. /\ events \in Seq(Event) \ {<< >>} /\ request \in [Request -> RequestStates]
      /\ decided \in [Event -> 0..2]
      /\ task \in [Task -> {Idle} \cup [pc : {"posting"}, events : Posts, r : Request]]
  BY ConstantsAssumption DEF WireInv, WireTypes, BrainTypes, GridTypes, HistoryTypes
<1>2. /\ UNCHANGED <<store, bound, queue, nextRow, drain, ingested, executed, replayed,
                     acked, cut, faults>>
      /\ task' = [task EXCEPT ![t] = [pc |-> "posting", events |-> events, r |-> r]]
      /\ request' = [request EXCEPT ![r] = Arriving("live", events)]
      /\ decided' = [e \in Event |-> IF e \in ToSet(events) THEN More(decided[e]) ELSE decided[e]]
      /\ request[r] = Idle /\ ~Awaited(r)
  BY DEF Post, Free
<1>3. BrainTypes'
  BY <1>1, <1>2 DEF WireInv, WireTypes, BrainTypes
<1>4. GridTypes' /\ \A q \in Request \ {r} : request'[q] = request[q]
  BY <1>1, <1>2, StatesAre DEF WireInv, WireTypes, GridTypes
<1>5. HistoryTypes'
  <2>1. \A n \in 0..2 : More(n) \in 0..2
    BY DEF More
  <2>2. decided' \in [Event -> 0..2]
    BY <1>1, <1>2, <2>1
  <2> QED
    BY <1>2, <2>2 DEF WireInv, WireTypes, HistoryTypes
<1>6. drain.pc = "replaying" => drain.r \in Request \ {r}
  BY <1>2 DEF Awaited, WireInv, WireTypes, BrainTypes, Idle
<1>7. \A q \in Request : request[q].pc = "dispatch" => request'[q] = request[q]
  BY <1>2, <1>4 DEF Idle
<1> QED
  BY <1>2, <1>3, <1>4, <1>5, <1>6, <1>7, SameRows, WireKeeps DEF WireTypes

\* A batch is sent for what is queued, from a queue that has lost no more than
\* the batch before, which was dealt with.
LEMMA SendingKeeps ==
    ASSUME WireInv, NEW r \in Request, request[r] = Reply("ok"), queue' # << >>,
           drain' = Sending(queue', r),
           request' = [request EXCEPT ![r] = Arriving("batch", EventsOf(DequeueBatch(queue')))],
           task' \in [Task -> {Idle} \cup [pc : {"posting"}, events : Posts, r : Request]],
           IsTable(queue', nextRow), HistoryTypes',
           UNCHANGED <<nextRow, store, bound, ingested, executed, cut>>,
           \A e \in acked' : e \in acked \/ DealtWith(e)
    PROVE  WireInv'
<1> DEFINE arriving == Arriving("batch", EventsOf(DequeueBatch(queue')))
           replay == Sending(queue', r)
<1>1. request \in [Request -> RequestStates] /\ nextRow \in Nat \ {0}
  BY DEF WireInv, WireTypes, GridTypes, BrainTypes
<1>2. /\ arriving \in RequestStates
      /\ replay.pc = "replaying" /\ replay.r = r /\ IsTable(replay.batch, nextRow)
      /\ \A k \in DOMAIN replay.batch :
            /\ k \in DOMAIN queue' => queue'[k] = replay.batch[k]
            /\ replay.batch[k] \in Open(arriving)
  BY <1>1, BatchBegins
<1>3. drain' = replay /\ request' = [request EXCEPT ![r] = arriving]
  OBVIOUS
<1> HIDE DEF arriving, replay
<1>4. /\ request' \in [Request -> RequestStates] /\ request'[r] = arriving
      /\ \A q \in Request \ {r} : request'[q] = request[q]
  BY <1>1, <1>2, <1>3
<1>5. WireTypes'
  BY <1>1, <1>2, <1>3, <1>4 DEF WireInv, WireTypes, BrainTypes, GridTypes
<1>6. BatchIsCarried'
  BY <1>2, <1>3, <1>4 DEF BatchIsCarried
<1>7. \A e \in Event : DealtWith(e) => DealtWith(e)'
  <2>1. \A q \in Request : request[q].pc = "dispatch" => request'[q] = request[q]
    BY <1>4 DEF Reply
  <2> QED
    BY <2>1, DealtStays
<1>8. IngestedWasHandled' /\ AckedWasHandled'
  <2>1. \A e \in acked' : e \in Event
    BY DEF HistoryTypes
  <2> QED
    BY <1>7, <2>1
       DEF WireInv, WireTypes, GridTypes, IngestedWasHandled, AckedWasHandled, DealtWith
<1> QED
  BY <1>5, <1>6, <1>8 DEF WireInv

\* What is left of a request whose client has given up.
LEMMA LeftIs ==
    ASSUME NEW r, NEW left \in LeftOf(r)
    PROVE  /\ left \in {Idle, request[r]}
           /\ request[r].pc # "dispatch" \/ left = request[r]
BY DEF LeftOf

LEMMA ReturnKeeps ==
    ASSUME WireInv, NEW t \in Task, Returning(t) \/ LiveTimesOut(t)
    PROVE  WireInv'
<1> DEFINE r == task[t].r
<1>1. /\ task \in [Task -> {Idle} \cup [pc : {"posting"}, events : Posts, r : Request]]
      /\ nextRow \in Nat \ {0} /\ IsTable(queue, nextRow) /\ HistoryTypes /\ GridTypes /\ BrainTypes
  BY DEF WireInv, WireTypes, BrainTypes
<1>2. r \in Request /\ task[t].events \in Seq(Event)
  <2>1. task[t].pc = "posting"
    BY DEF Returning, LiveAccepted, LiveFailed, LiveRefused, LiveTimesOut
  <2>2. task[t] \in [pc : {"posting"}, events : Posts, r : Request]
    BY <1>1, <2>1 DEF Idle
  <2> QED
    BY <2>2, ConstantsAssumption
<1>3. task' \in [Task -> {Idle} \cup [pc : {"posting"}, events : Posts, r : Request]]
  BY <1>1 DEF Returning, LiveAccepted, LiveFailed, LiveRefused, LiveTimesOut
<1> HIDE DEF r
<1>4. Reply("ok").pc # "dispatch" /\ Reply("error").pc # "dispatch"
      /\ Reply("broken").pc # "dispatch" /\ Reply("refused").pc # "dispatch"
  BY DEF Reply
<1>5. CASE LiveAccepted(t) /\ queue # << >> /\ drain = Idle
  <2>1. /\ drain' = Sending(queue, r) /\ request[r] = Reply("ok")
        /\ request' = [request EXCEPT ![r] = Arriving("batch", EventsOf(DequeueBatch(queue)))]
        /\ UNCHANGED <<store, bound, queue, nextRow, ingested, history, faults>>
    BY <1>5 DEF LiveAccepted, r
  <2>2. HistoryTypes' /\ IsTable(queue', nextRow)
    BY <1>1, <2>1 DEF HistoryTypes, history
  <2> QED
    BY <1>2, <1>3, <1>5, <2>1, <2>2, SendingKeeps DEF history
<1>6. CASE LiveAccepted(t) /\ ~(queue # << >> /\ drain = Idle)
  <2>1. /\ drain' = drain /\ request[r] = Reply("ok") /\ request' = [request EXCEPT ![r] = Idle]
        /\ UNCHANGED <<store, bound, queue, nextRow, ingested, history, faults>>
    BY <1>6 DEF LiveAccepted, r
  <2>2. HistoryTypes' /\ BrainTypes'
    BY <1>1, <1>3, <2>1 DEF HistoryTypes, BrainTypes, history
  <2>3. /\ Keeps(queue, queue', nextRow) /\ ingested' \subseteq Event /\ cut \subseteq cut'
        /\ \A e \in ingested' : e \in ingested
    BY <1>1, <2>1, SameRows DEF GridTypes, history
  <2> QED
    BY <1>2, <1>4, <2>1, <2>2, <2>3, OneFails DEF history
<1>7. CASE LiveRefused(t)
  <2>1. /\ drain' = drain /\ request[r] = Reply("refused") /\ request' = [request EXCEPT ![r] = Idle]
        /\ UNCHANGED <<store, bound, queue, nextRow, ingested, history, faults>>
    BY <1>7 DEF LiveRefused, r
  <2>2. HistoryTypes' /\ BrainTypes'
    BY <1>1, <1>3, <2>1 DEF HistoryTypes, BrainTypes, history
  <2>3. /\ Keeps(queue, queue', nextRow) /\ ingested' \subseteq Event /\ cut \subseteq cut'
        /\ \A e \in ingested' : e \in ingested
    BY <1>1, <2>1, SameRows DEF GridTypes, history
  <2> QED
    BY <1>2, <1>4, <2>1, <2>2, <2>3, OneFails DEF history
<1>8. CASE LiveFailed(t) \/ LiveTimesOut(t)
  <2>1. \E left \in {Idle, request[r]} :
            /\ request[r].pc # "dispatch" \/ left = request[r]
            /\ request' = [request EXCEPT ![r] = left]
    <3>1. CASE LiveFailed(t)
      BY <1>4, <3>1 DEF LiveFailed, r
    <3>2. CASE LiveTimesOut(t)
      BY <3>2, LeftIs DEF LiveTimesOut, r
    <3> QED
      BY <1>8, <3>1, <3>2
  <2>2. EnqueueAll(task[t].events) /\ UNCHANGED <<store, bound, drain, ingested, history>>
    BY <1>8 DEF LiveFailed, LiveTimesOut
  <2>3. /\ nextRow' \in Nat \ {0} /\ IsTable(queue', nextRow') /\ nextRow <= nextRow'
        /\ Keeps(queue, queue', nextRow)
    BY <1>1, <1>2, <2>2, EnqueueAllIs
  <2>4. BrainTypes'
    <3>1. drain = Idle \/ (drain.pc = "replaying" /\ drain.r \in Request /\ IsTable(drain.batch, nextRow))
      BY <1>1 DEF BrainTypes
    <3>2. IsTable(drain.batch, nextRow) => IsTable(drain.batch, nextRow')
      <4>1. 1..(nextRow - 1) \subseteq 1..(nextRow' - 1)
        <5>1. \A a, b \in Nat : a <= b => 1..(a - 1) \subseteq 1..(b - 1)
          OBVIOUS
        <5>2. nextRow \in Nat /\ nextRow' \in Nat /\ nextRow <= nextRow'
          BY <1>1, <2>3
        <5> QED
          BY <5>1, <5>2
      <4> QED
        BY <4>1 DEF IsTable
    <3> QED
      BY <1>3, <2>2, <2>3, <3>1, <3>2 DEF BrainTypes
  <2>5. HistoryTypes'
    <3>1. faults' \in 0..MaxFaults
      BY <1>1, <1>8, ConstantsAssumption
         DEF LiveFailed, LiveTimesOut, Fault, HistoryTypes
    <3> QED
      BY <1>1, <2>2, <3>1 DEF HistoryTypes, history
  <2>6. /\ ingested' \subseteq Event /\ cut \subseteq cut' /\ UNCHANGED <<executed, acked>>
        /\ \A e \in ingested' : e \in ingested
    BY <1>1, <2>2 DEF GridTypes, history
  <2> QED
    BY <1>2, <2>1, <2>2, <2>3, <2>4, <2>5, <2>6, OneFails
<1> QED
  BY <1>5, <1>6, <1>7, <1>8 DEF Returning

\* The rows that are deleted are rows of the batch, and its request was
\* answered ok: whatever they hold was dealt with.
LEMMA AcceptKeeps ==
    ASSUME WireInv, BatchAccepted
    PROVE  WireInv'
<1> DEFINE r == drain.r
           gone == MarkAcked(drain.batch)
           rows == Rows(queue, DOMAIN queue \ gone)
<1>1. /\ nextRow \in Nat \ {0} /\ IsTable(queue, nextRow) /\ HistoryTypes /\ GridTypes /\ BrainTypes
      /\ drain.pc = "replaying" /\ request[r] = Reply("ok")
  BY DEF WireInv, WireTypes, BrainTypes, BatchAccepted
<1>2. r \in Request
  BY <1>1 DEF BrainTypes, Idle
<1>3. ASSUME NEW k \in gone PROVE queue[k] \in Event /\ DealtWith(queue[k])
  <2>1. k \in DOMAIN queue /\ k \in DOMAIN drain.batch
    BY DEF MarkAcked
  <2>2. queue[k] = drain.batch[k] /\ (drain.batch[k] \in {} \/ DealtWith(drain.batch[k]))
    BY <1>1, <2>1, StatesAre DEF WireInv, BatchIsCarried
  <2> QED
    BY <1>1, <2>1, <2>2 DEF IsTable
<1>4. /\ IsTable(rows, nextRow) /\ DOMAIN rows \subseteq DOMAIN queue
      /\ \A k \in DOMAIN rows : rows[k] = queue[k]
  <2>1. DOMAIN queue \ gone \in SUBSET DOMAIN queue
    OBVIOUS
  <2> HIDE DEF gone
  <2> QED
    BY <1>1, <2>1, PartOfTable
<1>5. /\ queue' = rows /\ acked' = acked \cup {queue[k] : k \in gone}
      /\ UNCHANGED <<store, bound, task, nextRow, ingested, decided, executed, replayed,
                     cut, faults>>
  BY DEF BatchAccepted
<1>6. /\ drain' = IF rows = << >> THEN Idle ELSE Sending(rows, r)
      /\ request' = [request EXCEPT ![r] =
                        IF rows = << >> THEN Idle ELSE Arriving("batch", EventsOf(DequeueBatch(rows)))]
  BY DEF BatchAccepted
<1> HIDE DEF gone, rows, r
<1>7. HistoryTypes' /\ (\A e \in acked' : e \in acked \/ DealtWith(e))
  <2>1. acked' \subseteq Event
    BY <1>1, <1>3, <1>5 DEF HistoryTypes
  <2> QED
    BY <1>1, <1>3, <1>5, <2>1 DEF HistoryTypes
<1>8. task' \in [Task -> {Idle} \cup [pc : {"posting"}, events : Posts, r : Request]]
  BY <1>1, <1>5 DEF BrainTypes
<1>9. CASE rows # << >>
  BY <1>1, <1>2, <1>4, <1>5, <1>6, <1>7, <1>8, <1>9, SendingKeeps
<1>10. CASE rows = << >>
  <2>1. drain' = Idle /\ request' = [request EXCEPT ![r] = Idle]
    BY <1>6, <1>10
  <2>2. /\ request' \in [Request -> RequestStates]
        /\ \A q \in Request \ {r} : request'[q] = request[q]
    BY <1>1, <2>1, StatesAre DEF GridTypes
  <2>3. WireTypes'
    BY <1>1, <1>4, <1>5, <1>7, <1>8, <2>1, <2>2 DEF WireTypes, BrainTypes, GridTypes
  <2>4. \A e \in Event : DealtWith(e) => DealtWith(e)'
    <3>1. \A q \in Request : request[q].pc = "dispatch" => request'[q] = request[q]
      BY <1>1, <2>2 DEF Reply
    <3> QED
      BY <1>5, <3>1, DealtStays
  <2>5. BatchIsCarried'
    BY <2>1 DEF BatchIsCarried, Idle
  <2>6. IngestedWasHandled' /\ AckedWasHandled'
    <3>1. \A e \in acked' : e \in Event
      BY <1>7 DEF HistoryTypes
    <3> QED
      BY <1>1, <1>5, <1>7, <2>4, <3>1
         DEF WireInv, GridTypes, IngestedWasHandled, AckedWasHandled, DealtWith
  <2> QED
    BY <2>3, <2>5, <2>6 DEF WireInv
<1> QED
  BY <1>9, <1>10

LEMMA StopKeeps ==
    ASSUME WireInv, BatchFailed \/ BatchTimesOut
    PROVE  WireInv'
<1> DEFINE r == drain.r
<1>1. /\ HistoryTypes /\ GridTypes /\ BrainTypes /\ drain.pc = "replaying" /\ drain' = Idle
  BY DEF WireInv, WireTypes, BatchFailed, BatchTimesOut, StopDrain
<1>2. r \in Request
  BY <1>1 DEF BrainTypes, Idle
<1>3. \E left \in {Idle, request[r]} :
          /\ request[r].pc # "dispatch" \/ left = request[r]
          /\ request' = [request EXCEPT ![r] = left]
  <2>1. CASE BatchFailed
    BY <2>1 DEF BatchFailed, Reply
  <2>2. CASE BatchTimesOut
    BY <2>2, LeftIs DEF BatchTimesOut
  <2> QED
    BY <2>1, <2>2
<1> HIDE DEF r
<1>4. UNCHANGED <<store, bound, task, queue, nextRow, ingested, history>>
  BY DEF BatchFailed, BatchTimesOut
<1>5. BrainTypes'
  BY <1>1, <1>4 DEF BrainTypes
<1>6. HistoryTypes'
  <2>1. faults' \in 0..MaxFaults
    BY <1>1, ConstantsAssumption DEF BatchFailed, BatchTimesOut, Fault, HistoryTypes
  <2> QED
    BY <1>1, <1>4, <2>1 DEF HistoryTypes, history
<1>7. /\ Keeps(queue, queue', nextRow) /\ ingested' \subseteq Event /\ cut \subseteq cut'
      /\ UNCHANGED <<executed, acked>> /\ \A e \in ingested' : e \in ingested
  BY <1>1, <1>4, SameRows DEF GridTypes, history
<1> QED
  BY <1>1, <1>2, <1>3, <1>4, <1>5, <1>6, <1>7, OneFails

LEMMA BrainCrashKeeps ==
    ASSUME WireInv, BrainCrash
    PROVE  WireInv'
<1>1. /\ HistoryTypes /\ GridTypes /\ BrainTypes /\ drain' = Idle
      /\ UNCHANGED <<store, bound, queue, nextRow, ingested, history>>
      /\ task' = [t \in Task |-> Idle]
      /\ request' = [r \in Request |-> IF request[r].pc = "reply" THEN Idle ELSE request[r]]
  BY DEF WireInv, WireTypes, BrainCrash
<1>2. BrainTypes'
  BY <1>1 DEF BrainTypes
<1>3. GridTypes' /\ \A r \in Request : request[r].pc = "dispatch" => request'[r] = request[r]
  BY <1>1, StatesAre DEF GridTypes
<1>4. HistoryTypes'
  <2>1. faults' \in 0..MaxFaults
    BY <1>1, ConstantsAssumption DEF BrainCrash, Fault, HistoryTypes
  <2> QED
    BY <1>1, <2>1 DEF HistoryTypes, history
<1>5. drain' = drain => drain.pc # "replaying"
  BY <1>1 DEF Idle
<1>6. Keeps(queue, queue', nextRow) /\ UNCHANGED <<executed, acked, cut, ingested>>
  BY <1>1, SameRows DEF history
<1> QED
  BY <1>1, <1>2, <1>3, <1>4, <1>5, <1>6, WireKeeps DEF WireTypes

-----------------------------------------------------------------------------
(* What the Grid does closes the current event of a request. *)

LEMMA RouteKeeps ==
    ASSUME WireInv, NEW r \in Request, Route(r)
    PROVE  WireInv'
<1>1. /\ HistoryTypes /\ GridTypes /\ BrainTypes /\ request[r].pc = "arriving"
      /\ request \in [Request -> RequestStates]
      /\ UNCHANGED <<store, bound, brain, ingested, history, faults>>
  BY DEF WireInv, WireTypes, Route, GridTypes
<1>2. BrainTypes' /\ HistoryTypes' /\ drain' = drain /\ Keeps(queue, queue', nextRow)
  BY <1>1, SameRows DEF BrainTypes, HistoryTypes, brain, history
<1>3. UNCHANGED <<executed, acked, cut>> /\ ingested' \subseteq Event
      /\ \A e \in ingested' : e \in ingested
  BY <1>1 DEF history, GridTypes
<1>4. CASE bound
  <2> DEFINE serving == [request[r] EXCEPT !.pc = "serving"]
  <2>1. request' = [request EXCEPT ![r] = serving]
    BY <1>4 DEF Route
  <2>2. request[r] \in [pc : Busy, kind : {"live", "batch"}, todo : Seq(Event) \ {<< >>}]
    BY <1>1 DEF RequestStates, Idle
  <2>3. /\ serving \in [pc : Busy, kind : {"live", "batch"}, todo : Seq(Event) \ {<< >>}]
        /\ serving.pc = "serving" /\ serving.todo = request[r].todo
    BY <2>2 DEF Busy
  <2> HIDE DEF serving
  <2>4. serving \in RequestStates /\ Open(serving) = Open(request[r])
    BY <1>1, <2>3 DEF RequestStates, Open, Busy
  <2>5. /\ request' \in [Request -> RequestStates] /\ request'[r] = serving
        /\ \A q \in Request \ {r} : request'[q] = request[q]
    BY <1>1, <2>1, <2>4
  <2>6. WireTypes'
    BY <1>1, <1>2, <2>5 DEF WireTypes, GridTypes
  <2>7. \A q \in Request : Open(request'[q]) = Open(request[q])
    BY <2>4, <2>5
  <2>8. \A q \in Request : request[q].pc = "dispatch" => request'[q] = request[q]
    BY <1>1, <2>5
  <2>9. drain.pc = "replaying" => drain.r \in Request
    BY <1>1 DEF BrainTypes, Idle
  <2> QED
    BY <1>2, <1>3, <2>6, <2>7, <2>8, <2>9, WireKeeps
<1>5. CASE ~bound
  <2>1. \E state \in {Idle, Reply("refused")} : request' = [request EXCEPT ![r] = state]
    BY <1>5 DEF Route, Answer
  <2> QED
    BY <1>1, <1>2, <1>3, <2>1, OneFails
<1> QED
  BY <1>4, <1>5

LEMMA ThrowsKeeps ==
    ASSUME WireInv, NEW r \in Request,
           LiveThrows(r) \/ \E inserted \in BOOLEAN : ProbeFails(r, inserted)
    PROVE  WireInv'
<1>1. /\ HistoryTypes /\ GridTypes /\ BrainTypes /\ request[r].pc = "serving"
      /\ request' = [request EXCEPT ![r] = Answer(r, "error")]
      /\ UNCHANGED <<store, bound, brain, executed, acked, decided, replayed>>
      /\ faults' \in 0..MaxFaults
  <2>1. faults < MaxFaults /\ faults' = faults + 1
    BY DEF LiveThrows, ProbeFails, Fault
  <2>2. HistoryTypes
    BY DEF WireInv, WireTypes
  <2>3. faults' \in 0..MaxFaults
    BY <2>1, <2>2, ConstantsAssumption DEF HistoryTypes
  <2> QED
    BY <2>3 DEF WireInv, WireTypes, LiveThrows, ProbeFails, Serving, history
<1>2. /\ cut \subseteq cut' /\ cut' \subseteq Event /\ ingested' \subseteq Event
      /\ \A e \in ingested' : e \in ingested \/ e \in cut'
  <2>1. CASE LiveThrows(r)
    BY <1>1, <2>1 DEF LiveThrows, history, GridTypes, HistoryTypes
  <2>2. ASSUME NEW inserted \in BOOLEAN, ProbeFails(r, inserted)
        PROVE  /\ cut \subseteq cut' /\ cut' \subseteq Event /\ ingested' \subseteq Event
               /\ \A e \in ingested' : e \in ingested \/ e \in cut'
    <3>1. Current(r) \in Event
      <4>1. request[r] \in RequestStates /\ Idle.pc = "idle"
        BY <1>1 DEF GridTypes, Idle
      <4>2. request[r].todo \in Seq(Event) /\ request[r].todo # << >>
        BY <1>1, <4>1 DEF RequestStates
      <4> QED
        BY <4>2, HeadTailProperties DEF Current
    <3>2. /\ ingested' \in {ingested, ingested \cup {Current(r)}}
          /\ cut' = IF ingested' = ingested THEN cut ELSE cut \cup {Current(r)}
      <4>1. CASE inserted /\ Current(r) \notin ingested
        BY <2>2, <4>1 DEF ProbeFails
      <4>2. CASE ~(inserted /\ Current(r) \notin ingested)
        BY <2>2, <4>2 DEF ProbeFails
      <4> QED
        BY <4>1, <4>2
    <3> QED
      BY <1>1, <3>1, <3>2 DEF GridTypes, HistoryTypes
  <2> QED
    BY <2>1, <2>2
<1>3. BrainTypes' /\ HistoryTypes' /\ drain' = drain /\ Keeps(queue, queue', nextRow)
  BY <1>1, <1>2, SameRows DEF BrainTypes, HistoryTypes, brain
<1>4. Answer(r, "error") \in {Idle, Reply("error")}
  BY DEF Answer
<1> QED
  BY <1>1, <1>2, <1>3, <1>4, OneFails

LEMMA ExecuteKeeps ==
    ASSUME WireInv, NEW r \in Request,
           ExecuteLive(r) \/ Dispatch(r) \/ DispatchThrows(r)
    PROVE  WireInv'
<1> DEFINE e == Current(r)
<1>1. /\ HistoryTypes /\ GridTypes /\ BrainTypes /\ request[r].pc \in {"serving", "dispatch"}
      /\ Continue(r) /\ UNCHANGED <<store, bound, brain, ingested, acked, decided>>
  BY DEF WireInv, WireTypes, ExecuteLive, Dispatch, DispatchThrows, Serving, Dispatching
<1>2. e \in Event
  BY <1>1, ContinueIs
<1>3. \A n \in 0..2 : More(n) \in 0..2 /\ More(n) > 0
  BY DEF More
<1>4. /\ executed' \in {executed, [executed EXCEPT ![e] = More(executed[e])]}
      /\ replayed' \in {replayed, [replayed EXCEPT ![e] = More(replayed[e])]}
      /\ cut' \in {cut, cut \cup {e}}
      /\ executed' = [executed EXCEPT ![e] = More(executed[e])] \/ cut' = cut \cup {e}
      /\ faults' = faults \/ Fault
  BY DEF ExecuteLive, Dispatch, DispatchThrows
<1> HIDE DEF e
<1>5. /\ executed' \in [Event -> 0..2] /\ replayed' \in [Event -> 0..2] /\ cut' \subseteq Event
      /\ \A d \in Event : executed[d] > 0 => executed'[d] > 0
      /\ executed'[e] > 0 \/ e \in cut'
  BY <1>1, <1>2, <1>3, <1>4 DEF HistoryTypes
<1>6. faults' \in 0..MaxFaults
  BY <1>1, <1>4, ConstantsAssumption DEF Fault, HistoryTypes
<1>7. HistoryTypes' /\ cut \subseteq cut'
  BY <1>1, <1>4, <1>5, <1>6 DEF HistoryTypes
<1> QED
  BY <1>1, <1>5, <1>7, OneContinues DEF e

LEMMA ProbeKeeps ==
    ASSUME WireInv, NEW r \in Request, Probe(r)
    PROVE  WireInv'
<1> DEFINE e == Current(r)
           taken == [request[r] EXCEPT !.pc = "dispatch"]
<1>1. /\ HistoryTypes /\ GridTypes /\ BrainTypes /\ request[r].pc = "serving"
      /\ request \in [Request -> RequestStates]
      /\ UNCHANGED <<store, bound, brain, history, faults>>
  BY DEF WireInv, WireTypes, GridTypes, Probe, Serving
<1>2. HistoryTypes' /\ BrainTypes' /\ UNCHANGED <<executed, acked, cut, queue, drain>>
  BY <1>1 DEF HistoryTypes, BrainTypes, history, brain
<1>3. CASE e \in ingested
  <2>1. Continue(r) /\ ingested' = ingested
    BY <1>3 DEF Probe, IsDuplicate
  <2> QED
    BY <1>1, <1>2, <1>3, <2>1, OneContinues
<1>4. CASE e \notin ingested
  <2>1. ingested' = ingested \cup {e} /\ request' = [request EXCEPT ![r].pc = "dispatch"]
    BY <1>4 DEF Probe, IsDuplicate
  <2>2. request[r] \in [pc : Busy, kind : {"live", "batch"}, todo : Seq(Event) \ {<< >>}]
    BY <1>1 DEF RequestStates, Idle
  <2>3. /\ taken \in [pc : Busy, kind : {"live", "batch"}, todo : Seq(Event) \ {<< >>}]
        /\ taken.pc = "dispatch" /\ taken.todo = request[r].todo
    BY <2>2 DEF Busy
  <2>4. request' = [request EXCEPT ![r] = taken]
    BY <2>1
  <2> HIDE DEF taken
  <2>5. taken \in RequestStates /\ Open(taken) = Open(request[r])
    BY <1>1, <2>3 DEF RequestStates, Open, Busy
  <2>6. /\ request' \in [Request -> RequestStates] /\ request'[r] = taken
        /\ \A q \in Request \ {r} : request'[q] = request[q]
    BY <1>1, <2>4, <2>5
  <2>7. e \in Event
    <3>1. request[r].todo \in Seq(Event) /\ request[r].todo # << >>
      BY <2>2
    <3> QED
      BY <3>1, HeadTailProperties DEF Current
  <2>8. WireTypes'
    BY <1>1, <1>2, <2>1, <2>6, <2>7 DEF WireTypes, GridTypes
  <2>9. ASSUME NEW d \in ingested' PROVE d \in ingested \/ DealtWith(d)'
    <3>1. CASE d = e
      <4>1. request'[r].pc = "dispatch" /\ Head(request'[r].todo) = d
        BY <2>3, <2>6, <3>1 DEF Current
      <4> QED
        BY <4>1 DEF DealtWith, AboutToExecute, Current
    <3> QED
      BY <2>1, <3>1
  <2>10. \A q \in Request : Open(request'[q]) = Open(request[q])
    BY <2>5, <2>6
  <2>11. \A q \in Request : request[q].pc = "dispatch" => request'[q] = request[q]
    BY <1>1, <2>6
  <2>12. drain.pc = "replaying" => drain.r \in Request
    BY <1>1 DEF BrainTypes, Idle
  <2> QED
    BY <1>2, <2>8, <2>9, <2>10, <2>11, <2>12, SameRows, WireKeeps
<1> QED
  BY <1>3, <1>4

LEMMA GridCrashKeeps ==
    ASSUME WireInv, GridCrash
    PROVE  WireInv'
<1>1. /\ HistoryTypes /\ GridTypes /\ BrainTypes /\ Fault /\ bound' = FALSE
      /\ cut' = cut \cup {Current(r) : r \in {q \in Request : request[q].pc = "dispatch"}}
      /\ request' = [r \in Request |-> IF Awaited(r) THEN Reply("broken") ELSE Idle]
      /\ UNCHANGED <<store, brain, ingested, decided, executed, replayed, acked>>
  BY DEF WireInv, WireTypes, GridCrash
<1>2. BrainTypes' /\ UNCHANGED <<queue, drain>>
  BY <1>1 DEF BrainTypes, brain
<1>3. GridTypes' /\ \A r \in Request : Open(request'[r]) = Event
  BY <1>1, StatesAre DEF GridTypes
<1>4. \A r \in Request : request[r].pc = "dispatch" => Current(r) \in Event
  <2> SUFFICES ASSUME NEW r \in Request, request[r].pc = "dispatch" PROVE Current(r) \in Event
    OBVIOUS
  <2>1. request[r] \in RequestStates /\ Idle.pc = "idle"
    BY <1>1 DEF GridTypes, Idle
  <2>2. request[r].todo \in Seq(Event) /\ request[r].todo # << >>
    BY <2>1 DEF RequestStates
  <2> QED
    BY <2>2, HeadTailProperties DEF Current
<1>5. HistoryTypes'
  <2>1. faults' \in 0..MaxFaults
    BY <1>1, ConstantsAssumption DEF Fault, HistoryTypes
  <2>2. cut' \subseteq Event
    BY <1>1, <1>4 DEF HistoryTypes
  <2> QED
    BY <1>1, <2>1, <2>2 DEF HistoryTypes
<1>6. \A r \in Request : request[r].pc = "dispatch" => Current(r) \in cut'
  BY <1>1
<1>7. drain.pc = "replaying" => drain.r \in Request
  BY <1>1 DEF BrainTypes, Idle
<1> QED
  BY <1>1, <1>2, <1>3, <1>5, <1>6, <1>7, SameRows, WireKeeps DEF WireTypes

-----------------------------------------------------------------------------
LEMMA WireInit == Init => WireInv
<1> SUFFICES ASSUME Init PROVE WireInv
  OBVIOUS
<1>1. BrainTypes
  <2>1. IsTable(queue, nextRow)
    <3>1. Cardinality({}) = 0
      BY FS_EmptySet
    <3>2. DOMAIN queue = {} /\ queue \in [{} -> Event]
      BY DEF Init
    <3> QED
      BY <3>1, <3>2, ConstantsAssumption DEF IsTable
  <2> QED
    BY <2>1 DEF Init, BrainTypes
<1>2. GridTypes /\ HistoryTypes
  BY StatesAre, ConstantsAssumption DEF Init, GridTypes, HistoryTypes
<1>3. BatchIsCarried /\ IngestedWasHandled /\ AckedWasHandled
  BY DEF Init, BatchIsCarried, Idle, IngestedWasHandled, AckedWasHandled
<1> QED
  BY <1>1, <1>2, <1>3 DEF WireInv, WireTypes

LEMMA WireStutter ==
    ASSUME WireInv, UNCHANGED vars
    PROVE  WireInv'
<1>1. WireTypes' /\ UNCHANGED <<cut, acked, executed, request, ingested, queue, drain>>
  BY DEF vars, brain, history, WireInv, WireTypes, BrainTypes, GridTypes, HistoryTypes
<1> QED
  BY <1>1, SameRows, WireKeeps

LEMMA WireNext == WireInv /\ [Next]_vars => WireInv'
<1> SUFFICES ASSUME WireInv, [Next]_vars PROVE WireInv'
  OBVIOUS
<1>1. CASE UNCHANGED vars
  BY <1>1, WireStutter
<1>2. ASSUME NEW t \in Task, Posting(t) \/ Returning(t) PROVE WireInv'
  BY <1>2, PostKeeps, ReturnKeeps DEF Posting
<1>3. CASE Draining
  BY <1>3, AcceptKeeps, StopKeeps DEF Draining
<1>4. ASSUME NEW r \in Request, Handling(r) PROVE WireInv'
  BY <1>4, RouteKeeps, ExecuteKeeps, ProbeKeeps DEF Handling
<1>5. CASE Failing
  BY <1>5, ReturnKeeps, StopKeeps, BrainCrashKeeps, GridCrashKeeps, ThrowsKeeps, ExecuteKeeps
     DEF Failing
<1> QED
  BY <1>1, <1>2, <1>3, <1>4, <1>5 DEF Next

\* wire/queue.py and routes/brain-wire.ts: a row leaves the queue by an
\* acknowledgement only when the Grid has dealt with its event.
THEOREM AckedMeansHandled == Spec => []AckedWasHandled
<1>1. WireInv => AckedWasHandled
  BY DEF WireInv
<1> QED
  BY <1>1, WireInit, WireNext, PTL DEF Spec

\* Every variable of the wire keeps its type; the queue is never longer than
\* its capacity, however many posts fail at once.
THEOREM WireTypesCorrect == Spec => []TypeOK
<1>1. ASSUME WireInv PROVE TypeOK
  <2>1. BrainTypes /\ GridTypes /\ HistoryTypes
    BY <1>1 DEF WireInv, WireTypes
  <2>2. \A t \in Task : task[t] = Idle \/ task[t] \in [pc : {"posting"}, events : Posts, r : Request]
    BY <2>1 DEF BrainTypes
  <2>3. /\ nextRow \in Nat /\ Cardinality(DOMAIN queue) <= Capacity
        /\ \A k \in DOMAIN queue : k \in 1..(nextRow - 1) /\ queue[k] \in Event
        /\ drain = Idle \/ /\ drain.pc = "replaying" /\ drain.r \in Request
                           /\ DOMAIN drain.batch \subseteq 1..(nextRow - 1)
    BY <2>1 DEF BrainTypes, IsTable
  <2>4. \A r \in Request : request[r] \in RequestState
    BY <2>1 DEF GridTypes, RequestStates, RequestState, Busy
  <2> QED
    BY <2>1, <2>2, <2>3, <2>4 DEF TypeOK, GridTypes, HistoryTypes
<1> QED
  BY <1>1, WireInit, WireNext, PTL DEF Spec

-----------------------------------------------------------------------------
(* The firehose: frames, buffers and links up to an id h. *)

FramesTo(h) ==
    {Hello, Bye} \cup {EventFrame(i) : i \in 1..h}
    \cup {Dropped(r.since, r.latest) : r \in [since : 0..h, latest : 1..h]}
Buffers(h) ==
    [buffer : Seq(1..h), draining : BOOLEAN,
     dropped : {NoRange} \cup [min : 1..h, max : 1..h]]
Links(h) == [hub : Buffers(h), out : Seq(FramesTo(h)), held : Nat]

\* Entry i was sent on s, or announced there as dropped; or b still knows it.
On(s, i) ==
    \E k \in 1..Len(s) :
        \/ s[k] = EventFrame(i)
        \/ s[k].type = "dropped" /\ s[k].since <= i /\ i <= s[k].latest
Kept(b, i) ==
    \/ \E k \in DOMAIN b.buffer : b.buffer[k] = i
    \/ b.dropped # NoRange /\ b.dropped.min <= i /\ i <= b.dropped.max
Covers(l, i) == On(l.out, i) \/ Kept(l.hub, i)

\* What a handler makes of the hub's side of a connection.
Sound(l, h) ==
    /\ l \in Links(h)
    /\ Len(l.hub.buffer) <= BufferCapacity
    /\ l.held = socket.held + Len(l.out)
\* It has sent nothing to a socket that is full.
Modest(l) == l.held <= Watermark \/ l.held <= socket.held

LEMMA FramesAre ==
    ASSUME NEW h \in Nat
    PROVE  /\ Hello \in FramesTo(h) /\ Bye \in FramesTo(h)
           /\ \A i \in 1..h : EventFrame(i) \in FramesTo(h)
           /\ \A a \in 0..h, b \in 1..h : Dropped(a, b) \in FramesTo(h)
           /\ \A f \in FramesTo(h) :
                /\ f.type \in {"hello", "bye", "event", "dropped"}
                /\ f.type = "event" => f.id \in 1..h /\ f = EventFrame(f.id)
                /\ f.type = "dropped" => f.since \in 0..h /\ f.latest \in 1..h
<1>1. \A a \in 0..h, b \in 1..h : Dropped(a, b) \in FramesTo(h)
  <2> SUFFICES ASSUME NEW a \in 0..h, NEW b \in 1..h PROVE Dropped(a, b) \in FramesTo(h)
    OBVIOUS
  <2> DEFINE r == [since |-> a, latest |-> b]
  <2>1. r \in [since : 0..h, latest : 1..h] /\ r.since = a /\ r.latest = b
    OBVIOUS
  <2> HIDE DEF r
  <2> QED
    BY <2>1 DEF FramesTo
<1>2. ASSUME NEW f \in FramesTo(h)
      PROVE  /\ f.type \in {"hello", "bye", "event", "dropped"}
             /\ f.type = "event" => f.id \in 1..h /\ f = EventFrame(f.id)
             /\ f.type = "dropped" => f.since \in 0..h /\ f.latest \in 1..h
  <2>1. CASE f \in {Hello, Bye}
    BY <2>1 DEF Hello, Bye
  <2>2. CASE \E i \in 1..h : f = EventFrame(i)
    BY <2>2 DEF EventFrame
  <2>3. CASE \E r \in [since : 0..h, latest : 1..h] : f = Dropped(r.since, r.latest)
    BY <2>3 DEF Dropped
  <2> QED
    BY <2>1, <2>2, <2>3 DEF FramesTo
<1> QED
  BY <1>1, <1>2 DEF FramesTo

LEMMA TypesGrow ==
    ASSUME NEW g \in Nat, NEW h \in Nat, g <= h
    PROVE  FramesTo(g) \subseteq FramesTo(h) /\ Buffers(g) \subseteq Buffers(h)
<1>1. 1..g \subseteq 1..h /\ 0..g \subseteq 0..h
  OBVIOUS
<1>2. FramesTo(g) \subseteq FramesTo(h)
  <2>1. ASSUME NEW r \in [since : 0..g, latest : 1..g] PROVE Dropped(r.since, r.latest) \in FramesTo(h)
    BY <1>1, FramesAre
  <2> QED
    BY <1>1, <2>1, FramesAre DEF FramesTo
<1>3. \A s \in Seq(1..g) : s \in Seq(1..h)
  BY <1>1, SeqMonotonic
<1>4. [min : 1..g, max : 1..g] \subseteq [min : 1..h, max : 1..h]
  BY <1>1
<1> QED
  BY <1>2, <1>3, <1>4 DEF Buffers

-----------------------------------------------------------------------------
(* One entry is enqueued. *)

\* A buffer that is full loses its oldest entry, and remembers that it did.
LEMMA PushedIs ==
    ASSUME NEW h \in Nat, NEW b \in Buffers(h), Len(b.buffer) <= BufferCapacity, NEW id \in 1..h
    PROVE  /\ Pushed(b, id) \in Buffers(h)
           /\ Len(Pushed(b, id).buffer) <= BufferCapacity
           /\ Kept(Pushed(b, id), id)
           /\ \A i \in Nat : Kept(b, i) => Kept(Pushed(b, id), i)
<1> DEFINE full == Len(b.buffer) >= BufferCapacity
           rest == IF full THEN Tail(b.buffer) ELSE b.buffer
           wide == IF full THEN Widened(b.dropped, b.buffer[1]) ELSE b.dropped
<1>0. /\ b.buffer \in Seq(1..h) /\ Len(b.buffer) \in Nat /\ DOMAIN b.buffer = 1..Len(b.buffer)
      /\ b.dropped \in {NoRange} \cup [min : 1..h, max : 1..h]
  <2>1. b.buffer \in Seq(1..h) /\ b.dropped \in {NoRange} \cup [min : 1..h, max : 1..h]
    BY DEF Buffers
  <2> QED
    BY <2>1, LenProperties
<1>1. full => b.buffer # << >> /\ b.buffer[1] \in 1..h
  BY <1>0, HubAssumption, ElementOfSeq
<1>2. /\ rest \in Seq(1..h) /\ Len(rest) < BufferCapacity
      /\ \A k \in 1..Len(b.buffer) : (\E j \in 1..Len(rest) : rest[j] = b.buffer[k]) \/ (full /\ k = 1)
  <2>1. CASE full
    <3>1. /\ Tail(b.buffer) \in Seq(1..h) /\ Len(Tail(b.buffer)) = Len(b.buffer) - 1
          /\ \A i \in 1..Len(Tail(b.buffer)) : Tail(b.buffer)[i] = b.buffer[i + 1]
      BY <1>0, <1>1, <2>1, HeadTailProperties
    <3>2. \A k \in 2..Len(b.buffer) : k - 1 \in 1..Len(Tail(b.buffer)) /\ Tail(b.buffer)[k - 1] = b.buffer[k]
      BY <1>0, <3>1
    <3>3. rest \in Seq(1..h) /\ Len(rest) < BufferCapacity
      BY <1>0, <2>1, <3>1, HubAssumption
    <3>4. \A k \in 2..Len(b.buffer) : \E j \in 1..Len(rest) : rest[j] = b.buffer[k]
      BY <2>1, <3>2
    <3>5. \A k \in 1..Len(b.buffer) : k = 1 \/ k \in 2..Len(b.buffer)
      BY <1>0
    <3> QED
      BY <2>1, <3>3, <3>4, <3>5
  <2>2. CASE ~full
    BY <1>0, <2>2, HubAssumption
  <2> QED
    BY <2>1, <2>2
<1>3. /\ wide \in {NoRange} \cup [min : 1..h, max : 1..h]
      /\ full => wide # NoRange /\ wide.min <= b.buffer[1] /\ b.buffer[1] <= wide.max
      /\ b.dropped # NoRange =>
            wide # NoRange /\ wide.min <= b.dropped.min /\ b.dropped.max <= wide.max
  <2>1. \A r \in [min : 1..h, max : 1..h] : r # NoRange
    BY DEF NoRange
  <2>2. CASE ~full
    <3>1. b.dropped # NoRange => b.dropped.min \in Nat /\ b.dropped.max \in Nat
      BY <1>0
    <3> QED
      BY <1>0, <2>2, <3>1
  <2>3. CASE full /\ b.dropped = NoRange
    <3>1. wide = [min |-> b.buffer[1], max |-> b.buffer[1]]
      BY <2>3 DEF Widened
    <3>2. wide \in [min : 1..h, max : 1..h] /\ wide.min = b.buffer[1] /\ wide.max = b.buffer[1]
      BY <1>1, <2>3, <3>1
    <3> QED
      BY <1>1, <2>1, <2>3, <3>2
  <2>4. CASE full /\ b.dropped # NoRange
    <3> DEFINE e == b.buffer[1]
               low == IF e < b.dropped.min THEN e ELSE b.dropped.min
               high == IF e > b.dropped.max THEN e ELSE b.dropped.max
    <3>1. wide = [min |-> low, max |-> high]
      BY <2>4 DEF Widened
    <3>2. b.dropped.min \in 1..h /\ b.dropped.max \in 1..h /\ e \in 1..h
      BY <1>0, <1>1, <2>4
    <3>3. /\ low \in 1..h /\ high \in 1..h /\ low <= e /\ e <= high
          /\ low <= b.dropped.min /\ b.dropped.max <= high
      BY <3>2
    <3> HIDE DEF low, high, wide
    <3>4. wide \in [min : 1..h, max : 1..h] /\ wide.min = low /\ wide.max = high
      BY <3>1, <3>3
    <3> QED
      BY <2>1, <3>3, <3>4
  <2> QED
    BY <2>2, <2>3, <2>4
<1>4. Pushed(b, id) = [buffer |-> Append(rest, id), dropped |-> wide, draining |-> TRUE]
  BY DEF Pushed
<1> DEFINE new == [buffer |-> Append(rest, id), dropped |-> wide, draining |-> TRUE]
<1> HIDE DEF full, rest, wide
<1>5. /\ Append(rest, id) \in Seq(1..h) /\ Len(Append(rest, id)) = Len(rest) + 1
      /\ DOMAIN Append(rest, id) = 1..Len(rest) + 1
      /\ Append(rest, id)[Len(rest) + 1] = id
      /\ \A j \in 1..Len(rest) : Append(rest, id)[j] = rest[j]
  BY <1>2
<1>6. new.buffer = Append(rest, id) /\ new.dropped = wide /\ new \in Buffers(h)
  BY <1>3, <1>5 DEF Buffers
<1> HIDE DEF new
<1>7. Len(rest) \in Nat /\ Len(Append(rest, id)) <= BufferCapacity
  BY <1>2, <1>5, HubAssumption
<1>8. Kept(new, id)
  BY <1>5, <1>6, <1>7 DEF Kept
<1>9. ASSUME NEW i \in Nat, Kept(b, i) PROVE Kept(new, i)
  <2>1. CASE \E k \in DOMAIN b.buffer : b.buffer[k] = i
    <3>1. PICK k \in 1..Len(b.buffer) : b.buffer[k] = i
      BY <1>0, <2>1
    <3>2. CASE \E j \in 1..Len(rest) : rest[j] = b.buffer[k]
      <4>1. \A j \in 1..Len(rest) : j \in DOMAIN new.buffer /\ new.buffer[j] = rest[j]
        BY <1>5, <1>6, <1>7
      <4> QED
        BY <3>1, <3>2, <4>1 DEF Kept
    <3>3. CASE full /\ k = 1
      BY <1>3, <1>6, <3>1, <3>3 DEF Kept
    <3> QED
      BY <1>2, <3>2, <3>3
  <2>2. CASE b.dropped # NoRange /\ b.dropped.min <= i /\ i <= b.dropped.max
    <3>1. b.dropped.min \in Nat /\ b.dropped.max \in Nat
      BY <1>0, <2>2
    <3>2. wide.min \in Nat /\ wide.max \in Nat /\ wide # NoRange
      BY <1>3, <2>2
    <3> QED
      BY <1>3, <1>6, <2>2, <3>1, <3>2 DEF Kept
  <2> QED
    BY <1>9, <2>1, <2>2 DEF Kept
<1> QED
  BY <1>4, <1>6, <1>7, <1>8, <1>9 DEF new

LEMMA SentIs ==
    ASSUME NEW h \in Nat, NEW l, Sound(l, h), socket.held \in Nat, NEW f \in FramesTo(h)
    PROVE  /\ Sound(Sent(l, f), h)
           /\ Sent(l, f).hub = l.hub /\ Sent(l, f).held = l.held + 1
           /\ Sent(l, f).out = Append(l.out, f)
           /\ \A i : Covers(l, i) => Covers(Sent(l, f), i)
           /\ Len(l.out) + 1 \in 1..Len(Sent(l, f).out)
           /\ Sent(l, f).out[Len(l.out) + 1] = f
<1>1. /\ l \in Links(h) /\ l.out \in Seq(FramesTo(h)) /\ l.held \in Nat /\ Len(l.out) \in Nat
      /\ Len(l.hub.buffer) <= BufferCapacity /\ l.held = socket.held + Len(l.out)
  BY DEF Sound, Links
<1>2. /\ Append(l.out, f) \in Seq(FramesTo(h)) /\ Len(Append(l.out, f)) = Len(l.out) + 1
      /\ Append(l.out, f)[Len(l.out) + 1] = f
      /\ \A j \in 1..Len(l.out) : Append(l.out, f)[j] = l.out[j]
  BY <1>1
<1>3. /\ Sent(l, f) \in Links(h) /\ Sent(l, f).hub = l.hub /\ Sent(l, f).held = l.held + 1
      /\ Sent(l, f).out = Append(l.out, f)
  <2> DEFINE longer == Append(l.out, f)
             more == l.held + 1
  <2>1. longer \in Seq(FramesTo(h)) /\ more \in Nat
    BY <1>1, <1>2
  <2>2. Sent(l, f) = [l EXCEPT !.out = longer, !.held = more]
    BY DEF Sent
  <2> HIDE DEF longer, more
  <2>3. /\ Sent(l, f) \in Links(h) /\ Sent(l, f).hub = l.hub
        /\ Sent(l, f).out = longer /\ Sent(l, f).held = more
    BY <1>1, <2>1, <2>2 DEF Links
  <2> QED
    BY <2>3 DEF longer, more
<1>4. Sound(Sent(l, f), h)
  BY <1>1, <1>2, <1>3 DEF Sound
<1>5. ASSUME NEW i, Covers(l, i) PROVE Covers(Sent(l, f), i)
  <2>1. CASE On(l.out, i)
    <3>1. \A k \in 1..Len(l.out) : /\ k \in 1..Len(Sent(l, f).out)
                                   /\ Sent(l, f).out[k] = l.out[k]
      BY <1>1, <1>2, <1>3
    <3> QED
      BY <2>1, <3>1 DEF Covers, On
  <2>2. CASE Kept(l.hub, i)
    BY <1>3, <2>2 DEF Covers
  <2> QED
    BY <1>5, <2>1, <2>2 DEF Covers
<1> QED
  BY <1>1, <1>2, <1>3, <1>4, <1>5

LEMMA EnqueuedIs ==
    ASSUME NEW h \in Nat, NEW l, Sound(l, h), Modest(l), socket.held \in Nat, NEW id \in 1..h
    PROVE  LET new == Enqueued(l, id)
           IN  /\ Sound(new, h) /\ Modest(new) /\ Covers(new, id)
               /\ \A i \in Nat : Covers(l, i) => Covers(new, i)
<1>1. CASE l.hub.buffer = << >> /\ l.hub.dropped = NoRange /\ l.held < Watermark
  <2>1. Enqueued(l, id) = Sent(l, EventFrame(id))
    BY <1>1 DEF Enqueued
  <2>2. EventFrame(id) \in FramesTo(h)
    BY FramesAre
  <2>3. l.held \in Nat
    BY DEF Sound, Links
  <2>4. Modest(Sent(l, EventFrame(id)))
    BY <1>1, <2>2, <2>3, SentIs, HubAssumption DEF Modest
  <2>5. Covers(Sent(l, EventFrame(id)), id)
    <3>1. \E k \in 1..Len(Sent(l, EventFrame(id)).out) :
              Sent(l, EventFrame(id)).out[k] = EventFrame(id)
      BY <2>2, SentIs
    <3>2. On(Sent(l, EventFrame(id)).out, id)
      BY <3>1 DEF On
    <3> QED
      BY <3>2 DEF Covers
  <2> QED
    BY <2>1, <2>2, <2>4, <2>5, SentIs
<1>2. CASE ~(l.hub.buffer = << >> /\ l.hub.dropped = NoRange /\ l.held < Watermark)
  <2> DEFINE new == [l EXCEPT !.hub = Pushed(l.hub, id)]
  <2>1. Enqueued(l, id) = new
    BY <1>2 DEF Enqueued
  <2>2. l \in Links(h) /\ l.hub \in Buffers(h) /\ Len(l.hub.buffer) <= BufferCapacity
    BY DEF Sound, Links
  <2>3. /\ Pushed(l.hub, id) \in Buffers(h)
        /\ Len(Pushed(l.hub, id).buffer) <= BufferCapacity
        /\ Kept(Pushed(l.hub, id), id)
        /\ \A i \in Nat : Kept(l.hub, i) => Kept(Pushed(l.hub, id), i)
    BY <2>2, PushedIs
  <2>4. new \in Links(h) /\ new.hub = Pushed(l.hub, id) /\ new.out = l.out /\ new.held = l.held
    BY <2>2, <2>3 DEF Links
  <2> HIDE DEF new
  <2>5. Sound(new, h) /\ Modest(new)
    BY <2>3, <2>4 DEF Sound, Modest
  <2> QED
    BY <2>1, <2>3, <2>4, <2>5 DEF Covers
<1> QED
  BY <1>1, <1>2

-----------------------------------------------------------------------------
(* The replay. *)

\* The equation of the loop: f[n] is the link after the first n entries.
ReplayUpTo(f, since, top) ==
    f = [n \in 0..top |->
            IF n = 0 THEN Link
            ELSE IF n > since /\ chain[n] = "public" THEN Enqueued(f[n - 1], n)
            ELSE f[n - 1]]
ReplayLoop(since) == CHOOSE f : ReplayUpTo(f, since, LastId)

LEMMA ReplayExists ==
    ASSUME NEW since, LastId \in Nat
    PROVE  ReplayUpTo(ReplayLoop(since), since, LastId)
<1> DEFINE T == {m \in 0..LastId : ~ \E f : ReplayUpTo(f, since, m)}
<1>1. SUFFICES T = {}
  <2>1. T = {} => \E f : ReplayUpTo(f, since, LastId)
    OBVIOUS
  <2> QED
    BY <2>1 DEF ReplayLoop
<1>2. SUFFICES ASSUME T # {} PROVE FALSE
  OBVIOUS
<1>3. PICK m \in T : \A y \in T : m <= y
  <2>1. T \in SUBSET Nat
    OBVIOUS
  <2> HIDE DEF T
  <2> QED
    BY <1>2, <2>1, LeastNat
<1>4. m \in 0..LastId /\ ~ \E f : ReplayUpTo(f, since, m)
  BY <1>3
<1>5. CASE m = 0
  <2> DEFINE f == [n \in 0..0 |-> Link]
  <2>1. ReplayUpTo(f, since, 0)
    BY DEF ReplayUpTo
  <2> QED
    BY <1>4, <1>5, <2>1
<1>6. CASE m > 0
  <2>1. m - 1 \in 0..LastId /\ ~(m <= m - 1)
    BY <1>4, <1>6
  <2>2. PICK g : ReplayUpTo(g, since, m - 1)
    BY <1>3, <2>1
  <2> DEFINE Next1(n) == IF n > since /\ chain[n] = "public" THEN Enqueued(g[n - 1], n) ELSE g[n - 1]
             f == [n \in 0..m |-> IF n = 0 THEN Link ELSE Next1(n)]
  <2>3. \A n \in 0..(m - 1) : f[n] = g[n]
    <3>1. \A n \in 0..(m - 1) : g[n] = IF n = 0 THEN Link ELSE Next1(n)
      BY <2>2 DEF ReplayUpTo
    <3>2. \A n \in 0..(m - 1) : f[n] = IF n = 0 THEN Link ELSE Next1(n)
      BY <1>4
    <3> QED
      BY <3>1, <3>2
  <2>4. \A n \in 0..m : n # 0 => n - 1 \in 0..(m - 1)
    BY <1>4
  <2>5. ReplayUpTo(f, since, m)
    <3>1. \A n \in 0..m : n # 0 =>
             Next1(n) = IF n > since /\ chain[n] = "public" THEN Enqueued(f[n - 1], n) ELSE f[n - 1]
      BY <2>3, <2>4
    <3> QED
      BY <3>1 DEF ReplayUpTo
  <2> QED
    BY <1>4, <2>5
<1> QED
  BY <1>4, <1>5, <1>6

\* The replay keeps what the connection had, and covers every entry above since.
LEMMA ReplayedIs ==
    ASSUME LastId \in Nat, NEW since \in Nat, Sound(Link, LastId), Modest(Link), socket.held \in Nat
    PROVE  LET l == Replayed(since)
           IN  /\ Sound(l, LastId) /\ Modest(l)
               /\ \A i \in 1..LastId : i > since /\ chain[i] = "public" => Covers(l, i)
               /\ \A i \in Nat : Covers(Link, i) => Covers(l, i)
<1> DEFINE f == ReplayLoop(since)
           Good(n) == /\ Sound(f[n], LastId) /\ Modest(f[n])
                      /\ \A i \in 1..n : i > since /\ chain[i] = "public" => Covers(f[n], i)
                      /\ \A i \in Nat : Covers(Link, i) => Covers(f[n], i)
           T == {m \in 0..LastId : ~Good(m)}
<1>1. Replayed(since) = f[LastId]
  BY DEF Replayed, ReplayLoop, ReplayUpTo
<1>2. /\ f[0] = Link
      /\ \A n \in 1..LastId :
            f[n] = IF n > since /\ chain[n] = "public" THEN Enqueued(f[n - 1], n) ELSE f[n - 1]
  <2>1. ReplayUpTo(f, since, LastId)
    BY ReplayExists
  <2> HIDE DEF f
  <2> QED
    BY <2>1 DEF ReplayUpTo
<1> HIDE DEF f
<1>3. Good(0)
  BY <1>2
<1>4. ASSUME NEW n \in 1..LastId, Good(n - 1) PROVE Good(n)
  <2>1. CASE n > since /\ chain[n] = "public"
    <3>1. f[n] = Enqueued(f[n - 1], n)
      BY <1>2, <2>1
    <3>2. /\ Sound(f[n], LastId) /\ Modest(f[n]) /\ Covers(f[n], n)
          /\ \A i \in Nat : Covers(f[n - 1], i) => Covers(f[n], i)
      BY <1>4, <3>1, EnqueuedIs
    <3>3. \A i \in 1..n : i = n \/ i \in 1..(n - 1)
      OBVIOUS
    <3> QED
      BY <1>4, <3>2, <3>3
  <2>2. CASE ~(n > since /\ chain[n] = "public")
    <3>1. f[n] = f[n - 1]
      BY <1>2, <2>2
    <3>2. \A i \in 1..n : i > since /\ chain[i] = "public" => i \in 1..(n - 1)
      BY <2>2
    <3> QED
      BY <1>4, <3>1, <3>2
  <2> QED
    BY <2>1, <2>2
<1> HIDE DEF Good
<1>5. T = {}
  <2> SUFFICES ASSUME T # {} PROVE FALSE
    OBVIOUS
  <2>1. PICK m \in T : \A y \in T : m <= y
    <3>1. T \in SUBSET Nat
      OBVIOUS
    <3> HIDE DEF T
    <3> QED
      BY <3>1, LeastNat
  <2>2. m \in 1..LastId /\ ~Good(m)
    BY <1>3, <2>1
  <2>3. m - 1 \in 0..LastId /\ ~(m <= m - 1)
    BY <2>2
  <2>4. Good(m - 1)
    BY <2>1, <2>3
  <2> QED
    BY <1>4, <2>2, <2>4
<1>6. Good(LastId)
  BY <1>5
<1> QED
  BY <1>1, <1>6 DEF Good

-----------------------------------------------------------------------------
(* The invariant of the firehose. *)

HeldSmall ==
    socket.held <= Watermark + (IF conn.phase = "closing" THEN 2
                                ELSE IF conn.phase = "subscribed" THEN 1 ELSE 0)

\* A page p shows i or has pushed it out, and only a full page pushes out.
Has(p, i) == i \in p.gone \/ \E k \in 1..Len(p.shown) : p.shown[k] = i
Orderly(p) ==
    Len(p.shown) <= PageCapacity /\ (p.gone # {} => Len(p.shown) = PageCapacity)

\* What the page has read it has.
ReadIsShown ==
    \A k \in 1..socket.read : stream[k].type = "event" => Has(page, stream[k].id)

HubInv == HubTypeOK /\ NoSilentGap /\ HeldSmall /\ Orderly(page) /\ ReadIsShown

\* What is read off the chain stays with it.
LEMMA ChainStays ==
    ASSUME chain' = chain
    PROVE  /\ LastId' = LastId /\ Id' = Id /\ Allowlisted' = Allowlisted
           /\ Missing' = Missing /\ Length' = Length
<1>1. LastId' = LastId
  BY DEF LastId
<1>2. Id' = Id
  BY <1>1 DEF Id
<1>3. Allowlisted' = Allowlisted
  BY <1>2 DEF Allowlisted
<1>4. Missing' = Missing
  <2>1. {i \in Id' : chain'[i] = "lost"} = {i \in Id : chain[i] = "lost"}
    BY <1>2
  <2> QED
    BY <2>1 DEF Missing
<1> QED
  BY <1>1, <1>2, <1>3, <1>4 DEF Length

LEMMA MissingIs ==
    ASSUME LastId \in Nat
    PROVE  Missing \in Nat
<1>1. IsFiniteSet(Id)
  BY FS_Interval DEF Id
<1>2. IsFiniteSet({i \in Id : chain[i] = "lost"})
  BY <1>1, FS_Subset
<1> QED
  BY <1>2, FS_CardinalityType DEF Missing

\* The types, and NoSilentGap, in the terms of this module.
LEMMA HubTypesAre ==
    ASSUME HubTypeOK
    PROVE  /\ LastId \in Nat /\ chain \in Seq(Kind) /\ DOMAIN chain = 1..LastId
           /\ hub \in Buffers(LastId) /\ Len(hub.buffer) <= BufferCapacity
           /\ stream \in Seq(FramesTo(LastId)) /\ Len(stream) \in Nat
           /\ socket.read \in Nat /\ socket.held \in Nat
           /\ socket.read + socket.held <= Len(stream)
           /\ Link \in Links(LastId) /\ Sound(Link, LastId) /\ Modest(Link)
           /\ \A i : Covers(Link, i) <=> Kept(hub, i)
<1>1. LastId \in Nat /\ chain \in Seq(Kind) /\ DOMAIN chain = 1..LastId
  BY DEF HubTypeOK, LastId
<1>2. hub \in Buffers(LastId) /\ Len(hub.buffer) <= BufferCapacity
  BY DEF HubTypeOK, Buffers, Id
<1>3. stream \in Seq(FramesTo(LastId)) /\ Len(stream) \in Nat
  <2>1. Frame = FramesTo(LastId)
    BY DEF Frame, FramesTo, Id, DroppedRange
  <2> QED
    BY <2>1 DEF HubTypeOK
<1>4. socket.read \in Nat /\ socket.held \in Nat /\ socket.read + socket.held <= Len(stream)
  BY DEF HubTypeOK
<1>5. << >> \in Seq(FramesTo(LastId)) /\ Len(<< >>) = 0
  BY EmptySeq
<1>6. Link \in Links(LastId) /\ Link.hub = hub /\ Link.out = << >> /\ Link.held = socket.held
  BY <1>2, <1>4, <1>5 DEF Link, Links
<1>7. Sound(Link, LastId) /\ Modest(Link)
  BY <1>2, <1>4, <1>5, <1>6 DEF Sound, Modest
<1>8. \A i : Covers(Link, i) <=> Kept(hub, i)
  BY <1>5, <1>6 DEF Covers, On
<1> QED
  BY <1>1, <1>2, <1>3, <1>4, <1>6, <1>7, <1>8

Known(i) == On(stream, i) \/ Kept(hub, i)

LEMMA KnownIs ==
    ASSUME DOMAIN stream = 1..Len(stream)
    PROVE  NoSilentGap <=> (Attached => \A i \in Owed : Known(i))
<1>1. ASSUME NEW i PROVE On(stream, i) <=> EventFrame(i) \in FramesOf("event") \/ Announced(i)
  BY DEF On, FramesOf, Announced, EventFrame
<1>2. \A i : Kept(hub, i) <=> Waiting(i)
  BY DEF Kept, Waiting
<1> QED
  BY <1>1, <1>2 DEF NoSilentGap, Known

\* What a handler sends is appended to the stream and held by the socket.
LEMMA PutIs ==
    ASSUME HubTypeOK, NEW h \in Nat, LastId <= h, NEW l, Sound(l, h), Put(l)
    PROVE  /\ hub' = l.hub /\ hub' \in Buffers(h) /\ Len(hub'.buffer) <= BufferCapacity
           /\ stream' \in Seq(FramesTo(h)) /\ Len(stream) <= Len(stream')
           /\ \A k \in 1..Len(stream) : stream'[k] = stream[k]
           /\ socket' \in [read : Nat, held : Nat] /\ socket'.held = l.held
           /\ socket'.read = socket.read /\ socket'.read + socket'.held <= Len(stream')
           /\ \A i : Covers(l, i) \/ On(stream, i) => On(stream', i) \/ Kept(hub', i)
<1>1. /\ stream \in Seq(FramesTo(LastId)) /\ Len(stream) \in Nat /\ LastId \in Nat
      /\ socket.read \in Nat /\ socket.held \in Nat /\ socket.read + socket.held <= Len(stream)
  BY HubTypesAre
<1>2. /\ l \in Links(h) /\ l.hub \in Buffers(h) /\ l.out \in Seq(FramesTo(h)) /\ l.held \in Nat
      /\ Len(l.out) \in Nat /\ l.held = socket.held + Len(l.out)
      /\ Len(l.hub.buffer) <= BufferCapacity
  BY DEF Sound, Links
<1>3. stream \in Seq(FramesTo(h))
  BY <1>1, TypesGrow, SeqMonotonic
<1>4. /\ hub' = l.hub /\ stream' = stream \o l.out
      /\ socket' = [socket EXCEPT !.held = l.held]
  BY DEF Put
<1>5. /\ stream' \in Seq(FramesTo(h)) /\ Len(stream') = Len(stream) + Len(l.out)
      /\ \A k \in 1..Len(stream) + Len(l.out) :
            stream'[k] = IF k <= Len(stream) THEN stream[k] ELSE l.out[k - Len(stream)]
  BY <1>2, <1>3, <1>4, ConcatProperties
<1>6. socket' \in [read : Nat, held : Nat] /\ socket'.held = l.held /\ socket'.read = socket.read
  BY <1>1, <1>2, <1>4 DEF HubTypeOK
<1>7. \A k \in 1..Len(stream) : stream'[k] = stream[k] /\ k \in 1..Len(stream')
  BY <1>1, <1>2, <1>5
<1>8. \A k \in 1..Len(l.out) : /\ Len(stream) + k \in 1..Len(stream')
                               /\ stream'[Len(stream) + k] = l.out[k]
  BY <1>1, <1>2, <1>5
<1>9. ASSUME NEW i, Covers(l, i) \/ On(stream, i) PROVE On(stream', i) \/ Kept(hub', i)
  <2>1. CASE On(stream, i)
    BY <1>7, <2>1 DEF On
  <2>2. CASE On(l.out, i)
    BY <1>8, <2>2 DEF On
  <2>3. CASE Kept(l.hub, i)
    BY <1>4, <2>3
  <2> QED
    BY <1>9, <2>1, <2>2, <2>3 DEF Covers
<1>10. Len(stream) <= Len(stream') /\ socket'.read + socket'.held <= Len(stream')
  BY <1>1, <1>2, <1>5, <1>6
<1> QED
  BY <1>2, <1>4, <1>5, <1>6, <1>7, <1>9, <1>10

-----------------------------------------------------------------------------
(* The steps of the hub. *)

ConnsTo(h) ==
    [phase : {"down", "open", "subscribed", "closing"}, since : 0..h, joined : 0..h,
     made : 0..MaxConnects]
PagesTo(h) ==
    [lastSeen : 0..h, shown : Seq(0..h), gone : SUBSET (1..h),
     refills : SUBSET [since : 0..h, latest : 1..h], halted : BOOLEAN]
Allowance(phase) == IF phase = "closing" THEN 2 ELSE IF phase = "subscribed" THEN 1 ELSE 0

LEMMA PageTypes ==
    ASSUME HubInv
    PROVE  page \in PagesTo(LastId) /\ Orderly(page)
  BY DEF HubInv, HubTypeOK, PagesTo, Id, DroppedRange

\* HubTypeOK after a step, in the terms of this module.
LEMMA HubTypesBecome ==
    ASSUME chain' \in Seq(Kind), Len(chain') <= MaxEntries, conn' \in ConnsTo(Len(chain')),
           hub' \in Buffers(Len(chain')), Len(hub'.buffer) <= BufferCapacity,
           stream' \in Seq(FramesTo(Len(chain'))), socket' \in [read : Nat, held : Nat],
           socket'.read + socket'.held <= Len(stream'), page' \in PagesTo(Len(chain')),
           Len(page'.shown) <= PageCapacity
    PROVE  HubTypeOK'
<1>1. Frame' = FramesTo(Len(chain'))
  BY DEF Frame, FramesTo, Id, DroppedRange, LastId
<1> QED
  BY <1>1 DEF HubTypeOK, ConnsTo, Buffers, PagesTo, Id, DroppedRange, LastId

LEMMA KnownBecomes ==
    ASSUME DOMAIN stream' = 1..Len(stream'),
           Attached' => \A i \in Owed' : On(stream', i) \/ Kept(hub', i)
    PROVE  NoSilentGap'
<1>1. ASSUME NEW i, On(stream', i) PROVE (EventFrame(i) \in FramesOf("event"))' \/ Announced(i)'
  BY <1>1 DEF On, FramesOf, Announced, EventFrame
<1>2. \A i : Kept(hub', i) => Waiting(i)'
  BY DEF Kept, Waiting
<1> QED
  BY <1>1, <1>2 DEF NoSilentGap, EventFrame

\* A step that sends and keeps on the connection what l says.
LEMMA PutKeeps ==
    ASSUME HubInv, LastId <= Len(chain'), chain' \in Seq(Kind), Len(chain') <= MaxEntries,
           page' = page, conn' \in ConnsTo(Len(chain')),
           NEW l, Sound(l, Len(chain')), Put(l), l.held <= Watermark + Allowance(conn'.phase),
           Attached' => \A i \in Owed' : Covers(l, i) \/ On(stream, i)
    PROVE  HubInv'
<1> DEFINE h == Len(chain')
<1>0. HubTypeOK /\ LastId \in Nat /\ h \in Nat
  BY HubTypesAre DEF HubInv
<1>1. /\ hub' = l.hub /\ hub' \in Buffers(h) /\ Len(hub'.buffer) <= BufferCapacity
      /\ stream' \in Seq(FramesTo(h)) /\ Len(stream) <= Len(stream')
      /\ \A k \in 1..Len(stream) : stream'[k] = stream[k]
      /\ socket' \in [read : Nat, held : Nat] /\ socket'.held = l.held
      /\ socket'.read = socket.read /\ socket'.read + socket'.held <= Len(stream')
      /\ \A i : Covers(l, i) \/ On(stream, i) => On(stream', i) \/ Kept(hub', i)
  BY <1>0, PutIs
<1>2. page' \in PagesTo(h)
  <2>1. page \in PagesTo(LastId)
    BY <1>0 DEF HubTypeOK, PagesTo, Id, DroppedRange
  <2>2. 0..LastId \subseteq 0..h /\ 1..LastId \subseteq 1..h
    BY <1>0
  <2>3. [since : 0..LastId, latest : 1..LastId] \subseteq [since : 0..h, latest : 1..h]
    BY <2>2
  <2> HIDE DEF h
  <2>5. page.shown \in Seq(0..h)
    <3>1. page.shown \in Seq(0..LastId)
      BY <2>1 DEF PagesTo
    <3> QED
      BY <2>2, <3>1, SeqMonotonic
  <2>4. page \in PagesTo(h)
    BY <2>1, <2>2, <2>3, <2>5 DEF PagesTo
  <2> QED
    BY <2>4
<1>3. HubTypeOK'
  BY <1>1, <1>2, HubTypesBecome DEF HubInv, Orderly
<1>4. NoSilentGap'
  <2>1. DOMAIN stream' = 1..Len(stream')
    BY <1>1, LenProperties
  <2> QED
    BY <1>1, <2>1, KnownBecomes
<1>5. HeldSmall'
  BY <1>1 DEF HeldSmall, Allowance
<1>6. ReadIsShown'
  <2>1. \A k \in 1..socket.read : k \in 1..Len(stream)
    BY <1>0, HubTypesAre
  <2> QED
    BY <1>1, <2>1 DEF HubInv, ReadIsShown, Has
<1>7. Orderly(page)'
  BY DEF HubInv, Orderly
<1> QED
  BY <1>3, <1>4, <1>5, <1>6, <1>7 DEF HubInv

\* A handler that sends and buffers nothing.
LEMMA PutNothing ==
    ASSUME HubTypeOK, UNCHANGED <<hub, stream, socket>>
    PROVE  Put(Link)
<1>1. stream \o << >> = stream
  BY HubTypesAre, ConcatEmptySeq
<1>2. [socket EXCEPT !.held = socket.held] = socket
  BY DEF HubTypeOK
<1> QED
  BY <1>1, <1>2 DEF Put, Link

LEMMA AppendKeeps ==
    ASSUME HubInv, NEW kind \in Kind \ {"lost"}, AppendEntry(kind)
    PROVE  HubInv'
<1> DEFINE h == LastId + 1
<1>0. /\ HubTypeOK /\ LastId \in Nat /\ chain \in Seq(Kind) /\ LastId = Len(chain)
      /\ Sound(Link, LastId) /\ Modest(Link) /\ socket.held \in Nat /\ stream \in Seq(FramesTo(LastId))
      /\ \A i : Covers(Link, i) <=> Kept(hub, i)
      /\ DOMAIN stream = 1..Len(stream)
  <2>1. DOMAIN stream = 1..Len(stream)
    BY HubTypesAre, LenProperties DEF HubInv
  <2> QED
    BY <2>1, HubTypesAre DEF HubInv, LastId
<1>1. /\ chain' = Append(chain, kind) /\ h <= MaxEntries /\ UNCHANGED <<conn, page>>
  BY <1>0, HubAssumption DEF AppendEntry
<1>2. /\ chain' \in Seq(Kind) /\ Len(chain') = h /\ h \in Nat
      /\ chain'[h] = kind /\ \A i \in 1..LastId : chain'[i] = chain[i]
  BY <1>0, <1>1
<1>3. conn' \in ConnsTo(h)
  <2>1. conn \in ConnsTo(LastId)
    BY <1>0 DEF HubTypeOK, ConnsTo
  <2>2. 0..LastId \subseteq 0..h
    BY <1>0
  <2> QED
    BY <1>1, <2>1, <2>2 DEF ConnsTo
<1>4. Sound(Link, h)
  <2>1. FramesTo(LastId) \subseteq FramesTo(h) /\ Buffers(LastId) \subseteq Buffers(h)
    BY <1>0, TypesGrow
  <2>2. Link \in Links(LastId) /\ Link.out \in Seq(FramesTo(LastId))
    BY <1>0 DEF Sound, Links
  <2>3. Link.out \in Seq(FramesTo(h))
    BY <2>1, <2>2, SeqMonotonic
  <2>4. Link \in Links(h)
    BY <2>1, <2>2, <2>3 DEF Links
  <2> QED
    BY <1>0, <2>4 DEF Sound
<1>5. Link.held = socket.held /\ socket.held <= Watermark + Allowance(conn'.phase)
  BY <1>1 DEF Link, HubInv, HeldSmall, Allowance
<1>6. Attached => \A i \in Owed : Covers(Link, i) \/ On(stream, i)
  BY <1>0, KnownIs DEF HubInv, Known
<1>7. /\ Attached' = Attached
      /\ \A i \in Owed' : i \in Owed \/ (i = h /\ kind = "public")
  <2>1. Id' = 1..h /\ Id = 1..LastId
    BY <1>2 DEF Id, LastId
  <2>2. {i \in Id' : chain'[i] = "lost"} = {i \in Id : chain[i] = "lost"}
    BY <1>0, <1>2, <2>1
  <2>3. Missing' = Missing
    BY <2>2 DEF Missing
  <2>4. \A i \in Allowlisted' : i \in Allowlisted \/ (i = h /\ kind = "public")
    BY <1>0, <1>2, <2>1 DEF Allowlisted
  <2> QED
    BY <1>1, <2>3, <2>4 DEF Attached, Owed
<1>8. CASE kind = "public" /\ Attached
  <2> DEFINE l == Enqueued(Link, h)
  <2>1. Put(l)
    BY <1>8 DEF AppendEntry
  <2>2. /\ Sound(l, h) /\ Modest(l) /\ Covers(l, h)
        /\ \A i \in Nat : Covers(Link, i) => Covers(l, i)
    BY <1>0, <1>2, <1>4, EnqueuedIs
  <2>3. l.held <= Watermark + Allowance(conn'.phase)
    <3>1. l.held \in Nat /\ Allowance(conn'.phase) \in Nat
      BY <2>2 DEF Sound, Links, Allowance
    <3> QED
      BY <1>0, <1>5, <2>2, <3>1, HubAssumption DEF Modest
  <2>4. Attached' => \A i \in Owed' : Covers(l, i) \/ On(stream, i)
    <3>1. \A i \in Owed : i \in Nat
      BY <1>0 DEF Owed, Allowlisted, Id
    <3> QED
      BY <1>6, <1>7, <2>2, <3>1
  <2> HIDE DEF l
  <2> QED
    BY <1>0, <1>1, <1>2, <1>3, <2>1, <2>2, <2>3, <2>4, PutKeeps
<1>9. CASE ~(kind = "public" /\ Attached)
  <2>1. Put(Link)
    <3>1. UNCHANGED <<hub, stream, socket>>
      BY <1>9 DEF AppendEntry
    <3> QED
      BY <1>0, <3>1, PutNothing
  <2>2. Attached' => \A i \in Owed' : Covers(Link, i) \/ On(stream, i)
    BY <1>6, <1>7, <1>9
  <2> QED
    BY <1>0, <1>1, <1>2, <1>3, <1>4, <1>5, <2>1, <2>2, PutKeeps
<1> QED
  BY <1>8, <1>9

\* A step of the hub with the chain and the page as they are.
LEMMA LinkKeeps ==
    ASSUME HubInv, UNCHANGED <<chain, page>>, conn' \in ConnsTo(LastId),
           NEW l, Sound(l, LastId), Put(l), l.held <= Watermark + Allowance(conn'.phase),
           Attached' => \A i \in Owed' : Covers(l, i) \/ On(stream, i)
    PROVE  HubInv'
<1>1. LastId \in Nat /\ chain \in Seq(Kind) /\ LastId <= MaxEntries /\ LastId = Len(chain)
  BY HubTypesAre DEF HubInv, HubTypeOK, LastId
<1>2. chain' = chain /\ Len(chain') = LastId
  BY <1>1
<1> QED
  BY <1>1, <1>2, PutKeeps

FramesFor(s, n) == [k \in 1..n |-> EventFrame(s[k])]
AfterFirst(s, n) == SubSeq(s, n + 1, Len(s))

\* The first n entries of a buffer, as frames, and the rest of it.
LEMMA SplitIs ==
    ASSUME NEW h \in Nat, NEW s \in Seq(1..h), NEW n \in 0..Len(s)
    PROVE  LET batch == FramesFor(s, n)
               rest == AfterFirst(s, n)
           IN  /\ batch \in Seq(FramesTo(h)) /\ Len(batch) = n
               /\ \A k \in 1..n : batch[k] = EventFrame(s[k])
               /\ rest \in Seq(1..h) /\ Len(rest) = Len(s) - n
               /\ \A k \in (n + 1)..Len(s) : k - n \in 1..Len(rest) /\ rest[k - n] = s[k]
<1> DEFINE batch == FramesFor(s, n)
           rest == AfterFirst(s, n)
<1>1. Len(s) \in Nat /\ n \in Nat /\ n <= Len(s)
  OBVIOUS
<1>2. \A k \in 1..Len(s) : s[k] \in 1..h
  BY ElementOfSeq
<1>3. \A k \in 1..n : EventFrame(s[k]) \in FramesTo(h)
  BY <1>1, <1>2, FramesAre
<1>4. batch \in [1..n -> FramesTo(h)] /\ DOMAIN batch = 1..n
  BY <1>3 DEF FramesFor
<1>5. \A k \in 1..n : batch[k] = EventFrame(s[k])
  BY DEF FramesFor
<1> HIDE DEF batch
<1>6. batch \in Seq(FramesTo(h))
  BY <1>1, <1>4, SeqDef
<1>7. Len(batch) = n
  BY <1>1, <1>4, <1>6, LenProperties
<1>8. \A k \in (n + 1)..Len(s) : s[k] \in 1..h
  BY <1>1, <1>2
<1>9. /\ rest \in Seq(1..h)
      /\ Len(rest) = IF n + 1 <= Len(s) THEN Len(s) - (n + 1) + 1 ELSE 0
      /\ \A j \in 1..(Len(s) - (n + 1) + 1) : rest[j] = s[n + 1 + j - 1]
  BY <1>1, <1>8, SubSeqProperties DEF AfterFirst
<1> HIDE DEF rest
<1>10. Len(rest) = Len(s) - n
  BY <1>1, <1>9
<1>11. ASSUME NEW k \in (n + 1)..Len(s) PROVE k - n \in 1..Len(rest) /\ rest[k - n] = s[k]
  <2>1. k - n \in 1..(Len(s) - (n + 1) + 1) /\ n + 1 + (k - n) - 1 = k
    BY <1>1
  <2> QED
    BY <1>1, <1>9, <1>10, <2>1
<1> QED
  BY <1>5, <1>6, <1>7, <1>9, <1>10, <1>11 DEF batch, rest

\* What the hub knew of it has sent, announced or kept after a drain, and the
\* drain respects the watermark.
LEMMA DrainKeeps ==
    ASSUME HubInv, TryDrain
    PROVE  HubInv'
<1> DEFINE idle == [hub EXCEPT !.draining = FALSE]
           marked == IF hub.dropped = NoRange THEN Link
                     ELSE Sent(Link, Dropped(hub.dropped.min, hub.dropped.max))
           room == Watermark - marked.held
           n == IF room < 0 THEN 0 ELSE IF room < Len(hub.buffer) THEN room ELSE Len(hub.buffer)
           batch == FramesFor(hub.buffer, n)
           rest == AfterFirst(hub.buffer, n)
           l == [hub |-> [NewHub EXCEPT !.buffer = rest], held |-> marked.held + n,
                 out |-> marked.out \o batch]
<1>0. /\ HubTypeOK /\ LastId \in Nat /\ hub \in Buffers(LastId) /\ Len(hub.buffer) <= BufferCapacity
      /\ socket.held \in Nat /\ socket.read \in Nat
      /\ Link \in Links(LastId) /\ Sound(Link, LastId)
      /\ Link.hub = hub /\ Link.held = socket.held
      /\ UNCHANGED <<chain, conn, page>>
  BY HubTypesAre DEF HubInv, TryDrain, Link
<1>1. /\ hub.buffer \in Seq(1..LastId) /\ Len(hub.buffer) \in Nat
      /\ DOMAIN hub.buffer = 1..Len(hub.buffer)
      /\ hub.dropped \in {NoRange} \cup [min : 1..LastId, max : 1..LastId]
  <2>1. /\ hub.buffer \in Seq(1..LastId)
        /\ hub.dropped \in {NoRange} \cup [min : 1..LastId, max : 1..LastId]
    BY <1>0 DEF Buffers
  <2> QED
    BY <2>1, LenProperties
<1>2. conn' \in ConnsTo(LastId) /\ Attached' = Attached /\ Owed' = Owed
  BY <1>0, ChainStays DEF HubTypeOK, ConnsTo, Attached, Owed
<1>3. /\ DOMAIN stream = 1..Len(stream)
      /\ Attached => \A i \in Owed : On(stream, i) \/ Kept(hub, i)
  <2>1. DOMAIN stream = 1..Len(stream)
    BY <1>0, HubTypesAre, LenProperties
  <2> QED
    BY <2>1, KnownIs DEF HubInv, Known
<1>4. CASE socket.held >= Watermark
  <2>1. hub' = idle /\ UNCHANGED <<stream, socket>>
    BY <1>4 DEF TryDrain
  <2> DEFINE k == [Link EXCEPT !.hub = idle]
  <2>2. idle \in Buffers(LastId) /\ idle.buffer = hub.buffer /\ idle.dropped = hub.dropped
    BY <1>0 DEF Buffers
  <2> HIDE DEF idle
  <2>3. k \in Links(LastId) /\ k.hub = idle /\ k.held = Link.held /\ k.out = Link.out
    BY <1>0, <2>2 DEF Links
  <2>4. Sound(k, LastId)
    BY <1>0, <2>2, <2>3 DEF Sound
  <2>5. Put(k)
    <3>1. stream \o << >> = stream
      BY <1>0, HubTypesAre, ConcatEmptySeq
    <3>2. [socket EXCEPT !.held = socket.held] = socket
      BY <1>0 DEF HubTypeOK
    <3>3. Link.out = << >>
      BY DEF Link
    <3> QED
      BY <1>0, <2>1, <2>3, <3>1, <3>2, <3>3 DEF Put
  <2>6. \A i : Kept(hub, i) => Covers(k, i)
    BY <2>2, <2>3 DEF Kept, Covers
  <2>7. k.held <= Watermark + Allowance(conn'.phase)
    BY <1>0, <2>3 DEF HubInv, HeldSmall, Allowance
  <2> HIDE DEF k
  <2> QED
    BY <1>0, <1>2, <1>3, <2>4, <2>5, <2>6, <2>7, LinkKeeps
<1>5. CASE ~(socket.held >= Watermark)
  <2>1. Put(l)
    BY <1>5 DEF TryDrain, FramesFor, AfterFirst
  <2>2. /\ Sound(marked, LastId) /\ marked.hub = hub /\ marked.held \in Nat /\ marked.held <= Watermark
        /\ \A i : hub.dropped # NoRange /\ hub.dropped.min <= i /\ i <= hub.dropped.max
                    => On(marked.out, i)
    <3>1. CASE hub.dropped = NoRange
      BY <1>0, <1>5, <3>1, HubAssumption
    <3>2. CASE hub.dropped # NoRange
      <4> DEFINE f == Dropped(hub.dropped.min, hub.dropped.max)
      <4>1. f \in FramesTo(LastId)
        BY <1>0, <1>1, <3>2, FramesAre
      <4>2. f.type = "dropped" /\ f.since = hub.dropped.min /\ f.latest = hub.dropped.max
        BY DEF Dropped
      <4>3. marked = Sent(Link, f)
        BY <3>2
      <4> HIDE DEF f, marked
      <4> DEFINE last == Len(Link.out) + 1
      <4>4. /\ Sound(Sent(Link, f), LastId) /\ Sent(Link, f).hub = Link.hub
            /\ Sent(Link, f).held = Link.held + 1
            /\ last \in 1..Len(Sent(Link, f).out) /\ Sent(Link, f).out[last] = f
        <5> DEFINE k == Link
        <5>1. LastId \in Nat /\ Sound(k, LastId) /\ socket.held \in Nat
          BY <1>0
        <5> HIDE DEF k
        <5>2. /\ Sound(Sent(k, f), LastId) /\ Sent(k, f).hub = k.hub
              /\ Sent(k, f).held = k.held + 1
          BY <4>1, <5>1, SentIs
        <5>3. Len(k.out) + 1 \in 1..Len(Sent(k, f).out) /\ Sent(k, f).out[Len(k.out) + 1] = f
          BY <4>1, <5>1, SentIs
        <5> QED
          BY <5>2, <5>3 DEF k
      <4>6. /\ Sound(marked, LastId) /\ marked.hub = hub /\ marked.held = socket.held + 1
            /\ \E k \in 1..Len(marked.out) : marked.out[k] = f
        BY <1>0, <4>3, <4>4
      <4>5. \A i : hub.dropped.min <= i /\ i <= hub.dropped.max => On(marked.out, i)
        BY <4>2, <4>6 DEF On
      <4> QED
        BY <1>0, <1>5, <4>5, <4>6, HubAssumption
    <3> QED
      BY <3>1, <3>2
  <2> HIDE DEF marked
  <2>3. n \in 0..Len(hub.buffer) /\ n \in Nat /\ marked.held + n <= Watermark
    BY <1>1, <2>2, HubAssumption
  <2> HIDE DEF n
  <2>4. /\ batch \in Seq(FramesTo(LastId)) /\ Len(batch) = n
        /\ \A k \in 1..n : batch[k] = EventFrame(hub.buffer[k])
    <3>1. hub.buffer \in Seq(1..LastId) /\ LastId \in Nat /\ n \in 0..Len(hub.buffer)
      BY <1>0, <1>1, <2>3
    <3> QED
      BY <3>1, SplitIs
  <2>5. /\ rest \in Seq(1..LastId) /\ Len(rest) <= BufferCapacity
        /\ \A k \in (n + 1)..Len(hub.buffer) :
              k - n \in 1..Len(rest) /\ rest[k - n] = hub.buffer[k]
    <3>1. /\ rest \in Seq(1..LastId) /\ Len(rest) = Len(hub.buffer) - n
          /\ \A k \in (n + 1)..Len(hub.buffer) :
                k - n \in 1..Len(rest) /\ rest[k - n] = hub.buffer[k]
      <4>1. hub.buffer \in Seq(1..LastId) /\ LastId \in Nat /\ n \in 0..Len(hub.buffer)
        BY <1>0, <1>1, <2>3
      <4> QED
        BY <4>1, SplitIs
    <3> HIDE DEF rest
    <3> QED
      BY <1>0, <1>1, <2>3, <3>1, HubAssumption
  <2> HIDE DEF batch, rest
  <2> DEFINE sent == marked.out
  <2>6. /\ marked.out \in Seq(FramesTo(LastId)) /\ Len(marked.out) \in Nat
        /\ marked.held = socket.held + Len(marked.out)
    BY <2>2 DEF Sound, Links
  <2>7. /\ marked.out \o batch \in Seq(FramesTo(LastId))
        /\ Len(marked.out \o batch) = Len(marked.out) + n
        /\ \A k \in 1..Len(marked.out) + n :
              (marked.out \o batch)[k] =
                IF k <= Len(marked.out) THEN marked.out[k] ELSE batch[k - Len(marked.out)]
    <3> DEFINE F == FramesTo(LastId)
    <3>1. sent \in Seq(F) /\ batch \in Seq(F) /\ Len(batch) = n
      BY <2>4, <2>6
    <3> HIDE DEF F, sent
    <3>2. /\ sent \o batch \in Seq(F)
          /\ Len(sent \o batch) = Len(sent) + Len(batch)
          /\ \A k \in 1..Len(sent) + Len(batch) :
                (sent \o batch)[k] = IF k <= Len(sent) THEN sent[k] ELSE batch[k - Len(sent)]
      BY <3>1, ConcatProperties
    <3> QED
      BY <3>1, <3>2 DEF F, sent
  <2>8. /\ [NewHub EXCEPT !.buffer = rest] \in Buffers(LastId)
        /\ [NewHub EXCEPT !.buffer = rest].buffer = rest
    BY <2>5 DEF NewHub, Buffers
  <2> DEFINE b == [NewHub EXCEPT !.buffer = rest]
             o == marked.out \o batch
             s == marked.held + n
  <2>9. l = [hub |-> b, held |-> s, out |-> o] /\ s \in Nat
    BY <2>2, <2>3
  <2>10. b \in Buffers(LastId) /\ b.buffer = rest /\ o \in Seq(FramesTo(LastId))
    BY <2>7, <2>8
  <2>11. Len(o) = Len(marked.out) + n
         /\ \A k \in 1..Len(marked.out) : k \in 1..Len(o) /\ o[k] = marked.out[k]
    BY <2>3, <2>6, <2>7
  <2>12. \A k \in 1..n : Len(marked.out) + k \in 1..Len(o)
                          /\ o[Len(marked.out) + k] = EventFrame(hub.buffer[k])
    BY <2>3, <2>4, <2>6, <2>7
  <2>13. s = socket.held + Len(o) /\ s <= Watermark
    BY <1>0, <2>3, <2>6, <2>11
  <2> HIDE DEF b, o, s, l
  <2>14. l \in Links(LastId) /\ l.hub = b /\ l.held = s /\ l.out = o
    BY <2>9, <2>10 DEF Links
  <2>15. Sound(l, LastId)
    BY <2>5, <2>10, <2>13, <2>14 DEF Sound
  <2>16. ASSUME NEW i, Kept(hub, i) PROVE Covers(l, i)
    <3>1. CASE \E k \in DOMAIN hub.buffer : hub.buffer[k] = i
      <4>1. PICK k \in 1..Len(hub.buffer) : hub.buffer[k] = i
        BY <1>1, <3>1
      <4>2. CASE k <= n
        <5>1. k \in 1..n
          BY <4>2
        <5>2. On(o, i)
          BY <2>12, <4>1, <5>1 DEF On
        <5> QED
          BY <2>14, <5>2 DEF Covers
      <4>3. CASE ~(k <= n)
        <5>1. k \in (n + 1)..Len(hub.buffer)
          BY <1>1, <2>3, <4>3
        <5>2. k - n \in DOMAIN rest /\ rest[k - n] = i
          BY <2>5, <4>1, <5>1, LenProperties
        <5>3. Kept(b, i)
          BY <2>10, <5>2 DEF Kept
        <5> QED
          BY <2>14, <5>3 DEF Covers
      <4> QED
        BY <4>2, <4>3
    <3>2. CASE hub.dropped # NoRange /\ hub.dropped.min <= i /\ i <= hub.dropped.max
      <4>1. On(marked.out, i)
        BY <2>2, <3>2
      <4>2. On(o, i)
        BY <2>11, <4>1 DEF On
      <4> QED
        BY <2>14, <4>2 DEF Covers
    <3> QED
      BY <2>16, <3>1, <3>2 DEF Kept
  <2>17. l.held <= Watermark + Allowance(conn'.phase)
    BY <2>9, <2>13, <2>14, HubAssumption DEF Allowance
  <2> QED
    BY <1>0, <1>2, <1>3, <2>1, <2>15, <2>16, <2>17, LinkKeeps
<1> QED
  BY <1>4, <1>5

\* The replay, or the announcement of a gap too wide for it, covers everything
\* the connection is owed from then on.
LEMMA SubscribeKeeps ==
    ASSUME HubInv, Subscribe
    PROVE  HubInv'
<1>0. /\ HubTypeOK /\ LastId \in Nat /\ DOMAIN stream = 1..Len(stream)
      /\ Sound(Link, LastId) /\ Modest(Link) /\ Link.held = socket.held
      /\ socket.held \in Nat /\ socket.held <= Watermark
      /\ \A i : Covers(Link, i) <=> Kept(hub, i)
      /\ conn.since \in 0..LastId /\ conn \in ConnsTo(LastId)
      /\ UNCHANGED <<chain, page>>
  <2>1. DOMAIN stream = 1..Len(stream)
    BY HubTypesAre, LenProperties DEF HubInv
  <2>2. conn.phase = "open" /\ UNCHANGED <<chain, page>>
    BY DEF Subscribe
  <2>3. socket.held \in Nat /\ HubTypeOK
    BY HubTypesAre DEF HubInv
  <2>4. socket.held <= Watermark
    BY <2>2, <2>3, HubAssumption DEF HubInv, HeldSmall
  <2>5. conn.since \in 0..LastId /\ conn \in ConnsTo(LastId)
    BY <2>3 DEF HubTypeOK, ConnsTo
  <2> QED
    BY <2>1, <2>2, <2>3, <2>4, <2>5, HubTypesAre DEF Link
<1>1. conn' = [conn EXCEPT !.phase = "subscribed"] /\ conn.phase = "open"
  BY DEF Subscribe
<1>2. /\ conn' \in ConnsTo(LastId) /\ conn'.phase = "subscribed" /\ conn'.since = conn.since
      /\ conn'.joined = conn.joined
  BY <1>0, <1>1 DEF ConnsTo
<1>3. /\ Attached /\ Length \in Int /\ Length <= LastId
      /\ \A i \in Owed' : /\ i \in 1..LastId /\ chain[i] = "public"
                          /\ i \in Owed \/ (i > conn.since /\ i <= Length)
  <2>1. Missing \in Nat /\ conn.joined \in 0..LastId
    BY <1>0, MissingIs DEF ConnsTo
  <2>2. Length \in Int /\ conn.joined - Missing <= Length /\ Length <= LastId
    BY <1>0, <2>1 DEF Length
  <2>3. Missing' = Missing /\ Allowlisted' = Allowlisted
    BY <1>0, ChainStays
  <2>4. ASSUME NEW i \in Owed'
        PROVE  i \in Allowlisted /\ (i \in Owed \/ (i > conn.since /\ i <= conn.joined - Missing))
    BY <1>2, <2>3 DEF Owed
  <2>5. \A i \in Allowlisted : i \in 1..LastId /\ chain[i] = "public"
    BY DEF Allowlisted, Id
  <2>6. \A i \in 1..LastId : i <= conn.joined - Missing => i <= Length
    BY <2>1, <2>2
  <2> QED
    BY <1>1, <2>2, <2>4, <2>5, <2>6 DEF Attached
<1>4. \A i \in Owed : On(stream, i) \/ Covers(Link, i)
  BY <1>0, <1>3, KnownIs DEF HubInv, Known
<1>7. CASE Length - conn.since <= 0 /\ UNCHANGED <<hub, stream, socket>>
  <2>1. Put(Link)
    BY <1>0, <1>7, PutNothing
  <2>2. \A i \in Owed' : i \in Owed
    BY <1>0, <1>3, <1>7
  <2>3. Link.held <= Watermark + Allowance(conn'.phase)
    BY <1>0, <1>2, HubAssumption DEF Allowance
  <2> DEFINE l == Link
  <2>4. Sound(l, LastId) /\ Put(l) /\ l.held <= Watermark + Allowance(conn'.phase)
    BY <1>0, <2>1, <2>3
  <2>5. \A i \in Owed' : Covers(l, i) \/ On(stream, i)
    BY <1>4, <2>2
  <2> HIDE DEF l
  <2> QED
    BY <1>0, <1>2, <2>4, <2>5, LinkKeeps
<1>5. CASE Length - conn.since > Window /\ Put(Sent(Link, Dropped(conn.since, Length)))
  <2> DEFINE f == Dropped(conn.since, Length)
             l == Sent(Link, f)
  <2>1. Put(l)
    BY <1>5
  <2>2. f \in FramesTo(LastId) /\ f.type = "dropped" /\ f.since = conn.since /\ f.latest = Length
    <3>1. Length \in 1..LastId
      BY <1>0, <1>3, <1>5, HubAssumption
    <3> QED
      BY <1>0, <3>1, FramesAre DEF Dropped
  <2> HIDE DEF f
  <2>3. /\ Sound(l, LastId) /\ l.held = Link.held + 1
        /\ \A i : Covers(Link, i) => Covers(l, i)
        /\ Len(Link.out) + 1 \in 1..Len(l.out) /\ l.out[Len(Link.out) + 1] = f
    BY <1>0, <2>2, SentIs
  <2> HIDE DEF l
  <2>4. \A i \in 1..LastId : i > conn.since /\ i <= Length => Covers(l, i)
    <3>1. \A i : f.since <= i /\ i <= f.latest => On(l.out, i)
      BY <2>2, <2>3 DEF On
    <3> QED
      BY <1>0, <2>2, <3>1 DEF Covers
  <2>5. l.held <= Watermark + Allowance(conn'.phase)
    BY <1>0, <1>2, <2>3, HubAssumption DEF Allowance
  <2>6. \A i \in Owed' : Covers(l, i) \/ On(stream, i)
    BY <1>3, <1>4, <2>3, <2>4
  <2> QED
    BY <1>0, <1>2, <2>1, <2>3, <2>5, <2>6, LinkKeeps
<1>6. CASE Put(Replayed(conn.since))
  <2> DEFINE l == Replayed(conn.since)
  <2>1. Put(l)
    BY <1>6
  <2>2. /\ Sound(l, LastId) /\ Modest(l)
        /\ \A i \in 1..LastId : i > conn.since /\ chain[i] = "public" => Covers(l, i)
        /\ \A i \in Nat : Covers(Link, i) => Covers(l, i)
    BY <1>0, ReplayedIs
  <2> HIDE DEF l
  <2>3. l.held <= Watermark + Allowance(conn'.phase)
    <3>1. l.held \in Nat
      BY <2>2 DEF Sound, Links
    <3> QED
      BY <1>0, <1>2, <2>2, <3>1, HubAssumption DEF Allowance, Modest
  <2>4. \A i \in Owed' : Covers(l, i) \/ On(stream, i)
    BY <1>0, <1>3, <1>4, <2>2
  <2> QED
    BY <1>0, <1>2, <2>1, <2>2, <2>3, <2>4, LinkKeeps
<1> QED
  BY <1>5, <1>6, <1>7 DEF Subscribe

\* A connection that is closing owes nothing any more.
LEMMA CloseKeeps ==
    ASSUME HubInv, Close
    PROVE  HubInv'
<1> DEFINE empty == [Link EXCEPT !.hub = NewHub]
           l == Sent(empty, Bye)
<1>0. /\ HubTypeOK /\ LastId \in Nat /\ Link \in Links(LastId) /\ Sound(Link, LastId)
      /\ Link.held = socket.held /\ socket.held \in Nat
      /\ socket.held <= Watermark + 1 /\ conn \in ConnsTo(LastId)
  <2>1. conn.phase \in {"open", "subscribed"}
    BY DEF Close, Attached
  <2>2. socket.held \in Nat
    BY HubTypesAre DEF HubInv
  <2>3. socket.held <= Watermark + 1
    BY <2>1, <2>2, HubAssumption DEF HubInv, HeldSmall
  <2>4. conn \in ConnsTo(LastId)
    BY DEF HubInv, HubTypeOK, ConnsTo
  <2> QED
    BY <2>2, <2>3, <2>4, HubTypesAre DEF HubInv, Link
<1>1. /\ conn' = [conn EXCEPT !.phase = "closing"] /\ Put(l) /\ UNCHANGED <<chain, page>>
  BY DEF Close
<1>2. conn' \in ConnsTo(LastId) /\ conn'.phase = "closing" /\ ~Attached'
  BY <1>0, <1>1 DEF ConnsTo, Attached
<1>3. NewHub \in Buffers(LastId) /\ Len(NewHub.buffer) = 0
  <2>1. << >> \in Seq(1..LastId) /\ Len(<< >>) = 0
    BY EmptySeq
  <2> QED
    BY <2>1 DEF NewHub, Buffers
<1>4. empty \in Links(LastId) /\ empty.hub = NewHub /\ empty.held = Link.held /\ empty.out = Link.out
  BY <1>0, <1>3 DEF Links
<1>5. Sound(empty, LastId)
  BY <1>0, <1>3, <1>4, HubAssumption DEF Sound
<1> HIDE DEF empty
<1>6. Sound(l, LastId) /\ l.held = empty.held + 1
  BY <1>0, <1>5, FramesAre, SentIs
<1> HIDE DEF l
<1>7. l.held <= Watermark + Allowance(conn'.phase)
  BY <1>0, <1>2, <1>4, <1>6, HubAssumption DEF Allowance
<1> QED
  BY <1>0, <1>1, <1>2, <1>6, <1>7, LinkKeeps

\* A connection begins with a new hub side and ends with nothing.
LEMMA ConnectKeeps ==
    ASSUME HubInv, Connect \/ Disconnect
    PROVE  HubInv'
<1>0. /\ HubTypeOK /\ LastId \in Nat /\ LastId = Len(chain) /\ chain \in Seq(Kind)
      /\ LastId <= MaxEntries /\ page \in PagesTo(LastId) /\ conn \in ConnsTo(LastId)
      /\ Orderly(page)
  BY HubTypesAre, PageTypes DEF HubInv, HubTypeOK, LastId, ConnsTo
<1>1. chain' = chain /\ page' = page /\ hub' = NewHub /\ socket'.read = 0
  BY DEF Connect, Disconnect
<1>2. << >> \in Seq(1..LastId) /\ Len(<< >>) = 0
  BY EmptySeq
<1>3. NewHub \in Buffers(LastId) /\ Len(NewHub.buffer) <= BufferCapacity
  BY <1>2, HubAssumption DEF NewHub, Buffers
<1>4. /\ conn' \in ConnsTo(LastId) /\ stream' \in Seq(FramesTo(LastId))
      /\ socket' \in [read : Nat, held : Nat] /\ socket'.read + socket'.held <= Len(stream')
      /\ socket'.held <= 1
  <2>1. CASE Connect
    <3>1. page.lastSeen \in 0..LastId /\ conn.made + 1 \in 0..MaxConnects
      BY <1>0, <2>1, HubAssumption DEF PagesTo, ConnsTo, Connect
    <3>2. conn' \in ConnsTo(LastId)
      BY <1>0, <2>1, <3>1 DEF Connect, ConnsTo
    <3>3. <<Hello>> \in Seq(FramesTo(LastId)) /\ Len(<<Hello>>) = 1
      BY <1>0, FramesAre
    <3> QED
      BY <2>1, <3>2, <3>3 DEF Connect
  <2>2. CASE Disconnect
    <3>1. conn' \in ConnsTo(LastId)
      BY <1>0, <2>2 DEF Disconnect, ConnsTo
    <3>2. << >> \in Seq(FramesTo(LastId)) /\ Len(<< >>) = 0
      BY EmptySeq
    <3> QED
      BY <2>2, <3>1, <3>2 DEF Disconnect
  <2> QED
    BY <2>1, <2>2
<1>5. HubTypeOK'
  BY <1>0, <1>1, <1>3, <1>4, HubTypesBecome DEF Orderly
<1>6. Attached' => Owed' = {}
  <2>1. CASE Connect
    <3>1. Allowlisted' = Allowlisted /\ \A i \in Allowlisted : i \in 1..LastId
      BY <1>1, ChainStays DEF Allowlisted, Id
    <3>2. conn'.phase = "open" /\ conn'.joined = LastId
      BY <2>1 DEF Connect
    <3>3. \A i \in 1..LastId : ~(i > LastId)
      BY <1>0
    <3> QED
      BY <3>1, <3>2, <3>3 DEF Owed
  <2>2. CASE Disconnect
    <3>1. conn'.phase = "down"
      BY <1>0, <2>2 DEF Disconnect, ConnsTo
    <3> QED
      BY <3>1 DEF Attached
  <2> QED
    BY <2>1, <2>2
<1>7. NoSilentGap'
  BY <1>6 DEF NoSilentGap
<1>8. HeldSmall'
  <2>1. socket'.held \in Nat
    BY <1>4
  <2> QED
    BY <1>4, <2>1, HubAssumption DEF HeldSmall
<1>9. ReadIsShown' /\ Orderly(page)'
  BY <1>0, <1>1 DEF ReadIsShown, Orderly
<1> QED
  BY <1>5, <1>7, <1>8, <1>9 DEF HubInv

LEMMA GapsStay ==
    ASSUME NoSilentGap, UNCHANGED <<chain, conn, hub, stream>>
    PROVE  NoSilentGap'
<1>1. Owed' = Owed
  BY ChainStays DEF Owed
<1> QED
  BY <1>1 DEF NoSilentGap, Attached, FramesOf, Announced, Waiting

LEMMA FlushKeeps ==
    ASSUME HubInv, Flush
    PROVE  HubInv'
<1>0. /\ LastId \in Nat /\ LastId = Len(chain) /\ chain \in Seq(Kind) /\ LastId <= MaxEntries
      /\ page \in PagesTo(LastId) /\ conn \in ConnsTo(LastId)
      /\ hub \in Buffers(LastId) /\ Len(hub.buffer) <= BufferCapacity
      /\ stream \in Seq(FramesTo(LastId)) /\ Len(stream) \in Nat
      /\ socket \in [read : Nat, held : Nat] /\ socket.read + socket.held <= Len(stream)
      /\ Orderly(page)
  BY HubTypesAre, PageTypes DEF HubInv, HubTypeOK, LastId, ConnsTo
<1>1. /\ UNCHANGED <<chain, conn, hub, stream, page>> /\ socket.held > 0
      /\ socket' = [socket EXCEPT !.held = socket.held - 1]
  BY DEF Flush
<1>2. /\ socket' \in [read : Nat, held : Nat] /\ socket'.read = socket.read
      /\ socket'.held = socket.held - 1
  BY <1>0, <1>1
<1>3. HubTypeOK'
  BY <1>0, <1>1, <1>2, HubTypesBecome DEF Orderly
<1>4. NoSilentGap'
  BY <1>1, GapsStay DEF HubInv
<1>5. HeldSmall'
  <2>1. socket.held \in Nat /\ Watermark \in Nat
    BY <1>0, HubAssumption
  <2> QED
    BY <1>1, <1>2, <2>1 DEF HubInv, HeldSmall
<1>6. ReadIsShown' /\ Orderly(page)'
  BY <1>0, <1>1, <1>2 DEF HubInv, ReadIsShown, Has, Orderly
<1> QED
  BY <1>3, <1>4, <1>5, <1>6 DEF HubInv

-----------------------------------------------------------------------------
(* The steps of the page. *)

\* What the store makes of a list of ids and copies: whatever it held or was
\* given it has, and it pushes out only when it is full.
LEMMA IngestedIs ==
    ASSUME NEW h \in Nat, page \in PagesTo(h), Orderly(page), NEW s \in Seq(0..h)
    PROVE  LET p == Ingested(s)
           IN  /\ p \in PagesTo(h) /\ Orderly(p)
               /\ \A i \in 1..h : Has(page, i) => Has(p, i)
               /\ \A k \in 1..Len(s) : s[k] \in 1..h => Has(p, s[k])
<1> DEFINE all == page.shown \o s
           over == Len(all) - PageCapacity
           n == IF over > 0 THEN over ELSE 0
           rest == AfterFirst(all, n)
           out == page.gone \cup ({all[k] : k \in 1..n} \ {Copy})
           p == [page EXCEPT !.shown = rest, !.gone = out]
<1>1. page.shown \in Seq(0..h) /\ Len(page.shown) \in Nat /\ Len(s) \in Nat /\ PageCapacity \in Nat
      /\ page.gone \in SUBSET (1..h)
      /\ Len(page.shown) <= PageCapacity /\ (page.gone # {} => Len(page.shown) = PageCapacity)
  <2>1. page.shown \in Seq(0..h) /\ page.gone \in SUBSET (1..h)
    BY DEF PagesTo
  <2> QED
    BY <2>1, LenProperties, HubAssumption DEF Orderly
<1>2. /\ all \in Seq(0..h) /\ Len(all) = Len(page.shown) + Len(s)
      /\ \A k \in 1..Len(page.shown) + Len(s) :
            all[k] = IF k <= Len(page.shown) THEN page.shown[k] ELSE s[k - Len(page.shown)]
  BY <1>1, ConcatProperties
<1>3. Ingested(s) = p
  BY DEF Ingested, AfterFirst
<1> DEFINE old == page.shown
<1> HIDE DEF all, old
<1>13. /\ \A k \in 1..Len(old) : k \in 1..Len(all) /\ all[k] = old[k]
       /\ \A k \in 1..Len(s) : Len(old) + k \in 1..Len(all) /\ all[Len(old) + k] = s[k]
  <2>1. /\ Len(old) \in Nat /\ Len(s) \in Nat /\ Len(all) = Len(old) + Len(s)
        /\ \A k \in 1..Len(old) + Len(s) :
              all[k] = IF k <= Len(old) THEN old[k] ELSE s[k - Len(old)]
    BY <1>1, <1>2 DEF old
  <2>2. ASSUME NEW k \in 1..Len(old) PROVE k \in 1..Len(all) /\ all[k] = old[k]
    BY <2>1
  <2>3. ASSUME NEW k \in 1..Len(s)
        PROVE  Len(old) + k \in 1..Len(all) /\ all[Len(old) + k] = s[k]
    <3>1. /\ Len(old) + k \in 1..Len(old) + Len(s) /\ ~(Len(old) + k <= Len(old))
          /\ Len(old) + k - Len(old) = k
      BY <2>1
    <3> QED
      BY <2>1, <3>1
  <2> QED
    BY <2>2, <2>3
<1>4. n \in 0..Len(all) /\ n \in Nat /\ Len(all) \in Nat
      /\ Len(all) - n <= PageCapacity
      /\ (n > 0 => Len(all) - n = PageCapacity)
      /\ (Len(page.shown) = PageCapacity => Len(all) - n = PageCapacity)
  BY <1>1, <1>2
<1> HIDE DEF n
<1>5. \A k \in 1..Len(all) : all[k] \in 0..h
  BY <1>2, ElementOfSeq
<1>6. /\ rest \in Seq(0..h) /\ Len(rest) = Len(all) - n
      /\ \A k \in (n + 1)..Len(all) : k - n \in 1..Len(rest) /\ rest[k - n] = all[k]
  <2>1. \A k \in (n + 1)..Len(all) : all[k] \in 0..h
    BY <1>4, <1>5
  <2>2. /\ rest \in Seq(0..h)
        /\ Len(rest) = IF n + 1 <= Len(all) THEN Len(all) - (n + 1) + 1 ELSE 0
        /\ \A j \in 1..(Len(all) - (n + 1) + 1) : rest[j] = all[n + 1 + j - 1]
    BY <1>2, <1>4, <2>1, SubSeqProperties DEF AfterFirst
  <2> HIDE DEF rest
  <2>3. Len(rest) = Len(all) - n
    BY <1>4, <2>2
  <2>4. ASSUME NEW k \in (n + 1)..Len(all) PROVE k - n \in 1..Len(rest) /\ rest[k - n] = all[k]
    <3>1. k - n \in 1..(Len(all) - (n + 1) + 1) /\ n + 1 + (k - n) - 1 = k
      BY <1>4
    <3> QED
      BY <1>4, <2>2, <2>3, <3>1
  <2> QED
    BY <2>2, <2>3, <2>4
<1>7. out \in SUBSET (1..h) /\ page.gone \subseteq out
      /\ (out # {} => page.gone # {} \/ n > 0)
  <2>1. \A k \in 1..n : all[k] \in 0..h
    BY <1>4, <1>5
  <2>2. \A k \in 1..n : all[k] # Copy => all[k] \in 1..h
    BY <2>1 DEF Copy
  <2>3. out # {} /\ page.gone = {} => \E k \in 1..n : TRUE
    OBVIOUS
  <2> QED
    BY <1>1, <1>4, <2>2, <2>3
<1>8. ASSUME NEW k \in 1..Len(all), all[k] \in 1..h
      PROVE  all[k] \in out \/ \E j \in 1..Len(rest) : rest[j] = all[k]
  <2>1. CASE k <= n
    <3>1. k \in 1..n /\ all[k] # Copy
      BY <1>4, <1>8, <2>1 DEF Copy
    <3> QED
      BY <3>1
  <2>2. CASE ~(k <= n)
    <3>1. k \in (n + 1)..Len(all)
      BY <1>4, <2>2
    <3> QED
      BY <1>6, <3>1
  <2> QED
    BY <2>1, <2>2
<1> HIDE DEF rest, out
<1>9. p \in PagesTo(h) /\ p.shown = rest /\ p.gone = out
  BY <1>6, <1>7 DEF PagesTo
<1> HIDE DEF p
<1>10. Orderly(p)
  BY <1>1, <1>4, <1>6, <1>7, <1>9 DEF Orderly
<1>11. ASSUME NEW i \in 1..h, Has(page, i) PROVE Has(p, i)
  <2>1. CASE i \in page.gone
    BY <1>7, <1>9, <2>1 DEF Has
  <2>2. CASE \E k \in 1..Len(page.shown) : page.shown[k] = i
    <3>1. PICK k \in 1..Len(page.shown) : page.shown[k] = i
      BY <2>2
    <3>2. k \in 1..Len(all) /\ all[k] = i
      BY <1>13, <3>1 DEF old
    <3> QED
      BY <1>8, <1>9, <3>2 DEF Has
  <2> QED
    BY <1>11, <2>1, <2>2 DEF Has
<1>12. ASSUME NEW k \in 1..Len(s), s[k] \in 1..h PROVE Has(p, s[k])
  <2>1. Len(old) + k \in 1..Len(all) /\ all[Len(old) + k] = s[k]
    BY <1>13
  <2> QED
    BY <1>8, <1>9, <1>12, <2>1 DEF Has
<1> QED
  BY <1>3, <1>9, <1>10, <1>11, <1>12

\* The page changes and has no less; what it may have read besides it has.
LEMMA PageKeeps ==
    ASSUME HubInv, UNCHANGED <<chain, conn, hub, stream>>,
           page' \in PagesTo(LastId), Orderly(page'),
           \A i \in 1..LastId : Has(page, i) => Has(page', i),
           socket' \in [read : Nat, held : Nat], socket'.held = socket.held,
           socket'.read + socket'.held <= Len(stream),
           \A k \in 1..socket'.read :
               k \in 1..socket.read \/ (stream[k].type = "event" => Has(page', stream[k].id))
    PROVE  HubInv'
<1>0. /\ LastId \in Nat /\ LastId = Len(chain) /\ chain \in Seq(Kind) /\ LastId <= MaxEntries
      /\ conn \in ConnsTo(LastId) /\ hub \in Buffers(LastId) /\ Len(hub.buffer) <= BufferCapacity
      /\ stream \in Seq(FramesTo(LastId)) /\ Len(stream) \in Nat
      /\ socket.read \in Nat /\ socket.read <= Len(stream)
  <2>1. socket.read \in Nat /\ socket.held \in Nat /\ socket.read + socket.held <= Len(stream)
        /\ Len(stream) \in Nat
    BY HubTypesAre DEF HubInv
  <2> QED
    BY <2>1, HubTypesAre DEF HubInv, HubTypeOK, LastId, ConnsTo
<1>1. HubTypeOK'
  BY <1>0, HubTypesBecome DEF Orderly
<1>2. NoSilentGap'
  BY GapsStay DEF HubInv
<1>3. HeldSmall'
  BY DEF HubInv, HeldSmall
<1>4. ReadIsShown'
  <2>1. ASSUME NEW k \in 1..socket.read, stream[k].type = "event" PROVE Has(page', stream[k].id)
    <3>1. k \in 1..Len(stream)
      BY <1>0
    <3>2. stream[k] \in FramesTo(LastId)
      BY <1>0, <3>1, ElementOfSeq
    <3>3. stream[k].id \in 1..LastId
      BY <1>0, <2>1, <3>2, FramesAre
    <3> QED
      BY <2>1, <3>3 DEF HubInv, ReadIsShown
  <2>2. \A k \in 1..socket'.read : stream[k].type = "event" => Has(page', stream[k].id)
    BY <2>1
  <2>3. stream' = stream
    OBVIOUS
  <2> QED
    BY <2>2, <2>3 DEF ReadIsShown, Has
<1> QED
  BY <1>1, <1>2, <1>3, <1>4 DEF HubInv, Orderly

LEMMA ReceiveKeeps ==
    ASSUME HubInv, Receive
    PROVE  HubInv'
<1> DEFINE n == socket.read + 1
           f == stream[n]
<1>0. /\ LastId \in Nat /\ stream \in Seq(FramesTo(LastId)) /\ Len(stream) \in Nat
      /\ socket \in [read : Nat, held : Nat] /\ socket.read \in Nat /\ socket.held \in Nat
      /\ page \in PagesTo(LastId) /\ Orderly(page)
  BY HubTypesAre, PageTypes DEF HubInv, HubTypeOK
<1>1. /\ socket.read + socket.held < Len(stream) /\ page' = Handled(f)
      /\ socket' = [socket EXCEPT !.read = n] /\ UNCHANGED <<chain, conn, hub, stream>>
  BY DEF Receive
<1>2. n \in 1..Len(stream) /\ f \in FramesTo(LastId)
  <2>1. n \in 1..Len(stream)
    BY <1>0, <1>1
  <2> QED
    BY <1>0, <2>1, ElementOfSeq
<1>3. /\ socket' \in [read : Nat, held : Nat] /\ socket'.held = socket.held /\ socket'.read = n
      /\ socket'.read + socket'.held <= Len(stream)
  BY <1>0, <1>1
<1>4. /\ f.type \in {"hello", "bye", "event", "dropped"}
      /\ f.type = "event" => f.id \in 1..LastId
      /\ f.type = "dropped" => f.since \in 0..LastId /\ f.latest \in 1..LastId
  BY <1>0, <1>2, FramesAre
<1> HIDE DEF f, n
<1>5. /\ page' \in PagesTo(LastId) /\ Orderly(page')
      /\ \A i \in 1..LastId : Has(page, i) => Has(page', i)
      /\ f.type = "event" => Has(page', f.id)
  <2>1. page.lastSeen \in 0..LastId /\ \A i \in 1..LastId : Seen(i) \in 0..LastId
    BY <1>0 DEF PagesTo, Seen
  <2>2. CASE f.type = "hello"
    BY <1>0, <1>1, <2>2 DEF Handled
  <2>3. CASE f.type = "event"
    <3> DEFINE last == Seen(f.id)
               q == Shown(f.id)
    <3>1. page' = [q EXCEPT !.lastSeen = last]
      BY <1>1, <2>3 DEF Handled
    <3>2. /\ q \in PagesTo(LastId) /\ Orderly(q) /\ Has(q, f.id)
          /\ \A i \in 1..LastId : Has(page, i) => Has(q, i)
      <4>1. CASE OnPage(f.id)
        <5>1. q = page
          BY <4>1 DEF Shown
        <5>2. page.shown \in Seq(0..LastId)
          BY <1>0 DEF PagesTo
        <5>3. DOMAIN page.shown = 1..Len(page.shown)
          BY <5>2, LenProperties
        <5>4. Has(page, f.id)
          BY <4>1, <5>3 DEF OnPage, Has
        <5> QED
          BY <1>0, <5>1, <5>4
      <4>2. CASE ~OnPage(f.id)
        <5> DEFINE s == <<f.id>>
        <5>1. q = Ingested(s)
          BY <4>2 DEF Shown
        <5>2. s \in Seq(0..LastId) /\ Len(s) = 1 /\ s[1] = f.id /\ f.id \in 1..LastId
          BY <1>0, <1>4, <2>3
        <5> HIDE DEF s, q
        <5>3. /\ Ingested(s) \in PagesTo(LastId) /\ Orderly(Ingested(s))
              /\ \A i \in 1..LastId : Has(page, i) => Has(Ingested(s), i)
              /\ \A k \in 1..Len(s) : s[k] \in 1..LastId => Has(Ingested(s), s[k])
          BY <1>0, <5>2, IngestedIs
        <5> QED
          BY <5>1, <5>2, <5>3
      <4> QED
        BY <4>1, <4>2
    <3>3. last \in 0..LastId
      BY <1>4, <2>1, <2>3
    <3> HIDE DEF last, q
    <3>4. page' \in PagesTo(LastId) /\ page'.shown = q.shown /\ page'.gone = q.gone
      BY <3>1, <3>2, <3>3 DEF PagesTo
    <3> QED
      BY <3>2, <3>4 DEF Orderly, Has
  <2>4. CASE f.type = "dropped"
    <3> DEFINE r == [since |-> f.since, latest |-> f.latest]
    <3>1. page' = RefillOf(f)
      BY <1>1, <2>4 DEF Handled
    <3>2. r \in [since : 0..LastId, latest : 1..LastId] /\ Seen(f.latest) \in 0..LastId
      BY <1>4, <2>1, <2>4
    <3>3. \/ page' = [page EXCEPT !.lastSeen = Seen(f.latest)]
          \/ page' = [page EXCEPT !.refills = page.refills \cup {r}]
      BY <3>1 DEF RefillOf
    <3> DEFINE last == Seen(f.latest)
               more == page.refills \cup {r}
    <3> HIDE DEF r
    <3>5. last \in 0..LastId /\ more \in SUBSET [since : 0..LastId, latest : 1..LastId]
      BY <1>0, <3>2 DEF PagesTo
    <3>6. page' = [page EXCEPT !.lastSeen = last] \/ page' = [page EXCEPT !.refills = more]
      BY <3>3
    <3> HIDE DEF last, more
    <3>4. page' \in PagesTo(LastId) /\ page'.shown = page.shown /\ page'.gone = page.gone
      BY <1>0, <3>5, <3>6 DEF PagesTo
    <3> QED
      BY <1>0, <2>4, <3>4 DEF Orderly, Has
  <2>5. CASE f.type = "bye"
    <3>1. page' = [page EXCEPT !.halted = TRUE]
      BY <1>1, <2>5 DEF Handled
    <3>2. page' \in PagesTo(LastId) /\ page'.shown = page.shown /\ page'.gone = page.gone
      BY <1>0, <3>1 DEF PagesTo
    <3> QED
      BY <1>0, <2>5, <3>2 DEF Orderly, Has
  <2> QED
    BY <1>4, <2>2, <2>3, <2>4, <2>5
<1>6. \A k \in 1..socket'.read :
          k \in 1..socket.read \/ (stream[k].type = "event" => Has(page', stream[k].id))
  <2>1. \A k \in 1..n : k \in 1..socket.read \/ k = n
    BY <1>0 DEF n
  <2> QED
    BY <1>3, <1>5, <2>1 DEF f
<1> QED
  BY <1>1, <1>3, <1>5, <1>6, PageKeeps

LEMMA RefillKeeps ==
    ASSUME HubInv, NEW r \in page.refills, RefillAnswered(r) \/ RefillFails(r)
    PROVE  HubInv'
<1>0. /\ LastId \in Nat /\ socket \in [read : Nat, held : Nat]
      /\ socket.read + socket.held <= Len(stream) /\ page \in PagesTo(LastId) /\ Orderly(page)
  BY HubTypesAre, PageTypes DEF HubInv, HubTypeOK
<1> DEFINE d == r.latest - r.since
           m == IF d > 0 THEN d ELSE 0
           copies == [k \in 1..d |-> Copy]
           rest == page.refills \ {r}
<1>1. copies \in Seq(0..LastId)
  <2>1. r.since \in 0..LastId /\ r.latest \in 1..LastId
    BY <1>0 DEF PagesTo
  <2>2. m \in Nat /\ 1..d = 1..m
    BY <1>0, <2>1
  <2>3. Copy \in 0..LastId
    BY <1>0 DEF Copy
  <2> HIDE DEF d, m
  <2>4. copies \in [1..m -> 0..LastId]
    BY <2>2, <2>3
  <2>5. m \in Nat
    BY <2>2
  <2> HIDE DEF copies
  <2> QED
    BY <2>4, <2>5, SeqDef
<1>2. rest \in SUBSET [since : 0..LastId, latest : 1..LastId]
  BY <1>0 DEF PagesTo
<1>3. /\ page' \in PagesTo(LastId) /\ Orderly(page')
      /\ \A i \in 1..LastId : Has(page, i) => Has(page', i)
  <2>1. CASE RefillAnswered(r)
    <3> DEFINE q == Ingested(copies)
    <3>1. page' = [q EXCEPT !.refills = rest]
      BY <2>1 DEF RefillAnswered, Refilled
    <3> HIDE DEF copies, rest
    <3>2. /\ q \in PagesTo(LastId) /\ Orderly(q)
          /\ \A i \in 1..LastId : Has(page, i) => Has(q, i)
      BY <1>0, <1>1, IngestedIs
    <3> HIDE DEF q
    <3>3. page' \in PagesTo(LastId) /\ page'.shown = q.shown /\ page'.gone = q.gone
      BY <1>2, <3>1, <3>2 DEF PagesTo
    <3> QED
      BY <3>2, <3>3 DEF Orderly, Has
  <2>2. CASE RefillFails(r)
    <3>1. page' = [page EXCEPT !.refills = rest]
      BY <2>2 DEF RefillFails
    <3> HIDE DEF rest
    <3>2. page' \in PagesTo(LastId) /\ page'.shown = page.shown /\ page'.gone = page.gone
      BY <1>0, <1>2, <3>1 DEF PagesTo
    <3> QED
      BY <1>0, <3>2 DEF Orderly, Has
  <2> QED
    BY <2>1, <2>2
<1>4. UNCHANGED <<chain, conn, hub, stream, socket>>
  BY DEF RefillAnswered, RefillFails
<1> QED
  BY <1>0, <1>3, <1>4, PageKeeps

-----------------------------------------------------------------------------
LEMMA HubInvInit ==
    ASSUME HubInit
    PROVE  HubInv
<1>1. chain \in Seq(Kind) /\ Len(chain) \in Nat /\ Len(chain) <= MaxEntries
  <2>1. PICK n \in 0..MaxLoaded : chain \in [1..n -> Kind]
    BY DEF HubInit
  <2>2. n \in Nat /\ n <= MaxEntries
    BY <2>1, HubAssumption
  <2>3. chain \in Seq(Kind)
    BY <2>1, <2>2, SeqDef
  <2>4. Len(chain) = n
    BY <2>1, <2>2, <2>3, LenProperties
  <2> QED
    BY <2>2, <2>3, <2>4
<1>2. /\ << >> \in Seq(Id) /\ << >> \in Seq(Frame) /\ Len(<< >>) = 0
  BY EmptySeq
<1>3. conn = [phase |-> "down", since |-> 0, joined |-> 0, made |-> 0]
  BY DEF HubInit
<1>4. conn \in [phase : {"down", "open", "subscribed", "closing"},
                since : 0..LastId, joined : 0..LastId, made : 0..MaxConnects]
  BY <1>1, <1>3, HubAssumption DEF LastId
<1>5. /\ hub \in [buffer : Seq(Id), draining : BOOLEAN,
                  dropped : {NoRange} \cup [min : Id, max : Id]]
      /\ Len(hub.buffer) <= BufferCapacity
  BY <1>2, HubAssumption DEF HubInit, NewHub
<1>6. /\ stream \in Seq(Frame) /\ socket \in [read : Nat, held : Nat]
      /\ socket.read = 0 /\ socket.held = 0 /\ Len(stream) = 0
  BY <1>2 DEF HubInit
<1>7. /\ page \in [lastSeen : 0..LastId, shown : Seq(0..LastId), gone : SUBSET Id,
                   refills : SUBSET DroppedRange, halted : BOOLEAN]
      /\ Len(page.shown) <= PageCapacity /\ page.gone = {}
  <2>1. << >> \in Seq(0..LastId) /\ Len(<< >>) = 0
    BY EmptySeq
  <2> QED
    BY <1>1, <2>1, HubAssumption DEF HubInit, LastId
<1>8. HubTypeOK
  BY <1>1, <1>4, <1>5, <1>6, <1>7 DEF HubTypeOK, LastId
<1>9. NoSilentGap
  BY <1>3 DEF NoSilentGap, Attached
<1>10. HeldSmall /\ ReadIsShown /\ Orderly(page)
  BY <1>3, <1>6, <1>7, HubAssumption DEF HeldSmall, ReadIsShown, Orderly
<1> QED
  BY <1>8, <1>9, <1>10 DEF HubInv

LEMMA HubStutter ==
    ASSUME HubInv, UNCHANGED hubVars
    PROVE  HubInv'
<1>1. socket \in [read : Nat, held : Nat] /\ socket.read + socket.held <= Len(stream)
  BY DEF HubInv, HubTypeOK
<1>2. page \in PagesTo(LastId) /\ Orderly(page)
  BY PageTypes
<1>3. UNCHANGED <<chain, conn, hub, stream>> /\ page' = page /\ socket' = socket
  BY DEF hubVars
<1> QED
  BY <1>1, <1>2, <1>3, PageKeeps

LEMMA HubInvStep == HubInv /\ [HubNext]_hubVars => HubInv'
<1> SUFFICES ASSUME HubInv, [HubNext]_hubVars PROVE HubInv'
  OBVIOUS
<1>1. CASE UNCHANGED hubVars
  BY <1>1, HubStutter
<1>2. ASSUME NEW kind \in Kind \ {"lost"}, AppendEntry(kind) PROVE HubInv'
  BY <1>2, AppendKeeps
<1>3. CASE TryDrain
  BY <1>3, DrainKeeps
<1>4. CASE Flush
  BY <1>4, FlushKeeps
<1>5. CASE Connect \/ Disconnect
  BY <1>5, ConnectKeeps
<1>6. CASE Subscribe
  BY <1>6, SubscribeKeeps
<1>7. CASE Close
  BY <1>7, CloseKeeps
<1>8. CASE Receive
  BY <1>8, ReceiveKeeps
<1>9. ASSUME NEW r \in page.refills, RefillAnswered(r) \/ RefillFails(r) PROVE HubInv'
  BY <1>9, RefillKeeps
<1> QED
  BY <1>1, <1>2, <1>3, <1>4, <1>5, <1>6, <1>7, <1>8, <1>9 DEF HubNext

LEMMA HubInvariance == HubSpec => []HubInv
  BY HubInvInit, HubInvStep, PTL DEF HubSpec

\* ws-hub.ts, ring-buffer.ts and firehose-store.ts: no id is handed on that the
\* chain does not have, no buffer and no page is longer than its capacity.
THEOREM HubTypesCorrect == HubSpec => []HubTypeOK
<1>1. HubInv => HubTypeOK
  BY DEF HubInv
<1> QED
  BY <1>1, HubInvariance, PTL

\* ws-hub.ts: the hub loses nothing silently but, at a subscription, as many of
\* the newest ids as the chain it booted with has holes.
THEOREM GapsAreAnnounced == HubSpec => []NoSilentGap
<1>1. HubInv => NoSilentGap
  BY DEF HubInv
<1> QED
  BY <1>1, HubInvariance, PTL

\* ws-hub.ts: over a chain without holes the replay is complete: whatever the page
\* has not seen was sent, waits in the ring buffer, or is announced as dropped.
THEOREM WholeChainIsReplayed == HubSpec => [](Missing = 0 => ReplayIsComplete)
<1>1. ASSUME HubInv, Missing = 0, conn.phase = "subscribed", NEW i \in Allowlisted, i > conn.since
      PROVE  EventFrame(i) \in FramesOf("event") \/ Announced(i) \/ Waiting(i)
  <2>1. i \in Nat /\ conn.joined \in Nat
    BY <1>1, HubTypesAre DEF HubInv, HubTypeOK, Allowlisted, Id
  <2>2. i \in Owed
    BY <1>1, <2>1 DEF Owed
  <2> QED
    BY <1>1, <2>2 DEF HubInv, NoSilentGap, Attached
<1>2. HubInv => (Missing = 0 => ReplayIsComplete)
  BY <1>1 DEF ReplayIsComplete
<1> QED
  BY <1>2, HubInvariance, PTL

\* ws-hub.ts: what a client that does not read may cost the Grid.
THEOREM MemoryIsBounded == HubSpec => []HeldIsBounded
<1>1. ASSUME HubInv PROVE HeldIsBounded
  <2>1. /\ socket.held \in Nat /\ Len(hub.buffer) <= BufferCapacity
        /\ socket.held <= Watermark + 2
    BY <1>1, HubTypesAre, HubAssumption DEF HubInv, HeldSmall
  <2>2. Len(hub.buffer) \in Nat
    BY <1>1 DEF HubInv, HubTypeOK
  <2> QED
    BY <2>1, <2>2, HubAssumption DEF HeldIsBounded
<1> QED
  BY <1>1, HubInvariance, PTL

\* A page that has read everything, from a hub that keeps and has announced
\* nothing, has all it is owed: such an entry was then sent as an event, and an
\* event that was read is on the page, or the page is full and has pushed it out.
THEOREM QuietShowsAll == HubSpec => []QuietIsCaughtUp
<1>1. ASSUME HubInv, conn.phase = "subscribed", socket.read = Len(stream),
             hub = NewHub, FramesOf("dropped") = {}, NEW i \in Owed
      PROVE  OnPage(i) \/ (i \in page.gone /\ Len(page.shown) = PageCapacity)
  <2>1. DOMAIN stream = 1..Len(stream)
    BY <1>1, HubTypesAre, LenProperties DEF HubInv
  <2>2. Known(i)
    BY <1>1, <2>1, KnownIs DEF HubInv, Attached
  <2>3. ~Kept(hub, i)
    <3>1. DOMAIN << >> = {}
      BY EmptySeq
    <3> QED
      BY <1>1, <3>1 DEF Kept, NewHub
  <2>4. \A k \in 1..Len(stream) : stream[k].type # "dropped"
    BY <1>1, <2>1 DEF FramesOf
  <2>5. PICK k \in 1..Len(stream) : stream[k] = EventFrame(i)
    BY <2>2, <2>3, <2>4 DEF Known, On
  <2>6. stream[k].type = "event" /\ stream[k].id = i
    BY <2>5 DEF EventFrame
  <2>7. Has(page, i)
    BY <1>1, <2>5, <2>6 DEF HubInv, ReadIsShown
  <2>8. DOMAIN page.shown = 1..Len(page.shown)
    <3>1. page.shown \in Seq(0..LastId)
      BY <1>1, PageTypes DEF PagesTo
    <3> QED
      BY <3>1, LenProperties
  <2> QED
    BY <1>1, <2>7, <2>8 DEF HubInv, Has, OnPage, Orderly
<1>2. HubInv => QuietIsCaughtUp
  BY <1>1 DEF QuietIsCaughtUp
<1> QED
  BY <1>2, HubInvariance, PTL
=============================================================================
