----------------------------- MODULE CivicProofs -----------------------------
(* A citizen's land and its standing, two components that share no state.   *)
(*                                                                          *)
(* Parcels: what holds of the ownership of land for any number of parcels,  *)
(* buyers, requests, overlapping scans, amendments, failing statements and  *)
(* restarts.  Standing: what holds of the row of a citizen for any number   *)
(* of charges, requests, judges, connections and crashes.                   *)
EXTENDS Parcels, Standing, TLAPS

USE DEF vars, land, history
-----------------------------------------------------------------------------
(* Types, in four parts: the clock and the land, requests, scans and        *)
(* histories.                                                              *)
Lands ==
  /\ tick \in 0..MaxTick /\ rate \in Rates /\ faults \in 0..MaxFaults
  /\ owner \in [Parcel -> Did \cup {Nobody, Treasury}]
  /\ missed \in [Parcel -> Nat] /\ wait \in [Parcel -> Nat]
  /\ row \in [Parcel -> [owner : Did \cup {Nobody}, missed : Nat,
                         last : Nat \cup {Never}]]
Requests == request \in [Request -> {Idle} \cup Buyer]
Scans == scan \in [Scan -> {Idle} \cup Sweep]
Histories ==
  /\ paid \in [Parcel -> Did \cup {Nobody}]
  /\ sold \in [Parcel -> Did \cup {Nobody}]

LEMMA TypeParts == /\ TypeOK <=> Lands /\ Requests /\ Scans /\ Histories
                   /\ TypeOK' <=> Lands' /\ Requests' /\ Scans' /\ Histories'
<1>1. TypeOK <=> Lands /\ Requests /\ Scans /\ Histories
  BY Zenon DEF TypeOK, Lands, Requests, Scans, Histories
<1>2. TypeOK' <=> Lands' /\ Requests' /\ Scans' /\ Histories'
  BY Zenon DEF TypeOK, Lands, Requests, Scans, Histories
<1> QED BY <1>1, <1>2

(* Handlers that are under way have what their program counter says.        *)
LEMMA Buyers ==
  ASSUME Requests, NEW r \in Request, request[r].pc # "idle"
  PROVE  /\ request[r] \in Buyer
         /\ request[r].did \in Did /\ request[r].parcel \in Parcel
<1>1. request[r] \in {Idle} \cup Buyer   BY DEF Requests
<1>2. request[r] # Idle   BY DEF Idle
<1>3. request[r] \in Buyer   BY <1>1, <1>2
<1> QED BY <1>3 DEF Buyer

LEMMA Sweeps ==
  ASSUME Scans, NEW s \in Scan, scan[s].pc # "idle"
  PROVE  /\ scan[s] \in Sweep
         /\ scan[s].tick \in 0..MaxTick /\ scan[s].todo \in SUBSET Copy
         /\ scan[s].pc # "next" => scan[s].copy \in Copy
<1>1. scan[s] \in {Idle} \cup Sweep   BY DEF Scans
<1>2. scan[s] # Idle   BY DEF Idle
<1>3. scan[s] \in Sweep   BY <1>1, <1>2
<1>4. CASE scan[s] \in [pc : {"next"}, tick : 0..MaxTick, todo : SUBSET Copy]
  BY <1>3, <1>4
<1>5. CASE scan[s] \in [pc : {"paid", "poor", "settled", "missed", "reclaimed"},
                        tick : 0..MaxTick, todo : SUBSET Copy, copy : Copy]
  BY <1>3, <1>5
<1> QED BY <1>3, <1>4, <1>5 DEF Sweep

(* The states a scan may go to.                                             *)
LEMMA SweepStates ==
  ASSUME Scans, NEW s \in Scan, scan[s].pc # "idle"
  PROVE  /\ \A c \in Copy : Rest(s, c) \in {Idle} \cup Sweep
         /\ \A c \in Copy, pc \in {"paid", "poor", "settled", "missed", "reclaimed"} :
               At(s, pc, c) \in Sweep
<1>1. scan[s].tick \in 0..MaxTick /\ scan[s].todo \in SUBSET Copy   BY Sweeps
<1>2. ASSUME NEW c \in Copy PROVE Rest(s, c) \in {Idle} \cup Sweep
  <2>1. scan[s].todo \ {c} \in SUBSET Copy   BY <1>1
  <2>2. [pc |-> "next", tick |-> scan[s].tick, todo |-> scan[s].todo \ {c}] \in Sweep
    BY <1>1, <2>1 DEF Sweep
  <2> QED BY <2>2, Zenon DEF Rest
<1>3. ASSUME NEW c \in Copy, NEW pc \in {"paid", "poor", "settled", "missed", "reclaimed"}
      PROVE  At(s, pc, c) \in Sweep
  BY <1>1 DEF At, Sweep
<1> QED BY <1>2, <1>3

(* Every step, by what it is a step of.                                     *)
LEMMA Steps ==
  ASSUME Next
  PROVE  \/ \E r \in Request, d \in Did, p \in Parcel : Buy(r, d, p)
         \/ \E r \in Request : Buying(r)
         \/ TickClosed \/ (\E s \in Scan : Upkeep(s)) \/ Restart \/ AmendLaw
  BY Zenon DEF Next

LEMMA TypesInit == ASSUME Init PROVE TypeOK
<1>1. Lands   BY ConstantsAssumption DEF Init, Lands, ConstantsAssumption, Never
<1>2. Requests   BY DEF Init, Requests
<1>3. Scans   BY DEF Init, Scans
<1>4. Histories   BY DEF Init, Histories
<1> QED BY <1>1, <1>2, <1>3, <1>4, TypeParts

LEMMA RequestsStep == ASSUME TypeOK, Next PROVE Requests'
<1> USE TypeParts DEF Requests
<1>1. ASSUME NEW r \in Request, NEW d \in Did, NEW p \in Parcel, Buy(r, d, p)
      PROVE  Requests'
  <2>1. [pc |-> "charge", did |-> d, parcel |-> p] \in Buyer   BY DEF Buyer
  <2> QED BY <1>1, <2>1 DEF Buy
<1>2. ASSUME NEW r \in Request, Buying(r) PROVE Requests'
  <2>1. CASE BuyCharge(r)
    <3>1. [request[r] EXCEPT !.pc = "paid"] \in Buyer   BY <2>1, Buyers DEF BuyCharge, Buyer
    <3> QED BY <2>1, <3>1 DEF BuyCharge
  <2>2. CASE BuyRefused(r) \/ BuyReplyLost(r)
    <3>1. [request[r] EXCEPT !.pc = "refused"] \in Buyer
      BY <2>2, Buyers DEF BuyRefused, BuyReplyLost, Buyer
    <3> QED BY <2>2, <3>1 DEF BuyRefused, BuyReplyLost
  <2>3. CASE BuyRelease(r) \/ BuyPersist(r) \/ BuyPersistFails(r)
    BY <2>3 DEF BuyRelease, BuyPersist, BuyPersistFails
  <2> QED BY <1>2, <2>1, <2>2, <2>3, Zenon DEF Buying
<1>3. CASE TickClosed   BY <1>3 DEF TickClosed
<1>4. ASSUME NEW s \in Scan, Upkeep(s) PROVE Requests'
  BY <1>4 DEF Upkeep, UpkeepCharge, UpkeepChargeFails, UpkeepSettle, UpkeepAdvance,
              UpkeepPersist, UpkeepPersistFails
<1>5. CASE Restart   BY <1>5 DEF Restart
<1>6. CASE AmendLaw   BY <1>6 DEF AmendLaw
<1> QED BY <1>1, <1>2, <1>3, <1>4, <1>5, <1>6, Steps

LEMMA ScansStep == ASSUME TypeOK, Lands', Next PROVE Scans'
<1> USE TypeParts
<1>1. ASSUME NEW r \in Request, NEW d \in Did, NEW p \in Parcel, Buy(r, d, p)
      PROVE  Scans'
  BY <1>1 DEF Scans, Buy
<1>2. ASSUME NEW r \in Request, Buying(r) PROVE Scans'
  BY <1>2 DEF Scans, Buying, BuyCharge, BuyRefused, BuyReplyLost, BuyRelease, BuyPersist,
              BuyPersistFails
<1>3. CASE TickClosed
  <2> PICK s \in Scan :
          /\ scan[s].pc = "idle"
          /\ scan' = [scan EXCEPT ![s] =
                IF Copies(wait') = {} THEN Idle
                ELSE [pc |-> "next", tick |-> tick', todo |-> Copies(wait')]]
    BY <1>3, Zenon DEF TickClosed
  <2>1. Copies(wait') \in SUBSET Copy
    <3> SUFFICES ASSUME NEW p \in Parcel, owner[p] # Nobody
                 PROVE  [parcel |-> p, owner |-> owner[p], missed |-> missed[p]] \in Copy
      BY Zenon DEF Copies
    <3>1. owner[p] \in Did \cup {Treasury} /\ missed[p] \in Nat   BY DEF Lands
    <3> QED BY <3>1 DEF Copy
  <2>2. [pc |-> "next", tick |-> tick', todo |-> Copies(wait')] \in Sweep
    BY <2>1 DEF Lands, Sweep
  <2> QED BY <2>2 DEF Scans
<1>4. ASSUME NEW s \in Scan, Upkeep(s) PROVE Scans'
  <2>1. CASE UpkeepCharge(s)
    <3> PICK c \in scan[s].todo :
            \/ scan' = [scan EXCEPT ![s] = At(s, "paid", c)]
            \/ scan' = [scan EXCEPT ![s] = At(s, "poor", c)]
      BY <2>1, Zenon DEF UpkeepCharge
    <3>1. c \in Copy   BY <2>1, Sweeps DEF UpkeepCharge
    <3>2. At(s, "paid", c) \in Sweep /\ At(s, "poor", c) \in Sweep
      BY <2>1, <3>1, SweepStates DEF UpkeepCharge
    <3> QED BY <3>2 DEF Scans
  <2>2. CASE UpkeepChargeFails(s)
    <3> PICK c \in scan[s].todo : scan' = [scan EXCEPT ![s] = Rest(s, c)]
      BY <2>2, Zenon DEF UpkeepChargeFails
    <3>1. c \in Copy   BY <2>2, Sweeps DEF UpkeepChargeFails
    <3>2. Rest(s, c) \in {Idle} \cup Sweep   BY <2>2, <3>1, SweepStates DEF UpkeepChargeFails
    <3> QED BY <3>2 DEF Scans
  <2>3. CASE UpkeepSettle(s)
    <3>1. scan[s].pc = "paid"   BY <2>3 DEF UpkeepSettle
    <3>2. scan[s] \in Sweep   BY <3>1, Sweeps
    <3>3. [scan[s] EXCEPT !.pc = "settled"] \in Sweep   BY <3>1, <3>2 DEF Sweep
    <3> QED BY <2>3, <3>3 DEF Scans, UpkeepSettle
  <2>4. CASE UpkeepAdvance(s)
    <3> PICK c \in Missing(s) :
            \/ scan' = [scan EXCEPT ![s] = At(s, "missed", c)]
            \/ scan' = [scan EXCEPT ![s] = At(s, "reclaimed", c)]
      BY <2>4, Zenon DEF UpkeepAdvance
    <3>1. scan[s].pc # "idle" /\ c \in Copy   BY Sweeps DEF Missing
    <3>2. At(s, "missed", c) \in Sweep /\ At(s, "reclaimed", c) \in Sweep
      BY <3>1, SweepStates
    <3> QED BY <3>2 DEF Scans
  <2>5. CASE UpkeepPersist(s) \/ UpkeepPersistFails(s)
    <3>1. scan[s].pc # "idle" /\ scan[s].pc # "next"
      BY <2>5 DEF UpkeepPersist, UpkeepPersistFails
    <3>2. scan' = [scan EXCEPT ![s] = Rest(s, scan[s].copy)]
      BY <2>5, Zenon DEF UpkeepPersist, UpkeepPersistFails
    <3>3. Rest(s, scan[s].copy) \in {Idle} \cup Sweep   BY <3>1, Sweeps, SweepStates
    <3> QED BY <3>2, <3>3 DEF Scans
  <2> QED BY <1>4, <2>1, <2>2, <2>3, <2>4, <2>5, Zenon DEF Upkeep
<1>5. CASE Restart   BY <1>5 DEF Scans, Restart
<1>6. CASE AmendLaw   BY <1>6 DEF Scans, AmendLaw
<1> QED BY <1>1, <1>2, <1>3, <1>4, <1>5, <1>6, Steps

LEMMA FaultBound == ASSUME Lands, Fault PROVE faults' \in 0..MaxFaults
  BY ConstantsAssumption DEF Lands, Fault, ConstantsAssumption

LEMMA LandsStep == ASSUME TypeOK, Next PROVE Lands'
<1> USE TypeParts DEF Lands
<1>1. ASSUME NEW r \in Request, NEW d \in Did, NEW p \in Parcel, Buy(r, d, p)
      PROVE  Lands'
  BY <1>1 DEF Buy
<1>2. ASSUME NEW r \in Request, Buying(r) PROVE Lands'
  <2>1. CASE BuyCharge(r) \/ BuyRefused(r)   BY <2>1 DEF BuyCharge, BuyRefused
  <2>2. CASE BuyReplyLost(r) \/ BuyPersistFails(r)
    BY <2>2, FaultBound DEF BuyReplyLost, BuyPersistFails
  <2>3. CASE BuyRelease(r)   BY <2>3 DEF BuyRelease
  <2>4. CASE BuyPersist(r)
    <3>1. request[r].did \in Did   BY <2>4, Buyers DEF BuyPersist
    <3> QED BY <2>4, <3>1 DEF BuyPersist
  <2> QED BY <1>2, <2>1, <2>2, <2>3, <2>4, Zenon DEF Buying
<1>3. CASE TickClosed
  <2>1. tick' \in 0..MaxTick   BY <1>3, ConstantsAssumption DEF TickClosed, ConstantsAssumption
  <2>2. wait' \in [Parcel -> Nat]   BY <1>3 DEF TickClosed
  <2> QED BY <1>3, <2>1, <2>2 DEF TickClosed
<1>4. ASSUME NEW s \in Scan, Upkeep(s) PROVE Lands'
  <2>1. CASE UpkeepCharge(s)   BY <2>1 DEF UpkeepCharge
  <2>2. CASE UpkeepChargeFails(s) \/ UpkeepPersistFails(s)
    BY <2>2, FaultBound DEF UpkeepChargeFails, UpkeepPersistFails
  <2>3. CASE UpkeepSettle(s)   BY <2>3 DEF UpkeepSettle
  <2>4. CASE UpkeepAdvance(s)
    <3> PICK c \in Missing(s) :
            IF missed[c.parcel] + 1 < RECLAIM
               THEN missed' = Advanced(c) /\ UNCHANGED owner
               ELSE /\ owner' = [owner EXCEPT ![c.parcel] = Treasury]
                    /\ missed' = [missed EXCEPT ![c.parcel] = 0]
      BY <2>4, Zenon DEF UpkeepAdvance
    <3> QED BY <2>4 DEF UpkeepAdvance, Advanced
  <2>5. CASE UpkeepPersist(s)
    <3> DEFINE c == scan[s].copy
    <3>1. scan[s].pc \in {"settled", "missed", "reclaimed"}   BY <2>5 DEF UpkeepPersist
    <3>2. c \in Copy /\ scan[s].tick \in 0..MaxTick   BY <3>1, Sweeps
    <3>3. c.missed + 1 \in Nat /\ scan[s].tick \in Nat
      BY <3>2, ConstantsAssumption DEF Copy, ConstantsAssumption
    <3>4. UNCHANGED <<tick, rate, faults, owner, missed, wait>>
      BY <2>5, Zenon DEF UpkeepPersist, land
    <3>5. CASE row' = [row EXCEPT ![c.parcel].last = scan[s].tick, ![c.parcel].missed = 0]
      BY <3>3, <3>4, <3>5
    <3>6. CASE row' = [row EXCEPT ![c.parcel].last = scan[s].tick,
                                  ![c.parcel].missed = c.missed + 1]
      BY <3>3, <3>4, <3>6
    <3>7. CASE row' = [row EXCEPT ![c.parcel].owner = Nobody, ![c.parcel].missed = 0]
      BY <3>4, <3>7
    <3> QED BY <2>5, <3>5, <3>6, <3>7, Zenon DEF UpkeepPersist
  <2> QED BY <1>4, <2>1, <2>2, <2>3, <2>4, <2>5, Zenon DEF Upkeep
<1>5. CASE Restart
  <2>1. faults' \in 0..MaxFaults   BY <1>5, FaultBound DEF Restart
  <2>2. tick' \in 0..MaxTick /\ rate' \in Rates
    BY <1>5, ConstantsAssumption DEF Restart, ConstantsAssumption
  <2>3. wait' \in [Parcel -> Nat]
    <3> SUFFICES ASSUME NEW p \in Parcel
                 PROVE  (IF row[p].last = Never THEN 0 ELSE row[p].last + Period) \in Nat
      BY <1>5 DEF Restart
    <3>1. row[p].last \in Nat \cup {Never}   OBVIOUS
    <3> QED BY <3>1, ConstantsAssumption DEF ConstantsAssumption
  <2>4. owner' \in [Parcel -> Did \cup {Nobody, Treasury}] /\ missed' \in [Parcel -> Nat]
    BY <1>5 DEF Restart
  <2> QED BY <1>5, <2>1, <2>2, <2>3, <2>4 DEF Restart
<1>6. CASE AmendLaw   BY <1>6 DEF AmendLaw
<1> QED BY <1>1, <1>2, <1>3, <1>4, <1>5, <1>6, Steps

LEMMA HistoriesStep == ASSUME TypeOK, Next PROVE Histories'
<1> USE TypeParts DEF Histories
<1>1. ASSUME NEW r \in Request, NEW d \in Did, NEW p \in Parcel, Buy(r, d, p)
      PROVE  Histories'
  BY <1>1 DEF Buy
<1>2. ASSUME NEW r \in Request, Buying(r) PROVE Histories'
  <2>1. CASE BuyCharge(r) \/ BuyReplyLost(r)
    <3>1. request[r].did \in Did   BY <2>1, Buyers DEF BuyCharge, BuyReplyLost
    <3> QED BY <2>1, <3>1 DEF BuyCharge, BuyReplyLost
  <2>2. CASE BuyRefused(r) \/ BuyRelease(r) \/ BuyPersistFails(r)
    BY <2>2 DEF BuyRefused, BuyRelease, BuyPersistFails
  <2>3. CASE BuyPersist(r)
    <3>1. request[r].did \in Did   BY <2>3, Buyers DEF BuyPersist
    <3> QED BY <2>3, <3>1 DEF BuyPersist, Told
  <2> QED BY <1>2, <2>1, <2>2, <2>3, Zenon DEF Buying
<1>3. CASE TickClosed   BY <1>3 DEF TickClosed
<1>4. ASSUME NEW s \in Scan, Upkeep(s) PROVE Histories'
  <2>1. CASE UpkeepAdvance(s)
    <3> PICK c \in Missing(s) :
            UNCHANGED sold \/ sold' = [sold EXCEPT ![c.parcel] = Nobody]
      BY <2>1, Zenon DEF UpkeepAdvance
    <3> QED BY <2>1 DEF UpkeepAdvance
  <2>2. CASE ~UpkeepAdvance(s)
    BY <1>4, <2>2 DEF Upkeep, UpkeepCharge, UpkeepChargeFails, UpkeepSettle, UpkeepPersist,
                      UpkeepPersistFails
  <2> QED BY <2>1, <2>2
<1>5. CASE Restart   BY <1>5 DEF Restart
<1>6. CASE AmendLaw   BY <1>6 DEF AmendLaw
<1> QED BY <1>1, <1>2, <1>3, <1>4, <1>5, <1>6, Steps

LEMMA TypesStep == ASSUME TypeOK, [Next]_vars PROVE TypeOK'
<1>1. CASE Next
  <2>1. Lands' /\ Requests' /\ Histories'   BY <1>1, LandsStep, RequestsStep, HistoriesStep
  <2>2. Scans'   BY <1>1, <2>1, ScansStep
  <2> QED BY <2>1, <2>2, TypeParts
<1>2. CASE UNCHANGED vars
  BY <1>2, Zenon DEF TypeOK
<1> QED BY <1>1, <1>2

(* Type correctness for any number of parcels, requests, scans and ticks,   *)
(* whatever fails (parcel-registry.ts, civic-parcels.ts, upkeep-scanner.ts). *)
THEOREM TypeCorrect == Spec => []TypeOK
  BY TypesInit, TypesStep, PTL DEF Spec

-----------------------------------------------------------------------------
(* The inductive invariant.  While a purchase is under way the parcel is    *)
(* the buyer's, or was reclaimed under him, and no other purchase of it     *)
(* begins; the table shows no owner until the purchase is written down.     *)
Busy(r) == request[r].pc # "idle"

OneBuyer ==
  \A r, q \in Request :
     Busy(r) /\ Busy(q) /\ request[r].parcel = request[q].parcel => r = q

BuyersHold ==
  \A r \in Request :
     Busy(r) => /\ owner[request[r].parcel] \in {request[r].did, Treasury}
                /\ row[request[r].parcel].owner = Nobody

ForSaleInBoth == \A p \in Parcel : owner[p] = Nobody => row[p].owner = Nobody

PaidByBuyer ==
  \A r \in Request : request[r].pc = "paid" => paid[request[r].parcel] = request[r].did

ReclaimedIsUnsold ==
  \A s \in Scan : scan[s].pc = "reclaimed" => sold[scan[s].copy.parcel] = Nobody

Purchases == OneBuyer /\ BuyersHold /\ ForSaleInBoth /\ PaidByBuyer
IInv == TypeOK /\ Purchases /\ ReclaimedIsUnsold /\ NoPhantomOwner /\ SoldIsKept

LEMMA NobodyIsNoOwner == Nobody \notin Did /\ Treasury \notin Did /\ Nobody # Treasury
  BY ConstantsAssumption DEF ConstantsAssumption

LEMMA InvInit == ASSUME Init PROVE IInv
<1>1. TypeOK   BY TypesInit
<1>2. \A r \in Request : request[r].pc = "idle"   BY DEF Init, Idle
<1>3. \A s \in Scan : scan[s].pc = "idle"   BY DEF Init, Idle
<1>4. Purchases
  BY <1>2 DEF Init, Purchases, OneBuyer, BuyersHold, ForSaleInBoth, PaidByBuyer, Busy
<1>5. ReclaimedIsUnsold   BY <1>3 DEF ReclaimedIsUnsold
<1>6. NoPhantomOwner   BY NobodyIsNoOwner DEF Init, NoPhantomOwner
<1>7. SoldIsKept   BY DEF Init, SoldIsKept
<1> QED BY <1>1, <1>4, <1>5, <1>6, <1>7 DEF IInv

(* The steps of a purchase.  The parcel and the buyer of the request are     *)
(* its own, and at most one request has the parcel.                         *)
LEMMA BuyKeeps ==
  ASSUME IInv, NEW r \in Request, NEW d \in Did, NEW p \in Parcel, Buy(r, d, p)
  PROVE  Purchases' /\ ReclaimedIsUnsold' /\ NoPhantomOwner' /\ SoldIsKept'
<1> USE NobodyIsNoOwner, TypeParts DEF IInv, Purchases, Lands, Requests
<1>1. /\ owner[p] = Nobody
      /\ owner' = [owner EXCEPT ![p] = d]
      /\ request' = [request EXCEPT ![r] = [pc |-> "charge", did |-> d, parcel |-> p]]
      /\ UNCHANGED <<row, scan, paid, sold>>
  BY DEF Buy, Purchasable
<1>2. \A q \in Request : q # r => request'[q] = request[q]   BY <1>1
<1>3. /\ request'[r].pc = "charge" /\ request'[r].did = d /\ request'[r].parcel = p
      /\ request[r].pc = "idle"
  BY <1>1 DEF Buy
<1>4. \A q \in Request : Busy(q) => request[q].parcel # p
  BY <1>1, NobodyIsNoOwner, Buyers DEF BuyersHold, Busy
<1>5. OneBuyer'   BY <1>2, <1>3, <1>4 DEF OneBuyer, Busy
<1>6. BuyersHold'
  <2> SUFFICES ASSUME NEW q \in Request, request'[q].pc # "idle"
               PROVE  /\ owner'[request'[q].parcel] \in {request'[q].did, Treasury}
                      /\ row[request'[q].parcel].owner = Nobody
    BY <1>1 DEF BuyersHold, Busy
  <2>1. CASE q = r   BY <1>1, <1>3, <2>1 DEF ForSaleInBoth
  <2>2. CASE q # r
    BY <1>1, <1>2, <1>4, <2>2 DEF BuyersHold, Busy
  <2> QED BY <2>1, <2>2
<1>7. ForSaleInBoth'   BY <1>1 DEF ForSaleInBoth
<1>8. PaidByBuyer'   BY <1>1, <1>2, <1>3 DEF PaidByBuyer
<1>9. NoPhantomOwner'
  <2> SUFFICES ASSUME NEW q \in Parcel
               PROVE  /\ owner'[q] \in Did /\ ~InFlight(q)' => paid[q] = owner'[q]
                      /\ row[q].owner \in Did => paid[q] = row[q].owner
    BY <1>1 DEF NoPhantomOwner
  <2>1. row[q].owner \in Did => paid[q] = row[q].owner   BY DEF NoPhantomOwner
  <2>2. CASE q = p
    <3>1. InFlight(q)'   BY <1>3, <2>2 DEF InFlight
    <3> QED BY <2>1, <3>1
  <2>3. CASE q # p
    <3>1. InFlight(q) => InFlight(q)'   BY <1>2, <1>3, <2>3 DEF InFlight
    <3> QED BY <1>1, <2>1, <2>3, <3>1 DEF NoPhantomOwner
  <2> QED BY <2>2, <2>3
<1>10. SoldIsKept'
  BY <1>1 DEF SoldIsKept, ForSaleInBoth, Histories
<1> QED BY <1>1, <1>5, <1>6, <1>7, <1>8, <1>9, <1>10 DEF ReclaimedIsUnsold

(* The charge and its refusals: only who has paid, and the request, change. *)
LEMMA ChargeKeeps ==
  ASSUME IInv, NEW r \in Request, BuyCharge(r) \/ BuyRefused(r) \/ BuyReplyLost(r)
  PROVE  Purchases' /\ ReclaimedIsUnsold' /\ NoPhantomOwner' /\ SoldIsKept'
<1> USE NobodyIsNoOwner, TypeParts DEF IInv, Purchases, Lands, Requests, Histories
<1> DEFINE p == request[r].parcel
           d == request[r].did
<1>1. /\ request[r].pc = "charge" /\ UNCHANGED <<owner, row, scan, sold>>
      /\ paid' = [paid EXCEPT ![p] = d] \/ (paid' = paid /\ ~BuyCharge(r))
      /\ request' = [request EXCEPT ![r].pc = IF BuyCharge(r) THEN "paid" ELSE "refused"]
  BY DEF BuyCharge, BuyRefused, BuyReplyLost
<1>2. p \in Parcel /\ d \in Did /\ request[r] \in Buyer   BY <1>1, Buyers
<1>3. \A q \in Request : q # r => request'[q] = request[q]   BY <1>1
<1>4. /\ request'[r].parcel = p /\ request'[r].did = d
      /\ request'[r].pc = IF BuyCharge(r) THEN "paid" ELSE "refused"
  BY <1>1, <1>2 DEF Buyer
<1>5. \A q \in Request : /\ Busy(q)' <=> Busy(q)
                         /\ Busy(q) => /\ request'[q].parcel = request[q].parcel
                                       /\ request'[q].did = request[q].did
  BY <1>1, <1>3, <1>4 DEF Busy
<1>6. OneBuyer'   BY <1>5 DEF OneBuyer
<1>7. BuyersHold'   BY <1>1, <1>5 DEF BuyersHold
<1>8. ForSaleInBoth'   BY <1>1 DEF ForSaleInBoth
<1>9. PaidByBuyer'
  <2> SUFFICES ASSUME NEW q \in Request, request'[q].pc = "paid"
               PROVE  paid'[request'[q].parcel] = request'[q].did
    BY DEF PaidByBuyer
  <2>1. CASE q = r   BY <1>1, <1>2, <1>4, <2>1
  <2>2. CASE q # r
    <3>1. request[q].pc = "paid" /\ request'[q] = request[q]   BY <1>3, <2>2
    <3>2. request[q].parcel # p   BY <1>1, <2>2, <3>1 DEF OneBuyer, Busy
    <3>3. request[q].parcel \in Parcel   BY <3>1, Buyers
    <3>4. paid'[request[q].parcel] = paid[request[q].parcel]   BY <1>1, <3>2, <3>3
    <3> QED BY <3>1, <3>4 DEF PaidByBuyer
  <2> QED BY <2>1, <2>2
<1>10. NoPhantomOwner'
  <2> SUFFICES ASSUME NEW q \in Parcel
               PROVE  /\ owner[q] \in Did /\ ~InFlight(q)' => paid'[q] = owner[q]
                      /\ row[q].owner \in Did => paid'[q] = row[q].owner
    BY <1>1 DEF NoPhantomOwner
  <2>1. CASE q = p
    <3>1. row[q].owner = Nobody /\ owner[q] \in {d, Treasury}
      BY <1>1, <2>1 DEF BuyersHold, Busy
    <3>2. CASE BuyCharge(r)
      BY <1>1, <1>2, <2>1, <3>1, <3>2
    <3>3. CASE ~BuyCharge(r)
      <4>1. InFlight(q)'   BY <1>4, <2>1, <3>3 DEF InFlight
      <4> QED BY <3>1, <4>1
    <3> QED BY <3>2, <3>3
  <2>2. CASE q # p
    <3>1. paid'[q] = paid[q]   BY <1>1, <2>2
    <3>2. InFlight(q) => InFlight(q)'   BY <1>3, <2>2 DEF InFlight
    <3> QED BY <3>1, <3>2 DEF NoPhantomOwner
  <2> QED BY <2>1, <2>2
<1>11. SoldIsKept'   BY <1>1 DEF SoldIsKept
<1> QED BY <1>1, <1>6, <1>7, <1>8, <1>9, <1>10, <1>11 DEF ReclaimedIsUnsold

(* releaseOwnership: the parcel is for sale again, also when it was         *)
(* reclaimed meanwhile.                                                     *)
LEMMA ReleaseKeeps ==
  ASSUME IInv, NEW r \in Request, BuyRelease(r)
  PROVE  Purchases' /\ ReclaimedIsUnsold' /\ NoPhantomOwner' /\ SoldIsKept'
<1> USE NobodyIsNoOwner, TypeParts DEF IInv, Purchases, Lands, Requests, Histories
<1> DEFINE p == request[r].parcel
<1>1. /\ request[r].pc = "refused" /\ UNCHANGED <<row, scan, paid, sold>>
      /\ owner' = [owner EXCEPT ![p] = Nobody]
      /\ request' = [request EXCEPT ![r] = Idle]
  BY DEF BuyRelease
<1>2. p \in Parcel   BY <1>1, Buyers
<1>3. \A q \in Request : q # r => request'[q] = request[q]   BY <1>1
<1>4. request'[r].pc = "idle"   BY <1>1 DEF Idle
<1>5. \A q \in Request : Busy(q) /\ q # r => request[q].parcel # p
  BY <1>1 DEF OneBuyer, Busy
<1>6. OneBuyer'   BY <1>3, <1>4 DEF OneBuyer, Busy
<1>7. BuyersHold'
  <2> SUFFICES ASSUME NEW q \in Request, request'[q].pc # "idle"
               PROVE  /\ owner'[request'[q].parcel] \in {request'[q].did, Treasury}
                      /\ row[request'[q].parcel].owner = Nobody
    BY <1>1 DEF BuyersHold, Busy
  <2>1. q # r /\ request'[q] = request[q]   BY <1>3, <1>4
  <2>2. request[q].parcel \in Parcel /\ request[q].parcel # p
    BY <1>5, <2>1, Buyers DEF Busy
  <2> QED BY <1>1, <2>1, <2>2 DEF BuyersHold, Busy
<1>8. row[p].owner = Nobody   BY <1>1 DEF BuyersHold, Busy
<1>9. ForSaleInBoth'   BY <1>1, <1>8 DEF ForSaleInBoth
<1>10. PaidByBuyer'   BY <1>1, <1>3, <1>4 DEF PaidByBuyer
<1>11. NoPhantomOwner'
  <2> SUFFICES ASSUME NEW q \in Parcel
               PROVE  /\ owner'[q] \in Did /\ ~InFlight(q)' => paid[q] = owner'[q]
                      /\ row[q].owner \in Did => paid[q] = row[q].owner
    BY <1>1 DEF NoPhantomOwner
  <2>1. CASE q = p   BY <1>1, <1>8, <2>1
  <2>2. CASE q # p
    <3>1. InFlight(q) => InFlight(q)'   BY <1>3, <2>2 DEF InFlight
    <3> QED BY <1>1, <2>2, <3>1 DEF NoPhantomOwner
  <2> QED BY <2>1, <2>2
<1>12. SoldIsKept'   BY <1>1, <1>8 DEF SoldIsKept
<1> QED BY <1>1, <1>6, <1>7, <1>9, <1>10, <1>11, <1>12 DEF ReclaimedIsUnsold

(* The purchase is written down, or that fails and the owner in memory has   *)
(* paid all the same.                                                       *)
LEMMA PersistKeeps ==
  ASSUME IInv, NEW r \in Request, BuyPersist(r) \/ BuyPersistFails(r)
  PROVE  Purchases' /\ ReclaimedIsUnsold' /\ NoPhantomOwner' /\ SoldIsKept'
<1> USE NobodyIsNoOwner, TypeParts DEF IInv, Purchases, Lands, Requests, Histories
<1> DEFINE p == request[r].parcel
           d == request[r].did
<1>1. /\ request[r].pc = "paid" /\ UNCHANGED <<owner, scan, paid>>
      /\ \/ row' = [row EXCEPT ![p].owner = d] /\ sold' = Told(r)
         \/ row' = row /\ sold' = sold
      /\ request' = [request EXCEPT ![r] = Idle]
  BY DEF BuyPersist, BuyPersistFails
<1>2. p \in Parcel /\ d \in Did   BY <1>1, Buyers
<1>3. \A q \in Request : q # r => request'[q] = request[q]   BY <1>1
<1>4. request'[r].pc = "idle"   BY <1>1 DEF Idle
<1>5. \A q \in Request : Busy(q) /\ q # r => request[q].parcel # p
  BY <1>1 DEF OneBuyer, Busy
<1>6. /\ paid[p] = d /\ owner[p] \in {d, Treasury} /\ row[p].owner = Nobody
      /\ sold[p] = Nobody
  BY <1>1, <1>2 DEF PaidByBuyer, BuyersHold, Busy, SoldIsKept
<1>7. /\ row'[p].owner \in {Nobody, d}
      /\ \A q \in Parcel : q # p => row'[q] = row[q] /\ sold'[q] = sold[q]
  BY <1>1, <1>2, <1>6 DEF Told
<1>8. sold'[p] \in {Nobody, d}
      /\ (sold'[p] = d => row'[p].owner = d /\ owner[p] = d /\ ~ReclaimPending(p))
  BY <1>1, <1>2, <1>6 DEF Told
<1>9. OneBuyer'   BY <1>3, <1>4 DEF OneBuyer, Busy
<1>10. BuyersHold'
  <2> SUFFICES ASSUME NEW q \in Request, request'[q].pc # "idle"
               PROVE  /\ owner[request'[q].parcel] \in {request'[q].did, Treasury}
                      /\ row'[request'[q].parcel].owner = Nobody
    BY <1>1 DEF BuyersHold, Busy
  <2>1. q # r /\ request'[q] = request[q]   BY <1>3, <1>4
  <2>2. request[q].parcel \in Parcel /\ request[q].parcel # p
    BY <1>5, <2>1, Buyers DEF Busy
  <2> QED BY <1>7, <2>1, <2>2 DEF BuyersHold, Busy
<1>11. ForSaleInBoth'   BY <1>1, <1>2, <1>6, <1>7 DEF ForSaleInBoth
<1>12. PaidByBuyer'   BY <1>1, <1>3, <1>4 DEF PaidByBuyer
<1>13. NoPhantomOwner'
  <2> SUFFICES ASSUME NEW q \in Parcel
               PROVE  /\ owner[q] \in Did /\ ~InFlight(q)' => paid[q] = owner[q]
                      /\ row'[q].owner \in Did => paid[q] = row'[q].owner
    BY <1>1 DEF NoPhantomOwner
  <2>1. CASE q = p   BY <1>6, <1>7, <2>1
  <2>2. CASE q # p
    <3>1. InFlight(q) => InFlight(q)'   BY <1>3, <2>2 DEF InFlight
    <3> QED BY <1>7, <2>2, <3>1 DEF NoPhantomOwner
  <2> QED BY <2>1, <2>2
<1>14. SoldIsKept'
  <2> SUFFICES ASSUME NEW q \in Parcel, sold'[q] # Nobody
               PROVE  owner[q] = sold'[q] /\ row'[q].owner = sold'[q]
    BY <1>1 DEF SoldIsKept
  <2>1. CASE q = p   BY <1>8, <2>1
  <2>2. CASE q # p   BY <1>7, <2>2 DEF SoldIsKept
  <2> QED BY <2>1, <2>2
<1>15. ReclaimedIsUnsold'
  <2> SUFFICES ASSUME NEW s \in Scan, scan[s].pc = "reclaimed"
               PROVE  sold'[scan[s].copy.parcel] = Nobody
    BY <1>1 DEF ReclaimedIsUnsold
  <2>1. CASE scan[s].copy.parcel = p
    BY <1>8, <2>1 DEF ReclaimPending
  <2>2. CASE scan[s].copy.parcel # p
    <3>1. scan[s].copy.parcel \in Parcel   BY Sweeps DEF Copy
    <3> QED BY <1>7, <2>2, <3>1 DEF ReclaimedIsUnsold
  <2> QED BY <2>1, <2>2
<1> QED BY <1>9, <1>10, <1>11, <1>12, <1>13, <1>14, <1>15

(* Steps that touch neither owners nor purchases, and take nobody's land.    *)
LEMMA QuietKeeps ==
  ASSUME IInv, UNCHANGED <<owner, row, request, paid, sold>>,
         \A s \in Scan : scan'[s].pc = "reclaimed" => scan'[s] = scan[s]
  PROVE  Purchases' /\ ReclaimedIsUnsold' /\ NoPhantomOwner' /\ SoldIsKept'
<1> USE DEF IInv, Purchases
<1>1. OneBuyer' /\ BuyersHold' /\ ForSaleInBoth' /\ PaidByBuyer'
  BY DEF OneBuyer, BuyersHold, ForSaleInBoth, PaidByBuyer, Busy
<1>2. ReclaimedIsUnsold'   BY DEF ReclaimedIsUnsold
<1>3. NoPhantomOwner' /\ SoldIsKept'   BY DEF NoPhantomOwner, InFlight, SoldIsKept
<1> QED BY <1>1, <1>2, <1>3

LEMMA RestIsQuiet ==
  ASSUME NEW s \in Scan, NEW c PROVE Rest(s, c).pc # "reclaimed"
  BY DEF Rest, Idle

LEMMA TickIsQuiet ==
  ASSUME TypeOK, TickClosed \/ AmendLaw
  PROVE  /\ UNCHANGED <<owner, row, request, paid, sold>>
         /\ \A s \in Scan : scan'[s].pc = "reclaimed" => scan'[s] = scan[s]
<1> USE TypeParts DEF Scans
<1>1. CASE AmendLaw   BY <1>1 DEF AmendLaw
<1>2. CASE TickClosed
  <2> PICK s \in Scan :
          scan' = [scan EXCEPT ![s] =
             IF Copies(wait') = {} THEN Idle
             ELSE [pc |-> "next", tick |-> tick', todo |-> Copies(wait')]]
    BY <1>2, Zenon DEF TickClosed
  <2>1. scan'[s].pc # "reclaimed"   BY DEF Idle
  <2>2. \A q \in Scan : q # s => scan'[q] = scan[q]   OBVIOUS
  <2> QED BY <1>2, <2>1, <2>2 DEF TickClosed
<1> QED BY <1>1, <1>2

LEMMA ChargeIsQuiet ==
  ASSUME TypeOK, NEW s \in Scan,
         UpkeepCharge(s) \/ UpkeepChargeFails(s) \/ UpkeepSettle(s) \/ UpkeepPersistFails(s)
  PROVE  /\ UNCHANGED <<owner, row, request, paid, sold>>
         /\ \A q \in Scan : scan'[q].pc = "reclaimed" => scan'[q] = scan[q]
<1> USE TypeParts DEF Scans
<1>1. UNCHANGED <<owner, row, request, paid, sold>>
  BY DEF UpkeepCharge, UpkeepChargeFails, UpkeepSettle, UpkeepPersistFails
<1>2. scan'[s].pc # "reclaimed" /\ \A q \in Scan : q # s => scan'[q] = scan[q]
  <2>1. CASE UpkeepCharge(s)
    <3> PICK c \in scan[s].todo :
            \/ scan' = [scan EXCEPT ![s] = At(s, "paid", c)]
            \/ scan' = [scan EXCEPT ![s] = At(s, "poor", c)]
      BY <2>1, Zenon DEF UpkeepCharge
    <3> QED BY DEF At
  <2>2. CASE UpkeepChargeFails(s)
    <3> PICK c \in scan[s].todo : scan' = [scan EXCEPT ![s] = Rest(s, c)]
      BY <2>2, Zenon DEF UpkeepChargeFails
    <3> QED BY RestIsQuiet
  <2>3. CASE UpkeepSettle(s)
    <3>1. scan[s].pc = "paid" /\ scan' = [scan EXCEPT ![s].pc = "settled"]
      BY <2>3 DEF UpkeepSettle
    <3>2. scan[s] \in Sweep   BY <3>1, Sweeps
    <3>3. [scan[s] EXCEPT !.pc = "settled"].pc = "settled"   BY <3>2 DEF Sweep
    <3> QED BY <3>1, <3>3
  <2>4. CASE UpkeepPersistFails(s)
    BY <2>4, RestIsQuiet DEF UpkeepPersistFails
  <2> QED BY <2>1, <2>2, <2>3, <2>4
<1> QED BY <1>1, <1>2

(* A missed period, or the reclaim of the parcel from whoever has it.        *)
LEMMA AdvanceKeeps ==
  ASSUME IInv, NEW s \in Scan, UpkeepAdvance(s)
  PROVE  Purchases' /\ ReclaimedIsUnsold' /\ NoPhantomOwner' /\ SoldIsKept'
<1> USE NobodyIsNoOwner, TypeParts DEF IInv, Purchases, Lands, Scans, Histories
<1> PICK c \in Missing(s) :
        IF missed[c.parcel] + 1 < RECLAIM
           THEN /\ scan' = [scan EXCEPT ![s] = At(s, "missed", c)]
                /\ UNCHANGED <<owner, sold>>
           ELSE /\ owner' = [owner EXCEPT ![c.parcel] = Treasury]
                /\ sold' = [sold EXCEPT ![c.parcel] = Nobody]
                /\ scan' = [scan EXCEPT ![s] = At(s, "reclaimed", c)]
  BY Zenon DEF UpkeepAdvance
<1>1. UNCHANGED <<row, request, paid>>   BY DEF UpkeepAdvance
<1>2. scan[s].pc # "idle" /\ c \in Copy   BY Sweeps DEF Missing
<1>3. CASE missed[c.parcel] + 1 < RECLAIM
  <2>1. \A q \in Scan : scan'[q].pc = "reclaimed" => scan'[q] = scan[q]
    BY <1>3 DEF At
  <2> QED BY <1>1, <1>3, <2>1, QuietKeeps
<1>4. CASE ~(missed[c.parcel] + 1 < RECLAIM)
  <2> DEFINE p == c.parcel
  <2>1. /\ p \in Parcel
        /\ owner' = [owner EXCEPT ![p] = Treasury]
        /\ sold' = [sold EXCEPT ![p] = Nobody]
        /\ scan' = [scan EXCEPT ![s] = At(s, "reclaimed", c)]
    BY <1>2, <1>4 DEF Copy
  <2>2. OneBuyer' /\ PaidByBuyer'   BY <1>1 DEF OneBuyer, PaidByBuyer, Busy
  <2>3. BuyersHold'
    <3> SUFFICES ASSUME NEW r \in Request, request[r].pc # "idle"
                 PROVE  /\ owner'[request[r].parcel] \in {request[r].did, Treasury}
                        /\ row[request[r].parcel].owner = Nobody
      BY <1>1 DEF BuyersHold, Busy
    <3>1. request[r].parcel \in Parcel   BY Buyers
    <3> QED BY <2>1, <3>1 DEF BuyersHold, Busy
  <2>4. ForSaleInBoth'   BY <1>1, <2>1 DEF ForSaleInBoth
  <2>5. NoPhantomOwner'   BY <1>1, <2>1 DEF NoPhantomOwner, InFlight
  <2>6. SoldIsKept'   BY <1>1, <2>1 DEF SoldIsKept
  <2>7. ReclaimedIsUnsold'
    <3> SUFFICES ASSUME NEW q \in Scan, scan'[q].pc = "reclaimed"
                 PROVE  sold'[scan'[q].copy.parcel] = Nobody
      BY DEF ReclaimedIsUnsold
    <3>1. CASE q = s   BY <2>1, <3>1 DEF At
    <3>2. CASE q # s
      <4>1. scan'[q] = scan[q] /\ scan[q].copy.parcel \in Parcel
        BY <2>1, <3>2, Sweeps DEF Copy
      <4> QED BY <2>1, <4>1 DEF ReclaimedIsUnsold
    <3> QED BY <3>1, <3>2
  <2> QED BY <2>2, <2>3, <2>4, <2>5, <2>6, <2>7
<1> QED BY <1>3, <1>4

(* The row of a reclaimed parcel loses its owner, who had it no longer.      *)
LEMMA UpkeepPersistKeeps ==
  ASSUME IInv, NEW s \in Scan, UpkeepPersist(s)
  PROVE  Purchases' /\ ReclaimedIsUnsold' /\ NoPhantomOwner' /\ SoldIsKept'
<1> USE NobodyIsNoOwner, TypeParts DEF IInv, Purchases, Lands, Scans, Histories
<1> DEFINE c == scan[s].copy
           p == c.parcel
<1>1. /\ UNCHANGED <<owner, request, paid, sold>>
      /\ scan' = [scan EXCEPT ![s] = Rest(s, c)]
      /\ scan[s].pc \in {"settled", "missed", "reclaimed"}
  BY DEF UpkeepPersist
<1>2. p \in Parcel   BY <1>1, Sweeps DEF Copy
<1>3. \A q \in Parcel :
         \/ row'[q].owner = row[q].owner
         \/ q = p /\ scan[s].pc = "reclaimed" /\ row'[q].owner = Nobody
  BY <1>2 DEF UpkeepPersist
<1>4. scan[s].pc = "reclaimed" => sold[p] = Nobody   BY DEF ReclaimedIsUnsold
<1>5. OneBuyer' /\ PaidByBuyer'   BY <1>1 DEF OneBuyer, PaidByBuyer, Busy
<1>6. BuyersHold'
  <2> SUFFICES ASSUME NEW r \in Request, request[r].pc # "idle"
               PROVE  /\ owner[request[r].parcel] \in {request[r].did, Treasury}
                      /\ row'[request[r].parcel].owner = Nobody
    BY <1>1 DEF BuyersHold, Busy
  <2>1. request[r].parcel \in Parcel   BY Buyers
  <2> QED BY <1>3, <2>1 DEF BuyersHold, Busy
<1>7. ForSaleInBoth'   BY <1>1, <1>3 DEF ForSaleInBoth
<1>8. NoPhantomOwner'   BY <1>1, <1>3 DEF NoPhantomOwner, InFlight
<1>9. SoldIsKept'   BY <1>1, <1>3, <1>4 DEF SoldIsKept
<1>10. ReclaimedIsUnsold'   BY <1>1, RestIsQuiet DEF ReclaimedIsUnsold
<1> QED BY <1>5, <1>6, <1>7, <1>8, <1>9, <1>10

(* After a restart nothing is under way and memory is what the table says.   *)
LEMMA RestartKeeps ==
  ASSUME IInv, Restart
  PROVE  Purchases' /\ ReclaimedIsUnsold' /\ NoPhantomOwner' /\ SoldIsKept'
<1> USE NobodyIsNoOwner, TypeParts DEF IInv, Purchases
<1>1. /\ UNCHANGED <<row, paid, sold>>
      /\ \A p \in Parcel : owner'[p] = row[p].owner
      /\ \A r \in Request : request'[r].pc = "idle"
      /\ \A s \in Scan : scan'[s].pc = "idle"
  BY DEF Restart, Idle
<1>2. OneBuyer' /\ BuyersHold' /\ PaidByBuyer'
  BY <1>1 DEF OneBuyer, BuyersHold, PaidByBuyer, Busy
<1>3. ForSaleInBoth'   BY <1>1 DEF ForSaleInBoth
<1>4. ReclaimedIsUnsold'   BY <1>1 DEF ReclaimedIsUnsold
<1>5. NoPhantomOwner'   BY <1>1 DEF NoPhantomOwner
<1>6. SoldIsKept'   BY <1>1 DEF SoldIsKept
<1> QED BY <1>2, <1>3, <1>4, <1>5, <1>6

LEMMA InvStep == ASSUME IInv, [Next]_vars PROVE IInv'
<1> DEFINE Kept == Purchases' /\ ReclaimedIsUnsold' /\ NoPhantomOwner' /\ SoldIsKept'
<1>1. TypeOK /\ TypeOK'   BY TypesStep DEF IInv
<1>2. Kept
  <2>1. ASSUME NEW r \in Request, NEW d \in Did, NEW p \in Parcel, Buy(r, d, p) PROVE Kept
    BY <2>1, BuyKeeps
  <2>2. ASSUME NEW r \in Request, Buying(r) PROVE Kept
    <3>1. \/ BuyCharge(r) \/ BuyRefused(r) \/ BuyReplyLost(r)
          \/ BuyRelease(r) \/ BuyPersist(r) \/ BuyPersistFails(r)
      BY <2>2, Zenon DEF Buying
    <3> QED BY <3>1, ChargeKeeps, ReleaseKeeps, PersistKeeps
  <2>3. ASSUME TickClosed \/ AmendLaw PROVE Kept
    BY <1>1, <2>3, TickIsQuiet, QuietKeeps
  <2>4. ASSUME NEW s \in Scan, Upkeep(s) PROVE Kept
    <3>1. \/ UpkeepCharge(s) \/ UpkeepChargeFails(s) \/ UpkeepSettle(s)
          \/ UpkeepAdvance(s) \/ UpkeepPersist(s) \/ UpkeepPersistFails(s)
      BY <2>4, Zenon DEF Upkeep
    <3>2. CASE UpkeepAdvance(s)   BY <3>2, AdvanceKeeps
    <3>3. CASE UpkeepPersist(s)   BY <3>3, UpkeepPersistKeeps
    <3>4. CASE UpkeepCharge(s) \/ UpkeepChargeFails(s) \/ UpkeepSettle(s)
               \/ UpkeepPersistFails(s)
      BY <1>1, <3>4, ChargeIsQuiet, QuietKeeps
    <3> QED BY <3>1, <3>2, <3>3, <3>4
  <2>5. CASE Restart   BY <2>5, RestartKeeps
  <2>6. CASE UNCHANGED vars   BY <2>6, QuietKeeps
  <2> QED BY <2>1, <2>2, <2>3, <2>4, <2>5, <2>6, Steps
<1> QED BY <1>1, <1>2 DEF IInv

THEOREM Invariance == Spec => []IInv
  BY InvInit, InvStep, PTL DEF Spec

(* civic-parcels.ts:176: a failed charge never leaves a phantom owner, in    *)
(* memory or in the table, whatever else runs, fails or restarts.           *)
THEOREM OwnersHavePaid == Spec => []NoPhantomOwner
<1>1. IInv => NoPhantomOwner   BY DEF IInv
<1> QED BY <1>1, Invariance, PTL

(* A purchase that was answered with 201 survives restarts and whatever      *)
(* other requests and scans do, until a scan takes the parcel away.          *)
THEOREM SalesAreKept == Spec => []SoldIsKept
<1>1. IInv => SoldIsKept   BY DEF IInv
<1> QED BY <1>1, Invariance, PTL

-----------------------------------------------------------------------------
(* The standing of a citizen.                                               *)
HIDE DEF vars, land, history
USE DEF citizen, memory, court, standingVars

(* The sorts of requests are told apart from "none under way". *)
LEMMA NoneIsNoRecord == None \notin Filed /\ None \notin Execution /\ None \notin Resolution
  BY NoneAssumption

(* Every step of the citizen's sockets, heartbeats and the scan leaves the *)
(* court alone.                                                            *)
PresenceStep ==
  \/ Connect \/ Disconnect \/ GraceExpires \/ AwayLands
  \/ Heartbeat \/ HeartbeatLands \/ TimePasses \/ Escalation

CourtStep ==
  \/ \E c \in Charge : FileCharge(c) \/ \E convicted \in BOOLEAN : Convict(c, convicted)
  \/ \E e \in Executor : \/ \E c \in Charge : ExecuteRead(e, c)
                         \/ ExecuteFreeze(e) \/ ExecuteRecord(e) \/ ExecuteMark(e)
  \/ \E s \in DOMAIN sanctions : FileAppeal(s)
  \/ \E j \in Judge : \/ \E s \in DOMAIN sanctions, o \in BOOLEAN : JudgeRead(j, s, o)
                      \/ JudgeResolve(j) \/ JudgeUnfreeze(j)

LEMMA StepKinds == ASSUME StandingNext PROVE PresenceStep \/ CourtStep \/ Crash
  BY DEF StandingNext, PresenceStep, CourtStep

LEMMA PresenceLeavesCourt == ASSUME PresenceStep PROVE UNCHANGED court
  BY DEF PresenceStep, Connect, Disconnect, GraceExpires, AwayLands, Heartbeat,
         HeartbeatLands, TimePasses, Escalation, ListDeparted, Depart, FreezeDeparted, Dissolve,
         ListAbsent, MarkAbsent

-----------------------------------------------------------------------------
(* Types, in four parts: flags, phases, counts, and the tables of the      *)
(* court.                                                                  *)
Flags ==
  /\ tracked \in BOOLEAN /\ frozen \in BOOLEAN /\ businesses \in BOOLEAN
  /\ presumed \in BOOLEAN /\ timer \in BOOLEAN

Phases ==
  /\ presence \in {"awake", "away", "absent", "presumed_departed"}
  /\ seen \in {"never", "recently", "over 30 days ago", "over a year ago"}
  /\ escalation \in {"idle", "depart", "freeze", "dissolve", "list absent", "absent"}

Counts == connections \in Nat /\ away \in Nat /\ beats \in Nat /\ crashes \in Nat

AppealStatus == {"none", "pending", "upheld", "overturned"}

Tables ==
  /\ charge \in [Charge -> Filed \cup {None}]
  /\ executing \in [Executor -> Execution \cup {None}]
  /\ sanctions \in Seq(Charge)
  /\ appeal \in Seq(AppealStatus) /\ Len(appeal) = Len(sanctions)
  /\ judging \in [Judge -> Resolution \cup {None}]

LEMMA StandingParts == /\ StandingTypeOK <=> Flags /\ Phases /\ Counts /\ Tables
                       /\ StandingTypeOK' <=> Flags' /\ Phases' /\ Counts' /\ Tables'
<1>1. StandingTypeOK <=> Flags /\ Phases /\ Counts /\ Tables
  BY Zenon DEF StandingTypeOK, Flags, Phases, Counts, Tables, AppealStatus
<1>2. StandingTypeOK' <=> Flags' /\ Phases' /\ Counts' /\ Tables'
  BY Zenon DEF StandingTypeOK, Flags, Phases, Counts, Tables, AppealStatus
<1> QED BY <1>1, <1>2

LEMMA StandingTypesInit == ASSUME StandingInit PROVE StandingTypeOK
<1>1. Flags   BY TrackingAssumption, Zenon DEF StandingInit, Flags
<1>2. Phases   BY Zenon DEF StandingInit, Phases
<1>3. Counts   BY DEF StandingInit, Counts
<1>4. Tables   BY DEF StandingInit, Tables, NothingUnderWay
<1> QED BY <1>1, <1>2, <1>3, <1>4, StandingParts

LEMMA FlagsStep == ASSUME Flags, StandingNext PROVE Flags'
<1>1. CASE PresenceStep
  <2>1. CASE Connect \/ GraceExpires \/ Heartbeat
    BY <2>1, Zenon DEF Flags, Connect, GraceExpires, Heartbeat
  <2>2. CASE Disconnect
    <3>1. timer' \in BOOLEAN   BY <2>2, Zenon DEF Disconnect
    <3> QED BY <2>2, <3>1, Zenon DEF Flags, Disconnect
  <2>3. CASE AwayLands \/ HeartbeatLands \/ TimePasses
    BY <2>3, Zenon DEF Flags, AwayLands, HeartbeatLands, TimePasses
  <2>4. CASE Escalation
    BY <2>4, Zenon DEF Flags, Escalation, ListDeparted, Depart, FreezeDeparted, MarkFrozen, Dissolve,
                       ListAbsent, MarkAbsent
  <2> QED BY <1>1, <2>1, <2>2, <2>3, <2>4 DEF PresenceStep
<1>2. CASE CourtStep
  <2>1. ASSUME NEW c \in Charge,
               FileCharge(c) \/ \E convicted \in BOOLEAN : Convict(c, convicted)
        PROVE  Flags'
    BY <2>1, Zenon DEF Flags, FileCharge, Convict
  <2>2. ASSUME NEW e \in Executor,
               \/ \E c \in Charge : ExecuteRead(e, c)
               \/ ExecuteFreeze(e) \/ ExecuteRecord(e) \/ ExecuteMark(e)
        PROVE  Flags'
    BY <2>2, Zenon DEF Flags, ExecuteRead, ExecuteFreeze, ExecuteRecord, ExecuteMark, MarkFrozen
  <2>3. ASSUME NEW s \in DOMAIN sanctions, FileAppeal(s) PROVE Flags'
    BY <2>3, Zenon DEF Flags, FileAppeal
  <2>4. ASSUME NEW j \in Judge,
               \/ \E s \in DOMAIN sanctions, o \in BOOLEAN : JudgeRead(j, s, o)
               \/ JudgeResolve(j) \/ JudgeUnfreeze(j)
        PROVE  Flags'
    BY <2>4, Zenon DEF Flags, JudgeRead, JudgeResolve, JudgeUnfreeze, MarkUnfrozen
  <2> QED BY <1>2, <2>1, <2>2, <2>3, <2>4 DEF CourtStep
<1>3. CASE Crash   BY <1>3, Zenon DEF Flags, Crash
<1> QED BY <1>1, <1>2, <1>3, StepKinds

LEMMA PhasesStep == ASSUME Phases, StandingNext PROVE Phases'
<1>1. CASE PresenceStep
  <2>1. CASE Connect \/ GraceExpires \/ Heartbeat
    BY <2>1, Zenon DEF Phases, Connect, GraceExpires, Heartbeat
  <2>2. CASE Disconnect   BY <2>2, Zenon DEF Phases, Disconnect
  <2>3. CASE AwayLands \/ HeartbeatLands \/ TimePasses
    BY <2>3, Zenon DEF Phases, AwayLands, HeartbeatLands, TimePasses
  <2>4. CASE Escalation
    BY <2>4, Zenon DEF Phases, Escalation, ListDeparted, Depart, FreezeDeparted, MarkFrozen, Dissolve,
                       ListAbsent, MarkAbsent
  <2> QED BY <1>1, <2>1, <2>2, <2>3, <2>4 DEF PresenceStep
<1>2. CASE CourtStep
  <2>1. ASSUME NEW c \in Charge,
               FileCharge(c) \/ \E convicted \in BOOLEAN : Convict(c, convicted)
        PROVE  Phases'
    BY <2>1, Zenon DEF Phases, FileCharge, Convict
  <2>2. ASSUME NEW e \in Executor,
               \/ \E c \in Charge : ExecuteRead(e, c)
               \/ ExecuteFreeze(e) \/ ExecuteRecord(e) \/ ExecuteMark(e)
        PROVE  Phases'
    BY <2>2, Zenon DEF Phases, ExecuteRead, ExecuteFreeze, ExecuteRecord, ExecuteMark, MarkFrozen
  <2>3. ASSUME NEW s \in DOMAIN sanctions, FileAppeal(s) PROVE Phases'
    BY <2>3, Zenon DEF Phases, FileAppeal
  <2>4. ASSUME NEW j \in Judge,
               \/ \E s \in DOMAIN sanctions, o \in BOOLEAN : JudgeRead(j, s, o)
               \/ JudgeResolve(j) \/ JudgeUnfreeze(j)
        PROVE  Phases'
    BY <2>4, Zenon DEF Phases, JudgeRead, JudgeResolve, JudgeUnfreeze, MarkUnfrozen
  <2> QED BY <1>2, <2>1, <2>2, <2>3, <2>4 DEF CourtStep
<1>3. CASE Crash   BY <1>3, Zenon DEF Phases, Crash
<1> QED BY <1>1, <1>2, <1>3, StepKinds

LEMMA CountsStep == ASSUME Counts, StandingNext PROVE Counts'
<1>1. CASE PresenceStep
  <2>1. CASE Connect
    <3>1. connections' = connections + 1 /\ away' = away /\ beats' = beats /\ crashes' = crashes
      BY <2>1, Zenon DEF Connect
    <3> QED BY <3>1 DEF Counts
  <2>2. CASE Disconnect
    <3>1. /\ connections > 0 /\ connections' = connections - 1
          /\ away' = away /\ beats' = beats /\ crashes' = crashes
      BY <2>2, Zenon DEF Disconnect
    <3> QED BY <3>1 DEF Counts
  <2>3. CASE GraceExpires
    <3>1. away' = away + 1 /\ connections' = connections /\ beats' = beats /\ crashes' = crashes
      BY <2>3, Zenon DEF GraceExpires
    <3> QED BY <3>1 DEF Counts
  <2>4. CASE Heartbeat
    <3>1. beats' = beats + 1 /\ connections' = connections /\ away' = away /\ crashes' = crashes
      BY <2>4, Zenon DEF Heartbeat
    <3> QED BY <3>1 DEF Counts
  <2>5. CASE AwayLands
    <3>1. /\ away > 0 /\ away' = away - 1
          /\ connections' = connections /\ beats' = beats /\ crashes' = crashes
      BY <2>5, Zenon DEF AwayLands
    <3> QED BY <3>1 DEF Counts
  <2>6. CASE HeartbeatLands
    <3>1. /\ beats > 0 /\ beats' = beats - 1
          /\ connections' = connections /\ away' = away /\ crashes' = crashes
      BY <2>6, Zenon DEF HeartbeatLands
    <3> QED BY <3>1 DEF Counts
  <2>7. CASE TimePasses \/ Escalation
    BY <2>7, Zenon DEF Counts, TimePasses, Escalation, ListDeparted, Depart, FreezeDeparted, Dissolve,
                       ListAbsent, MarkAbsent
  <2> QED BY <1>1, <2>1, <2>2, <2>3, <2>4, <2>5, <2>6, <2>7 DEF PresenceStep
<1>2. CASE CourtStep
  <2>1. ASSUME NEW c \in Charge,
               FileCharge(c) \/ \E convicted \in BOOLEAN : Convict(c, convicted)
        PROVE  Counts'
    BY <2>1, Zenon DEF Counts, FileCharge, Convict
  <2>2. ASSUME NEW e \in Executor,
               \/ \E c \in Charge : ExecuteRead(e, c)
               \/ ExecuteFreeze(e) \/ ExecuteRecord(e) \/ ExecuteMark(e)
        PROVE  Counts'
    BY <2>2, Zenon DEF Counts, ExecuteRead, ExecuteFreeze, ExecuteRecord, ExecuteMark, MarkFrozen
  <2>3. ASSUME NEW s \in DOMAIN sanctions, FileAppeal(s) PROVE Counts'
    BY <2>3, Zenon DEF Counts, FileAppeal
  <2>4. ASSUME NEW j \in Judge,
               \/ \E s \in DOMAIN sanctions, o \in BOOLEAN : JudgeRead(j, s, o)
               \/ JudgeResolve(j) \/ JudgeUnfreeze(j)
        PROVE  Counts'
    BY <2>4, Zenon DEF Counts, JudgeRead, JudgeResolve, JudgeUnfreeze, MarkUnfrozen
  <2> QED BY <1>2, <2>1, <2>2, <2>3, <2>4 DEF CourtStep
<1>3. CASE Crash
  <2>1. crashes' = crashes + 1 /\ connections' = 0 /\ away' = 0 /\ beats' = 0
    BY <1>3, Zenon DEF Crash
  <2> QED BY <2>1 DEF Counts
<1> QED BY <1>1, <1>2, <1>3, StepKinds

LEMMA TablesCharge ==
  ASSUME Tables, NEW c \in Charge,
         FileCharge(c) \/ \E convicted \in BOOLEAN : Convict(c, convicted)
  PROVE  Tables'
<1>1. CASE FileCharge(c)   BY <1>1 DEF Tables, FileCharge, Filed
<1>2. ASSUME NEW b \in BOOLEAN, Convict(c, b) PROVE Tables'
  <2> DEFINE status == IF b THEN "convicted" ELSE "acquitted"
  <2>1. charge[c] \in Filed   BY <1>2 DEF Tables, Convict
  <2>2. status \in {"convicted", "acquitted"}   BY Zenon
  <2>3. charge' = [charge EXCEPT ![c] = [charge[c] EXCEPT !.status = status]]
    BY <1>2, Zenon DEF Convict
  <2>4. UNCHANGED <<executing, sanctions, appeal, judging>>   BY <1>2 DEF Convict
  <2> HIDE DEF status
  <2>5. [charge[c] EXCEPT !.status = status] \in Filed   BY <2>1, <2>2 DEF Filed
  <2> QED BY <2>3, <2>4, <2>5 DEF Tables
<1> QED BY <1>1, <1>2

LEMMA TablesExecute ==
  ASSUME Tables, NoSanctionWithoutConviction, NEW e \in Executor,
         \/ \E c \in Charge : ExecuteRead(e, c)
         \/ ExecuteFreeze(e) \/ ExecuteRecord(e) \/ ExecuteMark(e)
  PROVE  Tables'
<1>1. ASSUME NEW c \in Charge, ExecuteRead(e, c) PROVE Tables'
  <2> DEFINE next == IF charge[c].kind = "freeze" THEN "freeze" ELSE "record"
  <2>1. [charge |-> c, next |-> next] \in Execution   BY DEF Execution
  <2>2. executing' = [executing EXCEPT ![e] = [charge |-> c, next |-> next]]
    BY <1>1 DEF ExecuteRead
  <2>3. UNCHANGED <<charge, sanctions, appeal, judging>>   BY <1>1 DEF ExecuteRead
  <2> HIDE DEF next
  <2> QED BY <2>1, <2>2, <2>3 DEF Tables
<1>2. ASSUME executing[e] # None PROVE executing[e] \in Execution
  BY <1>2 DEF Tables
<1>3. CASE ExecuteFreeze(e)
  <2>1. executing[e] \in Execution   BY <1>3, <1>2 DEF ExecuteFreeze, IsNext
  <2>2. [executing[e] EXCEPT !.next = "record"] \in Execution   BY <2>1 DEF Execution
  <2> QED BY <1>3, <2>2 DEF Tables, ExecuteFreeze
<1>4. CASE ExecuteRecord(e)
  <2>1. executing[e] \in Execution   BY <1>4, <1>2 DEF ExecuteRecord, IsNext
  <2>2. [executing[e] EXCEPT !.next = "execute"] \in Execution   BY <2>1 DEF Execution
  <2>3. executing[e].charge \in Charge   BY <2>1 DEF Execution
  <2>4. "none" \in AppealStatus   BY DEF AppealStatus
  <2>5. sanctions' \in Seq(Charge) /\ Len(sanctions') = Len(sanctions) + 1
    BY <1>4, <2>3 DEF Tables, ExecuteRecord
  <2>6. appeal' \in Seq(AppealStatus) /\ Len(appeal') = Len(appeal) + 1
    BY <1>4, <2>4 DEF Tables, ExecuteRecord
  <2> QED BY <1>4, <2>2, <2>5, <2>6 DEF Tables, ExecuteRecord
<1>5. CASE ExecuteMark(e)
  <2> DEFINE c == executing[e].charge
  <2>1. c \in Charge   BY <1>5, <1>2 DEF ExecuteMark, IsNext, Execution
  <2>2. charge' = [charge EXCEPT ![c] = [charge[c] EXCEPT !.status = "executed"]]
    BY <1>5 DEF ExecuteMark
  <2>3. executing' = [executing EXCEPT ![e] = None]   BY <1>5 DEF ExecuteMark
  <2>4. UNCHANGED <<sanctions, appeal, judging>>   BY <1>5 DEF ExecuteMark
  <2>5. charge[c] # None   BY <1>5 DEF ExecuteMark, IsNext, NoSanctionWithoutConviction, Convicted
  <2>6. charge[c] \in Filed   BY <2>1, <2>5 DEF Tables
  <2>7. [charge[c] EXCEPT !.status = "executed"] \in Filed   BY <2>6 DEF Filed
  <2> HIDE DEF c
  <2> QED BY <2>2, <2>3, <2>4, <2>7 DEF Tables
<1> QED BY <1>1, <1>3, <1>4, <1>5

LEMMA TablesAppeal ==
  ASSUME Tables, NEW s \in DOMAIN sanctions, FileAppeal(s) PROVE Tables'
<1>1. s \in DOMAIN appeal   BY DEF Tables
<1>2. "pending" \in AppealStatus   BY DEF AppealStatus
<1> QED BY <1>1, <1>2 DEF Tables, FileAppeal

LEMMA TablesJudge ==
  ASSUME Tables, NEW j \in Judge,
         \/ \E s \in DOMAIN sanctions, o \in BOOLEAN : JudgeRead(j, s, o)
         \/ JudgeResolve(j) \/ JudgeUnfreeze(j)
  PROVE  Tables'
<1>1. ASSUME NEW s \in DOMAIN sanctions, NEW o \in BOOLEAN, JudgeRead(j, s, o)
      PROVE  Tables'
  <2>1. s \in Nat   BY DEF Tables
  <2>2. [sanction |-> s, overturn |-> o, next |-> "resolve"] \in Resolution
    BY <2>1, Zenon DEF Resolution
  <2> QED BY <1>1, <2>2 DEF Tables, JudgeRead
<1>2. ASSUME judging[j] # None PROVE judging[j] \in Resolution
  BY <1>2 DEF Tables
<1>3. CASE JudgeResolve(j)
  <2> DEFINE s == judging[j].sanction
             status == IF judging[j].overturn THEN "overturned" ELSE "upheld"
             new == IF appeal[s] = "pending" THEN status ELSE appeal[s]
             rest == IF judging[j].overturn /\ IsFreeze(s)
                     THEN [judging[j] EXCEPT !.next = "unfreeze"] ELSE None
  <2>1. judging[j] \in Resolution   BY <1>3, <1>2 DEF JudgeResolve
  <2>2. /\ appeal' = [appeal EXCEPT ![s] = new]
        /\ judging' = [judging EXCEPT ![j] = rest]
        /\ UNCHANGED <<charge, executing, sanctions>>
    BY <1>3 DEF JudgeResolve
  <2>3. status \in AppealStatus   BY Zenon DEF AppealStatus
  <2>4. s \in DOMAIN appeal => new \in AppealStatus   BY <2>3 DEF Tables
  <2>5. rest \in Resolution \cup {None}   BY <2>1 DEF Resolution
  <2> HIDE DEF s, status, new, rest
  <2>6. appeal' \in Seq(AppealStatus) /\ Len(appeal') = Len(appeal)
    <3>1. CASE s \in DOMAIN appeal   BY <2>2, <2>4, <3>1 DEF Tables
    <3>2. CASE s \notin DOMAIN appeal
      <4>1. appeal' = appeal   BY <2>2, <3>2 DEF Tables
      <4> QED BY <4>1 DEF Tables
    <3> QED BY <3>1, <3>2
  <2> QED BY <2>2, <2>5, <2>6 DEF Tables
<1>4. CASE JudgeUnfreeze(j)   BY <1>4 DEF Tables, JudgeUnfreeze
<1> QED BY <1>1, <1>3, <1>4

LEMMA TablesStep ==
  ASSUME Tables, NoSanctionWithoutConviction, [StandingNext]_standingVars PROVE Tables'
<1>1. CASE PresenceStep   BY <1>1, PresenceLeavesCourt DEF Tables
<1>2. CASE CourtStep
  BY <1>2, TablesCharge, TablesExecute, TablesAppeal, TablesJudge DEF CourtStep
<1>3. CASE Crash   BY <1>3 DEF Tables, Crash, NothingUnderWay
<1>4. CASE UNCHANGED standingVars   BY <1>4 DEF Tables
<1> QED BY <1>1, <1>2, <1>3, <1>4, StepKinds

-----------------------------------------------------------------------------
(* Convictions *)

(* Nothing takes a conviction back, and the sanction a charge asks for     *)
(* never changes.                                                          *)
LEMMA ConvictionIsFinal ==
  ASSUME Tables, [StandingNext]_standingVars, NEW c \in Charge, Convicted(c)
  PROVE  Convicted(c)' /\ charge'[c].kind = charge[c].kind
<1>1. charge[c] \in Filed   BY NoneIsNoRecord DEF Tables, Convicted
<1>2. CASE UNCHANGED charge   BY <1>2 DEF Convicted
<1>3. ASSUME NEW d \in Charge, FileCharge(d)
      PROVE  Convicted(c)' /\ charge'[c].kind = charge[c].kind
  <2>1. d # c   BY <1>3 DEF FileCharge, Convicted
  <2> QED BY <1>3, <2>1 DEF FileCharge, Convicted, Tables
<1>4. ASSUME NEW d \in Charge, NEW b \in BOOLEAN, Convict(d, b)
      PROVE  Convicted(c)' /\ charge'[c].kind = charge[c].kind
  <2>1. d # c   BY <1>4 DEF Convict, Convicted
  <2> QED BY <1>4, <2>1 DEF Convict, Convicted, Tables
<1>5. ASSUME NEW e \in Executor, ExecuteMark(e)
      PROVE  Convicted(c)' /\ charge'[c].kind = charge[c].kind
  <2>1. charge' = [charge EXCEPT ![executing[e].charge].status = "executed"]
    BY <1>5 DEF ExecuteMark
  <2>2. CASE executing[e].charge = c
    <3>1. charge'[c] = [charge[c] EXCEPT !.status = "executed"]
      BY <2>1, <2>2 DEF Tables
    <3>2. charge'[c].status = "executed" /\ charge'[c].kind = charge[c].kind /\ charge'[c] \in Filed
      BY <3>1, <1>1 DEF Filed
    <3> QED BY <3>2, NoneIsNoRecord DEF Convicted
  <2>3. CASE executing[e].charge # c
    <3>1. charge'[c] = charge[c]   BY <2>1, <2>3 DEF Tables
    <3> QED BY <3>1 DEF Convicted
  <2> QED BY <2>2, <2>3
<1>6. CASE PresenceStep   BY <1>6, <1>2, PresenceLeavesCourt
<1>7. CASE CourtStep
  <2>1. ASSUME NEW e \in Executor,
               (\E d \in Charge : ExecuteRead(e, d)) \/ ExecuteFreeze(e) \/ ExecuteRecord(e)
        PROVE  UNCHANGED charge
    BY <2>1 DEF ExecuteRead, ExecuteFreeze, ExecuteRecord
  <2>2. ASSUME NEW s \in DOMAIN sanctions, FileAppeal(s) PROVE UNCHANGED charge
    BY <2>2 DEF FileAppeal
  <2>3. ASSUME NEW j \in Judge,
               \/ \E s \in DOMAIN sanctions, o \in BOOLEAN : JudgeRead(j, s, o)
               \/ JudgeResolve(j) \/ JudgeUnfreeze(j)
        PROVE  UNCHANGED charge
    BY <2>3 DEF JudgeRead, JudgeResolve, JudgeUnfreeze
  <2> QED BY <1>7, <1>2, <1>3, <1>4, <1>5, <2>1, <2>2, <2>3 DEF CourtStep
<1>8. CASE Crash \/ UNCHANGED standingVars   BY <1>8, <1>2 DEF Crash
<1> QED BY <1>6, <1>7, <1>8, StepKinds

(* NoSanctionWithoutConviction is inductive with the types. *)
LEMMA ConvictionStep ==
  ASSUME Tables, NoSanctionWithoutConviction, [StandingNext]_standingVars
  PROVE  NoSanctionWithoutConviction'
<1> USE DEF NoSanctionWithoutConviction
<1>1. ASSUME NEW c \in Charge, Convicted(c) PROVE Convicted(c)'
  BY <1>1, ConvictionIsFinal
<1>2. \A s \in DOMAIN sanctions : sanctions[s] \in Charge   BY DEF Tables
<1>3. \A e \in Executor : executing[e] # None => executing[e].charge \in Charge
  BY DEF Tables, Execution
<1>4. ASSUME sanctions' = sanctions,
             \A e \in Executor : executing'[e] = executing[e] \/ executing'[e] = None
      PROVE  NoSanctionWithoutConviction'
  BY <1>1, <1>2, <1>3, <1>4
<1>5. CASE PresenceStep   BY <1>5, <1>4, PresenceLeavesCourt
<1>6. CASE Crash \/ UNCHANGED standingVars   BY <1>6, <1>4 DEF Crash, NothingUnderWay
<1>7. ASSUME NEW c \in Charge,
             FileCharge(c) \/ \E convicted \in BOOLEAN : Convict(c, convicted)
      PROVE  NoSanctionWithoutConviction'
  BY <1>7, <1>4 DEF FileCharge, Convict
<1>8. ASSUME NEW e \in Executor, NEW c \in Charge, ExecuteRead(e, c)
      PROVE  NoSanctionWithoutConviction'
  <2>1. Convicted(c)'   BY <1>8, <1>1 DEF ExecuteRead, Convicted
  <2>2. executing'[e].charge = c /\ \A f \in Executor \ {e} : executing'[f] = executing[f]
    BY <1>8 DEF ExecuteRead, Tables
  <2>3. sanctions' = sanctions   BY <1>8 DEF ExecuteRead
  <2> QED BY <2>1, <2>2, <2>3, <1>1, <1>2, <1>3
<1>9. ASSUME NEW e \in Executor, IsNext(e, "freeze") \/ IsNext(e, "record"),
             executing' = [executing EXCEPT ![e].next = executing'[e].next],
             \/ sanctions' = sanctions
             \/ sanctions' = Append(sanctions, executing[e].charge)
      PROVE  NoSanctionWithoutConviction'
  <2>1. executing[e] \in Execution   BY <1>9 DEF Tables, IsNext
  <2>2. executing'[e].charge = executing[e].charge /\ \A f \in Executor \ {e} : executing'[f] = executing[f]
    BY <1>9, <2>1 DEF Tables, Execution
  <2>3. PICK c \in Charge : c = executing[e].charge   BY <2>1 DEF Execution
  <2>4. Convicted(c)'   BY <2>3, <1>1, <1>9 DEF IsNext
  <2>5. \A f \in Executor : executing'[f] # None => Convicted(executing[f].charge)'
    <3>1. ASSUME NEW f \in Executor \ {e}, executing'[f] # None
          PROVE  Convicted(executing[f].charge)'
      <4>1. PICK d \in Charge : d = executing[f].charge   BY <3>1, <2>2, <1>3
      <4>2. Convicted(d)'   BY <4>1, <3>1, <2>2, <1>1
      <4> QED BY <4>1, <4>2, <2>2 DEF Convicted
    <3>2. Convicted(executing[e].charge)'   BY <2>2, <2>3, <2>4 DEF Convicted
    <3> QED BY <3>1, <3>2
  <2>6. ASSUME NEW s \in DOMAIN sanctions' PROVE Convicted(sanctions[s])'
    <3>1. ASSUME s \in DOMAIN sanctions, sanctions'[s] = sanctions[s]
          PROVE  Convicted(sanctions[s])'
      <4>1. PICK d \in Charge : d = sanctions[s]   BY <3>1, <1>2
      <4>2. Convicted(d)'   BY <4>1, <3>1, <1>1
      <4> QED BY <4>1, <4>2, <3>1 DEF Convicted
    <3>2. CASE sanctions' = sanctions   BY <3>1, <3>2
    <3>3. CASE sanctions' = Append(sanctions, executing[e].charge)
      <4>1. (s \in DOMAIN sanctions /\ sanctions'[s] = sanctions[s]) \/ sanctions'[s] = c
        BY <3>3, <2>3 DEF Tables
      <4> QED BY <4>1, <3>1, <2>4 DEF Convicted
    <3> QED BY <3>2, <3>3, <1>9
  <2> QED BY <2>5, <2>6
<1>10. ASSUME NEW e \in Executor, ExecuteFreeze(e) PROVE NoSanctionWithoutConviction'
  <2>1. executing[e] \in Execution   BY <1>10 DEF Tables, ExecuteFreeze, IsNext
  <2> QED BY <1>10, <1>9, <2>1 DEF ExecuteFreeze, Tables, Execution
<1>11. ASSUME NEW e \in Executor, ExecuteRecord(e) PROVE NoSanctionWithoutConviction'
  <2>1. executing[e] \in Execution   BY <1>11 DEF Tables, ExecuteRecord, IsNext
  <2> QED BY <1>11, <1>9, <2>1 DEF ExecuteRecord, Tables, Execution
<1>12. ASSUME NEW e \in Executor, ExecuteMark(e) PROVE NoSanctionWithoutConviction'
  BY <1>12, <1>4 DEF ExecuteMark, Tables
<1>13. ASSUME NEW s \in DOMAIN sanctions, FileAppeal(s) PROVE NoSanctionWithoutConviction'
  BY <1>13, <1>4 DEF FileAppeal
<1>14. ASSUME NEW j \in Judge,
              \/ \E s \in DOMAIN sanctions, o \in BOOLEAN : JudgeRead(j, s, o)
              \/ JudgeResolve(j) \/ JudgeUnfreeze(j)
       PROVE  NoSanctionWithoutConviction'
  BY <1>14, <1>4 DEF JudgeRead, JudgeResolve, JudgeUnfreeze
<1>15. CASE CourtStep
  BY <1>15, <1>7, <1>8, <1>10, <1>11, <1>12, <1>13, <1>14 DEF CourtStep
<1> QED BY <1>5, <1>6, <1>15, StepKinds

-----------------------------------------------------------------------------
(* Frozen and departed *)

(* A freeze on its way is for a charge that asks for one, and a scan that  *)
(* freezes has taken the citizen for departed.                             *)
FreezeIsAskedFor ==
  /\ \A e \in Executor :
       executing[e] # None /\ executing[e].next = "freeze" =>
         charge[executing[e].charge].kind = "freeze"
  /\ escalation = "freeze" => presumed

(* The inductive invariant. *)
StandingInv ==
  /\ Flags /\ Phases /\ Counts /\ Tables
  /\ NoSanctionWithoutConviction /\ FreezeIsAskedFor
  /\ FrozenForCause /\ DepartedIsFrozen /\ NoTimerWhileConnected

LEMMA StandingInvInit == ASSUME StandingInit PROVE StandingInv
<1>1. Flags /\ Phases /\ Counts /\ Tables   BY StandingTypesInit, StandingParts
<1>2. NoSanctionWithoutConviction /\ FreezeIsAskedFor
  BY DEF StandingInit, NothingUnderWay, NoSanctionWithoutConviction, FreezeIsAskedFor
<1>3. FrozenForCause /\ DepartedIsFrozen /\ NoTimerWhileConnected
  BY DEF StandingInit, FrozenForCause, DepartedIsFrozen, NoTimerWhileConnected
<1> QED BY <1>1, <1>2, <1>3 DEF StandingInv

LEMMA FreezeIsAskedForStep ==
  ASSUME Tables, NoSanctionWithoutConviction, FreezeIsAskedFor, [StandingNext]_standingVars
  PROVE  FreezeIsAskedFor'
<1> USE DEF FreezeIsAskedFor
<1>1. Tables'   BY TablesStep
<1>2. \A e \in Executor : executing[e] # None =>
        /\ executing[e].charge \in Charge
        /\ charge'[executing[e].charge].kind = charge[executing[e].charge].kind
  <2>1. ASSUME NEW e \in Executor, executing[e] # None
        PROVE  /\ executing[e].charge \in Charge
               /\ charge'[executing[e].charge].kind = charge[executing[e].charge].kind
    <3>1. executing[e].charge \in Charge   BY <2>1 DEF Tables, Execution
    <3>2. Convicted(executing[e].charge)   BY <2>1 DEF NoSanctionWithoutConviction
    <3> QED BY <3>1, <3>2, ConvictionIsFinal
  <2> QED BY <2>1
<1>3. ASSUME \A e \in Executor : executing'[e] = executing[e] \/ executing'[e] = None,
             escalation' = "freeze" => presumed'
      PROVE  FreezeIsAskedFor'
  BY <1>2, <1>3
<1>4. CASE PresenceStep
  <2>1. executing' = executing   BY <1>4, PresenceLeavesCourt
  <2>2. escalation' = "freeze" => presumed'
    BY <1>4, Zenon DEF PresenceStep, Connect, Disconnect, GraceExpires, AwayLands, Heartbeat,
           HeartbeatLands, TimePasses, Escalation, ListDeparted, Depart, FreezeDeparted, Dissolve,
           ListAbsent, MarkAbsent
  <2> QED BY <2>1, <2>2, <1>3
<1>5. CASE Crash   BY <1>5, <1>3 DEF Crash, NothingUnderWay
<1>6. CASE UNCHANGED standingVars   BY <1>6, <1>3
<1>7. CASE CourtStep
  <2>1. escalation' = escalation /\ presumed' = presumed
    BY <1>7, Zenon DEF CourtStep, FileCharge, Convict, ExecuteRead, ExecuteFreeze,
           ExecuteRecord, ExecuteMark, FileAppeal, JudgeRead, JudgeResolve, JudgeUnfreeze
  <2>2. ASSUME NEW c \in Charge,
               FileCharge(c) \/ \E convicted \in BOOLEAN : Convict(c, convicted)
        PROVE  executing' = executing
    BY <2>2 DEF FileCharge, Convict
  <2>3. ASSUME NEW s \in DOMAIN sanctions, FileAppeal(s) PROVE executing' = executing
    BY <2>3 DEF FileAppeal
  <2>4. ASSUME NEW j \in Judge,
               \/ \E s \in DOMAIN sanctions, o \in BOOLEAN : JudgeRead(j, s, o)
               \/ JudgeResolve(j) \/ JudgeUnfreeze(j)
        PROVE  executing' = executing
    BY <2>4 DEF JudgeRead, JudgeResolve, JudgeUnfreeze
  <2>5. ASSUME NEW e \in Executor, NEW c \in Charge, ExecuteRead(e, c)
        PROVE  FreezeIsAskedFor'
    <3>1. executing'[e] = [charge |-> c, next |-> IF charge[c].kind = "freeze" THEN "freeze" ELSE "record"]
      BY <2>5 DEF ExecuteRead, Tables
    <3>2. charge' = charge /\ \A f \in Executor \ {e} : executing'[f] = executing[f]
      BY <2>5 DEF ExecuteRead, Tables
    <3> QED BY <3>1, <3>2, <2>1
  <2>6. ASSUME NEW e \in Executor, ExecuteFreeze(e) \/ ExecuteRecord(e)
        PROVE  FreezeIsAskedFor'
    <3>1. executing[e] \in Execution
      BY <2>6 DEF ExecuteFreeze, ExecuteRecord, IsNext, Tables
    <3>2. executing'[e].next # "freeze"
      BY <2>6, <3>1 DEF ExecuteFreeze, ExecuteRecord, Tables, Execution
    <3>3. charge' = charge /\ \A f \in Executor \ {e} : executing'[f] = executing[f]
      BY <2>6 DEF ExecuteFreeze, ExecuteRecord, Tables
    <3> QED BY <3>2, <3>3, <2>1
  <2>7. ASSUME NEW e \in Executor, ExecuteMark(e)
        PROVE  \A f \in Executor : executing'[f] = executing[f] \/ executing'[f] = None
    BY <2>7 DEF ExecuteMark, Tables
  <2> QED BY <1>7, <1>3, <2>1, <2>2, <2>3, <2>4, <2>5, <2>6, <2>7 DEF CourtStep
<1> QED BY <1>4, <1>5, <1>6, <1>7, StepKinds

LEMMA FrozenForCauseStep ==
  ASSUME Tables, NoSanctionWithoutConviction, FreezeIsAskedFor, FrozenForCause, [StandingNext]_standingVars
  PROVE  FrozenForCause'
<1>1. ASSUME NEW c \in Charge, Convicted(c), charge[c].kind = "freeze"
      PROVE  FrozenForCause'
  BY <1>1, ConvictionIsFinal DEF FrozenForCause
<1>2. presumed => presumed'
  BY Zenon DEF StandingNext, FileCharge, Convict, ExecuteRead, ExecuteFreeze,
           ExecuteRecord, ExecuteMark, FileAppeal, JudgeRead, JudgeResolve, JudgeUnfreeze,
           Connect, Disconnect, GraceExpires, AwayLands, Heartbeat,
           HeartbeatLands, TimePasses, Escalation, ListDeparted, Depart, FreezeDeparted, Dissolve,
           ListAbsent, MarkAbsent, Crash
<1>3. CASE frozen \/ ~frozen'
  BY <1>1, <1>2, <1>3 DEF FrozenForCause
<1>4. CASE ~frozen /\ frozen'
  <2>1. \/ Depart \/ FreezeDeparted \/ \E e \in Executor : ExecuteFreeze(e)
    BY <1>4, Zenon DEF StandingNext, FileCharge, Convict, ExecuteRead,
           ExecuteRecord, ExecuteMark, FileAppeal, JudgeRead, JudgeResolve, JudgeUnfreeze,
           MarkUnfrozen, Connect, Disconnect, GraceExpires, AwayLands, Heartbeat,
           HeartbeatLands, TimePasses, Escalation, ListDeparted, Dissolve,
           ListAbsent, MarkAbsent, Crash
  <2>2. CASE Depart   BY <2>2, Zenon DEF Depart, FrozenForCause
  <2>3. CASE FreezeDeparted
    BY <2>3, <1>2, Zenon DEF FreezeDeparted, FreezeIsAskedFor, FrozenForCause
  <2>4. ASSUME NEW e \in Executor, ExecuteFreeze(e) PROVE FrozenForCause'
    <3>1. executing[e] # None /\ executing[e].next = "freeze"
      BY <2>4 DEF ExecuteFreeze, IsNext
    <3>2. executing[e].charge \in Charge   BY <3>1 DEF Tables, Execution
    <3> QED BY <3>1, <3>2, <1>1 DEF FreezeIsAskedFor, NoSanctionWithoutConviction
  <2> QED BY <2>1, <2>2, <2>3, <2>4
<1> QED BY <1>3, <1>4

LEMMA DepartedIsFrozenStep ==
  ASSUME DepartedIsFrozen, [StandingNext]_standingVars PROVE DepartedIsFrozen'
<1>1. CASE UNCHANGED <<presence, frozen>>   BY <1>1, Zenon DEF DepartedIsFrozen
<1>2. CASE ~UNCHANGED <<presence, frozen>>
  <2>1. \/ AwayLands \/ HeartbeatLands \/ Depart \/ FreezeDeparted \/ MarkAbsent
        \/ MarkFrozen \/ MarkUnfrozen
    BY <1>2, Zenon DEF StandingNext, FileCharge, Convict, ExecuteRead, ExecuteFreeze,
           ExecuteRecord, ExecuteMark, FileAppeal, JudgeRead, JudgeResolve, JudgeUnfreeze,
           Connect, Disconnect, GraceExpires, Heartbeat,
           TimePasses, Escalation, ListDeparted, Dissolve, ListAbsent, Crash
  <2> QED BY <2>1, Zenon DEF AwayLands, HeartbeatLands, Depart, FreezeDeparted, MarkAbsent,
            MarkFrozen, MarkUnfrozen, DepartedIsFrozen
<1> QED BY <1>1, <1>2

LEMMA NoTimerStep ==
  ASSUME Counts, Flags, NoTimerWhileConnected, [StandingNext]_standingVars PROVE NoTimerWhileConnected'
<1> USE DEF NoTimerWhileConnected
<1>1. CASE Connect   BY <1>1, Zenon DEF Connect
<1>2. CASE Disconnect
  <2>1. /\ connections > 0 /\ connections' = connections - 1
        /\ timer' = (timer \/ connections = 1)
    BY <1>2, Zenon DEF Disconnect
  <2>2. ~timer   BY <2>1
  <2>3. connections' > 0 => connections # 1   BY <2>1 DEF Counts
  <2>4. timer' <=> connections = 1   BY <2>1, <2>2, Zenon
  <2> QED BY <2>3, <2>4
<1>3. CASE GraceExpires   BY <1>3, Zenon DEF GraceExpires
<1>4. CASE Heartbeat   BY <1>4, Zenon DEF Heartbeat
<1>5. CASE Crash   BY <1>5, Zenon DEF Crash
<1>6. CASE UNCHANGED <<connections, timer>>   BY <1>6, Zenon
<1>7. UNCHANGED <<connections, timer>> \/ Connect \/ Disconnect \/ GraceExpires \/ Heartbeat \/ Crash
  BY Zenon DEF StandingNext, FileCharge, Convict, ExecuteRead, ExecuteFreeze,
           ExecuteRecord, ExecuteMark, FileAppeal, JudgeRead, JudgeResolve, JudgeUnfreeze,
           AwayLands, HeartbeatLands, TimePasses, Escalation, ListDeparted, Depart, FreezeDeparted,
           Dissolve, ListAbsent, MarkAbsent
<1> QED BY <1>1, <1>2, <1>3, <1>4, <1>5, <1>6, <1>7

LEMMA StandingInvStep == ASSUME StandingInv, [StandingNext]_standingVars PROVE StandingInv'
<1> USE DEF StandingInv
<1>1. Flags' /\ Phases' /\ Counts'
  <2>1. CASE StandingNext   BY <2>1, FlagsStep, PhasesStep, CountsStep
  <2>2. CASE UNCHANGED standingVars   BY <2>2, Zenon DEF Flags, Phases, Counts
  <2> QED BY <2>1, <2>2
<1>2. Tables' /\ NoSanctionWithoutConviction'   BY TablesStep, ConvictionStep
<1>3. FreezeIsAskedFor' /\ FrozenForCause'   BY FreezeIsAskedForStep, FrozenForCauseStep
<1>4. DepartedIsFrozen' /\ NoTimerWhileConnected'   BY DepartedIsFrozenStep, NoTimerStep
<1> QED BY <1>1, <1>2, <1>3, <1>4

(* The inductive invariant: types, what each request under way may rely    *)
(* on, and the four properties below.                                      *)
THEOREM StandingInvariance == StandingSpec => []StandingInv
<1>1. StandingInit => StandingInv   BY StandingInvInit
<1>2. StandingInv /\ [StandingNext]_standingVars => StandingInv'   BY StandingInvStep
<1> QED BY <1>1, <1>2, PTL DEF StandingSpec

(* Every variable keeps its type, for all values of the constants. *)
THEOREM StandingTypeCorrect == StandingSpec => []StandingTypeOK
<1>1. StandingInv => StandingTypeOK   BY StandingParts DEF StandingInv
<1> QED BY <1>1, StandingInvariance, PTL

(* No sanction is recorded or carried out without a conviction, for any    *)
(* number of charges and of requests that overlap.                         *)
THEOREM SanctionsAreEarned == StandingSpec => []NoSanctionWithoutConviction
<1>1. StandingInv => NoSanctionWithoutConviction   BY DEF StandingInv
<1> QED BY <1>1, StandingInvariance, PTL

(* A Civic-DID is frozen only if the citizen was taken for departed or a   *)
(* court has convicted on a charge that asks for it.                       *)
THEOREM FreezesAreEarned == StandingSpec => []FrozenForCause
<1>1. StandingInv => FrozenForCause   BY DEF StandingInv
<1> QED BY <1>1, StandingInvariance, PTL

(* Two components write presence and the frozen flag; who is presumed      *)
(* departed is frozen, whatever the order of their writes.                 *)
THEOREM TheDepartedAreFrozen == StandingSpec => []DepartedIsFrozen
<1>1. StandingInv => DepartedIsFrozen   BY DEF StandingInv
<1> QED BY <1>1, StandingInvariance, PTL

(* No grace timer runs while a socket is open, for any number of sockets.  *)
THEOREM TimersWaitForTheLastSocket == StandingSpec => []NoTimerWhileConnected
<1>1. StandingInv => NoTimerWhileConnected   BY DEF StandingInv
<1> QED BY <1>1, StandingInvariance, PTL
=============================================================================
