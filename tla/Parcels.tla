------------------------------ MODULE Parcels ------------------------------
(* Civic land of a Grid: who owns a parcel, in the registry in memory and in the
   table civic_parcels, while purchases (api/routes/civic-parcels.ts), the upkeep
   scan of every tick (civic/upkeep-scanner.ts) and restarts go on.

   A handler runs alone until it awaits a statement; the scan of a tick is not
   awaited, so scans may overlap each other and the purchases.  The clock is kept
   as `tick', which is 0 again after a restart, and, for each parcel, as the
   ticks that are left until its period is due. *)
EXTENDS Integers, FiniteSets

CONSTANTS
    Parcel,       \* parcels of purchasable zones
    Zone,         \* "home" or "business" class of the zone of each parcel
    Price,        \* price of each parcel in wei
    Rates,        \* rates of upkeep a law may set, in basis points of the price
    UPKEEP_RATE_BPS, \* the founding rate
    Period,       \* ticks of one upkeep period
    Did,          \* Civic-DIDs of Nous
    Request,      \* HTTP requests that may be under way at a time
    Scan,         \* upkeep scans that may be under way at a time
    MaxTick,      \* bound: the tick number stops here, the ticks do not
    MaxFaults,    \* bound: failing statements, lost replies and crashes
    Nobody,       \* the owner of a parcel that is for sale
    Treasury      \* did:noesis:system:treasury

ConstantsAssumption ==
    /\ Zone \in [Parcel -> {"home", "business"}]
    /\ Price \in [Parcel -> Nat \ {0}]
    /\ Rates \subseteq Nat /\ UPKEEP_RATE_BPS \in Rates
    /\ Period \in Nat \ {0}
    /\ MaxTick \in Nat \ {0} /\ MaxFaults \in Nat
    /\ Nobody \notin Did /\ Treasury \notin Did /\ Nobody # Treasury
ASSUME ConstantsAssumption

VARIABLES
    tick,         \* WorldClock, up to its bound
    rate,         \* getUpkeepRateBps: the founding law or its amendment
    owner,        \* the registry: ownerDid
    missed,       \* the registry: missedPeriods
    wait,         \* ticks until periodDue of the parcel holds, 0 if it does
    row,          \* civic_parcels
    request,      \* local state of the requests
    scan,         \* local state of the upkeep scans
    faults,       \* faults so far
    paid,         \* history: who paid last for the parcel
    sold          \* history: who was told to have bought the parcel, while it is his

vars == <<tick, rate, owner, missed, wait, row, request, scan, faults,
          paid, sold>>
land == <<owner, missed>>
history == <<paid, sold>>

RECLAIM == 3                                  \* RECLAIM_GRACE_PERIODS.reclaim
Never == -1                                   \* last_upkeep_tick is NULL
Idle == [pc |-> "idle"]
Buyer == [pc : {"charge", "paid", "refused"}, did : Did, parcel : Parcel]
Copy == [parcel : Parcel, owner : Did \cup {Treasury}, missed : Nat]
Sweep ==
    [pc : {"next"}, tick : 0..MaxTick, todo : SUBSET Copy] \cup
    [pc : {"paid", "poor", "settled", "missed", "reclaimed"},
     tick : 0..MaxTick, todo : SUBSET Copy, copy : Copy]

Init ==
    /\ tick = 0 /\ faults = 0 /\ rate = UPKEEP_RATE_BPS
    /\ owner = [p \in Parcel |-> Nobody]
    /\ missed = [p \in Parcel |-> 0]
    /\ wait = [p \in Parcel |-> 0]
    /\ row = [p \in Parcel |->
                  [owner |-> Nobody, missed |-> 0, last |-> Never]]
    /\ request = [r \in Request |-> Idle]
    /\ scan = [s \in Scan |-> Idle]
    /\ paid = [p \in Parcel |-> Nobody]
    /\ sold = [p \in Parcel |-> Nobody]

Fault == faults < MaxFaults /\ faults' = faults + 1

(***************************************************************************)
(* Purchase of a parcel                                                    *)
(***************************************************************************)

\* ParcelRegistry.purchase: for sale, and at most one parcel of a class each.
Purchasable(d, p) ==
    /\ owner[p] = Nobody
    /\ \A q \in Parcel : owner[q] = d => Zone[q] # Zone[p]

\* The purchase in memory, before anything is paid.  The balance the route has
\* read before may have changed since; only the charge decides.
Buy(r, d, p) ==
    /\ request[r].pc = "idle" /\ Purchasable(d, p)
    /\ owner' = [owner EXCEPT ![p] = d]
    /\ request' = [request EXCEPT ![r] = [pc |-> "charge", did |-> d, parcel |-> p]]
    /\ UNCHANGED <<tick, rate, missed, wait, row, scan, faults, history>>

\* chargeToTreasury is one transaction.
BuyCharge(r) ==
    /\ request[r].pc = "charge"
    /\ paid' = [paid EXCEPT ![request[r].parcel] = request[r].did]
    /\ request' = [request EXCEPT ![r].pc = "paid"]
    /\ UNCHANGED <<tick, rate, land, wait, row, scan, faults, sold>>

\* The balance is too low, or the transaction was rolled back.
BuyRefused(r) ==
    /\ request[r].pc = "charge"
    /\ request' = [request EXCEPT ![r].pc = "refused"]
    /\ UNCHANGED <<tick, rate, land, wait, row, scan, faults, history>>

\* The transaction was committed and the reply to its COMMIT was lost: the route
\* takes that for a refusal.
BuyReplyLost(r) ==
    /\ request[r].pc = "charge" /\ Fault
    /\ paid' = [paid EXCEPT ![request[r].parcel] = request[r].did]
    /\ request' = [request EXCEPT ![r].pc = "refused"]
    /\ UNCHANGED <<tick, rate, land, wait, row, scan, sold>>

\* Mutant: the stamp stays when the charge was refused.
BuyReleaseNothing(r) ==
    /\ request[r].pc = "refused"
    /\ request' = [request EXCEPT ![r] = Idle]
    /\ UNCHANGED <<tick, rate, land, wait, row, scan, faults, history>>

\* releaseOwnership: the owner is cleared, whatever it has become; the ladder of
\* missed periods is not.
BuyRelease(r) ==
    /\ request[r].pc = "refused"
    /\ owner' = [owner EXCEPT ![request[r].parcel] = Nobody]
    /\ request' = [request EXCEPT ![r] = Idle]
    /\ UNCHANGED <<tick, rate, missed, wait, row, scan, faults, history>>

\* A scan has taken the parcel away and is about to write that down.
ReclaimPending(p) ==
    \E s \in Scan : scan[s].pc = "reclaimed" /\ scan[s].copy.parcel = p

Told(r) ==
    LET d == request[r].did
        p == request[r].parcel
    IN [sold EXCEPT ![p] =
           IF owner[p] = d /\ ~ReclaimPending(p) THEN d ELSE @]

\* persistPurchase, then the answer 201.
BuyPersist(r) ==
    /\ request[r].pc = "paid"
    /\ row' = [row EXCEPT ![request[r].parcel].owner = request[r].did]
    /\ sold' = Told(r)
    /\ request' = [request EXCEPT ![r] = Idle]
    /\ UNCHANGED <<tick, rate, land, wait, scan, faults, paid>>

\* Mutant: the failure is logged and the answer is 201.
BuyPersistFailsQuietly(r) ==
    /\ request[r].pc = "paid" /\ Fault
    /\ sold' = Told(r)
    /\ request' = [request EXCEPT ![r] = Idle]
    /\ UNCHANGED <<tick, rate, land, wait, row, scan, paid>>

\* The route answers 500; the stamp in memory stays.
BuyPersistFails(r) ==
    /\ request[r].pc = "paid" /\ Fault
    /\ request' = [request EXCEPT ![r] = Idle]
    /\ UNCHANGED <<tick, rate, land, wait, row, scan, history>>

(***************************************************************************)
(* The upkeep scan                                                         *)
(***************************************************************************)

UpkeepDue(p) == (Price[p] * rate) \div 10000

\* Copies of the parcels that are owned, by the treasury too, and due.
Copies(w) ==
    {[parcel |-> p, owner |-> owner[p], missed |-> missed[p]] :
        p \in {q \in Parcel : owner[q] # Nobody /\ w[q] = 0}}

\* onTick starts a scan and does not await it.
TickClosed ==
    /\ tick' = IF tick < MaxTick THEN tick + 1 ELSE tick
    /\ wait' = [p \in Parcel |-> IF wait[p] > 0 THEN wait[p] - 1 ELSE 0]
    /\ \E s \in Scan :
          /\ scan[s].pc = "idle"
          /\ scan' = [scan EXCEPT ![s] =
                IF Copies(wait') = {} THEN Idle
                ELSE [pc |-> "next", tick |-> tick', todo |-> Copies(wait')]]
    /\ UNCHANGED <<rate, land, row, request, faults, history>>

\* The scan goes on to the next copy.
Rest(s, c) ==
    IF scan[s].todo = {c} THEN Idle
    ELSE [pc |-> "next", tick |-> scan[s].tick, todo |-> scan[s].todo \ {c}]
At(s, pc, c) == [pc |-> pc, tick |-> scan[s].tick, todo |-> scan[s].todo, copy |-> c]

\* chargeToTreasury for the owner of the copy.  What accounts hold changes with
\* wages and sales at any time; the treasury has none.
UpkeepCharge(s) ==
    /\ scan[s].pc = "next"
    /\ \E c \in scan[s].todo :
          /\ UpkeepDue(c.parcel) > 0
          /\ \/ c.owner # Treasury /\ scan' = [scan EXCEPT ![s] = At(s, "paid", c)]
             \/ scan' = [scan EXCEPT ![s] = At(s, "poor", c)]
    /\ UNCHANGED <<tick, rate, land, wait, row, request, faults, history>>

\* Any other failure of the charge, its money moved or not: the parcel is skipped.
UpkeepChargeFails(s) ==
    /\ scan[s].pc = "next" /\ Fault
    /\ \E c \in scan[s].todo :
          /\ UpkeepDue(c.parcel) > 0
          /\ scan' = [scan EXCEPT ![s] = Rest(s, c)]
    /\ UNCHANGED <<tick, rate, land, wait, row, request, history>>

\* resetCondition; the statement writes the tick of the scan.  The registry's own
\* lastUpkeepTick is left alone, so `wait' does not change.
UpkeepSettle(s) ==
    /\ scan[s].pc = "paid"
    /\ missed' = [missed EXCEPT ![scan[s].copy.parcel] = 0]
    /\ scan' = [scan EXCEPT ![s].pc = "settled"]
    /\ UNCHANGED <<tick, rate, owner, wait, row, request, faults, history>>

\* Copies the ladder is advanced for; with nothing due without a charge.
Missing(s) ==
    CASE scan[s].pc = "poor" -> {scan[s].copy}
      [] scan[s].pc = "next" -> {c \in scan[s].todo : UpkeepDue(c.parcel) = 0}
      [] OTHER -> {}

\* Mutant: the ladder advances in the row only, as the tick of the upkeep does.
AdvancedInRow(c) == missed

\* missedPeriods of the registry, whatever the copy says.
Advanced(c) == [missed EXCEPT ![c.parcel] = @ + 1]

\* advanceCondition, and after three missed periods reclaimToTreasury.
UpkeepAdvance(s) ==
    /\ \E c \in Missing(s) :
          IF missed[c.parcel] + 1 < RECLAIM
             THEN /\ missed' = Advanced(c)
                  /\ scan' = [scan EXCEPT ![s] = At(s, "missed", c)]
                  /\ UNCHANGED <<owner, sold>>
             ELSE /\ owner' = [owner EXCEPT ![c.parcel] = Treasury]
                  /\ missed' = [missed EXCEPT ![c.parcel] = 0]
                  /\ sold' = [sold EXCEPT ![c.parcel] = Nobody]
                  /\ scan' = [scan EXCEPT ![s] = At(s, "reclaimed", c)]
    /\ UNCHANGED <<tick, rate, wait, row, request, faults, paid>>

\* persistUpkeep writes what the copy says, persistReclaim neither the tick nor
\* the columns of the structure.
UpkeepPersist(s) ==
    /\ LET c == scan[s].copy
       IN /\ \/ /\ scan[s].pc = "settled"
                /\ row' = [row EXCEPT ![c.parcel].last = scan[s].tick,
                                      ![c.parcel].missed = 0]
             \/ /\ scan[s].pc = "missed"
                /\ row' = [row EXCEPT ![c.parcel].last = scan[s].tick,
                                      ![c.parcel].missed = c.missed + 1]
             \/ /\ scan[s].pc = "reclaimed"
                /\ row' = [row EXCEPT ![c.parcel].owner = Nobody,
                                      ![c.parcel].missed = 0]
          /\ scan' = [scan EXCEPT ![s] = Rest(s, c)]
    /\ UNCHANGED <<tick, rate, land, wait, request, faults, history>>

\* A failing statement is caught after a settled upkeep only.
UpkeepPersistFails(s) ==
    /\ scan[s].pc = "settled" /\ Fault
    /\ scan' = [scan EXCEPT ![s] = Rest(s, scan[s].copy)]
    /\ UNCHANGED <<tick, rate, land, wait, row, request, history>>

(***************************************************************************)
(* Restart, and the rest of the Grid                                       *)
(***************************************************************************)

\* The process dies, of a crash or of the rejection of a scan nobody awaits, and
\* the registry is filled from the table (hydrate).
Restart ==
    /\ Fault
    /\ tick' = 0 /\ rate' = UPKEEP_RATE_BPS
    /\ owner' = [p \in Parcel |-> row[p].owner]
    /\ missed' = [p \in Parcel |-> row[p].missed]
    /\ wait' = [p \in Parcel |->
                   IF row[p].last = Never THEN 0 ELSE row[p].last + Period]
    /\ request' = [r \in Request |-> Idle]
    /\ scan' = [s \in Scan |-> Idle]
    /\ UNCHANGED <<row, history>>

\* recordPolisOverride, when the law of a proposal that passed is enacted.
AmendLaw ==
    /\ rate' \in Rates
    /\ UNCHANGED <<tick, land, wait, row, request, scan, faults, history>>

Upkeep(s) ==
    \/ UpkeepCharge(s) \/ UpkeepChargeFails(s) \/ UpkeepSettle(s)
    \/ UpkeepAdvance(s) \/ UpkeepPersist(s) \/ UpkeepPersistFails(s)

Buying(r) ==
    \/ BuyCharge(r) \/ BuyRefused(r) \/ BuyReplyLost(r) \/ BuyRelease(r)
    \/ BuyPersist(r) \/ BuyPersistFails(r)

Next ==
    \/ \E r \in Request, d \in Did, p \in Parcel : Buy(r, d, p)
    \/ \E r \in Request : Buying(r)
    \/ TickClosed
    \/ \E s \in Scan : Upkeep(s)
    \/ Restart
    \/ AmendLaw

Spec == Init /\ [][Next]_vars

\* A statement ends and its handler goes on; the clock ticks.
Fairness ==
    /\ WF_vars(TickClosed)
    /\ \A s \in Scan : WF_vars(Upkeep(s))
    /\ \A r \in Request : WF_vars(Buying(r))
FairSpec == Spec /\ Fairness

(***************************************************************************)
(* Properties                                                              *)
(***************************************************************************)

TypeOK ==
    /\ tick \in 0..MaxTick /\ rate \in Rates /\ faults \in 0..MaxFaults
    /\ owner \in [Parcel -> Did \cup {Nobody, Treasury}]
    /\ missed \in [Parcel -> Nat] /\ wait \in [Parcel -> Nat]
    /\ row \in [Parcel -> [owner : Did \cup {Nobody}, missed : Nat,
                           last : Nat \cup {Never}]]
    /\ request \in [Request -> {Idle} \cup Buyer]
    /\ scan \in [Scan -> {Idle} \cup Sweep]
    /\ paid \in [Parcel -> Did \cup {Nobody}]
    /\ sold \in [Parcel -> Did \cup {Nobody}]

InFlight(p) ==
    \E r \in Request : request[r].pc \in {"charge", "refused"} /\ request[r].parcel = p

\* civic-parcels.ts:176: "a failed charge ... must never leave a phantom owner
\* (unpaid, unpersisted, unaudited)".  In memory between requests, and in the
\* table at any time, the owner of a parcel is who has paid for it last, whatever
\* buys, scans, fails and restarts in between.
NoPhantomOwner ==
    \A p \in Parcel :
        /\ owner[p] \in Did /\ ~InFlight(p) => paid[p] = owner[p]
        /\ row[p].owner \in Did => paid[p] = row[p].owner

\* A purchase that was answered with 201 is kept, in memory and over restarts, until
\* a scan takes the parcel away; what still runs for earlier owners does not undo it,
\* except a reclaim whose statement was pending when the parcel was sold again.
SoldIsKept ==
    \A p \in Parcel :
        sold[p] # Nobody => owner[p] = sold[p] /\ row[p].owner = sold[p]

\* Who stops paying loses the land: an owner keeps a parcel for ever only by
\* paying its upkeep again and again.
Funded(p) ==
    \E s \in Scan : /\ scan[s].pc = "next" /\ scan'[s].pc = "paid"
                    /\ scan'[s].copy.parcel = p

DefaulterLosesLand ==
    \A d \in Did, p \in Parcel :
        []<>(owner[p] # d) \/ []<><<Funded(p)>>_vars

\* upkeep-scanner.ts:21: "last_upkeep_tick advances to tick either way so the next
\* assessment is the next boundary".
OncePerPeriod ==
    [][\A s \in Scan :
          scan[s].pc = "next" /\ scan'[s].pc = "paid" =>
              LET last == row[scan'[s].copy.parcel].last
              IN last = Never \/ scan[s].tick - last >= Period]_vars

\* parcel-registry.ts:344: the ladder is reset "on the now-treasury parcel for
\* resale".
ReclaimedIsForSale ==
    \A p \in Parcel : owner[p] = Treasury => \E d \in Did : Purchasable(d, p)

\* The land is taken from, and the event of the reclaim names, who did not pay.
ReclaimedFromDefaulter ==
    [][\A s \in Scan :
          scan[s].pc # "reclaimed" /\ scan'[s].pc = "reclaimed" =>
              scan'[s].copy.owner = owner[scan'[s].copy.parcel]]_vars
=============================================================================
