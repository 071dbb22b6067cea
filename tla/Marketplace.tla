----------------------------- MODULE Marketplace ----------------------------
(***************************************************************************)
(* The civic marketplace of a Grid (grid/src/marketplace, the routes in    *)
(* api/routes/market.ts): listings, bids, the escrow a seller funds from   *)
(* the buyer's account by accepting a bid, settlement when both parties    *)
(* have confirmed, disputes, and the sweep that a timer starts every       *)
(* second and does not await.                                              *)
(*                                                                         *)
(* A transaction of the store locks the rows it reads (FOR UPDATE) and is  *)
(* one step.  A route is cut at its awaits: between two statements any     *)
(* other request, the sweep or the clock may come, the next statement may  *)
(* fail, the reply of one that was executed may be lost, or the process    *)
(* may die.  Its clock then starts again at tick 0 while the rows keep     *)
(* the ticks of the old one.  Ids are random and never used twice.  Of the *)
(* audit chain only the events of a settlement and a dispute are kept.     *)
(***************************************************************************)
EXTENDS Integers, FiniteSets, Functions

CONSTANTS
    Account,   \* civic DIDs; any of them may have an active business
    Listing, Bid,
    Handler,   \* requests that may be served at the same time
    Sweep,     \* checkSettlementTimeouts calls that may be in progress together
    Wealth,    \* wei in each account at the start
    Price,     \* prices asked
    Offer,     \* prices offered
    Rate,      \* values irs_fee_rate may have, in basis points
    SkimBps,   \* zone tax of the parcel the seller's shop stands on, 0 for none
    Timeout,   \* market_settlement_timeout_ticks
    MaxTick,   \* bound: the clock stops counting here
    MaxReports,  \* bound: nobody reports a dispute with this many investigations
    MaxFaults  \* bound: failures and crashes

ASSUME ConstantsAssumption ==
    /\ Wealth \in Nat /\ Price \subseteq Nat /\ Offer \subseteq Nat \ {0}
    /\ Rate \subseteq Nat /\ SkimBps \in 0..10000
    /\ Timeout \in Nat \ {0} /\ MaxTick \in Nat /\ MaxTick > Timeout
    /\ MaxReports \in Nat /\ MaxFaults \in Nat

\* A table has finitely many rows.
ASSUME FinitenessAssumption == IsFiniteSet(Account) /\ IsFiniteSet(Listing)

VARIABLES
    tick,            \* WorldClock.currentTick
    accounts,        \* nous_accounts.balance_wei
    treasury,        \* civic_treasury.balance_wei
    listings,        \* marketplace_listings
    bids,            \* marketplace_bids
    escrow,          \* marketplace_escrow, at most one row per listing
    disputes,        \* listing -> rows in marketplace_disputes
    investigations,  \* listing -> rows in police_investigations for its dispute
    cut,             \* history: listings on whose dispute a failure cut off the work
    events,          \* listing -> kind -> events in the audit chain
    sent,            \* history: listing -> wei that left its escrow, and for whom
    handler, sweep,  \* local state of each request and each sweep
    faults

rows == <<listings, bids, escrow, disputes, investigations>>
money == <<accounts, treasury, sent>>
vars == <<tick, money, rows, events, cut, handler, sweep, faults>>

MinPrice == 50

Unlisted == [status |-> "none"]
NoBid == [status |-> "none"]
NoEscrow == [status |-> "none"]
Nothing == [worker |-> 0, treasury |-> 0, payer |-> 0]
Idle == [pc |-> "idle"]
EventKind == {"settled", "tax", "disputed"}

Goto(h, state) == handler' = [handler EXCEPT ![h] = state]
GotoSweep(s, state) == sweep' = [sweep EXCEPT ![s] = state]
Emit(l, kinds) ==
    events' = [events EXCEPT ![l] = [k \in EventKind |->
                  IF k \in kinds THEN events[l][k] + 1 ELSE events[l][k]]]

Init ==
    /\ tick = 0 /\ treasury = 0 /\ faults = 0
    /\ accounts = [a \in Account |-> Wealth]
    /\ listings = [l \in Listing |-> Unlisted]
    /\ bids = [b \in Bid |-> NoBid]
    /\ escrow = [l \in Listing |-> NoEscrow]
    /\ disputes = [l \in Listing |-> 0]
    /\ investigations = [l \in Listing |-> 0] /\ cut = {}
    /\ events = [l \in Listing |-> [k \in EventKind |-> 0]]
    /\ sent = [l \in Listing |-> Nothing]
    /\ handler = [h \in Handler |-> Idle]
    /\ sweep = [s \in Sweep |-> Idle]

-----------------------------------------------------------------------------
(* POST /listing/create and /listing/:id/bid.  Nobody looks at the listing a  *)
(* bid is for, or at what its price was.                                     *)

CreateListing(l, seller, price) ==
    /\ listings[l] = Unlisted /\ price >= MinPrice
    /\ listings' = [listings EXCEPT ![l] =
                       [status |-> "active", seller |-> seller, price |-> price]]
    /\ UNCHANGED <<tick, money, bids, escrow, disputes, investigations, events, cut,
                   handler, sweep, faults>>

PlaceBid(b, l, bidder, offer) ==
    /\ bids[b] = NoBid /\ listings[l] # Unlisted
    /\ bids' = [bids EXCEPT ![b] =
                   [status |-> "pending", l |-> l, bidder |-> bidder, offer |-> offer]]
    /\ UNCHANGED <<tick, money, listings, escrow, disputes, investigations, events, cut,
                   handler, sweep, faults>>

-----------------------------------------------------------------------------
(* POST /listing/:id/accept and /listing/:id/reject. *)

\* Mutant: only the bid is looked at, and escrow has no unique key.
AcceptableBid(b, caller) ==
    LET bid == bids[b]
    IN  /\ bid.status = "pending"
        /\ caller = listings[bid.l].seller /\ accounts[bid.bidder] >= bid.offer

\* What acceptBid checks under its locks.
Acceptable(b, caller) ==
    LET bid == bids[b]
    IN  /\ bid.status = "pending" /\ listings[bid.l].status = "active"
        /\ caller = listings[bid.l].seller /\ accounts[bid.bidder] >= bid.offer

\* The tick was read before the request waited for a connection.
AcceptBid(b, caller, at) ==
    LET bid == bids[b]
    IN  /\ bid # NoBid /\ Acceptable(b, caller) /\ at <= tick
        /\ tick + Timeout < MaxTick  \* bound: the clock can still see it time out
        /\ accounts' = [accounts EXCEPT ![bid.bidder] = accounts[bid.bidder] - bid.offer]
        /\ escrow' = [escrow EXCEPT ![bid.l] =
                         [status |-> "held", bid |-> b, buyer |-> bid.bidder,
                          seller |-> listings[bid.l].seller, amount |-> bid.offer,
                          confirmed |-> {}, acceptedAt |-> at]]
        /\ listings' = [listings EXCEPT ![bid.l].status = "accepted"]
        /\ bids' = [bids EXCEPT ![b].status = "accepted"]
        /\ UNCHANGED <<tick, treasury, sent, disputes, investigations, events, cut,
                       handler, sweep, faults>>

RejectRead(h, b, caller) ==
    /\ handler[h] = Idle /\ bids[b] # NoBid
    /\ listings[bids[b].l].status = "active" /\ listings[bids[b].l].seller = caller
    /\ Goto(h, [pc |-> "reject", b |-> b])
    /\ UNCHANGED <<tick, money, rows, events, cut, sweep, faults>>

\* UPDATE ... WHERE status = 'pending'
RejectBid(h) ==
    LET b == handler[h].b
    IN  /\ handler[h].pc = "reject"
        /\ bids' = IF bids[b].status = "pending"
                   THEN [bids EXCEPT ![b].status = "rejected"] ELSE bids
        /\ Goto(h, Idle)
        /\ UNCHANGED <<tick, money, listings, escrow, disputes, investigations, events, cut,
                       sweep, faults>>

-----------------------------------------------------------------------------
(* POST /listing/:id/confirm-settlement: confirm, and for the second party   *)
(* read the rate, settle, emit, and skim the tax of the seller's parcel.     *)

Held(l) == escrow[l].status = "held"
PartyOf(l, party) == IF party = "buyer" THEN escrow[l].buyer ELSE escrow[l].seller

Confirm(h, l, caller, party) ==
    /\ handler[h] = Idle /\ Held(l) /\ PartyOf(l, party) = caller
    /\ escrow' = [escrow EXCEPT ![l].confirmed = escrow[l].confirmed \cup {party}]
    /\ Goto(h, IF escrow[l].confirmed \cup {party} = {"buyer", "seller"}
               THEN [pc |-> "rate", l |-> l] ELSE Idle)
    /\ UNCHANGED <<tick, money, listings, bids, disputes, investigations, events, cut,
                   sweep, faults>>

\* A rate outside [0.01, 0.03] ends the request; both parties stay confirmed.
ReadRate(h, rate) ==
    /\ handler[h].pc = "rate"
    /\ Goto(h, IF rate \in 100..300
               THEN [pc |-> "settle", l |-> handler[h].l, rate |-> rate] ELSE Idle)
    /\ UNCHANGED <<tick, money, rows, events, cut, sweep, faults>>

Fee(wei, rate) == (wei * rate) \div 10000

\* Mutant: the seller is credited the whole amount on top of the fee.
PayoutGross(l, rate) ==
    [worker |-> escrow[l].amount, treasury |-> Fee(escrow[l].amount, rate), payer |-> 0]

Payout(l, rate) ==
    [worker |-> escrow[l].amount - Fee(escrow[l].amount, rate),
     treasury |-> Fee(escrow[l].amount, rate), payer |-> 0]

\* Mutant: settle takes the escrow it is asked for, whatever its state is.
SettleableAny(l) == escrow[l] # NoEscrow /\ escrow[l].confirmed = {"buyer", "seller"}
Settleable(l) == Held(l) /\ escrow[l].confirmed = {"buyer", "seller"}

Settle(h) ==
    LET l == handler[h].l
        out == Payout(l, handler[h].rate)
        seller == escrow[l].seller
    IN  /\ handler[h].pc = "settle" /\ Settleable(l)
        /\ accounts' = [accounts EXCEPT ![seller] = accounts[seller] + out.worker]
        /\ treasury' = treasury + out.treasury
        /\ sent' = [sent EXCEPT ![l] =
                       [f \in {"worker", "treasury", "payer"} |-> sent[l][f] + out[f]]]
        /\ escrow' = [escrow EXCEPT ![l].status = "settled"]
        /\ listings' = [listings EXCEPT ![l].status = "settled"]
        /\ Goto(h, [pc |-> "settled", l |-> l, fee |-> out.treasury])
        /\ UNCHANGED <<tick, bids, disputes, investigations, events, cut, sweep, faults>>

SettleRefused(h) ==
    /\ handler[h].pc = "settle" /\ ~Settleable(handler[h].l)
    /\ Goto(h, Idle)
    /\ UNCHANGED <<tick, money, rows, events, cut, sweep, faults>>

\* appendIrsTaxCollected throws for a fee of 0: the request ends in a 500.
EmitSettled(h) ==
    LET l == handler[h].l
        taxed == handler[h].fee > 0
    IN  /\ handler[h].pc = "settled"
        /\ Emit(l, IF taxed THEN {"settled", "tax"} ELSE {"settled"})
        /\ Goto(h, IF taxed THEN [pc |-> "skim", l |-> l] ELSE Idle)
        /\ UNCHANGED <<tick, money, rows, cut, sweep, faults>>

\* chargeToTreasury in a transaction of its own; a failure is swallowed.
Skim(h) ==
    LET l == handler[h].l
        seller == escrow[l].seller
        due == (escrow[l].amount * SkimBps) \div 10000
        charged == due > 0 /\ accounts[seller] >= due
    IN  /\ handler[h].pc = "skim"
        /\ accounts' = IF charged
                       THEN [accounts EXCEPT ![seller] = accounts[seller] - due] ELSE accounts
        /\ treasury' = IF charged THEN treasury + due ELSE treasury
        /\ Goto(h, Idle)
        /\ UNCHANGED <<tick, sent, rows, events, cut, sweep, faults>>

-----------------------------------------------------------------------------
(* dispute(), its route, and the sweep. *)

\* Mutant: the row is locked but its status is not looked at.
DisputableAny(l) == escrow[l] # NoEscrow
Disputable(l) == Held(l)

\* Freeze the escrow and insert the dispute, in one transaction.
Freeze(l) ==
    /\ escrow' = [escrow EXCEPT ![l].status = "frozen"]
    /\ disputes' = [disputes EXCEPT ![l] = disputes[l] + 1]

Investigate(l) == investigations' = [investigations EXCEPT ![l] = investigations[l] + 1]

DisputeRead(h, l, caller) ==
    /\ handler[h] = Idle /\ Held(l) /\ caller \in {escrow[l].buyer, escrow[l].seller}
    /\ Goto(h, [pc |-> "dispute", l |-> l])
    /\ UNCHANGED <<tick, money, rows, events, cut, sweep, faults>>

Dispute(h) ==
    LET l == handler[h].l
    IN  /\ handler[h].pc = "dispute"
        /\ IF Disputable(l)
           THEN Freeze(l) /\ Goto(h, [pc |-> "police", l |-> l])
           ELSE Goto(h, Idle) /\ UNCHANGED <<escrow, disputes>>
        /\ UNCHANGED <<tick, money, listings, bids, investigations, events, cut, sweep, faults>>

DisputePolice(h) ==
    /\ handler[h].pc = "police"
    /\ Investigate(handler[h].l)
    /\ Goto(h, [pc |-> "emit", l |-> handler[h].l])
    /\ UNCHANGED <<tick, money, listings, bids, escrow, disputes, events, cut, sweep, faults>>

DisputeEmit(h) ==
    /\ handler[h].pc = "emit"
    /\ Emit(handler[h].l, {"disputed"})
    /\ Goto(h, Idle)
    /\ UNCHANGED <<tick, money, rows, cut, sweep, faults>>

\* POST /police/investigate: a citizen names a dispute.  Nobody looks whether it
\* exists, or whether it is investigated already; other ids concern no listing.
ReportDispute(l) ==
    /\ disputes[l] > 0 /\ investigations[l] < MaxReports
    /\ Investigate(l)
    /\ UNCHANGED <<tick, money, listings, bids, escrow, disputes, events, cut, handler,
                   sweep, faults>>

\* Mutant: only the escrows that time out at this very tick.
ExpiredExactly == {l \in Listing : Held(l) /\ escrow[l].acceptedAt + Timeout + 1 = tick}
\* listExpiredEscrows
Expired == {l \in Listing : Held(l) /\ escrow[l].acceptedAt + Timeout < tick}

NextItem(s, todo) == GotoSweep(s, IF todo = {} THEN Idle ELSE [pc |-> "item", todo |-> todo])

SweepList(s) ==
    /\ sweep[s] = Idle /\ Expired # {}
    /\ NextItem(s, Expired)
    /\ UNCHANGED <<tick, money, rows, events, cut, handler, faults>>

\* An escrow that is no longer held is skipped.
SweepDispute(s, l) ==
    /\ sweep[s].pc = "item" /\ l \in sweep[s].todo
    /\ IF Disputable(l)
       THEN Freeze(l) /\ GotoSweep(s, [pc |-> "emit", l |-> l, todo |-> sweep[s].todo \ {l}])
       ELSE NextItem(s, sweep[s].todo \ {l}) /\ UNCHANGED <<escrow, disputes>>
    /\ UNCHANGED <<tick, money, listings, bids, investigations, events, cut, handler, faults>>

\* Mutant: the sweep leaves the police to the route.
SweepEmitOnly(s) ==
    /\ sweep[s].pc = "emit"
    /\ Emit(sweep[s].l, {"disputed"})
    /\ NextItem(s, sweep[s].todo)
    /\ UNCHANGED <<tick, money, rows, cut, handler, faults>>

SweepEmit(s) ==
    /\ sweep[s].pc = "emit"
    /\ Emit(sweep[s].l, {"disputed"})
    /\ GotoSweep(s, [sweep[s] EXCEPT !.pc = "police"])
    /\ UNCHANGED <<tick, money, rows, cut, handler, faults>>

SweepPolice(s) ==
    /\ sweep[s].pc = "police"
    /\ Investigate(sweep[s].l)
    /\ NextItem(s, sweep[s].todo)
    /\ UNCHANGED <<tick, money, listings, bids, escrow, disputes, events, cut, handler, faults>>

-----------------------------------------------------------------------------
(* Time, failures and crashes. *)

Tick ==
    /\ tick < MaxTick
    /\ tick' = tick + 1
    /\ UNCHANGED <<money, rows, events, cut, handler, sweep, faults>>

Fault == faults < MaxFaults /\ faults' = faults + 1

\* The dispute that a request or a sweep has committed and not yet dealt with.
Pursued(state) == IF state.pc \in {"police", "emit"} THEN {state.l} ELSE {}

\* A statement of a request fails, or the reply of one that was executed is
\* lost: the request goes no further.
RequestFails(h) ==
    /\ handler[h] # Idle /\ Fault
    /\ Goto(h, Idle)
    /\ cut' = cut \cup Pursued(handler[h])
    /\ UNCHANGED <<tick, money, rows, events, sweep>>

\* The same for one item of a sweep, which goes on with the next one.
SweepItemFails(s) ==
    /\ sweep[s] # Idle /\ Fault
    /\ IF sweep[s].pc = "item"
       THEN \E l \in sweep[s].todo : NextItem(s, sweep[s].todo \ {l})
       ELSE NextItem(s, sweep[s].todo)
    /\ cut' = cut \cup Pursued(sweep[s])
    /\ UNCHANGED <<tick, money, rows, events, handler>>

\* Requests and sweeps are lost, the rows are not, the clock restarts at 0.
Crash ==
    /\ Fault
    /\ tick' = 0
    /\ handler' = [h \in Handler |-> Idle]
    /\ sweep' = [s \in Sweep |-> Idle]
    /\ cut' = cut \cup UNION ({Pursued(handler[h]) : h \in Handler}
                              \cup {Pursued(sweep[s]) : s \in Sweep})
    /\ UNCHANGED <<money, rows, events>>

-----------------------------------------------------------------------------
Trading ==
    \E l \in Listing, did \in Account :
        \/ \E price \in Price : CreateListing(l, did, price)
        \/ \E b \in Bid, offer \in Offer : PlaceBid(b, l, did, offer)
        \/ \E b \in Bid, at \in 0..MaxTick : AcceptBid(b, did, at)

Request(h) ==
    \/ \E l \in Listing, caller \in Account :
          \/ \E party \in {"buyer", "seller"} : Confirm(h, l, caller, party)
          \/ DisputeRead(h, l, caller)
    \/ \E b \in Bid, caller \in Account : RejectRead(h, b, caller)

Continue(h) ==
    \/ RejectBid(h)
    \/ \E rate \in Rate : ReadRate(h, rate)
    \/ Settle(h) \/ SettleRefused(h) \/ EmitSettled(h) \/ Skim(h)
    \/ Dispute(h) \/ DisputePolice(h) \/ DisputeEmit(h)

Sweeping(s) ==
    \/ SweepList(s) \/ SweepEmit(s) \/ SweepPolice(s)
    \/ \E l \in Listing : SweepDispute(s, l)

Next ==
    \/ Trading \/ \E l \in Listing : ReportDispute(l)
    \/ \E h \in Handler : Request(h) \/ Continue(h) \/ RequestFails(h)
    \/ \E s \in Sweep : Sweeping(s) \/ SweepItemFails(s)
    \/ Tick \/ Crash

Spec == Init /\ [][Next]_vars

\* The clock ticks, the timer starts sweeps, and what was started goes on.
\* Nobody has to bid, accept, confirm or dispute.
Fairness ==
    /\ WF_vars(Tick)
    /\ \A h \in Handler : WF_vars(Continue(h))
    /\ \A s \in Sweep : WF_vars(Sweeping(s))

FairSpec == Spec /\ Fairness

-----------------------------------------------------------------------------
(* Properties. *)

EscrowRow ==
    [status : {"held", "frozen", "settled"}, bid : Bid, buyer : Account, seller : Account,
     amount : Offer, confirmed : SUBSET {"buyer", "seller"}, acceptedAt : 0..MaxTick]

\* Every variable keeps its type; a balance never becomes negative.
TypeOK ==
    /\ tick \in 0..MaxTick /\ treasury \in Nat /\ faults \in 0..MaxFaults
    /\ accounts \in [Account -> Nat]
    /\ \A l \in Listing :
          /\ listings[l] = Unlisted \/
             listings[l] \in [status : {"active", "accepted", "settled"},
                             seller : Account, price : Price]
          /\ escrow[l] = NoEscrow \/ escrow[l] \in EscrowRow
    /\ \A b \in Bid : bids[b] = NoBid \/
          bids[b] \in [status : {"pending", "accepted", "rejected"},
                      l : Listing, bidder : Account, offer : Offer]
    /\ disputes \in [Listing -> Nat] /\ investigations \in [Listing -> Nat]
    /\ cut \subseteq Listing
    /\ events \in [Listing -> [EventKind -> Nat]]
    /\ sent \in [Listing -> [worker : Nat, treasury : Nat, payer : Nat]]

\* No wei is minted or burned, whatever fails between two statements: accounts,
\* treasury and open escrows always add up to what there was at the start.
Open(l) == escrow[l].status \in {"held", "frozen"}
InEscrow == [l \in Listing |-> IF Open(l) THEN escrow[l].amount ELSE 0]
Conserved ==
    SumFunction(accounts) + treasury + SumFunction(InEscrow) = Wealth * Cardinality(Account)

\* One deal per listing: however two accepts, or an accept and a reject, of its
\* bids interleave, the accepted bid is the one the escrow was funded from, at
\* its offer, by its bidder, and the listing says so.
OneDeal ==
    \A l \in Listing :
        LET accepted == {b \in Bid : bids[b].status = "accepted" /\ bids[b].l = l}
        IN  IF escrow[l] = NoEscrow
            THEN accepted = {} /\ listings[l].status \in {"none", "active"}
            ELSE /\ accepted = {escrow[l].bid}
                 /\ escrow[l].amount = bids[escrow[l].bid].offer
                 /\ escrow[l].buyer = bids[escrow[l].bid].bidder
                 /\ listings[l].status = IF escrow[l].status = "settled"
                                         THEN "settled" ELSE "accepted"

\* A trade has one verdict: confirmations, disputes and sweeps that race leave
\* at most one of market.settled and market.disputed in the audit chain, once,
\* and it is what happened to the escrow.
OneVerdict ==
    \A l \in Listing :
        /\ events[l]["settled"] + events[l]["disputed"] + disputes[l] <=
              IF escrow[l].status = "frozen" THEN 2 ELSE 1
        /\ events[l]["settled"] > 0 => escrow[l].status = "settled"
        /\ events[l]["disputed"] + disputes[l] > 0 => escrow[l].status = "frozen"
        /\ events[l]["tax"] <= events[l]["settled"]

\* The police hear of every dispute and the audit chain shows it, although
\* neither the route nor the sweep tries again what failed: what is missing was
\* cut off in the very request, or the very item of a sweep, that committed the
\* dispute.  (A citizen may report it as well, so investigations repeat.)
OnItsWay(l) ==
    \/ \E h \in Handler : l \in Pursued(handler[h])
    \/ \E s \in Sweep : l \in Pursued(sweep[s])
DisputeReachesPolice ==
    \A l \in Listing : disputes[l] > 0 =>
        \/ investigations[l] > 0 /\ events[l]["disputed"] > 0
        \/ OnItsWay(l) \/ l \in cut

\* The wei of a buyer leaves escrow at most once, all of it: the marketplace
\* implements Escrow, an escrow row being held from the accept to the settlement.
\* (Nothing implements the return of Escrow: see the README.)
Phase(l) ==
    CASE Open(l) -> "held"
      [] escrow[l].status = "settled" -> "paid"
      [] escrow[l] = NoEscrow -> "none"
Deposited(l) == IF escrow[l] = NoEscrow THEN 0 ELSE escrow[l].amount

E == INSTANCE Escrow WITH
        Job <- Listing,
        Wei <- Offer,
        status <- [l \in Listing |-> Phase(l)],
        deposit <- [l \in Listing |-> Deposited(l)]

ImplementsEscrow == E!Spec

\* No escrow is forgotten: after the timeout a sweep freezes what the parties
\* have not settled, although sweeps are skipped, overlap and die, and although
\* the clock they compare with starts again at 0 when the process restarts.
HeldIsResolved == \A l \in Listing : Held(l) ~> ~Held(l)

\* market.ts:402-404: "min-price guard ensures irsFee >= 1n always", so that every
\* settlement pays a tax and emits irs.tax_collected.
SettlementIsTaxed ==
    \A l \in Listing : escrow[l].status = "settled" => sent[l].treasury >= 1

\* 44-CONTEXT.md:32: a dispute is fired "if both buyer_confirmed and
\* seller_confirmed don't arrive within the settlement timeout".
\* A sweep does not dispute a trade that both parties have confirmed.
ConfirmedIsNotDisputed ==
    [][\A s \in Sweep, l \in Listing :
          sweep'[s].pc = "emit" /\ sweep'[s].l = l /\ sweep[s].pc = "item"
              => escrow[l].confirmed # {"buyer", "seller"}]_vars
=============================================================================
