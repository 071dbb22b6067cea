-------------------------- MODULE MarketplaceProofs --------------------------
(* What holds of the marketplace for any accounts, listings, bids, prices,  *)
(* requests, sweeps, failures and crashes.                                  *)
EXTENDS Marketplace, Sums

USE DEF vars, rows, money

-----------------------------------------------------------------------------
(* Types, table by table, with the local states of requests and sweeps.     *)
ListingRow == [status : {"active", "accepted", "settled"}, seller : Account, price : Price]
BidRow == [status : {"pending", "accepted", "rejected"}, l : Listing, bidder : Account,
           offer : Offer]
Serving ==
  [pc : {"reject"}, b : Bid] \cup [pc : {"rate"}, l : Listing] \cup
  [pc : {"settle"}, l : Listing, rate : 100..300] \cup
  [pc : {"settled"}, l : Listing, fee : Nat] \cup
  [pc : {"skim", "dispute", "police", "emit"}, l : Listing]
Scanning ==
  [pc : {"item"}, todo : SUBSET Listing] \cup
  [pc : {"emit", "police"}, l : Listing, todo : SUBSET Listing]

Clock == tick \in 0..MaxTick /\ faults \in 0..MaxFaults
Purses == accounts \in [Account -> Nat] /\ treasury \in Nat
Trades ==
  /\ listings \in [Listing -> ListingRow \cup {Unlisted}]
  /\ bids \in [Bid -> BidRow \cup {NoBid}]
Escrows == escrow \in [Listing -> EscrowRow \cup {NoEscrow}]
Records ==
  /\ disputes \in [Listing -> Nat] /\ investigations \in [Listing -> Nat]
  /\ events \in [Listing -> [EventKind -> Nat]] /\ cut \subseteq Listing
Outflow == sent \in [Listing -> [worker : Nat, treasury : Nat, payer : Nat]]
Requests == handler \in [Handler -> Serving \cup {Idle}]
Sweeps == sweep \in [Sweep -> Scanning \cup {Idle}]

Types == Clock /\ Purses /\ Trades /\ Escrows /\ Records /\ Outflow /\ Requests /\ Sweeps

LEMMA TypesImply == Types => TypeOK
<1> SUFFICES ASSUME Types PROVE TypeOK
  OBVIOUS
<1> USE DEF Types
<1>1. \A l \in Listing :
         /\ listings[l] = Unlisted \/ listings[l] \in ListingRow
         /\ escrow[l] = NoEscrow \/ escrow[l] \in EscrowRow
  BY DEF Trades, Escrows
<1>2. \A b \in Bid : bids[b] = NoBid \/ bids[b] \in BidRow   BY DEF Trades
<1> QED BY <1>1, <1>2, Zenon DEF TypeOK, Clock, Purses, Records, Outflow, ListingRow, BidRow

(* A share of an amount, in basis points, is a part of it.                  *)
LEMMA ShareIsPart ==
  ASSUME NEW wei \in Nat, NEW bps \in Nat, bps <= 10000
  PROVE  Fee(wei, bps) \in 0..wei
<1>1. wei * bps \in Nat /\ wei * bps <= wei * 10000   BY Z3
<1>2. PICK m \in Nat : m = wei * bps   BY <1>1
<1>3. m <= 10000 * wei   BY <1>1, <1>2
<1>4. m \div 10000 \in Nat /\ m \div 10000 <= wei   BY <1>3, SMT
<1>5. Fee(wei, bps) = m \div 10000   BY <1>2 DEF Fee
<1> QED BY <1>4, <1>5

LEMMA FeeIsPart ==
  ASSUME NEW wei \in Nat, NEW bps \in 100..300
  PROVE  Fee(wei, bps) \in 0..wei /\ Fee(wei, bps) \in Nat
<1>1. bps \in Nat /\ bps <= 10000   OBVIOUS
<1>2. Fee(wei, bps) \in 0..wei   BY ShareIsPart
<1> QED BY <1>2

(* Rows that are there have the fields of a row, and requests and sweeps    *)
(* that go on have what their next step needs.                              *)
LEMMA RowOfBid ==
  ASSUME Trades, NEW b \in Bid, bids[b].status # "none" \/ bids[b] # NoBid
  PROVE  bids[b] \in BidRow
  BY DEF Trades, NoBid

LEMMA RowOfListing ==
  ASSUME Trades, NEW l \in Listing, listings[l].status # "none" \/ listings[l] # Unlisted
  PROVE  listings[l] \in ListingRow
  BY DEF Trades, Unlisted

LEMMA RowOfEscrow ==
  ASSUME Escrows, NEW l \in Listing, escrow[l].status # "none" \/ escrow[l] # NoEscrow
  PROVE  /\ escrow[l] \in EscrowRow
         /\ escrow[l].bid \in Bid /\ escrow[l].buyer \in Account /\ escrow[l].seller \in Account
         /\ escrow[l].amount \in Nat \ {0} /\ escrow[l].amount \in Offer
<1>1. escrow[l] \in EscrowRow   BY DEF Escrows, NoEscrow
<1>2. escrow[l].amount \in Offer   BY <1>1 DEF EscrowRow
<1>3. Offer \subseteq Nat \ {0}   BY ConstantsAssumption DEF ConstantsAssumption
<1>4. escrow[l].amount \in Nat \ {0}   BY <1>2, <1>3
<1> QED BY <1>1, <1>2, <1>4 DEF EscrowRow

LEMMA ServingOf ==
  ASSUME Requests, NEW h \in Handler
  PROVE  /\ handler[h].pc = "reject" => handler[h].b \in Bid
         /\ handler[h].pc \in {"rate", "settle", "settled", "skim", "dispute", "police", "emit"}
               => handler[h].l \in Listing
         /\ handler[h].pc = "settle" => handler[h].rate \in 100..300
         /\ handler[h].pc = "settled" => handler[h].fee \in Nat
<1>1. handler[h] \in Serving \cup {Idle}   BY DEF Requests
<1> QED BY <1>1 DEF Serving, Idle

LEMMA ScanningOf ==
  ASSUME Sweeps, NEW s \in Sweep, sweep[s].pc # "idle" \/ sweep[s] # Idle
  PROVE  /\ sweep[s].todo \in SUBSET Listing
         /\ sweep[s].pc \in {"item", "emit", "police"}
         /\ sweep[s].pc # "item" => sweep[s].l \in Listing
<1>1. sweep[s] \in Scanning   BY DEF Sweeps, Idle
<1> QED BY <1>1 DEF Scanning

LEMMA TypesInit == ASSUME Init PROVE Types
<1>1. Clock /\ Purses   BY ConstantsAssumption DEF Init, Clock, Purses
<1>2. Trades /\ Escrows   BY DEF Init, Trades, Escrows
<1>3. Records /\ Outflow   BY DEF Init, Records, Outflow, Nothing
<1>4. Requests /\ Sweeps   BY DEF Init, Requests, Sweeps
<1> QED BY <1>1, <1>2, <1>3, <1>4 DEF Types

(* Who writes what.                                                         *)
LEMMA TradingWrites ==
  ASSUME Trading
  PROVE  UNCHANGED <<tick, treasury, sent, disputes, investigations, events,
                     handler, sweep, cut, faults>>
<1> PICK l \in Listing, did \in Account :
       \/ \E price \in Price : CreateListing(l, did, price)
       \/ \E b \in Bid, offer \in Offer : PlaceBid(b, l, did, offer)
       \/ \E b \in Bid, at \in 0..MaxTick : AcceptBid(b, did, at)
  BY Zenon DEF Trading
<1> QED BY DEF CreateListing, PlaceBid, AcceptBid

LEMMA RequestWrites ==
  ASSUME NEW h \in Handler, Request(h)
  PROVE  UNCHANGED <<tick, accounts, treasury, sent, listings, bids, disputes, investigations,
                     events, sweep, cut, faults>>
  BY DEF Request, Confirm, DisputeRead, RejectRead

LEMMA ContinueWrites ==
  ASSUME NEW h \in Handler, Continue(h)
  PROVE  /\ UNCHANGED <<tick, sweep, cut, faults>>
         /\ UNCHANGED <<listings, sent>> \/ Settle(h)
         /\ UNCHANGED bids \/ RejectBid(h)
         /\ UNCHANGED <<accounts, treasury>> \/ Settle(h) \/ Skim(h)
         /\ UNCHANGED escrow \/ Settle(h) \/ Dispute(h)
         /\ UNCHANGED disputes \/ Dispute(h)
         /\ UNCHANGED investigations \/ DisputePolice(h)
         /\ UNCHANGED events \/ EmitSettled(h) \/ DisputeEmit(h)
<1>1. CASE RejectBid(h)   BY <1>1 DEF RejectBid
<1>2. CASE \E rate \in Rate : ReadRate(h, rate)   BY <1>2 DEF ReadRate
<1>3. CASE Settle(h)   BY <1>3 DEF Settle
<1>4. CASE SettleRefused(h)   BY <1>4 DEF SettleRefused
<1>5. CASE EmitSettled(h)   BY <1>5 DEF EmitSettled
<1>6. CASE Skim(h)   BY <1>6 DEF Skim
<1>7. CASE Dispute(h)   BY <1>7 DEF Dispute
<1>8. CASE DisputePolice(h)   BY <1>8 DEF DisputePolice
<1>9. CASE DisputeEmit(h)   BY <1>9 DEF DisputeEmit
<1> QED BY <1>1, <1>2, <1>3, <1>4, <1>5, <1>6, <1>7, <1>8, <1>9, Zenon DEF Continue

LEMMA SweepingWrites ==
  ASSUME NEW s \in Sweep, Sweeping(s)
  PROVE  /\ UNCHANGED <<tick, accounts, treasury, sent, listings, bids, handler, cut, faults>>
         /\ UNCHANGED <<escrow, disputes>> \/ \E l \in Listing : SweepDispute(s, l)
         /\ UNCHANGED investigations \/ SweepPolice(s)
         /\ UNCHANGED events \/ SweepEmit(s)
<1>1. CASE SweepList(s)   BY <1>1 DEF SweepList
<1>2. CASE SweepEmit(s)   BY <1>2 DEF SweepEmit
<1>3. CASE SweepPolice(s)   BY <1>3 DEF SweepPolice
<1>4. ASSUME NEW l \in Listing, SweepDispute(s, l)
      PROVE  UNCHANGED <<tick, accounts, treasury, sent, listings, bids, investigations, events,
                         handler, cut, faults>>
  BY <1>4 DEF SweepDispute
<1> QED BY <1>1, <1>2, <1>3, <1>4, Zenon DEF Sweeping

(* Failures, crashes and the clock leave every table alone, and a report    *)
(* adds an investigation.                                                   *)
Outside ==
  \/ \E h \in Handler : RequestFails(h)
  \/ \E s \in Sweep : SweepItemFails(s)
  \/ \E l \in Listing : ReportDispute(l)
  \/ Tick \/ Crash

(* Every step, by the kind of actor.                                        *)
LEMMA Steps ==
  ASSUME Next
  PROVE  \/ Trading \/ (\E h \in Handler : Request(h)) \/ (\E h \in Handler : Continue(h))
         \/ (\E s \in Sweep : Sweeping(s)) \/ Outside
  BY Zenon DEF Next, Outside

LEMMA OutsideWrites ==
  ASSUME Outside
  PROVE  /\ UNCHANGED <<money, listings, bids, escrow, disputes, events>>
         /\ UNCHANGED investigations \/ \E l \in Listing : ReportDispute(l)
<1>1. ASSUME NEW h \in Handler, RequestFails(h) PROVE UNCHANGED <<money, rows, events>>
  BY <1>1 DEF RequestFails
<1>2. ASSUME NEW s \in Sweep, SweepItemFails(s) PROVE UNCHANGED <<money, rows, events>>
  BY <1>2 DEF SweepItemFails
<1>3. ASSUME NEW l \in Listing, ReportDispute(l)
      PROVE  UNCHANGED <<money, listings, bids, escrow, disputes, events>>
  BY <1>3 DEF ReportDispute
<1>4. CASE Tick \/ Crash   BY <1>4 DEF Tick, Crash
<1> QED BY <1>1, <1>2, <1>3, <1>4, Zenon DEF Outside

LEMMA FaultBound == ASSUME Clock, Fault PROVE faults' \in 0..MaxFaults
  BY ConstantsAssumption DEF ConstantsAssumption, Clock, Fault

LEMMA ClockStep == ASSUME Types, Next PROVE Clock'
<1> USE DEF Types, Clock
<1>1. CASE Trading   BY <1>1, TradingWrites
<1>2. ASSUME NEW h \in Handler, Request(h) PROVE Clock'   BY <1>2, RequestWrites
<1>3. ASSUME NEW h \in Handler, Continue(h) PROVE Clock'   BY <1>3, ContinueWrites
<1>4. ASSUME NEW s \in Sweep, Sweeping(s) PROVE Clock'   BY <1>4, SweepingWrites
<1>5. ASSUME UNCHANGED tick \/ tick' = 0, Fault PROVE Clock'
  BY <1>5, FaultBound, ConstantsAssumption DEF ConstantsAssumption
<1>6. ASSUME NEW h \in Handler, RequestFails(h) PROVE Clock'   BY <1>5, <1>6 DEF RequestFails
<1>7. ASSUME NEW s \in Sweep, SweepItemFails(s) PROVE Clock'   BY <1>5, <1>7 DEF SweepItemFails
<1>8. CASE Tick   BY <1>8, ConstantsAssumption DEF ConstantsAssumption, Tick
<1>9. CASE Crash   BY <1>5, <1>9 DEF Crash
<1>10. ASSUME NEW l \in Listing, ReportDispute(l) PROVE Clock'   BY <1>10 DEF ReportDispute
<1> QED BY <1>1, <1>2, <1>3, <1>4, <1>6, <1>7, <1>8, <1>9, <1>10, Steps DEF Outside

LEMMA TradesStep == ASSUME Types, OneDeal, Next PROVE Trades'
<1> USE DEF Types
<1>1. CASE Trading
  <2> PICK l \in Listing, did \in Account :
         \/ \E price \in Price : CreateListing(l, did, price)
         \/ \E b \in Bid, offer \in Offer : PlaceBid(b, l, did, offer)
         \/ \E b \in Bid, at \in 0..MaxTick : AcceptBid(b, did, at)
    BY <1>1, Zenon DEF Trading
  <2>1. ASSUME NEW price \in Price, CreateListing(l, did, price) PROVE Trades'
    BY <2>1 DEF Trades, CreateListing, ListingRow
  <2>2. ASSUME NEW b \in Bid, NEW offer \in Offer, PlaceBid(b, l, did, offer) PROVE Trades'
    BY <2>2 DEF Trades, PlaceBid, BidRow
  <2>3. ASSUME NEW b \in Bid, NEW at \in 0..MaxTick, AcceptBid(b, did, at) PROVE Trades'
    <3>1. bids[b] \in BidRow   BY <2>3, RowOfBid DEF AcceptBid
    <3> PICK k \in Listing : k = bids[b].l   BY <3>1 DEF BidRow
    <3>2. listings[k] \in ListingRow
      BY <2>3 DEF AcceptBid, Acceptable, Trades, Unlisted
    <3>3. [bids[b] EXCEPT !.status = "accepted"] \in BidRow   BY <3>1 DEF BidRow
    <3>4. [listings[k] EXCEPT !.status = "accepted"] \in ListingRow   BY <3>2 DEF ListingRow
    <3>5. /\ bids' = [bids EXCEPT ![b] = [bids[b] EXCEPT !.status = "accepted"]]
          /\ listings' = [listings EXCEPT ![k] = [listings[k] EXCEPT !.status = "accepted"]]
      BY <2>3 DEF AcceptBid
    <3> QED BY <3>3, <3>4, <3>5 DEF Trades
  <2> QED BY <2>1, <2>2, <2>3
<1>2. ASSUME NEW h \in Handler, Request(h) PROVE Trades'
  BY <1>2, RequestWrites DEF Trades
<1>3. ASSUME NEW h \in Handler, Continue(h) PROVE Trades'
  <2>1. CASE RejectBid(h)
    <3> PICK b \in Bid : b = handler[h].b   BY <2>1, ServingOf DEF RejectBid
    <3>1. /\ UNCHANGED listings
          /\ \/ UNCHANGED bids
             \/ /\ bids[b].status = "pending"
                /\ bids' = [bids EXCEPT ![b] = [bids[b] EXCEPT !.status = "rejected"]]
      BY <2>1 DEF RejectBid
    <3>2. ASSUME bids[b].status = "pending"
          PROVE  [bids[b] EXCEPT !.status = "rejected"] \in BidRow
      BY <3>2, RowOfBid DEF BidRow
    <3> QED BY <3>1, <3>2 DEF Trades
  <2>2. CASE Settle(h)
    <3> PICK l \in Listing : l = handler[h].l   BY <2>2, ServingOf DEF Settle
    <3>1. /\ Held(l) /\ UNCHANGED bids
          /\ listings' = [listings EXCEPT ![l] = [listings[l] EXCEPT !.status = "settled"]]
      BY <2>2 DEF Settle, Settleable
    <3>2. listings[l].status = "accepted"   BY <3>1 DEF OneDeal, Held, NoEscrow
    <3>3. listings[l] \in ListingRow   BY <3>2, RowOfListing
    <3>4. [listings[l] EXCEPT !.status = "settled"] \in ListingRow   BY <3>3 DEF ListingRow
    <3> QED BY <3>1, <3>4 DEF Trades
  <2>3. CASE UNCHANGED <<listings, bids>>   BY <2>3 DEF Trades
  <2>4. Settle(h) => UNCHANGED bids   BY DEF Settle
  <2> QED BY <1>3, <2>1, <2>2, <2>3, <2>4, ContinueWrites
<1>4. ASSUME NEW s \in Sweep, Sweeping(s) PROVE Trades'
  BY <1>4, SweepingWrites DEF Trades
<1>5. CASE Outside   BY <1>5, OutsideWrites DEF Trades
<1> QED BY <1>1, <1>2, <1>3, <1>4, <1>5, Steps

(* A settlement takes a held escrow apart: the fee is a part of the amount. *)
Settlement(h, l, fee) ==
  /\ handler[h].pc = "settle" /\ handler[h].l = l
  /\ Held(l) /\ escrow[l] \in EscrowRow /\ fee \in 0..escrow[l].amount
  /\ accounts' = [accounts EXCEPT ![escrow[l].seller] =
                     accounts[escrow[l].seller] + (escrow[l].amount - fee)]
  /\ treasury' = treasury + fee
  /\ sent' = [sent EXCEPT ![l] = [worker |-> sent[l].worker + (escrow[l].amount - fee),
                                 treasury |-> sent[l].treasury + fee,
                                 payer |-> sent[l].payer + 0]]
  /\ escrow' = [escrow EXCEPT ![l] = [escrow[l] EXCEPT !.status = "settled"]]
  /\ listings' = [listings EXCEPT ![l] = [listings[l] EXCEPT !.status = "settled"]]
  /\ handler' = [handler EXCEPT ![h] = [pc |-> "settled", l |-> l, fee |-> fee]]

LEMMA SettleEffect ==
  ASSUME Types, NEW h \in Handler, Settle(h)
  PROVE  \E l \in Listing, fee \in Nat : Settlement(h, l, fee)
<1> USE DEF Types
<1>0. handler[h].pc = "settle"   BY DEF Settle
<1> PICK l \in Listing : l = handler[h].l   BY <1>0, ServingOf
<1>1. handler[h].pc = "settle" /\ Held(l)   BY DEF Settle, Settleable
<1> PICK r : r = handler[h].rate   OBVIOUS
<1>2. r \in 100..300   BY <1>1, ServingOf
<1>3. escrow[l] \in EscrowRow /\ escrow[l].amount \in Nat   BY <1>1, RowOfEscrow DEF Held
<1> PICK wei \in Nat : wei = escrow[l].amount   BY <1>3
<1> PICK fee : fee = Fee(wei, r)   OBVIOUS
<1>4. fee \in 0..wei /\ fee \in Nat   BY <1>2, FeeIsPart
<1>5. /\ Payout(l, r).worker = escrow[l].amount - fee
      /\ Payout(l, r).treasury = fee /\ Payout(l, r).payer = 0
  BY DEF Payout
<1>6. /\ accounts' = [accounts EXCEPT ![escrow[l].seller] =
                        accounts[escrow[l].seller] + (escrow[l].amount - fee)]
      /\ treasury' = treasury + fee
      /\ handler' = [handler EXCEPT ![h] = [pc |-> "settled", l |-> l, fee |-> fee]]
  BY <1>5 DEF Settle, Goto
<1>7. sent' = [sent EXCEPT ![l] = [f \in {"worker", "treasury", "payer"} |->
                                      sent[l][f] + Payout(l, r)[f]]]
  BY DEF Settle
<1>8. [f \in {"worker", "treasury", "payer"} |-> sent[l][f] + Payout(l, r)[f]]
      = [worker |-> sent[l].worker + (escrow[l].amount - fee),
         treasury |-> sent[l].treasury + fee, payer |-> sent[l].payer + 0]
  BY <1>5
<1>9. /\ escrow' = [escrow EXCEPT ![l] = [escrow[l] EXCEPT !.status = "settled"]]
      /\ listings' = [listings EXCEPT ![l] = [listings[l] EXCEPT !.status = "settled"]]
  BY DEF Settle
<1>10. Settlement(h, l, fee)   BY <1>1, <1>3, <1>4, <1>6, <1>7, <1>8, <1>9, Zenon DEF Settlement
<1> QED BY <1>4, <1>10

(* A request that is past the settlement of a trade finds it settled.        *)
Closing ==
  \A h \in Handler :
     handler[h].pc \in {"settled", "skim"} => escrow[handler[h].l].status = "settled"

(* The zone tax moves an amount the seller has, or nothing.                 *)
LEMMA SkimEffect ==
  ASSUME Types, Closing, NEW h \in Handler, Skim(h)
  PROVE  \/ UNCHANGED <<accounts, treasury>>
         \/ \E seller \in Account, due \in Nat :
               /\ accounts[seller] >= due
               /\ accounts' = [accounts EXCEPT ![seller] = accounts[seller] - due]
               /\ treasury' = treasury + due
<1> USE DEF Types
<1>1. handler[h].pc = "skim"   BY DEF Skim
<1> PICK l \in Listing : l = handler[h].l   BY <1>1, ServingOf
<1>2. escrow[l].status = "settled"   BY <1>1 DEF Closing
<1>3. escrow[l].seller \in Account /\ escrow[l].amount \in Nat   BY <1>2, RowOfEscrow
<1> PICK wei \in Nat : wei = escrow[l].amount   BY <1>3
<1> PICK due : due = Fee(wei, SkimBps)   OBVIOUS
<1>4. SkimBps \in Nat /\ SkimBps <= 10000   BY ConstantsAssumption DEF ConstantsAssumption
<1>5. due \in Nat
  <2>1. Fee(wei, SkimBps) \in 0..wei   BY <1>4, ShareIsPart
  <2> QED BY <2>1
<1> PICK seller \in Account : seller = escrow[l].seller   BY <1>3
<1>6. LET k == handler[h].l
          payer == escrow[k].seller
          tax == Fee(escrow[k].amount, SkimBps)
          charged == tax > 0 /\ accounts[payer] >= tax
      IN  /\ accounts' = IF charged
                         THEN [accounts EXCEPT ![payer] = accounts[payer] - tax] ELSE accounts
          /\ treasury' = IF charged THEN treasury + tax ELSE treasury
  BY DEF Skim, Fee
<1>7. /\ accounts' = IF due > 0 /\ accounts[seller] >= due
                     THEN [accounts EXCEPT ![seller] = accounts[seller] - due] ELSE accounts
      /\ treasury' = IF due > 0 /\ accounts[seller] >= due THEN treasury + due ELSE treasury
  BY <1>6
<1>8. CASE due > 0 /\ accounts[seller] >= due   BY <1>5, <1>7, <1>8
<1>9. CASE ~(due > 0 /\ accounts[seller] >= due)   BY <1>7, <1>9
<1> QED BY <1>8, <1>9

(* Accepting a bid takes its offer from the bidder and funds the escrow.    *)
Funding(b, at, l, bidder, offer) ==
  /\ bids[b] = [status |-> "pending", l |-> l, bidder |-> bidder, offer |-> offer]
  /\ listings[l] \in ListingRow /\ listings[l].status = "active"
  /\ offer \in Nat \ {0} /\ accounts[bidder] >= offer
  /\ accounts' = [accounts EXCEPT ![bidder] = accounts[bidder] - offer]
  /\ escrow' = [escrow EXCEPT ![l] =
                  [status |-> "held", bid |-> b, buyer |-> bidder,
                   seller |-> listings[l].seller, amount |-> offer,
                   confirmed |-> {}, acceptedAt |-> at]]
  /\ listings' = [listings EXCEPT ![l] = [listings[l] EXCEPT !.status = "accepted"]]
  /\ bids' = [bids EXCEPT ![b] = [bids[b] EXCEPT !.status = "accepted"]]

LEMMA AcceptEffect ==
  ASSUME Types, NEW b \in Bid, NEW caller \in Account, NEW at \in 0..MaxTick,
         AcceptBid(b, caller, at)
  PROVE  \E l \in Listing, bidder \in Account, offer \in Offer :
            Funding(b, at, l, bidder, offer)
<1> USE DEF Types
<1>1. bids[b] \in BidRow /\ bids[b].status = "pending"
  BY RowOfBid DEF AcceptBid, Acceptable
<1> PICK l \in Listing, bidder \in Account, offer \in Offer :
         l = bids[b].l /\ bidder = bids[b].bidder /\ offer = bids[b].offer
  BY <1>1 DEF BidRow
<1>2. bids[b] = [status |-> "pending", l |-> l, bidder |-> bidder, offer |-> offer]
  BY <1>1 DEF BidRow
<1>3. listings[l] \in ListingRow /\ listings[l].status = "active"
  BY RowOfListing DEF AcceptBid, Acceptable
<1>4. offer \in Nat \ {0}   BY ConstantsAssumption DEF ConstantsAssumption
<1>5. /\ accounts[bidder] >= offer
      /\ accounts' = [accounts EXCEPT ![bidder] = accounts[bidder] - offer]
  BY DEF AcceptBid, Acceptable
<1>6. /\ escrow' = [escrow EXCEPT ![l] =
                      [status |-> "held", bid |-> b, buyer |-> bidder,
                       seller |-> listings[l].seller, amount |-> offer,
                       confirmed |-> {}, acceptedAt |-> at]]
      /\ listings' = [listings EXCEPT ![l] = [listings[l] EXCEPT !.status = "accepted"]]
      /\ bids' = [bids EXCEPT ![b] = [bids[b] EXCEPT !.status = "accepted"]]
  BY DEF AcceptBid
<1>7. Funding(b, at, l, bidder, offer)
  BY <1>2, <1>3, <1>4, <1>5, <1>6, Zenon DEF Funding
<1> QED BY <1>7

LEMMA TradingKinds ==
  ASSUME Trading
  PROVE  \E l \in Listing, did \in Account :
           \/ \E price \in Price : CreateListing(l, did, price)
           \/ \E b \in Bid, offer \in Offer : PlaceBid(b, l, did, offer)
           \/ \E b \in Bid, at \in 0..MaxTick : AcceptBid(b, did, at)
  BY Zenon DEF Trading

LEMMA PursesStep == ASSUME Types, Closing, Next PROVE Purses'
<1> USE DEF Types, Purses
<1>1. CASE Trading
  <2> PICK l \in Listing, did \in Account :
         \/ \E price \in Price : CreateListing(l, did, price)
         \/ \E b \in Bid, offer \in Offer : PlaceBid(b, l, did, offer)
         \/ \E b \in Bid, at \in 0..MaxTick : AcceptBid(b, did, at)
    BY <1>1, TradingKinds
  <2>1. treasury' = treasury   BY <1>1, TradingWrites
  <2>2. ASSUME NEW price \in Price, CreateListing(l, did, price) PROVE accounts' = accounts
    BY <2>2 DEF CreateListing
  <2>3. ASSUME NEW b \in Bid, NEW offer \in Offer, PlaceBid(b, l, did, offer)
        PROVE  accounts' = accounts
    BY <2>3 DEF PlaceBid
  <2>4. ASSUME NEW b \in Bid, NEW at \in 0..MaxTick, AcceptBid(b, did, at)
        PROVE  accounts' \in [Account -> Nat]
    <3> PICK k \in Listing, bidder \in Account, offer \in Offer :
             Funding(b, at, k, bidder, offer)
      BY <2>4, AcceptEffect
    <3>1. accounts[bidder] - offer \in Nat   BY DEF Funding
    <3> QED BY <3>1 DEF Funding
  <2> QED BY <2>1, <2>2, <2>3, <2>4
<1>2. ASSUME NEW h \in Handler, Request(h) PROVE Purses'   BY <1>2, RequestWrites
<1>3. ASSUME NEW h \in Handler, Continue(h) PROVE Purses'
  <2>1. CASE Settle(h)
    <3> PICK l \in Listing, fee \in Nat : Settlement(h, l, fee)   BY <2>1, SettleEffect
    <3>1. escrow[l].seller \in Account /\ escrow[l].amount \in Nat
      BY RowOfEscrow DEF Settlement, Held
    <3>2. accounts[escrow[l].seller] + (escrow[l].amount - fee) \in Nat
      BY <3>1 DEF Settlement
    <3> QED BY <3>1, <3>2 DEF Settlement
  <2>2. CASE Skim(h)
    <3>1. CASE UNCHANGED <<accounts, treasury>>   BY <3>1
    <3>2. ASSUME NEW seller \in Account, NEW due \in Nat, accounts[seller] >= due,
                 accounts' = [accounts EXCEPT ![seller] = accounts[seller] - due],
                 treasury' = treasury + due
          PROVE  Purses'
      <4>1. accounts[seller] - due \in Nat   BY <3>2
      <4> QED BY <3>2, <4>1
    <3> QED BY <2>2, <3>1, <3>2, SkimEffect
  <2> QED BY <1>3, <2>1, <2>2, ContinueWrites
<1>4. ASSUME NEW s \in Sweep, Sweeping(s) PROVE Purses'   BY <1>4, SweepingWrites
<1>5. CASE Outside   BY <1>5, OutsideWrites
<1> QED BY <1>1, <1>2, <1>3, <1>4, <1>5, Steps

LEMMA EscrowsStep == ASSUME Types, Next PROVE Escrows'
<1> USE DEF Types, Escrows
<1>1. CASE Trading
  <2> PICK l \in Listing, did \in Account :
         \/ \E price \in Price : CreateListing(l, did, price)
         \/ \E b \in Bid, offer \in Offer : PlaceBid(b, l, did, offer)
         \/ \E b \in Bid, at \in 0..MaxTick : AcceptBid(b, did, at)
    BY <1>1, TradingKinds
  <2>2. ASSUME NEW price \in Price, CreateListing(l, did, price) PROVE escrow' = escrow
    BY <2>2 DEF CreateListing
  <2>3. ASSUME NEW b \in Bid, NEW offer \in Offer, PlaceBid(b, l, did, offer)
        PROVE  escrow' = escrow
    BY <2>3 DEF PlaceBid
  <2>4. ASSUME NEW b \in Bid, NEW at \in 0..MaxTick, AcceptBid(b, did, at)
        PROVE  Escrows'
    <3> PICK k \in Listing, bidder \in Account, offer \in Offer :
             Funding(b, at, k, bidder, offer)
      BY <2>4, AcceptEffect
    <3>1. [status |-> "held", bid |-> b, buyer |-> bidder, seller |-> listings[k].seller,
           amount |-> offer, confirmed |-> {}, acceptedAt |-> at] \in EscrowRow
      BY DEF EscrowRow, ListingRow, Funding
    <3> QED BY <3>1 DEF Funding
  <2> QED BY <2>2, <2>3, <2>4
<1>2. ASSUME NEW h \in Handler, Request(h) PROVE Escrows'
  <2>1. ASSUME NEW l \in Listing, NEW caller \in Account, NEW party \in {"buyer", "seller"},
               Confirm(h, l, caller, party)
        PROVE  Escrows'
    <3>1. escrow[l] \in EscrowRow   BY <2>1, RowOfEscrow DEF Confirm, Held
    <3>2. [escrow[l] EXCEPT !.confirmed = escrow[l].confirmed \cup {party}] \in EscrowRow
      BY <3>1 DEF EscrowRow
    <3>3. escrow' = [escrow EXCEPT ![l] =
                       [escrow[l] EXCEPT !.confirmed = escrow[l].confirmed \cup {party}]]
      BY <2>1 DEF Confirm
    <3> QED BY <3>2, <3>3
  <2>2. CASE UNCHANGED escrow   BY <2>2
  <2> QED BY <1>2, <2>1, <2>2 DEF Request, DisputeRead, RejectRead
<1>3. ASSUME NEW l \in Listing, Freeze(l), Held(l) PROVE Escrows'
  <2>1. escrow[l] \in EscrowRow   BY <1>3, RowOfEscrow DEF Held
  <2>2. [escrow[l] EXCEPT !.status = "frozen"] \in EscrowRow   BY <2>1 DEF EscrowRow
  <2>3. escrow' = [escrow EXCEPT ![l] = [escrow[l] EXCEPT !.status = "frozen"]]
    BY <1>3 DEF Freeze
  <2> QED BY <2>2, <2>3
<1>4. ASSUME NEW h \in Handler, Continue(h) PROVE Escrows'
  <2>1. CASE Settle(h)
    <3> PICK l \in Listing, fee \in Nat : Settlement(h, l, fee)   BY <2>1, SettleEffect
    <3>1. [escrow[l] EXCEPT !.status = "settled"] \in EscrowRow   BY DEF Settlement, EscrowRow
    <3> QED BY <3>1 DEF Settlement
  <2>2. CASE Dispute(h)
    <3>1. handler[h].pc = "dispute"   BY <2>2 DEF Dispute
    <3> PICK l \in Listing : l = handler[h].l   BY <3>1, ServingOf
    <3>2. (Held(l) /\ Freeze(l)) \/ UNCHANGED escrow   BY <2>2 DEF Dispute, Disputable
    <3> QED BY <1>3, <3>2
  <2> QED BY <1>4, <2>1, <2>2, ContinueWrites
<1>5. ASSUME NEW s \in Sweep, Sweeping(s) PROVE Escrows'
  <2>1. ASSUME NEW l \in Listing, SweepDispute(s, l) PROVE Escrows'
    <3>1. (Held(l) /\ Freeze(l)) \/ UNCHANGED escrow   BY <2>1 DEF SweepDispute, Disputable
    <3> QED BY <1>3, <3>1
  <2> QED BY <1>5, <2>1, SweepingWrites
<1>6. CASE Outside   BY <1>6, OutsideWrites
<1> QED BY <1>1, <1>2, <1>4, <1>5, <1>6, Steps

(* The rows and events of one listing are written at a time.                *)
LEMMA EmitTypes ==
  ASSUME Records, NEW l \in Listing, NEW kinds, Emit(l, kinds)
  PROVE  events' \in [Listing -> [EventKind -> Nat]]
<1> DEFINE emitted == [k \in EventKind |-> IF k \in kinds THEN events[l][k] + 1 ELSE events[l][k]]
<1>1. emitted \in [EventKind -> Nat]   BY DEF Records
<1>2. events' = [events EXCEPT ![l] = emitted]   BY DEF Emit
<1> HIDE DEF emitted
<1> QED BY <1>1, <1>2 DEF Records

LEMMA RecordsStep == ASSUME Types, Next PROVE Records'
<1> USE DEF Types
<1>1. CASE UNCHANGED <<disputes, investigations, events, cut>>   BY <1>1 DEF Records
<1>2. ASSUME NEW l \in Listing, Freeze(l), UNCHANGED <<investigations, events, cut>>
      PROVE  Records'
  BY <1>2 DEF Records, Freeze
<1>3. ASSUME NEW l \in Listing, Investigate(l), UNCHANGED <<disputes, events, cut>>
      PROVE  Records'
  BY <1>3 DEF Records, Investigate
<1>4. ASSUME NEW l \in Listing, NEW kinds, Emit(l, kinds), UNCHANGED <<disputes, investigations, cut>>
      PROVE  Records'
  BY <1>4, EmitTypes DEF Records
<1>5. ASSUME NEW h \in Handler, Continue(h) PROVE Records'
  <2>1. CASE Dispute(h)
    <3>1. handler[h].l \in Listing   BY <2>1, ServingOf DEF Dispute
    <3>2. /\ UNCHANGED <<investigations, events, cut>>
          /\ Freeze(handler[h].l) \/ UNCHANGED disputes
      BY <2>1 DEF Dispute
    <3> QED BY <1>1, <1>2, <3>1, <3>2
  <2>2. CASE DisputePolice(h)
    <3>1. handler[h].l \in Listing   BY <2>2, ServingOf DEF DisputePolice
    <3> QED BY <1>3, <2>2, <3>1 DEF DisputePolice
  <2>3. CASE EmitSettled(h)
    <3>1. handler[h].l \in Listing   BY <2>3, ServingOf DEF EmitSettled
    <3>2. PICK kinds : Emit(handler[h].l, kinds) /\ UNCHANGED <<disputes, investigations, cut>>
      BY <2>3, Zenon DEF EmitSettled
    <3> QED BY <1>4, <3>1, <3>2
  <2>4. CASE DisputeEmit(h)
    <3>1. handler[h].l \in Listing   BY <2>4, ServingOf DEF DisputeEmit
    <3>2. PICK kinds : Emit(handler[h].l, kinds) /\ UNCHANGED <<disputes, investigations, cut>>
      BY <2>4, Zenon DEF DisputeEmit
    <3> QED BY <1>4, <3>1, <3>2
  <2> QED BY <1>1, <1>5, <2>1, <2>2, <2>3, <2>4, ContinueWrites
<1>6. ASSUME NEW s \in Sweep, Sweeping(s) PROVE Records'
  <2>1. ASSUME NEW l \in Listing, SweepDispute(s, l) PROVE Records'
    <3>1. /\ UNCHANGED <<investigations, events, cut>>
          /\ Freeze(l) \/ UNCHANGED disputes
      BY <2>1 DEF SweepDispute
    <3> QED BY <1>1, <1>2, <3>1
  <2>2. CASE SweepPolice(s)
    <3>1. sweep[s].l \in Listing   BY <2>2, ScanningOf DEF SweepPolice
    <3> QED BY <1>3, <2>2, <3>1 DEF SweepPolice
  <2>3. CASE SweepEmit(s)
    <3>1. sweep[s].l \in Listing   BY <2>3, ScanningOf DEF SweepEmit
    <3>2. PICK kinds : Emit(sweep[s].l, kinds) /\ UNCHANGED <<disputes, investigations, cut>>
      BY <2>3, Zenon DEF SweepEmit
    <3> QED BY <1>4, <3>1, <3>2
  <2> QED BY <1>1, <1>6, <2>1, <2>2, <2>3, SweepingWrites
<1>7. ASSUME cut' \subseteq Listing, UNCHANGED <<disputes, investigations, events>>
      PROVE  Records'
  BY <1>7 DEF Records
<1>8. CASE Outside
  <2>1. ASSUME NEW l \in Listing, ReportDispute(l) PROVE Records'
    BY <1>3, <2>1 DEF ReportDispute
  <2>2. ASSUME NEW h \in Handler, RequestFails(h) PROVE Records'
    <3>1. Pursued(handler[h]) \subseteq Listing   BY ServingOf DEF Pursued
    <3> QED BY <1>7, <2>2, <3>1 DEF RequestFails, Records
  <2>3. ASSUME NEW s \in Sweep, SweepItemFails(s) PROVE Records'
    <3>1. Pursued(sweep[s]) \subseteq Listing   BY <2>3, ScanningOf DEF Pursued, SweepItemFails
    <3> QED BY <1>7, <2>3, <3>1 DEF SweepItemFails, Records
  <2>4. CASE Crash
    <3>1. \A h \in Handler : Pursued(handler[h]) \subseteq Listing   BY ServingOf DEF Pursued
    <3>2. \A s \in Sweep : Pursued(sweep[s]) \subseteq Listing   BY ScanningOf DEF Pursued
    <3>3. UNION ({Pursued(handler[h]) : h \in Handler} \cup {Pursued(sweep[s]) : s \in Sweep})
             \subseteq Listing
      BY <3>1, <3>2
    <3> QED BY <1>7, <2>4, <3>3 DEF Crash, Records
  <2>5. CASE Tick   BY <1>1, <2>5 DEF Tick
  <2> QED BY <1>8, <2>1, <2>2, <2>3, <2>4, <2>5 DEF Outside
<1> QED BY <1>1, <1>5, <1>6, <1>8, Steps, TradingWrites, RequestWrites

LEMMA OutflowStep == ASSUME Types, Next PROVE Outflow'
<1> USE DEF Types, Outflow
<1>1. CASE UNCHANGED sent   BY <1>1
<1>2. ASSUME NEW h \in Handler, Settle(h) PROVE Outflow'
  <2> PICK l \in Listing, fee \in Nat : Settlement(h, l, fee)   BY <1>2, SettleEffect
  <2> PICK paid : paid = escrow[l].amount - fee   OBVIOUS
  <2>1. paid \in Nat   BY RowOfEscrow DEF Settlement, Held
  <2>2. sent' = [sent EXCEPT ![l] = [worker |-> sent[l].worker + paid,
                                    treasury |-> sent[l].treasury + fee,
                                    payer |-> sent[l].payer + 0]]
    BY DEF Settlement
  <2>3. [worker |-> sent[l].worker + paid, treasury |-> sent[l].treasury + fee,
         payer |-> sent[l].payer + 0] \in [worker : Nat, treasury : Nat, payer : Nat]
    BY <2>1
  <2> QED BY <2>2, <2>3
<1> QED BY <1>1, <1>2, Steps, TradingWrites, RequestWrites, ContinueWrites, SweepingWrites,
           OutsideWrites

LEMMA RequestsStep == ASSUME Types, Next PROVE Requests'
<1> USE DEF Types, Requests
<1>1. ASSUME NEW h \in Handler, NEW state \in Serving \cup {Idle}, Goto(h, state) PROVE Requests'
  BY <1>1 DEF Goto
<1>2. ASSUME NEW h \in Handler, Request(h) PROVE Requests'
  <2>1. ASSUME NEW l \in Listing
        PROVE  [pc |-> "rate", l |-> l] \in Serving /\ [pc |-> "dispute", l |-> l] \in Serving
    BY DEF Serving
  <2>2. ASSUME NEW b \in Bid PROVE [pc |-> "reject", b |-> b] \in Serving   BY DEF Serving
  <2>3. \E state \in Serving \cup {Idle} : Goto(h, state)
    BY <1>2, <2>1, <2>2 DEF Request, Confirm, DisputeRead, RejectRead
  <2> QED BY <1>1, <2>3
<1>3. ASSUME NEW h \in Handler, Continue(h) PROVE Requests'
  <2>1. CASE Settle(h)
    <3> PICK l \in Listing, fee \in Nat : Settlement(h, l, fee)   BY <2>1, SettleEffect
    <3>1. [pc |-> "settled", l |-> l, fee |-> fee] \in Serving   BY DEF Serving
    <3> QED BY <1>1, <3>1 DEF Settlement, Goto
  <2>2. ASSUME NEW rate \in Rate, ReadRate(h, rate) PROVE Requests'
    <3>1. handler[h].l \in Listing   BY <2>2, ServingOf DEF ReadRate
    <3>2. rate \in 100..300 => [pc |-> "settle", l |-> handler[h].l, rate |-> rate] \in Serving
      BY <3>1 DEF Serving
    <3> QED BY <1>1, <2>2, <3>2 DEF ReadRate
  <2>3. CASE EmitSettled(h)
    <3>1. handler[h].l \in Listing   BY <2>3, ServingOf DEF EmitSettled
    <3>2. [pc |-> "skim", l |-> handler[h].l] \in Serving   BY <3>1 DEF Serving
    <3> QED BY <1>1, <2>3, <3>2 DEF EmitSettled
  <2>4. CASE Dispute(h)
    <3>1. handler[h].l \in Listing   BY <2>4, ServingOf DEF Dispute
    <3>2. [pc |-> "police", l |-> handler[h].l] \in Serving   BY <3>1 DEF Serving
    <3> QED BY <1>1, <2>4, <3>2 DEF Dispute
  <2>5. CASE DisputePolice(h)
    <3>1. handler[h].l \in Listing   BY <2>5, ServingOf DEF DisputePolice
    <3>2. [pc |-> "emit", l |-> handler[h].l] \in Serving   BY <3>1 DEF Serving
    <3> QED BY <1>1, <2>5, <3>2 DEF DisputePolice
  <2>6. CASE RejectBid(h) \/ SettleRefused(h) \/ Skim(h) \/ DisputeEmit(h)
    <3>1. CASE RejectBid(h)   BY <1>1, <3>1 DEF RejectBid
    <3>2. CASE SettleRefused(h)   BY <1>1, <3>2 DEF SettleRefused
    <3>3. CASE Skim(h)   BY <1>1, <3>3 DEF Skim
    <3>4. CASE DisputeEmit(h)   BY <1>1, <3>4 DEF DisputeEmit
    <3> QED BY <2>6, <3>1, <3>2, <3>3, <3>4
  <2> QED BY <1>3, <2>1, <2>2, <2>3, <2>4, <2>5, <2>6, Zenon DEF Continue
<1>4. CASE Trading   BY <1>4, TradingWrites
<1>5. ASSUME NEW s \in Sweep, Sweeping(s) PROVE Requests'   BY <1>5, SweepingWrites
<1>6. CASE Outside   BY <1>6 DEF Outside, RequestFails, Goto, SweepItemFails, ReportDispute, Tick, Crash
<1> QED BY <1>2, <1>3, <1>4, <1>5, <1>6, Steps

LEMMA NextItemTypes ==
  ASSUME Sweeps, NEW s \in Sweep, NEW todo \in SUBSET Listing, NextItem(s, todo)
  PROVE  Sweeps'
<1>1. [pc |-> "item", todo |-> todo] \in Scanning   BY DEF Scanning
<1> QED BY <1>1 DEF Sweeps, NextItem, GotoSweep

LEMMA SweepsStep == ASSUME Types, Next PROVE Sweeps'
<1> USE DEF Types
<1>1. ASSUME NEW s \in Sweep, Sweeping(s) PROVE Sweeps'
  <2>1. CASE SweepList(s)
    <3>1. Expired \in SUBSET Listing   BY DEF Expired
    <3> QED BY <2>1, <3>1, NextItemTypes DEF SweepList
  <2>2. ASSUME NEW l \in Listing, SweepDispute(s, l) PROVE Sweeps'
    <3>1. sweep[s].todo \ {l} \in SUBSET Listing   BY <2>2, ScanningOf DEF SweepDispute
    <3>2. [pc |-> "emit", l |-> l, todo |-> sweep[s].todo \ {l}] \in Scanning
      BY <3>1 DEF Scanning
    <3>3. \/ GotoSweep(s, [pc |-> "emit", l |-> l, todo |-> sweep[s].todo \ {l}])
          \/ NextItem(s, sweep[s].todo \ {l})
      BY <2>2, Zenon DEF SweepDispute
    <3>4. CASE NextItem(s, sweep[s].todo \ {l})   BY <3>1, <3>4, NextItemTypes
    <3> QED BY <3>2, <3>3, <3>4 DEF Sweeps, GotoSweep
  <2>3. CASE SweepEmit(s)
    <3>1. sweep[s] \in Scanning   BY <2>3 DEF SweepEmit, Sweeps, Idle
    <3>2. [sweep[s] EXCEPT !.pc = "police"] \in Scanning   BY <2>3, <3>1 DEF SweepEmit, Scanning
    <3> QED BY <2>3, <3>2 DEF SweepEmit, Sweeps, GotoSweep
  <2>4. CASE SweepPolice(s)
    <3>1. sweep[s].todo \in SUBSET Listing   BY <2>4, ScanningOf DEF SweepPolice
    <3> QED BY <2>4, <3>1, NextItemTypes DEF SweepPolice
  <2> QED BY <1>1, <2>1, <2>2, <2>3, <2>4, Zenon DEF Sweeping
<1>2. ASSUME NEW s \in Sweep, SweepItemFails(s) PROVE Sweeps'
  <2>1. sweep[s].todo \in SUBSET Listing   BY <1>2, ScanningOf DEF SweepItemFails
  <2>2. \/ \E l \in sweep[s].todo : NextItem(s, sweep[s].todo \ {l})
        \/ NextItem(s, sweep[s].todo)
    BY <1>2, Zenon DEF SweepItemFails
  <2>3. \A l : sweep[s].todo \ {l} \in SUBSET Listing   BY <2>1
  <2> QED BY <2>1, <2>2, <2>3, NextItemTypes
<1>3. CASE Outside
  <2>1. CASE Crash   BY <2>1 DEF Crash, Sweeps
  <2>2. ASSUME NEW h \in Handler, RequestFails(h) PROVE Sweeps'
    BY <2>2 DEF RequestFails, Sweeps
  <2>3. CASE Tick   BY <2>3 DEF Tick, Sweeps
  <2>4. ASSUME NEW l \in Listing, ReportDispute(l) PROVE Sweeps'
    BY <2>4 DEF ReportDispute, Sweeps
  <2> QED BY <1>2, <1>3, <2>1, <2>2, <2>3, <2>4 DEF Outside
<1>4. CASE UNCHANGED sweep   BY <1>4 DEF Sweeps
<1> QED BY <1>1, <1>3, <1>4, Steps, TradingWrites, RequestWrites, ContinueWrites

LEMMA TypesStep == ASSUME Types, OneDeal, Closing, Next PROVE Types'
<1>1. Clock' /\ Purses' /\ Trades' /\ Escrows'
  BY ClockStep, PursesStep, TradesStep, EscrowsStep
<1>2. Records' /\ Outflow' /\ Requests' /\ Sweeps'
  BY RecordsStep, OutflowStep, RequestsStep, SweepsStep
<1> QED BY <1>1, <1>2 DEF Types

-----------------------------------------------------------------------------
(* The deals.  A step keeps the deal of a listing when it leaves its rows   *)
(* and its accepted bids alone.                                             *)
Accepted(l) == {b \in Bid : bids[b].status = "accepted" /\ bids[b].l = l}

Deal(l) ==
  IF escrow[l] = NoEscrow
  THEN Accepted(l) = {} /\ listings[l].status \in {"none", "active"}
  ELSE /\ Accepted(l) = {escrow[l].bid}
       /\ escrow[l].amount = bids[escrow[l].bid].offer
       /\ escrow[l].buyer = bids[escrow[l].bid].bidder
       /\ listings[l].status = IF escrow[l].status = "settled" THEN "settled" ELSE "accepted"

LEMMA OneDealIs == OneDeal <=> \A l \in Listing : Deal(l)
  BY Zenon DEF OneDeal, Deal, Accepted

(* An accepted bid is never touched again; what changes is the row of the   *)
(* escrow and the status of the listing.                                    *)
LEMMA DealKept ==
  ASSUME Types, NEW l \in Listing, Deal(l), escrow[l] # NoEscrow,
         escrow'[l] \in EscrowRow, escrow'[l].bid = escrow[l].bid,
         escrow'[l].amount = escrow[l].amount, escrow'[l].buyer = escrow[l].buyer,
         Accepted(l)' = Accepted(l), bids'[escrow[l].bid] = bids[escrow[l].bid],
         listings'[l].status = IF escrow'[l].status = "settled" THEN "settled" ELSE "accepted"
  PROVE  Deal(l)'
<1>1. escrow'[l] # NoEscrow   BY DEF EscrowRow, NoEscrow
<1> QED BY <1>1 DEF Deal

LEMMA DealStep == ASSUME Types, Types', OneDeal, Next PROVE OneDeal'
<1> USE DEF Types
<1>0. \A l \in Listing : Deal(l)   BY OneDealIs
<1>1. CASE UNCHANGED <<listings, bids, escrow>>
  BY <1>1, Zenon DEF OneDeal
<1>2. CASE Trading
  <2> PICK k \in Listing, did \in Account :
         \/ \E price \in Price : CreateListing(k, did, price)
         \/ \E b \in Bid, offer \in Offer : PlaceBid(b, k, did, offer)
         \/ \E b \in Bid, at \in 0..MaxTick : AcceptBid(b, did, at)
    BY <1>2, TradingKinds
  <2> SUFFICES ASSUME NEW l \in Listing PROVE Deal(l)'
    BY Zenon DEF OneDeal, Deal, Accepted
  <2>1. ASSUME NEW price \in Price, CreateListing(k, did, price) PROVE Deal(l)'
    <3>1. UNCHANGED <<bids, escrow>> /\ listings[k].status = "none"
      BY <2>1 DEF CreateListing, Unlisted
    <3>2. listings' = [listings EXCEPT ![k] =
                         [status |-> "active", seller |-> did, price |-> price]]
      BY <2>1 DEF CreateListing
    <3>3. Accepted(l)' = Accepted(l)   BY <3>1 DEF Accepted
    <3>4. l # k => listings'[l] = listings[l]   BY <3>2 DEF Trades
    <3>5. l = k => listings'[l].status = "active"   BY <3>2 DEF Trades
    <3>6. CASE l # k   BY <1>0, <3>1, <3>3, <3>4, <3>6 DEF Deal
    <3>7. CASE l = k   BY <1>0, <3>1, <3>3, <3>5, <3>7 DEF Deal
    <3> QED BY <3>6, <3>7
  <2>2. ASSUME NEW b \in Bid, NEW offer \in Offer, PlaceBid(b, k, did, offer) PROVE Deal(l)'
    <3>1. /\ UNCHANGED <<listings, escrow>> /\ bids[b].status = "none"
          /\ bids'[b].status = "pending" /\ \A c \in Bid \ {b} : bids'[c] = bids[c]
      BY <2>2 DEF PlaceBid, NoBid, Trades
    <3>2. Accepted(l)' = Accepted(l)   BY <3>1 DEF Accepted
    <3>3. escrow[l] # NoEscrow => escrow[l].bid \in Accepted(l)   BY <1>0 DEF Deal
    <3>4. escrow[l] # NoEscrow => bids'[escrow[l].bid] = bids[escrow[l].bid]
      BY <3>1, <3>3 DEF Accepted
    <3> QED BY <1>0, <3>1, <3>2, <3>4 DEF Deal
  <2>3. ASSUME NEW b \in Bid, NEW at \in 0..MaxTick, AcceptBid(b, did, at) PROVE Deal(l)'
    <3> PICK m \in Listing, bidder \in Account, offer \in Offer :
             Funding(b, at, m, bidder, offer)
      BY <2>3, AcceptEffect
    <3>1. /\ bids[b].status = "pending" /\ bids[b].l = m
          /\ bids'[b] = [status |-> "accepted", l |-> m, bidder |-> bidder, offer |-> offer]
          /\ \A c \in Bid \ {b} : bids'[c] = bids[c]
      BY DEF Funding, Trades
    <3>2. CASE l = m
      <4>1. escrow[m] = NoEscrow /\ Accepted(m) = {}   BY <1>0 DEF Deal, Funding
      <4>2. Accepted(m)' = {b}   BY <3>1, <4>1 DEF Accepted
      <4>3. /\ escrow'[m].bid = b /\ escrow'[m].amount = offer /\ escrow'[m].buyer = bidder
            /\ escrow'[m].status = "held" /\ escrow'[m] # NoEscrow
        BY DEF Funding, NoEscrow, Escrows
      <4>4. listings'[m].status = "accepted"   BY DEF Funding, Trades, ListingRow
      <4> QED BY <3>1, <3>2, <4>2, <4>3, <4>4 DEF Deal
    <3>3. CASE l # m
      <4>1. escrow'[l] = escrow[l] /\ listings'[l] = listings[l]
        BY <3>3 DEF Funding, Escrows, Trades
      <4>2. Accepted(l)' = Accepted(l)   BY <3>1, <3>3 DEF Accepted
      <4>3. escrow[l] # NoEscrow => escrow[l].bid \in Accepted(l)   BY <1>0 DEF Deal
      <4>4. escrow[l] # NoEscrow => bids'[escrow[l].bid] = bids[escrow[l].bid]
        BY <3>1, <3>3, <4>3 DEF Accepted
      <4> QED BY <1>0, <4>1, <4>2, <4>4 DEF Deal
    <3> QED BY <3>2, <3>3
  <2> QED BY <2>1, <2>2, <2>3
<1>3. ASSUME NEW k \in Listing, escrow[k] # NoEscrow, UNCHANGED bids, escrow'[k] \in EscrowRow,
             escrow'[k].bid = escrow[k].bid, escrow'[k].amount = escrow[k].amount,
             escrow'[k].buyer = escrow[k].buyer,
             listings'[k].status =
                IF escrow'[k].status = "settled" THEN "settled" ELSE "accepted",
             \A l \in Listing \ {k} : escrow'[l] = escrow[l] /\ listings'[l] = listings[l]
      PROVE  OneDeal'
  <2> SUFFICES ASSUME NEW l \in Listing PROVE Deal(l)'
    BY Zenon DEF OneDeal, Deal, Accepted
  <2>1. Accepted(l)' = Accepted(l)   BY <1>3 DEF Accepted
  <2>2. CASE l = k   BY <1>0, <1>3, <2>1, <2>2, DealKept
  <2>3. CASE l # k   BY <1>0, <1>3, <2>1, <2>3 DEF Deal
  <2> QED BY <2>2, <2>3
<1>4. ASSUME NEW k \in Listing, Held(k), Freeze(k), UNCHANGED <<bids, listings>> PROVE OneDeal'
  <2>1. escrow[k] \in EscrowRow /\ escrow[k] # NoEscrow   BY <1>4, RowOfEscrow DEF Held, NoEscrow
  <2>2. /\ escrow'[k] = [escrow[k] EXCEPT !.status = "frozen"]
        /\ \A l \in Listing \ {k} : escrow'[l] = escrow[l]
    BY <1>4 DEF Freeze, Escrows
  <2>3. /\ escrow'[k] \in EscrowRow /\ escrow'[k].status = "frozen"
        /\ escrow'[k].bid = escrow[k].bid /\ escrow'[k].amount = escrow[k].amount
        /\ escrow'[k].buyer = escrow[k].buyer
    BY <2>1, <2>2 DEF EscrowRow
  <2>4. listings[k].status = "accepted"   BY <1>0, <1>4, <2>1 DEF Deal, Held
  <2> QED BY <1>3, <1>4, <2>1, <2>2, <2>3, <2>4
<1>5. ASSUME NEW h \in Handler, Request(h) PROVE OneDeal'
  <2>1. ASSUME NEW k \in Listing, NEW caller \in Account, NEW party \in {"buyer", "seller"},
               Confirm(h, k, caller, party)
        PROVE  OneDeal'
    <3>1. escrow[k] \in EscrowRow /\ escrow[k] # NoEscrow /\ Held(k)
      BY <2>1, RowOfEscrow DEF Confirm, Held, NoEscrow
    <3>2. /\ UNCHANGED <<bids, listings>>
          /\ escrow'[k] = [escrow[k] EXCEPT !.confirmed = escrow[k].confirmed \cup {party}]
          /\ \A l \in Listing \ {k} : escrow'[l] = escrow[l]
      BY <2>1 DEF Confirm, Escrows
    <3>3. /\ escrow'[k] \in EscrowRow /\ escrow'[k].status = "held"
          /\ escrow'[k].bid = escrow[k].bid /\ escrow'[k].amount = escrow[k].amount
          /\ escrow'[k].buyer = escrow[k].buyer
      BY <3>1, <3>2 DEF EscrowRow, Held
    <3>4. listings[k].status = "accepted"   BY <1>0, <3>1 DEF Deal, Held
    <3> QED BY <1>3, <3>1, <3>2, <3>3, <3>4
  <2> QED BY <1>1, <1>5, <2>1 DEF Request, DisputeRead, RejectRead
<1>6. ASSUME NEW h \in Handler, Continue(h) PROVE OneDeal'
  <2>1. CASE RejectBid(h)
    <3>0. handler[h].pc = "reject"   BY <2>1 DEF RejectBid
    <3> PICK b \in Bid : b = handler[h].b   BY <3>0, ServingOf
    <3>1. UNCHANGED <<listings, escrow>>   BY <2>1 DEF RejectBid
    <3>2. CASE UNCHANGED bids   BY <1>1, <3>1, <3>2
    <3>3. CASE bids[b].status = "pending" /\ bids' = [bids EXCEPT ![b].status = "rejected"]
      <4> SUFFICES ASSUME NEW l \in Listing PROVE Deal(l)'
        BY Zenon DEF OneDeal, Deal, Accepted
      <4>1. bids'[b].status = "rejected" /\ \A c \in Bid \ {b} : bids'[c] = bids[c]
        BY <3>3, RowOfBid DEF Trades, BidRow
      <4>2. Accepted(l)' = Accepted(l)   BY <3>3, <4>1 DEF Accepted
      <4>3. escrow[l] # NoEscrow => escrow[l].bid \in Accepted(l)   BY <1>0 DEF Deal
      <4>4. escrow[l] # NoEscrow => bids'[escrow[l].bid] = bids[escrow[l].bid]
        BY <3>3, <4>1, <4>3 DEF Accepted
      <4> QED BY <1>0, <3>1, <4>2, <4>4 DEF Deal
    <3> QED BY <2>1, <3>2, <3>3 DEF RejectBid
  <2>2. CASE Settle(h)
    <3> PICK k \in Listing, fee \in Nat : Settlement(h, k, fee)   BY <2>2, SettleEffect
    <3>1. /\ escrow[k] \in EscrowRow /\ escrow[k] # NoEscrow
          /\ escrow'[k] = [escrow[k] EXCEPT !.status = "settled"]
          /\ listings'[k].status = "settled"
          /\ \A l \in Listing \ {k} : escrow'[l] = escrow[l] /\ listings'[l] = listings[l]
      BY DEF Settlement, Held, NoEscrow, Escrows, Trades, ListingRow, Unlisted
    <3>2. UNCHANGED bids   BY <2>2 DEF Settle
    <3>3. /\ escrow'[k] \in EscrowRow /\ escrow'[k].status = "settled"
          /\ escrow'[k].bid = escrow[k].bid /\ escrow'[k].amount = escrow[k].amount
          /\ escrow'[k].buyer = escrow[k].buyer
      BY <3>1 DEF EscrowRow
    <3> QED BY <1>3, <3>1, <3>2, <3>3
  <2>3. CASE Dispute(h)
    <3>1. handler[h].l \in Listing   BY <2>3, ServingOf DEF Dispute
    <3>2. /\ UNCHANGED <<bids, listings>>
          /\ (Held(handler[h].l) /\ Freeze(handler[h].l)) \/ UNCHANGED escrow
      BY <2>3 DEF Dispute, Disputable
    <3> QED BY <1>1, <1>4, <3>1, <3>2
  <2> QED BY <1>1, <1>6, <2>1, <2>2, <2>3, ContinueWrites
<1>7. ASSUME NEW s \in Sweep, Sweeping(s) PROVE OneDeal'
  <2>1. ASSUME NEW l \in Listing, SweepDispute(s, l) PROVE OneDeal'
    <3>1. /\ UNCHANGED <<bids, listings>>
          /\ (Held(l) /\ Freeze(l)) \/ UNCHANGED escrow
      BY <2>1 DEF SweepDispute, Disputable
    <3> QED BY <1>1, <1>4, <3>1
  <2> QED BY <1>1, <1>7, <2>1, SweepingWrites
<1>8. CASE Outside   BY <1>1, <1>8, OutsideWrites
<1> QED BY <1>2, <1>5, <1>6, <1>7, <1>8, Steps

-----------------------------------------------------------------------------
(* The inductive invariant, listing by listing: what the tables say of a    *)
(* trade, who is on it, and what they have left to do.  A frozen escrow has *)
(* one dispute and a settled one none; one request at most is between the   *)
(* settlement and its event, one request or sweep between the dispute and   *)
(* its last record.                                                         *)
OnSettlement(h, l) == handler[h].pc = "settled" /\ handler[h].l = l
OnSkim(h, l) == handler[h].pc = "skim" /\ handler[h].l = l
OnReport(h, l) == handler[h].pc \in {"police", "emit"} /\ handler[h].l = l
OnSweep(s, l) == sweep[s].pc \in {"police", "emit"} /\ sweep[s].l = l

Verdict(l) ==
  /\ disputes[l] = IF escrow[l].status = "frozen" THEN 1 ELSE 0
  /\ events[l]["disputed"] <= disputes[l]
  /\ events[l]["settled"] <= IF escrow[l].status = "settled" THEN 1 ELSE 0
  /\ events[l]["tax"] <= events[l]["settled"]
  /\ escrow[l].status # "settled" => sent[l] = Nothing
  /\ disputes[l] > 0 =>
        \/ investigations[l] > 0 /\ events[l]["disputed"] > 0
        \/ (\E h \in Handler : OnReport(h, l)) \/ (\E s \in Sweep : OnSweep(s, l))
        \/ l \in cut

Alone(l) ==
  /\ \A g, h \in Handler : OnSettlement(g, l) /\ OnSettlement(h, l) => g = h
  /\ \A g, h \in Handler : OnReport(g, l) /\ OnReport(h, l) => g = h
  /\ \A s, t \in Sweep : OnSweep(s, l) /\ OnSweep(t, l) => s = t
  /\ \A h \in Handler, s \in Sweep : ~(OnReport(h, l) /\ OnSweep(s, l))

Duties(l) ==
  /\ \A h \in Handler :
        /\ OnSettlement(h, l) => escrow[l].status = "settled" /\ events[l]["settled"] = 0
        /\ OnSkim(h, l) => escrow[l].status = "settled"
        /\ OnReport(h, l) => escrow[l].status = "frozen" /\ events[l]["disputed"] = 0
        /\ OnReport(h, l) /\ handler[h].pc = "emit" => investigations[l] > 0
  /\ \A s \in Sweep :
        /\ OnSweep(s, l) => escrow[l].status = "frozen"
        /\ OnSweep(s, l) /\ sweep[s].pc = "emit" => events[l]["disputed"] = 0
        /\ OnSweep(s, l) /\ sweep[s].pc = "police" => events[l]["disputed"] > 0

Trial(l) == Verdict(l) /\ Alone(l) /\ Duties(l)
IInv == Types /\ OneDeal /\ \A l \in Listing : Trial(l)

LEMMA IsClosing == ASSUME IInv PROVE Closing
<1> SUFFICES ASSUME NEW h \in Handler, handler[h].pc \in {"settled", "skim"}
             PROVE  escrow[handler[h].l].status = "settled"
  BY DEF Closing
<1>1. handler[h].l \in Listing   BY ServingOf DEF IInv, Types
<1> QED BY <1>1 DEF IInv, Trial, Duties, OnSettlement, OnSkim

LEMMA TrialsInit == ASSUME Init PROVE IInv
<1>1. Types   BY TypesInit
<1>2. OneDeal   BY DEF Init, OneDeal, NoBid, Unlisted
<1>3. ASSUME NEW l \in Listing PROVE Trial(l)
  <2>1. \A h \in Handler : handler[h].pc = "idle"   BY DEF Init, Idle
  <2>2. \A s \in Sweep : sweep[s].pc = "idle"   BY DEF Init, Idle
  <2>3. escrow[l].status = "none" /\ sent[l] = Nothing   BY DEF Init, NoEscrow
  <2>4. /\ disputes[l] = 0 /\ investigations[l] = 0
        /\ \A k \in EventKind : events[l][k] = 0
    BY DEF Init
  <2>5. Verdict(l)   BY <2>3, <2>4 DEF Verdict, EventKind
  <2>6. Alone(l) /\ Duties(l)
    BY <2>1, <2>2 DEF Alone, Duties, OnSettlement, OnSkim, OnReport, OnSweep
  <2> QED BY <2>5, <2>6 DEF Trial
<1> QED BY <1>1, <1>2, <1>3 DEF IInv

(* A step leaves the trial of a listing alone when it writes none of its    *)
(* records but by a report, only funds its escrow if it has none, puts      *)
(* nobody on it, and takes nobody off it unless that is marked as cut off.  *)
Apart(l) ==
  /\ escrow'[l].status = escrow[l].status
     \/ (escrow[l].status = "none" /\ escrow'[l].status = "held")
  /\ disputes'[l] = disputes[l] /\ events'[l] = events[l] /\ sent'[l] = sent[l]
  /\ investigations[l] > 0 => investigations'[l] > 0
  /\ l \in cut => l \in cut'
  /\ \A h \in Handler :
        handler'[h] = handler[h] \/
        /\ ~OnSettlement(h, l)' /\ ~OnSkim(h, l)' /\ ~OnReport(h, l)'
        /\ l \in cut' \/ ~OnReport(h, l)
  /\ \A s \in Sweep :
        sweep'[s] = sweep[s] \/ (~OnSweep(s, l)' /\ (l \in cut' \/ ~OnSweep(s, l)))

LEMMA ApartKeeps ==
  ASSUME NEW l \in Listing, Trial(l), Apart(l)
  PROVE  Trial(l)'
<1> USE DEF Trial
<1>1. ASSUME NEW h \in Handler
      PROVE  /\ OnSettlement(h, l)' => OnSettlement(h, l)
             /\ OnSkim(h, l)' => OnSkim(h, l)
             /\ OnReport(h, l)' => OnReport(h, l) /\ handler'[h] = handler[h]
  BY DEF Apart, OnSettlement, OnSkim, OnReport
<1>2. ASSUME NEW s \in Sweep PROVE OnSweep(s, l)' => OnSweep(s, l) /\ sweep'[s] = sweep[s]
  BY DEF Apart, OnSweep
<1>3. Alone(l)'   BY <1>1, <1>2 DEF Alone
<1>4. /\ escrow[l].status = "settled" => escrow'[l].status = "settled"
      /\ escrow[l].status = "frozen" => escrow'[l].status = "frozen"
      /\ investigations[l] > 0 => investigations'[l] > 0
      /\ events'[l] = events[l]
  BY DEF Apart
<1>5. Duties(l)'   BY <1>1, <1>2, <1>4 DEF Duties
<1>6. ASSUME NEW h \in Handler, OnReport(h, l), l \notin cut' PROVE OnReport(h, l)'
  BY <1>6 DEF Apart, OnReport
<1>7. ASSUME NEW s \in Sweep, OnSweep(s, l), l \notin cut' PROVE OnSweep(s, l)'
  BY <1>7 DEF Apart, OnSweep
<1>8. /\ (escrow'[l].status = "frozen") = (escrow[l].status = "frozen")
      /\ (escrow'[l].status = "settled") = (escrow[l].status = "settled")
  BY DEF Apart
<1>9. Verdict(l)'
  BY <1>6, <1>7, <1>8 DEF Verdict, Apart
<1> QED BY <1>3, <1>5, <1>9

(* A request or a sweep that is not on a listing and does not come to it.   *)
Unwritten(l) ==
  /\ escrow'[l].status = escrow[l].status
  /\ disputes'[l] = disputes[l] /\ investigations'[l] = investigations[l]
  /\ events'[l] = events[l] /\ sent'[l] = sent[l] /\ cut' = cut

LEMMA RequestApart ==
  ASSUME Requests, NEW l \in Listing, NEW h \in Handler, NEW state, Goto(h, state),
         Unwritten(l), UNCHANGED sweep,
         handler[h].pc \notin {"police", "emit"} \/ handler[h].l # l,
         state.pc \notin {"settled", "skim", "police", "emit"} \/ state.l # l
  PROVE  Apart(l)
<1>1. handler'[h] = state /\ \A g \in Handler \ {h} : handler'[g] = handler[g]
  BY DEF Requests, Goto
<1>2. ~OnSettlement(h, l)' /\ ~OnSkim(h, l)' /\ ~OnReport(h, l)' /\ ~OnReport(h, l)
  BY <1>1 DEF OnSettlement, OnSkim, OnReport
<1> QED BY <1>1, <1>2 DEF Apart, Unwritten

LEMMA SweepApart ==
  ASSUME Sweeps, NEW l \in Listing, NEW s \in Sweep, NEW state, GotoSweep(s, state),
         Unwritten(l), UNCHANGED handler,
         sweep[s].pc \notin {"police", "emit"} \/ sweep[s].l # l,
         state.pc \notin {"police", "emit"} \/ state.l # l
  PROVE  Apart(l)
<1>1. sweep'[s] = state /\ \A t \in Sweep \ {s} : sweep'[t] = sweep[t]
  BY DEF Sweeps, GotoSweep
<1>2. ~OnSweep(s, l)' /\ ~OnSweep(s, l)
  BY <1>1 DEF OnSweep
<1> QED BY <1>1, <1>2 DEF Apart, Unwritten

LEMMA NextItemGoes ==
  ASSUME NEW s \in Sweep, NEW todo, NextItem(s, todo)
  PROVE  \E state : GotoSweep(s, state) /\ state.pc \in {"idle", "item"}
<1>1. Idle.pc = "idle" /\ [pc |-> "item", todo |-> todo].pc = "item"   BY DEF Idle
<1> QED BY <1>1 DEF NextItem

LEMMA TradingApart == ASSUME IInv, Trading, NEW l \in Listing PROVE Apart(l)
<1> USE DEF IInv
<1> PICK k \in Listing, did \in Account :
       \/ \E price \in Price : CreateListing(k, did, price)
       \/ \E b \in Bid, offer \in Offer : PlaceBid(b, k, did, offer)
       \/ \E b \in Bid, at \in 0..MaxTick : AcceptBid(b, did, at)
  BY TradingKinds
<1>1. UNCHANGED <<disputes, investigations, events, sent, cut, handler, sweep>>
  BY TradingWrites
<1>2. escrow'[l].status = escrow[l].status
      \/ (escrow[l].status = "none" /\ escrow'[l].status = "held")
  <2>1. ASSUME NEW b \in Bid, NEW at \in 0..MaxTick, AcceptBid(b, did, at)
        PROVE  escrow'[l].status = escrow[l].status
               \/ (escrow[l].status = "none" /\ escrow'[l].status = "held")
    <3> PICK m \in Listing, bidder \in Account, offer \in Offer :
             Funding(b, at, m, bidder, offer)
      BY <2>1, AcceptEffect
    <3>1. escrow[m] = NoEscrow
      <4>1. Deal(m)   BY OneDealIs
      <4> QED BY <4>1 DEF Deal, Funding
    <3>2. l # m => escrow'[l] = escrow[l]   BY DEF Funding, Types, Escrows
    <3>3. l = m => escrow'[l].status = "held"   BY DEF Funding, Types, Escrows
    <3> QED BY <3>1, <3>2, <3>3 DEF NoEscrow
  <2> QED BY <2>1 DEF CreateListing, PlaceBid
<1> QED BY <1>1, <1>2, Zenon DEF Apart

LEMMA RequestsApart ==
  ASSUME IInv, NEW h \in Handler, Request(h), NEW l \in Listing
  PROVE  Apart(l)
<1> USE DEF IInv, Types
<1> DEFINE Begins ==
      /\ handler[h].pc = "idle" /\ escrow'[l].status = escrow[l].status
      /\ \E state : Goto(h, state) /\ state.pc \in {"idle", "rate", "dispute", "reject"}
<1>1. Begins
  <2>1. Idle.pc = "idle"   BY DEF Idle
  <2>2. ASSUME NEW k \in Listing, NEW caller \in Account, NEW party \in {"buyer", "seller"},
               Confirm(h, k, caller, party)
        PROVE  Begins
    <3>1. handler[h].pc = "idle"   BY <2>1, <2>2 DEF Confirm
    <3>2. escrow'[l].status = escrow[l].status   BY <2>2 DEF Confirm, Escrows
    <3>3. Goto(h, [pc |-> "rate", l |-> k]) \/ Goto(h, Idle)   BY <2>2 DEF Confirm
    <3>4. [pc |-> "rate", l |-> k].pc = "rate"   OBVIOUS
    <3> QED BY <2>1, <3>1, <3>2, <3>3, <3>4
  <2>3. ASSUME NEW k \in Listing, NEW caller \in Account, DisputeRead(h, k, caller)
        PROVE  Begins
    BY <2>1, <2>3 DEF DisputeRead
  <2>4. ASSUME NEW b \in Bid, NEW caller \in Account, RejectRead(h, b, caller)
        PROVE  Begins
    BY <2>1, <2>4 DEF RejectRead
  <2> HIDE DEF Begins
  <2> QED BY <2>2, <2>3, <2>4, Zenon DEF Request
<1>2. UNCHANGED <<disputes, investigations, events, sent, cut, sweep>>   BY RequestWrites
<1>3. escrow'[l].status = escrow[l].status   BY <1>1
<1>4. PICK state : Goto(h, state) /\ state.pc \in {"idle", "rate", "dispute", "reject"}
  BY <1>1
<1>5. Unwritten(l)   BY <1>2, <1>3 DEF Unwritten
<1> QED BY <1>1, <1>2, <1>4, <1>5, RequestApart

LEMMA OutsideApart == ASSUME IInv, Outside, NEW l \in Listing PROVE Apart(l)
<1> USE DEF IInv, Types
<1>1. /\ escrow'[l].status = escrow[l].status /\ disputes'[l] = disputes[l]
      /\ events'[l] = events[l] /\ sent'[l] = sent[l]
      /\ investigations[l] > 0 => investigations'[l] > 0
  <2>1. ASSUME NEW k \in Listing, ReportDispute(k)
        PROVE  investigations[l] > 0 => investigations'[l] > 0
    <3>1. investigations[k] + 1 > 0   BY DEF Records
    <3> QED BY <2>1, <3>1 DEF ReportDispute, Investigate, Records
  <2> QED BY <2>1, OutsideWrites
<1>2. Idle.pc = "idle"   BY DEF Idle
<1>3. ASSUME NEW k \in Listing, ReportDispute(k) PROVE UNCHANGED <<cut, handler, sweep>>
  BY <1>3 DEF ReportDispute
<1>4. ASSUME NEW h \in Handler, RequestFails(h) PROVE Apart(l)
  <2>1. ~OnSettlement(h, l)' /\ ~OnSkim(h, l)' /\ ~OnReport(h, l)'
    BY <1>2, <1>4 DEF RequestFails, Goto, Requests, OnSettlement, OnSkim, OnReport
  <2>2. UNCHANGED sweep /\ \A g \in Handler \ {h} : handler'[g] = handler[g]
    BY <1>4 DEF RequestFails, Goto, Requests
  <2>3. cut \subseteq cut' /\ (OnReport(h, l) => l \in cut')
    BY <1>4 DEF RequestFails, OnReport, Pursued
  <2> QED BY <1>1, <2>1, <2>2, <2>3 DEF Apart
<1>5. ASSUME NEW s \in Sweep, SweepItemFails(s) PROVE Apart(l)
  <2>1. PICK todo : NextItem(s, todo)   BY <1>5, Zenon DEF SweepItemFails
  <2>2. PICK state : GotoSweep(s, state) /\ state.pc \in {"idle", "item"}
    BY <2>1, NextItemGoes
  <2>3. ~OnSweep(s, l)'   BY <2>2 DEF GotoSweep, Sweeps, OnSweep
  <2>4. UNCHANGED handler /\ \A t \in Sweep \ {s} : sweep'[t] = sweep[t]
    BY <1>5, <2>2 DEF SweepItemFails, GotoSweep, Sweeps
  <2>5. cut \subseteq cut' /\ (OnSweep(s, l) => l \in cut')
    BY <1>5 DEF SweepItemFails, OnSweep, Pursued
  <2> QED BY <1>1, <2>3, <2>4, <2>5 DEF Apart
<1>6. CASE Tick   BY <1>1, <1>6 DEF Tick, Apart
<1>7. CASE Crash
  <2>1. \A h \in Handler : ~OnSettlement(h, l)' /\ ~OnSkim(h, l)' /\ ~OnReport(h, l)'
    BY <1>2, <1>7 DEF Crash, OnSettlement, OnSkim, OnReport
  <2>2. \A s \in Sweep : ~OnSweep(s, l)'   BY <1>2, <1>7 DEF Crash, OnSweep
  <2>3. /\ cut \subseteq cut'
        /\ \A h \in Handler : Pursued(handler[h]) \subseteq cut'
        /\ \A s \in Sweep : Pursued(sweep[s]) \subseteq cut'
    BY <1>7 DEF Crash
  <2>4. \A h \in Handler : OnReport(h, l) => l \in cut'   BY <2>3 DEF OnReport, Pursued
  <2>5. \A s \in Sweep : OnSweep(s, l) => l \in cut'   BY <2>3 DEF OnSweep, Pursued
  <2>6. l \in cut => l \in cut'   BY <2>3
  <2> QED BY <1>1, <2>1, <2>2, <2>4, <2>5, <2>6 DEF Apart
<1> QED BY <1>1, <1>3, <1>4, <1>5, <1>6, <1>7 DEF Outside, Apart

(* The steps of a request.  Each is apart from every listing but its own.   *)
LEMMA PassingTrial ==
  ASSUME IInv, NEW h \in Handler, NEW l \in Listing,
         RejectBid(h) \/ (\E rate \in Rate : ReadRate(h, rate)) \/ SettleRefused(h) \/ Skim(h)
  PROVE  Trial(l)'
<1> USE DEF IInv, Types
<1>1. PICK state : /\ Goto(h, state) /\ state.pc \in {"idle", "settle"}
                   /\ handler[h].pc \in {"reject", "rate", "settle", "skim"}
                   /\ UNCHANGED <<sweep, escrow, disputes, investigations, events, sent, cut>>
  <2>1. Idle.pc = "idle"   BY DEF Idle
  <2>2. CASE RejectBid(h)   BY <2>1, <2>2 DEF RejectBid
  <2>3. CASE \E rate \in Rate : ReadRate(h, rate)   BY <2>1, <2>3 DEF ReadRate
  <2>4. CASE SettleRefused(h)   BY <2>1, <2>4 DEF SettleRefused
  <2>5. CASE Skim(h)   BY <2>1, <2>5 DEF Skim
  <2> QED BY <2>2, <2>3, <2>4, <2>5
<1>2. Apart(l)   BY <1>1, RequestApart DEF Unwritten
<1> QED BY <1>2, ApartKeeps

LEMMA SettleTrial ==
  ASSUME IInv, NEW h \in Handler, Settle(h), NEW l \in Listing
  PROVE  Trial(l)'
<1> USE DEF IInv, Types
<1> PICK k \in Listing, fee \in Nat : Settlement(h, k, fee)   BY SettleEffect
<1>1. UNCHANGED <<disputes, investigations, events, sweep, cut>>   BY DEF Settle
<1>2. /\ handler[h].pc = "settle" /\ Goto(h, [pc |-> "settled", l |-> k, fee |-> fee])
      /\ \A m \in Listing \ {k} : escrow'[m] = escrow[m] /\ sent'[m] = sent[m]
      /\ escrow[k].status = "held" /\ escrow'[k].status = "settled"
  BY DEF Settlement, Goto, Held, EscrowRow, Escrows, Outflow
<1>3. CASE l # k
  <2>1. Unwritten(l)   BY <1>1, <1>2, <1>3 DEF Unwritten
  <2>2. Apart(l)   BY <1>1, <1>2, <1>3, <2>1, RequestApart
  <2> QED BY <2>2, ApartKeeps
<1>4. CASE l = k
  <2>1. /\ \A g \in Handler : ~OnSettlement(g, k) /\ ~OnSkim(g, k) /\ ~OnReport(g, k)
        /\ \A s \in Sweep : ~OnSweep(s, k)
    BY <1>2 DEF Trial, Duties
  <2>2. /\ handler'[h] = [pc |-> "settled", l |-> k, fee |-> fee]
        /\ \A g \in Handler \ {h} : handler'[g] = handler[g]
    BY <1>2 DEF Goto, Requests
  <2>3. /\ \A g \in Handler :
              (OnSettlement(g, k)' => g = h) /\ ~OnSkim(g, k)' /\ ~OnReport(g, k)'
        /\ \A s \in Sweep : ~OnSweep(s, k)'
    BY <1>1, <2>1, <2>2 DEF OnSettlement, OnSkim, OnReport, OnSweep
  <2>4. /\ disputes[k] = 0 /\ events[k]["disputed"] = 0
        /\ events[k]["settled"] = 0 /\ events[k]["tax"] = 0
    BY <1>2 DEF Trial, Verdict, Records, EventKind
  <2>5. Verdict(k)'   BY <1>1, <1>2, <2>4 DEF Verdict
  <2>6. Alone(k)'   BY <2>3 DEF Alone
  <2>7. Duties(k)'   BY <1>1, <1>2, <2>3, <2>4 DEF Duties
  <2> QED BY <1>4, <2>5, <2>6, <2>7 DEF Trial
<1> QED BY <1>3, <1>4

LEMMA EmitSettledTrial ==
  ASSUME IInv, NEW h \in Handler, EmitSettled(h), NEW l \in Listing
  PROVE  Trial(l)'
<1> USE DEF IInv, Types
<1>1. /\ handler[h].pc = "settled"
      /\ UNCHANGED <<escrow, disputes, investigations, sent, sweep, cut>>
  BY DEF EmitSettled
<1> PICK k \in Listing : k = handler[h].l   BY <1>1, ServingOf
<1>2. PICK state, kinds :
         /\ Goto(h, state) /\ (state.pc = "idle" \/ (state.pc = "skim" /\ state.l = k))
         /\ Emit(k, kinds) /\ "settled" \in kinds /\ "disputed" \notin kinds
  <2>1. CASE handler[h].fee > 0
    <3>1. Goto(h, [pc |-> "skim", l |-> k]) /\ Emit(k, {"settled", "tax"})
      BY <2>1, Zenon DEF EmitSettled
    <3>2. [pc |-> "skim", l |-> k].pc = "skim" /\ [pc |-> "skim", l |-> k].l = k   OBVIOUS
    <3> QED BY <3>1, <3>2
  <2>2. CASE ~(handler[h].fee > 0)
    <3>1. Goto(h, Idle) /\ Emit(k, {"settled"})   BY <2>2, Zenon DEF EmitSettled
    <3> QED BY <3>1 DEF Idle
  <2> QED BY <2>1, <2>2
<1>3. /\ \A m \in Listing \ {k} : events'[m] = events[m]
      /\ events'[k]["settled"] = events[k]["settled"] + 1
      /\ events'[k]["disputed"] = events[k]["disputed"]
      /\ events'[k]["tax"] = events[k]["tax"] \/ events'[k]["tax"] = events[k]["tax"] + 1
  BY <1>2 DEF Emit, Records, EventKind
<1>4. CASE l # k
  <2>1. Unwritten(l)   BY <1>1, <1>3, <1>4 DEF Unwritten
  <2>2. Apart(l)   BY <1>1, <1>2, <1>4, <2>1, RequestApart
  <2> QED BY <2>2, ApartKeeps
<1>5. CASE l = k
  <2>1. OnSettlement(h, k)   BY <1>1 DEF OnSettlement
  <2>2. escrow[k].status = "settled" /\ events[k]["settled"] = 0
    BY <2>1 DEF Trial, Duties
  <2>3. /\ handler'[h] = state
        /\ \A g \in Handler \ {h} : handler'[g] = handler[g]
    BY <1>2 DEF Goto, Requests
  <2>4. /\ \A g \in Handler : ~OnReport(g, k) /\ (OnSettlement(g, k) => g = h)
        /\ \A s \in Sweep : ~OnSweep(s, k)
    BY <2>1, <2>2 DEF Trial, Duties, Alone
  <2>5. /\ \A g \in Handler : ~OnSettlement(g, k)' /\ ~OnReport(g, k)'
        /\ \A s \in Sweep : ~OnSweep(s, k)'
    BY <1>1, <1>2, <2>3, <2>4 DEF OnSettlement, OnReport, OnSweep
  <2>6. Alone(k)'   BY <2>5 DEF Alone
  <2>7. Duties(k)'   BY <1>1, <2>2, <2>5 DEF Duties
  <2>8. /\ disputes[k] = 0 /\ events[k]["disputed"] = 0
        /\ events[k]["tax"] = 0
    BY <2>2 DEF Trial, Verdict, Records, EventKind
  <2>9. Verdict(k)'   BY <1>1, <1>3, <2>2, <2>8 DEF Verdict
  <2> QED BY <1>5, <2>6, <2>7, <2>9 DEF Trial
<1> QED BY <1>4, <1>5

(* Nobody is on a held escrow, and nothing has been recorded of it.         *)
LEMMA HeldIsQuiet ==
  ASSUME IInv, NEW k \in Listing, Held(k)
  PROVE  /\ \A g \in Handler : ~OnSettlement(g, k) /\ ~OnSkim(g, k) /\ ~OnReport(g, k)
         /\ \A s \in Sweep : ~OnSweep(s, k)
         /\ disputes[k] = 0 /\ events[k]["disputed"] = 0
         /\ events[k]["settled"] = 0 /\ events[k]["tax"] = 0 /\ sent[k] = Nothing
<1> USE DEF IInv, Types
<1>1. /\ \A g \in Handler : ~OnSettlement(g, k) /\ ~OnSkim(g, k) /\ ~OnReport(g, k)
      /\ \A s \in Sweep : ~OnSweep(s, k)
  BY DEF Trial, Duties, Held
<1>2. /\ disputes[k] = 0 /\ events[k]["disputed"] = 0
      /\ events[k]["settled"] = 0 /\ events[k]["tax"] = 0 /\ sent[k] = Nothing
  BY DEF Trial, Verdict, Records, EventKind, Held
<1> QED BY <1>1, <1>2

LEMMA FreezeEffect ==
  ASSUME Types, NEW k \in Listing, Held(k), Freeze(k)
  PROVE  /\ escrow'[k].status = "frozen" /\ disputes'[k] = disputes[k] + 1
         /\ \A m \in Listing \ {k} : escrow'[m] = escrow[m] /\ disputes'[m] = disputes[m]
<1>1. escrow[k] \in EscrowRow   BY RowOfEscrow DEF Types, Held
<1> QED BY <1>1 DEF Types, Escrows, Records, Freeze, EscrowRow

LEMMA DisputeTrial ==
  ASSUME IInv, NEW h \in Handler, Dispute(h), NEW l \in Listing
  PROVE  Trial(l)'
<1> USE DEF IInv, Types
<1>1. handler[h].pc = "dispute" /\ UNCHANGED <<investigations, events, sent, sweep, cut>>
  BY DEF Dispute
<1> PICK k \in Listing : k = handler[h].l   BY <1>1, ServingOf
<1>2. CASE ~Held(k)
  <2>1. Goto(h, Idle) /\ UNCHANGED <<escrow, disputes>>   BY <1>2 DEF Dispute, Disputable
  <2>2. Unwritten(l)   BY <1>1, <2>1 DEF Unwritten
  <2>3. Idle.pc = "idle"   BY DEF Idle
  <2>4. Apart(l)   BY <1>1, <2>1, <2>2, <2>3, RequestApart
  <2> QED BY <2>4, ApartKeeps
<1>3. CASE Held(k)
  <2>1. Freeze(k) /\ Goto(h, [pc |-> "police", l |-> k])   BY <1>3 DEF Dispute, Disputable
  <2>2. /\ escrow'[k].status = "frozen" /\ disputes'[k] = disputes[k] + 1
        /\ \A m \in Listing \ {k} : escrow'[m] = escrow[m] /\ disputes'[m] = disputes[m]
    BY <1>3, <2>1, FreezeEffect
  <2>3. CASE l # k
    <3>1. Unwritten(l)   BY <1>1, <2>2, <2>3 DEF Unwritten
    <3>2. Apart(l)   BY <1>1, <2>1, <2>3, <3>1, RequestApart
    <3> QED BY <3>2, ApartKeeps
  <2>4. CASE l = k
    <3>1. /\ handler'[h] = [pc |-> "police", l |-> k]
          /\ \A g \in Handler \ {h} : handler'[g] = handler[g]
      BY <2>1 DEF Goto, Requests
    <3>2. /\ \A g \in Handler : ~OnSettlement(g, k) /\ ~OnSkim(g, k) /\ ~OnReport(g, k)
          /\ \A s \in Sweep : ~OnSweep(s, k)
      BY <1>3, HeldIsQuiet
    <3>3. /\ \A g \in Handler :
              ~OnSettlement(g, k)' /\ ~OnSkim(g, k)' /\ (OnReport(g, k)' => g = h)
          /\ \A s \in Sweep : ~OnSweep(s, k)'
      BY <1>1, <3>1, <3>2 DEF OnSettlement, OnSkim, OnReport, OnSweep
    <3>4. Alone(k)'   BY <3>3 DEF Alone
    <3>5. /\ disputes[k] = 0 /\ events[k]["disputed"] = 0
          /\ events[k]["settled"] = 0 /\ events[k]["tax"] = 0 /\ sent[k] = Nothing
      BY <1>3, HeldIsQuiet
    <3>6. Duties(k)'   BY <1>1, <2>2, <3>1, <3>3, <3>5 DEF Duties
    <3>7. OnReport(h, k)'   BY <3>1 DEF OnReport
    <3>8. Verdict(k)'   BY <1>1, <2>2, <3>5, <3>7 DEF Verdict
    <3> QED BY <2>4, <3>4, <3>6, <3>8 DEF Trial
  <2> QED BY <2>3, <2>4
<1> QED BY <1>2, <1>3

(* The route tells the police, and then the audit chain.                    *)
LEMMA DisputePoliceTrial ==
  ASSUME IInv, NEW h \in Handler, DisputePolice(h), NEW l \in Listing
  PROVE  Trial(l)'
<1> USE DEF IInv, Types
<1>1. handler[h].pc = "police" /\ UNCHANGED <<escrow, disputes, events, sent, sweep, cut>>
  BY DEF DisputePolice
<1> PICK k \in Listing : k = handler[h].l   BY <1>1, ServingOf
<1>2. Goto(h, [pc |-> "emit", l |-> k]) /\ Investigate(k)   BY DEF DisputePolice
<1>3. /\ investigations'[k] = investigations[k] + 1
      /\ \A m \in Listing \ {k} : investigations'[m] = investigations[m]
  BY <1>2 DEF Investigate, Records
<1>4. CASE l # k
  <2>1. Unwritten(l)   BY <1>1, <1>3, <1>4 DEF Unwritten
  <2>2. Apart(l)   BY <1>1, <1>2, <1>4, <2>1, RequestApart
  <2> QED BY <2>2, ApartKeeps
<1>5. CASE l = k
  <2>1. OnReport(h, k)   BY <1>1 DEF OnReport
  <2>2. /\ escrow[k].status = "frozen" /\ events[k]["disputed"] = 0
        /\ disputes[k] = 1
    BY <1>1, <2>1 DEF Trial, Duties, Verdict
  <2>3. /\ \A g \in Handler :
              ~OnSettlement(g, k) /\ ~OnSkim(g, k) /\ (OnReport(g, k) => g = h)
        /\ \A s \in Sweep : ~OnSweep(s, k)
    BY <2>1, <2>2 DEF Trial, Duties, Alone
  <2>4. /\ handler'[h] = [pc |-> "emit", l |-> k]
        /\ \A g \in Handler \ {h} : handler'[g] = handler[g]
    BY <1>2 DEF Goto, Requests
  <2>5. /\ \A g \in Handler :
              ~OnSettlement(g, k)' /\ ~OnSkim(g, k)' /\ (OnReport(g, k)' => g = h)
        /\ \A s \in Sweep : ~OnSweep(s, k)'
    BY <1>1, <2>3, <2>4 DEF OnSettlement, OnSkim, OnReport, OnSweep
  <2>6. Alone(k)'   BY <2>5 DEF Alone
  <2>7. investigations'[k] > 0   BY <1>3 DEF Records
  <2>8. Duties(k)'   BY <1>1, <2>2, <2>5, <2>7 DEF Duties
  <2>9. OnReport(h, k)'   BY <2>4 DEF OnReport
  <2>10. Verdict(k)'   BY <1>1, <2>2, <2>9 DEF Trial, Verdict
  <2> QED BY <1>5, <2>6, <2>8, <2>10 DEF Trial
<1> QED BY <1>4, <1>5

LEMMA DisputeEmitTrial ==
  ASSUME IInv, NEW h \in Handler, DisputeEmit(h), NEW l \in Listing
  PROVE  Trial(l)'
<1> USE DEF IInv, Types
<1>1. handler[h].pc = "emit"
      /\ UNCHANGED <<escrow, disputes, investigations, sent, sweep, cut>>
  BY DEF DisputeEmit
<1> PICK k \in Listing : k = handler[h].l   BY <1>1, ServingOf
<1>2. Goto(h, Idle) /\ Emit(k, {"disputed"}) /\ Idle.pc = "idle"   BY DEF DisputeEmit, Idle
<1>3. /\ \A m \in Listing \ {k} : events'[m] = events[m]
      /\ events'[k]["disputed"] = events[k]["disputed"] + 1
      /\ events'[k]["settled"] = events[k]["settled"] /\ events'[k]["tax"] = events[k]["tax"]
  BY <1>2 DEF Emit, Records, EventKind
<1>4. CASE l # k
  <2>1. Unwritten(l)   BY <1>1, <1>3, <1>4 DEF Unwritten
  <2>2. Apart(l)   BY <1>1, <1>2, <1>4, <2>1, RequestApart
  <2> QED BY <2>2, ApartKeeps
<1>5. CASE l = k
  <2>1. OnReport(h, k)   BY <1>1 DEF OnReport
  <2>2. /\ escrow[k].status = "frozen" /\ events[k]["disputed"] = 0 /\ disputes[k] = 1
        /\ investigations[k] > 0
    BY <1>1, <2>1 DEF Trial, Duties, Verdict
  <2>3. /\ \A g \in Handler :
              ~OnSettlement(g, k) /\ ~OnSkim(g, k) /\ (OnReport(g, k) => g = h)
        /\ \A s \in Sweep : ~OnSweep(s, k)
    BY <2>1, <2>2 DEF Trial, Duties, Alone
  <2>4. handler'[h] = Idle /\ \A g \in Handler \ {h} : handler'[g] = handler[g]
    BY <1>2 DEF Goto, Requests
  <2>5. /\ \A g \in Handler : ~OnSettlement(g, k)' /\ ~OnSkim(g, k)' /\ ~OnReport(g, k)'
        /\ \A s \in Sweep : ~OnSweep(s, k)'
    BY <1>1, <1>2, <2>3, <2>4 DEF OnSettlement, OnSkim, OnReport, OnSweep
  <2>6. Alone(k)' /\ Duties(k)'   BY <2>5 DEF Alone, Duties
  <2>7. investigations'[k] > 0 /\ events'[k]["disputed"] = 1   BY <1>1, <1>3, <2>2
  <2>8. Verdict(k)'   BY <1>1, <1>3, <2>2, <2>7 DEF Trial, Verdict
  <2> QED BY <1>5, <2>6, <2>8 DEF Trial
<1> QED BY <1>4, <1>5

LEMMA ContinueTrial ==
  ASSUME IInv, NEW h \in Handler, Continue(h), NEW l \in Listing
  PROVE  Trial(l)'
<1>1. CASE RejectBid(h) \/ (\E rate \in Rate : ReadRate(h, rate)) \/ SettleRefused(h) \/ Skim(h)
  BY <1>1, PassingTrial
<1> QED BY <1>1, SettleTrial, EmitSettledTrial, DisputeTrial, DisputePoliceTrial,
           DisputeEmitTrial, Zenon DEF Continue

(* The steps of a sweep.                                                    *)
LEMMA SweepListTrial ==
  ASSUME IInv, NEW s \in Sweep, SweepList(s), NEW l \in Listing
  PROVE  Trial(l)'
<1> USE DEF IInv, Types
<1>1. /\ sweep[s].pc = "idle"
      /\ UNCHANGED <<escrow, disputes, investigations, events, sent, handler, cut>>
  BY DEF SweepList, Idle
<1>2. PICK state : GotoSweep(s, state) /\ state.pc \in {"idle", "item"}
  BY NextItemGoes DEF SweepList
<1>3. Apart(l)   BY <1>1, <1>2, SweepApart DEF Unwritten
<1> QED BY <1>3, ApartKeeps

LEMMA SweepDisputeTrial ==
  ASSUME IInv, NEW s \in Sweep, NEW k \in Listing, SweepDispute(s, k), NEW l \in Listing
  PROVE  Trial(l)'
<1> USE DEF IInv, Types
<1>1. sweep[s].pc = "item" /\ UNCHANGED <<investigations, events, sent, handler, cut>>
  BY DEF SweepDispute
<1>2. CASE ~Held(k)
  <2>1. NextItem(s, sweep[s].todo \ {k}) /\ UNCHANGED <<escrow, disputes>>
    BY <1>2 DEF SweepDispute, Disputable
  <2>2. PICK state : GotoSweep(s, state) /\ state.pc \in {"idle", "item"}
    BY <2>1, NextItemGoes
  <2>3. Apart(l)   BY <1>1, <2>1, <2>2, SweepApart DEF Unwritten
  <2> QED BY <2>3, ApartKeeps
<1>3. CASE Held(k)
  <2> PICK todo : todo = sweep[s].todo \ {k}   OBVIOUS
  <2>1. Freeze(k) /\ GotoSweep(s, [pc |-> "emit", l |-> k, todo |-> todo])
    BY <1>3 DEF SweepDispute, Disputable
  <2>2. /\ escrow'[k].status = "frozen" /\ disputes'[k] = disputes[k] + 1
        /\ \A m \in Listing \ {k} : escrow'[m] = escrow[m] /\ disputes'[m] = disputes[m]
    BY <1>3, <2>1, FreezeEffect
  <2>3. CASE l # k
    <3>1. Unwritten(l)   BY <1>1, <2>2, <2>3 DEF Unwritten
    <3>2. Apart(l)   BY <1>1, <2>1, <2>3, <3>1, SweepApart
    <3> QED BY <3>2, ApartKeeps
  <2>4. CASE l = k
    <3>1. /\ sweep'[s] = [pc |-> "emit", l |-> k, todo |-> todo]
          /\ \A t \in Sweep \ {s} : sweep'[t] = sweep[t]
      BY <2>1 DEF GotoSweep, Sweeps
    <3>2. /\ \A g \in Handler : ~OnSettlement(g, k) /\ ~OnSkim(g, k) /\ ~OnReport(g, k)
          /\ \A t \in Sweep : ~OnSweep(t, k)
      BY <1>3, HeldIsQuiet
    <3>3. /\ \A g \in Handler : ~OnSettlement(g, k)' /\ ~OnSkim(g, k)' /\ ~OnReport(g, k)'
          /\ \A t \in Sweep : OnSweep(t, k)' => t = s
      BY <1>1, <3>1, <3>2 DEF OnSettlement, OnSkim, OnReport, OnSweep
    <3>4. Alone(k)'   BY <3>3 DEF Alone
    <3>5. /\ disputes[k] = 0 /\ events[k]["disputed"] = 0
          /\ events[k]["settled"] = 0 /\ events[k]["tax"] = 0 /\ sent[k] = Nothing
      BY <1>3, HeldIsQuiet
    <3>6. Duties(k)'   BY <1>1, <2>2, <3>1, <3>3, <3>5 DEF Duties
    <3>7. OnSweep(s, k)'   BY <3>1 DEF OnSweep
    <3>8. Verdict(k)'   BY <1>1, <2>2, <3>5, <3>7 DEF Verdict
    <3> QED BY <2>4, <3>4, <3>6, <3>8 DEF Trial
  <2> QED BY <2>3, <2>4
<1> QED BY <1>2, <1>3

LEMMA SweepEmitTrial ==
  ASSUME IInv, NEW s \in Sweep, SweepEmit(s), NEW l \in Listing
  PROVE  Trial(l)'
<1> USE DEF IInv, Types
<1>1. sweep[s].pc = "emit"
      /\ UNCHANGED <<escrow, disputes, investigations, sent, handler, cut>>
  BY DEF SweepEmit
<1>2. sweep[s] \in Scanning   BY <1>1 DEF Sweeps, Idle
<1> PICK k \in Listing : k = sweep[s].l   BY <1>1, ScanningOf
<1> PICK state : state = [sweep[s] EXCEPT !.pc = "police"]   OBVIOUS
<1>3. state.pc = "police" /\ state.l = k   BY <1>1, <1>2 DEF Scanning
<1>4. GotoSweep(s, state) /\ Emit(k, {"disputed"})   BY DEF SweepEmit
<1>5. /\ \A m \in Listing \ {k} : events'[m] = events[m]
      /\ events'[k]["disputed"] = events[k]["disputed"] + 1
      /\ events'[k]["settled"] = events[k]["settled"] /\ events'[k]["tax"] = events[k]["tax"]
  BY <1>4 DEF Emit, Records, EventKind
<1>6. CASE l # k
  <2>1. Unwritten(l)   BY <1>1, <1>5, <1>6 DEF Unwritten
  <2>2. Apart(l)   BY <1>1, <1>3, <1>4, <1>6, <2>1, SweepApart
  <2> QED BY <2>2, ApartKeeps
<1>7. CASE l = k
  <2>1. OnSweep(s, k)   BY <1>1 DEF OnSweep
  <2>2. /\ escrow[k].status = "frozen" /\ events[k]["disputed"] = 0
        /\ disputes[k] = 1
    BY <1>1, <2>1 DEF Trial, Duties, Verdict
  <2>3. /\ \A g \in Handler : ~OnSettlement(g, k) /\ ~OnSkim(g, k) /\ ~OnReport(g, k)
        /\ \A t \in Sweep : OnSweep(t, k) => t = s
    BY <2>1, <2>2 DEF Trial, Duties, Alone
  <2>4. sweep'[s] = state /\ \A t \in Sweep \ {s} : sweep'[t] = sweep[t]
    BY <1>4 DEF GotoSweep, Sweeps
  <2>5. /\ \A g \in Handler : ~OnSettlement(g, k)' /\ ~OnSkim(g, k)' /\ ~OnReport(g, k)'
        /\ \A t \in Sweep : OnSweep(t, k)' => t = s
    BY <1>1, <2>3, <2>4 DEF OnSettlement, OnSkim, OnReport, OnSweep
  <2>6. Alone(k)'   BY <2>5 DEF Alone
  <2>7. sweep'[s].pc = "police" /\ events'[k]["disputed"] = 1   BY <1>3, <1>5, <2>2, <2>4
  <2>8. Duties(k)'   BY <1>1, <2>2, <2>5, <2>7 DEF Duties
  <2>9. OnSweep(s, k)'   BY <1>3, <2>4 DEF OnSweep
  <2>10. Verdict(k)'   BY <1>1, <1>5, <2>2, <2>9 DEF Trial, Verdict
  <2> QED BY <1>7, <2>6, <2>8, <2>10 DEF Trial
<1> QED BY <1>6, <1>7

LEMMA SweepPoliceTrial ==
  ASSUME IInv, NEW s \in Sweep, SweepPolice(s), NEW l \in Listing
  PROVE  Trial(l)'
<1> USE DEF IInv, Types
<1>1. sweep[s].pc = "police" /\ UNCHANGED <<escrow, disputes, events, sent, handler, cut>>
  BY DEF SweepPolice
<1> PICK k \in Listing : k = sweep[s].l   BY <1>1, ScanningOf
<1>2. PICK state : GotoSweep(s, state) /\ state.pc \in {"idle", "item"}
  BY NextItemGoes DEF SweepPolice
<1>3. /\ investigations'[k] = investigations[k] + 1
      /\ \A m \in Listing \ {k} : investigations'[m] = investigations[m]
  BY DEF SweepPolice, Investigate, Records
<1>4. CASE l # k
  <2>1. Unwritten(l)   BY <1>1, <1>3, <1>4 DEF Unwritten
  <2>2. Apart(l)   BY <1>1, <1>2, <1>4, <2>1, SweepApart
  <2> QED BY <2>2, ApartKeeps
<1>5. CASE l = k
  <2>1. OnSweep(s, k)   BY <1>1 DEF OnSweep
  <2>2. escrow[k].status = "frozen" /\ disputes[k] = 1 /\ events[k]["disputed"] > 0
    BY <1>1, <2>1 DEF Trial, Duties, Verdict
  <2>3. /\ \A g \in Handler : ~OnSettlement(g, k) /\ ~OnSkim(g, k) /\ ~OnReport(g, k)
        /\ \A t \in Sweep : OnSweep(t, k) => t = s
    BY <2>1, <2>2 DEF Trial, Duties, Alone
  <2>4. sweep'[s] = state /\ \A t \in Sweep \ {s} : sweep'[t] = sweep[t]
    BY <1>2 DEF GotoSweep, Sweeps
  <2>5. /\ \A g \in Handler : ~OnSettlement(g, k)' /\ ~OnSkim(g, k)' /\ ~OnReport(g, k)'
        /\ \A t \in Sweep : ~OnSweep(t, k)'
    BY <1>1, <1>2, <2>3, <2>4 DEF OnSettlement, OnSkim, OnReport, OnSweep
  <2>6. Alone(k)' /\ Duties(k)'   BY <2>5 DEF Alone, Duties
  <2>7. investigations'[k] > 0   BY <1>3 DEF Records
  <2>8. Verdict(k)'   BY <1>1, <2>2, <2>7 DEF Trial, Verdict
  <2> QED BY <1>5, <2>6, <2>8 DEF Trial
<1> QED BY <1>4, <1>5

LEMMA InvStep == ASSUME IInv, [Next]_vars PROVE IInv'
<1>1. CASE Next
  <2>1. Types' /\ OneDeal'
    <3>1. Types'   BY <1>1, IsClosing, TypesStep DEF IInv
    <3>2. OneDeal'   BY <1>1, <3>1, DealStep DEF IInv
    <3> QED BY <3>1, <3>2
  <2>2. ASSUME NEW l \in Listing PROVE Trial(l)'
    <3>0. Trial(l)   BY DEF IInv
    <3>1. CASE Trading   BY <3>0, <3>1, TradingApart, ApartKeeps
    <3>2. CASE \E h \in Handler : Request(h)   BY <3>0, <3>2, RequestsApart, ApartKeeps
    <3>3. CASE \E h \in Handler : Continue(h)   BY <3>3, ContinueTrial
    <3>4. CASE \E s \in Sweep : Sweeping(s)
      BY <3>4, SweepListTrial, SweepDisputeTrial, SweepEmitTrial, SweepPoliceTrial, Zenon
         DEF Sweeping
    <3>5. CASE Outside   BY <3>0, <3>5, OutsideApart, ApartKeeps
    <3> QED BY <1>1, <3>1, <3>2, <3>3, <3>4, <3>5, Steps
  <2> QED BY <2>1, <2>2 DEF IInv
<1>2. CASE UNCHANGED vars
  <2>1. Types'
    BY <1>2, Zenon DEF IInv, Types, Clock, Purses, Trades, Escrows, Records, Outflow, Requests,
                       Sweeps
  <2>2. OneDeal'   BY <1>2, Zenon DEF IInv, OneDeal
  <2>3. ASSUME NEW l \in Listing PROVE Trial(l)'
    <3>1. Apart(l)   BY <1>2 DEF Apart
    <3> QED BY <3>1, ApartKeeps DEF IInv
  <2> QED BY <2>1, <2>2, <2>3 DEF IInv
<1> QED BY <1>1, <1>2

LEMMA Invariance == Spec => []IInv
  BY TrialsInit, InvStep, PTL DEF Spec

(* Types and balances, for any number of accounts, listings, bids, requests *)
(* and sweeps, whatever fails: no account and no treasury is overdrawn      *)
(* (marketplace-store.ts).                                                  *)
THEOREM TypeCorrect == Spec => []TypeOK
<1>1. IInv => TypeOK   BY TypesImply DEF IInv
<1> QED BY <1>1, Invariance, PTL

(* One deal per listing, in the bids, the escrow and the listing alike,     *)
(* however accepts and rejects interleave (acceptBid, rejectBid).           *)
THEOREM DealsAreOne == Spec => []OneDeal
<1>1. IInv => OneDeal   BY DEF IInv
<1> QED BY <1>1, Invariance, PTL

(* One verdict per trade: a settlement and a dispute of the route or of a   *)
(* sweep exclude each other, in the rows and in the audit chain.            *)
THEOREM VerdictsAreOne == Spec => []OneVerdict
<1>1. ASSUME IInv PROVE OneVerdict
  <2> SUFFICES ASSUME NEW l \in Listing
               PROVE  /\ events[l]["settled"] + events[l]["disputed"] + disputes[l] <=
                            IF escrow[l].status = "frozen" THEN 2 ELSE 1
                      /\ events[l]["settled"] > 0 => escrow[l].status = "settled"
                      /\ events[l]["disputed"] + disputes[l] > 0 => escrow[l].status = "frozen"
                      /\ events[l]["tax"] <= events[l]["settled"]
    BY Zenon DEF OneVerdict
  <2>1. Verdict(l)   BY <1>1 DEF IInv, Trial
  <2>2. PICK settled \in Nat, disputed \in Nat, tax \in Nat :
           /\ settled = events[l]["settled"] /\ disputed = events[l]["disputed"]
           /\ tax = events[l]["tax"]
    BY <1>1 DEF IInv, Types, Records, EventKind
  <2> QED BY <2>1, <2>2 DEF Verdict
<1> QED BY <1>1, Invariance, PTL

(* For any requests, sweeps, citizens and failures: a dispute that is in    *)
(* the table is investigated and in the audit chain, or the request or the  *)
(* sweep that put it there is still at it, or was cut off by a failure      *)
(* before it was done (dispute route, checkSettlementTimeouts).             *)
THEOREM DisputesReachPolice == Spec => []DisputeReachesPolice
<1>1. ASSUME NEW l \in Listing
      PROVE  /\ \A h \in Handler : OnReport(h, l) => OnItsWay(l)
             /\ \A s \in Sweep : OnSweep(s, l) => OnItsWay(l)
  BY DEF OnItsWay, OnReport, OnSweep, Pursued
<1>2. IInv => DisputeReachesPolice
  BY <1>1 DEF IInv, Trial, Verdict, DisputeReachesPolice
<1> QED BY <1>2, Invariance, PTL

-----------------------------------------------------------------------------
(* Where wei moves: three actions of a request, and nothing else disturbs   *)
(* what an open escrow holds.                                               *)
Undisturbed ==
  \A l \in Listing :
     \/ escrow'[l] = escrow[l]
     \/ /\ Held(l) /\ escrow'[l].status \in {"held", "frozen"}
        /\ escrow'[l].amount = escrow[l].amount

LEMMA FreezeDisturbsNothing ==
  ASSUME IInv, NEW k \in Listing, Held(k), Freeze(k)
  PROVE  Undisturbed
<1>1. escrow[k] \in EscrowRow   BY RowOfEscrow DEF IInv, Types, Held
<1>2. /\ escrow'[k].status = "frozen" /\ escrow'[k].amount = escrow[k].amount
      /\ \A l \in Listing \ {k} : escrow'[l] = escrow[l]
  BY <1>1 DEF IInv, Types, Escrows, Freeze, EscrowRow
<1> QED BY <1>2 DEF Undisturbed

LEMMA ConfirmDisturbsNothing ==
  ASSUME IInv, NEW h \in Handler, NEW k \in Listing, NEW caller \in Account,
         NEW party \in {"buyer", "seller"}, Confirm(h, k, caller, party)
  PROVE  Undisturbed
<1>1. escrow[k] \in EscrowRow /\ Held(k)   BY RowOfEscrow DEF Confirm, Held, IInv, Types
<1>2. /\ escrow'[k] = [escrow[k] EXCEPT !.confirmed = escrow[k].confirmed \cup {party}]
      /\ \A l \in Listing \ {k} : escrow'[l] = escrow[l]
  BY DEF Confirm, IInv, Types, Escrows
<1>3. escrow'[k].status = "held" /\ escrow'[k].amount = escrow[k].amount
  BY <1>1, <1>2 DEF EscrowRow, Held
<1> QED BY <1>1, <1>2, <1>3 DEF Undisturbed

LEMMA MoneyMoves ==
  ASSUME IInv, [Next]_vars
  PROVE  \/ \E b \in Bid, caller \in Account, at \in 0..MaxTick : AcceptBid(b, caller, at)
         \/ \E h \in Handler : Settle(h) \/ Skim(h)
         \/ UNCHANGED <<accounts, treasury, sent>> /\ Undisturbed
<1>1. ASSUME UNCHANGED escrow PROVE Undisturbed   BY <1>1 DEF Undisturbed
<1>2. CASE Trading
  <2> PICK k \in Listing, did \in Account :
         \/ \E price \in Price : CreateListing(k, did, price)
         \/ \E b \in Bid, offer \in Offer : PlaceBid(b, k, did, offer)
         \/ \E b \in Bid, at \in 0..MaxTick : AcceptBid(b, did, at)
    BY <1>2, TradingKinds
  <2>1. ASSUME NEW price \in Price, CreateListing(k, did, price)
        PROVE  UNCHANGED <<accounts, treasury, sent, escrow>>
    BY <2>1 DEF CreateListing
  <2>2. ASSUME NEW b \in Bid, NEW offer \in Offer, PlaceBid(b, k, did, offer)
        PROVE  UNCHANGED <<accounts, treasury, sent, escrow>>
    BY <2>2 DEF PlaceBid
  <2> QED BY <1>1, <2>1, <2>2
<1>3. ASSUME NEW h \in Handler, Request(h)
      PROVE  UNCHANGED <<accounts, treasury, sent>> /\ Undisturbed
  <2>1. UNCHANGED <<accounts, treasury, sent>>   BY <1>3, RequestWrites
  <2> QED BY <1>1, <1>3, <2>1, ConfirmDisturbsNothing DEF Request, DisputeRead, RejectRead
<1>4. ASSUME NEW h \in Handler, Continue(h)
      PROVE  \/ Settle(h) \/ Skim(h)
             \/ UNCHANGED <<accounts, treasury, sent>> /\ Undisturbed
  <2>1. CASE Dispute(h)
    <3>1. handler[h].l \in Listing   BY <2>1, ServingOf DEF Dispute, IInv, Types
    <3>2. /\ UNCHANGED <<accounts, treasury, sent>>
          /\ (Held(handler[h].l) /\ Freeze(handler[h].l)) \/ UNCHANGED escrow
      BY <2>1 DEF Dispute, Disputable
    <3> QED BY <1>1, <3>1, <3>2, FreezeDisturbsNothing
  <2> QED BY <1>1, <1>4, <2>1, ContinueWrites
<1>5. ASSUME NEW s \in Sweep, Sweeping(s)
      PROVE  UNCHANGED <<accounts, treasury, sent>> /\ Undisturbed
  <2>1. UNCHANGED <<accounts, treasury, sent>>   BY <1>5, SweepingWrites
  <2>2. ASSUME NEW l \in Listing, SweepDispute(s, l)
        PROVE  (Held(l) /\ Freeze(l)) \/ UNCHANGED escrow
    BY <2>2 DEF SweepDispute, Disputable
  <2> QED BY <1>1, <1>5, <2>1, <2>2, FreezeDisturbsNothing, SweepingWrites
<1>6. CASE Outside   BY <1>1, <1>6, OutsideWrites
<1>7. CASE UNCHANGED vars   BY <1>1, <1>7
<1> QED BY <1>2, <1>3, <1>4, <1>5, <1>6, <1>7, Steps

(* What the sums of the accounts and of the escrows do when one changes.    *)
LEMMA AccountsMove ==
  ASSUME Purses, Purses', NEW a \in Account, NEW wei \in Int,
         accounts' = [accounts EXCEPT ![a] = accounts[a] + wei]
  PROVE  SumFunction(accounts') = SumFunction(accounts) + wei /\ SumFunction(accounts) \in Int
<1> DEFINE new == accounts'
<1>1. accounts \in [Account -> Int] /\ new \in [Account -> Int]   BY DEF Purses
<1>2. new[a] = accounts[a] + wei /\ \A c \in Account \ {a} : new[c] = accounts[c]
  BY DEF Purses
<1> HIDE DEF new
<1>3. SumFunction(new) = SumFunction(accounts) + new[a] - accounts[a]
  BY <1>1, <1>2, SumChange, FinitenessAssumption
<1>4. SumFunction(accounts) \in Int   BY <1>1, SumInInt, FinitenessAssumption
<1>5. accounts[a] \in Int   BY <1>1
<1>6. SumFunction(new) = SumFunction(accounts) + wei   BY <1>2, <1>3, <1>4, <1>5
<1> QED BY <1>4, <1>6 DEF new

LEMMA InEscrowType == ASSUME Escrows PROVE InEscrow \in [Listing -> Int]
<1>1. ASSUME NEW l \in Listing, Open(l) PROVE escrow[l].amount \in Int
  BY <1>1, RowOfEscrow DEF Open
<1> QED BY <1>1 DEF InEscrow

LEMMA InEscrowMoves ==
  ASSUME Escrows, Escrows', NEW l \in Listing, NEW wei \in Int,
         \A k \in Listing \ {l} : escrow'[k] = escrow[k],
         InEscrow[l]' = InEscrow[l] + wei
  PROVE  SumFunction(InEscrow)' = SumFunction(InEscrow) + wei /\ SumFunction(InEscrow) \in Int
<1> DEFINE new == InEscrow'
<1>1. InEscrow \in [Listing -> Int]   BY InEscrowType
<1>2. new \in [Listing -> Int]
  <2>1. ASSUME NEW k \in Listing, Open(k)' PROVE escrow'[k].amount \in Int
    <3>1. escrow'[k] \in EscrowRow   BY <2>1 DEF Escrows, Open, NoEscrow
    <3>2. Offer \subseteq Int   BY ConstantsAssumption DEF ConstantsAssumption
    <3> QED BY <3>1, <3>2 DEF EscrowRow
  <2> QED BY <2>1 DEF InEscrow
<1>3. new[l] = InEscrow[l] + wei /\ \A k \in Listing \ {l} : new[k] = InEscrow[k]
  BY DEF InEscrow, Open
<1> HIDE DEF new
<1>4. SumFunction(new) = SumFunction(InEscrow) + new[l] - InEscrow[l]
  BY <1>1, <1>2, <1>3, SumChange, FinitenessAssumption
<1>5. SumFunction(InEscrow) \in Int   BY <1>1, SumInInt, FinitenessAssumption
<1>6. InEscrow[l] \in Int   BY <1>1
<1>7. SumFunction(new) = SumFunction(InEscrow) + wei   BY <1>3, <1>4, <1>5, <1>6
<1> QED BY <1>5, <1>7 DEF new

LEMMA SameEscrows ==
  ASSUME Escrows, Undisturbed
  PROVE  InEscrow' = InEscrow
<1>1. ASSUME NEW l \in Listing
      PROVE  /\ Open(l)' <=> Open(l)
             /\ Open(l) => escrow'[l].amount = escrow[l].amount
  BY DEF Undisturbed, Open, Held
<1> QED BY <1>1 DEF InEscrow

(* Conservation, step by step.                                              *)
LEMMA InitConserved == ASSUME Init PROVE Conserved
<1>1. accounts \in [Account -> Int] /\ Wealth \in Int /\ treasury = 0
      /\ \A a \in Account : accounts[a] = Wealth
  BY ConstantsAssumption DEF ConstantsAssumption, Init
<1>2. SumFunction(accounts) = Wealth * Cardinality(Account)
  BY <1>1, SumConstant, FinitenessAssumption
<1>3. InEscrow \in [Listing -> Int] /\ \A l \in Listing : InEscrow[l] = 0
  BY DEF Init, InEscrow, Open, NoEscrow
<1>4. SumFunction(InEscrow) = 0   BY <1>3, SumZero, FinitenessAssumption
<1>5. SumFunction(accounts) \in Int   BY <1>1, SumInInt, FinitenessAssumption
<1> QED BY <1>1, <1>2, <1>4, <1>5 DEF Conserved

LEMMA AcceptConserves ==
  ASSUME IInv, IInv', Conserved, NEW b \in Bid, NEW caller \in Account, NEW at \in 0..MaxTick,
         AcceptBid(b, caller, at)
  PROVE  Conserved'
<1> USE DEF IInv, Types
<1> PICK k \in Listing, bidder \in Account, offer \in Offer : Funding(b, at, k, bidder, offer)
  BY AcceptEffect
<1>1. escrow[k] = NoEscrow
  <2>1. Deal(k)   BY OneDealIs
  <2> QED BY <2>1 DEF Deal, Funding
<1>2. /\ escrow'[k].status = "held" /\ escrow'[k].amount = offer /\ offer \in Int
      /\ \A l \in Listing \ {k} : escrow'[l] = escrow[l]
  BY DEF Funding, Escrows
<1>3. InEscrow[k] = 0 /\ InEscrow[k]' = offer
  BY <1>1, <1>2 DEF InEscrow, Open, NoEscrow
<1>4. /\ SumFunction(InEscrow)' = SumFunction(InEscrow) + offer
      /\ SumFunction(InEscrow) \in Int
  BY <1>2, <1>3, InEscrowMoves
<1>5. accounts' = [accounts EXCEPT ![bidder] = accounts[bidder] + (-offer)] /\ -offer \in Int
  <2>1. accounts[bidder] \in Int   BY DEF Purses
  <2>2. accounts[bidder] - offer = accounts[bidder] + (-offer) /\ -offer \in Int   BY <1>2, <2>1
  <2> QED BY <2>2 DEF Funding
<1>6. /\ SumFunction(accounts') = SumFunction(accounts) + (-offer)
      /\ SumFunction(accounts) \in Int
  BY <1>5, AccountsMove
<1>7. treasury' = treasury /\ treasury \in Int   BY DEF AcceptBid, Purses
<1> QED BY <1>2, <1>4, <1>6, <1>7 DEF Conserved

LEMMA SettleConserves ==
  ASSUME IInv, IInv', Conserved, NEW h \in Handler, Settle(h)
  PROVE  Conserved'
<1> USE DEF IInv, Types
<1> PICK k \in Listing, fee \in Nat : Settlement(h, k, fee)   BY SettleEffect
<1>1. escrow[k].seller \in Account /\ escrow[k].amount \in Nat
  BY RowOfEscrow DEF Settlement, Held
<1> PICK wei \in Nat : wei = escrow[k].amount   BY <1>1
<1> PICK seller \in Account : seller = escrow[k].seller   BY <1>1
<1>2. /\ escrow[k].status = "held" /\ escrow'[k].status = "settled"
      /\ \A l \in Listing \ {k} : escrow'[l] = escrow[l]
  BY DEF Settlement, Held, EscrowRow, Escrows
<1>3. InEscrow[k]' = InEscrow[k] + (-wei)   BY <1>2 DEF InEscrow, Open
<1>4. -wei \in Int /\ wei - fee \in Int   OBVIOUS
<1>5. /\ SumFunction(InEscrow)' = SumFunction(InEscrow) + (-wei)
      /\ SumFunction(InEscrow) \in Int
  BY <1>2, <1>3, <1>4, InEscrowMoves
<1>6. accounts' = [accounts EXCEPT ![seller] = accounts[seller] + (wei - fee)]
  BY DEF Settlement
<1>7. /\ SumFunction(accounts') = SumFunction(accounts) + (wei - fee)
      /\ SumFunction(accounts) \in Int
  BY <1>4, <1>6, AccountsMove
<1>8. treasury' = treasury + fee /\ treasury \in Int   BY DEF Settlement, Purses
<1> QED BY <1>5, <1>7, <1>8 DEF Conserved

LEMMA SkimConserves ==
  ASSUME IInv, IInv', Conserved, NEW h \in Handler, Skim(h)
  PROVE  Conserved'
<1> USE DEF IInv, Types
<1>1. InEscrow' = InEscrow   BY DEF Skim, InEscrow, Open
<1>2. CASE UNCHANGED <<accounts, treasury>>   BY <1>1, <1>2 DEF Conserved
<1>3. ASSUME NEW seller \in Account, NEW due \in Nat, accounts[seller] >= due,
             accounts' = [accounts EXCEPT ![seller] = accounts[seller] - due],
             treasury' = treasury + due
      PROVE  Conserved'
  <2>1. accounts' = [accounts EXCEPT ![seller] = accounts[seller] + (-due)] /\ -due \in Int
    <3>1. accounts[seller] \in Int   BY DEF Purses
    <3>2. accounts[seller] - due = accounts[seller] + (-due) /\ -due \in Int   BY <3>1
    <3> QED BY <1>3, <3>2
  <2>2. /\ SumFunction(accounts') = SumFunction(accounts) + (-due)
        /\ SumFunction(accounts) \in Int
    BY <2>1, AccountsMove
  <2>3. SumFunction(InEscrow) \in Int   BY InEscrowType, SumInInt, FinitenessAssumption
  <2>4. treasury \in Int   BY DEF Purses
  <2> QED BY <1>1, <1>3, <2>2, <2>3, <2>4 DEF Conserved
<1> QED BY <1>2, <1>3, IsClosing, SkimEffect

(* No wei is minted or burned, for any number of accounts, listings, bids   *)
(* and requests, whatever fails: an accept, a settlement and the zone tax   *)
(* move wei between accounts, open escrows and the treasury.                *)
THEOREM MoneyIsConserved == Spec => []Conserved
<1>1. Init => Conserved   BY InitConserved
<1>2. ASSUME IInv, IInv', Conserved, [Next]_vars PROVE Conserved'
  <2>1. ASSUME UNCHANGED <<accounts, treasury>>, Undisturbed PROVE Conserved'
    <3>1. InEscrow' = InEscrow   BY <1>2, <2>1, SameEscrows DEF IInv, Types
    <3> QED BY <1>2, <2>1, <3>1 DEF Conserved
  <2> QED BY <1>2, <2>1, MoneyMoves, AcceptConserves, SettleConserves, SkimConserves
<1> QED BY <1>1, <1>2, Invariance, PTL DEF Spec

-----------------------------------------------------------------------------
(* The marketplace implements Escrow.                                       *)
status == [l \in Listing |-> Phase(l)]
deposit == [l \in Listing |-> Deposited(l)]

LEMMA Phases ==
  ASSUME NEW l \in Listing
  PROVE  /\ escrow[l].status \in {"held", "frozen"} => Phase(l) = "held"
         /\ escrow[l].status = "settled" => Phase(l) = "paid"
         /\ escrow[l] = NoEscrow => Phase(l) = "none" /\ Deposited(l) = 0
         /\ escrow[l].status # "none" => Deposited(l) = escrow[l].amount
  BY DEF Phase, Open, Deposited, NoEscrow

(* What a row says of its listing.                                          *)
LEMMA SamePhase ==
  ASSUME Types, NEW l \in Listing, escrow[l] # NoEscrow, escrow'[l].amount = escrow[l].amount,
         escrow[l].status \in {"held", "frozen"}, escrow'[l].status \in {"held", "frozen"}
  PROVE  Phase(l)' = Phase(l) /\ Deposited(l)' = Deposited(l)
  BY DEF Phase, Open, Deposited, NoEscrow

LEMMA SameRow ==
  ASSUME NEW l \in Listing, escrow'[l] = escrow[l]
  PROVE  Phase(l)' = Phase(l) /\ Deposited(l)' = Deposited(l)
  BY DEF Phase, Open, Deposited

LEMMA InitRefines == Init => E!Init
<1> SUFFICES ASSUME Init PROVE E!Init
  OBVIOUS
<1>1. \A l \in Listing : Phase(l) = "none" /\ Deposited(l) = 0   BY Phases DEF Init
<1>2. status = [l \in Listing |-> "none"] /\ deposit = [l \in Listing |-> 0]
  BY <1>1 DEF status, deposit
<1> QED BY <1>2 DEF Init, E!Init, status, deposit, Nothing, E!Nothing

LEMMA AcceptRefines ==
  ASSUME IInv, NEW b \in Bid, NEW caller \in Account, NEW at \in 0..MaxTick,
         AcceptBid(b, caller, at)
  PROVE  E!Next
<1> USE DEF IInv, Types
<1> PICK k \in Listing, bidder \in Account, offer \in Offer : Funding(b, at, k, bidder, offer)
  BY AcceptEffect
<1>1. escrow[k] = NoEscrow
  <2>1. Deal(k)   BY OneDealIs
  <2> QED BY <2>1 DEF Deal, Funding
<1>2. /\ escrow'[k].status = "held" /\ escrow'[k].amount = offer /\ escrow'[k] # NoEscrow
      /\ \A l \in Listing \ {k} : escrow'[l] = escrow[l]
  BY DEF Funding, Escrows, NoEscrow
<1>3. /\ Phase(k) = "none" /\ Phase(k)' = "held" /\ Deposited(k)' = offer
      /\ \A l \in Listing \ {k} : Phase(l)' = Phase(l) /\ Deposited(l)' = Deposited(l)
  <2>1. Phase(k) = "none"   BY <1>1, Phases
  <2>2. Phase(k)' = "held"   BY <1>2 DEF Phase, Open
  <2>3. Deposited(k)' = offer   BY <1>2 DEF Deposited
  <2> QED BY <1>2, <2>1, <2>2, <2>3, SameRow
<1>4. /\ status[k] = "none"
      /\ status' = [status EXCEPT ![k] = "held"] /\ deposit' = [deposit EXCEPT ![k] = offer]
  BY <1>3 DEF status, deposit
<1>5. UNCHANGED sent /\ offer > 0   BY DEF AcceptBid, Funding
<1>6. E!Deposit(k, offer)   BY <1>4, <1>5 DEF E!Deposit, status, deposit
<1> QED BY <1>6 DEF E!Next

LEMMA SettleRefines == ASSUME IInv, NEW h \in Handler, Settle(h) PROVE E!Next
<1> USE DEF IInv, Types
<1> PICK k \in Listing, fee \in Nat : Settlement(h, k, fee)   BY SettleEffect
<1>1. sent[k] = Nothing   BY HeldIsQuiet DEF Settlement
<1> PICK wei \in Nat : wei = escrow[k].amount   BY RowOfEscrow DEF Settlement, Held
<1>2. /\ escrow[k].status = "held" /\ escrow'[k].status = "settled"
      /\ escrow'[k].amount = wei /\ fee \in 0..wei
      /\ \A l \in Listing \ {k} : escrow'[l] = escrow[l]
  BY DEF Settlement, Held, EscrowRow, Escrows
<1>3. /\ Phase(k) = "held" /\ Phase(k)' = "paid"
      /\ Deposited(k) = wei /\ Deposited(k)' = wei
      /\ \A l \in Listing \ {k} : Phase(l)' = Phase(l) /\ Deposited(l)' = Deposited(l)
  <2>1. Phase(k) = "held" /\ Deposited(k) = wei   BY <1>2, Phases
  <2>2. escrow'[k] # NoEscrow   BY <1>2 DEF NoEscrow
  <2>3. Phase(k)' = "paid"   BY <1>2, <2>2 DEF Phase, Open
  <2>4. Deposited(k)' = wei   BY <1>2, <2>2 DEF Deposited
  <2> QED BY <1>2, <2>1, <2>3, <2>4, SameRow
<1>4. /\ status[k] = "held" /\ deposit[k] = wei
      /\ status' = [status EXCEPT ![k] = "paid"] /\ UNCHANGED deposit
  BY <1>3 DEF status, deposit
<1>5. sent' = [sent EXCEPT ![k] = [worker |-> wei - fee, treasury |-> fee, payer |-> 0]]
  <2>1. /\ sent[k].worker + (wei - fee) = wei - fee /\ sent[k].treasury + fee = fee
        /\ sent[k].payer + 0 = 0
    BY <1>1, <1>2 DEF Nothing
  <2> QED BY <2>1 DEF Settlement
<1>6. E!Pay(k, fee)   BY <1>4, <1>5 DEF E!Pay, status, deposit
<1>7. fee \in 0..deposit[k]   BY <1>2, <1>4
<1> QED BY <1>6, <1>7 DEF E!Next, deposit

(* Everything else is invisible from outside: the wei stays where it is.    *)
LEMMA StaysPut ==
  ASSUME IInv, UNCHANGED sent, Undisturbed
  PROVE  UNCHANGED <<status, deposit, sent>>
<1>1. ASSUME NEW l \in Listing PROVE Phase(l)' = Phase(l) /\ Deposited(l)' = Deposited(l)
  <2>1. CASE escrow'[l] = escrow[l]   BY <2>1 DEF Phase, Open, Deposited
  <2>2. CASE /\ Held(l) /\ escrow'[l].status \in {"held", "frozen"}
             /\ escrow'[l].amount = escrow[l].amount
    BY <2>2, SamePhase DEF IInv, Held, NoEscrow
  <2> QED BY <2>1, <2>2 DEF Undisturbed
<1> QED BY <1>1 DEF status, deposit

LEMMA NextRefines == IInv /\ [Next]_vars => [E!Next]_<<status, deposit, sent>>
<1> SUFFICES ASSUME IInv, [Next]_vars PROVE E!Next \/ UNCHANGED <<status, deposit, sent>>
  OBVIOUS
<1>1. ASSUME NEW h \in Handler, Skim(h) PROVE UNCHANGED <<escrow, sent>>
  BY <1>1 DEF Skim
<1>2. ASSUME UNCHANGED <<escrow, sent>> PROVE UNCHANGED <<status, deposit, sent>>
  BY <1>2, StaysPut DEF Undisturbed
<1> QED BY <1>1, <1>2, StaysPut, MoneyMoves, AcceptRefines, SettleRefines

(* The marketplace is an escrow: the wei of a buyer is taken once, when the *)
(* bid is accepted, and leaves at most once, in full, to the seller and the *)
(* treasury (acceptBid, settle).                                            *)
THEOREM Implements == Spec => ImplementsEscrow
<1>1. IInv /\ [Next]_vars => [E!Next]_E!vars
  BY NextRefines DEF E!vars, status, deposit
<1> QED
  BY <1>1, InitRefines, Invariance, PTL DEF Spec, ImplementsEscrow, E!Spec
=============================================================================
