---------------------------- MODULE SocietyProofs ----------------------------
(***************************************************************************)
(* The two protocols of the Society that peers run over gossip: Knowledge, *)
(* the merge of knowledge cards, and Collaboration, the chains of steps    *)
(* with their leases.  Both hold for any number of peers, any order, loss  *)
(* and delay of the messages.                                              *)
(*                                                                         *)
(* The heart of the first is Explained: a verification carries the peer    *)
(* and the count of the change that added it, it is in every copy whose    *)
(* vector clock covers that count, and in no other.  A vector clock        *)
(* therefore tells exactly which verifications a copy has, and             *)
(* StaleHasNothingNew follows.  It is inductive together with              *)
(* OwnClockLeads: the count a confirming peer uses is above everything any *)
(* copy has of that peer.                                                  *)
(*                                                                         *)
(* The invariants of the second are inductive with its types.  A handler   *)
(* is shown once to keep them (HandleKeeps), whether its message is the    *)
(* peer's own or was received; then what a crash leaves of a handler, and  *)
(* the three ways a lease expires.                                         *)
(***************************************************************************)
EXTENDS Knowledge, Collaboration, TLAPS

-----------------------------------------------------------------------------
(* Knowledge cards.                                                        *)

(* A verification is in the copies whose clock covers it, and only there. *)
Explained ==
  \A c, d \in Copies : \A e \in c.verifications :
    /\ 0 < e.count /\ e.count <= c.vc[e.at]
    /\ e.count <= d.vc[e.at] => e \in d.verifications

IInv == TypeOK /\ OwnClockLeads /\ Explained /\ VerifiedByTwo

(* The condition under which copy[p] may become the card new. *)
Fits(p, new) ==
  /\ Has(p) => VcLeq(copy[p].vc, new.vc)
  /\ \A q \in Peer \ {p} : new.vc[q] > 0 => Has(q) /\ new.vc[q] <= copy[q].vc[q]
  /\ \A c \in Copies : \A e \in c.verifications :
       e.count <= new.vc[e.at] => e \in new.verifications
  /\ \A e \in new.verifications :
       /\ 0 < e.count /\ e.count <= new.vc[e.at]
       /\ \A d \in Copies : e.count <= d.vc[e.at] => e \in d.verifications
  /\ new.verified => TwoVerifiers(new.verifications)

---------------------------------------------------------------------------
(* Lemmas about the operators *)

(* The larger of two counts. *)
LEMMA LargerIs ==
  ASSUME NEW i \in Nat, NEW j \in Nat
  PROVE  /\ Larger(i, j) \in Nat
         /\ Larger(i, j) \in {i, j}
         /\ i <= Larger(i, j) /\ j <= Larger(i, j)
BY DEF Larger

(* The merge of two vector clocks covers both and claims nothing more. *)
LEMMA MergeVcIs ==
  ASSUME NEW v \in [Peer -> Nat], NEW w \in [Peer -> Nat]
  PROVE  /\ MergeVc(v, w) \in [Peer -> Nat]
         /\ VcLeq(v, MergeVc(v, w)) /\ VcLeq(w, MergeVc(v, w))
         /\ \A p \in Peer : MergeVc(v, w)[p] \in {v[p], w[p]}
BY LargerIs DEF MergeVc, VcLeq

(* tickHLC gives a later time stamp of the same node. *)
LEMMA TickHlcIs ==
  ASSUME NEW h \in Clock, NEW pt \in Nat
  PROVE  /\ TickHlc(h, pt) \in Clock
         /\ TickHlc(h, pt).node = h.node
         /\ HlcLess(h, TickHlc(h, pt))
<1>1. h.wall \in Nat /\ h.logical \in Nat /\ h.node \in Peer
      /\ h = [wall |-> h.wall, logical |-> h.logical, node |-> h.node]
  BY DEF Clock
<1>2. CASE pt > h.wall
  <2>1. TickHlc(h, pt) = [wall |-> pt, logical |-> 0, node |-> h.node]
    BY <1>1, <1>2 DEF TickHlc
  <2> QED BY <1>1, <1>2, <2>1 DEF Clock, HlcLess
<1>3. CASE ~(pt > h.wall)
  <2>1. TickHlc(h, pt) = [wall |-> h.wall, logical |-> h.logical + 1, node |-> h.node]
    BY <1>1, <1>3 DEF TickHlc
  <2> QED BY <1>1, <2>1 DEF Clock, HlcLess
<1> QED BY <1>2, <1>3

(* receiveHLC gives a time stamp of the local node, later than both. *)
LEMMA ReceiveHlcIs ==
  ASSUME NEW h \in Clock, NEW k \in Clock, NEW pt \in Nat
  PROVE  /\ ReceiveHlc(h, k, pt) \in Clock
         /\ ReceiveHlc(h, k, pt).node = h.node
         /\ HlcLess(h, ReceiveHlc(h, k, pt))
         /\ HlcLess(k, ReceiveHlc(h, k, pt))
<1> DEFINE wall == Larger(Larger(h.wall, k.wall), pt)
           logical == IF wall = h.wall /\ wall = k.wall
                        THEN Larger(h.logical, k.logical) + 1
                      ELSE IF wall = h.wall THEN h.logical + 1
                      ELSE IF wall = k.wall THEN k.logical + 1 ELSE 0
<1>1. /\ h.wall \in Nat /\ k.wall \in Nat /\ h.logical \in Nat /\ k.logical \in Nat
      /\ h.node \in Peer
  BY DEF Clock
<1>2. wall \in Nat /\ h.wall <= wall /\ k.wall <= wall
  <2> DEFINE both == Larger(h.wall, k.wall)
  <2>1. both \in Nat /\ h.wall <= both /\ k.wall <= both
    BY <1>1, LargerIs
  <2> HIDE DEF both
  <2>2. Larger(both, pt) \in Nat /\ both <= Larger(both, pt)
    BY <2>1, LargerIs
  <2> QED BY <1>1, <2>1, <2>2 DEF both
<1>3. /\ logical \in Nat
      /\ wall = h.wall => h.logical < logical
      /\ wall = k.wall => k.logical < logical
  <2>1. /\ Larger(h.logical, k.logical) \in Nat
        /\ h.logical <= Larger(h.logical, k.logical)
        /\ k.logical <= Larger(h.logical, k.logical)
    BY <1>1, LargerIs
  <2> QED BY <1>1, <2>1
<1>4. ReceiveHlc(h, k, pt) = [wall |-> wall, logical |-> logical, node |-> h.node]
  BY DEF ReceiveHlc
<1> HIDE DEF wall, logical
<1> QED BY <1>1, <1>2, <1>3, <1>4 DEF Clock, HlcLess

(* What Advance does to a card. *)
LEMMA AdvanceIs ==
  ASSUME TypeOK, NEW p \in Peer, Has(p)
  PROVE  LET old == copy[p]
             new == Advance(p, old)
         IN /\ new \in Card
            /\ new.hlc.node = p /\ HlcLess(old.hlc, new.hlc)
            /\ new.vc = [old.vc EXCEPT ![p] = old.vc[p] + 1]
            /\ new.content = old.content /\ new.tombstone = old.tombstone
            /\ new.verifications = old.verifications /\ new.verified = old.verified
<1>1. copy[p] \in Card /\ copy[p].hlc \in Clock /\ clock[p] \in Nat /\ copy[p].hlc.node = p
  BY DEF TypeOK, Has, Card
<1>2. /\ TickHlc(copy[p].hlc, clock[p]) \in Clock
      /\ TickHlc(copy[p].hlc, clock[p]).node = p
      /\ HlcLess(copy[p].hlc, TickHlc(copy[p].hlc, clock[p]))
  BY <1>1, TickHlcIs
<1> DEFINE hlc == TickHlc(copy[p].hlc, clock[p])
           vc == [copy[p].vc EXCEPT ![p] = copy[p].vc[p] + 1]
<1>3. vc \in [Peer -> Nat]
  BY <1>1 DEF Card
<1>4. Advance(p, copy[p]) = [copy[p] EXCEPT !.hlc = hlc, !.vc = vc]
  BY <1>1 DEF Advance, Card
<1> HIDE DEF hlc, vc
<1>5. hlc \in Clock /\ hlc.node = p /\ HlcLess(copy[p].hlc, hlc)
  BY <1>2 DEF hlc
<1>6. /\ Advance(p, copy[p]) \in Card
      /\ Advance(p, copy[p]).hlc = hlc /\ Advance(p, copy[p]).vc = vc
      /\ Advance(p, copy[p]).content = copy[p].content
      /\ Advance(p, copy[p]).tombstone = copy[p].tombstone
      /\ Advance(p, copy[p]).verifications = copy[p].verifications
      /\ Advance(p, copy[p]).verified = copy[p].verified
  BY <1>1, <1>3, <1>4, <1>5 DEF Card
<1> QED BY <1>5, <1>6 DEF vc

(* What mergeCard makes of a copy that is not covered by the local one. *)
LEMMA MergedIs ==
  ASSUME TypeOK, NEW p \in Peer, Has(p), NEW remote \in sent
  PROVE  LET local == copy[p]
             new == Merged(p, local, remote)
         IN /\ new \in Card
            /\ new.hlc.node = p /\ HlcLess(local.hlc, new.hlc)
            /\ new.vc = MergeVc(local.vc, remote.vc)
            /\ new.tombstone = (local.tombstone \/ remote.tombstone)
            /\ new.verifications = local.verifications \cup remote.verifications
            /\ new.verified \in {local.verified, remote.verified}
<1> DEFINE local == copy[p]
           hlc == ReceiveHlc(local.hlc, remote.hlc, clock[p])
<1>1. /\ local \in Card /\ local.hlc \in Clock /\ local.vc \in [Peer -> Nat]
      /\ remote \in Card /\ remote.hlc \in Clock /\ remote.vc \in [Peer -> Nat]
      /\ local.hlc.node = p /\ clock[p] \in Nat
  BY DEF TypeOK, Has, Card
<1>2. hlc \in Clock /\ hlc.node = p /\ HlcLess(local.hlc, hlc)
  BY <1>1, ReceiveHlcIs
<1>3. MergeVc(local.vc, remote.vc) \in [Peer -> Nat]
  BY <1>1, MergeVcIs
<1> DEFINE winner == IF VcLeq(local.vc, remote.vc) \/ HlcLess(local.hlc, remote.hlc)
                       THEN remote ELSE local
<1>4. winner \in {local, remote} /\ winner \in Card
  BY <1>1
<1>5. Merged(p, local, remote) =
        [winner EXCEPT !.hlc = hlc, !.vc = MergeVc(local.vc, remote.vc),
                       !.tombstone = local.tombstone \/ remote.tombstone,
                       !.verifications = local.verifications \cup remote.verifications]
  BY DEF Merged
<1> HIDE DEF winner, hlc
<1>6. /\ local.tombstone \/ remote.tombstone \in BOOLEAN
      /\ local.verifications \cup remote.verifications \in SUBSET Verification
  BY <1>1 DEF Card
<1> QED BY <1>1, <1>2, <1>3, <1>4, <1>5, <1>6 DEF Card

(* What mergeCard makes of a card it does not know. *)
LEMMA AdoptedIs ==
  ASSUME TypeOK, NEW p \in Peer, NEW remote \in sent
  PROVE  LET new == Adopted(p, remote)
         IN /\ new \in Card /\ new.hlc.node = p
            /\ new.vc = remote.vc /\ new.tombstone = remote.tombstone
            /\ new.verifications = remote.verifications
            /\ new.verified = remote.verified
<1> DEFINE own == [wall |-> clock[p], logical |-> 0, node |-> p]
           hlc == ReceiveHlc(own, remote.hlc, clock[p])
<1>1. remote \in Card /\ remote.hlc \in Clock /\ own \in Clock /\ clock[p] \in Nat
  BY DEF TypeOK, Card, Clock
<1>2. hlc \in Clock /\ hlc.node = p
  BY <1>1, ReceiveHlcIs
<1>3. Adopted(p, remote) = [remote EXCEPT !.hlc = hlc]
  BY DEF Adopted
<1> HIDE DEF hlc
<1> QED BY <1>1, <1>2, <1>3 DEF Card

---------------------------------------------------------------------------
(* The invariant *)

(* Replacing one copy by a card that fits keeps the invariant. *)
LEMMA FitKeeps ==
  ASSUME IInv, NEW p \in Peer, NEW new \in Card, new.hlc.node = p, Fits(p, new),
         copy' = [copy EXCEPT ![p] = new], UNCHANGED sent, edits' \in Nat,
         UNCHANGED clock
  PROVE  IInv'
<1>1. TypeOK'
  BY DEF IInv, TypeOK, Has
<1>2. copy'[p] = new /\ Has(p)' /\ \A q \in Peer \ {p} : copy'[q] = copy[q]
  BY UnknownAssumption DEF IInv, TypeOK, Has
<1>3. \A c \in Copies' : c \in Copies \/ c = new
  BY <1>2 DEF Copies, Has
<1>4. \A c \in Copies : c \in Card
  BY DEF IInv, TypeOK, Copies, Has
<1>5. OwnClockLeads'
  <2> SUFFICES ASSUME NEW c \in Copies', NEW q \in Peer, c.vc[q] > 0
               PROVE  Has(q)' /\ c.vc[q] <= copy'[q].vc[q]
    BY DEF OwnClockLeads
  <2>1. CASE c \in Copies
    <3>1. Has(q) /\ c.vc[q] <= copy[q].vc[q]
      BY <2>1 DEF IInv, OwnClockLeads
    <3>2. CASE q = p
      <4>1. copy[p].vc[p] <= new.vc[p]
        BY <3>1, <3>2 DEF Fits, VcLeq
      <4>2. c \in Card /\ copy[p] \in Card
        BY <1>4, <2>1, <3>1, <3>2 DEF IInv, TypeOK, Has
      <4>3. c.vc[p] \in Nat /\ copy[p].vc[p] \in Nat /\ new.vc[p] \in Nat
        BY <4>2 DEF Card
      <4> QED BY <1>2, <3>1, <3>2, <4>1, <4>3
    <3>3. CASE q # p
      BY <1>2, <3>1, <3>3 DEF Has
    <3> QED BY <3>2, <3>3
  <2>2. CASE c = new
    <3>1. CASE q = p
      BY <1>2, <2>2, <3>1 DEF Card
    <3>2. CASE q # p
      BY <1>2, <2>2, <3>2 DEF Fits, Has
    <3> QED BY <3>1, <3>2
  <2> QED BY <1>3, <2>1, <2>2
<1>6. Explained'
  <2> SUFFICES ASSUME NEW c \in Copies', NEW d \in Copies', NEW e \in c.verifications
               PROVE  /\ 0 < e.count /\ e.count <= c.vc[e.at]
                      /\ e.count <= d.vc[e.at] => e \in d.verifications
    BY DEF Explained
  <2>1. CASE c \in Copies /\ d \in Copies
    BY <2>1 DEF IInv, Explained
  <2>2. CASE c \in Copies /\ d = new
    BY <2>2 DEF IInv, Explained, Fits
  <2>3. CASE c = new /\ d \in Copies
    BY <2>3 DEF Fits
  <2>4. CASE c = new /\ d = new
    BY <2>4 DEF Fits
  <2> QED BY <1>3, <2>1, <2>2, <2>3, <2>4
<1>7. VerifiedByTwo'
  BY <1>3 DEF IInv, VerifiedByTwo, Fits
<1> QED BY <1>1, <1>5, <1>6, <1>7 DEF IInv

(* A change the peer makes itself: one more of its own, and at most one
   verification, stamped with the new count. *)
LEMMA OwnChangeFits ==
  ASSUME IInv, NEW p \in Peer, Has(p), NEW new \in Card, NEW vs,
         new.vc = [copy[p].vc EXCEPT ![p] = copy[p].vc[p] + 1],
         \A e \in vs : e \in Verification /\ e.at = p /\ e.count = copy[p].vc[p] + 1,
         new.verifications = copy[p].verifications \cup vs,
         new.verified => TwoVerifiers(new.verifications)
  PROVE  Fits(p, new)
<1>1. copy[p] \in Copies /\ copy[p] \in Card /\ copy[p].vc \in [Peer -> Nat]
  BY DEF IInv, TypeOK, Has, Card, Copies
<1>2. \A c \in Copies : c \in Card
  BY DEF IInv, TypeOK, Copies, Has
<1>3. \A c \in Copies : c.vc \in [Peer -> Nat] /\ c.verifications \subseteq Verification
  BY <1>2 DEF Card
<1>4. new.vc[p] = copy[p].vc[p] + 1 /\ \A q \in Peer \ {p} : new.vc[q] = copy[p].vc[q]
  BY <1>1
<1>5. VcLeq(copy[p].vc, new.vc)
  BY <1>1, <1>4 DEF VcLeq
<1>6. \A q \in Peer \ {p} : new.vc[q] > 0 => Has(q) /\ new.vc[q] <= copy[q].vc[q]
  BY <1>1, <1>4 DEF IInv, OwnClockLeads
<1>7. ASSUME NEW c \in Copies
      PROVE  c.vc[p] <= copy[p].vc[p]
  BY <1>1, <1>3 DEF IInv, OwnClockLeads
<1>8. ASSUME NEW c \in Copies, NEW e \in c.verifications, e.count <= new.vc[e.at]
      PROVE  e \in new.verifications
  <2>1. e \in Verification /\ e.count <= c.vc[e.at] /\ e.at \in Peer /\ e.count \in Nat
    BY <1>3, <1>8 DEF IInv, Explained, Verification
  <2>2. e.count <= copy[p].vc[e.at]
    <3>1. CASE e.at = p
      BY <1>1, <1>3, <1>7, <2>1, <3>1
    <3>2. CASE e.at # p
      BY <1>4, <1>8, <2>1, <3>2
    <3> QED BY <3>1, <3>2
  <2>3. e \in copy[p].verifications
    BY <1>1, <2>2 DEF IInv, Explained
  <2> QED BY <2>3
<1>9. ASSUME NEW e \in new.verifications
      PROVE  /\ 0 < e.count /\ e.count <= new.vc[e.at]
             /\ \A d \in Copies : e.count <= d.vc[e.at] => e \in d.verifications
  <2>1. CASE e \in copy[p].verifications
    <3>1. /\ 0 < e.count /\ e.count <= copy[p].vc[e.at]
          /\ \A d \in Copies : e.count <= d.vc[e.at] => e \in d.verifications
      BY <1>1, <2>1 DEF IInv, Explained
    <3>2. e.at \in Peer /\ e.count \in Nat
      BY <1>1, <1>3, <2>1 DEF Verification
    <3>3. copy[p].vc[e.at] <= new.vc[e.at] /\ copy[p].vc[e.at] \in Nat /\ new.vc[e.at] \in Nat
      BY <1>1, <1>5, <3>2 DEF VcLeq, Card
    <3> QED BY <3>1, <3>2, <3>3
  <2>2. CASE e \in vs
    <3>1. e.at = p /\ e.count = copy[p].vc[p] + 1
      BY <2>2
    <3>2. ASSUME NEW d \in Copies, e.count <= d.vc[e.at]
          PROVE  FALSE
      BY <1>1, <1>3, <1>7, <3>1, <3>2
    <3> QED BY <1>1, <1>4, <3>1, <3>2
  <2> QED BY <2>1, <2>2
<1> QED BY <1>5, <1>6, <1>8, <1>9 DEF Fits

(* A card that only some messages have: what it says is theirs to say. *)
LEMMA AdoptionFits ==
  ASSUME IInv, NEW p \in Peer, ~Has(p), NEW remote \in sent, NEW new \in Card,
         new.vc = remote.vc, new.verifications = remote.verifications,
         new.verified = remote.verified
  PROVE  Fits(p, new)
<1>1. remote \in Copies
  BY DEF Copies
<1>2. \A q \in Peer \ {p} : new.vc[q] > 0 => Has(q) /\ new.vc[q] <= copy[q].vc[q]
  BY <1>1 DEF IInv, OwnClockLeads
<1> QED BY <1>1, <1>2 DEF IInv, Explained, VerifiedByTwo, Fits

(* The merge of a local and a remote copy: what either says, no more. *)
LEMMA MergeFits ==
  ASSUME IInv, NEW p \in Peer, Has(p), NEW remote \in sent, NEW new \in Card,
         new.vc = MergeVc(copy[p].vc, remote.vc),
         new.verifications = copy[p].verifications \cup remote.verifications,
         new.verified \in {copy[p].verified, remote.verified}
  PROVE  Fits(p, new)
<1> DEFINE local == copy[p]
<1>1. /\ local \in Copies /\ remote \in Copies
      /\ local.vc \in [Peer -> Nat] /\ remote.vc \in [Peer -> Nat]
  BY DEF IInv, TypeOK, Has, Card, Copies
<1>2. \A c \in Copies : c \in Card
  BY DEF IInv, TypeOK, Copies, Has
<1>3. \A c \in Copies : c.verifications \subseteq Verification
  BY <1>2 DEF Card
<1>4. /\ VcLeq(local.vc, new.vc) /\ VcLeq(remote.vc, new.vc)
      /\ \A q \in Peer : new.vc[q] \in {local.vc[q], remote.vc[q]}
  BY <1>1, MergeVcIs
<1>5. \A q \in Peer \ {p} : new.vc[q] > 0 => Has(q) /\ new.vc[q] <= copy[q].vc[q]
  BY <1>1, <1>4 DEF IInv, OwnClockLeads
<1>6. ASSUME NEW c \in Copies, NEW e \in c.verifications, e.count <= new.vc[e.at]
      PROVE  e \in new.verifications
  <2>1. e.at \in Peer
    BY <1>3 DEF Verification
  <2>2. e.count <= local.vc[e.at] \/ e.count <= remote.vc[e.at]
    BY <1>4, <1>6, <2>1
  <2> QED BY <1>1, <2>2 DEF IInv, Explained
<1>7. ASSUME NEW e \in new.verifications
      PROVE  /\ 0 < e.count /\ e.count <= new.vc[e.at]
             /\ \A d \in Copies : e.count <= d.vc[e.at] => e \in d.verifications
  <2>1. PICK c \in {local, remote} : e \in c.verifications
    OBVIOUS
  <2>2. c \in Copies /\ VcLeq(c.vc, new.vc) /\ c.vc \in [Peer -> Nat] /\ new.vc \in [Peer -> Nat]
    BY <1>1, <1>4, <2>1 DEF Card
  <2>3. e.at \in Peer /\ e.count \in Nat
    BY <1>3, <2>1, <2>2 DEF Verification
  <2>4. /\ 0 < e.count /\ e.count <= c.vc[e.at]
        /\ \A d \in Copies : e.count <= d.vc[e.at] => e \in d.verifications
    BY <2>1, <2>2 DEF IInv, Explained
  <2>5. c.vc[e.at] <= new.vc[e.at] /\ c.vc[e.at] \in Nat /\ new.vc[e.at] \in Nat
    BY <2>2, <2>3 DEF VcLeq
  <2> QED BY <2>3, <2>4, <2>5
<1>8. new.verified => TwoVerifiers(new.verifications)
  BY <1>1 DEF IInv, VerifiedByTwo, TwoVerifiers
<1> QED BY <1>4, <1>5, <1>6, <1>7, <1>8 DEF Fits

---------------------------------------------------------------------------
(* Every step keeps the invariant *)

LEMMA InitIInv == Init => IInv
<1> SUFFICES ASSUME Init PROVE IInv
  OBVIOUS
<1>1. \A p \in Peer : ~Has(p)
  BY DEF Init, Has
<1>2. Copies = {}
  BY <1>1 DEF Init, Copies
<1> QED BY <1>1, <1>2
        DEF Init, IInv, TypeOK, OwnClockLeads, Explained, VerifiedByTwo

LEMMA CreateKeeps == ASSUME IInv, CreateCard PROVE IInv'
<1> DEFINE new == copy'[Author]
           card == [content |-> 1, verifications |-> {}, verified |-> FALSE,
                    tombstone |-> FALSE,
                    hlc |-> [wall |-> clock[Author], logical |-> 0, node |-> Author],
                    vc |-> [p \in Peer |-> IF p = Author THEN 1 ELSE 0]]
<1>1. Author \in Peer /\ ~Has(Author) /\ clock[Author] \in Nat
  BY PeerAssumption DEF IInv, TypeOK, CreateCard
<1>2. card \in Card
  <2>1. card.hlc \in Clock
    BY <1>1 DEF Clock
  <2> QED BY <2>1 DEF Card
<1>3. copy' = [copy EXCEPT ![Author] = card] /\ UNCHANGED <<sent, clock>> /\ edits' = 1
  BY DEF CreateCard
<1>4. \A c \in Copies : c \in Card
  BY DEF IInv, TypeOK, Copies, Has
<1>5. \A c \in Copies : \A e \in c.verifications : ~(e.count <= card.vc[e.at])
  <2> SUFFICES ASSUME NEW c \in Copies, NEW e \in c.verifications
               PROVE  ~(e.count <= card.vc[e.at])
    OBVIOUS
  <2>1. e.at \in Peer /\ e.count \in Nat /\ c.vc \in [Peer -> Nat]
    BY <1>4 DEF Card, Verification
  <2>2. 0 < e.count /\ e.count <= c.vc[e.at]
    BY DEF IInv, Explained
  <2>3. e.at # Author
    BY <1>1, <2>1, <2>2 DEF IInv, OwnClockLeads
  <2> QED BY <2>1, <2>2, <2>3
<1>6. /\ card.verifications = {} /\ card.verified = FALSE /\ card.hlc.node = Author
      /\ \A q \in Peer \ {Author} : card.vc[q] = 0
  OBVIOUS
<1>7. Fits(Author, card)
  <2> HIDE DEF card
  <2> QED BY <1>1, <1>5, <1>6 DEF Fits
<1> HIDE DEF card
<1> QED BY <1>1, <1>2, <1>3, <1>6, <1>7, FitKeeps

LEMMA UpdateKeeps == ASSUME IInv, UpdateCard PROVE IInv'
<1> DEFINE adv == Advance(Author, copy[Author])
           new == [adv EXCEPT !.content = edits + 1]
<1>1. Author \in Peer /\ Has(Author) /\ edits \in Nat /\ TypeOK
  BY PeerAssumption DEF IInv, TypeOK, UpdateCard
<1>2. /\ adv \in Card /\ adv.hlc.node = Author
      /\ adv.vc = [copy[Author].vc EXCEPT ![Author] = copy[Author].vc[Author] + 1]
      /\ adv.verifications = copy[Author].verifications
      /\ adv.verified = copy[Author].verified
  BY <1>1, AdvanceIs
<1>3. copy' = [copy EXCEPT ![Author] = new] /\ UNCHANGED <<sent, clock>> /\ edits' = edits + 1
  BY DEF UpdateCard
<1> HIDE DEF adv
<1>4. /\ new \in Card /\ new.hlc = adv.hlc /\ new.vc = adv.vc
      /\ new.verifications = adv.verifications /\ new.verified = adv.verified
  BY <1>1, <1>2 DEF Card
<1> HIDE DEF new
<1>5. new.verified => TwoVerifiers(new.verifications)
  BY <1>1, <1>2, <1>4 DEF IInv, VerifiedByTwo, Copies
<1>6. Fits(Author, new)
  <2> DEFINE none == {}
  <2>1. \A e \in none : /\ e \in Verification /\ e.at = Author
                         /\ e.count = copy[Author].vc[Author] + 1
    OBVIOUS
  <2>2. new.verifications = copy[Author].verifications \cup none
    BY <1>2, <1>4
  <2>3. new.vc = [copy[Author].vc EXCEPT ![Author] = copy[Author].vc[Author] + 1]
    BY <1>2, <1>4
  <2> HIDE DEF none
  <2> QED BY <1>1, <1>4, <1>5, <2>1, <2>2, <2>3, OwnChangeFits
<1>7. new.hlc.node = Author /\ edits' \in Nat
  BY <1>1, <1>2, <1>3, <1>4
<1> QED BY <1>1, <1>3, <1>4, <1>6, <1>7, FitKeeps

LEMMA DeleteKeeps == ASSUME IInv, NEW p \in Peer, DeleteCard(p) PROVE IInv'
<1> DEFINE new == [copy[p] EXCEPT !.tombstone = TRUE]
<1>1. /\ Has(p) /\ copy[p] \in Card /\ copy[p].hlc.node = p /\ edits \in Nat
      /\ copy[p].vc \in [Peer -> Nat] /\ copy[p] \in Copies
  BY DEF IInv, TypeOK, DeleteCard, Has, Card, Copies
<1>2. copy' = [copy EXCEPT ![p] = new] /\ UNCHANGED <<sent, edits, clock>>
  BY DEF DeleteCard
<1>3. /\ new \in Card /\ new.hlc = copy[p].hlc /\ new.vc = copy[p].vc
      /\ new.verifications = copy[p].verifications /\ new.verified = copy[p].verified
  BY <1>1 DEF Card
<1> HIDE DEF new
<1>4. Fits(p, new)
  <2>1. VcLeq(copy[p].vc, new.vc)
    BY <1>1, <1>3 DEF VcLeq
  <2> QED BY <1>1, <1>3, <2>1 DEF Fits, IInv, OwnClockLeads, Explained, VerifiedByTwo
<1> QED BY <1>1, <1>2, <1>3, <1>4, FitKeeps

LEMMA ConfirmKeeps ==
  ASSUME IInv, NEW p \in Peer, NEW verifier \in Peer, ConfirmKnowledge(p, verifier)
  PROVE  IInv'
<1> DEFINE card == Advance(p, copy[p])
           event == [verifier |-> verifier, at |-> p, count |-> card.vc[p]]
           vs == IF \E e \in card.verifications : e.verifier = verifier
                 THEN card.verifications ELSE card.verifications \cup {event}
           new == [card EXCEPT !.verifications = vs,
                               !.verified = card.verified \/ TwoVerifiers(vs)]
<1>1. TypeOK /\ Has(p) /\ edits \in Nat /\ copy[p] \in Copies /\ copy[p].vc \in [Peer -> Nat]
  BY DEF IInv, TypeOK, ConfirmKnowledge, Has, Card, Copies
<1>2. /\ card \in Card /\ card.hlc.node = p
      /\ card.vc = [copy[p].vc EXCEPT ![p] = copy[p].vc[p] + 1]
      /\ card.verifications = copy[p].verifications
      /\ card.verified = copy[p].verified
  BY <1>1, AdvanceIs
<1>3. copy' = [copy EXCEPT ![p] = new] /\ UNCHANGED <<sent, edits, clock>>
  BY DEF ConfirmKnowledge
<1> HIDE DEF card
<1>4. /\ event \in Verification /\ event.at = p /\ event.count = copy[p].vc[p] + 1
  BY <1>1, <1>2 DEF Verification, Card
<1> DEFINE added == IF \E e \in card.verifications : e.verifier = verifier THEN {} ELSE {event}
<1>5. vs = copy[p].verifications \cup added /\ vs \in SUBSET Verification
  BY <1>2, <1>4 DEF Card
<1>6. \A e \in added : e = event
  OBVIOUS
<1> HIDE DEF vs, event, added
<1>7. (card.verified \/ TwoVerifiers(vs)) \in BOOLEAN
  OBVIOUS
<1>8. /\ new \in Card /\ new.hlc = card.hlc /\ new.vc = card.vc
      /\ new.verifications = vs /\ new.verified = (card.verified \/ TwoVerifiers(vs))
  BY <1>2, <1>5, <1>7 DEF Card
<1> HIDE DEF new
<1>9. new.verified => TwoVerifiers(new.verifications)
  <2>1. card.verified => TwoVerifiers(card.verifications)
    BY <1>1, <1>2 DEF IInv, VerifiedByTwo
  <2> QED BY <1>2, <1>5, <1>8, <2>1 DEF TwoVerifiers
<1>10. Fits(p, new)
  <2>1. \A e \in added : e \in Verification /\ e.at = p /\ e.count = copy[p].vc[p] + 1
    BY <1>4, <1>6
  <2>2. new.vc = [copy[p].vc EXCEPT ![p] = copy[p].vc[p] + 1]
    BY <1>2, <1>8
  <2>3. new.verifications = copy[p].verifications \cup added
    BY <1>5, <1>8
  <2>4. new \in Card
    BY <1>8
  <2> QED BY <1>1, <1>9, <2>1, <2>2, <2>3, <2>4, OwnChangeFits
<1> QED BY <1>1, <1>2, <1>3, <1>8, <1>10, FitKeeps

LEMMA SendKeeps == ASSUME IInv, NEW p \in Peer, Send(p) PROVE IInv'
<1>1. Copies' = Copies
  BY DEF Copies, Send, Has
<1>2. UNCHANGED <<copy, edits, clock>> /\ sent' = sent \cup {copy[p]} /\ Has(p)
  BY DEF Send
<1>3. TypeOK'
  BY <1>2 DEF IInv, TypeOK, Has
<1>4. OwnClockLeads' /\ Explained' /\ VerifiedByTwo'
  BY <1>1, <1>2 DEF IInv, OwnClockLeads, Explained, VerifiedByTwo, Has
<1> QED BY <1>3, <1>4 DEF IInv

LEMMA MergeKeeps ==
  ASSUME IInv, NEW p \in Peer, NEW remote \in sent, MergeCard(p, remote)
  PROVE  IInv'
<1>1. TypeOK /\ edits \in Nat /\ UNCHANGED <<sent, edits, clock>>
  BY DEF IInv, TypeOK, MergeCard
<1>2. CASE ~Has(p)
  <2> DEFINE new == Adopted(p, remote)
  <2>1. /\ new \in Card /\ new.hlc.node = p /\ new.vc = remote.vc
        /\ new.verifications = remote.verifications /\ new.verified = remote.verified
    BY <1>1, AdoptedIs
  <2>2. copy' = [copy EXCEPT ![p] = new]
    BY <1>2 DEF MergeCard
  <2> HIDE DEF new
  <2>3. Fits(p, new)
    BY <1>2, <2>1, AdoptionFits
  <2> QED BY <1>1, <2>1, <2>2, <2>3, FitKeeps
<1>3. CASE Has(p)
  <2> DEFINE new == Merged(p, copy[p], remote)
  <2>1. /\ new \in Card /\ new.hlc.node = p /\ new.vc = MergeVc(copy[p].vc, remote.vc)
        /\ new.verifications = copy[p].verifications \cup remote.verifications
        /\ new.verified \in {copy[p].verified, remote.verified}
    BY <1>1, <1>3, MergedIs
  <2>2. copy' = [copy EXCEPT ![p] = new]
    BY <1>3 DEF MergeCard
  <2> HIDE DEF new
  <2>3. Fits(p, new)
    BY <1>3, <2>1, MergeFits
  <2> QED BY <1>1, <2>1, <2>2, <2>3, FitKeeps
<1> QED BY <1>2, <1>3

LEMMA TickKeeps == ASSUME IInv, NEW p \in Peer, Tick(p) PROVE IInv'
<1>1. UNCHANGED <<copy, sent, edits>> /\ clock' \in [Peer -> Nat]
  BY DEF IInv, TypeOK, Tick
<1> QED BY <1>1 DEF IInv, TypeOK, OwnClockLeads, Explained, VerifiedByTwo, Copies, Has

LEMMA NextKeeps == IInv /\ [Next]_vars => IInv'
<1> SUFFICES ASSUME IInv, [Next]_vars PROVE IInv'
  OBVIOUS
<1>1. CASE UNCHANGED vars
  BY <1>1 DEF vars, IInv, TypeOK, OwnClockLeads, Explained, VerifiedByTwo, Copies, Has
<1>2. CASE CreateCard
  BY <1>2, CreateKeeps
<1>3. CASE UpdateCard
  BY <1>3, UpdateKeeps
<1>4. ASSUME NEW p \in Peer, DeleteCard(p) \/ Send(p) \/ Tick(p) PROVE IInv'
  BY <1>4, DeleteKeeps, SendKeeps, TickKeeps
<1>5. ASSUME NEW p \in Peer, NEW v \in Peer, ConfirmKnowledge(p, v) PROVE IInv'
  BY <1>5, ConfirmKeeps
<1>6. ASSUME NEW p \in Peer, NEW r \in sent, MergeCard(p, r) PROVE IInv'
  BY <1>6, MergeKeeps
<1> QED BY <1>1, <1>2, <1>3, <1>4, <1>5, <1>6 DEF Next

---------------------------------------------------------------------------
(* The theorems *)

(* Types: cards, clocks and messages are what the code declares them to be. *)
THEOREM TypeCorrect == Spec => []TypeOK
<1>1. IInv => TypeOK
  BY DEF IInv
<1> QED BY <1>1, InitIInv, NextKeeps, PTL DEF Spec

(* The vector clocks mergeCard compares never claim a change its peer did not make. *)
THEOREM ClocksAreSound == Spec => []OwnClockLeads
<1>1. IInv => OwnClockLeads
  BY DEF IInv
<1> QED BY <1>1, InitIInv, NextKeeps, PTL DEF Spec

(* A verified card names two verifiers, whichever copies were merged. *)
THEOREM VerifiedIsEarned == Spec => []VerifiedByTwo
<1>1. IInv => VerifiedByTwo
  BY DEF IInv
<1> QED BY <1>1, InitIInv, NextKeeps, PTL DEF Spec

(* Discarding a copy whose vector clock is covered loses no verification. *)
THEOREM DiscardLosesNothing == Spec => []StaleHasNothingNew
<1>1. IInv => StaleHasNothingNew
  <2> SUFFICES ASSUME IInv, NEW c \in Copies, NEW d \in Copies, VcLeq(c.vc, d.vc),
                      NEW e \in c.verifications
               PROVE  e \in d.verifications
    BY DEF StaleHasNothingNew
  <2>1. c \in Card /\ d \in Card
    BY DEF IInv, TypeOK, Copies, Has
  <2>2. /\ e.at \in Peer /\ e.count \in Nat
        /\ c.vc[e.at] \in Nat /\ d.vc[e.at] \in Nat
    BY <2>1 DEF Card, Verification
  <2>3. e.count <= c.vc[e.at] /\ c.vc[e.at] <= d.vc[e.at]
    BY <2>2 DEF IInv, Explained, VcLeq
  <2> QED BY <2>2, <2>3 DEF IInv, Explained
<1> QED BY <1>1, InitIInv, NextKeeps, PTL DEF Spec

(* At one peer no deletion is undone and no clock runs backwards. *)
THEOREM NothingIsUndone == Spec => ForwardOnly
<1> DEFINE Forward == \A p \in Peer : Has(p) =>
             /\ copy[p].tombstone => copy'[p].tombstone
             /\ VcLeq(copy[p].vc, copy'[p].vc)
             /\ copy'[p].vc # copy[p].vc => HlcLess(copy[p].hlc, copy'[p].hlc)
<1>1. ASSUME TypeOK, [Next]_vars PROVE Forward
  <2> SUFFICES ASSUME NEW p \in Peer, Has(p)
               PROVE  /\ copy[p].tombstone => copy'[p].tombstone
                      /\ VcLeq(copy[p].vc, copy'[p].vc)
                      /\ copy'[p].vc # copy[p].vc => HlcLess(copy[p].hlc, copy'[p].hlc)
    OBVIOUS
  <2>1. copy[p] \in Card /\ copy[p].vc \in [Peer -> Nat] /\ DOMAIN copy = Peer
    BY <1>1 DEF TypeOK, Has, Card
  <2>2. CASE copy'[p] = copy[p]
    BY <2>1, <2>2 DEF VcLeq
  <2>3. CASE UpdateCard /\ p = Author
    <3> DEFINE adv == Advance(p, copy[p])
    <3>1. /\ adv \in Card /\ HlcLess(copy[p].hlc, adv.hlc)
          /\ adv.vc = [copy[p].vc EXCEPT ![p] = copy[p].vc[p] + 1]
          /\ adv.tombstone = copy[p].tombstone
      BY <1>1, AdvanceIs
    <3>2. copy'[p] = [adv EXCEPT !.content = edits + 1]
      BY <2>1, <2>3 DEF UpdateCard
    <3> HIDE DEF adv
    <3>3. copy'[p].hlc = adv.hlc /\ copy'[p].vc = adv.vc /\ copy'[p].tombstone = adv.tombstone
      BY <3>1, <3>2 DEF Card
    <3> QED BY <2>1, <3>1, <3>3 DEF VcLeq
  <2>4. CASE DeleteCard(p)
    <3>1. copy'[p] = [copy[p] EXCEPT !.tombstone = TRUE]
      BY <2>1, <2>4 DEF DeleteCard
    <3>2. copy'[p].vc = copy[p].vc /\ copy'[p].tombstone
      BY <2>1, <3>1 DEF Card
    <3> QED BY <2>1, <3>2 DEF VcLeq
  <2>5. ASSUME NEW verifier \in Peer, ConfirmKnowledge(p, verifier)
        PROVE  /\ copy[p].tombstone => copy'[p].tombstone
               /\ VcLeq(copy[p].vc, copy'[p].vc)
               /\ HlcLess(copy[p].hlc, copy'[p].hlc)
    <3> DEFINE adv == Advance(p, copy[p])
    <3>1. /\ adv \in Card /\ HlcLess(copy[p].hlc, adv.hlc)
          /\ adv.vc = [copy[p].vc EXCEPT ![p] = copy[p].vc[p] + 1]
      BY <1>1, AdvanceIs
    <3>2. ~copy[p].tombstone
      BY <2>5 DEF ConfirmKnowledge
    <3>3. PICK vs, done : copy'[p] = [adv EXCEPT !.verifications = vs, !.verified = done]
      BY <2>1, <2>5 DEF ConfirmKnowledge
    <3> HIDE DEF adv
    <3>4. copy'[p].hlc = adv.hlc /\ copy'[p].vc = adv.vc
      BY <3>1, <3>3 DEF Card
    <3> QED BY <2>1, <3>1, <3>2, <3>4 DEF VcLeq
  <2>6. ASSUME NEW remote \in sent, MergeCard(p, remote)
        PROVE  /\ copy[p].tombstone => copy'[p].tombstone
               /\ VcLeq(copy[p].vc, copy'[p].vc)
               /\ HlcLess(copy[p].hlc, copy'[p].hlc)
    <3> DEFINE new == Merged(p, copy[p], remote)
    <3>1. /\ new \in Card /\ HlcLess(copy[p].hlc, new.hlc)
          /\ new.vc = MergeVc(copy[p].vc, remote.vc)
          /\ new.tombstone = (copy[p].tombstone \/ remote.tombstone)
      BY <1>1, MergedIs
    <3>2. copy'[p] = new
      BY <2>1, <2>6 DEF MergeCard
    <3>3. remote.vc \in [Peer -> Nat]
      BY <1>1 DEF TypeOK, Card
    <3> HIDE DEF new
    <3> QED BY <2>1, <3>1, <3>2, <3>3, MergeVcIs
  <2>7. \/ copy'[p] = copy[p]
        \/ UpdateCard /\ p = Author
        \/ DeleteCard(p)
        \/ \E verifier \in Peer : ConfirmKnowledge(p, verifier)
        \/ \E remote \in sent : MergeCard(p, remote)
    <3>1. CASE UNCHANGED vars
      BY <3>1 DEF vars
    <3>2. CASE CreateCard
      BY <2>1, <3>2 DEF CreateCard
    <3>3. CASE UpdateCard
      BY <2>1, <3>3 DEF UpdateCard
    <3>4. ASSUME NEW q \in Peer, DeleteCard(q) \/ Send(q) \/ Tick(q)
          PROVE  copy'[p] = copy[p] \/ DeleteCard(p)
      BY <2>1, <3>4 DEF DeleteCard, Send, Tick
    <3>5. ASSUME NEW q \in Peer, NEW v \in Peer, ConfirmKnowledge(q, v)
          PROVE  copy'[p] = copy[p] \/ ConfirmKnowledge(p, v)
      <4>1. CASE q = p
        BY <3>5, <4>1
      <4>2. CASE q # p
        BY <2>1, <3>5, <4>2 DEF ConfirmKnowledge
      <4> QED BY <4>1, <4>2
    <3>6. ASSUME NEW q \in Peer, NEW r \in sent, MergeCard(q, r)
          PROVE  copy'[p] = copy[p] \/ MergeCard(p, r)
      <4>1. CASE q = p
        BY <3>6, <4>1
      <4>2. CASE q # p
        BY <2>1, <3>6, <4>2 DEF MergeCard
      <4> QED BY <4>1, <4>2
    <3> QED BY <1>1, <3>1, <3>2, <3>3, <3>4, <3>5, <3>6 DEF Next
  <2> QED BY <2>2, <2>3, <2>4, <2>5, <2>6, <2>7
<1>2. IInv => TypeOK
  BY DEF IInv
<1>3. TypeOK /\ [Next]_vars => [Forward]_vars
  BY <1>1
<1> QED BY <1>2, <1>3, InitIInv, NextKeeps, PTL DEF Spec, ForwardOnly

-----------------------------------------------------------------------------
(* Chains of collaboration: types.                                          *)

ActiveStatus == {"none", "open", "running", "completed"}
ChainStatus == {"none", "open", "completed", "cancelled", "failed"}

(* What the types say of one row.                                           *)
LEMMA RowIs ==
  ASSUME ChainTypeOK, NEW p \in Member, NEW s \in Step
  PROVE  /\ step[p] \in [Step -> Row \cup {None}] /\ lease[p] \in [Step -> Lease \cup {None}]
         /\ Exists(p, s) => /\ step[p][s] \in Row
                            /\ step[p][s].retry \in 0..MaxHandoffs
         /\ Live(p, s) => lease[p][s] \in Lease
<1>1. step[p] \in [Step -> Row \cup {None}] /\ lease[p] \in [Step -> Lease \cup {None}]
  BY DEF ChainTypeOK
<1>2. Exists(p, s) => step[p][s] \in Row   BY <1>1 DEF Exists
<1>3. Live(p, s) => lease[p][s] \in Lease   BY <1>1 DEF Live
<1> QED BY <1>1, <1>2, <1>3 DEF Row

(* What a message says, by its kind.                                        *)
LEMMA MessageIs ==
  ASSUME NEW m \in Message
  PROVE  /\ m.kind \in {"open", "plan", "assign", "submit", "review", "cancel", "merge", "close"}
         /\ m.kind \in {"assign", "submit", "review", "cancel"} =>
               m.step \in Step /\ m.status \in Status
         /\ m.kind = "assign" => m.status = "assigned" /\ m.worker \in Worker
         /\ m.kind = "submit" => m.status \in {"submitted", "rejected"}
         /\ m.kind = "review" => m.status \in {"reviewed", "rejected", "proposed"}
         /\ m.kind = "cancel" => m.status = "cancelled"
         /\ m.kind \in {"merge", "close"} => m.status \in {"completed", "cancelled", "failed"}
<1>1. CASE m \in [kind : {"open", "plan"}]   BY <1>1
<1>2. CASE m \in StepCommand   BY <1>2 DEF StepCommand, Status
<1>3. CASE m \in ChainCommand   BY <1>3 DEF ChainCommand
<1> QED BY <1>1, <1>2, <1>3 DEF Message

LEMMA CommandsAreMessages ==
  /\ [kind |-> "open"] \in Message /\ [kind |-> "plan"] \in Message
  /\ [kind |-> "close", status |-> "failed"] \in Message
  /\ \A m \in StepCommand \cup ChainCommand : m \in Message
<1>1. [kind |-> "close", status |-> "failed"] \in ChainCommand   BY DEF ChainCommand
<1> QED BY <1>1 DEF Message

(* The rows after updateStepStatus and after createStep.                    *)
LEMMA WithStatusIs ==
  ASSUME ChainTypeOK, NEW p \in Member, NEW m \in Message,
         m.kind \in {"assign", "submit", "review", "cancel"}
  PROVE  /\ WithStatus(p, m) \in [Step -> Row \cup {None}]
         /\ \A s \in Step \ {m.step} : WithStatus(p, m)[s] = step[p][s]
         /\ ~Exists(p, m.step) => WithStatus(p, m) = step[p]
         /\ Exists(p, m.step) =>
               LET row == WithStatus(p, m)[m.step]
               IN  /\ row \in Row /\ row # None
                   /\ row.status = m.status /\ row.retry = step[p][m.step].retry
                   /\ m.kind = "assign" => row.worker = m.worker
<1>1. m.step \in Step /\ m.status \in Status   BY MessageIs
<1>2. step[p] \in [Step -> Row \cup {None}]   BY <1>1, RowIs
<1>3. CASE ~Exists(p, m.step)   BY <1>2, <1>3 DEF WithStatus
<1>4. CASE Exists(p, m.step)
  <2> DEFINE old == step[p][m.step]
             new == [old EXCEPT !.status = m.status,
                                !.worker = IF m.kind = "assign" THEN m.worker ELSE old.worker]
  <2>1. old \in Row   BY <1>1, <1>4, RowIs
  <2>2. m.kind = "assign" => m.worker \in Worker   BY MessageIs
  <2>3. /\ new \in Row /\ new.status = m.status /\ new.retry = old.retry
        /\ m.kind = "assign" => new.worker = m.worker
    BY <1>1, <2>1, <2>2 DEF Row
  <2>4. WithStatus(p, m) = [step[p] EXCEPT ![m.step] = new]
    BY <1>1, <1>2, <1>4, <2>1 DEF WithStatus, Row
  <2> HIDE DEF new
  <2>5. WithStatus(p, m)[m.step] = new   BY <1>1, <1>2, <2>4
  <2> QED BY <1>1, <1>2, <1>4, <2>3, <2>4, <2>5, NoneAssumption
<1> QED BY <1>3, <1>4

LEMMA CreatedIs ==
  ASSUME ChainTypeOK, NEW p \in Member, NEW made
  PROVE  /\ Created(p, made) \in [Step -> Row \cup {None}]
         /\ \A s \in Step : \/ Created(p, made)[s] = step[p][s]
                            \/ Created(p, made)[s].status = "proposed"
<1> DEFINE new == [status |-> "proposed", worker |-> Nobody, retry |-> 0]
<1>1. new \in Row   BY HandoffsAssumption DEF Row, Status
<1>2. step[p] \in [Step -> Row \cup {None}]   BY DEF ChainTypeOK
<1>3. \A s \in Step : Created(p, made)[s] = new \/ Created(p, made)[s] = step[p][s]
  BY DEF Created
<1>4. Created(p, made) = [s \in Step |-> Created(p, made)[s]]   BY DEF Created
<1> QED BY <1>1, <1>2, <1>3, <1>4

(* An evaluation keeps the status or closes the chain.                      *)
LEMMA EvaluateTypes ==
  ASSUME ChainTypeOK, NEW p \in Member, NEW act \in ActiveStatus, NEW rows,
         NEW out \in Seq(Message), NEW got \in SUBSET Nat, Evaluate(p, act, rows, out, got)
  PROVE  /\ active' \in [Member -> ActiveStatus] /\ chain' \in [Member -> ChainStatus]
         /\ published' \in Seq(Message) /\ seen' \in [Member -> SUBSET Nat]
<1> USE DEF ChainTypeOK, ActiveStatus, ChainStatus
<1>1. CASE GivesUp(act, rows)
  <2>1. /\ active' = [active EXCEPT ![p] = "none"] /\ chain' = [chain EXCEPT ![p] = "failed"]
        /\ published' = Append(out, [kind |-> "close", status |-> "failed"])
        /\ seen' = [seen EXCEPT ![p] = got \cup {Len(out) + 1}]
    BY <1>1 DEF Evaluate
  <2>2. Len(out) + 1 \in Nat   OBVIOUS
  <2>3. published' \in Seq(Message)   BY <2>1, CommandsAreMessages
  <2> QED BY <2>1, <2>2, <2>3
<1>2. CASE ~GivesUp(act, rows)
  <2>1. /\ active' = [active EXCEPT ![p] = act] /\ chain' = chain
        /\ published' = out /\ seen' = [seen EXCEPT ![p] = got]
    BY <1>2 DEF Evaluate
  <2> QED BY <2>1
<1> QED BY <1>1, <1>2

Tables ==
  /\ active \in [Member -> ActiveStatus] /\ chain \in [Member -> ChainStatus]
  /\ step \in [Member -> [Step -> Row \cup {None}]]
  /\ lease \in [Member -> [Step -> Lease \cup {None}]]
  /\ published \in Seq(Message) /\ seen \in [Member -> SUBSET Nat]
  /\ torn \subseteq Member \X Step

LEMMA TablesAre == ChainTypeOK <=> Tables /\ overdue \in BOOLEAN /\ commands \in Nat /\ crashes \in Nat
  BY DEF ChainTypeOK, Tables, ActiveStatus, ChainStatus

LEMMA HandleTypes ==
  ASSUME ChainTypeOK, NEW p \in Member, NEW m \in Message, NEW out \in Seq(Message),
         NEW got \in SUBSET Nat, Handle(p, m, out, got)
  PROVE  Tables'
<1>0. Tables /\ active[p] \in ActiveStatus   BY TablesAre DEF Tables
<1>1. CASE m.kind = "open" /\ HandleOpen(p, out, got)
  BY <1>0, <1>1 DEF HandleOpen, Tables, ActiveStatus, ChainStatus
<1>2. CASE m.kind = "plan" /\ HandlePlan(p, out, got)
  <2>1. CASE active[p] = "none"   BY <1>0, <1>2, <2>1 DEF HandlePlan, Tables
  <2>2. CASE active[p] # "none"
    <3>1. /\ step' = [step EXCEPT ![p] = Created(p, Step)] /\ UNCHANGED <<lease, torn>>
          /\ Evaluate(p, "running", step'[p], out, got)
      BY <1>2, <2>2 DEF HandlePlan
    <3>2. "running" \in ActiveStatus   BY DEF ActiveStatus
    <3>3. step' \in [Member -> [Step -> Row \cup {None}]]   BY <1>0, <3>1, CreatedIs DEF Tables
    <3> QED BY <1>0, <3>1, <3>2, <3>3, EvaluateTypes DEF Tables
  <2> QED BY <2>1, <2>2
<1>3. CASE m.kind = "assign" /\ HandleAssign(p, m, out, got)
  <2>1. WithStatus(p, m) \in [Step -> Row \cup {None}]   BY <1>3, WithStatusIs
  <2>2. m.step \in Step /\ [worker |-> m.worker, notified |-> FALSE] \in Lease
    BY <1>3, MessageIs DEF Lease
  <2> QED BY <1>0, <1>3, <2>1, <2>2 DEF HandleAssign, Tables
<1>4. CASE m.kind = "submit" /\ HandleSubmit(p, m, out, got)
  <2>1. WithStatus(p, m) \in [Step -> Row \cup {None}] /\ m.step \in Step
    BY <1>4, WithStatusIs, MessageIs
  <2>2. /\ step' = [step EXCEPT ![p] = WithStatus(p, m)]
        /\ lease' = [lease EXCEPT ![p][m.step] = None] /\ torn' = torn \ {<<p, m.step>>}
        /\ Evaluate(p, active[p], step'[p], out, got)
    BY <1>4 DEF HandleSubmit
  <2> QED BY <1>0, <2>1, <2>2, EvaluateTypes DEF Tables
<1>5. CASE m.kind = "review" /\ HandleReview(p, m, out, got)
  <2>1. WithStatus(p, m) \in [Step -> Row \cup {None}]   BY <1>5, WithStatusIs
  <2>2. /\ step' = [step EXCEPT ![p] = WithStatus(p, m)] /\ UNCHANGED <<lease, torn>>
        /\ Evaluate(p, active[p], step'[p], out, got)
    BY <1>5 DEF HandleReview
  <2> QED BY <1>0, <2>1, <2>2, EvaluateTypes DEF Tables
<1>6. CASE m.kind = "cancel" /\ HandleCancel(p, m, out, got)
  <2>1. WithStatus(p, m) \in [Step -> Row \cup {None}]   BY <1>6, WithStatusIs
  <2> QED BY <1>0, <1>6, <2>1 DEF HandleCancel, Tables
<1>7. CASE m.kind \in {"merge", "close"} /\ HandleEnd(p, m, out, got)
  <2>1. m.status \in ChainStatus   BY <1>7, MessageIs DEF ChainStatus
  <2> QED BY <1>0, <1>7, <2>1 DEF HandleEnd, Tables, ActiveStatus, ChainStatus
<1> QED BY <1>1, <1>2, <1>3, <1>4, <1>5, <1>6, <1>7 DEF Handle

-----------------------------------------------------------------------------
(* Leases and steps.                                                        *)

(* LeasesMatchSteps of one step at one peer.                                *)
Watched(p, s) ==
  Exists(p, s) /\ <<p, s>> \notin torn =>
    /\ step[p][s].status = "assigned" => Live(p, s) /\ lease[p][s].worker = step[p][s].worker
    /\ step[p][s].status = "submitted" => lease[p][s] = None

LEMMA WatchedAll == LeasesMatchSteps <=> \A p \in Member, s \in Step : Watched(p, s)
  BY DEF LeasesMatchSteps, Watched

(* OnlyTwoWaysToStall of one peer.                                          *)
Excused(rows) ==
  \E r \in RowsOf(rows) :
    \/ r.status = "cancelled"
    \/ r.status = "rejected" /\ r.retry = MaxHandoffs
Excusable(p) ==
  active[p] = "running" /\ AllDone(step[p]) /\ ~AllSuccessful(step[p]) => Excused(step[p])

LEMMA ExcusableAll == OnlyTwoWaysToStall <=> \A p \in Member : Excusable(p)
  BY DEF OnlyTwoWaysToStall, Excusable, Excused

(* What a step does not touch stays watched.                                *)
LEMMA WatchedStays ==
  ASSUME NEW p, NEW s, Watched(p, s), step'[p][s] = step[p][s], lease'[p][s] = lease[p][s],
         <<p, s>> \in torn => <<p, s>> \in torn'
  PROVE  Watched(p, s)'
  BY DEF Watched, Exists, Live

(* A step that is neither assigned nor submitted needs no lease.            *)
LEMMA WatchedOtherwise ==
  ASSUME NEW p, NEW s,
         step'[p][s] = None \/ step'[p][s].status \notin {"assigned", "submitted"}
  PROVE  Watched(p, s)'
  BY DEF Watched, Exists

(* After its evaluation a chain is not stuck.                               *)
LEMMA EvaluateExcuses ==
  ASSUME ChainTypeOK, NEW p \in Member, NEW act, NEW out, NEW got,
         Evaluate(p, act, step'[p], out, got)
  PROVE  Excusable(p)'
<1>1. CASE GivesUp(act, step'[p])
  <2>1. active'[p] = "none"   BY <1>1 DEF Evaluate, ChainTypeOK
  <2> QED BY <2>1 DEF Excusable
<1>2. CASE ~GivesUp(act, step'[p])
  <2>1. active'[p] = act   BY <1>2 DEF Evaluate, ChainTypeOK
  <2>2. act = "running" => ~(AllDone(step'[p]) /\ ~AllSuccessful(step'[p]))
    BY <1>2 DEF GivesUp
  <2> QED BY <2>1, <2>2 DEF Excusable
<1> QED BY <1>1, <1>2

LEMMA EvaluateElsewhere ==
  ASSUME ChainTypeOK, NEW p \in Member, NEW act, NEW rows, NEW out, NEW got,
         Evaluate(p, act, rows, out, got), NEW q \in Member, q # p
  PROVE  active'[q] = active[q]
  BY DEF Evaluate, ChainTypeOK

LEMMA ExcusableStays ==
  ASSUME NEW p, Excusable(p), active'[p] = active[p], step'[p] = step[p]
  PROVE  Excusable(p)'
  BY DEF Excusable

LEMMA ExcusableIdle ==
  ASSUME NEW p, active'[p] # "running"
  PROVE  Excusable(p)'
  BY DEF Excusable

(* One row of the steps of p changes to what keeps the chain from being     *)
(* done, or to what excuses it.                                             *)
LEMMA ExcusableRow ==
  ASSUME NEW p \in Member, NEW s \in Step, step'[p][s] # None,
         \/ step'[p][s].status \notin Terminal
         \/ step'[p][s].status = "cancelled"
         \/ step'[p][s].status = "rejected" /\ step'[p][s].retry = MaxHandoffs
  PROVE  Excusable(p)'
<1>1. step'[p][s] \in RowsOf(step'[p])   BY DEF RowsOf
<1> QED BY <1>1 DEF Excusable, Excused, AllDone

-----------------------------------------------------------------------------
(* A handler keeps both.                                                    *)

LEMMA HandleWatches ==
  ASSUME ChainTypeOK, LeasesMatchSteps, NEW p \in Member, NEW m \in Message,
         NEW out, NEW got, Handle(p, m, out, got)
  PROVE  LeasesMatchSteps'
<1> SUFFICES ASSUME NEW q \in Member, NEW s \in Step PROVE Watched(q, s)'
  BY DEF LeasesMatchSteps, Watched
<1>0. Watched(q, s) /\ Tables   BY WatchedAll, TablesAre
<1>1. CASE UNCHANGED <<step, lease, torn>>   BY <1>0, <1>1, WatchedStays
<1>2. CASE m.kind = "plan" /\ HandlePlan(p, out, got) /\ active[p] # "none"
  <2>1. step' = [step EXCEPT ![p] = Created(p, Step)] /\ UNCHANGED <<lease, torn>>
    BY <1>2 DEF HandlePlan
  <2>2. step'[q][s] = step[q][s] \/ step'[q][s].status = "proposed"
    BY <1>0, <2>1, CreatedIs DEF Tables
  <2> QED BY <1>0, <2>1, <2>2, WatchedStays, WatchedOtherwise
<1>3. CASE m.kind \in {"assign", "submit", "review", "cancel"}
  <2>1. /\ step' = [step EXCEPT ![p] = WithStatus(p, m)] /\ m.step \in Step
        /\ m.kind \in {"assign", "submit"} => torn' = torn \ {<<p, m.step>>}
        /\ m.kind \in {"review", "cancel"} => UNCHANGED <<lease, torn>>
        /\ m.kind = "assign" =>
              lease' = [lease EXCEPT ![p][m.step] = [worker |-> m.worker, notified |-> FALSE]]
        /\ m.kind = "submit" => lease' = [lease EXCEPT ![p][m.step] = None]
    BY <1>3, MessageIs DEF Handle, HandleAssign, HandleSubmit, HandleReview, HandleCancel
  <2>2. CASE <<q, s>> # <<p, m.step>>
    <3>1. step'[q][s] = step[q][s]   BY <1>0, <1>3, <2>1, <2>2, WithStatusIs DEF Tables
    <3>2. lease'[q][s] = lease[q][s]   BY <1>0, <1>3, <2>1, <2>2 DEF Tables
    <3>3. <<q, s>> \in torn => <<q, s>> \in torn'   BY <1>3, <2>1, <2>2
    <3> QED BY <1>0, <3>1, <3>2, <3>3, WatchedStays
  <2>3. CASE q = p /\ s = m.step
    <3>1. step'[p] = WithStatus(p, m)   BY <1>0, <2>1 DEF Tables
    <3>2. CASE ~Exists(p, s)
      <4>1. step'[p][s] = None   BY <1>3, <2>3, <3>1, <3>2, WithStatusIs DEF Exists
      <4> QED BY <2>3, <4>1, WatchedOtherwise
    <3>3. CASE Exists(p, s) /\ m.kind \in {"review", "cancel"}
      <4>1. step'[p][s].status = m.status /\ m.status \notin {"assigned", "submitted"}
        BY <1>3, <2>3, <3>1, <3>3, WithStatusIs, MessageIs
      <4> QED BY <2>3, <4>1, WatchedOtherwise
    <3>4. CASE Exists(p, s) /\ m.kind = "submit"
      <4>1. step'[p][s].status = m.status /\ m.status # "assigned"
        BY <1>3, <2>3, <3>1, <3>4, WithStatusIs, MessageIs
      <4>2. lease'[p][s] = None   BY <1>0, <2>1, <2>3, <3>4 DEF Tables
      <4> QED BY <2>3, <4>1, <4>2 DEF Watched
    <3>5. CASE Exists(p, s) /\ m.kind = "assign"
      <4>1. step'[p][s].status = "assigned" /\ step'[p][s].worker = m.worker
        BY <1>3, <2>3, <3>1, <3>5, WithStatusIs, MessageIs
      <4>2. lease'[p][s] = [worker |-> m.worker, notified |-> FALSE]
        BY <1>0, <2>1, <2>3, <3>5 DEF Tables
      <4>3. [worker |-> m.worker, notified |-> FALSE] \in Lease   BY <3>5, MessageIs DEF Lease
      <4>4. lease'[p][s] # None   BY <4>2, <4>3, NoneAssumption
      <4>5. lease'[p][s].worker = m.worker /\ lease'[p][s].notified = FALSE   BY <4>2
      <4> QED BY <2>3, <4>1, <4>4, <4>5 DEF Watched, Live
    <3> QED BY <1>3, <3>2, <3>3, <3>4, <3>5
  <2> QED BY <2>2, <2>3
<1>4. m.kind \in {"open", "merge", "close"} => UNCHANGED <<step, lease, torn>>
  BY DEF Handle, HandleOpen, HandleEnd
<1>5. m.kind = "plan" => \/ HandlePlan(p, out, got) /\ active[p] # "none"
                         \/ UNCHANGED <<step, lease, torn>>
  BY DEF Handle, HandlePlan
<1> QED BY <1>1, <1>2, <1>3, <1>4, <1>5, MessageIs

LEMMA HandleExcuses ==
  ASSUME ChainTypeOK, OnlyTwoWaysToStall, NEW p \in Member, NEW m \in Message,
         NEW out, NEW got, Handle(p, m, out, got)
  PROVE  OnlyTwoWaysToStall'
<1> SUFFICES ASSUME NEW q \in Member PROVE Excusable(q)'
  BY DEF OnlyTwoWaysToStall, Excusable, Excused
<1>0. Excusable(q) /\ Excusable(p) /\ Tables   BY ExcusableAll, TablesAre
<1>1. CASE m.kind = "open" /\ HandleOpen(p, out, got)
  <2>1. step' = step /\ active' = [active EXCEPT ![p] = IF @ = "none" THEN "open" ELSE @]
    BY <1>1 DEF HandleOpen
  <2>2. active'[q] = active[q] \/ active'[q] = "open"   BY <1>0, <2>1 DEF Tables
  <2> QED BY <1>0, <2>1, <2>2, ExcusableStays, ExcusableIdle
<1>2. CASE m.kind = "plan" /\ HandlePlan(p, out, got)
  <2>1. CASE active[p] = "none"
    <3>1. UNCHANGED <<active, step>>   BY <1>2, <2>1 DEF HandlePlan
    <3> QED BY <1>0, <3>1, ExcusableStays
  <2>2. CASE active[p] # "none"
    <3>1. /\ step' = [step EXCEPT ![p] = Created(p, Step)]
          /\ Evaluate(p, "running", step'[p], out, got)
      BY <1>2, <2>2 DEF HandlePlan
    <3>2. CASE q = p   BY <3>1, <3>2, EvaluateExcuses
    <3>3. CASE q # p
      <4>1. step'[q] = step[q]   BY <1>0, <3>1, <3>3 DEF Tables
      <4> QED BY <1>0, <3>1, <3>3, <4>1, EvaluateElsewhere, ExcusableStays
    <3> QED BY <3>2, <3>3
  <2> QED BY <2>1, <2>2
<1>3. CASE m.kind \in {"submit", "review"}
  <2>1. /\ step' = [step EXCEPT ![p] = WithStatus(p, m)]
        /\ Evaluate(p, active[p], step'[p], out, got)
    BY <1>3 DEF Handle, HandleSubmit, HandleReview
  <2>2. CASE q = p   BY <2>1, <2>2, EvaluateExcuses
  <2>3. CASE q # p
    <3>1. step'[q] = step[q]   BY <1>0, <2>1, <2>3 DEF Tables
    <3> QED BY <1>0, <2>1, <2>3, <3>1, EvaluateElsewhere, ExcusableStays
  <2> QED BY <2>2, <2>3
<1>4. CASE m.kind \in {"assign", "cancel"}
  <2>1. step' = [step EXCEPT ![p] = WithStatus(p, m)] /\ active' = active /\ m.step \in Step
    BY <1>4, MessageIs DEF Handle, HandleAssign, HandleCancel
  <2>2. CASE q = p /\ Exists(p, m.step)
    <3>1. /\ step'[p][m.step] # None /\ step'[p][m.step].status = m.status
          /\ m.status \notin Terminal \/ m.status = "cancelled"
      BY <1>0, <1>4, <2>1, <2>2, WithStatusIs, MessageIs DEF Tables, Terminal
    <3> QED BY <2>1, <2>2, <3>1, ExcusableRow
  <2>3. CASE q # p \/ ~Exists(p, m.step)
    <3>1. step'[q] = step[q]   BY <1>0, <1>4, <2>1, <2>3, WithStatusIs DEF Tables
    <3> QED BY <1>0, <2>1, <3>1, ExcusableStays
  <2> QED BY <2>2, <2>3
<1>5. CASE m.kind \in {"merge", "close"} /\ HandleEnd(p, m, out, got)
  <2>1. step' = step /\ \/ active'[q] = active[q]
                        \/ active'[q] # "running"
    BY <1>0, <1>5 DEF HandleEnd, Tables
  <2> QED BY <1>0, <2>1, ExcusableStays, ExcusableIdle
<1> QED BY <1>1, <1>2, <1>3, <1>4, <1>5, MessageIs DEF Handle

-----------------------------------------------------------------------------
(* What a peer that is cut in the middle of a handler leaves behind.        *)

LEMMA WritePartTypes ==
  ASSUME ChainTypeOK, NEW p \in Member, NEW m \in Message, WritePart(p, m)
  PROVE  /\ chain' \in [Member -> ChainStatus]
         /\ step' \in [Member -> [Step -> Row \cup {None}]]
         /\ torn' \subseteq Member \X Step
<1>0. Tables   BY TablesAre
<1>1. CASE UNCHANGED <<chain, step, torn>>   BY <1>0, <1>1 DEF Tables
<1>2. CASE /\ chain' = [chain EXCEPT ![p] = IF @ = "none" THEN "open" ELSE @]
           /\ UNCHANGED <<step, torn>>
  BY <1>0, <1>2 DEF Tables, ChainStatus
<1>3. CASE /\ \E made \in SUBSET Step : step' = [step EXCEPT ![p] = Created(p, made)]
           /\ UNCHANGED <<chain, torn>>
  BY <1>0, <1>3, CreatedIs DEF Tables
<1>4. CASE /\ m.kind \in {"assign", "submit", "review", "cancel"}
           /\ step' = [step EXCEPT ![p] = WithStatus(p, m)]
           /\ torn' = IF m.kind \in {"assign", "submit"} THEN torn \cup {<<p, m.step>>} ELSE torn
           /\ UNCHANGED chain
  BY <1>0, <1>4, WithStatusIs, MessageIs DEF Tables
<1>5. CASE /\ m.kind \in {"merge", "close"}
           /\ chain' = [chain EXCEPT ![p] = IF @ = "none" THEN "none" ELSE m.status]
           /\ UNCHANGED <<step, torn>>
  <2>1. m.status \in ChainStatus   BY <1>5, MessageIs DEF ChainStatus
  <2> QED BY <1>0, <1>5, <2>1 DEF Tables, ChainStatus
<1> QED BY <1>1, <1>2, <1>3, <1>4, <1>5 DEF WritePart

LEMMA WritePartWatches ==
  ASSUME ChainTypeOK, LeasesMatchSteps, NEW p \in Member, NEW m \in Message,
         WritePart(p, m), lease' = lease
  PROVE  LeasesMatchSteps'
<1> SUFFICES ASSUME NEW q \in Member, NEW s \in Step PROVE Watched(q, s)'
  BY DEF LeasesMatchSteps, Watched
<1>0. Watched(q, s) /\ Tables   BY WatchedAll, TablesAre
<1>1. CASE UNCHANGED <<step, torn>>   BY <1>0, <1>1, WatchedStays
<1>2. CASE /\ \E made \in SUBSET Step : step' = [step EXCEPT ![p] = Created(p, made)]
           /\ UNCHANGED <<chain, torn>>
  <2>1. step'[q][s] = step[q][s] \/ step'[q][s].status = "proposed"
    BY <1>0, <1>2, CreatedIs DEF Tables
  <2> QED BY <1>0, <1>2, <2>1, WatchedStays, WatchedOtherwise
<1>3. CASE /\ m.kind \in {"assign", "submit", "review", "cancel"}
           /\ step' = [step EXCEPT ![p] = WithStatus(p, m)]
           /\ torn' = IF m.kind \in {"assign", "submit"} THEN torn \cup {<<p, m.step>>} ELSE torn
           /\ UNCHANGED chain
  <2>1. m.step \in Step   BY <1>3, MessageIs
  <2>2. CASE q # p \/ s # m.step \/ ~Exists(p, m.step)
    <3>1. step'[q][s] = step[q][s]
      BY <1>0, <1>3, <2>1, <2>2, WithStatusIs DEF Tables
    <3> QED BY <1>0, <1>3, <3>1, WatchedStays
  <2>3. CASE q = p /\ s = m.step /\ m.kind \in {"assign", "submit"}
    BY <1>3, <2>3 DEF Watched
  <2>4. CASE q = p /\ s = m.step /\ Exists(p, m.step) /\ m.kind \in {"review", "cancel"}
    <3>1. step'[p][s].status = m.status /\ m.status \notin {"assigned", "submitted"}
      BY <1>0, <1>3, <2>4, WithStatusIs, MessageIs DEF Tables
    <3> QED BY <2>4, <3>1, WatchedOtherwise
  <2> QED BY <1>3, <2>2, <2>3, <2>4
<1> QED BY <1>1, <1>2, <1>3 DEF WritePart

(* A chain that is not active at a peer is not stuck there, and the others  *)
(* keep their rows.                                                         *)
LEMMA WritePartElsewhere ==
  ASSUME ChainTypeOK, NEW p \in Member, NEW m \in Message, WritePart(p, m),
         NEW q \in Member, q # p
  PROVE  step'[q] = step[q]
  BY DEF WritePart, ChainTypeOK

LEMMA CrashExcuses ==
  ASSUME ChainTypeOK, OnlyTwoWaysToStall, NEW p \in Member, Crash(p),
         \A q \in Member \ {p} : step'[q] = step[q]
  PROVE  OnlyTwoWaysToStall'
<1> SUFFICES ASSUME NEW q \in Member PROVE Excusable(q)'
  BY DEF OnlyTwoWaysToStall, Excusable, Excused
<1>0. Excusable(q)   BY ExcusableAll
<1>1. active'[p] = "none" /\ \A r \in Member \ {p} : active'[r] = active[r]
  BY DEF Crash, ChainTypeOK
<1>2. CASE q = p   BY <1>1, <1>2, ExcusableIdle
<1>3. CASE q # p   BY <1>0, <1>1, <1>3, ExcusableStays
<1> QED BY <1>2, <1>3

-----------------------------------------------------------------------------
(* The lease monitor.                                                       *)

LEMMA ExpireTypes ==
  ASSUME ChainTypeOK, NEW p \in Member, NEW s \in Step, ExpireLease(p, s)
  PROVE  Tables'
<1>0. Tables /\ active[p] \in ActiveStatus /\ seen[p] \in SUBSET Nat   BY TablesAre DEF Tables
<1>1. lease[p][s] \in Lease   BY RowIs DEF ExpireLease
<1>2. [lease[p][s] EXCEPT !.notified = TRUE] \in Lease   BY <1>1 DEF Lease
<1>3. /\ lease' = [lease EXCEPT ![p][s] = [@ EXCEPT !.notified = TRUE]]
      /\ torn' = torn \ {<<p, s>>}
  BY DEF ExpireLease
<1>4. lease' \in [Member -> [Step -> Lease \cup {None}]] /\ torn' \subseteq Member \X Step
  BY <1>0, <1>2, <1>3 DEF Tables
<1>5. CASE ~Exists(p, s)
  <2>1. step' = step /\ Evaluate(p, active[p], step[p], published, seen[p])
    BY <1>5 DEF ExpireLease
  <2> QED BY <1>0, <1>4, <2>1, EvaluateTypes DEF Tables
<1>6. CASE Exists(p, s) /\ step[p][s].retry >= MaxHandoffs
  <2>1. step' = [step EXCEPT ![p][s] = [@ EXCEPT !.status = "rejected"]]
        /\ UNCHANGED <<active, chain, published, seen>>
    BY <1>6, RowIs, HandoffsAssumption DEF ExpireLease
  <2>2. [step[p][s] EXCEPT !.status = "rejected"] \in Row   BY <1>6, RowIs DEF Row, Status
  <2> QED BY <1>0, <1>4, <2>1, <2>2 DEF Tables
<1>7. CASE Exists(p, s) /\ ~(step[p][s].retry >= MaxHandoffs)
  <2>1. /\ step' = [step EXCEPT ![p][s] =
                      [status |-> "proposed", worker |-> Nobody, retry |-> @.retry + 1]]
        /\ Evaluate(p, active[p], step'[p], published, seen[p])
    BY <1>7 DEF ExpireLease
  <2>2. [status |-> "proposed", worker |-> Nobody, retry |-> step[p][s].retry + 1] \in Row
    BY <1>7, RowIs, HandoffsAssumption DEF Row, Status
  <2>3. step' \in [Member -> [Step -> Row \cup {None}]]   BY <1>0, <2>1, <2>2 DEF Tables
  <2> QED BY <1>0, <1>4, <2>1, <2>3, EvaluateTypes DEF Tables
<1> QED BY <1>5, <1>6, <1>7

(* The three ways a claimed lease ends: no row, one handoff too many, or a  *)
(* step that is proposed again.                                             *)
LEMMA ExpireSteps ==
  ASSUME ChainTypeOK, NEW p \in Member, NEW s \in Step, ExpireLease(p, s)
  PROVE  /\ \A q \in Member, r \in Step : <<q, r>> # <<p, s>> =>
               step'[q][r] = step[q][r] /\ lease'[q][r] = lease[q][r]
         /\ \A q \in Member \ {p} : step'[q] = step[q] /\ active'[q] = active[q]
         /\ \/ /\ step'[p][s] = None
               /\ Evaluate(p, active[p], step'[p], published, seen[p])
            \/ /\ step'[p][s] # None /\ step'[p][s].status = "rejected"
               /\ step'[p][s].retry = MaxHandoffs
            \/ /\ step'[p][s].status = "proposed"
               /\ Evaluate(p, active[p], step'[p], published, seen[p])
<1>0. Tables   BY TablesAre
<1>1. lease' = [lease EXCEPT ![p][s] = [@ EXCEPT !.notified = TRUE]]
  BY DEF ExpireLease
<1>2. \A q \in Member, r \in Step : <<q, r>> # <<p, s>> => lease'[q][r] = lease[q][r]
  BY <1>0, <1>1 DEF Tables
<1>3. CASE ~Exists(p, s)
  <2>1. step' = step /\ Evaluate(p, active[p], step[p], published, seen[p])
    BY <1>3 DEF ExpireLease
  <2>2. \A q \in Member \ {p} : active'[q] = active[q]   BY <2>1, EvaluateElsewhere
  <2> QED BY <1>2, <1>3, <2>1, <2>2 DEF Exists
<1>4. CASE Exists(p, s) /\ step[p][s].retry >= MaxHandoffs
  <2> DEFINE new == [step[p][s] EXCEPT !.status = "rejected"]
  <2>1. step' = [step EXCEPT ![p][s] = new] /\ UNCHANGED <<active, chain, published, seen>>
    BY <1>4, RowIs, HandoffsAssumption DEF ExpireLease
  <2>2. new \in Row /\ new.status = "rejected" /\ new.retry = MaxHandoffs
    BY <1>4, RowIs, HandoffsAssumption DEF Row, Status
  <2> HIDE DEF new
  <2>3. step'[p][s] = new   BY <1>0, <2>1 DEF Tables
  <2>4. \A q \in Member, r \in Step : <<q, r>> # <<p, s>> => step'[q][r] = step[q][r]
    BY <1>0, <2>1 DEF Tables
  <2>5. \A q \in Member \ {p} : step'[q] = step[q]   BY <1>0, <2>1 DEF Tables
  <2> QED BY <1>2, <2>1, <2>2, <2>3, <2>4, <2>5, NoneAssumption
<1>5. CASE Exists(p, s) /\ ~(step[p][s].retry >= MaxHandoffs)
  <2> DEFINE new == [status |-> "proposed", worker |-> Nobody, retry |-> step[p][s].retry + 1]
  <2>1. /\ step' = [step EXCEPT ![p][s] = new]
        /\ Evaluate(p, active[p], step'[p], published, seen[p])
    BY <1>5 DEF ExpireLease
  <2>2. new.status = "proposed"   OBVIOUS
  <2> HIDE DEF new
  <2>3. step'[p][s] = new   BY <1>0, <2>1 DEF Tables
  <2>4. \A q \in Member, r \in Step : <<q, r>> # <<p, s>> => step'[q][r] = step[q][r]
    BY <1>0, <2>1 DEF Tables
  <2>5. \A q \in Member \ {p} : step'[q] = step[q]   BY <1>0, <2>1 DEF Tables
  <2>6. \A q \in Member \ {p} : active'[q] = active[q]   BY <2>1, EvaluateElsewhere
  <2> QED BY <1>2, <2>1, <2>2, <2>3, <2>4, <2>5, <2>6
<1> QED BY <1>3, <1>4, <1>5

LEMMA ExpireWatches ==
  ASSUME ChainTypeOK, LeasesMatchSteps, NEW p \in Member, NEW s \in Step, ExpireLease(p, s)
  PROVE  LeasesMatchSteps'
<1> SUFFICES ASSUME NEW q \in Member, NEW r \in Step PROVE Watched(q, r)'
  BY DEF LeasesMatchSteps, Watched
<1>0. Watched(q, r)   BY WatchedAll
<1>1. CASE <<q, r>> # <<p, s>>
  <2>1. step'[q][r] = step[q][r] /\ lease'[q][r] = lease[q][r]   BY <1>1, ExpireSteps
  <2>2. <<q, r>> \in torn => <<q, r>> \in torn'   BY <1>1 DEF ExpireLease
  <2> QED BY <1>0, <2>1, <2>2, WatchedStays
<1>2. CASE q = p /\ r = s
  <2>1. step'[p][s] = None \/ step'[p][s].status \in {"rejected", "proposed"}   BY ExpireSteps
  <2>2. step'[p][s] = None \/ step'[p][s].status \notin {"assigned", "submitted"}
    BY <2>1
  <2> QED BY <1>2, <2>2, WatchedOtherwise
<1> QED BY <1>1, <1>2

LEMMA ExpireExcuses ==
  ASSUME ChainTypeOK, OnlyTwoWaysToStall, NEW p \in Member, NEW s \in Step, ExpireLease(p, s)
  PROVE  OnlyTwoWaysToStall'
<1> SUFFICES ASSUME NEW q \in Member PROVE Excusable(q)'
  BY DEF OnlyTwoWaysToStall, Excusable, Excused
<1>0. Excusable(q)   BY ExcusableAll
<1>1. CASE q # p   BY <1>0, <1>1, ExpireSteps, ExcusableStays
<1>2. CASE q = p /\ Evaluate(p, active[p], step'[p], published, seen[p])
  BY <1>2, EvaluateExcuses
<1>3. CASE q = p /\ step'[p][s] # None /\ step'[p][s].status = "rejected"
                 /\ step'[p][s].retry = MaxHandoffs
  BY <1>3, ExcusableRow
<1> QED BY <1>1, <1>2, <1>3, ExpireSteps

-----------------------------------------------------------------------------
(* Every step.                                                              *)

ChainInv == ChainTypeOK /\ LeasesMatchSteps /\ OnlyTwoWaysToStall

LEMMA ChainInvInit == ASSUME ChainInit PROVE ChainInv
<1>1. ChainTypeOK
  <2>1. {} \in SUBSET Nat /\ <<>> \in Seq(Message)   OBVIOUS
  <2>2. /\ step \in [Member -> [Step -> Row \cup {None}]]
        /\ lease \in [Member -> [Step -> Lease \cup {None}]]
    BY DEF ChainInit
  <2>3. seen \in [Member -> SUBSET Nat] /\ published \in Seq(Message)
    BY <2>1 DEF ChainInit
  <2> QED BY <2>2, <2>3 DEF ChainInit, ChainTypeOK
<1>2. LeasesMatchSteps   BY DEF ChainInit, LeasesMatchSteps, Exists
<1>3. OnlyTwoWaysToStall   BY DEF ChainInit, OnlyTwoWaysToStall
<1> QED BY <1>1, <1>2, <1>3 DEF ChainInv

(* Publishing and receiving hand a message to its handler.                  *)
LEMMA HandleKeeps ==
  ASSUME ChainInv, NEW p \in Member, NEW m \in Message, NEW out \in Seq(Message),
         NEW got \in SUBSET Nat, Handle(p, m, out, got),
         UNCHANGED <<overdue, crashes>>, commands' \in Nat
  PROVE  ChainInv'
<1>1. Tables' /\ LeasesMatchSteps' /\ OnlyTwoWaysToStall'
  BY HandleTypes, HandleWatches, HandleExcuses DEF ChainInv
<1>2. overdue' \in BOOLEAN /\ crashes' \in Nat   BY DEF ChainInv, ChainTypeOK
<1>3. ChainTypeOK'   BY <1>1, <1>2 DEF Tables, ChainTypeOK, ActiveStatus, ChainStatus
<1> QED BY <1>1, <1>3 DEF ChainInv

LEMMA PublishKeeps ==
  ASSUME ChainInv, NEW p \in Member, NEW m \in Message, Publish(p, m),
         UNCHANGED <<overdue, crashes>>, commands' \in Nat
  PROVE  ChainInv'
<1> DEFINE out == Append(published, m)
           got == seen[p] \cup {Len(published) + 1}
<1>1. published \in Seq(Message) /\ seen[p] \in SUBSET Nat   BY DEF ChainInv, ChainTypeOK
<1>2. out \in Seq(Message) /\ got \in SUBSET Nat   BY <1>1
<1>3. Handle(p, m, out, got)   BY DEF Publish
<1> HIDE DEF out, got
<1> QED BY <1>2, <1>3, HandleKeeps

LEMMA CrashKeeps ==
  ASSUME ChainInv, NEW p \in Member, Crash(p), LeasesMatchSteps',
         \A q \in Member \ {p} : step'[q] = step[q],
         chain' \in [Member -> ChainStatus], step' \in [Member -> [Step -> Row \cup {None}]],
         lease' \in [Member -> [Step -> Lease \cup {None}]],
         seen' \in [Member -> SUBSET Nat], torn' \subseteq Member \X Step
  PROVE  ChainInv'
<1>1. ChainTypeOK /\ OnlyTwoWaysToStall   BY DEF ChainInv
<1>2. OnlyTwoWaysToStall'   BY <1>1, CrashExcuses
<1>3. ChainTypeOK'   BY <1>1 DEF ChainTypeOK, Crash, ChainStatus
<1> QED BY <1>2, <1>3 DEF ChainInv

LEMMA ChainInvStep == ASSUME ChainInv, [ChainNext]_chainVars PROVE ChainInv'
<1>0. ChainTypeOK /\ LeasesMatchSteps /\ OnlyTwoWaysToStall /\ Tables
  BY TablesAre DEF ChainInv
<1>1. ASSUME OpenChain PROVE ChainInv'
  BY <1>0, <1>1, PublishKeeps, CommandsAreMessages, OpenerAssumption DEF OpenChain, ChainTypeOK
<1>2. ASSUME PublishPlan PROVE ChainInv'
  BY <1>0, <1>2, PublishKeeps, CommandsAreMessages, OpenerAssumption DEF PublishPlan, ChainTypeOK
<1>3. ASSUME TimeOut PROVE ChainInv'
  <2>1. UNCHANGED <<active, disk, published, seen, commands, torn, crashes>> /\ overdue' = TRUE
    BY <1>3 DEF TimeOut
  <2>2. ChainTypeOK'   BY <1>0, <2>1 DEF ChainTypeOK, disk
  <2>3. LeasesMatchSteps'   BY <1>0, <2>1 DEF LeasesMatchSteps, Exists, Live, disk
  <2>4. OnlyTwoWaysToStall'   BY <1>0, <2>1 DEF OnlyTwoWaysToStall, disk
  <2> QED BY <2>2, <2>3, <2>4 DEF ChainInv
<1>4. ASSUME NEW p \in Member, Command(p) PROVE ChainInv'
  <2>1. commands' \in Nat /\ UNCHANGED <<overdue, crashes>>
    BY <1>0, <1>4 DEF Command, ChainTypeOK
  <2>2. PICK m \in StepCommand \cup ChainCommand : Publish(p, m)   BY <1>4 DEF Command
  <2> QED BY <2>1, <2>2, PublishKeeps, CommandsAreMessages
<1>5. ASSUME NEW p \in Member, Receive(p) PROVE ChainInv'
  <2>1. PICK i \in DOMAIN published \ seen[p] :
                Handle(p, published[i], published, seen[p] \cup {i})
    BY <1>5 DEF Receive
  <2>2. published[i] \in Message /\ seen[p] \cup {i} \in SUBSET Nat
    BY <1>0 DEF Tables
  <2>3. UNCHANGED <<overdue, commands, crashes>> /\ commands' \in Nat /\ published \in Seq(Message)
    BY <1>0, <1>5 DEF Receive, ChainTypeOK
  <2> QED BY <2>1, <2>2, <2>3, HandleKeeps
<1>6. ASSUME NEW p \in Member, Restart(p) PROVE ChainInv'
  <2>1. UNCHANGED <<disk, seen, torn>> /\ Crash(p)   BY <1>6 DEF Restart
  <2>2. LeasesMatchSteps'   BY <1>0, <2>1 DEF LeasesMatchSteps, Exists, Live, disk
  <2> QED BY <1>0, <2>1, <2>2, CrashKeeps DEF Tables, disk
<1>7. ASSUME NEW p \in Member, CrashReceiving(p) PROVE ChainInv'
  <2>1. PICK i \in DOMAIN published \ seen[p] :
                seen' = [seen EXCEPT ![p] = @ \cup {i}] /\ WritePart(p, published[i])
    BY <1>7 DEF CrashReceiving
  <2>2. published[i] \in Message /\ i \in Nat   BY <1>0 DEF Tables
  <2>3. Crash(p) /\ lease' = lease   BY <1>7 DEF CrashReceiving
  <2>4. seen' \in [Member -> SUBSET Nat]   BY <1>0, <2>1, <2>2 DEF Tables
  <2>5. LeasesMatchSteps'   BY <1>0, <2>1, <2>2, <2>3, WritePartWatches
  <2>6. \A q \in Member \ {p} : step'[q] = step[q]
    BY <1>0, <2>1, <2>2, WritePartElsewhere
  <2>7. /\ chain' \in [Member -> ChainStatus] /\ torn' \subseteq Member \X Step
        /\ step' \in [Member -> [Step -> Row \cup {None}]]
    BY <1>0, <2>1, <2>2, WritePartTypes
  <2> QED BY <1>0, <2>3, <2>4, <2>5, <2>6, <2>7, CrashKeeps DEF Tables
<1>8. ASSUME NEW p \in Member, CrashSending(p) PROVE ChainInv'
  <2>1. PICK m \in StepCommand \cup ChainCommand : WritePart(p, m)   BY <1>8 DEF CrashSending
  <2>2. m \in Message   BY CommandsAreMessages
  <2>3. Crash(p) /\ UNCHANGED <<lease, seen>>   BY <1>8 DEF CrashSending
  <2>5. LeasesMatchSteps'   BY <1>0, <2>1, <2>2, <2>3, WritePartWatches
  <2>6. \A q \in Member \ {p} : step'[q] = step[q]
    BY <1>0, <2>1, <2>2, WritePartElsewhere
  <2>7. /\ chain' \in [Member -> ChainStatus] /\ torn' \subseteq Member \X Step
        /\ step' \in [Member -> [Step -> Row \cup {None}]]
    BY <1>0, <2>1, <2>2, WritePartTypes
  <2> QED BY <1>0, <2>3, <2>5, <2>6, <2>7, CrashKeeps DEF Tables
<1>9. ASSUME NEW p \in Member, NEW s \in Step, ExpireLease(p, s) PROVE ChainInv'
  <2>1. Tables' /\ LeasesMatchSteps' /\ OnlyTwoWaysToStall'
    BY <1>0, <1>9, ExpireTypes, ExpireWatches, ExpireExcuses
  <2>2. overdue' \in BOOLEAN /\ commands' \in Nat /\ crashes' \in Nat
    BY <1>0, <1>9 DEF ExpireLease, ChainTypeOK
  <2>3. ChainTypeOK'   BY <2>1, <2>2 DEF Tables, ChainTypeOK, ActiveStatus, ChainStatus
  <2> QED BY <2>1, <2>3 DEF ChainInv
<1>10. ASSUME NEW p \in Member, NEW s \in Step, CrashExpiring(p, s) PROVE ChainInv'
  <2>1. /\ Crash(p) /\ UNCHANGED <<chain, step, seen>> /\ torn' = torn \cup {<<p, s>>}
        /\ lease' = [lease EXCEPT ![p][s] = [@ EXCEPT !.notified = TRUE]]
    BY <1>10 DEF CrashExpiring
  <2>2. lease[p][s] \in Lease   BY <1>0, <1>10, RowIs DEF CrashExpiring
  <2>3. [lease[p][s] EXCEPT !.notified = TRUE] \in Lease   BY <2>2 DEF Lease
  <2>4. lease' \in [Member -> [Step -> Lease \cup {None}]]   BY <1>0, <2>1, <2>3 DEF Tables
  <2>5. ASSUME NEW q \in Member, NEW r \in Step PROVE Watched(q, r)'
    <3>1. Watched(q, r)   BY <1>0, WatchedAll
    <3>2. CASE <<q, r>> = <<p, s>>   BY <2>1, <3>2 DEF Watched
    <3>3. CASE <<q, r>> # <<p, s>>
      <4>1. lease'[q][r] = lease[q][r]   BY <1>0, <2>1, <3>3 DEF Tables
      <4> QED BY <2>1, <3>1, <4>1, WatchedStays
    <3> QED BY <3>2, <3>3
  <2>6. LeasesMatchSteps'   BY <2>5 DEF LeasesMatchSteps, Watched
  <2>7. torn' \subseteq Member \X Step   BY <1>0, <2>1 DEF Tables
  <2> QED BY <1>0, <2>1, <2>4, <2>6, <2>7, CrashKeeps DEF Tables
<1>11. CASE UNCHANGED chainVars
  <2>1. ChainTypeOK'   BY <1>0, <1>11 DEF ChainTypeOK, chainVars, disk
  <2>2. LeasesMatchSteps'   BY <1>0, <1>11 DEF LeasesMatchSteps, Exists, Live, chainVars, disk
  <2>3. OnlyTwoWaysToStall'   BY <1>0, <1>11 DEF OnlyTwoWaysToStall, chainVars, disk
  <2> QED BY <2>1, <2>2, <2>3 DEF ChainInv
<1> QED BY <1>1, <1>2, <1>3, <1>4, <1>5, <1>6, <1>7, <1>8, <1>9, <1>10, <1>11 DEF ChainNext

-----------------------------------------------------------------------------
(* Theorems.                                                                *)

LEMMA ChainInvariance == ChainSpec => []ChainInv
<1>1. ChainInit => ChainInv   BY ChainInvInit
<1>2. ChainInv /\ [ChainNext]_chainVars => ChainInv'   BY ChainInvStep
<1> QED BY <1>1, <1>2, PTL DEF ChainSpec

(* The tables and the memory of every peer stay well-formed, whatever is    *)
(* lost, reordered or cut by a crash.                                       *)
THEOREM ChainTypesCorrect == ChainSpec => []ChainTypeOK
<1>1. ChainInv => ChainTypeOK   BY DEF ChainInv
<1> QED BY <1>1, ChainInvariance, PTL

(* An assigned step is watched by a lease for its worker and a submitted    *)
(* one by none, at every peer and in whatever order the messages and the    *)
(* expirations come, except where a crash cut the two writes apart.         *)
THEOREM LeasesAreKept == ChainSpec => []LeasesMatchSteps
<1>1. ChainInv => LeasesMatchSteps   BY DEF ChainInv
<1> QED BY <1>1, ChainInvariance, PTL

(* A running chain with nothing left to do and not all of it successful     *)
(* has a step that was cancelled or failed for too many handoffs.           *)
THEOREM StallsAreExcused == ChainSpec => []OnlyTwoWaysToStall
<1>1. ChainInv => OnlyTwoWaysToStall   BY DEF ChainInv
<1> QED BY <1>1, ChainInvariance, PTL
=============================================================================
