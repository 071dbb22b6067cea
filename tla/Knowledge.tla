------------------------------ MODULE Knowledge ------------------------------
(***************************************************************************)
(* The knowledge pool of the Society Protocol (protocol/src/knowledge.ts): *)
(* one knowledge card, replicated by state exchange between the pools of   *)
(* several peers.  Every pool keeps its own copy; a copy is serialised and *)
(* gossiped as a whole (rooms.ts, knowledge.sync), and mergeCard decides   *)
(* what becomes of a copy that arrives.  Gossip loses, repeats and         *)
(* reorders messages: a copy that was sent once may arrive at any peer,    *)
(* any number of times, at any later moment, or never.                     *)
(*                                                                         *)
(* Cards do not interact, so one card is enough.  Its content is the       *)
(* number of the edit that wrote it.  A verification is the confirming     *)
(* event itself: who is named as verifier, at which peer, and the count    *)
(* that peer's component of the vector clock reached by it (the code tells *)
(* verifications apart by verifier and time).  Confidence, which decays    *)
(* without the clocks moving, and the indexes are left out.  Every change  *)
(* is written to SQLite before the call returns, so a restart reloads the  *)
(* copy as it was.                                                         *)
(***************************************************************************)
EXTENDS Naturals, FiniteSets

CONSTANTS
  Peer,     \* the peers, by the order of their DIDs
  Author,   \* the peer that creates the card; only it may edit it
  Unknown,  \* stands where a peer has no copy
  MaxTime,  \* bound on the wall clocks
  MaxEdits, \* bound on updateCard calls
  MaxCount, \* bound on the component of a confirming peer
  MaxSent   \* bound on the number of different copies sent

ASSUME PeerAssumption == Peer \subseteq Nat /\ Author \in Peer

VARIABLES
  copy,     \* the card as each pool has it
  sent,     \* serialised copies in the gossip network
  edits,    \* how often the author edited
  clock     \* Date.now() of each peer

vars == <<copy, sent, edits, clock>>

Clock == [wall : Nat, logical : Nat, node : Peer]
Verification == [verifier : Peer, at : Peer, count : Nat]
Card == [content : Nat, hlc : Clock, vc : [Peer -> Nat], tombstone : BOOLEAN,
         verifications : SUBSET Verification, verified : BOOLEAN]

ASSUME UnknownAssumption == Unknown \notin Card

Has(p) == copy[p] # Unknown

(* Every copy of the card there is, held by a peer or under way. *)
Copies == sent \cup {copy[p] : p \in {q \in Peer : Has(q)}}

---------------------------------------------------------------------------
(* Clocks *)

Larger(i, j) == IF i > j THEN i ELSE j

VcLeq(v, w) == \A p \in Peer : v[p] <= w[p]

MergeVc(v, w) == [p \in Peer |-> Larger(v[p], w[p])]

(* compareHLC(h, k) < 0 *)
HlcLess(h, k) ==
  \/ h.wall < k.wall
  \/ h.wall = k.wall /\ h.logical < k.logical
  \/ h.wall = k.wall /\ h.logical = k.logical /\ h.node < k.node

\* Mutant: the logical part starts again although the wall clock stands still.
TickHlcResets(h, pt) == [h EXCEPT !.wall = Larger(h.wall, pt), !.logical = 0]
TickHlc(h, pt) ==
  IF pt > h.wall THEN [h EXCEPT !.wall = pt, !.logical = 0]
                 ELSE [h EXCEPT !.logical = h.logical + 1]

ReceiveHlc(h, k, pt) ==
  LET wall == Larger(Larger(h.wall, k.wall), pt)
  IN [wall |-> wall,
      logical |-> IF wall = h.wall /\ wall = k.wall THEN Larger(h.logical, k.logical) + 1
                  ELSE IF wall = h.wall THEN h.logical + 1
                  ELSE IF wall = k.wall THEN k.logical + 1
                  ELSE 0,
      node |-> h.node]

---------------------------------------------------------------------------
(* The operations of a pool *)

Init ==
  /\ copy = [p \in Peer |-> Unknown]
  /\ sent = {} /\ edits = 0
  /\ clock = [p \in Peer |-> 0]

CreateCard ==
  /\ ~Has(Author)
  /\ edits = 0
  /\ edits' = 1
  /\ copy' = [copy EXCEPT ![Author] =
       [content |-> 1, verifications |-> {}, verified |-> FALSE, tombstone |-> FALSE,
        hlc |-> [wall |-> clock[Author], logical |-> 0, node |-> Author],
        vc |-> [p \in Peer |-> IF p = Author THEN 1 ELSE 0]]]
  /\ UNCHANGED <<sent, clock>>

(* What every change the clocks take notice of does to them. *)
Advance(p, card) ==
  [card EXCEPT !.hlc = TickHlc(card.hlc, clock[p]), !.vc[p] = card.vc[p] + 1]

(* Only the author may edit; a deleted card may still be edited. *)
UpdateCard ==
  /\ Has(Author)
  /\ edits <= MaxEdits
  /\ edits' = edits + 1
  /\ copy' = [copy EXCEPT ![Author] =
                [Advance(Author, copy[Author]) EXCEPT !.content = edits + 1]]
  /\ UNCHANGED <<sent, clock>>

(* Any holder may delete its copy; the clocks do not move. *)
DeleteCard(p) ==
  /\ Has(p)
  /\ copy' = [copy EXCEPT ![p].tombstone = TRUE]
  /\ UNCHANGED <<sent, edits, clock>>

TwoVerifiers(vs) == \E e, f \in vs : e.verifier # f.verifier

\* Mutant: the first verifier is enough.
ConfirmKnowledgeOnce(p, verifier) ==
  /\ Has(p)
  /\ ~copy[p].tombstone
  /\ copy[p].vc[p] < MaxCount
  /\ LET card == Advance(p, copy[p])
         new == [verifier |-> verifier, at |-> p, count |-> card.vc[p]]
     IN copy' = [copy EXCEPT ![p] =
                   [card EXCEPT !.verifications = card.verifications \cup {new},
                                !.verified = TRUE]]
  /\ UNCHANGED <<sent, edits, clock>>

ConfirmKnowledge(p, verifier) ==
  /\ Has(p)
  /\ ~copy[p].tombstone
  /\ copy[p].vc[p] < MaxCount
  /\ LET card == Advance(p, copy[p])
         new == [verifier |-> verifier, at |-> p, count |-> card.vc[p]]
         vs == IF \E e \in card.verifications : e.verifier = verifier
               THEN card.verifications ELSE card.verifications \cup {new}
     IN copy' = [copy EXCEPT ![p] =
                   [card EXCEPT !.verifications = vs,
                                !.verified = card.verified \/ TwoVerifiers(vs)]]
  /\ UNCHANGED <<sent, edits, clock>>

(* serializeCard and the gossip of the result *)
Send(p) ==
  /\ Has(p)
  /\ Cardinality(sent) < MaxSent
  /\ sent' = sent \cup {copy[p]}
  /\ UNCHANGED <<copy, edits, clock>>

(* mergeCard, for a card the pool does not know *)
Adopted(p, remote) ==
  LET own == [wall |-> clock[p], logical |-> 0, node |-> p]
  IN [remote EXCEPT !.hlc = ReceiveHlc(own, remote.hlc, clock[p])]

\* Mutant: the verifications of the local copy are kept, those of the remote one dropped.
MergedKeepsLocal(p, local, remote) ==
  LET wins == \/ VcLeq(local.vc, remote.vc)
              \/ HlcLess(local.hlc, remote.hlc)
      winner == IF wins THEN remote ELSE local
  IN [winner EXCEPT !.hlc = ReceiveHlc(local.hlc, remote.hlc, clock[p]),
                    !.vc = MergeVc(local.vc, remote.vc),
                    !.tombstone = local.tombstone \/ remote.tombstone,
                    !.verifications = local.verifications]

(* mergeCard, for a remote copy that is newer or concurrent *)
Merged(p, local, remote) ==
  LET wins == \/ VcLeq(local.vc, remote.vc)
              \/ HlcLess(local.hlc, remote.hlc)
      winner == IF wins THEN remote ELSE local
  IN [winner EXCEPT !.hlc = ReceiveHlc(local.hlc, remote.hlc, clock[p]),
                    !.vc = MergeVc(local.vc, remote.vc),
                    !.tombstone = local.tombstone \/ remote.tombstone,
                    !.verifications = local.verifications \cup remote.verifications]

(* A copy arrives: one whose clock the local one covers is discarded. *)
MergeCard(p, remote) ==
  /\ \/ /\ ~Has(p)
        /\ copy' = [copy EXCEPT ![p] = Adopted(p, remote)]
     \/ /\ Has(p)
        /\ ~VcLeq(remote.vc, copy[p].vc)
        /\ copy' = [copy EXCEPT ![p] = Merged(p, copy[p], remote)]
  /\ UNCHANGED <<sent, edits, clock>>

Tick(p) ==
  /\ clock[p] < MaxTime
  /\ clock' = [clock EXCEPT ![p] = @ + 1]
  /\ UNCHANGED <<copy, sent, edits>>

Next ==
  \/ CreateCard
  \/ UpdateCard
  \/ \E p \in Peer : DeleteCard(p) \/ Send(p) \/ Tick(p)
  \/ \E p, verifier \in Peer : ConfirmKnowledge(p, verifier)
  \/ \E p \in Peer, remote \in sent : MergeCard(p, remote)

Spec == Init /\ [][Next]_vars

---------------------------------------------------------------------------
(* Properties *)

(* Types; a pool stamps its copy with its own node id. *)
TypeOK ==
  /\ copy \in [Peer -> Card \cup {Unknown}]
  /\ sent \in SUBSET Card
  /\ edits \in Nat
  /\ clock \in [Peer -> Nat]
  /\ \A p \in Peer : Has(p) => copy[p].hlc.node = p

(* Nobody knows more of a peer's changes than the peer itself: the vector
   clock a merge compares never claims a change that was not made. *)
OwnClockLeads ==
  \A c \in Copies, p \in Peer :
    c.vc[p] > 0 => Has(p) /\ c.vc[p] <= copy[p].vc[p]

(* A copy whose vector clock another covers has no verification the other
   lacks, so mergeCard may discard it: no confirmation is lost by the order
   in which copies arrive. *)
StaleHasNothingNew ==
  \A c, d \in Copies : VcLeq(c.vc, d.vc) => c.verifications \subseteq d.verifications

(* A card is marked verified only on the word of two verifiers, whichever
   copies were merged into it. *)
VerifiedByTwo == \A c \in Copies : c.verified => TwoVerifiers(c.verifications)

(* At one peer, a card once deleted stays deleted, and its clocks never run
   backwards: a change of the vector clock comes with a later time stamp. *)
ForwardOnly ==
  [][\A p \in Peer : Has(p) =>
       /\ copy[p].tombstone => copy'[p].tombstone
       /\ VcLeq(copy[p].vc, copy'[p].vc)
       /\ copy'[p].vc # copy[p].vc => HlcLess(copy[p].hlc, copy'[p].hlc)]_vars

(* Copies with equal vector clocks have the same content, which is what
   mergeCard takes for granted when it discards one of them. *)
EqualClocksAgree == \A c, d \in Copies : c.vc = d.vc => c.content = d.content
=============================================================================
