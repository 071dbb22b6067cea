-------------------------- MODULE GovernanceProofs --------------------------
(***************************************************************************)
(* Voting for any number of voters, proposals, requests and scans, on      *)
(* either store.                                                           *)
(***************************************************************************)
EXTENDS Governance, TLAPS, FiniteSetTheorems

-----------------------------------------------------------------------------
(* Types, also of the local states of requests and scans. *)

Row == [status : {"open", "tallied"}, terms : Terms,
        outcome : {"none", "quorum_fail", "passed", "rejected"}]
Ballot == [commit : Hash, choice : Choice \cup {"hidden"}]
Table == UNION {[D -> Ballot] : D \in {E \in SUBSET Did : IsFiniteSet(E)}}

Opening == [pc : {"open.emit"}, p : Proposal]
Committing == [pc : {"commit.exists", "commit.insert", "commit.emit"}, p : Proposal,
               did : Did, hash : Hash]
Revealing == [pc : {"reveal.update", "reveal.emit"}, p : Proposal, did : Did,
              choice : Choice]
Serving == Opening \cup Committing \cup Revealing

Reading == [pc : {"reveals"}, todo : SUBSET Proposal]
Counting == {r \in [pc : {"count"}, todo : SUBSET Proposal, p : Proposal,
                    choices : UNION {[D -> Choice] : D \in SUBSET Did}] :
                IsFiniteSet(DOMAIN r.choices)}
Ending == [pc : {"update", "emit"}, todo : SUBSET Proposal, p : Proposal, result : Result]
Scanning == Reading \cup Counting \cup Ending

Scalars == backend \in Backend /\ tick \in 0..MaxTick /\ deleted \subseteq Registered
Types ==
    /\ Scalars
    /\ proposals \in [Proposal -> Row \cup {NoProposal}]
    /\ ballots \in [Proposal -> Table]
    /\ handler \in [Handler -> Serving \cup {Idle}]
    /\ scan \in [Scan -> Scanning \cup {Idle}]
    /\ log \in [Proposal -> Seq(LogEvent)]

\* What a table of ballots is.
LEMMA TableFacts ==
    ASSUME NEW t
    PROVE  t \in Table <=> /\ t = [v \in DOMAIN t |-> t[v]]
                           /\ DOMAIN t \subseteq Did /\ IsFiniteSet(DOMAIN t)
                           /\ \A v \in DOMAIN t : t[v] \in Ballot
<1>1. ASSUME t \in Table
      PROVE  /\ t = [v \in DOMAIN t |-> t[v]]
             /\ DOMAIN t \subseteq Did /\ IsFiniteSet(DOMAIN t)
             /\ \A v \in DOMAIN t : t[v] \in Ballot
  <2>1. PICK D \in SUBSET Did : IsFiniteSet(D) /\ t \in [D -> Ballot]
    BY <1>1 DEF Table
  <2> QED BY <2>1
<1>2. ASSUME t = [v \in DOMAIN t |-> t[v]],
             DOMAIN t \subseteq Did, IsFiniteSet(DOMAIN t),
             \A v \in DOMAIN t : t[v] \in Ballot
      PROVE  t \in Table
  <2>1. t \in [DOMAIN t -> Ballot]   BY <1>2
  <2> QED BY <1>2, <2>1 DEF Table
<1> QED BY <1>1, <1>2

\* The states of requests and scans are told apart by their pc.
LEMMA StateFacts ==
    /\ Idle.pc = "idle"
    /\ \A r \in Serving : r.pc # "idle" /\ r # Idle /\ r.p \in Proposal
    /\ \A r \in Opening : r.pc = "open.emit"
    /\ \A r \in Committing :
          /\ r.pc \in {"commit.exists", "commit.insert", "commit.emit"}
          /\ r.did \in Did /\ r.hash \in Hash
    /\ \A r \in Revealing :
          r.pc \in {"reveal.update", "reveal.emit"} /\ r.did \in Did /\ r.choice \in Choice
    /\ \A r \in Scanning : r.pc # "idle" /\ r # Idle /\ r.todo \in SUBSET Proposal
    /\ \A r \in Reading : r.pc = "reveals"
    /\ \A r \in Counting :
          r.pc = "count" /\ r.p \in Proposal /\ IsFiniteSet(DOMAIN r.choices)
    /\ \A r \in Ending : r.pc \in {"update", "emit"} /\ r.p \in Proposal /\ r.result \in Result
BY DEF Idle, Serving, Opening, Committing, Revealing, Scanning, Reading, Counting, Ending

LEMMA NoProposalFacts ==
    /\ NoProposal.status = "none"
    /\ \A r \in Row : r.status \in {"open", "tallied"} /\ r # NoProposal
BY DEF NoProposal, Row

-----------------------------------------------------------------------------
LEMMA TypesInit == Init => Types
<1> SUFFICES ASSUME Init PROVE Types
  OBVIOUS
<1>1. Scalars   BY ConstantsAssumption DEF Init, Scalars
<1>2. << >> \in Table
  <2>1. DOMAIN << >> = {} /\ << >> = [v \in DOMAIN << >> |-> << >>[v]]   OBVIOUS
  <2> QED BY <2>1, TableFacts, FS_EmptySet
<1>3. ballots \in [Proposal -> Table]   BY <1>2 DEF Init
<1>4. log \in [Proposal -> Seq(LogEvent)]   BY DEF Init
<1>5. /\ proposals \in [Proposal -> Row \cup {NoProposal}]
      /\ handler \in [Handler -> Serving \cup {Idle}]
      /\ scan \in [Scan -> Scanning \cup {Idle}]
  BY DEF Init
<1> QED BY <1>1, <1>3, <1>4, <1>5 DEF Types

\* What is written: a new ballot, a revealed one, the result of a count.
LEMMA NewBallotTable ==
    ASSUME Types, NEW p \in Proposal, NEW did \in Did, NEW hash \in Hash
    PROVE  NewBallot(p, did, hash) \in Table
<1> DEFINE t == NewBallot(p, did, hash)
<1>1. ballots[p] \in Table   BY DEF Types
<1>2. /\ Voters(p) \subseteq Did /\ IsFiniteSet(Voters(p))
      /\ \A v \in Voters(p) : ballots[p][v] \in Ballot
  BY <1>1, TableFacts DEF Voters
<1>3. t = [v \in DOMAIN t |-> t[v]] /\ DOMAIN t = Voters(p) \cup {did}
  BY DEF NewBallot
<1>4. IsFiniteSet(DOMAIN t)   BY <1>2, <1>3, FS_AddElement
<1>5. \A v \in DOMAIN t : t[v] \in Ballot   BY <1>2, <1>3 DEF NewBallot, Ballot
<1> HIDE DEF t
<1>6. t \in Table   BY <1>2, <1>3, <1>4, <1>5, TableFacts
<1> QED BY <1>6 DEF t

LEMMA RevealedTable ==
    ASSUME Types, NEW p \in Proposal, NEW did, NEW choice \in Choice
    PROVE  [ballots[p] EXCEPT ![did].choice = choice] \in Table
<1> DEFINE t == [ballots[p] EXCEPT ![did].choice = choice]
<1>1. ballots[p] \in Table   BY DEF Types
<1>2. /\ Voters(p) \subseteq Did /\ IsFiniteSet(Voters(p))
      /\ \A v \in Voters(p) : ballots[p][v] \in Ballot
  BY <1>1, TableFacts DEF Voters
<1>3. t = [v \in DOMAIN t |-> t[v]] /\ DOMAIN t = Voters(p)   BY DEF Voters
<1>4. \A v \in DOMAIN t : t[v] \in Ballot   BY <1>2, <1>3 DEF Ballot, Voters
<1> HIDE DEF t
<1>5. t \in Table   BY <1>2, <1>3, <1>4, TableFacts
<1> QED BY <1>5 DEF t

LEMMA TallyResult ==
    ASSUME NEW terms, NEW yes, NEW no, NEW abstain, NEW hidden, NEW total
    PROVE  Tally(terms, yes, no, abstain, hidden, total) \in {"quorum_fail", "passed", "rejected"}
BY DEF Tally

LEMMA CountedResult ==
    ASSUME Types, NEW s \in Scan, scan[s] \in Counting
    PROVE  Counted(s) \in Result
<1> DEFINE choices == scan[s].choices
           Of(c) == {v \in DOMAIN choices : choices[v] = c}
<1>1. IsFiniteSet(DOMAIN choices)   BY StateFacts
<1> HIDE DEF choices
<1>2. ASSUME NEW c PROVE Cardinality(Of(c)) \in Nat
  <2>1. Of(c) \subseteq DOMAIN choices   OBVIOUS
  <2> HIDE DEF Of
  <2> QED BY <1>1, <2>1, FS_Subset, FS_CardinalityType
<1>3. Counted(s).yes = Cardinality(Of("yes")) /\ Counted(s).no = Cardinality(Of("no"))
      /\ Counted(s).abstain = Cardinality(Of("abstain"))
      /\ Counted(s).outcome \in {"quorum_fail", "passed", "rejected"}
      /\ Counted(s) = [yes |-> Counted(s).yes, no |-> Counted(s).no,
                       abstain |-> Counted(s).abstain, outcome |-> Counted(s).outcome]
  BY TallyResult DEF Counted, choices
<1> HIDE DEF Of
<1> QED BY <1>2, <1>3 DEF Result

-----------------------------------------------------------------------------
\* A request goes on, and nothing but the tables named here changes.
LEMMA RequestTypes ==
    ASSUME Types, NEW h \in Handler, NEW r \in Serving \cup {Idle}, Goto(h, r),
           UNCHANGED <<backend, tick, deleted, scan>>,
           proposals' \in [Proposal -> Row \cup {NoProposal}],
           ballots' \in [Proposal -> Table], log' \in [Proposal -> Seq(LogEvent)]
    PROVE  Types'
BY DEF Types, Scalars, Goto

LEMMA ScanTypes ==
    ASSUME Types, NEW s \in Scan, NEW r \in Scanning \cup {Idle}, GotoScan(s, r),
           UNCHANGED <<backend, deleted, ballots, handler>>, tick' \in 0..MaxTick,
           proposals' \in [Proposal -> Row \cup {NoProposal}],
           log' \in [Proposal -> Seq(LogEvent)]
    PROVE  Types'
BY DEF Types, Scalars, GotoScan

LEMMA EmitTypes ==
    ASSUME Types, NEW p \in Proposal, NEW e \in LogEvent, Emit(p, e)
    PROVE  log' \in [Proposal -> Seq(LogEvent)]
BY DEF Types, Emit

\* The state a request is in when it goes on.
LEMMA AtCommit ==
    ASSUME Types, NEW h \in Handler,
           handler[h].pc \in {"commit.exists", "commit.insert", "commit.emit"}
    PROVE  handler[h] \in Committing
<1>1. handler[h] \in Serving \cup {Idle}   BY DEF Types
<1> QED BY <1>1, StateFacts DEF Serving

LEMMA AtReveal ==
    ASSUME Types, NEW h \in Handler, handler[h].pc \in {"reveal.update", "reveal.emit"}
    PROVE  handler[h] \in Revealing
<1>1. handler[h] \in Serving \cup {Idle}   BY DEF Types
<1> QED BY <1>1, StateFacts DEF Serving

LEMMA AtOpen ==
    ASSUME Types, NEW h \in Handler, handler[h].pc = "open.emit"
    PROVE  handler[h] \in Opening
<1>1. handler[h] \in Serving \cup {Idle}   BY DEF Types
<1> QED BY <1>1, StateFacts DEF Serving

LEMMA AtScan ==
    ASSUME Types, NEW s \in Scan
    PROVE  /\ scan[s].pc = "reveals" => scan[s] \in Reading
           /\ scan[s].pc = "count" => scan[s] \in Counting
           /\ scan[s].pc \in {"update", "emit"} => scan[s] \in Ending
<1>1. scan[s] \in Scanning \cup {Idle}   BY DEF Types
<1> QED BY <1>1, StateFacts DEF Scanning

LEMMA TypesRequest ==
    ASSUME Types, NEW h \in Handler, Request(h) PROVE Types'
<1>1. CASE \E did \in Did, p \in Proposal, terms \in Terms : OpenInsert(h, did, p, terms)
  <2>1. PICK did \in Did, p \in Proposal, terms \in Terms : OpenInsert(h, did, p, terms)
    BY <1>1
  <2>2. [status |-> "open", terms |-> terms, outcome |-> "none"] \in Row   BY DEF Row
  <2>3. [pc |-> "open.emit", p |-> p] \in Serving   BY DEF Serving, Opening
  <2> QED BY <2>1, <2>2, <2>3, RequestTypes DEF OpenInsert, Types
<1>2. CASE \E did \in Did, p \in Proposal, hash \in Hash, claimed \in 0..MaxTick :
              CommitRead(h, did, p, hash, claimed)
  <2>1. PICK did \in Did, p \in Proposal, hash \in Hash, claimed \in 0..MaxTick :
              CommitRead(h, did, p, hash, claimed)
    BY <1>2
  <2>2. [pc |-> "commit.exists", p |-> p, did |-> did, hash |-> hash] \in Serving
    BY DEF Serving, Committing
  <2> QED BY <2>1, <2>2, RequestTypes DEF CommitRead, Types
<1>3. CASE \E did \in Did, p \in Proposal, choice \in Choice : RevealRead(h, did, p, choice)
  <2>1. PICK did \in Did, p \in Proposal, choice \in Choice : RevealRead(h, did, p, choice)
    BY <1>3
  <2>2. [pc |-> "reveal.update", p |-> p, did |-> did, choice |-> choice] \in Serving
    BY DEF Serving, Revealing
  <2> QED BY <2>1, <2>2, RequestTypes DEF RevealRead, Types
<1> QED BY <1>1, <1>2, <1>3 DEF Request

LEMMA TypesContinue ==
    ASSUME Types, NEW h \in Handler, Continue(h) PROVE Types'
<1> DEFINE r == handler[h]
<1>1. CASE OpenEmit(h)
  <2>1. r.p \in Proposal   BY <1>1, AtOpen, StateFacts DEF OpenEmit, Serving
  <2>2. [kind |-> "opened"] \in LogEvent   BY DEF LogEvent
  <2> QED BY <1>1, <2>1, <2>2, EmitTypes, RequestTypes DEF OpenEmit, Types
<1>2. CASE CommitExists(h)
  <2>1. r \in Committing   BY <1>2, AtCommit DEF CommitExists
  <2>2. [r EXCEPT !.pc = "commit.insert"] \in Serving   BY <2>1 DEF Committing, Serving
  <2> QED BY <1>2, <2>2, RequestTypes DEF CommitExists, Types
<1>3. CASE CommitInsert(h)
  <2>1. r \in Committing   BY <1>3, AtCommit DEF CommitInsert
  <2>2. [r EXCEPT !.pc = "commit.emit"] \in Serving   BY <2>1 DEF Committing, Serving
  <2>3. NewBallot(r.p, r.did, r.hash) \in Table
    BY <2>1, NewBallotTable, StateFacts DEF Serving
  <2>4. ballots' \in [Proposal -> Table]   BY <1>3, <2>3 DEF CommitInsert, Types
  <2> QED BY <1>3, <2>2, <2>4, RequestTypes DEF CommitInsert, Types
<1>4. CASE CommitEmit(h)
  <2>1. r \in Committing   BY <1>4, AtCommit DEF CommitEmit
  <2>2. [kind |-> "committed", did |-> r.did, hash |-> r.hash] \in LogEvent
    BY <2>1, StateFacts DEF LogEvent
  <2>3. r.p \in Proposal   BY <2>1, StateFacts DEF Serving
  <2> QED BY <1>4, <2>2, <2>3, EmitTypes, RequestTypes DEF CommitEmit, Types
<1>5. CASE RevealUpdate(h)
  <2>1. r \in Revealing   BY <1>5, AtReveal DEF RevealUpdate
  <2>2. [r EXCEPT !.pc = "reveal.emit"] \in Serving   BY <2>1 DEF Revealing, Serving
  <2>3. [ballots[r.p] EXCEPT ![r.did].choice = r.choice] \in Table
    BY <2>1, RevealedTable, StateFacts DEF Serving
  <2>4. ballots' \in [Proposal -> Table]   BY <1>5, <2>3 DEF RevealUpdate, Types
  <2> QED BY <1>5, <2>2, <2>4, RequestTypes DEF RevealUpdate, Types
<1>6. CASE RevealEmit(h)
  <2>1. r \in Revealing   BY <1>6, AtReveal DEF RevealEmit
  <2>2. [kind |-> "revealed", did |-> r.did, choice |-> r.choice] \in LogEvent
    BY <2>1, StateFacts DEF LogEvent
  <2>3. r.p \in Proposal   BY <2>1, StateFacts DEF Serving
  <2> QED BY <1>6, <2>2, <2>3, EmitTypes, RequestTypes DEF RevealEmit, Types
<1> QED BY <1>1, <1>2, <1>3, <1>4, <1>5, <1>6 DEF Continue

\* What a scan has to do are proposals that exist.
Opened(p) == proposals[p] # NoProposal
ScansSound ==
    \A s \in Scan : scan[s] # Idle =>
        /\ \A p \in scan[s].todo : Opened(p)
        /\ scan[s].pc # "reveals" => scan[s].p \in scan[s].todo

LEMMA UpdatedRow ==
    ASSUME NEW row \in Row, NEW r \in Ending
    PROVE  [row EXCEPT !.status = "tallied", !.outcome = r.result.outcome] \in Row
BY DEF Row, Ending, Result

LEMMA TypesScan ==
    ASSUME Types, ScansSound, NEW s \in Scan, TickClosed(s) \/ Tallying(s) PROVE Types'
<1> DEFINE r == scan[s]
<1>1. CASE TickClosed(s)
  <2>1. tick' \in 0..MaxTick   BY <1>1, ConstantsAssumption DEF TickClosed, Types, Scalars
  <2> DEFINE due == {p \in Proposal : Due(p, tick')}
  <2>2. [pc |-> "reveals", todo |-> due] \in Scanning   BY DEF Scanning, Reading
  <2>3. \/ GotoScan(s, Idle) \/ GotoScan(s, [pc |-> "reveals", todo |-> due])
    BY <1>1 DEF TickClosed
  <2> HIDE DEF due
  <2> QED BY <1>1, <2>1, <2>2, <2>3, ScanTypes DEF TickClosed, Types
<1>2. CASE \E p \in Proposal : ReadReveals(s, p)
  <2>1. PICK p \in Proposal : ReadReveals(s, p)   BY <1>2
  <2>2. ballots[p] \in Table   BY DEF Types
  <2>3. /\ Revealed(p) \subseteq Did /\ IsFiniteSet(Revealed(p))
        /\ \A v \in Revealed(p) : ballots[p][v].choice \in Choice
    <3>1. Revealed(p) \subseteq Voters(p)   BY DEF Revealed
    <3>2. Voters(p) \subseteq Did /\ IsFiniteSet(Voters(p))   BY <2>2, TableFacts DEF Voters
    <3>3. IsFiniteSet(Revealed(p))   BY <3>1, <3>2, FS_Subset
    <3>4. \A v \in Revealed(p) : ballots[p][v].choice \in Choice
      BY <2>2, TableFacts DEF Revealed, Voters, Ballot
    <3> QED BY <3>1, <3>2, <3>3, <3>4
  <2> DEFINE c == [v \in Revealed(p) |-> ballots[p][v].choice]
             n == [pc |-> "count", todo |-> r.todo, p |-> p, choices |-> c]
  <2>4. c \in UNION {[D -> Choice] : D \in SUBSET Did} /\ IsFiniteSet(DOMAIN c)
    BY <2>3
  <2>5. r.todo \in SUBSET Proposal   BY <2>1, AtScan, StateFacts DEF ReadReveals, Scanning
  <2>6. GotoScan(s, n)   BY <2>1 DEF ReadReveals
  <2> HIDE DEF c
  <2>7. n \in Scanning   BY <2>4, <2>5 DEF Scanning, Counting
  <2> HIDE DEF n
  <2> QED BY <2>1, <2>6, <2>7, ScanTypes DEF ReadReveals, Types, Scalars
<1>3. CASE CountBallots(s)
  <2>1. r \in Counting   BY <1>3, AtScan DEF CountBallots
  <2>2. Counted(s) \in Result   BY <2>1, CountedResult
  <2>3. [pc |-> "update", todo |-> r.todo, p |-> r.p, result |-> Counted(s)] \in Scanning
    BY <2>1, <2>2, StateFacts DEF Scanning, Ending
  <2> QED BY <1>3, <2>3, ScanTypes DEF CountBallots, Types, Scalars
<1>4. CASE UpdateTallied(s)
  <2>1. r \in Ending   BY <1>4, AtScan DEF UpdateTallied
  <2>2. [r EXCEPT !.pc = "emit"] \in Scanning   BY <2>1 DEF Scanning, Ending
  <2>3. [proposals[r.p] EXCEPT !.status = "tallied", !.outcome = r.result.outcome]
           \in Row \cup {NoProposal}
    BY <1>4, <2>1, StateFacts, NoProposalFacts, UpdatedRow
       DEF UpdateTallied, ScansSound, Opened, Types
  <2> QED BY <1>4, <2>2, <2>3, ScanTypes DEF UpdateTallied, Types, Scalars
<1>5. CASE EmitTallied(s)
  <2>1. r \in Ending   BY <1>5, AtScan DEF EmitTallied
  <2> DEFINE rest == r.todo \ {r.p}
             tallied == [kind |-> "tallied", result |-> r.result]
  <2>2. [pc |-> "reveals", todo |-> rest] \in Scanning
    BY <2>1, StateFacts DEF Scanning, Reading
  <2>3. tallied \in LogEvent /\ [kind |-> "law"] \in LogEvent
    BY <2>1, StateFacts DEF LogEvent
  <2>4. log' \in [Proposal -> Seq(LogEvent)]
    <3>1. log[r.p] \in Seq(LogEvent)   BY <2>1, StateFacts DEF Types
    <3>2. <<tallied, [kind |-> "law"]>> \in Seq(LogEvent) /\ <<tallied>> \in Seq(LogEvent)
      BY <2>3
    <3> HIDE DEF tallied
    <3>3. /\ log[r.p] \o <<tallied, [kind |-> "law"]>> \in Seq(LogEvent)
          /\ log[r.p] \o <<tallied>> \in Seq(LogEvent)
      BY <3>1, <3>2
    <3> QED BY <1>5, <3>3 DEF EmitTallied, Types, tallied
  <2>5. GotoScan(s, Idle) \/ GotoScan(s, [pc |-> "reveals", todo |-> rest])
    BY <1>5 DEF EmitTallied
  <2> HIDE DEF rest
  <2> QED BY <1>5, <2>2, <2>4, <2>5, ScanTypes DEF EmitTallied, Types, Scalars
<1>6. CASE EmitTalliedThrows(s)
  <2>1. r \in Ending   BY <1>6, AtScan DEF EmitTalliedThrows
  <2>2. [kind |-> "tallied", result |-> r.result] \in LogEvent
    BY <2>1, StateFacts DEF LogEvent
  <2>3. log' \in [Proposal -> Seq(LogEvent)]
    BY <1>6, <2>1, <2>2, EmitTypes, StateFacts DEF EmitTalliedThrows
  <2>4. << >> \in Table
    <3>1. DOMAIN << >> = {} /\ << >> = [v \in DOMAIN << >> |-> << >>[v]]   OBVIOUS
    <3> QED BY <3>1, TableFacts, FS_EmptySet
  <2>5. proposals' \in [Proposal -> Row \cup {NoProposal}] /\ ballots' \in [Proposal -> Table]
    BY <1>6, <2>4 DEF EmitTalliedThrows, Types
  <2> QED BY <1>6, <2>3, <2>5, ConstantsAssumption DEF EmitTalliedThrows, Types, Scalars
<1> QED BY <1>1, <1>2, <1>3, <1>4, <1>5, <1>6 DEF Tallying

LEMMA TypesStep ==
    ASSUME Types, ScansSound, [Next]_vars PROVE Types'
<1>1. ASSUME NEW h \in Handler, Request(h) \/ Continue(h) PROVE Types'
  BY <1>1, TypesRequest, TypesContinue
<1>2. ASSUME NEW s \in Scan, TickClosed(s) \/ Tallying(s) PROVE Types'
  BY <1>2, TypesScan
<1>3. ASSUME NEW did \in Registered, Delete(did) PROVE Types'
  BY <1>3 DEF Delete, Types, Scalars
<1>4. CASE UNCHANGED vars   BY <1>4 DEF vars, Types, Scalars
<1> QED BY <1>1, <1>2, <1>3, <1>4 DEF Next

-----------------------------------------------------------------------------
(* Ballots. *)

\* In memory at most one request or scan is in progress.
Alone ==
    backend = "memory" =>
        /\ \A g, h \in Handler : handler[g] # Idle /\ handler[h] # Idle => g = h
        /\ \A s, t \in Scan : scan[s] # Idle /\ scan[t] # Idle => s = t
        /\ \A h \in Handler, s \in Scan : handler[h] = Idle \/ scan[s] = Idle

Committed(p, did) == \E i \in Positions(p, "committed") : log[p][i].did = did
Emitting(h, p, did) ==
    handler[h].pc = "commit.emit" /\ handler[h].p = p /\ handler[h].did = did

\* What the state r of a request takes for granted.
Backed(r) ==
    /\ Opened(r.p)
    /\ r.pc = "commit.insert" /\ backend = "memory" => r.did \notin Voters(r.p)
    /\ r.pc = "commit.emit" =>
          r.did \in Voters(r.p) /\ ballots[r.p][r.did].commit = r.hash
    /\ r.pc \in {"reveal.update", "reveal.emit"} =>
          /\ r.did \in Voters(r.p)
          /\ ballots[r.p][r.did].commit = [choice |-> r.choice, voter |-> r.did]
RequestsBacked == \A h \in Handler : handler[h] # Idle => Backed(handler[h])

\* A ballot is announced once: by one request, and only if it was not before.
EmittedOnce ==
    \A h \in Handler, p \in Proposal, did \in Did : Emitting(h, p, did) =>
        /\ ~Committed(p, did)
        /\ \A g \in Handler : Emitting(g, p, did) => g = h

EventsAgree ==
    \A p \in Proposal : Opened(p) =>
        \A i \in Positions(p, "committed") \cup Positions(p, "revealed") :
            AgreesWithBallot(p, log[p][i])

VotersHaveProposal == \A p \in Proposal : Voters(p) # {} => Opened(p)

\* In memory a ballot in the table is in the log, or about to be.
BallotsAreLogged ==
    backend = "memory" =>
        \A p \in Proposal : \A v \in Voters(p) :
            Committed(p, v) \/ \E h \in Handler : Emitting(h, p, v)

RevealsFollow ==
    backend = "memory" =>
        \A p \in Proposal : \A i \in Positions(p, "revealed") :
            log[p][i].did \in VotersIn(p, "committed", i)

Ballots ==
    /\ RequestsBacked /\ EmittedOnce /\ OneBallotPerVoter /\ EventsAgree
    /\ VotersHaveProposal /\ BallotsAreLogged /\ RevealsFollow

LEMMA InitBallots == Init => Ballots /\ Alone /\ ScansSound
BY DEF Init, Ballots, Alone, ScansSound, RequestsBacked, EmittedOnce, OneBallotPerVoter,
       EventsAgree, VotersHaveProposal, BallotsAreLogged, RevealsFollow, Positions, Voters,
       Emitting, Idle

LEMMA AloneStep == ASSUME Types, Alone, [Next]_vars PROVE Alone'
<1>1. ASSUME NEW h \in Handler, Request(h) PROVE Alone'
  <2>1. MayStart /\ UNCHANGED <<backend, scan>> /\ \E r : Goto(h, r)
    BY <1>1 DEF Request, OpenInsert, CommitRead, RevealRead
  <2> QED BY <2>1 DEF Alone, MayStart, Goto, Types
<1>2. ASSUME NEW h \in Handler, Continue(h) PROVE Alone'
  <2>1. handler[h] # Idle
    BY <1>2 DEF Continue, OpenEmit, CommitExists, CommitInsert, CommitEmit, RevealUpdate,
                RevealEmit, Idle
  <2>2. UNCHANGED <<backend, scan>> /\ \E r : Goto(h, r)
    BY <1>2 DEF Continue, OpenEmit, CommitExists, CommitInsert, CommitEmit, RevealUpdate,
                RevealEmit
  <2> QED BY <2>1, <2>2 DEF Alone, Goto, Types
<1>3. ASSUME NEW s \in Scan, TickClosed(s) PROVE Alone'
  <2>1. MayStart /\ UNCHANGED <<backend, handler>> /\ \E r : GotoScan(s, r)
    BY <1>3 DEF TickClosed
  <2> QED BY <2>1 DEF Alone, MayStart, GotoScan, Types
<1>4. ASSUME NEW s \in Scan, Tallying(s) PROVE Alone'
  <2>1. CASE EmitTalliedThrows(s)   BY <2>1 DEF EmitTalliedThrows, Alone
  <2>2. CASE ~EmitTalliedThrows(s)
    <3>1. scan[s] # Idle
      <4>1. CASE \E p \in Proposal : ReadReveals(s, p)   BY <4>1, StateFacts DEF ReadReveals
      <4>2. CASE CountBallots(s)    BY <4>2, StateFacts DEF CountBallots
      <4>3. CASE UpdateTallied(s)
        <5>1. scan[s].pc = "update"   BY <4>3, Zenon DEF UpdateTallied
        <5> QED BY <5>1, StateFacts
      <4>4. CASE EmitTallied(s)
        <5>1. scan[s].pc = "emit"   BY <4>4, Zenon DEF EmitTallied
        <5> QED BY <5>1, StateFacts
      <4> QED BY <1>4, <2>2, <4>1, <4>2, <4>3, <4>4, Zenon DEF Tallying
    <3>2. UNCHANGED <<backend, handler>> /\ \E r : GotoScan(s, r)
      BY <1>4, <2>2 DEF Tallying, ReadReveals, CountBallots, UpdateTallied, EmitTallied
    <3> QED BY <3>1, <3>2 DEF Alone, GotoScan, Types
  <2> QED BY <2>1, <2>2
<1>5. CASE UNCHANGED vars   BY <1>5 DEF vars, Alone
<1>6. ASSUME NEW did \in Registered, Delete(did) PROVE Alone'   BY <1>6 DEF Delete, Alone
<1> QED BY <1>1, <1>2, <1>3, <1>4, <1>5, <1>6 DEF Next

\* An event at the end of the log of one proposal.
LEMMA EmitFacts ==
    ASSUME Types, NEW p \in Proposal, NEW e, Emit(p, e)
    PROVE  /\ Len(log[p]) \in Nat /\ DOMAIN log[p] = 1..Len(log[p])
           /\ DOMAIN log'[p] = 1..(Len(log[p]) + 1)
           /\ log'[p][Len(log[p]) + 1] = e
           /\ \A i \in 1..Len(log[p]) : log'[p][i] = log[p][i]
           /\ \A q \in Proposal : q # p => log'[q] = log[q]
<1>1. log[p] \in Seq(LogEvent)   BY DEF Types
<1>2. log'[p] = Append(log[p], e) /\ \A q \in Proposal : q # p => log'[q] = log[q]
  BY DEF Emit, Types
<1> QED BY <1>1, <1>2

LEMMA PositionsEmit ==
    ASSUME Types, NEW p \in Proposal, NEW e, Emit(p, e), NEW kind
    PROVE  /\ Positions(p, kind)' = Positions(p, kind)
                 \cup (IF e.kind = kind THEN {Len(log[p]) + 1} ELSE {})
           /\ Len(log[p]) + 1 \notin Positions(p, kind)
           /\ \A i \in Positions(p, kind) : log'[p][i] = log[p][i] /\ i < Len(log[p]) + 1
           /\ \A q \in Proposal : q # p => Positions(q, kind)' = Positions(q, kind)
<1> DEFINE n == Len(log[p])
<1>1. /\ n \in Nat /\ DOMAIN log[p] = 1..n /\ DOMAIN log'[p] = 1..(n + 1)
      /\ log'[p][n + 1] = e /\ \A i \in 1..n : log'[p][i] = log[p][i]
      /\ \A q \in Proposal : q # p => log'[q] = log[q]
  BY EmitFacts
<1> HIDE DEF n
<1>2. DOMAIN log'[p] = DOMAIN log[p] \cup {n + 1} /\ n + 1 \notin DOMAIN log[p]   BY <1>1
<1>3. Positions(p, kind)' = Positions(p, kind) \cup (IF e.kind = kind THEN {n + 1} ELSE {})
  BY <1>1, <1>2 DEF Positions
<1>4. /\ n + 1 \notin Positions(p, kind)
      /\ \A i \in Positions(p, kind) : log'[p][i] = log[p][i] /\ i < n + 1
  BY <1>1 DEF Positions
<1>5. \A q \in Proposal : q # p => Positions(q, kind)' = Positions(q, kind)
  BY <1>1 DEF Positions
<1> QED BY <1>3, <1>4, <1>5 DEF n

\* The commits and reveals in the log stay what they are.
SameVotes ==
    \A p \in Proposal, kind \in {"committed", "revealed"} :
        /\ Positions(p, kind)' = Positions(p, kind)
        /\ \A i \in Positions(p, kind) : log'[p][i] = log[p][i]
SameCommits ==
    \A p \in Proposal :
        /\ Voters(p)' = Voters(p)
        /\ \A v \in Voters(p) : ballots'[p][v].commit = ballots[p][v].commit

LEMMA SameVotesEmit ==
    ASSUME Types, NEW p \in Proposal, NEW e, Emit(p, e),
           e.kind \notin {"committed", "revealed"}
    PROVE  SameVotes
<1> SUFFICES ASSUME NEW q \in Proposal, NEW kind \in {"committed", "revealed"}
             PROVE  /\ Positions(q, kind)' = Positions(q, kind)
                    /\ \A i \in Positions(q, kind) : log'[q][i] = log[q][i]
  BY DEF SameVotes
<1>1. CASE q = p   BY <1>1, PositionsEmit
<1>2. CASE q # p
  <2>1. \A r \in Proposal : r # p => Positions(r, kind)' = Positions(r, kind)
    BY PositionsEmit, Zenon
  <2>2. Positions(q, kind)' = Positions(q, kind)   BY <1>2, <2>1, Zenon
  <2>3. log'[q] = log[q]   BY <1>2, EmitFacts
  <2> QED BY <2>2, <2>3
<1> QED BY <1>1, <1>2

\* A step that leaves votes, commits and pending announcements alone.
LEMMA QuietStep ==
    ASSUME Types, Ballots, SameVotes, SameCommits, backend' = backend, RequestsBacked',
           \A p \in Proposal : Opened(p) => Opened(p)',
           \A p \in Proposal : Opened(p)' /\ ~Opened(p) =>
               Positions(p, "committed") \cup Positions(p, "revealed") = {},
           \A h \in Handler, p \in Proposal, did \in Did :
               Emitting(h, p, did)' <=> Emitting(h, p, did)
    PROVE  Ballots'
<1>1. \A p \in Proposal, did \in Did : Committed(p, did)' <=> Committed(p, did)
  BY DEF Committed, SameVotes
<1>2. EmittedOnce'   BY <1>1 DEF Ballots, EmittedOnce
<1>3. OneBallotPerVoter'   BY DEF Ballots, OneBallotPerVoter, SameVotes
<1>4. EventsAgree'
  <2> SUFFICES ASSUME NEW p \in Proposal, Opened(p)',
                      NEW i \in (Positions(p, "committed") \cup Positions(p, "revealed"))'
               PROVE  AgreesWithBallot(p, log[p][i])'
    BY DEF EventsAgree
  <2>1. i \in Positions(p, "committed") \cup Positions(p, "revealed") /\ log'[p][i] = log[p][i]
    BY DEF SameVotes
  <2>2. AgreesWithBallot(p, log[p][i])   BY <2>1 DEF Ballots, EventsAgree
  <2> QED BY <2>1, <2>2 DEF AgreesWithBallot, SameCommits
<1>5. VotersHaveProposal'   BY DEF Ballots, VotersHaveProposal, SameCommits
<1>6. BallotsAreLogged'
  <2>1. \A p \in Proposal : Voters(p) \subseteq Did   BY TableFacts DEF Types, Voters
  <2> QED BY <1>1, <2>1 DEF Ballots, BallotsAreLogged, SameCommits
<1>7. RevealsFollow'
  <2> SUFFICES ASSUME backend = "memory", NEW p \in Proposal, NEW i \in Positions(p, "revealed")
               PROVE  log'[p][i].did \in VotersIn(p, "committed", i)'
    BY DEF RevealsFollow, SameVotes
  <2>1. log[p][i].did \in VotersIn(p, "committed", i)   BY DEF Ballots, RevealsFollow
  <2>2. VotersIn(p, "committed", i)' = VotersIn(p, "committed", i)
    BY DEF SameVotes, VotersIn
  <2> QED BY <2>1, <2>2 DEF SameVotes
<1> QED BY <1>2, <1>3, <1>4, <1>5, <1>6, <1>7 DEF Ballots

\* A request moves on alone, if the store is the in-memory one.
OnlyMe(h) == backend = "memory" => \A g \in Handler : g # h => handler[g] = Idle
Kept ==
    \A p \in Proposal :
        /\ Opened(p) => Opened(p)'
        /\ \A v \in Voters(p) :
              v \in Voters(p)' /\ ballots'[p][v].commit = ballots[p][v].commit

LEMMA OnlyMeFacts ==
    ASSUME Alone, NEW h \in Handler, MayStart \/ handler[h] # Idle
    PROVE  OnlyMe(h)
BY DEF Alone, MayStart, OnlyMe

LEMMA OthersBacked ==
    ASSUME Types, RequestsBacked, NEW h \in Handler, OnlyMe(h), NEW r, Goto(h, r),
           backend' = backend, Kept, r # Idle => Backed(r)'
    PROVE  RequestsBacked'
<1> SUFFICES ASSUME NEW g \in Handler, NEW c, c = handler'[g], c # Idle
             PROVE  Backed(c)'
  BY DEF RequestsBacked, Backed
<1>1. CASE g = h
  <2>1. c = r   BY <1>1 DEF Goto, Types
  <2> QED BY <2>1
<1>2. CASE g # h
  <2>1. c = handler[g] /\ backend # "memory"
    BY <1>2 DEF Goto, Types, OnlyMe
  <2>2. c \in Serving /\ Backed(c) /\ backend # "memory"
    BY <1>2, <2>1 DEF Goto, Types, OnlyMe, RequestsBacked
  <2>3. c.p \in Proposal   BY <2>2, StateFacts
  <2> QED BY <2>2, <2>3 DEF Backed, Kept
<1> QED BY <1>1, <1>2

\* Requests that neither insert a ballot nor announce one.
LEMMA BallotsRequest ==
    ASSUME Types, Ballots, Alone, NEW h \in Handler, Request(h)
    PROVE  Ballots'
<1> DEFINE New(r) == r \in Serving /\ r.pc # "commit.emit" /\ Goto(h, r)
<1>1. /\ MayStart /\ handler[h] = Idle /\ log' = log /\ ballots' = ballots
      /\ backend' = backend
  BY DEF Request, OpenInsert, CommitRead, RevealRead
<1>2. SameVotes /\ SameCommits   BY <1>1 DEF SameVotes, SameCommits, Positions, Voters
<1>3. OnlyMe(h)   BY <1>1, OnlyMeFacts
<1>4. ASSUME NEW r, New(r), Backed(r)', Kept,
             \A p \in Proposal : Opened(p)' /\ ~Opened(p) =>
                 Positions(p, "committed") \cup Positions(p, "revealed") = {}
      PROVE  Ballots'
  <2>1. RequestsBacked'   BY <1>1, <1>3, <1>4, OthersBacked DEF Ballots
  <2>2. ASSUME NEW g \in Handler, NEW p \in Proposal, NEW did \in Did
        PROVE  Emitting(g, p, did)' <=> Emitting(g, p, did)
    <3>1. CASE g = h
      <4>1. handler'[g] = r   BY <1>4, <3>1 DEF Goto, Types
      <4>2. ~Emitting(g, p, did)'   BY <4>1, <1>4 DEF Emitting
      <4>3. ~Emitting(g, p, did)   BY <1>1, <3>1, StateFacts DEF Emitting
      <4> QED BY <4>2, <4>3
    <3>2. CASE g # h   BY <1>4, <3>2 DEF Goto, Types, Emitting
    <3> QED BY <3>1, <3>2
  <2> QED BY <1>1, <1>2, <1>4, <2>1, <2>2, QuietStep DEF Kept
<1>5. CASE \E did \in Did, p \in Proposal, terms \in Terms : OpenInsert(h, did, p, terms)
  <2>1. PICK did \in Did, p \in Proposal, terms \in Terms : OpenInsert(h, did, p, terms)
    BY <1>5
  <2>2. PICK row : row = [status |-> "open", terms |-> terms, outcome |-> "none"]   OBVIOUS
  <2>3. row \in Row   BY <2>2 DEF Row
  <2>4. proposals' = [proposals EXCEPT ![p] = row]   BY <2>1, <2>2 DEF OpenInsert
  <2>5. Opened(p)' /\ \A q \in Proposal : q # p => (Opened(q)' <=> Opened(q))
    BY <2>3, <2>4, NoProposalFacts DEF Opened, Types
  <2>6. Kept   BY <2>5, <1>1 DEF Kept, Voters
  <2>7. PICK r : r = [pc |-> "open.emit", p |-> p]   OBVIOUS
  <2>8. New(r) /\ r.p = p /\ r.pc = "open.emit"
    BY <2>1, <2>7 DEF OpenInsert, Serving, Opening
  <2>9. Backed(r)'   BY <2>5, <2>8 DEF Backed
  <2>10. Positions(p, "committed") \cup Positions(p, "revealed") = {}
    BY <2>1 DEF OpenInsert, Positions
  <2> HIDE DEF New
  <2> QED BY <2>5, <2>6, <2>8, <2>9, <2>10, <1>4
<1>6. ASSUME proposals' = proposals,
             NEW r, New(r), Backed(r)
      PROVE  Ballots'
  <2>1. Kept   BY <1>1, <1>6 DEF Kept, Voters, Opened
  <2>2. Backed(r)'   BY <1>1, <1>6 DEF Backed, Voters, Opened
  <2>3. \A p \in Proposal : Opened(p)' <=> Opened(p)   BY <1>6 DEF Opened
  <2> HIDE DEF New
  <2> QED BY <1>4, <1>6, <2>1, <2>2, <2>3
<1>7. CASE \E did \in Did, p \in Proposal, hash \in Hash, claimed \in 0..MaxTick :
              CommitRead(h, did, p, hash, claimed)
  <2>1. PICK did \in Did, p \in Proposal, hash \in Hash, claimed \in 0..MaxTick :
              CommitRead(h, did, p, hash, claimed)
    BY <1>7
  <2>2. PICK r : r = [pc |-> "commit.exists", p |-> p, did |-> did, hash |-> hash]   OBVIOUS
  <2>3. New(r) /\ r.p = p /\ r.pc = "commit.exists"
    BY <2>1, <2>2 DEF CommitRead, Serving, Committing
  <2>4. Backed(r) /\ proposals' = proposals   BY <2>1, <2>3 DEF Backed, Opened, CommitRead
  <2> HIDE DEF New
  <2> QED BY <1>6, <2>3, <2>4
<1>8. CASE \E did \in Did, p \in Proposal, choice \in Choice : RevealRead(h, did, p, choice)
  <2>1. PICK did \in Did, p \in Proposal, choice \in Choice : RevealRead(h, did, p, choice)
    BY <1>8
  <2>2. PICK r : r = [pc |-> "reveal.update", p |-> p, did |-> did, choice |-> choice]
    OBVIOUS
  <2>3. New(r) /\ r.p = p /\ r.did = did /\ r.choice = choice /\ r.pc = "reveal.update"
    BY <2>1, <2>2 DEF RevealRead, Serving, Revealing
  <2>4. did \in Voters(p) /\ ballots[p][did].commit = [choice |-> choice, voter |-> did]
    BY <2>1 DEF RevealRead, Opens
  <2>5. Opened(p)   BY <2>4 DEF Ballots, VotersHaveProposal
  <2>6. Backed(r)   BY <2>3, <2>4, <2>5 DEF Backed
  <2>7. proposals' = proposals   BY <2>1 DEF RevealRead
  <2> HIDE DEF New
  <2> QED BY <1>6, <2>3, <2>6, <2>7
<1> QED BY <1>5, <1>7, <1>8 DEF Request

\* The request whose state becomes r announces nothing, before and after.
LEMMA EmittingSame ==
    ASSUME Types, NEW h \in Handler, NEW r, Goto(h, r), r.pc # "commit.emit",
           handler[h].pc # "commit.emit"
    PROVE  \A g \in Handler, p \in Proposal, did \in Did :
               Emitting(g, p, did)' <=> Emitting(g, p, did)
<1> SUFFICES ASSUME NEW g \in Handler, NEW p \in Proposal, NEW did \in Did
             PROVE  Emitting(g, p, did)' <=> Emitting(g, p, did)
  OBVIOUS
<1>1. CASE g = h
  <2>1. handler'[g] = r   BY <1>1 DEF Goto, Types
  <2> QED BY <1>1, <2>1 DEF Emitting
<1>2. CASE g # h   BY <1>2 DEF Goto, Types, Emitting
<1> QED BY <1>1, <1>2

LEMMA BallotsOpenEmit ==
    ASSUME Types, Ballots, Alone, NEW h \in Handler, OpenEmit(h) PROVE Ballots'
<1>1. handler[h] \in Serving /\ handler[h] # Idle /\ handler[h].p \in Proposal
  BY AtOpen, StateFacts DEF OpenEmit, Serving
<1>2. PICK e : e = [kind |-> "opened"]   OBVIOUS
<1>3. e.kind \notin {"committed", "revealed"} /\ Emit(handler[h].p, e)
  BY <1>2 DEF OpenEmit
<1>4. SameVotes   BY <1>1, <1>3, SameVotesEmit
<1>5. SameCommits /\ Kept /\ backend' = backend
      /\ \A p \in Proposal : Opened(p)' <=> Opened(p)
  BY DEF OpenEmit, SameCommits, Kept, Voters, Opened
<1>6. Goto(h, Idle) /\ handler[h].pc = "open.emit" /\ Idle.pc = "idle"
  BY StateFacts DEF OpenEmit
<1>7. RequestsBacked'   BY <1>1, <1>5, <1>6, OnlyMeFacts, OthersBacked DEF Ballots
<1>8. \A g \in Handler, p \in Proposal, did \in Did :
          Emitting(g, p, did)' <=> Emitting(g, p, did)
  BY <1>6, EmittingSame
<1> QED BY <1>4, <1>5, <1>7, <1>8, QuietStep

LEMMA BallotsCommitExists ==
    ASSUME Types, Ballots, Alone, NEW h \in Handler, CommitExists(h) PROVE Ballots'
<1> DEFINE c == handler[h]
<1>1. c \in Committing /\ c # Idle /\ c.p \in Proposal /\ c.pc = "commit.exists"
  BY AtCommit, StateFacts DEF CommitExists, Serving
<1>2. SameVotes /\ SameCommits /\ Kept /\ backend' = backend
      /\ \A p \in Proposal : Opened(p)' <=> Opened(p)
  BY DEF CommitExists, SameVotes, SameCommits, Kept, Positions, Voters, Opened
<1>3. PICK r : r = IF c.did \in Voters(c.p) THEN Idle ELSE [c EXCEPT !.pc = "commit.insert"]
  OBVIOUS
<1>4. Goto(h, r)   BY <1>3 DEF CommitExists
<1>5. \/ r = Idle
      \/ /\ r.pc = "commit.insert" /\ r.p = c.p /\ r.did = c.did
         /\ c.did \notin Voters(c.p)
  BY <1>1, <1>3 DEF Committing
<1>6. r # Idle => Backed(r)'
  <2> SUFFICES ASSUME r # Idle PROVE Backed(r)'
    OBVIOUS
  <2>1. PICK p, v : p \in Proposal /\ p = c.p /\ v = c.did   BY <1>1
  <2>2. Opened(p)   BY <1>1, <2>1 DEF Ballots, RequestsBacked, Backed
  <2>3. Opened(p)' /\ Voters(p)' = Voters(p)   BY <1>2, <2>1, <2>2 DEF SameCommits
  <2>4. r.pc = "commit.insert" /\ r.p = p /\ r.did = v /\ v \notin Voters(p)
    BY <1>5, <2>1
  <2> HIDE DEF c
  <2> QED BY <2>3, <2>4 DEF Backed
<1>7. RequestsBacked'   BY <1>1, <1>2, <1>4, <1>6, OnlyMeFacts, OthersBacked DEF Ballots
<1>8. r.pc # "commit.emit"   BY <1>5, StateFacts
<1>9. \A g \in Handler, p \in Proposal, did \in Did :
          Emitting(g, p, did)' <=> Emitting(g, p, did)
  BY <1>1, <1>4, <1>8, EmittingSame
<1> QED BY <1>2, <1>7, <1>9, QuietStep

LEMMA BallotsRevealUpdate ==
    ASSUME Types, Ballots, Alone, NEW h \in Handler, RevealUpdate(h) PROVE Ballots'
<1> DEFINE c == handler[h]
<1>1. c \in Revealing /\ c # Idle /\ c.p \in Proposal /\ c.pc = "reveal.update"
  BY AtReveal, StateFacts DEF RevealUpdate, Serving
<1>2. Backed(c) /\ c.did \in Voters(c.p)   BY <1>1 DEF Ballots, RequestsBacked, Backed
<1>3. SameVotes /\ backend' = backend /\ \A p \in Proposal : Opened(p)' <=> Opened(p)
  BY DEF RevealUpdate, SameVotes, Positions, Opened
<1>4. ballots' = [ballots EXCEPT ![c.p] = [ballots[c.p] EXCEPT ![c.did].choice = c.choice]]
  BY DEF RevealUpdate
<1>5. SameCommits
  <2>1. ASSUME NEW p \in Proposal
        PROVE  Voters(p)' = Voters(p)
               /\ \A v \in Voters(p) : ballots'[p][v].commit = ballots[p][v].commit
    <3>1. CASE p # c.p   BY <1>4, <3>1 DEF Voters, Types
    <3>2. CASE p = c.p
      <4>1. ballots'[p] = [ballots[p] EXCEPT ![c.did].choice = c.choice]
        BY <1>1, <1>4, <3>2 DEF Types
      <4>2. \A v \in Voters(p) : ballots[p][v] \in Ballot   BY TableFacts DEF Types, Voters
      <4> QED BY <4>1, <4>2 DEF Voters, Ballot
    <3> QED BY <3>1, <3>2
  <2> QED BY <2>1 DEF SameCommits
<1>6. Kept   BY <1>3, <1>5 DEF SameCommits, Kept
<1>7. PICK r : r = [c EXCEPT !.pc = "reveal.emit"]   OBVIOUS
<1>8. Goto(h, r) /\ r.pc = "reveal.emit" /\ r.p = c.p /\ r.did = c.did /\ r.choice = c.choice
  BY <1>1, <1>7 DEF RevealUpdate, Revealing
<1>9. Backed(r)'
  <2>1. PICK p, v : p \in Proposal /\ p = c.p /\ v = c.did /\ v \in Voters(p)   BY <1>1, <1>2
  <2>2. /\ Opened(p) /\ v \in Voters(p)
        /\ ballots[p][v].commit = [choice |-> c.choice, voter |-> v]
    BY <1>1, <1>2, <2>1 DEF Backed
  <2>3. /\ Opened(p)' /\ v \in Voters(p)'
        /\ ballots'[p][v].commit = [choice |-> c.choice, voter |-> v]
    BY <2>1, <2>2, <1>6 DEF Kept
  <2>4. r.p = p /\ r.did = v /\ r.choice = c.choice /\ r.pc = "reveal.emit"   BY <1>8, <2>1
  <2> HIDE DEF c
  <2> QED BY <2>3, <2>4 DEF Backed
<1>10. RequestsBacked'
  BY <1>1, <1>3, <1>6, <1>8, <1>9, OnlyMeFacts, OthersBacked DEF Ballots
<1>11. \A g \in Handler, p \in Proposal, did \in Did :
          Emitting(g, p, did)' <=> Emitting(g, p, did)
  BY <1>1, <1>8, EmittingSame
<1> QED BY <1>3, <1>5, <1>10, <1>11, QuietStep

LEMMA EmittingNext ==
    ASSUME Types, NEW h \in Handler, NEW r, Goto(h, r)
    PROVE  /\ \A g \in Handler, p \in Proposal, did \in Did :
                  g # h => (Emitting(g, p, did)' <=> Emitting(g, p, did))
           /\ \A p \in Proposal, did \in Did :
                  Emitting(h, p, did)' <=> r.pc = "commit.emit" /\ r.p = p /\ r.did = did
BY DEF Goto, Types, Emitting

LEMMA EmittingIsBacked ==
    ASSUME Types, RequestsBacked
    PROVE  \A g \in Handler, p \in Proposal, did \in Did : Emitting(g, p, did) =>
               handler[g] # Idle /\ did \in Voters(p)
BY StateFacts DEF RequestsBacked, Backed, Emitting

\* What is in the log of a proposal that exists is in its table.
LEMMA CommittedIsVoter ==
    ASSUME EventsAgree, NEW p \in Proposal, Opened(p), NEW did, Committed(p, did)
    PROVE  did \in Voters(p)
BY DEF EventsAgree, AgreesWithBallot, Committed

LEMMA BallotsCommitInsert ==
    ASSUME Types, Ballots, Alone, NEW h \in Handler, CommitInsert(h) PROVE Ballots'
<1> DEFINE c == handler[h]
<1>1. c \in Committing /\ c # Idle /\ c.pc = "commit.insert"
  BY AtCommit, StateFacts DEF CommitInsert, Serving
<1>2. PICK p \in Proposal, did \in Did, hash \in Hash : p = c.p /\ did = c.did /\ hash = c.hash
  BY <1>1, StateFacts DEF Serving
<1>3. SameVotes /\ backend' = backend /\ log' = log
      /\ \A q \in Proposal : Opened(q)' <=> Opened(q)
  BY DEF CommitInsert, SameVotes, Positions, Opened
<1>4. OnlyMe(h)   BY <1>1, OnlyMeFacts
<1>5. CASE KeyTaken(p, did)
  <2>1. Goto(h, Idle) /\ ballots' = ballots   BY <1>2, <1>5 DEF CommitInsert
  <2>2. SameCommits /\ Kept   BY <2>1, <1>3 DEF SameCommits, Kept, Voters
  <2>3. RequestsBacked'   BY <1>3, <1>4, <2>1, <2>2, OthersBacked DEF Ballots
  <2>4. \A g \in Handler, q \in Proposal, d \in Did :
            Emitting(g, q, d)' <=> Emitting(g, q, d)
    BY <1>1, <2>1, EmittingSame, StateFacts
  <2> QED BY <1>3, <2>2, <2>3, <2>4, QuietStep
<1>6. CASE ~KeyTaken(p, did)
  <2>1. did \notin Voters(p) /\ Opened(p)
    <3>1. Backed(c)   BY <1>1 DEF Ballots, RequestsBacked
    <3>2. Opened(p) /\ (backend = "memory" => did \notin Voters(p))
      BY <3>1, <1>1, <1>2 DEF Backed
    <3>3. backend \in {"memory", "mysql"}   BY ConstantsAssumption DEF Types, Scalars
    <3> QED BY <1>6, <3>2, <3>3 DEF KeyTaken
  <2>2. ballots' = [ballots EXCEPT ![p] = NewBallot(p, did, hash)]
        /\ Goto(h, [c EXCEPT !.pc = "commit.emit"])
    BY <1>2, <1>6 DEF CommitInsert
  <2>3. /\ Voters(p)' = Voters(p) \cup {did}
        /\ \A v \in Voters(p) : ballots'[p][v] = ballots[p][v]
        /\ ballots'[p][did].commit = hash
        /\ \A q \in Proposal : q # p => ballots'[q] = ballots[q]
    BY <2>1, <2>2 DEF NewBallot, Voters, Types
  <2>4. \A q \in Proposal : q # p => Voters(q)' = Voters(q)   BY <2>3 DEF Voters
  <2>5. Kept
    <3> SUFFICES ASSUME NEW q \in Proposal
                 PROVE  /\ Opened(q) => Opened(q)'
                        /\ \A v \in Voters(q) :
                              v \in Voters(q)' /\ ballots'[q][v].commit = ballots[q][v].commit
      BY DEF Kept
    <3>1. CASE q = p   BY <3>1, <1>3, <2>3
    <3>2. CASE q # p   BY <3>2, <1>3, <2>3, <2>4
    <3> QED BY <3>1, <3>2
  <2>6. PICK r : r = [c EXCEPT !.pc = "commit.emit"]   OBVIOUS
  <2>7. Goto(h, r) /\ r.pc = "commit.emit" /\ r.p = p /\ r.did = did /\ r.hash = hash
    BY <1>1, <1>2, <2>2, <2>6 DEF Committing
  <2>8. Backed(r)'
    <3>1. Opened(p)' /\ did \in Voters(p)' /\ ballots'[p][did].commit = hash
      BY <2>1, <2>3, <1>3
    <3> QED BY <2>7, <3>1 DEF Backed
  <2>9. RequestsBacked'   BY <1>3, <1>4, <2>5, <2>7, <2>8, OthersBacked DEF Ballots
  <2>10. \A q \in Proposal, d \in Did : Committed(q, d)' <=> Committed(q, d)
    BY <1>3 DEF Committed, SameVotes
  <2>11. ~Committed(p, did)   BY <2>1, CommittedIsVoter DEF Ballots
  <2>12. \A g \in Handler : ~Emitting(g, p, did)   BY <2>1, EmittingIsBacked DEF Ballots
  <2>13. /\ \A g \in Handler, q \in Proposal, d \in Did :
                g # h => (Emitting(g, q, d)' <=> Emitting(g, q, d))
         /\ \A q \in Proposal, d \in Did : Emitting(h, q, d)' <=> p = q /\ did = d
    BY <2>7, EmittingNext
  <2>14. EmittedOnce'
    BY <2>10, <2>11, <2>12, <2>13 DEF EmittedOnce, Ballots
  <2>15. OneBallotPerVoter'   BY <1>3 DEF Ballots, OneBallotPerVoter, Positions
  <2>16. EventsAgree'
    <3> SUFFICES ASSUME NEW q \in Proposal, Opened(q)',
                        NEW i \in (Positions(q, "committed") \cup Positions(q, "revealed"))'
                 PROVE  AgreesWithBallot(q, log[q][i])'
      BY DEF EventsAgree
    <3>1. i \in Positions(q, "committed") \cup Positions(q, "revealed") /\ log'[q][i] = log[q][i]
      BY <1>3 DEF SameVotes
    <3>2. AgreesWithBallot(q, log[q][i])   BY <1>3, <3>1 DEF Ballots, EventsAgree
    <3> QED BY <3>1, <3>2, <2>5 DEF AgreesWithBallot, Kept
  <2>17. VotersHaveProposal'
    BY <1>3, <2>1, <2>3, <2>4 DEF Ballots, VotersHaveProposal
  <2>18. BallotsAreLogged'
    <3> SUFFICES ASSUME backend = "memory", NEW q \in Proposal, NEW v \in Voters(q)'
                 PROVE  Committed(q, v)' \/ \E g \in Handler : Emitting(g, q, v)'
      BY <1>3 DEF BallotsAreLogged
    <3>1. CASE q = p /\ v = did   BY <3>1, <2>13
    <3>2. CASE q # p \/ v # did
      <4>1. v \in Voters(q)   BY <3>2, <2>3, <2>4
      <4>2. v \in Did   BY <4>1, TableFacts DEF Types, Voters
      <4>3. ~Emitting(h, q, v)   BY <1>1 DEF Emitting
      <4> QED BY <4>1, <4>2, <4>3, <2>10, <2>13 DEF Ballots, BallotsAreLogged
    <3> QED BY <3>1, <3>2
  <2>19. RevealsFollow'   BY <1>3 DEF Ballots, RevealsFollow, Positions, VotersIn
  <2> QED BY <2>9, <2>14, <2>15, <2>16, <2>17, <2>18, <2>19 DEF Ballots
<1> QED BY <1>5, <1>6

\* One announcement, seen by the two kinds of positions.
LEMMA VotesEmit ==
    ASSUME Types, NEW p \in Proposal, NEW e, Emit(p, e),
           NEW n, n = Len(log[p]) + 1
    PROVE  /\ \A k \in {"committed", "revealed"} :
                 /\ Positions(p, k)' =
                       Positions(p, k) \cup (IF e.kind = k THEN {n} ELSE {})
                 /\ \A i \in Positions(p, k) : log'[p][i] = log[p][i] /\ i < n
           /\ \A q \in Proposal : q # p =>
                 /\ Positions(q, "committed")' = Positions(q, "committed")
                 /\ Positions(q, "revealed")' = Positions(q, "revealed")
                 /\ log'[q] = log[q]
           /\ log'[p][n] = e
<1>1. ASSUME NEW k \in {"committed", "revealed"}
      PROVE  /\ Positions(p, k)' = Positions(p, k) \cup (IF e.kind = k THEN {n} ELSE {})
             /\ \A i \in Positions(p, k) : log'[p][i] = log[p][i] /\ i < n
  BY PositionsEmit
<1>2. ASSUME NEW q \in Proposal, q # p
      PROVE  /\ Positions(q, "committed")' = Positions(q, "committed")
             /\ Positions(q, "revealed")' = Positions(q, "revealed")
             /\ log'[q] = log[q]
  <2>1. log'[q] = log[q]   BY <1>2, EmitFacts
  <2> QED BY <2>1 DEF Positions
<1>3. log'[p][n] = e   BY EmitFacts
<1> QED BY <1>1, <1>2, <1>3

\* What an announcement leaves as it was: the tables, and the older events.
LEMMA AnnounceFrame ==
    ASSUME Types, Ballots, NEW h \in Handler, OnlyMe(h), Goto(h, Idle),
           UNCHANGED <<backend, proposals, ballots>>, NEW p \in Proposal, NEW e, Emit(p, e),
           Opened(p) => AgreesWithBallot(p, e)
    PROVE  RequestsBacked' /\ EventsAgree' /\ VotersHaveProposal'
<1>1. Kept /\ \A q \in Proposal : Opened(q)' <=> Opened(q)   BY DEF Kept, Voters, Opened
<1>2. RequestsBacked'   BY <1>1, OthersBacked DEF Ballots
<1>3. VotersHaveProposal'   BY DEF Ballots, VotersHaveProposal, Voters, Opened
<1>4. EventsAgree'
  <2> SUFFICES ASSUME NEW q \in Proposal, Opened(q),
                      NEW i \in (Positions(q, "committed") \cup Positions(q, "revealed"))'
               PROVE  AgreesWithBallot(q, log[q][i])'
    BY <1>1 DEF EventsAgree
  <2> DEFINE old == Positions(q, "committed") \cup Positions(q, "revealed")
  <2>0. PICK n : n = Len(log[p]) + 1   OBVIOUS
  <2>1. PICK x : x = log'[q][i]   OBVIOUS
  <2>2. AgreesWithBallot(q, x)
    <3>1. CASE i \in old
      <4>1. x = log[q][i]   BY <2>0, <2>1, <3>1, VotesEmit
      <4> QED BY <3>1, <4>1 DEF Ballots, EventsAgree
    <3>2. CASE i \notin old
      <4>1. q = p   BY <2>0, <3>2, VotesEmit
      <4>2. i = n   BY <2>0, <3>2, <4>1, VotesEmit
      <4>3. x = e   BY <2>0, <2>1, <4>1, <4>2, VotesEmit
      <4> QED BY <4>1, <4>3
    <3> QED BY <3>1, <3>2
  <2> QED BY <2>1, <2>2 DEF AgreesWithBallot, Voters
<1> QED BY <1>2, <1>3, <1>4

LEMMA BallotsCommitEmit ==
    ASSUME Types, Ballots, Alone, NEW h \in Handler, CommitEmit(h) PROVE Ballots'
<1> DEFINE c == handler[h]
<1>1. c \in Committing /\ c # Idle /\ c.pc = "commit.emit"
  BY AtCommit, StateFacts DEF CommitEmit, Serving
<1>2. PICK p \in Proposal, did \in Did, hash \in Hash : p = c.p /\ did = c.did /\ hash = c.hash
  BY <1>1, StateFacts DEF Serving
<1>3. PICK e : e = [kind |-> "committed", did |-> did, hash |-> hash]   OBVIOUS
<1>4. /\ Emit(p, e) /\ Goto(h, Idle) /\ UNCHANGED <<backend, proposals, ballots>>
      /\ e.kind = "committed" /\ e.did = did /\ e.hash = hash
  BY <1>2, <1>3 DEF CommitEmit
<1>5. OnlyMe(h)   BY <1>1, OnlyMeFacts
<1>6. AgreesWithBallot(p, e)
  BY <1>1, <1>2, <1>4 DEF Ballots, RequestsBacked, Backed, AgreesWithBallot
<1>7. RequestsBacked' /\ EventsAgree' /\ VotersHaveProposal'   BY <1>4, <1>5, <1>6, AnnounceFrame
<1>8. Emitting(h, p, did)   BY <1>1, <1>2 DEF Emitting
<1>9. /\ ~Committed(p, did) /\ \A g \in Handler : Emitting(g, p, did) => g = h
      /\ \A q \in Proposal, d \in Did : Emitting(h, q, d) => q = p /\ d = did
  BY <1>2, <1>8 DEF Ballots, EmittedOnce, Emitting
<1>a. PICK n : n = Len(log[p]) + 1   OBVIOUS
<1>10. /\ Positions(p, "committed")' = Positions(p, "committed") \cup {n}
       /\ Positions(p, "revealed")' = Positions(p, "revealed")
       /\ \A k \in {"committed", "revealed"} : \A i \in Positions(p, k) :
              log'[p][i] = log[p][i] /\ i < n
       /\ \A q \in Proposal : q # p =>
              /\ Positions(q, "committed")' = Positions(q, "committed")
              /\ Positions(q, "revealed")' = Positions(q, "revealed")
              /\ log'[q] = log[q]
       /\ log'[p][n] = e
  <2>1. Positions(p, "committed")' = Positions(p, "committed") \cup {n}
    BY <1>4, <1>a, VotesEmit
  <2>2. Positions(p, "revealed")' = Positions(p, "revealed")   BY <1>4, <1>a, VotesEmit
  <2>3. /\ \A k \in {"committed", "revealed"} : \A i \in Positions(p, k) :
               log'[p][i] = log[p][i] /\ i < n
        /\ log'[p][n] = e
    BY <1>4, <1>a, VotesEmit
  <2>4. ASSUME NEW q \in Proposal, q # p
        PROVE  /\ Positions(q, "committed")' = Positions(q, "committed")
               /\ Positions(q, "revealed")' = Positions(q, "revealed")
               /\ log'[q] = log[q]
    BY <1>4, <1>a, <2>4, VotesEmit
  <2> QED BY <2>1, <2>2, <2>3, <2>4
<1> HIDE DEF c
<1>11. \A q \in Proposal, d \in Did :
           Committed(q, d)' <=> Committed(q, d) \/ (q = p /\ d = did)
  <2>1. ASSUME NEW d \in Did PROVE Committed(p, d)' <=> Committed(p, d) \/ d = did
    BY <1>10, <1>4 DEF Committed
  <2>2. ASSUME NEW d \in Did, NEW q \in Proposal, q # p
        PROVE  Committed(q, d)' <=> Committed(q, d)
    BY <1>10, <2>2 DEF Committed
  <2> QED BY <2>1, <2>2
<1>12. \A g \in Handler, q \in Proposal, d \in Did :
           Emitting(g, q, d)' <=> g # h /\ Emitting(g, q, d)
  BY <1>4, EmittingNext, StateFacts
<1>13. EmittedOnce'   BY <1>9, <1>11, <1>12 DEF Ballots, EmittedOnce
<1>14. OneBallotPerVoter'
  <2> SUFFICES ASSUME NEW q \in Proposal, NEW i \in Positions(q, "committed")',
                      NEW j \in Positions(q, "committed")', log'[q][i].did = log'[q][j].did
               PROVE  i = j
    BY DEF OneBallotPerVoter
  <2>1. CASE i \in Positions(q, "committed") /\ j \in Positions(q, "committed")
    BY <1>10, <2>1 DEF Ballots, OneBallotPerVoter
  <2>2. CASE ~(i \in Positions(q, "committed") /\ j \in Positions(q, "committed"))
    <3>1. q = p   BY <1>10, <2>2
    <3>2. \A k \in Positions(p, "committed") : log'[p][k].did # did
      BY <1>9, <1>10 DEF Committed
    <3> QED BY <1>4, <1>10, <2>2, <3>1, <3>2
  <2> QED BY <2>1, <2>2
<1>15. BallotsAreLogged'
  <2> SUFFICES ASSUME backend = "memory", NEW q \in Proposal, NEW v \in Voters(q)
               PROVE  Committed(q, v)' \/ \E g \in Handler : Emitting(g, q, v)'
    BY <1>4 DEF BallotsAreLogged, Voters
  <2>1. v \in Did   BY TableFacts DEF Types, Voters
  <2>2. Committed(q, v) \/ \E g \in Handler : Emitting(g, q, v)
    BY DEF Ballots, BallotsAreLogged
  <2> QED BY <2>1, <2>2, <1>9, <1>11, <1>12
<1>16. RevealsFollow'
  <2> SUFFICES ASSUME backend = "memory", NEW q \in Proposal, NEW i \in Positions(q, "revealed")
               PROVE  log'[q][i].did \in VotersIn(q, "committed", i)'
    BY <1>4, <1>10 DEF RevealsFollow
  <2>1. log[q][i].did \in VotersIn(q, "committed", i)   BY DEF Ballots, RevealsFollow
  <2>2. PICK j \in Positions(q, "committed") : j < i /\ log[q][j].did = log[q][i].did
    BY <2>1 DEF VotersIn
  <2>3. /\ j \in Positions(q, "committed")' /\ log'[q][j] = log[q][j]
        /\ log'[q][i] = log[q][i]
    BY <1>10
  <2> QED BY <2>2, <2>3 DEF VotersIn
<1> QED BY <1>7, <1>13, <1>14, <1>15, <1>16 DEF Ballots

LEMMA BallotsRevealEmit ==
    ASSUME Types, Ballots, Alone, NEW h \in Handler, RevealEmit(h) PROVE Ballots'
<1> DEFINE c == handler[h]
<1>1. c \in Revealing /\ c # Idle /\ c.pc = "reveal.emit"
  BY AtReveal, StateFacts DEF RevealEmit, Serving
<1>2. PICK p \in Proposal, did \in Did, choice \in Choice :
          p = c.p /\ did = c.did /\ choice = c.choice
  BY <1>1, StateFacts DEF Serving
<1>3. PICK e : e = [kind |-> "revealed", did |-> did, choice |-> choice]   OBVIOUS
<1>4. /\ Emit(p, e) /\ Goto(h, Idle) /\ UNCHANGED <<backend, proposals, ballots>>
      /\ e.kind = "revealed" /\ e.did = did /\ e.choice = choice
  BY <1>2, <1>3 DEF RevealEmit
<1>5. OnlyMe(h)   BY <1>1, OnlyMeFacts
<1>6. AgreesWithBallot(p, e)
  BY <1>1, <1>2, <1>4 DEF Ballots, RequestsBacked, Backed, AgreesWithBallot
<1>7. RequestsBacked' /\ EventsAgree' /\ VotersHaveProposal'   BY <1>4, <1>5, <1>6, AnnounceFrame
<1>a. PICK n : n = Len(log[p]) + 1   OBVIOUS
<1>8. /\ Positions(p, "committed")' = Positions(p, "committed")
      /\ Positions(p, "revealed")' = Positions(p, "revealed") \cup {n}
      /\ \A k \in {"committed", "revealed"} : \A i \in Positions(p, k) :
             log'[p][i] = log[p][i] /\ i < n
      /\ \A q \in Proposal : q # p =>
             /\ Positions(q, "committed")' = Positions(q, "committed")
             /\ Positions(q, "revealed")' = Positions(q, "revealed")
             /\ log'[q] = log[q]
      /\ log'[p][n] = e
  <2>1. Positions(p, "revealed")' = Positions(p, "revealed") \cup {n}
    BY <1>4, <1>a, VotesEmit
  <2>2. Positions(p, "committed")' = Positions(p, "committed")   BY <1>4, <1>a, VotesEmit
  <2>3. /\ \A k \in {"committed", "revealed"} : \A i \in Positions(p, k) :
               log'[p][i] = log[p][i] /\ i < n
        /\ log'[p][n] = e
    BY <1>4, <1>a, VotesEmit
  <2>4. ASSUME NEW q \in Proposal, q # p
        PROVE  /\ Positions(q, "committed")' = Positions(q, "committed")
               /\ Positions(q, "revealed")' = Positions(q, "revealed")
               /\ log'[q] = log[q]
    BY <1>4, <1>a, <2>4, VotesEmit
  <2> QED BY <2>1, <2>2, <2>3, <2>4
<1>9. \A g \in Handler, q \in Proposal, d \in Did : Emitting(g, q, d)' <=> Emitting(g, q, d)
  BY <1>1, <1>4, EmittingSame, StateFacts
<1>10. ~Emitting(h, p, did)   BY <1>1 DEF Emitting
<1> HIDE DEF c
<1>11. \A q \in Proposal, d \in Did : Committed(q, d)' <=> Committed(q, d)
  <2>1. ASSUME NEW d \in Did PROVE Committed(p, d)' <=> Committed(p, d)
    BY <1>8 DEF Committed
  <2>2. ASSUME NEW d \in Did, NEW q \in Proposal, q # p
        PROVE  Committed(q, d)' <=> Committed(q, d)
    BY <1>8, <2>2 DEF Committed
  <2> QED BY <2>1, <2>2
<1>12. EmittedOnce'   BY <1>9, <1>11 DEF Ballots, EmittedOnce
<1>13. OneBallotPerVoter'   BY <1>8 DEF Ballots, OneBallotPerVoter
<1>14. BallotsAreLogged'
  <2> SUFFICES ASSUME backend = "memory", NEW q \in Proposal, NEW v \in Voters(q)
               PROVE  Committed(q, v)' \/ \E g \in Handler : Emitting(g, q, v)'
    BY <1>4 DEF BallotsAreLogged, Voters
  <2>1. v \in Did   BY TableFacts DEF Types, Voters
  <2>2. Committed(q, v) \/ \E g \in Handler : Emitting(g, q, v)
    BY DEF Ballots, BallotsAreLogged
  <2> QED BY <2>1, <2>2, <1>9, <1>11
<1>15. RevealsFollow'
  <2> SUFFICES ASSUME backend = "memory", NEW q \in Proposal, NEW i \in Positions(q, "revealed")'
               PROVE  \E j \in Positions(q, "committed")' :
                          j < i /\ log'[q][j].did = log'[q][i].did
    BY <1>4 DEF RevealsFollow, VotersIn
  <2>1. CASE i \in Positions(q, "revealed")
    <3>1. log[q][i].did \in VotersIn(q, "committed", i)   BY <2>1 DEF Ballots, RevealsFollow
    <3>2. PICK j \in Positions(q, "committed") : j < i /\ log[q][j].did = log[q][i].did
      BY <3>1 DEF VotersIn
    <3>3. j \in Positions(q, "committed")' /\ log'[q][j] = log[q][j] /\ log'[q][i] = log[q][i]
      BY <1>8, <2>1
    <3> QED BY <3>2, <3>3
  <2>2. CASE i \notin Positions(q, "revealed")
    <3>1. q = p /\ i = n   BY <1>8, <2>2
    <3>2. did \in Voters(p)   BY <1>4, <1>6 DEF AgreesWithBallot
    <3>3. \A g \in Handler : ~Emitting(g, p, did)
      <4>1. \A g \in Handler : g # h => handler[g] = Idle   BY <1>5 DEF OnlyMe
      <4> QED BY <4>1, <1>10, EmittingIsBacked DEF Ballots
    <3>4. Committed(p, did)   BY <3>2, <3>3 DEF Ballots, BallotsAreLogged
    <3>5. PICK j \in Positions(p, "committed") : log[p][j].did = did   BY <3>4 DEF Committed
    <3> QED BY <1>4, <1>8, <3>1, <3>5
  <2> QED BY <2>1, <2>2
<1> QED BY <1>7, <1>12, <1>13, <1>14, <1>15 DEF Ballots

-----------------------------------------------------------------------------
(* Tallies. *)

None(p, kind) == Positions(p, kind) = {}
AtMostOne(p, kind) == \A i, j \in Positions(p, kind) : i = j

\* In memory the work of a scan is still open, but for the proposal whose tally
\* is written and not yet announced; an announced one is not open.
ScanHolds(r) ==
    /\ \A p \in r.todo : IsOpen(p) \/ (r.pc = "emit" /\ p = r.p)
    /\ r.pc = "emit" => ~IsOpen(r.p) /\ None(r.p, "tallied")
Tallies ==
    backend = "memory" =>
        /\ \A p \in Proposal :
              /\ AtMostOne(p, "tallied") /\ AtMostOne(p, "law")
              /\ None(p, "tallied") => None(p, "law")
              /\ IsOpen(p) => None(p, "tallied")
        /\ \A s \in Scan : scan[s] # Idle => ScanHolds(scan[s])

LEMMA InitTallies == Init => Tallies
BY NoProposalFacts DEF Init, Tallies, AtMostOne, None, Positions, IsOpen

LEMMA OpenIsOpened == ASSUME NEW p, IsOpen(p) PROVE Opened(p)
BY NoProposalFacts DEF IsOpen, Opened

SameEnds ==
    \A p \in Proposal, kind \in {"tallied", "law"} : Positions(p, kind)' = Positions(p, kind)

LEMMA SameEndsEmit ==
    ASSUME Types, NEW p \in Proposal, NEW e, Emit(p, e), e.kind \notin {"tallied", "law"}
    PROVE  SameEnds
<1> SUFFICES ASSUME NEW q \in Proposal, NEW kind \in {"tallied", "law"}
             PROVE  Positions(q, kind)' = Positions(q, kind)
  BY DEF SameEnds
<1>1. CASE q = p   BY <1>1, PositionsEmit
<1>2. CASE q # p
  <2>1. log'[q] = log[q]   BY <1>2, EmitFacts
  <2> QED BY <2>1 DEF Positions
<1> QED BY <1>1, <1>2

\* What a request adds to the log: at most one event, and never a tally.
LEMMA RequestAppends ==
    ASSUME Types, NEW h \in Handler, Request(h) \/ Continue(h)
    PROVE  log' = log \/ \E p \in Proposal : \E e : Emit(p, e) /\ e.kind \notin {"tallied", "law"}
<1>1. CASE OpenEmit(h)
  <2>1. PICK e : e = [kind |-> "opened"]   OBVIOUS
  <2>2. Emit(handler[h].p, e) /\ e.kind = "opened"   BY <1>1, <2>1 DEF OpenEmit
  <2>3. handler[h].p \in Proposal   BY <1>1, AtOpen, StateFacts DEF OpenEmit, Serving
  <2> QED BY <2>2, <2>3
<1>2. CASE CommitEmit(h)
  <2>1. PICK e : e = [kind |-> "committed", did |-> handler[h].did, hash |-> handler[h].hash]
    OBVIOUS
  <2>2. Emit(handler[h].p, e) /\ e.kind = "committed"   BY <1>2, <2>1 DEF CommitEmit
  <2>3. handler[h].p \in Proposal   BY <1>2, AtCommit, StateFacts DEF CommitEmit, Serving
  <2> QED BY <2>2, <2>3
<1>3. CASE RevealEmit(h)
  <2>1. PICK e : e = [kind |-> "revealed", did |-> handler[h].did,
                      choice |-> handler[h].choice]
    OBVIOUS
  <2>2. Emit(handler[h].p, e) /\ e.kind = "revealed"   BY <1>3, <2>1 DEF RevealEmit
  <2>3. handler[h].p \in Proposal   BY <1>3, AtReveal, StateFacts DEF RevealEmit, Serving
  <2> QED BY <2>2, <2>3
<1> QED
  BY <1>1, <1>2, <1>3 DEF Request, OpenInsert, CommitRead, RevealRead, Continue, CommitExists,
                          CommitInsert, RevealUpdate

\* Requests leave scans and tallies alone.
LEMMA TalliesRequest ==
    ASSUME Types, ScansSound, Tallies, NEW h \in Handler, Request(h) \/ Continue(h)
    PROVE  ScansSound' /\ Tallies'
<1>1. UNCHANGED <<backend, scan>>
  BY DEF Request, OpenInsert, CommitRead, RevealRead, Continue, OpenEmit, CommitExists,
         CommitInsert, CommitEmit, RevealUpdate, RevealEmit
<1>2. SameEnds
  <2>1. CASE log' = log   BY <2>1 DEF SameEnds, Positions
  <2>2. CASE \E p \in Proposal : \E e : Emit(p, e) /\ e.kind \notin {"tallied", "law"}
    BY <2>2, SameEndsEmit
  <2> QED BY <2>1, <2>2, RequestAppends
<1>3. ASSUME NEW q \in Proposal
      PROVE  /\ IsOpen(q) => IsOpen(q)'
             /\ Opened(q) => Opened(q)' /\ (IsOpen(q)' => IsOpen(q))
             /\ IsOpen(q)' /\ ~IsOpen(q) => None(q, "tallied")
  <2>1. CASE proposals' = proposals   BY <2>1 DEF IsOpen, Opened
  <2>2. CASE \E did \in Did, p \in Proposal, terms \in Terms : OpenInsert(h, did, p, terms)
    <3>1. PICK did \in Did, p \in Proposal, terms \in Terms : OpenInsert(h, did, p, terms)
      BY <2>2
    <3>2. /\ proposals[p] = NoProposal /\ log[p] = << >>
          /\ q # p => proposals'[q] = proposals[q]
      BY <3>1 DEF OpenInsert, Types
    <3>3. None(p, "tallied")   BY <3>2 DEF None, Positions
    <3>4. ~IsOpen(p) /\ ~Opened(p)   BY <3>2, NoProposalFacts DEF IsOpen, Opened
    <3>5. CASE q = p   BY <3>3, <3>4, <3>5
    <3>6. CASE q # p   BY <3>2, <3>6 DEF IsOpen, Opened
    <3> QED BY <3>5, <3>6
  <2> QED
    BY <2>1, <2>2 DEF Request, CommitRead, RevealRead, Continue, OpenEmit, CommitExists,
                      CommitInsert, CommitEmit, RevealUpdate, RevealEmit
<1>4. ScansSound'
  <2>1. \A s \in Scan : scan[s] # Idle => scan[s].todo \in SUBSET Proposal
    BY StateFacts DEF Types
  <2> QED BY <1>1, <1>3, <2>1 DEF ScansSound
<1>5. \A p \in Proposal : /\ None(p, "tallied")' <=> None(p, "tallied")
                          /\ None(p, "law")' <=> None(p, "law")
                          /\ AtMostOne(p, "tallied")' <=> AtMostOne(p, "tallied")
                          /\ AtMostOne(p, "law")' <=> AtMostOne(p, "law")
  BY <1>2 DEF SameEnds, None, AtMostOne
<1>6. Tallies'
  <2>1. ASSUME backend = "memory", NEW s \in Scan, NEW r, r = scan[s], r # Idle
        PROVE  ScanHolds(r)'
    <3>1. ScanHolds(r) /\ r.todo \in SUBSET Proposal   BY <2>1, StateFacts DEF Tallies, Types
    <3>2. r.pc = "emit" => r.p \in Proposal /\ Opened(r.p)
      BY <2>1, AtScan, StateFacts DEF ScansSound
    <3> QED BY <1>3, <1>5, <3>1, <3>2 DEF ScanHolds
  <2>2. \A s \in Scan : backend = "memory" /\ scan[s] # Idle => ScanHolds(scan[s])'
    BY <2>1, <1>1 DEF ScanHolds
  <2> QED BY <1>1, <1>3, <1>5, <2>2 DEF Tallies, ScanHolds
<1> QED BY <1>4, <1>6

\* A scan moves on to the state r and the log stays: what then has to hold.
LEMMA ScanMoves ==
    ASSUME Types, Ballots, Alone, ScansSound, Tallies, NEW s \in Scan, NEW r, GotoScan(s, r),
           MayStart \/ scan[s] # Idle, UNCHANGED <<backend, ballots, handler, log>>,
           \A p \in Proposal : Opened(p)' <=> Opened(p),
           \A p \in Proposal : IsOpen(p)' => IsOpen(p),
           r # Idle => /\ r.todo \subseteq Proposal /\ \A p \in r.todo : Opened(p)
                       /\ r.pc # "reveals" => r.p \in r.todo,
           backend = "memory" /\ r # Idle => ScanHolds(r)'
    PROVE  Ballots' /\ ScansSound' /\ Tallies'
<1>1. SameVotes /\ SameCommits /\ Kept /\ SameEnds
      /\ \A h \in Handler, p \in Proposal, did \in Did :
             Emitting(h, p, did)' <=> Emitting(h, p, did)
  BY DEF SameVotes, SameCommits, Kept, SameEnds, Positions, Voters, Emitting
<1>2. RequestsBacked'
  <2>1. ASSUME NEW h \in Handler, NEW c, c = handler[h], c # Idle PROVE Backed(c)'
    <3>1. Backed(c) /\ c.p \in Proposal
      BY <2>1, StateFacts DEF Ballots, RequestsBacked, Types
    <3> QED BY <3>1 DEF Backed, Voters
  <2> QED BY <2>1 DEF RequestsBacked, Backed
<1>3. Ballots'   BY <1>1, <1>2, QuietStep
<1>4. ScansSound'
  <2>1. \A t \in Scan : scan[t] # Idle => scan[t].todo \in SUBSET Proposal
    BY StateFacts DEF Types
  <2>2. scan' = [scan EXCEPT ![s] = r] /\ scan'[s] = r   BY DEF GotoScan, Types
  <2>3. \A t \in Scan : t # s => scan'[t] = scan[t]   BY <2>2 DEF Types
  <2> QED BY <2>1, <2>2, <2>3 DEF ScansSound
<1>5. Tallies'
  <2>1. ASSUME backend = "memory" PROVE \A t \in Scan : t # s => scan'[t] = Idle
    BY <2>1 DEF Alone, MayStart, GotoScan, Types
  <2>2. scan'[s] = r   BY DEF GotoScan, Types
  <2>3. backend = "memory" => \A t \in Scan : scan'[t] # Idle => ScanHolds(scan[t])'
    BY <2>1, <2>2 DEF ScanHolds
  <2>4. \A p \in Proposal : /\ None(p, "tallied")' <=> None(p, "tallied")
                            /\ None(p, "law")' <=> None(p, "law")
                            /\ AtMostOne(p, "tallied")' <=> AtMostOne(p, "tallied")
                            /\ AtMostOne(p, "law")' <=> AtMostOne(p, "law")
    BY <1>1 DEF SameEnds, None, AtMostOne
  <2> QED BY <2>3, <2>4 DEF Tallies
<1> QED BY <1>3, <1>4, <1>5

LEMMA ScanStarts ==
    ASSUME Types, Ballots, Alone, ScansSound, Tallies, NEW s \in Scan, TickClosed(s)
    PROVE  Ballots' /\ ScansSound' /\ Tallies'
<1> DEFINE due == {p \in Proposal : Due(p, tick')}
<1>1. MayStart /\ UNCHANGED <<backend, ballots, handler, log>>
      /\ \A p \in Proposal : (Opened(p)' <=> Opened(p)) /\ (IsOpen(p)' <=> IsOpen(p))
  BY DEF TickClosed, Opened, IsOpen
<1>2. PICK r : r = IF due = {} THEN Idle ELSE [pc |-> "reveals", todo |-> due]   OBVIOUS
<1>3. GotoScan(s, r)   BY <1>2 DEF TickClosed
<1>4. r # Idle => r.pc = "reveals" /\ r.todo = due   BY <1>2
<1>5. due \subseteq Proposal /\ \A p \in due : IsOpen(p) /\ Opened(p)
  BY OpenIsOpened DEF Due
<1> HIDE DEF due
<1>6. r # Idle => ScanHolds(r)'   BY <1>1, <1>4, <1>5 DEF ScanHolds
<1> QED BY <1>1, <1>3, <1>4, <1>5, <1>6, ScanMoves

LEMMA ScanCounts ==
    ASSUME Types, Ballots, Alone, ScansSound, Tallies, NEW s \in Scan,
           (\E p \in Proposal : ReadReveals(s, p)) \/ CountBallots(s) \/ UpdateTallied(s)
    PROVE  Ballots' /\ ScansSound' /\ Tallies'
<1> DEFINE c == scan[s]
<1>1. UNCHANGED <<backend, ballots, handler, log>>
  BY DEF ReadReveals, CountBallots, UpdateTallied
<1>2. CASE \E p \in Proposal : ReadReveals(s, p)
  <2>1. PICK p \in Proposal : ReadReveals(s, p)   BY <1>2
  <2>2. PICK r : r = [pc |-> "count", todo |-> c.todo, p |-> p,
                      choices |-> [v \in Revealed(p) |-> ballots[p][v].choice]]
    OBVIOUS
  <2>3. /\ GotoScan(s, r) /\ p \in c.todo /\ c.pc = "reveals" /\ proposals' = proposals
        /\ r.pc = "count" /\ r.todo = c.todo /\ r.p = p
    BY <2>1, <2>2 DEF ReadReveals
  <2>4. c # Idle /\ c.todo \in SUBSET Proposal   BY <2>3, AtScan, StateFacts DEF Scanning
  <2>5. \A q \in Proposal : (Opened(q)' <=> Opened(q)) /\ (IsOpen(q)' <=> IsOpen(q))
    BY <2>3 DEF Opened, IsOpen
  <2>6. \A q \in c.todo : Opened(q) /\ (backend = "memory" => IsOpen(q))
    BY <2>3, <2>4 DEF ScansSound, Tallies, ScanHolds
  <2> HIDE DEF c
  <2>7. backend = "memory" => ScanHolds(r)'   BY <2>3, <2>4, <2>5, <2>6 DEF ScanHolds
  <2> QED BY <1>1, <2>3, <2>4, <2>5, <2>6, <2>7, ScanMoves DEF c
<1>3. CASE CountBallots(s)
  <2>1. PICK r : r = [pc |-> "update", todo |-> c.todo, p |-> c.p, result |-> Counted(s)]
    OBVIOUS
  <2>2. /\ GotoScan(s, r) /\ c.pc = "count" /\ proposals' = proposals
        /\ r.pc = "update" /\ r.todo = c.todo /\ r.p = c.p
    BY <1>3, <2>1 DEF CountBallots
  <2>3. c # Idle /\ c.todo \in SUBSET Proposal   BY <2>2, AtScan, StateFacts DEF Scanning
  <2>4. \A q \in Proposal : (Opened(q)' <=> Opened(q)) /\ (IsOpen(q)' <=> IsOpen(q))
    BY <2>2 DEF Opened, IsOpen
  <2>5. c.p \in c.todo /\ \A q \in c.todo : Opened(q) /\ (backend = "memory" => IsOpen(q))
    BY <2>2, <2>3 DEF ScansSound, Tallies, ScanHolds
  <2> HIDE DEF c
  <2>6. backend = "memory" => ScanHolds(r)'   BY <2>2, <2>3, <2>4, <2>5 DEF ScanHolds
  <2> QED BY <1>1, <2>2, <2>3, <2>4, <2>5, <2>6, ScanMoves DEF c
<1>4. CASE UpdateTallied(s)
  <2>1. c \in Ending /\ c.pc = "update"   BY <1>4, AtScan DEF UpdateTallied
  <2>2. PICK p \in Proposal : p = c.p   BY <2>1, StateFacts
  <2>3. PICK r : r = [c EXCEPT !.pc = "emit"]   OBVIOUS
  <2>4. GotoScan(s, r) /\ r.pc = "emit" /\ r.todo = c.todo /\ r.p = p
    BY <1>4, <2>1, <2>2, <2>3 DEF UpdateTallied, Ending
  <2>5. c # Idle /\ c.todo \in SUBSET Proposal   BY <2>1, StateFacts DEF Scanning
  <2>6. p \in c.todo /\ \A q \in c.todo : Opened(q) /\ (backend = "memory" => IsOpen(q))
    BY <2>1, <2>2, <2>5 DEF ScansSound, Tallies, ScanHolds
  <2>7. /\ \A q \in Proposal : q # p => proposals'[q] = proposals[q]
        /\ proposals'[p] = [proposals[p] EXCEPT !.status = "tallied",
                                                !.outcome = c.result.outcome]
    BY <1>4, <2>2 DEF UpdateTallied, Types
  <2>8. proposals[p] \in Row   BY <2>6 DEF Opened, Types
  <2>9. proposals'[p] \in Row   BY <2>1, <2>7, <2>8, UpdatedRow
  <2>10. proposals'[p].status = "tallied"   BY <2>7, <2>8 DEF Row
  <2> HIDE DEF c
  <2>11. Opened(p) /\ Opened(p)' /\ ~IsOpen(p)'
    BY <2>6, <2>9, <2>10, NoProposalFacts DEF Opened, IsOpen
  <2>12. \A q \in Proposal : /\ Opened(q)' <=> Opened(q)
                             /\ IsOpen(q)' => IsOpen(q)
                             /\ q # p => (IsOpen(q)' <=> IsOpen(q))
    <3>1. ASSUME NEW q \in Proposal, q # p
          PROVE  (Opened(q)' <=> Opened(q)) /\ (IsOpen(q)' <=> IsOpen(q))
      BY <2>7, <3>1 DEF Opened, IsOpen
    <3> QED BY <2>11, <3>1
  <2>13. backend = "memory" => ScanHolds(r)'
    <3>1. backend = "memory" => None(p, "tallied")   BY <2>6 DEF Tallies
    <3>2. None(p, "tallied")' <=> None(p, "tallied")   BY <1>1 DEF None, Positions
    <3>3. backend = "memory" => \A q \in r.todo : IsOpen(q)' \/ q = p
      BY <2>4, <2>5, <2>6, <2>12
    <3> QED BY <2>4, <2>11, <3>1, <3>2, <3>3 DEF ScanHolds
  <2> QED BY <1>1, <2>4, <2>5, <2>6, <2>12, <2>13, ScanMoves DEF c
<1> QED BY <1>2, <1>3, <1>4

\* The events of a tally at the end of the log of one proposal.
TallyOf(result) == [kind |-> "tallied", result |-> result]
Law == [kind |-> "law"]
Announces(p, result) ==
    \/ log' = [log EXCEPT ![p] = log[p] \o <<TallyOf(result)>>]
    \/ log' = [log EXCEPT ![p] = log[p] \o <<TallyOf(result), Law>>]

LEMMA AnnounceFacts ==
    ASSUME Types, NEW p \in Proposal, NEW result, Announces(p, result)
    PROVE  /\ SameVotes
           /\ \A q \in Proposal : q # p =>
                 Positions(q, "tallied")' = Positions(q, "tallied")
                 /\ Positions(q, "law")' = Positions(q, "law")
           /\ Positions(p, "tallied")' = Positions(p, "tallied") \cup {Len(log[p]) + 1}
           /\ Positions(p, "law")' \in
                 {Positions(p, "law"), Positions(p, "law") \cup {Len(log[p]) + 2}}
<1>1. log[p] \in Seq(LogEvent)   BY DEF Types
<1>2. PICK e, f, n : e = TallyOf(result) /\ f = Law /\ n = Len(log[p])   OBVIOUS
<1>3. e.kind = "tallied" /\ f.kind = "law"   BY <1>2 DEF TallyOf, Law
<1>4. /\ n \in Nat /\ DOMAIN log[p] = 1..n
      /\ \A q \in Proposal : q # p => log'[q] = log[q]
  BY <1>1, <1>2 DEF Announces, Types
<1>5. log'[p] = log[p] \o <<e>> \/ log'[p] = log[p] \o <<e, f>>
  BY <1>2 DEF Announces, Types
<1>6. /\ \A i \in 1..n : log'[p][i] = log[p][i]
      /\ \/ DOMAIN log'[p] = 1..(n + 1) /\ log'[p][n + 1] = e
         \/ DOMAIN log'[p] = 1..(n + 2) /\ log'[p][n + 1] = e /\ log'[p][n + 2] = f
  <2>1. <<e>> \in Seq({e, f}) /\ <<e, f>> \in Seq({e, f})   OBVIOUS
  <2>2. CASE log'[p] = log[p] \o <<e>>   BY <1>1, <1>2, <2>2
  <2>3. CASE log'[p] = log[p] \o <<e, f>>   BY <1>1, <1>2, <2>3
  <2> QED BY <1>5, <2>2, <2>3
<1>7. ASSUME NEW q \in Proposal, NEW kind, q # p
      PROVE  Positions(q, kind)' = Positions(q, kind)
  BY <1>4, <1>7 DEF Positions
<1>8. DOMAIN log'[p] = DOMAIN log[p] \cup {n + 1}
      \/ DOMAIN log'[p] = DOMAIN log[p] \cup {n + 1, n + 2}
  BY <1>4, <1>6
<1>9. ASSUME NEW kind \in {"committed", "revealed"}
      PROVE  /\ Positions(p, kind)' = Positions(p, kind)
             /\ \A i \in Positions(p, kind) : log'[p][i] = log[p][i]
  <2>1. \A i \in DOMAIN log[p] : log'[p][i] = log[p][i]   BY <1>4, <1>6
  <2>2. \A i \in DOMAIN log'[p] : i \notin DOMAIN log[p] => log'[p][i].kind # kind
    BY <1>3, <1>4, <1>6
  <2>3. DOMAIN log[p] \subseteq DOMAIN log'[p]   BY <1>8
  <2> QED BY <2>1, <2>2, <2>3 DEF Positions
<1>10. SameVotes
  <2> SUFFICES ASSUME NEW q \in Proposal, NEW kind \in {"committed", "revealed"}
               PROVE  /\ Positions(q, kind)' = Positions(q, kind)
                      /\ \A i \in Positions(q, kind) : log'[q][i] = log[q][i]
    BY DEF SameVotes
  <2>1. CASE q = p   BY <1>9, <2>1
  <2>2. CASE q # p   BY <1>4, <1>7, <2>2
  <2> QED BY <2>1, <2>2
<1>11. Positions(p, "tallied")' = Positions(p, "tallied") \cup {n + 1}
  BY <1>3, <1>4, <1>6, <1>8 DEF Positions
<1>12. Positions(p, "law")' \in {Positions(p, "law"), Positions(p, "law") \cup {n + 2}}
  <2>1. CASE DOMAIN log'[p] = 1..(n + 1) /\ log'[p][n + 1] = e
    BY <1>3, <1>4, <1>6, <2>1 DEF Positions
  <2>2. CASE DOMAIN log'[p] = 1..(n + 2) /\ log'[p][n + 1] = e /\ log'[p][n + 2] = f
    <3>1. Positions(p, "law")' = Positions(p, "law") \cup {n + 2}
      BY <1>3, <1>4, <1>6, <2>2 DEF Positions
    <3> QED BY <3>1
  <2> QED BY <1>6, <2>1, <2>2
<1> QED BY <1>2, <1>7, <1>10, <1>11, <1>12

\* After the announcement of a proposal that had none, each is still alone.
LEMMA TalliesAnnounced ==
    ASSUME Types, Tallies, backend = "memory", NEW p \in Proposal, None(p, "tallied"),
           NEW result, Announces(p, result)
    PROVE  \A q \in Proposal :
              /\ AtMostOne(q, "tallied")' /\ AtMostOne(q, "law")'
              /\ None(q, "tallied")' => None(q, "law")'
              /\ q # p => (None(q, "tallied")' <=> None(q, "tallied"))
<1>1. None(p, "law")   BY DEF Tallies
<1>2. Positions(p, "tallied")' = {Len(log[p]) + 1}
  BY AnnounceFacts DEF None
<1>3. Positions(p, "law")' = {} \/ Positions(p, "law")' = {Len(log[p]) + 2}
  BY <1>1, AnnounceFacts DEF None
<1>4. ASSUME NEW q \in Proposal, q # p
      PROVE  /\ AtMostOne(q, "tallied")' /\ AtMostOne(q, "law")'
             /\ None(q, "tallied")' => None(q, "law")'
             /\ None(q, "tallied")' <=> None(q, "tallied")
  <2>1. /\ Positions(q, "tallied")' = Positions(q, "tallied")
        /\ Positions(q, "law")' = Positions(q, "law")
    BY <1>4, AnnounceFacts
  <2>2. AtMostOne(q, "tallied") /\ AtMostOne(q, "law") /\ (None(q, "tallied") => None(q, "law"))
    BY DEF Tallies
  <2> QED BY <2>1, <2>2 DEF AtMostOne, None
<1>5. AtMostOne(p, "tallied")' /\ AtMostOne(p, "law")' /\ ~None(p, "tallied")'
  BY <1>2, <1>3 DEF AtMostOne, None
<1> QED BY <1>4, <1>5

LEMMA ScanAnnounces ==
    ASSUME Types, Ballots, Alone, ScansSound, Tallies, NEW s \in Scan, EmitTallied(s)
    PROVE  Ballots' /\ ScansSound' /\ Tallies'
<1> DEFINE c == scan[s]
           rest == c.todo \ {c.p}
<1>1. c \in Ending /\ c.pc = "emit"   BY AtScan DEF EmitTallied
<1>2. c # Idle /\ c.todo \in SUBSET Proposal /\ c.p \in Proposal
  BY <1>1, StateFacts DEF Scanning
<1>3. PICK p \in Proposal : p = c.p   BY <1>2
<1>4. UNCHANGED <<backend, proposals, ballots, handler>> /\ Announces(p, c.result)
  BY <1>3 DEF EmitTallied, Announces, TallyOf, Law
<1>5. PICK r : r = IF rest = {} THEN Idle ELSE [pc |-> "reveals", todo |-> rest]   OBVIOUS
<1>6. GotoScan(s, r)   BY <1>5 DEF EmitTallied
<1>7. r # Idle => r.pc = "reveals" /\ r.todo = rest   BY <1>5
<1>8. /\ scan'[s] = r /\ \A t \in Scan : t # s => scan'[t] = scan[t]
      /\ \A t \in Scan : backend = "memory" /\ t # s => scan'[t] = Idle
  BY <1>2, <1>6 DEF GotoScan, Types, Alone
<1>9. \A q \in Proposal : (Opened(q)' <=> Opened(q)) /\ (IsOpen(q)' <=> IsOpen(q))
  BY <1>4 DEF Opened, IsOpen
<1>10. rest \subseteq Proposal /\ \A q \in rest : q # p /\ Opened(q)
                               /\ (backend = "memory" => IsOpen(q))
  BY <1>1, <1>2, <1>3 DEF ScansSound, Tallies, ScanHolds
<1>11. backend = "memory" => None(p, "tallied") /\ ~IsOpen(p)'
  <2> SUFFICES ASSUME backend = "memory" PROVE None(p, "tallied") /\ ~IsOpen(p)'
    OBVIOUS
  <2> QED BY <1>1, <1>2, <1>3, <1>9 DEF Tallies, ScanHolds
<1> HIDE DEF c, rest
<1>12. Ballots'
  <2>1. SameVotes   BY <1>4, AnnounceFacts
  <2>2. SameCommits /\ \A h \in Handler, q \in Proposal, did \in Did :
            Emitting(h, q, did)' <=> Emitting(h, q, did)
    BY <1>4 DEF SameCommits, Voters, Emitting
  <2>3. RequestsBacked'
    BY <1>4 DEF Ballots, RequestsBacked, Backed, Opened, Voters
  <2> QED BY <1>4, <1>9, <2>1, <2>2, <2>3, QuietStep
<1>13. ScansSound'
  <2>1. \A t \in Scan : scan[t] # Idle => scan[t].todo \in SUBSET Proposal
    BY StateFacts DEF Types
  <2> QED BY <1>7, <1>8, <1>9, <1>10, <2>1 DEF ScansSound
<1>14. Tallies'
  <2>1. SUFFICES ASSUME backend = "memory" PROVE Tallies'
    BY <1>4 DEF Tallies
  <2>2. \A q \in Proposal :
            /\ AtMostOne(q, "tallied")' /\ AtMostOne(q, "law")'
            /\ None(q, "tallied")' => None(q, "law")'
            /\ q # p => (None(q, "tallied")' <=> None(q, "tallied"))
    BY <1>4, <1>11, <2>1, TalliesAnnounced
  <2>3. \A q \in Proposal : IsOpen(q)' => None(q, "tallied")'
    BY <1>9, <1>11, <2>1, <2>2 DEF Tallies
  <2>4. r # Idle => ScanHolds(r)'   BY <1>7, <1>9, <1>10, <2>1 DEF ScanHolds
  <2>5. \A t \in Scan : scan'[t] # Idle => ScanHolds(scan[t])'
    BY <1>8, <2>1, <2>4 DEF ScanHolds
  <2> QED BY <2>2, <2>3, <2>5 DEF Tallies
<1> QED BY <1>12, <1>13, <1>14

\* A crash: nothing is in progress afterwards, and in memory no table is left.
LEMMA ScanThrows ==
    ASSUME Types, Ballots, Alone, ScansSound, Tallies, NEW s \in Scan, EmitTalliedThrows(s)
    PROVE  Ballots' /\ ScansSound' /\ Tallies' /\ Alone'
<1> DEFINE c == scan[s]
<1>1. c \in Ending /\ c.pc = "emit"   BY AtScan DEF EmitTalliedThrows
<1>2. c # Idle /\ c.p \in Proposal   BY <1>1, StateFacts DEF Scanning
<1>3. PICK p \in Proposal : p = c.p   BY <1>2
<1>4. Announces(p, c.result)
  <2>1. log[p] \in Seq(LogEvent)   BY DEF Types
  <2>2. log' = [log EXCEPT ![p] = Append(log[p], TallyOf(c.result))]
    BY <1>3 DEF EmitTalliedThrows, Emit, TallyOf
  <2>3. Append(log[p], TallyOf(c.result)) = log[p] \o <<TallyOf(c.result)>>   BY <2>1
  <2> QED BY <2>2, <2>3 DEF Announces
<1>5. /\ backend' = backend
      /\ \A h \in Handler : handler'[h] = Idle
      /\ \A t \in Scan : scan'[t] = Idle
  BY DEF EmitTalliedThrows
<1>6. \A h \in Handler, q \in Proposal, did \in Did : ~Emitting(h, q, did)'
  BY <1>5, StateFacts DEF Emitting
<1>7. RequestsBacked' /\ EmittedOnce' /\ ScansSound' /\ Alone'
  BY <1>5, <1>6 DEF RequestsBacked, EmittedOnce, ScansSound, Alone
<1>8. SameVotes   BY <1>4, AnnounceFacts
<1>9. OneBallotPerVoter'   BY <1>8 DEF SameVotes, Ballots, OneBallotPerVoter
<1>10. RevealsFollow'
  <2> SUFFICES ASSUME backend = "memory", NEW q \in Proposal, NEW i \in Positions(q, "revealed")
               PROVE  log'[q][i].did \in VotersIn(q, "committed", i)'
    BY <1>5, <1>8 DEF RevealsFollow, SameVotes
  <2>1. log[q][i].did \in VotersIn(q, "committed", i)   BY DEF Ballots, RevealsFollow
  <2>2. VotersIn(q, "committed", i)' = VotersIn(q, "committed", i)
    BY <1>8 DEF SameVotes, VotersIn
  <2> QED BY <1>8, <2>1, <2>2 DEF SameVotes
<1>11. CASE backend = "memory"
  <2>1. \A q \in Proposal : proposals'[q] = NoProposal /\ ballots'[q] = << >>
    BY <1>11 DEF EmitTalliedThrows
  <2>2. \A q \in Proposal : ~Opened(q)' /\ ~IsOpen(q)' /\ Voters(q)' = {}
    BY <2>1, NoProposalFacts DEF Opened, IsOpen, Voters
  <2>3. EventsAgree' /\ VotersHaveProposal' /\ BallotsAreLogged'
    BY <2>2 DEF EventsAgree, VotersHaveProposal, BallotsAreLogged
  <2>4. None(p, "tallied")
    BY <1>1, <1>2, <1>3, <1>11 DEF Tallies, ScanHolds
  <2>5. \A q \in Proposal :
            /\ AtMostOne(q, "tallied")' /\ AtMostOne(q, "law")'
            /\ None(q, "tallied")' => None(q, "law")'
    BY <1>4, <1>11, <2>4, TalliesAnnounced
  <2>6. Tallies'   BY <1>5, <2>2, <2>5 DEF Tallies
  <2> QED BY <1>7, <1>9, <1>10, <2>3, <2>6 DEF Ballots
<1>12. CASE backend # "memory"
  <2>1. proposals' = proposals /\ ballots' = ballots   BY <1>12 DEF EmitTalliedThrows
  <2>2. EventsAgree' /\ VotersHaveProposal'
    <3>1. ASSUME NEW q \in Proposal, Opened(q),
                 NEW i \in (Positions(q, "committed") \cup Positions(q, "revealed"))
          PROVE  AgreesWithBallot(q, log[q][i])'
      <4>1. AgreesWithBallot(q, log[q][i]) /\ log'[q][i] = log[q][i]
        BY <3>1, <1>8 DEF Ballots, EventsAgree, SameVotes
      <4> QED BY <4>1, <2>1 DEF AgreesWithBallot, Voters
    <3>2. EventsAgree'   BY <3>1, <2>1, <1>8 DEF EventsAgree, Opened, SameVotes
    <3> QED BY <3>2, <2>1 DEF Ballots, VotersHaveProposal, Voters, Opened
  <2>3. BallotsAreLogged' /\ Tallies'   BY <1>5, <1>12 DEF BallotsAreLogged, Tallies
  <2> QED BY <1>7, <1>9, <1>10, <2>2, <2>3 DEF Ballots
<1> QED BY <1>11, <1>12

-----------------------------------------------------------------------------
(* The invariant, and what it says of every run. *)

IInv == Types /\ Alone /\ ScansSound /\ Ballots /\ Tallies

LEMMA Unmoved ==
    ASSUME IInv, UNCHANGED <<backend, proposals, ballots, handler, scan, log>>
    PROVE  Alone' /\ ScansSound' /\ Ballots' /\ Tallies'
<1>1. Alone' /\ ScansSound'   BY DEF IInv, Alone, ScansSound, Opened
<1>2. SameVotes /\ SameCommits
      /\ \A h \in Handler, p \in Proposal, did \in Did :
             Emitting(h, p, did)' <=> Emitting(h, p, did)
  BY DEF SameVotes, SameCommits, Positions, Voters, Emitting
<1>3. RequestsBacked'   BY DEF IInv, Ballots, RequestsBacked, Backed, Opened, Voters
<1>4. Ballots'   BY <1>2, <1>3, QuietStep DEF IInv, Opened
<1>5. Tallies'   BY DEF IInv, Tallies, ScanHolds, AtMostOne, None, Positions, IsOpen
<1> QED BY <1>1, <1>4, <1>5

\* What the run needs besides Types: by actions.
LEMMA Step ==
    ASSUME IInv, [Next]_vars PROVE IInv'
<1>1. Types'   BY TypesStep DEF IInv
<1>2. Alone'   BY AloneStep DEF IInv
<1>3. ASSUME NEW h \in Handler, Request(h) \/ Continue(h)
      PROVE  ScansSound' /\ Ballots' /\ Tallies'
  <2>1. ScansSound' /\ Tallies'   BY <1>3, TalliesRequest DEF IInv
  <2>2. Ballots'
    BY <1>3, BallotsRequest, BallotsOpenEmit, BallotsCommitExists, BallotsCommitInsert,
       BallotsCommitEmit, BallotsRevealUpdate, BallotsRevealEmit DEF IInv, Continue
  <2> QED BY <2>1, <2>2
<1>4. ASSUME NEW s \in Scan, TickClosed(s) \/ Tallying(s)
      PROVE  ScansSound' /\ Ballots' /\ Tallies'
  BY <1>4, ScanStarts, ScanCounts, ScanAnnounces, ScanThrows DEF IInv, Tallying
<1>5. ASSUME NEW did \in Registered, Delete(did)
      PROVE  ScansSound' /\ Ballots' /\ Tallies'
  BY <1>5, Unmoved DEF Delete
<1>6. CASE UNCHANGED vars   BY <1>1, <1>6, Unmoved DEF vars, IInv
<1>7. CASE Next   BY <1>1, <1>2, <1>3, <1>4, <1>5, <1>7, Zenon DEF Next, IInv
<1> QED BY <1>1, <1>2, <1>6, <1>7 DEF IInv

\* Every state a run of the voting engine reaches satisfies the invariant.
THEOREM Invariance == Spec => []IInv
<1>1. Init => IInv   BY TypesInit, InitBallots, InitTallies DEF IInv
<1>2. IInv /\ [Next]_vars => IInv'   BY Step
<1> QED BY <1>1, <1>2, PTL DEF Spec

\* The type invariant of Governance: rows, ballots and events are of their
\* types, and a ballot is never filed under a proposal that does not exist.
THEOREM TypeCorrect == Spec => []TypeOK
<1>1. ASSUME IInv PROVE TypeOK
  <2>1. backend \in Backend /\ tick \in 0..MaxTick /\ deleted \subseteq Registered
    BY <1>1 DEF IInv, Types, Scalars
  <2>2. ASSUME NEW p \in Proposal
        PROVE  /\ proposals[p] = NoProposal \/
                  /\ proposals[p].status \in {"open", "tallied"}
                  /\ proposals[p].terms \in Terms
               /\ Voters(p) \subseteq Did
               /\ \A v \in Voters(p) :
                     ballots[p][v] \in [commit : Hash, choice : Choice \cup {"hidden"}]
               /\ ballots[p] # << >> => proposals[p] # NoProposal
               /\ \A i \in DOMAIN log[p] : log[p][i] \in LogEvent
    <3>1. proposals[p] \in Row \cup {NoProposal}   BY <1>1 DEF IInv, Types
    <3>2. ballots[p] \in Table   BY <1>1 DEF IInv, Types
    <3>3. /\ Voters(p) \subseteq Did /\ \A v \in Voters(p) : ballots[p][v] \in Ballot
          /\ ballots[p] = [v \in Voters(p) |-> ballots[p][v]]
      BY <3>2, TableFacts DEF Voters
    <3>4. ballots[p] # << >> => Voters(p) # {}
      <4>1. << >> = [v \in {} |-> ballots[p][v]]   OBVIOUS
      <4> QED BY <3>3, <4>1
    <3>5. Voters(p) # {} => proposals[p] # NoProposal
      BY <1>1 DEF IInv, Ballots, VotersHaveProposal, Opened
    <3>6. \A i \in DOMAIN log[p] : log[p][i] \in LogEvent
      <4>1. log[p] \in Seq(LogEvent)   BY <1>1 DEF IInv, Types
      <4> QED BY <4>1
    <3> QED BY <3>1, <3>3, <3>4, <3>5, <3>6 DEF Row, Ballot
  <2> QED BY <2>1, <2>2 DEF TypeOK
<1> QED BY <1>1, Invariance, PTL

\* One Nous, one ballot, on either store and for any number of concurrent
\* requests: the separate calls of ballotExists and the insert never let two
\* commits of a voter into the audit chain.
THEOREM OneBallot == Spec => []OneBallotPerVoter
<1>1. IInv => OneBallotPerVoter   BY DEF IInv, Ballots
<1> QED BY <1>1, Invariance, PTL

\* A vote cannot be changed, and a reveal in the audit chain opens the commit
\* its voter made; in memory it also comes after it.
THEOREM RevealOpens == Spec => []RevealOpensCommit
<1>1. IInv => RevealOpensCommit
  BY DEF IInv, Ballots, EventsAgree, RevealsFollow, RevealOpensCommit, Opened
<1> QED BY <1>1, Invariance, PTL

\* A set whose elements are all the same has at most one.
LEMMA AtMostOneCardinality ==
    ASSUME NEW S, \A i, j \in S : i = j PROVE Cardinality(S) <= 1
<1>1. CASE S = {}   BY <1>1, FS_EmptySet
<1>2. CASE S # {}
  <2>1. PICK i : i \in S   BY <1>2
  <2>2. S = {i}   BY <2>1
  <2>3. Cardinality({i}) = 1   BY FS_Singleton
  <2> QED BY <2>2, <2>3
<1> QED BY <1>1, <1>2

\* With the in-memory store no proposal is tallied twice and no law enacted
\* twice, however many scans the clock has started.
THEOREM Tallied == Spec => []TalliedOnce
<1>1. IInv => TalliedOnce
  BY AtMostOneCardinality DEF IInv, Tallies, AtMostOne, TalliedOnce
<1> QED BY <1>1, Invariance, PTL

-----------------------------------------------------------------------------
(* What a tally says. *)

\* The result r of proposal p is what the first n - 1 events of its log give.
Right(p, r, n) ==
    /\ r.yes = RevealedAs(p, "yes", n) /\ r.no = RevealedAs(p, "no", n)
    /\ r.abstain = RevealedAs(p, "abstain", n)
    /\ Opened(p) => Ruled(proposals[p].terms, r, Cardinality(VotersIn(p, "committed", n)))

ShownAs(p, v, c) == \E i \in Positions(p, "revealed") : log[p][i].did = v /\ log[p][i].choice = c
Showing(h, p, v, c) ==
    /\ handler[h].pc = "reveal.emit" /\ handler[h].p = p /\ handler[h].did = v
    /\ handler[h].choice = c
ShowingAs(p, v, c) == \E h \in Handler : Showing(h, p, v, c)

\* In memory a choice in the table is the committed one, and is in the log or
\* about to be; and what is in the log, or about to be, is in the table.
ChoiceShown(p, v) ==
    LET b == ballots[p][v]
    IN  /\ b.choice # "hidden" => /\ b.commit = [choice |-> b.choice, voter |-> v]
                                  /\ ShownAs(p, v, b.choice) \/ ShowingAs(p, v, b.choice)
        /\ \A c \in Choice : ShownAs(p, v, c) \/ ShowingAs(p, v, c) => b.choice = c
ChoicesShown ==
    backend = "memory" => \A p \in Proposal : \A v \in Voters(p) : ChoiceShown(p, v)

\* In memory the scan works on what the log shows.
ScanCounted(r) ==
    /\ r.pc = "count" => r.choices = [v \in Revealed(r.p) |-> ballots[r.p][v].choice]
    /\ r.pc \in {"update", "emit"} => Right(r.p, r.result, Len(log[r.p]) + 1)
ScansCounted == backend = "memory" => \A s \in Scan : ScanCounted(scan[s])

TalliesRight ==
    backend = "memory" =>
        \A p \in Proposal : \A n \in Positions(p, "tallied") : Right(p, log[p][n].result, n)

SomeoneRegistered == \A p \in Proposal : Opened(p) => Registered # {}

Counts == ChoicesShown /\ ScansCounted /\ TalliesRight /\ SomeoneRegistered

-----------------------------------------------------------------------------
(* The log only grows. *)

Extends(p) ==
    /\ Len(log[p]) \in Nat /\ DOMAIN log[p] = 1..Len(log[p])
    /\ Len(log'[p]) \in Nat /\ DOMAIN log'[p] = 1..Len(log'[p])
    /\ Len(log[p]) <= Len(log'[p])
    /\ \A i \in 1..Len(log[p]) : log'[p][i] = log[p][i]
SameTerms(p) == Opened(p)' => Opened(p) /\ proposals'[p].terms = proposals[p].terms

LEMMA AppendedTo ==
    ASSUME Types, Types', NEW p \in Proposal, NEW t \in Seq(LogEvent),
           log' = [log EXCEPT ![p] = log[p] \o t]
    PROVE  \A q \in Proposal : Extends(q)
<1>1. ASSUME NEW q \in Proposal
      PROVE  log[q] \in Seq(LogEvent) /\ log'[q] \in Seq(LogEvent)
  BY DEF Types
<1>2. ASSUME NEW q \in Proposal, q # p PROVE Extends(q)
  <2>1. log'[q] = log[q]   BY <1>2 DEF Types
  <2> QED BY <1>1, <2>1 DEF Extends
<1>3. Extends(p)
  <2>1. log'[p] = log[p] \o t   BY DEF Types
  <2> QED BY <1>1, <2>1 DEF Extends
<1> QED BY <1>2, <1>3

LEMMA EmittedTo ==
    ASSUME Types, Types', NEW p \in Proposal, NEW e, Emit(p, e)
    PROVE  \A q \in Proposal : Extends(q)
<1>1. ASSUME NEW q \in Proposal
      PROVE  log[q] \in Seq(LogEvent) /\ log'[q] \in Seq(LogEvent)
  BY DEF Types
<1>2. ASSUME NEW q \in Proposal, q # p PROVE Extends(q)
  <2>1. log'[q] = log[q]   BY <1>2 DEF Types, Emit
  <2> QED BY <1>1, <2>1 DEF Extends
<1>3. Extends(p)
  <2>1. log'[p] = Append(log[p], e)   BY DEF Types, Emit
  <2> QED BY <1>1, <2>1 DEF Extends
<1> QED BY <1>2, <1>3

LEMMA UnmovedExtends ==
    ASSUME Types, log' = log PROVE \A p \in Proposal : Extends(p)
<1> SUFFICES ASSUME NEW p \in Proposal PROVE Extends(p)
  OBVIOUS
<1>1. log[p] \in Seq(LogEvent)   BY DEF Types
<1> QED BY <1>1 DEF Extends

\* What the first events of the log say stays what it is.
LEMMA EarlierEvents ==
    ASSUME NEW p \in Proposal, Extends(p), NEW n \in 1..(Len(log[p]) + 1), NEW kind
    PROVE  /\ {j \in Positions(p, kind)' : j < n} = {j \in Positions(p, kind) : j < n}
           /\ \A j \in Positions(p, kind) : j \in Positions(p, kind)' /\ log'[p][j] = log[p][j]
<1>1. \A j \in 1..Len(log[p]) : j \in 1..Len(log'[p]) /\ log'[p][j] = log[p][j]
  BY DEF Extends
<1>2. \A j \in DOMAIN log'[p] : j < n => j \in 1..Len(log[p])   BY DEF Extends
<1> QED BY <1>1, <1>2 DEF Extends, Positions

LEMMA RightKept ==
    ASSUME NEW p \in Proposal, Extends(p), SameTerms(p), NEW n \in 1..(Len(log[p]) + 1),
           NEW r, Right(p, r, n)
    PROVE  Right(p, r, n)'
<1>1. ASSUME NEW c PROVE RevealedAs(p, c, n)' = RevealedAs(p, c, n)
  <2> DEFINE P == {j \in Positions(p, "revealed") : j < n /\ log[p][j].choice = c}
             Q == {j \in Positions(p, "revealed")' : j < n /\ log'[p][j].choice = c}
  <2>1. Q = P /\ \A j \in P : log'[p][j] = log[p][j]   BY EarlierEvents
  <2>2. {log'[p][i].did : i \in Q} = {log[p][i].did : i \in P}   BY <2>1
  <2> QED BY <2>2 DEF RevealedAs
<1>2. VotersIn(p, "committed", n)' = VotersIn(p, "committed", n)
  <2> DEFINE P == {j \in Positions(p, "committed") : j < n}
             Q == {j \in Positions(p, "committed")' : j < n}
  <2>1. Q = P /\ \A j \in P : log'[p][j] = log[p][j]   BY EarlierEvents
  <2>2. {log'[p][i].did : i \in Q} = {log[p][i].did : i \in P}   BY <2>1
  <2> QED BY <2>2 DEF VotersIn
<1> QED BY <1>1, <1>2 DEF Right, SameTerms

\* The tallies in the log stay right, if those that are new are.
LEMMA TalliesStayRight ==
    ASSUME Types, TalliesRight, backend' = backend,
           \A p \in Proposal : Extends(p),
           \A p \in Proposal : SameTerms(p) \/ Positions(p, "tallied") = {},
           \A p \in Proposal : \A n \in Positions(p, "tallied")' \ Positions(p, "tallied") :
               backend = "memory" => Right(p, log[p][n].result, n)'
    PROVE  TalliesRight'
<1> SUFFICES ASSUME backend = "memory", NEW p \in Proposal, NEW n \in Positions(p, "tallied")',
                    n \in Positions(p, "tallied")
             PROVE  Right(p, log[p][n].result, n)'
  BY DEF TalliesRight
<1>1. n \in 1..(Len(log[p]) + 1) /\ Extends(p) /\ SameTerms(p)
  BY DEF Extends, Positions
<1>2. log'[p][n] = log[p][n]   BY <1>1, EarlierEvents
<1>3. PICK r : r = log[p][n].result   OBVIOUS
<1>4. Right(p, r, n)   BY <1>3 DEF TalliesRight
<1>5. Right(p, r, n)'   BY <1>1, <1>4, RightKept
<1> QED BY <1>2, <1>3, <1>5

LEMMA ShownKept ==
    ASSUME NEW p \in Proposal, Extends(p), NEW v, NEW c, ShownAs(p, v, c)
    PROVE  ShownAs(p, v, c)'
<1>1. PICK i \in Positions(p, "revealed") : log[p][i].did = v /\ log[p][i].choice = c
  BY DEF ShownAs
<1>2. 1 \in 1..(Len(log[p]) + 1)   BY DEF Extends
<1>3. i \in Positions(p, "revealed")' /\ log'[p][i] = log[p][i]   BY <1>2, EarlierEvents
<1> QED BY <1>1, <1>3 DEF ShownAs

-----------------------------------------------------------------------------
(* The arithmetic of the rule. *)

LEMMA QuorumRounded ==
    ASSUME NEW m \in Nat, NEW t \in Nat
    PROVE  (t >= (m + 99) \div 100) <=> (100 * t >= m)
OBVIOUS

LEMMA MajorityNeedsYes ==
    ASSUME NEW super \in 1..100, NEW yes \in Nat, NEW no \in Nat
    PROVE  yes + no > 0 /\ 100 * yes >= super * (yes + no) <=>
               yes > 0 /\ 100 * yes >= super * (yes + no)
<1>1. CASE yes > 0   BY <1>1
<1>2. CASE yes = 0 /\ no > 0
  <2>1. super * no >= 1
    <3>1. \A a, b \in Nat : a >= 1 /\ b >= 1 => a * b >= 1   OBVIOUS
    <3> QED BY <1>2, <3>1
  <2>2. yes + no = no /\ 100 * yes = 0   BY <1>2
  <2> QED BY <1>2, <2>1, <2>2
<1>3. CASE yes = 0 /\ no = 0   BY <1>3
<1> QED BY <1>1, <1>2, <1>3

LEMMA OutcomeRuled ==
    ASSUME NEW terms \in Terms, NEW yes \in Nat, NEW no \in Nat, NEW abstain \in Nat,
           NEW late \in Nat, NEW total \in Nat, total = Cardinality(Registered), total # 0,
           NEW t \in Nat, t = yes + no + abstain + late, NEW outcome,
           outcome = Tally(terms, yes, no, abstain, late, total)
    PROVE  \/ outcome = RuledOutcome(terms, yes, no, t)
           \/ outcome = "quorum_fail" /\ terms.quorum \in Overshoot /\ t * 100 = terms.quorum * total
<1>1. terms.quorum \in 1..100 /\ terms.super \in 1..100   BY ConstantsAssumption
<1>2. PICK q, super : q = terms.quorum /\ super = terms.super
  OBVIOUS
<1>3. q \in 1..100 /\ super \in 1..100   BY <1>1, <1>2
<1>4. PICK m : m = q * total   OBVIOUS
<1>5. m \in Nat   BY <1>3, <1>4
<1>6. PICK c \in Nat : c = (m + 99) \div 100   BY <1>5
<1>7. (t >= c) <=> ~(t * 100 < m)
  <2>1. (t >= (m + 99) \div 100) <=> (100 * t >= m)   BY <1>5, QuorumRounded
  <2> QED BY <1>5, <1>6, <2>1
<1>8. q \notin Overshoot => CeilPct(q, total) = c   BY <1>4, <1>6 DEF CeilPct
<1>9. q \in Overshoot => CeilPct(q, total) = c + 1 /\ m = 100 * c
  <2>1. q \in Overshoot => m % 100 = 0   BY <1>4, OvershootAssumption
  <2>2. m % 100 = 0 => m = 100 * ((m + 99) \div 100)   BY <1>5
  <2> QED BY <1>4, <1>6, <2>1, <2>2 DEF CeilPct
<1>10. yes + no > 0 /\ 100 * yes >= super * (yes + no) <=>
           yes > 0 /\ 100 * yes >= super * (yes + no)
  BY <1>3, MajorityNeedsYes
<1>11. outcome = IF ~(t >= CeilPct(q, total)) THEN "quorum_fail"
                 ELSE IF yes + no > 0 /\ 100 * yes >= super * (yes + no) THEN "passed"
                 ELSE "rejected"
  BY <1>2 DEF Tally
<1>12. RuledOutcome(terms, yes, no, t)
          = IF t * 100 < m THEN "quorum_fail"
            ELSE IF yes > 0 /\ 100 * yes >= super * (yes + no) THEN "passed"
            ELSE "rejected"
  BY <1>2, <1>4 DEF RuledOutcome
<1>13. CASE t >= CeilPct(q, total) <=> ~(t * 100 < m)
  BY <1>10, <1>11, <1>12, <1>13
<1>14. CASE q \in Overshoot /\ t = c
  <2>1. ~(t >= CeilPct(q, total)) /\ t * 100 = m   BY <1>9, <1>14
  <2> QED BY <1>2, <1>4, <1>11, <1>14, <2>1
<1>15. CASE q \in Overshoot /\ t # c
  <2>1. (t >= c + 1) <=> (t >= c)   BY <1>15
  <2> QED BY <1>7, <1>9, <1>13, <1>15, <2>1
<1> QED BY <1>7, <1>8, <1>13, <1>14, <1>15

\* The voters in S whose choice f is c: with three choices their numbers add up.
Choosing(S, f, c) == {v \in S : f[v] = c}

LEMMA ThreeParts ==
    ASSUME NEW S, IsFiniteSet(S), NEW f, \A v \in S : f[v] \in {"yes", "no", "abstain"}
    PROVE  /\ Cardinality(Choosing(S, f, "yes")) \in Nat
           /\ Cardinality(Choosing(S, f, "no")) \in Nat
           /\ Cardinality(Choosing(S, f, "abstain")) \in Nat
           /\ Cardinality(S) = Cardinality(Choosing(S, f, "yes"))
                + Cardinality(Choosing(S, f, "no")) + Cardinality(Choosing(S, f, "abstain"))
<1> DEFINE Of(c) == Choosing(S, f, c)
<1>1. ASSUME NEW c PROVE IsFiniteSet(Of(c)) /\ Cardinality(Of(c)) \in Nat
  <2>1. Of(c) \subseteq S   BY DEF Choosing
  <2> HIDE DEF Of
  <2> QED BY <2>1, FS_Subset, FS_CardinalityType
<1>2. S = (Of("yes") \cup Of("no")) \cup Of("abstain")   BY DEF Choosing
<1>3. Of("yes") \cap Of("no") = {} /\ (Of("yes") \cup Of("no")) \cap Of("abstain") = {}
  BY DEF Choosing
<1> HIDE DEF Of
<1>4. /\ IsFiniteSet(Of("yes") \cup Of("no"))
      /\ Cardinality(Of("yes") \cup Of("no")) =
            Cardinality(Of("yes")) + Cardinality(Of("no"))
            - Cardinality(Of("yes") \cap Of("no"))
  BY <1>1, FS_Union
<1>5. Cardinality((Of("yes") \cup Of("no")) \cup Of("abstain")) =
          Cardinality(Of("yes") \cup Of("no")) + Cardinality(Of("abstain"))
          - Cardinality((Of("yes") \cup Of("no")) \cap Of("abstain"))
  BY <1>1, <1>4, FS_Union
<1>6. /\ Cardinality(Of("yes") \cap Of("no")) = 0
      /\ Cardinality((Of("yes") \cup Of("no")) \cap Of("abstain")) = 0
      /\ Cardinality(S) = Cardinality((Of("yes") \cup Of("no")) \cup Of("abstain"))
  BY <1>2, <1>3, FS_EmptySet, Zenon
<1>7. Cardinality(S) = Cardinality(Of("yes")) + Cardinality(Of("no"))
                          + Cardinality(Of("abstain"))
  BY <1>1, <1>4, <1>5, <1>6
<1> QED BY <1>1, <1>7 DEF Of

\* With no request in progress the table of a proposal and its log agree.
LEMMA TableIsLog ==
    ASSUME IInv, Counts, backend = "memory", \A h \in Handler : handler[h] = Idle,
           NEW p \in Proposal, Opened(p), NEW n, n = Len(log[p]) + 1
    PROVE  /\ VotersIn(p, "committed", n) = Voters(p)
           /\ \A c \in Choice : {log[p][i].did : i \in {j \in Positions(p, "revealed") :
                                        j < n /\ log[p][j].choice = c}}
                               = {v \in Voters(p) : ballots[p][v].choice = c}
<1>1. log[p] \in Seq(LogEvent) /\ Voters(p) \subseteq Did
  BY TableFacts DEF IInv, Types, Voters
<1>2. \A kind : \A j \in Positions(p, kind) : j < n   BY <1>1 DEF Positions
<1>3. \A h \in Handler : handler[h].pc = "idle"   BY StateFacts
<1>4. VotersIn(p, "committed", n) = Voters(p)
  <2>1. \A v \in Voters(p) : Committed(p, v)
    BY <1>3 DEF IInv, Ballots, BallotsAreLogged, Emitting
  <2>2. \A i \in Positions(p, "committed") : log[p][i].did \in Voters(p)
    BY DEF IInv, Ballots, EventsAgree, AgreesWithBallot
  <2> QED BY <1>2, <2>1, <2>2 DEF VotersIn, Committed
<1>5. ASSUME NEW c \in Choice
      PROVE  {log[p][i].did : i \in {j \in Positions(p, "revealed") :
                                        j < n /\ log[p][j].choice = c}}
                = {v \in Voters(p) : ballots[p][v].choice = c}
  <2>1. c # "hidden"   BY ConstantsAssumption
  <2>2. \A v : ~ShowingAs(p, v, c)   BY <1>3 DEF ShowingAs, Showing
  <2>3. \A v \in Voters(p) : ballots[p][v].choice = c => ShownAs(p, v, c)
    <3>1. ASSUME NEW v \in Voters(p), ballots[p][v].choice = c PROVE ShownAs(p, v, c)
      <4>1. ChoiceShown(p, v)   BY DEF Counts, ChoicesShown
      <4> QED BY <2>1, <2>2, <3>1, <4>1, Zenon DEF ChoiceShown
    <3> QED BY <3>1
  <2>4. \A i \in Positions(p, "revealed") : log[p][i].did \in Voters(p)
    BY DEF IInv, Ballots, EventsAgree, AgreesWithBallot
  <2>5. \A i \in Positions(p, "revealed") :
            log[p][i].choice = c => ballots[p][log[p][i].did].choice = c
    <3>1. ASSUME NEW i \in Positions(p, "revealed"), log[p][i].choice = c,
                 NEW v, v = log[p][i].did
          PROVE  ballots[p][v].choice = c
      <4>1. ChoiceShown(p, v)   BY <2>4, <3>1 DEF Counts, ChoicesShown
      <4>2. ShownAs(p, v, c)   BY <3>1 DEF ShownAs
      <4> QED BY <4>1, <4>2, Zenon DEF ChoiceShown
    <3> QED BY <3>1
  <2> QED BY <1>2, <2>3, <2>4, <2>5 DEF ShownAs
<1> QED BY <1>4, <1>5

\* What a scan reads has as many ballots of a kind as the log has reveals.
LEMMA CountedRight ==
    ASSUME IInv, Counts, backend = "memory", NEW s \in Scan, scan[s].pc = "count",
           NEW p \in Proposal, p = scan[s].p
    PROVE  Right(p, Counted(s), Len(log[p]) + 1)
<1> DEFINE R == Revealed(p)
           f == scan[s].choices
           Of(c) == Choosing(R, f, c)
           terms == proposals[p].terms
           total == Cardinality(Registered)
<1>1. scan[s] \in Counting /\ scan[s] # Idle   BY AtScan, StateFacts DEF IInv, Scanning
<1>2. \A h \in Handler : handler[h] = Idle   BY <1>1 DEF IInv, Alone
<1>3. Opened(p)   BY <1>1, StateFacts DEF IInv, ScansSound, Scanning
<1>4. f = [v \in R |-> ballots[p][v].choice]   BY DEF Counts, ScansCounted, ScanCounted
<1>5. ballots[p] \in Table   BY DEF IInv, Types
<1>6. /\ R \subseteq Voters(p) /\ IsFiniteSet(Voters(p)) /\ IsFiniteSet(R)
      /\ \A v \in R : ballots[p][v].choice \in Choice
  <2>1. R \subseteq Voters(p)   BY DEF Revealed
  <2>2. IsFiniteSet(Voters(p))   BY <1>5, TableFacts DEF Voters
  <2>3. IsFiniteSet(R)   BY <2>1, <2>2, FS_Subset
  <2>4. \A v \in R : ballots[p][v].choice \in Choice
    BY <1>5, TableFacts DEF Revealed, Voters, Ballot
  <2> QED BY <2>1, <2>2, <2>3, <2>4
<1>7. \A v \in R : f[v] = ballots[p][v].choice /\ f[v] \in {"yes", "no", "abstain"}
  BY <1>4, <1>6, ConstantsAssumption
<1>8. DOMAIN f = R   BY <1>4
<1>9. \A c \in Choice : {v \in Voters(p) : ballots[p][v].choice = c} = Of(c)
  <2>1. \A c \in Choice : c # "hidden"   BY ConstantsAssumption
  <2> QED BY <1>7, <2>1 DEF Revealed, Choosing
<1>10. \A c \in {"yes", "no", "abstain"} :
           RevealedAs(p, c, Len(log[p]) + 1) = Cardinality(Of(c))
  <2> SUFFICES ASSUME NEW c \in {"yes", "no", "abstain"}
               PROVE  RevealedAs(p, c, Len(log[p]) + 1) = Cardinality(Of(c))
    OBVIOUS
  <2> DEFINE shown == {log[p][i].did : i \in {j \in Positions(p, "revealed") :
                                  j < Len(log[p]) + 1 /\ log[p][j].choice = c}}
  <2>1. CASE c \in Choice
    <3>1. shown = {v \in Voters(p) : ballots[p][v].choice = c}
      BY <1>2, <1>3, <2>1, TableIsLog
    <3> QED BY <1>9, <2>1, <3>1 DEF RevealedAs
  <2>2. CASE c \notin Choice
    <3>1. Of(c) = {}   BY <1>4, <1>6, <2>2 DEF Choosing
    <3>2. \A j \in Positions(p, "revealed") : log[p][j].choice # c
      <4>1. \A j \in DOMAIN log[p] : log[p][j] \in LogEvent
        BY DEF IInv, Types
      <4> QED BY <2>2, <4>1 DEF Positions, LogEvent
    <3>3. shown = {}   BY <3>2
    <3> QED BY <3>1, <3>3 DEF RevealedAs
  <2> QED BY <2>1, <2>2
<1>11. VotersIn(p, "committed", Len(log[p]) + 1) = Voters(p)
  BY <1>2, <1>3, TableIsLog
<1>12. /\ Cardinality(Of("yes")) \in Nat /\ Cardinality(Of("no")) \in Nat
       /\ Cardinality(Of("abstain")) \in Nat
       /\ Cardinality(R) = Cardinality(Of("yes")) + Cardinality(Of("no"))
                              + Cardinality(Of("abstain"))
  <2>1. IsFiniteSet(R) /\ \A v \in R : f[v] \in {"yes", "no", "abstain"}   BY <1>6, <1>7
  <2> HIDE DEF R, f
  <2> QED BY <2>1, ThreeParts
<1>13. /\ Cardinality(Voters(p)) \in Nat /\ Cardinality(R) \in Nat
       /\ Cardinality(R) <= Cardinality(Voters(p))
  BY <1>6, FS_Subset, FS_CardinalityType
<1>14. total \in Nat /\ total # 0
  <2>1. Registered # {}   BY <1>3 DEF Counts, SomeoneRegistered
  <2> QED BY <2>1, ConstantsAssumption, FS_CardinalityType, FS_EmptySet
<1>15. terms \in Terms   BY <1>3 DEF IInv, Types, Opened, Row
<1>16. PICK yes, no, abstain, all, late :
           /\ yes = Cardinality(Of("yes")) /\ no = Cardinality(Of("no"))
           /\ abstain = Cardinality(Of("abstain")) /\ all = Cardinality(Voters(p))
           /\ late = Cardinality(Voters(p)) - Cardinality(R)
  OBVIOUS
<1>17. /\ yes \in Nat /\ no \in Nat /\ abstain \in Nat /\ late \in Nat /\ late >= 0
       /\ all = yes + no + abstain + late
  <2> HIDE DEF R, Of
  <2> QED BY <1>12, <1>13, <1>16
<1>18. /\ Counted(s).yes = yes /\ Counted(s).no = no /\ Counted(s).abstain = abstain
       /\ Counted(s).outcome
             = Tally(terms, yes, no, abstain, IF late < 0 THEN 0 ELSE late, total)
  BY <1>8, <1>16 DEF Counted, Choosing
<1>19. (IF late < 0 THEN 0 ELSE late) = late   BY <1>17
<1> HIDE DEF R, f, Of, terms, total
<1>20. Ruled(terms, Counted(s), all)
  <2>1. Counted(s).outcome = Tally(terms, yes, no, abstain, late, total)
    BY <1>18, <1>19
  <2>2. \/ Counted(s).outcome = RuledOutcome(terms, yes, no, all)
        \/ /\ Counted(s).outcome = "quorum_fail" /\ terms.quorum \in Overshoot
           /\ all * 100 = terms.quorum * total
    <3>1. all \in Nat /\ late \in Nat   BY <1>17
    <3> QED BY <1>14, <1>15, <1>17, <2>1, <3>1, OutcomeRuled DEF total
  <2> QED BY <1>18, <2>2 DEF Ruled, total
<1> QED BY <1>10, <1>11, <1>16, <1>18, <1>20 DEF Right, terms

-----------------------------------------------------------------------------
(* Requests, in memory: one at a time, and no scan. *)

LEMMA RequestAlone ==
    ASSUME IInv, backend = "memory", NEW h \in Handler, Request(h) \/ Continue(h)
    PROVE  /\ \A g \in Handler : g # h => handler[g] = Idle
           /\ \A s \in Scan : scan[s] = Idle
           /\ scan' = scan /\ backend' = backend
<1>1. scan' = scan /\ backend' = backend
  BY DEF Request, OpenInsert, CommitRead, RevealRead, Continue, OpenEmit, CommitExists,
         CommitInsert, CommitEmit, RevealUpdate, RevealEmit
<1>2. CASE Request(h)
  <2>1. MayStart   BY <1>2 DEF Request, OpenInsert, CommitRead, RevealRead
  <2> QED BY <1>1, <2>1 DEF MayStart
<1>3. CASE Continue(h)
  <2>1. handler[h] # Idle
    BY <1>3 DEF Continue, OpenEmit, CommitExists, CommitInsert, CommitEmit, RevealUpdate,
                RevealEmit, Idle
  <2> QED BY <1>1, <2>1 DEF IInv, Alone
<1> QED BY <1>2, <1>3

LEMMA ScansStay ==
    ASSUME IInv, backend = "memory" => \A s \in Scan : scan'[s] = Idle,
           backend' = backend
    PROVE  ScansCounted'
<1>1. backend = "memory" => \A s \in Scan : scan'[s].pc = "idle"   BY StateFacts
<1> QED BY <1>1 DEF ScansCounted, ScanCounted

\* A request never announces a tally, and leaves the terms of proposals alone.
LEMMA RequestQuiet ==
    ASSUME IInv, IInv', NEW h \in Handler, Request(h) \/ Continue(h)
    PROVE  /\ \A p \in Proposal : Extends(p) /\ Positions(p, "tallied")' = Positions(p, "tallied")
           /\ \A p \in Proposal : SameTerms(p) \/ log[p] = << >>
           /\ SomeoneRegistered => SomeoneRegistered'
<1>1. Types /\ Types'   BY DEF IInv
<1>2. \A p \in Proposal : Extends(p) /\ Positions(p, "tallied")' = Positions(p, "tallied")
  <2>1. CASE log' = log   BY <1>1, <2>1, UnmovedExtends DEF Positions
  <2>2. CASE \E p \in Proposal : \E e : Emit(p, e) /\ e.kind \notin {"tallied", "law"}
    BY <1>1, <2>2, EmittedTo, SameEndsEmit DEF SameEnds
  <2> QED BY <1>1, <2>1, <2>2, RequestAppends
<1>3. CASE proposals' = proposals   BY <1>2, <1>3 DEF SameTerms, SomeoneRegistered, Opened
<1>4. CASE \E did \in Did, p \in Proposal, terms \in Terms : OpenInsert(h, did, p, terms)
  <2>1. PICK did \in Did, p \in Proposal, terms \in Terms : OpenInsert(h, did, p, terms)
    BY <1>4
  <2>2. /\ did \in Registered /\ log[p] = << >>
        /\ \A q \in Proposal : q # p => proposals'[q] = proposals[q]
    BY <1>1, <2>1 DEF OpenInsert, Types
  <2> QED BY <1>2, <2>2 DEF SameTerms, SomeoneRegistered, Opened
<1> QED
  BY <1>3, <1>4 DEF Request, CommitRead, RevealRead, Continue, OpenEmit, CommitExists,
                    CommitInsert, CommitEmit, RevealUpdate, RevealEmit

LEMMA RequestTallies ==
    ASSUME IInv, IInv', Counts, NEW h \in Handler, Request(h) \/ Continue(h)
    PROVE  TalliesRight' /\ SomeoneRegistered' /\ ScansCounted'
<1>1. backend' = backend
  BY DEF Request, OpenInsert, CommitRead, RevealRead, Continue, OpenEmit, CommitExists,
         CommitInsert, CommitEmit, RevealUpdate, RevealEmit
<1>2. \A p \in Proposal : log[p] = << >> => Positions(p, "tallied") = {}   BY DEF Positions
<1>3. TalliesRight'
  BY <1>1, <1>2, RequestQuiet, TalliesStayRight DEF IInv, Counts
<1>4. SomeoneRegistered'   BY RequestQuiet DEF Counts
<1>5. ScansCounted'   BY <1>1, RequestAlone, ScansStay
<1> QED BY <1>3, <1>4, <1>5

\* Choices that nobody is announcing, and that a step leaves alone.
NotShowing == \A h \in Handler : handler[h].pc # "reveal.emit"

LEMMA ChoiceKept ==
    ASSUME IInv, NEW p \in Proposal, Extends(p), NotShowing, NEW v \in Voters(p),
           ChoiceShown(p, v), ballots'[p][v] = ballots[p][v],
           \A c : ShownAs(p, v, c)' => ShownAs(p, v, c), NotShowing'
    PROVE  ChoiceShown(p, v)'
<1>1. \A c : ~ShowingAs(p, v, c) /\ ~ShowingAs(p, v, c)'
  BY DEF NotShowing, ShowingAs, Showing
<1>2. \A c : ShownAs(p, v, c)' <=> ShownAs(p, v, c)   BY ShownKept
<1>3. PICK b : b = ballots[p][v] /\ b = ballots'[p][v]   OBVIOUS
<1>4. /\ b.choice # "hidden" => /\ b.commit = [choice |-> b.choice, voter |-> v]
                                /\ ShownAs(p, v, b.choice)
      /\ \A c \in Choice : ShownAs(p, v, c) => b.choice = c
  BY <1>1, <1>3 DEF ChoiceShown
<1>5. /\ b.choice # "hidden" => /\ b.commit = [choice |-> b.choice, voter |-> v]
                                /\ ShownAs(p, v, b.choice)'
      /\ \A c \in Choice : ShownAs(p, v, c)' => b.choice = c
  BY <1>2, <1>4
<1> QED BY <1>1, <1>3, <1>5 DEF ChoiceShown

LEMMA ShownEmit ==
    ASSUME Types, NEW p \in Proposal, NEW e, Emit(p, e), e.kind # "revealed"
    PROVE  \A q \in Proposal : \A v, c : ShownAs(q, v, c)' => ShownAs(q, v, c)
<1> SUFFICES ASSUME NEW q \in Proposal PROVE \A v, c : ShownAs(q, v, c)' => ShownAs(q, v, c)
  OBVIOUS
<1>1. PICK n : n = Len(log[p]) + 1   OBVIOUS
<1>2. /\ Positions(q, "revealed")' = Positions(q, "revealed")
      /\ \A i \in Positions(q, "revealed") : log'[q][i] = log[q][i]
  <2>1. CASE q = p   BY <1>1, <2>1, VotesEmit
  <2>2. CASE q # p   BY <1>1, <2>2, VotesEmit
  <2> QED BY <2>1, <2>2
<1> QED BY <1>2 DEF ShownAs

\* The steps before which and after which no reveal is waiting for its event.
LEMMA ChoicesQuiet ==
    ASSUME IInv, IInv', Counts, NEW h \in Handler,
           Request(h) \/ OpenEmit(h) \/ CommitExists(h) \/ CommitInsert(h) \/ CommitEmit(h)
    PROVE  ChoicesShown'
<1> SUFFICES ASSUME backend = "memory", NEW p \in Proposal, NEW v \in Voters(p)'
             PROVE  ChoiceShown(p, v)'
  BY DEF ChoicesShown, Request, OpenInsert, CommitRead, RevealRead, OpenEmit, CommitExists,
         CommitInsert, CommitEmit
<1>1. Request(h) \/ Continue(h)   BY DEF Continue
<1>2. \A g \in Handler : g # h => handler[g].pc = "idle" /\ handler'[g].pc = "idle"
  <2>1. \A g \in Handler : g # h => handler[g] = Idle   BY <1>1, RequestAlone
  <2>2. \A g \in Handler : g # h => handler'[g] = handler[g]
    BY DEF IInv, Types, Goto, Request, OpenInsert, CommitRead, RevealRead, OpenEmit,
           CommitExists, CommitInsert, CommitEmit
  <2> QED BY <2>1, <2>2, StateFacts
<1>3. handler[h].pc # "reveal.emit"
  BY StateFacts DEF Request, OpenInsert, CommitRead, RevealRead, OpenEmit, CommitExists,
                    CommitInsert, CommitEmit
<1>4. handler'[h].pc # "reveal.emit"
  <2>1. CASE Request(h)
    BY <2>1 DEF IInv, Types, Goto, Request, OpenInsert, CommitRead, RevealRead
  <2>2. CASE OpenEmit(h) \/ CommitEmit(h)
    BY <2>2, StateFacts DEF IInv, Types, Goto, OpenEmit, CommitEmit
  <2>3. CASE CommitExists(h) \/ CommitInsert(h)
    <3>1. handler[h] \in Committing   BY <2>3, AtCommit DEF IInv, CommitExists, CommitInsert
    <3>2. \A pc : [handler[h] EXCEPT !.pc = pc].pc = pc   BY <3>1 DEF Committing
    <3>3. handler'[h] \in {Idle, [handler[h] EXCEPT !.pc = "commit.insert"],
                           [handler[h] EXCEPT !.pc = "commit.emit"]}
      BY <2>3 DEF IInv, Types, Goto, CommitExists, CommitInsert
    <3> QED BY <3>2, <3>3, StateFacts
  <2> QED BY <2>1, <2>2, <2>3
<1>5. NotShowing /\ NotShowing'   BY <1>2, <1>3, <1>4 DEF NotShowing
<1>6. Extends(p)   BY <1>1, RequestQuiet
<1>7. \A u, c : ShownAs(p, u, c)' => ShownAs(p, u, c)
  <2>1. CASE CommitEmit(h)
    <3>1. PICK e : e = [kind |-> "committed", did |-> handler[h].did,
                        hash |-> handler[h].hash]
      OBVIOUS
    <3>2. Emit(handler[h].p, e) /\ e.kind = "committed"   BY <2>1, <3>1 DEF CommitEmit
    <3>3. handler[h].p \in Proposal
      BY <2>1, AtCommit, StateFacts DEF IInv, CommitEmit, Serving
    <3> QED BY <3>2, <3>3, ShownEmit DEF IInv
  <2>2. CASE OpenEmit(h)
    <3>1. PICK e : e = [kind |-> "opened"]   OBVIOUS
    <3>2. Emit(handler[h].p, e) /\ e.kind = "opened"   BY <2>2, <3>1 DEF OpenEmit
    <3>3. handler[h].p \in Proposal   BY <2>2, AtOpen, StateFacts DEF IInv, OpenEmit, Serving
    <3> QED BY <3>2, <3>3, ShownEmit DEF IInv
  <2>3. CASE log' = log   BY <2>3 DEF ShownAs, Positions
  <2> QED
    BY <2>1, <2>2, <2>3 DEF Request, OpenInsert, CommitRead, RevealRead, CommitExists,
                            CommitInsert
<1>8. CASE ballots' = ballots
  <2>1. v \in Voters(p) /\ ballots'[p][v] = ballots[p][v]   BY <1>8 DEF Voters
  <2>2. ChoiceShown(p, v)   BY <2>1 DEF Counts, ChoicesShown
  <2> QED BY <1>5, <1>6, <1>7, <2>1, <2>2, ChoiceKept
<1>9. CASE CommitInsert(h) /\ ballots' # ballots
  <2> DEFINE c == handler[h]
  <2>1. c \in Committing /\ c # Idle /\ c.pc = "commit.insert"
    BY <1>9, AtCommit, StateFacts DEF CommitInsert, Serving, IInv
  <2>0. PICK hash : hash = c.hash   OBVIOUS
  <2>2. PICK q \in Proposal, did \in Did : q = c.p /\ did = c.did /\ hash = c.hash
    BY <2>0, <2>1, StateFacts DEF Serving
  <2>3. ballots' = [ballots EXCEPT ![q] = NewBallot(q, did, hash)] /\ log' = log
    BY <1>9, <2>2 DEF CommitInsert
  <2>4. did \notin Voters(q) /\ Opened(q)
    BY <2>1, <2>2 DEF IInv, Ballots, RequestsBacked, Backed
  <2> HIDE DEF c
  <2>5. CASE p = q /\ v = did
    <3>1. ballots'[p][v].choice = "hidden"
      BY <2>3, <2>5 DEF IInv, Types, NewBallot
    <3>2. ASSUME NEW d, ShownAs(p, v, d) PROVE FALSE
      <4>1. PICK i \in Positions(p, "revealed") : log[p][i].did = v   BY <3>2 DEF ShownAs
      <4>2. AgreesWithBallot(p, log[p][i])   BY <2>4, <2>5, <4>1 DEF IInv, Ballots, EventsAgree
      <4> QED BY <2>4, <2>5, <4>1, <4>2 DEF AgreesWithBallot
    <3>3. \A d : ~ShownAs(p, v, d)'   BY <1>7, <3>2
    <3>4. \A d : ~ShowingAs(p, v, d)'   BY <1>5 DEF NotShowing, ShowingAs, Showing
    <3> QED BY <3>1, <3>3, <3>4 DEF ChoiceShown
  <2>6. CASE ~(p = q /\ v = did)
    <3>1. v \in Voters(p) /\ ballots'[p][v] = ballots[p][v]
      <4>1. CASE p # q   BY <2>3, <4>1 DEF IInv, Types, Voters
      <4>2. CASE p = q
        <5>1. ballots'[p] = NewBallot(p, did, hash)   BY <2>3, <4>2 DEF IInv, Types
        <5> QED BY <2>6, <4>2, <5>1 DEF NewBallot, Voters
      <4> QED BY <4>1, <4>2
    <3>2. ChoiceShown(p, v)   BY <3>1 DEF Counts, ChoicesShown
    <3> QED BY <1>5, <1>6, <1>7, <3>1, <3>2, ChoiceKept
  <2> QED BY <2>5, <2>6
<1> QED
  BY <1>8, <1>9 DEF Request, OpenInsert, CommitRead, RevealRead, OpenEmit, CommitExists,
                    CommitEmit

\* A reveal writes the choice its commit holds ...
LEMMA ChoicesRevealUpdate ==
    ASSUME IInv, IInv', Counts, NEW h \in Handler, RevealUpdate(h)
    PROVE  ChoicesShown'
<1> SUFFICES ASSUME backend = "memory", NEW p \in Proposal, NEW v \in Voters(p)'
             PROVE  ChoiceShown(p, v)'
  BY DEF ChoicesShown, RevealUpdate
<1> DEFINE c == handler[h]
<1>1. c \in Revealing /\ c # Idle /\ c.pc = "reveal.update"
  BY AtReveal, StateFacts DEF RevealUpdate, Serving, IInv
<1>2. PICK q \in Proposal, did \in Did, choice \in Choice :
          q = c.p /\ did = c.did /\ choice = c.choice
  BY <1>1, StateFacts DEF Serving
<1>3. Opened(q) /\ did \in Voters(q)
      /\ ballots[q][did].commit = [choice |-> choice, voter |-> did]
  BY <1>1, <1>2 DEF IInv, Ballots, RequestsBacked, Backed
<1>4. /\ ballots' = [ballots EXCEPT ![q] = [ballots[q] EXCEPT ![did].choice = choice]]
      /\ log' = log
  BY <1>2 DEF RevealUpdate
<1>5. PICK r : r = [c EXCEPT !.pc = "reveal.emit"]   OBVIOUS
<1>6. /\ Goto(h, r) /\ r.pc = "reveal.emit" /\ r.p = q /\ r.did = did /\ r.choice = choice
  BY <1>1, <1>2, <1>5 DEF RevealUpdate, Revealing
<1>7. \A g \in Handler : g # h => handler[g].pc = "idle" /\ handler'[g].pc = "idle"
  <2>1. \A g \in Handler : g # h => handler[g] = Idle   BY RequestAlone DEF Continue
  <2>2. \A g \in Handler : g # h => handler'[g] = handler[g]
    BY <1>6 DEF IInv, Types, Goto
  <2> QED BY <2>1, <2>2, StateFacts
<1>8. handler'[h] = r   BY <1>6 DEF IInv, Types, Goto
<1>9. \A u, w, d : ~ShowingAs(u, w, d)   BY <1>1, <1>7 DEF ShowingAs, Showing
<1>10. \A u, w, d : ShowingAs(u, w, d)' <=> u = q /\ w = did /\ d = choice
  BY <1>6, <1>7, <1>8 DEF ShowingAs, Showing
<1>11. \A u \in Proposal : \A w, d : ShownAs(u, w, d)' <=> ShownAs(u, w, d)
  BY <1>4 DEF ShownAs, Positions
<1> HIDE DEF c
<1>12. CASE p = q /\ v = did
  <2>1. PICK b : b = ballots[q][did]   OBVIOUS
  <2>2. b \in Ballot   BY <1>3, <2>1, TableFacts DEF IInv, Types, Voters
  <2>3. PICK a : a = ballots'[p][v]   OBVIOUS
  <2>4. a.choice = choice /\ a.commit = [choice |-> choice, voter |-> v]
    BY <1>3, <1>4, <1>12, <2>1, <2>2, <2>3 DEF IInv, Types, Voters, Ballot
  <2>5. ASSUME NEW d \in Choice, ShownAs(p, v, d) PROVE d = choice
    <3>1. PICK i \in Positions(p, "revealed") : log[p][i].did = v /\ log[p][i].choice = d
      BY <2>5 DEF ShownAs
    <3>2. AgreesWithBallot(p, log[p][i])
      BY <1>3, <1>12, <3>1 DEF IInv, Ballots, EventsAgree
    <3>3. ballots[p][v].commit = [choice |-> d, voter |-> v]
      BY <3>1, <3>2 DEF AgreesWithBallot, Positions
    <3>4. [choice |-> d, voter |-> v] = [choice |-> choice, voter |-> v]
      BY <1>3, <1>12, <3>3
    <3>5. [choice |-> d, voter |-> v].choice = d
          /\ [choice |-> choice, voter |-> v].choice = choice
      OBVIOUS
    <3> QED BY <3>4, <3>5
  <2>6. ShowingAs(p, v, choice)'   BY <1>10, <1>12
  <2>7. \A d \in Choice : ShownAs(p, v, d)' \/ ShowingAs(p, v, d)' => choice = d
    BY <1>10, <1>11, <2>5
  <2> QED BY <2>3, <2>4, <2>6, <2>7 DEF ChoiceShown
<1>13. CASE ~(p = q /\ v = did)
  <2>1. v \in Voters(p) /\ ballots'[p][v] = ballots[p][v]
    <3>1. CASE p # q   BY <1>4, <3>1 DEF IInv, Types, Voters
    <3>2. CASE p = q
      <4>1. ballots'[p] = [ballots[p] EXCEPT ![did].choice = choice]
        BY <1>4, <3>2 DEF IInv, Types
      <4>2. v # did   BY <1>13, <3>2
      <4>3. DOMAIN ballots'[p] = DOMAIN ballots[p]   BY <4>1
      <4> QED BY <4>1, <4>2, <4>3 DEF Voters
    <3> QED BY <3>1, <3>2
  <2>2. ChoiceShown(p, v)   BY <2>1 DEF Counts, ChoicesShown
  <2>3. PICK b : b = ballots[p][v] /\ b = ballots'[p][v]   BY <2>1
  <2>4. /\ b.choice # "hidden" => /\ b.commit = [choice |-> b.choice, voter |-> v]
                                  /\ ShownAs(p, v, b.choice)'
        /\ \A d \in Choice : ShownAs(p, v, d)' => b.choice = d
    BY <1>9, <1>11, <2>2, <2>3 DEF ChoiceShown
  <2>5. \A d : ~ShowingAs(p, v, d)'   BY <1>10, <1>13
  <2> QED BY <2>3, <2>4, <2>5 DEF ChoiceShown
<1> QED BY <1>12, <1>13

\* ... and then announces it.
LEMMA ChoicesRevealEmit ==
    ASSUME IInv, IInv', Counts, NEW h \in Handler, RevealEmit(h)
    PROVE  ChoicesShown'
<1> SUFFICES ASSUME backend = "memory", NEW p \in Proposal, NEW v \in Voters(p)
             PROVE  ChoiceShown(p, v)'
  BY DEF ChoicesShown, RevealEmit, Voters
<1> DEFINE c == handler[h]
<1>1. c \in Revealing /\ c.pc = "reveal.emit"   BY AtReveal DEF RevealEmit, IInv
<1>2. PICK q \in Proposal, did \in Did, choice \in Choice :
          q = c.p /\ did = c.did /\ choice = c.choice
  BY <1>1, StateFacts DEF Serving
<1>3. PICK e : e = [kind |-> "revealed", did |-> did, choice |-> choice]   OBVIOUS
<1>4. /\ Emit(q, e) /\ Goto(h, Idle) /\ ballots' = ballots
      /\ e.kind = "revealed" /\ e.did = did /\ e.choice = choice
  BY <1>2, <1>3 DEF RevealEmit
<1>5. \A g \in Handler : handler'[g].pc = "idle" /\ (g # h => handler[g].pc = "idle")
  <2>1. \A g \in Handler : g # h => handler[g] = Idle   BY RequestAlone DEF Continue
  <2>2. \A g \in Handler : handler'[g] = Idle
    BY <1>4, <2>1 DEF IInv, Types, Goto
  <2> QED BY <2>1, <2>2, StateFacts
<1>6. \A u, w, d : /\ ~ShowingAs(u, w, d)'
                   /\ ShowingAs(u, w, d) <=> u = q /\ w = did /\ d = choice
  BY <1>1, <1>2, <1>5 DEF ShowingAs, Showing
<1>7. PICK n : n = Len(log[q]) + 1   OBVIOUS
<1>8. \A w, d : ShownAs(p, w, d)' <=>
                    ShownAs(p, w, d) \/ (p = q /\ w = did /\ d = choice)
  <2>1. CASE p = q
    <3>1. /\ Positions(p, "revealed")' = Positions(p, "revealed") \cup {n}
          /\ \A i \in Positions(p, "revealed") : log'[p][i] = log[p][i]
          /\ log'[p][n] = e
      BY <1>4, <1>7, <2>1, VotesEmit DEF IInv
    <3> QED BY <1>4, <2>1, <3>1 DEF ShownAs
  <2>2. CASE p # q
    <3>1. Positions(p, "revealed")' = Positions(p, "revealed") /\ log'[p] = log[p]
      BY <1>4, <1>7, <2>2, VotesEmit DEF IInv
    <3> QED BY <2>2, <3>1 DEF ShownAs
  <2> QED BY <2>1, <2>2
<1> HIDE DEF c
<1>9. \A d : ShownAs(p, v, d)' \/ ShowingAs(p, v, d)' <=> ShownAs(p, v, d) \/ ShowingAs(p, v, d)
  BY <1>6, <1>8
<1>10. ChoiceShown(p, v)   BY DEF Counts, ChoicesShown
<1> QED BY <1>4, <1>9, <1>10 DEF ChoiceShown

\* Steps that leave tables, requests and log alone.
LEMMA ChoicesUnmoved ==
    ASSUME Counts, UNCHANGED <<backend, ballots, handler>>,
           \A p \in Proposal : /\ Positions(p, "revealed")' = Positions(p, "revealed")
                               /\ \A i \in Positions(p, "revealed") : log'[p][i] = log[p][i]
    PROVE  ChoicesShown'
<1> SUFFICES ASSUME backend = "memory", NEW p \in Proposal, NEW v \in Voters(p)
             PROVE  ChoiceShown(p, v)'
  BY DEF ChoicesShown, Voters
<1>1. ChoiceShown(p, v)   BY DEF Counts, ChoicesShown
<1>2. \A d : /\ ShownAs(p, v, d)' <=> ShownAs(p, v, d)
             /\ ShowingAs(p, v, d)' <=> ShowingAs(p, v, d)
  BY DEF ShownAs, ShowingAs, Showing
<1> QED BY <1>1, <1>2 DEF ChoiceShown

-----------------------------------------------------------------------------
(* Scans. *)

\* In memory a scan moves on to the state r alone.
LEMMA ScanCountedStep ==
    ASSUME IInv, NEW s \in Scan, NEW r, GotoScan(s, r), MayStart \/ scan[s] # Idle,
           backend' = backend, backend = "memory" => ScanCounted(r)'
    PROVE  ScansCounted'
<1> SUFFICES ASSUME backend = "memory", NEW t \in Scan, NEW x, x = scan'[t]
             PROVE  ScanCounted(x)'
  BY DEF ScansCounted, ScanCounted
<1>1. CASE t = s
  <2>1. x = r   BY <1>1 DEF IInv, Types, GotoScan
  <2> QED BY <2>1
<1>2. CASE t # s
  <2>1. scan[t] = Idle   BY <1>2 DEF IInv, Alone, MayStart
  <2>2. x.pc = "idle"   BY <1>2, <2>1, StateFacts DEF IInv, Types, GotoScan
  <2> QED BY <2>2 DEF ScanCounted
<1> QED BY <1>1, <1>2

\* A result counted is still right when nothing but the status of its proposal
\* has changed.
LEMMA RightUnmoved ==
    ASSUME IInv, NEW p \in Proposal, NEW r, Right(p, r, Len(log[p]) + 1), log' = log,
           SameTerms(p)
    PROVE  Right(p, r, Len(log[p]) + 1)'
<1>1. Extends(p)   BY UnmovedExtends DEF IInv
<1>2. PICK n : n = Len(log[p]) + 1   OBVIOUS
<1>3. n \in 1..(Len(log[p]) + 1)   BY <1>1, <1>2 DEF Extends
<1>4. Right(p, r, n)'   BY <1>1, <1>2, <1>3, RightKept
<1> QED BY <1>2, <1>4

LEMMA ScanMovesRight ==
    ASSUME IInv, IInv', Counts, NEW s \in Scan,
           TickClosed(s) \/ (\E p \in Proposal : ReadReveals(s, p)) \/ CountBallots(s)
             \/ UpdateTallied(s)
    PROVE  Counts'
<1> DEFINE c == scan[s]
<1>1. UNCHANGED <<backend, ballots, handler, log>>
  BY DEF TickClosed, ReadReveals, CountBallots, UpdateTallied
<1>2. \A p \in Proposal : SameTerms(p)
  <2>1. CASE proposals' = proposals   BY <2>1 DEF SameTerms, Opened
  <2>2. CASE UpdateTallied(s)
    <3>1. c \in Ending /\ c # Idle   BY <2>2, AtScan, StateFacts DEF UpdateTallied, IInv, Scanning
    <3>2. PICK q \in Proposal : q = c.p   BY <3>1, StateFacts
    <3>3. /\ \A p \in Proposal : p # q => proposals'[p] = proposals[p]
          /\ proposals'[q] = [proposals[q] EXCEPT !.status = "tallied",
                                                  !.outcome = c.result.outcome]
      BY <2>2, <3>2 DEF UpdateTallied, IInv, Types
    <3>4. Opened(q)   BY <3>1, <3>2, StateFacts DEF IInv, ScansSound, Scanning
    <3>5. proposals[q] \in Row   BY <3>4 DEF Opened, IInv, Types
    <3>6. proposals'[q].terms = proposals[q].terms   BY <3>3, <3>5 DEF Row
    <3> QED BY <3>3, <3>4, <3>6 DEF SameTerms, Opened
  <2> QED BY <2>1, <2>2 DEF TickClosed, ReadReveals, CountBallots
<1>3. SomeoneRegistered'   BY <1>2 DEF Counts, SomeoneRegistered, SameTerms
<1>4. \A p \in Proposal : Extends(p)   BY <1>1, UnmovedExtends DEF IInv
<1>5. TalliesRight'
  <2>1. \A p \in Proposal : Positions(p, "tallied")' = Positions(p, "tallied")
    BY <1>1 DEF Positions
  <2> QED BY <1>1, <1>2, <1>4, <2>1, TalliesStayRight DEF IInv, Counts
<1>6. ChoicesShown'   BY <1>1, ChoicesUnmoved DEF Positions
<1>7. ScansCounted'
  <2>1. CASE TickClosed(s)
    <3>1. PICK r : r = IF {p \in Proposal : Due(p, tick')} = {} THEN Idle
                       ELSE [pc |-> "reveals", todo |-> {p \in Proposal : Due(p, tick')}]
      OBVIOUS
    <3>2. GotoScan(s, r) /\ MayStart   BY <2>1, <3>1 DEF TickClosed
    <3>3. r.pc \in {"idle", "reveals"}   BY <3>1, StateFacts
    <3>4. ScanCounted(r)'   BY <3>3 DEF ScanCounted
    <3> QED BY <1>1, <3>2, <3>4, ScanCountedStep
  <2>2. CASE \E p \in Proposal : ReadReveals(s, p)
    <3>1. PICK p \in Proposal : ReadReveals(s, p)   BY <2>2
    <3>2. PICK r : r = [pc |-> "count", todo |-> c.todo, p |-> p,
                        choices |-> [v \in Revealed(p) |-> ballots[p][v].choice]]
      OBVIOUS
    <3>3. GotoScan(s, r) /\ c.pc = "reveals"   BY <3>1, <3>2 DEF ReadReveals
    <3>4. c # Idle   BY <3>3, StateFacts
    <3>5. r.pc = "count" /\ r.p = p /\ r.choices = [v \in Revealed(p) |-> ballots[p][v].choice]
      BY <3>2
    <3>6. [v \in Revealed(p) |-> ballots[p][v].choice]'
              = [v \in Revealed(p) |-> ballots[p][v].choice]
      BY <1>1 DEF Revealed, Voters
    <3>7. ScanCounted(r)'   BY <3>5, <3>6 DEF ScanCounted
    <3> QED BY <1>1, <3>3, <3>4, <3>7, ScanCountedStep
  <2>3. CASE CountBallots(s)
    <3>1. c \in Counting /\ c # Idle /\ c.pc = "count"
      BY <2>3, AtScan, StateFacts DEF CountBallots, IInv, Scanning
    <3>2. PICK p \in Proposal : p = c.p   BY <3>1, StateFacts
    <3>3. PICK r, result : result = Counted(s)
                 /\ r = [pc |-> "update", todo |-> c.todo, p |-> c.p, result |-> result]
      OBVIOUS
    <3>4. GotoScan(s, r) /\ r.pc = "update" /\ r.p = p /\ r.result = result
      BY <2>3, <3>2, <3>3 DEF CountBallots
    <3>5. backend = "memory" => ScanCounted(r)'
      <4> SUFFICES ASSUME backend = "memory" PROVE ScanCounted(r)'
        OBVIOUS
      <4>1. Right(p, Counted(s), Len(log[p]) + 1)   BY <3>1, <3>2, CountedRight
      <4>2. Right(p, result, Len(log[p]) + 1)   BY <3>3, <4>1
      <4>3. Right(p, result, Len(log[p]) + 1)'   BY <1>1, <1>2, <4>2, RightUnmoved
      <4> QED BY <3>4, <4>3 DEF ScanCounted
    <3> QED BY <1>1, <3>1, <3>4, <3>5, ScanCountedStep
  <2>4. CASE UpdateTallied(s)
    <3>1. c \in Ending /\ c # Idle /\ c.pc = "update"
      BY <2>4, AtScan, StateFacts DEF UpdateTallied, IInv, Scanning
    <3>2. PICK p \in Proposal : p = c.p   BY <3>1, StateFacts
    <3>3. PICK r : r = [c EXCEPT !.pc = "emit"]   OBVIOUS
    <3>4. PICK result : result = c.result   OBVIOUS
    <3>5. GotoScan(s, r) /\ r.pc = "emit" /\ r.p = p /\ r.result = result
      BY <2>4, <3>1, <3>2, <3>3, <3>4 DEF UpdateTallied, Ending
    <3>6. backend = "memory" => ScanCounted(r)'
      <4> SUFFICES ASSUME backend = "memory" PROVE ScanCounted(r)'
        OBVIOUS
      <4>1. Right(p, result, Len(log[p]) + 1)
        BY <3>1, <3>2, <3>4 DEF Counts, ScansCounted, ScanCounted
      <4>2. Right(p, result, Len(log[p]) + 1)'   BY <1>1, <1>2, <4>1, RightUnmoved
      <4> QED BY <3>5, <4>2 DEF ScanCounted
    <3> QED BY <1>1, <3>1, <3>5, <3>6, ScanCountedStep
  <2> QED BY <2>1, <2>2, <2>3, <2>4
<1> QED BY <1>3, <1>5, <1>6, <1>7 DEF Counts

\* The tally announced is the result counted, at the place it was counted for.
LEMMA AnnouncedRight ==
    ASSUME IInv, IInv', Counts, backend' = backend, NEW s \in Scan, scan[s].pc = "emit",
           NEW p \in Proposal, p = scan[s].p, NEW r, r = scan[s].result, Announces(p, r),
           \A q \in Proposal : SameTerms(q)
    PROVE  TalliesRight'
<1>1. Types /\ Types'   BY DEF IInv
<1>2. TallyOf(r) \in LogEvent /\ Law \in LogEvent
  BY <1>1, AtScan, StateFacts DEF TallyOf, Law, LogEvent
<1>3. PICK n : n = Len(log[p]) + 1   OBVIOUS
<1>4. (\A q \in Proposal : Extends(q)) /\ log'[p][n] = TallyOf(r)
  <2>1. <<TallyOf(r)>> \in Seq(LogEvent) /\ <<TallyOf(r), Law>> \in Seq(LogEvent)   BY <1>2
  <2>2. PICK t \in Seq(LogEvent) : log' = [log EXCEPT ![p] = log[p] \o t]
                                   /\ Len(t) >= 1 /\ t[1] = TallyOf(r)
    <3>1. /\ Len(<<TallyOf(r)>>) = 1 /\ <<TallyOf(r)>>[1] = TallyOf(r)
          /\ Len(<<TallyOf(r), Law>>) = 2 /\ <<TallyOf(r), Law>>[1] = TallyOf(r)
      OBVIOUS
    <3>2. CASE log' = [log EXCEPT ![p] = log[p] \o <<TallyOf(r)>>]
      <4>1. PICK t : t = <<TallyOf(r)>>   OBVIOUS
      <4>2. /\ t \in Seq(LogEvent) /\ Len(t) >= 1 /\ t[1] = TallyOf(r)
            /\ log' = [log EXCEPT ![p] = log[p] \o t]
        BY <2>1, <3>1, <3>2, <4>1
      <4> QED BY <4>2
    <3>3. CASE log' = [log EXCEPT ![p] = log[p] \o <<TallyOf(r), Law>>]
      <4>1. PICK t : t = <<TallyOf(r), Law>>   OBVIOUS
      <4>2. /\ t \in Seq(LogEvent) /\ Len(t) >= 1 /\ t[1] = TallyOf(r)
            /\ log' = [log EXCEPT ![p] = log[p] \o t]
        BY <2>1, <3>1, <3>3, <4>1
      <4> QED BY <4>2
    <3> QED BY <3>2, <3>3 DEF Announces
  <2>3. log[p] \in Seq(LogEvent)   BY <1>1 DEF Types
  <2>4. log'[p] = log[p] \o t   BY <1>1, <2>2 DEF Types
  <2>5. log'[p][n] = t[1]   BY <1>3, <2>2, <2>3, <2>4
  <2> QED BY <1>1, <2>2, <2>5, AppendedTo
<1>5. /\ Positions(p, "tallied")' = Positions(p, "tallied") \cup {n}
      /\ \A q \in Proposal : q # p => Positions(q, "tallied")' = Positions(q, "tallied")
  BY <1>1, <1>3, AnnounceFacts
<1>6. n \in 1..(Len(log[p]) + 1)   BY <1>3, <1>4 DEF Extends
<1>7. backend = "memory" => Right(p, log[p][n].result, n)'
  <2> SUFFICES ASSUME backend = "memory" PROVE Right(p, log[p][n].result, n)'
    OBVIOUS
  <2>1. Right(p, r, n)   BY <1>3 DEF Counts, ScansCounted, ScanCounted
  <2>2. Right(p, r, n)'   BY <1>4, <1>6, <2>1, RightKept
  <2>3. log'[p][n].result = r   BY <1>4 DEF TallyOf
  <2> QED BY <2>2, <2>3
<1> QED BY <1>1, <1>4, <1>5, <1>7, TalliesStayRight DEF Counts

LEMMA ScanEnds ==
    ASSUME IInv, IInv', Counts, NEW s \in Scan, EmitTallied(s) PROVE Counts'
<1> DEFINE c == scan[s]
           rest == c.todo \ {c.p}
<1>1. c \in Ending /\ c # Idle /\ c.pc = "emit"
  BY AtScan, StateFacts DEF EmitTallied, IInv, Scanning
<1>2. PICK p \in Proposal : p = c.p   BY <1>1, StateFacts
<1>3. UNCHANGED <<backend, proposals, ballots, handler>> /\ Announces(p, c.result)
  BY <1>2 DEF EmitTallied, Announces, TallyOf, Law
<1>4. PICK r : r = IF rest = {} THEN Idle ELSE [pc |-> "reveals", todo |-> rest]   OBVIOUS
<1>5. GotoScan(s, r) /\ r.pc \in {"idle", "reveals"}   BY <1>4, StateFacts DEF EmitTallied
<1>6. ScansCounted'
  <2>1. ScanCounted(r)'   BY <1>5 DEF ScanCounted
  <2> QED BY <1>1, <1>3, <1>5, <2>1, ScanCountedStep
<1>7. \A q \in Proposal : SameTerms(q)   BY <1>3 DEF SameTerms, Opened
<1>8. TalliesRight'   BY <1>1, <1>2, <1>3, <1>7, AnnouncedRight
<1>9. SameVotes   BY <1>3, AnnounceFacts DEF IInv
<1>10. ChoicesShown'   BY <1>3, <1>9, ChoicesUnmoved DEF SameVotes
<1>11. SomeoneRegistered'   BY <1>3 DEF Counts, SomeoneRegistered, Opened
<1> QED BY <1>6, <1>8, <1>10, <1>11 DEF Counts

\* After a crash the log of a tally is still right, and in memory no table is left.
LEMMA ScanCrashes ==
    ASSUME IInv, IInv', Counts, NEW s \in Scan, EmitTalliedThrows(s) PROVE Counts'
<1> DEFINE c == scan[s]
<1>1. c \in Ending /\ c.pc = "emit"   BY AtScan DEF EmitTalliedThrows, IInv
<1>2. PICK p \in Proposal : p = c.p   BY <1>1, StateFacts
<1>3. Announces(p, c.result)
  <2>1. log[p] \in Seq(LogEvent)   BY DEF IInv, Types
  <2>2. log' = [log EXCEPT ![p] = Append(log[p], TallyOf(c.result))]
    BY <1>2 DEF EmitTalliedThrows, Emit, TallyOf
  <2>3. Append(log[p], TallyOf(c.result)) = log[p] \o <<TallyOf(c.result)>>   BY <2>1
  <2> QED BY <2>2, <2>3 DEF Announces
<1>4. backend' = backend /\ \A t \in Scan : scan'[t] = Idle
      /\ \A q \in Proposal : proposals'[q] = proposals[q] \/ proposals'[q] = NoProposal
  BY DEF EmitTalliedThrows
<1>5. \A q \in Proposal : SameTerms(q)   BY <1>4 DEF SameTerms, Opened
<1>6. TalliesRight'   BY <1>1, <1>2, <1>3, <1>4, <1>5, AnnouncedRight
<1>7. ScansCounted'   BY <1>4, ScansStay
<1>8. SomeoneRegistered'   BY <1>5 DEF Counts, SomeoneRegistered, SameTerms
<1>9. ChoicesShown'
  <2>1. backend = "memory" => \A q \in Proposal : ballots'[q] = << >>
    BY DEF EmitTalliedThrows
  <2> QED BY <1>4, <2>1 DEF ChoicesShown, Voters
<1> QED BY <1>6, <1>7, <1>8, <1>9 DEF Counts

-----------------------------------------------------------------------------
LEMMA CountsInit == Init => Counts
<1> SUFFICES ASSUME Init PROVE Counts
  OBVIOUS
<1>1. \A p \in Proposal : \A kind : Positions(p, kind) = {} /\ Voters(p) = {} /\ ~Opened(p)
  BY DEF Init, Positions, Voters, Opened
<1>2. \A s \in Scan : scan[s].pc = "idle"   BY StateFacts DEF Init
<1> QED
  BY <1>1, <1>2 DEF Counts, ChoicesShown, ScansCounted, ScanCounted, TalliesRight,
                    SomeoneRegistered

LEMMA CountsUnmoved ==
    ASSUME IInv, Counts, UNCHANGED <<backend, proposals, ballots, handler, scan, log>>
    PROVE  Counts'
<1>1. ChoicesShown'   BY ChoicesUnmoved DEF Positions
<1>2. /\ \A p \in Proposal : Extends(p) /\ SameTerms(p)
      /\ \A p \in Proposal : Positions(p, "tallied")' = Positions(p, "tallied")
  BY UnmovedExtends DEF IInv, SameTerms, Opened, Positions
<1>3. TalliesRight'   BY <1>2, TalliesStayRight DEF IInv, Counts
<1>4. ScansCounted'
  <2> SUFFICES ASSUME backend = "memory", NEW s \in Scan, NEW r, r = scan[s]
               PROVE  ScanCounted(r)'
    BY DEF ScansCounted, ScanCounted
  <2>1. ScanCounted(r)   BY DEF Counts, ScansCounted
  <2>2. r.pc = "count" => r.choices = [v \in Revealed(r.p) |-> ballots[r.p][v].choice]'
    BY <2>1 DEF ScanCounted, Revealed, Voters
  <2>3. ASSUME r.pc \in {"update", "emit"} PROVE Right(r.p, r.result, Len(log[r.p]) + 1)'
    <3>0. PICK result : result = r.result   OBVIOUS
    <3>1. PICK p \in Proposal : p = r.p /\ result = r.result
      BY <2>3, <3>0, AtScan, StateFacts DEF IInv
    <3>2. Right(p, result, Len(log[p]) + 1)   BY <2>1, <2>3, <3>1 DEF ScanCounted
    <3>3. Right(p, result, Len(log[p]) + 1)'   BY <1>2, <3>2, RightUnmoved
    <3> QED BY <3>1, <3>3
  <2> QED BY <2>2, <2>3 DEF ScanCounted
<1>5. SomeoneRegistered'   BY DEF Counts, SomeoneRegistered, Opened
<1> QED BY <1>1, <1>3, <1>4, <1>5 DEF Counts

LEMMA CountsStep ==
    ASSUME IInv, IInv', Counts, [Next]_vars PROVE Counts'
<1>1. ASSUME NEW h \in Handler, Request(h) \/ Continue(h) PROVE Counts'
  <2>1. TalliesRight' /\ SomeoneRegistered' /\ ScansCounted'   BY <1>1, RequestTallies
  <2>2. ChoicesShown'
    BY <1>1, ChoicesQuiet, ChoicesRevealUpdate, ChoicesRevealEmit DEF Continue
  <2> QED BY <2>1, <2>2 DEF Counts
<1>2. ASSUME NEW s \in Scan, TickClosed(s) \/ Tallying(s) PROVE Counts'
  BY <1>2, ScanMovesRight, ScanEnds, ScanCrashes DEF Tallying
<1>3. ASSUME NEW did \in Registered, Delete(did) PROVE Counts'
  BY <1>3, CountsUnmoved DEF Delete
<1>4. CASE UNCHANGED vars   BY <1>4, CountsUnmoved DEF vars
<1> QED BY <1>1, <1>2, <1>3, <1>4, Zenon DEF Next

\* The tally can be recomputed from the audit chain alone: with the in-memory
\* store, for any number of voters, percentages and requests, the counts a tally
\* announces are the distinct reveals before it, and its outcome is the written
\* rule applied to them and to the commits before it; where the quorum is one too
\* high in floating point (Overshoot), a turnout that meets the written quorum to
\* the vote fails it.
THEOREM TallyIsReproducible == Spec => []TallyMatchesLog
<1>1. Init => Counts   BY CountsInit
<1>2. IInv /\ IInv' /\ Counts /\ [Next]_vars => Counts'   BY CountsStep
<1>3. Counts => TallyMatchesLog
  BY Zenon DEF Counts, TalliesRight, Right, Opened, TallyMatchesLog
<1> QED BY <1>1, <1>2, <1>3, Invariance, PTL DEF Spec
=============================================================================
