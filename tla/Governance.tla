----------------------------- MODULE Governance -----------------------------
(***************************************************************************)
(* Commit-reveal voting: the HTTP handlers that open a proposal, commit a  *)
(* ballot and reveal it, and the scan that WorldClock.onTick starts at     *)
(* every tick and does not await (grid/src/governance, api/governance).    *)
(*                                                                         *)
(* A handler is cut at each await on the GovernanceStore.  With the SQL    *)
(* store ("mysql") any other handler or scan may run there.  With          *)
(* createInMemoryStore ("memory", what the launcher constructs today) an   *)
(* await is a microtask, so a handler that has started finishes before     *)
(* another one starts; its tables are lost with the process.               *)
(*                                                                         *)
(* A commit hash is the record it hashes.  Ticks in request bodies are the *)
(* client's claim and need not be the clock's.                             *)
(***************************************************************************)
EXTENDS Integers, Sequences, FiniteSets

CONSTANTS
    Did,         \* who sends requests: any well-formed DID may vote
    Registered,  \* the Nous in the registry
    Choice,      \* what a ballot may say: subset of {"yes", "no", "abstain"}
    Proposal,    \* proposal ids (random, never used twice)
    Handler,     \* requests that may be served at the same time
    Scan,        \* onTickClosed calls that may be in progress at the same time
    Terms,       \* [quorum, super : 1..100, deadline : tick, isLaw : BOOLEAN]
    Backend,     \* subset of {"memory", "mysql"}
    Overshoot,   \* percentages whose quorum is one too high in floating point
    MaxTick,     \* bound: the clock stops counting here
    MaxLog       \* bound: no reveal starts once a proposal has this many events

ASSUME ConstantsAssumption ==
    /\ IsFiniteSet(Registered) /\ Choice \subseteq {"yes", "no", "abstain"}
    /\ Backend \subseteq {"memory", "mysql"} /\ MaxTick \in Nat /\ MaxLog \in Nat
    /\ Terms \subseteq [quorum : 1..100, super : 1..100, deadline : Nat \ {0}, isLaw : BOOLEAN]

\* Math.ceil((pct / 100) * count) is the ceiling, or one more where pct / 100
\* times count should be an integer and the product of the doubles lies above it:
\* 28% of 25, 14% of 50 and 7% of 100 come out as 8.
ASSUME OvershootAssumption ==
    Overshoot \subseteq {pct \in 1..100 : (pct * Cardinality(Registered)) % 100 = 0}

VARIABLES
    backend,      \* which store the engine was built on
    tick,         \* WorldClock.currentTick
    deleted,      \* tombstoned Nous; they still count in registry.count
    proposals,    \* governance_proposals: id -> terms, status, outcome
    ballots,      \* governance_ballots: id -> voter -> commit, revealed choice
    handler,      \* local state of each request
    scan,         \* local state of each scan
    log           \* per proposal, the events appended to the audit chain

vars == <<backend, tick, deleted, proposals, ballots, handler, scan, log>>

Hash == [choice : Choice, voter : Did]
NoProposal == [status |-> "none"]
Idle == [pc |-> "idle"]

IsOpen(p) == proposals[p].status = "open"
Voters(p) == DOMAIN ballots[p]
Revealed(p) == {v \in Voters(p) : ballots[p][v].choice # "hidden"}
Emit(p, event) == log' = [log EXCEPT ![p] = Append(log[p], event)]

\* A request or a scan may start: with the in-memory store none is in progress.
MayStartAnytime == TRUE
MayStart ==
    backend = "memory" =>
        /\ \A h \in Handler : handler[h] = Idle
        /\ \A s \in Scan : scan[s] = Idle

Goto(h, state) == handler' = [handler EXCEPT ![h] = state]
GotoScan(s, state) == scan' = [scan EXCEPT ![s] = state]

-----------------------------------------------------------------------------
(* computeTally *)

CeilPct(pct, n) == (pct * n + 99) \div 100 + IF pct \in Overshoot THEN 1 ELSE 0

\* Mutant: the outcome ignores ballots committed but not revealed.
TallyOfReveals(terms, yes, no, abstain, hidden, total) ==
    LET quorumMet == total # 0 /\ yes + no + abstain >= CeilPct(terms.quorum, total)
    IN  CASE ~quorumMet -> "quorum_fail"
          [] quorumMet /\ yes + no > 0 /\ 100 * yes >= terms.super * (yes + no) -> "passed"
          [] OTHER -> "rejected"

\* Turnout counts everyone who committed; abstentions count for the quorum and
\* not for the majority; without a decisive ballot nothing passes.  The code
\* compares yes / decisive with super / 100, two quotients that are rounded alike.
Tally(terms, yes, no, abstain, hidden, total) ==
    LET turnout == yes + no + abstain + hidden
        quorumMet == total # 0 /\ turnout >= CeilPct(terms.quorum, total)
    IN  CASE ~quorumMet -> "quorum_fail"
          [] quorumMet /\ yes + no > 0 /\ 100 * yes >= terms.super * (yes + no) -> "passed"
          [] OTHER -> "rejected"

-----------------------------------------------------------------------------
Init ==
    /\ backend \in Backend /\ tick = 0 /\ deleted = {}
    /\ proposals = [p \in Proposal |-> NoProposal]
    /\ ballots = [p \in Proposal |-> << >>]
    /\ handler = [h \in Handler |-> Idle]
    /\ scan = [s \in Scan |-> Idle]
    /\ log = [p \in Proposal |-> << >>]

(* POST /proposals: validate, insert, emit. *)

OpenInsert(h, did, p, terms) ==
    /\ MayStart /\ handler[h] = Idle
    /\ did \in Registered \ deleted /\ log[p] = << >> /\ proposals[p] = NoProposal
    /\ proposals' = [proposals EXCEPT ![p] =
                        [status |-> "open", terms |-> terms, outcome |-> "none"]]
    /\ Goto(h, [pc |-> "open.emit", p |-> p])
    /\ UNCHANGED <<backend, tick, deleted, ballots, scan, log>>

OpenEmit(h) ==
    /\ handler[h].pc = "open.emit"
    /\ Emit(handler[h].p, [kind |-> "opened"])
    /\ Goto(h, Idle)
    /\ UNCHANGED <<backend, tick, deleted, proposals, ballots, scan>>

(* POST /ballots/commit: the deadline is compared with the tick claimed. *)

CommitRead(h, did, p, hash, claimed) ==
    /\ MayStart /\ handler[h] = Idle
    /\ did \notin deleted /\ proposals[p] # NoProposal
    /\ claimed <= proposals[p].terms.deadline
    /\ Goto(h, [pc |-> "commit.exists", p |-> p, did |-> did, hash |-> hash])
    /\ UNCHANGED <<backend, tick, deleted, proposals, ballots, scan, log>>

\* Mutant: only the same ballot sent again is a duplicate.
CommitExistsSameBallot(h) ==
    LET p == handler[h].p
        did == handler[h].did
    IN  /\ handler[h].pc = "commit.exists"
        /\ IF did \in Voters(p) /\ ballots[p][did].commit = handler[h].hash
           THEN Goto(h, Idle)
           ELSE Goto(h, [handler[h] EXCEPT !.pc = "commit.insert"])
        /\ UNCHANGED <<backend, tick, deleted, proposals, ballots, scan, log>>

\* Duplicate guard: 409 or on to the insert.
CommitExists(h) ==
    /\ handler[h].pc = "commit.exists"
    /\ IF handler[h].did \in Voters(handler[h].p)
       THEN Goto(h, Idle)
       ELSE Goto(h, [handler[h] EXCEPT !.pc = "commit.insert"])
    /\ UNCHANGED <<backend, tick, deleted, proposals, ballots, scan, log>>

NewBallot(p, did, hash) ==
    [v \in Voters(p) \cup {did} |->
        IF v = did THEN [commit |-> hash, choice |-> "hidden"] ELSE ballots[p][v]]

\* Mutant: no primary key on (grid, proposal, voter).
KeyTakenNever(p, did) == FALSE
\* The primary key of the SQL table; Map.set in memory replaces.
KeyTaken(p, did) == backend = "mysql" /\ did \in Voters(p)

CommitInsert(h) ==
    LET p == handler[h].p
        did == handler[h].did
    IN  /\ handler[h].pc = "commit.insert"
        /\ IF KeyTaken(p, did)
           THEN Goto(h, Idle) /\ UNCHANGED ballots
           ELSE /\ ballots' = [ballots EXCEPT ![p] = NewBallot(p, did, handler[h].hash)]
                /\ Goto(h, [handler[h] EXCEPT !.pc = "commit.emit"])
        /\ UNCHANGED <<backend, tick, deleted, proposals, scan, log>>

CommitEmit(h) ==
    /\ handler[h].pc = "commit.emit"
    /\ Emit(handler[h].p, [kind |-> "committed", did |-> handler[h].did,
                           hash |-> handler[h].hash])
    /\ Goto(h, Idle)
    /\ UNCHANGED <<backend, tick, deleted, proposals, ballots, scan>>

(* POST /ballots/reveal: neither the status of the proposal, nor its         *)
(* deadline, nor an earlier reveal is looked at.                             *)

\* Mutant: the voter is not part of what is hashed.
OpensChoice(commit, choice, did) == commit.choice = choice
\* verifyReveal
Opens(commit, choice, did) == commit = [choice |-> choice, voter |-> did]

RevealRead(h, did, p, choice) ==
    /\ MayStart /\ handler[h] = Idle
    /\ did \notin deleted /\ did \in Voters(p) /\ Len(log[p]) < MaxLog
    /\ Opens(ballots[p][did].commit, choice, did)
    /\ Goto(h, [pc |-> "reveal.update", p |-> p, did |-> did, choice |-> choice])
    /\ UNCHANGED <<backend, tick, deleted, proposals, ballots, scan, log>>

RevealUpdate(h) ==
    LET r == handler[h]
    IN  /\ r.pc = "reveal.update"
        /\ ballots' = [ballots EXCEPT ![r.p][r.did].choice = r.choice]
        /\ Goto(h, [r EXCEPT !.pc = "reveal.emit"])
        /\ UNCHANGED <<backend, tick, deleted, proposals, scan, log>>

RevealEmit(h) ==
    /\ handler[h].pc = "reveal.emit"
    /\ Emit(handler[h].p, [kind |-> "revealed", did |-> handler[h].did,
                           choice |-> handler[h].choice])
    /\ Goto(h, Idle)
    /\ UNCHANGED <<backend, tick, deleted, proposals, ballots, scan>>

-----------------------------------------------------------------------------
(* onTickClosed and appendProposalTallied. *)

\* Mutant: only the proposals whose deadline is this very tick.
DueExactly(p, now) == IsOpen(p) /\ now = proposals[p].terms.deadline
Due(p, now) == IsOpen(p) /\ now >= proposals[p].terms.deadline

\* A tick advances the clock and starts a scan over the proposals open now;
\* the loop skips the ones that are not due.
TickClosed(s) ==
    /\ MayStart /\ scan[s] = Idle
    /\ tick' = IF tick < MaxTick THEN tick + 1 ELSE tick
    /\ LET due == {p \in Proposal : Due(p, tick')}
       IN  GotoScan(s, IF due = {} THEN Idle ELSE [pc |-> "reveals", todo |-> due])
    /\ UNCHANGED <<backend, deleted, proposals, ballots, handler, log>>

ReadReveals(s, p) ==
    /\ scan[s].pc = "reveals" /\ p \in scan[s].todo
    /\ GotoScan(s, [pc |-> "count", todo |-> scan[s].todo, p |-> p,
                    choices |-> [v \in Revealed(p) |-> ballots[p][v].choice]])
    /\ UNCHANGED <<backend, tick, deleted, proposals, ballots, handler, log>>

\* Committed voters, registry.count (tombstoned records included), computeTally.
Counted(s) ==
    LET choices == scan[s].choices
        N(c) == Cardinality({v \in DOMAIN choices : choices[v] = c})
        late == Cardinality(Voters(scan[s].p)) - Cardinality(DOMAIN choices)
    IN  [yes |-> N("yes"), no |-> N("no"), abstain |-> N("abstain"),
         outcome |-> Tally(proposals[scan[s].p].terms, N("yes"), N("no"), N("abstain"),
                           IF late < 0 THEN 0 ELSE late, Cardinality(Registered))]

CountBallots(s) ==
    /\ scan[s].pc = "count"
    /\ GotoScan(s, [pc |-> "update", todo |-> scan[s].todo, p |-> scan[s].p,
                    result |-> Counted(s)])
    /\ UNCHANGED <<backend, tick, deleted, proposals, ballots, handler, log>>

\* UPDATE governance_proposals, whatever the status of the row is by now.
UpdateTallied(s) ==
    /\ scan[s].pc = "update"
    /\ proposals' = [proposals EXCEPT ![scan[s].p].status = "tallied",
                                      ![scan[s].p].outcome = scan[s].result.outcome]
    /\ GotoScan(s, [scan[s] EXCEPT !.pc = "emit"])
    /\ UNCHANGED <<backend, tick, deleted, ballots, handler, log>>

\* Append proposal.tallied and, for a law that passed, law.triggered.
EmitTallied(s) ==
    LET p == scan[s].p
        tallied == [kind |-> "tallied", result |-> scan[s].result]
        passed == scan[s].result.outcome = "passed"
        rest == scan[s].todo \ {p}
    IN  /\ scan[s].pc = "emit" /\ (passed => proposals[p].terms.isLaw)
        /\ log' = [log EXCEPT ![p] = log[p] \o
                      IF passed THEN <<tallied, [kind |-> "law"]>> ELSE <<tallied>>]
        /\ GotoScan(s, IF rest = {} THEN Idle ELSE [pc |-> "reveals", todo |-> rest])
        /\ UNCHANGED <<backend, tick, deleted, proposals, ballots, handler>>

\* A proposal that passed and whose body is not a law in JSON: the promise of
\* onTickClosed rejects, nobody handles it, and the process ends and restarts.
\* The audit log is persisted, the tables of the in-memory store are not.
EmitTalliedThrows(s) ==
    LET p == scan[s].p
        lost == backend = "memory"
    IN  /\ scan[s].pc = "emit" /\ scan[s].result.outcome = "passed"
        /\ ~proposals[p].terms.isLaw
        /\ Emit(p, [kind |-> "tallied", result |-> scan[s].result])
        /\ tick' = 0
        /\ proposals' = IF lost THEN [q \in Proposal |-> NoProposal] ELSE proposals
        /\ ballots' = IF lost THEN [q \in Proposal |-> << >>] ELSE ballots
        /\ handler' = [h \in Handler |-> Idle]
        /\ scan' = [t \in Scan |-> Idle]
        /\ UNCHANGED <<backend, deleted>>

Delete(did) ==
    /\ MayStart /\ did \notin deleted
    /\ deleted' = deleted \cup {did}
    /\ UNCHANGED <<backend, tick, proposals, ballots, handler, scan, log>>

-----------------------------------------------------------------------------
Request(h) ==
    \/ \E did \in Did, p \in Proposal :
          \/ \E terms \in Terms : OpenInsert(h, did, p, terms)
          \/ \E hash \in Hash, claimed \in 0..MaxTick : CommitRead(h, did, p, hash, claimed)
          \/ \E choice \in Choice : RevealRead(h, did, p, choice)

Continue(h) ==
    \/ OpenEmit(h)
    \/ CommitExists(h) \/ CommitInsert(h) \/ CommitEmit(h)
    \/ RevealUpdate(h) \/ RevealEmit(h)

Tallying(s) ==
    \/ \E p \in Proposal : ReadReveals(s, p)
    \/ CountBallots(s) \/ UpdateTallied(s) \/ EmitTallied(s) \/ EmitTalliedThrows(s)

Next ==
    \/ \E h \in Handler : Request(h) \/ Continue(h)
    \/ \E s \in Scan : TickClosed(s) \/ Tallying(s)
    \/ \E did \in Registered : Delete(did)

Spec == Init /\ [][Next]_vars

\* The clock keeps ticking and what has started goes on; nobody has to vote.
Fairness ==
    /\ \A h \in Handler : WF_vars(Continue(h))
    /\ \A s \in Scan : WF_vars(Tallying(s)) /\ SF_vars(TickClosed(s))

FairSpec == Spec /\ Fairness

-----------------------------------------------------------------------------
(* Properties. *)

Result == [yes : Nat, no : Nat, abstain : Nat,
           outcome : {"quorum_fail", "passed", "rejected"}]
LogEvent ==
    [kind : {"opened", "law"}] \cup [kind : {"committed"}, did : Did, hash : Hash]
    \cup [kind : {"revealed"}, did : Did, choice : Choice]
    \cup [kind : {"tallied"}, result : Result]

\* Every variable keeps its type; a ballot or a tally has a proposal.
TypeOK ==
    /\ backend \in Backend /\ tick \in 0..MaxTick /\ deleted \subseteq Registered
    /\ \A p \in Proposal :
          /\ proposals[p] = NoProposal \/
             /\ proposals[p].status \in {"open", "tallied"}
             /\ proposals[p].terms \in Terms
          /\ Voters(p) \subseteq Did
          /\ \A v \in Voters(p) :
                ballots[p][v] \in [commit : Hash, choice : Choice \cup {"hidden"}]
          /\ ballots[p] # << >> => proposals[p] # NoProposal
          /\ \A i \in DOMAIN log[p] : log[p][i] \in LogEvent

Positions(p, kind) == {i \in DOMAIN log[p] : log[p][i].kind = kind}
VotersIn(p, kind, n) ==
    {log[p][i].did : i \in {j \in Positions(p, kind) : j < n}}

\* One Nous, one ballot: the audit chain never shows two commits of one voter on
\* one proposal, although ballotExists and the insert are separate calls.
OneBallotPerVoter ==
    \A p \in Proposal : \A i, j \in Positions(p, "committed") :
        log[p][i].did = log[p][j].did => i = j

\* A vote cannot be changed, and nobody else's vote can be revealed: every event
\* in the chain agrees with the one ballot row of its voter, which no later
\* request replaces; with the in-memory store a reveal also comes after the
\* commit it opens (with the SQL store the insert of a commit is visible before
\* its event, so the reveal may overtake it).
AgreesWithBallot(p, e) ==
    /\ e.did \in Voters(p)
    /\ e.kind = "committed" => ballots[p][e.did].commit = e.hash
    /\ e.kind = "revealed" =>
          ballots[p][e.did].commit = [choice |-> e.choice, voter |-> e.did]

RevealOpensCommit ==
    \A p \in Proposal :
        /\ proposals[p] # NoProposal =>
              \A i \in Positions(p, "committed") \cup Positions(p, "revealed") :
                  AgreesWithBallot(p, log[p][i])
        /\ backend = "memory" =>
              \A i \in Positions(p, "revealed") :
                  log[p][i].did \in VotersIn(p, "committed", i)

\* The tally can be recomputed from the audit chain alone: with the in-memory
\* store its counts are the distinct reveals before it, and the outcome is what
\* the written rule (12-CONTEXT.md, D-12-03) gives for them, every committed
\* Nous counting for the quorum; but a turnout that meets the quorum to the vote
\* fails it where floating point asks for one vote more.
RevealedAs(p, c, n) ==
    Cardinality({log[p][i].did : i \in {j \in Positions(p, "revealed") :
                                            j < n /\ log[p][j].choice = c}})

RuledOutcome(terms, yes, no, turnout) ==
    IF turnout * 100 < terms.quorum * Cardinality(Registered) THEN "quorum_fail"
    ELSE IF yes > 0 /\ 100 * yes >= terms.super * (yes + no) THEN "passed"
    ELSE "rejected"

Ruled(terms, r, turnout) ==
    \/ r.outcome = RuledOutcome(terms, r.yes, r.no, turnout)
    \/ /\ r.outcome = "quorum_fail" /\ terms.quorum \in Overshoot
       /\ turnout * 100 = terms.quorum * Cardinality(Registered)

TallyMatchesLog ==
    backend = "memory" =>
        \A p \in Proposal : \A n \in Positions(p, "tallied") :
            LET r == log[p][n].result
            IN  /\ r.yes = RevealedAs(p, "yes", n)
                /\ r.no = RevealedAs(p, "no", n)
                /\ r.abstain = RevealedAs(p, "abstain", n)
                /\ proposals[p] # NoProposal =>
                      Ruled(proposals[p].terms, r, Cardinality(VotersIn(p, "committed", n)))

\* A proposal is tallied, and its law enacted, once, whatever comes at its
\* deadline.  That scans do not overlap in memory makes it so: the statement that
\* marks a proposal tallied does not look at its status.
TalliedOnce ==
    backend = "memory" =>
        \A p \in Proposal : /\ Cardinality(Positions(p, "tallied")) <= 1
                            /\ Cardinality(Positions(p, "law")) <= 1

\* A proposal at its deadline does not stay open with the SQL store: it is marked
\* tallied in the end, although a tally that throws leaves the rest of its scan
\* behind.  The tables survive, and a scan after the restart finds them.  (With the
\* in-memory store the open proposals are lost with the process.)
DueGetsTallied ==
    \A p \in Proposal :
        backend = "mysql" /\ IsOpen(p) ~> proposals[p].status = "tallied"

\* 12-CONTEXT.md:32: "Deadline tick is the last tick for either action", which
\* is also the tick that tallies: no ballot of a proposal follows its tally.
NoBallotAfterTally ==
    \A p \in Proposal : \A n \in Positions(p, "tallied") :
        \A i \in Positions(p, "committed") \cup Positions(p, "revealed") : i < n

\* 12-CONTEXT.md:40: "On passed: Grid immediately emits law.triggered".
PassedTriggersLaw ==
    \A p \in Proposal : \A n \in Positions(p, "tallied") :
        log[p][n].result.outcome = "passed" => n + 1 \in Positions(p, "law")
=============================================================================
