----------------------------- MODULE LaborEscrow ----------------------------
(***************************************************************************)
(* The LaborEscrow contract (contracts/src/LaborEscrow.sol) and the        *)
(* signatures of the Grid's completion oracle and of the arbiter.          *)
(*                                                                         *)
(* A signature is a bearer token: once made it may be submitted by anyone, *)
(* at any later block, any number of times; the oracle signs for a job id, *)
(* which it may do before the job exists.  A call that reverts changes     *)
(* nothing.  The state of a job is written before the ether leaves and     *)
(* nothing is written after, so a call the receiver makes back into the    *)
(* contract is an action that follows, and one that reverts undoes both.   *)
(* Integers stay far below 2^64 and 2^256.                                 *)
(***************************************************************************)
EXTENDS Integers, Functions

CONSTANTS
    Account,        \* payers and workers
    Rejecting,      \* accounts whose code refuses ether
    FeeBps,         \* feeBps
    DisputeWindow,  \* disputeWindow
    Wei,            \* amounts a job may be funded with
    Deadline,       \* deadlines a job may be funded with
    MaxJobs,        \* bound: jobs funded
    MaxTime         \* bound: block.timestamp stops here

ASSUME ConstantsAssumption ==
    /\ FeeBps \in 0..10000 /\ DisputeWindow \in Nat
    /\ Wei \subseteq Nat /\ MaxJobs \in Nat /\ MaxTime \in Nat \ {0}
    /\ \A d \in Deadline : d \in Nat /\ d < MaxTime /\ d + DisputeWindow <= MaxTime

VARIABLES
    now,        \* block.timestamp
    nextJobId,
    jobs,       \* job id -> Job
    balance,    \* address(this).balance
    sent,       \* job id -> ether transferred on its behalf
    signed      \* signatures that exist

vars == <<now, nextJobId, jobs, balance, sent, signed>>

JobId == 1..MaxJobs
State == {"None", "Funded", "Attested", "Released", "Refunded", "Disputed"}

NoJob == [state |-> "None", amount |-> 0, deadline |-> 0, disputeDeadline |-> 0]
Nothing == [worker |-> 0, treasury |-> 0, payer |-> 0]

\* completionDigest and resolutionDigest, bound to this chain and contract.
Completion(j) == [kind |-> "completion", job |-> j]
Resolution(j, toWorker) == [kind |-> "resolution", job |-> j, toWorker |-> toWorker]

Init ==
    /\ now = 1 /\ nextJobId = 1
    /\ jobs = [j \in JobId |-> NoJob]
    /\ balance = 0
    /\ sent = [j \in JobId |-> Nothing]
    /\ signed = {}

FundJob(payer, worker, wei, deadline) ==
    /\ nextJobId \in JobId
    /\ wei > 0 /\ deadline > now
    /\ jobs' = [jobs EXCEPT ![nextJobId] =
                   [payer |-> payer, worker |-> worker, amount |-> wei,
                    deadline |-> deadline, disputeDeadline |-> 0, state |-> "Funded"]]
    /\ nextJobId' = nextJobId + 1
    /\ balance' = balance + wei
    /\ UNCHANGED <<now, sent, signed>>

AttestCompletion(j) ==
    /\ jobs[j].state = "Funded" /\ now <= jobs[j].deadline
    /\ Completion(j) \in signed
    /\ jobs' = [jobs EXCEPT ![j].state = "Attested",
                            ![j].disputeDeadline = now + DisputeWindow]
    /\ UNCHANGED <<now, nextJobId, balance, sent, signed>>

Fee(wei) == (wei * FeeBps) \div 10000

\* The ether that leaves the contract for a job.
Transfer(j, toWorker, toTreasury, toPayer) ==
    /\ sent' = [sent EXCEPT ![j] = [worker |-> sent[j].worker + toWorker,
                                    treasury |-> sent[j].treasury + toTreasury,
                                    payer |-> sent[j].payer + toPayer]]
    /\ balance' = balance - toWorker - toTreasury - toPayer

\* Mutant: the worker is sent the whole amount on top of the fee.
ReleaseGross(j) ==
    /\ jobs[j].worker \notin Rejecting
    /\ jobs' = [jobs EXCEPT ![j].state = "Released"]
    /\ Transfer(j, jobs[j].amount, Fee(jobs[j].amount), 0)

\* _release: the fee to the treasury and the rest to the worker.
Release(j) ==
    /\ jobs[j].worker \notin Rejecting
    /\ jobs' = [jobs EXCEPT ![j].state = "Released"]
    /\ Transfer(j, jobs[j].amount - Fee(jobs[j].amount), Fee(jobs[j].amount), 0)

\* _refund
GiveBack(j) ==
    /\ jobs[j].payer \notin Rejecting
    /\ jobs' = [jobs EXCEPT ![j].state = "Refunded"]
    /\ Transfer(j, 0, 0, jobs[j].amount)

\* Mutant: finalize, too, looks at the deadline of the job.
FinalizeBeforeDeadline(j) ==
    /\ jobs[j].state = "Attested" /\ now >= jobs[j].disputeDeadline
    /\ now <= jobs[j].deadline
    /\ Release(j)
    /\ UNCHANGED <<now, nextJobId, signed>>

Finalize(j) ==
    /\ jobs[j].state = "Attested" /\ now >= jobs[j].disputeDeadline
    /\ Release(j)
    /\ UNCHANGED <<now, nextJobId, signed>>

DisputeAttestation(j, sender) ==
    /\ jobs[j].state = "Attested" /\ sender = jobs[j].payer
    /\ now < jobs[j].disputeDeadline
    /\ jobs' = [jobs EXCEPT ![j].state = "Disputed"]
    /\ UNCHANGED <<now, nextJobId, balance, sent, signed>>

\* Mutant: a resolution is applied to a job nobody has disputed, or twice.
ResolveAny(j, toWorker) ==
    /\ jobs[j].state # "None"
    /\ Resolution(j, toWorker) \in signed
    /\ IF toWorker THEN Release(j) ELSE GiveBack(j)
    /\ UNCHANGED <<now, nextJobId, signed>>

ResolveDispute(j, toWorker) ==
    /\ jobs[j].state = "Disputed"
    /\ Resolution(j, toWorker) \in signed
    /\ IF toWorker THEN Release(j) ELSE GiveBack(j)
    /\ UNCHANGED <<now, nextJobId, signed>>

\* Mutant: a refund asks for an unsettled job instead of an unattested one.
RefundUnsettled(j, sender) ==
    /\ jobs[j].state \in {"Funded", "Attested"} /\ sender = jobs[j].payer
    /\ now > jobs[j].deadline
    /\ GiveBack(j)
    /\ UNCHANGED <<now, nextJobId, signed>>

Refund(j, sender) ==
    /\ jobs[j].state = "Funded" /\ sender = jobs[j].payer
    /\ now > jobs[j].deadline
    /\ GiveBack(j)
    /\ UNCHANGED <<now, nextJobId, signed>>

Sign(digest) ==
    /\ signed' = signed \cup {digest}
    /\ UNCHANGED <<now, nextJobId, jobs, balance, sent>>

\* The next block is later than this one.
Mine(time) ==
    /\ time > now
    /\ now' = time
    /\ UNCHANGED <<nextJobId, jobs, balance, sent, signed>>

-----------------------------------------------------------------------------
Call(j) ==
    \/ AttestCompletion(j) \/ Finalize(j)
    \/ \E toWorker \in BOOLEAN : ResolveDispute(j, toWorker)
    \/ \E sender \in Account : DisputeAttestation(j, sender) \/ Refund(j, sender)

Signing(j) ==
    \/ Sign(Completion(j))
    \/ \E toWorker \in BOOLEAN : Sign(Resolution(j, toWorker))

Next ==
    \/ \E payer, worker \in Account, wei \in Wei, deadline \in Deadline :
          FundJob(payer, worker, wei, deadline)
    \/ \E j \in JobId : Call(j) \/ Signing(j)
    \/ \E time \in 0..MaxTime : Mine(time)

Spec == Init /\ [][Next]_vars

\* Blocks are mined; anyone may finalize, the Grid's relayer does; the payer
\* takes back what was never attested.  Oracle and arbiter need not sign.
Fairness ==
    /\ WF_vars(\E time \in 0..MaxTime : Mine(time))
    /\ \A j \in JobId : /\ WF_vars(Finalize(j))
                        /\ WF_vars(\E sender \in Account : Refund(j, sender))

FairSpec == Spec /\ Fairness

-----------------------------------------------------------------------------
(* Properties. *)

Unsettled == {"Funded", "Attested", "Disputed"}
FundedJob ==
    [payer : Account, worker : Account, amount : Nat \ {0}, deadline : Deadline,
     disputeDeadline : 0..MaxTime, state : State \ {"None"}]
Digest ==
    [kind : {"completion"}, job : JobId]
        \cup [kind : {"resolution"}, job : JobId, toWorker : BOOLEAN]

\* Every variable keeps its type, and ids are given out in order.
TypeOK ==
    /\ now \in 1..MaxTime /\ nextJobId \in 1..(MaxJobs + 1) /\ balance \in Int
    /\ DOMAIN jobs = JobId
    /\ \A j \in JobId : jobs[j] \in IF j < nextJobId THEN FundedJob ELSE {NoJob}
    /\ sent \in [JobId -> [worker : Nat, treasury : Nat, payer : Nat]]
    /\ signed \subseteq Digest

\* The contract can always pay what it still owes: its balance is the sum of
\* the unsettled jobs, so no job is ever paid with the ether of another.
Owed == [j \in JobId |-> IF jobs[j].state \in Unsettled THEN jobs[j].amount ELSE 0]
Solvent == balance = SumFunction(Owed)

\* Nobody is paid without cause, whatever signatures float around and whenever
\* they are submitted.  A worker was attested by the oracle, and either the whole
\* dispute window passed or the arbiter decided for it; a payer got its money
\* back because no attestation came in time, or because the arbiter said so.
SettledForCause ==
    \A j \in JobId :
        /\ jobs[j].state = "Released" =>
              /\ Completion(j) \in signed
              /\ now >= jobs[j].disputeDeadline \/ Resolution(j, TRUE) \in signed
        /\ jobs[j].state = "Refunded" =>
              \/ jobs[j].disputeDeadline = 0 /\ now > jobs[j].deadline
              \/ Resolution(j, FALSE) \in signed

\* The dispute window is opened once: a retried or replayed attestation can
\* neither postpone the payment of the worker nor reopen a settled job.
WindowOpensOnce ==
    [][\A j \in JobId : jobs[j].disputeDeadline # 0 =>
          /\ jobs'[j].disputeDeadline = jobs[j].disputeDeadline
          /\ jobs'[j].state # "Funded"]_vars

\* A deposit is taken once and leaves once, all of it: LaborEscrow implements
\* Escrow, a job being held from its funding to its settlement.
Phase(state) ==
    CASE state = "None" -> "none"
      [] state \in Unsettled -> "held"
      [] state = "Released" -> "paid"
      [] state = "Refunded" -> "returned"

E == INSTANCE Escrow WITH
        Job <- JobId,
        status <- [j \in JobId |-> Phase(jobs[j].state)],
        deposit <- [j \in JobId |-> jobs[j].amount]

ImplementsEscrow == E!Spec

\* The ether of a job is not stuck: unless the payer disputes, it reaches the
\* worker or returns to the payer.  It takes accounts that accept ether; the
\* push in _release and _refund fails for ever for one that does not.
FundsAreNotStuck ==
    \A j \in JobId :
        /\ jobs[j].state \in {"Funded", "Attested"}
        /\ {jobs[j].payer, jobs[j].worker} \cap Rejecting = {}
        ~> jobs[j].state \in {"Released", "Refunded", "Disputed"}
=============================================================================
