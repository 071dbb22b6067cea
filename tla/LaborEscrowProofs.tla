-------------------------- MODULE LaborEscrowProofs -------------------------
(***************************************************************************)
(* Proofs about LaborEscrow, for every set of accounts, every fee, window, *)
(* set of deadlines and number of jobs.                                    *)
(*                                                                         *)
(* The invariant of the runs is not inductive: that a payer gets back what *)
(* was deposited needs that nothing was sent before, and that the window   *)
(* opens once needs that a job waiting for an attestation has none.        *)
(***************************************************************************)
EXTENDS LaborEscrow, Sums

-----------------------------------------------------------------------------
\* What the state of a job says about its window, its signatures and its ether.
Bookkeeping ==
    \A j \in JobId :
        /\ jobs[j].state \in {"None", "Funded"} => jobs[j].disputeDeadline = 0
        /\ jobs[j].state \in {"Attested", "Disputed", "Released"} =>
              jobs[j].disputeDeadline # 0 /\ Completion(j) \in signed
        /\ jobs[j].state \notin {"Released", "Refunded"} => sent[j] = Nothing

IInv == TypeOK /\ Bookkeeping /\ SettledForCause

-----------------------------------------------------------------------------
\* The fee of an amount is part of it: feeBps is at most 100%.
LEMMA FeeIsPart ==
    ASSUME NEW wei \in Nat
    PROVE  Fee(wei) \in 0..wei
<1> DEFINE q == (wei * FeeBps) \div 10000
<1>1. FeeBps \in 0..10000
  BY ConstantsAssumption
<1>2. wei * FeeBps \in Nat /\ wei * FeeBps <= wei * 10000
  BY <1>1, Z3
<1>3. \A m \in Nat : m \div 10000 \in Nat /\ 10000 * (m \div 10000) <= m
  BY SMT
<1>4. q \in Nat /\ 10000 * q <= wei * 10000
  BY <1>2, <1>3
<1>5. q <= wei
  BY <1>4, SMT
<1> QED
  BY <1>4, <1>5 DEF Fee

\* A job that has been funded, whatever state it is in.
LEMMA KnownJob ==
    ASSUME TypeOK, NEW j \in JobId, jobs[j].state # "None"
    PROVE  j < nextJobId /\ jobs[j] \in FundedJob
BY DEF TypeOK, NoJob

LEMMA InitInv == Init => IInv
<1> SUFFICES ASSUME Init PROVE IInv
  OBVIOUS
<1>1. TypeOK
  BY ConstantsAssumption DEF Init, TypeOK, JobId, Nothing
<1>2. Bookkeeping /\ SettledForCause
  BY DEF Init, Bookkeeping, SettledForCause, NoJob
<1> QED
  BY <1>1, <1>2 DEF IInv

\* The part of the invariant that is about one job.
Sound(j) ==
    /\ jobs[j].state \in {"None", "Funded"} => jobs[j].disputeDeadline = 0
    /\ jobs[j].state \in {"Attested", "Disputed", "Released"} =>
          jobs[j].disputeDeadline # 0 /\ Completion(j) \in signed
    /\ jobs[j].state \notin {"Released", "Refunded"} => sent[j] = Nothing
    /\ jobs[j].state = "Released" =>
          now >= jobs[j].disputeDeadline \/ Resolution(j, TRUE) \in signed
    /\ jobs[j].state = "Refunded" =>
          \/ jobs[j].disputeDeadline = 0 /\ now > jobs[j].deadline
          \/ Resolution(j, FALSE) \in signed

LEMMA InvByJob == IInv <=> TypeOK /\ \A j \in JobId : Sound(j)
BY DEF IInv, Bookkeeping, SettledForCause, Sound

\* A call on one funded job keeps the invariant when it leaves the others
\* alone and keeps it for that one.
LEMMA OneJobCall ==
    ASSUME IInv, NEW j \in JobId, j < nextJobId,
           UNCHANGED <<now, nextJobId, signed>>, balance' \in Int,
           DOMAIN jobs' = JobId, jobs'[j] \in FundedJob,
           sent' \in [JobId -> [worker : Nat, treasury : Nat, payer : Nat]],
           \A k \in JobId \ {j} : jobs'[k] = jobs[k] /\ sent'[k] = sent[k],
           Sound(j)'
    PROVE  IInv'
<1>1. TypeOK'
  <2>1. TypeOK
    BY DEF IInv
  <2>2. \A k \in JobId : jobs'[k] \in IF k < nextJobId' THEN FundedJob ELSE {NoJob}
    BY <2>1 DEF TypeOK
  <2> QED
    BY <2>1, <2>2 DEF TypeOK
<1>2. \A k \in JobId : Sound(k)'
  <2> SUFFICES ASSUME NEW k \in JobId, k # j PROVE Sound(k)'
    OBVIOUS
  <2> QED
    BY InvByJob DEF Sound, Completion, Resolution
<1> QED
  BY <1>1, <1>2, InvByJob DEF IInv, Bookkeeping, SettledForCause, Sound

-----------------------------------------------------------------------------
LEMMA FundJobInv ==
    ASSUME IInv, NEW payer \in Account, NEW worker \in Account, NEW wei \in Wei,
           NEW deadline \in Deadline, FundJob(payer, worker, wei, deadline)
    PROVE  IInv'
<1>1. TypeOK /\ \A j \in JobId : Sound(j)
  BY InvByJob
<1>2. wei \in Nat \ {0}
  BY ConstantsAssumption DEF FundJob
<1> DEFINE job == [payer |-> payer, worker |-> worker, amount |-> wei,
                   deadline |-> deadline, disputeDeadline |-> 0, state |-> "Funded"]
<1>3. /\ nextJobId \in JobId /\ MaxJobs \in Nat
      /\ UNCHANGED <<now, sent, signed>> /\ nextJobId' = nextJobId + 1
      /\ balance' = balance + wei /\ jobs' = [jobs EXCEPT ![nextJobId] = job]
  BY ConstantsAssumption DEF FundJob
<1>4. PICK j \in JobId : j = nextJobId
  BY <1>3
<1>5. /\ DOMAIN jobs' = JobId /\ jobs'[j] = job
      /\ \A k \in JobId \ {j} : jobs'[k] = jobs[k]
  BY <1>1, <1>3, <1>4 DEF TypeOK
<1>6. job \in FundedJob
  BY <1>2, ConstantsAssumption DEF FundedJob, State
<1>7. job.state = "Funded" /\ job.disputeDeadline = 0
  OBVIOUS
<1> HIDE DEF job
<1>8. TypeOK'
  <2>1. \A k \in JobId : jobs'[k] \in IF k < nextJobId' THEN FundedJob ELSE {NoJob}
    BY <1>1, <1>3, <1>4, <1>5, <1>6 DEF TypeOK, JobId
  <2>2. nextJobId' \in 1..(MaxJobs + 1) /\ balance' \in Int
    BY <1>1, <1>2, <1>3 DEF TypeOK, JobId
  <2> QED
    BY <1>1, <1>3, <1>5, <2>1, <2>2 DEF TypeOK
<1>9. \A k \in JobId : Sound(k)'
  <2>1. Sound(j)'
    <3>1. jobs[j].state = "None"
      BY <1>1, <1>4 DEF TypeOK, NoJob
    <3>2. sent[j] = Nothing
      BY <1>1, <3>1 DEF Sound
    <3> QED
      BY <1>3, <1>5, <1>7, <3>2 DEF Sound
  <2>2. ASSUME NEW k \in JobId, k # j PROVE Sound(k)'
    BY <1>1, <1>3, <1>5, <2>2 DEF Sound, Completion, Resolution
  <2> QED
    BY <2>1, <2>2
<1> QED
  BY <1>8, <1>9 DEF IInv, Bookkeeping, SettledForCause, Sound

LEMMA AttestInv ==
    ASSUME IInv, NEW j \in JobId, AttestCompletion(j)
    PROVE  IInv'
<1>1. TypeOK /\ Sound(j)
  BY InvByJob
<1>2. j < nextJobId /\ jobs[j] \in FundedJob
  BY <1>1, KnownJob DEF AttestCompletion
<1>3. now + DisputeWindow \in 1..MaxTime
  BY <1>1, <1>2, ConstantsAssumption DEF TypeOK, FundedJob, AttestCompletion
<1>4. /\ DOMAIN jobs' = JobId
      /\ \A k \in JobId \ {j} : jobs'[k] = jobs[k]
      /\ jobs'[j] = [jobs[j] EXCEPT !.state = "Attested", !.disputeDeadline = now + DisputeWindow]
  BY <1>1 DEF TypeOK, AttestCompletion
<1>5. jobs'[j] \in FundedJob
  <2>1. now + DisputeWindow \in 0..MaxTime
    BY <1>3, ConstantsAssumption
  <2> QED
    BY <1>2, <1>4, <2>1 DEF FundedJob, State
<1>6. jobs'[j].state = "Attested" /\ jobs'[j].disputeDeadline = now + DisputeWindow
  BY <1>2, <1>4 DEF FundedJob
<1>7. Sound(j)'
  <2>1. now + DisputeWindow # 0
    BY <1>3
  <2>2. sent'[j] = Nothing /\ Completion(j) \in signed'
    BY <1>1 DEF Sound, AttestCompletion
  <2> QED
    BY <1>6, <2>1, <2>2 DEF Sound
<1> QED
  BY <1>1, <1>2, <1>4, <1>5, <1>7, OneJobCall DEF AttestCompletion, TypeOK

LEMMA DisputeInv ==
    ASSUME IInv, NEW j \in JobId, NEW sender \in Account, DisputeAttestation(j, sender)
    PROVE  IInv'
<1>1. TypeOK /\ Sound(j)
  BY InvByJob
<1>2. j < nextJobId /\ jobs[j] \in FundedJob
  BY <1>1, KnownJob DEF DisputeAttestation
<1>3. /\ DOMAIN jobs' = JobId
      /\ \A k \in JobId \ {j} : jobs'[k] = jobs[k]
      /\ jobs'[j] = [jobs[j] EXCEPT !.state = "Disputed"]
  BY <1>1 DEF TypeOK, DisputeAttestation
<1>4. jobs'[j] \in FundedJob
  BY <1>2, <1>3 DEF FundedJob, State
<1>5. Sound(j)'
  BY <1>1, <1>2, <1>3 DEF Sound, DisputeAttestation, FundedJob, Completion
<1> QED
  BY <1>1, <1>2, <1>3, <1>4, <1>5, OneJobCall DEF DisputeAttestation, TypeOK

\* What _release does to a job that is still held, and to its ether.
LEMMA ReleaseEffect ==
    ASSUME IInv, NEW j \in JobId, jobs[j].state \in Unsettled, Release(j)
    PROVE  /\ j < nextJobId /\ jobs[j] \in FundedJob /\ sent[j] = Nothing
           /\ DOMAIN jobs' = JobId /\ balance' \in Int
           /\ jobs'[j] = [jobs[j] EXCEPT !.state = "Released"]
           /\ jobs'[j] \in FundedJob
           /\ sent' = [sent EXCEPT ![j] = [worker |-> jobs[j].amount - Fee(jobs[j].amount),
                                           treasury |-> Fee(jobs[j].amount), payer |-> 0]]
           /\ sent' \in [JobId -> [worker : Nat, treasury : Nat, payer : Nat]]
           /\ \A k \in JobId \ {j} : jobs'[k] = jobs[k] /\ sent'[k] = sent[k]
<1>1. TypeOK /\ Sound(j)
  BY InvByJob
<1>2. j < nextJobId /\ jobs[j] \in FundedJob
  BY <1>1, KnownJob DEF Unsettled
<1>3. sent[j] = Nothing
  BY <1>1 DEF Sound, Unsettled
<1> DEFINE wei == jobs[j].amount
<1>4. wei \in Nat \ {0} /\ Fee(wei) \in 0..wei
  BY <1>2, FeeIsPart DEF FundedJob
<1> DEFINE gone == [worker |-> wei - Fee(wei), treasury |-> Fee(wei), payer |-> 0]
<1>5. sent' = [sent EXCEPT ![j] = gone] /\ balance' \in Int
  <2>1. /\ sent[j].worker + (wei - Fee(wei)) = wei - Fee(wei)
        /\ sent[j].treasury + Fee(wei) = Fee(wei) /\ sent[j].payer + 0 = 0
    BY <1>3, <1>4 DEF Nothing
  <2>2. balance \in Int
    BY <1>1 DEF TypeOK
  <2>3. sent' = [sent EXCEPT ![j] = gone]
    BY <2>1 DEF Release, Transfer
  <2>4. balance' \in Int
    BY <1>4, <2>2 DEF Release, Transfer
  <2> QED
    BY <2>3, <2>4
<1>6. gone \in [worker : Nat, treasury : Nat, payer : Nat]
  BY <1>4
<1>7. /\ DOMAIN jobs' = JobId
      /\ jobs'[j] = [jobs[j] EXCEPT !.state = "Released"]
      /\ \A k \in JobId \ {j} : jobs'[k] = jobs[k]
  BY <1>1 DEF TypeOK, Release
<1>8. jobs'[j] \in FundedJob
  BY <1>2, <1>7 DEF FundedJob, State
<1> HIDE DEF gone
<1>9. sent' \in [JobId -> [worker : Nat, treasury : Nat, payer : Nat]]
      /\ \A k \in JobId \ {j} : sent'[k] = sent[k]
  BY <1>1, <1>5, <1>6 DEF TypeOK
<1> QED
  BY <1>2, <1>3, <1>5, <1>7, <1>8, <1>9 DEF gone

\* What _refund does to a job that is still held, and to its ether.
LEMMA GiveBackEffect ==
    ASSUME IInv, NEW j \in JobId, jobs[j].state \in Unsettled, GiveBack(j)
    PROVE  /\ j < nextJobId /\ jobs[j] \in FundedJob /\ sent[j] = Nothing
           /\ DOMAIN jobs' = JobId /\ balance' \in Int
           /\ jobs'[j] = [jobs[j] EXCEPT !.state = "Refunded"]
           /\ jobs'[j] \in FundedJob
           /\ sent' = [sent EXCEPT ![j] = [worker |-> 0, treasury |-> 0,
                                           payer |-> jobs[j].amount]]
           /\ sent' \in [JobId -> [worker : Nat, treasury : Nat, payer : Nat]]
           /\ \A k \in JobId \ {j} : jobs'[k] = jobs[k] /\ sent'[k] = sent[k]
<1>1. TypeOK /\ Sound(j)
  BY InvByJob
<1>2. j < nextJobId /\ jobs[j] \in FundedJob
  BY <1>1, KnownJob DEF Unsettled
<1>3. sent[j] = Nothing
  BY <1>1 DEF Sound, Unsettled
<1> DEFINE gone == [worker |-> 0, treasury |-> 0, payer |-> jobs[j].amount]
<1>4. jobs[j].amount \in Nat \ {0}
  BY <1>2 DEF FundedJob
<1>5. sent' = [sent EXCEPT ![j] = gone] /\ balance' \in Int
  <2>1. /\ sent[j].worker + 0 = 0 /\ sent[j].treasury + 0 = 0
        /\ sent[j].payer + jobs[j].amount = jobs[j].amount
    BY <1>3, <1>4 DEF Nothing
  <2>2. balance \in Int
    BY <1>1 DEF TypeOK
  <2>3. sent' = [sent EXCEPT ![j] = gone]
    BY <2>1 DEF GiveBack, Transfer
  <2>4. balance' \in Int
    BY <1>4, <2>2 DEF GiveBack, Transfer
  <2> QED
    BY <2>3, <2>4
<1>6. gone \in [worker : Nat, treasury : Nat, payer : Nat]
  BY <1>4
<1>7. /\ DOMAIN jobs' = JobId
      /\ jobs'[j] = [jobs[j] EXCEPT !.state = "Refunded"]
      /\ \A k \in JobId \ {j} : jobs'[k] = jobs[k]
  BY <1>1 DEF TypeOK, GiveBack
<1>8. jobs'[j] \in FundedJob
  BY <1>2, <1>7 DEF FundedJob, State
<1> HIDE DEF gone
<1>9. sent' \in [JobId -> [worker : Nat, treasury : Nat, payer : Nat]]
      /\ \A k \in JobId \ {j} : sent'[k] = sent[k]
  BY <1>1, <1>5, <1>6 DEF TypeOK
<1> QED
  BY <1>2, <1>3, <1>5, <1>7, <1>8, <1>9 DEF gone

-----------------------------------------------------------------------------
LEMMA FinalizeInv ==
    ASSUME IInv, NEW j \in JobId, Finalize(j)
    PROVE  IInv'
<1>1. TypeOK /\ Sound(j)
  BY InvByJob
<1>2. jobs[j].state \in Unsettled /\ Release(j) /\ now >= jobs[j].disputeDeadline
      /\ UNCHANGED <<now, nextJobId, signed>>
  BY DEF Finalize, Unsettled
<1>3. jobs'[j] = [jobs[j] EXCEPT !.state = "Released"] /\ jobs[j] \in FundedJob
  BY <1>2, ReleaseEffect
<1>4. Completion(j) \in signed /\ jobs[j].disputeDeadline # 0
  BY <1>1 DEF Sound, Finalize
<1>5. Sound(j)'
  BY <1>2, <1>3, <1>4 DEF Sound, FundedJob
<1> QED
  BY <1>2, <1>5, ReleaseEffect, OneJobCall

LEMMA ResolveInv ==
    ASSUME IInv, NEW j \in JobId, NEW toWorker \in BOOLEAN, ResolveDispute(j, toWorker)
    PROVE  IInv'
<1>1. TypeOK /\ Sound(j)
  BY InvByJob
<1>2. jobs[j].state \in Unsettled /\ UNCHANGED <<now, nextJobId, signed>>
  BY DEF ResolveDispute, Unsettled
<1>3. CASE toWorker
  <2>1. Release(j) /\ Resolution(j, TRUE) \in signed
    BY <1>3 DEF ResolveDispute
  <2>2. jobs'[j] = [jobs[j] EXCEPT !.state = "Released"] /\ jobs[j] \in FundedJob
    BY <1>2, <2>1, ReleaseEffect
  <2>3. Completion(j) \in signed /\ jobs[j].disputeDeadline # 0
    BY <1>1 DEF Sound, ResolveDispute
  <2>4. Sound(j)'
    BY <1>2, <2>1, <2>2, <2>3 DEF Sound, FundedJob
  <2> QED
    BY <1>2, <2>1, <2>4, ReleaseEffect, OneJobCall
<1>4. CASE ~toWorker
  <2>1. GiveBack(j) /\ Resolution(j, FALSE) \in signed
    BY <1>4 DEF ResolveDispute
  <2>2. jobs'[j] = [jobs[j] EXCEPT !.state = "Refunded"] /\ jobs[j] \in FundedJob
    BY <1>2, <2>1, GiveBackEffect
  <2>3. Sound(j)'
    BY <1>2, <2>1, <2>2 DEF Sound, FundedJob
  <2> QED
    BY <1>2, <2>1, <2>3, GiveBackEffect, OneJobCall
<1> QED
  BY <1>3, <1>4

LEMMA RefundInv ==
    ASSUME IInv, NEW j \in JobId, NEW sender \in Account, Refund(j, sender)
    PROVE  IInv'
<1>1. TypeOK /\ Sound(j)
  BY InvByJob
<1>2. jobs[j].state \in Unsettled /\ GiveBack(j) /\ now > jobs[j].deadline
      /\ UNCHANGED <<now, nextJobId, signed>>
  BY DEF Refund, Unsettled
<1>3. jobs'[j] = [jobs[j] EXCEPT !.state = "Refunded"] /\ jobs[j] \in FundedJob
  BY <1>2, GiveBackEffect
<1>4. jobs[j].disputeDeadline = 0
  BY <1>1 DEF Sound, Refund
<1>5. Sound(j)'
  BY <1>2, <1>3, <1>4 DEF Sound, FundedJob
<1> QED
  BY <1>2, <1>5, GiveBackEffect, OneJobCall

\* Signatures only accumulate and time only advances.
LEMMA SignInv ==
    ASSUME IInv, NEW digest \in Digest, Sign(digest)
    PROVE  IInv'
<1>1. TypeOK'
  BY DEF IInv, TypeOK, Sign
<1>2. \A j \in JobId : Sound(j)'
  BY InvByJob DEF Sound, Sign, Completion, Resolution
<1> QED
  BY <1>1, <1>2 DEF IInv, Bookkeeping, SettledForCause, Sound

LEMMA MineInv ==
    ASSUME IInv, NEW time \in 0..MaxTime, Mine(time)
    PROVE  IInv'
<1>1. TypeOK /\ \A j \in JobId : Sound(j)
  BY InvByJob
<1>2. now \in Nat /\ time \in 1..MaxTime /\ now' = time /\ now < time
      /\ UNCHANGED <<nextJobId, jobs, balance, sent, signed>>
  BY <1>1, ConstantsAssumption DEF TypeOK, Mine
<1>3. TypeOK'
  BY <1>1, <1>2 DEF TypeOK
<1>4. ASSUME NEW j \in JobId PROVE Sound(j)'
  <2>1. jobs[j].disputeDeadline \in Int /\ jobs[j].deadline \in Int
    BY <1>1, ConstantsAssumption DEF TypeOK, FundedJob, NoJob
  <2> QED
    BY <1>1, <1>2, <2>1 DEF Sound, Completion, Resolution
<1> QED
  BY <1>3, <1>4 DEF IInv, Bookkeeping, SettledForCause, Sound

LEMMA StutterInv ==
    ASSUME IInv, UNCHANGED vars
    PROVE  IInv'
<1>1. TypeOK'
  BY DEF IInv, TypeOK, vars
<1>2. \A j \in JobId : Sound(j)'
  BY InvByJob DEF Sound, vars, Completion, Resolution
<1> QED
  BY <1>1, <1>2 DEF IInv, Bookkeeping, SettledForCause, Sound

LEMMA NextInv == IInv /\ [Next]_vars => IInv'
<1> SUFFICES ASSUME IInv, [Next]_vars PROVE IInv'
  OBVIOUS
<1>1. ASSUME NEW payer \in Account, NEW worker \in Account, NEW wei \in Wei,
             NEW deadline \in Deadline, FundJob(payer, worker, wei, deadline)
      PROVE  IInv'
  BY <1>1, FundJobInv
<1>2. ASSUME NEW j \in JobId, Call(j) PROVE IInv'
  BY <1>2, AttestInv, FinalizeInv, ResolveInv, DisputeInv, RefundInv DEF Call
<1>3. ASSUME NEW j \in JobId, Signing(j) PROVE IInv'
  <2>1. Completion(j) \in Digest /\ \A toWorker \in BOOLEAN : Resolution(j, toWorker) \in Digest
    BY DEF Completion, Resolution, Digest
  <2> QED
    BY <1>3, <2>1, SignInv DEF Signing
<1>4. ASSUME NEW time \in 0..MaxTime, Mine(time) PROVE IInv'
  BY <1>4, MineInv
<1>5. CASE UNCHANGED vars
  BY <1>5, StutterInv
<1> QED
  BY <1>1, <1>2, <1>3, <1>4, <1>5 DEF Next

LEMMA Invariance == Spec => []IInv
BY InitInv, NextInv, PTL DEF Spec

-----------------------------------------------------------------------------
\* Every variable keeps its type; in particular ids are given out in order.
THEOREM TypeCorrect == Spec => []TypeOK
<1>1. IInv => TypeOK
  BY DEF IInv
<1> QED
  BY <1>1, Invariance, PTL

\* No worker is paid and no payer refunded without the signature or the
\* timeout that the contract requires, in any order of calls.
THEOREM SettlesForCause == Spec => []SettledForCause
<1>1. IInv => SettledForCause
  BY DEF IInv
<1> QED
  BY <1>1, Invariance, PTL

\* A window that has been opened is never moved, and its job never goes back to
\* waiting for an attestation.
THEOREM WindowIsOpenedOnce == Spec => WindowOpensOnce
<1> DEFINE Once(j) ==
      jobs[j].disputeDeadline # 0 =>
          /\ jobs'[j].disputeDeadline = jobs[j].disputeDeadline
          /\ jobs'[j].state # "Funded"
<1>1. ASSUME IInv, [Next]_vars PROVE [\A j \in JobId : Once(j)]_vars
  <2> SUFFICES ASSUME NEW j \in JobId, jobs[j].disputeDeadline # 0, Next
               PROVE  /\ jobs'[j].disputeDeadline = jobs[j].disputeDeadline
                      /\ jobs'[j].state # "Funded"
    BY <1>1
  <2>1. TypeOK /\ Sound(j) /\ jobs[j].state \notin {"None", "Funded"}
    BY <1>1, InvByJob DEF Sound
  <2>2. jobs[j] \in FundedJob /\ j < nextJobId
    BY <2>1, KnownJob
  <2>3. DOMAIN jobs = JobId
    BY <2>1 DEF TypeOK
  <2>4. ASSUME NEW payer \in Account, NEW worker \in Account, NEW wei \in Wei,
               NEW deadline \in Deadline, FundJob(payer, worker, wei, deadline)
        PROVE  jobs'[j] = jobs[j]
    BY <2>1, <2>2, <2>3, <2>4 DEF FundJob, TypeOK
  <2>5. ASSUME NEW k \in JobId, Call(k)
        PROVE  \/ jobs'[j] = jobs[j]
               \/ \E state \in State \ {"Funded"} :
                     jobs'[j] = [jobs[j] EXCEPT !.state = state]
    <3>1. CASE AttestCompletion(k)
      BY <2>1, <2>3, <3>1 DEF AttestCompletion
    <3>2. ASSUME NEW state \in State \ {"Funded"}, jobs' = [jobs EXCEPT ![k].state = state]
          PROVE  \/ jobs'[j] = jobs[j]
                 \/ jobs'[j] = [jobs[j] EXCEPT !.state = state]
      BY <2>3, <3>2
    <3>3. CASE ~AttestCompletion(k)
      <4>1. \E state \in {"Released", "Refunded", "Disputed"} :
               jobs' = [jobs EXCEPT ![k].state = state]
        BY <2>5, <3>3 DEF Call, Finalize, ResolveDispute, DisputeAttestation, Refund,
           Release, GiveBack
      <4> QED
        BY <3>2, <4>1 DEF State
    <3> QED
      BY <3>1, <3>3
  <2>6. ASSUME NEW k \in JobId, Signing(k) PROVE jobs'[j] = jobs[j]
    BY <2>6 DEF Signing, Sign
  <2>7. ASSUME NEW time \in 0..MaxTime, Mine(time) PROVE jobs'[j] = jobs[j]
    BY <2>7 DEF Mine
  <2>8. \/ jobs'[j] = jobs[j]
        \/ \E state \in State \ {"Funded"} : jobs'[j] = [jobs[j] EXCEPT !.state = state]
    BY <2>4, <2>5, <2>6, <2>7 DEF Next
  <2> QED
    BY <2>1, <2>2, <2>8 DEF FundedJob
<1> QED
  BY <1>1, Invariance, PTL DEF Spec, WindowOpensOnce

-----------------------------------------------------------------------------
(* Solvency: a call changes what is owed by what it takes in or sends out. *)

LEMMA OwedType ==
    ASSUME TypeOK
    PROVE  Owed \in [JobId -> Int]
<1>1. ASSUME NEW j \in JobId, jobs[j].state \in Unsettled PROVE jobs[j].amount \in Int
  BY <1>1, KnownJob DEF Unsettled, FundedJob
<1> QED
  BY <1>1 DEF Owed

\* The sum of what is owed moves with the one job that a call touches.
LEMMA OwedMoves ==
    ASSUME TypeOK, TypeOK', NEW j \in JobId, Solvent,
           \A k \in JobId \ {j} : jobs'[k] = jobs[k],
           balance' = balance + (Owed[j])' - Owed[j]
    PROVE  Solvent'
<1> DEFINE new == Owed'
<1>1. Owed \in [JobId -> Int] /\ new \in [JobId -> Int]
  <2>1. ASSUME NEW k \in JobId, jobs'[k].state \in Unsettled PROVE jobs'[k].amount \in Int
    BY <2>1 DEF TypeOK, NoJob, Unsettled, FundedJob
  <2>2. new \in [JobId -> Int]
    BY <2>1 DEF Owed
  <2> QED
    BY <2>2, OwedType
<1>2. \A k \in JobId \ {j} : new[k] = Owed[k]
  BY DEF Owed
<1>3. (Owed[j])' = new[j]
  OBVIOUS
<1>4. IsFiniteSet(JobId)
  BY FS_Interval, ConstantsAssumption DEF JobId
<1> HIDE DEF new
<1>5. SumFunction(new) = SumFunction(Owed) + new[j] - Owed[j]
  BY <1>1, <1>2, <1>4, SumChange
<1>6. balance' = SumFunction(new)
  BY <1>3, <1>5 DEF Solvent
<1> QED
  BY <1>6 DEF new, Solvent

LEMMA InitSolvent == Init => Solvent
<1> SUFFICES ASSUME Init PROVE Solvent
  OBVIOUS
<1>1. Owed \in [JobId -> Int] /\ \A j \in JobId : Owed[j] = 0
  BY DEF Init, Owed, NoJob, Unsettled
<1>2. IsFiniteSet(JobId)
  BY FS_Interval, ConstantsAssumption DEF JobId
<1>3. SumFunction(Owed) = 0
  BY <1>1, <1>2, SumZero
<1> QED
  BY <1>3 DEF Init, Solvent

LEMMA FundSolvent ==
    ASSUME IInv, TypeOK', Solvent, NEW payer \in Account, NEW worker \in Account,
           NEW wei \in Wei, NEW deadline \in Deadline, FundJob(payer, worker, wei, deadline)
    PROVE  Solvent'
<1>1. TypeOK
  BY DEF IInv
<1>2. PICK j \in JobId : j = nextJobId
  BY DEF FundJob
<1>3. /\ \A k \in JobId \ {j} : jobs'[k] = jobs[k]
      /\ jobs'[j].state = "Funded" /\ jobs'[j].amount = wei /\ wei \in Nat
      /\ balance' = balance + wei /\ balance \in Int
  BY <1>1, <1>2, ConstantsAssumption DEF TypeOK, FundJob
<1>4. (Owed[j])' = wei
  BY <1>3 DEF Owed, Unsettled
<1>5. Owed[j] = 0
  BY <1>1, <1>2 DEF TypeOK, NoJob, Owed, Unsettled
<1> QED
  BY <1>1, <1>3, <1>4, <1>5, OwedMoves

\* A settlement sends out exactly what was owed for the job.
LEMMA SettleSolvent ==
    ASSUME IInv, TypeOK', Solvent, NEW j \in JobId, jobs[j].state \in Unsettled,
           Release(j) \/ GiveBack(j)
    PROVE  Solvent'
<1>1. TypeOK
  BY DEF IInv
<1>2. /\ \A k \in JobId \ {j} : jobs'[k] = jobs[k]
      /\ jobs[j] \in FundedJob /\ jobs'[j].state \in {"Released", "Refunded"}
  <2>1. CASE Release(j)
    <3>1. /\ jobs[j] \in FundedJob /\ jobs'[j] = [jobs[j] EXCEPT !.state = "Released"]
          /\ \A k \in JobId \ {j} : jobs'[k] = jobs[k]
      BY <2>1, ReleaseEffect
    <3> QED
      BY <3>1 DEF FundedJob
  <2>2. CASE GiveBack(j)
    <3>1. /\ jobs[j] \in FundedJob /\ jobs'[j] = [jobs[j] EXCEPT !.state = "Refunded"]
          /\ \A k \in JobId \ {j} : jobs'[k] = jobs[k]
      BY <2>2, GiveBackEffect
    <3> QED
      BY <3>1 DEF FundedJob
  <2> QED
    BY <2>1, <2>2
<1> DEFINE wei == jobs[j].amount
<1>3. wei \in Nat /\ Fee(wei) \in 0..wei /\ balance \in Int
  BY <1>1, <1>2, FeeIsPart DEF FundedJob, TypeOK
<1>4. balance' = balance - wei
  BY <1>3 DEF Release, GiveBack, Transfer
<1>5. (Owed[j])' = 0 /\ Owed[j] = wei
  BY <1>2 DEF Owed, Unsettled
<1> QED
  BY <1>1, <1>2, <1>3, <1>4, <1>5, OwedMoves

\* An attestation and a dispute keep the ether: the job stays unsettled.
LEMMA HeldSolvent ==
    ASSUME IInv, TypeOK', Solvent, NEW j \in JobId,
           AttestCompletion(j) \/ \E sender \in Account : DisputeAttestation(j, sender)
    PROVE  Solvent'
<1>1. TypeOK /\ jobs[j].state \in Unsettled /\ balance' = balance /\ balance \in Int
  BY DEF IInv, TypeOK, AttestCompletion, DisputeAttestation, Unsettled
<1>2. jobs[j] \in FundedJob
  BY <1>1, KnownJob DEF Unsettled
<1>3. /\ \A k \in JobId \ {j} : jobs'[k] = jobs[k]
      /\ jobs'[j].state \in Unsettled /\ jobs'[j].amount = jobs[j].amount
  BY <1>1, <1>2 DEF TypeOK, FundedJob, AttestCompletion, DisputeAttestation, Unsettled
<1>4. (Owed[j])' = Owed[j] /\ Owed[j] \in Int
  BY <1>1, <1>2, <1>3 DEF Owed, FundedJob
<1> QED
  BY <1>1, <1>3, <1>4, OwedMoves

LEMMA NextSolvent == IInv /\ TypeOK' /\ Solvent /\ [Next]_vars => Solvent'
<1> SUFFICES ASSUME IInv, TypeOK', Solvent, [Next]_vars PROVE Solvent'
  OBVIOUS
<1>1. ASSUME NEW payer \in Account, NEW worker \in Account, NEW wei \in Wei,
             NEW deadline \in Deadline, FundJob(payer, worker, wei, deadline)
      PROVE  Solvent'
  BY <1>1, FundSolvent
<1>2. ASSUME NEW j \in JobId, Call(j) PROVE Solvent'
  <2>1. CASE AttestCompletion(j) \/ \E sender \in Account : DisputeAttestation(j, sender)
    BY <2>1, HeldSolvent
  <2>2. CASE Finalize(j)
    BY <2>2, SettleSolvent DEF Finalize, Unsettled
  <2>3. CASE \E toWorker \in BOOLEAN : ResolveDispute(j, toWorker)
    BY <2>3, SettleSolvent DEF ResolveDispute, Unsettled
  <2>4. CASE \E sender \in Account : Refund(j, sender)
    BY <2>4, SettleSolvent DEF Refund, Unsettled
  <2> QED
    BY <1>2, <2>1, <2>2, <2>3, <2>4 DEF Call
<1>3. ASSUME UNCHANGED <<jobs, balance>> PROVE Solvent'
  <2>1. UNCHANGED Owed
    BY <1>3 DEF Owed
  <2> QED
    BY <1>3, <2>1 DEF Solvent
<1>4. ASSUME NEW j \in JobId, Signing(j) PROVE UNCHANGED <<jobs, balance>>
  BY <1>4 DEF Signing, Sign
<1>5. ASSUME NEW time \in 0..MaxTime, Mine(time) PROVE UNCHANGED <<jobs, balance>>
  BY <1>5 DEF Mine
<1>6. CASE UNCHANGED vars
  BY <1>3, <1>6 DEF vars
<1> QED
  BY <1>1, <1>2, <1>3, <1>4, <1>5, <1>6 DEF Next

\* The balance of the contract is at all times the sum of the jobs that are not
\* settled: every one of them can be paid, and none with the ether of another.
THEOREM StaysSolvent == Spec => []Solvent
<1>1. Init => IInv /\ Solvent
  BY InitInv, InitSolvent
<1>2. IInv /\ Solvent /\ [Next]_vars => IInv' /\ Solvent'
  <2>1. IInv => TypeOK
    BY DEF IInv
  <2>2. IInv' => TypeOK'
    BY DEF IInv
  <2> QED
    BY <2>1, <2>2, NextInv, NextSolvent
<1> QED
  BY <1>1, <1>2, PTL DEF Spec

-----------------------------------------------------------------------------
(* LaborEscrow implements Escrow. *)

status == [j \in JobId |-> Phase(jobs[j].state)]
deposit == [j \in JobId |-> jobs[j].amount]

LEMMA Phases ==
    /\ Phase("None") = "none"
    /\ \A state \in Unsettled : Phase(state) = "held"
    /\ Phase("Released") = "paid" /\ Phase("Refunded") = "returned"
BY DEF Phase, Unsettled

\* A call that changes only the state of one job moves only its phase.
LEMMA PhaseMoves ==
    ASSUME TypeOK, NEW j \in JobId, jobs[j].state # "None", NEW state \in State,
           DOMAIN jobs' = JobId, jobs'[j] = [jobs[j] EXCEPT !.state = state],
           \A k \in JobId \ {j} : jobs'[k] = jobs[k]
    PROVE  status' = [status EXCEPT ![j] = Phase(state)] /\ UNCHANGED deposit
<1>1. jobs[j] \in FundedJob
  BY KnownJob
<1>2. jobs'[j].state = state /\ jobs'[j].amount = jobs[j].amount
  BY <1>1 DEF FundedJob
<1> QED
  BY <1>2 DEF status, deposit

LEMMA InitRefines == Init => E!Init
<1> SUFFICES ASSUME Init PROVE E!Init
  OBVIOUS
<1>1. status = [j \in JobId |-> "none"] /\ deposit = [j \in JobId |-> 0]
  BY Phases DEF Init, status, deposit, NoJob
<1> QED
  BY <1>1 DEF Init, E!Init, status, deposit, Nothing, E!Nothing

LEMMA FundRefines ==
    ASSUME IInv, NEW payer \in Account, NEW worker \in Account, NEW wei \in Wei,
           NEW deadline \in Deadline, FundJob(payer, worker, wei, deadline)
    PROVE  \E j \in JobId : E!Deposit(j, wei)
<1>1. TypeOK
  BY DEF IInv
<1>2. PICK j \in JobId : j = nextJobId
  BY DEF FundJob
<1>3. jobs[j] = NoJob
  BY <1>1, <1>2 DEF TypeOK
<1>4. /\ DOMAIN jobs' = JobId /\ wei > 0 /\ UNCHANGED sent
      /\ jobs'[j].state = "Funded" /\ jobs'[j].amount = wei
      /\ \A k \in JobId \ {j} : jobs'[k] = jobs[k]
  BY <1>1, <1>2 DEF TypeOK, FundJob
<1>5. Phase("Funded") = "held"
  BY Phases DEF Unsettled
<1>6. /\ status[j] = "none"
      /\ status' = [status EXCEPT ![j] = "held"]
      /\ deposit' = [deposit EXCEPT ![j] = wei]
  <2>1. status[j] = "none"
    BY <1>3, Phases DEF status, NoJob
  <2>2. status' = [status EXCEPT ![j] = "held"]
    BY <1>4, <1>5 DEF status
  <2>3. deposit' = [deposit EXCEPT ![j] = wei]
    BY <1>4 DEF deposit
  <2> QED
    BY <2>1, <2>2, <2>3
<1> QED
  BY <1>4, <1>6 DEF E!Deposit, status, deposit

LEMMA ReleaseRefines ==
    ASSUME IInv, NEW j \in JobId, jobs[j].state \in Unsettled, Release(j)
    PROVE  \E fee \in 0..deposit[j] : E!Pay(j, fee)
<1>1. TypeOK
  BY DEF IInv
<1>2. /\ jobs[j] \in FundedJob
      /\ DOMAIN jobs' = JobId /\ jobs'[j] = [jobs[j] EXCEPT !.state = "Released"]
      /\ sent' = [sent EXCEPT ![j] = [worker |-> jobs[j].amount - Fee(jobs[j].amount),
                                      treasury |-> Fee(jobs[j].amount), payer |-> 0]]
      /\ \A k \in JobId \ {j} : jobs'[k] = jobs[k]
  BY ReleaseEffect
<1>3. status' = [status EXCEPT ![j] = "paid"] /\ UNCHANGED deposit
  BY <1>1, <1>2, PhaseMoves, Phases DEF State, Unsettled
<1>4. status[j] = "held" /\ deposit[j] = jobs[j].amount
  BY Phases DEF status, deposit
<1>5. Fee(jobs[j].amount) \in 0..deposit[j]
  BY <1>2, <1>4, FeeIsPart DEF FundedJob
<1>6. E!Pay(j, Fee(jobs[j].amount))
  BY <1>2, <1>3, <1>4 DEF E!Pay, status, deposit
<1> QED
  BY <1>5, <1>6

LEMMA GiveBackRefines ==
    ASSUME IInv, NEW j \in JobId, jobs[j].state \in Unsettled, GiveBack(j)
    PROVE  E!Return(j)
<1>1. TypeOK
  BY DEF IInv
<1>2. /\ jobs[j] \in FundedJob
      /\ DOMAIN jobs' = JobId /\ jobs'[j] = [jobs[j] EXCEPT !.state = "Refunded"]
      /\ sent' = [sent EXCEPT ![j] = [worker |-> 0, treasury |-> 0,
                                      payer |-> jobs[j].amount]]
      /\ \A k \in JobId \ {j} : jobs'[k] = jobs[k]
  BY GiveBackEffect
<1>3. status' = [status EXCEPT ![j] = "returned"] /\ UNCHANGED deposit
  BY <1>1, <1>2, PhaseMoves, Phases DEF State, Unsettled
<1>4. status[j] = "held" /\ deposit[j] = jobs[j].amount
  BY Phases DEF status, deposit
<1> QED
  BY <1>2, <1>3, <1>4 DEF E!Return, status, deposit

\* An attestation and a dispute are invisible from outside: the ether stays.
LEMMA HeldStutters ==
    ASSUME IInv, NEW j \in JobId,
           AttestCompletion(j) \/ \E sender \in Account : DisputeAttestation(j, sender)
    PROVE  UNCHANGED <<status, deposit, sent>>
<1>1. TypeOK /\ jobs[j].state \in Unsettled /\ UNCHANGED sent
  BY DEF IInv, AttestCompletion, DisputeAttestation, Unsettled
<1>2. jobs[j] \in FundedJob
  BY <1>1, KnownJob DEF Unsettled
<1>3. /\ DOMAIN jobs' = JobId
      /\ \A k \in JobId \ {j} : jobs'[k] = jobs[k]
      /\ jobs'[j].state \in Unsettled /\ jobs'[j].amount = jobs[j].amount
  BY <1>1, <1>2 DEF TypeOK, FundedJob, AttestCompletion, DisputeAttestation, Unsettled
<1> QED
  BY <1>1, <1>3, Phases DEF status, deposit

LEMMA NextRefines == IInv /\ [Next]_vars => [E!Next]_<<status, deposit, sent>>
<1> SUFFICES ASSUME IInv, [Next]_vars PROVE E!Next \/ UNCHANGED <<status, deposit, sent>>
  OBVIOUS
<1>1. ASSUME NEW payer \in Account, NEW worker \in Account, NEW wei \in Wei,
             NEW deadline \in Deadline, FundJob(payer, worker, wei, deadline)
      PROVE  E!Next
  BY <1>1, FundRefines DEF E!Next
<1>2. ASSUME NEW j \in JobId, Call(j) PROVE E!Next \/ UNCHANGED <<status, deposit, sent>>
  <2>1. CASE AttestCompletion(j) \/ \E sender \in Account : DisputeAttestation(j, sender)
    BY <2>1, HeldStutters
  <2>2. ASSUME Release(j), jobs[j].state \in Unsettled PROVE E!Next
    BY <2>2, ReleaseRefines DEF E!Next, deposit
  <2>3. ASSUME GiveBack(j), jobs[j].state \in Unsettled PROVE E!Next
    BY <2>3, GiveBackRefines DEF E!Next
  <2>4. CASE Finalize(j)
    BY <2>2, <2>4 DEF Finalize, Unsettled
  <2>5. CASE \E toWorker \in BOOLEAN : ResolveDispute(j, toWorker)
    BY <2>2, <2>3, <2>5 DEF ResolveDispute, Unsettled
  <2>6. CASE \E sender \in Account : Refund(j, sender)
    BY <2>3, <2>6 DEF Refund, Unsettled
  <2> QED
    BY <1>2, <2>1, <2>4, <2>5, <2>6 DEF Call
<1>3. ASSUME UNCHANGED <<jobs, sent>> PROVE UNCHANGED <<status, deposit, sent>>
  BY <1>3 DEF status, deposit
<1>4. ASSUME NEW j \in JobId, Signing(j) PROVE UNCHANGED <<jobs, sent>>
  BY <1>4 DEF Signing, Sign
<1>5. ASSUME NEW time \in 0..MaxTime, Mine(time) PROVE UNCHANGED <<jobs, sent>>
  BY <1>5 DEF Mine
<1>6. CASE UNCHANGED vars
  BY <1>3, <1>6 DEF vars
<1> QED
  BY <1>1, <1>2, <1>3, <1>4, <1>5, <1>6 DEF Next

\* The contract is an escrow: each deposit is taken once and leaves once, in
\* full, to the worker and the treasury or back to the payer.
THEOREM Implements == Spec => ImplementsEscrow
<1>1. IInv /\ [Next]_vars => [E!Next]_E!vars
  BY NextRefines DEF E!vars, status, deposit
<1> QED
  BY <1>1, InitRefines, Invariance, PTL DEF Spec, ImplementsEscrow, E!Spec
=============================================================================
