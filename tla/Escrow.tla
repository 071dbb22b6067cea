------------------------------- MODULE Escrow -------------------------------
(***************************************************************************)
(* What an escrow promises, whoever implements it: a deposit is taken once *)
(* and leaves once, all of it, either to the worker (less a fee that goes  *)
(* to the treasury) or back to the payer.                                  *)
(***************************************************************************)
EXTENDS Integers

CONSTANTS Job, Wei

VARIABLES
    status,    \* of each job: "none", "held", "paid" or "returned"
    deposit,   \* what was put in
    sent       \* what has left: to the worker, to the treasury, to the payer

vars == <<status, deposit, sent>>

Nothing == [worker |-> 0, treasury |-> 0, payer |-> 0]

Init ==
    /\ status = [j \in Job |-> "none"]
    /\ deposit = [j \in Job |-> 0]
    /\ sent = [j \in Job |-> Nothing]

Deposit(j, wei) ==
    /\ status[j] = "none" /\ wei > 0
    /\ status' = [status EXCEPT ![j] = "held"]
    /\ deposit' = [deposit EXCEPT ![j] = wei]
    /\ UNCHANGED sent

Pay(j, fee) ==
    /\ status[j] = "held"
    /\ status' = [status EXCEPT ![j] = "paid"]
    /\ sent' = [sent EXCEPT ![j] =
                   [worker |-> deposit[j] - fee, treasury |-> fee, payer |-> 0]]
    /\ UNCHANGED deposit

Return(j) ==
    /\ status[j] = "held"
    /\ status' = [status EXCEPT ![j] = "returned"]
    /\ sent' = [sent EXCEPT ![j] = [worker |-> 0, treasury |-> 0, payer |-> deposit[j]]]
    /\ UNCHANGED deposit

Next ==
    \E j \in Job :
        \/ \E wei \in Wei : Deposit(j, wei)
        \/ \E fee \in 0..deposit[j] : Pay(j, fee)
        \/ Return(j)

Spec == Init /\ [][Next]_vars
=============================================================================
