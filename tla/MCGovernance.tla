---------------------------- MODULE MCGovernance ----------------------------
(* TLC instances of Governance. *)
EXTENDS Governance, TLC

InMemory == {"memory"}
Sql == {"mysql"}

\* 50% / 67% are the defaults of VOTE-01.  A deadline at the first tick: what
\* comes at tick 0 is in time, what comes later is late.
DefaultTerms == [quorum : {50}, super : {67}, deadline : {1}, isLaw : BOOLEAN]

\* A quorum that two ballots are needed for, and a simple majority.
StrictTerms == [quorum : {51}, super : {50}, deadline : {1}, isLaw : {TRUE}]

\* Proposals whose body is not a law: a tally that passes one throws.
NoLaw == [quorum : {50}, super : {67}, deadline : {1}, isLaw : {FALSE}]

BothTerms == DefaultTerms \cup StrictTerms

Interchangeable == Permutations(Handler) \cup Permutations(Scan)
=============================================================================
