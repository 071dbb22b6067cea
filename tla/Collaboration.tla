---------------------------- MODULE Collaboration ----------------------------
(***************************************************************************)
(* The collaboration engine of the Society Protocol (protocol/src/coc.ts): *)
(* one chain of collaboration, replicated by messages.  A peer applies its *)
(* own command first and then publishes it; every other peer that receives *)
(* the message applies it too, at most once (replay_cache).  Gossip loses, *)
(* delays and reorders messages, so a message already sent may reach a     *)
(* peer at any later moment or never.                                      *)
(*                                                                         *)
(* activeChains, with the status that evaluateChain looks at, lives in     *)
(* memory and dies with the process; the rows of the chain, its steps, the *)
(* lease monitor and the replay cache live in SQLite.  A handler runs to   *)
(* its end without interruption, but each of its statements commits on its *)
(* own: a crash may cut it after the first.  How long a lease lasts is     *)
(* left open, so coc.handoff, which assigns with another duration, is an   *)
(* assignment.  Reputation, artifacts, memos, the event log and the copy   *)
(* of the steps in memory, which only getters read, are left out.          *)
(*                                                                         *)
(* SocietyProofs extends this module beside Knowledge, the other protocol  *)
(* of the package, so their names differ (Member, published, ChainNext).   *)
(***************************************************************************)
EXTENDS Naturals, Sequences, FiniteSets

CONSTANTS
  Member,      \* the peers of the room
  Opener,      \* the peer that opens the chain and publishes its plan
  Step,        \* the steps of the plan
  Worker,      \* the agents steps are assigned to
  Nobody,      \* stands where a step has no assignee
  None,        \* stands where there is no row
  MaxHandoffs, \* LEASE_CONFIG.maxHandoffs
  MaxCommands, \* bound on the commands after the plan
  MaxCrashes   \* bound on the crashes

ASSUME OpenerAssumption == Opener \in Member
ASSUME HandoffsAssumption == MaxHandoffs \in Nat
ASSUME NobodyAssumption == Nobody \notin Worker

VARIABLES
  active,    \* the status of the chain in activeChains, "none" without it
  chain,     \* the status in the row of the chain, "none" without a row
  step,      \* the rows of the steps
  lease,     \* the rows of the lease monitor
  published, \* the messages sent so far; the index is the message id
  seen,      \* the ids in each peer's replay cache
  overdue,   \* has the timeout of the chain passed?
  commands,  \* how many commands were given after the plan
  torn,      \* steps a crash left between the two writes of a handler
  crashes    \* how often a process crashed

disk == <<chain, step, lease>>
chainVars == <<active, disk, published, seen, overdue, commands, torn, crashes>>

Status == {"proposed", "assigned", "submitted", "reviewed", "rejected", "cancelled"}
Row == [status : Status, worker : Worker \cup {Nobody}, retry : 0..MaxHandoffs]
Lease == [worker : Worker, notified : BOOLEAN]

(* What the messages say.  A submission and a review carry the status the  *)
(* handler derives from them: completed and partial submit the step,       *)
(* failed rejects it; approved and escalated review it, rejected rejects   *)
(* it and needs_revision proposes it again.                                *)
StepCommand ==
  [kind : {"assign"}, step : Step, status : {"assigned"}, worker : Worker]
    \cup [kind : {"submit"}, step : Step, status : {"submitted", "rejected"}]
    \cup [kind : {"review"}, step : Step, status : {"reviewed", "rejected", "proposed"}]
    \cup [kind : {"cancel"}, step : Step, status : {"cancelled"}]
ChainCommand == [kind : {"merge"}, status : {"completed"}]
                  \cup [kind : {"close"}, status : {"completed", "cancelled", "failed"}]
Message == [kind : {"open", "plan"}] \cup StepCommand \cup ChainCommand

ASSUME NoneAssumption == None \notin Row /\ None \notin Lease

Exists(p, s) == step[p][s] # None
Assigned(p, s) == Exists(p, s) /\ step[p][s].status = "assigned"
Live(p, s) == lease[p][s] # None /\ ~lease[p][s].notified

---------------------------------------------------------------------------
(* evaluateChain *)

Terminal == {"submitted", "rejected", "cancelled"}

RowsOf(rows) == {rows[s] : s \in Step} \ {None}
AllDone(rows) == RowsOf(rows) # {} /\ \A r \in RowsOf(rows) : r.status \in Terminal
AllSuccessful(rows) == \A r \in RowsOf(rows) : r.status = "submitted"

GivesUp(act, rows) ==
  act = "running" /\ (overdue \/ (AllDone(rows) /\ ~AllSuccessful(rows)))

(* p, where the chain is now act, evaluates it; out are the messages sent  *)
(* by then and got the ids p has seen.  A chain that is given up is closed *)
(* at once and the close is published.  That steps whose dependencies are  *)
(* done are announced (step:unlocked) changes no state of the engine.      *)
Evaluate(p, act, rows, out, got) ==
  IF GivesUp(act, rows)
  THEN /\ active' = [active EXCEPT ![p] = "none"]
       /\ chain' = [chain EXCEPT ![p] = "failed"]
       /\ published' = Append(out, [kind |-> "close", status |-> "failed"])
       /\ seen' = [seen EXCEPT ![p] = got \cup {Len(out) + 1}]
  ELSE /\ active' = [active EXCEPT ![p] = act]
       /\ published' = out
       /\ seen' = [seen EXCEPT ![p] = got]
       /\ UNCHANGED chain

---------------------------------------------------------------------------
(* The handlers *)

(* updateStepStatus: nothing happens without a row. *)
WithStatus(p, m) ==
  IF ~Exists(p, m.step) THEN step[p]
  ELSE [step[p] EXCEPT ![m.step].status = m.status,
                       ![m.step].worker = IF m.kind = "assign" THEN m.worker ELSE @]

(* createStep, for the steps in made; INSERT OR IGNORE keeps what is there. *)
Created(p, made) ==
  [s \in Step |-> IF s \in made /\ ~Exists(p, s)
                  THEN [status |-> "proposed", worker |-> Nobody, retry |-> 0]
                  ELSE step[p][s]]

HandleOpen(p, out, got) ==
  /\ active' = [active EXCEPT ![p] = IF @ = "none" THEN "open" ELSE @]
  /\ chain' = [chain EXCEPT ![p] = IF @ = "none" THEN "open" ELSE @]
  /\ published' = out /\ seen' = [seen EXCEPT ![p] = got]
  /\ UNCHANGED <<step, lease, torn>>

HandlePlan(p, out, got) ==
  /\ IF active[p] = "none"
     THEN /\ published' = out /\ seen' = [seen EXCEPT ![p] = got]
          /\ UNCHANGED <<active, chain, step>>
     ELSE /\ step' = [step EXCEPT ![p] = Created(p, Step)]
          /\ Evaluate(p, "running", step'[p], out, got)
  /\ UNCHANGED <<lease, torn>>

HandleAssign(p, m, out, got) ==
  /\ step' = [step EXCEPT ![p] = WithStatus(p, m)]
  /\ lease' = [lease EXCEPT ![p][m.step] = [worker |-> m.worker, notified |-> FALSE]]
  /\ torn' = torn \ {<<p, m.step>>}
  /\ published' = out /\ seen' = [seen EXCEPT ![p] = got]
  /\ UNCHANGED <<active, chain>>

\* Mutant: the lease stays when the step is handed in.
HandleSubmitKeepsLease(p, m, out, got) ==
  /\ step' = [step EXCEPT ![p] = WithStatus(p, m)]
  /\ torn' = torn \ {<<p, m.step>>}
  /\ Evaluate(p, active[p], step'[p], out, got)
  /\ UNCHANGED lease
\* Mutant: the chain is not evaluated.
HandleSubmitOnly(p, m, out, got) ==
  /\ step' = [step EXCEPT ![p] = WithStatus(p, m)]
  /\ lease' = [lease EXCEPT ![p][m.step] = None]
  /\ torn' = torn \ {<<p, m.step>>}
  /\ published' = out /\ seen' = [seen EXCEPT ![p] = got]
  /\ UNCHANGED <<active, chain>>
HandleSubmit(p, m, out, got) ==
  /\ step' = [step EXCEPT ![p] = WithStatus(p, m)]
  /\ lease' = [lease EXCEPT ![p][m.step] = None]
  /\ torn' = torn \ {<<p, m.step>>}
  /\ Evaluate(p, active[p], step'[p], out, got)

HandleReview(p, m, out, got) ==
  /\ step' = [step EXCEPT ![p] = WithStatus(p, m)]
  /\ Evaluate(p, active[p], step'[p], out, got)
  /\ UNCHANGED <<lease, torn>>

(* The lease of a cancelled step stays, and the chain is not evaluated. *)
HandleCancel(p, m, out, got) ==
  /\ step' = [step EXCEPT ![p] = WithStatus(p, m)]
  /\ published' = out /\ seen' = [seen EXCEPT ![p] = got]
  /\ UNCHANGED <<active, chain, lease, torn>>

(* coc.merge and coc.close; a merged chain stays among the active ones. *)
HandleEnd(p, m, out, got) ==
  /\ active' = [active EXCEPT ![p] =
                  IF m.kind = "close" \/ @ = "none" THEN "none" ELSE "completed"]
  /\ chain' = [chain EXCEPT ![p] = IF @ = "none" THEN "none" ELSE m.status]
  /\ published' = out /\ seen' = [seen EXCEPT ![p] = got]
  /\ UNCHANGED <<step, lease, torn>>

Handle(p, m, out, got) ==
  \/ m.kind = "open" /\ HandleOpen(p, out, got)
  \/ m.kind = "plan" /\ HandlePlan(p, out, got)
  \/ m.kind = "assign" /\ HandleAssign(p, m, out, got)
  \/ m.kind = "submit" /\ HandleSubmit(p, m, out, got)
  \/ m.kind = "review" /\ HandleReview(p, m, out, got)
  \/ m.kind = "cancel" /\ HandleCancel(p, m, out, got)
  \/ m.kind \in {"merge", "close"} /\ HandleEnd(p, m, out, got)

---------------------------------------------------------------------------
(* What peers do *)

(* sendMessage: applied here, then published. *)
Publish(p, m) == Handle(p, m, Append(published, m), seen[p] \cup {Len(published) + 1})

OpenChain ==
  /\ published = <<>>
  /\ Publish(Opener, [kind |-> "open"])
  /\ UNCHANGED <<overdue, commands, crashes>>

PublishPlan ==
  /\ active[Opener] = "open"
  /\ Publish(Opener, [kind |-> "plan"])
  /\ UNCHANGED <<overdue, commands, crashes>>

(* Whoever has the plan in memory may give any command about it; a worker  *)
(* that claims a step is assigned by the same message.                     *)
Command(p) ==
  /\ active[p] \in {"running", "completed"}
  /\ commands < MaxCommands
  /\ commands' = commands + 1
  /\ \E m \in StepCommand \cup ChainCommand : Publish(p, m)
  /\ UNCHANGED <<overdue, crashes>>

(* handleIncomingMessage *)
Receive(p) ==
  /\ \E i \in DOMAIN published \ seen[p] : Handle(p, published[i], published, seen[p] \cup {i})
  /\ UNCHANGED <<overdue, commands, crashes>>

\* Mutant: the lease is claimed and the step left as it is.
ExpireLeaseOnly(p, s) ==
  /\ Live(p, s)
  /\ lease' = [lease EXCEPT ![p][s].notified = TRUE]
  /\ torn' = torn \ {<<p, s>>}
  /\ UNCHANGED <<active, chain, step, published, seen, overdue, commands, crashes>>

(* checkExpiredLeases, for a lease whose time is up *)
ExpireLease(p, s) ==
  /\ Live(p, s)
  /\ lease' = [lease EXCEPT ![p][s].notified = TRUE]
  /\ torn' = torn \ {<<p, s>>}
  /\ \/ /\ ~Exists(p, s)
        /\ step' = step
        /\ Evaluate(p, active[p], step[p], published, seen[p])
     \/ /\ Exists(p, s) /\ step[p][s].retry >= MaxHandoffs
        /\ step' = [step EXCEPT ![p][s].status = "rejected"]
        /\ UNCHANGED <<active, chain, published, seen>>
     \/ /\ Exists(p, s) /\ step[p][s].retry < MaxHandoffs
        /\ step' = [step EXCEPT ![p][s] =
                      [status |-> "proposed", worker |-> Nobody, retry |-> @.retry + 1]]
        /\ Evaluate(p, active[p], step'[p], published, seen[p])
  /\ UNCHANGED <<overdue, commands, crashes>>

(* Date.now() passes timeout_at. *)
TimeOut == ~overdue /\ overdue' = TRUE
             /\ UNCHANGED <<active, disk, published, seen, commands, torn, crashes>>

---------------------------------------------------------------------------
(* Crashes, between two handlers or inside one; activeChains is lost, and  *)
(* the process starts again with the tables it finds.                      *)

Crash(p) == crashes < MaxCrashes /\ crashes' = crashes + 1
              /\ active' = [active EXCEPT ![p] = "none"]
              /\ UNCHANGED <<published, overdue, commands>>

Restart(p) ==
  /\ active[p] # "none"
  /\ Crash(p)
  /\ UNCHANGED <<disk, seen, torn>>

(* What is written of a message: nothing, some of the steps of a plan, or  *)
(* the first of the two rows an assignment or a submission changes; every  *)
(* other handler writes one row.                                           *)
WritePart(p, m) ==
  \/ UNCHANGED <<chain, step, torn>>
  \/ /\ m.kind = "open"
     /\ chain' = [chain EXCEPT ![p] = IF @ = "none" THEN "open" ELSE @]
     /\ UNCHANGED <<step, torn>>
  \/ /\ m.kind = "plan" /\ active[p] # "none"
     /\ \E made \in SUBSET Step : step' = [step EXCEPT ![p] = Created(p, made)]
     /\ UNCHANGED <<chain, torn>>
  \/ /\ m.kind \in {"assign", "submit", "review", "cancel"}
     /\ step' = [step EXCEPT ![p] = WithStatus(p, m)]
     /\ torn' = IF m.kind \in {"assign", "submit"} THEN torn \cup {<<p, m.step>>} ELSE torn
     /\ UNCHANGED chain
  \/ /\ m.kind \in {"merge", "close"}
     /\ chain' = [chain EXCEPT ![p] = IF @ = "none" THEN "none" ELSE m.status]
     /\ UNCHANGED <<step, torn>>

(* The id of a message is in the replay cache before it is handled; one of *)
(* p's own has not been published yet.                                     *)
CrashReceiving(p) ==
  /\ Crash(p)
  /\ \E i \in DOMAIN published \ seen[p] :
       seen' = [seen EXCEPT ![p] = @ \cup {i}] /\ WritePart(p, published[i])
  /\ UNCHANGED lease

CrashSending(p) ==
  /\ Crash(p)
  /\ active[p] \in {"running", "completed"}
  /\ \E m \in StepCommand \cup ChainCommand : WritePart(p, m)
  /\ UNCHANGED <<lease, seen>>

(* claimExpiredLease has committed, updateStepStatus has not. *)
CrashExpiring(p, s) ==
  /\ Crash(p)
  /\ Live(p, s)
  /\ lease' = [lease EXCEPT ![p][s].notified = TRUE]
  /\ torn' = torn \cup {<<p, s>>}
  /\ UNCHANGED <<chain, step, seen>>

---------------------------------------------------------------------------
ChainInit ==
  /\ active = [p \in Member |-> "none"]
  /\ chain = [p \in Member |-> "none"]
  /\ step = [p \in Member |-> [s \in Step |-> None]]
  /\ lease = [p \in Member |-> [s \in Step |-> None]]
  /\ published = <<>> /\ seen = [p \in Member |-> {}]
  /\ overdue = FALSE /\ commands = 0
  /\ torn = {} /\ crashes = 0

ChainNext ==
  \/ OpenChain \/ PublishPlan \/ TimeOut
  \/ \E p \in Member : Command(p) \/ Receive(p) \/ Restart(p)
                     \/ CrashReceiving(p) \/ CrashSending(p)
  \/ \E p \in Member, s \in Step : ExpireLease(p, s) \/ CrashExpiring(p, s)

(* The lease monitor looks at every expired lease every ten seconds.  No   *)
(* fairness on messages, which may be lost, or on what agents do.          *)
Fairness == \A p \in Member, s \in Step : WF_chainVars(ExpireLease(p, s))

ChainSpec == ChainInit /\ [][ChainNext]_chainVars /\ Fairness

---------------------------------------------------------------------------
(* Properties *)

(* Type invariant. *)
ChainTypeOK ==
  /\ active \in [Member -> {"none", "open", "running", "completed"}]
  /\ chain \in [Member -> {"none", "open", "completed", "cancelled", "failed"}]
  /\ step \in [Member -> [Step -> Row \cup {None}]]
  /\ lease \in [Member -> [Step -> Lease \cup {None}]]
  /\ published \in Seq(Message)
  /\ seen \in [Member -> SUBSET Nat]
  /\ overdue \in BOOLEAN /\ commands \in Nat /\ crashes \in Nat
  /\ torn \subseteq Member \X Step

(* In whatever order assignments, submissions, reviews, cancellations and  *)
(* expirations reach a peer, a step that is assigned there is watched by a *)
(* lease for the same worker, and a step that was submitted by none, so    *)
(* that submitted work is not handed out again.  Only a crash between the  *)
(* two writes of a handler breaks it.                                      *)
LeasesMatchSteps ==
  \A p \in Member, s \in Step :
    Exists(p, s) /\ <<p, s>> \notin torn =>
      /\ step[p][s].status = "assigned" =>
           Live(p, s) /\ lease[p][s].worker = step[p][s].worker
      /\ step[p][s].status = "submitted" => lease[p][s] = None

(* A chain that is running at a peer while none of its steps is left to do *)
(* and not all were successful has missed its last evaluation.  It happens *)
(* only after a step was cancelled or failed for too many handoffs, the    *)
(* two changes that evaluateChain does not follow.                         *)
OnlyTwoWaysToStall ==
  \A p \in Member :
    active[p] = "running" /\ AllDone(step[p]) /\ ~AllSuccessful(step[p]) =>
      \E r \in RowsOf(step[p]) :
        \/ r.status = "cancelled"
        \/ r.status = "rejected" /\ r.retry = MaxHandoffs

(* A worker that falls silent does not hold a step forever: an assigned    *)
(* step is handed in, decided, or taken back, also across restarts.        *)
LeaseEnds ==
  \A p \in Member, s \in Step :
    Assigned(p, s) /\ <<p, s>> \notin torn ~> ~Assigned(p, s) \/ <<p, s>> \in torn

(* storage.ts:2168 says that claiming an expired lease "marks it notified  *)
(* and resets the step in a single transaction": a step whose lease was    *)
(* claimed is not assigned any more.                                       *)
ClaimedIsReset ==
  \A p \in Member, s \in Step :
    lease[p][s] # None /\ lease[p][s].notified => ~Assigned(p, s)
=============================================================================
