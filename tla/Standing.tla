------------------------------- MODULE Standing -------------------------------
(***************************************************************************)
(* The standing of one citizen in the civic registry: the row of its       *)
(* Civic-DID, which presence tracking (grid/src/civic-presence) and the    *)
(* police and the court (grid/src/police, grid/src/api/routes/police.ts)   *)
(* both write.  Where the presence service is configured a frozen          *)
(* Civic-DID is turned away with 409 before any handler of a civic route   *)
(* runs (requireDid.ts); main.ts configures it with the database, the      *)
(* tests of the police routes run without it.                              *)
(*                                                                         *)
(* Every statement is a query of its own and is awaited, so requests, the  *)
(* grace timer and the escalation scan interleave between statements; a    *)
(* write that was issued lands at some later moment.  Connections, the     *)
(* grace timer and whatever is under way die with the process.             *)
(*                                                                         *)
(* Citizens do not share rows, so one is enough.  Complaints and           *)
(* investigations, which no charge refers back to, the message queue and   *)
(* the audit events are left out.                                          *)
(*                                                                         *)
(* CivicProofs extends this module beside Parcels, so their names differ   *)
(* (StandingNext, escalation).                                             *)
(***************************************************************************)
EXTENDS Naturals, Sequences, FiniteSets

CONSTANTS
  Charge,         \* charges filed against the citizen
  Executor,       \* concurrent execute-sanction requests
  Judge,          \* concurrent requests that resolve an appeal
  None,           \* a request that is not under way
  Tracking,       \* may the presence service be there, may it be missing?
  MaxConnections, \* bound on the citizen's open sockets
  MaxWrites,      \* bound on the presence writes of each kind under way
  MaxSanctions,   \* bound on the sanctions recorded
  MaxCrashes      \* bound on the crashes

VARIABLES
  tracked,     \* is the presence service configured?
  presence,    \* presence_status of the citizen
  frozen,      \* its frozen flag
  seen,        \* how long ago last_seen_at is
  businesses,  \* are its businesses active?
  connections, \* the refcount of open sockets
  timer,       \* is a grace timer running?
  away,        \* writes of a timer that has fired, under way
  beats,       \* writes of heartbeats, under way
  escalation,  \* where the escalation scan stands
  charge,      \* the charges: kind of sanction and status
  executing,   \* the execute-sanction requests under way
  sanctions,   \* the charges of the sanctions recorded, in order
  appeal,      \* the status of the appeal against each of them
  judging,     \* the resolutions under way
  presumed,    \* was the citizen ever taken for departed?
  crashes      \* how often the process died

citizen == <<tracked, presence, frozen, seen, businesses>>
memory == <<connections, timer, away, beats, escalation>>
court == <<charge, executing, sanctions, appeal, judging>>
standingVars == <<citizen, memory, court, presumed, crashes>>

Kind == {"freeze", "warning"}
Filed == [kind : Kind, status : {"filed", "convicted", "acquitted", "executed"}]
Execution == [charge : Charge, next : {"freeze", "record", "execute"}]
Resolution == [sanction : Nat, overturn : BOOLEAN, next : {"resolve", "unfreeze"}]

ASSUME TrackingAssumption == Tracking \subseteq BOOLEAN
ASSUME NoneAssumption == None \notin Filed \cup Execution \cup Resolution

---------------------------------------------------------------------------
(* The two writers of the row *)

MarkFrozen == presence' = "presumed_departed" /\ frozen' = TRUE

\* Mutant: the flag is cleared and the presence left as it is.
MarkUnfrozenOnly == frozen' = FALSE /\ UNCHANGED presence
MarkUnfrozen == presence' = "awake" /\ frozen' = FALSE

---------------------------------------------------------------------------
(* Presence *)

Connect ==
  /\ tracked
  /\ connections < MaxConnections
  /\ connections' = connections + 1
  /\ timer' = FALSE
  /\ UNCHANGED <<citizen, away, beats, escalation, court, presumed, crashes>>

(* The close of the last socket starts the grace timer anew. *)
Disconnect ==
  /\ connections > 0
  /\ connections' = connections - 1
  /\ timer' = (timer \/ connections = 1)
  /\ UNCHANGED <<citizen, away, beats, escalation, court, presumed, crashes>>

GraceExpires ==
  /\ timer
  /\ timer' = FALSE
  /\ away < MaxWrites
  /\ away' = away + 1
  /\ UNCHANGED <<citizen, connections, beats, escalation, court, presumed, crashes>>

(* Whatever the row says by now. *)
AwayLands ==
  /\ away > 0
  /\ away' = away - 1
  /\ presence' = "away"
  /\ UNCHANGED <<tracked, frozen, seen, businesses, connections, timer, beats, escalation,
                 court, presumed, crashes>>

(* A heartbeat passes the gate and cancels the timer, and starts none. *)
Heartbeat ==
  /\ tracked
  /\ ~frozen
  /\ beats < MaxWrites
  /\ beats' = beats + 1
  /\ timer' = FALSE
  /\ UNCHANGED <<citizen, connections, away, escalation, court, presumed, crashes>>

HeartbeatLands ==
  /\ beats > 0
  /\ beats' = beats - 1
  /\ presence' = "awake" /\ seen' = "recently"
  /\ UNCHANGED <<tracked, frozen, businesses, connections, timer, away, escalation, court,
                 presumed, crashes>>

(* Thirty days, and then a year, pass since the last heartbeat: too long   *)
(* for anything to be still under way.                                     *)
TimePasses ==
  /\ ~timer /\ away = 0 /\ beats = 0 /\ escalation = "idle"
  /\ \A e \in Executor : executing[e] = None
  /\ \A j \in Judge : judging[j] = None
  /\ \/ seen = "recently" /\ seen' = "over 30 days ago"
     \/ seen = "over 30 days ago" /\ seen' = "over a year ago"
  /\ UNCHANGED <<tracked, presence, frozen, businesses, memory, court, presumed, crashes>>

---------------------------------------------------------------------------
(* The escalation scan, once a day *)

\* Mutant: only who is away can be found departed.
IsDepartedIfAway == seen = "over a year ago" /\ presence = "away"
IsDeparted == seen = "over a year ago" /\ presence \in {"away", "absent"}
IsAbsent == seen \in {"over 30 days ago", "over a year ago"} /\ presence = "away"

ListDeparted ==
  /\ tracked
  /\ escalation = "idle"
  /\ escalation' = IF IsDeparted THEN "depart" ELSE "list absent"
  /\ UNCHANGED <<citizen, connections, timer, away, beats, court, presumed, crashes>>

Depart ==
  /\ escalation = "depart" /\ escalation' = "freeze"
  /\ presence' = "presumed_departed" /\ frozen' = TRUE
  /\ presumed' = TRUE
  /\ UNCHANGED <<tracked, seen, businesses, connections, timer, away, beats, court, crashes>>

FreezeDeparted ==
  /\ escalation = "freeze" /\ escalation' = "dissolve"
  /\ MarkFrozen
  /\ UNCHANGED <<tracked, seen, businesses, connections, timer, away, beats, court,
                 presumed, crashes>>

Dissolve ==
  /\ escalation = "dissolve" /\ escalation' = "list absent"
  /\ businesses' = FALSE
  /\ UNCHANGED <<tracked, presence, frozen, seen, connections, timer, away, beats, court,
                 presumed, crashes>>

ListAbsent ==
  /\ escalation = "list absent"
  /\ escalation' = IF IsAbsent THEN "absent" ELSE "idle"
  /\ UNCHANGED <<citizen, connections, timer, away, beats, court, presumed, crashes>>

MarkAbsent ==
  /\ escalation = "absent" /\ escalation' = "idle"
  /\ presence' = "absent"
  /\ UNCHANGED <<tracked, frozen, seen, businesses, connections, timer, away, beats, court,
                 presumed, crashes>>

---------------------------------------------------------------------------
(* The police and the court *)

IsFreeze(s) == charge[sanctions[s]].kind = "freeze"

FileCharge(c) ==
  /\ charge[c] = None
  /\ \E k \in Kind : charge' = [charge EXCEPT ![c] = [kind |-> k, status |-> "filed"]]
  /\ UNCHANGED <<citizen, memory, executing, sanctions, appeal, judging, presumed, crashes>>

\* Mutant: whatever became of the charge since it was read.
ConvictAnyway(c, convicted) ==
  /\ charge[c] # None
  /\ charge' = [charge EXCEPT ![c].status = IF convicted THEN "convicted" ELSE "acquitted"]
  /\ UNCHANGED <<citizen, memory, executing, sanctions, appeal, judging, presumed, crashes>>
(* The handler reads the charge first, but the UPDATE asks for filed again *)
(* and is what decides.                                                    *)
Convict(c, convicted) ==
  /\ charge[c] # None /\ charge[c].status = "filed"
  /\ charge' = [charge EXCEPT ![c].status = IF convicted THEN "convicted" ELSE "acquitted"]
  /\ UNCHANGED <<citizen, memory, executing, sanctions, appeal, judging, presumed, crashes>>

(* execute-sanction: reads the charge, freezes, records, marks the charge. *)
\* Mutant: a charge that was only filed will do.
ExecuteReadFiled(e, c) ==
  /\ executing[e] = None
  /\ charge[c] # None /\ charge[c].status \in {"filed", "convicted"}
  /\ Len(sanctions) < MaxSanctions
  /\ executing' = [executing EXCEPT ![e] =
       [charge |-> c, next |-> IF charge[c].kind = "freeze" THEN "freeze" ELSE "record"]]
  /\ UNCHANGED <<citizen, memory, charge, sanctions, appeal, judging, presumed, crashes>>
ExecuteRead(e, c) ==
  /\ executing[e] = None
  /\ charge[c] # None /\ charge[c].status = "convicted"
  /\ Len(sanctions) < MaxSanctions
  /\ executing' = [executing EXCEPT ![e] =
       [charge |-> c, next |-> IF charge[c].kind = "freeze" THEN "freeze" ELSE "record"]]
  /\ UNCHANGED <<citizen, memory, charge, sanctions, appeal, judging, presumed, crashes>>

IsNext(e, what) == executing[e] # None /\ executing[e].next = what

ExecuteFreeze(e) ==
  /\ IsNext(e, "freeze")
  /\ MarkFrozen
  /\ executing' = [executing EXCEPT ![e].next = "record"]
  /\ UNCHANGED <<tracked, seen, businesses, memory, charge, sanctions, appeal, judging,
                 presumed, crashes>>

ExecuteRecord(e) ==
  /\ IsNext(e, "record")
  /\ sanctions' = Append(sanctions, executing[e].charge)
  /\ appeal' = Append(appeal, "none")
  /\ executing' = [executing EXCEPT ![e].next = "execute"]
  /\ UNCHANGED <<citizen, memory, charge, judging, presumed, crashes>>

ExecuteMark(e) ==
  /\ IsNext(e, "execute")
  /\ charge' = [charge EXCEPT ![executing[e].charge].status = "executed"]
  /\ executing' = [executing EXCEPT ![e] = None]
  /\ UNCHANGED <<citizen, memory, sanctions, appeal, judging, presumed, crashes>>

(* The route of the appeal is civic_did_required like any other. *)
MayAppeal(s) == ~(tracked /\ frozen) /\ appeal[s] = "none"

FileAppeal(s) ==
  /\ MayAppeal(s)
  /\ appeal' = [appeal EXCEPT ![s] = "pending"]
  /\ UNCHANGED <<citizen, memory, charge, executing, sanctions, judging, presumed, crashes>>

JudgeRead(j, s, overturn) ==
  /\ judging[j] = None
  /\ appeal[s] = "pending"
  /\ judging' = [judging EXCEPT ![j] =
                   [sanction |-> s, overturn |-> overturn, next |-> "resolve"]]
  /\ UNCHANGED <<citizen, memory, charge, executing, sanctions, appeal, presumed, crashes>>

(* The UPDATE asks for pending again, but nobody asks whether it did       *)
(* anything: the freeze is lifted all the same.                            *)
JudgeResolve(j) ==
  /\ judging[j] # None /\ judging[j].next = "resolve"
  /\ LET s == judging[j].sanction
         status == IF judging[j].overturn THEN "overturned" ELSE "upheld"
     IN /\ appeal' = [appeal EXCEPT ![s] = IF @ = "pending" THEN status ELSE @]
        /\ judging' = [judging EXCEPT ![j] =
             IF judging[j].overturn /\ IsFreeze(s) THEN [@ EXCEPT !.next = "unfreeze"]
             ELSE None]
  /\ UNCHANGED <<citizen, memory, charge, executing, sanctions, presumed, crashes>>

JudgeUnfreeze(j) ==
  /\ judging[j] # None /\ judging[j].next = "unfreeze"
  /\ MarkUnfrozen
  /\ judging' = [judging EXCEPT ![j] = None]
  /\ UNCHANGED <<tracked, seen, businesses, memory, charge, executing, sanctions, appeal,
                 presumed, crashes>>

---------------------------------------------------------------------------
NothingUnderWay == [executing |-> [e \in Executor |-> None], judging |-> [j \in Judge |-> None]]

(* The process dies and starts again.  A write already issued may still    *)
(* have landed before: that is the same crash a step later.                *)
Crash ==
  /\ crashes < MaxCrashes
  /\ crashes' = crashes + 1
  /\ connections' = 0 /\ timer' = FALSE /\ away' = 0 /\ beats' = 0 /\ escalation' = "idle"
  /\ executing' = NothingUnderWay.executing /\ judging' = NothingUnderWay.judging
  /\ UNCHANGED <<citizen, charge, sanctions, appeal, presumed>>

StandingInit ==
  /\ tracked \in Tracking
  /\ presence = "awake" /\ frozen = FALSE /\ seen = "never" /\ businesses = TRUE
  /\ connections = 0 /\ timer = FALSE /\ away = 0 /\ beats = 0 /\ escalation = "idle"
  /\ charge = [c \in Charge |-> None]
  /\ executing = NothingUnderWay.executing /\ judging = NothingUnderWay.judging
  /\ sanctions = <<>> /\ appeal = <<>>
  /\ presumed = FALSE /\ crashes = 0

Escalation == ListDeparted \/ Depart \/ FreezeDeparted \/ Dissolve \/ ListAbsent \/ MarkAbsent

StandingNext ==
  \/ Connect \/ Disconnect \/ GraceExpires \/ AwayLands
  \/ Heartbeat \/ HeartbeatLands \/ TimePasses
  \/ Escalation
  \/ \E c \in Charge : FileCharge(c) \/ \E convicted \in BOOLEAN : Convict(c, convicted)
  \/ \E e \in Executor : \/ \E c \in Charge : ExecuteRead(e, c)
                         \/ ExecuteFreeze(e) \/ ExecuteRecord(e) \/ ExecuteMark(e)
  \/ \E s \in DOMAIN sanctions : FileAppeal(s)
  \/ \E j \in Judge : \/ \E s \in DOMAIN sanctions, o \in BOOLEAN : JudgeRead(j, s, o)
                      \/ JudgeResolve(j) \/ JudgeUnfreeze(j)
  \/ Crash

(* The scan runs every day (launcher.ts) and its queries come back. *)
StandingSpec == StandingInit /\ [][StandingNext]_standingVars /\ WF_standingVars(Escalation)

---------------------------------------------------------------------------
(* Properties *)

(* Type invariant. *)
StandingTypeOK ==
  /\ presence \in {"awake", "away", "absent", "presumed_departed"}
  /\ tracked \in BOOLEAN /\ frozen \in BOOLEAN /\ businesses \in BOOLEAN /\ presumed \in BOOLEAN
  /\ seen \in {"never", "recently", "over 30 days ago", "over a year ago"}
  /\ connections \in Nat /\ timer \in BOOLEAN /\ away \in Nat /\ beats \in Nat
  /\ escalation \in {"idle", "depart", "freeze", "dissolve", "list absent", "absent"}
  /\ charge \in [Charge -> Filed \cup {None}]
  /\ executing \in [Executor -> Execution \cup {None}]
  /\ sanctions \in Seq(Charge)
  /\ appeal \in Seq({"none", "pending", "upheld", "overturned"}) /\ Len(appeal) = Len(sanctions)
  /\ judging \in [Judge -> Resolution \cup {None}]
  /\ crashes \in Nat

Convicted(c) == charge[c] # None /\ charge[c].status \in {"convicted", "executed"}

(* However convictions, acquittals and executions of the same charge       *)
(* overlap, every sanction that was recorded or is being carried out is    *)
(* for a charge the court convicted on, and stays so.                      *)
NoSanctionWithoutConviction ==
  /\ \A s \in DOMAIN sanctions : Convicted(sanctions[s])
  /\ \A e \in Executor : executing[e] # None => Convicted(executing[e].charge)

(* The police cannot freeze a Civic-DID without a court order: one that is *)
(* frozen was taken for departed, or a charge that asks for a freeze was   *)
(* convicted on.                                                           *)
FrozenForCause ==
  frozen => presumed \/ \E c \in Charge : Convicted(c) /\ charge[c].kind = "freeze"

(* Presence tracking and the police write the same two columns, in any     *)
(* order; they never leave a citizen departed that may act.                *)
DepartedIsFrozen == presence = "presumed_departed" => frozen

(* With sockets opening and closing in any order and heartbeats between    *)
(* them, no grace timer runs while the citizen holds a connection.         *)
NoTimerWhileConnected == connections > 0 => ~timer

(* A citizen silent for a year does not stay away or absent for ever: the  *)
(* scan freezes it unless it comes back, also when a scan is cut short.    *)
DepartureIsNoticed == tracked /\ IsDeparted /\ ~frozen ~> frozen \/ presence = "awake"

(* The plan of the police (docs/superpowers/plans/                         *)
(* 2026-06-25-phase-47-police-v3.md:4) has "all sanctions appealable":     *)
(* while a sanction is not appealed, the sanctioned citizen may appeal it. *)
SanctionsAreAppealable ==
  \A s \in DOMAIN sanctions : appeal[s] = "none" => MayAppeal(s)
=============================================================================
