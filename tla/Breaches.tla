------------------------------ MODULE Breaches ------------------------------
(* A merge that landed red, from the close-out of the run that shipped it to *)
(* the repair (src/lanes/ship.mjs closeOutHandler and breachFlow,            *)
(* src/telemetry/escapes.mjs and breaches.mjs, src/frontier/repairs.mjs and  *)
(* the repair pass of src/frontier/autolaunch.mjs).  One process, one        *)
(* thread: an actor runs alone until it awaits.                              *)
EXTENDS Naturals, Sequences, FiniteSets

CONSTANTS Findings,     \* what the last verdict left open at the merge
          SlotCap,      \* runs of the project that may be active
          MaxCrashes,   \* bound: daemon crashes
          MaxReds,      \* bound: reds of the merge commit's checks
          MaxCommands,  \* bound: commands of the operator
          MaxRejected   \* bound: launches the door refuses

ASSUME SlotAssumption == SlotCap \in Nat \ {0}
ASSUME FiniteFindings == IsFiniteSet(Findings)   \* what one verdict lists

VARIABLES origin,   \* the run that shipped: its place, and what its ledger holds
          escapes,  \* the escapes ledger: an escape is its seq
          runs,     \* the repair runs with a ledger, in order
          sweep,    \* the frontier's pass over the project
          queued,   \* a sweep is queued behind it
          door,     \* escapes the operator's launches are provisioning
          desk,     \* what the operator set and reads: arming, repairs-owed items
          spent     \* what the bounds have used

vars == <<origin, escapes, runs, sweep, queued, door, desk, spent>>

NoBreach == [state |-> "none", ticketed |-> {}]
Idle == [pc |-> "idle", owed |-> {}]

Init ==
    /\ origin = [pc |-> "enter", breach |-> NoBreach, check |-> "running", budget |-> TRUE, tail |-> <<>>]
    /\ escapes = <<>> /\ runs = <<>>
    /\ sweep = Idle /\ queued = TRUE /\ door = {}
    /\ desk = [armed |-> FALSE, items |-> {}]
    /\ spent = [crashes |-> 0, reds |-> 0, commands |-> 0, rejected |-> 0]

Sync == origin.pc \in {"record", "ticket", "stamp"}   \* the origin run holds the thread
Recorded == DOMAIN escapes
Fixed == {e \in Recorded : escapes[e].fixed}
Ticketed == {e \in Recorded : escapes[e].ticket}

(* --- slots and the owed set ---------------------------------------------- *)

OriginActive == origin.pc \notin {"parked", "closed"}
Active == Cardinality({i \in DOMAIN runs : runs[i].state # "closed"}) + (IF OriginActive THEN 1 ELSE 0)
HasFreeSlot == Active < SlotCap

RepairedEscapes == {runs[i].escape : i \in DOMAIN runs}
OwedRepairs == (Ticketed \ Fixed) \ RepairedEscapes

OnClosedUnswept == UNCHANGED queued   \* Seeded bug: a close queues no sweep.
OnClosed == queued' = TRUE

(* Resolves a breach of a run that is over, once all it ticketed is fixed.   *)
Settled(fixed) == IF /\ origin.pc = "closed" /\ origin.breach.state = "open"
                     /\ origin.breach.ticketed # {} /\ origin.breach.ticketed \subseteq fixed
                  THEN [origin EXCEPT !.breach.state = "resolved"] ELSE origin

(* --- the close-out of the origin run ------------------------------------- *)

Steps(place) == origin' = [origin EXCEPT !.pc = place]
OnlyOrigin == UNCHANGED <<escapes, runs, sweep, queued, door, desk, spent>>

(* What is recorded of this breach is used again, whatever is missing of it. *)
EntriesAnew == Fixed   \* Seeded bug: a stopped close-out reads what was fixed.
Entries == Recorded
CloseOut == /\ origin.pc = "enter"
            /\ Steps(CASE origin.breach.state # "none" -> "watch"
                       [] origin.breach.state = "none" /\ Entries = {} -> "record"
                       [] OTHER -> "tails")
            /\ OnlyOrigin

Unrecorded == Findings \ {escapes[e].finding : e \in Recorded}
RecordEscape ==
    /\ origin.pc = "record"
    /\ \E f \in IF Unrecorded = {} THEN Findings ELSE Unrecorded :
          escapes' = Append(escapes, [finding |-> f, ticket |-> FALSE, fixed |-> FALSE])
    /\ Steps(IF Cardinality(Unrecorded) <= 1 THEN "tails" ELSE "record")
    /\ UNCHANGED <<runs, sweep, queued, door, desk, spent>>
RedCheckTails == origin.pc = "tails" /\ Steps("ticket") /\ OnlyOrigin

UnticketedBreach == IF Ticketed = {} THEN Recorded \ Fixed ELSE {}   \* Seeded bug: one ticket stands for the breach.
Unticketed == (Recorded \ Fixed) \ Ticketed
TicketEscape ==
    /\ origin.pc = "ticket"
    /\ IF Unticketed = {} THEN Steps("stamp") /\ UNCHANGED escapes
       ELSE /\ \E e \in Unticketed : escapes' = [escapes EXCEPT ![e].ticket = TRUE]
            /\ UNCHANGED origin
    /\ UNCHANGED <<runs, sweep, queued, door, desk, spent>>
StampBreach ==
    /\ origin.pc = "stamp"
    /\ origin' = [origin EXCEPT !.pc = "watch", !.breach = [state |-> "open", ticketed |-> Recorded \ Fixed]]
    /\ queued' = (queued \/ Recorded \ Fixed # {})   \* enqueueRepair
    /\ UNCHANGED <<escapes, runs, sweep, door, desk, spent>>

(* The merge commit's checks: one re-run, and one more after each answer.    *)
ChecksConclude ==
    /\ origin.check = "running" /\ origin.pc = "watch"
    /\ \/ origin' = [origin EXCEPT !.check = "green"] /\ UNCHANGED spent
       \/ /\ spent.reds < MaxReds
          /\ origin' = [origin EXCEPT !.check = "red"]
          /\ spent' = [spent EXCEPT !.reds = @ + 1]
    /\ UNCHANGED <<escapes, runs, sweep, queued, door, desk>>
WatchMergeCommit ==
    /\ origin.pc = "watch"
    /\ CASE origin.check = "green" -> origin' = [origin EXCEPT !.pc = "tail"]
         [] origin.check = "red" /\ origin.budget -> origin' = [origin EXCEPT !.pc = "rerun", !.check = "running"]
         [] origin.check = "red" /\ ~origin.budget -> origin' = [origin EXCEPT !.pc = "ask"]
         [] OTHER -> FALSE
    /\ OnlyOrigin
StampRerun == /\ origin.pc = "rerun"
              /\ origin' = [origin EXCEPT !.pc = "watch", !.budget = FALSE]
              /\ OnlyOrigin
ParkGate == /\ origin.pc = "ask"
            /\ Steps("parked")
            /\ queued' = TRUE   \* onParked
            /\ UNCHANGED <<escapes, runs, sweep, door, desk, spent>>
AnswerGate == /\ origin.pc = "parked"
              /\ origin' = [origin EXCEPT !.pc = "enter", !.budget = TRUE]
              /\ queued' = TRUE
              /\ UNCHANGED <<escapes, runs, sweep, door, desk, spent>>

(* The steps after the checks, each behind its own stamp but the ticket of   *)
(* the owed records, which a stop before the close writes again.             *)
TailSteps == <<"drift-judge", "card-sweep", "base-certified", "records-ticket", "findings-shipped", "lesson">>
TailDone == Len(origin.tail) = Len(TailSteps)
TailStep == /\ origin.pc = "tail" /\ ~TailDone
            /\ origin' = [origin EXCEPT !.tail = Append(@, TailSteps[Len(@) + 1])]
            /\ OnlyOrigin
Close == /\ origin.pc = "tail" /\ TailDone
         /\ Steps("closed")
         /\ OnClosed
         /\ UNCHANGED <<escapes, runs, sweep, door, desk, spent>>

(* --- the sweep ----------------------------------------------------------- *)

OnlySweep == UNCHANGED <<origin, escapes, door, spent>>
Items(open) == desk' = [desk EXCEPT !.items = {item \in open : item \intersect OwedRepairs # {}}]

(* A project that is not armed is told once of each repair it owes.          *)
NoteOwed == desk.items \union ({OwedRepairs \ UNION desk.items} \ {{}})
SweepStarts ==
    /\ queued /\ sweep.pc = "idle" /\ ~Sync
    /\ IF desk.armed
       THEN sweep' = [pc |-> "pass", owed |-> OwedRepairs] /\ UNCHANGED desk
       ELSE sweep' = Idle /\ Items(NoteOwed)
    /\ queued' = FALSE
    /\ UNCHANGED runs /\ OnlySweep
EndPass == sweep' = Idle /\ Items(desk.items)
RepairPass ==
    /\ sweep.pc = "pass" /\ ~Sync
    /\ IF sweep.owed # {} /\ desk.armed /\ HasFreeSlot
       THEN sweep' = [sweep EXCEPT !.pc = "launch"] /\ UNCHANGED desk
       ELSE EndPass
    /\ UNCHANGED <<runs, queued>> /\ OnlySweep

(* The oldest escape goes first.  The slot is asked again once the workspace *)
(* stands; a launch the door or the slots refuse ends the pass, and the      *)
(* escape stays owed.                                                        *)
Launched(escape, by) == Append(runs, [escape |-> escape, by |-> by, state |-> "open"])
SweepLaunches ==
    /\ sweep.pc = "launch" /\ HasFreeSlot /\ ~Sync
    /\ \E e \in sweep.owed :
          /\ \A later \in sweep.owed : e <= later
          /\ runs' = Launched(e, "sweep")
          /\ sweep' = [pc |-> "pass", owed |-> sweep.owed \ {e}]
    /\ UNCHANGED <<queued, desk>> /\ OnlySweep
SweepRefused ==
    /\ sweep.pc = "launch" /\ ~Sync
    /\ \/ ~HasFreeSlot /\ UNCHANGED spent
       \/ spent.rejected < MaxRejected /\ spent' = [spent EXCEPT !.rejected = @ + 1]
    /\ EndPass
    /\ UNCHANGED <<origin, escapes, runs, queued, door>>

(* --- the repair runs ----------------------------------------------------- *)

RunsOnly == UNCHANGED <<sweep, door, desk, spent>>
Open(i) == i \in DOMAIN runs /\ runs[i].state = "open"

(* The close-out of a repair run fixes the escape it carries, once, and      *)
(* settles the breach; a run that fails closes without it.                   *)
FixEscapeBack ==
    \E i \in DOMAIN runs :
        /\ Open(i) /\ ~Sync
        /\ escapes' = [escapes EXCEPT ![runs[i].escape].fixed = TRUE]
        /\ origin' = Settled(Fixed \union {runs[i].escape})
        /\ runs' = [runs EXCEPT ![i].state = "fixed"]
        /\ queued' = queued
        /\ RunsOnly
RunCloses ==
    \E i \in DOMAIN runs :
        /\ runs[i].state \in {"open", "fixed"} /\ ~Sync
        /\ runs' = [runs EXCEPT ![i].state = "closed"]
        /\ OnClosed
        /\ UNCHANGED <<origin, escapes>> /\ RunsOnly

(* --- the operator and the daemon ----------------------------------------- *)

Command == /\ spent.commands < MaxCommands /\ ~Sync
           /\ spent' = [spent EXCEPT !.commands = @ + 1]
SetArmed == /\ Command
            /\ desk' = [desk EXCEPT !.armed = ~@]
            /\ queued' = TRUE
            /\ UNCHANGED <<origin, escapes, runs, sweep, door>>
MarkFixed ==
    /\ Command
    /\ \E e \in Recorded \ Fixed : /\ escapes' = [escapes EXCEPT ![e].fixed = TRUE]
                                  /\ origin' = Settled(Fixed \union {e})
    /\ queued' = TRUE
    /\ UNCHANGED <<runs, sweep, door, desk>>
LaunchEscape ==
    /\ Command
    /\ \E e \in Ticketed \ Fixed : HasFreeSlot /\ door' = door \union {e}
    /\ UNCHANGED <<origin, escapes, runs, sweep, queued, desk>>
DoorLaunches ==
    /\ ~Sync
    /\ \E e \in door : /\ door' = door \ {e}
                       /\ IF HasFreeSlot THEN runs' = Launched(e, "operator") /\ queued' = TRUE
                          ELSE UNCHANGED <<runs, queued>>
    /\ UNCHANGED <<origin, escapes, sweep, desk, spent>>

(* The ledgers stay; the daemon that starts queues a sweep.                  *)
Crash == /\ spent.crashes < MaxCrashes
         /\ spent' = [spent EXCEPT !.crashes = @ + 1]
         /\ origin' = [origin EXCEPT !.pc = IF OriginActive THEN "enter" ELSE @]
         /\ sweep' = Idle /\ door' = {} /\ queued' = TRUE
         /\ UNCHANGED <<escapes, runs, desk>>

OriginStep == \/ CloseOut \/ RecordEscape \/ RedCheckTails \/ TicketEscape \/ StampBreach
              \/ ChecksConclude \/ WatchMergeCommit \/ StampRerun \/ ParkGate \/ TailStep \/ Close
SweepStep == SweepStarts \/ RepairPass \/ SweepLaunches \/ SweepRefused
Next == \/ OriginStep \/ AnswerGate \/ SweepStep \/ FixEscapeBack \/ RunCloses
        \/ SetArmed \/ MarkFixed \/ LaunchEscape \/ DoorLaunches \/ Crash

(* Handlers and sweeps run on; a run ends; the operator may never answer.    *)
Fairness == WF_vars(OriginStep) /\ WF_vars(SweepStep) /\ WF_vars(RunCloses) /\ WF_vars(DoorLaunches)
Spec == Init /\ [][Next]_vars /\ Fairness

(* --- what must hold ------------------------------------------------------ *)

(* The ledger takes a finding of the breach once, whatever stops the close-  *)
(* out between its appends.                                                  *)
NoFindingEscapesTwice == \A d, e \in Recorded : escapes[d].finding = escapes[e].finding => d = e

(* A breach on record leaves no escape of it without a repair to come: each  *)
(* one is fixed or carries its ticket.                                       *)
ABreachTicketsItsEscapes == origin.breach.state # "none" => Recorded \subseteq Fixed \union Ticketed

(* The frontier launches no repair twice, however often it sweeps, and after *)
(* a run that failed too: that one is for the operator.                      *)
SweptOnce == \A i, j \in DOMAIN runs : runs[i].by = "sweep" /\ runs[j].by = "sweep" /\ runs[i].escape = runs[j].escape => i = j

(* One escape of a finding and one run of the frontier for it, over every    *)
(* crash of the close-out and of the sweep.                                  *)
EachFindingOnce == NoFindingEscapesTwice /\ SweptOnce

(* A repair the frontier owes an armed project is launched: nothing polls,   *)
(* so each thing that frees a slot or tickets an escape has to sweep.        *)
Waits(e) == e \in OwedRepairs /\ desk.armed /\ spent.rejected = 0
NoOwedRepairIsForgotten == \A e \in 1..Cardinality(Findings) : Waits(e) ~> ~Waits(e)

(* A project that is not armed is told of every repair it owes, once, and of *)
(* none that is not owed any more.                                           *)
Quiescent == sweep.pc = "idle" /\ ~queued /\ ~Sync
OwedIsTold == Quiescent => /\ ~desk.armed => OwedRepairs \subseteq UNION desk.items
                           /\ \A item \in desk.items : item \intersect OwedRepairs # {}
                           /\ \A a, b \in desk.items : a # b => a \intersect b = {}

(* An armed project's repairs are launched; one that is not armed is told.   *)
EveryOwedRepairIsDriven == NoOwedRepairIsForgotten /\ []OwedIsTold

(* The breach is open while an escape it ticketed is.  It fails where the    *)
(* last fix came before the run that shipped it was over.                    *)
AFixedBreachIsSettled ==
    origin.pc = "closed" /\ origin.breach.state = "open" /\ origin.breach.ticketed # {} => ~(origin.breach.ticketed \subseteq Fixed)

(* Every finding open at a red merge is in the ledger once the breach is.    *)
(* It fails where a stop fell between two records.                           *)
EveryFindingEscapes == origin.breach.state # "none" => \A f \in Findings : \E e \in Recorded : escapes[e].finding = f
=============================================================================
