------------------------------- MODULE Launches -------------------------------
(* What starts a run and what clears up after one: the frontier's sweeps     *)
(* (src/frontier/autolaunch.mjs), the launch command and the launch itself   *)
(* (src/daemon/daemon.mjs launchRun), the run workspaces of                  *)
(* src/isolation/isolation.mjs, their release and the orphan sweep, across   *)
(* starts, stops and crashes of the daemon.  One project; one thread, so an  *)
(* actor runs alone until it awaits.                                         *)
EXTENDS Naturals, FiniteSets

CONSTANTS Cards,        \* the story cards of the project's graph
          BlockedBy,    \* [Cards -> SUBSET Cards]: blockers, phase gates included
          SlotCap,      \* runs of the project that may be active
          Ids,          \* bound: run ids; a name that left no trace is used again
          MaxCommands,  \* bound: commands of the operator
          MaxFaults,    \* bound: door refusals, stacks, removals and graphs that fail
          MaxDowns      \* bound: stops and crashes

ASSUME SlotAssumption == SlotCap \in Nat \ {0}
ASSUME GraphAssumption == BlockedBy \in [Cards -> SUBSET Cards]
ASSUME FiniteIds == IsFiniteSet(Ids) /\ 0 \notin Ids \* what one home holds; 0 is nobody's

VARIABLES up,         \* the daemon: down, starting, up, stopping
          runs,       \* [Ids -> a run, or a launch on its way to one]
          disk,       \* ids whose workspace directory is there
          leftovers,  \* ids with an open workspace-leftover item
          releases,   \* releaseWorkspace calls under way: [id, removed]
          orphans,    \* the orphan sweep: the ids it has left, and the one it awaits
          sweep,      \* the frontier's sweep of the project
          queued,     \* another sweep is chained behind it
          desk,       \* what the instance ledger says: armed, starved
          spent       \* what the bounds have used

vars == <<up, runs, disk, leftovers, releases, orphans, sweep, queued, desk, spent>>
workspaceVars == <<disk, leftovers, releases, orphans>>

NoRun == [card |-> "", by |-> "", st |-> "none", keyed |-> FALSE]
IdleSweep == [pc |-> "idle", cards |-> {}, id |-> 0, seen |-> {}, failed |-> FALSE]
IdleOrphans == [pc |-> "idle", ids |-> {}, id |-> 0]

Launching == {"door", "made", "undo"}       \* a launchRun under way: `provisioning`
Open == {"active", "waiting", "parked"}     \* the engine's runs
Closed == {"shipped", "spent"}
States(S) == {i \in Ids : runs[i].st \in S}

(* A card's history is matched by the story key of a launch.  The freeze     *)
(* stamp names none, so a run launched without its key has none to the end.  *)
OnLedger == States(Open \union Closed)
RunsOf(c) == {i \in OnLedger : runs[i].card = c /\ runs[i].keyed}

Init ==
    /\ up = "down"
    /\ runs = [i \in Ids |-> NoRun]
    /\ disk = {} /\ leftovers = {} /\ releases = {} /\ orphans = IdleOrphans
    /\ sweep = IdleSweep /\ queued = FALSE
    /\ desk \in {[armed |-> armed, starved |-> FALSE] : armed \in BOOLEAN}   \* replayed from the ledger
    /\ spent = [commands |-> 0, faults |-> 0, downs |-> 0]

Spend(what) == spent' = [spent EXCEPT ![what] = @ + 1]
Fault == spent.faults < MaxFaults /\ Spend("faults")
Command == /\ up = "up" /\ spent.commands < MaxCommands
           /\ Spend("commands")

Becomes(i, st) == runs' = [runs EXCEPT ![i].st = st]
Forget(i) == runs' = [runs EXCEPT ![i] = NoRun]

(* --- slots and the frontier ---------------------------------------------- *)

Active == Cardinality(States({"active"}))   \* a park and a slot-freeing wait give the slot up
HasFreeSlot == Active < SlotCap

Shipped(c) == \E i \in RunsOf(c) : runs[i].st = "shipped"
LaunchableAgain ==   \* Seeded bug: a spent card counts as one that never ran.
    {c \in Cards : {i \in RunsOf(c) : runs[i].st # "spent"} = {} /\ \A b \in BlockedBy[c] : Shipped(b)}
Launchable == {c \in Cards : RunsOf(c) = {} /\ \A b \in BlockedBy[c] : Shipped(b)}
Unfinished == {c \in Cards : ~Shipped(c)}

QueueSweep == queued' = TRUE

(* --- a launch ------------------------------------------------------------ *)

(* An id nothing names any more stands for the fresh ids of the code.        *)
Named == disk \union leftovers \union orphans.ids \union {r.id : r \in releases} \union {sweep.id}
Fresh == {i \in States({"none"}) : i \notin Named}

(* launchRun up to its first await: the slot is read, the id is held.        *)
Begin(i, c, by, keyed) ==
    /\ i \in Fresh
    /\ \A j \in Fresh : i <= j
    /\ runs' = [runs EXCEPT ![i] = [card |-> c, by |-> by, st |-> "door", keyed |-> keyed]]

(* The door's reads of the clone: a card, a ticket, a config or a credential *)
(* that does not hold refuses the launch.                                    *)
DoorRefuses(i) == /\ runs[i].st = "door"
                  /\ Fault
                  /\ Forget(i)
                  /\ UNCHANGED <<up, workspaceVars, sweep, queued, desk>>

(* Provisioning: the worktree stands once it is added.  A stack that does    *)
(* not rise takes the worktree back, and that removal may fail unsaid.       *)
AddWorktree(i) == /\ runs[i].st = "door"
                  /\ Becomes(i, "made")
                  /\ disk' = disk \union {i}
                  /\ UNCHANGED <<up, leftovers, releases, orphans, sweep, queued, desk, spent>>
StackFails(i) == /\ runs[i].st = "made"
                 /\ Fault
                 /\ Forget(i)
                 /\ disk' \in {disk, disk \ {i}}
                 /\ UNCHANGED <<up, leftovers, releases, orphans, sweep, queued, desk>>

(* engine.launch reads the slots again, and a stopped daemon has no engine.  *)
EngineLaunch(i) ==
    /\ runs[i].st = "made"
    /\ IF up = "up" /\ HasFreeSlot
       THEN /\ Becomes(i, "active")
            /\ queued' = (queued \/ runs[i].by = "command")   \* the command sweeps once it is through
       ELSE Becomes(i, "undo") /\ UNCHANGED queued
    /\ UNCHANGED <<up, workspaceVars, sweep, desk, spent>>

(* A removal is tried again while a process holds the tree, and then left.   *)
RemoveTree(i) == \/ disk' = disk \ {i} /\ UNCHANGED spent
                 \/ Fault /\ UNCHANGED disk

(* A launch the engine refused takes its workspace back, and says nothing of *)
(* a removal that failed.                                                    *)
Undo(i) == /\ runs[i].st = "undo"
           /\ Forget(i)
           /\ RemoveTree(i)
           /\ UNCHANGED <<up, leftovers, releases, orphans, sweep, queued, desk>>

(* --- the frontier's sweep ------------------------------------------------ *)

SweepsOnlyWhenArmed == IF desk.armed THEN "graph" ELSE "idle"
SweepBegins ==
    /\ sweep.pc = "idle" /\ queued
    /\ queued' = FALSE
    /\ sweep' = [IdleSweep EXCEPT !.pc = IF up = "up" THEN SweepsOnlyWhenArmed ELSE "idle"]
    /\ UNCHANGED <<up, runs, workspaceVars, desk, spent>>

(* Only the last queued sweep judges whether the factory stands still.       *)
Settle(failed, now) ==
    desk' = IF up # "up" \/ queued THEN desk
            ELSE [desk EXCEPT !.starved = now.active = 0 /\ (failed \/ now.waits)]
StandsNow == [active |-> Active, waits |-> Unfinished # {} \/ States({"parked"}) # {}]
SweepEnds(failed) == /\ Settle(failed, StandsNow)
                     /\ sweep' = [IdleSweep EXCEPT !.failed = failed]

(* The graph is read off the clone; the run ledgers are read after it.       *)
ReadGraph ==
    /\ sweep.pc = "graph"
    /\ \/ /\ sweep' = [sweep EXCEPT !.pc = "fill", !.cards = Launchable,
                                    !.seen = OnLedger]
          /\ UNCHANGED <<desk, spent>>
       \/ Fault /\ SweepEnds(TRUE)
    /\ UNCHANGED <<up, runs, workspaceVars, queued>>

MayFill == up = "up" /\ desk.armed /\ HasFreeSlot
FillSlot ==
    /\ sweep.pc = "fill"
    /\ IF sweep.cards # {} /\ MayFill
       THEN /\ \E c \in sweep.cards, i \in Ids :
                  /\ Begin(i, c, "frontier", TRUE)
                  /\ sweep' = [sweep EXCEPT !.pc = "launching", !.cards = @ \ {c}, !.id = i]
            /\ UNCHANGED desk
       ELSE SweepEnds(FALSE) /\ UNCHANGED runs
    /\ UNCHANGED <<up, workspaceVars, queued, spent>>

(* One launch that failed ends the sweep; the next trigger tries again.      *)
LaunchReturns ==
    /\ sweep.pc = "launching"
    /\ runs[sweep.id].st \notin Launching
    /\ IF runs[sweep.id].st = "none"
       THEN SweepEnds(TRUE)
       ELSE sweep' = [sweep EXCEPT !.pc = "fill", !.id = 0] /\ UNCHANGED desk
    /\ UNCHANGED <<up, runs, workspaceVars, queued, spent>>

(* --- the operator -------------------------------------------------------- *)

(* The command reads the card's key itself, best-effort, and the door reads  *)
(* the card again: where the first read fails the run launches without one.  *)
KeyRead(keyed) == \/ keyed /\ Spend("commands")
                  \/ /\ ~keyed /\ spent.faults < MaxFaults
                     /\ spent' = [spent EXCEPT !.commands = @ + 1, !.faults = @ + 1]
LaunchCommand(c) ==
    /\ up = "up" /\ spent.commands < MaxCommands
    /\ HasFreeSlot
    /\ \E i \in Ids, keyed \in BOOLEAN : KeyRead(keyed) /\ Begin(i, c, "command", keyed)
    /\ UNCHANGED <<up, workspaceVars, sweep, queued, desk>>

SetArmed(armed) == /\ desk' = [armed |-> armed, starved |-> desk.starved /\ armed]
                   /\ QueueSweep
ArmOrPause == /\ Command
              /\ SetArmed(~desk.armed)
              /\ UNCHANGED <<up, runs, workspaceVars, sweep>>
AnswerPark(i) == /\ runs[i].st = "parked"
                 /\ Command
                 /\ Becomes(i, "active")
                 /\ QueueSweep
                 /\ UNCHANGED <<up, workspaceVars, sweep, desk>>

(* --- a run lives and closes ---------------------------------------------- *)

Alive == up \in {"starting", "up"}   \* the engine runs handlers from the resume on

OnParked == QueueSweep
RunParks(i) == /\ Alive /\ runs[i].st = "active"
               /\ Becomes(i, "parked")
               /\ OnParked
               /\ UNCHANGED <<up, workspaceVars, sweep, desk, spent>>

OnWaitingUnswept == UNCHANGED queued   \* Seeded bug: a wait gives its slot back and tells nobody.
OnWaiting == QueueSweep
RunWaits(i) == /\ Alive /\ runs[i].st = "active"
               /\ Becomes(i, "waiting")
               /\ OnWaiting
               /\ UNCHANGED <<up, workspaceVars, sweep, desk, spent>>
WaitEnds(i) == /\ Alive /\ runs[i].st = "waiting"
               /\ Becomes(i, "active")
               /\ UNCHANGED <<up, workspaceVars, sweep, queued, desk, spent>>

(* A close, on its own or on a kill, schedules the release and a sweep.      *)
OnClosed(i, st) == /\ Becomes(i, st)
                   /\ releases' = IF \E r \in releases : r.id = i THEN releases
                                  ELSE releases \union {[id |-> i, removed |-> FALSE]}
                   /\ QueueSweep
                   /\ UNCHANGED <<up, disk, leftovers, orphans, sweep, desk>>
RunCloses(i) == /\ Alive /\ runs[i].st = "active"
                /\ \E st \in Closed : OnClosed(i, st)
                /\ UNCHANGED spent
Kill(i) == /\ runs[i].st \in Open
           /\ Command
           /\ OnClosed(i, "spent")

(* --- the release of a workspace ------------------------------------------ *)

Remove == \E r \in releases :
    /\ ~r.removed
    /\ releases' = (releases \ {r}) \union {[r EXCEPT !.removed = TRUE]}
    /\ RemoveTree(r.id)
    /\ UNCHANGED <<up, runs, leftovers, orphans, sweep, queued, desk>>

(* The release is stamped, and the item of what is left opened or resolved.  *)
StampReleased == \E r \in releases :
    /\ r.removed
    /\ releases' = releases \ {r}
    /\ leftovers' = IF r.id \in disk THEN leftovers \union {r.id} ELSE leftovers \ {r.id}
    /\ UNCHANGED <<up, runs, disk, orphans, sweep, queued, desk, spent>>

(* --- the orphan sweep ---------------------------------------------------- *)

KeptForRuns == States(Open)   \* Seeded bug: a launch in provisioning is nobody's yet.
Kept == States(Open \union Launching)
DirectoriesAlone == disk \ Kept   \* Seeded bug: an item whose stamp a crash cut off is forgotten.
OrphanIds == (disk \union leftovers) \ Kept

SweepOnTick == /\ up = "up" /\ orphans.pc = "idle"
               /\ OrphanIds # {}
               /\ orphans' = [IdleOrphans EXCEPT !.pc = "next", !.ids = OrphanIds]
               /\ UNCHANGED <<up, runs, disk, leftovers, releases, sweep, queued, desk, spent>>

(* A release already under way is left to who began it.                      *)
ReleaseOrphan == \E i \in orphans.ids :
    /\ orphans.pc = "next"
    /\ IF \E r \in releases : r.id = i
       THEN /\ orphans' = [orphans EXCEPT !.ids = @ \ {i}]
            /\ UNCHANGED releases
       ELSE /\ orphans' = [pc |-> "await", ids |-> orphans.ids \ {i}, id |-> i]
            /\ releases' = releases \union {[id |-> i, removed |-> FALSE]}
    /\ UNCHANGED <<up, runs, disk, leftovers, sweep, queued, desk, spent>>
OrphanReleased == /\ orphans.pc = "await"
                  /\ ~\E r \in releases : r.id = orphans.id
                  /\ orphans' = [orphans EXCEPT !.pc = "next", !.id = 0]
                  /\ UNCHANGED <<up, runs, disk, leftovers, releases, sweep, queued, desk, spent>>
OrphansDone == /\ orphans.pc = "next" /\ orphans.ids = {}
               /\ orphans' = IdleOrphans
               /\ up' = IF up = "starting" THEN "up" ELSE up
               /\ queued' = (queued \/ up = "starting")   \* the start's own sweep
               /\ UNCHANGED <<runs, disk, leftovers, releases, sweep, desk, spent>>

(* --- the daemon ---------------------------------------------------------- *)

(* Every open run is resumed, then the orphans are swept, then it is up.     *)
Start == /\ up = "down"
         /\ up' = "starting"
         /\ runs' = [i \in Ids |-> IF runs[i].st = "waiting" THEN [runs[i] EXCEPT !.st = "active"] ELSE runs[i]]
         /\ orphans' = [IdleOrphans EXCEPT !.pc = "next", !.ids = OrphanIds]
         /\ UNCHANGED <<disk, leftovers, releases, sweep, queued, desk, spent>>

Down == /\ up' = "down"
        /\ runs' = [i \in Ids |-> IF runs[i].st \in Launching THEN NoRun ELSE runs[i]]
        /\ releases' = {} /\ orphans' = IdleOrphans
        /\ sweep' = IdleSweep /\ queued' = FALSE
        /\ UNCHANGED <<disk, leftovers, desk>>
Crash == /\ up # "down" /\ spent.downs < MaxDowns
         /\ Spend("downs")
         /\ Down

Stop == /\ up = "up" /\ spent.downs < MaxDowns
        /\ Spend("downs")
        /\ up' = "stopping"
        /\ UNCHANGED <<runs, workspaceVars, sweep, queued, desk>>
(* The releases and the sweeps are waited for, a command's launch is not.    *)
Stopped == /\ up = "stopping"
           /\ releases = {} /\ orphans.pc = "idle" /\ sweep.pc = "idle" /\ ~queued
           /\ Down
           /\ UNCHANGED spent

Launch(i) == AddWorktree(i) \/ EngineLaunch(i) \/ Undo(i)
Frontier == SweepBegins \/ ReadGraph \/ FillSlot \/ LaunchReturns
Release == Remove \/ StampReleased
Orphans == SweepOnTick \/ ReleaseOrphan \/ OrphanReleased \/ OrphansDone

Next ==
    \/ \E i \in Ids : \/ DoorRefuses(i) \/ StackFails(i) \/ Launch(i)
                      \/ RunParks(i) \/ RunWaits(i) \/ WaitEnds(i) \/ RunCloses(i)
                      \/ AnswerPark(i) \/ Kill(i)
    \/ \E c \in Cards : LaunchCommand(c)
    \/ ArmOrPause
    \/ Frontier \/ Release \/ Orphans
    \/ Start \/ Stop \/ Stopped \/ Crash

(* Node goes on with whatever is ready; the tick comes round; the service    *)
(* manager starts a daemon that went down.                                   *)
Fairness == /\ WF_vars(\E i \in Ids : Launch(i))
            /\ WF_vars(Frontier) /\ WF_vars(Release) /\ WF_vars(Orphans)
            /\ WF_vars(Start \/ Stopped)

Spec == Init /\ [][Next]_vars /\ Fairness

(* --- properties ---------------------------------------------------------- *)

Held == States(Open \union Launching)

(* No release is under way for the workspace of an open run or of a launch   *)
(* on its way (sweepOrphanWorkspaces reads the ids once and releases them    *)
(* one await after the other).                                               *)
NoHeldWorkspaceIsReleased == \A r \in releases : r.id \notin Held

Untold(i) == i \notin Held /\ (i \in disk) # (i \in leftovers)

(* The directories nobody holds and the workspace-leftover items come to     *)
(* agree, whatever failed and wherever a stop or a crash cut in: a directory *)
(* goes or is told of, an item whose directory is gone is resolved.          *)
LeftoversTellTheTruth == []<>(\A i \in Ids : ~Untold(i))

Quiet == up = "up" /\ sweep.pc = "idle" /\ ~queued /\ States(Launching) = {}

(* The triggers are enough: with nothing under way, an armed project with a  *)
(* free slot leaves no launchable card waiting, unless its last sweep failed. *)
NothingLaunchableWaits == Quiet /\ desk.armed /\ HasFreeSlot /\ Launchable # {} => sweep.failed

(* A factory that stands still with work left says so.                       *)
StandingStillIsTold == Quiet /\ desk.armed /\ StandsNow.active = 0 /\ StandsNow.waits => desk.starved

(* A paused project is idle by decision: no starvation is open for it.       *)
APausedProjectIsNotStarved == ~desk.armed => ~desk.starved

(* A quiet factory is explained: by full slots, by nothing left to start, by *)
(* an item that says it starves, or by the operator's pause.                 *)
AQuietFactoryIsExplained == NothingLaunchableWaits /\ StandingStillIsTold /\ APausedProjectIsNotStarved

(* The frontier by itself never runs a card a second time: a run it starts   *)
(* of a card that has one meets only runs a command began, and of those only *)
(* what the sweep had not read or what was launched without the card's key.  *)
OnlyACommandDoublesACard ==
    [][\A i \in Ids : runs[i].st = "made" /\ runs'[i].st = "active" /\ runs[i].by = "frontier" =>
          \A j \in OnLedger : runs[j].card = runs[i].card =>
             runs[j].by = "command" /\ (runs[j].keyed => j \notin sweep.seen)]_vars

(* What the ADR says of a spent card: it is never launched again by the      *)
(* frontier.  The code reads it before the awaits of the launch.             *)
ASpentCardIsNotRelaunched ==
    [][\A i \in Ids : runs[i].st = "made" /\ runs'[i].st = "active" /\ runs[i].by = "frontier" =>
          \A j \in RunsOf(runs[i].card) : runs[j].st # "spent"]_vars

(* What the ADR says of the history: a run whose launch names no key falls   *)
(* back on the freeze stamp, so a shipped card is known to be shipped.       *)
AShippedCardIsDone == \A i \in OnLedger : runs[i].st = "shipped" => Shipped(runs[i].card)

(* What the ADR says of a pause: it stops new launches.                      *)
APauseStopsLaunches ==
    [][\A i \in Ids : runs[i].st = "made" /\ runs'[i].st = "active" /\ runs[i].by = "frontier" => desk.armed]_vars

(* What the ADR says of the item: it is resolved when activity returns.      *)
StarvationEndsWithActivity == Quiet /\ desk.starved => Active = 0
=============================================================================
