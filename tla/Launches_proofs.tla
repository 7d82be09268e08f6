----------------------------- MODULE Launches_proofs -----------------------------
(***************************************************************************)
(* What the launches keep for any graph, any cap, any number of run ids,      *)
(* commands, faults, stops and crashes.  None of the properties is inductive: *)
(* that a release is under way for nobody's workspace needs what the orphan   *)
(* sweep still has in hand, and that a quiet factory is explained needs what   *)
(* every sweep under way has read and not yet launched.                      *)
(***************************************************************************)
EXTENDS Launches, TLAPS, FiniteSetTheorems

Ran == Open \cup Closed
RunStates == {"none"} \cup Launching \cup Ran
Run == [card : Cards \cup {""}, by : {"", "frontier", "command"}, st : RunStates, keyed : BOOLEAN]
Sweep == [pc : {"idle", "graph", "fill", "launching"}, cards : SUBSET Cards,
          id : Ids \cup {0}, seen : SUBSET Ids, failed : BOOLEAN]
Orphaned == [pc : {"idle", "next", "await"}, ids : SUBSET Ids, id : Ids \cup {0}]

(* The variables' types, in the parts a step changes together. *)
RunsTyped == runs \in [Ids -> Run]
SweepTyped ==
  /\ sweep \in Sweep /\ (sweep.pc = "launching" => sweep.id \in Ids)
  /\ queued \in BOOLEAN /\ desk \in [armed : BOOLEAN, starved : BOOLEAN]
WorkTyped ==
  /\ disk \subseteq Ids /\ leftovers \subseteq Ids /\ orphans \in Orphaned
  /\ releases \subseteq [id : Ids, removed : BOOLEAN]
Typed == RunsTyped /\ SweepTyped /\ WorkTyped

---------------------------------------------------------------------------
(* What a step does to the runs. *)

(* One of them goes to another state, keeping its card, its key and who launched it. *)
Now(y, x, st) == y.card = x.card /\ y.by = x.by /\ y.st = st /\ y.keyed = x.keyed
Moved(i, st) == Now(runs'[i], runs[i], st) /\ \A j \in Ids \ {i} : runs'[j] = runs[j]

LEMMA InState ==
  ASSUME NEW x \in Run, NEW st \in RunStates
  PROVE  [x EXCEPT !.st = st] \in Run /\ Now([x EXCEPT !.st = st], x, st)
<1>1. [x EXCEPT !.st = st] \in Run
  BY DEF Run
<1>2. Now([x EXCEPT !.st = st], x, st)
  BY DEF Run, Now
<1> QED
  BY <1>1, <1>2

LEMMA BecomesIs ==
  ASSUME RunsTyped, NEW i \in Ids, NEW st \in RunStates, Becomes(i, st)
  PROVE  RunsTyped' /\ Moved(i, st)
<1> DEFINE z == [runs[i] EXCEPT !.st = st]
<1>1. runs' = [runs EXCEPT ![i] = z]
  BY DEF Becomes
<1>2. z \in Run /\ Now(z, runs[i], st)
  BY InState DEF RunsTyped
<1> HIDE DEF z
<1>3. runs' \in [Ids -> Run] /\ runs'[i] = z /\ \A j \in Ids \ {i} : runs'[j] = runs[j]
  BY <1>1, <1>2 DEF RunsTyped
<1> QED
  BY <1>2, <1>3 DEF RunsTyped, Moved

(* A launch that fails leaves nothing of its run. *)
Forgotten(i) == runs'[i] = NoRun /\ \A j \in Ids \ {i} : runs'[j] = runs[j]

LEMMA ForgetIs ==
  ASSUME RunsTyped, NEW i \in Ids, Forget(i)
  PROVE  RunsTyped' /\ Forgotten(i)
<1>1. NoRun \in Run
  BY DEF NoRun, Run, RunStates
<1> QED
  BY <1>1 DEF RunsTyped, Forget, Forgotten

(* One that begins takes an id that nothing names. *)
Begun(i, c, by, keyed) ==
  /\ runs[i].st = "none" /\ i \notin Named
  /\ runs'[i] = [card |-> c, by |-> by, st |-> "door", keyed |-> keyed]
  /\ \A j \in Ids \ {i} : runs'[j] = runs[j]

LEMMA BeginIs ==
  ASSUME RunsTyped, NEW i \in Ids, NEW c \in Cards, NEW by \in {"frontier", "command"},
         NEW keyed \in BOOLEAN, Begin(i, c, by, keyed)
  PROVE  RunsTyped' /\ Begun(i, c, by, keyed)
<1>1. [card |-> c, by |-> by, st |-> "door", keyed |-> keyed] \in Run
  BY DEF Run, RunStates, Launching
<1>2. runs[i].st = "none" /\ i \notin Named
  BY DEF Begin, Fresh, States
<1> QED
  BY <1>1, <1>2 DEF RunsTyped, Begin, Begun

(* A run that closes, of its own or at a kill. *)
LEMMA ClosedIs ==
  ASSUME RunsTyped, NEW i \in Ids, NEW st \in Closed, OnClosed(i, st)
  PROVE  RunsTyped' /\ Moved(i, st)
<1>1. st \in RunStates
  BY DEF RunStates, Ran
<1> QED
  BY <1>1, BecomesIs DEF OnClosed

(* A daemon that goes down forgets the launches; one that starts resumes what  *)
(* waited.                                                                   *)
LEMMA DownIs ==
  ASSUME RunsTyped, Down
  PROVE  RunsTyped' /\ \A i \in Ids : runs'[i] = IF runs[i].st \in Launching THEN NoRun ELSE runs[i]
<1>1. NoRun \in Run
  BY DEF NoRun, Run, RunStates
<1> QED
  BY <1>1 DEF RunsTyped, Down

LEMMA StartIs ==
  ASSUME RunsTyped, Start
  PROVE  /\ RunsTyped'
         /\ \A i \in Ids : IF runs[i].st = "waiting" THEN Now(runs'[i], runs[i], "active")
                            ELSE runs'[i] = runs[i]
<1>1. runs' = [i \in Ids |-> IF runs[i].st = "waiting" THEN [runs[i] EXCEPT !.st = "active"] ELSE runs[i]]
  BY DEF Start
<1>2. ASSUME NEW i \in Ids
      PROVE  /\ Now([runs[i] EXCEPT !.st = "active"], runs[i], "active")
             /\ [runs[i] EXCEPT !.st = "active"] \in Run /\ runs[i] \in Run
  <2>1. runs[i] \in Run
    BY DEF RunsTyped
  <2>2. "active" \in RunStates
    BY DEF RunStates, Ran, Open
  <2> QED
    BY <2>1, <2>2, InState
<1> QED
  BY <1>1, <1>2 DEF RunsTyped

---------------------------------------------------------------------------
(* No release and no orphan sweep has the workspace of a run in hand.          *)
HeldAlone == \A i \in Held : i \notin orphans.ids /\ \A r \in releases : r.id # i

(* What a step that is not the sweep's own does to what a sweep reads: a launch *)
(* is forgotten or begun by a command, a run stays what it was to its card.     *)
Continues(j) ==
  /\ runs'[j].card = runs[j].card /\ runs'[j].by = runs[j].by /\ runs'[j].keyed = runs[j].keyed
  /\ {runs[j].st, runs'[j].st} \subseteq Launching \/ {runs[j].st, runs'[j].st} \subseteq Ran
Commanded(j) ==
  /\ runs[j].st = "none" /\ runs'[j].st \in Launching /\ runs'[j].by = "command"
  /\ runs'[j].card \in Cards /\ j # sweep.id
Steady == \A j \in Ids :
  runs'[j] = runs[j] \/ (runs[j].st \notin Ran /\ runs'[j] = NoRun) \/ Continues(j) \/ Commanded(j)

(* Such a step queues a sweep, or it frees no slot, ships nothing, parks nothing. *)
Loud == queued' = TRUE /\ (desk' = desk \/ (~desk'.armed => ~desk'.starved))
Grows == \A j \in Ids :
  /\ runs[j].st = "active" => runs'[j].st = "active"
  /\ runs'[j].st = "shipped" <=> runs[j].st = "shipped"
  /\ runs'[j].st = "parked" <=> runs[j].st = "parked"
Still == queued' = queued /\ desk' = desk /\ (up' = "up" => up = "up") /\ Grows

Outcome == Typed' /\ HeldAlone' /\ sweep' = sweep /\ Steady /\ (Loud \/ Still)

LEMMA WorkAlone ==
  ASSUME WorkTyped, HeldAlone, Held' \subseteq Held, UNCHANGED <<orphans, releases>>
  PROVE  HeldAlone'
BY DEF HeldAlone

LEMMA RunsAlone ==
  ASSUME Typed, UNCHANGED runs
  PROVE  RunsTyped' /\ Steady /\ Grows /\ Held' = Held
BY DEF Typed, RunsTyped, Steady, Grows, Held, States

(* A run that moves, seen from its card. *)
LEMMA MovedSteady ==
  ASSUME Typed, NEW i \in Ids, NEW st, Moved(i, st),
         {runs[i].st, st} \subseteq Launching \/ {runs[i].st, st} \subseteq Ran
  PROVE  Steady /\ Held' \subseteq Held \cup {i} /\ (st \notin Open \cup Launching => Held' \subseteq Held \ {i})
<1>1. Steady
  BY DEF Steady, Continues, Moved, Now
<1>2. Held' \subseteq Held \cup {i} /\ (st \notin Open \cup Launching => Held' \subseteq Held \ {i})
  BY DEF Held, States, Moved, Now
<1> QED
  BY <1>1, <1>2

LEMMA ForgottenSteady ==
  ASSUME Typed, NEW i \in Ids, Forgotten(i), runs[i].st \in Launching
  PROVE  Steady /\ Grows /\ Held' \subseteq Held
<1>1. runs[i].st \notin Ran \cup {"none"} /\ NoRun.st = "none"
  BY DEF Launching, Ran, Open, Closed, NoRun
<1>2. Steady
  BY <1>1 DEF Steady, Forgotten
<1>3. Grows
  BY <1>1 DEF Grows, Forgotten, Ran, Open, Closed
<1>4. Held' \subseteq Held
  <2>1. "none" \notin Open \cup Launching
    BY DEF Open, Launching
  <2> QED
    BY <1>1, <2>1 DEF Held, States, Forgotten
<1> QED
  BY <1>2, <1>3, <1>4

---------------------------------------------------------------------------
(* The steps of a launch. *)

LEMMA DoorRefusesIs ==
  ASSUME Typed, HeldAlone, NEW i \in Ids, DoorRefuses(i)
  PROVE  Outcome
<1>1. RunsTyped' /\ Forgotten(i) /\ runs[i].st \in Launching
  BY ForgetIs DEF DoorRefuses, Typed, Launching
<1>2. Steady /\ Grows /\ Held' \subseteq Held
  BY <1>1, ForgottenSteady
<1>3. HeldAlone'
  BY <1>2, WorkAlone DEF DoorRefuses, workspaceVars, Typed
<1>4. SweepTyped' /\ WorkTyped'
  BY DEF DoorRefuses, workspaceVars, Typed, SweepTyped, WorkTyped
<1> QED
  BY <1>1, <1>2, <1>3, <1>4 DEF Outcome, Typed, Still, DoorRefuses

LEMMA StackFailsIs ==
  ASSUME Typed, HeldAlone, NEW i \in Ids, StackFails(i)
  PROVE  Outcome
<1>1. RunsTyped' /\ Forgotten(i) /\ runs[i].st \in Launching
  BY ForgetIs DEF StackFails, Typed, Launching
<1>2. Steady /\ Grows /\ Held' \subseteq Held
  BY <1>1, ForgottenSteady
<1>3. HeldAlone'
  BY <1>2, WorkAlone DEF StackFails, Typed
<1>4. SweepTyped' /\ WorkTyped'
  BY DEF StackFails, Typed, SweepTyped, WorkTyped
<1> QED
  BY <1>1, <1>2, <1>3, <1>4 DEF Outcome, Typed, Still, StackFails

LEMMA UndoIs ==
  ASSUME Typed, HeldAlone, NEW i \in Ids, Undo(i)
  PROVE  Outcome
<1>1. RunsTyped' /\ Forgotten(i) /\ runs[i].st \in Launching
  BY ForgetIs DEF Undo, Typed, Launching
<1>2. Steady /\ Grows /\ Held' \subseteq Held
  BY <1>1, ForgottenSteady
<1>3. HeldAlone'
  BY <1>2, WorkAlone DEF Undo, Typed
<1>4. disk' \subseteq Ids
  BY DEF Undo, RemoveTree, Typed, WorkTyped
<1>5. SweepTyped' /\ WorkTyped'
  BY <1>4 DEF Undo, Typed, SweepTyped, WorkTyped
<1> QED
  BY <1>1, <1>2, <1>3, <1>5 DEF Outcome, Typed, Still, Undo

LEMMA AddWorktreeIs ==
  ASSUME Typed, HeldAlone, NEW i \in Ids, AddWorktree(i)
  PROVE  Outcome
<1>1. RunsTyped' /\ Moved(i, "made") /\ runs[i].st = "door"
  BY BecomesIs DEF AddWorktree, Typed, RunStates, Launching
<1>2. Steady /\ Held' \subseteq Held
  <2>1. i \in Held
    BY <1>1 DEF Held, States, Launching
  <2> QED
    BY <1>1, <2>1, MovedSteady DEF Launching
<1>3. Grows
  BY <1>1 DEF Grows, Moved, Now
<1>4. HeldAlone'
  BY <1>2, WorkAlone DEF AddWorktree, Typed
<1>5. SweepTyped' /\ WorkTyped'
  BY DEF AddWorktree, Typed, SweepTyped, WorkTyped
<1> QED
  BY <1>1, <1>2, <1>3, <1>4, <1>5 DEF Outcome, Typed, Still, AddWorktree

(* The engine takes the launch, or sends it back. *)
Lifted(i) ==
  /\ Typed' /\ HeldAlone' /\ sweep' = sweep /\ Moved(i, "active") /\ runs[i].st = "made"
  /\ desk' = desk /\ queued' = (queued \/ runs[i].by = "command") /\ up' = up
LEMMA EngineLaunchIs ==
  ASSUME Typed, HeldAlone, NEW i \in Ids, EngineLaunch(i)
  PROVE  Outcome \/ Lifted(i)
<1>1. SweepTyped' /\ WorkTyped' /\ UNCHANGED <<orphans, releases>>
  BY DEF EngineLaunch, workspaceVars, Typed, SweepTyped, WorkTyped
<1>2. runs[i].st = "made" /\ i \in Held
  BY DEF EngineLaunch, Held, States, Launching
<1>3. CASE up = "up" /\ HasFreeSlot
  <2>1. RunsTyped' /\ Moved(i, "active")
    BY <1>3, BecomesIs DEF EngineLaunch, Typed, RunStates, Ran, Open
  <2>2. Held' \subseteq Held
    BY <1>2, <2>1 DEF Held, States, Moved, Now
  <2>3. HeldAlone'
    BY <1>1, <2>2, WorkAlone DEF Typed
  <2> QED
    BY <1>1, <1>2, <1>3, <2>1, <2>3 DEF Lifted, EngineLaunch, Typed
<1>4. CASE ~(up = "up" /\ HasFreeSlot)
  <2>1. RunsTyped' /\ Moved(i, "undo") /\ queued' = queued
    BY <1>4, BecomesIs DEF EngineLaunch, Typed, RunStates, Launching
  <2>2. Steady /\ Held' \subseteq Held
    BY <1>2, <2>1, MovedSteady DEF Launching
  <2>3. Grows
    BY <1>2, <2>1 DEF Grows, Moved, Now
  <2>4. HeldAlone'
    BY <1>1, <2>2, WorkAlone DEF Typed
  <2> QED
    BY <1>1, <2>1, <2>2, <2>3, <2>4 DEF Outcome, Typed, Still, EngineLaunch
<1> QED
  BY <1>3, <1>4

---------------------------------------------------------------------------
(* The operator's commands and what a run does. *)

LEMMA BegunAlone ==
  ASSUME Typed, HeldAlone, NEW i \in Ids, NEW c, NEW by, NEW keyed, Begun(i, c, by, keyed),
         UNCHANGED <<orphans, releases>>
  PROVE  HeldAlone' /\ Grows
<1>1. i \notin orphans.ids /\ \A r \in releases : r.id # i
  BY DEF Begun, Named
<1>2. Held' \subseteq Held \cup {i}
  BY DEF Held, States, Begun
<1>3. HeldAlone'
  BY <1>1, <1>2 DEF HeldAlone
<1>4. Grows
  BY DEF Grows, Begun
<1> QED
  BY <1>3, <1>4

LEMMA LaunchCommandIs ==
  ASSUME Typed, HeldAlone, NEW c \in Cards, LaunchCommand(c)
  PROVE  Outcome
<1>1. PICK i \in Ids, keyed \in BOOLEAN : Begin(i, c, "command", keyed)
  BY DEF LaunchCommand
<1>2. RunsTyped' /\ Begun(i, c, "command", keyed)
  BY <1>1, BeginIs DEF Typed
<1>3. UNCHANGED <<up, sweep, queued, desk, disk, leftovers, orphans, releases>>
  BY DEF LaunchCommand, workspaceVars
<1>4. HeldAlone' /\ Grows
  BY <1>2, <1>3, BegunAlone
<1>5. Steady
  <2>1. i # sweep.id
    BY <1>2 DEF Begun, Named
  <2>2. Commanded(i)
    BY <1>2, <2>1 DEF Commanded, Begun, Launching
  <2> QED
    BY <1>2, <2>2 DEF Steady, Begun
<1>6. SweepTyped' /\ WorkTyped'
  BY <1>3 DEF Typed, SweepTyped, WorkTyped
<1> QED
  BY <1>2, <1>3, <1>4, <1>5, <1>6 DEF Outcome, Typed, Still

LEMMA ArmOrPauseIs ==
  ASSUME Typed, HeldAlone, ArmOrPause
  PROVE  Outcome
<1>1. UNCHANGED <<up, runs, sweep, disk, leftovers, orphans, releases>> /\ queued' = TRUE
  BY DEF ArmOrPause, SetArmed, QueueSweep, workspaceVars
<1>2. desk' = [armed |-> ~desk.armed, starved |-> desk.starved /\ ~desk.armed]
  BY DEF ArmOrPause, SetArmed
<1>3. desk' \in [armed : BOOLEAN, starved : BOOLEAN] /\ (~desk'.armed => ~desk'.starved)
  BY <1>2 DEF Typed, SweepTyped
<1>4. RunsTyped' /\ Steady /\ Held' = Held
  BY <1>1, RunsAlone
<1>5. HeldAlone'
  BY <1>1, <1>4, WorkAlone DEF Typed
<1>6. SweepTyped' /\ WorkTyped'
  BY <1>1, <1>3 DEF Typed, SweepTyped, WorkTyped
<1> QED
  BY <1>1, <1>3, <1>4, <1>5, <1>6 DEF Outcome, Typed, Loud

(* An open run that goes to another open state. *)
LEMMA OpenMoves ==
  ASSUME Typed, HeldAlone, NEW i \in Ids, NEW st \in Open, Becomes(i, st), runs[i].st \in Open,
         UNCHANGED <<disk, leftovers, orphans, releases, sweep, desk>>, queued' \in BOOLEAN
  PROVE  Typed' /\ HeldAlone' /\ Steady /\ Moved(i, st)
<1>1. RunsTyped' /\ Moved(i, st)
  BY BecomesIs DEF Typed, RunStates, Ran
<1>2. Steady /\ Held' \subseteq Held
  <2>1. i \in Held
    BY DEF Held, States
  <2> QED
    BY <1>1, <2>1, MovedSteady DEF Ran
<1>3. HeldAlone'
  BY <1>2, WorkAlone DEF Typed
<1>4. SweepTyped' /\ WorkTyped'
  BY DEF Typed, SweepTyped, WorkTyped
<1> QED
  BY <1>1, <1>2, <1>3, <1>4 DEF Typed

LEMMA OpenRunIs ==
  ASSUME Typed, HeldAlone, NEW i \in Ids,
         RunParks(i) \/ RunWaits(i) \/ WaitEnds(i) \/ AnswerPark(i)
  PROVE  Outcome
<1>1. CASE RunParks(i)
  <2>1. /\ Becomes(i, "parked") /\ runs[i].st = "active" /\ queued' = TRUE
        /\ UNCHANGED <<disk, leftovers, orphans, releases, sweep, desk>>
    BY <1>1 DEF RunParks, OnParked, QueueSweep, workspaceVars
  <2> QED
    BY <2>1, OpenMoves DEF Outcome, Loud, Open
<1>2. CASE RunWaits(i)
  <2>1. /\ Becomes(i, "waiting") /\ runs[i].st = "active" /\ queued' = TRUE
        /\ UNCHANGED <<disk, leftovers, orphans, releases, sweep, desk>>
    BY <1>2 DEF RunWaits, OnWaiting, QueueSweep, workspaceVars
  <2> QED
    BY <2>1, OpenMoves DEF Outcome, Loud, Open
<1>3. CASE WaitEnds(i)
  <2>1. /\ Becomes(i, "active") /\ runs[i].st = "waiting" /\ queued' = queued /\ up' = up
        /\ UNCHANGED <<disk, leftovers, orphans, releases, sweep, desk>>
    BY <1>3 DEF WaitEnds, workspaceVars
  <2>2. Typed' /\ HeldAlone' /\ Steady /\ Moved(i, "active")
    BY <2>1, OpenMoves DEF Open, Typed, SweepTyped
  <2>3. Grows
    BY <2>1, <2>2 DEF Grows, Moved, Now
  <2> QED
    BY <2>1, <2>2, <2>3 DEF Outcome, Still
<1>4. CASE AnswerPark(i)
  <2>1. /\ Becomes(i, "active") /\ runs[i].st = "parked" /\ queued' = TRUE
        /\ UNCHANGED <<disk, leftovers, orphans, releases, sweep, desk>>
    BY <1>4 DEF AnswerPark, QueueSweep, workspaceVars
  <2> QED
    BY <2>1, OpenMoves DEF Outcome, Loud, Open
<1> QED
  BY <1>1, <1>2, <1>3, <1>4

LEMMA OneReleaseMore ==
  ASSUME WorkTyped, NEW i \in Ids, releases' \subseteq releases \cup {[id |-> i, removed |-> FALSE]}
  PROVE  releases' \subseteq [id : Ids, removed : BOOLEAN]
<1>1. [id |-> i, removed |-> FALSE] \in [id : Ids, removed : BOOLEAN]
  OBVIOUS
<1>2. releases \subseteq [id : Ids, removed : BOOLEAN]
  BY DEF WorkTyped
<1> QED
  BY <1>1, <1>2, Zenon

(* A close hands the workspace of its run to a release, and of no other. *)
LEMMA ClosesIs ==
  ASSUME Typed, HeldAlone, NEW i \in Ids, NEW st \in Closed, runs[i].st \in Open, OnClosed(i, st)
  PROVE  Outcome
<1>1. RunsTyped' /\ Moved(i, st)
  BY ClosedIs DEF Typed
<1>2. /\ UNCHANGED <<up, disk, leftovers, orphans, sweep, desk>> /\ queued' = TRUE
      /\ releases' \subseteq releases \cup {[id |-> i, removed |-> FALSE]}
  BY DEF OnClosed, QueueSweep
<1>3. Steady /\ Held' \subseteq Held \ {i}
  <2>1. st \notin Open \cup Launching
    BY DEF Closed, Open, Launching
  <2> QED
    BY <1>1, <2>1, MovedSteady DEF Ran
<1>4. HeldAlone'
  BY <1>2, <1>3 DEF HeldAlone
<1>5. SweepTyped' /\ WorkTyped'
  <2>1. releases' \subseteq [id : Ids, removed : BOOLEAN]
    BY <1>2, OneReleaseMore DEF Typed
  <2> QED
    BY <1>2, <2>1 DEF Typed, SweepTyped, WorkTyped
<1> QED
  BY <1>1, <1>2, <1>3, <1>4, <1>5 DEF Outcome, Typed, Loud

---------------------------------------------------------------------------
(* The releases and the orphan sweep. *)

LEMMA ReleaseIs ==
  ASSUME Typed, HeldAlone, Release
  PROVE  Outcome
<1>1. UNCHANGED <<up, runs, orphans, sweep, queued, desk>>
  BY DEF Release, Remove, StampReleased
<1>2. /\ releases' \subseteq [id : Ids, removed : BOOLEAN]
      /\ \A q \in releases' : \E r \in releases : q.id = r.id
  <2>1. ASSUME NEW r \in releases PROVE r \in [id : Ids, removed : BOOLEAN]
    BY DEF Typed, WorkTyped
  <2>2. CASE Remove
    <3>1. PICK r \in releases : releases' = (releases \ {r}) \cup {[r EXCEPT !.removed = TRUE]}
      BY <2>2 DEF Remove
    <3>2. /\ [r EXCEPT !.removed = TRUE].id = r.id
          /\ [r EXCEPT !.removed = TRUE] \in [id : Ids, removed : BOOLEAN]
      BY <2>1
    <3> QED
      BY <2>1, <3>1, <3>2
  <2>3. CASE StampReleased
    BY <2>1, <2>3 DEF StampReleased
  <2> QED
    BY <2>2, <2>3 DEF Release
<1>3. disk' \subseteq Ids /\ leftovers' \subseteq Ids
  BY DEF Release, Remove, RemoveTree, StampReleased, Typed, WorkTyped
<1>4. RunsTyped' /\ Steady /\ Grows /\ Held' = Held
  BY <1>1, RunsAlone
<1>5. HeldAlone'
  BY <1>1, <1>2, <1>4 DEF HeldAlone
<1>6. SweepTyped' /\ WorkTyped'
  BY <1>1, <1>2, <1>3 DEF Typed, SweepTyped, WorkTyped
<1> QED
  BY <1>1, <1>4, <1>5, <1>6 DEF Outcome, Typed, Still

LEMMA OrphanIdsAlone ==
  ASSUME WorkTyped
  PROVE  OrphanIds \subseteq Ids /\ OrphanIds \cap Held = {}
BY DEF WorkTyped, OrphanIds, Kept, Held, States

LEMMA OrphansIs ==
  ASSUME Typed, HeldAlone, Orphans
  PROVE  Outcome
<1>1. UNCHANGED <<runs, disk, leftovers, sweep, desk>>
  BY DEF Orphans, SweepOnTick, ReleaseOrphan, OrphanReleased, OrphansDone
<1>2. RunsTyped' /\ Steady /\ Grows /\ Held' = Held
  BY <1>1, RunsAlone
<1>3. CASE SweepOnTick
  <2>1. /\ orphans' = [pc |-> "next", ids |-> OrphanIds, id |-> 0]
        /\ UNCHANGED <<up, releases, queued>>
    BY <1>3 DEF SweepOnTick, IdleOrphans
  <2>2. orphans' \in Orphaned /\ orphans'.ids = OrphanIds
    BY <2>1, OrphanIdsAlone DEF Typed, Orphaned
  <2>3. HeldAlone'
    BY <1>2, <2>1, <2>2, OrphanIdsAlone DEF HeldAlone, Typed
  <2>4. SweepTyped' /\ WorkTyped'
    BY <1>1, <2>1, <2>2 DEF Typed, SweepTyped, WorkTyped
  <2> QED
    BY <1>1, <1>2, <2>1, <2>3, <2>4 DEF Outcome, Typed, Still
<1>4. CASE ReleaseOrphan
  <2>1. PICK i \in orphans.ids :
          \/ orphans' = [orphans EXCEPT !.ids = @ \ {i}] /\ releases' = releases
          \/ /\ orphans' = [pc |-> "await", ids |-> orphans.ids \ {i}, id |-> i]
             /\ releases' = releases \cup {[id |-> i, removed |-> FALSE]}
    BY <1>4 DEF ReleaseOrphan
  <2>2. i \in Ids /\ i \notin Held /\ orphans \in Orphaned
    BY <2>1 DEF HeldAlone, Typed, WorkTyped, Orphaned
  <2>3. orphans' \in Orphaned /\ orphans'.ids \subseteq orphans.ids
    BY <2>1, <2>2 DEF Orphaned
  <2>4. /\ releases' \subseteq releases \cup {[id |-> i, removed |-> FALSE]}
        /\ UNCHANGED <<up, queued>>
    BY <1>4, <2>1 DEF ReleaseOrphan
  <2>5. HeldAlone'
    BY <1>2, <2>2, <2>3, <2>4 DEF HeldAlone
  <2>a. releases' \subseteq [id : Ids, removed : BOOLEAN]
    BY <2>2, <2>4, OneReleaseMore DEF Typed
  <2>6. SweepTyped' /\ WorkTyped'
    BY <1>1, <2>a, <2>3, <2>4 DEF Typed, SweepTyped, WorkTyped
  <2> QED
    BY <1>1, <1>2, <2>4, <2>5, <2>6 DEF Outcome, Typed, Still
<1>5. CASE OrphanReleased
  <2>1. orphans' = [orphans EXCEPT !.pc = "next", !.id = 0] /\ UNCHANGED <<up, releases, queued>>
    BY <1>5 DEF OrphanReleased
  <2>2. orphans' \in Orphaned /\ orphans'.ids = orphans.ids
    BY <2>1 DEF Typed, WorkTyped, Orphaned
  <2>3. HeldAlone'
    BY <1>2, <2>1, <2>2 DEF HeldAlone
  <2>4. SweepTyped' /\ WorkTyped'
    BY <1>1, <2>1, <2>2 DEF Typed, SweepTyped, WorkTyped
  <2> QED
    BY <1>1, <1>2, <2>1, <2>3, <2>4 DEF Outcome, Typed, Still
<1>6. CASE OrphansDone
  <2>1. /\ orphans' = IdleOrphans /\ releases' = releases
        /\ up' = (IF up = "starting" THEN "up" ELSE up) /\ queued' = (queued \/ up = "starting")
    BY <1>6 DEF OrphansDone
  <2>2. orphans' \in Orphaned /\ orphans'.ids = {}
    BY <2>1 DEF Orphaned, IdleOrphans
  <2>3. HeldAlone'
    BY <1>2, <2>1, <2>2 DEF HeldAlone
  <2>4. queued' \in BOOLEAN
    BY <2>1 DEF Typed, SweepTyped
  <2>5. SweepTyped' /\ WorkTyped'
    BY <1>1, <2>1, <2>2, <2>4 DEF Typed, SweepTyped, WorkTyped
  <2>6. Loud \/ Still
    <3>1. CASE up = "starting"
      BY <1>1, <2>1, <3>1 DEF Loud
    <3>2. CASE up # "starting"
      <4>1. queued' = queued /\ up' = up
        BY <2>1, <3>2 DEF Typed, SweepTyped
      <4> QED
        BY <1>1, <1>2, <4>1 DEF Still
    <3> QED
      BY <3>1, <3>2
  <2> QED
    BY <1>1, <1>2, <2>3, <2>5, <2>6 DEF Outcome, Typed
<1> QED
  BY <1>3, <1>4, <1>5, <1>6 DEF Orphans

---------------------------------------------------------------------------
(* The daemon starts, and stops. *)

LEMMA StartIsQuiet ==
  ASSUME Typed, HeldAlone, Start
  PROVE  Outcome
<1>1. /\ RunsTyped'
      /\ \A i \in Ids : IF runs[i].st = "waiting" THEN Now(runs'[i], runs[i], "active")
                        ELSE runs'[i] = runs[i]
  BY StartIs DEF Typed
<1>2. Steady /\ Grows /\ Held' = Held
  <2>1. Steady
    BY <1>1 DEF Steady, Continues, Now, Ran, Open
  <2>2. Grows
    BY <1>1 DEF Grows, Now
  <2>3. Held' = Held
    BY <1>1 DEF Held, States, Now, Open
  <2> QED
    BY <2>1, <2>2, <2>3
<1>3. /\ orphans' = [pc |-> "next", ids |-> OrphanIds, id |-> 0] /\ up' = "starting"
      /\ UNCHANGED <<disk, leftovers, releases, sweep, queued, desk>>
  BY DEF Start, IdleOrphans
<1>4. orphans' \in Orphaned /\ orphans'.ids = OrphanIds
  BY <1>3, OrphanIdsAlone DEF Typed, Orphaned
<1>5. HeldAlone'
  BY <1>2, <1>3, <1>4, OrphanIdsAlone DEF HeldAlone, Typed
<1>6. SweepTyped' /\ WorkTyped'
  BY <1>3, <1>4 DEF Typed, SweepTyped, WorkTyped
<1> QED
  BY <1>1, <1>2, <1>3, <1>5, <1>6 DEF Outcome, Typed, Still

LEMMA StandingIs ==
  ASSUME Typed, HeldAlone, Stop \/ UNCHANGED vars
  PROVE  Outcome
<1>1. /\ UNCHANGED <<runs, disk, leftovers, orphans, releases, sweep, queued, desk>>
      /\ up' = "up" => up = "up"
  BY DEF Stop, workspaceVars, vars
<1>2. RunsTyped' /\ Steady /\ Grows /\ Held' = Held
  BY <1>1, RunsAlone
<1>3. HeldAlone'
  BY <1>1, <1>2, WorkAlone DEF Typed
<1>4. SweepTyped' /\ WorkTyped'
  BY <1>1 DEF Typed, SweepTyped, WorkTyped
<1> QED
  BY <1>1, <1>2, <1>3, <1>4 DEF Outcome, Typed, Still

(* All that was under way is gone with the process. *)
Fallen ==
  /\ Typed' /\ HeldAlone' /\ up' = "down" /\ sweep' = IdleSweep /\ queued' = FALSE /\ desk' = desk
  /\ \A i \in Ids : runs'[i] = IF runs[i].st \in Launching THEN NoRun ELSE runs[i]
LEMMA DownFalls ==
  ASSUME Typed, Down
  PROVE  Fallen
<1>1. /\ up' = "down" /\ sweep' = IdleSweep /\ queued' = FALSE /\ releases' = {}
      /\ orphans' = IdleOrphans /\ UNCHANGED <<disk, leftovers, desk>>
  BY DEF Down
<1>2. IdleSweep \in Sweep /\ IdleSweep.pc = "idle" /\ IdleOrphans \in Orphaned /\ IdleOrphans.ids = {}
  BY DEF IdleSweep, IdleOrphans, Sweep, Orphaned
<1>3. HeldAlone'
  BY <1>1, <1>2 DEF HeldAlone
<1>4. SweepTyped' /\ WorkTyped'
  BY <1>1, <1>2 DEF Typed, SweepTyped, WorkTyped
<1> QED
  BY <1>1, <1>3, <1>4, DownIs DEF Fallen, Typed

---------------------------------------------------------------------------
(* The frontier's own steps. *)

(* A sweep with nothing in hand, and one that ended. *)
Bare(pc, failed) ==
  /\ sweep'.pc = pc /\ sweep'.cards = {} /\ sweep'.id = 0 /\ sweep'.seen = {} /\ sweep'.failed = failed
Ended(failed) ==
  /\ Bare("idle", failed) /\ desk'.armed = desk.armed
  /\ IF up # "up" \/ queued THEN desk' = desk
     ELSE desk'.starved = (Active = 0 /\ (failed \/ StandsNow.waits))

LEMMA SweepEndsIs ==
  ASSUME Typed, NEW failed \in BOOLEAN, SweepEnds(failed), queued' = queued
  PROVE  SweepTyped' /\ Ended(failed)
<1>1. sweep' = [pc |-> "idle", cards |-> {}, id |-> 0, seen |-> {}, failed |-> failed]
  BY DEF SweepEnds, IdleSweep
<1>2. Bare("idle", failed) /\ sweep' \in Sweep
  BY <1>1 DEF Bare, Sweep
<1>3. desk \in [armed : BOOLEAN, starved : BOOLEAN]
  BY DEF Typed, SweepTyped
<1> DEFINE told == Active = 0 /\ (failed \/ StandsNow.waits)
<1>4. desk' = IF up # "up" \/ queued THEN desk ELSE [desk EXCEPT !.starved = told]
  BY DEF SweepEnds, Settle, StandsNow
<1>5. told \in BOOLEAN
  OBVIOUS
<1> HIDE DEF told
<1>6. /\ desk' \in [armed : BOOLEAN, starved : BOOLEAN] /\ desk'.armed = desk.armed
      /\ IF up # "up" \/ queued THEN desk' = desk ELSE desk'.starved = told
  BY <1>3, <1>4, <1>5
<1>7. Ended(failed)
  BY <1>2, <1>6 DEF Ended, told
<1> QED
  BY <1>2, <1>6, <1>7 DEF SweepTyped, Typed, Bare

Begins ==
  /\ Typed' /\ HeldAlone' /\ runs' = runs /\ desk' = desk /\ up' = up /\ sweep.pc = "idle"
  /\ Bare(IF up = "up" /\ desk.armed THEN "graph" ELSE "idle", FALSE)
Reads ==
  /\ Typed' /\ HeldAlone' /\ runs' = runs /\ queued' = queued /\ desk' = desk /\ sweep.pc = "graph"
  /\ sweep'.pc = "fill" /\ sweep'.cards = Launchable /\ sweep'.seen = OnLedger
Fills ==
  /\ Typed' /\ HeldAlone' /\ queued' = queued /\ desk' = desk /\ Grows /\ sweep.pc = "fill"
  /\ \E i \in Ids, c \in sweep.cards :
       /\ Begun(i, c, "frontier", TRUE) /\ sweep'.pc = "launching" /\ sweep'.id = i
       /\ sweep'.cards = sweep.cards \ {c} /\ sweep'.seen = sweep.seen
Returns ==
  /\ Typed' /\ HeldAlone' /\ runs' = runs /\ queued' = queued /\ desk' = desk
  /\ sweep.pc = "launching" /\ runs[sweep.id].st \in Ran
  /\ sweep'.pc = "fill" /\ sweep'.cards = sweep.cards /\ sweep'.seen = sweep.seen
Ends ==
  /\ Typed' /\ HeldAlone' /\ runs' = runs /\ queued' = queued /\ up' = up
  /\ \/ Ended(TRUE) /\ sweep.pc \in {"graph", "launching"}
     \/ Ended(FALSE) /\ sweep.pc = "fill" /\ ~(sweep.cards # {} /\ MayFill)
  /\ sweep.pc = "launching" => runs[sweep.id].st \notin Launching

LEMMA OnLedgerIds == OnLedger \subseteq Ids
BY DEF OnLedger, States

LEMMA FrontierIs ==
  ASSUME Typed, HeldAlone, Frontier
  PROVE  Begins \/ Reads \/ Fills \/ Returns \/ Ends
<1>1. UNCHANGED <<up, disk, leftovers, orphans, releases>>
  BY DEF Frontier, SweepBegins, ReadGraph, FillSlot, LaunchReturns, workspaceVars
<1>2. WorkTyped'
  BY <1>1 DEF Typed, WorkTyped
<1>3. ASSUME runs' = runs PROVE RunsTyped' /\ HeldAlone'
  <2>1. RunsTyped' /\ Held' = Held
    BY <1>3, RunsAlone
  <2> QED
    BY <1>1, <2>1, WorkAlone DEF Typed
<1>4. sweep \in Sweep
  BY DEF Typed, SweepTyped
<1>5. CASE SweepBegins
  <2> DEFINE pc == IF up = "up" /\ desk.armed THEN "graph" ELSE "idle"
  <2>1. /\ sweep' = [pc |-> pc, cards |-> {}, id |-> 0, seen |-> {}, failed |-> FALSE]
        /\ runs' = runs /\ desk' = desk /\ queued' = FALSE /\ sweep.pc = "idle"
    BY <1>5 DEF SweepBegins, IdleSweep, SweepsOnlyWhenArmed
  <2>2. pc \in {"graph", "idle"}
    OBVIOUS
  <2> HIDE DEF pc
  <2>3. Bare(pc, FALSE) /\ sweep' \in Sweep /\ sweep'.pc # "launching"
    BY <2>1, <2>2 DEF Bare, Sweep
  <2>4. SweepTyped'
    BY <2>1, <2>3 DEF Typed, SweepTyped
  <2> QED
    BY <1>1, <1>2, <1>3, <2>1, <2>3, <2>4 DEF Begins, Typed, pc
<1>6. CASE ReadGraph
  <2>1. runs' = runs /\ queued' = queued /\ sweep.pc = "graph"
    BY <1>6 DEF ReadGraph
  <2>2. CASE SweepEnds(TRUE)
    BY <1>1, <1>2, <1>3, <2>1, <2>2, SweepEndsIs DEF Ends, Typed
  <2>3. CASE ~SweepEnds(TRUE)
    <3> DEFINE seen == OnLedger
    <3>1. /\ sweep' = [sweep EXCEPT !.pc = "fill", !.cards = Launchable, !.seen = seen]
          /\ desk' = desk
      BY <1>6, <2>3 DEF ReadGraph
    <3>2. Launchable \subseteq Cards /\ seen \subseteq Ids
      BY OnLedgerIds DEF Launchable
    <3> HIDE DEF seen
    <3>3. /\ sweep' \in Sweep /\ sweep'.pc = "fill" /\ sweep'.cards = Launchable /\ sweep'.seen = seen
      BY <1>4, <3>1, <3>2 DEF Sweep
    <3>4. SweepTyped'
      BY <2>1, <3>1, <3>3 DEF Typed, SweepTyped
    <3> QED
      BY <1>1, <1>2, <1>3, <2>1, <3>1, <3>3, <3>4 DEF Reads, Typed, seen
  <2> QED
    BY <2>2, <2>3
<1>7. CASE FillSlot
  <2>1. queued' = queued /\ sweep.pc = "fill"
    BY <1>7 DEF FillSlot
  <2>2. CASE sweep.cards # {} /\ MayFill
    <3>1. PICK c \in sweep.cards, i \in Ids :
            /\ Begin(i, c, "frontier", TRUE) /\ desk' = desk
            /\ sweep' = [sweep EXCEPT !.pc = "launching", !.cards = @ \ {c}, !.id = i]
      BY <1>7, <2>2 DEF FillSlot
    <3>2. c \in Cards
      BY <1>4 DEF Sweep
    <3>3. RunsTyped' /\ Begun(i, c, "frontier", TRUE)
      BY <3>1, <3>2, BeginIs DEF Typed
    <3>4. HeldAlone' /\ Grows
      BY <1>1, <3>3, BegunAlone
    <3>5. /\ sweep' \in Sweep /\ sweep'.pc = "launching" /\ sweep'.id = i
          /\ sweep'.cards = sweep.cards \ {c} /\ sweep'.seen = sweep.seen
      BY <1>4, <3>1 DEF Sweep
    <3>6. SweepTyped'
      BY <2>1, <3>1, <3>5 DEF Typed, SweepTyped
    <3> QED
      BY <1>2, <2>1, <3>1, <3>3, <3>4, <3>5, <3>6 DEF Fills, Typed
  <2>3. CASE ~(sweep.cards # {} /\ MayFill)
    <3>1. SweepEnds(FALSE) /\ runs' = runs
      BY <1>7, <2>3 DEF FillSlot
    <3> QED
      BY <1>1, <1>2, <1>3, <2>1, <2>3, <3>1, SweepEndsIs DEF Ends, Typed
  <2> QED
    BY <2>2, <2>3
<1>8. CASE LaunchReturns
  <2>1. /\ runs' = runs /\ queued' = queued /\ sweep.pc = "launching" /\ sweep.id \in Ids
        /\ runs[sweep.id].st \notin Launching /\ runs[sweep.id].st \in RunStates
    BY <1>8 DEF LaunchReturns, Typed, SweepTyped, RunsTyped, Run
  <2>2. CASE runs[sweep.id].st = "none"
    <3>1. SweepEnds(TRUE)
      BY <1>8, <2>2 DEF LaunchReturns
    <3> QED
      BY <1>1, <1>2, <1>3, <2>1, <3>1, SweepEndsIs DEF Ends, Typed
  <2>3. CASE runs[sweep.id].st # "none"
    <3>1. sweep' = [sweep EXCEPT !.pc = "fill", !.id = 0] /\ desk' = desk
      BY <1>8, <2>3 DEF LaunchReturns
    <3>2. /\ sweep' \in Sweep /\ sweep'.pc = "fill" /\ sweep'.cards = sweep.cards
          /\ sweep'.seen = sweep.seen
      BY <1>4, <3>1 DEF Sweep
    <3>3. SweepTyped'
      BY <2>1, <3>1, <3>2 DEF Typed, SweepTyped
    <3>4. runs[sweep.id].st \in Ran
      BY <2>1, <2>3 DEF RunStates
    <3> QED
      BY <1>2, <1>3, <2>1, <3>1, <3>2, <3>3, <3>4 DEF Returns, Typed
  <2> QED
    BY <2>2, <2>3
<1> QED
  BY <1>5, <1>6, <1>7, <1>8 DEF Frontier

(* Every step is one of these. *)
Kinds ==
  \/ Outcome \/ Fallen \/ (\E i \in Ids : Lifted(i))
  \/ Begins \/ Reads \/ Fills \/ Returns \/ Ends
LEMMA NextIs ==
  ASSUME Typed, HeldAlone, [Next]_vars
  PROVE  Kinds
<1>1. ASSUME NEW i \in Ids, DoorRefuses(i) \/ StackFails(i) \/ AddWorktree(i) \/ Undo(i) PROVE Kinds
  BY <1>1, DoorRefusesIs, StackFailsIs, AddWorktreeIs, UndoIs DEF Kinds
<1>2. ASSUME NEW i \in Ids, EngineLaunch(i) PROVE Kinds
  BY <1>2, EngineLaunchIs DEF Kinds
<1>3. ASSUME NEW i \in Ids, RunParks(i) \/ RunWaits(i) \/ WaitEnds(i) \/ AnswerPark(i) PROVE Kinds
  BY <1>3, OpenRunIs DEF Kinds
<1>4. ASSUME NEW i \in Ids, RunCloses(i) \/ Kill(i) PROVE Kinds
  <2>1. CASE RunCloses(i)
    <3>1. PICK st \in Closed : OnClosed(i, st)
      BY <2>1 DEF RunCloses
    <3>2. runs[i].st \in Open
      BY <2>1 DEF RunCloses, Open
    <3> QED
      BY <3>1, <3>2, ClosesIs DEF Kinds
  <2>2. CASE Kill(i)
    <3>1. OnClosed(i, "spent") /\ runs[i].st \in Open /\ "spent" \in Closed
      BY <2>2 DEF Kill, Closed
    <3> QED
      BY <3>1, ClosesIs DEF Kinds
  <2> QED
    BY <1>4, <2>1, <2>2
<1>5. ASSUME NEW c \in Cards, LaunchCommand(c) PROVE Kinds
  BY <1>5, LaunchCommandIs DEF Kinds
<1>6. CASE ArmOrPause
  BY <1>6, ArmOrPauseIs DEF Kinds
<1>7. CASE Frontier
  BY <1>7, FrontierIs DEF Kinds
<1>8. CASE Release
  BY <1>8, ReleaseIs DEF Kinds
<1>9. CASE Orphans
  BY <1>9, OrphansIs DEF Kinds
<1>10. CASE Start
  BY <1>10, StartIsQuiet DEF Kinds
<1>11. CASE Stop \/ UNCHANGED vars
  BY <1>11, StandingIs DEF Kinds
<1>12. CASE Stopped \/ Crash
  BY <1>12, DownFalls DEF Kinds, Stopped, Crash
<1> QED
  BY <1>1, <1>2, <1>3, <1>4, <1>5, <1>6, <1>7, <1>8, <1>9, <1>10, <1>11, <1>12 DEF Next, Launch

LEMMA InitHeld == Init => Typed /\ HeldAlone
<1> SUFFICES ASSUME Init PROVE Typed /\ HeldAlone
  OBVIOUS
<1>1. NoRun \in Run /\ IdleSweep \in Sweep /\ IdleSweep.pc = "idle" /\ IdleOrphans \in Orphaned
  BY DEF NoRun, Run, RunStates, IdleSweep, Sweep, IdleOrphans, Orphaned
<1>2. RunsTyped /\ WorkTyped
  BY <1>1 DEF Init, RunsTyped, WorkTyped
<1>3. SweepTyped
  <2>1. PICK a \in BOOLEAN : desk = [armed |-> a, starved |-> FALSE]
    BY DEF Init
  <2>2. desk \in [armed : BOOLEAN, starved : BOOLEAN]
    BY <2>1
  <2>3. sweep = IdleSweep /\ queued \in BOOLEAN
    BY DEF Init
  <2> QED
    BY <1>1, <2>2, <2>3 DEF SweepTyped
<1>4. HeldAlone
  BY DEF Init, HeldAlone, IdleOrphans
<1> QED
  BY <1>2, <1>3, <1>4 DEF Typed

LEMMA HeldAlways == Spec => [](Typed /\ HeldAlone)
<1>1. Typed /\ HeldAlone /\ [Next]_vars => (Typed /\ HeldAlone)'
  BY NextIs DEF Kinds, Outcome, Fallen, Lifted, Begins, Reads, Fills, Returns, Ends
<1> QED
  BY InitHeld, <1>1, PTL DEF Spec

(* No release is under way for the workspace of an open run or of a launch on    *)
(* its way, for any number of runs: what an orphan sweep read before its awaits  *)
(* is nobody's when its turn comes, since an id in hand is launched on no more.   *)
THEOREM WorkspacesAreSafe == Spec => []NoHeldWorkspaceIsReleased
<1>1. Typed /\ HeldAlone => NoHeldWorkspaceIsReleased
  BY DEF HeldAlone, NoHeldWorkspaceIsReleased
<1> QED
  BY HeldAlways, <1>1, PTL

---------------------------------------------------------------------------
(* What the frontier's sweep has in hand. *)

(* A launch on its way is of a card; one of the frontier's is the one it awaits. *)
SweepsOwn == \A i \in Ids : runs[i].st \in Launching =>
  /\ runs[i].by \in {"frontier", "command"} /\ runs[i].card \in Cards
  /\ runs[i].by = "frontier" => sweep.pc = "launching" /\ sweep.id = i
(* What has no key is of a command, and so is not what the sweep awaits.         *)
OthersAreKeyed == \A i \in Ids : runs[i].st # "none" /\ ~runs[i].keyed => runs[i].by = "command"

(* The sweep read runs that are there, and of a card it may still launch, or is  *)
(* launching, it read none with a key: what such a card has, commands began.     *)
SeenRan == sweep.seen \subseteq States(Ran)
Unread(c) == \A j \in OnLedger : runs[j].card = c =>
  runs[j].by = "command" /\ (runs[j].keyed => j \notin sweep.seen)
UnreadOnly ==
  /\ \A c \in sweep.cards : Unread(c)
  /\ sweep.pc = "launching" /\ runs[sweep.id].st \in Launching => Unread(runs[sweep.id].card)
TakenOff ==
  sweep.pc = "launching" /\ runs[sweep.id].st # "none" =>
     runs[sweep.id].card \notin sweep.cards /\ runs[sweep.id].keyed
InHand == SweepsOwn /\ OthersAreKeyed /\ SeenRan /\ UnreadOnly /\ TakenOff

LEMMA StatesApart ==
  /\ Launching \cap Ran = {} /\ "none" \notin Launching \cup Ran /\ NoRun.st = "none"
  /\ "made" \in Launching /\ "door" \in Launching /\ "active" \in Ran
BY DEF Launching, Ran, Open, Closed, NoRun

(* A card's runs in a step that is no launch of the frontier: none is added.     *)
LEMMA SteadyRun ==
  ASSUME Steady, NEW j \in Ids, runs'[j].st \in Ran
  PROVE  /\ runs[j].st \in Ran /\ runs'[j].card = runs[j].card /\ runs'[j].by = runs[j].by
         /\ runs'[j].keyed = runs[j].keyed
BY StatesApart DEF Steady, Continues, Commanded

LEMMA SteadyLaunch ==
  ASSUME Steady, NEW j \in Ids, runs'[j].st \in Launching
  PROVE  \/ Commanded(j)
         \/ runs[j].st \in Launching /\ runs'[j].card = runs[j].card /\ runs'[j].by = runs[j].by
BY StatesApart DEF Steady, Continues, Commanded

LEMMA SteadyInHand ==
  ASSUME Typed, InHand, Steady, sweep' = sweep
  PROVE  InHand'
<1>1. SweepsOwn'
  <2>1. ASSUME NEW i \in Ids, runs'[i].st \in Launching
        PROVE  /\ runs'[i].by \in {"frontier", "command"} /\ runs'[i].card \in Cards
               /\ runs'[i].by = "frontier" => sweep'.pc = "launching" /\ sweep'.id = i
    BY <2>1, SteadyLaunch DEF Commanded, InHand, SweepsOwn
  <2> QED
    BY <2>1 DEF SweepsOwn
<1>2. SeenRan'
  <2>1. ASSUME NEW j \in sweep.seen PROVE j \in Ids /\ runs'[j].st \in Ran
    <3>1. j \in Ids /\ runs[j].st \in Ran
      BY DEF InHand, SeenRan, States
    <3> QED
      BY <3>1, StatesApart DEF Steady, Continues, Commanded
  <2> QED
    BY <2>1 DEF SeenRan, States
<1>3. ASSUME NEW c, Unread(c) PROVE Unread(c)'
  <2>1. ASSUME NEW j \in OnLedger', runs'[j].card = c
        PROVE  runs'[j].by = "command" /\ (runs'[j].keyed => j \notin sweep'.seen)
    <3>1. j \in Ids /\ runs'[j].st \in Ran
      BY DEF OnLedger, States, Ran
    <3>2. j \in OnLedger /\ runs[j].card = c /\ runs'[j].by = runs[j].by /\ runs'[j].keyed = runs[j].keyed
      BY <2>1, <3>1, SteadyRun DEF OnLedger, States, Ran
    <3> QED
      BY <1>3, <3>2 DEF Unread
  <2> QED
    BY <2>1 DEF Unread
<1>4. ASSUME sweep.pc = "launching", runs'[sweep.id].st # "none"
      PROVE  /\ sweep.id \in Ids /\ runs'[sweep.id].card = runs[sweep.id].card
             /\ runs'[sweep.id].keyed = runs[sweep.id].keyed
             /\ runs[sweep.id].st # "none"
             /\ runs'[sweep.id].st \in Launching => runs[sweep.id].st \in Launching
  <2>1. sweep.id \in Ids
    BY <1>4 DEF Typed, SweepTyped
  <2> QED
    BY <1>4, <2>1, StatesApart DEF Steady, Continues, Commanded
<1>5. UnreadOnly'
  <2>1. \A c \in sweep'.cards : Unread(c)'
    BY <1>3 DEF InHand, UnreadOnly
  <2>2. ASSUME sweep'.pc = "launching", runs'[sweep'.id].st \in Launching
        PROVE  Unread(runs[sweep.id].card)' /\ runs'[sweep'.id].card = runs[sweep.id].card
    <3>1. runs[sweep.id].st \in Launching /\ runs'[sweep.id].card = runs[sweep.id].card
      BY <1>4, <2>2, StatesApart
    <3>2. Unread(runs[sweep.id].card)
      BY <2>2, <3>1 DEF InHand, UnreadOnly
    <3> QED
      BY <1>3, <3>1, <3>2
  <2> QED
    BY <2>1, <2>2 DEF UnreadOnly
<1>6. TakenOff'
  BY <1>4 DEF InHand, TakenOff
<1>7. OthersAreKeyed'
  BY StatesApart DEF InHand, OthersAreKeyed, Steady, Continues, Commanded
<1> QED
  BY <1>1, <1>2, <1>5, <1>6, <1>7 DEF InHand

(* A launch the engine takes adds a run to its card, one the sweep has not read.  *)
LEMMA LiftedInHand ==
  ASSUME Typed, InHand, NEW i \in Ids, Lifted(i)
  PROVE  InHand'
<1>1. /\ sweep' = sweep /\ runs[i].st = "made" /\ runs'[i].st = "active"
      /\ \A j \in Ids : runs'[j].card = runs[j].card /\ runs'[j].by = runs[j].by /\ runs'[j].keyed = runs[j].keyed
      /\ \A j \in Ids \ {i} : runs'[j] = runs[j]
  BY DEF Lifted, Moved, Now
<1>2. i \notin sweep.seen
  BY <1>1, StatesApart DEF InHand, SeenRan, States
<1>3. /\ runs[i].by \in {"frontier", "command"}
      /\ runs[i].by = "frontier" => sweep.pc = "launching" /\ sweep.id = i
  BY <1>1, StatesApart DEF InHand, SweepsOwn
<1>4. SweepsOwn'
  BY <1>1, StatesApart DEF InHand, SweepsOwn
<1>5. SeenRan'
  BY <1>1, StatesApart DEF InHand, SeenRan, States
<1>6. ASSUME NEW c, Unread(c), runs[i].by = "command" \/ runs[i].card # c PROVE Unread(c)'
  <2>1. ASSUME NEW j \in OnLedger', runs'[j].card = c
        PROVE  runs'[j].by = "command" /\ (runs'[j].keyed => j \notin sweep'.seen)
    <3>1. CASE j = i
      BY <1>1, <1>2, <1>6, <2>1, <3>1
    <3>2. CASE j # i
      <4>1. j \in OnLedger /\ j \in Ids /\ runs'[j] = runs[j]
        BY <1>1, <2>1, <3>2 DEF OnLedger, States
      <4> QED
        BY <1>1, <1>6, <2>1, <4>1 DEF Unread
    <3> QED
      BY <3>1, <3>2
  <2> QED
    BY <2>1 DEF Unread
<1>7. UnreadOnly'
  <2>1. ASSUME NEW c \in sweep.cards PROVE Unread(c)'
    <3>1. runs[i].by = "command" \/ runs[i].card # c
      BY <1>1, <1>3 DEF InHand, TakenOff
    <3> QED
      BY <1>6, <3>1 DEF InHand, UnreadOnly
  <2>2. ASSUME sweep.pc = "launching", runs'[sweep.id].st \in Launching
        PROVE  Unread(runs[sweep.id].card)'
    <3>1. sweep.id \in Ids /\ sweep.id # i
      BY <1>1, <2>2, StatesApart DEF Typed, SweepTyped
    <3>2. runs[i].by = "command" /\ runs'[sweep.id] = runs[sweep.id]
      BY <1>1, <1>3, <3>1
    <3>3. Unread(runs[sweep.id].card)
      BY <2>2, <3>2 DEF InHand, UnreadOnly
    <3> QED
      BY <1>1, <1>6, <3>2, <3>3
  <2> QED
    BY <1>1, <2>1, <2>2 DEF UnreadOnly
<1>8. TakenOff'
  <2>1. sweep.pc = "launching" => sweep.id \in Ids
    BY DEF Typed, SweepTyped
  <2> QED
    BY <1>1, <2>1 DEF InHand, TakenOff
<1>9. OthersAreKeyed'
  BY <1>1 DEF InHand, OthersAreKeyed
<1> QED
  BY <1>4, <1>5, <1>7, <1>8, <1>9 DEF InHand

(* The frontier's own steps: only a card with no run of its key is taken in hand. *)
LEMMA UnchangedRead ==
  ASSUME UNCHANGED runs, NEW c, Unread(c), sweep'.seen = sweep.seen
  PROVE  Unread(c)'
BY DEF Unread, OnLedger, States

(* No launch of the frontier is under way but the one it awaits.                *)
LEMMA NobodyElses ==
  ASSUME Typed, InHand, UNCHANGED runs,
         sweep.pc = "launching" => runs[sweep.id].st \notin Launching
  PROVE  SweepsOwn'
BY DEF InHand, SweepsOwn

LEMMA FrontierInHand ==
  ASSUME Typed, InHand, Begins \/ Reads \/ Returns \/ Ends
  PROVE  InHand'
<1>0. UNCHANGED runs
  BY DEF Begins, Reads, Returns, Ends
<1>1. SweepsOwn'
  <2>1. sweep.pc = "launching" => runs[sweep.id].st \notin Launching
    BY StatesApart DEF Begins, Reads, Returns, Ends
  <2> QED
    BY <1>0, <2>1, NobodyElses
<1>5. OthersAreKeyed'
  BY <1>0 DEF InHand, OthersAreKeyed
<1>2. CASE Begins \/ Ends
  <2>1. sweep'.cards = {} /\ sweep'.seen = {} /\ sweep'.pc # "launching"
    BY <1>2 DEF Begins, Ends, Ended, Bare
  <2> QED
    BY <1>1, <1>5, <2>1 DEF InHand, SeenRan, UnreadOnly, TakenOff
<1>3. CASE Reads
  <2>1. /\ sweep'.pc = "fill" /\ sweep'.cards = Launchable
        /\ sweep'.seen = OnLedger
    BY <1>3 DEF Reads
  <2>2. SeenRan'
    <3>1. ASSUME NEW j \in sweep'.seen PROVE j \in Ids /\ runs[j].st \in Ran
      BY <2>1 DEF OnLedger, States, Ran
    <3> QED
      BY <1>0, <3>1 DEF SeenRan, States
  <2>3. ASSUME NEW c \in Launchable PROVE Unread(c)'
    <3>1. ASSUME NEW j \in OnLedger, runs[j].card = c PROVE runs[j].by = "command" /\ ~runs[j].keyed
      <4>1. j \in Ids /\ runs[j].st # "none"
        BY DEF OnLedger, States, Open, Closed
      <4>2. j \notin RunsOf(c)
        BY DEF Launchable
      <4> QED
        BY <3>1, <4>1, <4>2 DEF RunsOf, InHand, OthersAreKeyed
    <3>2. OnLedger' = OnLedger
      BY <1>0 DEF OnLedger, States
    <3> QED
      BY <1>0, <3>1, <3>2 DEF Unread
  <2> QED
    BY <1>1, <1>5, <2>1, <2>2, <2>3 DEF InHand, UnreadOnly, TakenOff
<1>4. CASE Returns
  <2>1. sweep'.pc = "fill" /\ sweep'.cards = sweep.cards /\ sweep'.seen = sweep.seen
    BY <1>4 DEF Returns
  <2>2. SeenRan'
    BY <1>0, <2>1 DEF InHand, SeenRan, States
  <2>3. \A c \in sweep.cards : Unread(c)'
    BY <1>0, <2>1, UnchangedRead DEF InHand, UnreadOnly
  <2> QED
    BY <1>1, <1>5, <2>1, <2>2, <2>3 DEF InHand, UnreadOnly, TakenOff
<1> QED
  BY <1>2, <1>3, <1>4

LEMMA FillsInHand ==
  ASSUME Typed, InHand, Fills
  PROVE  InHand'
<1>1. PICK i, c :
        /\ i \in Ids /\ c \in sweep.cards
        /\ Begun(i, c, "frontier", TRUE) /\ sweep'.pc = "launching" /\ sweep'.id = i
        /\ sweep'.cards = sweep.cards \ {c} /\ sweep'.seen = sweep.seen
  BY DEF Fills
<1>2. /\ sweep.pc = "fill" /\ c \in Cards
      /\ runs[i].st = "none" /\ runs'[i].st = "door" /\ runs'[i].card = c /\ runs'[i].by = "frontier"
      /\ runs'[i].keyed
      /\ \A j \in Ids \ {i} : runs'[j] = runs[j]
  BY <1>1 DEF Fills, Begun, Typed, SweepTyped, Sweep
<1>3. SweepsOwn'
  BY <1>1, <1>2 DEF InHand, SweepsOwn
<1>4. SeenRan'
  BY <1>1, <1>2, StatesApart DEF InHand, SeenRan, States
<1>5. ASSUME NEW b, Unread(b) PROVE Unread(b)'
  <2>1. ASSUME NEW j \in OnLedger' PROVE j \in OnLedger /\ runs'[j] = runs[j]
    <3>1. j \in Ids /\ j # i
      BY <1>2, <2>1, StatesApart DEF OnLedger, States, Ran
    <3> QED
      BY <1>2, <2>1, <3>1 DEF OnLedger, States
  <2> QED
    BY <1>1, <1>5, <2>1 DEF Unread
<1>6. UnreadOnly'
  <2>1. \A b \in sweep.cards : Unread(b)'
    BY <1>5 DEF InHand, UnreadOnly
  <2>2. runs'[sweep'.id].card = c
    BY <1>1, <1>2
  <2>3. Unread(runs[sweep.id].card)'
    BY <1>1, <2>1, <2>2
  <2> QED
    BY <1>1, <2>1, <2>3 DEF UnreadOnly
<1>7. TakenOff'
  BY <1>1, <1>2 DEF TakenOff
<1>8. OthersAreKeyed'
  BY <1>2 DEF InHand, OthersAreKeyed
<1> QED
  BY <1>3, <1>4, <1>6, <1>7, <1>8 DEF InHand

LEMMA FallenInHand ==
  ASSUME InHand, Fallen
  PROVE  InHand'
<1>1. /\ sweep'.pc = "idle" /\ sweep'.cards = {} /\ sweep'.seen = {}
      /\ \A i \in Ids : runs'[i].st \notin Launching
  BY StatesApart DEF Fallen, IdleSweep
<1>2. OthersAreKeyed'
  BY StatesApart DEF Fallen, InHand, OthersAreKeyed
<1> QED
  BY <1>1, <1>2 DEF InHand, SweepsOwn, SeenRan, UnreadOnly, TakenOff

LEMMA InHandStep ==
  ASSUME Typed, HeldAlone, InHand, [Next]_vars
  PROVE  InHand'
<1>1. Kinds
  BY NextIs
<1> QED
  BY <1>1, SteadyInHand, FallenInHand, LiftedInHand, FillsInHand, FrontierInHand DEF Kinds, Outcome

LEMMA InHandAlways == Spec => []InHand
<1>1. Init => InHand
  <2> SUFFICES ASSUME Init PROVE InHand
    OBVIOUS
  <2>1. sweep = IdleSweep /\ \A i \in Ids : runs[i].st = "none"
    BY DEF Init, NoRun
  <2> QED
    BY <2>1, StatesApart DEF InHand, SweepsOwn, OthersAreKeyed, SeenRan, UnreadOnly, TakenOff, IdleSweep
<1>2. Typed /\ HeldAlone /\ InHand /\ [Next]_vars => InHand'
  BY InHandStep
<1> QED
  BY HeldAlways, <1>1, <1>2, PTL DEF Spec

(* A run the frontier starts meets, on its card, only runs that commands began,  *)
(* and that the sweep had not read or that carry no key of the card: for any      *)
(* graph and any cap, whatever ends and begins between the sweep's reads and the  *)
(* engine's.                                                                    *)
THEOREM TheFrontierRunsACardOnce == Spec => OnlyACommandDoublesACard
<1> DEFINE Once == \A i \in Ids : runs[i].st = "made" /\ runs'[i].st = "active" /\ runs[i].by = "frontier" =>
                     \A j \in OnLedger : runs[j].card = runs[i].card =>
                        runs[j].by = "command" /\ (runs[j].keyed => j \notin sweep.seen)
<1>1. Typed /\ HeldAlone /\ InHand /\ [Next]_vars => Once
  <2> SUFFICES ASSUME Typed, HeldAlone, InHand, [Next]_vars, NEW i \in Ids,
                      runs[i].st = "made", runs'[i].st = "active", runs[i].by = "frontier"
               PROVE  Unread(runs[i].card)
    BY DEF Unread
  <2>1. sweep.pc = "launching" /\ sweep.id = i
    BY StatesApart DEF InHand, SweepsOwn
  <2> QED
    BY <2>1, StatesApart DEF InHand, UnreadOnly
<1> QED
  BY HeldAlways, InHandAlways, <1>1, PTL DEF Spec, OnlyACommandDoublesACard

---------------------------------------------------------------------------
(* What a quiet factory is explained by. *)

ArmedSweep == sweep.pc # "idle" /\ ~queued => desk.armed

(* A sweep that nothing overtook has every launchable card in hand.              *)
Covered ==
  /\ sweep.pc = "fill" /\ ~queued => Launchable \subseteq sweep.cards
  /\ sweep.pc = "launching" /\ ~queued /\ runs[sweep.id].st # "none" =>
        Launchable \subseteq sweep.cards \cup {runs[sweep.id].card}
AtRest == up = "up" /\ sweep.pc = "idle" /\ ~queued /\ desk.armed =>
  /\ HasFreeSlot /\ Launchable # {} => sweep.failed
  /\ Active = 0 /\ StandsNow.waits => desk.starved
Told == ArmedSweep /\ Covered /\ AtRest /\ APausedProjectIsNotStarved

(* A step that frees no slot and ships nothing makes no card launchable.         *)
Persists == \A j \in Ids : runs[j].st \in Ran =>
  runs'[j].st \in Ran /\ runs'[j].card = runs[j].card /\ runs'[j].keyed = runs[j].keyed

LEMMA ActiveGrows ==
  ASSUME Typed, Grows
  PROVE  (HasFreeSlot' => HasFreeSlot) /\ (Active' = 0 => Active = 0)
<1> DEFINE S == States({"active"})
           T == States({"active"})'
<1>1. S \subseteq T /\ T \subseteq Ids
  BY DEF Grows, States
<1>2. IsFiniteSet(T)
  BY <1>1, FiniteIds, FS_Subset
<1>3. IsFiniteSet(S) /\ Cardinality(S) <= Cardinality(T)
  BY <1>1, <1>2, FS_Subset
<1>4. Cardinality(S) \in Nat /\ Cardinality(T) \in Nat
  BY <1>2, <1>3, FS_CardinalityType
<1>5. Active = Cardinality(S) /\ Active' = Cardinality(T)
  BY DEF Active
<1> HIDE DEF S, T
<1> QED
  BY <1>3, <1>4, <1>5, SlotAssumption DEF HasFreeSlot

LEMMA CardsShrink ==
  ASSUME Typed, Grows, Persists
  PROVE  Launchable' \subseteq Launchable /\ StandsNow'.waits = StandsNow.waits
<1>1. ASSUME NEW c PROVE RunsOf(c) \subseteq RunsOf(c)' /\ Shipped(c)' = Shipped(c)
  <2>1. RunsOf(c) \subseteq RunsOf(c)'
    BY DEF RunsOf, OnLedger, States, Persists, Ran
  <2>2. Shipped(c) => Shipped(c)'
    BY <2>1 DEF Shipped, Grows, RunsOf, OnLedger, States
  <2>3. Shipped(c)' => Shipped(c)
    <3>1. "shipped" \in Ran
      BY DEF Ran, Closed
    <3>2. ASSUME NEW j \in RunsOf(c)', runs'[j].st = "shipped" PROVE j \in RunsOf(c) /\ runs[j].st = "shipped"
      <4>1. j \in Ids /\ runs[j].st = "shipped" /\ runs'[j].card = c /\ runs'[j].keyed
        BY <3>2 DEF RunsOf, OnLedger, States, Grows
      <4> QED
        BY <3>1, <4>1 DEF Persists, RunsOf, OnLedger, States, Ran
    <3> QED
      BY <3>2 DEF Shipped
  <2>4. Shipped(c) \in BOOLEAN /\ Shipped(c)' \in BOOLEAN
    BY DEF Shipped
  <2> QED
    BY <2>1, <2>2, <2>3, <2>4
<1>2. ASSUME NEW c \in Launchable' PROVE c \in Launchable
  BY <1>1, <1>2 DEF Launchable
<1>3. Unfinished' = Unfinished
  BY <1>1 DEF Unfinished
<1>4. States({"parked"})' = States({"parked"})
  BY DEF Grows, States
<1> QED
  BY <1>2, <1>3, <1>4 DEF StandsNow

LEMMA SteadyPersists ==
  ASSUME Steady
  PROVE  Persists
BY StatesApart DEF Steady, Persists, Continues, Commanded

(* The launch that the sweep awaits stays of its card. *)
LEMMA AwaitedStays ==
  ASSUME Typed, Steady, sweep.pc = "launching", runs'[sweep.id].st # "none"
  PROVE  runs[sweep.id].st # "none" /\ runs'[sweep.id].card = runs[sweep.id].card
<1>1. sweep.id \in Ids
  BY DEF Typed, SweepTyped
<1> QED
  BY <1>1, StatesApart DEF Steady, Continues, Commanded

LEMMA LoudTold ==
  ASSUME Told, Loud
  PROVE  Told'
BY DEF Told, Loud, ArmedSweep, Covered, AtRest, APausedProjectIsNotStarved

(* A sweep under way covers what is launchable, through a step that adds nothing. *)
LEMMA CoveredStays ==
  ASSUME Covered, sweep' = sweep, queued' = queued, Launchable' \subseteq Launchable,
         sweep.pc = "launching" /\ runs'[sweep.id].st # "none" =>
            runs[sweep.id].st # "none" /\ runs'[sweep.id].card = runs[sweep.id].card
  PROVE  Covered'
BY DEF Covered

LEMMA StillTold ==
  ASSUME Typed, Told, Outcome, Still
  PROVE  Told'
<1>1. /\ sweep' = sweep /\ queued' = queued /\ desk' = desk /\ (up' = "up" => up = "up")
      /\ Steady /\ Grows
  BY DEF Outcome, Still
<1>2. /\ (HasFreeSlot' => HasFreeSlot) /\ (Active' = 0 => Active = 0)
      /\ Launchable' \subseteq Launchable /\ StandsNow'.waits = StandsNow.waits
  BY <1>1, SteadyPersists, ActiveGrows, CardsShrink
<1>3. Covered'
  BY <1>1, <1>2, AwaitedStays, CoveredStays DEF Told
<1>4. ArmedSweep' /\ APausedProjectIsNotStarved'
  BY <1>1 DEF Told, ArmedSweep, APausedProjectIsNotStarved
<1>5. AtRest'
  BY <1>1, <1>2 DEF Told, AtRest
<1> QED
  BY <1>3, <1>4, <1>5 DEF Told

LEMMA LiftedTold ==
  ASSUME Typed, InHand, Told, NEW i \in Ids, Lifted(i)
  PROVE  Told'
<1>1. /\ sweep' = sweep /\ desk' = desk /\ queued' = (queued \/ runs[i].by = "command")
      /\ runs[i].st = "made" /\ runs'[i].st = "active" /\ runs'[i].card = runs[i].card
      /\ runs'[i].keyed = runs[i].keyed
      /\ \A j \in Ids \ {i} : runs'[j] = runs[j]
  BY DEF Lifted, Moved, Now
<1>2. runs[i].by \in {"frontier", "command"}
      /\ (runs[i].by = "frontier" => sweep.pc = "launching" /\ sweep.id = i)
  BY <1>1, StatesApart DEF InHand, SweepsOwn
<1>3. CASE runs[i].by = "command"
  BY <1>1, <1>3, LoudTold DEF Loud
<1>4. CASE runs[i].by = "frontier"
  <2>1. queued' = queued
    BY <1>1, <1>4 DEF Typed, SweepTyped
  <2>2. Grows /\ Persists
    BY <1>1, StatesApart DEF Grows, Persists
  <2>3. Launchable' \subseteq Launchable
    BY <2>2, CardsShrink
  <2>4. Covered'
    <3>1. sweep.id = i /\ runs[sweep.id].st # "none"
      BY <1>1, <1>2, <1>4
    <3> QED
      BY <1>1, <2>1, <2>3, <3>1, CoveredStays DEF Told
  <2>5. ArmedSweep' /\ APausedProjectIsNotStarved'
    BY <1>1, <2>1 DEF Told, ArmedSweep, APausedProjectIsNotStarved
  <2>6. AtRest'
    BY <1>1, <1>2, <1>4 DEF AtRest
  <2> QED
    BY <2>4, <2>5, <2>6 DEF Told
<1> QED
  BY <1>2, <1>3, <1>4

LEMMA BeginsTold ==
  ASSUME Told, Begins
  PROVE  Told'
<1>1. /\ up' = up /\ desk' = desk /\ sweep'.pc = IF up = "up" /\ desk.armed THEN "graph" ELSE "idle"
  BY DEF Begins, Bare
<1> QED
  BY <1>1 DEF Told, ArmedSweep, Covered, AtRest, APausedProjectIsNotStarved

LEMMA UnchangedLaunchable ==
  ASSUME UNCHANGED runs
  PROVE  /\ Launchable' = Launchable /\ HasFreeSlot' = HasFreeSlot /\ Active' = Active
         /\ StandsNow' = StandsNow
BY DEF Launchable, Shipped, RunsOf, OnLedger, HasFreeSlot, Active, States, StandsNow, Unfinished

LEMMA SweepTold ==
  ASSUME Typed, InHand, Told, Reads \/ Fills \/ Returns
  PROVE  Told'
<1>1. /\ queued' = queued /\ desk' = desk /\ sweep.pc # "idle" /\ sweep'.pc # "idle"
  BY DEF Reads, Fills, Returns
<1>2. ArmedSweep' /\ AtRest' /\ APausedProjectIsNotStarved'
  BY <1>1 DEF Told, ArmedSweep, AtRest, APausedProjectIsNotStarved
<1>3. Covered'
  <2>1. CASE Reads
    <3>1. sweep'.pc = "fill" /\ sweep'.cards = Launchable /\ Launchable' = Launchable
      BY <2>1, UnchangedLaunchable DEF Reads
    <3> QED
      BY <3>1 DEF Covered
  <2>2. CASE Fills
    <3>1. PICK i, c :
            /\ i \in Ids /\ c \in sweep.cards
            /\ Begun(i, c, "frontier", TRUE) /\ sweep'.pc = "launching" /\ sweep'.id = i
            /\ sweep'.cards = sweep.cards \ {c}
      BY <2>2 DEF Fills
    <3>2. sweep.pc = "fill" /\ Grows /\ runs'[i].card = c
      BY <2>2, <3>1 DEF Fills, Begun
    <3>3. Persists
      BY <3>1, StatesApart DEF Begun, Persists
    <3>4. Launchable' \subseteq Launchable
      BY <3>2, <3>3, CardsShrink
    <3> QED
      BY <1>1, <3>1, <3>2, <3>4 DEF Told, Covered
  <2>3. CASE Returns
    <3>1. /\ sweep.pc = "launching" /\ runs[sweep.id].st \in Ran /\ Launchable' = Launchable
          /\ sweep'.pc = "fill" /\ sweep'.cards = sweep.cards /\ sweep.id \in Ids
      BY <2>3, UnchangedLaunchable DEF Returns, Typed, SweepTyped
    <3>2. runs[sweep.id].keyed
      BY <3>1, StatesApart DEF InHand, TakenOff
    <3>3. sweep.id \in RunsOf(runs[sweep.id].card)
      BY <3>1, <3>2 DEF RunsOf, OnLedger, States, Ran
    <3>4. runs[sweep.id].card \notin Launchable
      BY <3>3 DEF Launchable
    <3> QED
      BY <1>1, <3>1, <3>4, StatesApart DEF Told, Covered
  <2> QED
    BY <2>1, <2>2, <2>3
<1> QED
  BY <1>2, <1>3 DEF Told

(* The sweep that ends last fills what it can, or says why not.                  *)
LEMMA EndsTold ==
  ASSUME Typed, Told, Ends
  PROVE  Told'
<1>1. PICK failed \in BOOLEAN :
        /\ Ended(failed)
        /\ ~failed => sweep.pc = "fill" /\ ~(sweep.cards # {} /\ MayFill)
  BY DEF Ends
<1>2. /\ runs' = runs /\ queued' = queued /\ up' = up /\ sweep.pc # "idle"
  BY DEF Ends
<1>3. /\ sweep'.pc = "idle" /\ sweep'.failed = failed /\ desk'.armed = desk.armed
      /\ IF up # "up" \/ queued THEN desk' = desk
         ELSE desk'.starved = (Active = 0 /\ (failed \/ StandsNow.waits))
  BY <1>1 DEF Ended, Bare
<1>4. ArmedSweep' /\ Covered'
  BY <1>3 DEF ArmedSweep, Covered
<1>5. APausedProjectIsNotStarved'
  BY <1>2, <1>3 DEF Told, ArmedSweep, APausedProjectIsNotStarved
<1>6. AtRest'
  <2> SUFFICES ASSUME up = "up", ~queued, desk.armed
               PROVE  /\ HasFreeSlot /\ Launchable # {} => failed
                      /\ Active = 0 /\ StandsNow.waits => desk'.starved
    BY <1>2, <1>3, UnchangedLaunchable DEF AtRest
  <2>1. HasFreeSlot /\ Launchable # {} => failed
    BY <1>1 DEF Told, Covered, MayFill
  <2>2. Active = 0 /\ StandsNow.waits => desk'.starved
    BY <1>3
  <2> QED
    BY <2>1, <2>2
<1> QED
  BY <1>4, <1>5, <1>6 DEF Told

LEMMA FallenTold ==
  ASSUME Told, Fallen
  PROVE  Told'
<1>1. up' = "down" /\ sweep'.pc = "idle" /\ desk' = desk
  BY DEF Fallen, IdleSweep
<1> QED
  BY <1>1 DEF Told, ArmedSweep, Covered, AtRest, APausedProjectIsNotStarved

LEMMA ToldStep ==
  ASSUME Typed, HeldAlone, InHand, Told, [Next]_vars
  PROVE  Told'
<1>1. Kinds
  BY NextIs
<1>2. CASE Outcome
  BY <1>2, LoudTold, StillTold DEF Outcome
<1>3. CASE \E i \in Ids : Lifted(i)
  BY <1>3, LiftedTold
<1> QED
  BY <1>1, <1>2, <1>3, FallenTold, BeginsTold, SweepTold, EndsTold DEF Kinds

LEMMA ToldAlways == Spec => []Told
<1>1. Init => Told
  <2> SUFFICES ASSUME Init PROVE Told
    OBVIOUS
  <2>1. PICK a \in BOOLEAN : desk = [armed |-> a, starved |-> FALSE]
    BY DEF Init
  <2>2. sweep.pc = "idle" /\ up = "down" /\ ~desk.starved
    BY <2>1 DEF Init, IdleSweep
  <2> QED
    BY <2>2 DEF Told, ArmedSweep, Covered, AtRest, APausedProjectIsNotStarved
<1>2. Typed /\ HeldAlone /\ InHand /\ Told /\ [Next]_vars => Told'
  BY ToldStep
<1> QED
  BY HeldAlways, InHandAlways, <1>1, <1>2, PTL DEF Spec

(* Whenever nothing is under way, an armed project leaves no launchable card     *)
(* beside a free slot but behind a sweep that failed, and a factory that stands   *)
(* still with work left says so: the triggers are enough, wherever a command, a   *)
(* close, a stop or a crash falls between the sweep's reads and its launches.    *)
THEOREM QuietIsExplained == Spec => []AQuietFactoryIsExplained
<1>0. StandsNow.active = Active
  BY DEF StandsNow
<1>1. Told => AQuietFactoryIsExplained
  BY <1>0 DEF Told, AtRest, AQuietFactoryIsExplained, NothingLaunchableWaits, StandingStillIsTold, Quiet
<1> QED
  BY ToldAlways, <1>1, PTL
===========================================================================
