# A verification of the Olympus v2 harness

Olympus runs software-development *runs* unattended.  One durable daemon owns
every run as a state machine inside its process, starts *seats* (agents) as
child processes, judges what they wrote, and ships the result through a
forge.  It keeps nothing but append-only ledgers: whatever it holds in memory
it can derive again from them.  These modules model the parts of it where that
is hard, TLC checks them on small instances, and TLAPS proves the most
important of the results for every value of the constants.

Paths below are relative to `src/`, the copy of the repository these modules
were translated from.

## 1. Inventory

The daemon is one Node process with one event loop, so a synchronous call is
atomic for everybody but a crash and a reader in another process.  Concurrency
comes from what is in flight between two calls: handlers at an `await`, child
processes, timers, queued promises, the control inbox, the forge.

| component | state it keeps | operations | talks to |
|---|---|---|---|
| run engine, `src/engine/{engine,replay}.mjs` | per open run: stage, parked, violated, held with the deferred stage, executing, seats and waits in flight, quiet streak, pinned config | launch, stage chain and directives, park, answer, resolve, reconfigure, kill, close, hold and release, stop, resume at start | stage handlers, seats, holds, the run ledger, autolaunch (a close queues a sweep) |
| operator holds, `src/daemon/hold.mjs` | scopes held, folded from the instance ledger | set and clear for the instance, a project, one run | engine (`runHeld`, `releaseHeldRuns`) |
| waiting, `src/lanes/waiting.mjs` | open waits of a run | begin, end, cancel, recover at a start | slot count, hold barrier |
| seat supervision, `src/engine/{supervise,processes}.mjs` | the child, its ceiling and silence timers | start, exit, terminate | run ledger, process table |
| seat sessions, `src/seats/runner.mjs` | one session: model, attempt, slot, captures | dispatch, crash retry, ladder wait, degrade, corrective attempt, report | semaphores, supervision, waiting |
| model semaphores, `src/seats/semaphore.mjs` | slots held and waiters per model, live caps | acquire, release, drain, set limits | seat sessions, config pick-up |
| ship token, `src/ship/token.mjs` | none: read off the ledgers of the open runs | take, release, position, state | update and ship stages |
| ship lane, `src/lanes/{ship,fastpath,codehead}.mjs`, `src/ship/forge.mjs` | ledger lines, the run tree, a request at the forge | update with its rounds and fast path, open, watch, re-run, re-arm, repair, merge, close out | token, forge, verdict and reconcile stages |
| ledger and stores, `src/ledger/ledger.mjs`, `src/telemetry/stores.mjs` | one JSONL file per ledger, two stream indexes, the last seq | compose, commit, repair of a tail, append with a pointer, resolve | everything; readers in other processes |
| ledger derivations, `src/ledger/*.mjs` | none | folds over event lists | engine, gates, consoles |
| story lane before the freeze, `src/lanes/story.mjs` | ledger lines, the spec and the suite in the tree | readiness, spec birth, gate rounds, rulings, suite, freeze | seats, operator |
| verdict stage, `src/lanes/verdict.mjs` | ledger lines, the run tree | cycle, triage, repair round, re-freeze, fresh pass, parks | gate layers, review, seats |
| gate layers, `src/lanes/{spectrum,parts,exec}.mjs` | attempts of a layer per cycle | batches, re-reads, carry of a green, substrate ladder, confirmation sweep | verdict stage |
| review, `src/lanes/review.mjs` | the stamps of a round | panel, claim run, verifier, probes, findings | seats, verdict stage |
| records and reconcile stages, `src/lanes/{records-stage,reconcile}.mjs` | ledger lines, the record files | birth; judge, write rounds, reviews, recheck | seats, ship lane |
| breach flow, `src/telemetry/{escapes,breaches}.mjs`, `src/frontier/repairs.mjs` | the escapes ledger, the breach of a run | record, ticket, stamp, settle, repair pass | close-out, frontier, daemon commands |
| frontier, `src/frontier/*` | arming and one chain of sweeps per project | sweep: owed repairs, then stories; starvation | engine slots, launch door |
| launch and isolation, `src/daemon/daemon.mjs`, `src/isolation/*` | workspaces on disk, leftover records | provision, launch, release, orphan sweep | git, engine |
| observers, `src/tripwires/watcher.mjs`, `src/lanes/proofdebt.mjs`, `src/ship/workflows.mjs`, `src/eval/review.mjs`, `src/daemon/watch.mjs` | a promise chain, a cache of breaches, a poll under way | trip and settle a breach, record an overrun, settle a deferred proof, tell a red build and its recovery, review ships | instance ledger, forge, seats, run ledgers |
| daemon and control channel, `src/daemon/{daemon,control,lock}.mjs` | inbox directory, lock file, live config | start, tick, stop, claim a command and run it | every component |
| config, center, console, credentials, notifier, command line | none across calls | validation, read-only views, push | - |

What makes each of them correct, and where it is hard:

* **Engine.** Memory is what a replay would read; a hold stops what it should
  and a release runs what was deferred, once; slots are kept; no open run is
  silent for good; a restart repeats nothing.  Hard because a call writes several
  lines synced one by one, a handler's result arrives after kills, stops and
  holds, and seats outlive handlers.
* **Token.** One holder; first come, first served; a request is opened and
  merged under it; nobody waits for good.  Hard because it is stored nowhere, and
  parks and reds leave the seam by a dozen routes.
* **Slots.** None leaks on any way out of a session; no waiter stands before a
  free slot; order; caps under live edits.
* **Ledgers.** What an append answered is there for good; a start can always
  open them; what is open is on the queue.  Hard because two files are written
  one after the other and either write may tear.
* **Lanes.** A stage derives its step from its own stamps, at every entry again.
  What is frozen, judged, carried green, reviewed and pushed must be about the
  tree it names, the rounds must end, and no stop between two stamps may make a
  seat's answer count twice, or for another tree.
* **Breach flow.** A finding open at a merge becomes one escape, one ticket and
  one repair of the frontier, over a close-out that awaits, sweeps and operator's
  launches that read before they await, and crashes.
* **Launches.** No workspace a run holds is deleted by a sweep that read the disk
  before its awaits; no card runs twice but by a command; a factory that stands
  still says why.  Nothing polls here, so every trigger must reach.
* **Observers.** Each tells what it sees once, although its memory is a ledger it
  reads before an await and stamps after it; and what is owed is paid.

## 2. The modules

| module | models | with it |
|---|---|---|
| `RunEngine` | engine, replay, holds, waits, seats in flight | `MCRunEngine`; proofs `Engine_proofs` |
| `ShipToken` | token, and the update, ship and close-out stages around it | abstract `ShipLock`; `MCShipToken`; `Ship_proofs` |
| `SeatSlots` | model semaphores and seat sessions | `MCSeatSlots`; `Seats_proofs` |
| `TelemetryStore` | ledger files, stream index, stores, queue | abstract `DurableLog`; `MCTelemetryStore`; `TelemetryStore_proofs` |
| `LaneLedger` | what every stage handler stands on: ledger, parks and answers, a seat with one corrective invocation, crash | extended by the lane modules; `LaneLedger_proofs` |
| `PreFreeze` | readiness to freeze | `MCPreFreeze`; `Lanes_proofs` |
| `VerdictLoop` | the verdict's ladder | `MCVerdictLoop`; `Lanes_proofs` |
| `ReviewRound` | one round of the review panel | `MCReviewRound`; `Lanes_proofs` |
| `GateLayers`, `FastPath` | the layers of a cycle, and what a certification carries over a moved base | `MCGateLayers`; `Engine_proofs` |
| `CheckWatch`, `ShipLane` | the watch of a request, and the way of a judged run to the default branch | `MCShipLane`; `Ship_proofs` |
| `RecordBirth`, `Reconcile` | the records stage and the reconcile stage | `MCReconcile`; `Seats_proofs` |
| `Breaches` | a red merge from the close-out to its repairs | `MCBreaches`; `Breaches_proofs` |
| `Observers` | tripwires, deferred proofs, watched workflows, eval reviews | `MCBreaches`; `Breaches_proofs` |
| `Launches` | sweeps, the launch door, workspaces and their release | `MCLaunches`; `Launches_proofs` |

Names follow the code.  A definition called *Seeded bug* is part of no
specification: it is a plausible wrong version of the definition it stands
before, kept to show that a property can fail.

How state and actions correspond to the code:

**RunEngine.**  `led[r]` is run r's ledger as the fold `deriveRunState` takes of
it: each operator `Entered`, `Held`, `Parked`, ... is one arm of the fold, and an
append is one application.  `mem[r]` is the engine's record (`trackRun`).  An
action is one synchronous call.  It is built from pairs of ledger and memory, so
that a call that writes several lines also offers a crash after each prefix of
them.  A handler is a run with `exec`; its result is `Advance`, `Park`, `Close`
or `Fail`, and `SettleDropped` when the engine no longer listens.  `Start(b)` is
`resumeOpenRuns` under harness build b, with its retired stages.  A handler
stands in one wait at a time; seats that begin while the engine stops are not
counted; artifacts, gists and the archive of a closed run are left out.

**ShipToken.**  `log[r]` is what `tokenPosition` reads of a ledger, with the
stage the run is in and what it waits on; `hand[r]` is where the handler stands;
`pr[r]` the request at the forge.  `openPr` is four steps (create, arm, stamp,
transition), because the process may die or be killed between them.  `ahead` is a
history variable: who stood before a run when it queued.  The verdict, the CI
watch and the repair rounds are a choice of outcome here; `ShipLane` and
`CheckWatch` have them.

**SeatSlots.**  `held` and `queue` are the maps of `ModelSemaphores`; the class's
methods are functions on a desk of both and the sessions, because one call of
`runSeat` releases and acquires in one turn of the event loop.  `LoopFree` says that
a granted session's continuation runs before the next event.  `Told` is
`terminate` with its early return.

**TelemetryStore.**  A file is a sequence of lines and a flag that the last wants
its newline; a line is the whole records written into it and whether part of
another is in it too.  It parses when it is one record and nothing else.  `pen`
is the line between its pointer and its commit: readers see the files in
between.  The loud stream takes the same path as the queued one; the archive
move is left out.

**The lane modules** share `LaneLedger`: `led` is the events a stage reads, in
ledger order, `at` the handler's place and its locals, and `Crash` loses `at` and
nothing else.  Every place between two stamps is a state, so a stop can fall
between any two, and the entry of each stage is written as the code's own reading
of its stamps.  Seats, commands and git are outcomes.  `PreFreeze` keeps of a
suite whether it fails without the feature and whether it amends what the spec
supersedes; `VerdictLoop` keeps of a finding its kind; `GateLayers` takes the
declarations of the layers as constants; `FastPath` takes the walk over imports
as constants, without deferred proofs; `ShipLane` counts a records run's
certification but not the records lane, and its verdict and reconcile stages
are what the two promise; `Reconcile` and `RecordBirth` leave out the fresh pass
inside a reconciliation and records carried over a base; `ReviewRound` leaves out
the re-check of an earlier round's findings.

**Breaches.**  The origin run's handler is a place in the close-out; the sweep
and the launch door are two more actors; a daemon command is one step where it
does not await.  **Observers.**  Each observer is its promise chain: what is
queued, the place in the visit under way, and what was read before the await;
`told` is what they stamped, `life` what they read.  One project with one wire,
one workflow.  **Launches.**  `runs[i]` is a run, or a launch on its way to
one, from the door's checks through the workspace to the engine; `sweep` holds
what the sweep read at its start (`cards`) and its count; `orphans` and
`releases` are what the clean-up has in hand.  The order of a roadmap is a set,
the checks of the door are one refusal.  A run has its card and whether its launch
carried the card's key: the history of a card is what the key matches.  Config
reloads, parked cards and the sweep's passes over owed repairs (`Breaches`) and
owed reconciliations are left out.

## 3. What is checked

A run's properties are few and each has several parts; a part is a named
definition of its own in the module.

| run | bounds | states | shows |
|---|---|---|---|
| `engine_run` | two instances: one run with a child through three harness builds, two configs, three starts; two runs of a project under one slot, two starts | 313k | `MemoryAgrees`; `HoldsAreHonoured` (only a resolution runs a stage under a hold, a release enters what was deferred and leaves nobody behind, a start runs nothing that waits); the cap; a run goes inert by an orphan child alone; `NoRetiredName`; `NothingStandsForGood` |
| `token` | 2 runs, 2 instants, 2 setbacks, a clock that does not step back | 180k | the refinement of `ShipLock`; a request is behind the token; who gives it up is judged before asking again; `TheQueueIsServed` (no overtaking, an update park releases, every wait ends) |
| `seat_slots` | 2 runs, 3 sessions, 2 models, 2 cap configurations | 136k | no lost wake-up; `TheQueueIsServed` (slots counted, order, every waiter let in) |
| `store` | a run ledger of 4 lines, an instance ledger of 1, 2 crashes, tears that leave a part of a line | 203k | the refinement of `DurableLog`; `CrashesCostEntriesOnly` (records stay, ledgers open, one queue entry per crash) |
| `pre_freeze` | 2 findings (interchangeable), 1 answer, 1 crash | 315k | the gate converges or asks; what the operator ruled is in the spec and in the frozen suite |
| `verdict` | one judgment of each kind, cap 1, 2 cycles, 2 rounds, 1 answer, 1 crash | 1.1M | what is judged is committed; a frozen suite changes behind a ruling only; rounds stay under the cap but for what a stop keeps from being counted |
| `review` | a panel of two, 1 probe round, 1 answer, 1 crash | 743k | what the round returns was raised and judged as it was raised; the round ends |
| `layers` | 3 layers (one of two parts), 2 files, 2 cycles, 1 stop, 1 ladder step, five kinds of incoming change | 1.0M | a green is proven at its tree or carried from one that was, also over a moved base; no attempt stays open |
| `ship_lane` | five instances: a moving base with a crash; the same with two crashes and no red; two red checks and a request the forge drops; an operator's answers; a red with a crash.  Update cap 1, 1 move, 1 repair | 787k | re-runs are granted once; a request carries a judged tree; the lane does not go round without a judgment, but in two ways that are named |
| `breaches` | 2 findings, cap 1, 1 crash, 2 reds, 2 commands, 1 refusal; and four instances, one per observer, over 3 runs, 2 visits, beats and builds, interval 2, 1 operator resolution, failure and halt | 248k | one escape and one repair of a finding; a breach tickets its escapes; what is owed is told and driven; each observer tells each thing once and pays what it owes |
| `reconcile` | six instances over 2 records: births of a story and of a ticket, returns, crashes, corrective rounds, advisory; cap 1 | 212k | an author starts clean; a round commits once, but over a commit no reader finds; a green stands on a writer and a reader; the stage ends |
| `launches` | three instances over 2 cards, one behind the other, 3 ids, cap 1: the operator at work (2 commands), trouble (1 command, 1 fault, which is also the read of a card's key, 1 stop or crash), a whole graph | 675k | no held workspace is released; a quiet factory is explained; only a command doubles a card, one the sweep had not read or that has no key; leftover records match the disk |

The bounds, and why they are enough.  Two runs are a holder and a waiter, or a
slot and who wants it, and one run meets every pair of a handler's step and an
operator's.  Three builds give a stage retired once, and a name retired twice on
the way; three starts a crash inside a recovery.  `MaxSlips` of the token bounds
cycles, parks, throws, kills and crashes together.  Two sessions of one run are a
fan-out with a queued sibling, the third is the stranger whose release wakes
them.  Four lines are the longest story of an item: launch, item, close,
resolution; two crashes are a torn write and one more before it heals.  In a lane
the hazards are one stop between two stamps, one answer, and a second cycle that
reads the first one's stamps; a second stop at the same seam reads the same
ledger.  The ship lane takes two stops, because what the second one finds rests on
the stamp that the recovery from the first one wrote.  Where one instance with
every fault is beyond five minutes the MC module offers several, each with its own
faults, and TLC starts in any of them: the faults of different instances do not
meet.  In `MCBreaches` the other observers rest before the observed one, the world
or a stop goes on; they share nothing with it but the runs' ledgers and the order
of a stop.

Deadlock is not checked where the system really may stop: every run closed, the
daemon down for good, a handler at its last stage with the bounds spent.

### Fairness

* *Engine*: a child ends, since its cost ceiling, its silence deadline and the
  process table each end it; a wait is a bounded span; a handler returns, since
  all it awaits are such children, waits and commands with time limits.  No
  operator command is fair: nobody has to answer.
* *Token*: the same for handlers, and, for `EveryWaitEnds`, a person who answers a
  parked holder, a forge whose armed request merges, a daemon that is started
  again; without these the holder may wait for ever by design.
* *Slots*: a granted session dispatches, a child ends, a wait ends, written out
  with the state that enables the step.
* *Review, reconcile*: the handler's next step: a seat and a command have a time
  limit.
* *Breaches*: the close-out, a sweep, a launch at the door and a run's end go on;
  no command of the operator, no answer, no arming.
* *Observers*: each chain goes on, the two timers tick, and the service manager
  starts a daemon that went down.  No run, forge or operator is fair.
* *Launches*: what is ready in the event loop goes on, the tick comes round, a
  daemon is started and a stop ends.

### Where code and documents part

`PROJECT.json` lists each with the line and the sentence it parts from.  Where a
module states the sentence as a formula, the formula is there and no run checks
it.  They were met while modelling; the models do what the code does.

* *Engine*: `resolve` re-enters a stage under a standing hold (it reads
  `run.held`, not `runHeld(run)`); a crash between `answer` and `resume` leaves a
  park open to a second answer.
* *Token*: `openPr` parks before its stamp with the token held.
* *Slots*: a session that queues for a slot when its run is killed or the engine
  stops is granted the slot its sibling gives back, and spawns a child.
* *Ledgers*: `repairTail` keeps a line that lacks its newline and writes no
  newline; the next commit is joined to it, both are unreadable, and a further
  start refuses the file.  The theorems about the store exclude this tear
  by name (`OnlyParts`).
* *Before the freeze*: the red check reads the working tree and the freeze records
  `HEAD`; an amended spec may be read with its template defect after a crash.
* *Verdict*: one answer `repair-again` buys every further round of the pass; a
  re-freeze after a repair leaves the repair's diff unread by a judgment seat; a
  stop between the reset and the `fresh-pass` stamp judges a tree nobody implemented;
  a stop between `implementation-committed` and `repair-round` leaves a round the
  cap does not count.
* *Review*: a stop among the stamps of a round's findings loses those not stamped.
* *Layers*: behind a substrate ladder a green may rest on a layer that was only
  carried.  A fresh pass plans from the base again, and may carry from it a layer
  whose newest run, in the pass before and over the same ground, was red; so
  `GreenIsProven` lets a part stand on the base (`ProvenAtTheBase`) exactly where
  the pass has not run it and its layer's ground is as the base has it.  The ladder
  runs again what was red and not what the red made not runnable: the verdict turns
  green over layers nobody ran (`NoGreenLeavesALayerUnrun`), so `GreenIsProven` speaks
  of the layers that have a result.
* *Ship*: four ways in which a head no judgment saw is pushed (a record commit
  behind an unmoved base, an unnamed merge under a base that moves again, a
  fresh pass stopped before its transition, and the name compared alone), and two
  ways in which update, reconcile and verdict send a run round: a re-run asked of a
  fallback that stands, and a record commit or a merge of the ship stage over a code
  head that was not judged first.
* *Breaches*: a red merge's entries stopped half way are not completed; a breach
  whose last fix lands before its origin run closes stays open for good.
* *Reconcile*: a recheck stopped between its stamps is not made; a record of an
  earlier write that a later finding names is dispatched to nobody; a resumed
  round may be stamped over the report of the round before; a birth stopped behind
  its commit stamps no path; a round that changed records and reported nothing
  about them commits again behind a stop.
* *Launches*: a run launched while its card could not be read has no key, matches
  no card even when it has shipped, because the freeze stamp the reader falls back
  on names none, and the frontier launches the card again; a card whose run closed
  failed during an earlier launch of the same sweep is launched again; a pause
  while a workspace is made still launches; a run that comes back while its
  project is starved leaves the starvation open.
* *Observers*: the end of a stage lost with the queue leaves its duration record
  open for good; a deferral is settled before its run merged; polls are queued
  where a comment says they are dropped; a stop between an escape and its
  settling stamp records the escape again.

Smaller ones, which no formula states: a handler that throws while a seat of its
fan-out is in flight leaves a run no state accounts for, and `checkLiveness` has
no caller; `sendOnRetired` may stamp one retirement twice, and the deferred stage
of a run both held and violated is not renamed; a drained batch of commands goes
on in an engine that stops; a kill does not stop a handler inside `openPr`;
waiters let in when a cap's key is removed are counted as holders;
`openStreamItems` does not join a pointer to its record.

Hazards no property covers, with the reason in `PROJECT.json`: a clock that
steps back between two stamps of the token, the queued session at a kill or a
stop, a control command claimed by a rename before a crash, the lock file read
and then written.

## 4. What is proved

Every theorem holds for all values of the constants, bounds included, from the
modules' named assumptions.  None of the properties is inductive as it stands;
each module states the invariant that is, and proves of it the initial state,
every action by a step of its own, and what it implies.

* **`Engine_proofs`**, the engine (`TypeCorrect`, `MemoryFollowsLedger`,
  `NoHandlerBehindAWait`, `HoldsHonoured`, `NoTransitionStrandsARun`, `CapHolds`,
  `NoRunOnARetiredName`).  The invariant `IInv` relates each run's memory and
  ledger as a pair.  That no handler runs behind a wait needs the memory to agree
  with the ledger (a start reads the ledger), and the agreement needs the modes (an
  answer re-enters only a run that does not execute), so the three are one
  induction.  One lemma per arm of the fold says what it leaves alone, one per
  engine step that it keeps a pair related; a crash is one lemma, because it keeps
  a ledger and forgets the memory.
  From `IInv`, every step of the engine is shown to move
  a live run in one of five ways (`Stays`, `Holds`, `Enters`, `Reruns`, `Ends`) or
  to bring one to life (`Born`).  The action properties follow from those.
  `CapHolds` counts: a launch finds a free slot and adds one run.
  `NoRunOnARetiredName` is the invariant `Seam`: a name that stands on a ledger
  or in memory is one the build runs or keeps a line for.
* **`Ship_proofs`**, the token (`TypeCorrect`, `OneHolder`, `RequestBehindTheToken`,
  `TokenIsALock`, `JudgedBeforeItAsksAgain`, `UpdateParkReleases`,
  `NoWaiterIsOvertaken`).  A take reads that nobody holds and stamps in one step of
  the process; a `pr-opened` line makes its run a holder whoever holds, so
  `OneHolder` needs `Seam`, which says where `openPr` can be when that line is
  written.  The refinement maps each stamp to a step of the lock or to a stutter.
  `Stands` says what a run owes at each place; `QueueInOrder` and `PlaceIsPast` say
  that the queue is in the order of its stamps and that no stamp lies ahead of the
  clock, the one place where the clock must not step back.
* **`Seats_proofs`**, the semaphores (`TypeCorrect`, `NobodyWaitsBeforeAnOpenSlot`,
  `NoGrantOverTheCap`, `NoSlotLeaks`, `QueuesAreFair`).  Each operation of the
  semaphore is shown to keep `Kept` and `Sound` on any desk; a session's step is
  a chain of operations, and an edit of the caps one drain.  `Sound` counts
  that the slots of a model are its sessions at work, which is what keeps the
  count from falling below nothing.
* **`TelemetryStore_proofs`** (`TypeCorrect`, `CommittedForGood`, `LedgersOpen`,
  `LedgersAreALog`, `OneEntryPerCrash`, `CrashesAreCheap`).  `Kept`: every file is
  whole records numbered by their place with at most one torn part behind them, an
  open store counts its file's lines, and the pen's line goes behind a file that
  is whole.  `Balanced`: entries and open items differ by no more than the crashes
  so far, where a torn pointer that is not yet repaired counts as one: an entry
  that goes behind it is lost long after the crash that tore it.
* **`Engine_proofs`**, the gate layers and the fast path (`GreensAreProven`,
  `EveryAttemptIsClosed`, `ACarriedGreenAnswers`).  `Evidence` says of every
  result what its not being red proves: of this cycle's at once, of an earlier
  one's where the ground has not moved since it, and a layer with no result of
  this cycle has run nothing in it, which is what lets a layer stand on the base.
  `TasksAreSound` and `ConfirmedReds` say it of what an attempt leaves out of its
  run, `Processed` that a place of the table behind the batch has a result, a task
  or a carry; a sweep leaves no carry, so what it calls green is evidence of this
  cycle.  `Opens` is exact: the open attempts are those whose child is out, in a
  batch of any width.  `UnmovedStaysProven` carries the evidence into the next
  cycle, over a repair, a fresh pass that sets files back, or a refused update.
  The theorems are about `FastSpec`, whose steps are those of `GateLayers` with
  what an update brings.
* **`Breaches_proofs`** (`OneEscapeOneRepair`, `BreachesAreTicketed`,
  `WhatIsOwedIsTold`).  `OnRecord`: the close-out goes on to its tickets when
  nothing of the verdict is unrecorded, and to its stamp when nothing is
  unticketed, and what an await lets in between is still told apart.
  `Sweeping`: no run of a sweep carries what the pass still owes, which is what
  the pass read before its awaits.  `Telling`: at rest, an unarmed project's owed
  repairs are on the operator's desk, in items that do not overlap.
* **`Launches_proofs`** (`WorkspacesAreSafe`, `TheFrontierRunsACardOnce`,
  `QuietIsExplained`).  `HeldAlone`: what the orphan sweep has in hand, and every
  release under way, is nobody's; a workspace is made for an id that neither has.
  `InHand`: the launch the frontier awaits is its own, and the cards still in its
  hand have only runs that commands began, behind its reading or without the
  card's key (`OthersAreKeyed`: nobody but a command launches without one).
  `Told`: a sweep nothing overtook has every launchable card in hand, and at rest
  a free slot beside a launchable card is behind a failed sweep.
* **`Breaches_proofs`, the observers** (`EverythingIsToldOnce`).  One invariant per watcher, each
  stated over a ledger and a place in the code and kept by every other step
  because that step leaves both alone (the `...Shaped` lemmas).  `Wire`: only the
  head of the chain is under way, and it reads the metric behind an evaluation that
  found nothing open.  `Overruns`: a queued beat, like an open record, is about a
  stage that stands, or its end is behind it in the chain, or a stop took it.
  `Workflows`: the newest entry carries the newest red, and behind it a green
  build stands that no red on record follows, which is what lets the reading of
  the last entry alone decide what is new.  `Debts`: a list holds each unsettled
  run once, and a run has one escape more than halts only when it is settled or
  its stamp comes next; the order of a stop, which waits for the pass, keeps this
  over a stop.  `Evals`: the reviews name the ships up to an m-th between them, the
  newest names the m-th, and a seat's window starts behind it, however many
  merge while it is away.
* **`Ship_proofs`**, the re-runs of a red check (`RerunsAreBought`).  The counters of
  the property are no part of the ledger, and the budget is read from the ledger
  alone, so `RerunInv` ties the two: while the budget is open and no re-run is on
  its way, a re-run is left over.  What `BudgetIs` reads, the newest fix against the
  newest spending, is moved by no other stamp (`StampKeepsBudget`), and a crash
  between the forge's re-run and its stamp opens the budget once more and is counted.
* **`Ship_proofs`**, the tree that is pushed (`WhatIsPushedWasJudged`, from `LaneInv`).
  A judgment reaches a push through merges, carries and re-runs of any number, each
  read back from the ledger, so the proof first reduces the ledger to a `Reading`:
  the code head, what was judged, what a stamp names, the last fast path, and which
  certification stands, was asked or is owed.  `ReadingSays` puts it down to the
  place of the newest line of each kind, and a lemma for each stamp says what it
  moves.  `Fits` is then about a record, the tree and the place alone.  Code that
  nothing stands behind is asked for, at a head that has no green, or is a merge the
  update stage has not stamped (`Unrecorded`), which it finds again because nothing
  names it; records nothing stands behind are unrendered, asked again, or behind a
  fast path that sent them back (`CutFast`: a fast path whose update a stop cut off).
  `ShipsJudged` is what the ship stage enters with, and its own merges, fresh pass
  and red triage keep it.  That an ask is owed for as long as it stands
  (`AskedIsOwed`), and that a request is behind the token (`FastIsCut`), is what
  makes the update's re-entries come back to it.
* **`Seats_proofs`**, the record writers (`RecordsAreSound`, and from it
  `TheAuthorStartsClean`, `WritersAreSentOnce`).  `PlaceIsSound` is what each place
  of the two stages was entered with: the author is sent where nothing was born, its
  commit stands behind its report (`Delivered`, which a re-entry finds on the ledger),
  a writer is sent and its edits are committed where no commit of its round stands,
  and a corrective round has room under the cap.  `CountIsSound`: the rounds that
  were written are the rounds the ledger has stamped, one more between the two
  stamps, and those whose count a stop lost there.  `CommitInv`: a commit of the
  round stands in the tree's body or behind a stamp, which is what a re-entry reads,
  unless it named no record and a stop came before the first stamp; those the
  property counts apart (`hist.unread`).  `LedgerIsSound` has what makes the
  count grow: a round is stamped under the next number, so it drops none before it.
* **`Seats_proofs`**, the green renders (`EarnedAlways`, and from it
  `GreensAreEarned`).  What a render concludes rests on stamps of several rounds, so
  the proof first reduces the ledger to what the stage reads of it: `View`, the
  judgment, the write, the render, the round and the answers behind them, and
  `CycleView`, the review of the cycle and the text of each record's last green one.
  `ViewMoves`, `CycleMoves` and `RenderMoves` say which reading each stamp moves; all
  that follows is of the two records and no more of the ledger.  `AnswerLedger` is the
  argument: the set a round goes over covers what is owed, or what the write before
  it left; a stamp of the round is of a record in its set; where the anchor
  stands every owed record has its answer, is named unwritten by the write, or is
  being taken back by the corrective round that runs; and a render names what the
  write left, so that nothing open means nothing left.  `CleanReads` and `KeptStands`
  are of the other half: the newest green review of a record has the text that
  was read, and a text moves only where no review set of the open cycle stands.
  `PlaceFits` is what each place has made sure of, and what a re-entry finds again.
* **`LaneLedger_proofs`** has what these and the lanes' proofs below read of a ledger
  behind a stamp: the order of what it did not stamp is kept (`StampShifts`,
  `MovesInOrder`), a kind it did not stamp has the events it had (`KindMoves`), a
  name has them too where the kind carries no number (`NameShifts`).
* **`Lanes_proofs`**, the review round (`TheRoundReturnsWhatStood`).  A round is
  replayed from its ledger by every stop and every answer, and numbers its findings
  by their place in a list it collects anew each time.  `RoundInv` says why that is
  one list: once a claim, a verdict or a finding stands, every seat of the panel has
  a report that is read, no such seat runs again, and so whatever passage collects
  the list collects the same one.  A finding that stands has a verifier's report
  that confirmed it; the report may be replaced when the operator buys the seat
  again, the finding is not.  `WithIs` is the lemma all rests on: what a stamp does
  to a ledger that keeps one entry per key.
* **`Lanes_proofs`**, the verdict's ladder (`LoopIsSound`, and from it
  `EditsAreCommittedFirst`, `EveryAmendmentIsRuled`, `EveryRedTakesARung`).  The
  ladder keeps nothing but its ledger, so each property is one of the stage's
  entry: what `verdictHandler` and `resumeInterrupted` conclude from the stamps
  must be the step that a crash or a park interrupted.  `LoopInv` says so.
  `RecordIsSound` is of the ledger and the counts: a repair round that is open
  behind the last render was stamped with room under the cap, and a fresh pass
  behind it is not yet implemented.  `PlacesAreSound` is of where the handler
  stands: a seat or a commit belongs to the round that is open, a rung is climbed
  behind a red render and with no fresh pass behind it, and what a park waits for
  is what its place asked.  `EditsAreKnown` ties the two: an edit nobody committed
  is a developer seat's, in a round that is open, and every path that leaves the
  round resets or commits it.  `RoundsAreTold` counts: the rounds a pass made are
  those its ledger has stamped, one more between the stamp of a round's commit and
  the stamp that counts it, and those a stop cut off there.  The properties are
  not inductive without it: from a dirty tree in a place the ladder never leaves
  dirty, or a red whose kinds no render wrote, each of them falls within a step.
* **`Lanes_proofs`**, the readiness gate (`TheGateIsSound`, and from it
  `TheGateConverges`, `RulingsReachSpecAndSuite`).  `gateStall` compares a round
  with the two behind it and forgets the ones before an answer, so no single
  reading of it bounds anything.  What does is `RoundsFall`: the j-th round since
  an answer still has room for its findings, `2 * |blocking| + j <= 2 * |Blockers| + 2`,
  because without a stall a round blocks fewer findings than the one two before it.
  That holds of the rounds the ledger keeps only if they are the rounds that ran:
  `GateLedger` says a round is stamped once under its number, and `ParksAreAnswered`
  that an intent question is answered unless the run is parked on it and that the
  rounds behind a stall's park are behind its answer.  `GatesAreDue` says what is
  owed at the three places that check it, so that a ruling cannot be overtaken
  by the round, the departure or the freeze it must come before.  `Shifted` and
  `OnlySelects` are the lemmas on what a stamp, and leaving a stage, do to a ledger.
The assumptions, and why the code justifies them:

* `FiniteRuns`, `FiniteSeats`, `FiniteIds`, `FiniteFindings`, `FiniteWatched`,
  `BlockersAreFinite`: a home holds finitely many ledgers, a process opens finitely
  many sessions, a verdict or a round lists finitely many findings.  Counting needs
  them.
* `PermanentSeam`: a later build still reads every stage name an earlier one wrote,
  by a line in the lane's `retired` map; `engine.mjs` calls the map "a permanent
  seam".  `EngineAssumption` has what `registerLane` refuses otherwise.
* `PartsAreOfOneLayer`, `GroundIsOfFiles`: the ledger names a part within its layer, and
  a ground is a set of files of the tree.
* `CapIsANumber`, `CapAssumption`, `JudgmentsAreOfKinds`: `REPAIR_CAP` and
  `gates.reconcileRounds` are numbers, and a triage finds
  defects of the code, the suite, the intent or the environment, which is what its
  schema allows.
* `OnlyParts` (a hypothesis of the store's theorems): a crash inside a write leaves
  a part of the line, and not all of it without the newline.  The code does not
  survive that other tear; see section 3.
* `~ClockMayStepBack` (a hypothesis of `NoWaiterIsOvertaken`): the queue's order
  is that of wall-clock stamps.

Only model-checked:

* everything temporal under fairness, which is out of the prover's reach
  (`NeverQuietForGood`, `StopCompletes`, `EveryWaitEnds`, `EveryQueuedSeatIsLetIn`,
  `RoundEnds`, `StageEnds`, `NoOwedRepairIsForgotten`, `NothingOwedIsForgotten`,
  `LeftoversTellTheTruth`);
* one action property of the ship lane, `NoRoundTripWithoutAJudgment`: it is about
  what the stages hand each other, with the two ways round that are known named in
  it, and `LaneInv` has what stands behind the tree, not what a stage has handed
  since.

Every invariant that a run checks is a theorem.

## 5. What is not modelled

Text, validation, git and the forge's network calls; the platform's process trees
and the length of timers; the content of judgments; metrics, bands, costs and
durations, which are arithmetic over ledgers; the control inbox and the lock file;
the archive of a closed run; concurrency groups inside the process runner; the
settling workspace of a deferred proof; the stage pulse.  Configuration, the command
center, the console, credentials, push and the command line keep no state of
their own between calls.  A stamp that throws for a full disk ends the daemon and
is a crash here.

## 6. Plan

In order, with what each is worth:

1. `RunArchive`: close, move, copy, leftover, sweep, the resolution of a closed
   run that goes to the leftover; promise: one authoritative ledger per run.
2. `ControlChannel` with the lock file: a command claimed by a rename, batches,
   stop; promise: at most once.
3. A proof of `NoRoundTripWithoutAJudgment`: over `LaneInv`, what a stage that was
   handed the run has not done yet, and what the update then finds.
