------------------------------ MODULE Observers ------------------------------
(* What watches the runs from outside and holds none: the tripwire watcher   *)
(* (src/tripwires/watcher.mjs) with one wire armed, the deferred-proof and   *)
(* the workflow watchers over their poll (src/lanes/proofdebt.mjs,           *)
(* src/ship/workflows.mjs, src/daemon/watch.mjs) and the eval scheduler      *)
(* (src/eval/review.mjs).  Each works off its ledger and awaits in between,  *)
(* over stops, crashes and the operator's own resolutions.                   *)
EXTENDS Naturals, Sequences, FiniteSets, SequencesExt

CONSTANTS Watched,      \* runs of the project
          Interval,     \* ships an eval review is owed over
          MaxQueued,    \* bound: polls that stand behind the one under way
          MaxVisits,    \* bound: stages a run enters
          MaxBeats,     \* bound: heartbeats
          MaxBuilds,    \* bound: completed runs of the watched workflow
          MaxResolves,  \* bound: resolutions of the operator
          MaxFails,     \* bound: reads, probes and seats that fail
          MaxHalts      \* bound: stops and crashes

ASSUME IntervalAssumption == Interval \in Nat \ {0}
ASSUME FiniteWatched == IsFiniteSet(Watched)

VARIABLES host,     \* the daemon: up, or stopping with so many observers stopped, or down
          life,     \* [Watched -> what the run's ledger says]
          ships,    \* the runs that merged, in that order
          outside,  \* the forge's completed workflow runs, and the service that was down
          told,     \* the instance ledger, and the escapes of the deferred proofs
          chain,    \* the tripwire watcher's queue; its head is being handled
          cached,   \* it has read the project's registry
          debt,     \* the deferred-proof watcher
          flow,     \* the workflow watcher
          review,   \* the eval scheduler
          used      \* what the bounds have used

obsVars == <<host, life, ships, outside, told, chain, cached, debt, flow, review, used>>
Outer == <<host, life, ships, outside>>

(* --- the ledgers --------------------------------------------------------- *)

NoDebts == [pc |-> "idle", polls |-> 0, list |-> <<>>, red |-> FALSE, scanned |-> FALSE, owed |-> FALSE, declared |-> FALSE]
NoFlow == [pc |-> "idle", polls |-> 0, build |-> 0]
NoReview == [pc |-> "idle", checks |-> 0, window |-> {}]

ObsInit ==
    /\ host = [up |-> "down", stopped |-> 0]
    /\ life = [r \in Watched |-> [st |-> "open", visit |-> 1, owes |-> FALSE, lost |-> FALSE]]
    /\ ships = <<>>
    /\ outside = [builds |-> <<>>, service |-> "down"]
    /\ told = [breaches |-> <<>>, overruns |-> <<>>, flow |-> <<>>, settled |-> <<>>, escapes |-> <<>>, reviews |-> <<>>]
    /\ chain = <<>> /\ cached = FALSE
    /\ debt = NoDebts /\ flow = NoFlow /\ review = NoReview
    /\ used = [beats |-> 0, resolves |-> 0, fails |-> 0, halts |-> 0]

Uses(what, bound) == used[what] < bound /\ used' = [used EXCEPT ![what] = @ + 1]
Fails == Uses("fails", MaxFails)
Running == host.up = "up"
Ran == host.up \in {"up", "stopping"}

(* A stop ends the engine, then the observers one by one, each with what it  *)
(* has under way.                                                            *)
Observing == <<"tripwires", "workflows", "debts", "evals">>
IsStopped(observer) == \E i \in 1..host.stopped : Observing[i] = observer

(* --- the runs ------------------------------------------------------------ *)

(* An append the watcher has a use for queues behind the ones before it; one *)
(* that matches nothing is not queued.                                       *)
Item(event, r) == [event |-> event, run |-> r, stage |-> life[r].visit, pc |-> "queued"]
Notify(event, r) == chain' = IF IsStopped("tripwires") THEN chain ELSE Append(chain, Item(event, r))

Enters(r) ==
    /\ Running /\ life[r].st = "open" /\ life[r].visit < MaxVisits
    /\ life' = [life EXCEPT ![r].visit = @ + 1]
    /\ Notify("entered", r)
    /\ UNCHANGED <<host, ships, outside, told, cached, debt, flow, review, used>>
Beats(r) ==
    /\ Running /\ life[r].st = "open"
    /\ Uses("beats", MaxBeats)
    /\ Notify("beat", r)
    /\ UNCHANGED <<Outer, told, cached, debt, flow, review>>

(* The daemon takes the declaration off the append itself, because the run   *)
(* that answers may be one it resumed.                                       *)
NoticeAtLaunch == UNCHANGED debt   \* Seeded bug: only a launch declares the trade.
NoticeRunEvent == debt' = [debt EXCEPT !.declared = TRUE]
Defers(r) ==
    /\ Running /\ life[r].st = "open" /\ ~life[r].owes
    /\ life' = [life EXCEPT ![r].owes = TRUE]
    /\ NoticeRunEvent
    /\ UNCHANGED <<host, ships, outside, told, chain, cached, flow, review, used>>
Merges(r) ==
    /\ Running /\ life[r].st = "open"
    /\ life' = [life EXCEPT ![r].st = "merged"]
    /\ ships' = Append(ships, r)
    /\ Notify("merged", r)
    /\ UNCHANGED <<host, outside, told, cached, debt, flow, review, used>>
Closes(r) ==
    /\ Running /\ life[r].st # "closed"
    /\ life' = [life EXCEPT ![r].st = "closed"]
    /\ Notify("closed", r)
    /\ review' = IF life[r].st = "merged" THEN [review EXCEPT !.checks = @ + 1] ELSE review
    /\ UNCHANGED <<host, ships, outside, told, cached, debt, flow, used>>

(* --- the tripwire watcher ------------------------------------------------ *)

Without(k) == SubSeq(chain, 1, k - 1) \o SubSeq(chain, k + 1, Len(chain))
Goes(k, pc) == chain' = [chain EXCEPT ![k].pc = pc]

MayRunAny(k) == TRUE   \* Seeded bug: an append is handled as it lands.
MayRun(k) == k = 1

Standing(r) == {i \in DOMAIN told.overruns : told.overruns[i].run = r /\ told.overruns[i].open}

(* A beat past the band opens a record for its stage where none stands; the  *)
(* next stage and the close settle what stands of the run.                   *)
Overrun(item) == Append(told.overruns, [run |-> item.run, stage |-> item.stage, open |-> TRUE])
SettleStageOverrun(r) ==
    [i \in DOMAIN told.overruns |-> [told.overruns[i] EXCEPT !.open = @ /\ told.overruns[i].run # r]]
CheckStageDuration(item) ==
    CASE item.event = "beat" /\ \A i \in Standing(item.run) : told.overruns[i].stage # item.stage ->
             told' \in {told, [told EXCEPT !.overruns = Overrun(item)]}
      [] item.event \in {"entered", "closed"} -> told' = [told EXCEPT !.overruns = SettleStageOverrun(item.run)]
      [] OTHER -> UNCHANGED told

(* The wire is triggered by a merge.                                         *)
AfterHandling(item) == IF item.event = "merged" THEN "evaluate" ELSE "done"
Proceeds(k, pc) == IF pc = "done" THEN chain' = Without(k) ELSE Goes(k, pc)

Handle(k) ==
    /\ chain[k].pc = "queued"
    /\ IF IsStopped("tripwires") THEN chain' = Without(k) /\ UNCHANGED told
       ELSE CheckStageDuration(chain[k]) /\ Proceeds(k, IF cached THEN AfterHandling(chain[k]) ELSE "registry")
    /\ UNCHANGED <<cached, used>>

(* The registry is read off the clone; one that cannot be read evaluates     *)
(* nothing, and the next append reads again.                                 *)
RegistryFor(k) ==
    /\ chain[k].pc = "registry"
    /\ \/ cached' = TRUE /\ Proceeds(k, AfterHandling(chain[k])) /\ UNCHANGED used
       \/ Fails /\ chain' = Without(k) /\ UNCHANGED cached
    /\ UNCHANGED told

OpenBreaches == {i \in DOMAIN told.breaches : told.breaches[i] = "open"}
Evaluate(k) ==
    /\ chain[k].pc = "evaluate"
    /\ Proceeds(k, IF OpenBreaches # {} THEN "done" ELSE "reading")
    /\ UNCHANGED <<told, cached, used>>
EvaluateMetric(k) ==
    /\ chain[k].pc = "reading"
    /\ told' \in {told, [told EXCEPT !.breaches = Append(@, "open")]}
    /\ chain' = Without(k)
    /\ UNCHANGED <<cached, used>>

TripwireStep ==
    /\ Ran
    /\ \E k \in DOMAIN chain : MayRun(k) /\ (Handle(k) \/ RegistryFor(k) \/ Evaluate(k) \/ EvaluateMetric(k))
    /\ UNCHANGED <<Outer, debt, flow, review>>

(* --- the polls ----------------------------------------------------------- *)

(* A tick chains a poll behind the one under way.                            *)
Ticks(watcher) == Running /\ watcher.polls < MaxQueued
PollTick == \/ Ticks(debt) /\ debt' = [debt EXCEPT !.polls = @ + 1] /\ UNCHANGED flow
            \/ Ticks(flow) /\ flow' = [flow EXCEPT !.polls = @ + 1] /\ UNCHANGED debt
QueuePoll == PollTick /\ UNCHANGED <<Outer, told, chain, cached, review, used>>

(* --- deferred proofs ----------------------------------------------------- *)

SettledDebts == {told.settled[i].run : i \in DOMAIN told.settled}
OpenProofDebts == {r \in Watched : life[r].owes} \ SettledDebts

NextDebt(d) == [d EXCEPT !.pc = IF Len(d.list) > 1 THEN "probe" ELSE "idle", !.list = Tail(@)]

(* The ledgers are scanned at the start, and then while something says a     *)
(* debt could be there.                                                      *)
PollDebts ==
    /\ debt.pc = "idle" /\ debt.polls > 0
    /\ LET polled == [debt EXCEPT !.polls = @ - 1]
       IN debt' = IF IsStopped("debts") \/ (debt.scanned /\ ~debt.owed /\ ~debt.declared) THEN polled
                  ELSE [polled EXCEPT !.scanned = TRUE, !.owed = OpenProofDebts # {}, !.list = SetToSeq(OpenProofDebts),
                                      !.pc = IF OpenProofDebts = {} THEN "idle" ELSE "probe"]
    /\ UNCHANGED <<told, used>>

ProbeDeferred ==
    /\ debt.pc = "probe"
    /\ IF IsStopped("debts") THEN debt' = [debt EXCEPT !.pc = "idle", !.list = <<>>]
       ELSE debt' = IF outside.service = "back" THEN [debt EXCEPT !.pc = "settle"] ELSE NextDebt(debt)
    /\ UNCHANGED <<told, used>>

(* The deferred parts run over the default branch as it stands.              *)
SettleProofDebt ==
    /\ debt.pc = "settle"
    /\ \E red \in BOOLEAN : debt' = [debt EXCEPT !.pc = IF red THEN "escape" ELSE "stamp", !.red = red]
    /\ UNCHANGED <<told, used>>

RecordDebtEscape ==
    /\ debt.pc = "escape"
    /\ told' = [told EXCEPT !.escapes = Append(@, Head(debt.list))]
    /\ debt' = [debt EXCEPT !.pc = "stamp"]
    /\ UNCHANGED used
StampSettled ==
    /\ debt.pc = "stamp"
    /\ LET r == Head(debt.list)
       IN told' = [told EXCEPT !.settled = Append(@, [run |-> r, red |-> debt.red, shipped |-> r \in Range(ships)])]
    /\ debt' = [NextDebt(debt) EXCEPT !.red = FALSE, !.owed = OpenProofDebts \ {Head(debt.list)} # {}]
    /\ UNCHANGED used

DebtStep ==
    /\ Ran
    /\ PollDebts \/ ProbeDeferred \/ SettleProofDebt \/ RecordDebtEscape \/ StampSettled
    /\ UNCHANGED <<Outer, chain, cached, flow, review>>

(* --- the watched workflow ------------------------------------------------ *)

Latest == Len(outside.builds)
Entry(event, build) == [event |-> event, build |-> build, open |-> event = "red"]
OpenReds == {i \in DOMAIN told.flow : told.flow[i].open}

AlreadyTold == told.flow # <<>> /\ Last(told.flow).event = "red" /\ Last(told.flow).build = Latest

PollFlow ==
    /\ flow.pc = "idle" /\ flow.polls > 0
    /\ flow' = [flow EXCEPT !.pc = IF IsStopped("workflows") THEN "idle" ELSE "read", !.polls = @ - 1]
    /\ UNCHANGED <<told, used>>

FlowTo(pc) == flow' = [flow EXCEPT !.pc = pc, !.build = IF pc = "jobs" THEN Latest ELSE 0]

(* A list the forge would not answer is no conclusion, and closes nothing.   *)
Judge ==
    /\ flow.pc = "read"
    /\ \/ Fails /\ FlowTo("idle") /\ UNCHANGED told
       \/ /\ UNCHANGED used
          /\ CASE IsStopped("workflows") \/ Latest = 0 -> FlowTo("idle") /\ UNCHANGED told
               [] ~IsStopped("workflows") /\ Latest > 0 /\ outside.builds[Latest] = "red" ->
                      FlowTo(IF AlreadyTold THEN "idle" ELSE "jobs") /\ UNCHANGED told
               [] OTHER -> IF OpenReds = {} THEN FlowTo("idle") /\ UNCHANGED told
                           ELSE FlowTo("own") /\ told' = [told EXCEPT !.flow = Append(@, Entry("recovered", Latest))]

(* The red is stamped of the run that was read, once its jobs are.           *)
RedJobs ==
    /\ flow.pc = "jobs"
    /\ told' = [told EXCEPT !.flow = Append(@, Entry("red", flow.build))]
    /\ FlowTo("idle") /\ UNCHANGED used

(* The recovery answers every open red before it; only a crash is between.   *)
SettleOwnedLoud ==
    /\ flow.pc = "own"
    /\ told' = [told EXCEPT !.flow = Append([i \in DOMAIN @ |-> [@[i] EXCEPT !.open = FALSE]], Entry("resolved", 0))]
    /\ FlowTo("idle") /\ UNCHANGED used

FlowStep ==
    /\ Ran
    /\ PollFlow \/ Judge \/ RedJobs \/ SettleOwnedLoud
    /\ UNCHANGED <<Outer, chain, cached, debt, review>>

(* --- the eval review ----------------------------------------------------- *)

LastReview == IF told.reviews = <<>> THEN [named |-> {}] ELSE Last(told.reviews)

(* Every ship merged after the newest one the last review named.             *)
EvalWindow ==
    LET named == {i \in DOMAIN ships : ships[i] \in LastReview.named}
    IN {ships[i] : i \in {i \in DOMAIN ships : \A n \in named : i > n}}

Check ==
    /\ review.pc = "idle" /\ review.checks > 0
    /\ review' = IF IsStopped("evals") \/ Cardinality(EvalWindow) < Interval THEN [review EXCEPT !.checks = @ - 1]
                 ELSE [pc |-> "seat", checks |-> review.checks - 1, window |-> EvalWindow]
    /\ UNCHANGED <<told, used>>

(* A seat that fails or that the stop ends leaves the review owed.           *)
SeatEnds ==
    /\ review.pc = "seat"
    /\ \/ /\ ~IsStopped("evals")
          /\ told' = [told EXCEPT !.reviews = Append(@, [named |-> review.window])]
          /\ UNCHANGED used
       \/ IsStopped("evals") /\ UNCHANGED <<told, used>>
       \/ ~IsStopped("evals") /\ Fails /\ UNCHANGED told
    /\ review' = [review EXCEPT !.pc = "idle", !.window = {}]

EvalStep ==
    /\ Ran
    /\ Check \/ SeatEnds
    /\ UNCHANGED <<Outer, chain, cached, debt, flow>>

(* --- the world and the operator ------------------------------------------ *)

WorkflowRuns ==
    /\ Latest < MaxBuilds
    /\ \E word \in {"red", "green"} : outside' = [outside EXCEPT !.builds = Append(@, word)]
    /\ UNCHANGED <<host, life, ships, told, chain, cached, debt, flow, review, used>>
ServiceReturns ==
    /\ outside.service = "down"
    /\ outside' = [outside EXCEPT !.service = "back"]
    /\ UNCHANGED <<host, life, ships, told, chain, cached, debt, flow, review, used>>

(* olympusctl resolve: any open item, whatever it is about.                  *)
OperatorResolves ==
    /\ Running /\ Uses("resolves", MaxResolves)
    /\ \/ \E i \in OpenBreaches : told' = [told EXCEPT !.breaches[i] = "resolved"]
       \/ \E i \in OpenReds : told' = [told EXCEPT !.flow[i].open = FALSE]
       \/ \E r \in Watched : \E i \in Standing(r) : told' = [told EXCEPT !.overruns[i].open = FALSE]
    /\ UNCHANGED <<Outer, chain, cached, debt, flow, review>>

(* --- the daemon ---------------------------------------------------------- *)

(* A start polls at once and checks the review owed from before.             *)
StartHost ==
    /\ host.up = "down"
    /\ host' = [up |-> "up", stopped |-> 0]
    /\ debt' = [NoDebts EXCEPT !.polls = 1]
    /\ flow' = [NoFlow EXCEPT !.polls = 1]
    /\ review' = [NoReview EXCEPT !.checks = 1]
    /\ chain' = <<>> /\ cached' = FALSE
    /\ UNCHANGED <<life, ships, outside, told, used>>

Ending(item) == item.event \in {"entered", "closed"}
LosesTheChain == life' = [r \in Watched |-> [life[r] EXCEPT
                     !.lost = @ \/ \E k \in DOMAIN chain : chain[k].run = r /\ chain[k].pc = "queued" /\ Ending(chain[k])]]
Rested(observer) == CASE observer = "tripwires" -> chain = <<>>
                      [] observer = "workflows" -> flow.pc = "idle" /\ flow.polls = 0
                      [] observer = "debts" -> debt.pc = "idle" /\ debt.polls = 0
                      [] OTHER -> review.pc = "idle" /\ review.checks = 0

HostCrashes ==
    /\ Ran
    /\ Uses("halts", MaxHalts)
    /\ host' = [up |-> "down", stopped |-> 0]
    /\ LosesTheChain
    /\ chain' = <<>> /\ cached' = FALSE /\ debt' = NoDebts /\ flow' = NoFlow /\ review' = NoReview
    /\ UNCHANGED <<ships, outside, told>>
HostStops ==
    /\ Running
    /\ Uses("halts", MaxHalts)
    /\ host' = [up |-> "stopping", stopped |-> 1]
    /\ LosesTheChain
    /\ UNCHANGED <<ships, outside, told, chain, cached, debt, flow, review>>
ObserverStops ==
    /\ host.up = "stopping" /\ Rested(Observing[host.stopped])
    /\ host' = IF host.stopped = Len(Observing) THEN [up |-> "down", stopped |-> 0] ELSE [host EXCEPT !.stopped = @ + 1]
    /\ UNCHANGED <<life, ships, outside, told, chain, cached, debt, flow, review, used>>

RunStep == \E r \in Watched : Enters(r) \/ Beats(r) \/ Defers(r) \/ Merges(r) \/ Closes(r)
HostStep == StartHost \/ ObserverStops
ObsNext == \/ RunStep \/ TripwireStep \/ QueuePoll \/ DebtStep \/ FlowStep \/ EvalStep
           \/ WorkflowRuns \/ ServiceReturns \/ OperatorResolves
           \/ HostStep \/ HostCrashes \/ HostStops

(* Node goes on with what is ready, the timers tick, and the service manager *)
(* starts a daemon that went down.                                           *)
ObsFairness == /\ WF_obsVars(TripwireStep) /\ WF_obsVars(DebtStep) /\ WF_obsVars(FlowStep) /\ WF_obsVars(EvalStep)
               /\ WF_obsVars(QueuePoll /\ debt' # debt) /\ WF_obsVars(QueuePoll /\ flow' # flow)
               /\ WF_obsVars(HostStep)
ObsSpec == ObsInit /\ [][ObsNext]_obsVars /\ ObsFairness

(* --- properties ---------------------------------------------------------- *)

(* A wire has one breach open, however many appends trip it while one is     *)
(* being read.                                                               *)
BreachOpensOnce == Cardinality(OpenBreaches) <= 1

(* A red run of the workflow is one piece of news, over every restart and    *)
(* over a resolution of the operator.                                        *)
RedsAreToldOnce == \A i, j \in DOMAIN told.flow :
    told.flow[i].event = "red" /\ told.flow[j].event = "red" /\ told.flow[i].build = told.flow[j].build => i = j

(* Every ship is in one review: none twice, and none is passed over.         *)
ShipsAreReviewedOnce ==
    /\ \A i, j \in DOMAIN told.reviews : told.reviews[i].named \cap told.reviews[j].named # {} => i = j
    /\ \A i \in DOMAIN told.reviews, a, b \in DOMAIN ships :
           a < b /\ ships[b] \in told.reviews[i].named => \E j \in 1..i : ships[a] \in told.reviews[j].named

(* A record of a stage's duration is about a stage that stands, or its end   *)
(* is still queued, or a stop took the end with it.                          *)
OverrunsAreCurrent == \A r \in Watched : \A i \in Standing(r) :
    \/ life[r].st # "closed" /\ told.overruns[i].stage = life[r].visit
    \/ \E k \in DOMAIN chain : chain[k].run = r /\ Ending(chain[k])
    \/ life[r].lost

(* A proof that failed is in the escapes, and once but for each halt.        *)
RedProofsEscape ==
    /\ \A i \in DOMAIN told.settled : told.settled[i].red => told.settled[i].run \in Range(told.escapes)
    /\ \A r \in Watched : Cardinality({i \in DOMAIN told.escapes : told.escapes[i] = r}) <= 1 + used.halts

(* What the observers tell they tell once, and it is so: the ledger is their *)
(* memory, and an await stands between its reading and the stamp.            *)
EachThingIsToldOnce == /\ BreachOpensOnce /\ RedsAreToldOnce /\ ShipsAreReviewedOnce
                       /\ OverrunsAreCurrent /\ RedProofsEscape

ReviewOwed == Cardinality(EvalWindow) >= Interval /\ (\A r \in EvalWindow : life[r].st = "closed") /\ used.fails = 0

(* What is owed is paid by a daemon that comes back: a proof once its        *)
(* service is back, a recovery once the branch is green, a review once       *)
(* enough ships have closed and no seat failed.                              *)
DebtsArePaid == (outside.service = "back" /\ OpenProofDebts # {}) ~> OpenProofDebts = {}
RedsRecover == (OpenReds # {} /\ Latest = MaxBuilds /\ outside.builds[Latest] = "green") ~> OpenReds = {}
ReviewsAreMade == ReviewOwed ~> ~ReviewOwed
NothingOwedIsForgotten == DebtsArePaid /\ RedsRecover /\ ReviewsAreMade

(* What ADR-0034 says of the record: it closes when the stage ends.  It      *)
(* fails where a stop or a crash takes the queued end with it.               *)
OverrunEndsWithItsStage == \A r \in Watched :
    life[r].st = "closed" /\ chain = <<>> /\ Running => Standing(r) = {}

(* What proofdebt.mjs says of the settle run: the run that made the trade    *)
(* closed before it.  It fails where the service is back before the merge.   *)
ProofIsOfTheShip == \A i \in DOMAIN told.settled : told.settled[i].shipped
=============================================================================
