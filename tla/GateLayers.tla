----------------------------- MODULE GateLayers -----------------------------
(* How a verdict cycle runs the gate layers (src/lanes/spectrum.mjs and      *)
(* parts.mjs): which layers and parts the cycle runs and which results it    *)
(* carries, the batches that run side by side, the attempts of a layer, the  *)
(* ladder of reruns behind a red from outside the tree, and the sweep that   *)
(* confirms a narrowed green.                                                *)
EXTENDS Naturals, Sequences

CONSTANTS Layers,      \* the gate table, in its declared order
          Needs,       \* [layer -> layers it needs]
          Group,       \* [layer -> its concurrency group, 0 for none]
          Parts,       \* [layer -> its parts]
          Ground,      \* [part -> files that decide its result]
          Setup,       \* the layers a footprint never carries: setup and the frozen suite
          Transient,   \* layers whose red may show only causes outside the tree
          Files,
          Bases,       \* what the base may hold certified: sets of layers
          LadderSteps, \* reruns behind a transient red (LAYER_LADDER)
          MaxCycles,   \* bound: cycles run
          MaxStops     \* bound: crashes, and retries behind a command that could not run

VARIABLES moved,    \* [file -> the cycle its last change came before, 0: never changed]
          cycle,    \* [nth, opened: the first of its pass, own: the files the run's tree
                    \*  differs from its base in, certified: layers green at the base]
          cur,      \* [layer -> its newest result of this cycle]
          prior,    \* [layer -> its newest result of the cycles before]
          open,     \* attempts stamped as started and not yet as ended
          ladder,   \* ladder waits of this cycle
          verdict,  \* "none" until the cycle renders
          at,       \* where the handler is, with its locals
          stops,
          ran       \* [part -> the cycle of its newest result and whether it was green]

gateVars == <<moved, cycle, cur, prior, open, ladder, verdict, at, stops, ran>>
world == <<moved, cycle, stops>>

Gates == {Layers[k] : k \in DOMAIN Layers}
AllParts == UNION {Parts[l] : l \in Gates}
LayerGround(l) == UNION {Ground[p] : p \in Parts[l]}
Attempts == 2

(* A part is named within its layer; the files a ground claims are files.    *)
ASSUME PartsAreOfOneLayer == \A l, m \in Gates : l # m => Parts[l] \intersect Parts[m] = {}
ASSUME GroundIsOfFiles == \A p \in AllParts : Ground[p] \subseteq Files

(* A part of a result ran in it, or was carried into it.                     *)
Result(status, carried, attempt) ==
    [status |-> status, red |-> {}, carried |-> carried, attempt |-> attempt, cycle |-> cycle.nth]
NotRunnable == Result("not-runnable", {}, 0)
NoResult == [status |-> "none", red |-> {}, carried |-> {}, attempt |-> 0, cycle |-> 0]
HasParts(record) == record.status \in {"green", "red"}

(* The result a layer stands with: this cycle's, or its last before.         *)
Standing(l) == IF cur[l].status # "none" THEN cur[l] ELSE prior[l]

NoTasks == [l \in {} |-> {}]
Pc(pc) == [pc |-> pc, confirming |-> FALSE, left |-> {}, tasks |-> NoTasks, layers |-> {}, now |-> {}]
Spectrum(confirming) == [Pc("plan") EXCEPT !.confirming = confirming, !.left = DOMAIN Layers]
Go(place) == at' = place

GateInit ==
    /\ cycle \in [nth : {1}, opened : {1}, own : SUBSET Files, certified : Bases]
    /\ moved = [f \in Files |-> IF f \in cycle.own THEN 1 ELSE 0]
    /\ cur = [l \in Gates |-> NoResult] /\ prior = cur
    /\ open = {} /\ ladder = 0 /\ verdict = "none" /\ stops = 0
    /\ at = Pc("enter")
    /\ ran = [p \in AllParts |-> [in |-> 0, green |-> FALSE]]

(* --- what the cycle runs ------------------------------------------------- *)

(* A set of layers with everything downstream of it.                         *)
Below(S) == S \union {l \in Gates : Needs[l] \cap S # {}}
WithDependents(S) ==
    {l \in Gates : \A T \in SUBSET Gates : S \subseteq T /\ Below(T) = T => l \in T}

MovedSince(nth) == {f \in Files : moved[f] > nth}

TargetedLayers == WithDependents({l \in Gates : prior[l].status # "green"})

Touched == {l \in Gates : LayerGround(l) \cap cycle.own # {}}
Unclaimed == cycle.own \ UNION {LayerGround(l) : l \in Gates}
Footprint == WithDependents(Touched) \union Setup \union (Gates \ cycle.certified)

Sweep == IF cycle.nth # cycle.opened THEN "targeted" ELSE IF Unclaimed # {} THEN "full" ELSE "footprint"
CyclePlan == CASE Sweep = "targeted" -> TargetedLayers
               [] Sweep = "footprint" -> Footprint
               [] OTHER -> Gates

(* The parts a targeted cycle has a reason to run again.                     *)
PartReasons(l) ==
    LET changed == MovedSince(prior[l].cycle)
        blind == changed \ LayerGround(l) # {}
    IN {p \in Parts[l] : Ground[p] = {} \/ blind \/ p \in prior[l].red \/ Ground[p] \cap changed # {}}

(* Narrowed only where some parts run and some are carried.                  *)
PartPlan(l) ==
    LET run == PartReasons(l)
    IN IF Sweep = "targeted" /\ HasParts(prior[l]) /\ run # {} THEN run ELSE Parts[l]

(* --- batches ------------------------------------------------------------- *)

(* A layer joins the batch its predecessors opened where it is of the group  *)
(* and needs none of them.  `left` are the places of the table not yet run.  *)
Joins(first, k) ==
    /\ Group[Layers[first]] # 0 /\ Group[Layers[k]] = Group[Layers[first]]
    /\ Needs[Layers[k]] \intersect {Layers[j] : j \in first .. k - 1} = {}
FirstOf(left) == CHOOSE k \in left : \A j \in left : k <= j
NextBatch(left) ==
    {m \in left : \A k \in left : FirstOf(left) < k /\ k <= m => Joins(FirstOf(left), k)}

(* What one layer does in a spectrum, decided for a whole batch before any   *)
(* of it runs: its needs are in the batches before.                          *)
Blocked(l) == \E need \in Needs[l] : Standing(need).status # "green"
CarriedResult(l, confirming) == ~confirming /\ Sweep = "targeted" /\ l \notin CyclePlan
WillRun(l, confirming) ==
    IF cur[l].status # "none" THEN confirming /\ HasParts(cur[l]) /\ cur[l].carried # {}
    ELSE ~CarriedResult(l, confirming) /\ ~Blocked(l) /\ (confirming \/ l \in CyclePlan)

(* The result stamped of a layer that does not run.                          *)
Stamped(l, confirming) ==
    IF cur[l].status # "none" \/ CarriedResult(l, confirming) THEN cur[l]
    ELSE IF Blocked(l) THEN NotRunnable
    ELSE Result("green", {}, 1)                           \* carried from the base

Task(l, confirming) ==
    LET again == confirming /\ cur[l].status # "none"
        run == IF again THEN cur[l].carried ELSE IF confirming THEN Parts[l] ELSE PartPlan(l)
    IN [st |-> "start", attempt |-> 1, run |-> run, all |-> run,
        carry |-> IF again THEN {} ELSE Parts[l] \ run]

RunCycle ==
    /\ at.pc = "enter"
    /\ Go(Spectrum(FALSE))
    /\ UNCHANGED <<world, cur, prior, open, ladder, verdict, ran>>

PlanBatch ==
    /\ at.pc = "plan" /\ at.left # {}
    /\ LET batch == {Layers[k] : k \in NextBatch(at.left)}
           running == {l \in batch : WillRun(l, at.confirming)}
       IN /\ cur' = [l \in Gates |-> IF l \in batch \ running THEN Stamped(l, at.confirming) ELSE cur[l]]
          /\ Go([at EXCEPT !.pc = "batch", !.left = @ \ NextBatch(@),
                           !.tasks = [l \in running |-> Task(l, at.confirming)]])
    /\ UNCHANGED <<world, prior, open, ladder, verdict, ran>>

(* --- the attempts of a layer --------------------------------------------- *)

In(l, st) == at.pc = "batch" /\ l \in DOMAIN at.tasks /\ at.tasks[l].st = st

LayerStarted(l) ==
    /\ In(l, "start")
    /\ open' = open \union {<<l, at.tasks[l].attempt>>}
    /\ Go([at EXCEPT !.tasks[l].st = "out"])
    /\ UNCHANGED <<world, cur, prior, ladder, verdict, ran>>

Observe(parts, failed) ==
    ran' = [p \in AllParts |-> IF p \in parts THEN [in |-> cycle.nth, green |-> p \notin failed] ELSE ran[p]]

Superseded(attempt) == attempt < Attempts

(* A first red is superseded by a second attempt over its failed parts.      *)
Settle(l) ==
    /\ In(l, "out")
    /\ LET task == at.tasks[l]
       IN \E failed \in SUBSET task.run :
            /\ open' = open \ {<<l, task.attempt>>}
            /\ IF failed # {} /\ Superseded(task.attempt)
               THEN /\ Go([at EXCEPT !.tasks[l] = [task EXCEPT !.st = "start", !.attempt = @ + 1, !.run = failed]])
                    /\ UNCHANGED <<cur, ran>>
               ELSE /\ Observe(task.all, failed)
                    /\ cur' = [cur EXCEPT ![l] =
                              [Result(IF failed = {} THEN "green" ELSE "red", task.carry, task.attempt)
                                  EXCEPT !.red = failed]]
                    /\ Go([at EXCEPT !.tasks[l].st = "done"])
    /\ UNCHANGED <<world, prior, ladder, verdict>>

(* A command that cannot run abandons its attempt and ends the spectrum, but *)
(* only when every layer of the batch has settled.                           *)
CommandError(l) ==
    /\ In(l, "out") /\ stops < MaxStops
    /\ open' = open \ {<<l, at.tasks[l].attempt>>}
    /\ Go([at EXCEPT !.tasks[l].st = "error"])
    /\ UNCHANGED <<world, cur, prior, ladder, verdict, ran>>

BatchEnds ==
    /\ at.pc = "batch"
    /\ \A l \in DOMAIN at.tasks : at.tasks[l].st \in {"done", "error"}
    /\ IF \E l \in DOMAIN at.tasks : at.tasks[l].st = "error"
       THEN Go(Pc("enter")) /\ stops' = stops + 1 /\ ladder' = 0     \* the park, answered
       ELSE Go([at EXCEPT !.pc = "plan", !.tasks = NoTasks]) /\ UNCHANGED <<stops, ladder>>
    /\ UNCHANGED <<moved, cycle, cur, prior, open, verdict, ran>>

(* --- a red from outside the tree ----------------------------------------- *)

SpectrumEnds == at.pc = "plan" /\ at.left = {}
PersistentReds == {l \in Gates : Standing(l).status = "red"}

(* No red shows the tree as its cause, and each shows another.               *)
ReadTransient(reds) == reds # {} /\ reds \subseteq Transient

(* A wait of the ladder, then the red layers again, each over its failed     *)
(* parts: the parts that stood green are taken over, as if they had run.     *)
(* What a red layer made not runnable is not run.                            *)
LadderWait ==
    /\ SpectrumEnds
    /\ ReadTransient(PersistentReds) /\ ladder < LadderSteps
    /\ Go([at EXCEPT !.pc = "rerun", !.layers = PersistentReds])
    /\ ladder' = ladder + 1
    /\ UNCHANGED <<world, cur, prior, open, verdict, ran>>

RerunLayer(l) ==
    /\ at.pc = "rerun" /\ l \in at.layers
    /\ open' = open \union {<<l, cur[l].attempt + 1>>}
    /\ Go([at EXCEPT !.pc = "rerun-out", !.layers = @ \ {l}, !.now = {l}])
    /\ UNCHANGED <<world, cur, prior, ladder, verdict, ran>>

RerunSettles ==
    /\ at.pc = "rerun-out"
    /\ \E l \in at.now : \E failed \in SUBSET cur[l].red :
          LET attempt == cur[l].attempt + 1
          IN /\ Observe(cur[l].red, failed)
             /\ open' = open \ {<<l, attempt>>}
             /\ cur' = [cur EXCEPT ![l] = [Result(IF failed = {} THEN "green" ELSE "red", {}, attempt)
                                              EXCEPT !.red = failed]]
    /\ Go([at EXCEPT !.pc = IF at.layers = {} THEN "plan" ELSE "rerun", !.now = {}])
    /\ UNCHANGED <<world, prior, ladder, verdict>>

RerunError ==
    /\ at.pc = "rerun-out" /\ stops < MaxStops
    /\ open' = {} /\ stops' = stops + 1 /\ ladder' = 0 /\ Go(Pc("enter"))
    /\ UNCHANGED <<moved, cycle, cur, prior, verdict, ran>>

(* --- the verdict --------------------------------------------------------- *)

(* A clean targeted cycle runs what it carried before it calls the tree      *)
(* green; a review finding needs no sweep to be red.                         *)
Confirm ==
    /\ SpectrumEnds
    /\ ~at.confirming /\ Sweep = "targeted" /\ PersistentReds = {}
    /\ Go(Spectrum(TRUE))
    /\ UNCHANGED <<world, cur, prior, open, ladder, verdict, ran>>

(* Seeded bug: a narrowed green is a green. *)
NeedsNoSweep == TRUE
Swept == Sweep # "targeted" \/ at.confirming

Render ==
    /\ SpectrumEnds
    /\ \/ verdict' = "green" /\ PersistentReds = {} /\ Swept
       \/ verdict' = "red"               \* a red layer, or a review finding
    /\ Go(Pc("rendered"))
    /\ UNCHANGED <<world, cur, prior, open, ladder, ran>>

(* A repair round, a re-freeze or an operational fix behind a red; or a      *)
(* fresh pass, which sets the tree back before it implements again.  A file  *)
(* set back to what the base holds counts as changed since the last cycle.   *)
NextCycle ==
    /\ at.pc = "rendered" /\ verdict = "red" /\ cycle.nth < MaxCycles
    /\ \E edited, own \in SUBSET Files, opened \in {cycle.opened, cycle.nth + 1} :
          /\ (own \union cycle.own) \ (own \intersect cycle.own) \subseteq edited
          /\ moved' = [f \in Files |-> IF f \in edited THEN cycle.nth + 1 ELSE moved[f]]
          /\ cycle' = [cycle EXCEPT !.nth = @ + 1, !.opened = opened, !.own = own]
    /\ prior' = [l \in Gates |-> Standing(l)]
    /\ cur' = [l \in Gates |-> NoResult]
    /\ ladder' = 0 /\ verdict' = "none" /\ Go(Pc("enter"))
    /\ UNCHANGED <<open, stops, ran>>

(* Seeded bug: one attempt is recovered, where two may be open. *)
RecoverTheLast == open \ {CHOOSE attempt \in open : TRUE}
(* The start closes every attempt the crash left open.                       *)
RecoverOpenAttempts == {}
GateCrash ==
    /\ at.pc \notin {"enter", "rendered"} /\ stops < MaxStops
    /\ stops' = stops + 1
    /\ open' = IF open = {} THEN {} ELSE RecoverOpenAttempts
    /\ Go(Pc("enter"))
    /\ UNCHANGED <<moved, cycle, cur, prior, ladder, verdict, ran>>

GateStep == \/ RunCycle \/ PlanBatch \/ BatchEnds
            \/ \E l \in Gates : LayerStarted(l) \/ Settle(l) \/ CommandError(l) \/ RerunLayer(l)
            \/ LadderWait \/ RerunSettles \/ RerunError \/ Confirm \/ Render
GateNext == GateStep \/ NextCycle \/ GateCrash
GateSpec == GateInit /\ [][GateNext]_gateVars

(* --- properties ---------------------------------------------------------- *)

(* The newest result of the part was green, and nothing that decides it has  *)
(* changed since.                                                            *)
ProvenByARun(p) == ran[p].green /\ \A f \in Ground[p] : moved[f] <= ran[p].in

(* This pass has not run the part, and the base certifies its layer over the *)
(* very ground the run's tree has.                                           *)
ProvenAtTheBase(p) ==
    /\ ran[p].in < cycle.opened /\ Ground[p] \intersect cycle.own = {}
    /\ \E l \in cycle.certified : p \in Parts[l]

(* Whatever was carried from an earlier cycle, from the base or into a       *)
(* narrowed result, behind a green verdict (src/lanes/verdict.mjs, runCycle) *)
(* every part of a layer that has a result was run green since a file that   *)
(* decides it last changed, or is one the pass left to a base that answers   *)
(* for it.                                                                   *)
GreenIsProven ==
    verdict = "green" =>
        \A l \in Gates : HasParts(Standing(l)) => \A p \in Parts[l] : ProvenByARun(p) \/ ProvenAtTheBase(p)

(* The ledger pairs every attempt: none is open once the cycle has rendered, *)
(* and a layer never has two, over crashes of batches that run side by side. *)
AttemptsAreClosed ==
    /\ verdict # "none" => open = {}
    /\ \A a, b \in open : a[1] = b[1] => a = b

(* What docs/adr/0022-targeted-verdict-reruns.md:206 says of the sweep: a    *)
(* false green is not reachable.                                             *)
NoGreenLeavesALayerUnrun == verdict = "green" => \A l \in Gates : HasParts(Standing(l))

(* What the comment at src/lanes/verdict.mjs:1002 says of a targeted cycle:  *)
(* no green verdict rests on a layer or a part it carried.                   *)
NoGreenRestsOnACarry ==
    (verdict = "green" /\ Sweep = "targeted") => \A p \in AllParts : ran[p].in = cycle.nth
=============================================================================
