----------------------------- MODULE MCBreaches -----------------------------
(* Breaches, and Observers with one observer at a time and the steps of the  *)
(* world it works off: the instances share nothing but the run.              *)
EXTENDS Breaches, Observers
CONSTANTS f1, f2, r1, r2, r3
MCFindings == {f1, f2}
MCWatched == {r1, r2, r3}

VARIABLE instance
allVars == <<vars, obsVars, instance>>

MCInit == Init /\ ObsInit /\ instance \in {"breach"} \union Range(Observing)

(* The other observers go first: they rest before this one, the world or a   *)
(* halt goes on.                                                             *)
Alone(observer) == \A other \in Range(Observing) : other = observer \/ Rested(other)
InTurn == <<r1, r2, r3, r1>>
World == CASE instance = "tripwires" -> \/ Enters(r1) \/ Beats(r1) \/ Closes(r1) \/ OperatorResolves
                                        \/ \E r \in {r1, r2} : Merges(r)
           [] instance = "workflows" -> (QueuePoll /\ flow' # flow) \/ WorkflowRuns \/ OperatorResolves
           [] instance = "debts" -> (QueuePoll /\ debt' # debt) \/ ServiceReturns \/ Merges(r1) \/ \E r \in {r1, r2} : Defers(r)
           [] instance = "evals" -> (\E r \in Watched : Closes(r)) \/ Merges(InTurn[Len(ships) + 1])
           [] OTHER -> FALSE
Observes(observer, Step) == Step /\ (instance = observer => Alone(observer))
ObserverStep == \/ Observes("tripwires", TripwireStep) \/ Observes("workflows", FlowStep)
                \/ Observes("debts", DebtStep) \/ Observes("evals", EvalStep)

(* Two reds of the checks or two commands of the operator, and not both.     *)
InBreach == /\ instance = "breach" /\ UNCHANGED <<obsVars, instance>>
            /\ spent'.reds + spent'.commands <= 3
InObservers == instance # "breach" /\ UNCHANGED <<vars, instance>>
MCNext == \/ Next /\ InBreach
          \/ (ObserverStep \/ HostStep) /\ InObservers
          \/ (World \/ HostCrashes \/ HostStops) /\ Alone(instance) /\ InObservers

BreachFairness ==
    /\ WF_allVars(OriginStep /\ InBreach) /\ WF_allVars(SweepStep /\ InBreach)
    /\ WF_allVars(RunCloses /\ InBreach) /\ WF_allVars(DoorLaunches /\ InBreach)
ObserverFairness ==
    /\ WF_allVars(ObserverStep /\ InObservers)
    /\ WF_allVars(HostStep /\ InObservers)
    /\ WF_allVars(QueuePoll /\ World /\ Alone(instance) /\ InObservers)
MCSpec == MCInit /\ [][MCNext]_allVars /\ BreachFairness /\ ObserverFairness
=============================================================================
