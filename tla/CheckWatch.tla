----------------------------- MODULE CheckWatch -----------------------------
(* The watch of an open request (src/lanes/ship.mjs, watchChecks and what it *)
(* calls): the forge runs one required check on the pushed head, and the     *)
(* ship handler polls it.  A red buys one re-run, then the CI triage; a head *)
(* with no check is delivered again; a green that does not merge is armed    *)
(* again; the rest is for the operator.                                      *)
EXTENDS LaneLedger

CONSTANTS MaxReds,   \* bound: reds and cancels the forge concludes
          MaxArms    \* bound: times the forge loses an armed merge, or a delivery

VARIABLES tree,   \* the head of the run worktree: see TreeTypes
          forge,  \* the project's default branch and the run's request
          stage,  \* the stage the engine entered
          hist    \* what the properties remember, and no handler reads

laneVars == <<ledgerVars, tree, forge, stage, hist>>

(* good: a green verdict judged this tree, or a fast path carried one onto   *)
(* it; under: a merge under the open request, which the forge checks.        *)
TreeTypes == [sha : Nat,                            \* its commit, in order
              base : Nat,                           \* the default branch it holds
              code : {"good", "bad", "under"},      \* what stands behind its code
              recs : {"good", "bad"}]               \* and behind its records
NoRequest == [state |-> "none", head |-> 0, code |-> "good", recs |-> "good", run |-> "none", wf |-> "completed", armed |-> FALSE]

Sha(e, of, sha) == [e |-> e, of |-> of, why |-> "", sha |-> sha]
CiRed(sha) == [e |-> "verdict-rendered", of |-> "red", nth |-> 0, why |-> "ci", sha |-> sha]
Opened == SeqsOf("pr-opened") # {}
Request == forge.request

(* --- the forge ----------------------------------------------------------- *)

Forge(request) == /\ forge' = [forge EXCEPT !.request = request]
                  /\ UNCHANGED <<ledgerVars, tree, stage, hist>>

CheckStarts == /\ Request.state = "open" /\ Request.run = "none"
               /\ Forge([Request EXCEPT !.run = "running", !.wf = "executing"])

(* A job may be done while its workflow run executes the others.             *)
CheckConcludes ==
    /\ Request.state = "open" /\ Request.run = "running"
    /\ \E to \in {"green", "red", "cancelled"} :
          /\ to # "green" => forge.reds < MaxReds
          /\ forge' = [forge EXCEPT !.request = [Request EXCEPT !.run = to], !.reds = IF to = "green" THEN @ ELSE @ + 1]
    /\ UNCHANGED <<ledgerVars, tree, stage, hist>>
WorkflowEnds == /\ Request.run \in {"green", "red", "cancelled"} /\ Request.wf = "executing"
                /\ Forge([Request EXCEPT !.wf = "completed"])

(* The armed merge fires on a green; a hand may merge, close or open again.  *)
Merges(red) == forge' = [forge EXCEPT !.request = [Request EXCEPT !.state = "merged"], !.main = @ + 1, !.byHand = @ \/ red]
AutoMerge == /\ Request.state = "open" /\ Request.armed /\ Request.run = "green"
             /\ Merges(FALSE)
             /\ UNCHANGED <<ledgerVars, tree, stage, hist>>
HandMerge == /\ Request.state = "open" /\ Request.run = "red" /\ ~forge.byHand
             /\ Merges(TRUE)
             /\ UNCHANGED <<ledgerVars, tree, stage, hist>>
HandCloses == /\ Request.state = "open" /\ ~forge.byHand
              /\ forge' = [forge EXCEPT !.request = [Request EXCEPT !.state = "closed"], !.byHand = TRUE]
              /\ UNCHANGED <<ledgerVars, tree, stage, hist>>
HandOpens == /\ Request.state = "closed" /\ Forge([Request EXCEPT !.state = "open"])

(* What the harness has to repair: an arming the forge drops, a push it      *)
(* starts no check on.                                                       *)
Drops == /\ Request.state = "open" /\ Request.armed /\ forge.drops < MaxArms
         /\ forge' = [forge EXCEPT !.request = [Request EXCEPT !.armed = FALSE], !.drops = @ + 1]
         /\ UNCHANGED <<ledgerVars, tree, stage, hist>>
LosesDelivery == /\ Request.state = "open" /\ Request.run = "none" /\ forge.drops < MaxArms
                 /\ forge' = [forge EXCEPT !.request = [Request EXCEPT !.run = "undelivered"], !.drops = @ + 1]
                 /\ UNCHANGED <<ledgerVars, tree, stage, hist>>

ForgeStep == \/ CheckStarts \/ CheckConcludes \/ WorkflowEnds
             \/ AutoMerge \/ HandMerge \/ HandCloses \/ HandOpens \/ Drops \/ LosesDelivery

(* --- the watcher --------------------------------------------------------- *)

Watch(place) == /\ Go(place)
                /\ UNCHANGED <<tree, forge, stage, hist>>
WatchStamp(event, place) == /\ StampAndGo(event, place)
                            /\ UNCHANGED <<tree, forge, stage, hist>>

(* Grants: what opens a spent budget again.                                  *)
Fixes == SeqsOf("operational-fix")
FixOf(kind) == Newest({i \in Seqs("operational-fix", kind) : led[i].sha = Request.head})
GateAnswer == AnsweredPark("provisioning-gate")
FixOpen(kind) == FixOf(kind) = 0 \/ GateAnswer > FixOf(kind)
Operational(kind, sha) == Sha("operational-fix", kind, sha)

(* The reruns a check has spent, over the whole run: an attempt a cancel     *)
(* ended counts as one.                                                      *)
Spent == SeqsOf("check-transition") \ Seqs("check-transition", "red")
(* Seeded bug: each new red opens it. *)
BudgetOpenAtEachRed == ~After(Spent, Newest(Seqs("check-transition", "red")))
BudgetOpen == Spent = {} \/ Newest(Fixes) > Newest(Spent)

(* observeChecks: the ledger holds each state of the check once.             *)
LastSeen == Newest({i \in SeqsOf("check-transition") : led[i].sha = Request.head})
Observed == Request.run \notin {"red", "cancelled"} \/ (LastSeen > 0 /\ led[LastSeen].of = Request.run)

Observe ==
    /\ at.pc = "watch" /\ ~Observed
    /\ WatchStamp(Sha("check-transition", Request.run, Request.head), at)

(* A poll that finds nothing to do is no step: a watch that should move and  *)
(* does not is a state with no next one.                                     *)
WatchChecks ==
    /\ at.pc = "watch" /\ Observed
    /\ \/ Request.run \in {"none", "undelivered"} /\ Watch(Pc("checkless"))
       \/ Request.run \in {"red", "cancelled"} /\ Request.wf = "completed" /\ Watch(Pc(Request.run))
       \/ Request.run = "green" /\ ~Request.armed /\ Watch(Pc("no-merge"))

(* The poll before the watcher reads: the request may have moved.            *)
PollAgain == /\ at.pc = "watch"
             /\ \/ Request.state # "open" \/ Request.head # tree.sha \/ tree.base # forge.main
             /\ Watch(Pc("enter"))

HandleRed ==
    /\ at.pc = "red"
    /\ IF BudgetOpen
       THEN /\ forge' = [forge EXCEPT !.request = IF @.state = "open" /\ @.run = "red" THEN [@ EXCEPT !.run = "running", !.wf = "executing"] ELSE @]
            /\ hist' = [hist EXCEPT !.reruns = @ + 1]
            /\ at' = Pc("rerun")
            /\ UNCHANGED <<led, spent, tree, stage>>
       ELSE Watch(Pc("triage"))
StampRerun == /\ at.pc = "rerun"
              /\ WatchStamp(Sha("check-transition", "rerun-requested", tree.sha), Pc("watch"))

HandleCancelled == at.pc = "cancelled" /\ Watch(Pc("triage"))

(* The triage reads the workflow run once more, and the seat takes its time. *)
CiTriage ==
    /\ at.pc = "triage"
    /\ IF Request.wf = "executing" THEN Watch(Pc("watch"))
       ELSE Watch(Pc("triaged"))
TriageFails == at.pc = "triaged" /\ Watch(SeatFail("triage"))
TriageRenders == /\ at.pc = "triaged"
                 /\ WatchStamp(CiRed(tree.sha), [pc |-> "next", to |-> "verdict"])

(* The delivery again is a push of the updated branch, which here is the     *)
(* same head: the forge takes it as new.                                     *)
Checkless ==
    /\ at.pc = "checkless"
    /\ IF FixOpen("check-redelivery")
       THEN /\ StampAndGo(Operational("check-redelivery", Request.head), Pc("branch-update"))
            /\ hist' = [hist EXCEPT !.grants = @ + 1]
            /\ UNCHANGED <<tree, forge, stage>>
       ELSE Watch(Ask("provisioning-gate", "checkless"))

GreenNoMerge ==
    /\ at.pc = "no-merge"
    /\ IF FixOpen("auto-merge-rearm")
       THEN /\ StampAndGo(Operational("auto-merge-rearm", Request.head), Pc("rearm"))
            /\ hist' = [hist EXCEPT !.grants = @ + 1]
            /\ UNCHANGED <<tree, forge, stage>>
       ELSE Watch(Ask("provisioning-gate", "no-merge"))
Rearm == /\ at.pc = "rearm"
         /\ \/ /\ Request.state = "open"
               /\ forge' = [forge EXCEPT !.request = [Request EXCEPT !.armed = TRUE]]
               /\ at' = Pc("watch")
               /\ UNCHANGED <<led, spent, tree, stage, hist>>
            \/ Watch(Ask("provisioning-gate", "no-merge"))

WatchStep == \/ Observe \/ WatchChecks \/ PollAgain \/ HandleRed \/ StampRerun \/ HandleCancelled
             \/ CiTriage \/ TriageFails \/ TriageRenders \/ Checkless \/ GreenNoMerge \/ Rearm
=============================================================================
