------------------------------ MODULE ShipLane ------------------------------
(* The way of a judged run to the default branch (src/lanes/ship.mjs): the   *)
(* update stage merges the default branch under the ship token and asks the  *)
(* certifications again, the ship stage opens the request and drives it to   *)
(* the merge.  The verdict and reconcile stages are what they promise here.  *)
EXTENDS CheckWatch

CONSTANTS RecordsOwed,  \* the run holds a record certification
          FastPath,     \* gates.fastPathShip
          UpdateCap,    \* updates of a pass
          MaxMoves,     \* bound: merges of other runs
          MaxRepairs    \* bound: reds and fixes of the verdict and reconcile stages

ASSUME CapAssumption == UpdateCap \in Nat \ {0}

Implementation(phase, nth, sha) == [e |-> "implementation-committed", of |-> phase, nth |-> nth, sha |-> sha]

(* used: what an instance has spent of its bounds before it starts.          *)
ShipStart(used) ==
    /\ led = <<Implementation("initial", 1, 1),
               [e |-> "verdict-rendered", of |-> "green", nth |-> 1, why |-> "", sha |-> 1]>>
    /\ at = Pc("enter") /\ spent = [answers |-> used.answers, crashes |-> used.crashes]
    /\ stage = "reconcile"
    /\ tree = [sha |-> 1, base |-> 0, code |-> "good", recs |-> IF RecordsOwed THEN "bad" ELSE "good"]
    /\ forge = [main |-> 0, request |-> NoRequest, byHand |-> used.hand,
                reds |-> used.reds, drops |-> used.arms, moves |-> used.moves]
    /\ hist = [handed |-> {}, doubled |-> FALSE, reruns |-> 0, grants |-> 0, repairs |-> used.repairs]

ShipInit == ShipStart([moves |-> 0, reds |-> 0, arms |-> 0, hand |-> FALSE, answers |-> 0, crashes |-> 0, repairs |-> 0])

(* Another run's merge.                                                      *)
BaseMoves == /\ forge.moves < MaxMoves
             /\ forge' = [forge EXCEPT !.main = @ + 1, !.moves = @ + 1]
             /\ UNCHANGED <<ledgerVars, tree, stage, hist>>

(* --- what the ledger says (codehead.mjs and the readers of it) ----------- *)

NewestOf(S) == LET i == Newest(S) IN IF i = 0 THEN [e |-> "none", sha |-> 0] ELSE led[i]
FreshPass == Newest(SeqsOf("fresh-pass"))
SinceFreshPass(S) == {i \in S : i > FreshPass}
Pass == Cardinality(SeqsOf("fresh-pass"))

Ran == {i \in SeqsOf("pre-verdict-update") : led[i].ran}
(* Seeded bug: only a merge the stage recorded moves the head. *)
MovedUpdatesRan == Ran
MovedUpdates == {i \in SeqsOf("pre-verdict-update") : led[i].ran \/ led[i].unnamed}
HeadMoves == SeqsOf("implementation-committed") \union MovedUpdates
CodeHead == NewestOf(HeadMoves).sha

Greens == Seqs("verdict-rendered", "green")
Fast == NewestOf(SeqsOf("fast-path-ship"))
CarriedFastPath(fast) == fast.e = "fast-path-ship" /\ fast.code = "kept"
CodeTreeOk == \/ \E i \in Greens : led[i].sha = CodeHead
              \/ CarriedFastPath(Fast) /\ Fast.sha = CodeHead

(* Seeded bug: every stamp that carries a sha names a head. *)
NamedByAnyStamp == \E i \in DOMAIN led : "sha" \in DOMAIN led[i] /\ led[i].sha = tree.sha
Named == \/ tree.sha = CodeHead
         \/ \E e \in {"branch-update", "record-written", "reconcile-rendered"} : \E i \in SeqsOf(e) : led[i].sha = tree.sha
         \/ CarriedFastPath(Fast) /\ Fast.sha = tree.sha

Rendered == Newest(SinceFreshPass(SeqsOf("reconcile-rendered")))
Fallback == LET i == Newest(SinceFreshPass(SeqsOf("reconciliation-written"))) IN i > Rendered
RecordsCertified == Rendered > 0 /\ (led[Rendered].of = "green" \/ Fallback)
RecordsAdmit == Rendered = 0 \/ RecordsCertified
Admitted == CodeTreeOk /\ RecordsAdmit

LastVerdict == NewestOf(SeqsOf("verdict-rendered"))
SweepSkipped == After(Seqs("operational-fix", "sweep"), Newest(SeqsOf("verdict-rendered")))
RedStands == LastVerdict.e # "none" /\ LastVerdict.of = "red" /\ ~SweepSkipped

Asks == {i \in SeqsOf("pre-verdict-update") \union SeqsOf("fast-path-ship") : led[i].recs = "rerun"}
RerunAsked == Newest(SinceFreshPass(Asks))
RerunOwed == /\ RerunAsked > 0
             /\ ~After(Seqs("reconcile-rendered", "green") \union SeqsOf("reconciliation-written"), RerunAsked)

Pending == FreshPass > 0 /\ ~After(SeqsOf("implementation-committed"), FreshPass)
InterruptedFastPath == /\ Fast.e # "none" /\ Fast.sha = tree.sha
                       /\ ~After(SeqsOf("pre-verdict-update"), Newest(SeqsOf("fast-path-ship")))

Token == NewestOf(SeqsOf("ship-token"))
HoldsToken == Token.e # "none" /\ Token.of = "acquired"
ReleaseToken(why) == Event("ship-token", "released", why)

(* The stage a run left the update stage for, where a stop came between the  *)
(* release and the transition.                                               *)
Released ==
    LET token == Newest(SeqsOf("ship-token"))
        green == After(IF Token.why = "re-verdict" THEN Greens ELSE Seqs("reconcile-rendered", "green"), token)
    IN IF token = 0 \/ Token.of # "released" \/ green THEN "none"
       ELSE CASE Token.why = "re-verdict" -> IF CodeTreeOk THEN "none" ELSE "verdict"
              [] Token.why = "re-reconcile" -> IF After(SeqsOf("reconciliation-written"), token) THEN "none" ELSE "reconcile"
              [] OTHER -> "none"

(* --- steps shared by the stages ------------------------------------------ *)

Stay == UNCHANGED <<tree, forge, stage, hist>>
Do(place) == Go(place) /\ Stay
DoStamp(event, place) == StampAndGo(event, place) /\ Stay
To(next) == [pc |-> "next", to |-> next]
Back(next, why) == [pc |-> "back", to |-> next, why |-> why]
In(s) == Enters /\ stage = s

GiveBack == /\ at.pc = "back"
            /\ IF HoldsToken /\ ~Opened THEN DoStamp(ReleaseToken(at.why), To(at.to)) ELSE Do(To(at.to))

(* Two ways round are known: a commit over a code head that was not judged   *)
(* first, whose judgment stands at that commit and not at the head, and a    *)
(* re-run asked of a fallback, which stands.                                 *)
OverUnjudged == ~CodeTreeOk /\ \E e \in {"branch-update", "record-written", "reconcile-rendered"} : \E i \in SeqsOf(e) : led[i].sha > CodeHead
GoesRound(to) == IF to = "verdict" THEN OverUnjudged ELSE Fallback
Unhanded(to) == {h \in hist.handed : h.to # to}   \* a stage that judged what it was handed

Next1 == /\ at.pc = "next"
         /\ stage' = at.to
         /\ at' = Pc("enter")
         /\ hist' = [hist EXCEPT !.handed = IF stage = "update" /\ at.to # "ship"
                                             THEN @ \union {[to |-> at.to, round |-> GoesRound(at.to)]} ELSE @]
         /\ UNCHANGED <<led, spent, tree, forge>>

Commit(new) == tree' = [new EXCEPT !.sha = tree.sha + 1]

(* --- the certifying stages ----------------------------------------------- *)

LastRender == Newest(SeqsOf("verdict-rendered"))
(* Seeded bug: only a commit of a seat is a head to judge. *)
MovedByASeat == After(SeqsOf("implementation-committed"), LastRender)
Moved == After(HeadMoves, LastRender) \/ After(SeqsOf("operational-fix"), LastRender)

VerdictCycle ==
    /\ In("verdict") /\ ~Pending /\ Moved
    /\ \/ /\ Stamp([e |-> "verdict-rendered", of |-> "green", nth |-> tree.sha, why |-> "", sha |-> tree.sha])
          /\ tree' = [tree EXCEPT !.code = "good"]
          /\ hist' = [hist EXCEPT !.handed = Unhanded("verdict")]
       \/ /\ hist.repairs < MaxRepairs
          /\ Stamp([e |-> "verdict-rendered", of |-> "red", nth |-> 0, why |-> "", sha |-> tree.sha])
          /\ UNCHANGED tree
          /\ hist' = [hist EXCEPT !.handed = Unhanded("verdict"), !.repairs = @ + 1]
    /\ UNCHANGED <<at, spent, stage, forge>>

(* A repair, or an operational fix that leaves a CI red to the re-run.       *)
VerdictRepairs ==
    /\ In("verdict") /\ ~Pending /\ ~Moved /\ LastVerdict.of = "red"
    /\ \/ /\ Stamp(Implementation("repair", 0, tree.sha + 1))
          /\ Commit([tree EXCEPT !.code = "bad"])
          /\ UNCHANGED <<at, hist>>
       \/ /\ LastVerdict.why = "ci" /\ hist.repairs < MaxRepairs
          /\ Stamp(Sha("operational-fix", "sweep", LastVerdict.sha))
          /\ hist' = [hist EXCEPT !.grants = @ + 1, !.repairs = @ + 1]
          /\ at' = To("reconcile")
          /\ UNCHANGED tree
    /\ UNCHANGED <<spent, stage, forge>>
VerdictLeaves == In("verdict") /\ ~Pending /\ ~Moved /\ LastVerdict.of = "green" /\ Do(To("reconcile"))

(* The stage is done where its render stands and no re-run is newer.         *)
ReconcileDone == \/ ~RecordsOwed
                 \/ Rendered > 0 /\ Rendered > Newest(SinceFreshPass(Asks \intersect SeqsOf("pre-verdict-update"))) /\ RecordsAdmit
ReconcileWrites == /\ In("reconcile") /\ ~ReconcileDone
                   /\ \/ Do(Pc("records"))
                      \/ /\ StampAndGo(Sha("record-written", "", tree.sha + 1), Pc("records"))
                         /\ Commit(tree)
                         /\ UNCHANGED <<stage, forge, hist>>
ReconcileRenders ==
    /\ at.pc = "records"
    /\ \/ /\ StampAndGo(Sha("reconcile-rendered", "green", tree.sha), Pc("enter"))
          /\ tree' = [tree EXCEPT !.recs = "good"]
       \/ /\ hist.repairs < MaxRepairs
          /\ StampAndGo(Sha("reconcile-rendered", "red", tree.sha), Pc("fallback"))
          /\ UNCHANGED tree
    /\ hist' = [hist EXCEPT !.handed = Unhanded("reconcile"), !.repairs = IF at'.pc = "fallback" THEN @ + 1 ELSE @]
    /\ UNCHANGED <<stage, forge>>
ReconcileFallsBack == /\ at.pc = "fallback"
                      /\ StampAndGo(Event("reconciliation-written", "", "cap"), Pc("enter"))
                      /\ tree' = [tree EXCEPT !.recs = "good"]   \* the stage's answer, ADR-0080
                      /\ UNCHANGED <<stage, forge, hist>>
(* A red render a stop left without its fallback is taken up again.          *)
ReconcileResumes == /\ In("reconcile") /\ RecordsOwed /\ Rendered > 0 /\ ~RecordsAdmit
                    /\ Do(Pc("fallback"))
ReconcileLeaves == In("reconcile") /\ ReconcileDone /\ Do(To("update"))

(* --- the branch update, of both stages ----------------------------------- *)

FailedRound == LET i == Newest(Seqs("merge-round", "failed"))
               IN IF i > FreshPass THEN i ELSE 0
Stalled == After(SeqsOf("stall"), FailedRound)
FreshUsed == Cardinality(Seqs("implementation-committed", "fresh"))
FreshAllowed == 1 + Cardinality({i \in Seqs("answer", "second-stall") : led[i].why = "fresh-pass"})

(* The commit a merge makes: in the update stage its code and records are    *)
(* to be asked, under an open request the forge asks.                        *)
MergedTree == [tree EXCEPT !.base = forge.main, !.code = IF stage = "ship" THEN "under" ELSE "bad",
                       !.recs = IF stage = "ship" \/ ~RecordsOwed THEN @ ELSE "bad"]
Merging(pc) == [pc |-> pc, was |-> Admitted, from |-> tree]

BranchUpdate ==
    /\ at.pc = "branch-update"
    /\ \/ FailedRound > 0 /\ Do(Pc("merge-stall"))
       \/ FailedRound = 0 /\ tree.base = forge.main /\ Do(Merging("unmoved"))
       \/ /\ FailedRound = 0 /\ tree.base # forge.main
          /\ \/ Commit(MergedTree) /\ at' = Merging("merged")
             \/ UNCHANGED tree /\ at' = Merging("conflict")
          /\ hist' = [hist EXCEPT !.doubled = @ \/ (stage = "update" /\ ~Named)]
          /\ UNCHANGED <<led, spent, stage, forge>>

(* The merge round: the seats settle the conflict, or the merge is backed    *)
(* out.                                                                      *)
MergeRound ==
    /\ at.pc = "conflict"
    /\ \/ /\ StampAndGo(Event("merge-round", "failed", ""), Pc("merge-stall"))
          /\ Stay
       \/ /\ Commit(MergedTree)
          /\ at' = [at EXCEPT !.pc = "concluded"]
          /\ UNCHANGED <<led, spent, stage, forge, hist>>
MergeConcluded == /\ at.pc = "concluded"
                  /\ DoStamp(Sha("merge-round", "resolved", tree.sha), [at EXCEPT !.pc = "merged"])

MergeStall ==
    /\ at.pc = "merge-stall"
    /\ IF ~Stalled THEN DoStamp(Event("stall", "merge-conflict", ""), at)
       ELSE Do(IF FreshUsed < FreshAllowed \/ AnsweredPark("second-stall") > Newest(SeqsOf("stall"))
               THEN Pc("fresh-pass") ELSE Ask("second-stall", ""))

(* The pass is reset to the default branch, and stamped before its seat.     *)
FreshPassStarts ==
    /\ at.pc = "fresh-pass"
    /\ StampAndGo([e |-> "fresh-pass", of |-> "merge-conflict", nth |-> tree.sha, sha |-> tree.sha + 1], Pc("fresh-seat"))
    /\ Commit([tree EXCEPT !.base = forge.main, !.code = "bad", !.recs = IF RecordsOwed THEN "bad" ELSE @])
    /\ UNCHANGED <<stage, forge, hist>>
FreshSeat ==
    /\ at.pc = "fresh-seat"
    /\ \/ Do(SeatFail("dev"))
       \/ /\ StampAndGo(Implementation("fresh", tree.sha, tree.sha + 1),
                        IF stage = "ship" THEN To("verdict") ELSE Back("verdict", "re-verdict"))
          /\ Commit(tree)
          /\ UNCHANGED <<stage, forge, hist>>
VerdictResumes == In("verdict") /\ Pending /\ Do(Pc("verdict-seat"))
VerdictImplements ==
    /\ at.pc = "verdict-seat"
    /\ \/ Do(SeatFail("dev"))
       \/ /\ StampAndGo(Implementation("fresh", tree.sha, tree.sha + 1), Pc("enter"))
          /\ Commit(tree)
          /\ UNCHANGED <<stage, forge, hist>>

(* --- the update stage ---------------------------------------------------- *)

(* Every stamp of a tree that moved is kept, of the others the newest.       *)
UpdateStamp(ran, unnamed, code, recs) ==
    [e |-> "pre-verdict-update", of |-> "", nth |-> IF ran \/ unnamed THEN tree.sha + 1 ELSE 0, pass |-> Pass, ran |-> ran, unnamed |-> unnamed,
     sha |-> tree.sha, code |-> code, recs |-> recs]
Taken == Cardinality({i \in Ran : led[i].pass = Pass})

Capped == \E i \in Seqs("pre-verdict-update", "capped") : led[i].pass = Pass

UpdateReturns == In("update") /\ Released # "none" /\ Do(To(Released))

(* A token another run holds is a wait: the default branch moves meanwhile.  *)
TakeToken == /\ In("update") /\ Released = "none" /\ ~HoldsToken /\ ~Opened
             /\ DoStamp(Event("ship-token", "acquired", ""), at)

PreVerdictUpdate ==
    /\ In("update") /\ Released = "none" /\ (HoldsToken \/ Opened)
    /\ CASE Pending -> Do(Back("verdict", "re-verdict"))
         [] ~Pending /\ InterruptedFastPath ->
               Do([pc |-> "stamp", ran |-> TRUE, unnamed |-> FALSE, was |-> Admitted, code |-> Fast.code, recs |-> Fast.recs])
         [] ~Pending /\ ~InterruptedFastPath /\ RerunOwed -> Do(Back("reconcile", "re-reconcile"))
         [] ~Pending /\ ~InterruptedFastPath /\ ~RerunOwed /\ Taken >= UpdateCap ->
               IF Capped THEN Do(To("ship")) ELSE DoStamp([UpdateStamp(FALSE, FALSE, "none", "none") EXCEPT !.of = "capped", !.nth = 1], To("ship"))
         [] OTHER -> Do(Pc("branch-update"))

(* Off the path every certification the lane holds is asked again.           *)
OffPath == [code |-> "rejudge", recs |-> IF Rendered > 0 THEN "rerun" ELSE "none"]
Quiet == [code |-> "none", recs |-> "none"]
ToStamp(ran, unnamed, decision) ==
    [pc |-> "stamp", ran |-> ran, unnamed |-> unnamed, was |-> at.was, code |-> decision.code, recs |-> decision.recs]

Unmoved == /\ at.pc = "unmoved" /\ stage = "update"
           /\ Do(ToStamp(FALSE, ~Named, IF Named THEN Quiet ELSE OffPath))

(* The fast path answers the code and the record question apart, or copies   *)
(* its refusal over both (fastpath.mjs).                                     *)
MergedUpdate ==
    /\ at.pc = "merged" /\ stage = "update"
    /\ IF FastPath /\ at.was
       THEN \E code \in {"kept", "rejudge"},
               recs \in (IF Rendered > 0 THEN {"kept", "rerun"} ELSE {"none"}) :
               /\ StampAndGo([e |-> "fast-path-ship", of |-> "", why |-> "", sha |-> tree.sha, code |-> code, recs |-> recs],
                             ToStamp(TRUE, FALSE, [code |-> code, recs |-> recs]))
               /\ tree' = [tree EXCEPT !.code = IF code = "rejudge" THEN @ ELSE at.from.code,
                                       !.recs = IF recs = "rerun" THEN @ ELSE at.from.recs]
               /\ UNCHANGED <<stage, forge, hist>>
       ELSE Do(ToStamp(TRUE, FALSE, OffPath))

(* A re-run asked over a fallback is kept: the stage spent its cap.          *)
Settled == IF at.recs = "rerun" /\ Rendered > 0 /\ Fallback THEN "kept" ELSE at.recs
StampUpdate ==
    /\ at.pc = "stamp"
    /\ StampAndGo(UpdateStamp(at.ran, at.unnamed, at.code, Settled),
         IF at.code = "rejudge" THEN Back("verdict", "re-verdict")
         ELSE IF Settled = "rerun" THEN Back("reconcile", "re-reconcile")
         ELSE IF at.unnamed \/ ~at.was THEN Back("verdict", "re-verdict")
         ELSE To("ship"))
    /\ tree' = IF at.recs = "rerun" /\ Settled = "kept" THEN [tree EXCEPT !.recs = "good"] ELSE tree
    /\ UNCHANGED <<stage, forge, hist>>

(* --- the ship stage ------------------------------------------------------ *)

Ships == In("ship") /\ ~RedStands /\ RecordsAdmit
IsMerged == SeqsOf("merged") # {}

ShipReturns == /\ In("ship") /\ ~Ships
               /\ Do(To(IF RedStands THEN "verdict" ELSE "reconcile"))
ShipCloses == Ships /\ IsMerged /\ Do(To("close-out"))
ShipResumes == Ships /\ ~IsMerged /\ Pending /\ Do(Pc("fresh-seat"))
(* The credentials, the preflight, the push, the labels and the arming each  *)
(* may park at the gate.                                                     *)
Pushed == IF Request.head = tree.sha THEN Request
          ELSE [Request EXCEPT !.head = tree.sha, !.run = "none", !.wf = "completed", !.code = tree.code, !.recs = tree.recs]
OpenPr ==
    /\ Ships /\ ~IsMerged /\ ~Pending /\ ~Opened /\ HoldsToken
    /\ \/ Do(Ask("provisioning-gate", "preflight"))
       \/ /\ forge' = [forge EXCEPT !.request = [Pushed EXCEPT !.state = IF @ = "none" THEN "open" ELSE @, !.armed = TRUE]]
          /\ at' = Pc("opened")
          /\ UNCHANGED <<led, spent, tree, stage, hist>>
StampPrOpened == at.pc = "opened" /\ DoStamp(Sha("pr-opened", "", tree.sha), Pc("enter"))

OnRequest == Ships /\ ~IsMerged /\ ~Pending /\ Opened
RequestClosed == OnRequest /\ Request.state = "closed" /\ Do(Blocked("pr-closed"))
StampPrMerged == OnRequest /\ Request.state = "merged" /\ DoStamp(Sha("merged", IF Request.run = "red" THEN "red" ELSE "", Request.head), at)
PushHead == /\ OnRequest /\ Request.state = "open" /\ Request.head # tree.sha
            /\ \/ Do(Ask("provisioning-gate", "push"))
               \/ /\ forge' = [forge EXCEPT !.request = Pushed]
                  /\ UNCHANGED <<ledgerVars, tree, stage, hist>>
ShipUpdates == /\ OnRequest /\ Request.state = "open" /\ Request.head = tree.sha /\ tree.base # forge.main
               /\ Do(Pc("branch-update"))
ShipWatches == /\ OnRequest /\ Request.state = "open" /\ Request.head = tree.sha /\ tree.base = forge.main
               /\ Do(Pc("watch"))
ShipUpdated == /\ at.pc \in {"merged", "unmoved"} /\ stage = "ship"
               /\ \/ Do(Ask("provisioning-gate", "push"))
                  \/ /\ Stamp(Sha("branch-update", "", tree.sha))
                     /\ forge' = [forge EXCEPT !.request = IF @.state = "open" THEN Pushed ELSE @]
                     /\ at' = Pc("enter")
                     /\ UNCHANGED <<spent, tree, stage, hist>>

(* --- the lane ------------------------------------------------------------ *)

CertifyStep == VerdictCycle \/ VerdictRepairs \/ VerdictLeaves \/ VerdictResumes \/ VerdictImplements
               \/ ReconcileWrites \/ ReconcileRenders \/ ReconcileFallsBack \/ ReconcileResumes \/ ReconcileLeaves
UpdateStep == UpdateReturns \/ TakeToken \/ PreVerdictUpdate \/ Unmoved \/ MergedUpdate \/ StampUpdate
MergeStep == BranchUpdate \/ MergeRound \/ MergeConcluded \/ MergeStall \/ FreshPassStarts \/ FreshSeat
ShipStep == ShipReturns \/ ShipCloses \/ ShipResumes \/ OpenPr \/ StampPrOpened \/ RequestClosed
            \/ StampPrMerged \/ PushHead \/ ShipUpdates \/ ShipWatches \/ ShipUpdated
(* A park of the update stage gives the token back first.                   *)
KeepsTheToken == stage = "update" /\ HoldsToken /\ ~Opened
ParkReleases == at.pc = "ask" /\ KeepsTheToken /\ DoStamp(ReleaseToken("park"), at)
LaneParks == \/ ParkReleases
             \/ ((Park /\ ~KeepsTheToken) \/ Answer \/ Crash \/ AbandonGuard \/ RefreshForRetry) /\ Stay
ShipNext == Next1 \/ GiveBack \/ BaseMoves \/ ForgeStep \/ WatchStep \/ CertifyStep \/ UpdateStep \/ MergeStep \/ ShipStep \/ LaneParks

ShipLaneSpec == ShipInit /\ [][ShipNext]_laneVars

(* --- what must hold ------------------------------------------------------ *)

Gaps == Capped \/ hist.doubled \/ (FreshPass > 0 /\ After(Seqs("implementation-committed", "fresh"), LastRender))
Carries(request) == request.code # "bad" /\ request.recs # "bad"
Pushes == forge'.request.head # Request.head

(* Nothing a stop left unjudged reaches the request: what it carries is a    *)
(* tree a green verdict judged or a fast path carried, with its records      *)
(* answered, or a merge made under it.  Three gaps are left out: a pass that *)
(* spent its updates, a second merge over a head no stamp named, and a fresh *)
(* pass of the ship stage that was not handed on.                            *)
RequestCarriesAJudgedTree == [][Pushes /\ ~Gaps => Carries(forge'.request)]_laneVars

(* The strict form of the same: a request opens only where every             *)
(* certification the lane holds is green at its own sha.                     *)
EveryRequestCarriesAJudgedTree == [][Pushes => Carries(forge'.request)]_laneVars

(* A stage the update handed the run judges it before it is handed on: the   *)
(* update is not given it back unjudged, so that no two stages pass a run on *)
(* for ever (ADR-0093).  Left out are the two ways round above.              *)
NoRoundTripWithoutAJudgment == [][stage = "update" /\ stage' \in {"verdict", "reconcile"} => [to |-> stage', round |-> FALSE] \notin hist.handed]_laneVars

(* The same of every run.                                                    *)
NoRoundTripAtAll ==
    [][stage = "update" /\ stage' \in {"verdict", "reconcile"} => \A b \in BOOLEAN : [to |-> stage', round |-> b] \notin hist.handed]_laneVars

(* A check is run again once, and once more for each operational fix behind  *)
(* it; a crash before the stamp costs one.                                   *)
ReRunsAreGranted == hist.reruns <= 1 + hist.grants + spent.crashes
=============================================================================
