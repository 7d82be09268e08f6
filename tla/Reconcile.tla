----------------------------- MODULE Reconcile -----------------------------
(* The reconcile stage (src/lanes/reconcile.mjs): what the run's diff does   *)
(* to the decision records is judged, the owed records are written by one    *)
(* seat, checked and reviewed, and a red buys corrective rounds under a cap. *)
(* The stage derives its step from its own stamps and never asks anybody, so *)
(* a record never blocks a run (ADR-0080).                                   *)
EXTENDS RecordBirth

CONSTANTS Cap,         \* gates.reconcileRounds
          MaxReturns,  \* bound: times a later stage sends the run back
          MaxTrouble   \* bound: what the seats and the layers find or fail at

ASSUME CapAssumption == Cap \in Nat \ {0}

VARIABLE hist   \* what the properties remember, and no handler reads

stageVars == <<ledgerVars, tree, hist>>

(* A run starts where its records stage does, or behind it: born is the stamp*)
(* of that stage.  used: what is spent of the bounds before the start.       *)
ReconcileStart(mode, used, born) ==
    /\ led = born /\ at = Pc("enter") /\ spent = [answers |-> used.answers, crashes |-> used.crashes]
    /\ tree = [TreeAtLaunch(mode) EXCEPT !.window = Born]
    /\ hist = [clean |-> [r \in Records |-> -1], commits |-> 0, unread |-> 0, rounds |-> 0, returns |-> used.returns, trouble |-> used.trouble, lost |-> 0]
ReconcileInit == \E mode \in {"code", "records", "advisory"} :
                    ReconcileStart(mode, [answers |-> 0, crashes |-> 0, returns |-> 0, trouble |-> 0], <<>>)

Active(S) == S \ tree.closed

(* --- what the ledger says ------------------------------------------------ *)

Judged == Newest(SeqsOf("reconciliation-judged"))
Written == Newest(SeqsOf("reconciliation-written"))
Renders == SeqsOf("reconcile-rendered")
LastRendered == Newest(Renders)
Open == IF LastRendered = 0 THEN {} ELSE led[LastRendered].open
Owed == led[Judged].owed
NextCycle == Cardinality(Renders) + 1

(* The stamp a cycle stands on: the write, and the birth where there is none *)
BirthAnchor == [seq |-> Committed, ok |-> Born # {}, entries |-> <<>>, rewritten |-> {}]
CycleAnchor == IF Written = 0 THEN BirthAnchor
               ELSE [seq |-> Written, ok |-> led[Written].ok, entries |-> led[Written].entries, rewritten |-> led[Written].rewritten]
ReviewedRecords == CycleAnchor.rewritten \union DOMAIN CycleAnchor.entries \union Born
UnwrittenRecords == {r \in DOMAIN CycleAnchor.entries : CycleAnchor.entries[r] # "written"}

Rounds == Cardinality({i \in SeqsOf("reconcile-round") : i > Judged})
RerunAsked == Newest(Seqs("pre-verdict-update", "rerun"))
(* Seeded bug: a recheck is owed until the next render. *)
RecheckOwedTillRendered == Newest(SeqsOf("repair-round")) > LastRendered
RecheckOwed == LET repaired == Newest(SeqsOf("repair-round"))
               IN repaired > LastRendered /\ ~After(SeqsOf("reconcile-recheck"), repaired)
RepairStalled == LET renders == {i \in Renders : i > Judged}
                     prior == Newest(renders \ {LastRendered})
                 IN /\ prior > 0 /\ led[prior].open # {} /\ led[prior].open \subseteq Open
                    /\ \E i \in SeqsOf("reconcile-round") : i > prior /\ i < LastRendered

RoundsSpent == Rounds >= Cap

ReconcileStep ==
    CASE Judged = 0 -> "judge"
      [] Judged > 0 /\ Owed # {} /\ Written < Judged -> "write"
      [] OTHER ->
           IF ~CycleAnchor.ok THEN "done"
           ELSE IF LastRendered = 0 \/ LastRendered < Written \/ RerunAsked > LastRendered THEN "cycle"
           ELSE IF Open = {} THEN (IF RecheckOwed THEN "recheck" ELSE "done")
           ELSE IF RoundsSpent \/ RepairStalled THEN "stall" ELSE "correct"

Stay == UNCHANGED <<tree, hist>>
Do(place) == Go(place) /\ Stay
DoStamp(event, place) == StampAndGo(event, place) /\ Stay
Enter == Pc("enter")
Trouble(n) == /\ hist.trouble + n <= MaxTrouble
              /\ hist' = [hist EXCEPT !.trouble = @ + n]

(* The stage is entered behind the birth, and by no run that it closes.      *)
EntersStage == Enters /\ Committed > 0 /\ ~NothingBorn
TakeStep == /\ EntersStage /\ tree.mode # "advisory"
            /\ Do(Pc(IF ReconcileStep = "done" THEN "left" ELSE ReconcileStep))

(* In advisory mode the stage runs the layers over the born set, and goes on *)
(* whatever they say.                                                        *)
AdvisoryStep ==
    /\ EntersStage /\ tree.mode = "advisory"
    /\ \/ SeqsOf("reconcile-skipped") # {} /\ Do(Pc("left"))
       \/ SeqsOf("reconcile-skipped") = {} /\ DoStamp(Event("reconcile-skipped", "", ""), Pc("left"))
       \/ SeqsOf("reconcile-skipped") = {} /\ Born # {} /\ Do(CommandError("gate-command"))

(* --- the judge ----------------------------------------------------------- *)

JudgedStamp(owed) == [e |-> "reconciliation-judged", of |-> "", owed |-> owed]
Judge(owed) == /\ StampAndGo(JudgedStamp(owed), Enter)
               /\ tree' = [tree EXCEPT !.body = {}]
               /\ hist' = [hist EXCEPT !.commits = 0, !.unread = 0, !.rounds = 0, !.lost = 0]

(* A judge that fails, or owes a record without a cause, owes nothing.       *)
JudgeStep == /\ at.pc = "judge"
             /\ IF tree.mode = "records" THEN Judge({}) ELSE \E owed \in SUBSET Records : Judge(owed)

(* --- the write ----------------------------------------------------------- *)

(* A write answers the judgment, a corrective round the newest render.       *)
Since(task) == IF task = "write" THEN Judged ELSE LastRendered
Round(task) == IF task = "write" THEN 0 ELSE Rounds + 1

FindingsOf(open) == {x \in open : x.kind = "finding"}
About(finding) == {finding.file, finding.file2}
CorrectiveRecords ==
    {r \in Active(ReviewedRecords) : \/ \E x \in FindingsOf(Open) : r \in About(x)
                                     \/ \E x \in Open \ FindingsOf(Open) : r \in x.names}

(* The set a round goes over is stamped once, before its seat writes.        *)
WriteSet(task) ==
    LET i == Newest({j \in SeqsOf("reconcile-write-set") : led[j].round = Round(task)})
    IN IF i > Since(task) THEN led[i].records
       ELSE IF task = "write" THEN Active(Owed) ELSE CorrectiveRecords
DispatchSet ==
    /\ at.pc \in {"write", "correct"}
    /\ DoStamp([e |-> "reconcile-write-set", of |-> "", round |-> Round(at.pc), records |-> WriteSet(at.pc)],
               IF at.pc = "correct" /\ WriteSet(at.pc) = {} THEN Pc("stall")
               ELSE [pc |-> "round", task |-> at.pc, records |-> WriteSet(at.pc)])

StampOf(r, since) == Newest({i \in Seqs("record-written", r) : i > since})
Stamped(S, since) == {r \in S : StampOf(r, since) > 0}

(* The round was made where its stamps or its commit say so; what no stamp   *)
(* answers for takes the commit, and what the seat's last report names.      *)
RoundCommitsUnread == {}   \* Seeded bug: the commits are not read.
RoundCommits == tree.body
AlreadyWritten ==
    LET since == Since(at.task)
        named == IF LastReport("write") > 0 THEN led[LastReport("write")].names ELSE {}
    IN [r \in at.records |-> IF StampOf(r, since) > 0 THEN led[StampOf(r, since)].why
                             ELSE IF r \in RoundCommits \union named THEN "written" ELSE "unreported"]
WriteRound ==
    /\ at.pc = "round"
    /\ IF Stamped(at.records, Since(at.task)) # {} \/ RoundCommits # {}
       THEN Do([pc |-> "stamp", task |-> at.task, entries |-> AlreadyWritten, rewritten |-> RoundCommits])
       ELSE Do([at EXCEPT !.pc = "seat"])

(* A seat that fails leaves every record of the set unwritten; one that      *)
(* reports says of each record what became of it, or nothing, whether it     *)
(* changed the record or not.  Beside its set it may change records too.     *)
SeatFails == /\ at.pc = "seat"
             /\ Trouble(1) /\ UNCHANGED tree
             /\ Go([pc |-> "stamp", task |-> at.task, entries |-> [r \in at.records |-> "failed"], rewritten |-> {}])
Answers == {"rewritten", "unchanged", "closed"}
Outcomes == Answers \union {"silent", "unreported"}
LeftUnsaid(out, r) == IF r \in at.records THEN out[r] \notin {"rewritten", "unchanged"} ELSE out[r] # "unreported"
SeatWrites ==
    /\ at.pc = "seat"
    /\ \E out \in [Records -> Outcomes] :
          /\ \A r \in Records \ at.records : out[r] \in {"closed", "silent", "unreported"}
          /\ Trouble(Cardinality({r \in Records : LeftUnsaid(out, r)})) /\ UNCHANGED tree
          /\ StampAndGo([e |-> "seat-report", of |-> "write", why |-> "", names |-> {r \in at.records : out[r] \in {"rewritten", "unchanged"}}],
                  [pc |-> "commit", task |-> at.task, records |-> at.records, out |-> out])

(* A change is committed whatever was said of it; the body names the records *)
(* of the set that the round answers for.                                    *)
Commit ==
    /\ at.pc = "commit"
    /\ LET changed == {r \in Records : at.out[r] \in {"rewritten", "closed", "silent"}}
           wrote == {r \in at.records : at.out[r] \in Answers}
       IN /\ tree' = [tree EXCEPT !.text = [r \in Records |-> IF r \in changed THEN tree.text[r] + 1 ELSE tree.text[r]],
                                  !.closed = @ \union {r \in changed : at.out[r] = "closed"},
                                  !.window = @ \union changed,
                                  !.body = IF changed = {} THEN @ ELSE @ \union wrote]
          /\ hist' = [hist EXCEPT !.commits = IF changed = {} THEN @ ELSE @ + 1]
          /\ Go([pc |-> "stamp", task |-> at.task, rewritten |-> {r \in at.records : at.out[r] = "rewritten"},
                 entries |-> [r \in at.records |-> IF r \in wrote THEN "written" ELSE "unreported"]])

StampWrite ==
    /\ at.pc = "stamp"
    /\ LET due == DOMAIN at.entries \ Stamped(DOMAIN at.entries, Since(at.task))
       IN IF due = {} THEN Do([at EXCEPT !.pc = "written"])
          ELSE \E r \in due : DoStamp([e |-> "record-written", of |-> r, why |-> at.entries[r]], at)

(* The write's own stamp.  A first write whose seat failed ends the stage; a *)
(* corrective round is counted behind its stamp.                             *)
StampWritten ==
    /\ at.pc = "written"
    /\ hist' = [hist EXCEPT !.rounds = IF at.task = "correct" THEN @ + 1 ELSE @] /\ UNCHANGED tree
    /\ StampAndGo([e |-> "reconciliation-written", of |-> "", ok |-> TRUE, entries |-> at.entries, rewritten |-> at.rewritten],
         IF at.task = "correct" THEN [pc |-> "count", round |-> Round("correct")]
         ELSE IF tree.mode # "records" /\ \E r \in DOMAIN at.entries : at.entries[r] = "failed" THEN Pc("fallback")
         ELSE Enter)
StampRound == /\ at.pc = "count"
              /\ DoStamp([e |-> "reconcile-round", of |-> "", nth |-> at.round], Enter)

(* --- the cycle ----------------------------------------------------------- *)

(* The record layers of the cycle run once; a red names a record or none.    *)
LayersRun == \E i \in SeqsOf("layer-result") : led[i].cycle = NextCycle
RunRecordLayers ==
    /\ at.pc = "cycle"
    /\ \/ LayersRun /\ Do(Pc("review-set"))
       \/ /\ ~LayersRun
          /\ \E reds \in {{}} \union {{[kind |-> "layer", names |-> names]} : names \in {{}} \union {{r} : r \in Records}} :
                /\ Trouble(Cardinality(reds)) /\ UNCHANGED tree
                /\ StampAndGo([e |-> "layer-result", of |-> "", cycle |-> NextCycle, reds |-> reds], Pc("review-set"))
       \/ ~LayersRun /\ Do(CommandError("gate-command"))

(* A record keeps its last green review while its text stands.               *)
Against(r, i) == \E x \in FindingsOf(led[i].open) : r \in About(x)
LastGreenReview(r) == Newest({i \in Renders : r \in led[i].records \ led[i].unreviewed /\ ~Against(r, i)})
WrittenSince == IF Written > LastRendered THEN CycleAnchor.rewritten \union DOMAIN CycleAnchor.entries ELSE {}
(* Seeded bug: a green review is kept whatever the text is now. *)
KeptByName(r) == LastGreenReview(r) > 0
KeepsItsReview(r) == /\ LastGreenReview(r) > 0
                     /\ led[LastGreenReview(r)].text[r] = tree.text[r]
Keeps(r) == /\ LastRendered > 0 /\ RerunAsked < LastRendered
            /\ r \notin WrittenSince \union (UNION {About(x) : x \in FindingsOf(Open)}) \union led[LastRendered].unreviewed
            /\ KeepsItsReview(r)

StageScope == IF Active(tree.window) # {} THEN Active(tree.window)
              ELSE Active(IF tree.window # {} THEN tree.window ELSE ReviewedRecords)
ReviewSetStamp == Newest({i \in SeqsOf("reconcile-review-set") : led[i].cycle = NextCycle})
ReviewSet ==
    /\ at.pc = "review-set"
    /\ IF ReviewSetStamp > 0 THEN Do(Pc("review"))
       ELSE LET kept == {r \in StageScope : Keeps(r)}
            IN DoStamp([e |-> "reconcile-review-set", of |-> "", cycle |-> NextCycle, records |-> StageScope \ kept, kept |-> kept], Pc("review"))

(* One seat reads the whole set; a report of the cycle is used again, and a  *)
(* seat that failed leaves the set unreviewed.                               *)
Findings(list) == {[kind |-> "finding", file |-> r, file2 |-> s] : r \in list, s \in Active(Records)}
Unreviewed == \E i \in SeqsOf("record-unreviewed") : led[i].cycle = NextCycle
ToRender(raised, read) == [pc |-> "render", raised |-> raised, read |-> read]
RecordReview ==
    /\ at.pc = "review"
    /\ LET list == led[ReviewSetStamp].records
           reported == LastReport("review") > ReviewSetStamp
       IN \/ (list = {} \/ Unreviewed) /\ Do(ToRender({}, {}))
          \/ /\ list # {} /\ ~Unreviewed /\ reported
             /\ Do(ToRender(led[LastReport("review")].raised, list))
          \/ /\ list # {} /\ ~Unreviewed /\ ~reported
             /\ \/ \E raised \in {{}} \union {{x} : x \in Findings(list)} :
                      /\ Trouble(Cardinality(raised)) /\ UNCHANGED tree
                      /\ StampAndGo([e |-> "seat-report", of |-> "review", why |-> "", raised |-> raised], at)
                \/ /\ Trouble(1) /\ UNCHANGED tree
                   /\ StampAndGo([e |-> "record-unreviewed", of |-> "", cycle |-> NextCycle], at)

(* A finding stands until a seat reads its record and does not raise it, or  *)
(* the record is closed.                                                     *)
Resolved(x) == x.file \in tree.closed \/ (x.file \in at.read /\ x \notin at.raised)
Layers == led[Newest({i \in SeqsOf("layer-result") : led[i].cycle = NextCycle})].reds
Render ==
    /\ at.pc = "render"
    /\ LET set == led[ReviewSetStamp]
           prior == {x \in FindingsOf(Open) : ~Resolved(x)}
           open == prior \union at.raised \union Layers \union {[kind |-> "unwritten", names |-> {r}] : r \in UnwrittenRecords}
       IN /\ StampAndGo([e |-> "reconcile-rendered", of |-> "", nth |-> NextCycle, open |-> open, records |-> set.records, kept |-> set.kept,
                         unreviewed |-> set.records \ at.read, text |-> tree.text], Enter)
          /\ tree' = [tree EXCEPT !.body = {}]
          /\ hist' = [hist EXCEPT !.commits = 0, !.unread = 0,
                        !.clean = [r \in Records |-> IF r \in at.read /\ ~\E x \in FindingsOf(open) : r \in About(x)
                                                     THEN tree.text[r] ELSE @[r]]]

(* --- the recheck and the ending ------------------------------------------ *)

RecheckStep ==
    /\ at.pc = "recheck"
    /\ \/ DoStamp(Event("reconcile-recheck", "kept", ""), Enter)
       \/ \E owed \in (SUBSET (Records \ (led[LastRendered].records \union led[LastRendered].kept))) \ {{}} :
             DoStamp(Event("reconcile-recheck", "owed", ""), [pc |-> "rejudge", owed |-> owed])
Rejudge == at.pc = "rejudge" /\ Judge(at.owed)

StallStep == /\ at.pc = "stall"
             /\ DoStamp(Event("reconcile-stall", "", ""), Pc("fallback"))
FallbackStep == /\ at.pc = "fallback"
                /\ DoStamp([e |-> "reconciliation-written", of |-> "", ok |-> FALSE, entries |-> <<>>, rewritten |-> {}], Pc("left"))

(* --- what sends the run back --------------------------------------------- *)

FellBack == Written > LastRendered /\ ~CycleAnchor.ok
MovesTexts == \E moved \in {{}} \union {{r} : r \in Records} :
                 tree' = [tree EXCEPT !.text = [r \in Records |-> IF r \in moved THEN tree.text[r] + 1 ELSE tree.text[r]]]
Returns(event) == /\ at.pc = "left" /\ hist.returns < MaxReturns
                  /\ MovesTexts
                  /\ StampAndGo(event, Enter)
                  /\ hist' = [hist EXCEPT !.returns = @ + 1]
(* The update stage merged the default branch and asks the records again.    *)
UpdateReruns == LastRendered > 0 /\ ~FellBack /\ Returns(Event("pre-verdict-update", "rerun", ""))
(* A red of the forge's checks was repaired; a merge under the request asks  *)
(* nothing of the records.                                                   *)
RepairReturns == Returns(Event("repair-round", "", ""))

(* --- the stage ----------------------------------------------------------- *)

WriteStep == DispatchSet \/ WriteRound \/ SeatFails \/ SeatWrites \/ Commit \/ StampWrite \/ StampWritten \/ StampRound
CycleStep == RunRecordLayers \/ ReviewSet \/ RecordReview \/ Render
StageStep == (BirthStep /\ UNCHANGED hist) \/ TakeStep \/ AdvisoryStep \/ JudgeStep \/ WriteStep \/ CycleStep \/ RecheckStep \/ Rejudge \/ StallStep \/ FallbackStep
Handler == StageStep \/ ((Park \/ AbandonGuard) /\ Stay)
(* A crash between the write's stamp and the round's loses the count of it;  *)
(* one behind a commit that names no record, and before the first stamp of   *)
(* its round, leaves the round's commits where no reader finds them.         *)
LeavesUnread == /\ at.pc \in {"stamp", "written"} /\ tree.body = {}
                /\ Stamped(DOMAIN at.entries, Since(at.task)) = {}
Stops == /\ Crash
         /\ hist' = [hist EXCEPT !.lost = IF at.pc = "count" THEN @ + 1 ELSE @,
                                 !.unread = IF LeavesUnread THEN hist.commits ELSE @]
         /\ UNCHANGED tree
ReconcileNext == Handler \/ UpdateReruns \/ RepairReturns \/ (Answer /\ Stay) \/ Stops

(* The handler runs on; nobody has to answer a park.                         *)
ReconcileSpec == ReconcileInit /\ [][ReconcileNext]_stageVars /\ WF_stageVars(Handler)

(* --- what must hold ------------------------------------------------------ *)

(* A write round commits once, wherever a stop fell: the seat is dispatched  *)
(* again over commits of its round only where a stop left them behind with   *)
(* no record in a body and none in a stamp (ADR-0070).                       *)
ARoundCommitsOnce == hist.commits <= 1 + hist.unread

(* A green render leaves no owed record without an answer of a writer.       *)
Green == LastRendered > 0 /\ Open = {}
GreenAnswersTheJudgment ==
    Green /\ LastRendered > Judged => \A r \in Owed \ tree.closed : StampOf(r, Judged) > 0 /\ led[StampOf(r, Judged)].why = "written"

(* A render that names no finding and no unread record stands over texts a   *)
(* seat read and left without one: a kept review is of the text that stands. *)
GreenIsRead ==
    [][at.pc = "render" /\ at'.pc = "enter" =>
         \A r \in led[ReviewSetStamp].kept : hist.clean[r] = tree.text[r]]_stageVars

(* A green render is earned: of a writer's answers and of a reader's eyes.   *)
AGreenIsEarned == []GreenAnswersTheJudgment /\ GreenIsRead

(* The corrective rounds of one judgment stay under the cap: a stop between  *)
(* the write's stamp and the round's costs one more.                         *)
RoundsAreCapped == hist.rounds <= Cap + hist.lost

(* A round of writers is spent once: it commits once whatever stops between  *)
(* its spawn and its stamp, unless nobody can read what it committed, and no *)
(* judgment is answered by more rounds than the cap and the stops account    *)
(* for.                                                                      *)
RoundsAreSpentOnce == ARoundCommitsOnce /\ RoundsAreCapped

(* The stage blocks nothing: it leaves, or it asks for a broken command.     *)
StageEnds == at.pc = "enter" ~> at.pc \in {"left", "parked", "closed"}

(* What a repair was found to owe is judged owed before the stage leaves.    *)
(* It fails where a stop fell between the recheck's two stamps.              *)
RecheckIsJudged ==
    LET recheck == Newest(SeqsOf("reconcile-recheck"))
    IN at.pc = "left" /\ recheck > 0 /\ led[recheck].of = "owed" => Judged > recheck

(* Every active record an open finding names is owed a corrective round. It  *)
(* fails where the newest write did not hold the record.                     *)
OpenRecordsAreDispatched ==
    ReconcileStep = "correct" => \A x \in FindingsOf(Open) : Active({x.file}) \subseteq CorrectiveRecords

(* A stamp that says written stands for a seat's answer.  It fails where a   *)
(* stop fell inside the stamps of a failed round after an earlier report.    *)
WrittenByItsRound ==
    at.pc = "round" =>
        \A r \in at.records : StampOf(r, Since(at.task)) = 0 /\ Stamped(at.records, Since(at.task)) # {} /\ AlreadyWritten[r] = "written"
                                => LastReport("write") > Since(at.task)
=============================================================================
