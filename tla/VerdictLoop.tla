---------------------------- MODULE VerdictLoop ----------------------------
(* The verdict stage (src/lanes/verdict.mjs): a cycle of gates, triage and   *)
(* review renders a verdict over the tree; a red one climbs the ladder of    *)
(* responses, each of which ends in a stamp that moves the tree or in a park *)
(* for the operator.  A finding is its kind, open or not.                    *)
EXTENDS LaneLedger

CONSTANTS Cap,         \* repair rounds of a pass (REPAIR_CAP)
          Judgments,   \* what one triage may find: sets of "code", "suite", "intent", "env"
          MaxCycles,   \* bound: cycles run
          MaxRounds    \* bound: repair rounds stamped in a pass

ASSUME CapIsANumber == Cap \in Nat
ASSUME JudgmentsAreOfKinds == Judgments \subseteq SUBSET {"code", "suite", "intent", "env"}

VARIABLES code,   \* the run tree: see CodeTypes
          tally,  \* what the ladder counts over the whole ledger
          past    \* what earlier renders at this tree judged

verdictVars == <<ledgerVars, code, tally, past>>
tree == <<code, tally, past>>

Findings == (UNION Judgments) \union {"review"}
CodeTypes == [dirty : BOOLEAN,  \* a seat's edits no commit holds
              holds : Nat,      \* the pass whose implementation HEAD holds, 0 none
              read : BOOLEAN]   \* a review has read every code commit of the pass

NoPast == [seen |-> {}, retried |-> {}]
(* Of this pass: the rounds counted, the rounds whose commit is stamped, and *)
(* those a stop left between the two stamps.                                 *)
Tally == [pass |-> 1, rounds |-> 0, made |-> 0, lost |-> 0,
          fresh |-> 0, again |-> 0, freshAnswers |-> 0, cycles |-> 0]

(* The stamp's range starts at HEAD before the seat: does it reach back to   *)
(* what is read?                                                             *)
Implementation(phase, reaches) ==
    [e |-> "implementation-committed", of |-> phase, why |-> "", reaches |-> reaches]
Render(nth, verdict, pass, open, counted, refroze, repeat) ==
    [e |-> "verdict-rendered", of |-> verdict, nth |-> nth, pass |-> pass, open |-> open,
     counted |-> counted, refroze |-> refroze, repeat |-> repeat]

VerdictInit == /\ led = <<Implementation("initial", TRUE)>>
               /\ at = Pc("enter") /\ spent = [answers |-> 0, crashes |-> 0]
               /\ code = [dirty |-> FALSE, holds |-> 1, read |-> FALSE]
               /\ tally = Tally /\ past = NoPast

(* --- what the ledger says since the last render -------------------------- *)

LastRender == Newest(SeqsOf("verdict-rendered"))
Rendered == led[LastRender]
PrevRender == Newest(SeqsOf("verdict-rendered") \ {LastRender})
Since(e) == After(SeqsOf(e), LastRender)
LastImpl == led[Newest(SeqsOf("implementation-committed"))]

Boundary == Newest(UNION {SeqsOf(e) : e \in {"fresh-pass", "repair-round", "repair-no-change", "verdict-rendered"}})
RoundEnded(seq) == After(SeqsOf("implementation-committed") \union SeqsOf("repair-no-change"), seq)

PassUnimplemented == led[Boundary].e = "fresh-pass" /\ ~After(SeqsOf("implementation-committed"), Boundary)

(* Seeded bug: a round is known by the stamp that ends it. *)
InterruptedByItsStamp == IF LastRender > 0 /\ PassUnimplemented THEN "fresh-pass" ELSE "none"

(* The step of the ladder a stop or a crash left unfinished.                 *)
InterruptedStep ==
    IF LastRender = 0 THEN "none"
    ELSE IF PassUnimplemented THEN "fresh-pass"
    ELSE LET spawn == Newest(Seqs("seat-spawned", "repair-dev"))
         IN IF spawn > LastRender /\ ~RoundEnded(spawn) THEN "repair-round" ELSE "none"

SuiteKinds == {"suite", "intent"}
CodeKinds == {"code", "review"}

(* A suite defect of the render before came back behind its re-freeze.       *)
SuiteStalled == PrevRender > 0 /\ Rendered.refroze /\ led[PrevRender].open \cap Rendered.open \cap SuiteKinds # {}
RefreezeOwed == /\ LastRender > 0 /\ ~Since("re-freeze")
                /\ Rendered.open \cap SuiteKinds # {} /\ ~SuiteStalled
Moved == \/ LastRender = 0
         \/ \E e \in {"implementation-committed", "re-freeze", "operational-fix"} : Since(e)
NeedCycle == Moved /\ ~RefreezeOwed

(* A collision an implementing seat reported, and its triage's findings.     *)
ConflictOwed == LET stamp == Newest(SeqsOf("dev-suite-conflict"))
                IN stamp > 0 /\ ~After(SeqsOf("re-freeze") \union SeqsOf("conflict-triage"), stamp)
TriageOf(before, since) ==
    LET stamp == Newest(Seqs("conflict-triage", before))
    IN IF stamp > since /\ ~After(SeqsOf("re-freeze"), stamp) THEN led[stamp].found ELSE {}
Fresh == TriageOf("repair", LastRender)

SuiteDefects == (IF SuiteStalled THEN {} ELSE Rendered.open \cap SuiteKinds) \union (Fresh \cap SuiteKinds)
Code == (Rendered.open \cap CodeKinds) \union (Fresh \cap CodeKinds)
        \union (IF SuiteStalled THEN Rendered.open \cap SuiteKinds ELSE {})
Ops == Rendered.open \cap {"env"}

(* Every finding of the render before is open again behind a repair round.   *)
RepairStalled == /\ PrevRender > 0 /\ led[PrevRender].pass = Rendered.pass
                 /\ Rendered.counted
                 /\ led[PrevRender].open # {} /\ led[PrevRender].open \subseteq Rendered.open

(* The rounds a stall is judged by: one that changed nothing counts unless a *)
(* re-freeze followed it.                                                    *)
Counted == \/ After(Seqs("repair-round", "changed"), LastRender)
           \/ \E i \in Seqs("repair-round", "unchanged") : i > LastRender /\ ~After(SeqsOf("re-freeze"), i)

(* --- the stage ----------------------------------------------------------- *)

Reset == [code EXCEPT !.dirty = FALSE]

Verdict ==
    /\ Enters
    /\ CASE InterruptedStep = "fresh-pass" -> at' = SeatFor("dev", "fresh") /\ code' = Reset
         [] InterruptedStep = "repair-round" -> at' = SeatFor("repair-dev", "repair") /\ code' = Reset
         [] OTHER -> at' = Pc("loop") /\ UNCHANGED code
    /\ UNCHANGED <<led, spent, tally, past>>

Loop ==
    /\ at.pc = "loop"
    /\ IF NeedCycle THEN tally.cycles < MaxCycles /\ Go(Pc("cycle"))
       ELSE Go(IF Rendered.of = "green" THEN Pc("left") ELSE Pc("repeat"))
    /\ UNCHANGED tree

(* An implementing seat edits the tree, and may report a frozen-surface      *)
(* collision; a refused report leaves its edits where they are.              *)
DevReports ==
    /\ at.pc = "out" /\ at.seat \in {"dev", "repair-dev"}
    /\ \E edits \in BOOLEAN : code' = [code EXCEPT !.dirty = @ \/ edits]
    /\ Go([at EXCEPT !.pc = "captured"])
    /\ UNCHANGED <<tally, past>>
DevChecks ==
    /\ at.pc = "captured"
    /\ \/ Refuse
       \/ /\ code.dirty \/ at.task # "repair" \/ at.try = at.limit   \* no change is refused once
          /\ Go([pc |-> "commit", task |-> at.task])
       \/ StampAndGo(Event("dev-suite-conflict", at.seat, ""), [pc |-> "commit", task |-> at.task])
    /\ UNCHANGED tree

CommitAll ==
    /\ at.pc = "commit"
    /\ code' = IF code.dirty \/ at.task = "fresh"
               THEN [dirty |-> FALSE, read |-> FALSE,
                     holds |-> IF at.task = "fresh" THEN tally.pass + 1 ELSE code.holds]
               ELSE code
    /\ Go([pc |-> "committed", task |-> at.task, changed |-> code.dirty, reaches |-> code.read])
    /\ UNCHANGED <<tally, past>>

PassOf(task) == IF task = "fresh" THEN tally.pass + 1 ELSE tally.pass

ImplementationCommitted ==
    /\ at.pc = "committed"
    /\ past' = IF at.changed \/ at.task = "fresh" THEN NoPast ELSE past
    /\ IF at.task = "fresh"
       THEN /\ StampAndGo(Implementation("fresh", at.reaches), Pc("loop"))
            /\ tally' = [tally EXCEPT !.pass = PassOf("fresh"), !.rounds = 0, !.made = 0, !.lost = 0,
                                      !.fresh = @ + 1]
       ELSE /\ IF ~at.changed
               THEN StampAndGo(Event("repair-no-change", "", ""), [pc |-> "round", of |-> "unchanged"])
               ELSE StampAndGo(Implementation("repair", at.reaches), [pc |-> "round", of |-> "changed"])
            /\ tally' = [tally EXCEPT !.pass = PassOf("repair"), !.made = @ + 1]
    /\ UNCHANGED code

RepairRound ==
    /\ at.pc = "round"
    /\ tally.rounds < MaxRounds
    /\ StampAndGo(Event("repair-round", at.of, ""), Pc("loop"))
    /\ tally' = [tally EXCEPT !.rounds = @ + 1]
    /\ UNCHANGED <<code, past>>

(* --- a cycle ------------------------------------------------------------- *)

SpectrumTriage == TriageOf("spectrum", Max({LastRender, Newest(SeqsOf("re-freeze"))}))
Spectrum(riding) == [pc |-> "spectrum", riding |-> riding]

(* A collision is triaged before the gates run; what is the suite's is       *)
(* amended here unless the card refuses one of its rulings.                  *)
SettleConflicts ==
    /\ at.pc = "cycle"
    /\ IF ConflictOwed THEN Go(SeatFor("conflict-triage", "spectrum"))
       ELSE LET owed == SpectrumTriage \cap SuiteKinds
            IN IF owed = {} THEN Go(Spectrum({}))
               ELSE \/ "intent" \in owed /\ Go(Spectrum(owed))
                    \/ "intent" \notin owed /\ Go(SeatFor("suite", [to |-> "spectrum", of |-> owed, ruled |-> "none"]))
                    \/ "intent" \in owed /\ StampAndGo(Event("supersede-authorized", "verdict", ""),
                                                       SeatFor("suite", [to |-> "spectrum", of |-> owed, ruled |-> "card"]))
    /\ UNCHANGED tree

ConflictTriage ==
    /\ at.pc = "out" /\ at.seat = "conflict-triage"
    /\ \E found \in {j \in Judgments : j # {} /\ "env" \notin j} :
          StampAndGo([e |-> "conflict-triage", of |-> at.task, why |-> "", found |-> found],
                     IF at.task = "spectrum" THEN Pc("cycle") ELSE Pc("intent"))
    /\ UNCHANGED tree

(* The ways a run of the gates ends that are no answer over the tree.        *)
GateCommandError == CommandError("gate-command-error")
ExternalGate == Ask("provisioning-gate", "external")
TriageFails == SeatFail("triage")
NoAnswer == {GateCommandError, ExternalGate, TriageFails}

RunSpectrum ==
    /\ at.pc = "spectrum"
    /\ \/ \E place \in NoAnswer : Go(place)
       \/ \E reds \in Judgments : Go([pc |-> "review", open |-> reds \union at.riding])
    /\ UNCHANGED tree

NewTree == LastRender = 0 \/ Rendered.pass # tally.pass
Repaired == After(Seqs("repair-round", "changed"), LastRender)
Amended == \E i \in SeqsOf("re-freeze") : i > LastRender /\ led[i].ruled = "card"

(* A review reads the diff of the newest implementation stamp.               *)
ReadAll == code.read \/ LastImpl.reaches

Review ==
    /\ at.pc = "review"
    /\ LET prior == IF NewTree THEN {} ELSE Rendered.open \cap {"review"}
           render(confirmed) == Go([pc |-> "render", open |-> at.open \union confirmed, swept |-> FALSE])
       IN IF NewTree \/ Repaired \/ Amended
          THEN \/ Go(SeatFail("review")) /\ UNCHANGED code
               \/ /\ \E confirmed \in SUBSET {"review"} : render(confirmed)
                  /\ code' = IF NewTree \/ Repaired THEN [code EXCEPT !.read = ReadAll] ELSE code
          ELSE render(prior) /\ UNCHANGED code
    /\ UNCHANGED <<tally, past>>

(* A targeted cycle with nothing open is confirmed by a run of every layer.  *)
Confirmation ==
    /\ at.pc = "render" /\ at.open = {} /\ ~at.swept
    /\ \/ \E place \in NoAnswer : Go(place)
       \/ \E reds \in Judgments : Go([pc |-> "render", open |-> reds, swept |-> TRUE])
    /\ UNCHANGED tree

(* Behind a render only these are read: the two last renders, a collision no *)
(* triage answered, and a retry no dispatch has spent.                       *)
StillRead(event) ==
    \/ event.e = "verdict-rendered"
    \/ event.e = "dev-suite-conflict" /\ ConflictOwed
    \/ /\ event.of = "seat-failure" \/ event.e = "seat-failure"
       /\ LastRecoveryPark > 0 /\ BoughtRetry(led[LastRecoveryPark].why)

VerdictRendered ==
    /\ at.pc = "render"
    /\ LET nth == IF LastRender = 0 THEN 0 ELSE 1 - Rendered.nth
           render == Render(nth, IF at.open = {} THEN "green" ELSE "red", tally.pass, at.open,
                            Counted, Since("re-freeze"), at.open \in past.seen)
       IN led' = With(Only(led, {i \in DOMAIN led : StillRead(led[i])}), render)
    /\ at' = Pc("loop") /\ UNCHANGED spent
    /\ past' = [past EXCEPT !.seen = @ \union {at.open}]
    /\ tally' = [tally EXCEPT !.cycles = @ + 1]
    /\ UNCHANGED code

(* --- the ladder ---------------------------------------------------------- *)

(* A cycle that judged what an earlier one judged is retried once, then asked.*)
CycleRepeat ==
    /\ at.pc = "repeat"
    /\ IF ~Rendered.repeat \/ Since("cycle-retry") THEN Go(Pc("triage")) /\ UNCHANGED past
       ELSE IF Rendered.open \in past.retried THEN Go(Ask("cycle-repeat", "")) /\ UNCHANGED past
       ELSE /\ StampAndGo(Event("cycle-retry", "", ""), Pc("triage"))
            /\ past' = [past EXCEPT !.retried = @ \union {Rendered.open}]
    /\ UNCHANGED <<code, tally>>

LadderTriage ==
    /\ at.pc = "triage"
    /\ Go(IF ConflictOwed THEN SeatFor("conflict-triage", "repair") ELSE Pc("intent"))
    /\ UNCHANGED tree

AnsweredSince(type) == AnsweredPark(type) > LastRender

(* Seeded bug: only what the render confirmed is asked about. *)
IntentOfTheRender == "intent" \in Rendered.open
IntentOwed == "intent" \in SuiteDefects

(* An intent defect is ruled on by the card, or by the operator.             *)
Intent ==
    /\ at.pc = "intent"
    /\ LET ops(ruled) == [pc |-> "ops", ruled |-> ruled]
       IN IF ~IntentOwed THEN Go(ops("none"))
          ELSE IF After(Seqs("supersede-authorized", "verdict"), LastRender) THEN Go(ops("card"))
          ELSE IF AnsweredSince("intent-conflict") THEN Go(ops("answer"))
          ELSE \/ StampAndGo(Event("supersede-authorized", "verdict", ""), ops("card"))
               \/ Go(Ask("intent-conflict", "verdict"))
    /\ UNCHANGED tree

(* A substrate finding gets one fix for free; one that survives it climbs    *)
(* the wait ladder, then stands on an acknowledgment or on the operator.     *)
SubstrateProbeGate == Ask("provisioning-gate", "")
SubstrateGate == Ask("provisioning-gate", "substrate")
FixedBefore == PrevRender > 0 /\ "env" \in led[PrevRender].open
OpsArm ==
    /\ at.pc = "ops"
    /\ LET suite(acted) == [pc |-> "suite", ruled |-> at.ruled, acted |-> acted]
           fixed == StampAndGo(Event("operational-fix", "", ""), suite(TRUE))
       IN IF Ops = {} THEN Go(suite(FALSE)) /\ UNCHANGED past
          ELSE IF Since("operational-fix") THEN Go(suite(TRUE)) /\ UNCHANGED past
          ELSE \/ (~FixedBefore \/ AnsweredSince("provisioning-gate")) /\ fixed /\ UNCHANGED past
               \/ /\ FixedBefore /\ ~AnsweredSince("provisioning-gate")
                  /\ past' = [past EXCEPT !.seen = {}]      \* a wait is part of what a cycle judged
                  /\ fixed \/ Go(SubstrateProbeGate)
               \/ ~AnsweredSince("provisioning-gate") /\ Go(SubstrateGate) /\ UNCHANGED past
    /\ UNCHANGED <<code, tally>>

SuiteArm ==
    /\ at.pc = "suite"
    /\ Go(IF SuiteDefects = {} THEN [pc |-> "code", acted |-> at.acted]
          ELSE SeatFor("suite", [to |-> "code", of |-> SuiteDefects, ruled |-> at.ruled]))
    /\ UNCHANGED tree

(* The suite seat amends the frozen suite for the findings it was given.     *)
Refreeze ==
    /\ at.pc = "out" /\ at.seat = "suite"
    /\ \/ Refuse
       \/ StampAndGo([e |-> "re-freeze", of |-> "", why |-> "", found |-> at.task.of, ruled |-> at.task.ruled],
                     IF at.task.to = "spectrum" THEN Spectrum({})
                     ELSE IF at.task.of \cap Fresh # {} THEN Pc("loop")
                     ELSE [pc |-> "code", acted |-> TRUE])
    /\ past' = IF Len(led') > 0 /\ led'[Len(led')].e = "re-freeze" THEN NoPast ELSE past
    /\ UNCHANGED <<code, tally>>

(* Seeded bug: one round more than the cap. *)
CapOverrun == tally.rounds > Cap + tally.again
CapExhausted == tally.rounds >= Cap + tally.again
FreshAllowed == tally.fresh < 1 + tally.freshAnswers

CodeArm ==
    /\ at.pc = "code"
    /\ IF Code = {} /\ ~SuiteStalled THEN Go(IF at.acted THEN Pc("loop") ELSE Pc("thrown"))
       ELSE IF ~(RepairStalled \/ CapExhausted \/ SuiteStalled) THEN Go(SeatFor("repair-dev", "repair"))
       ELSE LET answer == AnsweredPark("second-stall")
            IN IF FreshAllowed \/ (answer > LastRender /\ led[answer].why = "fresh-pass") THEN Go(Pc("fresh-pass"))
               ELSE IF answer > LastRender THEN Go(SeatFor("repair-dev", "repair"))
               ELSE Go(Ask("second-stall", ""))
    /\ UNCHANGED tree

(* A fresh pass resets the tree to where passes are born, then stamps.       *)
FreshPass ==
    /\ at.pc = "fresh-pass"
    /\ IF Since("fresh-pass") THEN Go(SeatFor("dev", "fresh")) /\ UNCHANGED code
       ELSE /\ code' = [dirty |-> FALSE, holds |-> 0, read |-> TRUE]
            /\ Go(Pc("born"))
    /\ UNCHANGED <<tally, past>>
PassBorn ==
    /\ at.pc = "born"
    /\ StampAndGo(Event("fresh-pass", "", ""), SeatFor("dev", "fresh"))
    /\ past' = NoPast
    /\ UNCHANGED <<code, tally>>

VerdictAnswer ==
    /\ Answer
    /\ LET option == led'[Len(led')].why
       IN tally' = [tally EXCEPT !.again = @ + (IF option = "repair-again" THEN 1 ELSE 0),
                                 !.freshAnswers = @ + (IF option = "fresh-pass" THEN 1 ELSE 0)]
    /\ past' = [past EXCEPT !.retried = {}]
    /\ UNCHANGED code

LedgerStep == (Park \/ AbandonGuard \/ RefreshForRetry \/ Dispatch \/ NoReport) /\ UNCHANGED tree

(* The stamp of a round's commit ends it, the stamp behind it counts it: a   *)
(* stop between the two is a round the cap never reads.                      *)
VerdictCrash ==
    /\ Crash
    /\ tally' = [tally EXCEPT !.lost = @ + (IF at.pc = "round" THEN 1 ELSE 0)]
    /\ UNCHANGED <<code, past>>

VerdictNext ==
    \/ LedgerStep \/ VerdictCrash \/ VerdictAnswer
    \/ Verdict \/ Loop \/ DevReports \/ DevChecks \/ CommitAll \/ ImplementationCommitted \/ RepairRound
    \/ SettleConflicts \/ ConflictTriage \/ RunSpectrum \/ Review \/ Confirmation \/ VerdictRendered
    \/ CycleRepeat \/ LadderTriage \/ Intent \/ OpsArm \/ SuiteArm \/ Refreeze \/ CodeArm
    \/ FreshPass \/ PassBorn

VerdictSpec == VerdictInit /\ [][VerdictNext]_verdictVars

(* --- properties ---------------------------------------------------------- *)

(* Whatever a triage, a review and a crash leave open, some arm of the ladder*)
(* takes it: the throw at the end of ladder() is never reached.              *)
TheLadderHasARoute == at.pc # "thrown"

(* No gate runs and no verdict is rendered over edits that no commit holds,  *)
(* after a refused report, a failed seat, a retry or a crash.                *)
NothingJudgedUncommitted == at.pc \in {"spectrum", "render", "left"} => ~code.dirty

(* The frozen suite is amended against its card only with a ruling: the      *)
(* card's own or the operator's, never on a seat's word.                     *)
RulingsBackTheSuite == \A i \in SeqsOf("re-freeze") : "intent" \in led[i].found => led[i].ruled # "none"

(* Unless the operator grants more, a pass makes no more repair rounds than  *)
(* the cap and one for each stop that fell between the stamp of a round's    *)
(* commit and the stamp that counts it.  No other restart makes a round more:*)
(* one interrupted before its commit is stamped runs again as the same one.  *)
RoundsAreCapped == tally.again = 0 => tally.made <= Cap + tally.lost

(* Every red takes a rung, and the rungs that repair it come to an end.      *)
TheLadderIsBounded == TheLadderHasARoute /\ RoundsAreCapped

(* What the stage says of itself (verdict.mjs:993): every code commit of a   *)
(* green tree has been read by a review.                                     *)
GreenIsReviewed == at.pc = "left" => code.read

(* What the stage says of itself (verdict.mjs:545): no cycle runs over a tree*)
(* nobody implemented.                                                       *)
NoCycleOverAnUnimplementedTree == at.pc = "spectrum" => code.holds = tally.pass
=============================================================================
