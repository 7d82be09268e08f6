---------------------------- MODULE PreFreeze ----------------------------
(* The story lane before the freeze (src/lanes/story.mjs): readiness or an   *)
(* inherited freeze, the spec and its gate, the suite, and the freeze over a *)
(* red suite.  The gate's findings are a set, a supersede is one test, and   *)
(* of a suite only two facts are kept: does it fail without the feature, and *)
(* does it amend the test the spec supersedes.                               *)
EXTENDS LaneLedger

CONSTANTS Blockers    \* what a gate round may raise as blocking

ASSUME BlockersAreFinite == IsFiniteSet(Blockers)

VARIABLES stage,   \* the lane's stage
          spec,    \* the document on disk: "none", "clean" or "broken" by the template lint
          suite,   \* the frozen suite as committed (head) and as it lies in the tree
          dry      \* gate rounds since the operator last answered

preVars == <<ledgerVars, stage, spec, suite, dry>>
world == <<stage, spec, suite, dry>>

Suites == [red : BOOLEAN, amends : BOOLEAN]
NoSuite == [red |-> FALSE, amends |-> FALSE]

PreInit == /\ led = <<>> /\ at = Pc("enter") /\ spent = [answers |-> 0, crashes |-> 0]
           /\ stage \in {"readiness", "inherit"}
           /\ spec = "none"
           /\ suite = [head |-> NoSuite, tree |-> NoSuite]
           /\ dry = 0

(* The tests the run may supersede: authorized from the card, or ruled on by *)
(* the operator.  One test is enough for what follows.                       *)
Authorized == SeqsOf("supersede-authorized") # {}
RuledPin == \E i \in Seqs("park", "intent-conflict") : led[i].why = "pin" /\ Answered(i)

(* The card buys one amendment of a test, and the record is the whole of it. *)
AuthorizeSupersede(site, place) ==
    ~Authorized /\ StampAndGo(Event("supersede-authorized", site, ""), place)

(* A stage is left with what a later one still reads: the supersedes, and a  *)
(* ruling on a pinned test.                                                  *)
StillOwed(event) == \/ event.e = "supersede-authorized"
                    \/ RuledPin /\ event.of = "intent-conflict"
                    \/ RuledPin /\ event.e = "seat-report" /\ event.of = "spec-birth"
Kept == Only(led, {i \in DOMAIN led : StillOwed(led[i])})
Leave(s) == stage' = s /\ at' = Pc("enter") /\ led' = Kept
To(place) == at' = place /\ UNCHANGED <<led, stage>>

(* readiness: every guard either blocks the run or lets it through.          *)
Readiness ==
    /\ stage = "readiness" /\ Enters
    /\ \/ \E reason \in {"card-invalid", "readiness-lint"} : To(Blocked(reason))
       \/ To(CommandError("lint-command-error"))
       \/ AnsweredPark("open-decisions") = 0 /\ To(Ask("open-decisions", ""))
       \/ To(Ask("provisioning-gate", ""))
       \/ Leave("spec-birth")
    /\ UNCHANGED <<spent, spec, suite, dry>>

(* A resumed run takes the freeze of the run before it; a base that moved is *)
(* merged and the suite proven red again.                                    *)
Inherit ==
    /\ stage = "inherit" /\ Enters
    /\ IF SeqsOf("freeze-inherited") # {} THEN at' = Pc("left") /\ stage' = "implementation" /\ UNCHANGED led
       ELSE \/ \E reason \in {"inherit-invalid", "inherit-suite-diverged", "inherit-base-conflict"} :
                  To(Blocked(reason))
            \/ To(Ask("provisioning-gate", ""))
            \/ \E base \in {"same-base", "advance"} : To(Pc(base))
    /\ UNCHANGED <<spent, spec, suite, dry>>

AdvanceBase ==
    /\ at.pc = "advance"
    /\ \/ at' = CommandError("suite-command-error") /\ UNCHANGED <<led, suite>>
       \/ \E red \in BOOLEAN :
             /\ UNCHANGED led
             /\ suite' = [head |-> [NoSuite EXCEPT !.red = red], tree |-> [NoSuite EXCEPT !.red = red]]
             /\ at' = IF red THEN Pc("same-base") ELSE Blocked("inherit-red-state-green")
    /\ UNCHANGED <<spent, stage, spec, dry>>

InheritFreeze ==
    /\ at.pc = "same-base"
    /\ Go(Pc("recorded"))
    /\ UNCHANGED world
Inherited ==
    /\ at.pc = "recorded"
    /\ StampAndGo(Event("freeze-inherited", "", ""), Pc("enter"))
    /\ UNCHANGED world

Dependency == Newest(Seqs("park", "dependency-decision"))
DependencyOption == IF Answered(Dependency) THEN led[AnswerTo(Dependency)].why ELSE "none"
CardWritten == After(SeqsOf("card-amended"), Dependency)

SpecBirth ==
    /\ stage = "spec-birth" /\ Enters
    /\ IF SeqsOf("spec-born") # {} THEN Leave("spec-gate")
       ELSE CASE DependencyOption = "refuse" -> To(Pc("closed"))
              [] DependencyOption = "approve" /\ ~CardWritten ->
                   \/ To(Blocked("card-push-lost"))
                   \/ Stamp(Event("card-amended", "", "")) /\ at' = Pc("card-amended") /\ UNCHANGED stage
              [] OTHER -> To(Seat("spec-birth"))
    /\ UNCHANGED <<spent, spec, suite, dry>>

(* The approved card is on the default branch: the run tree takes it.        *)
TakeTheCard ==
    /\ at.pc = "card-amended"
    /\ StampAndGo(Event("tree-refreshed", "", ""), Seat("spec-birth"))
    /\ UNCHANGED world

(* A spec-birth seat writes the document, for its birth or for an amendment. *)
SpecBirthReports ==
    /\ at.pc = "out" /\ at.seat = "spec-birth"
    /\ \E outcome \in IF stage = "spec-birth" THEN {"spec-born", "grounding-conflict", "dependency-needed"}
                      ELSE {"amended"} :
          /\ Stamp(Event("seat-report", "spec-birth", ""))
          /\ spec' \in IF outcome \in {"spec-born", "amended"} THEN {"clean", "broken"} ELSE {spec}
          /\ at' = [at EXCEPT !.pc = outcome]
    /\ UNCHANGED <<spent, stage, suite, dry>>

(* The checks lint the spec and read every supersede it states: one the card *)
(* answers for is authorized here, one the owner pinned goes to the owner.   *)
SpecLintDefects ==
    /\ at.pc \in {"spec-born", "amended"}
    /\ \/ /\ spec = "broken"
          /\ Refuse
       \/ /\ spec = "clean"
          /\ \/ Go([pc |-> "written", by |-> at.pc])
             \/ AuthorizeSupersede("spec-birth", [pc |-> "written", by |-> at.pc])
             \/ /\ ~Authorized /\ ~RuledPin
                /\ Go(Ask("intent-conflict", "pin"))
    /\ UNCHANGED world

SpecBorn ==
    /\ \/ at.pc = "grounding-conflict" /\ Go(Ask("grounding-conflict", ""))
       \/ at.pc = "dependency-needed" /\ Go(Ask("dependency-decision", ""))
       \/ at.pc = "written" /\ at.by = "amended" /\ Go(Pc("enter"))
       \/ at.pc = "written" /\ at.by = "spec-born" /\ StampAndGo(Event("spec-born", "", ""), Pc("enter"))
    /\ UNCHANGED world

(* --- the gate ------------------------------------------------------------ *)

(* The ledger holds the last three rounds: each knows its number modulo 3,   *)
(* and Back(k) is the one k rounds before the last, where there is one.      *)
LastRound == Newest(SeqsOf("spec-gate-round"))
NextRound == IF LastRound = 0 THEN 0 ELSE (led[LastRound].nth + 1) % 3
Rounds == {led[i] : i \in SeqsOf("spec-gate-round")}
Back(k) == {round \in Rounds : round.nth = (led[LastRound].nth + 3 - k) % 3}

(* Every identity of the round before is open again.                         *)
ClosedNothing == \E last \in Back(0), before \in Back(1) :
                    before.blocking # {} /\ before.blocking \subseteq last.blocking
NoFall == \E last \in Back(0), before \in Back(2) :
             Cardinality(last.blocking) >= Cardinality(before.blocking)
(* Seeded bug: a count that never falls is no stall. *)
StallWhenNothingCloses == ClosedNothing
GateStall == ClosedNothing \/ NoFall

StallAsked == After(Seqs("park", "spec-gate-stalled"), LastRound)

(* Seeded bug: a ruling is owed from the first round on. *)
RulingOwedToARound == LET ruling == AnsweredPark("intent-conflict")
                      IN LastRound > 0 /\ ruling > 0 /\ ~SeatReportAfter("spec-birth", ruling)

(* A ruling the spec-birth seat has not reported on since it was given.      *)
RulingOwed == LET ruling == AnsweredPark("intent-conflict")
              IN ruling > 0 /\ ~SeatReportAfter("spec-birth", ruling)

GateSeat == [Seat("spec-gate") EXCEPT !.limit = 1]

SpecGate ==
    /\ stage = "spec-gate" /\ Enters
    /\ IF ~RulingOwed /\ LastRound > 0 /\ led[LastRound].of = "pass" THEN Leave("suite")
       ELSE To(IF RulingOwed THEN Seat("spec-birth")
               ELSE IF LastRound = 0 THEN GateSeat
               ELSE IF GateStall /\ ~StallAsked THEN Ask("spec-gate-stalled", "")
               ELSE IF SeatReportAfter("spec-birth", LastRound) THEN GateSeat
               ELSE Seat("spec-birth"))
    /\ UNCHANGED <<spent, spec, suite, dry>>

GateReports ==
    /\ at.pc = "out" /\ at.seat = "spec-gate"
    /\ Stamp(Event("seat-report", "spec-gate", ""))
    /\ \/ \E blocking \in SUBSET Blockers : at' = [pc |-> "judged", blocking |-> blocking]
       \/ \E claim \in {"card", "owner"} : at' = [pc |-> "conflict", claim |-> claim]
    /\ UNCHANGED <<spent, world>>

GateRound ==
    /\ at.pc = "judged"
    /\ StampAndGo([e |-> "spec-gate-round", of |-> IF at.blocking = {} THEN "pass" ELSE "findings",
                   nth |-> NextRound, blocking |-> at.blocking], Pc("enter"))
    /\ dry' = dry + 1
    /\ UNCHANGED <<stage, spec, suite>>

(* A conflict the card settles authorizes the supersede and amends the spec; *)
(* any other, and a test authorized before, goes to the operator.            *)
GateConflict ==
    /\ at.pc = "conflict"
    /\ IF at.claim = "card" /\ ~Authorized
       THEN AuthorizeSupersede("spec-gate", Seat("spec-birth"))
       ELSE Go(Ask("intent-conflict", "owner"))
    /\ UNCHANGED world

(* --- the suite and the freeze -------------------------------------------- *)

SuiteStage ==
    /\ stage = "suite" /\ Enters
    /\ IF Seqs("suite-committed", "suite") # {} THEN Leave("freeze") ELSE To(Seat("suite"))
    /\ UNCHANGED <<spent, spec, suite, dry>>

SuiteReports ==
    /\ at.pc = "out" /\ at.seat = "suite"
    /\ Stamp(Event("seat-report", "suite", ""))
    /\ \E left \in Suites : suite' = [suite EXCEPT !.tree = left]
    /\ at' = [at EXCEPT !.pc = "suite-checks"]
    /\ UNCHANGED <<spent, stage, spec, dry>>

(* The test the spec supersedes is unchanged in every commit and in the tree.*)
Unamended == Authorized /\ ~suite.head.amends /\ ~suite.tree.amends

(* The suite checks: the write's own form, the owed amendments, and the      *)
(* project's commands, one of which may not run at all.                      *)
SuiteChecks ==
    /\ at.pc = "suite-checks"
    /\ \/ Refuse
       \/ ~Unamended /\ Go(Pc("commit"))
       \/ Go(CommandError("suite-check-error"))
    /\ UNCHANGED world

CommitSuite ==
    /\ at.pc = "commit"
    /\ suite' = [suite EXCEPT !.head = suite.tree]
    /\ Go(Pc("committed"))
    /\ UNCHANGED <<stage, spec, dry>>
SuiteCommitted ==
    /\ at.pc = "committed"
    /\ StampAndGo(Event("suite-committed", stage, ""),
                  IF stage = "suite" THEN Pc("enter") ELSE [pc |-> "red-state", try |-> 2])
    /\ UNCHANGED world

Freeze ==
    /\ stage = "freeze" /\ Enters
    /\ Go([pc |-> "red-state", try |-> 1])
    /\ UNCHANGED world

(* The suite command runs in the run tree, committed or not.                 *)
RedStateCheck ==
    /\ at.pc = "red-state"
    /\ \/ Go(CommandError("suite-command-error"))
       \/ suite.tree.red /\ Go(Pc("proven"))
       \/ ~suite.tree.red /\ at.try = 1 /\ Go(Seat("suite"))
       \/ /\ ~suite.tree.red /\ at.try = 2
          /\ StampAndGo(Event("seat-failure", "suite", "red-state-green"), SeatFail("suite"))
    /\ UNCHANGED world

FreezeSuite ==
    /\ at.pc = "proven"
    /\ IF Unamended
       THEN /\ Stamp(Event("seat-failure", "suite", "supersede-unamended"))
            /\ at' = SeatFail("suite")
            /\ UNCHANGED stage
       ELSE /\ Stamp([e |-> "freeze", of |-> "", suite |-> suite.head])
            /\ at' = Pc("left") /\ stage' = "implementation"
    /\ UNCHANGED <<spent, spec, suite, dry>>

(* The lane's own steps leave the world alone.                               *)
Ledger == \/ Park \/ AbandonGuard \/ RefreshForRetry \/ Dispatch \/ NoReport \/ Crash
PreNext ==
    \/ Ledger /\ UNCHANGED world
    \/ Answer /\ dry' = 0 /\ UNCHANGED <<stage, spec, suite>>
    \/ Readiness \/ Inherit \/ AdvanceBase \/ InheritFreeze \/ Inherited
    \/ SpecBirth \/ TakeTheCard \/ SpecBirthReports \/ SpecLintDefects \/ SpecBorn
    \/ SpecGate \/ GateReports \/ GateRound \/ GateConflict
    \/ SuiteStage \/ SuiteReports \/ SuiteChecks \/ CommitSuite \/ SuiteCommitted
    \/ Freeze \/ RedStateCheck \/ FreezeSuite

PreSpec == PreInit /\ [][PreNext]_preVars

(* --- properties ---------------------------------------------------------- *)

(* The gate's rounds come to a pass or to the operator within a bound that   *)
(* depends on what there is to find, whatever the spec seat answers.         *)
ConvergesOrAsks == dry <= 2 * Cardinality(Blockers) + 1

(* An operator's ruling on the spec is worked into the document before it is *)
(* judged again and before the stage is left, over every crash in between.   *)
RulingUnheard == \E i \in Seqs("answer", "intent-conflict") : ~SeatReportAfter("spec-birth", i)
RulingReachesTheSpec ==
    [][ (GateReports \/ (stage = "spec-gate" /\ stage' # "spec-gate")) => ~RulingUnheard ]_preVars

(* A frozen suite has executed every supersede the run authorized, at the    *)
(* spec's birth or at its gate.                                              *)
SupersedesAreExecuted ==
    SeqsOf("freeze") # {} => (Authorized => suite.head.amends \/ suite.tree.amends)

(* What the operator rules and what the run authorizes by it is carried out: *)
(* in the spec before the gate reads it, in the suite before it is frozen.   *)
RulingsAreCarriedOut == RulingReachesTheSpec /\ []SupersedesAreExecuted

(* What the documents say of the freeze (docs/adr/0006-pre-freeze-chain.md): *)
(* the suite it freezes fails without the feature.                           *)
FrozenIsRed == \A i \in SeqsOf("freeze") : led[i].suite.red

(* What the documents say of the gate (docs/adr/0019-spec-discipline.md): no *)
(* round judges a document that fails its template.                          *)
NoRoundOnABrokenTemplate == (at.pc = "out" /\ at.seat = "spec-gate") => spec = "clean"
=============================================================================
