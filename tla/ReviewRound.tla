---------------------------- MODULE ReviewRound ----------------------------
(* One review round of a verdict cycle (src/lanes/review.mjs): the panel's   *)
(* seats read the diff side by side, a claim run tries each finding on the   *)
(* suite, one verifier judges every HIGH finding and may ask for replays,    *)
(* and the findings are stamped.  A restart runs the round again from its    *)
(* top, over the reports and stamps the first passage left.                  *)
EXTENDS LaneLedger, SequencesExt

CONSTANTS Panel,        \* the seats of the round, in dispatch order
          Raises(_),    \* what a seat may raise: sets of members of Kinds
          ProbeRounds   \* replays a verifier may buy (PROBE_ROUNDS)

PanelSeats == {Panel[k] : k \in DOMAIN Panel}
CodeVerifier == "fury-verifier"

(* A finding is the seat that raised it and what it is about: HIGH ones on   *)
(* the code or on the suite, and the rest.                                   *)
Kinds == <<"code", "suite", "advisory">>
Finding(seat, kind) == [seat |-> seat, kind |-> kind]

ReviewInit == led = <<>> /\ at = Pc("enter") /\ spent = [answers |-> 0, crashes |-> 0]

(* --- the panel ----------------------------------------------------------- *)

ReportOf(seat) == led[Newest(Seqs("seat-report", seat))]
(* Seeded bug: a seat runs again in every passage. *)
NeverMemoed(seat) == FALSE
Memoed(seat) == Seqs("seat-report", seat) # {} /\ ReportOf(seat).good

SeatState(st, try, limit) == [st |-> st, try |-> try, limit |-> limit]

Round ==
    /\ Enters
    /\ Go([pc |-> "panel",
           seats |-> [s \in PanelSeats |-> IF Memoed(s) THEN SeatState("done", 0, 0)
                                           ELSE SeatState("todo", 1, AttemptLimit(s))]])

With1(seat, state) == [at EXCEPT !.seats[seat] = state]
InPanel(seat, st) == at.pc = "panel" /\ at.seats[seat].st = st
Moves(seat, st) == With1(seat, [at.seats[seat] EXCEPT !.st = st])

SeatSpawned(seat) ==
    /\ InPanel(seat, "todo")
    /\ IF BoughtRetry(seat) THEN StampAndGo(Event("seat-spawned", seat, ""), Moves(seat, "out"))
       ELSE Go(Moves(seat, "out"))

SeatReports(seat) ==
    /\ InPanel(seat, "out")
    /\ \E good \in BOOLEAN : \E found \in IF good THEN Raises(seat) ELSE {{}} :   \* a refused one is not read
          StampAndGo([e |-> "seat-report", of |-> seat, found |-> found, good |-> good], Moves(seat, "reported"))

SeatSilent(seat) ==
    /\ InPanel(seat, "out")
    /\ StampAndGo(Event("seat-failure", seat, "no-report"), Moves(seat, "failed"))

SeatChecked(seat) ==
    /\ InPanel(seat, "reported")
    /\ LET mine == at.seats[seat]
       IN IF ReportOf(seat).good THEN Go(Moves(seat, "done"))
          ELSE IF mine.try < mine.limit
               THEN Go(With1(seat, SeatState("todo", mine.try + 1, mine.limit)))
               ELSE StampAndGo(Event("seat-failure", seat, "defects"), Moves(seat, "failed"))

(* Promise.all: every seat ends, and the first that failed is parked for.    *)
PanelEnds ==
    /\ at.pc = "panel"
    /\ \A s \in PanelSeats : at.seats[s].st \in {"done", "failed"}
    /\ LET failed == {k \in DOMAIN Panel : at.seats[Panel[k]].st = "failed"}
       IN Go(IF failed # {} THEN SeatFail(Panel[Min(failed)]) ELSE Pc("claims"))

(* --- the findings, and the claims on the suite --------------------------- *)

(* Every finding that could be raised, in the order they are collected in.   *)
Possible == FlattenSeq([k \in DOMAIN Panel |-> [n \in DOMAIN Kinds |-> Finding(Panel[k], Kinds[n])]])
Found == [s \in PanelSeats |-> ReportOf(s).found]
VerifiableIn(found) == SelectSeq(Possible, LAMBDA f : f.kind # "advisory" /\ f.kind \in found[f.seat])
AdvisoryIn(found) == SelectSeq(Possible, LAMBDA f : f.kind = "advisory" /\ f.kind \in found[f.seat])
Verifiable == VerifiableIn(Found)
Advisory == AdvisoryIn(Found)

Claims == {i \in DOMAIN Verifiable : Verifiable[i].kind = "suite"}
ClaimResults == {"unproven", "green"}   \* red and unselected are read alike
ClaimStamp(i) == led[Newest(Seqs("claim-run", i))]
ClaimRuns ==
    /\ at.pc = "claims"
    /\ IF \A i \in Claims : Seqs("claim-run", i) # {} THEN Go(Pc("verify"))
       ELSE \E results \in [Claims -> ClaimResults] :
               Go([pc |-> "claiming", left |-> Claims, results |-> results])

(* The claims of one run are stamped one after the other.                    *)
StampClaim ==
    /\ at.pc = "claiming"
    /\ \E i \in at.left :
          /\ \A j \in at.left : i <= j
          /\ StampAndGo([e |-> "claim-run", of |-> i, about |-> Verifiable[i], result |-> at.results[i]],
                        IF at.left = {i} THEN Pc("verify") ELSE [at EXCEPT !.left = @ \ {i}])

(* --- the verifier and its replays ---------------------------------------- *)

(* Seeded bug: the filter of the refused requests, turned round. *)
ReplaysRefused == Cardinality(SeqsOf("probe-refused"))
Replays == Cardinality(SeqsOf("probe-run"))
Budget == IF Replays < ProbeRounds THEN ProbeRounds - Replays ELSE 0

Verify ==
    /\ at.pc = "verify"
    /\ Go(IF Verifiable = <<>> THEN [pc |-> "settle", confirmed |-> {}]
          ELSE [pc |-> "turn", round |-> Replays, try |-> 1,
                limit |-> AttemptLimit(CodeVerifier), bought |-> BoughtRetry(CodeVerifier)])

(* The report path of a turn: its replay round, and -r where it corrects.    *)
Label == 2 * at.round + (IF at.try = 2 \/ at.bought THEN 1 ELSE 0)

VerifierTurn ==
    /\ at.pc = "turn"
    /\ IF ~at.bought /\ Seqs("verifier-report", Label) # {} THEN Go([at EXCEPT !.pc = "judge"])
       ELSE IF BoughtRetry(CodeVerifier)
            THEN StampAndGo(Event("seat-spawned", CodeVerifier, ""), [at EXCEPT !.pc = "judging"])
            ELSE Go([at EXCEPT !.pc = "judging"])

VerifierReports ==
    /\ at.pc = "judging"
    /\ \E probe, covers \in BOOLEAN, confirmed \in SUBSET (DOMAIN Verifiable) :
          /\ (probe /\ Budget > 0) => ~covers                  \* not read: the request is taken first
          /\ ~covers => confirmed = {}
          /\ StampAndGo([e |-> "verifier-report", of |-> Label, probe |-> probe, covers |-> covers,
                         confirmed |-> confirmed, items |-> Verifiable],
                        [at EXCEPT !.pc = "judge"])

VerifierSilent ==
    /\ at.pc = "judging"
    /\ StampAndGo(Event("seat-failure", CodeVerifier, "no-report"), SeatFail(CodeVerifier))

(* A request within the budget is no verdict yet; past it, the report is     *)
(* judged as it stands and the request is stamped once as refused.           *)
Judge ==
    /\ at.pc = "judge"
    /\ LET report == led[Newest(Seqs("verifier-report", Label))]
           settle == [pc |-> "settle", confirmed |-> report.confirmed]
       IN IF report.probe /\ Budget > 0 THEN Go(Pc("replay"))
          ELSE IF report.covers
               THEN IF report.probe /\ SeqsOf("probe-refused") = {}
                    THEN StampAndGo(Event("probe-refused", "", ""), settle)
                    ELSE Go(settle)
          ELSE IF at.try < at.limit THEN Go([at EXCEPT !.pc = "turn", !.try = at.try + 1])
          ELSE StampAndGo(Event("seat-failure", CodeVerifier, "defects"), SeatFail(CodeVerifier))

RunReplay ==
    /\ at.pc = "replay"
    /\ StampAndGo(Event("probe-run", Replays + 1, ""), Pc("verify"))

(* --- the stamps ---------------------------------------------------------- *)

IsConfirmed(i, verdicts) ==
    i \in verdicts /\ ~(i \in Claims /\ ClaimStamp(i).result = "green")

Stamped == {led[i].about : i \in {j \in SeqsOf("finding") : led[j].confirmed}}

(* Findings of this cycle on the ledger are the round's answer; with none,   *)
(* they are stamped one after the other, the HIGH ones first.                *)
Settle ==
    /\ at.pc = "settle"
    /\ Go(IF SeqsOf("finding") # {} THEN [pc |-> "left", confirmed |-> Stamped]
          ELSE [at EXCEPT !.pc = "stamping"])

StampReviewFinding ==
    /\ at.pc = "stamping"
    /\ LET next == Cardinality(SeqsOf("finding")) + 1
           high == next <= Len(Verifiable)
       IN IF next > Len(Verifiable) + Len(Advisory)
          THEN Go([pc |-> "left", confirmed |-> Stamped])
          ELSE StampAndGo([e |-> "finding", of |-> next,
                           about |-> IF high THEN Verifiable[next] ELSE Advisory[next - Len(Verifiable)],
                           confirmed |-> high /\ IsConfirmed(next, at.confirmed)], at)

PanelStep == \E s \in PanelSeats : SeatSpawned(s) \/ SeatReports(s) \/ SeatSilent(s) \/ SeatChecked(s)
LaneStep == \/ Park \/ AbandonGuard
            \/ Round \/ PanelStep \/ PanelEnds
            \/ ClaimRuns \/ StampClaim
            \/ Verify \/ VerifierTurn \/ VerifierReports \/ VerifierSilent \/ Judge \/ RunReplay
            \/ Settle \/ StampReviewFinding
ReviewNext == LaneStep \/ Answer \/ Crash

ReviewSpec == ReviewInit /\ [][ReviewNext]_ledgerVars /\ WF_ledgerVars(LaneStep)

(* --- properties ---------------------------------------------------------- *)

(* Over every crash and retry, a claim and a verdict are about the finding   *)
(* they are read for, though both are kept under a position in a list that   *)
(* is collected anew in every passage.                                       *)
VerdictsAreAboutTheFindings ==
    at.pc \in {"verify", "turn", "judging", "judge", "replay", "settle", "stamping"} =>
        LET raised == Verifiable
        IN /\ \A i \in SeqsOf("claim-run") : led[i].of \in DOMAIN raised /\ led[i].about = raised[led[i].of]
           /\ \A i \in SeqsOf("verifier-report") : led[i].items = raised

(* A finding that stands confirmed is HIGH, and the claim run on the ledger  *)
(* did not prove it wrong, however often the round was run again since; what *)
(* a round returns stands confirmed.                                         *)
ConfirmedStands ==
    /\ \A k \in SeqsOf("finding") : led[k].confirmed =>
          /\ led[k].of \in DOMAIN Verifiable
          /\ led[k].about = Verifiable[led[k].of]
          /\ led[k].of \in Claims => ClaimStamp(led[k].of).result # "green"
    /\ at.pc = "left" => at.confirmed \subseteq Stamped

(* A finding becomes confirmed by a report that saw all of the round's       *)
(* findings and confirmed this one.  A later report may say otherwise: a     *)
(* resumed round asks again, and leaves over what is stamped.                *)
ConfirmedByAReport ==
    \A k \in DOMAIN led' :
        /\ led'[k] \notin Range(led)
        /\ led'[k].e = "finding"
        /\ led'[k].confirmed
        => \E r \in SeqsOf("verifier-report") : led[r].covers /\ led'[k].of \in led[r].confirmed

(* What a round returns was raised, was judged as it was raised, and stood   *)
(* the judgment.                                                             *)
JudgedAsRaised == /\ [](VerdictsAreAboutTheFindings /\ ConfirmedStands)
                  /\ [][ConfirmedByAReport]_ledgerVars

(* Whatever the verifier keeps asking for, the round comes to its findings   *)
(* or to the operator.                                                       *)
RoundEnds == []<>(at.pc \in {"parked", "closed", "left"})

(* What the comment at src/lanes/review.mjs:1094 says of a round resumed     *)
(* over its stamps: what the verifier confirmed is what the round returns.   *)
NoConfirmedFindingIsLost ==
    at.pc = "left" => \A r \in SeqsOf("verifier-report") :
        (led[r].of = Max({led[k].of : k \in SeqsOf("verifier-report")})) =>
            \A i \in led[r].confirmed : IsConfirmed(i, led[r].confirmed) => Verifiable[i] \in at.confirmed
=============================================================================
