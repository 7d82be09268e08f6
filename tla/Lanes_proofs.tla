---------------------------- MODULE Lanes_proofs ----------------------------
(***************************************************************************)
(* What holds of the story lane's loops over one ledger.  First a review   *)
(* round: for every panel, whatever its seats raise and its verifier asks  *)
(* for.  Then the verdict's ladder: for every cap and every judgment of    *)
(* the triage.  Then the gate before the freeze: for every set of findings *)
(* its rounds may raise.  All over any number of crashes, answers and      *)
(* retries.                                                                *)
(***************************************************************************)
EXTENDS ReviewRound, VerdictLoop, PreFreeze, LaneLedger_proofs

---------------------------------------------------------------------------
(* The ledger.  No two events of a ledger have one key, so what a handler    *)
(* reads as the newest event of a kind is the only one.                      *)

Tidy(ledger) == /\ ledger \in Seq(Range(ledger))
                /\ \A i, j \in DOMAIN ledger : Key(ledger[i]) = Key(ledger[j]) => i = j
Plain(event) == "nth" \notin DOMAIN event
TidyLedger == Tidy(led) /\ \A x \in Range(led) : Plain(x)

(* The events of a kind. *)
All(kind) == {x \in Range(led) : x.e = kind}

LEMMA KeyIs ==
  ASSUME NEW x, NEW y, Plain(x), Plain(y)
  PROVE  /\ x.e = y.e /\ x.of = y.of /\ x.e # "park" => Key(x) = Key(y)
         /\ Key(x) = Key(y) => x.e = y.e /\ x.of = y.of
BY DEF Plain, Key

LEMMA MaxOfOne ==
  ASSUME NEW i \in Nat
  PROVE  Max({i}) = i /\ Max({i} \union {0}) = i
<1>1. \A a \in {i} : i >= a
  OBVIOUS
<1>2. \A a \in {i} \union {0} : i >= a
  OBVIOUS
<1>3. \A m \in {i} \union {0} : (\A a \in {i} \union {0} : m >= a) => m = i
  OBVIOUS
<1> QED
  BY <1>1, <1>2, <1>3 DEF Max

(* A stamp takes the older event of its key out and puts itself behind the   *)
(* rest.                                                                     *)
LEMMA WithIs ==
  ASSUME NEW l, Tidy(l), NEW x
  PROVE  /\ Tidy(With(l, x))
         /\ Range(With(l, x)) = {y \in Range(l) : Key(y) # Key(x)} \cup {x}
<1> DEFINE S == Range(l) \cup {x}
           same == Same(l, x)
           rest == Without(l, same)
<1>1. l \in Seq(S) /\ DOMAIN l = 1..Len(l) /\ Len(l) \in Nat
  BY DEF Tidy
<1>2. /\ rest \in Seq(S)
      /\ \A i, j \in DOMAIN rest : Key(rest[i]) = Key(rest[j]) => i = j
      /\ Range(rest) = {y \in Range(l) : Key(y) # Key(x)}
  <2>1. CASE same = {}
    BY <1>1, <2>1 DEF Without, Same, Tidy, Range
  <2>2. CASE same # {}
    <3>1. PICK i \in DOMAIN l : Key(l[i]) = Key(x)
      BY <2>2 DEF Same
    <3>2. same = {i}
      BY <3>1 DEF Same, Tidy
    <3>3. i \in Nat /\ Max(same) = i
      <4>1. i \in Nat
        BY <3>1, <1>1
      <4>2. Max({i}) = i
        BY <4>1, MaxOfOne
      <4> QED
        BY <4>1, <4>2, <3>2
    <3>4. rest = SubSeq(l, 1, i - 1) \o SubSeq(l, i + 1, Len(l))
      BY <2>2, <3>3 DEF Without
    <3>5. /\ rest \in Seq(S) /\ Len(rest) = Len(l) - 1
          /\ \A k \in 1..(Len(l) - 1) : rest[k] = l[IF k < i THEN k ELSE k + 1]
      BY <3>1, <3>4, <1>1, CutIs
    <3> HIDE DEF rest, same
    <3>6. DOMAIN rest = 1..(Len(l) - 1)
      BY <3>5, <1>1
    <3>7. \A j, k \in DOMAIN rest : Key(rest[j]) = Key(rest[k]) => j = k
      <4> SUFFICES ASSUME NEW j \in DOMAIN rest, NEW k \in DOMAIN rest, Key(rest[j]) = Key(rest[k])
                   PROVE  j = k
        OBVIOUS
      <4> DEFINE a == IF j < i THEN j ELSE j + 1
                 b == IF k < i THEN k ELSE k + 1
      <4>1. a \in DOMAIN l /\ b \in DOMAIN l /\ rest[j] = l[a] /\ rest[k] = l[b]
        BY <3>1, <3>5, <3>6, <1>1
      <4>2. a = b
        BY <4>1 DEF Tidy
      <4> QED
        BY <4>2, <3>6, <3>1, <1>1
    <3>8. Range(rest) = {y \in Range(l) : Key(y) # Key(x)}
      <4>1. ASSUME NEW k \in DOMAIN rest
            PROVE  rest[k] \in Range(l) /\ Key(rest[k]) # Key(x)
        <5> DEFINE b == IF k < i THEN k ELSE k + 1
        <5>1. b \in DOMAIN l /\ rest[k] = l[b] /\ b # i
          BY <3>1, <3>5, <3>6, <1>1
        <5> HIDE DEF b
        <5> QED
          BY <5>1, <3>1 DEF Tidy, Range
      <4>2. ASSUME NEW j \in DOMAIN l, Key(l[j]) # Key(x)
            PROVE  l[j] \in Range(rest)
        <5> DEFINE k == IF j < i THEN j ELSE j - 1
        <5>1. j # i
          BY <4>2, <3>1
        <5>2. k \in DOMAIN rest /\ (IF k < i THEN k ELSE k + 1) = j
          BY <5>1, <3>1, <3>6, <1>1
        <5>3. rest[k] = l[j]
          BY <5>2, <3>5, <3>6
        <5> QED
          BY <5>2, <5>3 DEF Range
      <4> QED
        BY <4>1, <4>2 DEF Range
    <3> QED
      BY <3>5, <3>7, <3>8
  <2> QED
    BY <2>1, <2>2
<1> HIDE DEF rest, same
<1>3. With(l, x) = Append(rest, x)
  BY DEF With, rest, same
<1>4. /\ Append(rest, x) \in Seq(S) /\ DOMAIN Append(rest, x) = 1..(Len(rest) + 1) /\ Len(rest) \in Nat
      /\ DOMAIN rest = 1..Len(rest)
      /\ Append(rest, x)[Len(rest) + 1] = x
      /\ \A k \in DOMAIN rest : Append(rest, x)[k] = rest[k]
  BY <1>2
<1>5. Range(With(l, x)) = Range(rest) \cup {x}
  BY <1>3, <1>4 DEF Range
<1>6. \A k \in DOMAIN rest : Key(rest[k]) # Key(x)
  BY <1>2 DEF Range
<1>7. \A i, j \in DOMAIN With(l, x) : Key(With(l, x)[i]) = Key(With(l, x)[j]) => i = j
  <2> DEFINE w == With(l, x)
  <2>1. \A i \in DOMAIN w : (i \in DOMAIN rest /\ w[i] = rest[i]) \/ (i = Len(rest) + 1 /\ w[i] = x)
    BY <1>3, <1>4
  <2> HIDE DEF w
  <2>2. \A i, j \in DOMAIN w : Key(w[i]) = Key(w[j]) => i = j
    BY <2>1, <1>2, <1>6
  <2> QED
    BY <2>2 DEF w
<1>8. With(l, x) \in Seq(Range(With(l, x)))
  BY <1>3, <1>4 DEF Range
<1> QED
  BY <1>2, <1>5, <1>7, <1>8 DEF Tidy

(* What is read of a kind is read of the set of its events.                  *)
Reads ==
  \A kind, of : kind # "park" =>
    /\ Seqs(kind, of) # {} <=> \E x \in All(kind) : x.of = of
    /\ \A x \in All(kind) : x.of = of => led[Newest(Seqs(kind, of))] = x
    /\ SeqsOf(kind) # {} <=> All(kind) # {}

LEMMA LedgerReads == TidyLedger => Reads
<1> SUFFICES ASSUME TidyLedger, NEW kind, kind # "park", NEW of
             PROVE  /\ Seqs(kind, of) # {} <=> \E x \in All(kind) : x.of = of
                    /\ \A x \in All(kind) : x.of = of => led[Newest(Seqs(kind, of))] = x
                    /\ SeqsOf(kind) # {} <=> All(kind) # {}
  BY DEF Reads
<1>1. Seqs(kind, of) # {} <=> \E x \in All(kind) : x.of = of
  BY DEF Seqs, All, Range
<1>2. SeqsOf(kind) # {} <=> All(kind) # {}
  BY DEF SeqsOf, All, Range
<1>3. ASSUME NEW x \in All(kind), x.of = of
      PROVE  led[Newest(Seqs(kind, of))] = x
  <2>1. PICK i \in DOMAIN led : led[i] = x
    BY <1>3 DEF All, Range
  <2>2. i \in Nat
    BY <2>1 DEF TidyLedger, Tidy
  <2>3. x.e = kind /\ Plain(x)
    BY <1>3 DEF All, TidyLedger
  <2>4. ASSUME NEW j \in Seqs(kind, of)
        PROVE  j = i
    <3>1. j \in DOMAIN led /\ led[j].e = kind /\ led[j].of = of /\ Plain(led[j])
      BY <2>4 DEF Seqs, TidyLedger, Range
    <3>2. Key(led[j]) = Key(x)
      BY <3>1, <2>3, <1>3, KeyIs
    <3> QED
      BY <3>1, <3>2, <2>1 DEF TidyLedger, Tidy
  <2>5. Seqs(kind, of) = {i}
    BY <2>1, <2>3, <2>4, <1>3 DEF Seqs
  <2> QED
    BY <2>1, <2>2, <2>5, MaxOfOne DEF Newest
<1> QED
  BY <1>1, <1>2, <1>3

LEMMA LedgerReadsNext == TidyLedger' => Reads'
BY LedgerReads, PTL

(* A stamp of one kind leaves the other kinds alone, and within its kind     *)
(* replaces what speaks of the same.                                         *)
LEMMA StampIs ==
  ASSUME TidyLedger, NEW x, Plain(x), Stamp(x)
  PROVE  /\ TidyLedger'
         /\ \A y \in Range(led') : y = x \/ y \in Range(led)
         /\ \A kind : kind # x.e => All(kind)' = All(kind)
         /\ x.e # "park" => All(x.e)' = {y \in All(x.e) : y.of # x.of} \cup {x}
<1>1. led' = With(led, x)
  BY DEF Stamp
<1>2. Tidy(led)' /\ Range(led') = {y \in Range(led) : Key(y) # Key(x)} \cup {x}
  BY <1>1, WithIs DEF TidyLedger, Tidy
<1>3. \A y \in Range(led) : Plain(y)
  BY DEF TidyLedger
<1>4. \A y \in Range(led) : y.e # x.e => Key(y) # Key(x)
  BY <1>3, KeyIs
<1>5. \A y \in Range(led) : y.e = x.e /\ x.e # "park" => (Key(y) # Key(x) <=> y.of # x.of)
  BY <1>3, KeyIs
<1>6. \A kind : kind # x.e => All(kind)' = All(kind)
  BY <1>2, <1>4 DEF All
<1>7. x.e # "park" => All(x.e)' = {y \in All(x.e) : y.of # x.of} \cup {x}
  BY <1>2, <1>5 DEF All
<1> QED
  BY <1>2, <1>3, <1>6, <1>7 DEF TidyLedger

LEMMA GoKeeps ==
  ASSUME TidyLedger, UNCHANGED led
  PROVE  TidyLedger' /\ Range(led') = Range(led) /\ \A kind : All(kind)' = All(kind)
BY DEF TidyLedger, Tidy, All

---------------------------------------------------------------------------
(* The invariant.  Once a claim, a verdict or a finding is on the ledger     *)
(* every seat of the panel has a report that is read, none of them runs      *)
(* again, and so the list the passages collect is one list.                  *)

Whole == \A s \in PanelSeats : Memoed(s)
ClaimsAreRun == \A i \in Claims : Seqs("claim-run", i) # {}

BehindTheClaims == {"verify", "turn", "judging", "judge", "replay", "settle", "stamping"}
BehindThePanel == {"claims", "claiming"} \cup BehindTheClaims

Stands(x) == /\ x.of \in DOMAIN Verifiable
             /\ x.about = Verifiable[x.of]
             /\ x.of \in Claims => ClaimStamp(x.of).result # "green"

Judged == All("claim-run") # {} \/ All("verifier-report") # {} \/ All("finding") # {}
RecordIsOfThePanel ==
  Judged =>
    /\ Whole
    /\ \A x \in All("claim-run") : x.of \in DOMAIN Verifiable /\ x.about = Verifiable[x.of]
    /\ \A x \in All("verifier-report") : x.items = Verifiable /\ x.confirmed \subseteq DOMAIN Verifiable
    /\ All("finding") # {} => ClaimsAreRun
    /\ \A x \in All("finding") : x.confirmed => Stands(x)

SeatStates == [st : {"todo", "out", "reported", "done", "failed"}, try : Nat, limit : Nat]
PanelRuns ==
  at.pc = "panel" =>
    /\ at \in [pc : {"panel"}, seats : [PanelSeats -> SeatStates]]
    /\ \A s \in PanelSeats :
          /\ Memoed(s) => at.seats[s].st \in {"reported", "done"}
          /\ at.seats[s].st = "done" => Memoed(s)
          /\ at.seats[s].st = "reported" => Seqs("seat-report", s) # {}

ClaimsRun ==
  at.pc = "claiming" =>
    /\ at = [pc |-> "claiming", left |-> at.left, results |-> at.results]
    /\ at.left \subseteq Claims /\ at.left # {}
    /\ All("finding") = {}
    /\ \A i \in Claims \ at.left : Seqs("claim-run", i) # {}

VerifierRuns ==
  at.pc \in {"turn", "judging", "judge"} =>
    /\ at = [pc |-> at.pc, round |-> at.round, try |-> at.try, limit |-> at.limit, bought |-> at.bought]
    /\ at.pc = "judge" => Seqs("verifier-report", Label) # {}

RoundSettles ==
  at.pc \in {"settle", "stamping"} =>
    /\ at = [pc |-> at.pc, confirmed |-> at.confirmed]
    /\ \A i \in at.confirmed : \E r \in All("verifier-report") : r.covers /\ i \in r.confirmed

InPlace ==
  /\ at.pc \in BehindThePanel => Whole
  /\ at.pc \in BehindTheClaims => ClaimsAreRun
  /\ PanelRuns /\ ClaimsRun /\ VerifierRuns /\ RoundSettles
  /\ at.pc = "left" => at.confirmed \subseteq Stamped

RoundInv == TidyLedger /\ RecordIsOfThePanel /\ InPlace

---------------------------------------------------------------------------
(* What is read stays read. *)

Kinds4 == {"seat-report", "claim-run", "verifier-report", "finding"}
PanelKept == TidyLedger' /\ \A kind \in Kinds4 : All(kind)' = All(kind)

LEMMA EventIs ==
  ASSUME NEW e, NEW of, NEW why
  PROVE  Plain(Event(e, of, why)) /\ Event(e, of, why).e = e /\ Event(e, of, why).of = of
BY DEF Plain, Event

(* A report that is memoed is the seat's report. *)
ReportsRead ==
  \A s : /\ Memoed(s) <=> \E x \in All("seat-report") : x.of = s /\ x.good
         /\ Memoed(s) <=> Seqs("seat-report", s) # {} /\ ReportOf(s).good
         /\ Seqs("seat-report", s) # {} <=> \E x \in All("seat-report") : x.of = s
         /\ \A x \in All("seat-report") : x.of = s => ReportOf(s) = x

LEMMA LedgerReadsReports == TidyLedger => ReportsRead
<1> SUFFICES ASSUME TidyLedger, NEW s
             PROVE  /\ Memoed(s) <=> \E x \in All("seat-report") : x.of = s /\ x.good
                    /\ Memoed(s) <=> Seqs("seat-report", s) # {} /\ ReportOf(s).good
                    /\ Seqs("seat-report", s) # {} <=> \E x \in All("seat-report") : x.of = s
                    /\ \A x \in All("seat-report") : x.of = s => ReportOf(s) = x
  BY DEF ReportsRead
<1>1. Seqs("seat-report", s) # {} <=> \E x \in All("seat-report") : x.of = s
  BY LedgerReads DEF Reads
<1>2. \A x \in All("seat-report") : x.of = s => ReportOf(s) = x
  BY LedgerReads DEF ReportOf, Reads
<1> QED
  BY <1>1, <1>2 DEF Memoed

LEMMA LedgerReadsReportsNext == TidyLedger' => ReportsRead'
BY LedgerReadsReports, PTL

(* The same reports make the same list of findings. *)
SameReports == /\ \A s : Memoed(s)' <=> Memoed(s)
               /\ \A s : Seqs("seat-report", s)' # {} <=> Seqs("seat-report", s) # {}
               /\ Whole' <=> Whole
               /\ Whole => Verifiable' = Verifiable /\ Claims' = Claims

LEMMA ReportsStay ==
  ASSUME TidyLedger, TidyLedger', All("seat-report")' = All("seat-report")
  PROVE  SameReports
<1>1. ReportsRead /\ ReportsRead'
  BY LedgerReadsReports, LedgerReadsReportsNext
<1>2. \A s : Memoed(s)' <=> Memoed(s)
  BY <1>1 DEF ReportsRead
<1>3. \A s : Seqs("seat-report", s)' # {} <=> Seqs("seat-report", s) # {}
  BY <1>1 DEF ReportsRead
<1>4. Whole' <=> Whole
  BY <1>2 DEF Whole
<1>5. ASSUME Whole
      PROVE  Verifiable' = Verifiable /\ Claims' = Claims
  <2>1. ASSUME NEW s \in PanelSeats
        PROVE  ReportOf(s)' = ReportOf(s)
    <3>1. PICK x \in All("seat-report") : x.of = s
      BY <1>1, <1>5 DEF Whole, ReportsRead
    <3>2. ReportOf(s) = x
      BY <3>1, <1>1 DEF ReportsRead
    <3>3. ReportOf(s)' = x
      BY <3>1, <1>1 DEF ReportsRead
    <3> QED
      BY <3>2, <3>3
  <2>2. Found' = Found
    BY <2>1 DEF Found
  <2>3. Verifiable' = Verifiable
    BY <2>2 DEF Verifiable
  <2> QED
    BY <2>3 DEF Claims
<1> QED
  BY <1>2, <1>3, <1>4, <1>5 DEF SameReports

(* A claim's stamp is the one on the ledger. *)
LEMMA ClaimsStay ==
  ASSUME TidyLedger, TidyLedger', NEW i, \A x : x.of = i => (x \in All("claim-run")' <=> x \in All("claim-run"))
  PROVE  /\ Seqs("claim-run", i)' # {} <=> Seqs("claim-run", i) # {}
         /\ Seqs("claim-run", i) # {} => ClaimStamp(i)' = ClaimStamp(i)
<1>1. Reads /\ Reads'
  BY LedgerReads, LedgerReadsNext
<1>2. Seqs("claim-run", i)' # {} <=> \E x \in All("claim-run")' : x.of = i
  BY <1>1 DEF Reads
<1>3. Seqs("claim-run", i) # {} <=> \E x \in All("claim-run") : x.of = i
  BY <1>1 DEF Reads
<1>4. ASSUME Seqs("claim-run", i) # {}
      PROVE  ClaimStamp(i)' = ClaimStamp(i)
  <2>1. PICK x \in All("claim-run") : x.of = i
    BY <1>3, <1>4
  <2>2. ClaimStamp(i) = x
    BY <1>1, <2>1 DEF Reads, ClaimStamp
  <2>3. ClaimStamp(i)' = x
    BY <1>1, <2>1 DEF Reads, ClaimStamp
  <2> QED
    BY <2>2, <2>3
<1> QED
  BY <1>2, <1>3, <1>4

LEMMA VerdictsStay ==
  ASSUME TidyLedger, TidyLedger', NEW v, \E x \in All("verifier-report")' : x.of = v
  PROVE  Seqs("verifier-report", v)' # {}
BY LedgerReadsNext DEF Reads

(* A step that stamps none of the four kinds.                                *)
PanelHeld == /\ RecordIsOfThePanel'
             /\ SameReports
             /\ All("verifier-report")' = All("verifier-report")
             /\ All("finding")' = All("finding")
             /\ \A i : Seqs("claim-run", i)' # {} <=> Seqs("claim-run", i) # {}
             /\ \A v : Seqs("verifier-report", v)' # {} <=> Seqs("verifier-report", v) # {}
             /\ Whole => (ClaimsAreRun' <=> ClaimsAreRun)

LEMMA QuietKeeps ==
  ASSUME TidyLedger, RecordIsOfThePanel, PanelKept
  PROVE  PanelHeld
<1>1. TidyLedger' /\ All("seat-report")' = All("seat-report") /\ All("claim-run")' = All("claim-run")
      /\ All("verifier-report")' = All("verifier-report") /\ All("finding")' = All("finding")
  BY DEF PanelKept, Kinds4
<1>2. SameReports
  BY <1>1, ReportsStay
<1>3. \A i : /\ Seqs("claim-run", i)' # {} <=> Seqs("claim-run", i) # {}
             /\ Seqs("claim-run", i) # {} => ClaimStamp(i)' = ClaimStamp(i)
  BY <1>1, ClaimsStay
<1>4. \A v : Seqs("verifier-report", v)' # {} <=> Seqs("verifier-report", v) # {}
  BY <1>1, LedgerReads, LedgerReadsNext DEF Reads
<1>5. Whole => (ClaimsAreRun' <=> ClaimsAreRun)
  BY <1>2, <1>3 DEF SameReports, ClaimsAreRun
<1>6. RecordIsOfThePanel'
  <2> SUFFICES ASSUME Judged'
               PROVE  /\ Whole'
                      /\ \A x \in All("claim-run")' : x.of \in DOMAIN Verifiable' /\ x.about = Verifiable'[x.of]
                      /\ \A x \in All("verifier-report")' : x.items = Verifiable' /\ x.confirmed \subseteq DOMAIN Verifiable'
                      /\ All("finding")' # {} => ClaimsAreRun'
                      /\ \A x \in All("finding")' : x.confirmed => Stands(x)'
    BY DEF RecordIsOfThePanel
  <2>1. Judged
    BY <1>1 DEF Judged
  <2>2. Whole /\ Whole' /\ Verifiable' = Verifiable /\ Claims' = Claims
    BY <2>1, <1>2 DEF RecordIsOfThePanel, SameReports
  <2>3. ASSUME NEW x \in All("finding"), x.confirmed
        PROVE  Stands(x)'
    <3>1. Stands(x) /\ ClaimsAreRun
      BY <2>1, <2>3 DEF RecordIsOfThePanel
    <3>2. x.of \in Claims => ClaimStamp(x.of)' = ClaimStamp(x.of)
      BY <3>1, <1>3 DEF ClaimsAreRun
    <3> QED
      BY <3>1, <3>2, <2>2 DEF Stands
  <2>4. All("finding")' # {} => ClaimsAreRun'
    BY <2>1, <2>2, <1>1, <1>5 DEF RecordIsOfThePanel
  <2> QED
    BY <2>1, <2>2, <2>3, <2>4, <1>1 DEF RecordIsOfThePanel
<1> QED
  BY <1>1, <1>2, <1>3, <1>4, <1>5, <1>6 DEF PanelHeld

(* A step that stamps nothing, and one that stamps what no judgment reads.   *)
LEMMA GoIsQuiet ==
  ASSUME TidyLedger, UNCHANGED led
  PROVE  PanelKept /\ ConfirmedByAReport
BY GoKeeps DEF PanelKept, ConfirmedByAReport, Range

LEMMA StampIsQuiet ==
  ASSUME TidyLedger, NEW x, Plain(x), Stamp(x), x.e \notin Kinds4
  PROVE  PanelKept /\ ConfirmedByAReport
<1>1. PanelKept
  BY StampIs DEF PanelKept
<1>2. \A k \in DOMAIN led' : led'[k] = x \/ led'[k] \in Range(led)
  BY StampIs DEF Range
<1> QED
  BY <1>1, <1>2 DEF ConfirmedByAReport, Kinds4

(* Where the invariant says nothing of a place. *)
LEMMA Elsewhere ==
  ASSUME at'.pc \notin BehindThePanel \cup {"panel", "left"}
  PROVE  InPlace'
BY DEF InPlace, BehindThePanel, BehindTheClaims, PanelRuns, ClaimsRun, VerifierRuns, RoundSettles

LEMMA QuietElsewhere ==
  ASSUME RoundInv, PanelKept, at'.pc \notin BehindThePanel \cup {"panel", "left"}
  PROVE  RoundInv'
BY QuietKeeps, Elsewhere DEF RoundInv, PanelKept, PanelHeld

(* A recovery park, or the close of a run that was abandoned. *)
LEMMA SeatFailIs ==
  ASSUME NEW s
  PROVE  SeatFail(s).pc \in {"ask", "closed"}
BY DEF SeatFail, Recover, Ask, Pc

LEMMA AskIs ==
  ASSUME RoundInv, Park \/ Answer \/ Crash \/ AbandonGuard
  PROVE  RoundInv' /\ ConfirmedByAReport
<1>1. CASE Park
  <2> DEFINE x == Event("park", at.type, at.why)
  <2>1. Stamp(x) /\ at' = Pc("parked")
    BY <1>1 DEF Park, StampAndGo
  <2>2. Plain(x) /\ x.e = "park"
    BY EventIs
  <2> HIDE DEF x
  <2>3. PanelKept /\ ConfirmedByAReport
    BY <2>1, <2>2, StampIsQuiet DEF RoundInv, Kinds4
  <2> QED
    BY <2>1, <2>3, QuietElsewhere DEF Pc, BehindThePanel, BehindTheClaims
<1>2. CASE Answer
  <2>1. PICK option : Stamp(Event("answer", led[LastPark].of, option))
    BY <1>2 DEF Answer
  <2> DEFINE x == Event("answer", led[LastPark].of, option)
  <2>2. Stamp(x) /\ at' = Pc("enter")
    BY <1>2, <2>1 DEF Answer
  <2>3. Plain(x) /\ x.e = "answer"
    BY EventIs
  <2> HIDE DEF x
  <2>4. PanelKept /\ ConfirmedByAReport
    BY <2>2, <2>3, StampIsQuiet DEF RoundInv, Kinds4
  <2> QED
    BY <2>2, <2>4, QuietElsewhere DEF Pc, BehindThePanel, BehindTheClaims
<1>3. CASE Crash \/ AbandonGuard
  <2>1. UNCHANGED led /\ at'.pc \in {"enter", "closed"}
    BY <1>3 DEF Crash, AbandonGuard, Go, Pc
  <2>2. PanelKept /\ ConfirmedByAReport
    BY <2>1, GoIsQuiet DEF RoundInv
  <2> QED
    BY <2>1, <2>2, QuietElsewhere DEF BehindThePanel, BehindTheClaims
<1> QED
  BY <1>1, <1>2, <1>3

---------------------------------------------------------------------------
(* The panel. *)

LEMMA LimitIs ==
  ASSUME NEW s
  PROVE  AttemptLimit(s) \in Nat
BY DEF AttemptLimit

(* In the panel nothing is behind it, and nothing of the other places. *)
LEMMA InThePanel ==
  ASSUME at'.pc = "panel", PanelRuns'
  PROVE  InPlace'
BY DEF InPlace, BehindThePanel, BehindTheClaims, ClaimsRun, VerifierRuns, RoundSettles

LEMMA RoundKeeps ==
  ASSUME RoundInv, Round
  PROVE  RoundInv' /\ ConfirmedByAReport
<1>1. UNCHANGED led /\ at' = [pc |-> "panel", seats |-> [s \in PanelSeats |->
          IF Memoed(s) THEN SeatState("done", 0, 0) ELSE SeatState("todo", 1, AttemptLimit(s))]]
  BY DEF Round, Go
<1>2. PanelKept /\ ConfirmedByAReport
  BY <1>1, GoIsQuiet DEF RoundInv
<1>3. PanelHeld
  BY <1>2, QuietKeeps DEF RoundInv
<1>4. \A s \in PanelSeats : at'.seats[s] = IF Memoed(s) THEN SeatState("done", 0, 0)
                                            ELSE SeatState("todo", 1, AttemptLimit(s))
  BY <1>1
<1>5. \A s \in PanelSeats : SeatState("done", 0, 0) \in SeatStates /\ SeatState("todo", 1, AttemptLimit(s)) \in SeatStates
  BY LimitIs DEF SeatState, SeatStates
<1>6. at' \in [pc : {"panel"}, seats : [PanelSeats -> SeatStates]]
  BY <1>1, <1>5
<1>7. ASSUME NEW s \in PanelSeats
      PROVE  /\ Memoed(s)' => at'.seats[s].st = "done"
             /\ ~Memoed(s)' => at'.seats[s].st = "todo"
  <2>1. Memoed(s)' <=> Memoed(s)
    BY <1>3 DEF PanelHeld, SameReports
  <2>2. CASE Memoed(s)
    <3>1. at'.seats[s] = SeatState("done", 0, 0)
      BY <1>4, <2>2
    <3> QED
      BY <3>1, <2>1, <2>2 DEF SeatState
  <2>3. CASE ~Memoed(s)
    <3>1. at'.seats[s] = SeatState("todo", 1, AttemptLimit(s))
      BY <1>4, <2>3
    <3> QED
      BY <3>1, <2>1, <2>3 DEF SeatState
  <2> QED
    BY <2>2, <2>3
<1>8. PanelRuns'
  BY <1>6, <1>7 DEF PanelRuns
<1> QED
  BY <1>1, <1>2, <1>3, <1>8, InThePanel DEF RoundInv, PanelKept, PanelHeld

(* A seat that moves. *)
LEMMA SeatMoves ==
  ASSUME RoundInv, at.pc = "panel", NEW s \in PanelSeats, NEW state \in SeatStates, at' = With1(s, state)
  PROVE  /\ at'.pc = "panel" /\ at' \in [pc : {"panel"}, seats : [PanelSeats -> SeatStates]]
         /\ at'.seats[s] = state
         /\ \A t \in PanelSeats : t # s => at'.seats[t] = at.seats[t]
BY DEF RoundInv, InPlace, PanelRuns, With1

LEMMA SeatMovesQuietly ==
  ASSUME RoundInv, PanelKept, at.pc = "panel", NEW s \in PanelSeats, NEW state \in SeatStates, at' = With1(s, state),
         Memoed(s) => state.st \in {"reported", "done"}, state.st = "done" => Memoed(s),
         state.st # "reported"
  PROVE  RoundInv'
<1>1. PanelHeld
  BY QuietKeeps DEF RoundInv
<1>2. /\ at'.pc = "panel" /\ at' \in [pc : {"panel"}, seats : [PanelSeats -> SeatStates]]
      /\ at'.seats[s] = state
      /\ \A t \in PanelSeats : t # s => at'.seats[t] = at.seats[t]
  BY SeatMoves
<1>3. ASSUME NEW t \in PanelSeats
      PROVE  /\ Memoed(t)' => at'.seats[t].st \in {"reported", "done"}
             /\ at'.seats[t].st = "done" => Memoed(t)'
             /\ at'.seats[t].st = "reported" => Seqs("seat-report", t)' # {}
  <2>1. CASE t = s
    BY <2>1, <1>1, <1>2 DEF PanelHeld, SameReports
  <2>2. CASE t # s
    BY <2>2, <1>1, <1>2 DEF PanelHeld, SameReports, RoundInv, InPlace, PanelRuns
  <2> QED
    BY <2>1, <2>2
<1>4. PanelRuns'
  BY <1>2, <1>3 DEF PanelRuns
<1> QED
  BY <1>1, <1>2, <1>4, InThePanel DEF RoundInv, PanelKept, PanelHeld

LEMMA SeatIs ==
  ASSUME RoundInv, NEW s \in PanelSeats, NEW st, InPanel(s, st)
  PROVE  /\ at.pc = "panel" /\ at.seats[s] \in SeatStates /\ at.seats[s].st = st
         /\ Memoed(s) => st \in {"reported", "done"}
         /\ \A to \in {"todo", "out", "reported", "done", "failed"} :
               /\ [at.seats[s] EXCEPT !.st = to] \in SeatStates
               /\ [at.seats[s] EXCEPT !.st = to].st = to
<1>1. at.pc = "panel" /\ at.seats[s].st = st
  BY DEF InPanel
<1>2. at.seats[s] \in SeatStates /\ (Memoed(s) => st \in {"reported", "done"})
  BY <1>1 DEF RoundInv, InPlace, PanelRuns
<1>3. \A to \in {"todo", "out", "reported", "done", "failed"} :
         [at.seats[s] EXCEPT !.st = to] \in SeatStates /\ [at.seats[s] EXCEPT !.st = to].st = to
  BY <1>2 DEF SeatStates
<1> QED
  BY <1>1, <1>2, <1>3

LEMMA SpawnKeeps ==
  ASSUME RoundInv, NEW s \in PanelSeats, SeatSpawned(s) \/ SeatSilent(s)
  PROVE  RoundInv' /\ ConfirmedByAReport
<1> DEFINE to == IF SeatSpawned(s) THEN "out" ELSE "failed"
           state == [at.seats[s] EXCEPT !.st = to]
<1>1. InPanel(s, "todo") \/ InPanel(s, "out")
  BY DEF SeatSpawned, SeatSilent
<1>2. at.pc = "panel" /\ ~Memoed(s) /\ state \in SeatStates /\ state.st = to
  BY <1>1, SeatIs
<1>3. /\ Plain(Event("seat-spawned", s, "")) /\ Event("seat-spawned", s, "").e = "seat-spawned"
      /\ Plain(Event("seat-failure", s, "no-report")) /\ Event("seat-failure", s, "no-report").e = "seat-failure"
  BY DEF Plain, Event
<1>4. PanelKept /\ ConfirmedByAReport /\ at' = With1(s, state)
  <2>1. CASE SeatSpawned(s) /\ BoughtRetry(s)
    <3>1. Stamp(Event("seat-spawned", s, "")) /\ at' = With1(s, state)
      BY <2>1 DEF SeatSpawned, StampAndGo, Moves
    <3> QED
      BY <3>1, <1>3, StampIsQuiet DEF RoundInv, Kinds4
  <2>2. CASE SeatSpawned(s) /\ ~BoughtRetry(s)
    <3>1. UNCHANGED led /\ at' = With1(s, state)
      BY <2>2 DEF SeatSpawned, Go, Moves
    <3> QED
      BY <3>1, GoIsQuiet DEF RoundInv
  <2>3. CASE SeatSilent(s) /\ ~SeatSpawned(s)
    <3>1. Stamp(Event("seat-failure", s, "no-report")) /\ at' = With1(s, state)
      BY <2>3 DEF SeatSilent, StampAndGo, Moves
    <3> QED
      BY <3>1, <1>3, StampIsQuiet DEF RoundInv, Kinds4
  <2> QED
    BY <2>1, <2>2, <2>3
<1> HIDE DEF state
<1> QED
  BY <1>2, <1>4, SeatMovesQuietly

LEMMA CheckKeeps ==
  ASSUME RoundInv, NEW s \in PanelSeats, SeatChecked(s)
  PROVE  RoundInv' /\ ConfirmedByAReport
<1>1. InPanel(s, "reported")
  BY DEF SeatChecked
<1>2. at.pc = "panel" /\ at.seats[s] \in SeatStates /\ Seqs("seat-report", s) # {}
  BY <1>1, SeatIs DEF RoundInv, InPlace, PanelRuns
<1>3. Memoed(s) <=> ReportOf(s).good
  BY <1>2 DEF Memoed
<1>4. PICK state \in SeatStates : at' = With1(s, state) /\ PanelKept /\ ConfirmedByAReport
                                 /\ IF Memoed(s) THEN state.st = "done" ELSE state.st \in {"todo", "failed"}
  <2>1. CASE ReportOf(s).good
    <3> DEFINE state == [at.seats[s] EXCEPT !.st = "done"]
    <3>1. UNCHANGED led /\ at' = With1(s, state)
      BY <2>1 DEF SeatChecked, Go, Moves
    <3>2. state \in SeatStates /\ state.st = "done"
      BY <1>1, SeatIs
    <3> QED
      BY <3>1, <3>2, <2>1, <1>3, GoIsQuiet DEF RoundInv
  <2>2. CASE ~ReportOf(s).good /\ at.seats[s].try < at.seats[s].limit
    <3> DEFINE state == SeatState("todo", at.seats[s].try + 1, at.seats[s].limit)
    <3>1. UNCHANGED led /\ at' = With1(s, state)
      BY <2>2 DEF SeatChecked, Go
    <3>2. state \in SeatStates /\ state.st = "todo"
      BY <1>2 DEF SeatState, SeatStates
    <3> QED
      BY <3>1, <3>2, <2>2, <1>3, GoIsQuiet DEF RoundInv
  <2>3. CASE ~ReportOf(s).good /\ ~(at.seats[s].try < at.seats[s].limit)
    <3> DEFINE state == [at.seats[s] EXCEPT !.st = "failed"]
               x == Event("seat-failure", s, "defects")
    <3>1. Stamp(x) /\ at' = With1(s, state)
      BY <2>3 DEF SeatChecked, StampAndGo, Moves
    <3>2. state \in SeatStates /\ state.st = "failed"
      BY <1>1, SeatIs
    <3>3. Plain(x) /\ x.e = "seat-failure"
      BY EventIs
    <3> HIDE DEF x
    <3>4. PanelKept /\ ConfirmedByAReport
      BY <3>1, <3>3, StampIsQuiet DEF RoundInv, Kinds4
    <3> QED
      BY <3>1, <3>2, <3>4, <2>3, <1>3
  <2> QED
    BY <2>1, <2>2, <2>3
<1> QED
  BY <1>2, <1>4, SeatMovesQuietly

(* A seat reports only where it has no report that is read: then none of the *)
(* round's judgments is on the ledger, and none comes there.                 *)
LEMMA ReportKeeps ==
  ASSUME RoundInv, NEW s \in PanelSeats, SeatReports(s)
  PROVE  RoundInv' /\ ConfirmedByAReport
<1>1. at.pc = "panel" /\ ~Memoed(s) /\ [at.seats[s] EXCEPT !.st = "reported"] \in SeatStates
      /\ [at.seats[s] EXCEPT !.st = "reported"].st = "reported"
  BY SeatIs DEF SeatReports
<1>2. PICK good, found : Stamp([e |-> "seat-report", of |-> s, found |-> found, good |-> good])
  BY DEF SeatReports, StampAndGo
<1> DEFINE x == [e |-> "seat-report", of |-> s, found |-> found, good |-> good]
           state == [at.seats[s] EXCEPT !.st = "reported"]
<1>3. Stamp(x) /\ Plain(x) /\ x.e = "seat-report" /\ x.of = s
  BY <1>2 DEF Plain
<1>4. at' = With1(s, state)
  BY DEF SeatReports, StampAndGo, Moves
<1> HIDE DEF x, state
<1>5. /\ TidyLedger'
      /\ All("claim-run")' = All("claim-run") /\ All("verifier-report")' = All("verifier-report")
      /\ All("finding")' = All("finding")
      /\ All("seat-report")' = {y \in All("seat-report") : y.of # s} \cup {x}
      /\ \A y \in Range(led') : y = x \/ y \in Range(led)
  <2>1. TidyLedger
    BY DEF RoundInv
  <2> QED
    BY <1>3, <2>1, StampIs
<1>6. ~Judged /\ ~Judged'
  BY <1>1, <1>5 DEF RoundInv, RecordIsOfThePanel, Whole, Judged
<1>7. RecordIsOfThePanel'
  BY <1>6 DEF RecordIsOfThePanel
<1>8. /\ at'.pc = "panel" /\ at' \in [pc : {"panel"}, seats : [PanelSeats -> SeatStates]]
      /\ at'.seats[s] = state
      /\ \A t \in PanelSeats : t # s => at'.seats[t] = at.seats[t]
  BY <1>1, <1>4, SeatMoves DEF state
<1>9. ReportsRead /\ ReportsRead'
  BY <1>5, LedgerReadsReports, LedgerReadsReportsNext DEF RoundInv
<1>10. ASSUME NEW t \in PanelSeats
       PROVE  /\ Memoed(t)' => at'.seats[t].st \in {"reported", "done"}
              /\ at'.seats[t].st = "done" => Memoed(t)'
              /\ at'.seats[t].st = "reported" => Seqs("seat-report", t)' # {}
  <2>1. CASE t = s
    <3>1. at'.seats[t].st = "reported"
      BY <1>1, <1>8, <2>1 DEF state
    <3>2. Seqs("seat-report", t)' # {}
      BY <1>3, <1>5, <1>9, <2>1 DEF ReportsRead
    <3> QED
      BY <3>1, <3>2
  <2>2. CASE t # s
    <3>1. \A y : y.of = t => (y \in All("seat-report")' <=> y \in All("seat-report"))
      BY <1>3, <1>5, <2>2
    <3>2. (Memoed(t)' <=> Memoed(t)) /\ (Seqs("seat-report", t)' # {} <=> Seqs("seat-report", t) # {})
      BY <3>1, <1>9 DEF ReportsRead
    <3> QED
      BY <2>2, <3>2, <1>1, <1>8 DEF RoundInv, InPlace, PanelRuns
  <2> QED
    BY <2>1, <2>2
<1>11. PanelRuns'
  BY <1>8, <1>10 DEF PanelRuns
<1>12. ConfirmedByAReport
  BY <1>3, <1>5 DEF ConfirmedByAReport, Range
<1> QED
  BY <1>5, <1>7, <1>8, <1>11, <1>12, InThePanel DEF RoundInv

(* Every seat has a report that is read when the panel ends well. *)
LEMMA PanelEndKeeps ==
  ASSUME RoundInv, PanelEnds
  PROVE  RoundInv' /\ ConfirmedByAReport
<1> DEFINE failed == {k \in DOMAIN Panel : at.seats[Panel[k]].st = "failed"}
<1>1. UNCHANGED led /\ at' = IF failed # {} THEN SeatFail(Panel[Min(failed)]) ELSE Pc("claims")
  BY DEF PanelEnds, Go
<1>2. PanelKept /\ ConfirmedByAReport
  BY <1>1, GoIsQuiet DEF RoundInv
<1>3. CASE failed # {}
  <2>1. at'.pc \in {"ask", "closed"}
    BY <1>1, <1>3, SeatFailIs
  <2> QED
    BY <2>1, <1>2, QuietElsewhere DEF BehindThePanel, BehindTheClaims
<1>4. CASE failed = {}
  <2>1. at'.pc = "claims"
    BY <1>1, <1>4 DEF Pc
  <2>2. \A s \in PanelSeats : at.seats[s].st = "done"
    BY <1>4 DEF PanelEnds, PanelSeats
  <2>3. Whole
    BY <2>2 DEF PanelEnds, RoundInv, InPlace, PanelRuns, Whole
  <2>4. PanelHeld
    BY <1>2, QuietKeeps DEF RoundInv
  <2>5. InPlace'
    BY <2>1, <2>3, <2>4 DEF InPlace, BehindTheClaims, PanelRuns, ClaimsRun, VerifierRuns, RoundSettles, PanelHeld, SameReports
  <2> QED
    BY <1>2, <2>4, <2>5 DEF RoundInv, PanelKept, PanelHeld
<1> QED
  BY <1>3, <1>4

---------------------------------------------------------------------------
(* The claims. *)

(* A place behind the panel that a quiet step comes to. *)
LEMMA QuietBehind ==
  ASSUME RoundInv, PanelKept, Whole
  PROVE  RoundInv' <=> InPlace'
BY QuietKeeps DEF RoundInv, PanelKept, PanelHeld

LEMMA ClaimRunsKeeps ==
  ASSUME RoundInv, ClaimRuns
  PROVE  RoundInv' /\ ConfirmedByAReport
<1>1. at.pc = "claims" /\ Whole /\ UNCHANGED led
  BY DEF ClaimRuns, Go, RoundInv, InPlace, BehindThePanel
<1>2. PanelKept /\ ConfirmedByAReport
  BY <1>1, GoIsQuiet DEF RoundInv
<1>3. PanelHeld
  BY <1>2, QuietKeeps DEF RoundInv
<1>4. Whole' /\ Claims' = Claims /\ (ClaimsAreRun' <=> ClaimsAreRun)
  BY <1>1, <1>3 DEF PanelHeld, SameReports
<1>5. CASE ClaimsAreRun
  <2>1. at' = Pc("verify")
    BY <1>5 DEF ClaimRuns, ClaimsAreRun, Go
  <2>2. InPlace'
    BY <2>1, <1>4, <1>5 DEF InPlace, Pc, PanelRuns, ClaimsRun, VerifierRuns, RoundSettles
  <2> QED
    BY <1>1, <1>2, <2>2, QuietBehind
<1>6. CASE ~ClaimsAreRun
  <2>1. PICK results : at' = [pc |-> "claiming", left |-> Claims, results |-> results]
    BY <1>6 DEF ClaimRuns, ClaimsAreRun, Go
  <2>2. Claims # {} /\ All("finding") = {}
    BY <1>6 DEF ClaimsAreRun, RoundInv, RecordIsOfThePanel, Judged
  <2>3. ClaimsRun'
    BY <2>1, <2>2, <1>3, <1>4 DEF ClaimsRun, PanelHeld
  <2>4. InPlace'
    BY <2>1, <2>3, <1>4 DEF InPlace, BehindTheClaims, PanelRuns, VerifierRuns, RoundSettles
  <2> QED
    BY <1>1, <1>2, <2>4, QuietBehind
<1> QED
  BY <1>5, <1>6

LEMMA StampClaimKeeps ==
  ASSUME RoundInv, StampClaim
  PROVE  RoundInv' /\ ConfirmedByAReport
<1>1. PICK i \in at.left :
         /\ Stamp([e |-> "claim-run", of |-> i, about |-> Verifiable[i], result |-> at.results[i]])
         /\ at' = IF at.left = {i} THEN Pc("verify") ELSE [at EXCEPT !.left = @ \ {i}]
  BY DEF StampClaim, StampAndGo
<1> DEFINE x == [e |-> "claim-run", of |-> i, about |-> Verifiable[i], result |-> at.results[i]]
<1>2. Stamp(x) /\ Plain(x) /\ x.e = "claim-run" /\ x.of = i /\ x.about = Verifiable[i]
  BY <1>1 DEF Plain
<1> HIDE DEF x
<1>3. /\ at.pc = "claiming" /\ Whole /\ All("finding") = {}
      /\ at = [pc |-> "claiming", left |-> at.left, results |-> at.results]
      /\ at.left \subseteq Claims /\ \A j \in Claims \ at.left : Seqs("claim-run", j) # {}
  BY DEF StampClaim, RoundInv, InPlace, BehindThePanel, ClaimsRun
<1>4. /\ TidyLedger /\ TidyLedger'
      /\ All("seat-report")' = All("seat-report") /\ All("verifier-report")' = All("verifier-report")
      /\ All("finding")' = {}
      /\ All("claim-run")' = {y \in All("claim-run") : y.of # i} \cup {x}
      /\ \A y \in Range(led') : y = x \/ y \in Range(led)
  BY <1>2, <1>3, StampIs DEF RoundInv
<1>5. SameReports
  BY <1>4, ReportsStay
<1>6. Whole' /\ Verifiable' = Verifiable /\ Claims' = Claims
  BY <1>3, <1>5 DEF SameReports
<1>7. i \in DOMAIN Verifiable
  BY <1>3 DEF Claims
<1>8. RecordIsOfThePanel'
  <2>1. \A y \in All("claim-run") : y.of \in DOMAIN Verifiable /\ y.about = Verifiable[y.of]
    BY DEF RoundInv, RecordIsOfThePanel, Judged
  <2>2. \A y \in All("verifier-report") : y.items = Verifiable /\ y.confirmed \subseteq DOMAIN Verifiable
    BY DEF RoundInv, RecordIsOfThePanel, Judged
  <2> QED
    BY <2>1, <2>2, <1>2, <1>4, <1>6, <1>7 DEF RecordIsOfThePanel
<1>9. \A j \in (Claims \ at.left) \cup {i} : Seqs("claim-run", j)' # {}
  <2>1. Seqs("claim-run", i)' # {}
    BY <1>2, <1>4, LedgerReadsNext DEF Reads
  <2>2. ASSUME NEW j \in Claims \ at.left, j # i
        PROVE  Seqs("claim-run", j)' # {}
    <3>1. \A y : y.of = j => (y \in All("claim-run")' <=> y \in All("claim-run"))
      BY <1>2, <1>4, <2>2
    <3> QED
      BY <3>1, <1>3, <1>4, ClaimsStay
  <2> QED
    BY <2>1, <2>2
<1>10. InPlace'
  <2>1. CASE at.left = {i}
    <3>1. at'.pc = "verify"
      BY <1>1, <2>1 DEF Pc
    <3>2. ClaimsAreRun'
      BY <2>1, <1>6, <1>9 DEF ClaimsAreRun
    <3> QED
      BY <3>1, <3>2, <1>6 DEF InPlace, PanelRuns, ClaimsRun, VerifierRuns, RoundSettles
  <2>2. CASE at.left # {i}
    <3>1. at' = [pc |-> "claiming", left |-> at.left \ {i}, results |-> at.results]
      BY <1>1, <1>3, <2>2
    <3>2. at.left \ {i} # {}
      BY <1>1, <2>2
    <3>3. ClaimsRun'
      BY <3>1, <3>2, <1>3, <1>4, <1>6, <1>9 DEF ClaimsRun
    <3> QED
      BY <3>1, <3>3, <1>6 DEF InPlace, BehindTheClaims, PanelRuns, VerifierRuns, RoundSettles
  <2> QED
    BY <2>1, <2>2
<1>11. ConfirmedByAReport
  BY <1>2, <1>4 DEF ConfirmedByAReport, Range
<1> QED
  BY <1>4, <1>8, <1>10, <1>11 DEF RoundInv

---------------------------------------------------------------------------
(* The verifier. *)

(* Behind the claims, what a quiet step leaves to show.                      *)
LEMMA QuietVerifier ==
  ASSUME RoundInv, PanelKept, at.pc \in BehindTheClaims, at'.pc \in BehindTheClaims, VerifierRuns', RoundSettles'
  PROVE  RoundInv'
<1>1. Whole /\ ClaimsAreRun
  BY DEF RoundInv, InPlace, BehindThePanel
<1>2. PanelHeld
  BY QuietKeeps DEF RoundInv
<1>3. Whole' /\ ClaimsAreRun'
  BY <1>1, <1>2 DEF PanelHeld, SameReports
<1>4. InPlace'
  BY <1>3 DEF InPlace, BehindTheClaims, PanelRuns, ClaimsRun
<1> QED
  BY <1>1, <1>4, QuietBehind

LEMMA VerifyKeeps ==
  ASSUME RoundInv, Verify
  PROVE  RoundInv' /\ ConfirmedByAReport
<1>1. at.pc = "verify" /\ UNCHANGED led
  BY DEF Verify, Go
<1>2. PanelKept /\ ConfirmedByAReport
  BY <1>1, GoIsQuiet DEF RoundInv
<1>3. CASE Verifiable = <<>>
  <2>1. at' = [pc |-> "settle", confirmed |-> {}]
    BY <1>3 DEF Verify, Go
  <2>2. VerifierRuns' /\ RoundSettles'
    BY <2>1 DEF VerifierRuns, RoundSettles
  <2> QED
    BY <1>1, <1>2, <2>1, <2>2, QuietVerifier DEF BehindTheClaims
<1>4. CASE Verifiable # <<>>
  <2>1. at' = [pc |-> "turn", round |-> Replays, try |-> 1,
               limit |-> AttemptLimit(CodeVerifier), bought |-> BoughtRetry(CodeVerifier)]
    BY <1>4 DEF Verify, Go
  <2>2. VerifierRuns' /\ RoundSettles'
    BY <2>1 DEF VerifierRuns, RoundSettles
  <2> QED
    BY <1>1, <1>2, <2>1, <2>2, QuietVerifier DEF BehindTheClaims
<1> QED
  BY <1>3, <1>4

TurnIs == at = [pc |-> at.pc, round |-> at.round, try |-> at.try, limit |-> at.limit, bought |-> at.bought]

LEMMA TurnKeeps ==
  ASSUME RoundInv, VerifierTurn
  PROVE  RoundInv' /\ ConfirmedByAReport
<1>1. at.pc = "turn" /\ TurnIs
  BY DEF VerifierTurn, RoundInv, InPlace, VerifierRuns, TurnIs
<1>2. CASE ~at.bought /\ Seqs("verifier-report", Label) # {}
  <2>1. UNCHANGED led /\ at' = [at EXCEPT !.pc = "judge"]
    BY <1>2 DEF VerifierTurn, Go
  <2>2. PanelKept /\ ConfirmedByAReport
    BY <2>1, GoIsQuiet DEF RoundInv
  <2>3. at' = [pc |-> "judge", round |-> at.round, try |-> at.try, limit |-> at.limit, bought |-> at.bought]
    BY <1>1, <2>1 DEF TurnIs
  <2>4. Label' = Label
    BY <2>3 DEF Label
  <2>5. Seqs("verifier-report", Label)' # {}
    BY <2>1, <2>4, <1>2 DEF Seqs
  <2>6. VerifierRuns' /\ RoundSettles'
    BY <2>3, <2>5 DEF VerifierRuns, RoundSettles
  <2> QED
    BY <1>1, <2>2, <2>3, <2>6, QuietVerifier DEF BehindTheClaims
<1>3. CASE ~(~at.bought /\ Seqs("verifier-report", Label) # {})
  <2>1. at' = [at EXCEPT !.pc = "judging"] /\ PanelKept /\ ConfirmedByAReport
    <3>1. CASE BoughtRetry(CodeVerifier)
      <4>1. Stamp(Event("seat-spawned", CodeVerifier, "")) /\ at' = [at EXCEPT !.pc = "judging"]
        BY <1>3, <3>1 DEF VerifierTurn, StampAndGo
      <4>2. Plain(Event("seat-spawned", CodeVerifier, "")) /\ Event("seat-spawned", CodeVerifier, "").e = "seat-spawned"
        BY DEF Plain, Event
      <4> QED
        BY <4>1, <4>2, StampIsQuiet DEF RoundInv, Kinds4
    <3>2. CASE ~BoughtRetry(CodeVerifier)
      <4>1. UNCHANGED led /\ at' = [at EXCEPT !.pc = "judging"]
        BY <1>3, <3>2 DEF VerifierTurn, Go
      <4> QED
        BY <4>1, GoIsQuiet DEF RoundInv
    <3> QED
      BY <3>1, <3>2
  <2>2. at' = [pc |-> "judging", round |-> at.round, try |-> at.try, limit |-> at.limit, bought |-> at.bought]
    BY <1>1, <2>1 DEF TurnIs
  <2>3. VerifierRuns' /\ RoundSettles'
    BY <2>2 DEF VerifierRuns, RoundSettles
  <2> QED
    BY <1>1, <2>1, <2>2, <2>3, QuietVerifier DEF BehindTheClaims
<1> QED
  BY <1>2, <1>3

(* What stands goes on standing while the claims stay as they were run.      *)
LEMMA StandingStays ==
  ASSUME TidyLedger, TidyLedger', Whole, ClaimsAreRun,
         All("seat-report")' = All("seat-report"), All("claim-run")' = All("claim-run")
  PROVE  /\ Whole' /\ Verifiable' = Verifiable /\ ClaimsAreRun'
         /\ \A x : Stands(x) => Stands(x)'
<1>1. Whole' /\ Verifiable' = Verifiable /\ Claims' = Claims
  BY ReportsStay DEF SameReports
<1>2. \A i : /\ Seqs("claim-run", i)' # {} <=> Seqs("claim-run", i) # {}
             /\ Seqs("claim-run", i) # {} => ClaimStamp(i)' = ClaimStamp(i)
  BY ClaimsStay
<1>3. ClaimsAreRun'
  BY <1>1, <1>2 DEF ClaimsAreRun
<1>4. ASSUME NEW x, Stands(x)
      PROVE  Stands(x)'
  <2>1. x.of \in Claims => ClaimStamp(x.of)' = ClaimStamp(x.of)
    BY <1>2 DEF ClaimsAreRun
  <2> QED
    BY <2>1, <1>1, <1>4 DEF Stands
<1> QED
  BY <1>1, <1>3, <1>4

LEMMA VerifierReportsKeeps ==
  ASSUME RoundInv, VerifierReports
  PROVE  RoundInv' /\ ConfirmedByAReport
<1>1. PICK probe, covers \in BOOLEAN, confirmed \in SUBSET (DOMAIN Verifiable) :
         /\ Stamp([e |-> "verifier-report", of |-> Label, probe |-> probe, covers |-> covers,
                   confirmed |-> confirmed, items |-> Verifiable])
         /\ at' = [at EXCEPT !.pc = "judge"]
  BY DEF VerifierReports, StampAndGo
<1> DEFINE x == [e |-> "verifier-report", of |-> Label, probe |-> probe, covers |-> covers,
                 confirmed |-> confirmed, items |-> Verifiable]
<1>2. /\ Stamp(x) /\ Plain(x) /\ x.e = "verifier-report" /\ x.of = Label
      /\ x.items = Verifiable /\ x.confirmed \subseteq DOMAIN Verifiable
  BY <1>1 DEF Plain
<1> HIDE DEF x
<1>3. at.pc = "judging" /\ Whole /\ ClaimsAreRun /\ TurnIs
  BY DEF VerifierReports, RoundInv, InPlace, BehindThePanel, BehindTheClaims, VerifierRuns, TurnIs
<1>4. /\ TidyLedger /\ TidyLedger'
      /\ All("seat-report")' = All("seat-report") /\ All("claim-run")' = All("claim-run")
      /\ All("finding")' = All("finding")
      /\ All("verifier-report")' = {y \in All("verifier-report") : y.of # Label} \cup {x}
      /\ \A y \in Range(led') : y = x \/ y \in Range(led)
  BY <1>2, StampIs DEF RoundInv
<1>5. Whole' /\ Verifiable' = Verifiable /\ ClaimsAreRun' /\ \A y : Stands(y) => Stands(y)'
  BY <1>3, <1>4, StandingStays
<1>6. RecordIsOfThePanel'
  <2>1. \A y \in All("claim-run") : y.of \in DOMAIN Verifiable /\ y.about = Verifiable[y.of]
    BY DEF RoundInv, RecordIsOfThePanel, Judged
  <2>2. \A y \in All("verifier-report") : y.items = Verifiable /\ y.confirmed \subseteq DOMAIN Verifiable
    BY DEF RoundInv, RecordIsOfThePanel, Judged
  <2>3. \A y \in All("finding") : y.confirmed => Stands(y)
    BY DEF RoundInv, RecordIsOfThePanel, Judged
  <2> QED
    BY <2>1, <2>2, <2>3, <1>2, <1>4, <1>5 DEF RecordIsOfThePanel
<1>7. at' = [pc |-> "judge", round |-> at.round, try |-> at.try, limit |-> at.limit, bought |-> at.bought]
  BY <1>1, <1>3 DEF TurnIs
<1>8. Label' = Label
  BY <1>7 DEF Label
<1>9. Seqs("verifier-report", Label)' # {}
  <2>1. \A v : v = x.of => Seqs("verifier-report", v)' # {}
    BY <1>4, VerdictsStay
  <2>2. Seqs("verifier-report", Label') = Seqs("verifier-report", Label)
    BY <1>8
  <2> QED
    BY <2>1, <1>2, <1>8 DEF Seqs
<1>10. InPlace'
  BY <1>5, <1>7, <1>9 DEF InPlace, PanelRuns, ClaimsRun, VerifierRuns, RoundSettles
<1>11. ConfirmedByAReport
  BY <1>2, <1>4 DEF ConfirmedByAReport, Range
<1> QED
  BY <1>4, <1>6, <1>10, <1>11 DEF RoundInv

(* A step of the verifier that ends the round for now. *)
LEMMA SilentKeeps ==
  ASSUME RoundInv, VerifierSilent
  PROVE  RoundInv' /\ ConfirmedByAReport
<1> DEFINE x == Event("seat-failure", CodeVerifier, "no-report")
<1>1. Stamp(x) /\ at' = SeatFail(CodeVerifier)
  BY DEF VerifierSilent, StampAndGo
<1>2. Plain(x) /\ x.e = "seat-failure"
  BY DEF Plain, Event
<1> HIDE DEF x
<1>3. PanelKept /\ ConfirmedByAReport
  BY <1>1, <1>2, StampIsQuiet DEF RoundInv, Kinds4
<1> QED
  BY <1>1, <1>3, SeatFailIs, QuietElsewhere DEF BehindThePanel, BehindTheClaims

LEMMA ReplayKeeps ==
  ASSUME RoundInv, RunReplay
  PROVE  RoundInv' /\ ConfirmedByAReport
<1> DEFINE x == Event("probe-run", Replays + 1, "")
<1>1. at.pc = "replay" /\ Stamp(x) /\ at' = Pc("verify")
  BY DEF RunReplay, StampAndGo
<1>2. Plain(x) /\ x.e = "probe-run"
  BY DEF Plain, Event
<1> HIDE DEF x
<1>3. PanelKept /\ ConfirmedByAReport
  BY <1>1, <1>2, StampIsQuiet DEF RoundInv, Kinds4
<1>4. at'.pc = "verify"
  BY <1>1 DEF Pc
<1> QED
  BY <1>1, <1>3, <1>4, QuietVerifier DEF BehindTheClaims, VerifierRuns, RoundSettles

(* What the round settles is of a report that saw all of the findings. *)
LEMMA JudgeKeeps ==
  ASSUME RoundInv, Judge
  PROVE  RoundInv' /\ ConfirmedByAReport
<1> DEFINE report == led[Newest(Seqs("verifier-report", Label))]
           settle == [pc |-> "settle", confirmed |-> report.confirmed]
<1>1. at.pc = "judge" /\ TurnIs /\ Seqs("verifier-report", Label) # {}
  BY DEF Judge, RoundInv, InPlace, VerifierRuns, TurnIs
<1>2. report \in All("verifier-report")
  <2>1. PICK x \in All("verifier-report") : x.of = Label
    BY <1>1, LedgerReads DEF RoundInv, Reads
  <2> QED
    BY <2>1, LedgerReads DEF RoundInv, Reads
<1> HIDE DEF report
<1>3. CASE report.probe /\ Budget > 0
  <2>1. UNCHANGED led /\ at' = Pc("replay")
    BY <1>3 DEF Judge, Go, report
  <2>2. PanelKept /\ ConfirmedByAReport
    BY <2>1, GoIsQuiet DEF RoundInv
  <2>3. at'.pc = "replay"
    BY <2>1 DEF Pc
  <2> QED
    BY <1>1, <2>2, <2>3, QuietVerifier DEF BehindTheClaims, VerifierRuns, RoundSettles
<1>4. CASE ~(report.probe /\ Budget > 0) /\ report.covers
  <2>1. at' = settle /\ PanelKept /\ ConfirmedByAReport
    <3>1. CASE report.probe /\ SeqsOf("probe-refused") = {}
      <4>1. Stamp(Event("probe-refused", "", "")) /\ at' = settle
        BY <1>4, <3>1 DEF Judge, StampAndGo, report
      <4>2. Plain(Event("probe-refused", "", "")) /\ Event("probe-refused", "", "").e = "probe-refused"
        BY DEF Plain, Event
      <4> QED
        BY <4>1, <4>2, StampIsQuiet DEF RoundInv, Kinds4
    <3>2. CASE ~(report.probe /\ SeqsOf("probe-refused") = {})
      <4>1. UNCHANGED led /\ at' = settle
        BY <1>4, <3>2 DEF Judge, Go, report
      <4> QED
        BY <4>1, GoIsQuiet DEF RoundInv
    <3> QED
      BY <3>1, <3>2
  <2>2. All("verifier-report")' = All("verifier-report")
    BY <2>1 DEF PanelKept, Kinds4
  <2>3. VerifierRuns' /\ RoundSettles'
    BY <2>1, <2>2, <1>2, <1>4 DEF VerifierRuns, RoundSettles
  <2> QED
    BY <1>1, <2>1, <2>3, QuietVerifier DEF BehindTheClaims
<1>5. CASE ~(report.probe /\ Budget > 0) /\ ~report.covers /\ at.try < at.limit
  <2>1. UNCHANGED led /\ at' = [at EXCEPT !.pc = "turn", !.try = at.try + 1]
    BY <1>5 DEF Judge, Go, report
  <2>2. PanelKept /\ ConfirmedByAReport
    BY <2>1, GoIsQuiet DEF RoundInv
  <2>3. at' = [pc |-> "turn", round |-> at.round, try |-> at.try + 1, limit |-> at.limit, bought |-> at.bought]
    BY <1>1, <2>1 DEF TurnIs
  <2>4. VerifierRuns' /\ RoundSettles'
    BY <2>3 DEF VerifierRuns, RoundSettles
  <2> QED
    BY <1>1, <2>2, <2>3, <2>4, QuietVerifier DEF BehindTheClaims
<1>6. CASE ~(report.probe /\ Budget > 0) /\ ~report.covers /\ ~(at.try < at.limit)
  <2> DEFINE x == Event("seat-failure", CodeVerifier, "defects")
  <2>1. Stamp(x) /\ at' = SeatFail(CodeVerifier)
    BY <1>6 DEF Judge, StampAndGo, report
  <2>2. Plain(x) /\ x.e = "seat-failure"
    BY DEF Plain, Event
  <2> HIDE DEF x
  <2>3. PanelKept /\ ConfirmedByAReport
    BY <2>1, <2>2, StampIsQuiet DEF RoundInv, Kinds4
  <2> QED
    BY <2>1, <2>3, SeatFailIs, QuietElsewhere DEF BehindThePanel, BehindTheClaims
<1> QED
  BY <1>3, <1>4, <1>5, <1>6

---------------------------------------------------------------------------
(* The stamps. *)

LEMMA LeaveIs ==
  ASSUME RoundInv, UNCHANGED led, at.pc \in BehindTheClaims, at' = [pc |-> "left", confirmed |-> Stamped]
  PROVE  RoundInv' /\ ConfirmedByAReport
<1>1. PanelKept /\ ConfirmedByAReport
  BY GoIsQuiet DEF RoundInv
<1>2. Stamped' = Stamped
  BY DEF Stamped, SeqsOf
<1>3. InPlace'
  BY <1>2 DEF InPlace, BehindThePanel, BehindTheClaims, PanelRuns, ClaimsRun, VerifierRuns, RoundSettles
<1>4. Whole
  BY DEF RoundInv, InPlace, BehindThePanel
<1> QED
  BY <1>1, <1>3, <1>4, QuietBehind

LEMMA SettleKeeps ==
  ASSUME RoundInv, Settle
  PROVE  RoundInv' /\ ConfirmedByAReport
<1>1. at.pc = "settle" /\ UNCHANGED led /\ RoundSettles
  BY DEF Settle, Go, RoundInv, InPlace
<1>2. CASE SeqsOf("finding") # {}
  <2>1. at' = [pc |-> "left", confirmed |-> Stamped]
    BY <1>2 DEF Settle, Go
  <2> QED
    BY <1>1, <2>1, LeaveIs DEF BehindTheClaims
<1>3. CASE SeqsOf("finding") = {}
  <2>1. at' = [at EXCEPT !.pc = "stamping"]
    BY <1>3 DEF Settle, Go
  <2>2. at' = [pc |-> "stamping", confirmed |-> at.confirmed]
    BY <1>1, <2>1 DEF RoundSettles
  <2>3. PanelKept /\ ConfirmedByAReport
    BY <1>1, GoIsQuiet DEF RoundInv
  <2>4. VerifierRuns' /\ RoundSettles'
    BY <1>1, <2>2, <2>3 DEF VerifierRuns, RoundSettles, PanelKept, Kinds4
  <2> QED
    BY <1>1, <2>2, <2>3, <2>4, QuietVerifier DEF BehindTheClaims
<1> QED
  BY <1>2, <1>3

LEMMA StampFindingKeeps ==
  ASSUME RoundInv, StampReviewFinding
  PROVE  RoundInv' /\ ConfirmedByAReport
<1> DEFINE next == Cardinality(SeqsOf("finding")) + 1
           high == next <= Len(Verifiable)
<1>1. at.pc = "stamping" /\ RoundSettles /\ Whole /\ ClaimsAreRun
  BY DEF StampReviewFinding, RoundInv, InPlace, BehindThePanel, BehindTheClaims
<1>2. CASE next > Len(Verifiable) + Len(Advisory)
  <2>1. UNCHANGED led /\ at' = [pc |-> "left", confirmed |-> Stamped]
    BY <1>2 DEF StampReviewFinding, Go
  <2> QED
    BY <1>1, <2>1, LeaveIs DEF BehindTheClaims
<1>3. CASE ~(next > Len(Verifiable) + Len(Advisory))
  <2> DEFINE about == IF high THEN Verifiable[next] ELSE Advisory[next - Len(Verifiable)]
             confirmed == high /\ IsConfirmed(next, at.confirmed)
             x == [e |-> "finding", of |-> next, about |-> about, confirmed |-> confirmed]
  <2>1. Stamp(x) /\ at' = at
    BY <1>3 DEF StampReviewFinding, StampAndGo
  <2> HIDE DEF next
  <2>2. x.confirmed => high /\ IsConfirmed(next, at.confirmed)
    OBVIOUS
  <2>3. high => x.about = Verifiable[next]
    OBVIOUS
  <2>4. Plain(x) /\ x.e = "finding" /\ x.of = next
    BY DEF Plain
  <2> HIDE DEF x, high
  <2>5. ASSUME x.confirmed
        PROVE  /\ Stands(x)
               /\ \E r \in All("verifier-report") : r.covers /\ x.of \in r.confirmed
    <3>1. high /\ next \in at.confirmed /\ ~(next \in Claims /\ ClaimStamp(next).result = "green")
      BY <2>2, <2>5 DEF IsConfirmed
    <3>2. PICK r \in All("verifier-report") : r.covers /\ next \in r.confirmed
      BY <3>1, <1>1 DEF RoundSettles
    <3>3. next \in DOMAIN Verifiable
      BY <3>2 DEF RoundInv, RecordIsOfThePanel, Judged
    <3> QED
      BY <3>1, <3>2, <3>3, <2>3, <2>4 DEF Stands
  <2>6. /\ TidyLedger /\ TidyLedger'
        /\ All("seat-report")' = All("seat-report") /\ All("claim-run")' = All("claim-run")
        /\ All("verifier-report")' = All("verifier-report")
        /\ All("finding")' = {y \in All("finding") : y.of # next} \cup {x}
        /\ \A y \in Range(led') : y = x \/ y \in Range(led)
    BY <2>1, <2>4, StampIs DEF RoundInv
  <2>7. Whole' /\ Verifiable' = Verifiable /\ ClaimsAreRun' /\ \A y : Stands(y) => Stands(y)'
    BY <1>1, <2>6, StandingStays
  <2>8. RecordIsOfThePanel'
    <3>1. \A y \in All("claim-run") : y.of \in DOMAIN Verifiable /\ y.about = Verifiable[y.of]
      BY DEF RoundInv, RecordIsOfThePanel, Judged
    <3>2. \A y \in All("verifier-report") : y.items = Verifiable /\ y.confirmed \subseteq DOMAIN Verifiable
      BY DEF RoundInv, RecordIsOfThePanel, Judged
    <3>3. \A y \in All("finding") : y.confirmed => Stands(y)
      BY DEF RoundInv, RecordIsOfThePanel, Judged
    <3> QED
      BY <3>1, <3>2, <3>3, <2>5, <2>6, <2>7 DEF RecordIsOfThePanel
  <2>9. InPlace'
    BY <1>1, <2>1, <2>6, <2>7 DEF InPlace, PanelRuns, ClaimsRun, VerifierRuns, RoundSettles
  <2>10. ConfirmedByAReport
    <3> SUFFICES ASSUME NEW k \in DOMAIN led', led'[k] \notin Range(led), led'[k].e = "finding", led'[k].confirmed
                 PROVE  \E r \in SeqsOf("verifier-report") : led[r].covers /\ led'[k].of \in led[r].confirmed
      BY DEF ConfirmedByAReport
    <3>1. led'[k] = x
      BY <2>6 DEF Range
    <3>2. PICK y \in All("verifier-report") : y.covers /\ x.of \in y.confirmed
      BY <2>5, <3>1
    <3> QED
      BY <3>1, <3>2 DEF All, SeqsOf, Range
  <2> QED
    BY <2>6, <2>8, <2>9, <2>10 DEF RoundInv
<1> QED
  BY <1>2, <1>3

---------------------------------------------------------------------------
LEMMA InitInv == ReviewInit => RoundInv
<1> SUFFICES ASSUME ReviewInit
             PROVE  RoundInv
  OBVIOUS
<1>1. led = <<>> /\ at.pc = "enter"
  BY DEF ReviewInit, Pc
<1>2. TidyLedger /\ \A kind : All(kind) = {}
  BY <1>1 DEF TidyLedger, Tidy, Range, All
<1> QED
  BY <1>1, <1>2 DEF RoundInv, RecordIsOfThePanel, Judged, InPlace, BehindThePanel, BehindTheClaims, PanelRuns,
     ClaimsRun, VerifierRuns, RoundSettles

LEMMA StepKeepsInv ==
  ASSUME RoundInv, [ReviewNext]_ledgerVars
  PROVE  RoundInv' /\ [ConfirmedByAReport]_ledgerVars
<1>1. CASE UNCHANGED ledgerVars
  <2>1. led' = led /\ at' = at
    BY <1>1 DEF ledgerVars
  <2>2. PanelKept
    BY <2>1, GoIsQuiet DEF RoundInv
  <2>3. PanelHeld
    BY <2>2, QuietKeeps DEF RoundInv
  <2>4. Stamped' = Stamped /\ Label' = Label
    BY <2>1 DEF Stamped, SeqsOf, Label
  <2>5. PanelRuns'
    BY <2>1, <2>3 DEF RoundInv, InPlace, PanelRuns, PanelHeld, SameReports
  <2>6. ClaimsRun'
    BY <2>1, <2>3 DEF RoundInv, InPlace, BehindThePanel, ClaimsRun, PanelHeld, SameReports
  <2>7. VerifierRuns'
    BY <2>1, <2>4 DEF RoundInv, InPlace, VerifierRuns, Seqs
  <2>8. RoundSettles'
    BY <2>1, <2>3 DEF RoundInv, InPlace, RoundSettles, PanelHeld
  <2>9. InPlace'
    BY <2>1, <2>3, <2>4, <2>5, <2>6, <2>7, <2>8 DEF RoundInv, InPlace, BehindThePanel, PanelHeld, SameReports
  <2> QED
    BY <1>1, <2>2, <2>3, <2>9 DEF RoundInv, PanelKept, PanelHeld
<1>2. CASE PanelStep
  BY <1>2, SpawnKeeps, ReportKeeps, CheckKeeps DEF PanelStep
<1>3. CASE Park \/ Answer \/ Crash \/ AbandonGuard
  BY <1>3, AskIs
<1>4. CASE Round \/ PanelEnds
  BY <1>4, RoundKeeps, PanelEndKeeps
<1>5. CASE ClaimRuns \/ StampClaim
  BY <1>5, ClaimRunsKeeps, StampClaimKeeps
<1>6. CASE Verify \/ VerifierTurn \/ VerifierReports \/ VerifierSilent
  BY <1>6, VerifyKeeps, TurnKeeps, VerifierReportsKeeps, SilentKeeps
<1>7. CASE Judge \/ RunReplay
  BY <1>7, JudgeKeeps, ReplayKeeps
<1>8. CASE Settle \/ StampReviewFinding
  BY <1>8, SettleKeeps, StampFindingKeeps
<1> QED
  BY <1>1, <1>2, <1>3, <1>4, <1>5, <1>6, <1>7, <1>8 DEF ReviewNext, LaneStep

LEMMA InvIsEnough ==
  ASSUME RoundInv
  PROVE  VerdictsAreAboutTheFindings /\ ConfirmedStands
<1>1. \A kind : \A i \in SeqsOf(kind) : led[i] \in All(kind)
  BY DEF SeqsOf, All, Range
<1>2. VerdictsAreAboutTheFindings
  BY <1>1 DEF VerdictsAreAboutTheFindings, RoundInv, RecordIsOfThePanel, Judged
<1>3. ConfirmedStands
  BY <1>1 DEF ConfirmedStands, RoundInv, RecordIsOfThePanel, Judged, Stands, InPlace
<1> QED
  BY <1>2, <1>3

(* What a round returns was raised, was judged as it was raised and stood    *)
(* the judgment: for every panel, whatever its seats raise, whatever the     *)
(* verifier reports or asks for, over any number of crashes and answers.     *)
THEOREM TheRoundReturnsWhatStood == ReviewSpec => JudgedAsRaised
<1>1. RoundInv /\ [ReviewNext]_ledgerVars => RoundInv' /\ [ConfirmedByAReport]_ledgerVars
  BY StepKeepsInv
<1>2. RoundInv => VerdictsAreAboutTheFindings /\ ConfirmedStands
  BY InvIsEnough
<1>3. ReviewInit => RoundInv
  BY InitInv
<1>4. ReviewSpec => [](VerdictsAreAboutTheFindings /\ ConfirmedStands) /\ [][ConfirmedByAReport]_ledgerVars
  BY <1>1, <1>2, <1>3, PTL DEF ReviewSpec
<1> QED
  BY <1>4 DEF JudgedAsRaised
---------------------------------------------------------------------------
(* The invariant of the verdict's ladder.                                    *)

AllKinds == {"code", "suite", "intent", "env", "review"}

Renders == SeqsOf("verdict-rendered")
RoundMarks == Renders \cup SeqsOf("implementation-committed") \cup SeqsOf("repair-no-change")
PassMarks == RoundMarks \cup SeqsOf("repair-round")

(* A repair round, or a fresh pass, is under way behind a render.            *)
RepairOpen == Renders # {} /\ \E s \in Seqs("seat-spawned", "repair-dev") : \A j \in RoundMarks : j < s
PassOpen == Renders # {} /\ \E s \in SeqsOf("fresh-pass") : \A j \in PassMarks : j < s
Open == RepairOpen \/ PassOpen

Room == tally.again = 0 => tally.rounds < Cap
OnTheLadder == Renders # {} /\ Rendered.open # {}

Sound(x) ==
    /\ "nth" \in DOMAIN x => x.e = "verdict-rendered"
    /\ x.e = "verdict-rendered" => x.open \subseteq AllKinds /\ (x.open = {} => x.of = "green")
    /\ x.e = "re-freeze" => ("intent" \in x.found => x.ruled # "none")
    /\ x.e = "answer" /\ x.of = "second-stall" => x.why \in {"repair-again", "fresh-pass", "abandon"}

LedgerIsSound == led \in Seq(Range(led)) /\ \A x \in Range(led) : Sound(x)

(* An abandoned run goes nowhere but to its close.                           *)
AnswersAreKept ==
    \A x \in Range(led) : x.e = "answer" =>
        /\ x.why = "repair-again" => tally.again > 0
        /\ x.why = "abandon" => at.pc = "closed" \/ (at.pc = "enter" /\ AbandonedClose)

TallyTypes == [pass : Nat, rounds : Nat, made : Nat, lost : Nat, fresh : Nat, again : Nat, freshAnswers : Nat, cycles : Nat]
CountsAreSound == /\ tally \in TallyTypes /\ code \in CodeTypes
                  /\ tally.again = 0 => tally.rounds <= Cap
                  /\ RepairOpen => Room

(* A pass that was born behind the render is implemented, and then a cycle   *)
(* renders again, before the ladder is climbed.                              *)
Climbs == OnTheLadder /\ ~Since("fresh-pass")
PassesAreSound == Since("fresh-pass") => ~RefreezeOwed /\ (PassOpen \/ Since("implementation-committed"))

DevSeats == {"dev", "repair-dev"}
SeatPlaces == {"dispatch", "out", "captured"}
SeatsAreSound ==
    at.pc \in SeatPlaces =>
      /\ at = [pc |-> at.pc, seat |-> at.seat, try |-> at.try, limit |-> at.limit, task |-> at.task]
      /\ at.pc = "captured" => at.seat \in DevSeats
      /\ at.seat \in DevSeats \cup {"suite", "conflict-triage"}
      /\ at.seat = "dev" => at.task = "fresh" /\ PassOpen
      /\ at.seat = "repair-dev" => /\ at.task = "repair" /\ Renders # {} /\ ~PassOpen /\ Room
                                   /\ at.pc # "dispatch" => RepairOpen
      /\ at.seat = "suite" => /\ at.task.ruled = "none" => "intent" \notin at.task.of
                              /\ at.task.to # "spectrum" => Climbs
      /\ at.seat = "conflict-triage" => (at.task # "spectrum" => Climbs)

CommitsAreSound ==
    /\ at.pc \in {"commit", "committed"} =>
         /\ at.task \in {"fresh", "repair"}
         /\ at.task = "fresh" => PassOpen
         /\ at.task = "repair" => RepairOpen /\ ~PassOpen /\ Room
    /\ at.pc = "round" => Room /\ ~Open

LadderPlaces == {"repeat", "triage", "intent", "ops", "suite", "code", "fresh-pass", "born"}
LadderIsSound ==
    /\ at.pc = "loop" => ~PassOpen
    /\ at.pc \in LadderPlaces => Climbs
    /\ at.pc \in {"ops", "suite"} => (at.ruled = "none" => ~IntentOwed)
    /\ at.pc \in {"suite", "code"} => (~at.acted => Ops = {})
    /\ at.pc = "code" => (~at.acted => SuiteDefects = {})
    /\ at.pc \in {"code", "fresh-pass", "born"} => ~RefreezeOwed
    /\ at.pc # "thrown"

CyclesAreSound == /\ at.pc = "spectrum" => at.riding \subseteq AllKinds
                  /\ at.pc \in {"review", "render"} => at.open \subseteq AllKinds

ParksAreSound == at.pc = "parked" => led # << >> /\ led[Len(led)].e = "park"

EditsAreKnown ==
    code.dirty => /\ at.pc \in {"enter", "ask", "parked", "closed", "commit"} \cup SeatPlaces
                  /\ at.pc # "closed" => Open
                  /\ at.pc \in SeatPlaces => at.seat \in DevSeats

PlacesAreSound == SeatsAreSound /\ CommitsAreSound /\ LadderIsSound /\ CyclesAreSound /\ ParksAreSound

RecordIsSound == LedgerIsSound /\ AnswersAreKept /\ CountsAreSound /\ PassesAreSound
LoopInv == RecordIsSound /\ PlacesAreSound /\ EditsAreKnown

---------------------------------------------------------------------------
(* What a stamp leaves as it was.                                            *)

LEMMA StampMoves ==
  ASSUME LedgerIsSound, NEW x, Stamp(x)
  PROVE  /\ led' \in Seq(Range(led')) /\ \A y \in Range(led') : y = x \/ y \in Range(led)
         /\ \E sh : Shifted(led, led', x, sh)
BY StampShifts DEF LedgerIsSound

LEMMA NameMoves ==
  ASSUME NEW x, NEW sh, Shifted(led, led', x, sh), LedgerIsSound, Sound(x), NEW of, of # x.of,
         x.e \notin {"park", "verdict-rendered"}
  PROVE  Seqs(x.e, of) \subseteq DOMAIN sh /\ Seqs(x.e, of)' = Dest(sh, Seqs(x.e, of))
<1>1. "nth" \notin DOMAIN x /\ x.e # "park"
  BY DEF Sound
<1>2. \A k \in DOMAIN led : led[k].e = x.e => "nth" \notin DOMAIN led[k]
  BY DEF LedgerIsSound, Sound, Range
<1> QED
  BY <1>1, <1>2, NameShifts

LEMMA RoundKept ==
  ASSUME LedgerIsSound, NEW x, Sound(x), Stamp(x),
         x.e \notin {"verdict-rendered", "implementation-committed", "repair-no-change"},
         x.e = "seat-spawned" => x.of # "repair-dev"
  PROVE  RepairOpen' <=> RepairOpen
<1>1. PICK sh : Shifted(led, led', x, sh)
  BY StampMoves
<1>2. /\ Renders \subseteq DOMAIN sh /\ Renders' = Dest(sh, Renders)
      /\ RoundMarks \subseteq DOMAIN sh /\ RoundMarks' = Dest(sh, RoundMarks)
  <2>1. /\ SeqsOf("verdict-rendered") \subseteq DOMAIN sh
        /\ SeqsOf("verdict-rendered")' = Dest(sh, SeqsOf("verdict-rendered"))
    BY <1>1, KindMoves
  <2>2. /\ SeqsOf("implementation-committed") \subseteq DOMAIN sh
        /\ SeqsOf("implementation-committed")' = Dest(sh, SeqsOf("implementation-committed"))
    BY <1>1, KindMoves
  <2>3. /\ SeqsOf("repair-no-change") \subseteq DOMAIN sh
        /\ SeqsOf("repair-no-change")' = Dest(sh, SeqsOf("repair-no-change"))
    BY <1>1, KindMoves
  <2> QED
    BY <2>1, <2>2, <2>3 DEF Renders, RoundMarks, Dest
<1>3. /\ Seqs("seat-spawned", "repair-dev") \subseteq DOMAIN sh
      /\ Seqs("seat-spawned", "repair-dev")' = Dest(sh, Seqs("seat-spawned", "repair-dev"))
  <2>1. CASE x.e = "seat-spawned"
    <3>1. "repair-dev" # x.of /\ x.e \notin {"park", "verdict-rendered"}
      BY <2>1
    <3>2. /\ Seqs(x.e, "repair-dev") \subseteq DOMAIN sh
          /\ Seqs(x.e, "repair-dev")' = Dest(sh, Seqs(x.e, "repair-dev"))
      BY <3>1, <1>1, NameMoves
    <3> QED
      BY <3>2, <2>1
  <2>2. CASE x.e # "seat-spawned"
    <3>1. "seat-spawned" # x.e
      BY <2>2
    <3> QED
      BY <3>1, <1>1, KindMoves
  <2> QED
    BY <2>1, <2>2
<1>4. Renders' # {} <=> Renders # {}
  BY <1>2 DEF Dest
<1>5. (\E s \in Seqs("seat-spawned", "repair-dev") : \A j \in RoundMarks : j < s)
        <=> (\E s \in Seqs("seat-spawned", "repair-dev")' : \A j \in RoundMarks' : j < s)
  BY <1>1, <1>2, <1>3, ImageReaches, MovesInOrder
<1> QED
  BY <1>4, <1>5 DEF RepairOpen

LEMMA PassKept ==
  ASSUME LedgerIsSound, NEW x, Stamp(x),
         x.e \notin {"verdict-rendered", "implementation-committed", "repair-no-change", "repair-round", "fresh-pass"}
  PROVE  PassOpen' <=> PassOpen
<1>1. PICK sh : Shifted(led, led', x, sh)
  BY StampMoves
<1>2. \A e \in {"verdict-rendered", "implementation-committed", "repair-no-change", "repair-round", "fresh-pass"} :
         SeqsOf(e) \subseteq DOMAIN sh /\ SeqsOf(e)' = Dest(sh, SeqsOf(e))
  BY <1>1, KindMoves
<1>3. /\ Renders \subseteq DOMAIN sh /\ Renders' = Dest(sh, Renders)
      /\ PassMarks \subseteq DOMAIN sh /\ PassMarks' = Dest(sh, PassMarks)
      /\ SeqsOf("fresh-pass") \subseteq DOMAIN sh /\ SeqsOf("fresh-pass")' = Dest(sh, SeqsOf("fresh-pass"))
  BY <1>2 DEF Renders, RoundMarks, PassMarks, Dest
<1>4. Renders' # {} <=> Renders # {}
  BY <1>3 DEF Dest
<1>5. (\E s \in SeqsOf("fresh-pass") : \A j \in PassMarks : j < s)
        <=> (\E s \in SeqsOf("fresh-pass")' : \A j \in PassMarks' : j < s)
  BY <1>1, <1>3, ImageReaches, MovesInOrder
<1> QED
  BY <1>4, <1>5 DEF PassOpen

(* What stands behind the last render stands behind every render.            *)
LEMMA SinceIs ==
  ASSUME led \in Seq(Range(led)), NEW e
  PROVE  Since(e) <=> \E i \in SeqsOf(e) : \A r \in Renders : r < i
<1>1. Renders \subseteq 1..Len(led) /\ Len(led) \in Nat /\ SeqsOf(e) \subseteq 1..Len(led)
  BY DEF Renders, SeqsOf
<1>2. /\ Renders = {} => LastRender = 0
      /\ Renders # {} => LastRender \in Renders /\ \A r \in Renders : r <= LastRender
  BY <1>1, NewestIs DEF LastRender, Renders
<1>3. ASSUME NEW i \in SeqsOf(e)
      PROVE  i > LastRender <=> \A r \in Renders : r < i
  <2>1. i \in Nat /\ i > 0 /\ \A r \in Renders : r \in Nat
    BY <1>1
  <2>2. CASE Renders = {}
    BY <1>2, <2>1, <2>2
  <2>3. CASE Renders # {}
    BY <1>2, <2>1, <2>3
  <2> QED
    BY <2>2, <2>3
<1> QED
  BY <1>3 DEF Since, After

LEMMA SinceIsNext ==
  ASSUME led' \in Seq(Range(led')), NEW e
  PROVE  Since(e)' <=> \E i \in SeqsOf(e)' : \A r \in Renders' : r < i
<1>1. Renders' \subseteq 1..Len(led') /\ Len(led') \in Nat /\ SeqsOf(e)' \subseteq 1..Len(led')
  BY DEF Renders, SeqsOf
<1>2. /\ Renders' = {} => LastRender' = 0
      /\ Renders' # {} => LastRender' \in Renders' /\ \A r \in Renders' : r <= LastRender'
  <2>1. LastRender' = Newest(Renders')
    BY DEF LastRender, Renders
  <2> QED
    BY <1>1, <2>1, NewestIs
<1>3. ASSUME NEW i \in SeqsOf(e)'
      PROVE  i > LastRender' <=> \A r \in Renders' : r < i
  <2>1. i \in Nat /\ i > 0 /\ \A r \in Renders' : r \in Nat
    BY <1>1
  <2>2. CASE Renders' = {}
    BY <1>2, <2>1, <2>2
  <2>3. CASE Renders' # {}
    BY <1>2, <2>1, <2>3
  <2> QED
    BY <2>2, <2>3
<1> QED
  BY <1>3 DEF Since, After

LEMMA SinceKept ==
  ASSUME LedgerIsSound, NEW x, Stamp(x), NEW e, x.e \notin {e, "verdict-rendered"}
  PROVE  Since(e)' <=> Since(e)
<1>1. PICK sh : Shifted(led, led', x, sh)
  BY StampMoves
<1>2. /\ Renders \subseteq DOMAIN sh /\ Renders' = Dest(sh, Renders)
      /\ SeqsOf(e) \subseteq DOMAIN sh /\ SeqsOf(e)' = Dest(sh, SeqsOf(e))
  BY <1>1, KindMoves DEF Renders
<1>3. (\E i \in SeqsOf(e) : \A r \in Renders : r < i) <=> (\E i \in SeqsOf(e)' : \A r \in Renders' : r < i)
  BY <1>1, <1>2, ImageReaches, MovesInOrder
<1> QED
  BY <1>3, SinceIs, SinceIsNext, StampMoves DEF LedgerIsSound

(* What is stamped stands behind the last render, unless it is a render.     *)
LEMMA StampStands ==
  ASSUME LedgerIsSound, NEW x, Stamp(x)
  PROVE  /\ Len(led') \in DOMAIN led' /\ led'[Len(led')] = x /\ \A j \in DOMAIN led' : j \in Nat /\ j <= Len(led')
         /\ x.e # "verdict-rendered" => Since(x.e)'
<1>1. PICK sh : Shifted(led, led', x, sh)
  BY StampMoves
<1>2. Len(led') \in DOMAIN led' /\ led'[Len(led')] = x /\ \A j \in DOMAIN led' : j \in Nat /\ j <= Len(led')
  BY <1>1 DEF Shifted
<1>3. ASSUME x.e # "verdict-rendered" PROVE Since(x.e)'
  <2>1. Len(led') \in SeqsOf(x.e)'
    BY <1>2 DEF SeqsOf
  <2>2. \A r \in Renders' : r < Len(led')
    BY <1>2, <1>3 DEF Renders, SeqsOf
  <2> QED
    BY <2>1, <2>2, SinceIsNext, StampMoves
<1> QED
  BY <1>2, <1>3

LEMMA RendersKept ==
  ASSUME LedgerIsSound, NEW x, Stamp(x), x.e # "verdict-rendered"
  PROVE  /\ Renders' = {} <=> Renders = {}
         /\ Renders # {} => Rendered' = Rendered
         /\ SuiteStalled' <=> SuiteStalled
<1>1. PICK sh : Shifted(led, led', x, sh)
  BY StampMoves
<1>2. Renders \subseteq DOMAIN sh /\ Renders' = Dest(sh, Renders)
  BY <1>1, KindMoves DEF Renders
<1>3. LastRender = Newest(Renders) /\ LastRender' = Newest(Renders')
  BY DEF LastRender, Renders
<1>4. /\ Renders = {} => LastRender = 0 /\ LastRender' = 0
      /\ Renders # {} => LastRender \in Renders /\ LastRender' = sh[LastRender]
  BY <1>1, <1>2, <1>3, NewestMoves DEF LedgerIsSound
<1>5. \A k \in DOMAIN sh : led'[sh[k]] = led[k] /\ k \in Nat /\ sh[k] \in Nat /\ k > 0 /\ sh[k] > 0
  BY <1>1 DEF Shifted, LedgerIsSound
<1>6. Renders # {} => Rendered' = Rendered
  BY <1>2, <1>4, <1>5 DEF Rendered
<1> DEFINE P == Renders \ {LastRender}
<1>7. Renders' \ {LastRender'} = Dest(sh, P) /\ P \subseteq DOMAIN sh
  <2>1. \A a, b \in DOMAIN sh : sh[a] = sh[b] => a = b
    BY <1>1, <1>5 DEF Shifted
  <2> QED
    BY <2>1, <1>2, <1>4 DEF Dest
<1>8. PrevRender = Newest(P) /\ PrevRender' = Newest(Renders' \ {LastRender'})
  BY DEF PrevRender, Renders
<1>9. /\ P = {} => PrevRender = 0 /\ PrevRender' = 0
      /\ P # {} => PrevRender \in P /\ PrevRender' = sh[PrevRender]
  <2> HIDE DEF P
  <2> QED
    BY <1>1, <1>7, <1>8, NewestMoves DEF LedgerIsSound
<1>10. ASSUME P = {} PROVE SuiteStalled' <=> SuiteStalled
  <2>1. ~(PrevRender > 0) /\ ~(PrevRender' > 0)
    BY <1>9, <1>10
  <2>2. ~SuiteStalled
    BY <2>1 DEF SuiteStalled
  <2>3. ~SuiteStalled'
    BY <2>1 DEF SuiteStalled
  <2> QED
    BY <2>2, <2>3
<1>11. ASSUME P # {} PROVE SuiteStalled' <=> SuiteStalled
  <2>1. led'[PrevRender'] = led[PrevRender] /\ (PrevRender' > 0 <=> PrevRender > 0) /\ Rendered' = Rendered
    BY <1>5, <1>6, <1>7, <1>9, <1>11
  <2>2. SuiteStalled <=> PrevRender > 0 /\ Rendered.refroze /\ led[PrevRender].open \cap Rendered.open \cap SuiteKinds # {}
    BY DEF SuiteStalled
  <2>3. SuiteStalled' <=> PrevRender' > 0 /\ Rendered'.refroze /\ led'[PrevRender'].open \cap Rendered'.open \cap SuiteKinds # {}
    BY DEF SuiteStalled, SuiteKinds
  <2> QED
    BY <2>1, <2>2, <2>3
<1>12. Renders' = {} <=> Renders = {}
  BY <1>2 DEF Dest
<1> QED
  BY <1>6, <1>10, <1>11, <1>12

LEMMA RendersAre ==
  ASSUME led \in Seq(Range(led))
  PROVE  /\ LastRender > 0 <=> Renders # {}
         /\ Renders = {} => LastRender = 0
         /\ Renders # {} => LastRender \in DOMAIN led /\ Rendered \in Range(led) /\ Rendered.e = "verdict-rendered"
<1>1. Renders \subseteq 1..Len(led) /\ Len(led) \in Nat /\ LastRender = Newest(Renders)
  BY DEF Renders, SeqsOf, LastRender
<1>2. /\ Renders = {} => LastRender = 0
      /\ Renders # {} => LastRender \in Renders
  BY <1>1, NewestIs
<1>3. \A i \in Renders : i > 0 /\ i \in DOMAIN led /\ led[i] \in Range(led) /\ led[i].e = "verdict-rendered"
  BY <1>1 DEF Renders, SeqsOf, Range
<1> QED
  BY <1>2, <1>3 DEF Rendered

LEMMA RendersAreNext ==
  ASSUME led' \in Seq(Range(led'))
  PROVE  LastRender' > 0 <=> Renders' # {}
<1>1. Renders' \subseteq 1..Len(led') /\ Len(led') \in Nat /\ LastRender' = Newest(Renders')
  BY DEF Renders, SeqsOf, LastRender
<1>2. /\ Renders' = {} => LastRender' = 0
      /\ Renders' # {} => LastRender' \in Renders'
  BY <1>1, NewestIs
<1>3. \A i \in Renders' : i > 0
  BY <1>1
<1> QED
  BY <1>2, <1>3

LEMMA RefreezeKept ==
  ASSUME LedgerIsSound, NEW x, Stamp(x), x.e # "verdict-rendered"
  PROVE  /\ RefreezeOwed' => RefreezeOwed
         /\ x.e = "re-freeze" => ~RefreezeOwed'
<1>1. led \in Seq(Range(led)) /\ led' \in Seq(Range(led'))
  BY StampMoves DEF LedgerIsSound
<1>2. CASE x.e = "re-freeze"
  <2>1. Since("re-freeze")'
    BY <1>2, StampStands
  <2> QED
    BY <2>1 DEF RefreezeOwed
<1>3. CASE x.e # "re-freeze"
  <2>1. Since("re-freeze")' <=> Since("re-freeze")
    BY <1>3, SinceKept
  <2>2. /\ Renders' # {} <=> Renders # {}
        /\ Renders # {} => Rendered' = Rendered
        /\ SuiteStalled' <=> SuiteStalled
    BY RendersKept
  <2>3. /\ LastRender' > 0 <=> Renders' # {}
        /\ LastRender > 0 <=> Renders # {}
    BY <1>1, RendersAre, RendersAreNext
  <2>4. RefreezeOwed' => /\ LastRender' > 0 /\ ~Since("re-freeze")'
                         /\ Rendered'.open \cap SuiteKinds # {} /\ ~SuiteStalled'
    BY DEF RefreezeOwed, SuiteKinds
  <2>5. /\ LastRender > 0 /\ ~Since("re-freeze")
        /\ Rendered.open \cap SuiteKinds # {} /\ ~SuiteStalled
        => RefreezeOwed
    BY DEF RefreezeOwed, SuiteKinds
  <2> QED
    BY <1>3, <2>1, <2>2, <2>3, <2>4, <2>5
<1> QED
  BY <1>2, <1>3

Marks == {"verdict-rendered", "implementation-committed", "repair-no-change", "repair-round", "fresh-pass"}

(* A step whose stamp moves no round, no pass and no render.                 *)
Quiet == /\ LedgerIsSound'
         /\ RepairOpen' <=> RepairOpen
         /\ PassOpen' <=> PassOpen
         /\ Renders' # {} <=> Renders # {}
         /\ Climbs' <=> Climbs
         /\ RefreezeOwed' => RefreezeOwed
         /\ PassesAreSound => PassesAreSound'

LEMMA QuietStamp ==
  ASSUME LedgerIsSound, NEW x, Sound(x), Stamp(x), x.e \notin Marks,
         x.e = "seat-spawned" => x.of # "repair-dev"
  PROVE  Quiet
<1>1. LedgerIsSound'
  BY StampMoves DEF LedgerIsSound
<1>2. RepairOpen' <=> RepairOpen
  BY RoundKept DEF Marks
<1>3. PassOpen' <=> PassOpen
  BY PassKept DEF Marks
<1>4. /\ Renders' # {} <=> Renders # {}
      /\ Renders # {} => Rendered' = Rendered
  BY RendersKept DEF Marks
<1>5. /\ Since("fresh-pass")' <=> Since("fresh-pass")
      /\ Since("implementation-committed")' <=> Since("implementation-committed")
  BY SinceKept DEF Marks
<1>6. Climbs' <=> Climbs
  <2>1. OnTheLadder' <=> OnTheLadder
    BY <1>4 DEF OnTheLadder
  <2> QED
    BY <2>1, <1>3, <1>5 DEF Climbs
<1>7. RefreezeOwed' => RefreezeOwed
  BY RefreezeKept DEF Marks
<1>8. PassesAreSound => PassesAreSound'
  BY <1>3, <1>5, <1>7 DEF PassesAreSound
<1> QED
  BY <1>1, <1>2, <1>3, <1>4, <1>6, <1>7, <1>8 DEF Quiet

LEMMA QuietGo ==
  ASSUME LedgerIsSound, UNCHANGED led
  PROVE  Quiet
<1>1. RepairOpen' = RepairOpen /\ PassOpen' = PassOpen /\ Renders' = Renders
  BY DEF RepairOpen, PassOpen, Renders, RoundMarks, PassMarks, Seqs, SeqsOf
<1>2. LedgerIsSound'
  BY DEF LedgerIsSound
<1>3. LastRender' = LastRender /\ Rendered' = Rendered /\ PrevRender' = PrevRender
  BY DEF LastRender, Rendered, PrevRender, SeqsOf
<1>4. SuiteStalled' = SuiteStalled /\ \A e : Since(e)' = Since(e)
  BY <1>3 DEF SuiteStalled, Since, SeqsOf
<1>5. RefreezeOwed' = RefreezeOwed
  BY <1>3, <1>4 DEF RefreezeOwed
<1>6. Climbs' = Climbs
  BY <1>1, <1>3, <1>4 DEF Climbs, OnTheLadder
<1>7. PassesAreSound' = PassesAreSound
  BY <1>1, <1>4, <1>5 DEF PassesAreSound
<1> QED
  BY <1>1, <1>2, <1>5, <1>6, <1>7 DEF Quiet

LEMMA DefectsKept ==
  ASSUME LedgerIsSound, NEW x, Stamp(x), x.e = "operational-fix", Renders # {}
  PROVE  SuiteDefects' = SuiteDefects
<1>1. PICK sh : Shifted(led, led', x, sh)
  BY StampMoves
<1>2. /\ Renders' # {} /\ Rendered' = Rendered
      /\ SuiteStalled' <=> SuiteStalled
  BY RendersKept
<1>3. "conflict-triage" # x.e /\ "re-freeze" # x.e /\ "verdict-rendered" # x.e
  OBVIOUS
<1> DEFINE T == Seqs("conflict-triage", "repair")
           F == SeqsOf("re-freeze")
<1>4. /\ T \subseteq DOMAIN sh /\ T' = Dest(sh, T)
      /\ F \subseteq DOMAIN sh /\ F' = Dest(sh, F)
      /\ Renders \subseteq DOMAIN sh /\ Renders' = Dest(sh, Renders)
  BY <1>1, <1>3, KindMoves DEF Renders
<1>5. /\ LastRender = Newest(Renders) /\ LastRender' = Newest(Renders')
      /\ LastRender \in DOMAIN sh /\ LastRender' = sh[LastRender]
  <2>1. LastRender = Newest(Renders) /\ LastRender' = Newest(Renders')
    BY DEF LastRender, Renders
  <2> QED
    BY <2>1, <1>1, <1>4, NewestMoves DEF LedgerIsSound
<1> HIDE DEF T, F
<1>6. /\ T = {} => Newest(T) = 0 /\ Newest(T') = 0
      /\ T # {} => Newest(T) \in T /\ Newest(T') = sh[Newest(T)]
  BY <1>1, <1>4, NewestMoves DEF LedgerIsSound
<1>7. /\ Fresh = IF Newest(T) > LastRender /\ ~After(F, Newest(T)) THEN led[Newest(T)].found ELSE {}
      /\ Fresh' = IF Newest(T') > LastRender' /\ ~After(F', Newest(T')) THEN led'[Newest(T')].found ELSE {}
  BY DEF Fresh, TriageOf, T, F
<1>8. /\ \A k \in DOMAIN sh : k \in Nat /\ k > 0 /\ sh[k] \in Nat /\ sh[k] > 0 /\ led'[sh[k]] = led[k]
      /\ \A a, b \in DOMAIN sh : a < b <=> sh[a] < sh[b]
  BY <1>1 DEF Shifted, LedgerIsSound
<1>9. Fresh' = Fresh
  <2>1. CASE T = {}
    BY <2>1, <1>5, <1>6, <1>7, <1>8
  <2>2. CASE T # {}
    <3> DEFINE n == Newest(T)
               m == Newest(T')
    <3>1. n \in DOMAIN sh /\ m = sh[n]
      BY <2>2, <1>4, <1>6
    <3>2. n > LastRender <=> m > LastRender'
      BY <3>1, <1>5, <1>8
    <3>3. After(F, n) <=> After(F', m)
      BY <3>1, <1>4, <1>8 DEF After, Dest
    <3>4. led'[m] = led[n]
      BY <3>1, <1>8
    <3> HIDE DEF n, m
    <3> QED
      BY <3>2, <3>3, <3>4, <1>7 DEF n, m
  <2> QED
    BY <2>1, <2>2
<1> QED
  BY <1>2, <1>9 DEF SuiteDefects, SuiteKinds

---------------------------------------------------------------------------
(* What the steps have in common. *)

NoAbandon == \A x \in Range(led) : x.e = "answer" => x.why # "abandon"

LEMMA Unabandoned ==
  ASSUME LoopInv, at.pc # "closed", at.pc = "enter" => ~AbandonedClose
  PROVE  NoAbandon
BY DEF LoopInv, RecordIsSound, AnswersAreKept, NoAbandon

LEMMA EventIsSound ==
  ASSUME NEW e, NEW of, NEW why, e \notin {"verdict-rendered", "re-freeze", "answer"}
  PROVE  Sound(Event(e, of, why)) /\ Event(e, of, why).e = e /\ Event(e, of, why).of = of
BY DEF Sound, Event

LEMMA QuietFrame ==
  ASSUME LoopInv, NoAbandon, Quiet, UNCHANGED tally, code' \in CodeTypes,
         \A y \in Range(led') : y.e = "answer" => y \in Range(led)
  PROVE  RecordIsSound'
<1>1. LedgerIsSound'
  BY DEF Quiet
<1>2. AnswersAreKept'
  BY DEF AnswersAreKept, NoAbandon, LoopInv, RecordIsSound
<1>3. CountsAreSound'
  BY DEF Quiet, CountsAreSound, Room, LoopInv, RecordIsSound
<1>4. PassesAreSound'
  BY DEF Quiet, LoopInv, RecordIsSound
<1> QED
  BY <1>1, <1>2, <1>3, <1>4 DEF RecordIsSound

(* A step that stamps nothing. *)
LEMMA GoFrame ==
  ASSUME LoopInv, NoAbandon, UNCHANGED <<led, tally>>, code' \in CodeTypes
  PROVE  RecordIsSound' /\ Quiet
<1>1. Quiet
  BY QuietGo DEF LoopInv, RecordIsSound
<1> QED
  BY <1>1, QuietFrame

(* A step that stamps an event which is no mark and no answer. *)
LEMMA StampFrame ==
  ASSUME LoopInv, NoAbandon, NEW x, Stamp(x), Sound(x), x.e \notin Marks, x.e # "answer",
         x.e = "seat-spawned" => x.of # "repair-dev",
         UNCHANGED tally, code' \in CodeTypes
  PROVE  RecordIsSound' /\ Quiet
<1>1. LedgerIsSound
  BY DEF LoopInv, RecordIsSound
<1>2. Quiet
  BY <1>1, QuietStamp
<1>3. \A y \in Range(led') : y.e = "answer" => y \in Range(led)
  BY <1>1, StampMoves
<1> QED
  BY <1>2, <1>3, QuietFrame

(* Places that ask nothing of the record. *)
LEMMA ElsewhereIsSound ==
  ASSUME at'.pc \in {"enter", "ask", "closed", "loop", "left", "cycle"}, at'.pc = "loop" => ~PassOpen'
  PROVE  PlacesAreSound'
BY DEF PlacesAreSound, SeatsAreSound, SeatPlaces, CommitsAreSound, LadderIsSound, LadderPlaces, CyclesAreSound, ParksAreSound

LEMMA CleanIsKnown ==
  ASSUME ~code'.dirty
  PROVE  EditsAreKnown'
BY DEF EditsAreKnown

(* No seat's edits are in the tree here. *)
LEMMA CleanHere ==
  ASSUME LoopInv, at.pc \notin {"enter", "ask", "parked", "closed", "commit"} \cup SeatPlaces
  PROVE  ~code.dirty
BY DEF LoopInv, EditsAreKnown

LEMMA AsksOrCloses ==
  ASSUME NEW type, NEW why
  PROVE  /\ Ask(type, why).pc = "ask"
         /\ Recover(type, why).pc \in {"ask", "closed"}
BY DEF Ask, Recover, Pc

LEMMA InitIsSound == VerdictInit => LoopInv
<1> SUFFICES ASSUME VerdictInit PROVE LoopInv
  OBVIOUS
<1> DEFINE first == Implementation("initial", TRUE)
<1>1. led = <<first>> /\ Range(led) = {first} /\ DOMAIN led = {1}
  <2>1. led = <<first>>
    BY DEF VerdictInit
  <2> HIDE DEF first
  <2>2. DOMAIN led = {1} /\ led[1] = first
    BY <2>1
  <2> QED
    BY <2>1, <2>2 DEF Range
<1>2. /\ first.e = "implementation-committed" /\ DOMAIN first = {"e", "of", "why", "reaches"}
  BY DEF Implementation
<1> HIDE DEF first
<1>3. LedgerIsSound
  <2>1. led \in Seq(Range(led))
    BY <1>1
  <2>2. Sound(first)
    BY <1>2 DEF Sound
  <2> QED
    BY <2>1, <2>2, <1>1 DEF LedgerIsSound
<1>4. Renders = {} /\ SeqsOf("fresh-pass") = {} /\ SeqsOf("answer") = {}
  BY <1>1, <1>2 DEF Renders, SeqsOf
<1>5. ~RepairOpen /\ ~PassOpen /\ ~Since("fresh-pass")
  BY <1>4 DEF RepairOpen, PassOpen, Since, After
<1>6. AnswersAreKept
  BY <1>1, <1>2 DEF AnswersAreKept
<1>7. CountsAreSound
  BY <1>5, CapIsANumber DEF VerdictInit, CountsAreSound, Tally, TallyTypes, CodeTypes
<1>8. PassesAreSound
  BY <1>5 DEF PassesAreSound
<1>9. at.pc = "enter" /\ ~code.dirty
  BY DEF VerdictInit, Pc
<1>10. PlacesAreSound
  BY <1>9 DEF PlacesAreSound, SeatsAreSound, SeatPlaces, CommitsAreSound, LadderIsSound, LadderPlaces, CyclesAreSound, ParksAreSound
<1>11. EditsAreKnown
  BY <1>9 DEF EditsAreKnown
<1> QED
  BY <1>3, <1>6, <1>7, <1>8, <1>10, <1>11 DEF LoopInv, RecordIsSound

---------------------------------------------------------------------------
(* The steps of every lane. *)

LEMMA ParkKeeps ==
  ASSUME LoopInv, Park, UNCHANGED tree
  PROVE  LoopInv'
<1>1. NoAbandon /\ code' \in CodeTypes /\ UNCHANGED tally /\ UNCHANGED code
  BY Unabandoned DEF Park, tree, LoopInv, RecordIsSound, CountsAreSound
<1> DEFINE x == Event("park", at.type, at.why)
<1>2. Stamp(x) /\ at' = Pc("parked")
  BY DEF Park, StampAndGo
<1>3. Sound(x) /\ x.e = "park"
  BY EventIsSound
<1> HIDE DEF x
<1>4. RecordIsSound' /\ Quiet
  BY <1>1, <1>2, <1>3, StampFrame DEF Marks
<1>5. at'.pc = "parked"
  BY <1>2 DEF Pc
<1>6. ParksAreSound'
  <2>1. Len(led') \in DOMAIN led' /\ led'[Len(led')] = x
    BY <1>2, StampStands DEF LoopInv, RecordIsSound
  <2> QED
    BY <2>1, <1>3 DEF ParksAreSound
<1>7. PlacesAreSound'
  BY <1>5, <1>6 DEF PlacesAreSound, SeatsAreSound, SeatPlaces, CommitsAreSound, LadderIsSound, LadderPlaces, CyclesAreSound
<1>8. EditsAreKnown'
  BY <1>1, <1>4, <1>5 DEF EditsAreKnown, Quiet, Open, LoopInv, Park, SeatPlaces
<1> QED
  BY <1>4, <1>7, <1>8 DEF LoopInv

LEMMA AbandonGuardKeeps ==
  ASSUME LoopInv, AbandonGuard, UNCHANGED tree
  PROVE  LoopInv'
<1>1. at' = Pc("closed") /\ UNCHANGED <<led, tally, code>> /\ at'.pc = "closed"
  BY DEF AbandonGuard, Go, tree, Pc
<1>2. Quiet
  BY <1>1, QuietGo DEF LoopInv, RecordIsSound
<1>3. RecordIsSound'
  BY <1>1, <1>2 DEF Quiet, LoopInv, RecordIsSound, AnswersAreKept, CountsAreSound, Room
<1>4. PlacesAreSound'
  BY <1>1, ElsewhereIsSound
<1>5. EditsAreKnown'
  BY <1>1 DEF EditsAreKnown, SeatPlaces
<1> QED
  BY <1>3, <1>4, <1>5 DEF LoopInv

LEMMA RefreshKeeps ==
  ASSUME LoopInv, RefreshForRetry, UNCHANGED tree
  PROVE  LoopInv'
<1>1. at.pc = "enter" /\ at' = at /\ UNCHANGED <<tally, code>> /\ code' \in CodeTypes
  BY DEF RefreshForRetry, StampAndGo, tree, LoopInv, RecordIsSound, CountsAreSound
<1>2. NoAbandon
  BY <1>1, Unabandoned DEF RefreshForRetry, RefreshOwed, AbandonedClose
<1> DEFINE x == Event("tree-refreshed", "", "")
<1>3. Stamp(x) /\ Sound(x) /\ x.e = "tree-refreshed"
  <2>1. Stamp(x)
    BY DEF RefreshForRetry, StampAndGo
  <2>2. Sound(x) /\ x.e = "tree-refreshed"
    BY DEF Sound, Event
  <2> QED
    BY <2>1, <2>2
<1> HIDE DEF x
<1>4. RecordIsSound' /\ Quiet
  BY <1>1, <1>2, <1>3, StampFrame DEF Marks
<1>5. PlacesAreSound'
  BY <1>1, ElsewhereIsSound
<1>6. EditsAreKnown'
  BY <1>1, <1>4 DEF EditsAreKnown, Quiet, Open, LoopInv, SeatPlaces
<1> QED
  BY <1>4, <1>5, <1>6 DEF LoopInv

LEMMA CrashKeeps ==
  ASSUME LoopInv, VerdictCrash
  PROVE  LoopInv'
<1>1. at.pc \notin {"enter", "closed"} /\ at' = Pc("enter") /\ at'.pc = "enter" /\ UNCHANGED <<led, code>>
  BY DEF VerdictCrash, Crash, Pc
<1>2. NoAbandon /\ code' \in CodeTypes /\ CountsAreSound /\ Quiet
  BY <1>1, Unabandoned, QuietGo DEF LoopInv, RecordIsSound, CountsAreSound
<1>3. RecordIsSound' /\ Quiet
  <2>1. tally' \in TallyTypes /\ tally'.rounds = tally.rounds /\ tally'.again = tally.again
    <3>1. PICK n \in Nat : tally' = [tally EXCEPT !.lost = @ + n]
      BY DEF VerdictCrash
    <3>2. tally \in TallyTypes
      BY <1>2 DEF CountsAreSound
    <3> QED
      BY <3>1, <3>2 DEF TallyTypes
  <2>2. CountsAreSound'
    BY <1>2, <2>1 DEF Quiet, CountsAreSound, Room
  <2>3. AnswersAreKept'
    BY <1>1, <1>2, <2>1 DEF LoopInv, RecordIsSound, AnswersAreKept, NoAbandon
  <2> QED
    BY <1>2, <2>2, <2>3 DEF Quiet, LoopInv, RecordIsSound
<1>4. PlacesAreSound'
  BY <1>1, ElsewhereIsSound
<1>5. EditsAreKnown'
  BY <1>1, <1>3 DEF EditsAreKnown, Quiet, Open, LoopInv, SeatPlaces
<1> QED
  BY <1>3, <1>4, <1>5 DEF LoopInv

(* A repair seat that is spawned behind a render opens its round.            *)
LEMMA SpawnOpens ==
  ASSUME LedgerIsSound, NEW x, Stamp(x), x.e = "seat-spawned", x.of = "repair-dev", Renders # {}
  PROVE  RepairOpen'
<1>1. Len(led') \in DOMAIN led' /\ led'[Len(led')] = x /\ \A j \in DOMAIN led' : j \in Nat /\ j <= Len(led')
  BY StampStands
<1>2. Renders' # {}
  BY RendersKept
<1>3. Len(led') \in Seqs("seat-spawned", "repair-dev")'
  BY <1>1 DEF Seqs
<1>4. \A j \in RoundMarks' : j < Len(led')
  BY <1>1 DEF RoundMarks, Renders, SeqsOf
<1> QED
  BY <1>2, <1>3, <1>4 DEF RepairOpen

LEMMA DispatchKeeps ==
  ASSUME LoopInv, Dispatch, UNCHANGED tree
  PROVE  LoopInv'
<1>1. at.pc = "dispatch" /\ UNCHANGED <<tally, code>> /\ code' \in CodeTypes /\ NoAbandon
  BY Unabandoned DEF Dispatch, tree, LoopInv, RecordIsSound, CountsAreSound
<1>2. SeatsAreSound /\ at \in [pc : {"dispatch"}, seat : {at.seat}, try : {at.try}, limit : {at.limit}, task : {at.task}]
  BY <1>1 DEF LoopInv, PlacesAreSound, SeatsAreSound, SeatPlaces
<1>3. at' = [at EXCEPT !.pc = "out"] /\ (UNCHANGED led \/ Stamp(Event("seat-spawned", at.seat, "")))
  BY DEF Dispatch, StampAndGo, Go
<1>4. /\ at'.pc = "out" /\ at'.seat = at.seat /\ at'.task = at.task /\ at'.try = at.try /\ at'.limit = at.limit
      /\ at' = [pc |-> at'.pc, seat |-> at'.seat, try |-> at'.try, limit |-> at'.limit, task |-> at'.task]
  BY <1>2, <1>3
<1>5. LedgerIsSound /\ CountsAreSound /\ PassesAreSound
  BY DEF LoopInv, RecordIsSound
<1>6. CASE at.seat = "repair-dev"
  <2> DEFINE x == Event("seat-spawned", "repair-dev", "")
  <2>1. Stamp(x)
    BY <1>3, <1>6 DEF Dispatch, StampAndGo
  <2>2. Sound(x) /\ x.e = "seat-spawned" /\ x.of = "repair-dev"
    BY DEF Sound, Event
  <2> HIDE DEF x
  <2>3. Renders # {} /\ Room
    BY <1>1, <1>2, <1>6 DEF SeatsAreSound, SeatPlaces
  <2>4. RepairOpen'
    BY <1>5, <2>1, <2>2, <2>3, SpawnOpens
  <2>5. LedgerIsSound' /\ \A y \in Range(led') : y.e = "answer" => y \in Range(led)
    BY <1>5, <2>1, <2>2, StampMoves DEF LedgerIsSound
  <2>6. PassOpen' <=> PassOpen
    BY <1>5, <2>1, <2>2, PassKept
  <2>7. PassesAreSound'
    <3>1. RefreezeOwed' => RefreezeOwed
      BY <1>5, <2>1, <2>2, RefreezeKept
    <3>2. /\ Since("fresh-pass")' <=> Since("fresh-pass")
          /\ Since("implementation-committed")' <=> Since("implementation-committed")
      BY <1>5, <2>1, <2>2, SinceKept
    <3> QED
      BY <1>5, <2>6, <3>1, <3>2 DEF PassesAreSound
  <2>8. CountsAreSound' /\ Room'
    BY <1>1, <1>5, <2>3 DEF CountsAreSound, Room
  <2>9. AnswersAreKept'
    BY <1>1, <2>5 DEF AnswersAreKept, NoAbandon, LoopInv, RecordIsSound
  <2>10. RecordIsSound'
    BY <2>5, <2>7, <2>8, <2>9 DEF RecordIsSound
  <2>11. Renders' # {}
    BY <2>4 DEF RepairOpen
  <2>12. SeatsAreSound'
    BY <1>1, <1>2, <1>4, <1>6, <2>4, <2>6, <2>8, <2>11 DEF SeatsAreSound, SeatPlaces, DevSeats
  <2>13. PlacesAreSound'
    BY <1>4, <2>12 DEF PlacesAreSound, CommitsAreSound, LadderIsSound, LadderPlaces, CyclesAreSound, ParksAreSound
  <2>14. EditsAreKnown'
    BY <1>4, <1>6, <2>4 DEF EditsAreKnown, Open, SeatPlaces, DevSeats
  <2> QED
    BY <2>10, <2>13, <2>14 DEF LoopInv
<1>7. CASE at.seat # "repair-dev"
  <2>1. RecordIsSound' /\ Quiet
    <3>1. CASE UNCHANGED led
      BY <1>1, <3>1, GoFrame
    <3>2. CASE Stamp(Event("seat-spawned", at.seat, ""))
      <4> DEFINE x == Event("seat-spawned", at.seat, "")
      <4>1. Sound(x) /\ x.e = "seat-spawned" /\ x.of = at.seat
        BY DEF Sound, Event
      <4> HIDE DEF x
      <4> QED
        BY <1>1, <1>7, <3>2, <4>1, StampFrame DEF Marks, x
    <3> QED
      BY <1>3, <3>1, <3>2
  <2>2. SeatsAreSound'
    BY <1>1, <1>2, <1>4, <1>7, <2>1 DEF SeatsAreSound, SeatPlaces, DevSeats, Quiet
  <2>3. PlacesAreSound'
    BY <1>4, <2>2 DEF PlacesAreSound, CommitsAreSound, LadderIsSound, LadderPlaces, CyclesAreSound, ParksAreSound
  <2>4. EditsAreKnown'
    BY <1>1, <1>4, <2>1 DEF EditsAreKnown, Open, SeatPlaces, DevSeats, Quiet, LoopInv
  <2> QED
    BY <2>1, <2>3, <2>4 DEF LoopInv
<1> QED
  BY <1>6, <1>7

LEMMA NoReportKeeps ==
  ASSUME LoopInv, NoReport, UNCHANGED tree
  PROVE  LoopInv'
<1>1. at.pc = "out" /\ UNCHANGED <<tally, code>> /\ code' \in CodeTypes /\ NoAbandon
  BY Unabandoned DEF NoReport, tree, LoopInv, RecordIsSound, CountsAreSound
<1> DEFINE x == Event("seat-failure", at.seat, "no-report")
<1>2. Stamp(x) /\ at' = SeatFail(at.seat)
  BY DEF NoReport, StampAndGo
<1>3. Sound(x) /\ x.e = "seat-failure"
  BY DEF Sound, Event
<1> HIDE DEF x
<1>4. RecordIsSound' /\ Quiet
  BY <1>1, <1>2, <1>3, StampFrame DEF Marks
<1>5. at'.pc \in {"ask", "closed"}
  BY <1>2, AsksOrCloses DEF SeatFail
<1>6. PlacesAreSound'
  BY <1>5, ElsewhereIsSound
<1>7. EditsAreKnown'
  BY <1>1, <1>4, <1>5 DEF EditsAreKnown, Quiet, Open, LoopInv, SeatPlaces
<1> QED
  BY <1>4, <1>6, <1>7 DEF LoopInv

(* The answer that abandons the run answers its last park.                   *)
LEMMA AbandonIsRead ==
  ASSUME LedgerIsSound, ParksAreSound, at.pc = "parked", NEW x, Stamp(x),
         x.e = "answer", x.of = led[LastPark].of, x.why = "abandon"
  PROVE  AbandonedClose'
<1>1. PICK sh : Shifted(led, led', x, sh)
  BY StampMoves
<1>2. led \in Seq(Range(led)) /\ Len(led) \in Nat /\ DOMAIN led = 1..Len(led) /\ led # << >> /\ led[Len(led)].e = "park"
  BY DEF LedgerIsSound, ParksAreSound
<1>3. SeqsOf("park") # {} /\ SeqsOf("park") \subseteq DOMAIN sh /\ SeqsOf("park")' = Dest(sh, SeqsOf("park"))
  <2>1. Len(led) \in SeqsOf("park")
    BY <1>2 DEF SeqsOf
  <2>2. "park" # x.e
    OBVIOUS
  <2> QED
    BY <2>1, <2>2, <1>1, KindMoves
<1>4. LastPark \in SeqsOf("park") /\ LastPark' = sh[LastPark]
  <2>1. LastPark = Newest(SeqsOf("park")) /\ LastPark' = Newest(SeqsOf("park")')
    BY DEF LastPark
  <2> QED
    BY <2>1, <1>1, <1>2, <1>3, NewestMoves
<1>5. /\ LastPark' \in 1..(Len(led') - 1) /\ led'[LastPark'] = led[LastPark]
      /\ Len(led') \in Nat /\ DOMAIN led' = 1..Len(led') /\ led'[Len(led')] = x
  BY <1>1, <1>3, <1>4 DEF Shifted
<1> DEFINE A == {i \in Seqs("answer", led[LastPark].of)' : i > LastPark'}
<1>6. Seqs("answer", led[LastPark].of)' = {i \in DOMAIN led' : led'[i].e = "answer" /\ led'[i].of = led'[LastPark'].of}
  BY DEF Seqs
<1>7. A \subseteq 1..Len(led') /\ Len(led') \in A
  BY <1>5, <1>6
<1>8. AnswerTo(LastPark)' = Newest(A)
  BY DEF AnswerTo
<1>9. Newest(A) = Len(led')
  <2> HIDE DEF A
  <2>1. Newest(A) \in 0..Len(led') /\ Len(led') <= Newest(A)
    BY <1>5, <1>7, NewestIs
  <2> QED
    BY <2>1, <1>5
<1>10. Answered(LastPark)'
  BY <1>5, <1>8, <1>9 DEF Answered
<1>11. led'[AnswerTo(LastPark)'].why = "abandon"
  BY <1>5, <1>8, <1>9
<1> QED
  BY <1>10, <1>11 DEF AbandonedClose, Abandoned

LEMMA AnswerKeeps ==
  ASSUME LoopInv, VerdictAnswer
  PROVE  LoopInv'
<1>1. /\ at.pc = "parked" /\ at'.pc = "enter" /\ NoAbandon /\ UNCHANGED code
      /\ LedgerIsSound /\ ParksAreSound /\ CountsAreSound /\ PassesAreSound /\ AnswersAreKept
  BY Unabandoned DEF VerdictAnswer, Answer, Pc, LoopInv, RecordIsSound, PlacesAreSound
<1> DEFINE type == led[LastPark].of
<1>2. PICK option \in Options(type) \union {"abandon"} : Stamp(Event("answer", type, option))
  BY DEF VerdictAnswer, Answer
<1> DEFINE x == Event("answer", type, option)
<1>3. Sound(x) /\ x.e = "answer" /\ x.of = type /\ x.why = option
  <2>1. type = "second-stall" => option \in {"repair-again", "fresh-pass", "abandon"}
    BY DEF Options, RecoveryParks
  <2> QED
    BY <2>1 DEF Sound, Event
<1> HIDE DEF x
<1>4. Stamp(x)
  BY <1>2 DEF x
<1>5. Quiet
  BY <1>1, <1>3, <1>4, QuietStamp DEF Marks
<1>6. led'[Len(led')] = x /\ \A y \in Range(led') : y = x \/ y \in Range(led)
  BY <1>1, <1>4, StampStands, StampMoves
<1>7. tally' = [tally EXCEPT !.again = @ + (IF option = "repair-again" THEN 1 ELSE 0),
                             !.freshAnswers = @ + (IF option = "fresh-pass" THEN 1 ELSE 0)]
  BY <1>3, <1>6 DEF VerdictAnswer
<1>8. /\ tally' \in TallyTypes /\ tally'.rounds = tally.rounds
      /\ tally'.again \in Nat /\ tally'.again >= tally.again
      /\ option = "repair-again" => tally'.again > 0
  <2> DEFINE a == IF option = "repair-again" THEN 1 ELSE 0
             f == IF option = "fresh-pass" THEN 1 ELSE 0
  <2>1. a \in Nat /\ f \in Nat /\ (option = "repair-again" => a = 1)
    OBVIOUS
  <2>2. tally \in TallyTypes /\ tally' = [tally EXCEPT !.again = @ + a, !.freshAnswers = @ + f]
    BY <1>1, <1>7 DEF CountsAreSound
  <2> HIDE DEF a, f
  <2>3. /\ tally'.rounds = tally.rounds /\ tally'.again = tally.again + a /\ tally.again \in Nat
        /\ tally.freshAnswers + f \in Nat
    BY <2>1, <2>2 DEF TallyTypes
  <2>4. tally.again + a \in Nat
    BY <2>1, <2>3
  <2>5. tally' \in TallyTypes
    BY <2>2, <2>3, <2>4 DEF TallyTypes
  <2> QED
    BY <2>1, <2>3, <2>4, <2>5
<1>9. CountsAreSound'
  <2>1. tally.again \in Nat /\ (tally'.again = 0 => tally.again = 0)
    BY <1>1, <1>8 DEF CountsAreSound, TallyTypes
  <2> QED
    BY <1>1, <1>5, <1>8, <2>1 DEF CountsAreSound, Quiet, Room
<1>10. AnswersAreKept'
  <2> SUFFICES ASSUME NEW y \in Range(led'), y.e = "answer"
               PROVE  /\ y.why = "repair-again" => tally'.again > 0
                      /\ y.why = "abandon" => AbandonedClose'
    BY <1>1 DEF AnswersAreKept
  <2>1. CASE y = x
    BY <2>1, <1>1, <1>3, <1>4, <1>8, AbandonIsRead
  <2>2. CASE y \in Range(led)
    <3>1. y.why # "abandon" /\ (y.why = "repair-again" => tally.again > 0)
      BY <2>2, <1>1 DEF NoAbandon, AnswersAreKept
    <3>2. tally.again \in Nat
      BY <1>1 DEF CountsAreSound, TallyTypes
    <3> QED
      BY <3>1, <3>2, <1>8
  <2> QED
    BY <2>1, <2>2, <1>6
<1>11. RecordIsSound'
  BY <1>1, <1>5, <1>9, <1>10 DEF Quiet, RecordIsSound
<1>12. PlacesAreSound'
  BY <1>1, ElsewhereIsSound
<1>13. EditsAreKnown'
  BY <1>1, <1>5 DEF EditsAreKnown, Quiet, Open, LoopInv, SeatPlaces
<1> QED
  BY <1>11, <1>12, <1>13 DEF LoopInv

(* The step a stop left unfinished is the one that is open.                  *)
LEMMA InterruptedIs ==
  ASSUME LedgerIsSound
  PROVE  /\ InterruptedStep = "fresh-pass" => PassOpen
         /\ InterruptedStep = "repair-round" => RepairOpen /\ ~PassOpen
         /\ Open => InterruptedStep \in {"fresh-pass", "repair-round"}
<1>1. led \in Seq(Range(led)) /\ Len(led) \in Nat /\ DOMAIN led = 1..Len(led)
  BY DEF LedgerIsSound
<1>2. /\ LastRender > 0 <=> Renders # {}
      /\ Renders = {} => LastRender = 0
      /\ Renders # {} => LastRender \in Renders /\ \A r \in Renders : r <= LastRender
  <2>1. Renders \subseteq 1..Len(led) /\ LastRender = Newest(Renders)
    BY <1>1 DEF Renders, SeqsOf, LastRender
  <2> QED
    BY <2>1, <1>1, NewestIs, RendersAre
<1> DEFINE B == UNION {SeqsOf(e) : e \in {"fresh-pass", "repair-round", "repair-no-change", "verdict-rendered"}}
           I == SeqsOf("implementation-committed")
           F == SeqsOf("fresh-pass")
           P == Seqs("seat-spawned", "repair-dev")
           spawn == Newest(P)
<1>3. /\ B \subseteq 1..Len(led) /\ Boundary = Newest(B)
      /\ B = F \cup SeqsOf("repair-round") \cup SeqsOf("repair-no-change") \cup Renders
      /\ PassMarks = (B \ F) \cup I
  <2>1. F \cap (SeqsOf("repair-round") \cup SeqsOf("repair-no-change") \cup Renders) = {}
    BY DEF SeqsOf, Renders
  <2> QED
    BY <2>1, <1>1 DEF Boundary, PassMarks, RoundMarks, Renders, SeqsOf
<1>4. /\ F \subseteq 1..Len(led) /\ I \subseteq 1..Len(led) /\ P \subseteq 1..Len(led) /\ RoundMarks \subseteq 1..Len(led)
      /\ F \cap I = {} /\ P \cap RoundMarks = {}
      /\ RoundMarks = Renders \cup I \cup SeqsOf("repair-no-change")
  BY <1>1 DEF SeqsOf, Seqs, RoundMarks, Renders
<1>5. \A i \in DOMAIN led : led[i].e = "fresh-pass" <=> i \in F
  BY DEF SeqsOf
<1> HIDE DEF B, I, F, P
<1>6. Renders # {} => Boundary \in B /\ \A i \in B : i <= Boundary
  BY <1>1, <1>3, NewestIs
<1>7. PassUnimplemented <=> led[Boundary].e = "fresh-pass" /\ ~\E i \in I : i > Boundary
  BY DEF PassUnimplemented, After, I
<1>8. ASSUME Renders # {}
      PROVE  PassUnimplemented <=> PassOpen
  <2>1. Boundary \in DOMAIN led /\ (led[Boundary].e = "fresh-pass" <=> Boundary \in F)
    BY <1>1, <1>3, <1>5, <1>6, <1>8
  <2>2. ASSUME PassUnimplemented PROVE PassOpen
    <3>1. Boundary \in F /\ \A i \in I : ~(i > Boundary)
      BY <2>1, <2>2, <1>7
    <3>2. ASSUME NEW j \in PassMarks PROVE j < Boundary
      <4>1. j \in Nat /\ Boundary \in Nat /\ (j \in B \/ j \in I) /\ j # Boundary
        BY <2>1, <3>1, <1>1, <1>3, <1>4
      <4>2. j <= Boundary
        BY <4>1, <3>1, <1>6, <1>8
      <4> QED
        BY <4>1, <4>2
    <3> QED
      BY <3>1, <3>2, <1>8 DEF PassOpen, F
  <2>3. ASSUME PassOpen PROVE PassUnimplemented
    <3>1. PICK s \in F : \A j \in PassMarks : j < s
      BY <2>3 DEF PassOpen, F
    <3>2. s <= Boundary /\ s \in 1..Len(led)
      BY <3>1, <1>3, <1>4, <1>6, <1>8
    <3>3. Boundary \in F
      <4>1. Boundary \notin PassMarks
        BY <3>1, <3>2, <2>1, <1>1
      <4> QED
        BY <4>1, <1>3, <1>6, <1>8
    <3>4. \A i \in I : ~(i > Boundary)
      BY <3>1, <3>2, <2>1, <1>1, <1>3, <1>4
    <3> QED
      BY <3>3, <3>4, <2>1, <1>7
  <2> QED
    BY <2>2, <2>3
<1>9. /\ P = {} => spawn = 0
      /\ P # {} => spawn \in P /\ \A i \in P : i <= spawn
  BY <1>1, <1>4, NewestIs
<1>10. RoundEnded(spawn) <=> \E i \in I \cup SeqsOf("repair-no-change") : i > spawn
  BY DEF RoundEnded, After, I
<1> HIDE DEF spawn
<1>11. ASSUME Renders # {}
       PROVE  (spawn > LastRender /\ ~RoundEnded(spawn)) <=> RepairOpen
  <2>1. LastRender \in Renders /\ LastRender \in 1..Len(led)
    BY <1>2, <1>4, <1>11
  <2>2. ASSUME spawn > LastRender, ~RoundEnded(spawn) PROVE RepairOpen
    <3>1. spawn \in P
      BY <1>9, <2>1, <2>2
    <3>2. \A j \in RoundMarks : j < spawn
      BY <3>1, <2>1, <2>2, <1>2, <1>4, <1>10, <1>11
    <3> QED
      BY <3>1, <3>2, <1>11 DEF RepairOpen, P
  <2>3. ASSUME RepairOpen PROVE spawn > LastRender /\ ~RoundEnded(spawn)
    <3>1. PICK s \in P : \A j \in RoundMarks : j < s
      BY <2>3 DEF RepairOpen, P
    <3>2. s <= spawn /\ spawn \in 1..Len(led) /\ s \in 1..Len(led)
      BY <3>1, <1>4, <1>9
    <3> QED
      BY <3>1, <3>2, <2>1, <1>4, <1>10
  <2> QED
    BY <2>2, <2>3
<1>12. InterruptedStep = IF Renders = {} THEN "none"
                         ELSE IF PassOpen THEN "fresh-pass"
                         ELSE IF RepairOpen THEN "repair-round" ELSE "none"
  BY <1>2, <1>8, <1>11 DEF InterruptedStep, spawn, P
<1>13. Open => Renders # {}
  BY DEF Open, PassOpen, RepairOpen
<1> QED
  BY <1>12, <1>13 DEF Open

---------------------------------------------------------------------------
(* The stage and its implementing seats. *)

LEMMA SeatIsSound ==
  ASSUME NEW s, NEW task, at' = SeatFor(s, task), s \in DevSeats \cup {"suite", "conflict-triage"},
         s = "dev" => task = "fresh" /\ PassOpen',
         s = "repair-dev" => task = "repair" /\ Renders' # {} /\ ~PassOpen' /\ Room',
         s = "suite" => /\ task.ruled = "none" => "intent" \notin task.of
                        /\ task.to # "spectrum" => Climbs',
         s = "conflict-triage" => (task # "spectrum" => Climbs')
  PROVE  PlacesAreSound' /\ at'.pc = "dispatch" /\ at'.seat = s /\ at'.task = task
<1>1. /\ at'.pc = "dispatch" /\ at'.seat = s /\ at'.task = task
      /\ at' = [pc |-> at'.pc, seat |-> at'.seat, try |-> at'.try, limit |-> at'.limit, task |-> at'.task]
  BY DEF SeatFor
<1>2. SeatsAreSound'
  BY <1>1 DEF SeatsAreSound, SeatPlaces, DevSeats
<1>3. PlacesAreSound'
  BY <1>1, <1>2 DEF PlacesAreSound, CommitsAreSound, LadderIsSound, LadderPlaces, CyclesAreSound, ParksAreSound
<1> QED
  BY <1>1, <1>3

LEMMA VerdictKeeps ==
  ASSUME LoopInv, Verdict
  PROVE  LoopInv'
<1>1. at.pc = "enter" /\ UNCHANGED <<led, tally>> /\ NoAbandon /\ code \in CodeTypes /\ LedgerIsSound /\ CountsAreSound
  BY Unabandoned DEF Verdict, Enters, LoopInv, RecordIsSound, CountsAreSound
<1>2. code' \in CodeTypes /\ (UNCHANGED code \/ ~code'.dirty)
  BY <1>1 DEF Verdict, Reset, CodeTypes
<1>3. RecordIsSound' /\ Quiet
  BY <1>1, <1>2, GoFrame
<1>4. CASE InterruptedStep = "fresh-pass"
  <2>1. at' = SeatFor("dev", "fresh") /\ ~code'.dirty
    BY <1>1, <1>4 DEF Verdict, Reset, CodeTypes
  <2>2. PassOpen'
    BY <1>1, <1>3, <1>4, InterruptedIs DEF Quiet
  <2>3. PlacesAreSound'
    BY <2>1, <2>2, SeatIsSound DEF DevSeats
  <2> QED
    BY <1>3, <2>1, <2>3, CleanIsKnown DEF LoopInv
<1>5. CASE InterruptedStep = "repair-round"
  <2>1. at' = SeatFor("repair-dev", "repair") /\ ~code'.dirty
    BY <1>1, <1>5 DEF Verdict, Reset, CodeTypes
  <2>2. RepairOpen' /\ ~PassOpen'
    BY <1>1, <1>3, <1>5, InterruptedIs DEF Quiet
  <2>3. Renders' # {} /\ Room'
    BY <1>3, <2>2 DEF RepairOpen, RecordIsSound, CountsAreSound
  <2>4. PlacesAreSound'
    BY <2>1, <2>2, <2>3, SeatIsSound DEF DevSeats
  <2> QED
    BY <1>3, <2>1, <2>4, CleanIsKnown DEF LoopInv
<1>6. CASE InterruptedStep \notin {"fresh-pass", "repair-round"}
  <2>1. at' = Pc("loop") /\ UNCHANGED code
    BY <1>6 DEF Verdict
  <2>2. ~Open /\ ~code'.dirty
    BY <1>1, <1>6, <2>1, InterruptedIs DEF LoopInv, EditsAreKnown
  <2>3. PlacesAreSound'
    BY <1>3, <2>1, <2>2, ElsewhereIsSound DEF Pc, Open, Quiet
  <2> QED
    BY <1>3, <2>2, <2>3, CleanIsKnown DEF LoopInv
<1> QED
  BY <1>4, <1>5, <1>6

(* A step over a clean tree that keeps the tree and the counts: what is left *)
(* to show is the place it goes to.                                          *)
LEMMA CleanGo ==
  ASSUME LoopInv, at.pc \notin {"enter", "closed"}, ~code.dirty,
         UNCHANGED <<led, code, tally>>
  PROVE  /\ RecordIsSound' /\ Quiet /\ NoAbandon
         /\ PlacesAreSound' => LoopInv'
<1>1. NoAbandon /\ code' \in CodeTypes
  BY Unabandoned DEF LoopInv, RecordIsSound, CountsAreSound
<1>2. RecordIsSound' /\ Quiet
  BY <1>1, GoFrame
<1>3. ~code'.dirty
  OBVIOUS
<1> QED
  BY <1>1, <1>2, <1>3, CleanIsKnown DEF LoopInv

LEMMA CleanStamp ==
  ASSUME LoopInv, at.pc \notin {"enter", "closed"}, ~code.dirty,
         UNCHANGED <<code, tally>>, NEW x, Stamp(x), Sound(x), x.e \notin Marks \cup {"answer", "seat-spawned"}
  PROVE  /\ RecordIsSound' /\ Quiet /\ NoAbandon
         /\ PlacesAreSound' => LoopInv'
<1>1. NoAbandon /\ code' \in CodeTypes
  BY Unabandoned DEF LoopInv, RecordIsSound, CountsAreSound
<1>2. RecordIsSound' /\ Quiet
  BY <1>1, StampFrame
<1>3. ~code'.dirty
  OBVIOUS
<1> QED
  BY <1>1, <1>2, <1>3, CleanIsKnown DEF LoopInv

LEMMA LoopKeeps ==
  ASSUME LoopInv, Loop
  PROVE  LoopInv'
<1>1. at.pc = "loop" /\ UNCHANGED <<led, code, tally>>
  BY DEF Loop, Go, tree
<1>2. RecordIsSound' /\ Quiet /\ (PlacesAreSound' => LoopInv')
  BY <1>1, CleanGo, CleanHere DEF SeatPlaces
<1>3. at'.pc \in {"cycle", "left"} \/ (at'.pc = "repeat" /\ ~NeedCycle /\ Rendered.of # "green")
  BY DEF Loop, Go, Pc
<1>4. CASE at'.pc \in {"cycle", "left"}
  BY <1>2, <1>4, ElsewhereIsSound
<1>5. CASE at'.pc = "repeat" /\ ~NeedCycle /\ Rendered.of # "green"
  <2>1. LedgerIsSound /\ PassesAreSound
    BY DEF LoopInv, RecordIsSound
  <2>2. LastRender > 0 /\ (RefreezeOwed \/ ~Since("implementation-committed"))
    <3>1. /\ LastRender > 0 <=> Renders # {}
          /\ Renders = {} => LastRender = 0
      BY <2>1, RendersAre DEF LedgerIsSound
    <3>2. CASE RefreezeOwed
      BY <3>2 DEF RefreezeOwed
    <3>3. CASE ~Moved
      BY <3>1, <3>3 DEF Moved
    <3> QED
      BY <1>5, <3>2, <3>3 DEF NeedCycle
  <2>3. Renders # {} /\ Rendered \in Range(led) /\ Rendered.e = "verdict-rendered"
    BY <2>1, <2>2, RendersAre DEF LedgerIsSound
  <2>4. OnTheLadder
    BY <1>5, <2>1, <2>3 DEF OnTheLadder, LedgerIsSound, Sound
  <2>5. Climbs
    BY <1>1, <2>1, <2>2, <2>4 DEF Climbs, PassesAreSound, LoopInv, PlacesAreSound, LadderIsSound
  <2>6. Climbs'
    BY <1>2, <2>5 DEF Quiet
  <2>7. PlacesAreSound'
    BY <1>5, <2>6 DEF PlacesAreSound, SeatsAreSound, SeatPlaces, CommitsAreSound, LadderIsSound, LadderPlaces, CyclesAreSound, ParksAreSound
  <2> QED
    BY <1>2, <2>7
<1> QED
  BY <1>3, <1>4, <1>5

LEMMA DevReportsKeeps ==
  ASSUME LoopInv, DevReports
  PROVE  LoopInv'
<1>1. at.pc = "out" /\ at.seat \in DevSeats /\ UNCHANGED <<led, tally>> /\ NoAbandon /\ SeatsAreSound /\ code \in CodeTypes
  BY Unabandoned DEF DevReports, Go, DevSeats, LoopInv, RecordIsSound, CountsAreSound, PlacesAreSound
<1>2. code' \in CodeTypes
  BY <1>1 DEF DevReports, CodeTypes
<1>3. RecordIsSound' /\ Quiet
  BY <1>1, <1>2, GoFrame
<1>4. /\ at'.pc = "captured" /\ at'.seat = at.seat /\ at'.task = at.task
      /\ at' = [pc |-> at'.pc, seat |-> at'.seat, try |-> at'.try, limit |-> at'.limit, task |-> at'.task]
  <2>1. at \in [pc : {"out"}, seat : {at.seat}, try : {at.try}, limit : {at.limit}, task : {at.task}]
    BY <1>1 DEF SeatsAreSound, SeatPlaces
  <2>2. at' = [at EXCEPT !.pc = "captured"]
    BY DEF DevReports, Go
  <2> QED
    BY <2>1, <2>2
<1>5. Open'
  BY <1>1, <1>3 DEF SeatsAreSound, SeatPlaces, DevSeats, Open, Quiet
<1>6. SeatsAreSound'
  BY <1>1, <1>3, <1>4 DEF SeatsAreSound, SeatPlaces, DevSeats, Quiet, Room
<1>7. PlacesAreSound'
  BY <1>4, <1>6 DEF PlacesAreSound, CommitsAreSound, LadderIsSound, LadderPlaces, CyclesAreSound, ParksAreSound
<1>8. EditsAreKnown'
  BY <1>1, <1>4, <1>5 DEF EditsAreKnown, SeatPlaces
<1> QED
  BY <1>3, <1>7, <1>8 DEF LoopInv

LEMMA RefuseKeeps ==
  ASSUME LoopInv, at.pc \in {"out", "captured"}, Refuse, UNCHANGED <<code, tally>>
  PROVE  LoopInv'
<1>1. NoAbandon /\ code' \in CodeTypes /\ SeatsAreSound /\ EditsAreKnown
  BY Unabandoned DEF LoopInv, RecordIsSound, CountsAreSound, PlacesAreSound
<1>2. CASE at.try >= at.limit
  <2> DEFINE x == Event("seat-failure", at.seat, "defects")
  <2>1. Stamp(x) /\ at' = SeatFail(at.seat)
    BY <1>2 DEF Refuse, StampAndGo
  <2>2. Sound(x) /\ x.e = "seat-failure"
    BY DEF Sound, Event
  <2> HIDE DEF x
  <2>3. RecordIsSound' /\ Quiet
    BY <1>1, <2>1, <2>2, StampFrame DEF Marks
  <2>4. at'.pc \in {"ask", "closed"}
    BY <2>1, AsksOrCloses DEF SeatFail
  <2>5. PlacesAreSound'
    BY <2>4, ElsewhereIsSound
  <2>6. EditsAreKnown'
    BY <1>1, <2>3, <2>4 DEF EditsAreKnown, Quiet, Open, SeatPlaces
  <2> QED
    BY <2>3, <2>5, <2>6 DEF LoopInv
<1>3. CASE ~(at.try >= at.limit)
  <2>1. UNCHANGED led /\ at' = [at EXCEPT !.pc = "dispatch", !.try = at.try + 1]
    BY <1>3 DEF Refuse, Go
  <2>2. at \in [pc : {at.pc}, seat : {at.seat}, try : {at.try}, limit : {at.limit}, task : {at.task}]
    BY <1>1 DEF SeatsAreSound, SeatPlaces
  <2>3. /\ at'.pc = "dispatch" /\ at'.seat = at.seat /\ at'.task = at.task
        /\ at' = [pc |-> at'.pc, seat |-> at'.seat, try |-> at'.try, limit |-> at'.limit, task |-> at'.task]
    BY <2>1, <2>2
  <2>4. RecordIsSound' /\ Quiet
    BY <1>1, <2>1, GoFrame
  <2>5. SeatsAreSound'
    BY <1>1, <2>3, <2>4 DEF SeatsAreSound, SeatPlaces, DevSeats, Quiet, Room
  <2>6. PlacesAreSound'
    BY <2>3, <2>5 DEF PlacesAreSound, CommitsAreSound, LadderIsSound, LadderPlaces, CyclesAreSound, ParksAreSound
  <2>7. EditsAreKnown'
    BY <1>1, <2>3, <2>4 DEF EditsAreKnown, Quiet, Open, SeatPlaces
  <2> QED
    BY <2>4, <2>6, <2>7 DEF LoopInv
<1> QED
  BY <1>2, <1>3

LEMMA DevChecksKeeps ==
  ASSUME LoopInv, DevChecks
  PROVE  LoopInv'
<1>1. /\ at.pc = "captured" /\ UNCHANGED <<code, tally>> /\ code' \in CodeTypes
      /\ NoAbandon /\ SeatsAreSound /\ EditsAreKnown
  BY Unabandoned DEF DevChecks, tree, LoopInv, RecordIsSound, CountsAreSound, PlacesAreSound
<1>2. CASE Refuse
  BY <1>1, <1>2, RefuseKeeps
<1>3. ASSUME at' = [pc |-> "commit", task |-> at.task], RecordIsSound', Quiet
      PROVE  LoopInv'
  <2>1. at'.pc = "commit" /\ at'.task = at.task
    BY <1>3
  <2>2. CommitsAreSound'
    BY <1>1, <1>3, <2>1 DEF CommitsAreSound, SeatsAreSound, SeatPlaces, DevSeats, Quiet, Room
  <2>3. PlacesAreSound'
    BY <2>1, <2>2 DEF PlacesAreSound, SeatsAreSound, SeatPlaces, LadderIsSound, LadderPlaces, CyclesAreSound, ParksAreSound
  <2>4. EditsAreKnown'
    BY <1>1, <1>3, <2>1 DEF EditsAreKnown, Quiet, Open, SeatPlaces
  <2> QED
    BY <1>3, <2>3, <2>4 DEF LoopInv
<1>4. CASE Go([pc |-> "commit", task |-> at.task])
  <2>1. RecordIsSound' /\ Quiet
    BY <1>1, <1>4, GoFrame DEF Go
  <2> QED
    BY <1>3, <1>4, <2>1 DEF Go
<1>5. CASE StampAndGo(Event("dev-suite-conflict", at.seat, ""), [pc |-> "commit", task |-> at.task])
  <2> DEFINE x == Event("dev-suite-conflict", at.seat, "")
  <2>1. Stamp(x)
    BY <1>5 DEF StampAndGo
  <2>2. Sound(x) /\ x.e = "dev-suite-conflict"
    BY DEF Sound, Event
  <2> HIDE DEF x
  <2>3. RecordIsSound' /\ Quiet
    BY <1>1, <2>1, <2>2, StampFrame DEF Marks
  <2> QED
    BY <1>3, <1>5, <2>3 DEF StampAndGo
<1> QED
  BY <1>2, <1>4, <1>5 DEF DevChecks

LEMMA CommitAllKeeps ==
  ASSUME LoopInv, CommitAll
  PROVE  LoopInv'
<1>1. /\ at.pc = "commit" /\ UNCHANGED <<led, tally>> /\ NoAbandon /\ code \in CodeTypes /\ tally \in TallyTypes
      /\ CommitsAreSound
  BY Unabandoned DEF CommitAll, Go, LoopInv, RecordIsSound, CountsAreSound, PlacesAreSound
<1>2. code' \in CodeTypes /\ ~code'.dirty
  <2>1. tally.pass + 1 \in Nat
    BY <1>1 DEF TallyTypes
  <2>2. CASE code.dirty \/ at.task = "fresh"
    BY <1>1, <2>1, <2>2 DEF CommitAll, CodeTypes
  <2>3. CASE ~(code.dirty \/ at.task = "fresh")
    BY <1>1, <2>3 DEF CommitAll, CodeTypes
  <2> QED
    BY <2>2, <2>3
<1>3. RecordIsSound' /\ Quiet
  BY <1>1, <1>2, GoFrame
<1>4. at'.pc = "committed" /\ at'.task = at.task
  BY DEF CommitAll, Go
<1>5. CommitsAreSound'
  BY <1>1, <1>3, <1>4 DEF CommitsAreSound, Quiet, Room, Open
<1>6. PlacesAreSound'
  BY <1>4, <1>5 DEF PlacesAreSound, SeatsAreSound, SeatPlaces, LadderIsSound, LadderPlaces, CyclesAreSound, ParksAreSound
<1> QED
  BY <1>2, <1>3, <1>6, CleanIsKnown DEF LoopInv

(* The stamp that ends a round.                                              *)
LEMMA StampEndsRound ==
  ASSUME LedgerIsSound, NEW x, Stamp(x), x.e \in {"implementation-committed", "repair-no-change"}
  PROVE  ~Open'
<1>1. Len(led') \in DOMAIN led' /\ led'[Len(led')] = x /\ \A j \in DOMAIN led' : j \in Nat /\ j <= Len(led')
  BY StampStands
<1>2. Len(led') \in RoundMarks' /\ Len(led') \in PassMarks'
  BY <1>1 DEF RoundMarks, PassMarks, SeqsOf
<1>3. \A s \in Seqs("seat-spawned", "repair-dev")' \cup SeqsOf("fresh-pass")' : ~(Len(led') < s)
  BY <1>1 DEF Seqs, SeqsOf
<1>4. ~RepairOpen'
  BY <1>2, <1>3 DEF RepairOpen
<1>5. ~PassOpen'
  BY <1>2, <1>3 DEF PassOpen
<1> QED
  BY <1>4, <1>5 DEF Open

LEMMA ImplementationCommittedKeeps ==
  ASSUME LoopInv, ImplementationCommitted
  PROVE  LoopInv'
<1>1. /\ at.pc = "committed" /\ NoAbandon /\ CommitsAreSound /\ LedgerIsSound /\ AnswersAreKept /\ CountsAreSound
      /\ PassesAreSound /\ UNCHANGED code
  BY Unabandoned DEF ImplementationCommitted, LoopInv, RecordIsSound, PlacesAreSound
<1>2. ~code'.dirty
  BY <1>1, CleanHere DEF SeatPlaces
<1>3. tally \in TallyTypes /\ Cap \in Nat
  BY <1>1, CapIsANumber DEF CountsAreSound
<1>4. ASSUME NEW x, Stamp(x), Sound(x), x.e \in {"implementation-committed", "repair-no-change"},
             x.e = "repair-no-change" => at.task # "fresh" /\ ~PassOpen,
             tally' \in TallyTypes, tally'.again = tally.again, tally'.rounds \in {0, tally.rounds}
      PROVE  RecordIsSound' /\ ~Open'
  <2>1. ~Open' /\ ~RepairOpen'
    BY <1>1, <1>4, StampEndsRound DEF Open
  <2>2. LedgerIsSound' /\ \A y \in Range(led') : y.e = "answer" => y \in Range(led)
    BY <1>1, <1>4, StampMoves DEF LedgerIsSound
  <2>3. AnswersAreKept'
    BY <1>1, <1>4, <2>2 DEF AnswersAreKept, NoAbandon
  <2>4. CountsAreSound'
    BY <1>1, <1>3, <1>4, <2>1 DEF CountsAreSound, TallyTypes
  <2>5. PassesAreSound'
    <3>1. RefreezeOwed' => RefreezeOwed
      BY <1>1, <1>4, RefreezeKept
    <3>2. Since("fresh-pass")' <=> Since("fresh-pass")
      BY <1>1, <1>4, SinceKept
    <3>3. CASE x.e = "implementation-committed"
      <4>1. Since("implementation-committed")'
        BY <1>1, <1>4, <3>3, StampStands
      <4> QED
        BY <1>1, <3>1, <3>2, <4>1 DEF PassesAreSound
    <3>4. CASE x.e = "repair-no-change"
      <4>1. Since("implementation-committed")' <=> Since("implementation-committed")
        BY <1>1, <1>4, <3>4, SinceKept
      <4> QED
        BY <1>1, <1>4, <3>1, <3>2, <3>4, <4>1 DEF PassesAreSound
    <3> QED
      BY <1>4, <3>3, <3>4
  <2> QED
    BY <2>1, <2>2, <2>3, <2>4, <2>5 DEF RecordIsSound
<1>5. CASE at.task = "fresh"
  <2> DEFINE x == Implementation("fresh", at.reaches)
  <2>1. Stamp(x) /\ at' = Pc("loop")
    BY <1>5 DEF ImplementationCommitted, StampAndGo
  <2>2. Sound(x) /\ x.e = "implementation-committed"
    BY DEF Sound, Implementation
  <2> HIDE DEF x
  <2>3. tally' = [tally EXCEPT !.pass = tally.pass + 1, !.rounds = 0, !.made = 0, !.lost = 0, !.fresh = @ + 1]
    BY <1>5 DEF ImplementationCommitted, PassOf
  <2>4. tally' \in TallyTypes /\ tally'.again = tally.again /\ tally'.rounds = 0
    <3>1. tally.pass + 1 \in Nat /\ tally.fresh + 1 \in Nat
      BY <1>3 DEF TallyTypes
    <3> QED
      BY <1>3, <2>3, <3>1 DEF TallyTypes
  <2>5. RecordIsSound' /\ ~Open'
    BY <1>4, <2>1, <2>2, <2>4
  <2>6. PlacesAreSound'
    BY <2>1, <2>5, ElsewhereIsSound DEF Pc, Open
  <2> QED
    BY <1>2, <2>5, <2>6, CleanIsKnown DEF LoopInv
<1>6. CASE at.task # "fresh"
  <2>1. tally' \in TallyTypes /\ tally'.again = tally.again /\ tally'.rounds = tally.rounds
    <3>1. tally' = [tally EXCEPT !.pass = tally.pass, !.made = tally.made + 1]
      BY <1>3, <1>6 DEF ImplementationCommitted, PassOf, TallyTypes
    <3>2. tally.made + 1 \in Nat
      BY <1>3 DEF TallyTypes
    <3> QED
      BY <1>3, <3>1, <3>2 DEF TallyTypes
  <2>2. ~PassOpen /\ Room
    BY <1>1, <1>6 DEF CommitsAreSound
  <2>3. RecordIsSound' /\ ~Open' /\ at'.pc = "round"
    <3>1. CASE at.changed
      <4> DEFINE x == Implementation("repair", at.reaches)
      <4>1. Stamp(x) /\ at'.pc = "round"
        BY <1>6, <3>1 DEF ImplementationCommitted, StampAndGo
      <4>2. Sound(x) /\ x.e = "implementation-committed"
        BY DEF Sound, Implementation
      <4> HIDE DEF x
      <4> QED
        BY <1>3, <1>4, <2>1, <4>1, <4>2
    <3>2. CASE ~at.changed
      <4> DEFINE x == Event("repair-no-change", "", "")
      <4>1. Stamp(x) /\ at'.pc = "round"
        <5>1. StampAndGo(Event("repair-no-change", "", ""), [pc |-> "round", of |-> "unchanged"])
          BY <1>6, <3>2 DEF ImplementationCommitted
        <5> QED
          BY <5>1 DEF StampAndGo
      <4>2. Sound(x) /\ x.e = "repair-no-change"
        BY DEF Sound, Event
      <4> HIDE DEF x
      <4> QED
        BY <1>3, <1>4, <1>6, <2>1, <2>2, <4>1, <4>2
    <3> QED
      BY <3>1, <3>2
  <2>5. CommitsAreSound'
    BY <2>1, <2>2, <2>3 DEF CommitsAreSound, Room
  <2>6. PlacesAreSound'
    BY <2>3, <2>5 DEF PlacesAreSound, SeatsAreSound, SeatPlaces, LadderIsSound, LadderPlaces, CyclesAreSound, ParksAreSound
  <2> QED
    BY <1>2, <2>3, <2>6, CleanIsKnown DEF LoopInv
<1> QED
  BY <1>5, <1>6

LEMMA PassIsRecent ==
  ASSUME LedgerIsSound, PassOpen
  PROVE  Since("fresh-pass")
<1>1. Renders \subseteq PassMarks
  BY DEF PassMarks, RoundMarks
<1>2. led \in Seq(Range(led))
  BY DEF LedgerIsSound
<1> QED
  BY <1>1, <1>2, SinceIs DEF PassOpen

LEMMA RepairRoundKeeps ==
  ASSUME LoopInv, RepairRound
  PROVE  LoopInv'
<1> DEFINE x == Event("repair-round", at.of, "")
<1>1. /\ at.pc = "round" /\ NoAbandon /\ LedgerIsSound /\ AnswersAreKept /\ CountsAreSound /\ PassesAreSound
      /\ Room /\ ~RepairOpen /\ ~PassOpen /\ UNCHANGED code
  BY Unabandoned DEF RepairRound, LoopInv, RecordIsSound, PlacesAreSound, CommitsAreSound, Open
<1>2. Stamp(x) /\ at' = Pc("loop") /\ tally' = [tally EXCEPT !.rounds = @ + 1]
  BY DEF RepairRound, StampAndGo
<1>3. Sound(x) /\ x.e = "repair-round"
  BY DEF Sound, Event
<1> HIDE DEF x
<1>4. LedgerIsSound' /\ \A y \in Range(led') : y.e = "answer" => y \in Range(led)
  BY <1>1, <1>2, <1>3, StampMoves DEF LedgerIsSound
<1>5. ~RepairOpen'
  BY <1>1, <1>2, <1>3, RoundKept
<1>6. ~PassOpen'
  <2>1. Len(led') \in DOMAIN led' /\ led'[Len(led')] = x /\ \A j \in DOMAIN led' : j \in Nat /\ j <= Len(led')
    BY <1>1, <1>2, StampStands
  <2>2. Len(led') \in PassMarks' /\ \A s \in SeqsOf("fresh-pass")' : ~(Len(led') < s)
    BY <1>3, <2>1 DEF PassMarks, SeqsOf
  <2> QED
    BY <2>2 DEF PassOpen
<1>7. tally \in TallyTypes /\ Cap \in Nat
  BY <1>1, CapIsANumber DEF CountsAreSound
<1>8. CountsAreSound'
  <2>1. tally.rounds \in Nat /\ tally.rounds + 1 \in Nat
    BY <1>7 DEF TallyTypes
  <2>2. tally' \in TallyTypes /\ tally'.again = tally.again /\ tally'.rounds = tally.rounds + 1
    BY <1>2, <1>7, <2>1 DEF TallyTypes
  <2>3. tally'.again = 0 => tally'.rounds <= Cap
    <3>1. tally.again = 0 => tally.rounds < Cap
      BY <1>1 DEF Room
    <3>2. tally.rounds < Cap => tally.rounds + 1 <= Cap
      BY <1>7, <2>1
    <3> QED
      BY <2>2, <3>1, <3>2
  <2>4. code' \in CodeTypes
    BY <1>1 DEF CountsAreSound
  <2> QED
    BY <1>5, <2>2, <2>3, <2>4 DEF CountsAreSound
<1>9. AnswersAreKept'
  <2>1. tally'.again = tally.again
    BY <1>2, <1>7 DEF TallyTypes
  <2> QED
    BY <1>1, <1>4, <2>1 DEF AnswersAreKept, NoAbandon
<1>10. PassesAreSound'
  <2>1. RefreezeOwed' => RefreezeOwed
    BY <1>1, <1>2, <1>3, RefreezeKept
  <2>2. /\ Since("fresh-pass")' <=> Since("fresh-pass")
        /\ Since("implementation-committed")' <=> Since("implementation-committed")
    BY <1>1, <1>2, <1>3, SinceKept
  <2> QED
    BY <1>1, <2>1, <2>2 DEF PassesAreSound
<1>11. RecordIsSound'
  BY <1>4, <1>8, <1>9, <1>10 DEF RecordIsSound
<1>12. PlacesAreSound'
  BY <1>2, <1>6, ElsewhereIsSound DEF Pc
<1>13. ~code'.dirty
  BY <1>1, CleanHere DEF SeatPlaces
<1> QED
  BY <1>11, <1>12, <1>13, CleanIsKnown DEF LoopInv

---------------------------------------------------------------------------
(* The steps of a cycle. *)

LEMMA SpectrumIsSound ==
  ASSUME NEW riding, riding \subseteq AllKinds, at' = Spectrum(riding)
  PROVE  PlacesAreSound'
<1>1. at'.pc = "spectrum" /\ at'.riding = riding
  BY DEF Spectrum
<1> QED
  BY <1>1 DEF PlacesAreSound, SeatsAreSound, SeatPlaces, CommitsAreSound, LadderIsSound, LadderPlaces, CyclesAreSound, ParksAreSound

LEMMA SettleConflictsKeeps ==
  ASSUME LoopInv, SettleConflicts
  PROVE  LoopInv'
<1>1. at.pc = "cycle" /\ ~code.dirty /\ UNCHANGED <<code, tally>>
  BY CleanHere DEF SettleConflicts, SeatPlaces, tree
<1> DEFINE owed == SpectrumTriage \cap SuiteKinds
           suiteFor(ruled) == SeatFor("suite", [to |-> "spectrum", of |-> owed, ruled |-> ruled])
<1>2. owed \subseteq AllKinds
  BY DEF SuiteKinds, AllKinds
<1> HIDE DEF owed
<1>3. \/ Go(SeatFor("conflict-triage", "spectrum"))
      \/ Go(Spectrum({}))
      \/ Go(Spectrum(owed))
      \/ "intent" \notin owed /\ Go(suiteFor("none"))
      \/ StampAndGo(Event("supersede-authorized", "verdict", ""), suiteFor("card"))
  BY DEF SettleConflicts, owed
<1>4. CASE Go(SeatFor("conflict-triage", "spectrum"))
  <2>1. PlacesAreSound'
    BY <1>4, SeatIsSound DEF Go
  <2> QED
    BY <1>1, <1>4, <2>1, CleanGo DEF Go
<1>5. CASE Go(Spectrum({})) \/ Go(Spectrum(owed))
  <2>1. PlacesAreSound'
    BY <1>2, <1>5, SpectrumIsSound DEF Go
  <2> QED
    BY <1>1, <1>5, <2>1, CleanGo DEF Go
<1>6. CASE "intent" \notin owed /\ Go(suiteFor("none"))
  <2> DEFINE task == [to |-> "spectrum", of |-> owed, ruled |-> "none"]
  <2>1. at' = SeatFor("suite", task) /\ task.of = owed /\ task.to = "spectrum"
    BY <1>6 DEF Go
  <2> HIDE DEF task
  <2>2. PlacesAreSound'
    BY <1>6, <2>1, SeatIsSound
  <2> QED
    BY <1>1, <1>6, <2>2, CleanGo DEF Go
<1>7. CASE StampAndGo(Event("supersede-authorized", "verdict", ""), suiteFor("card"))
  <2> DEFINE task == [to |-> "spectrum", of |-> owed, ruled |-> "card"]
             x == Event("supersede-authorized", "verdict", "")
  <2>1. at' = SeatFor("suite", task) /\ task.ruled # "none" /\ task.to = "spectrum" /\ Stamp(x)
    BY <1>7 DEF StampAndGo
  <2>2. Sound(x) /\ x.e = "supersede-authorized"
    BY DEF Sound, Event
  <2> HIDE DEF task, x
  <2>3. PlacesAreSound'
    BY <2>1, SeatIsSound
  <2> QED
    BY <1>1, <2>1, <2>2, <2>3, CleanStamp DEF Marks
<1> QED
  BY <1>3, <1>4, <1>5, <1>6, <1>7

LEMMA ConflictTriageKeeps ==
  ASSUME LoopInv, ConflictTriage
  PROVE  LoopInv'
<1>1. /\ at.pc = "out" /\ at.seat = "conflict-triage" /\ UNCHANGED <<code, tally>>
      /\ SeatsAreSound /\ EditsAreKnown
  BY DEF ConflictTriage, tree, LoopInv, PlacesAreSound
<1>2. ~code.dirty /\ (at.task # "spectrum" => Climbs)
  BY <1>1 DEF EditsAreKnown, SeatsAreSound, SeatPlaces, DevSeats
<1>3. PICK found : StampAndGo([e |-> "conflict-triage", of |-> at.task, why |-> "", found |-> found],
                              IF at.task = "spectrum" THEN Pc("cycle") ELSE Pc("intent"))
  BY DEF ConflictTriage
<1> DEFINE x == [e |-> "conflict-triage", of |-> at.task, why |-> "", found |-> found]
<1>4. Stamp(x) /\ Sound(x) /\ x.e = "conflict-triage"
  <2>1. Stamp(x)
    BY <1>3 DEF StampAndGo
  <2>2. Sound(x) /\ x.e = "conflict-triage"
    BY DEF Sound
  <2> QED
    BY <2>1, <2>2
<1> HIDE DEF x
<1>5. Quiet /\ (PlacesAreSound' => LoopInv')
  BY <1>1, <1>2, <1>4, CleanStamp DEF Marks
<1>6. PlacesAreSound'
  <2>1. CASE at.task = "spectrum"
    <3>1. at'.pc = "cycle"
      BY <1>3, <2>1 DEF StampAndGo, Pc
    <3> QED
      BY <3>1, ElsewhereIsSound
  <2>2. CASE at.task # "spectrum"
    <3>1. at'.pc = "intent" /\ Climbs'
      BY <1>2, <1>3, <1>5, <2>2 DEF StampAndGo, Pc, Quiet
    <3> QED
      BY <3>1 DEF PlacesAreSound, SeatsAreSound, SeatPlaces, CommitsAreSound, LadderIsSound, LadderPlaces, CyclesAreSound, ParksAreSound
  <2> QED
    BY <2>1, <2>2
<1> QED
  BY <1>5, <1>6

LEMMA NoAnswerLeads ==
  ASSUME NEW place \in NoAnswer
  PROVE  place.pc \in {"ask", "closed"}
BY AsksOrCloses DEF NoAnswer, GateCommandError, ExternalGate, TriageFails, CommandError, SeatFail

LEMMA KindsAreKnown ==
  ASSUME NEW reds \in Judgments
  PROVE  reds \subseteq AllKinds
BY JudgmentsAreOfKinds DEF AllKinds

LEMMA OpenIsSound ==
  ASSUME at'.pc \in {"review", "render"}, at'.open \subseteq AllKinds
  PROVE  PlacesAreSound'
BY DEF PlacesAreSound, SeatsAreSound, SeatPlaces, CommitsAreSound, LadderIsSound, LadderPlaces, CyclesAreSound, ParksAreSound

LEMMA RunSpectrumKeeps ==
  ASSUME LoopInv, RunSpectrum
  PROVE  LoopInv'
<1>1. at.pc = "spectrum" /\ ~code.dirty /\ UNCHANGED <<led, code, tally>> /\ at.riding \subseteq AllKinds
  BY CleanHere DEF RunSpectrum, SeatPlaces, tree, Go, LoopInv, PlacesAreSound, CyclesAreSound
<1>2. CASE \E place \in NoAnswer : Go(place)
  <2>1. PlacesAreSound'
    BY <1>2, NoAnswerLeads, ElsewhereIsSound DEF Go
  <2> QED
    BY <1>1, <2>1, CleanGo
<1>3. ASSUME NEW reds \in Judgments, Go([pc |-> "review", open |-> reds \union at.riding])
      PROVE  LoopInv'
  <2>1. at'.pc = "review" /\ at'.open = reds \union at.riding
    BY <1>3 DEF Go
  <2>2. PlacesAreSound'
    BY <1>1, <2>1, KindsAreKnown, OpenIsSound
  <2> QED
    BY <1>1, <2>2, CleanGo
<1> QED
  BY <1>2, <1>3 DEF RunSpectrum

LEMMA ReviewKeeps ==
  ASSUME LoopInv, Review
  PROVE  LoopInv'
<1>1. /\ at.pc = "review" /\ ~code.dirty /\ UNCHANGED <<led, tally>> /\ at.open \subseteq AllKinds
      /\ code \in CodeTypes /\ NoAbandon
  BY CleanHere, Unabandoned
     DEF Review, SeatPlaces, Go, LoopInv, PlacesAreSound, CyclesAreSound, RecordIsSound, CountsAreSound
<1>2. code' \in CodeTypes /\ ~code'.dirty
  <2>1. ReadAll \in BOOLEAN
    BY DEF ReadAll
  <2>2. UNCHANGED code \/ code' = [code EXCEPT !.read = ReadAll]
    BY DEF Review
  <2> QED
    BY <1>1, <2>1, <2>2 DEF CodeTypes
<1>3. \/ at' = SeatFail("review")
      \/ \E confirmed \in SUBSET {"review"} : at' = [pc |-> "render", open |-> at.open \union confirmed, swept |-> FALSE]
  <2>1. Rendered.open \cap {"review"} \in SUBSET {"review"} /\ {} \in SUBSET {"review"}
    OBVIOUS
  <2> QED
    BY <2>1 DEF Review, Go
<1>4. PlacesAreSound'
  <2>1. CASE at' = SeatFail("review")
    BY <2>1, AsksOrCloses, ElsewhereIsSound DEF SeatFail
  <2>2. ASSUME NEW confirmed \in SUBSET {"review"},
               at' = [pc |-> "render", open |-> at.open \union confirmed, swept |-> FALSE]
        PROVE  PlacesAreSound'
    <3>1. at'.pc = "render" /\ at'.open = at.open \union confirmed
      BY <2>2
    <3>2. at'.open \subseteq AllKinds
      BY <1>1, <3>1 DEF AllKinds
    <3> QED
      BY <3>1, <3>2, OpenIsSound
  <2> QED
    BY <1>3, <2>1, <2>2
<1>5. RecordIsSound'
  BY <1>1, <1>2, GoFrame
<1> QED
  BY <1>2, <1>4, <1>5, CleanIsKnown DEF LoopInv

LEMMA ConfirmationKeeps ==
  ASSUME LoopInv, Confirmation
  PROVE  LoopInv'
<1>1. at.pc = "render" /\ ~code.dirty /\ UNCHANGED <<led, code, tally>>
  BY CleanHere DEF Confirmation, SeatPlaces, tree, Go
<1>2. CASE \E place \in NoAnswer : Go(place)
  <2>1. PlacesAreSound'
    BY <1>2, NoAnswerLeads, ElsewhereIsSound DEF Go
  <2> QED
    BY <1>1, <2>1, CleanGo
<1>3. ASSUME NEW reds \in Judgments, Go([pc |-> "render", open |-> reds, swept |-> TRUE])
      PROVE  LoopInv'
  <2>1. at'.pc = "render" /\ at'.open = reds
    BY <1>3 DEF Go
  <2>2. PlacesAreSound'
    BY <2>1, KindsAreKnown, OpenIsSound
  <2> QED
    BY <1>1, <2>2, CleanGo
<1> QED
  BY <1>2, <1>3 DEF Confirmation

---------------------------------------------------------------------------
(* Behind a new render nothing is open and nothing has been stamped.         *)
LEMMA VerdictRenderedKeeps ==
  ASSUME LoopInv, VerdictRendered
  PROVE  LoopInv'
<1>1. /\ at.pc = "render" /\ at' = Pc("loop") /\ at'.pc = "loop" /\ ~code.dirty /\ UNCHANGED code /\ NoAbandon
      /\ LedgerIsSound /\ AnswersAreKept /\ CountsAreSound /\ at.open \subseteq AllKinds
  BY CleanHere, Unabandoned
     DEF VerdictRendered, Pc, SeatPlaces, LoopInv, RecordIsSound, PlacesAreSound, CyclesAreSound
<1> DEFINE nth == IF LastRender = 0 THEN 0 ELSE 1 - Rendered.nth
           x == Render(nth, IF at.open = {} THEN "green" ELSE "red", tally.pass, at.open,
                       Counted, Since("re-freeze"), at.open \in past.seen)
           base == Only(led, {i \in DOMAIN led : StillRead(led[i])})
<1>2. led' = With(base, x)
  BY DEF VerdictRendered
<1>3. x.e = "verdict-rendered" /\ Sound(x)
  <2>1. x.e = "verdict-rendered" /\ x.open = at.open /\ x.of = IF at.open = {} THEN "green" ELSE "red"
    BY DEF Render
  <2> HIDE DEF x
  <2> QED
    BY <2>1, <1>1 DEF Sound
<1>4. base \in Seq(Range(base)) /\ Range(base) \subseteq Range(led)
  <2> DEFINE S == {i \in DOMAIN led : StillRead(led[i])}
  <2>1. S \in SUBSET (DOMAIN led)
    OBVIOUS
  <2> HIDE DEF S
  <2>2. Only(led, S) \in Seq(Range(Only(led, S))) /\ Range(Only(led, S)) \subseteq Range(led)
    BY <2>1, <1>1, OnlyIs DEF LedgerIsSound
  <2> QED
    BY <2>2 DEF S
<1> HIDE DEF x, base
<1>5. led' \in Seq(Range(led')) /\ \E sh : Shifted(base, led', x, sh)
  <2>1. With(base, x) \in Seq(Range(With(base, x))) /\ \E sh : Shifted(base, With(base, x), x, sh)
    BY <1>4, WithMoves
  <2> QED
    BY <2>1, <1>2
<1>6. PICK sh : Shifted(base, led', x, sh)
  BY <1>5
<1>7. /\ Len(led') \in DOMAIN led' /\ led'[Len(led')] = x
      /\ \A j \in DOMAIN led' : j \in Nat /\ j <= Len(led')
  BY <1>6 DEF Shifted
<1>8. ASSUME NEW y \in Range(led')
      PROVE  y = x \/ y \in Range(led)
  <2>1. PICK i \in DOMAIN led' : led'[i] = y
    BY DEF Range
  <2>2. i = Len(led') \/ i \in 1..(Len(led') - 1)
    BY <1>6 DEF Shifted
  <2>3. CASE i = Len(led')
    BY <1>7, <2>1, <2>3
  <2>4. CASE i \in 1..(Len(led') - 1)
    <3>1. PICK k \in DOMAIN sh : sh[k] = i
      BY <2>4, <1>6 DEF Shifted
    <3>2. y \in Range(base)
      BY <3>1, <2>1, <1>6 DEF Shifted, Range
    <3> QED
      BY <3>2, <1>4
  <2> QED
    BY <2>2, <2>3, <2>4
<1>9. LedgerIsSound'
  BY <1>1, <1>3, <1>5, <1>8 DEF LedgerIsSound
<1>10. Len(led') \in Renders'
  BY <1>3, <1>7 DEF Renders, SeqsOf
<1>11. ~Since("fresh-pass")'
  <2>1. \A i \in SeqsOf("fresh-pass")' : ~(Len(led') < i)
    BY <1>7 DEF SeqsOf
  <2> QED
    BY <2>1, <1>5, <1>10, SinceIsNext
<1>12. ~RepairOpen' /\ ~PassOpen'
  <2>1. Len(led') \in RoundMarks' /\ Len(led') \in PassMarks'
    BY <1>10 DEF RoundMarks, PassMarks
  <2>2. \A s \in Seqs("seat-spawned", "repair-dev")' \cup SeqsOf("fresh-pass")' : ~(Len(led') < s)
    BY <1>7 DEF Seqs, SeqsOf
  <2>3. ~RepairOpen'
    BY <2>1, <2>2 DEF RepairOpen
  <2>4. ~PassOpen'
    BY <2>1, <2>2 DEF PassOpen
  <2> QED
    BY <2>3, <2>4
<1>13. tally' \in TallyTypes /\ tally'.again = tally.again /\ tally'.rounds = tally.rounds
  <2>1. tally' = [tally EXCEPT !.cycles = @ + 1] /\ tally \in TallyTypes
    BY <1>1 DEF VerdictRendered, CountsAreSound
  <2>2. tally.cycles + 1 \in Nat
    BY <2>1 DEF TallyTypes
  <2> QED
    BY <2>1, <2>2 DEF TallyTypes
<1>14. CountsAreSound'
  BY <1>1, <1>12, <1>13 DEF CountsAreSound
<1>15. AnswersAreKept'
  <2>1. x.e # "answer"
    BY <1>3
  <2> QED
    BY <1>1, <1>8, <1>13, <2>1 DEF AnswersAreKept, NoAbandon
<1>16. PassesAreSound'
  BY <1>11 DEF PassesAreSound
<1>17. PlacesAreSound'
  BY <1>1, <1>12, ElsewhereIsSound
<1> QED
  BY <1>1, <1>9, <1>14, <1>15, <1>16, <1>17, CleanIsKnown DEF LoopInv, RecordIsSound

---------------------------------------------------------------------------
(* The steps of the ladder. *)

(* The rungs before the ones that act. *)
LEMMA RungIsSound ==
  ASSUME at'.pc \in {"repeat", "triage", "intent"}, Climbs'
  PROVE  PlacesAreSound'
BY DEF PlacesAreSound, SeatsAreSound, SeatPlaces, CommitsAreSound, LadderIsSound, LadderPlaces, CyclesAreSound, ParksAreSound

LEMMA ArmIsSound ==
  ASSUME at'.pc \in {"ops", "suite", "code", "fresh-pass", "born"}, Climbs',
         at'.pc \in {"ops", "suite"} => (at'.ruled = "none" => ~IntentOwed'),
         at'.pc \in {"suite", "code"} => (~at'.acted => Ops' = {}),
         at'.pc = "code" => (~at'.acted => SuiteDefects' = {}),
         at'.pc \in {"code", "fresh-pass", "born"} => ~RefreezeOwed'
  PROVE  PlacesAreSound'
BY DEF PlacesAreSound, SeatsAreSound, SeatPlaces, CommitsAreSound, LadderIsSound, LadderPlaces, CyclesAreSound, ParksAreSound

LEMMA AskIsSound ==
  ASSUME NEW type, NEW why, at' = Ask(type, why)
  PROVE  PlacesAreSound'
BY AsksOrCloses, ElsewhereIsSound

(* What a place of the ladder stands on. *)
LEMMA LadderStands ==
  ASSUME LoopInv, at.pc \in LadderPlaces
  PROVE  /\ Climbs /\ ~code.dirty /\ Renders # {} /\ ~PassOpen /\ LadderIsSound /\ LedgerIsSound
         /\ at.pc \notin {"enter", "closed"}
<1>1. LadderIsSound /\ LedgerIsSound /\ ~code.dirty /\ at.pc \notin {"enter", "closed"}
  BY CleanHere DEF LoopInv, RecordIsSound, PlacesAreSound, LadderPlaces, SeatPlaces
<1>2. Climbs
  BY <1>1 DEF LadderIsSound
<1> QED
  BY <1>1, <1>2, PassIsRecent DEF Climbs, OnTheLadder

(* What the ladder reads is a function of the ledger. *)
LEMMA ReadsKept ==
  ASSUME UNCHANGED led
  PROVE  /\ SuiteDefects' = SuiteDefects /\ Ops' = Ops /\ (IntentOwed' <=> IntentOwed)
         /\ (RefreezeOwed' <=> RefreezeOwed)
<1>1. LastRender' = LastRender /\ PrevRender' = PrevRender
  BY DEF LastRender, PrevRender, SeqsOf
<1>2. Rendered' = Rendered
  BY <1>1 DEF Rendered
<1>3. SuiteStalled' <=> SuiteStalled
  BY <1>1, <1>2 DEF SuiteStalled, SuiteKinds
<1>4. Fresh' = Fresh
  BY <1>1 DEF Fresh, TriageOf, SeqsOf, Seqs
<1>5. SuiteDefects' = SuiteDefects
  BY <1>2, <1>3, <1>4 DEF SuiteDefects, SuiteKinds
<1>6. Since("re-freeze")' <=> Since("re-freeze")
  BY <1>1 DEF Since, SeqsOf
<1> QED
  BY <1>1, <1>2, <1>3, <1>5, <1>6 DEF Ops, IntentOwed, RefreezeOwed, SuiteKinds

LEMMA CycleRepeatKeeps ==
  ASSUME LoopInv, CycleRepeat
  PROVE  LoopInv'
<1>1. at.pc \in LadderPlaces /\ UNCHANGED <<code, tally>>
  BY DEF CycleRepeat, LadderPlaces
<1>2. Climbs /\ ~code.dirty /\ at.pc \notin {"enter", "closed"}
  BY <1>1, LadderStands
<1> DEFINE x == Event("cycle-retry", "", "")
<1>3. Go(Pc("triage")) \/ Go(Ask("cycle-repeat", "")) \/ StampAndGo(x, Pc("triage"))
  BY DEF CycleRepeat
<1>4. Sound(x) /\ x.e = "cycle-retry"
  BY DEF Sound, Event
<1> HIDE DEF x
<1>5. Quiet /\ (PlacesAreSound' => LoopInv')
  <2>1. UNCHANGED led \/ Stamp(x)
    BY <1>3 DEF Go, StampAndGo
  <2> QED
    BY <1>1, <1>2, <1>4, <2>1, CleanGo, CleanStamp DEF Marks
<1>6. PlacesAreSound'
  <2>1. at' = Pc("triage") \/ at' = Ask("cycle-repeat", "")
    BY <1>3 DEF Go, StampAndGo
  <2>2. CASE at' = Pc("triage")
    BY <1>2, <1>5, <2>2, RungIsSound DEF Quiet, Pc
  <2>3. CASE at' = Ask("cycle-repeat", "")
    BY <2>3, AskIsSound
  <2> QED
    BY <2>1, <2>2, <2>3
<1> QED
  BY <1>5, <1>6

LEMMA LadderTriageKeeps ==
  ASSUME LoopInv, LadderTriage
  PROVE  LoopInv'
<1>1. at.pc \in LadderPlaces /\ UNCHANGED <<led, code, tally>>
  BY DEF LadderTriage, LadderPlaces, tree, Go
<1>2. Climbs /\ ~code.dirty /\ at.pc \notin {"enter", "closed"}
  BY <1>1, LadderStands
<1>3. Climbs' /\ (PlacesAreSound' => LoopInv')
  BY <1>1, <1>2, CleanGo DEF Quiet
<1>4. CASE at' = SeatFor("conflict-triage", "repair")
  <2>1. PlacesAreSound'
    BY <1>3, <1>4, SeatIsSound
  <2> QED
    BY <1>3, <2>1
<1>5. CASE at' = Pc("intent")
  BY <1>3, <1>5, RungIsSound DEF Pc
<1> QED
  BY <1>4, <1>5 DEF LadderTriage, Go

LEMMA IntentKeeps ==
  ASSUME LoopInv, Intent
  PROVE  LoopInv'
<1>1. at.pc \in LadderPlaces /\ UNCHANGED <<code, tally>>
  BY DEF Intent, LadderPlaces, tree
<1>2. Climbs /\ ~code.dirty /\ at.pc \notin {"enter", "closed"}
  BY <1>1, LadderStands
<1> DEFINE ops(ruled) == [pc |-> "ops", ruled |-> ruled]
           x == Event("supersede-authorized", "verdict", "")
<1>3. \/ ~IntentOwed /\ Go(ops("none"))
      \/ Go(ops("card")) \/ Go(ops("answer"))
      \/ StampAndGo(x, ops("card"))
      \/ Go(Ask("intent-conflict", "verdict"))
  BY DEF Intent
<1>4. Sound(x) /\ x.e = "supersede-authorized"
  BY DEF Sound, Event
<1> HIDE DEF x
<1>5. Quiet /\ (PlacesAreSound' => LoopInv')
  <2>1. UNCHANGED led \/ Stamp(x)
    BY <1>3 DEF Go, StampAndGo
  <2> QED
    BY <1>1, <1>2, <1>4, <2>1, CleanGo, CleanStamp DEF Marks
<1>6. Climbs'
  BY <1>2, <1>5 DEF Quiet
<1>7. CASE ~IntentOwed /\ Go(ops("none"))
  <2>1. at'.pc = "ops" /\ ~IntentOwed'
    BY <1>7, ReadsKept DEF Go
  <2> QED
    BY <1>5, <1>6, <2>1, ArmIsSound
<1>8. CASE at' = ops("card") \/ at' = ops("answer")
  <2>1. at'.pc = "ops" /\ at'.ruled # "none"
    BY <1>8
  <2> QED
    BY <1>5, <1>6, <2>1, ArmIsSound
<1>9. CASE at' = Ask("intent-conflict", "verdict")
  BY <1>5, <1>9, AskIsSound
<1> QED
  BY <1>3, <1>7, <1>8, <1>9 DEF Go, StampAndGo

LEMMA OpsArmKeeps ==
  ASSUME LoopInv, OpsArm
  PROVE  LoopInv'
<1>1. at.pc = "ops" /\ at.pc \in LadderPlaces /\ UNCHANGED <<code, tally>>
  BY DEF OpsArm, LadderPlaces
<1>2. /\ Climbs /\ ~code.dirty /\ at.pc \notin {"enter", "closed"} /\ Renders # {} /\ LedgerIsSound
      /\ at.ruled = "none" => ~IntentOwed
  BY <1>1, LadderStands DEF LadderIsSound
<1> DEFINE suiteFor(acted) == [pc |-> "suite", ruled |-> at.ruled, acted |-> acted]
           x == Event("operational-fix", "", "")
<1>3. \/ Ops = {} /\ Go(suiteFor(FALSE))
      \/ Go(suiteFor(TRUE))
      \/ StampAndGo(x, suiteFor(TRUE))
      \/ Go(SubstrateProbeGate) \/ Go(SubstrateGate)
  BY DEF OpsArm
<1>4. Sound(x) /\ x.e = "operational-fix"
  BY DEF Sound, Event
<1> HIDE DEF x
<1>5. Quiet /\ (PlacesAreSound' => LoopInv') /\ SuiteDefects' = SuiteDefects
  <2>1. UNCHANGED led \/ Stamp(x)
    BY <1>3 DEF Go, StampAndGo
  <2> QED
    BY <1>1, <1>2, <1>4, <2>1, CleanGo, CleanStamp, ReadsKept, DefectsKept DEF Marks
<1>6. Climbs' /\ (at.ruled = "none" => ~IntentOwed')
  BY <1>2, <1>5 DEF Quiet, IntentOwed
<1>7. CASE Ops = {} /\ Go(suiteFor(FALSE))
  <2>1. at'.pc = "suite" /\ at'.ruled = at.ruled /\ Ops' = {}
    BY <1>7, ReadsKept DEF Go
  <2> QED
    BY <1>5, <1>6, <2>1, ArmIsSound
<1>8. CASE at' = suiteFor(TRUE)
  <2>1. at'.pc = "suite" /\ at'.ruled = at.ruled /\ at'.acted
    BY <1>8
  <2> QED
    BY <1>5, <1>6, <2>1, ArmIsSound
<1>9. CASE at' = SubstrateProbeGate \/ at' = SubstrateGate
  BY <1>5, <1>9, AskIsSound DEF SubstrateProbeGate, SubstrateGate
<1> QED
  BY <1>3, <1>7, <1>8, <1>9 DEF Go, StampAndGo

LEMMA SuiteArmKeeps ==
  ASSUME LoopInv, SuiteArm
  PROVE  LoopInv'
<1>1. at.pc = "suite" /\ at.pc \in LadderPlaces /\ UNCHANGED <<led, code, tally>>
  BY DEF SuiteArm, LadderPlaces, tree, Go
<1>2. /\ Climbs /\ ~code.dirty /\ at.pc \notin {"enter", "closed"} /\ LadderIsSound
      /\ at.ruled = "none" => ~IntentOwed
      /\ ~at.acted => Ops = {}
  BY <1>1, LadderStands DEF LadderIsSound
<1>3. Climbs' /\ (PlacesAreSound' => LoopInv')
  BY <1>1, <1>2, CleanGo DEF Quiet
<1>4. CASE SuiteDefects = {}
  <2>1. at' = [pc |-> "code", acted |-> at.acted]
    BY <1>4 DEF SuiteArm, Go
  <2>2. at'.pc = "code" /\ at'.acted = at.acted
    BY <2>1
  <2>3. ~RefreezeOwed
    BY <1>4 DEF RefreezeOwed, SuiteDefects
  <2>4. SuiteDefects' = {} /\ ~RefreezeOwed' /\ (~at'.acted => Ops' = {})
    BY <1>1, <1>2, <1>4, <2>2, <2>3, ReadsKept
  <2> QED
    BY <1>3, <2>2, <2>4, ArmIsSound
<1>5. CASE SuiteDefects # {}
  <2> DEFINE task == [to |-> "code", of |-> SuiteDefects, ruled |-> at.ruled]
  <2>1. at' = SeatFor("suite", task) /\ task.of = SuiteDefects /\ task.ruled = at.ruled
    BY <1>5 DEF SuiteArm, Go
  <2> HIDE DEF task
  <2>2. PlacesAreSound'
    BY <1>2, <1>3, <2>1, SeatIsSound DEF IntentOwed
  <2> QED
    BY <1>3, <2>2
<1> QED
  BY <1>4, <1>5

(* The suite seat's re-freeze goes back to a cycle, or on up the ladder.     *)
LEMMA RefreezeKeeps ==
  ASSUME LoopInv, Refreeze
  PROVE  LoopInv'
<1>1. /\ at.pc = "out" /\ at.seat = "suite" /\ UNCHANGED <<code, tally>>
      /\ SeatsAreSound /\ EditsAreKnown /\ LedgerIsSound
  BY DEF Refreeze, LoopInv, PlacesAreSound, RecordIsSound
<1>2. /\ ~code.dirty
      /\ at.task.ruled = "none" => "intent" \notin at.task.of
      /\ at.task.to # "spectrum" => Climbs
  BY <1>1 DEF EditsAreKnown, SeatsAreSound, SeatPlaces, DevSeats
<1>3. CASE Refuse
  BY <1>1, <1>3, RefuseKeeps
<1> DEFINE x == [e |-> "re-freeze", of |-> "", why |-> "", found |-> at.task.of, ruled |-> at.task.ruled]
           place == IF at.task.to = "spectrum" THEN Spectrum({})
                    ELSE IF at.task.of \cap Fresh # {} THEN Pc("loop")
                    ELSE [pc |-> "code", acted |-> TRUE]
<1>4. CASE StampAndGo(x, place)
  <2>1. Stamp(x) /\ at' = place
    BY <1>4 DEF StampAndGo
  <2>2. Sound(x) /\ x.e = "re-freeze"
    <3>1. x.e = "re-freeze" /\ x.found = at.task.of /\ x.ruled = at.task.ruled /\ "nth" \notin DOMAIN x
      OBVIOUS
    <3> HIDE DEF x
    <3> QED
      BY <3>1, <1>2 DEF Sound
  <2> HIDE DEF x
  <2>3. Quiet /\ (PlacesAreSound' => LoopInv')
    BY <1>1, <1>2, <2>1, <2>2, CleanStamp DEF Marks
  <2>4. ~RefreezeOwed'
    BY <1>1, <2>1, <2>2, RefreezeKept
  <2>5. CASE at.task.to = "spectrum"
    BY <2>1, <2>3, <2>5, SpectrumIsSound
  <2>6. CASE at.task.to # "spectrum"
    <3>1. Climbs' /\ ~PassOpen'
      BY <1>1, <1>2, <2>3, <2>6, PassIsRecent DEF Quiet, Climbs
    <3>2. CASE at' = Pc("loop")
      BY <2>3, <3>1, <3>2, ElsewhereIsSound DEF Pc
    <3>3. CASE at' = [pc |-> "code", acted |-> TRUE]
      <4>1. at'.pc = "code" /\ at'.acted
        BY <3>3
      <4> QED
        BY <2>3, <2>4, <3>1, <4>1, ArmIsSound
    <3> QED
      BY <2>1, <2>6, <3>2, <3>3
  <2> QED
    BY <2>5, <2>6
<1> QED
  BY <1>3, <1>4 DEF Refreeze

(* What an answered park was answered with is one of its answers.            *)
LEMMA AnswerIsRead ==
  ASSUME LedgerIsSound, NEW type, AnsweredPark(type) > 0
  PROVE  LET answer == led[AnsweredPark(type)]
         IN answer \in Range(led) /\ answer.e = "answer" /\ answer.of = type
<1> DEFINE P == Seqs("park", type)
           p == Newest(P)
<1>1. led \in Seq(Range(led)) /\ Len(led) \in Nat /\ DOMAIN led = 1..Len(led)
  BY DEF LedgerIsSound
<1>2. AnsweredPark(type) = IF Answered(p) THEN AnswerTo(p) ELSE 0
  BY DEF AnsweredPark
<1>3. Answered(p) /\ AnsweredPark(type) = AnswerTo(p)
  BY <1>2
<1>4. p > 0 /\ AnswerTo(p) > 0
  BY <1>3 DEF Answered
<1>5. p \in P
  <2>1. P \subseteq 1..Len(led)
    BY <1>1 DEF Seqs
  <2> HIDE DEF P
  <2>2. /\ P = {} => Newest(P) = 0
        /\ P # {} => Newest(P) \in P
    BY <1>1, <2>1, NewestIs
  <2>3. Newest(P) # 0
    BY <1>4
  <2> QED
    BY <2>2, <2>3
<1>6. led[p].of = type
  BY <1>5 DEF Seqs
<1> HIDE DEF p
<1> DEFINE A == {i \in Seqs("answer", led[p].of) : i > p}
<1>7. AnswerTo(p) = Newest(A)
  BY DEF AnswerTo
<1>8. Newest(A) \in A
  <2>1. A \subseteq 1..Len(led)
    BY <1>1 DEF Seqs
  <2> HIDE DEF A
  <2>2. /\ A = {} => Newest(A) = 0
        /\ A # {} => Newest(A) \in A
    BY <1>1, <2>1, NewestIs
  <2>3. Newest(A) # 0
    BY <1>4, <1>7
  <2> QED
    BY <2>2, <2>3
<1>9. AnsweredPark(type) \in Seqs("answer", type)
  BY <1>3, <1>6, <1>7, <1>8
<1> QED
  BY <1>9, <1>1 DEF Seqs, Range

LEMMA CodeArmKeeps ==
  ASSUME LoopInv, CodeArm
  PROVE  LoopInv'
<1>1. at.pc = "code" /\ at.pc \in LadderPlaces /\ UNCHANGED <<led, code, tally>>
  BY DEF CodeArm, LadderPlaces, tree, Go
<1>2. /\ Climbs /\ ~code.dirty /\ at.pc \notin {"enter", "closed"} /\ Renders # {} /\ ~PassOpen /\ LedgerIsSound
      /\ ~at.acted => Ops = {} /\ SuiteDefects = {}
      /\ ~RefreezeOwed
  BY <1>1, LadderStands DEF LadderIsSound
<1>3. /\ NoAbandon /\ (PlacesAreSound' => LoopInv')
      /\ Climbs' /\ Renders' # {} /\ ~PassOpen' /\ ~RefreezeOwed'
  BY <1>1, <1>2, CleanGo DEF Quiet
<1>4. CountsAreSound /\ AnswersAreKept /\ tally \in TallyTypes /\ Cap \in Nat
  BY CapIsANumber DEF LoopInv, RecordIsSound, CountsAreSound
<1>5. CASE at' = Pc("loop")
  BY <1>3, <1>5, ElsewhereIsSound DEF Pc
<1>6. CASE at' = SeatFor("repair-dev", "repair") /\ Room'
  <2>1. PlacesAreSound'
    BY <1>3, <1>6, SeatIsSound DEF DevSeats
  <2> QED
    BY <1>3, <2>1
<1>7. CASE at' = Pc("fresh-pass")
  <2>1. at'.pc = "fresh-pass"
    BY <1>7 DEF Pc
  <2> QED
    BY <1>3, <2>1, ArmIsSound
<1>8. CASE at' = Ask("second-stall", "")
  BY <1>3, <1>8, AskIsSound
<1>9. CASE Code = {} /\ ~SuiteStalled
  <2>1. SUFFICES ASSUME ~at.acted PROVE FALSE
    BY <1>5, <1>9 DEF CodeArm, Go
  <2>2. Rendered.open \subseteq AllKinds /\ Rendered.open # {}
    <3>1. Rendered \in Range(led) /\ Rendered.e = "verdict-rendered"
      BY <1>2, RendersAre DEF LedgerIsSound
    <3> QED
      BY <1>2, <3>1 DEF LedgerIsSound, Sound, Climbs, OnTheLadder
  <2>3. Rendered.open \cap {"env"} = {} /\ Rendered.open \cap SuiteKinds = {} /\ Rendered.open \cap CodeKinds = {}
    BY <1>2, <1>9, <2>1 DEF Ops, SuiteDefects, Code
  <2> QED
    BY <2>2, <2>3 DEF AllKinds, SuiteKinds, CodeKinds
<1>10. CASE ~(Code = {} /\ ~SuiteStalled) /\ ~(RepairStalled \/ CapExhausted \/ SuiteStalled)
  <2>1. at' = SeatFor("repair-dev", "repair") /\ ~CapExhausted
    BY <1>10 DEF CodeArm, Go
  <2>2. tally.again = 0 => tally.rounds < Cap
    <3>1. tally.rounds \in Nat /\ tally.again \in Nat /\ ~(tally.rounds >= Cap + tally.again)
      BY <1>4, <2>1 DEF TallyTypes, CapExhausted
    <3> QED
      BY <1>4, <3>1
  <2>3. Room'
    BY <1>1, <2>2 DEF Room
  <2> QED
    BY <1>6, <2>1, <2>3
<1>11. CASE ~(Code = {} /\ ~SuiteStalled) /\ (RepairStalled \/ CapExhausted \/ SuiteStalled)
  <2> DEFINE answer == AnsweredPark("second-stall")
             fresh == FreshAllowed \/ (answer > LastRender /\ led[answer].why = "fresh-pass")
  <2>1. at' = IF fresh THEN Pc("fresh-pass")
              ELSE IF answer > LastRender THEN SeatFor("repair-dev", "repair")
              ELSE Ask("second-stall", "")
    BY <1>11 DEF CodeArm, Go
  <2>2. ASSUME ~fresh, answer > LastRender PROVE Room'
    <3>1. LastRender \in Nat /\ answer \in Nat
      <4>1. Len(led) \in Nat /\ DOMAIN led = 1..Len(led) /\ led \in Seq(Range(led))
        BY <1>2 DEF LedgerIsSound
      <4>2. LastRender \in Nat
        BY <1>2, <4>1, RendersAre
      <4>3. AnsweredPark("second-stall") \in Nat
        <5>1. \A p : AnswerTo(p) \in Nat
          <6> SUFFICES ASSUME NEW p PROVE AnswerTo(p) \in Nat
            OBVIOUS
          <6> DEFINE A == {i \in Seqs("answer", led[p].of) : i > p}
          <6>1. A \subseteq 1..Len(led)
            BY <4>1 DEF Seqs
          <6> HIDE DEF A
          <6>2. Newest(A) \in 0..Len(led)
            BY <4>1, <6>1, NewestIs
          <6> QED
            BY <6>2, <4>1 DEF AnswerTo, A
        <5> QED
          BY <5>1 DEF AnsweredPark
      <4> QED
        BY <4>2, <4>3
    <3>2. answer > 0
      BY <2>2, <3>1
    <3>3. led[answer] \in Range(led) /\ led[answer].e = "answer" /\ led[answer].of = "second-stall"
      BY <1>2, <3>2, AnswerIsRead
    <3> HIDE DEF answer
    <3>4. led[answer].why \in {"repair-again", "fresh-pass", "abandon"}
      BY <1>2, <3>3 DEF LedgerIsSound, Sound
    <3>5. led[answer].why = "repair-again"
      BY <1>3, <2>2, <3>3, <3>4 DEF NoAbandon
    <3>6. tally.again > 0
      BY <1>4, <3>3, <3>5 DEF AnswersAreKept
    <3>7. tally.again # 0
      BY <1>4, <3>6 DEF TallyTypes
    <3> QED
      BY <1>1, <3>7 DEF Room
  <2> HIDE DEF answer, fresh
  <2> QED
    BY <1>6, <1>7, <1>8, <2>1, <2>2
<1> QED
  BY <1>9, <1>10, <1>11

LEMMA FreshPassKeeps ==
  ASSUME LoopInv, FreshPass
  PROVE  LoopInv'
<1>1. at.pc = "fresh-pass" /\ at.pc \in LadderPlaces /\ UNCHANGED <<led, tally>>
  BY DEF FreshPass, LadderPlaces, Go
<1>2. Climbs /\ at.pc \notin {"enter", "closed"} /\ ~RefreezeOwed
  BY <1>1, LadderStands DEF LadderIsSound
<1>3. code' = [dirty |-> FALSE, holds |-> 0, read |-> TRUE] /\ at' = Pc("born")
  BY <1>2 DEF FreshPass, Climbs, Go
<1>4. code' \in CodeTypes /\ ~code'.dirty /\ at'.pc = "born"
  BY <1>3 DEF CodeTypes, Pc
<1>5. NoAbandon
  BY <1>1, Unabandoned
<1>6. RecordIsSound' /\ Quiet
  BY <1>1, <1>4, <1>5, GoFrame
<1>7. PlacesAreSound'
  BY <1>2, <1>4, <1>6, ArmIsSound DEF Quiet
<1> QED
  BY <1>4, <1>6, <1>7, CleanIsKnown DEF LoopInv

LEMMA PassBornKeeps ==
  ASSUME LoopInv, PassBorn
  PROVE  LoopInv'
<1> DEFINE x == Event("fresh-pass", "", "")
<1>1. at.pc = "born" /\ at.pc \in LadderPlaces /\ UNCHANGED <<code, tally>> /\ at' = SeatFor("dev", "fresh") /\ Stamp(x)
  BY DEF PassBorn, LadderPlaces, StampAndGo
<1>2. /\ Climbs /\ ~code.dirty /\ Renders # {} /\ ~RefreezeOwed /\ LedgerIsSound
      /\ NoAbandon /\ AnswersAreKept /\ CountsAreSound
  BY <1>1, LadderStands, Unabandoned DEF LadderIsSound, LoopInv, RecordIsSound
<1>3. Sound(x) /\ x.e = "fresh-pass"
  BY DEF Sound, Event
<1> HIDE DEF x
<1>4. LedgerIsSound' /\ \A y \in Range(led') : y.e = "answer" => y \in Range(led)
  BY <1>1, <1>2, <1>3, StampMoves DEF LedgerIsSound
<1>5. RepairOpen' <=> RepairOpen
  BY <1>1, <1>2, <1>3, RoundKept
<1>6. PassOpen'
  <2>1. Len(led') \in DOMAIN led' /\ led'[Len(led')] = x /\ \A j \in DOMAIN led' : j \in Nat /\ j <= Len(led')
    BY <1>1, <1>2, StampStands
  <2>2. Len(led') \in SeqsOf("fresh-pass")'
    BY <1>3, <2>1 DEF SeqsOf
  <2>3. \A j \in PassMarks' : j < Len(led')
    BY <1>3, <2>1 DEF PassMarks, RoundMarks, Renders, SeqsOf
  <2>4. Renders' # {}
    BY <1>1, <1>2, <1>3, RendersKept
  <2> QED
    BY <2>2, <2>3, <2>4 DEF PassOpen
<1>7. ~RefreezeOwed'
  BY <1>1, <1>2, <1>3, RefreezeKept
<1>8. PassesAreSound'
  BY <1>6, <1>7 DEF PassesAreSound
<1>9. CountsAreSound'
  BY <1>1, <1>2, <1>5 DEF CountsAreSound, Room
<1>10. AnswersAreKept'
  BY <1>1, <1>2, <1>4 DEF AnswersAreKept, NoAbandon
<1>11. PlacesAreSound'
  BY <1>1, <1>6, SeatIsSound DEF DevSeats
<1> QED
  BY <1>1, <1>2, <1>4, <1>8, <1>9, <1>10, <1>11, CleanIsKnown DEF LoopInv, RecordIsSound

LEMMA StutterKeeps ==
  ASSUME LoopInv, UNCHANGED verdictVars
  PROVE  LoopInv'
<1>1. UNCHANGED <<led, at, code, tally>>
  BY DEF verdictVars, ledgerVars
<1>2. Quiet /\ SuiteDefects' = SuiteDefects /\ Ops' = Ops /\ (IntentOwed' <=> IntentOwed)
  BY <1>1, QuietGo, ReadsKept DEF LoopInv, RecordIsSound
<1>3. AbandonedClose' <=> AbandonedClose
  BY <1>1 DEF AbandonedClose, Abandoned, Answered, AnswerTo, LastPark, Seqs, SeqsOf
<1>4. RecordIsSound'
  BY <1>1, <1>2, <1>3 DEF Quiet, LoopInv, RecordIsSound, AnswersAreKept, CountsAreSound, Room
<1>5. SeatsAreSound'
  BY <1>1, <1>2 DEF Quiet, LoopInv, PlacesAreSound, SeatsAreSound, SeatPlaces, Room
<1>6. CommitsAreSound' /\ CyclesAreSound' /\ ParksAreSound'
  BY <1>1, <1>2 DEF Quiet, LoopInv, PlacesAreSound, CommitsAreSound, CyclesAreSound, ParksAreSound, Room, Open
<1>7. LadderIsSound'
  BY <1>1, <1>2 DEF Quiet, LoopInv, PlacesAreSound, LadderIsSound
<1>8. EditsAreKnown'
  BY <1>1, <1>2 DEF Quiet, LoopInv, EditsAreKnown, Open
<1> QED
  BY <1>4, <1>5, <1>6, <1>7, <1>8 DEF LoopInv, PlacesAreSound

---------------------------------------------------------------------------
(* The invariant holds. *)
THEOREM LoopIsSound == VerdictSpec => []LoopInv
<1>1. LoopInv /\ [VerdictNext]_verdictVars => LoopInv'
  <2> SUFFICES ASSUME LoopInv, VerdictNext PROVE LoopInv'
    BY StutterKeeps
  <2>1. CASE LedgerStep
    BY <2>1, ParkKeeps, AbandonGuardKeeps, RefreshKeeps, DispatchKeeps, NoReportKeeps DEF LedgerStep
  <2>2. CASE Verdict \/ Loop \/ DevReports \/ DevChecks \/ CommitAll \/ ImplementationCommitted \/ RepairRound
    BY <2>2, VerdictKeeps, LoopKeeps, DevReportsKeeps, DevChecksKeeps, CommitAllKeeps,
       ImplementationCommittedKeeps, RepairRoundKeeps
  <2>3. CASE SettleConflicts \/ ConflictTriage \/ RunSpectrum \/ Review \/ Confirmation \/ VerdictRendered
    BY <2>3, SettleConflictsKeeps, ConflictTriageKeeps, RunSpectrumKeeps, ReviewKeeps, ConfirmationKeeps,
       VerdictRenderedKeeps
  <2>4. CASE CycleRepeat \/ LadderTriage \/ Intent \/ OpsArm \/ SuiteArm \/ Refreeze \/ CodeArm
    BY <2>4, CycleRepeatKeeps, LadderTriageKeeps, IntentKeeps, OpsArmKeeps, SuiteArmKeeps, RefreezeKeeps, CodeArmKeeps
  <2>5. CASE FreshPass \/ PassBorn \/ VerdictAnswer \/ VerdictCrash
    BY <2>5, FreshPassKeeps, PassBornKeeps, AnswerKeeps, CrashKeeps
  <2> QED
    BY <2>1, <2>2, <2>3, <2>4, <2>5 DEF VerdictNext
<1> QED
  BY <1>1, InitIsSound, PTL DEF VerdictSpec

(* No gate runs and no verdict is rendered over edits that no commit holds   *)
(* (verdict.mjs: every seat's edits are committed or reset before a cycle).  *)
THEOREM EditsAreCommittedFirst == VerdictSpec => []NothingJudgedUncommitted
<1>1. LoopInv => NothingJudgedUncommitted
  BY DEF LoopInv, EditsAreKnown, NothingJudgedUncommitted, SeatPlaces
<1> QED
  BY <1>1, LoopIsSound, PTL

(* The frozen suite is amended against its card only with a ruling.          *)
THEOREM EveryAmendmentIsRuled == VerdictSpec => []RulingsBackTheSuite
<1>1. LoopInv => RulingsBackTheSuite
  <2> SUFFICES ASSUME LedgerIsSound, NEW i \in SeqsOf("re-freeze"), "intent" \in led[i].found
               PROVE  led[i].ruled # "none"
    BY DEF LoopInv, RecordIsSound, RulingsBackTheSuite
  <2>1. led[i] \in Range(led) /\ led[i].e = "re-freeze"
    BY DEF SeqsOf, Range
  <2> QED
    BY <2>1 DEF LedgerIsSound, Sound
<1> QED
  BY <1>1, LoopIsSound, PTL

(* Every round whose commit is stamped is counted, lost to a stop, or about  *)
(* to be counted.                                                            *)
RoundsAreTold == tally.made = tally.rounds + tally.lost + (IF at.pc = "round" THEN 1 ELSE 0)

LEMMA UntoldStep ==
  ASSUME RoundsAreTold, at.pc # "round", at'.pc # "round",
         tally'.made = tally.made, tally'.rounds = tally.rounds, tally'.lost = tally.lost
  PROVE  RoundsAreTold'
BY DEF RoundsAreTold

(* No lane's own step and no step of the stage but the two stamps of a round *)
(* and the stop between them is one that tells of a round.                   *)
LEMMA SeatStepMoves ==
  ASSUME LoopInv, at.pc \in SeatPlaces, NEW pc, NEW try
  PROVE  [at EXCEPT !.pc = pc].pc = pc /\ [at EXCEPT !.pc = pc, !.try = try].pc = pc
<1>1. at = [pc |-> at.pc, seat |-> at.seat, try |-> at.try, limit |-> at.limit, task |-> at.task]
  BY DEF LoopInv, PlacesAreSound, SeatsAreSound
<1> QED
  BY <1>1

LEMMA PlacesAreOther ==
  /\ \A type, why : Ask(type, why).pc # "round"
  /\ \A seat : SeatFail(seat).pc # "round"
  /\ \A reason : CommandError(reason).pc # "round"
  /\ \A seat, task : SeatFor(seat, task).pc # "round"
  /\ \A riding : Spectrum(riding).pc # "round"
  /\ \A pc : pc # "round" => Pc(pc).pc # "round"
BY DEF Ask, SeatFail, CommandError, Recover, SeatFor, Spectrum, Pc

LEMMA RefusalIsOther ==
  ASSUME LoopInv, at.pc \in SeatPlaces, Refuse
  PROVE  at'.pc # "round"
<1>1. CASE at.try >= at.limit
  <2>1. at' = SeatFail(at.seat)
    BY <1>1 DEF Refuse, StampAndGo
  <2> QED
    BY <2>1, PlacesAreOther
<1>2. CASE ~(at.try >= at.limit)
  BY <1>2, SeatStepMoves DEF Refuse, Go
<1> QED
  BY <1>1, <1>2

LEMMA LedgerStepIsOther ==
  ASSUME LoopInv, LedgerStep
  PROVE  at.pc # "round" /\ at'.pc # "round"
<1>1. CASE Park \/ AbandonGuard
  <2>1. at.pc \in {"ask", "enter"} /\ at' \in {Pc("parked"), Pc("closed")}
    BY <1>1 DEF Park, AbandonGuard, StampAndGo, Go
  <2> QED
    BY <2>1 DEF Pc
<1>4. CASE RefreshForRetry
  <2>1. at.pc = "enter" /\ at' = at
    BY <1>4 DEF RefreshForRetry, StampAndGo
  <2> QED
    BY <2>1
<1>2. CASE Dispatch
  <2>1. at.pc = "dispatch" /\ at' = [at EXCEPT !.pc = "out"]
    BY <1>2 DEF Dispatch, StampAndGo, Go
  <2> QED
    BY <2>1, SeatStepMoves DEF SeatPlaces
<1>3. CASE NoReport
  <2>1. at.pc = "out" /\ at' = SeatFail(at.seat)
    BY <1>3 DEF NoReport, StampAndGo
  <2> QED
    BY <2>1, PlacesAreOther
<1> QED
  BY <1>1, <1>2, <1>3, <1>4 DEF LedgerStep

LEMMA ImplementingIsOther ==
  ASSUME LoopInv, Verdict \/ Loop \/ DevReports \/ DevChecks \/ CommitAll
  PROVE  at.pc # "round" /\ at'.pc # "round"
<1>1. CASE Verdict
  BY <1>1, PlacesAreOther DEF Verdict, Enters
<1>2. CASE Loop
  BY <1>2 DEF Loop, Go, Pc
<1>3. CASE DevReports
  <2>1. at.pc = "out" /\ at' = [at EXCEPT !.pc = "captured"]
    BY <1>3 DEF DevReports, Go
  <2> QED
    BY <2>1, SeatStepMoves DEF SeatPlaces
<1>4. CASE DevChecks
  <2>1. at.pc = "captured"
    BY <1>4 DEF DevChecks
  <2>2. CASE Refuse
    BY <2>1, <2>2, RefusalIsOther DEF SeatPlaces
  <2>3. CASE at' = [pc |-> "commit", task |-> at.task]
    BY <2>1, <2>3
  <2> QED
    BY <1>4, <2>2, <2>3 DEF DevChecks, Go, StampAndGo
<1>5. CASE CommitAll
  BY <1>5 DEF CommitAll, Go
<1> QED
  BY <1>1, <1>2, <1>3, <1>4, <1>5

LEMMA CycleIsOther ==
  ASSUME SettleConflicts \/ ConflictTriage \/ RunSpectrum \/ Review \/ Confirmation \/ VerdictRendered
  PROVE  at.pc # "round" /\ at'.pc # "round"
<1>1. CASE SettleConflicts
  BY <1>1, PlacesAreOther DEF SettleConflicts, Go, StampAndGo
<1>2. CASE ConflictTriage
  <2>1. at.pc = "out" /\ (at' = Pc("cycle") \/ at' = Pc("intent"))
    BY <1>2 DEF ConflictTriage, StampAndGo
  <2> QED
    BY <2>1, PlacesAreOther
<1>3. \A place \in NoAnswer : place.pc # "round"
  <2>1. GateCommandError.pc # "round" /\ ExternalGate.pc # "round" /\ TriageFails.pc # "round"
    BY PlacesAreOther DEF GateCommandError, ExternalGate, TriageFails
  <2> QED
    BY <2>1 DEF NoAnswer
<1>4. CASE RunSpectrum
  BY <1>3, <1>4 DEF RunSpectrum, Go
<1>5. CASE Confirmation
  BY <1>3, <1>5 DEF Confirmation, Go
<1>6. CASE Review
  BY <1>6, PlacesAreOther DEF Review, Go
<1>7. CASE VerdictRendered
  BY <1>7 DEF VerdictRendered, Pc
<1> QED
  BY <1>1, <1>2, <1>4, <1>5, <1>6, <1>7

LEMMA LadderIsOther ==
  ASSUME LoopInv,
         CycleRepeat \/ LadderTriage \/ Intent \/ OpsArm \/ SuiteArm \/ Refreeze \/ CodeArm \/ FreshPass \/ PassBorn
  PROVE  at.pc # "round" /\ at'.pc # "round"
<1>1. CASE CycleRepeat
  BY <1>1, PlacesAreOther DEF CycleRepeat, Go, StampAndGo
<1>2. CASE LadderTriage
  BY <1>2, PlacesAreOther DEF LadderTriage, Go
<1>3. CASE Intent
  <2>1. /\ at.pc = "intent"
        /\ \/ \E ruled : at' = [pc |-> "ops", ruled |-> ruled]
           \/ at' = Ask("intent-conflict", "verdict")
    BY <1>3 DEF Intent, Go, StampAndGo
  <2> QED
    BY <2>1, PlacesAreOther
<1>4. CASE OpsArm
  <2>1. /\ at.pc = "ops"
        /\ \/ \E ruled, acted : at' = [pc |-> "suite", ruled |-> ruled, acted |-> acted]
           \/ at' = SubstrateProbeGate \/ at' = SubstrateGate
    BY <1>4 DEF OpsArm, Go, StampAndGo
  <2>2. SubstrateProbeGate.pc # "round" /\ SubstrateGate.pc # "round"
    BY PlacesAreOther DEF SubstrateProbeGate, SubstrateGate
  <2> QED
    BY <2>1, <2>2
<1>5. CASE SuiteArm
  BY <1>5, PlacesAreOther DEF SuiteArm, Go
<1>6. CASE Refreeze
  <2>1. at.pc = "out"
    BY <1>6 DEF Refreeze
  <2>2. CASE Refuse
    BY <2>1, <2>2, RefusalIsOther DEF SeatPlaces
  <2>3. CASE ~Refuse
    <3>1. at' = Spectrum({}) \/ at' = Pc("loop") \/ at' = [pc |-> "code", acted |-> TRUE]
      BY <1>6, <2>3 DEF Refreeze, StampAndGo
    <3> QED
      BY <2>1, <3>1, PlacesAreOther
  <2> QED
    BY <2>2, <2>3
<1>7. CASE CodeArm
  BY <1>7, PlacesAreOther DEF CodeArm, Go
<1>8. CASE FreshPass
  BY <1>8, PlacesAreOther DEF FreshPass, Go
<1>9. CASE PassBorn
  BY <1>9, PlacesAreOther DEF PassBorn, StampAndGo
<1> QED
  BY <1>1, <1>2, <1>3, <1>4, <1>5, <1>6, <1>7, <1>8, <1>9

LEMMA TellingSteps ==
  ASSUME RoundsAreTold, tally \in TallyTypes, ImplementationCommitted \/ RepairRound \/ VerdictCrash
  PROVE  RoundsAreTold'
<1>1. tally.made \in Nat /\ tally.rounds \in Nat /\ tally.lost \in Nat
  BY DEF TallyTypes
<1>2. CASE ImplementationCommitted
  <2>1. CASE at.task = "fresh"
    <3>1. at' = Pc("loop")
      BY <1>2, <2>1 DEF ImplementationCommitted, StampAndGo
    <3>2. PICK p, f : tally' = [tally EXCEPT !.pass = p, !.rounds = 0, !.made = 0, !.lost = 0, !.fresh = f]
      BY <1>2, <2>1 DEF ImplementationCommitted
    <3>3. tally'.made = 0 /\ tally'.rounds = 0 /\ tally'.lost = 0
      BY <3>2 DEF TallyTypes
    <3> QED
      BY <3>1, <3>3 DEF RoundsAreTold, Pc
  <2>2. CASE at.task # "fresh"
    <3>1. at.pc = "committed" /\ at'.pc = "round"
      <4>1. \E of : at' = [pc |-> "round", of |-> of]
        BY <1>2, <2>2 DEF ImplementationCommitted, StampAndGo
      <4>2. at.pc = "committed"
        BY <1>2 DEF ImplementationCommitted
      <4> QED
        BY <4>1, <4>2
    <3>2. tally'.made = tally.made + 1 /\ tally'.rounds = tally.rounds /\ tally'.lost = tally.lost
      BY <1>2, <2>2 DEF ImplementationCommitted, TallyTypes
    <3> QED
      BY <1>1, <3>1, <3>2 DEF RoundsAreTold
  <2> QED
    BY <2>1, <2>2
<1>3. CASE RepairRound
  <2>1. at.pc = "round" /\ at'.pc # "round"
    BY <1>3 DEF RepairRound, StampAndGo, Pc
  <2>2. tally'.rounds = tally.rounds + 1 /\ tally'.made = tally.made /\ tally'.lost = tally.lost
    BY <1>3 DEF RepairRound, TallyTypes
  <2> QED
    BY <1>1, <2>1, <2>2 DEF RoundsAreTold
<1>4. CASE VerdictCrash
  <2> DEFINE n == IF at.pc = "round" THEN 1 ELSE 0
  <2>1. at'.pc # "round"
    BY <1>4 DEF VerdictCrash, Crash, Pc
  <2>2. tally' = [tally EXCEPT !.lost = @ + n]
    BY <1>4 DEF VerdictCrash
  <2>3. n \in Nat /\ tally.made = tally.rounds + tally.lost + n
    BY DEF RoundsAreTold
  <2> HIDE DEF n
  <2>4. tally'.lost = tally.lost + n /\ tally'.made = tally.made /\ tally'.rounds = tally.rounds
    BY <2>2 DEF TallyTypes
  <2> QED
    BY <1>1, <2>1, <2>3, <2>4 DEF RoundsAreTold
<1> QED
  BY <1>2, <1>3, <1>4

THEOREM EveryRoundIsTold == VerdictSpec => [](RoundsAreTold /\ LoopInv)
<1>1. VerdictInit => RoundsAreTold
  BY DEF VerdictInit, Tally, Pc, RoundsAreTold
<1>2. LoopInv /\ RoundsAreTold /\ [VerdictNext]_verdictVars => RoundsAreTold'
  <2> SUFFICES ASSUME LoopInv, RoundsAreTold, VerdictNext PROVE RoundsAreTold'
    BY DEF RoundsAreTold, verdictVars, ledgerVars
  <2>1. tally \in TallyTypes
    BY DEF LoopInv, RecordIsSound, CountsAreSound
  <2>2. CASE ImplementationCommitted \/ RepairRound \/ VerdictCrash
    BY <2>1, <2>2, TellingSteps
  <2>3. CASE LedgerStep
    BY <2>3, LedgerStepIsOther, UntoldStep DEF LedgerStep, tree
  <2>4. CASE Verdict \/ Loop \/ DevReports \/ DevChecks \/ CommitAll
    <3>1. UNCHANGED tally
      BY <2>4 DEF Verdict, Loop, DevReports, DevChecks, CommitAll, tree
    <3> QED
      BY <2>4, <3>1, ImplementingIsOther, UntoldStep
  <2>5. CASE SettleConflicts \/ ConflictTriage \/ RunSpectrum \/ Review \/ Confirmation
    <3>1. UNCHANGED tally
      BY <2>5 DEF SettleConflicts, ConflictTriage, RunSpectrum, Review, Confirmation, tree
    <3> QED
      BY <2>5, <3>1, CycleIsOther, UntoldStep
  <2>6. CASE VerdictRendered
    <3>1. tally'.made = tally.made /\ tally'.rounds = tally.rounds /\ tally'.lost = tally.lost
      BY <2>1, <2>6 DEF VerdictRendered, TallyTypes
    <3> QED
      BY <2>6, <3>1, CycleIsOther, UntoldStep
  <2>7. CASE CycleRepeat \/ LadderTriage \/ Intent \/ OpsArm \/ SuiteArm \/ Refreeze \/ CodeArm \/ FreshPass \/ PassBorn
    <3>1. UNCHANGED tally
      BY <2>7 DEF CycleRepeat, LadderTriage, Intent, OpsArm, SuiteArm, Refreeze, CodeArm, FreshPass, PassBorn, tree
    <3> QED
      BY <2>7, <3>1, LadderIsOther, UntoldStep
  <2>8. CASE VerdictAnswer
    <3>1. at.pc = "parked" /\ at' = Pc("enter")
      BY <2>8 DEF VerdictAnswer, Answer
    <3>2. PICK a, f : tally' = [tally EXCEPT !.again = a, !.freshAnswers = f]
      BY <2>8 DEF VerdictAnswer
    <3>3. tally'.made = tally.made /\ tally'.rounds = tally.rounds /\ tally'.lost = tally.lost
      BY <2>1, <3>2 DEF TallyTypes
    <3> QED
      BY <3>1, <3>3, UntoldStep DEF Pc
  <2> QED
    BY <2>2, <2>3, <2>4, <2>5, <2>6, <2>7, <2>8 DEF VerdictNext
<1> QED
  BY <1>1, <1>2, LoopIsSound, PTL DEF VerdictSpec

(* Every red takes a rung, and a pass makes no more rounds than the cap and  *)
(* those a stop kept from being counted, until the operator grants more: the *)
(* throw at the end of ladder() is dead code.                                *)
THEOREM EveryRedTakesARung == VerdictSpec => []TheLadderIsBounded
<1>1. RoundsAreTold /\ LoopInv => TheLadderIsBounded
  <2> SUFFICES ASSUME RoundsAreTold, LoopInv PROVE TheLadderHasARoute /\ RoundsAreCapped
    BY DEF TheLadderIsBounded
  <2>1. /\ tally \in TallyTypes /\ Cap \in Nat
        /\ tally.again = 0 => tally.rounds <= Cap
        /\ at.pc = "round" => (tally.again = 0 => tally.rounds < Cap)
    BY CapIsANumber DEF LoopInv, RecordIsSound, CountsAreSound, PlacesAreSound, CommitsAreSound, Room
  <2>2. tally.rounds \in Nat /\ tally.lost \in Nat
    BY <2>1 DEF TallyTypes
  <2>3. RoundsAreCapped
    BY <2>1, <2>2 DEF RoundsAreTold, RoundsAreCapped
  <2>4. TheLadderHasARoute
    BY DEF LoopInv, PlacesAreSound, LadderIsSound, TheLadderHasARoute
  <2> QED
    BY <2>3, <2>4
<1> QED
  BY <1>1, EveryRoundIsTold, PTL
---------------------------------------------------------------------------
(* The gate before the freeze.                                               *)

(* A round's stamp says what it found: a pass, or something that blocks.     *)
Lawful(x) ==
    /\ "nth" \in DOMAIN x <=> x.e = "spec-gate-round"
    /\ x.e = "spec-gate-round" => /\ x.nth \in 0..2 /\ x.blocking \in SUBSET Blockers
                                  /\ x.of # "pass" => x.blocking # {}
GateRounds == SeqsOf("spec-gate-round")
GateLedger ==
    /\ led \in Seq(Range(led)) /\ \A x \in Range(led) : Lawful(x)
    /\ \A i, j \in GateRounds : led[i].nth = led[j].nth => i = j

(* The j-th round since the operator last answered leaves room for what the  *)
(* rounds behind it can still close.                                         *)
Falls(round, j) == 2 * Cardinality(round.blocking) + j <= 2 * Cardinality(Blockers) + 2
RoundsFall ==
    /\ dry \in Nat /\ ConvergesOrAsks
    /\ stage \in {"readiness", "inherit", "spec-birth"} => dry = 0
    /\ stage = "spec-gate" => /\ dry >= 1 => Rounds # {}
                              /\ dry >= 2 => \E round \in Back(1) : Falls(round, dry - 1)
                              /\ dry >= 3 => \E round \in Back(2) : Falls(round, dry - 2)

(* A round is judged behind one that neither passed nor stalled, and over a  *)
(* document that every ruling has been worked into.                          *)
SeatOut(seat) == at.pc \in {"dispatch", "out"} /\ at.seat = seat
GatesAreDue ==
    /\ SeatOut("spec-gate") \/ at.pc = "judged" =>
         stage = "spec-gate" /\ (dry > 0 => led[LastRound].of # "pass" /\ ~GateStall)
    /\ SeatOut("spec-gate") => ~RulingUnheard
    /\ at.pc = "judged" => at.blocking \in SUBSET Blockers

Specified == {"spec-born", "amended", "grounding-conflict", "dependency-needed"}
SeatsAreKnown ==
    /\ at.pc \in {"dispatch", "out", "suite-checks"} \cup Specified =>
         at = [pc |-> at.pc, seat |-> at.seat, try |-> at.try, limit |-> at.limit, task |-> at.task]
    /\ at.pc \in Specified => at.seat = "spec-birth"
    /\ at.pc = "suite-checks" => at.seat = "suite"
    /\ SeatOut("suite") \/ at.pc \in {"suite-checks", "commit", "committed"} => stage \in {"suite", "freeze"}
    /\ at.pc \in {"red-state", "proven"} => stage = "freeze"

(* Whoever is not parked has every question about the intent answered, and   *)
(* rounds behind a stall park are rounds behind its answer.                  *)
IntentParks == Seqs("park", "intent-conflict")
Rulings == Seqs("answer", "intent-conflict")
ParksAreAnswered ==
    /\ at.pc = "parked" => SeqsOf("park") # {}
    /\ Rulings # {} => IntentParks # {}
    /\ \/ \A p \in IntentParks : \E a \in Rulings : a > p
       \/ at.pc = "parked" /\ led[LastPark].of = "intent-conflict"
    /\ StallAsked /\ dry > 0 => at.pc = "parked"

FrozenIsLast == SeqsOf("freeze") # {} => at.pc = "left" /\ (Authorized => suite.head.amends \/ suite.tree.amends)

GateInv == GateLedger /\ RoundsFall /\ GatesAreDue /\ SeatsAreKnown /\ ParksAreAnswered /\ FrozenIsLast

---------------------------------------------------------------------------
(* What a stamp leaves as it was. *)

LEMMA RoundsKept ==
  ASSUME GateLedger, NEW x, Stamp(x), Lawful(x), x.e # "spec-gate-round"
  PROVE  /\ GateLedger' /\ Rounds' = Rounds /\ GateStall' = GateStall
         /\ \A k \in Nat : Back(k)' = Back(k)
         /\ Rounds # {} => led'[LastRound'] = led[LastRound]
<1>1. /\ led' \in Seq(Range(led')) /\ \A y \in Range(led') : y = x \/ y \in Range(led)
      /\ \E sh : Shifted(led, led', x, sh)
  BY StampShifts DEF GateLedger
<1>2. PICK sh : Shifted(led, led', x, sh)
  BY <1>1
<1>3. GateRounds \subseteq DOMAIN sh /\ GateRounds' = Dest(sh, GateRounds)
  BY <1>2, KindMoves DEF GateRounds
<1>4. \A k \in DOMAIN sh : led'[sh[k]] = led[k]
  BY <1>2, ShiftIs
<1>5. Rounds' = Rounds
  BY <1>3, <1>4 DEF Rounds, GateRounds, Dest
<1>6. Rounds # {} => led'[LastRound'] = led[LastRound]
  <2>1. LastRound = Newest(GateRounds) /\ LastRound' = Newest(GateRounds')
    BY DEF LastRound, GateRounds
  <2>2. GateRounds # {} => LastRound \in GateRounds /\ LastRound' = sh[LastRound]
    BY <1>2, <1>3, <2>1, NewestMoves DEF GateLedger
  <2> QED
    BY <1>3, <1>4, <2>2 DEF Rounds, GateRounds
<1>7. ASSUME NEW k \in Nat PROVE Back(k)' = Back(k)
  <2>1. CASE Rounds = {}
    BY <1>5, <2>1 DEF Back
  <2>2. CASE Rounds # {}
    BY <1>5, <1>6, <2>2 DEF Back
  <2> QED
    BY <2>1, <2>2
<1>8. GateStall' = GateStall
  <2>1. Back(0)' = Back(0) /\ Back(1)' = Back(1) /\ Back(2)' = Back(2)
    BY <1>7
  <2> QED
    BY <2>1 DEF GateStall, ClosedNothing, NoFall
<1>9. ASSUME NEW i \in GateRounds', NEW j \in GateRounds', led'[i].nth = led'[j].nth
      PROVE  i = j
  <2>1. PICK a \in GateRounds, b \in GateRounds : i = sh[a] /\ j = sh[b]
    BY <1>3, <1>9 DEF Dest
  <2>2. led[a].nth = led[b].nth
    BY <1>3, <1>4, <1>9, <2>1
  <2> QED
    BY <2>1, <2>2 DEF GateLedger
<1>10. GateLedger'
  <2>1. \A y \in Range(led') : Lawful(y)
    BY <1>1 DEF GateLedger
  <2>2. (\A i, j \in GateRounds : led[i].nth = led[j].nth => i = j)'
    BY <1>9
  <2> QED
    BY <1>1, <2>1, <2>2 DEF GateLedger, Lawful
<1> QED
  BY <1>5, <1>6, <1>7, <1>8, <1>10

(* A stamp of neither a park nor an answer moves the parks and their answers *)
(* together.                                                                 *)
Stalls == Seqs("park", "spec-gate-stalled")
Heard == \A p \in IntentParks : \E a \in Rulings : a > p

LEMMA StallAskedIs ==
  ASSUME led \in Seq(Range(led))
  PROVE  StallAsked <=> \E i \in Stalls : \A r \in GateRounds : r < i
<1>1. GateRounds \subseteq 1..Len(led) /\ Len(led) \in Nat /\ Stalls \subseteq 1..Len(led)
  BY DEF GateRounds, SeqsOf, Stalls, Seqs
<1> QED
  BY <1>1, AfterNewest DEF StallAsked, LastRound, GateRounds, Stalls

LEMMA StallAskedIsNext ==
  ASSUME led' \in Seq(Range(led'))
  PROVE  StallAsked' <=> \E i \in Stalls' : \A r \in GateRounds' : r < i
<1>1. GateRounds' \subseteq 1..Len(led') /\ Len(led') \in Nat /\ Stalls' \subseteq 1..Len(led')
  BY DEF GateRounds, SeqsOf, Stalls, Seqs
<1>2. StallAsked' <=> After(Stalls', Newest(GateRounds'))
  BY DEF StallAsked, LastRound, GateRounds, Stalls, After
<1> QED
  BY <1>1, <1>2, AfterNewest

LEMMA StallKept ==
  ASSUME GateLedger, NEW x, Stamp(x), Lawful(x), x.e # "spec-gate-round", x.e = "park" => x.of # "spec-gate-stalled"
  PROVE  StallAsked' <=> StallAsked
<1>1. led \in Seq(Range(led)) /\ led' \in Seq(Range(led')) /\ \E sh : Shifted(led, led', x, sh)
  BY StampShifts DEF GateLedger
<1>2. PICK sh : Shifted(led, led', x, sh)
  BY <1>1
<1>3. GateRounds \subseteq DOMAIN sh /\ GateRounds' = Dest(sh, GateRounds)
  BY <1>2, KindMoves DEF GateRounds
<1>4. Stalls \subseteq DOMAIN sh /\ Stalls' = Dest(sh, Stalls)
  <2>1. CASE x.e # "park"
    BY <2>1, <1>2, KindMoves DEF Stalls
  <2>2. CASE x.e = "park"
    <3>1. "nth" \notin DOMAIN x /\ \A k \in DOMAIN led : led[k].e = x.e => "nth" \notin DOMAIN led[k]
      BY <2>2 DEF GateLedger, Lawful, Range
    <3>2. Seqs(x.e, "spec-gate-stalled") \subseteq DOMAIN sh /\ Seqs(x.e, "spec-gate-stalled")' = Dest(sh, Seqs(x.e, "spec-gate-stalled"))
      BY <2>2, <3>1, <1>2, NameShifts
    <3> QED
      BY <2>2, <3>2 DEF Stalls
  <2> QED
    BY <2>1, <2>2
<1>5. (\E i \in Stalls : \A r \in GateRounds : r < i) <=> (\E i \in Stalls' : \A r \in GateRounds' : r < i)
  BY <1>2, <1>3, <1>4, ImageReaches, MovesInOrder
<1> QED
  BY <1>1, <1>5, StallAskedIs, StallAskedIsNext

LEMMA HeardKept ==
  ASSUME GateLedger, NEW x, Stamp(x), Lawful(x), x.e \in {"park", "answer"} => x.of # "intent-conflict"
  PROVE  /\ Heard' <=> Heard
         /\ Rulings' # {} <=> Rulings # {}
         /\ IntentParks' # {} <=> IntentParks # {}
<1>1. \E sh : Shifted(led, led', x, sh)
  BY StampShifts DEF GateLedger
<1>2. PICK sh : Shifted(led, led', x, sh)
  BY <1>1
<1>3. ASSUME NEW e \in {"park", "answer"}
      PROVE  Seqs(e, "intent-conflict") \subseteq DOMAIN sh /\ Seqs(e, "intent-conflict")' = Dest(sh, Seqs(e, "intent-conflict"))
  <2>1. CASE x.e # e
    <3>1. e # x.e
      BY <2>1
    <3>2. \A of : Seqs(e, of) \subseteq DOMAIN sh /\ Seqs(e, of)' = Dest(sh, Seqs(e, of))
      BY <3>1, <1>2, KindMoves
    <3> QED
      BY <3>2
  <2>2. CASE x.e = e
    <3>1. "nth" \notin DOMAIN x /\ \A k \in DOMAIN led : led[k].e = x.e => "nth" \notin DOMAIN led[k]
      BY <2>2 DEF GateLedger, Lawful, Range
    <3>2. "intent-conflict" # x.of
      BY <2>2
    <3>3. Seqs(x.e, "intent-conflict") \subseteq DOMAIN sh /\ Seqs(x.e, "intent-conflict")' = Dest(sh, Seqs(x.e, "intent-conflict"))
      BY <3>1, <3>2, <1>2, NameShifts
    <3> QED
      BY <2>2, <3>3
  <2> QED
    BY <2>1, <2>2
<1>4. /\ IntentParks \subseteq DOMAIN sh /\ IntentParks' = Dest(sh, IntentParks)
      /\ Rulings \subseteq DOMAIN sh /\ Rulings' = Dest(sh, Rulings)
  BY <1>3 DEF IntentParks, Rulings
<1>5. \A a \in DOMAIN sh : a \in Nat /\ sh[a] \in Nat
  BY <1>2 DEF Shifted, GateLedger
<1>6. Heard' <=> Heard
  BY <1>2, <1>4, <1>5, ImageFollows, MovesInOrder DEF Heard
<1> QED
  BY <1>4, <1>6 DEF Dest

LEMMA UnheardKept ==
  ASSUME GateLedger, NEW x, Stamp(x), x.e \notin {"answer", "seat-report"}
  PROVE  RulingUnheard' <=> RulingUnheard
<1>1. \E sh : Shifted(led, led', x, sh)
  BY StampShifts DEF GateLedger
<1>2. PICK sh : Shifted(led, led', x, sh)
  BY <1>1
<1> DEFINE R == Seqs("seat-report", "spec-birth")
<1>3. /\ Rulings \subseteq DOMAIN sh /\ Rulings' = Dest(sh, Rulings)
      /\ R \subseteq DOMAIN sh /\ R' = Dest(sh, R)
  BY <1>2, KindMoves DEF Rulings
<1>4. \A a \in DOMAIN sh : a \in Nat /\ sh[a] \in Nat
  BY <1>2 DEF Shifted, GateLedger
<1> HIDE DEF R
<1>5. (\A i \in Rulings : \E j \in R : j > i) <=> (\A i \in Rulings' : \E j \in R' : j > i)
  BY <1>2, <1>3, <1>4, ImageFollows, MovesInOrder
<1>6. RulingUnheard <=> ~\A i \in Rulings : \E j \in R : j > i
  BY DEF RulingUnheard, SeatReportAfter, After, Rulings, R
<1>7. RulingUnheard' <=> ~\A i \in Rulings' : \E j \in R' : j > i
  BY DEF RulingUnheard, SeatReportAfter, After, Rulings, R
<1> QED
  BY <1>5, <1>6, <1>7

LEMMA FreezesKept ==
  ASSUME GateLedger, NEW x, Stamp(x), x.e # "freeze"
  PROVE  SeqsOf("freeze")' = {} <=> SeqsOf("freeze") = {}
<1>1. \E sh : Shifted(led, led', x, sh)
  BY StampShifts DEF GateLedger
<1>2. PICK sh : Shifted(led, led', x, sh)
  BY <1>1
<1>3. SeqsOf("freeze")' = Dest(sh, SeqsOf("freeze"))
  BY <1>2, KindMoves
<1> QED
  BY <1>3 DEF Dest

(* Most steps stamp nothing, or an event that none of the invariant reads.   *)
Mild(x) == Lawful(x) /\ x.e \notin {"spec-gate-round", "park", "answer", "freeze"}
MildStep == UNCHANGED led \/ \E x : Mild(x) /\ Stamp(x)

LEMMA EventIsMild ==
  ASSUME NEW e, NEW of, NEW why, e \notin {"spec-gate-round", "park", "answer", "freeze"}
  PROVE  Mild(Event(e, of, why))
BY DEF Mild, Lawful, Event

LEMMA LedgerStays ==
  ASSUME GateLedger, MildStep
  PROVE  /\ GateLedger' /\ Rounds' = Rounds /\ GateStall' = GateStall
         /\ \A k \in Nat : Back(k)' = Back(k)
         /\ Rounds # {} => led'[LastRound'] = led[LastRound]
         /\ StallAsked' <=> StallAsked
         /\ Heard' <=> Heard
         /\ Rulings' # {} <=> Rulings # {}
         /\ IntentParks' # {} <=> IntentParks # {}
         /\ SeqsOf("freeze")' = {} <=> SeqsOf("freeze") = {}
<1>1. CASE UNCHANGED led
  <2>1. GateLedger'
    BY <1>1 DEF GateLedger, GateRounds, SeqsOf, Lawful
  <2>2. Rounds' = Rounds /\ LastRound' = LastRound
    BY <1>1 DEF Rounds, LastRound, SeqsOf
  <2>3. \A k \in Nat : Back(k)' = Back(k)
    BY <1>1, <2>2 DEF Back
  <2>4. GateStall' = GateStall
    <3>1. Back(0)' = Back(0) /\ Back(1)' = Back(1) /\ Back(2)' = Back(2)
      BY <2>3
    <3> QED
      BY <3>1 DEF GateStall, ClosedNothing, NoFall
  <2>5. StallAsked' <=> StallAsked
    BY <1>1, <2>2 DEF StallAsked, Seqs, After
  <2>6. Rulings' = Rulings /\ IntentParks' = IntentParks /\ SeqsOf("freeze")' = SeqsOf("freeze")
    BY <1>1 DEF Rulings, IntentParks, Seqs, SeqsOf
  <2>7. Heard' <=> Heard
    BY <2>6 DEF Heard
  <2>8. led'[LastRound'] = led[LastRound]
    BY <1>1, <2>2
  <2> QED
    BY <2>1, <2>2, <2>3, <2>4, <2>5, <2>6, <2>7, <2>8
<1>2. CASE \E x : Mild(x) /\ Stamp(x)
  <2>1. PICK x : Mild(x) /\ Stamp(x)
    BY <1>2
  <2>2. Lawful(x) /\ x.e \notin {"spec-gate-round", "park", "answer", "freeze"}
    BY <2>1 DEF Mild
  <2>3. /\ GateLedger' /\ Rounds' = Rounds /\ GateStall' = GateStall
        /\ \A k \in Nat : Back(k)' = Back(k)
        /\ Rounds # {} => led'[LastRound'] = led[LastRound]
    BY <2>1, <2>2, RoundsKept
  <2>4. StallAsked' <=> StallAsked
    BY <2>1, <2>2, StallKept
  <2>5. /\ Heard' <=> Heard
        /\ Rulings' # {} <=> Rulings # {}
        /\ IntentParks' # {} <=> IntentParks # {}
    BY <2>1, <2>2, HeardKept
  <2>6. SeqsOf("freeze")' = {} <=> SeqsOf("freeze") = {}
    BY <2>1, <2>2, FreezesKept
  <2> QED
    BY <2>3, <2>4, <2>5, <2>6
<1> QED
  BY <1>1, <1>2 DEF MildStep

(* A step that stamps mildly and stays in its stage disturbs nothing but the *)
(* handler's place.                                                          *)
Disturbed == GateLedger /\ RoundsFall /\ ParksAreAnswered /\ FrozenIsLast
Placed == GatesAreDue /\ SeatsAreKnown

LEMMA MildStepHolds ==
  ASSUME GateInv, MildStep, UNCHANGED <<stage, dry>>, at.pc \notin {"parked", "left"}, at'.pc # "parked"
  PROVE  Disturbed'
<1>1. GateLedger /\ RoundsFall /\ ParksAreAnswered /\ FrozenIsLast
  BY DEF GateInv
<1>2. /\ GateLedger' /\ Rounds' = Rounds
      /\ \A k \in Nat : Back(k)' = Back(k)
      /\ StallAsked' <=> StallAsked
      /\ Heard' <=> Heard
      /\ Rulings' # {} <=> Rulings # {}
      /\ IntentParks' # {} <=> IntentParks # {}
      /\ SeqsOf("freeze")' = {} <=> SeqsOf("freeze") = {}
  BY <1>1, LedgerStays
<1>3. RoundsFall'
  <2>1. Back(1)' = Back(1) /\ Back(2)' = Back(2)
    BY <1>2
  <2>2. ConvergesOrAsks'
    BY <1>1 DEF ConvergesOrAsks, RoundsFall
  <2> QED
    BY <1>1, <1>2, <2>1, <2>2 DEF RoundsFall, Falls
<1>4. ParksAreAnswered'
  <2>1. Heard /\ (Rulings # {} => IntentParks # {}) /\ ~(StallAsked /\ dry > 0)
    BY <1>1 DEF ParksAreAnswered, Heard
  <2>2. Heard' /\ (Rulings' # {} => IntentParks' # {}) /\ ~(StallAsked' /\ dry' > 0)
    BY <1>2, <2>1
  <2> QED
    BY <2>2 DEF ParksAreAnswered, Heard
<1>5. FrozenIsLast'
  BY <1>1, <1>2 DEF FrozenIsLast
<1> QED
  BY <1>2, <1>3, <1>4, <1>5 DEF Disturbed

(* Where the handler can stand.                                              *)
Busy == {"dispatch", "out", "judged", "suite-checks", "commit", "committed", "red-state", "proven"} \cup Specified

LEMMA Aside ==
  ASSUME at'.pc \notin Busy
  PROVE  Placed'
BY DEF Placed, GatesAreDue, SeatsAreKnown, SeatOut, Busy, Specified

LEMMA PlacesAre ==
  /\ \A pc : Pc(pc).pc = pc
  /\ \A type, why : Ask(type, why).pc = "ask" /\ Recover(type, why).pc \in {"ask", "closed"}
  /\ \A seat : SeatFail(seat).pc \in {"ask", "closed"}
  /\ \A reason : Blocked(reason).pc \in {"ask", "closed"} /\ CommandError(reason).pc \in {"ask", "closed"}
BY DEF Pc, Ask, Recover, SeatFail, Blocked, CommandError

LEMMA Seated ==
  ASSUME NEW seat \in {"spec-birth", "suite"}, seat = "suite" => stage' \in {"suite", "freeze"},
         NEW pc \in {"dispatch", "out"}, NEW try, NEW limit, NEW task,
         at' = [pc |-> pc, seat |-> seat, try |-> try, limit |-> limit, task |-> task]
  PROVE  Placed' /\ at'.pc \notin {"parked", "left"}
<1>1. at'.pc = pc /\ at'.seat = seat /\ at'.try = try /\ at'.limit = limit /\ at'.task = task
  OBVIOUS
<1>2. GatesAreDue'
  BY <1>1 DEF GatesAreDue, SeatOut
<1>3. SeatsAreKnown'
  BY <1>1 DEF SeatsAreKnown, SeatOut, Specified
<1> QED
  BY <1>1, <1>2, <1>3 DEF Placed

LEMMA DispatchedIs ==
  \A seat : Seat(seat) = [pc |-> "dispatch", seat |-> seat, try |-> 1, limit |-> AttemptLimit(seat), task |-> ""]
BY DEF Seat, SeatFor

---------------------------------------------------------------------------
(* The gate's own steps.                                                     *)

LEMMA LastRoundIs ==
  ASSUME led \in Seq(Range(led))
  PROVE  /\ LastRound = 0 <=> Rounds = {}
         /\ LastRound # 0 => LastRound \in GateRounds /\ led[LastRound] \in Rounds /\ LastRound > 0
<1>1. GateRounds \subseteq 1..Len(led) /\ Len(led) \in Nat
  BY DEF GateRounds, SeqsOf
<1>2. /\ GateRounds = {} => Newest(GateRounds) = 0
      /\ GateRounds # {} => Newest(GateRounds) \in GateRounds
  BY <1>1, NewestIs
<1>3. LastRound = Newest(GateRounds) /\ Rounds = {led[i] : i \in GateRounds}
  BY DEF LastRound, Rounds, GateRounds
<1>4. \A i \in GateRounds : i > 0 /\ i # 0
  BY <1>1
<1> QED
  BY <1>2, <1>3, <1>4

(* A round's stamp drops the round three before it, and no other.            *)
JudgedRound == [e |-> "spec-gate-round", of |-> IF at.blocking = {} THEN "pass" ELSE "findings",
          nth |-> NextRound, blocking |-> at.blocking]

LEMMA NextRoundIs ==
  ASSUME GateLedger
  PROVE  /\ NextRound \in 0..2
         /\ LastRound # 0 => /\ led[LastRound].nth \in 0..2 /\ NextRound # led[LastRound].nth
                             /\ led[LastRound].nth = (NextRound + 2) % 3
                             /\ (led[LastRound].nth + 2) % 3 = (NextRound + 1) % 3
<1>1. LastRound # 0 => led[LastRound] \in Range(led) /\ led[LastRound].e = "spec-gate-round"
  BY LastRoundIs DEF GateLedger, GateRounds, SeqsOf, Range
<1>2. LastRound # 0 => led[LastRound].nth \in 0..2
  BY <1>1 DEF GateLedger, Lawful
<1>3. ASSUME NEW n \in 0..2
      PROVE  /\ (n + 1) % 3 \in 0..2 /\ (n + 1) % 3 # n
             /\ n = (((n + 1) % 3) + 2) % 3 /\ (n + 2) % 3 = (((n + 1) % 3) + 1) % 3
  OBVIOUS
<1>4. CASE LastRound = 0
  BY <1>4 DEF NextRound
<1>5. CASE LastRound # 0
  BY <1>2, <1>3, <1>5 DEF NextRound
<1> QED
  BY <1>4, <1>5

LEMMA RoundIsLawful ==
  ASSUME GateLedger, at.blocking \in SUBSET Blockers
  PROVE  /\ Lawful(JudgedRound) /\ JudgedRound.e = "spec-gate-round" /\ JudgedRound.nth = NextRound
         /\ JudgedRound.blocking = at.blocking /\ "nth" \in DOMAIN JudgedRound
<1>1. NextRound \in 0..2
  BY NextRoundIs
<1>2. at.blocking # {} \/ JudgedRound.of = "pass"
  BY DEF JudgedRound
<1> QED
  BY <1>1, <1>2 DEF Lawful, JudgedRound

LEMMA RoundStamped ==
  ASSUME GateLedger, at.blocking \in SUBSET Blockers, Stamp(JudgedRound)
  PROVE  /\ GateLedger'
         /\ led'[LastRound'] = JudgedRound
         /\ Rounds' = {JudgedRound} \cup {round \in Rounds : round.nth # NextRound}
         /\ ~StallAsked'
         /\ Heard' <=> Heard
         /\ Rulings' # {} <=> Rulings # {}
         /\ IntentParks' # {} <=> IntentParks # {}
         /\ SeqsOf("freeze")' = {} <=> SeqsOf("freeze") = {}
<1> DEFINE x == JudgedRound
<1>1. /\ Lawful(x) /\ x.e = "spec-gate-round" /\ x.nth = NextRound
      /\ "nth" \in DOMAIN x
  BY RoundIsLawful
<1> HIDE DEF x
<1>2. Stamp(x)
  BY DEF x
<1>3. /\ led' \in Seq(Range(led')) /\ \A y \in Range(led') : y = x \/ y \in Range(led)
      /\ \E sh : Shifted(led, led', x, sh)
  BY <1>2, StampShifts DEF GateLedger
<1>4. PICK sh : Shifted(led, led', x, sh)
  BY <1>3
<1>5. \A k \in DOMAIN led : Key(led[k]) = Key(x) <=> k \in GateRounds /\ led[k].nth = x.nth
  <2> SUFFICES ASSUME NEW k \in DOMAIN led
               PROVE  Key(led[k]) = Key(x) <=> k \in GateRounds /\ led[k].nth = x.nth
    OBVIOUS
  <2>1. Lawful(led[k])
    BY DEF GateLedger, Range
  <2>2. Key(x) = <<"spec-gate-round", x.nth, "">>
    BY <1>1 DEF Key
  <2>3. CASE led[k].e = "spec-gate-round"
    <3>1. Key(led[k]) = <<"spec-gate-round", led[k].nth, "">> /\ k \in GateRounds
      BY <2>1, <2>3 DEF Key, Lawful, GateRounds, SeqsOf
    <3>2. \A a, b : <<"spec-gate-round", a, "">> = <<"spec-gate-round", b, "">> <=> a = b
      OBVIOUS
    <3>3. Key(led[k]) = Key(x) <=> led[k].nth = x.nth
      BY <2>2, <3>1, <3>2
    <3> QED
      BY <3>1, <3>3
  <2>4. CASE led[k].e # "spec-gate-round"
    <3>1. Key(led[k]) # Key(x)
      BY <1>1, <2>4, KeyTells
    <3> QED
      BY <2>4, <3>1 DEF GateRounds, SeqsOf
  <2> QED
    BY <2>3, <2>4
<1>6. \A i, j \in Same(led, x) : i = j
  BY <1>5 DEF Same, GateLedger
<1>7. \A k \in DOMAIN sh : Key(led[k]) # Key(x)
  BY <1>4, <1>6 DEF Shifted
<1>8. /\ Len(led') \in DOMAIN led' /\ led'[Len(led')] = x
      /\ \A j \in DOMAIN led' : j \in Nat /\ j > 0 /\ j <= Len(led')
      /\ \A j \in DOMAIN led' : j = Len(led') \/ \E k \in DOMAIN sh : sh[k] = j
      /\ \A k \in DOMAIN sh : k \in DOMAIN led /\ sh[k] \in DOMAIN led' /\ sh[k] < Len(led') /\ led'[sh[k]] = led[k]
  BY <1>4, ShiftIs
<1>9. \A k \in DOMAIN led \ DOMAIN sh : k \in GateRounds /\ led[k].nth = x.nth
  BY <1>4, <1>5 DEF Shifted
<1>10. \A j \in GateRounds' : j = Len(led') \/ \E k \in GateRounds : k \in DOMAIN sh /\ sh[k] = j /\ led[k].nth # x.nth
  BY <1>5, <1>7, <1>8 DEF GateRounds, SeqsOf
<1>11. Len(led') \in GateRounds' /\ \A k \in GateRounds : led[k].nth # x.nth => k \in DOMAIN sh /\ sh[k] \in GateRounds'
  BY <1>1, <1>8, <1>9 DEF GateRounds, SeqsOf
<1>12. GateLedger'
  <2>1. \A y \in Range(led') : Lawful(y)
    BY <1>1, <1>3 DEF GateLedger
  <2>2. ASSUME NEW i \in GateRounds', NEW j \in GateRounds', led'[i].nth = led'[j].nth
        PROVE  i = j
    <3>1. CASE i = Len(led') \/ j = Len(led')
      BY <3>1, <2>2, <1>8, <1>10
    <3>2. CASE i # Len(led') /\ j # Len(led')
      <4>1. PICK a \in GateRounds, b \in GateRounds : a \in DOMAIN sh /\ b \in DOMAIN sh /\ i = sh[a] /\ j = sh[b]
        BY <3>2, <1>10
      <4>2. led[a].nth = led[b].nth
        BY <2>2, <4>1, <1>8
      <4> QED
        BY <4>1, <4>2 DEF GateLedger
    <3> QED
      BY <3>1, <3>2
  <2>3. (\A i, j \in GateRounds : led[i].nth = led[j].nth => i = j)'
    BY <2>2
  <2> QED
    BY <1>3, <2>1, <2>3 DEF GateLedger, Lawful
<1>13. LastRound' = Len(led')
  <2>1. GateRounds' \subseteq 1..Len(led') /\ Len(led') \in Nat
    BY <1>3 DEF GateRounds, SeqsOf
  <2>2. Newest(GateRounds') \in GateRounds' /\ Len(led') <= Newest(GateRounds')
    BY <1>11, <2>1, NewestIs
  <2>3. Newest(GateRounds') = Len(led')
    <3>1. \A m \in GateRounds' : Len(led') <= m => m = Len(led')
      BY <2>1
    <3> QED
      BY <2>2, <3>1
  <2> QED
    BY <2>3 DEF LastRound, GateRounds
<1>14. Rounds' = {x} \cup {round \in Rounds : round.nth # NextRound}
  <2>1. Rounds' = {led'[i] : i \in GateRounds'} /\ Rounds = {led[i] : i \in GateRounds}
    BY DEF Rounds, GateRounds
  <2>2. Rounds' \subseteq {x} \cup {round \in Rounds : round.nth # NextRound}
    <3> SUFFICES ASSUME NEW j \in GateRounds' PROVE led'[j] = x \/ (led'[j] \in Rounds /\ led'[j].nth # NextRound)
      BY <2>1
    <3> QED
      BY <1>1, <1>8, <1>10, <2>1
  <2>3. x \in Rounds' /\ \A round \in Rounds : round.nth # NextRound => round \in Rounds'
    BY <1>1, <1>8, <1>11, <2>1
  <2> QED
    BY <2>2, <2>3
<1>15. ~StallAsked'
  <2>1. SUFFICES ASSUME NEW i \in Stalls', \A r \in GateRounds' : r < i PROVE FALSE
    BY <1>3, StallAskedIsNext
  <2>2. i \in DOMAIN led'
    BY DEF Stalls, Seqs
  <2> QED
    BY <1>8, <1>11, <2>1, <2>2
<1>16. /\ Heard' <=> Heard
       /\ Rulings' # {} <=> Rulings # {}
       /\ IntentParks' # {} <=> IntentParks # {}
  <2>1. x.e \notin {"park", "answer"}
    BY <1>1
  <2> QED
    BY <1>1, <1>2, <2>1, HeardKept
<1>17. SeqsOf("freeze")' = {} <=> SeqsOf("freeze") = {}
  BY <1>1, <1>2, FreezesKept
<1> QED
  BY <1>8, <1>12, <1>13, <1>14, <1>15, <1>16, <1>17 DEF x

(* A judged round goes under the last one that the count still has room for. *)
LEMMA GateRoundHolds ==
  ASSUME GateInv, GateRound
  PROVE  GateInv'
<1> DEFINE B == Cardinality(Blockers)
           L == led[LastRound]
           x == JudgedRound
<1>1. GateLedger /\ RoundsFall /\ GatesAreDue /\ ParksAreAnswered /\ FrozenIsLast
  BY DEF GateInv
<1>2. /\ at.pc = "judged" /\ Stamp(x) /\ at' = Pc("enter") /\ dry' = dry + 1
      /\ UNCHANGED <<stage, suite>>
  BY DEF GateRound, StampAndGo, JudgedRound
<1>3. /\ stage = "spec-gate" /\ at.blocking \in SUBSET Blockers
      /\ dry > 0 => L.of # "pass" /\ ~GateStall
  BY <1>1, <1>2 DEF GatesAreDue
<1>4. /\ GateLedger' /\ led'[LastRound'] = x
      /\ Rounds' = {x} \cup {round \in Rounds : round.nth # NextRound}
      /\ ~StallAsked'
      /\ Heard' <=> Heard
      /\ Rulings' # {} <=> Rulings # {}
      /\ IntentParks' # {} <=> IntentParks # {}
      /\ SeqsOf("freeze")' = {} <=> SeqsOf("freeze") = {}
  BY <1>1, <1>2, <1>3, RoundStamped
<1>5. /\ x.nth = NextRound /\ NextRound \in 0..2
      /\ LastRound # 0 => L.nth \in 0..2 /\ NextRound # L.nth /\ L.nth = (NextRound + 2) % 3 /\ (L.nth + 2) % 3 = (NextRound + 1) % 3
  BY <1>1, <1>3, NextRoundIs, RoundIsLawful
<1> HIDE DEF x
<1>6. /\ Back(1)' = {round \in Rounds' : round.nth = (NextRound + 2) % 3}
      /\ Back(2)' = {round \in Rounds' : round.nth = (NextRound + 1) % 3}
      /\ Back(0) = {round \in Rounds : round.nth = (L.nth + 3) % 3}
      /\ Back(1) = {round \in Rounds : round.nth = (L.nth + 2) % 3}
  BY <1>4, <1>5 DEF Back
<1>7. ASSUME dry > 0
      PROVE  /\ L \in Back(0) /\ L \in Back(1)' /\ Back(1) \subseteq Back(2)'
             /\ B \in Nat /\ Cardinality(L.blocking) \in 1..B
             /\ dry >= 3 => \E round \in Back(2) : Falls(round, dry - 2) /\ Cardinality(L.blocking) < Cardinality(round.blocking)
             /\ \A round \in Rounds : Cardinality(round.blocking) \in Nat
  <2>1. Rounds # {} /\ LastRound # 0 /\ L \in Rounds
    BY <1>1, <1>3, <1>7, LastRoundIs DEF RoundsFall, GateLedger
  <2>2. L.nth \in 0..2 /\ NextRound # L.nth /\ L.nth = (NextRound + 2) % 3 /\ (L.nth + 2) % 3 = (NextRound + 1) % 3
    BY <1>5, <2>1
  <2>3. L \in Back(0)
    <3>1. L.nth = (L.nth + 3) % 3
      BY <2>2
    <3> QED
      BY <2>1, <3>1, <1>6
  <2>4. L \in Back(1)'
    BY <1>4, <1>6, <2>1, <2>2
  <2>5. Back(1) \subseteq Back(2)'
    <3>1. (NextRound + 1) % 3 # NextRound
      BY <1>5
    <3> QED
      BY <1>4, <1>6, <2>2, <3>1
  <2>6. ASSUME NEW round \in Rounds
        PROVE  /\ round.blocking \in SUBSET Blockers /\ IsFiniteSet(round.blocking)
               /\ Cardinality(round.blocking) \in Nat /\ Cardinality(round.blocking) <= B /\ B \in Nat
               /\ round.of # "pass" => round.blocking # {}
    <3>1. round \in Range(led) /\ round.e = "spec-gate-round"
      BY DEF Rounds, SeqsOf, Range
    <3>2. round.blocking \in SUBSET Blockers /\ (round.of # "pass" => round.blocking # {})
      BY <1>1, <3>1 DEF GateLedger, Lawful
    <3> QED
      BY <3>2, BlockersAreFinite, FS_Subset, FS_CardinalityType
  <2>7. Cardinality(L.blocking) \in 1..B
    <3>1. Cardinality(L.blocking) # 0
      BY <1>3, <1>7, <2>1, <2>6, FS_EmptySet
    <3> QED
      BY <2>1, <2>6, <3>1
  <2>8. dry >= 3 => \E round \in Back(2) : Falls(round, dry - 2) /\ Cardinality(L.blocking) < Cardinality(round.blocking)
    <3> SUFFICES ASSUME dry >= 3
                 PROVE  \E round \in Back(2) : Falls(round, dry - 2) /\ Cardinality(L.blocking) < Cardinality(round.blocking)
      OBVIOUS
    <3>1. PICK round \in Back(2) : Falls(round, dry - 2)
      BY <1>1, <1>3 DEF RoundsFall
    <3>2. ~(Cardinality(L.blocking) >= Cardinality(round.blocking))
      BY <1>3, <1>7, <2>3, <3>1 DEF GateStall, NoFall
    <3>3. Cardinality(round.blocking) \in Nat /\ Cardinality(L.blocking) \in Nat
      BY <2>1, <2>6, <3>1 DEF Back
    <3> QED
      BY <3>1, <3>2, <3>3
  <2> QED
    BY <2>1, <2>3, <2>4, <2>5, <2>6, <2>7, <2>8
<1>8. B \in Nat /\ dry \in Nat
  BY <1>1, BlockersAreFinite, FS_CardinalityType DEF RoundsFall
<1>9. ASSUME dry > 0
      PROVE  Falls(L, dry) /\ dry <= 2 * B
  <2>1. Cardinality(L.blocking) \in 1..B
    BY <1>7, <1>9
  <2>2. CASE dry <= 2
    BY <1>8, <1>9, <2>1, <2>2 DEF Falls
  <2>3. CASE dry >= 3
    <3>1. PICK round \in Back(2) : Falls(round, dry - 2) /\ Cardinality(L.blocking) < Cardinality(round.blocking)
      BY <1>7, <1>9, <2>3
    <3>2. Cardinality(round.blocking) \in Nat
      BY <1>7, <1>9, <3>1 DEF Back
    <3>3. 2 * Cardinality(round.blocking) + (dry - 2) <= 2 * B + 2
      BY <3>1 DEF Falls
    <3> QED
      BY <1>8, <2>1, <3>1, <3>2, <3>3 DEF Falls
  <2> QED
    BY <1>8, <2>2, <2>3
<1>10. RoundsFall'
  <2>1. dry' = dry + 1 /\ dry' \in Nat /\ stage' = "spec-gate"
    BY <1>2, <1>3, <1>8
  <2>2. ConvergesOrAsks'
    <3>1. dry + 1 <= 2 * B + 1
      BY <1>8, <1>9
    <3> QED
      BY <2>1, <3>1 DEF ConvergesOrAsks
  <2>3. Rounds' # {}
    BY <1>4
  <2>4. dry' >= 2 => \E round \in Back(1)' : Falls(round, dry' - 1)
    <3>1. dry' - 1 = dry /\ (dry' >= 2 => dry > 0)
      BY <2>1, <1>8
    <3> QED
      BY <3>1, <1>7, <1>9
  <2>5. dry' >= 3 => \E round \in Back(2)' : Falls(round, dry' - 2)
    <3>1. dry' - 2 = dry - 1 /\ (dry' >= 3 => dry > 0 /\ dry >= 2)
      BY <2>1, <1>8
    <3>2. dry >= 2 => \E round \in Back(1) : Falls(round, dry - 1)
      BY <1>1, <1>3 DEF RoundsFall
    <3> QED
      BY <3>1, <3>2, <1>7
  <2> QED
    BY <2>1, <2>2, <2>3, <2>4, <2>5 DEF RoundsFall, Falls
<1>11. ParksAreAnswered'
  <2>1. Heard /\ (Rulings # {} => IntentParks # {})
    BY <1>1, <1>2 DEF ParksAreAnswered, Heard
  <2>2. Heard' /\ (Rulings' # {} => IntentParks' # {}) /\ at'.pc = "enter"
    BY <1>2, <1>4, <2>1 DEF Pc
  <2> QED
    BY <1>4, <2>2 DEF ParksAreAnswered, Heard
<1>12. FrozenIsLast'
  BY <1>1, <1>2, <1>4 DEF FrozenIsLast
<1>13. Placed'
  BY <1>2, Aside DEF Pc, Busy, Specified
<1> QED
  BY <1>4, <1>10, <1>11, <1>12, <1>13 DEF GateInv, Placed

(* The operator's park and answer.                                           *)
LEMMA ParkHolds ==
  ASSUME GateInv, Park, UNCHANGED world
  PROVE  GateInv'
<1> DEFINE x == Event("park", at.type, at.why)
<1>1. GateLedger /\ RoundsFall /\ ParksAreAnswered /\ FrozenIsLast
  BY DEF GateInv
<1>2. at.pc = "ask" /\ Stamp(x) /\ at' = Pc("parked") /\ at'.pc = "parked" /\ UNCHANGED <<stage, suite, dry>>
  BY DEF Park, StampAndGo, world, Pc
<1>3. Lawful(x) /\ x.e = "park" /\ x.of = at.type
  BY DEF Lawful, Event
<1> HIDE DEF x
<1>4. /\ GateLedger' /\ Rounds' = Rounds
      /\ \A k \in Nat : Back(k)' = Back(k)
  BY <1>1, <1>2, <1>3, RoundsKept
<1>5. SeqsOf("freeze")' = {} <=> SeqsOf("freeze") = {}
  BY <1>1, <1>2, <1>3, FreezesKept
<1>6. /\ Len(led') \in DOMAIN led' /\ led'[Len(led')] = x
      /\ \A j \in DOMAIN led' : j \in Nat /\ j > 0 /\ j <= Len(led')
  <2>1. \E sh : Shifted(led, led', x, sh)
    BY <1>1, <1>2, StampShifts DEF GateLedger
  <2> QED
    BY <2>1, ShiftIs
<1>7. RoundsFall'
  <2>1. Back(1)' = Back(1) /\ Back(2)' = Back(2)
    BY <1>4
  <2>2. ConvergesOrAsks'
    BY <1>1, <1>2 DEF ConvergesOrAsks, RoundsFall
  <2> QED
    BY <1>1, <1>2, <1>4, <2>1, <2>2 DEF RoundsFall, Falls
<1>8. ParksAreAnswered'
  <2>1. Len(led') \in SeqsOf("park")' /\ \A i \in SeqsOf("park")' : i <= Len(led')
    BY <1>3, <1>6 DEF SeqsOf
  <2>2. CASE at.type = "intent-conflict"
    <3>1. LastPark' = Len(led')
      <4>1. SeqsOf("park")' \subseteq 1..Len(led') /\ Len(led') \in Nat
        BY <1>4, <1>6 DEF SeqsOf
      <4>2. Newest(SeqsOf("park")') \in SeqsOf("park")' /\ Len(led') <= Newest(SeqsOf("park")')
        BY <2>1, <4>1, NewestIs
      <4>3. \A m \in SeqsOf("park")' : Len(led') <= m => m = Len(led')
        BY <4>1
      <4> QED
        BY <4>2, <4>3 DEF LastPark
    <3>2. IntentParks' # {}
      BY <1>3, <1>6, <2>2 DEF IntentParks, Seqs
    <3> QED
      BY <1>2, <1>3, <1>6, <2>1, <2>2, <3>1, <3>2 DEF ParksAreAnswered
  <2>3. CASE at.type # "intent-conflict"
    <3>1. /\ Heard' <=> Heard
          /\ Rulings' # {} <=> Rulings # {}
          /\ IntentParks' # {} <=> IntentParks # {}
      BY <1>1, <1>2, <1>3, <2>3, HeardKept
    <3>2. Heard /\ (Rulings # {} => IntentParks # {})
      BY <1>1, <1>2 DEF ParksAreAnswered, Heard
    <3> QED
      BY <1>2, <2>1, <3>1, <3>2 DEF ParksAreAnswered, Heard
  <2> QED
    BY <2>2, <2>3
<1>9. FrozenIsLast'
  BY <1>1, <1>2, <1>5 DEF FrozenIsLast
<1>10. Placed'
  BY <1>2, Aside DEF Busy, Specified
<1> QED
  BY <1>4, <1>7, <1>8, <1>9, <1>10 DEF GateInv, Placed

LEMMA AnswerHolds ==
  ASSUME GateInv, Answer, dry' = 0, UNCHANGED <<stage, spec, suite>>
  PROVE  GateInv'
<1>1. GateLedger /\ RoundsFall /\ ParksAreAnswered /\ FrozenIsLast
  BY DEF GateInv
<1>2. PICK option : at.pc = "parked" /\ Stamp(Event("answer", led[LastPark].of, option)) /\ at' = Pc("enter") /\ at'.pc = "enter"
  BY DEF Answer, Pc
<1> DEFINE x == Event("answer", led[LastPark].of, option)
<1>3. Stamp(x) /\ Lawful(x) /\ x.e = "answer" /\ x.of = led[LastPark].of
  BY <1>2 DEF Lawful, Event
<1> HIDE DEF x
<1>4. /\ GateLedger' /\ Rounds' = Rounds
      /\ \A k \in Nat : Back(k)' = Back(k)
  BY <1>1, <1>3, RoundsKept
<1>5. SeqsOf("freeze")' = {} <=> SeqsOf("freeze") = {}
  BY <1>1, <1>3, FreezesKept
<1>6. RoundsFall'
  <2>1. ConvergesOrAsks'
    <3>1. Cardinality(Blockers) \in Nat
      BY BlockersAreFinite, FS_CardinalityType
    <3>2. 0 <= 2 * Cardinality(Blockers) + 1
      BY <3>1
    <3> QED
      BY <3>2 DEF ConvergesOrAsks
  <2> QED
    BY <2>1 DEF RoundsFall
<1>7. Heard' /\ (Rulings' # {} => IntentParks' # {})
  <2>1. CASE x.of = "intent-conflict"
    <3>1. LastPark \in SeqsOf("park")
      <4>1. SeqsOf("park") \subseteq 1..Len(led) /\ Len(led) \in Nat /\ SeqsOf("park") # {}
        BY <1>1, <1>2 DEF SeqsOf, GateLedger, ParksAreAnswered
      <4> QED
        BY <4>1, NewestIs DEF LastPark
    <3>2. LastPark \in IntentParks
      BY <1>3, <2>1, <3>1 DEF IntentParks, Seqs, SeqsOf
    <3>3. PICK sh : Shifted(led, led', x, sh)
      BY <1>1, <1>3, StampShifts DEF GateLedger
    <3>4. IntentParks' = Dest(sh, IntentParks)
      BY <1>3, <3>3, KindMoves DEF IntentParks
    <3>5. /\ Len(led') \in DOMAIN led' /\ led'[Len(led')] = x
          /\ \A j \in DOMAIN led' : j \in Nat /\ j > 0 /\ j <= Len(led')
      BY <3>3, ShiftIs
    <3>6. Len(led') \in Rulings'
      BY <1>3, <2>1, <3>5 DEF Rulings, Seqs
    <3>7. \A p \in IntentParks' : Len(led') > p
      <4>1. ASSUME NEW p \in IntentParks' PROVE Len(led') > p
        <5>1. p \in DOMAIN led' /\ led'[p].e = "park"
          BY DEF IntentParks, Seqs
        <5>2. p # Len(led')
          BY <1>3, <3>5, <5>1
        <5> QED
          BY <3>5, <5>1, <5>2
      <4> QED
        BY <4>1
    <3> QED
      BY <3>2, <3>4, <3>6, <3>7 DEF Heard, Dest
  <2>2. CASE x.of # "intent-conflict"
    <3>1. /\ Heard' <=> Heard
          /\ Rulings' # {} <=> Rulings # {}
          /\ IntentParks' # {} <=> IntentParks # {}
      BY <1>1, <1>3, <2>2, HeardKept
    <3>2. Heard /\ (Rulings # {} => IntentParks # {})
      BY <1>1, <1>3, <2>2 DEF ParksAreAnswered, Heard
    <3> QED
      BY <3>1, <3>2
  <2> QED
    BY <2>1, <2>2
<1>8. ParksAreAnswered'
  BY <1>2, <1>7 DEF ParksAreAnswered, Heard
<1>9. FrozenIsLast'
  BY <1>1, <1>2, <1>5 DEF FrozenIsLast
<1>10. Placed'
  BY <1>2, Aside DEF Busy, Specified
<1> QED
  BY <1>4, <1>6, <1>8, <1>9, <1>10 DEF GateInv, Placed

(* What is left behind with a stage: no round and no park of the gate's, and *)
(* of the questions about the intent all with their answers, or none.        *)
LEMMA LeaveHolds ==
  ASSUME GateInv, NEW s, Leave(s), UNCHANGED <<suite, dry>>, at.pc = "enter",
         s \in {"readiness", "inherit", "spec-birth", "spec-gate"} => dry = 0
  PROVE  GateInv'
<1> DEFINE S == {i \in DOMAIN led : StillOwed(led[i])}
<1>1. GateLedger /\ RoundsFall /\ ParksAreAnswered /\ FrozenIsLast
  BY DEF GateInv
<1>2. stage' = s /\ at' = Pc("enter") /\ at'.pc = "enter" /\ led' = Only(led, S)
  BY DEF Leave, Pc, Kept
<1>3. /\ \E sh : Selected(led, led', S, sh)
      /\ Range(led') \subseteq Range(led)
  <2>1. led \in Seq(Range(led)) /\ S \in SUBSET DOMAIN led
    BY <1>1 DEF GateLedger
  <2> HIDE DEF S
  <2> QED
    BY <1>2, <2>1, OnlySelects
<1>4. PICK sh : Selected(led, led', S, sh)
  BY <1>3
<1>5. /\ led' \in Seq(Range(led')) /\ DOMAIN sh = S
      /\ \A k \in S : k \in DOMAIN led /\ sh[k] \in DOMAIN led' /\ led'[sh[k]] = led[k]
      /\ \A j \in DOMAIN led' : \E k \in S : sh[k] = j
      /\ \A a, b \in S : a < b <=> sh[a] < sh[b]
  BY <1>4 DEF Selected
<1> HIDE DEF S
<1>6. GateLedger'
  <2>1. \A y \in Range(led') : Lawful(y)
    BY <1>1, <1>3 DEF GateLedger
  <2>2. ASSUME NEW i \in GateRounds', NEW j \in GateRounds', led'[i].nth = led'[j].nth
        PROVE  i = j
    <3>1. PICK a \in S, b \in S : i = sh[a] /\ j = sh[b]
      BY <1>5 DEF GateRounds, SeqsOf
    <3>2. a \in GateRounds /\ b \in GateRounds /\ led[a].nth = led[b].nth
      BY <1>5, <2>2, <3>1 DEF GateRounds, SeqsOf
    <3> QED
      BY <1>1, <3>1, <3>2 DEF GateLedger
  <2>3. (\A i, j \in GateRounds : led[i].nth = led[j].nth => i = j)'
    BY <2>2
  <2> QED
    BY <1>5, <2>1, <2>3 DEF GateLedger, Lawful
<1>7. RoundsFall'
  <2>1. ConvergesOrAsks' /\ dry' = dry /\ dry \in Nat
    BY <1>1 DEF RoundsFall, ConvergesOrAsks
  <2> QED
    BY <1>2, <2>1 DEF RoundsFall
<1>8. ASSUME NEW k \in S
      PROVE  /\ led[k].e = "park" => led[k].of = "intent-conflict" /\ RuledPin
             /\ led[k].e = "answer" => led[k].of = "intent-conflict" /\ RuledPin
  BY DEF S, StillOwed
<1>9. ASSUME NEW k \in IntentParks \cup Rulings, RuledPin
      PROVE  k \in S
  BY <1>9 DEF S, StillOwed, IntentParks, Rulings, Seqs
<1>10. ~StallAsked'
  <2>1. SUFFICES ASSUME NEW i \in Stalls' PROVE FALSE
    BY <1>5, StallAskedIsNext
  <2>2. i \in DOMAIN led' /\ led'[i].e = "park" /\ led'[i].of = "spec-gate-stalled"
    BY DEF Stalls, Seqs
  <2> QED
    BY <1>5, <1>8, <2>2
<1>11. /\ \A p \in IntentParks' : \E k \in IntentParks : p = sh[k] /\ k \in S /\ RuledPin
       /\ \A a \in Rulings' : \E k \in Rulings : a = sh[k] /\ k \in S /\ RuledPin
  BY <1>5, <1>8 DEF IntentParks, Rulings, Seqs
<1>12. ASSUME NEW k \in IntentParks \cup Rulings, k \in S
       PROVE  /\ k \in IntentParks => sh[k] \in IntentParks'
              /\ k \in Rulings => sh[k] \in Rulings'
  BY <1>5, <1>12 DEF IntentParks, Rulings, Seqs
<1>13. Heard /\ (Rulings # {} => IntentParks # {})
  BY <1>1 DEF ParksAreAnswered, Heard
<1>14. Heard'
  <2> SUFFICES ASSUME NEW p \in IntentParks' PROVE \E a \in Rulings' : a > p
    BY DEF Heard
  <2>1. PICK k \in IntentParks : p = sh[k] /\ k \in S /\ RuledPin
    BY <1>11
  <2>2. PICK a \in Rulings : a > k
    BY <1>13 DEF Heard
  <2>3. a \in S /\ sh[a] \in Rulings'
    BY <1>9, <1>12, <2>1
  <2>4. k < a
    BY <1>1, <2>2 DEF IntentParks, Rulings, Seqs, GateLedger
  <2>5. sh[k] < sh[a]
    BY <1>5, <2>1, <2>3, <2>4
  <2>6. sh[a] > p
    BY <1>5, <2>1, <2>3, <2>5
  <2> QED
    BY <2>3, <2>6
<1>15. Rulings' # {} => IntentParks' # {}
  <2> SUFFICES ASSUME NEW a \in Rulings' PROVE IntentParks' # {}
    OBVIOUS
  <2>1. RuledPin /\ Rulings # {}
    BY <1>11
  <2>2. PICK p \in IntentParks : TRUE
    BY <1>13, <2>1
  <2>3. sh[p] \in IntentParks'
    BY <1>9, <1>12, <2>1, <2>2
  <2> QED
    BY <2>3
<1>16. ParksAreAnswered'
  BY <1>2, <1>10, <1>14, <1>15 DEF ParksAreAnswered, Heard
<1>17. FrozenIsLast'
  <2>1. SeqsOf("freeze") = {}
    BY <1>1 DEF FrozenIsLast
  <2>2. SeqsOf("freeze")' = {}
    BY <1>5, <2>1 DEF SeqsOf
  <2> QED
    BY <2>2 DEF FrozenIsLast
<1>18. Placed'
  BY <1>2, Aside DEF Busy, Specified
<1> QED
  BY <1>6, <1>7, <1>16, <1>17, <1>18 DEF GateInv, Placed

(* With no ruling owed, the document holds every ruling.                     *)
LEMMA RulingsAreHeard ==
  ASSUME led \in Seq(Range(led)), Heard, Rulings # {} => IntentParks # {}, ~RulingOwed
  PROVE  ~RulingUnheard
<1> SUFFICES ASSUME NEW i \in Rulings PROVE SeatReportAfter("spec-birth", i)
  BY DEF RulingUnheard, Rulings
<1> DEFINE p == Newest(IntentParks)
           T == {j \in Rulings : j > p}
           R == Seqs("seat-report", "spec-birth")
<1>1. IntentParks \subseteq 1..Len(led) /\ Rulings \subseteq 1..Len(led) /\ R \subseteq 1..Len(led) /\ Len(led) \in Nat
  BY DEF IntentParks, Rulings, Seqs
<1>2. p \in IntentParks /\ p > 0 /\ led[p].of = "intent-conflict"
  <2>1. p \in IntentParks
    BY <1>1, NewestIs
  <2> HIDE DEF p
  <2> QED
    BY <1>1, <2>1 DEF IntentParks, Seqs
<1>3. T # {}
  BY <1>2 DEF Heard
<1>4. AnswerTo(p) = Newest(T)
  BY <1>2 DEF AnswerTo, Rulings
<1> HIDE DEF p
<1>5. Newest(T) \in T /\ \A j \in T : j <= Newest(T)
  BY <1>1, <1>3, NewestIs
<1>6. PICK m : m = Newest(T) /\ m \in Rulings /\ m > p /\ m \in Nat /\ \A j \in Rulings : j > p => j <= m
  <2>1. PICK m : m = Newest(T)
    OBVIOUS
  <2>2. m \in T /\ \A j \in T : j <= m
    BY <1>5, <2>1
  <2>3. m \in Rulings /\ m > p /\ m \in Nat
    BY <1>1, <2>2
  <2> QED
    BY <2>1, <2>2, <2>3
<1>7. AnsweredPark("intent-conflict") = m /\ m > 0
  <2>1. p = Newest(Seqs("park", "intent-conflict"))
    BY DEF p, IntentParks
  <2>2. m > 0
    BY <1>1, <1>6
  <2>3. Answered(p)
    BY <1>2, <1>4, <1>6, <2>2 DEF Answered
  <2> QED
    BY <1>4, <1>6, <2>1, <2>2, <2>3 DEF AnsweredPark
<1>8. \E j \in R : j > m
  BY <1>7 DEF RulingOwed, SeatReportAfter, After
<1> HIDE DEF R
<1>9. i <= m
  BY <1>1, <1>2, <1>6
<1>10. \E j \in R : j > i
  BY <1>1, <1>6, <1>8, <1>9
<1> QED
  BY <1>10 DEF SeatReportAfter, After, R

---------------------------------------------------------------------------
(* The other steps, which stamp mildly or not at all.                        *)

LEMMA StepHolds ==
  ASSUME GateInv, MildStep, UNCHANGED <<stage, dry>>, at.pc \notin {"parked", "left"}, at'.pc # "parked", Placed'
  PROVE  GateInv'
BY MildStepHolds DEF Disturbed, Placed, GateInv

LEMMA StepAsideHolds ==
  ASSUME GateInv, MildStep, UNCHANGED <<stage, dry>>, at.pc \notin {"parked", "left"},
         at'.pc \notin Busy, at'.pc # "parked"
  PROVE  GateInv'
BY StepHolds, Aside

LEMMA StepToASeatHolds ==
  ASSUME GateInv, MildStep, UNCHANGED <<stage, dry>>, at.pc \notin {"parked", "left"},
         NEW seat \in {"spec-birth", "suite"}, at' = Seat(seat), seat = "suite" => stage \in {"suite", "freeze"}
  PROVE  GateInv'
<1>1. at' = [pc |-> "dispatch", seat |-> seat, try |-> 1, limit |-> AttemptLimit(seat), task |-> ""]
  BY DispatchedIs
<1>2. Placed' /\ at'.pc \notin {"parked", "left"}
  <2> DEFINE limit == AttemptLimit(seat)
  <2>1. at' = [pc |-> "dispatch", seat |-> seat, try |-> 1, limit |-> limit, task |-> ""]
    BY <1>1
  <2>2. seat = "suite" => stage' \in {"suite", "freeze"}
    OBVIOUS
  <2> HIDE DEF limit
  <2> QED
    BY <2>1, <2>2, Seated
<1> QED
  BY <1>2, StepHolds

LEMMA MildIs ==
  /\ UNCHANGED led => MildStep
  /\ \A e, of, why : e \notin {"spec-gate-round", "park", "answer", "freeze"} /\ Stamp(Event(e, of, why)) => MildStep
BY EventIsMild DEF MildStep

(* A seat refused goes out once more, or to the operator.                    *)
LEMMA RefuseHolds ==
  ASSUME GateInv, Refuse, UNCHANGED world,
         at.pc \in Specified \/ at.pc = "suite-checks"
  PROVE  GateInv'
<1>1. /\ at = [pc |-> at.pc, seat |-> at.seat, try |-> at.try, limit |-> at.limit, task |-> at.task]
      /\ at.seat \in {"spec-birth", "suite"} /\ (at.seat = "suite" => stage \in {"suite", "freeze"})
      /\ at.pc \notin {"parked", "left"}
  BY DEF GateInv, SeatsAreKnown, Specified
<1>2. UNCHANGED <<stage, dry>>
  BY DEF world
<1>3. CASE at.try >= at.limit
  <2>1. Stamp(Event("seat-failure", at.seat, "defects")) /\ at' = SeatFail(at.seat)
    BY <1>3 DEF Refuse, StampAndGo
  <2>2. MildStep /\ at'.pc \in {"ask", "closed"}
    BY <2>1, MildIs, PlacesAre
  <2>3. at'.pc \notin Busy /\ at'.pc # "parked"
    BY <2>2 DEF Busy, Specified
  <2> QED
    BY <1>1, <1>2, <2>2, <2>3, StepAsideHolds
<1>4. CASE ~(at.try >= at.limit)
  <2>1. UNCHANGED led /\ at' = [at EXCEPT !.pc = "dispatch", !.try = at.try + 1]
    BY <1>4 DEF Refuse, Go
  <2> DEFINE seat == at.seat
             try == at.try + 1
             limit == at.limit
             task == at.task
  <2>2. at' = [pc |-> "dispatch", seat |-> seat, try |-> try, limit |-> limit, task |-> task]
    <3>1. PICK place : place = at
      OBVIOUS
    <3>2. /\ place = [pc |-> place.pc, seat |-> place.seat, try |-> place.try, limit |-> place.limit, task |-> place.task]
          /\ at' = [place EXCEPT !.pc = "dispatch", !.try = place.try + 1]
      BY <1>1, <2>1, <3>1
    <3>3. at' = [pc |-> "dispatch", seat |-> place.seat, try |-> place.try + 1, limit |-> place.limit, task |-> place.task]
      BY <3>2
    <3> QED
      BY <3>1, <3>3
  <2>3. seat \in {"spec-birth", "suite"} /\ (seat = "suite" => stage' \in {"suite", "freeze"})
    BY <1>1, <1>2
  <2>4. Placed' /\ at'.pc \notin {"parked", "left"}
    <3> HIDE DEF seat, try, limit, task
    <3> QED
      BY <2>2, <2>3, Seated
  <2> QED
    BY <1>1, <1>2, <2>1, <2>4, MildIs, StepHolds
<1> QED
  BY <1>3, <1>4

(* A gate that was due stays so while the seat reads.                        *)
GateIsDue == stage = "spec-gate" /\ (dry > 0 => led[LastRound].of # "pass" /\ ~GateStall)

LEMMA GateStaysDue ==
  ASSUME GateInv, MildStep, UNCHANGED <<stage, dry>>, GateIsDue
  PROVE  GateIsDue'
<1>1. GateLedger /\ RoundsFall
  BY DEF GateInv
<1>2. GateStall' = GateStall /\ (Rounds # {} => led'[LastRound'] = led[LastRound])
  BY <1>1, LedgerStays
<1>3. dry > 0 => Rounds # {}
  BY <1>1 DEF RoundsFall, GateIsDue
<1> QED
  BY <1>2, <1>3 DEF GateIsDue

LEMMA DispatchHolds ==
  ASSUME GateInv, Dispatch, UNCHANGED world
  PROVE  GateInv'
<1>1. /\ at.pc = "dispatch" /\ at' = [at EXCEPT !.pc = "out"]
      /\ UNCHANGED led \/ Stamp(Event("seat-spawned", at.seat, ""))
      /\ UNCHANGED <<stage, dry>>
  BY DEF Dispatch, StampAndGo, Go, world
<1>2. MildStep
  BY <1>1, MildIs
<1>3. at = [pc |-> at.pc, seat |-> at.seat, try |-> at.try, limit |-> at.limit, task |-> at.task]
  BY <1>1 DEF GateInv, SeatsAreKnown
<1>4. at'.pc = "out" /\ at'.seat = at.seat /\ at'.try = at.try /\ at'.limit = at.limit /\ at'.task = at.task
      /\ at' = [pc |-> at'.pc, seat |-> at'.seat, try |-> at'.try, limit |-> at'.limit, task |-> at'.task]
  BY <1>1, <1>3
<1>5. SeatsAreKnown'
  <2>1. SeatOut("suite")' => stage' \in {"suite", "freeze"}
    BY <1>1, <1>4 DEF GateInv, SeatsAreKnown, SeatOut
  <2> QED
    BY <1>4, <2>1 DEF SeatsAreKnown, Specified
<1>6. ASSUME at.seat = "spec-gate"
      PROVE  GateIsDue' /\ ~RulingUnheard'
  <2>1. GateIsDue /\ ~RulingUnheard
    BY <1>1, <1>6 DEF GateInv, GatesAreDue, SeatOut, GateIsDue
  <2>2. GateIsDue'
    BY <1>1, <1>2, <2>1, GateStaysDue
  <2>3. RulingUnheard' <=> RulingUnheard
    <3>1. CASE UNCHANGED led
      BY <3>1 DEF RulingUnheard, SeatReportAfter, Seqs, After
    <3>2. CASE Stamp(Event("seat-spawned", at.seat, ""))
      <4> DEFINE x == Event("seat-spawned", at.seat, "")
      <4>1. Stamp(x) /\ x.e \notin {"answer", "seat-report"}
        BY <3>2 DEF Event
      <4> HIDE DEF x
      <4> QED
        BY <4>1, UnheardKept DEF GateInv
    <3> QED
      BY <1>1, <3>1, <3>2
  <2> QED
    BY <2>1, <2>2, <2>3
<1>7. GatesAreDue'
  BY <1>4, <1>6 DEF GatesAreDue, SeatOut, GateIsDue
<1> QED
  BY <1>1, <1>2, <1>4, <1>5, <1>7, StepHolds DEF Placed

LEMMA GateReportsHolds ==
  ASSUME GateInv, GateReports
  PROVE  GateInv'
<1>1. /\ at.pc = "out" /\ at.seat = "spec-gate" /\ Stamp(Event("seat-report", "spec-gate", ""))
      /\ UNCHANGED <<stage, dry>>
  BY DEF GateReports, world
<1>2. MildStep
  BY <1>1, MildIs
<1>3. GateIsDue'
  <2>1. GateIsDue
    BY <1>1 DEF GateInv, GatesAreDue, SeatOut, GateIsDue
  <2> QED
    BY <1>1, <1>2, <2>1, GateStaysDue
<1>4. CASE \E blocking \in SUBSET Blockers : at' = [pc |-> "judged", blocking |-> blocking]
  <2>1. at'.pc = "judged" /\ at'.blocking \in SUBSET Blockers
    BY <1>4
  <2>2. Placed'
    BY <1>3, <2>1 DEF Placed, GatesAreDue, SeatsAreKnown, SeatOut, Specified, GateIsDue
  <2> QED
    BY <1>1, <1>2, <2>1, <2>2, StepHolds
<1>5. CASE \E claim \in {"card", "owner"} : at' = [pc |-> "conflict", claim |-> claim]
  <2>1. at'.pc = "conflict"
    BY <1>5
  <2>2. at'.pc \notin Busy /\ at'.pc # "parked"
    BY <2>1 DEF Busy, Specified
  <2> QED
    BY <1>1, <1>2, <2>2, StepAsideHolds
<1> QED
  BY <1>4, <1>5 DEF GateReports

Idle == {"ask", "closed", "enter", "same-base", "advance", "recorded", "card-amended", "written", "conflict"}

LEMMA StepToIdleHolds ==
  ASSUME GateInv, MildStep, UNCHANGED <<stage, dry>>, at.pc \notin {"parked", "left"}, at'.pc \in Idle
  PROVE  GateInv'
<1>1. at'.pc \notin Busy /\ at'.pc # "parked"
  BY DEF Idle, Busy, Specified
<1> QED
  BY <1>1, StepAsideHolds

LEMMA IdleAre ==
  /\ \A pc : Pc(pc).pc = pc
  /\ \A type, why : Ask(type, why).pc \in Idle /\ Recover(type, why).pc \in Idle
  /\ \A seat : SeatFail(seat).pc \in Idle
  /\ \A reason : Blocked(reason).pc \in Idle /\ CommandError(reason).pc \in Idle
  /\ {"closed", "enter", "same-base", "advance", "recorded", "card-amended"} \subseteq Idle
BY PlacesAre DEF Idle

LEMMA LedgerStepHolds ==
  ASSUME GateInv, Ledger, UNCHANGED world
  PROVE  GateInv'
<1>1. UNCHANGED <<stage, dry>>
  BY DEF world
<1>2. CASE Park
  BY <1>2, ParkHolds
<1>3. CASE Dispatch
  BY <1>3, DispatchHolds
<1>4. CASE AbandonGuard
  <2>1. at.pc = "enter" /\ at'.pc = "closed" /\ UNCHANGED led
    BY <1>4, IdleAre DEF AbandonGuard, Go
  <2> QED
    BY <1>1, <2>1, MildIs, IdleAre, StepToIdleHolds
<1>5. CASE RefreshForRetry
  <2>1. at.pc = "enter" /\ at' = at /\ Stamp(Event("tree-refreshed", "", ""))
    BY <1>5 DEF RefreshForRetry, StampAndGo
  <2> QED
    BY <1>1, <2>1, MildIs, IdleAre, StepToIdleHolds
<1>6. CASE NoReport
  <2>1. at.pc = "out" /\ at' = SeatFail(at.seat) /\ Stamp(Event("seat-failure", at.seat, "no-report"))
    BY <1>6 DEF NoReport, StampAndGo
  <2> QED
    BY <1>1, <2>1, MildIs, IdleAre, StepToIdleHolds
<1>7. CASE Crash
  <2>1. at.pc \notin {"parked", "left"} /\ at'.pc = "enter" /\ UNCHANGED led
    BY <1>7, IdleAre DEF Crash
  <2> QED
    BY <1>1, <2>1, MildIs, IdleAre, StepToIdleHolds
<1> QED
  BY <1>2, <1>3, <1>4, <1>5, <1>6, <1>7 DEF Ledger

LEMMA ReadinessHolds ==
  ASSUME GateInv, Readiness
  PROVE  GateInv'
<1>1. at.pc = "enter" /\ stage = "readiness" /\ UNCHANGED <<suite, dry>> /\ dry = 0
  BY DEF Readiness, Enters, GateInv, RoundsFall
<1>2. CASE Leave("spec-birth")
  BY <1>1, <1>2, LeaveHolds
<1>3. CASE \E place : place.pc \in Idle /\ To(place)
  <2>1. UNCHANGED led /\ UNCHANGED stage /\ at'.pc \in Idle
    BY <1>3 DEF To
  <2> QED
    BY <1>1, <2>1, MildIs, StepToIdleHolds
<1> QED
  <2>1. \/ \E reason \in {"card-invalid", "readiness-lint"} : To(Blocked(reason))
        \/ To(CommandError("lint-command-error"))
        \/ To(Ask("open-decisions", ""))
        \/ To(Ask("provisioning-gate", ""))
        \/ Leave("spec-birth")
    BY DEF Readiness
  <2> QED
    BY <2>1, <1>2, <1>3, IdleAre

LEMMA InheritHolds ==
  ASSUME GateInv, Inherit
  PROVE  GateInv'
<1>1. at.pc = "enter" /\ stage = "inherit" /\ UNCHANGED <<suite, dry>>
  BY DEF Inherit, Enters
<1>2. CASE at' = Pc("left") /\ stage' = "implementation" /\ UNCHANGED led
  <2>1. GateLedger' /\ (Heard' <=> Heard) /\ (Rulings' # {} => IntentParks' # {}) /\ SeqsOf("freeze")' = {} /\ (StallAsked' <=> StallAsked)
    <3>1. GateLedger /\ SeqsOf("freeze") = {} /\ (Rulings # {} => IntentParks # {})
      BY <1>1 DEF GateInv, FrozenIsLast, ParksAreAnswered
    <3>2. MildStep
      BY <1>2, MildIs
    <3> QED
      BY <3>1, <3>2, LedgerStays
  <2>2. RoundsFall'
    <3>1. ConvergesOrAsks' /\ dry' = dry /\ dry \in Nat
      BY <1>1 DEF GateInv, RoundsFall, ConvergesOrAsks
    <3> QED
      BY <1>2, <3>1 DEF RoundsFall
  <2>3. at'.pc = "left"
    BY <1>2, IdleAre
  <2>4. ParksAreAnswered'
    <3>1. Heard /\ ~(StallAsked /\ dry > 0)
      BY <1>1 DEF GateInv, ParksAreAnswered, Heard
    <3>2. Heard' /\ ~(StallAsked' /\ dry' > 0)
      BY <1>1, <2>1, <3>1
    <3> QED
      BY <2>1, <2>3, <3>2 DEF ParksAreAnswered, Heard
  <2>5. FrozenIsLast'
    BY <2>1 DEF FrozenIsLast
  <2>6. Placed'
    BY <2>3, Aside DEF Busy, Specified
  <2> QED
    BY <2>1, <2>2, <2>4, <2>5, <2>6 DEF GateInv, Placed
<1>3. CASE \E place : place.pc \in Idle /\ To(place)
  <2>1. UNCHANGED led /\ UNCHANGED stage /\ at'.pc \in Idle
    BY <1>3 DEF To
  <2> QED
    BY <1>1, <2>1, MildIs, StepToIdleHolds
<1> QED
  <2>1. \/ at' = Pc("left") /\ stage' = "implementation" /\ UNCHANGED led
        \/ \E reason \in {"inherit-invalid", "inherit-suite-diverged", "inherit-base-conflict"} : To(Blocked(reason))
        \/ To(Ask("provisioning-gate", ""))
        \/ \E base \in {"same-base", "advance"} : To(Pc(base))
    BY DEF Inherit
  <2> QED
    BY <2>1, <1>2, <1>3, IdleAre

LEMMA TakeOverHolds ==
  ASSUME GateInv, AdvanceBase \/ InheritFreeze \/ Inherited
  PROVE  GateInv'
<1>1. CASE AdvanceBase
  <2>1. at.pc = "advance" /\ UNCHANGED led /\ UNCHANGED <<stage, dry>> /\ at'.pc \in Idle
    BY <1>1, IdleAre DEF AdvanceBase
  <2> QED
    BY <2>1, MildIs, StepToIdleHolds
<1>2. CASE InheritFreeze
  <2>1. at.pc = "same-base" /\ UNCHANGED led /\ UNCHANGED <<stage, dry>> /\ at'.pc \in Idle
    BY <1>2, IdleAre DEF InheritFreeze, Go, world
  <2> QED
    BY <2>1, MildIs, StepToIdleHolds
<1>3. CASE Inherited
  <2>1. at.pc = "recorded" /\ Stamp(Event("freeze-inherited", "", "")) /\ UNCHANGED <<stage, dry>> /\ at'.pc \in Idle
    BY <1>3, IdleAre DEF Inherited, StampAndGo, world
  <2> QED
    BY <2>1, MildIs, StepToIdleHolds
<1> QED
  BY <1>1, <1>2, <1>3

LEMMA SpecBirthHolds ==
  ASSUME GateInv, SpecBirth \/ TakeTheCard
  PROVE  GateInv'
<1>1. CASE SpecBirth
  <2>1. at.pc = "enter" /\ stage = "spec-birth" /\ UNCHANGED <<suite, dry>> /\ dry = 0
    BY <1>1 DEF SpecBirth, Enters, GateInv, RoundsFall
  <2>2. CASE Leave("spec-gate")
    BY <2>1, <2>2, LeaveHolds
  <2>3. CASE \E place : place.pc \in Idle /\ To(place)
    <3>1. UNCHANGED led /\ UNCHANGED stage /\ at'.pc \in Idle
      BY <2>3 DEF To
    <3> QED
      BY <2>1, <3>1, MildIs, StepToIdleHolds
  <2>4. CASE Stamp(Event("card-amended", "", "")) /\ at' = Pc("card-amended") /\ UNCHANGED stage
    BY <2>1, <2>4, MildIs, IdleAre, StepToIdleHolds
  <2>5. CASE To(Seat("spec-birth"))
    <3>1. UNCHANGED led /\ UNCHANGED stage /\ at' = Seat("spec-birth")
      BY <2>5 DEF To
    <3> QED
      BY <2>1, <3>1, MildIs, StepToASeatHolds
  <2>6. \/ Leave("spec-gate")
        \/ To(Pc("closed"))
        \/ To(Blocked("card-push-lost"))
        \/ Stamp(Event("card-amended", "", "")) /\ at' = Pc("card-amended") /\ UNCHANGED stage
        \/ To(Seat("spec-birth"))
    <3>1. CASE SeqsOf("spec-born") # {}
      BY <1>1, <3>1 DEF SpecBirth
    <3>2. CASE SeqsOf("spec-born") = {}
      <4>1. CASE DependencyOption = "refuse"
        BY <1>1, <3>2, <4>1 DEF SpecBirth
      <4>2. CASE DependencyOption # "refuse" /\ DependencyOption = "approve" /\ ~CardWritten
        BY <1>1, <3>2, <4>2 DEF SpecBirth
      <4>3. CASE DependencyOption # "refuse" /\ ~(DependencyOption = "approve" /\ ~CardWritten)
        BY <1>1, <3>2, <4>3 DEF SpecBirth
      <4> QED
        BY <4>1, <4>2, <4>3
    <3> QED
      BY <3>1, <3>2
  <2>7. \/ Leave("spec-gate")
        \/ \E place : place.pc \in Idle /\ To(place)
        \/ Stamp(Event("card-amended", "", "")) /\ at' = Pc("card-amended") /\ UNCHANGED stage
        \/ To(Seat("spec-birth"))
    BY <2>6, IdleAre
  <2> QED
    BY <2>7, <2>2, <2>3, <2>4, <2>5
<1>2. CASE TakeTheCard
  <2>1. at.pc = "card-amended" /\ Stamp(Event("tree-refreshed", "", "")) /\ at' = Seat("spec-birth") /\ UNCHANGED <<stage, dry>>
    BY <1>2 DEF TakeTheCard, StampAndGo, world
  <2> QED
    BY <2>1, MildIs, StepToASeatHolds
<1> QED
  BY <1>1, <1>2

LEMMA SpecSeatHolds ==
  ASSUME GateInv, SpecBirthReports \/ SpecLintDefects \/ SpecBorn
  PROVE  GateInv'
<1>1. CASE SpecBirthReports
  <2>1. PICK outcome \in Specified :
             at.pc = "out" /\ at.seat = "spec-birth" /\ Stamp(Event("seat-report", "spec-birth", "")) /\ at' = [at EXCEPT !.pc = outcome]
    BY <1>1 DEF SpecBirthReports, Specified
  <2>2. UNCHANGED <<stage, dry>>
    BY <1>1 DEF SpecBirthReports
  <2>3. at = [pc |-> at.pc, seat |-> at.seat, try |-> at.try, limit |-> at.limit, task |-> at.task]
    BY <2>1 DEF GateInv, SeatsAreKnown
  <2>4. /\ at' = [pc |-> at'.pc, seat |-> at'.seat, try |-> at'.try, limit |-> at'.limit, task |-> at'.task]
        /\ at'.pc = outcome /\ at'.seat = "spec-birth"
    BY <2>1, <2>3
  <2>5. Placed' /\ at'.pc # "parked"
    BY <2>4 DEF Placed, GatesAreDue, SeatsAreKnown, SeatOut, Specified
  <2> QED
    BY <2>1, <2>2, <2>5, MildIs, StepHolds
<1>2. CASE SpecLintDefects
  <2>1. at.pc \in {"spec-born", "amended"} /\ at.pc \in Specified /\ UNCHANGED world /\ UNCHANGED <<stage, dry>>
    BY <1>2 DEF SpecLintDefects, Specified, world
  <2>2. CASE Refuse
    BY <2>1, <2>2, RefuseHolds
  <2>3. CASE \/ Go([pc |-> "written", by |-> at.pc])
             \/ AuthorizeSupersede("spec-birth", [pc |-> "written", by |-> at.pc])
             \/ Go(Ask("intent-conflict", "pin"))
    <3>1. UNCHANGED led \/ Stamp(Event("supersede-authorized", "spec-birth", ""))
      BY <2>3 DEF Go, AuthorizeSupersede, StampAndGo
    <3>2. at'.pc \in Idle
      <4>1. [pc |-> "written", by |-> at.pc].pc \in Idle
        BY DEF Idle
      <4> QED
        BY <2>3, <4>1, IdleAre DEF Go, AuthorizeSupersede, StampAndGo
    <3> QED
      BY <2>1, <3>1, <3>2, MildIs, StepToIdleHolds
  <2> QED
    BY <1>2, <2>2, <2>3 DEF SpecLintDefects
<1>3. CASE SpecBorn
  <2>1. at.pc \notin {"parked", "left"} /\ UNCHANGED <<stage, dry>>
    BY <1>3 DEF SpecBorn, world
  <2>2. UNCHANGED led \/ Stamp(Event("spec-born", "", ""))
    BY <1>3 DEF SpecBorn, Go, StampAndGo
  <2>3. at'.pc \in Idle
    BY <1>3, IdleAre DEF SpecBorn, Go, StampAndGo
  <2> QED
    BY <2>1, <2>2, <2>3, MildIs, StepToIdleHolds
<1> QED
  BY <1>1, <1>2, <1>3

LEMMA GateIs ==
  GateSeat = [pc |-> "dispatch", seat |-> "spec-gate", try |-> 1, limit |-> 1, task |-> ""]
<1>1. PICK place : place = Seat("spec-gate")
  OBVIOUS
<1>2. PICK limit : limit = AttemptLimit("spec-gate")
  OBVIOUS
<1>3. place = [pc |-> "dispatch", seat |-> "spec-gate", try |-> 1, limit |-> limit, task |-> ""]
  BY <1>1, <1>2, DispatchedIs
<1>4. GateSeat = [place EXCEPT !.limit = 1]
  BY <1>1 DEF GateSeat
<1> QED
  BY <1>3, <1>4

(* The gate is due where the stage sends its seat out.                       *)
LEMMA SpecGateHolds ==
  ASSUME GateInv, SpecGate
  PROVE  GateInv' /\ (stage' # "spec-gate" => ~RulingUnheard)
<1>1. at.pc = "enter" /\ stage = "spec-gate" /\ UNCHANGED <<suite, dry>>
  BY DEF SpecGate, Enters
<1>2. ~RulingOwed => ~RulingUnheard
  <2>1. led \in Seq(Range(led)) /\ Heard /\ (Rulings # {} => IntentParks # {})
    BY <1>1 DEF GateInv, GateLedger, ParksAreAnswered, Heard
  <2> QED
    BY <2>1, RulingsAreHeard
<1>3. CASE ~RulingOwed /\ Leave("suite")
  BY <1>1, <1>2, <1>3, LeaveHolds
<1>4. CASE To(Seat("spec-birth"))
  <2>1. UNCHANGED led /\ UNCHANGED stage /\ at' = Seat("spec-birth")
    BY <1>4 DEF To
  <2> QED
    BY <1>1, <2>1, MildIs, StepToASeatHolds
<1>5. CASE To(Ask("spec-gate-stalled", ""))
  <2>1. UNCHANGED led /\ UNCHANGED stage /\ at'.pc \in Idle
    BY <1>5, IdleAre DEF To
  <2> QED
    BY <1>1, <2>1, MildIs, StepToIdleHolds
<1>6. CASE To(GateSeat) /\ ~RulingOwed /\ (LastRound # 0 => led[LastRound].of # "pass" /\ ~(GateStall /\ ~StallAsked))
  <2>1. UNCHANGED led /\ UNCHANGED stage
        /\ at' = [pc |-> "dispatch", seat |-> "spec-gate", try |-> 1, limit |-> 1, task |-> ""]
    BY <1>6, GateIs DEF To
  <2>2. MildStep
    BY <2>1, MildIs
  <2>3. dry > 0 => LastRound # 0 /\ ~StallAsked
    <3>1. dry > 0 => Rounds # {} /\ dry >= 1
      BY <1>1 DEF GateInv, RoundsFall
    <3>2. (LastRound = 0) <=> (Rounds = {})
      BY LastRoundIs DEF GateInv, GateLedger
    <3>3. ~(StallAsked /\ dry > 0)
      BY <1>1 DEF GateInv, ParksAreAnswered
    <3> QED
      BY <3>1, <3>2, <3>3
  <2>4. GateIsDue
    BY <1>1, <1>6, <2>3 DEF GateIsDue
  <2>5. GateIsDue'
    BY <1>1, <2>1, <2>2, <2>4, GateStaysDue
  <2>6. ~RulingUnheard'
    BY <1>2, <1>6, <2>1 DEF RulingUnheard, SeatReportAfter, Seqs, After
  <2>7. Placed' /\ at'.pc # "parked"
    BY <2>1, <2>5, <2>6 DEF Placed, GatesAreDue, SeatsAreKnown, SeatOut, Specified, GateIsDue
  <2> QED
    BY <1>1, <2>1, <2>2, <2>7, StepHolds
<1> QED
  <2>1. CASE ~RulingOwed /\ LastRound > 0 /\ led[LastRound].of = "pass"
    BY <2>1, <1>3 DEF SpecGate
  <2>2. CASE ~(~RulingOwed /\ LastRound > 0 /\ led[LastRound].of = "pass")
    <3>1. To(IF RulingOwed THEN Seat("spec-birth")
             ELSE IF LastRound = 0 THEN GateSeat
             ELSE IF GateStall /\ ~StallAsked THEN Ask("spec-gate-stalled", "")
             ELSE IF SeatReportAfter("spec-birth", LastRound) THEN GateSeat
             ELSE Seat("spec-birth"))
      BY <2>2 DEF SpecGate
    <3>2. LastRound # 0 => LastRound > 0
      BY LastRoundIs DEF GateInv, GateLedger
    <3>3. CASE RulingOwed
      BY <3>1, <3>3, <1>4
    <3>4. CASE ~RulingOwed /\ LastRound = 0
      BY <3>1, <3>4, <1>6
    <3>5. CASE ~RulingOwed /\ LastRound # 0 /\ GateStall /\ ~StallAsked
      BY <3>1, <3>5, <1>5
    <3>6. CASE ~RulingOwed /\ LastRound # 0 /\ ~(GateStall /\ ~StallAsked)
      <4>1. led[LastRound].of # "pass"
        BY <2>2, <3>2, <3>6
      <4>2. CASE SeatReportAfter("spec-birth", LastRound)
        BY <3>1, <3>6, <4>1, <4>2, <1>6
      <4>3. CASE ~SeatReportAfter("spec-birth", LastRound)
        BY <3>1, <3>6, <4>3, <1>4
      <4> QED
        BY <4>2, <4>3
    <3> QED
      BY <3>3, <3>4, <3>5, <3>6
  <2> QED
    BY <2>1, <2>2

LEMMA GateConflictHolds ==
  ASSUME GateInv, GateConflict
  PROVE  GateInv'
<1>1. at.pc = "conflict" /\ UNCHANGED <<stage, dry>>
  BY DEF GateConflict, world
<1>2. CASE Stamp(Event("supersede-authorized", "spec-gate", "")) /\ at' = Seat("spec-birth")
  BY <1>1, <1>2, MildIs, StepToASeatHolds
<1>3. CASE Go(Ask("intent-conflict", "owner"))
  <2>1. UNCHANGED led /\ at'.pc \in Idle
    BY <1>3, IdleAre DEF Go
  <2> QED
    BY <1>1, <2>1, MildIs, StepToIdleHolds
<1> QED
  BY <1>2, <1>3 DEF GateConflict, AuthorizeSupersede, StampAndGo

(* The suite's seat is out in the suite's stage or in the freeze's.          *)
LEMMA SuiteHolds ==
  ASSUME GateInv, SuiteStage \/ SuiteReports \/ SuiteChecks \/ CommitSuite \/ SuiteCommitted
  PROVE  GateInv'
<1>1. CASE SuiteStage
  <2>1. at.pc = "enter" /\ stage = "suite" /\ UNCHANGED <<suite, dry>>
    BY <1>1 DEF SuiteStage, Enters
  <2>2. CASE Leave("freeze")
    BY <2>1, <2>2, LeaveHolds
  <2>3. CASE To(Seat("suite"))
    <3>1. UNCHANGED led /\ UNCHANGED stage /\ at' = Seat("suite")
      BY <2>3 DEF To
    <3> QED
      BY <2>1, <3>1, MildIs, StepToASeatHolds
  <2> QED
    BY <1>1, <2>2, <2>3 DEF SuiteStage
<1>2. CASE SuiteReports
  <2>1. /\ at.pc = "out" /\ at.seat = "suite" /\ Stamp(Event("seat-report", "suite", "")) /\ at' = [at EXCEPT !.pc = "suite-checks"]
        /\ UNCHANGED <<stage, dry>>
    BY <1>2 DEF SuiteReports
  <2>2. /\ at = [pc |-> at.pc, seat |-> at.seat, try |-> at.try, limit |-> at.limit, task |-> at.task]
        /\ stage \in {"suite", "freeze"}
    BY <2>1 DEF GateInv, SeatsAreKnown, SeatOut
  <2>3. /\ at' = [pc |-> at'.pc, seat |-> at'.seat, try |-> at'.try, limit |-> at'.limit, task |-> at'.task]
        /\ at'.pc = "suite-checks" /\ at'.seat = "suite"
    BY <2>1, <2>2
  <2>4. Placed' /\ at'.pc # "parked"
    BY <2>1, <2>2, <2>3 DEF Placed, GatesAreDue, SeatsAreKnown, SeatOut, Specified
  <2> QED
    BY <2>1, <2>4, MildIs, StepHolds
<1>3. CASE SuiteChecks
  <2>1. at.pc = "suite-checks" /\ UNCHANGED world /\ UNCHANGED <<stage, dry>> /\ stage \in {"suite", "freeze"}
    BY <1>3 DEF SuiteChecks, world, GateInv, SeatsAreKnown
  <2>2. CASE Refuse
    BY <2>1, <2>2, RefuseHolds
  <2>3. CASE Go(Pc("commit"))
    <3>1. UNCHANGED led /\ at'.pc = "commit"
      BY <2>3, IdleAre DEF Go
    <3>2. Placed' /\ at'.pc # "parked"
      BY <2>1, <3>1 DEF Placed, GatesAreDue, SeatsAreKnown, SeatOut, Specified
    <3> QED
      BY <2>1, <3>1, <3>2, MildIs, StepHolds
  <2>4. CASE Go(CommandError("suite-check-error"))
    <3>1. UNCHANGED led /\ at'.pc \in Idle
      BY <2>4, IdleAre DEF Go
    <3> QED
      BY <2>1, <3>1, MildIs, StepToIdleHolds
  <2> QED
    BY <1>3, <2>2, <2>3, <2>4 DEF SuiteChecks
<1>4. CASE CommitSuite
  <2>1. at.pc = "commit" /\ UNCHANGED led /\ UNCHANGED <<stage, dry>> /\ at'.pc = "committed" /\ stage \in {"suite", "freeze"}
    BY <1>4, IdleAre DEF CommitSuite, Go, GateInv, SeatsAreKnown
  <2>2. Placed' /\ at'.pc # "parked"
    BY <2>1 DEF Placed, GatesAreDue, SeatsAreKnown, SeatOut, Specified
  <2> QED
    BY <2>1, <2>2, MildIs, StepHolds
<1>5. CASE SuiteCommitted
  <2>1. /\ at.pc = "committed" /\ Stamp(Event("suite-committed", stage, "")) /\ UNCHANGED <<stage, dry>>
        /\ at' = IF stage = "suite" THEN Pc("enter") ELSE [pc |-> "red-state", try |-> 2]
        /\ stage \in {"suite", "freeze"}
    BY <1>5 DEF SuiteCommitted, StampAndGo, world, GateInv, SeatsAreKnown
  <2>2. CASE stage = "suite"
    <3>1. at'.pc \in Idle
      BY <2>1, <2>2, IdleAre
    <3> QED
      BY <2>1, <3>1, MildIs, StepToIdleHolds
  <2>3. CASE stage = "freeze"
    <3>1. at'.pc = "red-state"
      BY <2>1, <2>3
    <3>2. Placed' /\ at'.pc # "parked"
      BY <2>1, <2>3, <3>1 DEF Placed, GatesAreDue, SeatsAreKnown, SeatOut, Specified
    <3> QED
      BY <2>1, <3>2, MildIs, StepHolds
  <2> QED
    BY <2>1, <2>2, <2>3
<1> QED
  BY <1>1, <1>2, <1>3, <1>4, <1>5

(* The suite that is frozen has executed what the run authorized.            *)
LEMMA FreezeHolds ==
  ASSUME GateInv, Freeze \/ RedStateCheck \/ FreezeSuite
  PROVE  GateInv'
<1>1. CASE Freeze
  <2>1. at.pc = "enter" /\ stage = "freeze" /\ UNCHANGED led /\ UNCHANGED <<stage, dry>> /\ at'.pc = "red-state"
    BY <1>1 DEF Freeze, Enters, Go, world
  <2>2. Placed' /\ at'.pc # "parked"
    BY <2>1 DEF Placed, GatesAreDue, SeatsAreKnown, SeatOut, Specified
  <2> QED
    BY <2>1, <2>2, MildIs, StepHolds
<1>2. CASE RedStateCheck
  <2>1. at.pc = "red-state" /\ stage = "freeze" /\ UNCHANGED <<stage, dry>>
    BY <1>2 DEF RedStateCheck, world, GateInv, SeatsAreKnown
  <2>2. CASE Go(CommandError("suite-command-error"))
    <3>1. UNCHANGED led /\ at'.pc \in Idle
      BY <2>2, IdleAre DEF Go
    <3> QED
      BY <2>1, <3>1, MildIs, StepToIdleHolds
  <2>3. CASE Go(Pc("proven"))
    <3>1. UNCHANGED led /\ at'.pc = "proven"
      BY <2>3, IdleAre DEF Go
    <3>2. Placed' /\ at'.pc # "parked"
      BY <2>1, <3>1 DEF Placed, GatesAreDue, SeatsAreKnown, SeatOut, Specified
    <3> QED
      BY <2>1, <3>1, <3>2, MildIs, StepHolds
  <2>4. CASE Go(Seat("suite"))
    <3>1. UNCHANGED led /\ at' = Seat("suite")
      BY <2>4 DEF Go
    <3> QED
      BY <2>1, <3>1, MildIs, StepToASeatHolds
  <2>5. CASE StampAndGo(Event("seat-failure", "suite", "red-state-green"), SeatFail("suite"))
    <3>1. Stamp(Event("seat-failure", "suite", "red-state-green")) /\ at'.pc \in Idle
      BY <2>5, IdleAre DEF StampAndGo
    <3> QED
      BY <2>1, <3>1, MildIs, StepToIdleHolds
  <2> QED
    BY <1>2, <2>2, <2>3, <2>4, <2>5 DEF RedStateCheck
<1>3. CASE FreezeSuite
  <2>1. at.pc = "proven" /\ stage = "freeze" /\ UNCHANGED <<suite, dry>>
    BY <1>3 DEF FreezeSuite, GateInv, SeatsAreKnown
  <2>2. CASE Unamended
    <3>1. Stamp(Event("seat-failure", "suite", "supersede-unamended")) /\ at'.pc \in Idle /\ UNCHANGED stage
      BY <1>3, <2>2, IdleAre DEF FreezeSuite
    <3> QED
      BY <2>1, <3>1, MildIs, StepToIdleHolds
  <2>3. CASE ~Unamended
    <3> DEFINE x == [e |-> "freeze", of |-> "", suite |-> suite.head]
    <3>1. Stamp(x) /\ at'.pc = "left" /\ stage' = "implementation"
      BY <1>3, <2>3, IdleAre DEF FreezeSuite
    <3>2. Lawful(x) /\ x.e = "freeze"
      BY DEF Lawful
    <3> HIDE DEF x
    <3>3. GateLedger /\ RoundsFall /\ ParksAreAnswered
      BY DEF GateInv
    <3>4. GateLedger'
      BY <3>1, <3>2, <3>3, RoundsKept
    <3>5. RoundsFall'
      <4>1. ConvergesOrAsks' /\ dry' = dry /\ dry \in Nat
        BY <2>1, <3>3 DEF RoundsFall, ConvergesOrAsks
      <4> QED
        BY <3>1, <4>1 DEF RoundsFall
    <3>6. ParksAreAnswered'
      <4>1. /\ StallAsked' <=> StallAsked
            /\ Heard' <=> Heard
            /\ Rulings' # {} <=> Rulings # {}
            /\ IntentParks' # {} <=> IntentParks # {}
        BY <3>1, <3>2, <3>3, StallKept, HeardKept
      <4>2. Heard /\ (Rulings # {} => IntentParks # {}) /\ ~(StallAsked /\ dry > 0)
        BY <2>1, <3>3 DEF ParksAreAnswered, Heard
      <4>3. Heard' /\ (Rulings' # {} => IntentParks' # {}) /\ ~(StallAsked' /\ dry' > 0)
        BY <2>1, <4>1, <4>2
      <4> QED
        BY <3>1, <4>3 DEF ParksAreAnswered, Heard
    <3>7. Authorized' => Authorized
      <4>1. PICK sh : Shifted(led, led', x, sh)
        BY <3>1, <3>3, StampShifts DEF GateLedger
      <4>2. SeqsOf("supersede-authorized")' = Dest(sh, SeqsOf("supersede-authorized"))
        BY <3>2, <4>1, KindMoves
      <4> QED
        BY <4>2 DEF Authorized, Dest
    <3>8. FrozenIsLast'
      BY <2>1, <2>3, <3>1, <3>7 DEF FrozenIsLast, Unamended
    <3>9. Placed'
      BY <3>1, Aside DEF Busy, Specified
    <3> QED
      BY <3>4, <3>5, <3>6, <3>8, <3>9 DEF GateInv, Placed
  <2> QED
    BY <2>2, <2>3
<1> QED
  BY <1>1, <1>2, <1>3

---------------------------------------------------------------------------
LEMMA GateInvInit == PreInit => GateInv
<1> SUFFICES ASSUME PreInit PROVE GateInv
  OBVIOUS
<1>1. led = <<>> /\ at.pc = "enter" /\ dry = 0 /\ DOMAIN led = {} /\ Range(led) = {} /\ led \in Seq(Range(led))
  BY DEF PreInit, Pc, Range
<1>2. /\ GateRounds = {} /\ Rulings = {} /\ IntentParks = {} /\ SeqsOf("freeze") = {}
  BY <1>1 DEF GateRounds, Rulings, IntentParks, Seqs, SeqsOf
<1>3. GateLedger
  BY <1>1, <1>2 DEF GateLedger
<1>4. RoundsFall
  <2>1. ConvergesOrAsks
    <3>1. Cardinality(Blockers) \in Nat
      BY BlockersAreFinite, FS_CardinalityType
    <3>2. 0 <= 2 * Cardinality(Blockers) + 1
      BY <3>1
    <3> QED
      BY <1>1, <3>2 DEF ConvergesOrAsks
  <2> QED
    BY <1>1, <2>1 DEF RoundsFall
<1>5. GatesAreDue /\ SeatsAreKnown
  BY <1>1 DEF GatesAreDue, SeatsAreKnown, SeatOut, Specified
<1>6. ParksAreAnswered
  BY <1>1, <1>2 DEF ParksAreAnswered
<1>7. FrozenIsLast
  BY <1>2 DEF FrozenIsLast
<1> QED
  BY <1>3, <1>4, <1>5, <1>6, <1>7 DEF GateInv

(* The gate's invariant holds, and a ruling reaches the document first.      *)
LEMMA GateInvNext ==
  ASSUME GateInv, PreNext
  PROVE  GateInv' /\ (stage = "spec-gate" /\ stage' # "spec-gate" => ~RulingUnheard)
<1>1. CASE SpecGate
  BY <1>1, SpecGateHolds
<1>2. CASE FreezeSuite
  <2>1. stage = "freeze"
    BY <1>2 DEF FreezeSuite, GateInv, SeatsAreKnown
  <2> QED
    BY <1>2, <2>1, FreezeHolds
<1>3. CASE Readiness \/ Inherit \/ SpecBirth \/ SuiteStage
  <2>1. stage # "spec-gate"
    BY <1>3 DEF Readiness, Inherit, SpecBirth, SuiteStage
  <2> QED
    BY <1>3, <2>1, ReadinessHolds, InheritHolds, SpecBirthHolds, SuiteHolds
<1>4. CASE (Ledger /\ UNCHANGED world) \/ (Answer /\ dry' = 0 /\ UNCHANGED <<stage, spec, suite>>)
  <2>1. stage' = stage
    BY <1>4 DEF world
  <2> QED
    BY <1>4, <2>1, LedgerStepHolds, AnswerHolds
<1>5. CASE AdvanceBase \/ InheritFreeze \/ Inherited \/ TakeTheCard \/ SpecBirthReports \/ SpecLintDefects \/ SpecBorn
  <2>1. stage' = stage
    BY <1>5 DEF AdvanceBase, InheritFreeze, Inherited, TakeTheCard, SpecBirthReports, SpecLintDefects, SpecBorn, world
  <2> QED
    BY <1>5, <2>1, TakeOverHolds, SpecBirthHolds, SpecSeatHolds
<1>6. CASE GateReports \/ GateRound \/ GateConflict
  <2>1. stage' = stage
    BY <1>6 DEF GateReports, GateRound, GateConflict, world
  <2> QED
    BY <1>6, <2>1, GateReportsHolds, GateRoundHolds, GateConflictHolds
<1>7. CASE SuiteReports \/ SuiteChecks \/ CommitSuite \/ SuiteCommitted \/ Freeze \/ RedStateCheck
  <2>1. stage' = stage
    BY <1>7 DEF SuiteReports, SuiteChecks, CommitSuite, SuiteCommitted, Freeze, RedStateCheck, world
  <2> QED
    BY <1>7, <2>1, SuiteHolds, FreezeHolds
<1> QED
  BY <1>1, <1>2, <1>3, <1>4, <1>5, <1>6, <1>7 DEF PreNext

LEMMA GateInvStutters ==
  ASSUME GateInv, UNCHANGED preVars
  PROVE  GateInv'
<1>1. UNCHANGED <<led, at, stage, spec, suite, dry>>
  BY DEF preVars, ledgerVars
<1>2. GateLedger'
  BY <1>1 DEF GateInv, GateLedger, GateRounds, SeqsOf, Lawful
<1>3. Rounds' = Rounds /\ LastRound' = LastRound
  BY <1>1 DEF Rounds, LastRound, SeqsOf
<1>4. Back(0)' = Back(0) /\ Back(1)' = Back(1) /\ Back(2)' = Back(2)
  BY <1>1, <1>3 DEF Back
<1>5. GateStall' <=> GateStall
  BY <1>4 DEF GateStall, ClosedNothing, NoFall
<1>6. RoundsFall'
  BY <1>1, <1>3, <1>4 DEF GateInv, RoundsFall, Falls, ConvergesOrAsks
<1>7. RulingUnheard' <=> RulingUnheard
  BY <1>1 DEF RulingUnheard, SeatReportAfter, Seqs, After
<1>8. GatesAreDue'
  BY <1>1, <1>3, <1>5, <1>7 DEF GateInv, GatesAreDue, SeatOut
<1>9. SeatsAreKnown'
  BY <1>1 DEF GateInv, SeatsAreKnown, SeatOut
<1>10. ParksAreAnswered'
  <2>1. /\ StallAsked' <=> StallAsked
        /\ IntentParks' = IntentParks /\ Rulings' = Rulings /\ LastPark' = LastPark /\ SeqsOf("park")' = SeqsOf("park")
    BY <1>1, <1>3 DEF StallAsked, IntentParks, Rulings, Seqs, SeqsOf, After, LastPark
  <2> QED
    BY <1>1, <2>1 DEF GateInv, ParksAreAnswered
<1>11. FrozenIsLast'
  BY <1>1 DEF GateInv, FrozenIsLast, SeqsOf, Authorized
<1> QED
  BY <1>2, <1>6, <1>8, <1>9, <1>10, <1>11 DEF GateInv

(* Every behaviour of the stages before the freeze keeps the gate's invariant.*)
THEOREM TheGateIsSound == PreSpec => []GateInv
<1>1. GateInv /\ [PreNext]_preVars => GateInv'
  BY GateInvNext, GateInvStutters
<1> QED
  BY GateInvInit, <1>1, PTL DEF PreSpec

(* ConvergesOrAsks: between two answers of the operator the gate judges at   *)
(* most twice as many rounds as there are findings to raise, and one more.   *)
THEOREM TheGateConverges == PreSpec => []ConvergesOrAsks
<1>1. GateInv => ConvergesOrAsks
  BY DEF GateInv, RoundsFall
<1> QED
  BY TheGateIsSound, <1>1, PTL

(* RulingsAreCarriedOut: no round judges a document that an answered ruling  *)
(* has not reached, the gate's stage is not left over one, and a frozen suite*)
(* has executed every supersede the run authorized.                          *)
THEOREM RulingsReachSpecAndSuite == PreSpec => RulingsAreCarriedOut
<1> DEFINE Reaches == GateReports \/ (stage = "spec-gate" /\ stage' # "spec-gate") => ~RulingUnheard
<1>1. GateInv => SupersedesAreExecuted
  BY DEF GateInv, FrozenIsLast, SupersedesAreExecuted
<1>2. GateInv /\ [PreNext]_preVars => [Reaches]_preVars
  <2> SUFFICES ASSUME GateInv, PreNext PROVE Reaches
    OBVIOUS
  <2>1. GateReports => ~RulingUnheard
    BY DEF GateReports, GateInv, GatesAreDue, SeatOut
  <2>2. stage = "spec-gate" /\ stage' # "spec-gate" => ~RulingUnheard
    BY GateInvNext
  <2> QED
    BY <2>1, <2>2
<1>3. RulingReachesTheSpec <=> [][Reaches]_preVars
  BY DEF RulingReachesTheSpec
<1> HIDE DEF Reaches
<1> QED
  BY TheGateIsSound, <1>1, <1>2, <1>3, PTL DEF PreSpec, RulingsAreCarriedOut
=============================================================================
