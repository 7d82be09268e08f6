---------------------------- MODULE LaneLedger ----------------------------
(* What every stage handler of a lane stands on (src/lanes/shared.mjs): the  *)
(* run ledger read back at each entry, the parks and their answers, and the  *)
(* seat with one corrective invocation.  The handler's place is at, whose    *)
(* fields are its locals: a crash loses at and nothing else.                 *)
EXTENDS Naturals, Sequences, FiniteSets, FiniteSetsExt

CONSTANTS MaxAnswers,  \* bound: answers the operator gives
          MaxCrashes   \* bound: daemon crashes

VARIABLES led,      \* the events the handlers read, in ledger order: a seq is an index
          at,       \* where the handler is, with its locals
          spent     \* the answers and the crashes so far

ledgerVars == <<led, at, spent>>

Event(e, of, why) == [e |-> e, of |-> of, why |-> why]
Pc(pc) == [pc |-> pc]

(* Handlers read the newest event of a kind, and which of two is newer, so   *)
(* the ledger keeps the newest of each kind in order, and leaves out the     *)
(* kinds no handler reads.                                                   *)
Key(event) == IF event.e = "park" THEN <<"park", event.of, event.why>>
              ELSE IF "nth" \in DOMAIN event THEN <<event.e, event.nth, "">>   \* the last few are read
              ELSE <<event.e, event.of, "">>
Same(ledger, event) == {i \in DOMAIN ledger : Key(ledger[i]) = Key(event)}   \* one at most
Without(ledger, S) ==
    IF S = {} THEN ledger
    ELSE SubSeq(ledger, 1, Max(S) - 1) \o SubSeq(ledger, Max(S) + 1, Len(ledger))
With(ledger, event) == Append(Without(ledger, Same(ledger, event)), event)
(* The events at the indexes S alone, in their order.                        *)
Nth(S, n) == CHOOSE i \in S : Cardinality({j \in S : j <= i}) = n
Only(ledger, S) == [n \in 1..Cardinality(S) |-> ledger[Nth(S, n)]]

Stamp(event) == \E stamped \in {event} : led' = With(led, stamped)

Go(place) == /\ at' = place
             /\ UNCHANGED <<led, spent>>

StampAndGo(event, place) == /\ Stamp(event)
                            /\ at' = place
                            /\ UNCHANGED spent

(* The seqs of the events of a kind, and the newest of them (0: none).       *)
Seqs(e, of) == {i \in DOMAIN led : led[i].e = e /\ led[i].of = of}
SeqsOf(e) == {i \in DOMAIN led : led[i].e = e}
Newest(S) == Max(S \union {0})
After(S, seq) == \E i \in S : i > seq

(* The answer to the park at seq p, 0 while it has none.                     *)
AnswerTo(p) == Newest({i \in Seqs("answer", led[p].of) : i > p})
Answered(p) == p > 0 /\ AnswerTo(p) > 0
AnsweredPark(type) == LET p == Newest(Seqs("park", type)) IN IF Answered(p) THEN AnswerTo(p) ELSE 0

LastPark == Newest(SeqsOf("park"))
Abandoned(p) == Answered(p) /\ led[AnswerTo(p)].why = "abandon"
AbandonedClose == Abandoned(LastPark)

RecoveryParks == {"seat-failure", "stage-blocked", "command-error"}
LastRecoveryPark == Newest({i \in SeqsOf("park") : led[i].of \in RecoveryParks})

SeatReportAfter(seat, seq) == After(Seqs("seat-report", seat), seq)

(* An answered seat-failure park of this seat that no dispatch has spent.    *)
BoughtRetry(seat) ==
    /\ Answered(LastRecoveryPark)
    /\ led[LastRecoveryPark].of = "seat-failure"
    /\ led[LastRecoveryPark].why = seat
    /\ ~After(Seqs("seat-spawned", seat), AnswerTo(LastRecoveryPark))

(* A retry bought for a refused work product is one invocation.              *)
AttemptLimit(seat) ==
    LET failed == Newest({i \in Seqs("seat-failure", seat) : i < LastRecoveryPark})
    IN IF BoughtRetry(seat) /\ failed > 0 /\ led[failed].why = "defects" THEN 1 ELSE 2

(* The parks a handler returns.  A recovery park is not asked of a run whose *)
(* last park was answered abandon.                                           *)
Ask(type, why) == [pc |-> "ask", type |-> type, why |-> why]
Recover(type, why) == IF AbandonedClose THEN Pc("closed") ELSE Ask(type, why)
SeatFail(seat) == Recover("seat-failure", seat)
Blocked(reason) == Recover("stage-blocked", reason)
CommandError(reason) == Recover("command-error", reason)

Options(type) ==
    CASE type \in RecoveryParks -> {"retry"}
      [] type = "spec-gate-stalled" -> {"round"}
      [] type = "dependency-decision" -> {"approve", "refuse"}
      [] type = "second-stall" -> {"repair-again", "fresh-pass"}
      [] type \in {"provisioning-gate", "cycle-repeat"} -> {"retry"}
      [] OTHER -> {"text"}

Park == /\ at.pc = "ask"
        /\ StampAndGo(Event("park", at.type, at.why), Pc("parked"))

Answer == /\ at.pc = "parked"
          /\ spent.answers < MaxAnswers
          /\ spent' = [spent EXCEPT !.answers = @ + 1]
          /\ \E option \in Options(led[LastPark].of) \union {"abandon"} :
                Stamp(Event("answer", led[LastPark].of, option))
          /\ at' = Pc("enter")

Crash == /\ at.pc \notin {"enter", "parked", "closed", "left"}
         /\ spent.crashes < MaxCrashes
         /\ spent' = [spent EXCEPT !.crashes = @ + 1]
         /\ at' = Pc("enter")
         /\ UNCHANGED led

(* Every handler stands behind the guard that closes an abandoned run.       *)
AbandonGuard == /\ at.pc = "enter"
                /\ AbandonedClose
                /\ Go(Pc("closed"))

(* A tree whose block was answered is brought to the default branch, once    *)
(* per park, before the handler runs.                                        *)
RefreshOwed == /\ Answered(LastPark) /\ ~Abandoned(LastPark)
               /\ led[LastPark].of = "stage-blocked"
               /\ ~After(SeqsOf("tree-refreshed"), LastPark)
RefreshForRetry == /\ at.pc = "enter"
                   /\ RefreshOwed
                   /\ StampAndGo(Event("tree-refreshed", "", ""), at)

Enters == at.pc = "enter" /\ ~AbandonedClose /\ ~RefreshOwed

(* seatWithChecks: dispatch, work, checks, one corrective dispatch.          *)
SeatFor(seat, task) == [pc |-> "dispatch", seat |-> seat, try |-> 1, limit |-> AttemptLimit(seat), task |-> task]
Seat(seat) == SeatFor(seat, "")

(* A dispatch is kept where it is read: where it spends a bought retry, and  *)
(* the two seats' whose interrupted step is known by it.                     *)
Dispatch == /\ at.pc = "dispatch"
            /\ IF BoughtRetry(at.seat) \/ at.seat \in {"repair-dev", "record-author"}
               THEN StampAndGo(Event("seat-spawned", at.seat, ""), [at EXCEPT !.pc = "out"])
               ELSE Go([at EXCEPT !.pc = "out"])

NoReport == /\ at.pc = "out"
            /\ StampAndGo(Event("seat-failure", at.seat, "no-report"), SeatFail(at.seat))

Refuse == IF at.try >= at.limit
          THEN StampAndGo(Event("seat-failure", at.seat, "defects"), SeatFail(at.seat))
          ELSE Go([at EXCEPT !.pc = "dispatch", !.try = at.try + 1])
=============================================================================
