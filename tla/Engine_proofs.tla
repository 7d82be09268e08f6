--------------------------- MODULE Engine_proofs ----------------------------
(***************************************************************************)
(* What holds of the run engine for every set of runs, projects, stages,   *)
(* builds and bounds: its memory never drifts from its ledgers, whatever   *)
(* command or crash comes next.  Then what holds of the gate layers a      *)
(* verdict runs inside it, and of the fast path over them, for every gate  *)
(* table, every certified base and every run of cycles, repairs, fresh     *)
(* passes, crashes and updates: a green is proven, an attempt is closed,   *)
(* and a carried certification still answers for its tree.                 *)
(***************************************************************************)
EXTENDS RunEngine, FastPath, FiniteSetTheorems, TLAPS

(* What a crash may leave of a ledger: no run is parked and held at once, the   *)
(* stage an answer or a release will run is a stage, and only a launch begins   *)
(* a ledger.                                                                  *)
LedgerOK(d) ==
  /\ d \in Fold /\ ~(d.parked /\ d.held)
  /\ d.parked => d.stage \in Stages
  /\ d.held => d.deferred \in Stages
  /\ d.phase = "absent" => d = NoLedger

(* A live run: its ledger d, and the memory m that agrees with it. *)
Pair(d, m, b) ==
  /\ d \in Fold /\ m \in Memory
  /\ m.live /\ d.phase = "open"
  /\ m.parked = d.parked /\ m.violated = (d.viol > 0)
  /\ m.held = d.held /\ m.dresume = d.dresume
  /\ m.own = d.own /\ m.quiet = d.quiet
  /\ m.wait = d.wait /\ m.pin = d.pin
  /\ m.stage \in {d.stage, ResumeStage(b, d.stage)}
  /\ m.deferred \in {d.deferred, ResumeStage(b, d.deferred)}
  /\ ~(m.exec /\ m.parked) /\ ~(m.exec /\ m.held) /\ ~(m.parked /\ m.held)
  /\ (m.wait # "none" \/ m.gate) => m.exec
  /\ m.parked => d.stage \in Stages /\ m.stage \in Stages
  /\ m.held => d.deferred \in Stages /\ m.deferred \in Stages

PairOK(x, b) == Pair(x.d, x.m, b)

RunOK(r) ==
  /\ LedgerOK(led[r])
  /\ mem[r].live <=> (Alive /\ led[r].phase = "open")
  /\ IF mem[r].live THEN Pair(led[r], mem[r], build) ELSE mem[r] = NotLive

IInv ==
  /\ mode \in {"down", "up", "stopping"} /\ build \in Builds /\ scopes \subseteq Scopes
  /\ starts \in 0..MaxStarts
  /\ led \in [Runs -> Fold] /\ mem \in [Runs -> Memory]
  /\ \A r \in Runs : RunOK(r)

---------------------------------------------------------------------------
LEMMA LineFold ==
  \A d \in Fold :
    /\ Line(d) \in Fold /\ Released(d) \in Fold /\ Parked(d) \in Fold
    /\ Answered(d) \in Fold /\ Resumed(d) \in Fold /\ WaitEnded(d) \in Fold
    /\ Closed(d) \in Fold /\ Violated(d) \in Fold /\ (d.viol > 0 => Resolved(d) \in Fold)
    /\ \A b \in Blobs : Launched(d, b) \in Fold /\ Repinned(d, b) \in Fold
    /\ \A s \in Stages : Entered(d, s) \in Fold
    /\ \A n \in Names, h \in BOOLEAN : Held(d, n, h) \in Fold
    /\ \A h \in BOOLEAN : HoldChanged(d, h) \in Fold
    /\ \A k \in WaitKinds : WaitBegun(d, k) \in Fold
    /\ \A f, s \in Stages : Sent(d, f, s) \in Fold
<1> TAKE d \in Fold
<1>0. Silence \in Seq(Stages) BY DEF Silence
<1> USE <1>0 DEF Fold, Line
<1>1. Line(d) \in Fold OBVIOUS
<1>2. /\ Line(d).viol = d.viol /\ Line(d).answers = d.answers
      /\ Line(d).retired = d.retired
  OBVIOUS
<1>3. /\ d.viol \in Nat /\ d.answers \in Nat /\ d.retired \in Seq(Stages \X Stages)
      /\ d.quiet \in Seq(Stages)
  OBVIOUS
<1>4. /\ Released(d) \in Fold /\ Parked(d) \in Fold /\ Resumed(d) \in Fold
      /\ WaitEnded(d) \in Fold /\ Closed(d) \in Fold
  BY DEF Released, Parked, Resumed, WaitEnded, Closed, Names, WaitKinds
<1>5. Answered(d) \in Fold
  <2>1. Line(d).answers + 1 \in Nat BY <1>2, <1>3
  <2>2. QED BY <1>1, <2>1, Zenon DEF Answered
<1>6. Violated(d) \in Fold
  <2>1. Line(d).viol + 1 \in Nat BY <1>2, <1>3
  <2>2. QED BY <1>1, <2>1, Zenon DEF Violated
<1>7. d.viol > 0 => Resolved(d) \in Fold
  <2>1. d.viol > 0 => Line(d).viol - 1 \in Nat BY <1>2, <1>3
  <2>2. QED BY <1>1, <2>1, Zenon DEF Resolved
<1>8. \A b \in Blobs : Launched(d, b) \in Fold /\ Repinned(d, b) \in Fold
  BY DEF Launched, Repinned
<1>9. \A s \in Stages : Entered(d, s) \in Fold
  <2> TAKE s \in Stages
  <2>1. Append(d.quiet, s) \in Seq(Stages) BY <1>3
  <2>2. s \in Names BY DEF Names
  <2>3. QED BY <2>1, <2>2, Zenon DEF Entered
<1>10. \A n \in Names, h \in BOOLEAN : Held(d, n, h) \in Fold BY DEF Held
<1>11. \A h \in BOOLEAN : HoldChanged(d, h) \in Fold BY DEF HoldChanged
<1>12. \A k \in WaitKinds : WaitBegun(d, k) \in Fold BY DEF WaitBegun
<1>13. \A f, s \in Stages : Sent(d, f, s) \in Fold
  <2> TAKE f, s \in Stages
  <2>1. Append(Line(d).retired, <<f, s>>) \in Seq(Stages \X Stages) BY <1>2, <1>3
  <2>2. QED BY <1>1, <2>1, Zenon DEF Sent
<1>14. QED BY ONLY <1>1, <1>4, <1>5, <1>6, <1>7, <1>8, <1>9, <1>10, <1>11, <1>12, <1>13

LEMMA HeardMemory ==
  ASSUME NEW m \in Memory PROVE Heard(m) \in Memory
<1>1. Silence \in Seq(Stages) BY DEF Silence
<1>2. QED BY <1>1 DEF Heard, Memory

---------------------------------------------------------------------------
(* The engine's steps keep a run and its ledger in agreement. *)

LEMMA OnParts == \A d, m : On(d, m).d = d /\ On(d, m).m = m
  BY DEF On

LEMMA ResumeStageOK ==
  ASSUME NEW b \in Builds, NEW s \in Names
  PROVE  /\ ResumeStage(b, s) \in Names
         /\ ResumeStage(b, s) # NoStage => ResumeStage(b, s) \in Stages
BY EngineAssumption DEF ResumeStage, Names

LEMMA HeldOK ==
  ASSUME NEW b \in Builds, NEW d, NEW m, Pair(d, m, b),
         NEW s \in Stages, NEW h \in BOOLEAN,
         ~m.parked, ~m.exec
  PROVE  Pair(Held(d, s, h),
              [Heard(m) EXCEPT !.held = TRUE, !.deferred = s, !.dresume = h], b)
<1> DEFINE e == Held(d, s, h)
           n == [Heard(m) EXCEPT !.held = TRUE, !.deferred = s, !.dresume = h]
<1>1. d \in Fold /\ m \in Memory BY DEF Pair
<1>0. s \in Names BY DEF Names
<1>2. e \in Fold BY <1>1, LineFold, <1>0
<1>3. n \in Memory BY <1>1, HeardMemory DEF Memory, Names, WaitKinds
<1>4. e = [d EXCEPT !.quiet = Silence, !.held = TRUE, !.deferred = s, !.dresume = h]
  BY DEF Line, Held
<1>5. n = [m EXCEPT !.quiet = Silence, !.held = TRUE, !.deferred = s, !.dresume = h]
  BY DEF Heard
<1> HIDE DEF n, e
<1>6. Pair(e, n, b) BY <1>1, <1>2, <1>3, <1>4, <1>5 DEF Pair, Fold, Memory
<1>7. QED BY <1>6 DEF n, e

LEMMA SpokenOK ==
  ASSUME NEW b \in Builds, NEW d, NEW m, Pair(d, m, b),
         NEW k \in Nat
  PROVE  Pair(Line(d),
              [Heard(m) EXCEPT !.seats = k], b)
<1> DEFINE e == Line(d)
           n == [Heard(m) EXCEPT !.seats = k]
<1>1. d \in Fold /\ m \in Memory BY DEF Pair
<1>2. e \in Fold BY <1>1, LineFold
<1>3. n \in Memory BY <1>1, HeardMemory DEF Memory, Names, WaitKinds
<1>4. e = [d EXCEPT !.quiet = Silence]
  BY DEF Line, Line
<1>5. n = [m EXCEPT !.quiet = Silence, !.seats = k]
  BY DEF Heard
<1> HIDE DEF n, e
<1>6. Pair(e, n, b) BY <1>1, <1>2, <1>3, <1>4, <1>5 DEF Pair, Fold, Memory
<1>7. QED BY <1>6 DEF n, e

LEMMA SettledOK ==
  ASSUME NEW b \in Builds, NEW d, NEW m, Pair(d, m, b),
         m.wait = "none", ~m.gate
  PROVE  Pair(d,
              [m EXCEPT !.exec = FALSE], b)
<1> DEFINE e == d
           n == [m EXCEPT !.exec = FALSE]
<1>1. d \in Fold /\ m \in Memory BY DEF Pair
<1>2. e \in Fold BY <1>1, LineFold
<1>3. n \in Memory BY <1>1 DEF Memory, Names
<1>4. e = d OBVIOUS
<1>5. n = [m EXCEPT !.exec = FALSE]
  BY DEF Heard
<1> HIDE DEF n, e
<1>6. Pair(e, n, b) BY <1>1, <1>2, <1>3, <1>4, <1>5 DEF Pair, Fold, Memory
<1>7. QED BY <1>6 DEF n, e

LEMMA ExecuteOK ==
  ASSUME NEW b \in Builds, NEW d, NEW m, Pair(d, m, b),
         ~m.parked, ~m.held
  PROVE  Pair(d,
              [m EXCEPT !.exec = TRUE], b)
<1> DEFINE e == d
           n == [m EXCEPT !.exec = TRUE]
<1>1. d \in Fold /\ m \in Memory BY DEF Pair
<1>2. e \in Fold BY <1>1, LineFold
<1>3. n \in Memory BY <1>1 DEF Memory, Names
<1>4. e = d OBVIOUS
<1>5. n = [m EXCEPT !.exec = TRUE]
  BY DEF Heard
<1> HIDE DEF n, e
<1>6. Pair(e, n, b) BY <1>1, <1>2, <1>3, <1>4, <1>5 DEF Pair, Fold, Memory
<1>7. QED BY <1>6 DEF n, e

LEMMA GateOK ==
  ASSUME NEW b \in Builds, NEW d, NEW m, Pair(d, m, b)
  PROVE  Pair(d,
              [m EXCEPT !.gate = FALSE], b)
<1> DEFINE e == d
           n == [m EXCEPT !.gate = FALSE]
<1>1. d \in Fold /\ m \in Memory BY DEF Pair
<1>2. e \in Fold BY <1>1, LineFold
<1>3. n \in Memory BY <1>1 DEF Memory, Names
<1>4. e = d OBVIOUS
<1>5. n = [m EXCEPT !.gate = FALSE]
  BY DEF Heard
<1> HIDE DEF n, e
<1>6. Pair(e, n, b) BY <1>1, <1>2, <1>3, <1>4, <1>5 DEF Pair, Fold, Memory
<1>7. QED BY <1>6 DEF n, e

LEMMA WaitBegunOK ==
  ASSUME NEW b \in Builds, NEW d, NEW m, Pair(d, m, b),
         NEW k \in WaitKinds,
         m.exec
  PROVE  Pair(WaitBegun(d, k),
              [Heard(m) EXCEPT !.wait = k], b)
<1> DEFINE e == WaitBegun(d, k)
           n == [Heard(m) EXCEPT !.wait = k]
<1>1. d \in Fold /\ m \in Memory BY DEF Pair
<1>2. e \in Fold BY <1>1, LineFold
<1>3. n \in Memory BY <1>1, HeardMemory DEF Memory, Names, WaitKinds
<1>4. e = [d EXCEPT !.quiet = Silence, !.wait = k]
  BY DEF Line, WaitBegun
<1>5. n = [m EXCEPT !.quiet = Silence, !.wait = k]
  BY DEF Heard
<1> HIDE DEF n, e
<1>6. Pair(e, n, b) BY <1>1, <1>2, <1>3, <1>4, <1>5 DEF Pair, Fold, Memory
<1>7. QED BY <1>6 DEF n, e

LEMMA WaitEndedOK ==
  ASSUME NEW b \in Builds, NEW d, NEW m, Pair(d, m, b),
         NEW g \in BOOLEAN,
         m.wait # "none"
  PROVE  Pair(WaitEnded(d),
              [Heard(m) EXCEPT !.wait = "none", !.gate = g], b)
<1> DEFINE e == WaitEnded(d)
           n == [Heard(m) EXCEPT !.wait = "none", !.gate = g]
<1>1. d \in Fold /\ m \in Memory BY DEF Pair
<1>2. e \in Fold BY <1>1, LineFold
<1>3. n \in Memory BY <1>1, HeardMemory DEF Memory, Names, WaitKinds
<1>4. e = [d EXCEPT !.quiet = Silence, !.wait = "none"]
  BY DEF Line, WaitEnded
<1>5. n = [m EXCEPT !.quiet = Silence, !.wait = "none", !.gate = g]
  BY DEF Heard
<1> HIDE DEF n, e
<1>6. Pair(e, n, b) BY <1>1, <1>2, <1>3, <1>4, <1>5 DEF Pair, Fold, Memory
<1>7. QED BY <1>6 DEF n, e

LEMMA ParkedOK ==
  ASSUME NEW b \in Builds, NEW d, NEW m, Pair(d, m, b),
         ~m.exec, ~m.held, m.stage \in Stages, d.stage \in Stages
  PROVE  Pair(Parked(d),
              [Heard(m) EXCEPT !.parked = TRUE], b)
<1> DEFINE e == Parked(d)
           n == [Heard(m) EXCEPT !.parked = TRUE]
<1>1. d \in Fold /\ m \in Memory BY DEF Pair
<1>2. e \in Fold BY <1>1, LineFold
<1>3. n \in Memory BY <1>1, HeardMemory DEF Memory, Names, WaitKinds
<1>4. e = [d EXCEPT !.quiet = Silence, !.parked = TRUE, !.answers = 0]
  BY DEF Line, Parked
<1>5. n = [m EXCEPT !.quiet = Silence, !.parked = TRUE]
  BY DEF Heard
<1> HIDE DEF n, e
<1>6. Pair(e, n, b) BY <1>1, <1>2, <1>3, <1>4, <1>5 DEF Pair, Fold, Memory
<1>7. QED BY <1>6 DEF n, e

LEMMA RepinnedOK ==
  ASSUME NEW b \in Builds, NEW d, NEW m, Pair(d, m, b),
         NEW k \in Blobs
  PROVE  Pair(Repinned(d, k),
              [Heard(m) EXCEPT !.pin = k], b)
<1> DEFINE e == Repinned(d, k)
           n == [Heard(m) EXCEPT !.pin = k]
<1>1. d \in Fold /\ m \in Memory BY DEF Pair
<1>2. e \in Fold BY <1>1, LineFold
<1>3. n \in Memory BY <1>1, HeardMemory DEF Memory, Names, WaitKinds
<1>4. e = [d EXCEPT !.quiet = Silence, !.pin = k]
  BY DEF Line, Repinned
<1>5. n = [m EXCEPT !.quiet = Silence, !.pin = k]
  BY DEF Heard
<1> HIDE DEF n, e
<1>6. Pair(e, n, b) BY <1>1, <1>2, <1>3, <1>4, <1>5 DEF Pair, Fold, Memory
<1>7. QED BY <1>6 DEF n, e

LEMMA HoldChangedOK ==
  ASSUME NEW b \in Builds, NEW d, NEW m, Pair(d, m, b),
         NEW h \in BOOLEAN
  PROVE  Pair(HoldChanged(d, h),
              [Heard(m) EXCEPT !.own = h], b)
<1> DEFINE e == HoldChanged(d, h)
           n == [Heard(m) EXCEPT !.own = h]
<1>1. d \in Fold /\ m \in Memory BY DEF Pair
<1>2. e \in Fold BY <1>1, LineFold
<1>3. n \in Memory BY <1>1, HeardMemory DEF Memory, Names, WaitKinds
<1>4. e = [d EXCEPT !.quiet = Silence, !.own = h]
  BY DEF Line, HoldChanged
<1>5. n = [m EXCEPT !.quiet = Silence, !.own = h]
  BY DEF Heard
<1> HIDE DEF n, e
<1>6. Pair(e, n, b) BY <1>1, <1>2, <1>3, <1>4, <1>5 DEF Pair, Fold, Memory
<1>7. QED BY <1>6 DEF n, e

LEMMA ReleasedOK ==
  ASSUME NEW b \in Builds, NEW d, NEW m, Pair(d, m, b)
  PROVE  Pair(Released(d),
              [Heard(m) EXCEPT !.held = FALSE, !.deferred = NoStage, !.dresume = FALSE], b)
<1> DEFINE e == Released(d)
           n == [Heard(m) EXCEPT !.held = FALSE, !.deferred = NoStage, !.dresume = FALSE]
<1>1. d \in Fold /\ m \in Memory BY DEF Pair
<1>2. e \in Fold BY <1>1, LineFold
<1>3. n \in Memory BY <1>1, HeardMemory DEF Memory, Names, WaitKinds
<1>4. e = [d EXCEPT !.quiet = Silence, !.held = FALSE, !.deferred = NoStage, !.dresume = FALSE]
  BY DEF Line, Released
<1>5. n = [m EXCEPT !.quiet = Silence, !.held = FALSE, !.deferred = NoStage, !.dresume = FALSE]
  BY DEF Heard
<1> HIDE DEF n, e
<1>6. Pair(e, n, b) BY <1>1, <1>2, <1>3, <1>4, <1>5 DEF Pair, Fold, Memory
<1>7. QED BY <1>6 DEF n, e

LEMMA EnteredOK ==
  ASSUME NEW b \in Builds, NEW d, NEW m, Pair(d, m, b), NEW s \in Stages,
         ~m.parked, ~m.held
  PROVE  Pair(Entered(d, s),
              [m EXCEPT !.stage = s, !.quiet = Append(@, s), !.exec = TRUE], b)
<1> DEFINE q == Append(m.quiet, s)
           e == Entered(d, s)
           n == [m EXCEPT !.stage = s, !.quiet = Append(@, s), !.exec = TRUE]
<1>1. d \in Fold /\ m \in Memory /\ d.quiet = m.quiet BY DEF Pair
<1>2. q \in Seq(Stages) BY <1>1 DEF Memory
<1>3. e \in Fold BY <1>1, LineFold
<1>4. n \in Memory BY <1>1, <1>2 DEF Memory, Names
<1>5. e = [d EXCEPT !.stage = s, !.quiet = q] BY <1>1, Zenon DEF Entered
<1>6. n = [m EXCEPT !.stage = s, !.quiet = q, !.exec = TRUE] OBVIOUS
<1> HIDE DEF n, e, q
<1>7. Pair(e, n, b) BY <1>1, <1>2, <1>3, <1>4, <1>5, <1>6 DEF Pair, Fold, Memory
<1>8. QED BY <1>7 DEF n, e

LEMMA AnsweredOK ==
  ASSUME NEW b \in Builds, NEW d, NEW m, Pair(d, m, b), m.parked
  PROVE  Pair(Resumed(Answered(d)), [Heard(m) EXCEPT !.parked = FALSE], b)
<1> DEFINE e == Resumed(Answered(d))
           a == d.answers + 1
           n == [Heard(m) EXCEPT !.parked = FALSE]
<1>1. d \in Fold /\ m \in Memory BY DEF Pair
<1>2. e \in Fold BY <1>1, LineFold
<1>3. n \in Memory BY <1>1, HeardMemory DEF Memory
<1>4. e = [d EXCEPT !.quiet = Silence, !.parked = FALSE, !.answers = a]
  BY <1>1 DEF Line, Resumed, Answered, Fold
<1>5. n = [m EXCEPT !.quiet = Silence, !.parked = FALSE] BY DEF Heard
<1> HIDE DEF n, e, a
<1>6. Pair(e, n, b) BY <1>1, <1>2, <1>3, <1>4, <1>5 DEF Pair, Fold, Memory
<1>7. QED BY <1>6 DEF n, e

LEMMA ViolatedOK ==
  ASSUME NEW b \in Builds, NEW d, NEW m, Pair(d, m, b)
  PROVE  Pair(Violated(d), [Heard(m) EXCEPT !.violated = TRUE], b)
<1> DEFINE e == Violated(d)
           v == d.viol + 1
           n == [Heard(m) EXCEPT !.violated = TRUE]
<1>1. d \in Fold /\ m \in Memory BY DEF Pair
<1>2. e \in Fold BY <1>1, LineFold
<1>3. n \in Memory BY <1>1, HeardMemory DEF Memory
<1>4. e = [d EXCEPT !.quiet = Silence, !.viol = v]
  BY <1>1 DEF Line, Violated, Fold
<1>5. n = [m EXCEPT !.quiet = Silence, !.violated = TRUE] BY DEF Heard
<1>6. v > 0 BY <1>1 DEF Fold
<1> HIDE DEF n, e, v
<1>7. e.viol = v BY <1>1, <1>4 DEF Fold
<1>8. n.violated BY <1>1, <1>5 DEF Memory
<1>9. n.violated = (e.viol > 0) BY <1>6, <1>7, <1>8, <1>3 DEF Memory
<1>10. Pair(e, n, b) BY <1>1, <1>2, <1>3, <1>4, <1>5, <1>9 DEF Pair, Fold, Memory
<1>11. QED BY <1>10 DEF n, e

LEMMA ResolvedOK ==
  ASSUME NEW b \in Builds, NEW d, NEW m, Pair(d, m, b), d.viol > 0
  PROVE  /\ d.viol = 1 => Pair(Resolved(d), [Heard(m) EXCEPT !.violated = FALSE], b)
         /\ d.viol > 1 => Pair(Resolved(d), Heard(m), b)
<1> DEFINE e == Resolved(d)
           v == d.viol - 1
           n == [Heard(m) EXCEPT !.violated = FALSE]
           h == Heard(m)
<1>1. d \in Fold /\ m \in Memory BY DEF Pair
<1>2. e \in Fold BY <1>1, LineFold
<1>3. n \in Memory /\ h \in Memory BY <1>1, HeardMemory DEF Memory
<1>4. e = [d EXCEPT !.quiet = Silence, !.viol = v]
  BY <1>1 DEF Line, Resolved, Fold
<1>5. n = [m EXCEPT !.quiet = Silence, !.violated = FALSE] BY DEF Heard
<1>6. h = [m EXCEPT !.quiet = Silence] BY DEF Heard
<1>7. d.viol \in Nat /\ v \in Nat /\ (d.viol = 1 => ~(v > 0)) /\ (d.viol > 1 => v > 0)
  BY <1>1 DEF Fold
<1> HIDE DEF n, e, v, h
<1>8. d.viol = 1 => Pair(e, n, b)
  <2>1. e.viol = v BY <1>1, <1>4 DEF Fold
  <2>1a. ~n.violated BY <1>1, <1>5 DEF Memory
  <2>2. d.viol = 1 => n.violated = (e.viol > 0) BY <2>1, <2>1a, <1>3, <1>7 DEF Memory
  <2>3. QED BY <1>1, <1>2, <1>3, <1>4, <1>5, <2>2 DEF Pair, Fold, Memory
<1>9. d.viol > 1 => Pair(e, h, b)
  BY <1>1, <1>2, <1>3, <1>4, <1>6, <1>7 DEF Pair, Fold, Memory
<1>10. QED BY <1>8, <1>9 DEF n, e, h

LEMMA SentOK ==
  ASSUME NEW b \in Builds, NEW d, NEW m, Pair(d, m, b), NEW f \in Stages, NEW t \in Stages
  PROVE  Pair(Sent(d, f, t), Heard(m), b)
<1> DEFINE e == Sent(d, f, t)
           h == Heard(m)
           q == Append(d.retired, <<f, t>>)
<1>1. d \in Fold /\ m \in Memory BY DEF Pair
<1>2. e \in Fold /\ h \in Memory BY <1>1, LineFold, HeardMemory
<1>3. e = [d EXCEPT !.quiet = Silence, !.retired = q] BY <1>1 DEF Line, Sent, Fold
<1>4. h = [m EXCEPT !.quiet = Silence] BY DEF Heard
<1> HIDE DEF e, h, q
<1>5. Pair(e, h, b) BY <1>1, <1>2, <1>3, <1>4 DEF Pair, Fold, Memory
<1>6. QED BY <1>5 DEF e, h

LEMMA RenamedOK ==
  ASSUME NEW b \in Builds, NEW d, NEW m, Pair(d, m, b)
  PROVE  /\ ResumeStage(b, d.stage) \in Stages
              => Pair(d, [m EXCEPT !.stage = ResumeStage(b, d.stage)], b)
         /\ ResumeStage(b, d.deferred) \in Stages
              => Pair(d, [m EXCEPT !.deferred = ResumeStage(b, d.deferred)], b)
<1> DEFINE s == ResumeStage(b, d.stage)
           f == ResumeStage(b, d.deferred)
           n == [m EXCEPT !.stage = s]
           k == [m EXCEPT !.deferred = f]
<1>1. d \in Fold /\ m \in Memory BY DEF Pair
<1> HIDE DEF s, f
<1>2. s \in Stages => n \in Memory BY <1>1 DEF Memory, Names
<1>3. f \in Stages => k \in Memory BY <1>1 DEF Memory, Names
<1>4. n = [m EXCEPT !.stage = s] /\ k = [m EXCEPT !.deferred = f] OBVIOUS
<1> HIDE DEF n, k
<1>5. s \in Stages => Pair(d, n, b)
  <2>1. s = ResumeStage(b, d.stage) BY DEF s
  <2>2. QED BY <2>1, <1>1, <1>2, <1>4 DEF Pair, Memory
<1>6. f \in Stages => Pair(d, k, b)
  <2>1. f = ResumeStage(b, d.deferred) BY DEF f
  <2>2. QED BY <2>1, <1>1, <1>3, <1>4 DEF Pair, Memory
<1>7. QED BY <1>5, <1>6 DEF s, f, n, k

LEMMA ReplayedOK ==
  ASSUME NEW b \in Builds, NEW d, LedgerOK(d), d.phase = "open"
  PROVE  LET x == Recovered(On(d, Replay(d)))
         IN  PairOK(x, b) /\ x.m.stage = x.d.stage /\ x.m.deferred = x.d.deferred /\ ~x.m.exec
<1> DEFINE m == Replay(d)
           e == WaitEnded(d)
           h == Heard(m)
<1>1. d \in Fold /\ e \in Fold BY LineFold DEF LedgerOK
<1>2. m \in Memory BY <1>1 DEF Replay, Memory, Fold, WaitKinds
<1>3. h \in Memory BY <1>2, HeardMemory
<1>4. h = [m EXCEPT !.quiet = Silence] BY DEF Heard
<1>5. e = [d EXCEPT !.quiet = Silence, !.wait = "none"] BY DEF WaitEnded, Line
<1>6. /\ m.live /\ m.stage = d.stage /\ m.parked = d.parked /\ m.violated = (d.viol > 0)
      /\ m.held = d.held /\ m.deferred = d.deferred /\ m.dresume = d.dresume
      /\ m.own = d.own /\ m.quiet = d.quiet /\ m.pin = d.pin /\ ~m.exec
      /\ m.wait = "none" /\ ~m.gate
  BY DEF Replay
<1>7. Recovered(On(d, Replay(d))) = IF d.wait = "none" THEN On(d, m) ELSE On(e, h)
  BY OnParts DEF Recovered
<1> HIDE DEF m, e, h
<1>8. d.wait = "none" => Pair(d, m, b)
  BY <1>1, <1>2, <1>6 DEF Pair, LedgerOK
<1>9. Pair(e, h, b)
  BY <1>1, <1>2, <1>3, <1>4, <1>5, <1>6 DEF Pair, LedgerOK, Fold, Memory
<1>10. /\ e.stage = d.stage /\ e.deferred = d.deferred
       /\ h.stage = m.stage /\ h.deferred = m.deferred /\ h.exec = m.exec
  BY <1>1, <1>2, <1>4, <1>5 DEF Fold, Memory
<1>11. QED BY <1>6, <1>7, <1>8, <1>9, <1>10, OnParts DEF PairOK

(* A ledger stays one a crash may leave, line by line. *)
LEMMA LinesOK ==
  ASSUME NEW d, LedgerOK(d), d.phase # "absent"
  PROVE  /\ LedgerOK(Line(d)) /\ LedgerOK(Released(d)) /\ LedgerOK(Answered(d))
         /\ LedgerOK(Resumed(Answered(d))) /\ LedgerOK(WaitEnded(d)) /\ LedgerOK(Closed(d))
         /\ \A f, t \in Stages : LedgerOK(Sent(d, f, t))
<1>1. d \in Fold BY DEF LedgerOK
<1>2. /\ Line(d) \in Fold /\ Released(d) \in Fold /\ Answered(d) \in Fold
      /\ Resumed(Answered(d)) \in Fold /\ WaitEnded(d) \in Fold /\ Closed(d) \in Fold
      /\ \A f, t \in Stages : Sent(d, f, t) \in Fold
  BY <1>1, LineFold
<1> DEFINE Same(e) == e.parked = d.parked /\ e.held = d.held
                      /\ e.stage = d.stage /\ e.deferred = d.deferred
                      /\ e.phase # "absent"
<1>3. Same(Line(d)) /\ Same(Answered(d)) /\ Same(WaitEnded(d)) /\ Same(Closed(d))
  BY <1>1 DEF Line, Answered, WaitEnded, Closed, Fold
<1>4. \A f, t \in Stages : Same(Sent(d, f, t)) BY <1>1 DEF Line, Sent, Fold
<1>5. Released(d).parked = d.parked /\ ~Released(d).held /\ Released(d).stage = d.stage
      /\ Released(d).phase # "absent"
  BY <1>1 DEF Line, Released, Fold
<1>6. ~Resumed(Answered(d)).parked /\ Resumed(Answered(d)).held = d.held
      /\ Resumed(Answered(d)).deferred = d.deferred /\ Resumed(Answered(d)).phase # "absent"
  BY <1>1 DEF Line, Resumed, Answered, Fold
<1> HIDE DEF NoLedger
<1>7. QED BY <1>2, <1>3, <1>4, <1>5, <1>6 DEF LedgerOK

LEMMA PairLedger ==
  ASSUME NEW b, NEW d, NEW m, Pair(d, m, b) PROVE LedgerOK(d) /\ d.phase # "absent"
BY DEF Pair, LedgerOK

---------------------------------------------------------------------------
(* The same, for the engine's named steps on a run x. *)

LEMMA StepsOK ==
  ASSUME NEW b \in Builds, NEW x, PairOK(x, b)
  PROVE  /\ \A s \in Stages, h \in BOOLEAN :
              ~x.m.parked /\ ~x.m.exec => PairOK(HoldAt(x, s, h), b)
         /\ \A s \in Stages : ~x.m.parked /\ ~x.m.held => PairOK(EnterStage(x, s), b)
         /\ ~x.m.parked /\ ~x.m.held => PairOK(ExecuteStage(x), b)
         /\ PairOK(StampViolation(x), b)
         /\ x.m.wait = "none" /\ ~x.m.gate => PairOK(On(x.d, [x.m EXCEPT !.exec = FALSE]), b)
<1>1. Pair(x.d, x.m, b) BY DEF PairOK
<1>2. ASSUME NEW s \in Stages, NEW h \in BOOLEAN, ~x.m.parked, ~x.m.exec
      PROVE  PairOK(HoldAt(x, s, h), b)
  <2> DEFINE n == [Heard(x.m) EXCEPT !.held = TRUE, !.deferred = s, !.dresume = h]
  <2>1. Pair(Held(x.d, s, h), n, b) BY <1>1, <1>2, HeldOK
  <2>2. HoldAt(x, s, h) = On(Held(x.d, s, h), n) BY DEF HoldAt
  <2> HIDE DEF n
  <2>3. QED BY <2>1, <2>2, OnParts DEF PairOK
<1>3. ASSUME NEW s \in Stages, ~x.m.parked, ~x.m.held PROVE PairOK(EnterStage(x, s), b)
  <2> DEFINE n == [x.m EXCEPT !.stage = s, !.quiet = Append(@, s), !.exec = TRUE]
  <2>1. Pair(Entered(x.d, s), n, b) BY <1>1, <1>3, EnteredOK
  <2>2. EnterStage(x, s) = On(Entered(x.d, s), n) BY DEF EnterStage
  <2> HIDE DEF n
  <2>3. QED BY <2>1, <2>2, OnParts DEF PairOK
<1>4. ASSUME ~x.m.parked, ~x.m.held PROVE PairOK(ExecuteStage(x), b)
  BY <1>1, <1>4, ExecuteOK, OnParts DEF ExecuteStage, PairOK
<1>5. PairOK(StampViolation(x), b)
  BY <1>1, ViolatedOK, OnParts DEF StampViolation, PairOK
<1>6. ASSUME x.m.wait = "none", ~x.m.gate PROVE PairOK(On(x.d, [x.m EXCEPT !.exec = FALSE]), b)
  BY <1>1, <1>6, SettledOK, OnParts DEF PairOK
<1>7. QED BY <1>2, <1>3, <1>4, <1>5, <1>6

LEMMA ChainOK ==
  ASSUME NEW b \in Builds, NEW x, PairOK(x, b), NEW s \in Stages, NEW h \in BOOLEAN,
         ~x.m.parked, ~x.m.held, ~x.m.exec
  PROVE  PairOK(ChainStage(x, s, h), b)
<1>1. /\ PairOK(HoldAt(x, s, FALSE), b) /\ PairOK(EnterStage(x, s), b)
      /\ PairOK(StampViolation(x), b)
  BY StepsOK
<1>2. QED BY <1>1 DEF ChainStage

(* A release leaves a run that agrees with its ledger. *)
LEMMA ReleaseOneOK ==
  ASSUME NEW b \in Builds, NEW x, PairOK(x, b)
  PROVE  PairOK(ReleaseOne(x), b)
<1>1. Pair(x.d, x.m, b) BY DEF PairOK
<1>2. CASE ~x.m.held
  BY <1>1, <1>2, GateOK, OnParts DEF ReleaseOne, PairOK
<1>3. CASE x.m.held
  <2> DEFINE n == [Heard(x.m) EXCEPT !.held = FALSE, !.deferred = NoStage, !.dresume = FALSE]
             y == On(Released(x.d), n)
  <2>1. Pair(Released(x.d), n, b) BY <1>1, ReleasedOK
  <2>2. x.m \in Memory /\ x.m.deferred \in Stages /\ ~x.m.parked BY <1>1, <1>3 DEF Pair
  <2>3. ~n.parked /\ ~n.held BY <2>2 DEF Memory, Heard
  <2>5. ReleaseOne(x) = IF x.m.dresume THEN ExecuteStage(y) ELSE EnterStage(y, x.m.deferred)
    BY <1>3 DEF ReleaseOne
  <2> HIDE DEF n
  <2>4. PairOK(y, b) /\ ~y.m.parked /\ ~y.m.held BY <2>1, <2>3, OnParts DEF PairOK
  <2> HIDE DEF y
  <2>6. PairOK(ExecuteStage(y), b) /\ PairOK(EnterStage(y, x.m.deferred), b)
    BY <2>2, <2>4, StepsOK
  <2>7. QED BY <2>5, <2>6
<1>4. QED BY <1>2, <1>3

(* So does the resume of one open run, and every prefix of its lines. *)
LEMMA SendOnOK ==
  ASSUME NEW b \in Builds, NEW x, PairOK(x, b), NEW rd, NEW f \in Stages, NEW t \in Stages
  PROVE  LET y == SendOn(x, rd, f, t)
         IN  /\ PairOK(y, b) /\ y.m.stage = x.m.stage /\ y.m.deferred = x.m.deferred
             /\ y.d.stage = x.d.stage /\ y.d.deferred = x.d.deferred
             /\ y.m.held = x.m.held /\ y.m.parked = x.m.parked /\ y.m.exec = x.m.exec
             /\ y.m.violated = x.m.violated
<1> DEFINE y == SendOn(x, rd, f, t)
           z == On(Sent(x.d, f, t), Heard(x.m))
<1>1. Pair(x.d, x.m, b) BY DEF PairOK
<1>2. x.d \in Fold /\ x.m \in Memory BY <1>1 DEF Pair
<1>3. PairOK(z, b) BY <1>1, SentOK, OnParts DEF PairOK
<1>4. z.d = Sent(x.d, f, t) /\ z.m = Heard(x.m) BY OnParts
<1>5. Sent(x.d, f, t).stage = x.d.stage /\ Sent(x.d, f, t).deferred = x.d.deferred
  BY <1>2 DEF Sent, Line, Fold
<1> DEFINE h == Heard(x.m)
<1>6. /\ h.stage = x.m.stage /\ h.deferred = x.m.deferred
      /\ h.held = x.m.held /\ h.parked = x.m.parked
      /\ h.exec = x.m.exec /\ h.violated = x.m.violated
  BY <1>2 DEF Heard, Memory
<1>7. y = x \/ y = z BY DEF SendOn
<1> HIDE DEF y, z, h
<1>8. z.m = h BY <1>4 DEF h
<1>9. QED BY <1>3, <1>4, <1>5, <1>6, <1>7, <1>8 DEF y

LEMMA RenamedStepOK ==
  ASSUME NEW b \in Builds, NEW x, PairOK(x, b), NEW rd,
         x.m.stage = x.d.stage, x.m.deferred = x.d.deferred
  PROVE  LET y == Renamed(x, rd, b)
         IN  PairOK(y, b) /\ y.m.deferred = y.d.deferred /\ y.m.exec = x.m.exec
<1> DEFINE to == ResumeStage(b, x.m.stage)
           y == SendOn(x, rd, x.m.stage, to)
           n == [y.m EXCEPT !.stage = to]
           z == On(y.d, n)
<1>1. Pair(x.d, x.m, b) /\ x.m.stage \in Names
  BY DEF PairOK, Pair, Memory
<1>2. CASE to = NoStage BY <1>2 DEF Renamed
<1>3. CASE to # NoStage
  <2>1. to \in Stages BY <1>1, <1>3, ResumeStageOK
  <2>2. x.m.stage \in Stages
    BY <1>1, <1>3, EngineAssumption DEF ResumeStage, Names
  <2> HIDE DEF to
  <2>3. /\ PairOK(y, b) /\ y.m.stage = x.m.stage /\ y.m.deferred = x.m.deferred
        /\ y.d.stage = x.d.stage /\ y.d.deferred = x.d.deferred /\ y.m.exec = x.m.exec
    BY <2>1, <2>2, SendOnOK
  <2>4. Renamed(x, rd, b) = z BY <1>3 DEF Renamed, to
  <2>5. Pair(y.d, y.m, b) /\ y.m \in Memory BY <2>3 DEF PairOK, Pair
  <2>6. to = ResumeStage(b, y.d.stage) BY <2>3 DEF to
  <2> HIDE DEF y
  <2>7. Pair(y.d, n, b) BY <2>1, <2>5, <2>6, RenamedOK
  <2>8. n.deferred = y.m.deferred /\ n.exec = y.m.exec BY <2>5 DEF Memory
  <2>9. z.d = y.d /\ z.m = n BY OnParts
  <2>10. QED BY <2>3, <2>4, <2>7, <2>8, <2>9 DEF PairOK
<1>4. QED BY <1>2, <1>3

LEMMA ResumeStepOK ==
  ASSUME NEW b \in Builds, NEW x, PairOK(x, b), NEW rd, NEW h \in BOOLEAN,
         ~x.m.exec, x.m.deferred = x.d.deferred
  PROVE  PairOK(Resume(x, rd, b, h), b)
<1> DEFINE to == ResumeStage(b, x.m.deferred)
<1>1. Pair(x.d, x.m, b) /\ x.m.deferred \in Names BY DEF PairOK, Pair, Memory
<1>2. CASE x.m.parked \/ x.m.violated BY <1>2 DEF Resume
<1>3. CASE ~(x.m.parked \/ x.m.violated) /\ x.m.stage \notin b.stages
  BY <1>3, StepsOK DEF Resume
<1>4. CASE ~(x.m.parked \/ x.m.violated) /\ x.m.stage \in b.stages /\ x.m.held
  <2>1. CASE to = NoStage BY <1>4, <2>1, StepsOK DEF Resume
  <2>2. CASE to # NoStage
    <3> DEFINE y == SendOn(x, rd, x.m.deferred, to)
               n == [y.m EXCEPT !.deferred = to]
    <3>1. to \in Stages /\ x.m.deferred \in Stages
      BY <1>1, <1>4, <2>2, ResumeStageOK DEF Pair
    <3>2. Resume(x, rd, b, h) = On(y.d, n) BY <1>4, <2>2 DEF Resume
    <3> HIDE DEF to
    <3>3. PairOK(y, b) /\ y.m.deferred = x.m.deferred /\ y.d.deferred = x.d.deferred
      BY <3>1, SendOnOK
    <3>4. to = ResumeStage(b, y.d.deferred) BY <3>3 DEF to
    <3> HIDE DEF y
    <3>5. Pair(y.d, n, b) BY <3>1, <3>3, <3>4, RenamedOK DEF PairOK
    <3>6. QED BY <3>2, <3>5, OnParts DEF PairOK
  <2>3. QED BY <2>1, <2>2
<1>5. CASE ~(x.m.parked \/ x.m.violated) /\ x.m.stage \in b.stages /\ ~x.m.held
  <2>1. x.m.stage \in Stages BY <1>5, EngineAssumption
  <2>2. PairOK(HoldAt(x, x.m.stage, TRUE), b) /\ PairOK(EnterStage(x, x.m.stage), b)
    BY <1>5, <2>1, StepsOK
  <2>3. QED BY <1>5, <2>2 DEF Resume
<1>6. QED BY <1>2, <1>3, <1>4, <1>5

---------------------------------------------------------------------------
(* What the actions do to the invariant. *)

LEMMA PutOK ==
  ASSUME IInv, NEW r \in Runs, NEW x, PairOK(x, build), Alive, Put(r, x), UNCHANGED scopes
  PROVE  IInv'
<1>1. Pair(x.d, x.m, build) /\ x.d \in Fold /\ x.m \in Memory /\ x.m.live /\ x.d.phase = "open"
  BY DEF PairOK, Pair
<1>2. /\ led' = [led EXCEPT ![r] = x.d] /\ mem' = [mem EXCEPT ![r] = x.m]
      /\ mode' = mode /\ build' = build /\ starts' = starts /\ scopes' = scopes
  BY DEF Put, Daemon
<1>3. led \in [Runs -> Fold] /\ mem \in [Runs -> Memory] BY DEF IInv
<1>4. led' \in [Runs -> Fold] /\ mem' \in [Runs -> Memory] BY <1>1, <1>2, <1>3, Zenon
<1>5. led'[r] = x.d /\ mem'[r] = x.m BY <1>2, <1>3, Zenon
<1>6. \A q \in Runs \ {r} : led'[q] = led[q] /\ mem'[q] = mem[q] BY <1>2, <1>3, Zenon
<1>7. ASSUME NEW q \in Runs PROVE RunOK(q)'
  <2>1. CASE q = r
    <3>1. LedgerOK(x.d) BY <1>1, PairLedger
    <3>2. QED BY <1>1, <1>2, <1>5, <2>1, <3>1 DEF RunOK, Alive
  <2>2. CASE q # r
    <3>1. RunOK(q) BY DEF IInv
    <3>2. QED BY <1>2, <1>6, <2>2, <3>1 DEF RunOK, Alive
  <2>3. QED BY <2>1, <2>2
<1>8. QED BY <1>2, <1>4, <1>7 DEF IInv

LEMMA NotLiveOK == NotLive \in Memory /\ ~NotLive.live
<1>1. Silence \in Seq(Stages) BY DEF Silence
<1>2. AnyBlob \in Blobs BY EngineAssumption DEF AnyBlob
<1>3. NotLive = [live |-> FALSE, stage |-> NoStage, parked |-> FALSE, violated |-> FALSE,
            held |-> FALSE, deferred |-> NoStage, dresume |-> FALSE, own |-> FALSE,
            quiet |-> Silence, pin |-> AnyBlob, exec |-> FALSE, seats |-> 0,
            wait |-> "none", gate |-> FALSE]
  BY DEF NotLive, Silence
<1> HIDE DEF NotLive
<1>4. QED BY <1>1, <1>2, <1>3 DEF Memory, Names, WaitKinds

LEMMA NoLedgerOK == LedgerOK(NoLedger) /\ NoLedger.phase = "absent"
<1>1. Silence \in Seq(Stages) BY DEF Silence
<1>2. AnyBlob \in Blobs BY EngineAssumption DEF AnyBlob
<1> DEFINE none == <<>>
<1>3. none \in Seq(Stages \X Stages) OBVIOUS
<1>4. NoLedger = [phase |-> "absent", stage |-> NoStage, parked |-> FALSE, answers |-> 0,
             viol |-> 0, held |-> FALSE, deferred |-> NoStage, dresume |-> FALSE,
             own |-> FALSE, quiet |-> Silence, wait |-> "none", pin |-> AnyBlob,
             retired |-> none]
  BY DEF NoLedger, Silence
<1> HIDE DEF NoLedger, none
<1>5. QED BY <1>1, <1>2, <1>3, <1>4 DEF LedgerOK, Fold, Names, WaitKinds

(* A daemon that dies leaves the ledgers, whatever lines were cut. *)
LEMMA DeadOK ==
  ASSUME IInv, Dead, build' \in Builds, starts' \in 0..MaxStarts, scopes' \subseteq Scopes,
         led' \in [Runs -> Fold], \A q \in Runs : LedgerOK(led'[q])
  PROVE  IInv'
<1>1. mode' = "down" /\ mem' = [q \in Runs |-> NotLive] BY DEF Dead
<1> HIDE DEF NotLive
<1>2. mem' \in [Runs -> Memory] /\ \A q \in Runs : mem'[q] = NotLive BY <1>1, NotLiveOK
<1>3. \A q \in Runs : RunOK(q)' BY <1>1, <1>2, NotLiveOK DEF RunOK, Alive
<1>4. QED BY <1>1, <1>2, <1>3 DEF IInv

LEMMA LedgersOK ==
  ASSUME IInv PROVE \A q \in Runs : LedgerOK(led[q]) /\ led[q] \in Fold
BY DEF IInv, RunOK

LEMMA CutShortOK ==
  ASSUME IInv, NEW r \in Runs, NEW cut, \A d \in cut : LedgerOK(d),
         CutShort(r, cut), UNCHANGED scopes
  PROVE  IInv'
<1>1. PICK d \in cut : led' = [led EXCEPT ![r] = d] /\ Dies BY DEF CutShort
<1>2. LedgerOK(d) /\ d \in Fold BY DEF LedgerOK
<1>3. led \in [Runs -> Fold] BY DEF IInv
<1>4. led' \in [Runs -> Fold] BY <1>1, <1>2, <1>3, Zenon
<1>5. \A q \in Runs : LedgerOK(led'[q]) BY <1>1, <1>2, <1>3, LedgersOK
<1>6. Dead /\ build' = build /\ starts' = starts /\ scopes' = scopes BY <1>1 DEF Dies
<1>7. QED BY <1>4, <1>5, <1>6, DeadOK DEF IInv

LEMMA CutWalkOK ==
  ASSUME NEW from, NEW todo, NEW final, NEW cut, todo \subseteq Runs,
         \A q \in Runs : LedgerOK(from[q]),
         \A q \in todo : LedgerOK(final[q].d) /\ \A d \in cut[q] : LedgerOK(d),
         CutWalk(from, todo, final, cut)
  PROVE  led' \in [Runs -> Fold] /\ \A q \in Runs : LedgerOK(led'[q])
<1> DEFINE to(done, p, d) ==
             [r \in Runs |-> IF r = p THEN d ELSE IF r \in done THEN final[r].d ELSE from[r]]
<1>1. PICK done \in SUBSET todo : \E p \in todo \ done : \E d \in cut[p] : led' = to(done, p, d)
  BY Zenon DEF CutWalk
<1>2. PICK p \in todo \ done : \E d \in cut[p] : led' = to(done, p, d) BY <1>1
<1>3. PICK d \in cut[p] : led' = to(done, p, d) BY <1>2
<1>4. \A q \in Runs : LedgerOK(IF q = p THEN d ELSE IF q \in done THEN final[q].d ELSE from[q])
  OBVIOUS
<1>5. \A q \in Runs : LedgerOK(led'[q]) BY <1>3, <1>4
<1>6. QED BY <1>3, <1>4 DEF LedgerOK

(* A live run agrees with its ledger; a run that is not live is idle. *)
LEMMA LiveOK ==
  ASSUME IInv, NEW r \in Runs
  PROVE  /\ mem[r].live => PairOK(Of(r), build) /\ Pair(led[r], mem[r], build) /\ Alive
         /\ ~mem[r].live => mem[r] = NotLive /\ ~mem[r].exec /\ ~mem[r].parked
                            /\ ~mem[r].gate /\ mem[r].wait = "none" /\ mem[r].seats = 0
BY OnParts DEF IInv, RunOK, PairOK, Of, NotLive

LEMMA CloseRunOK ==
  ASSUME IInv, NEW r \in Runs, NEW d, LedgerOK(d), d.phase = "open", Alive,
         CloseRun(r, d)
  PROVE  IInv'
<1>1. UNCHANGED scopes BY DEF CloseRun
<1>2. LedgerOK(Line(d)) /\ LedgerOK(Closed(d)) BY LinesOK
<1>3. CASE CutShort(r, {d, Line(d)})
  <2>1. \A c \in {d, Line(d)} : LedgerOK(c) BY <1>2
  <2>2. QED BY <1>1, <1>3, <2>1, CutShortOK
<1>4. CASE Put(r, On(Closed(d), NotLive))
  <2> DEFINE c == Closed(d)
  <2>1. LedgerOK(c) /\ c \in Fold BY <1>2 DEF LedgerOK
  <2>2. c.phase = "closed"
    <3>1. d \in Fold BY DEF LedgerOK
    <3>2. QED BY <3>1 DEF Closed, Line, Fold
  <2>3. /\ led' = [led EXCEPT ![r] = c] /\ mem' = [mem EXCEPT ![r] = NotLive]
        /\ mode' = mode /\ build' = build /\ starts' = starts /\ scopes' = scopes
    BY <1>1, <1>4, OnParts DEF Put, Daemon
  <2> HIDE DEF c, NotLive
  <2>4. led \in [Runs -> Fold] /\ mem \in [Runs -> Memory] BY DEF IInv
  <2>5. led' \in [Runs -> Fold] /\ mem' \in [Runs -> Memory]
    BY <2>1, <2>3, <2>4, NotLiveOK, Zenon
  <2>6. led'[r] = c /\ mem'[r] = NotLive BY <2>3, <2>4, Zenon
  <2>7. \A q \in Runs \ {r} : led'[q] = led[q] /\ mem'[q] = mem[q] BY <2>3, <2>4, Zenon
  <2>8. ASSUME NEW q \in Runs PROVE RunOK(q)'
    <3>1. CASE q = r
      BY <2>1, <2>2, <2>3, <2>6, <3>1, NotLiveOK DEF RunOK, Alive
    <3>2. CASE q # r
      <4>1. RunOK(q) BY DEF IInv
      <4>2. QED BY <2>3, <2>7, <3>2, <4>1 DEF RunOK, Alive
    <3>3. QED BY <3>1, <3>2
  <2>9. QED BY <2>3, <2>5, <2>8 DEF IInv
<1>5. QED BY <1>3, <1>4 DEF CloseRun

---------------------------------------------------------------------------
(* Every step of a handler, a child and a wait keeps the invariant. *)
LEMMA HandlerOK ==
  ASSUME IInv, NEW r \in Runs,
         Handler(r) \/ SeatExit(r) \/ WaitEnd(r) \/ OtherLine(r)
  PROVE  IInv'
<1> DEFINE d == led[r]
           m == mem[r]
<1>1. build \in Builds /\ m \in Memory /\ d \in Fold BY DEF IInv
<1>2. m.live => Pair(d, m, build) /\ Alive BY LiveOK
<1>3. m.exec \/ m.parked \/ m.gate \/ m.wait # "none" \/ m.seats # 0 => m.live BY LiveOK
<1>4. Settled(r) = On(d, [m EXCEPT !.exec = FALSE]) BY DEF Settled
<1>5. ASSUME m.exec, m.wait = "none", ~m.gate
      PROVE  PairOK(Settled(r), build) /\ ~Settled(r).m.exec
             /\ ~Settled(r).m.parked /\ ~Settled(r).m.held
  <2>1. Pair(d, m, build) BY <1>2, <1>3, <1>5
  <2> DEFINE n == [m EXCEPT !.exec = FALSE]
  <2>2. Pair(d, n, build) BY <1>1, <2>1, <1>5, SettledOK
  <2>3. ~n.exec /\ n.parked = m.parked /\ n.held = m.held BY <1>1 DEF Memory
  <2>4. ~m.parked /\ ~m.held BY <2>1, <1>5 DEF Pair
  <2> HIDE DEF n, m, d
  <2>5. Settled(r) = On(d, n) BY <1>4 DEF n
  <2>6. QED BY <2>2, <2>3, <2>4, <2>5, OnParts DEF PairOK
<1> HIDE DEF d, m
<1>6. CASE OtherLine(r)
  <2>1. Pair(d, m, build) /\ Alive BY <1>2, <1>6 DEF OtherLine, m
  <2>2. m.seats \in Nat BY <1>1 DEF Memory
  <2>3. Pair(Line(d), [Heard(m) EXCEPT !.seats = m.seats], build) BY <1>1, <2>1, <2>2, SpokenOK
  <2>4. Heard(m) \in Memory /\ Heard(m).seats = m.seats BY <1>1, HeardMemory DEF Heard, Memory
  <2>5. [Heard(m) EXCEPT !.seats = m.seats] = Heard(m) BY <2>4 DEF Memory
  <2>6. PairOK(On(Line(d), Heard(m)), build) BY <2>3, <2>5, OnParts DEF PairOK
  <2>7. QED BY <1>6, <2>1, <2>6, PutOK DEF OtherLine, d, m
<1>7. CASE SeatStart(r) \/ SeatExit(r)
  <2>1. m.live BY <1>3, <1>7, <1>1 DEF SeatStart, SeatExit, Working, Running, m, Memory
  <2>2. Pair(d, m, build) /\ Alive BY <1>2, <2>1
  <2> DEFINE n(k) == [Heard(m) EXCEPT !.seats = k]
  <2>3. \A k \in Nat : PairOK(On(Line(d), n(k)), build)
    BY <1>1, <2>2, SpokenOK, OnParts DEF PairOK
  <2>4. Heard(m).seats = m.seats /\ m.seats \in Nat BY <1>1 DEF Heard, Memory
  <2>5. m.seats + 1 \in Nat /\ (m.seats > 0 => m.seats - 1 \in Nat) BY <2>4
  <2>6. \E k \in Nat : Put(r, On(Line(d), n(k)))
    <3>1. CASE SeatStart(r)
      <4>1. Put(r, On(Line(d), n(m.seats + 1))) BY <3>1, <2>4, Zenon DEF SeatStart, d, m
      <4>2. QED BY <4>1, <2>5
    <3>2. CASE SeatExit(r)
      <4>1. m.seats > 0 BY <3>2 DEF SeatExit, m
      <4>2. Put(r, On(Line(d), n(m.seats - 1))) BY <3>2, <2>4, Zenon DEF SeatExit, d, m
      <4>3. QED BY <4>1, <4>2, <2>5
    <3>3. QED BY <1>7, <3>1, <3>2
  <2> HIDE DEF n
  <2>7. PICK k \in Nat : Put(r, On(Line(d), n(k))) BY <2>6
  <2>8. UNCHANGED scopes BY <1>7 DEF SeatStart, SeatExit
  <2>9. QED BY <2>2, <2>3, <2>7, <2>8, PutOK
<1>8. ASSUME NEW k \in WaitKinds, WaitBegin(r, k) PROVE IInv'
  <2>1. m.exec BY <1>8 DEF WaitBegin, Working, Running, m
  <2>2. Pair(d, m, build) /\ Alive BY <2>1, <1>2, <1>3
  <2> DEFINE n == [Heard(m) EXCEPT !.wait = k]
  <2>3. Pair(WaitBegun(d, k), n, build) BY <1>1, <2>1, <2>2, WaitBegunOK
  <2>4. Put(r, On(WaitBegun(d, k), n)) /\ UNCHANGED scopes BY <1>8 DEF WaitBegin, d, m
  <2> HIDE DEF n
  <2>5. QED BY <2>2, <2>3, <2>4, PutOK, OnParts DEF PairOK
<1>9. CASE WaitEnd(r)
  <2>1. m.wait # "none" BY <1>9 DEF WaitEnd, m
  <2>2. Pair(d, m, build) /\ Alive BY <2>1, <1>2, <1>3
  <2> DEFINE g == IsHeld(r) /\ mode = "up"
             n == [Heard(m) EXCEPT !.wait = "none", !.gate = g]
  <2>3. g \in BOOLEAN OBVIOUS
  <2>4. Put(r, On(WaitEnded(d), n)) /\ UNCHANGED scopes BY <1>9 DEF WaitEnd, d, m
  <2> HIDE DEF g
  <2>5. Pair(WaitEnded(d), n, build) BY <1>1, <2>1, <2>2, <2>3, WaitEndedOK
  <2> HIDE DEF n
  <2>6. QED BY <2>2, <2>4, <2>5, PutOK, OnParts DEF PairOK
<1>10. ASSUME NEW s \in Stages, Advance(r, s) PROVE IInv'
  <2>1. m.exec /\ m.wait = "none" /\ ~m.gate /\ mode = "up"
    BY <1>10 DEF Advance, Returns, Working, Running, m
  <2>2. Alive BY <2>1 DEF Alive
  <2>3. Put(r, ChainStage(Settled(r), s, IsHeld(r))) /\ UNCHANGED scopes BY <1>10 DEF Advance
  <2>4. IsHeld(r) \in BOOLEAN
    <3>1. mem[r].own \in BOOLEAN BY <1>1 DEF Memory, m
    <3>2. QED BY <3>1 DEF IsHeld, RunHeld
  <2>5. PairOK(ChainStage(Settled(r), s, IsHeld(r)), build)
    BY <1>1, <1>5, <2>1, <2>4, ChainOK
  <2>6. QED BY <2>2, <2>3, <2>5, PutOK
<1>11. CASE Park(r)
  <2>1. m.exec /\ m.wait = "none" /\ ~m.gate /\ mode = "up" /\ m.stage \in build.stages
    BY <1>11 DEF Park, Returns, Working, Running, m
  <2>2. Alive BY <2>1 DEF Alive
  <2> DEFINE x == Settled(r)
             n == [Heard(x.m) EXCEPT !.parked = TRUE]
  <2>3. PairOK(x, build) /\ ~x.m.exec /\ ~x.m.held BY <1>5, <2>1
  <2>4. x.d = d /\ x.m.stage = m.stage BY <1>1, <1>4, OnParts DEF Memory
  <2>5. m.stage \in Stages BY <1>1, <2>1, EngineAssumption
  <2>6. d.stage \in Stages
    <3>1. m.stage \in {d.stage, ResumeStage(build, d.stage)}
      BY <1>2, <1>3, <2>1 DEF Pair
    <3>2. d.stage \notin Stages => ResumeStage(build, d.stage) = NoStage
      BY <1>1, EngineAssumption DEF ResumeStage
    <3>3. QED BY <3>1, <3>2, <2>5, EngineAssumption
  <2>7. Put(r, On(Parked(d), n)) /\ UNCHANGED scopes BY <1>11 DEF Park, d
  <2> HIDE DEF x
  <2>8. Pair(Parked(d), n, build)
    BY <1>1, <2>3, <2>4, <2>5, <2>6, ParkedOK DEF PairOK
  <2> HIDE DEF n
  <2>9. QED BY <2>2, <2>7, <2>8, PutOK, OnParts DEF PairOK
<1>12. CASE Fail(r)
  <2>1. m.exec /\ m.wait = "none" /\ ~m.gate /\ mode = "up"
    BY <1>12 DEF Fail, Running, m
  <2>2. Alive BY <2>1 DEF Alive
  <2>3. Put(r, StampViolation(Settled(r))) /\ UNCHANGED scopes BY <1>12 DEF Fail
  <2>4. PairOK(StampViolation(Settled(r)), build) BY <1>1, <1>5, <2>1, StepsOK
  <2>5. QED BY <2>2, <2>3, <2>4, PutOK
<1>13. CASE SettleDropped(r)
  <2>1. m.exec /\ m.wait = "none" /\ ~m.gate /\ mode = "stopping"
    BY <1>13 DEF SettleDropped, Running, m
  <2>2. Alive BY <2>1 DEF Alive
  <2>3. Put(r, Settled(r)) /\ UNCHANGED scopes BY <1>13 DEF SettleDropped
  <2>4. QED BY <1>5, <2>1, <2>2, <2>3, PutOK
<1>14. CASE Close(r)
  <2>1. m.exec BY <1>14 DEF Close, Returns, Working, Running, m
  <2>2. CloseRun(r, d) BY <1>14 DEF Close, d
  <2>3. LedgerOK(d) BY LedgersOK DEF d
  <2>4. Alive /\ d.phase = "open" BY <1>2, <1>3, <2>1 DEF Pair
  <2>5. QED BY <2>2, <2>3, <2>4, CloseRunOK
<1>15. QED BY <1>6, <1>7, <1>8, <1>9, <1>10, <1>11, <1>12, <1>13, <1>14 DEF Handler

---------------------------------------------------------------------------
(* So does every command of the operator on one run. *)
LEMMA OwnCommandOK ==
  ASSUME IInv, NEW r \in Runs,
         Kill(r) \/ Answer(r) \/ Resolve(r) \/ HoldRun(r) \/ \E b \in Blobs : Reconfigure(r, b)
  PROVE  IInv'
<1> DEFINE d == led[r]
           m == mem[r]
<1>1. build \in Builds /\ m \in Memory /\ d \in Fold BY DEF IInv
<1>2. m.live => Pair(d, m, build) /\ Alive BY LiveOK
<1>3. m.parked => m.live BY LiveOK
<1>4. LedgerOK(d) BY LedgersOK
<1>5. Of(r) = On(d, m) BY DEF Of
<1> HIDE DEF d, m
<1>6. CASE Kill(r)
  <2>1. Alive /\ CloseRun(r, Recovered(Of(r)).d) BY <1>6 DEF Kill
  <2>2. Recovered(Of(r)).d = d \/ Recovered(Of(r)).d = WaitEnded(d)
    BY <1>5, OnParts DEF Recovered
  <2>3. d.phase = "open" BY <1>2, <1>6 DEF Kill, Pair, m
  <2>4. LedgerOK(Recovered(Of(r)).d) BY <1>4, <2>2, <2>3, LinesOK
  <2>5. WaitEnded(d).phase = d.phase BY <1>1 DEF WaitEnded, Line, Fold
  <2>6. QED BY <2>1, <2>2, <2>3, <2>4, <2>5, CloseRunOK
<1>7. CASE Answer(r)
  <2> DEFINE n == [Heard(m) EXCEPT !.parked = FALSE]
             e == Resumed(Answered(d))
             y == On(e, n)
             cut == {Answered(d)} \cup IF IsHeld(r) THEN {y.d} ELSE {}
  <2>1. m.parked /\ Alive /\ UNCHANGED scopes BY <1>7 DEF Answer, m
  <2>2. Pair(d, m, build) BY <1>2, <1>3, <2>1
  <2>3. Pair(e, n, build) BY <1>1, <2>1, <2>2, AnsweredOK
  <2>4. ~m.exec /\ ~m.held /\ m.stage \in Stages BY <2>1, <2>2 DEF Pair
  <2>5. ~n.parked /\ ~n.held /\ ~n.exec BY <1>1, <2>4 DEF Memory, Heard
  <2>6. \/ Put(r, IF IsHeld(r) THEN HoldAt(y, m.stage, TRUE) ELSE ExecuteStage(y))
        \/ CutShort(r, cut)
    BY <1>7 DEF Answer, d, m
  <2>7. y.d = e BY OnParts
  <2>7a. d.phase # "absent" BY <2>2 DEF Pair
  <2>8. \A c \in cut : LedgerOK(c) BY <1>4, <2>7, <2>7a, LinesOK
  <2> HIDE DEF cut, n, e
  <2>9. PairOK(y, build) /\ ~y.m.parked /\ ~y.m.held /\ ~y.m.exec
    BY <2>3, <2>5, OnParts DEF PairOK
  <2> HIDE DEF y
  <2>10. PairOK(HoldAt(y, m.stage, TRUE), build) /\ PairOK(ExecuteStage(y), build)
    BY <1>1, <2>4, <2>9, StepsOK
  <2>11. CASE CutShort(r, cut) BY <2>1, <2>8, <2>11, CutShortOK
  <2>12. CASE Put(r, IF IsHeld(r) THEN HoldAt(y, m.stage, TRUE) ELSE ExecuteStage(y))
    BY <2>1, <2>10, <2>12, PutOK
  <2>13. QED BY <2>6, <2>11, <2>12
<1>8. CASE Resolve(r)
  <2> DEFINE e == Resolved(d)
             x == On(e, Heard(m))
             n == [x.m EXCEPT !.violated = FALSE]
             y == On(x.d, n)
             idle == ~x.m.parked /\ ~x.m.held /\ ~x.m.exec /\ x.m.seats = 0
  <2>1. m.live /\ Alive /\ d.viol > 0 /\ UNCHANGED scopes BY <1>8 DEF Resolve, d, m
  <2>2. Pair(d, m, build) BY <1>2, <2>1
  <2>3. /\ d.viol = 1 => Pair(e, [Heard(m) EXCEPT !.violated = FALSE], build)
        /\ d.viol > 1 => Pair(e, Heard(m), build)
    BY <1>1, <2>1, <2>2, ResolvedOK
  <2>4. Put(r, IF ~x.m.violated \/ x.d.viol > 0 THEN x ELSE IF idle THEN ExecuteStage(y) ELSE y)
    BY <1>8 DEF Resolve, d, m
  <2>5. x.d = e /\ x.m = Heard(m) BY OnParts
  <2>6. e.viol = d.viol - 1 /\ d.viol \in Nat BY <1>1, <2>1 DEF Resolved, Line, Fold
  <2>7. m.violated BY <2>1, <2>2 DEF Pair
  <2>8. Heard(m).violated BY <1>1, <2>7 DEF Heard, Memory
  <2>9. n = [Heard(m) EXCEPT !.violated = FALSE] BY <2>5
  <2>10. n.parked = x.m.parked /\ n.held = x.m.held
    BY <1>1, <2>5, <2>9 DEF Heard, Memory
  <2> HIDE DEF e, n, x
  <2>11. d.viol > 1 => PairOK(x, build) BY <2>3, <2>5 DEF PairOK
  <2>12. d.viol = 1 => PairOK(y, build) BY <2>3, <2>5, <2>9, OnParts DEF PairOK
  <2>13. y.m = n BY OnParts
  <2> HIDE DEF y
  <2>14. d.viol = 1 /\ idle => PairOK(ExecuteStage(y), build)
    BY <1>1, <2>10, <2>12, <2>13, StepsOK
  <2>15. d.viol > 1 \/ d.viol = 1 BY <2>1, <2>6
  <2>16. x.d.viol > 0 <=> d.viol > 1 BY <2>5, <2>6
  <2> HIDE DEF idle
  <2>17. \E z : PairOK(z, build) /\ Put(r, z)
    BY <2>4, <2>5, <2>8, <2>11, <2>12, <2>14, <2>15, <2>16
  <2>18. QED BY <2>1, <2>17, PutOK
<1>9. CASE HoldRun(r)
  <2> DEFINE n == [Heard(m) EXCEPT !.own = TRUE]
  <2>1. m.live /\ UNCHANGED scopes BY <1>9 DEF HoldRun, m
  <2>2. Pair(HoldChanged(d, TRUE), n, build) BY <1>1, <1>2, <2>1, HoldChangedOK
  <2>3. Put(r, On(HoldChanged(d, TRUE), n)) BY <1>9 DEF HoldRun, d, m
  <2> HIDE DEF n
  <2>4. PairOK(On(HoldChanged(d, TRUE), n), build) BY <2>2, OnParts DEF PairOK
  <2>5. QED BY <1>2, <2>1, <2>3, <2>4, PutOK
<1>10. ASSUME NEW b \in Blobs, Reconfigure(r, b) PROVE IInv'
  <2> DEFINE n == [Heard(m) EXCEPT !.pin = b]
  <2>1. m.live /\ UNCHANGED scopes BY <1>10 DEF Reconfigure, m
  <2>2. Pair(Repinned(d, b), n, build) BY <1>1, <1>2, <2>1, RepinnedOK
  <2>3. Put(r, On(Repinned(d, b), n)) BY <1>10 DEF Reconfigure, d, m
  <2> HIDE DEF n
  <2>4. PairOK(On(Repinned(d, b), n), build) BY <2>2, OnParts DEF PairOK
  <2>5. QED BY <1>2, <2>1, <2>3, <2>4, PutOK
<1>11. QED BY <1>6, <1>7, <1>8, <1>9, <1>10

(* A release walks the held runs, and a crash may stop the walk part-way. *)
LEMMA ReleaseHeldRunsOK ==
  ASSUME IInv, NEW now \in [Runs -> [d : Fold, m : Memory]], NEW sc, Alive,
         \A q \in Runs : /\ LedgerOK(now[q].d)
                         /\ now[q].m.live <=> now[q].d.phase = "open"
                         /\ IF now[q].m.live THEN PairOK(now[q], build)
                            ELSE now[q].m = NotLive,
         ReleaseHeldRuns(now, sc), scopes' \subseteq Scopes
  PROVE  IInv'
<1> DEFINE todo == {r \in Runs : /\ now[r].m.live /\ (now[r].m.held \/ now[r].m.gate)
                                 /\ ~RunHeld(now[r].m.own, ProjectOf[r], sc)}
           from == [r \in Runs |-> now[r].d]
           final == [r \in Runs |-> ReleaseOne(now[r])]
           cut == [r \in Runs |-> {now[r].d} \cup
                                  IF now[r].m.held THEN {Released(now[r].d)} ELSE {}]
<1>1. build \in Builds BY DEF IInv
<1>2. todo \subseteq Runs /\ \A q \in todo : now[q].m.live OBVIOUS
<1>3. ASSUME NEW q \in Runs, q \in todo PROVE PairOK(final[q], build)
  <2>1. PairOK(now[q], build) BY <1>2, <1>3
  <2>2. PairOK(ReleaseOne(now[q]), build) BY <1>1, <2>1, ReleaseOneOK
  <2>3. QED BY <2>2
<1>4. \A q \in Runs : from[q] = now[q].d OBVIOUS
<1>5. \A q \in Runs : \A c \in cut[q] : c = now[q].d \/ c = Released(now[q].d) OBVIOUS
<1>6. \/ /\ led' = [r \in Runs |-> IF r \in todo THEN final[r].d ELSE from[r]]
         /\ mem' = [r \in Runs |-> IF r \in todo THEN final[r].m ELSE now[r].m]
         /\ UNCHANGED Daemon
      \/ CutWalk(from, todo, final, cut) /\ Dies
  BY DEF ReleaseHeldRuns
<1> HIDE DEF todo, from, final, cut
<1>7. CASE CutWalk(from, todo, final, cut) /\ Dies
  <2>1. \A q \in Runs : LedgerOK(from[q]) BY <1>4
  <2>2. \A q \in todo : LedgerOK(final[q].d) BY <1>2, <1>3, PairLedger DEF PairOK
  <2>3. \A q \in todo : \A c \in cut[q] : LedgerOK(c)
    <3> TAKE q \in todo
    <3>1. LedgerOK(now[q].d) BY <1>2
    <3>2. now[q].d.phase # "absent" BY <1>2
    <3>2a. LedgerOK(Released(now[q].d)) BY <3>1, <3>2, LinesOK
    <3>3. QED BY <1>2, <1>5, <3>1, <3>2a
  <2>4. led' \in [Runs -> Fold] /\ \A q \in Runs : LedgerOK(led'[q])
    BY <1>2, <1>7, <2>1, <2>2, <2>3, CutWalkOK
  <2>5. Dead /\ build' \in Builds /\ starts' \in 0..MaxStarts BY <1>7 DEF Dies, IInv
  <2>6. QED BY <2>4, <2>5, DeadOK
<1>8. CASE /\ led' = [r \in Runs |-> IF r \in todo THEN final[r].d ELSE from[r]]
           /\ mem' = [r \in Runs |-> IF r \in todo THEN final[r].m ELSE now[r].m]
           /\ UNCHANGED Daemon
  <2>1. mode' = mode /\ build' = build /\ starts' = starts BY <1>8 DEF Daemon
  <2>2. ASSUME NEW q \in Runs
        PROVE  led'[q] \in Fold /\ mem'[q] \in Memory /\ RunOK(q)'
    <3>1. CASE q \in todo
      <4>1. led'[q] = final[q].d /\ mem'[q] = final[q].m BY <1>8, <3>1
      <4>2. Pair(led'[q], mem'[q], build) BY <1>3, <3>1, <4>1 DEF PairOK
      <4>3. LedgerOK(led'[q]) BY <4>2, PairLedger
      <4>4. led'[q] \in Fold /\ mem'[q] \in Memory /\ mem'[q].live /\ led'[q].phase = "open"
        BY <4>2 DEF Pair
      <4>5. QED BY <2>1, <4>2, <4>3, <4>4 DEF RunOK, Alive
    <3>2. CASE q \notin todo
      <4>1. led'[q] = now[q].d /\ mem'[q] = now[q].m BY <1>4, <1>8, <3>2
      <4>2. now[q].d \in Fold /\ now[q].m \in Memory OBVIOUS
      <4>3. now[q].m.live => Pair(now[q].d, now[q].m, build) BY DEF PairOK
      <4>4. QED BY <2>1, <4>1, <4>2, <4>3 DEF RunOK, Alive
    <3>3. QED BY <3>1, <3>2
  <2>3. led' \in [Runs -> Fold] /\ mem' \in [Runs -> Memory] BY <1>8, <2>2
  <2>4. QED BY <2>1, <2>2, <2>3 DEF IInv
<1>9. QED BY <1>6, <1>7, <1>8

LEMMA ReleaseOK ==
  ASSUME IInv, (\E s \in Scopes : ReleaseScope(s)) \/ (\E r \in Runs : ReleaseRun(r))
  PROVE  IInv'
<1> DEFINE now == [q \in Runs |-> Of(q)]
           Good(f) == /\ f \in [Runs -> [d : Fold, m : Memory]]
                      /\ \A q \in Runs : /\ LedgerOK(f[q].d)
                                         /\ f[q].m.live <=> f[q].d.phase = "open"
                                         /\ IF f[q].m.live THEN PairOK(f[q], build)
                                            ELSE f[q].m = NotLive
<1>1. Alive BY DEF ReleaseScope, ReleaseRun
<1>2. \A q \in Runs : now[q] = On(led[q], mem[q]) /\ now[q].d = led[q] /\ now[q].m = mem[q]
  BY DEF Of, On
<1>3. \A q \in Runs : led[q] \in Fold /\ mem[q] \in Memory /\ RunOK(q) BY DEF IInv
<1>4. \A q \in Runs : now[q] \in [d : Fold, m : Memory] BY <1>3 DEF Of, On
<1>5. Good(now)
  <2>1. now \in [Runs -> [d : Fold, m : Memory]] BY <1>4
  <2> HIDE DEF now, NotLive
  <2>2. QED BY <1>1, <1>2, <1>3, <2>1 DEF RunOK, PairOK
<1>6. ASSUME NEW s \in Scopes, ReleaseScope(s) PROVE IInv'
  <2>1. scopes' \subseteq Scopes /\ ReleaseHeldRuns(now, scopes')
    BY <1>6 DEF ReleaseScope, IInv
  <2> DEFINE sc == scopes'
  <2>2. ReleaseHeldRuns(now, sc) BY <2>1
  <2> HIDE DEF now, sc
  <2>3. QED BY <1>1, <1>5, <2>1, <2>2, ReleaseHeldRunsOK
<1>7. ASSUME NEW r \in Runs, ReleaseRun(r) PROVE IInv'
  <2> DEFINE e == HoldChanged(led[r], FALSE)
             n == [Heard(mem[r]) EXCEPT !.own = FALSE]
             x == IF ~mem[r].own THEN Of(r) ELSE On(e, n)
             f == [now EXCEPT ![r] = x]
  <2>1. mem[r].live /\ scopes' = scopes /\ ReleaseHeldRuns(f, scopes)
    BY <1>7 DEF ReleaseRun
  <2>2. Pair(led[r], mem[r], build) /\ build \in Builds BY <2>1, LiveOK DEF IInv
  <2>3. Pair(e, n, build) BY <2>2, HoldChangedOK
  <2>4. e \in Fold /\ n \in Memory /\ n.live /\ e.phase = "open" /\ LedgerOK(e)
    BY <2>3, PairLedger DEF Pair
  <2> HIDE DEF e, n
  <2>5. On(e, n).d = e /\ On(e, n).m = n /\ On(e, n) \in [d : Fold, m : Memory]
    BY <2>4 DEF On
  <2>6. Of(r) = now[r] OBVIOUS
  <2>7. x = now[r] \/ x = On(e, n) BY <2>6
  <2> HIDE DEF x, now
  <2>8. f = [now EXCEPT ![r] = x] OBVIOUS
  <2> HIDE DEF f
  <2>9. now \in [Runs -> [d : Fold, m : Memory]] BY <1>5
  <2>10. x \in [d : Fold, m : Memory] BY <2>5, <2>7, <2>9
  <2>11. f \in [Runs -> [d : Fold, m : Memory]] /\ f[r] = x
         /\ \A q \in Runs \ {r} : f[q] = now[q]
    BY <2>8, <2>9, <2>10, Zenon
  <2>12. ASSUME NEW q \in Runs
         PROVE  /\ LedgerOK(f[q].d) /\ (f[q].m.live <=> f[q].d.phase = "open")
                /\ IF f[q].m.live THEN PairOK(f[q], build) ELSE f[q].m = NotLive
    <3>1. CASE q = r /\ x = On(e, n)
      BY <2>3, <2>4, <2>5, <2>11, <3>1 DEF PairOK
    <3>2. CASE f[q] = now[q]
      <4> HIDE DEF NotLive
      <4>1. QED BY <1>5, <3>2
    <3>3. QED BY <2>7, <2>11, <3>1, <3>2
  <2> HIDE DEF NotLive
  <2>13. scopes' \subseteq Scopes BY <2>1 DEF IInv
  <2>14. QED BY <1>1, <2>1, <2>11, <2>12, <2>13, ReleaseHeldRunsOK
<1>8. QED BY <1>6, <1>7

---------------------------------------------------------------------------
(* A launch, and the daemon's own life. *)
LEMMA LaunchOK ==
  ASSUME IInv, NEW r \in Runs, NEW k \in Blobs, Launch(r, k)
  PROVE  IInv'
<1> DEFINE d == Launched(led[r], k)
           n == [NotLive EXCEPT !.live = TRUE, !.pin = k]
           x == On(d, n)
<1>1. /\ mode = "up" /\ led[r].phase = "absent" /\ UNCHANGED scopes
      /\ Put(r, EnterStage(x, build.first)) \/ CutShort(r, {x.d})
  BY DEF Launch
<1>2. build \in Builds /\ Alive BY <1>1 DEF IInv, Alive
<1>3. build.first \in Stages BY <1>2, EngineAssumption
<1>4. led[r] = NoLedger BY <1>1, LedgersOK DEF LedgerOK
<1>5. d \in Fold /\ n \in Memory
  <2>1. d \in Fold BY LedgersOK, LineFold
  <2> HIDE DEF NotLive
  <2>2. n \in Memory BY NotLiveOK DEF Memory
  <2>3. QED BY <2>1, <2>2
<1>6. /\ n.live /\ n.stage = NoStage /\ ~n.parked /\ ~n.violated /\ ~n.held
      /\ n.deferred = NoStage /\ ~n.dresume /\ ~n.own /\ n.quiet = Silence
      /\ n.pin = k /\ ~n.exec /\ n.wait = "none" /\ ~n.gate
  BY DEF NotLive, Silence
<1>7. /\ d.phase = "open" /\ d.stage = NoStage /\ ~d.parked /\ d.viol = 0 /\ ~d.held
      /\ d.deferred = NoStage /\ ~d.dresume /\ ~d.own /\ d.quiet = Silence
      /\ d.pin = k /\ d.wait = "none"
  BY <1>4 DEF NoLedger, Launched, Line
<1>8. d.parked \in BOOLEAN /\ d.held \in BOOLEAN /\ d.dresume \in BOOLEAN /\ d.own \in BOOLEAN
      /\ n.parked \in BOOLEAN /\ n.violated \in BOOLEAN /\ n.held \in BOOLEAN
      /\ n.dresume \in BOOLEAN /\ n.own \in BOOLEAN
  BY <1>5 DEF Fold, Memory
<1> HIDE DEF d, n
<1>9. Pair(d, n, build)
  <2>1. n.violated = (d.viol > 0) BY <1>6, <1>7, <1>8
  <2>2. QED BY <1>5, <1>6, <1>7, <1>8, <2>1 DEF Pair
<1>10. PairOK(x, build) /\ ~x.m.parked /\ ~x.m.held /\ x.d = d
  BY <1>6, <1>9, OnParts DEF PairOK
<1> HIDE DEF x
<1>11. CASE Put(r, EnterStage(x, build.first))
  <2>1. PairOK(EnterStage(x, build.first), build) BY <1>2, <1>3, <1>10, StepsOK
  <2>2. QED BY <1>1, <1>2, <1>11, <2>1, PutOK
<1>12. CASE CutShort(r, {x.d})
  <2>1. \A c \in {x.d} : LedgerOK(c) BY <1>9, <1>10, PairLedger
  <2>2. QED BY <1>1, <1>12, <2>1, CutShortOK
<1>13. QED BY <1>1, <1>11, <1>12

LEMMA StopBeginOK ==
  ASSUME IInv, StopBegin PROVE IInv'
<1> DEFINE todo == {r \in Runs : mem[r].live /\ (mem[r].wait # "none" \/ mem[r].gate)}
           e(r) == Recovered(Of(r)).d
           n(r) == [Recovered(Of(r)).m EXCEPT !.wait = "none", !.gate = FALSE]
           final == [r \in Runs |-> On(e(r), n(r))]
           cut == [r \in Runs |-> {led[r]}]
<1>1. mode = "up" /\ Alive /\ build \in Builds /\ scopes' = scopes /\ scopes \subseteq Scopes
  BY DEF StopBegin, IInv, Alive
<1>2. \/ /\ led' = [r \in Runs |-> IF r \in todo THEN final[r].d ELSE led[r]]
         /\ \/ Dies
            \/ /\ mode' = "stopping" /\ UNCHANGED <<build, starts>>
               /\ mem' = [r \in Runs |-> IF r \in todo THEN final[r].m ELSE mem[r]]
      \/ CutWalk(led, todo, final, cut) /\ Dies
  BY DEF StopBegin
<1>3. todo \subseteq Runs OBVIOUS
<1>4. ASSUME NEW q \in todo PROVE Pair(final[q].d, final[q].m, build)
  <2>1. q \in Runs /\ mem[q].live OBVIOUS
  <2>2. Pair(led[q], mem[q], build) /\ mem[q] \in Memory /\ led[q].wait = mem[q].wait
    BY <2>1, LiveOK DEF Pair
  <2>3. final[q].d = e(q) /\ final[q].m = n(q) BY <2>1, OnParts
  <2>4. CASE mem[q].wait = "none"
    <3>1. e(q) = led[q] /\ Recovered(Of(q)).m = mem[q]
      BY <2>2, <2>4, OnParts DEF Recovered, Of
    <3>2. n(q) = [mem[q] EXCEPT !.wait = "none", !.gate = FALSE] BY <3>1
    <3>3. n(q) = [mem[q] EXCEPT !.gate = FALSE] BY <2>2, <2>4, <3>2 DEF Memory
    <3>4. Pair(led[q], [mem[q] EXCEPT !.gate = FALSE], build) BY <1>1, <2>2, GateOK
    <3>5. QED BY <2>3, <3>1, <3>3, <3>4
  <2>5. CASE mem[q].wait # "none"
    <3>1. e(q) = WaitEnded(led[q]) /\ Recovered(Of(q)).m = Heard(mem[q])
      BY <2>2, <2>5, OnParts DEF Recovered, Of
    <3>2. Pair(WaitEnded(led[q]), [Heard(mem[q]) EXCEPT !.wait = "none", !.gate = FALSE], build)
      BY <1>1, <2>2, <2>5, WaitEndedOK
    <3>3. n(q) = [Heard(mem[q]) EXCEPT !.wait = "none", !.gate = FALSE] BY <3>1
    <3>4. QED BY <2>3, <3>1, <3>2, <3>3
  <2>6. QED BY <2>4, <2>5
<1>5. \A q \in todo : LedgerOK(final[q].d) /\ final[q].d \in Fold /\ final[q].m \in Memory
  BY <1>4, PairLedger DEF Pair
<1>6. \A q \in todo : \A c \in cut[q] : LedgerOK(c) BY LedgersOK
<1>7. led \in [Runs -> Fold] /\ mem \in [Runs -> Memory] /\ starts \in 0..MaxStarts BY DEF IInv
<1> HIDE DEF todo, final, cut
<1>8. CASE CutWalk(led, todo, final, cut) /\ Dies
  <2>1. led' \in [Runs -> Fold] /\ \A q \in Runs : LedgerOK(led'[q])
    BY <1>3, <1>5, <1>6, <1>8, LedgersOK, CutWalkOK
  <2>2. QED BY <1>1, <1>7, <1>8, <2>1, DeadOK DEF Dies
<1>9. ASSUME led' = [r \in Runs |-> IF r \in todo THEN final[r].d ELSE led[r]]
      PROVE  led' \in [Runs -> Fold] /\ \A q \in Runs : LedgerOK(led'[q])
  BY <1>5, <1>7, <1>9, LedgersOK
<1>10. CASE led' = [r \in Runs |-> IF r \in todo THEN final[r].d ELSE led[r]] /\ Dies
  BY <1>1, <1>7, <1>9, <1>10, DeadOK DEF Dies
<1>11. CASE /\ led' = [r \in Runs |-> IF r \in todo THEN final[r].d ELSE led[r]]
            /\ mode' = "stopping" /\ UNCHANGED <<build, starts>>
            /\ mem' = [r \in Runs |-> IF r \in todo THEN final[r].m ELSE mem[r]]
  <2>1. ASSUME NEW q \in Runs PROVE RunOK(q)' /\ mem'[q] \in Memory
    <3>1. CASE q \in todo
      <4>1. led'[q] = final[q].d /\ mem'[q] = final[q].m BY <1>11, <3>1
      <4>2. Pair(led'[q], mem'[q], build) /\ LedgerOK(led'[q]) BY <1>4, <1>5, <3>1, <4>1
      <4>3. mem'[q].live /\ led'[q].phase = "open" /\ mem'[q] \in Memory BY <4>2 DEF Pair
      <4>4. QED BY <1>11, <4>2, <4>3 DEF RunOK, Alive
    <3>2. CASE q \notin todo
      <4>1. led'[q] = led[q] /\ mem'[q] = mem[q] BY <1>11, <3>2
      <4>2. RunOK(q) BY DEF IInv
      <4>3. QED BY <1>1, <1>7, <1>11, <4>1, <4>2 DEF RunOK, Alive
    <3>3. QED BY <3>1, <3>2
  <2>2. mem' \in [Runs -> Memory] BY <1>11, <2>1
  <2>3. QED BY <1>1, <1>7, <1>9, <1>11, <2>1, <2>2 DEF IInv
<1>12. QED BY <1>2, <1>8, <1>10, <1>11

(* What a start makes of one open run agrees with its ledger, at every append. *)
LEMMA ResumeOneOK ==
  ASSUME IInv, NEW q \in Runs, NEW b \in Builds, led[q].phase = "open"
  PROVE  /\ PairOK(Replayed(q), b) /\ PairOK(Renamed(Replayed(q), led[q], b), b)
         /\ PairOK(ResumeOne(q, b), b)
<1> DEFINE x == Replayed(q)
           y == Renamed(x, led[q], b)
           h == RunHeld(led[q].own, ProjectOf[q], scopes)
<1>1. LedgerOK(led[q]) BY LedgersOK
<1>2. PairOK(x, b) /\ x.m.stage = x.d.stage /\ x.m.deferred = x.d.deferred /\ ~x.m.exec
  BY <1>1, ReplayedOK DEF Replayed
<1> HIDE DEF x
<1>3. PairOK(y, b) /\ y.m.deferred = y.d.deferred /\ ~y.m.exec BY <1>2, RenamedStepOK
<1>4. h \in BOOLEAN
  <2>1. led[q].own \in BOOLEAN BY <1>1 DEF LedgerOK, Fold
  <2>2. QED BY <2>1 DEF RunHeld
<1>5. ResumeOne(q, b) = Resume(y, led[q], b, h) BY DEF ResumeOne, x
<1> HIDE DEF y, h
<1>6. PairOK(ResumeOne(q, b), b) BY <1>3, <1>4, <1>5, ResumeStepOK
<1>7. QED BY <1>2, <1>3, <1>6 DEF x, y

LEMMA StartOK ==
  ASSUME IInv, NEW b \in Builds, Start(b) PROVE IInv'
<1> DEFINE todo == {r \in Runs : led[r].phase = "open"}
           final == [r \in Runs |-> ResumeOne(r, b)]
           cut == [r \in Runs |-> {led[r], Replayed(r).d, Renamed(Replayed(r), led[r], b).d}]
<1>1. /\ mode = "down" /\ starts < MaxStarts /\ build' = b /\ starts' = starts + 1
      /\ scopes' = scopes /\ scopes \subseteq Scopes
  BY DEF Start, IInv
<1>2. starts' \in 0..MaxStarts BY <1>1, EngineAssumption DEF IInv
<1>3. \/ /\ led' = [r \in Runs |-> IF r \in todo THEN final[r].d ELSE led[r]]
         /\ mem' = [r \in Runs |-> IF r \in todo THEN final[r].m ELSE NotLive]
         /\ mode' = "up"
      \/ CutWalk(led, todo, final, cut) /\ Dead
  BY DEF Start
<1>4. todo \subseteq Runs OBVIOUS
<1>5. ASSUME NEW q \in todo
      PROVE  /\ PairOK(Replayed(q), b) /\ PairOK(Renamed(Replayed(q), led[q], b), b)
             /\ PairOK(ResumeOne(q, b), b)
  BY <1>4, ResumeOneOK
<1>6. \A q \in todo : /\ final[q] = ResumeOne(q, b) /\ LedgerOK(final[q].d)
                      /\ Pair(final[q].d, final[q].m, b)
  BY <1>4, <1>5, PairLedger DEF PairOK
<1>7. \A q \in todo : \A c \in cut[q] : LedgerOK(c)
  <2> TAKE q \in todo
  <2>1. LedgerOK(led[q]) /\ LedgerOK(Replayed(q).d)
        /\ LedgerOK(Renamed(Replayed(q), led[q], b).d)
    BY <1>4, <1>5, LedgersOK, PairLedger DEF PairOK
  <2>2. QED BY <1>4, <2>1
<1>8. led \in [Runs -> Fold] BY DEF IInv
<1>9. \A q \in Runs \ todo : led[q].phase # "open" OBVIOUS
<1> HIDE DEF todo, final, cut, NotLive
<1>10. CASE CutWalk(led, todo, final, cut) /\ Dead
  <2>1. led' \in [Runs -> Fold] /\ \A q \in Runs : LedgerOK(led'[q])
    BY <1>4, <1>6, <1>7, <1>10, LedgersOK, CutWalkOK
  <2>2. QED BY <1>1, <1>2, <1>10, <2>1, DeadOK
<1>11. CASE /\ led' = [r \in Runs |-> IF r \in todo THEN final[r].d ELSE led[r]]
            /\ mem' = [r \in Runs |-> IF r \in todo THEN final[r].m ELSE NotLive]
            /\ mode' = "up"
  <2>1. ASSUME NEW q \in Runs
        PROVE  RunOK(q)' /\ mem'[q] \in Memory /\ led'[q] \in Fold
    <3>1. CASE q \in todo
      <4>1. led'[q] = final[q].d /\ mem'[q] = final[q].m BY <1>11, <3>1
      <4>2. Pair(led'[q], mem'[q], b) /\ LedgerOK(led'[q]) BY <1>6, <3>1, <4>1
      <4>3. mem'[q].live /\ led'[q].phase = "open" /\ mem'[q] \in Memory /\ led'[q] \in Fold
        BY <4>2 DEF Pair
      <4>4. QED BY <1>1, <1>11, <4>2, <4>3 DEF RunOK, Alive
    <3>2. CASE q \notin todo
      <4>1. led'[q] = led[q] /\ mem'[q] = NotLive BY <1>11, <3>2
      <4>2. QED BY <1>8, <1>9, <1>11, <3>2, <4>1, LedgersOK, NotLiveOK DEF RunOK, Alive
    <3>3. QED BY <3>1, <3>2
  <2>2. led' \in [Runs -> Fold] /\ mem' \in [Runs -> Memory] BY <1>11, <2>1
  <2>3. QED BY <1>1, <1>2, <1>11, <2>1, <2>2 DEF IInv
<1>12. QED BY <1>3, <1>10, <1>11

---------------------------------------------------------------------------
LEMMA InitOK == Init => IInv
<1> SUFFICES ASSUME Init PROVE IInv OBVIOUS
<1> USE DEF Init
<1>1. scopes \subseteq Scopes /\ starts \in 0..MaxStarts BY EngineAssumption
<1> HIDE DEF NotLive, NoLedger
<1>2. LedgerOK(NoLedger) /\ NoLedger \in Fold /\ NoLedger.phase # "open"
  BY NoLedgerOK DEF LedgerOK
<1>3. \A r \in Runs : RunOK(r) BY <1>2, NotLiveOK DEF RunOK
<1>4. QED BY <1>1, <1>2, <1>3, NotLiveOK DEF IInv

LEMMA NextOK == IInv /\ [Next]_vars => IInv'
<1> SUFFICES ASSUME IInv, [Next]_vars PROVE IInv' OBVIOUS
<1>1. CASE UNCHANGED vars BY <1>1 DEF vars, IInv, RunOK, Alive
<1>2. CASE \E r \in Runs, b \in Blobs : Launch(r, b) BY <1>2, LaunchOK
<1>3. CASE \E r \in Runs : Handler(r) \/ SeatExit(r) \/ WaitEnd(r) \/ OtherLine(r)
  BY <1>3, HandlerOK
<1>4. CASE \E r \in Runs : Command(r) BY <1>4, OwnCommandOK, ReleaseOK DEF Command
<1>5. CASE \E s \in Scopes : HoldScope(s)
  <2>1. /\ led' = led /\ mem' = mem /\ mode' = mode /\ build' = build /\ starts' = starts
        /\ scopes' \subseteq Scopes
    BY <1>5 DEF HoldScope, IInv
  <2>2. QED BY <2>1 DEF IInv, RunOK, Alive
<1>6. CASE \E s \in Scopes : ReleaseScope(s) BY <1>6, ReleaseOK
<1>7. CASE StopBegin BY <1>7, StopBeginOK
<1>8. CASE StopEnd \/ Crash
  <2>1. Dead /\ build' = build /\ starts' = starts /\ scopes' = scopes /\ led' = led
    BY <1>8 DEF StopEnd, Crash, Dies
  <2>2. led' \in [Runs -> Fold] /\ \A q \in Runs : LedgerOK(led'[q])
    BY <2>1, LedgersOK DEF IInv
  <2>3. QED BY <2>1, <2>2, DeadOK DEF IInv
<1>9. CASE \E b \in Builds : Start(b) BY <1>9, StartOK
<1>10. QED
  BY <1>1, <1>2, <1>3, <1>4, <1>5, <1>6, <1>7, <1>8, <1>9 DEF Next

(* Every variable of the engine keeps its type, whatever builds, runs and      *)
(* bounds the daemon is given (engine.mjs, every command and every crash).     *)
THEOREM TypeCorrect == Spec => []TypeOK
<1>1. IInv => TypeOK BY DEF IInv, TypeOK
<1>2. QED BY <1>1, InitOK, NextOK, PTL DEF Spec

(* What the engine remembers of a run is always what a restart would read back *)
(* from its ledger: trackRun, onAppend and deriveRunState never part.          *)
THEOREM MemoryFollowsLedger == Spec => []MemoryAgrees
<1>1. IInv => MemoryAgrees
  <2> SUFFICES ASSUME IInv, NEW r \in Runs
               PROVE  /\ mem[r].live <=> (Alive /\ led[r].phase = "open")
                      /\ mem[r].live => Agrees(r)
    BY DEF MemoryAgrees
  <2>1. RunOK(r) BY DEF IInv
  <2>2. QED BY <2>1 DEF RunOK, Pair, Agrees
<1>2. QED BY <1>1, InitOK, NextOK, PTL DEF Spec

(* No handler runs behind a park or an operator hold, and no run is both       *)
(* parked and held, at any number of runs, holds, answers and crashes.         *)
THEOREM NoHandlerBehindAWait == Spec => []ModesExclusive
<1>1. IInv => ModesExclusive
  <2> SUFFICES ASSUME IInv, NEW r \in Runs
               PROVE  /\ ~(mem[r].exec /\ mem[r].parked) /\ ~(mem[r].exec /\ mem[r].held)
                      /\ ~(mem[r].parked /\ mem[r].held)
                      /\ (mem[r].wait # "none" \/ mem[r].gate) => mem[r].exec
    BY DEF ModesExclusive
  <2>1. RunOK(r) BY DEF IInv
  <2>2. CASE mem[r].live BY <2>1, <2>2 DEF RunOK, Pair
  <2>3. CASE ~mem[r].live
    <3>1. mem[r] = NotLive BY <2>1, <2>3 DEF RunOK
    <3>2. QED BY <3>1 DEF NotLive
  <2>4. QED BY <2>2, <2>3
<1>2. QED BY <1>1, InitOK, NextOK, PTL DEF Spec

-----------------------------------------------------------------------------
(***************************************************************************)
(* What one step may do to a run, for every set of runs, projects, stages, *)
(* builds and bounds.  `Moves` says it of a run that stays live, `Born` of  *)
(* one a launch or a start brings to life, and the action properties of    *)
(* the run engine follow from the two; `Seam` is the invariant that keeps   *)
(* every open run on a name its build runs.                                *)
(***************************************************************************)


(* What one step does to a run that was live and still is: nothing its stage,  *)
(* its holds or its waits on a person show; a stand at a boundary; a stage     *)
(* entered; a stage run again; or the end of a handler that leads nowhere.     *)
Keeps(m, n) == n.held = m.held /\ n.deferred = m.deferred /\ n.dresume = m.dresume
SameStage(r) == mem'[r].stage = mem[r].stage /\ led'[r].stage = led[r].stage
SameDeferred(r) == Keeps(mem[r], mem'[r]) /\ led'[r].deferred = led[r].deferred

Stays(r) ==
  /\ SameStage(r) /\ SameDeferred(r)
  /\ mem'[r].exec = mem[r].exec /\ mem'[r].parked = mem[r].parked
  /\ mem'[r].quiet \in {mem[r].quiet, Silence}
  /\ mem[r].held /\ ~IsHeld(r)' => ~IsHeld(r)
  /\ mem[r].exec \/ mem'[r].seats \in {mem[r].seats, mem[r].seats - 1}
  /\ \/ led'[r].viol = led[r].viol
     \/ /\ led[r].viol > 0 /\ led'[r].viol = led[r].viol - 1
        /\ \/ led'[r].viol > 0
           \/ mem[r].exec \/ mem[r].parked \/ mem[r].held
           \/ mem[r].seats # 0 /\ mem'[r].seats = mem[r].seats

Holds(r) ==
  /\ ~mem'[r].exec /\ mem'[r].held /\ IsHeld(r)' /\ ~mem[r].held
  /\ SameStage(r) /\ led'[r].deferred = mem'[r].deferred /\ led'[r].viol = led[r].viol
  /\ \/ mem[r].exec /\ mem[r].stage \in build.stages /\ mem'[r].deferred \in build.stages
     \/ mem[r].parked /\ mem'[r].deferred = mem[r].stage

Enters(r) ==
  /\ mem'[r].exec /\ ~IsHeld(r)' /\ led'[r].viol = led[r].viol
  /\ led'[r].deferred \in {led[r].deferred, NoStage}
  /\ \/ mem[r].exec /\ mem'[r].stage \in build.stages /\ led'[r].stage = mem'[r].stage
     \/ mem[r].parked /\ SameStage(r)
     \/ /\ mem[r].held /\ mem'[r].stage = IF mem[r].dresume THEN mem[r].stage ELSE mem[r].deferred
        /\ led'[r].stage = IF mem[r].dresume THEN led[r].stage ELSE mem[r].deferred

Reruns(r) ==
  /\ mem'[r].exec /\ led[r].viol = 1 /\ led'[r].viol = 0
  /\ ~mem[r].held /\ SameStage(r) /\ SameDeferred(r)

Ends(r) ==
  /\ mem[r].exec /\ ~mem'[r].exec /\ SameStage(r) /\ SameDeferred(r)
  /\ \/ mem'[r].parked /\ led'[r].viol = led[r].viol
     \/ ~mem'[r].parked /\ led'[r].viol = led[r].viol + 1
     \/ ~mem'[r].parked /\ led'[r].viol = led[r].viol /\ mode = "stopping"

Moves(r) == Stays(r) \/ Holds(r) \/ Enters(r) \/ Reruns(r) \/ Ends(r)

Becomes(r, x) == led'[r] = x.d /\ mem'[r] = x.m

LEMMA PutBecomes ==
  ASSUME IInv, NEW r \in Runs, NEW x, Put(r, x)
  PROVE  /\ Becomes(r, x) /\ \A q \in Runs \ {r} : Becomes(q, Of(q))
         /\ mode' = mode /\ build' = build
<1>1. led \in [Runs -> Fold] /\ mem \in [Runs -> Memory] BY DEF IInv
<1>2. led' = [led EXCEPT ![r] = x.d] /\ mem' = [mem EXCEPT ![r] = x.m] BY DEF Put
<1>3. led'[r] = x.d /\ mem'[r] = x.m BY <1>1, <1>2, Zenon
<1>4. \A q \in Runs \ {r} : led'[q] = led[q] /\ mem'[q] = mem[q] BY <1>1, <1>2, Zenon
<1>5. QED BY <1>3, <1>4, OnParts DEF Becomes, Of, Put, Daemon

LEMMA DiesDown == Dies => mode' = "down" /\ build' = build /\ \A r \in Runs : ~mem'[r].live
BY NotLiveOK DEF Dies, Dead

LEMMA DeadDown == Dead => mode' = "down" /\ \A r \in Runs : ~mem'[r].live
BY NotLiveOK DEF Dead

(* A run no call touches keeps its place, wherever the holds it had went. *)
LEMMA UntouchedStays ==
  ASSUME IInv, NEW r \in Runs, mem[r].live, Becomes(r, Of(r)),
         mem[r].held /\ ~IsHeld(r)' => ~IsHeld(r)
  PROVE  Stays(r)
BY OnParts DEF IInv, Memory, Becomes, Of, Stays, SameStage, SameDeferred, Keeps

(* The steps of a run's own handler, its children and its waits. *)
LEMMA OwnSteps ==
  ASSUME IInv, NEW r \in Runs, mem[r].live, mem'[r].live,
         Handler(r) \/ SeatExit(r) \/ WaitEnd(r) \/ OtherLine(r)
  PROVE  Moves(r)
<1> DEFINE d == led[r]
           m == mem[r]
<1>1. build \in Builds /\ m \in Memory /\ d \in Fold BY DEF IInv
<1>2. Pair(d, m, build) BY LiveOK
<1>3. scopes' = scopes
  BY DEF Handler, SeatStart, Park, Fail, Close, SettleDropped, WaitBegin, Advance,
         SeatExit, WaitEnd, OtherLine, CloseRun
<1>4. ASSUME mem'[r].own = m.own PROVE IsHeld(r)' = IsHeld(r)
  BY <1>3, <1>4 DEF IsHeld, RunHeld
<1> HIDE DEF d, m
<1> DEFINE Said(e, n) == /\ e.stage = d.stage /\ e.deferred = d.deferred /\ e.viol = d.viol
                         /\ n.stage = m.stage /\ Keeps(m, n) /\ n.parked = m.parked
                         /\ n.own = m.own /\ n.quiet = Silence
                         /\ n.exec = m.exec /\ (m.exec \/ n.seats \in {m.seats, m.seats - 1})
<1>5. ASSUME NEW e, NEW n, Said(e, n), Becomes(r, On(e, n)) PROVE Stays(r)
  <2>1. led'[r] = e /\ mem'[r] = n BY <1>5, OnParts DEF Becomes
  <2>2. IsHeld(r)' = IsHeld(r) BY <1>4, <1>5, <2>1
  <2>3. QED BY <1>5, <2>1, <2>2 DEF Stays, SameStage, SameDeferred, d, m
<1>6. CASE OtherLine(r)
  <2>1. Becomes(r, On(Line(d), Heard(m))) BY <1>6, PutBecomes DEF OtherLine, d, m
  <2>2. Said(Line(d), Heard(m)) BY <1>1 DEF Line, Heard, Fold, Memory, Keeps
  <2>3. QED BY <1>5, <2>1, <2>2 DEF Moves
<1>7. CASE SeatStart(r) \/ SeatExit(r)
  <2>1. \E k \in {m.seats + 1, m.seats - 1} :
           /\ Becomes(r, On(Line(d), [Heard(m) EXCEPT !.seats = k]))
           /\ k = m.seats + 1 => m.exec
    <3>1. Heard(m).seats = m.seats /\ m.seats \in Nat BY <1>1 DEF Heard, Memory
    <3>2. CASE SeatStart(r)
      <4>1. Put(r, On(Line(d), [Heard(m) EXCEPT !.seats = m.seats + 1]))
        BY <3>1, <3>2, Zenon DEF SeatStart, d, m
      <4>2. m.exec BY <3>2 DEF SeatStart, Working, Running, m
      <4>3. QED BY <4>1, <4>2, PutBecomes
    <3>3. CASE SeatExit(r)
      <4>1. Put(r, On(Line(d), [Heard(m) EXCEPT !.seats = m.seats - 1]))
        BY <3>1, <3>3, Zenon DEF SeatExit, d, m
      <4>2. m.seats - 1 # m.seats + 1 BY <3>1
      <4>3. QED BY <4>1, <4>2, PutBecomes
    <3>4. QED BY <1>7, <3>2, <3>3
  <2>2. PICK k \in {m.seats + 1, m.seats - 1} :
           /\ Becomes(r, On(Line(d), [Heard(m) EXCEPT !.seats = k]))
           /\ k = m.seats + 1 => m.exec
    BY <2>1
  <2>3. Said(Line(d), [Heard(m) EXCEPT !.seats = k])
    BY <1>1, <2>2 DEF Line, Heard, Fold, Memory, Keeps
  <2>4. QED BY <1>5, <2>2, <2>3 DEF Moves
<1>8. ASSUME NEW k \in WaitKinds, WaitBegin(r, k) PROVE Moves(r)
  <2>1. Becomes(r, On(WaitBegun(d, k), [Heard(m) EXCEPT !.wait = k]))
    BY <1>8, PutBecomes DEF WaitBegin, d, m
  <2>2. Said(WaitBegun(d, k), [Heard(m) EXCEPT !.wait = k])
    BY <1>1 DEF WaitBegun, Line, Heard, Fold, Memory, Keeps
  <2>3. QED BY <1>5, <2>1, <2>2 DEF Moves
<1>9. CASE WaitEnd(r)
  <2> DEFINE g == IsHeld(r) /\ mode = "up"
             n == [Heard(m) EXCEPT !.wait = "none", !.gate = g]
  <2>1. Becomes(r, On(WaitEnded(d), n)) BY <1>9, PutBecomes DEF WaitEnd, d, m
  <2> HIDE DEF g
  <2>2. Said(WaitEnded(d), n) BY <1>1 DEF WaitEnded, Line, Heard, Fold, Memory, Keeps
  <2> HIDE DEF n
  <2>3. QED BY <1>5, <2>1, <2>2 DEF Moves
<1> DEFINE c == [m EXCEPT !.exec = FALSE]
<1>10. Settled(r) = On(d, c) BY DEF Settled, d, m
<1>11. /\ c \in Memory /\ ~c.exec /\ c.stage = m.stage /\ Keeps(m, c) /\ c.own = m.own
       /\ c.parked = m.parked /\ c.quiet = m.quiet /\ c.violated = m.violated
  BY <1>1 DEF Memory, Keeps
<1> HIDE DEF c
<1>12. Settled(r).d = d /\ Settled(r).m = c BY <1>10, OnParts
<1>13. ASSUME NEW s \in Stages, Advance(r, s) PROVE Moves(r)
  <2>1. m.exec /\ s \in build.stages /\ m.stage \in build.stages
    BY <1>13 DEF Advance, Returns, Working, Running, m
  <2>2. ~m.held /\ ~m.parked BY <1>2, <2>1 DEF Pair
  <2>3. Becomes(r, ChainStage(Settled(r), s, IsHeld(r))) BY <1>13, PutBecomes DEF Advance
  <2>4. CASE IsHeld(r)
    <3> DEFINE n == [Heard(c) EXCEPT !.held = TRUE, !.deferred = s, !.dresume = FALSE]
    <3>1. led'[r] = Held(d, s, FALSE) /\ mem'[r] = n
      <4>1. ChainStage(Settled(r), s, IsHeld(r)) = HoldAt(Settled(r), s, FALSE)
        BY <2>4 DEF ChainStage
      <4>2. HoldAt(Settled(r), s, FALSE) = On(Held(d, s, FALSE), n) BY <1>12, Zenon DEF HoldAt
      <4>3. Becomes(r, On(Held(d, s, FALSE), n)) BY <2>3, <4>1, <4>2
      <4> HIDE DEF n
      <4>4. QED BY <4>3, OnParts DEF Becomes
    <3>2. n.held /\ n.deferred = s /\ ~n.exec /\ n.stage = m.stage /\ n.own = m.own
      BY <1>11 DEF Heard, Memory
    <3>3. Held(d, s, FALSE).stage = d.stage /\ Held(d, s, FALSE).deferred = s
          /\ Held(d, s, FALSE).viol = d.viol
      BY <1>1 DEF Held, Line, Fold
    <3> HIDE DEF n
    <3>4. QED BY <1>4, <2>1, <2>2, <2>4, <3>1, <3>2, <3>3 DEF Moves, Holds, SameStage, d, m
  <2>5. CASE ~IsHeld(r) /\ InStreak(c.quiet, s)
    <3> DEFINE n == [Heard(c) EXCEPT !.violated = TRUE]
    <3>1. led'[r] = Violated(d) /\ mem'[r] = n
      BY <1>12, <2>3, <2>5, OnParts DEF ChainStage, StampViolation, Becomes
    <3>2. ~n.exec /\ n.stage = m.stage /\ Keeps(m, n) /\ ~n.parked
      BY <1>11, <2>2 DEF Heard, Memory, Keeps
    <3>3. Violated(d).stage = d.stage /\ Violated(d).deferred = d.deferred
          /\ Violated(d).viol = d.viol + 1
      BY <1>1 DEF Violated, Line, Fold
    <3> HIDE DEF n
    <3>4. QED BY <2>1, <3>1, <3>2, <3>3 DEF Moves, Ends, SameStage, SameDeferred, d, m
  <2>6. CASE ~IsHeld(r) /\ ~InStreak(c.quiet, s)
    <3> DEFINE n == [c EXCEPT !.stage = s, !.quiet = Append(@, s), !.exec = TRUE]
    <3>1. led'[r] = Entered(d, s) /\ mem'[r] = n
      BY <1>12, <2>3, <2>6, OnParts DEF ChainStage, EnterStage, Becomes
    <3>2. n.exec /\ n.stage = s /\ n.own = m.own BY <1>11 DEF Memory
    <3>3. Entered(d, s).stage = s /\ Entered(d, s).deferred = d.deferred
          /\ Entered(d, s).viol = d.viol
      BY <1>1 DEF Entered, Fold
    <3> HIDE DEF n
    <3>4. QED BY <1>4, <2>1, <2>6, <3>1, <3>2, <3>3 DEF Moves, Enters, d, m
  <2>7. QED BY <2>4, <2>5, <2>6
<1>14. CASE Park(r)
  <2> DEFINE n == [Heard(c) EXCEPT !.parked = TRUE]
  <2>1. led'[r] = Parked(d) /\ mem'[r] = n
    BY <1>12, <1>14, PutBecomes, OnParts DEF Park, Becomes, d
  <2>2. ~n.exec /\ n.stage = m.stage /\ Keeps(m, n) /\ n.parked
    BY <1>11 DEF Heard, Memory, Keeps
  <2>3. Parked(d).stage = d.stage /\ Parked(d).deferred = d.deferred /\ Parked(d).viol = d.viol
    BY <1>1 DEF Parked, Line, Fold
  <2>4. m.exec BY <1>14 DEF Park, Returns, Working, Running, m
  <2> HIDE DEF n
  <2>5. QED BY <2>1, <2>2, <2>3, <2>4 DEF Moves, Ends, SameStage, SameDeferred, d, m
<1>15. CASE Fail(r)
  <2> DEFINE n == [Heard(c) EXCEPT !.violated = TRUE]
  <2>1. led'[r] = Violated(d) /\ mem'[r] = n
    BY <1>12, <1>15, PutBecomes, OnParts DEF Fail, StampViolation, Becomes
  <2>4. m.exec /\ ~m.parked BY <1>2, <1>15 DEF Fail, Running, m, Pair
  <2>2. ~n.exec /\ n.stage = m.stage /\ Keeps(m, n) /\ ~n.parked
    BY <1>11, <2>4 DEF Heard, Memory, Keeps
  <2>3. Violated(d).stage = d.stage /\ Violated(d).deferred = d.deferred
        /\ Violated(d).viol = d.viol + 1
    BY <1>1 DEF Violated, Line, Fold
  <2> HIDE DEF n
  <2>5. QED BY <2>1, <2>2, <2>3, <2>4 DEF Moves, Ends, SameStage, SameDeferred, d, m
<1>16. CASE SettleDropped(r)
  <2>1. led'[r] = d /\ mem'[r] = c
    BY <1>12, <1>16, PutBecomes DEF SettleDropped, Becomes
  <2>2. m.exec /\ ~m.parked /\ mode = "stopping"
    BY <1>2, <1>16 DEF SettleDropped, Running, m, Pair
  <2>3. QED BY <1>11, <2>1, <2>2 DEF Moves, Ends, SameStage, SameDeferred, d, m
<1>17. CASE Close(r)
  <2>1. Put(r, On(Closed(led[r]), NotLive)) \/ Dies BY <1>17 DEF Close, CloseRun, CutShort
  <2>2. ~mem'[r].live BY <2>1, PutBecomes, OnParts, DiesDown, NotLiveOK DEF Becomes
  <2>3. QED BY <2>2
<1>18. QED BY <1>6, <1>7, <1>8, <1>9, <1>13, <1>14, <1>15, <1>16, <1>17 DEF Handler

(* A line that is no stage entry, hold or violation moves none of the three.   *)
LEMMA LineKeeps ==
  ASSUME NEW d \in Fold, NEW h \in BOOLEAN, NEW b \in Blobs,
         NEW e \in {Line(d), Answered(d), Resumed(d), HoldChanged(d, h), Repinned(d, b),
                    WaitEnded(d), Closed(d)}
  PROVE  e \in Fold /\ e.stage = d.stage /\ e.deferred = d.deferred /\ e.viol = d.viol
         /\ e.held = d.held
<1> DEFINE Same(f) == f.stage = d.stage /\ f.deferred = d.deferred /\ f.viol = d.viol
                      /\ f.held = d.held
<1>1. e \in Fold BY LineFold
<1>2. Same(Line(d)) BY DEF Line, Fold
<1>3. Same(Answered(d)) BY DEF Line, Answered, Fold
<1>4. Same(Resumed(d)) BY DEF Line, Resumed, Fold
<1>5. Same(HoldChanged(d, h)) BY DEF Line, HoldChanged, Fold
<1>6. Same(Repinned(d, b)) BY DEF Line, Repinned, Fold
<1>7. Same(WaitEnded(d)) BY DEF Line, WaitEnded, Fold
<1>8. Same(Closed(d)) BY DEF Line, Closed, Fold
<1>9. QED BY <1>1, <1>2, <1>3, <1>4, <1>5, <1>6, <1>7, <1>8

(* The operator's commands on one run. *)
LEMMA CommandSteps ==
  ASSUME IInv, NEW r \in Runs, mem[r].live, mem'[r].live,
         Kill(r) \/ Answer(r) \/ Resolve(r) \/ HoldRun(r) \/ \E b \in Blobs : Reconfigure(r, b)
  PROVE  Moves(r)
<1> DEFINE d == led[r]
           m == mem[r]
           h == Heard(m)
<1>1. build \in Builds /\ m \in Memory /\ d \in Fold BY DEF IInv
<1>2. Pair(d, m, build) BY LiveOK
<1>3. CASE Kill(r)
  <2>1. \E e : Put(r, On(Closed(e), NotLive)) \/ Dies BY <1>3 DEF Kill, CloseRun, CutShort
  <2>2. ~mem'[r].live BY <2>1, PutBecomes, OnParts, DiesDown, NotLiveOK DEF Becomes
  <2>3. QED BY <2>2
<1>4. scopes' = scopes
  BY DEF Kill, CloseRun, Answer, Resolve, HoldRun, Reconfigure
<1>5. ASSUME mem'[r].own = m.own PROVE IsHeld(r)' = IsHeld(r)
  BY <1>4, <1>5 DEF IsHeld, RunHeld
<1> HIDE DEF d, m
<1>6. /\ h \in Memory /\ h.stage = m.stage /\ Keeps(m, h) /\ h.own = m.own
      /\ h.parked = m.parked /\ h.quiet = Silence /\ h.violated = m.violated
      /\ h.exec = m.exec /\ h.seats = m.seats
  BY <1>1, HeardMemory DEF Heard, Memory, Keeps
<1>7. CASE Answer(r)
  <2> DEFINE n == [h EXCEPT !.parked = FALSE]
             e == Resumed(Answered(d))
             y == On(e, n)
  <2>1. m.parked /\ ~m.exec /\ ~m.held BY <1>2, <1>7 DEF Answer, Pair, m
  <2>2. Put(r, IF IsHeld(r) THEN HoldAt(y, m.stage, TRUE) ELSE ExecuteStage(y)) \/ Dies
    BY <1>7 DEF Answer, CutShort, d, m
  <2>3. Becomes(r, IF IsHeld(r) THEN HoldAt(y, m.stage, TRUE) ELSE ExecuteStage(y))
    BY <2>2, PutBecomes, DiesDown
  <2>4. e \in Fold /\ e.stage = d.stage /\ e.deferred = d.deferred /\ e.viol = d.viol
    <3>1. Blobs # {} BY EngineAssumption
    <3>2. Answered(d) \in Fold /\ Answered(d).stage = d.stage
          /\ Answered(d).deferred = d.deferred /\ Answered(d).viol = d.viol
      BY <1>1, <3>1, LineKeeps
    <3>3. QED BY <3>1, <3>2, LineKeeps
  <2>5. /\ n \in Memory /\ n.stage = m.stage /\ Keeps(m, n) /\ n.own = m.own /\ ~n.exec
    BY <1>6, <2>1 DEF Memory, Keeps
  <2> HIDE DEF n, e, h
  <2>6. CASE IsHeld(r)
    <3> DEFINE k == [Heard(n) EXCEPT !.held = TRUE, !.deferred = m.stage, !.dresume = TRUE]
               f == Held(e, m.stage, TRUE)
    <3>1. HoldAt(y, m.stage, TRUE) = On(f, k) BY OnParts, Zenon DEF HoldAt
    <3>2. k.held /\ k.deferred = m.stage /\ ~k.exec /\ k.stage = m.stage /\ k.own = m.own
      BY <1>1, <2>5 DEF Heard, Memory
    <3>3. f.stage = d.stage /\ f.deferred = m.stage /\ f.viol = d.viol
      BY <2>4 DEF Held, Line, Fold
    <3> HIDE DEF k, f
    <3>4. led'[r] = f /\ mem'[r] = k
      <4>1. Becomes(r, On(f, k)) BY <2>3, <2>6, <3>1
      <4>2. QED BY <4>1, OnParts DEF Becomes
    <3>5. QED BY <1>5, <2>1, <2>6, <3>2, <3>3, <3>4 DEF Moves, Holds, SameStage, d, m
  <2>7. CASE ~IsHeld(r)
    <3> DEFINE k == [n EXCEPT !.exec = TRUE]
    <3>1. ExecuteStage(y) = On(e, k) BY OnParts DEF ExecuteStage
    <3>2. k.exec /\ k.stage = m.stage /\ k.own = m.own BY <2>5 DEF Memory
    <3> HIDE DEF k
    <3>3. led'[r] = e /\ mem'[r] = k BY <2>3, <2>7, <3>1, OnParts DEF Becomes
    <3>4. QED BY <1>5, <2>1, <2>4, <2>7, <3>2, <3>3 DEF Moves, Enters, SameStage, d, m
  <2>8. QED BY <2>6, <2>7
<1>8. CASE Resolve(r)
  <2> DEFINE e == Resolved(d)
             x == On(e, h)
             n == [h EXCEPT !.violated = FALSE]
             y == On(e, n)
             k == [n EXCEPT !.exec = TRUE]
             idle == ~m.parked /\ ~m.held /\ ~m.exec /\ m.seats = 0
  <2>1. d.viol > 0 /\ d.viol \in Nat /\ m.violated
    BY <1>1, <1>2, <1>8 DEF Resolve, Pair, d, Fold
  <2>2. x.d = e /\ x.m = h /\ [x.m EXCEPT !.violated = FALSE] = n BY OnParts
  <2>3. Put(r, IF ~h.violated \/ e.viol > 0 THEN x ELSE IF idle THEN ExecuteStage(y) ELSE y)
    <3>1. Put(r, LET w == On(Resolved(d), Heard(m))
                     z == On(w.d, [w.m EXCEPT !.violated = FALSE])
                 IN  IF ~w.m.violated \/ w.d.viol > 0 THEN w
                     ELSE IF ~w.m.parked /\ ~w.m.held /\ ~w.m.exec /\ w.m.seats = 0
                     THEN ExecuteStage(z) ELSE z)
      BY <1>8 DEF Resolve, d, m
    <3> HIDE DEF n, e
    <3>2. h.held = m.held BY <1>6 DEF Keeps
    <3>3. (~x.m.parked /\ ~x.m.held /\ ~x.m.exec /\ x.m.seats = 0) <=> idle
      BY <2>2, <3>2, <1>6
    <3> HIDE DEF idle, h
    <3>4. QED BY <3>1, <3>3, <2>2 DEF e, h, x
  <2>4. ExecuteStage(y) = On(e, k) BY OnParts DEF ExecuteStage
  <2>5. e.stage = d.stage /\ e.deferred = d.deferred /\ e.viol = d.viol - 1
    BY <1>1, <2>1 DEF Resolved, Line, Fold
  <2>6. /\ n.stage = m.stage /\ Keeps(m, n) /\ n.own = m.own /\ n.exec = m.exec
        /\ n.parked = m.parked /\ n.quiet = Silence /\ n.seats = m.seats
    BY <1>6 DEF Memory, Keeps
  <2>7. k.stage = m.stage /\ Keeps(m, k) /\ k.exec
    BY <1>6 DEF Memory, Keeps
  <2> HIDE DEF n, e, h, k
  <2>8. CASE e.viol > 0
    <3>1. led'[r] = e /\ mem'[r] = h BY <2>3, <2>8, PutBecomes, OnParts DEF Becomes
    <3>2. QED
      BY <1>5, <1>6, <2>1, <2>5, <2>8, <3>1 DEF Moves, Stays, SameStage, SameDeferred, d, m
  <2>9. CASE ~(e.viol > 0) /\ ~idle
    <3>1. led'[r] = e /\ mem'[r] = n
      BY <1>6, <2>1, <2>3, <2>9, PutBecomes, OnParts DEF Becomes
    <3>2. m.exec \/ m.parked \/ m.held \/ m.seats # 0 BY <2>9
    <3>3. QED
      BY <1>5, <2>1, <2>5, <2>6, <3>1, <3>2 DEF Moves, Stays, SameStage, SameDeferred, d, m
  <2>10. CASE ~(e.viol > 0) /\ idle
    <3>1. led'[r] = e /\ mem'[r] = k
      BY <1>6, <2>1, <2>3, <2>4, <2>10, PutBecomes, OnParts DEF Becomes
    <3>2. d.viol = 1 BY <2>1, <2>5, <2>10
    <3>3. QED
      BY <2>5, <2>7, <2>10, <3>1, <3>2 DEF Moves, Reruns, SameStage, SameDeferred, d, m
  <2>11. QED BY <2>8, <2>9, <2>10
<1>9. CASE HoldRun(r)
  <2> DEFINE e == HoldChanged(d, TRUE)
             n == [h EXCEPT !.own = TRUE]
  <2>1. led'[r] = e /\ mem'[r] = n
    <3>1. Put(r, On(e, n)) BY <1>9 DEF HoldRun, d, m
    <3> HIDE DEF e, n
    <3>2. QED BY <3>1, PutBecomes, OnParts DEF Becomes
  <2>2. e.stage = d.stage /\ e.deferred = d.deferred /\ e.viol = d.viol
    BY <1>1 DEF HoldChanged, Line, Fold
  <2>3. /\ n.stage = m.stage /\ Keeps(m, n) /\ n.own /\ n.exec = m.exec
        /\ n.parked = m.parked /\ n.quiet = Silence /\ n.seats = m.seats
    BY <1>6 DEF Memory, Keeps
  <2> HIDE DEF n, e, h
  <2>4. IsHeld(r)' BY <2>1, <2>3 DEF IsHeld, RunHeld
  <2>5. QED BY <2>1, <2>2, <2>3, <2>4 DEF Moves, Stays, SameStage, SameDeferred, d, m
<1>10. ASSUME NEW b \in Blobs, Reconfigure(r, b) PROVE Moves(r)
  <2> DEFINE e == Repinned(d, b)
             n == [h EXCEPT !.pin = b]
  <2>1. led'[r] = e /\ mem'[r] = n
    <3>1. Put(r, On(e, n)) BY <1>10 DEF Reconfigure, d, m
    <3> HIDE DEF e, n
    <3>2. QED BY <3>1, PutBecomes, OnParts DEF Becomes
  <2>2. e.stage = d.stage /\ e.deferred = d.deferred /\ e.viol = d.viol
    BY <1>1 DEF Repinned, Line, Fold
  <2>3. /\ n.stage = m.stage /\ Keeps(m, n) /\ n.own = m.own /\ n.exec = m.exec
        /\ n.parked = m.parked /\ n.quiet = Silence /\ n.seats = m.seats
    BY <1>6 DEF Memory, Keeps
  <2> HIDE DEF n, e, h
  <2>4. QED BY <1>5, <2>1, <2>2, <2>3 DEF Moves, Stays, SameStage, SameDeferred, d, m
<1>11. QED BY <1>3, <1>7, <1>8, <1>9, <1>10

(* The run a release has before it: as it stands, or with its own hold gone. *)
Freed(r) == On(HoldChanged(led[r], FALSE), [Heard(mem[r]) EXCEPT !.own = FALSE])

LEMMA ReleaseSteps ==
  ASSUME IInv, NEW r \in Runs, mem[r].live, NEW x \in {Of(r), Freed(r)},
         IF (mem[r].held \/ mem[r].gate) /\ ~RunHeld(x.m.own, ProjectOf[r], scopes')
         THEN Becomes(r, ReleaseOne(x)) ELSE Becomes(r, x)
  PROVE  Moves(r)
<1> DEFINE d == led[r]
           m == mem[r]
<1>1. m \in Memory /\ d \in Fold /\ Pair(d, m, build) BY LiveOK DEF IInv
<1>2. /\ x.d.stage = d.stage /\ x.d.deferred = d.deferred /\ x.d.viol = d.viol
      /\ x.m.stage = m.stage /\ Keeps(m, x.m) /\ x.m.parked = m.parked
      /\ x.m.quiet \in {m.quiet, Silence} /\ x.m.exec = m.exec /\ x.m.seats = m.seats
      /\ x.d \in Fold /\ x.m \in Memory
  <2>1. CASE x = Of(r) BY <1>1, <2>1, OnParts DEF Of, Keeps
  <2>2. CASE x = Freed(r)
    <3> DEFINE e == HoldChanged(d, FALSE)
               n == [Heard(m) EXCEPT !.own = FALSE]
    <3>1. e \in Fold /\ e.stage = d.stage /\ e.deferred = d.deferred /\ e.viol = d.viol
      BY <1>1, LineKeeps, EngineAssumption
    <3>2. /\ n \in Memory /\ n.stage = m.stage /\ Keeps(m, n) /\ n.parked = m.parked
          /\ n.quiet = Silence /\ n.exec = m.exec /\ n.seats = m.seats
      BY <1>1, HeardMemory DEF Heard, Memory, Keeps
    <3>3. x.d = e /\ x.m = n BY <2>2, OnParts DEF Freed
    <3> HIDE DEF e, n, d, m
    <3>4. QED BY <3>1, <3>2, <3>3
  <2>3. QED BY <2>1, <2>2
<1> HIDE DEF d, m
<1>3. ASSUME mem'[r].own = x.m.own
      PROVE  IsHeld(r)' = RunHeld(x.m.own, ProjectOf[r], scopes')
  BY <1>3 DEF IsHeld
<1>4. CASE Becomes(r, x) /\ (m.held => RunHeld(x.m.own, ProjectOf[r], scopes'))
  <2>1. led'[r] = x.d /\ mem'[r] = x.m BY <1>4 DEF Becomes
  <2>2. QED BY <1>2, <1>3, <1>4, <2>1 DEF Moves, Stays, SameStage, SameDeferred, d, m
<1>5. CASE Becomes(r, ReleaseOne(x)) /\ ~m.held
  <2> DEFINE n == [x.m EXCEPT !.gate = FALSE]
  <2>1. ~x.m.held BY <1>2, <1>5 DEF Keeps
  <2>2. led'[r] = x.d /\ mem'[r] = n BY <1>5, <2>1, OnParts DEF Becomes, ReleaseOne
  <2>3. /\ n.stage = x.m.stage /\ Keeps(x.m, n) /\ n.parked = x.m.parked
        /\ n.quiet = x.m.quiet /\ n.exec = x.m.exec /\ n.seats = x.m.seats
    BY <1>2 DEF Memory, Keeps
  <2> HIDE DEF n
  <2>4. QED BY <1>2, <1>5, <2>2, <2>3 DEF Moves, Stays, SameStage, SameDeferred, Keeps, d, m
<1>6. CASE Becomes(r, ReleaseOne(x)) /\ m.held /\ ~RunHeld(x.m.own, ProjectOf[r], scopes')
  <2> DEFINE e == Released(x.d)
             n == [Heard(x.m) EXCEPT !.held = FALSE, !.deferred = NoStage, !.dresume = FALSE]
             y == On(e, n)
  <2>1. x.m.held /\ x.m.dresume = m.dresume /\ x.m.deferred = m.deferred
    BY <1>2, <1>6 DEF Keeps
  <2>2. ReleaseOne(x) = IF x.m.dresume THEN ExecuteStage(y) ELSE EnterStage(y, x.m.deferred)
    BY <2>1 DEF ReleaseOne
  <2>3. e.stage = d.stage /\ e.deferred = NoStage /\ e.viol = d.viol /\ e \in Fold
    BY <1>2, LineFold DEF Released, Line, Fold
  <2>4. n.stage = m.stage /\ n.own = x.m.own BY <1>2 DEF Heard, Memory
  <2>4a. n \in Memory
    <3> DEFINE h == Heard(x.m)
    <3>1. h \in Memory BY <1>2, HeardMemory
    <3>2. NoStage \in Names BY DEF Names
    <3> HIDE DEF h
    <3>3. [h EXCEPT !.held = FALSE, !.deferred = NoStage, !.dresume = FALSE] \in Memory
      BY <3>1, <3>2 DEF Memory
    <3>4. QED BY <3>3 DEF h
  <2> HIDE DEF e, n
  <2>5. CASE m.dresume
    <3> DEFINE k == [n EXCEPT !.exec = TRUE]
    <3>1. Becomes(r, On(e, k))
      <4>1. ExecuteStage(y) = On(e, k) BY OnParts DEF ExecuteStage
      <4>2. QED BY <1>6, <2>1, <2>2, <2>5, <4>1
    <3>2. k.exec /\ k.stage = m.stage /\ k.own = x.m.own BY <2>4, <2>4a DEF Memory
    <3> HIDE DEF k
    <3>3. led'[r] = e /\ mem'[r] = k BY <3>1, OnParts DEF Becomes
    <3>4. QED BY <1>3, <1>6, <2>3, <2>5, <3>2, <3>3 DEF Moves, Enters, d, m
  <2>6. CASE ~m.dresume
    <3> DEFINE s == m.deferred
               k == [n EXCEPT !.stage = s, !.quiet = Append(@, s), !.exec = TRUE]
    <3>1. Becomes(r, On(Entered(e, s), k))
      <4>1. EnterStage(y, s) = On(Entered(e, s), k) BY OnParts, Zenon DEF EnterStage
      <4>2. QED BY <1>6, <2>1, <2>2, <2>6, <4>1
    <3>2. k.exec /\ k.stage = s /\ k.own = x.m.own BY <2>4, <2>4a DEF Memory
    <3>3. Entered(e, s).stage = s /\ Entered(e, s).deferred = NoStage /\ Entered(e, s).viol = d.viol
      BY <2>3 DEF Entered, Fold
    <3> HIDE DEF k
    <3>4. led'[r] = Entered(e, s) /\ mem'[r] = k BY <3>1, OnParts DEF Becomes
    <3>5. QED BY <1>3, <1>6, <2>3, <2>6, <3>2, <3>3, <3>4 DEF Moves, Enters, d, m
  <2>7. QED BY <2>5, <2>6
<1>7. QED BY <1>4, <1>5, <1>6 DEF m

(* A call on one run writes that run, or ends with the daemon. *)
LEMMA OneRun ==
  ASSUME NEW q \in Runs,
         \/ Handler(q) \/ SeatExit(q) \/ WaitEnd(q) \/ OtherLine(q)
         \/ Kill(q) \/ Answer(q) \/ Resolve(q) \/ HoldRun(q)
         \/ \E b \in Blobs : Reconfigure(q, b) \/ Launch(q, b)
  PROVE  scopes' = scopes /\ ((\E x : Put(q, x)) \/ Dies)
<1>1. CASE Handler(q)
  <2>1. CASE Close(q) BY <2>1 DEF Close, CloseRun, CutShort
  <2>2. CASE SeatStart(q) \/ Park(q) \/ Fail(q) \/ SettleDropped(q)
    BY <2>2 DEF SeatStart, Park, Fail, SettleDropped
  <2>3. CASE (\E k \in WaitKinds : WaitBegin(q, k)) \/ \E s \in Stages : Advance(q, s)
    BY <2>3 DEF WaitBegin, Advance
  <2>4. QED BY <1>1, <2>1, <2>2, <2>3 DEF Handler
<1>2. CASE SeatExit(q) \/ WaitEnd(q) \/ OtherLine(q)
  BY <1>2 DEF SeatExit, WaitEnd, OtherLine
<1>3. CASE Kill(q) BY <1>3 DEF Kill, CloseRun, CutShort
<1>4. CASE Answer(q) BY <1>4 DEF Answer, CutShort
<1>5. CASE Resolve(q) BY <1>5 DEF Resolve
<1>6. CASE HoldRun(q) BY <1>6 DEF HoldRun
<1>7. CASE \E b \in Blobs : Reconfigure(q, b) BY <1>7 DEF Reconfigure
<1>8. CASE \E b \in Blobs : Launch(q, b) BY <1>8 DEF Launch, CutShort
<1>9. QED BY <1>1, <1>2, <1>3, <1>4, <1>5, <1>6, <1>7, <1>8

LEMMA WalkBecomes ==
  ASSUME NEW now, NEW sc, ReleaseHeldRuns(now, sc), NEW r \in Runs, mem'[r].live
  PROVE  /\ mode' = mode /\ build' = build
         /\ IF /\ now[r].m.live /\ (now[r].m.held \/ now[r].m.gate)
               /\ ~RunHeld(now[r].m.own, ProjectOf[r], sc)
            THEN Becomes(r, ReleaseOne(now[r])) ELSE Becomes(r, now[r])
<1> DEFINE todo == {q \in Runs : /\ now[q].m.live /\ (now[q].m.held \/ now[q].m.gate)
                                 /\ ~RunHeld(now[q].m.own, ProjectOf[q], sc)}
           from == [q \in Runs |-> now[q].d]
           final == [q \in Runs |-> ReleaseOne(now[q])]
<1>1. ~Dies BY DiesDown
<1>2. /\ led' = [q \in Runs |-> IF q \in todo THEN final[q].d ELSE from[q]]
      /\ mem' = [q \in Runs |-> IF q \in todo THEN final[q].m ELSE now[q].m]
      /\ UNCHANGED Daemon
  BY <1>1 DEF ReleaseHeldRuns
<1>3. from[r] = now[r].d /\ final[r] = ReleaseOne(now[r]) OBVIOUS
<1>4. r \in todo <=> /\ now[r].m.live /\ (now[r].m.held \/ now[r].m.gate)
                     /\ ~RunHeld(now[r].m.own, ProjectOf[r], sc)
  OBVIOUS
<1> HIDE DEF todo, from, final
<1>5. QED BY <1>2, <1>3, <1>4 DEF Becomes, Daemon

LEMMA Releases ==
  ASSUME IInv, (\E s \in Scopes : ReleaseScope(s)) \/ (\E q \in Runs : ReleaseRun(q)),
         NEW r \in Runs, mem'[r].live
  PROVE  /\ mem[r].live /\ mode' = mode /\ build' = build
         /\ \E x \in {Of(r), Freed(r)} :
              IF (mem[r].held \/ mem[r].gate) /\ ~RunHeld(x.m.own, ProjectOf[r], scopes')
              THEN Becomes(r, ReleaseOne(x)) ELSE Becomes(r, x)
<1> DEFINE now == [q \in Runs |-> Of(q)]
           Shape(x) == IF (mem[r].held \/ mem[r].gate) /\ ~RunHeld(x.m.own, ProjectOf[r], scopes')
                       THEN Becomes(r, ReleaseOne(x)) ELSE Becomes(r, x)
<1>1. Of(r).d = led[r] /\ Of(r).m = mem[r] /\ now[r] = Of(r) BY OnParts DEF Of
<1>2. ASSUME NEW s \in Scopes, ReleaseScope(s) PROVE mode' = mode /\ build' = build /\ Shape(Of(r))
                                                     /\ mem[r].live
  <2>1. ReleaseHeldRuns(now, scopes') BY <1>2 DEF ReleaseScope
  <2> HIDE DEF now
  <2>2. /\ mode' = mode /\ build' = build
        /\ IF /\ mem[r].live /\ (mem[r].held \/ mem[r].gate)
              /\ ~RunHeld(mem[r].own, ProjectOf[r], scopes')
           THEN Becomes(r, ReleaseOne(Of(r))) ELSE Becomes(r, Of(r))
    BY <1>1, <2>1, WalkBecomes
  <2>3. mem[r].live BY <1>1, <2>2 DEF Becomes
  <2>4. QED BY <1>1, <2>2, <2>3
<1>3. ASSUME NEW q \in Runs, ReleaseRun(q)
      PROVE  mode' = mode /\ build' = build /\ mem[r].live /\ \E x \in {Of(r), Freed(r)} : Shape(x)
  <2> DEFINE y == IF ~mem[q].own THEN Of(q) ELSE Freed(q)
             f == [now EXCEPT ![q] = y]
             x == f[r]
  <2>1. ReleaseHeldRuns(f, scopes) /\ scopes' = scopes /\ mem[q].live
    BY <1>3 DEF ReleaseRun, Freed
  <2>2. x = Of(r) \/ (q = r /\ x = Freed(r)) OBVIOUS
  <2> HIDE DEF now, y, f, x
  <2>3. /\ mode' = mode /\ build' = build
        /\ IF /\ f[r].m.live /\ (f[r].m.held \/ f[r].m.gate)
              /\ ~RunHeld(f[r].m.own, ProjectOf[r], scopes)
           THEN Becomes(r, ReleaseOne(f[r])) ELSE Becomes(r, f[r])
    BY <2>1, WalkBecomes
  <2>4. x = f[r] BY DEF x
  <2>5. CASE x = Of(r)
    <3>1. mem[r].live BY <1>1, <2>3, <2>4, <2>5 DEF Becomes
    <3>2. Shape(Of(r)) BY <1>1, <2>1, <2>3, <2>4, <2>5, <3>1
    <3>3. QED BY <2>3, <3>1, <3>2
  <2>6. CASE q = r /\ x = Freed(r)
    <3> DEFINE n == [Heard(mem[r]) EXCEPT !.own = FALSE]
    <3>1. mem[r].live /\ mem[r] \in Memory BY <2>1, <2>6 DEF IInv
    <3>2. n.live /\ n.held = mem[r].held /\ n.gate = mem[r].gate BY <3>1 DEF Heard, Memory
    <3>3. Freed(r).m = n BY OnParts DEF Freed
    <3> HIDE DEF n
    <3>4. Shape(Freed(r)) BY <2>1, <2>3, <2>4, <2>6, <3>2, <3>3
    <3>5. QED BY <2>3, <3>1, <3>4
  <2>7. QED BY <2>2, <2>5, <2>6
<1>4. QED BY <1>2, <1>3

(* Whatever step a daemon takes, a live run moves as `Moves` says. *)
LEMMA LiveSteps ==
  ASSUME IInv, [Next]_vars, NEW r \in Runs, mem[r].live, mem'[r].live
  PROVE  Moves(r) /\ mode # "down" /\ mode' # "down" /\ build' = build
<1>0. mode # "down" /\ IInv' BY LiveOK, NextOK DEF Alive
<1>0a. mode' # "down" BY <1>0 DEF IInv, RunOK, Alive
<1> SUFFICES Moves(r) /\ build' = build BY <1>0, <1>0a
<1>1. ASSUME Becomes(r, Of(r)), mem[r].held /\ ~IsHeld(r)' => ~IsHeld(r), build' = build
      PROVE  Moves(r) /\ build' = build
  BY <1>1, UntouchedStays DEF Moves
<1>2. ASSUME led'[r] = led[r], mem'[r] = mem[r] PROVE Becomes(r, Of(r))
  BY <1>2, OnParts DEF Becomes, Of
<1>3. ASSUME scopes \subseteq scopes', mem'[r] = mem[r]
      PROVE  mem[r].held /\ ~IsHeld(r)' => ~IsHeld(r)
  BY <1>3 DEF IsHeld, RunHeld
<1>4. CASE UNCHANGED vars
  <2>1. Becomes(r, Of(r)) BY <1>2, <1>4 DEF vars
  <2>2. mem[r].held /\ ~IsHeld(r)' => ~IsHeld(r) BY <1>4 DEF vars, IsHeld, RunHeld
  <2>3. QED BY <1>1, <1>4, <2>1, <2>2 DEF vars
<1>5. ASSUME NEW q \in Runs,
             \/ Handler(q) \/ SeatExit(q) \/ WaitEnd(q) \/ OtherLine(q)
             \/ Kill(q) \/ Answer(q) \/ Resolve(q) \/ HoldRun(q)
             \/ \E b \in Blobs : Reconfigure(q, b) \/ Launch(q, b)
      PROVE  Moves(r) /\ build' = build
  <2>1. scopes' = scopes /\ \E x : Put(q, x) BY <1>5, OneRun, DiesDown
  <2>2. build' = build /\ (q # r => Becomes(r, Of(r))) BY <2>1, PutBecomes
  <2>3. CASE q # r
    <3>1. mem'[r] = mem[r] BY <2>2, <2>3, OnParts DEF Becomes, Of
    <3>2. QED BY <1>1, <1>3, <2>1, <2>2, <2>3, <3>1
  <2>4. CASE q = r
    <3>1. led[r].phase # "absent" BY LiveOK DEF Pair
    <3>2. \A b \in Blobs : ~Launch(r, b) BY <3>1 DEF Launch
    <3>3. Moves(r) BY <1>5, <2>4, <3>2, OwnSteps, CommandSteps
    <3>4. QED BY <2>2, <3>3
  <2>5. QED BY <2>3, <2>4
<1>6. CASE (\E s \in Scopes : ReleaseScope(s)) \/ (\E q \in Runs : ReleaseRun(q))
  <2>1. build' = build /\ \E x \in {Of(r), Freed(r)} :
              IF (mem[r].held \/ mem[r].gate) /\ ~RunHeld(x.m.own, ProjectOf[r], scopes')
              THEN Becomes(r, ReleaseOne(x)) ELSE Becomes(r, x)
    BY <1>6, Releases
  <2>2. QED BY <2>1, ReleaseSteps
<1>7. CASE \E s \in Scopes : HoldScope(s)
  <2>1. scopes \subseteq scopes' /\ led' = led /\ mem' = mem /\ build' = build
    BY <1>7 DEF HoldScope
  <2>2. Becomes(r, Of(r)) BY <1>2, <2>1
  <2>3. mem[r].held /\ ~IsHeld(r)' => ~IsHeld(r) BY <2>1 DEF IsHeld, RunHeld
  <2>4. QED BY <1>1, <2>1, <2>2, <2>3
<1>8. CASE StopBegin
  <2> DEFINE todo == {q \in Runs : mem[q].live /\ (mem[q].wait # "none" \/ mem[q].gate)}
             final == [q \in Runs |->
                        On(Recovered(Of(q)).d,
                           [Recovered(Of(q)).m EXCEPT !.wait = "none", !.gate = FALSE])]
  <2>1. /\ led' = [q \in Runs |-> IF q \in todo THEN final[q].d ELSE led[q]]
        /\ mem' = [q \in Runs |-> IF q \in todo THEN final[q].m ELSE mem[q]]
        /\ build' = build /\ scopes' = scopes
    BY <1>8, DiesDown DEF StopBegin
  <2>2. CASE r \notin todo
    <3> HIDE DEF todo, final
    <3>1. led'[r] = led[r] /\ mem'[r] = mem[r] BY <2>1, <2>2
    <3>2. Becomes(r, Of(r)) BY <1>2, <3>1
    <3>3. mem[r].held /\ ~IsHeld(r)' => ~IsHeld(r) BY <2>1, <3>1 DEF IsHeld, RunHeld
    <3>4. QED BY <1>1, <2>1, <3>2, <3>3
  <2>3. CASE r \in todo
    <3> DEFINE x == Recovered(Of(r))
               n == [x.m EXCEPT !.wait = "none", !.gate = FALSE]
               d == led[r]
               m == mem[r]
    <3>1. final[r] = On(x.d, n) OBVIOUS
    <3>2. m \in Memory /\ d \in Fold BY DEF IInv
    <3>3. /\ x.d.stage = d.stage /\ x.d.deferred = d.deferred /\ x.d.viol = d.viol
          /\ x.m \in Memory /\ x.m.stage = m.stage /\ Keeps(m, x.m) /\ x.m.own = m.own
          /\ x.m.parked = m.parked /\ x.m.quiet \in {m.quiet, Silence}
          /\ x.m.exec = m.exec /\ x.m.seats = m.seats
      <4>1. CASE x = Of(r) BY <3>2, <4>1, OnParts DEF Of, Keeps
      <4>2. CASE x = On(WaitEnded(d), Heard(m))
        <5>1. x.d = WaitEnded(d) /\ x.m = Heard(m) BY <4>2, OnParts
        <5>2. WaitEnded(d).stage = d.stage /\ WaitEnded(d).deferred = d.deferred
              /\ WaitEnded(d).viol = d.viol
          BY <3>2, EngineAssumption, LineKeeps
        <5> DEFINE h == Heard(m)
        <5>3. /\ h \in Memory /\ h.stage = m.stage /\ Keeps(m, h) /\ h.own = m.own
              /\ h.parked = m.parked /\ h.quiet = Silence /\ h.exec = m.exec
              /\ h.seats = m.seats
          BY <3>2, HeardMemory DEF Heard, Memory, Keeps
        <5> HIDE DEF h, x, m, d
        <5>4. QED BY <5>1, <5>2, <5>3 DEF h
      <4>3. QED BY <4>1, <4>2, OnParts DEF Recovered, Of
    <3> HIDE DEF x, m, d
    <3>4. /\ n.stage = m.stage /\ Keeps(m, n) /\ n.own = m.own
          /\ n.parked = m.parked /\ n.quiet \in {m.quiet, Silence}
          /\ n.exec = m.exec /\ n.seats = m.seats
      BY <3>3 DEF Memory, Keeps
    <3> HIDE DEF n, todo, final
    <3>5. led'[r] = x.d /\ mem'[r] = n BY <2>1, <2>3, <3>1, OnParts
    <3>6. IsHeld(r)' = IsHeld(r) BY <2>1, <3>4, <3>5 DEF IsHeld, RunHeld, m
    <3>6a. SameStage(r) /\ SameDeferred(r)
      BY <3>3, <3>4, <3>5 DEF SameStage, SameDeferred, m, d
    <3>7. Stays(r) BY <3>3, <3>4, <3>5, <3>6, <3>6a DEF Stays, m, d
    <3>8. QED BY <2>1, <3>7 DEF Moves
  <2>4. QED BY <2>2, <2>3
<1>9. ~(StopEnd \/ Crash) BY DiesDown DEF StopEnd, Crash
<1>10. \A b \in Builds : ~Start(b) BY <1>0 DEF Start
<1>11. QED
  BY <1>0, <1>0a, <1>4, <1>5, <1>6, <1>7, <1>8, <1>9, <1>10 DEF Next, Command

(* A run comes to life by a launch or by a start. *)
LEMMA Begins ==
  ASSUME IInv, [Next]_vars, NEW r \in Runs, ~mem[r].live, mem'[r].live
  PROVE  \/ \E b \in Blobs :
              /\ Launch(r, b) /\ build' = build /\ mode' = "up" /\ mode = "up"
              /\ Becomes(r, EnterStage(On(Launched(led[r], b), [NotLive EXCEPT !.live = TRUE, !.pin = b]),
                                       build.first))
         \/ \E b \in Builds : /\ Start(b) /\ mode = "down" /\ mode' = "up" /\ build' = b
                              /\ led[r].phase = "open" /\ Becomes(r, ResumeOne(r, b))
<1>1. ASSUME mem'[r] = mem[r] PROVE FALSE BY <1>1
<1>2. CASE UNCHANGED vars BY <1>1, <1>2 DEF vars
<1>3. ASSUME NEW q \in Runs,
             \/ Handler(q) \/ SeatExit(q) \/ WaitEnd(q) \/ OtherLine(q)
             \/ Kill(q) \/ Answer(q) \/ Resolve(q) \/ HoldRun(q)
             \/ \E b \in Blobs : Reconfigure(q, b) \/ Launch(q, b)
      PROVE  \E b \in Blobs : Launch(r, b)
  <2>1. \E x : Put(q, x) BY <1>3, OneRun, DiesDown
  <2>2. q = r
    <3>1. q # r => mem'[r] = mem[r] BY <2>1, PutBecomes, OnParts DEF Becomes, Of
    <3>2. QED BY <1>1, <3>1
  <2>3. ~(mem[r].exec \/ mem[r].parked \/ mem[r].gate \/ mem[r].wait # "none" \/ mem[r].seats # 0)
    BY LiveOK
  <2>4. ~(mem[r].seats > 0) BY <2>3 DEF IInv, Memory
  <2>5. ~Handler(r) /\ ~SeatExit(r) /\ ~WaitEnd(r) /\ ~OtherLine(r)
    BY <2>3, <2>4 DEF Handler, SeatStart, Park, Fail, Close, SettleDropped, WaitBegin, Advance,
                SeatExit, WaitEnd, OtherLine, Returns, Working, Running
  <2>6. ~Kill(r) /\ ~Answer(r) /\ ~Resolve(r) /\ ~HoldRun(r) /\ \A b \in Blobs : ~Reconfigure(r, b)
    BY <2>3 DEF Kill, Answer, Resolve, HoldRun, Reconfigure
  <2>7. QED BY <1>3, <2>2, <2>5, <2>6
<1>4. ASSUME NEW b \in Blobs, Launch(r, b)
      PROVE  /\ build' = build /\ mode' = "up" /\ mode = "up"
             /\ Becomes(r, EnterStage(On(Launched(led[r], b), [NotLive EXCEPT !.live = TRUE, !.pin = b]),
                                      build.first))
  <2> DEFINE x == On(Launched(led[r], b), [NotLive EXCEPT !.live = TRUE, !.pin = b])
  <2>1. Put(r, EnterStage(x, build.first)) \/ Dies BY <1>4 DEF Launch, CutShort
  <2>2. mode = "up" BY <1>4 DEF Launch
  <2> HIDE DEF x
  <2>3. Put(r, EnterStage(x, build.first)) BY <2>1, DiesDown
  <2>4. QED BY <2>2, <2>3, PutBecomes DEF x
<1>5. CASE (\E s \in Scopes : ReleaseScope(s)) \/ (\E q \in Runs : ReleaseRun(q))
  BY <1>5, Releases
<1>6. CASE \E s \in Scopes : HoldScope(s) BY <1>1, <1>6 DEF HoldScope
<1>7. CASE StopBegin
  <2> DEFINE todo == {q \in Runs : mem[q].live /\ (mem[q].wait # "none" \/ mem[q].gate)}
  <2>1. \E f : mem' = [q \in Runs |-> IF q \in todo THEN f[q].m ELSE mem[q]]
    BY <1>7, DiesDown DEF StopBegin
  <2>2. r \notin todo OBVIOUS
  <2>3. mem'[r] = mem[r] BY <2>1, <2>2
  <2>4. QED BY <1>1, <2>3
<1>8. ~(StopEnd \/ Crash) BY DiesDown DEF StopEnd, Crash
<1>9. ASSUME NEW b \in Builds, Start(b)
      PROVE  /\ mode = "down" /\ mode' = "up" /\ build' = b
             /\ led[r].phase = "open" /\ Becomes(r, ResumeOne(r, b))
  <2> DEFINE todo == {q \in Runs : led[q].phase = "open"}
             final == [q \in Runs |-> ResumeOne(q, b)]
  <2>1. /\ led' = [q \in Runs |-> IF q \in todo THEN final[q].d ELSE led[q]]
        /\ mem' = [q \in Runs |-> IF q \in todo THEN final[q].m ELSE NotLive]
        /\ mode' = "up" /\ mode = "down" /\ build' = b
    BY <1>9, DeadDown DEF Start
  <2>2. final[r] = ResumeOne(r, b) OBVIOUS
  <2>3. r \in todo <=> led[r].phase = "open" OBVIOUS
  <2> HIDE DEF todo, final
  <2>4. mem'[r] = IF r \in todo THEN final[r].m ELSE NotLive BY <2>1
  <2>5. led'[r] = IF r \in todo THEN final[r].d ELSE led[r] BY <2>1
  <2>6. QED BY <2>1, <2>2, <2>3, <2>4, <2>5, NotLiveOK DEF Becomes
<1>10. QED
  BY <1>2, <1>3, <1>4, <1>5, <1>6, <1>7, <1>8, <1>9 DEF Next, Command

---------------------------------------------------------------------------
(* What a start reads back of the ledger d, before it decides anything: the    *)
(* ledger as it was, but for lines nothing here reads, and a memory at st.     *)
ReadBack(d, x, st, fo) ==
  /\ x.d \in Fold /\ x.m \in Memory
  /\ x.d.stage = d.stage /\ x.d.deferred = d.deferred /\ x.d.viol = d.viol
  /\ x.d.held = d.held /\ x.d.parked = d.parked
  /\ x.m.stage = st /\ x.m.deferred = fo /\ x.m.dresume = d.dresume /\ x.m.held = d.held
  /\ x.m.parked = d.parked /\ x.m.violated = (d.viol > 0) /\ x.m.own = d.own
  /\ ~x.m.exec

LEMMA LineOf ==
  ASSUME NEW d \in Fold
  PROVE  /\ Line(d).parked = d.parked /\ WaitEnded(d).parked = d.parked
         /\ \A f, t \in Stages : LET e == Sent(d, f, t)
                                 IN  /\ e.stage = d.stage /\ e.deferred = d.deferred
                                     /\ e.viol = d.viol /\ e.held = d.held /\ e.parked = d.parked
<1>1. Line(d).parked = d.parked BY DEF Line, Fold
<1>2. WaitEnded(d).parked = d.parked BY DEF WaitEnded, Line, Fold
<1>3. ASSUME NEW f \in Stages, NEW t \in Stages
      PROVE  LET e == Sent(d, f, t)
             IN  /\ e.stage = d.stage /\ e.deferred = d.deferred
                 /\ e.viol = d.viol /\ e.held = d.held /\ e.parked = d.parked
  BY DEF Sent, Line, Fold
<1>4. QED BY <1>1, <1>2, <1>3

LEMMA ReplayReads ==
  ASSUME NEW d, LedgerOK(d) PROVE ReadBack(d, Recovered(On(d, Replay(d))), d.stage, d.deferred)
<1> DEFINE m == Replay(d)
           e == WaitEnded(d)
           h == Heard(m)
<1>1. d \in Fold BY DEF LedgerOK
<1>2. m \in Memory BY <1>1 DEF Replay, Memory, Fold, WaitKinds
<1>3. /\ m.stage = d.stage /\ m.parked = d.parked /\ m.violated = (d.viol > 0)
      /\ m.held = d.held /\ m.deferred = d.deferred /\ m.dresume = d.dresume
      /\ m.own = d.own /\ ~m.exec
  BY DEF Replay
<1>4. Recovered(On(d, Replay(d))) = IF d.wait = "none" THEN On(d, m) ELSE On(e, h)
  BY OnParts DEF Recovered
<1> HIDE DEF m
<1>5. /\ h \in Memory /\ h.stage = m.stage /\ h.parked = m.parked /\ h.violated = m.violated
      /\ h.held = m.held /\ h.deferred = m.deferred /\ h.dresume = m.dresume
      /\ h.own = m.own /\ h.exec = m.exec
  BY <1>2, HeardMemory DEF Heard, Memory
<1>6. /\ e \in Fold /\ e.stage = d.stage /\ e.deferred = d.deferred /\ e.viol = d.viol
      /\ e.held = d.held /\ e.parked = d.parked
  BY <1>1, LineKeeps, LineOf, EngineAssumption
<1> HIDE DEF e, h
<1>7. CASE d.wait = "none" BY <1>1, <1>2, <1>3, <1>4, <1>7, OnParts DEF ReadBack
<1>8. CASE d.wait # "none" BY <1>3, <1>4, <1>5, <1>6, <1>8, OnParts DEF ReadBack
<1>9. QED BY <1>7, <1>8

LEMMA SendOnReads ==
  ASSUME NEW d, NEW x, NEW st, NEW fo, ReadBack(d, x, st, fo),
         NEW rd, NEW f \in Stages, NEW t \in Stages
  PROVE  ReadBack(d, SendOn(x, rd, f, t), st, fo)
<1> DEFINE e == Sent(x.d, f, t)
           h == Heard(x.m)
<1>1. x.d \in Fold /\ x.m \in Memory BY DEF ReadBack
<1>2. /\ e \in Fold /\ e.stage = x.d.stage /\ e.deferred = x.d.deferred /\ e.viol = x.d.viol
      /\ e.held = x.d.held /\ e.parked = x.d.parked
  BY <1>1, LineFold, LineOf
<1>3. /\ h \in Memory /\ h.stage = x.m.stage /\ h.parked = x.m.parked
      /\ h.violated = x.m.violated /\ h.held = x.m.held /\ h.deferred = x.m.deferred
      /\ h.dresume = x.m.dresume /\ h.own = x.m.own /\ h.exec = x.m.exec
  BY <1>1, HeardMemory DEF Heard, Memory
<1>4. SendOn(x, rd, f, t) = x \/ SendOn(x, rd, f, t) = On(e, h) BY DEF SendOn
<1> HIDE DEF e, h
<1>5. ReadBack(d, On(e, h), st, fo) BY <1>2, <1>3, OnParts DEF ReadBack
<1>6. QED BY <1>4, <1>5

(* The name a resume goes on with: the map's, or the ledger's own. *)
ReadName(b, s) == IF ResumeStage(b, s) = NoStage THEN s ELSE ResumeStage(b, s)

LEMMA RenamedReads ==
  ASSUME NEW b \in Builds, NEW d, NEW x, ReadBack(d, x, d.stage, d.deferred), NEW rd
  PROVE  ReadBack(d, Renamed(x, rd, b), ReadName(b, d.stage), d.deferred)
<1> DEFINE to == ResumeStage(b, x.m.stage)
           y == SendOn(x, rd, x.m.stage, to)
           n == [y.m EXCEPT !.stage = to]
<1>1. x.m.stage = d.stage /\ x.m.stage \in Names BY DEF ReadBack, Memory
<1>2. CASE to = NoStage BY <1>1, <1>2 DEF Renamed, ReadName
<1>3. CASE to # NoStage
  <2>1. to \in Stages BY <1>1, <1>3, ResumeStageOK
  <2>2. x.m.stage \in Stages BY <1>1, <1>3, EngineAssumption DEF ResumeStage, Names
  <2>3. Renamed(x, rd, b) = On(y.d, n) BY <1>3 DEF Renamed
  <2>4. to = ReadName(b, d.stage) BY <1>1, <1>3 DEF ReadName
  <2> HIDE DEF to
  <2>5. ReadBack(d, y, d.stage, d.deferred) BY <2>1, <2>2, SendOnReads
  <2> HIDE DEF y
  <2>6. /\ n \in Memory /\ n.stage = to /\ n.parked = y.m.parked
        /\ n.violated = y.m.violated /\ n.held = y.m.held /\ n.deferred = y.m.deferred
        /\ n.dresume = y.m.dresume /\ n.own = y.m.own /\ n.exec = y.m.exec
    BY <2>1, <2>5 DEF ReadBack, Memory, Names
  <2> HIDE DEF n
  <2>7. QED BY <2>3, <2>4, <2>5, <2>6, OnParts DEF ReadBack
<1>4. QED BY <1>2, <1>3

(* What a start makes of an open run whose ledger is d, under holds h: left to *)
(* its person, refused, left held, stopped at its boundary, or run again.      *)
LeftWaiting(d, x) ==
  /\ d.parked \/ d.viol > 0
  /\ ~x.m.exec /\ x.d.viol = d.viol /\ x.m.held = d.held /\ x.m.parked = d.parked
  /\ x.d.deferred = d.deferred /\ x.m.deferred = d.deferred
Refused(b, d, x) ==
  /\ d.viol = 0 /\ ~d.parked /\ ~x.m.exec /\ x.d.viol = d.viol + 1
  /\ x.m.held = d.held /\ ~x.m.parked
  /\ x.d.deferred = d.deferred /\ x.m.deferred = d.deferred
  /\ \/ ReadName(b, d.stage) \notin b.stages
     \/ d.held /\ ResumeStage(b, d.deferred) = NoStage
LeftHeld(b, d, x) ==
  /\ d.held /\ d.viol = 0 /\ ~x.m.exec /\ x.m.held /\ ~x.m.parked /\ x.d.viol = 0
  /\ x.d.deferred = d.deferred /\ x.m.deferred = ResumeStage(b, d.deferred)
  /\ ResumeStage(b, d.deferred) # NoStage
StoppedThere(b, d, x, h) ==
  /\ h /\ ~d.held /\ d.viol = 0 /\ ~x.m.exec /\ x.m.held /\ ~x.m.parked /\ x.d.viol = 0
  /\ ReadName(b, d.stage) \in b.stages
  /\ x.m.deferred = ReadName(b, d.stage) /\ x.d.deferred = ReadName(b, d.stage)
RunAgain(b, d, x, h) ==
  /\ ~h /\ ~d.held /\ ~d.parked /\ d.viol = 0
  /\ x.m.exec /\ ~x.m.held /\ ~x.m.parked /\ x.d.viol = 0
  /\ ReadName(b, d.stage) \in b.stages /\ x.d.deferred = d.deferred

Resumes(b, d, x, h) ==
  /\ x.m.own = d.own /\ x.m.stage = ReadName(b, d.stage)
  /\ x.d.stage \in {d.stage, ReadName(b, d.stage)}
  /\ \/ LeftWaiting(d, x) \/ Refused(b, d, x) \/ LeftHeld(b, d, x)
     \/ StoppedThere(b, d, x, h) \/ RunAgain(b, d, x, h)

LEMMA MemoryWith ==
  ASSUME NEW m \in Memory, NEW s \in Stages
  PROVE  /\ LET n == [Heard(m) EXCEPT !.violated = TRUE]
            IN  /\ n.stage = m.stage /\ n.deferred = m.deferred /\ n.held = m.held
                /\ n.parked = m.parked /\ n.own = m.own /\ n.exec = m.exec
         /\ LET n == [m EXCEPT !.deferred = s]
            IN  /\ n.stage = m.stage /\ n.deferred = s /\ n.held = m.held
                /\ n.parked = m.parked /\ n.own = m.own /\ n.exec = m.exec
         /\ LET n == [Heard(m) EXCEPT !.held = TRUE, !.deferred = s, !.dresume = TRUE]
            IN  /\ n.stage = m.stage /\ n.deferred = s /\ n.held
                /\ n.parked = m.parked /\ n.own = m.own /\ n.exec = m.exec
         /\ LET n == [m EXCEPT !.stage = s, !.quiet = Append(@, s), !.exec = TRUE]
            IN  /\ n.stage = s /\ n.held = m.held
                /\ n.parked = m.parked /\ n.own = m.own /\ n.exec
<1> DEFINE h == Heard(m)
<1>1. /\ h \in Memory /\ h.stage = m.stage /\ h.parked = m.parked /\ h.held = m.held
      /\ h.deferred = m.deferred /\ h.own = m.own /\ h.exec = m.exec
  BY HeardMemory DEF Heard, Memory
<1> HIDE DEF h
<1>2. LET n == [h EXCEPT !.violated = TRUE]
      IN  /\ n.stage = h.stage /\ n.deferred = h.deferred /\ n.held = h.held
          /\ n.parked = h.parked /\ n.own = h.own /\ n.exec = h.exec
  BY <1>1 DEF Memory
<1>3. LET n == [m EXCEPT !.deferred = s]
      IN  /\ n.stage = m.stage /\ n.deferred = s /\ n.held = m.held
          /\ n.parked = m.parked /\ n.own = m.own /\ n.exec = m.exec
  BY DEF Memory
<1>4. LET n == [h EXCEPT !.held = TRUE, !.deferred = s, !.dresume = TRUE]
      IN  /\ n.stage = h.stage /\ n.deferred = s /\ n.held
          /\ n.parked = h.parked /\ n.own = h.own /\ n.exec = h.exec
  BY <1>1 DEF Memory
<1>5. LET n == [m EXCEPT !.stage = s, !.quiet = Append(@, s), !.exec = TRUE]
      IN  /\ n.stage = s /\ n.held = m.held
          /\ n.parked = m.parked /\ n.own = m.own /\ n.exec
  BY DEF Memory
<1>6. QED BY <1>1, <1>2, <1>3, <1>4, <1>5 DEF h

LEMMA ResumeReads ==
  ASSUME NEW b \in Builds, NEW d, LedgerOK(d), NEW x, NEW rd, NEW h \in BOOLEAN,
         ReadBack(d, x, ReadName(b, d.stage), d.deferred)
  PROVE  Resumes(b, d, Resume(x, rd, b, h), h)
<1> DEFINE st == ReadName(b, d.stage)
           to == ResumeStage(b, d.deferred)
           y == SendOn(x, rd, d.deferred, to)
           z == Resume(x, rd, b, h)
<1>1. /\ x.d \in Fold /\ x.m \in Memory /\ d \in Fold /\ d.viol \in Nat
      /\ x.m.stage = st /\ x.m.deferred = d.deferred
      /\ x.d.stage = d.stage /\ x.d.deferred = d.deferred /\ x.d.viol = d.viol
      /\ x.m.held = d.held /\ x.m.parked = d.parked /\ x.m.violated = (d.viol > 0)
      /\ x.m.own = d.own /\ ~x.m.exec
  BY DEF ReadBack, LedgerOK, Fold
<1>2. z = IF d.parked \/ d.viol > 0 THEN x
          ELSE IF st \notin b.stages THEN StampViolation(x)
          ELSE IF d.held THEN IF to = NoStage THEN StampViolation(x)
                              ELSE On(y.d, [y.m EXCEPT !.deferred = to])
          ELSE IF h THEN HoldAt(x, st, TRUE) ELSE EnterStage(x, st)
  BY <1>1 DEF Resume
<1>3. st \in b.stages => st \in Stages BY EngineAssumption
<1>4. SUFFICES Resumes(b, d, z, h) OBVIOUS
<1>5. ReadName(b, d.stage) = st OBVIOUS
<1>5a. ResumeStage(b, d.deferred) = to OBVIOUS
<1>6. x.m.stage = st /\ st = ReadName(b, d.stage) BY <1>1
<1> HIDE DEF st, to, z
<1>7. CASE d.parked \/ d.viol > 0
  <2>1. z = x BY <1>2, <1>7
  <2>2. LeftWaiting(d, x) BY <1>1, <1>7 DEF LeftWaiting
  <2>3. QED BY <1>1, <1>5, <2>1, <2>2 DEF Resumes
<1>8. ASSUME ~(d.parked \/ d.viol > 0), z = StampViolation(x),
             st \notin b.stages \/ (d.held /\ to = NoStage)
      PROVE  Resumes(b, d, z, h)
  <2> DEFINE e == Violated(x.d)
             n == [Heard(x.m) EXCEPT !.violated = TRUE]
  <2>1. z = On(e, n) BY <1>8 DEF StampViolation
  <2>2. e.stage = x.d.stage /\ e.deferred = x.d.deferred /\ e.viol = x.d.viol + 1
    BY <1>1 DEF Violated, Line, Fold
  <2>3. PICK s \in Stages : TRUE
    <3>1. b.first \in Stages BY EngineAssumption
    <3>2. QED BY <3>1
  <2>4. /\ n.stage = x.m.stage /\ n.deferred = x.m.deferred /\ n.held = x.m.held
        /\ n.parked = x.m.parked /\ n.own = x.m.own /\ n.exec = x.m.exec
    BY <1>1, <2>3, MemoryWith
  <2> HIDE DEF e, n
  <2>5. z.d = e /\ z.m = n BY <2>1, OnParts
  <2>6. d.viol = 0 BY <1>1, <1>8
  <2>7. Refused(b, d, z)
    BY <1>1, <1>5, <1>5a, <1>8, <2>2, <2>4, <2>5, <2>6 DEF Refused
  <2>8. z.m.own = d.own /\ z.m.stage = st /\ z.d.stage = d.stage BY <1>1, <2>2, <2>4, <2>5
  <2>9. QED BY <1>5, <2>7, <2>8 DEF Resumes
<1>9. CASE ~(d.parked \/ d.viol > 0) /\ (st \notin b.stages \/ (d.held /\ to = NoStage))
  BY <1>2, <1>8, <1>9
<1>10. CASE ~(d.parked \/ d.viol > 0) /\ st \in b.stages /\ d.held /\ to # NoStage
  <2> DEFINE n == [y.m EXCEPT !.deferred = to]
  <2>1. z = On(y.d, n) BY <1>2, <1>10
  <2>2. d.deferred \in Stages BY <1>1, <1>10 DEF LedgerOK
  <2>3. to \in Stages BY <2>2, <1>10, <1>5a, ResumeStageOK DEF Names
  <2>4. ReadBack(d, x, st, d.deferred) BY <1>5
  <2>5. ReadBack(d, y, st, d.deferred) BY <2>2, <2>3, <2>4, SendOnReads
  <2> HIDE DEF y
  <2>6. /\ y.m \in Memory /\ y.m.stage = st /\ y.m.held = d.held /\ y.m.parked = d.parked
        /\ y.m.own = d.own /\ ~y.m.exec /\ y.d.stage = d.stage
        /\ y.d.deferred = d.deferred /\ y.d.viol = d.viol
    BY <2>5 DEF ReadBack
  <2>7. /\ n.stage = y.m.stage /\ n.deferred = to /\ n.held = y.m.held
        /\ n.parked = y.m.parked /\ n.own = y.m.own /\ n.exec = y.m.exec
    BY <2>3, <2>6, MemoryWith
  <2> HIDE DEF n
  <2>8. z.d = y.d /\ z.m = n BY <2>1, OnParts
  <2>9. d.viol = 0 BY <1>1, <1>10
  <2>10. LeftHeld(b, d, z)
    BY <1>5a, <1>10, <2>6, <2>7, <2>8, <2>9 DEF LeftHeld
  <2>11. QED BY <1>5, <2>6, <2>7, <2>8, <2>10 DEF Resumes
<1>11. CASE ~(d.parked \/ d.viol > 0) /\ st \in b.stages /\ ~d.held /\ h
  <2> DEFINE e == Held(x.d, st, TRUE)
             n == [Heard(x.m) EXCEPT !.held = TRUE, !.deferred = st, !.dresume = TRUE]
  <2>1. z = On(e, n) BY <1>2, <1>11 DEF HoldAt
  <2>2. e.stage = x.d.stage /\ e.deferred = st /\ e.viol = x.d.viol
    BY <1>1 DEF Held, Line, Fold
  <2>3. /\ n.stage = x.m.stage /\ n.deferred = st /\ n.held
        /\ n.parked = x.m.parked /\ n.own = x.m.own /\ n.exec = x.m.exec
    BY <1>1, <1>3, <1>11, MemoryWith
  <2> HIDE DEF e, n
  <2>4. z.d = e /\ z.m = n BY <2>1, OnParts
  <2>5. d.viol = 0 BY <1>1, <1>11
  <2>6. StoppedThere(b, d, z, h)
    BY <1>1, <1>5, <1>11, <2>2, <2>3, <2>4, <2>5 DEF StoppedThere
  <2>7. z.m.own = d.own /\ z.m.stage = st /\ z.d.stage = d.stage BY <1>1, <2>2, <2>3, <2>4
  <2>8. QED BY <1>5, <2>6, <2>7 DEF Resumes
<1>12. CASE ~(d.parked \/ d.viol > 0) /\ st \in b.stages /\ ~d.held /\ ~h
  <2> DEFINE e == Entered(x.d, st)
             n == [x.m EXCEPT !.stage = st, !.quiet = Append(@, st), !.exec = TRUE]
  <2>1. z = On(e, n) BY <1>2, <1>12 DEF EnterStage
  <2>2. e.stage = st /\ e.deferred = x.d.deferred /\ e.viol = x.d.viol
    BY <1>1 DEF Entered, Fold
  <2>3. /\ n.stage = st /\ n.held = x.m.held
        /\ n.parked = x.m.parked /\ n.own = x.m.own /\ n.exec
    BY <1>1, <1>3, <1>12, MemoryWith
  <2> HIDE DEF e, n
  <2>4. z.d = e /\ z.m = n BY <2>1, OnParts
  <2>5. d.viol = 0 BY <1>1, <1>12
  <2>6. RunAgain(b, d, z, h)
    BY <1>1, <1>5, <1>12, <2>2, <2>3, <2>4, <2>5 DEF RunAgain
  <2>7. z.m.own = d.own /\ z.m.stage = st /\ z.d.stage = st BY <1>1, <2>2, <2>3, <2>4
  <2>8. QED BY <1>5, <2>6, <2>7 DEF Resumes
<1>13. \/ d.parked \/ d.viol > 0
       \/ ~(d.parked \/ d.viol > 0) /\ (st \notin b.stages \/ (d.held /\ to = NoStage))
       \/ ~(d.parked \/ d.viol > 0) /\ st \in b.stages /\ d.held /\ to # NoStage
       \/ ~(d.parked \/ d.viol > 0) /\ st \in b.stages /\ ~d.held /\ h
       \/ ~(d.parked \/ d.viol > 0) /\ st \in b.stages /\ ~d.held /\ ~h
  BY Zenon
<1>14. QED BY <1>7, <1>9, <1>10, <1>11, <1>12, <1>13

LEMMA ResumeOneReads ==
  ASSUME IInv, NEW r \in Runs, NEW b \in Builds
  PROVE  /\ Resumes(b, led[r], ResumeOne(r, b), RunHeld(led[r].own, ProjectOf[r], scopes))
         /\ ReadBack(led[r], Replayed(r), led[r].stage, led[r].deferred)
         /\ ReadBack(led[r], Renamed(Replayed(r), led[r], b),
                     ReadName(b, led[r].stage), led[r].deferred)
<1> DEFINE h == RunHeld(led[r].own, ProjectOf[r], scopes)
<1>1. LedgerOK(led[r]) BY LedgersOK
<1>2. h \in BOOLEAN
  <2>1. led[r].own \in BOOLEAN BY <1>1 DEF LedgerOK, Fold
  <2>2. QED BY <2>1 DEF RunHeld
<1>3. ReadBack(led[r], Replayed(r), led[r].stage, led[r].deferred)
  BY <1>1, ReplayReads DEF Replayed
<1>4. ReadBack(led[r], Renamed(Replayed(r), led[r], b), ReadName(b, led[r].stage), led[r].deferred)
  BY <1>3, RenamedReads
<1> HIDE DEF h
<1>5. Resumes(b, led[r], Resume(Renamed(Replayed(r), led[r], b), led[r], b, h), h)
  BY <1>1, <1>2, <1>4, ResumeReads
<1>6. QED BY <1>3, <1>4, <1>5 DEF ResumeOne, h

(* A run that comes to life: launched into its first stage, or read back by a  *)
(* start under the holds that then stand.                                      *)
Reads(r) == Resumes(build', led[r], On(led'[r], mem'[r]), IsHeld(r)')

LEMMA Born ==
  ASSUME IInv, [Next]_vars, NEW r \in Runs, ~mem[r].live, mem'[r].live
  PROVE  \/ /\ Launches(r) /\ mode = "up" /\ build' = build
            /\ mem'[r].exec /\ ~mem'[r].held /\ led'[r].viol = 0
            /\ mem'[r].stage \in build.stages /\ led'[r].stage = mem'[r].stage
            /\ led'[r].deferred = NoStage
            /\ \E b \in Blobs : Launch(r, b)
         \/ /\ mode = "down" /\ mode' = "up" /\ led[r].phase = "open" /\ Reads(r)
            /\ <<build, build'>> \in Upgrades
<1>1. CASE \E b \in Blobs :
              /\ Launch(r, b) /\ build' = build /\ mode' = "up" /\ mode = "up"
              /\ Becomes(r, EnterStage(On(Launched(led[r], b), [NotLive EXCEPT !.live = TRUE, !.pin = b]),
                                       build.first))
  <2>1. PICK b \in Blobs :
              /\ Launch(r, b) /\ build' = build /\ mode = "up"
              /\ Becomes(r, EnterStage(On(Launched(led[r], b), [NotLive EXCEPT !.live = TRUE, !.pin = b]),
                                       build.first))
    BY <1>1
  <2> DEFINE e == Launched(led[r], b)
             n == [NotLive EXCEPT !.live = TRUE, !.pin = b]
             f == Entered(e, build.first)
             k == [n EXCEPT !.stage = build.first, !.quiet = Append(@, build.first), !.exec = TRUE]
  <2>2. led[r].phase = "absent" BY <2>1 DEF Launch
  <2>3. led[r] = NoLedger BY <2>2, LedgersOK DEF LedgerOK
  <2>4. e.viol = 0 /\ e.deferred = NoStage BY <2>3 DEF Launched, Line, NoLedger
  <2>4a. e \in Fold
    <3> HIDE DEF e
    <3>1. QED BY LineFold, LedgersOK DEF e
  <2>5. n.exec = FALSE /\ n.held = FALSE BY DEF NotLive
  <2>5a. n \in Memory
    <3> HIDE DEF NotLive
    <3>1. QED BY NotLiveOK DEF Memory
  <2>6. build \in Builds /\ build.first \in build.stages /\ build.first \in Stages
    BY EngineAssumption DEF IInv
  <2>7. EnterStage(On(e, n), build.first) = On(f, k) BY OnParts DEF EnterStage
  <2> HIDE DEF e, n
  <2>8. f.viol = 0 /\ f.deferred = NoStage /\ f.stage = build.first BY <2>4, <2>4a DEF Entered, Fold
  <2>9. k.exec /\ ~k.held /\ k.stage = build.first BY <2>5, <2>5a DEF Memory
  <2> HIDE DEF f, k
  <2>10. led'[r] = f /\ mem'[r] = k BY <2>1, <2>7, OnParts DEF Becomes, e, n
  <2>11. QED BY <2>1, <2>2, <2>6, <2>8, <2>9, <2>10 DEF Launches
<1>2. CASE \E b \in Builds : /\ Start(b) /\ mode = "down" /\ mode' = "up" /\ build' = b
                              /\ led[r].phase = "open" /\ Becomes(r, ResumeOne(r, b))
  <2>1. PICK b \in Builds : /\ Start(b) /\ mode = "down" /\ mode' = "up" /\ build' = b
                            /\ led[r].phase = "open" /\ Becomes(r, ResumeOne(r, b))
    BY <1>2
  <2>2. Resumes(b, led[r], ResumeOne(r, b), RunHeld(led[r].own, ProjectOf[r], scopes))
    BY <2>1, ResumeOneReads
  <2>3. scopes' = scopes /\ <<build, b>> \in Upgrades BY <2>1 DEF Start
  <2> DEFINE x == ResumeOne(r, b)
  <2> HIDE DEF x
  <2>4. led'[r] = x.d /\ mem'[r] = x.m /\ x.m.own = led[r].own
    BY <2>1, <2>2 DEF Becomes, Resumes, x
  <2>5. IsHeld(r)' = RunHeld(led[r].own, ProjectOf[r], scopes) BY <2>3, <2>4 DEF IsHeld, RunHeld
  <2>6. Resumes(b, led[r], On(led'[r], mem'[r]), IsHeld(r)')
    <3>1. Resumes(b, led[r], x, RunHeld(led[r].own, ProjectOf[r], scopes)) BY <2>2 DEF x
    <3>2. On(led'[r], mem'[r]).d = x.d /\ On(led'[r], mem'[r]).m = x.m BY <2>4, OnParts
    <3> DEFINE y == On(led'[r], mem'[r])
    <3>3. y.d = x.d /\ y.m = x.m BY <3>2
    <3> HIDE DEF y
    <3>4. Resumes(b, led[r], y, RunHeld(led[r].own, ProjectOf[r], scopes))
      BY <3>1, <3>3 DEF Resumes, LeftWaiting, Refused, LeftHeld, StoppedThere, RunAgain
    <3>5. QED BY <3>4, <2>5 DEF y
  <2>7. QED BY <2>1, <2>3, <2>6 DEF Reads
<1>3. QED BY <1>1, <1>2, Begins

(* No stage starts under a hold but a launch's first and what a cleared        *)
(* violation runs again.                                                       *)
LEMMA StartsUnderHold ==
  ASSUME IInv, [Next]_vars, NEW r \in Runs, StageStarts(r), IsHeld(r)'
  PROVE  Launches(r) \/ led'[r].viol < led[r].viol
<1>1. IInv' BY NextOK
<1>2. mem'[r].exec BY DEF StageStarts
<1>3. mem'[r].live
  <2>1. mem'[r].live \/ mem'[r] = NotLive BY <1>1 DEF IInv, RunOK
  <2>2. ~NotLive.exec BY DEF NotLive
  <2>3. QED BY <1>2, <2>1, <2>2
<1>4. CASE mem[r].live
  <2>1. Moves(r) BY <1>3, <1>4, LiveSteps
  <2>2. mem[r].quiet \in Seq(Stages) BY DEF IInv, Memory
  <2>3. Len(Silence) = 0 BY DEF Silence
  <2>4. ~Stays(r)
    <3>1. SUFFICES ASSUME Stays(r) PROVE FALSE OBVIOUS
    <3>2. mem[r].exec /\ mem'[r].quiet \in {mem[r].quiet, Silence} BY <1>2, <3>1 DEF Stays
    <3>3. Len(mem'[r].quiet) > Len(mem[r].quiet) BY <3>2 DEF StageStarts
    <3>4. Len(mem[r].quiet) \in Nat BY <2>2
    <3>5. QED BY <2>3, <3>2, <3>3, <3>4
  <2>5. Reruns(r) BY <1>2, <2>1, <2>4 DEF Moves, Holds, Enters, Ends
  <2>6. QED BY <2>5 DEF Reruns
<1>5. CASE ~mem[r].live
  <2>1. ~Reads(r)
    BY <1>2, OnParts DEF Reads, Resumes, LeftWaiting, Refused, LeftHeld, StoppedThere, RunAgain
  <2>2. QED BY <1>3, <1>5, <2>1, Born
<1>6. QED BY <1>4, <1>5

(* What leaves a boundary runs there and then: what the hold deferred.         *)
LEMMA LeavesBoundary ==
  ASSUME IInv, [Next]_vars, NEW r \in Runs, mem[r].held, mem'[r].live, ~mem'[r].held
  PROVE  /\ ~IsHeld(r)' /\ mem'[r].exec
         /\ mem'[r].stage = IF mem[r].dresume THEN mem[r].stage ELSE mem[r].deferred
<1>1. mem[r].live BY LiveOK DEF NotLive
<1>2. Moves(r) BY <1>1, LiveSteps
<1>3. ~mem[r].exec /\ ~mem[r].parked BY <1>1, LiveOK DEF Pair
<1>4. Enters(r)
  BY <1>2, <1>3 DEF Moves, Stays, Holds, Reruns, Ends, SameDeferred, Keeps
<1>5. QED BY <1>3, <1>4 DEF Enters

(* A run behind nothing stood behind nothing before.                           *)
LEMMA NoneLeftBehind ==
  ASSUME IInv, [Next]_vars, NEW r \in Runs, Alive, Stray(r)'
  PROVE  Stray(r)
<1>1. IInv' BY NextOK
<1>2. mem'[r].held /\ ~IsHeld(r)' BY DEF Stray
<1>3. mem'[r].live
  <2>1. mem'[r].live \/ mem'[r] = NotLive BY <1>1 DEF IInv, RunOK
  <2>2. ~NotLive.held BY DEF NotLive
  <2>3. QED BY <1>2, <2>1, <2>2
<1>4. mem[r].live BY <1>2, <1>3, Born DEF Alive
<1>5. Moves(r) BY <1>3, <1>4, LiveSteps
<1>6. ~mem'[r].exec BY <1>1, <1>2, <1>3 DEF IInv, RunOK, Pair
<1>7. Stays(r)
  <2>1. ~Enters(r) /\ ~Reruns(r) BY <1>6 DEF Enters, Reruns
  <2>2. ~Holds(r) BY <1>2 DEF Holds
  <2>3. ~Ends(r)
    <3>1. SUFFICES ASSUME Ends(r) PROVE FALSE OBVIOUS
    <3>2. mem[r].exec /\ mem[r].held BY <1>2, <3>1 DEF Ends, SameDeferred, Keeps
    <3>3. QED BY <1>4, <3>2, LiveOK DEF Pair
  <2>4. QED BY <1>5, <2>1, <2>2, <2>3 DEF Moves
<1>8. mem[r].held /\ ~IsHeld(r) BY <1>2, <1>7 DEF Stays, SameDeferred, Keeps
<1>9. QED BY <1>8 DEF Stray

LEMMA StartLetsWait ==
  ASSUME IInv, [Next]_vars, mode = "down", NEW r \in Runs, mem'[r].live,
         led[r].parked \/ led[r].viol > 0 \/ led[r].held \/ IsHeld(r)'
  PROVE  ~mem'[r].exec /\ (led[r].held => mem'[r].held)
<1>1. ~mem[r].live BY LiveOK DEF Alive
<1>2. Reads(r) BY <1>1, Born
<1>3. led[r].viol \in Nat BY DEF IInv, Fold
<1>4. QED
  BY <1>2, <1>3, OnParts DEF Reads, Resumes, LeftWaiting, Refused, LeftHeld, StoppedThere, RunAgain

(* Only the exit of a child that outlived its handler, or the end of a handler *)
(* under a stop, leaves an open run in no state a person or the engine ends.   *)
LEMMA InertOnlyByASeat ==
  ASSUME IInv, [Next]_vars, NEW r \in Runs, mem'[r].live, ~AccountedFor(r)'
  PROVE  \/ mem[r].live /\ (~AccountedFor(r) \/ mem[r].seats = 1)
         \/ mode = "stopping"
<1>1. IInv' BY NextOK
<1>2. /\ ~mem'[r].exec /\ ~(mem'[r].seats > 0) /\ ~mem'[r].parked /\ ~mem'[r].held
      /\ ~mem'[r].violated
  BY DEF AccountedFor
<1>3. mem'[r].violated = (led'[r].viol > 0) /\ led'[r].viol \in Nat
      /\ mem'[r].seats \in Nat /\ led[r].viol \in Nat /\ mem[r].seats \in Nat
  BY <1>1 DEF IInv, RunOK, Pair, Fold, Memory
<1>4. led'[r].viol = 0 /\ mem'[r].seats = 0
  <2>1. ~(led'[r].viol > 0) BY <1>2, <1>3, Zenon
  <2>2. QED BY <1>2, <1>3, <2>1
<1>5. CASE mem[r].live
  <2>1. Moves(r) BY <1>5, LiveSteps
  <2>2. mem[r].violated = (led[r].viol > 0) BY <1>5, LiveOK DEF Pair
  <2>3. CASE Stays(r)
    <3>1. ~mem[r].exec /\ ~mem[r].parked /\ ~mem[r].held
      BY <1>2, <2>3 DEF Stays, SameDeferred, Keeps
    <3>2. mem[r].seats = 0 \/ mem[r].seats = 1 BY <1>3, <1>4, <2>3, <3>1 DEF Stays
    <3>3. mem[r].seats = 0 => led[r].viol = 0
      BY <1>3, <1>4, <2>3, <3>1 DEF Stays
    <3>4. mem[r].seats = 0 => ~AccountedFor(r)
      <4>1. mem[r].seats = 0 => ~(led[r].viol > 0) /\ ~(mem[r].seats > 0) BY <3>3
      <4>2. mem[r].seats = 0 => ~mem[r].violated BY <2>2, <4>1, Zenon
      <4>3. QED BY <3>1, <4>1, <4>2 DEF AccountedFor
    <3>5. QED BY <1>5, <3>2, <3>4
  <2>4. CASE ~Stays(r)
    <3>1. Ends(r) BY <1>2, <2>1, <2>4 DEF Moves, Holds, Enters, Reruns
    <3>2. QED BY <1>2, <1>3, <1>4, <3>1 DEF Ends
  <2>5. QED BY <2>3, <2>4
<1>6. CASE ~mem[r].live
  <2>1. Reads(r) BY <1>2, <1>6, Born
  <2>2. QED
    BY <1>2, <1>3, <1>4, <2>1, OnParts
    DEF Reads, Resumes, LeftWaiting, Refused, LeftHeld, StoppedThere, RunAgain
<1>7. QED BY <1>5, <1>6

---------------------------------------------------------------------------
(* Under a hold no stage starts but a launch's first and what a resolution runs *)
(* again; a release enters what the hold deferred and leaves no run behind; a   *)
(* restart runs nothing that waits (engine.mjs: chainStage, answer,             *)
(* releaseHeldRuns, resumeOpenRuns).                                            *)
THEOREM HoldsHonoured == Spec => HoldsAreHonoured
<1>1. IInv /\ [Next]_vars =>
        [\A r \in Runs : StageStarts(r) /\ IsHeld(r)' =>
           Launches(r) \/ led'[r].viol < led[r].viol]_vars
  BY StartsUnderHold
<1>2. IInv /\ [Next]_vars =>
        [\A r \in Runs : mem[r].held /\ mem'[r].live /\ ~mem'[r].held =>
           /\ ~IsHeld(r)' /\ mem'[r].exec
           /\ mem'[r].stage = IF mem[r].dresume THEN mem[r].stage ELSE mem[r].deferred]_vars
  BY LeavesBoundary
<1>3. IInv /\ [Next]_vars => [Alive /\ Alive' => \A r \in Runs : Stray(r)' => Stray(r)]_vars
  BY NoneLeftBehind
<1>4. IInv /\ [Next]_vars =>
        [mode = "down" /\ mode' = "up" => \A r \in Runs :
           mem'[r].live /\ (led[r].parked \/ led[r].viol > 0 \/ led[r].held \/ IsHeld(r)')
             => ~mem'[r].exec /\ (led[r].held => mem'[r].held)]_vars
  BY StartLetsWait
<1>5. QED
  BY InitOK, NextOK, <1>1, <1>2, <1>3, <1>4, PTL
  DEF Spec, HoldsAreHonoured, OnlyAResolveStartsAHeldStage, ReleaseEntersDeferred,
      NoReleaseLeavesARunBehind, StartRunsNothingThatWaits

(* No transition of engine.mjs takes an open run out of its liveness invariant:  *)
(* only a child that outlived its handler, or a stop, leaves a run inert.        *)
THEOREM NoTransitionStrandsARun == Spec => OnlyAnOrphanSeatLeavesARunInert
<1>1. IInv /\ [Next]_vars =>
        [\A r \in Runs : mem'[r].live /\ ~AccountedFor(r)' =>
           \/ mem[r].live /\ (~AccountedFor(r) \/ mem[r].seats = 1)
           \/ mode = "stopping"]_vars
  BY InertOnlyByASeat
<1>2. QED BY InitOK, NextOK, <1>1, PTL DEF Spec, OnlyAnOrphanSeatLeavesARunInert

Actives(p) == {r \in Runs : ProjectOf[r] = p /\ Active(r)}

(* A launch is the only step that brings a run of its project to life while    *)
(* the daemon is up, and it writes no other run.                               *)
LEMMA LaunchAlone ==
  ASSUME IInv, NEW r \in Runs, NEW b \in Blobs, Launch(r, b), mem'[r].live,
         NEW q \in Runs \ {r}
  PROVE  mem'[q] = mem[q]
<1>1. \E x : Put(r, x)
  <2>1. (\E x : Put(r, x)) \/ Dies BY OneRun
  <2>2. QED BY <2>1, DiesDown
<1>2. QED BY <1>1, PutBecomes, OnParts DEF Becomes, Of

LEMMA OverTheCap ==
  ASSUME IInv, [Next]_vars, NEW p \in Projects,
         ActiveCount(p)' > ActiveCount(p), ActiveCount(p)' > SlotCap[p]
  PROVE  \E r \in Runs : /\ ProjectOf[r] = p /\ Active(r)' /\ ~Launches(r)
                         /\ mem[r].parked \/ mem[r].wait = "frees" \/ mode = "down"
<1> DEFINE S == Actives(p)
           T == Actives(p)'
<1>1. ActiveCount(p) = Cardinality(S) /\ ActiveCount(p)' = Cardinality(T)
  BY DEF ActiveCount, Actives
<1>2. IsFiniteSet(S) /\ IsFiniteSet(T)
  <2>1. S \subseteq Runs /\ T \subseteq Runs BY DEF Actives
  <2>2. QED BY <2>1, FiniteRuns, FS_Subset
<1>3. Cardinality(S) \in Nat /\ Cardinality(T) \in Nat /\ SlotCap[p] \in Nat
  BY <1>2, FS_CardinalityType, EngineAssumption
<1>4. Cardinality(T) > Cardinality(S) /\ Cardinality(T) > SlotCap[p] BY <1>1
<1>5. \A r \in T : r \in Runs /\ ProjectOf[r] = p /\ Active(r)' BY DEF Actives
<1>6. \A r \in Runs : r \notin S => ProjectOf[r] # p \/ ~Active(r) BY DEF Actives
<1> HIDE DEF S, T
<1>7. PICK r \in T : r \notin S
  <2>1. T \subseteq S => Cardinality(T) <= Cardinality(S) BY <1>2, FS_Subset
  <2>2. ~(T \subseteq S) BY <1>3, <1>4, <2>1
  <2>3. QED BY <2>2
<1>8. r \in Runs /\ ProjectOf[r] = p /\ Active(r)' /\ ~Active(r) BY <1>5, <1>6, <1>7
<1>9. mem'[r].live BY <1>8 DEF Active
<1>10. CASE mem[r].live
  <2>1. mem[r].parked \/ mem[r].wait = "frees" BY <1>8, <1>10 DEF Active
  <2>2. ~Launches(r) BY <1>8, <1>10, LiveOK DEF Pair, Launches
  <2>3. QED BY <1>8, <2>1, <2>2
<1>11. CASE ~mem[r].live /\ mode = "down" /\ led[r].phase = "open"
  BY <1>8, <1>11 DEF Launches
<1>12. CASE ~mem[r].live /\ \E b \in Blobs : Launch(r, b)
  <2>1. PICK b \in Blobs : Launch(r, b) BY <1>12
  <2>2. Cardinality(S) < SlotCap[p] BY <1>1, <1>8, <2>1 DEF Launch
  <2>3. T \subseteq S \cup {r}
    <3>1. SUFFICES ASSUME NEW q \in T, q # r PROVE q \in S OBVIOUS
    <3>2. mem'[q] = mem[q] BY <1>5, <1>8, <1>9, <2>1, <3>1, LaunchAlone
    <3>3. Active(q) BY <1>5, <3>1, <3>2 DEF Active
    <3>4. QED BY <1>5, <1>6, <3>1, <3>3
  <2>4. IsFiniteSet(S \cup {r}) /\ Cardinality(S \cup {r}) = Cardinality(S) + 1
    BY <1>2, <1>7, FS_AddElement
  <2>5. Cardinality(T) <= Cardinality(S) + 1 BY <2>3, <2>4, FS_Subset
  <2>6. QED BY <1>3, <1>4, <2>2, <2>5
<1>13. QED BY <1>8, <1>9, <1>10, <1>11, <1>12, Born

(* A launch never takes a project over its slots (engine.mjs, launch and the     *)
(* slot count): only a run that had given its slot up, or a restart, can.        *)
THEOREM CapHolds == Spec => OnlyAReturningRunGoesOverTheCap
<1>1. IInv /\ [Next]_vars =>
        [\A p \in Projects :
           ActiveCount(p)' > ActiveCount(p) /\ ActiveCount(p)' > SlotCap[p] =>
             \E r \in Runs : /\ ProjectOf[r] = p /\ Active(r)' /\ ~Launches(r)
                             /\ mem[r].parked \/ mem[r].wait = "frees" \/ mode = "down"]_vars
  BY OverTheCap
<1>2. QED BY InitOK, NextOK, <1>1, PTL DEF Spec, OnlyAReturningRunGoesOverTheCap

---------------------------------------------------------------------------
(* The retired map as a seam: a name a build can read, in its chain or in its  *)
(* map, and what a ledger and a memory hold of such names.                     *)
Known(b) == b.stages \cup DOMAIN b.retired
InSeam(b, s) == s = NoStage \/ s \in Known(b)

LedgerSeam(d, b) ==
  /\ InSeam(b, d.stage) /\ InSeam(b, d.deferred)
  /\ d.held => d.viol = 0 /\ d.stage # NoStage
  /\ d.parked => d.viol = 0

MemorySeam(d, m, b) ==
  /\ m.exec => d.viol = 0
  /\ m.stage \notin DOMAIN b.retired
  /\ m.held => m.deferred \notin DOMAIN b.retired

SeamOK(r) ==
  /\ LedgerSeam(led[r], build)
  /\ mem[r].live => MemorySeam(led[r], mem[r], build)

Seam == \A r \in Runs : SeamOK(r)

(* A name this build reads is read as one of its stages.                       *)
LEMMA ReadInSeam ==
  ASSUME NEW b \in Builds, NEW s, InSeam(b, s)
  PROVE  /\ s # NoStage => ResumeStage(b, s) \in b.stages /\ ReadName(b, s) \in b.stages
         /\ s = NoStage => ResumeStage(b, s) = NoStage /\ ReadName(b, s) = NoStage
         /\ InSeam(b, ResumeStage(b, s)) /\ InSeam(b, ReadName(b, s))
         /\ ResumeStage(b, s) \notin DOMAIN b.retired /\ ReadName(b, s) \notin DOMAIN b.retired
<1>1. NoStage \notin b.stages /\ NoStage \notin DOMAIN b.retired
      /\ (DOMAIN b.retired) \cap b.stages = {}
  BY EngineAssumption
<1>2. \A t \in DOMAIN b.retired : b.retired[t] \in b.stages BY EngineAssumption
<1>3. CASE s = NoStage BY <1>1, <1>3 DEF InSeam, Known, ResumeStage, ReadName
<1>4. CASE s \in b.stages BY <1>1, <1>4 DEF InSeam, Known, ResumeStage, ReadName
<1>5. CASE s \in DOMAIN b.retired BY <1>1, <1>2, <1>5 DEF InSeam, Known, ResumeStage, ReadName
<1>6. QED BY <1>3, <1>4, <1>5 DEF InSeam, Known

(* Lines that move no stage keep a ledger in the seam.                         *)
LEMMA SeamKept ==
  ASSUME NEW b, NEW d, NEW e, LedgerSeam(d, b),
         e.stage = d.stage, e.deferred \in {d.deferred, NoStage}, e.viol = d.viol,
         e.held => d.held, e.parked => d.parked
  PROVE  LedgerSeam(e, b)
BY DEF LedgerSeam, InSeam

LEMMA LinesInSeam ==
  ASSUME NEW b, NEW d \in Fold, LedgerSeam(d, b), NEW h \in BOOLEAN, NEW k \in Blobs,
         NEW e \in {Line(d), Answered(d), Resumed(d), HoldChanged(d, h), Repinned(d, k),
                    WaitEnded(d), Closed(d), Released(d)}
  PROVE  LedgerSeam(e, b) /\ e \in Fold
<1> DEFINE Same(f) == f.stage = d.stage /\ f.deferred \in {d.deferred, NoStage}
                      /\ f.viol = d.viol /\ (f.held => d.held) /\ (f.parked => d.parked)
<1>1. Same(Line(d)) BY DEF Line, Fold
<1>2. Same(Answered(d)) BY DEF Line, Answered, Fold
<1>3. Same(Resumed(d)) BY DEF Line, Resumed, Fold
<1>4. Same(HoldChanged(d, h)) BY DEF Line, HoldChanged, Fold
<1>5. Same(Repinned(d, k)) BY DEF Line, Repinned, Fold
<1>6. Same(WaitEnded(d)) BY DEF Line, WaitEnded, Fold
<1>7. Same(Closed(d)) BY DEF Line, Closed, Fold
<1>8. Same(Released(d)) BY DEF Line, Released, Fold
<1>9. Same(e) BY <1>1, <1>2, <1>3, <1>4, <1>5, <1>6, <1>7, <1>8
<1>10. e \in Fold BY LineFold
<1> HIDE DEF Same
<1>11. LedgerSeam(e, b) BY <1>9, SeamKept DEF Same
<1>12. QED BY <1>10, <1>11

---------------------------------------------------------------------------
(* A run that stays live.                                                      *)
LEMMA LiveSeam ==
  ASSUME IInv, Seam, [Next]_vars, NEW r \in Runs, mem[r].live, mem'[r].live
  PROVE  SeamOK(r)'
<1> DEFINE b == build
           d == led[r]
           m == mem[r]
           e == led'[r]
           n == mem'[r]
<1>1. Moves(r) /\ build' = b BY LiveSteps
<1>2. b \in Builds /\ Pair(d, m, b) /\ m \in Memory /\ d \in Fold BY LiveOK DEF IInv
<1>3. Pair(e, n, b) BY <1>1, NextOK DEF IInv, RunOK
<1>4. LedgerSeam(d, b) /\ MemorySeam(d, m, b) BY DEF Seam, SeamOK
<1>5. /\ n.held = e.held /\ n.parked = e.parked /\ m.held = d.held /\ m.parked = d.parked
      /\ ~(n.exec /\ n.parked) /\ ~(n.exec /\ n.held) /\ ~(n.parked /\ n.held)
      /\ ~(m.exec /\ m.parked) /\ ~(m.exec /\ m.held) /\ ~(m.parked /\ m.held)
      /\ m.parked => d.stage \in Stages
      /\ d.viol \in Nat /\ e.viol \in Nat
  BY <1>2, <1>3 DEF Pair, Fold
<1>6. InSeam(b, m.stage) /\ InSeam(b, m.deferred)
  <2>1. m.stage \in {d.stage, ResumeStage(b, d.stage)}
        /\ m.deferred \in {d.deferred, ResumeStage(b, d.deferred)}
    BY <1>2 DEF Pair
  <2>2. InSeam(b, d.stage) /\ InSeam(b, d.deferred) BY <1>4 DEF LedgerSeam
  <2>3. QED BY <1>2, <2>1, <2>2, ReadInSeam
<1>7. /\ \A s \in b.stages : s # NoStage /\ s \notin DOMAIN b.retired /\ InSeam(b, s)
      /\ NoStage \notin Stages /\ InSeam(b, NoStage)
  BY <1>2, EngineAssumption DEF InSeam, Known
<1>8. m.stage # NoStage => d.stage # NoStage
  BY <1>2, EngineAssumption DEF Pair, ResumeStage
<1>9. /\ InSeam(b, d.stage) /\ InSeam(b, d.deferred)
      /\ d.held => d.viol = 0 /\ d.stage # NoStage
      /\ d.parked => d.viol = 0
      /\ m.exec => d.viol = 0
      /\ m.stage \notin DOMAIN b.retired /\ (m.held => m.deferred \notin DOMAIN b.retired)
  BY <1>4 DEF LedgerSeam, MemorySeam
<1> DEFINE Goal == /\ InSeam(b, e.stage) /\ InSeam(b, e.deferred)
                   /\ e.held => e.viol = 0 /\ e.stage # NoStage
                   /\ e.parked => e.viol = 0
                   /\ n.exec => e.viol = 0
                   /\ n.stage \notin DOMAIN b.retired
                   /\ n.held => n.deferred \notin DOMAIN b.retired
<1>10. SUFFICES Goal BY <1>1 DEF SeamOK, LedgerSeam, MemorySeam
<1> DEFINE as == m.stage
           ad == m.deferred
           DP == DOMAIN b.retired
<1>11. CASE Stays(r)
  BY <1>5, <1>9, <1>11 DEF Stays, SameStage, SameDeferred, Keeps
<1>12. CASE Holds(r)
  BY <1>5, <1>6, <1>7, <1>8, <1>9, <1>12 DEF Holds, SameStage
<1>13. CASE Enters(r)
  BY <1>5, <1>6, <1>7, <1>9, <1>13 DEF Enters, SameStage
<1>14. CASE Reruns(r)
  BY <1>5, <1>9, <1>14 DEF Reruns, SameStage, SameDeferred, Keeps
<1>15. CASE Ends(r)
  BY <1>5, <1>9, <1>15 DEF Ends, SameStage, SameDeferred, Keeps
<1>16. QED BY <1>1, <1>11, <1>12, <1>13, <1>14, <1>15 DEF Moves

(* A run a start reads back, under the build the daemon goes on with.          *)
LEMMA KnownKept ==
  ASSUME Seam, NEW b \in Builds, <<build, b>> \in Upgrades, NEW r \in Runs
  PROVE  LedgerSeam(led[r], b)
<1>1. Known(build) \subseteq Known(b)
  <2> DEFINE u == <<build, b>>
  <2>1. u[1].stages \cup DOMAIN u[1].retired \subseteq u[2].stages \cup DOMAIN u[2].retired
    BY PermanentSeam
  <2>2. u[1] = build /\ u[2] = b OBVIOUS
  <2> HIDE DEF u
  <2>3. QED BY <2>1, <2>2 DEF Known
<1>2. LedgerSeam(led[r], build) BY DEF Seam, SeamOK
<1>3. QED BY <1>1, <1>2 DEF LedgerSeam, InSeam

LEMMA ResumeSeam ==
  ASSUME IInv, Seam, NEW r \in Runs, NEW b \in Builds, <<build, b>> \in Upgrades,
         led[r].phase = "open"
  PROVE  /\ LedgerSeam(ResumeOne(r, b).d, b)
         /\ MemorySeam(ResumeOne(r, b).d, ResumeOne(r, b).m, b)
         /\ LedgerSeam(Replayed(r).d, b)
         /\ LedgerSeam(Renamed(Replayed(r), led[r], b).d, b)
<1> DEFINE d == led[r]
           x == ResumeOne(r, b)
           h == RunHeld(led[r].own, ProjectOf[r], scopes)
           st == ReadName(b, d.stage)
           to == ResumeStage(b, d.deferred)
<1>1. LedgerSeam(d, b) BY KnownKept
<1>2. /\ LedgerOK(d) /\ d.viol \in Nat BY LedgersOK DEF LedgerOK, Fold
<1>3. /\ InSeam(b, d.stage) /\ InSeam(b, d.deferred)
      /\ d.held => d.viol = 0 /\ d.stage # NoStage
      /\ d.parked => d.viol = 0
      /\ d.held => d.deferred # NoStage
  BY <1>1, <1>2, EngineAssumption DEF LedgerSeam, LedgerOK
<1>4. /\ d.stage # NoStage => st \in b.stages
      /\ d.stage = NoStage => st = NoStage
      /\ d.deferred # NoStage => to \in b.stages
      /\ InSeam(b, st) /\ st \notin DOMAIN b.retired /\ to \notin DOMAIN b.retired
  BY <1>3, ReadInSeam
<1>5. NoStage \notin b.stages BY EngineAssumption
<1>6. Resumes(b, d, x, h) BY ResumeOneReads
<1>7. /\ x.m.held = x.d.held /\ x.m.parked = x.d.parked
      /\ ~(x.m.exec /\ x.m.parked) /\ ~(x.m.exec /\ x.m.held)
  BY ResumeOneOK DEF PairOK, Pair
<1>8. ReadName(b, d.stage) = st /\ ResumeStage(b, d.deferred) = to OBVIOUS
<1>9. LedgerSeam(Replayed(r).d, b) /\ LedgerSeam(Renamed(Replayed(r), led[r], b).d, b)
  <2>1. /\ ReadBack(led[r], Replayed(r), led[r].stage, led[r].deferred)
        /\ ReadBack(led[r], Renamed(Replayed(r), led[r], b),
                     ReadName(b, led[r].stage), led[r].deferred)
    BY ResumeOneReads
  <2>2. \A y : y.d.stage = d.stage /\ y.d.deferred = d.deferred /\ y.d.viol = d.viol
               /\ y.d.held = d.held /\ y.d.parked = d.parked => LedgerSeam(y.d, b)
    BY <1>1 DEF LedgerSeam
  <2>3. QED BY <2>1, <2>2 DEF ReadBack
<1> HIDE DEF x, h, st, to, d
<1>10. /\ x.m.stage = st /\ x.d.stage \in {d.stage, st}
       /\ LeftWaiting(d, x) \/ Refused(b, d, x) \/ LeftHeld(b, d, x)
          \/ StoppedThere(b, d, x, h) \/ RunAgain(b, d, x, h)
  BY <1>6, <1>8 DEF Resumes
<1>11. InSeam(b, x.d.stage) /\ (d.stage # NoStage => x.d.stage # NoStage)
  BY <1>3, <1>4, <1>5, <1>10
<1> DEFINE Goal == /\ InSeam(b, x.d.deferred)
                   /\ x.d.held => x.d.viol = 0 /\ x.d.stage # NoStage
                   /\ x.d.parked => x.d.viol = 0
                   /\ x.m.exec => x.d.viol = 0
                   /\ x.m.held => x.m.deferred \notin DOMAIN b.retired
<1>12. Goal
  <2>1. CASE LeftWaiting(d, x) BY <1>2, <1>3, <1>7, <1>11, <2>1 DEF LeftWaiting, LedgerOK
  <2>2. CASE Refused(b, d, x)
    <3>1. ~d.held
      BY <1>3, <1>4, <1>5, <1>8, <2>2 DEF Refused
    <3>2. QED BY <1>3, <1>7, <2>2, <3>1 DEF Refused
  <2>3. CASE LeftHeld(b, d, x)
    BY <1>3, <1>4, <1>7, <1>8, <1>11, <2>3 DEF LeftHeld
  <2>4. CASE StoppedThere(b, d, x, h)
    BY <1>3, <1>4, <1>5, <1>7, <1>8, <1>11, <2>4 DEF StoppedThere
  <2>5. CASE RunAgain(b, d, x, h)
    BY <1>3, <1>7, <1>11, <2>5 DEF RunAgain
  <2>6. QED BY <1>10, <2>1, <2>2, <2>3, <2>4, <2>5
<1>13. LedgerSeam(x.d, b) /\ MemorySeam(x.d, x.m, b)
  BY <1>4, <1>10, <1>11, <1>12 DEF LedgerSeam, MemorySeam
<1>14. QED BY <1>9, <1>13 DEF x

(* A run that comes to life.                                                   *)
LEMMA BornSeam ==
  ASSUME IInv, Seam, [Next]_vars, NEW r \in Runs, ~mem[r].live, mem'[r].live
  PROVE  SeamOK(r)'
<1>1. CASE /\ mode = "down" /\ led[r].phase = "open"
           /\ \E b \in Builds : Start(b) /\ build' = b /\ Becomes(r, ResumeOne(r, b))
  <2>1. PICK b \in Builds : Start(b) /\ build' = b /\ Becomes(r, ResumeOne(r, b)) BY <1>1
  <2>2. <<build, b>> \in Upgrades BY <2>1 DEF Start
  <2>3. LedgerSeam(ResumeOne(r, b).d, b) /\ MemorySeam(ResumeOne(r, b).d, ResumeOne(r, b).m, b)
    BY <1>1, <2>2, ResumeSeam
  <2>4. QED BY <2>1, <2>3 DEF SeamOK, Becomes
<1>2. CASE /\ build' = build /\ mem'[r].exec /\ ~mem'[r].held /\ led'[r].viol = 0
           /\ mem'[r].stage \in build.stages /\ led'[r].stage = mem'[r].stage
           /\ led'[r].deferred = NoStage
  <2>1. build \in Builds BY DEF IInv
  <2>2. led'[r].held = mem'[r].held /\ led'[r].parked = mem'[r].parked
        /\ ~(mem'[r].exec /\ mem'[r].parked)
    BY NextOK DEF IInv, RunOK, Pair
  <2>3. mem'[r].stage \notin DOMAIN build.retired BY <1>2, <2>1, EngineAssumption
  <2>4. LedgerSeam(led'[r], build) BY <1>2, <2>2 DEF LedgerSeam, InSeam, Known
  <2>5. MemorySeam(led'[r], mem'[r], build) BY <1>2, <2>3 DEF MemorySeam
  <2>6. QED BY <1>2, <2>4, <2>5 DEF SeamOK
<1>3. QED BY <1>1, <1>2, Begins, Born

(* Every step of a handler or a command but a close leaves its run live.       *)
LEMMA LiveThrough ==
  ASSUME NEW m \in Memory, NEW v
  PROVE  /\ Heard(m).live = m.live
         /\ [Heard(m) EXCEPT !.seats = v].live = m.live
         /\ [Heard(m) EXCEPT !.wait = v].live = m.live
         /\ [Heard(m) EXCEPT !.parked = v].live = m.live
         /\ [Heard(m) EXCEPT !.violated = v].live = m.live
         /\ [Heard(m) EXCEPT !.own = v].live = m.live
         /\ [Heard(m) EXCEPT !.pin = v].live = m.live
         /\ [m EXCEPT !.exec = v].live = m.live
         /\ [Heard(m) EXCEPT !.wait = "none", !.gate = v].live = m.live
<1> DEFINE h == Heard(m)
<1>1. h \in Memory /\ h.live = m.live BY HeardMemory DEF Heard, Memory
<1> HIDE DEF h
<1>2. /\ [h EXCEPT !.seats = v].live = h.live /\ [h EXCEPT !.wait = v].live = h.live
      /\ [h EXCEPT !.parked = v].live = h.live /\ [h EXCEPT !.violated = v].live = h.live
      /\ [h EXCEPT !.own = v].live = h.live /\ [h EXCEPT !.pin = v].live = h.live
      /\ [m EXCEPT !.exec = v].live = m.live
      /\ [h EXCEPT !.wait = "none", !.gate = v].live = h.live
  BY <1>1 DEF Memory
<1>3. QED BY <1>1, <1>2 DEF h

LEMMA OnlyACloseEnds ==
  ASSUME IInv, NEW r \in Runs, mem[r].live, ~mem'[r].live,
         \/ Handler(r) \/ SeatExit(r) \/ WaitEnd(r) \/ OtherLine(r)
         \/ Kill(r) \/ Answer(r) \/ Resolve(r) \/ HoldRun(r)
         \/ \E b \in Blobs : Reconfigure(r, b) \/ Launch(r, b)
  PROVE  /\ build' = build
         /\ \/ \E d \in {led[r], Recovered(Of(r)).d} : CloseRun(r, d)
            \/ CutShort(r, {Answered(led[r]), Resumed(Answered(led[r]))})
<1> DEFINE m == mem[r]
<1>1. m \in Memory /\ m.live BY DEF IInv
<1>1a. Pair(led[r], m, build) BY LiveOK
<1> HIDE DEF m
<1>2. ASSUME NEW x, Put(r, x) PROVE ~x.m.live /\ build' = build
  <2>1. Becomes(r, x) /\ build' = build BY <1>2, PutBecomes
  <2>2. QED BY <2>1 DEF Becomes
<1>3. \A d, n : On(d, n).m = n /\ On(d, n).d = d BY OnParts
<1>3a. ASSUME NEW e, NEW n, n.live PROVE ~Put(r, On(e, n)) BY <1>2, <1>3, <1>3a
<1>4. ~OtherLine(r)
  <2>1. SUFFICES ASSUME OtherLine(r) PROVE FALSE OBVIOUS
  <2>2. Put(r, On(Line(led[r]), Heard(m))) BY <2>1 DEF OtherLine, m
  <2>3. QED BY <1>1, <1>2, <1>3, <2>2, LiveThrough
<1>5. ~SeatStart(r) /\ ~SeatExit(r)
  <2>1. SUFFICES ASSUME SeatStart(r) \/ SeatExit(r) PROVE FALSE OBVIOUS
  <2>2. PICK v : Put(r, On(Line(led[r]), [Heard(m) EXCEPT !.seats = v]))
    BY <2>1, Zenon DEF SeatStart, SeatExit, m
  <2>3. [Heard(m) EXCEPT !.seats = v].live BY <1>1, LiveThrough
  <2>4. QED BY <1>3a, <2>2, <2>3, Zenon
<1>6. ~\E k \in WaitKinds : WaitBegin(r, k)
  <2>1. SUFFICES ASSUME NEW k \in WaitKinds, WaitBegin(r, k) PROVE FALSE OBVIOUS
  <2>2. Put(r, On(WaitBegun(led[r], k), [Heard(m) EXCEPT !.wait = k]))
    BY <2>1 DEF WaitBegin, m
  <2>3. [Heard(m) EXCEPT !.wait = k].live BY <1>1, LiveThrough
  <2>4. QED BY <1>3a, <2>2, <2>3, Zenon
<1>7. ~WaitEnd(r)
  <2>1. SUFFICES ASSUME WaitEnd(r) PROVE FALSE OBVIOUS
  <2>2. PICK v : Put(r, On(WaitEnded(led[r]), [Heard(m) EXCEPT !.wait = "none", !.gate = v]))
    BY <2>1 DEF WaitEnd, m
  <2>3. [Heard(m) EXCEPT !.wait = "none", !.gate = v].live BY <1>1, LiveThrough
  <2>4. QED BY <1>3a, <2>2, <2>3, Zenon
<1>8. Settled(r) = On(led[r], [m EXCEPT !.exec = FALSE])
      /\ [m EXCEPT !.exec = FALSE] \in Memory /\ [m EXCEPT !.exec = FALSE].live
  BY <1>1, LiveThrough DEF Settled, Memory, m
<1> DEFINE s == [m EXCEPT !.exec = FALSE]
<1>9. s \in Memory /\ s.live /\ Settled(r).m = s BY <1>3, <1>8
<1> HIDE DEF s
<1>10. ~Park(r)
  <2>1. SUFFICES ASSUME Park(r) PROVE FALSE OBVIOUS
  <2>2. Put(r, On(Parked(led[r]), [Heard(s) EXCEPT !.parked = TRUE])) BY <1>9, <2>1 DEF Park
  <2>3. [Heard(s) EXCEPT !.parked = TRUE].live BY <1>9, LiveThrough
  <2>4. QED BY <1>3a, <2>2, <2>3, Zenon
<1>11. ~Fail(r)
  <2>1. SUFFICES ASSUME Fail(r) PROVE FALSE OBVIOUS
  <2>2. \E e : Put(r, On(e, [Heard(s) EXCEPT !.violated = TRUE]))
    BY <1>9, <2>1 DEF Fail, StampViolation
  <2>3. [Heard(s) EXCEPT !.violated = TRUE].live BY <1>9, LiveThrough
  <2>4. QED BY <1>3a, <2>2, <2>3, Zenon
<1>12. ~SettleDropped(r)
  <2>1. SUFFICES ASSUME SettleDropped(r) PROVE FALSE OBVIOUS
  <2>2. Put(r, Settled(r)) BY <2>1 DEF SettleDropped
  <2>3. QED BY <1>2, <1>9, <2>2
<1>13. ~\E t \in Stages : Advance(r, t)
  <2>1. SUFFICES ASSUME NEW t \in Stages, Advance(r, t) PROVE FALSE OBVIOUS
  <2> DEFINE x == Settled(r)
             h == IsHeld(r)
  <2>2. Put(r, ChainStage(x, t, h)) /\ Returns(r) BY <2>1 DEF Advance
  <2>3. PairOK(x, build)
    <3>1. m.wait = "none" /\ ~m.gate BY <2>2 DEF Returns, Working, Running, m
    <3>2. Pair(led[r], s, build) BY <1>1a, <3>1, SettledOK DEF s, IInv
    <3>3. QED BY <1>3, <1>8, <3>2 DEF PairOK, s
  <2>4. ~x.m.parked /\ ~x.m.held /\ ~x.m.exec
    <3>1. m.exec BY <2>2 DEF Returns, Working, Running, m
    <3>2. ~m.parked /\ ~m.held BY <1>1a, <3>1 DEF Pair
    <3>3. QED BY <1>1, <1>9, <3>2 DEF s, Memory
  <2>5. h \in BOOLEAN BY <1>1 DEF IsHeld, RunHeld, Memory, m
  <2>6. build \in Builds BY DEF IInv
  <2> HIDE DEF x, h
  <2>7. PairOK(ChainStage(x, t, h), build) BY <2>3, <2>4, <2>5, <2>6, ChainOK
  <2>8. QED BY <1>2, <2>2, <2>7 DEF PairOK, Pair
<1>14. CASE Close(r) \/ Kill(r)
  <2>1. \E d \in {led[r], Recovered(Of(r)).d} : CloseRun(r, d) BY <1>14 DEF Close, Kill
  <2>2. build' = build BY <2>1, <1>2 DEF CloseRun, CutShort, Dies
  <2>3. QED BY <2>1, <2>2
<1>15. CASE Answer(r)
  <2> DEFINE y == On(Resumed(Answered(led[r])), [Heard(m) EXCEPT !.parked = FALSE])
  <2>1. \/ Put(r, IF IsHeld(r) THEN HoldAt(y, m.stage, TRUE) ELSE ExecuteStage(y))
        \/ CutShort(r, {Answered(led[r])} \cup IF IsHeld(r) THEN {y.d} ELSE {})
    BY <1>15 DEF Answer, m
  <2>2. m.parked BY <1>15 DEF Answer, m
  <2>3. build \in Builds BY DEF IInv
  <2>4. PairOK(y, build) /\ y.d = Resumed(Answered(led[r])) /\ ~y.m.parked /\ ~y.m.exec
        /\ ~y.m.held /\ y.m.live
    <3> DEFINE n == [Heard(m) EXCEPT !.parked = FALSE]
    <3>1. Pair(Resumed(Answered(led[r])), n, build) BY <1>1a, <2>2, <2>3, AnsweredOK
    <3>2. Heard(m) \in Memory /\ Heard(m).exec = m.exec /\ Heard(m).held = m.held
      BY <1>1, HeardMemory DEF Heard, Memory
    <3>3. n.exec = m.exec /\ n.held = m.held /\ ~n.parked BY <3>2 DEF Memory
    <3>4. ~m.exec /\ ~m.held BY <1>1a, <2>2 DEF Pair
    <3> HIDE DEF n
    <3>5. y.d = Resumed(Answered(led[r])) /\ y.m = n BY <1>3 DEF n
    <3> HIDE DEF y
    <3>6. QED BY <3>1, <3>3, <3>4, <3>5 DEF PairOK, Pair
  <2>5. m.stage \in Stages BY <1>1a, <2>2 DEF Pair
  <2> HIDE DEF y
  <2>6. ~Put(r, IF IsHeld(r) THEN HoldAt(y, m.stage, TRUE) ELSE ExecuteStage(y))
    <3>1. PairOK(HoldAt(y, m.stage, TRUE), build) BY <2>3, <2>4, <2>5, StepsOK
    <3>2. HoldAt(y, m.stage, TRUE).m.live BY <3>1 DEF PairOK, Pair
    <3>3. ExecuteStage(y) = On(y.d, [y.m EXCEPT !.exec = TRUE]) BY DEF ExecuteStage
    <3>4. y.m \in Memory BY <2>4 DEF PairOK, Pair
    <3>4a. [y.m EXCEPT !.exec = TRUE].live BY <2>4, <3>4, LiveThrough
    <3>5. ~Put(r, ExecuteStage(y)) BY <1>3a, <3>3, <3>4a, Zenon
    <3>6. QED BY <1>2, <3>2, <3>5
  <2>7. CutShort(r, {Answered(led[r])} \cup IF IsHeld(r) THEN {y.d} ELSE {}) BY <2>1, <2>6
  <2>8. CutShort(r, {Answered(led[r]), Resumed(Answered(led[r]))}) /\ build' = build
    BY <2>4, <2>7 DEF CutShort, Dies
  <2>9. QED BY <2>8
<1>16. ~Resolve(r)
  <2>1. SUFFICES ASSUME Resolve(r) PROVE FALSE OBVIOUS
  <2> DEFINE h == Heard(m)
             k == [h EXCEPT !.violated = FALSE]
  <2>2. h \in Memory /\ h.live BY <1>1, HeardMemory, LiveThrough
  <2>3. k \in Memory /\ k.live BY <1>1, <2>2, LiveThrough DEF Memory
  <2>4. [k EXCEPT !.exec = TRUE].live BY <2>3, LiveThrough
  <2>5. \E e : \/ Put(r, On(e, h)) \/ Put(r, On(e, k)) \/ Put(r, On(e, [k EXCEPT !.exec = TRUE]))
    <3> DEFINE x == On(Resolved(led[r]), h)
               y == On(x.d, [x.m EXCEPT !.violated = FALSE])
    <3>1. Put(r, x) \/ Put(r, ExecuteStage(y)) \/ Put(r, y)
      BY <2>1 DEF Resolve, m
    <3>2. x.d = Resolved(led[r]) /\ x.m = h BY <1>3
    <3>3. y = On(Resolved(led[r]), k) BY <3>2
    <3>4. y.d = Resolved(led[r]) /\ y.m = k BY <1>3, <3>3
    <3> HIDE DEF y, h, k
    <3>5. ExecuteStage(y) = On(Resolved(led[r]), [k EXCEPT !.exec = TRUE])
      BY <3>4 DEF ExecuteStage
    <3>6. QED BY <3>1, <3>3, <3>5
  <2> HIDE DEF h, k
  <2>6. QED BY <1>3a, <2>2, <2>3, <2>4, <2>5, Zenon
<1>17. ~HoldRun(r)
  <2>1. SUFFICES ASSUME HoldRun(r) PROVE FALSE OBVIOUS
  <2>2. Put(r, On(HoldChanged(led[r], TRUE), [Heard(m) EXCEPT !.own = TRUE])) BY <2>1 DEF HoldRun, m
  <2>3. [Heard(m) EXCEPT !.own = TRUE].live BY <1>1, LiveThrough
  <2>4. QED BY <1>3a, <2>2, <2>3, Zenon
<1>18. ~\E b \in Blobs : Reconfigure(r, b)
  <2>1. SUFFICES ASSUME NEW b \in Blobs, Reconfigure(r, b) PROVE FALSE OBVIOUS
  <2>2. Put(r, On(Repinned(led[r], b), [Heard(m) EXCEPT !.pin = b])) BY <2>1 DEF Reconfigure, m
  <2>3. [Heard(m) EXCEPT !.pin = b].live BY <1>1, LiveThrough
  <2>4. QED BY <1>3a, <2>2, <2>3, Zenon
<1>19. ~\E b \in Blobs : Launch(r, b)
  BY <1>1a DEF Launch, Pair
<1>20. QED
  BY <1>4, <1>5, <1>6, <1>7, <1>10, <1>11, <1>12, <1>13, <1>14, <1>15, <1>16, <1>17, <1>18, <1>19
  DEF Handler

(* A crash leaves every ledger of a walk in the seam, if each of its steps does. *)
LEMMA WalkSeam ==
  ASSUME NEW b, NEW from, NEW todo, NEW final, NEW cut, todo \subseteq Runs,
         \A q \in Runs : LedgerSeam(from[q], b),
         \A q \in todo : LedgerSeam(final[q].d, b) /\ \A d \in cut[q] : LedgerSeam(d, b),
         CutWalk(from, todo, final, cut), NEW r \in Runs
  PROVE  LedgerSeam(led'[r], b)
<1>1. PICK done \in SUBSET todo : \E p \in todo \ done : \E d \in cut[p] :
        led' = [q \in Runs |-> IF q = p THEN d ELSE IF q \in done THEN final[q].d ELSE from[q]]
  BY DEF CutWalk
<1>1a. PICK p \in todo \ done, d \in UNION {cut[q] : q \in todo} :
         d \in cut[p] /\
         led' = [q \in Runs |-> IF q = p THEN d ELSE IF q \in done THEN final[q].d ELSE from[q]]
  BY <1>1
<1>2. led'[r] = IF r = p THEN d ELSE IF r \in done THEN final[r].d ELSE from[r] BY <1>1a
<1>3. QED BY <1>1a, <1>2

(* What a release writes.                                                      *)
LEMMA ReleaseSeam ==
  ASSUME NEW b \in Builds, NEW x, LedgerSeam(x.d, b), Pair(x.d, x.m, b)
  PROVE  LedgerSeam(ReleaseOne(x).d, b)
<1> DEFINE e == Released(x.d)
           n == [Heard(x.m) EXCEPT !.held = FALSE, !.deferred = NoStage, !.dresume = FALSE]
           f == Entered(e, x.m.deferred)
<1>1. x.d \in Fold /\ TRUE \in BOOLEAN /\ AnyBlob \in Blobs
  BY EngineAssumption DEF Pair, AnyBlob
<1>2. LedgerSeam(e, b) /\ e \in Fold BY <1>1, LinesInSeam
<1>3. ~e.held BY <1>1 DEF Released, Line, Fold
<1>4. InSeam(b, x.m.deferred)
  <2>1. x.m.deferred \in {x.d.deferred, ResumeStage(b, x.d.deferred)} BY DEF Pair
  <2>2. InSeam(b, x.d.deferred) BY DEF LedgerSeam
  <2>3. QED BY <2>1, <2>2, ReadInSeam
<1>5. /\ f.stage = x.m.deferred /\ f.deferred = e.deferred /\ f.viol = e.viol
      /\ f.held = e.held /\ f.parked = e.parked
  <2> HIDE DEF e
  <2>1. QED BY <1>2 DEF Entered, Fold
<1>6. LedgerSeam(f, b)
  <2> HIDE DEF e, f
  <2>1. QED BY <1>2, <1>3, <1>4, <1>5 DEF LedgerSeam
<1>7. ReleaseOne(x).d \in {x.d, e, f}
  <2> DEFINE y == On(e, n)
  <2>1. y.d = e /\ y.m = n BY OnParts
  <2>2. ReleaseOne(x) = IF ~x.m.held THEN On(x.d, [x.m EXCEPT !.gate = FALSE])
                        ELSE IF x.m.dresume THEN ExecuteStage(y) ELSE EnterStage(y, x.m.deferred)
    BY DEF ReleaseOne
  <2> HIDE DEF e, n, y
  <2>3. ExecuteStage(y).d = e BY <2>1, OnParts DEF ExecuteStage
  <2>4. EnterStage(y, x.m.deferred).d = f BY <2>1, OnParts DEF EnterStage
  <2>5. On(x.d, [x.m EXCEPT !.gate = FALSE]).d = x.d BY OnParts
  <2>6. QED BY <2>2, <2>3, <2>4, <2>5
<1>8. QED BY <1>2, <1>6, <1>7

LEMMA ReleaseHeldRunsSeam ==
  ASSUME IInv, NEW now, NEW sc, ReleaseHeldRuns(now, sc),
         \A q \in Runs : LedgerSeam(now[q].d, build) /\ now[q].d \in Fold
                         /\ (now[q].m.live => Pair(now[q].d, now[q].m, build)),
         NEW r \in Runs
  PROVE  LedgerSeam(led'[r], build) /\ build' = build
<1> DEFINE todo == {q \in Runs : /\ now[q].m.live /\ (now[q].m.held \/ now[q].m.gate)
                                 /\ ~RunHeld(now[q].m.own, ProjectOf[q], sc)}
           from == [q \in Runs |-> now[q].d]
           final == [q \in Runs |-> ReleaseOne(now[q])]
           cut == [q \in Runs |-> {now[q].d} \cup
                                  IF now[q].m.held THEN {Released(now[q].d)} ELSE {}]
<1>1. \/ /\ led' = [q \in Runs |-> IF q \in todo THEN final[q].d ELSE from[q]]
         /\ UNCHANGED Daemon
      \/ CutWalk(from, todo, final, cut) /\ Dies
  BY DEF ReleaseHeldRuns
<1>2. build' = build BY <1>1, DiesDown DEF Daemon
<1>3. build \in Builds BY DEF IInv
<1>4. todo \subseteq Runs /\ \A q \in todo : now[q].m.live OBVIOUS
<1>5. \A q \in Runs : from[q] = now[q].d /\ final[q] = ReleaseOne(now[q]) OBVIOUS
<1>6. \A q \in Runs : \A d \in cut[q] : d = now[q].d \/ d = Released(now[q].d) OBVIOUS
<1> HIDE DEF todo, from, final, cut
<1>7. \A q \in Runs : LedgerSeam(from[q], build) BY <1>5
<1>8. \A q \in todo : LedgerSeam(final[q].d, build) BY <1>3, <1>4, <1>5, ReleaseSeam
<1>9. \A q \in todo : \A d \in cut[q] : LedgerSeam(d, build)
  <2> TAKE q \in todo
  <2>1. now[q].d \in Fold /\ LedgerSeam(now[q].d, build) /\ AnyBlob \in Blobs
    BY <1>4, EngineAssumption DEF AnyBlob
  <2>2. LedgerSeam(Released(now[q].d), build) BY <2>1, LinesInSeam
  <2>3. QED BY <1>4, <1>6, <2>1, <2>2
<1>10. LedgerSeam(led'[r], build)
  <2>1. CASE CutWalk(from, todo, final, cut) BY <1>4, <1>7, <1>8, <1>9, <2>1, WalkSeam
  <2>2. CASE led' = [q \in Runs |-> IF q \in todo THEN final[q].d ELSE from[q]]
    BY <1>7, <1>8, <2>2
  <2>3. QED BY <1>1, <2>1, <2>2
<1>11. QED BY <1>2, <1>10

LEMMA ReleasesSeam ==
  ASSUME IInv, Seam, (\E s \in Scopes : ReleaseScope(s)) \/ (\E q \in Runs : ReleaseRun(q)),
         NEW r \in Runs
  PROVE  LedgerSeam(led'[r], build')
<1> DEFINE now == [q \in Runs |-> Of(q)]
           Good(f) == \A q \in Runs : LedgerSeam(f[q].d, build) /\ f[q].d \in Fold
                                      /\ (f[q].m.live => Pair(f[q].d, f[q].m, build))
<1>1. \A q \in Runs : now[q] = On(led[q], mem[q]) /\ now[q].d = led[q] /\ now[q].m = mem[q]
  BY OnParts DEF Of
<1>2. \A q \in Runs : /\ LedgerSeam(led[q], build) /\ led[q] \in Fold
                      /\ mem[q].live => Pair(led[q], mem[q], build)
  BY LiveOK DEF Seam, SeamOK, IInv
<1>3. Good(now)
  <2> HIDE DEF now
  <2>1. QED BY <1>1, <1>2
<1>4. ASSUME NEW s \in Scopes, ReleaseScope(s) PROVE LedgerSeam(led'[r], build')
  <2>1. ReleaseHeldRuns(now, scopes') BY <1>4 DEF ReleaseScope
  <2> HIDE DEF now
  <2>2. QED BY <1>3, <2>1, ReleaseHeldRunsSeam
<1>5. ASSUME NEW p \in Runs, ReleaseRun(p) PROVE LedgerSeam(led'[r], build')
  <2> DEFINE x == IF ~mem[p].own THEN Of(p) ELSE Freed(p)
             f == [now EXCEPT ![p] = x]
  <2>1. ReleaseHeldRuns(f, scopes) /\ mem[p].live BY <1>5 DEF ReleaseRun, Freed
  <2>2. f[p] = x /\ \A q \in Runs \ {p} : f[q] = now[q] OBVIOUS
  <2>3. LedgerSeam(x.d, build) /\ x.d \in Fold /\ Pair(x.d, x.m, build)
    <3>1. Pair(led[p], mem[p], build) /\ build \in Builds BY <1>2, <2>1 DEF IInv
    <3>2. CASE x = Of(p)
      <4> HIDE DEF x
      <4>1. x.d = led[p] /\ x.m = mem[p] BY <3>2, OnParts DEF Of
      <4>2. QED BY <1>2, <3>1, <4>1
    <3>3. CASE x = Freed(p)
      <4> DEFINE e == HoldChanged(led[p], FALSE)
                 n == [Heard(mem[p]) EXCEPT !.own = FALSE]
      <4>1. Pair(e, n, build) BY <3>1, HoldChangedOK
      <4>2. AnyBlob \in Blobs BY EngineAssumption DEF AnyBlob
      <4>3. LedgerSeam(e, build) /\ e \in Fold BY <1>2, <4>2, LinesInSeam
      <4> HIDE DEF e, n
      <4>3a. Freed(p) = On(e, n) BY DEF Freed, e, n
      <4> HIDE DEF x
      <4>4. x.d = e /\ x.m = n BY <3>3, <4>3a, OnParts
      <4>5. QED BY <4>1, <4>3, <4>4
    <3>4. QED BY <3>2, <3>3
  <2> HIDE DEF x, f, now
  <2>4. Good(f) BY <1>3, <2>2, <2>3
  <2>5. QED BY <2>1, <2>4, ReleaseHeldRunsSeam
<1>6. QED BY <1>4, <1>5

LEMMA StopBeginSeam ==
  ASSUME IInv, Seam, StopBegin, NEW r \in Runs
  PROVE  LedgerSeam(led'[r], build')
<1> DEFINE todo == {q \in Runs : mem[q].live /\ (mem[q].wait # "none" \/ mem[q].gate)}
           e(q) == Recovered(Of(q)).d
           n(q) == [Recovered(Of(q)).m EXCEPT !.wait = "none", !.gate = FALSE]
           final == [q \in Runs |-> On(e(q), n(q))]
           cut == [q \in Runs |-> {led[q]}]
<1>1. \/ led' = [q \in Runs |-> IF q \in todo THEN final[q].d ELSE led[q]]
      \/ CutWalk(led, todo, final, cut)
  BY DEF StopBegin
<1>2. build' = build BY DiesDown DEF StopBegin
<1>3. \A q \in Runs : LedgerSeam(led[q], build) /\ led[q] \in Fold
  BY DEF Seam, SeamOK, IInv
<1>4. todo \subseteq Runs OBVIOUS
<1>5. \A q \in Runs : LedgerSeam(final[q].d, build)
  <2> TAKE q \in Runs
  <2>1. final[q].d = e(q) BY OnParts
  <2>2. e(q) = led[q] \/ e(q) = WaitEnded(led[q]) BY OnParts DEF Recovered, Of
  <2>3. AnyBlob \in Blobs BY EngineAssumption DEF AnyBlob
  <2>4. LedgerSeam(WaitEnded(led[q]), build) BY <1>3, <2>3, LinesInSeam
  <2>5. QED BY <1>3, <2>1, <2>2, <2>4
<1>6. \A q \in Runs : \A d \in cut[q] : LedgerSeam(d, build) BY <1>3
<1> HIDE DEF todo, final, cut
<1>7. CASE CutWalk(led, todo, final, cut)
  BY <1>2, <1>3, <1>4, <1>5, <1>6, <1>7, WalkSeam
<1>8. CASE led' = [q \in Runs |-> IF q \in todo THEN final[q].d ELSE led[q]]
  BY <1>2, <1>3, <1>5, <1>8
<1>9. QED BY <1>1, <1>7, <1>8

LEMMA StartSeam ==
  ASSUME IInv, Seam, NEW b \in Builds, Start(b), NEW r \in Runs
  PROVE  LedgerSeam(led'[r], build')
<1> DEFINE todo == {q \in Runs : led[q].phase = "open"}
           final == [q \in Runs |-> ResumeOne(q, b)]
           cut == [q \in Runs |-> {led[q], Replayed(q).d, Renamed(Replayed(q), led[q], b).d}]
<1>1. \/ led' = [q \in Runs |-> IF q \in todo THEN final[q].d ELSE led[q]]
      \/ CutWalk(led, todo, final, cut)
  BY DEF Start
<1>2. build' = b /\ <<build, b>> \in Upgrades BY DEF Start
<1>3. \A q \in Runs : LedgerSeam(led[q], b) BY <1>2, KnownKept
<1>4. todo \subseteq Runs /\ \A q \in todo : led[q].phase = "open" OBVIOUS
<1>5. \A q \in Runs : /\ final[q] = ResumeOne(q, b)
                      /\ cut[q] = {led[q], Replayed(q).d, Renamed(Replayed(q), led[q], b).d}
  OBVIOUS
<1> HIDE DEF todo, final, cut
<1>6. \A q \in todo : LedgerSeam(final[q].d, b) BY <1>2, <1>4, <1>5, ResumeSeam
<1>7. \A q \in todo : \A d \in cut[q] : LedgerSeam(d, b)
  BY <1>2, <1>3, <1>4, <1>5, ResumeSeam
<1>8. CASE CutWalk(led, todo, final, cut)
  BY <1>2, <1>3, <1>4, <1>6, <1>7, <1>8, WalkSeam
<1>9. CASE led' = [q \in Runs |-> IF q \in todo THEN final[q].d ELSE led[q]]
  BY <1>2, <1>3, <1>6, <1>9
<1>10. QED BY <1>1, <1>8, <1>9

(* A run that is not live after the step: closed, never launched, or left by a *)
(* daemon that died.                                                           *)
LEMMA DeadSeam ==
  ASSUME IInv, Seam, [Next]_vars, NEW r \in Runs, ~mem'[r].live
  PROVE  LedgerSeam(led'[r], build')
<1> DEFINE d == led[r]
<1>1. LedgerSeam(d, build) /\ d \in Fold /\ LedgerOK(d) BY LedgersOK DEF Seam, SeamOK
<1>2. ASSUME led'[r] = led[r], build' = build PROVE LedgerSeam(led'[r], build') BY <1>1, <1>2
<1>3. ASSUME NEW q \in Runs,
             \/ Handler(q) \/ SeatExit(q) \/ WaitEnd(q) \/ OtherLine(q)
             \/ Kill(q) \/ Answer(q) \/ Resolve(q) \/ HoldRun(q)
             \/ \E b \in Blobs : Reconfigure(q, b) \/ Launch(q, b)
      PROVE  LedgerSeam(led'[r], build')
  <2>1. (\E x : Put(q, x)) \/ Dies BY <1>3, OneRun
  <2>2. build' = build BY <2>1, PutBecomes, DiesDown
  <2>3. CASE q = r /\ mem[r].live
    <3>1. \/ \E e \in {led[r], Recovered(Of(r)).d} : CloseRun(r, e)
          \/ CutShort(r, {Answered(led[r]), Resumed(Answered(led[r]))})
      BY <1>3, <2>3, OnlyACloseEnds
    <3>2. led \in [Runs -> Fold] BY DEF IInv
    <3>3. AnyBlob \in Blobs BY EngineAssumption DEF AnyBlob
    <3>4. LedgerSeam(Answered(d), build) /\ Answered(d) \in Fold BY <1>1, <3>3, LinesInSeam
    <3>5. LedgerSeam(Resumed(Answered(d)), build) BY <3>3, <3>4, LinesInSeam
    <3>6. CASE CutShort(r, {Answered(led[r]), Resumed(Answered(led[r]))})
      BY <2>2, <3>2, <3>4, <3>5, <3>6 DEF CutShort
    <3>7. ASSUME NEW e \in {led[r], Recovered(Of(r)).d}, CloseRun(r, e)
          PROVE  LedgerSeam(led'[r], build')
      <4>1. e = d \/ e = WaitEnded(d) BY OnParts DEF Recovered, Of
      <4>2. LedgerSeam(e, build) /\ e \in Fold BY <1>1, <3>3, <4>1, LinesInSeam
      <4>3. LedgerSeam(Line(e), build) /\ LedgerSeam(Closed(e), build)
        BY <3>3, <4>2, LinesInSeam
      <4>4. Put(r, On(Closed(e), NotLive)) \/ CutShort(r, {e, Line(e)}) BY <3>7 DEF CloseRun
      <4>5. CASE Put(r, On(Closed(e), NotLive))
        <5>1. led'[r] = Closed(e) BY <4>5, PutBecomes, OnParts DEF Becomes
        <5>2. QED BY <2>2, <4>3, <5>1
      <4>6. CASE CutShort(r, {e, Line(e)})
        <5>1. led'[r] \in {e, Line(e)} BY <3>2, <4>6 DEF CutShort
        <5>2. QED BY <2>2, <4>2, <4>3, <5>1
      <4>7. QED BY <4>4, <4>5, <4>6
    <3>8. QED BY <3>1, <3>6, <3>7
  <2>4. CASE q = r /\ ~mem[r].live
    <3>1. ~(mem[r].exec \/ mem[r].parked \/ mem[r].gate \/ mem[r].wait # "none" \/ mem[r].seats # 0)
      BY <2>4, LiveOK
    <3>2. ~(mem[r].seats > 0) BY <3>1
    <3>3. ~Handler(r) /\ ~SeatExit(r) /\ ~WaitEnd(r) /\ ~OtherLine(r)
      BY <2>4, <3>1, <3>2 DEF Handler, SeatStart, Park, Fail, Close, SettleDropped, WaitBegin,
                              Advance, SeatExit, WaitEnd, OtherLine, Returns, Working, Running
    <3>4. ~Kill(r) /\ ~Answer(r) /\ ~Resolve(r) /\ ~HoldRun(r) /\ \A b \in Blobs : ~Reconfigure(r, b)
      BY <2>4, <3>1 DEF Kill, Answer, Resolve, HoldRun, Reconfigure
    <3>5. PICK b \in Blobs : Launch(r, b) BY <1>3, <2>4, <3>3, <3>4
    <3> DEFINE x == On(Launched(led[r], b), [NotLive EXCEPT !.live = TRUE, !.pin = b])
    <3>6. Put(r, EnterStage(x, build.first)) \/ CutShort(r, {x.d}) BY <3>5 DEF Launch
    <3>7. led[r] = NoLedger
      <4>1. led[r].phase = "absent" BY <3>5 DEF Launch
      <4>2. QED BY <1>1, <4>1 DEF LedgerOK
    <3>8. x.d = Launched(NoLedger, b) BY <3>7, OnParts
    <3>9. LedgerSeam(Launched(NoLedger, b), build)
      BY DEF Launched, Line, NoLedger, LedgerSeam, InSeam
    <3>10. ~Put(r, EnterStage(x, build.first))
      <4>1. SUFFICES ASSUME Put(r, EnterStage(x, build.first)) PROVE FALSE OBVIOUS
      <4> DEFINE n == [NotLive EXCEPT !.live = TRUE, !.pin = b]
                 k == [n EXCEPT !.stage = build.first, !.quiet = Append(@, build.first), !.exec = TRUE]
      <4>2. n \in Memory /\ n.live
        <5>1. NotLive \in Memory BY NotLiveOK
        <5> HIDE DEF NotLive
        <5>2. QED BY <5>1 DEF Memory
      <4>3. x.m = n BY OnParts
      <4> HIDE DEF x, n
      <4>4. EnterStage(x, build.first).m = k BY <4>3, OnParts DEF EnterStage
      <4>5. k.live BY <4>2 DEF Memory
      <4> HIDE DEF k
      <4>6. mem'[r] = k BY <4>1, <4>4, PutBecomes DEF Becomes
      <4>7. QED BY <4>5, <4>6
    <3> HIDE DEF x
    <3>11. led'[r] = x.d
      <4>1. led \in [Runs -> Fold] BY DEF IInv
      <4>2. QED BY <3>6, <3>10, <4>1 DEF CutShort
    <3>12. QED BY <2>2, <3>8, <3>9, <3>11
  <2>5. CASE q # r
    <3>1. led'[r] = led[r]
      <4>1. CASE \E x : Put(q, x) BY <2>5, <4>1, PutBecomes, OnParts DEF Becomes, Of
      <4>2. CASE \A x : ~Put(q, x)
        <5>1. \E cut : CutShort(q, cut)
          BY <1>3, <2>1, <4>2, OneRun
          DEF Handler, SeatStart, Park, Fail, Close, SettleDropped, WaitBegin, Advance, CloseRun,
              SeatExit, WaitEnd, OtherLine, Kill, Answer, Resolve, HoldRun, Reconfigure, Launch
        <5>2. led \in [Runs -> Fold] BY DEF IInv
        <5>3. QED BY <2>5, <5>1, <5>2 DEF CutShort
      <4>3. QED BY <4>1, <4>2
    <3>2. QED BY <1>2, <2>2, <3>1
  <2>6. QED BY <2>3, <2>4, <2>5
<1>4. CASE UNCHANGED vars BY <1>2, <1>4 DEF vars
<1>5. CASE (\E s \in Scopes : ReleaseScope(s)) \/ (\E q \in Runs : ReleaseRun(q))
  BY <1>5, ReleasesSeam
<1>6. CASE \E s \in Scopes : HoldScope(s) BY <1>2, <1>6 DEF HoldScope
<1>7. CASE StopBegin BY <1>7, StopBeginSeam
<1>8. CASE StopEnd \/ Crash BY <1>2, <1>8, DiesDown DEF StopEnd, Crash
<1>9. CASE \E b \in Builds : Start(b) BY <1>9, StartSeam
<1>10. QED BY <1>3, <1>4, <1>5, <1>6, <1>7, <1>8, <1>9 DEF Next, Command

LEMMA SeamKeptByNext == IInv /\ Seam /\ [Next]_vars => Seam'
<1> SUFFICES ASSUME IInv, Seam, [Next]_vars, NEW r \in Runs PROVE SeamOK(r)' BY DEF Seam
<1>1. CASE mem[r].live /\ mem'[r].live BY <1>1, LiveSeam
<1>2. CASE ~mem[r].live /\ mem'[r].live BY <1>2, BornSeam
<1>3. CASE ~mem'[r].live BY <1>3, DeadSeam DEF SeamOK
<1>4. QED BY <1>1, <1>2, <1>3

LEMMA InitSeam == Init => Seam
<1> SUFFICES ASSUME Init, NEW r \in Runs PROVE SeamOK(r) BY DEF Seam
<1>1. led[r] = NoLedger /\ mem[r] = NotLive BY DEF Init
<1>2. LedgerSeam(NoLedger, build) BY DEF NoLedger, LedgerSeam, InSeam
<1>3. QED BY <1>1, <1>2, NotLiveOK DEF SeamOK

(* Whatever builds a home goes through, as long as each keeps a line for what it *)
(* dropped, no open run stands in a retired stage or defers one (sendOnRetired). *)
THEOREM NoRunOnARetiredName == Spec => []NoRetiredName
<1>1. Seam => NoRetiredName BY DEF Seam, SeamOK, MemorySeam, NoRetiredName
<1>2. QED BY InitOK, NextOK, InitSeam, SeamKeptByNext, <1>1, PTL DEF Spec

---------------------------------------------------------------------------
Pcs == {"enter", "plan", "batch", "rerun", "rerun-out", "rendered"}
MidCycle == {"plan", "batch", "rerun", "rerun-out"}

Record ==
  [status : {"none", "green", "red", "not-runnable"}, red : SUBSET AllParts,
   carried : SUBSET AllParts, attempt : Nat, cycle : Nat]
Job ==
  [st : {"start", "out", "done", "error"}, attempt : Nat, run : SUBSET AllParts,
   all : SUBSET AllParts, carry : SUBSET AllParts]
Jobs == UNION {[S -> Job] : S \in SUBSET Gates}
Place ==
  [pc : Pcs, confirming : BOOLEAN, left : SUBSET DOMAIN Layers,
   tasks : Jobs, layers : SUBSET Gates, now : SUBSET Gates]

Typed ==
  /\ moved \in [Files -> Nat]
  /\ cycle \in [nth : Nat, opened : Nat, own : SUBSET Files, certified : Bases]
  /\ cur \in [Gates -> Record] /\ prior \in [Gates -> Record]
  /\ verdict \in {"none", "red", "green"} /\ at \in Place
  /\ ran \in [AllParts -> [in : Nat, green : BOOLEAN]]

(* Nothing is dated behind the cycle that runs. *)
Clock ==
  /\ \A f \in Files : moved[f] <= cycle.nth
  /\ \A p \in AllParts : ran[p].in <= cycle.nth
  /\ cycle.opened <= cycle.nth
  /\ \A l \in Gates : cur[l].cycle <= cycle.nth /\ prior[l].cycle <= cycle.nth

Proven(p) == ProvenByARun(p) \/ ProvenAtTheBase(p)

(* A result speaks of the parts of its layer, and a green shows no red. *)
Shape(l, record) ==
  /\ record.red \subseteq Parts[l] /\ record.carried \subseteq Parts[l]
  /\ record.status = "green" => record.red = {}

(* What a result of this cycle does not show red is proven; what one of an   *)
(* earlier cycle did not show red is, where its ground has not moved since.  *)
CurIsProven ==
  \A l \in Gates : HasParts(cur[l]) =>
      Shape(l, cur[l]) /\ \A p \in Parts[l] \ cur[l].red : Proven(p)
PriorIsProven ==
  \A l \in Gates : cur[l].status = "none" /\ HasParts(prior[l]) =>
      /\ Shape(l, prior[l])
      /\ \A p \in Parts[l] \ prior[l].red :
            Ground[p] \cap MovedSince(prior[l].cycle) = {} => Proven(p)
(* A layer without a result of this cycle has run no part in it. *)
UnrunIsOld ==
  \A l \in Gates : cur[l].status = "none" => \A p \in Parts[l] : ran[p].in < cycle.nth

Evidence == Clock /\ CurIsProven /\ PriorIsProven /\ UnrunIsOld

(* What a task leaves out of its run is proven, and a sweep that confirms    *)
(* carries nothing into what it runs.                                        *)
JobOK(l, job, confirming) ==
  /\ job.run \subseteq job.all /\ job.all \subseteq Parts[l] /\ job.carry \subseteq Parts[l]
  /\ \A p \in Parts[l] \ job.all : Proven(p)
  /\ confirming => job.carry = {}
TasksAreSound ==
  /\ at.pc = "batch" => \A l \in DOMAIN at.tasks : JobOK(l, at.tasks[l], at.confirming)
  /\ at.pc # "batch" => DOMAIN at.tasks = {}

ConfirmedReds ==
  at.confirming => \A l \in Gates : HasParts(cur[l]) /\ cur[l].carried # {} => cur[l].red = {}

(* The ladder runs again what is red in this cycle. *)
LadderIsRed ==
  /\ at.pc \in {"rerun", "rerun-out"} => at.left = {}
  /\ at.pc \notin {"rerun", "rerun-out"} => at.layers = {}
  /\ at.pc # "rerun-out" => at.now = {}
  /\ at.pc = "rerun-out" => \E l \in Gates \ at.layers : at.now = {l}
  /\ \A l \in at.layers \union at.now : cur[l].status = "red"

(* A place of the table the spectrum is through with has a result of this    *)
(* cycle, or a task, or is one a targeted cycle carries.                     *)
Processed ==
  at.pc \in MidCycle =>
    \A k \in DOMAIN Layers \ at.left :
        \/ cur[Layers[k]].status # "none"
        \/ Layers[k] \in DOMAIN at.tasks /\ at.tasks[Layers[k]].st # "done"
        \/ CarriedResult(Layers[k], at.confirming)

(* The attempts that are open are those whose child is out. *)
Out ==
  CASE at.pc = "batch" -> {<<l, at.tasks[l].attempt>> : l \in {l \in DOMAIN at.tasks : at.tasks[l].st = "out"}}
    [] at.pc = "rerun-out" -> {<<l, cur[l].attempt + 1>> : l \in at.now}
    [] OTHER -> {}
Opens == open = Out

Judged == (verdict # "none" => at.pc = "rendered") /\ GreenIsProven

Carries ==
  /\ carry.brought \cap Unreadable = {}
  /\ (carry.brought \ RecordFiles) \cap (story \union Sources \union Suites \union DeclaredInputs) = {}
  /\ \A ground \in carry.lenses : ground \cap carry.brought = {}
  /\ at.pc # "rendered" => carry.brought = {}

Inv ==
  /\ Typed /\ Evidence /\ TasksAreSound /\ ConfirmedReds /\ LadderIsRed
  /\ Processed /\ Opens /\ Judged /\ Carries

-----------------------------------------------------------------------------

(* A task of the batch goes on, and nothing else of the place moves. *)
LEMMA JobStep ==
  ASSUME at \in Place, NEW l \in DOMAIN at.tasks, NEW job \in Job,
         at' = [at EXCEPT !.tasks[l] = job]
  PROVE  /\ at' \in Place
         /\ at'.pc = at.pc /\ at'.confirming = at.confirming /\ at'.left = at.left
         /\ at'.layers = at.layers /\ at'.now = at.now
         /\ DOMAIN at'.tasks = DOMAIN at.tasks /\ at'.tasks[l] = job
         /\ \A m \in DOMAIN at.tasks : m # l => at'.tasks[m] = at.tasks[m]
<1>1. PICK S \in SUBSET Gates : at.tasks \in [S -> Job] BY DEF Place, Jobs
<1>2. l \in S /\ DOMAIN at.tasks = S BY <1>1
<1> DEFINE next == [at.tasks EXCEPT ![l] = job]
<1>3. next \in [S -> Job] /\ next[l] = job /\ \A m \in S : m # l => next[m] = at.tasks[m]
  BY <1>1, <1>2
<1>4. next \in Jobs BY <1>3 DEF Jobs
<1>5. at' = [at EXCEPT !.tasks = next] OBVIOUS
<1> HIDE DEF next
<1>6. at' \in Place /\ at'.tasks = next BY <1>4, <1>5 DEF Place
<1>7. /\ at'.pc = at.pc /\ at'.confirming = at.confirming /\ at'.left = at.left
      /\ at'.layers = at.layers /\ at'.now = at.now
  BY <1>5 DEF Place
<1>8. DOMAIN next = S BY <1>3
<1>9. QED BY <1>2, <1>3, <1>6, <1>7, <1>8

(* The tasks of a place are jobs of layers. *)
LEMMA TaskTypes ==
  ASSUME at \in Place
  PROVE  DOMAIN at.tasks \subseteq Gates /\ \A l \in DOMAIN at.tasks : at.tasks[l] \in Job
<1>1. PICK S \in SUBSET Gates : at.tasks \in [S -> Job] BY DEF Place, Jobs
<1>2. QED BY <1>1

(* A place a handler starts from. *)
LEMMA PcTypes ==
  ASSUME NEW pc \in Pcs
  PROVE  /\ Pc(pc) \in Place /\ Pc(pc).pc = pc /\ ~Pc(pc).confirming /\ Pc(pc).left = {}
         /\ DOMAIN Pc(pc).tasks = {} /\ Pc(pc).layers = {} /\ Pc(pc).now = {}
<1>1. NoTasks \in [{} -> Job] BY DEF NoTasks
<1>2. NoTasks \in Jobs /\ DOMAIN NoTasks = {} BY <1>1 DEF Jobs
<1>3. QED BY <1>2 DEF Pc, Place

(* A set of layers is among its dependents. *)
LEMMA DependentsInclude ==
  ASSUME NEW S \in SUBSET Gates PROVE S \subseteq WithDependents(S)
BY DEF WithDependents

(* What proves a part is read off the ground, the cycle and its own runs. *)
LEMMA StillProven ==
  ASSUME UNCHANGED <<moved, cycle>>, NEW p, ran'[p] = ran[p], Proven(p)
  PROVE  Proven(p)'
BY DEF Proven, ProvenByARun, ProvenAtTheBase

(* A part that ran green in this cycle is proven. *)
LEMMA GreenIsProof ==
  ASSUME Typed, Clock, UNCHANGED <<moved, cycle>>, NEW p \in AllParts,
         ran'[p].in = cycle.nth, ran'[p].green
  PROVE  Proven(p)'
BY GroundIsOfFiles DEF Clock, Proven, ProvenByARun

(* A result judges the parts its layer ran, and no other. *)
LEMMA ObserveOf ==
  ASSUME Typed, NEW parts \in SUBSET AllParts, NEW failed, Observe(parts, failed)
  PROVE  /\ ran' \in [AllParts -> [in : Nat, green : BOOLEAN]]
         /\ \A p \in parts : ran'[p].in = cycle.nth /\ (ran'[p].green <=> p \notin failed)
         /\ \A p \in AllParts \ parts : ran'[p] = ran[p]
BY DEF Observe, Typed

LEMMA PartsOf ==
  /\ \A l \in Gates : Parts[l] \subseteq AllParts
  /\ \A p \in AllParts : \E l \in Gates : p \in Parts[l]
BY DEF AllParts

(* --- steps that leave the results alone ---------------------------------- *)

LEMMA QuietEvidence ==
  ASSUME Evidence, UNCHANGED <<moved, cycle, cur, prior, ran>>
  PROVE  Evidence'
<1>1. Clock' BY DEF Evidence, Clock
<1>2. \A p : Proven(p) => Proven(p)' BY DEF Proven, ProvenByARun, ProvenAtTheBase
<1>3. CurIsProven' BY <1>2 DEF Evidence, CurIsProven, Shape, HasParts
<1>4. PriorIsProven' BY <1>2 DEF Evidence, PriorIsProven, Shape, HasParts, MovedSince
<1>5. UnrunIsOld' BY DEF Evidence, UnrunIsOld
<1>6. QED BY <1>1, <1>3, <1>4, <1>5 DEF Evidence

(* What a cycle runs is settled when it begins. *)
LEMMA PlanStands ==
  ASSUME UNCHANGED <<moved, cycle, prior>>
  PROVE  /\ Sweep' = Sweep /\ CyclePlan' = CyclePlan
         /\ \A l, c : CarriedResult(l, c)' <=> CarriedResult(l, c)
<1>1. Sweep' = Sweep BY DEF Sweep, Unclaimed
<1>2. CyclePlan' = CyclePlan
  <2>1. TargetedLayers' = TargetedLayers BY DEF TargetedLayers, WithDependents, Below
  <2>2. Footprint' = Footprint BY DEF Footprint, Touched, WithDependents, Below
  <2>3. QED BY <1>1, <2>1, <2>2 DEF CyclePlan
<1>3. QED BY <1>1, <1>2 DEF CarriedResult

(* While a cycle runs there is no verdict, and nothing was brought under it. *)
LEMMA Unjudged ==
  ASSUME Judged, Carries, at.pc # "rendered", UNCHANGED <<verdict, story, carry>>
  PROVE  Judged' /\ Carries'
<1>1. verdict = "none" BY DEF Judged
<1>2. Judged' BY <1>1 DEF Judged, GreenIsProven
<1>3. carry.brought = {} BY DEF Carries
<1>4. Carries' BY <1>3 DEF Carries
<1>5. QED BY <1>2, <1>4

(* The place changes, or the handler stops and comes back to its entry. *)
LEMMA QuietTyped ==
  ASSUME Typed, UNCHANGED <<moved, cycle, cur, prior, ran, verdict>>, at' \in Place
  PROVE  Typed'
BY DEF Typed

LEMMA BackToEntry ==
  ASSUME Inv, UNCHANGED <<moved, cycle, cur, prior, ran, verdict, story, carry>>,
         at.pc # "rendered", at' = Pc("enter"), open' = {}
  PROVE  Inv'
<1>1. at' \in Place /\ at'.pc = "enter" /\ ~at'.confirming /\ DOMAIN at'.tasks = {}
      /\ at'.layers = {} /\ at'.now = {}
  BY PcTypes DEF Pcs
<1>2. Typed' /\ Evidence' BY <1>1, QuietTyped, QuietEvidence DEF Inv
<1>3. TasksAreSound' /\ ConfirmedReds' /\ LadderIsRed' /\ Processed'
  BY <1>1 DEF TasksAreSound, ConfirmedReds, LadderIsRed, Processed, MidCycle
<1>4. Opens' BY <1>1 DEF Opens, Out
<1>5. Judged' /\ Carries' BY Unjudged DEF Inv
<1>6. QED BY <1>2, <1>3, <1>4, <1>5 DEF Inv

LEMMA StartTypes ==
  ASSUME NEW c \in BOOLEAN, at' = Spectrum(c)
  PROVE  /\ at' \in Place /\ at'.pc = "plan" /\ at'.confirming = c /\ at'.left = DOMAIN Layers
         /\ DOMAIN at'.tasks = {} /\ at'.layers = {} /\ at'.now = {}
<1> DEFINE place == Pc("plan")
<1>1. place \in Place /\ DOMAIN place.tasks = {} /\ place.layers = {} /\ place.now = {} /\ place.pc = "plan"
  BY PcTypes DEF Pcs
<1> HIDE DEF place
<1>2. at' = [place EXCEPT !.confirming = c, !.left = DOMAIN Layers] BY DEF place, Spectrum
<1>3. QED BY <1>1, <1>2 DEF Place

LEMMA StartsASpectrum ==
  ASSUME Inv, UNCHANGED <<moved, cycle, cur, prior, ran, verdict, story, carry>>, NEW c \in BOOLEAN,
         at' = Spectrum(c),
         at.pc # "rendered", open = {}, UNCHANGED open,
         c => \A l \in Gates : cur[l].status # "red"
  PROVE  Inv'
<1>1. /\ at' \in Place /\ at'.pc = "plan" /\ at'.confirming = c /\ at'.left = DOMAIN Layers
      /\ DOMAIN at'.tasks = {} /\ at'.layers = {} /\ at'.now = {}
  BY StartTypes
<1>2. Typed' /\ Evidence' BY <1>1, QuietTyped, QuietEvidence DEF Inv
<1>3. TasksAreSound' /\ LadderIsRed' /\ Processed'
  BY <1>1 DEF TasksAreSound, LadderIsRed, Processed
<1>4. ConfirmedReds'
  BY <1>1 DEF Inv, Evidence, ConfirmedReds, CurIsProven, Shape, HasParts
<1>5. Opens' BY <1>1 DEF Opens, Out
<1>6. Judged' /\ Carries' BY Unjudged DEF Inv
<1>7. QED BY <1>2, <1>3, <1>4, <1>5, <1>6 DEF Inv

LEMMA RunCycleInv == ASSUME Inv, Layer(RunCycle) PROVE Inv'
<1>1. at.pc = "enter" BY DEF Layer, RunCycle
<1>2. UNCHANGED <<moved, cycle, cur, prior, open, ran, verdict, story, carry>>
  BY DEF Layer, RunCycle, world
<1>3. open = {} BY <1>1 DEF Inv, Opens, Out
<1>4. at' = Spectrum(FALSE)
  BY DEF Layer, RunCycle, Go
<1>5. QED BY <1>1, <1>2, <1>3, <1>4, StartsASpectrum

LEMMA ConfirmInv == ASSUME Inv, Layer(Confirm) PROVE Inv'
<1>1. at.pc = "plan" /\ PersistentReds = {} BY DEF Layer, Confirm, SpectrumEnds
<1>2. UNCHANGED <<moved, cycle, cur, prior, open, ran, verdict, story, carry>>
  BY DEF Layer, Confirm, world
<1>3. open = {} BY <1>1 DEF Inv, Opens, Out
<1>4. at' = Spectrum(TRUE)
  BY DEF Layer, Confirm, Go
<1>5. \A l \in Gates : cur[l].status # "red" BY <1>1 DEF PersistentReds, Standing
<1>6. QED BY <1>1, <1>2, <1>3, <1>4, <1>5, StartsASpectrum

LEMMA CrashInv == ASSUME Inv, Layer(GateCrash) PROVE Inv'
<1>1. at.pc # "rendered" /\ at' = Pc("enter") /\ open' = {}
  BY DEF Layer, GateCrash, Go, RecoverOpenAttempts
<1>2. UNCHANGED <<moved, cycle, cur, prior, ran, verdict, story, carry>> BY DEF Layer, GateCrash
<1>3. QED BY <1>1, <1>2, BackToEntry

LEMMA RerunErrorInv == ASSUME Inv, Layer(RerunError) PROVE Inv'
<1>1. at.pc # "rendered" /\ at' = Pc("enter") /\ open' = {} BY DEF Layer, RerunError, Go
<1>2. UNCHANGED <<moved, cycle, cur, prior, ran, verdict, story, carry>> BY DEF Layer, RerunError
<1>3. QED BY <1>1, <1>2, BackToEntry

LEMMA InitInv == ASSUME FastInit PROVE Inv
<1> USE DEF FastInit, GateInit
<1>1. at \in Place /\ at.pc = "enter" /\ ~at.confirming /\ DOMAIN at.tasks = {}
      /\ at.layers = {} /\ at.now = {}
  BY PcTypes DEF Pcs
<1>2. cycle.nth = 1 /\ cycle.opened = 1 /\ cycle.own \in SUBSET Files
      /\ cycle \in [nth : Nat, opened : Nat, own : SUBSET Files, certified : Bases]
  OBVIOUS
<1>3. \A l \in Gates : cur[l] = NoResult /\ prior[l] = NoResult OBVIOUS
<1>4. NoResult \in Record BY DEF NoResult, Record
<1>5. Typed BY <1>1, <1>2, <1>4 DEF Typed
<1>6. Evidence
  <2>1. Clock BY <1>2, <1>3 DEF Clock, NoResult
  <2>2. CurIsProven /\ PriorIsProven
    BY <1>3 DEF CurIsProven, PriorIsProven, HasParts, NoResult
  <2>3. UnrunIsOld BY <1>2, PartsOf DEF UnrunIsOld
  <2>4. QED BY <2>1, <2>2, <2>3 DEF Evidence
<1>7. TasksAreSound /\ ConfirmedReds /\ LadderIsRed /\ Processed
  BY <1>1 DEF TasksAreSound, ConfirmedReds, LadderIsRed, Processed, MidCycle
<1>8. Opens BY <1>1 DEF Opens, Out
<1>9. Judged /\ Carries BY DEF Judged, GreenIsProven, Carries, Anew
<1>10. QED BY <1>5, <1>6, <1>7, <1>8, <1>9 DEF Inv

(* A task moves on without a result: its child starts, or cannot run. *)
LEMMA TaskMoves ==
  ASSUME Inv, UNCHANGED <<moved, cycle, cur, prior, ran, verdict, story, carry>>,
         at.pc = "batch", NEW l \in DOMAIN at.tasks, NEW job \in Job, at' = [at EXCEPT !.tasks[l] = job],
         at.tasks[l].st # "done", job.st # "done",
         JobOK(l, job, at.confirming),
         open' = {<<m, at'.tasks[m].attempt>> : m \in {m \in DOMAIN at'.tasks : at'.tasks[m].st = "out"}}
  PROVE  Inv'
<1>1. at \in Place BY DEF Inv, Typed
<1>2. /\ at' \in Place
      /\ at'.pc = at.pc /\ at'.confirming = at.confirming /\ at'.left = at.left
      /\ at'.layers = at.layers /\ at'.now = at.now
      /\ DOMAIN at'.tasks = DOMAIN at.tasks /\ at'.tasks[l] = job
      /\ \A m \in DOMAIN at.tasks : m # l => at'.tasks[m] = at.tasks[m]
  BY <1>1, JobStep
<1>3. Typed' /\ Evidence' BY <1>2, QuietTyped, QuietEvidence DEF Inv
<1>4. \A p : Proven(p) => Proven(p)' BY DEF Proven, ProvenByARun, ProvenAtTheBase
<1>5. \A m \in DOMAIN at.tasks : JobOK(m, at'.tasks[m], at'.confirming)
  BY <1>2 DEF Inv, TasksAreSound
<1>6. \A m, k, c : JobOK(m, k, c) => JobOK(m, k, c)' BY <1>4 DEF JobOK
<1>7. TasksAreSound' BY <1>2, <1>5, <1>6 DEF TasksAreSound
<1>8. ConfirmedReds' /\ LadderIsRed' BY <1>2 DEF Inv, ConfirmedReds, LadderIsRed
<1>9. Processed' BY <1>2, PlanStands DEF Inv, Processed
<1>10. Opens' BY <1>2 DEF Opens, Out
<1>11. Judged' /\ Carries' BY Unjudged DEF Inv
<1>12. QED BY <1>3, <1>7, <1>8, <1>9, <1>10, <1>11 DEF Inv

(* The attempts out before one task moved on. *)
LEMMA OutOfBatch ==
  ASSUME Inv, at.pc = "batch"
  PROVE  open = {<<m, at.tasks[m].attempt>> : m \in {m \in DOMAIN at.tasks : at.tasks[m].st = "out"}}
BY DEF Inv, Opens, Out

LEMMA LayerStartedInv == ASSUME Inv, NEW l \in Gates, Layer(LayerStarted(l)) PROVE Inv'
<1>1. at.pc = "batch" /\ l \in DOMAIN at.tasks /\ at.tasks[l].st = "start"
  BY DEF Layer, LayerStarted, In
<1> DEFINE job == [at.tasks[l] EXCEPT !.st = "out"]
<1>2. at \in Place /\ at.tasks[l] \in Job BY <1>1, TaskTypes DEF Inv, Typed
<1>3. job \in Job /\ job.st = "out" /\ job.attempt = at.tasks[l].attempt /\ job.run = at.tasks[l].run
      /\ job.all = at.tasks[l].all /\ job.carry = at.tasks[l].carry
  BY <1>2 DEF Job
<1>4. at' = [at EXCEPT !.tasks[l] = job] BY DEF Layer, LayerStarted, Go
<1>5. JobOK(l, job, at.confirming) BY <1>1, <1>3 DEF Inv, TasksAreSound, JobOK
<1> HIDE DEF job
<1>6. UNCHANGED <<moved, cycle, cur, prior, ran, verdict, story, carry>>
  BY DEF Layer, LayerStarted, world
<1>7. open' = open \union {<<l, at.tasks[l].attempt>>} BY DEF Layer, LayerStarted
<1>8. DOMAIN at'.tasks = DOMAIN at.tasks /\ at'.tasks[l] = job
      /\ \A m \in DOMAIN at.tasks : m # l => at'.tasks[m] = at.tasks[m]
  BY <1>1, <1>2, <1>3, <1>4, JobStep
<1>9. open' = {<<m, at'.tasks[m].attempt>> : m \in {m \in DOMAIN at'.tasks : at'.tasks[m].st = "out"}}
  BY <1>1, <1>3, <1>7, <1>8, OutOfBatch
<1>10. QED BY <1>1, <1>3, <1>4, <1>5, <1>6, <1>9, TaskMoves

LEMMA CommandErrorInv == ASSUME Inv, NEW l \in Gates, Layer(CommandError(l)) PROVE Inv'
<1>1. at.pc = "batch" /\ l \in DOMAIN at.tasks /\ at.tasks[l].st = "out"
  BY DEF Layer, CommandError, In
<1> DEFINE job == [at.tasks[l] EXCEPT !.st = "error"]
<1>2. at \in Place /\ at.tasks[l] \in Job BY <1>1, TaskTypes DEF Inv, Typed
<1>3. job \in Job /\ job.st = "error" /\ job.attempt = at.tasks[l].attempt /\ job.run = at.tasks[l].run
      /\ job.all = at.tasks[l].all /\ job.carry = at.tasks[l].carry
  BY <1>2 DEF Job
<1>4. at' = [at EXCEPT !.tasks[l] = job] BY DEF Layer, CommandError, Go
<1>5. JobOK(l, job, at.confirming) BY <1>1, <1>3 DEF Inv, TasksAreSound, JobOK
<1> HIDE DEF job
<1>6. UNCHANGED <<moved, cycle, cur, prior, ran, verdict, story, carry>>
  BY DEF Layer, CommandError, world
<1>7. open' = open \ {<<l, at.tasks[l].attempt>>} BY DEF Layer, CommandError
<1>8. DOMAIN at'.tasks = DOMAIN at.tasks /\ at'.tasks[l] = job
      /\ \A m \in DOMAIN at.tasks : m # l => at'.tasks[m] = at.tasks[m]
  BY <1>1, <1>2, <1>3, <1>4, JobStep
<1>9. open' = {<<m, at'.tasks[m].attempt>> : m \in {m \in DOMAIN at'.tasks : at'.tasks[m].st = "out"}}
  BY <1>1, <1>3, <1>7, <1>8, OutOfBatch
<1>10. QED BY <1>1, <1>3, <1>4, <1>5, <1>6, <1>9, TaskMoves

LEMMA BatchEndsInv == ASSUME Inv, Layer(BatchEnds) PROVE Inv'
<1>1. at.pc = "batch" /\ \A l \in DOMAIN at.tasks : at.tasks[l].st \in {"done", "error"}
  BY DEF Layer, BatchEnds
<1>2. UNCHANGED <<moved, cycle, cur, prior, open, ran, verdict, story, carry>> BY DEF Layer, BatchEnds
<1>3. open = {} BY <1>1, OutOfBatch
<1>4. CASE \E l \in DOMAIN at.tasks : at.tasks[l].st = "error"
  <2>1. at' = Pc("enter") BY <1>4 DEF Layer, BatchEnds, Go
  <2>2. QED BY <1>1, <1>2, <1>3, <2>1, BackToEntry
<1>5. CASE ~\E l \in DOMAIN at.tasks : at.tasks[l].st = "error"
  <2>1. at' = [at EXCEPT !.pc = "plan", !.tasks = NoTasks] BY <1>5 DEF Layer, BatchEnds, Go
  <2>2. at \in Place BY DEF Inv, Typed
  <2>3. NoTasks \in [{} -> Job] BY DEF NoTasks
  <2>4. NoTasks \in Jobs /\ DOMAIN NoTasks = {} BY <2>3 DEF Jobs
  <2>5. at' \in Place /\ at'.pc = "plan" /\ at'.confirming = at.confirming /\ at'.left = at.left
        /\ DOMAIN at'.tasks = {} /\ at'.layers = at.layers /\ at'.now = at.now
    BY <2>1, <2>2, <2>4 DEF Place, Pcs
  <2>6. Typed' /\ Evidence' BY <1>2, <2>5, QuietTyped, QuietEvidence DEF Inv
  <2>7. TasksAreSound' /\ ConfirmedReds' /\ LadderIsRed'
    BY <1>1, <1>2, <2>5 DEF Inv, TasksAreSound, ConfirmedReds, LadderIsRed
  <2>8. Processed' BY <1>1, <1>2, <1>5, <2>5, PlanStands DEF Inv, Processed, MidCycle
  <2>9. Opens' BY <1>2, <1>3, <2>5 DEF Opens, Out
  <2>10. Judged' /\ Carries' BY <1>1, <1>2, Unjudged DEF Inv
  <2>11. QED BY <2>6, <2>7, <2>8, <2>9, <2>10 DEF Inv
<1>6. QED BY <1>4, <1>5

(* --- a layer settles ----------------------------------------------------- *)

LEMMA ResultArrives ==
  ASSUME Inv, UNCHANGED <<moved, cycle, prior, verdict>>, at' \in Place,
         NEW l \in Gates, NEW all \in SUBSET Parts[l], NEW failed \in SUBSET all, NEW record \in Record,
         Observe(all, failed), cur' = [cur EXCEPT ![l] = record],
         HasParts(record), record.red = failed, record.carried \subseteq Parts[l],
         record.status = "green" => failed = {}, record.cycle = cycle.nth,
         \A p \in Parts[l] \ all : Proven(p)
  PROVE  Typed' /\ Evidence'
<1>1. Typed /\ Clock /\ CurIsProven /\ PriorIsProven /\ UnrunIsOld BY DEF Inv, Evidence
<1>2. all \in SUBSET AllParts BY PartsOf
<1>3. /\ ran' \in [AllParts -> [in : Nat, green : BOOLEAN]]
      /\ \A p \in all : ran'[p].in = cycle.nth /\ (ran'[p].green <=> p \notin failed)
      /\ \A p \in AllParts \ all : ran'[p] = ran[p]
  BY <1>1, <1>2, ObserveOf
<1>4. /\ cur' \in [Gates -> Record] /\ cur'[l] = record
      /\ \A m \in Gates : m # l => cur'[m] = cur[m]
  BY <1>1 DEF Typed
<1>5. Typed' BY <1>1, <1>3, <1>4 DEF Typed
<1>6. \A m \in Gates : m # l => \A p \in Parts[m] : ran'[p] = ran[p]
  BY <1>3, PartsOf, PartsAreOfOneLayer DEF AllParts
<1>7. \A m \in Gates : m # l => \A p \in Parts[m] : Proven(p) => Proven(p)'
  BY <1>6, StillProven
<1>8. \A p \in Parts[l] \ failed : Proven(p)'
  <2>1. TAKE p \in Parts[l] \ failed
  <2>2. p \in AllParts BY PartsOf
  <2>3. CASE p \in all
    <3>1. ran'[p].in = cycle.nth /\ ran'[p].green BY <1>3, <2>1, <2>3
    <3>2. QED BY <1>1, <2>2, <3>1, GreenIsProof
  <2>4. CASE p \notin all BY <1>3, <2>1, <2>2, <2>4, StillProven
  <2>5. QED BY <2>3, <2>4
<1>9. Clock'
  <2>1. \A p \in AllParts : ran'[p].in <= cycle.nth
    <3>1. TAKE p \in AllParts
    <3>2. CASE p \in all
      <4>1. ran'[p].in = cycle.nth BY <1>3, <3>2
      <4>2. QED BY <1>1, <4>1 DEF Typed
    <3>3. CASE p \notin all BY <1>1, <1>3, <3>3 DEF Clock
    <3>4. QED BY <3>2, <3>3
  <2>2. \A m \in Gates : cur'[m].cycle <= cycle.nth BY <1>1, <1>4 DEF Clock, Typed
  <2>3. QED BY <1>1, <2>1, <2>2 DEF Clock
<1>10. CurIsProven'
  <2>1. \A m \in Gates : m # l /\ HasParts(cur'[m]) =>
           Shape(m, cur'[m]) /\ \A p \in Parts[m] \ cur'[m].red : Proven(p)'
    BY <1>1, <1>4, <1>7 DEF CurIsProven
  <2>2. Shape(l, cur'[l]) /\ \A p \in Parts[l] \ cur'[l].red : Proven(p)'
    BY <1>4, <1>8 DEF Shape
  <2>3. QED BY <2>1, <2>2 DEF CurIsProven, HasParts, Shape
<1>11. PriorIsProven'
  <2> SUFFICES ASSUME NEW m \in Gates, cur'[m].status = "none", HasParts(prior[m])
      PROVE  /\ Shape(m, prior[m])
             /\ \A p \in Parts[m] \ prior[m].red :
                   Ground[p] \cap MovedSince(prior[m].cycle) = {} => Proven(p)'
    BY DEF PriorIsProven, HasParts, Shape, MovedSince
  <2>1. m # l /\ cur[m].status = "none" BY <1>4 DEF HasParts
  <2>2. QED BY <1>1, <1>7, <2>1 DEF PriorIsProven
<1>12. UnrunIsOld' BY <1>1, <1>4, <1>6 DEF UnrunIsOld, HasParts
<1>13. QED BY <1>5, <1>9, <1>10, <1>11, <1>12 DEF Evidence

LEMMA ResultTypes ==
  ASSUME Typed, NEW status \in {"green", "red", "not-runnable"}, NEW carried \in SUBSET AllParts, NEW attempt \in Nat
  PROVE  /\ Result(status, carried, attempt) \in Record
         /\ Result(status, carried, attempt).status = status /\ Result(status, carried, attempt).red = {}
         /\ Result(status, carried, attempt).carried = carried /\ Result(status, carried, attempt).cycle = cycle.nth
BY DEF Typed, Result, Record

LEMMA EachResultTypes ==
  Typed => \A status \in {"green", "red", "not-runnable"}, carried \in SUBSET AllParts, attempt \in Nat :
             /\ Result(status, carried, attempt) \in Record /\ Result(status, carried, attempt).status = status
             /\ Result(status, carried, attempt).carried = carried /\ Result(status, carried, attempt).cycle = cycle.nth
<1> SUFFICES ASSUME Typed, NEW status \in {"green", "red", "not-runnable"}, NEW carried \in SUBSET AllParts, NEW attempt \in Nat
             PROVE  /\ Result(status, carried, attempt) \in Record /\ Result(status, carried, attempt).status = status
                    /\ Result(status, carried, attempt).carried = carried /\ Result(status, carried, attempt).cycle = cycle.nth
  OBVIOUS
<1> QED
  BY DEF Typed, Result, Record

(* A first red is superseded: nothing is judged yet. *)
LEMMA SettleSuperseded ==
  ASSUME Inv, NEW l \in Gates, In(l, "out"), NEW failed \in SUBSET at.tasks[l].run,
         at' = [at EXCEPT !.tasks[l] = [at.tasks[l] EXCEPT !.st = "start", !.attempt = @ + 1, !.run = failed]],
         open' = open \ {<<l, at.tasks[l].attempt>>},
         UNCHANGED <<moved, cycle, cur, prior, ran, verdict, story, carry>>
  PROVE  Inv'
<1>1. at.pc = "batch" /\ l \in DOMAIN at.tasks /\ at.tasks[l].st = "out" BY DEF In
<1> DEFINE job == [at.tasks[l] EXCEPT !.st = "start", !.attempt = @ + 1, !.run = failed]
<1>2. at \in Place /\ at.tasks[l] \in Job BY <1>1, TaskTypes DEF Inv, Typed
<1>a. at.tasks[l].attempt + 1 \in Nat /\ failed \in SUBSET AllParts BY <1>2 DEF Job
<1>3. job \in Job /\ job.st = "start" /\ job.run = failed
      /\ job.all = at.tasks[l].all /\ job.carry = at.tasks[l].carry
  BY <1>2, <1>a DEF Job
<1>4. at' = [at EXCEPT !.tasks[l] = job] OBVIOUS
<1>5. JobOK(l, job, at.confirming) BY <1>1, <1>3 DEF Inv, TasksAreSound, JobOK
<1> HIDE DEF job
<1>6. DOMAIN at'.tasks = DOMAIN at.tasks /\ at'.tasks[l] = job
      /\ \A m \in DOMAIN at.tasks : m # l => at'.tasks[m] = at.tasks[m]
  BY <1>1, <1>2, <1>3, <1>4, JobStep
<1>7. open' = {<<m, at'.tasks[m].attempt>> : m \in {m \in DOMAIN at'.tasks : at'.tasks[m].st = "out"}}
  BY <1>1, <1>3, <1>6, OutOfBatch
<1>8. QED BY <1>1, <1>3, <1>4, <1>5, <1>7, TaskMoves

LEMMA SettleJudged ==
  ASSUME Inv, NEW l \in Gates, In(l, "out"), NEW failed \in SUBSET at.tasks[l].run,
         Observe(at.tasks[l].all, failed),
         cur' = [cur EXCEPT ![l] =
                   [Result(IF failed = {} THEN "green" ELSE "red", at.tasks[l].carry, at.tasks[l].attempt)
                      EXCEPT !.red = failed]],
         at' = [at EXCEPT !.tasks[l].st = "done"],
         open' = open \ {<<l, at.tasks[l].attempt>>},
         UNCHANGED <<moved, cycle, prior, verdict, story, carry>>
  PROVE  Inv'
<1>1. at.pc = "batch" /\ l \in DOMAIN at.tasks /\ at.tasks[l].st = "out" BY DEF In
<1> DEFINE job == [at.tasks[l] EXCEPT !.st = "done"]
           status == IF failed = {} THEN "green" ELSE "red"
           result == Result(status, at.tasks[l].carry, at.tasks[l].attempt)
           record == [result EXCEPT !.red = failed]
<1>2. at \in Place /\ at.tasks[l] \in Job BY <1>1, TaskTypes DEF Inv, Typed
<1>3. job \in Job /\ job.st = "done" /\ job.run = at.tasks[l].run
      /\ job.all = at.tasks[l].all /\ job.carry = at.tasks[l].carry
  BY <1>2 DEF Job
<1>4. JobOK(l, at.tasks[l], at.confirming) BY <1>1 DEF Inv, TasksAreSound
<1>a. at.tasks[l].carry \in SUBSET AllParts /\ at.tasks[l].attempt \in Nat BY <1>2 DEF Job
<1>b. status \in {"green", "red", "not-runnable"} OBVIOUS
<1>c. Typed BY DEF Inv
<1> HIDE DEF status
<1>5. result \in Record /\ result.status = status /\ result.carried = at.tasks[l].carry /\ result.cycle = cycle.nth
  BY <1>a, <1>b, <1>c, EachResultTypes
<1> USE DEF status
<1>6. failed \in SUBSET at.tasks[l].all /\ at.tasks[l].all \in SUBSET Parts[l] BY <1>4 DEF JobOK
<1>7. failed \in SUBSET AllParts BY <1>6, PartsOf
<1> HIDE DEF result
<1>8. record \in Record /\ record.status = status /\ record.red = failed
      /\ record.carried = at.tasks[l].carry /\ record.cycle = cycle.nth
  BY <1>5, <1>7 DEF Record
<1>9. cur' = [cur EXCEPT ![l] = record] BY DEF result
<1> HIDE DEF record
<1>10. at' = [at EXCEPT !.tasks[l] = job] OBVIOUS
<1> HIDE DEF job
<1>11. /\ at' \in Place
       /\ at'.pc = at.pc /\ at'.confirming = at.confirming /\ at'.left = at.left
       /\ at'.layers = at.layers /\ at'.now = at.now
       /\ DOMAIN at'.tasks = DOMAIN at.tasks /\ at'.tasks[l] = job
       /\ \A m \in DOMAIN at.tasks : m # l => at'.tasks[m] = at.tasks[m]
  BY <1>1, <1>2, <1>3, <1>10, JobStep
<1>12. \A p \in Parts[l] \ at.tasks[l].all : Proven(p) BY <1>4 DEF JobOK
<1>13. HasParts(record) /\ record.carried \subseteq Parts[l] /\ (record.status = "green" => failed = {})
  BY <1>4, <1>8 DEF HasParts, JobOK
<1>14. Typed' /\ Evidence' BY <1>6, <1>8, <1>9, <1>11, <1>12, <1>13, ResultArrives
<1>15. cur'[l] = record /\ \A m \in Gates : m # l => cur'[m] = cur[m] BY <1>9 DEF Inv, Typed
<1>16. \A m \in DOMAIN at'.tasks : JobOK(m, at.tasks[m], at.confirming)'
  <2>1. TAKE m \in DOMAIN at'.tasks
  <2>2. JobOK(m, at'.tasks[m], at.confirming)
    BY <1>1, <1>3, <1>11 DEF Inv, TasksAreSound, JobOK
  <2>3. \A p \in Parts[m] \ at'.tasks[m].all : Proven(p)'
    <3>1. TAKE p \in Parts[m] \ at'.tasks[m].all
    <3>2. Proven(p) BY <2>2 DEF JobOK
    <3>3. m \in Gates BY <1>2, <1>11, TaskTypes
    <3>4. p \in AllParts /\ at.tasks[l].all \in SUBSET AllParts BY <3>3, PartsOf, <1>2 DEF Job
    <3>5. p \notin at.tasks[l].all
      <4>1. CASE m = l BY <1>3, <1>11, <4>1
      <4>2. CASE m # l BY <1>6, <3>3, <4>2, PartsAreOfOneLayer
      <4>3. QED BY <4>1, <4>2
    <3>6. ran'[p] = ran[p] BY <3>4, <3>5, ObserveOf DEF Inv
    <3>7. QED BY <3>2, <3>6, StillProven
  <2>4. QED BY <2>2, <2>3, <1>11 DEF JobOK
<1>17. TasksAreSound' BY <1>1, <1>11, <1>16 DEF TasksAreSound
<1>18. ConfirmedReds'
  BY <1>4, <1>8, <1>11, <1>15 DEF Inv, ConfirmedReds, JobOK
<1>19. LadderIsRed' BY <1>1, <1>11 DEF Inv, LadderIsRed
<1>20. Processed'
  <2> SUFFICES ASSUME NEW k \in DOMAIN Layers \ at.left
      PROVE  \/ cur'[Layers[k]].status # "none"
             \/ Layers[k] \in DOMAIN at'.tasks /\ at'.tasks[Layers[k]].st # "done"
             \/ CarriedResult(Layers[k], at.confirming)
    BY <1>11, PlanStands DEF Processed
  <2>1. CASE Layers[k] = l BY <1>8, <1>15, <2>1
  <2>2. CASE Layers[k] # l
    <3>1. cur'[Layers[k]] = cur[Layers[k]] BY <1>15, <2>2 DEF Gates
    <3>2. QED BY <1>1, <1>11, <2>2, <3>1 DEF Inv, Processed, MidCycle
  <2>3. QED BY <2>1, <2>2
<1>21. open' = {<<m, at'.tasks[m].attempt>> : m \in {m \in DOMAIN at'.tasks : at'.tasks[m].st = "out"}}
  BY <1>1, <1>3, <1>11, OutOfBatch
<1>22. Opens' BY <1>1, <1>11, <1>21 DEF Opens, Out
<1>23. Judged' /\ Carries' BY <1>1, Unjudged DEF Inv
<1>24. QED BY <1>14, <1>17, <1>18, <1>19, <1>20, <1>22, <1>23 DEF Inv

LEMMA SettleInv == ASSUME Inv, NEW l \in Gates, Layer(Settle(l)) PROVE Inv'
<1>1. In(l, "out") BY DEF Layer, Settle
<1>2. PICK failed \in SUBSET at.tasks[l].run :
        /\ open' = open \ {<<l, at.tasks[l].attempt>>}
        /\ IF failed # {} /\ Superseded(at.tasks[l].attempt)
           THEN /\ at' = [at EXCEPT !.tasks[l] = [at.tasks[l] EXCEPT !.st = "start", !.attempt = @ + 1, !.run = failed]]
                /\ UNCHANGED <<cur, ran>>
           ELSE /\ Observe(at.tasks[l].all, failed)
                /\ cur' = [cur EXCEPT ![l] =
                      [Result(IF failed = {} THEN "green" ELSE "red", at.tasks[l].carry, at.tasks[l].attempt)
                         EXCEPT !.red = failed]]
                /\ at' = [at EXCEPT !.tasks[l].st = "done"]
  BY DEF Layer, Settle, Go
<1>3. UNCHANGED <<moved, cycle, prior, verdict, story, carry>> BY DEF Layer, Settle, world
<1>4. CASE failed # {} /\ Superseded(at.tasks[l].attempt) BY <1>1, <1>2, <1>3, <1>4, SettleSuperseded
<1>5. CASE ~(failed # {} /\ Superseded(at.tasks[l].attempt)) BY <1>1, <1>2, <1>3, <1>5, SettleJudged
<1>6. QED BY <1>4, <1>5

(* --- a batch is planned -------------------------------------------------- *)

(* A layer with no result of this cycle leaves out of its task only parts    *)
(* the newest result before proved, over ground that has not moved since.    *)
LEMMA PartPlanIsSound ==
  ASSUME Inv, NEW l \in Gates, cur[l].status = "none"
  PROVE  PartPlan(l) \subseteq Parts[l] /\ \A p \in Parts[l] \ PartPlan(l) : Proven(p)
<1>1. PartReasons(l) \subseteq Parts[l] BY DEF PartReasons
<1>2. CASE Sweep = "targeted" /\ HasParts(prior[l]) /\ PartReasons(l) # {}
  <2>1. PartPlan(l) = PartReasons(l) BY <1>2 DEF PartPlan
  <2>2. \A p \in Parts[l] \ PartReasons(l) :
           p \notin prior[l].red /\ Ground[p] \cap MovedSince(prior[l].cycle) = {}
    BY DEF PartReasons
  <2>3. QED BY <1>1, <1>2, <2>1, <2>2 DEF Inv, Evidence, PriorIsProven
<1>3. CASE ~(Sweep = "targeted" /\ HasParts(prior[l]) /\ PartReasons(l) # {})
  <2>1. PartPlan(l) = Parts[l] BY <1>3 DEF PartPlan
  <2>2. QED BY <2>1
<1>4. QED BY <1>2, <1>3

LEMMA TaskIsSound ==
  ASSUME Inv, NEW l \in Gates, WillRun(l, at.confirming)
  PROVE  /\ Task(l, at.confirming) \in Job /\ Task(l, at.confirming).st = "start"
         /\ JobOK(l, Task(l, at.confirming), at.confirming)
<1> DEFINE again == at.confirming /\ cur[l].status # "none"
           run == IF again THEN cur[l].carried ELSE IF at.confirming THEN Parts[l] ELSE PartPlan(l)
           left == IF again THEN {} ELSE Parts[l] \ run
           task == [st |-> "start", attempt |-> 1, run |-> run, all |-> run, carry |-> left]
<1>1. Task(l, at.confirming) = task BY DEF Task
<1>2. run \subseteq Parts[l] /\ \A p \in Parts[l] \ run : Proven(p)
  <2>1. CASE again
    <3>1. HasParts(cur[l]) /\ cur[l].carried # {} BY <2>1 DEF WillRun
    <3>2. cur[l].red = {} BY <2>1, <3>1 DEF Inv, ConfirmedReds
    <3>3. QED BY <2>1, <3>1, <3>2 DEF Inv, Evidence, CurIsProven, Shape
  <2>2. CASE ~again /\ at.confirming BY <2>2
  <2>3. CASE ~again /\ ~at.confirming
    <3>1. cur[l].status = "none" BY <2>3 DEF WillRun
    <3>2. QED BY <2>3, <3>1, PartPlanIsSound
  <2>4. QED BY <2>1, <2>2, <2>3
<1>3. left \subseteq Parts[l] /\ (at.confirming => left = {}) OBVIOUS
<1> HIDE DEF run, left
<1>4. run \in SUBSET AllParts /\ left \in SUBSET AllParts BY <1>2, <1>3, PartsOf
<1>5. task \in Job BY <1>4 DEF Job
<1>6. JobOK(l, task, at.confirming) BY <1>2, <1>3 DEF JobOK
<1>7. QED BY <1>1, <1>5, <1>6

(* A layer the footprint leaves out is as the base certified it. *)
LEMMA BaseIsProven ==
  ASSUME Inv, NEW l \in Gates, cur[l].status = "none", ~at.confirming, l \notin CyclePlan,
         ~CarriedResult(l, at.confirming)
  PROVE  \A p \in Parts[l] : Proven(p)
<1>1. Sweep # "targeted" BY DEF CarriedResult
<1>2. cycle.nth = cycle.opened /\ Sweep = "footprint" BY <1>1 DEF Sweep, CyclePlan
<1>3. l \notin Footprint BY <1>2 DEF CyclePlan
<1>4. l \in cycle.certified /\ l \notin Touched
  <2>1. Touched \in SUBSET Gates BY DEF Touched
  <2>2. QED BY <1>3, <2>1, DependentsInclude DEF Footprint
<1>5. \A p \in Parts[l] : Ground[p] \cap cycle.own = {} BY <1>4 DEF Touched, LayerGround
<1>6. \A p \in Parts[l] : ran[p].in < cycle.opened BY <1>2 DEF Inv, Evidence, UnrunIsOld
<1>7. QED BY <1>4, <1>5, <1>6 DEF Proven, ProvenAtTheBase

LEMMA StampIsSound ==
  ASSUME Inv, NEW l \in Gates, ~WillRun(l, at.confirming), NEW record, record = Stamped(l, at.confirming)
  PROVE  /\ record \in Record /\ record.cycle <= cycle.nth
         /\ HasParts(record) => (Shape(l, record) /\ \A p \in Parts[l] \ record.red : Proven(p))
         /\ record = cur[l] \/ (record.carried = {} /\ cur[l].status = "none")
         /\ record.status = "none" => CarriedResult(l, at.confirming)
<1>1. CASE cur[l].status # "none" \/ CarriedResult(l, at.confirming)
  <2>1. record = cur[l] BY <1>1 DEF Stamped
  <2>2. cur[l] \in Record /\ cur[l].cycle <= cycle.nth BY DEF Inv, Typed, Evidence, Clock
  <2>3. HasParts(cur[l]) => (Shape(l, cur[l]) /\ \A p \in Parts[l] \ cur[l].red : Proven(p))
    BY DEF Inv, Evidence, CurIsProven
  <2>4. QED BY <1>1, <2>1, <2>2, <2>3
<1>2. CASE cur[l].status = "none" /\ ~CarriedResult(l, at.confirming) /\ Blocked(l)
  <2>1. record = Result("not-runnable", {}, 0) BY <1>2 DEF Stamped, NotRunnable
  <2>2. /\ record \in Record /\ record.status = "not-runnable" /\ record.carried = {}
        /\ record.cycle = cycle.nth
    BY <2>1, ResultTypes DEF Inv
  <2>3. cycle.nth \in Nat BY DEF Inv, Typed
  <2>4. QED BY <1>2, <2>2, <2>3 DEF HasParts
<1>3. CASE cur[l].status = "none" /\ ~CarriedResult(l, at.confirming) /\ ~Blocked(l)
  <2>1. record = Result("green", {}, 1) BY <1>3 DEF Stamped
  <2>2. /\ record \in Record /\ record.status = "green" /\ record.carried = {} /\ record.red = {}
        /\ record.cycle = cycle.nth
    BY <2>1, ResultTypes DEF Inv
  <2>3. cycle.nth \in Nat BY DEF Inv, Typed
  <2>4. ~at.confirming /\ l \notin CyclePlan BY <1>3 DEF WillRun
  <2>5. \A p \in Parts[l] : Proven(p) BY <1>3, <2>4, BaseIsProven
  <2>6. QED BY <1>3, <2>2, <2>3, <2>5 DEF Shape
<1>4. QED BY <1>1, <1>2, <1>3

LEMMA PlanBatchInv == ASSUME Inv, Layer(PlanBatch) PROVE Inv'
<1> DEFINE batch == {Layers[k] : k \in NextBatch(at.left)}
           running == {l \in batch : WillRun(l, at.confirming)}
           tasks == [l \in running |-> Task(l, at.confirming)]
<1>1. /\ at.pc = "plan"
      /\ cur' = [l \in Gates |-> IF l \in batch \ running THEN Stamped(l, at.confirming) ELSE cur[l]]
      /\ at' = [at EXCEPT !.pc = "batch", !.left = at.left \ NextBatch(at.left), !.tasks = tasks]
  BY DEF Layer, PlanBatch, Go
<1>2. UNCHANGED <<moved, cycle, prior, open, ran, verdict, story, carry>> BY DEF Layer, PlanBatch, world
<1>3. Typed /\ Clock /\ CurIsProven /\ PriorIsProven /\ UnrunIsOld BY DEF Inv, Evidence
<1>4. NextBatch(at.left) \subseteq at.left /\ at.left \subseteq DOMAIN Layers
  BY <1>3 DEF NextBatch, Typed, Place
<1>5. batch \subseteq Gates BY <1>4 DEF Gates
<1>6. \A l \in running : tasks[l] \in Job /\ tasks[l].st = "start" /\ JobOK(l, tasks[l], at.confirming)
  BY <1>5, TaskIsSound
<1>7. tasks \in [running -> Job] BY <1>6
<1>8. tasks \in Jobs /\ DOMAIN tasks = running BY <1>5, <1>7 DEF Jobs
<1> HIDE DEF tasks
<1>9. at' \in Place /\ at'.pc = "batch" /\ at'.confirming = at.confirming /\ at'.tasks = tasks
      /\ at'.left = at.left \ NextBatch(at.left) /\ at'.layers = at.layers /\ at'.now = at.now
  BY <1>1, <1>3, <1>8 DEF Typed, Place, Pcs
<1>10. \A l \in Gates :
         /\ cur'[l] \in Record /\ cur'[l].cycle <= cycle.nth
         /\ HasParts(cur'[l]) => (Shape(l, cur'[l]) /\ \A p \in Parts[l] \ cur'[l].red : Proven(p))
         /\ cur'[l] = cur[l] \/ (cur'[l].carried = {} /\ cur[l].status = "none")
         /\ (l \in batch \ running /\ cur'[l].status = "none") => CarriedResult(l, at.confirming)
  <2>1. TAKE l \in Gates
  <2>2. CASE l \in batch \ running
    <3>1. cur'[l] = Stamped(l, at.confirming) /\ ~WillRun(l, at.confirming) BY <1>1, <2>2
    <3>2. QED BY <3>1, StampIsSound
  <2>3. CASE l \notin batch \ running
    <3>1. cur'[l] = cur[l] BY <1>1, <2>3
    <3>2. cur[l] \in Record /\ cur[l].cycle <= cycle.nth BY <1>3 DEF Typed, Clock
    <3>3. HasParts(cur[l]) => (Shape(l, cur[l]) /\ \A p \in Parts[l] \ cur[l].red : Proven(p))
      BY <1>3 DEF CurIsProven
    <3>4. QED BY <2>3, <3>1, <3>2, <3>3
  <2>4. QED BY <2>2, <2>3
<1>11. cur' \in [Gates -> Record] BY <1>1, <1>10
<1>12. Typed' BY <1>2, <1>3, <1>9, <1>11 DEF Typed
<1>13. \A p : Proven(p) => Proven(p)' BY <1>2 DEF Proven, ProvenByARun, ProvenAtTheBase
<1>14. Clock' BY <1>2, <1>3, <1>10 DEF Clock
<1>15. CurIsProven' BY <1>10, <1>13 DEF CurIsProven, Shape, HasParts
<1>16. PriorIsProven' BY <1>2, <1>3, <1>10, <1>13 DEF PriorIsProven, Shape, HasParts, MovedSince
<1>17. UnrunIsOld' BY <1>2, <1>3, <1>10 DEF UnrunIsOld
<1>18. Evidence' BY <1>14, <1>15, <1>16, <1>17 DEF Evidence
<1>19. TasksAreSound'
  <2>1. \A m, k, c : JobOK(m, k, c) => JobOK(m, k, c)' BY <1>13 DEF JobOK
  <2>2. \A l \in DOMAIN at'.tasks : JobOK(l, at'.tasks[l], at'.confirming) BY <1>6, <1>8, <1>9
  <2>3. QED BY <1>9, <2>1, <2>2 DEF TasksAreSound
<1>20. ConfirmedReds' BY <1>9, <1>10 DEF Inv, ConfirmedReds, HasParts
<1>21. LadderIsRed' BY <1>1, <1>9 DEF Inv, LadderIsRed
<1>22. Processed'
  <2> SUFFICES ASSUME NEW k \in DOMAIN Layers \ at'.left
      PROVE  \/ cur'[Layers[k]].status # "none"
             \/ Layers[k] \in running /\ tasks[Layers[k]].st # "done"
             \/ CarriedResult(Layers[k], at.confirming)
    BY <1>2, <1>8, <1>9, PlanStands DEF Processed
  <2>1. Layers[k] \in Gates BY DEF Gates
  <2>2. CASE k \in NextBatch(at.left)
    <3>1. Layers[k] \in batch BY <2>2
    <3>2. CASE Layers[k] \in running BY <1>6, <3>2
    <3>3. CASE Layers[k] \notin running BY <1>10, <2>1, <3>1, <3>3
    <3>4. QED BY <3>2, <3>3
  <2>3. CASE k \notin NextBatch(at.left)
    <3>1. k \in DOMAIN Layers \ at.left BY <1>9, <2>3
    <3>2. cur[Layers[k]].status # "none" \/ CarriedResult(Layers[k], at.confirming)
      BY <1>1, <3>1 DEF Inv, Processed, TasksAreSound, MidCycle
    <3>3. QED BY <1>10, <2>1, <3>2
  <2>4. QED BY <2>2, <2>3
<1>23. Opens'
  <2>1. open = {} BY <1>1 DEF Inv, Opens, Out
  <2>2. QED BY <1>2, <1>6, <1>8, <1>9, <2>1 DEF Opens, Out
<1>24. Judged' /\ Carries' BY <1>1, <1>2, Unjudged DEF Inv
<1>25. QED BY <1>12, <1>18, <1>19, <1>20, <1>21, <1>22, <1>23, <1>24 DEF Inv
(* --- the ladder ---------------------------------------------------------- *)

(* What stands red when a spectrum ends is red in this cycle: a targeted     *)
(* cycle carries greens only.                                                *)
LEMMA RedsAreOfThisCycle ==
  ASSUME Inv, SpectrumEnds, NEW l \in PersistentReds
  PROVE  l \in Gates /\ cur[l].status = "red"
<1>1. l \in Gates /\ Standing(l).status = "red" BY DEF PersistentReds
<1>2. PICK k \in DOMAIN Layers : l = Layers[k] BY <1>1 DEF Gates
<1>3. at.pc = "plan" /\ at.left = {} /\ DOMAIN at.tasks = {}
  BY DEF SpectrumEnds, Inv, TasksAreSound
<1>4. cur[l].status # "none" \/ CarriedResult(l, at.confirming)
  BY <1>2, <1>3 DEF Inv, Processed, MidCycle
<1>5. CASE cur[l].status # "none" BY <1>1, <1>5 DEF Standing
<1>6. CASE cur[l].status = "none"
  <2>1. Sweep = "targeted" /\ l \notin TargetedLayers BY <1>4, <1>6 DEF CarriedResult, CyclePlan
  <2>2. {m \in Gates : prior[m].status # "green"} \subseteq TargetedLayers
    BY DependentsInclude DEF TargetedLayers
  <2>3. prior[l].status = "green" BY <1>1, <2>1, <2>2
  <2>4. QED BY <1>1, <1>6, <2>3 DEF Standing
<1>7. QED BY <1>1, <1>5, <1>6

LEMMA LadderWaitInv == ASSUME Inv, Layer(LadderWait) PROVE Inv'
<1>1. SpectrumEnds /\ at' = [at EXCEPT !.pc = "rerun", !.layers = PersistentReds]
  BY DEF Layer, LadderWait, Go
<1>2. at.pc = "plan" /\ at.left = {} /\ at \in Place BY <1>1 DEF SpectrumEnds, Inv, Typed
<1>3. UNCHANGED <<moved, cycle, cur, prior, open, ran, verdict, story, carry>>
  BY DEF Layer, LadderWait, world
<1>4. PersistentReds \in SUBSET Gates BY DEF PersistentReds
<1>5. at' \in Place /\ at'.pc = "rerun" /\ at'.confirming = at.confirming /\ at'.left = at.left
      /\ at'.tasks = at.tasks /\ at'.layers = PersistentReds /\ at'.now = at.now
  BY <1>1, <1>2, <1>4 DEF Place, Pcs
<1>6. Typed' /\ Evidence' BY <1>3, <1>5, QuietTyped, QuietEvidence DEF Inv
<1>7. TasksAreSound' BY <1>2, <1>5 DEF Inv, TasksAreSound
<1>8. ConfirmedReds' BY <1>3, <1>5 DEF Inv, ConfirmedReds
<1>9. \A l \in PersistentReds : cur[l].status = "red" BY <1>1, RedsAreOfThisCycle
<1>10. at.now = {} BY <1>2 DEF Inv, LadderIsRed
<1>11. LadderIsRed' BY <1>2, <1>3, <1>5, <1>9, <1>10 DEF LadderIsRed
<1>12. Processed' BY <1>2, <1>3, <1>5, PlanStands DEF Inv, Processed, MidCycle
<1>13. Opens' BY <1>2, <1>3, <1>5 DEF Inv, Opens, Out
<1>14. Judged' /\ Carries' BY <1>2, <1>3, Unjudged DEF Inv
<1>15. QED BY <1>6, <1>7, <1>8, <1>11, <1>12, <1>13, <1>14 DEF Inv

LEMMA RerunLayerInv == ASSUME Inv, NEW l \in Gates, Layer(RerunLayer(l)) PROVE Inv'
<1>1. /\ at.pc = "rerun" /\ l \in at.layers
      /\ at' = [at EXCEPT !.pc = "rerun-out", !.layers = at.layers \ {l}, !.now = {l}]
      /\ open' = open \union {<<l, cur[l].attempt + 1>>}
  BY DEF Layer, RerunLayer, Go
<1>2. at \in Place BY DEF Inv, Typed
<1>3. UNCHANGED <<moved, cycle, cur, prior, ran, verdict, story, carry>>
  BY DEF Layer, RerunLayer, world
<1>4. at' \in Place /\ at'.pc = "rerun-out" /\ at'.confirming = at.confirming /\ at'.left = at.left
      /\ at'.tasks = at.tasks /\ at'.layers = at.layers \ {l} /\ at'.now = {l}
  BY <1>1, <1>2 DEF Place, Pcs
<1>5. Typed' /\ Evidence' BY <1>3, <1>4, QuietTyped, QuietEvidence DEF Inv
<1>6. TasksAreSound' BY <1>1, <1>4 DEF Inv, TasksAreSound
<1>7. ConfirmedReds' BY <1>3, <1>4 DEF Inv, ConfirmedReds
<1>8. LadderIsRed' BY <1>1, <1>3, <1>4 DEF Inv, LadderIsRed
<1>9. Processed' BY <1>1, <1>3, <1>4, PlanStands DEF Inv, Processed, MidCycle
<1>10. open = {} BY <1>1 DEF Inv, Opens, Out
<1>11. Opens' BY <1>1, <1>3, <1>4, <1>10 DEF Opens, Out
<1>12. Judged' /\ Carries' BY <1>1, <1>3, Unjudged DEF Inv
<1>13. QED BY <1>5, <1>6, <1>7, <1>8, <1>9, <1>11, <1>12 DEF Inv

LEMMA RerunSettlesInv == ASSUME Inv, Layer(RerunSettles) PROVE Inv'
<1> DEFINE next == IF at.layers = {} THEN "plan" ELSE "rerun"
<1>1. at.pc = "rerun-out" /\ at' = [at EXCEPT !.pc = next, !.now = {}]
  BY DEF Layer, RerunSettles, Go
<1>a. PICK l \in at.now : \E failed \in SUBSET cur[l].red :
        /\ Observe(cur[l].red, failed)
        /\ open' = open \ {<<l, cur[l].attempt + 1>>}
        /\ cur' = [cur EXCEPT ![l] =
              [Result(IF failed = {} THEN "green" ELSE "red", {}, cur[l].attempt + 1) EXCEPT !.red = failed]]
  BY DEF Layer, RerunSettles
<1>2. PICK failed \in SUBSET cur[l].red :
        /\ Observe(cur[l].red, failed)
        /\ open' = open \ {<<l, cur[l].attempt + 1>>}
        /\ cur' = [cur EXCEPT ![l] =
              [Result(IF failed = {} THEN "green" ELSE "red", {}, cur[l].attempt + 1) EXCEPT !.red = failed]]
  BY <1>a
<1>3. UNCHANGED <<moved, cycle, prior, verdict, story, carry>> BY DEF Layer, RerunSettles, world
<1>4. l \in Gates /\ at.now = {l} /\ l \notin at.layers /\ cur[l].status = "red" /\ at.left = {}
  BY <1>1, <1>a DEF Inv, LadderIsRed
<1>5. at \in Place /\ cur[l] \in Record BY <1>4 DEF Inv, Typed
<1>6. at' \in Place /\ at'.pc = next /\ at'.confirming = at.confirming /\ at'.left = at.left
      /\ at'.tasks = at.tasks /\ at'.layers = at.layers /\ at'.now = {}
  BY <1>1, <1>5 DEF Place, Pcs
<1> DEFINE status == IF failed = {} THEN "green" ELSE "red"
           result == Result(status, {}, cur[l].attempt + 1)
           record == [result EXCEPT !.red = failed]
<1>7. cur[l].red \in SUBSET Parts[l] /\ \A p \in Parts[l] \ cur[l].red : Proven(p)
  BY <1>4 DEF Inv, Evidence, CurIsProven, Shape, HasParts
<1>8. status \in {"green", "red", "not-runnable"} /\ {} \in SUBSET AllParts /\ cur[l].attempt + 1 \in Nat
  BY <1>5 DEF Record
<1>b. Typed BY DEF Inv
<1>9. result \in Record /\ result.status = status /\ result.carried = {} /\ result.cycle = cycle.nth
  <2> HIDE DEF status
  <2>1. QED BY <1>8, <1>b DEF Typed, Result, Record
<1>10. failed \in SUBSET AllParts BY <1>4, <1>7, PartsOf
<1> HIDE DEF result
<1>11. record \in Record /\ record.status = status /\ record.red = failed
       /\ record.carried = {} /\ record.cycle = cycle.nth
  BY <1>9, <1>10 DEF Record
<1>12. cur' = [cur EXCEPT ![l] = record] BY <1>2 DEF result
<1> HIDE DEF record
<1>13. HasParts(record) /\ (record.status = "green" => failed = {}) /\ record.carried \subseteq Parts[l]
  BY <1>11 DEF HasParts
<1>14. Typed' /\ Evidence'
  BY <1>2, <1>3, <1>4, <1>6, <1>7, <1>11, <1>12, <1>13, ResultArrives
<1>15. cur'[l] = record /\ \A m \in Gates : m # l => cur'[m] = cur[m]
  BY <1>4, <1>12 DEF Inv, Typed
<1>16. TasksAreSound' BY <1>1, <1>6 DEF Inv, TasksAreSound
<1>17. ConfirmedReds' BY <1>6, <1>11, <1>15 DEF Inv, ConfirmedReds
<1>18. at.layers \subseteq Gates /\ \A m \in at.layers : cur[m].status = "red"
  BY <1>5 DEF Place, Inv, LadderIsRed
<1>19. LadderIsRed' BY <1>4, <1>6, <1>15, <1>18 DEF LadderIsRed
<1>20. Processed'
  <2> SUFFICES ASSUME NEW k \in DOMAIN Layers \ at.left
      PROVE  cur'[Layers[k]].status # "none" \/ CarriedResult(Layers[k], at.confirming)
    BY <1>3, <1>6, PlanStands DEF Processed
  <2>1. CASE Layers[k] = l BY <1>11, <1>15, <2>1
  <2>2. CASE Layers[k] # l
    <3>1. cur'[Layers[k]] = cur[Layers[k]] BY <1>15, <2>2 DEF Gates
    <3>2. QED BY <1>1, <3>1 DEF Inv, Processed, MidCycle, TasksAreSound
  <2>3. QED BY <2>1, <2>2
<1>21. open = {<<l, cur[l].attempt + 1>>} BY <1>1, <1>4 DEF Inv, Opens, Out
<1>22. Opens' BY <1>1, <1>2, <1>6, <1>21 DEF Inv, Opens, Out, TasksAreSound
<1>23. Judged' /\ Carries' BY <1>1, <1>3, Unjudged DEF Inv
<1>24. QED BY <1>14, <1>16, <1>17, <1>19, <1>20, <1>22, <1>23 DEF Inv

(* --- the verdict and what is carried under it ---------------------------- *)

(* A swept spectrum without a red has proven every part it has a result of.  *)
LEMMA SweptIsProven ==
  ASSUME Inv, SpectrumEnds, PersistentReds = {}, Swept
  PROVE  \A l \in Gates : HasParts(Standing(l)) => \A p \in Parts[l] : Proven(p)
<1>1. TAKE l \in Gates
<1>2. PICK k \in DOMAIN Layers : l = Layers[k] BY DEF Gates
<1>3. at.pc = "plan" /\ at.left = {} /\ DOMAIN at.tasks = {}
  BY DEF SpectrumEnds, Inv, TasksAreSound
<1>4. ~CarriedResult(l, at.confirming) BY DEF Swept, CarriedResult
<1>5. cur[l].status # "none" BY <1>2, <1>3, <1>4 DEF Inv, Processed, MidCycle
<1>6. Standing(l) = cur[l] /\ cur[l].status # "red" BY <1>5 DEF Standing, PersistentReds
<1>7. HasParts(cur[l]) => cur[l].red = {} BY <1>6 DEF HasParts, Inv, Evidence, CurIsProven, Shape
<1>8. QED BY <1>6, <1>7 DEF Inv, Evidence, CurIsProven

LEMMA CertifyInv == ASSUME Inv, Certify PROVE Inv'
<1>1. /\ SpectrumEnds /\ at' = Pc("rendered")
      /\ \/ verdict' = "green" /\ PersistentReds = {} /\ Swept
         \/ verdict' = "red"
      /\ UNCHANGED <<moved, cycle, cur, prior, open, ran, story>>
  BY DEF Certify, Render, Go, world
<1>2. at.pc = "plan" BY <1>1 DEF SpectrumEnds
<1>3. at' \in Place /\ at'.pc = "rendered" /\ ~at'.confirming /\ DOMAIN at'.tasks = {}
      /\ at'.layers = {} /\ at'.now = {}
  BY <1>1, PcTypes DEF Pcs
<1>4. Typed' BY <1>1, <1>3 DEF Inv, Typed
<1>5. Evidence' BY <1>1, QuietEvidence DEF Inv
<1>6. TasksAreSound' /\ ConfirmedReds' /\ LadderIsRed' /\ Processed'
  BY <1>3 DEF TasksAreSound, ConfirmedReds, LadderIsRed, Processed, MidCycle
<1>7. Opens' BY <1>1, <1>2, <1>3 DEF Inv, Opens, Out
<1>8. Judged'
  <2>1. CASE verdict' = "green"
    <3>1. PersistentReds = {} /\ Swept BY <1>1, <2>1
    <3>2. \A l \in Gates : HasParts(Standing(l)) => \A p \in Parts[l] : Proven(p)
      BY <1>1, <3>1, SweptIsProven
    <3>3. QED BY <1>1, <1>3, <3>2
      DEF Judged, GreenIsProven, Standing, HasParts, Proven, ProvenByARun, ProvenAtTheBase
  <2>2. CASE verdict' # "green" BY <1>3, <2>2 DEF Judged, GreenIsProven
  <2>3. QED BY <2>1, <2>2
<1>9. carry.brought = {} BY <1>2 DEF Inv, Carries
<1>10. carry'.brought = {}
  <2>1. CASE verdict' = "green"
    <3>1. PICK lenses \in Lenses : carry' = [carry EXCEPT !.lenses = lenses] BY <2>1 DEF Certify
    <3>2. QED BY <1>9, <3>1
  <2>2. CASE verdict' # "green" BY <1>9, <2>2 DEF Certify
  <2>3. QED BY <2>1, <2>2
<1>11. Carries' BY <1>10 DEF Carries
<1>12. QED BY <1>4, <1>5, <1>6, <1>7, <1>8, <1>11 DEF Inv

LEMMA FastPathKeptInv == ASSUME Inv, FastPathKept PROVE Inv'
<1>1. PICK incoming \in Changes :
        /\ Update /\ CodeAnswer(incoming, TRUE) = "kept"
        /\ carry' = [carry EXCEPT !.brought = @ \union incoming, !.records = RecordsAnswer(incoming, TRUE)]
        /\ UNCHANGED <<gateVars, story>>
  BY DEF FastPathKept
<1>2. UNCHANGED <<moved, cycle, cur, prior, open, ran, verdict, at, story>> BY <1>1 DEF gateVars
<1>3. Typed' /\ Evidence' BY <1>2, QuietEvidence DEF Inv, Typed
<1>4. \A m, k, c : JobOK(m, k, c) => JobOK(m, k, c)'
  BY <1>2 DEF JobOK, Proven, ProvenByARun, ProvenAtTheBase
<1>5. TasksAreSound' BY <1>2, <1>4 DEF Inv, TasksAreSound
<1>6. ConfirmedReds' /\ LadderIsRed' BY <1>2 DEF Inv, ConfirmedReds, LadderIsRed
<1>7. Processed' BY <1>2, PlanStands DEF Inv, Processed
<1>8. Opens' BY <1>2 DEF Inv, Opens, Out
<1>9. Judged'
  BY <1>2 DEF Inv, Judged, GreenIsProven, Standing, HasParts, ProvenByARun, ProvenAtTheBase
<1>10. LensesStand(incoming) /\ GroundStands(incoming) BY <1>1 DEF CodeAnswer
<1>12. at.pc = "rendered" BY <1>1 DEF Update
<1>13. Carries'
  <2>1. carry'.brought = carry.brought \union incoming /\ carry'.lenses = carry.lenses BY <1>1
  <2>2. QED BY <1>2, <1>10, <1>12, <2>1 DEF Inv, Carries, LensesStand, GroundStands
<1>14. QED BY <1>3, <1>5, <1>6, <1>7, <1>8, <1>9, <1>13 DEF Inv

(* --- the next cycle ------------------------------------------------------ *)

(* A part whose ground did not move on the way to the next cycle is proven   *)
(* after it where it was before.                                             *)
LEMMA UnmovedStaysProven ==
  ASSUME Typed, Clock, NEW edited \in SUBSET Files, NEW own \in SUBSET Files,
         NEW opened \in {cycle.opened, cycle.nth + 1},
         (own \union cycle.own) \ (own \intersect cycle.own) \subseteq edited,
         moved' = [f \in Files |-> IF f \in edited THEN cycle.nth + 1 ELSE moved[f]],
         cycle' = [cycle EXCEPT !.nth = @ + 1, !.opened = opened, !.own = own],
         ran' = ran, NEW p \in AllParts, NEW n \in Nat, n <= cycle.nth,
         Ground[p] \cap MovedSince(n)' = {}
  PROVE  Ground[p] \cap MovedSince(n) = {} /\ (Proven(p) => Proven(p)')
<1>1. Ground[p] \subseteq Files BY GroundIsOfFiles
<1>2. cycle.nth \in Nat /\ cycle.opened \in Nat /\ cycle.opened <= cycle.nth BY DEF Typed, Clock
<1>3. \A f \in Ground[p] : f \notin edited /\ moved'[f] = moved[f]
  <2>1. TAKE f \in Ground[p]
  <2>2. f \in Files BY <1>1
  <2>3. ~(moved'[f] > n) BY <2>2 DEF MovedSince
  <2>4. CASE f \in edited
    <3>1. moved'[f] = cycle.nth + 1 BY <2>2, <2>4
    <3>2. QED BY <1>2, <2>3, <3>1
  <2>5. CASE f \notin edited BY <2>2, <2>5
  <2>6. QED BY <2>4, <2>5
<1>4. Ground[p] \cap MovedSince(n) = {} BY <1>1, <1>3 DEF MovedSince
<1>5. cycle'.own = own /\ cycle'.opened = opened /\ cycle'.certified = cycle.certified BY DEF Typed
<1>6. ProvenByARun(p) => ProvenByARun(p)' BY <1>3 DEF ProvenByARun
<1>7. ProvenAtTheBase(p) => ProvenAtTheBase(p)'
  <2>1. Ground[p] \intersect cycle.own = {} => Ground[p] \intersect cycle'.own = {} BY <1>3, <1>5
  <2>2. ran[p].in \in Nat BY DEF Typed
  <2>3. ran[p].in < cycle.opened => ran[p].in < cycle'.opened BY <1>2, <1>5, <2>2
  <2>4. QED BY <1>5, <2>1, <2>3 DEF ProvenAtTheBase
<1>8. QED BY <1>4, <1>6, <1>7 DEF Proven

LEMMA NextCycleInv ==
  ASSUME Inv, NEW edited \in SUBSET Files, NEW own \in SUBSET Files,
         NEW opened \in {cycle.opened, cycle.nth + 1},
         (own \union cycle.own) \ (own \intersect cycle.own) \subseteq edited,
         moved' = [f \in Files |-> IF f \in edited THEN cycle.nth + 1 ELSE moved[f]],
         cycle' = [cycle EXCEPT !.nth = @ + 1, !.opened = opened, !.own = own],
         prior' = [l \in Gates |-> Standing(l)], cur' = [l \in Gates |-> NoResult],
         verdict' = "none", at.pc = "rendered", at' = Pc("enter"), carry' = Anew, UNCHANGED <<open, ran>>
  PROVE  Inv'
<1>1. Typed /\ Clock /\ CurIsProven /\ PriorIsProven BY DEF Inv, Evidence
<1>2. at' \in Place /\ at'.pc = "enter" /\ ~at'.confirming /\ DOMAIN at'.tasks = {}
      /\ at'.layers = {} /\ at'.now = {}
  BY PcTypes DEF Pcs
<1>3. /\ cycle.nth \in Nat /\ opened \in Nat /\ opened <= cycle.nth + 1
      /\ cycle' \in [nth : Nat, opened : Nat, own : SUBSET Files, certified : Bases]
      /\ cycle'.nth = cycle.nth + 1 /\ cycle'.opened = opened
  <2>1. cycle \in [nth : Nat, opened : Nat, own : SUBSET Files, certified : Bases] BY <1>1 DEF Typed
  <2>2. cycle.nth \in Nat /\ cycle.opened \in Nat /\ cycle.opened <= cycle.nth
    BY <1>1, <2>1 DEF Clock
  <2>3. opened \in Nat /\ opened <= cycle.nth + 1 BY <2>2
  <2>4. cycle.nth + 1 \in Nat BY <2>2
  <2>5. QED BY <2>1, <2>2, <2>3, <2>4
<1>4. /\ NoResult \in Record /\ ~HasParts(NoResult) /\ NoResult.cycle = 0 BY DEF NoResult, Record, HasParts
<1>5. \A l \in Gates : /\ cur'[l] = NoResult /\ prior'[l] = Standing(l)
                       /\ Standing(l) \in Record /\ Standing(l).cycle <= cycle.nth
  BY <1>1 DEF Typed, Clock, Standing
<1>6. moved' \in [Files -> Nat] BY <1>1, <1>3 DEF Typed
<1>7. Typed' BY <1>1, <1>2, <1>3, <1>4, <1>5, <1>6 DEF Typed
<1>8. Clock'
  <2>1. \A f \in Files : moved'[f] <= cycle'.nth BY <1>1, <1>3 DEF Typed, Clock
  <2>2. \A p \in AllParts : ran'[p].in <= cycle'.nth BY <1>1, <1>3 DEF Typed, Clock
  <2>3. \A l \in Gates : cur'[l].cycle <= cycle'.nth BY <1>3, <1>4, <1>5
  <2>4. \A l \in Gates : prior'[l].cycle <= cycle'.nth BY <1>3, <1>5 DEF Record
  <2>5. QED BY <1>3, <2>1, <2>2, <2>3, <2>4 DEF Clock
<1>9. CurIsProven' BY <1>4, <1>5 DEF CurIsProven, HasParts
<1>10. UnrunIsOld'
  <2>1. \A p \in AllParts : ran'[p].in < cycle'.nth BY <1>1, <1>3 DEF Typed, Clock
  <2>2. QED BY <2>1, PartsOf DEF UnrunIsOld
<1>11. PriorIsProven'
  <2> SUFFICES ASSUME NEW l \in Gates, HasParts(Standing(l))
      PROVE  /\ Shape(l, Standing(l))
             /\ \A p \in Parts[l] \ Standing(l).red :
                   Ground[p] \cap {f \in Files : moved'[f] > Standing(l).cycle} = {} => Proven(p)'
    BY <1>5 DEF PriorIsProven, HasParts, Shape, MovedSince
  <2>1. Shape(l, Standing(l)) BY <1>1 DEF Standing, CurIsProven, PriorIsProven
  <2>2. \A p \in Parts[l] \ Standing(l).red :
          Ground[p] \cap MovedSince(Standing(l).cycle) = {} => Proven(p)
    BY <1>1 DEF Standing, CurIsProven, PriorIsProven
  <2>3. PICK n \in Nat : n = Standing(l).cycle /\ n <= cycle.nth BY <1>5 DEF Record
  <2>4. MovedSince(n)' = {f \in Files : moved'[f] > n} BY DEF MovedSince
  <2>5. \A p \in Parts[l] : Ground[p] \cap MovedSince(n)' = {} =>
           Ground[p] \cap MovedSince(n) = {} /\ (Proven(p) => Proven(p)')
    BY <1>1, <2>3, PartsOf, UnmovedStaysProven
  <2>6. QED BY <2>1, <2>2, <2>3, <2>4, <2>5
<1>12. Evidence' BY <1>8, <1>9, <1>10, <1>11 DEF Evidence
<1>13. TasksAreSound' /\ ConfirmedReds' /\ LadderIsRed' /\ Processed'
  BY <1>2 DEF TasksAreSound, ConfirmedReds, LadderIsRed, Processed, MidCycle
<1>14. Opens' BY <1>2 DEF Inv, Opens, Out
<1>15. Judged' /\ Carries' BY DEF Judged, GreenIsProven, Carries, Anew
<1>16. QED BY <1>7, <1>12, <1>13, <1>14, <1>15 DEF Inv

LEMMA FastPathRefusedInv == ASSUME Inv, FastPathRefused PROVE Inv'
<1>1. PICK incoming \in Changes :
        /\ at.pc = "rendered"
        /\ moved' = [f \in Files |-> IF f \in incoming THEN cycle.nth + 1 ELSE moved[f]]
        /\ cycle' = [cycle EXCEPT !.nth = @ + 1, !.own = @ \union (incoming \intersect Files)]
        /\ prior' = [l \in Gates |-> Standing(l)] /\ cur' = [l \in Gates |-> NoResult]
        /\ verdict' = "none" /\ at' = Pc("enter") /\ carry' = Anew /\ UNCHANGED <<open, ran>>
  BY DEF FastPathRefused, Update, Go
<1> DEFINE edited == incoming \intersect Files
           own == cycle.own \union edited
<1>2. edited \in SUBSET Files /\ own \in SUBSET Files BY DEF Inv, Typed
<1>3. (own \union cycle.own) \ (own \intersect cycle.own) \subseteq edited OBVIOUS
<1>4. moved' = [f \in Files |-> IF f \in edited THEN cycle.nth + 1 ELSE moved[f]] BY <1>1
<1>5. cycle' = [cycle EXCEPT !.nth = @ + 1, !.opened = cycle.opened, !.own = own]
  BY <1>1 DEF Inv, Typed
<1> HIDE DEF edited, own
<1>6. QED BY <1>1, <1>2, <1>3, <1>4, <1>5, NextCycleInv

LEMMA RepairedInv == ASSUME Inv, Repaired PROVE Inv'
<1>1. NextCycle /\ carry' = Anew BY DEF Repaired
<1>2. PICK edited \in SUBSET Files, own \in SUBSET Files, opened \in {cycle.opened, cycle.nth + 1} :
        /\ (own \union cycle.own) \ (own \intersect cycle.own) \subseteq edited
        /\ moved' = [f \in Files |-> IF f \in edited THEN cycle.nth + 1 ELSE moved[f]]
        /\ cycle' = [cycle EXCEPT !.nth = @ + 1, !.opened = opened, !.own = own]
  BY <1>1 DEF NextCycle
<1>3. /\ prior' = [l \in Gates |-> Standing(l)] /\ cur' = [l \in Gates |-> NoResult]
      /\ verdict' = "none" /\ at.pc = "rendered" /\ at' = Pc("enter") /\ UNCHANGED <<open, ran>>
  BY <1>1 DEF NextCycle, Go
<1>4. QED BY <1>1, <1>2, <1>3, NextCycleInv

(* --- the specification --------------------------------------------------- *)

LEMMA StutterInv == ASSUME Inv, UNCHANGED fastVars PROVE Inv'
<1>1. UNCHANGED <<moved, cycle, cur, prior, open, ran, verdict, at, story, carry>> BY DEF fastVars, gateVars
<1>2. Typed' /\ Evidence' BY <1>1, QuietEvidence DEF Inv, Typed
<1>3. \A m, k, c : JobOK(m, k, c) => JobOK(m, k, c)'
  BY <1>1 DEF JobOK, Proven, ProvenByARun, ProvenAtTheBase
<1>4. TasksAreSound' BY <1>1, <1>3 DEF Inv, TasksAreSound
<1>5. ConfirmedReds' /\ LadderIsRed' BY <1>1 DEF Inv, ConfirmedReds, LadderIsRed
<1>6. Processed' BY <1>1, PlanStands DEF Inv, Processed
<1>7. Opens' BY <1>1 DEF Inv, Opens, Out
<1>8. Judged' /\ Carries'
  BY <1>1 DEF Inv, Judged, GreenIsProven, Standing, HasParts, ProvenByARun, ProvenAtTheBase, Carries
<1>9. QED BY <1>2, <1>4, <1>5, <1>6, <1>7, <1>8 DEF Inv

LEMMA NextInv == ASSUME Inv, [FastNext]_fastVars PROVE Inv'
<1>1. CASE Layer(RunCycle) BY <1>1, RunCycleInv
<1>2. CASE Layer(PlanBatch) BY <1>2, PlanBatchInv
<1>3. CASE Layer(BatchEnds) BY <1>3, BatchEndsInv
<1>4. ASSUME NEW l \in Gates, Layer(LayerStarted(l) \/ Settle(l) \/ CommandError(l) \/ RerunLayer(l))
      PROVE  Inv'
  <2>1. Layer(LayerStarted(l)) \/ Layer(Settle(l)) \/ Layer(CommandError(l)) \/ Layer(RerunLayer(l))
    BY <1>4 DEF Layer
  <2>2. QED BY <2>1, LayerStartedInv, SettleInv, CommandErrorInv, RerunLayerInv
<1>5. CASE Layer(LadderWait) BY <1>5, LadderWaitInv
<1>6. CASE Layer(RerunSettles) BY <1>6, RerunSettlesInv
<1>7. CASE Layer(RerunError) BY <1>7, RerunErrorInv
<1>8. CASE Layer(Confirm) BY <1>8, ConfirmInv
<1>9. CASE Certify BY <1>9, CertifyInv
<1>10. CASE FastPathKept BY <1>10, FastPathKeptInv
<1>11. CASE FastPathRefused BY <1>11, FastPathRefusedInv
<1>12. CASE Repaired BY <1>12, RepairedInv
<1>13. CASE Layer(GateCrash) BY <1>13, CrashInv
<1>14. CASE UNCHANGED fastVars BY <1>14, StutterInv
<1>15. QED BY <1>1, <1>2, <1>3, <1>4, <1>5, <1>6, <1>7, <1>8, <1>9, <1>10, <1>11, <1>12, <1>13, <1>14
  DEF FastNext, FastStep

LEMMA Invariance == FastSpec => []Inv
<1>1. FastInit => Inv BY InitInv
<1>2. Inv /\ [FastNext]_fastVars => Inv' BY NextInv
<1>3. QED BY <1>1, <1>2, PTL DEF FastSpec

(* Behind a green verdict, every part of a layer that has a result was run   *)
(* green since a file that decides it last changed, or was left to a base    *)
(* that answers for it (src/lanes/spectrum.mjs, parts.mjs): for every gate   *)
(* table, however many cycles, repairs, fresh passes and crashes went before. *)
THEOREM GreensAreProven == FastSpec => []GreenIsProven
<1>1. Inv => GreenIsProven BY DEF Inv, Judged
<1>2. QED BY <1>1, Invariance, PTL

(* No attempt is open once a cycle has rendered, and no layer has two open,  *)
(* over crashes of batches that run side by side (src/ledger/attempts.mjs).  *)
THEOREM EveryAttemptIsClosed == FastSpec => []AttemptsAreClosed
<1>1. Inv => AttemptsAreClosed
  <2> SUFFICES ASSUME Inv PROVE AttemptsAreClosed OBVIOUS
  <2>1. open = Out BY DEF Inv, Opens
  <2>2. verdict # "none" => open = {} BY <2>1 DEF Inv, Judged, Out
  <2>3. \A a, b \in open : a[1] = b[1] => a = b
    <3>1. CASE at.pc = "batch" BY <2>1, <3>1 DEF Out
    <3>2. CASE at.pc = "rerun-out" BY <2>1, <3>2 DEF Out, Inv, LadderIsRed
    <3>3. CASE at.pc \notin {"batch", "rerun-out"} BY <2>1, <3>3 DEF Out
    <3>4. QED BY <3>1, <3>2, <3>3
  <2>4. QED BY <2>2, <2>3 DEF AttemptsAreClosed
<1>2. QED BY <1>1, Invariance, PTL

(* However often it was carried over an update, a certification answers for  *)
(* the tree that ships (src/lanes/fastpath.mjs): no part and no finding of a *)
(* reader reads a file the default branch brought under it.                  *)
THEOREM ACarriedGreenAnswers == FastSpec => []CarriedGreenIsProven
<1>1. Inv => CarriedGreenIsProven
  <2> SUFFICES ASSUME Inv PROVE CarriedGreenIsProven OBVIOUS
  <2>1. \A p \in AllParts : Ground[p] \subseteq DeclaredInputs BY DEF DeclaredInputs, LayerGround, AllParts
  <2>2. QED BY <2>1 DEF Inv, Carries, CarriedGreenIsProven
<1>2. QED BY <1>1, Invariance, PTL
=============================================================================
