----------------------------- MODULE RunEngine -----------------------------
(***************************************************************************)
(* The run engine: every open run of one daemon as an in-process state     *)
(* machine, over the append-only ledger each run keeps.                    *)
(*                                                                         *)
(* `led[r]` is the ledger of run r, held as the fold deriveRunState takes   *)
(* of it: an append applies that event's arm of the fold, so every prefix  *)
(* of a ledger is one value of `led[r]`.  `mem[r]` is what the engine       *)
(* remembers of the run.  The process is single-threaded, so a call is one *)
(* step; each append is synced on its own, so a crash may keep any prefix   *)
(* of the lines one call writes.                                           *)
(***************************************************************************)
EXTENDS Naturals, Sequences, FiniteSets

CONSTANTS
  Runs, Projects, ProjectOf,  \* run ids, projects, the project a run is of
  Instance,                   \* the scope of a hold over every project
  Stages, NoStage,            \* stage names any build knows; none
  Builds,                     \* [stages, first, retired] of the lane, per harness build
  Upgrades,                   \* the pairs of builds a restart may go between
  Blobs,                      \* project config blobs a run may pin
  SlotCap,                    \* active runs a project may be launched into
  MaxSeats, MaxStarts         \* bounds: children in flight, daemon starts

VARIABLES
  mode,    \* "down", "up", or "stopping" while engine.stop drains its seats
  build,   \* the lane this daemon registered
  scopes,  \* the wide holds that stand, folded from the instance ledger
  led,     \* the ledger of each run, as its fold
  mem,     \* the engine's record of each run
  starts   \* daemon starts so far (a bound, never read by a guard but Start's)

vars == <<mode, build, scopes, led, mem, starts>>

WaitKinds == {"none", "keeps", "frees"}
Names == Stages \cup {NoStage}
Scopes == Projects \cup {Instance}

Fold == [phase : {"absent", "open", "closed"}, stage : Names, parked : BOOLEAN,
         answers : Nat, viol : Nat, held : BOOLEAN, deferred : Names,
         dresume : BOOLEAN, own : BOOLEAN, quiet : Seq(Stages),
         wait : WaitKinds, pin : Blobs, retired : Seq(Stages \X Stages)]

Memory == [live : BOOLEAN, stage : Names, parked : BOOLEAN, violated : BOOLEAN,
           held : BOOLEAN, deferred : Names, dresume : BOOLEAN, own : BOOLEAN,
           quiet : Seq(Stages), pin : Blobs, exec : BOOLEAN, seats : Nat,
           wait : WaitKinds, gate : BOOLEAN]

ASSUME EngineAssumption ==
  /\ ProjectOf \in [Runs -> Projects] /\ Instance \notin Projects
  /\ NoStage \notin Stages /\ Blobs # {}
  /\ MaxSeats \in Nat /\ MaxStarts \in Nat /\ SlotCap \in [Projects -> Nat]
  /\ \A b \in Builds : \* registerLane refuses any other lane
       /\ b.stages \subseteq Stages /\ b.first \in b.stages
       /\ DOMAIN b.retired \subseteq Stages \ b.stages
       /\ \A s \in DOMAIN b.retired : b.retired[s] \in b.stages
  /\ Upgrades \subseteq Builds \X Builds

ASSUME FiniteRuns == IsFiniteSet(Runs) \* what one home holds

(* "The map is a permanent seam: every stage removal adds a line" (engine.mjs, *)
(* resumeStageOf): a later build still reads every name an earlier one wrote.  *)
ASSUME PermanentSeam ==
  \A u \in Upgrades :
    u[1].stages \cup DOMAIN u[1].retired \subseteq u[2].stages \cup DOMAIN u[2].retired

AnyBlob == CHOOSE b \in Blobs : TRUE

NoLedger == [phase |-> "absent", stage |-> NoStage, parked |-> FALSE, answers |-> 0,
             viol |-> 0, held |-> FALSE, deferred |-> NoStage, dresume |-> FALSE,
             own |-> FALSE, quiet |-> <<>>, wait |-> "none", pin |-> AnyBlob,
             retired |-> <<>>]

NotLive == [live |-> FALSE, stage |-> NoStage, parked |-> FALSE, violated |-> FALSE,
            held |-> FALSE, deferred |-> NoStage, dresume |-> FALSE, own |-> FALSE,
            quiet |-> <<>>, pin |-> AnyBlob, exec |-> FALSE, seats |-> 0,
            wait |-> "none", gate |-> FALSE]

---------------------------------------------------------------------------
(* One arm of the fold per event.  `quiet` is the stages entered since the *)
(* last line of any other kind, so every other line empties it.            *)

Silence == <<>>
Line(d) == [d EXCEPT !.quiet = Silence]
Launched(d, b) == [Line(d) EXCEPT !.phase = "open", !.pin = b]
Entered(d, s) == [d EXCEPT !.stage = s, !.quiet = Append(@, s)]
Held(d, s, again) == [Line(d) EXCEPT !.held = TRUE, !.deferred = s, !.dresume = again]
Released(d) == [Line(d) EXCEPT !.held = FALSE, !.deferred = NoStage, !.dresume = FALSE]
HoldChanged(d, h) == [Line(d) EXCEPT !.own = h]
Parked(d) == [Line(d) EXCEPT !.parked = TRUE, !.answers = 0]
Answered(d) == [Line(d) EXCEPT !.answers = @ + 1]
Resumed(d) == [Line(d) EXCEPT !.parked = FALSE]
Violated(d) == [Line(d) EXCEPT !.viol = @ + 1]
Resolved(d) == [Line(d) EXCEPT !.viol = @ - 1]
WaitBegun(d, k) == [Line(d) EXCEPT !.wait = k]
WaitEnded(d) == [Line(d) EXCEPT !.wait = "none"]
Repinned(d, b) == [Line(d) EXCEPT !.pin = b]
Sent(d, from, to) == [Line(d) EXCEPT !.retired = Append(@, <<from, to>>)]
Closed(d) == [Line(d) EXCEPT !.phase = "closed"]

(* Seeded bug: a start that forgets the run's own hold. *)
ReplayWithoutOwnHold(d) ==
  [NotLive EXCEPT !.live = TRUE, !.stage = d.stage, !.parked = d.parked,
     !.violated = d.viol > 0, !.held = d.held, !.deferred = d.deferred,
     !.dresume = d.dresume, !.quiet = d.quiet, !.pin = d.pin]

(* What a daemon start reads back: deriveRunState, and no execution. *)
Replay(d) == [live |-> TRUE, stage |-> d.stage, parked |-> d.parked,
              violated |-> d.viol > 0, held |-> d.held, deferred |-> d.deferred,
              dresume |-> d.dresume, own |-> d.own, quiet |-> d.quiet,
              pin |-> d.pin, exec |-> FALSE, seats |-> 0, wait |-> "none",
              gate |-> FALSE]

---------------------------------------------------------------------------
(* The engine's own steps, on the pair x of one run's ledger and memory.    *)

On(d, m) == [d |-> d, m |-> m]
Of(r) == On(led[r], mem[r])
Heard(m) == [m EXCEPT !.quiet = Silence] \* onAppend, for any line but stage-entered

RunHeld(own, p, sc) == own \/ Instance \in sc \/ p \in sc
IsHeld(r) == RunHeld(mem[r].own, ProjectOf[r], scopes)

ExecuteStage(x) == On(x.d, [x.m EXCEPT !.exec = TRUE])
EnterStage(x, s) ==
  On(Entered(x.d, s), [x.m EXCEPT !.stage = s, !.quiet = Append(@, s), !.exec = TRUE])
HoldAt(x, s, again) ==
  On(Held(x.d, s, again), [Heard(x.m) EXCEPT !.held = TRUE, !.deferred = s, !.dresume = again])
StampViolation(x) == On(Violated(x.d), [Heard(x.m) EXCEPT !.violated = TRUE])

InStreak(q, s) == \E i \in 1..Len(q) : q[i] = s

(* Seeded bug: a stage of a quiet streak is entered again without its line.   *)
ChainWithoutLine(x, s, heldNow) ==
  IF heldNow THEN HoldAt(x, s, FALSE)
  ELSE IF InStreak(x.m.quiet, s) THEN On(x.d, [x.m EXCEPT !.stage = s, !.exec = TRUE])
  ELSE EnterStage(x, s)

(* A hold is read first, then the quiet cycle. *)
ChainStage(x, s, heldNow) ==
  IF heldNow THEN HoldAt(x, s, FALSE)
  ELSE IF InStreak(x.m.quiet, s) THEN StampViolation(x)
  ELSE EnterStage(x, s)

(* The stage a resume enters for a name a ledger holds, or NoStage. *)
ResumeStage(b, s) ==
  IF s \in b.stages THEN s
  ELSE IF s \in DOMAIN b.retired THEN b.retired[s] ELSE NoStage

(* The record of a retirement, unless the ledger as it was read holds it. *)
SendOn(x, read, from, to) ==
  IF to = from \/ (\E i \in 1..Len(read.retired) : read.retired[i] = <<from, to>>)
  THEN x ELSE On(Sent(x.d, from, to), Heard(x.m))

(* resumeOpenRuns, one open run: the waits the dead instance left are closed *)
(* first, the stage name is read through the retired map, and then the run   *)
(* is left to the human, refused, left held, held, or re-entered.  The value *)
(* is the sequence of states the run passes through, one per append.         *)
Recovered(x) == IF x.d.wait = "none" THEN x ELSE On(WaitEnded(x.d), Heard(x.m))

Renamed(x, read, b) ==
  LET to == ResumeStage(b, x.m.stage)
  IN  IF to = NoStage THEN x
      ELSE LET y == SendOn(x, read, x.m.stage, to) IN On(y.d, [y.m EXCEPT !.stage = to])

(* Seeded bug: only the stage a run is in is read through the retired map. *)
ResumeStageOnly(x, read, b, heldNow) ==
  IF x.m.parked \/ x.m.violated THEN x
  ELSE IF x.m.stage \notin b.stages THEN StampViolation(x)
  ELSE IF x.m.held THEN x
  ELSE IF heldNow THEN HoldAt(x, x.m.stage, TRUE)
  ELSE EnterStage(x, x.m.stage)

Resume(x, read, b, heldNow) ==
  LET deferred == ResumeStage(b, x.m.deferred)
  IN  IF x.m.parked \/ x.m.violated THEN x
      ELSE IF x.m.stage \notin b.stages THEN StampViolation(x)
      ELSE IF x.m.held
           THEN IF deferred = NoStage THEN StampViolation(x)
                ELSE LET y == SendOn(x, read, x.m.deferred, deferred)
                     IN  On(y.d, [y.m EXCEPT !.deferred = deferred])
      ELSE IF heldNow THEN HoldAt(x, x.m.stage, TRUE)
      ELSE EnterStage(x, x.m.stage)

Replayed(r) == Recovered(On(led[r], Replay(led[r])))
ResumeOne(r, b) ==
  Resume(Renamed(Replayed(r), led[r], b), led[r], b,
         RunHeld(led[r].own, ProjectOf[r], scopes))

(* releaseHeldRuns, one run: the barrier opens, or the deferred stage enters. *)
ReleaseOne(x) ==
  IF ~x.m.held THEN On(x.d, [x.m EXCEPT !.gate = FALSE])
  ELSE LET y == On(Released(x.d),
                   [Heard(x.m) EXCEPT !.held = FALSE, !.deferred = NoStage, !.dresume = FALSE])
       IN  IF x.m.dresume THEN ExecuteStage(y) ELSE EnterStage(y, x.m.deferred)

---------------------------------------------------------------------------
(* What a call leaves behind: all of it, or a crash after some of its lines. *)
(* `cut` holds the ledgers the lines before the last one leave.              *)

Alive == mode # "down"
Daemon == <<mode, build, starts>>

Put(r, x) ==
  /\ led' = [led EXCEPT ![r] = x.d]
  /\ mem' = [mem EXCEPT ![r] = x.m]
  /\ UNCHANGED Daemon

Dead == mode' = "down" /\ mem' = [r \in Runs |-> NotLive]
Dies == Dead /\ UNCHANGED <<build, starts>>

CutShort(r, cut) == \E d \in cut : led' = [led EXCEPT ![r] = d] /\ Dies

(* A call that walks the runs of `todo` from from[r] to final[r] and dies with *)
(* some of them done and one of them part-way.                               *)
CutWalk(from, todo, final, cut) ==
  \E done \in SUBSET todo : \E p \in todo \ done : \E d \in cut[p] :
    led' = [r \in Runs |->
              IF r = p THEN d ELSE IF r \in done THEN final[r].d ELSE from[r]]

---------------------------------------------------------------------------
(* Slots.  A parked run and a run in an external wait give theirs up; a held *)
(* run and a violated run keep it.                                           *)

(* Seeded bug: a held run gives its slot up. *)
ActiveUnlessHeld(r) ==
  mem[r].live /\ ~mem[r].parked /\ ~mem[r].held /\ mem[r].wait # "frees"
Active(r) == mem[r].live /\ ~mem[r].parked /\ mem[r].wait # "frees"
ActiveCount(p) == Cardinality({r \in Runs : ProjectOf[r] = p /\ Active(r)})

Launch(r, b) ==
  LET x == On(Launched(led[r], b), [NotLive EXCEPT !.live = TRUE, !.pin = b])
  IN  /\ mode = "up" /\ led[r].phase = "absent"
      /\ ActiveCount(ProjectOf[r]) < SlotCap[ProjectOf[r]]
      /\ Put(r, EnterStage(x, build.first)) \/ CutShort(r, {x.d})
      /\ UNCHANGED scopes

---------------------------------------------------------------------------
(* The stage handler.  A name no build registers has no handler, so all it   *)
(* can do is fail; a handler awaits its children and waits before it returns. *)

Running(r) == mem[r].exec /\ mem[r].wait = "none" /\ ~mem[r].gate
Working(r) == Running(r) /\ mem[r].stage \in build.stages
Settled(r) == On(led[r], [mem[r] EXCEPT !.exec = FALSE])
Returns(r) == mode = "up" /\ Working(r) /\ mem[r].seats = 0

OtherLine(r) == \* any line no action here names: a stamp, a cost line, a resolution
  /\ Alive /\ mem[r].live /\ mem[r].quiet # <<>>
  /\ Put(r, On(Line(led[r]), Heard(mem[r]))) /\ UNCHANGED scopes

SeatStart(r) == \* a stop awaits the seats it found, so a later one is not counted
  /\ mode = "up" /\ Working(r) /\ mem[r].seats < MaxSeats
  /\ Put(r, On(Line(led[r]), [Heard(mem[r]) EXCEPT !.seats = @ + 1]))
  /\ UNCHANGED scopes

SeatExit(r) ==
  /\ Alive /\ mem[r].seats > 0
  /\ Put(r, On(Line(led[r]), [Heard(mem[r]) EXCEPT !.seats = @ - 1]))
  /\ UNCHANGED scopes

WaitBegin(r, k) ==
  /\ Alive /\ Working(r) /\ k # "none"
  /\ Put(r, On(WaitBegun(led[r], k), [Heard(mem[r]) EXCEPT !.wait = k]))
  /\ UNCHANGED scopes

WaitEnd(r) == \* then the barrier, where a hold stops the re-dispatch
  /\ Alive /\ mem[r].wait # "none"
  /\ Put(r, On(WaitEnded(led[r]), [Heard(mem[r]) EXCEPT
               !.wait = "none", !.gate = IsHeld(r) /\ mode = "up"]))
  /\ UNCHANGED scopes

Advance(r, s) ==
  /\ Returns(r) /\ s \in build.stages
  /\ Put(r, ChainStage(Settled(r), s, IsHeld(r))) /\ UNCHANGED scopes

Park(r) ==
  /\ Returns(r)
  /\ Put(r, On(Parked(led[r]), [Heard(Settled(r).m) EXCEPT !.parked = TRUE]))
  /\ UNCHANGED scopes

(* Seeded bug: a throw that is dropped. *)
FailSilently(r) == mode = "up" /\ Running(r) /\ Put(r, Settled(r)) /\ UNCHANGED scopes

Fail(r) == \* a throw, no directive, or one the catalogs refuse
  /\ mode = "up" /\ Running(r)
  /\ Put(r, StampViolation(Settled(r))) /\ UNCHANGED scopes

(* closeRun: the loud records the close settles, then run-closed. *)
CloseRun(r, d) ==
  /\ Put(r, On(Closed(d), NotLive)) \/ CutShort(r, {d, Line(d)})
  /\ UNCHANGED scopes

Close(r) == Returns(r) /\ CloseRun(r, led[r])

SettleDropped(r) == \* what a handler returns to a stopping engine
  /\ mode = "stopping" /\ Running(r)
  /\ Put(r, Settled(r)) /\ UNCHANGED scopes

---------------------------------------------------------------------------
(* The operator's commands.  Only a launch asks whether the engine is        *)
(* stopping: a batch of commands already being drained is drained to its end. *)

Kill(r) == Alive /\ mem[r].live /\ CloseRun(r, Recovered(Of(r)).d)

Answer(r) ==
  LET y == On(Resumed(Answered(led[r])), [Heard(mem[r]) EXCEPT !.parked = FALSE])
  IN  /\ Alive /\ mem[r].parked
      /\ \/ Put(r, IF IsHeld(r) THEN HoldAt(y, mem[r].stage, TRUE) ELSE ExecuteStage(y))
         \/ CutShort(r, {Answered(led[r])} \cup IF IsHeld(r) THEN {y.d} ELSE {})
      /\ UNCHANGED scopes

Resolve(r) ==
  LET x == On(Resolved(led[r]), Heard(mem[r]))
      y == On(x.d, [x.m EXCEPT !.violated = FALSE])
      idle == ~x.m.parked /\ ~x.m.held /\ ~x.m.exec /\ x.m.seats = 0
  IN  /\ Alive /\ mem[r].live /\ led[r].viol > 0
      /\ Put(r, IF ~x.m.violated \/ x.d.viol > 0 THEN x
                ELSE IF idle THEN ExecuteStage(y) ELSE y)
      /\ UNCHANGED scopes

Reconfigure(r, b) ==
  /\ Alive /\ mem[r].live /\ mem[r].pin # b
  /\ Put(r, On(Repinned(led[r], b), [Heard(mem[r]) EXCEPT !.pin = b]))
  /\ UNCHANGED scopes

HoldScope(s) ==
  /\ Alive /\ s \notin scopes
  /\ scopes' = scopes \cup {s} /\ UNCHANGED <<mode, build, led, mem, starts>>

HoldRun(r) ==
  /\ Alive /\ mem[r].live /\ ~mem[r].own
  /\ Put(r, On(HoldChanged(led[r], TRUE), [Heard(mem[r]) EXCEPT !.own = TRUE]))
  /\ UNCHANGED scopes

(* releaseHeldRuns, over the runs as `now` has them and the wide holds `sc`. *)
ReleaseHeldRuns(now, sc) ==
  LET todo == {r \in Runs : /\ now[r].m.live /\ (now[r].m.held \/ now[r].m.gate)
                            /\ ~RunHeld(now[r].m.own, ProjectOf[r], sc)}
      from == [r \in Runs |-> now[r].d]
      final == [r \in Runs |-> ReleaseOne(now[r])]
      cut == [r \in Runs |-> {now[r].d} \cup
                             IF now[r].m.held THEN {Released(now[r].d)} ELSE {}]
  IN  \/ /\ led' = [r \in Runs |-> IF r \in todo THEN final[r].d ELSE from[r]]
         /\ mem' = [r \in Runs |-> IF r \in todo THEN final[r].m ELSE now[r].m]
         /\ UNCHANGED Daemon
      \/ CutWalk(from, todo, final, cut) /\ Dies

(* Seeded bug: the holds are read before the release lifts one. *)
ReleaseScopeStale(s) ==
  /\ Alive /\ scopes' = scopes \ {s}
  /\ ReleaseHeldRuns([r \in Runs |-> Of(r)], scopes)

ReleaseScope(s) ==
  /\ Alive /\ scopes' = scopes \ {s}
  /\ ReleaseHeldRuns([r \in Runs |-> Of(r)], scopes')

ReleaseRun(r) == \* refused while a wider hold stands
  LET x == IF ~mem[r].own THEN Of(r)
           ELSE On(HoldChanged(led[r], FALSE), [Heard(mem[r]) EXCEPT !.own = FALSE])
  IN  /\ Alive /\ mem[r].live
      /\ Instance \notin scopes /\ ProjectOf[r] \notin scopes
      /\ ReleaseHeldRuns([[q \in Runs |-> Of(q)] EXCEPT ![r] = x], scopes)
      /\ UNCHANGED scopes

---------------------------------------------------------------------------
(* The daemon's own life. *)

StopBegin == \* every wait is ended on the ledger, every seat is told to end
  LET todo == {r \in Runs : mem[r].live /\ (mem[r].wait # "none" \/ mem[r].gate)}
      ended(r) == Recovered(Of(r))
      final == [r \in Runs |->
                  On(ended(r).d, [ended(r).m EXCEPT !.wait = "none", !.gate = FALSE])]
  IN  /\ mode = "up" /\ UNCHANGED scopes
      /\ \/ /\ led' = [r \in Runs |-> IF r \in todo THEN final[r].d ELSE led[r]]
            /\ IF \A r \in Runs : mem[r].seats = 0 THEN Dies
               ELSE /\ mode' = "stopping" /\ UNCHANGED <<build, starts>>
                    /\ mem' = [r \in Runs |-> IF r \in todo THEN final[r].m ELSE mem[r]]
         \/ CutWalk(led, todo, final, [r \in Runs |-> {led[r]}]) /\ Dies

StopEnd == \* the seats have stamped their ends, and the stores close
  /\ mode = "stopping" /\ \A r \in Runs : mem[r].seats = 0
  /\ Dies /\ UNCHANGED <<scopes, led>>

Crash == Alive /\ Dies /\ UNCHANGED <<scopes, led>>

Start(b) ==
  LET todo == {r \in Runs : led[r].phase = "open"}
      final == [r \in Runs |-> ResumeOne(r, b)]
      cut == [r \in Runs |-> {led[r], Replayed(r).d, Renamed(Replayed(r), led[r], b).d}]
  IN  /\ mode = "down" /\ starts < MaxStarts /\ <<build, b>> \in Upgrades
      /\ build' = b /\ starts' = starts + 1 /\ UNCHANGED scopes
      /\ \/ /\ led' = [r \in Runs |-> IF r \in todo THEN final[r].d ELSE led[r]]
            /\ mem' = [r \in Runs |-> IF r \in todo THEN final[r].m ELSE NotLive]
            /\ mode' = "up"
         \/ CutWalk(led, todo, final, cut) /\ Dead

---------------------------------------------------------------------------
Init ==
  /\ mode = "down" /\ build \in Builds /\ scopes = {} /\ starts = 0
  /\ led = [r \in Runs |-> NoLedger] /\ mem = [r \in Runs |-> NotLive]

Handler(r) ==
  \/ SeatStart(r) \/ Park(r) \/ Fail(r) \/ Close(r) \/ SettleDropped(r)
  \/ \E k \in WaitKinds : WaitBegin(r, k)
  \/ \E s \in Stages : Advance(r, s)

Command(r) ==
  \/ Kill(r) \/ Answer(r) \/ Resolve(r) \/ HoldRun(r) \/ ReleaseRun(r)
  \/ \E b \in Blobs : Reconfigure(r, b)

Next ==
  \/ \E r \in Runs, b \in Blobs : Launch(r, b)
  \/ \E r \in Runs : Handler(r) \/ Command(r)
  \/ \E r \in Runs : SeatExit(r) \/ WaitEnd(r) \/ OtherLine(r)
  \/ \E s \in Scopes : HoldScope(s) \/ ReleaseScope(s)
  \/ StopBegin \/ StopEnd \/ Crash
  \/ \E b \in Builds : Start(b)

Spec == Init /\ [][Next]_vars

---------------------------------------------------------------------------
(* Fairness.  A child ends (its cost ceiling, its silence deadline and the     *)
(* process table all end it), a wait is a bounded span, and a handler returns. *)

Fairness ==
  /\ WF_vars(StopEnd)
  /\ \A r \in Runs :
       /\ WF_vars(SeatExit(r)) /\ WF_vars(WaitEnd(r)) /\ WF_vars(SettleDropped(r))
       /\ WF_vars(Fail(r) \/ Park(r) \/ Close(r) \/ \E s \in Stages : Advance(r, s))

FairSpec == Spec /\ Fairness

---------------------------------------------------------------------------
(* Every variable has its type; the bounds hold. *)
TypeOK ==
  /\ mode \in {"down", "up", "stopping"} /\ build \in Builds /\ scopes \subseteq Scopes
  /\ starts \in 0..MaxStarts
  /\ led \in [Runs -> Fold] /\ mem \in [Runs -> Memory]

(* What the engine remembers of a run is what a start would read back from    *)
(* its ledger: nothing it decides by lives in memory alone, and no decision is *)
(* taken on a memory the ledger has moved past.                               *)
Agrees(r) ==
  /\ mem[r].parked = led[r].parked /\ mem[r].violated = (led[r].viol > 0)
  /\ mem[r].held = led[r].held /\ mem[r].dresume = led[r].dresume
  /\ mem[r].own = led[r].own /\ mem[r].quiet = led[r].quiet
  /\ mem[r].wait = led[r].wait /\ mem[r].pin = led[r].pin
  /\ mem[r].stage \in {led[r].stage, ResumeStage(build, led[r].stage)}
  /\ mem[r].deferred \in {led[r].deferred, ResumeStage(build, led[r].deferred)}

(* It holds of every run, and a live one is one whose ledger is open.          *)
MemoryAgrees ==
  \A r \in Runs : /\ mem[r].live <=> (Alive /\ led[r].phase = "open")
                  /\ mem[r].live => Agrees(r)

(* A run executes, or waits on a person, or stands at a boundary: no two of    *)
(* the three, so no handler runs behind a park or a hold (engine.mjs, park,    *)
(* holdAt, answer, releaseHeldRuns).                                          *)
ModesExclusive ==
  \A r \in Runs :
    /\ ~(mem[r].exec /\ mem[r].parked) /\ ~(mem[r].exec /\ mem[r].held)
    /\ ~(mem[r].parked /\ mem[r].held)
    /\ (mem[r].wait # "none" \/ mem[r].gate) => mem[r].exec

(* No open run stands on a name its lane retired, in the stage it is in or in  *)
(* the one a hold deferred: sendOnRetired reads both names through the map, so *)
(* an answer, a resolution or a release executes a name this build runs.       *)
NoRetiredName ==
  \A r \in Runs : mem[r].live =>
    /\ mem[r].stage \notin DOMAIN build.retired
    /\ mem[r].held => mem[r].deferred \notin DOMAIN build.retired

---------------------------------------------------------------------------
(* A stage of r starts in this step: its handler is dispatched afresh. *)
StageStarts(r) ==
  mem'[r].exec /\ (~mem[r].exec \/ Len(mem'[r].quiet) > Len(mem[r].quiet))
Launches(r) == led[r].phase = "absent"

(* Under a hold no stage starts, except a launch's first one (ADR-0040 leaves  *)
(* entry to the pause) and the stage a cleared violation re-executes.          *)
OnlyAResolveStartsAHeldStage ==
  [][\A r \in Runs : StageStarts(r) /\ IsHeld(r)' =>
       Launches(r) \/ led'[r].viol < led[r].viol]_vars

(* ADR-0040: an operator hold stops every entry to the stage chain.            *)
NoStageStartsUnderHold ==
  [][\A r \in Runs : StageStarts(r) /\ IsHeld(r)' => Launches(r)]_vars

(* A release runs what the hold deferred, once, and only where no other hold   *)
(* still covers the run (ADR-0057): the next stage, or the stage an answered   *)
(* park or a restart owes.                                                    *)
ReleaseEntersDeferred ==
  [][\A r \in Runs : mem[r].held /\ mem'[r].live /\ ~mem'[r].held =>
       /\ ~IsHeld(r)' /\ mem'[r].exec
       /\ mem'[r].stage = IF mem[r].dresume THEN mem[r].stage ELSE mem[r].deferred]_vars

(* While the daemon lives, every run a step frees of its last hold moves in    *)
(* that step: no release leaves a run standing behind nothing.                *)
Stray(r) == mem[r].held /\ ~IsHeld(r)
NoReleaseLeavesARunBehind ==
  [][Alive /\ Alive' => \A r \in Runs : Stray(r)' => Stray(r)]_vars

(* What the liveness invariant of engine.mjs lets an open run stand behind.    *)
AccountedFor(r) ==
  mem[r].exec \/ mem[r].seats > 0 \/ mem[r].parked \/ mem[r].held \/ mem[r].violated

(* No transition of the engine drops a run out of that invariant: only the     *)
(* exit of a child that outlived its handler can.                              *)
OnlyAnOrphanSeatLeavesARunInert ==
  [][\A r \in Runs : mem'[r].live /\ ~AccountedFor(r)' =>
       \/ mem[r].live /\ (~AccountedFor(r) \/ mem[r].seats = 1)
       \/ mode = "stopping"]_vars

(* A start executes no run that waits: on a person, on a violation, at a       *)
(* boundary, or under a hold that was taken before the stop (ADR-0070).        *)
StartRunsNothingThatWaits ==
  [][mode = "down" /\ mode' = "up" => \A r \in Runs :
       mem'[r].live /\ (led[r].parked \/ led[r].viol > 0 \/ led[r].held \/ IsHeld(r)')
         => ~mem'[r].exec /\ (led[r].held => mem'[r].held)]_vars

(* An operator hold over the run's whole life: no stage starts under it but   *)
(* what a resolution re-executes, a release enters exactly what was deferred,  *)
(* no release leaves a run behind nothing, and a restart starts no run a hold  *)
(* or a person has (ADR-0040, ADR-0057, ADR-0070).                            *)
HoldsAreHonoured == /\ OnlyAResolveStartsAHeldStage /\ ReleaseEntersDeferred
                    /\ NoReleaseLeavesARunBehind /\ StartRunsNothingThatWaits

(* The cap gates launch, so a project goes over it only by a run that had      *)
(* given its slot up and takes it back; a held run never gave it up.           *)
OnlyAReturningRunGoesOverTheCap ==
  [][\A p \in Projects :
       ActiveCount(p)' > ActiveCount(p) /\ ActiveCount(p)' > SlotCap[p] =>
         \E r \in Runs : /\ ProjectOf[r] = p /\ Active(r)' /\ ~Launches(r)
                         /\ mem[r].parked \/ mem[r].wait = "frees" \/ mode = "down"]_vars

(* architecture.md, the escalation queue: the first answer to a park wins.     *)
OneAnswerPerPark == \A r \in Runs : led[r].answers <= 1

(* No run spins in silence: a live run's ledger gets a line that is not a      *)
(* stage entry again and again, or the run stops executing and says so.        *)
NeverQuietForGood == \A r \in Runs : []<>(~mem[r].live \/ mem[r].quiet = <<>>)

(* A stop that began ends. *)
StopCompletes == mode = "stopping" ~> mode = "down"

(* Neither a run nor a stop stands in silence for good: what the engine calls  *)
(* its liveness invariant, with the stop that awaits every seat in flight.     *)
NothingStandsForGood == NeverQuietForGood /\ StopCompletes
===========================================================================
