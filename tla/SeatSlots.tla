----------------------------- MODULE SeatSlots -----------------------------
(***************************************************************************)
(* The model semaphores (seats/semaphore.mjs) and the seat sessions that    *)
(* take their slots (seats/runner.mjs, runSeat): each session dispatches    *)
(* child after child, and gives its slot back for a wait, for a degrade to  *)
(* the fallback model, and at its end.  Kills, the stop and live edits of    *)
(* the caps come between its steps.  All of it lives in one daemon process: *)
(* a restart begins with nothing held and nobody queued.                    *)
(***************************************************************************)
EXTENDS Integers, Sequences, FiniteSets

CONSTANTS
  Runs, Seats, RunOf,  \* runs, the seat sessions of their handlers, whose each is
  Models, Fallback,    \* model ids, and the one a refused session degrades to
  Configs,             \* the caps a live config may give the models; NoCap for no key
  MaxDispatches        \* bound: children a session spawns

VARIABLES
  mode,    \* "up", "stopping" while the engine awaits its seats, "down"
  closed,  \* runs an operator killed
  limits,  \* the cap of each model, as the live config has it
  held,    \* slots granted under a cap and not given back
  queue,   \* the waiters of each model, in order
  seat,    \* each session
  drain    \* the children a stop awaits

vars == <<mode, closed, limits, held, queue, seat, drain>>

NoCap == 0
Places == {"new", "queued", "in", "child", "wait", "over"}
Session == [at : Places, model : Models, counted : BOOLEAN, told : BOOLEAN,
            hung : BOOLEAN, left : Nat]

ASSUME SlotsAssumption ==
  /\ RunOf \in [Seats -> Runs] /\ Fallback \in Models
  /\ Configs \subseteq [Models -> Nat] /\ MaxDispatches \in [Seats -> Nat \ {0}]

ASSUME FiniteSeats == IsFiniteSet(Seats) \* a process opens finitely many sessions

---------------------------------------------------------------------------
(* The semaphore, on a desk x: what is held, who queues, and the sessions.   *)

Desk == [held |-> held, queue |-> queue, seat |-> seat]

(* How many of n waiters a drain lets in. *)
Room(h, cap, n) ==
  IF cap = NoCap THEN n ELSE IF h >= cap THEN 0 ELSE IF n < cap - h THEN n ELSE cap - h

LetIn(s) == [s EXCEPT !.at = "in", !.counted = TRUE]

Served(x, k, s) == \E m \in Models : \E i \in 1..k[m] : x.queue[m][i] = s

(* Seeded bug: the last to come is the first served. *)
DrainFromTheBack(x, models, caps) ==
  LET n == [m \in Models |-> Len(x.queue[m])]
      k == [m \in Models |-> IF m \in models THEN Room(x.held[m], caps[m], n[m]) ELSE 0]
  IN  [held |-> [m \in Models |-> x.held[m] + k[m]],
       queue |-> [m \in Models |-> SubSeq(x.queue[m], 1, n[m] - k[m])],
       seat |-> [s \in Seats |->
         IF \E m \in Models : \E i \in (n[m] - k[m] + 1)..n[m] : x.queue[m][i] = s
         THEN LetIn(x.seat[s]) ELSE x.seat[s]]]

(* The first waiters of each model are let in, as many as its cap has room for. *)
Drain(x, models, caps) ==
  LET k == [m \in Models |->
              IF m \in models THEN Room(x.held[m], caps[m], Len(x.queue[m])) ELSE 0]
  IN  [held |-> [m \in Models |-> x.held[m] + k[m]],
       queue |-> [m \in Models |-> SubSeq(x.queue[m], k[m] + 1, Len(x.queue[m]))],
       seat |-> [s \in Seats |-> IF Served(x, k, s) THEN LetIn(x.seat[s]) ELSE x.seat[s]]]

Acquire(x, s, m) ==
  LET y == [x EXCEPT !.seat[s].model = m]
  IN  IF limits[m] = NoCap THEN [y EXCEPT !.seat[s].at = "in"]
      ELSE IF x.held[m] < limits[m] /\ x.queue[m] = <<>>
      THEN [y EXCEPT !.held[m] = @ + 1, !.seat[s] = LetIn(@)]
      ELSE [y EXCEPT !.queue[m] = Append(@, s), !.seat[s].at = "queued"]

(* The release of a grant no cap counted does nothing. *)
Release(x, s) ==
  LET m == x.seat[s].model
  IN  IF ~x.seat[s].counted THEN x
      ELSE Drain([x EXCEPT !.held[m] = @ - 1, !.seat[s].counted = FALSE], {m}, limits)

(* What is left of a session whose child or wait is gone. *)
Afresh(x) == [x EXCEPT !.told = FALSE, !.hung = FALSE]
Over == [at |-> "over", model |-> Fallback, counted |-> FALSE, told |-> FALSE,
         hung |-> FALSE, left |-> 0]

Childless(x, s) == [x EXCEPT !.seat[s] = Afresh(@)] \* the child is gone
Moved(x, s, place) == [x EXCEPT !.seat[s] = [Afresh(@) EXCEPT !.at = place]]

Becomes(x) == \E y \in {x} : held' = y.held /\ queue' = y.queue /\ seat' = y.seat

---------------------------------------------------------------------------
(* One session.  Nothing of it asks whether its run is closed or the engine *)
(* is stopping: a child that is told to end, and a wait that is cancelled,   *)
(* are what ends it.                                                        *)

(* The continuation of a grant is run before the next event of the loop: an    *)
(* exit, a timer, a command or an edit finds no session between the two.       *)
LoopFree == \A s \in Seats : seat[s].at # "in"

Child(s) == seat[s].at = "child"
Untold(s) == LoopFree /\ Child(s) /\ ~seat[s].told
Reaped(s) == drain' = drain \ {s}

Begin(s, m) ==
  /\ mode = "up" /\ RunOf[s] \notin closed /\ seat[s].at = "new"
  /\ Becomes(Acquire(Desk, s, m)) /\ UNCHANGED <<mode, closed, limits, drain>>

Dispatches(s) ==
  /\ seat[s].at = "in" /\ seat[s].left > 0
  /\ seat' = [seat EXCEPT ![s].at = "child", ![s].left = @ - 1]
  /\ UNCHANGED <<mode, closed, limits, held, queue, drain>>

GoesSilent(s) == \* the silence deadline: the tree is being killed
  /\ Untold(s) /\ ~seat[s].hung
  /\ seat' = [seat EXCEPT ![s].hung = TRUE]
  /\ UNCHANGED <<mode, closed, limits, held, queue, drain>>

Redispatch(s) == \* a crash retry in place, or the corrective second attempt
  /\ Untold(s) /\ seat[s].left > 0
  /\ Becomes(Moved(Desk, s, "in")) /\ Reaped(s) /\ UNCHANGED <<mode, closed, limits>>

LadderWait(s) == \* a wait holds no model slot
  /\ Untold(s) /\ seat[s].left > 0
  /\ Becomes(Moved(Release(Desk, s), s, "wait")) /\ Reaped(s)
  /\ UNCHANGED <<mode, closed, limits>>

WaitEnds(s) ==
  /\ LoopFree /\ seat[s].at = "wait"
  /\ Becomes(Acquire(Desk, s, seat[s].model)) /\ UNCHANGED <<mode, closed, limits, drain>>

Degrade(s) == \* the refused model's slot goes back, the fallback's is asked for
  /\ Untold(s) /\ ~seat[s].hung /\ seat[s].model # Fallback /\ seat[s].left > 0
  /\ Becomes(Acquire(Release(Childless(Desk, s), s), s, Fallback)) /\ Reaped(s)
  /\ UNCHANGED <<mode, closed, limits>>

Ends(s) == \* a report, or a failure or termination nothing retries
  /\ LoopFree /\ Child(s)
  /\ LET x == Release(Desk, s) IN Becomes([x EXCEPT !.seat[s] = Over])
  /\ Reaped(s) /\ UNCHANGED <<mode, closed, limits>>

---------------------------------------------------------------------------
(* What ends a session from outside: its child is told to end, unless the   *)
(* deadline is already ending it, and the wait it stands in is cancelled.    *)
Told(x) ==
  CASE x.at = "child" /\ ~x.hung -> [x EXCEPT !.told = TRUE]
    [] x.at = "wait" -> Over
    [] OTHER -> x

KillRun(r) ==
  /\ LoopFree /\ mode # "down" /\ r \notin closed /\ closed' = closed \cup {r}
  /\ seat' = [s \in Seats |-> IF RunOf[s] = r THEN Told(seat[s]) ELSE seat[s]]
  /\ UNCHANGED <<mode, limits, held, queue, drain>>

Stop == \* over the open runs; the seats in flight now are the ones awaited
  /\ LoopFree /\ mode = "up" /\ mode' = "stopping"
  /\ drain' = {s \in Seats : Child(s) /\ RunOf[s] \notin closed}
  /\ seat' = [s \in Seats |-> IF RunOf[s] \notin closed THEN Told(seat[s]) ELSE seat[s]]
  /\ UNCHANGED <<closed, limits, held, queue>>

StopEnds ==
  /\ mode = "stopping" /\ drain = {} /\ mode' = "down"
  /\ UNCHANGED <<closed, limits, held, queue, seat, drain>>

(* Seeded bug: a live edit that wakes nobody. *)
SetLimitsQuietly(caps) ==
  /\ LoopFree /\ mode = "up" /\ limits' = caps /\ UNCHANGED <<mode, closed, held, queue, seat, drain>>

SetLimits(caps) == \* the pick-up of a live config edit
  /\ LoopFree /\ mode = "up" /\ limits' = caps
  /\ Becomes(Drain(Desk, Models, caps)) /\ UNCHANGED <<mode, closed, drain>>

---------------------------------------------------------------------------
Init ==
  /\ mode = "up" /\ closed = {} /\ drain = {}
  /\ limits \in Configs
  /\ held = [m \in Models |-> 0] /\ queue = [m \in Models |-> <<>>]
  /\ seat = [s \in Seats |-> [at |-> "new", model |-> Fallback, counted |-> FALSE,
                              told |-> FALSE, hung |-> FALSE, left |-> MaxDispatches[s]]]

Continues(s) ==
  Redispatch(s) \/ LadderWait(s) \/ Degrade(s) \/ Ends(s)

Next ==
  \/ \E s \in Seats : \/ \E m \in Models : Begin(s, m)
                      \/ Dispatches(s) \/ GoesSilent(s) \/ WaitEnds(s) \/ Continues(s)
  \/ \E r \in Runs : KillRun(r)
  \/ Stop \/ StopEnds
  \/ \E caps \in Configs : SetLimits(caps)

Spec == Init /\ [][Next]_vars

(* Fairness: a granted session dispatches, a child ends (its ceiling and its    *)
(* silence deadline end it), a wait is a bounded span.  It is the weak fairness *)
(* of a session's next step, with the state that enables the step named.       *)
Moves(s) == Dispatches(s) \/ Continues(s) \/ WaitEnds(s)
CanMove(s) == seat[s].at = "in" \/ (LoopFree /\ seat[s].at \in {"child", "wait"})
Fairness == \A s \in Seats : []<>~CanMove(s) \/ []<><<Moves(s)>>_vars

FairSpec == Spec /\ Fairness

---------------------------------------------------------------------------
(* Every variable has its type; what is held is never below nothing. *)
TypeOK ==
  /\ mode \in {"up", "stopping", "down"} /\ closed \subseteq Runs /\ drain \subseteq Seats
  /\ limits \in Configs /\ held \in [Models -> Nat]
  /\ queue \in [Models -> Seq(Seats)] /\ seat \in [Seats -> Session]

(* Every slot that is held is held by a session that stands between its grant  *)
(* and its release, so none leaks: not through a wait, a degrade, a kill, a     *)
(* cap taken away and given back (runner.mjs, idle and the finally).           *)
SlotsAccounted ==
  /\ \A m \in Models :
       held[m] = Cardinality({s \in Seats : seat[s].counted /\ seat[s].model = m})
  /\ \A s \in Seats : seat[s].counted => seat[s].at \in {"in", "child"}

(* A seat queues only behind a cap that is full: no release, no raised cap and *)
(* no removed key leaves a waiter standing before an open slot.                *)
NoLostWakeUp ==
  \A m \in Models : queue[m] # <<>> => limits[m] # NoCap /\ held[m] >= limits[m]

(* No grant goes over the cap that stands at it; a lowered cap only waits.      *)
GrantsStayUnderTheCap ==
  [][\A m \in Models : held'[m] > held[m] /\ limits'[m] # NoCap => held'[m] <= limits'[m]]_vars

(* First come, first served: whoever is let in under a cap leaves nobody behind *)
(* who queued before it.                                                      *)
FirstComeFirstServed ==
  [][\A m \in Models : \A s \in Seats :
       seat'[s].counted /\ ~seat[s].counted /\ seat'[s].model = m =>
         \A i \in 1..Len(queue[m]) :
           (\A j \in 1..i : queue[m][j] # s) => seat'[queue[m][i]].at = "in"]_vars

(* A seat waits on the semaphore and is let in: it never waits for good. *)
EveryQueuedSeatIsLetIn == \A s \in Seats : seat[s].at = "queued" ~> seat[s].at # "queued"

(* The queue is served: no slot leaks out of it, those who wait are let in in  *)
(* their order, and all of them are.                                          *)
TheQueueIsServed == []SlotsAccounted /\ FirstComeFirstServed /\ EveryQueuedSeatIsLetIn

(* engine.mjs, endWaits: after a kill or a stop nothing carries on spawning.    *)
NothingSpawnsIntoAShutdown ==
  [][\A s \in Seats : ~Child(s) /\ Child(s)' => RunOf[s] \notin closed /\ mode = "up"]_vars
===========================================================================
