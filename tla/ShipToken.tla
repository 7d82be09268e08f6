----------------------------- MODULE ShipToken -----------------------------
(***************************************************************************)
(* The ship token of one project (ship/token.mjs) and the seam it guards:   *)
(* the update and ship stages (lanes/ship.mjs) of every open run.           *)
(*                                                                         *)
(* The token is stored nowhere.  `log[r]` is what run r's own ledger says,   *)
(* as tokenPosition folds it; who holds the token, who waits and who is next *)
(* are read from the ledgers of all open runs at every take.  `hand[r]` is   *)
(* where the handler of r stands; a crash empties it and keeps the ledgers.  *)
(* `pr[r]` is the request at the forge, which merges an armed one on its own.*)
(***************************************************************************)
EXTENDS Naturals, FiniteSets

CONSTANTS
  Runs,             \* run ids of the project; ids are compared, so numbers
  NoRun,            \* no run
  Clock,            \* the instants a ledger line can carry
  ClockMayStepBack, \* whether the wall clock may be set back
  MaxSlips          \* bound: setbacks (cycles, parks, throws, holds, kills, crashes)

VARIABLES
  log, hand, pr,
  now,    \* the wall clock
  up,     \* whether the daemon runs
  slips,  \* setbacks so far
  ahead   \* history: for each run, who stood before it when it queued

vars == <<log, hand, pr, now, up, slips, ahead>>

Stages == {"verdict", "reconcile", "update", "ship", "close-out"}
States == {"none", "waiting", "holding", "done"}
Waits == {"none", "park", "violation", "hold"}
Places == {"off", "top", "poll", "act", "made", "armed", "out"}
Requests == {"none", "open", "armed", "merged"}

Ledger == [state : States, queuedAt : Clock \cup {0}, requested : BOOLEAN,
           closed : BOOLEAN, owed : {"none", "verdict", "reconcile"},
           stage : Stages, waits : Waits]
Hand == [at : Places, to : Stages \cup {"park"}]

ASSUME TokenAssumption ==
  /\ Runs \subseteq Nat /\ NoRun \notin Runs
  /\ Clock \subseteq Nat \ {0} /\ Clock # {}
  /\ ClockMayStepBack \in BOOLEAN /\ MaxSlips \in Nat

---------------------------------------------------------------------------
(* shipTokenState: the token across the open runs, from their ledgers alone. *)

Open(r) == ~log[r].closed

Holds(r) == Open(r) /\ log[r].state = "holding"
IsWaiting(r) == Open(r) /\ log[r].state = "waiting"

Earlier(a, b) == \* the earlier stamp, then the lower run id
  \/ log[a].queuedAt < log[b].queuedAt
  \/ log[a].queuedAt = log[b].queuedAt /\ a < b

IsNext(r) == IsWaiting(r) /\ \A q \in Runs \ {r} : IsWaiting(q) => Earlier(r, q)

(* Seeded bug: a take that reads the queue and no holder. *)
FreeByTheQueue(r) == IsNext(r) \/ \A q \in Runs : ~IsWaiting(q)
IsFree(r) ==
  /\ \A q \in Runs : ~Holds(q)
  /\ IsNext(r) \/ \A q \in Runs : ~IsWaiting(q)

---------------------------------------------------------------------------
(* The lines a run stamps on its own ledger.                                *)

Acquired(l) == [l EXCEPT !.state = "holding", !.owed = "none"]
Queued(l) == \* a position is kept until it is released
  [l EXCEPT !.state = "waiting", !.owed = "none",
            !.queuedAt = IF @ = 0 THEN now ELSE @]

(* Seeded bug: a release that keeps the run's first place in the queue. *)
GivenBackInPlace(l, why) == [l EXCEPT !.state = "none", !.owed = why]
GivenBack(l, why) == [l EXCEPT !.state = "none", !.queuedAt = 0, !.owed = why]
Requested(l) == [l EXCEPT !.state = "holding", !.requested = TRUE]
Merged(l) == [l EXCEPT !.state = "done"]
Closed(l) == [l EXCEPT !.closed = TRUE, !.waits = "none"]

(* releaseShipToken: only a holder with no request open gives the token back. *)
Release(l, why) ==
  IF l.state = "holding" /\ ~l.requested THEN GivenBack(l, why) ELSE l

---------------------------------------------------------------------------
At(r, s, place) == up /\ Open(r) /\ log[r].stage = s /\ hand[r].at = place

Goes(r, place) == hand' = [hand EXCEPT ![r].at = place]
Leaves(r, to) == hand' = [hand EXCEPT ![r] = [at |-> "out", to |-> to]]
Says(r, l) == log' = [log EXCEPT ![r] = l]
Slip == slips < MaxSlips /\ slips' = slips + 1
Steady == UNCHANGED <<pr, now, up, slips, ahead>>
Setback == Slip /\ UNCHANGED <<pr, now, up, ahead>>

(* takeShipToken: the reading and the stamp are one synchronous step.  A run   *)
(* that queues says so once.                                                  *)
TakeFree(r) ==
  /\ up /\ Open(r) /\ hand[r].at = "poll" /\ log[r].state # "holding" /\ IsFree(r)
  /\ Says(r, Acquired(log[r])) /\ Goes(r, "act")
  /\ ahead' = [q \in Runs |-> ahead[q] \ {r}]
  /\ UNCHANGED <<pr, now, up, slips>>

TakeHeld(r) ==
  /\ up /\ Open(r) /\ hand[r].at = "poll" /\ log[r].state = "holding"
  /\ Goes(r, "act") /\ UNCHANGED log /\ Steady

(* `ahead` gets the order ADR-0033 states: the queue as it stands, with a tie   *)
(* of one instant falling to the lower id.                                    *)
Queue(r) ==
  LET ties == {q \in Runs : IsWaiting(q) /\ log[q].queuedAt = now}
      over == {q \in ties : r < q}
  IN  /\ up /\ Open(r) /\ hand[r].at = "poll"
      /\ log[r].state \notin {"holding", "waiting"} /\ ~IsFree(r)
      /\ Says(r, Queued(log[r])) /\ UNCHANGED <<hand, pr, now, up, slips>>
      /\ ahead' = [q \in Runs |->
                     IF q = r THEN {w \in Runs : Holds(w) \/ IsWaiting(w)} \ over
                     ELSE IF q \in over THEN ahead[q] \cup {r} ELSE ahead[q]]

(* Seeded bug: the update stage asks for the token first. *)
UpdateTopAsks(r) ==
  At(r, "update", "top") /\ Goes(r, "poll") /\ UNCHANGED log /\ Steady

(* The update stage asks first whether its own release is still unanswered. *)
UpdateTop(r) ==
  /\ At(r, "update", "top") /\ UNCHANGED log /\ Steady
  /\ IF log[r].owed = "none" THEN Goes(r, "poll") ELSE Leaves(r, log[r].owed)

(* Its exits: on to the ship, or back with the token given up first.  A head  *)
(* that already carries its green owes the verdict nothing for the release.  *)
UpdateOn(r) ==
  At(r, "update", "act") /\ Leaves(r, "ship") /\ UNCHANGED log /\ Steady

UpdateBack(r, to) ==
  /\ At(r, "update", "act") /\ Leaves(r, to) /\ Setback
  /\ \E why \in {"verdict", "reconcile", "none"} :
       /\ to = "reconcile" => why = to
       /\ why \in {to, "none"}
       /\ Says(r, Release(log[r], why))

(* The ship stage: the token again, then the request, then the watch. *)
ShipTop(r) ==
  /\ At(r, "ship", "top") /\ UNCHANGED log /\ Steady
  /\ IF log[r].state = "done" THEN Leaves(r, "close-out")
     ELSE Goes(r, IF log[r].requested THEN "act" ELSE "poll")

(* openPr: the create (a request there already is adopted), the arm and the   *)
(* stamp, with the forge between them.  A kill does not stop a handler that is *)
(* past its loop's own question, and the stamp of a closed run is dropped.    *)
Opening(r, place) == up /\ log[r].stage = "ship" /\ hand[r].at = place /\ ~log[r].requested

CreatePr(r) ==
  /\ Opening(r, "act") /\ Goes(r, "made")
  /\ pr' = [pr EXCEPT ![r] = IF @ = "none" THEN "open" ELSE @]
  /\ UNCHANGED <<log, now, up, slips, ahead>>

ArmPr(r) ==
  /\ Opening(r, "made") /\ Goes(r, "armed")
  /\ pr' = [pr EXCEPT ![r] = IF @ = "open" THEN "armed" ELSE @]
  /\ UNCHANGED <<log, now, up, slips, ahead>>

(* Seeded bug: the opened request forgets who holds the token. *)
StampOpenedAlone(r) ==
  /\ Opening(r, "armed") /\ Goes(r, "act") /\ Steady
  /\ Says(r, [log[r] EXCEPT !.requested = TRUE, !.state = "none"])

StampOpened(r) ==
  /\ Opening(r, "armed") /\ Goes(r, "act") /\ Steady
  /\ Says(r, IF Open(r) THEN Requested(log[r]) ELSE log[r])

StampMerged(r) ==
  /\ At(r, "ship", "act") /\ log[r].requested /\ pr[r] = "merged"
  /\ Says(r, Merged(log[r])) /\ Leaves(r, "close-out") /\ Steady

ShipRed(r) == \* a red behind the open request goes back to the verdict
  /\ At(r, "ship", "act") /\ log[r].requested
  /\ Leaves(r, "verdict") /\ UNCHANGED log /\ Setback

(* A stall, a gate, a forge or a label a person must answer for. *)
Parks(r) ==
  /\ \/ \E s \in {"verdict", "reconcile", "close-out"} : At(r, s, "top")
     \/ At(r, "ship", "act") \/ At(r, "ship", "made")
  /\ Leaves(r, "park") /\ UNCHANGED log /\ Setback

(* The stages in front of the seam: a green answers a release of its kind. *)
Judged(r) ==
  /\ At(r, "verdict", "top") \/ At(r, "reconcile", "top")
  /\ Says(r, IF log[r].owed = log[r].stage THEN [log[r] EXCEPT !.owed = "none"] ELSE log[r])
  /\ Leaves(r, IF log[r].stage = "verdict" THEN "reconcile" ELSE "update") /\ Steady

CloseOut(r) ==
  At(r, "close-out", "top") /\ Says(r, Closed(log[r])) /\ Goes(r, "off") /\ Steady

---------------------------------------------------------------------------
(* The engine under the handlers: the transition, the waits, the commands. *)

Transition(r) ==
  /\ up /\ Open(r) /\ hand[r].at = "out" /\ Steady
  /\ IF hand[r].to = "park"
     THEN Says(r, [log[r] EXCEPT !.waits = "park"]) /\ Goes(r, "off")
     ELSE Says(r, [log[r] EXCEPT !.stage = hand[r].to]) /\ Goes(r, "top")

HoldAt(r) == \* a hold keeps the stage deferred: it is entered at the release
  /\ up /\ Open(r) /\ hand[r].at = "out" /\ hand[r].to # "park" /\ Setback
  /\ Says(r, [log[r] EXCEPT !.stage = hand[r].to, !.waits = "hold"]) /\ Goes(r, "off")

Throws(r) ==
  /\ up /\ Open(r) /\ hand[r].at \notin {"off", "out"} /\ Setback
  /\ Says(r, [log[r] EXCEPT !.waits = "violation"]) /\ Goes(r, "off")

Freed(r) == \* a park answered, a violation resolved, a hold released
  /\ up /\ Open(r) /\ log[r].waits # "none" /\ Steady
  /\ Says(r, [log[r] EXCEPT !.waits = "none"]) /\ Goes(r, "top")

Kill(r) ==
  up /\ Open(r) /\ Says(r, Closed(log[r])) /\ UNCHANGED hand /\ Setback

Quits(r) == \* the handler of a run that was killed comes to its loop's question
  /\ up /\ log[r].closed /\ hand[r].at # "off"
  /\ ~\E place \in {"act", "made", "armed"} : Opening(r, place)
  /\ Goes(r, "off") /\ UNCHANGED log /\ Steady

DaemonDies ==
  /\ up /\ Slip /\ up' = FALSE
  /\ hand' = [r \in Runs |-> [hand[r] EXCEPT !.at = "off"]]
  /\ UNCHANGED <<log, pr, now, ahead>>

Restart(held) == \* a run any hold covers holds, every other re-enters its stage
  LET waits(r) == log[r].closed \/ log[r].waits # "none"
  IN  /\ ~up /\ up' = TRUE
      /\ log' = [r \in Runs |-> IF ~waits(r) /\ r \in held
                                THEN [log[r] EXCEPT !.waits = "hold"] ELSE log[r]]
      /\ hand' = [r \in Runs |-> IF waits(r) \/ r \in held THEN hand[r]
                                 ELSE [hand[r] EXCEPT !.at = "top"]]
      /\ UNCHANGED <<pr, now, slips, ahead>>

---------------------------------------------------------------------------
(* The world: the wall clock, and a forge that merges an armed request. *)

Tick ==
  /\ now' \in Clock /\ (ClockMayStepBack \/ now < now')
  /\ UNCHANGED <<log, hand, pr, up, slips, ahead>>

ForgeMerges(r) ==
  /\ pr[r] = "armed" /\ pr' = [pr EXCEPT ![r] = "merged"]
  /\ UNCHANGED <<log, hand, now, up, slips, ahead>>

---------------------------------------------------------------------------
Fresh == [state |-> "none", queuedAt |-> 0, requested |-> FALSE, closed |-> FALSE,
          owed |-> "none", stage |-> "verdict", waits |-> "none"]

Init ==
  /\ log = [r \in Runs |-> Fresh] /\ pr = [r \in Runs |-> "none"]
  /\ hand = [r \in Runs |-> [at |-> "top", to |-> "verdict"]]
  /\ now \in Clock /\ up = TRUE /\ slips = 0 /\ ahead = [r \in Runs |-> {}]

Handler(r) ==
  \/ TakeFree(r) \/ TakeHeld(r) \/ Queue(r) \/ UpdateTop(r) \/ UpdateOn(r)
  \/ ShipTop(r) \/ CreatePr(r) \/ ArmPr(r) \/ StampOpened(r) \/ StampMerged(r)
  \/ Judged(r) \/ CloseOut(r) \/ Transition(r) \/ Quits(r)

Trouble(r) ==
  \/ \E to \in {"verdict", "reconcile", "park"} : UpdateBack(r, to)
  \/ ShipRed(r) \/ Parks(r) \/ HoldAt(r) \/ Throws(r) \/ Kill(r)

Next ==
  \/ \E r \in Runs : Handler(r) \/ Trouble(r) \/ Freed(r) \/ ForgeMerges(r)
  \/ DaemonDies \/ Tick
  \/ \E held \in SUBSET Runs : Restart(held)

Spec == Init /\ [][Next]_vars

(* Fairness: a handler is dispatched and comes back, a person answers, the     *)
(* checks of an armed request turn green, a daemon that died is started again. *)
Fairness ==
  /\ WF_vars(\E held \in SUBSET Runs : Restart(held))
  /\ \A r \in Runs : WF_vars(Handler(r)) /\ WF_vars(Freed(r)) /\ WF_vars(ForgeMerges(r))

FairSpec == Spec /\ Fairness

---------------------------------------------------------------------------
(* Every variable has its type. *)
TypeOK ==
  /\ log \in [Runs -> Ledger] /\ hand \in [Runs -> Hand] /\ pr \in [Runs -> Requests]
  /\ now \in Clock /\ up \in BOOLEAN /\ slips \in 0..MaxSlips
  /\ ahead \in [Runs -> SUBSET Runs]

(* One run of the project holds the token, whatever crashes, kills and parks   *)
(* come between the takes and the stamps (token.mjs, shipTokenState: "two      *)
(* holders is a state no route produces").                                    *)
AtMostOneHolder == \A q, r \in Runs : Holds(q) /\ Holds(r) => q = r

(* The request of an open run is behind its token: from the create, through    *)
(* reds, parks, holds and restarts, to the merge (ADR-0033).                   *)
OpenRequestHolds ==
  \A r \in Runs : Open(r) /\ pr[r] \in {"open", "armed"} => Holds(r)

(* A waiter is never overtaken: the token passes only to a run that stood      *)
(* before it when it queued (architecture.md, "a waiter is never overtaken").   *)
NoOvertaking ==
  [][\A q, r \in Runs : IsWaiting(r) /\ Holds(q)' /\ ~Holds(q) /\ q # r
       => q \in ahead[r]]_vars

(* A run that gave the token back for a judgment asks for it again only with   *)
(* that judgment on its ledger, the crash between the release and the          *)
(* transition included (ADR-0033, releasedForVerdict).                        *)
ReleasedRunIsJudgedFirst ==
  [][\A r \in Runs : log'[r].state # log[r].state /\ log'[r].state \in {"waiting", "holding"}
       => log[r].owed = "none"]_vars

(* No human wait in front of the request is spent inside the token             *)
(* (architecture.md: "A run that leaves the seam for a verdict cycle or a park  *)
(* releases it").                                                             *)
NoParkKeepsTheTokenWithoutARequest ==
  \A r \in Runs : Holds(r) /\ log[r].waits = "park" => log[r].requested

(* The part of it that holds: a park of the update stage keeps no token.       *)
NoUpdateParkKeepsTheToken ==
  \A r \in Runs : Holds(r) /\ log[r].waits = "park" /\ ~log[r].requested
                    => log[r].stage = "ship"

(* A waiter holds after the runs that stood before it: it does not wait for    *)
(* good (ADR-0033).                                                           *)
EveryWaitEnds == \A r \in Runs : IsWaiting(r) ~> ~IsWaiting(r)

(* The queue is served: no waiter is overtaken, none stands behind a person    *)
(* who holds up the update stage with the token, and each holds in the end.    *)
TheQueueIsServed == NoOvertaking /\ []NoUpdateParkKeepsTheToken /\ EveryWaitEnds

Over == {r \in Runs : log[r].closed \/ log[r].state = "done"}
Holder == IF \E r \in Runs : Holds(r) THEN CHOOSE r \in Runs : Holds(r) ELSE NoRun
Lock == INSTANCE ShipLock WITH owner <- Holder, over <- Over

(* The token is a lock whose owner and whose ended runs are read off the       *)
(* ledgers, and it behaves as one.                                            *)
BehavesAsALock == Lock!LockSpec
===========================================================================
