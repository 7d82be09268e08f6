---------------------------- MODULE Ship_proofs -----------------------------
(***************************************************************************)
(* What keeps a ship in order.  First the token, for any number of runs,   *)
(* any clock and any number of setbacks.  AtMostOneHolder is not           *)
(* inductive as it stands: a `pr-opened` line makes its run a holder       *)
(* whoever holds, so the proof needs where a handler can be when the line  *)
(* is written.  Seam says that.  Then the re-runs of a red check, for      *)
(* every cap of updates and every answer of the forge: a re-run that is    *)
(* not stamped yet is the last its budget holds.  Last the tree that is    *)
(* pushed: a reading of the ledger by the newest lines of its kinds, and   *)
(* what it tells of the tree in each place of the lane.                    *)
(***************************************************************************)
EXTENDS ShipToken, ShipLane, LaneLedger_proofs

(* Where an open run can stand, by what its ledger and the forge say of it. *)
RequestKept(r) == log[r].requested => log[r].state \in {"holding", "done"}
OpeningHolds(r) ==
  log[r].stage = "ship" /\ hand[r].at \in {"act", "made", "armed"} /\ ~log[r].requested
    => log[r].state = "holding"
UnstampedStays(r) ==
  pr[r] \in {"open", "armed"} /\ ~log[r].requested =>
    /\ log[r].state = "holding" /\ log[r].stage = "ship"
    /\ hand[r].at = "out" => hand[r].to = "park"
MergedIsOver(r) ==
  log[r].state = "done" =>
    /\ pr[r] = "merged" /\ log[r].stage \in {"ship", "close-out"}
    /\ hand[r].at \notin {"poll", "act", "made", "armed"}
    /\ hand[r].at = "out" => hand[r].to \in {"close-out", "park"}

SeamAt(r) ==
  Open(r) => RequestKept(r) /\ OpeningHolds(r) /\ UnstampedStays(r) /\ MergedIsOver(r)
Seam == \A r \in Runs : SeamAt(r)


---------------------------------------------------------------------------
(* The type invariant. *)

LEMMA InitTyping == Init => TypeOK
<1> SUFFICES ASSUME Init PROVE TypeOK
  OBVIOUS
<1>1. Fresh \in Ledger
  BY TokenAssumption DEF Fresh, Ledger, States, Stages, Waits
<1>2. [at |-> "top", to |-> "verdict"] \in Hand
  BY DEF Hand, Places, Stages
<1> QED
  BY <1>1, <1>2, TokenAssumption DEF Init, TypeOK, Requests

(* A line of a ledger makes a ledger. *)
LEMMA LineTyping ==
  ASSUME TypeOK, NEW l \in Ledger
  PROVE  /\ Acquired(l) \in Ledger /\ Queued(l) \in Ledger /\ Requested(l) \in Ledger
         /\ Merged(l) \in Ledger /\ Closed(l) \in Ledger
         /\ \A why \in {"none", "verdict", "reconcile"} :
              GivenBack(l, why) \in Ledger /\ Release(l, why) \in Ledger
         /\ \A why \in {"none", "verdict", "reconcile"} : [l EXCEPT !.owed = why] \in Ledger
         /\ \A w \in Waits : [l EXCEPT !.waits = w] \in Ledger
         /\ \A s \in Stages : [l EXCEPT !.stage = s] \in Ledger
<1> USE TokenAssumption DEF Ledger, States
<1>1. Acquired(l) \in Ledger /\ Requested(l) \in Ledger /\ Merged(l) \in Ledger
  BY DEF Acquired, Requested, Merged
<1>2. Queued(l) \in Ledger
  BY DEF Queued, TypeOK
<1>3. Closed(l) \in Ledger
  BY DEF Closed, Waits
<1>4. \A why \in {"none", "verdict", "reconcile"} :
        GivenBack(l, why) \in Ledger /\ Release(l, why) \in Ledger
  BY DEF GivenBack, Release
<1> QED
  BY <1>1, <1>2, <1>3, <1>4

(* A step of a handler moves one ledger and one hand. *)
LEMMA SaysTyping ==
  ASSUME TypeOK, NEW r \in Runs, NEW l \in Ledger, Says(r, l)
  PROVE  log' \in [Runs -> Ledger]
BY DEF TypeOK, Says

LEMMA GoesTyping ==
  ASSUME TypeOK, NEW r \in Runs, NEW place \in Places, Goes(r, place)
  PROVE  hand' \in [Runs -> Hand]
BY DEF TypeOK, Goes, Hand

LEMMA LeavesTyping ==
  ASSUME TypeOK, NEW r \in Runs, NEW to \in Stages \cup {"park"}, Leaves(r, to)
  PROVE  hand' \in [Runs -> Hand]
BY DEF TypeOK, Leaves, Hand, Places

LEMMA WorldTyping ==
  ASSUME TypeOK, Steady \/ Setback, log' \in [Runs -> Ledger], hand' \in [Runs -> Hand]
  PROVE  TypeOK'
BY TokenAssumption DEF TypeOK, Steady, Setback, Slip

LEMMA HandlerTyping ==
  ASSUME TypeOK, NEW r \in Runs, Handler(r) PROVE TypeOK'
<1> USE DEF Places, Stages
<1>0. log \in [Runs -> Ledger] /\ hand \in [Runs -> Hand] /\ log[r] \in Ledger /\ hand[r] \in Hand
  BY DEF TypeOK
<1>1. CASE TakeFree(r)
  <2>1. log' \in [Runs -> Ledger]
    BY <1>0, <1>1, LineTyping, SaysTyping DEF TakeFree
  <2>2. hand' \in [Runs -> Hand]
    BY <1>1, GoesTyping DEF TakeFree
  <2>3. ahead' \in [Runs -> SUBSET Runs]
    BY <1>1 DEF TakeFree, TypeOK
  <2> QED BY <1>1, <2>1, <2>2, <2>3 DEF TakeFree, TypeOK
<1>2. CASE TakeHeld(r)
  BY <1>0, <1>2, GoesTyping, WorldTyping DEF TakeHeld
<1>3. CASE Queue(r)
  <2>1. log' \in [Runs -> Ledger]
    BY <1>0, <1>3, LineTyping, SaysTyping DEF Queue
  <2>2. ahead' \in [Runs -> SUBSET Runs]
    BY <1>3 DEF Queue, TypeOK
  <2> QED BY <1>3, <2>1, <2>2 DEF Queue, TypeOK
<1>4. CASE UpdateTop(r)
  <2>1. log[r].owed \in Stages \cup {"none"}
    BY <1>0 DEF Ledger
  <2>2. hand' \in [Runs -> Hand]
    BY <1>4, <2>1, GoesTyping, LeavesTyping DEF UpdateTop
  <2> QED BY <1>0, <1>4, <2>2, WorldTyping DEF UpdateTop
<1>5. CASE UpdateOn(r)
  BY <1>0, <1>5, LeavesTyping, WorldTyping DEF UpdateOn
<1>6. CASE ShipTop(r)
  <2>1. hand' \in [Runs -> Hand]
    BY <1>6, GoesTyping, LeavesTyping DEF ShipTop
  <2> QED BY <1>0, <1>6, <2>1, WorldTyping DEF ShipTop
<1>7. CASE CreatePr(r)
  <2>1. hand' \in [Runs -> Hand]
    BY <1>7, GoesTyping DEF CreatePr
  <2> QED BY <1>7, <2>1 DEF CreatePr, TypeOK, Requests
<1>8. CASE ArmPr(r)
  <2>1. hand' \in [Runs -> Hand]
    BY <1>8, GoesTyping DEF ArmPr
  <2> QED BY <1>8, <2>1 DEF ArmPr, TypeOK, Requests
<1>9. CASE StampOpened(r)
  BY <1>0, <1>9, LineTyping, SaysTyping, GoesTyping, WorldTyping DEF StampOpened
<1>10. CASE StampMerged(r)
  BY <1>0, <1>10, LineTyping, SaysTyping, LeavesTyping, WorldTyping DEF StampMerged
<1>11. CASE Judged(r)
  <2>1. log' \in [Runs -> Ledger]
    BY <1>0, <1>11, LineTyping, SaysTyping DEF Judged
  <2>2. hand' \in [Runs -> Hand]
    BY <1>11, LeavesTyping DEF Judged
  <2> QED BY <1>11, <2>1, <2>2, WorldTyping DEF Judged
<1>12. CASE CloseOut(r)
  BY <1>0, <1>12, LineTyping, SaysTyping, GoesTyping, WorldTyping DEF CloseOut
<1>13. CASE Transition(r)
  <2>1. log' \in [Runs -> Ledger]
    BY <1>0, <1>13, LineTyping, SaysTyping DEF Transition, Hand, Waits
  <2>2. hand' \in [Runs -> Hand]
    BY <1>13, GoesTyping DEF Transition
  <2> QED BY <1>13, <2>1, <2>2, WorldTyping DEF Transition
<1>14. CASE Quits(r)
  BY <1>0, <1>14, GoesTyping, WorldTyping DEF Quits
<1> QED
  BY <1>1, <1>2, <1>3, <1>4, <1>5, <1>6, <1>7, <1>8, <1>9, <1>10, <1>11, <1>12, <1>13, <1>14
     DEF Handler

LEMMA TroubleTyping ==
  ASSUME TypeOK, NEW r \in Runs, Trouble(r) PROVE TypeOK'
<1> USE DEF Places, Stages
<1>0. log \in [Runs -> Ledger] /\ hand \in [Runs -> Hand] /\ log[r] \in Ledger /\ hand[r] \in Hand
  BY DEF TypeOK
<1>1. ASSUME NEW to \in {"verdict", "reconcile", "park"}, UpdateBack(r, to) PROVE TypeOK'
  <2>1. log' \in [Runs -> Ledger]
    BY <1>0, <1>1, LineTyping, SaysTyping DEF UpdateBack
  <2>2. hand' \in [Runs -> Hand]
    BY <1>1, LeavesTyping DEF UpdateBack
  <2> QED BY <1>1, <2>1, <2>2, WorldTyping DEF UpdateBack
<1>2. CASE ShipRed(r)
  BY <1>0, <1>2, LeavesTyping, WorldTyping DEF ShipRed
<1>3. CASE Parks(r)
  BY <1>0, <1>3, LeavesTyping, WorldTyping DEF Parks
<1>4. CASE HoldAt(r)
  <2>1. log' \in [Runs -> Ledger]
    <3>1. hand[r].to \in Stages
      BY <1>0, <1>4 DEF HoldAt, Hand
    <3>2. [log[r] EXCEPT !.stage = hand[r].to, !.waits = "hold"] \in Ledger
      BY <1>0, <3>1 DEF Ledger, Waits
    <3> QED BY <1>4, <3>2, SaysTyping DEF HoldAt
  <2>2. hand' \in [Runs -> Hand]
    BY <1>4, GoesTyping DEF HoldAt
  <2> QED BY <1>4, <2>1, <2>2, WorldTyping DEF HoldAt
<1>5. CASE Throws(r)
  BY <1>0, <1>5, LineTyping, SaysTyping, GoesTyping, WorldTyping DEF Throws, Waits
<1>6. CASE Kill(r)
  BY <1>0, <1>6, LineTyping, SaysTyping, WorldTyping DEF Kill
<1> QED
  BY <1>1, <1>2, <1>3, <1>4, <1>5, <1>6 DEF Trouble

LEMMA Typing == TypeOK /\ [Next]_vars => TypeOK'
<1> SUFFICES ASSUME TypeOK, [Next]_vars PROVE TypeOK'
  OBVIOUS
<1>1. ASSUME NEW r \in Runs, Freed(r) PROVE TypeOK'
  <2>1. log[r] \in Ledger
    BY DEF TypeOK
  <2> QED
    BY <1>1, <2>1, LineTyping, SaysTyping, GoesTyping, WorldTyping DEF Freed, Waits, Places
<1>2. ASSUME NEW r \in Runs, ForgeMerges(r) PROVE TypeOK'
  BY <1>2 DEF ForgeMerges, TypeOK, Requests
<1>3. CASE DaemonDies
  <2>1. hand' \in [Runs -> Hand]
    BY <1>3 DEF DaemonDies, TypeOK, Hand, Places
  <2>2. slips' \in 0..MaxSlips
    BY <1>3, TokenAssumption DEF DaemonDies, TypeOK, Slip
  <2>3. UNCHANGED <<log, pr, now, ahead>> /\ up' = FALSE
    BY <1>3 DEF DaemonDies
  <2> QED BY <2>1, <2>2, <2>3 DEF TypeOK
<1>4. CASE Tick
  BY <1>4 DEF Tick, TypeOK
<1>5. ASSUME NEW held \in SUBSET Runs, Restart(held) PROVE TypeOK'
  <2>1. log' \in [Runs -> Ledger]
    BY <1>5, LineTyping DEF Restart, TypeOK, Waits
  <2>2. hand' \in [Runs -> Hand]
    BY <1>5 DEF Restart, TypeOK, Hand, Places
  <2> QED BY <1>5, <2>1, <2>2 DEF Restart, TypeOK
<1>6. CASE UNCHANGED vars
  BY <1>6 DEF vars, TypeOK
<1> QED
  BY <1>1, <1>2, <1>3, <1>4, <1>5, <1>6, HandlerTyping, TroubleTyping DEF Next

(* The type invariant holds in every state of every run of the project: ledger *)
(* folds, handler positions and requests keep their types through each action. *)
THEOREM TypeCorrect == Spec => []TypeOK
<1>1. Init => TypeOK
  BY InitTyping
<1>2. TypeOK /\ [Next]_vars => TypeOK'
  BY Typing
<1> QED
  BY <1>1, <1>2, PTL DEF Spec

---------------------------------------------------------------------------
(* Seam is inductive. *)

Of(r) == Handler(r) \/ Trouble(r) \/ Freed(r) \/ ForgeMerges(r)

(* A step of one run leaves every other run where it was. *)
LEMMA OthersStay ==
  ASSUME TypeOK, NEW r \in Runs, Of(r), NEW x \in Runs \ {r}
  PROVE  log'[x] = log[x] /\ hand'[x] = hand[x] /\ pr'[x] = pr[x]
<1> USE DEF TypeOK, Says, Goes, Leaves, Steady, Setback
<1>1. CASE Handler(r)
  BY <1>1 DEF Handler, TakeFree, TakeHeld, Queue, UpdateTop, UpdateOn, ShipTop, CreatePr,
     ArmPr, StampOpened, StampMerged, Judged, CloseOut, Transition, Quits
<1>2. CASE Trouble(r)
  BY <1>2 DEF Trouble, UpdateBack, ShipRed, Parks, HoldAt, Throws, Kill
<1>3. CASE Freed(r) \/ ForgeMerges(r)
  BY <1>3 DEF Freed, ForgeMerges
<1> QED
  BY <1>1, <1>2, <1>3 DEF Of

LEMMA SeamStays ==
  ASSUME NEW x \in Runs, SeamAt(x), log'[x] = log[x], hand'[x] = hand[x], pr'[x] = pr[x]
  PROVE  SeamAt(x)'
BY DEF SeamAt, Open, RequestKept, OpeningHolds, UnstampedStays, MergedIsOver

LEMMA InitSeam == Init => Seam
BY DEF Init, Fresh, Seam, SeamAt, Open, RequestKept, OpeningHolds, UnstampedStays, MergedIsOver

LEMMA HandlerSeam ==
  ASSUME TypeOK, NEW r \in Runs, SeamAt(r), Handler(r) PROVE SeamAt(r)'
<1> USE DEF SeamAt, Open, RequestKept, OpeningHolds, UnstampedStays, MergedIsOver, At
<1>0. log \in [Runs -> Ledger] /\ hand \in [Runs -> Hand] /\ pr \in [Runs -> Requests]
      /\ log[r] \in Ledger /\ hand[r] \in Hand
  BY DEF TypeOK
<1> USE <1>0 DEF Says, Goes, Leaves, Steady, Ledger, Hand
<1>1. CASE TakeFree(r)      BY <1>1 DEF TakeFree, Acquired
<1>2. CASE TakeHeld(r)      BY <1>2 DEF TakeHeld
<1>3. CASE Queue(r)         BY <1>3 DEF Queue, Queued
<1>4. CASE UpdateTop(r)     BY <1>4 DEF UpdateTop
<1>5. CASE UpdateOn(r)      BY <1>5 DEF UpdateOn
<1>6. CASE ShipTop(r)       BY <1>6 DEF ShipTop
<1>7. CASE CreatePr(r)      BY <1>7 DEF CreatePr, Opening
<1>8. CASE ArmPr(r)         BY <1>8 DEF ArmPr, Opening
<1>9. CASE StampOpened(r)   BY <1>9 DEF StampOpened, Opening, Requested
<1>10. CASE StampMerged(r)  BY <1>10 DEF StampMerged, Merged
<1>11. CASE Judged(r)       BY <1>11 DEF Judged
<1>12. CASE CloseOut(r)     BY <1>12 DEF CloseOut, Closed
<1>13. CASE Transition(r)   BY <1>13 DEF Transition
<1>14. CASE Quits(r)        BY <1>14 DEF Quits
<1> QED
  BY <1>1, <1>2, <1>3, <1>4, <1>5, <1>6, <1>7, <1>8, <1>9, <1>10, <1>11, <1>12, <1>13, <1>14
     DEF Handler

LEMMA TroubleSeam ==
  ASSUME TypeOK, NEW r \in Runs, SeamAt(r), Trouble(r) PROVE SeamAt(r)'
<1> USE DEF SeamAt, Open, RequestKept, OpeningHolds, UnstampedStays, MergedIsOver, At
<1>0. log \in [Runs -> Ledger] /\ hand \in [Runs -> Hand] /\ pr \in [Runs -> Requests]
      /\ log[r] \in Ledger /\ hand[r] \in Hand
  BY DEF TypeOK
<1> USE <1>0 DEF Says, Goes, Leaves, Setback, Ledger, Hand
<1>1. ASSUME NEW to \in {"verdict", "reconcile", "park"}, UpdateBack(r, to) PROVE SeamAt(r)'
  BY <1>1 DEF UpdateBack, Release, GivenBack
<1>2. CASE ShipRed(r)  BY <1>2 DEF ShipRed
<1>3. CASE Parks(r)    BY <1>3 DEF Parks
<1>4. CASE HoldAt(r)   BY <1>4 DEF HoldAt
<1>5. CASE Throws(r)   BY <1>5 DEF Throws
<1>6. CASE Kill(r)     BY <1>6 DEF Kill, Closed
<1> QED
  BY <1>1, <1>2, <1>3, <1>4, <1>5, <1>6 DEF Trouble

IInv == TypeOK /\ Seam

LEMMA Inductive == IInv /\ [Next]_vars => IInv'
<1> SUFFICES ASSUME TypeOK, Seam, [Next]_vars, NEW x \in Runs PROVE SeamAt(x)'
  BY Typing DEF IInv, Seam
<1>0. SeamAt(x)
  BY DEF Seam
<1>1. ASSUME NEW r \in Runs, Of(r) PROVE SeamAt(x)'
  <2>1. CASE x # r
    BY <1>0, <1>1, <2>1, OthersStay, SeamStays
  <2>2. CASE x = r /\ (Handler(r) \/ Trouble(r))
    BY <1>0, <2>2, HandlerSeam, TroubleSeam
  <2>3. CASE x = r /\ Freed(r)
    BY <1>0, <2>3 DEF Freed, Says, Goes, Steady, TypeOK, Ledger, Hand, SeamAt, Open,
       RequestKept, OpeningHolds, UnstampedStays, MergedIsOver
  <2>4. CASE x = r /\ ForgeMerges(r)
    BY <1>0, <2>4 DEF ForgeMerges, TypeOK, SeamAt, Open,
       RequestKept, OpeningHolds, UnstampedStays, MergedIsOver
  <2> QED BY <1>1, <2>1, <2>2, <2>3, <2>4 DEF Of
<1>2. CASE DaemonDies
  BY <1>0, <1>2 DEF DaemonDies, TypeOK, Hand, SeamAt, Open,
     RequestKept, OpeningHolds, UnstampedStays, MergedIsOver
<1>3. CASE Tick \/ UNCHANGED vars
  BY <1>0, <1>3, SeamStays DEF Tick, vars
<1>4. ASSUME NEW held \in SUBSET Runs, Restart(held) PROVE SeamAt(x)'
  BY <1>0, <1>4 DEF Restart, TypeOK, Ledger, Hand, SeamAt, Open,
     RequestKept, OpeningHolds, UnstampedStays, MergedIsOver
<1> QED
  BY <1>1, <1>2, <1>3, <1>4 DEF Next, Of

LEMMA Invariant == Spec => []IInv
<1>1. Init => IInv
  BY InitTyping, InitSeam DEF IInv
<1> QED
  BY <1>1, Inductive, PTL DEF Spec

---------------------------------------------------------------------------
(* Only a take that found the token free makes a holder. *)
LEMMA NewHolderTakes ==
  ASSUME IInv, [Next]_vars, NEW x \in Runs, Holds(x)', ~Holds(x)
  PROVE  TakeFree(x)
<1> USE DEF IInv, Holds, Open
<1>0. log \in [Runs -> Ledger] /\ log[x] \in Ledger /\ SeamAt(x)
  BY DEF TypeOK, Seam
<1>1. ASSUME NEW r \in Runs, Of(r) PROVE TakeFree(x)
  <2>1. x = r
    BY <1>1, OthersStay
  <2> USE <1>0 DEF Says, Steady, Setback, Ledger
  <2>2. CASE Handler(r)
    <3>1. CASE StampOpened(r)
      <4>1. Open(r) => log[r].state = "holding"
        BY <1>0, <2>1, <3>1 DEF StampOpened, Opening, SeamAt, OpeningHolds
      <4> QED BY <2>1, <3>1, <4>1 DEF StampOpened, Requested
    <3>2. CASE TakeHeld(r) \/ UpdateTop(r) \/ UpdateOn(r) \/ ShipTop(r) \/ CreatePr(r) \/ ArmPr(r)
               \/ Quits(r)
      BY <2>1, <3>2 DEF TakeHeld, UpdateTop, UpdateOn, ShipTop, CreatePr, ArmPr, Quits
    <3>3. CASE Queue(r)       BY <2>1, <3>3 DEF Queue, Queued
    <3>4. CASE StampMerged(r) BY <2>1, <3>4 DEF StampMerged, Merged
    <3>5. CASE Judged(r)      BY <2>1, <3>5 DEF Judged
    <3>6. CASE CloseOut(r)    BY <2>1, <3>6 DEF CloseOut, Closed
    <3>7. CASE Transition(r)  BY <2>1, <3>7 DEF Transition
    <3>8. CASE TakeFree(r)    BY <2>1, <3>8
    <3> QED
      BY <2>2, <3>1, <3>2, <3>3, <3>4, <3>5, <3>6, <3>7, <3>8 DEF Handler
  <2>3. CASE Trouble(r)
    <3>1. ASSUME NEW to \in {"verdict", "reconcile", "park"}, UpdateBack(r, to) PROVE FALSE
      BY <2>1, <3>1 DEF UpdateBack, Release, GivenBack
    <3>2. CASE ShipRed(r) \/ Parks(r)
      BY <2>1, <3>2 DEF ShipRed, Parks
    <3>3. CASE HoldAt(r)  BY <2>1, <3>3 DEF HoldAt
    <3>4. CASE Throws(r)  BY <2>1, <3>4 DEF Throws
    <3>5. CASE Kill(r)    BY <2>1, <3>5 DEF Kill, Closed
    <3> QED
      BY <2>3, <3>1, <3>2, <3>3, <3>4, <3>5 DEF Trouble
  <2>4. CASE Freed(r) \/ ForgeMerges(r)
    BY <2>1, <2>4 DEF Freed, ForgeMerges
  <2> QED BY <1>1, <2>2, <2>3, <2>4 DEF Of
<1>2. ASSUME NEW held \in SUBSET Runs, Restart(held) PROVE FALSE
  BY <1>0, <1>2 DEF Restart, Ledger
<1>3. ~(DaemonDies \/ Tick \/ UNCHANGED vars)
  BY DEF DaemonDies, Tick, vars
<1> QED
  BY <1>1, <1>2, <1>3 DEF Next, Of

LEMMA HolderStep == IInv /\ AtMostOneHolder /\ [Next]_vars => AtMostOneHolder'
<1> SUFFICES ASSUME IInv, AtMostOneHolder, [Next]_vars,
                    NEW q \in Runs, NEW r \in Runs, Holds(q)', Holds(r)'
             PROVE  q = r
  BY DEF AtMostOneHolder
<1>1. CASE Holds(q) /\ Holds(r)
  BY <1>1 DEF AtMostOneHolder
<1>2. ASSUME NEW x \in Runs, NEW y \in Runs, Holds(x)', Holds(y)', ~Holds(x) PROVE x = y
  <2>1. TakeFree(x)
    BY <1>2, NewHolderTakes
  <2>2. ~Holds(y)
    BY <2>1 DEF TakeFree, IsFree
  <2>3. TakeFree(y)
    BY <1>2, <2>2, NewHolderTakes
  <2> QED
    BY <1>2, <2>1, <2>2, OthersStay DEF Of, Handler, IInv, Holds, Open
<1> QED
  BY <1>1, <1>2

(* One run of a project holds the token, for any number of runs and whatever    *)
(* crashes, kills, parks and holds come between the takes and the stamps.      *)
THEOREM OneHolder == Spec => []AtMostOneHolder
<1>1. Init => AtMostOneHolder
  BY DEF Init, Fresh, AtMostOneHolder, Holds
<1> QED
  BY <1>1, Invariant, HolderStep, PTL DEF Spec

(* The request of an open run is behind its token from the create to the merge. *)
THEOREM RequestBehindTheToken == Spec => []OpenRequestHolds
<1>1. IInv => OpenRequestHolds
  BY DEF IInv, TypeOK, Ledger, Requests, Seam, SeamAt, RequestKept, UnstampedStays,
     MergedIsOver, OpenRequestHolds, Holds
<1> QED
  BY <1>1, Invariant, PTL

---------------------------------------------------------------------------
(* The token implements the lock.  What a step of run r does to r's hold and to  *)
(* its end decides which step of the lock it is; the other runs stand still.   *)

LEMMA HolderIs ==
  ASSUME AtMostOneHolder, NEW r \in Runs, Holds(r) PROVE Holder = r
<1>1. Holds(CHOOSE q \in Runs : Holds(q)) /\ (CHOOSE q \in Runs : Holds(q)) \in Runs
  OBVIOUS
<1> QED
  BY <1>1 DEF AtMostOneHolder, Holder

LEMMA HolderWillBe ==
  ASSUME AtMostOneHolder', NEW r \in Runs, Holds(r)' PROVE Holder' = r
<1>1. (Holds(CHOOSE q \in Runs : Holds(q)) /\ (CHOOSE q \in Runs : Holds(q)) \in Runs)'
  OBVIOUS
<1> QED
  BY <1>1 DEF AtMostOneHolder, Holder

LEMMA NoHolder ==
  /\ (\A r \in Runs : ~Holds(r)) => Holder = NoRun
  /\ (\A r \in Runs : ~Holds(r)') => Holder' = NoRun
BY DEF Holder

(* The same holders mean the same owner. *)
LEMMA SameHolders ==
  ASSUME AtMostOneHolder, AtMostOneHolder', \A x \in Runs : Holds(x)' <=> Holds(x)
  PROVE  Holder' = Holder
<1>1. CASE \E x \in Runs : Holds(x)
  BY <1>1, HolderIs, HolderWillBe
<1>2. CASE ~\E x \in Runs : Holds(x)
  BY <1>2, NoHolder
<1> QED
  BY <1>1, <1>2

(* A run that is over stays over. *)
LEMMA OverStays ==
  ASSUME IInv, NEW r \in Runs, Of(r), r \in Over PROVE r \in Over'
<1> USE DEF Over, Open
<1>0. log \in [Runs -> Ledger] /\ log[r] \in Ledger /\ SeamAt(r)
  BY DEF IInv, TypeOK, Seam
<1> USE <1>0 DEF Says, Steady, Setback, Ledger, SeamAt, MergedIsOver, At
<1>1. CASE TakeFree(r) \/ Queue(r)
  BY <1>1 DEF TakeFree, Queue
<1>2. CASE TakeHeld(r) \/ UpdateTop(r) \/ UpdateOn(r) \/ ShipTop(r) \/ CreatePr(r) \/ ArmPr(r)
           \/ Quits(r) \/ ShipRed(r) \/ Parks(r) \/ ForgeMerges(r)
  BY <1>2 DEF TakeHeld, UpdateTop, UpdateOn, ShipTop, CreatePr, ArmPr, Quits, ShipRed, Parks,
     ForgeMerges
<1>3. CASE StampOpened(r)
  BY <1>3 DEF StampOpened, Opening
<1>4. CASE StampMerged(r)   BY <1>4 DEF StampMerged, Merged
<1>5. CASE CloseOut(r)      BY <1>5 DEF CloseOut, Closed
<1>6. CASE Kill(r)          BY <1>6 DEF Kill, Closed
<1>7. CASE Judged(r)        BY <1>7 DEF Judged
<1>8. CASE Transition(r)    BY <1>8 DEF Transition
<1>9. CASE HoldAt(r)        BY <1>9 DEF HoldAt
<1>10. CASE Throws(r)       BY <1>10 DEF Throws
<1>11. CASE Freed(r)        BY <1>11 DEF Freed
<1>12. ASSUME NEW to \in {"verdict", "reconcile", "park"}, UpdateBack(r, to) PROVE r \in Over'
  BY <1>12 DEF UpdateBack
<1> QED
  BY <1>1, <1>2, <1>3, <1>4, <1>5, <1>6, <1>7, <1>8, <1>9, <1>10, <1>11, <1>12
     DEF Of, Handler, Trouble

LEMMA RunImplements ==
  ASSUME IInv, AtMostOneHolder, AtMostOneHolder', NEW r \in Runs, Of(r)
  PROVE  Lock!LockNext \/ UNCHANGED <<Holder, Over>>
<1>1. \A x \in Runs \ {r} : (Holds(x)' <=> Holds(x)) /\ (x \in Over' <=> x \in Over)
  BY OthersStay DEF IInv, Holds, Open, Over
<1>2. r \in Over => r \in Over'
  BY OverStays
<1>3. /\ Holds(r) => r \notin Over
      /\ Holds(r)' => r \notin Over'
  BY DEF Holds, Open, Over
<1>4. Over \subseteq Runs /\ Over' \subseteq Runs
  BY DEF Over
<1>5. Over' = IF r \in Over' THEN Over \cup {r} ELSE Over
  BY <1>1, <1>2, <1>4
<1>6. CASE Holds(r)' <=> Holds(r)
  <2>1. Holder' = Holder
    BY <1>1, <1>6, SameHolders
  <2>2. CASE Over' = Over
    BY <2>1, <2>2
  <2>3. CASE Over' # Over
    <3>1. Over' = Over \cup {r} /\ ~Holds(r)
      BY <1>3, <1>5, <1>6, <2>3
    <3>2. Holder # r
      BY <3>1, HolderIs, NoHolder, TokenAssumption
    <3> QED
      BY <2>1, <3>1, <3>2 DEF Lock!LockNext, Lock!End
  <2> QED BY <2>2, <2>3
<1>7. CASE Holds(r) /\ ~Holds(r)'
  <2>1. Holder = r
    BY <1>7, HolderIs
  <2>2. Holder' = NoRun
    BY <1>1, <1>7, NoHolder DEF AtMostOneHolder
  <2> QED
    BY <1>3, <1>5, <1>7, <2>1, <2>2 DEF Lock!LockNext, Lock!GiveBack, Lock!End
<1>8. CASE ~Holds(r) /\ Holds(r)'
  <2>1. Holder' = r
    BY <1>8, HolderWillBe
  <2>2. Holder = NoRun
    BY <1>1, <1>8, NoHolder DEF AtMostOneHolder
  <2> QED
    BY <1>2, <1>3, <1>5, <1>8, <2>1, <2>2 DEF Lock!LockNext, Lock!Acquire
<1> QED
  BY <1>6, <1>7, <1>8

LEMMA StepImplements ==
  ASSUME IInv, AtMostOneHolder, AtMostOneHolder', [Next]_vars
  PROVE  [Lock!LockNext]_(Lock!lock)
<1>1. ASSUME NEW r \in Runs, Of(r) PROVE Lock!LockNext \/ UNCHANGED <<Holder, Over>>
  BY <1>1, RunImplements
<1>2. CASE DaemonDies \/ Tick \/ UNCHANGED vars
  <2>1. log' = log
    BY <1>2 DEF DaemonDies, Tick, vars
  <2>2. Over' = Over /\ \A x \in Runs : Holds(x)' <=> Holds(x)
    BY <2>1 DEF Over, Holds, Open
  <2> QED BY <2>2, SameHolders DEF Lock!lock
<1>3. ASSUME NEW held \in SUBSET Runs, Restart(held) PROVE UNCHANGED <<Holder, Over>>
  <2>1. \A x \in Runs : log'[x].closed = log[x].closed /\ log'[x].state = log[x].state
    BY <1>3 DEF Restart, IInv, TypeOK, Ledger
  <2>2. Over' = Over /\ \A x \in Runs : Holds(x)' <=> Holds(x)
    BY <2>1 DEF Over, Holds, Open
  <2> QED BY <2>2, SameHolders
<1> QED
  BY <1>1, <1>2, <1>3 DEF Next, Of, Lock!lock

(* The token, derived from the ledgers at every take, is the lock ShipLock      *)
(* states: it passes only through nobody, and a merged or closed run never has *)
(* it again.                                                                 *)
THEOREM TokenIsALock == Spec => BehavesAsALock
<1>1. Init => Lock!LockInit
  <2> SUFFICES ASSUME Init PROVE Lock!LockInit
    OBVIOUS
  <2>1. \A r \in Runs : ~Holds(r) /\ r \notin Over
    BY DEF Init, Fresh, Holds, Over
  <2> QED BY <2>1, NoHolder DEF Lock!LockInit, Over
<1>2. IInv /\ AtMostOneHolder /\ AtMostOneHolder' /\ [Next]_vars => [Lock!LockNext]_(Lock!lock)
  BY StepImplements
<1> QED
  BY <1>1, <1>2, Invariant, OneHolder, PTL DEF Spec, BehavesAsALock, Lock!LockSpec

---------------------------------------------------------------------------
(* What a run owes and what it keeps.  Neither ReleasedRunIsJudgedFirst nor      *)
(* NoUpdateParkKeepsTheToken is inductive: a take looks at no owed judgment and  *)
(* a park at no token.  Both hold by where the handler can stand.              *)

OwedIsOutside(r) == \* a judgment is owed outside the take and the ship stage
  log[r].owed # "none" =>
    /\ log[r].state = "none" /\ log[r].stage # "ship" /\ hand[r].at \notin {"poll", "act"}
    /\ hand[r].at = "out" => hand[r].to # "ship"
WaitsAtRest(r) == hand[r].at # "off" => log[r].waits = "none"
AskedAtTheSeam(r) == hand[r].at = "poll" => log[r].stage \in {"update", "ship"}
HoldsInsideTheSeam(r) ==
  log[r].state = "holding" /\ ~log[r].requested =>
    \/ /\ log[r].stage = "update" /\ log[r].waits # "park"
       /\ hand[r].at = "out" => hand[r].to = "ship"
    \/ /\ log[r].stage = "ship"
       /\ hand[r].at = "out" => hand[r].to = "park"
PlaceGivenUp(r) == log[r].state = "none" => log[r].queuedAt = 0

StandAt(r) ==
  Open(r) => OwedIsOutside(r) /\ WaitsAtRest(r) /\ AskedAtTheSeam(r) /\ HoldsInsideTheSeam(r)
             /\ PlaceGivenUp(r)
NobodyAtWork == ~up => \A r \in Runs : hand[r].at = "off"
Stands == NobodyAtWork /\ \A r \in Runs : StandAt(r)

LEMMA InitStands == Init => Stands
BY DEF Init, Fresh, Stands, NobodyAtWork, StandAt, Open, OwedIsOutside, WaitsAtRest, AskedAtTheSeam,
   HoldsInsideTheSeam, PlaceGivenUp

LEMMA StandStays ==
  ASSUME NEW x \in Runs, StandAt(x), log'[x] = log[x], hand'[x] = hand[x]
  PROVE  StandAt(x)'
BY DEF StandAt, Open, OwedIsOutside, WaitsAtRest, AskedAtTheSeam, HoldsInsideTheSeam, PlaceGivenUp

LEMMA HandlerStands ==
  ASSUME TypeOK, NEW r \in Runs, SeamAt(r), StandAt(r), Handler(r) PROVE StandAt(r)'
<1> USE DEF StandAt, Open, OwedIsOutside, WaitsAtRest, AskedAtTheSeam, HoldsInsideTheSeam,
            PlaceGivenUp, At
<1>0. log \in [Runs -> Ledger] /\ hand \in [Runs -> Hand]
      /\ log[r] \in Ledger /\ hand[r] \in Hand
  BY DEF TypeOK
<1> USE <1>0 DEF Says, Goes, Leaves, Steady, Ledger, Hand
<1>1. CASE TakeFree(r)      BY <1>1 DEF TakeFree, Acquired
<1>2. CASE TakeHeld(r)      BY <1>2 DEF TakeHeld
<1>3. CASE Queue(r)         BY <1>3 DEF Queue, Queued, States
<1>4. CASE UpdateTop(r)     BY <1>4 DEF UpdateTop
<1>5. CASE UpdateOn(r)      BY <1>5 DEF UpdateOn
<1>6. CASE ShipTop(r)       BY <1>6 DEF ShipTop
<1>7. CASE CreatePr(r)      BY <1>7 DEF CreatePr, Opening
<1>8. CASE ArmPr(r)         BY <1>8 DEF ArmPr, Opening
<1>9. CASE StampOpened(r)
  BY <1>9 DEF StampOpened, Opening, Requested, SeamAt, OpeningHolds
<1>10. CASE StampMerged(r)
  BY <1>10 DEF StampMerged, Merged, SeamAt, RequestKept
<1>11. CASE Judged(r)       BY <1>11 DEF Judged
<1>12. CASE CloseOut(r)     BY <1>12 DEF CloseOut, Closed
<1>13. CASE Transition(r)   BY <1>13 DEF Transition
<1>14. CASE Quits(r)        BY <1>14 DEF Quits
<1> QED
  BY <1>1, <1>2, <1>3, <1>4, <1>5, <1>6, <1>7, <1>8, <1>9, <1>10, <1>11, <1>12, <1>13, <1>14
     DEF Handler

LEMMA TroubleStands ==
  ASSUME TypeOK, NEW r \in Runs, SeamAt(r), StandAt(r), Trouble(r) PROVE StandAt(r)'
<1> USE DEF StandAt, Open, OwedIsOutside, WaitsAtRest, AskedAtTheSeam, HoldsInsideTheSeam,
            PlaceGivenUp, At
<1>0. log \in [Runs -> Ledger] /\ hand \in [Runs -> Hand]
      /\ log[r] \in Ledger /\ hand[r] \in Hand
  BY DEF TypeOK
<1> USE <1>0 DEF Says, Goes, Leaves, Setback, Ledger, Hand
<1>1. ASSUME NEW to \in {"verdict", "reconcile", "park"}, UpdateBack(r, to) PROVE StandAt(r)'
  <2>1. PICK why \in {"verdict", "reconcile", "none"} :
          (why \in {to, "none"}) /\ Says(r, Release(log[r], why))
    BY <1>1 DEF UpdateBack
  <2>2. CASE log[r].state = "holding" /\ ~log[r].requested
    BY <1>1, <2>1, <2>2 DEF UpdateBack, Release, GivenBack
  <2>3. CASE ~(log[r].state = "holding" /\ ~log[r].requested)
    BY <1>1, <2>1, <2>3 DEF UpdateBack, Release
  <2> QED BY <2>2, <2>3
<1>2. CASE ShipRed(r)  BY <1>2 DEF ShipRed
<1>3. CASE Parks(r)    BY <1>3 DEF Parks
<1>4. CASE HoldAt(r)   BY <1>4 DEF HoldAt
<1>5. CASE Throws(r)   BY <1>5 DEF Throws
<1>6. CASE Kill(r)     BY <1>6 DEF Kill, Closed
<1> QED
  BY <1>1, <1>2, <1>3, <1>4, <1>5, <1>6 DEF Trouble

LEMMA NobodyStep == TypeOK /\ NobodyAtWork /\ [Next]_vars => NobodyAtWork'
<1> SUFFICES ASSUME TypeOK, NobodyAtWork, [Next]_vars PROVE NobodyAtWork'
  OBVIOUS
<1> USE DEF NobodyAtWork
<1>1. ASSUME NEW r \in Runs, Handler(r) PROVE up'
  BY <1>1 DEF Handler, TakeFree, TakeHeld, Queue, UpdateTop, UpdateOn, ShipTop, CreatePr,
     ArmPr, StampOpened, StampMerged, Judged, CloseOut, Transition, Quits, At, Opening, Steady
<1>2. ASSUME NEW r \in Runs, Trouble(r) \/ Freed(r) PROVE up'
  BY <1>2 DEF Trouble, UpdateBack, ShipRed, Parks, HoldAt, Throws, Kill, At, Setback, Freed, Steady
<1>3. ASSUME NEW r \in Runs, ForgeMerges(r) PROVE NobodyAtWork'
  BY <1>3 DEF ForgeMerges
<1>4. CASE DaemonDies
  BY <1>4 DEF DaemonDies, TypeOK, Hand
<1>5. CASE Tick \/ UNCHANGED vars
  BY <1>5 DEF Tick, vars
<1>6. ASSUME NEW held \in SUBSET Runs, Restart(held) PROVE up'
  BY <1>6 DEF Restart
<1> QED
  BY <1>1, <1>2, <1>3, <1>4, <1>5, <1>6 DEF Next

LEMMA StandStep == IInv /\ Stands /\ [Next]_vars => Stands'
<1> SUFFICES ASSUME IInv, Stands, [Next]_vars, NEW x \in Runs PROVE StandAt(x)'
  BY NobodyStep DEF Stands, IInv
<1>0. TypeOK /\ SeamAt(x) /\ StandAt(x) /\ NobodyAtWork
  BY DEF IInv, Seam, Stands
<1>1. ASSUME NEW r \in Runs, Of(r) PROVE StandAt(x)'
  <2>1. CASE x # r
    BY <1>0, <1>1, <2>1, OthersStay, StandStays
  <2>2. CASE x = r /\ (Handler(r) \/ Trouble(r))
    BY <1>0, <2>2, HandlerStands, TroubleStands
  <2>3. CASE x = r /\ Freed(r)
    BY <1>0, <2>3 DEF Freed, Says, Goes, Steady, TypeOK, Ledger, Hand, StandAt, Open,
       OwedIsOutside, WaitsAtRest, AskedAtTheSeam, HoldsInsideTheSeam, PlaceGivenUp
  <2>4. CASE x = r /\ ForgeMerges(r)
    BY <1>0, <2>4, StandStays DEF ForgeMerges
  <2> QED BY <1>1, <2>1, <2>2, <2>3, <2>4 DEF Of
<1>2. CASE DaemonDies
  BY <1>0, <1>2 DEF DaemonDies, TypeOK, Hand, StandAt, Open,
     OwedIsOutside, WaitsAtRest, AskedAtTheSeam, HoldsInsideTheSeam, PlaceGivenUp
<1>3. CASE Tick \/ UNCHANGED vars
  BY <1>0, <1>3, StandStays DEF Tick, vars
<1>4. ASSUME NEW held \in SUBSET Runs, Restart(held) PROVE StandAt(x)'
  BY <1>0, <1>4 DEF NobodyAtWork, Restart, TypeOK, Ledger, Hand, StandAt, Open,
     OwedIsOutside, WaitsAtRest, AskedAtTheSeam, HoldsInsideTheSeam, PlaceGivenUp
<1> QED
  BY <1>1, <1>2, <1>3, <1>4 DEF Next, Of

LEMMA StandsAlways == Spec => [](IInv /\ Stands)
<1>1. IInv /\ Stands /\ [Next]_vars => (IInv /\ Stands)'
  BY Inductive, StandStep
<1> QED
  BY <1>1, InitTyping, InitSeam, InitStands, PTL DEF Spec, IInv

(* Only a take makes a waiter. *)
LEMMA NewWaiterTakes ==
  ASSUME IInv, [Next]_vars, NEW x \in Runs,
         log'[x].state # log[x].state, log'[x].state = "waiting"
  PROVE  Queue(x)
<1> USE DEF IInv, Open
<1>0. log \in [Runs -> Ledger] /\ log[x] \in Ledger
  BY DEF TypeOK
<1>1. ASSUME NEW r \in Runs, Of(r) PROVE Queue(x)
  <2>1. x = r
    BY <1>1, OthersStay
  <2> USE <1>0 DEF Says, Steady, Setback, Ledger
  <2>2. CASE Handler(r)
    <3>1. CASE StampOpened(r) BY <2>1, <3>1 DEF StampOpened, Requested
    <3>2. CASE TakeHeld(r) \/ UpdateTop(r) \/ UpdateOn(r) \/ ShipTop(r) \/ CreatePr(r) \/ ArmPr(r)
               \/ Quits(r)
      BY <2>1, <3>2 DEF TakeHeld, UpdateTop, UpdateOn, ShipTop, CreatePr, ArmPr, Quits
    <3>3. CASE TakeFree(r)    BY <2>1, <3>3 DEF TakeFree, Acquired
    <3>4. CASE StampMerged(r) BY <2>1, <3>4 DEF StampMerged, Merged
    <3>5. CASE Judged(r)      BY <2>1, <3>5 DEF Judged
    <3>6. CASE CloseOut(r)    BY <2>1, <3>6 DEF CloseOut, Closed
    <3>7. CASE Transition(r)  BY <2>1, <3>7 DEF Transition
    <3>8. CASE Queue(r)       BY <2>1, <3>8
    <3> QED
      BY <2>2, <3>1, <3>2, <3>3, <3>4, <3>5, <3>6, <3>7, <3>8 DEF Handler
  <2>3. CASE Trouble(r)
    <3>1. ASSUME NEW to \in {"verdict", "reconcile", "park"}, UpdateBack(r, to) PROVE FALSE
      BY <2>1, <3>1 DEF UpdateBack, Release, GivenBack
    <3>2. CASE ShipRed(r) \/ Parks(r)
      BY <2>1, <3>2 DEF ShipRed, Parks
    <3>3. CASE HoldAt(r)  BY <2>1, <3>3 DEF HoldAt
    <3>4. CASE Throws(r)  BY <2>1, <3>4 DEF Throws
    <3>5. CASE Kill(r)    BY <2>1, <3>5 DEF Kill, Closed
    <3> QED
      BY <2>3, <3>1, <3>2, <3>3, <3>4, <3>5 DEF Trouble
  <2>4. CASE Freed(r) \/ ForgeMerges(r)
    BY <2>1, <2>4 DEF Freed, ForgeMerges
  <2> QED BY <1>1, <2>2, <2>3, <2>4 DEF Of
<1>2. ASSUME NEW held \in SUBSET Runs, Restart(held) PROVE FALSE
  BY <1>0, <1>2 DEF Restart, Ledger
<1>3. ~(DaemonDies \/ Tick \/ UNCHANGED vars)
  BY DEF DaemonDies, Tick, vars
<1> QED
  BY <1>1, <1>2, <1>3 DEF Next, Of

(* No line moves the token of a closed run. *)
LEMMA ClosedStays ==
  ASSUME IInv, [Next]_vars, NEW x \in Runs, log'[x].closed, log'[x].state # log[x].state
  PROVE  FALSE
<1> USE DEF IInv, Open
<1>0. log \in [Runs -> Ledger] /\ log[x] \in Ledger /\ SeamAt(x)
  BY DEF TypeOK, Seam
<1>1. ASSUME NEW r \in Runs, Of(r) PROVE FALSE
  <2>1. x = r
    BY <1>1, OthersStay
  <2> USE <1>0 DEF Says, Steady, Setback, Ledger, At
  <2>2. CASE Handler(r)
    <3>1. CASE StampOpened(r) BY <2>1, <3>1 DEF StampOpened, Requested
    <3>2. CASE TakeHeld(r) \/ UpdateTop(r) \/ UpdateOn(r) \/ ShipTop(r) \/ CreatePr(r) \/ ArmPr(r)
               \/ Quits(r)
      BY <2>1, <3>2 DEF TakeHeld, UpdateTop, UpdateOn, ShipTop, CreatePr, ArmPr, Quits
    <3>3. CASE TakeFree(r)    BY <2>1, <3>3 DEF TakeFree, Acquired
    <3>4. CASE StampMerged(r) BY <2>1, <3>4 DEF StampMerged, Merged
    <3>5. CASE Judged(r)      BY <2>1, <3>5 DEF Judged
    <3>6. CASE CloseOut(r)    BY <2>1, <3>6 DEF CloseOut, Closed
    <3>7. CASE Transition(r)  BY <2>1, <3>7 DEF Transition
    <3>8. CASE Queue(r)       BY <2>1, <3>8 DEF Queue, Queued
    <3> QED
      BY <2>2, <3>1, <3>2, <3>3, <3>4, <3>5, <3>6, <3>7, <3>8 DEF Handler
  <2>3. CASE Trouble(r)
    <3>1. ASSUME NEW to \in {"verdict", "reconcile", "park"}, UpdateBack(r, to) PROVE FALSE
      BY <2>1, <3>1 DEF UpdateBack, Release, GivenBack
    <3>2. CASE ShipRed(r) \/ Parks(r)
      BY <2>1, <3>2 DEF ShipRed, Parks
    <3>3. CASE HoldAt(r)  BY <2>1, <3>3 DEF HoldAt
    <3>4. CASE Throws(r)  BY <2>1, <3>4 DEF Throws
    <3>5. CASE Kill(r)    BY <2>1, <3>5 DEF Kill, Closed
    <3> QED
      BY <2>3, <3>1, <3>2, <3>3, <3>4, <3>5 DEF Trouble
  <2>4. CASE Freed(r) \/ ForgeMerges(r)
    BY <2>1, <2>4 DEF Freed, ForgeMerges
  <2> QED BY <1>1, <2>2, <2>3, <2>4 DEF Of
<1>2. ASSUME NEW held \in SUBSET Runs, Restart(held) PROVE FALSE
  BY <1>0, <1>2 DEF Restart, Ledger
<1>3. ~(DaemonDies \/ Tick \/ UNCHANGED vars)
  BY DEF DaemonDies, Tick, vars
<1> QED
  BY <1>1, <1>2, <1>3 DEF Next, Of

(* A run that gave the token back for a judgment asks for it again only with    *)
(* that judgment on its ledger, for any number of runs and of crashes between   *)
(* the release and the transition.                                            *)
THEOREM JudgedBeforeItAsksAgain == Spec => ReleasedRunIsJudgedFirst
<1> DEFINE AskedOver == \A r \in Runs :
      log'[r].state # log[r].state /\ log'[r].state \in {"waiting", "holding"}
        => log[r].owed = "none"
<1>1. IInv /\ Stands /\ [Next]_vars => AskedOver
  <2> SUFFICES ASSUME IInv, Stands, [Next]_vars, NEW r \in Runs,
                      log'[r].state # log[r].state, log'[r].state \in {"waiting", "holding"}
               PROVE  log[r].owed = "none"
    OBVIOUS
  <2>1. StandAt(r) /\ log[r].closed \in BOOLEAN /\ log'[r].closed \in BOOLEAN
    BY Typing DEF Stands, IInv, TypeOK, Ledger
  <2>2. CASE log'[r].state = "waiting"
    BY <2>1, <2>2, NewWaiterTakes DEF Queue, StandAt, OwedIsOutside
  <2>3. CASE log'[r].state = "holding" /\ ~log'[r].closed
    BY <2>1, <2>3, NewHolderTakes DEF TakeFree, StandAt, OwedIsOutside, Holds, Open
  <2>4. ~(log'[r].state = "holding" /\ log'[r].closed)
    BY ClosedStays
  <2> QED BY <2>1, <2>2, <2>3, <2>4
<1> QED
  BY <1>1, StandsAlways, PTL DEF Spec, ReleasedRunIsJudgedFirst

(* A park of the update stage keeps no token: a run that holds while a person    *)
(* answers its park has its request open, or stands in the ship stage.         *)
THEOREM UpdateParkReleases == Spec => []NoUpdateParkKeepsTheToken
<1>1. Stands => NoUpdateParkKeepsTheToken
  BY DEF Stands, StandAt, HoldsInsideTheSeam, NoUpdateParkKeepsTheToken, Holds
<1> QED
  BY <1>1, StandsAlways, PTL

---------------------------------------------------------------------------
(* The queue.  The place is a wall-clock stamp, so its order is the order of     *)
(* arrival only while the clock is not set back: that is the hypothesis.        *)

PlaceIsPast == \A r \in Runs : log[r].queuedAt <= now
QueueInOrder ==
  \A q, r \in Runs : IsWaiting(q) /\ IsWaiting(r) /\ q # r /\ Earlier(q, r) => q \in ahead[r]

(* A stamped place is the old one, none, or this instant. *)
LEMMA PlaceMoves ==
  ASSUME TypeOK, NEW r \in Runs, Of(r)
  PROVE  log'[r].queuedAt \in {log[r].queuedAt, 0, now}
<1>0. log \in [Runs -> Ledger] /\ log[r] \in Ledger
  BY DEF TypeOK
<1> USE <1>0 DEF Says, Steady, Setback, Ledger
<1>2. CASE Handler(r)
  <2>1. CASE TakeHeld(r) \/ UpdateTop(r) \/ UpdateOn(r) \/ ShipTop(r) \/ CreatePr(r) \/ ArmPr(r)
             \/ Quits(r)
    BY <2>1 DEF TakeHeld, UpdateTop, UpdateOn, ShipTop, CreatePr, ArmPr, Quits
  <2>2. CASE StampOpened(r) BY <2>2 DEF StampOpened, Requested
  <2>3. CASE TakeFree(r)    BY <2>3 DEF TakeFree, Acquired
  <2>4. CASE StampMerged(r) BY <2>4 DEF StampMerged, Merged
  <2>5. CASE Judged(r)      BY <2>5 DEF Judged
  <2>6. CASE CloseOut(r)    BY <2>6 DEF CloseOut, Closed
  <2>7. CASE Transition(r)  BY <2>7 DEF Transition
  <2>8. CASE Queue(r)       BY <2>8 DEF Queue, Queued
  <2> QED
    BY <1>2, <2>1, <2>2, <2>3, <2>4, <2>5, <2>6, <2>7, <2>8 DEF Handler
<1>3. CASE Trouble(r)
  <2>1. ASSUME NEW to \in {"verdict", "reconcile", "park"}, UpdateBack(r, to)
        PROVE  log'[r].queuedAt \in {log[r].queuedAt, 0, now}
    BY <2>1 DEF UpdateBack, Release, GivenBack
  <2>2. CASE ShipRed(r) \/ Parks(r)
    BY <2>2 DEF ShipRed, Parks
  <2>3. CASE HoldAt(r)  BY <2>3 DEF HoldAt
  <2>4. CASE Throws(r)  BY <2>4 DEF Throws
  <2>5. CASE Kill(r)    BY <2>5 DEF Kill, Closed
  <2> QED
    BY <1>3, <2>1, <2>2, <2>3, <2>4, <2>5 DEF Trouble
<1>4. CASE Freed(r) \/ ForgeMerges(r)
  BY <1>4 DEF Freed, ForgeMerges
<1> QED BY <1>2, <1>3, <1>4 DEF Of

LEMMA StampsAreTimes ==
  TypeOK => now \in Nat /\ \A r \in Runs : log[r].queuedAt \in Nat /\ r \in Nat
<1> SUFFICES ASSUME TypeOK, NEW r \in Runs PROVE now \in Nat /\ log[r].queuedAt \in Nat /\ r \in Nat
  BY TokenAssumption DEF TypeOK
<1>1. now \in Clock /\ log[r] \in Ledger /\ Clock \subseteq Nat /\ Runs \subseteq Nat
  BY TokenAssumption DEF TypeOK
<1>2. log[r].queuedAt \in Clock \cup {0}
  BY <1>1 DEF Ledger
<1>3. log[r].queuedAt \in Nat
  <2>1. CASE log[r].queuedAt = 0  BY <2>1
  <2>2. CASE log[r].queuedAt \in Clock  BY <1>1, <2>2
  <2> QED BY <1>2, <2>1, <2>2
<1>4. now \in Nat /\ r \in Nat
  BY <1>1
<1> QED
  BY <1>3, <1>4

(* A stamp on a ledger is no later than the clock. *)
LEMMA PlaceStep ==
  ASSUME ~ClockMayStepBack, TypeOK, PlaceIsPast, [Next]_vars PROVE PlaceIsPast'
<1> SUFFICES ASSUME NEW x \in Runs PROVE log'[x].queuedAt <= now'
  BY DEF PlaceIsPast
<1>0. /\ log \in [Runs -> Ledger] /\ log[x] \in Ledger /\ log[x].queuedAt <= now
      /\ now \in Nat /\ log[x].queuedAt \in Nat
  BY StampsAreTimes DEF PlaceIsPast, TypeOK
<1>1. ASSUME NEW r \in Runs, Of(r) PROVE log'[x].queuedAt <= now'
  <2>1. now' = now
    BY <1>1 DEF Of, Handler, Trouble, TakeFree, TakeHeld, Queue, UpdateTop, UpdateOn, ShipTop,
       CreatePr, ArmPr, StampOpened, StampMerged, Judged, CloseOut, Transition, Quits,
       UpdateBack, ShipRed, Parks, HoldAt, Throws, Kill, Freed, ForgeMerges, Steady, Setback
  <2>2. CASE x # r
    BY <1>0, <1>1, <2>1, <2>2, OthersStay
  <2>3. CASE x = r
    BY <1>0, <1>1, <2>1, <2>3, PlaceMoves
  <2> QED BY <2>2, <2>3
<1>2. CASE Tick
  BY <1>0, <1>2, TokenAssumption DEF Tick
<1>3. CASE DaemonDies \/ UNCHANGED vars
  BY <1>0, <1>3 DEF DaemonDies, vars
<1>4. ASSUME NEW held \in SUBSET Runs, Restart(held) PROVE log'[x].queuedAt <= now'
  BY <1>0, <1>4 DEF Restart, Ledger
<1> QED
  BY <1>1, <1>2, <1>3, <1>4 DEF Next, Of

(* A run that waits waited before with the same stamp, or queues now. *)
LEMMA WaiterWas ==
  ASSUME IInv, [Next]_vars, NEW x \in Runs, IsWaiting(x)', ~Queue(x)
  PROVE  IsWaiting(x) /\ log'[x].queuedAt = log[x].queuedAt
<1> USE DEF IInv, Open, IsWaiting
<1>0. log \in [Runs -> Ledger] /\ log[x] \in Ledger
  BY DEF TypeOK
<1>1. log[x].state = "waiting"
  BY NewWaiterTakes
<1>2. ASSUME NEW r \in Runs, Of(r)
      PROVE  log'[x].queuedAt = log[x].queuedAt /\ ~log[x].closed
  <2>1. CASE x # r
    BY <1>2, <2>1, OthersStay
  <2>2. CASE x = r
    <3> USE <1>0, <1>1, <2>2 DEF Says, Steady, Setback, Ledger, At
    <3>1. CASE Handler(r)
      <4>1. CASE TakeHeld(r) \/ UpdateTop(r) \/ UpdateOn(r) \/ ShipTop(r) \/ CreatePr(r)
                 \/ ArmPr(r) \/ Quits(r)
        BY <4>1 DEF TakeHeld, UpdateTop, UpdateOn, ShipTop, CreatePr, ArmPr, Quits
      <4>2. CASE TakeFree(r)    BY <4>2 DEF TakeFree, Acquired
      <4>3. CASE StampOpened(r) BY <4>3 DEF StampOpened, Requested
      <4>4. CASE StampMerged(r) BY <4>4 DEF StampMerged, Merged
      <4>5. CASE Judged(r)      BY <4>5 DEF Judged
      <4>6. CASE CloseOut(r)    BY <4>6 DEF CloseOut, Closed
      <4>7. CASE Transition(r)  BY <4>7 DEF Transition
      <4> QED
        BY <3>1, <4>1, <4>2, <4>3, <4>4, <4>5, <4>6, <4>7 DEF Handler
    <3>2. CASE Trouble(r)
      <4>1. ASSUME NEW to \in {"verdict", "reconcile", "park"}, UpdateBack(r, to)
            PROVE  log'[x].queuedAt = log[x].queuedAt /\ ~log[x].closed
        BY <4>1 DEF UpdateBack, Release, GivenBack
      <4>2. CASE ShipRed(r) \/ Parks(r)
        BY <4>2 DEF ShipRed, Parks
      <4>3. CASE HoldAt(r)  BY <4>3 DEF HoldAt
      <4>4. CASE Throws(r)  BY <4>4 DEF Throws
      <4>5. CASE Kill(r)    BY <4>5 DEF Kill, Closed
      <4> QED
        BY <3>2, <4>1, <4>2, <4>3, <4>4, <4>5 DEF Trouble
    <3>3. CASE Freed(r) \/ ForgeMerges(r)
      BY <3>3 DEF Freed, ForgeMerges
    <3> QED BY <1>2, <3>1, <3>2, <3>3 DEF Of
  <2> QED BY <2>1, <2>2
<1>3. ASSUME NEW held \in SUBSET Runs, Restart(held)
      PROVE  log'[x].queuedAt = log[x].queuedAt /\ ~log[x].closed
  BY <1>0, <1>3 DEF Restart, Ledger
<1>4. CASE DaemonDies \/ Tick \/ UNCHANGED vars
  BY <1>1, <1>4 DEF DaemonDies, Tick, vars
<1> QED
  BY <1>1, <1>2, <1>3, <1>4 DEF Next, Of

(* A run that queues takes this instant for its place, the last one. *)
LEMMA QueuesNow ==
  ASSUME IInv, Stands, NEW z \in Runs, Queue(z) PROVE log'[z].queuedAt = now
<1>1. SeamAt(z) /\ StandAt(z) /\ log \in [Runs -> Ledger] /\ log[z] \in Ledger
  BY DEF IInv, Seam, Stands, TypeOK
<1>2. log[z].state = "none" /\ log[z].queuedAt = 0
  BY <1>1 DEF Queue, SeamAt, MergedIsOver, StandAt, PlaceGivenUp, Ledger, States
<1> QED
  BY <1>1, <1>2 DEF Queue, Queued, Says, Ledger

(* The history moves only at a take. *)
LEMMA AheadMoves ==
  ASSUME [Next]_vars PROVE ahead' = ahead \/ \E z \in Runs : TakeFree(z) \/ Queue(z)
<1>1. ASSUME NEW r \in Runs, Handler(r) PROVE ahead' = ahead \/ TakeFree(r) \/ Queue(r)
  BY <1>1 DEF Handler, TakeHeld, UpdateTop, UpdateOn, ShipTop, CreatePr, ArmPr, StampOpened,
     StampMerged, Judged, CloseOut, Transition, Quits, Steady
<1>2. ASSUME NEW r \in Runs, Trouble(r) \/ Freed(r) \/ ForgeMerges(r) PROVE ahead' = ahead
  BY <1>2 DEF Trouble, UpdateBack, ShipRed, Parks, HoldAt, Throws, Kill, Freed, ForgeMerges,
     Steady, Setback
<1>3. ASSUME NEW held \in SUBSET Runs, Restart(held) PROVE ahead' = ahead
  BY <1>3 DEF Restart
<1>4. CASE DaemonDies \/ Tick \/ UNCHANGED vars
  BY <1>4 DEF DaemonDies, Tick, vars
<1> QED
  BY <1>1, <1>2, <1>3, <1>4 DEF Next

LEMMA OrderStep ==
  ASSUME ~ClockMayStepBack, IInv, Stands, PlaceIsPast, QueueInOrder, [Next]_vars
  PROVE  QueueInOrder'
<1> SUFFICES ASSUME NEW q \in Runs, NEW r \in Runs, q # r,
                    IsWaiting(q)', IsWaiting(r)', Earlier(q, r)'
             PROVE  q \in ahead'[r]
  BY DEF QueueInOrder
<1>0. /\ ahead \in [Runs -> SUBSET Runs] /\ now \in Nat
      /\ log[q].queuedAt \in Nat /\ log[r].queuedAt \in Nat /\ q \in Nat /\ r \in Nat
      /\ log[q].queuedAt <= now /\ log[r].queuedAt <= now
  BY StampsAreTimes DEF IInv, TypeOK, PlaceIsPast
<1>1. \A x \in Runs : IsWaiting(x)' /\ ~Queue(x)
        => IsWaiting(x) /\ log'[x].queuedAt = log[x].queuedAt
  BY WaiterWas
<1>2. ASSUME ~Queue(q), ~Queue(r) PROVE q \in ahead[r]
  BY <1>1, <1>2 DEF QueueInOrder, Earlier
<1>3. ASSUME NEW z \in Runs, TakeFree(z) PROVE q \in ahead'[r]
  <2>1. log'[z].state = "holding" /\ ahead' = [x \in Runs |-> ahead[x] \ {z}]
    BY <1>3 DEF TakeFree, Says, Acquired, IInv, TypeOK, Ledger
  <2>2. q # z /\ r # z
    BY <2>1 DEF IsWaiting
  <2>3. ~Queue(q) /\ ~Queue(r)
    <3>1. log'[q] = log[q] /\ log'[r] = log[r]
      BY <1>3, <2>2, OthersStay DEF Of, Handler, IInv
    <3>2. log[q].state = "waiting" /\ log[r].state = "waiting"
      BY <3>1 DEF IsWaiting
    <3> QED BY <3>2 DEF Queue
  <2> QED BY <1>0, <1>2, <2>1, <2>2, <2>3
<1>4. ASSUME NEW z \in Runs, Queue(z) PROVE q \in ahead'[r]
  <2> DEFINE ties == {w \in Runs : IsWaiting(w) /\ log[w].queuedAt = now}
             over == {w \in ties : z < w}
  <2>1. ahead' = [w \in Runs |->
                     IF w = z THEN {v \in Runs : Holds(v) \/ IsWaiting(v)} \ over
                     ELSE IF w \in over THEN ahead[w] \cup {z} ELSE ahead[w]]
    BY <1>4 DEF Queue
  <2>2. log'[z].queuedAt = now
    BY <1>4, QueuesNow
  <2>3. \A x \in Runs \ {z} : log'[x] = log[x]
    BY <1>4, OthersStay DEF Of, Handler, IInv
  <2>4. \A x \in Runs \ {z} : IsWaiting(x)' => IsWaiting(x)
    BY <2>3 DEF IsWaiting, Open
  <2>5. CASE z = q
    <3>1. r \in over
      BY <1>0, <2>2, <2>3, <2>4, <2>5 DEF Earlier
    <3> QED BY <1>0, <2>1, <2>5, <3>1
  <2>6. CASE z = r
    <3>1. IsWaiting(q) /\ q \notin over
      BY <1>0, <2>2, <2>3, <2>4, <2>6 DEF Earlier
    <3> QED BY <1>0, <2>1, <2>6, <3>1
  <2>7. CASE z # q /\ z # r
    <3>1. q \in ahead[r]
      BY <2>3, <2>4, <2>7 DEF QueueInOrder, Earlier
    <3> QED BY <1>0, <2>1, <2>7, <3>1
  <2> QED BY <2>5, <2>6, <2>7
<1>5. CASE ahead' = ahead /\ ~\E z \in Runs : TakeFree(z) \/ Queue(z)
  BY <1>2, <1>5
<1> QED
  BY <1>3, <1>4, <1>5, AheadMoves

(* A waiter is never overtaken, for any number of runs: who takes the token while *)
(* another waits stood before it when it queued.  It needs the clock: a setback   *)
(* between two stamps puts the later waiter first.                              *)
THEOREM NoWaiterIsOvertaken ==
  ASSUME ~ClockMayStepBack PROVE Spec => NoOvertaking
<1> DEFINE Order == PlaceIsPast /\ QueueInOrder
           Fair == \A q, r \in Runs : IsWaiting(r) /\ Holds(q)' /\ ~Holds(q) /\ q # r
                     => q \in ahead[r]
<1>1. Init => Order
  BY StampsAreTimes, InitTyping DEF Init, Fresh, PlaceIsPast, QueueInOrder, IsWaiting
<1>2. IInv /\ Stands /\ Order /\ [Next]_vars => Order'
  BY PlaceStep, OrderStep DEF IInv
<1>3. IInv /\ Order /\ [Next]_vars => Fair
  <2> SUFFICES ASSUME IInv, Order, [Next]_vars, NEW q \in Runs, NEW r \in Runs,
                      IsWaiting(r), Holds(q)', ~Holds(q), q # r
               PROVE  q \in ahead[r]
    OBVIOUS
  <2>1. TakeFree(q)
    BY NewHolderTakes
  <2>2. IsWaiting(q) /\ Earlier(q, r)
    BY <2>1 DEF TakeFree, IsFree, IsNext
  <2> QED BY <2>2 DEF QueueInOrder
<1> HIDE DEF Order
<1>4. Spec => []Order
  BY <1>1, <1>2, StandsAlways, PTL DEF Spec
<1> QED
  BY <1>3, <1>4, StandsAlways, PTL DEF Spec, NoOvertaking

---------------------------------------------------------------------------
(* The budget of reruns.                                                     *)

(* What the counts are, and that the handler has a place.                    *)
Counted ==
  /\ led \in Seq(Range(led)) /\ "pc" \in DOMAIN at
  /\ {"handed", "doubled", "reruns", "grants", "repairs"} \subseteq DOMAIN hist /\ "crashes" \in DOMAIN spent
  /\ hist.reruns \in Nat /\ hist.grants \in Nat /\ spent.crashes \in Nat
  /\ \A i \in DOMAIN led : led[i].e = "check-transition" => "nth" \notin DOMAIN led[i]

(* A rerun that is not stamped yet is the last the budget holds.             *)
RerunInv ==
  /\ Counted /\ ReRunsAreGranted
  /\ BudgetOpen /\ at.pc # "rerun" => hist.reruns <= hist.grants + spent.crashes

LEMMA BudgetIs ==
  ASSUME led \in Seq(Range(led))
  PROVE  BudgetOpen <=> Spent = {} \/ \E i \in Fixes : \A j \in Spent : j < i
<1>1. Len(led) \in Nat /\ Fixes \subseteq 1..Len(led) /\ Spent \subseteq 1..Len(led)
  BY DEF Fixes, Spent, SeqsOf, Seqs
<1> QED
  BY <1>1, NewestBeyond DEF BudgetOpen

LEMMA BudgetIsNext ==
  ASSUME led' \in Seq(Range(led'))
  PROVE  BudgetOpen' <=> Spent' = {} \/ \E i \in Fixes' : \A j \in Spent' : j < i
<1>1. Len(led') \in Nat /\ Fixes' \subseteq 1..Len(led') /\ Spent' \subseteq 1..Len(led')
  BY DEF Fixes, Spent, SeqsOf, Seqs
<1>2. BudgetOpen' <=> (Spent' = {} \/ Newest(Fixes') > Newest(Spent'))
  BY DEF BudgetOpen, Newest
<1> QED
  BY <1>1, <1>2, NewestBeyond

(* The budget is opened by a fix, and closed by what it pays for.            *)
LEMMA BudgetKept ==
  ASSUME led \in Seq(Range(led)), NEW x, Stamp(x), x.e \notin {"check-transition", "operational-fix"}
  PROVE  led' \in Seq(Range(led')) /\ (BudgetOpen' <=> BudgetOpen)
<1>1. PICK sh : Shifted(led, led', x, sh)
  BY StampShifts
<1>2. /\ Fixes \subseteq DOMAIN sh /\ Fixes' = Dest(sh, Fixes)
      /\ Spent \subseteq DOMAIN sh /\ Spent' = Dest(sh, Spent)
  <2>1. \A e \in {"check-transition", "operational-fix"} :
           /\ SeqsOf(e) \subseteq DOMAIN sh /\ SeqsOf(e)' = Dest(sh, SeqsOf(e))
           /\ \A of : Seqs(e, of) \subseteq DOMAIN sh /\ Seqs(e, of)' = Dest(sh, Seqs(e, of))
    BY <1>1, KindMoves
  <2>2. \A a, b \in DOMAIN sh : sh[a] = sh[b] => a = b
    <3>1. \A a \in DOMAIN sh : a \in Nat /\ sh[a] \in Nat
      BY <1>1 DEF Shifted
    <3> QED
      BY <3>1, <1>1, MovesInOrder
  <2> QED
    BY <2>1, <2>2 DEF Fixes, Spent, Dest
<1>3. Spent' = {} <=> Spent = {}
  BY <1>2 DEF Dest
<1>4. (\E i \in Fixes : \A j \in Spent : j < i) <=> (\E i \in Fixes' : \A j \in Spent' : j < i)
  BY <1>1, <1>2, ImageReaches, MovesInOrder
<1> QED
  BY <1>3, <1>4, BudgetIs, BudgetIsNext, StampShifts

LEMMA StampedIs ==
  ASSUME led \in Seq(Range(led)), NEW x, Stamp(x)
  PROVE  /\ led' \in Seq(Range(led')) /\ Len(led') \in DOMAIN led' /\ led'[Len(led')] = x
         /\ \A j \in DOMAIN led' : j \in Nat /\ j <= Len(led')
<1>1. PICK sh : Shifted(led, led', x, sh)
  BY StampShifts
<1> QED
  BY <1>1, StampShifts, ShiftIs

LEMMA SpentBudget ==
  ASSUME led \in Seq(Range(led)), NEW x, Stamp(x), x.e = "check-transition", x.of # "red"
  PROVE  led' \in Seq(Range(led')) /\ ~BudgetOpen'
<1>1. Len(led') \in Spent' /\ \A i \in Fixes' : i \in Nat /\ i <= Len(led') /\ Len(led') \in Nat
  BY StampedIs DEF Spent, Fixes, SeqsOf, Seqs
<1> QED
  BY <1>1, StampedIs, BudgetIsNext

(* A red that is seen anew spends nothing.                                    *)
LEMMA RedSpendsNothing ==
  ASSUME Counted, NEW x, Stamp(x), x.e = "check-transition", x.of = "red", "nth" \notin DOMAIN x
  PROVE  BudgetOpen' <=> BudgetOpen
<1>1. PICK sh : Shifted(led, led', x, sh)
  BY StampShifts DEF Counted
<1>2. Fixes \subseteq DOMAIN sh /\ Fixes' = Dest(sh, Fixes)
  BY <1>1, KindMoves DEF Fixes
<1>3. \A of : of # "red" => /\ Seqs("check-transition", of) \subseteq DOMAIN sh
                            /\ Seqs("check-transition", of)' = Dest(sh, Seqs("check-transition", of))
  <2> SUFFICES ASSUME NEW of, of # "red"
               PROVE  /\ Seqs("check-transition", of) \subseteq DOMAIN sh
                      /\ Seqs("check-transition", of)' = Dest(sh, Seqs("check-transition", of))
    OBVIOUS
  <2>1. \A k \in DOMAIN led : led[k].e = x.e => "nth" \notin DOMAIN led[k]
    BY DEF Counted
  <2> QED
    BY <1>1, <2>1, NameShifts
<1>4. Spent \subseteq DOMAIN sh /\ Spent' = Dest(sh, Spent)
  <2>1. \A k \in Spent : led[k].of # "red" /\ k \in Seqs("check-transition", led[k].of)
    BY DEF Spent, SeqsOf, Seqs
  <2>2. \A j \in Spent' : \E of : of # "red" /\ j \in Seqs("check-transition", of)'
    BY DEF Spent, SeqsOf, Seqs
  <2>3. \A of : of # "red" => Seqs("check-transition", of) \subseteq Spent
    BY DEF Spent, SeqsOf, Seqs
  <2>4. \A of : of # "red" => Seqs("check-transition", of)' \subseteq Spent'
    BY DEF Spent, SeqsOf, Seqs
  <2>5. ASSUME NEW k \in Spent PROVE k \in DOMAIN sh /\ sh[k] \in Spent'
    <3>1. k \in DOMAIN sh /\ sh[k] \in Dest(sh, Seqs("check-transition", led[k].of))
      BY <1>3, <2>1 DEF Dest
    <3> QED
      BY <3>1, <1>3, <2>1, <2>4
  <2>6. ASSUME NEW j \in Spent' PROVE j \in Dest(sh, Spent)
    <3>1. PICK of : of # "red" /\ j \in Seqs("check-transition", of)'
      BY <2>2
    <3>2. PICK k \in Seqs("check-transition", of) : sh[k] = j
      BY <1>3, <3>1 DEF Dest
    <3> QED
      BY <3>1, <3>2, <2>3 DEF Dest
  <2> QED
    BY <2>5, <2>6 DEF Dest
<1>5. Spent' = {} <=> Spent = {}
  BY <1>4 DEF Dest
<1>6. (\E i \in Fixes : \A j \in Spent : j < i) <=> (\E i \in Fixes' : \A j \in Spent' : j < i)
  BY <1>1, <1>2, <1>4, ImageReaches, MovesInOrder
<1> QED
  BY <1>5, <1>6, BudgetIs, BudgetIsNext, StampShifts DEF Counted

---------------------------------------------------------------------------
(* The steps of the lane.                                                    *)

(* A step that touches no count, and neither asks for a rerun nor forgets    *)
(* that it was asked.                                                        *)
Tame ==
  /\ hist'.reruns = hist.reruns /\ hist'.grants = hist.grants /\ spent'.crashes = spent.crashes
  /\ DOMAIN hist' = DOMAIN hist /\ DOMAIN spent' = DOMAIN spent
  /\ at.pc = "rerun" <=> at'.pc = "rerun"
  /\ "pc" \in DOMAIN at'

LEMMA GoIsGranted ==
  ASSUME RerunInv, Tame, UNCHANGED led
  PROVE  RerunInv'
<1>1. BudgetOpen' <=> BudgetOpen
  BY DEF BudgetOpen, Spent, Fixes, SeqsOf, Seqs, Newest
<1> QED
  BY <1>1 DEF RerunInv, Tame, Counted, ReRunsAreGranted

LEMMA LedgerTyped ==
  ASSUME Counted, NEW x, Stamp(x), x.e = "check-transition" => "nth" \notin DOMAIN x
  PROVE  /\ led' \in Seq(Range(led'))
         /\ \A i \in DOMAIN led' : led'[i].e = "check-transition" => "nth" \notin DOMAIN led'[i]
<1>1. led' \in Seq(Range(led')) /\ \A y \in Range(led') : y = x \/ y \in Range(led)
  BY StampShifts DEF Counted
<1> QED
  BY <1>1 DEF Counted, Range

LEMMA StampIsGranted ==
  ASSUME RerunInv, Tame, NEW x, Stamp(x), x.e \notin {"check-transition", "operational-fix"}
  PROVE  RerunInv'
<1>1. BudgetOpen' <=> BudgetOpen
  BY BudgetKept DEF RerunInv, Counted
<1>2. /\ led' \in Seq(Range(led'))
      /\ \A i \in DOMAIN led' : led'[i].e = "check-transition" => "nth" \notin DOMAIN led'[i]
  BY LedgerTyped DEF RerunInv
<1> QED
  BY <1>1, <1>2 DEF RerunInv, Tame, Counted, ReRunsAreGranted

(* A place of the handler that asks for no rerun.                            *)
Place(p) == "pc" \in DOMAIN p /\ p.pc # "rerun"

LEMMA GoKeepsBudget ==
  ASSUME RerunInv, at.pc # "rerun", NEW p, Place(p), Go(p), UNCHANGED hist
  PROVE  RerunInv'
<1>1. Tame /\ UNCHANGED led
  BY DEF Tame, Place, Go
<1> QED
  BY <1>1, GoIsGranted

LEMMA StampKeepsBudget ==
  ASSUME RerunInv, at.pc # "rerun", NEW p, Place(p), NEW x, StampAndGo(x, p), UNCHANGED hist,
         x.e \notin {"check-transition", "operational-fix"}
  PROVE  RerunInv'
<1>1. Tame /\ Stamp(x)
  BY DEF Tame, Place, StampAndGo
<1> QED
  BY <1>1, StampIsGranted

LEMMA PlacesAreTame ==
  /\ \A pc : pc # "rerun" => Place(Pc(pc))
  /\ \A type, why : Place(Ask(type, why)) /\ Place(Recover(type, why))
  /\ \A seat : Place(SeatFail(seat))
  /\ \A reason : Place(Blocked(reason)) /\ Place(CommandError(reason))
  /\ \A next, why : Place(To(next)) /\ Place(Back(next, why))
  /\ \A pc : pc # "rerun" => Place(Merging(pc))
  /\ \A place : Place(place) => Place([place EXCEPT !.pc = "merged"]) /\ Place([place EXCEPT !.pc = "concluded"])
BY DEF Place, Pc, Ask, Recover, SeatFail, Blocked, CommandError, To, Back, Merging

LEMMA EventKinds ==
  /\ \A e, of, why : Event(e, of, why).e = e
  /\ \A e, of, sha : Sha(e, of, sha).e = e /\ DOMAIN Sha(e, of, sha) = {"e", "of", "why", "sha"} /\ Sha(e, of, sha).of = of
  /\ \A phase, nth, sha : Implementation(phase, nth, sha).e = "implementation-committed"
  /\ \A sha : CiRed(sha).e = "verdict-rendered"
  /\ \A why : ReleaseToken(why).e = "ship-token"
BY DEF Event, Sha, Implementation, CiRed, ReleaseToken

LEMMA CrashIsGranted ==
  ASSUME RerunInv, Crash, UNCHANGED hist
  PROVE  RerunInv'
<1>1. BudgetOpen' <=> BudgetOpen
  BY DEF BudgetOpen, Spent, Fixes, SeqsOf, Seqs, Newest, Crash
<1>2. spent'.crashes = spent.crashes + 1 /\ DOMAIN spent' = DOMAIN spent /\ led' = led /\ at' = [pc |-> "enter"]
  BY DEF Crash, Pc, RerunInv, Counted
<1> QED
  BY <1>1, <1>2 DEF RerunInv, Counted, ReRunsAreGranted

LEMMA ParksAreGranted ==
  ASSUME RerunInv, LaneParks
  PROVE  RerunInv'
<1>1. CASE ParkReleases
  <2>1. at.pc = "ask" /\ StampAndGo(ReleaseToken("park"), at) /\ UNCHANGED hist
    BY <1>1 DEF ParkReleases, DoStamp, Stay
  <2>2. Place(at)
    BY <2>1 DEF Place, RerunInv, Counted
  <2> QED
    BY <2>1, <2>2, EventKinds, StampKeepsBudget
<1>2. CASE Park /\ Stay
  <2>1. at.pc = "ask" /\ StampAndGo(Event("park", at.type, at.why), Pc("parked")) /\ UNCHANGED hist
    BY <1>2 DEF Park, Stay
  <2> QED
    BY <2>1, EventKinds, PlacesAreTame, StampKeepsBudget
<1>3. CASE Answer /\ Stay
  <2>1. PICK option : Stamp(Event("answer", led[LastPark].of, option))
    BY <1>3 DEF Answer
  <2>2. /\ at.pc = "parked" /\ at' = [pc |-> "enter"] /\ hist' = hist
        /\ spent' = [spent EXCEPT !.answers = @ + 1]
    BY <1>3 DEF Answer, Stay, Pc
  <2>3. Tame
    BY <2>2 DEF Tame, RerunInv, Counted
  <2> QED
    BY <2>1, <2>3, EventKinds, StampIsGranted
<1>4. CASE Crash /\ Stay
  BY <1>4, CrashIsGranted DEF Stay
<1>5. CASE AbandonGuard /\ Stay
  <2>1. at.pc = "enter" /\ Go(Pc("closed")) /\ UNCHANGED hist
    BY <1>5 DEF AbandonGuard, Stay
  <2> QED
    BY <2>1, PlacesAreTame, GoKeepsBudget
<1>6. CASE RefreshForRetry /\ Stay
  <2>1. at.pc = "enter" /\ StampAndGo(Event("tree-refreshed", "", ""), at) /\ UNCHANGED hist
    BY <1>6 DEF RefreshForRetry, Stay
  <2>2. Place(at)
    BY <2>1 DEF Place, RerunInv, Counted
  <2>3. Event("tree-refreshed", "", "").e \notin {"check-transition", "operational-fix"}
    BY DEF Event
  <2> QED
    BY <2>1, <2>2, <2>3, StampKeepsBudget
<1> QED
  BY <1>1, <1>2, <1>3, <1>4, <1>5, <1>6 DEF LaneParks

LEMMA GrantKeepsBudget ==
  ASSUME RerunInv, at.pc # "rerun", NEW x, Stamp(x), x.e = "operational-fix",
         hist'.reruns = hist.reruns, hist'.grants = hist.grants + 1, DOMAIN hist' = DOMAIN hist,
         UNCHANGED spent, "pc" \in DOMAIN at'
  PROVE  RerunInv'
<1>1. /\ led' \in Seq(Range(led'))
      /\ \A i \in DOMAIN led' : led'[i].e = "check-transition" => "nth" \notin DOMAIN led'[i]
  BY LedgerTyped DEF RerunInv
<1> QED
  BY <1>1 DEF RerunInv, Counted, ReRunsAreGranted

LEMMA WatchIsGranted ==
  ASSUME RerunInv, WatchStep
  PROVE  RerunInv'
<1> USE DEF Watch, WatchStamp
<1>1. CASE Observe
  <2>1. at.pc = "watch" /\ Request.run \in {"red", "cancelled"} /\ Stamp(Sha("check-transition", Request.run, Request.head))
    BY <1>1 DEF Observe, StampAndGo, Observed
  <2>2. PICK x : x = Sha("check-transition", Request.run, Request.head)
    OBVIOUS
  <2>3. x.e = "check-transition" /\ "nth" \notin DOMAIN x /\ Stamp(x)
    BY <2>1, <2>2, EventKinds
  <2>4. BudgetOpen' => BudgetOpen
    <3>1. CASE x.of = "red"
      BY <2>3, <3>1, RedSpendsNothing DEF RerunInv
    <3>2. CASE x.of # "red"
      BY <2>3, <3>2, SpentBudget DEF RerunInv, Counted
    <3> QED
      BY <3>1, <3>2
  <2>5. /\ led' \in Seq(Range(led'))
        /\ \A i \in DOMAIN led' : led'[i].e = "check-transition" => "nth" \notin DOMAIN led'[i]
    BY <2>3, LedgerTyped DEF RerunInv
  <2>6. UNCHANGED <<at, hist, spent>>
    BY <1>1 DEF Observe, StampAndGo
  <2> QED
    BY <2>1, <2>4, <2>5, <2>6 DEF RerunInv, Counted, ReRunsAreGranted
<1>2. CASE StampRerun
  <2>1. at.pc = "rerun" /\ Stamp(Sha("check-transition", "rerun-requested", tree.sha)) /\ at' = Pc("watch") /\ UNCHANGED <<spent, hist>>
    BY <1>2 DEF StampRerun, StampAndGo
  <2>2. PICK x : x = Sha("check-transition", "rerun-requested", tree.sha)
    OBVIOUS
  <2>3. x.e = "check-transition" /\ x.of # "red" /\ "nth" \notin DOMAIN x /\ Stamp(x)
    BY <2>1, <2>2, EventKinds
  <2>4. ~BudgetOpen'
    BY <2>3, SpentBudget DEF RerunInv, Counted
  <2>5. /\ led' \in Seq(Range(led'))
        /\ \A i \in DOMAIN led' : led'[i].e = "check-transition" => "nth" \notin DOMAIN led'[i]
    BY <2>3, LedgerTyped DEF RerunInv
  <2> QED
    BY <2>1, <2>4, <2>5 DEF RerunInv, Counted, ReRunsAreGranted, Pc
<1>3. CASE HandleRed
  <2>1. CASE BudgetOpen
    <3>1. at.pc = "red" /\ UNCHANGED <<led, spent>> /\ hist'.reruns = hist.reruns + 1 /\ hist'.grants = hist.grants
          /\ DOMAIN hist' = DOMAIN hist /\ at' = [pc |-> "rerun"]
      BY <1>3, <2>1 DEF HandleRed, Pc, RerunInv, Counted
    <3> QED
      BY <2>1, <3>1 DEF RerunInv, Counted, ReRunsAreGranted
  <2>2. CASE ~BudgetOpen
    BY <1>3, <2>2, PlacesAreTame, GoKeepsBudget DEF HandleRed
  <2> QED
    BY <2>1, <2>2
<1>4. CASE Checkless
  <2>1. CASE FixOpen("check-redelivery")
    <3>1. PICK x : x = Operational("check-redelivery", Request.head)
      OBVIOUS
    <3>2. x.e = "operational-fix" /\ Stamp(x)
      BY <1>4, <2>1, <3>1, EventKinds DEF Checkless, StampAndGo, Operational
    <3>3. hist'.reruns = hist.reruns /\ hist'.grants = hist.grants + 1 /\ DOMAIN hist' = DOMAIN hist
          /\ UNCHANGED spent /\ "pc" \in DOMAIN at' /\ at.pc # "rerun"
      BY <1>4, <2>1 DEF Checkless, StampAndGo, Pc, RerunInv, Counted
    <3> QED
      BY <3>2, <3>3, GrantKeepsBudget
  <2>2. CASE ~FixOpen("check-redelivery")
    BY <1>4, <2>2, PlacesAreTame, GoKeepsBudget DEF Checkless
  <2> QED
    BY <2>1, <2>2
<1>5. CASE GreenNoMerge
  <2>1. CASE FixOpen("auto-merge-rearm")
    <3>1. PICK x : x = Operational("auto-merge-rearm", Request.head)
      OBVIOUS
    <3>2. x.e = "operational-fix" /\ Stamp(x)
      BY <1>5, <2>1, <3>1, EventKinds DEF GreenNoMerge, StampAndGo, Operational
    <3>3. hist'.reruns = hist.reruns /\ hist'.grants = hist.grants + 1 /\ DOMAIN hist' = DOMAIN hist
          /\ UNCHANGED spent /\ "pc" \in DOMAIN at' /\ at.pc # "rerun"
      BY <1>5, <2>1 DEF GreenNoMerge, StampAndGo, Pc, RerunInv, Counted
    <3> QED
      BY <3>2, <3>3, GrantKeepsBudget
  <2>2. CASE ~FixOpen("auto-merge-rearm")
    BY <1>5, <2>2, PlacesAreTame, GoKeepsBudget DEF GreenNoMerge
  <2> QED
    BY <2>1, <2>2
<1>6. CASE Rearm
  <2>1. at.pc = "rearm" /\ UNCHANGED hist /\ (Go(Pc("watch")) \/ Go(Ask("provisioning-gate", "no-merge")))
    BY <1>6 DEF Rearm, Go
  <2> QED
    BY <2>1, PlacesAreTame, GoKeepsBudget
<1>7. CASE TriageRenders
  <2>1. at.pc = "triaged" /\ StampAndGo(CiRed(tree.sha), To("verdict")) /\ UNCHANGED hist
    BY <1>7 DEF TriageRenders, To
  <2> QED
    BY <2>1, EventKinds, PlacesAreTame, StampKeepsBudget
<1>8. CASE WatchChecks
  BY <1>8, PlacesAreTame, GoKeepsBudget DEF WatchChecks
<1>9. CASE PollAgain
  BY <1>9, PlacesAreTame, GoKeepsBudget DEF PollAgain
<1>10. CASE HandleCancelled \/ CiTriage \/ TriageFails
  BY <1>10, PlacesAreTame, GoKeepsBudget DEF HandleCancelled, CiTriage, TriageFails
<1> QED
  BY <1>1, <1>2, <1>3, <1>4, <1>5, <1>6, <1>7, <1>8, <1>9, <1>10 DEF WatchStep

LEMMA MergesAreGranted ==
  ASSUME RerunInv, MergeStep
  PROVE  RerunInv'
<1> USE DEF Do, DoStamp, Stay
<1>1. CASE BranchUpdate
  <2>1. CASE UNCHANGED hist
    <3>1. at.pc = "branch-update" /\ \E p \in {Pc("merge-stall"), Merging("unmoved"), Merging("merged"), Merging("conflict")} : Go(p)
      BY <1>1 DEF BranchUpdate, Go
    <3> QED
      BY <2>1, <3>1, PlacesAreTame, GoKeepsBudget
  <2>2. CASE at' \in {Merging("merged"), Merging("conflict")} /\ hist' = [hist EXCEPT !.doubled = @ \/ (stage = "update" /\ ~Named)]
             /\ UNCHANGED <<led, spent>>
    <3>1. Tame
      BY <1>1, <2>2, PlacesAreTame DEF BranchUpdate, Tame, Place, RerunInv, Counted
    <3> QED
      BY <2>2, <3>1, GoIsGranted
  <2> QED
    BY <1>1, <2>1, <2>2 DEF BranchUpdate
<1>2. CASE MergeRound
  <2>1. at.pc = "conflict" /\ UNCHANGED hist
        /\ (StampAndGo(Event("merge-round", "failed", ""), Pc("merge-stall")) \/ Go([at EXCEPT !.pc = "concluded"]))
    BY <1>2 DEF MergeRound, Go
  <2>2. Place(at)
    BY <2>1 DEF Place, RerunInv, Counted
  <2>3. Event("merge-round", "failed", "").e \notin {"check-transition", "operational-fix"}
    BY DEF Event
  <2>4. Place(Pc("merge-stall")) /\ Place([at EXCEPT !.pc = "concluded"])
    BY <2>2, PlacesAreTame
  <2> QED
    BY <2>1, <2>3, <2>4, StampKeepsBudget, GoKeepsBudget
<1>3. CASE MergeConcluded
  <2>1. at.pc = "concluded" /\ UNCHANGED hist /\ StampAndGo(Sha("merge-round", "resolved", tree.sha), [at EXCEPT !.pc = "merged"])
    BY <1>3 DEF MergeConcluded
  <2>2. Place(at)
    BY <2>1 DEF Place, RerunInv, Counted
  <2>3. Sha("merge-round", "resolved", tree.sha).e \notin {"check-transition", "operational-fix"}
    BY DEF Sha
  <2>4. Place([at EXCEPT !.pc = "merged"])
    BY <2>2, PlacesAreTame
  <2> QED
    BY <2>1, <2>3, <2>4, StampKeepsBudget
<1>4. CASE MergeStall
  <2>1. at.pc = "merge-stall" /\ UNCHANGED hist
        /\ \/ StampAndGo(Event("stall", "merge-conflict", ""), at)
           \/ Go(Pc("fresh-pass")) \/ Go(Ask("second-stall", ""))
    BY <1>4 DEF MergeStall
  <2>2. Place(at)
    BY <2>1 DEF Place, RerunInv, Counted
  <2>3. Event("stall", "merge-conflict", "").e \notin {"check-transition", "operational-fix"}
    BY DEF Event
  <2>4. Place(Pc("fresh-pass")) /\ Place(Ask("second-stall", ""))
    BY PlacesAreTame
  <2> QED
    BY <2>1, <2>2, <2>3, <2>4, StampKeepsBudget, GoKeepsBudget
<1>5. CASE FreshPassStarts
  <2>1. PICK x : /\ x.e = "fresh-pass" /\ StampAndGo(x, Pc("fresh-seat"))
                 /\ at.pc = "fresh-pass" /\ UNCHANGED hist
    BY <1>5 DEF FreshPassStarts
  <2> QED
    BY <2>1, PlacesAreTame, StampKeepsBudget
<1>6. CASE FreshSeat
  <2>1. at.pc = "fresh-seat" /\ UNCHANGED hist
        /\ \/ Go(SeatFail("dev"))
           \/ StampAndGo(Implementation("fresh", tree.sha, tree.sha + 1), To("verdict"))
           \/ StampAndGo(Implementation("fresh", tree.sha, tree.sha + 1), Back("verdict", "re-verdict"))
    BY <1>6 DEF FreshSeat
  <2> QED
    BY <2>1, EventKinds, PlacesAreTame, StampKeepsBudget, GoKeepsBudget
<1> QED
  BY <1>1, <1>2, <1>3, <1>4, <1>5, <1>6 DEF MergeStep

LEMMA CertifyIsGranted ==
  ASSUME RerunInv, CertifyStep
  PROVE  RerunInv'
<1> USE DEF Do, DoStamp, Stay, In, Enters
<1>1. CASE VerdictCycle
  <2>1. PICK x : x.e = "verdict-rendered" /\ Stamp(x)
    BY <1>1 DEF VerdictCycle
  <2>2. Tame
    BY <1>1 DEF VerdictCycle, Tame, RerunInv, Counted
  <2> QED
    BY <2>1, <2>2, StampIsGranted
<1>2. CASE VerdictRepairs
  <2>1. at.pc = "enter" /\ UNCHANGED spent
    BY <1>2 DEF VerdictRepairs
  <2>2. CASE Stamp(Implementation("repair", 0, tree.sha + 1)) /\ UNCHANGED <<at, hist>>
    <3>1. Tame
      BY <2>1, <2>2 DEF Tame, RerunInv, Counted
    <3> QED
      BY <2>2, <3>1, EventKinds, StampIsGranted
  <2>3. CASE /\ Stamp(Sha("operational-fix", "sweep", LastVerdict.sha))
             /\ hist' = [hist EXCEPT !.grants = @ + 1, !.repairs = @ + 1]
             /\ at' = To("reconcile")
    <3>1. hist'.reruns = hist.reruns /\ hist'.grants = hist.grants + 1 /\ DOMAIN hist' = DOMAIN hist
          /\ "pc" \in DOMAIN at' /\ at.pc # "rerun"
      BY <2>1, <2>3 DEF To, RerunInv, Counted
    <3> QED
      BY <2>1, <2>3, <3>1, EventKinds, GrantKeepsBudget
  <2> QED
    BY <1>2, <2>2, <2>3 DEF VerdictRepairs
<1>3. CASE VerdictLeaves \/ VerdictResumes \/ ReconcileResumes \/ ReconcileLeaves
  <2>1. at.pc = "enter" /\ UNCHANGED hist
        /\ \E p \in {To("reconcile"), Pc("verdict-seat"), Pc("fallback"), To("update")} : Go(p)
    BY <1>3 DEF VerdictLeaves, VerdictResumes, ReconcileResumes, ReconcileLeaves
  <2> QED
    BY <2>1, PlacesAreTame, GoKeepsBudget
<1>4. CASE VerdictImplements
  <2>1. at.pc = "verdict-seat" /\ UNCHANGED hist
        /\ \/ Go(SeatFail("dev"))
           \/ StampAndGo(Implementation("fresh", tree.sha, tree.sha + 1), Pc("enter"))
    BY <1>4 DEF VerdictImplements
  <2> QED
    BY <2>1, EventKinds, PlacesAreTame, StampKeepsBudget, GoKeepsBudget
<1>5. CASE ReconcileWrites
  <2>1. at.pc = "enter" /\ UNCHANGED hist
        /\ \/ Go(Pc("records"))
           \/ StampAndGo(Sha("record-written", "", tree.sha + 1), Pc("records"))
    BY <1>5 DEF ReconcileWrites
  <2>2. Sha("record-written", "", tree.sha + 1).e \notin {"check-transition", "operational-fix"} /\ Place(Pc("records"))
    BY PlacesAreTame DEF Sha
  <2> QED
    BY <2>1, <2>2, StampKeepsBudget, GoKeepsBudget
<1>6. CASE ReconcileRenders
  <2>1. \E of : Stamp(Sha("reconcile-rendered", of, tree.sha))
    BY <1>6 DEF ReconcileRenders, StampAndGo
  <2>2. /\ at.pc = "records" /\ at' \in {[pc |-> "enter"], [pc |-> "fallback"]} /\ spent' = spent
        /\ \E n : hist' = [hist EXCEPT !.handed = Unhanded("reconcile"), !.repairs = n]
    BY <1>6 DEF ReconcileRenders, StampAndGo, Pc
  <2>3. Tame
    BY <2>2 DEF Tame, RerunInv, Counted
  <2> QED
    BY <2>1, <2>3, EventKinds, StampIsGranted
<1>7. CASE ReconcileFallsBack
  <2>1. at.pc = "fallback" /\ UNCHANGED hist /\ StampAndGo(Event("reconciliation-written", "", "cap"), Pc("enter"))
    BY <1>7 DEF ReconcileFallsBack
  <2>2. Event("reconciliation-written", "", "cap").e \notin {"check-transition", "operational-fix"} /\ Place(Pc("enter"))
    BY PlacesAreTame DEF Event
  <2> QED
    BY <2>1, <2>2, StampKeepsBudget
<1> QED
  BY <1>1, <1>2, <1>3, <1>4, <1>5, <1>6, <1>7 DEF CertifyStep

LEMMA UpdateIsGranted ==
  ASSUME RerunInv, UpdateStep
  PROVE  RerunInv'
<1> USE DEF Do, DoStamp, Stay, In, Enters
<1>0. /\ \A ran, unnamed, decision : Place(ToStamp(ran, unnamed, decision))
      /\ \A ran, unnamed, code, recs : /\ UpdateStamp(ran, unnamed, code, recs).e = "pre-verdict-update"
                                      /\ [UpdateStamp(ran, unnamed, code, recs) EXCEPT !.of = "capped", !.nth = 1].e = "pre-verdict-update"
  BY DEF Place, ToStamp, UpdateStamp
<1>1. CASE UpdateReturns
  BY <1>1, PlacesAreTame, GoKeepsBudget DEF UpdateReturns
<1>2. CASE TakeToken
  <2>1. at.pc = "enter" /\ StampAndGo(Event("ship-token", "acquired", ""), at) /\ UNCHANGED hist
    BY <1>2 DEF TakeToken
  <2>2. Place(at)
    BY <2>1 DEF Place, RerunInv, Counted
  <2> QED
    BY <2>1, <2>2, EventKinds, StampKeepsBudget
<1>3. CASE PreVerdictUpdate
  <2>1. at.pc = "enter" /\ UNCHANGED hist
        /\ \/ \E p : Place(p) /\ Go(p)
           \/ StampAndGo([UpdateStamp(FALSE, FALSE, "none", "none") EXCEPT !.of = "capped", !.nth = 1], To("ship"))
    <3>1. \A ran, unnamed, was, code, recs :
             Place([pc |-> "stamp", ran |-> ran, unnamed |-> unnamed, was |-> was, code |-> code, recs |-> recs])
      BY DEF Place
    <3> QED
      BY <1>3, <3>1, PlacesAreTame DEF PreVerdictUpdate
  <2> QED
    BY <2>1, <1>0, PlacesAreTame, GoKeepsBudget, StampKeepsBudget
<1>4. CASE Unmoved
  BY <1>4, <1>0, GoKeepsBudget DEF Unmoved
<1>5. CASE MergedUpdate
  <2>1. at.pc = "merged" /\ UNCHANGED hist
        /\ \/ \E p : Place(p) /\ Go(p)
           \/ \E p, x : x.e = "fast-path-ship" /\ Place(p) /\ StampAndGo(x, p)
    BY <1>5, <1>0 DEF MergedUpdate
  <2> QED
    BY <2>1, GoKeepsBudget, StampKeepsBudget
<1>6. CASE StampUpdate
  <2>1. at.pc = "stamp" /\ UNCHANGED hist
        /\ \E p : Place(p) /\ StampAndGo(UpdateStamp(at.ran, at.unnamed, at.code, Settled), p)
    BY <1>6, PlacesAreTame DEF StampUpdate
  <2> QED
    BY <2>1, <1>0, StampKeepsBudget
<1> QED
  BY <1>1, <1>2, <1>3, <1>4, <1>5, <1>6 DEF UpdateStep

LEMMA ShipIsGranted ==
  ASSUME RerunInv, ShipStep
  PROVE  RerunInv'
<1> USE DEF Do, DoStamp, Stay, In, Enters, Ships, OnRequest
<1>0. at.pc # "rerun" /\ Place(at) /\ UNCHANGED hist
  BY DEF ShipStep, ShipReturns, ShipCloses, ShipResumes, OpenPr, StampPrOpened, RequestClosed, StampPrMerged, PushHead,
         ShipUpdates, ShipWatches, ShipUpdated, Place, RerunInv, Counted
<1>1. CASE ShipReturns \/ ShipCloses \/ ShipResumes \/ RequestClosed \/ ShipUpdates \/ ShipWatches
  <2>1. \E p : Place(p) /\ Go(p)
    BY <1>1, PlacesAreTame DEF ShipReturns, ShipCloses, ShipResumes, RequestClosed, ShipUpdates, ShipWatches
  <2> QED
    BY <1>0, <2>1, GoKeepsBudget
<1>2. CASE OpenPr \/ PushHead
  <2>1. \E p : Place(p) /\ Go(p)
    BY <1>0, <1>2, PlacesAreTame DEF OpenPr, PushHead, Go, ledgerVars
  <2> QED
    BY <1>0, <2>1, GoKeepsBudget
<1>3. CASE StampPrOpened \/ StampPrMerged
  <2>1. \E p, e, of, sha : Place(p) /\ e \in {"pr-opened", "merged"} /\ StampAndGo(Sha(e, of, sha), p)
    BY <1>0, <1>3, PlacesAreTame DEF StampPrOpened, StampPrMerged
  <2> QED
    BY <1>0, <2>1, EventKinds, StampKeepsBudget
<1>4. CASE ShipUpdated
  <2>1. CASE Go(Ask("provisioning-gate", "push"))
    BY <1>0, <2>1, PlacesAreTame, GoKeepsBudget
  <2>2. CASE Stamp(Sha("branch-update", "", tree.sha)) /\ at' = Pc("enter") /\ UNCHANGED spent
    <3>1. StampAndGo(Sha("branch-update", "", tree.sha), Pc("enter"))
      BY <2>2 DEF StampAndGo
    <3>2. Sha("branch-update", "", tree.sha).e \notin {"check-transition", "operational-fix"} /\ Place(Pc("enter"))
      BY PlacesAreTame DEF Sha
    <3> QED
      BY <1>0, <3>1, <3>2, StampKeepsBudget
  <2> QED
    BY <1>4, <2>1, <2>2 DEF ShipUpdated
<1> QED
  BY <1>1, <1>2, <1>3, <1>4 DEF ShipStep

LEMMA OthersAreGranted ==
  ASSUME RerunInv, Next1 \/ GiveBack \/ BaseMoves \/ ForgeStep
  PROVE  RerunInv'
<1>1. CASE Next1
  <2>1. Tame
    BY <1>1 DEF Next1, Tame, Pc, RerunInv, Counted
  <2> QED
    BY <1>1, <2>1, GoIsGranted DEF Next1
<1>2. CASE GiveBack
  <2>1. at.pc = "back" /\ UNCHANGED hist /\ (StampAndGo(ReleaseToken(at.why), To(at.to)) \/ Go(To(at.to)))
    BY <1>2 DEF GiveBack, Do, DoStamp, Stay
  <2> QED
    BY <2>1, EventKinds, PlacesAreTame, StampKeepsBudget, GoKeepsBudget
<1>3. CASE BaseMoves \/ ForgeStep
  <2>1. UNCHANGED <<led, at, spent, hist>>
    BY <1>3 DEF BaseMoves, ForgeStep, CheckStarts, CheckConcludes, WorkflowEnds, AutoMerge, HandMerge, HandCloses,
                HandOpens, Drops, LosesDelivery, Forge, ledgerVars
  <2> QED
    BY <2>1, GoIsGranted DEF Tame, RerunInv, Counted
<1> QED
  BY <1>1, <1>2, <1>3

(* A check is run again once, and once more for each operational fix behind  *)
(* it and each crash before the stamp, for every cap of updates, every red   *)
(* and every fault of the forge (src/lanes/ship.mjs, handleRed).             *)
THEOREM RerunsAreBought == ShipLaneSpec => []ReRunsAreGranted
<1>1. ShipInit => RerunInv
  <2> SUFFICES ASSUME ShipInit PROVE RerunInv
    OBVIOUS
  <2>1. PICK a, b : led = <<a, b>> /\ a.e = "implementation-committed" /\ b.e = "verdict-rendered"
    <3> DEFINE a == Implementation("initial", 1, 1)
               b == [e |-> "verdict-rendered", of |-> "green", nth |-> 1, why |-> "", sha |-> 1]
    <3>1. a.e = "implementation-committed" /\ b.e = "verdict-rendered"
      BY EventKinds
    <3>2. led = <<a, b>>
      BY DEF ShipInit, ShipStart
    <3> HIDE DEF a, b
    <3> QED
      BY <3>1, <3>2
  <2>2. led \in Seq(Range(led)) /\ DOMAIN led = 1..2 /\ led[1] = a /\ led[2] = b
    <3>1. led \in Seq({a, b}) /\ DOMAIN led = 1..2 /\ led[1] = a /\ led[2] = b
      BY <2>1
    <3>2. Range(led) = {a, b}
      BY <3>1 DEF Range
    <3> QED
      BY <3>1, <3>2
  <2>3. \A i \in DOMAIN led : led[i].e # "check-transition"
    <3>1. \A i \in DOMAIN led : i = 1 \/ i = 2
      BY <2>2
    <3> QED
      BY <2>1, <2>2, <3>1
  <2>4. /\ at = [pc |-> "enter"] /\ spent = [answers |-> 0, crashes |-> 0]
        /\ hist = [handed |-> {}, doubled |-> FALSE, reruns |-> 0, grants |-> 0, repairs |-> 0]
    BY DEF ShipInit, ShipStart, Pc
  <2> QED
    BY <2>2, <2>3, <2>4 DEF RerunInv, Counted, ReRunsAreGranted
<1>2. RerunInv /\ [ShipNext]_laneVars => RerunInv'
  <2> SUFFICES ASSUME RerunInv, [ShipNext]_laneVars PROVE RerunInv'
    OBVIOUS
  <2>1. CASE UNCHANGED laneVars
    <3>1. UNCHANGED <<led, at, spent, hist>>
      BY <2>1 DEF laneVars, ledgerVars
    <3> QED
      BY <3>1, GoIsGranted DEF Tame, RerunInv, Counted
  <2>2. CASE ShipNext
    BY <2>2, OthersAreGranted, WatchIsGranted, CertifyIsGranted, UpdateIsGranted, MergesAreGranted, ShipIsGranted, ParksAreGranted
       DEF ShipNext
  <2> QED
    BY <2>1, <2>2
<1>3. RerunInv => ReRunsAreGranted
  BY DEF RerunInv
<1> QED
  BY <1>1, <1>2, <1>3, PTL DEF ShipLaneSpec

---------------------------------------------------------------------------
(* What stands behind the tree that is pushed.  First what the lane reads of *)
(* its ledger, and no more of it.                                            *)
NamingKinds == {"branch-update", "record-written", "reconcile-rendered"}
Naming == {i \in DOMAIN led : led[i].e \in NamingKinds}
UpdateAsks == Asks \intersect SeqsOf("pre-verdict-update")
Reading ==
  [pending |-> Pending, gap |-> FreshPass > 0 /\ After(Seqs("implementation-committed", "fresh"), LastRender),
   head |-> CodeHead, greens |-> {led[i].sha : i \in Greens}, named |-> {led[i].sha : i \in Naming},
   fast |-> Fast, open |-> ~After(SeqsOf("pre-verdict-update"), Newest(SeqsOf("fast-path-ship"))),
   rendered |-> Rendered > 0, admits |-> RecordsAdmit,
   asked |-> Newest(SinceFreshPass(UpdateAsks)) > Rendered, owed |-> RerunOwed,
   failed |-> FailedRound > 0, holds |-> HoldsToken, opened |-> Opened, red |-> RedStands, capped |-> Capped]

(* It is told by where the newest events of its kinds stand.                 *)
LastImpl == Newest(SeqsOf("implementation-committed"))
LastFresh == Newest(Seqs("implementation-committed", "fresh"))
LastMove == Newest(HeadMoves)
LastRecords == Newest(SeqsOf("reconcile-rendered"))
LastGreen == Newest(Seqs("reconcile-rendered", "green"))
LastFallback == Newest(SeqsOf("reconciliation-written"))
LastFast == Newest(SeqsOf("fast-path-ship"))
LastUpdate == Newest(SeqsOf("pre-verdict-update"))
LastAsk == Newest(Asks)
LastUpdateAsk == Newest(UpdateAsks)
LastToken == Newest(SeqsOf("ship-token"))
LastOpened == Newest(SeqsOf("pr-opened"))
LastFailed == Newest(Seqs("merge-round", "failed"))
LastSweep == Newest(Seqs("operational-fix", "sweep"))

ReadingSays ==
  /\ Reading.pending <=> FreshPass > 0 /\ ~(LastImpl > FreshPass)
  /\ Reading.gap <=> FreshPass > 0 /\ LastFresh > LastRender
  /\ Reading.head = IF LastMove = 0 THEN 0 ELSE led[LastMove].sha
  /\ Reading.fast = IF LastFast = 0 THEN [e |-> "none", sha |-> 0] ELSE led[LastFast]
  /\ Reading.open <=> ~(LastUpdate > LastFast)
  /\ Reading.rendered <=> LastRecords > FreshPass
  /\ Reading.admits <=> (LastRecords > FreshPass => led[LastRecords].of = "green" \/ LastFallback > LastRecords)
  /\ Reading.asked <=> LastUpdateAsk > FreshPass /\ LastUpdateAsk > LastRecords
  /\ Reading.owed <=> LastAsk > FreshPass /\ ~(LastGreen > LastAsk) /\ ~(LastFallback > LastAsk)
  /\ Reading.failed <=> LastFailed > FreshPass
  /\ Reading.holds <=> LastToken > 0 /\ led[LastToken].of = "acquired"
  /\ Reading.opened <=> LastOpened > 0
  /\ Reading.red <=> LastRender > 0 /\ led[LastRender].of = "red" /\ ~(LastSweep > LastRender)
Positioned ==
  /\ FreshPass \in Nat /\ LastImpl \in Nat /\ LastFresh \in Nat /\ LastMove \in Nat /\ LastRender \in Nat
  /\ LastRecords \in Nat /\ LastGreen \in Nat /\ LastFallback \in Nat /\ LastFast \in Nat /\ LastUpdate \in Nat
  /\ LastAsk \in Nat /\ LastUpdateAsk \in Nat /\ LastToken \in Nat /\ LastOpened \in Nat /\ LastFailed \in Nat
  /\ LastSweep \in Nat

LEMMA ReadingIs == IsLedger => ReadingSays /\ Positioned
<1> SUFFICES ASSUME IsLedger PROVE ReadingSays /\ Positioned
  OBVIOUS
<1>1. /\ Len(led) \in Nat
      /\ \A e : SeqsOf(e) \subseteq 1..Len(led)
      /\ \A e, of : Seqs(e, of) \subseteq 1..Len(led)
      /\ HeadMoves \subseteq 1..Len(led) /\ Asks \subseteq 1..Len(led) /\ UpdateAsks \subseteq 1..Len(led)
  BY DEF IsLedger, SeqsOf, Seqs, HeadMoves, MovedUpdates, Asks, UpdateAsks
<1>2. \A S : S \subseteq 1..Len(led) => Newest(S) \in Nat
  <2> SUFFICES ASSUME NEW S, S \subseteq 1..Len(led) PROVE Newest(S) \in Nat
    OBVIOUS
  <2>1. Newest(S) \in 0..Len(led)
    BY <1>1, NewestIs
  <2> HIDE DEF Newest
  <2> QED
    BY <1>1, <2>1
<1>3. Positioned
  BY <1>1, <1>2 DEF Positioned, FreshPass, LastImpl, LastFresh, LastMove, LastRender, LastRecords, LastGreen, LastFallback,
                    LastFast, LastUpdate, LastAsk, LastUpdateAsk, LastToken, LastOpened, LastFailed, LastSweep
<1>4. \A S, p : S \subseteq 1..Len(led) /\ p \in Nat =>
        /\ After(S, p) <=> Newest(S) > p
        /\ Newest({i \in S : i > p}) = IF Newest(S) > p THEN Newest(S) ELSE 0
  BY <1>1, AfterIs
<1>5. Rendered = IF LastRecords > FreshPass THEN LastRecords ELSE 0
  BY <1>1, <1>3, <1>4 DEF Rendered, SinceFreshPass, LastRecords, Positioned
<1>6. /\ Newest(SinceFreshPass(SeqsOf("reconciliation-written"))) = IF LastFallback > FreshPass THEN LastFallback ELSE 0
      /\ Newest(SinceFreshPass(UpdateAsks)) = IF LastUpdateAsk > FreshPass THEN LastUpdateAsk ELSE 0
      /\ RerunAsked = IF LastAsk > FreshPass THEN LastAsk ELSE 0
  BY <1>1, <1>3, <1>4 DEF SinceFreshPass, LastFallback, LastUpdateAsk, LastAsk, RerunAsked, Positioned
<1>7. SeqsOf("pr-opened") # {} <=> LastOpened > 0
  <2>1. /\ SeqsOf("pr-opened") = {} => LastOpened = 0
        /\ SeqsOf("pr-opened") # {} => LastOpened \in SeqsOf("pr-opened")
    BY <1>1, NewestIs DEF LastOpened
  <2>2. \A i \in SeqsOf("pr-opened") : i > 0
    BY <1>1
  <2> QED
    BY <2>1, <2>2
<1>8. Pending <=> FreshPass > 0 /\ ~(LastImpl > FreshPass)
  BY <1>1, <1>3, <1>4 DEF Pending, LastImpl, Positioned
<1>9. After(Seqs("implementation-committed", "fresh"), LastRender) <=> LastFresh > LastRender
  BY <1>1, <1>3, <1>4 DEF LastFresh, Positioned
<1>10. After(SeqsOf("pre-verdict-update"), Newest(SeqsOf("fast-path-ship"))) <=> LastUpdate > LastFast
  BY <1>1, <1>3, <1>4 DEF LastUpdate, LastFast, Positioned
<1>11. CodeHead = IF LastMove = 0 THEN 0 ELSE led[LastMove].sha
  BY DEF CodeHead, NewestOf, LastMove
<1>12. Fast = IF LastFast = 0 THEN [e |-> "none", sha |-> 0] ELSE led[LastFast]
  BY DEF Fast, NewestOf, LastFast
<1>13. RecordsAdmit <=> (LastRecords > FreshPass => led[LastRecords].of = "green" \/ LastFallback > LastRecords)
  <2>1. PICK f : f = FreshPass /\ f \in Nat
    BY <1>3 DEF Positioned
  <2>2. PICK r : r = LastRecords /\ r \in Nat
    BY <1>3 DEF Positioned
  <2>3. PICK b : b = LastFallback /\ b \in Nat
    BY <1>3 DEF Positioned
  <2>4. Fallback <=> (IF b > f THEN b ELSE 0) > (IF r > f THEN r ELSE 0)
    BY <1>5, <1>6, <2>1, <2>2, <2>3 DEF Fallback
  <2>5. r > f => (Fallback <=> b > r)
    BY <2>1, <2>2, <2>3, <2>4
  <2>6. RecordsAdmit <=> (Rendered = 0 \/ (Rendered > 0 /\ (led[Rendered].of = "green" \/ Fallback)))
    BY DEF RecordsAdmit, RecordsCertified
  <2>7. Rendered = IF r > f THEN r ELSE 0
    BY <1>5, <2>1, <2>2
  <2>8. RecordsAdmit <=> (r > f => led[r].of = "green" \/ b > r)
    <3>1. CASE r > f
      <4>1. Rendered = r /\ r > 0
        BY <2>1, <2>2, <2>7, <3>1
      <4> QED
        BY <2>5, <2>6, <3>1, <4>1
    <3>2. CASE ~(r > f)
      BY <2>6, <2>7, <3>2
    <3> QED
      BY <3>1, <3>2
  <2> QED
    BY <2>1, <2>2, <2>3, <2>8
<1>14. Newest(SinceFreshPass(UpdateAsks)) > Rendered <=> LastUpdateAsk > FreshPass /\ LastUpdateAsk > LastRecords
  BY <1>3, <1>5, <1>6 DEF Positioned
<1>15. RerunOwed <=> LastAsk > FreshPass /\ ~(LastGreen > LastAsk) /\ ~(LastFallback > LastAsk)
  <2> DEFINE S == Seqs("reconcile-rendered", "green") \union SeqsOf("reconciliation-written")
  <2>1. RerunAsked \in Nat
    BY <1>3, <1>6 DEF Positioned
  <2>2. After(S, RerunAsked) <=> LastGreen > RerunAsked \/ LastFallback > RerunAsked
    <3>1. /\ After(Seqs("reconcile-rendered", "green"), RerunAsked) <=> LastGreen > RerunAsked
          /\ After(SeqsOf("reconciliation-written"), RerunAsked) <=> LastFallback > RerunAsked
      BY <1>1, <1>4, <2>1 DEF LastGreen, LastFallback
    <3> QED
      BY <3>1 DEF After
  <2>3. RerunOwed <=> RerunAsked > 0 /\ ~After(S, RerunAsked)
    BY DEF RerunOwed
  <2> HIDE DEF S
  <2> QED
    BY <1>3, <1>6, <2>2, <2>3 DEF Positioned
<1>16. FailedRound > 0 <=> LastFailed > FreshPass
  BY <1>3 DEF FailedRound, LastFailed, Positioned
<1>17. HoldsToken <=> LastToken > 0 /\ led[LastToken].of = "acquired"
  <2>1. \A i \in DOMAIN led : i > 0
    BY DEF IsLedger
  <2>2. LastToken = 0 \/ (LastToken \in SeqsOf("ship-token") /\ LastToken > 0)
    <3>1. (SeqsOf("ship-token") = {} => LastToken = 0) /\ (SeqsOf("ship-token") # {} => LastToken \in SeqsOf("ship-token"))
      BY <1>1, NewestIs DEF LastToken
    <3> QED
      BY <3>1, <2>1 DEF SeqsOf
  <2>3. LastToken = 0 => Token.e = "none"
    BY DEF Token, NewestOf, LastToken
  <2>4. LastToken # 0 => Token = led[LastToken]
    BY DEF Token, NewestOf, LastToken
  <2>5. LastToken \in SeqsOf("ship-token") => led[LastToken].e = "ship-token"
    BY DEF SeqsOf
  <2> QED
    BY <1>3, <2>2, <2>3, <2>4, <2>5 DEF HoldsToken, Positioned
<1>18. RedStands <=> LastRender > 0 /\ led[LastRender].of = "red" /\ ~(LastSweep > LastRender)
  <2>1. \A i \in DOMAIN led : i > 0
    BY DEF IsLedger
  <2>2. LastRender = 0 \/ (LastRender \in SeqsOf("verdict-rendered") /\ LastRender > 0)
    <3>1. /\ SeqsOf("verdict-rendered") = {} => LastRender = 0
          /\ SeqsOf("verdict-rendered") # {} => LastRender \in SeqsOf("verdict-rendered")
      BY <1>1, NewestIs DEF LastRender
    <3> QED
      BY <3>1, <2>1 DEF SeqsOf
  <2>3. LastRender = 0 => LastVerdict.e = "none"
    BY DEF LastVerdict, NewestOf, LastRender
  <2>4. LastRender # 0 => LastVerdict = led[LastRender]
    BY DEF LastVerdict, NewestOf, LastRender
  <2>5. LastRender \in SeqsOf("verdict-rendered") => led[LastRender].e = "verdict-rendered"
    BY DEF SeqsOf
  <2>6. SweepSkipped <=> LastSweep > LastRender
    BY <1>1, <1>3, <1>4 DEF SweepSkipped, LastSweep, LastRender, Positioned
  <2> QED
    BY <1>3, <2>2, <2>3, <2>4, <2>5, <2>6 DEF RedStands, Positioned
<1>19. /\ Reading.pending <=> FreshPass > 0 /\ ~(LastImpl > FreshPass)
       /\ Reading.gap <=> FreshPass > 0 /\ LastFresh > LastRender
       /\ Reading.open <=> ~(LastUpdate > LastFast)
       /\ Reading.asked <=> LastUpdateAsk > FreshPass /\ LastUpdateAsk > LastRecords
  BY <1>8, <1>9, <1>10, <1>14 DEF Reading
<1>20. /\ Reading.owed <=> LastAsk > FreshPass /\ ~(LastGreen > LastAsk) /\ ~(LastFallback > LastAsk)
       /\ Reading.failed <=> LastFailed > FreshPass
       /\ Reading.holds <=> LastToken > 0 /\ led[LastToken].of = "acquired"
       /\ Reading.opened <=> LastOpened > 0
       /\ Reading.red <=> LastRender > 0 /\ led[LastRender].of = "red" /\ ~(LastSweep > LastRender)
  BY <1>7, <1>15, <1>16, <1>17, <1>18 DEF Reading, Opened
<1>21. Reading.rendered <=> LastRecords > FreshPass
  <2>1. Rendered > 0 <=> LastRecords > FreshPass
    BY <1>3, <1>5 DEF Positioned
  <2> QED
    BY <2>1 DEF Reading
<1>22. /\ Reading.admits <=> (LastRecords > FreshPass => led[LastRecords].of = "green" \/ LastFallback > LastRecords)
       /\ Reading.head = IF LastMove = 0 THEN 0 ELSE led[LastMove].sha
       /\ Reading.fast = IF LastFast = 0 THEN [e |-> "none", sha |-> 0] ELSE led[LastFast]
  BY <1>11, <1>12, <1>13 DEF Reading
<1> QED
  BY <1>3, <1>19, <1>20, <1>21, <1>22 DEF ReadingSays

LEMMA ReadingIsNext == IsLedger' => ReadingSays' /\ Positioned'
BY ReadingIs, PTL

(* The shape of the stamps: a green verdict is numbered by its tree, and of  *)
(* the updates the quiet ones share a number that no other has.              *)
Unnumbered == {"merge-round", "operational-fix", "reconcile-rendered", "fast-path-ship"}
Moving(x) == x.e = "implementation-committed" \/ (x.e = "pre-verdict-update" /\ (x.ran \/ x.unnamed))
Asking(x) == x.e \in {"pre-verdict-update", "fast-path-ship"} /\ x.recs = "rerun"
StampShape(x) ==
  /\ x.e \in Unnumbered => "nth" \notin DOMAIN x
  /\ x.e = "verdict-rendered" => /\ "nth" \in DOMAIN x /\ x.of \in {"green", "red"}
                                 /\ x.nth = IF x.of = "green" THEN x.sha ELSE 0
                                 /\ x.of = "green" => x.sha \in Nat \ {0}
  /\ x.e = "fast-path-ship" => x.code \in {"kept", "rejudge"}
  /\ x.e = "pre-verdict-update" =>
       /\ "nth" \in DOMAIN x /\ x.sha \in Nat \ {0}
       /\ x.nth = IF Moving(x) THEN x.sha + 1 ELSE IF x.of = "capped" THEN 1 ELSE 0
       /\ x.recs = "rerun" \/ x.of = "capped" => (Moving(x) <=> x.of # "capped")
Shaped == \A i \in DOMAIN led : StampShape(led[i])

(* How a stamp moves where the newest events stand.                          *)
Lands(stamped, m, p, q) == IF stamped THEN q = Len(led') ELSE p \in DOMAIN m /\ q = m[p]
Recedes(kept, stamped, m, p, q) ==
  /\ kept => p \in DOMAIN m /\ q = m[p]
  /\ stamped => q = Len(led')
  /\ ~stamped => \E a \in DOMAIN m : a <= p /\ q = m[a]
MovedBy(x, m) ==
  /\ Lands(x.e = "fresh-pass", m, FreshPass, FreshPass')
  /\ Lands(x.e = "implementation-committed", m, LastImpl, LastImpl')
  /\ x.e # "implementation-committed" \/ x.of = "fresh"
       => Lands(x.e = "implementation-committed", m, LastFresh, LastFresh')
  /\ Lands(Moving(x), m, LastMove, LastMove')
  /\ Lands(x.e = "verdict-rendered", m, LastRender, LastRender')
  /\ Lands(x.e = "reconcile-rendered", m, LastRecords, LastRecords')
  /\ Lands(x.e = "reconcile-rendered" /\ x.of = "green", m, LastGreen, LastGreen')
  /\ Lands(x.e = "reconciliation-written", m, LastFallback, LastFallback')
  /\ Lands(x.e = "fast-path-ship", m, LastFast, LastFast')
  /\ Lands(x.e = "pre-verdict-update", m, LastUpdate, LastUpdate')
  /\ Lands(x.e = "ship-token", m, LastToken, LastToken')
  /\ Lands(x.e = "pr-opened", m, LastOpened, LastOpened')
  /\ Lands(x.e = "merge-round" /\ x.of = "failed", m, LastFailed, LastFailed')
  /\ Lands(x.e = "operational-fix" /\ x.of = "sweep", m, LastSweep, LastSweep')
  /\ Recedes(x.e \notin {"pre-verdict-update", "fast-path-ship"}, Asking(x), m, LastAsk, LastAsk')
  /\ Recedes(x.e # "pre-verdict-update", Asking(x) /\ x.e = "pre-verdict-update", m, LastUpdateAsk, LastUpdateAsk')

LEMMA KeyNumbers ==
  ASSUME NEW x, NEW y, Key(x) = Key(y), "nth" \in DOMAIN x, "nth" \in DOMAIN y, x.e # "park"
  PROVE  x.nth = y.nth
<1>1. x.e = y.e
  BY KeyTells
<1> QED
  BY <1>1 DEF Key

(* What a stamp leaves of the heads and of the asks.                         *)
LEMMA HeadsMove ==
  ASSUME Shaped, NEW x, StampShape(x), NEW sh, Shifted(led, led', x, sh), ~Moving(x)
  PROVE  HeadMoves \subseteq DOMAIN sh /\ HeadMoves' = Dest(sh, HeadMoves)
<1>1. /\ led'[Len(led')] = x
      /\ \A j \in DOMAIN led' : j = Len(led') \/ \E k \in DOMAIN sh : sh[k] = j
      /\ \A k \in DOMAIN sh : k \in DOMAIN led /\ sh[k] \in DOMAIN led' /\ led'[sh[k]] = led[k]
  BY ShiftIs
<1>2. HeadMoves = {i \in DOMAIN led : Moving(led[i])} /\ HeadMoves' = {i \in DOMAIN led' : Moving(led'[i])}
  BY DEF HeadMoves, MovedUpdates, SeqsOf, Moving
<1>3. ASSUME NEW k \in DOMAIN led \ DOMAIN sh PROVE ~Moving(led[k])
  <2>1. Key(led[k]) = Key(x) /\ led[k].e = x.e
    BY KeyTells DEF Shifted
  <2>2. CASE x.e = "pre-verdict-update"
    <3>1. StampShape(led[k]) /\ StampShape(x)
      BY DEF Shaped
    <3>2. led[k].nth = x.nth
      BY <2>1, <2>2, <3>1, KeyNumbers DEF StampShape
    <3>3. x.nth \in {0, 1}
      BY <2>2, <3>1 DEF StampShape
    <3>4. Moving(led[k]) => led[k].nth = led[k].sha + 1 /\ led[k].sha \in Nat \ {0}
      BY <2>1, <2>2, <3>1 DEF StampShape
    <3> QED
      BY <3>2, <3>3, <3>4
  <2>3. CASE x.e # "pre-verdict-update"
    BY <2>1, <2>3 DEF Moving
  <2> QED
    BY <2>2, <2>3
<1> HIDE DEF Moving
<1>4. HeadMoves \subseteq DOMAIN sh
  BY <1>2, <1>3
<1>5. HeadMoves' = Dest(sh, HeadMoves)
  BY <1>1, <1>2, <1>4 DEF Dest
<1> QED
  BY <1>4, <1>5

LEMMA AsksMove ==
  ASSUME NEW x, NEW sh, Shifted(led, led', x, sh)
  PROVE  /\ ~Asking(x) => Asks' = Dest(sh, Asks \intersect DOMAIN sh)
         /\ ~(Asking(x) /\ x.e = "pre-verdict-update") => UpdateAsks' = Dest(sh, UpdateAsks \intersect DOMAIN sh)
         /\ x.e \notin {"pre-verdict-update", "fast-path-ship"} => Asks \subseteq DOMAIN sh
         /\ x.e # "pre-verdict-update" => UpdateAsks \subseteq DOMAIN sh
         /\ Asking(x) => Len(led') \in Asks' /\ (x.e = "pre-verdict-update" => Len(led') \in UpdateAsks')
<1>1. /\ led'[Len(led')] = x /\ Len(led') \in DOMAIN led'
      /\ \A j \in DOMAIN led' : j = Len(led') \/ \E k \in DOMAIN sh : sh[k] = j
      /\ \A k \in DOMAIN sh : k \in DOMAIN led /\ sh[k] \in DOMAIN led' /\ led'[sh[k]] = led[k]
  BY ShiftIs
<1>2. Asks = {i \in DOMAIN led : Asking(led[i])} /\ Asks' = {i \in DOMAIN led' : Asking(led'[i])}
  BY DEF Asks, SeqsOf, Asking
<1>3. /\ UpdateAsks = {i \in DOMAIN led : Asking(led[i]) /\ led[i].e = "pre-verdict-update"}
      /\ UpdateAsks' = {i \in DOMAIN led' : Asking(led'[i]) /\ led'[i].e = "pre-verdict-update"}
  BY <1>2 DEF UpdateAsks, SeqsOf
<1>4. \A k \in DOMAIN led \ DOMAIN sh : led[k].e = x.e
  BY KeyTells DEF Shifted
<1>5. x.e \notin {"pre-verdict-update", "fast-path-ship"} => Asks \subseteq DOMAIN sh
  BY <1>2, <1>4 DEF Asking
<1> HIDE DEF Asking
<1>6. ~Asking(x) => Asks' = Dest(sh, Asks \intersect DOMAIN sh)
  BY <1>1, <1>2 DEF Dest
<1>7. ~(Asking(x) /\ x.e = "pre-verdict-update") => UpdateAsks' = Dest(sh, UpdateAsks \intersect DOMAIN sh)
  BY <1>1, <1>3 DEF Dest
<1>8. x.e # "pre-verdict-update" => UpdateAsks \subseteq DOMAIN sh
  BY <1>3, <1>4
<1>9. Asking(x) => Len(led') \in Asks' /\ (x.e = "pre-verdict-update" => Len(led') \in UpdateAsks')
  BY <1>1, <1>2, <1>3
<1> QED
  BY <1>5, <1>6, <1>7, <1>8, <1>9

LEMMA Positions ==
  ASSUME IsLedger, Shaped, NEW x, StampShape(x), Stamp(x)
  PROVE  \E m : Carried(led, led', x, m) /\ MovedBy(x, m)
<1>1. PICK sh : Shifted(led, led', x, sh)
  BY StampShifts DEF IsLedger
<1>2. PICK m : /\ m = Shifts(sh) /\ Carried(led, led', x, m)
               /\ \A S : S \subseteq DOMAIN sh => Newest(S) \in DOMAIN m /\ Newest(Dest(sh, S)) = m[Newest(S)]
  BY <1>1, ShiftCarries
<1>3. /\ \A S : S \subseteq DOMAIN led' /\ Len(led') \in S => Newest(S) = Len(led')
      /\ Len(led') \in DOMAIN led' /\ led'[Len(led')] = x
  BY <1>1, NewestIsStamped, ShiftIs
<1>4. \A e : Lands(x.e = e, m, Newest(SeqsOf(e)), Newest(SeqsOf(e)'))
  <2> SUFFICES ASSUME NEW e PROVE Lands(x.e = e, m, Newest(SeqsOf(e)), Newest(SeqsOf(e)'))
    OBVIOUS
  <2>1. CASE x.e = e
    <3>1. SeqsOf(e)' \subseteq DOMAIN led' /\ Len(led') \in SeqsOf(e)'
      BY <1>3, <2>1 DEF SeqsOf
    <3> QED
      BY <1>3, <2>1, <3>1 DEF Lands
  <2>2. CASE x.e # e
    <3>1. SeqsOf(e) \subseteq DOMAIN sh /\ SeqsOf(e)' = Dest(sh, SeqsOf(e))
      BY <1>1, <2>2, KindMoves
    <3> QED
      BY <1>2, <2>2, <3>1 DEF Lands
  <2> QED
    BY <2>1, <2>2
<1>5. \A e, of : x.e # e \/ x.of = of => Lands(x.e = e, m, Newest(Seqs(e, of)), Newest(Seqs(e, of)'))
  <2> SUFFICES ASSUME NEW e, NEW of, x.e # e \/ x.of = of PROVE Lands(x.e = e, m, Newest(Seqs(e, of)), Newest(Seqs(e, of)'))
    OBVIOUS
  <2>1. CASE x.e = e
    <3>1. Seqs(e, of)' \subseteq DOMAIN led' /\ Len(led') \in Seqs(e, of)'
      BY <1>3, <2>1 DEF Seqs
    <3> QED
      BY <1>3, <2>1, <3>1 DEF Lands
  <2>2. CASE x.e # e
    <3>1. Seqs(e, of) \subseteq DOMAIN sh /\ Seqs(e, of)' = Dest(sh, Seqs(e, of))
      <4>1. e # x.e
        BY <2>2
      <4>2. \A o : Seqs(e, o) \subseteq DOMAIN sh /\ Seqs(e, o)' = Dest(sh, Seqs(e, o))
        BY <1>1, <4>1, KindMoves
      <4> QED
        BY <4>2
    <3> QED
      BY <1>2, <2>2, <3>1 DEF Lands
  <2> QED
    BY <2>1, <2>2
<1>6. \A e \in Unnumbered : \A of : Lands(x.e = e /\ x.of = of, m, Newest(Seqs(e, of)), Newest(Seqs(e, of)'))
  <2> SUFFICES ASSUME NEW e \in Unnumbered, NEW of
               PROVE  Lands(x.e = e /\ x.of = of, m, Newest(Seqs(e, of)), Newest(Seqs(e, of)'))
    OBVIOUS
  <2>1. CASE x.e # e \/ x.of = of
    <3>1. Lands(x.e = e, m, Newest(Seqs(e, of)), Newest(Seqs(e, of)'))
      BY <1>5, <2>1
    <3>2. (x.e = e) <=> (x.e = e /\ x.of = of)
      BY <2>1
    <3> QED
      BY <3>1, <3>2 DEF Lands
  <2>2. CASE x.e = e /\ x.of # of
    <3>1. "nth" \notin DOMAIN x /\ \A k \in DOMAIN led : led[k].e = x.e => "nth" \notin DOMAIN led[k]
      BY <2>2 DEF Shaped, StampShape
    <3>2. Seqs(x.e, of) \subseteq DOMAIN sh /\ Seqs(x.e, of)' = Dest(sh, Seqs(x.e, of))
      BY <1>1, <2>2, <3>1, NameShifts
    <3> QED
      BY <1>2, <2>2, <3>2 DEF Lands
  <2> QED
    BY <2>1, <2>2
<1>7. Lands(Moving(x), m, LastMove, LastMove')
  <2>1. CASE Moving(x)
    <3>1. HeadMoves' \subseteq DOMAIN led' /\ Len(led') \in HeadMoves'
      BY <1>3, <2>1 DEF HeadMoves, MovedUpdates, SeqsOf, Moving
    <3>2. LastMove' = Newest(HeadMoves')
      BY DEF LastMove, Newest
    <3> QED
      BY <1>3, <2>1, <3>1, <3>2 DEF Lands
  <2>2. CASE ~Moving(x)
    <3>1. HeadMoves \subseteq DOMAIN sh /\ HeadMoves' = Dest(sh, HeadMoves)
      BY <1>1, <2>2, HeadsMove
    <3>2. LastMove = Newest(HeadMoves) /\ LastMove' = Newest(HeadMoves')
      BY DEF LastMove, Newest
    <3> QED
      BY <1>2, <2>2, <3>1, <3>2 DEF Lands
  <2> QED
    BY <2>1, <2>2
<1>8. ASSUME NEW S, NEW T, S \subseteq 1..Len(led), T = Dest(sh, S \intersect DOMAIN sh)
      PROVE  \E a \in DOMAIN m : a <= Newest(S) /\ Newest(T) = m[a]
  <2> DEFINE R == S \intersect DOMAIN sh
  <2>1. Newest(R) \in DOMAIN m /\ Newest(T) = m[Newest(R)]
    BY <1>2, <1>8
  <2>2. Newest(R) <= Newest(S)
    <3>1. R \subseteq 1..Len(led) /\ Len(led) \in Nat
      BY <1>8 DEF IsLedger
    <3>2. /\ R = {} => Newest(R) = 0
          /\ R # {} => Newest(R) \in R
          /\ Newest(S) \in 0..Len(led) /\ \A i \in S : i <= Newest(S)
      BY <1>8, <3>1, NewestIs
    <3>3. R \subseteq S
      OBVIOUS
    <3> HIDE DEF Newest, R
    <3>4. CASE R = {}
      BY <3>1, <3>2, <3>4
    <3>5. CASE R # {}
      BY <3>2, <3>3, <3>5
    <3> QED
      BY <3>4, <3>5
  <2> QED
    BY <2>1, <2>2
<1>9. Asks \subseteq 1..Len(led) /\ UpdateAsks \subseteq 1..Len(led)
  BY DEF IsLedger, Asks, UpdateAsks, SeqsOf
<1>10. LastAsk = Newest(Asks) /\ LastAsk' = Newest(Asks') /\ LastUpdateAsk = Newest(UpdateAsks) /\ LastUpdateAsk' = Newest(UpdateAsks')
  BY DEF LastAsk, LastUpdateAsk, Newest
<1>11. Asks' \subseteq DOMAIN led' /\ UpdateAsks' \subseteq DOMAIN led'
  BY DEF Asks, UpdateAsks, SeqsOf
<1>12. Recedes(x.e \notin {"pre-verdict-update", "fast-path-ship"}, Asking(x), m, LastAsk, LastAsk')
  <2>1. ASSUME x.e \notin {"pre-verdict-update", "fast-path-ship"} PROVE LastAsk \in DOMAIN m /\ LastAsk' = m[LastAsk]
    <3>1. Asks \subseteq DOMAIN sh /\ ~Asking(x)
      BY <1>1, <2>1, AsksMove DEF Asking
    <3>2. Asks' = Dest(sh, Asks)
      <4>1. Asks' = Dest(sh, Asks \intersect DOMAIN sh) /\ Asks \intersect DOMAIN sh = Asks
        BY <1>1, <3>1, AsksMove
      <4> QED
        BY <4>1
    <3> QED
      BY <1>2, <1>10, <3>1, <3>2
  <2>2. ASSUME Asking(x) PROVE LastAsk' = Len(led')
    BY <1>1, <1>3, <1>10, <1>11, <2>2, AsksMove
  <2>3. ASSUME ~Asking(x) PROVE \E a \in DOMAIN m : a <= LastAsk /\ LastAsk' = m[a]
    BY <1>1, <1>8, <1>9, <1>10, <2>3, AsksMove
  <2> QED
    BY <2>1, <2>2, <2>3 DEF Recedes
<1>13. Recedes(x.e # "pre-verdict-update", Asking(x) /\ x.e = "pre-verdict-update", m, LastUpdateAsk, LastUpdateAsk')
  <2>1. ASSUME x.e # "pre-verdict-update" PROVE LastUpdateAsk \in DOMAIN m /\ LastUpdateAsk' = m[LastUpdateAsk]
    <3>1. UpdateAsks \subseteq DOMAIN sh
      BY <1>1, <2>1, AsksMove
    <3>2. UpdateAsks' = Dest(sh, UpdateAsks)
      <4>1. UpdateAsks' = Dest(sh, UpdateAsks \intersect DOMAIN sh) /\ UpdateAsks \intersect DOMAIN sh = UpdateAsks
        BY <1>1, <2>1, <3>1, AsksMove
      <4> QED
        BY <4>1
    <3> QED
      BY <1>2, <1>10, <3>1, <3>2
  <2>2. ASSUME Asking(x) /\ x.e = "pre-verdict-update" PROVE LastUpdateAsk' = Len(led')
    BY <1>1, <1>3, <1>10, <1>11, <2>2, AsksMove
  <2>3. ASSUME ~(Asking(x) /\ x.e = "pre-verdict-update") PROVE \E a \in DOMAIN m : a <= LastUpdateAsk /\ LastUpdateAsk' = m[a]
    BY <1>1, <1>8, <1>9, <1>10, <2>3, AsksMove
  <2> QED
    BY <2>1, <2>2, <2>3 DEF Recedes
<1>14. /\ Lands(x.e = "fresh-pass", m, FreshPass, FreshPass')
       /\ Lands(x.e = "implementation-committed", m, LastImpl, LastImpl')
       /\ Lands(x.e = "verdict-rendered", m, LastRender, LastRender')
       /\ Lands(x.e = "reconcile-rendered", m, LastRecords, LastRecords')
       /\ Lands(x.e = "reconciliation-written", m, LastFallback, LastFallback')
       /\ Lands(x.e = "fast-path-ship", m, LastFast, LastFast')
       /\ Lands(x.e = "pre-verdict-update", m, LastUpdate, LastUpdate')
       /\ Lands(x.e = "ship-token", m, LastToken, LastToken')
       /\ Lands(x.e = "pr-opened", m, LastOpened, LastOpened')
  <2>1. /\ FreshPass' = Newest(SeqsOf("fresh-pass")') /\ LastImpl' = Newest(SeqsOf("implementation-committed")')
        /\ LastRender' = Newest(SeqsOf("verdict-rendered")') /\ LastRecords' = Newest(SeqsOf("reconcile-rendered")')
        /\ LastFallback' = Newest(SeqsOf("reconciliation-written")') /\ LastFast' = Newest(SeqsOf("fast-path-ship")')
        /\ LastUpdate' = Newest(SeqsOf("pre-verdict-update")') /\ LastToken' = Newest(SeqsOf("ship-token")')
        /\ LastOpened' = Newest(SeqsOf("pr-opened")')
    BY DEF FreshPass, LastImpl, LastRender, LastRecords, LastFallback, LastFast, LastUpdate, LastToken, LastOpened, Newest
  <2> QED
    BY <1>4, <2>1 DEF FreshPass, LastImpl, LastRender, LastRecords, LastFallback, LastFast, LastUpdate, LastToken, LastOpened
<1>15. /\ x.e # "implementation-committed" \/ x.of = "fresh"
            => Lands(x.e = "implementation-committed", m, LastFresh, LastFresh')
       /\ Lands(x.e = "reconcile-rendered" /\ x.of = "green", m, LastGreen, LastGreen')
       /\ Lands(x.e = "merge-round" /\ x.of = "failed", m, LastFailed, LastFailed')
       /\ Lands(x.e = "operational-fix" /\ x.of = "sweep", m, LastSweep, LastSweep')
  <2>1. /\ LastFresh' = Newest(Seqs("implementation-committed", "fresh")') /\ LastGreen' = Newest(Seqs("reconcile-rendered", "green")')
        /\ LastFailed' = Newest(Seqs("merge-round", "failed")') /\ LastSweep' = Newest(Seqs("operational-fix", "sweep")')
    BY DEF LastFresh, LastGreen, LastFailed, LastSweep, Newest
  <2>2. {"reconcile-rendered", "merge-round", "operational-fix"} \subseteq Unnumbered
    BY DEF Unnumbered
  <2> QED
    BY <1>5, <1>6, <2>1, <2>2 DEF LastFresh, LastGreen, LastFailed, LastSweep
<1> QED
  BY <1>2, <1>7, <1>12, <1>13, <1>14, <1>15 DEF MovedBy

(* How a stamp changes what is read, by its kind: a pass starts over, what   *)
(* is rendered answers what was asked before it.                             *)
PassReading(x, v, w) ==
  /\ IF x.e = "fresh-pass" THEN w.pending ELSE IF x.e = "implementation-committed" THEN ~w.pending ELSE w.pending <=> v.pending
  /\ x.e \notin {"implementation-committed", "verdict-rendered"} /\ v.gap => w.gap
  /\ x.e = "implementation-committed" /\ x.of = "fresh" /\ (v.pending \/ v.gap) => w.gap
  /\ IF x.e = "fresh-pass" THEN ~w.failed
     ELSE IF x.e = "merge-round" /\ x.of = "failed" THEN w.failed ELSE w.failed <=> v.failed
CodeReading(x, v, w) ==
  /\ w.head = IF Moving(x) THEN x.sha ELSE v.head
  /\ w.fast = IF x.e = "fast-path-ship" THEN x ELSE v.fast
  /\ IF x.e = "fast-path-ship" THEN w.open ELSE IF x.e = "pre-verdict-update" THEN ~w.open ELSE w.open <=> v.open
  /\ IF x.e = "verdict-rendered" THEN w.red <=> x.of = "red"
     ELSE IF x.e = "operational-fix" /\ x.of = "sweep" THEN ~w.red ELSE w.red <=> v.red
RecordsReading(x, v, w) ==
  /\ IF x.e = "fresh-pass" THEN ~w.rendered ELSE IF x.e = "reconcile-rendered" THEN w.rendered ELSE w.rendered <=> v.rendered
  /\ IF x.e \in {"fresh-pass", "reconciliation-written"} THEN w.admits
     ELSE IF x.e = "reconcile-rendered" THEN w.admits <=> x.of = "green" ELSE w.admits <=> v.admits
AskReading(x, v, w) ==
  /\ IF x.e \in {"fresh-pass", "reconcile-rendered"} THEN ~w.asked
     ELSE IF x.e = "pre-verdict-update" THEN IF Asking(x) THEN w.asked ELSE w.asked => v.asked
     ELSE w.asked <=> v.asked
  /\ IF x.e \in {"fresh-pass", "reconciliation-written"} \/ (x.e = "reconcile-rendered" /\ x.of = "green") THEN ~w.owed
     ELSE IF x.e \in {"pre-verdict-update", "fast-path-ship"} THEN IF Asking(x) THEN w.owed ELSE w.owed => v.owed
     ELSE w.owed <=> v.owed
TokenReading(x, v, w) ==
  /\ w.holds <=> IF x.e = "ship-token" THEN x.of = "acquired" ELSE v.holds
  /\ w.opened <=> x.e = "pr-opened" \/ v.opened
ShaReading(x, v, w) ==
  /\ w.greens = IF x.e = "verdict-rendered" /\ x.of = "green" THEN v.greens \cup {x.sha} ELSE v.greens
  /\ IF x.e \in NamingKinds THEN x.sha \in w.named /\ w.named \subseteq v.named \cup {x.sha} ELSE w.named = v.named
CapReading(x, v, w) ==
  IF x.e = "pre-verdict-update" /\ x.of = "capped" THEN x.pass = Pass => w.capped
  ELSE x.e # "fresh-pass" /\ v.capped => w.capped
Reads(x, v, w) ==
  /\ PassReading(x, v, w) /\ CodeReading(x, v, w) /\ RecordsReading(x, v, w) /\ AskReading(x, v, w)
  /\ TokenReading(x, v, w) /\ ShaReading(x, v, w) /\ CapReading(x, v, w)

LEMMA NewestRead ==
  ASSUME IsLedger, Shaped, NEW x, StampShape(x), Stamp(x)
  PROVE  /\ PassReading(x, Reading, Reading') /\ CodeReading(x, Reading, Reading') /\ RecordsReading(x, Reading, Reading')
         /\ AskReading(x, Reading, Reading') /\ TokenReading(x, Reading, Reading')
<1>1. PICK m : Carried(led, led', x, m) /\ MovedBy(x, m)
  BY Positions
<1>2. /\ Len(led') \in Nat /\ Len(led') > 0 /\ led'[Len(led')] = x
      /\ \A a \in DOMAIN m : a \in Nat /\ m[a] \in Nat /\ m[a] < Len(led') /\ (a > 0 <=> m[a] > 0) /\ (a = 0 <=> m[a] = 0)
      /\ \A a \in DOMAIN m : a > 0 => led'[m[a]] = led[a]
      /\ \A a, b \in DOMAIN m : (a < b <=> m[a] < m[b]) /\ (a > b <=> m[a] > m[b])
  BY <1>1 DEF Carried
<1>3. ReadingSays /\ ReadingSays' /\ Positioned
  BY ReadingIs, ReadingIsNext, StampShifts DEF IsLedger
<1> HIDE DEF Reading, Moving, Asking
<1>4. PassReading(x, Reading, Reading')
  <2>1. /\ Reading.pending <=> FreshPass > 0 /\ ~(LastImpl > FreshPass)
        /\ Reading'.pending <=> FreshPass' > 0 /\ ~(LastImpl' > FreshPass')
        /\ Reading.gap <=> FreshPass > 0 /\ LastFresh > LastRender
        /\ Reading'.gap <=> FreshPass' > 0 /\ LastFresh' > LastRender'
        /\ Reading.failed <=> LastFailed > FreshPass
        /\ Reading'.failed <=> LastFailed' > FreshPass'
    BY <1>3 DEF ReadingSays
  <2>2. /\ Lands(x.e = "fresh-pass", m, FreshPass, FreshPass')
        /\ Lands(x.e = "implementation-committed", m, LastImpl, LastImpl')
        /\ x.e # "implementation-committed" \/ x.of = "fresh"
             => Lands(x.e = "implementation-committed", m, LastFresh, LastFresh')
        /\ Lands(x.e = "verdict-rendered", m, LastRender, LastRender')
        /\ Lands(x.e = "merge-round" /\ x.of = "failed", m, LastFailed, LastFailed')
    BY <1>1 DEF MovedBy
  <2>3. FreshPass \in Nat /\ LastImpl \in Nat /\ LastFresh \in Nat /\ LastRender \in Nat /\ LastFailed \in Nat
    BY <1>3 DEF Positioned
  <2>4. IF x.e = "fresh-pass" THEN Reading'.pending ELSE IF x.e = "implementation-committed" THEN ~Reading'.pending
        ELSE Reading'.pending <=> Reading.pending
    BY <1>2, <2>1, <2>2, <2>3 DEF Lands
  <2>5. /\ x.e \notin {"implementation-committed", "verdict-rendered"} /\ Reading.gap => Reading'.gap
        /\ x.e = "implementation-committed" /\ x.of = "fresh" /\ (Reading.pending \/ Reading.gap) => Reading'.gap
    BY <1>2, <2>1, <2>2, <2>3 DEF Lands
  <2>6. IF x.e = "fresh-pass" THEN ~Reading'.failed
        ELSE IF x.e = "merge-round" /\ x.of = "failed" THEN Reading'.failed ELSE Reading'.failed <=> Reading.failed
    BY <1>2, <2>1, <2>2, <2>3 DEF Lands
  <2> QED
    BY <2>4, <2>5, <2>6 DEF PassReading
<1>5. CodeReading(x, Reading, Reading')
  <2>1. /\ Reading.head = IF LastMove = 0 THEN 0 ELSE led[LastMove].sha
        /\ Reading'.head = IF LastMove' = 0 THEN 0 ELSE led'[LastMove'].sha
        /\ Reading.fast = IF LastFast = 0 THEN [e |-> "none", sha |-> 0] ELSE led[LastFast]
        /\ Reading'.fast = IF LastFast' = 0 THEN [e |-> "none", sha |-> 0] ELSE led'[LastFast']
        /\ Reading.open <=> ~(LastUpdate > LastFast)
        /\ Reading'.open <=> ~(LastUpdate' > LastFast')
        /\ Reading.red <=> LastRender > 0 /\ led[LastRender].of = "red" /\ ~(LastSweep > LastRender)
        /\ Reading'.red <=> LastRender' > 0 /\ led'[LastRender'].of = "red" /\ ~(LastSweep' > LastRender')
    BY <1>3 DEF ReadingSays
  <2>2. /\ Lands(Moving(x), m, LastMove, LastMove')
        /\ Lands(x.e = "fast-path-ship", m, LastFast, LastFast')
        /\ Lands(x.e = "pre-verdict-update", m, LastUpdate, LastUpdate')
        /\ Lands(x.e = "verdict-rendered", m, LastRender, LastRender')
        /\ Lands(x.e = "operational-fix" /\ x.of = "sweep", m, LastSweep, LastSweep')
    BY <1>1 DEF MovedBy
  <2>3. LastMove \in Nat /\ LastFast \in Nat /\ LastUpdate \in Nat /\ LastRender \in Nat /\ LastSweep \in Nat
    BY <1>3 DEF Positioned
  <2>4. Reading'.head = IF Moving(x) THEN x.sha ELSE Reading.head
    BY <1>2, <2>1, <2>2, <2>3 DEF Lands
  <2>5. Reading'.fast = IF x.e = "fast-path-ship" THEN x ELSE Reading.fast
    BY <1>2, <2>1, <2>2, <2>3 DEF Lands
  <2>6. IF x.e = "fast-path-ship" THEN Reading'.open ELSE IF x.e = "pre-verdict-update" THEN ~Reading'.open
        ELSE Reading'.open <=> Reading.open
    BY <1>2, <2>1, <2>2, <2>3 DEF Lands
  <2>7. IF x.e = "verdict-rendered" THEN Reading'.red <=> x.of = "red"
        ELSE IF x.e = "operational-fix" /\ x.of = "sweep" THEN ~Reading'.red ELSE Reading'.red <=> Reading.red
    BY <1>2, <2>1, <2>2, <2>3 DEF Lands
  <2> QED
    BY <2>4, <2>5, <2>6, <2>7 DEF CodeReading
<1>6. RecordsReading(x, Reading, Reading')
  <2>1. /\ Reading.rendered <=> LastRecords > FreshPass
        /\ Reading'.rendered <=> LastRecords' > FreshPass'
        /\ Reading.admits <=> (LastRecords > FreshPass => led[LastRecords].of = "green" \/ LastFallback > LastRecords)
        /\ Reading'.admits <=> (LastRecords' > FreshPass' => led'[LastRecords'].of = "green" \/ LastFallback' > LastRecords')
    BY <1>3 DEF ReadingSays
  <2>2. /\ Lands(x.e = "fresh-pass", m, FreshPass, FreshPass')
        /\ Lands(x.e = "reconcile-rendered", m, LastRecords, LastRecords')
        /\ Lands(x.e = "reconciliation-written", m, LastFallback, LastFallback')
    BY <1>1 DEF MovedBy
  <2>3. FreshPass \in Nat /\ LastRecords \in Nat /\ LastFallback \in Nat
    BY <1>3 DEF Positioned
  <2>4. IF x.e = "fresh-pass" THEN ~Reading'.rendered ELSE IF x.e = "reconcile-rendered" THEN Reading'.rendered
        ELSE Reading'.rendered <=> Reading.rendered
    BY <1>2, <2>1, <2>2, <2>3 DEF Lands
  <2>5. IF x.e \in {"fresh-pass", "reconciliation-written"} THEN Reading'.admits
        ELSE IF x.e = "reconcile-rendered" THEN Reading'.admits <=> x.of = "green" ELSE Reading'.admits <=> Reading.admits
    BY <1>2, <2>1, <2>2, <2>3 DEF Lands
  <2> QED
    BY <2>4, <2>5 DEF RecordsReading
<1>7. AskReading(x, Reading, Reading')
  <2>1. /\ Reading.asked <=> LastUpdateAsk > FreshPass /\ LastUpdateAsk > LastRecords
        /\ Reading'.asked <=> LastUpdateAsk' > FreshPass' /\ LastUpdateAsk' > LastRecords'
        /\ Reading.owed <=> LastAsk > FreshPass /\ ~(LastGreen > LastAsk) /\ ~(LastFallback > LastAsk)
        /\ Reading'.owed <=> LastAsk' > FreshPass' /\ ~(LastGreen' > LastAsk') /\ ~(LastFallback' > LastAsk')
    BY <1>3 DEF ReadingSays
  <2>2. /\ Lands(x.e = "fresh-pass", m, FreshPass, FreshPass')
        /\ Lands(x.e = "reconcile-rendered", m, LastRecords, LastRecords')
        /\ Lands(x.e = "reconcile-rendered" /\ x.of = "green", m, LastGreen, LastGreen')
        /\ Lands(x.e = "reconciliation-written", m, LastFallback, LastFallback')
        /\ Recedes(x.e \notin {"pre-verdict-update", "fast-path-ship"}, Asking(x), m, LastAsk, LastAsk')
        /\ Recedes(x.e # "pre-verdict-update", Asking(x) /\ x.e = "pre-verdict-update", m, LastUpdateAsk, LastUpdateAsk')
    BY <1>1 DEF MovedBy
  <2>3. FreshPass \in Nat /\ LastRecords \in Nat /\ LastGreen \in Nat /\ LastFallback \in Nat /\ LastAsk \in Nat /\ LastUpdateAsk \in Nat
    BY <1>3 DEF Positioned
  <2>4. Asking(x) => x.e \in {"pre-verdict-update", "fast-path-ship"}
    BY DEF Asking
  <2>5. IF x.e \in {"fresh-pass", "reconcile-rendered"} THEN ~Reading'.asked
        ELSE IF x.e = "pre-verdict-update" THEN IF Asking(x) THEN Reading'.asked ELSE Reading'.asked => Reading.asked
        ELSE Reading'.asked <=> Reading.asked
    <3>1. CASE x.e = "pre-verdict-update"
      BY <1>2, <2>1, <2>2, <2>3, <3>1 DEF Lands, Recedes
    <3>2. CASE x.e # "pre-verdict-update"
      <4>1. /\ LastUpdateAsk \in DOMAIN m /\ LastUpdateAsk' = m[LastUpdateAsk]
            /\ IF x.e = "fresh-pass" THEN FreshPass' = Len(led') ELSE FreshPass \in DOMAIN m /\ FreshPass' = m[FreshPass]
            /\ IF x.e = "reconcile-rendered" THEN LastRecords' = Len(led') ELSE LastRecords \in DOMAIN m /\ LastRecords' = m[LastRecords]
        BY <2>2, <3>2 DEF Lands, Recedes
      <4>2. ASSUME x.e \in {"fresh-pass", "reconcile-rendered"} PROVE ~Reading'.asked
        BY <1>2, <2>1, <4>1, <4>2
      <4>3. ASSUME x.e \notin {"fresh-pass", "reconcile-rendered"} PROVE Reading'.asked <=> Reading.asked
        BY <1>2, <2>1, <4>1, <4>3
      <4> QED
        BY <3>2, <4>2, <4>3
    <3> QED
      BY <3>1, <3>2
  <2>6. IF x.e \in {"fresh-pass", "reconciliation-written"} \/ (x.e = "reconcile-rendered" /\ x.of = "green") THEN ~Reading'.owed
        ELSE IF x.e \in {"pre-verdict-update", "fast-path-ship"} THEN IF Asking(x) THEN Reading'.owed ELSE Reading'.owed => Reading.owed
        ELSE Reading'.owed <=> Reading.owed
    <3>1. CASE x.e \in {"pre-verdict-update", "fast-path-ship"}
      <4>1. /\ FreshPass \in DOMAIN m /\ FreshPass' = m[FreshPass]
            /\ LastGreen \in DOMAIN m /\ LastGreen' = m[LastGreen]
            /\ LastFallback \in DOMAIN m /\ LastFallback' = m[LastFallback]
            /\ Asking(x) => LastAsk' = Len(led')
            /\ ~Asking(x) => \E a \in DOMAIN m : a <= LastAsk /\ LastAsk' = m[a]
        BY <2>2, <3>1 DEF Lands, Recedes
      <4>2. ASSUME Asking(x) PROVE Reading'.owed
        BY <1>2, <2>1, <4>1, <4>2
      <4>3. ASSUME ~Asking(x), Reading'.owed PROVE Reading.owed
        <5>1. PICK a \in DOMAIN m : a <= LastAsk /\ LastAsk' = m[a] /\ a \in Nat
          BY <1>2, <4>1, <4>3
        <5>2. a > FreshPass /\ ~(LastGreen > a) /\ ~(LastFallback > a)
          BY <1>2, <2>1, <4>1, <4>3, <5>1
        <5> QED
          BY <2>1, <2>3, <5>1, <5>2
      <4> QED
        BY <3>1, <4>2, <4>3
    <3>2. CASE x.e \notin {"pre-verdict-update", "fast-path-ship"}
      BY <1>2, <2>1, <2>2, <2>3, <3>2 DEF Lands, Recedes
    <3> QED
      BY <3>1, <3>2
  <2> QED
    BY <2>5, <2>6 DEF AskReading
<1>8. TokenReading(x, Reading, Reading')
  <2>1. /\ Reading.holds <=> LastToken > 0 /\ led[LastToken].of = "acquired"
        /\ Reading'.holds <=> LastToken' > 0 /\ led'[LastToken'].of = "acquired"
        /\ Reading.opened <=> LastOpened > 0
        /\ Reading'.opened <=> LastOpened' > 0
    BY <1>3 DEF ReadingSays
  <2>2. /\ Lands(x.e = "ship-token", m, LastToken, LastToken')
        /\ Lands(x.e = "pr-opened", m, LastOpened, LastOpened')
    BY <1>1 DEF MovedBy
  <2>3. LastToken \in Nat /\ LastOpened \in Nat
    BY <1>3 DEF Positioned
  <2> QED
    BY <1>2, <2>1, <2>2, <2>3 DEF Lands, TokenReading
<1> QED
  BY <1>4, <1>5, <1>6, <1>7, <1>8

LEMMA ShasRead ==
  ASSUME IsLedger, Shaped, NEW x, StampShape(x), Stamp(x)
  PROVE  ShaReading(x, Reading, Reading') /\ CapReading(x, Reading, Reading')
<1>1. PICK sh : Shifted(led, led', x, sh)
  BY StampShifts DEF IsLedger
<1>2. /\ led'[Len(led')] = x /\ Len(led') \in DOMAIN led'
      /\ \A j \in DOMAIN led' : j = Len(led') \/ \E k \in DOMAIN sh : sh[k] = j
      /\ \A k \in DOMAIN sh : k \in DOMAIN led /\ sh[k] \in DOMAIN led' /\ led'[sh[k]] = led[k]
  BY <1>1, ShiftIs
<1>3. \A k \in DOMAIN led \ DOMAIN sh : Key(led[k]) = Key(x) /\ led[k].e = x.e
  BY <1>1, KeyTells DEF Shifted
<1>4. \A k \in DOMAIN led : StampShape(led[k])
  BY DEF Shaped
<1>5. Reading'.greens = IF x.e = "verdict-rendered" /\ x.of = "green" THEN Reading.greens \cup {x.sha} ELSE Reading.greens
  <2>1. Greens = {i \in DOMAIN led : led[i].e = "verdict-rendered" /\ led[i].of = "green"}
        /\ Greens' = {i \in DOMAIN led' : led'[i].e = "verdict-rendered" /\ led'[i].of = "green"}
    BY DEF Greens, Seqs
  <2>2. Reading.greens = {led[i].sha : i \in Greens} /\ Reading'.greens = {led'[i].sha : i \in Greens'}
    BY DEF Reading
  <2>3. ASSUME NEW k \in Greens, k \notin DOMAIN sh
        PROVE  x.e = "verdict-rendered" /\ x.of = "green" /\ led[k].sha = x.sha
    <3>1. k \in DOMAIN led /\ led[k].e = "verdict-rendered" /\ led[k].of = "green" /\ StampShape(led[k]) /\ Key(led[k]) = Key(x) /\ x.e = "verdict-rendered"
      BY <1>3, <1>4, <2>1, <2>3
    <3>2. "nth" \in DOMAIN x /\ "nth" \in DOMAIN led[k] /\ led[k].nth = led[k].sha /\ led[k].sha \in Nat \ {0}
          /\ x.nth = IF x.of = "green" THEN x.sha ELSE 0
      BY <3>1 DEF StampShape
    <3>3. led[k].nth = x.nth
      BY <3>1, <3>2, KeyNumbers
    <3>4. x.of \in {"green", "red"}
      BY <3>1 DEF StampShape
    <3> QED
      BY <3>1, <3>2, <3>3, <3>4
  <2>4. \A i \in Greens' : i = Len(led') \/ \E k \in Greens : k \in DOMAIN sh /\ led'[i].sha = led[k].sha
    BY <1>2, <2>1
  <2>5. \A k \in Greens : k \in DOMAIN sh => sh[k] \in Greens' /\ led'[sh[k]].sha = led[k].sha
    BY <1>2, <2>1
  <2>6. Len(led') \in Greens' <=> x.e = "verdict-rendered" /\ x.of = "green"
    BY <1>2, <2>1
  <2> HIDE DEF Reading
  <2>7. ASSUME NEW s \in Reading'.greens
        PROVE  s \in Reading.greens \/ (x.e = "verdict-rendered" /\ x.of = "green" /\ s = x.sha)
    BY <1>2, <2>2, <2>4, <2>6
  <2>8. ASSUME NEW s \in Reading.greens PROVE s \in Reading'.greens
    <3>1. PICK k \in Greens : s = led[k].sha
      BY <2>2
    <3>2. CASE k \in DOMAIN sh
      BY <2>2, <2>5, <3>1, <3>2
    <3>3. CASE k \notin DOMAIN sh
      BY <1>2, <2>2, <2>3, <2>6, <3>1, <3>3
    <3> QED
      BY <3>2, <3>3
  <2>9. x.e = "verdict-rendered" /\ x.of = "green" => x.sha \in Reading'.greens
    BY <1>2, <2>2, <2>6
  <2> QED
    BY <2>7, <2>8, <2>9
<1>6. IF x.e \in NamingKinds THEN x.sha \in Reading'.named /\ Reading'.named \subseteq Reading.named \cup {x.sha}
      ELSE Reading'.named = Reading.named
  <2>1. Naming = {i \in DOMAIN led : led[i].e \in NamingKinds} /\ Naming' = {i \in DOMAIN led' : led'[i].e \in NamingKinds}
    BY DEF Naming
  <2>2. Reading.named = {led[i].sha : i \in Naming} /\ Reading'.named = {led'[i].sha : i \in Naming'}
    BY DEF Reading
  <2> HIDE DEF Reading, NamingKinds
  <2>3. \A i \in Naming' : i = Len(led') \/ \E k \in Naming : led'[i].sha = led[k].sha
    BY <1>2, <2>1
  <2>4. \A k \in Naming : k \in DOMAIN sh => sh[k] \in Naming' /\ led'[sh[k]].sha = led[k].sha
    BY <1>2, <2>1
  <2>5. Len(led') \in Naming' <=> x.e \in NamingKinds
    BY <1>2, <2>1
  <2>6. x.e \notin NamingKinds => \A k \in Naming : k \in DOMAIN sh
    BY <1>3, <2>1
  <2>7. Reading'.named \subseteq Reading.named \cup {x.sha}
    BY <1>2, <2>2, <2>3
  <2>8. x.e \in NamingKinds => x.sha \in Reading'.named
    BY <1>2, <2>2, <2>5
  <2>9. x.e \notin NamingKinds => Reading'.named \subseteq Reading.named
    BY <2>2, <2>3, <2>5
  <2>10. x.e \notin NamingKinds => Reading.named \subseteq Reading'.named
    BY <2>2, <2>4, <2>6
  <2> QED
    BY <2>7, <2>8, <2>9, <2>10
<1>7. CapReading(x, Reading, Reading')
  <2>1. Reading.capped = Capped /\ Reading'.capped = Capped'
    BY DEF Reading
  <2>2. /\ Capped <=> \E k \in DOMAIN led : led[k].e = "pre-verdict-update" /\ led[k].of = "capped" /\ led[k].pass = Pass
        /\ Capped' <=> \E k \in DOMAIN led' : led'[k].e = "pre-verdict-update" /\ led'[k].of = "capped" /\ led'[k].pass = Pass'
    BY DEF Capped, Seqs
  <2>3. x.e # "fresh-pass" => Pass' = Pass
    <3> SUFFICES ASSUME x.e # "fresh-pass" PROVE Pass' = Pass
      OBVIOUS
    <3>1. SeqsOf("fresh-pass") \subseteq DOMAIN sh /\ SeqsOf("fresh-pass")' = Dest(sh, SeqsOf("fresh-pass"))
      BY <1>1, KindMoves
    <3>2. IsFiniteSet(SeqsOf("fresh-pass"))
      <4>1. SeqsOf("fresh-pass") \subseteq 1..Len(led) /\ Len(led) \in Nat
        BY DEF SeqsOf, IsLedger
      <4>2. IsFiniteSet(1..Len(led))
        BY <4>1, FS_Interval
      <4> QED
        BY <4>1, <4>2, FS_Subset
    <3>3. Cardinality(Dest(sh, SeqsOf("fresh-pass"))) = Cardinality(SeqsOf("fresh-pass"))
      BY <1>1, <3>1, <3>2, DestCounts DEF IsLedger
    <3> QED
      BY <3>1, <3>3 DEF Pass
  <2>4. ASSUME x.e = "pre-verdict-update", x.of = "capped", x.pass = Pass PROVE Capped'
    BY <1>2, <2>2, <2>3, <2>4
  <2>5. ASSUME x.e # "fresh-pass", ~(x.e = "pre-verdict-update" /\ x.of = "capped"), Capped PROVE Capped'
    <3>1. PICK k \in DOMAIN led : led[k].e = "pre-verdict-update" /\ led[k].of = "capped" /\ led[k].pass = Pass
      BY <2>2, <2>5
    <3>2. k \in DOMAIN sh
      <4>1. SUFFICES ASSUME k \notin DOMAIN sh PROVE FALSE
        OBVIOUS
      <4>2. Key(led[k]) = Key(x) /\ x.e = "pre-verdict-update" /\ StampShape(led[k]) /\ x.of # "capped"
        BY <1>3, <1>4, <2>5, <3>1, <4>1
      <4>3. led[k].nth = 1 /\ "nth" \in DOMAIN led[k]
        BY <3>1, <4>2 DEF StampShape
      <4>4. "nth" \in DOMAIN x /\ x.nth # 1
        BY <4>2 DEF StampShape
      <4> QED
        BY <4>2, <4>3, <4>4, KeyNumbers
    <3> QED
      BY <1>2, <2>2, <2>3, <2>5, <3>1, <3>2
  <2> QED
    BY <2>1, <2>4, <2>5 DEF CapReading
<1> QED
  BY <1>5, <1>6, <1>7 DEF ShaReading

LEMMA StampReads ==
  ASSUME IsLedger, Shaped, NEW x, StampShape(x), Stamp(x)
  PROVE  IsLedger' /\ Shaped' /\ Reads(x, Reading, Reading')
<1>1. IsLedger' /\ \A y \in Range(led') : y = x \/ y \in Range(led)
  BY StampShifts DEF IsLedger
<1>2. Shaped'
  BY <1>1 DEF Shaped, Range
<1> QED
  BY <1>1, <1>2, NewestRead, ShasRead DEF Reads

---------------------------------------------------------------------------
(* The definitions of the lane, of a reading v and a tree t.                 *)
CodeStands(v) == v.head \in v.greens \/ (CarriedFastPath(v.fast) /\ v.fast.sha = v.head)
Admits(v) == CodeStands(v) /\ v.admits
NamedIn(v, t) == t.sha = v.head \/ t.sha \in v.named \/ (CarriedFastPath(v.fast) /\ v.fast.sha = t.sha)
CutFast(v, t) == v.fast.e # "none" /\ v.fast.sha = t.sha /\ v.open
RecordsDone(v) == RecordsOwed => v.rendered /\ ~v.asked /\ v.admits

(* The gaps the property leaves out, and the tree it is about.               *)
Excused(v, d) == d \/ v.capped
IsBad(t) == t.code = "bad" \/ t.recs = "bad"

(* A merge of the update stage whose stamp is to come: it is on the way to   *)
(* the stamp, or the next passage of the stage finds it.                     *)
RoadToStamp == {"enter", "branch-update", "unmoved", "merged", "concluded", "stamp", "closed"}
Unrecorded(v, t, s, p) ==
  /\ s = "update" /\ v.holds /\ ~v.pending /\ ~v.failed /\ (CutFast(v, t) \/ ~v.owed)
  /\ ~NamedIn(v, t) /\ p.pc \in RoadToStamp

(* No stamp is of a later tree, and a sha that was judged or carried has     *)
(* code that stands.                                                         *)
StampsArePast(v, t) ==
  /\ v.head \in Nat /\ v.head <= t.sha /\ v.fast.sha \in Nat /\ v.fast.sha <= t.sha
  /\ \A sha \in v.greens \cup v.named : sha \in Nat /\ sha <= t.sha
ShasAreJudged(v, t, d) ==
  /\ t.sha \in v.greens => t.code # "bad"
  /\ CarriedFastPath(v.fast) /\ v.fast.sha = t.sha => Excused(v, d) \/ t.code # "bad"

(* What an unjudged code or record waits for.                                *)
CodeIsAsked(v, t, d, s, p) ==
  t.code = "bad" => Excused(v, d) \/ ~CodeStands(v) \/ v.pending \/ Unrecorded(v, t, s, p)
RecordsAreAsked(v, t, d, s, p) ==
  t.recs = "bad" =>
    /\ RecordsOwed
    /\ \/ Excused(v, d) \/ Unrecorded(v, t, s, p) \/ (CutFast(v, t) /\ v.fast.recs = "rerun")
       \/ ~v.rendered \/ v.asked \/ ~v.admits
AskedIsOwed(v, t, s, p) ==
  /\ v.asked => v.owed
  /\ ~v.admits => RecordsOwed /\ s = "reconcile" /\ ~v.asked /\ p.pc \in {"enter", "records", "fallback", "closed"}
  /\ RecordsOwed /\ ~v.rendered /\ s = "update" => t.code = "bad"

(* The token is behind an open request.  A fast path whose update is not     *)
(* stamped has the token, and its tree as the fast path left it.             *)
FastIsCut(v, t, d, s, p) ==
  /\ v.opened \/ p.pc = "opened" => v.holds
  /\ CutFast(v, t) => /\ s = "update" /\ v.holds /\ ~v.pending /\ ~v.asked /\ p.pc \in {"enter", "stamp", "closed"}
                      /\ ~Excused(v, d) /\ v.fast.recs # "rerun" => t.recs # "bad"

(* The ship stage pushes what is judged, or an excuse stands.                *)
ShipsJudged(v, t, d, s) == s = "ship" /\ IsBad(t) => Excused(v, d) \/ v.pending \/ v.gap \/ v.red

(* What each place has made sure of.                                         *)
MergePlaces == {"branch-update", "unmoved", "merged", "conflict", "concluded"}
WatchPlaces == {"watch", "red", "rerun", "cancelled", "triage", "triaged", "checkless", "no-merge", "rearm"}
FromFits(v, d, p) ==
  /\ p.was => Excused(v, d) \/ ~IsBad(p.from)
  /\ RecordsOwed /\ ~v.rendered => p.from.code = "bad"
  /\ p.from.recs = "bad" => RecordsOwed
OnUpdate(v, t, d, s, p) ==
  p.pc \in MergePlaces /\ s = "update" =>
    /\ ~v.pending /\ v.holds /\ ~v.owed
    /\ p.pc # "branch-update" => ~v.failed
    /\ p.pc = "unmoved" => (p.was <=> Admits(v))
    /\ p.pc \in {"conflict", "merged", "concluded"} => FromFits(v, d, p)
    /\ p.pc \in {"merged", "concluded"} => t.code = "bad"
OnStamp(v, t, s, p) ==
  p.pc = "stamp" =>
    /\ s = "update" /\ ~v.pending /\ ~v.asked
    /\ \/ CutFast(v, t) /\ p.ran /\ ~p.unnamed /\ p.code = v.fast.code /\ p.recs = v.fast.recs
       \/ ~CutFast(v, t) /\ (p.unnamed <=> ~p.ran) /\ p.code = "rejudge" /\ (v.rendered => p.recs = "rerun")
       \/ ~CutFast(v, t) /\ ~p.ran /\ ~p.unnamed /\ NamedIn(v, t) /\ p.code = "none" /\ p.recs = "none" /\ (p.was <=> Admits(v))
OnTheWay(v, t, d, s, p) ==
  /\ p.pc = "next" /\ p.to = "ship" => (IsBad(t) => Excused(v, d))
  /\ p.pc = "next" /\ p.to = "update" => RecordsDone(v)
  /\ p.pc = "back" => p.to \notin {"ship", "update"}
OnShip(v, s, p) ==
  /\ p.pc \in MergePlaces => s \in {"update", "ship"}
  /\ p.pc \in WatchPlaces \cup {"opened"} => s = "ship"
  /\ s = "ship" /\ p.pc \in MergePlaces \cup WatchPlaces => ~v.pending /\ ~v.red
  /\ p.pc \in {"records", "fallback"} => s = "reconcile" /\ RecordsOwed
  /\ p.pc = "fallback" => ~v.admits

Fits(v, t, d, s, p) ==
  /\ StampsArePast(v, t) /\ ShasAreJudged(v, t, d)
  /\ CodeIsAsked(v, t, d, s, p) /\ RecordsAreAsked(v, t, d, s, p) /\ AskedIsOwed(v, t, s, p)
  /\ FastIsCut(v, t, d, s, p) /\ ShipsJudged(v, t, d, s)
  /\ OnUpdate(v, t, d, s, p) /\ OnStamp(v, t, s, p) /\ OnTheWay(v, t, d, s, p) /\ OnShip(v, s, p)

(* What the state is made of, and all of it, as it is carried from step to   *)
(* step.                                                                     *)
Fielded == /\ "pc" \in DOMAIN at /\ "doubled" \in DOMAIN hist
           /\ {"sha", "base", "code", "recs"} \subseteq DOMAIN tree /\ tree.sha \in Nat \ {0}
LaneInv == IsLedger /\ Fielded /\ Shaped /\ Fits(Reading, tree, hist.doubled, stage, at)

---------------------------------------------------------------------------
(* The readings alone: what a step may do to them and to the place.          *)

(* A place that promises nothing.                                            *)
Plain(q) == /\ q.pc \notin MergePlaces \cup {"stamp", "next", "back", "records", "fallback", "opened"}
            /\ q.pc \notin WatchPlaces
Away(p) == p.pc \notin RoadToStamp \cup {"records", "fallback"}

(* A reading of a ledger that says the same, and excuses no less.            *)
SameReading(v, w) ==
  /\ v.head = w.head /\ v.greens = w.greens /\ v.named = w.named /\ v.fast = w.fast
  /\ (v.pending <=> w.pending) /\ (v.gap => w.gap) /\ (v.open <=> w.open) /\ (v.rendered <=> w.rendered)
  /\ (v.admits <=> w.admits) /\ (v.asked <=> w.asked) /\ (v.owed <=> w.owed) /\ (v.failed <=> w.failed)
  /\ (v.holds <=> w.holds) /\ (v.opened <=> w.opened) /\ (v.red <=> w.red) /\ (v.capped => w.capped)

LEMMA SameFits ==
  ASSUME NEW v, NEW w, NEW t, NEW d, NEW s, NEW p, Fits(v, t, d, s, p), SameReading(v, w)
  PROVE  Fits(w, t, d, s, p)
<1> USE DEF SameReading
<1>1. /\ CodeStands(v) <=> CodeStands(w)
      /\ NamedIn(v, t) <=> NamedIn(w, t)
      /\ CutFast(v, t) <=> CutFast(w, t)
      /\ Excused(v, d) => Excused(w, d)
      /\ RecordsDone(v) <=> RecordsDone(w)
  BY DEF CodeStands, NamedIn, CutFast, Excused, RecordsDone
<1>2. Unrecorded(v, t, s, p) <=> Unrecorded(w, t, s, p)
  BY <1>1 DEF Unrecorded
<1>3. StampsArePast(w, t) /\ ShasAreJudged(w, t, d)
  BY <1>1 DEF Fits, StampsArePast, ShasAreJudged
<1>4. CodeIsAsked(w, t, d, s, p) /\ RecordsAreAsked(w, t, d, s, p)
  BY <1>1, <1>2 DEF Fits, CodeIsAsked, RecordsAreAsked
<1>5. AskedIsOwed(w, t, s, p) /\ FastIsCut(w, t, d, s, p) /\ ShipsJudged(w, t, d, s)
  BY <1>1 DEF Fits, AskedIsOwed, FastIsCut, ShipsJudged
<1>6. OnUpdate(w, t, d, s, p) /\ OnStamp(w, t, s, p)
  BY <1>1 DEF Fits, OnUpdate, OnStamp, FromFits, Admits
<1>7. OnTheWay(w, t, d, s, p) /\ OnShip(w, s, p)
  BY <1>1 DEF Fits, OnTheWay, OnShip
<1> QED
  BY <1>3, <1>4, <1>5, <1>6, <1>7 DEF Fits

LEMMA PlaceFits ==
  ASSUME NEW v, NEW t, NEW d, NEW s, NEW p, NEW q, Fits(v, t, d, s, p),
         Unrecorded(v, t, s, p) => q.pc \in RoadToStamp,
         ~v.admits => q.pc \in {"enter", "records", "fallback", "closed"},
         q.pc = "opened" => v.holds,
         CutFast(v, t) => q.pc \in {"enter", "stamp", "closed"},
         OnUpdate(v, t, d, s, q), OnStamp(v, t, s, q), OnTheWay(v, t, d, s, q), OnShip(v, s, q)
  PROVE  Fits(v, t, d, s, q)
<1>1. Unrecorded(v, t, s, p) => Unrecorded(v, t, s, q)
  BY DEF Unrecorded
<1>2. CodeIsAsked(v, t, d, s, q) /\ RecordsAreAsked(v, t, d, s, q)
  BY <1>1 DEF Fits, CodeIsAsked, RecordsAreAsked
<1>3. AskedIsOwed(v, t, s, q) /\ FastIsCut(v, t, d, s, q)
  BY DEF Fits, AskedIsOwed, FastIsCut
<1> QED
  BY <1>2, <1>3 DEF Fits

LEMMA PlainFits ==
  ASSUME NEW v, NEW t, NEW d, NEW s, NEW q, Plain(q)
  PROVE  OnUpdate(v, t, d, s, q) /\ OnStamp(v, t, s, q) /\ OnTheWay(v, t, d, s, q) /\ OnShip(v, s, q) /\ q.pc # "opened"
BY DEF Plain, OnUpdate, OnStamp, OnTheWay, OnShip

(* Off the road to a stamp nothing waits on the place.                       *)
LEMMA AwayFits ==
  ASSUME NEW v, NEW t, NEW d, NEW s, NEW p, Fits(v, t, d, s, p), Away(p)
  PROVE  ~Unrecorded(v, t, s, p) /\ v.admits /\ ~CutFast(v, t)
BY DEF Fits, Away, Unrecorded, AskedIsOwed, FastIsCut, RoadToStamp

(* Nor does it outside the update stage and the records.                     *)
LEMMA ElsewhereFits ==
  ASSUME NEW v, NEW t, NEW d, NEW s, NEW p, Fits(v, t, d, s, p), s # "update"
  PROVE  ~Unrecorded(v, t, s, p) /\ ~CutFast(v, t) /\ (s # "reconcile" => v.admits)
BY DEF Fits, Unrecorded, AskedIsOwed, FastIsCut

(* What a stop or an abandon leaves.                                         *)
LEMMA RestFits ==
  ASSUME NEW v, NEW t, NEW d, NEW s, NEW p, NEW q, Fits(v, t, d, s, p), q.pc \in {"enter", "closed"}
  PROVE  Fits(v, t, d, s, q)
<1>1. Plain(q) /\ q.pc \in RoadToStamp
  BY DEF Plain, MergePlaces, WatchPlaces, RoadToStamp
<1> QED
  BY <1>1, PlainFits, PlaceFits

LEMMA LeavesFits ==
  ASSUME NEW v, NEW t, NEW d, NEW s, NEW p, NEW q, Fits(v, t, d, s, p), Away(p), Plain(q)
  PROVE  Fits(v, t, d, s, q)
BY AwayFits, PlainFits, PlaceFits

(* What is read after a verdict: only what it rules on.                      *)
Ruled(x, v, w) ==
  /\ v.head = w.head /\ v.named = w.named /\ v.fast = w.fast
  /\ (v.pending <=> w.pending) /\ (v.open <=> w.open) /\ (v.rendered <=> w.rendered)
  /\ (v.admits <=> w.admits) /\ (v.asked <=> w.asked) /\ (v.owed <=> w.owed) /\ (v.failed <=> w.failed)
  /\ (v.holds <=> w.holds) /\ (v.opened <=> w.opened) /\ (v.capped => w.capped)
  /\ w.greens = (IF x.of = "green" THEN v.greens \cup {x.sha} ELSE v.greens)
  /\ (w.red <=> x.of = "red")

LEMMA VerdictReads ==
  ASSUME NEW v, NEW w, NEW x, x.e = "verdict-rendered", Reads(x, v, w)
  PROVE  Ruled(x, v, w)
<1>1. ~Moving(x) /\ x.e \notin NamingKinds
  BY DEF Moving, NamingKinds
<1> HIDE DEF Moving
<1> QED
  BY <1>1 DEF Reads, PassReading, CodeReading, RecordsReading, AskReading, TokenReading, ShaReading, CapReading, Ruled

(* A red changes nothing but that it stands.                                 *)
LEMMA RedFits ==
  ASSUME NEW v, NEW w, NEW x, NEW t, NEW d, NEW s, NEW p, NEW q, Fits(v, t, d, s, p), Away(p) \/ s \notin {"update", "reconcile"},
         x.e = "verdict-rendered", x.of = "red", Reads(x, v, w), Plain(q) \/ q = To("verdict")
  PROVE  Fits(w, t, d, s, q)
<1>1. Ruled(x, v, w) /\ w.red /\ w.greens = v.greens
  BY VerdictReads DEF Ruled
<1>2. ~Unrecorded(v, t, s, p) /\ v.admits /\ ~CutFast(v, t)
  BY AwayFits, ElsewhereFits
<1>3. /\ CodeStands(v) <=> CodeStands(w)
      /\ NamedIn(v, t) <=> NamedIn(w, t)
      /\ CutFast(v, t) <=> CutFast(w, t)
      /\ Excused(v, d) => Excused(w, d)
      /\ w.admits /\ (v.asked <=> w.asked) /\ (v.owed <=> w.owed) /\ (v.rendered <=> w.rendered) /\ (v.pending <=> w.pending)
  BY <1>1, <1>2 DEF CodeStands, NamedIn, CutFast, Excused, Ruled
<1>4. StampsArePast(w, t) /\ ShasAreJudged(w, t, d)
  BY <1>1, <1>3 DEF Fits, StampsArePast, ShasAreJudged, Ruled
<1>5. CodeIsAsked(w, t, d, s, q) /\ RecordsAreAsked(w, t, d, s, q)
  BY <1>2, <1>3 DEF Fits, CodeIsAsked, RecordsAreAsked
<1>6. q.pc # "opened" /\ OnUpdate(w, t, d, s, q) /\ OnStamp(w, t, s, q) /\ OnTheWay(w, t, d, s, q) /\ OnShip(w, s, q)
  <2>1. CASE Plain(q)
    BY <2>1, PlainFits
  <2>2. CASE q = To("verdict")
    <3>1. q.pc = "next" /\ q.to = "verdict"
      BY <2>2 DEF To
    <3> QED
      BY <3>1 DEF OnUpdate, OnStamp, OnTheWay, OnShip, MergePlaces, WatchPlaces
  <2> QED
    BY <2>1, <2>2
<1>7. AskedIsOwed(w, t, s, q) /\ FastIsCut(w, t, d, s, q)
  BY <1>1, <1>2, <1>3, <1>6 DEF Fits, AskedIsOwed, FastIsCut, Ruled
<1>8. ShipsJudged(w, t, d, s)
  BY <1>1 DEF ShipsJudged
<1> QED
  BY <1>4, <1>5, <1>6, <1>7, <1>8 DEF Fits

---------------------------------------------------------------------------
(* The steps of the lane again, by what they do to the reading.              *)
LEMMA ReadingKept == ASSUME UNCHANGED led PROVE Reading' = Reading
<1>1. /\ \A e : SeqsOf(e)' = SeqsOf(e)
      /\ \A e, of : Seqs(e, of)' = Seqs(e, of)
      /\ HeadMoves' = HeadMoves /\ Asks' = Asks /\ Naming' = Naming
  BY DEF SeqsOf, Seqs, HeadMoves, MovedUpdates, Asks, Naming
<1>2. \A S : Newest(S)' = Newest(S)
  BY DEF Newest
<1>3. FreshPass' = FreshPass /\ LastRender' = LastRender /\ Pass' = Pass
  BY <1>1 DEF FreshPass, LastRender, Pass, Newest
<1>4. Rendered' = Rendered /\ Fallback' = Fallback /\ RerunAsked' = RerunAsked
      /\ Newest(SinceFreshPass(UpdateAsks))' = Newest(SinceFreshPass(UpdateAsks))
  BY <1>1, <1>3 DEF Rendered, Fallback, RerunAsked, SinceFreshPass, Newest, UpdateAsks
<1>5. Pending' = Pending /\ CodeHead' = CodeHead /\ Fast' = Fast /\ RecordsAdmit' = RecordsAdmit /\ RerunOwed' = RerunOwed
  BY <1>1, <1>3, <1>4 DEF Pending, CodeHead, Fast, RecordsAdmit, RecordsCertified, RerunOwed, NewestOf, After, Newest
<1>6. FailedRound' = FailedRound /\ HoldsToken' = HoldsToken /\ Opened' = Opened /\ RedStands' = RedStands /\ Capped' = Capped
  BY <1>1, <1>3 DEF FailedRound, HoldsToken, Token, Opened, RedStands, LastVerdict, SweepSkipped, Capped, NewestOf, After, Newest
<1>7. /\ {led[i].sha : i \in Greens}' = {led[i].sha : i \in Greens}
      /\ {led[i].sha : i \in Naming}' = {led[i].sha : i \in Naming}
  BY <1>1 DEF Greens
<1>8. /\ (FreshPass > 0 /\ After(Seqs("implementation-committed", "fresh"), LastRender))'
           = (FreshPass > 0 /\ After(Seqs("implementation-committed", "fresh"), LastRender))
      /\ (~After(SeqsOf("pre-verdict-update"), Newest(SeqsOf("fast-path-ship"))))'
           = ~After(SeqsOf("pre-verdict-update"), Newest(SeqsOf("fast-path-ship")))
  BY <1>1, <1>3 DEF After, Newest
<1> QED
  BY <1>4, <1>5, <1>6, <1>7, <1>8 DEF Reading

(* What a step leaves of the rest.                                           *)
HistKept == hist'.doubled = hist.doubled /\ "doubled" \in DOMAIN hist'

LEMMA KeptFits ==
  ASSUME LaneInv, UNCHANGED led, Fielded', Fits(Reading, tree', hist'.doubled, stage', at')
  PROVE  LaneInv'
<1>1. Reading' = Reading /\ IsLedger' /\ Shaped'
  BY ReadingKept DEF LaneInv, IsLedger, Shaped
<1> QED
  BY <1>1 DEF LaneInv

LEMMA StampFits ==
  ASSUME LaneInv, NEW x, StampShape(x), Stamp(x), Fielded', Fits(Reading', tree', hist'.doubled, stage', at')
  PROVE  LaneInv'
BY StampReads DEF LaneInv

LEMMA GoFits ==
  ASSUME LaneInv, NEW q, Go(q), UNCHANGED <<tree, stage>>, HistKept \/ UNCHANGED hist, "pc" \in DOMAIN q,
         Fits(Reading, tree, hist.doubled, stage, q)
  PROVE  LaneInv'
<1>1. Fielded' /\ UNCHANGED led /\ hist'.doubled = hist.doubled /\ at' = q /\ tree' = tree /\ stage' = stage
  BY DEF LaneInv, Fielded, HistKept, Go
<1> QED
  BY <1>1, KeptFits

(* A stamp of a kind the reading leaves out.                                 *)
ReadKinds == {"fresh-pass", "implementation-committed", "verdict-rendered", "reconciliation-written", "fast-path-ship",
              "pre-verdict-update", "ship-token", "pr-opened"} \cup NamingKinds
Silent(x) == /\ StampShape(x) /\ x.e \notin ReadKinds
             /\ ~(x.e = "merge-round" /\ x.of = "failed") /\ ~(x.e = "operational-fix" /\ x.of = "sweep")

LEMMA SilentReads ==
  ASSUME IsLedger, Shaped, NEW x, Silent(x), Stamp(x)
  PROVE  SameReading(Reading, Reading')
<1>1. Reads(x, Reading, Reading') /\ ~Moving(x) /\ x.e \notin ReadKinds
      /\ ~(x.e = "merge-round" /\ x.of = "failed") /\ ~(x.e = "operational-fix" /\ x.of = "sweep")
  BY StampReads DEF Silent, Moving, ReadKinds
<1> HIDE DEF Reading
<1>2. x.e \notin NamingKinds /\ x.e \notin {"fresh-pass", "implementation-committed", "verdict-rendered", "reconciliation-written",
        "fast-path-ship", "pre-verdict-update", "ship-token", "pr-opened", "reconcile-rendered"}
  BY <1>1 DEF ReadKinds, NamingKinds
<1> QED
  BY <1>1, <1>2 DEF Reads, PassReading, CodeReading, RecordsReading, AskReading, TokenReading, ShaReading, CapReading, SameReading

LEMMA SilentFits ==
  ASSUME LaneInv, NEW x, Silent(x), NEW q, StampAndGo(x, q), UNCHANGED <<tree, stage>>, HistKept \/ UNCHANGED hist,
         "pc" \in DOMAIN q, Fits(Reading, tree, hist.doubled, stage, q)
  PROVE  LaneInv'
<1>1. Fielded' /\ Stamp(x) /\ hist'.doubled = hist.doubled /\ at' = q /\ tree' = tree /\ stage' = stage
  BY DEF LaneInv, Fielded, HistKept, StampAndGo
<1>2. SameReading(Reading, Reading')
  BY <1>1, SilentReads DEF LaneInv
<1>3. Fits(Reading', tree, hist.doubled, stage, q)
  BY <1>2, SameFits
<1> QED
  BY <1>1, <1>3, StampFits DEF Silent

(* The stamps by their kinds.                                                *)
LEMMA StampsAreShaped ==
  /\ \A e, of, why : e \notin {"verdict-rendered", "fast-path-ship", "pre-verdict-update"} => StampShape(Event(e, of, why))
  /\ \A e, of, sha : e \notin {"verdict-rendered", "fast-path-ship", "pre-verdict-update"} => StampShape(Sha(e, of, sha))
  /\ \A phase, nth, sha : StampShape(Implementation(phase, nth, sha))
  /\ \A sha : StampShape(CiRed(sha))
<1>1. \A e, of, why : e \notin {"verdict-rendered", "fast-path-ship", "pre-verdict-update"} => StampShape(Event(e, of, why))
  BY DEF StampShape, Event
<1>2. \A e, of, sha : e \notin {"verdict-rendered", "fast-path-ship", "pre-verdict-update"} => StampShape(Sha(e, of, sha))
  <2> SUFFICES ASSUME NEW e, NEW of, NEW sha, e \notin {"verdict-rendered", "fast-path-ship", "pre-verdict-update"}
               PROVE  StampShape(Sha(e, of, sha))
    OBVIOUS
  <2>1. Sha(e, of, sha).e = e /\ "nth" \notin DOMAIN Sha(e, of, sha)
    BY DEF Sha
  <2> QED
    BY <2>1 DEF StampShape
<1>3. \A phase, nth, sha : StampShape(Implementation(phase, nth, sha))
  BY DEF StampShape, Unnumbered, Implementation
<1>4. \A sha : StampShape(CiRed(sha))
  BY DEF StampShape, Unnumbered, CiRed
<1> QED
  BY <1>1, <1>2, <1>3, <1>4

LEMMA StampsAreSilent ==
  /\ \A e, of, why : e \notin ReadKinds \cup {"merge-round", "operational-fix"} => Silent(Event(e, of, why))
  /\ \A e, of, sha : e \notin ReadKinds \cup {"merge-round", "operational-fix"} => Silent(Sha(e, of, sha))
  /\ \A of, sha : of # "failed" => Silent(Sha("merge-round", of, sha))
  /\ \A of, sha : of # "sweep" => Silent(Sha("operational-fix", of, sha))
<1>1. /\ \A e, of, why : e \notin ReadKinds => StampShape(Event(e, of, why)) /\ Event(e, of, why).e = e
      /\ \A e, of, sha : e \notin ReadKinds => StampShape(Sha(e, of, sha)) /\ Sha(e, of, sha).e = e /\ Sha(e, of, sha).of = of
  BY StampsAreShaped DEF ReadKinds, Event, Sha
<1>2. "merge-round" \notin ReadKinds /\ "operational-fix" \notin ReadKinds
  BY DEF ReadKinds, NamingKinds
<1> QED
  BY <1>1, <1>2 DEF Silent

LEMMA WatchFits ==
  ASSUME LaneInv, WatchStep
  PROVE  LaneInv'
<1> USE DEF Watch, WatchStamp
<1>0. Fits(Reading, tree, hist.doubled, stage, at) /\ "pc" \in DOMAIN at /\ "doubled" \in DOMAIN hist
  BY DEF LaneInv, Fielded
<1> HIDE DEF Reading
<1>1. ASSUME NEW q, "pc" \in DOMAIN q, Away(at), Plain(q) \/ (q.pc \in WatchPlaces /\ at.pc \in WatchPlaces)
      PROVE  Fits(Reading, tree, hist.doubled, stage, q)
  <2>1. CASE Plain(q)
    BY <1>0, <1>1, <2>1, LeavesFits
  <2>2. CASE q.pc \in WatchPlaces /\ at.pc \in WatchPlaces
    <3>1. OnShip(Reading, stage, at)
      BY <1>0 DEF Fits
    <3>2. q.pc \notin MergePlaces \cup {"stamp", "next", "back", "records", "fallback", "opened"}
      BY <2>2 DEF MergePlaces, WatchPlaces
    <3>3. /\ OnUpdate(Reading, tree, hist.doubled, stage, q) /\ OnStamp(Reading, tree, stage, q)
          /\ OnTheWay(Reading, tree, hist.doubled, stage, q)
      BY <3>2 DEF OnUpdate, OnStamp, OnTheWay
    <3>4. OnShip(Reading, stage, q)
      BY <2>2, <3>1, <3>2 DEF OnShip
    <3> QED
      BY <1>0, <1>1, <3>2, <3>3, <3>4, AwayFits, PlaceFits
  <2> QED
    BY <1>1, <2>1, <2>2
<1>2. \A pc \in WatchPlaces : Away(at) \/ at.pc # pc
  BY DEF Away, WatchPlaces, RoadToStamp
<1>3. /\ \A pc \in WatchPlaces : "pc" \in DOMAIN Pc(pc) /\ Pc(pc).pc = pc
      /\ "pc" \in DOMAIN Pc("enter") /\ Plain(Pc("enter"))
      /\ \A type, why : /\ "pc" \in DOMAIN Ask(type, why) /\ Plain(Ask(type, why))
                        /\ "pc" \in DOMAIN Recover(type, why) /\ Plain(Recover(type, why))
      /\ \A seat : "pc" \in DOMAIN SeatFail(seat) /\ Plain(SeatFail(seat))
  BY DEF Pc, Ask, Recover, SeatFail, Plain, MergePlaces, WatchPlaces
<1>4. ASSUME NEW q, Go(q), UNCHANGED <<tree, stage>>, HistKept \/ UNCHANGED hist, at.pc \in WatchPlaces,
             "pc" \in DOMAIN q, Plain(q) \/ q.pc \in WatchPlaces
      PROVE  LaneInv'
  BY <1>1, <1>2, <1>4, GoFits
<1>5. ASSUME NEW x, NEW q, Silent(x), StampAndGo(x, q), UNCHANGED <<tree, stage>>, HistKept \/ UNCHANGED hist, at.pc \in WatchPlaces,
             "pc" \in DOMAIN q, Plain(q) \/ q.pc \in WatchPlaces
      PROVE  LaneInv'
  BY <1>1, <1>2, <1>5, SilentFits
<1>6. CASE Observe
  <2>1. at.pc \in WatchPlaces /\ StampAndGo(Sha("check-transition", Request.run, Request.head), at) /\ UNCHANGED <<tree, stage, hist>>
    BY <1>6 DEF Observe, WatchPlaces
  <2>2. Silent(Sha("check-transition", Request.run, Request.head))
    BY StampsAreSilent DEF ReadKinds, NamingKinds
  <2> QED
    BY <1>0, <1>5, <2>1, <2>2
<1>7. CASE StampRerun
  <2>1. at.pc \in WatchPlaces /\ StampAndGo(Sha("check-transition", "rerun-requested", tree.sha), Pc("watch")) /\ UNCHANGED <<tree, stage, hist>>
    BY <1>7 DEF StampRerun, WatchPlaces
  <2>2. Silent(Sha("check-transition", "rerun-requested", tree.sha))
    BY StampsAreSilent DEF ReadKinds, NamingKinds
  <2>3. "watch" \in WatchPlaces
    BY DEF WatchPlaces
  <2> QED
    BY <1>3, <1>5, <2>1, <2>2, <2>3
<1>8. CASE WatchChecks
  <2>1. at.pc \in WatchPlaces /\ UNCHANGED <<tree, stage, hist>> /\ \E pc \in WatchPlaces : Go(Pc(pc))
    BY <1>8 DEF WatchChecks, WatchPlaces
  <2> QED
    BY <1>3, <1>4, <2>1
<1>9. CASE PollAgain
  <2>1. at.pc \in WatchPlaces /\ UNCHANGED <<tree, stage, hist>> /\ Go(Pc("enter"))
    BY <1>9 DEF PollAgain, WatchPlaces
  <2> QED
    BY <1>3, <1>4, <2>1
<1>10. CASE HandleRed
  <2>1. at.pc \in WatchPlaces /\ UNCHANGED <<tree, stage>> /\ (HistKept \/ UNCHANGED hist) /\ \E pc \in WatchPlaces : Go(Pc(pc))
    BY <1>0, <1>10 DEF HandleRed, WatchPlaces, HistKept, Go
  <2> QED
    BY <1>3, <1>4, <2>1
<1>11. CASE HandleCancelled \/ CiTriage
  <2>1. at.pc \in WatchPlaces /\ UNCHANGED <<tree, stage, hist>> /\ \E pc \in WatchPlaces : Go(Pc(pc))
    BY <1>11 DEF HandleCancelled, CiTriage, WatchPlaces
  <2> QED
    BY <1>3, <1>4, <2>1
<1>12. CASE TriageFails
  <2>1. at.pc \in WatchPlaces /\ UNCHANGED <<tree, stage, hist>> /\ Go(SeatFail("triage"))
    BY <1>12 DEF TriageFails, WatchPlaces
  <2> QED
    BY <1>3, <1>4, <2>1
<1>13. CASE Checkless
  <2>1. at.pc = "checkless" /\ at.pc \in WatchPlaces /\ UNCHANGED <<tree, stage>>
    BY <1>13 DEF Checkless, WatchPlaces
  <2>2. CASE FixOpen("check-redelivery")
    <3>1. StampAndGo(Operational("check-redelivery", Request.head), Pc("branch-update")) /\ HistKept
      BY <1>0, <1>13, <2>2 DEF Checkless, HistKept
    <3>2. Silent(Operational("check-redelivery", Request.head))
      BY StampsAreSilent DEF Operational
    <3>3. Fits(Reading, tree, hist.doubled, stage, Pc("branch-update"))
      <4>1. Away(at)
        BY <1>2, <2>1
      <4>2. ~Unrecorded(Reading, tree, stage, at) /\ Reading.admits /\ ~CutFast(Reading, tree)
        BY <1>0, <4>1, AwayFits
      <4>3. stage = "ship" /\ ~Reading.pending /\ ~Reading.red
        BY <1>0, <2>1 DEF Fits, OnShip
      <4>4. Pc("branch-update").pc = "branch-update"
        BY DEF Pc
      <4>5. /\ OnUpdate(Reading, tree, hist.doubled, stage, Pc("branch-update")) /\ OnStamp(Reading, tree, stage, Pc("branch-update"))
            /\ OnTheWay(Reading, tree, hist.doubled, stage, Pc("branch-update")) /\ OnShip(Reading, stage, Pc("branch-update"))
        BY <4>3, <4>4 DEF OnUpdate, OnStamp, OnTheWay, OnShip, WatchPlaces
      <4> QED
        BY <1>0, <4>2, <4>4, <4>5, PlaceFits
    <3> QED
      BY <2>1, <3>1, <3>2, <3>3, SilentFits DEF Pc
  <2>3. CASE ~FixOpen("check-redelivery")
    <3>1. Go(Ask("provisioning-gate", "checkless")) /\ UNCHANGED hist
      BY <1>13, <2>3 DEF Checkless
    <3> QED
      BY <1>3, <1>4, <2>1, <3>1
  <2> QED
    BY <2>2, <2>3
<1>14. CASE GreenNoMerge
  <2>1. at.pc \in WatchPlaces /\ UNCHANGED <<tree, stage>> /\ "rearm" \in WatchPlaces
    BY <1>14 DEF GreenNoMerge, WatchPlaces
  <2>2. CASE FixOpen("auto-merge-rearm")
    <3>1. StampAndGo(Operational("auto-merge-rearm", Request.head), Pc("rearm")) /\ HistKept
      BY <1>0, <1>14, <2>2 DEF GreenNoMerge, HistKept
    <3>2. Silent(Operational("auto-merge-rearm", Request.head))
      BY StampsAreSilent DEF Operational
    <3> QED
      BY <1>3, <1>5, <2>1, <3>1, <3>2
  <2>3. CASE ~FixOpen("auto-merge-rearm")
    <3>1. Go(Ask("provisioning-gate", "no-merge")) /\ UNCHANGED hist
      BY <1>14, <2>3 DEF GreenNoMerge
    <3> QED
      BY <1>3, <1>4, <2>1, <3>1
  <2> QED
    BY <2>2, <2>3
<1>15. CASE Rearm
  <2>1. at.pc \in WatchPlaces /\ UNCHANGED <<tree, stage, hist>> /\ "watch" \in WatchPlaces
        /\ (Go(Pc("watch")) \/ Go(Ask("provisioning-gate", "no-merge")))
    BY <1>15 DEF Rearm, WatchPlaces, Go
  <2> QED
    BY <1>3, <1>4, <2>1
<1>16. CASE TriageRenders
  <2>1. at.pc = "triaged" /\ at.pc \in WatchPlaces /\ UNCHANGED <<tree, stage, hist>> /\ Stamp(CiRed(tree.sha)) /\ at' = To("verdict")
    BY <1>16 DEF TriageRenders, WatchPlaces, StampAndGo, To
  <2>2. StampShape(CiRed(tree.sha)) /\ CiRed(tree.sha).e = "verdict-rendered" /\ CiRed(tree.sha).of = "red"
    BY StampsAreShaped DEF CiRed
  <2>3. Fits(Reading', tree, hist.doubled, stage, To("verdict"))
    <3>1. Reads(CiRed(tree.sha), Reading, Reading')
      BY <2>1, <2>2, StampReads DEF LaneInv
    <3>2. Away(at) /\ stage = "ship"
      BY <1>0, <1>2, <2>1 DEF Fits, OnShip
    <3> QED
      BY <1>0, <2>2, <3>1, <3>2, RedFits
  <2>4. Fielded'
    BY <2>1 DEF LaneInv, Fielded, To
  <2> QED
    BY <2>1, <2>2, <2>3, <2>4, StampFits
<1> QED
  BY <1>6, <1>7, <1>8, <1>9, <1>10, <1>11, <1>12, <1>13, <1>14, <1>15, <1>16 DEF WatchStep

---------------------------------------------------------------------------
(* What the handlers ask of the ledger is what is read of it.                *)
LEMMA Asked ==
  /\ (HoldsToken <=> Reading.holds) /\ (Opened <=> Reading.opened) /\ (Pending <=> Reading.pending)
  /\ (RecordsAdmit <=> Reading.admits) /\ (RerunOwed <=> Reading.owed) /\ (FailedRound > 0 <=> Reading.failed)
  /\ (RedStands <=> Reading.red) /\ (Capped <=> Reading.capped) /\ (Rendered > 0 <=> Reading.rendered)
  /\ CodeHead = Reading.head /\ Fast = Reading.fast
  /\ (CodeTreeOk <=> CodeStands(Reading)) /\ (Admitted <=> Admits(Reading))
  /\ (Named <=> NamedIn(Reading, tree)) /\ (InterruptedFastPath <=> CutFast(Reading, tree))
<1>1. /\ (HoldsToken <=> Reading.holds) /\ (Opened <=> Reading.opened) /\ (Pending <=> Reading.pending)
      /\ (RecordsAdmit <=> Reading.admits) /\ (RerunOwed <=> Reading.owed) /\ (FailedRound > 0 <=> Reading.failed)
      /\ (RedStands <=> Reading.red) /\ (Capped <=> Reading.capped) /\ (Rendered > 0 <=> Reading.rendered)
      /\ CodeHead = Reading.head /\ Fast = Reading.fast
  BY DEF Reading
<1>2. Reading.greens = {led[i].sha : i \in Greens} /\ Reading.named = {led[i].sha : i \in Naming}
      /\ (Reading.open <=> ~After(SeqsOf("pre-verdict-update"), Newest(SeqsOf("fast-path-ship"))))
  BY DEF Reading
<1> HIDE DEF Reading
<1>3. CodeTreeOk <=> CodeStands(Reading)
  BY <1>1, <1>2 DEF CodeTreeOk, CodeStands
<1>4. Named <=> NamedIn(Reading, tree)
  <2>1. (\E e \in NamingKinds : \E i \in SeqsOf(e) : led[i].sha = tree.sha) <=> tree.sha \in Reading.named
    BY <1>2 DEF Naming, SeqsOf
  <2> QED
    BY <1>1, <2>1 DEF Named, NamedIn, NamingKinds
<1>5. InterruptedFastPath <=> CutFast(Reading, tree)
  BY <1>1, <1>2 DEF InterruptedFastPath, CutFast
<1> QED
  BY <1>1, <1>3, <1>4, <1>5 DEF Admitted, Admits

(* Nothing waits on the place.                                               *)
Calm(v, t, s, p) == ~Unrecorded(v, t, s, p) /\ v.admits /\ ~CutFast(v, t)
LEMMA CalmIs ==
  ASSUME NEW v, NEW t, NEW d, NEW s, NEW p, Fits(v, t, d, s, p)
  PROVE  (Away(p) => Calm(v, t, s, p)) /\ (s \notin {"update", "reconcile"} => Calm(v, t, s, p))
BY AwayFits, ElsewhereFits DEF Calm

(* A place on the way to another stage.                                      *)
Way(v, t, d, q) ==
  /\ q.pc \in {"next", "back"} /\ "to" \in DOMAIN q
  /\ q.pc = "next" /\ q.to = "ship" => (IsBad(t) => Excused(v, d))
  /\ q.pc = "next" /\ q.to = "update" => RecordsDone(v)
  /\ q.pc = "back" => q.to \notin {"ship", "update"}
LEMMA WayIs ==
  ASSUME NEW v, NEW t, NEW d, NEW s, NEW q, Way(v, t, d, q)
  PROVE  OnUpdate(v, t, d, s, q) /\ OnStamp(v, t, s, q) /\ OnTheWay(v, t, d, s, q) /\ OnShip(v, s, q) /\ q.pc # "opened"
BY DEF Way, OnUpdate, OnStamp, OnTheWay, OnShip, MergePlaces, WatchPlaces

LEMMA CalmFits ==
  ASSUME NEW v, NEW t, NEW d, NEW s, NEW p, NEW q, Fits(v, t, d, s, p), Calm(v, t, s, p), Plain(q) \/ Way(v, t, d, q)
  PROVE  Fits(v, t, d, s, q)
<1>1. OnUpdate(v, t, d, s, q) /\ OnStamp(v, t, s, q) /\ OnTheWay(v, t, d, s, q) /\ OnShip(v, s, q) /\ q.pc # "opened"
  BY PlainFits, WayIs
<1> QED
  BY <1>1, PlaceFits DEF Calm

(* The places the handlers name.                                             *)
LEMMA PlacesAre ==
  /\ \A s : To(s).pc = "next" /\ To(s).to = s /\ DOMAIN To(s) = {"pc", "to"}
  /\ \A s, why : Back(s, why).pc = "back" /\ Back(s, why).to = s /\ DOMAIN Back(s, why) = {"pc", "to", "why"}
  /\ \A pc : Pc(pc).pc = pc /\ DOMAIN Pc(pc) = {"pc"}
  /\ \A type, why : /\ Ask(type, why).pc = "ask" /\ "pc" \in DOMAIN Ask(type, why) /\ Plain(Ask(type, why))
                    /\ "pc" \in DOMAIN Recover(type, why) /\ Plain(Recover(type, why)) /\ Recover(type, why).pc \in {"ask", "closed"}
  /\ \A seat : "pc" \in DOMAIN SeatFail(seat) /\ Plain(SeatFail(seat)) /\ SeatFail(seat).pc \in {"ask", "closed"}
  /\ \A reason : "pc" \in DOMAIN Blocked(reason) /\ Plain(Blocked(reason)) /\ Blocked(reason).pc \in {"ask", "closed"}
  /\ \A pc \in {"enter", "closed", "parked", "fresh-pass", "fresh-seat", "verdict-seat", "merge-stall"} : Plain(Pc(pc))
BY DEF To, Back, Pc, Ask, Recover, SeatFail, Blocked, Plain, MergePlaces, WatchPlaces

(* A token taken or given back, a merge that failed, a request opened.       *)
TokenMoved(v, w) ==
  /\ v.head = w.head /\ v.greens = w.greens /\ v.named = w.named /\ v.fast = w.fast
  /\ (v.pending <=> w.pending) /\ (v.gap => w.gap) /\ (v.open <=> w.open) /\ (v.rendered <=> w.rendered)
  /\ (v.admits <=> w.admits) /\ (v.asked <=> w.asked) /\ (v.owed <=> w.owed)
  /\ (v.red <=> w.red) /\ (v.capped => w.capped)
LEMMA TokenReads ==
  ASSUME NEW v, NEW w, NEW x, x.e \in {"ship-token", "merge-round", "pr-opened"}, Reads(x, v, w)
  PROVE  /\ TokenMoved(v, w)
         /\ x.e = "ship-token" => (w.holds <=> x.of = "acquired")
         /\ x.e # "ship-token" => (w.holds <=> v.holds)
         /\ x.e # "pr-opened" => (w.opened <=> v.opened)
<1>1. ~Moving(x) /\ x.e \notin NamingKinds
  BY DEF Moving, NamingKinds
<1> HIDE DEF Moving
<1> QED
  BY <1>1 DEF Reads, PassReading, CodeReading, RecordsReading, AskReading, TokenReading, ShaReading, CapReading, TokenMoved

LEMMA TokenFits ==
  ASSUME NEW v, NEW w, NEW t, NEW d, NEW s, NEW p, NEW q, Fits(v, t, d, s, p), Calm(v, t, s, p), w.opened => w.holds,
         TokenMoved(v, w), Plain(q) \/ Way(v, t, d, q)
  PROVE  Fits(w, t, d, s, q)
<1>1. /\ CodeStands(v) <=> CodeStands(w)
      /\ NamedIn(v, t) <=> NamedIn(w, t)
      /\ CutFast(v, t) <=> CutFast(w, t)
      /\ Excused(v, d) => Excused(w, d)
      /\ RecordsDone(v) <=> RecordsDone(w)
  BY DEF CodeStands, NamedIn, CutFast, Excused, RecordsDone, TokenMoved
<1>2. ~Unrecorded(v, t, s, p) /\ v.admits /\ ~CutFast(v, t)
  BY DEF Calm
<1>3. StampsArePast(w, t) /\ ShasAreJudged(w, t, d)
  BY <1>1 DEF Fits, StampsArePast, ShasAreJudged, TokenMoved
<1>4. CodeIsAsked(w, t, d, s, q) /\ RecordsAreAsked(w, t, d, s, q)
  BY <1>1, <1>2 DEF Fits, CodeIsAsked, RecordsAreAsked, TokenMoved
<1>5. OnUpdate(w, t, d, s, q) /\ OnStamp(w, t, s, q) /\ OnTheWay(w, t, d, s, q) /\ OnShip(w, s, q) /\ q.pc # "opened"
  <2>1. Plain(q) \/ Way(w, t, d, q)
    BY <1>1 DEF Way
  <2> QED
    BY <2>1, PlainFits, WayIs
<1>6. AskedIsOwed(w, t, s, q) /\ FastIsCut(w, t, d, s, q) /\ ShipsJudged(w, t, d, s)
  BY <1>1, <1>2, <1>5 DEF Fits, AskedIsOwed, FastIsCut, ShipsJudged, TokenMoved
<1> QED
  BY <1>3, <1>4, <1>5, <1>6 DEF Fits

(* The stage the run goes on to.                                             *)
LEMMA NextFits ==
  ASSUME NEW v, NEW t, NEW d, NEW s, NEW p, Fits(v, t, d, s, p), p.pc = "next"
  PROVE  Fits(v, t, d, p.to, Pc("enter"))
<1> DEFINE q == Pc("enter")
<1>0. Plain(q) /\ q.pc = "enter"
  BY PlacesAre
<1> HIDE DEF q
<1>1. ~Unrecorded(v, t, s, p) /\ v.admits /\ ~CutFast(v, t)
  BY AwayFits DEF Away, RoadToStamp
<1>2. CodeIsAsked(v, t, d, p.to, q) /\ RecordsAreAsked(v, t, d, p.to, q)
  BY <1>1 DEF Fits, CodeIsAsked, RecordsAreAsked
<1>3. OnTheWay(v, t, d, s, p) /\ AskedIsOwed(v, t, s, p) /\ FastIsCut(v, t, d, s, p)
  BY DEF Fits
<1>4. AskedIsOwed(v, t, p.to, q) /\ FastIsCut(v, t, d, p.to, q) /\ ShipsJudged(v, t, d, p.to)
  BY <1>0, <1>1, <1>3 DEF OnTheWay, AskedIsOwed, FastIsCut, ShipsJudged, RecordsDone
<1>5. OnUpdate(v, t, d, p.to, q) /\ OnStamp(v, t, p.to, q) /\ OnTheWay(v, t, d, p.to, q) /\ OnShip(v, p.to, q)
  BY <1>0, PlainFits
<1>6. StampsArePast(v, t) /\ ShasAreJudged(v, t, d)
  BY DEF Fits
<1> QED
  BY <1>2, <1>4, <1>5, <1>6 DEF Fits, q

---------------------------------------------------------------------------
(* The stamps of the certifying stages.                                      *)
LEMMA GreenFits ==
  ASSUME NEW v, NEW w, NEW x, NEW t, NEW u, NEW d, NEW s, NEW p, Fits(v, t, d, s, p), s = "verdict",
         x.e = "verdict-rendered", x.of = "green", x.sha = t.sha, Reads(x, v, w), t.sha \in Nat,
         u.sha = t.sha, u.code = "good", u.recs = t.recs, Plain(p)
  PROVE  Fits(w, u, d, s, p)
<1>0. Ruled(x, v, w)
  BY VerdictReads
<1>1. Ruled(x, v, w) /\ w.greens = v.greens \cup {t.sha}
  BY <1>0 DEF Ruled
<1>2. ~Unrecorded(v, t, s, p) /\ v.admits /\ ~CutFast(v, t)
  BY ElsewhereFits
<1>3. /\ CutFast(v, t) <=> CutFast(w, u)
      /\ Excused(v, d) => Excused(w, d)
      /\ w.admits /\ (v.asked <=> w.asked) /\ (v.owed <=> w.owed) /\ (v.rendered <=> w.rendered) /\ (v.pending <=> w.pending)
  BY <1>1, <1>2 DEF CutFast, Excused, Ruled
<1>4. StampsArePast(w, u) /\ ShasAreJudged(w, u, d)
  BY <1>1, <1>3 DEF Fits, StampsArePast, ShasAreJudged, Ruled
<1>5. CodeIsAsked(w, u, d, s, p) /\ RecordsAreAsked(w, u, d, s, p)
  BY <1>2, <1>3 DEF Fits, CodeIsAsked, RecordsAreAsked
<1>6. OnUpdate(w, u, d, s, p) /\ OnStamp(w, u, s, p) /\ OnTheWay(w, u, d, s, p) /\ OnShip(w, s, p) /\ p.pc # "opened"
  BY PlainFits
<1>7. AskedIsOwed(w, u, s, p) /\ FastIsCut(w, u, d, s, p)
  BY <1>1, <1>2, <1>3, <1>6 DEF Fits, AskedIsOwed, FastIsCut, Ruled
<1>8. ShipsJudged(w, u, d, s)
  BY DEF ShipsJudged
<1> QED
  BY <1>4, <1>5, <1>6, <1>7, <1>8 DEF Fits

(* A commit of a seat is a head that nothing judged.                         *)
LEMMA SeatFits ==
  ASSUME NEW v, NEW w, NEW x, NEW t, NEW u, NEW d, NEW s, NEW p, NEW q, Fits(v, t, d, s, p), Calm(v, t, s, p),
         x.e = "implementation-committed", x.sha = t.sha + 1, Reads(x, v, w), t.sha \in Nat,
         u.sha = t.sha + 1, u.code = t.code \/ (u.code = "bad" /\ s = "verdict"), u.recs = t.recs, x.of = "fresh" \/ s = "verdict",
         Plain(q) \/ Way(w, u, d, q)
  PROVE  Fits(w, u, d, s, q)
<1>1. /\ w.head = t.sha + 1 /\ v.greens = w.greens /\ v.named = w.named /\ v.fast = w.fast /\ (v.open <=> w.open)
      /\ (v.rendered <=> w.rendered) /\ (v.admits <=> w.admits) /\ (v.asked <=> w.asked) /\ (v.owed <=> w.owed)
      /\ (v.holds <=> w.holds) /\ (v.opened <=> w.opened) /\ (v.red <=> w.red) /\ (v.capped => w.capped)
  <2>1. Moving(x) /\ x.e \notin NamingKinds
    BY DEF Moving, NamingKinds
  <2> HIDE DEF Moving
  <2> QED
    BY <2>1 DEF Reads, CodeReading, RecordsReading, AskReading, TokenReading, ShaReading, CapReading
<1>2. x.of = "fresh" /\ (v.pending \/ v.gap) => w.gap
  BY DEF Reads, PassReading
<1>3. ~Unrecorded(v, t, s, p) /\ v.admits /\ ~CutFast(v, t) /\ (Excused(v, d) => Excused(w, d))
  BY <1>1 DEF Calm, Excused
<1>4. /\ \A sha \in v.greens \cup v.named : sha \in Nat /\ sha <= t.sha
      /\ v.fast.sha \in Nat /\ v.fast.sha <= t.sha
  BY DEF Fits, StampsArePast
<1>5. t.sha + 1 \notin w.greens /\ w.fast.sha # t.sha + 1
  BY <1>1, <1>4
<1>6. ~CodeStands(w) /\ ~CutFast(w, u)
  BY <1>1, <1>5 DEF CodeStands, CutFast
<1>7. StampsArePast(w, u) /\ ShasAreJudged(w, u, d)
  BY <1>1, <1>4, <1>5 DEF StampsArePast, ShasAreJudged
<1>8. CodeIsAsked(w, u, d, s, q) /\ RecordsAreAsked(w, u, d, s, q)
  BY <1>1, <1>3, <1>6 DEF Fits, CodeIsAsked, RecordsAreAsked
<1>9. OnUpdate(w, u, d, s, q) /\ OnStamp(w, u, s, q) /\ OnTheWay(w, u, d, s, q) /\ OnShip(w, s, q) /\ q.pc # "opened"
  BY PlainFits, WayIs
<1>10. AskedIsOwed(w, u, s, q) /\ FastIsCut(w, u, d, s, q)
  BY <1>1, <1>3, <1>6, <1>9 DEF Fits, AskedIsOwed, FastIsCut
<1>11. ShipsJudged(w, u, d, s)
  BY <1>1, <1>2, <1>3 DEF Fits, ShipsJudged, IsBad
<1> QED
  BY <1>7, <1>8, <1>9, <1>10, <1>11 DEF Fits

(* A sweep takes the red back, and the run goes on to the records.           *)
LEMMA SweepFits ==
  ASSUME NEW v, NEW w, NEW x, NEW t, NEW d, NEW s, NEW p, NEW q, Fits(v, t, d, s, p), s = "verdict",
         x.e = "operational-fix", Reads(x, v, w), Way(w, t, d, q)
  PROVE  Fits(w, t, d, s, q)
<1>1. /\ v.head = w.head /\ v.greens = w.greens /\ v.named = w.named /\ v.fast = w.fast /\ (v.open <=> w.open)
      /\ (v.pending <=> w.pending) /\ (v.capped => w.capped)
      /\ (v.rendered <=> w.rendered) /\ (v.admits <=> w.admits) /\ (v.asked <=> w.asked) /\ (v.owed <=> w.owed)
      /\ (v.holds <=> w.holds) /\ (v.opened <=> w.opened)
  <2>1. ~Moving(x) /\ x.e \notin NamingKinds
    BY DEF Moving, NamingKinds
  <2> HIDE DEF Moving
  <2> QED
    BY <2>1 DEF Reads, PassReading, CodeReading, RecordsReading, AskReading, TokenReading, ShaReading, CapReading
<1>2. ~Unrecorded(v, t, s, p) /\ v.admits /\ ~CutFast(v, t)
  BY ElsewhereFits
<1>3. (CodeStands(v) <=> CodeStands(w)) /\ (CutFast(v, t) <=> CutFast(w, t)) /\ (Excused(v, d) => Excused(w, d))
  BY <1>1 DEF CodeStands, CutFast, Excused
<1>4. StampsArePast(w, t) /\ ShasAreJudged(w, t, d) /\ ShipsJudged(w, t, d, s)
  BY <1>1, <1>3 DEF Fits, StampsArePast, ShasAreJudged, ShipsJudged
<1>5. CodeIsAsked(w, t, d, s, q) /\ RecordsAreAsked(w, t, d, s, q)
  BY <1>1, <1>2, <1>3 DEF Fits, CodeIsAsked, RecordsAreAsked
<1>6. OnUpdate(w, t, d, s, q) /\ OnStamp(w, t, s, q) /\ OnTheWay(w, t, d, s, q) /\ OnShip(w, s, q) /\ q.pc # "opened"
  BY WayIs
<1>7. AskedIsOwed(w, t, s, q) /\ FastIsCut(w, t, d, s, q)
  BY <1>1, <1>2, <1>3, <1>6 DEF Fits, AskedIsOwed, FastIsCut
<1> QED
  BY <1>4, <1>5, <1>6, <1>7 DEF Fits

(* What the records are answered with, in the reconcile stage.               *)
Elsewhere(v, w) ==
  /\ v.head = w.head /\ v.greens = w.greens /\ v.fast = w.fast /\ (v.open <=> w.open) /\ (v.pending <=> w.pending)
  /\ (v.holds <=> w.holds) /\ (v.opened <=> w.opened) /\ (v.capped => w.capped)
LEMMA RecordsRead ==
  ASSUME NEW v, NEW w, NEW x, Reads(x, v, w), x.e \in {"record-written", "reconcile-rendered", "reconciliation-written"}
  PROVE  /\ Elsewhere(v, w)
         /\ w.named \subseteq (IF x.e = "reconciliation-written" THEN v.named ELSE v.named \cup {x.sha})
<1>1. ~Moving(x)
  BY DEF Moving
<1> HIDE DEF Moving
<1> QED
  BY <1>1 DEF Reads, PassReading, CodeReading, TokenReading, ShaReading, CapReading, NamingKinds, Elsewhere

LEMMA RecordFits ==
  ASSUME NEW v, NEW w, NEW x, NEW t, NEW u, NEW d, NEW s, NEW p, NEW q, Fits(v, t, d, s, p), s = "reconcile", RecordsOwed,
         Reads(x, v, w), x.e \in {"record-written", "reconcile-rendered", "reconciliation-written"},
         x.e = "reconciliation-written" \/ x.sha = u.sha, t.sha \in Nat, u.sha \in {t.sha, t.sha + 1}, u.code = t.code,
         u.recs = "good" \/ (u.recs = t.recs /\ (x.e = "record-written" \/ ~w.admits)),
         w.asked => w.owed, w.admits \/ (~w.asked /\ q.pc \in {"records", "fallback"}),
         q.pc \in {"enter", "records", "fallback"}, q.pc = "fallback" => ~w.admits
  PROVE  Fits(w, u, d, s, q)
<1>1. Elsewhere(v, w) /\ w.named \subseteq v.named \cup {u.sha}
  BY RecordsRead
<1>2. ~Unrecorded(v, t, s, p) /\ ~CutFast(v, t) /\ ~Unrecorded(w, u, s, q)
  BY ElsewhereFits DEF Unrecorded
<1>3. /\ v.head \in Nat /\ v.head <= t.sha /\ v.fast.sha \in Nat /\ v.fast.sha <= t.sha
      /\ \A sha \in v.greens \cup v.named : sha \in Nat /\ sha <= t.sha
  BY DEF Fits, StampsArePast
<1>4. StampsArePast(w, u)
  <2>1. \A sha \in w.greens \cup w.named : sha \in v.greens \cup v.named \/ sha = u.sha
    BY <1>1 DEF Elsewhere
  <2>2. w.head = v.head /\ w.fast = v.fast
    BY <1>1 DEF Elsewhere
  <2>3. \A n \in Nat : n <= t.sha => n <= u.sha
    OBVIOUS
  <2>4. u.sha \in Nat /\ u.sha <= u.sha
    OBVIOUS
  <2> QED
    BY <1>3, <2>1, <2>2, <2>3, <2>4 DEF StampsArePast
<1>5. (u.sha = t.sha \/ (u.sha \notin w.greens /\ w.fast.sha # u.sha))
  BY <1>1, <1>3 DEF Elsewhere
<1>6. (CodeStands(v) <=> CodeStands(w)) /\ ~CutFast(w, u) /\ (Excused(v, d) => Excused(w, d))
  BY <1>1, <1>2, <1>5 DEF CodeStands, CutFast, Excused, Elsewhere
<1>7. ShasAreJudged(w, u, d)
  BY <1>1, <1>5, <1>6 DEF Fits, ShasAreJudged, Elsewhere
<1>8. CodeIsAsked(w, u, d, s, q)
  BY <1>1, <1>2, <1>6 DEF Fits, CodeIsAsked, Elsewhere
<1>9. RecordsAreAsked(w, u, d, s, q)
  <2>1. x.e = "record-written" => (v.rendered <=> w.rendered) /\ (v.asked <=> w.asked) /\ (v.admits <=> w.admits)
    BY DEF Reads, RecordsReading, AskReading
  <2> QED
    BY <1>2, <1>6, <2>1 DEF Fits, RecordsAreAsked
<1>10. AskedIsOwed(w, u, s, q) /\ FastIsCut(w, u, d, s, q) /\ ShipsJudged(w, u, d, s)
  BY <1>1, <1>6 DEF Fits, AskedIsOwed, FastIsCut, ShipsJudged, Elsewhere
<1>11. OnUpdate(w, u, d, s, q) /\ OnStamp(w, u, s, q) /\ OnTheWay(w, u, d, s, q) /\ OnShip(w, s, q)
  BY DEF OnUpdate, OnStamp, OnTheWay, OnShip, MergePlaces, WatchPlaces
<1> QED
  BY <1>4, <1>7, <1>8, <1>9, <1>10, <1>11 DEF Fits

---------------------------------------------------------------------------
(* The steps, handler by handler.                                            *)
LEMMA SpentFits ==
  ASSUME LaneInv, UNCHANGED <<led, tree, stage, hist>>, "pc" \in DOMAIN at', Fits(Reading, tree, hist.doubled, stage, at')
  PROVE  LaneInv'
<1>1. Fielded'
  BY DEF LaneInv, Fielded
<1> QED
  BY <1>1, KeptFits

LEMMA InvIs ==
  ASSUME LaneInv
  PROVE  /\ Fits(Reading, tree, hist.doubled, stage, at) /\ "pc" \in DOMAIN at /\ "doubled" \in DOMAIN hist
         /\ {"sha", "base", "code", "recs"} \subseteq DOMAIN tree /\ tree.sha \in Nat /\ tree.sha # 0 /\ IsLedger /\ Shaped
BY DEF LaneInv, Fielded

LEMMA ParksFit ==
  ASSUME LaneInv, LaneParks
  PROVE  LaneInv'
<1> USE DEF Stay
<1>0. Fits(Reading, tree, hist.doubled, stage, at) /\ "pc" \in DOMAIN at
  BY InvIs
<1> HIDE DEF Reading
<1>1. CASE ParkReleases
  <2>1. /\ at.pc = "ask" /\ Stamp(ReleaseToken("park")) /\ at' = at /\ ~Opened /\ UNCHANGED <<tree, stage, hist>>
    BY <1>1 DEF ParkReleases, DoStamp, StampAndGo, KeepsTheToken
  <2>2. StampShape(ReleaseToken("park")) /\ ReleaseToken("park").e = "ship-token"
    BY StampsAreShaped DEF ReleaseToken, Event
  <2>3. Reads(ReleaseToken("park"), Reading, Reading')
    BY <2>1, <2>2, InvIs, StampReads
  <2>4. Plain(at) /\ Away(at)
    BY <2>1 DEF Plain, Away, MergePlaces, WatchPlaces, RoadToStamp
  <2>5. TokenMoved(Reading, Reading') /\ ~Reading'.opened
    BY <2>1, <2>2, <2>3, TokenReads, Asked
  <2>6. Fits(Reading', tree, hist.doubled, stage, at)
    BY <1>0, <2>4, <2>5, CalmIs, TokenFits
  <2>7. Fielded'
    BY <2>1 DEF LaneInv, Fielded
  <2> QED
    BY <2>1, <2>2, <2>6, <2>7, StampFits
<1>2. CASE Park /\ Stay
  <2> DEFINE x == Event("park", at.type, at.why)
  <2>1. at.pc = "ask" /\ StampAndGo(x, Pc("parked")) /\ UNCHANGED <<tree, stage, hist>>
    BY <1>2 DEF Park
  <2>2. Silent(x)
    BY StampsAreSilent DEF ReadKinds, NamingKinds
  <2>3. Away(at) /\ Plain(Pc("parked")) /\ "pc" \in DOMAIN Pc("parked")
    BY <2>1, PlacesAre DEF Away, RoadToStamp
  <2> HIDE DEF x
  <2>4. Fits(Reading, tree, hist.doubled, stage, Pc("parked"))
    BY <1>0, <2>3, LeavesFits
  <2> QED
    BY <2>1, <2>2, <2>3, <2>4, SilentFits
<1>3. CASE Answer /\ Stay
  <2>1. PICK x : Silent(x) /\ Stamp(x)
    <3>1. PICK of, option : Stamp(Event("answer", of, option))
      BY <1>3 DEF Answer
    <3>2. Silent(Event("answer", of, option))
      BY StampsAreSilent DEF ReadKinds, NamingKinds
    <3> QED
      BY <3>1, <3>2
  <2>2. at' = Pc("enter") /\ UNCHANGED <<tree, stage, hist>> /\ Pc("enter").pc = "enter" /\ "pc" \in DOMAIN Pc("enter")
    BY <1>3, PlacesAre DEF Answer
  <2>3. Fits(Reading, tree, hist.doubled, stage, at')
    BY <1>0, <2>2, RestFits
  <2>4. Fits(Reading', tree, hist.doubled, stage, at')
    BY <2>1, <2>3, InvIs, SilentReads, SameFits
  <2>5. Fielded'
    BY <2>2 DEF LaneInv, Fielded
  <2> QED
    BY <2>1, <2>2, <2>4, <2>5, StampFits DEF Silent
<1>4. CASE (Crash \/ AbandonGuard) /\ Stay
  <2>1. UNCHANGED <<led, tree, stage, hist>> /\ at'.pc \in {"enter", "closed"} /\ "pc" \in DOMAIN at'
    BY <1>4, PlacesAre DEF Crash, AbandonGuard, Go
  <2>2. Fits(Reading, tree, hist.doubled, stage, at')
    BY <1>0, <2>1, RestFits
  <2> QED
    BY <2>1, <2>2, SpentFits
<1>5. CASE RefreshForRetry /\ Stay
  <2>1. StampAndGo(Event("tree-refreshed", "", ""), at) /\ UNCHANGED <<tree, stage, hist>>
    BY <1>5 DEF RefreshForRetry
  <2>2. Silent(Event("tree-refreshed", "", ""))
    BY StampsAreSilent DEF ReadKinds, NamingKinds
  <2> QED
    BY <1>0, <2>1, <2>2, SilentFits
<1> QED
  BY <1>1, <1>2, <1>3, <1>4, <1>5 DEF LaneParks

LEMMA PassesFit ==
  ASSUME LaneInv, Next1 \/ GiveBack \/ BaseMoves \/ ForgeStep \/ UNCHANGED laneVars
  PROVE  LaneInv'
<1> USE DEF Stay
<1>0. Fits(Reading, tree, hist.doubled, stage, at) /\ "pc" \in DOMAIN at /\ "doubled" \in DOMAIN hist
  BY InvIs
<1> HIDE DEF Reading
<1>1. CASE Next1
  <2>1. at.pc = "next" /\ stage' = at.to /\ at' = Pc("enter") /\ UNCHANGED <<led, tree>> /\ hist'.doubled = hist.doubled /\ "doubled" \in DOMAIN hist'
    BY <1>0, <1>1 DEF Next1
  <2>2. Fielded'
    BY <2>1, PlacesAre DEF LaneInv, Fielded
  <2>3. Fits(Reading, tree, hist.doubled, at.to, Pc("enter"))
    BY <1>0, <2>1, NextFits
  <2> QED
    BY <2>1, <2>2, <2>3, KeptFits
<1>2. CASE GiveBack
  <2>1. at.pc = "back" /\ UNCHANGED <<tree, stage, hist>>
    BY <1>2 DEF GiveBack, DoStamp, Do
  <2>2. at.to \notin {"ship", "update"}
    BY <1>0, <2>1 DEF Fits, OnTheWay
  <2>3. \A v : Way(v, tree, hist.doubled, To(at.to)) /\ "pc" \in DOMAIN To(at.to)
    BY <2>2, PlacesAre DEF Way
  <2>4. Away(at)
    BY <2>1 DEF Away, RoadToStamp
  <2>5. CASE HoldsToken /\ ~Opened
    <3> DEFINE x == ReleaseToken(at.why)
    <3>1. Stamp(x) /\ at' = To(at.to) /\ ~Reading.opened
      BY <1>2, <2>5, Asked DEF GiveBack, DoStamp, StampAndGo
    <3>2. StampShape(x) /\ x.e = "ship-token"
      BY StampsAreShaped DEF ReleaseToken, Event
    <3> HIDE DEF x
    <3>3. Reads(x, Reading, Reading')
      BY <3>1, <3>2, InvIs, StampReads
    <3>4. TokenMoved(Reading, Reading') /\ ~Reading'.opened
      BY <3>1, <3>2, <3>3, TokenReads
    <3>5. Fits(Reading', tree, hist.doubled, stage, To(at.to))
      BY <1>0, <2>3, <2>4, <3>1, <3>4, CalmIs, TokenFits
    <3>6. Fielded'
      BY <2>1, <2>3, <3>1 DEF LaneInv, Fielded
    <3> QED
      BY <2>1, <3>1, <3>2, <3>5, <3>6, StampFits
  <2>6. CASE ~(HoldsToken /\ ~Opened)
    <3>1. Go(To(at.to))
      BY <1>2, <2>6 DEF GiveBack, Do
    <3>2. Fits(Reading, tree, hist.doubled, stage, To(at.to))
      BY <1>0, <2>3, <2>4, CalmIs, CalmFits
    <3> QED
      BY <2>1, <2>3, <3>1, <3>2, GoFits
  <2> QED
    BY <2>5, <2>6
<1>3. CASE BaseMoves \/ ForgeStep \/ UNCHANGED laneVars
  <2>1. UNCHANGED <<led, at, tree, stage, hist>>
    BY <1>3 DEF BaseMoves, ForgeStep, CheckStarts, CheckConcludes, WorkflowEnds, AutoMerge, HandMerge, HandCloses,
                HandOpens, Drops, LosesDelivery, Forge, laneVars, ledgerVars
  <2> QED
    BY <1>0, <2>1, SpentFits
<1> QED
  BY <1>1, <1>2, <1>3

(* A step to a place of the same stage, with nothing stamped.                *)
LEMMA DoFits ==
  ASSUME LaneInv, NEW q, Do(q), "pc" \in DOMAIN q, Calm(Reading, tree, stage, at), Plain(q) \/ Way(Reading, tree, hist.doubled, q)
  PROVE  LaneInv'
<1>1. Go(q) /\ UNCHANGED <<tree, stage, hist>>
  BY DEF Do, Stay
<1>2. Fits(Reading, tree, hist.doubled, stage, q)
  BY InvIs, CalmFits
<1> QED
  BY <1>1, <1>2, GoFits

LEMMA VerdictFits ==
  ASSUME LaneInv, VerdictCycle \/ VerdictRepairs \/ VerdictLeaves \/ VerdictResumes \/ VerdictImplements
  PROVE  LaneInv'
<1>0. /\ Fits(Reading, tree, hist.doubled, stage, at) /\ "pc" \in DOMAIN at /\ "doubled" \in DOMAIN hist /\ tree.sha \in Nat
      /\ {"sha", "base", "code", "recs"} \subseteq DOMAIN tree /\ tree.sha # 0
  BY InvIs
<1> HIDE DEF Reading
<1>1. \A s : In(s) => at.pc = "enter" /\ stage = s /\ Plain(at)
  BY DEF In, Enters, Plain, MergePlaces, WatchPlaces
<1>2. CASE VerdictCycle
  <2>1. In("verdict") /\ UNCHANGED <<at, stage>> /\ at.pc = "enter" /\ stage = "verdict" /\ Plain(at)
    BY <1>1, <1>2 DEF VerdictCycle
  <2>2. CASE /\ Stamp([e |-> "verdict-rendered", of |-> "green", nth |-> tree.sha, why |-> "", sha |-> tree.sha])
             /\ tree' = [tree EXCEPT !.code = "good"]
             /\ hist' = [hist EXCEPT !.handed = Unhanded("verdict")]
    <3> DEFINE x == [e |-> "verdict-rendered", of |-> "green", nth |-> tree.sha, why |-> "", sha |-> tree.sha]
    <3>1. x.e = "verdict-rendered" /\ x.of = "green" /\ x.nth = tree.sha /\ x.sha = tree.sha /\ "nth" \in DOMAIN x
      OBVIOUS
    <3>2. StampShape(x)
      BY <1>0, <3>1 DEF StampShape, Unnumbered
    <3>3. Stamp(x)
      BY <2>2
    <3> HIDE DEF x
    <3>4. Reads(x, Reading, Reading')
      BY <3>2, <3>3, InvIs, StampReads
    <3>5. tree'.sha = tree.sha /\ tree'.code = "good" /\ tree'.recs = tree.recs /\ DOMAIN tree' = DOMAIN tree
      BY <1>0, <2>2
    <3>6. hist'.doubled = hist.doubled /\ "doubled" \in DOMAIN hist'
      BY <1>0, <2>2
    <3>7. Fits(Reading', tree', hist.doubled, stage, at)
      BY <1>0, <2>1, <3>1, <3>4, <3>5, GreenFits
    <3>8. Fielded'
      BY <1>0, <2>1, <3>5, <3>6 DEF Fielded
    <3> QED
      BY <2>1, <3>2, <3>3, <3>6, <3>7, <3>8, StampFits
  <2>3. CASE /\ Stamp([e |-> "verdict-rendered", of |-> "red", nth |-> 0, why |-> "", sha |-> tree.sha])
             /\ UNCHANGED tree
             /\ hist' = [hist EXCEPT !.handed = Unhanded("verdict"), !.repairs = @ + 1]
    <3> DEFINE x == [e |-> "verdict-rendered", of |-> "red", nth |-> 0, why |-> "", sha |-> tree.sha]
    <3>1. x.e = "verdict-rendered" /\ x.of = "red" /\ x.nth = 0 /\ "nth" \in DOMAIN x
      OBVIOUS
    <3>2. StampShape(x)
      BY <3>1 DEF StampShape, Unnumbered
    <3>3. Stamp(x)
      BY <2>3
    <3> HIDE DEF x
    <3>4. Reads(x, Reading, Reading')
      BY <3>2, <3>3, InvIs, StampReads
    <3>5. hist'.doubled = hist.doubled /\ "doubled" \in DOMAIN hist'
      BY <1>0, <2>3
    <3>6. Fits(Reading', tree, hist.doubled, stage, at)
      BY <1>0, <2>1, <3>1, <3>4, RedFits
    <3>7. Fielded'
      BY <1>0, <2>1, <2>3, <3>5 DEF Fielded
    <3> QED
      BY <2>1, <2>3, <3>2, <3>3, <3>5, <3>6, <3>7, StampFits
  <2> QED
    BY <1>2, <2>2, <2>3 DEF VerdictCycle
<1>3. CASE VerdictRepairs
  <2>1. at.pc = "enter" /\ stage = "verdict" /\ Plain(at) /\ UNCHANGED stage
    BY <1>1, <1>3 DEF VerdictRepairs
  <2>2. CASE Stamp(Implementation("repair", 0, tree.sha + 1)) /\ Commit([tree EXCEPT !.code = "bad"]) /\ UNCHANGED <<at, hist>>
    <3> DEFINE x == Implementation("repair", 0, tree.sha + 1)
    <3>1. x.e = "implementation-committed" /\ x.sha = tree.sha + 1 /\ StampShape(x) /\ Stamp(x)
      BY <2>2, StampsAreShaped DEF Implementation
    <3> HIDE DEF x
    <3>2. Reads(x, Reading, Reading')
      BY <3>1, InvIs, StampReads
    <3>3. tree'.sha = tree.sha + 1 /\ tree'.code = "bad" /\ tree'.recs = tree.recs /\ DOMAIN tree' = DOMAIN tree
      BY <1>0, <2>2 DEF Commit
    <3>4. Fits(Reading', tree', hist.doubled, stage, at)
      BY <1>0, <2>1, <3>1, <3>2, <3>3, CalmIs, SeatFits
    <3>5. Fielded'
      BY <1>0, <2>2, <3>3 DEF Fielded
    <3> QED
      BY <2>1, <2>2, <3>1, <3>4, <3>5, StampFits
  <2>3. CASE /\ Stamp(Sha("operational-fix", "sweep", LastVerdict.sha))
             /\ hist' = [hist EXCEPT !.grants = @ + 1, !.repairs = @ + 1]
             /\ at' = To("reconcile")
             /\ UNCHANGED tree
    <3>1. PICK x : x = Sha("operational-fix", "sweep", LastVerdict.sha)
      OBVIOUS
    <3>2. x.e = "operational-fix" /\ StampShape(x) /\ Stamp(x)
      BY <2>3, <3>1, StampsAreShaped DEF Sha
    <3>3. Reads(x, Reading, Reading')
      BY <3>2, InvIs, StampReads
    <3>4. Way(Reading', tree, hist.doubled, To("reconcile")) /\ "pc" \in DOMAIN To("reconcile")
      BY PlacesAre DEF Way
    <3>5. Fits(Reading', tree, hist.doubled, stage, To("reconcile"))
      BY <1>0, <2>1, <3>2, <3>3, <3>4, SweepFits
    <3>6. hist'.doubled = hist.doubled /\ "doubled" \in DOMAIN hist'
      BY <1>0, <2>3
    <3>7. Fielded'
      BY <1>0, <2>3, <3>4, <3>6 DEF Fielded
    <3> QED
      BY <2>1, <2>3, <3>2, <3>5, <3>6, <3>7, StampFits
  <2> QED
    BY <1>3, <2>2, <2>3 DEF VerdictRepairs
<1>4. CASE VerdictLeaves \/ VerdictResumes
  <2>1. stage = "verdict" /\ (Do(To("reconcile")) \/ Do(Pc("verdict-seat")))
    BY <1>1, <1>4 DEF VerdictLeaves, VerdictResumes
  <2>2. Way(Reading, tree, hist.doubled, To("reconcile")) /\ "pc" \in DOMAIN To("reconcile")
        /\ Plain(Pc("verdict-seat")) /\ "pc" \in DOMAIN Pc("verdict-seat")
    BY PlacesAre DEF Way
  <2>3. Calm(Reading, tree, stage, at)
    BY <1>0, <2>1, CalmIs
  <2> QED
    BY <2>1, <2>2, <2>3, DoFits
<1>5. CASE VerdictImplements
  <2>1. at.pc = "verdict-seat" /\ Away(at)
    BY <1>5 DEF VerdictImplements, Away, RoadToStamp
  <2>2. Calm(Reading, tree, stage, at)
    BY <1>0, <2>1, CalmIs
  <2>3. CASE Do(SeatFail("dev"))
    BY <2>2, <2>3, PlacesAre, DoFits
  <2>4. CASE /\ StampAndGo(Implementation("fresh", tree.sha, tree.sha + 1), Pc("enter"))
             /\ Commit(tree)
             /\ UNCHANGED <<stage, forge, hist>>
    <3> DEFINE x == Implementation("fresh", tree.sha, tree.sha + 1)
    <3>1. x.e = "implementation-committed" /\ x.of = "fresh" /\ x.sha = tree.sha + 1 /\ StampShape(x) /\ Stamp(x) /\ at' = Pc("enter")
      BY <2>4, StampsAreShaped DEF Implementation, StampAndGo
    <3> HIDE DEF x
    <3>2. Reads(x, Reading, Reading')
      BY <3>1, InvIs, StampReads
    <3>3. tree'.sha = tree.sha + 1 /\ tree'.code = tree.code /\ tree'.recs = tree.recs /\ DOMAIN tree' = DOMAIN tree
      BY <1>0, <2>4 DEF Commit
    <3>4. Plain(Pc("enter")) /\ "pc" \in DOMAIN Pc("enter")
      BY PlacesAre
    <3>5. Fits(Reading', tree', hist.doubled, stage, Pc("enter"))
      BY <1>0, <2>2, <3>1, <3>2, <3>3, <3>4, SeatFits
    <3>6. Fielded'
      BY <1>0, <2>4, <3>1, <3>3, <3>4 DEF Fielded
    <3> QED
      BY <2>4, <3>1, <3>5, <3>6, StampFits
  <2> QED
    BY <1>5, <2>3, <2>4 DEF VerdictImplements
<1> QED
  BY <1>2, <1>3, <1>4, <1>5

LEMMA DoneIs == ASSUME IsLedger, ReconcileDone PROVE RecordsDone(Reading)
<1> SUFFICES ASSUME RecordsOwed PROVE Reading.rendered /\ ~Reading.asked /\ Reading.admits
  BY DEF RecordsDone
<1>1. Rendered > 0 /\ Rendered > Newest(SinceFreshPass(UpdateAsks)) /\ RecordsAdmit
  BY DEF ReconcileDone, UpdateAsks
<1>2. Reading.asked <=> Newest(SinceFreshPass(UpdateAsks)) > Rendered
  BY DEF Reading
<1>3. Len(led) \in Nat /\ \A S : S \subseteq 1..Len(led) => Newest(S) \in 0..Len(led)
  BY NewestIs DEF IsLedger
<1>4. SinceFreshPass(UpdateAsks) \subseteq 1..Len(led) /\ SinceFreshPass(SeqsOf("reconcile-rendered")) \subseteq 1..Len(led)
  BY DEF IsLedger, SinceFreshPass, UpdateAsks, Asks, SeqsOf
<1>5. Rendered \in 0..Len(led) /\ Newest(SinceFreshPass(UpdateAsks)) \in 0..Len(led)
  BY <1>3, <1>4 DEF Rendered
<1> HIDE DEF Newest, Reading
<1>6. ~Reading.asked
  BY <1>1, <1>2, <1>3, <1>5
<1> QED
  BY <1>1, <1>6, Asked

LEMMA RecordsFit ==
  ASSUME LaneInv, ReconcileWrites \/ ReconcileRenders \/ ReconcileFallsBack \/ ReconcileResumes \/ ReconcileLeaves
  PROVE  LaneInv'
<1> USE DEF Stay
<1>0. /\ Fits(Reading, tree, hist.doubled, stage, at) /\ "pc" \in DOMAIN at /\ "doubled" \in DOMAIN hist /\ tree.sha \in Nat
      /\ {"sha", "base", "code", "recs"} \subseteq DOMAIN tree /\ tree.sha # 0
  BY InvIs
<1>a. AskedIsOwed(Reading, tree, stage, at) /\ OnShip(Reading, stage, at)
  BY <1>0 DEF Fits
<1> HIDE DEF Reading
<1>1. \A s : In(s) => at.pc = "enter" /\ stage = s
  BY DEF In, Enters
<1>2. /\ Pc("records").pc = "records" /\ Pc("fallback").pc = "fallback" /\ Pc("enter").pc = "enter"
      /\ \A pc : "pc" \in DOMAIN Pc(pc)
  BY PlacesAre
<1>3. ASSUME NEW q, q \in {Pc("records"), Pc("fallback")}, Go(q), UNCHANGED <<tree, stage, hist>>, stage = "reconcile", RecordsOwed,
             q.pc = "fallback" => ~Reading.admits
      PROVE  LaneInv'
  <2>1. ~Unrecorded(Reading, tree, stage, at) /\ ~CutFast(Reading, tree)
    BY <1>0, <1>3, ElsewhereFits
  <2>2. q.pc \in {"records", "fallback"} /\ "pc" \in DOMAIN q
    BY <1>2, <1>3
  <2>3. /\ OnUpdate(Reading, tree, hist.doubled, stage, q) /\ OnStamp(Reading, tree, stage, q)
        /\ OnTheWay(Reading, tree, hist.doubled, stage, q) /\ OnShip(Reading, stage, q)
    BY <1>3, <2>2 DEF OnUpdate, OnStamp, OnTheWay, OnShip, MergePlaces, WatchPlaces
  <2>4. Fits(Reading, tree, hist.doubled, stage, q)
    BY <1>0, <2>1, <2>2, <2>3, PlaceFits
  <2> QED
    BY <1>3, <2>2, <2>4, GoFits
<1>4. ASSUME NEW x, NEW q, x.e \in {"record-written", "reconcile-rendered", "reconciliation-written"}, StampShape(x), StampAndGo(x, q),
             stage = "reconcile", RecordsOwed, UNCHANGED stage, hist'.doubled = hist.doubled, "doubled" \in DOMAIN hist',
             x.e = "reconciliation-written" \/ x.sha = tree'.sha, tree'.sha \in {tree.sha, tree.sha + 1}, tree'.code = tree.code,
             DOMAIN tree' = DOMAIN tree, "pc" \in DOMAIN q,
             Reads(x, Reading, Reading')
               => /\ tree'.recs = "good" \/ (tree'.recs = tree.recs /\ (x.e = "record-written" \/ ~Reading'.admits))
                  /\ Reading'.asked => Reading'.owed
                  /\ Reading'.admits \/ (~Reading'.asked /\ q.pc \in {"records", "fallback"})
                  /\ q.pc \in {"enter", "records", "fallback"} /\ (q.pc = "fallback" => ~Reading'.admits)
      PROVE  LaneInv'
  <2>1. Stamp(x) /\ at' = q
    BY <1>4 DEF StampAndGo
  <2>2. Reads(x, Reading, Reading')
    BY <1>4, <2>1, InvIs, StampReads
  <2>3. Fits(Reading', tree', hist.doubled, stage, q)
    BY <1>0, <1>4, <2>2, RecordFits
  <2>4. Fielded'
    BY <1>0, <1>4, <2>1 DEF Fielded
  <2> QED
    BY <1>4, <2>1, <2>3, <2>4, StampFits
<1>5. CASE ReconcileWrites
  <2>1. stage = "reconcile" /\ RecordsOwed
    BY <1>1, <1>5 DEF ReconcileWrites, ReconcileDone
  <2>2. CASE Do(Pc("records"))
    BY <1>2, <1>3, <2>1, <2>2 DEF Do
  <2>3. CASE /\ StampAndGo(Sha("record-written", "", tree.sha + 1), Pc("records"))
             /\ Commit(tree)
             /\ UNCHANGED <<stage, forge, hist>>
    <3>1. PICK x : x = Sha("record-written", "", tree.sha + 1)
      OBVIOUS
    <3>2. x.e = "record-written" /\ x.sha = tree.sha + 1 /\ StampShape(x) /\ StampAndGo(x, Pc("records"))
      BY <2>3, <3>1, StampsAreShaped DEF Sha
    <3>3. tree'.sha = tree.sha + 1 /\ tree'.code = tree.code /\ tree'.recs = tree.recs /\ DOMAIN tree' = DOMAIN tree
      BY <1>0, <2>3 DEF Commit
    <3>4. Reads(x, Reading, Reading') =>
            (Reading'.admits <=> Reading.admits) /\ (Reading'.asked <=> Reading.asked) /\ (Reading'.owed <=> Reading.owed)
      BY <3>2 DEF Reads, RecordsReading, AskReading
    <3>5. (Reading.asked => Reading.owed) /\ (~Reading.admits => ~Reading.asked)
      BY <1>a DEF AskedIsOwed
    <3>6. UNCHANGED stage /\ hist'.doubled = hist.doubled /\ "doubled" \in DOMAIN hist'
      BY <1>0, <2>3
    <3>7. Reads(x, Reading, Reading') =>
            (Reading'.asked => Reading'.owed) /\ (Reading'.admits \/ ~Reading'.asked)
      BY <3>4, <3>5
    <3>8. Pc("records").pc = "records" /\ "pc" \in DOMAIN Pc("records")
      BY <1>2
    <3> QED
      BY <1>4, <2>1, <3>2, <3>3, <3>6, <3>7, <3>8
  <2> QED
    BY <1>5, <2>2, <2>3 DEF ReconcileWrites
<1>6. CASE ReconcileRenders
  <2>1. stage = "reconcile" /\ RecordsOwed
    BY <1>6, <1>a DEF ReconcileRenders, OnShip
  <2>2. hist'.doubled = hist.doubled /\ "doubled" \in DOMAIN hist' /\ UNCHANGED stage
    BY <1>0, <1>6 DEF ReconcileRenders
  <2>3. CASE StampAndGo(Sha("reconcile-rendered", "green", tree.sha), Pc("enter")) /\ tree' = [tree EXCEPT !.recs = "good"]
    <3>1. PICK x : x = Sha("reconcile-rendered", "green", tree.sha)
      OBVIOUS
    <3>2. x.e = "reconcile-rendered" /\ x.of = "green" /\ x.sha = tree.sha /\ StampShape(x) /\ StampAndGo(x, Pc("enter"))
      BY <2>3, <3>1, StampsAreShaped DEF Sha
    <3>3. tree'.sha = tree.sha /\ tree'.code = tree.code /\ tree'.recs = "good" /\ DOMAIN tree' = DOMAIN tree
      BY <1>0, <2>3
    <3>4. Reads(x, Reading, Reading') => Reading'.admits /\ ~Reading'.asked
      BY <3>2 DEF Reads, RecordsReading, AskReading
    <3> QED
      BY <1>0, <1>2, <1>4, <2>1, <2>2, <3>2, <3>3, <3>4
  <2>4. CASE StampAndGo(Sha("reconcile-rendered", "red", tree.sha), Pc("fallback")) /\ UNCHANGED tree
    <3>1. PICK x : x = Sha("reconcile-rendered", "red", tree.sha)
      OBVIOUS
    <3>2. x.e = "reconcile-rendered" /\ x.of = "red" /\ x.sha = tree.sha /\ StampShape(x) /\ StampAndGo(x, Pc("fallback"))
      BY <2>4, <3>1, StampsAreShaped DEF Sha
    <3>3. Reads(x, Reading, Reading') => ~Reading'.admits /\ ~Reading'.asked
      BY <3>2 DEF Reads, RecordsReading, AskReading
    <3> QED
      BY <1>0, <1>2, <1>4, <2>1, <2>2, <2>4, <3>2, <3>3
  <2> QED
    BY <1>6, <2>3, <2>4 DEF ReconcileRenders
<1>7. CASE ReconcileFallsBack
  <2>1. stage = "reconcile" /\ RecordsOwed /\ ~Reading.admits /\ ~Reading.asked
    BY <1>7, <1>a DEF ReconcileFallsBack, OnShip, AskedIsOwed
  <2>2. PICK x : x = Event("reconciliation-written", "", "cap")
    OBVIOUS
  <2>3. x.e = "reconciliation-written" /\ StampShape(x) /\ StampAndGo(x, Pc("enter"))
    BY <1>7, <2>2, StampsAreShaped DEF Event, ReconcileFallsBack
  <2>4. tree'.sha = tree.sha /\ tree'.code = tree.code /\ tree'.recs = "good" /\ DOMAIN tree' = DOMAIN tree /\ UNCHANGED <<stage, hist>>
    BY <1>0, <1>7 DEF ReconcileFallsBack
  <2>5. Reads(x, Reading, Reading') => Reading'.admits /\ ~Reading'.asked
    BY <2>1, <2>3 DEF Reads, RecordsReading, AskReading
  <2> QED
    BY <1>0, <1>2, <1>4, <2>1, <2>3, <2>4, <2>5
<1>8. CASE ReconcileResumes
  <2>1. stage = "reconcile" /\ RecordsOwed /\ ~Reading.admits /\ Go(Pc("fallback")) /\ UNCHANGED <<tree, stage, hist>>
    BY <1>1, <1>8, Asked DEF ReconcileResumes, Do
  <2> QED
    BY <1>3, <2>1
<1>9. CASE ReconcileLeaves
  <2>1. stage = "reconcile" /\ ReconcileDone /\ Do(To("update"))
    BY <1>1, <1>9 DEF ReconcileLeaves
  <2>2. RecordsDone(Reading)
    BY <2>1, InvIs, DoneIs
  <2>3. Calm(Reading, tree, stage, at)
    <3>1. Reading.admits
      BY <1>a, <2>2 DEF RecordsDone, AskedIsOwed
    <3> QED
      BY <1>0, <2>1, <3>1, ElsewhereFits DEF Calm
  <2>4. Way(Reading, tree, hist.doubled, To("update")) /\ "pc" \in DOMAIN To("update")
    BY <2>2, PlacesAre DEF Way
  <2> QED
    BY <2>1, <2>3, <2>4, DoFits
<1> QED
  BY <1>5, <1>6, <1>7, <1>8, <1>9

---------------------------------------------------------------------------
(* The merge of both stages.                                                 *)
MergedOf(t, u, s) ==
  /\ u.sha = t.sha + 1 /\ u.code = IF s = "ship" THEN "under" ELSE "bad"
  /\ u.recs = IF s = "ship" \/ ~RecordsOwed THEN t.recs ELSE "bad"

(* What a merge starts from: a tree that was admitted is judged, or no stamp *)
(* named it.                                                                 *)
LEMMA FromIs ==
  ASSUME NEW v, NEW t, NEW d, NEW e, NEW s, NEW p, NEW q, Fits(v, t, d, s, p), s = "update", p.pc = "branch-update",
         Excused(v, d) => Excused(v, e), ~NamedIn(v, t) => Excused(v, e), q.was => Admits(v), q.from = t
  PROVE  FromFits(v, e, q)
<1>1. ~v.pending /\ ~v.owed /\ ~CutFast(v, t) /\ v.admits /\ ~v.asked
  BY DEF Fits, OnUpdate, MergePlaces, FastIsCut, AskedIsOwed
<1>2. (Excused(v, d) => Excused(v, e)) /\ (Unrecorded(v, t, s, p) => Excused(v, e))
  BY DEF Unrecorded
<1>3. t.code = "bad" => Excused(v, e) \/ ~CodeStands(v)
  BY <1>1, <1>2 DEF Fits, CodeIsAsked
<1>4. /\ RecordsOwed /\ ~v.rendered => t.code = "bad"
      /\ t.recs = "bad" => RecordsOwed /\ (Excused(v, e) \/ ~v.rendered)
  BY <1>1, <1>2 DEF Fits, AskedIsOwed, RecordsAreAsked
<1> QED
  BY <1>3, <1>4 DEF FromFits, IsBad, Admits

LEMMA MergedFits ==
  ASSUME NEW v, NEW t, NEW u, NEW d, NEW e, NEW s, NEW p, NEW q, Fits(v, t, d, s, p), t.sha \in Nat,
         p.pc \in {"branch-update", "conflict"}, s = "update" => ~v.failed, d => e, MergedOf(t, u, s),
         q.pc \in {"merged", "concluded"}, s = "update" => FromFits(v, e, q)
  PROVE  Fits(v, u, e, s, q)
<1>1. s \in {"update", "ship"} /\ (s = "update" => ~v.pending /\ v.holds /\ ~v.owed) /\ (s = "ship" => ~v.pending /\ ~v.red)
  BY DEF Fits, OnUpdate, OnShip, MergePlaces
<1>2. ~CutFast(v, t) /\ v.admits /\ (v.asked => v.owed) /\ (Excused(v, d) => Excused(v, e))
  BY DEF Fits, FastIsCut, AskedIsOwed, Excused
<1>3. /\ v.head \in Nat /\ v.head <= t.sha /\ v.fast.sha \in Nat /\ v.fast.sha <= t.sha
      /\ \A sha \in v.greens \cup v.named : sha \in Nat /\ sha <= t.sha
  BY DEF Fits, StampsArePast
<1>4. u.sha \in Nat /\ u.sha # v.head /\ u.sha # v.fast.sha /\ u.sha \notin v.greens /\ u.sha \notin v.named
      /\ \A sha \in Nat : sha <= t.sha => sha <= u.sha
  BY <1>3 DEF MergedOf
<1>5. StampsArePast(v, u) /\ ShasAreJudged(v, u, e)
  BY <1>3, <1>4 DEF StampsArePast, ShasAreJudged
<1>6. ~NamedIn(v, u) /\ ~CutFast(v, u)
  BY <1>4 DEF NamedIn, CutFast
<1>7. s = "update" => Unrecorded(v, u, s, q)
  BY <1>1, <1>6 DEF Unrecorded, RoadToStamp
<1>8. CodeIsAsked(v, u, e, s, q)
  BY <1>1, <1>7 DEF CodeIsAsked, MergedOf
<1>9. RecordsAreAsked(v, u, e, s, q)
  <2>1. s # "update" => ~Unrecorded(v, t, s, p)
    BY DEF Unrecorded
  <2> QED
    BY <1>1, <1>2, <1>7, <2>1 DEF Fits, RecordsAreAsked, MergedOf
<1>10. AskedIsOwed(v, u, s, q) /\ FastIsCut(v, u, e, s, q) /\ ShipsJudged(v, u, e, s)
  BY <1>1, <1>2, <1>6 DEF Fits, AskedIsOwed, FastIsCut, ShipsJudged, MergedOf, IsBad
<1>11. OnUpdate(v, u, e, s, q) /\ OnStamp(v, u, s, q) /\ OnTheWay(v, u, e, s, q) /\ OnShip(v, s, q)
  BY <1>1 DEF OnUpdate, OnStamp, OnTheWay, OnShip, MergePlaces, WatchPlaces, MergedOf
<1> QED
  BY <1>5, <1>8, <1>9, <1>10, <1>11 DEF Fits

LEMMA ConflictFits ==
  ASSUME NEW v, NEW t, NEW d, NEW e, NEW s, NEW p, NEW q, Fits(v, t, d, s, p),
         p.pc = "branch-update", ~v.failed, d => e, s = "update" /\ ~NamedIn(v, t) => e,
         q.pc = "conflict", s = "update" => FromFits(v, e, q)
  PROVE  Fits(v, t, e, s, q)
<1>1. s \in {"update", "ship"} /\ (s = "update" => ~v.pending /\ v.holds /\ ~v.owed) /\ (s = "ship" => ~v.pending /\ ~v.red)
  BY DEF Fits, OnUpdate, OnShip, MergePlaces
<1>2. ~CutFast(v, t) /\ v.admits /\ (Excused(v, d) => Excused(v, e)) /\ (Unrecorded(v, t, s, p) => Excused(v, e))
  BY DEF Fits, FastIsCut, AskedIsOwed, Excused, Unrecorded
<1>3. StampsArePast(v, t) /\ ShasAreJudged(v, t, e) /\ ShipsJudged(v, t, e, s)
  BY <1>2 DEF Fits, ShasAreJudged, ShipsJudged
<1>4. CodeIsAsked(v, t, e, s, q) /\ RecordsAreAsked(v, t, e, s, q)
  BY <1>2 DEF Fits, CodeIsAsked, RecordsAreAsked
<1>5. AskedIsOwed(v, t, s, q) /\ FastIsCut(v, t, e, s, q)
  BY <1>2 DEF Fits, AskedIsOwed, FastIsCut
<1>6. OnUpdate(v, t, e, s, q) /\ OnStamp(v, t, s, q) /\ OnTheWay(v, t, e, s, q) /\ OnShip(v, s, q)
  BY <1>1 DEF OnUpdate, OnStamp, OnTheWay, OnShip, MergePlaces, WatchPlaces
<1> QED
  BY <1>3, <1>4, <1>5, <1>6 DEF Fits

(* A fresh pass owes its seat a commit, and every certification again.       *)
LEMMA PassFits ==
  ASSUME NEW v, NEW w, NEW x, NEW t, NEW u, NEW d, NEW s, NEW p, NEW q, Fits(v, t, d, s, p), t.sha \in Nat,
         x.e = "fresh-pass", Reads(x, v, w), u.sha = t.sha + 1, u.code = "bad",
         u.recs = IF RecordsOwed THEN "bad" ELSE t.recs, Plain(q)
  PROVE  Fits(w, u, d, s, q)
<1>1. /\ w.pending /\ ~w.rendered /\ w.admits /\ ~w.asked /\ ~w.owed
      /\ w.head = v.head /\ w.greens = v.greens /\ w.named = v.named /\ w.fast = v.fast
      /\ (w.holds <=> v.holds) /\ (w.opened <=> v.opened)
  <2>1. ~Moving(x) /\ x.e \notin NamingKinds
    BY DEF Moving, NamingKinds
  <2> HIDE DEF Moving
  <2> QED
    BY <2>1 DEF Reads, PassReading, CodeReading, RecordsReading, AskReading, TokenReading, ShaReading
<1>2. /\ v.head \in Nat /\ v.head <= t.sha /\ v.fast.sha \in Nat /\ v.fast.sha <= t.sha
      /\ \A sha \in v.greens \cup v.named : sha \in Nat /\ sha <= t.sha
  BY DEF Fits, StampsArePast
<1>3. u.sha # w.fast.sha /\ u.sha \notin w.greens
  BY <1>1, <1>2
<1>4. StampsArePast(w, u) /\ ShasAreJudged(w, u, d)
  BY <1>1, <1>2, <1>3 DEF StampsArePast, ShasAreJudged
<1>5. CodeIsAsked(w, u, d, s, q) /\ ShipsJudged(w, u, d, s)
  BY <1>1 DEF CodeIsAsked, ShipsJudged
<1>6. RecordsAreAsked(w, u, d, s, q)
  BY <1>1 DEF Fits, RecordsAreAsked
<1>7. OnUpdate(w, u, d, s, q) /\ OnStamp(w, u, s, q) /\ OnTheWay(w, u, d, s, q) /\ OnShip(w, s, q) /\ q.pc # "opened"
  BY PlainFits
<1>8. AskedIsOwed(w, u, s, q) /\ FastIsCut(w, u, d, s, q)
  BY <1>1, <1>3, <1>7 DEF Fits, AskedIsOwed, FastIsCut, CutFast
<1> QED
  BY <1>4, <1>5, <1>6, <1>7, <1>8 DEF Fits

LEMMA MergedIs ==
  ASSUME {"sha", "base", "code", "recs"} \subseteq DOMAIN tree, Commit(MergedTree)
  PROVE  MergedOf(tree, tree', stage) /\ DOMAIN tree' = DOMAIN tree
BY DEF Commit, MergedTree, MergedOf

LEMMA MergesFit ==
  ASSUME LaneInv, BranchUpdate \/ MergeRound \/ MergeConcluded
  PROVE  LaneInv'
<1> USE DEF Stay
<1>0. /\ Fits(Reading, tree, hist.doubled, stage, at) /\ "pc" \in DOMAIN at /\ "doubled" \in DOMAIN hist /\ tree.sha \in Nat
      /\ {"sha", "base", "code", "recs"} \subseteq DOMAIN tree /\ tree.sha # 0
  BY InvIs
<1>a. OnShip(Reading, stage, at) /\ OnUpdate(Reading, tree, hist.doubled, stage, at) /\ (~Reading.admits => at.pc \in {"enter", "records", "fallback", "closed"})
  BY <1>0 DEF Fits, AskedIsOwed
<1> HIDE DEF Reading
<1>b. Plain(Pc("merge-stall")) /\ "pc" \in DOMAIN Pc("merge-stall")
  BY PlacesAre
<1>1. CASE BranchUpdate
  <2>1. at.pc = "branch-update" /\ at.pc \in MergePlaces /\ stage \in {"update", "ship"} /\ Reading.admits /\ ~CutFast(Reading, tree)
    BY <1>0, <1>1, <1>a DEF BranchUpdate, OnShip, MergePlaces, Fits, FastIsCut
  <2>2. CASE FailedRound > 0 /\ Do(Pc("merge-stall"))
    <3>1. Reading.failed
      BY <2>2, Asked
    <3>2. Calm(Reading, tree, stage, at)
      BY <2>1, <3>1 DEF Calm, Unrecorded
    <3> QED
      BY <1>b, <2>2, <3>2, DoFits
  <2>3. CASE FailedRound = 0 /\ Do(Merging("unmoved"))
    <3> DEFINE q == Merging("unmoved")
    <3>1. Go(q) /\ UNCHANGED <<tree, stage, hist>> /\ q.pc = "unmoved" /\ (q.was <=> Admits(Reading)) /\ "pc" \in DOMAIN q
      BY <2>3, Asked DEF Do, Merging
    <3>2. ~Reading.failed
      BY <2>3, Asked
    <3> HIDE DEF q
    <3>3. /\ OnUpdate(Reading, tree, hist.doubled, stage, q) /\ OnStamp(Reading, tree, stage, q)
          /\ OnTheWay(Reading, tree, hist.doubled, stage, q) /\ OnShip(Reading, stage, q)
      BY <1>a, <2>1, <3>1, <3>2 DEF OnUpdate, OnStamp, OnTheWay, OnShip, MergePlaces, WatchPlaces
    <3>4. Fits(Reading, tree, hist.doubled, stage, q)
      BY <1>0, <2>1, <3>1, <3>3, PlaceFits DEF RoadToStamp
    <3> QED
      BY <3>1, <3>4, GoFits
  <2>4. CASE /\ FailedRound = 0
             /\ \/ Commit(MergedTree) /\ at' = Merging("merged")
                \/ UNCHANGED tree /\ at' = Merging("conflict")
             /\ hist' = [hist EXCEPT !.doubled = @ \/ (stage = "update" /\ ~Named)]
             /\ UNCHANGED <<led, spent, stage, forge>>
    <3>1. /\ ~Reading.failed /\ "doubled" \in DOMAIN hist' /\ (hist.doubled => hist'.doubled)
          /\ stage = "update" /\ ~NamedIn(Reading, tree) => hist'.doubled
      <4>1. hist'.doubled = (hist.doubled \/ (stage = "update" /\ ~Named)) /\ "doubled" \in DOMAIN hist'
        BY <1>0, <2>4
      <4>2. ~Reading.failed /\ (Named <=> NamedIn(Reading, tree))
        BY <2>4, Asked
      <4> QED
        BY <4>1, <4>2
    <3>2. at'.pc \in {"merged", "conflict"} /\ (at'.was <=> Admits(Reading)) /\ at'.from = tree /\ "pc" \in DOMAIN at'
      BY <2>4, Asked DEF Merging
    <3>3. ASSUME stage = "update" PROVE FromFits(Reading, hist'.doubled, at')
      <4>1. PICK v, t, d, p : v = Reading /\ t = tree /\ d = hist.doubled /\ p = at
        OBVIOUS
      <4>2. PICK e, q : e = hist'.doubled /\ q = at'
        OBVIOUS
      <4>3. /\ Fits(v, t, d, "update", p) /\ p.pc = "branch-update"
            /\ Excused(v, d) => Excused(v, e)
            /\ ~NamedIn(v, t) => Excused(v, e)
            /\ q.was => Admits(v)
            /\ q.from = t
        BY <1>0, <2>1, <3>1, <3>2, <3>3, <4>1, <4>2 DEF Excused
      <4>4. FromFits(v, e, q)
        BY <4>3, FromIs
      <4> QED
        BY <4>1, <4>2, <4>4
    <3>4. Fits(Reading, tree', hist'.doubled, stage, at') /\ DOMAIN tree' = DOMAIN tree /\ tree'.sha \in Nat \ {0}
      <4>1. CASE Commit(MergedTree) /\ at' = Merging("merged")
        <5>1. MergedOf(tree, tree', stage) /\ DOMAIN tree' = DOMAIN tree /\ at'.pc = "merged"
          BY <1>0, <4>1, MergedIs DEF Merging
        <5>2. Fits(Reading, tree', hist'.doubled, stage, at')
          BY <1>0, <2>1, <3>1, <3>3, <5>1, MergedFits
        <5> QED
          BY <1>0, <5>1, <5>2 DEF MergedOf
      <4>2. CASE UNCHANGED tree /\ at' = Merging("conflict")
        <5>1. at'.pc = "conflict"
          BY <4>2 DEF Merging
        <5>2. Fits(Reading, tree, hist'.doubled, stage, at')
          BY <1>0, <2>1, <3>1, <3>3, <5>1, ConflictFits
        <5> QED
          BY <1>0, <4>2, <5>2
      <4> QED
        BY <2>4, <4>1, <4>2
    <3>5. Fielded' /\ UNCHANGED <<led, stage>>
      BY <1>0, <2>4, <3>1, <3>2, <3>4 DEF Fielded
    <3> QED
      BY <3>4, <3>5, KeptFits
  <2> QED
    BY <1>1, <2>2, <2>3, <2>4 DEF BranchUpdate
<1>2. CASE MergeRound
  <2>1. at.pc = "conflict" /\ Away(at)
    BY <1>2 DEF MergeRound, Away, RoadToStamp
  <2>2. CASE StampAndGo(Event("merge-round", "failed", ""), Pc("merge-stall")) /\ Stay
    <3> DEFINE x == Event("merge-round", "failed", "")
    <3>1. x.e = "merge-round" /\ StampShape(x) /\ Stamp(x) /\ at' = Pc("merge-stall") /\ UNCHANGED <<tree, stage, hist>>
      BY <2>2, StampsAreShaped DEF Event, StampAndGo
    <3> HIDE DEF x
    <3>2. Reads(x, Reading, Reading')
      BY <3>1, InvIs, StampReads
    <3>3. TokenMoved(Reading, Reading') /\ (Reading'.holds <=> Reading.holds) /\ (Reading'.opened <=> Reading.opened)
      BY <3>1, <3>2, TokenReads
    <3>4. Reading'.opened => Reading'.holds
      BY <1>0, <3>3 DEF Fits, FastIsCut
    <3>5. Fits(Reading', tree, hist.doubled, stage, Pc("merge-stall"))
      BY <1>0, <1>b, <2>1, <3>3, <3>4, CalmIs, TokenFits
    <3>6. Fielded'
      BY <1>b, <3>1 DEF LaneInv, Fielded
    <3> QED
      BY <3>1, <3>5, <3>6, StampFits
  <2>3. CASE Commit(MergedTree) /\ at' = [at EXCEPT !.pc = "concluded"] /\ UNCHANGED <<led, spent, stage, forge, hist>>
    <3>1. at'.pc = "concluded" /\ at'.was = at.was /\ at'.from = at.from /\ "pc" \in DOMAIN at'
      BY <1>0, <2>3
    <3>2. MergedOf(tree, tree', stage) /\ DOMAIN tree' = DOMAIN tree
      BY <1>0, <2>3, MergedIs
    <3>3. stage = "update" => ~Reading.failed /\ FromFits(Reading, hist.doubled, at')
      BY <1>a, <2>1, <3>1 DEF OnUpdate, FromFits, MergePlaces
    <3>4. Fits(Reading, tree', hist.doubled, stage, at')
      <4>1. at'.pc \in {"merged", "concluded"} /\ (stage = "update" => ~Reading.failed)
        BY <3>1, <3>3
      <4>2. stage = "update" => FromFits(Reading, hist.doubled, at')
        BY <3>3
      <4> QED
        BY <1>0, <2>1, <3>2, <4>1, <4>2, MergedFits
    <3>5. Fielded' /\ UNCHANGED <<led, stage, hist>>
      BY <1>0, <2>3, <3>1, <3>2 DEF Fielded, MergedOf
    <3> QED
      BY <3>4, <3>5, KeptFits
  <2> QED
    BY <1>2, <2>2, <2>3 DEF MergeRound
<1>3. CASE MergeConcluded
  <2> DEFINE x == Sha("merge-round", "resolved", tree.sha)
             q == [at EXCEPT !.pc = "merged"]
  <2>1. at.pc = "concluded" /\ StampAndGo(x, q) /\ UNCHANGED <<tree, stage, hist>>
    BY <1>3 DEF MergeConcluded, DoStamp
  <2>2. Silent(x)
    BY StampsAreSilent
  <2>3. q.pc = "merged" /\ (q.was <=> at.was) /\ q.from = at.from /\ "pc" \in DOMAIN q
    BY <1>0
  <2> HIDE DEF x, q
  <2>4. /\ OnUpdate(Reading, tree, hist.doubled, stage, q) /\ OnStamp(Reading, tree, stage, q)
        /\ OnTheWay(Reading, tree, hist.doubled, stage, q) /\ OnShip(Reading, stage, q)
    BY <1>a, <2>1, <2>3 DEF OnUpdate, OnStamp, OnTheWay, OnShip, MergePlaces, WatchPlaces, FromFits
  <2>5. ~CutFast(Reading, tree) /\ Reading.admits
    BY <1>0, <1>a, <2>1 DEF Fits, FastIsCut
  <2>6. Fits(Reading, tree, hist.doubled, stage, q)
    BY <1>0, <2>3, <2>4, <2>5, PlaceFits DEF RoadToStamp
  <2> QED
    BY <2>1, <2>2, <2>3, <2>6, SilentFits
<1> QED
  BY <1>1, <1>2, <1>3

LEMMA StallsFit ==
  ASSUME LaneInv, MergeStall \/ FreshPassStarts \/ FreshSeat
  PROVE  LaneInv'
<1> USE DEF Stay
<1>0. /\ Fits(Reading, tree, hist.doubled, stage, at) /\ "pc" \in DOMAIN at /\ "doubled" \in DOMAIN hist /\ tree.sha \in Nat
      /\ {"sha", "base", "code", "recs"} \subseteq DOMAIN tree /\ tree.sha # 0
  BY InvIs
<1>1. at.pc \in {"merge-stall", "fresh-pass", "fresh-seat"} /\ Away(at)
  BY DEF MergeStall, FreshPassStarts, FreshSeat, Away, RoadToStamp
<1> HIDE DEF Reading
<1>2. Calm(Reading, tree, stage, at)
  BY <1>0, <1>1, CalmIs
<1>3. /\ \A pc : "pc" \in DOMAIN Pc(pc)
      /\ Plain(Pc("fresh-pass")) /\ Plain(Pc("fresh-seat"))
  BY PlacesAre
<1>4. CASE MergeStall
  <2>1. CASE DoStamp(Event("stall", "merge-conflict", ""), at)
    <3>1. Silent(Event("stall", "merge-conflict", ""))
      BY StampsAreSilent DEF ReadKinds, NamingKinds
    <3> QED
      BY <1>0, <2>1, <3>1, SilentFits DEF DoStamp
  <2>2. CASE Do(Pc("fresh-pass")) \/ Do(Ask("second-stall", ""))
    BY <1>2, <1>3, <2>2, PlacesAre, DoFits
  <2> QED
    BY <1>4, <2>1, <2>2 DEF MergeStall
<1>5. CASE FreshPassStarts
  <2> DEFINE x == [e |-> "fresh-pass", of |-> "merge-conflict", nth |-> tree.sha, sha |-> tree.sha + 1]
  <2>1. Stamp(x) /\ at' = Pc("fresh-seat") /\ UNCHANGED <<stage, hist>>
    BY <1>5 DEF FreshPassStarts, StampAndGo
  <2>2. x.e = "fresh-pass" /\ StampShape(x)
    BY DEF StampShape, Unnumbered
  <2> HIDE DEF x
  <2>3. Reads(x, Reading, Reading')
    BY <2>1, <2>2, InvIs, StampReads
  <2>4. /\ tree'.sha = tree.sha + 1 /\ tree'.code = "bad" /\ tree'.recs = (IF RecordsOwed THEN "bad" ELSE tree.recs)
        /\ DOMAIN tree' = DOMAIN tree
    BY <1>0, <1>5 DEF FreshPassStarts, Commit
  <2>5. Fits(Reading', tree', hist.doubled, stage, Pc("fresh-seat"))
    BY <1>0, <1>3, <2>2, <2>3, <2>4, PassFits
  <2>6. Fielded'
    BY <1>0, <1>3, <2>1, <2>4 DEF Fielded
  <2> QED
    BY <2>1, <2>2, <2>5, <2>6, StampFits
<1>6. CASE FreshSeat
  <2>1. CASE Do(SeatFail("dev"))
    BY <1>2, <2>1, PlacesAre, DoFits
  <2>2. CASE /\ StampAndGo(Implementation("fresh", tree.sha, tree.sha + 1),
                           IF stage = "ship" THEN To("verdict") ELSE Back("verdict", "re-verdict"))
             /\ Commit(tree)
             /\ UNCHANGED <<stage, forge, hist>>
    <3> DEFINE x == Implementation("fresh", tree.sha, tree.sha + 1)
               q == IF stage = "ship" THEN To("verdict") ELSE Back("verdict", "re-verdict")
    <3>1. x.e = "implementation-committed" /\ x.of = "fresh" /\ x.sha = tree.sha + 1 /\ StampShape(x) /\ Stamp(x) /\ at' = q
      BY <2>2, StampsAreShaped DEF Implementation, StampAndGo
    <3>2. Way(Reading', tree', hist.doubled, q) /\ "pc" \in DOMAIN q
      BY PlacesAre DEF Way
    <3> HIDE DEF x, q
    <3>3. Reads(x, Reading, Reading')
      BY <3>1, InvIs, StampReads
    <3>4. tree'.sha = tree.sha + 1 /\ tree'.code = tree.code /\ tree'.recs = tree.recs /\ DOMAIN tree' = DOMAIN tree
      BY <1>0, <2>2 DEF Commit
    <3>5. Fits(Reading', tree', hist.doubled, stage, q)
      BY <1>0, <1>2, <3>1, <3>2, <3>3, <3>4, SeatFits
    <3>6. Fielded'
      BY <1>0, <2>2, <3>1, <3>2, <3>4 DEF Fielded
    <3> QED
      BY <2>2, <3>1, <3>5, <3>6, StampFits
  <2> QED
    BY <1>6, <2>1, <2>2 DEF FreshSeat
<1> QED
  BY <1>4, <1>5, <1>6

---------------------------------------------------------------------------
(* The update stage.  A run that holds no token has no merge to account for. *)
LEMMA NoTokenIsCalm ==
  ASSUME NEW v, NEW t, NEW d, NEW s, NEW p, Fits(v, t, d, s, p), s = "update", ~v.holds
  PROVE  Calm(v, t, s, p)
BY DEF Fits, Calm, Unrecorded, FastIsCut, AskedIsOwed

(* A pass that spent its updates goes on, excused.                           *)
LEMMA ExcusedFits ==
  ASSUME NEW v, NEW t, NEW d, NEW s, NEW p, NEW q, Fits(v, t, d, s, p), Excused(v, d), s = "update", ~CutFast(v, t), Way(v, t, d, q)
  PROVE  Fits(v, t, d, s, q)
<1>1. CodeIsAsked(v, t, d, s, q) /\ RecordsAreAsked(v, t, d, s, q)
  BY DEF Fits, CodeIsAsked, RecordsAreAsked
<1>2. OnUpdate(v, t, d, s, q) /\ OnStamp(v, t, s, q) /\ OnTheWay(v, t, d, s, q) /\ OnShip(v, s, q) /\ q.pc # "opened"
  BY WayIs
<1>3. AskedIsOwed(v, t, s, q) /\ FastIsCut(v, t, d, s, q)
  BY <1>2 DEF Fits, AskedIsOwed, FastIsCut
<1> QED
  BY <1>1, <1>2, <1>3 DEF Fits

(* What an update's stamp leaves.                                            *)
Updated(x, v, w) ==
  /\ w.head = (IF Moving(x) THEN x.sha ELSE v.head) /\ v.greens = w.greens /\ v.named = w.named /\ v.fast = w.fast /\ ~w.open
  /\ (v.pending <=> w.pending) /\ (v.rendered <=> w.rendered) /\ (v.admits <=> w.admits)
  /\ IF Asking(x) THEN w.asked /\ w.owed ELSE (w.asked => v.asked) /\ (w.owed => v.owed)
  /\ (v.holds <=> w.holds) /\ (v.opened <=> w.opened)
LEMMA UpdateReads ==
  ASSUME NEW v, NEW w, NEW x, x.e = "pre-verdict-update", Reads(x, v, w)
  PROVE  Updated(x, v, w) /\ (x.of # "capped" => (v.capped => w.capped)) /\ (x.of = "capped" /\ x.pass = Pass => w.capped)
<1>1. x.e \notin NamingKinds
  BY DEF NamingKinds
<1> HIDE DEF Moving, Asking
<1> QED
  BY <1>1 DEF Reads, PassReading, CodeReading, RecordsReading, AskReading, TokenReading, ShaReading, CapReading, Updated

LEMMA CappedFits ==
  ASSUME NEW v, NEW w, NEW x, NEW t, NEW d, NEW s, NEW p, NEW q, Fits(v, t, d, s, p), s = "update", ~CutFast(v, t), ~v.owed,
         x.e = "pre-verdict-update", x.of = "capped", x.pass = Pass, ~Moving(x), ~Asking(x), Reads(x, v, w), Way(w, t, d, q)
  PROVE  Fits(w, t, d, s, q)
<1>1. Updated(x, v, w) /\ w.capped /\ Excused(w, d)
  BY UpdateReads DEF Excused
<1>2. /\ w.head = v.head /\ v.greens = w.greens /\ v.named = w.named /\ v.fast = w.fast /\ ~w.open
      /\ (v.rendered <=> w.rendered) /\ (v.admits <=> w.admits)
      /\ (w.asked => v.asked) /\ (w.owed => v.owed) /\ (v.holds <=> w.holds) /\ (v.opened <=> w.opened)
  BY <1>1 DEF Updated
<1>3. StampsArePast(w, t) /\ ShasAreJudged(w, t, d)
  BY <1>1, <1>2 DEF Fits, StampsArePast, ShasAreJudged
<1>4. CodeIsAsked(w, t, d, s, q) /\ RecordsAreAsked(w, t, d, s, q) /\ ShipsJudged(w, t, d, s)
  BY <1>1 DEF Fits, CodeIsAsked, RecordsAreAsked, ShipsJudged
<1>5. OnUpdate(w, t, d, s, q) /\ OnStamp(w, t, s, q) /\ OnTheWay(w, t, d, s, q) /\ OnShip(w, s, q) /\ q.pc # "opened"
  BY WayIs
<1>6. AskedIsOwed(w, t, s, q) /\ FastIsCut(w, t, d, s, q)
  BY <1>2, <1>5 DEF Fits, AskedIsOwed, FastIsCut, CutFast
<1> QED
  BY <1>3, <1>4, <1>5, <1>6 DEF Fits

(* The fast path carries what it answers, and asks the rest again.           *)
LEMMA FastFits ==
  ASSUME NEW v, NEW w, NEW x, NEW t, NEW u, NEW d, NEW s, NEW p, NEW q, Fits(v, t, d, s, p), s = "update", p.pc = "merged", p.was,
         t.sha \in Nat, x.e = "fast-path-ship", x.sha = t.sha, x.code \in {"kept", "rejudge"}, Reads(x, v, w),
         u.sha = t.sha, u.code = (IF x.code = "rejudge" THEN t.code ELSE p.from.code),
         u.recs = (IF x.recs = "rerun" THEN t.recs ELSE p.from.recs),
         q.pc = "stamp", q.ran, ~q.unnamed, q.code = x.code, q.recs = x.recs
  PROVE  Fits(w, u, d, s, q)
<1>1. /\ w.fast = x /\ w.open /\ v.head = w.head /\ v.greens = w.greens /\ v.named = w.named
      /\ (v.pending <=> w.pending) /\ (v.failed <=> w.failed) /\ (v.rendered <=> w.rendered) /\ (v.admits <=> w.admits)
      /\ (v.asked <=> w.asked) /\ (v.holds <=> w.holds) /\ (v.opened <=> w.opened) /\ (v.capped => w.capped)
  <2>1. ~Moving(x) /\ x.e \notin NamingKinds
    BY DEF Moving, NamingKinds
  <2> HIDE DEF Moving, Asking
  <2> QED
    BY <2>1 DEF Reads, PassReading, CodeReading, RecordsReading, AskReading, TokenReading, ShaReading, CapReading
<1>2. ~v.pending /\ v.holds /\ ~v.owed /\ ~v.failed /\ FromFits(v, d, p) /\ t.code = "bad"
  BY DEF Fits, OnUpdate, MergePlaces
<1>3. v.admits /\ ~v.asked
  BY <1>2 DEF Fits, AskedIsOwed
<1>4. Excused(v, d) => Excused(w, d)
  BY <1>1 DEF Excused
<1>5. ~Excused(w, d) => p.from.code # "bad" /\ p.from.recs # "bad"
  BY <1>2, <1>4 DEF FromFits, IsBad
<1>6. /\ RecordsOwed /\ ~v.rendered => p.from.code = "bad"
      /\ p.from.recs = "bad" => RecordsOwed
  BY <1>2 DEF FromFits
<1>7. t.sha \notin v.greens
  BY <1>2 DEF Fits, ShasAreJudged
<1>8. CutFast(w, u) /\ (CarriedFastPath(w.fast) <=> x.code = "kept")
  BY <1>1 DEF CutFast, CarriedFastPath
<1>9. StampsArePast(w, u)
  BY <1>1 DEF Fits, StampsArePast
<1>10. ShasAreJudged(w, u, d)
  BY <1>1, <1>5, <1>7, <1>8 DEF ShasAreJudged
<1>11. CodeIsAsked(w, u, d, s, q)
  <2> SUFFICES ASSUME u.code = "bad", ~Excused(w, d), CodeStands(w) PROVE Unrecorded(w, u, s, q)
    BY DEF CodeIsAsked
  <2>1. x.code = "rejudge" /\ ~CarriedFastPath(w.fast)
    BY <1>5, <1>8
  <2>2. CodeStands(v)
    BY <1>1, <2>1 DEF CodeStands
  <2>3. Unrecorded(v, t, s, p)
    BY <1>2, <1>4, <2>2 DEF Fits, CodeIsAsked
  <2>4. ~NamedIn(w, u)
    BY <1>1, <2>1, <2>3 DEF Unrecorded, NamedIn
  <2> QED
    BY <1>1, <1>2, <1>8, <2>4 DEF Unrecorded, RoadToStamp
<1>12. RecordsAreAsked(w, u, d, s, q)
  <2>1. t.recs = "bad" => RecordsOwed
    BY DEF Fits, RecordsAreAsked
  <2> QED
    BY <1>1, <1>5, <1>6, <1>8, <2>1 DEF RecordsAreAsked
<1>13. AskedIsOwed(w, u, s, q)
  BY <1>1, <1>2, <1>3, <1>6 DEF AskedIsOwed
<1>14. FastIsCut(w, u, d, s, q)
  BY <1>1, <1>2, <1>3, <1>5 DEF FastIsCut
<1>15. OnStamp(w, u, s, q)
  BY <1>1, <1>2, <1>3, <1>8 DEF OnStamp
<1>16. ShipsJudged(w, u, d, s) /\ OnUpdate(w, u, d, s, q) /\ OnTheWay(w, u, d, s, q) /\ OnShip(w, s, q)
  BY DEF ShipsJudged, OnUpdate, OnTheWay, OnShip, MergePlaces, WatchPlaces
<1> QED
  BY <1>9, <1>10, <1>11, <1>12, <1>13, <1>14, <1>15, <1>16 DEF Fits

(* The stamp of an update, and where it sends the run.  A re-run over a      *)
(* fallback is kept (settled).                                               *)
LEMMA StampedFits ==
  ASSUME NEW v, NEW w, NEW x, NEW t, NEW u, NEW d, NEW s, NEW p, NEW q, Fits(v, t, d, s, p), p.pc = "stamp", t.sha \in Nat,
         v.fast.e # "none" => v.fast.e = "fast-path-ship" /\ v.fast.code \in {"kept", "rejudge"},
         x.e = "pre-verdict-update", x.of # "capped", x.sha = t.sha, (Moving(x) <=> p.ran \/ p.unnamed),
         (Asking(x) <=> x.recs = "rerun"), x.recs = p.recs \/ p.recs = "rerun", Reads(x, v, w),
         u.sha = t.sha, u.code = t.code, u.recs = (IF p.recs = "rerun" /\ x.recs # "rerun" THEN "good" ELSE t.recs),
         \/ q.pc = "back" /\ q.to \in {"verdict", "reconcile"} /\ "to" \in DOMAIN q
         \/ /\ q.pc = "next" /\ q.to = "ship" /\ "to" \in DOMAIN q
            /\ p.code # "rejudge" /\ x.recs # "rerun" /\ ~p.unnamed /\ p.was
  PROVE  Fits(w, u, d, s, q)
<1> DEFINE Cut == CutFast(v, t) /\ p.ran /\ ~p.unnamed /\ p.code = v.fast.code /\ p.recs = v.fast.recs
           Off == ~CutFast(v, t) /\ (p.unnamed <=> ~p.ran) /\ p.code = "rejudge" /\ (v.rendered => p.recs = "rerun")
           Still == /\ ~CutFast(v, t) /\ ~p.ran /\ ~p.unnamed /\ NamedIn(v, t) /\ p.code = "none" /\ p.recs = "none"
                    /\ (p.was <=> Admits(v))
<1>1. s = "update" /\ ~v.pending /\ ~v.asked /\ (Cut \/ Off \/ Still)
  BY DEF Fits, OnStamp
<1>2. Updated(x, v, w) /\ (v.capped => w.capped)
  BY UpdateReads
<1> HIDE DEF Moving, Asking
<1>3. /\ w.head = (IF p.ran \/ p.unnamed THEN t.sha ELSE v.head) /\ v.greens = w.greens /\ v.named = w.named /\ v.fast = w.fast
      /\ ~w.open /\ (v.pending <=> w.pending) /\ (v.rendered <=> w.rendered) /\ (v.admits <=> w.admits)
      /\ (w.asked <=> x.recs = "rerun") /\ (w.asked => w.owed)
      /\ (v.holds <=> w.holds) /\ (v.opened <=> w.opened)
  BY <1>1, <1>2 DEF Updated
<1>4. v.admits
  BY <1>1 DEF Fits, AskedIsOwed
<1>5. Excused(v, d) => Excused(w, d)
  BY <1>2 DEF Excused
<1>6. ~Still => p.ran \/ p.unnamed
  BY <1>1
<1>7. Still => ~Unrecorded(v, t, s, p)
  BY DEF Unrecorded
<1>8. StampsArePast(w, u) /\ ShasAreJudged(w, u, d)
  BY <1>3, <1>5 DEF Fits, StampsArePast, ShasAreJudged
<1>9. CodeIsAsked(w, u, d, s, q)
  <2> SUFFICES ASSUME t.code = "bad", ~Excused(w, d) PROVE ~CodeStands(w)
    BY DEF CodeIsAsked
  <2>1. t.sha \notin v.greens /\ ~(CarriedFastPath(v.fast) /\ v.fast.sha = t.sha)
    BY <1>5 DEF Fits, ShasAreJudged
  <2>2. CASE p.ran \/ p.unnamed
    BY <1>3, <2>1, <2>2 DEF CodeStands
  <2>3. CASE ~(p.ran \/ p.unnamed)
    <3>1. ~CodeStands(v)
      BY <1>1, <1>5, <1>6, <1>7, <2>3 DEF Fits, CodeIsAsked
    <3> QED
      BY <1>3, <2>3, <3>1 DEF CodeStands
  <2> QED
    BY <2>2, <2>3
<1>10. Cut /\ ~Excused(v, d) /\ p.recs # "rerun" => t.recs # "bad"
  BY DEF Fits, FastIsCut
<1>11. RecordsAreAsked(w, u, d, s, q)
  <2> SUFFICES ASSUME u.recs = "bad" PROVE RecordsOwed /\ (Excused(w, d) \/ ~w.rendered \/ w.asked)
    BY DEF RecordsAreAsked
  <2>1. t.recs = "bad" /\ (p.recs = "rerun" => w.asked)
    BY <1>3
  <2>2. /\ RecordsOwed
        /\ Excused(v, d) \/ Unrecorded(v, t, s, p) \/ (CutFast(v, t) /\ v.fast.recs = "rerun") \/ ~v.rendered
    BY <1>1, <1>4, <2>1 DEF Fits, RecordsAreAsked
  <2>3. Unrecorded(v, t, s, p) => Excused(v, d) \/ p.recs = "rerun" \/ ~v.rendered
    BY <1>1, <1>7, <1>10, <2>1
  <2>4. CutFast(v, t) /\ v.fast.recs = "rerun" => p.recs = "rerun"
    BY <1>1
  <2> QED
    BY <1>3, <1>5, <2>1, <2>2, <2>3, <2>4
<1>12. AskedIsOwed(w, u, s, q) /\ FastIsCut(w, u, d, s, q)
  BY <1>3, <1>4 DEF Fits, AskedIsOwed, FastIsCut, CutFast
<1>13. q.pc = "next" => (IsBad(u) => Excused(w, d))
  <2> SUFFICES ASSUME q.pc = "next", ~Excused(v, d) PROVE u.code # "bad" /\ u.recs # "bad"
    BY <1>5 DEF IsBad
  <2>1. p.code # "rejudge" /\ x.recs # "rerun" /\ ~p.unnamed /\ p.was
    OBVIOUS
  <2>2. CASE Cut
    <3>1. CarriedFastPath(v.fast) /\ v.fast.sha = t.sha
      BY <2>1, <2>2 DEF CutFast, CarriedFastPath
    <3>2. t.code # "bad"
      BY <3>1 DEF Fits, ShasAreJudged
    <3> QED
      BY <1>10, <2>1, <2>2, <3>2
  <2>3. CASE Still
    <3>1. CodeStands(v)
      BY <2>1, <2>3 DEF Admits
    <3>2. t.code # "bad"
      BY <1>1, <1>7, <2>3, <3>1 DEF Fits, CodeIsAsked
    <3>3. t.recs # "bad"
      BY <1>1, <1>4, <1>7, <2>3, <3>2 DEF Fits, RecordsAreAsked, AskedIsOwed
    <3> QED
      BY <3>2, <3>3
  <2> QED
    BY <1>1, <2>1, <2>2, <2>3
<1>14. Way(w, u, d, q)
  BY <1>13 DEF Way
<1>15. OnUpdate(w, u, d, s, q) /\ OnStamp(w, u, s, q) /\ OnTheWay(w, u, d, s, q) /\ OnShip(w, s, q)
  BY <1>14, WayIs
<1>16. ShipsJudged(w, u, d, s)
  BY <1>1 DEF ShipsJudged
<1> QED
  BY <1>8, <1>9, <1>11, <1>12, <1>15, <1>16 DEF Fits

LEMMA FastIs ==
  ASSUME IsLedger, Shaped
  PROVE  Reading.fast.e # "none" => Reading.fast.e = "fast-path-ship" /\ Reading.fast.code \in {"kept", "rejudge"}
<1>1. Reading.fast = IF LastFast = 0 THEN [e |-> "none", sha |-> 0] ELSE led[LastFast]
  BY ReadingIs DEF ReadingSays
<1>2. LastFast = 0 \/ LastFast \in SeqsOf("fast-path-ship")
  <2>1. SeqsOf("fast-path-ship") \subseteq 1..Len(led) /\ Len(led) \in Nat
    BY DEF IsLedger, SeqsOf
  <2> QED
    BY <2>1, NewestIs DEF LastFast
<1>3. LastFast \in SeqsOf("fast-path-ship") => led[LastFast].e = "fast-path-ship" /\ led[LastFast].code \in {"kept", "rejudge"}
  BY DEF SeqsOf, Shaped, StampShape
<1> HIDE DEF Reading, LastFast
<1> QED
  BY <1>1, <1>2, <1>3

LEMMA ReleasedIs == Released # "none" => ~HoldsToken /\ Released \in {"verdict", "reconcile"}
<1> SUFFICES ASSUME Released # "none" PROVE ~HoldsToken /\ Released \in {"verdict", "reconcile"}
  OBVIOUS
<1>1. Token.of = "released"
  BY DEF Released
<1>2. Token.why \in {"re-verdict", "re-reconcile"}
  BY DEF Released
<1>3. Token.why = "re-verdict" => Released = "verdict"
  BY DEF Released
<1>4. Token.why = "re-reconcile" => Released = "reconcile"
  BY DEF Released
<1> QED
  BY <1>1, <1>2, <1>3, <1>4 DEF HoldsToken

LEMMA EntersUpdate ==
  ASSUME LaneInv, UpdateReturns \/ TakeToken \/ PreVerdictUpdate
  PROVE  LaneInv'
<1> USE DEF Stay
<1>0. /\ Fits(Reading, tree, hist.doubled, stage, at) /\ "pc" \in DOMAIN at /\ "doubled" \in DOMAIN hist /\ tree.sha \in Nat
      /\ {"sha", "base", "code", "recs"} \subseteq DOMAIN tree /\ tree.sha # 0
  BY InvIs
<1>1. In("update") => at.pc = "enter" /\ stage = "update" /\ Plain(at)
  BY DEF In, Enters, Plain, MergePlaces, WatchPlaces
<1> HIDE DEF Reading
<1>2. In("update") => stage = "update" /\ at.pc = "enter" /\ Plain(at)
  BY <1>1
<1>3. /\ stage = "update" => Reading.admits
      /\ Reading.opened => Reading.holds
      /\ CutFast(Reading, tree) => Reading.holds /\ ~Reading.pending /\ ~Reading.asked
  BY <1>0 DEF Fits, AskedIsOwed, FastIsCut
<1>4. CASE UpdateReturns
  <2>1. stage = "update" /\ Do(To(Released)) /\ ~HoldsToken /\ Released \in {"verdict", "reconcile"}
    BY <1>1, <1>4, ReleasedIs DEF UpdateReturns
  <2>2. Calm(Reading, tree, stage, at)
    BY <1>0, <2>1, NoTokenIsCalm, Asked
  <2>3. Way(Reading, tree, hist.doubled, To(Released)) /\ "pc" \in DOMAIN To(Released)
    BY <2>1, PlacesAre DEF Way
  <2> QED
    BY <2>1, <2>2, <2>3, DoFits
<1>5. CASE TakeToken
  <2> DEFINE x == Event("ship-token", "acquired", "")
  <2>1. stage = "update" /\ Plain(at) /\ ~HoldsToken /\ Stamp(x) /\ at' = at /\ UNCHANGED <<tree, stage, hist>>
    BY <1>1, <1>5 DEF TakeToken, DoStamp, StampAndGo
  <2>2. x.e = "ship-token" /\ x.of = "acquired" /\ StampShape(x)
    BY StampsAreShaped DEF Event
  <2> HIDE DEF x
  <2>3. Reads(x, Reading, Reading')
    BY <2>1, <2>2, InvIs, StampReads
  <2>4. TokenMoved(Reading, Reading') /\ Reading'.holds
    BY <2>2, <2>3, TokenReads
  <2>5. Calm(Reading, tree, stage, at)
    BY <1>0, <2>1, NoTokenIsCalm, Asked
  <2>6. Fits(Reading', tree, hist.doubled, stage, at)
    BY <1>0, <2>1, <2>4, <2>5, TokenFits
  <2>7. Fielded'
    BY <2>1 DEF LaneInv, Fielded
  <2> QED
    BY <2>1, <2>2, <2>6, <2>7, StampFits
<1>6. CASE PreVerdictUpdate
  <2>1. stage = "update" /\ at.pc = "enter" /\ (Reading.holds \/ Reading.opened) /\ Reading.holds /\ Reading.admits
    BY <1>1, <1>3, <1>6, Asked DEF PreVerdictUpdate
  <2>2. \/ Reading.pending /\ Do(Back("verdict", "re-verdict"))
        \/ /\ ~Reading.pending /\ CutFast(Reading, tree)
           /\ Do([pc |-> "stamp", ran |-> TRUE, unnamed |-> FALSE, was |-> Admitted, code |-> Fast.code, recs |-> Fast.recs])
        \/ ~Reading.pending /\ ~CutFast(Reading, tree) /\ Reading.owed /\ Do(Back("reconcile", "re-reconcile"))
        \/ /\ ~Reading.pending /\ ~CutFast(Reading, tree) /\ ~Reading.owed
           /\ IF Capped THEN Do(To("ship")) ELSE DoStamp([UpdateStamp(FALSE, FALSE, "none", "none") EXCEPT !.of = "capped", !.nth = 1], To("ship"))
        \/ ~Reading.pending /\ ~CutFast(Reading, tree) /\ ~Reading.owed /\ Do(Pc("branch-update"))
    <3>1. (Pending <=> Reading.pending) /\ (InterruptedFastPath <=> CutFast(Reading, tree)) /\ (RerunOwed <=> Reading.owed)
      BY Asked
    <3>2. \/ Pending /\ Do(Back("verdict", "re-verdict"))
          \/ /\ ~Pending /\ InterruptedFastPath
             /\ Do([pc |-> "stamp", ran |-> TRUE, unnamed |-> FALSE, was |-> Admitted, code |-> Fast.code, recs |-> Fast.recs])
          \/ ~Pending /\ ~InterruptedFastPath /\ RerunOwed /\ Do(Back("reconcile", "re-reconcile"))
          \/ /\ ~Pending /\ ~InterruptedFastPath /\ ~RerunOwed
             /\ IF Capped THEN Do(To("ship")) ELSE DoStamp([UpdateStamp(FALSE, FALSE, "none", "none") EXCEPT !.of = "capped", !.nth = 1], To("ship"))
          \/ ~Pending /\ ~InterruptedFastPath /\ ~RerunOwed /\ Do(Pc("branch-update"))
      BY <1>6, Zenon DEF PreVerdictUpdate
    <3> QED
      BY <3>1, <3>2
  <2>3. CASE Reading.pending /\ Do(Back("verdict", "re-verdict"))
    <3>1. Calm(Reading, tree, stage, at)
      BY <1>3, <2>1, <2>3 DEF Calm, Unrecorded
    <3>2. Way(Reading, tree, hist.doubled, Back("verdict", "re-verdict")) /\ "pc" \in DOMAIN Back("verdict", "re-verdict")
      BY PlacesAre DEF Way
    <3> QED
      BY <2>3, <3>1, <3>2, DoFits
  <2>4. CASE /\ ~Reading.pending /\ CutFast(Reading, tree)
             /\ Do([pc |-> "stamp", ran |-> TRUE, unnamed |-> FALSE, was |-> Admitted, code |-> Fast.code, recs |-> Fast.recs])
    <3> DEFINE q == [pc |-> "stamp", ran |-> TRUE, unnamed |-> FALSE, was |-> Admitted, code |-> Fast.code, recs |-> Fast.recs]
    <3>1. Go(q) /\ UNCHANGED <<tree, stage, hist>>
      BY <2>4 DEF Do
    <3>2. q.pc = "stamp" /\ q.ran /\ ~q.unnamed /\ q.code = Reading.fast.code /\ q.recs = Reading.fast.recs /\ "pc" \in DOMAIN q
      BY Asked
    <3> HIDE DEF q
    <3>3. OnStamp(Reading, tree, stage, q)
      BY <1>3, <2>1, <2>4, <3>2 DEF OnStamp
    <3>4. OnUpdate(Reading, tree, hist.doubled, stage, q) /\ OnTheWay(Reading, tree, hist.doubled, stage, q) /\ OnShip(Reading, stage, q)
      BY <3>2 DEF OnUpdate, OnTheWay, OnShip, MergePlaces, WatchPlaces
    <3>5. Fits(Reading, tree, hist.doubled, stage, q)
      BY <1>0, <2>1, <3>2, <3>3, <3>4, PlaceFits DEF RoadToStamp
    <3> QED
      BY <3>1, <3>2, <3>5, GoFits
  <2>5. CASE ~Reading.pending /\ ~CutFast(Reading, tree) /\ Reading.owed /\ Do(Back("reconcile", "re-reconcile"))
    <3>1. Calm(Reading, tree, stage, at)
      BY <2>1, <2>5 DEF Calm, Unrecorded
    <3>2. Way(Reading, tree, hist.doubled, Back("reconcile", "re-reconcile")) /\ "pc" \in DOMAIN Back("reconcile", "re-reconcile")
      BY PlacesAre DEF Way
    <3> QED
      BY <2>5, <3>1, <3>2, DoFits
  <2>6. CASE /\ ~Reading.pending /\ ~CutFast(Reading, tree) /\ ~Reading.owed
             /\ IF Capped THEN Do(To("ship")) ELSE DoStamp([UpdateStamp(FALSE, FALSE, "none", "none") EXCEPT !.of = "capped", !.nth = 1], To("ship"))
    <3>1. \A v : Excused(v, hist.doubled) => Way(v, tree, hist.doubled, To("ship"))
      BY PlacesAre DEF Way
    <3>2. "pc" \in DOMAIN To("ship")
      BY PlacesAre
    <3>3. CASE Capped
      <4>1. Excused(Reading, hist.doubled) /\ Go(To("ship")) /\ UNCHANGED <<tree, stage, hist>>
        BY <2>6, <3>3, Asked DEF Excused, Do
      <4>2. Fits(Reading, tree, hist.doubled, stage, To("ship"))
        BY <1>0, <2>1, <2>6, <3>1, <4>1, ExcusedFits
      <4> QED
        BY <3>2, <4>1, <4>2, GoFits
    <3>4. CASE ~Capped
      <4> DEFINE x == [UpdateStamp(FALSE, FALSE, "none", "none") EXCEPT !.of = "capped", !.nth = 1]
      <4>1. Stamp(x) /\ at' = To("ship") /\ UNCHANGED <<tree, stage, hist>>
        BY <2>6, <3>4 DEF DoStamp, StampAndGo
      <4>2. /\ x.e = "pre-verdict-update" /\ x.of = "capped" /\ x.nth = 1 /\ x.pass = Pass /\ ~x.ran /\ ~x.unnamed
            /\ x.sha = tree.sha /\ x.recs = "none" /\ "nth" \in DOMAIN x
        BY DEF UpdateStamp
      <4> HIDE DEF x
      <4>3. ~Moving(x) /\ ~Asking(x) /\ StampShape(x)
        BY <1>0, <4>2 DEF Moving, Asking, StampShape, Unnumbered
      <4>4. Reads(x, Reading, Reading')
        BY <4>1, <4>3, InvIs, StampReads
      <4>5. Way(Reading', tree, hist.doubled, To("ship"))
        BY <3>1, <4>2, <4>4, UpdateReads DEF Excused
      <4>6. Fits(Reading', tree, hist.doubled, stage, To("ship"))
        BY <1>0, <2>1, <2>6, <4>2, <4>3, <4>4, <4>5, CappedFits
      <4>7. Fielded'
        BY <3>2, <4>1 DEF LaneInv, Fielded
      <4> QED
        BY <4>1, <4>3, <4>6, <4>7, StampFits
    <3> QED
      BY <3>3, <3>4
  <2>7. CASE ~Reading.pending /\ ~CutFast(Reading, tree) /\ ~Reading.owed /\ Do(Pc("branch-update"))
    <3> DEFINE q == Pc("branch-update")
    <3>1. Go(q) /\ UNCHANGED <<tree, stage, hist>> /\ q.pc = "branch-update" /\ "pc" \in DOMAIN q
      BY <2>7, PlacesAre DEF Do
    <3> HIDE DEF q
    <3>2. /\ OnUpdate(Reading, tree, hist.doubled, stage, q) /\ OnStamp(Reading, tree, stage, q)
          /\ OnTheWay(Reading, tree, hist.doubled, stage, q) /\ OnShip(Reading, stage, q)
      BY <2>1, <2>7, <3>1 DEF OnUpdate, OnStamp, OnTheWay, OnShip, MergePlaces, WatchPlaces
    <3>3. Fits(Reading, tree, hist.doubled, stage, q)
      BY <1>0, <2>1, <2>7, <3>1, <3>2, PlaceFits DEF RoadToStamp
    <3> QED
      BY <3>1, <3>3, GoFits
  <2> QED
    BY <2>2, <2>3, <2>4, <2>5, <2>6, <2>7
<1> QED
  BY <1>4, <1>5, <1>6

LEMMA DecidesUpdate ==
  ASSUME LaneInv, Unmoved \/ MergedUpdate
  PROVE  LaneInv'
<1> USE DEF Stay
<1>0. /\ Fits(Reading, tree, hist.doubled, stage, at) /\ "pc" \in DOMAIN at /\ "doubled" \in DOMAIN hist /\ tree.sha \in Nat
      /\ {"sha", "base", "code", "recs"} \subseteq DOMAIN tree /\ tree.sha # 0
  BY InvIs
<1> HIDE DEF Reading
<1>1. at.pc \in {"unmoved", "merged"} /\ stage = "update"
  BY DEF Unmoved, MergedUpdate
<1>2. /\ ~Reading.pending /\ ~Reading.owed /\ ~Reading.asked /\ Reading.admits /\ ~CutFast(Reading, tree)
      /\ at.pc = "unmoved" => (at.was <=> Admits(Reading))
  BY <1>0, <1>1 DEF Fits, OnUpdate, AskedIsOwed, FastIsCut, MergePlaces
<1>3. ASSUME NEW q, Do(q), q.pc = "stamp", "pc" \in DOMAIN q,
             \/ (q.unnamed <=> ~q.ran) /\ q.code = "rejudge" /\ (Reading.rendered => q.recs = "rerun")
             \/ ~q.ran /\ ~q.unnamed /\ NamedIn(Reading, tree) /\ q.code = "none" /\ q.recs = "none" /\ (q.was <=> Admits(Reading))
      PROVE  LaneInv'
  <2>1. OnStamp(Reading, tree, stage, q)
    BY <1>1, <1>2, <1>3 DEF OnStamp
  <2>2. OnUpdate(Reading, tree, hist.doubled, stage, q) /\ OnTheWay(Reading, tree, hist.doubled, stage, q) /\ OnShip(Reading, stage, q)
    BY <1>3 DEF OnUpdate, OnTheWay, OnShip, MergePlaces, WatchPlaces
  <2>3. Fits(Reading, tree, hist.doubled, stage, q)
    BY <1>0, <1>2, <1>3, <2>1, <2>2, PlaceFits DEF RoadToStamp
  <2>4. Go(q) /\ UNCHANGED <<tree, stage, hist>>
    BY <1>3 DEF Do
  <2> QED
    BY <1>3, <2>3, <2>4, GoFits
<1>4. OffPath.code = "rejudge" /\ (Reading.rendered => OffPath.recs = "rerun") /\ Quiet.code = "none" /\ Quiet.recs = "none"
  BY Asked DEF OffPath, Quiet
<1>5. CASE Unmoved
  <2>1. at.pc = "unmoved" /\ (at.was <=> Admits(Reading)) /\ (Named <=> NamedIn(Reading, tree))
    BY <1>2, <1>5, Asked DEF Unmoved
  <2>2. CASE Named
    <3>1. Do(ToStamp(FALSE, FALSE, Quiet))
      BY <1>5, <2>2 DEF Unmoved
    <3>2. PICK q : q = ToStamp(FALSE, FALSE, Quiet)
      OBVIOUS
    <3>3. q.pc = "stamp" /\ "pc" \in DOMAIN q /\ ~q.ran /\ ~q.unnamed /\ q.code = "none" /\ q.recs = "none" /\ (q.was <=> at.was)
      BY <1>4, <3>2 DEF ToStamp
    <3> QED
      BY <1>3, <2>1, <2>2, <3>1, <3>2, <3>3
  <2>3. CASE ~Named
    <3>1. Do(ToStamp(FALSE, TRUE, OffPath))
      BY <1>5, <2>3 DEF Unmoved
    <3>2. PICK q : q = ToStamp(FALSE, TRUE, OffPath)
      OBVIOUS
    <3>3. q.pc = "stamp" /\ "pc" \in DOMAIN q /\ (q.unnamed <=> ~q.ran) /\ q.code = "rejudge" /\ (Reading.rendered => q.recs = "rerun")
      BY <1>4, <3>2 DEF ToStamp
    <3> QED
      BY <1>3, <3>1, <3>2, <3>3
  <2> QED
    BY <2>2, <2>3
<1>6. CASE MergedUpdate
  <2>1. CASE FastPath /\ at.was
    <3>1. PICK code \in {"kept", "rejudge"}, recs \in (IF Rendered > 0 THEN {"kept", "rerun"} ELSE {"none"}) :
               /\ StampAndGo([e |-> "fast-path-ship", of |-> "", why |-> "", sha |-> tree.sha, code |-> code, recs |-> recs],
                             ToStamp(TRUE, FALSE, [code |-> code, recs |-> recs]))
               /\ tree' = [tree EXCEPT !.code = IF code = "rejudge" THEN @ ELSE at.from.code,
                                       !.recs = IF recs = "rerun" THEN @ ELSE at.from.recs]
               /\ UNCHANGED <<stage, forge, hist>>
      BY <1>6, <2>1 DEF MergedUpdate
    <3> DEFINE x == [e |-> "fast-path-ship", of |-> "", why |-> "", sha |-> tree.sha, code |-> code, recs |-> recs]
               q == ToStamp(TRUE, FALSE, [code |-> code, recs |-> recs])
    <3>2. Stamp(x) /\ at' = q /\ UNCHANGED <<stage, hist>>
      BY <3>1 DEF StampAndGo
    <3>3. x.e = "fast-path-ship" /\ x.sha = tree.sha /\ x.code = code /\ x.recs = recs /\ "nth" \notin DOMAIN x
      OBVIOUS
    <3>4. StampShape(x)
      BY <3>3 DEF StampShape
    <3>5. q.pc = "stamp" /\ q.ran /\ ~q.unnamed /\ q.code = x.code /\ q.recs = x.recs /\ "pc" \in DOMAIN q
      BY DEF ToStamp
    <3>6. /\ tree'.sha = tree.sha /\ tree'.code = (IF x.code = "rejudge" THEN tree.code ELSE at.from.code)
          /\ tree'.recs = (IF x.recs = "rerun" THEN tree.recs ELSE at.from.recs) /\ DOMAIN tree' = DOMAIN tree
      BY <1>0, <3>1
    <3> HIDE DEF x, q
    <3>7. Reads(x, Reading, Reading')
      BY <3>2, <3>4, InvIs, StampReads
    <3>8. at.pc = "merged" /\ at.was
      BY <1>6, <2>1 DEF MergedUpdate
    <3>9. Fits(Reading', tree', hist.doubled, stage, q)
      BY <1>0, <1>1, <3>3, <3>5, <3>6, <3>7, <3>8, FastFits
    <3>10. Fielded'
      BY <1>0, <3>2, <3>5, <3>6 DEF Fielded
    <3> QED
      BY <3>2, <3>4, <3>9, <3>10, StampFits
  <2>2. CASE ~(FastPath /\ at.was)
    <3>1. Do(ToStamp(TRUE, FALSE, OffPath))
      BY <1>6, <2>2 DEF MergedUpdate
    <3>2. PICK q : q = ToStamp(TRUE, FALSE, OffPath)
      OBVIOUS
    <3>3. q.pc = "stamp" /\ "pc" \in DOMAIN q /\ (q.unnamed <=> ~q.ran) /\ q.code = "rejudge" /\ (Reading.rendered => q.recs = "rerun")
      BY <1>4, <3>2 DEF ToStamp
    <3> QED
      BY <1>3, <3>1, <3>2, <3>3
  <2> QED
    BY <2>1, <2>2
<1> QED
  BY <1>5, <1>6

LEMMA StampsUpdate ==
  ASSUME LaneInv, StampUpdate
  PROVE  LaneInv'
<1>0. /\ Fits(Reading, tree, hist.doubled, stage, at) /\ "pc" \in DOMAIN at /\ "doubled" \in DOMAIN hist /\ tree.sha \in Nat
      /\ {"sha", "base", "code", "recs"} \subseteq DOMAIN tree /\ tree.sha # 0
  BY InvIs
<1>1. Reading.fast.e # "none" => Reading.fast.e = "fast-path-ship" /\ Reading.fast.code \in {"kept", "rejudge"}
  BY InvIs, FastIs
<1> HIDE DEF Reading
<1> DEFINE x == UpdateStamp(at.ran, at.unnamed, at.code, Settled)
           q == IF at.code = "rejudge" THEN Back("verdict", "re-verdict")
                ELSE IF Settled = "rerun" THEN Back("reconcile", "re-reconcile")
                ELSE IF at.unnamed \/ ~at.was THEN Back("verdict", "re-verdict")
                ELSE To("ship")
<1>2. at.pc = "stamp" /\ Stamp(x) /\ at' = q /\ UNCHANGED <<stage, hist>>
  BY DEF StampUpdate, StampAndGo
<1>3. Settled = at.recs \/ (at.recs = "rerun" /\ Settled = "kept")
  BY DEF Settled
<1>4. \/ CutFast(Reading, tree) /\ at.ran /\ ~at.unnamed
      \/ (at.unnamed <=> ~at.ran)
      \/ ~at.ran /\ ~at.unnamed /\ at.recs = "none"
  BY <1>0, <1>2 DEF Fits, OnStamp
<1>5. /\ x.e = "pre-verdict-update" /\ x.of = "" /\ x.sha = tree.sha /\ x.recs = Settled /\ x.ran = at.ran /\ x.unnamed = at.unnamed
      /\ x.nth = (IF at.ran \/ at.unnamed THEN tree.sha + 1 ELSE 0) /\ "nth" \in DOMAIN x
  BY DEF UpdateStamp
<1>6. /\ tree'.sha = tree.sha /\ tree'.code = tree.code /\ DOMAIN tree' = DOMAIN tree
      /\ tree'.recs = (IF at.recs = "rerun" /\ Settled # "rerun" THEN "good" ELSE tree.recs)
  BY <1>0, <1>3 DEF StampUpdate
<1>7. /\ "pc" \in DOMAIN q
      /\ \/ q.pc = "back" /\ q.to \in {"verdict", "reconcile"} /\ "to" \in DOMAIN q
         \/ /\ q.pc = "next" /\ q.to = "ship" /\ "to" \in DOMAIN q
            /\ at.code # "rejudge" /\ Settled # "rerun" /\ ~at.unnamed /\ at.was
  BY PlacesAre
<1> HIDE DEF x, q, Settled
<1>8. (Moving(x) <=> at.ran \/ at.unnamed) /\ (Asking(x) <=> x.recs = "rerun")
  BY <1>5 DEF Moving, Asking
<1>9. x.recs = "rerun" => Moving(x)
  BY <1>3, <1>4, <1>5, <1>8
<1> HIDE DEF Moving, Asking
<1>10. StampShape(x)
  BY <1>0, <1>5, <1>8, <1>9 DEF StampShape, Unnumbered
<1>11. Reads(x, Reading, Reading')
  BY <1>2, <1>10, InvIs, StampReads
<1>12. Fits(Reading', tree', hist.doubled, stage, q)
  <2>1. x.of # "capped" /\ (x.recs = at.recs \/ at.recs = "rerun")
    BY <1>3, <1>5
  <2>2. tree'.recs = (IF at.recs = "rerun" /\ x.recs # "rerun" THEN "good" ELSE tree.recs)
    BY <1>5, <1>6
  <2>3. \/ q.pc = "back" /\ q.to \in {"verdict", "reconcile"} /\ "to" \in DOMAIN q
        \/ /\ q.pc = "next" /\ q.to = "ship" /\ "to" \in DOMAIN q
           /\ at.code # "rejudge" /\ x.recs # "rerun" /\ ~at.unnamed /\ at.was
    BY <1>5, <1>7
  <2> QED
    BY <1>0, <1>1, <1>2, <1>5, <1>6, <1>8, <1>11, <2>1, <2>2, <2>3, StampedFits
<1>13. Fielded'
  BY <1>0, <1>2, <1>6, <1>7 DEF Fielded
<1> QED
  BY <1>2, <1>10, <1>12, <1>13, StampFits

---------------------------------------------------------------------------
(* The ship stage.                                                           *)
LEMMA NamedFits ==
  ASSUME NEW v, NEW w, NEW x, NEW t, NEW d, NEW s, NEW p, NEW q, Fits(v, t, d, s, p), s = "ship", t.sha \in Nat,
         x.e = "branch-update", x.sha = t.sha, Reads(x, v, w), Plain(q)
  PROVE  Fits(w, t, d, s, q)
<1>1. /\ v.head = w.head /\ v.greens = w.greens /\ v.fast = w.fast /\ w.named \subseteq v.named \cup {t.sha}
      /\ (v.pending <=> w.pending) /\ (v.gap => w.gap) /\ (v.open <=> w.open) /\ (v.rendered <=> w.rendered)
      /\ (v.admits <=> w.admits) /\ (v.asked <=> w.asked) /\ (v.owed <=> w.owed)
      /\ (v.holds <=> w.holds) /\ (v.opened <=> w.opened) /\ (v.red <=> w.red) /\ (v.capped => w.capped)
  <2>1. ~Moving(x) /\ x.e \in NamingKinds
    BY DEF Moving, NamingKinds
  <2> HIDE DEF Moving, Asking
  <2> QED
    BY <2>1 DEF Reads, PassReading, CodeReading, RecordsReading, AskReading, TokenReading, ShaReading, CapReading
<1>2. ~Unrecorded(v, t, s, p) /\ ~CutFast(v, t) /\ v.admits
  BY ElsewhereFits
<1>3. /\ CodeStands(v) <=> CodeStands(w)
      /\ CutFast(v, t) <=> CutFast(w, t)
      /\ Excused(v, d) => Excused(w, d)
  BY <1>1 DEF CodeStands, CutFast, Excused
<1>4. StampsArePast(w, t)
  BY <1>1 DEF Fits, StampsArePast
<1>5. ShasAreJudged(w, t, d) /\ ShipsJudged(w, t, d, s)
  BY <1>1, <1>3 DEF Fits, ShasAreJudged, ShipsJudged
<1>6. CodeIsAsked(w, t, d, s, q) /\ RecordsAreAsked(w, t, d, s, q)
  BY <1>1, <1>2, <1>3 DEF Fits, CodeIsAsked, RecordsAreAsked
<1>7. OnUpdate(w, t, d, s, q) /\ OnStamp(w, t, s, q) /\ OnTheWay(w, t, d, s, q) /\ OnShip(w, s, q) /\ q.pc # "opened"
  BY PlainFits
<1>8. AskedIsOwed(w, t, s, q) /\ FastIsCut(w, t, d, s, q)
  BY <1>1, <1>2, <1>3, <1>7 DEF Fits, AskedIsOwed, FastIsCut
<1> QED
  BY <1>4, <1>5, <1>6, <1>7, <1>8 DEF Fits

LEMMA ShipFits ==
  ASSUME LaneInv, ShipStep
  PROVE  LaneInv'
<1> USE DEF Stay
<1>0. /\ Fits(Reading, tree, hist.doubled, stage, at) /\ "pc" \in DOMAIN at /\ "doubled" \in DOMAIN hist /\ tree.sha \in Nat
      /\ {"sha", "base", "code", "recs"} \subseteq DOMAIN tree /\ tree.sha # 0
  BY InvIs
<1> HIDE DEF Reading
<1>1. stage = "ship"
  BY <1>0 DEF ShipStep, ShipReturns, ShipCloses, ShipResumes, OpenPr, StampPrOpened, RequestClosed, StampPrMerged, PushHead, ShipUpdates,
              ShipWatches, ShipUpdated, OnRequest, Ships, In, Fits, OnShip
<1>2. Calm(Reading, tree, stage, at)
  BY <1>0, <1>1, CalmIs
<1>3. /\ \A pc : Pc(pc).pc = pc /\ "pc" \in DOMAIN Pc(pc)
      /\ Plain(Pc("enter")) /\ Plain(Pc("fresh-seat"))
  BY PlacesAre
<1>4. ASSUME NEW q, Do(q), "pc" \in DOMAIN q, Plain(q) \/ Way(Reading, tree, hist.doubled, q) PROVE LaneInv'
  BY <1>2, <1>4, DoFits
<1>5. \A s : s \notin {"ship", "update"} => Way(Reading, tree, hist.doubled, To(s)) /\ "pc" \in DOMAIN To(s)
  BY PlacesAre DEF Way
<1>6. Ships /\ ~Pending => ~Reading.pending /\ ~Reading.red
  BY Asked DEF Ships
<1>7. CASE ShipReturns \/ ShipCloses
  <2>1. Do(To("verdict")) \/ Do(To("reconcile")) \/ Do(To("close-out"))
    BY <1>7 DEF ShipReturns, ShipCloses
  <2> QED
    BY <1>4, <1>5, <2>1
<1>8. CASE ShipResumes \/ RequestClosed
  <2>1. Do(Pc("fresh-seat")) \/ Do(Blocked("pr-closed"))
    BY <1>8 DEF ShipResumes, RequestClosed
  <2> QED
    BY <1>3, <1>4, <2>1, PlacesAre
<1>9. CASE OpenPr
  <2>1. CASE Do(Ask("provisioning-gate", "preflight"))
    BY <1>4, <2>1, PlacesAre
  <2>2. CASE at' = Pc("opened") /\ UNCHANGED <<led, spent, tree, stage, hist>>
    <3> DEFINE q == Pc("opened")
    <3>1. at' = q /\ q.pc = "opened" /\ "pc" \in DOMAIN q /\ Reading.holds
      BY <1>3, <1>9, <2>2, Asked DEF OpenPr
    <3> HIDE DEF q
    <3>2. /\ OnUpdate(Reading, tree, hist.doubled, stage, q) /\ OnStamp(Reading, tree, stage, q)
          /\ OnTheWay(Reading, tree, hist.doubled, stage, q) /\ OnShip(Reading, stage, q)
      BY <1>1, <3>1 DEF OnUpdate, OnStamp, OnTheWay, OnShip, MergePlaces, WatchPlaces
    <3>3. Fits(Reading, tree, hist.doubled, stage, q)
      BY <1>0, <1>2, <3>1, <3>2, PlaceFits DEF Calm
    <3> QED
      BY <2>2, <3>1, <3>3, SpentFits
  <2> QED
    BY <1>9, <2>1, <2>2 DEF OpenPr
<1>10. CASE StampPrOpened
  <2> DEFINE x == Sha("pr-opened", "", tree.sha)
  <2>1. at.pc = "opened" /\ Stamp(x) /\ at' = Pc("enter") /\ UNCHANGED <<tree, stage, hist>>
    BY <1>10 DEF StampPrOpened, DoStamp, StampAndGo
  <2>2. x.e = "pr-opened" /\ StampShape(x)
    BY StampsAreShaped DEF Sha
  <2> HIDE DEF x
  <2>3. Reads(x, Reading, Reading')
    BY <2>1, <2>2, InvIs, StampReads
  <2>4. TokenMoved(Reading, Reading') /\ (Reading'.holds <=> Reading.holds)
    BY <2>2, <2>3, TokenReads
  <2>5. Reading.holds
    BY <1>0, <2>1 DEF Fits, FastIsCut
  <2>6. Fits(Reading', tree, hist.doubled, stage, Pc("enter"))
    BY <1>0, <1>2, <1>3, <2>4, <2>5, TokenFits
  <2>7. Fielded'
    BY <1>3, <2>1 DEF LaneInv, Fielded
  <2> QED
    BY <2>1, <2>2, <2>6, <2>7, StampFits
<1>11. CASE StampPrMerged
  <2>1. PICK x : x = Sha("merged", IF Request.run = "red" THEN "red" ELSE "", Request.head)
    OBVIOUS
  <2>2. StampAndGo(x, at) /\ UNCHANGED <<tree, stage, hist>>
    BY <1>11, <2>1 DEF StampPrMerged, DoStamp
  <2>3. Silent(x)
    BY <2>1, StampsAreSilent DEF ReadKinds, NamingKinds
  <2> QED
    BY <1>0, <2>2, <2>3, SilentFits
<1>12. CASE PushHead
  <2>1. CASE Do(Ask("provisioning-gate", "push"))
    BY <1>4, <2>1, PlacesAre
  <2>2. CASE UNCHANGED <<ledgerVars, tree, stage, hist>>
    BY <1>0, <2>2, SpentFits DEF ledgerVars
  <2> QED
    BY <1>12, <2>1, <2>2 DEF PushHead
<1>13. CASE ShipUpdates \/ ShipWatches
  <2>1. ~Reading.pending /\ ~Reading.red
    BY <1>6, <1>13 DEF ShipUpdates, ShipWatches, OnRequest
  <2>2. PICK pc \in {"branch-update", "watch"} : Do(Pc(pc))
    BY <1>13 DEF ShipUpdates, ShipWatches
  <2>3. PICK q : q = Pc(pc) /\ q.pc = pc /\ "pc" \in DOMAIN q
    BY <1>3
  <2>4. Go(q) /\ UNCHANGED <<tree, stage, hist>>
    BY <2>2, <2>3 DEF Do
  <2>5. /\ OnUpdate(Reading, tree, hist.doubled, stage, q) /\ OnStamp(Reading, tree, stage, q)
        /\ OnTheWay(Reading, tree, hist.doubled, stage, q) /\ OnShip(Reading, stage, q)
    BY <1>1, <2>1, <2>3 DEF OnUpdate, OnStamp, OnTheWay, OnShip, MergePlaces, WatchPlaces
  <2>6. Fits(Reading, tree, hist.doubled, stage, q)
    BY <1>0, <1>2, <2>3, <2>5, PlaceFits DEF Calm
  <2> QED
    BY <2>3, <2>4, <2>6, GoFits
<1>14. CASE ShipUpdated
  <2>1. CASE Do(Ask("provisioning-gate", "push"))
    BY <1>4, <2>1, PlacesAre
  <2>2. CASE Stamp(Sha("branch-update", "", tree.sha)) /\ at' = Pc("enter") /\ UNCHANGED <<spent, tree, stage, hist>>
    <3> DEFINE x == Sha("branch-update", "", tree.sha)
    <3>1. x.e = "branch-update" /\ x.sha = tree.sha /\ StampShape(x) /\ Stamp(x)
      BY <2>2, StampsAreShaped DEF Sha
    <3> HIDE DEF x
    <3>2. Reads(x, Reading, Reading')
      BY <3>1, InvIs, StampReads
    <3>3. Fits(Reading', tree, hist.doubled, stage, Pc("enter"))
      BY <1>0, <1>1, <1>3, <3>1, <3>2, NamedFits
    <3>4. Fielded'
      BY <1>3, <2>2 DEF LaneInv, Fielded
    <3> QED
      BY <2>2, <3>1, <3>3, <3>4, StampFits
  <2> QED
    BY <1>14, <2>1, <2>2 DEF ShipUpdated
<1> QED
  BY <1>7, <1>8, <1>9, <1>10, <1>11, <1>12, <1>13, <1>14 DEF ShipStep

---------------------------------------------------------------------------
(* The run as it enters, judged by its first verdict.                        *)
LEMMA LaneStarts == ShipInit => LaneInv
<1> SUFFICES ASSUME ShipInit PROVE LaneInv
  OBVIOUS
<1>1. PICK a, b : /\ led = <<a, b>>
                  /\ a = Implementation("initial", 1, 1)
                  /\ b = [e |-> "verdict-rendered", of |-> "green", nth |-> 1, why |-> "", sha |-> 1]
  BY DEF ShipInit, ShipStart
<1>2. /\ a.e = "implementation-committed" /\ a.of = "initial" /\ a.nth = 1 /\ a.sha = 1
      /\ b.e = "verdict-rendered" /\ b.of = "green" /\ b.nth = 1 /\ b.sha = 1 /\ "nth" \in DOMAIN b
  BY <1>1 DEF Implementation
<1>3. /\ at = Pc("enter") /\ stage = "reconcile" /\ "doubled" \in DOMAIN hist
      /\ tree = [sha |-> 1, base |-> 0, code |-> "good", recs |-> IF RecordsOwed THEN "bad" ELSE "good"]
  BY DEF ShipInit, ShipStart
<1>4. StampShape(a)
  BY <1>1, StampsAreShaped
<1>5. StampShape(b)
  BY <1>2 DEF StampShape, Unnumbered
<1>6. IsLedger /\ DOMAIN led = 1..2 /\ led[1] = a /\ led[2] = b
  <2>a. led = <<a, b>>
    BY <1>1
  <2>1. led \in Seq({a, b}) /\ DOMAIN led = 1..2 /\ led[1] = a /\ led[2] = b
    BY <2>a
  <2>2. Range(led) = {a, b}
    BY <2>1 DEF Range
  <2> QED
    BY <2>1, <2>2 DEF IsLedger
<1>7. \A i \in DOMAIN led : i = 1 \/ i = 2
  BY <1>6
<1>8. Shaped
  BY <1>4, <1>5, <1>6, <1>7 DEF Shaped
<1>9. Fielded
  BY <1>3, PlacesAre DEF Fielded
<1>10. /\ \A e : e \notin {"implementation-committed", "verdict-rendered"} => SeqsOf(e) = {}
       /\ \A e, of : e \notin {"implementation-committed", "verdict-rendered"} => Seqs(e, of) = {}
       /\ SeqsOf("implementation-committed") = {1} /\ Seqs("implementation-committed", "fresh") = {}
       /\ SeqsOf("verdict-rendered") = {2} /\ Greens = {2}
  BY <1>2, <1>6, <1>7 DEF SeqsOf, Seqs, Greens
<1>11. HeadMoves = {1} /\ Asks = {} /\ UpdateAsks = {} /\ Naming = {}
  BY <1>2, <1>6, <1>7, <1>10 DEF HeadMoves, MovedUpdates, Asks, UpdateAsks, Naming, NamingKinds
<1>12. Newest({}) = 0 /\ Newest({1}) = 1 /\ Newest({2}) = 2
  <2>1. {1} \subseteq 1..2 /\ {2} \subseteq 1..2 /\ {} \subseteq 1..2
    OBVIOUS
  <2> QED
    BY <2>1, NewestIs
<1>13. /\ FreshPass = 0 /\ LastImpl = 1 /\ LastFresh = 0 /\ LastMove = 1 /\ LastRender = 2 /\ LastRecords = 0
       /\ LastFast = 0 /\ LastAsk = 0 /\ LastUpdateAsk = 0 /\ LastToken = 0 /\ LastOpened = 0 /\ LastFailed = 0
  BY <1>10, <1>11, <1>12 DEF FreshPass, LastImpl, LastFresh, LastMove, LastRender, LastRecords, LastFast, LastAsk, LastUpdateAsk,
                             LastToken, LastOpened, LastFailed
<1>14. ReadingSays
  BY <1>6, ReadingIs
<1>15. Reading.greens = {1} /\ Reading.named = {}
  BY <1>2, <1>6, <1>10, <1>11 DEF Reading
<1> HIDE DEF Reading
<1>16. /\ ~Reading.pending /\ Reading.head = 1 /\ Reading.fast = [e |-> "none", sha |-> 0] /\ ~Reading.rendered /\ Reading.admits
       /\ ~Reading.asked /\ ~Reading.owed /\ ~Reading.holds /\ ~Reading.opened
  BY <1>2, <1>6, <1>13, <1>14 DEF ReadingSays
<1>17. ~CarriedFastPath(Reading.fast) /\ ~CutFast(Reading, tree)
  BY <1>16 DEF CarriedFastPath, CutFast
<1>18. Plain(at) /\ at.pc = "enter"
  BY <1>3, PlacesAre
<1>19. StampsArePast(Reading, tree) /\ ShasAreJudged(Reading, tree, hist.doubled)
  BY <1>3, <1>15, <1>16, <1>17 DEF StampsArePast, ShasAreJudged
<1>20. CodeIsAsked(Reading, tree, hist.doubled, stage, at) /\ RecordsAreAsked(Reading, tree, hist.doubled, stage, at)
  BY <1>3, <1>16 DEF CodeIsAsked, RecordsAreAsked
<1>21. /\ AskedIsOwed(Reading, tree, stage, at) /\ FastIsCut(Reading, tree, hist.doubled, stage, at)
       /\ ShipsJudged(Reading, tree, hist.doubled, stage)
  BY <1>3, <1>16, <1>17, <1>18 DEF AskedIsOwed, FastIsCut, ShipsJudged
<1> QED
  BY <1>6, <1>8, <1>9, <1>18, <1>19, <1>20, <1>21, PlainFits DEF LaneInv, Fits

LEMMA LaneSteps == LaneInv /\ [ShipNext]_laneVars => LaneInv'
BY PassesFit, WatchFits, VerdictFits, RecordsFit, EntersUpdate, DecidesUpdate, StampsUpdate, MergesFit, StallsFit, ShipFits, ParksFit
   DEF ShipNext, CertifyStep, UpdateStep, MergeStep

(* Three steps change the head of the request.                               *)
RequestStands == "request" \in DOMAIN forge /\ {"head", "code", "recs"} \subseteq DOMAIN Request
Pushing == /\ OpenPr \/ PushHead \/ ShipUpdated
           /\ Request.head # tree.sha /\ forge'.request.code = tree.code /\ forge'.request.recs = tree.recs

LEMMA RequestMoves ==
  ASSUME RequestStands, [ShipNext]_laneVars
  PROVE  RequestStands' /\ (Pushes => Pushing)
<1> USE DEF Request
<1>1. ASSUME UNCHANGED forge PROVE RequestStands' /\ (Pushes => Pushing)
  BY <1>1 DEF RequestStands, Pushes
<1>2. ASSUME NEW r, "head" \in DOMAIN r, DOMAIN r = DOMAIN Request, r.head = Request.head,
             "request" \in DOMAIN forge', forge'.request = r
      PROVE  RequestStands' /\ (Pushes => Pushing)
  BY <1>2 DEF RequestStands, Pushes
<1>3. /\ DOMAIN Pushed = DOMAIN Request
      /\ Pushed.head # Request.head => Request.head # tree.sha /\ Pushed.code = tree.code /\ Pushed.recs = tree.recs
  BY DEF Pushed, RequestStands
<1>4. ASSUME OpenPr \/ PushHead \/ ShipUpdated, NEW r, forge' = [forge EXCEPT !.request = r], DOMAIN r = DOMAIN Request,
             r.head = Pushed.head, r.code = Pushed.code, r.recs = Pushed.recs
      PROVE  RequestStands' /\ (Pushes => Pushing)
  <2>1. "request" \in DOMAIN forge' /\ forge'.request = r
    BY <1>4 DEF RequestStands
  <2> QED
    BY <1>3, <1>4, <2>1 DEF RequestStands, Pushes, Pushing
<1>a. ASSUME NEW r, DOMAIN r = DOMAIN Request, r.head = Request.head, "request" \in DOMAIN forge', forge'.request = r
      PROVE  RequestStands' /\ (Pushes => Pushing)
  BY <1>2, <1>a DEF RequestStands
<1>5. CASE BaseMoves \/ ForgeStep
  <2>1. CASE BaseMoves
    <3>1. "request" \in DOMAIN forge' /\ forge'.request = Request
      BY <2>1 DEF BaseMoves, RequestStands
    <3> QED
      BY <1>a, <3>1
  <2>2. CASE CheckStarts \/ WorkflowEnds \/ HandOpens
    <3>1. PICK r : /\ forge' = [forge EXCEPT !.request = r]
                   /\ \/ r = [Request EXCEPT !.run = "running", !.wf = "executing"]
                      \/ r = [Request EXCEPT !.wf = "completed"]
                      \/ r = [Request EXCEPT !.state = "open"]
      BY <2>2 DEF CheckStarts, WorkflowEnds, HandOpens, Forge
    <3>2. DOMAIN r = DOMAIN Request /\ r.head = Request.head
      BY <3>1 DEF RequestStands
    <3>3. "request" \in DOMAIN forge' /\ forge'.request = r
      BY <3>1 DEF RequestStands
    <3> QED
      BY <1>a, <3>2, <3>3
  <2>3. CASE CheckConcludes
    <3>1. PICK to, r : r = [Request EXCEPT !.run = to] /\ forge' = [forge EXCEPT !.request = r, !.reds = IF to = "green" THEN @ ELSE @ + 1]
      BY <2>3 DEF CheckConcludes
    <3>2. DOMAIN r = DOMAIN Request /\ r.head = Request.head
      BY <3>1 DEF RequestStands
    <3>3. "request" \in DOMAIN forge' /\ forge'.request = r
      BY <3>1 DEF RequestStands
    <3> QED
      BY <1>a, <3>2, <3>3
  <2>4. CASE AutoMerge \/ HandMerge
    <3>1. PICK red, r : r = [Request EXCEPT !.state = "merged"] /\ forge' = [forge EXCEPT !.request = r, !.main = @ + 1, !.byHand = @ \/ red]
      BY <2>4 DEF AutoMerge, HandMerge, Merges
    <3>2. DOMAIN r = DOMAIN Request /\ r.head = Request.head
      BY <3>1 DEF RequestStands
    <3>3. "request" \in DOMAIN forge' /\ forge'.request = r
      BY <3>1 DEF RequestStands
    <3> QED
      BY <1>a, <3>2, <3>3
  <2>5. CASE HandCloses
    <3>1. PICK r : r = [Request EXCEPT !.state = "closed"] /\ forge' = [forge EXCEPT !.request = r, !.byHand = TRUE]
      BY <2>5 DEF HandCloses
    <3>2. DOMAIN r = DOMAIN Request /\ r.head = Request.head
      BY <3>1 DEF RequestStands
    <3>3. "request" \in DOMAIN forge' /\ forge'.request = r
      BY <3>1 DEF RequestStands
    <3> QED
      BY <1>a, <3>2, <3>3
  <2>6. CASE Drops \/ LosesDelivery
    <3>1. PICK r : /\ forge' = [forge EXCEPT !.request = r, !.drops = @ + 1]
                   /\ r = [Request EXCEPT !.armed = FALSE] \/ r = [Request EXCEPT !.run = "undelivered"]
      BY <2>6 DEF Drops, LosesDelivery
    <3>2. DOMAIN r = DOMAIN Request /\ r.head = Request.head
      BY <3>1 DEF RequestStands
    <3>3. "request" \in DOMAIN forge' /\ forge'.request = r
      BY <3>1 DEF RequestStands
    <3> QED
      BY <1>a, <3>2, <3>3
  <2> QED
    BY <1>5, <2>1, <2>2, <2>3, <2>4, <2>5, <2>6 DEF ForgeStep
<1>6. CASE WatchStep
  <2>1. UNCHANGED forge \/ ("request" \in DOMAIN forge' /\ DOMAIN forge'.request = DOMAIN Request /\ forge'.request.head = Request.head)
    BY <1>6 DEF RequestStands, WatchStep, Observe, WatchChecks, PollAgain, HandleRed, StampRerun, HandleCancelled, CiTriage, TriageFails,
                TriageRenders, Checkless, GreenNoMerge, Rearm, Watch, WatchStamp
  <2> QED
    BY <1>1, <1>2, <2>1 DEF RequestStands
<1>7. CASE Next1 \/ GiveBack \/ CertifyStep \/ LaneParks \/ UNCHANGED laneVars
  <2>1. UNCHANGED forge
    BY <1>7 DEF Next1, GiveBack, CertifyStep, VerdictCycle, VerdictRepairs, VerdictLeaves, VerdictResumes, VerdictImplements,
                ReconcileWrites, ReconcileRenders, ReconcileFallsBack, ReconcileResumes, ReconcileLeaves, LaneParks, ParkReleases,
                Do, DoStamp, Stay, laneVars
  <2> QED
    BY <1>1, <2>1
<1>8. CASE UpdateStep \/ MergeStep
  <2>1. UNCHANGED forge
    BY <1>8 DEF UpdateStep, UpdateReturns, TakeToken, PreVerdictUpdate, Unmoved, MergedUpdate, StampUpdate, MergeStep, BranchUpdate,
                MergeRound, MergeConcluded, MergeStall, FreshPassStarts, FreshSeat, Do, DoStamp, Stay
  <2> QED
    BY <1>1, <2>1
<1>9. CASE ShipStep
  <2>1. CASE ShipReturns \/ ShipCloses \/ ShipResumes \/ StampPrOpened \/ RequestClosed \/ StampPrMerged \/ ShipUpdates \/ ShipWatches
    <3>1. UNCHANGED forge
      BY <2>1 DEF ShipReturns, ShipCloses, ShipResumes, StampPrOpened, RequestClosed, StampPrMerged, ShipUpdates, ShipWatches, Do, DoStamp, Stay
    <3> QED
      BY <1>1, <3>1
  <2>2. CASE OpenPr
    <3>1. CASE UNCHANGED forge
      BY <1>1, <3>1
    <3>2. CASE forge' = [forge EXCEPT !.request = [Pushed EXCEPT !.state = IF @ = "none" THEN "open" ELSE @, !.armed = TRUE]]
      <4>1. PICK r : r = [Pushed EXCEPT !.state = IF @ = "none" THEN "open" ELSE @, !.armed = TRUE]
        OBVIOUS
      <4>2. DOMAIN r = DOMAIN Request /\ r.head = Pushed.head /\ r.code = Pushed.code /\ r.recs = Pushed.recs
        BY <1>3, <4>1 DEF RequestStands
      <4> QED
        BY <1>4, <2>2, <3>2, <4>1, <4>2
    <3> QED
      BY <2>2, <3>1, <3>2 DEF OpenPr, Do, Stay
  <2>3. CASE PushHead
    <3>1. UNCHANGED forge \/ forge' = [forge EXCEPT !.request = Pushed]
      BY <2>3 DEF PushHead, Do, Stay
    <3> QED
      BY <1>1, <1>3, <1>4, <2>3, <3>1
  <2>4. CASE ShipUpdated
    <3>1. UNCHANGED forge \/ forge' = [forge EXCEPT !.request = Pushed] \/ forge' = [forge EXCEPT !.request = Request]
      BY <2>4 DEF ShipUpdated, Do, Stay
    <3>2. CASE forge' = [forge EXCEPT !.request = Request]
      <4>1. "request" \in DOMAIN forge' /\ forge'.request = Request
        BY <3>2 DEF RequestStands
      <4> QED
        BY <1>2, <4>1 DEF RequestStands
    <3> QED
      BY <1>1, <1>3, <1>4, <2>4, <3>1, <3>2
  <2> QED
    BY <1>9, <2>1, <2>2, <2>3, <2>4 DEF ShipStep
<1> QED
  BY <1>5, <1>6, <1>7, <1>8, <1>9 DEF ShipNext

LEMMA PushesCarry ==
  ASSUME LaneInv, RequestStands, ShipNext, Pushes, ~Gaps
  PROVE  Carries(forge'.request)
<1>1. Pushing
  BY RequestMoves
<1>2. stage = "ship" /\ ~Reading.pending /\ ~Reading.red
  <2>1. CASE OpenPr \/ PushHead
    BY <2>1, Asked DEF OpenPr, PushHead, OnRequest, Ships, In
  <2>2. CASE ShipUpdated
    <3>1. stage = "ship" /\ at.pc \in MergePlaces
      BY <2>2 DEF ShipUpdated, MergePlaces
    <3> QED
      BY <3>1, InvIs DEF Fits, OnShip
  <2> QED
    BY <1>1, <2>1, <2>2 DEF Pushing
<1>3. ~Excused(Reading, hist.doubled) /\ ~Reading.gap
  <2>1. ~Capped /\ ~hist.doubled /\ ~(FreshPass > 0 /\ After(Seqs("implementation-committed", "fresh"), LastRender))
    BY DEF Gaps
  <2>2. Reading.gap <=> FreshPass > 0 /\ After(Seqs("implementation-committed", "fresh"), LastRender)
    BY DEF Reading
  <2> QED
    BY <2>1, <2>2, Asked DEF Excused
<1> HIDE DEF Reading
<1>4. ShipsJudged(Reading, tree, hist.doubled, stage)
  BY InvIs DEF Fits
<1>5. tree.code # "bad" /\ tree.recs # "bad"
  BY <1>2, <1>3, <1>4 DEF ShipsJudged, IsBad
<1> QED
  BY <1>1, <1>5 DEF Pushing, Carries

(* Nothing a stop left unjudged reaches the request, for every cap of        *)
(* updates, every merge of the other runs and every stop: what is pushed was *)
(* judged or carried, or the run is in one of the gaps the property names    *)
(* (src/lanes/ship.mjs).                                                     *)
THEOREM WhatIsPushedWasJudged == ShipLaneSpec => RequestCarriesAJudgedTree
<1>1. ShipInit => LaneInv /\ RequestStands
  <2>1. ASSUME ShipInit PROVE RequestStands
    <3>1. PICK m, r, h, d, o, v : /\ r = NoRequest
                                  /\ forge = [main |-> m, request |-> r, byHand |-> h, reds |-> d, drops |-> o, moves |-> v]
      BY <2>1 DEF ShipInit, ShipStart
    <3>2. "request" \in DOMAIN forge /\ forge.request = r
      BY <3>1
    <3>3. {"head", "code", "recs"} \subseteq DOMAIN r
      BY <3>1 DEF NoRequest
    <3> QED
      BY <3>2, <3>3 DEF RequestStands, Request
  <2> QED
    BY <2>1, LaneStarts
<1>2. LaneInv /\ RequestStands /\ [ShipNext]_laneVars => LaneInv' /\ RequestStands'
  BY LaneSteps, RequestMoves
<1>3. LaneInv /\ RequestStands /\ [ShipNext]_laneVars => [Pushes /\ ~Gaps => Carries(forge'.request)]_laneVars
  BY PushesCarry
<1> QED
  BY <1>1, <1>2, <1>3, PTL DEF ShipLaneSpec, RequestCarriesAJudgedTree
=============================================================================
