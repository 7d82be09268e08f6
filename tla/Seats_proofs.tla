---------------------------- MODULE Seats_proofs ----------------------------
(***************************************************************************)
(* What the work of the seats keeps.  First the semaphores, for any        *)
(* models, caps, edits and sessions: nobody queues before an open slot,    *)
(* no grant goes over its cap, no slot leaks and nobody is let in past     *)
(* who came before.  Each is proved of the desk first, operation by        *)
(* operation, and a step of a session is then a chain of those             *)
(* operations.  Then the record writers, for any records, findings and     *)
(* stops: an author starts over a clean branch, a round of writers is      *)
(* spent once, and a green render is earned.                               *)
(***************************************************************************)
EXTENDS SeatSlots, Reconcile, LaneLedger_proofs

Desks == [held : [Models -> Int], queue : [Models -> Seq(Seats)], seat : [Seats -> Session]]

(* Nobody stands before an open slot of the caps. *)
Awake(x, caps) ==
  \A m \in Models : x.queue[m] # <<>> => caps[m] # NoCap /\ x.held[m] >= caps[m]

(* From x to y nothing was granted over a cap. *)
Under(x, y, caps) ==
  \A m \in Models : y.held[m] > x.held[m] /\ caps[m] # NoCap => y.held[m] <= caps[m]

(* Only the sessions differ. *)
SameSlots(x, y) == y.held = x.held /\ y.queue = x.queue

LEMMA UnderChains ==
  ASSUME NEW x \in Desks, NEW y \in Desks, NEW z \in Desks, NEW caps \in [Models -> Nat],
         Under(x, y, caps), Under(y, z, caps)
  PROVE  Under(x, z, caps)
<1> SUFFICES ASSUME NEW m \in Models, z.held[m] > x.held[m], caps[m] # NoCap
             PROVE  z.held[m] <= caps[m]
  BY DEF Under
<1>1. x.held[m] \in Int /\ y.held[m] \in Int /\ z.held[m] \in Int /\ caps[m] \in Nat
  BY DEF Desks
<1>2. /\ y.held[m] > x.held[m] => y.held[m] <= caps[m]
      /\ z.held[m] > y.held[m] => z.held[m] <= caps[m]
  BY DEF Under
<1> QED
  BY <1>1, <1>2

---------------------------------------------------------------------------
(* The operations of the semaphore. *)

LEMMA RoomBounds ==
  ASSUME NEW h \in Int, NEW cap \in Nat, NEW n \in Nat
  PROVE  /\ Room(h, cap, n) \in 0..n
         /\ Room(h, cap, n) # n => cap # NoCap /\ h + Room(h, cap, n) >= cap
         /\ Room(h, cap, n) > 0 /\ cap # NoCap => h + Room(h, cap, n) <= cap
BY DEF Room, NoCap

LEMMA SessionTyping ==
  ASSUME NEW x \in Session
  PROVE  /\ LetIn(x) \in Session /\ Afresh(x) \in Session /\ Told(x) \in Session
         /\ \A p \in Places : [x EXCEPT !.at = p] \in Session
         /\ \A m \in Models : [x EXCEPT !.model = m] \in Session
         /\ [x EXCEPT !.counted = FALSE] \in Session /\ [x EXCEPT !.hung = TRUE] \in Session
         /\ x.left > 0 => [x EXCEPT !.at = "child", !.left = @ - 1] \in Session
<1>1. Over \in Session
  BY SlotsAssumption DEF Over, Session, Places
<1>2. /\ LetIn(x) \in Session /\ Afresh(x) \in Session
      /\ [x EXCEPT !.counted = FALSE] \in Session /\ [x EXCEPT !.hung = TRUE] \in Session
  BY DEF LetIn, Afresh, Session, Places
<1>3. /\ \A p \in Places : [x EXCEPT !.at = p] \in Session
      /\ \A m \in Models : [x EXCEPT !.model = m] \in Session
  BY DEF Session
<1>4. Told(x) \in Session
  <2>1. [x EXCEPT !.told = TRUE] \in Session
    BY DEF Session
  <2> QED
    BY <1>1, <2>1 DEF Told
<1>5. x.left > 0 => [x EXCEPT !.at = "child", !.left = @ - 1] \in Session
  <2> SUFFICES ASSUME x.left > 0 PROVE [x EXCEPT !.at = "child", !.left = x.left - 1] \in Session
    OBVIOUS
  <2>1. x.left - 1 \in Nat
    BY DEF Session
  <2> QED
    BY <2>1 DEF Session, Places
<1> QED
  BY <1>2, <1>3, <1>4, <1>5

(* A drain leaves the models it serves awake, and the others as they were. *)
LEMMA DrainServes ==
  ASSUME NEW x \in Desks, NEW models \in SUBSET Models, NEW caps \in [Models -> Nat]
  PROVE  /\ Drain(x, models, caps) \in Desks /\ Under(x, Drain(x, models, caps), caps)
         /\ \A m \in models : Drain(x, models, caps).queue[m] # <<>> =>
              caps[m] # NoCap /\ Drain(x, models, caps).held[m] >= caps[m]
         /\ \A m \in Models \ models :
              /\ Drain(x, models, caps).queue[m] = x.queue[m]
              /\ Drain(x, models, caps).held[m] = x.held[m]
<1> DEFINE n(m) == Len(x.queue[m])
           k == [m \in Models |-> IF m \in models THEN Room(x.held[m], caps[m], n(m)) ELSE 0]
           h == [m \in Models |-> x.held[m] + k[m]]
           q == [m \in Models |-> SubSeq(x.queue[m], k[m] + 1, n(m))]
           d == [s \in Seats |-> IF Served(x, k, s) THEN LetIn(x.seat[s]) ELSE x.seat[s]]
           y == Drain(x, models, caps)
<1>1. /\ x.held \in [Models -> Int] /\ x.queue \in [Models -> Seq(Seats)]
      /\ x.seat \in [Seats -> Session] /\ \A m \in Models : n(m) \in Nat
  BY DEF Desks
<1>2. y = [held |-> h, queue |-> q, seat |-> d]
  BY DEF Drain
<1>3. ASSUME NEW m \in Models
      PROVE  /\ k[m] \in 0..n(m)
             /\ m \in models /\ k[m] # n(m) => caps[m] # NoCap /\ h[m] >= caps[m]
             /\ h[m] > x.held[m] /\ caps[m] # NoCap => h[m] <= caps[m]
             /\ m \notin models => h[m] = x.held[m] /\ k[m] = 0
  <2>1. /\ x.held[m] \in Int /\ n(m) \in Nat /\ caps[m] \in Nat
        /\ h[m] = x.held[m] + k[m]
        /\ k[m] = IF m \in models THEN Room(x.held[m], caps[m], n(m)) ELSE 0
    BY <1>1
  <2> HIDE DEF h, k, n
  <2>2. m \in models =>
          /\ k[m] \in 0..n(m)
          /\ k[m] # n(m) => caps[m] # NoCap /\ h[m] >= caps[m]
          /\ k[m] > 0 /\ caps[m] # NoCap => h[m] <= caps[m]
    BY <2>1, RoomBounds
  <2> QED
    BY <2>1, <2>2
<1>4. ASSUME NEW m \in Models
      PROVE  /\ q[m] \in Seq(Seats) /\ Len(q[m]) = n(m) - k[m]
             /\ k[m] = 0 => q[m] = x.queue[m]
  <2> DEFINE s == x.queue[m]
             t == SubSeq(s, k[m] + 1, n(m))
  <2>1. s \in Seq(Seats) /\ n(m) \in Nat /\ k[m] \in 0..n(m) /\ n(m) = Len(s)
    BY <1>1, <1>3
  <2> HIDE DEF s, k
  <2>2. /\ t \in Seq(Seats) /\ Len(t) = n(m) - k[m]
        /\ \A i \in 1..(n(m) - k[m]) : t[i] = s[k[m] + i]
    BY <2>1, SubSeqProperties
  <2> HIDE DEF t
  <2>3. k[m] = 0 => t = s
    BY <2>1, <2>2, SeqEqual
  <2> QED
    BY <2>2, <2>3 DEF t, s
<1>5. h \in [Models -> Int] /\ q \in [Models -> Seq(Seats)] /\ d \in [Seats -> Session]
  <2>1. d \in [Seats -> Session]
    <3> SUFFICES ASSUME NEW s \in Seats PROVE d[s] \in Session
      OBVIOUS
    <3> QED
      BY <1>1, SessionTyping
  <2>2. h \in [Models -> Int]
    <3> SUFFICES ASSUME NEW m \in Models PROVE h[m] \in Int
      OBVIOUS
    <3>1. x.held[m] \in Int /\ k[m] \in Int /\ h[m] = x.held[m] + k[m]
      BY <1>1, <1>3
    <3> HIDE DEF h, k
    <3> QED
      BY <3>1
  <2>3. q \in [Models -> Seq(Seats)]
    BY <1>4
  <2> QED
    BY <2>1, <2>2, <2>3
<1> HIDE DEF h, q, d, y, k
<1>6. y \in Desks /\ y.held = h /\ y.queue = q
  BY <1>2, <1>5 DEF Desks
<1>7. \A m \in models : q[m] # <<>> => caps[m] # NoCap /\ h[m] >= caps[m]
  <2> SUFFICES ASSUME NEW m \in models, q[m] # <<>> PROVE k[m] # n(m)
    BY <1>3
  <2> QED
    BY <1>1, <1>4
<1>8. Under(x, y, caps)
  BY <1>3, <1>6 DEF Under
<1>9. \A m \in Models \ models : q[m] = x.queue[m] /\ h[m] = x.held[m]
  BY <1>3, <1>4
<1> QED
  BY <1>6, <1>7, <1>8, <1>9 DEF y

(* What an operation on the desk has to be, by the caps as they stand. *)
Lawful(x, y) == y \in Desks /\ Awake(y, limits) /\ Under(x, y, limits)

LEMMA AcquireIsLawful ==
  ASSUME limits \in [Models -> Nat], NEW x \in Desks, Awake(x, limits), NEW s \in Seats, NEW m \in Models
  PROVE  Lawful(x, Acquire(x, s, m))
<1> DEFINE y == [x EXCEPT !.seat[s].model = m]
<1>1. /\ x.held \in [Models -> Int] /\ x.queue \in [Models -> Seq(Seats)]
      /\ x.seat \in [Seats -> Session] /\ x.held[m] \in Int /\ limits[m] \in Nat
  BY DEF Desks
<1>2. y \in Desks /\ y.held = x.held /\ y.queue = x.queue /\ y.seat[s] \in Session
  <2>1. [x.seat[s] EXCEPT !.model = m] \in Session
    BY <1>1, SessionTyping
  <2> QED
    BY <2>1 DEF Desks
<1> HIDE DEF y
<1>3. ASSUME NEW d \in Session PROVE [y.seat EXCEPT ![s] = d] \in [Seats -> Session]
  BY <1>2 DEF Desks
<1>4. [y.seat[s] EXCEPT !.at = "in"] \in Session /\ [y.seat[s] EXCEPT !.at = "queued"] \in Session
  BY <1>2, SessionTyping DEF Places
<1>5. CASE limits[m] = NoCap
  <2>1. Acquire(x, s, m) = [y EXCEPT !.seat[s].at = "in"]
    BY <1>5 DEF Acquire, y
  <2>2. Acquire(x, s, m) \in Desks /\ SameSlots(x, Acquire(x, s, m))
    BY <1>2, <1>3, <1>4, <2>1 DEF Desks, SameSlots
  <2> QED
    BY <2>2, <1>1 DEF Lawful, Awake, Under, SameSlots
<1>6. CASE limits[m] # NoCap /\ x.held[m] < limits[m] /\ x.queue[m] = <<>>
  <2>1. Acquire(x, s, m) = [y EXCEPT !.held[m] = @ + 1, !.seat[s] = LetIn(@)]
    BY <1>6 DEF Acquire, y
  <2> DEFINE z == Acquire(x, s, m)
  <2>2. z.held = [x.held EXCEPT ![m] = @ + 1] /\ z.queue = x.queue /\ z \in Desks
    <3>1. LetIn(y.seat[s]) \in Session
      BY <1>2, SessionTyping
    <3>2. [x.held EXCEPT ![m] = @ + 1] \in [Models -> Int]
      BY <1>1
    <3> QED
      BY <1>2, <1>3, <2>1, <3>1, <3>2 DEF Desks
  <2> HIDE DEF z
  <2>3. z.held[m] = x.held[m] + 1 /\ \A o \in Models \ {m} : z.held[o] = x.held[o]
    BY <1>1, <2>2
  <2>4. Awake(z, limits)
    BY <1>6, <2>2, <2>3 DEF Awake
  <2>5. Under(x, z, limits)
    <3> SUFFICES ASSUME NEW o \in Models, z.held[o] > x.held[o], limits[o] # NoCap
                 PROVE  z.held[o] <= limits[o]
      BY DEF Under
    <3>1. o = m
      BY <2>3, <1>1
    <3> QED
      BY <1>1, <1>6, <2>3, <3>1
  <2> QED
    BY <2>2, <2>4, <2>5 DEF Lawful, z
<1>7. CASE limits[m] # NoCap /\ ~(x.held[m] < limits[m] /\ x.queue[m] = <<>>)
  <2>1. Acquire(x, s, m) = [y EXCEPT !.queue[m] = Append(@, s), !.seat[s].at = "queued"]
    BY <1>7 DEF Acquire, y
  <2> DEFINE z == Acquire(x, s, m)
  <2>2. z.held = x.held /\ z.queue = [x.queue EXCEPT ![m] = Append(@, s)] /\ z \in Desks
    <3>1. [x.queue EXCEPT ![m] = Append(@, s)] \in [Models -> Seq(Seats)]
      BY <1>1
    <3>2. [y.seat EXCEPT ![s] = [@ EXCEPT !.at = "queued"]] \in [Seats -> Session]
      BY <1>2, <1>3, <1>4
    <3>3. z = [held |-> x.held, queue |-> [x.queue EXCEPT ![m] = Append(@, s)],
               seat |-> [y.seat EXCEPT ![s] = [@ EXCEPT !.at = "queued"]]]
      BY <1>2, <2>1 DEF Desks
    <3> QED
      BY <1>1, <3>1, <3>2, <3>3 DEF Desks
  <2> HIDE DEF z
  <2>3. x.held[m] >= limits[m]
    BY <1>1, <1>7 DEF Awake
  <2>4. \A o \in Models \ {m} : z.queue[o] = x.queue[o]
    BY <1>1, <2>2
  <2> QED
    BY <1>1, <1>7, <2>2, <2>3, <2>4 DEF Lawful, Awake, Under, z
<1> QED
  BY <1>5, <1>6, <1>7

LEMMA ReleaseIsLawful ==
  ASSUME limits \in [Models -> Nat], NEW x \in Desks, Awake(x, limits), NEW s \in Seats
  PROVE  Lawful(x, Release(x, s))
<1> DEFINE m == x.seat[s].model
           w == [x EXCEPT !.held[m] = @ - 1, !.seat[s].counted = FALSE]
           z == Drain(w, {m}, limits)
<1>1. CASE ~x.seat[s].counted
  BY <1>1 DEF Release, Lawful, Under, Desks
<1>2. CASE x.seat[s].counted
  <2>1. /\ x.held \in [Models -> Int] /\ x.queue \in [Models -> Seq(Seats)]
        /\ x.seat \in [Seats -> Session] /\ m \in Models /\ x.held[m] \in Int
    BY DEF Desks, Session
  <2>2. /\ w \in Desks /\ w.queue = x.queue
        /\ w.held[m] = x.held[m] - 1 /\ \A o \in Models \ {m} : w.held[o] = x.held[o]
    <3>1. [x.seat[s] EXCEPT !.counted = FALSE] \in Session
      BY <2>1, SessionTyping
    <3>2. [x.held EXCEPT ![m] = @ - 1] \in [Models -> Int]
      BY <2>1
    <3> QED
      BY <2>1, <3>1, <3>2 DEF Desks
  <2>3. Release(x, s) = z
    BY <1>2 DEF Release
  <2> HIDE DEF w, m
  <2>4. /\ z \in Desks /\ Under(w, z, limits)
        /\ z.queue[m] # <<>> => limits[m] # NoCap /\ z.held[m] >= limits[m]
        /\ \A o \in Models \ {m} : z.queue[o] = w.queue[o] /\ z.held[o] = w.held[o]
    <3>1. {m} \in SUBSET Models /\ m \in {m}
      BY <2>1
    <3> QED
      BY <2>2, <3>1, DrainServes DEF z
  <2> HIDE DEF z
  <2>5. Awake(z, limits)
    BY <2>2, <2>4 DEF Awake
  <2>6. Under(x, z, limits)
    <3> SUFFICES ASSUME NEW o \in Models, z.held[o] > x.held[o], limits[o] # NoCap
                 PROVE  z.held[o] <= limits[o]
      BY DEF Under
    <3>a. x.held[o] \in Int /\ w.held[o] \in Int /\ z.held[o] \in Int
      BY <2>1, <2>2, <2>4 DEF Desks
    <3>b. w.held[o] <= x.held[o]
      BY <3>a, <2>2
    <3>1. x.held[o] \in Int /\ w.held[o] \in Int /\ z.held[o] \in Int /\ w.held[o] <= x.held[o]
      BY <3>a, <3>b
    <3>2. z.held[o] > w.held[o]
      BY <3>1
    <3> QED
      BY <3>2, <2>4 DEF Under
  <2> QED
    BY <2>3, <2>4, <2>5, <2>6 DEF Lawful
<1> QED
  BY <1>1, <1>2

(* A step that leaves the slots as they are, and chains of lawful ones. *)
LEMMA SameIsLawful ==
  ASSUME limits \in [Models -> Nat], NEW x \in Desks, Awake(x, limits), NEW y \in Desks, SameSlots(x, y)
  PROVE  Lawful(x, y)
BY DEF Lawful, Awake, Under, SameSlots, Desks

LEMMA LawfulChains ==
  ASSUME limits \in [Models -> Nat], NEW x \in Desks, NEW y, NEW z, Lawful(x, y), Lawful(y, z)
  PROVE  Lawful(x, z)
BY UnderChains DEF Lawful

LEMMA SessionMoves ==
  ASSUME NEW x \in Desks, NEW s \in Seats, NEW place \in Places
  PROVE  /\ Childless(x, s) \in Desks /\ SameSlots(x, Childless(x, s))
         /\ Moved(x, s, place) \in Desks /\ SameSlots(x, Moved(x, s, place))
         /\ [x EXCEPT !.seat[s] = Over] \in Desks /\ SameSlots(x, [x EXCEPT !.seat[s] = Over])
<1>1. x.seat[s] \in Session
  BY DEF Desks
<1>2. /\ Afresh(x.seat[s]) \in Session /\ [Afresh(x.seat[s]) EXCEPT !.at = place] \in Session
      /\ Over \in Session
  <2>1. Over \in Session
    BY SlotsAssumption DEF Over, Session, Places
  <2>2. Afresh(x.seat[s]) \in Session
    BY <1>1, SessionTyping
  <2> QED
    BY <2>1, <2>2, SessionTyping
<1>3. ASSUME NEW d \in Session
      PROVE  [x EXCEPT !.seat[s] = d] \in Desks /\ SameSlots(x, [x EXCEPT !.seat[s] = d])
  BY DEF Desks, SameSlots
<1> QED
  BY <1>2, <1>3 DEF Childless, Moved

---------------------------------------------------------------------------
(* The steps. *)
SlotsTyped == limits \in Configs /\ Desk \in Desks
Kept == SlotsTyped /\ Awake(Desk, limits)

(* What a step has to be: lawful by the caps it leaves. *)
Step == Kept' /\ Under(Desk, Desk', limits')

LEMMA KeptGives ==
  ASSUME Kept
  PROVE  /\ limits \in [Models -> Nat] /\ Desk \in Desks /\ Awake(Desk, limits)
         /\ seat \in [Seats -> Session]
BY SlotsAssumption DEF Kept, SlotsTyped, Desk, Desks

LEMMA BecomesIsAStep ==
  ASSUME Kept, limits' = limits, NEW y, Becomes(y), Lawful(Desk, y)
  PROVE  Step
<1>1. y \in Desks /\ Awake(y, limits) /\ Under(Desk, y, limits)
  BY DEF Lawful
<1>2. Desk' = y
  <2>1. held' = y.held /\ queue' = y.queue /\ seat' = y.seat
    BY DEF Becomes
  <2> QED
    BY <1>1, <2>1 DEF Desk, Desks
<1> QED
  BY <1>1, <1>2 DEF Step, Kept, SlotsTyped

LEMMA SlotsAloneIsAStep ==
  ASSUME Kept, UNCHANGED <<limits, held, queue>>, seat' \in [Seats -> Session]
  PROVE  Step
<1>1. Desk' \in Desks
  BY DEF Kept, SlotsTyped, Desk, Desks
<1>2. SameSlots(Desk, Desk')
  BY DEF SameSlots, Desk
<1>3. Lawful(Desk, Desk')
  BY <1>1, <1>2, KeptGives, SameIsLawful
<1> QED
  BY <1>3 DEF Lawful, Step, Kept, SlotsTyped

LEMMA BeginSteps ==
  ASSUME Kept, NEW s \in Seats, NEW m \in Models, Begin(s, m) PROVE Step
BY KeptGives, AcquireIsLawful, BecomesIsAStep DEF Begin

LEMMA DispatchSteps == ASSUME Kept, NEW s \in Seats, Dispatches(s) PROVE Step
<1>1. [seat[s] EXCEPT !.at = "child", !.left = @ - 1] \in Session
  BY KeptGives, SessionTyping DEF Dispatches
<1>2. seat' \in [Seats -> Session]
  BY <1>1, KeptGives DEF Dispatches
<1> QED
  BY <1>2, SlotsAloneIsAStep DEF Dispatches

LEMMA GoesSilentSteps == ASSUME Kept, NEW s \in Seats, GoesSilent(s) PROVE Step
<1>1. [seat[s] EXCEPT !.hung = TRUE] \in Session
  BY KeptGives, SessionTyping
<1>2. seat' \in [Seats -> Session]
  BY <1>1, KeptGives DEF GoesSilent
<1> QED
  BY <1>2, SlotsAloneIsAStep DEF GoesSilent

LEMMA RedispatchSteps == ASSUME Kept, NEW s \in Seats, Redispatch(s) PROVE Step
<1>1. Lawful(Desk, Moved(Desk, s, "in"))
  BY KeptGives, SessionMoves, SameIsLawful DEF Places
<1> QED
  BY <1>1, BecomesIsAStep DEF Redispatch

LEMMA LadderWaitSteps == ASSUME Kept, NEW s \in Seats, LadderWait(s) PROVE Step
<1> DEFINE y == Release(Desk, s)  z == Moved(y, s, "wait")
<1>1. Lawful(Desk, y)
  BY KeptGives, ReleaseIsLawful
<1> HIDE DEF y
<1>2. Lawful(y, z)
  BY <1>1, KeptGives, SessionMoves, SameIsLawful DEF Lawful, Places
<1>3. Lawful(Desk, z)
  BY <1>1, <1>2, KeptGives, LawfulChains
<1> QED
  BY <1>3, BecomesIsAStep DEF LadderWait, y

LEMMA WaitEndsSteps == ASSUME Kept, NEW s \in Seats, WaitEnds(s) PROVE Step
<1>1. seat[s].model \in Models
  BY KeptGives DEF Session
<1> QED
  BY <1>1, KeptGives, AcquireIsLawful, BecomesIsAStep DEF WaitEnds

LEMMA DegradeSteps == ASSUME Kept, NEW s \in Seats, Degrade(s) PROVE Step
<1> DEFINE w == Childless(Desk, s)  y == Release(w, s)  z == Acquire(y, s, Fallback)
<1>1. Lawful(Desk, w)
  BY KeptGives, SessionMoves, SameIsLawful DEF Places
<1> HIDE DEF w
<1>2. Lawful(w, y)
  BY <1>1, KeptGives, ReleaseIsLawful DEF Lawful
<1> HIDE DEF y
<1>3. Lawful(y, z)
  BY <1>2, KeptGives, AcquireIsLawful, SlotsAssumption DEF Lawful
<1> HIDE DEF z
<1>4. Lawful(Desk, y)
  BY <1>1, <1>2, KeptGives, LawfulChains
<1>5. Lawful(Desk, z)
  BY <1>3, <1>4, KeptGives, LawfulChains
<1> QED
  BY <1>5, BecomesIsAStep DEF Degrade, w, y, z

LEMMA EndsSteps == ASSUME Kept, NEW s \in Seats, Ends(s) PROVE Step
<1> DEFINE y == Release(Desk, s)  z == [y EXCEPT !.seat[s] = Over]
<1>1. Lawful(Desk, y)
  BY KeptGives, ReleaseIsLawful
<1> HIDE DEF y
<1>2. Lawful(y, z)
  BY <1>1, KeptGives, SessionMoves, SameIsLawful DEF Lawful, Places
<1>3. Lawful(Desk, z)
  BY <1>1, <1>2, KeptGives, LawfulChains
<1> QED
  BY <1>3, BecomesIsAStep DEF Ends, y

LEMMA ToldSteps ==
  ASSUME Kept, UNCHANGED <<limits, held, queue>>,
         \A s \in Seats : seat'[s] \in {seat[s], Told(seat[s])},
         seat' = [s \in Seats |-> seat'[s]]
  PROVE  Step
<1>1. \A s \in Seats : seat'[s] \in Session
  BY KeptGives, SessionTyping
<1> QED
  BY <1>1, SlotsAloneIsAStep

LEMMA SetLimitsSteps == ASSUME Kept, NEW caps \in Configs, SetLimits(caps) PROVE Step
<1> DEFINE y == Drain(Desk, Models, caps)
<1>1. caps \in [Models -> Nat] /\ limits' = caps
  BY SlotsAssumption DEF SetLimits
<1>2. y \in Desks /\ Under(Desk, y, caps) /\ Awake(y, caps)
  BY <1>1, KeptGives, DrainServes DEF Awake
<1> HIDE DEF y
<1>3. Desk' = y
  <2>1. held' = y.held /\ queue' = y.queue /\ seat' = y.seat
    BY DEF SetLimits, Becomes, y
  <2> QED
    BY <1>2, <2>1 DEF Desk, Desks
<1> QED
  BY <1>1, <1>2, <1>3 DEF Step, Kept, SlotsTyped

LEMMA NextSteps == ASSUME Kept, [Next]_vars PROVE Step
<1>1. ASSUME NEW s \in Seats, Continues(s) PROVE Step
  BY <1>1, RedispatchSteps, LadderWaitSteps, DegradeSteps, EndsSteps DEF Continues
<1>2. ASSUME NEW r \in Runs, KillRun(r) PROVE Step
  BY <1>2, ToldSteps DEF KillRun
<1>3. CASE Stop
  BY <1>3, ToldSteps DEF Stop
<1>4. CASE StopEnds \/ UNCHANGED vars
  BY <1>4, SlotsAloneIsAStep, KeptGives DEF StopEnds, vars
<1> QED
  BY <1>1, <1>2, <1>3, <1>4, BeginSteps, DispatchSteps, GoesSilentSteps, WaitEndsSteps,
     SetLimitsSteps DEF Next

---------------------------------------------------------------------------
LEMMA InitKept == Init => Kept
<1> SUFFICES ASSUME Init PROVE Kept
  OBVIOUS
<1>1. ASSUME NEW s \in Seats PROVE seat[s] \in Session
  BY SlotsAssumption DEF Init, Session, Places
<1>2. Desk \in Desks
  BY <1>1 DEF Init, Desk, Desks
<1> QED
  BY <1>2 DEF Init, Kept, SlotsTyped, Awake, Desk

LEMMA SlotsKept == Spec => []Kept
<1>1. Kept /\ [Next]_vars => Kept'
  BY NextSteps DEF Step
<1> QED
  BY InitKept, <1>1, PTL DEF Spec

(* No release, no raised cap and no removed key leaves a seat in the queue of a *)
(* model that has room, for any caps and any edits of them.                    *)
THEOREM NobodyWaitsBeforeAnOpenSlot == Spec => []NoLostWakeUp
<1>1. Kept => NoLostWakeUp
  BY DEF Kept, Awake, Desk, NoLostWakeUp
<1> QED
  BY SlotsKept, <1>1, PTL

(* No grant, at once or out of the queue, takes a model over the cap it is       *)
(* granted under.                                                             *)
THEOREM NoGrantOverTheCap == Spec => GrantsStayUnderTheCap
<1> DEFINE A == \A m \in Models : held'[m] > held[m] /\ limits'[m] # NoCap => held'[m] <= limits'[m]
<1>1. Kept /\ [Next]_vars => [A]_vars
  BY NextSteps DEF Step, Under, Desk
<1> QED
  BY SlotsKept, <1>1, PTL DEF Spec, GrantsStayUnderTheCap

---------------------------------------------------------------------------
(* The account of the slots.  SlotsAccounted is inductive only with the queue    *)
(* beside it: what a drain grants is counted once because a session stands in   *)
(* one queue, in one place, and holds nothing while it does.                  *)

Counted(x, m) == {s \in Seats : x.seat[s].counted /\ x.seat[s].model = m}
Accounted(x) == \A m \in Models : x.held[m] = Cardinality(Counted(x, m))
InHand(x) == \A s \in Seats : x.seat[s].counted => x.seat[s].at \in {"in", "child"}
QueuedEmpty(x) ==
  \A m \in Models : \A i \in 1..Len(x.queue[m]) :
    LET s == x.queue[m][i]
    IN  x.seat[s].at = "queued" /\ x.seat[s].model = m /\ ~x.seat[s].counted
QueuedOnce(x) ==
  \A m \in Models : \A i, j \in 1..Len(x.queue[m]) : x.queue[m][i] = x.queue[m][j] => i = j
Sound(x) == x \in Desks /\ Accounted(x) /\ InHand(x) /\ QueuedEmpty(x) /\ QueuedOnce(x)

LEMMA DeskTyping ==
  ASSUME NEW x \in Desks
  PROVE  /\ \A m \in Models : /\ x.held[m] \in Int /\ x.queue[m] \in Seq(Seats)
                              /\ Len(x.queue[m]) \in Nat
                              /\ \A i \in 1..Len(x.queue[m]) : x.queue[m][i] \in Seats
         /\ \A s \in Seats : x.seat[s] \in Session
BY DEF Desks

LEMMA CountedFinite ==
  ASSUME NEW x, NEW m
  PROVE  Counted(x, m) \subseteq Seats /\ IsFiniteSet(Counted(x, m))
         /\ Cardinality(Counted(x, m)) \in Nat
<1>1. Counted(x, m) \subseteq Seats
  BY DEF Counted
<1> HIDE DEF Counted
<1>2. IsFiniteSet(Counted(x, m))
  BY <1>1, FiniteSeats, FS_Subset
<1> QED
  BY <1>1, <1>2, FS_CardinalityType

(* A row without repetition has as many members as places. *)
LEMMA FirstOfARow ==
  ASSUME NEW q \in Seq(Seats), NEW k \in 0..Len(q),
         \A i, j \in 1..Len(q) : q[i] = q[j] => i = j
  PROVE  Cardinality({q[i] : i \in 1..k}) = k /\ IsFiniteSet({q[i] : i \in 1..k})
<1> DEFINE S == {q[i] : i \in 1..k}
           f == [i \in 1..k |-> q[i]]
<1>1. Len(q) \in Nat /\ k \in Nat /\ \A i \in 1..k : i \in 1..Len(q)
  OBVIOUS
<1>2. f \in [1..k -> S] /\ \A s \in S : \E i \in 1..k : f[i] = s
  OBVIOUS
<1>3. \A i, j \in 1..k : f[i] = f[j] => i = j
  BY <1>1
<1> HIDE DEF f, S
<1>4. f \in Bijection(1..k, S)
  BY <1>2, <1>3 DEF Bijection, Injection, Surjection, IsInjective
<1>5. IsFiniteSet(1..k) /\ Cardinality(1..k) = k
  BY <1>1, FS_Interval
<1>6. IsFiniteSet(S) /\ Cardinality(S) = Cardinality(1..k)
  BY <1>4, <1>5, FS_Bijection DEF ExistsBijection
<1> QED
  BY <1>5, <1>6 DEF S

(* What a drain does, place by place. *)
Grants(x, models, caps, m) ==
  IF m \in models THEN Room(x.held[m], caps[m], Len(x.queue[m])) ELSE 0
Granted(x, models, caps, s) ==
  \E m \in Models : \E i \in 1..Grants(x, models, caps, m) : x.queue[m][i] = s

LEMMA GrantsBounds ==
  ASSUME NEW x \in Desks, NEW models \in SUBSET Models, NEW caps \in [Models -> Nat], NEW m \in Models
  PROVE  Grants(x, models, caps, m) \in 0..Len(x.queue[m])
<1>1. x.held[m] \in Int /\ Len(x.queue[m]) \in Nat /\ caps[m] \in Nat
  BY DeskTyping
<1>2. 0 \in 0..Len(x.queue[m])
  BY <1>1
<1> QED
  BY <1>1, <1>2, RoomBounds DEF Grants

Drained(x, y, models, caps) ==
  /\ \A m \in Models :
       /\ y.held[m] = x.held[m] + Grants(x, models, caps, m)
       /\ Len(y.queue[m]) = Len(x.queue[m]) - Grants(x, models, caps, m)
       /\ \A i \in 1..Len(y.queue[m]) :
            y.queue[m][i] = x.queue[m][Grants(x, models, caps, m) + i]
  /\ \A s \in Seats : y.seat[s] = IF Granted(x, models, caps, s) THEN LetIn(x.seat[s])
                                  ELSE x.seat[s]

LEMMA DrainIs ==
  ASSUME NEW x \in Desks, NEW models \in SUBSET Models, NEW caps \in [Models -> Nat]
  PROVE  Drained(x, Drain(x, models, caps), models, caps)
<1> DEFINE y == Drain(x, models, caps)
<1> DEFINE k == [m \in Models |-> IF m \in models THEN Room(x.held[m], caps[m], Len(x.queue[m])) ELSE 0]
<1>1. \A m \in Models : k[m] = Grants(x, models, caps, m)
  BY DEF Grants
<1>2. y = [held |-> [m \in Models |-> x.held[m] + k[m]],
           queue |-> [m \in Models |-> SubSeq(x.queue[m], k[m] + 1, Len(x.queue[m]))],
           seat |-> [s \in Seats |-> IF Served(x, k, s) THEN LetIn(x.seat[s]) ELSE x.seat[s]]]
  BY DEF Drain
<1> HIDE DEF k, y
<1>3. \A s \in Seats : Served(x, k, s) <=> Granted(x, models, caps, s)
  BY <1>1 DEF Served, Granted
<1>4. ASSUME NEW m \in Models
      PROVE  /\ Len(y.queue[m]) = Len(x.queue[m]) - k[m]
             /\ \A i \in 1..Len(y.queue[m]) : y.queue[m][i] = x.queue[m][k[m] + i]
  <2> DEFINE q == x.queue[m]
             t == SubSeq(q, k[m] + 1, Len(q))
  <2>a. k[m] \in 0..Len(x.queue[m]) /\ x.queue[m] \in Seq(Seats)
    BY <1>1, DeskTyping, GrantsBounds
  <2>b. y.queue[m] = t
    <3>1. y.queue = [o \in Models |-> SubSeq(x.queue[o], k[o] + 1, Len(x.queue[o]))]
      BY <1>2
    <3> QED
      BY <3>1
  <2>1. q \in Seq(Seats) /\ Len(q) \in Nat /\ k[m] \in 0..Len(q) /\ y.queue[m] = t
    BY <2>a, <2>b
  <2> HIDE DEF q
  <2>2. Len(t) = Len(q) - k[m] /\ \A i \in 1..(Len(q) - k[m]) : t[i] = q[k[m] + i]
    BY <2>1, SubSeqProperties
  <2> QED
    BY <2>1, <2>2 DEF q
<1>5. \A m \in Models : y.held[m] = x.held[m] + k[m]
  BY <1>2
<1>6. \A s \in Seats : y.seat[s] = IF Served(x, k, s) THEN LetIn(x.seat[s]) ELSE x.seat[s]
  BY <1>2
<1> QED
  BY <1>1, <1>3, <1>4, <1>5, <1>6 DEF Drained, y

LEMMA LetInIs ==
  ASSUME NEW a \in Session
  PROVE  LetIn(a).at = "in" /\ LetIn(a).counted = TRUE /\ LetIn(a).model = a.model
BY DEF LetIn, Session

(* A drain keeps the account. *)
LEMMA DrainIsSound ==
  ASSUME NEW x, Sound(x), NEW models \in SUBSET Models, NEW caps \in [Models -> Nat]
  PROVE  Sound(Drain(x, models, caps))
<1> DEFINE y == Drain(x, models, caps)
           k(m) == Grants(x, models, caps, m)
           N(m) == {x.queue[m][i] : i \in 1..k(m)}
<1>1. x \in Desks /\ y \in Desks
  BY DrainServes DEF Sound
<1>a. Drained(x, y, models, caps)
  BY <1>1, DrainIs
<1> HIDE DEF y
<1>2. /\ \A m \in Models :
           /\ y.held[m] = x.held[m] + k(m) /\ Len(y.queue[m]) = Len(x.queue[m]) - k(m)
           /\ \A i \in 1..Len(y.queue[m]) : y.queue[m][i] = x.queue[m][k(m) + i]
      /\ \A s \in Seats : y.seat[s] = IF Granted(x, models, caps, s) THEN LetIn(x.seat[s])
                                      ELSE x.seat[s]
  BY <1>a DEF Drained
<1>3. \A m \in Models : k(m) \in 0..Len(x.queue[m]) /\ Len(x.queue[m]) \in Nat
                        /\ x.queue[m] \in Seq(Seats)
                        /\ \A i \in 1..Len(x.queue[m]) : x.queue[m][i] \in Seats
  BY <1>1, GrantsBounds, DeskTyping
<1>4. \A s \in Seats : x.seat[s] \in Session
  BY <1>1, DeskTyping
<1>5. \A s \in Seats : Granted(x, models, caps, s) <=> \E m \in Models : s \in N(m)
  BY DEF Granted
<1> HIDE DEF k
<1>6. \A m \in Models : \A s \in N(m) :
        s \in Seats /\ x.seat[s].at = "queued" /\ x.seat[s].model = m /\ ~x.seat[s].counted
  <2> SUFFICES ASSUME NEW m \in Models, NEW i \in 1..k(m)
               PROVE  LET s == x.queue[m][i]
                      IN  s \in Seats /\ x.seat[s].at = "queued" /\ x.seat[s].model = m
                          /\ ~x.seat[s].counted
    OBVIOUS
  <2>1. i \in 1..Len(x.queue[m])
    BY <1>3
  <2> QED
    BY <1>3, <2>1 DEF Sound, QueuedEmpty
<1>7. \A m \in Models : Cardinality(N(m)) = k(m) /\ IsFiniteSet(N(m))
  BY <1>3, FirstOfARow DEF Sound, QueuedOnce
<1>8. Accounted(y)
  <2> SUFFICES ASSUME NEW m \in Models PROVE y.held[m] = Cardinality(Counted(y, m))
    BY DEF Accounted
  <2>1. Counted(y, m) = Counted(x, m) \cup N(m)
    <3>1. ASSUME NEW s \in Seats
          PROVE  (y.seat[s].counted /\ y.seat[s].model = m)
                 <=> ((x.seat[s].counted /\ x.seat[s].model = m) \/ s \in N(m))
      <4>1. CASE \E o \in Models : s \in N(o)
        <5>1. PICK o \in Models : s \in N(o)
          BY <4>1
        <5> HIDE DEF N
        <5>2. y.seat[s] = LetIn(x.seat[s])
          BY <1>2, <1>5, <5>1
        <5>a. x.seat[s].model = o /\ ~x.seat[s].counted
          BY <1>6, <5>1
        <5>b. LetIn(x.seat[s]).counted /\ LetIn(x.seat[s]).model = x.seat[s].model
          BY <1>4, LetInIs
        <5>3. y.seat[s].counted /\ y.seat[s].model = o /\ ~x.seat[s].counted
          BY <5>2, <5>a, <5>b
        <5>4. s \in N(m) <=> o = m
          BY <1>6, <5>1
        <5> QED
          BY <5>3, <5>4
      <4>2. CASE ~\E o \in Models : s \in N(o)
        <5> HIDE DEF N
        <5>1. y.seat[s] = x.seat[s] /\ s \notin N(m)
          BY <1>2, <1>5, <4>2
        <5> QED
          BY <5>1
      <4> QED
        BY <4>1, <4>2
    <3>2. N(m) \subseteq Seats
      BY <1>6
    <3> HIDE DEF N
    <3> QED
      BY <3>1, <3>2 DEF Counted
  <2>2. Counted(x, m) \cap N(m) = {}
    BY <1>6 DEF Counted
  <2> HIDE DEF N
  <2>3. Cardinality(Counted(y, m)) = Cardinality(Counted(x, m)) + Cardinality(N(m)) - 0
    BY <1>7, <2>1, <2>2, CountedFinite, FS_Union, FS_EmptySet
  <2>4. Cardinality(Counted(x, m)) = x.held[m] /\ Cardinality(Counted(x, m)) \in Nat
    BY CountedFinite DEF Sound, Accounted
  <2> QED
    BY <1>2, <1>3, <1>7, <2>3, <2>4
<1>9. InHand(y)
  <2> SUFFICES ASSUME NEW s \in Seats, y.seat[s].counted PROVE y.seat[s].at \in {"in", "child"}
    BY DEF InHand
  <2>1. CASE Granted(x, models, caps, s)
    <3>1. LetIn(x.seat[s]).at = "in" /\ y.seat[s] = LetIn(x.seat[s])
      BY <1>2, <1>4, <2>1, LetInIs
    <3> QED
      BY <3>1
  <2>2. CASE ~Granted(x, models, caps, s)
    BY <1>2, <2>2 DEF Sound, InHand
  <2> QED
    BY <2>1, <2>2
<1>10. QueuedEmpty(y)
  <2> SUFFICES ASSUME NEW m \in Models, NEW i \in 1..Len(y.queue[m]), NEW s, s = y.queue[m][i]
               PROVE  y.seat[s].at = "queued" /\ y.seat[s].model = m /\ ~y.seat[s].counted
    BY DEF QueuedEmpty
  <2>1. s = x.queue[m][k(m) + i] /\ k(m) + i \in 1..Len(x.queue[m]) /\ k(m) \in Nat /\ i \in Nat
        /\ i > 0
    BY <1>2, <1>3
  <2>2. s \in Seats /\ x.seat[s].at = "queued" /\ x.seat[s].model = m /\ ~x.seat[s].counted
    BY <1>3, <2>1 DEF Sound, QueuedEmpty
  <2>3. \A o \in Models : s \notin N(o)
    <3> SUFFICES ASSUME NEW o \in Models, NEW j \in 1..k(o), s = x.queue[o][j] PROVE FALSE
      OBVIOUS
    <3>1. s \in N(o)
      OBVIOUS
    <3>2. o = m
      BY <1>6, <2>2, <3>1
    <3>3. j \in 1..Len(x.queue[m]) /\ j <= k(m)
      BY <1>3, <3>2
    <3>4. j = k(m) + i
      BY <2>1, <3>2, <3>3 DEF Sound, QueuedOnce
    <3> QED
      BY <2>1, <3>3, <3>4
  <2> HIDE DEF N
  <2>4. y.seat[s] = x.seat[s]
    BY <1>2, <1>5, <2>2, <2>3
  <2> QED
    BY <2>2, <2>4
<1>11. QueuedOnce(y)
  <2> SUFFICES ASSUME NEW m \in Models, NEW i \in 1..Len(y.queue[m]), NEW j \in 1..Len(y.queue[m]),
                      y.queue[m][i] = y.queue[m][j]
               PROVE  i = j
    BY DEF QueuedOnce
  <2>a. x.queue[m][k(m) + i] = x.queue[m][k(m) + j]
    BY <1>2
  <2>b. /\ k(m) \in 0..Len(x.queue[m]) /\ Len(x.queue[m]) \in Nat
        /\ i \in 1..(Len(x.queue[m]) - k(m)) /\ j \in 1..(Len(x.queue[m]) - k(m))
    BY <1>2, <1>3
  <2>1. /\ x.queue[m][k(m) + i] = x.queue[m][k(m) + j] /\ k(m) \in Nat /\ i \in Nat /\ j \in Nat
        /\ k(m) + i \in 1..Len(x.queue[m]) /\ k(m) + j \in 1..Len(x.queue[m])
    <3> DEFINE n == Len(x.queue[m])
               l == k(m)
    <3>1. l \in 0..n /\ n \in Nat /\ i \in 1..(n - l) /\ j \in 1..(n - l)
      BY <2>b
    <3> HIDE DEF n, l
    <3>2. l \in Nat /\ i \in Nat /\ j \in Nat /\ l + i \in 1..n /\ l + j \in 1..n
      BY <3>1
    <3> QED
      BY <2>a, <3>2 DEF n, l
  <2>2. k(m) + i = k(m) + j
    BY <2>1 DEF Sound, QueuedOnce
  <2> QED
    BY <2>1, <2>2
<1> QED
  BY <1>1, <1>8, <1>9, <1>10, <1>11 DEF Sound, y

(* Who is let in leaves nobody behind who queued before it. *)
First(x, y) ==
  \A m \in Models : \A s \in Seats :
    y.seat[s].counted /\ ~x.seat[s].counted /\ y.seat[s].model = m =>
      \A i \in 1..Len(x.queue[m]) :
        (\A j \in 1..i : x.queue[m][j] # s) => y.seat[x.queue[m][i]].at = "in"

LEMMA DrainIsFair ==
  ASSUME NEW x, Sound(x), NEW models \in SUBSET Models, NEW caps \in [Models -> Nat]
  PROVE  First(x, Drain(x, models, caps))
<1> DEFINE y == Drain(x, models, caps)
<1>1. x \in Desks
  BY DEF Sound
<1>2. Drained(x, y, models, caps)
  BY <1>1, DrainIs
<1> HIDE DEF y
<1> SUFFICES ASSUME NEW m \in Models, NEW t \in Seats,
                    y.seat[t].counted, ~x.seat[t].counted, y.seat[t].model = m,
                    NEW i \in 1..Len(x.queue[m]), \A j \in 1..i : x.queue[m][j] # t
             PROVE  y.seat[x.queue[m][i]].at = "in"
  BY DEF First, y
<1>3. Granted(x, models, caps, t)
  BY <1>2 DEF Drained
<1>4. PICK o \in Models : \E l \in 1..Grants(x, models, caps, o) : x.queue[o][l] = t
  BY <1>3 DEF Granted
<1>5. PICK l \in 1..Grants(x, models, caps, o) : x.queue[o][l] = t
  BY <1>4
<1>6. Grants(x, models, caps, o) \in 0..Len(x.queue[o]) /\ Len(x.queue[o]) \in Nat
  BY <1>1, GrantsBounds, DeskTyping
<1>7. l \in 1..Len(x.queue[o]) /\ l \in Nat /\ l <= Grants(x, models, caps, o)
  BY <1>6
<1>8. x.seat[t].model = o
  BY <1>5, <1>7 DEF Sound, QueuedEmpty
<1>9. o = m
  <2>1. y.seat[t] = LetIn(x.seat[t])
    BY <1>2, <1>3 DEF Drained
  <2>2. LetIn(x.seat[t]).model = x.seat[t].model
    BY <1>1, DeskTyping, LetInIs
  <2> QED
    BY <1>8, <2>1, <2>2
<1>10. i \in 1..Grants(x, models, caps, m)
  <2>1. ~(l \in 1..i)
    BY <1>5, <1>9
  <2> QED
    BY <1>6, <1>7, <1>9, <2>1
<1>11. x.queue[m][i] \in Seats /\ Granted(x, models, caps, x.queue[m][i])
  BY <1>1, <1>10, DeskTyping DEF Granted
<1>12. y.seat[x.queue[m][i]] = LetIn(x.seat[x.queue[m][i]])
  BY <1>2, <1>11 DEF Drained
<1>13. LetIn(x.seat[x.queue[m][i]]).at = "in"
  BY <1>1, <1>11, DeskTyping, LetInIs
<1> QED
  BY <1>12, <1>13

(* A session that queues nowhere is in no row. *)
LEMMA NotInARow ==
  ASSUME NEW x, Sound(x), NEW s \in Seats, x.seat[s].at # "queued"
  PROVE  \A m \in Models : \A i \in 1..Len(x.queue[m]) : x.queue[m][i] # s
BY DEF Sound, QueuedEmpty

(* What is left of First when one session outside the rows goes on. *)
LEMMA FirstThen ==
  ASSUME NEW x, Sound(x), NEW s \in Seats, x.seat[s].at # "queued", NEW y, First(x, y), NEW z,
         \A t \in Seats \ {s} : z.seat[t] = y.seat[t],
         z.seat[s].counted => x.seat[s].counted \/ x.queue[z.seat[s].model] = <<>>
  PROVE  First(x, z)
<1> SUFFICES ASSUME NEW m \in Models, NEW t \in Seats,
                    z.seat[t].counted, ~x.seat[t].counted, z.seat[t].model = m,
                    NEW i \in 1..Len(x.queue[m]), \A j \in 1..i : x.queue[m][j] # t
             PROVE  z.seat[x.queue[m][i]].at = "in"
  BY DEF First
<1>1. t # s
  <2>1. CASE t = s
    <3>1. x.queue[m] = <<>>
      BY <2>1
    <3> QED
      BY <3>1
  <2> QED
    BY <2>1
<1>2. y.seat[x.queue[m][i]].at = "in"
  BY <1>1 DEF First
<1>3. x.queue[m][i] \in Seats \ {s}
  BY NotInARow, DeskTyping DEF Sound
<1> QED
  BY <1>2, <1>3

(* Sessions that go on and keep what they hold. *)
Alike(a, b) ==
  /\ b.counted <=> a.counted
  /\ a.counted => b.model = a.model /\ b.at \in {"in", "child"}
  /\ a.at = "queued" => b = a

LEMMA AlikeIsSound ==
  ASSUME NEW x, Sound(x), NEW y \in Desks, SameSlots(x, y),
         \A s \in Seats : Alike(x.seat[s], y.seat[s])
  PROVE  Sound(y) /\ First(x, y)
<1>1. \A m \in Models : Counted(y, m) = Counted(x, m)
  BY DEF Counted, Alike
<1>2. Accounted(y)
  BY <1>1 DEF Sound, Accounted, SameSlots
<1>3. InHand(y)
  BY DEF InHand, Alike
<1>4. QueuedEmpty(y)
  <2> SUFFICES ASSUME NEW m \in Models, NEW i \in 1..Len(y.queue[m]), NEW s, s = y.queue[m][i]
               PROVE  y.seat[s].at = "queued" /\ y.seat[s].model = m /\ ~y.seat[s].counted
    BY DEF QueuedEmpty
  <2>1. y.queue[m] = x.queue[m] /\ i \in 1..Len(x.queue[m]) /\ s = x.queue[m][i]
    BY DEF SameSlots
  <2>2. s \in Seats /\ x.seat[s].at = "queued" /\ x.seat[s].model = m /\ ~x.seat[s].counted
    BY <2>1, DeskTyping DEF Sound, QueuedEmpty
  <2>3. y.seat[s] = x.seat[s]
    BY <2>2 DEF Alike
  <2> QED
    BY <2>2, <2>3
<1>5. QueuedOnce(y)
  BY DEF Sound, QueuedOnce, SameSlots
<1>6. First(x, y)
  BY DEF First, Alike
<1> QED
  BY <1>2, <1>3, <1>4, <1>5, <1>6 DEF Sound

(* One session alone goes on. *)
LEMMA OneAlikeIsSound ==
  ASSUME NEW x, Sound(x), NEW s \in Seats, NEW d \in Session, Alike(x.seat[s], d)
  PROVE  /\ Sound([x EXCEPT !.seat[s] = d]) /\ First(x, [x EXCEPT !.seat[s] = d])
         /\ [x EXCEPT !.seat[s] = d].seat[s] = d
         /\ \A t \in Seats \ {s} : [x EXCEPT !.seat[s] = d].seat[t] = x.seat[t]
         /\ SameSlots(x, [x EXCEPT !.seat[s] = d])
<1> DEFINE y == [x EXCEPT !.seat[s] = d]
<1>1. x \in Desks
  BY DEF Sound
<1>2. /\ y \in Desks /\ SameSlots(x, y) /\ y.seat[s] = d
      /\ \A t \in Seats \ {s} : y.seat[t] = x.seat[t]
  BY <1>1 DEF Desks, SameSlots
<1> HIDE DEF y
<1>3. \A t \in Seats : Alike(x.seat[t], y.seat[t])
  <2> SUFFICES ASSUME NEW t \in Seats \ {s} PROVE Alike(x.seat[t], y.seat[t])
    BY <1>2
  <2>1. y.seat[t] = x.seat[t]
    BY <1>2
  <2> QED
    BY <2>1 DEF Alike, Sound, InHand
<1>4. Sound(y) /\ First(x, y)
  BY <1>2, <1>3, AlikeIsSound
<1> QED
  BY <1>2, <1>4 DEF y

(* The slot of one session, taken or given back by hand. *)
LEMMA OneSlot ==
  ASSUME NEW x, Sound(x), NEW s \in Seats, NEW m \in Models, NEW y \in Desks, NEW a \in Int,
         x.seat[s].at # "queued", y.seat[s].at # "queued",
         y.queue = x.queue, y.held = [x.held EXCEPT ![m] = @ + a],
         \A t \in Seats \ {s} : y.seat[t] = x.seat[t],
         \/ a = 1 /\ ~x.seat[s].counted /\ y.seat[s].counted /\ y.seat[s].model = m
            /\ y.seat[s].at = "in"
         \/ a = -1 /\ x.seat[s].counted /\ x.seat[s].model = m /\ ~y.seat[s].counted
  PROVE  Sound(y)
<1>0. /\ x \in Desks /\ x.held[m] \in Int /\ y.held[m] = x.held[m] + a
      /\ \A o \in Models \ {m} : y.held[o] = x.held[o]
  BY DEF Sound, Desks
<1>1. \A o \in Models \ {m} : Counted(y, o) = Counted(x, o)
  BY DEF Counted
<1>2. Counted(y, m) = IF a = 1 THEN Counted(x, m) \cup {s} ELSE Counted(x, m) \ {s}
  <2>1. \A t \in Seats \ {s} : t \in Counted(y, m) <=> t \in Counted(x, m)
    BY DEF Counted
  <2>2. s \in Counted(y, m) <=> a = 1
    BY DEF Counted
  <2> QED
    BY <2>1, <2>2, CountedFinite
<1>3. s \in Counted(x, m) <=> a = -1
  BY DEF Counted
<1>4. Cardinality(Counted(y, m)) = Cardinality(Counted(x, m)) + a
  <2>1. CASE a = 1
    <3>1. Counted(y, m) = Counted(x, m) \cup {s} /\ s \notin Counted(x, m)
      BY <1>2, <1>3, <2>1
    <3>2. Cardinality(Counted(x, m) \cup {s}) = Cardinality(Counted(x, m)) + 1
      BY <3>1, CountedFinite, FS_AddElement
    <3> QED
      BY <2>1, <3>1, <3>2
  <2>2. CASE a = -1
    <3>1. Counted(y, m) = Counted(x, m) \ {s} /\ s \in Counted(x, m)
      BY <1>2, <1>3, <2>2
    <3>2. Cardinality(Counted(x, m) \ {s}) = Cardinality(Counted(x, m)) - 1
      BY <3>1, CountedFinite, FS_RemoveElement
    <3> QED
      BY <2>2, <3>1, <3>2, CountedFinite
  <2> QED
    BY <2>1, <2>2
<1>5. Accounted(y)
  BY <1>0, <1>1, <1>4 DEF Sound, Accounted
<1>6. InHand(y)
  <2> SUFFICES ASSUME NEW t \in Seats, y.seat[t].counted PROVE y.seat[t].at \in {"in", "child"}
    BY DEF InHand
  <2> QED
    BY DEF Sound, InHand
<1>7. QueuedEmpty(y)
  <2> SUFFICES ASSUME NEW o \in Models, NEW i \in 1..Len(x.queue[o]), NEW t, t = x.queue[o][i]
               PROVE  y.seat[t].at = "queued" /\ y.seat[t].model = o /\ ~y.seat[t].counted
    BY DEF QueuedEmpty
  <2>1. t \in Seats \ {s}
    BY <1>0, NotInARow, DeskTyping
  <2>2. x.seat[t].at = "queued" /\ x.seat[t].model = o /\ ~x.seat[t].counted
    BY DEF Sound, QueuedEmpty
  <2> QED
    BY <2>1, <2>2
<1>8. QueuedOnce(y)
  BY DEF Sound, QueuedOnce
<1> QED
  BY <1>5, <1>6, <1>7, <1>8 DEF Sound

LEMMA DrainSpares ==
  ASSUME NEW x \in Desks, NEW m \in Models, NEW caps \in [Models -> Nat]
  PROVE  \A o \in Models : o # m => Drain(x, {m}, caps).queue[o] = x.queue[o]
<1> DEFINE y == Drain(x, {m}, caps)
<1>1. \A o \in Models \ {m} : y.queue[o] = x.queue[o]
  <2>1. {m} \in SUBSET Models
    OBVIOUS
  <2> QED
    BY <2>1, DrainServes
<1> HIDE DEF y
<1> QED
  BY <1>1 DEF y

LEMMA ReleaseIsSound ==
  ASSUME limits \in [Models -> Nat], NEW x, Sound(x), NEW s \in Seats, x.seat[s].at # "queued"
  PROVE  /\ Sound(Release(x, s)) /\ First(x, Release(x, s))
         /\ Release(x, s).seat[s] = [x.seat[s] EXCEPT !.counted = FALSE]
         /\ \A o \in Models : o # x.seat[s].model => Release(x, s).queue[o] = x.queue[o]
<1> DEFINE m == x.seat[s].model
           d == [x.seat[s] EXCEPT !.counted = FALSE]
           w == [x EXCEPT !.held[m] = @ - 1, !.seat[s].counted = FALSE]
           y == Drain(w, {m}, limits)
<1>0. x \in Desks /\ x.seat[s] \in Session /\ d \in Session
  BY DeskTyping, SessionTyping DEF Sound
<1>1. CASE ~x.seat[s].counted
  <2>1. Release(x, s) = x
    BY <1>1 DEF Release
  <2>2. d = x.seat[s]
    BY <1>0, <1>1 DEF Session
  <2>3. First(x, x)
    BY DEF First
  <2> QED
    BY <2>1, <2>2, <2>3
<1>2. CASE x.seat[s].counted
  <2>1. m \in Models
    BY <1>0 DEF Session
  <2>2. Release(x, s) = y
    BY <1>2 DEF Release
  <2>3. /\ w \in Desks /\ w.queue = x.queue /\ w.held = [x.held EXCEPT ![m] = @ + (-1)]
        /\ w.seat[s] = d /\ \A t \in Seats \ {s} : w.seat[t] = x.seat[t]
    <3>1. x.held \in [Models -> Int] /\ x.held[m] \in Int
      BY <1>0, <2>1 DEF Desks
    <3>2. [x.held EXCEPT ![m] = @ - 1] = [x.held EXCEPT ![m] = @ + (-1)]
          /\ [x.held EXCEPT ![m] = @ - 1] \in [Models -> Int]
      BY <2>1, <3>1
    <3>3. [x.seat EXCEPT ![s] = d] \in [Seats -> Session]
      BY <1>0 DEF Desks
    <3>4. w = [x EXCEPT !.held = [x.held EXCEPT ![m] = @ - 1], !.seat = [x.seat EXCEPT ![s] = d]]
      OBVIOUS
    <3> HIDE DEF w, d, m
    <3> QED
      BY <1>0, <3>2, <3>3, <3>4 DEF Desks
  <2>a. d.counted = FALSE /\ d.at = x.seat[s].at
    BY <1>0 DEF Session
  <2> HIDE DEF w, d
  <2>4. Sound(w)
    <3>1. w.seat[s].at # "queued" /\ ~w.seat[s].counted
      BY <2>3, <2>a
    <3> QED
      BY <1>2, <2>1, <2>3, <3>1, OneSlot
  <2>5. Sound(y) /\ First(w, y) /\ Drained(w, y, {m}, limits)
    <3>1. {m} \in SUBSET Models
      BY <2>1
    <3> QED
      BY <2>3, <2>4, <3>1, DrainIsSound, DrainIsFair, DrainIs
  <2>6. \A o \in Models : o # m => y.queue[o] = x.queue[o]
    <3>1. \A o \in Models : o # m => y.queue[o] = w.queue[o]
      <4> HIDE DEF m
      <4> QED
        BY <2>1, <2>3, DrainSpares
    <3> QED
      BY <2>3, <3>1
  <2>7. y.seat[s] = d
    <3>1. w.seat[s].at # "queued"
      BY <2>3, <2>a
    <3>2. ~Granted(w, {m}, limits, s)
      <4> SUFFICES ASSUME NEW o \in Models, NEW i \in 1..Grants(w, {m}, limits, o),
                          w.queue[o][i] = s
                   PROVE  FALSE
        BY DEF Granted
      <4>1. i \in 1..Len(w.queue[o])
        BY <2>1, <2>3, GrantsBounds, DeskTyping
      <4> QED
        BY <2>4, <3>1, <4>1, NotInARow
    <3> QED
      BY <2>3, <2>5, <3>2 DEF Drained
  <2> HIDE DEF y
  <2>8. First(x, y)
    <3> SUFFICES ASSUME NEW o \in Models, NEW t \in Seats,
                        y.seat[t].counted, ~x.seat[t].counted, y.seat[t].model = o,
                        NEW i \in 1..Len(x.queue[o]), \A j \in 1..i : x.queue[o][j] # t
                 PROVE  y.seat[x.queue[o][i]].at = "in"
      BY DEF First
    <3>1. t # s
      BY <2>7, <2>a
    <3>2. ~w.seat[t].counted /\ w.queue = x.queue
      BY <2>3, <3>1
    <3> QED
      BY <2>5, <3>2 DEF First
  <2> QED
    BY <2>2, <2>5, <2>6, <2>7, <2>8 DEF d
<1> QED
  BY <1>1, <1>2

(* A session that joins the end of a row holds nothing and stands there alone. *)
Joined(y, z, s, m) ==
  /\ Sound(y) /\ y.seat[s].at # "queued" /\ ~y.seat[s].counted
  /\ z \in Desks /\ z.held = y.held /\ z.queue = [y.queue EXCEPT ![m] = Append(y.queue[m], s)]
  /\ z.seat[s].at = "queued" /\ z.seat[s].model = m /\ ~z.seat[s].counted
  /\ \A t \in Seats \ {s} : z.seat[t] = y.seat[t]

LEMMA QueuesSoundly ==
  ASSUME NEW y, NEW z, NEW s \in Seats, NEW m \in Models, Joined(y, z, s, m)
  PROVE  Sound(z)
<1> USE DEF Joined
<1>1. y \in Desks /\ y.queue[m] \in Seq(Seats) /\ Len(y.queue[m]) \in Nat
  BY DeskTyping DEF Sound
<1>2. /\ z.queue[m] = Append(y.queue[m], s)
      /\ \A o \in Models \ {m} : z.queue[o] = y.queue[o]
  BY <1>1 DEF Desks
<1>3. /\ Len(z.queue[m]) = Len(y.queue[m]) + 1 /\ z.queue[m][Len(z.queue[m])] = s
      /\ \A i \in 1..Len(y.queue[m]) : z.queue[m][i] = y.queue[m][i]
  BY <1>1, <1>2
<1>4. \A o \in Models : Counted(z, o) = Counted(y, o)
  BY DEF Counted
<1>5. Accounted(z)
  BY <1>4 DEF Sound, Accounted
<1>6. InHand(z)
  BY DEF Sound, InHand
<1>7. \A o \in Models : \A i \in 1..Len(y.queue[o]) : y.queue[o][i] \in Seats \ {s}
  BY <1>1, NotInARow, DeskTyping
<1>8. QueuedEmpty(z)
  <2> SUFFICES ASSUME NEW o \in Models, NEW i \in 1..Len(z.queue[o]), NEW t, t = z.queue[o][i]
               PROVE  z.seat[t].at = "queued" /\ z.seat[t].model = o /\ ~z.seat[t].counted
    BY DEF QueuedEmpty
  <2>1. CASE t = s
    <3>1. o = m
      <4> SUFFICES ASSUME o # m PROVE FALSE
        OBVIOUS
      <4>1. i \in 1..Len(y.queue[o]) /\ t = y.queue[o][i]
        BY <1>2
      <4> QED
        BY <1>7, <2>1, <4>1
    <3> QED
      BY <2>1, <3>1
  <2>2. CASE t # s
    <3>1. i \in 1..Len(y.queue[o]) /\ t = y.queue[o][i]
      <4>1. CASE o # m
        BY <1>2, <4>1
      <4>2. CASE o = m
        BY <1>1, <1>3, <2>2, <4>2
      <4> QED
        BY <4>1, <4>2
    <3>2. t \in Seats \ {s} /\ y.seat[t].at = "queued" /\ y.seat[t].model = o /\ ~y.seat[t].counted
      BY <1>7, <3>1 DEF Sound, QueuedEmpty
    <3> QED
      BY <3>2
  <2> QED
    BY <2>1, <2>2
<1>9. QueuedOnce(z)
  <2> SUFFICES ASSUME NEW o \in Models, NEW i \in 1..Len(z.queue[o]), NEW j \in 1..Len(z.queue[o]),
                      z.queue[o][i] = z.queue[o][j]
               PROVE  i = j
    BY DEF QueuedOnce
  <2>1. CASE o # m
    BY <1>2, <2>1 DEF Sound, QueuedOnce
  <2>2. CASE o = m
    <3> DEFINE n == Len(y.queue[m])
    <3>1. n \in Nat /\ i \in 1..(n + 1) /\ j \in 1..(n + 1)
      BY <1>1, <1>3, <2>2
    <3>2. CASE i \in 1..n /\ j \in 1..n
      BY <1>3, <2>2, <3>2 DEF Sound, QueuedOnce
    <3>3. CASE i = n + 1 /\ j \in 1..n
      <4>1. z.queue[m][i] = s /\ z.queue[m][j] # s
        BY <1>3, <1>7, <3>3
      <4> QED
        BY <2>2, <4>1
    <3>4. CASE j = n + 1 /\ i \in 1..n
      <4>1. z.queue[m][j] = s /\ z.queue[m][i] # s
        BY <1>3, <1>7, <3>4
      <4> QED
        BY <2>2, <4>1
    <3> HIDE DEF n
    <3> QED
      BY <3>1, <3>2, <3>3, <3>4
  <2> QED
    BY <2>1, <2>2
<1> QED
  BY <1>5, <1>6, <1>8, <1>9 DEF Sound

Asked(x, z, s, m) == \* from x to z session s asked for a slot of m
  /\ Sound(z) /\ \A t \in Seats \ {s} : z.seat[t] = x.seat[t]
  /\ z.seat[s].model = m
  /\ z.seat[s].counted => x.queue[m] = <<>>

LEMMA AcquireIsSound ==
  ASSUME limits \in [Models -> Nat], NEW x, Sound(x), NEW s \in Seats, NEW m \in Models,
         x.seat[s].at # "queued", ~x.seat[s].counted
  PROVE  Asked(x, Acquire(x, s, m), s, m)
<1> DEFINE d == [x.seat[s] EXCEPT !.model = m]
           y == [x EXCEPT !.seat[s].model = m]
           z == Acquire(x, s, m)
<1>1. x \in Desks /\ x.seat[s] \in Session /\ d \in Session
  BY DeskTyping, SessionTyping DEF Sound
<1>2. d.at = x.seat[s].at /\ d.counted = x.seat[s].counted /\ d.model = m
  BY <1>1 DEF Session
<1> HIDE DEF d
<1>3. /\ Sound(y) /\ y.seat[s] = d /\ SameSlots(x, y)
      /\ \A t \in Seats \ {s} : y.seat[t] = x.seat[t]
  <2>1. Alike(x.seat[s], d)
    BY <1>2 DEF Alike
  <2>2. y = [x EXCEPT !.seat[s] = d]
    BY DEF d
  <2> HIDE DEF y
  <2> QED
    BY <1>1, <2>1, <2>2, OneAlikeIsSound
<1> HIDE DEF y
<1>4. y \in Desks
  BY <1>3 DEF Sound
<1>5. CASE limits[m] = NoCap
  <2> DEFINE e == [d EXCEPT !.at = "in"]
  <2>1. z = [y EXCEPT !.seat[s] = e]
    BY <1>3, <1>5 DEF Acquire, y
  <2>2. e \in Session /\ e.at = "in" /\ e.counted = d.counted /\ e.model = m
    BY <1>1, <1>2 DEF Session, Places
  <2> HIDE DEF e, z
  <2>3. Alike(y.seat[s], e)
    BY <1>2, <1>3, <2>2 DEF Alike
  <2>4. Sound(z) /\ z.seat[s] = e /\ \A t \in Seats \ {s} : z.seat[t] = y.seat[t]
    BY <1>3, <2>1, <2>2, <2>3, OneAlikeIsSound
  <2> QED
    BY <1>2, <1>3, <2>2, <2>4 DEF Asked, z
<1>6. CASE limits[m] # NoCap /\ x.held[m] < limits[m] /\ x.queue[m] = <<>>
  <2> DEFINE e == LetIn(d)
  <2>1. z = [y EXCEPT !.held[m] = @ + 1, !.seat[s] = e]
    BY <1>3, <1>6 DEF Acquire, y
  <2>2. e \in Session /\ e.at = "in" /\ e.counted /\ e.model = m
    BY <1>1, <1>2, SessionTyping, LetInIs
  <2> HIDE DEF e, z
  <2>3. /\ z \in Desks /\ z.queue = y.queue /\ z.held = [y.held EXCEPT ![m] = @ + 1]
        /\ z.seat[s] = e /\ \A t \in Seats \ {s} : z.seat[t] = y.seat[t]
    <3>1. [y.held EXCEPT ![m] = @ + 1] \in [Models -> Int]
      BY <1>4 DEF Desks
    <3>2. [y.seat EXCEPT ![s] = e] \in [Seats -> Session]
      BY <1>4, <2>2 DEF Desks
    <3> QED
      BY <1>4, <2>1, <3>1, <3>2 DEF Desks
  <2>4. Sound(z)
    <3>1. y.seat[s].at # "queued" /\ ~y.seat[s].counted
      BY <1>2, <1>3
    <3>2. z.seat[s].at = "in" /\ z.seat[s].counted /\ z.seat[s].model = m
      BY <2>2, <2>3
    <3> HIDE DEF e
    <3> QED
      BY <1>3, <2>3, <3>1, <3>2, OneSlot
  <2> QED
    BY <1>3, <1>6, <2>2, <2>3, <2>4 DEF Asked, z
<1>7. CASE limits[m] # NoCap /\ ~(x.held[m] < limits[m] /\ x.queue[m] = <<>>)
  <2> DEFINE e == [d EXCEPT !.at = "queued"]
  <2>1. z = [y EXCEPT !.queue[m] = Append(@, s), !.seat[s] = e]
    BY <1>3, <1>7 DEF Acquire, y
  <2>2. e \in Session /\ e.at = "queued" /\ ~e.counted /\ e.model = m
    BY <1>1, <1>2 DEF Session, Places
  <2> HIDE DEF e, z
  <2>3. /\ z \in Desks /\ z.held = y.held /\ z.queue = [y.queue EXCEPT ![m] = Append(@, s)]
        /\ z.seat[s] = e /\ \A t \in Seats \ {s} : z.seat[t] = y.seat[t]
    <3>1. [y.queue EXCEPT ![m] = Append(@, s)] \in [Models -> Seq(Seats)]
      BY <1>4 DEF Desks
    <3>2. [y.seat EXCEPT ![s] = e] \in [Seats -> Session]
      BY <1>4, <2>2 DEF Desks
    <3> QED
      BY <1>4, <2>1, <3>1, <3>2 DEF Desks
  <2>4. Sound(z)
    <3>1. y.seat[s].at # "queued" /\ ~y.seat[s].counted
      BY <1>2, <1>3
    <3>2. z.seat[s].at = "queued" /\ z.seat[s].model = m /\ ~z.seat[s].counted
      BY <2>2, <2>3
    <3>3. Sound(y) /\ z \in Desks /\ z.held = y.held
          /\ z.queue = [y.queue EXCEPT ![m] = Append(y.queue[m], s)]
          /\ \A t \in Seats \ {s} : z.seat[t] = y.seat[t]
      BY <1>3, <2>3
    <3>4. Joined(y, z, s, m)
      BY <3>1, <3>2, <3>3 DEF Joined
    <3> QED
      BY <3>4, QueuesSoundly
  <2> QED
    BY <1>3, <2>2, <2>3, <2>4 DEF Asked, z
<1> QED
  BY <1>5, <1>6, <1>7

---------------------------------------------------------------------------
(* The steps keep the account and the order. *)
Orderly == Sound(Desk') /\ First(Desk, Desk')

LEMMA BecomesIs == ASSUME NEW y, Sound(y), First(Desk, y), Becomes(y) PROVE Orderly
<1>1. y \in Desks /\ held' = y.held /\ queue' = y.queue /\ seat' = y.seat
  BY DEF Sound, Becomes
<1>2. Desk' = y
  BY <1>1 DEF Desk, Desks
<1> QED
  BY <1>2 DEF Orderly

LEMMA AlikeIsOrderly ==
  ASSUME Sound(Desk), UNCHANGED <<held, queue>>, seat' \in [Seats -> Session],
         \A s \in Seats : Alike(seat[s], seat'[s])
  PROVE  Orderly
<1>1. Desk' \in Desks /\ SameSlots(Desk, Desk')
  BY DEF Sound, Desk, Desks, SameSlots
<1>2. \A s \in Seats : Alike(Desk.seat[s], Desk'.seat[s])
  BY DEF Desk
<1> QED
  BY <1>1, <1>2, AlikeIsSound DEF Orderly

(* A session that holds nothing asks for a slot. *)
LEMMA AcquireIsOrderly ==
  ASSUME limits \in [Models -> Nat], Sound(Desk), NEW s \in Seats, NEW m \in Models,
         seat[s].at \in {"new", "wait"}, Becomes(Acquire(Desk, s, m))
  PROVE  Orderly
<1> DEFINE y == Acquire(Desk, s, m)
<1>1. Desk.seat[s].at # "queued" /\ ~Desk.seat[s].counted
  BY DEF Desk, Sound, InHand
<1>2. Asked(Desk, y, s, m)
  BY <1>1, AcquireIsSound
<1>3. Sound(y)
  BY <1>2 DEF Asked
<1>4. First(Desk, Desk)
  BY DEF First
<1>5. First(Desk, y)
  <2> HIDE DEF y
  <2> QED
    BY <1>1, <1>2, <1>4, FirstThen DEF Asked
<1> QED
  BY <1>3, <1>5, BecomesIs

LEMMA MovedIs ==
  ASSUME NEW a \in Session, NEW p \in Places
  PROVE  LET d == [Afresh(a) EXCEPT !.at = p]
         IN  /\ Afresh(a) \in Session /\ d \in Session /\ d.at = p
             /\ d.counted = a.counted /\ d.model = a.model
             /\ Afresh(a).at = a.at /\ Afresh(a).counted = a.counted /\ Afresh(a).model = a.model
BY DEF Afresh, Session

LEMMA ReleasedIs ==
  ASSUME NEW a \in Session
  PROVE  LET d == [a EXCEPT !.counted = FALSE]
         IN  d \in Session /\ ~d.counted /\ d.at = a.at /\ d.model = a.model
BY DEF Session

LEMMA OverIs == Over \in Session /\ ~Over.counted /\ Over.at = "over"
BY SlotsAssumption DEF Over, Session, Places

LEMMA RedispatchIsOrderly ==
  ASSUME Sound(Desk), NEW s \in Seats, Redispatch(s) PROVE Orderly
<1> DEFINE d == [Afresh(seat[s]) EXCEPT !.at = "in"]
<1>1. seat[s] \in Session /\ seat[s].at = "child" /\ Desk.seat = seat
  BY DeskTyping DEF Sound, Desk, Redispatch, Untold, Child
<1>2. d \in Session /\ Alike(seat[s], d)
  <2>1. d \in Session /\ d.at = "in" /\ d.counted = seat[s].counted /\ d.model = seat[s].model
    BY <1>1, MovedIs DEF Places
  <2> HIDE DEF d
  <2> QED
    BY <1>1, <2>1 DEF Alike
<1>3. Moved(Desk, s, "in") = [Desk EXCEPT !.seat[s] = d]
  BY <1>1 DEF Moved
<1> HIDE DEF d
<1>4. Sound(Moved(Desk, s, "in")) /\ First(Desk, Moved(Desk, s, "in"))
  BY <1>1, <1>2, <1>3, OneAlikeIsSound
<1> QED
  BY <1>4, BecomesIs DEF Redispatch

(* A child that gives its slot back and goes on without one. *)
LEMMA GivesBack ==
  ASSUME limits \in [Models -> Nat], Sound(Desk), NEW s \in Seats, seat[s].at = "child",
         NEW y, y = Release(Desk, s), NEW d \in Session, ~d.counted,
         Becomes([y EXCEPT !.seat[s] = d])
  PROVE  Orderly
<1> DEFINE z == [y EXCEPT !.seat[s] = d]
<1>1. Desk.seat[s] \in Session /\ Desk.seat[s].at = "child" /\ Desk.seat[s].at # "queued"
  BY DeskTyping DEF Sound, Desk
<1>2. Sound(y) /\ First(Desk, y) /\ y.seat[s] = [Desk.seat[s] EXCEPT !.counted = FALSE]
  BY <1>1, ReleaseIsSound
<1>3. Alike(y.seat[s], d)
  BY <1>1, <1>2, ReleasedIs DEF Alike
<1>4. Sound(z) /\ z.seat[s] = d /\ \A t \in Seats \ {s} : z.seat[t] = y.seat[t]
  BY <1>2, <1>3, OneAlikeIsSound
<1> HIDE DEF z
<1>5. First(Desk, z)
  BY <1>1, <1>2, <1>4, FirstThen
<1> QED
  BY <1>4, <1>5, BecomesIs DEF z

LEMMA LadderWaitIsOrderly ==
  ASSUME limits \in [Models -> Nat], Sound(Desk), NEW s \in Seats, LadderWait(s) PROVE Orderly
<1> DEFINE y == Release(Desk, s)
           d == [Afresh(y.seat[s]) EXCEPT !.at = "wait"]
<1>1. Desk.seat[s] \in Session /\ Desk.seat[s].at = "child" /\ seat[s].at = "child"
  BY DeskTyping DEF Sound, Desk, LadderWait, Untold, Child
<1>2. y.seat[s] = [Desk.seat[s] EXCEPT !.counted = FALSE]
  BY <1>1, ReleaseIsSound
<1>3. y.seat[s] \in Session /\ ~y.seat[s].counted
  BY <1>1, <1>2, ReleasedIs
<1> HIDE DEF y
<1>4. d \in Session /\ ~d.counted
  BY <1>3, MovedIs DEF Places
<1>5. Becomes([y EXCEPT !.seat[s] = d])
  BY DEF LadderWait, Moved, y
<1> HIDE DEF d
<1> QED
  BY <1>1, <1>4, <1>5, GivesBack DEF y

LEMMA EndsIsOrderly ==
  ASSUME limits \in [Models -> Nat], Sound(Desk), NEW s \in Seats, Ends(s) PROVE Orderly
BY GivesBack, OverIs DEF Ends, Child

LEMMA DegradeIsOrderly ==
  ASSUME limits \in [Models -> Nat], Sound(Desk), NEW s \in Seats, Degrade(s) PROVE Orderly
<1> DEFINE d == Afresh(seat[s])
           w == Childless(Desk, s)
           y == Release(w, s)
           z == Acquire(y, s, Fallback)
<1>1. /\ seat[s] \in Session /\ seat[s].at = "child" /\ Desk.seat = seat
      /\ seat[s].model # Fallback /\ Fallback \in Models
  BY DeskTyping, SlotsAssumption DEF Sound, Desk, Degrade, Untold, Child
<1>2. d \in Session /\ Alike(seat[s], d) /\ d.at = "child" /\ d.model = seat[s].model
      /\ d.counted = seat[s].counted
  BY <1>1, MovedIs DEF Places, Alike
<1>3. w = [Desk EXCEPT !.seat[s] = d]
  BY <1>1 DEF Childless
<1> HIDE DEF d, w
<1>4. /\ Sound(w) /\ SameSlots(Desk, w) /\ w.seat[s] = d
      /\ \A t \in Seats \ {s} : w.seat[t] = seat[t]
  BY <1>1, <1>2, <1>3, OneAlikeIsSound
<1>5. w.seat[s].at # "queued" /\ w.seat[s].model # Fallback
  BY <1>1, <1>2, <1>4
<1>6. /\ Sound(y) /\ First(w, y) /\ y.seat[s] = [d EXCEPT !.counted = FALSE]
      /\ y.queue[Fallback] = w.queue[Fallback]
  BY <1>1, <1>4, <1>5, ReleaseIsSound
<1> HIDE DEF y
<1>7. y.seat[s].at # "queued" /\ ~y.seat[s].counted
  BY <1>2, <1>6, ReleasedIs
<1>8. /\ Sound(z) /\ \A t \in Seats \ {s} : z.seat[t] = y.seat[t]
      /\ z.seat[s].model = Fallback
      /\ z.seat[s].counted => y.queue[Fallback] = <<>>
  <2>1. Asked(y, z, s, Fallback)
    BY <1>1, <1>6, <1>7, AcquireIsSound
  <2> HIDE DEF z
  <2> QED
    BY <2>1 DEF Asked
<1> HIDE DEF z
<1>9. First(Desk, y)
  <2>1. Desk.queue = w.queue /\ \A t \in Seats : w.seat[t].counted = Desk.seat[t].counted
    BY <1>1, <1>2, <1>4 DEF SameSlots
  <2> QED
    BY <1>6, <2>1 DEF First
<1>10. First(Desk, z)
  <2>1. Desk.seat[s].at # "queued"
    BY <1>1
  <2>2. z.seat[s].counted => Desk.queue[z.seat[s].model] = <<>>
    BY <1>4, <1>6, <1>8 DEF SameSlots
  <2> QED
    BY <1>8, <1>9, <2>1, <2>2, FirstThen
<1>11. Becomes(z)
  BY DEF Degrade, z, y, w
<1> QED
  BY <1>8, <1>10, <1>11, BecomesIs

LEMMA ToldIsAlike ==
  ASSUME Sound(Desk), NEW s \in Seats PROVE Alike(seat[s], Told(seat[s])) /\ Alike(seat[s], seat[s])
<1>1. seat[s] \in Session /\ (seat[s].counted => seat[s].at \in {"in", "child"})
  BY DeskTyping DEF Sound, Desk, InHand
<1>2. CASE seat[s].at = "child" /\ ~seat[s].hung
  BY <1>1, <1>2 DEF Told, Alike, Session
<1>3. CASE seat[s].at = "wait"
  <2>1. Told(seat[s]) = Over
    BY <1>3 DEF Told
  <2> QED
    BY <1>1, <1>3, <2>1, OverIs DEF Alike
<1>4. CASE ~(seat[s].at = "child" /\ ~seat[s].hung) /\ seat[s].at # "wait"
  <2>1. Told(seat[s]) = seat[s]
    BY <1>4 DEF Told
  <2> QED
    BY <1>1, <2>1 DEF Alike
<1> QED
  BY <1>1, <1>2, <1>3, <1>4 DEF Alike

LEMMA TellsAreOrderly ==
  ASSUME Sound(Desk), UNCHANGED <<held, queue>>,
         \A s \in Seats : seat'[s] \in {seat[s], Told(seat[s])},
         seat' = [s \in Seats |-> seat'[s]]
  PROVE  Orderly
<1>1. \A s \in Seats : seat[s] \in Session
  BY DeskTyping DEF Sound, Desk
<1>2. \A s \in Seats : seat'[s] \in Session
  BY <1>1, SessionTyping
<1>3. seat' \in [Seats -> Session]
  BY <1>2
<1>4. \A s \in Seats : Alike(seat[s], seat'[s])
  BY ToldIsAlike
<1> QED
  BY <1>3, <1>4, AlikeIsOrderly

LEMMA DispatchIsOrderly == ASSUME Sound(Desk), NEW s \in Seats, Dispatches(s) PROVE Orderly
<1>1. seat \in [Seats -> Session] /\ seat[s] \in Session /\ seat[s].at = "in" /\ seat[s].left > 0
  BY DEF Sound, Desk, Desks, Dispatches
<1> DEFINE d == [seat[s] EXCEPT !.at = "child", !.left = @ - 1]
<1>2. d \in Session /\ d.at = "child" /\ d.counted = seat[s].counted /\ d.model = seat[s].model
  BY <1>1, SessionTyping DEF Session
<1>3. seat' = [seat EXCEPT ![s] = d]
  BY DEF Dispatches
<1> HIDE DEF d
<1>4. seat' \in [Seats -> Session] /\ seat'[s] = d /\ \A t \in Seats \ {s} : seat'[t] = seat[t]
  BY <1>1, <1>2, <1>3
<1>5. \A t \in Seats : Alike(seat[t], seat'[t])
  BY <1>1, <1>2, <1>4, ToldIsAlike DEF Alike
<1> QED
  BY <1>4, <1>5, AlikeIsOrderly DEF Dispatches

LEMMA SilentIsOrderly == ASSUME Sound(Desk), NEW s \in Seats, GoesSilent(s) PROVE Orderly
<1>1. seat \in [Seats -> Session] /\ seat[s] \in Session /\ seat[s].at = "child"
  BY DEF Sound, Desk, Desks, GoesSilent, Untold, Child
<1> DEFINE d == [seat[s] EXCEPT !.hung = TRUE]
<1>2. d \in Session /\ d.at = "child" /\ d.counted = seat[s].counted /\ d.model = seat[s].model
  BY <1>1 DEF Session
<1>3. seat' = [seat EXCEPT ![s] = d]
  BY DEF GoesSilent
<1> HIDE DEF d
<1>4. seat' \in [Seats -> Session] /\ seat'[s] = d /\ \A t \in Seats \ {s} : seat'[t] = seat[t]
  BY <1>1, <1>2, <1>3
<1>5. \A t \in Seats : Alike(seat[t], seat'[t])
  BY <1>1, <1>2, <1>4, ToldIsAlike DEF Alike
<1> QED
  BY <1>4, <1>5, AlikeIsOrderly DEF GoesSilent

LEMMA SetLimitsIsOrderly ==
  ASSUME Sound(Desk), NEW caps \in Configs, SetLimits(caps) PROVE Orderly
<1>1. caps \in [Models -> Nat] /\ Models \in SUBSET Models
  BY SlotsAssumption
<1>2. Sound(Drain(Desk, Models, caps)) /\ First(Desk, Drain(Desk, Models, caps))
  BY <1>1, DrainIsSound, DrainIsFair
<1> QED
  BY <1>2, BecomesIs DEF SetLimits

LEMMA NextIsOrderly == ASSUME Kept, Sound(Desk), [Next]_vars PROVE Orderly
<1>0. limits \in [Models -> Nat] /\ \A s \in Seats : seat[s] \in Session
  BY KeptGives
<1>1. ASSUME NEW s \in Seats, NEW m \in Models, Begin(s, m) PROVE Orderly
  BY <1>0, <1>1, AcquireIsOrderly DEF Begin
<1>2. ASSUME NEW s \in Seats, WaitEnds(s) PROVE Orderly
  <2>1. seat[s].model \in Models
    BY <1>0 DEF Session
  <2> QED
    BY <1>0, <1>2, <2>1, AcquireIsOrderly DEF WaitEnds
<1>3. ASSUME NEW s \in Seats, Continues(s) PROVE Orderly
  BY <1>0, <1>3, RedispatchIsOrderly, LadderWaitIsOrderly, DegradeIsOrderly, EndsIsOrderly
     DEF Continues
<1>4. ASSUME NEW r \in Runs, KillRun(r) PROVE Orderly
  BY <1>4, TellsAreOrderly DEF KillRun
<1>5. CASE Stop
  BY <1>5, TellsAreOrderly DEF Stop
<1>6. CASE StopEnds \/ UNCHANGED vars
  <2>1. UNCHANGED <<held, queue, seat>>
    BY <1>6 DEF StopEnds, vars
  <2>2. \A s \in Seats : Alike(seat[s], seat'[s])
    BY <2>1, ToldIsAlike
  <2> QED
    BY <2>1, <2>2, AlikeIsOrderly, KeptGives
<1> QED
  BY <1>1, <1>2, <1>3, <1>4, <1>5, <1>6, DispatchIsOrderly, SilentIsOrderly, SetLimitsIsOrderly
     DEF Next

LEMMA InitSound == Init => Sound(Desk)
<1> SUFFICES ASSUME Init PROVE Sound(Desk)
  OBVIOUS
<1>1. Desk \in Desks
  BY InitKept DEF Kept, SlotsTyped
<1>2. \A m \in Models : Desk.held[m] = 0 /\ Desk.queue[m] = <<>>
  BY DEF Init, Desk
<1>3. \A s \in Seats : ~Desk.seat[s].counted
  BY DEF Init, Desk
<1>4. \A m \in Models : Counted(Desk, m) = {}
  BY <1>3 DEF Counted
<1>5. Accounted(Desk)
  BY <1>2, <1>4, FS_EmptySet DEF Accounted
<1> QED
  BY <1>1, <1>2, <1>3, <1>5 DEF Sound, InHand, QueuedEmpty, QueuedOnce

LEMMA AlwaysSound == Spec => [](Kept /\ Sound(Desk))
<1>1. Kept /\ Sound(Desk) /\ [Next]_vars => Kept' /\ Sound(Desk)'
  BY NextSteps, NextIsOrderly DEF Step, Orderly
<1> QED
  BY InitKept, InitSound, <1>1, PTL DEF Spec

(* Every slot that is held is held by a session between its grant and its        *)
(* release: none leaks through a wait, a degrade, a kill, a stop or an edit of   *)
(* the caps, for any number of sessions.                                       *)
THEOREM NoSlotLeaks == Spec => []SlotsAccounted
<1>1. Sound(Desk) => SlotsAccounted
  BY DEF Sound, Accounted, Counted, InHand, SlotsAccounted, Desk
<1> QED
  BY <1>1, AlwaysSound, PTL

(* First come, first served: who is let in under a cap leaves nobody behind who  *)
(* queued before it, for any caps and any edits of them.                       *)
THEOREM QueuesAreFair == Spec => FirstComeFirstServed
<1> DEFINE A == \A m \in Models : \A s \in Seats :
       seat'[s].counted /\ ~seat[s].counted /\ seat'[s].model = m =>
         \A i \in 1..Len(queue[m]) :
           (\A j \in 1..i : queue[m][j] # s) => seat'[queue[m][i]].at = "in"
<1>1. Kept /\ Sound(Desk) /\ [Next]_vars => A
  BY NextIsOrderly DEF Orderly, First, Desk
<1> QED
  BY <1>1, AlwaysSound, PTL DEF Spec, FirstComeFirstServed

(* Every variable keeps its type, and what is held is never below nothing: that  *)
(* last part is a consequence of the account, and of nothing less.              *)
THEOREM TypeCorrect == Spec => []TypeOK
<1> DEFINE Rest == mode \in {"up", "stopping", "down"} /\ closed \subseteq Runs /\ drain \subseteq Seats
<1>1. Init => Rest
  BY DEF Init
<1>2. Rest /\ [Next]_vars => Rest'
  BY DEF Next, vars, Begin, Dispatches, GoesSilent, WaitEnds, Continues, Redispatch, LadderWait,
     Degrade, Ends, Reaped, KillRun, Stop, StopEnds, SetLimits
<1>3. Kept /\ Sound(Desk) /\ Rest => TypeOK
  <2> SUFFICES ASSUME Kept, Sound(Desk), Rest PROVE TypeOK
    OBVIOUS
  <2>1. /\ held \in [Models -> Int] /\ queue \in [Models -> Seq(Seats)] /\ seat \in [Seats -> Session]
        /\ limits \in Configs
    BY DEF Kept, SlotsTyped, Desk, Desks
  <2>2. \A m \in Models : held[m] \in Nat
    BY CountedFinite DEF Sound, Accounted, Desk
  <2>3. held \in [Models -> Nat]
    BY <2>1, <2>2
  <2> QED
    BY <2>1, <2>3 DEF TypeOK
<1> HIDE DEF Rest
<1> QED
  BY <1>1, <1>2, <1>3, AlwaysSound, PTL DEF Spec

---------------------------------------------------------------------------
(* What the records stages read of their ledger.                             *)

(* The records are committed by their birth; the author has reported and was *)
(* not sent again.                                                           *)
HasBirth == SeqsOf("records-committed") # {}
Delivered == \E i \in Seqs("seat-report", Author) : \A j \in Seqs("seat-spawned", Author) : j < i

(* The corrective rounds of the judgment that stands, which are numbered.    *)
RoundSeqs == {i \in SeqsOf("reconcile-round") : \A j \in SeqsOf("reconciliation-judged") : j < i}

LedgerIsSound ==
  /\ led \in Seq(Range(led))
  /\ \A i \in DOMAIN led : /\ led[i].e = "seat-report" => "nth" \notin DOMAIN led[i]
                           /\ led[i].e = "reconcile-round" => "nth" \in DOMAIN led[i]
  /\ \A i \in RoundSeqs : led[i].nth \in Nat /\ led[i].nth <= Cardinality(RoundSeqs)

(* A ledger is finite, so its readings are what they seem.                   *)
RoundsRead == Rounds = Cardinality(RoundSeqs) /\ IsFiniteSet(RoundSeqs) /\ Rounds \in Nat

LEMMA RoundsAre == IsLedger => RoundsRead
<1> SUFFICES ASSUME IsLedger PROVE RoundsRead
  OBVIOUS
<1> USE DEF IsLedger, RoundsRead
<1>1. Len(led) \in Nat /\ SeqsOf("reconciliation-judged") \subseteq 1..Len(led) /\ SeqsOf("reconcile-round") \subseteq 1..Len(led)
  BY DEF SeqsOf
<1>2. \A i \in SeqsOf("reconcile-round") : i > Judged <=> \A j \in SeqsOf("reconciliation-judged") : j < i
  <2> DEFINE S == SeqsOf("reconciliation-judged")
  <2>1. /\ S = {} => Newest(S) = 0
        /\ S # {} => Newest(S) \in S /\ \A j \in S : j <= Newest(S)
    BY <1>1, NewestIs
  <2>2. (\A j \in S : j \in Nat) /\ \A i \in SeqsOf("reconcile-round") : i \in Nat /\ i > 0
    BY <1>1
  <2> HIDE DEF S
  <2>3. Judged = Newest(S)
    BY DEF Judged, S
  <2>4. PICK s : s = Newest(S) /\ s \in Nat /\ (s \in S \/ s = 0) /\ \A j \in S : j <= s
    <3> HIDE DEF Newest
    <3> QED
      BY <2>1, <2>2
  <2>5. ASSUME NEW i \in SeqsOf("reconcile-round") PROVE i > s <=> \A j \in S : j < i
    BY <2>2, <2>4
  <2> QED
    BY <2>3, <2>4, <2>5 DEF S
<1>3. RoundSeqs = {i \in SeqsOf("reconcile-round") : i > Judged}
  BY <1>2 DEF RoundSeqs
<1>4. IsFiniteSet(RoundSeqs)
  <2>1. IsFiniteSet(1..Len(led)) /\ RoundSeqs \subseteq 1..Len(led)
    BY <1>1, FS_Interval DEF RoundSeqs
  <2> QED
    BY <2>1, FS_Subset
<1> QED
  BY <1>3, <1>4, FS_CardinalityType DEF Rounds

LEMMA RoundsAreNext == IsLedger' => RoundsRead'
BY RoundsAre, PTL

LEMMA BirthIs ==
  ASSUME led \in Seq(Range(led))
  PROVE  /\ Committed > 0 <=> HasBirth
         /\ LastReport(Author) > Newest(Seqs("seat-spawned", Author)) <=> Delivered
<1>1. /\ Len(led) \in Nat /\ SeqsOf("records-committed") \subseteq 1..Len(led)
      /\ Seqs("seat-report", Author) \subseteq 1..Len(led) /\ Seqs("seat-spawned", Author) \subseteq 1..Len(led)
  BY DEF SeqsOf, Seqs
<1>2. Committed > 0 <=> HasBirth
  <2> DEFINE S == SeqsOf("records-committed")
  <2>1. /\ S = {} => Newest(S) = 0
        /\ S # {} => Newest(S) \in S
    BY <1>1, NewestIs
  <2>2. \A j \in S : j \in Nat /\ j > 0
    BY <1>1
  <2> HIDE DEF S, Newest
  <2>3. S # {} => Newest(S) > 0
    BY <2>1, <2>2
  <2>4. S = {} => ~(Newest(S) > 0)
    BY <2>1
  <2> QED
    BY <2>3, <2>4 DEF Committed, HasBirth, S
<1> QED
  BY <1>1, <1>2, NewestBeyond DEF Delivered, LastReport

(* A stamp of neither stage's counts keeps what they are made of.            *)
LEMMA RoundSeqsMove ==
  ASSUME NEW x, NEW sh, Shifted(led, led', x, sh), led \in Seq(Range(led)), led' \in Seq(Range(led')),
         x.e \notin {"reconcile-round", "reconciliation-judged"}
  PROVE  RoundSeqs \subseteq DOMAIN sh /\ RoundSeqs' = Dest(sh, RoundSeqs)
<1>1. /\ SeqsOf("reconcile-round") \subseteq DOMAIN sh /\ SeqsOf("reconcile-round")' = Dest(sh, SeqsOf("reconcile-round"))
      /\ SeqsOf("reconciliation-judged") \subseteq DOMAIN sh
      /\ SeqsOf("reconciliation-judged")' = Dest(sh, SeqsOf("reconciliation-judged"))
  BY KindMoves
<1>2. \A a, b \in DOMAIN sh : a < b <=> sh[a] < sh[b]
  BY MovesInOrder
<1> QED
  BY <1>1, <1>2 DEF RoundSeqs, Dest

(* A stamp that says nothing of the author's turn or of the rounds.          *)
Mild(x) == /\ x.e \notin {"seat-spawned", "reconcile-round", "reconciliation-judged"}
           /\ x.e = "seat-report" => "nth" \notin DOMAIN x

(* What a step may not take from the ledger.                                 *)
LedgerKept == /\ LedgerIsSound' /\ Rounds' = Rounds
              /\ HasBirth => HasBirth'
              /\ Delivered => Delivered'

LEMMA UnstampedKept ==
  ASSUME LedgerIsSound, UNCHANGED led
  PROVE  LedgerKept
BY DEF LedgerKept, LedgerIsSound, RoundSeqs, SeqsOf, Seqs, Rounds, Judged, Newest, HasBirth, Delivered

LEMMA StampKept ==
  ASSUME LedgerIsSound, NEW x, Mild(x), Stamp(x)
  PROVE  /\ LedgerKept
         /\ x.e = "records-committed" => HasBirth'
         /\ x.e = "seat-report" /\ x.of = Author => Delivered'
<1>1. PICK sh : Shifted(led, led', x, sh)
  BY StampShifts DEF LedgerIsSound
<1>2. IsLedger /\ IsLedger' /\ \A y \in Range(led') : y = x \/ y \in Range(led)
  BY StampShifts DEF LedgerIsSound, IsLedger
<1>3. /\ Len(led') \in DOMAIN led' /\ led'[Len(led')] = x
      /\ \A j \in DOMAIN led' : j \in Nat /\ j <= Len(led')
      /\ \A k \in DOMAIN sh : k \in DOMAIN led /\ sh[k] \in DOMAIN led' /\ led'[sh[k]] = led[k]
  BY <1>1, ShiftIs
<1>4. RoundSeqs \subseteq DOMAIN sh /\ RoundSeqs' = Dest(sh, RoundSeqs)
  BY <1>1, <1>2, RoundSeqsMove DEF Mild, IsLedger
<1>5. Rounds' = Rounds /\ Cardinality(RoundSeqs') = Cardinality(RoundSeqs)
  BY <1>1, <1>2, <1>4, RoundsAre, RoundsAreNext, DestCounts DEF RoundsRead, IsLedger
<1>6. LedgerIsSound'
  <2>1. \A i \in DOMAIN led' : /\ led'[i].e = "seat-report" => "nth" \notin DOMAIN led'[i]
                               /\ led'[i].e = "reconcile-round" => "nth" \in DOMAIN led'[i]
    BY <1>2 DEF LedgerIsSound, Mild, Range
  <2>2. \A i \in RoundSeqs' : led'[i].nth \in Nat /\ led'[i].nth <= Cardinality(RoundSeqs')
    BY <1>3, <1>4, <1>5 DEF LedgerIsSound, Dest
  <2> QED
    BY <1>2, <2>1, <2>2 DEF LedgerIsSound, IsLedger
<1>7. x.e = "records-committed" => HasBirth'
  BY <1>3 DEF HasBirth, SeqsOf
<1>8. HasBirth => HasBirth'
  <2>1. CASE x.e # "records-committed"
    BY <1>1, <2>1, KindMoves DEF HasBirth, Dest
  <2> QED
    BY <1>7, <2>1
<1>9. x.e = "seat-report" /\ x.of = Author => Delivered'
  <2> SUFFICES ASSUME x.e = "seat-report", x.of = Author PROVE Delivered'
    OBVIOUS
  <2>1. Len(led') \in Seqs("seat-report", Author)'
    BY <1>3 DEF Seqs
  <2>2. \A j \in Seqs("seat-spawned", Author)' : j < Len(led')
    <3>1. \A j \in Seqs("seat-spawned", Author)' : j \in DOMAIN led' /\ led'[j].e = "seat-spawned"
      BY DEF Seqs
    <3>2. x.e # "seat-spawned"
      OBVIOUS
    <3>3. \A j \in Seqs("seat-spawned", Author)' : j # Len(led')
      BY <1>3, <3>1, <3>2
    <3>4. Len(led') \in Nat
      BY <1>3
    <3> QED
      BY <1>3, <3>1, <3>3, <3>4
  <2> QED
    BY <2>1, <2>2 DEF Delivered
<1>10. Delivered => Delivered'
  <2>1. CASE ~(x.e = "seat-report" /\ x.of = Author)
    <3>1. /\ Seqs("seat-spawned", Author) \subseteq DOMAIN sh
          /\ Seqs("seat-spawned", Author)' = Dest(sh, Seqs("seat-spawned", Author))
      BY <1>1, KindMoves DEF Mild
    <3>2. /\ Seqs("seat-report", Author) \subseteq DOMAIN sh
          /\ Seqs("seat-report", Author)' = Dest(sh, Seqs("seat-report", Author))
      <4>1. CASE x.e # "seat-report"
        BY <1>1, <4>1, KindMoves
      <4>2. CASE x.e = "seat-report"
        <5>1. \A k \in DOMAIN led : led[k].e = x.e => "nth" \notin DOMAIN led[k]
          BY <4>2 DEF LedgerIsSound
        <5>2. Author # x.of /\ "nth" \notin DOMAIN x
          BY <2>1, <4>2 DEF Mild
        <5>3. Seqs(x.e, Author) \subseteq DOMAIN sh /\ Seqs(x.e, Author)' = Dest(sh, Seqs(x.e, Author))
          BY <1>1, <5>1, <5>2, NameShifts
        <5> QED
          BY <4>2, <5>3
      <4> QED
        BY <4>1, <4>2
    <3> QED
      BY <1>1, <3>1, <3>2, ImageReaches, MovesInOrder DEF Delivered
  <2> QED
    BY <1>9, <2>1
<1> QED
  BY <1>5, <1>6, <1>7, <1>8, <1>9, <1>10 DEF LedgerKept

LEMMA SpawnKeeps ==
  ASSUME LedgerIsSound, NEW x, Stamp(x), x.e = "seat-spawned"
  PROVE  LedgerIsSound' /\ Rounds' = Rounds /\ (HasBirth => HasBirth')
<1>1. PICK sh : Shifted(led, led', x, sh)
  BY StampShifts DEF LedgerIsSound
<1>2. IsLedger /\ IsLedger' /\ \A y \in Range(led') : y = x \/ y \in Range(led)
  BY StampShifts DEF LedgerIsSound, IsLedger
<1>3. \A k \in DOMAIN sh : k \in DOMAIN led /\ sh[k] \in DOMAIN led' /\ led'[sh[k]] = led[k]
  BY <1>1, ShiftIs
<1>4. RoundSeqs \subseteq DOMAIN sh /\ RoundSeqs' = Dest(sh, RoundSeqs)
  BY <1>1, <1>2, RoundSeqsMove DEF IsLedger
<1>5. Rounds' = Rounds /\ Cardinality(RoundSeqs') = Cardinality(RoundSeqs)
  BY <1>1, <1>2, <1>4, RoundsAre, RoundsAreNext, DestCounts DEF RoundsRead, IsLedger
<1>6. \A i \in DOMAIN led' : /\ led'[i].e = "seat-report" => "nth" \notin DOMAIN led'[i]
                             /\ led'[i].e = "reconcile-round" => "nth" \in DOMAIN led'[i]
  BY <1>2 DEF LedgerIsSound, Range
<1>7. \A i \in RoundSeqs' : led'[i].nth \in Nat /\ led'[i].nth <= Cardinality(RoundSeqs')
  BY <1>3, <1>4, <1>5 DEF LedgerIsSound, Dest
<1>8. HasBirth => HasBirth'
  BY <1>1, KindMoves DEF HasBirth, Dest
<1> QED
  BY <1>2, <1>5, <1>6, <1>7, <1>8 DEF LedgerIsSound, IsLedger

(* A corrective round is stamped under the next number, and is one more.     *)
LEMMA RoundIsCounted ==
  ASSUME LedgerIsSound, NEW x, Stamp(x), x.e = "reconcile-round", "nth" \in DOMAIN x, x.nth = Rounds + 1
  PROVE  LedgerIsSound' /\ Rounds' = Rounds + 1 /\ (HasBirth => HasBirth') /\ (Delivered => Delivered')
<1>1. PICK sh : Shifted(led, led', x, sh)
  BY StampShifts DEF LedgerIsSound
<1>2. IsLedger /\ IsLedger' /\ \A y \in Range(led') : y = x \/ y \in Range(led)
  BY StampShifts DEF LedgerIsSound, IsLedger
<1>3. /\ Len(led') \in DOMAIN led' /\ led'[Len(led')] = x
      /\ \A j \in DOMAIN led' : j \in Nat /\ j <= Len(led')
      /\ \A j \in DOMAIN led' : j = Len(led') \/ \E k \in DOMAIN sh : sh[k] = j
      /\ \A k \in DOMAIN sh : k \in DOMAIN led /\ sh[k] \in DOMAIN led' /\ sh[k] < Len(led') /\ led'[sh[k]] = led[k]
  BY <1>1, ShiftIs
<1>4. /\ SeqsOf("reconciliation-judged") \subseteq DOMAIN sh
      /\ SeqsOf("reconciliation-judged")' = Dest(sh, SeqsOf("reconciliation-judged"))
  BY <1>1, KindMoves
<1>5. RoundsRead /\ Rounds \in Nat /\ \A i \in RoundSeqs : led[i].nth # Rounds + 1
  BY <1>2, RoundsAre DEF RoundsRead, LedgerIsSound
<1>6. RoundSeqs \subseteq DOMAIN sh
  <2> SUFFICES ASSUME NEW k \in RoundSeqs, k \notin DOMAIN sh PROVE FALSE
    OBVIOUS
  <2>1. k \in DOMAIN led /\ led[k].e = "reconcile-round" /\ "nth" \in DOMAIN led[k]
    BY DEF RoundSeqs, SeqsOf, LedgerIsSound
  <2>2. Key(led[k]) = Key(x)
    BY <1>1, <2>1 DEF Shifted
  <2>3. led[k].nth = x.nth
    BY <2>1, <2>2 DEF Key
  <2> QED
    BY <1>5, <2>3
<1>7. RoundSeqs' = Dest(sh, RoundSeqs) \cup {Len(led')}
  <2>1. \A a, b \in DOMAIN sh : a < b <=> sh[a] < sh[b]
    BY <1>1, MovesInOrder
  <2>2. ASSUME NEW k \in RoundSeqs PROVE sh[k] \in RoundSeqs'
    BY <1>3, <1>4, <1>6, <2>1, <2>2 DEF RoundSeqs, SeqsOf, Dest
  <2>3. Len(led') \in RoundSeqs'
    BY <1>3, <1>4 DEF RoundSeqs, SeqsOf, Dest
  <2>4. ASSUME NEW j \in RoundSeqs', j # Len(led') PROVE j \in Dest(sh, RoundSeqs)
    <3>1. j \in DOMAIN led' /\ led'[j].e = "reconcile-round" /\ \A i \in SeqsOf("reconciliation-judged")' : i < j
      BY DEF RoundSeqs, SeqsOf
    <3>2. PICK k \in DOMAIN sh : sh[k] = j
      BY <1>3, <2>4, <3>1
    <3>3. k \in DOMAIN led /\ led[k].e = "reconcile-round" /\ \A i \in SeqsOf("reconciliation-judged") : i < k
      BY <1>3, <1>4, <2>1, <3>1, <3>2 DEF Dest
    <3> QED
      BY <3>2, <3>3 DEF RoundSeqs, SeqsOf, Dest
  <2> QED
    BY <2>2, <2>3, <2>4 DEF Dest
<1>8. IsFiniteSet(Dest(sh, RoundSeqs)) /\ Cardinality(Dest(sh, RoundSeqs)) = Rounds
  BY <1>1, <1>2, <1>5, <1>6, DestCounts DEF RoundsRead, IsLedger
<1>9. Cardinality(RoundSeqs') = Rounds + 1
  <2>1. Len(led') \notin Dest(sh, RoundSeqs)
    <3>1. \A k \in RoundSeqs : sh[k] \in Nat /\ sh[k] < Len(led') /\ Len(led') \in Nat
      BY <1>3, <1>6
    <3> QED
      BY <3>1 DEF Dest
  <2> QED
    BY <1>7, <1>8, <2>1, FS_AddElement
<1>10. Rounds' = Rounds + 1
  BY <1>2, <1>9, RoundsAreNext DEF RoundsRead
<1>11. LedgerIsSound'
  <2>1. \A i \in DOMAIN led' : /\ led'[i].e = "seat-report" => "nth" \notin DOMAIN led'[i]
                               /\ led'[i].e = "reconcile-round" => "nth" \in DOMAIN led'[i]
    BY <1>2 DEF LedgerIsSound, Range
  <2>2. \A i \in RoundSeqs' : led'[i].nth \in Nat /\ led'[i].nth <= Cardinality(RoundSeqs')
    <3> SUFFICES ASSUME NEW i \in RoundSeqs' PROVE led'[i].nth \in Nat /\ led'[i].nth <= Rounds + 1
      BY <1>9
    <3>1. CASE i = Len(led')
      BY <1>3, <1>5, <3>1
    <3>2. CASE i # Len(led')
      <4>1. PICK k \in RoundSeqs : sh[k] = i
        BY <1>7, <3>2 DEF Dest
      <4>2. led[k].nth \in Nat /\ led[k].nth <= Rounds
        BY <1>5 DEF LedgerIsSound, RoundsRead
      <4>3. led'[i] = led[k]
        BY <1>3, <1>6, <4>1
      <4> QED
        BY <1>5, <4>2, <4>3
    <3> QED
      BY <3>1, <3>2
  <2> QED
    BY <1>2, <2>1, <2>2 DEF LedgerIsSound, IsLedger
<1>12. HasBirth => HasBirth'
  BY <1>1, KindMoves DEF HasBirth, Dest
<1>13. Delivered => Delivered'
  <2>1. /\ Seqs("seat-spawned", Author) \subseteq DOMAIN sh
        /\ Seqs("seat-spawned", Author)' = Dest(sh, Seqs("seat-spawned", Author))
        /\ Seqs("seat-report", Author) \subseteq DOMAIN sh
        /\ Seqs("seat-report", Author)' = Dest(sh, Seqs("seat-report", Author))
    BY <1>1, KindMoves
  <2> QED
    BY <1>1, <2>1, ImageReaches, MovesInOrder DEF Delivered
<1> QED
  BY <1>10, <1>11, <1>12, <1>13

(* A judgment starts the count of its rounds.                                *)
LEMMA JudgmentCountsAnew ==
  ASSUME LedgerIsSound, NEW x, Stamp(x), x.e = "reconciliation-judged"
  PROVE  LedgerIsSound' /\ Rounds' = 0 /\ (HasBirth => HasBirth') /\ (Delivered => Delivered')
<1>1. PICK sh : Shifted(led, led', x, sh)
  BY StampShifts DEF LedgerIsSound
<1>2. IsLedger' /\ \A y \in Range(led') : y = x \/ y \in Range(led)
  BY StampShifts DEF LedgerIsSound, IsLedger
<1>3. /\ Len(led') \in DOMAIN led' /\ led'[Len(led')] = x
      /\ \A j \in DOMAIN led' : j \in Nat /\ j <= Len(led')
  BY <1>1, ShiftIs
<1>4. RoundSeqs' = {}
  <2>1. Len(led') \in SeqsOf("reconciliation-judged")'
    BY <1>3 DEF SeqsOf
  <2>2. ASSUME NEW i \in RoundSeqs' PROVE FALSE
    <3>1. i \in DOMAIN led' /\ Len(led') < i
      BY <2>1 DEF RoundSeqs, SeqsOf
    <3>2. i \in Nat /\ i <= Len(led') /\ Len(led') \in Nat
      BY <1>3, <3>1
    <3> QED
      BY <3>1, <3>2
  <2> QED
    BY <2>2
<1>5. Rounds' = 0
  BY <1>2, <1>4, RoundsAreNext, FS_EmptySet DEF RoundsRead
<1>6. LedgerIsSound'
  BY <1>2, <1>4 DEF LedgerIsSound, IsLedger, Range
<1>7. HasBirth => HasBirth'
  BY <1>1, KindMoves DEF HasBirth, Dest
<1>8. Delivered => Delivered'
  <2>1. /\ Seqs("seat-spawned", Author) \subseteq DOMAIN sh
        /\ Seqs("seat-spawned", Author)' = Dest(sh, Seqs("seat-spawned", Author))
        /\ Seqs("seat-report", Author) \subseteq DOMAIN sh
        /\ Seqs("seat-report", Author)' = Dest(sh, Seqs("seat-report", Author))
    BY <1>1, KindMoves
  <2> QED
    BY <1>1, <2>1, ImageReaches, MovesInOrder DEF Delivered
<1> QED
  BY <1>5, <1>6, <1>7, <1>8

---------------------------------------------------------------------------
(* The invariant of the two stages.                                          *)

Fields == /\ {"mode", "text", "closed", "window", "body", "dirty"} \subseteq DOMAIN tree
          /\ {"clean", "commits", "unread", "rounds", "returns", "trouble", "lost"} \subseteq DOMAIN hist
          /\ hist.commits \in Nat /\ hist.unread \in Nat /\ hist.rounds \in Nat /\ hist.lost \in Nat

(* A place of a round of writers.                                            *)
InRound == {"round", "seat", "commit", "stamp", "written"}
Corrects(p) == \/ p.pc = "correct"
               \/ p.pc \in InRound /\ p.task = "correct"

(* What the handler has made sure of where it stands.  The author is sent    *)
(* over a branch no record was changed on; its commit stands behind its      *)
(* report; a writer is sent, and its edits are committed, where no commit of *)
(* its round stands; and a corrective round has room under the cap.          *)
PlaceIsSound(p, t) ==
  /\ "pc" \in DOMAIN p
  /\ p.pc \in InRound => "task" \in DOMAIN p
  /\ p.pc \in {"install", "reset", "dispatch", "out"} => t.window = {}
  /\ p.pc \in {"dispatch", "out"} => t.dirty = {}
  /\ p.pc = "checks" => Delivered
  /\ p.pc \in {"write", "correct", "round", "seat", "commit"} => HasBirth
  /\ p.pc \in {"seat", "commit"} => t.body = {}
  /\ Corrects(p) => Rounds < Cap

(* A round that is written and not yet stamped is one ahead of the ledger.   *)
CountIsSound ==
  IF at.pc = "count" THEN at.round = Rounds + 1 /\ Rounds < Cap /\ hist.rounds <= Rounds + 1 + hist.lost
  ELSE hist.rounds <= Rounds + hist.lost

RecordsInv ==
  /\ LedgerIsSound /\ Fields /\ PlaceIsSound(at, tree) /\ CountIsSound
  /\ Rounds <= Cap
  /\ tree.window # {} => HasBirth \/ Delivered

LEMMA RecordsInvImplies ==
  RecordsInv => AuthorStartsClean /\ RoundsAreCapped
<1> SUFFICES ASSUME RecordsInv PROVE AuthorStartsClean /\ RoundsAreCapped
  OBVIOUS
<1>1. AuthorStartsClean
  BY DEF RecordsInv, PlaceIsSound, AuthorStartsClean
<1>2. Rounds \in Nat /\ Cap \in Nat
  BY RoundsAre, CapAssumption DEF RecordsInv, LedgerIsSound, IsLedger, RoundsRead
<1>3. hist.rounds <= Cap + hist.lost
  BY <1>2 DEF RecordsInv, CountIsSound, Fields
<1> QED
  BY <1>1, <1>3 DEF RoundsAreCapped

(* Where no count moves, a step has to answer for its place alone.           *)
LEMMA StepIsSound ==
  ASSUME RecordsInv, LedgerKept, PlaceIsSound(at', tree'), at'.pc # "count", at.pc # "count",
         DOMAIN tree' = DOMAIN tree, tree'.window = tree.window, tree'.body = tree.body,
         DOMAIN hist' = DOMAIN hist, hist'.commits = hist.commits /\ hist'.unread = hist.unread, hist'.rounds = hist.rounds, hist'.lost = hist.lost
  PROVE  RecordsInv'
<1>1. PlaceIsSound(at, tree)'
  BY DEF PlaceIsSound, LedgerKept, Corrects
<1> QED
  BY <1>1 DEF RecordsInv, LedgerKept, Fields, CountIsSound

(* A place that nothing has to be made sure of for.                          *)
Idle(p) == "pc" \in DOMAIN p /\ p.pc \notin InRound \cup {"install", "reset", "dispatch", "out", "checks", "write", "correct", "count"}

LEMMA IdlePlaces ==
  /\ \A p, t : Idle(p) => PlaceIsSound(p, t) /\ p.pc # "count"
  /\ \A pc : pc \in {"enter", "closed", "left", "fallback", "cycle", "review-set", "review", "stall", "recheck", "judge",
                     "failed", "parked"} => Idle(Pc(pc))
  /\ \A type, why : Idle(Ask(type, why)) /\ Idle(Recover(type, why))
  /\ \A who : Idle(SeatFail(who))
  /\ \A reason : Idle(Blocked(reason)) /\ Idle(CommandError(reason))
<1>1. \A pc : Pc(pc).pc = pc /\ "pc" \in DOMAIN Pc(pc)
  BY DEF Pc
<1>2. \A pc : pc \in {"enter", "closed", "left", "fallback", "cycle", "review-set", "review", "stall", "recheck", "judge",
                      "failed", "parked"} => Idle(Pc(pc))
  BY <1>1 DEF Idle, InRound
<1>3. \A type, why : Idle(Ask(type, why)) /\ Idle(Recover(type, why))
  BY <1>2 DEF Idle, Ask, Recover, InRound
<1> QED
  BY <1>2, <1>3 DEF Idle, PlaceIsSound, InRound, Corrects, SeatFail, Blocked, CommandError

LEMMA GoesOn ==
  ASSUME RecordsInv, NEW p, Go(p), PlaceIsSound(p, tree), p.pc # "count", at.pc # "count", UNCHANGED <<tree, hist>>
  PROVE  RecordsInv'
<1>1. LedgerKept
  BY UnstampedKept DEF RecordsInv, Go
<1>2. PlaceIsSound(at', tree') /\ at'.pc # "count"
  BY DEF Go
<1> QED
  BY <1>1, <1>2, StepIsSound

LEMMA StampsOn ==
  ASSUME RecordsInv, NEW x, NEW p, StampAndGo(x, p), Mild(x), PlaceIsSound(p, tree), p.pc # "count", at.pc # "count",
         UNCHANGED <<tree, hist>>
  PROVE  RecordsInv'
<1>1. LedgerKept
  BY StampKept DEF RecordsInv, StampAndGo
<1>2. PlaceIsSound(at', tree') /\ at'.pc # "count"
  BY DEF StampAndGo
<1> QED
  BY <1>1, <1>2, StepIsSound

LEMMA EventIsMild ==
  \A e, of, why : e \notin {"seat-spawned", "reconcile-round", "reconciliation-judged"}
                    => Mild(Event(e, of, why)) /\ Event(e, of, why).e = e
BY DEF Mild, Event

---------------------------------------------------------------------------
(* The birth.                                                                *)

LEMMA BirthIsSound ==
  ASSUME RecordsInv, BirthStep, UNCHANGED hist
  PROVE  RecordsInv'
<1> USE DEF Enters
<1>0. IsLedger
  BY DEF RecordsInv, LedgerIsSound, IsLedger
<1>1. CASE Readiness
  <2>1. at.pc = "enter" /\ UNCHANGED <<tree, hist>>
        /\ (StampAndGo(Event("records-entered", "", ""), at) \/ \E reason : Go(Blocked(reason)))
    BY <1>1 DEF Readiness
  <2>2. Mild(Event("records-entered", "", ""))
    BY EventIsMild
  <2>3. PlaceIsSound(at, tree)
    BY DEF RecordsInv
  <2> QED
    BY <2>1, <2>2, <2>3, IdlePlaces, GoesOn, StampsOn
<1>2. CASE BirthRecords
  <2>1. at.pc = "enter" /\ UNCHANGED <<tree, hist>> /\ RecordsStep # "done"
    BY <1>2 DEF BirthRecords
  <2>2. CASE Records = {}
    <3>1. PICK x : x = RecordsCommitted("none", {})
      OBVIOUS
    <3>2. Mild(x) /\ StampAndGo(x, at)
      BY <1>2, <2>2, <3>1 DEF BirthRecords, RecordsCommitted, Mild
    <3> QED
      BY <2>1, <3>2, StampsOn DEF RecordsInv
  <2>3. CASE Records # {} /\ RecordsStep = "commit"
    <3>1. Go(Pc("checks")) /\ Delivered
      BY <1>0, <1>2, <2>3, BirthIs DEF BirthRecords, RecordsStep, IsLedger
    <3>2. PlaceIsSound(Pc("checks"), tree) /\ Pc("checks").pc # "count"
      BY <3>1 DEF PlaceIsSound, Pc, InRound, Corrects
    <3> QED
      BY <2>1, <3>1, <3>2, GoesOn
  <2>4. CASE Records # {} /\ RecordsStep # "commit"
    <3>1. Go(Pc("install")) /\ ~HasBirth /\ ~Delivered
      BY <1>0, <1>2, <2>1, <2>4, BirthIs DEF BirthRecords, RecordsStep, IsLedger
    <3>2. tree.window = {}
      BY <3>1 DEF RecordsInv
    <3>3. PlaceIsSound(Pc("install"), tree) /\ Pc("install").pc # "count"
      BY <3>2 DEF PlaceIsSound, Pc, InRound, Corrects
    <3> QED
      BY <2>1, <3>1, <3>3, GoesOn
  <2> QED
    BY <2>2, <2>3, <2>4
<1>3. CASE InstallGateNeeds
  <2>1. at.pc = "install" /\ UNCHANGED <<tree, hist>>
        /\ \/ Go(Pc("reset")) \/ StampAndGo(Event("gate-needs", "", ""), Pc("reset")) \/ Go(CommandError("gate-command"))
    BY <1>3 DEF InstallGateNeeds
  <2>2. tree.window = {}
    BY <2>1 DEF RecordsInv, PlaceIsSound
  <2>3. PlaceIsSound(Pc("reset"), tree) /\ Pc("reset").pc # "count"
    BY <2>2 DEF PlaceIsSound, Pc, InRound, Corrects
  <2>4. Mild(Event("gate-needs", "", ""))
    BY EventIsMild
  <2> QED
    BY <2>1, <2>3, <2>4, IdlePlaces, GoesOn, StampsOn
<1>4. CASE ResetTree
  <2>1. at.pc = "reset" /\ tree' = [tree EXCEPT !.dirty = {}] /\ Go(Seat(Author)) /\ UNCHANGED hist
    BY <1>4 DEF ResetTree
  <2>2. tree.window = {} /\ tree'.window = tree.window /\ tree'.body = tree.body /\ tree'.dirty = {} /\ DOMAIN tree' = DOMAIN tree
    BY <2>1 DEF RecordsInv, PlaceIsSound, Fields
  <2>3. LedgerKept
    BY <2>1, UnstampedKept DEF RecordsInv, Go
  <2>4. PlaceIsSound(at', tree') /\ at'.pc # "count"
    BY <2>1, <2>2 DEF Go, Seat, SeatFor, PlaceIsSound, InRound, Corrects
  <2> QED
    BY <2>1, <2>2, <2>3, <2>4, StepIsSound
<1>5. CASE AuthorReports
  <2>1. PICK wrote, named :
           /\ StampAndGo([e |-> "seat-report", of |-> Author, why |-> "", names |-> named], Pc("checks"))
           /\ tree' = [tree EXCEPT !.dirty = wrote]
    BY <1>5 DEF AuthorReports
  <2>2. PICK x : x = [e |-> "seat-report", of |-> Author, why |-> "", names |-> named]
    OBVIOUS
  <2>3. Mild(x) /\ x.e = "seat-report" /\ x.of = Author /\ Stamp(x) /\ at' = Pc("checks")
    BY <2>1, <2>2 DEF Mild, StampAndGo
  <2>4. LedgerKept /\ Delivered'
    BY <2>3, StampKept DEF RecordsInv
  <2>5. /\ at.pc = "out" /\ tree'.window = tree.window /\ tree'.body = tree.body /\ DOMAIN tree' = DOMAIN tree
        /\ tree.window = {}
    BY <1>5, <2>1 DEF AuthorReports, AuthorAtWork, RecordsInv, PlaceIsSound, Fields
  <2>6. PlaceIsSound(at, tree)'
    BY <2>3, <2>4 DEF PlaceIsSound, Pc, InRound, Corrects
  <2>7. at'.pc = "checks"
    BY <2>3 DEF Pc
  <2> QED
    BY <2>4, <2>5, <2>6, <2>7 DEF RecordsInv, LedgerKept, Fields, CountIsSound
<1>6. CASE AuthorFails
  <2>1. at.pc = "out" /\ \E wrote : tree' = [tree EXCEPT !.dirty = wrote]
    BY <1>6 DEF AuthorFails, AuthorAtWork
  <2>2. \E who, p : StampAndGo(Event("seat-failure", who, "no-report"), p) /\ Idle(p)
    BY <1>6, IdlePlaces DEF AuthorFails, NoReport
  <2>3. PICK who, p : StampAndGo(Event("seat-failure", who, "no-report"), p) /\ Idle(p)
    BY <2>2
  <2>4. Mild(Event("seat-failure", who, "no-report"))
    BY EventIsMild
  <2>5. LedgerKept
    BY <2>3, <2>4, StampKept DEF RecordsInv, StampAndGo
  <2>6. PlaceIsSound(at', tree') /\ at'.pc # "count"
    BY <2>3, IdlePlaces DEF StampAndGo
  <2>7. tree'.window = tree.window /\ tree'.body = tree.body /\ DOMAIN tree' = DOMAIN tree
    BY <2>1 DEF RecordsInv, Fields
  <2> QED
    BY <2>1, <2>5, <2>6, <2>7, StepIsSound
<1>7. CASE BirthFailed
  <2>1. at.pc = "failed" /\ UNCHANGED <<tree, hist>> /\ StampAndGo(RecordsCommitted("failed", {}), Pc("enter"))
    BY <1>7 DEF BirthFailed
  <2>2. Mild(RecordsCommitted("failed", {}))
    BY DEF Mild, RecordsCommitted
  <2> QED
    BY <2>1, <2>2, IdlePlaces, StampsOn
<1>8. CASE CommitRecords
  <2>1. at.pc = "checks" /\ UNCHANGED <<led, hist>> /\ at' = [pc |-> "born", paths |-> Named(LastReport(Author)) \union tree.dirty]
        /\ \E w, text : tree' = [tree EXCEPT !.dirty = {}, !.window = w, !.text = text]
    BY <1>8 DEF CommitRecords, Go
  <2>2. Delivered
    BY <2>1 DEF RecordsInv, PlaceIsSound
  <2>3. LedgerKept
    BY <2>1, UnstampedKept DEF RecordsInv
  <2>4. tree'.body = tree.body /\ DOMAIN tree' = DOMAIN tree
    BY <2>1 DEF RecordsInv, Fields
  <2>5. PlaceIsSound(at, tree)' /\ at'.pc = "born"
    BY <2>1 DEF PlaceIsSound, InRound, Corrects
  <2> QED
    BY <2>1, <2>2, <2>3, <2>4, <2>5 DEF RecordsInv, LedgerKept, Fields, CountIsSound
<1>9. CASE StampBorn
  <2>1. at.pc = "born" /\ UNCHANGED <<tree, hist>> /\ StampAndGo(RecordsCommitted("", at.paths), Pc("enter"))
    BY <1>9 DEF StampBorn
  <2>2. Mild(RecordsCommitted("", at.paths))
    BY DEF Mild, RecordsCommitted
  <2> QED
    BY <2>1, <2>2, IdlePlaces, StampsOn
<1>10. CASE CloseNothingBorn
  BY <1>10, IdlePlaces, GoesOn DEF CloseNothingBorn
<1>11. CASE RefreshForRetry /\ UNCHANGED tree
  <2>1. at.pc = "enter" /\ UNCHANGED <<tree, hist>> /\ StampAndGo(Event("tree-refreshed", "", ""), at)
    BY <1>11 DEF RefreshForRetry
  <2>2. Mild(Event("tree-refreshed", "", "")) /\ PlaceIsSound(at, tree)
    BY EventIsMild DEF RecordsInv
  <2> QED
    BY <2>1, <2>2, StampsOn
<1>12. CASE at.pc = "dispatch" /\ at.seat = Author /\ Dispatch /\ UNCHANGED tree
  <2>1. PICK x : x = Event("seat-spawned", Author, "")
    OBVIOUS
  <2>2. Stamp(x) /\ at' = [at EXCEPT !.pc = "out"] /\ UNCHANGED <<tree, hist, spent>>
    BY <1>12, <2>1 DEF Dispatch, StampAndGo, Author
  <2>3. x.e = "seat-spawned"
    BY <2>1 DEF Event
  <2>4. LedgerIsSound' /\ Rounds' = Rounds /\ (HasBirth => HasBirth')
    BY <2>2, <2>3, SpawnKeeps DEF RecordsInv
  <2>5. tree.window = {} /\ tree.dirty = {}
    BY <1>12 DEF RecordsInv, PlaceIsSound
  <2>6. at'.pc = "out" /\ "pc" \in DOMAIN at'
    BY <2>2 DEF RecordsInv, PlaceIsSound
  <2>7. PlaceIsSound(at, tree)'
    BY <2>2, <2>5, <2>6 DEF PlaceIsSound, InRound, Corrects
  <2> QED
    BY <1>12, <2>2, <2>4, <2>5, <2>6, <2>7 DEF RecordsInv, Fields, CountIsSound
<1> QED
  BY <1>1, <1>2, <1>3, <1>4, <1>5, <1>6, <1>7, <1>8, <1>9, <1>10, <1>11, <1>12 DEF BirthStep

---------------------------------------------------------------------------
(* The steps of the reconcile stage.                                         *)

(* A step that stamps, and moves nothing the counts are made of.             *)
LEMMA StampsBeside ==
  ASSUME RecordsInv, NEW x, NEW p, StampAndGo(x, p), Mild(x), PlaceIsSound(p, tree'), p.pc # "count", at.pc # "count",
         DOMAIN tree' = DOMAIN tree, tree'.window = tree.window, tree'.body = tree.body,
         DOMAIN hist' = DOMAIN hist, hist'.commits = hist.commits /\ hist'.unread = hist.unread, hist'.rounds = hist.rounds, hist'.lost = hist.lost
  PROVE  RecordsInv'
<1>1. LedgerKept
  BY StampKept DEF RecordsInv, StampAndGo
<1>2. PlaceIsSound(at', tree') /\ at'.pc # "count"
  BY DEF StampAndGo
<1> QED
  BY <1>1, <1>2, StepIsSound

(* What a seat's findings and failures spend is no count of the invariant.   *)
LEMMA TroubleCountsNothing ==
  ASSUME RecordsInv, NEW n, Trouble(n)
  PROVE  DOMAIN hist' = DOMAIN hist /\ hist'.commits = hist.commits /\ hist'.unread = hist.unread /\ hist'.rounds = hist.rounds /\ hist'.lost = hist.lost
BY DEF RecordsInv, Fields, Trouble

LEMMA StepsAre ==
  /\ ReconcileStep \in {"judge", "write", "done", "cycle", "recheck", "stall", "correct"}
  /\ ReconcileStep = "correct" => ~RoundsSpent
BY DEF ReconcileStep

LEMMA TakeIsSound ==
  ASSUME RecordsInv, TakeStep \/ AdvisoryStep
  PROVE  RecordsInv'
<1>0. at.pc = "enter" /\ UNCHANGED <<tree, hist>>
  BY DEF TakeStep, AdvisoryStep, EntersStage, Enters, Do, DoStamp, Stay
<1>1. CASE TakeStep
  <2>1. PICK pc : pc = IF ReconcileStep = "done" THEN "left" ELSE ReconcileStep
    OBVIOUS
  <2>2. Go(Pc(pc)) /\ Committed > 0
    BY <1>1, <2>1 DEF TakeStep, EntersStage, Do
  <2>3. IsLedger /\ HasBirth
    BY <2>2, BirthIs DEF RecordsInv, LedgerIsSound, IsLedger
  <2>4. Rounds \in Nat /\ Cap \in Nat
    BY <2>3, RoundsAre, CapAssumption DEF RoundsRead
  <2>5. pc = "correct" => Rounds < Cap
    BY <2>1, <2>4, StepsAre DEF RoundsSpent
  <2>6. pc \in {"judge", "write", "left", "cycle", "recheck", "stall", "correct"}
    BY <2>1, StepsAre
  <2>7. Pc(pc).pc = pc /\ "pc" \in DOMAIN Pc(pc)
    BY DEF Pc
  <2>8. PlaceIsSound(Pc(pc), tree) /\ Pc(pc).pc # "count"
    BY <2>3, <2>5, <2>6, <2>7 DEF PlaceIsSound, InRound, Corrects
  <2> QED
    BY <1>0, <2>2, <2>8, GoesOn
<1>2. CASE AdvisoryStep
  <2>1. \/ Go(Pc("left")) \/ StampAndGo(Event("reconcile-skipped", "", ""), Pc("left")) \/ Go(CommandError("gate-command"))
    BY <1>2 DEF AdvisoryStep, Do, DoStamp
  <2>2. Mild(Event("reconcile-skipped", "", ""))
    BY EventIsMild
  <2> QED
    BY <1>0, <2>1, <2>2, IdlePlaces, GoesOn, StampsOn
<1> QED
  BY <1>1, <1>2

(* A judgment starts a round that nothing is committed or counted in.        *)
LEMMA JudgeIsSound ==
  ASSUME RecordsInv, JudgeStep \/ Rejudge
  PROVE  RecordsInv'
<1>1. PICK owed : Judge(owed)
  BY DEF JudgeStep, Rejudge
<1>2. PICK x : x = JudgedStamp(owed)
  OBVIOUS
<1>3. Stamp(x) /\ x.e = "reconciliation-judged" /\ at' = [pc |-> "enter"]
  BY <1>1, <1>2 DEF Judge, StampAndGo, JudgedStamp, Enter, Pc
<1>4. LedgerIsSound' /\ Rounds' = 0 /\ (HasBirth => HasBirth') /\ (Delivered => Delivered')
  BY <1>3, JudgmentCountsAnew DEF RecordsInv
<1>5. /\ tree'.body = {} /\ tree'.window = tree.window /\ DOMAIN tree' = DOMAIN tree
      /\ hist'.commits = 0 /\ hist'.unread = 0 /\ hist'.rounds = 0 /\ hist'.lost = 0 /\ DOMAIN hist' = DOMAIN hist
  BY <1>1 DEF Judge, RecordsInv, Fields
<1>6. PlaceIsSound(at, tree)' /\ at'.pc = "enter"
  BY <1>3 DEF PlaceIsSound, InRound, Corrects
<1> QED
  BY <1>4, <1>5, <1>6, CapAssumption DEF RecordsInv, Fields, CountIsSound

LEMMA WriteIsSound ==
  ASSUME RecordsInv, WriteStep
  PROVE  RecordsInv'
<1>0. PlaceIsSound(at, tree)
  BY DEF RecordsInv
<1>1. CASE DispatchSet
  <2>1. PICK x : x = [e |-> "reconcile-write-set", of |-> "", round |-> Round(at.pc), records |-> WriteSet(at.pc)]
    OBVIOUS
  <2>2. PICK p : /\ StampAndGo(x, p)
                 /\ \/ p = Pc("stall")
                    \/ p = [pc |-> "round", task |-> at.pc, records |-> WriteSet(at.pc)]
    BY <1>1, <2>1 DEF DispatchSet, DoStamp
  <2>3. Mild(x) /\ UNCHANGED <<tree, hist>> /\ at.pc \in {"write", "correct"}
    BY <1>1, <2>1 DEF DispatchSet, DoStamp, Stay, Mild
  <2>4. CASE p = Pc("stall")
    BY <2>2, <2>3, <2>4, IdlePlaces, StampsOn
  <2>5. CASE p = [pc |-> "round", task |-> at.pc, records |-> WriteSet(at.pc)]
    <3>1. PlaceIsSound(p, tree) /\ p.pc # "count"
      BY <1>0, <2>3, <2>5 DEF PlaceIsSound, InRound, Corrects
    <3> QED
      BY <2>2, <2>3, <3>1, StampsOn
  <2> QED
    BY <2>2, <2>4, <2>5
<1>2. CASE WriteRound
  <2>1. at.pc = "round" /\ UNCHANGED <<tree, hist>>
    BY <1>2 DEF WriteRound, Do, Stay
  <2>2. CASE Go([at EXCEPT !.pc = "seat"]) /\ tree.body = {}
    <3>1. PICK p : p = [at EXCEPT !.pc = "seat"]
      OBVIOUS
    <3>2. p.pc = "seat" /\ p.task = at.task /\ "pc" \in DOMAIN p /\ "task" \in DOMAIN p
      BY <1>0, <2>1, <3>1 DEF PlaceIsSound, InRound
    <3>3. PlaceIsSound(p, tree) /\ p.pc # "count"
      BY <1>0, <2>1, <2>2, <3>2 DEF PlaceIsSound, InRound, Corrects
    <3> QED
      BY <2>1, <2>2, <3>1, <3>3, GoesOn
  <2>3. CASE Go([pc |-> "stamp", task |-> at.task, entries |-> AlreadyWritten, rewritten |-> RoundCommits])
    <3>1. PICK p : p = [pc |-> "stamp", task |-> at.task, entries |-> AlreadyWritten, rewritten |-> RoundCommits]
      OBVIOUS
    <3>2. PlaceIsSound(p, tree) /\ p.pc # "count"
      BY <1>0, <2>1, <3>1 DEF PlaceIsSound, InRound, Corrects
    <3> QED
      BY <2>1, <2>3, <3>1, <3>2, GoesOn
  <2> QED
    BY <1>2, <2>2, <2>3 DEF WriteRound, Do, RoundCommits
<1>3. CASE SeatFails
  <2>1. PICK p : p = [pc |-> "stamp", task |-> at.task, entries |-> [r \in at.records |-> "failed"], rewritten |-> {}]
    OBVIOUS
  <2>2. at.pc = "seat" /\ Trouble(1) /\ UNCHANGED tree /\ Go(p)
    BY <1>3, <2>1 DEF SeatFails
  <2>3. PlaceIsSound(p, tree) /\ p.pc # "count"
    BY <1>0, <2>1, <2>2 DEF PlaceIsSound, InRound, Corrects
  <2>4. LedgerKept
    BY <2>2, UnstampedKept DEF RecordsInv, Go
  <2>5. PlaceIsSound(at', tree') /\ at'.pc # "count"
    BY <2>2, <2>3 DEF Go
  <2> QED
    BY <2>2, <2>4, <2>5, TroubleCountsNothing, StepIsSound
<1>4. CASE SeatWrites
  <2>1. PICK out : \E n, names : /\ Trouble(n) /\ UNCHANGED tree
                                 /\ StampAndGo([e |-> "seat-report", of |-> "write", why |-> "", names |-> names],
                                               [pc |-> "commit", task |-> at.task, records |-> at.records, out |-> out])
    BY <1>4 DEF SeatWrites
  <2>2. PICK n, names : /\ Trouble(n) /\ UNCHANGED tree
                        /\ StampAndGo([e |-> "seat-report", of |-> "write", why |-> "", names |-> names],
                                      [pc |-> "commit", task |-> at.task, records |-> at.records, out |-> out])
    BY <2>1
  <2>3. PICK x, p : /\ x = [e |-> "seat-report", of |-> "write", why |-> "", names |-> names]
                    /\ p = [pc |-> "commit", task |-> at.task, records |-> at.records, out |-> out]
    OBVIOUS
  <2>4. Mild(x) /\ at.pc = "seat" /\ StampAndGo(x, p)
    BY <1>4, <2>2, <2>3 DEF SeatWrites, Mild
  <2>5. PlaceIsSound(p, tree) /\ p.pc # "count"
    BY <1>0, <2>3, <2>4 DEF PlaceIsSound, InRound, Corrects
  <2> QED
    BY <2>2, <2>4, <2>5, TroubleCountsNothing, StampsBeside
<1>5. CASE Commit
  <2> DEFINE changed == {r \in Records : at.out[r] \in {"rewritten", "closed", "silent"}}
             wrote == {r \in at.records : at.out[r] \in Answers}
  <2>1. /\ at.pc = "commit"
        /\ hist' = [hist EXCEPT !.commits = IF changed = {} THEN @ ELSE @ + 1]
        /\ \E text, shut, window, body : tree' = [tree EXCEPT !.text = text, !.closed = shut, !.window = window, !.body = body]
        /\ \E rewritten, entries : Go([pc |-> "stamp", task |-> at.task, rewritten |-> rewritten, entries |-> entries])
    BY <1>5 DEF Commit
  <2> HIDE DEF changed, wrote
  <2>3. HasBirth /\ (at.task = "correct" => Rounds < Cap)
    BY <1>0, <2>1 DEF PlaceIsSound, InRound, Corrects
  <2>4. /\ DOMAIN tree' = DOMAIN tree /\ DOMAIN hist' = DOMAIN hist
        /\ hist'.commits \in Nat /\ hist'.unread = hist.unread
        /\ hist'.rounds = hist.rounds /\ hist'.lost = hist.lost
    BY <2>1 DEF RecordsInv, Fields
  <2>5. PICK rewritten, entries : Go([pc |-> "stamp", task |-> at.task, rewritten |-> rewritten, entries |-> entries])
    BY <2>1
  <2>6. at'.pc = "stamp" /\ at'.task = at.task /\ "pc" \in DOMAIN at' /\ "task" \in DOMAIN at' /\ UNCHANGED led
    BY <2>5 DEF Go
  <2>7. LedgerKept
    BY <2>6, UnstampedKept DEF RecordsInv
  <2>8. PlaceIsSound(at, tree)'
    BY <2>3, <2>6, <2>7 DEF PlaceIsSound, InRound, Corrects, LedgerKept
  <2> QED
    BY <2>1, <2>3, <2>4, <2>6, <2>7, <2>8 DEF RecordsInv, LedgerKept, Fields, CountIsSound
<1>6. CASE StampWrite
  <2>1. /\ at.pc = "stamp" /\ UNCHANGED <<tree, hist>>
        /\ \/ Go([at EXCEPT !.pc = "written"])
           \/ \E r, why : StampAndGo([e |-> "record-written", of |-> r, why |-> why], at)
    BY <1>6 DEF StampWrite, Do, DoStamp, Stay
  <2>2. CASE Go([at EXCEPT !.pc = "written"])
    <3>1. PICK p : p = [at EXCEPT !.pc = "written"]
      OBVIOUS
    <3>2. p.pc = "written" /\ p.task = at.task /\ "pc" \in DOMAIN p /\ "task" \in DOMAIN p
      BY <1>0, <2>1, <3>1 DEF PlaceIsSound, InRound
    <3>3. PlaceIsSound(p, tree) /\ p.pc # "count"
      BY <1>0, <2>1, <3>2 DEF PlaceIsSound, InRound, Corrects
    <3> QED
      BY <2>1, <2>2, <3>1, <3>3, GoesOn
  <2>3. CASE \E r, why : StampAndGo([e |-> "record-written", of |-> r, why |-> why], at)
    <3>1. PICK r, why : StampAndGo([e |-> "record-written", of |-> r, why |-> why], at)
      BY <2>3
    <3>2. PICK x : x = [e |-> "record-written", of |-> r, why |-> why]
      OBVIOUS
    <3>3. Mild(x) /\ StampAndGo(x, at)
      BY <3>1, <3>2 DEF Mild
    <3> QED
      BY <1>0, <2>1, <3>3, StampsOn
  <2> QED
    BY <2>1, <2>2, <2>3
<1>7. CASE StampWritten
  <2>1. PICK x : x = [e |-> "reconciliation-written", of |-> "", ok |-> TRUE, entries |-> at.entries, rewritten |-> at.rewritten]
    OBVIOUS
  <2>2. /\ at.pc = "written" /\ UNCHANGED tree
        /\ hist' = [hist EXCEPT !.rounds = IF at.task = "correct" THEN @ + 1 ELSE @]
        /\ \E p : /\ StampAndGo(x, p)
                  /\ \/ at.task = "correct" /\ p = [pc |-> "count", round |-> Rounds + 1]
                     \/ at.task # "correct" /\ p \in {Pc("fallback"), Pc("enter")}
    BY <1>7, <2>1 DEF StampWritten, Enter, Round
  <2>3. Mild(x)
    BY <2>1 DEF Mild
  <2>4. PICK p : /\ StampAndGo(x, p)
                 /\ \/ at.task = "correct" /\ p = [pc |-> "count", round |-> Rounds + 1]
                    \/ at.task # "correct" /\ p \in {Pc("fallback"), Pc("enter")}
    BY <2>2
  <2>5. LedgerKept
    BY <2>3, <2>4, StampKept DEF RecordsInv, StampAndGo
  <2>6. CASE at.task = "correct"
    <3>1. Rounds < Cap /\ Rounds \in Nat
      <4>1. Rounds < Cap
        BY <1>0, <2>2, <2>6 DEF PlaceIsSound, InRound, Corrects
      <4>2. Rounds \in Nat
        BY RoundsAre DEF RecordsInv, LedgerIsSound, IsLedger, RoundsRead
      <4> QED
        BY <4>1, <4>2
    <3>2. at' = [pc |-> "count", round |-> Rounds + 1]
      BY <2>4, <2>6 DEF StampAndGo
    <3>3. /\ DOMAIN hist' = DOMAIN hist /\ hist'.rounds = hist.rounds + 1
          /\ hist'.commits = hist.commits /\ hist'.unread = hist.unread /\ hist'.lost = hist.lost
      BY <2>2, <2>6 DEF RecordsInv, Fields
    <3>4. hist.rounds <= Rounds + hist.lost
      BY <2>2 DEF RecordsInv, CountIsSound
    <3>5. PlaceIsSound(at, tree)'
      BY <3>2 DEF PlaceIsSound, InRound, Corrects
    <3>6. CountIsSound'
      BY <2>5, <3>1, <3>2, <3>3, <3>4 DEF CountIsSound, LedgerKept, RecordsInv, Fields
    <3> QED
      BY <2>2, <2>5, <3>3, <3>5, <3>6 DEF RecordsInv, LedgerKept, Fields
  <2>7. CASE at.task # "correct"
    <3>1. Idle(p)
      BY <2>4, <2>7, IdlePlaces
    <3>2. hist' = [hist EXCEPT !.rounds = @]
      BY <2>2, <2>7
    <3>3. DOMAIN hist' = DOMAIN hist /\ hist'.commits = hist.commits /\ hist'.unread = hist.unread /\ hist'.rounds = hist.rounds /\ hist'.lost = hist.lost
      BY <3>2 DEF RecordsInv, Fields
    <3>4. PlaceIsSound(p, tree') /\ p.pc # "count"
      BY <3>1, IdlePlaces
    <3> QED
      BY <2>2, <2>3, <2>4, <3>3, <3>4, StampsBeside
  <2> QED
    BY <2>6, <2>7
<1>8. CASE StampRound
  <2>1. PICK x : x = [e |-> "reconcile-round", of |-> "", nth |-> at.round]
    OBVIOUS
  <2>2. at.pc = "count" /\ Stamp(x) /\ at' = [pc |-> "enter"] /\ UNCHANGED <<tree, hist>>
    BY <1>8, <2>1 DEF StampRound, DoStamp, StampAndGo, Stay, Enter, Pc
  <2>3. at.round = Rounds + 1 /\ Rounds < Cap /\ hist.rounds <= Rounds + 1 + hist.lost
    BY <2>2 DEF RecordsInv, CountIsSound
  <2>4. x.e = "reconcile-round" /\ "nth" \in DOMAIN x /\ x.nth = Rounds + 1
    BY <2>1, <2>3
  <2>5. LedgerIsSound' /\ Rounds' = Rounds + 1 /\ (HasBirth => HasBirth') /\ (Delivered => Delivered')
    BY <2>2, <2>4, RoundIsCounted DEF RecordsInv
  <2>6. Rounds \in Nat /\ Cap \in Nat
    BY RoundsAre, CapAssumption DEF RecordsInv, LedgerIsSound, IsLedger, RoundsRead
  <2>7. PlaceIsSound(at, tree)' /\ at'.pc = "enter"
    BY <2>2 DEF PlaceIsSound, InRound, Corrects
  <2>8. Rounds' <= Cap
    BY <2>3, <2>5, <2>6
  <2> QED
    BY <2>2, <2>3, <2>5, <2>7, <2>8 DEF RecordsInv, Fields, CountIsSound
<1> QED
  BY <1>1, <1>2, <1>3, <1>4, <1>5, <1>6, <1>7, <1>8 DEF WriteStep

LEMMA CycleIsSound ==
  ASSUME RecordsInv, CycleStep
  PROVE  RecordsInv'
<1>1. CASE RunRecordLayers
  <2>1. at.pc = "cycle" /\ UNCHANGED tree
    BY <1>1 DEF RunRecordLayers, Do, Stay
  <2>2. CASE UNCHANGED hist /\ (Go(Pc("review-set")) \/ Go(CommandError("gate-command")))
    BY <2>1, <2>2, IdlePlaces, GoesOn
  <2>3. CASE \E n, reds : /\ Trouble(n)
                          /\ StampAndGo([e |-> "layer-result", of |-> "", cycle |-> NextCycle, reds |-> reds], Pc("review-set"))
    <3>1. PICK n, reds : /\ Trouble(n)
                         /\ StampAndGo([e |-> "layer-result", of |-> "", cycle |-> NextCycle, reds |-> reds], Pc("review-set"))
      BY <2>3
    <3>2. PICK x : x = [e |-> "layer-result", of |-> "", cycle |-> NextCycle, reds |-> reds]
      OBVIOUS
    <3>3. Mild(x) /\ StampAndGo(x, Pc("review-set"))
      BY <3>1, <3>2 DEF Mild
    <3>4. PlaceIsSound(Pc("review-set"), tree') /\ Pc("review-set").pc # "count"
      BY IdlePlaces
    <3> QED
      BY <2>1, <3>1, <3>3, <3>4, TroubleCountsNothing, StampsBeside
  <2> QED
    BY <1>1, <2>2, <2>3 DEF RunRecordLayers, Do, Stay
<1>2. CASE ReviewSet
  <2>1. /\ at.pc = "review-set" /\ UNCHANGED <<tree, hist>>
        /\ \/ Go(Pc("review"))
           \/ \E cycle, records, kept : StampAndGo([e |-> "reconcile-review-set", of |-> "", cycle |-> cycle, records |-> records, kept |-> kept],
                                                   Pc("review"))
    BY <1>2 DEF ReviewSet, Do, DoStamp, Stay
  <2>2. CASE Go(Pc("review"))
    BY <2>1, <2>2, IdlePlaces, GoesOn
  <2>3. CASE \E x : Mild(x) /\ StampAndGo(x, Pc("review"))
    BY <2>1, <2>3, IdlePlaces, StampsOn
  <2>4. \A cycle, records, kept : Mild([e |-> "reconcile-review-set", of |-> "", cycle |-> cycle, records |-> records, kept |-> kept])
    BY DEF Mild
  <2> QED
    BY <2>1, <2>2, <2>3, <2>4
<1>3. CASE RecordReview
  <2>1. at.pc = "review" /\ UNCHANGED tree
    BY <1>3 DEF RecordReview, Do, Stay
  <2>2. \A raised, read : Idle(ToRender(raised, read))
    BY DEF Idle, InRound, ToRender
  <2>3. \/ UNCHANGED hist /\ \E raised, read : Go(ToRender(raised, read))
        \/ \E n, raised : /\ Trouble(n)
                          /\ StampAndGo([e |-> "seat-report", of |-> "review", why |-> "", raised |-> raised], at)
        \/ Trouble(1) /\ StampAndGo([e |-> "record-unreviewed", of |-> "", cycle |-> NextCycle], at)
    <3>1. PICK list : list = led[ReviewSetStamp].records
      OBVIOUS
    <3> QED
      BY <1>3, <3>1 DEF RecordReview, Do, Stay
  <2>4. CASE UNCHANGED hist /\ \E raised, read : Go(ToRender(raised, read))
    BY <2>1, <2>2, <2>4, IdlePlaces, GoesOn
  <2>5. \A raised : Mild([e |-> "seat-report", of |-> "review", why |-> "", raised |-> raised])
    BY DEF Mild
  <2>6. \A cycle : Mild([e |-> "record-unreviewed", of |-> "", cycle |-> cycle])
    BY DEF Mild
  <2>7. CASE \E n, x : Trouble(n) /\ Mild(x) /\ StampAndGo(x, at)
    <3>1. PlaceIsSound(at, tree')
      BY <2>1 DEF RecordsInv
    <3> QED
      BY <2>1, <2>7, <3>1, TroubleCountsNothing, StampsBeside
  <2> QED
    BY <2>3, <2>4, <2>5, <2>6, <2>7
<1>4. CASE Render
  <2>1. /\ at.pc = "render" /\ tree' = [tree EXCEPT !.body = {}]
        /\ \E clean : hist' = [hist EXCEPT !.commits = 0, !.unread = 0, !.clean = clean]
        /\ \E nth, open, records, kept, unreviewed :
              StampAndGo([e |-> "reconcile-rendered", of |-> "", nth |-> nth, open |-> open, records |-> records, kept |-> kept,
                          unreviewed |-> unreviewed, text |-> tree.text], Pc("enter"))
    BY <1>4 DEF Render, Enter
  <2>2. \A nth, open, records, kept, unreviewed :
           Mild([e |-> "reconcile-rendered", of |-> "", nth |-> nth, open |-> open, records |-> records, kept |-> kept,
                 unreviewed |-> unreviewed, text |-> tree.text])
    BY DEF Mild
  <2>3. PICK x : Mild(x) /\ StampAndGo(x, Pc("enter"))
    BY <2>1, <2>2
  <2>4. LedgerKept /\ at' = [pc |-> "enter"]
    BY <2>3, StampKept DEF RecordsInv, StampAndGo, Pc
  <2>5. /\ tree'.body = {} /\ tree'.window = tree.window /\ DOMAIN tree' = DOMAIN tree
        /\ hist'.commits = 0 /\ hist'.unread = 0 /\ hist'.rounds = hist.rounds /\ hist'.lost = hist.lost /\ DOMAIN hist' = DOMAIN hist
    BY <2>1 DEF RecordsInv, Fields
  <2>6. PlaceIsSound(at, tree)' /\ at'.pc = "enter"
    BY <2>4 DEF PlaceIsSound, InRound, Corrects
  <2>7. at.pc # "count"
    BY <2>1
  <2>8. CountIsSound'
    BY <2>4, <2>5, <2>6, <2>7 DEF RecordsInv, LedgerKept, CountIsSound
  <2>9. Fields'
    BY <2>5 DEF RecordsInv, Fields
  <2>10. tree'.window # {} => HasBirth' \/ Delivered'
    BY <2>4, <2>5 DEF RecordsInv, LedgerKept
  <2> QED
    BY <2>4, <2>5, <2>6, <2>8, <2>9, <2>10 DEF RecordsInv, LedgerKept
<1> QED
  BY <1>1, <1>2, <1>3, <1>4 DEF CycleStep

LEMMA EndingsAreSound ==
  ASSUME RecordsInv, RecheckStep \/ StallStep \/ FallbackStep
  PROVE  RecordsInv'
<1>1. CASE RecheckStep
  <2>1. at.pc = "recheck" /\ UNCHANGED <<tree, hist>>
        /\ \/ StampAndGo(Event("reconcile-recheck", "kept", ""), Pc("enter"))
           \/ \E owed : StampAndGo(Event("reconcile-recheck", "owed", ""), [pc |-> "rejudge", owed |-> owed])
    BY <1>1 DEF RecheckStep, DoStamp, Stay, Enter
  <2>2. Mild(Event("reconcile-recheck", "kept", "")) /\ Mild(Event("reconcile-recheck", "owed", ""))
    BY EventIsMild
  <2>3. \A owed : Idle([pc |-> "rejudge", owed |-> owed])
    BY DEF Idle, InRound
  <2> QED
    BY <2>1, <2>2, <2>3, IdlePlaces, StampsOn
<1>2. CASE StallStep
  <2>1. at.pc = "stall" /\ UNCHANGED <<tree, hist>> /\ StampAndGo(Event("reconcile-stall", "", ""), Pc("fallback"))
    BY <1>2 DEF StallStep, DoStamp, Stay
  <2>2. Mild(Event("reconcile-stall", "", ""))
    BY EventIsMild
  <2> QED
    BY <2>1, <2>2, IdlePlaces, StampsOn
<1>3. CASE FallbackStep
  <2>1. PICK x : x = [e |-> "reconciliation-written", of |-> "", ok |-> FALSE, entries |-> <<>>, rewritten |-> {}]
    OBVIOUS
  <2>2. at.pc = "fallback" /\ UNCHANGED <<tree, hist>> /\ StampAndGo(x, Pc("left")) /\ Mild(x)
    BY <1>3, <2>1 DEF FallbackStep, DoStamp, Stay, Mild
  <2> QED
    BY <2>2, IdlePlaces, StampsOn
<1> QED
  BY <1>1, <1>2, <1>3

LEMMA ReturnsAreSound ==
  ASSUME RecordsInv, UpdateReruns \/ RepairReturns
  PROVE  RecordsInv'
<1>1. PICK x : Returns(x) /\ Mild(x)
  <2>1. Mild(Event("pre-verdict-update", "rerun", "")) /\ Mild(Event("repair-round", "", ""))
    BY EventIsMild
  <2> QED
    BY <2>1 DEF UpdateReruns, RepairReturns
<1>2. /\ at.pc = "left" /\ StampAndGo(x, Pc("enter"))
      /\ hist' = [hist EXCEPT !.returns = @ + 1]
      /\ \E text : tree' = [tree EXCEPT !.text = text]
  BY <1>1 DEF Returns, MovesTexts, Enter
<1>3. /\ DOMAIN hist' = DOMAIN hist /\ hist'.commits = hist.commits /\ hist'.unread = hist.unread /\ hist'.rounds = hist.rounds /\ hist'.lost = hist.lost
      /\ DOMAIN tree' = DOMAIN tree /\ tree'.window = tree.window /\ tree'.body = tree.body
  BY <1>2 DEF RecordsInv, Fields
<1>4. PlaceIsSound(Pc("enter"), tree') /\ Pc("enter").pc # "count"
  BY IdlePlaces
<1> QED
  BY <1>1, <1>2, <1>3, <1>4, StampsBeside

(* A stop loses the place and no stamp; between the write's stamp and the    *)
(* round's it loses the count of a round.                                    *)
LEMMA RestsAreSound ==
  ASSUME RecordsInv, ((Park \/ AbandonGuard \/ Answer) /\ Stay) \/ Stops
  PROVE  RecordsInv'
<1>1. CASE Park /\ Stay
  <2>1. at.pc = "ask" /\ StampAndGo(Event("park", at.type, at.why), Pc("parked")) /\ UNCHANGED <<tree, hist>>
    BY <1>1 DEF Park, Stay
  <2>2. Mild(Event("park", at.type, at.why))
    BY EventIsMild
  <2> QED
    BY <2>1, <2>2, IdlePlaces, StampsOn
<1>2. CASE AbandonGuard /\ Stay
  BY <1>2, IdlePlaces, GoesOn DEF AbandonGuard, Stay
<1>3. CASE Answer /\ Stay
  <2>1. PICK of, option : Stamp(Event("answer", of, option))
    BY <1>3 DEF Answer
  <2>2. at.pc = "parked" /\ at' = [pc |-> "enter"] /\ UNCHANGED <<tree, hist>>
    BY <1>3 DEF Answer, Stay, Pc
  <2>3. Mild(Event("answer", of, option))
    BY EventIsMild
  <2>4. LedgerKept
    BY <2>1, <2>3, StampKept DEF RecordsInv
  <2>5. PlaceIsSound(at', tree') /\ at'.pc # "count"
    BY <2>2 DEF PlaceIsSound, InRound, Corrects
  <2> QED
    BY <2>2, <2>4, <2>5, StepIsSound
<1>4. CASE Stops
  <2>1. /\ at' = [pc |-> "enter"] /\ UNCHANGED <<led, tree>>
        /\ \E left \in {hist.unread, hist.commits} : hist' = [hist EXCEPT !.lost = IF at.pc = "count" THEN @ + 1 ELSE @, !.unread = left]
    BY <1>4 DEF Stops, Crash, Pc
  <2>2. LedgerKept
    BY <2>1, UnstampedKept DEF RecordsInv
  <2>3. /\ DOMAIN hist' = DOMAIN hist /\ hist'.commits = hist.commits /\ hist'.unread \in Nat /\ hist'.rounds = hist.rounds
        /\ hist'.lost = IF at.pc = "count" THEN hist.lost + 1 ELSE hist.lost
    BY <2>1 DEF RecordsInv, Fields
  <2>4. PlaceIsSound(at, tree)' /\ at'.pc = "enter"
    BY <2>1 DEF PlaceIsSound, InRound, Corrects
  <2>5. Rounds \in Nat
    BY RoundsAre DEF RecordsInv, LedgerIsSound, IsLedger, RoundsRead
  <2>6. CountIsSound'
    BY <2>2, <2>3, <2>4, <2>5 DEF CountIsSound, LedgerKept, RecordsInv, Fields
  <2> QED
    BY <2>1, <2>2, <2>3, <2>4, <2>6 DEF RecordsInv, LedgerKept, Fields
<1> QED
  BY <1>1, <1>2, <1>3, <1>4

---------------------------------------------------------------------------
(* The invariant, and what it says of every run.                             *)

LEMMA RecordsInvStarts ==
  ReconcileInit => RecordsInv
<1> SUFFICES ASSUME ReconcileInit PROVE RecordsInv
  OBVIOUS
<1>1. PICK kind, used : ReconcileStart(kind, used, <<>>)
  BY DEF ReconcileInit
<1>2. led = <<>> /\ at = [pc |-> "enter"]
  BY <1>1 DEF ReconcileStart, Pc
<1>3. led \in Seq(Range(led)) /\ DOMAIN led = {}
  BY <1>2
<1>4. RoundSeqs = {} /\ ~HasBirth /\ SeqsOf("records-committed") = {}
  BY <1>3 DEF RoundSeqs, HasBirth, SeqsOf
<1>5. LedgerIsSound
  BY <1>3, <1>4 DEF LedgerIsSound
<1>6. Rounds = 0
  BY <1>4, <1>5, RoundsAre, FS_EmptySet DEF LedgerIsSound, IsLedger, RoundsRead
<1>7. Born = {}
  <2>1. ~(Committed > 0) /\ Committed = 0
    <3>1. Committed = 0
      BY <1>4, NewestIs, <1>3 DEF Committed
    <3> QED
      BY <3>1
  <2> QED
    BY <2>1 DEF Born
<1>8. Fields /\ tree.window = {} /\ tree.body = {} /\ hist.commits = 0 /\ hist.unread = 0 /\ hist.rounds = 0 /\ hist.lost = 0
  BY <1>1, <1>7 DEF ReconcileStart, TreeAtLaunch, Fields
<1>9. PlaceIsSound(at, tree) /\ CountIsSound
  BY <1>2, <1>6, <1>8 DEF PlaceIsSound, InRound, Corrects, CountIsSound
<1> QED
  BY <1>5, <1>6, <1>8, <1>9, CapAssumption DEF RecordsInv

LEMMA RecordsInvHolds ==
  RecordsInv /\ [ReconcileNext]_stageVars => RecordsInv'
<1> SUFFICES ASSUME RecordsInv, [ReconcileNext]_stageVars PROVE RecordsInv'
  OBVIOUS
<1>1. CASE UNCHANGED stageVars
  <2>1. UNCHANGED <<led, at, tree, hist>>
    BY <1>1 DEF stageVars, ledgerVars
  <2>2. LedgerKept
    BY <2>1, UnstampedKept DEF RecordsInv
  <2>3. PlaceIsSound(at, tree)'
    BY <2>1, <2>2 DEF RecordsInv, PlaceIsSound, LedgerKept, Corrects
  <2> QED
    BY <2>1, <2>2, <2>3 DEF RecordsInv, LedgerKept, Fields, CountIsSound
<1>2. CASE ReconcileNext
  BY <1>2, BirthIsSound, TakeIsSound, JudgeIsSound, WriteIsSound, CycleIsSound, EndingsAreSound, ReturnsAreSound, RestsAreSound
     DEF ReconcileNext, Handler, StageStep
<1> QED
  BY <1>1, <1>2

LEMMA RecordsAreSound == ReconcileSpec => []RecordsInv
BY RecordsInvStarts, RecordsInvHolds, PTL DEF ReconcileSpec

(* The author seat is dispatched over the branch as the stage found it, and  *)
(* never over a committed birth or what a dead seat left                     *)
(* (records-stage.mjs, birthRecords and its resumption).                     *)
THEOREM TheAuthorStartsClean == ReconcileSpec => []AuthorStartsClean
BY RecordsAreSound, RecordsInvImplies, PTL

(* No two events of one key stand on a ledger.                               *)
Keyed == \A i, j \in DOMAIN led : Key(led[i]) = Key(led[j]) => i = j

LEMMA KeyedStays ==
  ASSUME IsLedger, Keyed, NEW x, Stamp(x)
  PROVE  Keyed'
<1>1. PICK sh : Shifted(led, led', x, sh)
  BY StampShifts DEF IsLedger
<1>2. \A k \in DOMAIN sh : Key(led[k]) # Key(x)
  BY <1>1 DEF Shifted, Keyed, Same
<1>3. /\ led'[Len(led')] = x
      /\ \A j \in DOMAIN led' : j = Len(led') \/ \E k \in DOMAIN sh : sh[k] = j
      /\ \A k \in DOMAIN sh : k \in DOMAIN led /\ led'[sh[k]] = led[k]
  BY <1>1, ShiftIs
<1> HIDE DEF Key
<1>4. ASSUME NEW i \in DOMAIN led', NEW j \in DOMAIN led', Key(led'[i]) = Key(led'[j]) PROVE i = j
  <2>1. CASE i = Len(led') \/ j = Len(led')
    BY <1>2, <1>3, <1>4, <2>1
  <2>2. CASE i # Len(led') /\ j # Len(led')
    <3>1. PICK a \in DOMAIN sh, b \in DOMAIN sh : sh[a] = i /\ sh[b] = j
      BY <1>3, <2>2
    <3> QED
      BY <1>3, <1>4, <3>1 DEF Keyed
  <2> QED
    BY <2>1, <2>2
<1> QED
  BY <1>4 DEF Keyed

---------------------------------------------------------------------------
(* What the stages read of their ledger.                                     *)
NewestStamp(r) == Newest(Seqs("record-written", r))
SetStamp == Newest(SeqsOf("reconcile-write-set"))
View ==
  [judged |-> Judged > 0, owed |-> IF Judged > 0 THEN Owed ELSE {}, owes |-> Written < Judged,
   ok |-> CycleAnchor.ok, unwritten |-> UnwrittenRecords,
   rendered |-> LastRendered > 0, open |-> Open, stale |-> LastRendered < Written,
   answers |-> LastRendered > Judged, rerun |-> RerunAsked > LastRendered,
   round |-> IF SetStamp > 0 THEN led[SetStamp].round ELSE 0,
   set |-> IF SetStamp > 0 THEN led[SetStamp].records ELSE {},
   setJudged |-> SetStamp > Judged, setRendered |-> SetStamp > LastRendered,
   sinceJudged |-> {r \in Records : NewestStamp(r) > Judged},
   sinceRendered |-> {r \in Records : NewestStamp(r) > LastRendered},
   why |-> [r \in Records |-> IF NewestStamp(r) > 0 THEN led[NewestStamp(r)].why ELSE ""]]

(* The shape of the events, whose numbers are of the n renders so far.       *)
Unnumbered == {"record-written", "reconcile-write-set", "reconcile-review-set", "layer-result"}
Shape(x, n) ==
  /\ x.e \in Unnumbered => "nth" \notin DOMAIN x
  /\ x.e \in Unnumbered \ {"record-written"} => x.of = ""
  /\ x.e = "reconcile-rendered" => "nth" \in DOMAIN x /\ x.nth \in Nat /\ x.nth <= n /\ x.records \subseteq Records
  /\ x.e = "reconcile-review-set" => x.cycle \in Nat /\ x.cycle <= n + 1 /\ x.records \subseteq Records /\ x.kept \subseteq Records
  /\ x.e = "layer-result" => x.cycle \in Nat /\ x.cycle <= n + 1
  /\ x.e = "records-committed" => x.paths \subseteq Records
  /\ x.e = "reconciliation-judged" => x.owed \subseteq Records
  /\ x.e = "reconcile-write-set" => x.records \subseteq Records
  /\ x.e = "reconciliation-written" => x.rewritten \subseteq Records /\ DOMAIN x.entries \subseteq Records
Shapes == \A i \in DOMAIN led : Shape(led[i], Cardinality(Renders))

UnwrittenIn(entries) == {r \in DOMAIN entries : entries[r] # "written"}

(* How a stamp changes what is read, by its kind.                            *)
JudgedReading(x, v, w) ==
  IF x.e = "reconciliation-judged"
  THEN w.judged /\ w.owed = x.owed /\ w.owes /\ ~w.answers /\ ~w.setJudged /\ w.sinceJudged = {}
  ELSE (w.judged <=> v.judged) /\ w.owed = v.owed
WrittenReading(x, v, w) ==
  IF x.e = "reconciliation-written"
  THEN ~w.owes /\ (w.ok <=> x.ok) /\ w.unwritten = UnwrittenIn(x.entries) /\ w.stale
  ELSE /\ w.unwritten = v.unwritten
       /\ x.e # "records-committed" => (w.ok <=> v.ok)
       /\ x.e # "reconciliation-judged" => (w.owes <=> v.owes)
RenderedReading(x, v, w) ==
  IF x.e = "reconcile-rendered"
  THEN w.rendered /\ w.open = x.open /\ ~w.stale /\ w.answers /\ ~w.rerun /\ ~w.setRendered /\ w.sinceRendered = {}
  ELSE /\ (w.rendered <=> v.rendered) /\ w.open = v.open
       /\ x.e # "reconciliation-written" => (w.stale <=> v.stale)
       /\ x.e # "reconciliation-judged" => (w.answers <=> v.answers)
       /\ x.e # "pre-verdict-update" => (w.rerun <=> v.rerun)
RerunReading(x, w) == x.e = "pre-verdict-update" /\ x.of = "rerun" => w.rerun
SetReading(x, v, w) ==
  IF x.e = "reconcile-write-set"
  THEN w.round = x.round /\ w.set = x.records /\ w.setJudged /\ w.setRendered
  ELSE /\ w.round = v.round /\ w.set = v.set
       /\ x.e # "reconciliation-judged" => (w.setJudged <=> v.setJudged)
       /\ x.e # "reconcile-rendered" => (w.setRendered <=> v.setRendered)
StampReading(x, v, w) ==
  IF x.e = "record-written"
  THEN /\ x.of \in Records => /\ w.sinceJudged = v.sinceJudged \cup {x.of}
                              /\ w.sinceRendered = v.sinceRendered \cup {x.of}
                              /\ \A r \in Records : w.why[r] = IF r = x.of THEN x.why ELSE v.why[r]
  ELSE /\ w.why = v.why
       /\ x.e # "reconciliation-judged" => w.sinceJudged = v.sinceJudged
       /\ x.e # "reconcile-rendered" => w.sinceRendered = v.sinceRendered

LEMMA Readings ==
  ASSUME IsLedger, Shapes, NEW x, Stamp(x), Shape(x, 0) \/ x.e # "record-written"
  PROVE  \E m : /\ Carried(led, led', x, m)
                /\ IF x.e = "reconciliation-judged" THEN Judged' = Len(led') ELSE Judged \in DOMAIN m /\ Judged' = m[Judged]
                /\ IF x.e = "reconciliation-written" THEN Written' = Len(led') ELSE Written \in DOMAIN m /\ Written' = m[Written]
                /\ IF x.e = "reconcile-rendered" THEN LastRendered' = Len(led')
                   ELSE LastRendered \in DOMAIN m /\ LastRendered' = m[LastRendered]
                /\ IF x.e = "reconcile-write-set" THEN SetStamp' = Len(led') ELSE SetStamp \in DOMAIN m /\ SetStamp' = m[SetStamp]
                /\ IF x.e = "records-committed" THEN Committed' = Len(led') ELSE Committed \in DOMAIN m /\ Committed' = m[Committed]
                /\ x.e # "pre-verdict-update" => RerunAsked \in DOMAIN m /\ RerunAsked' = m[RerunAsked]
                /\ x.e = "pre-verdict-update" /\ x.of = "rerun" => RerunAsked' = Len(led')
                /\ \A r : IF x.e = "record-written" /\ r = x.of THEN NewestStamp(r)' = Len(led')
                          ELSE NewestStamp(r) \in DOMAIN m /\ NewestStamp(r)' = m[NewestStamp(r)]
<1>1. PICK m : /\ Carried(led, led', x, m)
               /\ \A e : e # x.e => Newest(SeqsOf(e)) \in DOMAIN m /\ Newest(SeqsOf(e))' = m[Newest(SeqsOf(e))]
               /\ \A e, of : e # x.e => Newest(Seqs(e, of)) \in DOMAIN m /\ Newest(Seqs(e, of))' = m[Newest(Seqs(e, of))]
               /\ "nth" \notin DOMAIN x /\ (\A k \in DOMAIN led : led[k].e = x.e => "nth" \notin DOMAIN led[k])
                    => \A of : of # x.of => /\ Newest(Seqs(x.e, of)) \in DOMAIN m
                                            /\ Newest(Seqs(x.e, of))' = m[Newest(Seqs(x.e, of))]
               /\ Newest(SeqsOf(x.e))' = Len(led') /\ Newest(Seqs(x.e, x.of))' = Len(led')
  BY StampCarries
<1> USE DEF Judged, Written, LastRendered, Renders, SetStamp, Committed, RerunAsked, NewestStamp
<1>2. IF x.e = "reconciliation-judged" THEN Judged' = Len(led') ELSE Judged \in DOMAIN m /\ Judged' = m[Judged]
  BY <1>1
<1>3. IF x.e = "reconciliation-written" THEN Written' = Len(led') ELSE Written \in DOMAIN m /\ Written' = m[Written]
  BY <1>1
<1>4. IF x.e = "reconcile-rendered" THEN LastRendered' = Len(led') ELSE LastRendered \in DOMAIN m /\ LastRendered' = m[LastRendered]
  BY <1>1
<1>5. IF x.e = "reconcile-write-set" THEN SetStamp' = Len(led') ELSE SetStamp \in DOMAIN m /\ SetStamp' = m[SetStamp]
  BY <1>1
<1>6. IF x.e = "records-committed" THEN Committed' = Len(led') ELSE Committed \in DOMAIN m /\ Committed' = m[Committed]
  BY <1>1
<1>7. /\ x.e # "pre-verdict-update" => RerunAsked \in DOMAIN m /\ RerunAsked' = m[RerunAsked]
      /\ x.e = "pre-verdict-update" /\ x.of = "rerun" => RerunAsked' = Len(led')
  BY <1>1
<1>8. ASSUME NEW r
      PROVE  IF x.e = "record-written" /\ r = x.of THEN NewestStamp(r)' = Len(led')
             ELSE NewestStamp(r) \in DOMAIN m /\ NewestStamp(r)' = m[NewestStamp(r)]
  <2>1. CASE x.e # "record-written"
    BY <1>1, <2>1
  <2>2. CASE x.e = "record-written" /\ r = x.of
    BY <1>1, <2>2
  <2>3. CASE x.e = "record-written" /\ r # x.of
    <3>1. "nth" \notin DOMAIN x /\ \A k \in DOMAIN led : led[k].e = x.e => "nth" \notin DOMAIN led[k]
      BY <2>3 DEF Shapes, Shape, Unnumbered
    <3>2. \A of : of # x.of => Newest(Seqs(x.e, of)) \in DOMAIN m /\ Newest(Seqs(x.e, of))' = m[Newest(Seqs(x.e, of))]
      BY <1>1, <3>1
    <3>3. Newest(Seqs(x.e, r)) \in DOMAIN m /\ Newest(Seqs(x.e, r))' = m[Newest(Seqs(x.e, r))]
      BY <2>3, <3>2
    <3> QED
      BY <2>3, <3>3
  <2> QED
    BY <2>1, <2>2, <2>3
<1> HIDE DEF Judged, Written, LastRendered, SetStamp, Committed, RerunAsked, NewestStamp
<1> QED
  BY <1>1, <1>2, <1>3, <1>4, <1>5, <1>6, <1>7, <1>8

ViewSays ==
  /\ View.judged <=> Judged > 0
  /\ View.owed = IF Judged > 0 THEN led[Judged].owed ELSE {}
  /\ View.owes <=> Written < Judged
  /\ View.ok <=> IF Written = 0 THEN (IF Committed = 0 THEN {} ELSE led[Committed].paths) # {} ELSE led[Written].ok
  /\ View.unwritten = IF Written = 0 THEN {} ELSE UnwrittenIn(led[Written].entries)
  /\ View.rendered <=> LastRendered > 0
  /\ View.open = IF LastRendered = 0 THEN {} ELSE led[LastRendered].open
  /\ View.stale <=> LastRendered < Written
  /\ View.answers <=> LastRendered > Judged
  /\ View.rerun <=> RerunAsked > LastRendered
  /\ View.round = IF SetStamp > 0 THEN led[SetStamp].round ELSE 0
  /\ View.set = IF SetStamp > 0 THEN led[SetStamp].records ELSE {}
  /\ View.setJudged <=> SetStamp > Judged
  /\ View.setRendered <=> SetStamp > LastRendered
  /\ View.sinceJudged = {r \in Records : NewestStamp(r) > Judged}
  /\ View.sinceRendered = {r \in Records : NewestStamp(r) > LastRendered}
  /\ View.why = [r \in Records |-> IF NewestStamp(r) > 0 THEN led[NewestStamp(r)].why ELSE ""]

LEMMA ViewIs == ViewSays
<1>1. View.unwritten = IF Written = 0 THEN {} ELSE UnwrittenIn(led[Written].entries)
  BY DEF View, UnwrittenRecords, CycleAnchor, BirthAnchor, UnwrittenIn
<1>2. View.ok <=> IF Written = 0 THEN (IF Committed = 0 THEN {} ELSE led[Committed].paths) # {} ELSE led[Written].ok
  BY DEF View, CycleAnchor, BirthAnchor, Born
<1> QED
  BY <1>1, <1>2 DEF ViewSays, View, Owed, Open

LEMMA ViewIsNext == ViewSays'
BY ViewIs, PTL

LEMMA ViewMoves ==
  ASSUME IsLedger, Shapes, NEW x, Stamp(x), Shape(x, 0) \/ x.e # "record-written"
  PROVE  /\ JudgedReading(x, View, View') /\ WrittenReading(x, View, View')
         /\ RenderedReading(x, View, View') /\ RerunReading(x, View')
         /\ SetReading(x, View, View') /\ StampReading(x, View, View')
<1>1. PICK m : /\ Carried(led, led', x, m)
               /\ IF x.e = "reconciliation-judged" THEN Judged' = Len(led') ELSE Judged \in DOMAIN m /\ Judged' = m[Judged]
               /\ IF x.e = "reconciliation-written" THEN Written' = Len(led') ELSE Written \in DOMAIN m /\ Written' = m[Written]
               /\ IF x.e = "reconcile-rendered" THEN LastRendered' = Len(led')
                  ELSE LastRendered \in DOMAIN m /\ LastRendered' = m[LastRendered]
               /\ IF x.e = "reconcile-write-set" THEN SetStamp' = Len(led') ELSE SetStamp \in DOMAIN m /\ SetStamp' = m[SetStamp]
               /\ IF x.e = "records-committed" THEN Committed' = Len(led') ELSE Committed \in DOMAIN m /\ Committed' = m[Committed]
               /\ x.e # "pre-verdict-update" => RerunAsked \in DOMAIN m /\ RerunAsked' = m[RerunAsked]
               /\ x.e = "pre-verdict-update" /\ x.of = "rerun" => RerunAsked' = Len(led')
               /\ \A r : IF x.e = "record-written" /\ r = x.of THEN NewestStamp(r)' = Len(led')
                         ELSE NewestStamp(r) \in DOMAIN m /\ NewestStamp(r)' = m[NewestStamp(r)]
  BY Readings
<1>2. /\ Len(led') \in Nat /\ Len(led') > 0 /\ led'[Len(led')] = x
      /\ \A a \in DOMAIN m : a \in Nat /\ m[a] \in Nat /\ m[a] < Len(led') /\ (a > 0 <=> m[a] > 0) /\ (a = 0 <=> m[a] = 0)
      /\ \A a \in DOMAIN m : a > 0 => led'[m[a]] = led[a]
      /\ \A a, b \in DOMAIN m : (a < b <=> m[a] < m[b]) /\ (a > b <=> m[a] > m[b])
  BY <1>1 DEF Carried
<1>3. ViewSays /\ ViewSays'
  BY ViewIs, ViewIsNext
<1> HIDE DEF View, UnwrittenIn
<1>4. JudgedReading(x, View, View')
  <2>1. /\ View.judged <=> Judged > 0
        /\ View.owed = IF Judged > 0 THEN led[Judged].owed ELSE {}
        /\ View.owes <=> Written < Judged
        /\ View.answers <=> LastRendered > Judged
        /\ View.setJudged <=> SetStamp > Judged
        /\ View.sinceJudged = {r \in Records : NewestStamp(r) > Judged}
    BY <1>3 DEF ViewSays
  <2>2. /\ View'.judged <=> Judged' > 0
        /\ View'.owed = IF Judged' > 0 THEN led'[Judged'].owed ELSE {}
        /\ View'.owes <=> Written' < Judged'
        /\ View'.answers <=> LastRendered' > Judged'
        /\ View'.setJudged <=> SetStamp' > Judged'
        /\ View'.sinceJudged = {r \in Records : NewestStamp(r)' > Judged'}
    BY <1>3 DEF ViewSays
  <2>3. CASE x.e = "reconciliation-judged"
    BY <1>1, <1>2, <2>1, <2>2, <2>3 DEF JudgedReading
  <2>4. CASE x.e # "reconciliation-judged"
    BY <1>1, <1>2, <2>1, <2>2, <2>4 DEF JudgedReading
  <2> QED
    BY <2>3, <2>4
<1>5. WrittenReading(x, View, View')
  <2>1. /\ View.owes <=> Written < Judged
        /\ View.ok <=> IF Written = 0 THEN (IF Committed = 0 THEN {} ELSE led[Committed].paths) # {} ELSE led[Written].ok
        /\ View.unwritten = IF Written = 0 THEN {} ELSE UnwrittenIn(led[Written].entries)
        /\ View.stale <=> LastRendered < Written
    BY <1>3 DEF ViewSays
  <2>2. /\ View'.owes <=> Written' < Judged'
        /\ View'.ok <=> IF Written' = 0 THEN (IF Committed' = 0 THEN {} ELSE led'[Committed'].paths) # {} ELSE led'[Written'].ok
        /\ View'.unwritten = IF Written' = 0 THEN {} ELSE UnwrittenIn(led'[Written'].entries)
        /\ View'.stale <=> LastRendered' < Written'
    BY <1>3 DEF ViewSays
  <2>3. CASE x.e = "reconciliation-written"
    BY <1>1, <1>2, <2>1, <2>2, <2>3 DEF WrittenReading
  <2>4. CASE x.e # "reconciliation-written"
    BY <1>1, <1>2, <2>1, <2>2, <2>4 DEF WrittenReading
  <2> QED
    BY <2>3, <2>4
<1>6. RenderedReading(x, View, View')
  <2>1. /\ View.rendered <=> LastRendered > 0
        /\ View.open = IF LastRendered = 0 THEN {} ELSE led[LastRendered].open
        /\ View.stale <=> LastRendered < Written
        /\ View.answers <=> LastRendered > Judged
        /\ View.rerun <=> RerunAsked > LastRendered
        /\ View.setRendered <=> SetStamp > LastRendered
        /\ View.sinceRendered = {r \in Records : NewestStamp(r) > LastRendered}
    BY <1>3 DEF ViewSays
  <2>2. /\ View'.rendered <=> LastRendered' > 0
        /\ View'.open = IF LastRendered' = 0 THEN {} ELSE led'[LastRendered'].open
        /\ View'.stale <=> LastRendered' < Written'
        /\ View'.answers <=> LastRendered' > Judged'
        /\ View'.rerun <=> RerunAsked' > LastRendered'
        /\ View'.setRendered <=> SetStamp' > LastRendered'
        /\ View'.sinceRendered = {r \in Records : NewestStamp(r)' > LastRendered'}
    BY <1>3 DEF ViewSays
  <2>3. CASE x.e = "reconcile-rendered"
    BY <1>1, <1>2, <2>1, <2>2, <2>3 DEF RenderedReading
  <2>4. CASE x.e # "reconcile-rendered"
    BY <1>1, <1>2, <2>1, <2>2, <2>4 DEF RenderedReading
  <2> QED
    BY <2>3, <2>4
<1>7. RerunReading(x, View')
  <2>1. /\ View.rerun <=> RerunAsked > LastRendered
    BY <1>3 DEF ViewSays
  <2>2. /\ View'.rerun <=> RerunAsked' > LastRendered'
    BY <1>3 DEF ViewSays
  <2>3. CASE x.e = "pre-verdict-update"
    BY <1>1, <1>2, <2>1, <2>2, <2>3 DEF RerunReading
  <2>4. CASE x.e # "pre-verdict-update"
    BY <1>1, <1>2, <2>1, <2>2, <2>4 DEF RerunReading
  <2> QED
    BY <2>3, <2>4
<1>8. SetReading(x, View, View')
  <2>1. /\ View.round = IF SetStamp > 0 THEN led[SetStamp].round ELSE 0
        /\ View.set = IF SetStamp > 0 THEN led[SetStamp].records ELSE {}
        /\ View.setJudged <=> SetStamp > Judged
        /\ View.setRendered <=> SetStamp > LastRendered
    BY <1>3 DEF ViewSays
  <2>2. /\ View'.round = IF SetStamp' > 0 THEN led'[SetStamp'].round ELSE 0
        /\ View'.set = IF SetStamp' > 0 THEN led'[SetStamp'].records ELSE {}
        /\ View'.setJudged <=> SetStamp' > Judged'
        /\ View'.setRendered <=> SetStamp' > LastRendered'
    BY <1>3 DEF ViewSays
  <2>3. CASE x.e = "reconcile-write-set"
    BY <1>1, <1>2, <2>1, <2>2, <2>3 DEF SetReading
  <2>4. CASE x.e # "reconcile-write-set"
    BY <1>1, <1>2, <2>1, <2>2, <2>4 DEF SetReading
  <2> QED
    BY <2>3, <2>4
<1>9. StampReading(x, View, View')
  <2>1. /\ View.sinceJudged = {r \in Records : NewestStamp(r) > Judged}
        /\ View.sinceRendered = {r \in Records : NewestStamp(r) > LastRendered}
        /\ View.why = [r \in Records |-> IF NewestStamp(r) > 0 THEN led[NewestStamp(r)].why ELSE ""]
    BY <1>3 DEF ViewSays
  <2>2. /\ View'.sinceJudged = {r \in Records : NewestStamp(r)' > Judged'}
        /\ View'.sinceRendered = {r \in Records : NewestStamp(r)' > LastRendered'}
        /\ View'.why = [r \in Records |-> IF NewestStamp(r)' > 0 THEN led'[NewestStamp(r)'].why ELSE ""]
    BY <1>3 DEF ViewSays
  <2>3. CASE x.e = "record-written"
    <3>1. Judged \in DOMAIN m /\ Judged' = m[Judged] /\ LastRendered \in DOMAIN m /\ LastRendered' = m[LastRendered]
      BY <1>1, <2>3
    <3>2. \A r : IF r = x.of THEN NewestStamp(r)' = Len(led') ELSE NewestStamp(r) \in DOMAIN m /\ NewestStamp(r)' = m[NewestStamp(r)]
      BY <1>1, <2>3
    <3>3. \A r : r = x.of => NewestStamp(r)' > Judged' /\ NewestStamp(r)' > LastRendered' /\ NewestStamp(r)' > 0
      BY <1>2, <3>1, <3>2
    <3>4. \A r : r # x.of => /\ NewestStamp(r)' > Judged' <=> NewestStamp(r) > Judged
                             /\ NewestStamp(r)' > LastRendered' <=> NewestStamp(r) > LastRendered
                             /\ NewestStamp(r)' > 0 <=> NewestStamp(r) > 0
                             /\ NewestStamp(r) > 0 => led'[NewestStamp(r)'] = led[NewestStamp(r)]
      BY <1>2, <3>1, <3>2
    <3>5. led'[NewestStamp(x.of)'] = x
      BY <1>2, <3>2
    <3>6. ASSUME x.of \in Records
          PROVE  /\ View'.sinceJudged = View.sinceJudged \cup {x.of}
                 /\ View'.sinceRendered = View.sinceRendered \cup {x.of}
      <4>1. \A r \in Records : /\ NewestStamp(r)' > Judged' <=> r = x.of \/ NewestStamp(r) > Judged
                               /\ NewestStamp(r)' > LastRendered' <=> r = x.of \/ NewestStamp(r) > LastRendered
        <5> SUFFICES ASSUME NEW r \in Records
                     PROVE  /\ NewestStamp(r)' > Judged' <=> r = x.of \/ NewestStamp(r) > Judged
                            /\ NewestStamp(r)' > LastRendered' <=> r = x.of \/ NewestStamp(r) > LastRendered
          OBVIOUS
        <5>1. CASE r = x.of
          <6>1. NewestStamp(r)' > Judged' /\ NewestStamp(r)' > LastRendered'
            BY <3>3, <5>1
          <6> QED
            BY <5>1, <6>1
        <5>2. CASE r # x.of
          <6>1. /\ NewestStamp(r)' > Judged' <=> NewestStamp(r) > Judged
                /\ NewestStamp(r)' > LastRendered' <=> NewestStamp(r) > LastRendered
            BY <3>4, <5>2
          <6> QED
            BY <5>2, <6>1
        <5> QED
          BY <5>1, <5>2
      <4>2. PICK y : y = x.of /\ y \in Records
        BY <3>6
      <4>3. View'.sinceJudged = View.sinceJudged \cup {y}
        BY <2>1, <2>2, <4>1, <4>2
      <4>4. View'.sinceRendered = View.sinceRendered \cup {y}
        BY <2>1, <2>2, <4>1, <4>2
      <4> QED
        BY <4>2, <4>3, <4>4
    <3>7. \A r \in Records : View'.why[r] = IF r = x.of THEN x.why ELSE View.why[r]
      <4> SUFFICES ASSUME NEW r \in Records PROVE View'.why[r] = IF r = x.of THEN x.why ELSE View.why[r]
        OBVIOUS
      <4>1. View'.why[r] = IF NewestStamp(r)' > 0 THEN led'[NewestStamp(r)'].why ELSE ""
        BY <2>2
      <4>2. View.why[r] = IF NewestStamp(r) > 0 THEN led[NewestStamp(r)].why ELSE ""
        BY <2>1
      <4>3. CASE r = x.of
        <5>1. NewestStamp(r)' > 0 /\ led'[NewestStamp(r)'] = x
          BY <3>3, <3>5, <4>3
        <5> QED
          BY <4>1, <4>3, <5>1
      <4>4. CASE r # x.of
        <5>1. /\ NewestStamp(r)' > 0 <=> NewestStamp(r) > 0
              /\ NewestStamp(r) > 0 => led'[NewestStamp(r)'] = led[NewestStamp(r)]
          BY <3>4, <4>4
        <5> QED
          BY <4>1, <4>2, <4>4, <5>1
      <4> QED
        BY <4>3, <4>4
    <3> QED
      BY <2>3, <3>6, <3>7 DEF StampReading
  <2>4. CASE x.e # "record-written"
    <3>1. \A r : NewestStamp(r) \in DOMAIN m /\ NewestStamp(r)' = m[NewestStamp(r)]
      BY <1>1, <2>4
    <3>2. \A r : /\ NewestStamp(r)' > 0 <=> NewestStamp(r) > 0
                 /\ NewestStamp(r) > 0 => led'[NewestStamp(r)'] = led[NewestStamp(r)]
      BY <1>2, <3>1
    <3>3. View'.why = View.why
      BY <2>1, <2>2, <3>2
    <3>4. x.e # "reconciliation-judged" => View'.sinceJudged = View.sinceJudged
      <4> SUFFICES ASSUME x.e # "reconciliation-judged" PROVE View'.sinceJudged = View.sinceJudged
        OBVIOUS
      <4>1. Judged \in DOMAIN m /\ Judged' = m[Judged]
        BY <1>1
      <4>2. \A r : NewestStamp(r)' > Judged' <=> NewestStamp(r) > Judged
        BY <1>2, <3>1, <4>1
      <4> QED
        BY <2>1, <2>2, <4>2
    <3>5. x.e # "reconcile-rendered" => View'.sinceRendered = View.sinceRendered
      <4> SUFFICES ASSUME x.e # "reconcile-rendered" PROVE View'.sinceRendered = View.sinceRendered
        OBVIOUS
      <4>1. LastRendered \in DOMAIN m /\ LastRendered' = m[LastRendered]
        BY <1>1
      <4>2. \A r : NewestStamp(r)' > LastRendered' <=> NewestStamp(r) > LastRendered
        BY <1>2, <3>1, <4>1
      <4> QED
        BY <2>1, <2>2, <4>2
    <3> QED
      BY <2>4, <3>3, <3>4, <3>5 DEF StampReading
  <2> QED
    BY <2>3, <2>4
<1> QED
  BY <1>4, <1>5, <1>6, <1>7, <1>8, <1>9

LEMMA ViewRests == ASSUME UNCHANGED led PROVE View' = View
<1>1. /\ Judged' = Judged /\ Written' = Written /\ LastRendered' = LastRendered /\ SetStamp' = SetStamp
      /\ Committed' = Committed /\ RerunAsked' = RerunAsked
  BY DEF Judged, Written, LastRendered, Renders, SetStamp, Committed, RerunAsked, Newest, SeqsOf, Seqs
<1>2. \A r : NewestStamp(r)' = NewestStamp(r)
  BY DEF NewestStamp, Newest, Seqs
<1>3. Owed' = Owed /\ Open' = Open
  BY <1>1 DEF Owed, Open
<1>4. CycleAnchor' = CycleAnchor
  BY <1>1 DEF CycleAnchor, BirthAnchor, Born
<1>5. UnwrittenRecords' = UnwrittenRecords
  BY <1>4 DEF UnwrittenRecords
<1> QED
  BY <1>1, <1>2, <1>3, <1>4, <1>5 DEF View

SameView(v, w) ==
  /\ (w.judged <=> v.judged) /\ w.owed = v.owed /\ (w.owes <=> v.owes) /\ (w.ok <=> v.ok) /\ w.unwritten = v.unwritten
  /\ (w.rendered <=> v.rendered) /\ w.open = v.open /\ (w.stale <=> v.stale) /\ (w.answers <=> v.answers) /\ (w.rerun <=> v.rerun)
  /\ w.round = v.round /\ w.set = v.set /\ (w.setJudged <=> v.setJudged) /\ (w.setRendered <=> v.setRendered)
  /\ w.sinceJudged = v.sinceJudged /\ w.sinceRendered = v.sinceRendered /\ w.why = v.why

(* A stamp of a kind that the view does not read. *)
Silent(x) == x.e \notin {"reconciliation-judged", "reconciliation-written", "reconcile-rendered", "pre-verdict-update",
                         "reconcile-write-set", "record-written", "records-committed"}

LEMMA SilentStamps ==
  ASSUME IsLedger, Shapes, NEW x, Stamp(x), Silent(x)
  PROVE  SameView(View, View')
<1>1. /\ JudgedReading(x, View, View') /\ WrittenReading(x, View, View')
      /\ RenderedReading(x, View, View') /\ SetReading(x, View, View') /\ StampReading(x, View, View')
  BY ViewMoves DEF Silent
<1>2. /\ x.e # "reconciliation-judged" /\ x.e # "reconciliation-written" /\ x.e # "reconcile-rendered" /\ x.e # "pre-verdict-update"
      /\ x.e # "reconcile-write-set" /\ x.e # "record-written" /\ x.e # "records-committed"
  BY DEF Silent
<1> QED
  BY <1>1, <1>2 DEF SameView, JudgedReading, WrittenReading, RenderedReading, SetReading, StampReading

---------------------------------------------------------------------------
(* The answers to a judgment.                                                *)

(* The steps of the stage that a ledger calls for, as ReconcileStep has them.*)
WriteDue(v) == v.judged /\ v.owed # {} /\ v.owes
Anchored(v) == v.judged /\ ~WriteDue(v) /\ v.ok
CorrectDue(v) == Anchored(v) /\ v.rendered /\ ~v.stale /\ ~v.rerun /\ v.open # {}
CycleDue(v) == Anchored(v) /\ (~v.rendered \/ v.stale \/ v.rerun)

(* A round of writers: its number, the set it goes over where that is on the *)
(* ledger, what it has stamped, and what it has to go over.                  *)
Due(task, v) == IF task = "write" THEN WriteDue(v) ELSE CorrectDue(v)
RoundOf(task, n) == IF task = "write" THEN 0 ELSE n + 1
SetSince(task, v) == IF task = "write" THEN v.setJudged ELSE v.setRendered
StampedSince(task, v) == IF task = "write" THEN v.sinceJudged ELSE v.sinceRendered
Covers(task, v, shut) == IF task = "write" THEN v.owed \ shut ELSE v.unwritten \ shut
Left(r) == [kind |-> "unwritten", names |-> {r}]

RoundStands(task, v, n, shut) ==
  Due(task, v) => /\ SetSince(task, v) => v.round = RoundOf(task, n) /\ Covers(task, v, shut) \subseteq v.set
                  /\ StampedSince(task, v) # {} => SetSince(task, v) /\ StampedSince(task, v) \subseteq v.set
(* An owed record is stamped; what is not written is left by the write that  *)
(* stands, or taken back by the corrective round that runs.                  *)
Answered1(r, v) == r \in v.sinceJudged /\ (v.why[r] = "written" \/ r \in v.unwritten \/ (CorrectDue(v) /\ r \in v.sinceRendered))

AnswerLedger(v, n, shut) ==
  /\ RoundStands("write", v, n, shut) /\ RoundStands("correct", v, n, shut)
  /\ v.rendered => v.judged
  /\ WriteDue(v) => ~v.answers
  /\ v.rendered /\ ~v.stale => \A r \in v.unwritten : Left(r) \in v.open
  /\ Anchored(v) => \A r \in v.owed \ shut : Answered1(r, v)
  /\ v.answers /\ v.judged /\ v.open = {} => \A r \in v.owed \ shut : r \in v.sinceJudged /\ v.why[r] = "written"

LEMMA SameAnswers ==
  ASSUME NEW v, NEW w, SameView(v, w), NEW n, NEW shut, NEW shut2, shut \subseteq shut2, AnswerLedger(v, n, shut)
  PROVE  AnswerLedger(w, n, shut2)
<1>1. /\ WriteDue(w) <=> WriteDue(v)
      /\ Anchored(w) <=> Anchored(v)
      /\ CorrectDue(w) <=> CorrectDue(v)
  BY DEF SameView, WriteDue, Anchored, CorrectDue
<1>2. RoundStands("write", w, n, shut2) /\ RoundStands("correct", w, n, shut2)
  BY <1>1 DEF AnswerLedger, RoundStands, SameView, Due, RoundOf, SetSince, StampedSince, Covers
<1>3. \A r : Answered1(r, v) <=> Answered1(r, w)
  BY <1>1 DEF Answered1, SameView
<1> QED
  BY <1>1, <1>2, <1>3 DEF AnswerLedger, SameView

(* A judgment is answered by nothing yet. *)
LEMMA JudgmentIsDue ==
  ASSUME NEW v, NEW w, NEW n, NEW k, NEW shut, AnswerLedger(v, n, shut), NEW x, x.e = "reconciliation-judged",
         JudgedReading(x, v, w), WrittenReading(x, v, w), RenderedReading(x, v, w), SetReading(x, v, w), StampReading(x, v, w),
         ~v.judged \/ x.owed # {}
  PROVE  AnswerLedger(w, k, shut)
<1> USE DEF JudgedReading, WrittenReading, RenderedReading, SetReading, StampReading
<1>1. ~CorrectDue(w)
  BY DEF AnswerLedger, CorrectDue, Anchored, WriteDue
<1>2. RoundStands("write", w, k, shut) /\ RoundStands("correct", w, k, shut)
  BY <1>1 DEF RoundStands, Due, SetSince, StampedSince
<1>3. Anchored(w) => w.owed = {}
  BY DEF Anchored, WriteDue
<1> QED
  BY <1>1, <1>2, <1>3 DEF AnswerLedger

(* The set of a round is stamped before its seat writes. *)
LEMMA SetIsStamped ==
  ASSUME NEW v, NEW w, NEW n, NEW shut, AnswerLedger(v, n, shut), NEW x, x.e = "reconcile-write-set",
         JudgedReading(x, v, w), WrittenReading(x, v, w), RenderedReading(x, v, w), SetReading(x, v, w), StampReading(x, v, w),
         NEW task \in {"write", "correct"}, Due(task, v), x.round = RoundOf(task, n), Covers(task, v, shut) \subseteq x.records,
         SetSince(task, v) => x.records = v.set
  PROVE  AnswerLedger(w, n, shut) /\ Due(task, w) /\ SetSince(task, w) /\ w.set = x.records
<1> USE DEF JudgedReading, WrittenReading, RenderedReading, SetReading, StampReading
<1>1. /\ WriteDue(w) <=> WriteDue(v)
      /\ Anchored(w) <=> Anchored(v)
      /\ CorrectDue(w) <=> CorrectDue(v)
      /\ ~(WriteDue(v) /\ CorrectDue(v))
  BY DEF WriteDue, Anchored, CorrectDue
<1>2. RoundStands("write", w, n, shut) /\ RoundStands("correct", w, n, shut)
  BY <1>1 DEF AnswerLedger, RoundStands, Due, RoundOf, SetSince, StampedSince, Covers
<1>3. \A r : Answered1(r, v) <=> Answered1(r, w)
  BY <1>1 DEF Answered1
<1>4. AnswerLedger(w, n, shut)
  BY <1>1, <1>2, <1>3 DEF AnswerLedger
<1> QED
  BY <1>1, <1>4 DEF Due, SetSince

(* A record of the round's set is stamped. *)
LEMMA RecordIsStamped ==
  ASSUME NEW v, NEW w, NEW n, NEW shut, AnswerLedger(v, n, shut), NEW x, x.e = "record-written", x.of \in Records, v.owed \subseteq Records,
         JudgedReading(x, v, w), WrittenReading(x, v, w), RenderedReading(x, v, w), SetReading(x, v, w), StampReading(x, v, w),
         NEW task \in {"write", "correct"}, Due(task, v), SetSince(task, v), x.of \in v.set
  PROVE  AnswerLedger(w, n, shut) /\ Due(task, w) /\ SetSince(task, w) /\ w.set = v.set
<1> USE DEF JudgedReading, WrittenReading, RenderedReading, SetReading, StampReading
<1>1. /\ WriteDue(w) <=> WriteDue(v)
      /\ Anchored(w) <=> Anchored(v)
      /\ CorrectDue(w) <=> CorrectDue(v)
      /\ ~(WriteDue(v) /\ CorrectDue(v))
  BY DEF WriteDue, Anchored, CorrectDue
<1>2. RoundStands("write", w, n, shut) /\ RoundStands("correct", w, n, shut)
  BY <1>1 DEF AnswerLedger, RoundStands, Due, RoundOf, SetSince, StampedSince, Covers
<1>3. Anchored(w) => \A r \in w.owed \ shut : Answered1(r, w)
  <2> SUFFICES ASSUME Anchored(w), NEW r \in w.owed \ shut PROVE Answered1(r, w)
    OBVIOUS
  <2>1. CorrectDue(v) /\ CorrectDue(w)
    BY <1>1 DEF Due, Anchored
  <2>2. r \in Records /\ Answered1(r, v)
    BY <1>1 DEF AnswerLedger
  <2>3. CASE r = x.of
    BY <2>1, <2>3 DEF Answered1
  <2>4. CASE r # x.of
    BY <2>1, <2>2, <2>4 DEF Answered1
  <2> QED
    BY <2>3, <2>4
<1>4. w.answers /\ w.judged /\ w.open = {} => FALSE
  BY <1>1 DEF Due, AnswerLedger, CorrectDue
<1>5. AnswerLedger(w, n, shut)
  BY <1>1, <1>2, <1>3, <1>4 DEF AnswerLedger
<1> QED
  BY <1>1, <1>5 DEF Due, SetSince

(* The write that stands is the round's: every record of its set is stamped  *)
(* as the round has it.                                                      *)
LEMMA RoundIsWritten ==
  ASSUME NEW v, NEW w, NEW n, NEW shut, AnswerLedger(v, n, shut), NEW x, x.e = "reconciliation-written",
         JudgedReading(x, v, w), WrittenReading(x, v, w), RenderedReading(x, v, w), SetReading(x, v, w), StampReading(x, v, w),
         NEW task \in {"write", "correct"}, Due(task, v), SetSince(task, v), DOMAIN x.entries = v.set,
         v.set \subseteq StampedSince(task, v), \A r \in v.set : v.why[r] = x.entries[r]
  PROVE  AnswerLedger(w, n, shut)
<1> USE DEF JudgedReading, WrittenReading, RenderedReading, SetReading, StampReading
<1>1. ~WriteDue(w) /\ ~CorrectDue(w)
  BY DEF WriteDue, CorrectDue
<1>2. RoundStands("write", w, n, shut) /\ RoundStands("correct", w, n, shut)
  BY <1>1 DEF RoundStands, Due
<1>3. ASSUME NEW r \in w.owed \ shut PROVE Answered1(r, w)
  <2>1. CASE task = "write"
    <3>1. r \in v.set /\ v.set \subseteq v.sinceJudged
      BY <2>1 DEF AnswerLedger, RoundStands, Due, SetSince, Covers, StampedSince
    <3> QED
      BY <3>1 DEF Answered1, UnwrittenIn
  <2>2. CASE task = "correct"
    <3>1. CorrectDue(v) /\ v.setRendered /\ v.unwritten \ shut \subseteq v.set /\ v.sinceRendered \subseteq v.set
      BY <2>2 DEF AnswerLedger, RoundStands, Due, SetSince, Covers, StampedSince
    <3>2. Answered1(r, v) /\ r \notin shut
      BY <3>1 DEF AnswerLedger, CorrectDue
    <3>3. CASE r \in v.set
      BY <3>2, <3>3 DEF Answered1, UnwrittenIn
    <3>4. CASE r \notin v.set
      BY <3>1, <3>2, <3>4 DEF Answered1
    <3> QED
      BY <3>3, <3>4
  <2> QED
    BY <2>1, <2>2
<1>4. ~(w.answers /\ w.judged /\ w.open = {})
  BY DEF AnswerLedger, Due, CorrectDue
<1> QED
  BY <1>1, <1>2, <1>3, <1>4 DEF AnswerLedger

(* The fallback ends the rounds of the judgment. *)
LEMMA FallbackIsWritten ==
  ASSUME NEW v, NEW w, NEW n, NEW shut, AnswerLedger(v, n, shut), NEW x, x.e = "reconciliation-written", ~x.ok,
         JudgedReading(x, v, w), WrittenReading(x, v, w), RenderedReading(x, v, w), SetReading(x, v, w), StampReading(x, v, w)
  PROVE  AnswerLedger(w, n, shut) /\ ~CorrectDue(w)
<1> USE DEF JudgedReading, WrittenReading, RenderedReading, SetReading, StampReading
<1>1. ~WriteDue(w) /\ ~CorrectDue(w) /\ ~Anchored(w)
  BY DEF WriteDue, CorrectDue, Anchored
<1>2. RoundStands("write", w, n, shut) /\ RoundStands("correct", w, n, shut)
  BY <1>1 DEF RoundStands, Due
<1> QED
  BY <1>1, <1>2 DEF AnswerLedger

(* A render says what the write that stands has left. *)
LEMMA RenderSays ==
  ASSUME NEW v, NEW w, NEW n, NEW shut, AnswerLedger(v, n, shut), NEW x, x.e = "reconcile-rendered",
         JudgedReading(x, v, w), WrittenReading(x, v, w), RenderedReading(x, v, w), SetReading(x, v, w), StampReading(x, v, w),
         CycleDue(v), \A r \in v.unwritten : Left(r) \in x.open
  PROVE  AnswerLedger(w, n, shut)
<1> USE DEF JudgedReading, WrittenReading, RenderedReading, SetReading, StampReading
<1>1. ~WriteDue(w) /\ ~CorrectDue(v) /\ Anchored(v) /\ (Anchored(w) <=> Anchored(v))
  BY DEF WriteDue, CorrectDue, CycleDue, Anchored
<1>2. RoundStands("write", w, n, shut) /\ RoundStands("correct", w, n, shut)
  BY <1>1 DEF RoundStands, Due, SetSince, StampedSince
<1>3. \A r \in w.owed \ shut : r \in w.sinceJudged /\ (w.why[r] = "written" \/ r \in w.unwritten)
  BY <1>1 DEF AnswerLedger, Answered1
<1>4. \A r \in w.owed \ shut : Answered1(r, w)
  BY <1>3 DEF Answered1
<1>5. w.open = {} => w.unwritten = {}
  OBVIOUS
<1> QED
  BY <1>1, <1>2, <1>3, <1>4, <1>5 DEF AnswerLedger, Anchored

(* A run that is asked again is asked where no corrective round is due. *)
LEMMA AskedAgain ==
  ASSUME NEW v, NEW w, NEW n, NEW shut, AnswerLedger(v, n, shut), NEW x, x.e = "pre-verdict-update", x.of = "rerun",
         JudgedReading(x, v, w), WrittenReading(x, v, w), RenderedReading(x, v, w), RerunReading(x, w),
         SetReading(x, v, w), StampReading(x, v, w), ~CorrectDue(v)
  PROVE  AnswerLedger(w, n, shut)
<1> USE DEF JudgedReading, WrittenReading, RenderedReading, SetReading, StampReading
<1>1. (WriteDue(w) <=> WriteDue(v)) /\ (Anchored(w) <=> Anchored(v)) /\ ~CorrectDue(w)
  BY DEF WriteDue, CorrectDue, Anchored, RerunReading
<1>2. RoundStands("write", w, n, shut) /\ RoundStands("correct", w, n, shut)
  BY <1>1 DEF AnswerLedger, RoundStands, Due, RoundOf, SetSince, StampedSince, Covers
<1>3. \A r : Answered1(r, v) <=> Answered1(r, w)
  BY <1>1 DEF Answered1
<1> QED
  BY <1>1, <1>2, <1>3 DEF AnswerLedger

(* The records are born before anything is judged. *)
LEMMA BirthIsFirst ==
  ASSUME NEW v, NEW w, NEW n, NEW shut, AnswerLedger(v, n, shut), NEW x, x.e = "records-committed", ~v.judged,
         JudgedReading(x, v, w), WrittenReading(x, v, w), RenderedReading(x, v, w), SetReading(x, v, w), StampReading(x, v, w)
  PROVE  AnswerLedger(w, n, shut) /\ ~w.judged
<1> USE DEF JudgedReading, WrittenReading, RenderedReading, SetReading, StampReading
<1>1. ~WriteDue(w) /\ ~CorrectDue(w) /\ ~Anchored(w)
  BY DEF WriteDue, CorrectDue, Anchored
<1>2. RoundStands("write", w, n, shut) /\ RoundStands("correct", w, n, shut)
  BY <1>1 DEF RoundStands, Due
<1> QED
  BY <1>1, <1>2 DEF AnswerLedger

(* A corrective round is counted where a render is due. *)
LEMMA RoundIsNumbered ==
  ASSUME NEW v, NEW n, NEW k, NEW shut, AnswerLedger(v, n, shut), v.stale
  PROVE  AnswerLedger(v, k, shut)
<1>1. ~CorrectDue(v)
  BY DEF CorrectDue
<1>2. RoundStands("write", v, k, shut) /\ RoundStands("correct", v, k, shut)
  BY <1>1 DEF AnswerLedger, RoundStands, Due, RoundOf
<1> QED
  BY <1>2 DEF AnswerLedger

---------------------------------------------------------------------------
(* What a cycle reads of its ledger: its layers and the set that its review  *)
(* stamped, and the text at which each record was last read clean.           *)
Greens(r) == {i \in Renders : r \in led[i].records \ led[i].unreviewed /\ ~Against(r, i)}
CycleView ==
  [layers |-> LayersRun, up |-> ReviewSetStamp > 0,
   list |-> IF ReviewSetStamp > 0 THEN led[ReviewSetStamp].records ELSE {},
   kept |-> IF ReviewSetStamp > 0 THEN led[ReviewSetStamp].kept ELSE {},
   green |-> {r \in Records : Greens(r) # {}},
   text |-> [r \in Records |-> IF Greens(r) # {} THEN led[Newest(Greens(r))].text[r] ELSE 0]]

LEMMA CycleViewIs ==
  /\ CycleView.layers <=> LayersRun
  /\ CycleView.up <=> ReviewSetStamp > 0
  /\ CycleView.list = IF ReviewSetStamp > 0 THEN led[ReviewSetStamp].records ELSE {}
  /\ CycleView.kept = IF ReviewSetStamp > 0 THEN led[ReviewSetStamp].kept ELSE {}
  /\ CycleView.green = {r \in Records : Greens(r) # {}}
  /\ \A r \in Records : CycleView.text[r] = IF Greens(r) # {} THEN led[Newest(Greens(r))].text[r] ELSE 0
BY DEF CycleView

LEMMA CycleViewIsNext ==
  /\ CycleView'.layers <=> LayersRun'
  /\ CycleView'.up <=> ReviewSetStamp' > 0
  /\ CycleView'.list = IF ReviewSetStamp' > 0 THEN led'[ReviewSetStamp'].records ELSE {}
  /\ CycleView'.kept = IF ReviewSetStamp' > 0 THEN led'[ReviewSetStamp'].kept ELSE {}
  /\ CycleView'.green = {r \in Records : Greens(r)' # {}}
  /\ \A r \in Records : CycleView'.text[r] = IF Greens(r)' # {} THEN led'[Newest(Greens(r)')].text[r] ELSE 0
<1>1. ASSUME NEW r PROVE Newest(Greens(r))' = Newest(Greens(r)')
  BY DEF Newest
<1>2. \A r \in Records : CycleView'.text[r] = IF Greens(r)' # {} THEN led'[Newest(Greens(r))'].text[r] ELSE 0
  BY DEF CycleView
<1>3. \A r \in Records : CycleView'.text[r] = IF Greens(r)' # {} THEN led'[Newest(Greens(r)')].text[r] ELSE 0
  BY <1>1, <1>2
<1> QED
  BY <1>3 DEF CycleView

LEMMA RendersAre ==
  ASSUME IsLedger
  PROVE  IsFiniteSet(Renders) /\ Cardinality(Renders) \in Nat /\ NextCycle \in Nat /\ NextCycle > 0
<1>1. IsFiniteSet(1..Len(led)) /\ Renders \subseteq 1..Len(led)
  BY FS_Interval DEF Renders, SeqsOf, IsLedger
<1>2. IsFiniteSet(Renders)
  BY <1>1, FS_Subset
<1>3. Cardinality(Renders) \in Nat
  BY <1>2, FS_CardinalityType
<1> QED
  BY <1>2, <1>3 DEF NextCycle

LEMMA RendersStay ==
  ASSUME IsLedger, NEW x, NEW sh, Shifted(led, led', x, sh), x.e # "reconcile-rendered"
  PROVE  /\ Renders \subseteq DOMAIN sh /\ Renders' = Dest(sh, Renders)
         /\ Cardinality(Renders') = Cardinality(Renders) /\ NextCycle' = NextCycle
         /\ \A r : Greens(r) \subseteq DOMAIN sh /\ Greens(r)' = Dest(sh, Greens(r))
<1>1. Renders \subseteq DOMAIN sh /\ Renders' = Dest(sh, Renders)
  BY KindMoves DEF Renders
<1>2. Cardinality(Renders') = Cardinality(Renders)
  BY <1>1, RendersAre, DestCounts DEF IsLedger
<1>3. NextCycle' = NextCycle
  BY <1>2 DEF NextCycle
<1>4. \A k \in DOMAIN sh : k \in DOMAIN led /\ sh[k] \in DOMAIN led' /\ led'[sh[k]] = led[k]
  BY ShiftIs
<1>5. ASSUME NEW r PROVE Greens(r) \subseteq DOMAIN sh /\ Greens(r)' = Dest(sh, Greens(r))
  <2>1. Greens(r) \subseteq DOMAIN sh
    BY <1>1 DEF Greens
  <2>2. \A k \in Renders : Against(r, sh[k])' <=> Against(r, k)
    BY <1>1, <1>4 DEF Against
  <2>3. Greens(r)' = {i \in Renders' : r \in led'[i].records \ led'[i].unreviewed /\ ~Against(r, i)'}
    BY DEF Greens
  <2>4. ASSUME NEW i \in Greens(r)' PROVE i \in Dest(sh, Greens(r))
    <3>1. PICK k \in Renders : sh[k] = i
      BY <1>1, <2>3 DEF Dest
    <3>2. k \in Greens(r)
      BY <1>1, <1>4, <2>2, <2>3, <3>1 DEF Greens
    <3> QED
      BY <3>1, <3>2 DEF Dest
  <2>5. ASSUME NEW k \in Greens(r) PROVE sh[k] \in Greens(r)'
    <3>1. k \in Renders /\ r \in led[k].records \ led[k].unreviewed /\ ~Against(r, k)
      BY DEF Greens
    <3>2. sh[k] \in Renders' /\ led'[sh[k]] = led[k] /\ ~Against(r, sh[k])'
      BY <1>1, <1>4, <2>2, <3>1 DEF Dest
    <3> QED
      BY <2>3, <3>1, <3>2
  <2> QED
    BY <2>1, <2>4, <2>5 DEF Dest
<1> QED
  BY <1>1, <1>2, <1>3, <1>5

LEMMA CycleMoves ==
  ASSUME IsLedger, NEW x, Stamp(x), x.e # "reconcile-rendered"
  PROVE  /\ NextCycle' = NextCycle /\ Cardinality(Renders)' = Cardinality(Renders)
         /\ CycleView'.green = CycleView.green /\ \A r \in Records : CycleView'.text[r] = CycleView.text[r]
         /\ IF x.e = "layer-result" THEN x.cycle = NextCycle => CycleView'.layers ELSE CycleView'.layers <=> CycleView.layers
         /\ IF x.e = "reconcile-review-set"
            THEN x.cycle = NextCycle => CycleView'.up /\ CycleView'.list = x.records /\ CycleView'.kept = x.kept
            ELSE /\ CycleView'.up <=> CycleView.up
                 /\ CycleView'.list = CycleView.list /\ CycleView'.kept = CycleView.kept
<1>1. PICK sh : Shifted(led, led', x, sh)
  BY StampShifts DEF IsLedger
<1>2. IsLedger'
  BY StampShifts DEF IsLedger
<1>3. /\ Renders \subseteq DOMAIN sh /\ Renders' = Dest(sh, Renders)
      /\ Cardinality(Renders') = Cardinality(Renders) /\ NextCycle' = NextCycle
      /\ \A r : Greens(r) \subseteq DOMAIN sh /\ Greens(r)' = Dest(sh, Greens(r))
  BY <1>1, RendersStay
<1>4. /\ Len(led') \in DOMAIN led' /\ led'[Len(led')] = x
      /\ \A j \in DOMAIN led' : j \in Nat /\ j > 0 /\ j <= Len(led')
      /\ \A k \in DOMAIN sh : k \in DOMAIN led /\ sh[k] \in DOMAIN led' /\ sh[k] < Len(led') /\ led'[sh[k]] = led[k]
  BY <1>1, ShiftIs
<1>5. \A k \in DOMAIN sh : k > 0 /\ sh[k] > 0
  BY <1>4 DEF IsLedger
<1>6. ASSUME NEW S, S \subseteq DOMAIN sh
      PROVE  /\ S = {} => Newest(S) = 0 /\ Newest(Dest(sh, S)) = 0
             /\ S # {} => Newest(S) \in S /\ Newest(Dest(sh, S)) = sh[Newest(S)]
             /\ Dest(sh, S) = {} <=> S = {}
  <2>1. /\ S = {} => Newest(S) = 0 /\ Newest(Dest(sh, S)) = 0
        /\ S # {} => Newest(S) \in S /\ Newest(Dest(sh, S)) = sh[Newest(S)]
    BY <1>1, <1>6, NewestMoves DEF IsLedger
  <2>2. Dest(sh, S) = {} <=> S = {}
    BY DEF Dest
  <2> QED
    BY <2>1, <2>2
<1>7. ASSUME NEW r \in Records
      PROVE  (r \in CycleView'.green <=> r \in CycleView.green) /\ CycleView'.text[r] = CycleView.text[r]
  <2> DEFINE S == Greens(r)
  <2>1. S \subseteq DOMAIN sh /\ Greens(r)' = Dest(sh, S)
    BY <1>3
  <2>2. (r \in CycleView.green <=> S # {}) /\ CycleView.text[r] = IF S # {} THEN led[Newest(S)].text[r] ELSE 0
    BY CycleViewIs
  <2>3. /\ r \in CycleView'.green <=> Greens(r)' # {}
        /\ CycleView'.text[r] = IF Greens(r)' # {} THEN led'[Newest(Greens(r)')].text[r] ELSE 0
    BY CycleViewIsNext
  <2> HIDE DEF S
  <2>4. CASE S = {}
    BY <1>6, <2>1, <2>2, <2>3, <2>4
  <2>5. CASE S # {}
    <3>1. Newest(S) \in S /\ Newest(Dest(sh, S)) = sh[Newest(S)] /\ Dest(sh, S) # {}
      BY <1>6, <2>1, <2>5
    <3>2. led'[sh[Newest(S)]] = led[Newest(S)]
      BY <1>4, <2>1, <3>1
    <3> QED
      BY <2>1, <2>2, <2>3, <2>5, <3>1, <3>2
  <2> QED
    BY <2>4, <2>5
<1>8. CycleView'.green = CycleView.green
  <2>1. CycleView'.green \subseteq Records /\ CycleView.green \subseteq Records
    BY CycleViewIs, CycleViewIsNext
  <2> QED
    BY <1>7, <2>1
<1>9. x.e # "layer-result" => (CycleView'.layers <=> CycleView.layers)
  <2> SUFFICES ASSUME x.e # "layer-result" PROVE LayersRun' <=> LayersRun
    BY CycleViewIs, CycleViewIsNext
  <2>1. SeqsOf("layer-result") \subseteq DOMAIN sh /\ SeqsOf("layer-result")' = Dest(sh, SeqsOf("layer-result"))
    BY <1>1, KindMoves
  <2>2. LayersRun' <=> \E i \in SeqsOf("layer-result")' : led'[i].cycle = NextCycle'
    BY DEF LayersRun
  <2> QED
    BY <1>3, <1>4, <2>1, <2>2 DEF LayersRun, Dest
<1>10. x.e = "layer-result" /\ x.cycle = NextCycle => CycleView'.layers
  <2> SUFFICES ASSUME x.e = "layer-result", x.cycle = NextCycle PROVE LayersRun'
    BY CycleViewIsNext
  <2>1. Len(led') \in SeqsOf("layer-result")' /\ led'[Len(led')].cycle = NextCycle'
    BY <1>3, <1>4 DEF SeqsOf
  <2> QED
    BY <2>1 DEF LayersRun
<1> DEFINE Sets == {i \in SeqsOf("reconcile-review-set") : led[i].cycle = NextCycle}
<1>11. ReviewSetStamp = Newest(Sets) /\ ReviewSetStamp' = Newest(Sets')
  BY DEF ReviewSetStamp, Newest
<1>12. Sets' = {i \in SeqsOf("reconcile-review-set")' : led'[i].cycle = NextCycle'}
  OBVIOUS
<1>13. x.e # "reconcile-review-set" => /\ CycleView'.up <=> CycleView.up
                                       /\ CycleView'.list = CycleView.list /\ CycleView'.kept = CycleView.kept
  <2> SUFFICES ASSUME x.e # "reconcile-review-set"
               PROVE  /\ CycleView'.up <=> CycleView.up
                      /\ CycleView'.list = CycleView.list /\ CycleView'.kept = CycleView.kept
    OBVIOUS
  <2>1. /\ SeqsOf("reconcile-review-set") \subseteq DOMAIN sh
        /\ SeqsOf("reconcile-review-set")' = Dest(sh, SeqsOf("reconcile-review-set"))
    BY <1>1, KindMoves
  <2>2. Sets \subseteq DOMAIN sh
    BY <2>1
  <2>3. Sets' = Dest(sh, Sets)
    BY <1>3, <1>4, <1>12, <2>1 DEF Dest
  <2> HIDE DEF Sets
  <2>4. ReviewSetStamp' > 0 <=> ReviewSetStamp > 0
    <3>1. CASE Sets = {}
      BY <1>6, <1>11, <2>2, <2>3, <3>1
    <3>2. CASE Sets # {}
      BY <1>5, <1>6, <1>11, <2>2, <2>3, <3>2
    <3> QED
      BY <3>1, <3>2
  <2>5. ReviewSetStamp > 0 => led'[ReviewSetStamp'] = led[ReviewSetStamp]
    <3> SUFFICES ASSUME ReviewSetStamp > 0 PROVE led'[ReviewSetStamp'] = led[ReviewSetStamp]
      OBVIOUS
    <3>1. Sets # {}
      BY <1>6, <1>11, <2>2
    <3> QED
      BY <1>4, <1>6, <1>11, <2>2, <2>3, <3>1
  <2> QED
    BY <2>4, <2>5, CycleViewIs, CycleViewIsNext
<1>14. x.e = "reconcile-review-set" /\ x.cycle = NextCycle
         => CycleView'.up /\ CycleView'.list = x.records /\ CycleView'.kept = x.kept
  <2> SUFFICES ASSUME x.e = "reconcile-review-set", x.cycle = NextCycle
               PROVE  CycleView'.up /\ CycleView'.list = x.records /\ CycleView'.kept = x.kept
    OBVIOUS
  <2>1. Len(led') \in Sets' /\ Sets' \subseteq 1..Len(led') /\ Len(led') \in Nat
    BY <1>2, <1>3, <1>4, <1>12 DEF SeqsOf, IsLedger
  <2> HIDE DEF Sets
  <2>2. PICK T : T = Sets'
    OBVIOUS
  <2>3. PICK n : n = Len(led')
    OBVIOUS
  <2>4. n \in T /\ T \subseteq 1..n /\ n \in Nat
    BY <2>1, <2>2, <2>3
  <2>5. Newest(T) \in T /\ \A i \in T : i <= Newest(T)
    BY <2>4, NewestIs
  <2>6. Newest(T) = n
    <3>1. PICK a : a = Newest(T) /\ a \in T /\ \A i \in T : i <= a
      BY <2>5
    <3>2. a = n
      <4>1. a \in Nat /\ a <= n /\ n <= a
        BY <2>4, <3>1
      <4> QED
        BY <2>4, <4>1
    <3> QED
      BY <3>1, <3>2
  <2>7. ReviewSetStamp' = n /\ n > 0
    BY <1>11, <2>2, <2>4, <2>6
  <2> QED
    BY <1>4, <2>3, <2>7, CycleViewIsNext
<1> QED
  BY <1>3, <1>7, <1>8, <1>9, <1>10, <1>13, <1>14

(* A render ends its cycle, and reads clean what it read and raised nothing  *)
(* about.                                                                    *)
ReadClean(x) == {r \in x.records \ x.unreviewed : ~\E y \in FindingsOf(x.open) : r \in About(y)}

LEMMA RenderMoves ==
  ASSUME IsLedger, Shapes, NEW x, Stamp(x), x.e = "reconcile-rendered", "nth" \in DOMAIN x, x.nth = NextCycle
  PROVE  /\ NextCycle' = NextCycle + 1 /\ Cardinality(Renders)' = NextCycle
         /\ ~CycleView'.layers /\ ~CycleView'.up
         /\ \A r \in Records : IF r \in ReadClean(x) THEN r \in CycleView'.green /\ CycleView'.text[r] = x.text[r]
                               ELSE /\ r \in CycleView'.green <=> r \in CycleView.green
                                    /\ CycleView'.text[r] = CycleView.text[r]
<1>1. PICK sh : Shifted(led, led', x, sh)
  BY StampShifts DEF IsLedger
<1>2. IsLedger'
  BY StampShifts DEF IsLedger
<1>3. /\ Len(led') \in DOMAIN led' /\ led'[Len(led')] = x
      /\ \A j \in DOMAIN led' : j \in Nat /\ j > 0 /\ j <= Len(led')
      /\ \A j \in DOMAIN led' : j = Len(led') \/ \E k \in DOMAIN sh : sh[k] = j
      /\ \A k \in DOMAIN sh : k \in DOMAIN led /\ sh[k] \in DOMAIN led' /\ sh[k] < Len(led') /\ led'[sh[k]] = led[k]
  BY <1>1, ShiftIs
<1>4. /\ IsFiniteSet(Renders) /\ Cardinality(Renders) \in Nat /\ NextCycle = Cardinality(Renders) + 1
  BY RendersAre DEF NextCycle
<1>5. Renders \subseteq DOMAIN sh
  <2> SUFFICES ASSUME NEW k \in Renders, k \notin DOMAIN sh PROVE FALSE
    OBVIOUS
  <2>1. k \in DOMAIN led /\ led[k].e = "reconcile-rendered"
    BY DEF Renders, SeqsOf
  <2>2. "nth" \in DOMAIN led[k] /\ led[k].nth \in Nat /\ led[k].nth <= Cardinality(Renders)
    BY <2>1 DEF Shapes, Shape
  <2>3. Key(led[k]) = Key(x)
    BY <1>1, <2>1 DEF Shifted
  <2>4. led[k].nth = x.nth
    BY <2>1, <2>2, <2>3 DEF Key
  <2> QED
    BY <1>4, <2>2, <2>4
<1>6. Renders' = Dest(sh, Renders) \cup {Len(led')}
  <2>1. Renders' = {i \in DOMAIN led' : led'[i].e = "reconcile-rendered"}
    BY DEF Renders, SeqsOf
  <2>2. \A k \in DOMAIN sh : sh[k] \in Renders' <=> k \in Renders
    BY <1>3, <2>1 DEF Renders, SeqsOf
  <2> QED
    BY <1>3, <1>5, <2>1, <2>2 DEF Dest
<1>7. Len(led') \notin Dest(sh, Renders)
  <2>1. \A k \in Renders : sh[k] \in Nat /\ sh[k] < Len(led') /\ Len(led') \in Nat
    BY <1>3, <1>5
  <2> QED
    BY <2>1 DEF Dest
<1>8. Cardinality(Renders') = NextCycle
  <2>1. IsFiniteSet(Dest(sh, Renders)) /\ Cardinality(Dest(sh, Renders)) = Cardinality(Renders)
    BY <1>1, <1>4, <1>5, DestCounts DEF IsLedger
  <2>2. PICK D, y : D = Dest(sh, Renders) /\ y = Len(led')
    OBVIOUS
  <2>3. Cardinality(D \cup {y}) = Cardinality(D) + 1
    <3>1. IsFiniteSet(D) /\ y \notin D
      BY <1>7, <2>1, <2>2
    <3> QED
      BY <3>1, FS_AddElement
  <2> QED
    BY <1>4, <1>6, <2>1, <2>2, <2>3
<1>9. NextCycle' = NextCycle + 1
  BY <1>8 DEF NextCycle
<1>10. ~CycleView'.layers
  <2> SUFFICES ASSUME LayersRun' PROVE FALSE
    BY CycleViewIsNext
  <2>1. PICK j \in SeqsOf("layer-result")' : led'[j].cycle = NextCycle'
    BY DEF LayersRun
  <2>2. j \in Dest(sh, SeqsOf("layer-result")) /\ SeqsOf("layer-result") \subseteq DOMAIN sh
    BY <1>1, KindMoves
  <2>3. PICK k \in SeqsOf("layer-result") : sh[k] = j /\ k \in DOMAIN sh
    BY <2>2 DEF Dest
  <2>4. led[k].cycle = NextCycle + 1 /\ k \in DOMAIN led /\ led[k].e = "layer-result"
    BY <1>3, <1>9, <2>1, <2>3 DEF SeqsOf
  <2>5. led[k].cycle \in Nat /\ led[k].cycle <= Cardinality(Renders) + 1
    BY <2>4 DEF Shapes, Shape
  <2> QED
    BY <1>4, <2>4, <2>5
<1>11. ~CycleView'.up
  <2> DEFINE Sets == {i \in SeqsOf("reconcile-review-set")' : led'[i].cycle = NextCycle'}
  <2>1. ReviewSetStamp' = Newest(Sets)
    BY DEF ReviewSetStamp, Newest
  <2>2. ASSUME NEW j \in Sets PROVE FALSE
    <3>1. j \in Dest(sh, SeqsOf("reconcile-review-set")) /\ SeqsOf("reconcile-review-set") \subseteq DOMAIN sh
      BY <1>1, KindMoves
    <3>2. PICK k \in SeqsOf("reconcile-review-set") : sh[k] = j /\ k \in DOMAIN sh
      BY <3>1 DEF Dest
    <3>3. led[k].cycle = NextCycle + 1 /\ k \in DOMAIN led /\ led[k].e = "reconcile-review-set"
      BY <1>3, <1>9, <3>2 DEF SeqsOf
    <3>4. led[k].cycle \in Nat /\ led[k].cycle <= Cardinality(Renders) + 1
      BY <3>3 DEF Shapes, Shape
    <3> QED
      BY <1>4, <3>3, <3>4
  <2>3. Sets = {} /\ Sets \subseteq 1..0 /\ 0 \in Nat
    BY <2>2
  <2> HIDE DEF Sets
  <2>4. Newest(Sets) = 0
    BY <2>3, NewestIs
  <2> QED
    BY <2>1, <2>4, CycleViewIsNext
<1>12. ASSUME NEW r \in Records
       PROVE  IF r \in ReadClean(x) THEN r \in CycleView'.green /\ CycleView'.text[r] = x.text[r]
              ELSE /\ r \in CycleView'.green <=> r \in CycleView.green
                   /\ CycleView'.text[r] = CycleView.text[r]
  <2> DEFINE S == Greens(r)
             T == Greens(r)'
  <2>1. T = {i \in Renders' : r \in led'[i].records \ led'[i].unreviewed /\ ~Against(r, i)'}
    BY DEF Greens
  <2>2. S = {i \in Renders : r \in led[i].records \ led[i].unreviewed /\ ~Against(r, i)}
    BY DEF Greens
  <2>3. \A k \in Renders : Against(r, sh[k])' <=> Against(r, k)
    BY <1>3, <1>5 DEF Against
  <2>4. \A n : n = Len(led') => (Against(r, n)' <=> \E y \in FindingsOf(x.open) : r \in About(y))
    BY <1>3 DEF Against
  <2>5. Len(led') \in T <=> r \in ReadClean(x)
    <3>1. PICK n : n = Len(led')
      OBVIOUS
    <3>2. n \in Renders' /\ led'[n] = x
      BY <1>3, <1>6, <3>1
    <3>3. Against(r, n)' <=> \E y \in FindingsOf(x.open) : r \in About(y)
      BY <2>4, <3>1
    <3>4. n \in T <=> r \in x.records \ x.unreviewed /\ ~Against(r, n)'
      BY <2>1, <3>2
    <3> QED
      BY <3>1, <3>3, <3>4 DEF ReadClean
  <2>6. \A k \in Renders : sh[k] \in T <=> k \in S
    BY <1>3, <1>5, <1>6, <2>1, <2>2, <2>3 DEF Dest
  <2>7. (r \in CycleView.green <=> S # {}) /\ CycleView.text[r] = IF S # {} THEN led[Newest(S)].text[r] ELSE 0
    BY CycleViewIs
  <2>8. (r \in CycleView'.green <=> T # {}) /\ CycleView'.text[r] = IF T # {} THEN led'[Newest(T)].text[r] ELSE 0
    BY CycleViewIsNext
  <2>9. S \subseteq Renders /\ T \subseteq Renders' /\ T \subseteq DOMAIN led' /\ DOMAIN led' = 1..Len(led') /\ Len(led') \in Nat
    BY <1>2, <2>1, <2>2 DEF Renders, SeqsOf, IsLedger
  <2> HIDE DEF S, T
  <2>10. CASE r \in ReadClean(x)
    <3>1. Newest(T) \in T /\ \A i \in T : i <= Newest(T)
      BY <2>5, <2>9, <2>10, NewestIs
    <3>2. Newest(T) = Len(led')
      <4> HIDE DEF Newest
      <4> QED
        BY <2>5, <2>9, <2>10, <3>1
    <3> QED
      BY <1>3, <2>5, <2>8, <2>10, <3>2
  <2>11. CASE r \notin ReadClean(x)
    <3>1. T = Dest(sh, S)
      <4>1. \A j \in T : \E k \in Renders : sh[k] = j
        BY <1>6, <2>5, <2>9, <2>11 DEF Dest
      <4> QED
        BY <2>6, <2>9, <4>1 DEF Dest
    <3>2. S \subseteq DOMAIN sh
      BY <1>5, <2>9
    <3>3. /\ S = {} => Newest(S) = 0 /\ Newest(T) = 0
          /\ S # {} => Newest(S) \in S /\ Newest(T) = sh[Newest(S)]
      BY <1>1, <3>1, <3>2, NewestMoves DEF IsLedger
    <3>4. T # {} <=> S # {}
      BY <3>1 DEF Dest
    <3>5. S # {} => led'[Newest(T)] = led[Newest(S)]
      BY <1>3, <3>2, <3>3
    <3> QED
      BY <2>7, <2>8, <2>11, <3>4, <3>5
  <2> QED
    BY <2>10, <2>11
<1> QED
  BY <1>8, <1>9, <1>10, <1>11, <1>12

---------------------------------------------------------------------------
(* The invariant of what a green render stands on.                           *)

RestPlaces == {"enter", "ask", "parked", "closed"}
ReadPlaces == {"cycle", "review-set", "review", "render"}
BirthPlaces == {"install", "reset", "dispatch", "out", "checks", "born", "failed"}
StagePlaces == InRound \cup ReadPlaces
                 \cup {"judge", "write", "correct", "count", "recheck", "rejudge", "stall", "fallback"}

(* The records a round goes over, where it stands.                           *)
RecordsOf(p) == IF p.pc \in {"round", "seat", "commit"} THEN p.records ELSE DOMAIN p.entries

(* What the handler has made sure of where it stands, given the ledger's     *)
(* readings v and c and whether the records are born.                        *)
PlaceFits(p, t, v, c, born) ==
  /\ p.pc \in {"write", "correct"} => Due(p.pc, v)
  /\ p.pc \in InRound => p.task \in {"write", "correct"} /\ Due(p.task, v) /\ SetSince(p.task, v) /\ RecordsOf(p) = v.set
  /\ p.pc \in {"round", "seat", "commit"} => "records" \in DOMAIN p
  /\ p.pc \in {"stamp", "written"} => {"entries", "rewritten"} \subseteq DOMAIN p
  /\ p.pc \in {"seat", "commit"} => RecordsOf(p) \cap StampedSince(p.task, v) = {}
  /\ p.pc \in {"stamp", "written"} => /\ p.rewritten \subseteq Records
                                      /\ \A r \in DOMAIN p.entries \cap StampedSince(p.task, v) : v.why[r] = p.entries[r]
  /\ p.pc = "written" => DOMAIN p.entries \subseteq StampedSince(p.task, v)
  /\ p.pc = "count" => v.stale
  /\ p.pc \in ReadPlaces => CycleDue(v) /\ t.mode # "advisory"
  /\ p.pc \in {"review-set", "review", "render"} => c.layers
  /\ p.pc \in {"review", "render"} => c.up
  /\ p.pc = "render" => p.read = {} \/ p.read = c.list
  /\ p.pc = "left" => ~CorrectDue(v)
  /\ p.pc = "judge" => ~v.judged
  /\ p.pc = "rejudge" => p.owed \subseteq Records /\ p.owed # {}
  /\ p.pc = "born" => p.paths \subseteq Records
  /\ p.pc \in BirthPlaces => ~v.judged
  /\ p.pc \in StagePlaces => born
  /\ c.up => p.pc \in RestPlaces \cup ReadPlaces

(* A set that a review stands on is of the cycle that is due.                *)
LedgerFits(t, v, c, born) ==
  /\ v.judged => born
  /\ v.rendered => t.mode # "advisory"
  /\ c.up => c.layers /\ born /\ CycleDue(v) /\ t.mode # "advisory"

TreeTyped(t, h) == /\ t.window \subseteq Records /\ t.dirty \subseteq Records /\ t.body \subseteq Records
                   /\ DOMAIN t.text = Records /\ DOMAIN h.clean = Records
CleanReads(c, h) == \A r \in Records : r \in c.green => h.clean[r] = c.text[r]
KeptStands(c, t, h) == c.up => c.kept \subseteq Records /\ \A r \in c.kept : h.clean[r] = t.text[r]

EarnInv ==
  /\ Keyed /\ Shapes /\ TreeTyped(tree, hist)
  /\ AnswerLedger(View, Rounds, tree.closed)
  /\ LedgerFits(tree, View, CycleView, HasBirth)
  /\ CleanReads(CycleView, hist) /\ KeptStands(CycleView, tree, hist)
  /\ PlaceFits(at, tree, View, CycleView, HasBirth)

SameCycle(c, d) == /\ (d.layers <=> c.layers) /\ (d.up <=> c.up) /\ d.list = c.list /\ d.kept = c.kept
                   /\ d.green = c.green /\ \A r \in Records : d.text[r] = c.text[r]

LEMMA RestFits ==
  ASSUME NEW p, NEW t, NEW v, NEW c, NEW born, p.pc \in RestPlaces
  PROVE  PlaceFits(p, t, v, c, born)
BY DEF PlaceFits, RestPlaces, ReadPlaces, BirthPlaces, StagePlaces, InRound

LEMMA SameFits ==
  ASSUME NEW v, NEW w, NEW c, NEW d, NEW b1, NEW b2, NEW t, NEW t2, SameView(v, w), SameCycle(c, d), b1 => b2, t2.mode = t.mode
  PROVE  /\ \A p : PlaceFits(p, t2, v, c, b1) => PlaceFits(p, t2, w, d, b2)
         /\ LedgerFits(t, v, c, b1) => LedgerFits(t2, w, d, b2)
<1>1. /\ WriteDue(w) <=> WriteDue(v)
      /\ CorrectDue(w) <=> CorrectDue(v)
      /\ CycleDue(w) <=> CycleDue(v)
  BY DEF SameView, WriteDue, Anchored, CorrectDue, CycleDue
<1>2. \A task : /\ Due(task, w) <=> Due(task, v)
                /\ SetSince(task, w) <=> SetSince(task, v)
                /\ StampedSince(task, w) = StampedSince(task, v)
  BY <1>1 DEF SameView, Due, SetSince, StampedSince
<1>3. /\ w.set = v.set /\ w.why = v.why /\ (w.stale <=> v.stale) /\ (w.judged <=> v.judged) /\ (w.rendered <=> v.rendered)
      /\ (d.layers <=> c.layers) /\ (d.up <=> c.up) /\ d.list = c.list
  BY DEF SameView, SameCycle
<1>4. LedgerFits(t, v, c, b1) => LedgerFits(t2, w, d, b2)
  BY <1>1, <1>3 DEF LedgerFits
<1>5. ASSUME NEW p, PlaceFits(p, t2, v, c, b1) PROVE PlaceFits(p, t2, w, d, b2)
  BY <1>1, <1>2, <1>3, <1>5 DEF PlaceFits
<1> QED
  BY <1>4, <1>5

(* A step that moves nothing of what is read has to answer for its place.    *)
Quiet == /\ Keyed' /\ Shapes' /\ SameView(View, View') /\ SameCycle(CycleView, CycleView')
         /\ Rounds' = Rounds /\ (HasBirth => HasBirth')

LEMMA QuietStep ==
  ASSUME EarnInv, Quiet, TreeTyped(tree', hist'), tree.closed \subseteq tree'.closed, tree'.mode = tree.mode,
         hist'.clean = hist.clean, CycleView.up => tree'.text = tree.text,
         PlaceFits(at', tree', View, CycleView, HasBirth)
  PROVE  EarnInv'
<1>1. AnswerLedger(View', Rounds', tree'.closed)
  BY SameAnswers DEF EarnInv, Quiet
<1>2. PlaceFits(at', tree', View', CycleView', HasBirth') /\ LedgerFits(tree', View', CycleView', HasBirth')
  BY SameFits DEF EarnInv, Quiet
<1>3. CleanReads(CycleView', hist') /\ KeptStands(CycleView', tree', hist')
  BY DEF EarnInv, Quiet, SameCycle, CleanReads, KeptStands
<1>4. Keyed' /\ Shapes'
  BY DEF Quiet
<1> QED
  BY <1>1, <1>2, <1>3, <1>4 DEF EarnInv

LEMMA UnstampedIsQuiet ==
  ASSUME EarnInv, UNCHANGED led
  PROVE  Quiet
<1>1. View' = View
  BY ViewRests
<1>2. Keyed' /\ Shapes'
  BY DEF EarnInv, Keyed, Shapes, Renders, SeqsOf
<1>3. /\ Renders' = Renders /\ NextCycle' = NextCycle
  BY DEF Renders, SeqsOf, NextCycle
<1>4. LayersRun' <=> LayersRun
  BY <1>3 DEF LayersRun, SeqsOf
<1>5. ReviewSetStamp' = ReviewSetStamp
  BY <1>3 DEF ReviewSetStamp, SeqsOf, Newest
<1>6. \A r : Greens(r)' = Greens(r)
  BY <1>3 DEF Greens, Against
<1>7. SameCycle(CycleView, CycleView')
  <2>1. \A r \in Records : CycleView'.text[r] = CycleView.text[r]
    BY <1>6, CycleViewIs, CycleViewIsNext
  <2> QED
    BY <1>4, <1>5, <1>6, <2>1, CycleViewIs, CycleViewIsNext DEF SameCycle
<1>8. Rounds' = Rounds /\ (HasBirth => HasBirth')
  BY DEF Rounds, HasBirth, Judged, Newest, SeqsOf
<1> QED
  BY <1>1, <1>2, <1>7, <1>8 DEF Quiet, SameView

LEMMA ShapesStay ==
  ASSUME IsLedger, Shapes, NEW x, Stamp(x), NEW n \in Nat, n = Cardinality(Renders)', Cardinality(Renders) <= n, Shape(x, n)
  PROVE  Shapes'
<1>1. \A y \in Range(led') : y = x \/ y \in Range(led)
  BY StampShifts DEF IsLedger
<1>2. Cardinality(Renders) \in Nat
  BY RendersAre
<1>3. PICK k \in Nat : k = Cardinality(Renders)
  BY <1>2
<1>4. ASSUME NEW y, Shape(y, k) PROVE Shape(y, n)
  <2>1. k <= n
    BY <1>3
  <2>2. y.e = "reconcile-rendered" => y.nth \in Nat /\ y.nth <= k
    BY <1>4 DEF Shape
  <2>3. y.e \in {"reconcile-review-set", "layer-result"} => y.cycle \in Nat /\ y.cycle <= k + 1
    BY <1>4 DEF Shape
  <2>4. y.e = "reconcile-rendered" => y.nth <= n
    BY <2>1, <2>2
  <2>5. y.e \in {"reconcile-review-set", "layer-result"} => y.cycle <= n + 1
    BY <2>1, <2>3
  <2> QED
    BY <1>4, <2>4, <2>5 DEF Shape
<1>5. \A y \in Range(led) : Shape(y, k)
  BY <1>3 DEF Shapes, Range
<1>6. \A y \in Range(led') : Shape(y, n)
  BY <1>1, <1>4, <1>5
<1>7. \A i \in DOMAIN led' : led'[i] \in Range(led')
  BY DEF Range
<1>8. \A i \in DOMAIN led' : Shape(led'[i], n)
  BY <1>6, <1>7
<1> QED
  BY <1>8 DEF Shapes

LEMMA SilentIsQuiet ==
  ASSUME RecordsInv, EarnInv, NEW x, Stamp(x), Silent(x), Mild(x) \/ x.e = "seat-spawned",
         x.e \notin {"reconcile-review-set", "layer-result"}
  PROVE  Quiet
<1>1. IsLedger /\ LedgerIsSound
  BY DEF RecordsInv, LedgerIsSound, IsLedger
<1>2. Keyed' /\ SameView(View, View')
  BY <1>1, KeyedStays, SilentStamps DEF EarnInv
<1>3. /\ Cardinality(Renders)' = Cardinality(Renders)
      /\ SameCycle(CycleView, CycleView')
  BY <1>1, CycleMoves DEF SameCycle, Silent
<1>4. Shapes'
  <2>1. Cardinality(Renders) \in Nat
    BY <1>1, RendersAre
  <2>2. \A n : Shape(x, n)
    BY DEF Shape, Silent, Unnumbered
  <2>3. PICK n \in Nat : n = Cardinality(Renders)
    BY <2>1
  <2> QED
    BY <1>1, <1>3, <2>2, <2>3, ShapesStay DEF EarnInv
<1>5. Rounds' = Rounds /\ (HasBirth => HasBirth')
  BY <1>1, StampKept, SpawnKeeps DEF LedgerKept
<1> QED
  BY <1>2, <1>3, <1>4, <1>5 DEF Quiet

(* The steps that stand still on the tree.                                   *)
LEMMA GoFits ==
  ASSUME EarnInv, NEW p, Go(p), PlaceFits(p, tree, View, CycleView, HasBirth), UNCHANGED tree, hist'.clean = hist.clean
  PROVE  EarnInv'
<1>1. Quiet
  BY UnstampedIsQuiet DEF Go
<1>2. TreeTyped(tree', hist')
  BY DEF EarnInv, TreeTyped
<1> QED
  BY <1>1, <1>2, QuietStep DEF Go

LEMMA StampFits ==
  ASSUME RecordsInv, EarnInv, NEW x, NEW p, StampAndGo(x, p), Silent(x), Mild(x) \/ x.e = "seat-spawned",
         x.e \notin {"reconcile-review-set", "layer-result"},
         PlaceFits(p, tree, View, CycleView, HasBirth), UNCHANGED tree, hist'.clean = hist.clean
  PROVE  EarnInv'
<1>1. Quiet /\ at' = p
  BY SilentIsQuiet DEF StampAndGo
<1>2. TreeTyped(tree', hist')
  BY DEF EarnInv, TreeTyped
<1> QED
  BY <1>1, <1>2, QuietStep

LEMMA EventIsSilent ==
  \A e, of, why :
     /\ Event(e, of, why).e = e /\ Event(e, of, why).of = of
     /\ e \in {"seat-spawned", "seat-failure", "records-entered", "gate-needs", "tree-refreshed", "reconcile-skipped", "reconcile-recheck",
               "reconcile-stall", "park", "answer", "repair-round"}
          => /\ Silent(Event(e, of, why)) /\ Event(e, of, why).e \notin {"reconcile-review-set", "layer-result"}
             /\ Mild(Event(e, of, why)) \/ Event(e, of, why).e = "seat-spawned"
BY DEF Event, Silent, Mild

LEMMA EventFits ==
  ASSUME RecordsInv, EarnInv, NEW e, NEW of, NEW why, NEW p, StampAndGo(Event(e, of, why), p),
         e \in {"seat-spawned", "seat-failure", "records-entered", "gate-needs", "tree-refreshed", "reconcile-skipped", "reconcile-recheck",
                "reconcile-stall", "park", "answer", "repair-round"},
         PlaceFits(p, tree, View, CycleView, HasBirth), UNCHANGED tree, hist'.clean = hist.clean
  PROVE  EarnInv'
<1>1. PICK x : x = Event(e, of, why)
  OBVIOUS
<1>2. Silent(x) /\ (Mild(x) \/ x.e = "seat-spawned") /\ x.e \notin {"reconcile-review-set", "layer-result"}
  BY <1>1, EventIsSilent
<1>3. StampAndGo(x, p)
  BY <1>1
<1> QED
  BY <1>2, <1>3, StampFits

---------------------------------------------------------------------------
(* The steps of the birth keep it.                                           *)

LEMMA BirthPlacesTell ==
  ASSUME EarnInv
  PROVE  /\ at.pc \in BirthPlaces \/ ~HasBirth => ~View.judged /\ ~CycleView.up
         /\ ~CycleView.up => \A p : p.pc \in BirthPlaces /\ ~View.judged /\ (p.pc = "born" => p.paths \subseteq Records)
                                       => PlaceFits(p, tree, View, CycleView, HasBirth)
<1>1. at.pc \in BirthPlaces \/ ~HasBirth => ~View.judged
  BY DEF EarnInv, PlaceFits, LedgerFits
<1>2. CycleView.up => View.judged
  BY DEF EarnInv, LedgerFits, CycleDue, Anchored
<1>3. ASSUME ~CycleView.up, NEW p, p.pc \in BirthPlaces, ~View.judged, p.pc = "born" => p.paths \subseteq Records
      PROVE  PlaceFits(p, tree, View, CycleView, HasBirth)
  BY <1>3 DEF PlaceFits, BirthPlaces, StagePlaces, ReadPlaces, InRound
<1> QED
  BY <1>1, <1>2, <1>3

LEMMA BirthStampFits ==
  ASSUME RecordsInv, EarnInv, NEW of, NEW paths \in SUBSET Records, Stamp(RecordsCommitted(of, paths)), ~View.judged,
         at'.pc = "enter", UNCHANGED <<tree, hist>>
  PROVE  EarnInv'
<1> DEFINE x == RecordsCommitted(of, paths)
<1>1. x.e = "records-committed" /\ x.paths = paths /\ Mild(x)
  BY DEF RecordsCommitted, Mild
<1>2. IsLedger /\ LedgerIsSound
  BY DEF RecordsInv, LedgerIsSound, IsLedger
<1> HIDE DEF x
<1>3. Stamp(x)
  BY DEF x
<1>4. /\ JudgedReading(x, View, View') /\ WrittenReading(x, View, View')
      /\ RenderedReading(x, View, View') /\ SetReading(x, View, View') /\ StampReading(x, View, View')
  BY <1>1, <1>2, <1>3, ViewMoves DEF EarnInv
<1>5. AnswerLedger(View', Rounds, tree.closed) /\ ~View'.judged
  BY <1>1, <1>4, BirthIsFirst DEF EarnInv
<1>6. Keyed' /\ Rounds' = Rounds
  BY <1>1, <1>2, <1>3, KeyedStays, StampKept DEF EarnInv, LedgerKept
<1>7. SameCycle(CycleView, CycleView') /\ Cardinality(Renders)' = Cardinality(Renders)
  BY <1>1, <1>2, <1>3, CycleMoves DEF SameCycle
<1>8. Shapes'
  <2>1. PICK n \in Nat : n = Cardinality(Renders)
    BY <1>2, RendersAre
  <2>2. Shape(x, n)
    BY <1>1 DEF Shape, Unnumbered
  <2> QED
    BY <1>2, <1>3, <1>7, <2>1, <2>2, ShapesStay DEF EarnInv
<1>9. ~CycleView.up
  BY DEF EarnInv, LedgerFits, CycleDue, Anchored
<1>10. LedgerFits(tree', View', CycleView', HasBirth')
  <2>1. View'.rendered <=> View.rendered
    BY <1>1, <1>4 DEF RenderedReading
  <2> QED
    BY <1>5, <1>7, <1>9, <2>1 DEF LedgerFits, SameCycle, EarnInv
<1>11. CleanReads(CycleView', hist') /\ KeptStands(CycleView', tree', hist')
  BY <1>7, <1>9 DEF EarnInv, SameCycle, CleanReads, KeptStands
<1>12. PlaceFits(at', tree', View', CycleView', HasBirth')
  BY RestFits DEF RestPlaces
<1>13. TreeTyped(tree', hist')
  BY DEF EarnInv
<1> QED
  BY <1>5, <1>6, <1>8, <1>10, <1>11, <1>12, <1>13 DEF EarnInv

LEMMA RestingPlaces ==
  /\ Pc("enter").pc = "enter" /\ \A pc : Pc(pc).pc = pc
  /\ \A type, why : Ask(type, why).pc \in RestPlaces /\ Recover(type, why).pc \in RestPlaces
  /\ \A who : SeatFail(who).pc \in RestPlaces
  /\ \A reason : Blocked(reason).pc \in RestPlaces /\ CommandError(reason).pc \in RestPlaces
BY DEF Pc, Ask, Recover, SeatFail, Blocked, CommandError, RestPlaces

LEMMA BirthFits ==
  ASSUME RecordsInv, EarnInv, BirthStep, UNCHANGED hist
  PROVE  EarnInv'
<1> USE DEF Enters
<1>0. /\ IsLedger /\ "pc" \in DOMAIN at /\ (Committed > 0 <=> HasBirth)
  BY BirthIs DEF RecordsInv, LedgerIsSound, IsLedger, PlaceIsSound
<1>1. CASE Readiness
  <2>1. at.pc = "enter" /\ UNCHANGED <<tree, hist>>
        /\ (StampAndGo(Event("records-entered", "", ""), at) \/ \E reason : Go(Blocked(reason)))
    BY <1>1 DEF Readiness
  <2>2. CASE StampAndGo(Event("records-entered", "", ""), at)
    <3>1. PlaceFits(at, tree, View, CycleView, HasBirth)
      BY DEF EarnInv
    <3> QED
      BY <2>1, <2>2, <3>1, EventFits
  <2>3. CASE \E reason : Go(Blocked(reason))
    <3>1. PICK reason : Go(Blocked(reason))
      BY <2>3
    <3> QED
      BY <2>1, <3>1, RestingPlaces, RestFits, GoFits
  <2> QED
    BY <2>1, <2>2, <2>3
<1>2. CASE BirthRecords
  <2>1. at.pc = "enter" /\ UNCHANGED <<tree, hist>> /\ ~HasBirth
    BY <1>0, <1>2 DEF BirthRecords, RecordsStep
  <2>2. ~View.judged /\ ~CycleView.up
    BY <2>1, BirthPlacesTell
  <2>3. CASE Records = {}
    <3>1. Stamp(RecordsCommitted("none", {})) /\ at' = at
      BY <1>2, <2>3 DEF BirthRecords, StampAndGo
    <3> QED
      BY <2>1, <2>2, <3>1, BirthStampFits
  <2>4. CASE Records # {}
    <3>1. PICK pc \in {"checks", "install"} : Go(Pc(pc))
      BY <1>2, <2>4 DEF BirthRecords
    <3>2. Pc(pc).pc \in BirthPlaces /\ Pc(pc).pc # "born"
      BY RestingPlaces DEF BirthPlaces
    <3> QED
      BY <2>1, <2>2, <3>1, <3>2, BirthPlacesTell, GoFits
  <2> QED
    BY <2>3, <2>4
<1>3. CASE InstallGateNeeds
  <2>1. at.pc = "install" /\ UNCHANGED <<tree, hist>>
        /\ (Go(Pc("reset")) \/ StampAndGo(Event("gate-needs", "", ""), Pc("reset")) \/ Go(CommandError("gate-command")))
    BY <1>3 DEF InstallGateNeeds
  <2>2. ~View.judged /\ ~CycleView.up
    BY <2>1, BirthPlacesTell DEF BirthPlaces
  <2>3. PlaceFits(Pc("reset"), tree, View, CycleView, HasBirth)
    BY <2>2, RestingPlaces, BirthPlacesTell DEF BirthPlaces
  <2>4. PlaceFits(CommandError("gate-command"), tree, View, CycleView, HasBirth)
    BY RestingPlaces, RestFits
  <2> QED
    BY <2>1, <2>3, <2>4, GoFits, EventFits
<1>4. CASE ResetTree
  <2>1. at.pc = "reset" /\ tree' = [tree EXCEPT !.dirty = {}] /\ Go(Seat(Author)) /\ UNCHANGED hist
    BY <1>4 DEF ResetTree
  <2>2. ~View.judged /\ ~CycleView.up
    BY <2>1, BirthPlacesTell DEF BirthPlaces
  <2>3. Seat(Author).pc = "dispatch"
    BY DEF Seat, SeatFor
  <2>4. PlaceFits(Seat(Author), tree, View, CycleView, HasBirth)
    BY <2>2, <2>3, BirthPlacesTell DEF BirthPlaces
  <2>5. PlaceFits(at', tree', View, CycleView, HasBirth)
    BY <2>1, <2>4 DEF PlaceFits, Go
  <2>6. TreeTyped(tree', hist') /\ tree'.closed = tree.closed /\ tree'.mode = tree.mode
    BY <2>1 DEF EarnInv, TreeTyped, RecordsInv, Fields
  <2>7. Quiet
    BY <2>1, UnstampedIsQuiet DEF Go
  <2> QED
    BY <2>1, <2>2, <2>5, <2>6, <2>7, QuietStep
<1>5. CASE AuthorReports \/ AuthorFails
  <2>1. at.pc = "out" /\ UNCHANGED hist
    BY <1>5 DEF AuthorReports, AuthorFails, AuthorAtWork
  <2>2. ~View.judged /\ ~CycleView.up
    BY <2>1, BirthPlacesTell DEF BirthPlaces
  <2>3. PICK wrote \in SUBSET Records : tree' = [tree EXCEPT !.dirty = wrote]
    BY <1>5 DEF AuthorReports, AuthorFails
  <2>4. \E x, p : /\ StampAndGo(x, p) /\ Silent(x) /\ Mild(x) /\ x.e \notin {"reconcile-review-set", "layer-result"}
                  /\ p.pc \in RestPlaces \cup {"checks", "failed"}
    <3>1. CASE AuthorReports
      <4>1. PICK named : StampAndGo([e |-> "seat-report", of |-> Author, why |-> "", names |-> named], Pc("checks"))
        BY <3>1 DEF AuthorReports
      <4>2. PICK x : x = [e |-> "seat-report", of |-> Author, why |-> "", names |-> named]
        OBVIOUS
      <4>3. Silent(x) /\ Mild(x) /\ x.e \notin {"reconcile-review-set", "layer-result"}
        BY <4>2 DEF Silent, Mild
      <4> QED
        BY <4>1, <4>2, <4>3, RestingPlaces
    <3>2. CASE AuthorFails
      <4>1. \E p : StampAndGo(Event("seat-failure", Author, "no-report"), p) /\ p.pc \in RestPlaces \cup {"failed"}
        <5>1. at.seat = Author
          BY <3>2 DEF AuthorFails, AuthorAtWork
        <5> QED
          BY <3>2, <5>1, RestingPlaces DEF AuthorFails, NoReport
      <4>2. PICK x : x = Event("seat-failure", Author, "no-report")
        OBVIOUS
      <4>3. Silent(x) /\ Mild(x) /\ x.e \notin {"reconcile-review-set", "layer-result"}
        BY <4>2 DEF Event, Silent, Mild
      <4> QED
        BY <4>1, <4>2, <4>3
    <3> QED
      BY <1>5, <3>1, <3>2
  <2>5. PICK x, p : /\ StampAndGo(x, p) /\ Silent(x) /\ Mild(x) /\ x.e \notin {"reconcile-review-set", "layer-result"}
                    /\ p.pc \in RestPlaces \cup {"checks", "failed"}
    BY <2>4
  <2>6. Quiet /\ at' = p
    BY <2>5, SilentIsQuiet DEF StampAndGo
  <2>7. PlaceFits(p, tree, View, CycleView, HasBirth)
    <3>1. CASE p.pc \in RestPlaces
      BY <3>1, RestFits
    <3>2. CASE p.pc \in {"checks", "failed"}
      BY <2>2, <3>2, BirthPlacesTell DEF BirthPlaces
    <3> QED
      BY <2>5, <3>1, <3>2
  <2>8. TreeTyped(tree', hist') /\ tree'.closed = tree.closed /\ tree'.mode = tree.mode
    BY <2>1, <2>3 DEF EarnInv, TreeTyped, RecordsInv, Fields
  <2>9. PlaceFits(at', tree', View, CycleView, HasBirth)
    BY <2>6, <2>7, <2>8 DEF PlaceFits
  <2> QED
    BY <2>1, <2>2, <2>6, <2>8, <2>9, QuietStep
<1>6. CASE BirthFailed
  <2>1. at.pc = "failed" /\ Stamp(RecordsCommitted("failed", {})) /\ at'.pc = "enter" /\ UNCHANGED <<tree, hist>>
    BY <1>6, RestingPlaces DEF BirthFailed, StampAndGo
  <2> QED
    BY <2>1, BirthPlacesTell, BirthStampFits DEF BirthPlaces
<1>7. CASE CommitRecords
  <2>1. /\ at.pc = "checks" /\ UNCHANGED hist
        /\ tree' = [tree EXCEPT !.dirty = {}, !.window = @ \union tree.dirty,
                                !.text = [r \in Records |-> IF r \in tree.dirty THEN tree.text[r] + 1 ELSE tree.text[r]]]
        /\ Go([pc |-> "born", paths |-> Named(LastReport(Author)) \union tree.dirty])
    BY <1>7 DEF CommitRecords
  <2>2. ~View.judged /\ ~CycleView.up
    BY <2>1, BirthPlacesTell DEF BirthPlaces
  <2>3. PICK p : p = [pc |-> "born", paths |-> Named(LastReport(Author)) \union tree.dirty]
    OBVIOUS
  <2>4. p.pc = "born" /\ p.paths \subseteq Records
    BY <2>3 DEF Named, EarnInv, TreeTyped
  <2>5. TreeTyped(tree', hist') /\ tree'.closed = tree.closed /\ tree'.mode = tree.mode
    BY <2>1 DEF EarnInv, TreeTyped, RecordsInv, Fields
  <2>6. PlaceFits(p, tree, View, CycleView, HasBirth)
    BY <2>2, <2>4, BirthPlacesTell DEF BirthPlaces
  <2>7. PlaceFits(at', tree', View, CycleView, HasBirth)
    BY <2>1, <2>3, <2>5, <2>6 DEF PlaceFits, Go
  <2>8. Quiet
    BY <2>1, UnstampedIsQuiet DEF Go
  <2> QED
    BY <2>1, <2>2, <2>5, <2>7, <2>8, QuietStep
<1>8. CASE StampBorn
  <2>1. at.pc = "born" /\ Stamp(RecordsCommitted("", at.paths)) /\ at'.pc = "enter" /\ UNCHANGED <<tree, hist>>
    BY <1>8, RestingPlaces DEF StampBorn, StampAndGo
  <2>2. at.paths \in SUBSET Records
    BY <2>1 DEF EarnInv, PlaceFits
  <2> QED
    BY <2>1, <2>2, BirthPlacesTell, BirthStampFits DEF BirthPlaces
<1>9. CASE CloseNothingBorn
  BY <1>9, RestingPlaces, RestFits, GoFits DEF CloseNothingBorn, RestPlaces
<1>10. CASE RefreshForRetry /\ UNCHANGED tree
  <2>1. StampAndGo(Event("tree-refreshed", "", ""), at) /\ UNCHANGED <<tree, hist>>
    BY <1>10 DEF RefreshForRetry
  <2>2. PlaceFits(at, tree, View, CycleView, HasBirth)
    BY DEF EarnInv
  <2> QED
    BY <2>1, <2>2, EventFits
<1>11. CASE at.pc = "dispatch" /\ Dispatch /\ UNCHANGED tree
  <2>1. ~View.judged /\ ~CycleView.up
    BY <1>11, BirthPlacesTell DEF BirthPlaces
  <2>2. PICK p : p = [at EXCEPT !.pc = "out"]
    OBVIOUS
  <2>3. p.pc = "out"
    BY <1>0, <2>2
  <2>4. PlaceFits(p, tree, View, CycleView, HasBirth)
    BY <2>1, <2>3, BirthPlacesTell DEF BirthPlaces
  <2>5. StampAndGo(Event("seat-spawned", at.seat, ""), p) \/ Go(p)
    BY <1>11, <2>2 DEF Dispatch
  <2> QED
    BY <1>11, <2>4, <2>5, EventFits, GoFits
<1> QED
  BY <1>1, <1>2, <1>3, <1>4, <1>5, <1>6, <1>7, <1>8, <1>9, <1>10, <1>11 DEF BirthStep

---------------------------------------------------------------------------
(* The steps of the reconcile stage keep it.                                 *)

Bundle(x, v, w) ==
  /\ JudgedReading(x, v, w) /\ WrittenReading(x, v, w) /\ RenderedReading(x, v, w)
  /\ RerunReading(x, w) /\ SetReading(x, v, w) /\ StampReading(x, v, w)

LEMMA StampFrame ==
  ASSUME RecordsInv, EarnInv, NEW x, Stamp(x), x.e # "reconcile-rendered", Shape(x, Cardinality(Renders))
  PROVE  /\ Keyed' /\ Shapes' /\ Bundle(x, View, View') /\ (HasBirth => HasBirth')
         /\ x.e \notin {"layer-result", "reconcile-review-set"} => SameCycle(CycleView, CycleView')
<1>1. IsLedger
  BY DEF RecordsInv, LedgerIsSound, IsLedger
<1>2. Shape(x, 0) \/ x.e # "record-written"
  BY DEF Shape
<1>3. Keyed' /\ Bundle(x, View, View')
  BY <1>1, <1>2, KeyedStays, ViewMoves DEF EarnInv, Bundle
<1>4. Shapes'
  <2>1. PICK n \in Nat : n = Cardinality(Renders)
    BY <1>1, RendersAre
  <2>2. Cardinality(Renders)' = n
    BY <1>1, <2>1, CycleMoves
  <2> QED
    BY <1>1, <2>1, <2>2, ShapesStay DEF EarnInv
<1>5. HasBirth => HasBirth'
  <2>1. PICK sh : Shifted(led, led', x, sh)
    BY <1>1, StampShifts DEF IsLedger
  <2>2. CASE x.e = "records-committed"
    <3>1. Len(led') \in DOMAIN led' /\ led'[Len(led')] = x
      BY <2>1, ShiftIs
    <3> QED
      BY <2>2, <3>1 DEF HasBirth, SeqsOf
  <2>3. CASE x.e # "records-committed"
    BY <2>1, <2>3, KindMoves DEF HasBirth, Dest
  <2> QED
    BY <2>2, <2>3
<1>6. x.e \notin {"layer-result", "reconcile-review-set"} => SameCycle(CycleView, CycleView')
  BY <1>1, CycleMoves DEF SameCycle
<1> QED
  BY <1>3, <1>4, <1>5, <1>6

(* What the shapes say of what is read.                                      *)
LEMMA ReadingsTyped ==
  ASSUME IsLedger, Shapes
  PROVE  /\ Judged \in 0..Len(led) /\ Written \in 0..Len(led) /\ LastRendered \in 0..Len(led) /\ Committed \in 0..Len(led)
         /\ SetStamp \in 0..Len(led) /\ RerunAsked \in 0..Len(led) /\ \A r : NewestStamp(r) \in 0..Len(led)
         /\ Judged > 0 => led[Judged].e = "reconciliation-judged" /\ Owed \subseteq Records
         /\ Written > 0 => led[Written].e = "reconciliation-written"
         /\ View.owed \subseteq Records /\ Born \subseteq Records /\ ReviewedRecords \subseteq Records
         /\ SetStamp > 0 => SetStamp \in SeqsOf("reconcile-write-set")
         /\ View.set \subseteq Records
<1>1. Len(led) \in Nat /\ DOMAIN led = 1..Len(led)
  BY DEF IsLedger
<1>2. ASSUME NEW S, S \subseteq 1..Len(led)
      PROVE  Newest(S) \in 0..Len(led) /\ (Newest(S) > 0 => Newest(S) \in S)
  <2>1. /\ S = {} => Newest(S) = 0
        /\ S # {} => Newest(S) \in S
        /\ Newest(S) \in 0..Len(led)
    BY <1>1, <1>2, NewestIs
  <2> HIDE DEF Newest
  <2> QED
    BY <2>1
<1>3. /\ \A e : SeqsOf(e) \subseteq 1..Len(led)
      /\ \A e, of : Seqs(e, of) \subseteq 1..Len(led)
  BY <1>1 DEF SeqsOf, Seqs
<1>4. /\ Judged \in 0..Len(led) /\ Written \in 0..Len(led) /\ LastRendered \in 0..Len(led) /\ Committed \in 0..Len(led)
      /\ SetStamp \in 0..Len(led) /\ RerunAsked \in 0..Len(led) /\ \A r : NewestStamp(r) \in 0..Len(led)
  BY <1>2, <1>3 DEF Judged, Written, LastRendered, Renders, Committed, SetStamp, RerunAsked, NewestStamp
<1>5. /\ Judged > 0 => Judged \in SeqsOf("reconciliation-judged")
      /\ Written > 0 => Written \in SeqsOf("reconciliation-written")
      /\ Committed > 0 => Committed \in SeqsOf("records-committed")
      /\ SetStamp > 0 => SetStamp \in SeqsOf("reconcile-write-set")
  BY <1>2, <1>3 DEF Judged, Written, Committed, SetStamp
<1>6. Judged > 0 => led[Judged].e = "reconciliation-judged" /\ Owed \subseteq Records
  BY <1>5 DEF SeqsOf, Shapes, Shape, Owed
<1>7. Born \subseteq Records
  <2>1. Committed # 0 => Committed > 0
    BY <1>4
  <2> QED
    BY <1>5, <2>1 DEF SeqsOf, Shapes, Shape, Born
<1>8. ReviewedRecords \subseteq Records
  <2>1. CASE Written = 0
    BY <1>7, <2>1 DEF ReviewedRecords, CycleAnchor, BirthAnchor
  <2>2. CASE Written # 0
    <3>1. Written \in DOMAIN led /\ led[Written].e = "reconciliation-written"
      BY <1>4, <1>5, <2>2 DEF SeqsOf
    <3>2. led[Written].rewritten \subseteq Records /\ DOMAIN led[Written].entries \subseteq Records
      BY <3>1 DEF Shapes, Shape
    <3> QED
      BY <1>7, <2>2, <3>2 DEF ReviewedRecords, CycleAnchor
  <2> QED
    BY <2>1, <2>2
<1>9. View.owed \subseteq Records
  BY <1>6 DEF View
<1>10. View.set \subseteq Records
  BY <1>5 DEF View, SeqsOf, Shapes, Shape
<1> QED
  BY <1>4, <1>5, <1>6, <1>7, <1>8, <1>9, <1>10 DEF SeqsOf

(* The stage takes the step that the readings call for.                      *)
LEMMA StepIs ==
  /\ ReconcileStep \in {"judge", "write", "done", "cycle", "recheck", "stall", "correct"}
  /\ ReconcileStep = "judge" /\ IsLedger /\ Shapes => ~View.judged
  /\ ReconcileStep = "write" => WriteDue(View)
  /\ ReconcileStep = "cycle" /\ IsLedger /\ Shapes => CycleDue(View)
  /\ ReconcileStep = "correct" /\ IsLedger /\ Shapes => CorrectDue(View)
  /\ ReconcileStep = "done" => ~CorrectDue(View)
  /\ CycleDue(View) /\ IsLedger /\ Shapes => ReconcileStep = "cycle"
<1>1. ViewSays /\ (View.ok <=> CycleAnchor.ok) /\ View.open = Open /\ (Judged > 0 => View.owed = Owed)
  BY ViewIs DEF View
<1>2. /\ View.judged <=> Judged > 0
      /\ View.owes <=> Written < Judged
      /\ View.rendered <=> LastRendered > 0
      /\ View.stale <=> LastRendered < Written
      /\ View.rerun <=> RerunAsked > LastRendered
  BY <1>1 DEF ViewSays
<1>3. IsLedger /\ Shapes => Judged \in Nat /\ LastRendered \in Nat
  BY ReadingsTyped
<1>4. ReconcileStep \in {"judge", "write", "done", "cycle", "recheck", "stall", "correct"}
  BY DEF ReconcileStep
<1>5. ReconcileStep = "judge" /\ IsLedger /\ Shapes => ~View.judged
  BY <1>2, <1>3 DEF ReconcileStep
<1>6. ReconcileStep = "write" => WriteDue(View)
  BY <1>1, <1>2 DEF ReconcileStep, WriteDue
<1>7. ReconcileStep = "cycle" /\ IsLedger /\ Shapes => CycleDue(View)
  BY <1>1, <1>2, <1>3 DEF ReconcileStep, CycleDue, Anchored, WriteDue
<1>8. ReconcileStep = "correct" /\ IsLedger /\ Shapes => CorrectDue(View)
  BY <1>1, <1>2, <1>3 DEF ReconcileStep, CorrectDue, Anchored, WriteDue
<1>9. ReconcileStep = "done" => ~CorrectDue(View)
  BY <1>1, <1>2 DEF ReconcileStep, CorrectDue, Anchored, WriteDue
<1>10. CycleDue(View) /\ IsLedger /\ Shapes => ReconcileStep = "cycle"
  BY <1>1, <1>2, <1>3 DEF ReconcileStep, CycleDue, Anchored, WriteDue
<1> QED
  BY <1>4, <1>5, <1>6, <1>7, <1>8, <1>9, <1>10

LEMMA TakeFits ==
  ASSUME RecordsInv, EarnInv, TakeStep \/ AdvisoryStep
  PROVE  EarnInv'
<1>1. /\ at.pc = "enter" /\ UNCHANGED <<tree, hist>> /\ HasBirth /\ IsLedger
  BY BirthIs DEF TakeStep, AdvisoryStep, EntersStage, Enters, Do, DoStamp, Stay, RecordsInv, LedgerIsSound, IsLedger
<1>2. CASE TakeStep
  <2>1. PICK step : step = ReconcileStep
    OBVIOUS
  <2>2. tree.mode # "advisory" /\ Go(Pc(IF step = "done" THEN "left" ELSE step))
    BY <1>2, <2>1 DEF TakeStep, Do
  <2>3. /\ step \in {"judge", "write", "done", "cycle", "recheck", "stall", "correct"}
        /\ step = "judge" => ~View.judged
        /\ step = "write" => WriteDue(View)
        /\ step = "cycle" => CycleDue(View)
        /\ step = "correct" => CorrectDue(View)
        /\ step = "done" => ~CorrectDue(View)
        /\ CycleDue(View) => step = "cycle"
    BY <1>1, <2>1, StepIs DEF EarnInv
  <2>4. CycleView.up => CycleDue(View)
    BY DEF EarnInv, LedgerFits
  <2>5. PICK p : p = Pc(IF step = "done" THEN "left" ELSE step)
    OBVIOUS
  <2>6. p.pc = IF step = "done" THEN "left" ELSE step
    BY <2>5, RestingPlaces
  <2>7. PlaceFits(p, tree, View, CycleView, HasBirth)
    BY <1>1, <2>2, <2>3, <2>4, <2>6 DEF PlaceFits, InRound, ReadPlaces, RestPlaces, BirthPlaces, StagePlaces, Due
  <2> QED
    BY <1>1, <2>2, <2>5, <2>7, GoFits
<1>3. CASE AdvisoryStep
  <2>1. tree.mode = "advisory"
        /\ (Go(Pc("left")) \/ StampAndGo(Event("reconcile-skipped", "", ""), Pc("left")) \/ Go(CommandError("gate-command")))
    BY <1>3 DEF AdvisoryStep, Do, DoStamp
  <2>2. ~CorrectDue(View) /\ ~CycleView.up
    BY <2>1 DEF EarnInv, LedgerFits, CorrectDue
  <2>3. PlaceFits(Pc("left"), tree, View, CycleView, HasBirth)
    <3>1. PICK p : p = Pc("left") /\ p.pc = "left"
      BY RestingPlaces
    <3>2. PlaceFits(p, tree, View, CycleView, HasBirth)
      BY <2>2, <3>1 DEF PlaceFits, InRound, ReadPlaces, BirthPlaces, StagePlaces
    <3> QED
      BY <3>1, <3>2
  <2>4. PlaceFits(CommandError("gate-command"), tree, View, CycleView, HasBirth)
    BY RestingPlaces, RestFits
  <2> QED
    BY <1>1, <2>1, <2>3, <2>4, GoFits, EventFits
<1> QED
  BY <1>2, <1>3

LEMMA JudgeFits ==
  ASSUME RecordsInv, EarnInv, NEW owed \in SUBSET Records, Judge(owed), ~View.judged \/ owed # {}, at.pc \in {"judge", "rejudge"}
  PROVE  EarnInv'
<1> DEFINE x == JudgedStamp(owed)
<1>1. x.e = "reconciliation-judged" /\ x.owed = owed
  BY DEF JudgedStamp
<1>2. IsLedger
  BY DEF RecordsInv, LedgerIsSound, IsLedger
<1>3. /\ Stamp(x) /\ at' = Enter /\ tree' = [tree EXCEPT !.body = {}]
      /\ hist' = [hist EXCEPT !.commits = 0, !.unread = 0, !.rounds = 0, !.lost = 0]
  BY DEF Judge, StampAndGo
<1> HIDE DEF x
<1>4. Shape(x, Cardinality(Renders))
  BY <1>1 DEF Shape, Unnumbered
<1>5. Keyed' /\ Shapes' /\ Bundle(x, View, View') /\ (HasBirth => HasBirth') /\ SameCycle(CycleView, CycleView')
  BY <1>1, <1>3, <1>4, StampFrame
<1>6. AnswerLedger(View', Rounds', tree.closed)
  BY <1>1, <1>5, JudgmentIsDue DEF EarnInv, Bundle
<1>7. tree'.closed = tree.closed /\ tree'.mode = tree.mode /\ hist'.clean = hist.clean /\ TreeTyped(tree', hist')
  BY <1>3 DEF RecordsInv, Fields, EarnInv, TreeTyped
<1>8. HasBirth /\ ~CycleView.up
  BY DEF EarnInv, PlaceFits, StagePlaces, RestPlaces, ReadPlaces
<1>9. LedgerFits(tree', View', CycleView', HasBirth')
  <2>1. View'.rendered <=> View.rendered
    BY <1>1, <1>5 DEF Bundle, RenderedReading
  <2> QED
    BY <1>5, <1>7, <1>8, <2>1 DEF LedgerFits, SameCycle, EarnInv
<1>10. CleanReads(CycleView', hist') /\ KeptStands(CycleView', tree', hist')
  BY <1>5, <1>7, <1>8 DEF EarnInv, SameCycle, CleanReads, KeptStands
<1>11. PlaceFits(at', tree', View', CycleView', HasBirth')
  BY <1>3, RestFits, RestingPlaces DEF RestPlaces, Enter
<1> QED
  BY <1>5, <1>6, <1>7, <1>9, <1>10, <1>11 DEF EarnInv

---------------------------------------------------------------------------
(* A round of writers.                                                       *)

(* A stamp of the rounds is made where no review set of the cycle stands.    *)
LEMMA RoundStampFits ==
  ASSUME RecordsInv, EarnInv, NEW x, Stamp(x), x.e \in {"reconcile-write-set", "record-written", "reconciliation-written"},
         Shape(x, Cardinality(Renders)), ~CycleView.up, UNCHANGED tree, hist'.clean = hist.clean,
         AnswerLedger(View', Rounds, tree.closed),
         \A v : v = View' => PlaceFits(at', tree, v, CycleView, HasBirth)
  PROVE  EarnInv'
<1>1. Keyed' /\ Shapes' /\ Bundle(x, View, View') /\ (HasBirth => HasBirth') /\ SameCycle(CycleView, CycleView')
  BY StampFrame
<1>2. Rounds' = Rounds
  BY StampKept DEF RecordsInv, Mild, LedgerKept
<1>3. (View'.judged <=> View.judged) /\ (View'.rendered <=> View.rendered)
  BY <1>1 DEF Bundle, JudgedReading, RenderedReading
<1>4. LedgerFits(tree', View', CycleView', HasBirth')
  BY <1>1, <1>3 DEF LedgerFits, EarnInv, SameCycle
<1>5. CleanReads(CycleView', hist') /\ KeptStands(CycleView', tree', hist') /\ TreeTyped(tree', hist')
  BY <1>1 DEF EarnInv, SameCycle, CleanReads, KeptStands, TreeTyped
<1>6. PlaceFits(at', tree', View', CycleView', HasBirth')
  <2>1. PICK v : v = View'
    OBVIOUS
  <2>2. PlaceFits(at', tree, v, CycleView, HasBirth)
    BY <2>1
  <2>3. SameView(v, v)
    BY DEF SameView
  <2>4. PlaceFits(at', tree, v, CycleView', HasBirth')
    BY <1>1, <2>2, <2>3, SameFits
  <2> QED
    BY <2>1, <2>4
<1> QED
  BY <1>1, <1>2, <1>4, <1>5, <1>6 DEF EarnInv

(* The one set on the ledger is the newest.                                  *)
LEMMA OneSet ==
  ASSUME IsLedger, Keyed, Shapes
  PROVE  SeqsOf("reconcile-write-set") = IF SetStamp > 0 THEN {SetStamp} ELSE {}
<1>1. Len(led) \in Nat /\ SeqsOf("reconcile-write-set") \subseteq 1..Len(led)
  BY DEF IsLedger, SeqsOf
<1>2. /\ SeqsOf("reconcile-write-set") = {} => SetStamp = 0
      /\ SeqsOf("reconcile-write-set") # {} => SetStamp \in SeqsOf("reconcile-write-set")
  BY <1>1, NewestIs DEF SetStamp
<1>3. ASSUME NEW i \in SeqsOf("reconcile-write-set"), NEW j \in SeqsOf("reconcile-write-set") PROVE i = j
  <2>1. i \in DOMAIN led /\ j \in DOMAIN led /\ led[i].e = "reconcile-write-set" /\ led[j].e = "reconcile-write-set"
    BY DEF SeqsOf
  <2>2. "nth" \notin DOMAIN led[i] /\ "nth" \notin DOMAIN led[j] /\ led[i].of = "" /\ led[j].of = ""
    BY <2>1 DEF Shapes, Shape, Unnumbered
  <2>3. Key(led[i]) = Key(led[j])
    BY <2>1, <2>2 DEF Key
  <2> QED
    BY <2>1, <2>3 DEF Keyed
<1>4. \A i \in SeqsOf("reconcile-write-set") : i > 0
  BY <1>1
<1> QED
  BY <1>2, <1>3, <1>4

(* A round goes over the set on the ledger, or over all that is due.         *)
LEMMA WriteSetIs ==
  ASSUME IsLedger, Keyed, Shapes, NEW task \in {"write", "correct"}, Due(task, View), AnswerLedger(View, Rounds, tree.closed)
  PROVE  /\ WriteSet(task) \subseteq Records
         /\ Covers(task, View, tree.closed) \subseteq WriteSet(task)
         /\ SetSince(task, View) => WriteSet(task) = View.set
<1> DEFINE S == {j \in SeqsOf("reconcile-write-set") : led[j].round = Round(task)}
<1>1. ViewSays /\ View.unwritten = UnwrittenRecords /\ View.open = Open /\ View.owed = IF Judged > 0 THEN Owed ELSE {}
  BY ViewIs DEF View
<1>2. /\ Judged \in Nat /\ LastRendered \in Nat /\ SetStamp \in Nat /\ View.set \subseteq Records
      /\ Judged > 0 => Owed \subseteq Records
      /\ ReviewedRecords \subseteq Records
  BY ReadingsTyped
<1>3. /\ View.judged <=> Judged > 0
      /\ View.setJudged <=> SetStamp > Judged
      /\ View.setRendered <=> SetStamp > LastRendered
      /\ View.round = IF SetStamp > 0 THEN led[SetStamp].round ELSE 0
      /\ View.set = IF SetStamp > 0 THEN led[SetStamp].records ELSE {}
  BY <1>1 DEF ViewSays
<1>4. Round(task) = RoundOf(task, Rounds)
  BY DEF Round, RoundOf
<1>5. Since(task) \in Nat /\ (SetSince(task, View) <=> SetStamp > Since(task))
  BY <1>2, <1>3 DEF Since, SetSince
<1>6. S = {} \/ (S = {SetStamp} /\ SetStamp > 0)
  BY OneSet
<1>7. Newest({}) = 0 /\ \A n \in Nat : Newest({n}) = n
  <2>1. Newest({}) = 0
    BY NewestIs
  <2>2. ASSUME NEW n \in Nat PROVE Newest({n}) = n
    <3>1. CASE n = 0
      BY <3>1, <2>1 DEF Newest
    <3>2. CASE n > 0
      <4>1. {n} \subseteq 1..n /\ {n} # {}
        BY <3>2
      <4>2. Newest({n}) \in {n}
        BY <4>1, NewestIs
      <4> QED
        BY <4>2
    <3> QED
      BY <3>1, <3>2
  <2> QED
    BY <2>1, <2>2
<1>8. WriteSet(task) = IF Newest(S) > Since(task) THEN led[Newest(S)].records
                       ELSE IF task = "write" THEN Active(Owed) ELSE CorrectiveRecords
  BY DEF WriteSet
<1>9. CASE SetSince(task, View)
  <2>1. SetStamp > 0 /\ SetStamp > Since(task)
    BY <1>2, <1>5, <1>9
  <2>2. View.round = RoundOf(task, Rounds) /\ Covers(task, View, tree.closed) \subseteq View.set
    BY <1>9 DEF AnswerLedger, RoundStands
  <2>3. S = {SetStamp}
    BY <1>3, <1>4, <2>1, <2>2, OneSet
  <2>4. WriteSet(task) = led[SetStamp].records
    BY <1>2, <1>7, <1>8, <2>1, <2>3
  <2> QED
    BY <1>2, <1>3, <2>1, <2>2, <2>4
<1>10. CASE ~SetSince(task, View)
  <2>1. ~(Newest(S) > Since(task))
    <3> HIDE DEF S
    <3>1. CASE S = {}
      BY <1>5, <1>7, <3>1
    <3>2. CASE S = {SetStamp}
      BY <1>2, <1>5, <1>7, <1>10, <3>2
    <3> QED
      BY <1>6, <3>1, <3>2
  <2>2. WriteSet(task) = IF task = "write" THEN Active(Owed) ELSE CorrectiveRecords
    BY <1>8, <2>1
  <2>3. CASE task = "write"
    <3>1. Judged > 0
      BY <1>3, <2>3 DEF Due, WriteDue
    <3> QED
      BY <1>1, <1>2, <1>10, <2>2, <2>3, <3>1 DEF Active, Covers
  <2>4. CASE task = "correct"
    <3>1. \A r \in View.unwritten : Left(r) \in Open
      BY <1>1, <2>4 DEF Due, CorrectDue, AnswerLedger
    <3>2. UnwrittenRecords \subseteq ReviewedRecords
      BY DEF UnwrittenRecords, ReviewedRecords
    <3>3. \A r : Left(r).kind = "unwritten" /\ r \in Left(r).names /\ Left(r) \notin FindingsOf(Open)
      BY DEF Left, FindingsOf
    <3>4. UnwrittenRecords \ tree.closed \subseteq CorrectiveRecords
      BY <1>1, <3>1, <3>2, <3>3 DEF CorrectiveRecords, Active
    <3>5. CorrectiveRecords \subseteq Records
      BY <1>2 DEF CorrectiveRecords, Active
    <3> QED
      BY <1>1, <1>10, <2>2, <2>4, <3>4, <3>5 DEF Covers
  <2> QED
    BY <2>3, <2>4
<1> QED
  BY <1>9, <1>10

LEMMA DispatchFits ==
  ASSUME RecordsInv, EarnInv, DispatchSet
  PROVE  EarnInv'
<1>1. PICK task, records : task = at.pc /\ records = WriteSet(task)
  OBVIOUS
<1>2. PICK x : x = [e |-> "reconcile-write-set", of |-> "", round |-> Round(task), records |-> records]
  OBVIOUS
<1>3. PICK p : /\ StampAndGo(x, p)
               /\ \/ p = Pc("stall")
                  \/ p = [pc |-> "round", task |-> task, records |-> records]
  BY <1>1, <1>2 DEF DispatchSet, DoStamp
<1>4. Stamp(x) /\ at' = p /\ UNCHANGED <<tree, hist>> /\ task \in {"write", "correct"}
  BY <1>1, <1>3, <1>2 DEF DispatchSet, DoStamp, StampAndGo, Stay
<1>5. IsLedger
  BY DEF RecordsInv, LedgerIsSound, IsLedger
<1>6. Due(task, View) /\ HasBirth /\ ~CycleView.up
  BY <1>1, <1>4 DEF EarnInv, PlaceFits, StagePlaces, RestPlaces, ReadPlaces
<1>7. /\ records \subseteq Records /\ Covers(task, View, tree.closed) \subseteq records
      /\ SetSince(task, View) => records = View.set
  BY <1>1, <1>4, <1>5, <1>6, WriteSetIs DEF EarnInv
<1>8. x.e = "reconcile-write-set" /\ x.round = RoundOf(task, Rounds) /\ x.records = records
  BY <1>2, <1>4 DEF Round, RoundOf
<1>9. Shape(x, Cardinality(Renders))
  BY <1>2, <1>7 DEF Shape, Unnumbered
<1>10. Bundle(x, View, View')
  BY <1>4, <1>8, <1>9, StampFrame
<1>11. AnswerLedger(View', Rounds, tree.closed) /\ Due(task, View') /\ SetSince(task, View') /\ View'.set = x.records
  <2>1. PICK v, w, n, shut : v = View /\ w = View' /\ n = Rounds /\ shut = tree.closed
    OBVIOUS
  <2>2. /\ JudgedReading(x, v, w) /\ WrittenReading(x, v, w) /\ RenderedReading(x, v, w) /\ SetReading(x, v, w)
        /\ StampReading(x, v, w)
    BY <1>10, <2>1 DEF Bundle
  <2>3. AnswerLedger(v, n, shut) /\ Due(task, v) /\ Covers(task, v, shut) \subseteq x.records /\ x.round = RoundOf(task, n)
        /\ (SetSince(task, v) => x.records = v.set)
    BY <1>6, <1>7, <1>8, <2>1 DEF EarnInv
  <2>4. AnswerLedger(w, n, shut) /\ Due(task, w) /\ SetSince(task, w) /\ w.set = x.records
    <3>1. x.e = "reconcile-write-set" /\ task \in {"write", "correct"}
      BY <1>4, <1>8
    <3> QED
      BY <2>2, <2>3, <3>1, SetIsStamped
  <2> QED
    BY <2>1, <2>4
<1>12. PlaceFits(p, tree, View', CycleView, HasBirth)
  <2>1. CASE p = Pc("stall")
    BY <1>6, <2>1, RestingPlaces DEF PlaceFits, InRound, ReadPlaces, BirthPlaces, StagePlaces
  <2>2. CASE p = [pc |-> "round", task |-> task, records |-> records]
    BY <1>4, <1>6, <1>8, <1>11, <2>2 DEF PlaceFits, InRound, ReadPlaces, BirthPlaces, StagePlaces, RecordsOf
  <2> QED
    BY <1>3, <2>1, <2>2
<1> QED
  BY <1>4, <1>6, <1>8, <1>9, <1>11, <1>12, RoundStampFits

(* The newest stamp of a record, and the records that are stamped.           *)
LEMMA StampOfIs ==
  ASSUME IsLedger, Shapes, NEW r, NEW since \in Nat
  PROVE  StampOf(r, since) = IF NewestStamp(r) > since THEN NewestStamp(r) ELSE 0
<1> DEFINE S == Seqs("record-written", r)
           T == {i \in S : i > since}
<1>1. Len(led) \in Nat /\ S \subseteq 1..Len(led) /\ T \subseteq S /\ T \subseteq 1..Len(led)
  BY DEF IsLedger, Seqs
<1>2. /\ S = {} => Newest(S) = 0
      /\ S # {} => Newest(S) \in S /\ \A i \in S : i <= Newest(S)
  BY <1>1, NewestIs
<1>3. /\ T = {} => Newest(T) = 0
      /\ T # {} => Newest(T) \in T /\ \A i \in T : i <= Newest(T)
  BY <1>1, NewestIs
<1>4. NewestStamp(r) = Newest(S) /\ StampOf(r, since) = Newest(T)
  BY DEF NewestStamp, StampOf
<1>5. PICK s, t : s = Newest(S) /\ t = Newest(T)
  OBVIOUS
<1>6. (\A i \in S : i \in Nat) /\ \A i \in T : i \in S /\ i > since
  BY <1>1
<1>7. \A i \in S : i > since => i \in T
  OBVIOUS
<1> HIDE DEF S, T, Newest
<1>8. t = IF s > since THEN s ELSE 0
  <2>1. CASE s > since
    <3>1. s \in S
      BY <1>2, <1>5, <2>1
    <3>2. s \in T
      BY <1>7, <2>1, <3>1
    <3>3. t \in T /\ s <= t
      BY <1>3, <1>5, <3>2
    <3>4. t \in S /\ t <= s
      BY <1>2, <1>5, <1>6, <3>3
    <3> QED
      BY <1>6, <2>1, <3>1, <3>3, <3>4
  <2>2. CASE ~(s > since)
    <3>1. T = {}
      <4> SUFFICES ASSUME NEW i \in T PROVE FALSE
        OBVIOUS
      <4>1. i \in S /\ i > since /\ i \in Nat
        BY <1>6
      <4>2. s \in S /\ s \in Nat /\ i <= s
        BY <1>2, <1>5, <1>6, <4>1
      <4> QED
        BY <2>2, <4>1, <4>2
    <3> QED
      BY <1>3, <1>5, <2>2, <3>1
  <2> QED
    BY <2>1, <2>2
<1> QED
  BY <1>4, <1>5, <1>8

LEMMA StampedIs ==
  ASSUME IsLedger, Shapes, NEW task \in {"write", "correct"}
  PROVE  /\ \A S : S \subseteq Records => Stamped(S, Since(task)) = S \cap StampedSince(task, View)
         /\ \A r \in StampedSince(task, View) : StampOf(r, Since(task)) > 0 /\ View.why[r] = led[StampOf(r, Since(task))].why
         /\ StampedSince(task, View) \subseteq Records
<1>1. ViewSays /\ Judged \in Nat /\ LastRendered \in Nat /\ \A r : NewestStamp(r) \in Nat
  BY ViewIs, ReadingsTyped
<1>2. /\ View.sinceJudged = {r \in Records : NewestStamp(r) > Judged}
      /\ View.sinceRendered = {r \in Records : NewestStamp(r) > LastRendered}
      /\ View.why = [r \in Records |-> IF NewestStamp(r) > 0 THEN led[NewestStamp(r)].why ELSE ""]
  BY <1>1 DEF ViewSays
<1>3. PICK since \in Nat : since = Since(task)
  BY <1>1 DEF Since
<1>4. StampedSince(task, View) = {r \in Records : NewestStamp(r) > since}
  BY <1>2, <1>3 DEF StampedSince, Since
<1>5. \A r : StampOf(r, since) = IF NewestStamp(r) > since THEN NewestStamp(r) ELSE 0
  BY StampOfIs
<1>6. \A r : StampOf(r, since) > 0 <=> NewestStamp(r) > since
  BY <1>1, <1>5
<1>7. \A S : S \subseteq Records => Stamped(S, since) = S \cap StampedSince(task, View)
  BY <1>4, <1>6 DEF Stamped
<1>8. ASSUME NEW r \in StampedSince(task, View) PROVE StampOf(r, since) > 0 /\ View.why[r] = led[StampOf(r, since)].why
  <2>1. r \in Records /\ NewestStamp(r) > since /\ NewestStamp(r) > 0
    BY <1>1, <1>4
  <2>2. View.why[r] = led[NewestStamp(r)].why
    BY <1>2, <2>1
  <2> QED
    BY <1>5, <1>6, <2>1, <2>2
<1> QED
  BY <1>3, <1>4, <1>7, <1>8

(* A round stands over its set, whose records the ledger's readings hold.    *)
LEMMA RoundPlaces ==
  ASSUME RecordsInv, EarnInv, at.pc \in InRound
  PROVE  /\ IsLedger /\ Shapes /\ Keyed /\ TreeTyped(tree, hist) /\ ~CycleView.up /\ HasBirth
         /\ at.task \in {"write", "correct"} /\ Due(at.task, View) /\ SetSince(at.task, View)
         /\ RecordsOf(at) = View.set /\ View.set \subseteq Records /\ {"pc", "task"} \subseteq DOMAIN at
<1>1. IsLedger /\ {"pc", "task"} \subseteq DOMAIN at
  BY DEF RecordsInv, LedgerIsSound, IsLedger, PlaceIsSound
<1>2. /\ Shapes /\ Keyed /\ TreeTyped(tree, hist) /\ ~CycleView.up /\ HasBirth
      /\ at.task \in {"write", "correct"} /\ Due(at.task, View) /\ SetSince(at.task, View) /\ RecordsOf(at) = View.set
  BY DEF EarnInv, PlaceFits, InRound, StagePlaces, RestPlaces, ReadPlaces
<1> QED
  BY <1>1, <1>2, ReadingsTyped

(* A place of the round that runs, behind its seat or before it.             *)
LEMMA RoundGoes ==
  ASSUME RecordsInv, EarnInv, at.pc \in InRound, NEW p, p.task = at.task, RecordsOf(p) = View.set,
         \/ p.pc = "seat" /\ "records" \in DOMAIN p /\ RecordsOf(p) \cap StampedSince(at.task, View) = {}
         \/ p.pc = "commit" /\ "records" \in DOMAIN p /\ RecordsOf(p) \cap StampedSince(at.task, View) = {}
         \/ /\ p.pc = "stamp" /\ {"entries", "rewritten"} \subseteq DOMAIN p /\ p.rewritten \subseteq Records
            /\ \A r \in DOMAIN p.entries \cap StampedSince(at.task, View) : View.why[r] = p.entries[r]
  PROVE  \A t : PlaceFits(p, t, View, CycleView, HasBirth)
BY RoundPlaces DEF PlaceFits, InRound, ReadPlaces, RestPlaces, BirthPlaces, StagePlaces

LEMMA WriteRoundFits ==
  ASSUME RecordsInv, EarnInv, WriteRound
  PROVE  EarnInv'
<1>1. at.pc = "round" /\ at.pc \in InRound /\ UNCHANGED <<tree, hist>>
  BY DEF WriteRound, Do, Stay, InRound
<1>2. at.records = View.set /\ "records" \in DOMAIN at
  BY <1>1, RoundPlaces DEF RecordsOf, EarnInv, PlaceFits
<1>3. tree.body \subseteq Records
  BY DEF EarnInv, TreeTyped
<1>4. Stamped(at.records, Since(at.task)) = at.records \cap StampedSince(at.task, View)
  BY <1>1, <1>2, RoundPlaces, StampedIs
<1>5. CASE Stamped(at.records, Since(at.task)) # {} \/ RoundCommits # {}
  <2>1. PICK p : p = [pc |-> "stamp", task |-> at.task, entries |-> AlreadyWritten, rewritten |-> RoundCommits]
    OBVIOUS
  <2>2. DOMAIN AlreadyWritten = at.records
    BY DEF AlreadyWritten
  <2>3. ASSUME NEW r \in at.records \cap StampedSince(at.task, View) PROVE View.why[r] = AlreadyWritten[r]
    <3>1. StampOf(r, Since(at.task)) > 0 /\ View.why[r] = led[StampOf(r, Since(at.task))].why
      BY <1>1, RoundPlaces, StampedIs
    <3> QED
      BY <3>1 DEF AlreadyWritten
  <2>4. /\ p.pc = "stamp" /\ p.task = at.task /\ p.entries = AlreadyWritten /\ p.rewritten = tree.body
        /\ {"entries", "rewritten"} \subseteq DOMAIN p
    BY <2>1 DEF RoundCommits
  <2>5. RecordsOf(p) = View.set
    BY <1>2, <2>2, <2>4 DEF RecordsOf
  <2>6. \A t : PlaceFits(p, t, View, CycleView, HasBirth)
    BY <1>1, <1>3, <2>2, <2>3, <2>4, <2>5, RoundGoes
  <2>7. Go(p)
    BY <1>5, <2>1 DEF WriteRound, Do
  <2> QED
    BY <1>1, <2>6, <2>7, GoFits
<1>6. CASE ~(Stamped(at.records, Since(at.task)) # {} \/ RoundCommits # {})
  <2>1. PICK p : p = [at EXCEPT !.pc = "seat"]
    OBVIOUS
  <2>2. p.pc = "seat" /\ p.task = at.task /\ p.records = at.records /\ "records" \in DOMAIN p
    BY <1>1, <1>2, <2>1, RoundPlaces
  <2>3. RecordsOf(p) = View.set /\ RecordsOf(p) = at.records
    BY <1>2, <2>2 DEF RecordsOf
  <2>4. \A t : PlaceFits(p, t, View, CycleView, HasBirth)
    BY <1>1, <1>4, <1>6, <2>2, <2>3, RoundGoes
  <2>5. Go(p)
    BY <1>6, <2>1 DEF WriteRound, Do
  <2> QED
    BY <1>1, <2>4, <2>5, GoFits
<1> QED
  BY <1>5, <1>6

LEMMA SeatFits ==
  ASSUME RecordsInv, EarnInv, SeatFails \/ SeatWrites
  PROVE  EarnInv'
<1>1. at.pc = "seat" /\ at.pc \in InRound /\ UNCHANGED tree
  BY DEF SeatFails, SeatWrites, InRound
<1>2. at.records = View.set /\ at.records \cap StampedSince(at.task, View) = {}
  BY <1>1, RoundPlaces DEF RecordsOf, EarnInv, PlaceFits
<1>3. \A n : Trouble(n) => hist'.clean = hist.clean
  BY DEF Trouble, RecordsInv, Fields
<1>4. CASE SeatFails
  <2>1. PICK p : p = [pc |-> "stamp", task |-> at.task, entries |-> [r \in at.records |-> "failed"], rewritten |-> {}]
    OBVIOUS
  <2>2. /\ p.pc = "stamp" /\ p.task = at.task /\ DOMAIN p.entries = at.records /\ p.rewritten = {}
        /\ {"entries", "rewritten"} \subseteq DOMAIN p
    BY <2>1
  <2>3. RecordsOf(p) = View.set
    BY <1>2, <2>2 DEF RecordsOf
  <2>4. \A t : PlaceFits(p, t, View, CycleView, HasBirth)
    BY <1>1, <1>2, <2>2, <2>3, RoundGoes
  <2>5. Go(p) /\ Trouble(1)
    BY <1>4, <2>1 DEF SeatFails
  <2> QED
    BY <1>1, <1>3, <2>4, <2>5, GoFits
<1>5. CASE SeatWrites
  <2>1. PICK out, n, names :
          /\ Trouble(n)
          /\ StampAndGo([e |-> "seat-report", of |-> "write", why |-> "", names |-> names],
                        [pc |-> "commit", task |-> at.task, records |-> at.records, out |-> out])
    BY <1>5 DEF SeatWrites
  <2>2. PICK x, p : /\ x = [e |-> "seat-report", of |-> "write", why |-> "", names |-> names]
                    /\ p = [pc |-> "commit", task |-> at.task, records |-> at.records, out |-> out]
    OBVIOUS
  <2>3. StampAndGo(x, p) /\ hist'.clean = hist.clean
    BY <1>3, <2>1, <2>2
  <2>4. Silent(x) /\ Mild(x) /\ x.e \notin {"reconcile-review-set", "layer-result"}
    BY <2>2 DEF Silent, Mild
  <2>5. p.pc = "commit" /\ p.task = at.task /\ p.records = at.records /\ "records" \in DOMAIN p
    BY <2>2
  <2>6. RecordsOf(p) = View.set /\ RecordsOf(p) = at.records
    BY <1>2, <2>5 DEF RecordsOf
  <2>7. \A t : PlaceFits(p, t, View, CycleView, HasBirth)
    BY <1>1, <1>2, <2>5, <2>6, RoundGoes
  <2> QED
    BY <1>1, <2>3, <2>4, <2>7, StampFits
<1> QED
  BY <1>4, <1>5

LEMMA CommitFits ==
  ASSUME RecordsInv, EarnInv, Commit
  PROVE  EarnInv'
<1> DEFINE changed == {r \in Records : at.out[r] \in {"rewritten", "closed", "silent"}}
           wrote == {r \in at.records : at.out[r] \in Answers}
           p == [pc |-> "stamp", task |-> at.task, rewritten |-> {r \in at.records : at.out[r] = "rewritten"},
                 entries |-> [r \in at.records |-> IF r \in wrote THEN "written" ELSE "unreported"]]
<1>1. /\ at.pc = "commit" /\ at.pc \in InRound
      /\ tree' = [tree EXCEPT !.text = [r \in Records |-> IF r \in changed THEN tree.text[r] + 1 ELSE tree.text[r]],
                              !.closed = @ \union {r \in changed : at.out[r] = "closed"},
                              !.window = @ \union changed,
                              !.body = IF changed = {} THEN @ ELSE @ \union wrote]
      /\ hist' = [hist EXCEPT !.commits = IF changed = {} THEN @ ELSE @ + 1]
      /\ Go(p)
  BY DEF Commit, InRound
<1>2. at.records = View.set /\ at.records \subseteq Records /\ at.records \cap StampedSince(at.task, View) = {}
  BY <1>1, RoundPlaces DEF RecordsOf, EarnInv, PlaceFits
<1>3. changed \subseteq Records /\ wrote \subseteq Records /\ p.rewritten \subseteq Records
  BY <1>2
<1>4. p.pc = "stamp" /\ p.task = at.task /\ DOMAIN p.entries = at.records /\ {"entries", "rewritten"} \subseteq DOMAIN p
  OBVIOUS
<1> HIDE DEF changed, wrote, p
<1>5. RecordsOf(p) = View.set
  BY <1>2, <1>4 DEF RecordsOf
<1>6. \A t : PlaceFits(p, t, View, CycleView, HasBirth)
  BY <1>1, <1>2, <1>3, <1>4, <1>5, RoundGoes
<1>7. /\ tree.closed \subseteq tree'.closed /\ tree'.mode = tree.mode /\ hist'.clean = hist.clean
      /\ TreeTyped(tree', hist')
  BY <1>1, <1>3 DEF RecordsInv, Fields, EarnInv, TreeTyped
<1>8. Quiet /\ ~CycleView.up /\ at' = p
  BY <1>1, UnstampedIsQuiet, RoundPlaces DEF Go
<1> QED
  BY <1>6, <1>7, <1>8, QuietStep

LEMMA StampWriteFits ==
  ASSUME RecordsInv, EarnInv, StampWrite
  PROVE  EarnInv'
<1> DEFINE due == DOMAIN at.entries \ Stamped(DOMAIN at.entries, Since(at.task))
<1>1. at.pc = "stamp" /\ at.pc \in InRound /\ UNCHANGED <<tree, hist>>
  BY DEF StampWrite, Do, DoStamp, Stay, InRound
<1>2. /\ DOMAIN at.entries = View.set /\ View.set \subseteq Records /\ at.rewritten \subseteq Records
      /\ {"entries", "rewritten"} \subseteq DOMAIN at
      /\ \A r \in DOMAIN at.entries \cap StampedSince(at.task, View) : View.why[r] = at.entries[r]
  BY <1>1, RoundPlaces DEF RecordsOf, EarnInv, PlaceFits
<1>3. /\ IsLedger /\ Shapes /\ ~CycleView.up /\ HasBirth /\ at.task \in {"write", "correct"}
      /\ Due(at.task, View) /\ SetSince(at.task, View) /\ {"pc", "task"} \subseteq DOMAIN at
  BY <1>1, RoundPlaces
<1>4. due = View.set \ StampedSince(at.task, View)
  BY <1>2, <1>3, StampedIs
<1>5. /\ due = {} => Go([at EXCEPT !.pc = "written"])
      /\ due # {} => \E r \in due : StampAndGo([e |-> "record-written", of |-> r, why |-> at.entries[r]], at)
  BY DEF StampWrite, Do, DoStamp
<1> HIDE DEF due
<1>6. CASE due = {}
  <2>1. PICK p : p = [at EXCEPT !.pc = "written"]
    OBVIOUS
  <2>2. /\ p.pc = "written" /\ p.task = at.task /\ p.entries = at.entries /\ p.rewritten = at.rewritten
        /\ {"entries", "rewritten"} \subseteq DOMAIN p
    BY <1>2, <1>3, <2>1
  <2>3. RecordsOf(p) = View.set
    BY <1>2, <2>2 DEF RecordsOf
  <2>4. PlaceFits(p, tree, View, CycleView, HasBirth)
    BY <1>2, <1>3, <1>4, <1>6, <2>2, <2>3 DEF PlaceFits, InRound, ReadPlaces, BirthPlaces, StagePlaces
  <2> QED
    BY <1>1, <1>5, <1>6, <2>1, <2>4, GoFits
<1>7. CASE due # {}
  <2>1. PICK r \in due : StampAndGo([e |-> "record-written", of |-> r, why |-> at.entries[r]], at)
    BY <1>5, <1>7
  <2>2. PICK x : x = [e |-> "record-written", of |-> r, why |-> at.entries[r]]
    OBVIOUS
  <2>3. x.e = "record-written" /\ x.of = r /\ x.why = at.entries[r] /\ Stamp(x) /\ at' = at /\ x.of \in View.set /\ x.of \in Records
    BY <1>2, <1>4, <2>1, <2>2 DEF StampAndGo
  <2>4. Shape(x, Cardinality(Renders))
    BY <2>2 DEF Shape, Unnumbered
  <2>5. Bundle(x, View, View') /\ View.owed \subseteq Records
    BY <1>3, <2>3, <2>4, StampFrame, ReadingsTyped
  <2>6. PICK v, w, n, shut : v = View /\ w = View' /\ n = Rounds /\ shut = tree.closed
    OBVIOUS
  <2>7. /\ JudgedReading(x, v, w) /\ WrittenReading(x, v, w) /\ RenderedReading(x, v, w) /\ SetReading(x, v, w)
        /\ StampReading(x, v, w)
    BY <2>5, <2>6 DEF Bundle
  <2>8. AnswerLedger(w, n, shut) /\ Due(at.task, w) /\ SetSince(at.task, w) /\ w.set = v.set
    <3>1. PICK task \in {"write", "correct"} : task = at.task
      BY <1>3
    <3>2. AnswerLedger(v, n, shut) /\ Due(task, v) /\ SetSince(task, v) /\ x.of \in v.set /\ v.owed \subseteq Records
      BY <1>3, <2>3, <2>5, <2>6, <3>1 DEF EarnInv
    <3>3. x.e = "record-written" /\ x.of \in Records
      BY <2>3
    <3>4. AnswerLedger(w, n, shut) /\ Due(task, w) /\ SetSince(task, w) /\ w.set = v.set
      BY <2>7, <3>2, <3>3, RecordIsStamped
    <3> QED
      BY <3>1, <3>4
  <2>9. /\ StampedSince(at.task, w) = StampedSince(at.task, v) \cup {r}
        /\ \A s \in Records : w.why[s] = IF s = r THEN at.entries[r] ELSE v.why[s]
    BY <2>3, <2>7 DEF StampReading, StampedSince
  <2>10. \A s \in DOMAIN at.entries \cap StampedSince(at.task, w) : w.why[s] = at.entries[s]
    BY <1>2, <2>6, <2>9
  <2>11. RecordsOf(at) = w.set
    BY <1>1, <1>2, <2>6, <2>8 DEF RecordsOf
  <2>12. PlaceFits(at, tree, w, CycleView, HasBirth)
    BY <1>1, <1>2, <1>3, <2>8, <2>10, <2>11 DEF PlaceFits, InRound, ReadPlaces, BirthPlaces, StagePlaces
  <2> QED
    BY <1>1, <1>3, <2>3, <2>4, <2>6, <2>8, <2>12, RoundStampFits
<1> QED
  BY <1>6, <1>7

LEMMA StampWrittenFits ==
  ASSUME RecordsInv, EarnInv, StampWritten
  PROVE  EarnInv'
<1>1. PICK x : x = [e |-> "reconciliation-written", of |-> "", ok |-> TRUE, entries |-> at.entries, rewritten |-> at.rewritten]
  OBVIOUS
<1>2. /\ at.pc = "written" /\ at.pc \in InRound /\ UNCHANGED tree /\ hist'.clean = hist.clean /\ Stamp(x)
      /\ at' \in {[pc |-> "count", round |-> Round("correct")], Pc("fallback"), Pc("enter")}
  BY <1>1 DEF StampWritten, StampAndGo, InRound, Enter, RecordsInv, Fields
<1>3. /\ DOMAIN at.entries = View.set /\ View.set \subseteq Records /\ at.rewritten \subseteq Records
      /\ DOMAIN at.entries \subseteq StampedSince(at.task, View)
      /\ \A r \in DOMAIN at.entries \cap StampedSince(at.task, View) : View.why[r] = at.entries[r]
  BY <1>2, RoundPlaces DEF RecordsOf, EarnInv, PlaceFits
<1>4. ~CycleView.up /\ HasBirth
  BY <1>2, RoundPlaces
<1>5. x.e = "reconciliation-written" /\ x.entries = at.entries /\ Shape(x, Cardinality(Renders))
  BY <1>1, <1>3 DEF Shape, Unnumbered
<1>6. Bundle(x, View, View')
  BY <1>2, <1>5, StampFrame
<1>7. PICK v, w, n, shut : v = View /\ w = View' /\ n = Rounds /\ shut = tree.closed
  OBVIOUS
<1>8. /\ JudgedReading(x, v, w) /\ WrittenReading(x, v, w) /\ RenderedReading(x, v, w) /\ SetReading(x, v, w)
      /\ StampReading(x, v, w)
  BY <1>6, <1>7 DEF Bundle
<1>9. AnswerLedger(w, n, shut)
  <2>1. PICK task \in {"write", "correct"} : task = at.task
    BY <1>2, RoundPlaces
  <2>2. AnswerLedger(v, n, shut) /\ Due(task, v) /\ SetSince(task, v)
    BY <1>2, <1>7, <2>1, RoundPlaces DEF EarnInv
  <2>3. DOMAIN x.entries = v.set /\ v.set \subseteq StampedSince(task, v) /\ \A r \in v.set : v.why[r] = x.entries[r]
    BY <1>3, <1>5, <1>7, <2>1
  <2>4. x.e = "reconciliation-written"
    BY <1>5
  <2> QED
    BY <1>8, <2>2, <2>3, <2>4, RoundIsWritten
<1>10. w.stale
  BY <1>5, <1>8 DEF WrittenReading
<1>11. PlaceFits(at', tree, w, CycleView, HasBirth)
  <2>1. at'.pc \in {"count", "fallback", "enter"}
    BY <1>2, RestingPlaces
  <2> QED
    BY <1>4, <1>10, <2>1 DEF PlaceFits, InRound, ReadPlaces, BirthPlaces, StagePlaces, RestPlaces
<1> QED
  BY <1>2, <1>4, <1>5, <1>7, <1>9, <1>11, RoundStampFits

LEMMA StampRoundFits ==
  ASSUME RecordsInv, EarnInv, StampRound
  PROVE  EarnInv'
<1>1. PICK x : x = [e |-> "reconcile-round", of |-> "", nth |-> at.round]
  OBVIOUS
<1>2. at.pc = "count" /\ UNCHANGED <<tree, hist>> /\ Stamp(x) /\ at' = Pc("enter")
  BY <1>1 DEF StampRound, DoStamp, StampAndGo, Stay, Enter
<1>3. IsLedger /\ LedgerIsSound /\ at.round = Rounds + 1
  BY <1>2 DEF RecordsInv, LedgerIsSound, IsLedger, CountIsSound
<1>4. x.e = "reconcile-round" /\ "nth" \in DOMAIN x /\ x.nth = Rounds + 1 /\ Silent(x) /\ Shape(x, Cardinality(Renders))
  BY <1>1, <1>3 DEF Silent, Shape, Unnumbered
<1>5. Keyed' /\ Shapes' /\ SameView(View, View') /\ SameCycle(CycleView, CycleView') /\ (HasBirth => HasBirth')
  BY <1>2, <1>3, <1>4, StampFrame, SilentStamps DEF EarnInv
<1>6. View.stale /\ AnswerLedger(View, Rounds, tree.closed)
  BY <1>2 DEF EarnInv, PlaceFits
<1>7. AnswerLedger(View', Rounds', tree'.closed)
  <2>1. PICK v, w, n, k, shut : v = View /\ w = View' /\ n = Rounds /\ k = Rounds' /\ shut = tree.closed
    OBVIOUS
  <2>2. AnswerLedger(v, k, shut) /\ SameView(v, w)
    BY <1>5, <1>6, <2>1, RoundIsNumbered
  <2> QED
    BY <1>2, <2>1, <2>2, SameAnswers
<1>8. LedgerFits(tree', View', CycleView', HasBirth')
  <2>1. LedgerFits(tree, View, CycleView, HasBirth) /\ tree'.mode = tree.mode
    BY <1>2 DEF EarnInv
  <2> QED
    BY <1>5, <2>1, SameFits
<1>9. CleanReads(CycleView', hist') /\ KeptStands(CycleView', tree', hist') /\ TreeTyped(tree', hist')
  BY <1>2, <1>5 DEF EarnInv, SameCycle, CleanReads, KeptStands, TreeTyped
<1>10. PlaceFits(at', tree', View', CycleView', HasBirth')
  BY <1>2, RestFits, RestingPlaces DEF RestPlaces
<1> QED
  BY <1>5, <1>7, <1>8, <1>9, <1>10 DEF EarnInv

---------------------------------------------------------------------------
(* A cycle of the layers and the review.                                     *)

LEMMA CyclePlaces ==
  ASSUME RecordsInv, EarnInv, at.pc \in ReadPlaces
  PROVE  /\ IsLedger /\ LedgerIsSound /\ Shapes /\ Keyed /\ TreeTyped(tree, hist) /\ HasBirth
         /\ CycleDue(View) /\ tree.mode # "advisory"
<1>1. IsLedger /\ LedgerIsSound
  BY DEF RecordsInv, LedgerIsSound, IsLedger
<1>2. /\ Shapes /\ Keyed /\ TreeTyped(tree, hist) /\ HasBirth
      /\ CycleDue(View) /\ tree.mode # "advisory"
  BY DEF EarnInv, PlaceFits, ReadPlaces, StagePlaces
<1> QED
  BY <1>1, <1>2

LEMMA CycleGoes ==
  ASSUME RecordsInv, EarnInv, at.pc \in ReadPlaces,
         NEW p, NEW c, p.pc \in ReadPlaces, p.pc # "cycle" => c.layers,
         p.pc \in {"review", "render"} => c.up, p.pc = "render" => p.read = {} \/ p.read = c.list
  PROVE  PlaceFits(p, tree, View, c, HasBirth)
BY CyclePlaces DEF PlaceFits, InRound, ReadPlaces, BirthPlaces, StagePlaces

(* A stamp of the cycle moves what the cycle reads, and nothing else.        *)
LEMMA CycleStampFits ==
  ASSUME RecordsInv, EarnInv, at.pc \in ReadPlaces, NEW x, Stamp(x), x.e \in {"layer-result", "reconcile-review-set"},
         Shape(x, Cardinality(Renders)), UNCHANGED tree, hist'.clean = hist.clean,
         at'.pc \in {"review-set", "review"}, CycleView'.layers, at'.pc = "review" => CycleView'.up,
         KeptStands(CycleView', tree, hist)
  PROVE  EarnInv'
<1>1. Silent(x) /\ Mild(x) /\ x.e # "reconcile-rendered"
  BY DEF Silent, Mild
<1>2. Keyed' /\ Shapes' /\ (HasBirth => HasBirth')
  BY <1>1, StampFrame
<1>3. SameView(View, View') /\ CycleView'.green = CycleView.green /\ \A r \in Records : CycleView'.text[r] = CycleView.text[r]
  BY <1>1, CyclePlaces, SilentStamps, CycleMoves
<1>4. Rounds' = Rounds
  BY <1>1, StampKept DEF RecordsInv, LedgerKept
<1>5. AnswerLedger(View', Rounds', tree'.closed)
  <2>1. PICK v, w, n, shut : v = View /\ w = View' /\ n = Rounds /\ shut = tree.closed
    OBVIOUS
  <2>2. SameView(v, w) /\ AnswerLedger(v, n, shut)
    BY <1>3, <2>1 DEF EarnInv
  <2>3. AnswerLedger(w, n, shut)
    BY <2>2, SameAnswers
  <2> QED
    BY <1>4, <2>1, <2>3
<1>6. CleanReads(CycleView', hist') /\ KeptStands(CycleView', tree', hist') /\ TreeTyped(tree', hist')
  BY <1>3 DEF EarnInv, CleanReads, KeptStands, TreeTyped
<1>7. PICK c : c = CycleView'
  OBVIOUS
<1>8. SameCycle(c, c)
  BY DEF SameCycle
<1>9. LedgerFits(tree, View, c, HasBirth)
  BY <1>7, CyclePlaces DEF LedgerFits
<1>10. PlaceFits(at', tree, View, c, HasBirth)
  <2>1. at'.pc \in ReadPlaces /\ at'.pc # "render"
    BY DEF ReadPlaces
  <2> QED
    BY <1>7, <2>1, CycleGoes
<1>11. LedgerFits(tree', View', c, HasBirth') /\ PlaceFits(at', tree', View', c, HasBirth')
  <2>1. PICK w : w = View'
    OBVIOUS
  <2>2. SameView(View, w) /\ tree'.mode = tree.mode
    BY <1>3, <2>1
  <2>3. LedgerFits(tree', w, c, HasBirth') /\ PlaceFits(at', tree, w, c, HasBirth')
    BY <1>2, <1>8, <1>9, <1>10, <2>2, SameFits
  <2> QED
    BY <2>1, <2>3
<1> QED
  BY <1>2, <1>5, <1>6, <1>7, <1>11 DEF EarnInv

LEMMA LayersFit ==
  ASSUME RecordsInv, EarnInv, RunRecordLayers
  PROVE  EarnInv'
<1>1. at.pc = "cycle" /\ at.pc \in ReadPlaces
  BY DEF RunRecordLayers, ReadPlaces
<1>2. CASE LayersRun /\ Do(Pc("review-set"))
  <2>1. PICK p : p = Pc("review-set") /\ p.pc = "review-set"
    BY RestingPlaces
  <2>2. CycleView.layers
    BY <1>2, CycleViewIs
  <2>3. PlaceFits(p, tree, View, CycleView, HasBirth)
    <3>1. p.pc \in ReadPlaces /\ p.pc \notin {"cycle", "review", "render"}
      BY <2>1 DEF ReadPlaces
    <3> QED
      BY <1>1, <2>2, <3>1, CycleGoes
  <2> QED
    BY <1>2, <2>1, <2>3, GoFits DEF Do, Stay
<1>3. CASE /\ ~LayersRun
           /\ \E reds \in {{}} \union {{[kind |-> "layer", names |-> names]} : names \in {{}} \union {{r} : r \in Records}} :
                /\ Trouble(Cardinality(reds)) /\ UNCHANGED tree
                /\ StampAndGo([e |-> "layer-result", of |-> "", cycle |-> NextCycle, reds |-> reds], Pc("review-set"))
  <2>1. PICK reds, n : /\ Trouble(n) /\ UNCHANGED tree
                       /\ StampAndGo([e |-> "layer-result", of |-> "", cycle |-> NextCycle, reds |-> reds], Pc("review-set"))
    BY <1>3
  <2>2. PICK x : x = [e |-> "layer-result", of |-> "", cycle |-> NextCycle, reds |-> reds]
    OBVIOUS
  <2>3. Stamp(x) /\ at'.pc = "review-set" /\ UNCHANGED tree /\ hist'.clean = hist.clean
    BY <2>1, <2>2, RestingPlaces DEF StampAndGo, Trouble, RecordsInv, Fields
  <2>4. x.e = "layer-result" /\ x.cycle = NextCycle /\ Shape(x, Cardinality(Renders))
    <3>1. NextCycle \in Nat /\ NextCycle <= Cardinality(Renders) + 1
      BY <1>1, CyclePlaces, RendersAre DEF NextCycle
    <3> QED
      BY <2>2, <3>1 DEF Shape, Unnumbered
  <2>5. ~CycleView.up
    BY <1>3, CycleViewIs DEF EarnInv, LedgerFits
  <2>6. CycleView'.layers /\ ~CycleView'.up
    BY <1>1, <2>3, <2>4, <2>5, CyclePlaces, CycleMoves
  <2>7. KeptStands(CycleView', tree, hist)
    BY <2>6 DEF KeptStands
  <2> QED
    BY <1>1, <2>3, <2>4, <2>6, <2>7, CycleStampFits
<1>4. CASE ~LayersRun /\ Do(CommandError("gate-command"))
  BY <1>4, RestingPlaces, RestFits, GoFits DEF Do, Stay
<1> QED
  BY <1>2, <1>3, <1>4 DEF RunRecordLayers

(* A record is kept at the text at which it was last read clean.             *)
LEMMA KeptWasRead ==
  ASSUME IsLedger, EarnInv, NEW r \in Records, Keeps(r)
  PROVE  hist.clean[r] = tree.text[r]
<1>1. LastGreenReview(r) > 0 /\ led[LastGreenReview(r)].text[r] = tree.text[r]
  BY DEF Keeps, KeepsItsReview
<1>2. LastGreenReview(r) = Newest(Greens(r))
  BY DEF LastGreenReview, Greens
<1>3. Greens(r) # {}
  <2>1. Greens(r) = {} => Newest(Greens(r)) = 0
    BY NewestIs
  <2> QED
    BY <1>1, <1>2, <2>1
<1>4. r \in CycleView.green /\ CycleView.text[r] = led[Newest(Greens(r))].text[r]
  BY <1>3, CycleViewIs
<1> QED
  BY <1>1, <1>2, <1>4 DEF EarnInv, CleanReads

LEMMA ReviewSetFits ==
  ASSUME RecordsInv, EarnInv, ReviewSet
  PROVE  EarnInv'
<1>1. at.pc = "review-set" /\ at.pc \in ReadPlaces /\ UNCHANGED <<tree, hist>>
  BY DEF ReviewSet, ReadPlaces, Do, DoStamp, Stay
<1>2. CycleView.layers
  BY <1>1 DEF EarnInv, PlaceFits
<1>3. CASE ReviewSetStamp > 0
  <2>1. PICK p : p = Pc("review") /\ p.pc = "review"
    BY RestingPlaces
  <2>2. CycleView.up /\ Go(p)
    BY <1>3, <2>1, CycleViewIs DEF ReviewSet, Do
  <2>3. PlaceFits(p, tree, View, CycleView, HasBirth)
    <3>1. p.pc \in ReadPlaces /\ p.pc \notin {"cycle", "render"}
      BY <2>1 DEF ReadPlaces
    <3> QED
      BY <1>1, <1>2, <2>2, <3>1, CycleGoes
  <2> QED
    BY <1>1, <2>2, <2>3, GoFits
<1>4. CASE ~(ReviewSetStamp > 0)
  <2>1. PICK kept : kept = {r \in StageScope : Keeps(r)}
    OBVIOUS
  <2>2. PICK x : x = [e |-> "reconcile-review-set", of |-> "", cycle |-> NextCycle, records |-> StageScope \ kept, kept |-> kept]
    OBVIOUS
  <2>3. Stamp(x) /\ at'.pc = "review"
    BY <1>4, <2>1, <2>2, RestingPlaces DEF ReviewSet, DoStamp, StampAndGo
  <2>4. StageScope \subseteq Records
    BY <1>1, CyclePlaces, ReadingsTyped DEF StageScope, Active, TreeTyped
  <2>5. x.e = "reconcile-review-set" /\ x.cycle = NextCycle /\ x.kept = kept /\ Shape(x, Cardinality(Renders))
    <3>1. NextCycle \in Nat /\ NextCycle <= Cardinality(Renders) + 1
      BY <1>1, CyclePlaces, RendersAre DEF NextCycle
    <3> QED
      BY <2>1, <2>2, <2>4, <3>1 DEF Shape, Unnumbered
  <2>6. CycleView'.layers /\ CycleView'.up /\ CycleView'.kept = kept
    BY <1>1, <1>2, <2>3, <2>5, CyclePlaces, CycleMoves
  <2>7. KeptStands(CycleView', tree, hist)
    <3>1. kept \subseteq Records /\ \A r \in kept : hist.clean[r] = tree.text[r]
      BY <1>1, <2>1, <2>4, CyclePlaces, KeptWasRead
    <3> QED
      BY <2>6, <3>1 DEF KeptStands
  <2> QED
    BY <1>1, <2>3, <2>5, <2>6, <2>7, CycleStampFits
<1> QED
  BY <1>3, <1>4

LEMMA ReviewFits ==
  ASSUME RecordsInv, EarnInv, RecordReview
  PROVE  EarnInv'
<1> DEFINE list == led[ReviewSetStamp].records
<1>1. at.pc = "review" /\ at.pc \in ReadPlaces /\ UNCHANGED tree
  BY DEF RecordReview, ReadPlaces, Do, Stay
<1>2. CycleView.layers /\ CycleView.up /\ PlaceFits(at, tree, View, CycleView, HasBirth)
  BY <1>1 DEF EarnInv, PlaceFits
<1>3. CycleView.list = list
  BY <1>2, CycleViewIs
<1>4. \/ \E raised, read : Do(ToRender(raised, read)) /\ (read = {} \/ read = list)
      \/ \E n, raised : /\ Trouble(n)
                        /\ StampAndGo([e |-> "seat-report", of |-> "review", why |-> "", raised |-> raised], at)
      \/ /\ Trouble(1)
         /\ StampAndGo([e |-> "record-unreviewed", of |-> "", cycle |-> NextCycle], at)
  BY DEF RecordReview
<1> HIDE DEF list
<1>5. ASSUME NEW raised, NEW read, Do(ToRender(raised, read)), read = {} \/ read = list PROVE EarnInv'
  <2>1. PICK p : p = ToRender(raised, read)
    OBVIOUS
  <2>2. p.pc = "render" /\ p.pc \in ReadPlaces /\ p.read = read
    BY <2>1 DEF ToRender, ReadPlaces
  <2>3. PlaceFits(p, tree, View, CycleView, HasBirth)
    BY <1>1, <1>2, <1>3, <1>5, <2>2, CycleGoes
  <2> QED
    BY <1>5, <2>1, <2>3, GoFits DEF Do, Stay
<1>6. \A n : Trouble(n) => hist'.clean = hist.clean
  BY DEF Trouble, RecordsInv, Fields
<1>7. ASSUME NEW n, NEW raised, Trouble(n),
             StampAndGo([e |-> "seat-report", of |-> "review", why |-> "", raised |-> raised], at)
      PROVE  EarnInv'
  <2>1. PICK x : x = [e |-> "seat-report", of |-> "review", why |-> "", raised |-> raised]
    OBVIOUS
  <2>2. Silent(x) /\ Mild(x) /\ x.e \notin {"reconcile-review-set", "layer-result"} /\ StampAndGo(x, at)
    BY <1>7, <2>1 DEF Silent, Mild
  <2> QED
    BY <1>1, <1>2, <1>6, <1>7, <2>2, StampFits
<1>8. ASSUME Trouble(1), StampAndGo([e |-> "record-unreviewed", of |-> "", cycle |-> NextCycle], at)
      PROVE  EarnInv'
  <2>1. PICK x : x = [e |-> "record-unreviewed", of |-> "", cycle |-> NextCycle]
    OBVIOUS
  <2>2. Silent(x) /\ Mild(x) /\ x.e \notin {"reconcile-review-set", "layer-result"} /\ StampAndGo(x, at)
    BY <1>8, <2>1 DEF Silent, Mild
  <2> QED
    BY <1>1, <1>2, <1>6, <1>8, <2>2, StampFits
<1> QED
  BY <1>4, <1>5, <1>7, <1>8

LEMMA RenderFits ==
  ASSUME RecordsInv, EarnInv, Render
  PROVE  EarnInv'
<1>1. PICK set : set = led[ReviewSetStamp]
  OBVIOUS
<1>2. PICK open : open = {y \in FindingsOf(Open) : ~Resolved(y)} \union at.raised \union Layers
                            \union {[kind |-> "unwritten", names |-> {r}] : r \in UnwrittenRecords}
  OBVIOUS
<1>3. PICK x : x = [e |-> "reconcile-rendered", of |-> "", nth |-> NextCycle, open |-> open, records |-> set.records, kept |-> set.kept,
                    unreviewed |-> set.records \ at.read, text |-> tree.text]
  OBVIOUS
<1>4. /\ at.pc = "render" /\ at.pc \in ReadPlaces /\ Stamp(x) /\ at' = Pc("enter")
      /\ tree' = [tree EXCEPT !.body = {}]
      /\ hist' = [hist EXCEPT !.commits = 0, !.unread = 0,
                    !.clean = [r \in Records |-> IF r \in at.read /\ ~\E y \in FindingsOf(open) : r \in About(y)
                                                 THEN tree.text[r] ELSE @[r]]]
  BY <1>1, <1>2, <1>3 DEF Render, StampAndGo, Enter, ReadPlaces
<1>5. /\ IsLedger /\ LedgerIsSound /\ Shapes /\ Keyed /\ TreeTyped(tree, hist) /\ HasBirth /\ CycleDue(View) /\ tree.mode # "advisory"
  BY <1>4, CyclePlaces
<1>6. CycleView.up /\ (at.read = {} \/ at.read = CycleView.list)
  BY <1>4 DEF EarnInv, PlaceFits
<1>7. ReviewSetStamp > 0 /\ CycleView.list = set.records
  BY <1>1, <1>6, CycleViewIs
<1>8. set.records \subseteq Records
  <2> DEFINE S == {i \in SeqsOf("reconcile-review-set") : led[i].cycle = NextCycle}
  <2>1. Len(led) \in Nat /\ S \subseteq 1..Len(led)
    BY <1>5 DEF IsLedger, SeqsOf
  <2>2. S # {} => Newest(S) \in S
    BY <2>1, NewestIs
  <2>3. S = {} => Newest(S) = 0
    BY NewestIs
  <2>4. ReviewSetStamp = Newest(S)
    BY DEF ReviewSetStamp
  <2> HIDE DEF S
  <2>5. ReviewSetStamp \in S
    BY <1>7, <2>2, <2>3, <2>4
  <2>6. ReviewSetStamp \in DOMAIN led /\ led[ReviewSetStamp].e = "reconcile-review-set"
    BY <2>5 DEF S, SeqsOf
  <2> QED
    BY <1>1, <1>5, <2>6 DEF Shapes, Shape
<1>9. /\ x.e = "reconcile-rendered" /\ "nth" \in DOMAIN x /\ x.nth = NextCycle /\ x.open = open /\ x.text = tree.text
      /\ x.records = set.records /\ x.unreviewed = set.records \ at.read /\ Mild(x)
  BY <1>3 DEF Mild
<1>10. PICK k \in Nat : k = Cardinality(Renders) /\ NextCycle = k + 1
  BY <1>5, RendersAre DEF NextCycle
<1>11. /\ Cardinality(Renders)' = k + 1 /\ ~CycleView'.layers /\ ~CycleView'.up
       /\ \A r \in Records : IF r \in ReadClean(x) THEN r \in CycleView'.green /\ CycleView'.text[r] = x.text[r]
                             ELSE /\ r \in CycleView'.green <=> r \in CycleView.green
                                  /\ CycleView'.text[r] = CycleView.text[r]
  BY <1>4, <1>5, <1>9, <1>10, RenderMoves
<1>12. Keyed' /\ Rounds' = Rounds /\ HasBirth'
  BY <1>4, <1>5, <1>9, KeyedStays, StampKept DEF LedgerKept
<1>13. Shapes'
  <2>1. Shape(x, k + 1)
    <3>1. x.e = "reconcile-rendered" /\ "nth" \in DOMAIN x /\ x.nth = k + 1 /\ x.records \subseteq Records
      BY <1>3, <1>8, <1>9, <1>10
    <3> QED
      BY <3>1 DEF Shape, Unnumbered
  <2>2. k + 1 \in Nat /\ Cardinality(Renders) <= k + 1
    BY <1>10
  <2> QED
    BY <1>4, <1>5, <1>11, <2>1, <2>2, ShapesStay
<1>14. PICK v, w, n, shut : v = View /\ w = View' /\ n = Rounds /\ shut = tree.closed
  OBVIOUS
<1>15. /\ JudgedReading(x, v, w) /\ WrittenReading(x, v, w) /\ RenderedReading(x, v, w) /\ SetReading(x, v, w)
       /\ StampReading(x, v, w)
  BY <1>4, <1>5, <1>9, <1>14, ViewMoves
<1>16. AnswerLedger(w, n, shut)
  <2>1. AnswerLedger(v, n, shut) /\ CycleDue(v)
    BY <1>5, <1>14 DEF EarnInv
  <2>2. \A r \in v.unwritten : Left(r) \in x.open
    <3>1. v.unwritten = UnwrittenRecords
      BY <1>14 DEF View
    <3> QED
      BY <1>2, <1>9, <3>1 DEF Left
  <2>3. x.e = "reconcile-rendered"
    BY <1>9
  <2> QED
    BY <1>15, <2>1, <2>2, <2>3, RenderSays
<1>17. /\ tree'.closed = tree.closed /\ tree'.mode = tree.mode
       /\ DOMAIN hist'.clean = Records
       /\ \A r \in Records : hist'.clean[r] = IF r \in at.read /\ ~\E y \in FindingsOf(open) : r \in About(y)
                                              THEN tree.text[r] ELSE hist.clean[r]
  BY <1>4 DEF RecordsInv, Fields
<1>18. TreeTyped(tree', hist')
  BY <1>4, <1>5, <1>17 DEF RecordsInv, Fields, TreeTyped
<1>19. \A r \in Records : r \in ReadClean(x) <=> r \in at.read /\ ~\E y \in FindingsOf(open) : r \in About(y)
  BY <1>6, <1>7, <1>9 DEF ReadClean
<1>20. CleanReads(CycleView', hist')
  <2> SUFFICES ASSUME NEW r \in Records, r \in CycleView'.green PROVE hist'.clean[r] = CycleView'.text[r]
    BY DEF CleanReads
  <2>1. CASE r \in ReadClean(x)
    BY <1>9, <1>11, <1>17, <1>19, <2>1
  <2>2. CASE r \notin ReadClean(x)
    <3>1. r \in CycleView.green /\ CycleView'.text[r] = CycleView.text[r] /\ hist'.clean[r] = hist.clean[r]
      BY <1>11, <1>17, <1>19, <2>2
    <3> QED
      BY <3>1 DEF EarnInv, CleanReads
  <2> QED
    BY <2>1, <2>2
<1>21. LedgerFits(tree', View', CycleView', HasBirth') /\ KeptStands(CycleView', tree', hist')
  BY <1>5, <1>11, <1>12, <1>17 DEF LedgerFits, KeptStands
<1>22. PlaceFits(at', tree', View', CycleView', HasBirth')
  BY <1>4, RestFits, RestingPlaces DEF RestPlaces
<1> QED
  BY <1>12, <1>13, <1>14, <1>16, <1>17, <1>18, <1>20, <1>21, <1>22 DEF EarnInv

---------------------------------------------------------------------------
(* The judge, the recheck, the endings and what sends the run back.          *)

LEMMA JudgmentsFit ==
  ASSUME RecordsInv, EarnInv, JudgeStep \/ Rejudge
  PROVE  EarnInv'
<1>1. CASE JudgeStep
  <2>1. PICK owed \in SUBSET Records : Judge(owed)
    BY <1>1 DEF JudgeStep
  <2>2. at.pc = "judge" /\ ~View.judged
    BY <1>1 DEF JudgeStep, EarnInv, PlaceFits
  <2> QED
    BY <2>1, <2>2, JudgeFits
<1>2. CASE Rejudge
  <2>1. PICK owed : owed = at.owed
    OBVIOUS
  <2>2. at.pc = "rejudge" /\ owed \in SUBSET Records /\ owed # {} /\ Judge(owed)
    BY <1>2, <2>1 DEF Rejudge, EarnInv, PlaceFits
  <2> QED
    BY <2>2, JudgeFits
<1> QED
  BY <1>1, <1>2

LEMMA EndingsFit ==
  ASSUME RecordsInv, EarnInv, RecheckStep \/ StallStep \/ FallbackStep
  PROVE  EarnInv'
<1>1. /\ at.pc \in {"recheck", "stall", "fallback"} /\ UNCHANGED <<tree, hist>>
      /\ HasBirth /\ ~CycleView.up /\ (RecheckStep => at.pc = "recheck") /\ (StallStep => at.pc = "stall")
  BY DEF RecheckStep, StallStep, FallbackStep, DoStamp, Stay, EarnInv, PlaceFits, StagePlaces, RestPlaces, ReadPlaces
<1>2. CASE RecheckStep
  <2>1. CASE StampAndGo(Event("reconcile-recheck", "kept", ""), Pc("enter"))
    <3>1. PICK p : p = Pc("enter") /\ p.pc = "enter"
      BY RestingPlaces
    <3>2. PlaceFits(p, tree, View, CycleView, HasBirth)
      BY <3>1, RestFits DEF RestPlaces
    <3> QED
      BY <1>1, <2>1, <3>1, <3>2, EventFits
  <2>2. CASE \E owed \in (SUBSET (Records \ (led[LastRendered].records \union led[LastRendered].kept))) \ {{}} :
                StampAndGo(Event("reconcile-recheck", "owed", ""), [pc |-> "rejudge", owed |-> owed])
    <3> DEFINE T == Records \ (led[LastRendered].records \union led[LastRendered].kept)
    <3>0. T \subseteq Records
      OBVIOUS
    <3> HIDE DEF T
    <3>1. PICK owed : /\ owed \subseteq Records /\ owed # {}
                      /\ StampAndGo(Event("reconcile-recheck", "owed", ""), [pc |-> "rejudge", owed |-> owed])
      <4>1. PICK owed \in (SUBSET T) \ {{}} : StampAndGo(Event("reconcile-recheck", "owed", ""), [pc |-> "rejudge", owed |-> owed])
        BY <2>2 DEF T
      <4>2. owed \subseteq Records /\ owed # {}
        BY <3>0
      <4> QED
        BY <4>1, <4>2
    <3>2. PICK p : p = [pc |-> "rejudge", owed |-> owed]
      OBVIOUS
    <3>3. PlaceFits(p, tree, View, CycleView, HasBirth)
      BY <1>1, <3>1, <3>2 DEF PlaceFits, InRound, ReadPlaces, BirthPlaces, StagePlaces
    <3> QED
      BY <1>1, <3>1, <3>2, <3>3, EventFits
  <2> QED
    BY <1>2, <2>1, <2>2 DEF RecheckStep, DoStamp, Enter
<1>3. CASE StallStep
  <2>1. PICK p : p = Pc("fallback") /\ p.pc = "fallback"
    BY RestingPlaces
  <2>2. PlaceFits(p, tree, View, CycleView, HasBirth)
    BY <1>1, <2>1 DEF PlaceFits, InRound, ReadPlaces, BirthPlaces, StagePlaces
  <2>3. StampAndGo(Event("reconcile-stall", "", ""), p)
    BY <1>3, <2>1 DEF StallStep, DoStamp
  <2> QED
    BY <1>1, <2>2, <2>3, EventFits
<1>4. CASE FallbackStep
  <2>1. PICK x : x = [e |-> "reconciliation-written", of |-> "", ok |-> FALSE, entries |-> <<>>, rewritten |-> {}]
    OBVIOUS
  <2>2. Stamp(x) /\ at'.pc = "left"
    BY <1>4, <2>1, RestingPlaces DEF FallbackStep, DoStamp, StampAndGo
  <2>3. x.e = "reconciliation-written" /\ ~x.ok /\ Shape(x, Cardinality(Renders))
    <3>1. x.e = "reconciliation-written" /\ ~x.ok /\ x.entries = <<>> /\ x.rewritten = {}
      BY <2>1
    <3>2. DOMAIN x.entries \subseteq Records
      BY <3>1
    <3> QED
      BY <3>1, <3>2 DEF Shape, Unnumbered
  <2>4. PICK v, w, n, shut : v = View /\ w = View' /\ n = Rounds /\ shut = tree.closed
    OBVIOUS
  <2>5. /\ JudgedReading(x, v, w) /\ WrittenReading(x, v, w) /\ RenderedReading(x, v, w) /\ SetReading(x, v, w)
        /\ StampReading(x, v, w)
    BY <2>2, <2>3, <2>4, StampFrame DEF Bundle
  <2>6. AnswerLedger(w, n, shut) /\ ~CorrectDue(w)
    <3>1. AnswerLedger(v, n, shut)
      BY <2>4 DEF EarnInv
    <3>2. x.e = "reconciliation-written" /\ ~x.ok
      BY <2>3
    <3> QED
      BY <2>5, <3>1, <3>2, FallbackIsWritten
  <2>7. PlaceFits(at', tree, w, CycleView, HasBirth)
    BY <1>1, <2>2, <2>6 DEF PlaceFits, InRound, ReadPlaces, BirthPlaces, StagePlaces
  <2> QED
    BY <1>1, <2>2, <2>3, <2>4, <2>6, <2>7, RoundStampFits
<1> QED
  BY <1>2, <1>3, <1>4

(* What sends the run back moves the texts, which no set of a review holds.  *)
LEMMA ReturnsFit ==
  ASSUME RecordsInv, EarnInv, UpdateReruns \/ RepairReturns
  PROVE  EarnInv'
<1>1. PICK x : /\ Returns(x)
               /\ \/ x = Event("pre-verdict-update", "rerun", "")
                  \/ x = Event("repair-round", "", "")
  BY DEF UpdateReruns, RepairReturns
<1>2. /\ at.pc = "left" /\ Stamp(x) /\ at' = Pc("enter")
      /\ hist' = [hist EXCEPT !.returns = @ + 1]
      /\ \E moved : tree' = [tree EXCEPT !.text = [r \in Records |-> IF r \in moved THEN tree.text[r] + 1 ELSE tree.text[r]]]
  BY <1>1 DEF Returns, MovesTexts, StampAndGo, Enter
<1>3. ~CycleView.up /\ ~CorrectDue(View)
  BY <1>2 DEF EarnInv, PlaceFits, RestPlaces, ReadPlaces, LedgerFits
<1>4. /\ tree'.closed = tree.closed /\ tree'.mode = tree.mode /\ hist'.clean = hist.clean /\ TreeTyped(tree', hist')
  BY <1>2 DEF RecordsInv, Fields, EarnInv, TreeTyped
<1>5. PlaceFits(at', tree', View', CycleView', HasBirth')
  BY <1>2, RestFits, RestingPlaces DEF RestPlaces
<1>6. CASE x = Event("repair-round", "", "")
  <2>1. Silent(x) /\ Mild(x) /\ x.e \notin {"reconcile-review-set", "layer-result"}
    BY <1>6 DEF Event, Silent, Mild
  <2>2. Quiet
    BY <1>2, <2>1, SilentIsQuiet
  <2>3. PlaceFits(at', tree', View, CycleView, HasBirth)
    BY <1>2, RestFits, RestingPlaces DEF RestPlaces
  <2> QED
    BY <1>3, <1>4, <2>2, <2>3, QuietStep
<1>7. CASE x = Event("pre-verdict-update", "rerun", "")
  <2>1. x.e = "pre-verdict-update" /\ x.of = "rerun" /\ Mild(x) /\ Shape(x, Cardinality(Renders))
    BY <1>7 DEF Event, Mild, Shape, Unnumbered
  <2>2. Keyed' /\ Shapes' /\ Bundle(x, View, View') /\ (HasBirth => HasBirth') /\ SameCycle(CycleView, CycleView')
    BY <1>2, <2>1, StampFrame
  <2>3. Rounds' = Rounds
    BY <1>2, <2>1, StampKept DEF RecordsInv, LedgerKept
  <2>4. PICK v, w, n, shut : v = View /\ w = View' /\ n = Rounds /\ shut = tree.closed
    OBVIOUS
  <2>5. /\ JudgedReading(x, v, w) /\ WrittenReading(x, v, w) /\ RenderedReading(x, v, w) /\ RerunReading(x, w)
        /\ SetReading(x, v, w) /\ StampReading(x, v, w)
    BY <2>2, <2>4 DEF Bundle
  <2>6. AnswerLedger(w, n, shut)
    <3>1. AnswerLedger(v, n, shut) /\ ~CorrectDue(v) /\ x.e = "pre-verdict-update" /\ x.of = "rerun"
      BY <1>3, <2>1, <2>4 DEF EarnInv
    <3> QED
      BY <2>5, <3>1, AskedAgain
  <2>7. (View'.judged <=> View.judged) /\ (View'.rendered <=> View.rendered)
    BY <2>1, <2>2 DEF Bundle, JudgedReading, RenderedReading
  <2>8. LedgerFits(tree', View', CycleView', HasBirth')
    BY <1>3, <1>4, <2>2, <2>7 DEF LedgerFits, EarnInv, SameCycle
  <2>9. CleanReads(CycleView', hist') /\ KeptStands(CycleView', tree', hist')
    BY <1>3, <1>4, <2>2 DEF EarnInv, SameCycle, CleanReads, KeptStands
  <2> QED
    BY <1>4, <1>5, <2>2, <2>3, <2>4, <2>6, <2>8, <2>9 DEF EarnInv
<1> QED
  BY <1>1, <1>6, <1>7

---------------------------------------------------------------------------
(* The parks, the answers and the stops.                                     *)

LEMMA RestsFit ==
  ASSUME RecordsInv, EarnInv, ((Park \/ AbandonGuard \/ Answer) /\ Stay) \/ Stops
  PROVE  EarnInv'
<1>1. PICK p : p = Pc("enter") /\ p.pc \in RestPlaces /\ \A t, v, c, born : PlaceFits(p, t, v, c, born)
  BY RestingPlaces, RestFits DEF RestPlaces
<1>2. CASE Park /\ Stay
  <2>1. PlaceFits(Pc("parked"), tree, View, CycleView, HasBirth)
    BY RestingPlaces, RestFits DEF RestPlaces
  <2> QED
    BY <1>2, <2>1, EventFits DEF Park, Stay
<1>3. CASE AbandonGuard /\ Stay
  <2>1. PlaceFits(Pc("closed"), tree, View, CycleView, HasBirth)
    BY RestingPlaces, RestFits DEF RestPlaces
  <2> QED
    BY <1>3, <2>1, GoFits DEF AbandonGuard, Stay
<1>4. CASE Answer /\ Stay
  <2>1. PICK of, option : Stamp(Event("answer", of, option)) /\ at' = p /\ UNCHANGED <<tree, hist>>
    BY <1>1, <1>4 DEF Answer, Stay
  <2>2. PICK x : x = Event("answer", of, option)
    OBVIOUS
  <2>3. Silent(x) /\ Mild(x) /\ x.e \notin {"reconcile-review-set", "layer-result"}
    BY <2>2 DEF Event, Silent, Mild
  <2>4. Quiet
    BY <2>1, <2>2, <2>3, SilentIsQuiet
  <2>5. TreeTyped(tree', hist')
    BY <2>1 DEF EarnInv, TreeTyped
  <2> QED
    BY <1>1, <2>1, <2>4, <2>5, QuietStep
<1>5. CASE Stops
  <2>1. /\ at' = p /\ UNCHANGED <<led, tree>>
        /\ \E left : hist' = [hist EXCEPT !.lost = IF at.pc = "count" THEN @ + 1 ELSE @, !.unread = left]
    BY <1>1, <1>5 DEF Stops, Crash
  <2>2. hist'.clean = hist.clean
    BY <2>1
  <2>3. Quiet
    BY <2>1, UnstampedIsQuiet
  <2>4. TreeTyped(tree', hist')
    BY <2>1, <2>2 DEF EarnInv, TreeTyped
  <2> QED
    BY <1>1, <2>1, <2>2, <2>3, <2>4, QuietStep
<1> QED
  BY <1>2, <1>3, <1>4, <1>5

---------------------------------------------------------------------------
(* The invariant of the green renders, and what it says of every run.        *)

LEMMA EarnInvStarts ==
  ReconcileInit => EarnInv
<1> SUFFICES ASSUME ReconcileInit PROVE EarnInv
  OBVIOUS
<1>1. RecordsInv
  BY RecordsInvStarts
<1>2. PICK kind, used : ReconcileStart(kind, used, <<>>)
  BY DEF ReconcileInit
<1>3. led = <<>> /\ at = Pc("enter")
  BY <1>2 DEF ReconcileStart
<1>4. DOMAIN led = {} /\ \A e : SeqsOf(e) = {} /\ \A of : Seqs(e, of) = {}
  BY <1>3 DEF SeqsOf, Seqs
<1>5. Newest({}) = 0
  BY NewestIs
<1>6. /\ Judged = 0 /\ Written = 0 /\ LastRendered = 0 /\ Committed = 0 /\ SetStamp = 0 /\ RerunAsked = 0
      /\ \A r : NewestStamp(r) = 0
  BY <1>4, <1>5 DEF Judged, Written, Renders, LastRendered, Committed, SetStamp, RerunAsked, NewestStamp
<1>7. Keyed /\ Shapes /\ Renders = {} /\ Born = {}
  BY <1>4, <1>6 DEF Keyed, Shapes, Renders, Born
<1>8. TreeTyped(tree, hist)
  BY <1>2, <1>7 DEF ReconcileStart, TreeAtLaunch, TreeTyped
<1>9. PICK v : v = View
  OBVIOUS
<1>10. ~v.judged /\ v.owed = {} /\ ~v.owes /\ ~v.ok /\ v.unwritten = {} /\ ~v.rendered /\ v.open = {} /\ ~v.stale /\ ~v.answers
       /\ v.sinceJudged = {} /\ v.sinceRendered = {}
  <2>1. PICK w : w = View /\ ViewSays
    BY ViewIs
  <2>2. ~w.judged /\ w.owed = {} /\ ~w.owes /\ w.unwritten = {} /\ ~w.rendered /\ w.open = {} /\ ~w.stale /\ ~w.answers
    <3>1. /\ w.judged <=> Judged > 0
          /\ w.owed = IF Judged > 0 THEN led[Judged].owed ELSE {}
          /\ w.owes <=> Written < Judged
      BY <2>1 DEF ViewSays
    <3>2. /\ w.unwritten = IF Written = 0 THEN {} ELSE UnwrittenIn(led[Written].entries)
          /\ w.rendered <=> LastRendered > 0
          /\ w.open = IF LastRendered = 0 THEN {} ELSE led[LastRendered].open
          /\ w.stale <=> LastRendered < Written
          /\ w.answers <=> LastRendered > Judged
      BY <2>1 DEF ViewSays
    <3>3. ~w.judged /\ w.owed = {} /\ ~w.owes
      BY <1>6, <3>1
    <3>4. w.unwritten = {} /\ w.open = {}
      BY <1>6, <3>2
    <3>5. ~w.rendered /\ ~w.stale /\ ~w.answers
      BY <1>6, <3>2
    <3> QED
      BY <3>3, <3>4, <3>5
  <2>3. ~w.ok
    BY <1>6, <2>1 DEF ViewSays
  <2>4. w.sinceJudged = {} /\ w.sinceRendered = {}
    <3>1. /\ w.sinceJudged = {r \in Records : NewestStamp(r) > Judged}
          /\ w.sinceRendered = {r \in Records : NewestStamp(r) > LastRendered}
      BY <2>1 DEF ViewSays
    <3>2. \A r \in Records : ~(NewestStamp(r) > Judged) /\ ~(NewestStamp(r) > LastRendered)
      BY <1>6
    <3> QED
      BY <3>1, <3>2
  <2> QED
    BY <1>9, <2>1, <2>2, <2>3, <2>4
<1>11. AnswerLedger(View, Rounds, tree.closed)
  BY <1>9, <1>10 DEF AnswerLedger, RoundStands, Due, WriteDue, CorrectDue, Anchored
<1>12. ~LayersRun /\ ReviewSetStamp = 0
  BY <1>4, <1>5 DEF LayersRun, ReviewSetStamp
<1>13. ~CycleView.up /\ CycleView.green = {}
  <2>1. \A r : Greens(r) = {}
    BY <1>7 DEF Greens
  <2> QED
    BY <1>12, <2>1, CycleViewIs
<1>14. LedgerFits(tree, View, CycleView, HasBirth)
  BY <1>9, <1>10, <1>13 DEF LedgerFits
<1>15. CleanReads(CycleView, hist) /\ KeptStands(CycleView, tree, hist)
  BY <1>13 DEF CleanReads, KeptStands
<1>16. PlaceFits(at, tree, View, CycleView, HasBirth)
  BY <1>3, RestingPlaces, RestFits DEF RestPlaces
<1> QED
  BY <1>7, <1>8, <1>11, <1>14, <1>15, <1>16 DEF EarnInv

LEMMA EarnInvHolds ==
  RecordsInv /\ EarnInv /\ [ReconcileNext]_stageVars => EarnInv'
<1> SUFFICES ASSUME RecordsInv, EarnInv, [ReconcileNext]_stageVars PROVE EarnInv'
  OBVIOUS
<1>1. CASE UNCHANGED stageVars
  <2>1. UNCHANGED <<led, at, tree, hist>>
    BY <1>1 DEF stageVars, ledgerVars
  <2>2. Quiet
    BY <2>1, UnstampedIsQuiet
  <2>3. TreeTyped(tree', hist') /\ PlaceFits(at', tree', View, CycleView, HasBirth)
    BY <2>1 DEF EarnInv
  <2> QED
    BY <2>1, <2>2, <2>3, QuietStep
<1>2. CASE WriteStep
  BY <1>2, DispatchFits, WriteRoundFits, SeatFits, CommitFits, StampWriteFits, StampWrittenFits, StampRoundFits DEF WriteStep
<1>3. CASE CycleStep
  BY <1>3, LayersFit, ReviewSetFits, ReviewFits, RenderFits DEF CycleStep
<1>4. CASE StageStep
  BY <1>2, <1>3, <1>4, BirthFits, TakeFits, JudgmentsFit, EndingsFit DEF StageStep
<1>5. CASE ReconcileNext
  BY <1>4, <1>5, ReturnsFit, RestsFit DEF ReconcileNext, Handler
<1> QED
  BY <1>1, <1>5

LEMMA EarnedAlways == ReconcileSpec => [](RecordsInv /\ EarnInv)
<1>1. ReconcileInit => RecordsInv /\ EarnInv
  BY RecordsInvStarts, EarnInvStarts
<1>2. RecordsInv /\ EarnInv /\ [ReconcileNext]_stageVars => (RecordsInv /\ EarnInv)'
  BY RecordsInvHolds, EarnInvHolds
<1> QED
  BY <1>1, <1>2, PTL DEF ReconcileSpec

LEMMA GreenAnswers ==
  RecordsInv /\ EarnInv => GreenAnswersTheJudgment
<1> SUFFICES ASSUME RecordsInv, EarnInv, Green, LastRendered > Judged, NEW r \in Owed \ tree.closed
             PROVE  StampOf(r, Judged) > 0 /\ led[StampOf(r, Judged)].why = "written"
  BY DEF GreenAnswersTheJudgment
<1>1. IsLedger /\ Shapes /\ ViewSays
  BY ViewIs DEF RecordsInv, LedgerIsSound, IsLedger, EarnInv
<1>2. View.rendered /\ View.answers /\ View.open = {}
  BY <1>1 DEF Green, ViewSays, Open
<1>3. View.judged
  BY <1>2 DEF EarnInv, AnswerLedger
<1>4. r \in View.owed \ tree.closed
  BY <1>1, <1>3 DEF ViewSays, Owed
<1>5. r \in View.sinceJudged /\ View.why[r] = "written"
  BY <1>2, <1>3, <1>4 DEF EarnInv, AnswerLedger
<1>6. r \in StampedSince("write", View) /\ Since("write") = Judged
  BY <1>5 DEF StampedSince, Since
<1>7. StampOf(r, Since("write")) > 0 /\ View.why[r] = led[StampOf(r, Since("write"))].why
  BY <1>1, <1>6, StampedIs
<1> QED
  BY <1>5, <1>6, <1>7

LEMMA GreenWasRead ==
  RecordsInv /\ EarnInv => [at.pc = "render" /\ at'.pc = "enter" =>
                              \A r \in led[ReviewSetStamp].kept : hist.clean[r] = tree.text[r]]_stageVars
<1> SUFFICES ASSUME RecordsInv, EarnInv, at.pc = "render", NEW r \in led[ReviewSetStamp].kept
             PROVE  hist.clean[r] = tree.text[r]
  OBVIOUS
<1>1. CycleView.up
  BY DEF EarnInv, PlaceFits
<1>2. CycleView.kept = led[ReviewSetStamp].kept
  BY <1>1, CycleViewIs
<1> QED
  BY <1>1, <1>2 DEF EarnInv, KeptStands

(* A render that leaves nothing open and answers the newest judgment has a   *)
(* writer's answer to that judgment for every record it owed that stands     *)
(* open, and what a render keeps from an earlier review is the text that a   *)
(* seat read and raised nothing about (reconcile.mjs, the render, the write  *)
(* stamps and the kept green reviews), at every interleaving of stops,       *)
(* failed seats, reruns and repairs.                                         *)
THEOREM GreensAreEarned == ReconcileSpec => AGreenIsEarned
<1>1. RecordsInv /\ EarnInv => GreenAnswersTheJudgment
  BY GreenAnswers
<1>2. RecordsInv /\ EarnInv => [at.pc = "render" /\ at'.pc = "enter" =>
                                  \A r \in led[ReviewSetStamp].kept : hist.clean[r] = tree.text[r]]_stageVars
  BY GreenWasRead
<1> QED
  BY <1>1, <1>2, EarnedAlways, PTL DEF AGreenIsEarned, GreenIsRead

---------------------------------------------------------------------------
(* A round of writers commits once.                                          *)

(* A round whose seat may be sent: its set is stamped, and no record of it.  *)
Unstarted(task, v) == Due(task, v) /\ SetSince(task, v) /\ StampedSince(task, v) \cap v.set = {}
Behind == {"stamp", "written"}

(* Where no body names a record, the commits of a round that may be sent     *)
(* again are those that a stop left unread; a round without a set has none.  *)
CommitsFit(p, t, h, v) ==
  /\ h.commits <= 1 + h.unread
  /\ p.pc \notin Behind /\ t.body = {} => \A task \in {"write", "correct"} : Unstarted(task, v) => h.commits <= h.unread
  /\ \A task \in {"write", "correct"} : Due(task, v) /\ ~SetSince(task, v) => h.commits = 0
CommitInv == CommitsFit(at, tree, hist, View)

LEMMA OneTask ==
  \A v : \A a, b \in {"write", "correct"} : Due(a, v) /\ Due(b, v) => a = b
BY DEF Due, WriteDue, CorrectDue, Anchored

(* A step that the rounds do not see, and one where no round is due.         *)
CountsStay == tree'.body = tree.body /\ hist'.commits = hist.commits /\ hist'.unread = hist.unread
Beside == /\ UNCHANGED led \/ \E x : Stamp(x) /\ Silent(x)
          /\ CountsStay /\ at.pc \notin Behind

LEMMA SameCommits ==
  ASSUME CommitInv, NEW v, SameView(View, v), CountsStay, at'.pc \notin Behind => at.pc \notin Behind
  PROVE  CommitsFit(at', tree', hist', v)
<1>1. \A task : (Due(task, v) <=> Due(task, View)) /\ (Unstarted(task, v) <=> Unstarted(task, View)) /\ (SetSince(task, v) <=> SetSince(task, View))
  BY DEF SameView, Unstarted, Due, WriteDue, CorrectDue, Anchored, SetSince, StampedSince
<1> QED
  BY <1>1 DEF CommitInv, CommitsFit, CountsStay

LEMMA BesideKeeps ==
  ASSUME RecordsInv, EarnInv, CommitInv, Beside
  PROVE  CommitInv'
<1>1. IsLedger /\ Shapes
  BY DEF RecordsInv, LedgerIsSound, IsLedger, EarnInv
<1>2. SameView(View, View')
  <2>1. CASE UNCHANGED led
    <3>1. View' = View
      BY <2>1, ViewRests
    <3> QED
      BY <3>1 DEF SameView
  <2>2. CASE \E x : Stamp(x) /\ Silent(x)
    BY <1>1, <2>2, SilentStamps
  <2> QED
    BY <2>1, <2>2 DEF Beside
<1>3. PICK v : v = View'
  OBVIOUS
<1>4. CommitsFit(at', tree', hist', v)
  BY <1>2, <1>3, SameCommits DEF Beside
<1> QED
  BY <1>3, <1>4 DEF CommitInv

LEMMA NoneIsDue ==
  ASSUME RecordsInv', hist'.commits <= 1 + hist'.unread, \/ ~WriteDue(View') /\ ~CorrectDue(View')
                                                         \/ hist'.commits = 0
  PROVE  CommitInv'
<1>1. PICK v : v = View'
  OBVIOUS
<1>2. hist'.commits \in Nat /\ hist'.unread \in Nat
  BY DEF RecordsInv, Fields
<1>3. CommitsFit(at', tree', hist', v)
  <2>1. CASE ~WriteDue(View') /\ ~CorrectDue(View')
    <3>1. \A task \in {"write", "correct"} : ~Due(task, v)
      BY <1>1, <2>1 DEF Due
    <3> QED
      BY <3>1 DEF CommitsFit, Unstarted
  <2>2. CASE hist'.commits = 0
    BY <1>2, <2>2 DEF CommitsFit
  <2> QED
    BY <2>1, <2>2
<1> QED
  BY <1>1, <1>3 DEF CommitInv

(* The steps that stand beside the rounds.                                   *)
LEMMA EventIsBeside ==
  ASSUME NEW e, NEW of, NEW why, NEW p, StampAndGo(Event(e, of, why), p), CountsStay, at.pc \notin Behind,
         e \in {"seat-spawned", "seat-failure", "records-entered", "gate-needs", "tree-refreshed", "reconcile-skipped", "reconcile-recheck",
                "reconcile-stall", "park", "answer", "repair-round"}
  PROVE  Beside
BY EventIsSilent DEF Beside, StampAndGo

LEMMA GoIsBeside ==
  ASSUME NEW p, Go(p), CountsStay, at.pc \notin Behind
  PROVE  Beside
BY DEF Beside, Go

LEMMA StillCounts == UNCHANGED <<tree, hist>> => CountsStay
BY DEF CountsStay

LEMMA BirthSpends ==
  ASSUME RecordsInv, RecordsInv', EarnInv, CommitInv, BirthStep, UNCHANGED hist
  PROVE  CommitInv'
<1> USE DEF Enters, Behind
<1>0. /\ IsLedger /\ Shapes /\ (Committed > 0 <=> HasBirth)
  BY BirthIs DEF RecordsInv, LedgerIsSound, IsLedger, EarnInv
<1>1. ASSUME NEW of, NEW paths, Stamp(RecordsCommitted(of, paths)), ~View.judged PROVE CommitInv'
  <2> DEFINE x == RecordsCommitted(of, paths)
  <2>1. x.e = "records-committed" /\ Stamp(x)
    BY <1>1 DEF RecordsCommitted
  <2> HIDE DEF x
  <2>2. JudgedReading(x, View, View')
    BY <1>0, <2>1, ViewMoves
  <2>3. ~WriteDue(View') /\ ~CorrectDue(View')
    BY <1>1, <2>1, <2>2 DEF JudgedReading, WriteDue, CorrectDue, Anchored
  <2>4. hist'.commits <= 1 + hist'.unread
    BY DEF CommitInv, CommitsFit
  <2> QED
    BY <2>3, <2>4, NoneIsDue
<1>2. CASE Readiness
  <2>1. at.pc = "enter" /\ UNCHANGED <<tree, hist>>
        /\ (StampAndGo(Event("records-entered", "", ""), at) \/ \E reason : Go(Blocked(reason)))
    BY <1>2 DEF Readiness
  <2> QED
    BY <2>1, StillCounts, EventIsBeside, GoIsBeside, BesideKeeps
<1>3. CASE BirthRecords
  <2>1. at.pc = "enter" /\ UNCHANGED <<tree, hist>> /\ ~View.judged
    BY <1>0, <1>3, BirthPlacesTell DEF BirthRecords, RecordsStep
  <2>2. Stamp(RecordsCommitted("none", {})) \/ \E p : Go(p)
    BY <1>3 DEF BirthRecords, StampAndGo
  <2>3. CASE \E p : Go(p)
    BY <2>1, <2>3, StillCounts, GoIsBeside, BesideKeeps
  <2> QED
    BY <1>1, <2>1, <2>2, <2>3
<1>4. CASE InstallGateNeeds
  <2>1. at.pc = "install" /\ UNCHANGED <<tree, hist>>
        /\ (StampAndGo(Event("gate-needs", "", ""), Pc("reset")) \/ \E p : Go(p))
    BY <1>4 DEF InstallGateNeeds
  <2> QED
    BY <2>1, StillCounts, EventIsBeside, GoIsBeside, BesideKeeps
<1>5. CASE ResetTree
  <2>1. at.pc = "reset" /\ tree' = [tree EXCEPT !.dirty = {}] /\ Go(Seat(Author)) /\ UNCHANGED hist
    BY <1>5 DEF ResetTree
  <2>2. CountsStay
    BY <2>1 DEF CountsStay, RecordsInv, Fields
  <2> QED
    BY <2>1, <2>2, GoIsBeside, BesideKeeps
<1>6. CASE AuthorReports \/ AuthorFails
  <2>1. at.pc = "out" /\ at.seat = Author /\ UNCHANGED hist
    BY <1>6 DEF AuthorReports, AuthorFails, AuthorAtWork
  <2>2. PICK wrote : tree' = [tree EXCEPT !.dirty = wrote]
    BY <1>6 DEF AuthorReports, AuthorFails
  <2>3. CountsStay
    BY <2>1, <2>2 DEF CountsStay, RecordsInv, Fields
  <2>4. \E x : Stamp(x) /\ Silent(x)
    <3>1. CASE AuthorReports
      <4>1. PICK named : Stamp([e |-> "seat-report", of |-> Author, why |-> "", names |-> named])
        BY <3>1 DEF AuthorReports, StampAndGo
      <4>2. PICK x : x = [e |-> "seat-report", of |-> Author, why |-> "", names |-> named]
        OBVIOUS
      <4>3. Silent(x)
        BY <4>2 DEF Silent
      <4> QED
        BY <4>1, <4>2, <4>3
    <3>2. CASE AuthorFails
      <4>1. Stamp(Event("seat-failure", Author, "no-report"))
        BY <2>1, <3>2 DEF AuthorFails, NoReport, StampAndGo
      <4> QED
        BY <4>1, EventIsSilent
    <3> QED
      BY <1>6, <3>1, <3>2
  <2>5. Beside
    BY <2>1, <2>3, <2>4 DEF Beside
  <2> QED
    BY <2>5, BesideKeeps
<1>7. CASE BirthFailed
  <2>1. at.pc = "failed" /\ Stamp(RecordsCommitted("failed", {}))
    BY <1>7 DEF BirthFailed, StampAndGo
  <2> QED
    BY <1>1, <2>1, BirthPlacesTell DEF BirthPlaces
<1>8. CASE CommitRecords
  <2>1. /\ at.pc = "checks" /\ UNCHANGED hist /\ \E p : Go(p)
        /\ \E window, text : tree' = [tree EXCEPT !.dirty = {}, !.window = window, !.text = text]
    BY <1>8 DEF CommitRecords
  <2>2. CountsStay
    BY <2>1 DEF CountsStay, RecordsInv, Fields
  <2> QED
    BY <2>1, <2>2, GoIsBeside, BesideKeeps
<1>9. CASE StampBorn
  <2>1. at.pc = "born" /\ Stamp(RecordsCommitted("", at.paths))
    BY <1>9 DEF StampBorn, StampAndGo
  <2> QED
    BY <1>1, <2>1, BirthPlacesTell DEF BirthPlaces
<1>10. CASE CloseNothingBorn
  <2>1. at.pc = "enter" /\ UNCHANGED <<tree, hist>> /\ Go(Pc("closed"))
    BY <1>10 DEF CloseNothingBorn
  <2> QED
    BY <2>1, StillCounts, GoIsBeside, BesideKeeps
<1>11. CASE RefreshForRetry /\ UNCHANGED tree
  <2>1. at.pc = "enter" /\ StampAndGo(Event("tree-refreshed", "", ""), at) /\ UNCHANGED <<tree, hist>>
    BY <1>11 DEF RefreshForRetry
  <2> QED
    BY <2>1, StillCounts, EventIsBeside, BesideKeeps
<1>12. CASE at.pc = "dispatch" /\ Dispatch /\ UNCHANGED tree
  <2>1. UNCHANGED <<tree, hist>> /\ ((\E p : StampAndGo(Event("seat-spawned", at.seat, ""), p)) \/ \E p : Go(p))
    BY <1>12 DEF Dispatch
  <2> QED
    BY <1>12, <2>1, StillCounts, EventIsBeside, GoIsBeside, BesideKeeps
<1> QED
  BY <1>2, <1>3, <1>4, <1>5, <1>6, <1>7, <1>8, <1>9, <1>10, <1>11, <1>12 DEF BirthStep

LEMMA TakeSpends ==
  ASSUME RecordsInv, EarnInv, CommitInv, TakeStep \/ AdvisoryStep
  PROVE  CommitInv'
<1>1. at.pc = "enter" /\ UNCHANGED <<tree, hist>>
  BY DEF TakeStep, AdvisoryStep, EntersStage, Enters, Do, DoStamp, Stay
<1>2. (\E p : Go(p)) \/ StampAndGo(Event("reconcile-skipped", "", ""), Pc("left"))
  BY DEF TakeStep, AdvisoryStep, Do, DoStamp
<1> QED
  BY <1>1, <1>2, StillCounts, EventIsBeside, GoIsBeside, BesideKeeps DEF Behind

LEMMA JudgmentsSpend ==
  ASSUME RecordsInv, RecordsInv', JudgeStep \/ Rejudge
  PROVE  CommitInv'
<1>1. hist'.commits = 0 /\ hist'.unread = 0
  BY DEF JudgeStep, Rejudge, Judge, RecordsInv, Fields
<1> QED
  BY <1>1, NoneIsDue

LEMMA EndingsSpend ==
  ASSUME RecordsInv, RecordsInv', EarnInv, CommitInv, RecheckStep \/ StallStep \/ FallbackStep
  PROVE  CommitInv'
<1>1. at.pc \notin Behind /\ UNCHANGED <<tree, hist>>
  BY DEF RecheckStep, StallStep, FallbackStep, DoStamp, Stay, Behind
<1>2. CASE RecheckStep \/ StallStep
  <2>1. \/ \E p : StampAndGo(Event("reconcile-recheck", "kept", ""), p)
        \/ \E p : StampAndGo(Event("reconcile-recheck", "owed", ""), p)
        \/ \E p : StampAndGo(Event("reconcile-stall", "", ""), p)
    BY <1>2 DEF RecheckStep, StallStep, DoStamp
  <2> QED
    BY <1>1, <2>1, StillCounts, EventIsBeside, BesideKeeps
<1>3. CASE FallbackStep
  <2>1. PICK x : x = [e |-> "reconciliation-written", of |-> "", ok |-> FALSE, entries |-> <<>>, rewritten |-> {}]
    OBVIOUS
  <2>2. Stamp(x)
    BY <1>3, <2>1 DEF FallbackStep, DoStamp, StampAndGo
  <2>3. x.e = "reconciliation-written" /\ ~x.ok
    BY <2>1
  <2>4. IsLedger /\ Shapes
    BY DEF RecordsInv, LedgerIsSound, IsLedger, EarnInv
  <2>5. WrittenReading(x, View, View')
    BY <2>2, <2>3, <2>4, ViewMoves
  <2>6. ~WriteDue(View') /\ ~CorrectDue(View')
    BY <2>3, <2>5 DEF WrittenReading, WriteDue, CorrectDue
  <2>7. hist'.commits <= 1 + hist'.unread
    BY <1>1 DEF CommitInv, CommitsFit
  <2> QED
    BY <2>6, <2>7, NoneIsDue
<1> QED
  BY <1>2, <1>3

LEMMA CycleSpends ==
  ASSUME RecordsInv, RecordsInv', EarnInv, CommitInv, CycleStep
  PROVE  CommitInv'
<1>1. CASE RunRecordLayers \/ ReviewSet \/ RecordReview
  <2>1. at.pc \in {"cycle", "review-set", "review"} /\ UNCHANGED tree
    BY <1>1 DEF RunRecordLayers, ReviewSet, RecordReview, Do, DoStamp, Stay
  <2>2. \/ UNCHANGED hist
        \/ \E n : Trouble(n)
    BY <1>1 DEF RunRecordLayers, ReviewSet, RecordReview, Do, DoStamp, Stay
  <2>3. CountsStay
    BY <2>1, <2>2, TroubleCountsNothing DEF CountsStay
  <2>4. UNCHANGED led \/ \E x : Stamp(x) /\ Silent(x)
    <3>1. \A cycle, reds : Silent([e |-> "layer-result", of |-> "", cycle |-> cycle, reds |-> reds])
      BY DEF Silent
    <3>2. \A cycle, records, kept : Silent([e |-> "reconcile-review-set", of |-> "", cycle |-> cycle, records |-> records, kept |-> kept])
      BY DEF Silent
    <3>3. \A raised : Silent([e |-> "seat-report", of |-> "review", why |-> "", raised |-> raised])
      BY DEF Silent
    <3>4. \A cycle : Silent([e |-> "record-unreviewed", of |-> "", cycle |-> cycle])
      BY DEF Silent
    <3>5. CASE RunRecordLayers
      <4>1. UNCHANGED led \/ \E cycle, reds : Stamp([e |-> "layer-result", of |-> "", cycle |-> cycle, reds |-> reds])
        BY <3>5 DEF RunRecordLayers, Do, Go, StampAndGo
      <4> QED
        BY <3>1, <4>1
    <3>6. CASE ReviewSet
      <4>1. UNCHANGED led \/ \E cycle, records, kept :
               Stamp([e |-> "reconcile-review-set", of |-> "", cycle |-> cycle, records |-> records, kept |-> kept])
        BY <3>6 DEF ReviewSet, Do, DoStamp, Go, StampAndGo
      <4> QED
        BY <3>2, <4>1
    <3>7. CASE RecordReview
      <4>1. \/ UNCHANGED led
            \/ \E raised : Stamp([e |-> "seat-report", of |-> "review", why |-> "", raised |-> raised])
            \/ \E cycle : Stamp([e |-> "record-unreviewed", of |-> "", cycle |-> cycle])
        <5>1. PICK list : list = led[ReviewSetStamp].records
          OBVIOUS
        <5> QED
          BY <3>7, <5>1 DEF RecordReview, Do, Go, StampAndGo
      <4> QED
        BY <3>3, <3>4, <4>1
    <3> QED
      BY <1>1, <3>5, <3>6, <3>7
  <2>5. Beside
    BY <2>1, <2>3, <2>4 DEF Beside, Behind
  <2> QED
    BY <2>5, BesideKeeps
<1>2. CASE Render
  <2>1. \E clean : hist' = [hist EXCEPT !.commits = 0, !.unread = 0, !.clean = clean]
    BY <1>2 DEF Render
  <2>2. hist'.commits = 0 /\ hist'.unread = 0
    BY <2>1 DEF RecordsInv, Fields
  <2> QED
    BY <2>2, NoneIsDue
<1> QED
  BY <1>1, <1>2 DEF CycleStep

LEMMA ReturnsSpend ==
  ASSUME RecordsInv, RecordsInv', EarnInv, CommitInv, UpdateReruns \/ RepairReturns
  PROVE  CommitInv'
<1>1. PICK x : /\ Returns(x)
               /\ \/ x = Event("pre-verdict-update", "rerun", "")
                  \/ x = Event("repair-round", "", "")
  BY DEF UpdateReruns, RepairReturns
<1>2. /\ at.pc = "left" /\ Stamp(x) /\ at' = Pc("enter")
      /\ hist' = [hist EXCEPT !.returns = @ + 1]
      /\ \E text : tree' = [tree EXCEPT !.text = text]
  BY <1>1 DEF Returns, MovesTexts, StampAndGo, Enter
<1>3. CountsStay
  BY <1>2 DEF CountsStay, RecordsInv, Fields
<1>4. CASE x = Event("repair-round", "", "")
  <2>1. Silent(x)
    BY <1>4 DEF Event, Silent
  <2>2. Beside
    BY <1>2, <1>3, <2>1 DEF Beside, Behind
  <2> QED
    BY <2>2, BesideKeeps
<1>5. CASE x = Event("pre-verdict-update", "rerun", "")
  <2>1. x.e = "pre-verdict-update" /\ x.of = "rerun"
    BY <1>5 DEF Event
  <2>2. IsLedger /\ Shapes
    BY DEF RecordsInv, LedgerIsSound, IsLedger, EarnInv
  <2>3. PICK v, w : v = View /\ w = View'
    OBVIOUS
  <2>4. /\ JudgedReading(x, v, w) /\ WrittenReading(x, v, w) /\ RenderedReading(x, v, w) /\ RerunReading(x, w)
        /\ SetReading(x, v, w) /\ StampReading(x, v, w)
    BY <1>2, <2>1, <2>2, <2>3, ViewMoves
  <2>5. /\ WriteDue(w) <=> WriteDue(v)
        /\ ~CorrectDue(w)
        /\ SetSince("write", w) <=> SetSince("write", v)
        /\ StampedSince("write", w) = StampedSince("write", v)
        /\ w.set = v.set
    BY <2>1, <2>4 DEF JudgedReading, WrittenReading, RerunReading, SetReading, StampReading, WriteDue, CorrectDue, SetSince, StampedSince
  <2>6. CommitsFit(at', tree', hist', w)
    <3>1. CommitsFit(at, tree, hist, v)
      BY <2>3 DEF CommitInv
    <3>2. /\ \A task \in {"write", "correct"} : Unstarted(task, w) => Unstarted(task, v)
          /\ \A task \in {"write", "correct"} : Due(task, w) /\ ~SetSince(task, w) => Due(task, v) /\ ~SetSince(task, v)
      BY <2>5 DEF Unstarted, Due
    <3> QED
      BY <1>2, <1>3, <3>1, <3>2 DEF CommitsFit, CountsStay, Behind
  <2> QED
    BY <2>3, <2>6 DEF CommitInv
<1> QED
  BY <1>1, <1>4, <1>5

(* A stop behind the commit: the bodies name a record, a stamp answers for   *)
(* one, or the commits are from here on the unread ones.                     *)
LEMMA RestsSpend ==
  ASSUME RecordsInv, EarnInv, CommitInv, ((Park \/ AbandonGuard \/ Answer) /\ Stay) \/ Stops
  PROVE  CommitInv'
<1>1. CASE (Park \/ AbandonGuard \/ Answer) /\ Stay
  <2>1. UNCHANGED <<tree, hist>> /\ at.pc \in {"ask", "enter", "parked"}
    BY <1>1 DEF Park, AbandonGuard, Answer, Stay
  <2>2. \/ \E p : Go(p)
        \/ \E of, why : Stamp(Event("park", of, why))
        \/ \E of, why : Stamp(Event("answer", of, why))
    BY <1>1 DEF Park, AbandonGuard, Answer, StampAndGo
  <2>3. UNCHANGED led \/ \E x : Stamp(x) /\ Silent(x)
    BY <2>2, EventIsSilent DEF Go
  <2>4. Beside
    BY <2>1, <2>3, StillCounts DEF Beside, Behind
  <2> QED
    BY <2>4, BesideKeeps
<1>2. CASE Stops
  <2>1. UNCHANGED <<led, tree>> /\ hist' = [hist EXCEPT !.lost = IF at.pc = "count" THEN @ + 1 ELSE @,
                                                       !.unread = IF LeavesUnread THEN hist.commits ELSE @]
    BY <1>2 DEF Stops, Crash
  <2>2. /\ hist'.commits = hist.commits /\ hist'.unread = IF LeavesUnread THEN hist.commits ELSE hist.unread
        /\ hist.commits \in Nat /\ hist.unread \in Nat
    BY <2>1 DEF RecordsInv, Fields
  <2>3. View' = View /\ tree'.body = tree.body
    BY <2>1, ViewRests
  <2>4. PICK v : v = View /\ CommitsFit(at, tree, hist, v)
    BY DEF CommitInv
  <2>5. CASE LeavesUnread
    BY <2>2, <2>3, <2>4, <2>5 DEF CommitInv, CommitsFit
  <2>6. CASE ~LeavesUnread /\ at.pc \notin Behind
    BY <2>2, <2>3, <2>4, <2>6 DEF CommitInv, CommitsFit
  <2>7. CASE ~LeavesUnread /\ at.pc \in Behind
    <3>1. /\ at.pc \in InRound /\ IsLedger /\ Shapes /\ at.task \in {"write", "correct"} /\ Due(at.task, View)
          /\ RecordsOf(at) = View.set /\ View.set \subseteq Records
      BY <2>7, RoundPlaces DEF Behind, InRound
    <3>2. DOMAIN at.entries = View.set
      BY <2>7, <3>1 DEF RecordsOf, Behind
    <3>3. Stamped(DOMAIN at.entries, Since(at.task)) = View.set \cap StampedSince(at.task, View)
      BY <3>1, <3>2, StampedIs
    <3>4. tree.body # {} \/ View.set \cap StampedSince(at.task, View) # {}
      BY <2>7, <3>3 DEF LeavesUnread, Behind
    <3>5. tree.body = {} => \A task \in {"write", "correct"} : ~Unstarted(task, v)
      BY <2>4, <3>1, <3>4, OneTask DEF Unstarted
    <3>6. CommitsFit(at', tree', hist', v)
      BY <2>2, <2>3, <2>4, <2>7, <3>5 DEF CommitsFit
    <3> QED
      BY <2>3, <2>4, <3>6 DEF CommitInv
  <2> QED
    BY <2>5, <2>6, <2>7
<1> QED
  BY <1>1, <1>2

(* The steps of a round.                                                     *)
LEMMA DispatchSpends ==
  ASSUME RecordsInv, EarnInv, CommitInv, DispatchSet
  PROVE  CommitInv'
<1>1. PICK task, records : task = at.pc /\ records = WriteSet(task)
  OBVIOUS
<1>2. PICK x : x = [e |-> "reconcile-write-set", of |-> "", round |-> Round(task), records |-> records]
  OBVIOUS
<1>3. Stamp(x) /\ UNCHANGED <<tree, hist>> /\ task \in {"write", "correct"} /\ at.pc \notin Behind
  BY <1>1, <1>2 DEF DispatchSet, DoStamp, StampAndGo, Stay, Behind
<1>4. IsLedger /\ Shapes /\ Keyed /\ AnswerLedger(View, Rounds, tree.closed) /\ Due(task, View)
  BY <1>1, <1>3 DEF RecordsInv, LedgerIsSound, IsLedger, EarnInv, PlaceFits
<1>5. SetSince(task, View) => records = View.set
  BY <1>1, <1>3, <1>4, WriteSetIs
<1>6. x.e = "reconcile-write-set" /\ x.records = records
  BY <1>2
<1>7. PICK v, w : v = View /\ w = View'
  OBVIOUS
<1>8. /\ JudgedReading(x, v, w) /\ WrittenReading(x, v, w) /\ RenderedReading(x, v, w)
      /\ SetReading(x, v, w) /\ StampReading(x, v, w)
  BY <1>3, <1>4, <1>6, <1>7, ViewMoves
<1>9. /\ \A t : Due(t, w) <=> Due(t, v)
      /\ \A t : StampedSince(t, w) = StampedSince(t, v)
      /\ \A t : SetSince(t, w)
      /\ w.set = records
  BY <1>6, <1>8 DEF JudgedReading, WrittenReading, RenderedReading, SetReading, StampReading, Due, WriteDue, CorrectDue, Anchored,
                    StampedSince, SetSince
<1>10. CommitsFit(at, tree, hist, v) /\ hist.commits \in Nat /\ hist.unread \in Nat
  BY <1>7 DEF CommitInv, RecordsInv, Fields
<1>11. ASSUME tree.body = {}, NEW t \in {"write", "correct"}, Unstarted(t, w) PROVE hist.commits <= hist.unread
  <2>1. t = task /\ Due(task, v)
    BY <1>3, <1>4, <1>7, <1>9, <1>11, OneTask DEF Unstarted
  <2>2. CASE SetSince(task, v)
    BY <1>3, <1>5, <1>7, <1>9, <1>10, <1>11, <2>1, <2>2 DEF CommitsFit, Unstarted
  <2>3. CASE ~SetSince(task, v)
    BY <1>3, <1>10, <2>1, <2>3 DEF CommitsFit
  <2> QED
    BY <2>2, <2>3
<1>12. CommitsFit(at', tree', hist', w)
  BY <1>3, <1>9, <1>10, <1>11 DEF CommitsFit
<1> QED
  BY <1>7, <1>12 DEF CommitInv

LEMMA SeatSpends ==
  ASSUME RecordsInv, EarnInv, CommitInv, WriteRound \/ SeatFails \/ SeatWrites
  PROVE  CommitInv'
<1>1. at.pc \in {"round", "seat"} /\ UNCHANGED tree
  BY DEF WriteRound, SeatFails, SeatWrites, Do, Stay
<1>2. UNCHANGED hist \/ \E n : Trouble(n)
  BY DEF WriteRound, SeatFails, SeatWrites, Do, Stay
<1>3. CountsStay
  BY <1>1, <1>2, TroubleCountsNothing DEF CountsStay
<1>4. UNCHANGED led \/ \E x : Stamp(x) /\ Silent(x)
  <2>1. \A names : Silent([e |-> "seat-report", of |-> "write", why |-> "", names |-> names])
    BY DEF Silent
  <2>2. UNCHANGED led \/ \E names : Stamp([e |-> "seat-report", of |-> "write", why |-> "", names |-> names])
    BY DEF WriteRound, SeatFails, SeatWrites, Do, Go, StampAndGo
  <2> QED
    BY <2>1, <2>2
<1>5. Beside
  BY <1>1, <1>3, <1>4 DEF Beside, Behind
<1> QED
  BY <1>5, BesideKeeps

(* The commit is made where the commits that stand are the unread ones.      *)
LEMMA CommitSpends ==
  ASSUME RecordsInv, EarnInv, CommitInv, Commit
  PROVE  CommitInv'
<1>1. /\ at.pc = "commit" /\ at.pc \in InRound /\ UNCHANGED led /\ at'.pc = "stamp"
      /\ \E n \in {0, 1} : hist' = [hist EXCEPT !.commits = @ + n]
  <2> DEFINE changed == {r \in Records : at.out[r] \in {"rewritten", "closed", "silent"}}
  <2>1. hist' = [hist EXCEPT !.commits = IF changed = {} THEN @ ELSE @ + 1]
    BY DEF Commit
  <2> HIDE DEF changed
  <2>2. hist' = [hist EXCEPT !.commits = IF changed = {} THEN @ + 0 ELSE @ + 1]
    BY <2>1 DEF RecordsInv, Fields
  <2>3. \E n \in {0, 1} : hist' = [hist EXCEPT !.commits = @ + n]
    <3>1. CASE changed = {}
      BY <2>2, <3>1
    <3>2. CASE changed # {}
      BY <2>2, <3>2
    <3> QED
      BY <3>1, <3>2
  <2>4. at.pc = "commit" /\ at.pc \in InRound
    BY DEF Commit, InRound
  <2>5. \E rewritten, entries : Go([pc |-> "stamp", task |-> at.task, rewritten |-> rewritten, entries |-> entries])
    BY DEF Commit
  <2>6. UNCHANGED led /\ at'.pc = "stamp"
    BY <2>5 DEF Go
  <2> QED
    BY <2>3, <2>4, <2>6
<1>2. /\ hist'.commits <= hist.commits + 1 /\ hist'.commits \in Nat /\ hist'.unread = hist.unread
      /\ hist.commits \in Nat /\ hist.unread \in Nat
  BY <1>1 DEF RecordsInv, Fields
<1>3. PICK v : v = View /\ View' = v
  BY <1>1, ViewRests
<1>4. /\ at.task \in {"write", "correct"} /\ Due(at.task, v) /\ SetSince(at.task, v) /\ StampedSince(at.task, v) \cap v.set = {}
  BY <1>1, <1>3, RoundPlaces DEF EarnInv, PlaceFits
<1>5. tree.body = {}
  BY <1>1 DEF RecordsInv, PlaceIsSound
<1>6. hist.commits <= hist.unread
  BY <1>1, <1>3, <1>4, <1>5 DEF CommitInv, CommitsFit, Unstarted, Behind
<1>7. \A task \in {"write", "correct"} : Due(task, v) => SetSince(task, v)
  BY <1>4, OneTask
<1>8. CommitsFit(at', tree', hist', v)
  BY <1>1, <1>2, <1>6, <1>7 DEF CommitsFit, Behind
<1> QED
  BY <1>3, <1>8 DEF CommitInv

LEMMA StampWriteSpends ==
  ASSUME RecordsInv, EarnInv, CommitInv, StampWrite
  PROVE  CommitInv'
<1>1. /\ at.pc = "stamp" /\ at.pc \in InRound /\ UNCHANGED <<tree, hist>>
      /\ \/ Go([at EXCEPT !.pc = "written"])
         \/ \E r \in DOMAIN at.entries : StampAndGo([e |-> "record-written", of |-> r, why |-> at.entries[r]], at)
  BY DEF StampWrite, Do, DoStamp, Stay, InRound
<1>2. /\ IsLedger /\ Shapes /\ at.task \in {"write", "correct"} /\ Due(at.task, View) /\ SetSince(at.task, View)
      /\ RecordsOf(at) = View.set /\ View.set \subseteq Records /\ "pc" \in DOMAIN at
  BY <1>1, RoundPlaces
<1>3. CASE Go([at EXCEPT !.pc = "written"])
  <2>1. at' = [at EXCEPT !.pc = "written"] /\ UNCHANGED led
    BY <1>3 DEF Go
  <2>2. at'.pc \in Behind
    BY <1>2, <2>1 DEF Behind
  <2>3. View' = View /\ SameView(View, View)
    BY <2>1, ViewRests DEF SameView
  <2>4. CommitsFit(at', tree', hist', View)
    BY <1>1, <2>2, <2>3, SameCommits, StillCounts
  <2> QED
    BY <2>3, <2>4 DEF CommitInv
<1>4. CASE \E r \in DOMAIN at.entries : StampAndGo([e |-> "record-written", of |-> r, why |-> at.entries[r]], at)
  <2>1. PICK r \in DOMAIN at.entries : StampAndGo([e |-> "record-written", of |-> r, why |-> at.entries[r]], at)
    BY <1>4
  <2>2. PICK x : x = [e |-> "record-written", of |-> r, why |-> at.entries[r]]
    OBVIOUS
  <2>3. x.e = "record-written" /\ Stamp(x) /\ at' = at /\ Shape(x, 0)
    BY <2>1, <2>2 DEF StampAndGo, Shape, Unnumbered
  <2>4. PICK v, w : v = View /\ w = View'
    OBVIOUS
  <2>5. JudgedReading(x, v, w) /\ WrittenReading(x, v, w) /\ RenderedReading(x, v, w) /\ SetReading(x, v, w)
    BY <1>2, <2>3, <2>4, ViewMoves
  <2>6. /\ \A t : Due(t, w) <=> Due(t, v)
        /\ \A t : SetSince(t, w) <=> SetSince(t, v)
    BY <2>3, <2>5 DEF JudgedReading, WrittenReading, RenderedReading, SetReading, Due, WriteDue, CorrectDue, Anchored, SetSince
  <2>7. at'.pc \in Behind
    BY <1>1, <2>3 DEF Behind
  <2>8. CommitsFit(at', tree', hist', w)
    BY <1>1, <2>4, <2>6, <2>7 DEF CommitInv, CommitsFit
  <2> QED
    BY <2>4, <2>8 DEF CommitInv
<1> QED
  BY <1>1, <1>3, <1>4

LEMMA WrittenSpends ==
  ASSUME RecordsInv, RecordsInv', EarnInv, CommitInv, StampWritten \/ StampRound
  PROVE  CommitInv'
<1>1. CASE StampWritten
  <2>1. PICK x : x = [e |-> "reconciliation-written", of |-> "", ok |-> TRUE, entries |-> at.entries, rewritten |-> at.rewritten]
    OBVIOUS
  <2>2. Stamp(x) /\ \E rounds : hist' = [hist EXCEPT !.rounds = rounds]
    BY <1>1, <2>1 DEF StampWritten, StampAndGo
  <2>3. x.e = "reconciliation-written"
    BY <2>1
  <2>4. IsLedger /\ Shapes
    BY DEF RecordsInv, LedgerIsSound, IsLedger, EarnInv
  <2>5. WrittenReading(x, View, View')
    BY <2>2, <2>3, <2>4, ViewMoves
  <2>6. ~WriteDue(View') /\ ~CorrectDue(View')
    BY <2>3, <2>5 DEF WrittenReading, WriteDue, CorrectDue
  <2>7. hist'.commits <= 1 + hist'.unread
    BY <2>2 DEF CommitInv, CommitsFit, RecordsInv, Fields
  <2> QED
    BY <2>6, <2>7, NoneIsDue
<1>2. CASE StampRound
  <2>1. PICK x : x = [e |-> "reconcile-round", of |-> "", nth |-> at.round]
    OBVIOUS
  <2>2. at.pc = "count" /\ UNCHANGED <<tree, hist>> /\ Stamp(x)
    BY <1>2, <2>1 DEF StampRound, DoStamp, StampAndGo, Stay
  <2>3. Silent(x)
    BY <2>1 DEF Silent
  <2>4. Beside
    BY <2>2, <2>3, StillCounts DEF Beside, Behind
  <2> QED
    BY <2>4, BesideKeeps
<1> QED
  BY <1>1, <1>2

LEMMA CommitInvStarts ==
  ReconcileInit => CommitInv
<1> SUFFICES ASSUME ReconcileInit PROVE CommitInv
  OBVIOUS
<1>1. RecordsInv
  BY RecordsInvStarts
<1>2. hist.commits = 0 /\ hist.unread = 0
  BY DEF ReconcileInit, ReconcileStart
<1> QED
  BY <1>2 DEF CommitInv, CommitsFit

LEMMA CommitInvHolds ==
  RecordsInv /\ EarnInv /\ CommitInv /\ [ReconcileNext]_stageVars => CommitInv'
<1> SUFFICES ASSUME RecordsInv, EarnInv, CommitInv, [ReconcileNext]_stageVars PROVE CommitInv'
  OBVIOUS
<1>0. RecordsInv'
  BY RecordsInvHolds
<1>1. CASE UNCHANGED stageVars
  <2>1. UNCHANGED <<led, at, tree, hist>>
    BY <1>1 DEF stageVars, ledgerVars
  <2>2. View' = View
    BY <2>1, ViewRests
  <2> QED
    BY <2>1, <2>2 DEF CommitInv
<1>2. CASE WriteStep
  BY <1>0, <1>2, DispatchSpends, SeatSpends, CommitSpends, StampWriteSpends, WrittenSpends DEF WriteStep
<1>3. CASE StageStep
  BY <1>0, <1>2, <1>3, BirthSpends, TakeSpends, JudgmentsSpend, CycleSpends, EndingsSpend DEF StageStep
<1>4. CASE ReconcileNext
  BY <1>0, <1>3, <1>4, ReturnsSpend, RestsSpend DEF ReconcileNext, Handler
<1> QED
  BY <1>1, <1>4

LEMMA SpentOnceAlways == ReconcileSpec => [](RecordsInv /\ EarnInv /\ CommitInv)
<1>1. ReconcileInit => RecordsInv /\ EarnInv /\ CommitInv
  BY RecordsInvStarts, EarnInvStarts, CommitInvStarts
<1>2. RecordsInv /\ EarnInv /\ CommitInv /\ [ReconcileNext]_stageVars => (RecordsInv /\ EarnInv /\ CommitInv)'
  BY RecordsInvHolds, EarnInvHolds, CommitInvHolds
<1> QED
  BY <1>1, <1>2, PTL DEF ReconcileSpec

(* A round of writers commits once wherever a stop fell, but for commits     *)
(* that no body names and no stamp answers for, and a judgment is answered   *)
(* by no more rounds than the cap and what the stops lost (reconcile.mjs,    *)
(* writeRound, correctStep and roundCommits).                                *)
THEOREM WritersAreSentOnce == ReconcileSpec => []RoundsAreSpentOnce
<1>1. RecordsInv /\ EarnInv /\ CommitInv => RoundsAreSpentOnce
  BY RecordsInvImplies DEF CommitInv, CommitsFit, RoundsAreSpentOnce, ARoundCommitsOnce
<1> QED
  BY <1>1, SpentOnceAlways, PTL
=============================================================================
