---------------------------- MODULE Breaches_proofs ----------------------------
(* What follows a merge, as MCBreaches checks it.                            *)
(* What a merge that landed red leaves on record, for any set of findings,    *)
(* any number of slots, reds, refusals, commands and crashes: an escape for    *)
(* each finding once and a ticket on each before the breach is stamped, and    *)
(* one repair of the frontier for each.                                      *)
(* What the observers tell, for any number of runs, appends, polls, builds,   *)
(* failures and halts: one open breach of the wire, one piece of news for a    *)
(* red build, no duration record that nothing is to close, an escape of a      *)
(* failed proof once but for the halts, and every ship in one review.         *)
EXTENDS Breaches, Observers, TLAPS, SequenceTheorems, FiniteSetTheorems

---------------------------------------------------------------------------
(* The close-out and the frontier's repairs (Breaches). *)

Places == {"enter", "record", "tails", "ticket", "stamp", "watch", "rerun", "ask", "parked", "tail", "closed"}
Tails == {TailSteps[k] : k \in DOMAIN TailSteps}
Breach == [state : {"none", "open", "resolved"}, ticketed : SUBSET Nat]
Origin == [pc : Places, breach : Breach, check : {"running", "green", "red"}, budget : BOOLEAN,
           tail : Seq(Tails)]
Escape == [finding : Findings, ticket : BOOLEAN, fixed : BOOLEAN]
Repair == [escape : Nat, by : {"sweep", "operator"}, state : {"open", "fixed", "closed"}]
Pass == [pc : {"idle", "pass", "launch"}, owed : SUBSET Nat]

OriginTyped == origin \in Origin /\ Len(origin.tail) <= Len(TailSteps)
EscapesTyped == escapes \in Seq(Escape)
SweepTyped == runs \in Seq(Repair) /\ sweep \in Pass /\ door \subseteq Nat

---------------------------------------------------------------------------
(* The origin run and the escapes. *)

(* The close-out records while something of the verdict is unrecorded, and       *)
(* stamps the breach behind the last ticket.                                   *)
Recording == /\ NoFindingEscapesTwice
             /\ origin.pc = "record" /\ Unrecorded = {} => Findings = {}
Ticketing == /\ Sync \/ origin.pc = "tails" => origin.breach.state = "none"
             /\ origin.pc = "stamp" => Unticketed = {}
             /\ ABreachTicketsItsEscapes
OnRecord == OriginTyped /\ EscapesTyped /\ Recording /\ Ticketing

LEMMA SeqDomain ==
  ASSUME NEW S, NEW s \in Seq(S)
  PROVE  DOMAIN s = 1..Len(s) /\ Len(s) \in Nat /\ \A k \in DOMAIN s : s[k] \in S
OBVIOUS

LEMMA AppendIs ==
  ASSUME NEW S, NEW s \in Seq(S), NEW x \in S
  PROVE  /\ Append(s, x) \in Seq(S) /\ Len(s) + 1 \notin DOMAIN s
         /\ DOMAIN Append(s, x) = DOMAIN s \cup {Len(s) + 1}
         /\ Append(s, x)[Len(s) + 1] = x
         /\ \A k \in DOMAIN s : Append(s, x)[k] = s[k]
OBVIOUS

(* An escape keeps its finding and its marks; a mark is set, never taken back.   *)
Marked == /\ DOMAIN escapes' = DOMAIN escapes
          /\ \A e \in DOMAIN escapes :
               /\ escapes'[e].finding = escapes[e].finding
               /\ escapes[e].ticket => escapes'[e].ticket
               /\ escapes[e].fixed => escapes'[e].fixed

LEMMA MarkedIs ==
  ASSUME EscapesTyped, NEW e,
         \/ escapes' = [escapes EXCEPT ![e].ticket = TRUE]
         \/ escapes' = [escapes EXCEPT ![e].fixed = TRUE]
  PROVE  EscapesTyped' /\ Marked
<1>1. escapes \in Seq(Escape) /\ DOMAIN escapes = 1..Len(escapes) /\ Len(escapes) \in Nat
  BY DEF EscapesTyped
<1>2. ASSUME NEW x \in Escape
      PROVE  /\ [x EXCEPT !.ticket = TRUE] \in Escape /\ [x EXCEPT !.fixed = TRUE] \in Escape
             /\ [x EXCEPT !.ticket = TRUE].finding = x.finding /\ [x EXCEPT !.fixed = TRUE].finding = x.finding
             /\ [x EXCEPT !.ticket = TRUE].ticket /\ [x EXCEPT !.ticket = TRUE].fixed = x.fixed
             /\ [x EXCEPT !.fixed = TRUE].fixed /\ [x EXCEPT !.fixed = TRUE].ticket = x.ticket
  BY DEF Escape
<1>3. PICK y :
        /\ escapes' = [escapes EXCEPT ![e] = y]
        /\ e \in DOMAIN escapes => /\ y \in Escape /\ y.finding = escapes[e].finding
                                   /\ escapes[e].ticket => y.ticket
                                   /\ escapes[e].fixed => y.fixed
  <2>1. e \in DOMAIN escapes => escapes[e] \in Escape
    BY <1>1
  <2>2. CASE escapes' = [escapes EXCEPT ![e].ticket = TRUE]
    <3> WITNESS [escapes[e] EXCEPT !.ticket = TRUE]
    <3> QED
      BY <1>2, <2>1, <2>2
  <2>3. CASE escapes' = [escapes EXCEPT ![e].fixed = TRUE]
    <3> WITNESS [escapes[e] EXCEPT !.fixed = TRUE]
    <3> QED
      BY <1>2, <2>1, <2>3
  <2> QED
    BY <2>2, <2>3
<1>4. /\ DOMAIN escapes' = DOMAIN escapes
      /\ \A d \in DOMAIN escapes : escapes'[d] = IF d = e THEN y ELSE escapes[d]
  BY <1>1, <1>3
<1>5. \A d \in DOMAIN escapes : escapes'[d] \in Escape
  BY <1>1, <1>3, <1>4
<1>6. escapes' \in Seq(Escape)
  <2>1. CASE e \in DOMAIN escapes
    BY <1>1, <1>3, <2>1, ExceptSeq
  <2>2. CASE e \notin DOMAIN escapes
    <3>1. escapes' = escapes
      BY <1>1, <1>3, <2>2
    <3> QED
      BY <1>1, <3>1
  <2> QED
    BY <2>1, <2>2
<1>7. Marked
  BY <1>3, <1>4 DEF Marked
<1> QED
  BY <1>6, <1>7 DEF EscapesTyped

(* What the marks leave of what is on record. *)
LEMMA MarkedRecords ==
  ASSUME Marked, EscapesTyped, EscapesTyped'
  PROVE  /\ Recorded' = Recorded /\ Unrecorded' = Unrecorded /\ Unticketed' \subseteq Unticketed
         /\ (NoFindingEscapesTwice => NoFindingEscapesTwice')
         /\ Fixed \cup Ticketed \subseteq (Fixed \cup Ticketed)'
<1>1. Recorded' = Recorded /\ \A e \in Recorded : escapes'[e].finding = escapes[e].finding
  BY DEF Marked, Recorded
<1>2. Unrecorded' = Unrecorded
  BY <1>1 DEF Unrecorded
<1>3. Fixed \subseteq Fixed' /\ Ticketed \subseteq Ticketed'
  BY DEF Marked, Fixed, Ticketed, Recorded
<1>4. NoFindingEscapesTwice => NoFindingEscapesTwice'
  BY <1>1 DEF NoFindingEscapesTwice
<1> QED
  BY <1>1, <1>2, <1>3, <1>4 DEF Unticketed

(* The origin run goes to another place, its breach as it was. *)
OriginGoes(pc) == /\ OriginTyped' /\ origin'.pc = pc /\ origin'.breach = origin.breach

LEMMA BreachType == ASSUME OriginTyped PROVE origin.breach \in Breach /\ origin.breach.state \in {"none", "open", "resolved"}
BY DEF OriginTyped, Origin, Breach

LEMMA GoesIs ==
  ASSUME OriginTyped, NEW pc \in Places, NEW check \in {"running", "green", "red"}, NEW budget \in BOOLEAN,
         \/ origin' = [origin EXCEPT !.pc = pc]
         \/ origin' = [origin EXCEPT !.pc = pc, !.check = check]
         \/ origin' = [origin EXCEPT !.pc = pc, !.budget = budget]
  PROVE  OriginGoes(pc)
BY DEF OriginTyped, Origin, OriginGoes

(* A step elsewhere, or one of the origin run between the places that matter.    *)
LEMMA GoesOnRecord ==
  ASSUME OnRecord, NEW pc, OriginGoes(pc), escapes' = escapes,
         pc = "record" => origin.breach.state = "none" /\ Recorded = {},
         pc \in {"tails", "ticket"} => origin.breach.state = "none",
         pc = "stamp" => origin.breach.state = "none" /\ Unticketed = {}
  PROVE  OnRecord'
<1>1. /\ Recorded' = Recorded /\ Fixed' = Fixed /\ Ticketed' = Ticketed /\ EscapesTyped'
      /\ Unrecorded' = Unrecorded /\ Unticketed' = Unticketed
  BY DEF Recorded, Fixed, Ticketed, Unrecorded, Unticketed, EscapesTyped, OnRecord
<1>2. NoFindingEscapesTwice'
  BY <1>1 DEF OnRecord, Recording, NoFindingEscapesTwice
<1>3. pc = "record" /\ Unrecorded = {} => Findings = {}
  BY DEF Unrecorded
<1>4. Recording'
  BY <1>1, <1>2, <1>3 DEF Recording, OriginGoes
<1>5. Ticketing'
  BY <1>1 DEF Ticketing, OnRecord, OriginGoes, Sync, ABreachTicketsItsEscapes
<1> QED
  BY <1>1, <1>4, <1>5 DEF OnRecord, OriginGoes

LEMMA StandsOnRecord ==
  ASSUME OnRecord, UNCHANGED <<origin, escapes>>
  PROVE  OnRecord'
BY DEF OnRecord, OriginTyped, EscapesTyped, Recording, Ticketing, NoFindingEscapesTwice, Unrecorded,
       Unticketed, ABreachTicketsItsEscapes, Recorded, Fixed, Ticketed, Sync

(* A finding goes into the ledger. *)
LEMMA RecordEscapeIs ==
  ASSUME OnRecord, RecordEscape
  PROVE  OnRecord'
<1>1. PICK f \in IF Unrecorded = {} THEN Findings ELSE Unrecorded :
        escapes' = Append(escapes, [finding |-> f, ticket |-> FALSE, fixed |-> FALSE])
  BY DEF RecordEscape
<1> DEFINE new == [finding |-> f, ticket |-> FALSE, fixed |-> FALSE]
           pc == IF Cardinality(Unrecorded) <= 1 THEN "tails" ELSE "record"
<1>2. origin.pc = "record" /\ origin.breach.state = "none"
  BY DEF RecordEscape, OnRecord, Ticketing, Sync
<1>3. Unrecorded # {} /\ f \in Unrecorded /\ f \in Findings
  BY <1>1, <1>2 DEF OnRecord, Recording, Unrecorded
<1>4. new \in Escape /\ new.finding = f
  BY <1>3 DEF Escape
<1>5. escapes' = Append(escapes, new)
  BY <1>1
<1> HIDE DEF new
<1>6. /\ EscapesTyped' /\ Len(escapes) + 1 \notin DOMAIN escapes
      /\ DOMAIN escapes' = DOMAIN escapes \cup {Len(escapes) + 1}
      /\ escapes'[Len(escapes) + 1].finding = f
      /\ \A e \in DOMAIN escapes : escapes'[e] = escapes[e]
  BY <1>4, <1>5, AppendIs DEF OnRecord, EscapesTyped
<1>7. f \notin {escapes[e].finding : e \in Recorded}
  BY <1>3 DEF Unrecorded
<1>8. NoFindingEscapesTwice'
  BY <1>6, <1>7 DEF OnRecord, Recording, NoFindingEscapesTwice, Recorded
<1>9. Unrecorded' = Unrecorded \ {f}
  BY <1>6 DEF Unrecorded, Recorded
<1>10. Cardinality(Unrecorded) > 1 => Unrecorded' # {}
  <2>1. IsFiniteSet(Unrecorded)
    BY FiniteFindings, FS_Subset DEF Unrecorded
  <2>2. Unrecorded' = {} => Unrecorded = {f}
    BY <1>3, <1>9
  <2>3. Cardinality({f}) = 1
    BY FS_Singleton
  <2> QED
    BY <2>2, <2>3
<1>11. pc \in Places /\ origin' = [origin EXCEPT !.pc = pc] /\ (pc = "record" => ~(Cardinality(Unrecorded) <= 1))
       /\ pc \in {"record", "tails"}
  BY DEF Places, RecordEscape, Steps
<1> HIDE DEF pc
<1>12. OriginGoes(pc)
  BY <1>11, GoesIs DEF OnRecord
<1>13. Cardinality(Unrecorded) \in Nat
  BY FiniteFindings, FS_Subset, FS_CardinalityType DEF Unrecorded
<1>14. Recording'
  BY <1>8, <1>10, <1>11, <1>12, <1>13 DEF Recording, OriginGoes
<1>15. Ticketing'
  BY <1>2, <1>11, <1>12 DEF Ticketing, OriginGoes, ABreachTicketsItsEscapes, Sync
<1> QED
  BY <1>6, <1>12, <1>14, <1>15 DEF OnRecord, OriginGoes

(* A ticket, and the stamp behind the last. *)
LEMMA TicketEscapeIs ==
  ASSUME OnRecord, TicketEscape
  PROVE  OnRecord'
<1>1. origin.pc = "ticket" /\ origin.breach.state = "none"
  BY DEF TicketEscape, OnRecord, Ticketing, Sync
<1>2. CASE Unticketed = {}
  <2>1. OriginGoes("stamp") /\ escapes' = escapes
    BY <1>2, GoesIs DEF TicketEscape, Steps, Places, OnRecord
  <2> QED
    BY <1>1, <1>2, <2>1, GoesOnRecord
<1>3. CASE Unticketed # {}
  <2>1. PICK e \in Unticketed : escapes' = [escapes EXCEPT ![e].ticket = TRUE]
    BY <1>3 DEF TicketEscape
  <2>2. EscapesTyped' /\ Marked
    BY <2>1, MarkedIs DEF OnRecord
  <2>3. /\ Unrecorded' = Unrecorded /\ NoFindingEscapesTwice'
        /\ origin' = origin
    BY <1>3, <2>2, MarkedRecords DEF OnRecord, Recording, TicketEscape
  <2>4. Recording' /\ OriginTyped'
    BY <2>3 DEF OnRecord, Recording, OriginTyped
  <2>5. Ticketing'
    BY <1>1, <2>3 DEF Ticketing, ABreachTicketsItsEscapes, Sync
  <2> QED
    BY <2>2, <2>4, <2>5 DEF OnRecord
<1> QED
  BY <1>2, <1>3

LEMMA StampBreachIs ==
  ASSUME OnRecord, StampBreach
  PROVE  OnRecord'
<1>1. /\ origin' = [origin EXCEPT !.pc = "watch", !.breach = [state |-> "open", ticketed |-> Recorded \ Fixed]]
      /\ escapes' = escapes /\ Unticketed = {}
  BY DEF StampBreach, OnRecord, Ticketing
<1>2. Recorded \ Fixed \subseteq Nat
  BY DEF OnRecord, EscapesTyped, Recorded
<1>3. [state |-> "open", ticketed |-> Recorded \ Fixed] \in Breach
  BY <1>2 DEF Breach
<1>4. OriginTyped' /\ origin'.pc = "watch"
  BY <1>1, <1>3 DEF OnRecord, OriginTyped, Origin, Places
<1>5. Recorded' = Recorded /\ Fixed' = Fixed /\ Ticketed' = Ticketed /\ EscapesTyped'
  BY <1>1 DEF Recorded, Fixed, Ticketed, EscapesTyped, OnRecord
<1>6. Recording'
  BY <1>1, <1>4, <1>5 DEF OnRecord, Recording, NoFindingEscapesTwice
<1>7. Ticketing'
  BY <1>1, <1>4, <1>5 DEF Ticketing, ABreachTicketsItsEscapes, Unticketed, Sync
<1> QED
  BY <1>4, <1>5, <1>6, <1>7 DEF OnRecord

(* A fix settles at most the breach of a run that is over. *)
LEMMA FixesIs ==
  ASSUME OnRecord, ~Sync, NEW e, NEW fixed,
         escapes' = [escapes EXCEPT ![e].fixed = TRUE], origin' = Settled(fixed)
  PROVE  OnRecord'
<1>1. EscapesTyped' /\ Marked
  BY MarkedIs DEF OnRecord
<1>2. /\ OriginTyped' /\ origin'.pc = origin.pc
      /\ origin'.breach.state = "none" <=> origin.breach.state = "none"
  <2>1. CASE origin' = origin
    BY <2>1 DEF OnRecord, OriginTyped
  <2>2. CASE origin' # origin
    <3>1. origin' = [origin EXCEPT !.breach.state = "resolved"] /\ origin.breach.state = "open"
      BY <2>2 DEF Settled
    <3>2. [origin.breach EXCEPT !.state = "resolved"] \in Breach
      BY DEF OnRecord, OriginTyped, Origin, Breach
    <3>3. [origin.breach EXCEPT !.state = "resolved"].state = "resolved"
      BY DEF OnRecord, OriginTyped, Origin, Breach
    <3> DEFINE b == [origin.breach EXCEPT !.state = "resolved"]
    <3>4. origin' = [origin EXCEPT !.breach = b]
      BY <3>1
    <3> HIDE DEF b
    <3>5. OriginTyped' /\ origin'.pc = origin.pc /\ origin'.breach = b
      BY <3>2, <3>4 DEF OnRecord, OriginTyped, Origin, b
    <3> QED
      BY <3>1, <3>3, <3>5 DEF b
  <2> QED
    BY <2>1, <2>2
<1>3. /\ Recorded' = Recorded /\ NoFindingEscapesTwice'
      /\ Fixed \cup Ticketed \subseteq (Fixed \cup Ticketed)'
  BY <1>1, MarkedRecords DEF OnRecord, Recording
<1>4. Recording'
  BY <1>2, <1>3 DEF Recording, Sync
<1>5. Ticketing'
  <2>1. ABreachTicketsItsEscapes'
    BY <1>2, <1>3 DEF OnRecord, Ticketing, ABreachTicketsItsEscapes
  <2> QED
    BY <1>2, <2>1 DEF OnRecord, Ticketing, Sync
<1> QED
  BY <1>1, <1>2, <1>4, <1>5 DEF OnRecord

LEMMA CloseOutIs ==
  ASSUME OnRecord, CloseOut
  PROVE  OnRecord'
<1> DEFINE pc == CASE origin.breach.state # "none" -> "watch"
                   [] origin.breach.state = "none" /\ Entries = {} -> "record"
                   [] OTHER -> "tails"
<1>1. /\ origin' = [origin EXCEPT !.pc = pc] /\ escapes' = escapes
  BY DEF CloseOut, Steps, OnlyOrigin
<1>2. /\ pc \in {"watch", "record", "tails"}
      /\ pc # "watch" => origin.breach.state = "none"
      /\ pc = "record" => Recorded = {}
  BY DEF Entries
<1> HIDE DEF pc
<1>3. OriginGoes(pc)
  BY <1>1, <1>2, GoesIs DEF OnRecord, Places
<1> QED
  BY <1>1, <1>2, <1>3, GoesOnRecord

LEMMA TailStepsAre == Len(TailSteps) = 6 /\ DOMAIN TailSteps = 1..6
BY DEF TailSteps

(* Every place behind the stamp of the breach is the same to the record.         *)
LEMMA OnwardIs ==
  ASSUME OnRecord,
         \/ RedCheckTails \/ ChecksConclude \/ WatchMergeCommit \/ StampRerun \/ ParkGate \/ TailStep
         \/ Close \/ AnswerGate \/ Crash
  PROVE  OnRecord'
<1>0. escapes' = escapes
  BY DEF RedCheckTails, ChecksConclude, WatchMergeCommit, StampRerun, ParkGate, TailStep, Close, AnswerGate,
         Crash, OnlyOrigin
<1> DEFINE Onward == {"enter", "watch", "tail", "rerun", "ask", "parked", "closed"}
<1>1. ASSUME NEW pc \in Onward, OriginGoes(pc) PROVE OnRecord'
  BY <1>0, <1>1, GoesOnRecord
<1>2. CASE RedCheckTails
  <2>1. origin' = [origin EXCEPT !.pc = "ticket"] /\ origin.breach.state = "none"
    BY <1>2 DEF RedCheckTails, Steps, OnRecord, Ticketing
  <2>2. OriginGoes("ticket")
    BY <2>1, GoesIs DEF OnRecord, Places
  <2> QED
    BY <1>0, <2>1, <2>2, GoesOnRecord
<1>3. CASE ChecksConclude
  <2>1. /\ \/ origin' = [origin EXCEPT !.check = "green"] \/ origin' = [origin EXCEPT !.check = "red"]
        /\ origin.pc = "watch"
    BY <1>3 DEF ChecksConclude
  <2>2. OriginGoes("watch")
    BY <2>1 DEF OnRecord, OriginTyped, Origin, OriginGoes
  <2> QED
    BY <1>1, <2>2
<1>4. CASE WatchMergeCommit
  <2>1. \/ origin' = [origin EXCEPT !.pc = "tail"]
        \/ origin' = [origin EXCEPT !.pc = "rerun", !.check = "running"]
        \/ origin' = [origin EXCEPT !.pc = "ask"]
    BY <1>4 DEF WatchMergeCommit
  <2>2. \E pc \in Onward : OriginGoes(pc)
    BY <2>1, GoesIs DEF OnRecord, Places
  <2> QED
    BY <1>1, <2>2
<1>5. CASE StampRerun \/ ParkGate \/ Close \/ AnswerGate
  <2>1. \/ origin' = [origin EXCEPT !.pc = "watch", !.budget = FALSE]
        \/ origin' = [origin EXCEPT !.pc = "parked"]
        \/ origin' = [origin EXCEPT !.pc = "closed"]
        \/ origin' = [origin EXCEPT !.pc = "enter", !.budget = TRUE]
    BY <1>5 DEF StampRerun, ParkGate, Close, AnswerGate, Steps
  <2>2. \E pc \in Onward : OriginGoes(pc)
    BY <2>1, GoesIs DEF OnRecord, Places
  <2> QED
    BY <1>1, <2>2
<1>6. CASE TailStep
  <2>1. /\ origin' = [origin EXCEPT !.tail = Append(@, TailSteps[Len(@) + 1])]
        /\ origin.pc = "tail" /\ Len(origin.tail) # Len(TailSteps)
    BY <1>6 DEF TailStep, TailDone
  <2>2. Len(origin.tail) <= 6 /\ Len(TailSteps) = 6 /\ origin.tail \in Seq(Tails) /\ origin \in Origin
    BY TailStepsAre DEF OnRecord, OriginTyped, Origin
  <2>3. Len(origin.tail) \in Nat
    BY <2>2, LenProperties
  <2>4. \A n \in Nat : n <= 6 /\ n # 6 => n + 1 \in 1..6
    OBVIOUS
  <2>5. Len(origin.tail) # 6
    BY <2>1, <2>2
  <2>6. Len(origin.tail) + 1 \in 1..6
    BY <2>2, <2>3, <2>4, <2>5
  <2> DEFINE next == TailSteps[Len(origin.tail) + 1]
             tail == Append(origin.tail, next)
  <2>7. next \in Tails
    BY <2>6, TailStepsAre DEF Tails
  <2> HIDE DEF next
  <2>8. tail \in Seq(Tails) /\ Len(tail) <= Len(TailSteps)
    <3>1. tail \in Seq(Tails) /\ Len(tail) = Len(origin.tail) + 1
      BY <2>2, <2>7, AppendProperties
    <3> QED
      BY <2>2, <2>6, <2>3, <3>1
  <2>9. origin' = [origin EXCEPT !.tail = tail]
    BY <2>1 DEF next
  <2> HIDE DEF tail
  <2>10. OriginGoes("tail")
    BY <2>1, <2>2, <2>8, <2>9 DEF OriginGoes, OriginTyped, Origin
  <2> QED
    BY <1>1, <2>10
<1>7. CASE Crash
  <2>1. CASE OriginActive
    <3>1. origin' = [origin EXCEPT !.pc = "enter"]
      BY <1>7, <2>1 DEF Crash
    <3>2. OriginGoes("enter")
      BY <3>1, GoesIs DEF OnRecord, Places
    <3> QED
      BY <1>1, <3>2
  <2>2. CASE ~OriginActive
    <3>1. origin' = [origin EXCEPT !.pc = origin.pc] /\ origin.pc \in {"parked", "closed"}
      BY <1>7, <2>2 DEF Crash, OriginActive
    <3>2. origin' = origin
      BY <3>1 DEF OnRecord, OriginTyped, Origin
    <3> QED
      BY <1>0, <3>2, StandsOnRecord
  <2> QED
    BY <2>1, <2>2
<1> QED
  BY <1>2, <1>3, <1>4, <1>5, <1>6, <1>7

LEMMA OnRecordStep ==
  ASSUME OnRecord, [Next]_vars
  PROVE  OnRecord'
<1>1. CASE \/ SweepStep \/ RunCloses \/ SetArmed \/ LaunchEscape \/ DoorLaunches \/ UNCHANGED vars
  <2>1. UNCHANGED <<origin, escapes>>
    BY <1>1 DEF SweepStep, SweepStarts, RepairPass, SweepLaunches, SweepRefused, OnlySweep, RunCloses, SetArmed,
                LaunchEscape, DoorLaunches, vars
  <2> QED
    BY <2>1, StandsOnRecord
<1>2. CASE FixEscapeBack \/ MarkFixed
  <2>1. ~Sync /\ \E e : /\ escapes' = [escapes EXCEPT ![e].fixed = TRUE]
                        /\ \E fixed : origin' = Settled(fixed)
    BY <1>2 DEF FixEscapeBack, MarkFixed, Command
  <2> QED
    BY <2>1, FixesIs
<1>3. CASE OriginStep \/ AnswerGate \/ Crash
  BY <1>3, CloseOutIs, RecordEscapeIs, TicketEscapeIs, StampBreachIs, OnwardIs DEF OriginStep
<1> QED
  BY <1>1, <1>2, <1>3 DEF Next

LEMMA InitOnRecord == Init => OnRecord
<1> SUFFICES ASSUME Init PROVE OnRecord
  OBVIOUS
<1>1. /\ escapes = <<>>
      /\ origin = [pc |-> "enter", breach |-> [state |-> "none", ticketed |-> {}], check |-> "running",
                   budget |-> TRUE, tail |-> <<>>]
  BY DEF Init, NoBreach
<1>2. OriginTyped /\ origin.pc = "enter" /\ origin.breach.state = "none"
  <2>1. [state |-> "none", ticketed |-> {}] \in Breach
    BY DEF Breach
  <2> QED
    BY <1>1, <2>1 DEF OriginTyped, Origin, Places, TailSteps
<1>3. EscapesTyped /\ DOMAIN escapes = {}
  BY <1>1 DEF EscapesTyped
<1>4. Recording /\ Ticketing
  BY <1>2, <1>3 DEF Recording, NoFindingEscapesTwice, Recorded, Ticketing, Sync, ABreachTicketsItsEscapes
<1> QED
  BY <1>2, <1>3, <1>4 DEF OnRecord

LEMMA OnRecordAlways == Spec => []OnRecord
<1>1. OnRecord /\ [Next]_vars => OnRecord'
  BY OnRecordStep
<1> QED
  BY InitOnRecord, <1>1, PTL DEF Spec

---------------------------------------------------------------------------
(* The frontier's repairs. *)

(* What the pass still owes, no run of a sweep carries.                         *)
OwedAnew == \A e \in sweep.owed : \A i \in DOMAIN runs : runs[i].by = "sweep" => runs[i].escape # e
Sweeping == SweepTyped /\ OwedAnew /\ SweptOnce

(* The runs stay of their escapes and of who launched them.                      *)
LEMMA RunsStay ==
  ASSUME Sweeping, runs' \in Seq(Repair), DOMAIN runs' = DOMAIN runs, door' \subseteq Nat,
         \A i \in DOMAIN runs : runs'[i].by = runs[i].by /\ runs'[i].escape = runs[i].escape,
         sweep' \in Pass, sweep'.owed \subseteq sweep.owed
  PROVE  Sweeping'
<1>1. OwedAnew'
  BY DEF Sweeping, OwedAnew
<1>2. SweptOnce'
  BY DEF Sweeping, SweptOnce
<1> QED
  BY <1>1, <1>2 DEF Sweeping, SweepTyped

LEMMA RunGoes ==
  ASSUME runs \in Seq(Repair), NEW i \in DOMAIN runs, NEW st \in {"open", "fixed", "closed"},
         runs' = [runs EXCEPT ![i].state = st]
  PROVE  /\ runs' \in Seq(Repair) /\ DOMAIN runs' = DOMAIN runs
         /\ \A j \in DOMAIN runs : runs'[j].by = runs[j].by /\ runs'[j].escape = runs[j].escape
<1> DEFINE y == [runs[i] EXCEPT !.state = st]
<1>1. runs[i] \in Repair /\ runs' = [runs EXCEPT ![i] = y]
  OBVIOUS
<1>2. y \in Repair /\ y.by = runs[i].by /\ y.escape = runs[i].escape
  BY <1>1 DEF Repair
<1> HIDE DEF y
<1>3. /\ runs' \in Seq(Repair) /\ Len(runs') = Len(runs)
      /\ \A j \in 1..Len(runs) : runs'[j] = IF j = i THEN y ELSE runs[j]
  BY <1>1, <1>2, ExceptSeq
<1> QED
  BY <1>2, <1>3

LEMMA LaunchedIs ==
  ASSUME runs \in Seq(Repair), NEW e \in Nat, NEW by \in {"sweep", "operator"}, runs' = Launched(e, by)
  PROVE  /\ runs' \in Seq(Repair) /\ Len(runs) + 1 \notin DOMAIN runs
         /\ DOMAIN runs' = DOMAIN runs \cup {Len(runs) + 1}
         /\ runs'[Len(runs) + 1].by = by /\ runs'[Len(runs) + 1].escape = e
         /\ \A i \in DOMAIN runs : runs'[i] = runs[i]
<1> DEFINE new == [escape |-> e, by |-> by, state |-> "open"]
<1>1. new \in Repair /\ new.by = by /\ new.escape = e /\ runs' = Append(runs, new)
  BY DEF Repair, Launched
<1> HIDE DEF new
<1> QED
  BY <1>1, AppendIs

LEMMA IdlePass == Idle \in Pass /\ Idle.owed = {}
BY DEF Idle, Pass

LEMMA SweepingStep ==
  ASSUME OnRecord, Sweeping, [Next]_vars
  PROVE  Sweeping'
<1>0. runs \in Seq(Repair) /\ sweep \in Pass /\ door \subseteq Nat
  BY DEF Sweeping, SweepTyped
<1>1. CASE OriginStep \/ AnswerGate \/ SetArmed \/ MarkFixed \/ UNCHANGED vars
  <2>1. UNCHANGED <<runs, sweep, door>>
    BY <1>1 DEF OriginStep, CloseOut, RecordEscape, RedCheckTails, TicketEscape, StampBreach, ChecksConclude,
                WatchMergeCommit, StampRerun, ParkGate, TailStep, Close, AnswerGate, SetArmed, MarkFixed,
                OnlyOrigin, vars
  <2> QED
    BY <1>0, <2>1, RunsStay
<1>2. CASE LaunchEscape
  <2>1. UNCHANGED <<runs, sweep>> /\ \E e \in Ticketed \ Fixed : door' = door \cup {e}
    BY <1>2 DEF LaunchEscape
  <2>2. Ticketed \subseteq Nat
    BY DEF OnRecord, EscapesTyped, Ticketed, Recorded
  <2> QED
    BY <1>0, <2>1, <2>2, RunsStay
<1>3. CASE FixEscapeBack \/ RunCloses
  <2>1. PICK i \in DOMAIN runs, st \in {"fixed", "closed"} :
          runs' = [runs EXCEPT ![i].state = st] /\ UNCHANGED <<sweep, door>>
    BY <1>3 DEF FixEscapeBack, RunCloses, RunsOnly
  <2> QED
    BY <1>0, <2>1, RunGoes, RunsStay
<1>4. CASE Crash \/ SweepRefused \/ RepairPass
  <2>1. runs' = runs /\ door' \subseteq Nat
    BY <1>0, <1>4 DEF Crash, SweepRefused, RepairPass, OnlySweep
  <2>2. sweep' = Idle \/ sweep' = [sweep EXCEPT !.pc = "launch"]
    BY <1>4 DEF Crash, SweepRefused, RepairPass, EndPass
  <2>3. sweep' \in Pass /\ sweep'.owed \subseteq sweep.owed
    BY <1>0, <2>2, IdlePass DEF Pass
  <2> QED
    BY <1>0, <2>1, <2>3, RunsStay
<1>5. CASE SweepStarts
  <2>1. UNCHANGED <<runs, door>> /\ (sweep' = Idle \/ sweep' = [pc |-> "pass", owed |-> OwedRepairs])
    BY <1>5 DEF SweepStarts, OnlySweep
  <2>2. OwedRepairs \subseteq Nat /\ OwedRepairs \cap RepairedEscapes = {}
    BY DEF OnRecord, EscapesTyped, OwedRepairs, Ticketed, Recorded
  <2>3. sweep' \in Pass /\ sweep'.owed \cap RepairedEscapes = {}
    <3>1. CASE sweep' = Idle
      BY <3>1, IdlePass
    <3>2. CASE sweep' = [pc |-> "pass", owed |-> OwedRepairs]
      BY <2>2, <3>2 DEF Pass
    <3> QED
      BY <2>1, <3>1, <3>2
  <2>4. OwedAnew'
    BY <2>1, <2>3 DEF OwedAnew, RepairedEscapes
  <2>5. SweptOnce'
    BY <2>1 DEF Sweeping, SweptOnce
  <2> QED
    BY <1>0, <2>1, <2>3, <2>4, <2>5 DEF Sweeping, SweepTyped
<1>6. CASE SweepLaunches
  <2>1. PICK e \in sweep.owed :
          runs' = Launched(e, "sweep") /\ sweep' = [pc |-> "pass", owed |-> sweep.owed \ {e}]
    BY <1>6 DEF SweepLaunches
  <2>2. e \in Nat /\ sweep' \in Pass /\ sweep'.owed = sweep.owed \ {e} /\ door' = door
    BY <1>0, <1>6, <2>1 DEF Pass, SweepLaunches, OnlySweep
  <2>3. /\ runs' \in Seq(Repair) /\ Len(runs) + 1 \notin DOMAIN runs
        /\ DOMAIN runs' = DOMAIN runs \cup {Len(runs) + 1}
        /\ runs'[Len(runs) + 1].by = "sweep" /\ runs'[Len(runs) + 1].escape = e
        /\ \A i \in DOMAIN runs : runs'[i] = runs[i]
    BY <1>0, <2>1, <2>2, LaunchedIs
  <2>4. \A i \in DOMAIN runs : runs[i].by = "sweep" => runs[i].escape # e
    BY DEF Sweeping, OwedAnew
  <2>5. OwedAnew'
    BY <2>2, <2>3 DEF Sweeping, OwedAnew
  <2>6. SweptOnce'
    BY <2>3, <2>4 DEF Sweeping, SweptOnce
  <2> QED
    BY <1>0, <2>2, <2>3, <2>5, <2>6 DEF Sweeping, SweepTyped
<1>7. CASE DoorLaunches
  <2>1. PICK e \in door : /\ door' = door \ {e} /\ sweep' = sweep
                          /\ runs' = Launched(e, "operator") \/ runs' = runs
    BY <1>7 DEF DoorLaunches
  <2>2. CASE runs' = runs
    BY <1>0, <2>1, <2>2, RunsStay
  <2>3. CASE runs' = Launched(e, "operator")
    <3>1. /\ runs' \in Seq(Repair) /\ DOMAIN runs' = DOMAIN runs \cup {Len(runs) + 1}
          /\ runs'[Len(runs) + 1].by = "operator"
          /\ \A i \in DOMAIN runs : runs'[i] = runs[i]
      BY <1>0, <2>3, LaunchedIs
    <3>2. OwedAnew'
      BY <2>1, <3>1 DEF Sweeping, OwedAnew
    <3>3. SweptOnce'
      BY <3>1 DEF Sweeping, SweptOnce
    <3> QED
      BY <1>0, <2>1, <3>1, <3>2, <3>3 DEF Sweeping, SweepTyped
  <2> QED
    BY <2>1, <2>2, <2>3
<1> QED
  BY <1>1, <1>2, <1>3, <1>4, <1>5, <1>6, <1>7 DEF Next, SweepStep

LEMMA SweepingAlways == Spec => []Sweeping
<1>1. Init => Sweeping
  BY IdlePass DEF Init, Sweeping, SweepTyped, OwedAnew, SweptOnce
<1>2. OnRecord /\ Sweeping /\ [Next]_vars => Sweeping'
  BY SweepingStep
<1> QED
  BY OnRecordAlways, <1>1, <1>2, PTL DEF Spec

---------------------------------------------------------------------------
(* What a project that is not armed is told. *)

Desk == [armed : BOOLEAN, items : SUBSET SUBSET Nat]
AtRest == sweep.pc = "idle" /\ ~queued
Apart == \A a, b \in desk.items : a # b => a \cap b = {}
NoneStale == AtRest => \A item \in desk.items : item \cap OwedRepairs # {}

(* The close-out tickets without a word, and its stamp is what queues the sweep. *)
AllTold == AtRest /\ ~desk.armed /\ origin.pc \notin {"ticket", "stamp"} => OwedRepairs \subseteq UNION desk.items
PassIsArmed == sweep.pc # "idle" /\ ~queued => desk.armed
Telling == desk \in Desk /\ queued \in BOOLEAN /\ Apart /\ NoneStale /\ AllTold /\ PassIsArmed

(* A step behind which a sweep is queued. *)
LEMMA QueuedTells ==
  ASSUME Telling, queued' = TRUE, desk' \in Desk, desk'.items = desk.items
  PROVE  Telling'
BY DEF Telling, Apart, NoneStale, AllTold, PassIsArmed, AtRest

(* One that owes the same repairs, or tickets one more.                          *)
LEMMA StillTells ==
  ASSUME Telling, queued' = queued, desk' = desk, (sweep'.pc = "idle") = (sweep.pc = "idle"),
         OwedRepairs \subseteq OwedRepairs',
         origin'.pc \in {"ticket", "stamp"} \/ (OwedRepairs' = OwedRepairs /\ origin.pc \notin {"ticket", "stamp"})
  PROVE  Telling'
<1>1. AtRest' = AtRest
  BY DEF AtRest
<1>2. NoneStale'
  BY <1>1 DEF Telling, NoneStale
<1>3. AllTold'
  BY <1>1 DEF Telling, AllTold
<1> QED
  BY <1>2, <1>3 DEF Telling, Apart, PassIsArmed

LEMMA OwedStays ==
  ASSUME UNCHANGED <<escapes, runs>>
  PROVE  OwedRepairs' = OwedRepairs
BY DEF OwedRepairs, Ticketed, Fixed, Recorded, RepairedEscapes

LEMMA OwedAreNumbers ==
  ASSUME EscapesTyped
  PROVE  OwedRepairs \subseteq Nat
BY DEF EscapesTyped, OwedRepairs, Ticketed, Recorded

(* The items a sweep leaves are of what is owed.                                 *)
LEMMA ItemsAre ==
  ASSUME Telling, NEW open \in SUBSET SUBSET Nat, Items(open), OwedRepairs' = OwedRepairs,
         \A a, b \in open : a # b => a \cap b = {}
  PROVE  /\ desk' \in Desk /\ desk'.armed = desk.armed /\ Apart'
         /\ \A item \in desk'.items : item \cap OwedRepairs' # {}
         /\ OwedRepairs \subseteq UNION open => OwedRepairs' \subseteq UNION desk'.items
<1> DEFINE kept == {item \in open : item \cap OwedRepairs # {}}
<1>1. desk' = [desk EXCEPT !.items = kept]
  BY DEF Items
<1>2. kept \in SUBSET SUBSET Nat /\ kept \subseteq open /\ \A item \in kept : item \cap OwedRepairs # {}
  OBVIOUS
<1>3. OwedRepairs \subseteq UNION open => OwedRepairs \subseteq UNION kept
  <2> SUFFICES ASSUME OwedRepairs \subseteq UNION open, NEW e \in OwedRepairs PROVE e \in UNION kept
    OBVIOUS
  <2>1. PICK item \in open : e \in item
    OBVIOUS
  <2>2. item \in kept
    BY <2>1
  <2> QED
    BY <2>1, <2>2
<1> HIDE DEF kept
<1>4. desk' \in Desk /\ desk'.armed = desk.armed /\ desk'.items = kept
  BY <1>1, <1>2 DEF Telling, Desk
<1> QED
  BY <1>2, <1>3, <1>4 DEF Apart

LEMMA SweepTells ==
  ASSUME OnRecord, Telling, SweepStep
  PROVE  Telling'
<1>0. escapes' = escapes /\ origin' = origin
  BY DEF SweepStep, SweepStarts, RepairPass, SweepLaunches, SweepRefused, OnlySweep
<1>1. CASE SweepStarts
  <2>1. queued' = FALSE /\ OwedRepairs' = OwedRepairs /\ ~Sync
    BY <1>0, <1>1, OwedStays DEF SweepStarts
  <2>2. CASE desk.armed
    <3>1. sweep'.pc = "pass" /\ desk' = desk
      BY <1>1, <2>2 DEF SweepStarts
    <3> QED
      BY <2>1, <2>2, <3>1 DEF Telling, Apart, NoneStale, AllTold, PassIsArmed, AtRest
  <2>3. CASE ~desk.armed
    <3>1. sweep'.pc = "idle" /\ Items(NoteOwed)
      BY <1>1, <2>3 DEF SweepStarts, Idle
    <3>2. OwedRepairs \subseteq Nat /\ desk.items \in SUBSET SUBSET Nat
      BY OwedAreNumbers DEF OnRecord, Telling, Desk
    <3>3. /\ NoteOwed \in SUBSET SUBSET Nat /\ OwedRepairs \subseteq UNION NoteOwed
          /\ \A a, b \in NoteOwed : a # b => a \cap b = {}
      <4> DEFINE rest == OwedRepairs \ UNION desk.items
      <4>1. NoteOwed = desk.items \cup ({rest} \ {{}})
        BY DEF NoteOwed
      <4>2. rest \in SUBSET Nat /\ \A item \in desk.items : item \cap rest = {}
        BY <3>2
      <4>3. OwedRepairs \subseteq (UNION desk.items) \cup rest
        OBVIOUS
      <4> HIDE DEF rest
      <4>4. NoteOwed \in SUBSET SUBSET Nat
        BY <3>2, <4>1, <4>2
      <4>5. OwedRepairs \subseteq UNION NoteOwed
        BY <4>1, <4>3
      <4>6. \A a, b \in NoteOwed : a # b => a \cap b = {}
        BY <4>1, <4>2 DEF Telling, Apart
      <4> QED
        BY <4>4, <4>5, <4>6
    <3>4. /\ desk' \in Desk /\ Apart' /\ \A item \in desk'.items : item \cap OwedRepairs' # {}
          /\ OwedRepairs' \subseteq UNION desk'.items
      BY <2>1, <3>1, <3>3, ItemsAre
    <3> QED
      BY <2>1, <3>1, <3>4 DEF Telling, NoneStale, AllTold, PassIsArmed, AtRest
  <2> QED
    BY <2>2, <2>3
<1>2. CASE EndPass /\ runs' = runs /\ queued' = queued /\ sweep.pc # "idle"
  <2>1. sweep'.pc = "idle" /\ Items(desk.items) /\ OwedRepairs' = OwedRepairs
    BY <1>0, <1>2, OwedStays DEF EndPass, Idle
  <2>2. /\ desk' \in Desk /\ desk'.armed = desk.armed /\ Apart'
        /\ \A item \in desk'.items : item \cap OwedRepairs' # {}
    BY <2>1, ItemsAre DEF Telling, Apart, Desk
  <2> QED
    BY <1>2, <2>1, <2>2 DEF Telling, NoneStale, AllTold, PassIsArmed, AtRest
<1>3. CASE (RepairPass /\ ~EndPass) \/ SweepLaunches
  <2>1. queued' = queued /\ desk' = desk /\ sweep.pc # "idle"
    BY <1>3 DEF RepairPass, SweepLaunches
  <2>2. CASE RepairPass /\ ~EndPass
    <3>1. sweep' = [sweep EXCEPT !.pc = "launch"]
      BY <2>2 DEF RepairPass
    <3>2. sweep'.pc # "idle"
      <4>1. sweep'.pc = "launch" \/ sweep'.pc = sweep.pc
        BY <3>1
      <4> QED
        BY <2>1, <4>1
    <3> QED
      BY <2>1, <3>2 DEF Telling, Apart, NoneStale, AllTold, PassIsArmed, AtRest
  <2>3. CASE SweepLaunches
    <3>1. sweep'.pc = "pass"
      BY <2>3 DEF SweepLaunches
    <3> QED
      BY <2>1, <3>1 DEF Telling, Apart, NoneStale, AllTold, PassIsArmed, AtRest
  <2> QED
    BY <1>3, <2>2, <2>3
<1>4. CASE SweepRefused \/ (RepairPass /\ EndPass)
  <2>1. EndPass /\ runs' = runs /\ queued' = queued /\ sweep.pc # "idle"
    BY <1>4 DEF SweepRefused, RepairPass
  <2> QED
    BY <1>2, <2>1
<1>5. SweepStarts \/ (RepairPass /\ ~EndPass) \/ (RepairPass /\ EndPass) \/ SweepLaunches \/ SweepRefused
  BY DEF SweepStep
<1> QED
  BY <1>1, <1>3, <1>4, <1>5

LEMMA TellingStep ==
  ASSUME OnRecord, Sweeping, Telling, [Next]_vars
  PROVE  Telling'
<1>1. CASE ParkGate \/ AnswerGate \/ Close \/ RunCloses \/ MarkFixed \/ Crash
  <2>1. queued' = TRUE /\ desk' = desk
    BY <1>1 DEF ParkGate, AnswerGate, Close, RunCloses, MarkFixed, Crash, OnClosed, RunsOnly
  <2> QED
    BY <2>1, QueuedTells DEF Telling
<1>2. CASE SetArmed
  <2>1. queued' = TRUE /\ desk' = [desk EXCEPT !.armed = ~@]
    BY <1>2 DEF SetArmed
  <2>2. desk' \in Desk /\ desk'.items = desk.items
    BY <2>1 DEF Telling, Desk
  <2> QED
    BY <2>1, <2>2, QueuedTells
<1>3. CASE DoorLaunches \/ LaunchEscape \/ UNCHANGED vars
  <2>1. desk' = desk /\ sweep' = sweep /\ UNCHANGED <<origin, escapes>>
    BY <1>3 DEF DoorLaunches, LaunchEscape, vars
  <2>2. CASE queued' = TRUE
    BY <2>1, <2>2, QueuedTells DEF Telling
  <2>3. CASE queued' # TRUE
    <3>1. runs' = runs /\ queued' = queued
      BY <1>3, <2>3 DEF DoorLaunches, LaunchEscape, vars
    <3>2. OwedRepairs' = OwedRepairs
      BY <2>1, <3>1, OwedStays
    <3> QED
      BY <2>1, <3>1, <3>2, StillTells
  <2> QED
    BY <2>2, <2>3
<1>4. CASE SweepStep
  BY <1>4, SweepTells
<1>5. CASE FixEscapeBack
  <2>1. PICK i \in DOMAIN runs :
          /\ escapes' = [escapes EXCEPT ![runs[i].escape].fixed = TRUE]
          /\ runs' = [runs EXCEPT ![i].state = "fixed"] /\ ~Sync
          /\ origin' = Settled(Fixed \cup {runs[i].escape})
          /\ UNCHANGED <<sweep, desk, queued>>
    BY <1>5 DEF FixEscapeBack, RunsOnly
  <2>2. OwedRepairs' = OwedRepairs
    <3>1. RepairedEscapes' = RepairedEscapes /\ runs[i].escape \in RepairedEscapes
      <4>1. /\ DOMAIN runs' = DOMAIN runs /\ \A j \in DOMAIN runs : runs'[j].escape = runs[j].escape
        BY <2>1, RunGoes DEF Sweeping, SweepTyped
      <4> QED
        BY <4>1 DEF RepairedEscapes
    <3>2. /\ DOMAIN escapes' = DOMAIN escapes
          /\ \A e \in DOMAIN escapes \ {runs[i].escape} : escapes'[e] = escapes[e]
      BY <2>1 DEF OnRecord, EscapesTyped
    <3> QED
      BY <3>1, <3>2 DEF OwedRepairs, Ticketed, Fixed, Recorded
  <2>3. origin'.pc = origin.pc
    BY <2>1 DEF Settled, OnRecord, OriginTyped, Origin
  <2> QED
    BY <2>1, <2>2, <2>3, StillTells DEF Sync
<1>6. CASE \/ CloseOut \/ RecordEscape \/ RedCheckTails \/ ChecksConclude \/ WatchMergeCommit
           \/ StampRerun \/ TailStep
  <2>1. UNCHANGED <<runs, sweep, desk, queued>> /\ origin.pc \notin {"ticket", "stamp"}
    BY <1>6 DEF CloseOut, RecordEscape, RedCheckTails, ChecksConclude, WatchMergeCommit, StampRerun, TailStep,
                OnlyOrigin
  <2>2. OwedRepairs' = OwedRepairs
    <3>1. CASE RecordEscape
      <4>1. PICK f : escapes' = Append(escapes, [finding |-> f, ticket |-> FALSE, fixed |-> FALSE])
        BY <3>1 DEF RecordEscape
      <4> DEFINE new == [finding |-> f, ticket |-> FALSE, fixed |-> FALSE]
      <4>2. escapes' = Append(escapes, new) /\ ~new.ticket /\ escapes \in Seq(Escape)
        BY <4>1 DEF OnRecord, EscapesTyped
      <4> HIDE DEF new
      <4>3. escapes \in Seq(Escape \cup {new}) /\ new \in Escape \cup {new}
        BY <4>2
      <4>4. /\ DOMAIN escapes' = DOMAIN escapes \cup {Len(escapes) + 1}
            /\ ~escapes'[Len(escapes) + 1].ticket
            /\ \A e \in DOMAIN escapes : escapes'[e] = escapes[e]
        BY <4>2, <4>3, AppendIs
      <4>5. Ticketed' = Ticketed
        BY <4>4 DEF Ticketed, Recorded
      <4>6. Ticketed \ Fixed' = Ticketed \ Fixed
        BY <4>4 DEF Ticketed, Fixed, Recorded
      <4> QED
        BY <2>1, <4>5, <4>6 DEF OwedRepairs, RepairedEscapes
    <3>2. CASE ~RecordEscape
      <4>1. escapes' = escapes
        BY <1>6, <3>2 DEF CloseOut, RedCheckTails, ChecksConclude, WatchMergeCommit, StampRerun, TailStep, OnlyOrigin
      <4> QED
        BY <2>1, <4>1, OwedStays
    <3> QED
      BY <3>1, <3>2
  <2> QED
    BY <2>1, <2>2, StillTells
<1>7. CASE TicketEscape
  <2>1. UNCHANGED <<runs, sweep, desk, queued>> /\ origin.pc = "ticket"
    BY <1>7 DEF TicketEscape
  <2>2. OwedRepairs \subseteq OwedRepairs' /\ origin'.pc \in {"ticket", "stamp"}
    <3>1. CASE Unticketed = {}
      <4>1. escapes' = escapes /\ origin' = [origin EXCEPT !.pc = "stamp"]
        BY <1>7, <3>1 DEF TicketEscape, Steps
      <4>2. origin'.pc = "stamp"
        BY <4>1 DEF OnRecord, OriginTyped, Origin
      <4> QED
        BY <2>1, <4>1, <4>2, OwedStays
    <3>2. CASE Unticketed # {}
      <4>1. PICK e : escapes' = [escapes EXCEPT ![e].ticket = TRUE] /\ origin' = origin
        BY <1>7, <3>2 DEF TicketEscape
      <4>2. /\ DOMAIN escapes' = DOMAIN escapes
            /\ \A d \in DOMAIN escapes : /\ escapes'[d].fixed = escapes[d].fixed
                                         /\ escapes[d].ticket => escapes'[d].ticket
        <5>1. \A x \in Escape : [x EXCEPT !.ticket = TRUE].fixed = x.fixed /\ [x EXCEPT !.ticket = TRUE].ticket
          BY DEF Escape
        <5>2. \A d \in DOMAIN escapes : escapes[d] \in Escape
          BY DEF OnRecord, EscapesTyped
        <5>3. /\ DOMAIN escapes' = DOMAIN escapes
              /\ \A d \in DOMAIN escapes : escapes'[d] = IF d = e THEN [escapes[d] EXCEPT !.ticket = TRUE] ELSE escapes[d]
          BY <4>1 DEF OnRecord, EscapesTyped
        <5> QED
          BY <5>1, <5>2, <5>3
      <4>3. Fixed' = Fixed /\ Ticketed \subseteq Ticketed'
        BY <4>2 DEF Fixed, Ticketed, Recorded
      <4> QED
        BY <2>1, <4>1, <4>3 DEF OwedRepairs, RepairedEscapes
    <3> QED
      BY <3>1, <3>2
  <2> QED
    BY <2>1, <2>2, StillTells
<1>8. CASE StampBreach
  <2>1. /\ UNCHANGED <<escapes, runs, sweep, desk>> /\ queued' = (queued \/ Recorded \ Fixed # {})
    BY <1>8 DEF StampBreach
  <2>2. OwedRepairs' = OwedRepairs /\ OwedRepairs \subseteq Recorded \ Fixed
    BY <2>1, OwedStays DEF OwedRepairs, Ticketed
  <2>3. CASE queued' = TRUE
    BY <2>1, <2>3, QueuedTells DEF Telling
  <2>4. CASE queued' # TRUE
    <3>1. queued' = queued /\ OwedRepairs = {}
      BY <2>1, <2>2, <2>4 DEF Telling
    <3>2. NoneStale' /\ AllTold' /\ Apart' /\ PassIsArmed'
      BY <2>1, <2>2, <3>1 DEF Telling, NoneStale, AllTold, Apart, PassIsArmed, AtRest
    <3> QED
      BY <2>1, <3>1, <3>2 DEF Telling
  <2> QED
    BY <2>3, <2>4
<1> QED
  BY <1>1, <1>2, <1>3, <1>4, <1>5, <1>6, <1>7, <1>8 DEF Next, OriginStep

LEMMA TellingAlways == Spec => []Telling
<1>1. Init => Telling
  <2> SUFFICES ASSUME Init PROVE Telling
    OBVIOUS
  <2>1. desk = [armed |-> FALSE, items |-> {}] /\ queued = TRUE
    BY DEF Init
  <2>2. desk \in Desk /\ desk.items = {}
    BY <2>1 DEF Desk
  <2> QED
    BY <2>1, <2>2 DEF Telling, Apart, NoneStale, AllTold, PassIsArmed, AtRest
<1>2. OnRecord /\ Sweeping /\ Telling /\ [Next]_vars => Telling'
  BY TellingStep
<1> QED
  BY OnRecordAlways, SweepingAlways, <1>1, <1>2, PTL DEF Spec

---------------------------------------------------------------------------
(* The results. *)

(* The ledger takes a finding of the verdict once, and the frontier launches an  *)
(* escape once, whatever crash falls between the appends of the close-out or     *)
(* between a pass's reads and its launches.                                     *)
THEOREM OneEscapeOneRepair == Spec => []EachFindingOnce
<1>1. OnRecord /\ Sweeping => EachFindingOnce
  BY DEF OnRecord, Recording, Sweeping, EachFindingOnce
<1> QED
  BY OnRecordAlways, SweepingAlways, <1>1, PTL

(* No breach is on record with an escape that nothing is to repair.              *)
THEOREM BreachesAreTicketed == Spec => []ABreachTicketsItsEscapes
<1>1. OnRecord => ABreachTicketsItsEscapes
  BY DEF OnRecord, Ticketing
<1> QED
  BY OnRecordAlways, <1>1, PTL

(* Once nothing is under way, a project that is not armed has been told of every *)
(* repair it owes, once, and of none that it does not owe any more: each thing    *)
(* that changes what is owed, whoever does it, has a sweep behind it.            *)
THEOREM WhatIsOwedIsTold == Spec => []OwedIsTold
<1>1. Telling => OwedIsTold
  BY DEF Telling, Apart, NoneStale, AllTold, AtRest, OwedIsTold, Quiescent, Sync
<1> QED
  BY TellingAlways, <1>1, PTL

---------------------------------------------------------------------------
(* The observers (Observers). *)

Events == {"entered", "beat", "merged", "closed"}
UnderWay == {"registry", "evaluate", "reading"}
Queueable == [event : Events, run : Watched, stage : Nat, pc : UnderWay \cup {"queued"}]
RunFacts == [st : {"open", "merged", "closed"}, visit : Nat, owes : BOOLEAN, lost : BOOLEAN]

---------------------------------------------------------------------------
(* The shape of the variables: what a step that sets one field leaves of the     *)
(* others.                                                                     *)
ToldShape == told = [breaches |-> told.breaches, overruns |-> told.overruns, flow |-> told.flow,
                     settled |-> told.settled, escapes |-> told.escapes, reviews |-> told.reviews]
IsDebt(d) == d = [pc |-> d.pc, polls |-> d.polls, list |-> d.list, red |-> d.red,
                  scanned |-> d.scanned, owed |-> d.owed, declared |-> d.declared]
DebtShape == IsDebt(debt)
FlowShape == flow = [pc |-> flow.pc, polls |-> flow.polls, build |-> flow.build]
ReviewShape == review = [pc |-> review.pc, checks |-> review.checks, window |-> review.window]
OutsideShape == outside = [builds |-> outside.builds, service |-> outside.service]
UsedShape == /\ used = [beats |-> used.beats, resolves |-> used.resolves, fails |-> used.fails, halts |-> used.halts]
             /\ used.halts \in Nat
HostShape == /\ host = [up |-> host.up, stopped |-> host.stopped]
             /\ host.up \in {"down", "up", "stopping"} /\ host.stopped \in Nat
             /\ Running => host.stopped = 0
             /\ host.up = "stopping" => host.stopped > 0
Shaped == /\ ToldShape /\ DebtShape /\ FlowShape /\ ReviewShape /\ OutsideShape /\ UsedShape /\ HostShape
          /\ life \in [Watched -> RunFacts] /\ chain \in Seq(Queueable)

LEMMA AppendAdds ==
  ASSUME NEW S, NEW s \in Seq(S), NEW x \in S
  PROVE  /\ Append(s, x) \in Seq(S) /\ Len(Append(s, x)) = Len(s) + 1
         /\ DOMAIN Append(s, x) = 1..Len(s) + 1
         /\ Append(s, x)[Len(s) + 1] = x
         /\ \A k \in DOMAIN s : Append(s, x)[k] = s[k]
OBVIOUS

(* One field of the ledgers is set. *)
LEMMA Tells ==
  ASSUME ToldShape, NEW x
  PROVE  /\ [told EXCEPT !.breaches = x] =
              [breaches |-> x, overruns |-> told.overruns, flow |-> told.flow,
               settled |-> told.settled, escapes |-> told.escapes, reviews |-> told.reviews]
         /\ [told EXCEPT !.overruns = x] =
              [breaches |-> told.breaches, overruns |-> x, flow |-> told.flow,
               settled |-> told.settled, escapes |-> told.escapes, reviews |-> told.reviews]
         /\ [told EXCEPT !.flow = x] =
              [breaches |-> told.breaches, overruns |-> told.overruns, flow |-> x,
               settled |-> told.settled, escapes |-> told.escapes, reviews |-> told.reviews]
         /\ [told EXCEPT !.settled = x] =
              [breaches |-> told.breaches, overruns |-> told.overruns, flow |-> told.flow,
               settled |-> x, escapes |-> told.escapes, reviews |-> told.reviews]
         /\ [told EXCEPT !.escapes = x] =
              [breaches |-> told.breaches, overruns |-> told.overruns, flow |-> told.flow,
               settled |-> told.settled, escapes |-> x, reviews |-> told.reviews]
         /\ [told EXCEPT !.reviews = x] =
              [breaches |-> told.breaches, overruns |-> told.overruns, flow |-> told.flow,
               settled |-> told.settled, escapes |-> told.escapes, reviews |-> x]
<1>1. [told EXCEPT !.breaches = x] =
        [breaches |-> x, overruns |-> told.overruns, flow |-> told.flow,
         settled |-> told.settled, escapes |-> told.escapes, reviews |-> told.reviews]
  BY DEF ToldShape
<1>2. [told EXCEPT !.overruns = x] =
        [breaches |-> told.breaches, overruns |-> x, flow |-> told.flow,
         settled |-> told.settled, escapes |-> told.escapes, reviews |-> told.reviews]
  BY DEF ToldShape
<1>3. [told EXCEPT !.flow = x] =
        [breaches |-> told.breaches, overruns |-> told.overruns, flow |-> x,
         settled |-> told.settled, escapes |-> told.escapes, reviews |-> told.reviews]
  BY DEF ToldShape
<1>4. [told EXCEPT !.settled = x] =
        [breaches |-> told.breaches, overruns |-> told.overruns, flow |-> told.flow,
         settled |-> x, escapes |-> told.escapes, reviews |-> told.reviews]
  BY DEF ToldShape
<1>5. [told EXCEPT !.escapes = x] =
        [breaches |-> told.breaches, overruns |-> told.overruns, flow |-> told.flow,
         settled |-> told.settled, escapes |-> x, reviews |-> told.reviews]
  BY DEF ToldShape
<1>6. [told EXCEPT !.reviews = x] =
        [breaches |-> told.breaches, overruns |-> told.overruns, flow |-> told.flow,
         settled |-> told.settled, escapes |-> told.escapes, reviews |-> x]
  BY DEF ToldShape
<1> QED
  BY <1>1, <1>2, <1>3, <1>4, <1>5, <1>6

(* A bound is used up by one. *)
LEMMA UsesOne ==
  ASSUME UsedShape, NEW bound,
         \/ Uses("beats", bound) \/ Uses("resolves", bound) \/ Uses("fails", bound)
  PROVE  UsedShape' /\ used'.halts = used.halts
BY DEF UsedShape, Uses
LEMMA UsesAHalt ==
  ASSUME UsedShape, NEW bound, Uses("halts", bound)
  PROVE  UsedShape' /\ used'.halts = used.halts + 1
<1>1. PICK h \in Nat : h = used.halts
  BY DEF UsedShape
<1>2. used' = [used EXCEPT !.halts = h + 1]
  BY <1>1 DEF Uses
<1>3. used' = [beats |-> used.beats, resolves |-> used.resolves, fails |-> used.fails, halts |-> h + 1]
  BY <1>2 DEF UsedShape
<1> QED
  BY <1>1, <1>3 DEF UsedShape

---------------------------------------------------------------------------
(* The chain of the tripwire watcher. *)
Grows(event, r) == /\ chain' \in Seq(Queueable) /\ Len(chain') = Len(chain) + 1
                   /\ \A k \in 1..Len(chain) : chain'[k] = chain[k]
                   /\ chain'[Len(chain) + 1] = Item(event, r)
Shrinks == /\ chain' \in Seq(Queueable) /\ Len(chain') = Len(chain) - 1
           /\ \A k \in 1..Len(chain') : chain'[k] = chain[k + 1]
Marks(pc) == /\ chain' \in Seq(Queueable) /\ Len(chain') = Len(chain)
             /\ chain'[1].pc = pc
             /\ \A k \in 2..Len(chain) : chain'[k] = chain[k]

LEMMA Noticed ==
  ASSUME Shaped, Running, NEW event \in Events, NEW r \in Watched, Notify(event, r)
  PROVE  Grows(event, r)
<1>1. ~IsStopped("tripwires")
  BY DEF Shaped, HostShape, IsStopped
<1>2. life[r].visit \in Nat
  BY DEF Shaped, RunFacts
<1>3. Item(event, r) \in Queueable
  BY <1>2 DEF Item, Queueable
<1>4. chain \in Seq(Queueable) /\ chain' = Append(chain, Item(event, r))
  BY <1>1 DEF Notify, Shaped
<1> HIDE DEF Queueable, Item
<1> QED
  BY <1>3, <1>4, AppendAdds, SeqDomain DEF Grows

LEMMA HeadGoes ==
  ASSUME Shaped, chain # <<>>
  PROVE  /\ chain' = Without(1) => Shrinks
         /\ \A pc \in UnderWay : Goes(1, pc) => Marks(pc)
<1>1. chain \in Seq(Queueable) /\ Len(chain) \in Nat /\ Len(chain) > 0 /\ DOMAIN chain = 1..Len(chain)
  BY DEF Shaped
<1>2. ASSUME chain' = Without(1)
      PROVE  Shrinks
  <2>1. SubSeq(chain, 1, 1 - 1) = <<>>
    BY SubSeqEmpty
  <2>2. \A i \in 2..Len(chain) : chain[i] \in Queueable
    BY <1>1
  <2> DEFINE rest == SubSeq(chain, 1 + 1, Len(chain))
  <2>3. /\ rest \in Seq(Queueable) /\ Len(rest) = Len(chain) - 1
        /\ \A k \in 1..Len(chain) - 1 : rest[k] = chain[k + 1]
    <3>1. /\ rest \in Seq(Queueable) /\ Len(rest) = IF 2 <= Len(chain) THEN Len(chain) - 2 + 1 ELSE 0
          /\ \A i \in 1..Len(chain) - 2 + 1 : rest[i] = chain[2 + i - 1]
      BY <1>1, <2>2, SubSeqProperties
    <3>2. \A n \in Nat : n > 0 => /\ (IF 2 <= n THEN n - 2 + 1 ELSE 0) = n - 1
                                  /\ n - 2 + 1 = n - 1 /\ \A i \in Nat : 2 + i - 1 = i + 1
      OBVIOUS
    <3> QED
      BY <1>1, <3>1, <3>2
  <2> HIDE DEF rest
  <2>4. chain' = <<>> \o rest
    BY <1>2, <2>1 DEF Without, rest
  <2>5. chain' = rest
    BY <2>3, <2>4, ConcatEmptySeq
  <2> QED
    BY <2>3, <2>5 DEF Shrinks
<1>3. ASSUME NEW pc \in UnderWay, Goes(1, pc)
      PROVE  Marks(pc)
  <2> DEFINE head == [chain[1] EXCEPT !.pc = pc]
  <2>1. chain[1] \in Queueable
    BY <1>1
  <2>2. head \in Queueable /\ head.pc = pc
    BY <2>1 DEF Queueable
  <2>3. chain' = [chain EXCEPT ![1] = head]
    BY <1>3 DEF Goes
  <2> HIDE DEF head
  <2> QED
    BY <1>1, <2>2, <2>3, ExceptSeq DEF Marks
<1> QED
  BY <1>2, <1>3

LEMMA TripwireIs ==
  ASSUME TripwireStep, Shaped
  PROVE  /\ chain # <<>> /\ (Handle(1) \/ RegistryFor(1) \/ Evaluate(1) \/ EvaluateMetric(1))
         /\ Shrinks \/ \E pc \in UnderWay : Marks(pc)
         /\ UNCHANGED <<host, life, ships, outside, debt, flow, review>>
         /\ \/ told' = told
            \/ \E x : told' = [told EXCEPT !.overruns = x]
            \/ \E x : told' = [told EXCEPT !.breaches = x]
         /\ UsedShape' /\ used'.halts = used.halts
<1>1. PICK k \in DOMAIN chain : MayRun(k) /\ (Handle(k) \/ RegistryFor(k) \/ Evaluate(k) \/ EvaluateMetric(k))
  BY DEF TripwireStep
<1>2. k = 1 /\ chain # <<>>
  BY <1>1 DEF MayRun, Shaped
<1>3. Handle(1) \/ RegistryFor(1) \/ Evaluate(1) \/ EvaluateMetric(1)
  BY <1>1, <1>2
<1>4. chain' = Without(1) \/ \E pc \in UnderWay : Goes(1, pc)
  <2>1. \A pc : pc \in UnderWay \cup {"done"} /\ Proceeds(1, pc) => chain' = Without(1) \/ \E q \in UnderWay : Goes(1, q)
    BY DEF Proceeds
  <2>2. \A item : AfterHandling(item) \in UnderWay \cup {"done"}
    BY DEF AfterHandling, UnderWay
  <2> QED
    BY <1>3, <2>1, <2>2 DEF Handle, RegistryFor, Evaluate, EvaluateMetric, UnderWay
<1>5. Shrinks \/ \E pc \in UnderWay : Marks(pc)
  BY <1>2, <1>4, HeadGoes
<1>6. UNCHANGED <<host, life, ships, outside, debt, flow, review>>
  BY DEF TripwireStep, Outer
<1>7. \/ told' = told
      \/ \E x : told' = [told EXCEPT !.overruns = x]
      \/ \E x : told' = [told EXCEPT !.breaches = x]
  BY <1>3 DEF Handle, CheckStageDuration, RegistryFor, Evaluate, EvaluateMetric
<1>8. UsedShape' /\ used'.halts = used.halts
  <2>1. UsedShape
    BY DEF Shaped
  <2>2. used' = used \/ Uses("fails", MaxFails)
    BY <1>3 DEF Handle, RegistryFor, Evaluate, EvaluateMetric, Fails
  <2> QED
    BY <2>1, <2>2, UsesOne DEF UsedShape
<1> QED
  BY <1>2, <1>3, <1>5, <1>6, <1>7, <1>8

---------------------------------------------------------------------------
(* What each step leaves alone. *)
SameDebt == /\ debt'.pc = debt.pc /\ debt'.list = debt.list /\ debt'.red = debt.red
SameFlow == flow'.pc = flow.pc /\ flow'.build = flow.build
SameReview == review'.pc = review.pc /\ review'.window = review.window
SameTrust == UNCHANGED <<told.settled, told.escapes>>

LEMMA VisitIs ==
  ASSUME life \in [Watched -> RunFacts], NEW r \in Watched,
         life' = [life EXCEPT ![r].visit = @ + 1]
  PROVE  /\ life' \in [Watched -> RunFacts]
         /\ \A q \in Watched : q # r => life'[q] = life[q]
         /\ life'[r].lost = life[r].lost /\ life'[r].st = life[r].st
<1> DEFINE f == [life[r] EXCEPT !.visit = @ + 1]
<1>1. life' = [life EXCEPT ![r] = f]
  OBVIOUS
<1>2. life[r] \in RunFacts
  OBVIOUS
<1>3. f \in RunFacts /\ f.lost = life[r].lost /\ f.st = life[r].st
  BY <1>2 DEF RunFacts
<1> HIDE DEF f, RunFacts
<1>4. life' \in [Watched -> RunFacts] /\ life'[r] = f /\ \A q \in Watched : q # r => life'[q] = life[q]
  BY <1>1, <1>3
<1> QED
  BY <1>3, <1>4

LEMMA OwesIs ==
  ASSUME life \in [Watched -> RunFacts], NEW r \in Watched,
         life' = [life EXCEPT ![r].owes = TRUE]
  PROVE  /\ life' \in [Watched -> RunFacts]
         /\ \A q \in Watched : q # r => life'[q] = life[q]
         /\ life'[r].lost = life[r].lost /\ life'[r].st = life[r].st /\ life'[r].visit = life[r].visit
<1> DEFINE f == [life[r] EXCEPT !.owes = TRUE]
<1>1. life' = [life EXCEPT ![r] = f]
  OBVIOUS
<1>2. life[r] \in RunFacts
  OBVIOUS
<1>3. f \in RunFacts /\ f.lost = life[r].lost /\ f.st = life[r].st /\ f.visit = life[r].visit
  BY <1>2 DEF RunFacts
<1> HIDE DEF f, RunFacts
<1>4. life' \in [Watched -> RunFacts] /\ life'[r] = f /\ \A q \in Watched : q # r => life'[q] = life[q]
  BY <1>1, <1>3
<1> QED
  BY <1>3, <1>4

LEMMA StIs ==
  ASSUME life \in [Watched -> RunFacts], NEW r \in Watched, NEW s \in {"merged", "closed"},
         life' = [life EXCEPT ![r].st = s]
  PROVE  /\ life' \in [Watched -> RunFacts]
         /\ \A q \in Watched : q # r => life'[q] = life[q]
         /\ life'[r].lost = life[r].lost /\ life'[r].st = s /\ life'[r].visit = life[r].visit
<1> DEFINE f == [life[r] EXCEPT !.st = s]
<1>1. life' = [life EXCEPT ![r] = f]
  OBVIOUS
<1>2. life[r] \in RunFacts
  OBVIOUS
<1>3. f \in RunFacts /\ f.lost = life[r].lost /\ f.st = s /\ f.visit = life[r].visit
  BY <1>2 DEF RunFacts
<1> HIDE DEF f, RunFacts
<1>4. life' \in [Watched -> RunFacts] /\ life'[r] = f /\ \A q \in Watched : q # r => life'[q] = life[q]
  BY <1>1, <1>3
<1> QED
  BY <1>3, <1>4

LEMMA RunStepIs ==
  ASSUME Shaped, NEW r \in Watched, Enters(r) \/ Beats(r) \/ Defers(r) \/ Merges(r) \/ Closes(r)
  PROVE  /\ Shaped' /\ Running
         /\ UNCHANGED <<host, told, outside, flow>> /\ used'.halts = used.halts
         /\ SameDebt /\ SameReview
         /\ Enters(r) => Grows("entered", r)
         /\ Beats(r) => Grows("beat", r)
         /\ Merges(r) => Grows("merged", r)
         /\ Closes(r) => Grows("closed", r)
         /\ Defers(r) => chain' = chain
<1>1. Running /\ UNCHANGED <<host, told, outside, flow>>
  BY DEF Enters, Beats, Defers, Merges, Closes, Outer
<1>2. /\ Enters(r) => Grows("entered", r)
      /\ Beats(r) => Grows("beat", r)
      /\ Merges(r) => Grows("merged", r)
      /\ Closes(r) => Grows("closed", r)
  BY <1>1, Noticed DEF Enters, Beats, Merges, Closes, Events
<1>3. Defers(r) => chain' = chain
  BY DEF Defers
<1>4. chain' \in Seq(Queueable)
  <2>1. chain \in Seq(Queueable)
    BY DEF Shaped
  <2> QED
    BY <1>2, <1>3, <2>1 DEF Grows
<1>5. UsedShape' /\ used'.halts = used.halts
  <2>1. UsedShape
    BY DEF Shaped
  <2>2. used' = used \/ Uses("beats", MaxBeats)
    BY DEF Enters, Beats, Defers, Merges, Closes
  <2> QED
    BY <2>1, <2>2, UsesOne DEF UsedShape
<1>6. life' \in [Watched -> RunFacts]
  <2>1. life \in [Watched -> RunFacts]
    BY DEF Shaped
  <2>2. \/ life' = life
        \/ life' = [life EXCEPT ![r].visit = @ + 1]
        \/ life' = [life EXCEPT ![r].owes = TRUE]
        \/ life' = [life EXCEPT ![r].st = "merged"]
        \/ life' = [life EXCEPT ![r].st = "closed"]
    BY DEF Enters, Beats, Defers, Merges, Closes, Outer
  <2> QED
    BY <2>1, <2>2, VisitIs, OwesIs, StIs
<1>7. DebtShape' /\ SameDebt
  <2>1. debt' = debt \/ debt' = [debt EXCEPT !.declared = TRUE]
    BY DEF Enters, Beats, Defers, Merges, Closes, NoticeRunEvent
  <2> QED
    BY <2>1 DEF Shaped, DebtShape, IsDebt, SameDebt
<1>8. ReviewShape' /\ SameReview
  <2>1. review' = review \/ review' = [review EXCEPT !.checks = @ + 1]
    BY DEF Enters, Beats, Defers, Merges, Closes
  <2> QED
    BY <2>1 DEF Shaped, ReviewShape, SameReview
<1>9. ToldShape' /\ FlowShape' /\ OutsideShape' /\ HostShape'
  BY <1>1 DEF Shaped, ToldShape, FlowShape, OutsideShape, HostShape, Running
<1> QED
  BY <1>1, <1>2, <1>3, <1>4, <1>5, <1>6, <1>7, <1>8, <1>9 DEF Shaped

(* A step of one observer: its own variable, one field of the ledgers, a bound.  *)
Quiet == UNCHANGED <<host, life, ships, outside>> /\ UsedShape' /\ used'.halts = used.halts

LEMMA TripwireShaped ==
  ASSUME Shaped, TripwireStep
  PROVE  /\ Shaped' /\ Quiet /\ UNCHANGED <<debt, flow, review>>
         /\ UNCHANGED <<told.flow, told.settled, told.escapes, told.reviews>>
<1>1. /\ Shrinks \/ \E pc \in UnderWay : Marks(pc)
      /\ UNCHANGED <<host, life, ships, outside, debt, flow, review>>
      /\ \/ told' = told
         \/ \E x : told' = [told EXCEPT !.overruns = x]
         \/ \E x : told' = [told EXCEPT !.breaches = x]
      /\ UsedShape' /\ used'.halts = used.halts
  BY TripwireIs
<1>2. ToldShape' /\ UNCHANGED <<told.flow, told.settled, told.escapes, told.reviews>>
  <2>1. ToldShape
    BY DEF Shaped
  <2> QED
    BY <1>1, <2>1, Tells DEF ToldShape
<1>3. chain' \in Seq(Queueable)
  BY <1>1 DEF Shrinks, Marks
<1>4. DebtShape' /\ FlowShape' /\ ReviewShape' /\ OutsideShape' /\ HostShape' /\ life' \in [Watched -> RunFacts]
  BY <1>1 DEF Shaped, DebtShape, FlowShape, ReviewShape, OutsideShape, HostShape, Running
<1> QED
  BY <1>1, <1>2, <1>3, <1>4 DEF Shaped, Quiet

LEMMA PollShaped ==
  ASSUME Shaped, QueuePoll
  PROVE  /\ Shaped' /\ Quiet /\ SameDebt /\ SameFlow /\ Running
         /\ UNCHANGED <<told, chain, review>>
<1>1. /\ UNCHANGED <<host, life, ships, outside, told, chain, review, used>>
      /\ Running
      /\ debt' = debt \/ debt' = [debt EXCEPT !.polls = @ + 1]
      /\ flow' = flow \/ flow' = [flow EXCEPT !.polls = @ + 1]
  BY DEF QueuePoll, PollTick, Ticks, Outer
<1>2. DebtShape' /\ SameDebt
  BY <1>1 DEF Shaped, DebtShape, IsDebt, SameDebt
<1>3. FlowShape' /\ SameFlow
  BY <1>1 DEF Shaped, FlowShape, SameFlow
<1>4. ToldShape' /\ ReviewShape' /\ OutsideShape' /\ HostShape' /\ UsedShape'
  BY <1>1 DEF Shaped, ToldShape, ReviewShape, OutsideShape, HostShape, UsedShape, Running
<1> QED
  BY <1>1, <1>2, <1>3, <1>4 DEF Shaped, Quiet

(* The watcher of the deferred proofs: a step sets fields of its record.        *)
LEMMA SetPolls ==
  ASSUME NEW d, IsDebt(d), NEW x
  PROVE  /\ IsDebt([d EXCEPT !.polls = x]) /\ [d EXCEPT !.polls = x].polls = x
         /\ [d EXCEPT !.polls = x].pc = d.pc /\ [d EXCEPT !.polls = x].list = d.list /\ [d EXCEPT !.polls = x].red = d.red
BY DEF IsDebt
LEMMA SetPc ==
  ASSUME NEW d, IsDebt(d), NEW x
  PROVE  /\ IsDebt([d EXCEPT !.pc = x]) /\ [d EXCEPT !.pc = x].pc = x
         /\ [d EXCEPT !.pc = x].list = d.list /\ [d EXCEPT !.pc = x].red = d.red
BY DEF IsDebt
LEMMA SetList ==
  ASSUME NEW d, IsDebt(d), NEW x
  PROVE  /\ IsDebt([d EXCEPT !.list = x]) /\ [d EXCEPT !.list = x].list = x
         /\ [d EXCEPT !.list = x].pc = d.pc /\ [d EXCEPT !.list = x].red = d.red
BY DEF IsDebt
LEMMA SetRed ==
  ASSUME NEW d, IsDebt(d), NEW x
  PROVE  /\ IsDebt([d EXCEPT !.red = x]) /\ [d EXCEPT !.red = x].red = x
         /\ [d EXCEPT !.red = x].pc = d.pc /\ [d EXCEPT !.red = x].list = d.list
BY DEF IsDebt
LEMMA SetScanned ==
  ASSUME NEW d, IsDebt(d), NEW x
  PROVE  /\ IsDebt([d EXCEPT !.scanned = x]) /\ [d EXCEPT !.scanned = x].scanned = x
         /\ [d EXCEPT !.scanned = x].pc = d.pc /\ [d EXCEPT !.scanned = x].list = d.list /\ [d EXCEPT !.scanned = x].red = d.red
BY DEF IsDebt
LEMMA SetOwed ==
  ASSUME NEW d, IsDebt(d), NEW x
  PROVE  /\ IsDebt([d EXCEPT !.owed = x]) /\ [d EXCEPT !.owed = x].owed = x
         /\ [d EXCEPT !.owed = x].pc = d.pc /\ [d EXCEPT !.owed = x].list = d.list /\ [d EXCEPT !.owed = x].red = d.red
BY DEF IsDebt

(* What a step makes of the watcher's place, list and result.                  *)
To(pc) == debt'.pc = pc /\ debt'.list = debt.list
Scans == /\ debt'.pc = IF OpenProofDebts = {} THEN "idle" ELSE "probe"
         /\ debt'.list = SetToSeq(OpenProofDebts)
         /\ debt'.red = debt.red
Rests == debt'.pc = "idle" /\ debt'.red = debt.red
NextIs(red) == /\ debt'.pc = IF Len(debt.list) > 1 THEN "probe" ELSE "idle"
               /\ debt'.list = Tail(debt.list) /\ debt'.red = red

LEMMA NextDebtIs ==
  ASSUME DebtShape
  PROVE  LET next == NextDebt(debt)
         IN /\ IsDebt(next) /\ next.pc = IF Len(debt.list) > 1 THEN "probe" ELSE "idle"
            /\ next.list = Tail(debt.list) /\ next.red = debt.red
<1> DEFINE place == IF Len(debt.list) > 1 THEN "probe" ELSE "idle"
           first == [debt EXCEPT !.pc = place]
           next == NextDebt(debt)
<1> HIDE DEF place
<1>1. IsDebt(first) /\ first.pc = place /\ first.list = debt.list /\ first.red = debt.red
  BY SetPc DEF DebtShape
<1>2. next = [first EXCEPT !.list = Tail(debt.list)]
  BY DEF NextDebt, DebtShape, IsDebt, place
<1> HIDE DEF first
<1>3. IsDebt(next) /\ next.pc = place /\ next.list = Tail(debt.list) /\ next.red = debt.red
  BY <1>1, <1>2, SetList
<1> QED
  BY <1>3 DEF place

LEMMA PollDebtsIs ==
  ASSUME DebtShape, PollDebts
  PROVE  DebtShape' /\ debt.pc = "idle" /\ debt.polls > 0 /\ (Scans \/ Rests)
<1> DEFINE place == IF OpenProofDebts = {} THEN "idle" ELSE "probe"
           polled == [debt EXCEPT !.polls = @ - 1]
           scanned == [polled EXCEPT !.scanned = TRUE]
           owed == [scanned EXCEPT !.owed = OpenProofDebts # {}]
           listed == [owed EXCEPT !.list = SetToSeq(OpenProofDebts)]
           placed == [listed EXCEPT !.pc = place]
<1>0. debt.pc = "idle" /\ debt.polls > 0
  BY DEF PollDebts
<1>1. IsDebt(polled) /\ polled.pc = "idle" /\ polled.red = debt.red
  BY <1>0, SetPolls DEF DebtShape
<1>2. debt' = polled \/ debt' = [polled EXCEPT !.scanned = TRUE, !.owed = OpenProofDebts # {},
                                               !.list = SetToSeq(OpenProofDebts), !.pc = place]
  BY DEF PollDebts
<1> HIDE DEF polled, place
<1>3. [polled EXCEPT !.scanned = TRUE, !.owed = OpenProofDebts # {}, !.list = SetToSeq(OpenProofDebts), !.pc = place] = placed
  BY <1>1 DEF IsDebt
<1>4. IsDebt(scanned) /\ scanned.red = debt.red
  BY <1>1, SetScanned
<1> HIDE DEF scanned
<1>5. IsDebt(owed) /\ owed.red = debt.red
  BY <1>4, SetOwed
<1> HIDE DEF owed
<1>6. IsDebt(listed) /\ listed.list = SetToSeq(OpenProofDebts) /\ listed.red = debt.red
  BY <1>5, SetList
<1> HIDE DEF listed
<1>7. IsDebt(placed) /\ placed.pc = place /\ placed.list = SetToSeq(OpenProofDebts) /\ placed.red = debt.red
  BY <1>6, SetPc
<1> HIDE DEF placed
<1>8. CASE debt' = polled
  BY <1>0, <1>1, <1>8 DEF Rests, DebtShape
<1>9. CASE debt' = placed
  BY <1>0, <1>7, <1>9 DEF Scans, DebtShape, place
<1> QED
  BY <1>2, <1>3, <1>8, <1>9

LEMMA DebtStepIs ==
  ASSUME DebtShape, DebtStep
  PROVE  /\ DebtShape'
         /\ \/ PollDebts /\ debt.pc = "idle" /\ debt.polls > 0 /\ (Scans \/ Rests)
            \/ ProbeDeferred /\ debt.pc = "probe" /\ (Rests \/ (To("settle") /\ debt'.red = debt.red) \/ NextIs(debt.red))
            \/ SettleProofDebt /\ debt.pc = "settle" /\ ((To("escape") /\ debt'.red = TRUE) \/ (To("stamp") /\ debt'.red = FALSE))
            \/ RecordDebtEscape /\ debt.pc = "escape" /\ To("stamp") /\ debt'.red = debt.red
            \/ StampSettled /\ debt.pc = "stamp" /\ NextIs(FALSE)
<1>0. IsDebt(debt)
  BY DEF DebtShape
<1>1. CASE PollDebts
  BY <1>1, PollDebtsIs
<1>2. CASE ProbeDeferred
  <2>1. debt.pc = "probe"
    BY <1>2 DEF ProbeDeferred
  <2>2. CASE debt' = NextDebt(debt)
    BY <1>2, <2>1, <2>2, NextDebtIs DEF NextIs, DebtShape
  <2>3. CASE debt' = [debt EXCEPT !.pc = "settle"]
    BY <1>0, <1>2, <2>1, <2>3, SetPc DEF To, DebtShape
  <2>4. CASE debt' = [debt EXCEPT !.pc = "idle", !.list = <<>>]
    <3> DEFINE idle == [debt EXCEPT !.pc = "idle"]
    <3>1. IsDebt(idle) /\ idle.pc = "idle" /\ idle.red = debt.red
      BY <1>0, SetPc
    <3>2. debt' = [idle EXCEPT !.list = <<>>]
      BY <1>0, <2>4 DEF IsDebt
    <3> HIDE DEF idle
    <3>3. IsDebt(debt') /\ debt'.pc = "idle" /\ debt'.red = debt.red
      BY <3>1, <3>2, SetList
    <3> QED
      BY <1>2, <2>1, <3>3 DEF Rests, DebtShape
  <2> QED
    BY <1>2, <2>2, <2>3, <2>4 DEF ProbeDeferred
<1>3. CASE SettleProofDebt
  <2>1. debt.pc = "settle"
    BY <1>3 DEF SettleProofDebt
  <2>2. PICK red \in BOOLEAN : debt' = [debt EXCEPT !.pc = IF red THEN "escape" ELSE "stamp", !.red = red]
    BY <1>3 DEF SettleProofDebt
  <2> DEFINE place == IF red THEN "escape" ELSE "stamp"
             there == [debt EXCEPT !.pc = place]
  <2>4. debt' = [there EXCEPT !.red = red]
    BY <1>0, <2>2 DEF IsDebt
  <2> HIDE DEF place
  <2>3. IsDebt(there) /\ there.pc = place /\ there.list = debt.list
    BY <1>0, SetPc
  <2> HIDE DEF there
  <2>5. IsDebt(debt') /\ debt'.pc = place /\ debt'.red = red /\ debt'.list = debt.list
    BY <2>3, <2>4, SetRed
  <2>6. red = TRUE \/ red = FALSE
    BY <2>2
  <2> QED
    BY <1>3, <2>1, <2>5, <2>6 DEF To, DebtShape, place
<1>4. CASE RecordDebtEscape
  <2>1. debt.pc = "escape" /\ debt' = [debt EXCEPT !.pc = "stamp"]
    BY <1>4 DEF RecordDebtEscape
  <2> QED
    BY <1>0, <1>4, <2>1, SetPc DEF To, DebtShape
<1>5. CASE StampSettled
  <2> DEFINE next == NextDebt(debt)
             white == [next EXCEPT !.red = FALSE]
  <2>1. /\ debt.pc = "stamp"
        /\ debt' = [next EXCEPT !.red = FALSE, !.owed = OpenProofDebts \ {Head(debt.list)} # {}]
    BY <1>5 DEF StampSettled
  <2>2. /\ IsDebt(next) /\ next.pc = IF Len(debt.list) > 1 THEN "probe" ELSE "idle"
        /\ next.list = Tail(debt.list)
    BY NextDebtIs
  <2> HIDE DEF next
  <2>3. debt' = [white EXCEPT !.owed = OpenProofDebts \ {Head(debt.list)} # {}]
    BY <2>1, <2>2 DEF IsDebt
  <2>4. IsDebt(white) /\ white.pc = next.pc /\ white.list = next.list /\ white.red = FALSE
    BY <2>2, SetRed
  <2> HIDE DEF white
  <2>5. IsDebt(debt') /\ debt'.pc = white.pc /\ debt'.list = white.list /\ debt'.red = FALSE
    BY <2>3, <2>4, SetOwed
  <2> QED
    BY <1>5, <2>1, <2>2, <2>4, <2>5 DEF NextIs, DebtShape
<1> QED
  BY <1>1, <1>2, <1>3, <1>4, <1>5 DEF DebtStep

LEMMA DebtShaped ==
  ASSUME Shaped, DebtStep
  PROVE  /\ Shaped' /\ Quiet /\ UNCHANGED <<chain, flow, review>>
         /\ UNCHANGED <<told.breaches, told.overruns, told.flow, told.reviews>>
<1>1. /\ UNCHANGED <<host, life, ships, outside, chain, flow, review, used>>
      /\ \/ told' = told
         \/ \E x : told' = [told EXCEPT !.settled = x]
         \/ \E x : told' = [told EXCEPT !.escapes = x]
  BY DEF DebtStep, Outer, PollDebts, ProbeDeferred, SettleProofDebt, RecordDebtEscape, StampSettled
<1>2. ToldShape' /\ UNCHANGED <<told.breaches, told.overruns, told.flow, told.reviews>>
  <2>1. ToldShape
    BY DEF Shaped
  <2> QED
    BY <1>1, <2>1, Tells DEF ToldShape
<1>3. DebtShape'
  BY DebtStepIs DEF Shaped
<1>4. FlowShape' /\ ReviewShape' /\ OutsideShape' /\ HostShape' /\ UsedShape'
  BY <1>1 DEF Shaped, FlowShape, ReviewShape, OutsideShape, HostShape, UsedShape, Running
<1> QED
  BY <1>1, <1>2, <1>3, <1>4 DEF Shaped, Quiet

LEMMA FlowShaped ==
  ASSUME Shaped, FlowStep
  PROVE  /\ Shaped' /\ Quiet /\ UNCHANGED <<chain, debt, review>>
         /\ UNCHANGED <<told.breaches, told.overruns, told.settled, told.escapes, told.reviews>>
<1>1. UNCHANGED <<host, life, ships, outside, chain, debt, review>>
  BY DEF FlowStep, Outer
<1>2. told' = told \/ \E x : told' = [told EXCEPT !.flow = x]
  BY DEF FlowStep, PollFlow, Judge, RedJobs, SettleOwnedLoud
<1>3. ToldShape' /\ UNCHANGED <<told.breaches, told.overruns, told.settled, told.escapes, told.reviews>>
  <2>1. ToldShape
    BY DEF Shaped
  <2> QED
    BY <1>2, <2>1, Tells DEF ToldShape
<1>4. FlowShape'
  <2>1. \/ \E pc : flow' = [flow EXCEPT !.pc = pc, !.polls = @ - 1]
        \/ \E pc, build : flow' = [flow EXCEPT !.pc = pc, !.build = build]
    BY DEF FlowStep, PollFlow, Judge, RedJobs, SettleOwnedLoud, FlowTo
  <2> QED
    BY <2>1 DEF Shaped, FlowShape
<1>5. UsedShape' /\ used'.halts = used.halts
  <2>1. used' = used \/ Uses("fails", MaxFails)
    BY DEF FlowStep, PollFlow, Judge, RedJobs, SettleOwnedLoud, Fails
  <2>2. UsedShape
    BY DEF Shaped
  <2> QED
    BY <2>1, <2>2, UsesOne DEF UsedShape
<1>6. DebtShape' /\ ReviewShape' /\ OutsideShape' /\ HostShape'
  BY <1>1 DEF Shaped, DebtShape, ReviewShape, OutsideShape, HostShape, Running
<1> QED
  BY <1>1, <1>3, <1>4, <1>5, <1>6 DEF Shaped, Quiet

LEMMA EvalShaped ==
  ASSUME Shaped, EvalStep
  PROVE  /\ Shaped' /\ Quiet /\ UNCHANGED <<chain, debt, flow>>
         /\ UNCHANGED <<told.breaches, told.overruns, told.flow, told.settled, told.escapes>>
<1>1. UNCHANGED <<host, life, ships, outside, chain, debt, flow>>
  BY DEF EvalStep, Outer
<1>2. told' = told \/ \E x : told' = [told EXCEPT !.reviews = x]
  BY DEF EvalStep, Check, SeatEnds
<1>3. ToldShape' /\ UNCHANGED <<told.breaches, told.overruns, told.flow, told.settled, told.escapes>>
  <2>1. ToldShape
    BY DEF Shaped
  <2> QED
    BY <1>2, <2>1, Tells DEF ToldShape
<1>4. ReviewShape'
  <2>1. \/ \E x : review' = [review EXCEPT !.checks = x]
        \/ \E x, w : review' = [pc |-> "seat", checks |-> x, window |-> w]
        \/ \E w : review' = [review EXCEPT !.pc = "idle", !.window = w]
    BY DEF EvalStep, Check, SeatEnds
  <2> QED
    BY <2>1 DEF Shaped, ReviewShape
<1>5. UsedShape' /\ used'.halts = used.halts
  <2>1. used' = used \/ Uses("fails", MaxFails)
    BY DEF EvalStep, Check, SeatEnds, Fails
  <2>2. UsedShape
    BY DEF Shaped
  <2> QED
    BY <2>1, <2>2, UsesOne DEF UsedShape
<1>6. DebtShape' /\ FlowShape' /\ OutsideShape' /\ HostShape'
  BY <1>1 DEF Shaped, DebtShape, FlowShape, OutsideShape, HostShape, Running
<1> QED
  BY <1>1, <1>3, <1>4, <1>5, <1>6 DEF Shaped, Quiet

(* The forge and the service, and the operator's resolutions. *)
LEMMA WorldShaped ==
  ASSUME Shaped, WorkflowRuns \/ ServiceReturns
  PROVE  /\ Shaped' /\ UNCHANGED <<host, life, ships, told, chain, debt, flow, review, used>>
         /\ ServiceReturns => outside'.builds = outside.builds
         /\ WorkflowRuns => \E word \in {"red", "green"} : outside'.builds = Append(outside.builds, word)
<1>1. UNCHANGED <<host, life, ships, told, chain, debt, flow, review, used>>
  BY DEF WorkflowRuns, ServiceReturns
<1>2. /\ OutsideShape'
      /\ ServiceReturns => outside'.builds = outside.builds
      /\ WorkflowRuns => \E word \in {"red", "green"} : outside'.builds = Append(outside.builds, word)
  <2>1. CASE ServiceReturns
    <3>1. outside' = [outside EXCEPT !.service = "back"]
      BY <2>1 DEF ServiceReturns
    <3>2. OutsideShape' /\ outside'.builds = outside.builds
      BY <3>1 DEF Shaped, OutsideShape
    <3>3. WorkflowRuns => \E word \in {"red", "green"} : outside'.builds = Append(outside.builds, word)
      BY DEF WorkflowRuns, Shaped, OutsideShape
    <3> QED
      BY <3>2, <3>3
  <2>2. CASE WorkflowRuns
    <3>1. PICK word \in {"red", "green"} : outside' = [outside EXCEPT !.builds = Append(outside.builds, word)]
      BY <2>2 DEF WorkflowRuns
    <3>2. OutsideShape' /\ outside'.builds = Append(outside.builds, word)
      BY <3>1 DEF Shaped, OutsideShape
    <3>3. ServiceReturns => outside'.builds = outside.builds
      BY DEF ServiceReturns, Shaped, OutsideShape
    <3> QED
      BY <3>2, <3>3
  <2> QED
    BY <2>1, <2>2
<1>3. ToldShape' /\ DebtShape' /\ FlowShape' /\ ReviewShape' /\ HostShape' /\ UsedShape'
  BY <1>1 DEF Shaped, ToldShape, DebtShape, FlowShape, ReviewShape, HostShape, UsedShape, Running
<1> QED
  BY <1>1, <1>2, <1>3 DEF Shaped

ResolvesABreach == \E i \in OpenBreaches : told' = [told EXCEPT !.breaches = [told.breaches EXCEPT ![i] = "resolved"]]
ResolvesARed == \E i \in OpenReds : told' = [told EXCEPT !.flow = [told.flow EXCEPT ![i] = [told.flow[i] EXCEPT !.open = FALSE]]]
ResolvesAnOverrun ==
  \E r \in Watched : \E i \in Standing(r) :
     told' = [told EXCEPT !.overruns = [told.overruns EXCEPT ![i] = [told.overruns[i] EXCEPT !.open = FALSE]]]

LEMMA ResolveShaped ==
  ASSUME Shaped, OperatorResolves
  PROVE  /\ Shaped' /\ Quiet /\ UNCHANGED <<chain, debt, flow, review>>
         /\ UNCHANGED <<told.settled, told.escapes, told.reviews>>
         /\ \/ ResolvesABreach /\ UNCHANGED <<told.flow, told.overruns>>
            \/ ResolvesARed /\ UNCHANGED <<told.breaches, told.overruns>>
            \/ ResolvesAnOverrun /\ UNCHANGED <<told.breaches, told.flow>>
<1>1. UNCHANGED <<host, life, ships, outside, chain, debt, flow, review>>
  BY DEF OperatorResolves, Outer
<1>2. ResolvesABreach \/ ResolvesARed \/ ResolvesAnOverrun
  <2>1. CASE \E i \in OpenBreaches : told' = [told EXCEPT !.breaches[i] = "resolved"]
    BY <2>1 DEF ResolvesABreach
  <2>2. CASE \E i \in OpenReds : told' = [told EXCEPT !.flow[i].open = FALSE]
    BY <2>2 DEF ResolvesARed
  <2>3. CASE \E r \in Watched : \E i \in Standing(r) : told' = [told EXCEPT !.overruns[i].open = FALSE]
    BY <2>3 DEF ResolvesAnOverrun
  <2> QED
    BY <2>1, <2>2, <2>3 DEF OperatorResolves
<1>3. /\ ToldShape' /\ UNCHANGED <<told.settled, told.escapes, told.reviews>>
      /\ \/ ResolvesABreach /\ UNCHANGED <<told.flow, told.overruns>>
         \/ ResolvesARed /\ UNCHANGED <<told.breaches, told.overruns>>
         \/ ResolvesAnOverrun /\ UNCHANGED <<told.breaches, told.flow>>
  <2>1. ToldShape
    BY DEF Shaped
  <2>2. CASE ResolvesABreach
    <3>1. PICK x : told' = [told EXCEPT !.breaches = x]
      BY <2>2 DEF ResolvesABreach
    <3> QED
      BY <2>1, <2>2, <3>1, Tells DEF ToldShape
  <2>3. CASE ResolvesARed
    <3>1. PICK x : told' = [told EXCEPT !.flow = x]
      BY <2>3 DEF ResolvesARed
    <3> QED
      BY <2>1, <2>3, <3>1, Tells DEF ToldShape
  <2>4. CASE ResolvesAnOverrun
    <3>1. PICK x : told' = [told EXCEPT !.overruns = x]
      BY <2>4 DEF ResolvesAnOverrun
    <3> QED
      BY <2>1, <2>4, <3>1, Tells DEF ToldShape
  <2> QED
    BY <1>2, <2>2, <2>3, <2>4
<1>4. UsedShape' /\ used'.halts = used.halts
  <2>1. Uses("resolves", MaxResolves)
    BY DEF OperatorResolves
  <2>2. UsedShape
    BY DEF Shaped
  <2> QED
    BY <2>1, <2>2, UsesOne
<1>5. DebtShape' /\ FlowShape' /\ ReviewShape' /\ OutsideShape' /\ HostShape'
  BY <1>1 DEF Shaped, DebtShape, FlowShape, ReviewShape, OutsideShape, HostShape, Running
<1> QED
  BY <1>1, <1>3, <1>4, <1>5 DEF Shaped, Quiet

(* What a start or a crash leaves of the observers, and what a stop does.       *)
Reset == /\ UNCHANGED <<ships, outside, told>> /\ chain' = <<>>
         /\ debt'.pc = "idle" /\ debt'.red = FALSE /\ flow'.pc = "idle" /\ review'.pc = "idle"
Lost == life' = [r \in Watched |-> [life[r] EXCEPT
            !.lost = @ \/ \E k \in DOMAIN chain : chain[k].run = r /\ chain[k].pc = "queued" /\ Ending(chain[k])]]

LEMMA LostIs ==
  ASSUME life \in [Watched -> RunFacts], Lost
  PROVE  /\ life' \in [Watched -> RunFacts]
         /\ \A r \in Watched :
              /\ life'[r].st = life[r].st /\ life'[r].visit = life[r].visit
              /\ life[r].lost => life'[r].lost
              /\ (\E k \in DOMAIN chain : chain[k].run = r /\ chain[k].pc = "queued" /\ Ending(chain[k])) => life'[r].lost
<1> DEFINE Takes(r) == \E k \in DOMAIN chain : chain[k].run = r /\ chain[k].pc = "queued" /\ Ending(chain[k])
<1>1. ASSUME NEW f \in RunFacts, NEW b \in BOOLEAN
      PROVE  /\ [f EXCEPT !.lost = @ \/ b] \in RunFacts
             /\ [f EXCEPT !.lost = @ \/ b].st = f.st /\ [f EXCEPT !.lost = @ \/ b].visit = f.visit
             /\ [f EXCEPT !.lost = @ \/ b].lost = (f.lost \/ b)
  BY DEF RunFacts
<1>2. \A r \in Watched : life[r] \in RunFacts /\ Takes(r) \in BOOLEAN
  OBVIOUS
<1>3. life' = [r \in Watched |-> [life[r] EXCEPT !.lost = @ \/ Takes(r)]]
  BY DEF Lost
<1> HIDE DEF Takes, RunFacts
<1>4. \A r \in Watched : /\ life'[r] \in RunFacts
                         /\ life'[r].st = life[r].st /\ life'[r].visit = life[r].visit
                         /\ life'[r].lost = (life[r].lost \/ Takes(r))
  BY <1>1, <1>2, <1>3
<1>5. life' \in [Watched -> RunFacts]
  BY <1>3, <1>4
<1> QED
  BY <1>4, <1>5 DEF Takes

LEMMA StartShaped ==
  ASSUME Shaped, StartHost
  PROVE  /\ Shaped' /\ Reset /\ used' = used /\ life' = life /\ host.up = "down" /\ host'.up = "up" /\ host'.stopped = 0
<1>1. /\ UNCHANGED <<life, ships, outside, told, used>> /\ chain' = <<>> /\ host.up = "down"
      /\ host' = [up |-> "up", stopped |-> 0]
      /\ debt' = [NoDebts EXCEPT !.polls = 1] /\ flow' = [NoFlow EXCEPT !.polls = 1]
      /\ review' = [NoReview EXCEPT !.checks = 1]
  BY DEF StartHost
<1>2. DebtShape' /\ debt'.pc = "idle" /\ debt'.red = FALSE
  BY <1>1 DEF DebtShape, IsDebt, NoDebts
<1>3. FlowShape' /\ flow'.pc = "idle" /\ ReviewShape' /\ review'.pc = "idle"
  BY <1>1 DEF FlowShape, NoFlow, ReviewShape, NoReview
<1>4. HostShape' /\ host'.up = "up" /\ host'.stopped = 0
  BY <1>1 DEF HostShape
<1>5. ToldShape' /\ OutsideShape' /\ UsedShape' /\ chain' \in Seq(Queueable)
  BY <1>1 DEF Shaped, ToldShape, OutsideShape, UsedShape
<1> QED
  BY <1>1, <1>2, <1>3, <1>4, <1>5 DEF Shaped, Reset

LEMMA CrashShaped ==
  ASSUME Shaped, HostCrashes
  PROVE  /\ Shaped' /\ Reset /\ used'.halts = used.halts + 1 /\ Lost
         /\ debt' = NoDebts /\ host'.up = "down" /\ host'.stopped = 0
<1>1. /\ UNCHANGED <<ships, outside, told>> /\ chain' = <<>> /\ Lost
      /\ host' = [up |-> "down", stopped |-> 0]
      /\ debt' = NoDebts /\ flow' = NoFlow /\ review' = NoReview
      /\ Uses("halts", MaxHalts)
  BY DEF HostCrashes, LosesTheChain, Lost
<1>2. DebtShape' /\ debt'.pc = "idle" /\ debt'.red = FALSE
  BY <1>1 DEF DebtShape, IsDebt, NoDebts
<1>3. FlowShape' /\ flow'.pc = "idle" /\ ReviewShape' /\ review'.pc = "idle"
  BY <1>1 DEF FlowShape, NoFlow, ReviewShape, NoReview
<1>4. HostShape' /\ host'.up = "down" /\ host'.stopped = 0
  BY <1>1 DEF HostShape, Running
<1>5. ToldShape' /\ OutsideShape' /\ chain' \in Seq(Queueable)
  BY <1>1 DEF Shaped, ToldShape, OutsideShape
<1>6. UsedShape' /\ used'.halts = used.halts + 1
  BY <1>1, UsesAHalt DEF Shaped
<1>7. life' \in [Watched -> RunFacts]
  BY <1>1, LostIs DEF Shaped
<1> QED
  BY <1>1, <1>2, <1>3, <1>4, <1>5, <1>6, <1>7 DEF Shaped, Reset

LEMMA StopShaped ==
  ASSUME Shaped, HostStops
  PROVE  /\ Shaped' /\ UNCHANGED <<ships, outside, told, chain, debt, flow, review>>
         /\ used'.halts = used.halts + 1 /\ Lost
         /\ Running /\ host'.up = "stopping" /\ host'.stopped = 1
<1>1. /\ UNCHANGED <<ships, outside, told, chain, debt, flow, review>> /\ Lost /\ Running
      /\ host' = [up |-> "stopping", stopped |-> 1]
      /\ Uses("halts", MaxHalts)
  BY DEF HostStops, LosesTheChain, Lost
<1>2. HostShape' /\ host'.up = "stopping" /\ host'.stopped = 1
  BY <1>1 DEF HostShape, Running
<1>3. UsedShape' /\ used'.halts = used.halts + 1
  BY <1>1, UsesAHalt DEF Shaped
<1>4. life' \in [Watched -> RunFacts]
  BY <1>1, LostIs DEF Shaped
<1>5. ToldShape' /\ DebtShape' /\ FlowShape' /\ ReviewShape' /\ OutsideShape' /\ chain' \in Seq(Queueable)
  BY <1>1 DEF Shaped, ToldShape, DebtShape, FlowShape, ReviewShape, OutsideShape
<1> QED
  BY <1>1, <1>2, <1>3, <1>4, <1>5 DEF Shaped

LEMMA ObserverShaped ==
  ASSUME Shaped, ObserverStops
  PROVE  /\ Shaped' /\ UNCHANGED <<life, ships, outside, told, chain, debt, flow, review, used>>
         /\ host.up = "stopping"
         /\ \/ host.stopped = 4 /\ host'.up = "down" /\ host'.stopped = 0
            \/ host'.up = "stopping" /\ host'.stopped = host.stopped + 1
         /\ host.stopped = 3 => debt.pc = "idle" /\ debt.polls = 0
<1>1. /\ UNCHANGED <<life, ships, outside, told, chain, debt, flow, review, used>>
      /\ host.up = "stopping" /\ Rested(Observing[host.stopped])
      /\ host' = IF host.stopped = Len(Observing) THEN [up |-> "down", stopped |-> 0] ELSE [host EXCEPT !.stopped = @ + 1]
  BY DEF ObserverStops
<1>2. Len(Observing) = 4 /\ Observing[3] = "debts"
  BY DEF Observing
<1>3. host.stopped = 3 => debt.pc = "idle" /\ debt.polls = 0
  BY <1>1, <1>2 DEF Rested
<1>4. /\ HostShape'
      /\ \/ host.stopped = 4 /\ host'.up = "down" /\ host'.stopped = 0
         \/ host'.up = "stopping" /\ host'.stopped = host.stopped + 1
  <2>1. PICK n \in Nat : n = host.stopped
    BY DEF Shaped, HostShape
  <2>2. CASE n = 4
    BY <1>1, <1>2, <2>1, <2>2 DEF HostShape, Running
  <2>3. CASE n # 4
    <3>1. host' = [host EXCEPT !.stopped = n + 1]
      BY <1>1, <1>2, <2>1, <2>3
    <3>2. host' = [up |-> "stopping", stopped |-> n + 1]
      BY <1>1, <3>1 DEF Shaped, HostShape
    <3> QED
      BY <2>1, <3>2 DEF HostShape, Running
  <2> QED
    BY <2>2, <2>3
<1>5. ToldShape' /\ DebtShape' /\ FlowShape' /\ ReviewShape' /\ OutsideShape' /\ UsedShape'
  BY <1>1 DEF Shaped, ToldShape, DebtShape, FlowShape, ReviewShape, OutsideShape, UsedShape
<1> QED
  BY <1>1, <1>3, <1>4, <1>5 DEF Shaped

---------------------------------------------------------------------------
(* The wire: only the head of the chain is under way, and it reads the metric     *)
(* only behind an evaluation that found no open breach.                         *)
Wire == /\ told.breaches \in Seq({"open", "resolved"})
        /\ \A k \in DOMAIN chain : k > 1 => chain[k].pc = "queued"
        /\ chain # <<>> /\ chain[1].pc = "reading" => OpenBreaches = {}
        /\ \A i, j \in OpenBreaches : i = j

LEMMA BreachesKept ==
  ASSUME told'.breaches = told.breaches
  PROVE  OpenBreaches' = OpenBreaches
BY DEF OpenBreaches

LEMMA QueuedItem ==
  ASSUME NEW event, NEW r
  PROVE  Item(event, r).pc = "queued" /\ Item(event, r).event = event /\ Item(event, r).run = r
BY DEF Item

LEMMA WireGrows ==
  ASSUME Shaped, Wire, told'.breaches = told.breaches, NEW event, NEW r, Grows(event, r)
  PROVE  Wire'
<1>1. /\ chain \in Seq(Queueable) /\ DOMAIN chain = 1..Len(chain) /\ Len(chain) \in Nat
      /\ DOMAIN chain' = 1..Len(chain) + 1
  BY DEF Shaped, Grows
<1>2. \A k \in DOMAIN chain' : k > 1 => chain'[k].pc = "queued"
  BY <1>1, QueuedItem DEF Wire, Grows
<1>3. chain'[1].pc = "reading" => OpenBreaches = {}
  <2>1. CASE Len(chain) = 0
    BY <2>1, QueuedItem DEF Grows
  <2>2. CASE Len(chain) # 0
    <3>1. chain # <<>> /\ chain'[1] = chain[1]
      BY <1>1, <2>2 DEF Grows
    <3> QED
      BY <3>1 DEF Wire
  <2> QED
    BY <2>1, <2>2
<1> QED
  BY <1>2, <1>3, BreachesKept DEF Wire

LEMMA WireTripwire ==
  ASSUME Shaped, Wire, TripwireStep
  PROVE  Wire'
<1>1. /\ chain # <<>> /\ (Handle(1) \/ RegistryFor(1) \/ Evaluate(1) \/ EvaluateMetric(1))
      /\ Shrinks \/ \E pc \in UnderWay : Marks(pc)
  BY TripwireIs
<1>2. chain \in Seq(Queueable) /\ DOMAIN chain = 1..Len(chain) /\ Len(chain) \in Nat /\ Len(chain) > 0
  BY <1>1 DEF Shaped
<1>3. \A k \in DOMAIN chain' : k > 1 => chain'[k].pc = "queued"
  <2>1. CASE Shrinks
    <3>1. DOMAIN chain' = 1..Len(chain) - 1
      BY <1>2, <2>1 DEF Shrinks
    <3>2. \A k \in 1..Len(chain) - 1 : k + 1 \in 1..Len(chain) /\ k + 1 > 1
      BY <1>2
    <3> QED
      BY <2>1, <3>1, <3>2, <1>2 DEF Shrinks, Wire
  <2>2. CASE \E pc \in UnderWay : Marks(pc)
    <3>1. DOMAIN chain' = 1..Len(chain)
      BY <1>2, <2>2 DEF Marks
    <3> QED
      BY <2>2, <3>1, <1>2 DEF Marks, Wire
  <2> QED
    BY <1>1, <2>1, <2>2
<1>4. Shrinks /\ chain' # <<>> => chain'[1].pc = "queued"
  <2>1. SUFFICES ASSUME Shrinks, chain' # <<>>
                 PROVE  chain'[1].pc = "queued"
    OBVIOUS
  <2>2. 1 \in 1..Len(chain') /\ 2 \in 1..Len(chain)
    BY <1>2, <2>1 DEF Shrinks
  <2>3. chain'[1] = chain[2]
    BY <2>1, <2>2 DEF Shrinks
  <2> QED
    BY <1>2, <2>2, <2>3 DEF Wire
<1>5. CASE told'.breaches = told.breaches
  <2>1. chain' # <<>> /\ chain'[1].pc = "reading" => OpenBreaches = {}
    <3>1. SUFFICES ASSUME chain' # <<>>, chain'[1].pc = "reading"
                   PROVE  OpenBreaches = {}
      OBVIOUS
    <3>2. ~Shrinks
      BY <1>4, <3>1
    <3>3. \A pc : Goes(1, pc) /\ pc \in UnderWay => pc = "reading"
      BY <1>1, <3>1, HeadGoes DEF Marks
    <3>4. \A item : AfterHandling(item) \in {"evaluate", "done"}
      BY DEF AfterHandling
    <3> QED
      BY <1>1, <3>2, <3>3, <3>4, HeadGoes DEF Handle, RegistryFor, Evaluate, EvaluateMetric, Proceeds, UnderWay
  <2> QED
    BY <1>3, <1>5, <2>1, BreachesKept DEF Wire
<1>6. CASE told'.breaches # told.breaches
  <2>1. ToldShape
    BY DEF Shaped
  <2>2. EvaluateMetric(1)
    <3>1. \A x : told' = [told EXCEPT !.overruns = x] => told'.breaches = told.breaches
      BY <2>1, Tells
    <3> QED
      BY <1>1, <1>6, <3>1 DEF Handle, CheckStageDuration, RegistryFor, Evaluate
  <2>3. chain[1].pc = "reading" /\ chain' = Without(1) /\ told' = [told EXCEPT !.breaches = Append(told.breaches, "open")]
    BY <1>6, <2>2 DEF EvaluateMetric
  <2>4. OpenBreaches = {} /\ told.breaches \in Seq({"open", "resolved"})
    BY <1>1, <2>3 DEF Wire
  <2>5. told'.breaches = Append(told.breaches, "open")
    BY <2>1, <2>3, Tells
  <2>6. Shrinks
    BY <1>1, <2>3, HeadGoes
  <2>7. /\ told'.breaches \in Seq({"open", "resolved"})
        /\ DOMAIN told'.breaches = 1..Len(told.breaches) + 1 /\ Len(told.breaches) \in Nat
        /\ \A i \in 1..Len(told.breaches) : told'.breaches[i] = told.breaches[i]
    BY <2>4, <2>5, AppendAdds, SeqDomain
  <2>8. \A i \in OpenBreaches' : i = Len(told.breaches) + 1
    BY <2>4, <2>7, SeqDomain DEF OpenBreaches
  <2> QED
    BY <1>3, <1>4, <2>6, <2>7, <2>8 DEF Wire
<1> QED
  BY <1>5, <1>6

LEMMA WireResolve ==
  ASSUME Shaped, Wire, ResolvesABreach, chain' = chain
  PROVE  Wire'
<1>1. PICK i \in OpenBreaches : told' = [told EXCEPT !.breaches = [told.breaches EXCEPT ![i] = "resolved"]]
  BY DEF ResolvesABreach
<1>2. told'.breaches = [told.breaches EXCEPT ![i] = "resolved"]
  BY <1>1, Tells DEF Shaped
<1>3. told.breaches \in Seq({"open", "resolved"}) /\ i \in 1..Len(told.breaches)
  BY DEF Wire, OpenBreaches
<1>4. told'.breaches \in Seq({"open", "resolved"}) /\ DOMAIN told'.breaches = DOMAIN told.breaches
  BY <1>2, <1>3, ExceptSeq
<1>5. OpenBreaches' \subseteq OpenBreaches
  BY <1>2, <1>3, <1>4 DEF OpenBreaches
<1> QED
  BY <1>4, <1>5 DEF Wire

LEMMA WireStep ==
  ASSUME Shaped, Wire, [ObsNext]_obsVars
  PROVE  Wire'
<1>1. ASSUME chain' = chain, told'.breaches = told.breaches
      PROVE  Wire'
  BY <1>1, BreachesKept DEF Wire
<1>2. ASSUME chain' = <<>>, told'.breaches = told.breaches
      PROVE  Wire'
  BY <1>2, BreachesKept DEF Wire
<1>3. CASE RunStep
  <2>1. PICK r \in Watched : Enters(r) \/ Beats(r) \/ Defers(r) \/ Merges(r) \/ Closes(r)
    BY <1>3 DEF RunStep
  <2>2. told' = told /\ (chain' = chain \/ \E event : Grows(event, r))
    BY <2>1, RunStepIs
  <2> QED
    BY <1>1, <2>2, WireGrows
<1>4. CASE TripwireStep
  BY <1>4, WireTripwire
<1>5. CASE QueuePoll
  BY <1>1, <1>5, PollShaped
<1>6. CASE DebtStep
  BY <1>1, <1>6, DebtShaped
<1>7. CASE FlowStep
  BY <1>1, <1>7, FlowShaped
<1>8. CASE EvalStep
  BY <1>1, <1>8, EvalShaped
<1>9. CASE WorkflowRuns \/ ServiceReturns
  BY <1>1, <1>9, WorldShaped
<1>10. CASE OperatorResolves
  BY <1>1, <1>10, ResolveShaped, WireResolve
<1>11. CASE StartHost
  BY <1>2, <1>11, StartShaped DEF Reset
<1>12. CASE HostCrashes
  BY <1>2, <1>12, CrashShaped DEF Reset
<1>13. CASE HostStops
  BY <1>1, <1>13, StopShaped
<1>14. CASE ObserverStops
  BY <1>1, <1>14, ObserverShaped
<1>15. CASE UNCHANGED obsVars
  BY <1>1, <1>15 DEF obsVars
<1> QED
  BY <1>3, <1>4, <1>5, <1>6, <1>7, <1>8, <1>9, <1>10, <1>11, <1>12, <1>13, <1>14, <1>15 DEF ObsNext, HostStep


---------------------------------------------------------------------------
(* The records of a stage's duration, of a queue c, the runs' facts f and the     *)
(* records o: a record is about the stage its run stands in, or what ends it is   *)
(* queued, or a stop took that; and so is every beat that may open one.          *)
EndsBehind(c, q, k) == \E j \in DOMAIN c : j > k /\ c[j].run = q /\ c[j].pc = "queued" /\ Ending(c[j])
Stands(f, q, stage) == f[q].st # "closed" /\ stage = f[q].visit
Current(c, f, q, stage, k) == Stands(f, q, stage) \/ EndsBehind(c, q, k) \/ f[q].lost
QueuedBeat(item) == item.pc = "queued" /\ item.event = "beat"
BeatsCurrent(c, f) == \A k \in DOMAIN c : QueuedBeat(c[k]) => Current(c, f, c[k].run, c[k].stage, k)
RecordsCurrent(c, f, o, k) == \A i \in DOMAIN o : o[i].open => Current(c, f, o[i].run, o[i].stage, k)
EndsAreLost(c, f) == \A k \in DOMAIN c : c[k].pc = "queued" /\ Ending(c[k]) => f[c[k].run].lost
Timely(c, f, o, up) == BeatsCurrent(c, f) /\ RecordsCurrent(c, f, o, 0) /\ (up \/ EndsAreLost(c, f))

Record == [run : Watched, stage : Nat, open : BOOLEAN]
Overruns == told.overruns \in Seq(Record) /\ Timely(chain, life, told.overruns, Running)

LEMMA RecordsAre ==
  ASSUME NEW o \in Seq(Record)
  PROVE  \A i \in DOMAIN o : o[i] \in Record /\ o[i].run \in Watched /\ o[i].stage \in Nat /\ o[i].open \in BOOLEAN
<1>1. \A i \in DOMAIN o : o[i] \in Record
  BY SeqDomain
<1> QED
  BY <1>1 DEF Record

LEMMA QueuedAre ==
  ASSUME NEW c \in Seq(Queueable)
  PROVE  \A k \in DOMAIN c : c[k] \in Queueable /\ c[k].run \in Watched /\ c[k].stage \in Nat
<1>1. \A k \in DOMAIN c : c[k] \in Queueable
  BY SeqDomain
<1> QED
  BY <1>1 DEF Queueable

LEMMA CurrentStays ==
  ASSUME NEW c, NEW d, NEW f, NEW g, NEW q, NEW s, NEW k, NEW m, Current(c, f, q, s, k),
         f[q].lost => g[q].lost, Stands(f, q, s) => Stands(g, q, s) \/ EndsBehind(d, q, m),
         EndsBehind(c, q, k) => EndsBehind(d, q, m)
  PROVE  Current(d, g, q, s, m)
BY DEF Current

(* An item more: what stood stands on, or the item ends it. *)
LEMMA TimelyBehindOneMore ==
  ASSUME NEW c \in Seq(Queueable), NEW d \in Seq(Queueable), Len(d) = Len(c) + 1, \A k \in 1..Len(c) : d[k] = c[k],
         NEW f, NEW g, NEW o \in Seq(Record), Timely(c, f, o, TRUE),
         \A q \in Watched : f[q].lost => g[q].lost,
         \A q \in Watched, s \in Nat : Stands(f, q, s) =>
            \/ Stands(g, q, s)
            \/ d[Len(c) + 1].run = q /\ d[Len(c) + 1].pc = "queued" /\ Ending(d[Len(c) + 1]),
         QueuedBeat(d[Len(c) + 1]) => Stands(g, d[Len(c) + 1].run, d[Len(c) + 1].stage)
  PROVE  Timely(d, g, o, TRUE)
<1>1. DOMAIN c = 1..Len(c) /\ Len(c) \in Nat /\ DOMAIN d = 1..Len(c) + 1
  OBVIOUS
<1>2. PICK n \in Nat : n = Len(c)
  BY <1>1
<1>3. ASSUME NEW q, NEW k \in 0..n, EndsBehind(c, q, k)
      PROVE  EndsBehind(d, q, k)
  <2>1. PICK j \in DOMAIN c : j > k /\ c[j].run = q /\ c[j].pc = "queued" /\ Ending(c[j])
    BY <1>3 DEF EndsBehind
  <2>2. j \in DOMAIN d /\ d[j] = c[j]
    BY <1>1, <2>1
  <2> QED
    BY <2>1, <2>2 DEF EndsBehind
<1>4. ASSUME NEW q \in Watched, NEW s \in Nat, NEW k \in 0..n, Stands(f, q, s)
      PROVE  Stands(g, q, s) \/ EndsBehind(d, q, k)
  <2>1. n + 1 \in DOMAIN d /\ n + 1 > k
    BY <1>1, <1>2
  <2> QED
    BY <1>2, <1>4, <2>1 DEF EndsBehind
<1>5. ASSUME NEW q \in Watched, NEW s \in Nat, NEW k \in 0..n, Current(c, f, q, s, k)
      PROVE  Current(d, g, q, s, k)
  BY <1>3, <1>4, <1>5, CurrentStays
<1>6. RecordsCurrent(d, g, o, 0)
  <2>1. \A i \in DOMAIN o : o[i].run \in Watched /\ o[i].stage \in Nat
    BY RecordsAre
  <2> QED
    BY <1>5, <2>1 DEF RecordsCurrent, Timely
<1>7. BeatsCurrent(d, g)
  <2>1. SUFFICES ASSUME NEW k \in DOMAIN d, QueuedBeat(d[k])
                 PROVE  Current(d, g, d[k].run, d[k].stage, k)
    BY DEF BeatsCurrent
  <2>2. CASE k \in DOMAIN c
    <3>1. d[k] = c[k] /\ k \in 0..n /\ d[k] \in Queueable
      BY <1>1, <1>2, <2>2
    <3>2. d[k].run \in Watched /\ d[k].stage \in Nat
      BY <3>1 DEF Queueable
    <3>3. Current(c, f, d[k].run, d[k].stage, k)
      BY <2>1, <2>2, <3>1 DEF Timely, BeatsCurrent
    <3> QED
      BY <1>5, <3>1, <3>2, <3>3
  <2>3. CASE k = Len(c) + 1
    BY <2>1, <2>3 DEF Current
  <2> QED
    BY <1>1, <2>2, <2>3
<1> QED
  BY <1>6, <1>7 DEF Timely

(* The head goes, and no record rests on it. *)
LEMMA TimelyWithoutTheHead ==
  ASSUME NEW c \in Seq(Queueable), NEW d \in Seq(Queueable), Len(d) = Len(c) - 1, \A k \in 1..Len(d) : d[k] = c[k + 1],
         NEW f, NEW o, NEW up, BeatsCurrent(c, f), up \/ EndsAreLost(c, f), RecordsCurrent(c, f, o, 1)
  PROVE  Timely(d, f, o, up)
<1>1. DOMAIN c = 1..Len(c) /\ Len(c) \in Nat /\ DOMAIN d = 1..Len(d) /\ Len(d) \in Nat
  OBVIOUS
<1>2. \A k \in DOMAIN d : k + 1 \in DOMAIN c /\ d[k] = c[k + 1]
  BY <1>1
<1>3. ASSUME NEW q, NEW k \in Nat, EndsBehind(c, q, k + 1)
      PROVE  EndsBehind(d, q, k)
  <2>1. PICK j \in DOMAIN c : j > k + 1 /\ c[j].run = q /\ c[j].pc = "queued" /\ Ending(c[j])
    BY <1>3 DEF EndsBehind
  <2>2. j - 1 \in DOMAIN d /\ j - 1 > k /\ (j - 1) + 1 = j
    BY <1>1, <2>1
  <2>3. d[j - 1] = c[j]
    BY <1>2, <2>2
  <2> QED
    BY <2>1, <2>2, <2>3 DEF EndsBehind
<1>4. ASSUME NEW q, NEW s, NEW k \in Nat, Current(c, f, q, s, k + 1)
      PROVE  Current(d, f, q, s, k)
  BY <1>3, <1>4 DEF Current
<1>5. BeatsCurrent(d, f)
  <2>1. SUFFICES ASSUME NEW k \in DOMAIN d, QueuedBeat(d[k])
                 PROVE  Current(d, f, d[k].run, d[k].stage, k)
    BY DEF BeatsCurrent
  <2>2. Current(c, f, d[k].run, d[k].stage, k + 1)
    BY <1>2, <2>1 DEF BeatsCurrent
  <2> QED
    BY <1>1, <1>4, <2>2
<1>6. RecordsCurrent(d, f, o, 0)
  BY <1>4, 0 + 1 = 1 DEF RecordsCurrent
<1>7. EndsAreLost(c, f) => EndsAreLost(d, f)
  BY <1>2 DEF EndsAreLost
<1> QED
  BY <1>5, <1>6, <1>7 DEF Timely

(* The head is under way, and no record rests on it. *)
LEMMA TimelyBehindTheHead ==
  ASSUME NEW c \in Seq(Queueable), NEW d \in Seq(Queueable), Len(d) = Len(c), \A k \in 2..Len(c) : d[k] = c[k],
         d[1].pc # "queued",
         NEW f, NEW o, NEW up, BeatsCurrent(c, f), up \/ EndsAreLost(c, f), RecordsCurrent(c, f, o, 1)
  PROVE  Timely(d, f, o, up)
<1>1. DOMAIN c = 1..Len(c) /\ Len(c) \in Nat /\ DOMAIN d = 1..Len(c)
  OBVIOUS
<1>2. \A k \in DOMAIN d : k # 1 => k > 1 /\ k \in DOMAIN c /\ d[k] = c[k]
  BY <1>1
<1>3. ASSUME NEW q, NEW k \in Nat, NEW m \in Nat, k > 0, m <= k, EndsBehind(c, q, k)
      PROVE  EndsBehind(d, q, m)
  <2>1. PICK j \in DOMAIN c : j > k /\ c[j].run = q /\ c[j].pc = "queued" /\ Ending(c[j])
    BY <1>3 DEF EndsBehind
  <2>2. j \in DOMAIN d /\ j # 1 /\ j > m
    BY <1>1, <1>3, <2>1
  <2> QED
    BY <1>2, <2>1, <2>2 DEF EndsBehind
<1>4. ASSUME NEW q, NEW s, NEW k \in Nat, NEW m \in Nat, k > 0, m <= k, Current(c, f, q, s, k)
      PROVE  Current(d, f, q, s, m)
  BY <1>3, <1>4 DEF Current
<1>5. BeatsCurrent(d, f)
  <2>1. SUFFICES ASSUME NEW k \in DOMAIN d, QueuedBeat(d[k])
                 PROVE  Current(d, f, d[k].run, d[k].stage, k)
    BY DEF BeatsCurrent
  <2>2. k # 1
    BY <2>1 DEF QueuedBeat
  <2>3. Current(c, f, d[k].run, d[k].stage, k)
    BY <1>2, <2>1, <2>2 DEF BeatsCurrent
  <2>4. k \in Nat /\ k > 0 /\ k <= k
    BY <1>1
  <2> QED
    BY <1>4, <2>3, <2>4
<1>6. RecordsCurrent(d, f, o, 0)
  <2>1. 1 \in Nat /\ 0 \in Nat /\ 1 > 0 /\ 0 <= 1
    OBVIOUS
  <2> QED
    BY <1>4, <2>1 DEF RecordsCurrent
<1>7. EndsAreLost(c, f) => EndsAreLost(d, f)
  BY <1>2 DEF EndsAreLost
<1> QED
  BY <1>5, <1>6, <1>7 DEF Timely

(* The queue stays, or goes with a stop; a record that goes leaves no other stale. *)
LEMMA TimelyOverTheSame ==
  ASSUME NEW c, NEW f, NEW g, NEW o \in Seq(Record), NEW up, NEW now, Timely(c, f, o, up),
         c \in Seq(Queueable),
         \A q \in Watched : /\ f[q].lost => g[q].lost
                            /\ \A s : Stands(f, q, s) => Stands(g, q, s),
         now \/ ~up \/ EndsAreLost(c, g)
  PROVE  Timely(c, g, o, now)
<1>1. ASSUME NEW q \in Watched, NEW s, NEW k, Current(c, f, q, s, k)
      PROVE  Current(c, g, q, s, k)
  BY <1>1 DEF Current
<1>2. \A i \in DOMAIN o : o[i].run \in Watched
  BY RecordsAre
<1>3. \A k \in DOMAIN c : c[k].run \in Watched
  BY QueuedAre
<1>4. EndsAreLost(c, f) => EndsAreLost(c, g)
  BY <1>3 DEF EndsAreLost
<1> QED
  BY <1>1, <1>2, <1>3, <1>4 DEF Timely, BeatsCurrent, RecordsCurrent

LEMMA TimelyWithoutAQueue ==
  ASSUME NEW c, NEW f, NEW g, NEW o \in Seq(Record), NEW up, NEW now, Timely(c, f, o, up),
         \A q \in Watched : /\ f[q].lost => g[q].lost
                            /\ \A s : Stands(f, q, s) => Stands(g, q, s)
                            /\ EndsBehind(c, q, 0) => g[q].lost
  PROVE  Timely(<<>>, g, o, now)
<1>1. DOMAIN <<>> = {}
  OBVIOUS
<1>2. \A i \in DOMAIN o : o[i].run \in Watched
  BY RecordsAre
<1>3. RecordsCurrent(<<>>, g, o, 0)
  BY <1>2 DEF Timely, RecordsCurrent, Current
<1> QED
  BY <1>1, <1>3 DEF Timely, BeatsCurrent, EndsAreLost

LEMMA OverrunsRun ==
  ASSUME Shaped, Overruns, NEW r \in Watched, Enters(r) \/ Beats(r) \/ Defers(r) \/ Merges(r) \/ Closes(r)
  PROVE  Overruns'
<1>1. /\ Shaped' /\ Running /\ Running' /\ told' = told
      /\ Enters(r) => Grows("entered", r)
      /\ Beats(r) => Grows("beat", r)
      /\ Merges(r) => Grows("merged", r)
      /\ Closes(r) => Grows("closed", r)
      /\ Defers(r) => chain' = chain
  BY RunStepIs DEF Running
<1>2. /\ told.overruns \in Seq(Record) /\ Timely(chain, life, told.overruns, TRUE)
      /\ chain \in Seq(Queueable) /\ life \in [Watched -> RunFacts]
  BY <1>1 DEF Overruns, Shaped
<1>3. /\ \A q \in Watched : q # r => life'[q] = life[q]
      /\ life'[r].lost = life[r].lost
      /\ Enters(r) \/ life'[r].visit = life[r].visit
      /\ Closes(r) \/ (life[r].st # "closed" /\ life'[r].st # "closed")
  <2>1. /\ Enters(r) => life' = [life EXCEPT ![r].visit = @ + 1] /\ life[r].st = "open"
        /\ Beats(r) => life' = life /\ life[r].st = "open"
        /\ Defers(r) => life' = [life EXCEPT ![r].owes = TRUE] /\ life[r].st = "open"
        /\ Merges(r) => life' = [life EXCEPT ![r].st = "merged"] /\ life[r].st = "open"
        /\ Closes(r) => life' = [life EXCEPT ![r].st = "closed"]
    BY DEF Enters, Beats, Defers, Merges, Closes, Outer
  <2>2. CASE Enters(r)
    BY <1>2, <2>1, <2>2, VisitIs
  <2>3. CASE Beats(r)
    BY <2>1, <2>3
  <2>4. CASE Defers(r)
    BY <1>2, <2>1, <2>4, OwesIs
  <2>5. CASE Merges(r)
    BY <1>2, <2>1, <2>5, StIs
  <2>6. CASE Closes(r)
    BY <1>2, <2>1, <2>6, StIs
  <2> QED
    BY <2>2, <2>3, <2>4, <2>5, <2>6
<1>4. /\ \A q \in Watched : life[q].lost => life'[q].lost
      /\ ~Enters(r) /\ ~Closes(r) => \A q \in Watched : \A s : Stands(life, q, s) => Stands(life', q, s)
      /\ \A q \in Watched, s \in Nat : Stands(life, q, s) => Stands(life', q, s) \/ q = r
  BY <1>3 DEF Stands
<1>5. ASSUME NEW event \in Events, Grows(event, r),
             Enters(r) \/ Closes(r) => event \in {"entered", "closed"},
             event = "beat" => life' = life /\ life[r].st = "open"
      PROVE  Timely(chain', life', told.overruns, TRUE)
  <2>1. /\ chain' \in Seq(Queueable) /\ Len(chain') = Len(chain) + 1
        /\ \A k \in 1..Len(chain) : chain'[k] = chain[k]
        /\ chain'[Len(chain) + 1] = Item(event, r)
    BY <1>5 DEF Grows
  <2>2. \A q \in Watched, s \in Nat : Stands(life, q, s) =>
           \/ Stands(life', q, s)
           \/ Item(event, r).run = q /\ Item(event, r).pc = "queued" /\ Ending(Item(event, r))
    BY <1>4, <1>5 DEF Item, Ending
  <2>3. QueuedBeat(Item(event, r)) => Stands(life', Item(event, r).run, Item(event, r).stage)
    BY <1>5 DEF QueuedBeat, Item, Stands
  <2> DEFINE z == chain'[Len(chain) + 1]
  <2> HIDE DEF Item
  <2>4. /\ \A q \in Watched, s \in Nat : Stands(life, q, s) =>
              Stands(life', q, s) \/ (z.run = q /\ z.pc = "queued" /\ Ending(z))
        /\ QueuedBeat(z) => Stands(life', z.run, z.stage)
    BY <2>1, <2>2, <2>3
  <2>5. chain \in Seq(Queueable) /\ chain' \in Seq(Queueable) /\ told.overruns \in Seq(Record)
    BY <1>2, <2>1
  <2>6. \A q \in Watched : life[q].lost => life'[q].lost
    BY <1>4
  <2> QED
    BY <1>2, <2>1, <2>4, <2>5, <2>6, TimelyBehindOneMore
<1>6. Timely(chain', life', told.overruns, TRUE)
  <2>1. CASE Enters(r)
    BY <1>1, <1>5, <2>1 DEF Events
  <2>2. CASE Closes(r)
    BY <1>1, <1>5, <2>2 DEF Events
  <2>3. CASE Beats(r)
    <3>1. life' = life /\ life[r].st = "open" /\ ~Closes(r) /\ ~Enters(r)
      BY <1>2, <1>3, <2>3 DEF Beats, Outer, Enters, Closes, Uses, RunFacts
    <3> QED
      BY <1>1, <1>5, <2>3, <3>1 DEF Events
  <2>4. CASE Merges(r) /\ ~Enters(r) /\ ~Closes(r)
    BY <1>1, <1>5, <2>4 DEF Events
  <2>5. CASE Defers(r) /\ ~Enters(r) /\ ~Closes(r)
    <3>1. chain' = chain
      BY <1>1, <2>5
    <3> QED
      BY <1>2, <1>4, <2>5, <3>1, TimelyOverTheSame
  <2> QED
    BY <2>1, <2>2, <2>3, <2>4, <2>5
<1> QED
  BY <1>1, <1>2, <1>6 DEF Overruns

(* The head of the queue is handled. *)
LEMMA BehindTheHead ==
  ASSUME NEW c \in Seq(Queueable), NEW f, NEW o \in Seq(Record), RecordsCurrent(c, f, o, 0),
         \A i \in DOMAIN o : o[i].open /\ c[1].run = o[i].run /\ c[1].pc = "queued" /\ Ending(c[1]) => f[o[i].run].lost
  PROVE  RecordsCurrent(c, f, o, 1)
<1>1. SUFFICES ASSUME NEW i \in DOMAIN o, o[i].open, EndsBehind(c, o[i].run, 0), ~f[o[i].run].lost
               PROVE  EndsBehind(c, o[i].run, 1)
  BY DEF RecordsCurrent, Current
<1>2. PICK j \in DOMAIN c : c[j].run = o[i].run /\ c[j].pc = "queued" /\ Ending(c[j])
  BY <1>1 DEF EndsBehind
<1>3. j # 1
  BY <1>1, <1>2
<1>4. j > 1
  BY <1>2, <1>3
<1> QED
  BY <1>2, <1>4 DEF EndsBehind

LEMMA SettleIs ==
  ASSUME told.overruns \in Seq(Record), NEW r
  PROVE  /\ SettleStageOverrun(r) \in Seq(Record)
         /\ DOMAIN SettleStageOverrun(r) = DOMAIN told.overruns
         /\ \A i \in DOMAIN told.overruns :
              /\ SettleStageOverrun(r)[i].run = told.overruns[i].run
              /\ SettleStageOverrun(r)[i].stage = told.overruns[i].stage
              /\ SettleStageOverrun(r)[i].open => told.overruns[i].open /\ told.overruns[i].run # r
<1> DEFINE o == told.overruns
           p == SettleStageOverrun(r)
<1>1. ASSUME NEW x \in Record, NEW b \in BOOLEAN
      PROVE  /\ [x EXCEPT !.open = @ /\ b] \in Record
             /\ [x EXCEPT !.open = @ /\ b].run = x.run /\ [x EXCEPT !.open = @ /\ b].stage = x.stage
             /\ [x EXCEPT !.open = @ /\ b].open = (x.open /\ b)
  BY DEF Record
<1>2. DOMAIN o = 1..Len(o) /\ Len(o) \in Nat /\ \A i \in DOMAIN o : o[i] \in Record
  BY SeqDomain
<1>3. p = [i \in DOMAIN o |-> [o[i] EXCEPT !.open = @ /\ o[i].run # r]]
  BY DEF SettleStageOverrun
<1> HIDE DEF p, o, Record
<1>4. ASSUME NEW i \in DOMAIN o
      PROVE  /\ p[i] \in Record /\ p[i].run = o[i].run /\ p[i].stage = o[i].stage
             /\ p[i].open = (o[i].open /\ o[i].run # r)
  <2>1. o[i] \in Record /\ (o[i].run # r) \in BOOLEAN
    BY <1>2
  <2>2. p[i] = [o[i] EXCEPT !.open = @ /\ o[i].run # r]
    BY <1>3
  <2> QED
    BY <1>1, <2>1, <2>2
<1>5. p \in [1..Len(o) -> Record] /\ DOMAIN p = DOMAIN o
  BY <1>2, <1>3, <1>4
<1>6. p \in Seq(Record)
  BY <1>2, <1>5
<1> QED
  BY <1>4, <1>5, <1>6 DEF p, o

LEMMA OverrunsTripwire ==
  ASSUME Shaped, Overruns, TripwireStep
  PROVE  Overruns'
<1>1. /\ chain # <<>> /\ (Handle(1) \/ RegistryFor(1) \/ Evaluate(1) \/ EvaluateMetric(1))
      /\ Shrinks \/ \E pc \in UnderWay : Marks(pc)
      /\ UNCHANGED <<host, life>>
  BY TripwireIs
<1>2. /\ told.overruns \in Seq(Record) /\ Timely(chain, life, told.overruns, Running)
      /\ chain \in Seq(Queueable) /\ 1 \in DOMAIN chain /\ ToldShape
  BY <1>1 DEF Overruns, Shaped
<1>3. /\ BeatsCurrent(chain, life) /\ RecordsCurrent(chain, life, told.overruns, 0)
      /\ Running \/ EndsAreLost(chain, life)
  BY <1>2 DEF Timely
<1>4. told'.overruns \in Seq(Record) /\ RecordsCurrent(chain, life, told'.overruns, 1)
  <2>1. CASE told'.overruns = told.overruns /\ ~(chain[1].pc = "queued" /\ Ending(chain[1]))
    BY <1>2, <1>3, <2>1, BehindTheHead
  <2>2. CASE told'.overruns = told.overruns /\ ~Running
    <3>1. chain[1].pc = "queued" /\ Ending(chain[1]) => life[chain[1].run].lost
      BY <1>2, <1>3, <2>2 DEF EndsAreLost
    <3> QED
      BY <1>2, <1>3, <2>2, <3>1, BehindTheHead
  <2>3. CASE RegistryFor(1) \/ Evaluate(1) \/ EvaluateMetric(1)
    <3>1. told' = told \/ \E x : told' = [told EXCEPT !.breaches = x]
      BY <2>3 DEF RegistryFor, Evaluate, EvaluateMetric
    <3>2. told'.overruns = told.overruns
      BY <1>2, <3>1, Tells
    <3>3. chain[1].pc # "queued"
      BY <2>3 DEF RegistryFor, Evaluate, EvaluateMetric
    <3> QED
      BY <2>1, <3>2, <3>3
  <2>4. CASE Handle(1) /\ IsStopped("tripwires")
    <3>1. ~Running
      BY <2>4 DEF Shaped, HostShape, IsStopped
    <3>2. told' = told
      BY <2>4 DEF Handle
    <3> QED
      BY <2>2, <3>1, <3>2
  <2>5. CASE Handle(1) /\ ~IsStopped("tripwires")
    <3>1. CheckStageDuration(chain[1])
      BY <2>5 DEF Handle
    <3>2. CASE Ending(chain[1])
      <4>1. told' = [told EXCEPT !.overruns = SettleStageOverrun(chain[1].run)]
        BY <3>1, <3>2 DEF CheckStageDuration, Ending
      <4>2. told'.overruns = SettleStageOverrun(chain[1].run)
        BY <1>2, <4>1, Tells
      <4>3. /\ told'.overruns \in Seq(Record) /\ DOMAIN told'.overruns = DOMAIN told.overruns
            /\ \A i \in DOMAIN told.overruns :
                 /\ told'.overruns[i].run = told.overruns[i].run
                 /\ told'.overruns[i].stage = told.overruns[i].stage
                 /\ told'.overruns[i].open => told.overruns[i].open /\ told.overruns[i].run # chain[1].run
        BY <1>2, <4>2, SettleIs
      <4>4. RecordsCurrent(chain, life, told'.overruns, 0)
        BY <1>3, <4>3 DEF RecordsCurrent
      <4>5. \A i \in DOMAIN told'.overruns : ~(told'.overruns[i].open /\ chain[1].run = told'.overruns[i].run)
        BY <4>3
      <4> QED
        BY <1>2, <4>3, <4>4, <4>5, BehindTheHead
    <3>3. CASE ~Ending(chain[1]) /\ told' = told
      BY <2>1, <3>3
    <3>4. CASE chain[1].event = "beat" /\ told' = [told EXCEPT !.overruns = Overrun(chain[1])]
      <4> DEFINE x == [run |-> chain[1].run, stage |-> chain[1].stage, open |-> TRUE]
      <4>1. told'.overruns = Append(told.overruns, x)
        BY <1>2, <3>4, Tells DEF Overrun
      <4>2. chain[1].run \in Watched /\ chain[1].stage \in Nat
        BY <1>2, QueuedAre
      <4>3. x \in Record
        BY <4>2 DEF Record
      <4>4. QueuedBeat(chain[1]) /\ ~Ending(chain[1])
        BY <2>5, <3>4 DEF Handle, QueuedBeat, Ending
      <4>5. Current(chain, life, chain[1].run, chain[1].stage, 1)
        BY <1>2, <1>3, <4>4 DEF BeatsCurrent
      <4>6. RecordsCurrent(chain, life, told.overruns, 1)
        BY <1>2, <1>3, <4>4, BehindTheHead
      <4>7. x.run = chain[1].run /\ x.stage = chain[1].stage
        OBVIOUS
      <4> HIDE DEF x
      <4>8. /\ told'.overruns \in Seq(Record)
            /\ DOMAIN told'.overruns = 1..Len(told.overruns) + 1
            /\ told'.overruns[Len(told.overruns) + 1] = x
            /\ \A k \in DOMAIN told.overruns : told'.overruns[k] = told.overruns[k]
        BY <1>2, <4>1, <4>3, AppendAdds
      <4>9. DOMAIN told.overruns = 1..Len(told.overruns) /\ Len(told.overruns) \in Nat
        BY <1>2
      <4>10. \A k \in DOMAIN told'.overruns : k \in DOMAIN told.overruns \/ k = Len(told.overruns) + 1
        BY <4>8, <4>9
      <4> QED
        BY <4>5, <4>6, <4>7, <4>8, <4>10 DEF RecordsCurrent
    <3> QED
      BY <2>5, <3>1, <3>2, <3>3, <3>4 DEF CheckStageDuration, Ending
  <2> QED
    BY <1>1, <2>3, <2>4, <2>5
<1>5. Timely(chain', life, told'.overruns, Running)
  <2>1. CASE Shrinks
    BY <1>2, <1>3, <1>4, <2>1, TimelyWithoutTheHead DEF Shrinks
  <2>2. CASE \E pc \in UnderWay : Marks(pc)
    <3>1. chain'[1].pc # "queued"
      BY <2>2 DEF Marks, UnderWay
    <3> QED
      BY <1>2, <1>3, <1>4, <2>2, <3>1, TimelyBehindTheHead DEF Marks
  <2> QED
    BY <1>1, <2>1, <2>2
<1>6. life' = life /\ Running' = Running
  BY <1>1 DEF Running
<1> QED
  BY <1>4, <1>5, <1>6 DEF Overruns

LEMMA OverrunsResolve ==
  ASSUME Shaped, Overruns, ResolvesAnOverrun, UNCHANGED <<host, life, chain>>
  PROVE  Overruns'
<1>1. PICK r \in Watched : \E i \in Standing(r) :
        told' = [told EXCEPT !.overruns = [told.overruns EXCEPT ![i] = [told.overruns[i] EXCEPT !.open = FALSE]]]
  BY DEF ResolvesAnOverrun
<1>2. PICK i \in DOMAIN told.overruns :
        told' = [told EXCEPT !.overruns = [told.overruns EXCEPT ![i] = [told.overruns[i] EXCEPT !.open = FALSE]]]
  BY <1>1 DEF Standing
<1>3. told.overruns \in Seq(Record) /\ Timely(chain, life, told.overruns, Running)
  BY DEF Overruns
<1> DEFINE x == [told.overruns[i] EXCEPT !.open = FALSE]
<1>4. told'.overruns = [told.overruns EXCEPT ![i] = x]
  BY <1>2, Tells DEF Shaped
<1>5. x \in Record /\ x.open = FALSE
  <2>1. told.overruns[i] \in Record
    BY <1>3, RecordsAre
  <2> QED
    BY <2>1 DEF Record
<1> HIDE DEF x
<1>6. told'.overruns \in Seq(Record) /\ DOMAIN told'.overruns = DOMAIN told.overruns
  <2>1. i \in 1..Len(told.overruns)
    BY <1>3
  <2> QED
    BY <1>3, <1>4, <1>5, <2>1, ExceptSeq
<1>7. \A k \in DOMAIN told.overruns : told'.overruns[k] = told.overruns[k] \/ told'.overruns[k].open = FALSE
  BY <1>4, <1>5
<1>8. Timely(chain, life, told'.overruns, Running)
  BY <1>3, <1>6, <1>7 DEF Timely, RecordsCurrent
<1>9. Running' = Running /\ chain' = chain /\ life' = life
  BY DEF Running
<1> QED
  BY <1>6, <1>8, <1>9 DEF Overruns

LEMMA OverrunsLost ==
  ASSUME Shaped, Overruns, Lost, told' = told, chain' = chain \/ chain' = <<>>
  PROVE  Overruns'
<1>1. /\ told.overruns \in Seq(Record) /\ Timely(chain, life, told.overruns, Running)
      /\ chain \in Seq(Queueable) /\ life \in [Watched -> RunFacts]
  BY DEF Overruns, Shaped
<1>2. \A r \in Watched :
        /\ life'[r].st = life[r].st /\ life'[r].visit = life[r].visit
        /\ life[r].lost => life'[r].lost
        /\ (\E k \in DOMAIN chain : chain[k].run = r /\ chain[k].pc = "queued" /\ Ending(chain[k])) => life'[r].lost
  BY <1>1, LostIs
<1>3. \A q \in Watched : /\ life[q].lost => life'[q].lost
                         /\ \A s : Stands(life, q, s) => Stands(life', q, s)
                         /\ EndsBehind(chain, q, 0) => life'[q].lost
  BY <1>2 DEF Stands, EndsBehind
<1>4. CASE chain' = chain
  <2>1. EndsAreLost(chain, life')
    <3>1. \A k \in DOMAIN chain : chain[k].run \in Watched
      BY <1>1, QueuedAre
    <3> QED
      BY <1>2, <3>1 DEF EndsAreLost
  <2>2. Timely(chain, life', told.overruns, FALSE)
    BY <1>1, <1>3, <2>1, TimelyOverTheSame
  <2>3. \A up : Timely(chain, life', told.overruns, FALSE) => Timely(chain, life', told.overruns, up)
    BY DEF Timely
  <2> QED
    BY <1>1, <1>4, <2>2, <2>3 DEF Overruns
<1>5. CASE chain' = <<>>
  <2>1. \A up : Timely(<<>>, life', told.overruns, up)
    BY <1>1, <1>3, TimelyWithoutAQueue
  <2> QED
    BY <1>1, <1>5, <2>1 DEF Overruns
<1> QED
  BY <1>4, <1>5

LEMMA OverrunsStep ==
  ASSUME Shaped, Overruns, [ObsNext]_obsVars
  PROVE  Overruns'
<1>1. ASSUME chain' = chain, life' = life, Running => Running', told'.overruns = told.overruns
      PROVE  Overruns'
  <2>1. Timely(chain, life, told.overruns, Running) => Timely(chain, life, told.overruns, Running')
    BY <1>1 DEF Timely
  <2> QED
    BY <1>1, <2>1 DEF Overruns
<1>2. Quiet => life' = life /\ host' = host /\ (Running => Running')
  BY DEF Quiet, Running
<1>3. CASE RunStep
  BY <1>3, OverrunsRun DEF RunStep
<1>4. CASE TripwireStep
  BY <1>4, OverrunsTripwire
<1>5. CASE QueuePoll
  BY <1>1, <1>2, <1>5, PollShaped
<1>6. CASE DebtStep
  BY <1>1, <1>2, <1>6, DebtShaped
<1>7. CASE FlowStep
  BY <1>1, <1>2, <1>7, FlowShaped
<1>8. CASE EvalStep
  BY <1>1, <1>2, <1>8, EvalShaped
<1>9. CASE WorkflowRuns \/ ServiceReturns
  <2>1. UNCHANGED <<host, life, told, chain>>
    BY <1>9, WorldShaped
  <2> QED
    BY <1>1, <2>1 DEF Running
<1>10. CASE OperatorResolves
  <2>1. /\ Quiet /\ chain' = chain
        /\ ResolvesAnOverrun \/ told'.overruns = told.overruns
    BY <1>10, ResolveShaped
  <2> QED
    BY <1>1, <1>2, <2>1, OverrunsResolve
<1>11. CASE StartHost
  <2>1. chain' = <<>> /\ life' = life /\ told' = told /\ host.up = "down"
    BY <1>11, StartShaped DEF Reset
  <2>2. /\ told.overruns \in Seq(Record) /\ Timely(chain, life, told.overruns, Running) /\ ~Running
        /\ chain \in Seq(Queueable)
    BY <2>1 DEF Overruns, Running, Shaped
  <2>3. \A q \in Watched : EndsBehind(chain, q, 0) => life[q].lost
    BY <2>2 DEF Timely, EndsAreLost, EndsBehind
  <2>4. \A up : Timely(<<>>, life, told.overruns, up)
    BY <2>2, <2>3, TimelyWithoutAQueue
  <2> QED
    BY <2>1, <2>2, <2>4 DEF Overruns
<1>12. CASE HostCrashes
  BY <1>12, CrashShaped, OverrunsLost DEF Reset
<1>13. CASE HostStops
  BY <1>13, StopShaped, OverrunsLost
<1>14. CASE ObserverStops
  <2>1. UNCHANGED <<life, told, chain>> /\ host.up = "stopping"
    BY <1>14, ObserverShaped
  <2> QED
    BY <1>1, <2>1 DEF Running
<1>15. CASE UNCHANGED obsVars
  BY <1>1, <1>15 DEF obsVars, Running
<1> QED
  BY <1>3, <1>4, <1>5, <1>6, <1>7, <1>8, <1>9, <1>10, <1>11, <1>12, <1>13, <1>14, <1>15 DEF ObsNext, HostStep

---------------------------------------------------------------------------
(* The news of the workflow, of the entries e, the forge's builds b, and where    *)
(* the watcher is: the newest entry bounds every red on record, as the red it is  *)
(* or by the green build it recovered at.                                       *)
News == [event : {"red", "recovered", "resolved"}, build : Nat, open : BOOLEAN]
Words == {"red", "green"}
RedsBefore(e, n) == \A i \in DOMAIN e : e[i].event = "red" => e[i].build < n
RedsAreRed(e, b) == \A i \in DOMAIN e : e[i].event = "red" => e[i].build \in DOMAIN b /\ b[e[i].build] = "red"
RedsOnce(e) == \A i, j \in DOMAIN e : e[i].event = "red" /\ e[j].event = "red" /\ e[i].build = e[j].build => i = j
EndsRed(e) == e # <<>> /\ e[Len(e)].event = "red"
NewestRed(e) == EndsRed(e) => \A i \in DOMAIN e : e[i].event = "red" => e[i].build <= e[Len(e)].build
Recovered(e, b) == \E m \in DOMAIN b : b[m] = "green" /\ RedsBefore(e, m)
Informed(e, b) == /\ RedsAreRed(e, b) /\ RedsOnce(e) /\ NewestRed(e)
                  /\ e # <<>> /\ ~EndsRed(e) => Recovered(e, b)
Reading(e, b, pc, n) == /\ pc = "jobs" => n \in DOMAIN b /\ b[n] = "red" /\ RedsBefore(e, n)
                        /\ pc = "own" => e # <<>> /\ ~EndsRed(e)

Workflows == /\ told.flow \in Seq(News) /\ outside.builds \in Seq(Words)
             /\ Informed(told.flow, outside.builds)
             /\ Reading(told.flow, outside.builds, flow.pc, flow.build)

LEMMA BuildsGrow ==
  ASSUME NEW e, NEW b \in Seq(Words), NEW w \in Words, NEW pc, NEW n, Informed(e, b), Reading(e, b, pc, n)
  PROVE  Informed(e, Append(b, w)) /\ Reading(e, Append(b, w), pc, n)
<1> DEFINE c == Append(b, w)
<1>1. \A k \in DOMAIN b : k \in DOMAIN c /\ c[k] = b[k]
  OBVIOUS
<1> HIDE DEF c
<1>2. Informed(e, c)
  BY <1>1 DEF Informed, RedsAreRed, Recovered
<1>3. Reading(e, c, pc, n)
  BY <1>1 DEF Reading
<1> QED
  BY <1>2, <1>3 DEF c

LEMMA EntryIs ==
  ASSUME NEW event \in {"red", "recovered", "resolved"}, NEW n \in Nat
  PROVE  Entry(event, n) \in News /\ Entry(event, n).event = event /\ Entry(event, n).build = n
BY DEF Entry, News

LEMMA NewsIs ==
  ASSUME NEW e \in Seq(News)
  PROVE  /\ DOMAIN e = 1..Len(e) /\ Len(e) \in Nat
         /\ \A i \in DOMAIN e : e[i] \in News /\ e[i].build \in Nat
<1>1. DOMAIN e = 1..Len(e) /\ Len(e) \in Nat /\ \A i \in DOMAIN e : e[i] \in News
  BY SeqDomain
<1> QED
  BY <1>1 DEF News

LEMMA OneMoreEntry ==
  ASSUME NEW e \in Seq(News), NEW x \in News
  PROVE  /\ Append(e, x) \in Seq(News) /\ Append(e, x) # <<>>
         /\ Append(e, x)[Len(Append(e, x))] = x
         /\ \A i \in DOMAIN Append(e, x) : \/ i \in DOMAIN e /\ Append(e, x)[i] = e[i]
                                           \/ i = Len(Append(e, x)) /\ i \notin DOMAIN e /\ Append(e, x)[i] = x
<1> DEFINE d == Append(e, x)
<1>1. d \in Seq(News) /\ Len(d) = Len(e) + 1 /\ DOMAIN d = 1..Len(e) + 1 /\ d[Len(e) + 1] = x
      /\ \A k \in DOMAIN e : d[k] = e[k]
  BY AppendAdds
<1>2. DOMAIN e = 1..Len(e) /\ Len(e) \in Nat
  BY SeqDomain
<1> HIDE DEF d
<1>3. \A i \in DOMAIN d : \/ i \in DOMAIN e /\ d[i] = e[i]
                          \/ i = Len(d) /\ i \notin DOMAIN e /\ d[i] = x
  BY <1>1, <1>2
<1>4. d # <<>> /\ d[Len(d)] = x
  BY <1>1, <1>2
<1> QED
  BY <1>1, <1>3, <1>4 DEF d

LEMMA ARedIsNews ==
  ASSUME NEW e \in Seq(News), NEW b \in Seq(Words), NEW n \in DOMAIN b,
         Informed(e, b), b[n] = "red", RedsBefore(e, n)
  PROVE  /\ Append(e, Entry("red", n)) \in Seq(News)
         /\ Informed(Append(e, Entry("red", n)), b)
<1> DEFINE x == Entry("red", n)
           d == Append(e, x)
<1>1. n \in Nat /\ x \in News /\ x.event = "red" /\ x.build = n
  BY SeqDomain, EntryIs
<1> HIDE DEF x
<1>2. /\ d \in Seq(News) /\ d # <<>> /\ d[Len(d)] = x
      /\ \A i \in DOMAIN d : \/ i \in DOMAIN e /\ d[i] = e[i]
                             \/ i = Len(d) /\ i \notin DOMAIN e /\ d[i] = x
  BY <1>1, OneMoreEntry
<1> HIDE DEF d
<1>3. \A i \in DOMAIN e : e[i].event = "red" => e[i].build < n /\ e[i].build \in Nat
  BY NewsIs DEF RedsBefore
<1>4. RedsAreRed(d, b)
  BY <1>1, <1>2 DEF Informed, RedsAreRed
<1>5. RedsOnce(d)
  <2>1. SUFFICES ASSUME NEW i \in DOMAIN d, NEW j \in DOMAIN d,
                        d[i].event = "red", d[j].event = "red", d[i].build = d[j].build
                 PROVE  i = j
    BY DEF RedsOnce
  <2>2. CASE i \in DOMAIN e /\ j \in DOMAIN e
    BY <1>2, <2>1, <2>2 DEF Informed, RedsOnce
  <2>3. ASSUME NEW k \in DOMAIN e, d[k].event = "red", d[k].build = n
        PROVE  FALSE
    BY <1>1, <1>2, <1>3, <2>3
  <2> QED
    BY <1>1, <1>2, <2>1, <2>2, <2>3
<1>6. NewestRed(d) /\ EndsRed(d)
  <2>1. \A i \in DOMAIN d : d[i].event = "red" => d[i].build <= n
    BY <1>1, <1>2, <1>3
  <2> QED
    BY <1>1, <1>2, <2>1 DEF NewestRed, EndsRed
<1>7. Informed(d, b)
  BY <1>4, <1>5, <1>6 DEF Informed
<1> QED
  BY <1>2, <1>7 DEF d, x

(* An entry that is no red, behind a build that is green. *)
LEMMA ARecoveryIsNews ==
  ASSUME NEW e \in Seq(News), NEW b, NEW x \in News, x.event # "red", Informed(e, b), Recovered(e, b)
  PROVE  /\ Append(e, x) \in Seq(News) /\ Append(e, x) # <<>> /\ ~EndsRed(Append(e, x))
         /\ Informed(Append(e, x), b)
<1> DEFINE d == Append(e, x)
<1>1. /\ d \in Seq(News) /\ d # <<>> /\ d[Len(d)] = x
      /\ \A i \in DOMAIN d : \/ i \in DOMAIN e /\ d[i] = e[i]
                             \/ i = Len(d) /\ i \notin DOMAIN e /\ d[i] = x
  BY OneMoreEntry
<1> HIDE DEF d
<1>2. \A i \in DOMAIN d : d[i].event = "red" => i \in DOMAIN e /\ d[i] = e[i]
  BY <1>1
<1>3. RedsAreRed(d, b) /\ RedsOnce(d)
  BY <1>2 DEF Informed, RedsAreRed, RedsOnce
<1>4. ~EndsRed(d) /\ NewestRed(d)
  BY <1>1 DEF EndsRed, NewestRed
<1>5. Recovered(d, b)
  BY <1>2 DEF Recovered, RedsBefore
<1>6. Informed(d, b)
  BY <1>3, <1>4, <1>5 DEF Informed
<1> QED
  BY <1>1, <1>4, <1>6 DEF d

(* What is open does not matter. *)
LEMMA OpenIsNoNews ==
  ASSUME NEW e \in Seq(News), NEW d \in Seq(News), DOMAIN d = DOMAIN e,
         \A i \in DOMAIN e : d[i].event = e[i].event /\ d[i].build = e[i].build,
         NEW b, NEW pc, NEW n
  PROVE  /\ Informed(e, b) => Informed(d, b)
         /\ Reading(e, b, pc, n) => Reading(d, b, pc, n)
         /\ Recovered(e, b) => Recovered(d, b)
<1>1. Len(d) = Len(e) /\ (d = <<>> <=> e = <<>>) /\ (e # <<>> => Len(e) \in DOMAIN e)
  BY NewsIs
<1>2. EndsRed(d) <=> EndsRed(e)
  BY <1>1 DEF EndsRed
<1>3. \A k : RedsBefore(e, k) => RedsBefore(d, k)
  BY DEF RedsBefore
<1>4. Recovered(e, b) => Recovered(d, b)
  BY <1>3 DEF Recovered
<1>5. Informed(e, b) => RedsAreRed(d, b) /\ RedsOnce(d)
  BY DEF Informed, RedsAreRed, RedsOnce
<1>6. Informed(e, b) => NewestRed(d)
  BY <1>1, <1>2 DEF Informed, NewestRed, EndsRed
<1> QED
  BY <1>1, <1>2, <1>3, <1>4, <1>5, <1>6 DEF Informed, Reading

(* A latest build that is red and is not the newest entry is behind every red on  *)
(* record, and so is a green one.                                               *)
LEMMA LatestIsNew ==
  ASSUME NEW e \in Seq(News), NEW b \in Seq(Words), Informed(e, b), b # <<>>,
         b[Len(b)] = "red" => ~(EndsRed(e) /\ e[Len(e)].build = Len(b))
  PROVE  Len(b) \in DOMAIN b /\ RedsBefore(e, Len(b))
<1>1. Len(b) \in Nat /\ DOMAIN b = 1..Len(b) /\ Len(b) \in DOMAIN b /\ b[Len(b)] \in Words
  OBVIOUS
<1>2. \A i \in DOMAIN e : e[i].event = "red" => e[i].build \in DOMAIN b /\ b[e[i].build] = "red"
  BY DEF Informed, RedsAreRed
<1>3. CASE b[Len(b)] = "green"
  <2>1. \A k \in DOMAIN b : b[k] = "red" => k < Len(b)
    BY <1>1, <1>3
  <2> QED
    BY <1>1, <1>2, <2>1 DEF RedsBefore
<1>4. CASE b[Len(b)] = "red" /\ EndsRed(e)
  <2>1. Len(e) \in DOMAIN e
    BY <1>4, NewsIs DEF EndsRed
  <2>2. PICK m \in DOMAIN b : m = e[Len(e)].build
    BY <1>2, <1>4, <2>1 DEF EndsRed
  <2>3. m < Len(b)
    BY <1>1, <1>4, <2>2
  <2>4. \A i \in DOMAIN e : e[i].event = "red" => e[i].build <= m
    BY <1>4, <2>2 DEF Informed, NewestRed
  <2>5. \A k \in DOMAIN b : k <= m => k < Len(b)
    BY <1>1, <2>3
  <2> QED
    BY <1>1, <1>2, <2>4, <2>5 DEF RedsBefore
<1>5. CASE b[Len(b)] = "red" /\ ~EndsRed(e) /\ e # <<>>
  <2>1. PICK m \in DOMAIN b : b[m] = "green" /\ RedsBefore(e, m)
    BY <1>5 DEF Informed, Recovered
  <2>2. \A k \in DOMAIN b : k < m => k < Len(b)
    BY <1>1
  <2> QED
    BY <1>1, <1>2, <2>1, <2>2 DEF RedsBefore
<1>6. CASE e = <<>>
  BY <1>1, <1>6 DEF RedsBefore
<1> QED
  BY <1>1, <1>3, <1>4, <1>5, <1>6 DEF Words

LEMMA FlowToIs ==
  ASSUME FlowShape, NEW pc, FlowTo(pc)
  PROVE  flow'.pc = pc /\ (pc = "jobs" => flow'.build = Latest)
<1>1. flow' = [flow EXCEPT !.pc = pc, !.build = IF pc = "jobs" THEN Latest ELSE 0]
  BY DEF FlowTo
<1> QED
  BY <1>1 DEF FlowShape

LEMMA ClosedNews ==
  ASSUME NEW e \in Seq(News)
  PROVE  LET d == [i \in DOMAIN e |-> [e[i] EXCEPT !.open = FALSE]]
         IN /\ d \in Seq(News) /\ DOMAIN d = DOMAIN e
            /\ \A i \in DOMAIN e : d[i].event = e[i].event /\ d[i].build = e[i].build
<1> DEFINE d == [i \in DOMAIN e |-> [e[i] EXCEPT !.open = FALSE]]
<1>1. ASSUME NEW x \in News
      PROVE  /\ [x EXCEPT !.open = FALSE] \in News
             /\ [x EXCEPT !.open = FALSE].event = x.event /\ [x EXCEPT !.open = FALSE].build = x.build
  BY DEF News
<1>2. DOMAIN e = 1..Len(e) /\ Len(e) \in Nat /\ \A i \in DOMAIN e : e[i] \in News
  BY SeqDomain
<1> HIDE DEF News
<1>3. \A i \in DOMAIN e : d[i] \in News /\ d[i].event = e[i].event /\ d[i].build = e[i].build
  BY <1>1, <1>2
<1>4. d \in [1..Len(e) -> News] /\ DOMAIN d = DOMAIN e
  BY <1>2, <1>3
<1>5. d \in Seq(News)
  BY <1>2, <1>4
<1> QED
  BY <1>3, <1>4, <1>5

LEMMA WorkflowsFlow ==
  ASSUME Shaped, Workflows, FlowStep
  PROVE  Workflows'
<1> DEFINE e == told.flow
           b == outside.builds
<1>1. /\ e \in Seq(News) /\ b \in Seq(Words) /\ Informed(e, b) /\ Reading(e, b, flow.pc, flow.build)
      /\ outside' = outside /\ ToldShape /\ FlowShape
  BY FlowShaped DEF Workflows, Quiet, Shaped
<1>2. PollFlow \/ Judge \/ RedJobs \/ SettleOwnedLoud
  BY DEF FlowStep
<1>3. \A x : told' = [told EXCEPT !.flow = x] => told'.flow = x
  BY <1>1, Tells
<1>4. ASSUME told' = told, flow'.pc \in {"idle", "read"}
      PROVE  Workflows'
  BY <1>1, <1>4 DEF Workflows, Reading
<1>5. CASE PollFlow
  <2>1. PICK pc \in {"idle", "read"} : flow' = [flow EXCEPT !.pc = pc, !.polls = @ - 1] /\ told' = told
    BY <1>5 DEF PollFlow
  <2>2. flow'.pc = pc
    BY <1>1, <2>1 DEF FlowShape
  <2> QED
    BY <1>4, <2>1, <2>2
<1>6. CASE Judge
  <2>1. \/ FlowTo("idle") /\ told' = told
        \/ /\ Latest > 0 /\ b[Latest] = "red" /\ ~AlreadyTold
           /\ FlowTo("jobs") /\ told' = told
        \/ /\ Latest # 0 /\ b[Latest] # "red"
           /\ FlowTo("own") /\ told' = [told EXCEPT !.flow = Append(e, Entry("recovered", Latest))]
    <3>1. Latest \in Nat
      BY <1>1 DEF Latest
    <3> QED
      BY <1>6, <3>1 DEF Judge
  <2>2. CASE FlowTo("idle") /\ told' = told
    BY <1>1, <1>4, <2>2, FlowToIs
  <2>3. CASE Latest > 0 /\ b[Latest] = "red" /\ ~AlreadyTold /\ FlowTo("jobs") /\ told' = told
    <3>1. flow'.pc = "jobs" /\ flow'.build = Len(b)
      BY <1>1, <2>3, FlowToIs DEF Latest
    <3>2. b # <<>> /\ ~(EndsRed(e) /\ e[Len(e)].build = Len(b))
      BY <1>1, <2>3 DEF Latest, AlreadyTold, EndsRed, Last
    <3>3. Len(b) \in DOMAIN b /\ RedsBefore(e, Len(b))
      BY <1>1, <3>2, LatestIsNew
    <3>4. Reading(e, b, "jobs", Len(b))
      BY <2>3, <3>3 DEF Reading, Latest
    <3> QED
      BY <1>1, <2>3, <3>1, <3>4 DEF Workflows
  <2>4. CASE Latest # 0 /\ b[Latest] # "red" /\ FlowTo("own") /\ told' = [told EXCEPT !.flow = Append(e, Entry("recovered", Latest))]
    <3>1. flow'.pc = "own"
      BY <1>1, <2>4, FlowToIs
    <3>2. b # <<>> /\ b[Len(b)] = "green" /\ Len(b) \in Nat
      BY <1>1, <2>4 DEF Latest, Words
    <3>3. Recovered(e, b)
      BY <1>1, <3>2, LatestIsNew DEF Recovered
    <3>4. Entry("recovered", Len(b)) \in News /\ Entry("recovered", Len(b)).event # "red"
      BY <3>2, EntryIs
    <3>5. told'.flow = Append(e, Entry("recovered", Len(b)))
      BY <1>3, <2>4 DEF Latest
    <3>6. /\ told'.flow \in Seq(News) /\ told'.flow # <<>> /\ ~EndsRed(told'.flow)
          /\ Informed(told'.flow, b)
      BY <1>1, <3>3, <3>4, <3>5, ARecoveryIsNews
    <3>7. Reading(told'.flow, b, "own", flow'.build)
      BY <3>6 DEF Reading
    <3> QED
      BY <1>1, <3>1, <3>6, <3>7 DEF Workflows
  <2> QED
    BY <2>1, <2>2, <2>3, <2>4
<1>7. CASE RedJobs
  <2>1. flow.pc = "jobs" /\ FlowTo("idle") /\ told' = [told EXCEPT !.flow = Append(e, Entry("red", flow.build))]
    BY <1>7 DEF RedJobs
  <2>2. flow.build \in DOMAIN b /\ b[flow.build] = "red" /\ RedsBefore(e, flow.build)
    BY <1>1, <2>1 DEF Reading
  <2>3. told'.flow = Append(e, Entry("red", flow.build))
    BY <1>3, <2>1
  <2>4. told'.flow \in Seq(News) /\ Informed(told'.flow, b)
    BY <1>1, <2>2, <2>3, ARedIsNews
  <2>5. flow'.pc = "idle"
    BY <1>1, <2>1, FlowToIs
  <2> QED
    BY <1>1, <2>4, <2>5 DEF Workflows, Reading
<1>8. CASE SettleOwnedLoud
  <2> DEFINE d == [i \in DOMAIN e |-> [e[i] EXCEPT !.open = FALSE]]
  <2>1. flow.pc = "own" /\ FlowTo("idle") /\ told' = [told EXCEPT !.flow = Append(d, Entry("resolved", 0))]
    BY <1>8 DEF SettleOwnedLoud
  <2>2. /\ d \in Seq(News) /\ DOMAIN d = DOMAIN e
        /\ \A i \in DOMAIN e : d[i].event = e[i].event /\ d[i].build = e[i].build
    BY <1>1, ClosedNews
  <2>3. told'.flow = Append(d, Entry("resolved", 0))
    BY <1>3, <2>1
  <2> HIDE DEF d
  <2>4. Recovered(e, b)
    BY <1>1, <2>1 DEF Reading, Informed
  <2>5. Informed(d, b) /\ Recovered(d, b)
    BY <1>1, <2>2, <2>4, OpenIsNoNews
  <2>6. Entry("resolved", 0) \in News /\ Entry("resolved", 0).event # "red"
    BY EntryIs
  <2>7. told'.flow \in Seq(News) /\ Informed(told'.flow, b)
    BY <2>2, <2>3, <2>5, <2>6, ARecoveryIsNews
  <2>8. flow'.pc = "idle"
    BY <1>1, <2>1, FlowToIs
  <2> QED
    BY <1>1, <2>7, <2>8 DEF Workflows, Reading
<1> QED
  BY <1>2, <1>5, <1>6, <1>7, <1>8

LEMMA WorkflowsResolve ==
  ASSUME Shaped, Workflows, ResolvesARed, UNCHANGED <<outside, flow>>
  PROVE  Workflows'
<1> DEFINE e == told.flow
<1>1. PICK i \in DOMAIN e : told' = [told EXCEPT !.flow = [e EXCEPT ![i] = [e[i] EXCEPT !.open = FALSE]]]
  BY DEF ResolvesARed, OpenReds
<1> DEFINE x == [e[i] EXCEPT !.open = FALSE]
           d == [e EXCEPT ![i] = x]
<1>2. told'.flow = d
  BY <1>1, Tells DEF Shaped
<1>3. e \in Seq(News) /\ Workflows
  BY DEF Workflows
<1>4. x \in News /\ x.event = e[i].event /\ x.build = e[i].build
  <2>1. e[i] \in News
    BY <1>3, NewsIs
  <2> QED
    BY <2>1 DEF News
<1> HIDE DEF x
<1>5. d \in Seq(News) /\ DOMAIN d = DOMAIN e
  <2>1. i \in 1..Len(e)
    BY <1>3, NewsIs
  <2> QED
    BY <1>3, <1>4, <2>1, ExceptSeq
<1>6. \A k \in DOMAIN e : d[k].event = e[k].event /\ d[k].build = e[k].build
  BY <1>4
<1> HIDE DEF d
<1>7. Informed(d, outside.builds) /\ Reading(d, outside.builds, flow.pc, flow.build)
  BY <1>3, <1>5, <1>6, OpenIsNoNews DEF Workflows
<1> QED
  BY <1>2, <1>3, <1>5, <1>7 DEF Workflows

LEMMA WorkflowsStep ==
  ASSUME Shaped, Workflows, [ObsNext]_obsVars
  PROVE  Workflows'
<1>1. ASSUME told'.flow = told.flow, outside' = outside, flow'.pc = flow.pc, flow'.build = flow.build
      PROVE  Workflows'
  BY <1>1 DEF Workflows
<1>2. ASSUME told' = told, outside' = outside, flow'.pc = "idle"
      PROVE  Workflows'
  BY <1>2 DEF Workflows, Reading
<1>3. CASE RunStep
  <2>1. UNCHANGED <<told, outside, flow>>
    BY <1>3, RunStepIs DEF RunStep
  <2> QED
    BY <1>1, <2>1
<1>4. CASE TripwireStep
  BY <1>1, <1>4, TripwireShaped DEF Quiet
<1>5. CASE QueuePoll
  BY <1>1, <1>5, PollShaped DEF Quiet, SameFlow
<1>6. CASE DebtStep
  BY <1>1, <1>6, DebtShaped DEF Quiet
<1>7. CASE FlowStep
  BY <1>7, WorkflowsFlow
<1>8. CASE EvalStep
  BY <1>1, <1>8, EvalShaped DEF Quiet
<1>9. CASE WorkflowRuns
  <2>1. UNCHANGED <<told, flow>> /\ \E word \in Words : outside'.builds = Append(outside.builds, word)
    BY <1>9, WorldShaped DEF Words
  <2>2. PICK word \in Words : outside'.builds = Append(outside.builds, word)
    BY <2>1
  <2>3. Append(outside.builds, word) \in Seq(Words)
    BY DEF Workflows
  <2> QED
    BY <2>1, <2>2, <2>3, BuildsGrow DEF Workflows
<1>10. CASE ServiceReturns
  <2>1. UNCHANGED <<told, flow>> /\ outside'.builds = outside.builds
    BY <1>10, WorldShaped
  <2> QED
    BY <2>1 DEF Workflows
<1>11. CASE OperatorResolves
  <2>1. /\ Quiet /\ flow' = flow
        /\ ResolvesARed \/ told'.flow = told.flow
    BY <1>11, ResolveShaped
  <2> QED
    BY <1>1, <2>1, WorkflowsResolve DEF Quiet
<1>12. CASE StartHost
  BY <1>2, <1>12, StartShaped DEF Reset
<1>13. CASE HostCrashes
  BY <1>2, <1>13, CrashShaped DEF Reset
<1>14. CASE HostStops
  BY <1>1, <1>14, StopShaped
<1>15. CASE ObserverStops
  BY <1>1, <1>15, ObserverShaped
<1>16. CASE UNCHANGED obsVars
  BY <1>1, <1>16 DEF obsVars
<1> QED
  BY <1>3, <1>4, <1>5, <1>6, <1>7, <1>8, <1>9, <1>10, <1>11, <1>12, <1>13, <1>14, <1>15, <1>16 DEF ObsNext, HostStep

---------------------------------------------------------------------------
(* The deferred proofs: what is on the watcher's list is unsettled and is there     *)
(* once, a red proof is in the escapes before it is stamped, and a run has one     *)
(* escape more than halts only if it is settled or its stamp is what comes next.   *)
Settlements == [run : Watched, red : BOOLEAN, shipped : BOOLEAN]
SettledIn(s) == {s[i].run : i \in DOMAIN s}
Tally(e, r) == Cardinality({i \in DOMAIN e : e[i] = r})
Listed(l, s) == /\ l \in Seq(Watched) /\ l # <<>>
                /\ \A i, j \in DOMAIN l : l[i] = l[j] => i = j
                /\ \A i \in DOMAIN l : l[i] \notin SettledIn(s)
Escaped(l, pc, red) == IF pc = "stamp" /\ red THEN {Head(l)} ELSE {}
Working(l, pc, red, s, e) ==
  /\ pc \in {"idle", "probe", "settle", "escape", "stamp"}
  /\ pc # "idle" => Listed(l, s)
  /\ pc = "escape" => red
  /\ Escaped(l, pc, red) \subseteq Range(e)
Stamped(s, e) == \A i \in DOMAIN s : s[i].red => s[i].run \in Range(e)
Tallied(e, marked, h) == \A r \in Watched : Tally(e, r) <= h + 1 /\ (r \notin marked => Tally(e, r) <= h)
Resting == host.up = "down" \/ host.stopped > 3 => debt.pc = "idle" /\ debt.polls = 0

Proofs(l, pc, red, s, e, h) == /\ s \in Seq(Settlements) /\ e \in Seq(Watched) /\ red \in BOOLEAN
                               /\ Working(l, pc, red, s, e) /\ Stamped(s, e)
                               /\ Tallied(e, SettledIn(s) \cup Escaped(l, pc, red), h)
Debts == /\ Proofs(debt.list, debt.pc, debt.red, told.settled, told.escapes, used.halts)
         /\ Resting

LEMMA AllOnce ==
  ASSUME NEW S \in SUBSET Watched, S # {}
  PROVE  LET l == SetToSeq(S)
         IN /\ l \in Seq(Watched) /\ l # <<>> /\ \A i, j \in DOMAIN l : l[i] = l[j] => i = j
            /\ \A i \in DOMAIN l : l[i] \in S
<1> DEFINE l == SetToSeq(S)
<1>1. IsFiniteSet(S)
  BY FS_Subset, FiniteWatched
<1>2. Cardinality(S) \in Nat /\ Cardinality(S) # 0
  BY <1>1, FS_CardinalityType, FS_EmptySet
<1>3. \E f \in [1..Cardinality(S) -> S] : IsInjective(f)
  BY <1>1, FS_CardinalityType DEF ExistsBijection, Bijection, Injection, IsInjective
<1>4. l \in [1..Cardinality(S) -> S] /\ IsInjective(l)
  BY <1>3 DEF SetToSeq
<1> HIDE DEF l
<1>5. l \in Seq(S) /\ DOMAIN l = 1..Cardinality(S)
  BY <1>2, <1>4
<1>6. l \in Seq(Watched) /\ l # <<>>
  BY <1>2, <1>5
<1>7. \A i, j \in DOMAIN l : l[i] = l[j] => i = j
  BY <1>4 DEF IsInjective
<1>8. \A i \in DOMAIN l : l[i] \in S
  BY <1>4
<1> QED
  BY <1>6, <1>7, <1>8 DEF l

LEMMA TheRestIsListed ==
  ASSUME NEW s, NEW l, Listed(l, s), Len(l) > 1
  PROVE  Listed(Tail(l), s) /\ \A i \in DOMAIN Tail(l) : Tail(l)[i] # Head(l)
<1>1. /\ l \in Seq(Watched) /\ l # <<>> /\ Len(l) \in Nat /\ DOMAIN l = 1..Len(l)
  BY DEF Listed
<1>2. /\ Tail(l) \in Seq(Watched) /\ Len(Tail(l)) = Len(l) - 1
      /\ \A i \in 1..Len(l) - 1 : Tail(l)[i] = l[i + 1]
  BY <1>1, HeadTailProperties
<1>3. Head(l) = l[1]
  BY <1>1
<1> DEFINE t == Tail(l)
<1> HIDE DEF t
<1>4. t \in Seq(Watched) /\ DOMAIN t = 1..Len(l) - 1 /\ t # <<>> /\ \A i \in 1..Len(l) - 1 : t[i] = l[i + 1]
  <2>1. t \in Seq(Watched) /\ Len(t) = Len(l) - 1 /\ \A i \in 1..Len(l) - 1 : t[i] = l[i + 1]
    BY <1>2 DEF t
  <2>2. DOMAIN t = 1..Len(t) /\ Len(t) # 0
    BY <1>1, <2>1
  <2> QED
    BY <2>1, <2>2
<1>5. \A i \in 1..Len(l) - 1 : i + 1 \in DOMAIN l /\ i + 1 # 1 /\ 1 \in DOMAIN l
  BY <1>1
<1>6. \A i, j \in DOMAIN t : t[i] = t[j] => i = j
  <2>1. SUFFICES ASSUME NEW i \in DOMAIN t, NEW j \in DOMAIN t, t[i] = t[j]
                 PROVE  i = j
    OBVIOUS
  <2>2. i + 1 = j + 1
    BY <1>4, <1>5, <2>1 DEF Listed
  <2>3. i \in Int /\ j \in Int
    BY <1>4
  <2> QED
    BY <2>2, <2>3
<1>7. \A i \in DOMAIN t : t[i] \notin SettledIn(s) /\ t[i] # Head(l)
  BY <1>3, <1>4, <1>5 DEF Listed
<1> QED
  BY <1>4, <1>6, <1>7 DEF Listed, t

LEMMA OneMoreEscape ==
  ASSUME NEW e \in Seq(Watched), NEW x \in Watched
  PROVE  /\ Append(e, x) \in Seq(Watched) /\ Range(Append(e, x)) = Range(e) \cup {x}
         /\ Tally(Append(e, x), x) = Tally(e, x) + 1
         /\ \A r \in Watched : r # x => Tally(Append(e, x), r) = Tally(e, r)
         /\ \A r \in Watched : Tally(e, r) \in Nat
<1> DEFINE d == Append(e, x)
           At(q, r) == {i \in DOMAIN q : q[i] = r}
<1>1. /\ d \in Seq(Watched) /\ DOMAIN d = 1..Len(e) + 1 /\ d[Len(e) + 1] = x
      /\ \A k \in DOMAIN e : d[k] = e[k]
  BY AppendAdds
<1>2. DOMAIN e = 1..Len(e) /\ Len(e) \in Nat
  OBVIOUS
<1> HIDE DEF d
<1>3. \A r : IsFiniteSet(At(e, r)) /\ Cardinality(At(e, r)) \in Nat
  <2>1. SUFFICES ASSUME NEW r
                 PROVE  IsFiniteSet(At(e, r)) /\ Cardinality(At(e, r)) \in Nat
    OBVIOUS
  <2>2. IsFiniteSet(1..Len(e))
    BY <1>2, FS_Interval
  <2>3. At(e, r) \in SUBSET (1..Len(e))
    BY <1>2
  <2>4. IsFiniteSet(At(e, r))
    BY <2>2, <2>3, FS_Subset
  <2> QED
    BY <2>4, FS_CardinalityType
<1>4. At(d, x) = At(e, x) \cup {Len(e) + 1} /\ Len(e) + 1 \notin At(e, x)
  BY <1>1, <1>2
<1>5. Cardinality(At(d, x)) = Cardinality(At(e, x)) + 1
  <2> DEFINE S == At(e, x)
  <2>1. IsFiniteSet(S) /\ At(d, x) = S \cup {Len(e) + 1} /\ Len(e) + 1 \notin S
    BY <1>3, <1>4
  <2> HIDE DEF S
  <2>2. Cardinality(S \cup {Len(e) + 1}) = Cardinality(S) + 1
    BY <2>1, FS_AddElement
  <2> QED
    BY <2>1, <2>2 DEF S
<1>6. \A r : r # x => At(d, r) = At(e, r)
  BY <1>1, <1>2
<1>7. Range(d) = Range(e) \cup {x}
  BY <1>1, <1>2 DEF Range
<1> QED
  BY <1>1, <1>3, <1>5, <1>6, <1>7 DEF Tally, d

(* The steps of the watcher, over any list, ledger and count of halts.             *)
LEMMA ProofsRest ==
  ASSUME NEW l, NEW pc, NEW red, NEW s, NEW e, NEW h \in Nat, NEW m,
         Proofs(l, pc, red, s, e, h), pc # "stamp"
  PROVE  /\ Proofs(m, "idle", red, s, e, h)
         /\ Listed(m, s) => Proofs(m, "probe", red, s, e, h) /\ Proofs(m, "settle", red, s, e, h)
<1>1. Escaped(l, pc, red) = {} /\ \A p \in {"idle", "probe", "settle"} : Escaped(m, p, red) = {}
  BY DEF Escaped
<1> QED
  BY <1>1 DEF Proofs, Working

LEMMA ProofsJudged ==
  ASSUME NEW l, NEW red, NEW s, NEW e, NEW h \in Nat, Proofs(l, "settle", red, s, e, h)
  PROVE  /\ Proofs(l, "escape", TRUE, s, e, h)
         /\ Proofs(l, "stamp", FALSE, s, e, h)
<1>1. /\ Escaped(l, "settle", red) = {} /\ Escaped(l, "escape", TRUE) = {} /\ Escaped(l, "stamp", FALSE) = {}
  BY DEF Escaped
<1> QED
  BY <1>1 DEF Proofs, Working

LEMMA ProofsEscape ==
  ASSUME NEW l, NEW red, NEW s, NEW e, NEW h \in Nat, Proofs(l, "escape", red, s, e, h)
  PROVE  Proofs(l, "stamp", red, s, Append(e, Head(l)), h)
<1> DEFINE x == Head(l)
           d == Append(e, x)
<1>1. /\ s \in Seq(Settlements) /\ e \in Seq(Watched) /\ red = TRUE /\ Listed(l, s)
      /\ Stamped(s, e)
  BY DEF Proofs, Working
<1>2. x \in Watched /\ x \notin SettledIn(s)
  BY <1>1 DEF Listed
<1> HIDE DEF x
<1>3. /\ d \in Seq(Watched) /\ Range(d) = Range(e) \cup {x}
      /\ Tally(d, x) = Tally(e, x) + 1
      /\ \A r \in Watched : r # x => Tally(d, r) = Tally(e, r)
      /\ \A r \in Watched : Tally(e, r) \in Nat
  BY <1>1, <1>2, OneMoreEscape
<1> HIDE DEF d
<1>4. Escaped(l, "escape", red) = {} /\ Escaped(l, "stamp", red) = {x}
  BY <1>1 DEF Escaped, x
<1>5. Tallied(d, SettledIn(s) \cup {x}, h)
  <2>1. Tallied(e, SettledIn(s), h)
    BY <1>4 DEF Proofs
  <2>2. SUFFICES ASSUME NEW r \in Watched
                 PROVE  Tally(d, r) <= h + 1 /\ (r \notin SettledIn(s) \cup {x} => Tally(d, r) <= h)
    BY DEF Tallied
  <2>3. Tally(e, r) \in Nat /\ Tally(e, r) <= h + 1 /\ (r \notin SettledIn(s) => Tally(e, r) <= h)
    BY <1>3, <2>1 DEF Tallied
  <2>4. CASE r = x
    BY <1>2, <1>3, <2>3, <2>4
  <2>5. CASE r # x
    BY <1>3, <2>3, <2>5
  <2> QED
    BY <2>4, <2>5
<1>6. Stamped(s, d)
  BY <1>1, <1>3 DEF Stamped
<1>7. Working(l, "stamp", red, s, d)
  BY <1>1, <1>3, <1>4 DEF Working
<1> QED
  BY <1>1, <1>3, <1>4, <1>5, <1>6, <1>7 DEF Proofs, d, x

LEMMA ProofsStamp ==
  ASSUME NEW l, NEW red, NEW s, NEW e, NEW h \in Nat, NEW b \in BOOLEAN, Proofs(l, "stamp", red, s, e, h)
  PROVE  Proofs(Tail(l), IF Len(l) > 1 THEN "probe" ELSE "idle", FALSE,
                Append(s, [run |-> Head(l), red |-> red, shipped |-> b]), e, h)
<1> DEFINE x == Head(l)
           y == [run |-> x, red |-> red, shipped |-> b]
           z == Append(s, y)
           pc == IF Len(l) > 1 THEN "probe" ELSE "idle"
<1>1. /\ s \in Seq(Settlements) /\ e \in Seq(Watched) /\ red \in BOOLEAN /\ Listed(l, s)
      /\ Stamped(s, e) /\ Escaped(l, "stamp", red) \subseteq Range(e)
  BY DEF Proofs, Working
<1>2. x \in Watched
  BY <1>1 DEF Listed
<1>3. y \in Settlements /\ y.run = x /\ y.red = red
  BY <1>1, <1>2 DEF Settlements
<1> HIDE DEF y
<1>4. /\ z \in Seq(Settlements) /\ DOMAIN z = 1..Len(s) + 1 /\ z[Len(s) + 1] = y
      /\ \A k \in DOMAIN s : z[k] = s[k]
  BY <1>1, <1>3, AppendAdds
<1>5. DOMAIN s = 1..Len(s) /\ Len(s) \in Nat
  BY <1>1
<1> HIDE DEF z
<1>6. \A k \in DOMAIN z : (k \in DOMAIN s /\ z[k] = s[k]) \/ z[k] = y
  BY <1>4, <1>5
<1>7. SettledIn(z) = SettledIn(s) \cup {x}
  <2>1. SettledIn(z) \subseteq SettledIn(s) \cup {x}
    BY <1>3, <1>6 DEF SettledIn
  <2>2. Len(s) + 1 \in DOMAIN z /\ \A k \in DOMAIN s : k \in DOMAIN z
    BY <1>4, <1>5
  <2>3. x \in SettledIn(z)
    BY <1>3, <1>4, <2>2 DEF SettledIn
  <2>4. SettledIn(s) \subseteq SettledIn(z)
    BY <1>4, <2>2 DEF SettledIn
  <2> QED
    BY <2>1, <2>3, <2>4
<1>8. Stamped(z, e)
  <2>1. red => x \in Range(e)
    BY <1>1 DEF Escaped, x
  <2> QED
    BY <1>1, <1>3, <1>6, <2>1 DEF Stamped
<1>9. Escaped(l, "stamp", red) \subseteq {x} /\ \A m : Escaped(m, pc, FALSE) = {}
  BY DEF Escaped, x
<1>10. Tallied(e, SettledIn(z), h)
  BY <1>7, <1>9 DEF Proofs, Tallied
<1>11. Len(l) > 1 => Listed(Tail(l), z)
  BY <1>1, <1>7, TheRestIsListed DEF Listed, x
<1>12. Working(Tail(l), pc, FALSE, z, e)
  BY <1>9, <1>11 DEF Working
<1> HIDE DEF pc, x
<1> QED
  BY <1>1, <1>4, <1>8, <1>9, <1>10, <1>12 DEF Proofs, pc, x, y, z

LEMMA ProofsHalt ==
  ASSUME NEW l, NEW pc, NEW red, NEW s, NEW e, NEW h \in Nat, NEW m,
         Proofs(l, pc, red, s, e, h)
  PROVE  /\ Proofs(m, "idle", FALSE, s, e, h + 1)
         /\ Proofs(l, pc, red, s, e, h + 1)
<1>1. \A r \in Watched : Tally(e, r) \in Nat
  BY OneMoreEscape DEF Proofs
<1>2. \A U : Tallied(e, U, h + 1)
  <2>1. SUFFICES ASSUME NEW r \in Watched
                 PROVE  Tally(e, r) <= h + 1 + 1 /\ Tally(e, r) <= h + 1
    BY DEF Tallied
  <2>2. Tally(e, r) <= h + 1 /\ Tally(e, r) \in Nat
    BY <1>1 DEF Proofs, Tallied
  <2> QED
    BY <2>2
<1>3. Escaped(m, "idle", FALSE) = {}
  BY DEF Escaped
<1> QED
  BY <1>2, <1>3 DEF Proofs, Working


LEMMA DebtsDebt ==
  ASSUME Shaped, Debts, DebtStep
  PROVE  Debts'
<1> DEFINE l == debt.list
           s == told.settled
           e == told.escapes
           h == used.halts
<1>1. /\ Proofs(l, debt.pc, debt.red, s, e, h) /\ h \in Nat /\ DebtShape /\ ToldShape
  BY DEF Debts, Shaped, UsedShape
<1>2. UNCHANGED <<host, used>> /\ Ran
  BY DEF DebtStep, Outer, PollDebts, ProbeDeferred, SettleProofDebt, RecordDebtEscape, StampSettled
<1>3. \/ PollDebts /\ debt.pc = "idle" /\ debt.polls > 0 /\ (Scans \/ Rests)
      \/ ProbeDeferred /\ debt.pc = "probe" /\ (Rests \/ (To("settle") /\ debt'.red = debt.red) \/ NextIs(debt.red))
      \/ SettleProofDebt /\ debt.pc = "settle" /\ ((To("escape") /\ debt'.red = TRUE) \/ (To("stamp") /\ debt'.red = FALSE))
      \/ RecordDebtEscape /\ debt.pc = "escape" /\ To("stamp") /\ debt'.red = debt.red
      \/ StampSettled /\ debt.pc = "stamp" /\ NextIs(FALSE)
  BY <1>1, DebtStepIs
<1>4. Resting'
  <2>1. debt.pc = "idle" => debt.polls # 0
    <3>1. debt.pc = "idle" => debt.polls > 0
      BY <1>3
    <3> QED
      BY <3>1
  <2>2. host.up # "down" /\ (host.up = "down" \/ host.stopped > 3 => debt.pc = "idle" /\ debt.polls = 0)
    BY <1>2 DEF Debts, Resting, Ran
  <2>3. ~(host.up = "down" \/ host.stopped > 3)
    BY <2>1, <2>2
  <2> QED
    BY <1>2, <2>3 DEF Resting
<1>5. SUFFICES Proofs(debt'.list, debt'.pc, debt'.red, told'.settled, told'.escapes, h)
  BY <1>2, <1>4 DEF Debts
<1>6. CASE PollDebts /\ debt.pc = "idle" /\ (Scans \/ Rests)
  <2>1. told' = told
    BY <1>6 DEF PollDebts
  <2>2. CASE Rests
    BY <1>1, <1>6, <2>1, <2>2, ProofsRest DEF Rests
  <2>3. CASE Scans /\ OpenProofDebts = {}
    BY <1>1, <1>6, <2>1, <2>3, ProofsRest DEF Scans
  <2>4. CASE Scans /\ OpenProofDebts # {}
    <3>1. OpenProofDebts \in SUBSET Watched /\ OpenProofDebts \cap SettledIn(s) = {}
      BY DEF OpenProofDebts, SettledDebts, SettledIn
    <3>2. Listed(SetToSeq(OpenProofDebts), s)
      BY <2>4, <3>1, AllOnce DEF Listed
    <3> QED
      BY <1>1, <1>6, <2>1, <2>4, <3>2, ProofsRest DEF Scans
  <2> QED
    BY <1>6, <2>2, <2>3, <2>4
<1>7. CASE ProbeDeferred /\ debt.pc = "probe" /\ (Rests \/ (To("settle") /\ debt'.red = debt.red) \/ NextIs(debt.red))
  <2>1. told' = told /\ Listed(l, s)
    BY <1>1, <1>7 DEF ProbeDeferred, Proofs, Working
  <2>2. CASE Rests
    BY <1>1, <1>7, <2>1, <2>2, ProofsRest DEF Rests
  <2>3. CASE To("settle") /\ debt'.red = debt.red
    BY <1>1, <1>7, <2>1, <2>3, ProofsRest DEF To
  <2>4. CASE NextIs(debt.red)
    <3>1. Len(l) > 1 => Listed(Tail(l), s)
      BY <2>1, TheRestIsListed
    <3> QED
      BY <1>1, <1>7, <2>1, <2>4, <3>1, ProofsRest DEF NextIs
  <2> QED
    BY <1>7, <2>2, <2>3, <2>4
<1>8. CASE SettleProofDebt /\ debt.pc = "settle" /\ ((To("escape") /\ debt'.red = TRUE) \/ (To("stamp") /\ debt'.red = FALSE))
  <2>1. told' = told
    BY <1>8 DEF SettleProofDebt
  <2> QED
    BY <1>1, <1>8, <2>1, ProofsJudged DEF To
<1>9. CASE RecordDebtEscape /\ debt.pc = "escape" /\ To("stamp") /\ debt'.red = debt.red
  <2>1. told' = [told EXCEPT !.escapes = Append(e, Head(l))]
    BY <1>9 DEF RecordDebtEscape
  <2>2. told'.escapes = Append(e, Head(l)) /\ told'.settled = s
    BY <1>1, <2>1, Tells
  <2> QED
    BY <1>1, <1>9, <2>2, ProofsEscape DEF To
<1>10. CASE StampSettled /\ debt.pc = "stamp" /\ NextIs(FALSE)
  <2> DEFINE b == Head(l) \in Range(ships)
             y == [run |-> Head(l), red |-> debt.red, shipped |-> b]
  <2>1. told' = [told EXCEPT !.settled = Append(s, y)]
    BY <1>10 DEF StampSettled
  <2>2. b \in BOOLEAN
    OBVIOUS
  <2>3. told'.settled = Append(s, y) /\ told'.escapes = e
    BY <1>1, <2>1, Tells
  <2> HIDE DEF b
  <2>4. Proofs(Tail(l), IF Len(l) > 1 THEN "probe" ELSE "idle", FALSE, Append(s, y), e, h)
    BY <1>1, <1>10, <2>2, ProofsStamp
  <2> QED
    BY <1>10, <2>3, <2>4 DEF NextIs
<1> QED
  BY <1>3, <1>6, <1>7, <1>8, <1>9, <1>10

LEMMA DebtsStep ==
  ASSUME Shaped, Debts, [ObsNext]_obsVars
  PROVE  Debts'
<1> DEFINE Known == Proofs(debt.list, debt.pc, debt.red, told.settled, told.escapes, used.halts)
<1>0. Known /\ used.halts \in Nat /\ HostShape
  BY DEF Debts, Shaped, UsedShape
<1>1. ASSUME told'.settled = told.settled, told'.escapes = told.escapes, SameDebt, used'.halts = used.halts, Resting'
      PROVE  Debts'
  BY <1>0, <1>1 DEF Debts, SameDebt
<1>2. ASSUME host' = host, debt' = debt
      PROVE  Resting' /\ SameDebt
  BY <1>2 DEF Debts, Resting, SameDebt
<1>3. ASSUME Running, host' = host
      PROVE  Resting'
  BY <1>0, <1>3 DEF Resting, HostShape, Running
<1>4. CASE RunStep
  <2>1. PICK r \in Watched : Enters(r) \/ Beats(r) \/ Defers(r) \/ Merges(r) \/ Closes(r)
    BY <1>4 DEF RunStep
  <2>2. Running /\ UNCHANGED <<host, told>> /\ used'.halts = used.halts /\ SameDebt
    BY <2>1, RunStepIs
  <2> QED
    BY <1>1, <1>3, <2>2
<1>5. CASE TripwireStep
  BY <1>1, <1>2, <1>5, TripwireShaped DEF Quiet
<1>6. CASE QueuePoll
  BY <1>1, <1>3, <1>6, PollShaped DEF Quiet
<1>7. CASE DebtStep
  BY <1>7, DebtsDebt
<1>8. CASE FlowStep
  BY <1>1, <1>2, <1>8, FlowShaped DEF Quiet
<1>9. CASE EvalStep
  BY <1>1, <1>2, <1>9, EvalShaped DEF Quiet
<1>10. CASE WorkflowRuns \/ ServiceReturns
  BY <1>1, <1>2, <1>10, WorldShaped
<1>11. CASE OperatorResolves
  BY <1>1, <1>2, <1>11, ResolveShaped DEF Quiet
<1>12. CASE StartHost
  <2>1. /\ told' = told /\ used' = used /\ debt'.pc = "idle" /\ debt'.red = FALSE
        /\ host.up = "down" /\ host'.up = "up" /\ host'.stopped = 0
    BY <1>12, StartShaped DEF Reset
  <2>2. debt.pc # "stamp"
    BY <2>1 DEF Debts, Resting
  <2>3. Proofs(debt'.list, "idle", debt.red, told.settled, told.escapes, used.halts)
    BY <1>0, <2>2, ProofsRest
  <2>4. Proofs(debt'.list, "idle", FALSE, told.settled, told.escapes, used.halts)
    BY <2>3 DEF Proofs, Working, Escaped
  <2>5. Resting'
    BY <2>1 DEF Resting
  <2> QED
    BY <2>1, <2>4, <2>5 DEF Debts
<1>13. CASE HostCrashes
  <2>1. /\ told' = told /\ used'.halts = used.halts + 1 /\ debt'.pc = "idle" /\ debt'.red = FALSE
        /\ debt' = NoDebts
    BY <1>13, CrashShaped DEF Reset
  <2>2. Proofs(debt'.list, "idle", FALSE, told.settled, told.escapes, used.halts + 1)
    BY <1>0, ProofsHalt
  <2>3. Resting'
    BY <2>1 DEF Resting, NoDebts
  <2> QED
    BY <2>1, <2>2, <2>3 DEF Debts
<1>14. CASE HostStops
  <2>1. /\ UNCHANGED <<told, debt>> /\ used'.halts = used.halts + 1
        /\ host'.up = "stopping" /\ host'.stopped = 1
    BY <1>14, StopShaped
  <2>2. Proofs(debt.list, debt.pc, debt.red, told.settled, told.escapes, used.halts + 1)
    BY <1>0, ProofsHalt
  <2>3. Resting'
    BY <2>1 DEF Resting
  <2> QED
    BY <2>1, <2>2, <2>3 DEF Debts
<1>15. CASE ObserverStops
  <2>1. /\ UNCHANGED <<told, debt, used>> /\ host.up = "stopping"
        /\ \/ host.stopped = 4 /\ host'.up = "down" /\ host'.stopped = 0
           \/ host'.up = "stopping" /\ host'.stopped = host.stopped + 1
        /\ host.stopped = 3 => debt.pc = "idle" /\ debt.polls = 0
    BY <1>15, ObserverShaped
  <2>2. Resting'
    <3>1. PICK n \in Nat : n = host.stopped
      BY <1>0 DEF HostShape
    <3>2. n > 3 => debt.pc = "idle" /\ debt.polls = 0
      BY <3>1 DEF Debts, Resting
    <3>3. n + 1 > 3 => n = 3 \/ n > 3
      BY <3>1
    <3>4. (host'.up = "down" \/ host'.stopped > 3) => debt.pc = "idle" /\ debt.polls = 0
      BY <2>1, <3>1, <3>2, <3>3
    <3> QED
      BY <2>1, <3>4 DEF Resting
  <2> QED
    BY <1>1, <2>1, <2>2 DEF SameDebt
<1>16. CASE UNCHANGED obsVars
  BY <1>1, <1>2, <1>16 DEF obsVars
<1> QED
  BY <1>4, <1>5, <1>6, <1>7, <1>8, <1>9, <1>10, <1>11, <1>12, <1>13, <1>14, <1>15, <1>16 DEF ObsNext, HostStep


---------------------------------------------------------------------------
(* The reviews: they name the ships from the first to some m-th between them, the    *)
(* newest review names the m-th, and the window of a seat starts behind it.         *)
Reviews == [named : SUBSET Watched]
Span(s, m, n) == {s[k] : k \in m + 1 .. n}
Sailed(s) == s \in Seq(Watched) /\ \A i, j \in DOMAIN s : s[i] = s[j] => i = j
NamedApart(v) == \A i, j \in DOMAIN v : v[i].named \cap v[j].named # {} => i = j
InOrder(s, v) == \A i \in DOMAIN v, a, b \in DOMAIN s :
                    a < b /\ s[b] \in v[i].named => \E j \in 1..i : s[a] \in v[j].named
Reviewed(s, v, m) ==
  /\ Sailed(s) /\ v \in Seq(Reviews) /\ m \in 0..Len(s)
  /\ \A i \in DOMAIN v : v[i].named \subseteq Span(s, 0, m)
  /\ \A a \in 1..m : \E i \in DOMAIN v : s[a] \in v[i].named
  /\ v = <<>> => m = 0
  /\ v # <<>> => m > 0 /\ s[m] \in v[Len(v)].named
  /\ NamedApart(v) /\ InOrder(s, v)
Seated(s, m, pc, w) == pc = "seat" => \E n \in m + 1 .. Len(s) : w = Span(s, m, n)
Gone(s) == \A k \in DOMAIN s : life[s[k]].st # "open"

Evals == /\ \E m \in Nat : Reviewed(ships, told.reviews, m) /\ Seated(ships, m, review.pc, review.window)
         /\ Gone(ships)

LEMMA SailedIs ==
  ASSUME NEW s, Sailed(s)
  PROVE  /\ Len(s) \in Nat /\ DOMAIN s = 1..Len(s)
         /\ \A m \in 0..Len(s) : \A b \in DOMAIN s : s[b] \in Span(s, 0, m) <=> b <= m
         /\ \A m \in 0..Len(s) : \A n \in 0..Len(s) : \A b \in DOMAIN s : s[b] \in Span(s, m, n) <=> m < b /\ b <= n
<1>1. s \in Seq(Watched) /\ Len(s) \in Nat /\ DOMAIN s = 1..Len(s)
  BY DEF Sailed
<1>2. ASSUME NEW m \in 0..Len(s), NEW n \in 0..Len(s), NEW b \in DOMAIN s
      PROVE  s[b] \in Span(s, m, n) <=> m < b /\ b <= n
  <2>1. ASSUME s[b] \in Span(s, m, n)
        PROVE  m < b /\ b <= n
    <3>1. PICK k \in m + 1 .. n : s[b] = s[k]
      BY <2>1 DEF Span
    <3>2. k \in DOMAIN s
      BY <1>1
    <3>3. b = k
      BY <3>1, <3>2 DEF Sailed
    <3> QED
      BY <3>3
  <2>2. ASSUME m < b, b <= n
        PROVE  s[b] \in Span(s, m, n)
    <3>1. b \in m + 1 .. n
      BY <1>1, <2>2
    <3> QED
      BY <3>1 DEF Span
  <2> QED
    BY <2>1, <2>2
<1>3. ASSUME NEW m \in 0..Len(s), NEW b \in DOMAIN s
      PROVE  s[b] \in Span(s, 0, m) <=> b <= m
  <2>1. 0 \in 0..Len(s) /\ 0 < b
    BY <1>1
  <2> QED
    BY <1>2, <2>1
<1> QED
  BY <1>1, <1>2, <1>3

(* What is behind the newest ship of the last review is the rest of them. *)
LEMMA WindowIs ==
  ASSUME NEW m, Reviewed(ships, told.reviews, m)
  PROVE  EvalWindow = Span(ships, m, Len(ships))
<1> DEFINE s == ships
           N == LastReview.named
           named == {i \in DOMAIN s : s[i] \in N}
           later == {i \in DOMAIN s : \A n \in named : i > n}
<1>1. /\ Sailed(s) /\ m \in 0..Len(s) /\ Len(s) \in Nat /\ DOMAIN s = 1..Len(s)
  BY SailedIs DEF Reviewed
<1>2. EvalWindow = {s[i] : i \in later}
  BY DEF EvalWindow
<1>3. later = m + 1 .. Len(s)
  <2>1. CASE told.reviews = <<>>
    <3>1. N = {} /\ m = 0
      BY <2>1 DEF LastReview, Reviewed
    <3>2. named = {}
      BY <3>1
    <3>3. later = 1..Len(s)
      BY <1>1, <3>2
    <3> QED
      BY <1>1, <3>1, <3>3
  <2>2. CASE told.reviews # <<>>
    <3>1. N = told.reviews[Len(told.reviews)].named
      BY <2>2 DEF LastReview, Last
    <3>2. Len(told.reviews) \in DOMAIN told.reviews /\ m > 0 /\ s[m] \in N
      BY <2>2, <3>1 DEF Reviewed
    <3>3. N \subseteq Span(s, 0, m)
      BY <3>1, <3>2 DEF Reviewed
    <3> HIDE DEF N
    <3>4. m \in named
      BY <1>1, <3>2
    <3>5. \A n \in named : n <= m
      BY <1>1, <3>3, SailedIs
    <3> HIDE DEF named
    <3>6. \A n \in named : n \in Nat
      BY <1>1 DEF named
    <3>7. \A i \in DOMAIN s : (\A n \in named : i > n) <=> i > m
      BY <1>1, <3>4, <3>5, <3>6
    <3> QED
      BY <1>1, <3>7
  <2> QED
    BY <2>1, <2>2
<1> HIDE DEF later
<1> QED
  BY <1>2, <1>3 DEF Span

LEMMA OneMoreShip ==
  ASSUME NEW s, NEW v, NEW m, NEW pc, NEW w, NEW r \in Watched,
         Reviewed(s, v, m), Seated(s, m, pc, w), \A k \in DOMAIN s : s[k] # r
  PROVE  Reviewed(Append(s, r), v, m) /\ Seated(Append(s, r), m, pc, w)
<1> DEFINE t == Append(s, r)
<1>1. Sailed(s) /\ s \in Seq(Watched) /\ Len(s) \in Nat /\ DOMAIN s = 1..Len(s) /\ m \in 0..Len(s)
  BY DEF Reviewed, Sailed
<1>2. /\ t \in Seq(Watched) /\ DOMAIN t = 1..Len(s) + 1 /\ Len(t) = Len(s) + 1
      /\ t[Len(s) + 1] = r /\ \A k \in DOMAIN s : t[k] = s[k]
  BY <1>1, AppendAdds
<1> HIDE DEF t
<1>3. \A k \in DOMAIN t : k \in DOMAIN s \/ k = Len(s) + 1
  BY <1>1, <1>2
<1>4. Sailed(t)
  BY <1>1, <1>2, <1>3 DEF Sailed
<1>5. \A a \in 0..Len(s) : \A n \in 0..Len(s) : Span(t, a, n) = Span(s, a, n)
  <2>1. ASSUME NEW a \in 0..Len(s), NEW n \in 0..Len(s)
        PROVE  Span(t, a, n) = Span(s, a, n)
    <3>1. \A k \in a + 1 .. n : t[k] = s[k]
      BY <1>1, <1>2
    <3> QED
      BY <3>1 DEF Span
  <2> QED
    BY <2>1
<1>6. 0 \in 0..Len(s) /\ m \in 0..Len(t)
  BY <1>1, <1>2
<1>7. \A i \in DOMAIN v : v[i].named \subseteq Span(t, 0, m)
  BY <1>1, <1>5, <1>6 DEF Reviewed
<1>8. \A a \in 1..m : a \in DOMAIN s
  BY <1>1
<1>9. InOrder(t, v)
  <2>1. SUFFICES ASSUME NEW i \in DOMAIN v, NEW a \in DOMAIN t, NEW b \in DOMAIN t, a < b, t[b] \in v[i].named
                 PROVE  \E j \in 1..i : t[a] \in v[j].named
    BY DEF InOrder
  <2>2. b <= m
    BY <1>2, <1>4, <1>6, <1>7, <2>1, SailedIs
  <2>3. a \in DOMAIN s /\ b \in DOMAIN s
    BY <1>1, <1>2, <2>1, <2>2
  <2> QED
    BY <1>2, <2>1, <2>3 DEF Reviewed, InOrder
<1>10. Reviewed(t, v, m)
  <2>1. v # <<>> => m > 0 /\ t[m] \in v[Len(v)].named
    <3>1. m > 0 => t[m] = s[m]
      BY <1>1, <1>2
    <3> QED
      BY <3>1 DEF Reviewed
  <2>2. \A a \in 1..m : \E i \in DOMAIN v : t[a] \in v[i].named
    BY <1>2, <1>8 DEF Reviewed
  <2> QED
    BY <1>4, <1>6, <1>7, <1>9, <2>1, <2>2 DEF Reviewed
<1>11. Seated(t, m, pc, w)
  <2>1. SUFFICES ASSUME pc = "seat"
                 PROVE  \E n \in m + 1 .. Len(t) : w = Span(t, m, n)
    BY DEF Seated
  <2>2. PICK n \in m + 1 .. Len(s) : w = Span(s, m, n)
    BY <2>1 DEF Seated
  <2>3. n \in 0..Len(s) /\ n \in m + 1 .. Len(t)
    BY <1>1, <1>2
  <2> QED
    BY <1>1, <1>5, <2>2, <2>3
<1> QED
  BY <1>10, <1>11 DEF t

LEMMA OneMoreReview ==
  ASSUME NEW s, NEW v, NEW m, NEW n, Reviewed(s, v, m), n \in m + 1 .. Len(s)
  PROVE  Reviewed(s, Append(v, [named |-> Span(s, m, n)]), n)
<1> DEFINE w == Span(s, m, n)
           y == [named |-> w]
           z == Append(v, y)
<1>1. /\ Sailed(s) /\ s \in Seq(Watched) /\ Len(s) \in Nat /\ DOMAIN s = 1..Len(s)
      /\ v \in Seq(Reviews) /\ m \in 0..Len(s)
  BY DEF Reviewed, Sailed
<1>2. n \in 0..Len(s) /\ n \in DOMAIN s /\ m < n
  BY <1>1
<1>3. \A b \in DOMAIN s : s[b] \in w <=> m < b /\ b <= n
  BY <1>1, <1>2, SailedIs
<1>4. w \subseteq Watched
  <2>1. \A k \in m + 1 .. n : s[k] \in Watched
    BY <1>1, <1>2
  <2> QED
    BY <2>1 DEF Span
<1>5. y \in Reviews /\ y.named = w
  BY <1>4 DEF Reviews
<1>6. \A p \in 0..n : Span(s, p, n) \subseteq Span(s, 0, n) /\ (p <= n => Span(s, 0, p) \subseteq Span(s, 0, n))
  <2>1. SUFFICES ASSUME NEW p \in 0..n
                 PROVE  Span(s, p, n) \subseteq Span(s, 0, n) /\ Span(s, 0, p) \subseteq Span(s, 0, n)
    OBVIOUS
  <2>2. \A k \in p + 1 .. n : k \in 0 + 1 .. n
    BY <1>1, <1>2
  <2>3. \A k \in 0 + 1 .. p : k \in 0 + 1 .. n
    BY <1>1, <1>2
  <2> QED
    BY <2>2, <2>3 DEF Span
<1>7. w \subseteq Span(s, 0, n) /\ Span(s, 0, m) \subseteq Span(s, 0, n)
  <2>1. m \in 0..n /\ m <= n
    BY <1>1, <1>2
  <2> QED
    BY <1>6, <2>1
<1>8. w \cap Span(s, 0, m) = {}
  <2>1. SUFFICES ASSUME NEW x \in w, x \in Span(s, 0, m)
                 PROVE  FALSE
    OBVIOUS
  <2>2. PICK k \in m + 1 .. n : x = s[k]
    BY <2>1 DEF Span
  <2>3. k \in DOMAIN s /\ ~(k <= m)
    BY <1>1, <1>2
  <2> QED
    BY <1>1, <2>1, <2>2, <2>3, SailedIs
<1> HIDE DEF w, y
<1>9. /\ z \in Seq(Reviews) /\ DOMAIN z = 1..Len(v) + 1 /\ Len(z) = Len(v) + 1
      /\ z[Len(v) + 1] = y /\ \A k \in DOMAIN v : z[k] = v[k]
  BY <1>1, <1>5, AppendAdds
<1>10. DOMAIN v = 1..Len(v) /\ Len(v) \in Nat
  BY <1>1
<1> HIDE DEF z
<1>11. /\ \A i \in DOMAIN z : (i \in DOMAIN v /\ z[i] = v[i]) \/ (i = Len(v) + 1 /\ z[i] = y)
       /\ \A i \in DOMAIN v : i \in DOMAIN z /\ z[i] = v[i]
       /\ Len(v) + 1 \in DOMAIN z
  BY <1>9, <1>10
<1>12. \A i \in DOMAIN v : v[i].named \subseteq Span(s, 0, m)
  BY DEF Reviewed
<1>13. \A i \in DOMAIN z : z[i].named \subseteq Span(s, 0, n)
  BY <1>5, <1>7, <1>11, <1>12
<1>14. \A a \in 1..n : \E i \in DOMAIN z : s[a] \in z[i].named
  <2>1. SUFFICES ASSUME NEW a \in 1..n
                 PROVE  \E i \in DOMAIN z : s[a] \in z[i].named
    OBVIOUS
  <2>2. a \in DOMAIN s /\ (a \in 1..m \/ (m < a /\ a <= n))
    BY <1>1, <1>2
  <2>3. CASE a \in 1..m
    <3>1. PICK i \in DOMAIN v : s[a] \in v[i].named
      BY <2>3 DEF Reviewed
    <3> QED
      BY <1>11, <3>1
  <2>4. CASE m < a /\ a <= n
    BY <1>3, <1>5, <1>9, <1>11, <2>2, <2>4
  <2> QED
    BY <2>2, <2>3, <2>4
<1>15. NamedApart(z)
  <2>1. SUFFICES ASSUME NEW i \in DOMAIN z, NEW j \in DOMAIN z, z[i].named \cap z[j].named # {}
                 PROVE  i = j
    BY DEF NamedApart
  <2>2. CASE i \in DOMAIN v /\ j \in DOMAIN v
    BY <1>11, <2>1, <2>2 DEF Reviewed, NamedApart
  <2>3. \A k \in DOMAIN v : v[k].named \cap w = {} /\ w \cap v[k].named = {}
    BY <1>8, <1>12
  <2> QED
    BY <1>5, <1>11, <2>1, <2>2, <2>3
<1>16. InOrder(s, z)
  <2>1. SUFFICES ASSUME NEW i \in DOMAIN z, NEW a \in DOMAIN s, NEW b \in DOMAIN s, a < b, s[b] \in z[i].named
                 PROVE  \E j \in 1..i : s[a] \in z[j].named
    BY DEF InOrder
  <2>2. CASE i \in DOMAIN v /\ z[i] = v[i]
    <3>1. PICK j \in 1..i : s[a] \in v[j].named
      BY <2>1, <2>2 DEF Reviewed, InOrder
    <3>2. j \in DOMAIN v
      BY <1>10, <2>2
    <3> QED
      BY <1>11, <3>1, <3>2
  <2>3. CASE i = Len(v) + 1 /\ z[i] = y
    <3>1. m < b /\ b <= n
      BY <1>3, <1>5, <2>1, <2>3
    <3>2. a \in 1..m \/ (m < a /\ a <= n)
      BY <1>1, <1>2, <2>1, <3>1
    <3>3. CASE a \in 1..m
      <4>1. PICK j \in DOMAIN v : s[a] \in v[j].named
        BY <3>3 DEF Reviewed
      <4>2. j \in 1..i
        BY <1>10, <2>3
      <4> QED
        BY <1>11, <4>1, <4>2
    <3>4. CASE m < a /\ a <= n
      <4>1. s[a] \in z[i].named
        BY <1>3, <1>5, <2>3, <3>4
      <4>2. i \in 1..i
        BY <1>10, <2>3
      <4> QED
        BY <4>1, <4>2
    <3> QED
      BY <3>2, <3>3, <3>4
  <2> QED
    BY <1>11, <2>2, <2>3
<1>17. z # <<>> /\ n > 0 /\ s[n] \in z[Len(z)].named
  <2>1. n > 0 /\ s[n] \in w
    BY <1>1, <1>2, <1>3
  <2> QED
    BY <1>5, <1>9, <1>10, <2>1
<1> QED
  BY <1>1, <1>2, <1>9, <1>13, <1>14, <1>15, <1>16, <1>17 DEF Reviewed, w, y, z


LEMMA EvalsEval ==
  ASSUME Shaped, Evals, EvalStep
  PROVE  Evals'
<1>1. PICK m \in Nat : Reviewed(ships, told.reviews, m) /\ Seated(ships, m, review.pc, review.window)
  BY DEF Evals
<1>2. UNCHANGED <<life, ships>> /\ ToldShape /\ ReviewShape /\ Gone(ships)
  BY DEF EvalStep, Outer, Shaped, Evals
<1>3. Gone(ships)'
  BY <1>2 DEF Gone
<1>4. ASSUME NEW k \in Nat, Reviewed(ships, told'.reviews, k), Seated(ships, k, review'.pc, review'.window)
      PROVE  Evals'
  BY <1>2, <1>3, <1>4 DEF Evals
<1>5. CASE Check /\ (IsStopped("evals") \/ Cardinality(EvalWindow) < Interval)
  <2>1. told' = told /\ review.pc = "idle" /\ review' = [review EXCEPT !.checks = review.checks - 1]
    BY <1>5 DEF Check
  <2>2. review'.pc = "idle"
    BY <1>2, <2>1 DEF ReviewShape
  <2> QED
    BY <1>1, <1>4, <2>1, <2>2 DEF Seated
<1>6. CASE Check /\ ~(IsStopped("evals") \/ Cardinality(EvalWindow) < Interval)
  <2>1. told' = told /\ review' = [pc |-> "seat", checks |-> review.checks - 1, window |-> EvalWindow]
    BY <1>6 DEF Check
  <2>2. EvalWindow = Span(ships, m, Len(ships))
    BY <1>1, WindowIs
  <2>3. EvalWindow # {}
    BY <1>6, FS_EmptySet, IntervalAssumption
  <2>4. Len(ships) \in m + 1 .. Len(ships)
    <3>1. Len(ships) \in Nat
      BY <1>1, SailedIs DEF Reviewed
    <3>2. m + 1 .. Len(ships) # {}
      BY <2>2, <2>3 DEF Span
    <3> QED
      BY <3>1, <3>2
  <2>5. review'.pc = "seat" /\ review'.window = Span(ships, m, Len(ships))
    BY <2>1, <2>2
  <2> QED
    BY <1>1, <1>4, <2>1, <2>4, <2>5 DEF Seated
<1>7. CASE SeatEnds
  <2>1. /\ review.pc = "seat" /\ review' = [review EXCEPT !.pc = "idle", !.window = {}]
        /\ \/ told' = told
           \/ told' = [told EXCEPT !.reviews = Append(told.reviews, [named |-> review.window])]
    BY <1>7 DEF SeatEnds
  <2>2. review'.pc = "idle"
    BY <1>2, <2>1 DEF ReviewShape
  <2>3. \A k : Seated(ships, k, review'.pc, review'.window)
    BY <2>2 DEF Seated
  <2>4. CASE told' = told
    BY <1>1, <1>4, <2>3, <2>4
  <2>5. CASE told' = [told EXCEPT !.reviews = Append(told.reviews, [named |-> review.window])]
    <3>1. told'.reviews = Append(told.reviews, [named |-> review.window])
      BY <1>2, <2>5, Tells
    <3>2. PICK n \in m + 1 .. Len(ships) : review.window = Span(ships, m, n)
      BY <1>1, <2>1 DEF Seated
    <3>3. n \in Nat
      OBVIOUS
    <3>4. Reviewed(ships, told'.reviews, n)
      BY <1>1, <3>1, <3>2, OneMoreReview
    <3> QED
      BY <1>4, <2>3, <3>3, <3>4
  <2> QED
    BY <2>1, <2>4, <2>5
<1> QED
  BY <1>5, <1>6, <1>7 DEF EvalStep

LEMMA EvalsRun ==
  ASSUME Shaped, Evals, NEW r \in Watched, Enters(r) \/ Beats(r) \/ Defers(r) \/ Merges(r) \/ Closes(r)
  PROVE  Evals'
<1>1. PICK m \in Nat : Reviewed(ships, told.reviews, m) /\ Seated(ships, m, review.pc, review.window)
  BY DEF Evals
<1>2. told' = told /\ SameReview
  BY RunStepIs
<1>3. /\ ships \in Seq(Watched) /\ DOMAIN ships = 1..Len(ships) /\ Len(ships) \in Nat
      /\ \A k \in DOMAIN ships : ships[k] \in Watched
  <2>1. ships \in Seq(Watched)
    BY <1>1 DEF Reviewed, Sailed
  <2> QED
    BY <2>1, SeqDomain
<1>4. \A q \in Watched : life[q].st # "open" => life'[q].st # "open"
  <2>1. life \in [Watched -> RunFacts]
    BY DEF Shaped
  <2>2. \/ life' = life
        \/ life' = [life EXCEPT ![r].visit = @ + 1]
        \/ life' = [life EXCEPT ![r].owes = TRUE]
        \/ life' = [life EXCEPT ![r].st = "merged"]
        \/ life' = [life EXCEPT ![r].st = "closed"]
    BY DEF Enters, Beats, Defers, Merges, Closes, Outer
  <2> QED
    BY <2>1, <2>2, VisitIs, OwesIs, StIs
<1>5. CASE ships' = ships
  <2>1. Gone(ships)'
    BY <1>3, <1>4, <1>5 DEF Evals, Gone
  <2> QED
    BY <1>1, <1>2, <1>5, <2>1 DEF Evals, SameReview
<1>6. CASE Merges(r)
  <2>1. ships' = Append(ships, r) /\ life[r].st = "open" /\ life' = [life EXCEPT ![r].st = "merged"]
    BY <1>6 DEF Merges
  <2>2. \A k \in DOMAIN ships : ships[k] # r
    BY <2>1 DEF Evals, Gone
  <2>3. Reviewed(ships', told.reviews, m) /\ Seated(ships', m, review.pc, review.window)
    BY <1>1, <2>1, <2>2, OneMoreShip
  <2>4. Gone(ships)'
    <3>1. life'[r].st = "merged"
      BY <2>1, StIs DEF Shaped
    <3>2. /\ DOMAIN ships' = 1..Len(ships) + 1 /\ ships'[Len(ships) + 1] = r
          /\ \A k \in DOMAIN ships : ships'[k] = ships[k]
      BY <1>3, <2>1, AppendAdds
    <3>3. \A k \in DOMAIN ships' : k \in DOMAIN ships \/ k = Len(ships) + 1
      BY <1>3, <3>2
    <3> QED
      BY <1>3, <1>4, <3>1, <3>2, <3>3 DEF Evals, Gone
  <2> QED
    BY <1>2, <2>3, <2>4 DEF Evals, SameReview
<1>7. ~Merges(r) => ships' = ships
  BY DEF Enters, Beats, Defers, Merges, Closes, Outer
<1> QED
  BY <1>5, <1>6, <1>7

LEMMA EvalsStep ==
  ASSUME Shaped, Evals, [ObsNext]_obsVars
  PROVE  Evals'
<1>1. PICK m \in Nat : Reviewed(ships, told.reviews, m) /\ Seated(ships, m, review.pc, review.window)
  BY DEF Evals
<1>2. ASSUME ships' = ships, told'.reviews = told.reviews, Seated(ships, m, review'.pc, review'.window),
             life' = life \/ Lost
      PROVE  Evals'
  <2>1. \A k \in DOMAIN ships : ships[k] \in Watched
    BY <1>1, SeqDomain DEF Reviewed, Sailed
  <2>2. \A q \in Watched : life'[q].st = life[q].st
    BY <1>2, LostIs DEF Shaped
  <2>3. Gone(ships)'
    BY <1>2, <2>1, <2>2 DEF Evals, Gone
  <2> QED
    BY <1>1, <1>2, <2>3 DEF Evals
<1>3. review' = review => Seated(ships, m, review'.pc, review'.window)
  BY <1>1
<1>4. review'.pc = "idle" => Seated(ships, m, review'.pc, review'.window)
  BY DEF Seated
<1>5. CASE RunStep
  BY <1>5, EvalsRun DEF RunStep
<1>6. CASE TripwireStep
  BY <1>2, <1>3, <1>6, TripwireShaped DEF Quiet
<1>7. CASE QueuePoll
  BY <1>2, <1>3, <1>7, PollShaped DEF Quiet
<1>8. CASE DebtStep
  BY <1>2, <1>3, <1>8, DebtShaped DEF Quiet
<1>9. CASE FlowStep
  BY <1>2, <1>3, <1>9, FlowShaped DEF Quiet
<1>10. CASE EvalStep
  BY <1>10, EvalsEval
<1>11. CASE WorkflowRuns \/ ServiceReturns
  BY <1>2, <1>3, <1>11, WorldShaped
<1>12. CASE OperatorResolves
  BY <1>2, <1>3, <1>12, ResolveShaped DEF Quiet
<1>13. CASE StartHost
  BY <1>2, <1>4, <1>13, StartShaped DEF Reset
<1>14. CASE HostCrashes
  BY <1>2, <1>4, <1>14, CrashShaped DEF Reset
<1>15. CASE HostStops
  BY <1>2, <1>3, <1>15, StopShaped
<1>16. CASE ObserverStops
  BY <1>2, <1>3, <1>16, ObserverShaped
<1>17. CASE UNCHANGED obsVars
  BY <1>2, <1>3, <1>17 DEF obsVars
<1> QED
  BY <1>5, <1>6, <1>7, <1>8, <1>9, <1>10, <1>11, <1>12, <1>13, <1>14, <1>15, <1>16, <1>17 DEF ObsNext, HostStep


---------------------------------------------------------------------------
(* All of it together. *)
ToldInv == Shaped /\ Wire /\ Overruns /\ Workflows /\ Debts /\ Evals

LEMMA ShapedStep ==
  ASSUME Shaped, [ObsNext]_obsVars
  PROVE  Shaped'
<1>1. CASE RunStep
  BY <1>1, RunStepIs DEF RunStep
<1>2. CASE TripwireStep
  BY <1>2, TripwireShaped
<1>3. CASE QueuePoll
  BY <1>3, PollShaped
<1>4. CASE DebtStep
  BY <1>4, DebtShaped
<1>5. CASE FlowStep
  BY <1>5, FlowShaped
<1>6. CASE EvalStep
  BY <1>6, EvalShaped
<1>7. CASE WorkflowRuns \/ ServiceReturns
  BY <1>7, WorldShaped
<1>8. CASE OperatorResolves
  BY <1>8, ResolveShaped
<1>9. CASE StartHost
  BY <1>9, StartShaped
<1>10. CASE ObserverStops
  BY <1>10, ObserverShaped
<1>11. CASE HostCrashes
  BY <1>11, CrashShaped
<1>12. CASE HostStops
  BY <1>12, StopShaped
<1>13. CASE UNCHANGED obsVars
  BY <1>13 DEF obsVars, Shaped, ToldShape, DebtShape, FlowShape, ReviewShape, OutsideShape, UsedShape, HostShape, Running
<1> QED
  BY <1>1, <1>2, <1>3, <1>4, <1>5, <1>6, <1>7, <1>8, <1>9, <1>10, <1>11, <1>12, <1>13 DEF ObsNext, HostStep

LEMMA ToldInit ==
  ASSUME ObsInit
  PROVE  ToldInv
<1>1. /\ host = [up |-> "down", stopped |-> 0]
      /\ life = [r \in Watched |-> [st |-> "open", visit |-> 1, owes |-> FALSE, lost |-> FALSE]]
      /\ ships = <<>> /\ outside = [builds |-> <<>>, service |-> "down"] /\ chain = <<>>
      /\ told = [breaches |-> <<>>, overruns |-> <<>>, flow |-> <<>>, settled |-> <<>>, escapes |-> <<>>, reviews |-> <<>>]
      /\ debt = NoDebts /\ flow = NoFlow /\ review = NoReview
      /\ used = [beats |-> 0, resolves |-> 0, fails |-> 0, halts |-> 0]
  BY DEF ObsInit
<1>2. Shaped
  <2>1. ToldShape /\ OutsideShape /\ UsedShape /\ HostShape /\ chain \in Seq(Queueable)
    BY <1>1 DEF ToldShape, OutsideShape, UsedShape, HostShape, Running
  <2>2. DebtShape /\ FlowShape /\ ReviewShape
    BY <1>1 DEF DebtShape, IsDebt, NoDebts, FlowShape, NoFlow, ReviewShape, NoReview
  <2>3. life \in [Watched -> RunFacts]
    BY <1>1 DEF RunFacts
  <2> QED
    BY <2>1, <2>2, <2>3 DEF Shaped
<1>3. Wire
  BY <1>1 DEF Wire, OpenBreaches
<1>4. Overruns
  <2>1. told.overruns = <<>> /\ DOMAIN told.overruns = {} /\ DOMAIN chain = {}
    BY <1>1
  <2>2. Timely(chain, life, told.overruns, Running)
    BY <2>1 DEF Timely, BeatsCurrent, RecordsCurrent, EndsAreLost
  <2> QED
    BY <2>1, <2>2 DEF Overruns
<1>5. Workflows
  <2>1. told.flow = <<>> /\ DOMAIN told.flow = {} /\ outside.builds = <<>> /\ flow.pc = "idle"
    BY <1>1 DEF NoFlow
  <2> QED
    BY <2>1 DEF Workflows, Informed, RedsAreRed, RedsOnce, NewestRed, EndsRed, Reading
<1>6. Debts
  <2>1. /\ told.settled = <<>> /\ told.escapes = <<>> /\ DOMAIN told.settled = {} /\ DOMAIN told.escapes = {}
        /\ debt.pc = "idle" /\ debt.red = FALSE /\ debt.polls = 0 /\ used.halts = 0
    BY <1>1 DEF NoDebts
  <2>2. \A r : Tally(told.escapes, r) = 0
    <3>1. \A r : {i \in DOMAIN told.escapes : told.escapes[i] = r} = {}
      BY <2>1
    <3> QED
      BY <3>1, FS_EmptySet DEF Tally
  <2>3. Tallied(told.escapes, SettledIn(told.settled) \cup Escaped(debt.list, debt.pc, debt.red), 0)
    BY <2>2 DEF Tallied
  <2>4. Working(debt.list, debt.pc, debt.red, told.settled, told.escapes)
    <3>1. Escaped(debt.list, debt.pc, debt.red) = {}
      BY <2>1 DEF Escaped
    <3> QED
      BY <2>1, <3>1 DEF Working
  <2>5. Stamped(told.settled, told.escapes)
    BY <2>1 DEF Stamped
  <2>6. told.settled \in Seq(Settlements) /\ told.escapes \in Seq(Watched) /\ debt.red \in BOOLEAN
    <3>1. <<>> \in Seq(Settlements) /\ <<>> \in Seq(Watched)
      OBVIOUS
    <3> QED
      BY <2>1, <3>1
  <2>7. Proofs(debt.list, debt.pc, debt.red, told.settled, told.escapes, used.halts)
    <3>1. Tallied(told.escapes, SettledIn(told.settled) \cup Escaped(debt.list, debt.pc, debt.red), used.halts)
      BY <2>1, <2>3
    <3> QED
      BY <2>4, <2>5, <2>6, <3>1 DEF Proofs
  <2> QED
    BY <2>1, <2>7 DEF Debts, Resting
<1>7. Evals
  <2>1. /\ ships = <<>> /\ DOMAIN ships = {} /\ Len(ships) = 0 /\ told.reviews = <<>> /\ DOMAIN told.reviews = {}
        /\ review.pc = "idle"
    BY <1>1 DEF NoReview
  <2>2. Reviewed(ships, told.reviews, 0)
    BY <2>1 DEF Reviewed, Sailed, NamedApart, InOrder
  <2>3. Seated(ships, 0, review.pc, review.window) /\ Gone(ships)
    BY <2>1 DEF Seated, Gone
  <2> QED
    BY <2>2, <2>3 DEF Evals
<1> QED
  BY <1>2, <1>3, <1>4, <1>5, <1>6, <1>7 DEF ToldInv

LEMMA ToldStep ==
  ASSUME ToldInv, [ObsNext]_obsVars
  PROVE  ToldInv'
BY ShapedStep, WireStep, OverrunsStep, WorkflowsStep, DebtsStep, EvalsStep DEF ToldInv

LEMMA ToldOnce ==
  ASSUME ToldInv
  PROVE  EachThingIsToldOnce
<1>1. BreachOpensOnce
  <2>1. \A i, j \in OpenBreaches : i = j
    BY DEF ToldInv, Wire
  <2>2. CASE OpenBreaches = {}
    BY <2>2, FS_EmptySet DEF BreachOpensOnce
  <2>3. CASE OpenBreaches # {}
    <3>1. PICK i \in OpenBreaches : OpenBreaches = {i}
      BY <2>1, <2>3
    <3> QED
      BY <3>1, FS_Singleton DEF BreachOpensOnce
  <2> QED
    BY <2>2, <2>3
<1>2. RedsAreToldOnce
  BY DEF ToldInv, Workflows, Informed, RedsOnce, RedsAreToldOnce
<1>3. ShipsAreReviewedOnce
  <2>1. PICK m \in Nat : Reviewed(ships, told.reviews, m)
    BY DEF ToldInv, Evals
  <2>2. NamedApart(told.reviews) /\ InOrder(ships, told.reviews)
    BY <2>1 DEF Reviewed
  <2> QED
    BY <2>2 DEF ShipsAreReviewedOnce, NamedApart, InOrder
<1>4. OverrunsAreCurrent
  <2>1. RecordsCurrent(chain, life, told.overruns, 0)
    BY DEF ToldInv, Overruns, Timely
  <2>2. SUFFICES ASSUME NEW r \in Watched, NEW i \in Standing(r)
                 PROVE  \/ life[r].st # "closed" /\ told.overruns[i].stage = life[r].visit
                        \/ \E k \in DOMAIN chain : chain[k].run = r /\ Ending(chain[k])
                        \/ life[r].lost
    BY DEF OverrunsAreCurrent
  <2>3. i \in DOMAIN told.overruns /\ told.overruns[i].run = r /\ told.overruns[i].open
    BY <2>2 DEF Standing
  <2> QED
    BY <2>1, <2>3 DEF RecordsCurrent, Current, Stands, EndsBehind
<1>5. RedProofsEscape
  <2>1. /\ Stamped(told.settled, told.escapes) /\ told.escapes \in Seq(Watched)
        /\ \A r \in Watched : Tally(told.escapes, r) <= used.halts + 1
    BY DEF ToldInv, Debts, Proofs, Tallied
  <2>2. used.halts + 1 = 1 + used.halts
    BY DEF ToldInv, Shaped, UsedShape
  <2> QED
    BY <2>1, <2>2 DEF RedProofsEscape, Stamped, Tally
<1> QED
  BY <1>1, <1>2, <1>3, <1>4, <1>5 DEF EachThingIsToldOnce

(* What the observers tell they tell once, and it is so, whatever their awaits      *)
(* interleave with and wherever a stop or a crash falls: a breach of the wire, a     *)
(* red run of the workflow, the review of a ship, a record of a stage's duration,    *)
(* an escape of a failed proof (src/tripwires/watcher.mjs, src/ship/workflows.mjs,    *)
(* src/lanes/proofdebt.mjs, src/eval/review.mjs).                                    *)
THEOREM EverythingIsToldOnce == ObsSpec => []EachThingIsToldOnce
<1>1. ObsInit => ToldInv
  BY ToldInit
<1>2. ToldInv /\ [ObsNext]_obsVars => ToldInv'
  BY ToldStep
<1>3. ToldInv => EachThingIsToldOnce
  BY ToldOnce
<1> QED
  BY <1>1, <1>2, <1>3, PTL DEF ObsSpec

===============================================================================
