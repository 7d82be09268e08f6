---------------------------- MODULE RecordBirth ----------------------------
(* The records stage (src/lanes/records-stage.mjs): before any code exists,  *)
(* one author seat writes the records a story or a ticket decides, and the   *)
(* stage commits and stamps them.  On the records lane this is the work, so  *)
(* the lane reads its ticket first and closes where nothing was decided.     *)
EXTENDS LaneLedger

CONSTANT Records     \* the decision records

VARIABLE tree        \* the record tree of the run branch

birthVars == <<ledgerVars, tree>>

(* text: the version of each record; window: what the run changed; body: the *)
(* records named by a commit of the write round that stands; dirty: a seat's *)
(* edits no commit holds; mode: a lane of code, the records lane, or a       *)
(* project whose gates.reconcile is advisory.                                *)
TreeAtLaunch(mode) ==
    [mode |-> mode, text |-> [r \in Records |-> 0], closed |-> {}, window |-> {}, body |-> {}, dirty |-> {}]

Author == "record-author"
LastReport(seat) == Newest(Seqs("seat-report", seat))

(* --- readiness of the records lane --------------------------------------- *)

(* The fenced block of the ticket names no path, records, code, or both.     *)
Tickets == {"missing", "undeclared", "records", "code", "mixed"}
Admitted(ticket) == ticket \in {"undeclared", "records"}
Ready == tree.mode = "records" => SeqsOf("records-entered") # {}

Readiness ==
    /\ Enters /\ ~Ready
    /\ \E ticket \in Tickets :
          IF Admitted(ticket) THEN StampAndGo(Event("records-entered", "", ""), at)
          ELSE Go(Blocked(IF ticket = "missing" THEN "ticket-missing" ELSE "lane-mismatch"))
    /\ UNCHANGED tree

(* --- the birth ----------------------------------------------------------- *)

RecordsCommitted(of, paths) == [e |-> "records-committed", of |-> of, paths |-> paths]
Committed == Newest(SeqsOf("records-committed"))
Born == IF Committed = 0 THEN {} ELSE led[Committed].paths

(* Seeded bug: a spawn with a report is a spawn like another. *)
RecordsStepBySpawn == IF Committed > 0 THEN "done" ELSE "dispatch"
RecordsStep ==
    IF Committed > 0 THEN "done"
    ELSE IF LastReport(Author) > Newest(Seqs("seat-spawned", Author)) THEN "commit" ELSE "dispatch"

(* A project with no record tree decides nothing, and spends no seat on it.  *)
BirthRecords ==
    /\ Enters /\ Ready /\ RecordsStep # "done"
    /\ IF Records = {} THEN StampAndGo(RecordsCommitted("none", {}), at)
       ELSE Go(Pc(IF RecordsStep = "commit" THEN "checks" ELSE "install"))
    /\ UNCHANGED tree

(* What the record gate needs runs once, before the seat that is told of it. *)
InstallGateNeeds ==
    /\ at.pc = "install"
    /\ \/ SeqsOf("gate-needs") # {} /\ Go(Pc("reset"))
       \/ SeqsOf("gate-needs") = {} /\ StampAndGo(Event("gate-needs", "", ""), Pc("reset"))
       \/ SeqsOf("gate-needs") = {} /\ Go(CommandError("gate-command"))
    /\ UNCHANGED tree

ResetTree == /\ at.pc = "reset"
             /\ tree' = [tree EXCEPT !.dirty = {}]
             /\ Go(Seat(Author))

AuthorAtWork == at.pc = "out" /\ at.seat = Author
(* A report may leave out a record the seat closed beside its own.           *)
AuthorReports ==
    /\ AuthorAtWork
    /\ \E wrote \in SUBSET Records : \E named \in {{}, wrote} :
          /\ StampAndGo([e |-> "seat-report", of |-> Author, why |-> "", names |-> named], Pc("checks"))
          /\ tree' = [tree EXCEPT !.dirty = wrote]

(* A seat that delivers nothing parks the records lane; the other lanes go   *)
(* on, and their judge names the records late.                               *)
AuthorFails ==
    /\ AuthorAtWork
    /\ \E wrote \in SUBSET Records : tree' = [tree EXCEPT !.dirty = wrote]
    /\ IF tree.mode = "records" THEN NoReport
       ELSE StampAndGo(Event("seat-failure", Author, "no-report"), Pc("failed"))
BirthFailed == /\ at.pc = "failed"
               /\ StampAndGo(RecordsCommitted("failed", {}), Pc("enter"))
               /\ UNCHANGED tree

(* What a report names and the tree does not hold is dropped from it.        *)
Named(report) == led[report].names \cap tree.dirty
CommitRecords ==
    /\ at.pc = "checks"
    /\ tree' = [tree EXCEPT !.dirty = {}, !.window = @ \union tree.dirty,
                            !.text = [r \in Records |-> IF r \in tree.dirty THEN tree.text[r] + 1 ELSE tree.text[r]]]
    /\ Go([pc |-> "born", paths |-> Named(LastReport(Author)) \union tree.dirty])
StampBorn == /\ at.pc = "born"
             /\ StampAndGo(RecordsCommitted("", at.paths), Pc("enter"))
             /\ UNCHANGED tree

(* A records lane that decided nothing has no work.                          *)
NothingBorn == tree.mode = "records" /\ Committed > 0 /\ Born = {}
CloseNothingBorn == /\ Enters /\ NothingBorn
                    /\ Go(Pc("closed"))
                    /\ UNCHANGED tree

BirthStep ==
    \/ Readiness \/ BirthRecords \/ InstallGateNeeds \/ ResetTree
    \/ AuthorReports \/ AuthorFails \/ BirthFailed \/ CommitRecords \/ StampBorn \/ CloseNothingBorn
    \/ (RefreshForRetry \/ (at.pc = "dispatch" /\ at.seat = Author /\ Dispatch)) /\ UNCHANGED tree

(* --- what must hold ------------------------------------------------------ *)

(* The author is dispatched over the branch as the stage found it: never     *)
(* over a birth that is committed, nor over what a dead seat left behind     *)
(* (ADR-0070, records-stage.mjs:452).                                        *)
AuthorStartsClean ==
    at.pc \in {"dispatch", "out"} /\ at.seat = Author => tree.dirty = {} /\ tree.window = {}

(* What the birth committed is what its stamp names, where the reconcile     *)
(* stage and the records lane read it.  It fails where a stop fell between   *)
(* the commit and the stamp: the report is read again over a clean tree.     *)
BirthIsStamped == Committed > 0 /\ SeqsOf("reconciliation-judged") = {} => Born = tree.window
=============================================================================
