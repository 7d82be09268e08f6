-------------------------- MODULE TelemetryStore --------------------------
(***************************************************************************)
(* The append-only ledgers (ledger/ledger.mjs) and the queued stream over     *)
(* them (telemetry/stores.mjs, streams.mjs, queue.mjs): the one state of the *)
(* daemon that outlives it.  An append of a queued event writes its pointer   *)
(* to the index and then its line to the ledger, and a crash may come        *)
(* between the two or inside either.  Readers are other processes: they read  *)
(* the files at every instant.                                               *)
(***************************************************************************)
EXTENDS Integers, Sequences, FiniteSets

CONSTANTS
  Ledgers, RunLedgers,  \* the ledgers, and those of runs
  LedgerTears,          \* what a crash may leave of a ledger line: see Torn
  MaxSeq, MaxCrashes    \* bounds: records of a ledger, crashes

VARIABLES
  up,        \* the daemon runs
  file,      \* each ledger's file
  index,     \* the file of the queued stream
  lastSeq,   \* the last seq of each store, in memory
  closed,    \* the run ledgers no store is open on: not launched yet, or over
  pen,       \* the line an append is about to commit: at most one, on one thread
  committed, \* every record an append answered with
  crashes    \* how many crashes there were

vars == <<up, file, index, lastSeq, closed, pen, committed, crashes>>

(* An "item" is a queued event that takes a resolution, as a tripwire breach   *)
(* or a stage overrun; a "plain" event is every other.                        *)
Events == {"park", "answer", "item", "resolved", "run-closed", "plain"}

Queued == {"park", "item"}

Seqs == UNION {1..MaxSeq[l] : l \in Ledgers}
Records == [seq : Seqs, event : Events, ref : Seqs \cup {0}]
Pointers == [ledger : Ledgers, seq : Seqs, event : Events]
Nothing == [at |-> "idle"]

ASSUME StoreAssumption ==
  /\ RunLedgers \subseteq Ledgers /\ LedgerTears \subseteq {"part", "line"}
  /\ MaxSeq \in [Ledgers -> Nat] /\ MaxCrashes \in Nat

---------------------------------------------------------------------------
(* A file: its lines, and whether the last one wants its newline.  A line     *)
(* holds the whole records that were written to it; it is torn when part of   *)
(* another is in it too.  It parses when it is one record and nothing else.   *)

Lines(R) == [torn : BOOLEAN, recs : Seq(R)]
Files(R) == [lines : Seq(Lines(R)), open : BOOLEAN]
Empty == [lines |-> <<>>, open |-> FALSE]

Whole(r) == [torn |-> FALSE, recs |-> <<r>>]
Part == [torn |-> TRUE, recs |-> <<>>]

(* What a crash leaves of a write of r: a part of it, or all but the newline. *)
Torn(r, tear) == IF tear = "line" THEN Whole(r) ELSE Part

Parses(x) == ~x.torn /\ Len(x.recs) = 1
Last(f) == f.lines[Len(f.lines)]

Put(f, x, open) ==
  [lines |-> IF f.open
             THEN [f.lines EXCEPT ![Len(f.lines)] =
                     [torn |-> @.torn \/ x.torn, recs |-> @.recs \o x.recs]]
             ELSE Append(f.lines, x),
   open |-> open]

Write(f, r) == Put(f, Whole(r), FALSE)
Tear(f, r, tear) == Put(f, Torn(r, tear), TRUE)

Readable(f) == {f.lines[i].recs[1] : i \in {j \in 1..Len(f.lines) : Parses(f.lines[j])}}

(* Seeded bug: a last line always goes. *)
RepairWholeLine(f) ==
  [lines |-> SubSeq(f.lines, 1, Len(f.lines) - 1), open |-> FALSE]

(* A partial last line is truncated away.  One that wants only its newline is  *)
(* kept, and the newline is written nowhere.                                  *)
Repair(f) ==
  IF f.open /\ ~Parses(Last(f))
  THEN [lines |-> SubSeq(f.lines, 1, Len(f.lines) - 1), open |-> FALSE] ELSE f

(* A file whose last line does not parse even then is refused with a throw. *)
Opens(f) == Repair(f).lines # <<>> => Parses(Last(Repair(f)))

(* Seeded bug: a seq that restarts behind a repair. *)
TailSeqRestarts(f) ==
  IF Repair(f).lines = <<>> \/ Repair(f) # f THEN 0 ELSE Last(Repair(f)).recs[1].seq
TailSeq(f) == IF Repair(f).lines = <<>> THEN 0 ELSE Last(Repair(f)).recs[1].seq

---------------------------------------------------------------------------
(* What the readers derive. *)

Of(l) == Readable(file[l])
Settles(q, e, r) == q.event = e /\ q.ref = r.seq
IsOpen(l, r) ==
  IF r.event = "park"
  THEN \A q \in Of(l) : ~Settles(q, "answer", r) /\ q.event # "run-closed"
  ELSE \A q \in Of(l) : ~Settles(q, "resolved", r)

(* The escalation queue joins each pointer to the record at its seq.  *)
QueueItems ==
  UNION {{<<p, r>> : r \in {q \in Of(p.ledger) : q.seq = p.seq /\ IsOpen(p.ledger, q)}}
           : p \in Readable(index)}

---------------------------------------------------------------------------
(* The two steps of an append: compose and the pointer, then the commit. *)

Line(l, e, ref) == [seq |-> lastSeq[l] + 1, event |-> e, ref |-> ref]
PointerTo(l, r) == [ledger |-> l, seq |-> r.seq, event |-> r.event]

Pointed(l, r) == index' = IF r.event \in Queued THEN Write(index, PointerTo(l, r)) ELSE index
Taken(l, r) == pen' = [at |-> "commit", ledger |-> l, rec |-> r]

(* What a caller may append: a run holds one open park, nothing follows a       *)
(* close, an answer or a resolution names an item that is open.                *)
MayAppend(l, e, ref) ==
  CASE e = "park" -> ref = 0 /\ l \in RunLedgers /\ \A r \in Of(l) : r.event = "park" => ~IsOpen(l, r)
    [] e = "run-closed" -> ref = 0 /\ l \in RunLedgers
    [] e \in {"item", "plain"} -> ref = 0
    [] e = "answer" -> \E r \in Of(l) : r.seq = ref /\ r.event = "park" /\ IsOpen(l, r)
    [] e = "resolved" -> \E r \in Of(l) : r.seq = ref /\ r.event = "item" /\ IsOpen(l, r)

Ready(l) == up /\ pen = Nothing /\ lastSeq[l] < MaxSeq[l]

Launch(l) == \* the store of a new run, and its first line
  /\ Ready(l) /\ l \in closed /\ file[l] = Empty
  /\ closed' = closed \ {l} /\ Taken(l, Line(l, "plain", 0))
  /\ UNCHANGED <<up, file, index, lastSeq, committed, crashes>>

Begin(l, e, ref) == \* TelemetryStore.append, up to the commit
  /\ Ready(l) /\ l \notin closed /\ MayAppend(l, e, ref)
  /\ Pointed(l, Line(l, e, ref)) /\ Taken(l, Line(l, e, ref))
  /\ UNCHANGED <<up, file, lastSeq, closed, committed, crashes>>

ResolveClosed(l, ref) == \* a store of its own, over the file of a run that closed
  /\ up /\ pen = Nothing /\ l \in closed /\ Opens(file[l]) /\ MayAppend(l, "resolved", ref)
  /\ TailSeq(file[l]) < MaxSeq[l]
  /\ file' = [file EXCEPT ![l] = Repair(@)] /\ lastSeq' = [lastSeq EXCEPT ![l] = TailSeq(file[l])]
  /\ Taken(l, [seq |-> TailSeq(file[l]) + 1, event |-> "resolved", ref |-> ref])
  /\ UNCHANGED <<up, index, closed, committed, crashes>>

Commit(l, r) ==
  /\ up /\ pen = [at |-> "commit", ledger |-> l, rec |-> r]
  /\ file' = [file EXCEPT ![l] = Write(@, r)]
  /\ lastSeq' = [lastSeq EXCEPT ![l] = r.seq] /\ committed' = committed \cup {<<l, r>>}
  /\ closed' = IF r.event = "run-closed" THEN closed \cup {l} ELSE closed
  /\ pen' = Nothing /\ UNCHANGED <<up, index, crashes>>

---------------------------------------------------------------------------
(* A crash: between the steps, inside the pointer's write, inside the line's. *)

Down == up /\ crashes < MaxCrashes /\ up' = FALSE /\ crashes' = crashes + 1 /\ pen' = Nothing

Crash == Down /\ UNCHANGED <<file, index, lastSeq, closed, committed>>

CrashInPointer(l, e, ref, tear) ==
  /\ Ready(l) /\ l \notin closed /\ MayAppend(l, e, ref) /\ e \in Queued /\ Down
  /\ index' = Tear(index, PointerTo(l, Line(l, e, ref)), tear)
  /\ UNCHANGED <<file, lastSeq, closed, committed>>

CrashInCommit(l, r, tear) ==
  /\ pen = [at |-> "commit", ledger |-> l, rec |-> r] /\ Down
  /\ file' = [file EXCEPT ![l] = Tear(@, r, tear)]
  /\ UNCHANGED <<index, lastSeq, closed, committed>>

(* A start opens the stores that are not a closed run's, nor of a run whose    *)
(* launch never got a line; one file that is refused is a daemon that does not *)
(* start.                                                                     *)
Idle(l) == l \in RunLedgers /\ (Of(l) = {} \/ \E r \in Of(l) : r.event = "run-closed")
Start ==
  /\ ~up /\ \A l \in Ledgers : Idle(l) \/ Opens(file[l])
  /\ up' = TRUE /\ closed' = {l \in Ledgers : Idle(l)}
  /\ file' = [l \in Ledgers |-> IF Idle(l) THEN file[l] ELSE Repair(file[l])]
  /\ lastSeq' = [l \in Ledgers |-> IF Idle(l) THEN lastSeq[l] ELSE TailSeq(file[l])]
  /\ UNCHANGED <<index, pen, committed, crashes>>

---------------------------------------------------------------------------
Init ==
  /\ up = TRUE /\ closed = RunLedgers /\ pen = Nothing /\ committed = {} /\ crashes = 0
  /\ file = [l \in Ledgers |-> Empty] /\ index = Empty
  /\ lastSeq = [l \in Ledgers |-> 0]

Appends(l) ==
  \E e \in Events : \E ref \in 0..MaxSeq[l] :
    \/ Begin(l, e, ref)
    \/ \E tear \in {"part", "line"} : CrashInPointer(l, e, ref, tear)

Commits(l) ==
  /\ pen # Nothing
  /\ \/ Commit(l, pen.rec)
     \/ \E tear \in LedgerTears : CrashInCommit(l, pen.rec, tear)

Next ==
  \/ \E l \in Ledgers :
       Launch(l) \/ Appends(l) \/ Commits(l) \/ \E ref \in 1..MaxSeq[l] : ResolveClosed(l, ref)
  \/ Crash \/ Start

Spec == Init /\ [][Next]_vars

---------------------------------------------------------------------------
(* Every variable has its type. *)
TypeOK ==
  /\ up \in BOOLEAN /\ closed \subseteq RunLedgers /\ crashes \in 0..MaxCrashes
  /\ file \in [Ledgers -> Files(Records)] /\ index \in Files(Pointers)
  /\ lastSeq \in [Ledgers -> Seqs \cup {0}]
  /\ pen \in {Nothing} \cup [at : {"commit"}, ledger : Ledgers, rec : Records]
  /\ committed \subseteq Ledgers \X Records

(* A record an append answered with is in the file for good: no crash, no       *)
(* repair and no later append takes it away (ledger.mjs, commit, repairTail).   *)
CommittedStaysReadable == \A x \in committed : x[2] \in Of(x[1])

(* A crash never leaves a ledger that a start refuses (ledger.mjs, repairTail). *)
EveryLedgerOpens == \A l \in Ledgers : Opens(file[l])

(* At every instant the queue shows an operator what is open and nothing else,  *)
(* but for what crashes did: each hides at most one item behind a torn pointer, *)
(* or leaves at most one pointer to a record that is another (stores.mjs,       *)
(* append; queue.mjs).  The index is never repaired.                           *)
Owed ==
  UNION {{<<PointerTo(l, r), r>> : r \in {q \in Of(l) :
            q.event \in {"park", "item"} /\ IsOpen(l, q)}} : l \in Ledgers}
ACrashCostsOneEntry ==
  Cardinality(Owed \ QueueItems) + Cardinality(QueueItems \ Owed) <= crashes

(* What crashes cost in all: no record an append answered with, no ledger, and *)
(* one entry of the queue each.                                               *)
CrashesCostEntriesOnly == CommittedStaysReadable /\ EveryLedgerOpens /\ ACrashCostsOneEntry

Log == INSTANCE DurableLog WITH log <- [l \in Ledgers |-> Of(l)]

(* The files of the ledgers implement a log that only grows. *)
BehavesAsALog == Log!Spec
===========================================================================
