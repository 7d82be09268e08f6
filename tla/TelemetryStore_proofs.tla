------------------------ MODULE TelemetryStore_proofs ------------------------
(***************************************************************************)
(* What the ledgers keep for any number of runs, any length and any number   *)
(* of crashes, where a crash leaves a part of a line and never the whole of   *)
(* it without its newline.  CommittedStaysReadable is not inductive as it    *)
(* stands: the next commit would ruin the last record if it went behind a     *)
(* torn line, and the numbering would if a store's last seq were not the      *)
(* length of its file.  Sound and Kept say that neither comes about.  Nor is   *)
(* ACrashCostsOneEntry: an entry that goes behind a torn pointer is lost long  *)
(* after the crash that tore it.  Balanced counts the tear until then.        *)
(***************************************************************************)
EXTENDS TelemetryStore, TLAPS, SequenceTheorems, FiniteSetTheorems

OnlyParts == LedgerTears \subseteq {"part"}

(* A file of whole records, each under its own number, with at most a torn    *)
(* part of one behind them.                                                  *)
HoldsItsOwn(f, i) == Parses(f.lines[i]) /\ f.lines[i].recs[1].seq = i
Sound(f) ==
  /\ f \in Files(Records)
  /\ f.open => f.lines # <<>> /\ Last(f).torn
  /\ \A i \in 1..Len(f.lines) : (f.open /\ i = Len(f.lines)) \/ HoldsItsOwn(f, i)

Clean(f) == Sound(f) /\ ~f.open

---------------------------------------------------------------------------
(* The operations on a file. *)

(* A line more: the ones before it are what they were. *)
LEMMA OneMoreLine ==
  ASSUME NEW R, NEW s \in Seq(Lines(R)), NEW x \in Lines(R), NEW o \in BOOLEAN
  PROVE  /\ [lines |-> Append(s, x), open |-> o] \in Files(R)
         /\ Len(Append(s, x)) = Len(s) + 1 /\ Append(s, x)[Len(s) + 1] = x
         /\ \A i \in 1..Len(s) : Append(s, x)[i] = s[i]
<1>1. /\ Append(s, x) \in Seq(Lines(R)) /\ Len(Append(s, x)) = Len(s) + 1
      /\ Append(s, x)[Len(s) + 1] = x /\ \A i \in 1..Len(s) : Append(s, x)[i] = s[i]
  BY AppendProperties
<1> QED
  BY <1>1 DEF Files

LEMMA WriteIsSound ==
  ASSUME NEW f, Clean(f), NEW r \in Records, r.seq = Len(f.lines) + 1
  PROVE  /\ Clean(Write(f, r)) /\ Len(Write(f, r).lines) = r.seq
         /\ Readable(Write(f, r)) = Readable(f) \cup {r}
<1> DEFINE n == Len(f.lines)  g == Write(f, r)
<1>1. f.lines \in Seq(Lines(Records)) /\ n \in Nat /\ ~f.open
  BY DEF Clean, Sound, Files
<1>2. Whole(r) \in Lines(Records) /\ Parses(Whole(r)) /\ Whole(r).recs[1] = r
  BY DEF Whole, Lines, Parses
<1>3. g = [lines |-> Append(f.lines, Whole(r)), open |-> FALSE]
  BY <1>1 DEF Write, Put
<1> HIDE DEF g
<1>4. /\ g \in Files(Records) /\ Len(g.lines) = n + 1 /\ g.lines[n + 1] = Whole(r)
      /\ \A i \in 1..n : g.lines[i] = f.lines[i]
  <2>1. g.lines = Append(f.lines, Whole(r))
    BY <1>3
  <2>2. g \in Files(Records)
    BY <1>1, <1>2, <1>3, OneMoreLine
  <2>3. /\ Len(g.lines) = n + 1 /\ g.lines[n + 1] = Whole(r)
        /\ \A i \in 1..n : g.lines[i] = f.lines[i]
    BY <1>1, <1>2, <2>1, OneMoreLine
  <2> QED
    BY <2>2, <2>3
<1>5. \A i \in 1..(n + 1) : HoldsItsOwn(g, i)
  <2> TAKE i \in 1..(n + 1)
  <2>1. CASE i = n + 1
    BY <2>1, <1>2, <1>4 DEF HoldsItsOwn
  <2>2. CASE i \in 1..n
    BY <2>2, <1>4 DEF HoldsItsOwn, Clean, Sound
  <2> QED
    BY <2>1, <2>2, <1>1
<1>6. Readable(g) = Readable(f) \cup {r}
  <2>1. \A i \in 1..n : Parses(g.lines[i]) <=> Parses(f.lines[i])
    BY <1>4
  <2>2. ASSUME NEW x \in Readable(g) PROVE x \in Readable(f) \cup {r}
    <3>1. PICK i \in 1..(n + 1) : Parses(g.lines[i]) /\ x = g.lines[i].recs[1]
      BY <2>2, <1>4 DEF Readable
    <3>2. CASE i = n + 1
      BY <3>1, <3>2, <1>2, <1>4
    <3>3. CASE i \in 1..n
      BY <3>1, <3>3, <1>4, <2>1 DEF Readable
    <3> QED
      BY <3>2, <3>3, <1>1
  <2>3. Readable(f) \subseteq Readable(g)
    BY <1>1, <1>4, <2>1 DEF Readable
  <2>4. r \in Readable(g)
    BY <1>1, <1>2, <1>4 DEF Readable
  <2> QED
    BY <2>2, <2>3, <2>4
<1>7. Clean(g) /\ Len(g.lines) = r.seq
  <2>1. ~g.open
    BY <1>3
  <2> QED
    BY <1>4, <1>5, <2>1 DEF Clean, Sound
<1> QED
  BY <1>6, <1>7 DEF g

LEMMA TearIsSound ==
  ASSUME NEW f, Clean(f), NEW r
  PROVE  /\ Sound(Tear(f, r, "part")) /\ Tear(f, r, "part").lines # <<>>
         /\ Readable(Tear(f, r, "part")) = Readable(f)
<1> DEFINE n == Len(f.lines)  g == Tear(f, r, "part")
<1>1. f.lines \in Seq(Lines(Records)) /\ n \in Nat /\ ~f.open
  BY DEF Clean, Sound, Files
<1>2. Part \in Lines(Records) /\ ~Parses(Part) /\ Part.torn
  BY DEF Part, Lines, Parses
<1>3. g = [lines |-> Append(f.lines, Part), open |-> TRUE]
  BY <1>1 DEF Tear, Torn, Put
<1> HIDE DEF g
<1>4. /\ g \in Files(Records) /\ Len(g.lines) = n + 1 /\ g.lines[n + 1] = Part /\ g.open
      /\ \A i \in 1..n : g.lines[i] = f.lines[i]
  <2>1. g.lines = Append(f.lines, Part) /\ g.open
    BY <1>3
  <2>2. g \in Files(Records)
    BY <1>1, <1>2, <1>3, OneMoreLine
  <2>3. /\ Len(g.lines) = n + 1 /\ g.lines[n + 1] = Part
        /\ \A i \in 1..n : g.lines[i] = f.lines[i]
    BY <1>1, <1>2, <2>1, OneMoreLine
  <2> QED
    BY <2>1, <2>2, <2>3
<1>5. \A i \in 1..(n + 1) : i = n + 1 \/ HoldsItsOwn(g, i)
  <2> TAKE i \in 1..(n + 1)
  <2>1. CASE i \in 1..n
    BY <2>1, <1>4 DEF HoldsItsOwn, Clean, Sound
  <2> QED
    BY <2>1, <1>1
<1>6. Readable(g) = Readable(f)
  <2>1. {j \in 1..(n + 1) : Parses(g.lines[j])} = {j \in 1..n : Parses(f.lines[j])}
    BY <1>1, <1>2, <1>4
  <2> QED
    BY <1>4, <2>1 DEF Readable
<1>7. Sound(g) /\ g.lines # <<>>
  <2>1. g.lines # <<>>
    BY <1>1, <1>4
  <2> QED
    BY <1>1, <1>2, <1>4, <1>5, <2>1 DEF Sound, Last
<1> QED
  BY <1>6, <1>7 DEF g

(* The part goes, every record stays, and the last seq is how many there are. *)
LEMMA RepairIsClean ==
  ASSUME NEW f, Sound(f)
  PROVE  /\ Clean(Repair(f)) /\ Readable(Repair(f)) = Readable(f) /\ Opens(f)
         /\ TailSeq(f) = Len(Repair(f).lines)
<1> DEFINE n == Len(f.lines)  g == Repair(f)  m == Len(g.lines)
<1>1. f.lines \in Seq(Lines(Records)) /\ n \in Nat /\ f \in Files(Records)
  BY DEF Sound, Files
<1>2. Clean(g) /\ Readable(g) = Readable(f)
  <2>1. CASE ~f.open
    BY <2>1 DEF Repair, Clean
  <2>2. CASE f.open
    <3>1. n > 0 /\ ~Parses(f.lines[n])
      BY <2>2, <1>1 DEF Sound, Last, Parses
    <3>2. g = [lines |-> SubSeq(f.lines, 1, n - 1), open |-> FALSE]
      BY <2>2, <3>1 DEF Repair, Last
    <3> DEFINE rest == SubSeq(f.lines, 1, n - 1)
    <3>a. /\ rest \in Seq(Lines(Records)) /\ Len(rest) = n - 1
          /\ \A i \in 1..(n - 1) : rest[i] = f.lines[i]
      BY <1>1, <3>1, SubSeqProperties
    <3> HIDE DEF rest, g
    <3>3. /\ g \in Files(Records) /\ m = n - 1 /\ ~g.open
          /\ \A i \in 1..(n - 1) : g.lines[i] = f.lines[i]
      BY <3>2, <3>a DEF Files, rest
    <3>4. \A i \in 1..(n - 1) : HoldsItsOwn(g, i)
      BY <1>1, <3>1, <3>3 DEF HoldsItsOwn, Sound
    <3>5. {j \in 1..m : Parses(g.lines[j])} = {j \in 1..n : Parses(f.lines[j])}
      BY <1>1, <3>1, <3>3
    <3>6. Readable(g) = Readable(f)
      BY <3>3, <3>5, <1>1 DEF Readable
    <3> QED
      BY <3>3, <3>4, <3>6 DEF Clean, Sound
  <2> QED
    BY <2>1, <2>2
<1>3. g.lines # <<>> => Parses(Last(g)) /\ Last(g).recs[1].seq = m
  <2> SUFFICES ASSUME g.lines # <<>> PROVE HoldsItsOwn(g, m)
    BY DEF HoldsItsOwn, Last
  <2>1. m \in Nat /\ m > 0
    BY <1>2 DEF Clean, Sound, Files
  <2> QED
    BY <1>2, <2>1 DEF Clean, Sound
<1>4. g.lines = <<>> => m = 0
  OBVIOUS
<1> QED
  BY <1>2, <1>3, <1>4 DEF Opens, TailSeq

---------------------------------------------------------------------------
(* The invariant: a store that is open counts the lines of its file, and the  *)
(* line an append is about to commit goes behind a file that is whole.        *)
FilesSound == \A l \in Ledgers : Sound(file[l])
NothingCounted == \A l \in Ledgers : file[l].lines = <<>> => lastSeq[l] = 0
StoresCount ==
  up => \A l \in Ledgers \ closed : ~file[l].open /\ lastSeq[l] = Len(file[l].lines)
PenBehindWhole ==
  pen # Nothing =>
    /\ up /\ ~file[pen.ledger].open
    /\ pen.rec.seq = Len(file[pen.ledger].lines) + 1
    /\ pen.rec.event = "run-closed" => pen.ledger \in RunLedgers
Kept ==
  /\ TypeOK /\ FilesSound /\ NothingCounted /\ StoresCount /\ PenBehindWhole
  /\ CommittedStaysReadable

LEMMA InitKept == Init => Kept
<1> SUFFICES ASSUME Init PROVE Kept
  OBVIOUS
<1>1. Empty \in Files(Records) /\ Empty \in Files(Pointers)
  BY DEF Empty, Files
<1>2. Sound(Empty) /\ Len(Empty.lines) = 0 /\ ~Empty.open
  BY <1>1 DEF Sound, Empty
<1>3. TypeOK
  BY <1>1, StoreAssumption DEF Init, TypeOK
<1>4. FilesSound /\ NothingCounted /\ StoresCount /\ PenBehindWhole
  BY <1>2 DEF Init, FilesSound, NothingCounted, StoresCount, PenBehindWhole
<1>5. CommittedStaysReadable
  BY DEF Init, CommittedStaysReadable
<1> QED
  BY <1>3, <1>4, <1>5 DEF Kept

---------------------------------------------------------------------------
(* What the steps write has its type. *)

LEMMA LineTyping ==
  ASSUME TypeOK, NEW l \in Ledgers, lastSeq[l] < MaxSeq[l], NEW e \in Events,
         NEW ref \in 0..MaxSeq[l]
  PROVE  /\ Line(l, e, ref) \in Records /\ Line(l, e, ref).seq = lastSeq[l] + 1
         /\ PointerTo(l, Line(l, e, ref)) \in Pointers
<1>1. lastSeq[l] + 1 \in 1..MaxSeq[l]
  BY StoreAssumption DEF TypeOK, Seqs
<1>2. lastSeq[l] + 1 \in Seqs /\ ref \in Seqs \cup {0}
  BY <1>1, StoreAssumption DEF Seqs
<1> QED
  BY <1>2 DEF Line, PointerTo, Records, Pointers

(* The index takes what a crash left of it, and what is written behind that.   *)
LEMMA PutTyping ==
  ASSUME NEW R, NEW f \in Files(R), NEW x \in Lines(R), NEW o \in BOOLEAN
  PROVE  Put(f, x, o) \in Files(R)
<1> DEFINE n == Len(f.lines)
<1>1. f.lines \in Seq(Lines(R)) /\ n \in Nat
  BY DEF Files
<1>2. CASE ~f.open
  BY <1>1, <1>2, OneMoreLine DEF Put
<1>3. CASE f.open
  <2> DEFINE a == f.lines[n]
             y == [torn |-> a.torn \/ x.torn, recs |-> a.recs \o x.recs]
             s == [f.lines EXCEPT ![n] = y]
  <2>1. s \in Seq(Lines(R))
    <3>1. CASE n \in 1..n
      <4>1. a \in Lines(R)
        BY <1>1, <3>1
      <4>2. a.recs \o x.recs \in Seq(R)
        BY <4>1, ConcatProperties DEF Lines
      <4>3. y \in Lines(R)
        BY <4>1, <4>2 DEF Lines
      <4> HIDE DEF y
      <4> QED
        BY <1>1, <3>1, <4>3, ExceptSeq
    <3>2. CASE n \notin 1..n
      <4>1. s = f.lines
        BY <1>1, <3>2
      <4> QED
        BY <1>1, <4>1
    <3> QED
      BY <3>1, <3>2
  <2>2. Put(f, x, o) = [lines |-> s, open |-> o]
    BY <1>3 DEF Put
  <2> HIDE DEF s
  <2> QED
    BY <2>1, <2>2 DEF Files
<1> QED
  BY <1>2, <1>3

LEMMA IndexTyping ==
  ASSUME TypeOK, NEW p \in Pointers
  PROVE  /\ Write(index, p) \in Files(Pointers)
         /\ \A tear \in {"part", "line"} : Tear(index, p, tear) \in Files(Pointers)
<1>1. Whole(p) \in Lines(Pointers) /\ Part \in Lines(Pointers)
  BY DEF Whole, Part, Lines
<1>2. index \in Files(Pointers)
  BY DEF TypeOK
<1>3. \A tear \in {"part", "line"} : Torn(p, tear) \in Lines(Pointers)
  BY <1>1 DEF Torn
<1> QED
  BY <1>1, <1>2, <1>3, PutTyping DEF Write, Tear

---------------------------------------------------------------------------
(* One lemma for each action: it keeps the invariant, and what a reader finds *)
(* in the ledgers is what there was, or that and the record it commits.       *)
SameLogs == \A l \in Ledgers : Of(l)' = Of(l)

LEMMA FilesAlone ==
  ASSUME Kept, UNCHANGED <<file, lastSeq, committed>>
  PROVE  FilesSound' /\ NothingCounted' /\ CommittedStaysReadable' /\ SameLogs
BY DEF Kept, FilesSound, NothingCounted, CommittedStaysReadable, SameLogs, Of

LEMMA LaunchKeeps ==
  ASSUME Kept, NEW l \in Ledgers, Launch(l)
  PROVE  Kept' /\ SameLogs
<1> USE DEF Kept, Launch, Ready, Taken
<1>1. FilesSound' /\ NothingCounted' /\ CommittedStaysReadable' /\ SameLogs
  BY FilesAlone
<1>2. /\ ~file[l].open /\ Len(file[l].lines) = 0 /\ lastSeq[l] = 0
  BY DEF Empty, NothingCounted
<1>3. Line(l, "plain", 0) \in Records /\ Line(l, "plain", 0).seq = lastSeq[l] + 1
  <2>1. 0 \in 0..MaxSeq[l] /\ "plain" \in Events
    BY StoreAssumption DEF Events
  <2> QED
    BY <2>1, LineTyping
<1>4. TypeOK'
  BY <1>3 DEF TypeOK
<1>5. StoresCount' /\ PenBehindWhole'
  BY <1>2, <1>3 DEF StoresCount, PenBehindWhole, Line
<1> QED
  BY <1>1, <1>4, <1>5

LEMMA BeginKeeps ==
  ASSUME Kept, NEW l \in Ledgers, NEW e \in Events, NEW ref \in 0..MaxSeq[l], Begin(l, e, ref)
  PROVE  Kept' /\ SameLogs
<1> USE DEF Kept, Begin, Ready, Taken
<1>1. FilesSound' /\ NothingCounted' /\ CommittedStaysReadable' /\ SameLogs
  BY FilesAlone
<1>2. /\ Line(l, e, ref) \in Records /\ Line(l, e, ref).seq = lastSeq[l] + 1
      /\ PointerTo(l, Line(l, e, ref)) \in Pointers
  BY LineTyping
<1>3. index' \in Files(Pointers)
  BY <1>2, IndexTyping DEF Pointed, TypeOK
<1>4. TypeOK'
  BY <1>2, <1>3 DEF TypeOK
<1>5. StoresCount' /\ PenBehindWhole'
  <2>1. StoresCount'
    BY DEF StoresCount
  <2>2. e = "run-closed" => l \in RunLedgers
    BY DEF MayAppend
  <2> QED
    BY <1>2, <2>1, <2>2 DEF StoresCount, PenBehindWhole, Line
<1> QED
  BY <1>1, <1>4, <1>5

LEMMA ResolveClosedKeeps ==
  ASSUME Kept, NEW l \in Ledgers, NEW ref \in 1..MaxSeq[l], ResolveClosed(l, ref)
  PROVE  Kept' /\ SameLogs
<1> DEFINE g == Repair(file[l])  r == [seq |-> TailSeq(file[l]) + 1, event |-> "resolved", ref |-> ref]
<1> USE DEF Kept, ResolveClosed, Taken
<1>1. /\ Clean(g) /\ Readable(g) = Readable(file[l]) /\ TailSeq(file[l]) = Len(g.lines)
      /\ Len(g.lines) \in Nat /\ g \in Files(Records)
  <2>1. Sound(file[l])
    BY DEF FilesSound
  <2>2. Clean(g) /\ Readable(g) = Readable(file[l]) /\ TailSeq(file[l]) = Len(g.lines)
    BY <2>1, RepairIsClean
  <2> QED
    BY <2>2 DEF Clean, Sound, Files
<1> HIDE DEF g
<1>2. r \in Records /\ TailSeq(file[l]) \in Seqs \cup {0}
  <2>1. TailSeq(file[l]) + 1 \in 1..MaxSeq[l] /\ TailSeq(file[l]) \in 0..MaxSeq[l]
    BY <1>1, StoreAssumption
  <2>2. TailSeq(file[l]) + 1 \in Seqs /\ ref \in Seqs /\ TailSeq(file[l]) \in Seqs \cup {0}
    BY <2>1, StoreAssumption DEF Seqs
  <2> QED
    BY <2>2 DEF Records, Events
<1>3. /\ file' = [file EXCEPT ![l] = g] /\ lastSeq' = [lastSeq EXCEPT ![l] = Len(g.lines)]
      /\ pen' = [at |-> "commit", ledger |-> l, rec |-> r]
      /\ file'[l] = g /\ lastSeq'[l] = Len(g.lines)
      /\ \A k \in Ledgers \ {l} : file'[k] = file[k] /\ lastSeq'[k] = lastSeq[k]
  BY <1>1 DEF TypeOK, g
<1>4. FilesSound'
  BY <1>1, <1>3 DEF FilesSound, Clean
<1>5. NothingCounted'
  BY <1>1, <1>3 DEF NothingCounted
<1>6. SameLogs
  BY <1>1, <1>3 DEF SameLogs, Of
<1>7. CommittedStaysReadable'
  BY <1>6 DEF CommittedStaysReadable, SameLogs, TypeOK
<1>8. TypeOK'
  BY <1>1, <1>2, <1>3 DEF TypeOK
<1>9. StoresCount' /\ PenBehindWhole'
  BY <1>1, <1>3 DEF StoresCount, PenBehindWhole, Clean
<1> QED
  BY <1>4, <1>5, <1>6, <1>7, <1>8, <1>9

(* The one step that shows: the next record of its ledger. *)
Grown(l, r) ==
  /\ Of(l)' = Of(l) \cup {r} /\ \A k \in Ledgers \ {l} : Of(k)' = Of(k)
  /\ r \in Records /\ \A q \in Of(l) : q.seq < r.seq
  /\ r.seq = 1 \/ \E q \in Of(l) : q.seq = r.seq - 1

LEMMA CommitKeeps ==
  ASSUME Kept, NEW l \in Ledgers, pen # Nothing, Commit(l, pen.rec)
  PROVE  Kept' /\ Grown(l, pen.rec)
<1> DEFINE f == file[l]  r == pen.rec  g == Write(f, r)  n == Len(f.lines)
<1> USE DEF Kept, Commit
<1>1. r \in Records /\ r.seq \in Seqs /\ pen.ledger = l
  BY DEF TypeOK, Nothing, Records
<1>2. Clean(f) /\ r.seq = n + 1 /\ n \in Nat
  <2>1. Sound(f)
    BY DEF FilesSound
  <2> QED
    BY <1>1, <2>1 DEF PenBehindWhole, Clean, Sound, Files
<1>3. Clean(g) /\ Len(g.lines) = r.seq /\ Readable(g) = Readable(f) \cup {r}
  BY <1>1, <1>2, WriteIsSound
<1> HIDE DEF g
<1>4. /\ file' = [file EXCEPT ![l] = g] /\ file'[l] = g /\ lastSeq'[l] = r.seq
      /\ \A k \in Ledgers \ {l} : file'[k] = file[k] /\ lastSeq'[k] = lastSeq[k]
  BY DEF TypeOK, g
<1>5. FilesSound'
  BY <1>3, <1>4 DEF FilesSound, Clean
<1>6. NothingCounted'
  <2>1. g.lines # <<>>
    BY <1>2, <1>3
  <2> QED
    BY <1>4, <2>1 DEF NothingCounted
<1>7. Of(l)' = Of(l) \cup {r} /\ \A k \in Ledgers \ {l} : Of(k)' = Of(k)
  BY <1>3, <1>4 DEF Of
<1>8. CommittedStaysReadable'
  <2> SUFFICES ASSUME NEW x \in committed \cup {<<l, r>>} PROVE x[2] \in Of(x[1])'
    BY DEF CommittedStaysReadable
  <2>1. CASE x = <<l, r>>
    BY <2>1, <1>7
  <2>2. CASE x \in committed
    <3>1. x[1] \in Ledgers /\ x[2] \in Of(x[1])
      BY <2>2 DEF CommittedStaysReadable, TypeOK
    <3> QED
      BY <3>1, <1>7
  <2> QED
    BY <2>1, <2>2
<1>9. TypeOK'
  <2>1. closed' \subseteq RunLedgers
    <3>1. r.event = "run-closed" => l \in RunLedgers
      BY <1>1 DEF PenBehindWhole
    <3> QED
      BY <3>1 DEF TypeOK
  <2> QED
    BY <1>1, <1>3, <1>4, <2>1 DEF TypeOK, Clean, Sound
<1>10. StoresCount' /\ PenBehindWhole'
  BY <1>3, <1>4 DEF StoresCount, PenBehindWhole, Clean
<1>11. \A q \in Of(l) : q.seq < r.seq
  <2> SUFFICES ASSUME NEW i \in 1..n PROVE f.lines[i].recs[1].seq < r.seq
    BY DEF Of, Readable
  <2> QED
    BY <1>2 DEF Clean, Sound, HoldsItsOwn
<1>12. r.seq = 1 \/ \E q \in Of(l) : q.seq = r.seq - 1
  <2> SUFFICES ASSUME r.seq # 1 PROVE \E q \in Of(l) : q.seq = r.seq - 1
    OBVIOUS
  <2>1. n \in 1..n
    BY <1>2
  <2>2. Parses(f.lines[n]) /\ f.lines[n].recs[1].seq = n
    BY <2>1, <1>2 DEF Clean, Sound, HoldsItsOwn
  <2>3. f.lines[n].recs[1] \in Of(l)
    BY <2>1, <2>2 DEF Of, Readable
  <2> QED
    BY <1>2, <2>2, <2>3
<1> QED
  BY <1>1, <1>5, <1>6, <1>7, <1>8, <1>9, <1>10, <1>11, <1>12 DEF Grown

---------------------------------------------------------------------------
(* The crashes and the start. *)

LEMMA DownTyping ==
  ASSUME TypeOK, Down
  PROVE  up' \in BOOLEAN /\ crashes' \in 0..MaxCrashes
<1>1. crashes \in 0..MaxCrashes /\ crashes < MaxCrashes /\ crashes' = crashes + 1
  BY DEF TypeOK, Down
<1>2. crashes' \in 0..MaxCrashes
  BY <1>1, StoreAssumption
<1>3. up' \in BOOLEAN
  BY DEF Down
<1> QED
  BY <1>2, <1>3

LEMMA CrashKeeps ==
  ASSUME Kept, Down, UNCHANGED <<file, lastSeq, closed, committed>>, index' \in Files(Pointers)
  PROVE  Kept' /\ SameLogs
<1> USE DEF Kept, Down
<1>1. FilesSound' /\ NothingCounted' /\ CommittedStaysReadable' /\ SameLogs
  BY FilesAlone
<1>2. TypeOK'
  <2>1. up' \in BOOLEAN /\ crashes' \in 0..MaxCrashes
    BY DownTyping
  <2>2. closed' \subseteq RunLedgers /\ committed' \subseteq Ledgers \X Records
    BY DEF TypeOK
  <2>3. file' \in [Ledgers -> Files(Records)] /\ lastSeq' \in [Ledgers -> Seqs \cup {0}]
    BY DEF TypeOK
  <2>4. pen' \in {Nothing} \cup [at : {"commit"}, ledger : Ledgers, rec : Records]
    OBVIOUS
  <2> QED
    BY <2>1, <2>2, <2>3, <2>4 DEF TypeOK
<1>3. StoresCount' /\ PenBehindWhole'
  BY DEF StoresCount, PenBehindWhole
<1> QED
  BY <1>1, <1>2, <1>3

LEMMA CrashInPointerKeeps ==
  ASSUME Kept, NEW l \in Ledgers, NEW e \in Events, NEW ref \in 0..MaxSeq[l],
         NEW tear \in {"part", "line"}, CrashInPointer(l, e, ref, tear)
  PROVE  Kept' /\ SameLogs
<1>1. PointerTo(l, Line(l, e, ref)) \in Pointers
  BY LineTyping DEF Kept, CrashInPointer, Ready
<1>2. index' \in Files(Pointers)
  BY <1>1, IndexTyping DEF Kept, CrashInPointer
<1> QED
  BY <1>2, CrashKeeps DEF CrashInPointer

(* This is where the tear has to be a part: the line goes at the next start.   *)
LEMMA CrashInCommitKeeps ==
  ASSUME Kept, NEW l \in Ledgers, pen # Nothing, CrashInCommit(l, pen.rec, "part")
  PROVE  Kept' /\ SameLogs
<1> DEFINE f == file[l]  g == Tear(f, pen.rec, "part")
<1> USE DEF Kept, CrashInCommit, Down
<1>1. Clean(f)
  BY DEF FilesSound, PenBehindWhole, Clean
<1>2. Sound(g) /\ g.lines # <<>> /\ Readable(g) = Readable(f)
  BY <1>1, TearIsSound
<1> HIDE DEF g
<1>3. /\ file' = [file EXCEPT ![l] = g] /\ file'[l] = g
      /\ \A k \in Ledgers \ {l} : file'[k] = file[k]
  BY DEF TypeOK, g
<1>4. FilesSound' /\ NothingCounted'
  BY <1>2, <1>3 DEF FilesSound, NothingCounted
<1>5. SameLogs
  BY <1>2, <1>3 DEF SameLogs, Of
<1>6. CommittedStaysReadable'
  BY <1>5 DEF CommittedStaysReadable, SameLogs, TypeOK
<1>7. TypeOK'
  <2>1. up' \in BOOLEAN /\ crashes' \in 0..MaxCrashes
    BY DownTyping
  <2> QED
    BY <1>2, <1>3, <2>1 DEF TypeOK, Sound
<1>8. StoresCount' /\ PenBehindWhole'
  BY DEF StoresCount, PenBehindWhole
<1> QED
  BY <1>4, <1>5, <1>6, <1>7, <1>8

LEMMA StartKeeps ==
  ASSUME Kept, Start
  PROVE  Kept' /\ SameLogs
<1> USE DEF Kept, Start
<1>1. ASSUME NEW l \in Ledgers
      PROVE  /\ Clean(Repair(file[l])) /\ Readable(Repair(file[l])) = Readable(file[l])
             /\ TailSeq(file[l]) = Len(Repair(file[l]).lines)
  BY RepairIsClean DEF FilesSound
<1>2. ASSUME NEW l \in Ledgers
      PROVE  /\ Sound(file'[l]) /\ Readable(file'[l]) = Readable(file[l])
             /\ file'[l].lines = <<>> => lastSeq'[l] = 0
             /\ lastSeq'[l] \in Seqs \cup {0}
             /\ ~Idle(l) => ~file'[l].open /\ lastSeq'[l] = Len(file'[l].lines)
  <2>1. CASE Idle(l)
    BY <2>1 DEF FilesSound, NothingCounted, TypeOK
  <2>2. CASE ~Idle(l)
    <3> DEFINE g == Repair(file[l])  n == Len(g.lines)
    <3>1. file'[l] = g /\ lastSeq'[l] = n
      BY <2>2, <1>1
    <3>2. Clean(g) /\ Readable(g) = Readable(file[l])
      BY <1>1
    <3>3. n \in Seqs \cup {0}
      <4> HIDE DEF g
      <4>1. n \in Nat
        BY <3>2 DEF Clean, Sound, Files
      <4>2. CASE n > 0
        <5>1. g.lines[n] \in Lines(Records) /\ HoldsItsOwn(g, n)
          BY <4>1, <4>2, <3>2 DEF Clean, Sound, Files
        <5>2. g.lines[n].recs[1] \in Records /\ g.lines[n].recs[1].seq = n
          BY <5>1 DEF HoldsItsOwn, Parses, Lines
        <5> QED
          BY <5>2 DEF Records
      <4> QED
        BY <4>1, <4>2
    <3> HIDE DEF g
    <3> QED
      BY <2>2, <3>1, <3>2, <3>3 DEF Clean
  <2> QED
    BY <2>1, <2>2
<1>3. FilesSound' /\ NothingCounted' /\ SameLogs
  BY <1>2 DEF FilesSound, NothingCounted, SameLogs, Of
<1>4. CommittedStaysReadable'
  BY <1>3 DEF CommittedStaysReadable, SameLogs, TypeOK
<1>5. TypeOK'
  <2>1. closed' \subseteq RunLedgers
    BY DEF Idle
  <2>2. file' \in [Ledgers -> Files(Records)] /\ lastSeq' \in [Ledgers -> Seqs \cup {0}]
    BY <1>2 DEF Sound
  <2> QED
    BY <2>1, <2>2 DEF TypeOK
<1>6. StoresCount' /\ PenBehindWhole'
  <2>1. pen = Nothing
    BY DEF PenBehindWhole
  <2> QED
    BY <1>2, <2>1 DEF StoresCount, PenBehindWhole
<1> QED
  BY <1>3, <1>4, <1>5, <1>6

---------------------------------------------------------------------------
(* The invariant, and what follows from it. *)

LEMMA NextKeeps ==
  ASSUME OnlyParts, Kept, [Next]_vars
  PROVE  Kept' /\ (SameLogs \/ \E l \in Ledgers : \E r \in Records : Grown(l, r))
<1>1. ASSUME NEW l \in Ledgers, Launch(l) PROVE Kept' /\ SameLogs
  BY <1>1, LaunchKeeps
<1>2. ASSUME NEW l \in Ledgers, Appends(l) PROVE Kept' /\ SameLogs
  BY <1>2, BeginKeeps, CrashInPointerKeeps DEF Appends
<1>3. ASSUME NEW l \in Ledgers, Commits(l)
      PROVE  Kept' /\ (SameLogs \/ \E r \in Records : Grown(l, r))
  <2>1. CASE Commit(l, pen.rec)
    <3>1. Kept' /\ Grown(l, pen.rec)
      BY <1>3, <2>1, CommitKeeps DEF Commits
    <3> QED
      BY <3>1 DEF Grown
  <2>2. ASSUME NEW tear \in LedgerTears, CrashInCommit(l, pen.rec, tear)
        PROVE  Kept' /\ SameLogs
    <3>1. tear = "part"
      BY DEF OnlyParts
    <3> QED
      BY <1>3, <2>2, <3>1, CrashInCommitKeeps DEF Commits
  <2> QED
    BY <1>3, <2>1, <2>2 DEF Commits
<1>4. ASSUME NEW l \in Ledgers, NEW ref \in 1..MaxSeq[l], ResolveClosed(l, ref)
      PROVE  Kept' /\ SameLogs
  BY <1>4, ResolveClosedKeeps
<1>5. CASE Crash
  BY <1>5, CrashKeeps DEF Crash, Kept, TypeOK
<1>6. CASE Start
  BY <1>6, StartKeeps
<1>7. CASE UNCHANGED vars
  BY <1>7, FilesAlone DEF vars, Kept, TypeOK, StoresCount, PenBehindWhole, Nothing
<1> QED
  BY <1>1, <1>2, <1>3, <1>4, <1>5, <1>6, <1>7 DEF Next

LEMMA LedgersKept == ASSUME OnlyParts PROVE Spec => []Kept
<1>1. Kept /\ [Next]_vars => Kept'
  BY NextKeeps
<1> QED
  BY InitKept, <1>1, PTL DEF Spec

(* The ledgers, the index, the pen and the rest have their types. *)
THEOREM TypeCorrect == ASSUME OnlyParts PROVE Spec => []TypeOK
<1>1. Kept => TypeOK
  BY DEF Kept
<1> QED
  BY LedgersKept, <1>1, PTL

(* An append that answered is in its ledger for good, over any crashes that     *)
(* leave a part of a line.                                                    *)
THEOREM CommittedForGood == ASSUME OnlyParts PROVE Spec => []CommittedStaysReadable
<1>1. Kept => CommittedStaysReadable
  BY DEF Kept
<1> QED
  BY LedgersKept, <1>1, PTL

(* No such crash leaves a file that keeps the daemon from starting. *)
THEOREM LedgersOpen == ASSUME OnlyParts PROVE Spec => []EveryLedgerOpens
<1>1. Kept => EveryLedgerOpens
  BY RepairIsClean DEF Kept, FilesSound, EveryLedgerOpens
<1> QED
  BY LedgersKept, <1>1, PTL

(* Whoever reads a ledger while it is written, torn and repaired sees a log      *)
(* that grows by its next record and does nothing else.                        *)
THEOREM LedgersAreALog == ASSUME OnlyParts PROVE Spec => BehavesAsALog
<1> DEFINE read == [l \in Ledgers |-> Of(l)]
<1>1. Init => Log!Init
  BY DEF Init, Empty, Log!Init, Of, Readable
<1>2. Kept /\ [Next]_vars => [Log!Next]_read
  <2> SUFFICES ASSUME Kept, [Next]_vars PROVE Log!Next \/ read' = read
    OBVIOUS
  <2>1. CASE SameLogs
    BY <2>1 DEF SameLogs
  <2>2. ASSUME NEW l \in Ledgers, NEW r \in Records, Grown(l, r) PROVE Log!Next
    <3>1. read' = [read EXCEPT ![l] = @ \cup {r}]
      BY <2>2 DEF Grown
    <3>2. Log!Append(l, r)
      BY <2>2, <3>1 DEF Grown, Log!Append, Log!IsNext
    <3>3. r \in read'[l]
      BY <2>2 DEF Grown
    <3> QED
      BY <3>2, <3>3 DEF Log!Next
  <2> QED
    BY <2>1, <2>2, NextKeeps
<1> QED
  BY <1>1, <1>2, LedgersKept, PTL DEF Spec, BehavesAsALog, Log!Spec

---------------------------------------------------------------------------
(* The index.  A write behind a torn line makes one line of the two, which no  *)
(* reader parses: it ends the crash's damage, and hides its own entry.  Filed  *)
(* are the pointers no later write can ruin, the ones in the lines that ended. *)
Ended(f, i) == Parses(f.lines[i]) /\ (f.open => i # Len(f.lines))
Filed(f) == {f.lines[i].recs[1] : i \in {j \in 1..Len(f.lines) : Ended(f, j)}}
Holds(x) == x.torn \/ Len(x.recs) >= 1
Shape(f) == f.open => f.lines # <<>> /\ Holds(Last(f))

LEMMA BehindAnEnd ==
  ASSUME NEW R, NEW f \in Files(R), ~f.open, NEW x \in Lines(R), Holds(x), NEW o \in BOOLEAN
  PROVE  /\ Filed(Put(f, x, o)) =
              Filed(f) \cup (IF ~o /\ Parses(x) THEN {x.recs[1]} ELSE {})
         /\ Shape(Put(f, x, o)) /\ Put(f, x, o).open = o
<1> DEFINE n == Len(f.lines)  g == Put(f, x, o)
<1>1. f.lines \in Seq(Lines(R)) /\ n \in Nat
  BY DEF Files
<1>2. g = [lines |-> Append(f.lines, x), open |-> o]
  BY DEF Put
<1> HIDE DEF g
<1>3. /\ g.lines = Append(f.lines, x) /\ g.open = o
  BY <1>2
<1>4. /\ Len(g.lines) = n + 1 /\ g.lines[n + 1] = x
      /\ \A i \in 1..n : g.lines[i] = f.lines[i]
  BY <1>1, <1>3, AppendProperties
<1>5. \A i \in 1..n : Ended(g, i) <=> Ended(f, i)
  BY <1>1, <1>4 DEF Ended
<1>6. Ended(g, n + 1) <=> ~o /\ Parses(x)
  BY <1>3, <1>4 DEF Ended
<1>7. ASSUME NEW y \in Filed(g)
      PROVE  y \in Filed(f) \/ (~o /\ Parses(x) /\ y = x.recs[1])
  <2>1. PICK i \in 1..(n + 1) : Ended(g, i) /\ y = g.lines[i].recs[1]
    BY <1>4 DEF Filed
  <2>2. CASE i = n + 1
    BY <2>1, <2>2, <1>4, <1>6
  <2>3. CASE i \in 1..n
    BY <2>1, <2>3, <1>4, <1>5 DEF Filed
  <2> QED
    BY <2>2, <2>3, <1>1
<1>8. Filed(f) \subseteq Filed(g)
  <2> SUFFICES ASSUME NEW i \in 1..n, Ended(f, i) PROVE f.lines[i].recs[1] \in Filed(g)
    BY DEF Filed
  <2>1. i \in 1..Len(g.lines) /\ Ended(g, i) /\ g.lines[i] = f.lines[i]
    BY <1>1, <1>4, <1>5
  <2> QED
    BY <2>1 DEF Filed
<1>9. ~o /\ Parses(x) => x.recs[1] \in Filed(g)
  <2>1. n + 1 \in 1..Len(g.lines)
    BY <1>1, <1>4
  <2> QED
    BY <2>1, <1>4, <1>6 DEF Filed
<1>10. Shape(g)
  <2>1. g.lines # <<>>
    BY <1>1, <1>4
  <2> QED
    BY <2>1, <1>4 DEF Shape, Last
<1> QED
  BY <1>3, <1>7, <1>8, <1>9, <1>10 DEF g

LEMMA BehindATear ==
  ASSUME NEW R, NEW f \in Files(R), f.open, Shape(f),
         NEW x \in Lines(R), Holds(x), NEW o \in BOOLEAN
  PROVE  Filed(Put(f, x, o)) = Filed(f) /\ Shape(Put(f, x, o)) /\ Put(f, x, o).open = o
<1> DEFINE n == Len(f.lines)  g == Put(f, x, o)  a == f.lines[n]
           y == [torn |-> a.torn \/ x.torn, recs |-> a.recs \o x.recs]
<1>1. f.lines \in Seq(Lines(R)) /\ n \in Nat /\ n > 0 /\ a \in Lines(R)
  BY DEF Files, Shape
<1>2. g = [lines |-> [f.lines EXCEPT ![n] = y], open |-> o]
  BY DEF Put
<1>3. a.recs \in Seq(R) /\ x.recs \in Seq(R) /\ Holds(a)
  BY <1>1 DEF Lines, Shape, Last
<1>4. Len(y.recs) = Len(a.recs) + Len(x.recs) /\ Len(a.recs) \in Nat /\ Len(x.recs) \in Nat
  BY <1>3, ConcatProperties
<1>5. y.torn = (a.torn \/ x.torn)
  OBVIOUS
<1> HIDE DEF y, g
<1>6. ~Parses(y) /\ Holds(y)
  <2>1. CASE y.torn
    BY <2>1 DEF Parses, Holds
  <2>2. CASE ~y.torn
    <3>1. ~a.torn /\ ~x.torn
      BY <2>2, <1>5
    <3>2. Len(a.recs) >= 1 /\ Len(x.recs) >= 1
      BY <3>1, <1>3 DEF Holds
    <3>a. \A i, j \in Nat : i >= 1 /\ j >= 1 => i + j >= 1 /\ i + j # 1
      OBVIOUS
    <3>3. Len(y.recs) >= 1 /\ Len(y.recs) # 1
      <4> HIDE DEF a
      <4> QED
        BY <3>2, <3>a, <1>4
    <3> QED
      BY <3>3 DEF Parses, Holds
  <2> QED
    BY <2>1, <2>2
<1>7. /\ Len(g.lines) = n /\ g.lines[n] = y /\ g.open = o
      /\ \A i \in 1..n : i # n => g.lines[i] = f.lines[i]
  <2>1. g.lines = [f.lines EXCEPT ![n] = y] /\ g.open = o
    BY <1>2
  <2>2. DOMAIN f.lines = 1..n /\ DOMAIN g.lines = 1..n
    BY <1>1, <2>1
  <2>3. g.lines[n] = y /\ \A i \in 1..n : i # n => g.lines[i] = f.lines[i]
    BY <1>1, <2>1, <2>2
  <2>4. Len(g.lines) = n
    BY <1>1, <2>1
  <2> QED
    BY <2>1, <2>3, <2>4
<1>8. \A i \in 1..n : Ended(g, i) <=> Ended(f, i)
  <2> TAKE i \in 1..n
  <2>1. CASE i = n
    BY <2>1, <1>6, <1>7 DEF Ended
  <2>2. CASE i # n
    BY <2>2, <1>7 DEF Ended
  <2> QED
    BY <2>1, <2>2
<1>9. \A i \in 1..n : Ended(f, i) => g.lines[i] = f.lines[i]
  BY <1>7 DEF Ended
<1>10. Filed(g) = Filed(f)
  BY <1>7, <1>8, <1>9 DEF Filed
<1>11. Shape(g)
  <2>1. g.lines # <<>>
    BY <1>1, <1>7
  <2> QED
    BY <2>1, <1>6, <1>7 DEF Shape, Last
<1> QED
  BY <1>7, <1>10, <1>11 DEF g

(* An append's write, and what a crash leaves of it. *)
Filing(f, g, p) ==
  ~g.open /\ Shape(g) /\ Filed(g) = IF f.open THEN Filed(f) ELSE Filed(f) \cup {p}
LEMMA PointerFiled ==
  ASSUME NEW f \in Files(Pointers), Shape(f), NEW p \in Pointers
  PROVE  Filing(f, Write(f, p), p)
<1>1. Whole(p) \in Lines(Pointers) /\ Parses(Whole(p)) /\ Holds(Whole(p)) /\ Whole(p).recs[1] = p
  BY DEF Whole, Lines, Parses, Holds
<1>2. CASE f.open
  BY <1>1, <1>2, BehindATear DEF Write, Filing
<1>3. CASE ~f.open
  BY <1>1, <1>3, BehindAnEnd DEF Write, Filing
<1> QED
  BY <1>2, <1>3

LEMMA PointerTorn ==
  ASSUME NEW f \in Files(Pointers), Shape(f), NEW p \in Pointers, NEW tear \in {"part", "line"}
  PROVE  Filed(Tear(f, p, tear)) = Filed(f) /\ Shape(Tear(f, p, tear))
<1>1. Torn(p, tear) \in Lines(Pointers) /\ Holds(Torn(p, tear))
  BY DEF Torn, Part, Whole, Lines, Holds
<1>2. CASE f.open
  BY <1>1, <1>2, BehindATear DEF Tear
<1>3. CASE ~f.open
  BY <1>1, <1>3, BehindAnEnd DEF Tear
<1> QED
  BY <1>2, <1>3

---------------------------------------------------------------------------
(* The entries there should be are those of the queued records, the one the    *)
(* pen holds included.  A crash costs one: a filed pointer whose record never  *)
(* came, or a torn line, which is paid for again as the entry that went behind  *)
(* it when the line ends.                                                     *)
Written == UNION {{PointerTo(l, r) : r \in {q \in Of(l) : q.event \in Queued}} : l \in Ledgers}
Coming == {x \in {PointerTo(pen.ledger, pen.rec)} : pen # Nothing /\ pen.rec.event \in Queued}
Entries == Written \cup Coming

Balance(P, F, open, c) ==
  /\ IsFiniteSet(P \ F) /\ IsFiniteSet(F \ P)
  /\ Cardinality(P \ F) + Cardinality(F \ P) + (IF open THEN 1 ELSE 0) <= c
Balanced == Shape(index) /\ Balance(Entries, Filed(index), index.open, crashes)

LEMMA AtMostOneMore ==
  ASSUME NEW A, IsFiniteSet(A), NEW x, NEW B, B \subseteq A \cup {x}
  PROVE  /\ IsFiniteSet(B) /\ Cardinality(B) <= Cardinality(A) + 1
         /\ Cardinality(A) \in Nat /\ Cardinality(B) \in Nat
<1>1. IsFiniteSet(A \cup {x}) /\ Cardinality(A \cup {x}) <= Cardinality(A) + 1
  <2>1. Cardinality(A) \in Nat
    BY FS_CardinalityType
  <2>2. /\ IsFiniteSet(A \cup {x})
        /\ Cardinality(A \cup {x}) = IF x \in A THEN Cardinality(A) ELSE Cardinality(A) + 1
    BY FS_AddElement, Zenon
  <2>3. Cardinality(A \cup {x}) = Cardinality(A) \/ Cardinality(A \cup {x}) = Cardinality(A) + 1
    BY <2>2
  <2> HIDE <2>2
  <2>4. Cardinality(A \cup {x}) <= Cardinality(A) + 1
    BY <2>1, <2>3
  <2> QED
    BY <2>2, <2>4
<1>2. IsFiniteSet(B) /\ Cardinality(B) <= Cardinality(A \cup {x})
  BY <1>1, FS_Subset
<1>3. Cardinality(A) \in Nat /\ Cardinality(B) \in Nat /\ Cardinality(A \cup {x}) \in Nat
  BY <1>1, <1>2, FS_CardinalityType
<1> QED
  BY <1>1, <1>2, <1>3

LEMMA NoMore ==
  ASSUME NEW A, IsFiniteSet(A), NEW B, B \subseteq A
  PROVE  /\ IsFiniteSet(B) /\ Cardinality(B) <= Cardinality(A)
         /\ Cardinality(A) \in Nat /\ Cardinality(B) \in Nat
<1>1. IsFiniteSet(B) /\ Cardinality(B) <= Cardinality(A)
  BY FS_Subset
<1> QED
  BY <1>1, FS_CardinalityType

(* An entry and its pointer, in an index whose last line ended or was torn. *)
LEMMA EntryFiled ==
  ASSUME NEW P, NEW F, NEW open \in BOOLEAN, NEW c \in Nat, Balance(P, F, open, c), NEW p,
         NEW G, G = IF open THEN F ELSE F \cup {p}
  PROVE  Balance(P \cup {p}, G, FALSE, c)
<1> DEFINE Q == P \cup {p}
<1>1. CASE ~open
  <2>1. Q \ G \subseteq P \ F /\ G \ Q \subseteq F \ P
    BY <1>1
  <2> HIDE DEF Q
  <2> QED
    BY <1>1, <2>1, NoMore DEF Balance, Q
<1>2. CASE open
  <2>1. Q \ G \subseteq (P \ F) \cup {p} /\ G \ Q \subseteq F \ P
    BY <1>2
  <2> HIDE DEF Q
  <2>2. /\ IsFiniteSet(Q \ G) /\ Cardinality(Q \ G) <= Cardinality(P \ F) + 1
        /\ Cardinality(P \ F) \in Nat /\ Cardinality(Q \ G) \in Nat
    BY <2>1, AtMostOneMore DEF Balance
  <2>3. /\ IsFiniteSet(G \ Q) /\ Cardinality(G \ Q) <= Cardinality(F \ P)
        /\ Cardinality(F \ P) \in Nat /\ Cardinality(G \ Q) \in Nat
    BY <2>1, NoMore DEF Balance
  <2>4. Cardinality(P \ F) + Cardinality(F \ P) + 1 <= c
    BY <1>2 DEF Balance
  <2>5. Cardinality(Q \ G) + Cardinality(G \ Q) + 0 <= c
    BY <2>2, <2>3, <2>4
  <2> QED
    BY <2>2, <2>3, <2>5 DEF Balance, Q
<1> QED
  BY <1>1, <1>2

(* A crash: the entry the pen held never comes, or the pointer is torn. *)
LEMMA CrashPaid ==
  ASSUME NEW P, NEW F, NEW open \in BOOLEAN, NEW c \in Nat, Balance(P, F, open, c),
         NEW Q, NEW o \in BOOLEAN, NEW p,
         \/ Q = P
         \/ Q \subseteq P /\ P \subseteq Q \cup {p} /\ o = open
  PROVE  Balance(Q, F, o, c + 1)
<1>1. CASE Q = P
  <2>1. Cardinality(P \ F) \in Nat /\ Cardinality(F \ P) \in Nat
    BY NoMore DEF Balance
  <2> QED
    BY <1>1, <2>1 DEF Balance
<1>2. CASE Q \subseteq P /\ P \subseteq Q \cup {p} /\ o = open
  <2>1. Q \ F \subseteq P \ F /\ F \ Q \subseteq (F \ P) \cup {p}
    BY <1>2
  <2>2. /\ IsFiniteSet(F \ Q) /\ Cardinality(F \ Q) <= Cardinality(F \ P) + 1
        /\ Cardinality(F \ P) \in Nat /\ Cardinality(F \ Q) \in Nat
    BY <2>1, AtMostOneMore DEF Balance
  <2>3. /\ IsFiniteSet(Q \ F) /\ Cardinality(Q \ F) <= Cardinality(P \ F)
        /\ Cardinality(P \ F) \in Nat /\ Cardinality(Q \ F) \in Nat
    BY <2>1, NoMore DEF Balance
  <2> DEFINE b == IF open THEN 1 ELSE 0
  <2>4. Cardinality(P \ F) + Cardinality(F \ P) + b <= c /\ b \in Nat
    BY DEF Balance
  <2> HIDE DEF b
  <2>5. Cardinality(Q \ F) + Cardinality(F \ Q) + b <= c + 1
    BY <2>2, <2>3, <2>4
  <2> QED
    BY <1>2, <2>2, <2>3, <2>5 DEF Balance, b
<1> QED
  BY <1>1, <1>2

LEMMA WrittenStays == ASSUME SameLogs PROVE Written' = Written
BY DEF SameLogs, Written, PointerTo

LEMMA Counts ==
  ASSUME TypeOK
  PROVE  crashes \in Nat /\ index.open \in BOOLEAN /\ index \in Files(Pointers)
BY StoreAssumption DEF TypeOK, Files

(* The entry is due from the moment its pointer is written. *)
LEMMA BeginBalances ==
  ASSUME Kept, Balanced, SameLogs,
         NEW l \in Ledgers, NEW e \in Events, NEW ref \in 0..MaxSeq[l], Begin(l, e, ref)
  PROVE  Balanced'
<1> DEFINE r == Line(l, e, ref)  p == PointerTo(l, r)
<1>1. p \in Pointers /\ r.event = e
  BY LineTyping DEF Kept, Begin, Ready, Line
<1>2. pen = Nothing /\ pen' = [at |-> "commit", ledger |-> l, rec |-> r] /\ crashes' = crashes
  BY DEF Begin, Ready, Taken
<1>3. pen' # Nothing /\ pen'.ledger = l /\ pen'.rec = r
  BY <1>2 DEF Nothing
<1>4. Written' = Written
  BY WrittenStays
<1>5. Entries = Written
  BY <1>2 DEF Entries, Coming
<1>6. index' = IF e \in Queued THEN Write(index, p) ELSE index
  BY <1>1 DEF Begin, Pointed
<1>7. crashes \in Nat /\ index.open \in BOOLEAN /\ index \in Files(Pointers)
  BY Counts DEF Kept
<1> HIDE DEF p, r
<1>8. Coming' = IF e \in Queued THEN {PointerTo(l, r)} ELSE {}
  BY <1>1, <1>3 DEF Coming, PointerTo
<1>9. CASE e \in Queued
  <2>1. Entries' = Entries \cup {p}
    BY <1>4, <1>5, <1>8, <1>9 DEF Entries, p
  <2>2. index' = Write(index, p)
    BY <1>6, <1>9
  <2>3. Filing(index, Write(index, p), p)
    BY <1>1, <1>7, PointerFiled DEF Balanced
  <2>4. /\ ~index'.open /\ Shape(index')
        /\ Filed(index') = IF index.open THEN Filed(index) ELSE Filed(index) \cup {p}
    BY <2>2, <2>3 DEF Filing
  <2>5. Balance(Entries \cup {p}, Filed(index'), FALSE, crashes)
    BY <1>7, <2>4, EntryFiled DEF Balanced
  <2>6. Balance(Entries', Filed(index'), index'.open, crashes')
    BY <1>2, <2>1, <2>4, <2>5 DEF Balance
  <2> QED
    BY <2>4, <2>6 DEF Balanced
<1>10. CASE e \notin Queued
  <2>1. Entries' = Entries
    BY <1>4, <1>5, <1>8, <1>10 DEF Entries
  <2>2. index' = index
    BY <1>6, <1>10
  <2> QED
    BY <1>2, <2>1, <2>2 DEF Balanced
<1> QED
  BY <1>9, <1>10

(* An append that queues nothing, and a start: the entries are what they were. *)
LEMMA QuietBalances ==
  ASSUME Balanced, SameLogs, UNCHANGED <<index, crashes>>, Coming = {}, Coming' = {}
  PROVE  Balanced'
<1>1. Entries' = Entries
  BY WrittenStays DEF Entries
<1> QED
  BY <1>1 DEF Balanced

LEMMA CommitBalances ==
  ASSUME Balanced, NEW l \in Ledgers, pen # Nothing, Commit(l, pen.rec), Grown(l, pen.rec)
  PROVE  Balanced'
<1> DEFINE r == pen.rec
<1>1. pen.ledger = l /\ pen' = Nothing /\ index' = index /\ crashes' = crashes
  BY DEF Commit
<1>2. Coming' = {}
  BY <1>1 DEF Coming
<1>3. Coming = {x \in {PointerTo(l, r)} : r.event \in Queued}
  BY <1>1 DEF Coming
<1>4. Of(l)' = Of(l) \cup {r} /\ \A k \in Ledgers \ {l} : Of(k)' = Of(k)
  BY DEF Grown
<1> HIDE DEF r
<1>5. Written' = Written \cup Coming
  <2> DEFINE At(k) == {PointerTo(k, q) : q \in {x \in Of(k) : x.event \in Queued}}
  <2>1. At(l)' = At(l) \cup Coming
    BY <1>3, <1>4 DEF PointerTo
  <2>2. \A k \in Ledgers \ {l} : At(k)' = At(k)
    BY <1>4 DEF PointerTo
  <2>3. Written = UNION {At(k) : k \in Ledgers} /\ Written' = UNION {At(k)' : k \in Ledgers}
    BY DEF Written
  <2> HIDE DEF At
  <2> QED
    BY <2>1, <2>2, <2>3
<1>6. Entries' = Entries
  BY <1>2, <1>5 DEF Entries
<1> QED
  BY <1>1, <1>6 DEF Balanced

(* A crash outside the index: the pen's entry is lost, and its pointer stays.  *)
LEMMA LossBalances ==
  ASSUME TypeOK, Balanced, SameLogs, index' = index, crashes' = crashes + 1, pen' = Nothing
  PROVE  Balanced'
<1> DEFINE p == PointerTo(pen.ledger, pen.rec)
<1>1. crashes \in Nat /\ index.open \in BOOLEAN
  BY Counts
<1>2. Entries' = Written
  BY WrittenStays DEF Entries, Coming
<1>3. Written \subseteq Entries /\ Entries \subseteq Written \cup {p}
  BY DEF Entries, Coming
<1> HIDE DEF p
<1>4. Balance(Written, Filed(index), index.open, crashes + 1)
  BY <1>1, <1>3, CrashPaid DEF Balanced
<1> QED
  BY <1>2, <1>4 DEF Balanced

LEMMA TearBalances ==
  ASSUME Kept, Balanced, SameLogs, NEW l \in Ledgers, NEW e \in Events, NEW ref \in 0..MaxSeq[l],
         NEW tear \in {"part", "line"}, CrashInPointer(l, e, ref, tear)
  PROVE  Balanced'
<1> DEFINE p == PointerTo(l, Line(l, e, ref))
<1>1. p \in Pointers
  BY LineTyping DEF Kept, CrashInPointer, Ready
<1>2. /\ pen = Nothing /\ pen' = Nothing /\ crashes' = crashes + 1
      /\ index' = Tear(index, p, tear)
  BY DEF CrashInPointer, Ready, Down
<1> HIDE DEF p
<1>3. /\ crashes \in Nat /\ index.open \in BOOLEAN /\ index \in Files(Pointers)
  BY Counts DEF Kept
<1>4. Filed(index') = Filed(index) /\ Shape(index')
  BY <1>1, <1>2, <1>3, PointerTorn DEF Balanced
<1>5. Entries' = Entries
  BY <1>2, WrittenStays DEF Entries, Coming
<1>6. index'.open = TRUE
  BY <1>2 DEF Tear, Put
<1>7. Balance(Entries, Filed(index), TRUE, crashes + 1)
  BY <1>3, CrashPaid DEF Balanced
<1> QED
  BY <1>2, <1>4, <1>5, <1>6, <1>7 DEF Balanced

LEMMA NextBalances ==
  ASSUME OnlyParts, Kept, Balanced, [Next]_vars
  PROVE  Balanced'
<1>1. ASSUME NEW l \in Ledgers, Launch(l) PROVE Balanced'
  <2>1. SameLogs /\ UNCHANGED <<index, crashes>> /\ pen = Nothing
    BY <1>1, LaunchKeeps DEF Launch, Ready
  <2>2. pen'.rec.event = "plain"
    BY <1>1 DEF Launch, Taken, Line
  <2> QED
    BY <2>1, <2>2, QuietBalances DEF Coming, Queued
<1>2. ASSUME NEW l \in Ledgers, Appends(l) PROVE Balanced'
  <2>1. PICK e \in Events, ref \in 0..MaxSeq[l] :
          Begin(l, e, ref) \/ \E tear \in {"part", "line"} : CrashInPointer(l, e, ref, tear)
    BY <1>2 DEF Appends
  <2>2. CASE Begin(l, e, ref)
    BY <2>2, BeginKeeps, BeginBalances
  <2>3. ASSUME NEW tear \in {"part", "line"}, CrashInPointer(l, e, ref, tear) PROVE Balanced'
    BY <2>3, CrashInPointerKeeps, TearBalances
  <2> QED
    BY <2>1, <2>2, <2>3
<1>3. ASSUME NEW l \in Ledgers, Commits(l) PROVE Balanced'
  <2>1. CASE Commit(l, pen.rec)
    <3>1. pen # Nothing
      BY <1>3 DEF Commits
    <3>2. Grown(l, pen.rec)
      BY <2>1, <3>1, CommitKeeps
    <3> QED
      BY <2>1, <3>1, <3>2, CommitBalances
  <2>2. ASSUME NEW tear \in LedgerTears, CrashInCommit(l, pen.rec, tear) PROVE Balanced'
    <3>1. tear = "part" /\ pen # Nothing
      BY <1>3 DEF OnlyParts, Commits
    <3>2. SameLogs
      BY <2>2, <3>1, CrashInCommitKeeps
    <3>3. index' = index /\ crashes' = crashes + 1 /\ pen' = Nothing
      BY <2>2 DEF CrashInCommit, Down
    <3> QED
      BY <3>2, <3>3, LossBalances DEF Kept
  <2> QED
    BY <1>3, <2>1, <2>2 DEF Commits
<1>4. ASSUME NEW l \in Ledgers, NEW ref \in 1..MaxSeq[l], ResolveClosed(l, ref) PROVE Balanced'
  <2>1. SameLogs /\ UNCHANGED <<index, crashes>> /\ pen = Nothing
    BY <1>4, ResolveClosedKeeps DEF ResolveClosed
  <2>2. pen'.rec.event = "resolved"
    BY <1>4 DEF ResolveClosed, Taken
  <2> QED
    BY <2>1, <2>2, QuietBalances DEF Coming, Queued
<1>5. CASE Crash
  <2>1. index' = index /\ crashes' = crashes + 1 /\ pen' = Nothing
    BY <1>5 DEF Crash, Down
  <2>2. SameLogs
    BY <1>5, CrashKeeps DEF Crash, Kept, TypeOK
  <2> QED
    BY <2>1, <2>2, LossBalances DEF Kept
<1>6. CASE Start
  <2>1. SameLogs /\ UNCHANGED <<index, crashes>>
    BY <1>6, StartKeeps DEF Start
  <2>2. pen = Nothing /\ pen' = Nothing
    BY <1>6 DEF Start, Kept, PenBehindWhole
  <2> QED
    BY <2>1, <2>2, QuietBalances DEF Coming
<1>7. CASE UNCHANGED vars
  <2>1. Entries' = Entries
    BY <1>7 DEF vars, Entries, Written, Coming, Of, PointerTo
  <2> QED
    BY <1>7, <2>1 DEF vars, Balanced
<1> QED
  BY <1>1, <1>2, <1>3, <1>4, <1>5, <1>6, <1>7 DEF Next

LEMMA InitBalanced == Init => Balanced
<1> SUFFICES ASSUME Init PROVE Balanced
  OBVIOUS
<1>1. Filed(index) = {} /\ Shape(index) /\ ~index.open /\ crashes = 0
  BY DEF Init, Empty, Filed, Shape
<1>2. Entries = {}
  BY DEF Init, Empty, Entries, Written, Coming, Of, Readable
<1>3. IsFiniteSet({}) /\ Cardinality({}) = 0
  BY FS_EmptySet
<1>4. Balance({}, {}, FALSE, 0)
  BY <1>3 DEF Balance
<1> QED
  BY <1>1, <1>2, <1>4 DEF Balanced, Balance

---------------------------------------------------------------------------
(* What the queue shows, from what is filed. *)

LEMMA Injects ==
  ASSUME NEW A, IsFiniteSet(A), NEW X, \A u \in X : u[1] \in A,
         \A u, v \in X : u[1] = v[1] => u = v
  PROVE  IsFiniteSet(X) /\ Cardinality(X) <= Cardinality(A)
<1> DEFINE f == [u \in X |-> u[1]]
<1>1. f \in Injection(X, A)
  BY DEF Injection, IsInjective
<1> QED
  BY <1>1, FS_Injection

LEMMA UnderItsNumber ==
  ASSUME NEW f, Sound(f), NEW r \in Readable(f)
  PROVE  r.seq \in 1..Len(f.lines) /\ r = f.lines[r.seq].recs[1]
<1>1. PICK i \in 1..Len(f.lines) : Parses(f.lines[i]) /\ r = f.lines[i].recs[1]
  BY DEF Readable
<1>2. ~(f.open /\ i = Len(f.lines))
  BY <1>1 DEF Sound, Last, Parses
<1>3. HoldsItsOwn(f, i)
  BY <1>2 DEF Sound
<1> QED
  BY <1>1, <1>3 DEF HoldsItsOwn

LEMMA OneEach ==
  ASSUME Kept, NEW l \in Ledgers, NEW q \in Of(l), NEW r \in Of(l), q.seq = r.seq
  PROVE  q = r
BY UnderItsNumber DEF Kept, FilesSound, Of

LEMMA PenIsNew ==
  ASSUME Kept, pen # Nothing, NEW r \in Of(pen.ledger)
  PROVE  r.seq # pen.rec.seq
<1>1. pen.ledger \in Ledgers
  BY DEF Kept, TypeOK
<1>2. Sound(file[pen.ledger]) /\ pen.rec.seq = Len(file[pen.ledger].lines) + 1
  BY <1>1 DEF Kept, FilesSound, PenBehindWhole
<1>3. r.seq \in 1..Len(file[pen.ledger].lines) /\ Len(file[pen.ledger].lines) \in Nat
  BY <1>2, UnderItsNumber DEF Of, Sound, Files
<1> QED
  BY <1>2, <1>3

LEMMA ReadFromTheIndex ==
  ASSUME NEW f \in Files(Pointers)
  PROVE  /\ Readable(f) \subseteq Filed(f) \cup (IF f.open THEN {Last(f).recs[1]} ELSE {})
         /\ Filed(f) \subseteq Readable(f) /\ Readable(f) \subseteq Pointers
<1>1. f.lines \in Seq(Lines(Pointers))
  BY DEF Files
<1>2. Filed(f) \subseteq Readable(f)
  BY DEF Filed, Readable, Ended
<1>3. ASSUME NEW i \in 1..Len(f.lines), Parses(f.lines[i])
      PROVE  f.lines[i].recs[1] \in Pointers
  <2>1. f.lines[i] \in Lines(Pointers)
    BY <1>1
  <2> DEFINE x == f.lines[i]
  <2> HIDE DEF x
  <2>2. x.recs \in Seq(Pointers) /\ Len(x.recs) = 1
    BY <2>1, <1>3 DEF Lines, Parses, x
  <2>3. x.recs[1] \in Pointers
    BY <2>2
  <2> QED
    BY <2>3 DEF x
<1>4. ASSUME NEW i \in 1..Len(f.lines), Parses(f.lines[i])
      PROVE  f.lines[i].recs[1] \in Filed(f) \cup (IF f.open THEN {Last(f).recs[1]} ELSE {})
  <2>1. CASE Ended(f, i)
    BY <2>1 DEF Filed
  <2>2. CASE ~Ended(f, i)
    BY <2>2, <1>4 DEF Ended, Last
  <2> QED
    BY <2>1, <2>2
<1> QED
  BY <1>2, <1>3, <1>4 DEF Readable

(* An item the queue does not show is an entry that is not filed. *)
LEMMA HiddenItems ==
  ASSUME Kept, Balanced
  PROVE  LET H == Entries \ Filed(index)
         IN  /\ IsFiniteSet(Owed \ QueueItems)
             /\ Cardinality(Owed \ QueueItems) <= Cardinality(H)
<1> DEFINE H == Entries \ Filed(index)  X == Owed \ QueueItems
<1>1. IsFiniteSet(H)
  BY DEF Balanced, Balance
<1>2. ASSUME NEW u \in X
      PROVE  \E l, r : /\ l \in Ledgers /\ r \in Of(l) /\ u = <<PointerTo(l, r), r>>
                       /\ r.event \in Queued /\ IsOpen(l, r)
  BY DEF Owed, Queued
<1>3. \A u \in X : u[1] \in H
  <2> TAKE u \in X
  <2>1. PICK l, r : /\ l \in Ledgers /\ r \in Of(l) /\ u = <<PointerTo(l, r), r>>
                    /\ r.event \in Queued /\ IsOpen(l, r)
    BY <1>2
  <2>2. u[1] \in Entries
    BY <2>1 DEF Entries, Written
  <2>3. u[1] \notin Readable(index)
    <3> SUFFICES ASSUME u[1] \in Readable(index) PROVE u \in QueueItems
      OBVIOUS
    <3>1. u[1].ledger = l /\ u[1].seq = r.seq
      BY <2>1 DEF PointerTo
    <3> QED
      BY <2>1, <3>1 DEF QueueItems
  <2>4. Filed(index) \subseteq Readable(index)
    BY Counts, ReadFromTheIndex DEF Kept
  <2> QED
    BY <2>2, <2>3, <2>4
<1>4. \A u, v \in X : u[1] = v[1] => u = v
  <2> TAKE u, v \in X
  <2> HAVE u[1] = v[1]
  <2>1. PICK l, r : l \in Ledgers /\ r \in Of(l) /\ u = <<PointerTo(l, r), r>>
    BY <1>2
  <2>2. PICK k, q : k \in Ledgers /\ q \in Of(k) /\ v = <<PointerTo(k, q), q>>
    BY <1>2
  <2>3. l = k /\ r.seq = q.seq
    BY <2>1, <2>2 DEF PointerTo
  <2> QED
    BY <2>1, <2>2, <2>3, OneEach
<1> HIDE DEF H, X
<1>5. IsFiniteSet(X) /\ Cardinality(X) <= Cardinality(H)
  BY <1>1, <1>3, <1>4, Injects
<1> QED
  BY <1>5 DEF H, X

(* An item that is not owed stands behind a pointer whose record is another, or *)
(* behind the index's last line, which a crash left without its newline.       *)
LEMMA StaleItems ==
  ASSUME Kept, Balanced
  PROVE  LET S == Filed(index) \ Entries
         IN  /\ IsFiniteSet(QueueItems \ Owed)
             /\ Cardinality(QueueItems \ Owed)
                  <= Cardinality(S) + (IF index.open THEN 1 ELSE 0)
<1> DEFINE S == Filed(index) \ Entries  X == QueueItems \ Owed  p == Last(index).recs[1]
           A == IF index.open THEN S \cup {p} ELSE S
<1>1. IsFiniteSet(S)
  BY DEF Balanced, Balance
<1>2. Readable(index) \subseteq Filed(index) \cup (IF index.open THEN {p} ELSE {})
      /\ Readable(index) \subseteq Pointers
  BY Counts, ReadFromTheIndex DEF Kept
<1>3. ASSUME NEW u \in X
      PROVE  \E o, r : /\ o \in Readable(index) /\ r \in Of(o.ledger) /\ u = <<o, r>>
                       /\ r.seq = o.seq /\ IsOpen(o.ledger, r)
  BY DEF QueueItems
<1>4. \A u \in X : u[1] \in A
  <2> TAKE u \in X
  <2>1. PICK o, r : /\ o \in Readable(index) /\ r \in Of(o.ledger) /\ u = <<o, r>>
                    /\ r.seq = o.seq /\ IsOpen(o.ledger, r)
    BY <1>3
  <2>2. o.ledger \in Ledgers
    <3>1. o \in Pointers
      BY <1>2, <2>1
    <3> QED
      BY <3>1 DEF Pointers
  <2>3. o \notin Written
    <3> SUFFICES ASSUME NEW l \in Ledgers, NEW q \in Of(l), q.event \in Queued, o = PointerTo(l, q)
                 PROVE  u \in Owed
      BY DEF Written
    <3>1. o.ledger = l /\ q.seq = r.seq
      BY <2>1 DEF PointerTo
    <3>2. q = r
      BY <2>1, <2>2, <3>1, OneEach
    <3> QED
      BY <2>1, <3>1, <3>2 DEF Owed, Queued
  <2>4. o \notin Coming
    <3> SUFFICES ASSUME pen # Nothing, o = PointerTo(pen.ledger, pen.rec) PROVE FALSE
      BY DEF Coming
    <3>1. o.ledger = pen.ledger /\ r.seq = pen.rec.seq
      BY <2>1 DEF PointerTo
    <3> QED
      BY <2>1, <3>1, PenIsNew
  <2> QED
    BY <1>2, <2>1, <2>3, <2>4 DEF Entries
<1>5. \A u, v \in X : u[1] = v[1] => u = v
  <2> TAKE u, v \in X
  <2> HAVE u[1] = v[1]
  <2>1. PICK o, r : o \in Readable(index) /\ r \in Of(o.ledger) /\ u = <<o, r>> /\ r.seq = o.seq
    BY <1>3
  <2>2. PICK w, q : w \in Readable(index) /\ q \in Of(w.ledger) /\ v = <<w, q>> /\ q.seq = w.seq
    BY <1>3
  <2>3. o.ledger \in Ledgers /\ o = w
    BY <1>2, <2>1, <2>2 DEF Pointers
  <2> QED
    BY <2>1, <2>2, <2>3, OneEach
<1> HIDE DEF X, S, p
<1>6. /\ IsFiniteSet(A) /\ Cardinality(A) <= Cardinality(S) + (IF index.open THEN 1 ELSE 0)
      /\ Cardinality(A) \in Nat /\ Cardinality(S) \in Nat
  <2>1. CASE index.open
    <3>1. A \subseteq S \cup {p}
      BY <2>1
    <3> HIDE DEF A
    <3> QED
      BY <2>1, <3>1, <1>1, AtMostOneMore
  <2>2. CASE ~index.open
    <3>1. A = S
      BY <2>2
    <3> HIDE DEF A
    <3>2. Cardinality(S) \in Nat
      BY <1>1, FS_CardinalityType
    <3> QED
      BY <2>2, <3>1, <3>2, <1>1
  <2> QED
    BY <2>1, <2>2
<1> HIDE DEF A
<1>7. IsFiniteSet(X) /\ Cardinality(X) <= Cardinality(A)
  BY <1>4, <1>5, <1>6, Injects
<1>8. Cardinality(X) \in Nat
  BY <1>7, FS_CardinalityType
<1>9. Cardinality(X) <= Cardinality(S) + (IF index.open THEN 1 ELSE 0)
  BY <1>6, <1>7, <1>8
<1> QED
  BY <1>7, <1>9 DEF X, S

(* Whatever is appended, torn, resolved and started again, what the queue shows *)
(* and what is open differ by at most one entry for each crash there was: the   *)
(* append's two writes lose nothing but what a crash cut between them.         *)
THEOREM OneEntryPerCrash == ASSUME OnlyParts PROVE Spec => []ACrashCostsOneEntry
<1>1. Init => Kept /\ Balanced
  BY InitKept, InitBalanced
<1>2. Kept /\ Balanced /\ [Next]_vars => (Kept /\ Balanced)'
  BY NextKeeps, NextBalances
<1>3. Kept /\ Balanced => ACrashCostsOneEntry
  <2> SUFFICES ASSUME Kept, Balanced PROVE ACrashCostsOneEntry
    OBVIOUS
  <2> DEFINE h == Cardinality(Entries \ Filed(index))  s == Cardinality(Filed(index) \ Entries)
             i == Cardinality(Owed \ QueueItems)  j == Cardinality(QueueItems \ Owed)
             b == IF index.open THEN 1 ELSE 0
  <2>1. h + s + b <= crashes /\ h \in Nat /\ s \in Nat /\ b \in Nat /\ crashes \in Nat
    BY Counts, FS_CardinalityType DEF Kept, Balanced, Balance
  <2>2. i <= h /\ i \in Nat
    BY HiddenItems, FS_CardinalityType
  <2>3. j <= s + b /\ j \in Nat
    BY StaleItems, FS_CardinalityType
  <2> HIDE DEF h, s, i, j, b
  <2>4. i + j <= crashes
    BY <2>1, <2>2, <2>3
  <2> QED
    BY <2>4 DEF ACrashCostsOneEntry, i, j
<1> QED
  BY <1>1, <1>2, <1>3, PTL DEF Spec

(* All of what crashes cost: no record that was answered for, no start, and of   *)
(* the queue one entry each.                                                  *)
THEOREM CrashesAreCheap == ASSUME OnlyParts PROVE Spec => []CrashesCostEntriesOnly
<1>1. CommittedStaysReadable /\ EveryLedgerOpens /\ ACrashCostsOneEntry => CrashesCostEntriesOnly
  BY DEF CrashesCostEntriesOnly
<1> QED
  BY <1>1, CommittedForGood, LedgersOpen, OneEntryPerCrash, PTL
===========================================================================
