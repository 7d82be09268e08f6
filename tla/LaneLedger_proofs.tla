------------------------- MODULE LaneLedger_proofs --------------------------
(***************************************************************************)
(* What the ledger of a run says before and behind a stamp, whatever is    *)
(* stamped.  The stages of a lane read it by the kinds and the order of    *)
(* its events: a stamp keeps the order of what it does not stamp, and may  *)
(* drop one older event of its own name.  The proofs about those stages    *)
(* stand on these lemmas.                                                  *)
(***************************************************************************)
EXTENDS LaneLedger, TLAPS, SequenceTheorems, FiniteSetTheorems, WellFoundedInduction

---------------------------------------------------------------------------
(* The ledger.  A stamp drops at most one older event and moves the others   *)
(* up, so what a handler reads of the kinds it did not stamp stays as it was.*)

(* Newest reads the largest of a set of indexes.                             *)
LEMMA MaxIs ==
  ASSUME NEW S \in SUBSET Nat, NEW n \in Nat, \A i \in S : i <= n, S # {}
  PROVE  Max(S) \in S /\ \A i \in S : i <= Max(S)
<1> DEFINE T == {m \in Nat : \A i \in S : i <= m}
<1>1. PICK m \in T : \A k \in T : <<k, m>> \notin OpToRel(<, Nat)
  <2>1. T \subseteq Nat /\ n \in T
    OBVIOUS
  <2>2. T # {}
    BY <2>1
  <2> HIDE DEF T
  <2> QED
    BY <2>1, <2>2, NatLessThanWellFounded, WFMin
<1>2. m \in S
  <2>1. SUFFICES ASSUME m \notin S PROVE FALSE
    OBVIOUS
  <2>2. m \in Nat /\ \A i \in S : i \in Nat /\ i < m
    BY <2>1
  <2>3. m - 1 \in T
    <3>1. PICK i \in S : i < m
      BY <2>2
    <3>2. m - 1 \in Nat /\ \A k \in S : k <= m - 1
      BY <2>2, <3>1
    <3> QED
      BY <3>2
  <2>4. <<m - 1, m>> \in OpToRel(<, Nat)
    BY <2>2, <2>3 DEF OpToRel
  <2> QED
    BY <1>1, <2>3, <2>4
<1>3. \A i \in S : m >= i
  BY <1>1
<1>4. Max(S) \in S /\ \A i \in S : Max(S) >= i
  BY <1>2, <1>3 DEF Max
<1> QED
  BY <1>4

LEMMA NewestIs ==
  ASSUME NEW S, NEW n \in Nat, S \subseteq 1..n
  PROVE  /\ S = {} => Newest(S) = 0
         /\ S # {} => Newest(S) \in S
         /\ Newest(S) \in 0..n /\ \A i \in S : i <= Newest(S)
<1>1. S \cup {0} \in SUBSET Nat /\ S \cup {0} # {} /\ \A i \in S \cup {0} : i <= n
  OBVIOUS
<1>2. Newest(S) \in S \cup {0} /\ \A i \in S \cup {0} : i <= Newest(S)
  <2> HIDE DEF Newest
  <2> QED
    BY <1>1, MaxIs DEF Newest
<1> HIDE DEF Newest
<1>3. Newest(S) \in 0..n /\ \A i \in S : i <= Newest(S)
  <2>1. Newest(S) \in S \/ Newest(S) = 0
    BY <1>2
  <2>2. \A i \in S : i <= Newest(S)
    BY <1>2
  <2>3. S \subseteq 0..n /\ 0 \in 0..n
    OBVIOUS
  <2> QED
    BY <2>1, <2>2, <2>3
<1>4. ASSUME S # {} PROVE Newest(S) \in S
  <2>1. PICK i \in S : i \in 1..n
    BY <1>4
  <2>2. i <= Newest(S)
    BY <1>3
  <2>3. Newest(S) # 0
    BY <1>3, <2>1, <2>2
  <2> QED
    BY <1>2, <2>3
<1>5. S = {} => Newest(S) = 0
  BY <1>2
<1> QED
  BY <1>3, <1>4, <1>5


(* Leaving one index of a sequence out keeps the others in their order.      *)
LEMMA CutIs ==
  ASSUME NEW S, NEW s \in Seq(S), NEW i \in DOMAIN s
  PROVE  LET t == SubSeq(s, 1, i - 1) \o SubSeq(s, i + 1, Len(s))
         IN /\ t \in Seq(S) /\ Len(t) = Len(s) - 1
            /\ \A k \in 1..(Len(s) - 1) : t[k] = s[IF k < i THEN k ELSE k + 1]
<1> DEFINE a == SubSeq(s, 1, i - 1)
           b == SubSeq(s, i + 1, Len(s))
<1>1. i \in 1..Len(s) /\ Len(s) \in Nat /\ \A k \in 1..Len(s) : s[k] \in S
  OBVIOUS
<1>2. a \in Seq(S) /\ Len(a) = i - 1 /\ \A k \in 1..(i - 1) : a[k] = s[k]
  <2>1. \A k \in 1..(i - 1) : s[k] \in S
    BY <1>1
  <2> QED
    BY <1>1, <2>1, SubSeqProperties
<1>3. b \in Seq(S) /\ Len(b) = Len(s) - i /\ \A k \in 1..(Len(s) - i) : b[k] = s[k + i]
  <2>1. \A k \in (i + 1)..Len(s) : s[k] \in S
    BY <1>1
  <2> QED
    BY <1>1, <2>1, SubSeqProperties
<1> HIDE DEF a, b
<1>4. /\ a \o b \in Seq(S) /\ Len(a \o b) = Len(s) - 1
      /\ \A k \in 1..(Len(s) - 1) : (a \o b)[k] = IF k < i THEN a[k] ELSE b[k - (i - 1)]
  <2>1. /\ a \o b \in Seq(S) /\ Len(a \o b) = Len(a) + Len(b)
        /\ \A k \in 1..(Len(a) + Len(b)) : (a \o b)[k] = IF k <= Len(a) THEN a[k] ELSE b[k - Len(a)]
    BY <1>2, <1>3, ConcatProperties
  <2>2. Len(a) + Len(b) = Len(s) - 1 /\ Len(a) = i - 1 /\ \A k \in Nat : k <= i - 1 <=> k < i
    BY <1>1, <1>2, <1>3
  <2> QED
    BY <2>1, <2>2
<1>5. ASSUME NEW k \in 1..(Len(s) - 1)
      PROVE  (a \o b)[k] = s[IF k < i THEN k ELSE k + 1]
  <2>1. CASE k < i
    BY <2>1, <1>1, <1>2, <1>4
  <2>2. CASE ~(k < i)
    <3>1. k - (i - 1) \in 1..(Len(s) - i) /\ k - (i - 1) + i = k + 1
      BY <2>2, <1>1
    <3>2. b[k - (i - 1)] = s[k + 1]
      BY <3>1, <1>3
    <3> QED
      BY <2>2, <3>2, <1>4
  <2> QED
    BY <2>1, <2>2
<1> QED
  BY <1>4, <1>5 DEF a, b

(* How a stamp moves the events that stand before it: none but older events  *)
(* of its key are dropped, and the others keep their order.                  *)
Shifted(l, w, x, sh) ==
  /\ Len(w) \in Nat \ {0} /\ DOMAIN w = 1..Len(w) /\ w[Len(w)] = x
  /\ \A k \in DOMAIN sh : k \in DOMAIN l /\ sh[k] \in 1..(Len(w) - 1) /\ w[sh[k]] = l[k]
  /\ \A j \in 1..(Len(w) - 1) : \E k \in DOMAIN sh : sh[k] = j
  /\ \A k \in DOMAIN l \ DOMAIN sh : Key(l[k]) = Key(x)
  /\ \A a, b \in DOMAIN sh : a < b <=> sh[a] < sh[b]
  /\ (\A i, j \in Same(l, x) : i = j) => \A k \in DOMAIN sh : Key(l[k]) # Key(x)

(* Where the indexes S go. *)
Dest(sh, S) == {sh[k] : k \in S}

LEMMA WithMoves ==
  ASSUME NEW l, l \in Seq(Range(l)), NEW x
  PROVE  With(l, x) \in Seq(Range(With(l, x))) /\ \E sh : Shifted(l, With(l, x), x, sh)
<1> DEFINE S == Range(l) \cup {x}
           same == Same(l, x)
           rest == Without(l, same)
           w == With(l, x)
<1>1. l \in Seq(S) /\ DOMAIN l = 1..Len(l) /\ Len(l) \in Nat
  OBVIOUS
<1>2. \E sh : /\ rest \in Seq(S)
              /\ \A k \in DOMAIN sh : k \in DOMAIN l /\ sh[k] \in 1..Len(rest) /\ rest[sh[k]] = l[k]
              /\ \A j \in 1..Len(rest) : \E k \in DOMAIN sh : sh[k] = j
              /\ \A k \in DOMAIN l \ DOMAIN sh : Key(l[k]) = Key(x)
              /\ \A a, b \in DOMAIN sh : a < b <=> sh[a] < sh[b]
              /\ (\A i, j \in same : i = j) => \A k \in DOMAIN sh : Key(l[k]) # Key(x)
  <2>1. CASE same = {}
    <3>1. rest = l
      BY <2>1 DEF Without
    <3> DEFINE sh == [k \in DOMAIN l |-> k]
    <3>2. /\ \A k \in DOMAIN sh : k \in DOMAIN l /\ sh[k] \in 1..Len(l) /\ l[sh[k]] = l[k]
          /\ \A j \in 1..Len(l) : \E k \in DOMAIN sh : sh[k] = j
          /\ DOMAIN l \ DOMAIN sh = {}
          /\ \A a, b \in DOMAIN sh : a < b <=> sh[a] < sh[b]
      BY <1>1
    <3>3. \A k \in DOMAIN sh : Key(l[k]) # Key(x)
      BY <2>1 DEF Same
    <3> HIDE DEF sh
    <3> QED
      BY <3>1, <3>2, <3>3, <1>1
  <2>2. CASE same # {}
    <3>1. PICK i : i = Max(same)
      OBVIOUS
    <3>2. i \in DOMAIN l /\ Key(l[i]) = Key(x)
      <4>1. same \in SUBSET Nat /\ \A k \in same : k <= Len(l)
        BY <1>1 DEF Same
      <4>2. i \in same
        BY <4>1, <2>2, <3>1, <1>1, MaxIs
      <4> QED
        BY <4>2 DEF Same
    <3>3. rest = SubSeq(l, 1, i - 1) \o SubSeq(l, i + 1, Len(l))
      BY <2>2, <3>1 DEF Without
    <3>4. /\ rest \in Seq(S) /\ Len(rest) = Len(l) - 1
          /\ \A k \in 1..(Len(l) - 1) : rest[k] = l[IF k < i THEN k ELSE k + 1]
      BY <3>2, <3>3, <1>1, CutIs
    <3> HIDE DEF rest, same
    <3> DEFINE sh == [k \in DOMAIN l \ {i} |-> IF k < i THEN k ELSE k - 1]
    <3>5. ASSUME NEW k \in DOMAIN sh
          PROVE  k \in DOMAIN l /\ sh[k] \in 1..Len(rest) /\ rest[sh[k]] = l[k]
      <4>1. k \in DOMAIN l /\ k # i /\ sh[k] = (IF k < i THEN k ELSE k - 1)
        OBVIOUS
      <4> HIDE DEF sh
      <4>2. sh[k] \in 1..(Len(l) - 1) /\ (IF sh[k] < i THEN sh[k] ELSE sh[k] + 1) = k
        BY <4>1, <3>2, <1>1
      <4>3. rest[sh[k]] = l[k]
        BY <4>2, <3>4
      <4> QED
        BY <4>1, <4>2, <4>3, <3>4
    <3>6. \A j \in 1..Len(rest) : \E k \in DOMAIN sh : sh[k] = j
      <4> SUFFICES ASSUME NEW j \in 1..Len(rest) PROVE \E k \in DOMAIN sh : sh[k] = j
        OBVIOUS
      <4> DEFINE k == IF j < i THEN j ELSE j + 1
      <4>1. k \in DOMAIN sh /\ sh[k] = j
        BY <3>2, <3>4, <1>1
      <4> HIDE DEF k, sh
      <4> QED
        BY <4>1
    <3>7. \A a, b \in DOMAIN sh : a < b <=> sh[a] < sh[b]
      BY <3>2, <1>1
    <3>8. \A k \in DOMAIN l \ DOMAIN sh : Key(l[k]) = Key(x)
      BY <3>2
    <3>9. (\A a, b \in same : a = b) => \A k \in DOMAIN sh : Key(l[k]) # Key(x)
      <4> SUFFICES ASSUME \A a, b \in same : a = b, NEW k \in DOMAIN sh, Key(l[k]) = Key(x) PROVE FALSE
        OBVIOUS
      <4>1. k \in DOMAIN l /\ k # i
        OBVIOUS
      <4>2. k \in same /\ i \in same
        BY <4>1, <3>2 DEF Same, same
      <4> QED
        BY <4>1, <4>2
    <3> HIDE DEF sh
    <3> QED
      BY <3>4, <3>5, <3>6, <3>7, <3>8, <3>9
  <2> QED
    BY <2>1, <2>2
<1> HIDE DEF rest, same
<1>3. w = Append(rest, x)
  BY DEF With, rest, same
<1>4. PICK sh : /\ rest \in Seq(S)
                /\ \A k \in DOMAIN sh : k \in DOMAIN l /\ sh[k] \in 1..Len(rest) /\ rest[sh[k]] = l[k]
                /\ \A j \in 1..Len(rest) : \E k \in DOMAIN sh : sh[k] = j
                /\ \A k \in DOMAIN l \ DOMAIN sh : Key(l[k]) = Key(x)
                /\ \A a, b \in DOMAIN sh : a < b <=> sh[a] < sh[b]
                /\ (\A i, j \in same : i = j) => \A k \in DOMAIN sh : Key(l[k]) # Key(x)
  BY <1>2
<1>5. /\ Len(w) = Len(rest) + 1 /\ Len(rest) \in Nat /\ DOMAIN w = 1..Len(w) /\ w[Len(w)] = x
      /\ \A k \in 1..Len(rest) : w[k] = rest[k]
  BY <1>3, <1>4
<1>6. Len(w) - 1 = Len(rest) /\ Len(w) \in Nat \ {0}
  BY <1>5
<1> HIDE DEF w
<1>7. \A k \in DOMAIN sh : k \in DOMAIN l /\ sh[k] \in 1..(Len(w) - 1) /\ w[sh[k]] = l[k]
  BY <1>4, <1>5, <1>6
<1>8. Shifted(l, w, x, sh)
  BY <1>4, <1>5, <1>6, <1>7 DEF Shifted, same
<1>9. w \in Seq(Range(w))
  <2>1. w \in Seq(S)
    BY <1>3, <1>4
  <2>2. \A j \in 1..Len(w) : w[j] \in Range(w)
    BY <1>5 DEF Range
  <2> QED
    BY <2>1, <2>2
<1> QED
  BY <1>8, <1>9 DEF w

LEMMA KeyTells ==
  ASSUME NEW x, NEW y, Key(x) = Key(y)
  PROVE  /\ x.e = y.e
         /\ "nth" \notin DOMAIN x /\ "nth" \notin DOMAIN y => x.of = y.of
BY DEF Key

LEMMA StampShifts ==
  ASSUME led \in Seq(Range(led)), NEW x, Stamp(x)
  PROVE  /\ led' \in Seq(Range(led')) /\ \A y \in Range(led') : y = x \/ y \in Range(led)
         /\ \E sh : Shifted(led, led', x, sh)
<1>1. led' = With(led, x) /\ led \in Seq(Range(led))
  BY DEF Stamp
<1>2. led' \in Seq(Range(led')) /\ \E sh : Shifted(led, led', x, sh)
  <2> HIDE DEF Shifted
  <2>1. With(led, x) \in Seq(Range(With(led, x))) /\ \E sh : Shifted(led, With(led, x), x, sh)
    BY <1>1, WithMoves
  <2> QED
    BY <2>1, <1>1
<1>3. PICK sh : Shifted(led, led', x, sh)
  BY <1>2
<1>4. ASSUME NEW y \in Range(led')
      PROVE  y = x \/ y \in Range(led)
  <2>1. PICK i \in DOMAIN led' : led'[i] = y
    BY DEF Range
  <2>2. i = Len(led') \/ i \in 1..(Len(led') - 1)
    BY <1>3 DEF Shifted
  <2>3. CASE i = Len(led')
    BY <2>1, <2>3, <1>3 DEF Shifted
  <2>4. CASE i \in 1..(Len(led') - 1)
    <3>1. PICK k \in DOMAIN sh : sh[k] = i
      BY <2>4, <1>3 DEF Shifted
    <3> QED
      BY <3>1, <2>1, <1>3 DEF Shifted, Range
  <2> QED
    BY <2>2, <2>3, <2>4
<1> QED
  BY <1>2, <1>4

(* The indexes of a kind that is not stamped move together.                  *)
LEMMA KindMoves ==
  ASSUME NEW x, NEW sh, Shifted(led, led', x, sh), NEW e, e # x.e
  PROVE  /\ SeqsOf(e) \subseteq DOMAIN sh /\ SeqsOf(e)' = Dest(sh, SeqsOf(e))
         /\ \A of : Seqs(e, of) \subseteq DOMAIN sh /\ Seqs(e, of)' = Dest(sh, Seqs(e, of))
<1>1. \A k \in DOMAIN led \ DOMAIN sh : led[k].e = x.e
  BY KeyTells DEF Shifted
<1>2. \A j \in DOMAIN led' : j = Len(led') \/ j \in 1..(Len(led') - 1)
  BY DEF Shifted
<1>3. led'[Len(led')].e = x.e
  BY DEF Shifted
<1>4. /\ \A k \in DOMAIN sh : k \in DOMAIN led /\ sh[k] \in DOMAIN led' /\ led'[sh[k]] = led[k]
      /\ \A j \in 1..(Len(led') - 1) : \E k \in DOMAIN sh : sh[k] = j
  BY DEF Shifted
<1>5. SeqsOf(e) \subseteq DOMAIN sh /\ SeqsOf(e)' = Dest(sh, SeqsOf(e))
  BY <1>1, <1>2, <1>3, <1>4 DEF SeqsOf, Dest
<1>6. \A of : Seqs(e, of) \subseteq DOMAIN sh /\ Seqs(e, of)' = Dest(sh, Seqs(e, of))
  BY <1>1, <1>2, <1>3, <1>4 DEF Seqs, Dest
<1> QED
  BY <1>5, <1>6

LEMMA NameShifts ==
  ASSUME NEW x, NEW sh, Shifted(led, led', x, sh), NEW of, of # x.of, "nth" \notin DOMAIN x,
         \A k \in DOMAIN led : led[k].e = x.e => "nth" \notin DOMAIN led[k]
  PROVE  Seqs(x.e, of) \subseteq DOMAIN sh /\ Seqs(x.e, of)' = Dest(sh, Seqs(x.e, of))
<1>1. ASSUME NEW k \in DOMAIN led \ DOMAIN sh
      PROVE  led[k].e = x.e /\ led[k].of = x.of
  <2>1. Key(led[k]) = Key(x)
    BY DEF Shifted
  <2> QED
    BY <2>1, KeyTells
<1>2. \A j \in DOMAIN led' : j = Len(led') \/ j \in 1..(Len(led') - 1)
  BY DEF Shifted
<1>3. led'[Len(led')].of = x.of
  BY DEF Shifted
<1>4. /\ \A k \in DOMAIN sh : k \in DOMAIN led /\ sh[k] \in DOMAIN led' /\ led'[sh[k]] = led[k]
      /\ \A j \in 1..(Len(led') - 1) : \E k \in DOMAIN sh : sh[k] = j
  BY DEF Shifted
<1> QED
  BY <1>1, <1>2, <1>3, <1>4 DEF Seqs, Dest

LEMMA ShiftIs ==
  ASSUME NEW x, NEW sh, Shifted(led, led', x, sh)
  PROVE  /\ Len(led') \in DOMAIN led' /\ led'[Len(led')] = x
         /\ \A j \in DOMAIN led' : j \in Nat /\ j > 0 /\ j <= Len(led')
         /\ \A j \in DOMAIN led' : j = Len(led') \/ \E k \in DOMAIN sh : sh[k] = j
         /\ \A k \in DOMAIN sh : k \in DOMAIN led /\ sh[k] \in DOMAIN led' /\ sh[k] < Len(led') /\ led'[sh[k]] = led[k]
BY DEF Shifted

LEMMA ImageReaches ==
  ASSUME NEW sh, \A a, b \in DOMAIN sh : a < b <=> sh[a] < sh[b],
         NEW A, NEW B, A \subseteq DOMAIN sh, B \subseteq DOMAIN sh,
         NEW C, NEW D, C = Dest(sh, A), D = Dest(sh, B)
  PROVE  (\E s \in A : \A j \in B : j < s) <=> (\E s \in C : \A j \in D : j < s)
BY DEF Dest

LEMMA MovesInOrder ==
  ASSUME NEW x, NEW sh, Shifted(led, led', x, sh)
  PROVE  \A a, b \in DOMAIN sh : a < b <=> sh[a] < sh[b]
BY DEF Shifted

LEMMA NewestMoves ==
  ASSUME NEW x, NEW sh, Shifted(led, led', x, sh), led \in Seq(Range(led)), NEW S, S \subseteq DOMAIN sh
  PROVE  LET T == Dest(sh, S)
         IN /\ S = {} => Newest(S) = 0 /\ Newest(T) = 0
            /\ S # {} => Newest(S) \in S /\ Newest(T) = sh[Newest(S)]
<1> DEFINE T == Dest(sh, S)
<1>1. S \subseteq 1..Len(led) /\ Len(led) \in Nat /\ T \subseteq 1..Len(led') /\ Len(led') \in Nat
  BY DEF Shifted, Dest
<1>2. /\ S = {} => Newest(S) = 0
      /\ S # {} => Newest(S) \in S /\ \A i \in S : i <= Newest(S)
  BY <1>1, NewestIs
<1>3. /\ T = {} => Newest(T) = 0
      /\ T # {} => Newest(T) \in T /\ \A i \in T : i <= Newest(T)
  <2> HIDE DEF T
  <2> QED
    BY <1>1, NewestIs
<1>4. CASE S = {}
  BY <1>2, <1>3, <1>4 DEF Dest
<1>5. CASE S # {}
  <2>1. PICK k \in S : Newest(T) = sh[k]
    BY <1>3, <1>5 DEF Dest
  <2>2. sh[Newest(S)] <= sh[k] /\ k <= Newest(S)
    BY <1>2, <1>3, <1>5, <2>1 DEF Dest
  <2>3. k \in DOMAIN sh /\ Newest(S) \in DOMAIN sh /\ sh[k] \in Nat /\ sh[Newest(S)] \in Nat /\ k \in Nat /\ Newest(S) \in Nat
    BY <1>1, <1>2, <1>5, <2>1 DEF Shifted
  <2>4. k < Newest(S) <=> sh[k] < sh[Newest(S)]
    BY <2>3 DEF Shifted
  <2>5. k = Newest(S)
    BY <2>2, <2>3, <2>4
  <2> QED
    BY <1>2, <1>5, <2>1, <2>5
<1> QED
  BY <1>4, <1>5

(* How a selection moves the events it keeps.                                *)
Rank(S, i) == Cardinality({j \in S : j <= i})

LEMMA RanksAre ==
  ASSUME NEW m \in Nat, NEW S \in SUBSET (1..m)
  PROVE  /\ Cardinality(S) \in Nat
         /\ \A i \in S : Rank(S, i) \in 1..Cardinality(S) /\ Nth(S, Rank(S, i)) = i
         /\ \A n \in 1..Cardinality(S) : Nth(S, n) \in S /\ Rank(S, Nth(S, n)) = n
         /\ \A i, k \in S : i < k <=> Rank(S, i) < Rank(S, k)
<1> DEFINE upto(i) == {j \in S : j <= i}
           rank == [i \in S |-> Cardinality(upto(i))]
           T == 1..Cardinality(S)
<1>1. IsFiniteSet(S) /\ Cardinality(S) \in Nat
  <2>1. IsFiniteSet(1..m)
    BY FS_Interval
  <2>2. IsFiniteSet(S)
    BY <2>1, FS_Subset
  <2> QED
    BY <2>2, FS_CardinalityType
<1>2. IsFiniteSet(T) /\ Cardinality(T) = Cardinality(S)
  BY <1>1, FS_Interval
<1>3. ASSUME NEW i \in S
      PROVE  IsFiniteSet(upto(i)) /\ Cardinality(upto(i)) \in T
  <2>1. upto(i) \in SUBSET S /\ i \in upto(i)
    OBVIOUS
  <2>2. IsFiniteSet(upto(i)) /\ Cardinality(upto(i)) <= Cardinality(S)
    BY <1>1, <2>1, FS_Subset
  <2>3. Cardinality(upto(i)) \in Nat /\ Cardinality(upto(i)) # 0
    BY <2>1, <2>2, FS_CardinalityType, FS_EmptySet
  <2> QED
    BY <1>1, <2>2, <2>3
<1> HIDE DEF upto
<1>4. ASSUME NEW i \in S, NEW k \in S, i < k
      PROVE  Cardinality(upto(i)) < Cardinality(upto(k))
  <2>1. upto(i) \in SUBSET upto(k) /\ k \in upto(k) /\ k \notin upto(i)
    <3>1. \A j \in S : j \in Nat
      OBVIOUS
    <3>2. /\ \A j \in S : j <= i => j <= k
          /\ k <= k /\ ~(k <= i)
      BY <3>1, <1>4
    <3> QED
      BY <3>2 DEF upto
  <2>2. IsFiniteSet(upto(k))
    BY <1>3
  <2>3. /\ Cardinality(upto(i)) <= Cardinality(upto(k))
        /\ Cardinality(upto(k)) = Cardinality(upto(i)) => upto(k) = upto(i)
    BY <2>1, <2>2, FS_Subset
  <2>4. Cardinality(upto(i)) \in Nat /\ Cardinality(upto(k)) \in Nat
    BY <1>1, <1>3
  <2> QED
    BY <2>1, <2>3, <2>4
<1>5. \A i, k \in S : i < k <=> rank[i] < rank[k]
  <2> SUFFICES ASSUME NEW i \in S, NEW k \in S PROVE i < k <=> rank[i] < rank[k]
    OBVIOUS
  <2>1. /\ i < k => Cardinality(upto(i)) < Cardinality(upto(k))
        /\ k < i => Cardinality(upto(k)) < Cardinality(upto(i))
    BY <1>4
  <2>2. Cardinality(upto(i)) \in Nat /\ Cardinality(upto(k)) \in Nat /\ i \in Nat /\ k \in Nat
    BY <1>1, <1>3
  <2>3. rank[i] = Cardinality(upto(i)) /\ rank[k] = Cardinality(upto(k))
    OBVIOUS
  <2>4. k = i => rank[i] = rank[k]
    OBVIOUS
  <2> HIDE DEF rank
  <2> QED
    BY <2>1, <2>2, <2>3, <2>4
<1>6. rank \in Injection(S, T)
  <2>1. rank \in [S -> T]
    BY <1>3
  <2>2. DOMAIN rank = S
    OBVIOUS
  <2> HIDE DEF rank
  <2>3. ASSUME NEW a \in S, NEW b \in S, rank[a] = rank[b]
        PROVE  a = b
    <3>1. rank[a] \in Nat /\ rank[b] \in Nat /\ a \in Nat /\ b \in Nat
      BY <2>1, <1>1
    <3>2. ~(a < b) /\ ~(b < a)
      BY <3>1, <2>3, <1>5
    <3> QED
      BY <3>1, <3>2
  <2> QED
    BY <2>1, <2>2, <2>3 DEF Injection, IsInjective
<1>7. rank \in Surjection(S, T)
  <2> HIDE DEF rank, T
  <2> QED
    BY <1>2, <1>6, FS_Injection
<1>8. \A i \in S : rank[i] = Rank(S, i)
  BY DEF Rank, upto
<1>9. rank \in [S -> T]
  BY <1>3
<1> HIDE DEF rank
<1>10. ASSUME NEW i \in S PROVE Nth(S, rank[i]) = i
  <2>1. \A k \in S : rank[k] = rank[i] => k = i
    BY <1>6 DEF Injection, IsInjective
  <2>2. Nth(S, rank[i]) = CHOOSE k \in S : Rank(S, k) = rank[i]
    BY DEF Nth, Rank
  <2>3. \A k \in S : Rank(S, k) = rank[i] <=> k = i
    BY <2>1, <1>8
  <2> QED
    BY <2>2, <2>3
<1>11. ASSUME NEW n \in 1..Cardinality(S) PROVE Nth(S, n) \in S /\ rank[Nth(S, n)] = n
  <2>1. PICK i \in S : rank[i] = n
    BY <1>7 DEF Surjection
  <2> QED
    BY <2>1, <1>10
<1>12. \A i \in S : Rank(S, i) \in 1..Cardinality(S) /\ Nth(S, Rank(S, i)) = i
  BY <1>8, <1>9, <1>10
<1>13. \A n \in 1..Cardinality(S) : Nth(S, n) \in S /\ Rank(S, Nth(S, n)) = n
  BY <1>8, <1>11
<1>14. \A i, k \in S : i < k <=> Rank(S, i) < Rank(S, k)
  BY <1>5, <1>8
<1> QED
  BY <1>1, <1>12, <1>13, <1>14

Selected(l, w, S, sh) ==
  /\ w \in Seq(Range(w)) /\ DOMAIN sh = S
  /\ \A k \in S : sh[k] \in DOMAIN w /\ w[sh[k]] = l[k]
  /\ \A j \in DOMAIN w : \E k \in S : sh[k] = j
  /\ \A a, b \in S : a < b <=> sh[a] < sh[b]

LEMMA OnlySelects ==
  ASSUME NEW l, l \in Seq(Range(l)), NEW S \in SUBSET (DOMAIN l)
  PROVE  /\ \E sh : Selected(l, Only(l, S), S, sh)
         /\ Range(Only(l, S)) \subseteq Range(l)
<1> DEFINE m == Len(l)
           n == Cardinality(S)
           w == Only(l, S)
           sh == [k \in S |-> Rank(S, k)]
<1>1. m \in Nat /\ S \in SUBSET (1..m) /\ DOMAIN l = 1..m
  OBVIOUS
<1>2. /\ n \in Nat
      /\ \A i \in S : Rank(S, i) \in 1..n /\ Nth(S, Rank(S, i)) = i
      /\ \A k \in 1..n : Nth(S, k) \in S /\ Rank(S, Nth(S, k)) = k
      /\ \A i, k \in S : i < k <=> Rank(S, i) < Rank(S, k)
  BY <1>1, RanksAre
<1>3. DOMAIN w = 1..n /\ w = [k \in 1..n |-> l[Nth(S, k)]] /\ \A k \in 1..n : w[k] = l[Nth(S, k)]
  BY DEF Only
<1> HIDE DEF w, n
<1>4. \A k \in 1..n : w[k] \in Range(l) /\ w[k] \in Range(w)
  BY <1>1, <1>2, <1>3 DEF Range
<1>5. w \in Seq(Range(w))
  <2>1. w \in [1..n -> Range(w)]
    BY <1>3, <1>4
  <2> QED
    BY <2>1, <1>2
<1>6. Range(w) \subseteq Range(l)
  BY <1>3, <1>4 DEF Range
<1>7. \A k \in S : sh[k] \in DOMAIN w /\ w[sh[k]] = l[k]
  BY <1>2, <1>3
<1>8. \A j \in DOMAIN w : \E k \in S : sh[k] = j
  BY <1>2, <1>3
<1>9. \A a, b \in S : a < b <=> sh[a] < sh[b]
  BY <1>2
<1>10. DOMAIN sh = S
  OBVIOUS
<1> HIDE DEF sh
<1>11. Selected(l, w, S, sh)
  BY <1>5, <1>7, <1>8, <1>9, <1>10 DEF Selected
<1> QED
  BY <1>6, <1>11 DEF w

LEMMA OnlyIs ==
  ASSUME NEW l, l \in Seq(Range(l)), NEW S \in SUBSET (DOMAIN l)
  PROVE  Only(l, S) \in Seq(Range(Only(l, S))) /\ Range(Only(l, S)) \subseteq Range(l)
BY OnlySelects DEF Selected

(* What stands behind the newest of some indexes stands behind all of them.  *)
LEMMA AfterNewest ==
  ASSUME NEW n \in Nat, NEW S, NEW T, S \subseteq 1..n, T \subseteq 1..n
  PROVE  After(S, Newest(T)) <=> \E i \in S : \A r \in T : r < i
<1>1. /\ T = {} => Newest(T) = 0
      /\ T # {} => Newest(T) \in T /\ \A r \in T : r <= Newest(T)
  BY NewestIs
<1>2. ASSUME NEW i \in S
      PROVE  i > Newest(T) <=> \A r \in T : r < i
  <2>1. i \in Nat /\ i > 0 /\ \A r \in T : r \in Nat
    OBVIOUS
  <2>2. CASE T = {}
    BY <1>1, <2>1, <2>2
  <2>3. CASE T # {}
    <3>1. PICK m \in T : m = Newest(T) /\ m \in Nat /\ \A r \in T : r <= m
      BY <1>1, <2>1, <2>3
    <3>2. i > m <=> \A r \in T : r < i
      BY <2>1, <3>1
    <3> QED
      BY <3>1, <3>2
  <2> QED
    BY <2>2, <2>3
<1> QED
  BY <1>2 DEF After

LEMMA ImageFollows ==
  ASSUME NEW sh, \A a, b \in DOMAIN sh : a < b <=> sh[a] < sh[b],
         \A a \in DOMAIN sh : a \in Nat /\ sh[a] \in Nat,
         NEW A, NEW B, A \subseteq DOMAIN sh, B \subseteq DOMAIN sh,
         NEW C, NEW D, C = Dest(sh, A), D = Dest(sh, B)
  PROVE  (\A p \in A : \E a \in B : a > p) <=> (\A p \in C : \E a \in D : a > p)
BY DEF Dest

(* Which of two kinds has the newest event.                                  *)
LEMMA NewestBeyond ==
  ASSUME NEW n \in Nat, NEW S, NEW T, S \subseteq 1..n, T \subseteq 1..n
  PROVE  Newest(T) > Newest(S) <=> \E i \in T : \A j \in S : j < i
<1>1. /\ S = {} => Newest(S) = 0
      /\ S # {} => Newest(S) \in S /\ \A j \in S : j <= Newest(S)
      /\ T = {} => Newest(T) = 0
      /\ T # {} => Newest(T) \in T /\ \A i \in T : i <= Newest(T)
  BY NewestIs
<1>2. (\A i \in T : i \in Nat /\ i > 0) /\ (\A j \in S : j \in Nat /\ j > 0)
  OBVIOUS
<1> HIDE DEF Newest
<1>3. PICK s : s = Newest(S) /\ s \in Nat /\ (s \in S \/ s = 0) /\ \A j \in S : j <= s
  BY <1>1, <1>2
<1>4. PICK t : t = Newest(T) /\ t \in Nat /\ (t \in T \/ (t = 0 /\ T = {})) /\ \A i \in T : i <= t
  BY <1>1, <1>2
<1>5. ASSUME t > s PROVE \E i \in T : \A j \in S : j < i
  <2>1. t \in T /\ \A j \in S : j < t
    BY <1>2, <1>3, <1>4, <1>5
  <2> QED
    BY <2>1
<1>6. ASSUME NEW i \in T, \A j \in S : j < i PROVE t > s
  BY <1>2, <1>3, <1>4, <1>6
<1> QED
  BY <1>3, <1>4, <1>5, <1>6

(* What a handler reads is where the newest of some events stands.           *)
IsLedger == led \in Seq(Range(led))

(* How many events a stamp moves.                                            *)
LEMMA DestCounts ==
  ASSUME NEW x, NEW sh, Shifted(led, led', x, sh), NEW S, S \subseteq DOMAIN sh, IsFiniteSet(S), led \in Seq(Range(led))
  PROVE  IsFiniteSet(Dest(sh, S)) /\ Cardinality(Dest(sh, S)) = Cardinality(S)
<1> DEFINE f == [k \in S |-> sh[k]]
<1>1. \A a \in DOMAIN sh : a \in Nat /\ sh[a] \in Nat
  BY DEF Shifted
<1>2. \A a, b \in DOMAIN sh : a < b <=> sh[a] < sh[b]
  BY MovesInOrder
<1>3. \A a, b \in S : sh[a] = sh[b] => a = b
  BY <1>1, <1>2
<1>4. f \in Bijection(S, Dest(sh, S))
  BY <1>3 DEF Bijection, Injection, Surjection, IsInjective, Dest
<1> QED
  BY <1>4, FS_Bijection DEF ExistsBijection

(* How the newest events move: m takes where they stood to where they stand. *)
Carried(l, w, x, m) ==
  /\ 0 \in DOMAIN m /\ m[0] = 0
  /\ Len(w) \in Nat \ {0} /\ w[Len(w)] = x
  /\ \A a \in DOMAIN m : a \in Nat /\ m[a] \in Nat /\ m[a] < Len(w) /\ (a > 0 => m[a] > 0 /\ w[m[a]] = l[a])
  /\ \A a, b \in DOMAIN m : a < b <=> m[a] < m[b]

Shifts(sh) == [n \in {0} \cup DOMAIN sh |-> IF n = 0 THEN 0 ELSE sh[n]]

LEMMA ShiftCarries ==
  ASSUME IsLedger, NEW x, NEW sh, Shifted(led, led', x, sh)
  PROVE  /\ Carried(led, led', x, Shifts(sh))
         /\ \A S : S \subseteq DOMAIN sh => /\ Newest(S) \in DOMAIN Shifts(sh)
                                            /\ Newest(Dest(sh, S)) = Shifts(sh)[Newest(S)]
<1> DEFINE m == Shifts(sh)
<1>3. DOMAIN led = 1..Len(led) /\ Len(led) \in Nat
  BY DEF IsLedger
<1>4. /\ Len(led') \in DOMAIN led' /\ led'[Len(led')] = x
      /\ \A j \in DOMAIN led' : j \in Nat /\ j > 0 /\ j <= Len(led')
      /\ \A k \in DOMAIN sh : k \in DOMAIN led /\ sh[k] \in DOMAIN led' /\ sh[k] < Len(led') /\ led'[sh[k]] = led[k]
  BY ShiftIs
<1>5. \A k \in DOMAIN sh : k \in Nat /\ k > 0
  BY <1>3, <1>4
<1>6. /\ DOMAIN m = {0} \cup DOMAIN sh /\ m[0] = 0 /\ 0 \notin DOMAIN sh
      /\ \A k \in DOMAIN sh : m[k] = sh[k]
  BY <1>5 DEF Shifts
<1>7. \A a, b \in DOMAIN sh : a < b <=> sh[a] < sh[b]
  BY MovesInOrder
<1> HIDE DEF m
<1>8. Carried(led, led', x, m)
  <2>1. Len(led') \in Nat \ {0}
    BY <1>4
  <2>2. ASSUME NEW a \in DOMAIN m
        PROVE  a \in Nat /\ m[a] \in Nat /\ m[a] < Len(led') /\ (a > 0 => m[a] > 0 /\ led'[m[a]] = led[a])
    BY <1>4, <1>5, <1>6, <2>1
  <2>3. ASSUME NEW a \in DOMAIN m, NEW b \in DOMAIN m PROVE a < b <=> m[a] < m[b]
    <3>1. CASE a \in DOMAIN sh /\ b \in DOMAIN sh
      BY <1>6, <1>7, <3>1
    <3>2. CASE a = 0 \/ b = 0
      <4>1. /\ \A k \in DOMAIN sh : k > 0 /\ k \in Nat /\ m[k] \in Nat /\ m[k] > 0
        BY <1>4, <1>5, <1>6
      <4>2. (a = 0 \/ a \in DOMAIN sh) /\ (b = 0 \/ b \in DOMAIN sh)
        BY <1>6
      <4> QED
        BY <1>6, <3>2, <4>1, <4>2
    <3> QED
      BY <1>6, <3>1, <3>2
  <2> QED
    BY <1>4, <1>6, <2>1, <2>2, <2>3 DEF Carried
<1>9. ASSUME NEW S, S \subseteq DOMAIN sh
      PROVE  Newest(S) \in DOMAIN m /\ Newest(Dest(sh, S)) = m[Newest(S)]
  BY <1>6, <1>9, NewestMoves DEF IsLedger
<1> QED
  BY <1>8, <1>9 DEF m

(* What is stamped is the newest of all it is among.                         *)
LEMMA NewestIsStamped ==
  ASSUME IsLedger, NEW x, Stamp(x)
  PROVE  \A S : S \subseteq DOMAIN led' /\ Len(led') \in S => Newest(S) = Len(led')
<1> SUFFICES ASSUME NEW S, S \subseteq DOMAIN led', Len(led') \in S PROVE Newest(S) = Len(led')
  OBVIOUS
<1>1. IsLedger' /\ S \subseteq 1..Len(led') /\ Len(led') \in Nat
  BY StampShifts DEF IsLedger
<1>2. Newest(S) \in S /\ \A i \in S : i <= Newest(S)
  BY <1>1, NewestIs
<1> HIDE DEF Newest
<1> QED
  BY <1>1, <1>2

LEMMA StampCarries ==
  ASSUME IsLedger, NEW x, Stamp(x)
  PROVE  \E m : /\ Carried(led, led', x, m)
                /\ \A e : e # x.e => Newest(SeqsOf(e)) \in DOMAIN m /\ Newest(SeqsOf(e))' = m[Newest(SeqsOf(e))]
                /\ \A e, of : e # x.e => Newest(Seqs(e, of)) \in DOMAIN m /\ Newest(Seqs(e, of))' = m[Newest(Seqs(e, of))]
                /\ "nth" \notin DOMAIN x /\ (\A k \in DOMAIN led : led[k].e = x.e => "nth" \notin DOMAIN led[k])
                     => \A of : of # x.of => /\ Newest(Seqs(x.e, of)) \in DOMAIN m
                                             /\ Newest(Seqs(x.e, of))' = m[Newest(Seqs(x.e, of))]
                /\ Newest(SeqsOf(x.e))' = Len(led') /\ Newest(Seqs(x.e, x.of))' = Len(led')
<1>1. PICK sh : Shifted(led, led', x, sh)
  BY StampShifts DEF IsLedger
<1>2. PICK m : /\ m = Shifts(sh) /\ Carried(led, led', x, m)
               /\ \A S : S \subseteq DOMAIN sh => Newest(S) \in DOMAIN m /\ Newest(Dest(sh, S)) = m[Newest(S)]
  BY <1>1, ShiftCarries
<1>3. ASSUME NEW e, e # x.e
      PROVE  Newest(SeqsOf(e)) \in DOMAIN m /\ Newest(SeqsOf(e))' = m[Newest(SeqsOf(e))]
  <2>1. SeqsOf(e) \subseteq DOMAIN sh /\ SeqsOf(e)' = Dest(sh, SeqsOf(e))
    BY <1>1, <1>3, KindMoves
  <2>2. Newest(SeqsOf(e))' = Newest(SeqsOf(e)')
    BY DEF Newest
  <2> QED
    BY <1>2, <2>1, <2>2
<1>4. ASSUME NEW e, NEW of, e # x.e
      PROVE  Newest(Seqs(e, of)) \in DOMAIN m /\ Newest(Seqs(e, of))' = m[Newest(Seqs(e, of))]
  <2>1. Seqs(e, of) \subseteq DOMAIN sh /\ Seqs(e, of)' = Dest(sh, Seqs(e, of))
    <3>1. \A o : Seqs(e, o) \subseteq DOMAIN sh /\ Seqs(e, o)' = Dest(sh, Seqs(e, o))
      BY <1>1, <1>4, KindMoves
    <3> QED
      BY <3>1
  <2>2. Newest(Seqs(e, of))' = Newest(Seqs(e, of)')
    BY DEF Newest
  <2> QED
    BY <1>2, <2>1, <2>2
<1>5. ASSUME NEW of, of # x.of, "nth" \notin DOMAIN x, \A k \in DOMAIN led : led[k].e = x.e => "nth" \notin DOMAIN led[k]
      PROVE  Newest(Seqs(x.e, of)) \in DOMAIN m /\ Newest(Seqs(x.e, of))' = m[Newest(Seqs(x.e, of))]
  <2>1. Seqs(x.e, of) \subseteq DOMAIN sh /\ Seqs(x.e, of)' = Dest(sh, Seqs(x.e, of))
    BY <1>1, <1>5, NameShifts
  <2>2. Newest(Seqs(x.e, of))' = Newest(Seqs(x.e, of)')
    BY DEF Newest
  <2> QED
    BY <1>2, <2>1, <2>2
<1>6. Newest(SeqsOf(x.e))' = Len(led') /\ Newest(Seqs(x.e, x.of))' = Len(led')
  <2>1. /\ SeqsOf(x.e)' \subseteq DOMAIN led' /\ Len(led') \in SeqsOf(x.e)'
        /\ Seqs(x.e, x.of)' \subseteq DOMAIN led' /\ Len(led') \in Seqs(x.e, x.of)'
    BY <1>1, ShiftIs DEF SeqsOf, Seqs
  <2>2. Newest(SeqsOf(x.e))' = Newest(SeqsOf(x.e)') /\ Newest(Seqs(x.e, x.of))' = Newest(Seqs(x.e, x.of)')
    BY DEF Newest
  <2> QED
    BY <2>1, <2>2, NewestIsStamped
<1> QED
  BY <1>2, <1>3, <1>4, <1>5, <1>6

(* What a handler reads of the newest of some events.                        *)
LEMMA AfterIs ==
  ASSUME NEW n \in Nat, NEW S, S \subseteq 1..n, NEW p \in Nat
  PROVE  /\ After(S, p) <=> Newest(S) > p
         /\ Newest({i \in S : i > p}) = IF Newest(S) > p THEN Newest(S) ELSE 0
<1> DEFINE T == {i \in S : i > p}
<1>1. T \subseteq 1..n /\ \A i \in S : i \in Nat /\ i > 0
  <2>1. T \subseteq S
    OBVIOUS
  <2>2. \A i \in S : i \in Nat /\ i > 0
    OBVIOUS
  <2> HIDE DEF T
  <2> QED
    BY <2>1, <2>2
<1>2. /\ S = {} => Newest(S) = 0
      /\ S # {} => Newest(S) \in S
      /\ Newest(S) \in 0..n /\ \A i \in S : i <= Newest(S)
  BY NewestIs
<1>3. /\ T = {} => Newest(T) = 0
      /\ T # {} => Newest(T) \in T
      /\ Newest(T) \in 0..n /\ \A i \in T : i <= Newest(T)
  BY <1>1, NewestIs
<1>4. \A i \in T : i \in S /\ i > p
  OBVIOUS
<1>5. \A i \in S : i > p => i \in T
  OBVIOUS
<1> HIDE DEF Newest, T
<1>6. PICK s : s = Newest(S) /\ s \in Nat /\ (s \in S \/ s = 0) /\ \A i \in S : i <= s
  BY <1>2
<1>7. PICK t : t = Newest(T) /\ t \in Nat /\ (T # {} => t \in T) /\ (T = {} => t = 0) /\ \A i \in T : i <= t
  BY <1>3
<1>8. CASE s > p
  <2>1. s \in T /\ s \in S
    BY <1>5, <1>6, <1>8
  <2>2. t \in S /\ t >= s /\ t <= s
    BY <1>4, <1>6, <1>7, <2>1
  <2> QED
    BY <1>6, <1>7, <1>8, <2>1, <2>2 DEF After, T
<1>9. CASE ~(s > p)
  <2>1. \A i \in S : ~(i > p)
    BY <1>1, <1>6, <1>9
  <2>2. T = {}
    BY <1>4, <2>1
  <2> QED
    BY <1>6, <1>7, <1>9, <2>1, <2>2 DEF After, T
<1> QED
  BY <1>8, <1>9
=============================================================================
