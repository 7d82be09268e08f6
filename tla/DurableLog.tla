---------------------------- MODULE DurableLog ----------------------------
(***************************************************************************)
(* What a ledger promises whoever reads it: a log that only ever grows, one *)
(* record at a time, each under the next seq.  Nothing else shows: not a    *)
(* crash, not a restart, not a write that is half done.                     *)
(***************************************************************************)
EXTENDS Integers

CONSTANTS Ledgers, Records

VARIABLE log \* the records of each ledger

Init == log = [l \in Ledgers |-> {}]

IsNext(records, r) ==
  /\ \A q \in records : q.seq < r.seq
  /\ r.seq = 1 \/ \E q \in records : q.seq = r.seq - 1

Append(l, r) ==
  /\ r \in Records /\ IsNext(log[l], r)
  /\ log' = [log EXCEPT ![l] = @ \cup {r}]

Next == \E l \in Ledgers : \E r \in log'[l] : Append(l, r)

Spec == Init /\ [][Next]_log
===========================================================================
