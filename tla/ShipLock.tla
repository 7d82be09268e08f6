------------------------------ MODULE ShipLock ------------------------------
(***************************************************************************)
(* What the ship token promises: a lock.  One run of the project owns it or *)
(* none does, it never passes from one run to another directly, and a run   *)
(* that is over never takes it again.                                      *)
(***************************************************************************)
CONSTANTS Runs, NoRun
VARIABLES owner, over

lock == <<owner, over>>

LockInit == owner = NoRun /\ over = {}

Acquire(r) ==
  /\ owner = NoRun /\ r \notin over
  /\ owner' = r /\ UNCHANGED over
GiveBack(r) == owner = r /\ owner' = NoRun /\ UNCHANGED over

(* A run ends, at its merge or at its close, and gives the lock back if it had it. *)
End(r) ==
  /\ over' = over \cup {r}
  /\ owner' = IF owner = r THEN NoRun ELSE owner

LockNext == \E r \in Runs : Acquire(r) \/ GiveBack(r) \/ End(r)

LockSpec == LockInit /\ [][LockNext]_lock
=============================================================================
