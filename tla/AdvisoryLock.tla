---------------------------- MODULE AdvisoryLock ----------------------------
(***************************************************************************)
(* What the writer lock promises, without pids, rows or clocks: a writer   *)
(* is admitted only when nobody else is inside, or when everybody who is   *)
(* inside has overstayed.  wikipethia-core/src/lock.rs (module comment and *)
(* MAX_HELD): one writer at a time, except that a holder older than the    *)
(* bound loses its exclusivity, never its right to finish.                 *)
(***************************************************************************)
CONSTANT Writers

VARIABLES
  holders,    \* the writers inside the lock
  overstayed  \* the holders that have been inside for longer than the bound

vars == <<holders, overstayed>>

Init ==
  /\ holders = {}
  /\ overstayed = {}

(* A writer enters over holders who have all overstayed (or over nobody).  *)
(* A writer that was suspended on its way in can be overstayed already.    *)
Enter(w) ==
  /\ w \notin holders
  /\ holders \subseteq overstayed
  /\ holders' = holders \cup {w}
  /\ overstayed' \in {overstayed, overstayed \cup {w}}

(* Release, panic and crash all end a hold. *)
Leave(w) ==
  /\ w \in holders
  /\ holders' = holders \ {w}
  /\ overstayed' = overstayed \ {w}

(* Time passes: some holders cross the bound, none comes back. *)
Overstay ==
  /\ overstayed' \in SUBSET holders
  /\ overstayed \subseteq overstayed'
  /\ UNCHANGED holders

Next ==
  \/ \E w \in Writers : Enter(w) \/ Leave(w)
  \/ Overstay

Spec == Init /\ [][Next]_vars
=============================================================================
