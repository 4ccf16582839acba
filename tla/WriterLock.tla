----------------------------- MODULE WriterLock -----------------------------
(***************************************************************************)
(* The advisory lock over the one database: wikipethia-core/src/lock.rs.   *)
(*                                                                         *)
(* The lock is one row of the meta table.  It holds the pid, the command   *)
(* and the start time of whoever took it.  A writer that finds a row asks  *)
(* whether its holder is live (the pid answers in /proc and the row is no  *)
(* older than MAX_HELD) and steals the row when it is not.  Nothing but    *)
(* the row connects two writers, and a crash leaves the row behind.        *)
(*                                                                         *)
(* Only ages are compared by the code, so time is kept as the age of each  *)
(* stamp, capped one past MaxHeld: "older than MaxHeld" is the last age    *)
(* the code tells apart.                                                   *)
(***************************************************************************)
EXTENDS Integers, FiniteSets

CONSTANTS
  Writers,   \* slots for writer processes (one process at a time in each)
  Pids,      \* the process ids of the machine
  Commands,  \* "embed", "index", "update", "publish", ...
  MaxHeld,   \* MAX_HELD, in ticks
  MaxOthers, \* bound: unrelated processes running at a time
  GarbageRow \* TRUE: the row may hold text that does not parse

NoPid == "no pid"
NoAge == -1

ASSUME PidAssumption == NoPid \notin Pids
ASSUME HeldAssumption == MaxHeld \in Nat \ {0}
ASSUME GarbageAssumption == GarbageRow \in BOOLEAN

Ages == 0 .. MaxHeld + 1

(* The stamp a writer puts in the row. *)
Stamps == [pid : Pids, command : Commands, age : Ages]

(* The row as Holder::parse sees it: an unparseable row has neither a pid  *)
(* nor a start time, and no row at all is NoRow.                           *)
NoRow   == [pid |-> NoPid, command |-> "none", age |-> NoAge]
Garbage == [pid |-> NoPid, command |-> "unknown", age |-> NoAge]

VARIABLES
  row,     \* the value of meta["writer.lock"]
  pc,      \* where each writer is in its use of the lock
  pid,     \* the pid of each running writer process
  stamp,   \* WriterLock.stamp: what each writer wrote, or is about to write
  others   \* the pids of running processes that are no writers of ours

vars == <<row, pc, pid, stamp, others>>

Running == {w \in Writers : pc[w] # "idle"}
Holding == {w \in Writers : pc[w] = "holding"}

(* Every pid /proc knows. *)
Alive == {pid[w] : w \in Running} \cup others

(* Mutant: /proc shows none of the other writers.                         *)
ProcessExists_Namespaced(p) == p \in others

ProcessExists(p) == p \in Alive

(* Mutant: a row is stolen one tick early.                                *)
IsLive_AtBound(r) ==
  /\ ~ (r.age # NoAge /\ r.age >= MaxHeld)
  /\ r.pid = NoPid \/ ProcessExists(r.pid)

(* Mutant: no age bound.                                                  *)
IsLive_NoBound(r) == r.pid = NoPid \/ ProcessExists(r.pid)

(* Holder::is_live.  A row without a start time has no age to be too old,  *)
(* and a row without a pid is taken to be live.                            *)
IsLive(r) ==
  /\ ~ (r.age # NoAge /\ r.age > MaxHeld)
  /\ r.pid = NoPid \/ ProcessExists(r.pid)

Blocked == row # NoRow /\ IsLive(row)

Older(a) == IF a > MaxHeld THEN a ELSE a + 1

TypeOK ==
  /\ row \in Stamps \cup {NoRow, Garbage}
  /\ pc \in [Writers -> {"idle", "started", "stamped", "holding", "released"}]
  /\ pid \in [Writers -> Pids \cup {NoPid}]
  /\ stamp \in [Writers -> Stamps \cup {NoRow}]
  /\ others \subseteq Pids

Init ==
  /\ row \in IF GarbageRow THEN {NoRow, Garbage} ELSE {NoRow}
  /\ pc = [w \in Writers |-> "idle"]
  /\ pid = [w \in Writers |-> NoPid]
  /\ stamp = [w \in Writers |-> NoRow]
  /\ others = {}
-----------------------------------------------------------------------------
(***************************************************************************)
(* The writers.                                                            *)
(***************************************************************************)

(* The operating system starts a writer under any pid that is free, also   *)
(* one that a crashed writer had before.                                   *)
Start(w) ==
  /\ pc[w] = "idle"
  /\ \E p \in Pids \ Alive : pid' = [pid EXCEPT ![w] = p]
  /\ pc' = [pc EXCEPT ![w] = "started"]
  /\ UNCHANGED <<row, stamp, others>>

(* Mutant: the pid is lost on its way into the row.                       *)
BuildStamp_NoPid(w) ==
  /\ pc[w] \in {"started", "released"}
  /\ \E c \in Commands :
       stamp' = [stamp EXCEPT ![w] = [pid |-> NoPid, command |-> c, age |-> 0]]
  /\ pc' = [pc EXCEPT ![w] = "stamped"]
  /\ UNCHANGED <<row, pid, others>>

(* acquire, up to BEGIN IMMEDIATE: the stamp is built before the           *)
(* transaction that reads the row, which may have to wait.                 *)
BuildStamp(w) ==
  /\ pc[w] \in {"started", "released"}
  /\ \E c \in Commands :
       stamp' = [stamp EXCEPT ![w] = [pid |-> pid[w], command |-> c, age |-> 0]]
  /\ pc' = [pc EXCEPT ![w] = "stamped"]
  /\ UNCHANGED <<row, pid, others>>

(* The IMMEDIATE transaction of acquire finds no row, or the row of a      *)
(* holder that is not live, and replaces it.                               *)
Acquire(w) ==
  /\ pc[w] = "stamped"
  /\ ~ Blocked
  /\ row' = stamp[w]
  /\ pc' = [pc EXCEPT ![w] = "holding"]
  /\ UNCHANGED <<pid, stamp, others>>

(* The process is gone; whatever it left in the row stays there. *)
Gone(w) ==
  /\ pc' = [pc EXCEPT ![w] = "idle"]
  /\ pid' = [pid EXCEPT ![w] = NoPid]
  /\ stamp' = [stamp EXCEPT ![w] = NoRow]

(* The IMMEDIATE transaction of acquire finds a live holder: CoreError::   *)
(* Busy, which every caller propagates to the end of the process.          *)
Refused(w) ==
  /\ pc[w] = "stamped"
  /\ Blocked
  /\ Gone(w)
  /\ UNCHANGED <<row, others>>

(* Mutant: Drop deletes whatever row it finds.                            *)
Release_AnyRow(w) ==
  /\ pc[w] = "holding"
  /\ row' = NoRow
  /\ pc' = [pc EXCEPT ![w] = "released"]
  /\ stamp' = [stamp EXCEPT ![w] = NoRow]
  /\ UNCHANGED <<pid, others>>

(* Drop, also on panic: delete the row only while it is still this         *)
(* writer's.  The process goes on; an update drops its preflight lock and  *)
(* takes another one later.                                                *)
Release(w) ==
  /\ pc[w] = "holding"
  /\ row' = IF row = stamp[w] THEN NoRow ELSE row
  /\ pc' = [pc EXCEPT ![w] = "released"]
  /\ stamp' = [stamp EXCEPT ![w] = NoRow]
  /\ UNCHANGED <<pid, others>>

Exit(w) ==
  /\ pc[w] = "released"
  /\ Gone(w)
  /\ UNCHANGED <<row, others>>

(* Killed while it holds the lock (Ctrl-C, SIGKILL, power): no destructor  *)
(* runs.  A writer killed before that has written nothing.                 *)
Crash(w) ==
  /\ pc[w] = "holding"
  /\ Gone(w)
  /\ UNCHANGED <<row, others>>
-----------------------------------------------------------------------------
(***************************************************************************)
(* The machine.                                                            *)
(***************************************************************************)

(* now_unix moves on, for every stamp alike. *)
Tick ==
  /\ row' = IF row.age = NoAge THEN row ELSE [row EXCEPT !.age = Older(@)]
  /\ stamp' = [w \in Writers |->
                 IF stamp[w].age = NoAge THEN stamp[w]
                 ELSE [stamp[w] EXCEPT !.age = Older(@)]]
  /\ UNCHANGED <<pc, pid, others>>

(* An unrelated process takes a free pid, or ends. *)
OtherStarts ==
  /\ Cardinality(others) < MaxOthers
  /\ \E p \in Pids \ Alive : others' = others \cup {p}
  /\ UNCHANGED <<row, pc, pid, stamp>>

OtherEnds ==
  /\ \E p \in others : others' = others \ {p}
  /\ UNCHANGED <<row, pc, pid, stamp>>

WriterStep(w) ==
  \/ Start(w) \/ BuildStamp(w) \/ Acquire(w) \/ Refused(w)
  \/ Release(w) \/ Exit(w) \/ Crash(w)

Next ==
  \/ \E w \in Writers : WriterStep(w)
  \/ Tick \/ OtherStarts \/ OtherEnds

(* Time passes, and a writer that is after the lock is retried: `update`   *)
(* runs from a timer, so a slot that is idle starts again when there is a  *)
(* pid for it, and a stamped writer's transaction is served.  Nothing      *)
(* obliges a holder to finish, or another process to end.                  *)
Fairness ==
  /\ WF_vars(Tick)
  /\ \A w \in Writers :
       /\ WF_vars(Start(w))
       /\ WF_vars(BuildStamp(w))
       /\ WF_vars(Acquire(w) \/ Refused(w))

Spec == Init /\ [][Next]_vars
FairSpec == Spec /\ Fairness
-----------------------------------------------------------------------------
(***************************************************************************)
(* Properties.                                                             *)
(***************************************************************************)

(* A writer that holds a lock no older than MAX_HELD. *)
InTime(w) == w \in Holding /\ stamp[w].age <= MaxHeld

(* Mutual exclusion up to MAX_HELD: two writers are inside the lock        *)
(* together only when one of them has held it for longer than the bound    *)
(* (acquire: the row is read and replaced in one IMMEDIATE transaction).   *)
Exclusive ==
  \A v, w \in Holding : v # w => stamp[v].age > MaxHeld \/ stamp[w].age > MaxHeld

(* A writer that is inside in time is the one the row names: neither a     *)
(* thief nor the Drop of a victim it stole from takes the row from it, so  *)
(* no third writer can enter behind its back.                              *)
RowIsHolders == \A w \in Writers : InTime(w) => row = stamp[w]

(* The row of a process that no longer exists never survives: another      *)
(* writer replaces it in the end, even if its pid is given to somebody     *)
(* else for good ("a lock that can only be cleared by hand would wedge     *)
(* the corpus").                                                           *)
Abandoned == row # NoRow /\ \A w \in Holding : row # stamp[w]
NoWedge == Abandoned ~> ~Abandoned

(* What the comment of is_live says of a row that does not parse: "the age *)
(* bound still clears it eventually".                                      *)
GarbageClears == row = Garbage ~> row # Garbage

(* The lock implements AdvisoryLock. *)
Advisory == INSTANCE AdvisoryLock WITH
  holders <- Holding,
  overstayed <- {w \in Holding : stamp[w].age > MaxHeld}
Implements == Advisory!Spec
=============================================================================
