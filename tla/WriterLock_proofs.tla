-------------------------- MODULE WriterLock_proofs --------------------------
(***************************************************************************)
(* Proofs about WriterLock, for any number of writers, pids and ticks:     *)
(* mutual exclusion up to MAX_HELD, the row that names the holder, and the *)
(* refinement of AdvisoryLock.                                             *)
(***************************************************************************)
EXTENDS WriterLock, TLAPS

(* What keeps the lock right and TypeOK does not say.  A running writer    *)
(* has a pid, and no two have the same; a stamp carries the pid of its     *)
(* writer.                                                                 *)
PidsDistinct ==
  /\ \A w \in Writers : pc[w] # "idle" => pid[w] \in Pids
  /\ \A v, w \in Running : pid[v] = pid[w] => v = w

StampsOwned ==
  \A w \in Writers :
    pc[w] \in {"stamped", "holding"} => stamp[w] \in Stamps /\ stamp[w].pid = pid[w]

IInv == TypeOK /\ PidsDistinct /\ StampsOwned /\ RowIsHolders

(* A holder in time has a live row: is_live finds its pid in /proc and its *)
(* age within the bound.                                                   *)
LEMMA HolderIsLive ==
  ASSUME IInv, NEW w \in Writers, InTime(w)
  PROVE  Blocked
<1> USE PidAssumption, HeldAssumption
<1>1. pc[w] = "holding" /\ stamp[w].age <= MaxHeld
  BY DEF InTime, Holding
<1>2. stamp[w] \in Stamps /\ stamp[w].pid = pid[w] /\ row = stamp[w]
  BY <1>1 DEF IInv, StampsOwned, RowIsHolders
<1>3. row # NoRow
  BY <1>2 DEF Stamps, NoRow
<1>4. pid[w] \in Alive
  BY <1>1 DEF Alive, Running
<1>5. IsLive(row)
  BY <1>1, <1>2, <1>4 DEF IsLive, ProcessExists, Stamps, Ages
<1> QED BY <1>3, <1>5 DEF Blocked

LEMMA InitIInv == Init => IInv
<1> SUFFICES ASSUME Init PROVE IInv
  OBVIOUS
<1>1. TypeOK
  BY GarbageAssumption DEF Init, TypeOK
<1>2. PidsDistinct /\ StampsOwned /\ RowIsHolders
  BY DEF Init, PidsDistinct, StampsOwned, RowIsHolders, Running, InTime, Holding
<1> QED BY <1>1, <1>2 DEF IInv

LEMMA NextTypeOK == TypeOK /\ StampsOwned /\ PidsDistinct /\ [Next]_vars => TypeOK'
<1> SUFFICES ASSUME TypeOK, StampsOwned, PidsDistinct, [Next]_vars PROVE TypeOK'
  OBVIOUS
<1> USE PidAssumption, HeldAssumption DEF TypeOK
<1>1. ASSUME NEW w \in Writers, Start(w) PROVE TypeOK'
  BY <1>1 DEF Start
<1>2. ASSUME NEW w \in Writers, BuildStamp(w) PROVE TypeOK'
  BY <1>2 DEF BuildStamp, Stamps, Ages, PidsDistinct
<1>3. ASSUME NEW w \in Writers, Acquire(w) PROVE TypeOK'
  BY <1>3 DEF Acquire, StampsOwned
<1>4. ASSUME NEW w \in Writers, Refused(w) PROVE TypeOK'
  BY <1>4 DEF Refused, Gone
<1>5. ASSUME NEW w \in Writers, Release(w) PROVE TypeOK'
  BY <1>5 DEF Release
<1>6. ASSUME NEW w \in Writers, Exit(w) PROVE TypeOK'
  BY <1>6 DEF Exit, Gone
<1>7. ASSUME NEW w \in Writers, Crash(w) PROVE TypeOK'
  BY <1>7 DEF Crash, Gone
<1>8. CASE Tick
  <2>1. ASSUME NEW r \in Stamps \cup {NoRow, Garbage}, r.age # NoAge
        PROVE  [r EXCEPT !.age = Older(@)] \in Stamps
    BY <2>1 DEF Stamps, Ages, Older, NoRow, Garbage, NoAge
  <2>2. row' \in Stamps \cup {NoRow, Garbage}
    BY <1>8, <2>1 DEF Tick
  <2>3. stamp' \in [Writers -> Stamps \cup {NoRow}]
    BY <1>8, <2>1 DEF Tick
  <2> QED BY <1>8, <2>2, <2>3 DEF Tick
<1>9. CASE OtherStarts
  BY <1>9 DEF OtherStarts
<1>10. CASE OtherEnds
  BY <1>10 DEF OtherEnds
<1>11. CASE UNCHANGED vars
  BY <1>11 DEF vars
<1> QED BY <1>1, <1>2, <1>3, <1>4, <1>5, <1>6, <1>7, <1>8, <1>9, <1>10, <1>11
        DEF Next, WriterStep

LEMMA NextPidsDistinct == TypeOK /\ PidsDistinct /\ [Next]_vars => PidsDistinct'
<1> SUFFICES ASSUME TypeOK, PidsDistinct, [Next]_vars PROVE PidsDistinct'
  OBVIOUS
<1> USE DEF TypeOK, PidsDistinct, Running
<1>1. ASSUME NEW w \in Writers, Start(w) PROVE PidsDistinct'
  BY <1>1 DEF Start, Alive
<1>2. ASSUME NEW w \in Writers, BuildStamp(w) PROVE PidsDistinct'
  BY <1>2 DEF BuildStamp
<1>3. ASSUME NEW w \in Writers, Acquire(w) PROVE PidsDistinct'
  BY <1>3 DEF Acquire
<1>4. ASSUME NEW w \in Writers, Gone(w) PROVE PidsDistinct'
  BY <1>4 DEF Gone
<1>5. ASSUME NEW w \in Writers, Release(w) PROVE PidsDistinct'
  BY <1>5 DEF Release
<1>6. CASE UNCHANGED <<pc, pid>>
  BY <1>6
<1> QED BY <1>1, <1>2, <1>3, <1>4, <1>5, <1>6
        DEF Next, WriterStep, Refused, Exit, Crash, Tick, OtherStarts, OtherEnds, vars

LEMMA NextStampsOwned ==
  TypeOK /\ PidsDistinct /\ StampsOwned /\ [Next]_vars => StampsOwned'
<1> SUFFICES ASSUME TypeOK, PidsDistinct, StampsOwned, [Next]_vars PROVE StampsOwned'
  OBVIOUS
<1> USE DEF TypeOK, StampsOwned
<1>1. ASSUME NEW w \in Writers, Start(w) PROVE StampsOwned'
  BY <1>1 DEF Start
<1>2. ASSUME NEW w \in Writers, BuildStamp(w) PROVE StampsOwned'
  <2>1. pid[w] \in Pids /\ 0 \in Ages
    BY <1>2, HeldAssumption DEF BuildStamp, PidsDistinct, Ages
  <2> QED BY <1>2, <2>1 DEF BuildStamp, Stamps
<1>3. ASSUME NEW w \in Writers, Acquire(w) PROVE StampsOwned'
  BY <1>3 DEF Acquire
<1>4. ASSUME NEW w \in Writers, Gone(w) PROVE StampsOwned'
  BY <1>4 DEF Gone
<1>5. ASSUME NEW w \in Writers, Release(w) PROVE StampsOwned'
  BY <1>5 DEF Release
<1>6. CASE Tick
  BY <1>6, HeldAssumption DEF Tick, Stamps, Ages, Older, NoAge
<1>7. CASE UNCHANGED <<pc, pid, stamp>>
  BY <1>7
<1> QED BY <1>1, <1>2, <1>3, <1>4, <1>5, <1>6, <1>7
        DEF Next, WriterStep, Refused, Exit, Crash, OtherStarts, OtherEnds, vars

(* Stealing the row hurts nobody in time (HolderIsLive); a Drop that finds *)
(* another row leaves it, since two stamps in use carry different pids.    *)
LEMMA NextRowIsHolders == IInv /\ [Next]_vars => RowIsHolders'
<1> SUFFICES ASSUME IInv, [Next]_vars, NEW v \in Writers, InTime(v)'
             PROVE  row' = stamp'[v]
  BY DEF RowIsHolders
<1> USE DEF IInv, InTime, Holding
<1>1. ASSUME NEW w \in Writers, Acquire(w) PROVE row' = stamp'[v]
  <2>1. CASE v = w
    BY <1>1, <2>1 DEF Acquire
  <2>2. CASE v # w
    <3>1. InTime(v)
      BY <1>1, <2>2 DEF Acquire, TypeOK
    <3> QED BY <1>1, <3>1, HolderIsLive DEF Acquire
  <2> QED BY <2>1, <2>2
<1>2. ASSUME NEW w \in Writers, Release(w) PROVE row' = stamp'[v]
  <2>1. v # w /\ InTime(v) /\ stamp'[v] = stamp[v]
    BY <1>2 DEF Release, TypeOK
  <2>2. row = stamp[v]
    BY <2>1 DEF RowIsHolders
  <2>3. stamp[v].pid = pid[v] /\ stamp[w].pid = pid[w] /\ pid[v] # pid[w]
    BY <1>2, <2>1 DEF Release, StampsOwned, PidsDistinct, Running
  <2> QED BY <1>2, <2>1, <2>2, <2>3 DEF Release
<1>3. CASE Tick
  <2>1. v \in Holding /\ stamp[v] \in Stamps
    BY <1>3 DEF Tick, StampsOwned
  <2>2. stamp'[v] = [stamp[v] EXCEPT !.age = Older(@)] /\ stamp[v].age # NoAge
    BY <1>3, <2>1, HeldAssumption DEF Tick, Stamps, Ages, NoAge, TypeOK
  <2>3. InTime(v)
    <3>1. stamp'[v].age = Older(stamp[v].age)
      BY <2>1, <2>2 DEF Stamps
    <3> QED BY <2>1, <3>1, HeldAssumption DEF Older, Stamps, Ages
  <2>4. row = stamp[v]
    BY <2>3 DEF RowIsHolders
  <2> QED BY <1>3, <2>2, <2>4 DEF Tick
<1>4. ASSUME NEW w \in Writers, Gone(w), UNCHANGED row PROVE row' = stamp'[v]
  <2>1. v # w /\ InTime(v) /\ stamp'[v] = stamp[v]
    BY <1>4 DEF Gone, TypeOK
  <2> QED BY <1>4, <2>1 DEF RowIsHolders
<1>5. ASSUME NEW w \in Writers, BuildStamp(w) PROVE row' = stamp'[v]
  <2>1. v # w /\ InTime(v) /\ stamp'[v] = stamp[v]
    BY <1>5 DEF BuildStamp, TypeOK
  <2> QED BY <1>5, <2>1 DEF BuildStamp, RowIsHolders
<1>6. ASSUME NEW w \in Writers, Start(w) PROVE row' = stamp'[v]
  <2>1. InTime(v)
    BY <1>6 DEF Start, TypeOK
  <2> QED BY <1>6, <2>1 DEF Start, RowIsHolders
<1>7. CASE UNCHANGED <<row, pc, stamp>>
  BY <1>7 DEF RowIsHolders
<1> QED BY <1>1, <1>2, <1>3, <1>4, <1>5, <1>6, <1>7
        DEF Next, WriterStep, Refused, Exit, Crash, OtherStarts, OtherEnds, vars

LEMMA NextIInv == IInv /\ [Next]_vars => IInv'
BY NextTypeOK, NextPidsDistinct, NextStampsOwned, NextRowIsHolders DEF IInv

(* Two holders in time would both be named by the row, hence have the same *)
(* pid.                                                                    *)
LEMMA IInvExclusive == IInv => Exclusive
<1> SUFFICES ASSUME IInv, NEW v \in Holding, NEW w \in Holding, v # w,
                    ~ (stamp[v].age > MaxHeld), ~ (stamp[w].age > MaxHeld)
             PROVE  FALSE
  BY DEF Exclusive
<1>1. stamp[v] \in Stamps /\ stamp[w] \in Stamps
  BY DEF IInv, StampsOwned, Holding
<1>2. InTime(v) /\ InTime(w)
  BY <1>1, HeldAssumption DEF InTime, Stamps, Ages, Holding
<1>3. row = stamp[v] /\ row = stamp[w]
  BY <1>2 DEF IInv, RowIsHolders, Holding
<1>4. pid[v] = pid[w] /\ v \in Running /\ w \in Running
  BY <1>3 DEF IInv, StampsOwned, Holding, Running
<1> QED BY <1>4 DEF IInv, PidsDistinct

LEMMA AlwaysIInv == Spec => []IInv
<1>1. Init => IInv
  BY InitIInv
<1>2. IInv /\ [Next]_vars => IInv'
  BY NextIInv
<1> QED BY <1>1, <1>2, PTL DEF Spec

(* The variables keep their types. *)
THEOREM TypeCorrect == Spec => []TypeOK
<1>1. IInv => TypeOK
  BY DEF IInv
<1> QED BY <1>1, AlwaysIInv, PTL

(* Two writers are inside the lock together only when one of them has held *)
(* it for longer than MAX_HELD, whatever pids are reused and whoever       *)
(* crashes (lock.rs, acquire and Drop).                                    *)
THEOREM MutualExclusion == Spec => []Exclusive
BY AlwaysIInv, IInvExclusive, PTL

(* The row names the holder for as long as it is in time: neither a thief  *)
(* nor a late Drop takes it away (lock.rs, is_live and Drop).              *)
THEOREM RowNamesHolder == Spec => []RowIsHolders
<1>1. IInv => RowIsHolders
  BY DEF IInv
<1> QED BY <1>1, AlwaysIInv, PTL
-----------------------------------------------------------------------------
(***************************************************************************)
(* Refinement.                                                             *)
(***************************************************************************)

Overstayed == {w \in Holding : stamp[w].age > MaxHeld}

LEMMA InitRefines == Init => Advisory!Init
BY DEF Init, Advisory!Init, Holding

LEMMA NextRefines ==
  IInv /\ IInv' /\ [Next]_vars => [Advisory!Next]_(Advisory!vars)
<1> SUFFICES ASSUME IInv, IInv', [Next]_vars PROVE [Advisory!Next]_(Advisory!vars)
  OBVIOUS
<1> USE DEF IInv, Holding
<1>1. ASSUME NEW w \in Writers, Acquire(w) PROVE Advisory!Enter(w)
  <2>1. w \notin Holding /\ Holding' = Holding \cup {w}
    BY <1>1 DEF Acquire, TypeOK
  <2>2. Holding \subseteq Overstayed
    <3> SUFFICES ASSUME NEW v \in Holding PROVE stamp[v].age > MaxHeld
      BY DEF Overstayed
    <3>1. stamp[v].age \in Nat
      BY HeldAssumption DEF StampsOwned, Stamps, Ages
    <3>2. ~ InTime(v)
      BY <1>1, HolderIsLive DEF Acquire
    <3> QED BY <3>1, <3>2, HeldAssumption DEF InTime
  <2>3. Overstayed' \in {Overstayed, Overstayed \cup {w}}
    BY <1>1, <2>1 DEF Acquire, Overstayed
  <2> QED BY <2>1, <2>2, <2>3 DEF Advisory!Enter, Overstayed
<1>2. ASSUME NEW w \in Writers, Release(w) \/ Crash(w) PROVE Advisory!Leave(w)
  <2>1. w \in Holding /\ Holding' = Holding \ {w}
    BY <1>2 DEF Release, Crash, Gone, TypeOK
  <2>2. \A v \in Holding \ {w} : stamp'[v] = stamp[v]
    BY <1>2 DEF Release, Crash, Gone, TypeOK
  <2>3. Overstayed' = Overstayed \ {w}
    BY <2>1, <2>2 DEF Overstayed
  <2> QED BY <2>1, <2>3 DEF Advisory!Leave, Overstayed
<1>3. CASE Tick
  <2>1. Holding' = Holding
    BY <1>3 DEF Tick
  <2>2. \A w \in Holding : stamp[w].age > MaxHeld => stamp'[w].age > MaxHeld
    BY <1>3, HeldAssumption DEF Tick, StampsOwned, Stamps, Ages, NoAge, Older, TypeOK
  <2>3. Overstayed \subseteq Overstayed' /\ Overstayed' \subseteq Holding
    BY <2>1, <2>2 DEF Overstayed
  <2> QED BY <2>1, <2>3 DEF Advisory!Overstay, Advisory!Next, Overstayed
<1>4. ASSUME NEW w \in Writers,
             Start(w) \/ BuildStamp(w) \/ Refused(w) \/ Exit(w)
      PROVE  UNCHANGED Advisory!vars
  <2>1. Holding' = Holding
    BY <1>4 DEF Start, BuildStamp, Refused, Exit, Gone, TypeOK
  <2>2. \A v \in Holding : stamp'[v] = stamp[v]
    BY <1>4 DEF Start, BuildStamp, Refused, Exit, Gone, TypeOK
  <2> QED BY <2>1, <2>2 DEF Advisory!vars
<1>5. CASE UNCHANGED <<pc, stamp>>
  BY <1>5 DEF Advisory!vars
<1> QED BY <1>1, <1>2, <1>3, <1>4, <1>5
        DEF Next, WriterStep, OtherStarts, OtherEnds, vars, Advisory!Next

(* The row, the pids and the clock implement the abstract lock: a writer   *)
(* enters only over holders that have all overstayed (lock.rs).            *)
THEOREM ImplementsAdvisory == Spec => Implements
<1>1. Init => Advisory!Init
  BY InitRefines
<1>2. IInv /\ IInv' /\ [Next]_vars => [Advisory!Next]_(Advisory!vars)
  BY NextRefines
<1> QED BY <1>1, <1>2, AlwaysIInv, PTL DEF Spec, Implements, Advisory!Spec
=============================================================================
