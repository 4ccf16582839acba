------------------------- MODULE CorpusPull_proofs -------------------------
(***************************************************************************)
(* Proofs about CorpusPull, for any number of releases, runs and faults:   *)
(* the types, no server on a moved file, a corpus that works at hand, and  *)
(* the record that names what is served.  The last two need that no run is *)
(* killed while it tries a corpus out.                                     *)
(***************************************************************************)
EXTENDS CorpusPull, TLAPS

(***************************************************************************)
(* Types.                                                                  *)
(***************************************************************************)

RunsTypeOK ==
  /\ pc \in [Pullers -> Stages]
  /\ tag \in [Pullers -> 0 .. latest]
  /\ \A p \in Pullers : pc[p] = "idle" <=> tag[p] = None

LEMMA GotoType ==
  ASSUME TypeOK, NEW p \in Pullers, NEW stage \in Stages \ {"idle"},
         pc[p] # "idle", Goto(p, stage), UNCHANGED <<tag, latest>>
  PROVE  RunsTypeOK'
BY DEF TypeOK, RunsTypeOK, Goto

LEMMA ExitType ==
  ASSUME TypeOK, NEW p \in Pullers, Exit(p), UNCHANGED latest
  PROVE  RunsTypeOK'
BY DEF TypeOK, RunsTypeOK, Exit, Goto, Stages, None

LEMMA InitType == Init => TypeOK
BY ConstantsAssumption DEF Init, TypeOK, ConstantsAssumption, Releases, Kinds, Stages, None

LEMMA OutsideType ==
  ASSUME TypeOK, Publish \/ Hide \/ ServerOpens \/ ServerFails \/ PowerLoss
  PROVE  TypeOK'
<1> USE ConstantsAssumption DEF ConstantsAssumption, TypeOK, github, files
<1>1. CASE Publish
  BY <1>1 DEF Publish, Releases
<1>2. CASE Hide
  BY <1>2 DEF Hide
<1>3. CASE ServerOpens
  BY <1>3 DEF ServerOpens
<1>4. CASE ServerFails
  BY <1>4 DEF ServerFails
<1>5. CASE PowerLoss
  BY <1>5 DEF PowerLoss, Stages, None
<1> QED BY <1>1, <1>2, <1>3, <1>4, <1>5

LEMMA RunType ==
  ASSUME TypeOK, NEW p \in Pullers, List(p) \/ Goes(p) \/ Killed(p)
  PROVE  TypeOK'
<1>1. ASSUME RunsTypeOK', UNCHANGED github, {corpus', prev', state'} \subseteq 0 .. latest,
             server' \in {"stopped", "starting", "up", "stray"}, faults' \in 0 .. MaxFaults
      PROVE  TypeOK'
  BY <1>1 DEF TypeOK, RunsTypeOK, github
<1>2. tag[p] \in 0 .. latest /\ latest \in Nat /\ faults \in 0 .. MaxFaults
  BY ConstantsAssumption DEF TypeOK, ConstantsAssumption
<1>3. CASE List(p)
  BY <1>3, ConstantsAssumption
     DEF TypeOK, List, IsNewest, Goto, github, files, Stages, None, ConstantsAssumption
<1>4. CASE Check(p) \/ Lock(p) \/ LockBusy(p) \/ Stage(p)
  BY <1>1, <1>4, GotoType, ExitType
     DEF Check, Lock, LockBusy, Stage, TypeOK, github, files, Stages
<1>5. CASE Stop(p) \/ SetAside(p) \/ Install(p) \/ Start(p)
  BY <1>1, <1>2, <1>5, GotoType
     DEF Stop, SetAside, Install, Start, Started, MovedFrom, TypeOK, github, files,
         Stages, None
<1>6. CASE StopFails(p) \/ Killed(p)
  BY <1>1, <1>2, <1>6, ExitType, ConstantsAssumption
     DEF StopFails, Killed, TypeOK, github, files, ConstantsAssumption
<1>7. CASE ProbeAnswered(p) \/ ProbeTimesOut(p)
  BY <1>1, <1>2, <1>7, GotoType, ConstantsAssumption
     DEF ProbeAnswered, ProbeTimesOut, TypeOK, github, files, Stages, ConstantsAssumption
<1>8. CASE Record(p) \/ Restart(p)
  BY <1>1, <1>2, <1>8, ExitType DEF Record, Restart, Started, TypeOK, github, files
<1>9. CASE Undo(p) \/ Reject(p) \/ Restore(p)
  BY <1>1, <1>2, <1>9, GotoType, ExitType
     DEF Undo, Reject, Restore, MovedFrom, TypeOK, github, files, Stages, None
<1> QED BY <1>3, <1>4, <1>5, <1>6, <1>7, <1>8, <1>9 DEF Goes

LEMMA NextType == TypeOK /\ [Next]_vars => TypeOK'
<1> SUFFICES ASSUME TypeOK, [Next]_vars PROVE TypeOK'
  OBVIOUS
<1>1. CASE UNCHANGED vars
  BY <1>1 DEF TypeOK, vars
<1> QED BY <1>1, OutsideType, RunType DEF Next

(* Every reachable state is well typed: a run is after a release exactly   *)
(* while it is under way, and no file is of a release not published yet.   *)
THEOREM TypeCorrect == Spec => []TypeOK
BY InitType, NextType, PTL DEF Spec
-----------------------------------------------------------------------------
(***************************************************************************)
(* The flock, the server and the files that are moved.                     *)
(***************************************************************************)

OneInside ==
  \A p, q \in Pullers : pc[p] \in Locked /\ pc[q] \in Locked => p = q

(* A step of a run moves no other run, and takes its own under the flock   *)
(* only from where the flock is found free.                                *)
LEMMA StepsAlone ==
  ASSUME TypeOK, NEW p \in Pullers, List(p) \/ Goes(p) \/ Killed(p)
  PROVE  /\ \A q \in Pullers \ {p} : pc'[q] = pc[q]
         /\ pc'[p] \in Locked => pc[p] \in Locked \/ Free
<1> USE DEF TypeOK, Goto, Exit
<1>1. CASE List(p) \/ Check(p) \/ Lock(p) \/ LockBusy(p) \/ Killed(p) \/ StopFails(p)
  BY <1>1 DEF List, Check, Lock, LockBusy, Killed, StopFails, Locked
<1>2. CASE Stage(p) \/ Stop(p) \/ SetAside(p) \/ Install(p) \/ Start(p)
  BY <1>2 DEF Stage, Stop, SetAside, Install, Start, Locked, Stages
<1>3. CASE ProbeAnswered(p) \/ ProbeTimesOut(p) \/ Record(p)
  BY <1>3 DEF ProbeAnswered, ProbeTimesOut, Record, Locked, Stages
<1>4. CASE Undo(p) \/ Reject(p) \/ Restore(p) \/ Restart(p)
  BY <1>4 DEF Undo, Reject, Restore, Restart, Locked, Stages
<1> QED BY <1>1, <1>2, <1>3, <1>4 DEF Goes

LEMMA NextOneInside == TypeOK /\ OneInside /\ [Next]_vars => OneInside'
<1> SUFFICES ASSUME TypeOK, OneInside, [Next]_vars PROVE OneInside'
  OBVIOUS
<1>1. CASE UNCHANGED pc
  BY <1>1 DEF OneInside
<1>2. CASE PowerLoss
  BY <1>2 DEF PowerLoss, OneInside, Locked
<1>3. ASSUME NEW p \in Pullers, List(p) \/ Goes(p) \/ Killed(p) PROVE OneInside'
  BY <1>3, StepsAlone DEF OneInside, Free
<1> QED BY <1>1, <1>2, <1>3 DEF Next, Publish, Hide, ServerOpens, ServerFails, vars

(* The stages between a stop and the start after it. *)
Down == {"aside", "install", "start", "reject", "restore", "restart"}

DownIsStopped == \A p \in Pullers : pc[p] \in Down => server = "stopped"

(* Between the two moves of a swap, and of its undoing, $CORPUS is empty.  *)
EmptyBetweenMoves ==
  \A p \in Pullers : pc[p] \in {"install", "restore"} => corpus = None

SwapInv ==
  TypeOK /\ OneInside /\ DownIsStopped /\ NoMovedFile /\ EmptyBetweenMoves

LEMMA InitSwap == Init => SwapInv
BY InitType
   DEF Init, SwapInv, OneInside, DownIsStopped, NoMovedFile, EmptyBetweenMoves,
       Locked, Down

LEMMA NextServer == SwapInv /\ [Next]_vars => DownIsStopped' /\ NoMovedFile'
<1> SUFFICES ASSUME SwapInv, [Next]_vars PROVE DownIsStopped' /\ NoMovedFile'
  OBVIOUS
<1> USE DEF SwapInv, DownIsStopped, NoMovedFile
<1>1. CASE UNCHANGED <<pc, server>>
  BY <1>1
<1>2. CASE ServerOpens \/ ServerFails
  BY <1>2 DEF ServerOpens, ServerFails
<1>3. CASE PowerLoss
  BY <1>3 DEF PowerLoss, Down
<1>4. ASSUME NEW p \in Pullers, List(p) \/ Goes(p) \/ Killed(p)
      PROVE  DownIsStopped' /\ NoMovedFile'
  <2> USE <1>4 DEF TypeOK, Goto, Exit, Down
  <2>1. CASE List(p) \/ Check(p) \/ Lock(p) \/ LockBusy(p) \/ Stage(p) \/ StopFails(p)
               \/ ProbeAnswered(p) \/ ProbeTimesOut(p) \/ Record(p) \/ Killed(p)
    BY <2>1 DEF List, Check, Lock, LockBusy, Stage, StopFails,
                ProbeAnswered, ProbeTimesOut, Record, Killed
  <2>2. CASE Stop(p) \/ Undo(p)
    BY <2>2 DEF Stop, Undo
  <2>3. CASE SetAside(p) \/ Install(p) \/ Reject(p) \/ Restore(p)
    BY <2>3 DEF SetAside, Install, Reject, Restore, MovedFrom
  <2>4. CASE Start(p) \/ Restart(p)
    BY <2>4 DEF Start, Restart, Started, OneInside, Locked, Stages
  <2> QED BY <2>1, <2>2, <2>3, <2>4 DEF Goes
<1> QED BY <1>1, <1>2, <1>3, <1>4 DEF Next, Publish, Hide, vars

(* While one run is under the flock every other is before it or idle.      *)
LEMMA OthersAreOutside ==
  ASSUME SwapInv, NEW p \in Pullers, pc[p] \in Locked
  PROVE  \A q \in Pullers \ {p} : pc[q] \notin Locked
BY DEF SwapInv, OneInside

LEMMA NextEmpty == SwapInv /\ [Next]_vars => EmptyBetweenMoves'
<1> SUFFICES ASSUME SwapInv, [Next]_vars PROVE EmptyBetweenMoves'
  OBVIOUS
<1> USE DEF EmptyBetweenMoves
<1>1. CASE UNCHANGED <<pc, corpus>>
  BY <1>1 DEF SwapInv
<1>2. CASE PowerLoss
  BY <1>2 DEF PowerLoss
<1>3. ASSUME NEW p \in Pullers, List(p) \/ Goes(p) \/ Killed(p)
      PROVE  EmptyBetweenMoves'
  <2> USE <1>3 DEF SwapInv, TypeOK, Goto, Exit, files
  <2>1. CASE List(p) \/ Check(p) \/ Lock(p) \/ LockBusy(p) \/ Stage(p)
    BY <2>1 DEF List, Check, Lock, LockBusy, Stage
  <2>2. CASE Stop(p) \/ StopFails(p) \/ Start(p) \/ Undo(p) \/ Killed(p)
    BY <2>2 DEF Stop, StopFails, Start, Undo, Killed
  <2>3. CASE ProbeAnswered(p) \/ ProbeTimesOut(p) \/ Record(p) \/ Restart(p)
    BY <2>3 DEF ProbeAnswered, ProbeTimesOut, Record, Restart
  <2>4. CASE SetAside(p) \/ Install(p) \/ Reject(p) \/ Restore(p)
    BY <2>4, OthersAreOutside DEF SetAside, Install, Reject, Restore, Locked, Stages
  <2> QED BY <1>3, <2>1, <2>2, <2>3, <2>4 DEF Goes
<1> QED BY <1>1, <1>2, <1>3 DEF Next, Publish, Hide, ServerOpens, ServerFails, vars, files

LEMMA NextSwap == SwapInv /\ [Next]_vars => SwapInv'
BY NextType, NextOneInside, NextServer, NextEmpty DEF SwapInv

(* Whatever is killed, whatever stop fails and however runs overlap, the   *)
(* server is never left running on a file that was moved: the corpus moves *)
(* between a stop and the start after it only, and under the flock.        *)
THEOREM NeverOnMovedFile == Spec => []NoMovedFile
<1>1. SwapInv => NoMovedFile
  BY DEF SwapInv
<1> QED BY <1>1, InitSwap, NextSwap, PTL DEF Spec
-----------------------------------------------------------------------------
(***************************************************************************)
(* A corpus that works.                                                    *)
(***************************************************************************)

(* The stages at which what is, or is about to be, at $CORPUS is unproven  *)
(* or has been found mute.                                                 *)
Trial == {"install", "start", "probe", "undo", "reject", "restore"}

OnTrial == \E p \in Pullers : pc[p] \in Trial

(* No run ends while an unproven corpus stands at $CORPUS. *)
TrialsEnd == KillStages \cap {"start", "probe", "undo", "reject"} = {}

Spare ==
  state # None =>
    IF OnTrial THEN Works(prev)
               ELSE Works(corpus) \/ (corpus = None /\ Works(prev))

ProvenBeforeRecord == \A p \in Pullers : pc[p] = "record" => Works(corpus)

SpareInv == SwapInv /\ Spare /\ ProvenBeforeRecord

LEMMA InitSpare == Init => SpareInv
BY InitSwap, ConstantsAssumption
   DEF Init, SpareInv, Spare, ProvenBeforeRecord, OnTrial, Trial,
       Works, Releases, None, ConstantsAssumption

(* A file at hand is of a published release, and stays what it is. *)
LEMMA PublishKeepsKinds ==
  ASSUME TypeOK, Publish
  PROVE  \A file \in 0 .. latest : Works(file) <=> Works(file)'
BY DEF TypeOK, Publish, Works

LEMMA NextSpare == TrialsEnd /\ SpareInv /\ [Next]_vars => SpareInv'
<1> SUFFICES ASSUME TrialsEnd, SpareInv, [Next]_vars
             PROVE  Spare' /\ ProvenBeforeRecord'
  BY NextSwap DEF SpareInv
<1>inv. TypeOK /\ SwapInv /\ EmptyBetweenMoves /\ Spare /\ ProvenBeforeRecord
  BY DEF SpareInv, SwapInv
<1> USE DEF EmptyBetweenMoves, Spare, ProvenBeforeRecord, OnTrial
<1>1. CASE UNCHANGED <<kind, files, state, pc>>
  BY <1>1, <1>inv DEF Works, files
<1>2. CASE Publish
  BY <1>2, <1>inv, PublishKeepsKinds DEF Publish, TypeOK, files
<1>3. CASE PowerLoss
  BY <1>3, <1>inv DEF PowerLoss, TypeOK, TrialsEnd, Trial, Works, github, files
<1>4. ASSUME NEW p \in Pullers, List(p) \/ Goes(p) \/ Killed(p)
      PROVE  Spare' /\ ProvenBeforeRecord'
  <2> USE <1>inv DEF TypeOK, Goto, Exit, Trial, Works, github, files
  <2>1. CASE List(p) \/ Check(p) \/ Lock(p) \/ LockBusy(p) \/ Stage(p)
    BY <2>1 DEF List, Check, Lock, LockBusy, Stage
  <2>2. CASE Stop(p) \/ StopFails(p) \/ Start(p) \/ ProbeTimesOut(p) \/ Undo(p)
    BY <2>2 DEF Stop, StopFails, Start, ProbeTimesOut, Undo
  <2>3. CASE Killed(p)
    BY <2>3, OthersAreOutside DEF Killed, TrialsEnd, Locked, Stages
  <2>4. CASE SetAside(p) \/ Install(p)
    BY <2>4, OthersAreOutside DEF SetAside, Install, Locked, Stages, None
  <2>5. CASE ProbeAnswered(p)
    BY <2>5, OthersAreOutside DEF ProbeAnswered, Answers, Locked, Stages
  <2>6. CASE Record(p) \/ Restart(p)
    BY <2>6, OthersAreOutside DEF Record, Restart, Locked, Stages
  <2>7. CASE Reject(p) \/ Restore(p)
    BY <2>7, OthersAreOutside DEF Reject, Restore, Locked, Stages, None
  <2> QED BY <1>4, <2>1, <2>2, <2>3, <2>4, <2>5, <2>6, <2>7 DEF Goes
<1> QED BY <1>1, <1>2, <1>3, <1>4
        DEF Next, Hide, ServerOpens, ServerFails, vars, github, files

(* Unless a run is killed between the arrival of a new corpus and the      *)
(* record or the undoing of it, a box that has served a release always has *)
(* a corpus that works at $CORPUS or at $PREV: a swap, a mute release, a   *)
(* kill at any other command and a power loss leave one to serve.          *)
THEOREM GoodAlwaysKept == TrialsEnd /\ Spec => []GoodKept
<1>1. SpareInv => GoodKept
  BY DEF SpareInv, Spare, GoodKept
<1>2. CASE TrialsEnd
  <2>1. SpareInv /\ [Next]_vars => SpareInv'
    BY <1>2, NextSpare
  <2> QED BY <1>1, <2>1, InitSpare, PTL DEF Spec
<1>3. CASE ~ TrialsEnd
  BY <1>3, PTL
<1> QED BY <1>2, <1>3
-----------------------------------------------------------------------------
(***************************************************************************)
(* The record.                                                             *)
(***************************************************************************)

(* The stages at which $CORPUS may differ from the record. *)
Swapping == Trial \cup {"record"}

SwapsEnd == KillStages \cap Swapping = {}

InSwap == \E p \in Pullers : pc[p] \in Swapping

Recorded ==
  /\ IF InSwap THEN prev = state ELSE corpus = state
  /\ state = None => prev = None

NewIsInstalled ==
  \A p \in Pullers :
    pc[p] \in {"start", "probe", "record", "undo", "reject"} => corpus = tag[p]

RecordInv == SwapInv /\ Recorded /\ NewIsInstalled

LEMMA InitRecord == Init => RecordInv
BY InitSwap DEF Init, RecordInv, Recorded, NewIsInstalled, InSwap, Swapping, Trial, None

LEMMA NextRecord == SwapsEnd /\ RecordInv /\ [Next]_vars => RecordInv'
<1> SUFFICES ASSUME SwapsEnd, RecordInv, [Next]_vars
             PROVE  Recorded' /\ NewIsInstalled'
  BY NextSwap DEF RecordInv
<1>inv. TypeOK /\ SwapInv /\ EmptyBetweenMoves /\ Recorded /\ NewIsInstalled
  BY DEF RecordInv, SwapInv
<1> USE DEF EmptyBetweenMoves, Recorded, NewIsInstalled, InSwap
<1>1. CASE UNCHANGED <<files, state, pc, tag>>
  BY <1>1, <1>inv DEF files
<1>2. CASE PowerLoss
  BY <1>2, <1>inv DEF PowerLoss, TypeOK, SwapsEnd, Swapping, Trial, files
<1>3. ASSUME NEW p \in Pullers, List(p) \/ Goes(p) \/ Killed(p)
      PROVE  Recorded' /\ NewIsInstalled'
  <2> USE <1>inv DEF TypeOK, Goto, Exit, Swapping, Trial, files
  <2>1. CASE List(p) \/ Check(p) \/ Lock(p) \/ LockBusy(p) \/ Stage(p)
    <3>1. pc[p] \notin Swapping /\ UNCHANGED <<corpus, prev, state>>
      BY <2>1 DEF List, Check, Lock, LockBusy, Stage
    <3>2. /\ \A q \in Pullers \ {p} : pc'[q] = pc[q] /\ tag'[q] = tag[q]
          /\ pc'[p] \notin Swapping
      <4>1. CASE List(p)
        BY <4>1 DEF List
      <4>2. CASE Check(p)
        BY <4>2 DEF Check
      <4>3. CASE Lock(p) \/ LockBusy(p)
        BY <4>3 DEF Lock, LockBusy
      <4>4. CASE Stage(p)
        BY <4>4 DEF Stage
      <4> QED BY <2>1, <4>1, <4>2, <4>3, <4>4
    <3>3. InSwap' = InSwap
      BY <3>1, <3>2
    <3>4. Recorded'
      BY <3>1, <3>3
    <3>5. NewIsInstalled'
      BY <3>1, <3>2
    <3> QED BY <3>4, <3>5
  <2>2. CASE Stop(p) \/ StopFails(p) \/ Start(p) \/ Undo(p)
               \/ ProbeAnswered(p) \/ ProbeTimesOut(p) \/ Restart(p)
    BY <2>2 DEF Stop, StopFails, Start, Undo, ProbeAnswered, ProbeTimesOut, Restart
  <2>3. CASE Killed(p)
    BY <2>3 DEF Killed, SwapsEnd
  <2>4. CASE SetAside(p) \/ Install(p) \/ Reject(p)
    BY <2>4, OthersAreOutside DEF SetAside, Install, Reject, Locked, Stages, None
  <2>5. CASE Record(p) \/ Restore(p)
    BY <2>5, OthersAreOutside DEF Record, Restore, Locked, Stages, None
  <2> QED BY <1>3, <2>1, <2>2, <2>3, <2>4, <2>5 DEF Goes
<1> QED BY <1>1, <1>2, <1>3
        DEF Next, Publish, Hide, ServerOpens, ServerFails, vars, files

(* Unless a run is killed in the middle of a swap, what is on record is    *)
(* what stands at $CORPUS whenever no run holds the flock, however many    *)
(* runs are started and whatever they read of the record before it.        *)
THEOREM RecordAlwaysServed == SwapsEnd /\ Spec => []RecordIsServed
<1>1. RecordInv => RecordIsServed
  BY DEF RecordInv, Recorded, InSwap, RecordIsServed, Free, Swapping, Trial, Locked, Stages
<1>2. CASE SwapsEnd
  <2>1. RecordInv /\ [Next]_vars => RecordInv'
    BY <1>2, NextRecord
  <2> QED BY <1>1, <2>1, InitRecord, PTL DEF Spec
<1>3. CASE ~ SwapsEnd
  BY <1>3, PTL
<1> QED BY <1>2, <1>3
=============================================================================
