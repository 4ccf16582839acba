----------------------------- MODULE CorpusPull -----------------------------
(***************************************************************************)
(* How the hosted box follows the published releases:                      *)
(*   deploy/wikipethia-pull.sh       one pull, from listing to rollback    *)
(*   deploy/wikipethia-pull.service, .timer   when it runs, and until when *)
(*   deploy/wikipethia-mcp.service   the server it restarts                *)
(*                                                                         *)
(* A pull is a sequence of commands, any of which may be the last one (set *)
(* -e, a kill, TimeoutStartSec, power): each that touches the live files   *)
(* or the service is a step.  A corpus file is the release it came from;   *)
(* releases are numbered in the order of their tags, which are dates.      *)
(***************************************************************************)
EXTENDS Integers, FiniteSets

CONSTANTS
  MaxRelease, \* bound: the releases that are ever published
  Pullers,    \* runs of the script at a time
  ByHand,     \* those not started by the timer, which may pass --force
  KillStages, \* the stages at which a run may be killed
  MaxFaults   \* bound: kills, failed commands, slow answers

Releases == 1 .. MaxRelease
None == 0

Stages == {"idle", "listed", "lock", "staging", "stop", "aside", "install",
           "start", "probe", "record", "undo", "reject", "restore", "restart"}

(* The stages under the flock. *)
Locked == Stages \ {"idle", "listed", "lock"}

(* A release answers (its server does), or is READY without its server     *)
(* ever answering, or is refused by the READY check.                       *)
Kinds == {"answers", "mute", "refused"}

ASSUME ConstantsAssumption ==
  /\ MaxRelease \in Nat \ {0}
  /\ ByHand \subseteq Pullers
  /\ KillStages \subseteq Stages
  /\ MaxFaults \in Nat

VARIABLES
  kind,    \* what each release is like, once it is published
  visible, \* the releases on offer: neither draft nor prerelease
  latest,  \* the last release published
  corpus,  \* the file at $CORPUS
  prev,    \* the file at $PREV
  state,   \* $STATE, the tag on record
  server,  \* the MCP unit: "stopped"; "starting", until it has opened a
           \* corpus; "up" on the file at $CORPUS; "stray" on a moved file
  pc,      \* the next command of each run
  tag,     \* the release each run is after
  faults   \* the faults so far

vars == <<kind, visible, latest, corpus, prev, state, server, pc, tag, faults>>
github == <<kind, visible, latest>>
files == <<corpus, prev>>

TypeOK ==
  /\ kind \in [Releases -> Kinds]
  /\ latest \in 0 .. MaxRelease
  /\ visible \subseteq 1 .. latest
  /\ {corpus, prev, state} \subseteq 0 .. latest
  /\ server \in {"stopped", "starting", "up", "stray"}
  /\ pc \in [Pullers -> Stages]
  /\ tag \in [Pullers -> 0 .. latest]
  /\ \A p \in Pullers : pc[p] = "idle" <=> tag[p] = None
  /\ faults \in 0 .. MaxFaults

(* A box that serves release 1, or one provisioned before any release.     *)
Init ==
  /\ kind = [r \in Releases |-> "answers"]
  /\ \/ /\ latest = 1 /\ visible = {1}
        /\ corpus = 1 /\ state = 1 /\ server = "up"
     \/ /\ latest = 0 /\ visible = {}
        /\ corpus = None /\ state = None /\ server = "starting"
  /\ prev = None
  /\ pc = [p \in Pullers |-> "idle"]
  /\ tag = [p \in Pullers |-> None]
  /\ faults = 0
-----------------------------------------------------------------------------
(***************************************************************************)
(* The releases and the server.                                            *)
(***************************************************************************)

Publish ==
  /\ latest < MaxRelease
  /\ latest' = latest + 1
  /\ visible' = visible \cup {latest + 1}
  /\ \E k \in Kinds : kind' = [kind EXCEPT ![latest + 1] = k]
  /\ UNCHANGED <<files, state, server, pc, tag, faults>>

(* "gh release edit <tag> --prerelease" *)
Hide ==
  /\ \E r \in visible : visible' = visible \ {r}
  /\ UNCHANGED <<kind, latest, files, state, server, pc, tag, faults>>

(* open_existing finds a corpus; without one the unit restarts until there *)
(* is one (Restart=on-failure).                                            *)
ServerOpens ==
  /\ server = "starting"
  /\ corpus # None
  /\ server' = "up"
  /\ UNCHANGED <<github, files, state, pc, tag, faults>>

ServerFails ==
  /\ server \in {"up", "stray"}
  /\ faults < MaxFaults
  /\ faults' = faults + 1
  /\ server' = "starting"
  /\ UNCHANGED <<github, files, state, pc, tag>>

(* A corpus whose server, once it is up on it, answers initialize. *)
Works(file) == file # None /\ kind[file] = "answers"

Answers == server = "up" /\ Works(corpus)
-----------------------------------------------------------------------------
(***************************************************************************)
(* A run of wikipethia-pull.                                               *)
(***************************************************************************)

Goto(p, stage) == pc' = [pc EXCEPT ![p] = stage]

(* die, exit and the end of the script; the flock goes with the process.   *)
Exit(p) ==
  /\ Goto(p, "idle")
  /\ tag' = [tag EXCEPT ![p] = None]

IsNewest(r) == r \in visible /\ \A s \in visible : s <= r

(* Mutant: nobody looks whether a tag was found.                           *)
List_Unchecked(p) ==
  /\ pc[p] = "idle"
  /\ \E r \in Releases \cup {None} :
       /\ IF visible = {} THEN r = None ELSE IsNewest(r)
       /\ tag' = [tag EXCEPT ![p] = r]
  /\ Goto(p, "listed")
  /\ UNCHANGED <<github, files, state, server, faults>>

(* The newest corpus tag on offer; without one there is nothing to do.     *)
List(p) ==
  /\ pc[p] = "idle"
  /\ \/ /\ \E r \in visible : IsNewest(r) /\ tag' = [tag EXCEPT ![p] = r]
        /\ Goto(p, "listed")
     \/ visible = {} /\ UNCHANGED <<tag, pc>>
  /\ UNCHANGED <<github, files, state, server, faults>>

(* Mutant: only a tag that is later than the one on record is pulled.      *)
Check_OnlyLater(p) ==
  /\ pc[p] = "listed"
  /\ \E force \in IF p \in ByHand THEN BOOLEAN ELSE {FALSE} :
       IF tag[p] <= state /\ ~ force
         THEN Exit(p)
         ELSE Goto(p, "lock") /\ UNCHANGED tag
  /\ UNCHANGED <<github, files, state, server, faults>>

(* Nothing to do when the tag on record is the same, unless --force.       *)
Check(p) ==
  /\ pc[p] = "listed"
  /\ \E force \in IF p \in ByHand THEN BOOLEAN ELSE {FALSE} :
       IF tag[p] = state /\ ~ force
         THEN Exit(p)
         ELSE Goto(p, "lock") /\ UNCHANGED tag
  /\ UNCHANGED <<github, files, state, server, faults>>

(* Mutant: no flock.                                                       *)
Free_Always == TRUE

Free == \A q \in Pullers : pc[q] \notin Locked

(* flock -n, then rm -rf of the staging directory: until it exits, what is *)
(* in there is the run's own download.                                     *)
Lock(p) ==
  /\ pc[p] = "lock"
  /\ Free
  /\ Goto(p, "staging")
  /\ UNCHANGED <<github, files, state, server, tag, faults>>

LockBusy(p) ==
  /\ pc[p] = "lock"
  /\ ~ Free
  /\ Exit(p)
  /\ UNCHANGED <<github, files, state, server, faults>>

(* Download, checksum, decompress, and the READY check of the binary.      *)
Stage(p) ==
  /\ pc[p] = "staging"
  /\ IF kind[tag[p]] = "refused"
       THEN Exit(p)
       ELSE Goto(p, "stop") /\ UNCHANGED tag
  /\ UNCHANGED <<github, files, state, server, faults>>

(* svc stop, with the removal of the sidecars after it. *)
Stop(p) ==
  /\ pc[p] = "stop"
  /\ server' = "stopped"
  /\ Goto(p, "aside")
  /\ UNCHANGED <<github, files, state, tag, faults>>

(* Mutant: a failed stop is ignored.                                       *)
StopFails_GoesOn(p) ==
  /\ pc[p] = "stop"
  /\ faults < MaxFaults
  /\ faults' = faults + 1
  /\ Goto(p, "aside")
  /\ UNCHANGED <<github, files, state, server, tag>>

(* set -e: a stop that fails ends the run before the swap. *)
StopFails(p) ==
  /\ pc[p] = "stop"
  /\ faults < MaxFaults
  /\ faults' = faults + 1
  /\ Exit(p)
  /\ UNCHANGED <<github, files, state, server>>

(* What a server that runs is left with when $CORPUS is moved. *)
MovedFrom(s) == IF s = "up" THEN "stray" ELSE s

(* mv $CORPUS $PREV, when there is one. *)
SetAside(p) ==
  /\ pc[p] = "aside"
  /\ IF corpus # None
       THEN /\ prev' = corpus
            /\ corpus' = None
            /\ server' = MovedFrom(server)
       ELSE UNCHANGED <<prev, corpus, server>>
  /\ Goto(p, "install")
  /\ UNCHANGED <<github, state, tag, faults>>

Install(p) ==
  /\ pc[p] = "install"
  /\ corpus' = tag[p]
  /\ Goto(p, "start")
  /\ UNCHANGED <<github, prev, state, server, tag, faults>>

(* systemctl start does nothing to a unit that is running. *)
Started(s) == IF s = "stopped" THEN "starting" ELSE s

Start(p) ==
  /\ pc[p] = "start"
  /\ server' = Started(server)
  /\ Goto(p, "probe")
  /\ UNCHANGED <<github, files, state, tag, faults>>

ProbeAnswered(p) ==
  /\ pc[p] = "probe"
  /\ Answers
  /\ Goto(p, "record")
  /\ UNCHANGED <<github, files, state, server, tag, faults>>

(* Mutant: a run that is not answered leaves the new corpus in place.      *)
ProbeTimesOut_NoRollback(p) ==
  /\ pc[p] = "probe"
  /\ \/ ~ Works(corpus) /\ UNCHANGED faults
     \/ Works(corpus) /\ faults < MaxFaults /\ faults' = faults + 1
  /\ Exit(p)
  /\ UNCHANGED <<github, files, state, server>>

(* PROBE_SECONDS pass: always on a corpus that does not answer, and on one *)
(* that does when the server is slow, which is a fault.                    *)
ProbeTimesOut(p) ==
  /\ pc[p] = "probe"
  /\ \/ ~ Works(corpus) /\ UNCHANGED faults
     \/ Works(corpus) /\ faults < MaxFaults /\ faults' = faults + 1
  /\ Goto(p, "undo")
  /\ UNCHANGED <<github, files, state, server, tag>>

(* The tag goes on record. *)
Record(p) ==
  /\ pc[p] = "record"
  /\ state' = tag[p]
  /\ Exit(p)
  /\ UNCHANGED <<github, files, server, faults>>

Undo(p) ==
  /\ pc[p] = "undo"
  /\ server' = "stopped"
  /\ Goto(p, "reject")
  /\ UNCHANGED <<github, files, state, tag, faults>>

(* mv $CORPUS aside; nothing ever takes the rejected file back. *)
Reject(p) ==
  /\ pc[p] = "reject"
  /\ corpus' = None
  /\ server' = MovedFrom(server)
  /\ Goto(p, "restore")
  /\ UNCHANGED <<github, prev, state, tag, faults>>

Restore(p) ==
  /\ pc[p] = "restore"
  /\ IF prev # None
       THEN /\ corpus' = prev
            /\ prev' = None
            /\ Goto(p, "restart")
            /\ UNCHANGED tag
       ELSE Exit(p) /\ UNCHANGED <<corpus, prev>>
  /\ UNCHANGED <<github, state, server, faults>>

(* Mutant: the rollback forgets to start the server.                       *)
Restart_Forgotten(p) ==
  /\ pc[p] = "restart"
  /\ Exit(p)
  /\ UNCHANGED <<github, files, state, server, faults>>

(* svc start; the second probe only decides what the journal says.         *)
Restart(p) ==
  /\ pc[p] = "restart"
  /\ server' = Started(server)
  /\ Exit(p)
  /\ UNCHANGED <<github, files, state, faults>>

(* A failed download, checksum or decompression; a kill; TimeoutStartSec;  *)
(* under set -e also a start or a second stop that fails.                  *)
Killed(p) ==
  /\ pc[p] \in KillStages \ {"idle"}
  /\ faults < MaxFaults
  /\ faults' = faults + 1
  /\ Exit(p)
  /\ UNCHANGED <<github, files, state, server>>

(* The box loses power, and boots with the unit enabled. *)
PowerLoss ==
  /\ \A p \in Pullers : pc[p] \in KillStages
  /\ faults < MaxFaults
  /\ faults' = faults + 1
  /\ pc' = [p \in Pullers |-> "idle"]
  /\ tag' = [p \in Pullers |-> None]
  /\ server' = "starting"
  /\ UNCHANGED <<github, files, state>>

Goes(p) ==
  \/ Check(p) \/ Lock(p) \/ LockBusy(p) \/ Stage(p)
  \/ Stop(p) \/ StopFails(p) \/ SetAside(p) \/ Install(p) \/ Start(p)
  \/ ProbeAnswered(p) \/ ProbeTimesOut(p) \/ Record(p)
  \/ Undo(p) \/ Reject(p) \/ Restore(p) \/ Restart(p)

Next ==
  \/ Publish \/ Hide \/ ServerOpens \/ ServerFails \/ PowerLoss
  \/ \E p \in Pullers : List(p) \/ Goes(p) \/ Killed(p)

Spec == Init /\ [][Next]_vars

(* The timer fires again and again, a run that has begun goes on to its    *)
(* end, and systemd starts what it was told to.  Between two runs, 15      *)
(* minutes apart, the server has the seconds it needs to open its corpus.  *)
(* Somebody who pulls by hand does not always hold the lock when the timer *)
(* comes.                                                                  *)
FairSpec ==
  /\ Spec
  /\ WF_vars(ServerOpens) /\ SF_vars(Free /\ ServerOpens)
  /\ \A p \in Pullers : WF_vars(Goes(p))
  /\ \A p \in Pullers \ ByHand : WF_vars(List(p)) /\ SF_vars(Lock(p))
-----------------------------------------------------------------------------
(***************************************************************************)
(* Properties.                                                             *)
(***************************************************************************)

(* The server never runs on a file that has been moved away: "the one      *)
(* order that never leaves a running server on a moved file" (svc).        *)
NoMovedFile == server # "stray"

(* "Fails safe at every step": once a release has been served, a corpus    *)
(* that works is at $CORPUS or at $PREV, whatever is being tried out, so   *)
(* that a release that does not answer can be undone.                      *)
GoodKept == state # None => \E file \in {corpus, prev} : Works(file)

(* What is on record is what is served, except by a run that is under way: *)
(* a pull that has failed leaves the corpus of the record in place, also   *)
(* when another run moved the record on after this one had read it.        *)
RecordIsServed == Free => corpus = state

(* The newest release ends up on record if it works, whatever refused or   *)
(* mute releases came before it and whichever run was interrupted.         *)
NewestServed ==
  <>[](\A r \in visible : IsNewest(r) /\ kind[r] = "answers" => state = r)

(* A box with something to pull does not stay down: the timer's runs bring *)
(* the server back on a corpus that works, again and again, even while the *)
(* newest release is one they have to undo every time.                     *)
ComesBack ==
  []<>(Answers \/ state = None \/ \A r \in visible : IsNewest(r) => state = r)
=============================================================================
