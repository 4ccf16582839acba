---------------------------- MODULE PoliteClient ----------------------------
(***************************************************************************)
(* The requests of one sync: one client per source, one source at a time.  *)
(*   wikipethia-fetch/src/client.rs  HttpClient: throttle, retries         *)
(*   wikipethia/src/main.rs          sync_sources, its loop                *)
(* Time is a count of ticks, of which MinInterval make one second.  A      *)
(* sleep lasts as long as it was asked to, or longer.  Requests of a       *)
(* source go to its own host; the pages a feed links to elsewhere, and     *)
(* other processes, are left out.                                          *)
(***************************************************************************)
EXTENDS Integers, Manifest

CONSTANTS
  SourceEntries,   \* the entries sources.toml may have
  MinInterval,     \* MIN_INTERVAL
  MaxAttempts,     \* MAX_ATTEMPTS
  InitialBackoff,  \* INITIAL_BACKOFF
  MaxBackoff,      \* MAX_BACKOFF
  RetryAfters,     \* what a Retry-After header may say
  MaxTime          \* bound: the ticks

ASSUME ClientAssumption ==
  /\ MinInterval \in Nat \ {0} /\ MaxAttempts \in Nat \ {0}
  /\ InitialBackoff \in Nat \ {0} /\ MaxBackoff \in Nat
  /\ InitialBackoff <= MaxBackoff
  /\ RetryAfters \subseteq Nat /\ MaxTime \in Nat

VARIABLES
  now,       \* the clock
  selected,  \* the sources this sync goes through
  turn,      \* the one it is at
  client,    \* that source's HttpClient and what it is doing
  sent       \* history: host -> the last request it was sent

clientVars == <<now, selected, turn, client, sent>>

Never == -1  \* last_request = None

Hosts == {e.host : e \in SourceEntries}

(* wake: when the sleep ends; asked: history, the time before which the    *)
(* host does not want the next attempt of this call.                       *)
Clients == [pc : {"free", "throttle", "sent", "backoff"},
            last : Nat \cup {Never}, wake : Nat, attempt : 1 .. MaxAttempts,
            backoff : InitialBackoff .. MaxBackoff, asked : Nat]

NewClient == [pc |-> "free", last |-> Never, wake |-> 0, attempt |-> 1,
              backoff |-> InitialBackoff, asked |-> 0]

ClientTypeOK ==
  /\ now \in Nat
  /\ selected \in Seq(SourceEntries) /\ turn \in Nat
  /\ client \in Clients
  /\ sent \in [Hosts -> [at : Nat \cup {Never}, turn : Nat]]

ClientInit ==
  /\ now = 0
  /\ \E i, j \in SourceEntries :
       \E id \in {All, i.id} :
         /\ Parses(<<i, j>>)
         /\ selected = Select(<<i, j>>, id)
  /\ turn = 1
  /\ client = NewClient
  /\ sent = [h \in Hosts |-> [at |-> Never, turn |-> 0]]
-----------------------------------------------------------------------------
Source == selected[turn]

Later(a, b) == IF a > b THEN a ELSE b
Sooner(a, b) == IF a < b THEN a ELSE b

Tick ==
  /\ now < MaxTime
  /\ now' = now + 1
  /\ UNCHANGED <<selected, turn, client, sent>>

(* throttle: when the next request may leave. *)
Slot == IF client.last = Never THEN now ELSE Later(now, client.last + MinInterval)

(* A call of get_json, get_text or get_bytes. *)
Call ==
  /\ turn <= Len(selected) /\ client.pc = "free"
  /\ client' = [client EXCEPT !.pc = "throttle", !.wake = Slot, !.attempt = 1,
                              !.backoff = InitialBackoff, !.asked = now]
  /\ UNCHANGED <<now, selected, turn, sent>>

(* last_request is when the throttle let it through. *)
Attempt ==
  /\ client.pc = "throttle" /\ now >= client.wake
  /\ client' = [client EXCEPT !.pc = "sent", !.last = now]
  /\ sent' = [sent EXCEPT ![Source.host] = [at |-> now, turn |-> turn]]
  /\ UNCHANGED <<now, selected, turn>>

(* A body, or an error that no retry would change. *)
Response ==
  /\ client.pc = "sent"
  /\ client' = [client EXCEPT !.pc = "free"]
  /\ UNCHANGED <<now, selected, turn, sent>>

(* Mutant: Retry-After replaces the backoff.                               *)
Delay_AsTold(told) == IF told = Never THEN client.backoff ELSE told

Delay(told) == IF told = Never THEN client.backoff ELSE Later(told, client.backoff)

(* 429, with or without a Retry-After; a server error, no connection, a    *)
(* truncated body.  The last attempt waits for nothing.                    *)
TryAgain(told) ==
  /\ client.pc = "sent"
  /\ client' =
       IF client.attempt = MaxAttempts THEN [client EXCEPT !.pc = "free"]
       ELSE [client EXCEPT !.pc = "backoff",
                           !.wake = now + Delay(told),
                           !.backoff = Sooner(2 * @, MaxBackoff),
                           !.asked = now + Later(client.backoff,
                                                 IF told = Never THEN 0 ELSE told)]
  /\ UNCHANGED <<now, selected, turn, sent>>

Retry ==
  /\ client.pc = "backoff" /\ now >= client.wake
  /\ client' = [client EXCEPT !.pc = "throttle", !.wake = Slot, !.attempt = @ + 1]
  /\ UNCHANGED <<now, selected, turn, sent>>

(* The sync of a source ends, well or not, and the next has a new client.  *)
NextSource ==
  /\ turn <= Len(selected) /\ client.pc = "free"
  /\ turn' = turn + 1
  /\ client' = NewClient
  /\ UNCHANGED <<now, selected, sent>>

ClientNext ==
  \/ Tick \/ Call \/ Attempt \/ Response
  \/ \E told \in RetryAfters \cup {Never} : TryAgain(told)
  \/ Retry \/ NextSource

ClientSpec == ClientInit /\ [][ClientNext]_clientVars
-----------------------------------------------------------------------------
(* "One request per second per host", over the attempts of all calls of    *)
(* all sources: two that follow one another to one host are at least       *)
(* MIN_INTERVAL apart when they are of one source, and when both sources   *)
(* crawl, which needs what parse refuses.  (Two repositories of one host   *)
(* may come closer where one ends and the other begins.)                   *)
HostPolite ==
  [][Attempt =>
       LET before == sent[Source.host]
       IN  before.at # Never
           /\ (before.turn = turn \/ (Crawls(selected[before.turn]) /\ Crawls(Source)))
             => now - before.at >= MinInterval]_clientVars

(* No attempt of a call comes before both the host's Retry-After and the   *)
(* doubling backoff have passed.                                           *)
RetriesWait == [][Attempt => now >= client.asked]_clientVars
=============================================================================
