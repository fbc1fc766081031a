------------------------------- MODULE Broker -------------------------------
(***************************************************************************)
(* The backends of persistence.rs that are not a file: a value in memory   *)
(* behind a mutex, a key of a Redis server, the tail of a Kafka topic.     *)
(*                                                                         *)
(* The servers and the network are external.  The log holds the writes     *)
(* that took effect, in order: the last one is what is stored.  A write    *)
(* that was sent is on the wire until it took effect or was lost; it may   *)
(* take effect long after its caller gave up.  A topic is compacted: any   *)
(* record but the last may disappear, and a reader then gets the next one. *)
(* A blob is named by the number of the call that saves it.                *)
(***************************************************************************)
EXTENDS Integers, Sequences, FiniteSets

CONSTANTS
  Clients,    \* callers of save and load, each with its backend object
  Backends,   \* of {"memory", "redis", "kafka"}
  Nothing,    \* None: nothing is stored
  MaxCalls,   \* bound: how many calls are made
  MaxRetries  \* bound: how often a record is sent again

ASSUME BrokerAssumption ==
  /\ Backends \subseteq {"memory", "redis", "kafka"}
  /\ Nothing \notin Nat
  /\ MaxCalls \in Nat
  /\ MaxRetries \in Nat

VARIABLES
  backend,  \* the one that is in use
  log,      \* external: the writes that took effect
  kept,     \* external: the places of the log that compaction left
  wire,     \* external: the writes that may still take effect
  lost,     \* external: the calls whose record could not be delivered
  retries,  \* external: how many records were sent again
  pc, op,   \* where each client is in its call, and its local variables
  answer,   \* what its last call returned
  calls,    \* how many calls were made
  acked,    \* the saves that returned Ok
  seen,     \* of each load: what was stored at some moment of it
  before    \* of each call: the saves that had returned Ok when it was made

remote == <<log, kept, wire, lost, retries>>
client == <<pc, op, answer, acked>>
past   == <<calls, seen, before>>
vars   == <<backend, remote, client, past>>

NoOp == [kind |-> "none", call |-> 0, got |-> Nothing, high |-> 0]

\* Result<(), _> and Result<Option<Vec<u8>>, _> in one.
Answer(o, result, blob) ==
  [kind |-> o.kind, result |-> result, blob |-> blob]

StoredIn(l) == IF l = <<>> THEN Nothing ELSE l[Len(l)]

-----------------------------------------------------------------------------
(* Steps of a call.                                                        *)

Goto(c, where) == pc' = [pc EXCEPT ![c] = where]

Return(c, result, blob) ==
  /\ Goto(c, "idle")
  /\ op' = [op EXCEPT ![c] = NoOp]
  /\ answer' = [answer EXCEPT ![c] = Answer(op[c], result, blob)]
  /\ acked' = IF op[c].kind = "save" /\ result = "Ok"
               THEN acked \cup {op[c].call} ELSE acked

Call(c) ==
  /\ pc[c] = "idle"
  /\ calls < MaxCalls
  /\ calls' = calls + 1
  /\ \E kind \in {"save", "load"} :
       /\ op' = [op EXCEPT ![c] = [NoOp EXCEPT !.kind = kind, !.call = calls + 1]]
       /\ Goto(c, kind)
  /\ seen' = [seen EXCEPT ![c] = {StoredIn(log)}]
  /\ before' = Append(before, acked)
  /\ UNCHANGED <<backend, remote, answer, acked>>

\* A write takes effect: it is what is stored, and every load may see it.
Store(blob) ==
  /\ log' = Append(log, blob)
  /\ kept' = kept \cup {Len(log) + 1}
  /\ seen' = [c \in Clients |->
                IF op[c].kind = "load" THEN seen[c] \cup {blob} ELSE seen[c]]

-----------------------------------------------------------------------------
(* MemoryPersistence: both calls under the mutex.                          *)

MemorySave(c) ==
  /\ backend = "memory" /\ pc[c] = "save"
  /\ Store(op[c].call)
  /\ Return(c, "Ok", Nothing)
  /\ UNCHANGED <<backend, wire, lost, retries, calls, before>>

MemoryLoad(c) ==
  /\ backend = "memory" /\ pc[c] = "load"
  /\ Return(c, "Ok", StoredIn(log))
  /\ UNCHANGED <<backend, remote, past>>

-----------------------------------------------------------------------------
(* A client of a server.                                                   *)

\* get_connection fails; a producer or consumer cannot be created, the record
\* not be queued, the watermarks not be fetched: nothing was sent.
Refused(c) ==
  /\ backend # "memory"
  /\ pc[c] \in {"save", "load"}
  /\ Return(c, "Err", Nothing)
  /\ UNCHANGED <<backend, remote, past>>

\* SET is written to the connection; producer.send queues the record.
Send(c) ==
  /\ backend # "memory" /\ pc[c] = "save"
  /\ wire' = wire \cup {op[c].call}
  /\ Goto(c, "wait")
  /\ UNCHANGED <<backend, log, kept, lost, retries, op, answer, acked, past>>

\* Mutant: save returns without a flush.
MutantAnswered(c) ==
  /\ pc[c] = "wait"
  /\ Return(c, "Ok", Nothing)
  /\ UNCHANGED <<backend, remote, past>>

\* The reply to SET; flush found no record in its queue.
Answered(c) ==
  /\ pc[c] = "wait"
  /\ op[c].call \notin wire
  /\ Return(c, "Ok", Nothing)
  /\ UNCHANGED <<backend, remote, past>>

\* Mutant: flush waits for ever.
MutantNoTimeout(c) ==
  /\ backend = "redis" /\ pc[c] = "wait"
  /\ Return(c, "Err", Nothing)
  /\ UNCHANGED <<backend, remote, past>>

\* Mutant: the result of flush is ignored.
MutantGiveUp(c) ==
  /\ pc[c] = "wait"
  /\ Return(c, "Ok", Nothing)
  /\ UNCHANGED <<backend, remote, past>>

\* Redis answers with an error, or the connection breaks before the reply;
\* flush times out.  What was sent may take effect all the same.
GiveUp(c) ==
  /\ pc[c] = "wait"
  /\ Return(c, "Err", Nothing)
  /\ UNCHANGED <<backend, remote, past>>

\* GET is executed.
Get(c) ==
  /\ backend = "redis" /\ pc[c] = "load"
  /\ op' = [op EXCEPT ![c].got = StoredIn(log)]
  /\ Goto(c, "reply")
  /\ UNCHANGED <<backend, remote, answer, acked, past>>

\* The reply to GET, unless the connection breaks before.
Reply(c) ==
  /\ pc[c] = "reply"
  /\ Return(c, "Ok", op[c].got) \/ Return(c, "Err", Nothing)
  /\ UNCHANGED <<backend, remote, past>>

\* fetch_watermarks: an empty topic holds nothing.
Watermarks(c) ==
  /\ backend = "kafka" /\ pc[c] = "load"
  /\ IF log = <<>>
     THEN Return(c, "Ok", Nothing)
     ELSE /\ op' = [op EXCEPT ![c].high = Len(log)]
          /\ Goto(c, "poll")
          /\ UNCHANGED <<answer, acked>>
  /\ UNCHANGED <<backend, remote, past>>

\* Mutant: from the low watermark.
MutantFrom(high) == 1

\* The place that poll reads from: Offset::Offset(high - 1).
From(high) == high

\* The first record that compaction left from there on.
Poll(c) ==
  /\ pc[c] = "poll"
  /\ \E i \in kept :
       /\ i >= From(op[c].high)
       /\ \A j \in kept : j >= From(op[c].high) => i <= j
       /\ Return(c, "Ok", log[i])
  /\ UNCHANGED <<backend, remote, past>>

PollFails(c) ==
  /\ pc[c] = "poll"
  /\ Return(c, "Err", Nothing)
  /\ UNCHANGED <<backend, remote, past>>

\* poll returned nothing in time: Ok(None), as if nothing were stored.
PollTimesOut(c) ==
  /\ pc[c] = "poll"
  /\ Return(c, "Timeout", Nothing)
  /\ UNCHANGED <<backend, remote, past>>

-----------------------------------------------------------------------------
(* The servers and the network.                                            *)

Apply(blob) ==
  /\ Store(blob)
  /\ wire' = wire \ {blob}
  /\ UNCHANGED <<backend, lost, retries, client, calls, before>>

\* The acknowledgement of a record is lost and the producer, which is not
\* idempotent, sends it again.
ApplyUnacked(blob) ==
  /\ backend = "kafka"
  /\ retries < MaxRetries
  /\ retries' = retries + 1
  /\ Store(blob)
  /\ UNCHANGED <<backend, wire, lost, client, calls, before>>

\* A record is rejected or expires; no callback tells the caller.
Lose(blob) ==
  /\ backend = "kafka"
  /\ wire' = wire \ {blob}
  /\ lost' = lost \cup {blob}
  /\ UNCHANGED <<backend, log, kept, retries, client, past>>

Compact ==
  /\ backend = "kafka"
  /\ \E i \in kept : i < Len(log) /\ kept' = kept \ {i}
  /\ UNCHANGED <<backend, log, wire, lost, retries, client, past>>

-----------------------------------------------------------------------------
Init ==
  /\ backend \in Backends
  /\ log = <<>> /\ kept = {} /\ wire = {} /\ lost = {} /\ retries = 0
  /\ pc = [c \in Clients |-> "idle"]
  /\ op = [c \in Clients |-> NoOp]
  /\ answer = [c \in Clients |-> Answer(NoOp, "none", Nothing)]
  /\ acked = {}
  /\ calls = 0
  /\ seen = [c \in Clients |-> {}]
  /\ before = <<>>

Step(c) ==
  \/ MemorySave(c) \/ MemoryLoad(c)
  \/ Refused(c) \/ Send(c) \/ Answered(c) \/ GiveUp(c)
  \/ Get(c) \/ Reply(c)
  \/ Watermarks(c) \/ Poll(c) \/ PollFails(c) \/ PollTimesOut(c)

Servers == Compact \/ \E blob \in wire :
             Apply(blob) \/ ApplyUnacked(blob) \/ Lose(blob)

Next == (\E c \in Clients : Call(c) \/ Step(c)) \/ Servers

\* A caller's thread keeps running, and what it waits for in a call to Kafka
\* has a timeout.  The Redis client has none.
Fairness == \A c \in Clients : WF_vars(backend # "redis" /\ Step(c))

Spec == Init /\ [][Next]_vars /\ Fairness

-----------------------------------------------------------------------------
(* Properties.                                                             *)

\* A load answers with a blob that was the stored one at some moment of the
\* load, and with nothing only if at such a moment nothing was stored: neither
\* the two requests of a Kafka load, nor what other clients save or compaction
\* removes in between, bring back an older blob.  A poll that timed out is not
\* counted here.
LoadedWasStored ==
  \A c \in Clients :
    pc[c] = "idle" /\ answer[c].kind = "load" /\ answer[c].result = "Ok" =>
      answer[c].blob \in seen[c]

\* A save that returned Ok took effect, unless its record could not be
\* delivered to Kafka, which nobody is told.
AckedTookEffect ==
  \A n \in acked : n \in lost \/ \E i \in DOMAIN log : log[i] = n

\* A blob whose save had returned Ok does not come back over that of a save
\* begun afterwards, though records are sent again and requests outlive calls.
AckedStaysReplaced ==
  \A i, j \in DOMAIN log : i < j => log[j] \notin before[log[i]]

\* Whatever the brokers do, a call to Kafka returns.
TimeoutsEndCalls ==
  \A c \in Clients : backend # "redis" /\ pc[c] # "idle" ~> pc[c] = "idle"
=============================================================================
