----------------------------- MODULE EventStream -----------------------------
(***************************************************************************)
(* src/streams/: a Redis stream, its consumer group and the loop of every  *)
(* consumer of it.                                                         *)
(*                                                                         *)
(* What the handler of an event does is left open here: it ends or raises. *)
(* OrderCompletion and BackgroundJob say what the handlers of the order    *)
(* and of the job stream do.                                               *)
(***************************************************************************)
EXTENDS Naturals, Sequences, FiniteSets, SequencesExt

CONSTANTS
  Event,          \* what may be published, each once
  Worker,         \* consumers of the group
  BatchSize,      \* entries one read or one claim returns (10)
  MaxDeliveries,  \* MAX_DELIVERY_ATTEMPTS (5)
  Faults,         \* which faults happen
  MaxFaults       \* bound: faults that happen

ASSUME StreamAssumption ==
  /\ BatchSize \in Nat \ {0}
  /\ MaxDeliveries \in Nat \ {0}
  /\ Faults \subseteq {"crash", "redis", "dlq", "mongo", "reply", "stall"}
  /\ MaxFaults \in Nat

VARIABLES
  log,         \* the stream: every published entry, in order
  entry,       \* for the group: unread, pending, acked
  idle,        \* a pending entry's last delivery is CLAIM_IDLE_MS ago
  deliveries,  \* times delivered, up to MaxDeliveries
  dead,        \* entries in the dead-letter stream
  handled,     \* history: entries whose handler ended
  loop,        \* where each consumer is
  faults       \* faults so far

stream     == <<log, entry, idle, deliveries, dead, handled>>
streamVars == <<stream, loop, faults>>

(* A consumer's place in _process, the entries of its batch that are left, *)
(* first the one at hand, and whether it has seen this to be the last try. *)
Loop == [at : {"waiting", "handle", "ack", "failed", "callback", "deadLetter", "ackDead"},
         batch : Seq(Event), last : BOOLEAN]

Waiting == [at |-> "waiting", batch |-> <<>>, last |-> FALSE]

LoopAt(w, at) == loop[w].at = at
InHand(w) == Head(loop[w].batch)
Goes(w, at) == loop' = [loop EXCEPT ![w].at = at]

(* The next entry of the batch, or back to reading. *)
Proceeds(w) ==
  loop' = [loop EXCEPT ![w] = IF Len(@.batch) > 1
                              THEN [at |-> "handle", batch |-> Tail(@.batch), last |-> FALSE]
                              ELSE Waiting]

Fault(kind) == kind \in Faults /\ faults < MaxFaults /\ faults' = faults + 1

EventInit ==
  /\ log = <<>>
  /\ entry = [e \in Event |-> "absent"]
  /\ idle = [e \in Event |-> FALSE]
  /\ deliveries = [e \in Event |-> 0]
  /\ dead = {}
  /\ handled = {}
  /\ loop = [w \in Worker |-> Waiting]
  /\ faults = 0

-----------------------------------------------------------------------------
(* publish: the XADD.  A caller that is told of a failure may be told so   *)
(* of an entry that is in the stream (Appended happens all the same).      *)
Appended(e) ==
  /\ entry[e] = "absent"
  /\ log' = Append(log, e)
  /\ entry' = [entry EXCEPT ![e] = "unread"]
  /\ UNCHANGED <<idle, deliveries, dead, handled, loop>>

Publish(e) == Appended(e) /\ UNCHANGED faults

PublishLosesReply(e) == Appended(e) /\ Fault("reply")

PublishFails(e) ==
  /\ entry[e] = "absent"
  /\ Fault("redis")
  /\ UNCHANGED <<stream, loop>>

-----------------------------------------------------------------------------
(* The consumer's loop *)

FirstOf(entries) == SubSeq(entries, 1, IF Len(entries) < BatchSize THEN Len(entries) ELSE BatchSize)

(* The group hands the entries to this consumer and counts the delivery. *)
Delivered(w, batch) ==
  /\ LoopAt(w, "waiting")
  /\ batch \in Seq(ToSet(log)) \ {<<>>}
  /\ entry' = [e \in Event |-> IF e \in ToSet(batch) THEN "pending" ELSE entry[e]]
  /\ idle' = [e \in Event |-> idle[e] /\ e \notin ToSet(batch)]
  /\ deliveries' = [e \in Event |-> IF e \in ToSet(batch) /\ deliveries[e] < MaxDeliveries
                                    THEN deliveries[e] + 1 ELSE deliveries[e]]
  /\ loop' = [loop EXCEPT ![w].at = "handle", ![w].batch = batch]
  /\ UNCHANGED <<log, dead, handled, faults>>

Unread(e) == entry[e] = "unread"
Stale(e) == entry[e] = "pending" /\ idle[e]

(* XREADGROUP with ">". *)
ReadNew(w) == Delivered(w, FirstOf(SelectSeq(log, Unread)))

(* _claim_stale: XAUTOCLAIM from "0", whoever had the entries. *)
ClaimStale(w) == Delivered(w, FirstOf(SelectSeq(log, Stale)))

HandlerEnds(w) ==
  /\ LoopAt(w, "handle")
  /\ handled' = handled \cup {InHand(w)}
  /\ Goes(w, "ack")
  /\ UNCHANGED <<log, entry, idle, deliveries, dead, faults>>

(* It raises of its own accord, or because a write of its own fails. *)
HandlerRaises(w) ==
  /\ LoopAt(w, "handle")
  /\ Goes(w, "failed")
  /\ UNCHANGED faults \/ Fault("mongo")
  /\ UNCHANGED stream

(* XACK after the handler; its failure counts as the handler's. *)
Ack(w) ==
  /\ LoopAt(w, "ack")
  /\ \/ /\ entry' = [entry EXCEPT ![InHand(w)] = "acked"]
        /\ Proceeds(w)
        /\ UNCHANGED faults
     \/ /\ Fault("redis")
        /\ Goes(w, "failed")
        /\ UNCHANGED entry
  /\ UNCHANGED <<log, idle, deliveries, dead, handled>>

(* _delivery_count: 1 when it cannot be read. *)
CountDeliveries(w) ==
  /\ LoopAt(w, "failed")
  /\ \/ /\ loop' = [loop EXCEPT ![w].at = "callback",
                                ![w].last = deliveries[InHand(w)] >= MaxDeliveries]
        /\ UNCHANGED faults
     \/ /\ Fault("redis")
        /\ loop' = [loop EXCEPT ![w].at = "callback", ![w].last = 1 >= MaxDeliveries]
  /\ UNCHANGED stream

CallbackDropsTheEvent(w) ==
  /\ LoopAt(w, "callback")
  /\ IF loop[w].last THEN Goes(w, "ackDead") ELSE Proceeds(w)
  /\ UNCHANGED faults \/ Fault("mongo")
  /\ UNCHANGED stream

(* on_failure returned or raised, which is swallowed. *)
CallbackEnds(w) ==
  /\ LoopAt(w, "callback")
  /\ IF loop[w].last THEN Goes(w, "deadLetter") ELSE Proceeds(w)
  /\ UNCHANGED faults \/ Fault("mongo")
  /\ UNCHANGED stream

(* publish to the dead-letter stream; it never raises. *)
DeadLetter(w) ==
  /\ LoopAt(w, "deadLetter")
  /\ \/ /\ dead' = dead \cup {InHand(w)}
        /\ UNCHANGED faults
     \/ /\ Fault("dlq")
        /\ UNCHANGED dead
  /\ Goes(w, "ackDead")
  /\ UNCHANGED <<log, entry, idle, deliveries, handled>>

(* The XACK after it; an exception ends this batch, whose other entries    *)
(* stay pending until they are claimed.                                    *)
AckDead(w) ==
  /\ LoopAt(w, "ackDead")
  /\ \/ /\ entry' = [entry EXCEPT ![InHand(w)] = "acked"]
        /\ Proceeds(w)
        /\ UNCHANGED faults
     \/ /\ Fault("redis")
        /\ loop' = [loop EXCEPT ![w] = Waiting]
        /\ UNCHANGED entry
  /\ UNCHANGED <<log, idle, deliveries, dead, handled>>

(* The worker process dies and is restarted under a new consumer name. *)
WorkerDies(w) ==
  /\ ~LoopAt(w, "waiting")
  /\ Fault("crash")
  /\ loop' = [loop EXCEPT ![w] = Waiting]
  /\ UNCHANGED stream

(* CLAIM_IDLE_MS pass over every pending entry. *)
IdlePasses ==
  /\ idle' = [e \in Event |-> entry[e] = "pending"]
  /\ UNCHANGED <<log, entry, deliveries, dead, handled, loop, faults>>

Closes(w) == \/ Ack(w) \/ CountDeliveries(w) \/ CallbackEnds(w) \/ DeadLetter(w) \/ AckDead(w)

EventNext ==
  \/ \E e \in Event : Publish(e) \/ PublishLosesReply(e) \/ PublishFails(e)
  \/ \E w \in Worker : \/ ReadNew(w) \/ ClaimStale(w) \/ HandlerEnds(w) \/ HandlerRaises(w)
                       \/ Closes(w) \/ WorkerDies(w)
  \/ IdlePasses

(* A handler may meet failures that the transport takes no notice of. *)
EventSpec == EventInit /\ [][EventNext]_<<stream, loop>>

-----------------------------------------------------------------------------
(* Properties *)

(* Every part is in its type, a consumer that works has an entry at hand,  *)
(* and an entry is in the log from its publication on, once.               *)
StreamTypeOK ==
  /\ log \in Seq(Event) /\ IsInjective(log)
  /\ entry \in [Event -> {"absent", "unread", "pending", "acked"}]
  /\ ToSet(log) = {e \in Event : entry[e] # "absent"}
  /\ idle \in [Event -> BOOLEAN]
  /\ deliveries \in [Event -> 0 .. MaxDeliveries]
  /\ dead \subseteq ToSet(log) /\ handled \subseteq ToSet(log)
  /\ loop \in [Worker -> Loop]
  /\ \A w \in Worker : LoopAt(w, "waiting") <=> loop[w].batch = <<>>
  /\ faults \in 0 .. MaxFaults

(* An entry leaves the group only when its handler ended or it is in the   *)
(* dead-letter stream, unless the publish to that stream failed            *)
(* (_process's comment on never silently losing an event).                 *)
NothingVanishes ==
  "dlq" \notin Faults =>
    \A e \in Event : entry[e] = "acked" => e \in handled \cup dead
=============================================================================
