-------------------------- MODULE EventStreamProofs --------------------------
(***************************************************************************)
(* Proofs about EventStream, for any handlers, any number of consumers and *)
(* events, any batch size and any number of deliveries.  Of a read they    *)
(* use that it returns entries of the stream, not which.                   *)
(***************************************************************************)
EXTENDS EventStream, SequenceTheorems, TLAPS

(* StreamTypeOK without the count of faults, which EventSpec leaves free. *)
StreamShape ==
  /\ log \in Seq(Event) /\ IsInjective(log)
  /\ entry \in [Event -> {"absent", "unread", "pending", "acked"}]
  /\ ToSet(log) = {e \in Event : entry[e] # "absent"}
  /\ idle \in [Event -> BOOLEAN]
  /\ deliveries \in [Event -> 0 .. MaxDeliveries]
  /\ dead \subseteq ToSet(log) /\ handled \subseteq ToSet(log)
  /\ loop \in [Worker -> Loop]
  /\ \A w \in Worker : LoopAt(w, "waiting") <=> loop[w].batch = <<>>

(* A consumer has entries of the stream at hand; it acks one after its     *)
(* handler ended, or after it was written to the dead-letter stream.       *)
HandsFull ==
  /\ \A w \in Worker : ToSet(loop[w].batch) \subseteq ToSet(log)
  /\ \A w \in Worker : LoopAt(w, "ack") => InHand(w) \in handled
  /\ "dlq" \notin Faults => \A w \in Worker : LoopAt(w, "ackDead") => InHand(w) \in dead

StreamInv == StreamShape /\ HandsFull /\ NothingVanishes

-----------------------------------------------------------------------------
(* Sequences: the elements of an appended one, of a tail, and of an        *)
(* injective one.                                                          *)
LEMMA ElementsOfAppend ==
  ASSUME NEW S, NEW s \in Seq(S), NEW x \in S
  PROVE  /\ Append(s, x) \in Seq(S)
         /\ ToSet(Append(s, x)) = ToSet(s) \cup {x}
         /\ IsInjective(s) /\ x \notin ToSet(s) => IsInjective(Append(s, x))
<1>1. /\ DOMAIN Append(s, x) = 1 .. Len(s) + 1
      /\ \A i \in 1 .. Len(s) : Append(s, x)[i] = s[i]
      /\ Append(s, x)[Len(s) + 1] = x
      /\ DOMAIN s = 1 .. Len(s) /\ Len(s) \in Nat
  OBVIOUS
<1>2. Append(s, x) \in Seq(S)
  OBVIOUS
<1>3. 1 .. Len(s) + 1 = (1 .. Len(s)) \cup {Len(s) + 1}
  BY <1>1
<1>4. ToSet(Append(s, x)) = ToSet(s) \cup {x}
  BY <1>1, <1>3 DEF ToSet
<1>5. ASSUME IsInjective(s), x \notin ToSet(s) PROVE IsInjective(Append(s, x))
  BY <1>1, <1>3, <1>5 DEF ToSet, IsInjective
<1> QED
  BY <1>2, <1>4, <1>5

LEMMA ElementsOfTail ==
  ASSUME NEW S, NEW s \in Seq(S), s # <<>>
  PROVE  /\ Head(s) \in S /\ Head(s) \in ToSet(s)
         /\ Tail(s) \in Seq(S) /\ ToSet(Tail(s)) \subseteq ToSet(s)
         /\ Len(s) > 1 => Tail(s) # <<>>
<1>1. Head(s) = s[1] /\ 1 \in DOMAIN s
  OBVIOUS
<1>2. /\ Tail(s) \in Seq(S) /\ DOMAIN Tail(s) = 1 .. Len(s) - 1
      /\ \A i \in 1 .. Len(s) - 1 : Tail(s)[i] = s[i + 1] /\ i + 1 \in DOMAIN s
  OBVIOUS
<1>3. Len(s) > 1 => Tail(s) # <<>>
  <2>1. Tail(s) = <<>> => Len(Tail(s)) = Len(<<>>)
    BY ONLY Zenon
  <2>2. Len(Tail(s)) = Len(s) - 1 /\ Len(s) \in Nat
    OBVIOUS
  <2>3. Len(<<>>) = 0
    OBVIOUS
  <2>4. Len(s) > 1 => Len(Tail(s)) # 0
    BY <2>2
  <2> QED
    BY ONLY <2>1, <2>3, <2>4, Zenon
<1> QED
  BY <1>1, <1>2, <1>3 DEF ToSet

LEMMA ElementsAreMembers ==
  ASSUME NEW S, NEW s \in Seq(S)
  PROVE  ToSet(s) \subseteq S
BY DEF ToSet

-----------------------------------------------------------------------------
(* What an action does to a consumer that has an entry at hand. *)

(* The entry at hand is an entry of the stream. *)
LEMMA InHandInLog ==
  ASSUME StreamInv, NEW w \in Worker, ~LoopAt(w, "waiting")
  PROVE  InHand(w) \in Event /\ InHand(w) \in ToSet(log)
<1>1. loop[w].batch \in Seq(Event) /\ loop[w].batch # <<>>
  BY DEF StreamInv, StreamShape, Loop
<1> QED
  BY <1>1, ElementsOfTail DEF StreamInv, HandsFull, InHand

(* A step of one consumer within its batch. *)
LEMMA GoesKeepsLoop ==
  ASSUME StreamInv, NEW w \in Worker, ~LoopAt(w, "waiting"),
         NEW at \in {"handle", "ack", "failed", "callback", "deadLetter", "ackDead"},
         NEW last \in BOOLEAN,
         loop' = [loop EXCEPT ![w].at = at, ![w].last = last]
  PROVE  /\ loop' \in [Worker -> Loop]
         /\ \A v \in Worker : LoopAt(v, "waiting")' <=> loop'[v].batch = <<>>
         /\ \A v \in Worker : loop'[v].batch = loop[v].batch
         /\ \A v \in Worker \ {w} : loop'[v] = loop[v]
         /\ loop'[w].at = at
BY ZenonT(30) DEF StreamInv, StreamShape, Loop, LoopAt

LEMMA ProceedsKeepsLoop ==
  ASSUME StreamInv, NEW w \in Worker, ~LoopAt(w, "waiting"), Proceeds(w)
  PROVE  /\ loop' \in [Worker -> Loop]
         /\ \A v \in Worker : LoopAt(v, "waiting")' <=> loop'[v].batch = <<>>
         /\ \A v \in Worker : ToSet(loop'[v].batch) \subseteq ToSet(loop[v].batch)
         /\ \A v \in Worker \ {w} : loop'[v] = loop[v]
         /\ loop'[w].at \in {"handle", "waiting"}
<1>1. loop[w].batch \in Seq(Event) /\ loop[w].batch # <<>>
  BY DEF StreamInv, StreamShape, Loop
<1>2. CASE Len(loop[w].batch) > 1
  <2>1. loop' = [loop EXCEPT ![w] = [at |-> "handle", batch |-> Tail(loop[w].batch), last |-> FALSE]]
    BY <1>2 DEF Proceeds
  <2>2. /\ Tail(loop[w].batch) \in Seq(Event) /\ Tail(loop[w].batch) # <<>>
        /\ ToSet(Tail(loop[w].batch)) \subseteq ToSet(loop[w].batch)
    BY <1>1, <1>2, ElementsOfTail
  <2> QED
    BY <2>1, <2>2 DEF StreamInv, StreamShape, Loop, LoopAt
<1>3. CASE ~(Len(loop[w].batch) > 1)
  <2>1. loop' = [loop EXCEPT ![w] = Waiting]
    BY <1>3 DEF Proceeds
  <2>2. <<>> \in Seq(Event) /\ ToSet(<<>>) = {}
    BY DEF ToSet
  <2> QED
    BY <2>1, <2>2 DEF StreamInv, StreamShape, Loop, LoopAt, Waiting
<1> QED
  BY <1>2, <1>3

LEMMA RestsKeepsLoop ==
  ASSUME StreamInv, NEW w \in Worker, loop' = [loop EXCEPT ![w] = Waiting]
  PROVE  /\ loop' \in [Worker -> Loop]
         /\ \A v \in Worker : LoopAt(v, "waiting")' <=> loop'[v].batch = <<>>
         /\ \A v \in Worker : ToSet(loop'[v].batch) \subseteq ToSet(loop[v].batch)
         /\ \A v \in Worker \ {w} : loop'[v] = loop[v]
         /\ loop'[w].at = "waiting"
<1>1. <<>> \in Seq(Event) /\ ToSet(<<>>) = {}
  BY DEF ToSet
<1> QED
  BY <1>1 DEF StreamInv, StreamShape, Loop, LoopAt, Waiting

-----------------------------------------------------------------------------
(* A step that changes nothing but the place of the loops, and what is     *)
(* written down of an entry at hand, keeps the invariant.                  *)
LEMMA InvKept ==
  ASSUME StreamInv,
         UNCHANGED <<log, idle, deliveries>>,
         entry' \in [Event -> {"absent", "unread", "pending", "acked"}],
         \A e \in Event : entry'[e] = "absent" <=> entry[e] = "absent",
         \A e \in Event : entry'[e] = "acked" /\ "dlq" \notin Faults => e \in handled' \cup dead',
         handled \subseteq handled', handled' \subseteq ToSet(log),
         dead \subseteq dead', dead' \subseteq ToSet(log),
         loop' \in [Worker -> Loop],
         \A w \in Worker : LoopAt(w, "waiting")' <=> loop'[w].batch = <<>>,
         \A w \in Worker : ToSet(loop'[w].batch) \subseteq ToSet(loop[w].batch),
         \A w \in Worker : loop'[w] # loop[w] =>
            /\ LoopAt(w, "ack")' => InHand(w)' \in handled'
            /\ LoopAt(w, "ackDead")' /\ "dlq" \notin Faults => InHand(w)' \in dead'
  PROVE  StreamInv'
<1>1. StreamShape'
  BY DEF StreamInv, StreamShape
<1>2. NothingVanishes'
  BY DEF NothingVanishes
<1>3. ASSUME NEW w \in Worker, LoopAt(w, "ack")' PROVE InHand(w)' \in handled'
  BY <1>3 DEF StreamInv, HandsFull, LoopAt, InHand
<1>4. ASSUME NEW w \in Worker, LoopAt(w, "ackDead")', "dlq" \notin Faults
      PROVE  InHand(w)' \in dead'
  BY <1>4 DEF StreamInv, HandsFull, LoopAt, InHand
<1>5. \A w \in Worker : ToSet(loop'[w].batch) \subseteq ToSet(log')
  BY DEF StreamInv, HandsFull
<1> QED
  BY <1>1, <1>2, <1>3, <1>4, <1>5 DEF StreamInv, HandsFull

LEMMA AppendedKeepsInv == ASSUME StreamInv, NEW e \in Event, Appended(e) PROVE StreamInv'
<1>1. e \notin ToSet(log)
  BY DEF StreamInv, StreamShape, Appended
<1>2. /\ log' \in Seq(Event) /\ IsInjective(log')
      /\ ToSet(log') = ToSet(log) \cup {e}
  BY <1>1, ElementsOfAppend DEF StreamInv, StreamShape, Appended
<1>3. StreamShape'
  BY <1>2 DEF StreamInv, StreamShape, Appended, LoopAt
<1>4. HandsFull'
  BY <1>2 DEF StreamInv, HandsFull, Appended, LoopAt, InHand
<1>5. NothingVanishes'
  BY DEF StreamInv, StreamShape, NothingVanishes, Appended
<1> QED
  BY <1>3, <1>4, <1>5 DEF StreamInv

LEMMA DeliveredKeepsInv ==
  ASSUME StreamInv, NEW w \in Worker, NEW batch, Delivered(w, batch)
  PROVE  StreamInv'
<1>1. batch \in Seq(ToSet(log)) /\ batch # <<>> /\ ToSet(batch) \subseteq ToSet(log)
  BY ElementsAreMembers DEF Delivered
<1>2. ToSet(log) \subseteq Event
  BY DEF StreamInv, StreamShape
<1>3. batch \in Seq(Event)
  BY <1>1, <1>2
<1>4. /\ loop' = [loop EXCEPT ![w].at = "handle", ![w].batch = batch]
      /\ loop[w].at = "waiting"
  BY DEF Delivered, LoopAt
<1>5. /\ loop' \in [Worker -> Loop]
      /\ \A v \in Worker : LoopAt(v, "waiting")' <=> loop'[v].batch = <<>>
  BY <1>1, <1>3, <1>4 DEF StreamInv, StreamShape, Loop, LoopAt
<1>6. deliveries' \in [Event -> 0 .. MaxDeliveries]
  BY StreamAssumption DEF StreamInv, StreamShape, Delivered
<1>7. /\ entry' \in [Event -> {"absent", "unread", "pending", "acked"}]
      /\ ToSet(log') = {e \in Event : entry'[e] # "absent"}
      /\ idle' \in [Event -> BOOLEAN]
  BY <1>1 DEF StreamInv, StreamShape, Delivered
<1>8. StreamShape'
  BY <1>5, <1>6, <1>7 DEF StreamInv, StreamShape, Delivered
<1>9. HandsFull'
  <2>1. /\ \A v \in Worker : v # w => loop'[v] = loop[v]
        /\ loop'[w].at = "handle" /\ loop'[w].batch = batch
    BY <1>4 DEF StreamInv, StreamShape, Loop
  <2>2. UNCHANGED <<log, handled, dead>>
    BY DEF Delivered
  <2> QED
    BY <1>1, <2>1, <2>2 DEF StreamInv, HandsFull, LoopAt, InHand
<1>10. NothingVanishes'
  BY DEF StreamInv, NothingVanishes, Delivered
<1> QED
  BY <1>8, <1>9, <1>10 DEF StreamInv

LEMMA HandlerKeepsInv ==
  ASSUME StreamInv, NEW w \in Worker, HandlerEnds(w) \/ HandlerRaises(w)
  PROVE  StreamInv'
<1>1. ~LoopAt(w, "waiting") /\ UNCHANGED <<log, entry, idle, deliveries, dead>>
  BY DEF HandlerEnds, HandlerRaises, LoopAt, stream
<1>2. InHand(w) \in ToSet(log)
  BY <1>1, InHandInLog
<1>3. PICK at \in {"ack", "failed"} :
           /\ loop' = [loop EXCEPT ![w].at = at]
           /\ handled' = IF at = "ack" THEN handled \cup {InHand(w)} ELSE handled
  BY DEF HandlerEnds, HandlerRaises, Goes, stream
<1>4. loop' = [loop EXCEPT ![w].at = at, ![w].last = loop[w].last] /\ loop[w].last \in BOOLEAN
  BY <1>3 DEF StreamInv, StreamShape, Loop
<1>5. /\ loop' \in [Worker -> Loop]
      /\ \A v \in Worker : LoopAt(v, "waiting")' <=> loop'[v].batch = <<>>
      /\ \A v \in Worker : loop'[v].batch = loop[v].batch
      /\ \A v \in Worker \ {w} : loop'[v] = loop[v]
      /\ loop'[w].at = at
  BY <1>1, <1>4, GoesKeepsLoop
<1>6. handled \subseteq handled' /\ handled' \subseteq ToSet(log)
  BY <1>2, <1>3 DEF StreamInv, StreamShape
<1>7. \A v \in Worker : loop'[v] # loop[v] =>
            /\ LoopAt(v, "ack")' => InHand(v)' \in handled'
            /\ LoopAt(v, "ackDead")' /\ "dlq" \notin Faults => InHand(v)' \in dead'
  BY <1>3, <1>5 DEF LoopAt, InHand
<1> QED
  BY <1>1, <1>5, <1>6, <1>7, InvKept DEF StreamInv, StreamShape, NothingVanishes

LEMMA AckKeepsInv ==
  ASSUME StreamInv, NEW w \in Worker, Ack(w) \/ AckDead(w) PROVE StreamInv'
<1>1. /\ LoopAt(w, "ack") \/ LoopAt(w, "ackDead")
      /\ UNCHANGED <<log, idle, deliveries, dead, handled>>
  BY DEF Ack, AckDead
<1>2. InHand(w) \in Event /\ InHand(w) \in ToSet(log) /\ ~LoopAt(w, "waiting")
  BY <1>1, InHandInLog DEF LoopAt
<1>3. "dlq" \notin Faults => InHand(w) \in handled \cup dead
  BY <1>1 DEF StreamInv, HandsFull
<1>4. /\ entry' \in [Event -> {"absent", "unread", "pending", "acked"}]
      /\ \A e \in Event : entry'[e] = "absent" <=> entry[e] = "absent"
      /\ \A e \in Event : entry'[e] = "acked" => entry[e] = "acked" \/ e = InHand(w)
  BY <1>2 DEF Ack, AckDead, StreamInv, StreamShape
<1>5. /\ loop' \in [Worker -> Loop]
      /\ \A v \in Worker : LoopAt(v, "waiting")' <=> loop'[v].batch = <<>>
      /\ \A v \in Worker : ToSet(loop'[v].batch) \subseteq ToSet(loop[v].batch)
      /\ \A v \in Worker \ {w} : loop'[v] = loop[v]
      /\ loop'[w].at \notin {"ack", "ackDead"}
  <2>1. CASE Proceeds(w)
    BY <1>2, <2>1, ProceedsKeepsLoop
  <2>2. CASE loop' = [loop EXCEPT ![w] = Waiting]
    BY <2>2, RestsKeepsLoop
  <2>3. CASE Goes(w, "failed")
    <3>1. loop' = [loop EXCEPT ![w].at = "failed", ![w].last = loop[w].last]
          /\ loop[w].last \in BOOLEAN
      BY <2>3 DEF Goes, StreamInv, StreamShape, Loop
    <3> QED
      BY <1>2, <3>1, GoesKeepsLoop
  <2> QED
    BY <2>1, <2>2, <2>3 DEF Ack, AckDead
<1>6. \A v \in Worker : loop'[v] # loop[v] => ~LoopAt(v, "ack")' /\ ~LoopAt(v, "ackDead")'
  BY <1>5 DEF LoopAt
<1> QED
  BY <1>1, <1>3, <1>4, <1>5, <1>6, InvKept DEF StreamInv, StreamShape, NothingVanishes

LEMMA FailedKeepsInv ==
  ASSUME StreamInv, NEW w \in Worker, CountDeliveries(w) \/ CallbackEnds(w) PROVE StreamInv'
<1>1. UNCHANGED stream /\ ~LoopAt(w, "waiting")
  BY DEF CountDeliveries, CallbackEnds, LoopAt
<1>2. /\ loop' \in [Worker -> Loop]
      /\ \A v \in Worker : LoopAt(v, "waiting")' <=> loop'[v].batch = <<>>
      /\ \A v \in Worker : ToSet(loop'[v].batch) \subseteq ToSet(loop[v].batch)
      /\ \A v \in Worker \ {w} : loop'[v] = loop[v]
      /\ loop'[w].at \notin {"ack", "ackDead"}
  <2>1. CASE Proceeds(w)
    BY <1>1, <2>1, ProceedsKeepsLoop
  <2>2. CASE Goes(w, "deadLetter")
    <3>1. loop' = [loop EXCEPT ![w].at = "deadLetter", ![w].last = loop[w].last]
          /\ loop[w].last \in BOOLEAN
      BY <2>2 DEF Goes, StreamInv, StreamShape, Loop
    <3> QED
      BY <1>1, <3>1, GoesKeepsLoop
  <2>3. CASE CountDeliveries(w)
    <3> DEFINE Counted == deliveries[InHand(w)] >= MaxDeliveries
               Uncounted == 1 >= MaxDeliveries
    <3>1. \/ loop' = [loop EXCEPT ![w].at = "callback", ![w].last = Counted]
          \/ loop' = [loop EXCEPT ![w].at = "callback", ![w].last = Uncounted]
      BY <2>3 DEF CountDeliveries
    <3>2. Counted \in BOOLEAN /\ Uncounted \in BOOLEAN
      OBVIOUS
    <3> HIDE DEF Counted, Uncounted
    <3>3. \E last \in BOOLEAN : loop' = [loop EXCEPT ![w].at = "callback", ![w].last = last]
      BY <3>1, <3>2, Zenon
    <3>4. PICK last \in BOOLEAN : loop' = [loop EXCEPT ![w].at = "callback", ![w].last = last]
      BY <3>3
    <3> QED
      BY <1>1, <3>4, GoesKeepsLoop
  <2> QED
    BY <2>1, <2>2, <2>3 DEF CallbackEnds
<1>3. \A v \in Worker : loop'[v] # loop[v] => ~LoopAt(v, "ack")' /\ ~LoopAt(v, "ackDead")'
  BY <1>2 DEF LoopAt
<1> QED
  BY <1>1, <1>2, <1>3, InvKept DEF StreamInv, StreamShape, NothingVanishes, stream

LEMMA DeadLetterKeepsInv == ASSUME StreamInv, NEW w \in Worker, DeadLetter(w) PROVE StreamInv'
<1>1. ~LoopAt(w, "waiting") /\ UNCHANGED <<log, entry, idle, deliveries, handled>>
  BY DEF DeadLetter, LoopAt
<1>2. InHand(w) \in ToSet(log)
  BY <1>1, InHandInLog
<1>3. /\ loop' = [loop EXCEPT ![w].at = "ackDead", ![w].last = loop[w].last]
      /\ loop[w].last \in BOOLEAN
  BY DEF DeadLetter, Goes, StreamInv, StreamShape, Loop
<1>4. /\ loop' \in [Worker -> Loop]
      /\ \A v \in Worker : LoopAt(v, "waiting")' <=> loop'[v].batch = <<>>
      /\ \A v \in Worker : loop'[v].batch = loop[v].batch
      /\ \A v \in Worker \ {w} : loop'[v] = loop[v]
      /\ loop'[w].at = "ackDead"
  BY <1>1, <1>3, GoesKeepsLoop
<1>5. /\ dead \subseteq dead' /\ dead' \subseteq ToSet(log)
      /\ "dlq" \notin Faults => InHand(w) \in dead'
  BY <1>2 DEF DeadLetter, Fault, StreamInv, StreamShape
<1>6. \A v \in Worker : loop'[v] # loop[v] =>
            /\ LoopAt(v, "ack")' => InHand(v)' \in handled'
            /\ LoopAt(v, "ackDead")' /\ "dlq" \notin Faults => InHand(v)' \in dead'
  BY <1>4, <1>5 DEF LoopAt, InHand
<1> QED
  BY <1>1, <1>4, <1>5, <1>6, InvKept DEF StreamInv, StreamShape, NothingVanishes

LEMMA WorkerDiesKeepsInv == ASSUME StreamInv, NEW w \in Worker, WorkerDies(w) PROVE StreamInv'
<1>1. UNCHANGED stream /\ loop' = [loop EXCEPT ![w] = Waiting]
  BY DEF WorkerDies
<1>2. /\ loop' \in [Worker -> Loop]
      /\ \A v \in Worker : LoopAt(v, "waiting")' <=> loop'[v].batch = <<>>
      /\ \A v \in Worker : ToSet(loop'[v].batch) \subseteq ToSet(loop[v].batch)
      /\ \A v \in Worker \ {w} : loop'[v] = loop[v]
      /\ loop'[w].at = "waiting"
  BY <1>1, RestsKeepsLoop
<1>3. \A v \in Worker : loop'[v] # loop[v] => ~LoopAt(v, "ack")' /\ ~LoopAt(v, "ackDead")'
  BY <1>2 DEF LoopAt
<1> QED
  BY <1>1, <1>2, <1>3, InvKept DEF StreamInv, StreamShape, NothingVanishes, stream

-----------------------------------------------------------------------------
LEMMA StreamInvInit == EventInit => StreamInv
<1> SUFFICES ASSUME EventInit PROVE StreamInv
  OBVIOUS
<1>1. /\ <<>> \in Seq(Event) /\ ToSet(<<>>) = {}
      /\ \A f : f = <<>> => IsInjective(f)
  BY DEF ToSet, IsInjective
<1>2. StreamShape
  BY <1>1, StreamAssumption DEF EventInit, StreamShape, Loop, Waiting, LoopAt
<1>3. HandsFull
  BY <1>1 DEF EventInit, HandsFull, Waiting, LoopAt
<1>4. NothingVanishes
  BY DEF EventInit, NothingVanishes
<1> QED
  BY <1>2, <1>3, <1>4 DEF StreamInv

LEMMA StreamInvNext == ASSUME StreamInv, [EventNext]_<<stream, loop>> PROVE StreamInv'
<1>1. CASE UNCHANGED <<stream, loop>>
  BY <1>1 DEF StreamInv, StreamShape, HandsFull, NothingVanishes, LoopAt, InHand, stream
<1>2. ASSUME NEW e \in Event, Publish(e) \/ PublishLosesReply(e) PROVE StreamInv'
  BY <1>2, AppendedKeepsInv DEF Publish, PublishLosesReply
<1>3. ASSUME NEW e \in Event, PublishFails(e) PROVE StreamInv'
  BY <1>1, <1>3 DEF PublishFails
<1>4. ASSUME NEW w \in Worker, ReadNew(w) \/ ClaimStale(w) PROVE StreamInv'
  BY <1>4, DeliveredKeepsInv DEF ReadNew, ClaimStale
<1>5. ASSUME NEW w \in Worker, HandlerEnds(w) \/ HandlerRaises(w) PROVE StreamInv'
  BY <1>5, HandlerKeepsInv
<1>6. ASSUME NEW w \in Worker, Closes(w) PROVE StreamInv'
  BY <1>6, AckKeepsInv, FailedKeepsInv, DeadLetterKeepsInv DEF Closes
<1>7. ASSUME NEW w \in Worker, WorkerDies(w) PROVE StreamInv'
  BY <1>7, WorkerDiesKeepsInv
<1>8. CASE IdlePasses
  BY <1>8 DEF IdlePasses, StreamInv, StreamShape, HandsFull, NothingVanishes, LoopAt, InHand
<1> QED
  BY <1>1, <1>2, <1>3, <1>4, <1>5, <1>6, <1>7, <1>8 DEF EventNext

(* Whatever the handlers do, an entry that the group has acked was handled *)
(* or is in the dead-letter stream (StreamConsumer._process).              *)
THEOREM EventsDoNotVanish == EventSpec => []NothingVanishes
<1>1. EventInit => StreamInv
  BY StreamInvInit
<1>2. StreamInv /\ [EventNext]_<<stream, loop>> => StreamInv'
  BY StreamInvNext
<1>3. StreamInv => NothingVanishes
  BY DEF StreamInv
<1> QED
  BY <1>1, <1>2, <1>3, PTL DEF EventSpec
=============================================================================
