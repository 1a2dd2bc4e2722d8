------------------------ MODULE OrderCompletionProofs ------------------------
(* Theorems about OrderCompletion for any orders, carts, handlers, callers  *)
(* and faults.                                                              *)
EXTENDS OrderCompletion, InventoryProofs

USE OrdersAssumption, LinesAssumption, StockAssumption, EnvironmentAssumption,
    CompletionAssumption

-----------------------------------------------------------------------------
(* Inventory below OrderService *)

(* OrderService awaits a commit or a release of its own accord; Inventory's *)
(* callers do so once the checkout is open.                                 *)
StartsBelow(p) ==
  /\ \E op \in {"commit", "release"} : task' = [task EXCEPT ![p] = Started(op, On(p), "load")]
  /\ flow[p].at \in {"claim", "finish"}
  /\ UNCHANGED <<stores, env, history>>

(* A fault above Inventory is counted with those in it. *)
CountsFault ==
  faults' = faults + 1 /\ UNCHANGED <<stores, task, checkout, calls, history>>

(* Every step is one of Inventory, or leaves it alone, but for these two. *)
LEMMA StepBelow ==
  ASSUME OrderNext
  PROVE  [Next]_vars \/ CountsFault \/ \E p \in Proc : StartsBelow(p)
<1> USE DEF vars, inventory
<1>1. ASSUME NEW p \in Proc, InventoryStep(p) \/ OperationFails(p) \/ SweepEnds(p)
      PROVE  Next
  BY <1>1 DEF InventoryStep, OperationFails, SweepEnds, Next
<1>2. ASSUME NEW p \in Proc, Reserved(p) \/ Committed(p) \/ Cleared(p)
      PROVE  Next
  BY <1>2 DEF Reserved, Committed, Cleared, Next
<1>3. ASSUME NEW p \in Proc, NEW o \in Order, SweepStarts(p, o) \/ InitiateOrder(p, o)
      PROVE  Next
  BY <1>3 DEF SweepStarts, InitiateOrder, Next, Caller
<1>4. ASSUME NEW p \in Proc, Claim(p) \/ Finish(p)
      PROVE  UNCHANGED vars \/ StartsBelow(p)
  BY <1>4 DEF Claim, Finish, GoesOn, Awaits, Sits, StartsBelow
<1>5. ASSUME NEW p \in Proc, HandlerDies(p) \/ FlowFails(p)
      PROVE  Next \/ CountsFault
  BY <1>5 DEF HandlerDies, FlowFails, CountsFault, Next
<1>6. ASSUME NEW o \in Order, Webhook(o)
      PROVE  UNCHANGED vars \/ CountsFault
  BY <1>6 DEF Webhook, CountsFault, env
<1>7. ASSUME NEW o \in Order, TimePasses(o)
      PROVE  Next
  BY <1>7 DEF TimePasses, Next
<1>8. ASSUME NEW r \in Row, LockAges(r)
      PROVE  Next
  BY <1>8 DEF LockAges, Next
<1>9. ASSUME NEW o \in Order, Pay(o) \/ StashExpires(o) \/ ClaimAges(o)
      PROVE  UNCHANGED vars
  BY <1>9 DEF Pay, StashExpires, ClaimAges
<1>10. ASSUME NEW p \in Proc, NEW o \in Order,
              VerifyPayment(p, o) \/ Deliver(p, o) \/ CronReconcile(p, o) \/ ListPending(p, o)
       PROVE  UNCHANGED vars
  BY <1>10 DEF VerifyPayment, Deliver, CronReconcile, ListPending, Completes
<1>11. ASSUME NEW p \in Proc, FlowStep(p)
       PROVE  \/ Reserved(p) \/ Committed(p) \/ Cleared(p) \/ Claim(p) \/ Finish(p)
              \/ UNCHANGED vars
  BY <1>11 DEF FlowStep, Stash, CreateGatewayOrder, StashId, RecordAttempt, FindOrder,
     LoadStash, Recheck, LoadAttempt, VerifyAmount, Upsert, Reread, ConvertCart,
     WriteSnapshot, Record, Enrich, MarkResolved, Unstash, MatchPayments, MarkDone, Answer
<1>12. QED
  BY <1>1, <1>2, <1>3, <1>4, <1>5, <1>6, <1>7, <1>8, <1>9, <1>10, <1>11
  DEF OrderNext, FlowCaller

(* What a step of Inventory leaves: the types and the places of operations. *)
Below == TypeOK /\ PlaceOK

LEMMA StartedBelow ==
  ASSUME Below, NEW p \in Proc, On(p) \in Order, StartsBelow(p)
  PROVE  Below'
<1>1. PICK op \in {"commit", "release"} : task' = [task EXCEPT ![p] = Started(op, On(p), "load")]
  BY DEF StartsBelow
<1>2. task' \in [Proc -> WellFormedTask]
  BY <1>1, StartedOK, TaskReplaced DEF Below, Ops
<1>3. TypeOK'
  BY <1>2 DEF StartsBelow, Below, TypeOK, stores, env, history
<1>4. PlaceOK'
  BY <1>1, TaskRecords DEF Below, PlaceOK, Started, ReserveSteps
<1>5. QED
  BY <1>3, <1>4 DEF Below

LEMMA CountedBelow == ASSUME Below, CountsFault PROVE Below'
BY DEF Below, CountsFault, TypeOK, PlaceOK, stores, history

LEMMA BelowKept ==
  ASSUME Below, OrderNext,
         \A p \in Proc : flow[p].at \in {"claim", "finish"} => On(p) \in Order
  PROVE  Below'
<1>1. CASE [Next]_vars
  BY <1>1, NextTyped, PlaceInductive DEF Below
<1>2. ASSUME NEW p \in Proc, StartsBelow(p)
      PROVE  Below'
  BY <1>2, StartedBelow DEF StartsBelow
<1>3. QED
  BY <1>1, <1>2, StepBelow, CountedBelow

(* An operation that is under way stays so until it returns. *)
LEMMA StepGoesOn ==
  ASSUME Below, NEW p \in Proc, Step(p) \/ StoreFails(p)
  PROVE  /\ \A q \in Proc \ {p} : task'[q] = task[q]
         /\ task[p].pc # "idle" /\ task'[p].pc # "idle"
         /\ UNCHANGED checkout
<1>1. TypeOK /\ PlaceOK
  BY DEF Below
<1>2. task[p].pc # "idle"
  BY DEF Step, StoreFails, At, ReadStock, AcquireLock, CheckAvailable, CountHold, ReleaseLock,
     WriteKey, WriteMirror, SyncQty, SyncPending, SyncStatus, LoadReservation, ClaimMirror,
     TakeStock, TakeStatus, DecrPending, DropPending, DeleteKey, ResolveMirror, PutBack
<1>3. task'[p].pc # "idle"
  <2>1. ASSUME NEW pc, Goto(p, pc), pc # "idle"
        PROVE  task'[p].pc # "idle"
    BY <1>1, <2>1, GotoEffect
  <2>2. ASSUME NEW loop, NEW exit, NextLine(p, loop, exit), "idle" \notin {loop, exit}
        PROVE  task'[p].pc # "idle"
    BY <1>1, <2>2, NextLineEffect
  <2>3. ASSUME NEW done, Undo(p, done)
        PROVE  task'[p].pc # "idle"
    BY <1>1, <2>3, UndoEffect DEF Undoes
  <2>4. ASSUME NEW pc, NEW v, task' = [task EXCEPT ![p].pc = pc, ![p].view = v], pc # "idle"
        PROVE  task'[p].pc # "idle"
    BY <1>1, <2>4, ReadEffect
  <2>5. CASE StoreFails(p)
    BY <2>1, <2>2, <2>3, <2>5 DEF StoreFails
  <2>6. CASE ReadStock(p) \/ SyncQty(p) \/ SyncPending(p)
    BY <2>4, <2>6 DEF ReadStock, SyncQty, SyncPending
  <2>7. CASE AcquireLock(p) \/ CheckAvailable(p) \/ CountHold(p) \/ ReleaseLock(p)
    BY <2>1, <2>2, <2>3, <2>7 DEF AcquireLock, CheckAvailable, CountHold, ReleaseLock
  <2>8. CASE WriteKey(p) \/ WriteMirror(p) \/ SyncStatus(p) \/ LoadReservation(p)
    BY <2>1, <2>2, <2>8 DEF WriteKey, WriteMirror, SyncStatus, LoadReservation, FirstStep
  <2>9. CASE ClaimMirror(p)
    <3>1. CASE task' = [task EXCEPT ![p].pc = FirstStep(task[p].op), ![p].mirrored = TRUE]
      BY <1>1, <3>1, TaskRecords DEF Task, FirstStep
    <3>2. QED
      BY <2>1, <2>9, <3>1 DEF ClaimMirror
  <2>10. CASE TakeStock(p) \/ TakeStatus(p) \/ DecrPending(p) \/ DropPending(p)
    BY <2>1, <2>2, <2>4, <2>10 DEF TakeStock, TakeStatus, DecrPending, DropPending, AfterAdjust
  <2>11. CASE DeleteKey(p) \/ ResolveMirror(p) \/ PutBack(p)
    BY <2>1, <2>2, <2>11 DEF DeleteKey, ResolveMirror, PutBack
  <2>12. QED
    BY <2>5, <2>6, <2>7, <2>8, <2>9, <2>10, <2>11 DEF Step
<1>4. \A q \in Proc \ {p} : task'[q] = task[q]
  BY <1>1, StepKeepsPlace DEF StepEffect, OnlyMoves
<1>5. UNCHANGED checkout
  BY DEF Step, StoreFails, ReadStock, AcquireLock, CheckAvailable, CountHold, ReleaseLock,
     WriteKey, WriteMirror, SyncQty, SyncPending, SyncStatus, LoadReservation, ClaimMirror,
     TakeStock, TakeStatus, DecrPending, DropPending, DeleteKey, ResolveMirror, PutBack, env
<1>6. QED
  BY <1>2, <1>3, <1>4, <1>5

(* Once a reservation was asked for, the checkout is not new any more. *)
LEMMA CheckoutStays ==
  ASSUME Below, OrderNext, NEW o \in Order, checkout[o] # "new"
  PROVE  checkout'[o] # "new"
<1>1. ASSUME NEW p \in Proc, Step(p) \/ StoreFails(p)
      PROVE  UNCHANGED checkout
  BY <1>1, StepGoesOn
<1>2. ASSUME NEW p \in Proc, Return(p) \/ Crash(p)
      PROVE  checkout'[o] # "new"
  BY <1>2 DEF Return, Crash, Below, TypeOK
<1>3. ASSUME NEW p \in Proc, Caller(p)
      PROVE  checkout'[o] # "new"
  BY <1>3 DEF Caller, CallReserve, CallCommit, CallRelease, Sweep, CallSell, CallRestock,
     Below, TypeOK
<1>4. CASE [Next]_vars
  BY <1>1, <1>2, <1>3, <1>4 DEF Next, Tick, LockExpires, vars, env
<1>5. QED
  BY <1>4, StepBelow DEF CountsFault, StartsBelow, env

-----------------------------------------------------------------------------
(* What holds of a handler at each place, and of each order *)

Calm == "stall" \notin Faults

Awaiting == {"reserving", "committing", "clearing"}

PaidPlaces == (LookupPlaces \ {"listed"}) \cup ClaimedPlaces \cup ClosingPlaces
              \cup {"created", "existing"}

SavedPlaces == {"reread", "convert", "claim"} \cup ClaimedPlaces \cup ClosingPlaces
               \cup {"created", "existing"}

(* Where a handler may be, given who called it and what is written of its   *)
(* order.                                                                   *)
MayBe(p, at) ==
  /\ at \in {"none"} \cup InitiatePlaces \cup LookupPlaces \cup ClaimedPlaces
            \cup ClosingPlaces \cup Outcomes
  /\ at \in InitiatePlaces \cup {"answered"} => flow[p].source = "initiate"
  /\ flow[p].source = "initiate" => at \in InitiatePlaces \cup {"answered", "raised"}
  /\ at = "answered" => attempt[On(p)] # "none"
  /\ at \in PaidPlaces => payment[On(p)] = "captured"
  /\ at \in SavedPlaces => saved[On(p)] # "absent"
  /\ at \in ClaimedPlaces => saved[On(p)] \in {"in_progress", "done"}
  /\ at \in {"enrich", "resolve", "finish"} => ledger[On(p)] > 0
  /\ at # "not_found"

(* What its caller has left behind it. *)
CalledFor(p) ==
  /\ flow[p].at = "none" => flow[p].source = "none"
  /\ flow[p].at # "none" => On(p) \in Order
  /\ flow[p].source = "initiate" => checkout[On(p)] # "new" /\ payment[On(p)] = "none"
  /\ flow[p].source = "webhook" => event[On(p)] # "none"
  /\ Calm /\ flow[p].source = "webhook" => event[On(p)] = "queued"
  /\ Calm /\ flow[p].at \in ClaimedPlaces => saved[On(p)] = "in_progress" /\ ~claimOld[On(p)]

FlowsFit == \A p \in Proc : MayBe(p, flow[p].at) /\ CalledFor(p)

DocsFit ==
  \A o \in Order :
    /\ saved[o] # "absent" => payment[o] = "captured"
    /\ payment[o] # "none" => attempt[o] # "none" /\ checkout[o] # "new"
    /\ saved[o] = "done" => ledger[o] > 0
    /\ event[o] # "none" => payment[o] = "captured"
    /\ event[o] = "acked" => saved[o] # "absent"

(* Callers that have an order to themselves. *)
Sole == IF Calm THEN {"initiate", "webhook"} ELSE {"initiate"}

Alone ==
  \A p, q \in Proc :
    /\ flow[p].source = flow[q].source /\ flow[p].source \in Sole /\ On(p) = On(q) => p = q
    /\ Calm /\ flow[p].at \in ClaimedPlaces /\ flow[q].at \in ClaimedPlaces /\ On(p) = On(q) => p = q

OrderInv == Below /\ OrderTypeOK /\ FlowsFit /\ DocsFit /\ Alone

LEMMA OrderInitFits == OrderInit => OrderInv
<1> SUFFICES ASSUME OrderInit PROVE OrderInv
  OBVIOUS
<1>1. Below
  BY InitTyped DEF OrderInit, Init, Below, PlaceOK, Idle, ReserveSteps
<1>2. NoFlow \in Flow
  BY DEF NoFlow, Flow, Sources
<1>3. OrderTypeOK
  BY <1>2 DEF OrderInit, OrderTypeOK
<1>4. FlowsFit /\ DocsFit /\ Alone
  BY DEF OrderInit, FlowsFit, DocsFit, Alone, MayBe, CalledFor, NoFlow, Sole, On,
     PaidPlaces, SavedPlaces, InitiatePlaces, LookupPlaces, ClaimedPlaces, ClosingPlaces
<1>5. QED
  BY <1>1, <1>3, <1>4 DEF OrderInv

-----------------------------------------------------------------------------
(* The kinds of step a handler takes *)

facts == <<attempt, saved, claimOld, ledger, payment, event>>

(* Only this handler's flow and operation change. *)
Alters(p) ==
  /\ flow' \in [Proc -> Flow]
  /\ \A q \in Proc \ {p} : flow'[q] = flow[q] /\ task'[q] = task[q]

(* It goes to another place, for the same caller. *)
MovesTo(p, at) ==
  /\ Alters(p)
  /\ flow'[p].at = at /\ flow'[p].order = flow[p].order /\ flow'[p].source = flow[p].source
  /\ at # "none"
  /\ At(p, "idle")' <=> at \notin Awaiting

(* It is done with its caller, or begins with one. *)
Leaves(p) == Alters(p) /\ flow'[p] = NoFlow

BeginsWith(p, source, o, at) ==
  /\ Alters(p)
  /\ flow'[p] = Begun(source, o, at)
  /\ At(p, "idle")' <=> at \notin Awaiting

(* How its operation changes with its place. *)
Accords(p, at) ==
  \/ UNCHANGED task /\ flow[p].at \notin Awaiting /\ at \notin Awaiting
  \/ task' = [task EXCEPT ![p] = Idle] /\ at \notin Awaiting
  \/ (\E op : task' = [task EXCEPT ![p] = Started(op, On(p), "load")]) /\ at \in Awaiting

LEMMA EditMoves ==
  ASSUME OrderTypeOK, Below, NEW p \in Proc, flow[p].at # "none", NEW f \in Flow,
         f.order = On(p), f.source = flow[p].source, f.at # "none",
         flow' = [flow EXCEPT ![p] = f], Accords(p, f.at)
  PROVE  MovesTo(p, f.at)
<1>1. flow[p] \in Flow /\ flow[p] # NoFlow
  BY DEF OrderTypeOK, NoFlow
<1>2. flow'[p] = f /\ flow' \in [Proc -> Flow] /\ \A q \in Proc \ {p} : flow'[q] = flow[q]
  BY DEF OrderTypeOK
<1>3. \A q \in Proc \ {p} : task'[q] = task[q]
  BY TaskRecords DEF Below, Accords
<1>4. At(p, "idle")' <=> f.at \notin Awaiting
  <2>1. CASE UNCHANGED task /\ flow[p].at \notin Awaiting /\ f.at \notin Awaiting
    BY <1>1, <2>1 DEF OrderTypeOK, At, Awaiting
  <2>2. CASE task' = [task EXCEPT ![p] = Idle] /\ f.at \notin Awaiting
    BY <2>2, TaskRecords DEF At, Idle, Below
  <2>3. CASE (\E op : task' = [task EXCEPT ![p] = Started(op, On(p), "load")]) /\ f.at \in Awaiting
    BY <2>3, TaskRecords DEF At, Started, Below
  <2>4. QED
    BY <2>1, <2>2, <2>3 DEF Accords
<1>5. QED
  BY <1>2, <1>3, <1>4 DEF MovesTo, Alters, On

LEMMA GoesMoves ==
  ASSUME OrderTypeOK, Below, NEW p \in Proc, flow[p].at # "none",
         NEW at \in InitiatePlaces \cup LookupPlaces \cup ClaimedPlaces
                    \cup ClosingPlaces \cup Outcomes,
         Goes(p, at), Accords(p, at)
  PROVE  MovesTo(p, at)
<1> DEFINE f == [flow[p] EXCEPT !.at = at]
<1>1. flow[p] \in Flow
  BY DEF OrderTypeOK
<1>2. f \in Flow /\ f.at = at /\ f.order = flow[p].order /\ f.source = flow[p].source
  BY <1>1 DEF Flow
<1>3. flow' = [flow EXCEPT ![p] = f]
  BY DEF Goes, OrderTypeOK
<1>4. at # "none"
  BY DEF InitiatePlaces, LookupPlaces, ClaimedPlaces, ClosingPlaces, Outcomes
<1> HIDE DEF f
<1>5. QED
  BY <1>2, <1>3, <1>4, EditMoves DEF On

(* The two halves of a step's typing: the documents, and the handlers. *)
DocsTyped ==
  /\ stash \in [Order -> {"none", "bare", "payable"}]
  /\ attempt \in [Order -> {"none", "pending", "resolved"}]
  /\ saved \in [Order -> {"absent", "pending", "in_progress", "done"}]
  /\ claimOld \in [Order -> BOOLEAN]
  /\ cart \in [Order -> {"active", "converted"}]
  /\ ledger \in [Order -> Nat]
  /\ payment \in [Order -> {"none", "offered", "captured"}]
  /\ event \in [Order -> {"none", "lost", "queued", "acked", "dead"}]
  /\ deliveries \in [Order -> 0 .. MaxDeliveries]

InCall(p) == flow[p] # NoFlow => (At(p, "idle") <=> flow[p].at \notin Awaiting)

LEMMA TypeParts ==
  OrderTypeOK <=> flow \in [Proc -> Flow] /\ DocsTyped /\ \A p \in Proc : InCall(p)
BY DEF OrderTypeOK, DocsTyped, InCall, Awaiting

LEMMA TypePartsAfter ==
  flow' \in [Proc -> Flow] /\ DocsTyped' /\ (\A p \in Proc : InCall(p)') => OrderTypeOK'
BY DEF OrderTypeOK, DocsTyped, InCall, Awaiting

LEMMA AltersTyped ==
  ASSUME OrderTypeOK, NEW p \in Proc, Alters(p), DocsTyped', InCall(p)'
  PROVE  OrderTypeOK'
<1>1. \A q \in Proc \ {p} : InCall(q)'
  BY TypeParts DEF Alters, InCall, At
<1>2. QED
  BY <1>1, TypePartsAfter DEF Alters

(* What is written of an order is not taken back. *)
Persists(o) ==
  /\ attempt[o] # "none" => attempt'[o] # "none"
  /\ payment[o] = "captured" => payment'[o] = "captured"
  /\ saved[o] # "absent" => saved'[o] # "absent"
  /\ saved[o] \in {"in_progress", "done"} => saved'[o] \in {"in_progress", "done"}
  /\ ledger[o] > 0 => ledger'[o] > 0
  /\ event[o] # "none" => event'[o] # "none"

(* What a step must not do under a handler that does not take it. *)
Spares(q) ==
  /\ flow[q].source = "initiate" => payment'[On(q)] = payment[On(q)]
  /\ Calm /\ flow[q].source = "webhook" => event'[On(q)] = event[On(q)]
  /\ Calm /\ flow[q].at \in ClaimedPlaces =>
       saved'[On(q)] = saved[On(q)] /\ claimOld'[On(q)] = claimOld[On(q)]

LEMMA OtherFits ==
  ASSUME OrderInv, OrderNext, NEW q \in Proc, flow'[q] = flow[q], Spares(q),
         \A o \in Order : Persists(o)
  PROVE  MayBe(q, flow[q].at)' /\ CalledFor(q)'
<1>1. MayBe(q, flow[q].at) /\ CalledFor(q)
  BY DEF OrderInv, FlowsFit
<1>2. On(q)' = On(q)
  BY DEF On
<1>3. flow[q].at # "none" => On(q) \in Order /\ Persists(On(q))
  BY <1>1 DEF CalledFor
<1>4. flow[q].source # "none" => flow[q].at # "none"
  BY <1>1 DEF CalledFor
<1>5. MayBe(q, flow[q].at)'
  BY <1>1, <1>2, <1>3 DEF MayBe, Persists, PaidPlaces, SavedPlaces, InitiatePlaces, LookupPlaces,
     ClaimedPlaces, ClosingPlaces
<1>6. checkout[On(q)] # "new" /\ flow[q].at # "none" => checkout'[On(q)] # "new"
  BY <1>3, CheckoutStays DEF OrderInv
<1>7. CalledFor(q)'
  BY <1>1, <1>2, <1>3, <1>4, <1>6 DEF CalledFor, Spares, Persists, ClaimedPlaces
<1>8. QED
  BY <1>5, <1>7

LEMMA OthersFit ==
  ASSUME OrderInv, OrderNext, NEW p \in Proc, Alters(p),
         \A o \in Order : Persists(o), \A q \in Proc \ {p} : Spares(q),
         MayBe(p, flow[p].at)', CalledFor(p)'
  PROVE  FlowsFit'
<1>1. ASSUME NEW q \in Proc \ {p}
      PROVE  MayBe(q, flow[q].at)' /\ CalledFor(q)'
  BY <1>1, OtherFits DEF Alters
<1>2. QED
  BY <1>1 DEF FlowsFit

(* A handler that keeps its caller, or has none, is no second one. *)
LEMMA StaysAlone ==
  ASSUME OrderInv, NEW p \in Proc, Alters(p),
         \/ flow'[p].source = "none"
         \/ flow'[p].source = flow[p].source /\ On(p)' = On(p)
         \/ flow'[p].source \in Sole => ~Working(flow'[p].source, On(p)'),
         \/ flow'[p].at \notin ClaimedPlaces
         \/ flow[p].at \in ClaimedPlaces /\ On(p)' = On(p)
         \/ Calm => \A q \in Proc \ {p} : ~Claims(q, On(p)')
  PROVE  Alone'
<1>1. \A q \in Proc \ {p} : flow'[q] = flow[q]
  BY DEF Alters
<1>2. "none" \notin Sole
  BY DEF Sole
<1>3. QED
  BY <1>1, <1>2 DEF OrderInv, Alone, On, Working, Claims

(* What a handler may rely on: its own place and its caller. *)
LEMMA PlaceFits ==
  ASSUME OrderInv, NEW p \in Proc
  PROVE  /\ Below /\ OrderTypeOK /\ InCall(p) /\ MayBe(p, flow[p].at) /\ CalledFor(p)
         /\ flow[p] \in Flow
         /\ flow[p].at # "none" => On(p) \in Order
BY TypeParts DEF OrderInv, FlowsFit, CalledFor

LEMMA OrdersKnown ==
  ASSUME OrderInv, OrderNext
  PROVE  Below'
<1>1. \A p \in Proc : flow[p].at \in {"claim", "finish"} => On(p) \in Order
  BY PlaceFits
<1>2. QED
  BY <1>1, BelowKept DEF OrderInv

(* Steps that write nothing the others rely on. *)
Quiet ==
  /\ UNCHANGED facts
  /\ DocsTyped'

LEMMA QuietSpares ==
  ASSUME Quiet
  PROVE  /\ \A o \in Order : Persists(o)
         /\ \A q \in Proc : Spares(q)
BY DEF Quiet, facts, Persists, Spares

LEMMA QuietDocs ==
  ASSUME OrderInv, OrderNext, Quiet
  PROVE  DocsFit'
<1>1. \A o \in Order : checkout[o] # "new" => checkout'[o] # "new"
  BY CheckoutStays DEF OrderInv
<1>2. QED
  BY <1>1 DEF OrderInv, DocsFit, Quiet, facts

LEMMA QuietMove ==
  ASSUME OrderInv, OrderNext, Quiet, NEW p \in Proc, NEW at,
         flow[p].at # "none", MovesTo(p, at), MayBe(p, at),
         at \in ClaimedPlaces => flow[p].at \in ClaimedPlaces
  PROVE  OrderInv'
<1>1. /\ Alters(p) /\ flow'[p].at = at /\ On(p)' = On(p) /\ flow'[p].source = flow[p].source
      /\ at # "none"
  BY DEF MovesTo, On
<1>2. MayBe(p, flow[p].at)'
  BY <1>1 DEF MayBe, Quiet, facts
<1>3. checkout[On(p)] # "new" => checkout'[On(p)] # "new"
  BY PlaceFits, CheckoutStays DEF OrderInv
<1>4. CalledFor(p)'
  BY <1>1, <1>3, PlaceFits DEF CalledFor, Quiet, facts
<1>5. FlowsFit'
  BY <1>1, <1>2, <1>4, QuietSpares, OthersFit
<1>6. Alone'
  BY <1>1, StaysAlone
<1>7. InCall(p)'
  BY <1>1 DEF MovesTo, InCall
<1>8. OrderTypeOK'
  BY <1>1, <1>7, AltersTyped DEF OrderInv, Quiet
<1>9. QED
  BY <1>5, <1>6, <1>8, QuietDocs, OrdersKnown DEF OrderInv

LEMMA QuietLeave ==
  ASSUME OrderInv, OrderNext, Quiet, NEW p \in Proc, Leaves(p)
  PROVE  OrderInv'
<1>1. /\ Alters(p) /\ flow'[p].at = "none" /\ flow'[p].source = "none" /\ flow'[p] = NoFlow
  BY DEF Leaves, NoFlow
<1>2. MayBe(p, flow[p].at)' /\ CalledFor(p)'
  BY <1>1 DEF MayBe, CalledFor, PaidPlaces, SavedPlaces, InitiatePlaces, LookupPlaces,
     ClaimedPlaces, ClosingPlaces
<1>3. FlowsFit'
  BY <1>1, <1>2, QuietSpares, OthersFit
<1>4. Alone'
  BY <1>1, StaysAlone DEF ClaimedPlaces
<1>5. OrderTypeOK'
  BY <1>1, AltersTyped DEF OrderInv, Quiet, InCall
<1>6. QED
  BY <1>3, <1>4, <1>5, QuietDocs, OrdersKnown DEF OrderInv

LEMMA QuietBegin ==
  ASSUME OrderInv, OrderNext, Quiet, NEW p \in Proc, NEW o \in Order,
         NEW source \in Sources \ {"none"}, NEW at \in {"reserving", "find", "listed"},
         BeginsWith(p, source, o, at),
         source \in Sole => ~Working(source, o),
         source = "initiate" <=> at = "reserving",
         at = "reserving" => checkout'[o] # "new" /\ payment[o] = "none",
         at = "find" => payment[o] = "captured",
         source = "webhook" => event[o] = "queued"
  PROVE  OrderInv'
<1>1. /\ Alters(p) /\ flow'[p].at = at /\ flow'[p].source = source /\ On(p)' = o
  BY DEF BeginsWith, Begun, NoFlow, On
<1>2. MayBe(p, flow[p].at)'
  BY <1>1 DEF MayBe, PaidPlaces, SavedPlaces, InitiatePlaces, LookupPlaces,
     ClaimedPlaces, ClosingPlaces, Quiet, facts
<1>3. CalledFor(p)'
  BY <1>1 DEF CalledFor, ClaimedPlaces, Quiet, facts
<1>4. FlowsFit'
  BY <1>1, <1>2, <1>3, QuietSpares, OthersFit
<1>5. Alone'
  BY <1>1, StaysAlone DEF ClaimedPlaces
<1>6. OrderTypeOK'
  BY <1>1, AltersTyped DEF OrderInv, Quiet, InCall, BeginsWith
<1>7. QED
  BY <1>4, <1>5, <1>6, QuietDocs, OrdersKnown DEF OrderInv

(* Steps below OrderService, of the sweep and of time. *)
LEMMA QuietElse ==
  ASSUME OrderInv, OrderNext, Quiet, UNCHANGED flow,
         \A q \in Proc : flow[q] = NoFlow \/ (At(q, "idle")' <=> At(q, "idle"))
  PROVE  OrderInv'
<1>1. FlowsFit'
  BY OtherFits, QuietSpares DEF FlowsFit
<1>2. Alone'
  BY DEF OrderInv, Alone, On
<1>3. \A q \in Proc : InCall(q)'
  BY TypeParts DEF OrderInv, InCall
<1>4. OrderTypeOK'
  BY <1>3, TypeParts, TypePartsAfter DEF OrderInv, Quiet
<1>5. QED
  BY <1>1, <1>2, <1>4, QuietDocs, OrdersKnown DEF OrderInv

-----------------------------------------------------------------------------
(* Steps that write nothing of the facts *)

LEMMA PureQuiet == ASSUME OrderInv, UNCHANGED <<documents, outside>> PROVE Quiet
BY DEF OrderInv, OrderTypeOK, Quiet, DocsTyped, facts, documents, outside

(* The step that the handler takes, at the places it may be at. *)
LEMMA GoesQuietly ==
  ASSUME OrderInv, OrderNext, Quiet, NEW p \in Proc, flow[p].at # "none",
         NEW at \in InitiatePlaces \cup LookupPlaces \cup ClaimedPlaces
                    \cup ClosingPlaces \cup Outcomes,
         Goes(p, at), Accords(p, at), MayBe(p, at),
         at \in ClaimedPlaces => flow[p].at \in ClaimedPlaces
  PROVE  OrderInv'
<1>1. MovesTo(p, at)
  BY PlaceFits, GoesMoves
<1>2. QED
  BY <1>1, QuietMove

LEMMA EditsQuietly ==
  ASSUME OrderInv, OrderNext, Quiet, NEW p \in Proc, flow[p].at # "none", NEW f \in Flow,
         f.order = On(p), f.source = flow[p].source, f.at # "none",
         flow' = [flow EXCEPT ![p] = f], Accords(p, f.at), MayBe(p, f.at),
         f.at \in ClaimedPlaces => flow[p].at \in ClaimedPlaces
  PROVE  OrderInv'
<1>1. MovesTo(p, f.at)
  BY PlaceFits, EditMoves
<1>2. QED
  BY <1>1, QuietMove

(* The places, and the step of a handler from one to the next. *)
LEMMA PlainSteps ==
  ASSUME OrderInv, OrderNext, NEW p \in Proc,
         \/ CreateGatewayOrder(p) \/ LoadStash(p) \/ LoadAttempt(p) \/ VerifyAmount(p)
         \/ WriteSnapshot(p) \/ Enrich(p)
  PROVE  OrderInv'
<1> USE DEF InitiatePlaces, LookupPlaces, ClaimedPlaces, ClosingPlaces, Outcomes
<1>1. Quiet
  BY PureQuiet DEF CreateGatewayOrder, LoadStash, LoadAttempt, VerifyAmount, WriteSnapshot, Enrich
<1>2. CASE CreateGatewayOrder(p)
  <2> DEFINE at == "stashId"
  <2>2. /\ Goes(p, at) /\ Accords(p, at) /\ MayBe(p, at) /\ flow[p].at # "none"
        /\ at \in ClaimedPlaces => flow[p].at \in ClaimedPlaces
    BY <1>2, PlaceFits DEF CreateGatewayOrder, Sits, MayBe, PaidPlaces, SavedPlaces, Accords, Awaiting, inventory
  <2>3. QED
    BY <1>1, <2>2, GoesQuietly
<1>3. CASE LoadStash(p)
  <2> DEFINE at == IF stash[On(p)] = "none" THEN "recheck" ELSE "verifyAmount"
  <2>2. /\ Goes(p, at) /\ Accords(p, at) /\ MayBe(p, at) /\ flow[p].at # "none"
        /\ at \in ClaimedPlaces => flow[p].at \in ClaimedPlaces
    BY <1>3, PlaceFits DEF LoadStash, Sits, MayBe, PaidPlaces, SavedPlaces, Accords, Awaiting, inventory
  <2>3. QED
    BY <1>1, <2>2, GoesQuietly
<1>4. CASE LoadAttempt(p)
  <2> DEFINE at == "verifyAmount"
  <2>1. attempt[On(p)] # "none"
    BY <1>4, PlaceFits DEF LoadAttempt, Sits, MayBe, PaidPlaces, OrderInv, DocsFit
  <2>2. Goes(p, at) /\ Accords(p, at) /\ MayBe(p, at) /\ flow[p].at \notin ClaimedPlaces \cup {"none"}
    BY <1>4, <2>1, PlaceFits DEF LoadAttempt, Sits, MayBe, PaidPlaces, SavedPlaces, Accords, Awaiting, inventory
  <2>3. QED
    BY <1>1, <2>2, GoesQuietly
<1>5. CASE VerifyAmount(p)
  <2> DEFINE at == "upsert"
  <2>2. /\ Goes(p, at) /\ Accords(p, at) /\ MayBe(p, at) /\ flow[p].at # "none"
        /\ at \in ClaimedPlaces => flow[p].at \in ClaimedPlaces
    BY <1>5, PlaceFits DEF VerifyAmount, Sits, MayBe, PaidPlaces, SavedPlaces, Accords, Awaiting, inventory
  <2>3. QED
    BY <1>1, <2>2, GoesQuietly
<1>6. CASE WriteSnapshot(p)
  <2> DEFINE at == "record"
  <2>2. /\ Goes(p, at) /\ Accords(p, at) /\ MayBe(p, at) /\ flow[p].at # "none"
        /\ at \in ClaimedPlaces => flow[p].at \in ClaimedPlaces
    BY <1>6, PlaceFits DEF WriteSnapshot, Sits, MayBe, PaidPlaces, SavedPlaces, Accords, Awaiting, inventory
  <2>3. QED
    BY <1>1, <2>2, GoesQuietly
<1>7. CASE Enrich(p)
  <2> DEFINE at == "resolve"
  <2>2. /\ Goes(p, at) /\ Accords(p, at) /\ MayBe(p, at) /\ flow[p].at # "none"
        /\ at \in ClaimedPlaces => flow[p].at \in ClaimedPlaces
    BY <1>7, PlaceFits DEF Enrich, Sits, MayBe, PaidPlaces, SavedPlaces, Accords, Awaiting, inventory
  <2>3. QED
    BY <1>1, <2>2, GoesQuietly
<1>8. QED
  BY <1>2, <1>3, <1>4, <1>5, <1>6, <1>7

(* Steps that write the stash or the cart, of which no fact speaks. *)
LEMMA StashSteps ==
  ASSUME OrderInv, OrderNext, NEW p \in Proc,
         Stash(p) \/ StashId(p) \/ ConvertCart(p) \/ Unstash(p)
  PROVE  OrderInv'
<1> USE DEF InitiatePlaces, LookupPlaces, ClaimedPlaces, ClosingPlaces, Outcomes
<1>1. CASE Stash(p)
  <2> DEFINE at == "gateway"
  <2>1. Quiet
    BY <1>1, PlaceFits DEF Stash, Quiet, facts, DocsTyped, OrderTypeOK, outside
  <2>2. Goes(p, at) /\ Accords(p, at) /\ MayBe(p, at) /\ flow[p].at # "none"
    BY <1>1, PlaceFits DEF Stash, Sits, MayBe, PaidPlaces, SavedPlaces, Accords, Awaiting, inventory
  <2>3. QED
    BY <2>1, <2>2, GoesQuietly
<1>2. CASE StashId(p)
  <2> DEFINE at == "attempt"
  <2>1. Quiet
    BY <1>2, PlaceFits DEF StashId, Quiet, facts, DocsTyped, OrderTypeOK, outside
  <2>2. Goes(p, at) /\ Accords(p, at) /\ MayBe(p, at) /\ flow[p].at # "none"
    BY <1>2, PlaceFits DEF StashId, Sits, MayBe, PaidPlaces, SavedPlaces, Accords, Awaiting, inventory
  <2>3. QED
    BY <2>1, <2>2, GoesQuietly
<1>3. CASE ConvertCart(p)
  <2> DEFINE at == "claim"
  <2>1. Quiet
    BY <1>3, PlaceFits DEF ConvertCart, Quiet, facts, DocsTyped, OrderTypeOK, outside
  <2>2. Goes(p, at) /\ Accords(p, at) /\ MayBe(p, at) /\ flow[p].at # "none"
    BY <1>3, PlaceFits DEF ConvertCart, Sits, MayBe, PaidPlaces, SavedPlaces, Accords, Awaiting, inventory
  <2>3. QED
    BY <2>1, <2>2, GoesQuietly
<1>4. CASE Unstash(p)
  <2> DEFINE at == IF flow[p].created THEN "created" ELSE "existing"
  <2>1. Quiet
    BY <1>4, PlaceFits DEF Unstash, Quiet, facts, DocsTyped, OrderTypeOK, outside
  <2>2. Goes(p, at) /\ Accords(p, at) /\ MayBe(p, at) /\ flow[p].at # "none"
    BY <1>4, PlaceFits DEF Unstash, Sits, MayBe, PaidPlaces, SavedPlaces, Accords, Awaiting, inventory
  <2>3. QED
    BY <2>1, <2>2, GoesQuietly
<1>5. QED
  BY <1>1, <1>2, <1>3, <1>4

(* Steps that keep what they read of the order. *)
LEMMA ReadSteps ==
  ASSUME OrderInv, OrderNext, NEW p \in Proc, FindOrder(p) \/ Recheck(p) \/ Reread(p)
  PROVE  OrderInv'
<1> USE DEF InitiatePlaces, LookupPlaces, ClaimedPlaces, ClosingPlaces, Outcomes
<1>1. Quiet
  BY PureQuiet DEF FindOrder, Recheck, Reread
<1>2. flow[p] \in Flow
  BY PlaceFits
<1>3. flow[p].at # "none" => On(p) \in Order /\ saved[On(p)] \in {"absent", "pending", "in_progress", "done"}
  BY PlaceFits DEF OrderTypeOK
<1>4. CASE FindOrder(p)
  <2> DEFINE at == IF saved[On(p)] = "absent" THEN "loadStash" ELSE "claim"
             f == [flow[p] EXCEPT !.at = at, !.seen = saved[On(p)], !.clears = TRUE]
  <2>1. flow[p].at # "none" /\ flow' = [flow EXCEPT ![p] = f]
    BY <1>4, PlaceFits, ZenonT(30) DEF FindOrder, Sits, OrderTypeOK
  <2>2. f \in Flow /\ f.at = at /\ f.order = On(p) /\ f.source = flow[p].source
    BY <1>2, <1>3, <2>1 DEF Flow, On
  <2>3. Accords(p, at) /\ MayBe(p, at) /\ at \notin ClaimedPlaces /\ at # "none"
    BY <1>4, PlaceFits DEF FindOrder, Sits, MayBe, PaidPlaces, SavedPlaces, Accords, Awaiting, inventory
  <2> HIDE DEF at, f
  <2>4. QED
    BY <1>1, <2>1, <2>2, <2>3, EditsQuietly
<1>5. CASE Recheck(p)
  <2> DEFINE at == IF saved[On(p)] = "absent" THEN "loadAttempt" ELSE "claim"
             f == [flow[p] EXCEPT !.at = at, !.seen = saved[On(p)], !.clears = saved[On(p)] = "absent"]
  <2>1. flow[p].at # "none" /\ flow' = [flow EXCEPT ![p] = f]
    BY <1>5, PlaceFits, ZenonT(30) DEF Recheck, Sits, OrderTypeOK
  <2>2. f \in Flow /\ f.at = at /\ f.order = On(p) /\ f.source = flow[p].source
    BY <1>2, <1>3, <2>1 DEF Flow, On
  <2>3. Accords(p, at) /\ MayBe(p, at) /\ at \notin ClaimedPlaces /\ at # "none"
    BY <1>5, PlaceFits DEF Recheck, Sits, MayBe, PaidPlaces, SavedPlaces, Accords, Awaiting, inventory
  <2> HIDE DEF at, f
  <2>4. QED
    BY <1>1, <2>1, <2>2, <2>3, EditsQuietly
<1>6. CASE Reread(p)
  <2> DEFINE at == IF flow[p].created THEN "convert" ELSE "claim"
             f == [flow[p] EXCEPT !.at = at, !.seen = saved[On(p)]]
  <2>1. flow[p].at # "none" /\ flow' = [flow EXCEPT ![p] = f]
    BY <1>6, PlaceFits, ZenonT(30) DEF Reread, Sits, OrderTypeOK
  <2>2. f \in Flow /\ f.at = at /\ f.order = On(p) /\ f.source = flow[p].source
    BY <1>2, <1>3, <2>1 DEF Flow, On
  <2>3. Accords(p, at) /\ MayBe(p, at) /\ at \notin ClaimedPlaces /\ at # "none"
    BY <1>6, PlaceFits DEF Reread, Sits, MayBe, PaidPlaces, SavedPlaces, Accords, Awaiting, inventory
  <2> HIDE DEF at, f
  <2>4. QED
    BY <1>1, <2>1, <2>2, <2>3, EditsQuietly
<1>7. QED
  BY <1>4, <1>5, <1>6

(* Steps at which an operation of InventoryService has returned. *)
LEMMA ReturnSteps ==
  ASSUME OrderInv, OrderNext, NEW p \in Proc, Reserved(p) \/ Committed(p) \/ Cleared(p)
  PROVE  OrderInv'
<1> USE DEF InitiatePlaces, LookupPlaces, ClaimedPlaces, ClosingPlaces, Outcomes
<1>1. Quiet
  BY PureQuiet DEF Reserved, Committed, Cleared
<1>2. CASE Reserved(p)
  <2> DEFINE at == IF At(p, "ok") THEN "stash" ELSE "raised"
  <2>1. /\ Goes(p, at) /\ Accords(p, at) /\ MayBe(p, at) /\ flow[p].at # "none"
        /\ at \in ClaimedPlaces => flow[p].at \in ClaimedPlaces
    BY <1>2, PlaceFits DEF Reserved, Return, Sits, MayBe, PaidPlaces, SavedPlaces, Accords, Awaiting
  <2>2. QED
    BY <1>1, <2>1, GoesQuietly
<1>3. CASE Committed(p)
  <2> DEFINE at == IF At(p, "ok") THEN "snapshot" ELSE "raised"
  <2>1. /\ Goes(p, at) /\ Accords(p, at) /\ MayBe(p, at) /\ flow[p].at # "none"
        /\ at \in ClaimedPlaces => flow[p].at \in ClaimedPlaces
    BY <1>3, PlaceFits DEF Committed, Return, Sits, MayBe, PaidPlaces, SavedPlaces, Accords, Awaiting
  <2>2. QED
    BY <1>1, <2>1, GoesQuietly
<1>4. CASE Cleared(p)
  <2> DEFINE at == IF At(p, "ok") THEN "unstash" ELSE "raised"
  <2>1. /\ Goes(p, at) /\ Accords(p, at) /\ MayBe(p, at) /\ flow[p].at # "none"
        /\ at \in ClaimedPlaces => flow[p].at \in ClaimedPlaces
    BY <1>4, PlaceFits DEF Cleared, Return, Sits, MayBe, PaidPlaces, SavedPlaces, Accords, Awaiting
  <2>2. QED
    BY <1>1, <2>1, GoesQuietly
<1>5. QED
  BY <1>2, <1>3, <1>4

-----------------------------------------------------------------------------
(* Steps that write facts *)

(* What a step owes to the others, and to the documents. *)
Careful(p) ==
  /\ \A o \in Order : Persists(o)
  /\ \A q \in Proc \ {p} : Spares(q)
  /\ DocsTyped' /\ DocsFit'

LEMMA WritesAndMoves ==
  ASSUME OrderInv, OrderNext, NEW p \in Proc, NEW at, MovesTo(p, at), Careful(p),
         MayBe(p, at)', CalledFor(p)',
         \/ at \notin ClaimedPlaces
         \/ flow[p].at \in ClaimedPlaces
         \/ Calm => \A q \in Proc \ {p} : ~Claims(q, On(p))
  PROVE  OrderInv'
<1>1. /\ Alters(p) /\ flow'[p].at = at /\ On(p)' = On(p) /\ flow'[p].source = flow[p].source
  BY DEF MovesTo, On
<1>2. MayBe(p, flow[p].at)'
  BY <1>1 DEF MayBe
<1>3. FlowsFit'
  BY <1>1, <1>2, OthersFit DEF Careful
<1>4. Alone'
  BY <1>1, StaysAlone
<1>5. InCall(p)'
  BY <1>1 DEF MovesTo, InCall
<1>6. OrderTypeOK'
  BY <1>1, <1>5, AltersTyped DEF OrderInv, Careful
<1>7. QED
  BY <1>3, <1>4, <1>6, OrdersKnown DEF OrderInv, Careful

LEMMA WritesAndLeaves ==
  ASSUME OrderInv, OrderNext, NEW p \in Proc, Leaves(p), Careful(p)
  PROVE  OrderInv'
<1>1. /\ Alters(p) /\ flow'[p].at = "none" /\ flow'[p].source = "none" /\ flow'[p] = NoFlow
  BY DEF Leaves, NoFlow
<1>2. MayBe(p, flow[p].at)' /\ CalledFor(p)'
  BY <1>1 DEF MayBe, CalledFor, PaidPlaces, SavedPlaces, InitiatePlaces, LookupPlaces,
     ClaimedPlaces, ClosingPlaces
<1>3. FlowsFit'
  BY <1>1, <1>2, OthersFit DEF Careful
<1>4. Alone'
  BY <1>1, StaysAlone DEF ClaimedPlaces
<1>5. OrderTypeOK'
  BY <1>1, AltersTyped DEF OrderInv, Careful, InCall
<1>6. QED
  BY <1>3, <1>4, <1>5, OrdersKnown DEF OrderInv, Careful

LEMMA WritesOnly ==
  ASSUME OrderInv, OrderNext, UNCHANGED <<flow, task>>,
         \A o \in Order : Persists(o), \A q \in Proc : Spares(q), DocsTyped', DocsFit'
  PROVE  OrderInv'
<1>1. FlowsFit'
  BY OtherFits DEF FlowsFit
<1>2. Alone'
  BY DEF OrderInv, Alone, On
<1>3. \A q \in Proc : InCall(q)'
  BY TypeParts DEF OrderInv, InCall, At
<1>4. OrderTypeOK'
  BY <1>3, TypeParts, TypePartsAfter DEF OrderInv
<1>5. QED
  BY <1>1, <1>2, <1>4, OrdersKnown DEF OrderInv

LEMMA RecordAttemptKeeps ==
  ASSUME OrderInv, OrderNext, NEW p \in Proc, RecordAttempt(p)
  PROVE  OrderInv'
<1>1. /\ flow[p].at = "attempt" /\ On(p) \in Order
      /\ attempt' = [attempt EXCEPT ![On(p)] = IF @ = "none" THEN "pending" ELSE @]
      /\ UNCHANGED <<stash, saved, claimOld, cart, ledger, payment, event, deliveries, checkout, task>>
  BY PlaceFits DEF RecordAttempt, Sits, outside, inventory, env
<1>2. attempt'[On(p)] # "none" /\ \A o \in Order : attempt[o] # "none" => attempt'[o] # "none"
  BY <1>1, PlaceFits DEF OrderTypeOK
<1>3. DocsTyped'
  BY <1>1, PlaceFits DEF OrderTypeOK, DocsTyped
<1>4. Careful(p)
  BY <1>1, <1>2, <1>3 DEF Careful, Persists, Spares, OrderInv, DocsFit
<1>5. MovesTo(p, "answered")
  BY <1>1, PlaceFits, GoesMoves DEF RecordAttempt, Accords, Awaiting, Outcomes
<1>6. MayBe(p, "answered")' /\ CalledFor(p)'
  BY <1>1, <1>2, <1>5, PlaceFits DEF MovesTo, MayBe, CalledFor, On, InitiatePlaces, LookupPlaces,
     ClaimedPlaces, ClosingPlaces, Outcomes, PaidPlaces, SavedPlaces
<1>7. QED
  BY <1>4, <1>5, <1>6, WritesAndMoves DEF ClaimedPlaces

LEMMA UpsertKeeps ==
  ASSUME OrderInv, OrderNext, NEW p \in Proc, Upsert(p)
  PROVE  OrderInv'
<1> DEFINE f == [flow[p] EXCEPT !.at = "reread", !.created = saved[On(p)] = "absent"]
<1>1. /\ flow[p].at = "upsert" /\ On(p) \in Order /\ payment[On(p)] = "captured"
      /\ saved' = [saved EXCEPT ![On(p)] = IF @ = "absent" THEN "pending" ELSE @]
      /\ UNCHANGED <<stash, attempt, claimOld, cart, ledger, payment, event, deliveries, checkout, task>>
  BY PlaceFits DEF Upsert, Sits, outside, inventory, env, MayBe, PaidPlaces, LookupPlaces
<1>2. /\ saved'[On(p)] # "absent"
      /\ \A o \in Order : saved[o] # "absent" => saved'[o] = saved[o]
      /\ \A o \in Order : saved'[o] # saved[o] => o = On(p) /\ saved'[o] = "pending"
  BY <1>1, PlaceFits DEF OrderTypeOK
<1>3. DocsTyped'
  BY <1>1, PlaceFits DEF OrderTypeOK, DocsTyped
<1>4. Careful(p)
  <2>1. \A q \in Proc \ {p} : Spares(q)
    BY <1>1, <1>2, PlaceFits DEF Spares, CalledFor, ClaimedPlaces
  <2>2. QED
    BY <1>1, <1>2, <1>3, <2>1 DEF Careful, Persists, OrderInv, DocsFit
<1>5. MovesTo(p, "reread")
  <2>1. flow' = [flow EXCEPT ![p] = f]
    BY PlaceFits, ZenonT(30) DEF Upsert, OrderTypeOK
  <2>2. f \in Flow /\ f.at = "reread" /\ f.order = On(p) /\ f.source = flow[p].source
    BY PlaceFits, ZenonT(30) DEF Flow, LookupPlaces, On
  <2> HIDE DEF f
  <2>3. Accords(p, f.at)
    BY <1>1, <2>2 DEF Accords, Awaiting
  <2>4. flow[p].at # "none" /\ f.at # "none"
    BY <1>1, <2>2
  <2>5. MovesTo(p, f.at)
    BY <2>1, <2>2, <2>3, <2>4, PlaceFits, EditMoves
  <2>6. QED
    BY <2>2, <2>5
<1>6. MayBe(p, "reread")' /\ CalledFor(p)'
  BY <1>1, <1>2, <1>5, PlaceFits DEF MovesTo, MayBe, CalledFor, On, InitiatePlaces, LookupPlaces,
     ClaimedPlaces, ClosingPlaces, Outcomes, PaidPlaces, SavedPlaces
<1>7. QED
  BY <1>4, <1>5, <1>6, WritesAndMoves DEF ClaimedPlaces

LEMMA RecordKeeps ==
  ASSUME OrderInv, OrderNext, NEW p \in Proc, Record(p)
  PROVE  OrderInv'
<1>1. /\ flow[p].at = "record" /\ On(p) \in Order
      /\ ledger' = [ledger EXCEPT ![On(p)] = @ + 1]
      /\ UNCHANGED <<stash, attempt, saved, claimOld, cart, payment, event, deliveries, checkout, task>>
  BY PlaceFits DEF Record, Sits, outside, inventory, env
<1>2. ledger'[On(p)] > 0 /\ \A o \in Order : ledger[o] > 0 => ledger'[o] > 0
  BY <1>1, PlaceFits DEF OrderTypeOK
<1>3. DocsTyped'
  BY <1>1, PlaceFits DEF OrderTypeOK, DocsTyped
<1>4. Careful(p)
  BY <1>1, <1>2, <1>3 DEF Careful, Persists, Spares, OrderInv, DocsFit
<1>5. MovesTo(p, "enrich")
  BY <1>1, PlaceFits, GoesMoves DEF Record, Accords, Awaiting, ClaimedPlaces
<1>6. MayBe(p, "enrich")' /\ CalledFor(p)'
  BY <1>1, <1>2, <1>5, PlaceFits DEF MovesTo, MayBe, CalledFor, On, InitiatePlaces, LookupPlaces,
     ClaimedPlaces, ClosingPlaces, Outcomes, PaidPlaces, SavedPlaces
<1>7. QED
  BY <1>1, <1>4, <1>5, <1>6, WritesAndMoves DEF ClaimedPlaces

LEMMA MarkResolvedKeeps ==
  ASSUME OrderInv, OrderNext, NEW p \in Proc, MarkResolved(p)
  PROVE  OrderInv'
<1>1. /\ flow[p].at = "resolve" /\ On(p) \in Order
      /\ attempt' = ResolvedAttempt(On(p))
      /\ UNCHANGED <<stash, saved, claimOld, cart, ledger, payment, event, deliveries, checkout, task>>
  BY PlaceFits DEF MarkResolved, Sits, outside, inventory, env
<1>2. \A o \in Order : attempt[o] # "none" => attempt'[o] # "none"
  BY <1>1, PlaceFits DEF OrderTypeOK, ResolvedAttempt
<1>3. DocsTyped'
  BY <1>1, PlaceFits DEF OrderTypeOK, DocsTyped, ResolvedAttempt
<1>4. Careful(p)
  BY <1>1, <1>2, <1>3 DEF Careful, Persists, Spares, OrderInv, DocsFit
<1>5. MovesTo(p, "finish")
  BY <1>1, PlaceFits, GoesMoves DEF MarkResolved, Accords, Awaiting, ClaimedPlaces
<1>6. MayBe(p, "finish")' /\ CalledFor(p)'
  BY <1>1, <1>2, <1>5, PlaceFits DEF MovesTo, MayBe, CalledFor, On, InitiatePlaces, LookupPlaces,
     ClaimedPlaces, ClosingPlaces, Outcomes, PaidPlaces, SavedPlaces
<1>7. QED
  BY <1>1, <1>4, <1>5, <1>6, WritesAndMoves DEF ClaimedPlaces

(* The reconcile loop's own mark, after the completion. *)
LEMMA MarkDoneKeeps ==
  ASSUME OrderInv, OrderNext, NEW p \in Proc, MarkDone(p)
  PROVE  OrderInv'
<1>1. /\ attempt' = ResolvedAttempt(On(p)) /\ flow' = [flow EXCEPT ![p] = NoFlow]
      /\ UNCHANGED <<stash, saved, claimOld, cart, ledger, payment, event, deliveries, checkout, task>>
  BY DEF MarkDone, outside, inventory, env
<1>2. \A o \in Order : attempt[o] # "none" => attempt'[o] # "none"
  BY <1>1, PlaceFits DEF OrderTypeOK, ResolvedAttempt
<1>3. DocsTyped'
  BY <1>1, PlaceFits DEF OrderTypeOK, DocsTyped, ResolvedAttempt
<1>4. Careful(p)
  BY <1>1, <1>2, <1>3 DEF Careful, Persists, Spares, OrderInv, DocsFit
<1>5. Leaves(p)
  <2>1. NoFlow \in Flow
    BY DEF NoFlow, Flow, Sources
  <2>2. QED
    BY <1>1, <2>1, PlaceFits DEF Leaves, Alters, OrderTypeOK
<1>6. QED
  BY <1>4, <1>5, WritesAndLeaves

(* Back in complete_pending_order, with or without a release to await. *)
LEMMA GoesOnMoves ==
  ASSUME OrderInv, NEW p \in Proc, flow[p].at \in {"claim", "finish"}, GoesOn(p)
  PROVE  MovesTo(p, IF flow[p].clears THEN "clearing" ELSE "existing")
<1>1. CASE flow[p].clears
  <2>1. Goes(p, "clearing") /\ Accords(p, "clearing")
    BY <1>1 DEF GoesOn, Awaits, Accords, Awaiting
  <2>2. QED
    BY <1>1, <2>1, PlaceFits, GoesMoves DEF ClosingPlaces
<1>2. CASE ~flow[p].clears
  <2>1. Goes(p, "existing") /\ Accords(p, "existing")
    BY <1>2 DEF GoesOn, Accords, Awaiting
  <2>2. QED
    BY <1>2, <2>1, PlaceFits, GoesMoves DEF Outcomes
<1>3. QED
  BY <1>1, <1>2

LEMMA ClaimKeeps ==
  ASSUME OrderInv, OrderNext, NEW p \in Proc, Claim(p)
  PROVE  OrderInv'
<1>1. /\ flow[p].at = "claim" /\ On(p) \in Order
      /\ payment[On(p)] = "captured" /\ saved[On(p)] # "absent" /\ flow[p].source # "initiate"
      /\ UNCHANGED <<stash, attempt, cart, ledger, payment, event, deliveries, checkout>>
  BY PlaceFits DEF Claim, Sits, outside, inventory, env, MayBe, PaidPlaces, SavedPlaces,
     LookupPlaces, InitiatePlaces
<1>2. CASE /\ Claimable(On(p))
           /\ saved' = [saved EXCEPT ![On(p)] = "in_progress"]
           /\ claimOld' = [claimOld EXCEPT ![On(p)] = FALSE]
           /\ Awaits(p, "commit", "committing")
  <2>1. /\ saved'[On(p)] = "in_progress" /\ ~claimOld'[On(p)]
        /\ saved[On(p)] \in {"pending", "in_progress"}
        /\ \A o \in Order \ {On(p)} : saved'[o] = saved[o] /\ claimOld'[o] = claimOld[o]
    BY <1>1, <1>2, PlaceFits DEF OrderTypeOK, Claimable
  <2>2. Calm => \A q \in Proc : ~Claims(q, On(p))
    BY <1>2, PlaceFits DEF CalledFor, Claimable, Claims
  <2>3. DocsTyped'
    BY <1>1, <1>2, PlaceFits DEF OrderTypeOK, DocsTyped
  <2>4. \A q \in Proc \ {p} : Spares(q)
    BY <1>1, <2>1, <2>2, PlaceFits DEF Spares, Claims, CalledFor, ClaimedPlaces
  <2>5. Careful(p)
    BY <1>1, <2>1, <2>3, <2>4 DEF Careful, Persists, OrderInv, DocsFit
  <2>6. MovesTo(p, "committing")
    BY <1>1, <1>2, PlaceFits, GoesMoves DEF Awaits, Accords, Awaiting, ClaimedPlaces
  <2>7. MayBe(p, "committing")' /\ CalledFor(p)'
    BY <1>1, <2>1, <2>6, PlaceFits DEF MovesTo, MayBe, CalledFor, On, InitiatePlaces, LookupPlaces,
       ClaimedPlaces, ClosingPlaces, Outcomes, PaidPlaces, SavedPlaces
  <2>8. QED
    BY <2>2, <2>5, <2>6, <2>7, WritesAndMoves
<1>3. CASE GoesOn(p) /\ UNCHANGED <<saved, claimOld>>
  <2> DEFINE at == IF flow[p].clears THEN "clearing" ELSE "existing"
  <2>1. Quiet
    BY <1>1, <1>3, PlaceFits DEF Quiet, facts, DocsTyped, OrderTypeOK
  <2>2. MovesTo(p, at)
    BY <1>1, <1>3, GoesOnMoves
  <2>3. MayBe(p, at) /\ at \notin ClaimedPlaces
    BY <1>1 DEF MayBe, InitiatePlaces, LookupPlaces,
       ClaimedPlaces, ClosingPlaces, Outcomes, PaidPlaces, SavedPlaces
  <2>4. QED
    BY <1>1, <2>1, <2>2, <2>3, QuietMove
<1>4. QED
  BY <1>2, <1>3 DEF Claim

LEMMA FinishKeeps ==
  ASSUME OrderInv, OrderNext, NEW p \in Proc, Finish(p)
  PROVE  OrderInv'
<1>1. /\ flow[p].at = "finish" /\ On(p) \in Order
      /\ payment[On(p)] = "captured" /\ ledger[On(p)] > 0 /\ flow[p].source # "initiate"
      /\ saved' = [saved EXCEPT ![On(p)] = "done"]
      /\ UNCHANGED <<stash, attempt, claimOld, cart, ledger, payment, event, deliveries, checkout>>
  BY PlaceFits DEF Finish, Sits, outside, inventory, env, MayBe, PaidPlaces,
     ClaimedPlaces, InitiatePlaces
<1>2. saved'[On(p)] = "done" /\ \A o \in Order \ {On(p)} : saved'[o] = saved[o]
  BY <1>1, PlaceFits DEF OrderTypeOK
<1>3. DocsTyped'
  BY <1>1, PlaceFits DEF OrderTypeOK, DocsTyped
<1>4. \A q \in Proc \ {p} : Spares(q)
  BY <1>1, <1>2, PlaceFits DEF Spares, CalledFor, OrderInv, Alone, ClaimedPlaces
<1>5. Careful(p)
  BY <1>1, <1>2, <1>3, <1>4 DEF Careful, Persists, OrderInv, DocsFit
<1>6. ASSUME NEW CONSTANT at, at \in {"clearing", "existing"}, MovesTo(p, at)
      PROVE  OrderInv'
  <2>1. MayBe(p, at)' /\ CalledFor(p)' /\ at \notin ClaimedPlaces
    BY <1>1, <1>2, <1>6, PlaceFits DEF MovesTo, MayBe, CalledFor, On, InitiatePlaces,
       LookupPlaces, ClaimedPlaces, ClosingPlaces, Outcomes, PaidPlaces, SavedPlaces
  <2>2. QED
    BY <1>5, <1>6, <2>1, WritesAndMoves
<1>7. MovesTo(p, IF flow[p].clears THEN "clearing" ELSE "existing")
  BY <1>1, GoesOnMoves DEF Finish
<1>8. CASE flow[p].clears
  BY <1>6, <1>7, <1>8
<1>9. CASE ~flow[p].clears
  BY <1>6, <1>7, <1>9
<1>10. QED
  BY <1>8, <1>9

(* A handler that is not awaiting an operation can drop what it was at. *)
LEMMA DropsFlow ==
  ASSUME OrderInv, NEW p \in Proc, flow' = [flow EXCEPT ![p] = NoFlow],
         \A q \in Proc \ {p} : task'[q] = task[q]
  PROVE  Leaves(p)
<1>1. NoFlow \in Flow
  BY DEF NoFlow, Flow, Sources
<1>2. QED
  BY <1>1, PlaceFits DEF Leaves, Alters, OrderTypeOK

LEMMA MatchPaymentsKeeps ==
  ASSUME OrderInv, OrderNext, NEW p \in Proc, MatchPayments(p)
  PROVE  OrderInv'
<1>1. Quiet /\ flow[p].at = "listed" /\ UNCHANGED task
  BY PureQuiet DEF MatchPayments, Sits
<1>2. CASE payment[On(p)] = "captured" /\ Goes(p, "find")
  <2>1. Accords(p, "find") /\ MayBe(p, "find")
    BY <1>1, <1>2, PlaceFits DEF Accords, Awaiting, MayBe, InitiatePlaces, LookupPlaces,
       ClaimedPlaces, ClosingPlaces, Outcomes, PaidPlaces, SavedPlaces
  <2>2. QED
    BY <1>1, <1>2, <2>1, GoesQuietly DEF LookupPlaces, ClaimedPlaces
<1>3. CASE flow' = [flow EXCEPT ![p] = NoFlow]
  BY <1>1, <1>3, DropsFlow, QuietLeave
<1>4. QED
  BY <1>2, <1>3 DEF MatchPayments

(* The outcome is told: the client may pay now, or the event is settled. *)
LEMMA AnswerCareful ==
  ASSUME OrderInv, OrderNext, NEW p \in Proc, Answer(p)
  PROVE  Careful(p)
<1>1. /\ flow[p].at \in Outcomes /\ flow[p].at \notin {"none", "not_found"} /\ On(p) \in Order
      /\ UNCHANGED <<stash, attempt, saved, claimOld, cart, ledger, deliveries, checkout>>
  BY PlaceFits DEF Answer, Outcomes, MayBe, documents, inventory, env
<1>2. CASE flow[p].at = "answered"
  <2>1. /\ flow[p].source = "initiate" /\ payment[On(p)] = "none" /\ attempt[On(p)] # "none"
        /\ checkout[On(p)] # "new"
    BY <1>2, PlaceFits DEF MayBe, CalledFor
  <2>2. payment' = [payment EXCEPT ![On(p)] = "offered"] /\ event' = event
    BY <1>2, <2>1 DEF Answer, Sits
  <2>3. payment'[On(p)] = "offered" /\ \A o \in Order \ {On(p)} : payment'[o] = payment[o]
    BY <1>1, <2>2, PlaceFits DEF OrderTypeOK
  <2>4. DocsTyped'
    BY <1>1, <2>2, PlaceFits DEF OrderTypeOK, DocsTyped
  <2>5. \A q \in Proc \ {p} : Spares(q)
    BY <1>1, <2>1, <2>2, <2>3, PlaceFits DEF Spares, CalledFor, OrderInv, Alone, Sole
  <2>6. QED
    BY <1>1, <2>1, <2>2, <2>3, <2>4, <2>5 DEF Careful, Persists, OrderInv, DocsFit
<1>3. CASE flow[p].at # "answered" /\ flow[p].source = "webhook"
  <2> DEFINE told == IF flow[p].at # "raised" THEN "acked"
                     ELSE IF deliveries[On(p)] >= MaxDeliveries THEN "dead" ELSE event[On(p)]
  <2>1. payment' = payment /\ event' = [event EXCEPT ![On(p)] = told]
    BY <1>1, <1>3, PlaceFits DEF Answer, Sits, OrderTypeOK
  <2>2. event[On(p)] # "none" /\ payment[On(p)] = "captured"
    BY <1>1, <1>3, PlaceFits DEF CalledFor, OrderInv, DocsFit
  <2>3. told = "acked" => saved[On(p)] # "absent"
    BY <1>1, <1>3, PlaceFits DEF MayBe, SavedPlaces, Outcomes, OrderInv, DocsFit
  <2>4. told \in {"lost", "queued", "acked", "dead"}
    BY <1>1, <2>2, PlaceFits DEF OrderTypeOK
  <2> HIDE DEF told
  <2>5. event'[On(p)] = told /\ \A o \in Order \ {On(p)} : event'[o] = event[o]
    BY <1>1, <2>1, PlaceFits DEF OrderTypeOK
  <2>6. DocsTyped'
    BY <1>1, <2>1, <2>4, PlaceFits DEF OrderTypeOK, DocsTyped
  <2>7. \A q \in Proc \ {p} : Spares(q)
    BY <1>1, <1>3, <2>1, <2>5, PlaceFits DEF Spares, CalledFor, OrderInv, Alone, Sole
  <2>8. QED
    BY <1>1, <2>1, <2>2, <2>3, <2>4, <2>5, <2>6, <2>7 DEF Careful, Persists, OrderInv, DocsFit
<1>4. CASE flow[p].at # "answered" /\ flow[p].source # "webhook"
  <2>1. payment' = payment /\ event' = event
    BY <1>4 DEF Answer, Sits
  <2>2. DocsTyped'
    BY <1>1, <2>1, PlaceFits DEF OrderTypeOK, DocsTyped
  <2>3. QED
    BY <1>1, <2>1, <2>2 DEF Careful, Persists, Spares, OrderInv, DocsFit
<1>5. QED
  BY <1>2, <1>3, <1>4

LEMMA AnswerKeeps ==
  ASSUME OrderInv, OrderNext, NEW p \in Proc, Answer(p)
  PROVE  OrderInv'
<1>1. Careful(p) /\ UNCHANGED <<task, saved, attempt, claimOld, ledger, checkout>>
  BY AnswerCareful DEF Answer, documents, inventory, env
<1>2. CASE flow' = [flow EXCEPT ![p] = NoFlow]
  BY <1>1, <1>2, DropsFlow, WritesAndLeaves
<1>3. CASE flow[p].source = "reconcile" /\ flow[p].at \in {"existing", "not_found"} /\ Goes(p, "markDone")
  <2>1. flow[p].at = "existing" /\ On(p) \in Order /\ payment[On(p)] = "captured" /\ saved[On(p)] # "absent"
    BY <1>3, PlaceFits DEF MayBe, PaidPlaces, SavedPlaces
  <2>2. payment'[On(p)] = "captured"
    BY <1>1, <2>1 DEF Careful, Persists
  <2>3. Accords(p, "markDone")
    BY <1>1, <2>1 DEF Accords, Awaiting
  <2>4. MovesTo(p, "markDone")
    BY <1>3, <2>1, <2>3, PlaceFits, GoesMoves DEF ClosingPlaces
  <2>5. MayBe(p, "markDone")' /\ CalledFor(p)'
    BY <1>1, <1>3, <2>1, <2>2, <2>4 DEF MovesTo, MayBe, CalledFor, On, InitiatePlaces, LookupPlaces,
       ClaimedPlaces, ClosingPlaces, Outcomes, PaidPlaces, SavedPlaces
  <2>6. QED
    BY <1>1, <2>4, <2>5, WritesAndMoves DEF ClaimedPlaces
<1>4. QED
  BY <1>2, <1>3 DEF Answer

-----------------------------------------------------------------------------
(* Callers, the sweep, faults, the customer and time *)

LEMMA CallersKeep ==
  ASSUME OrderInv, OrderNext, NEW p \in Proc, FlowCaller(p)
  PROVE  OrderInv'
<1>1. PICK o \in Order : \/ InitiateOrder(p, o) \/ VerifyPayment(p, o) \/ Deliver(p, o)
                         \/ CronReconcile(p, o) \/ ListPending(p, o)
  BY DEF FlowCaller
<1>2. \A source \in Sources, at \in {"reserving", "find", "listed"} : Begun(source, o, at) \in Flow
  BY DEF Begun, NoFlow, Flow, Sources, InitiatePlaces, LookupPlaces
<1>3. ASSUME NEW source \in Sources, NEW at \in {"find", "listed"}, Completes(p, source, o, at)
      PROVE  BeginsWith(p, source, o, at)
  BY <1>2, <1>3, PlaceFits DEF Completes, BeginsWith, Alters, Free, At, Awaiting, OrderTypeOK
<1>4. CASE InitiateOrder(p, o)
  <2>1. /\ checkout[o] = "new" /\ checkout' = [checkout EXCEPT ![o] = "starting"]
        /\ task' = [task EXCEPT ![p] = Started("reserve", o, "stock")]
    BY <1>4 DEF InitiateOrder, CallReserve, Call
  <2>2. checkout'[o] # "new"
    BY <2>1 DEF OrderInv, Below, TypeOK
  <2>3. payment[o] = "none"
    BY <2>1 DEF OrderInv, DocsFit
  <2>4. ~Working("initiate", o)
    BY <2>1, PlaceFits DEF Working, CalledFor
  <2>5. At(p, "idle")' <=> "reserving" \notin Awaiting
    BY <2>1, TaskRecords DEF OrderInv, Below, At, Started, Awaiting
  <2>6. \A q \in Proc \ {p} : task'[q] = task[q]
    BY <2>1, TaskRecords DEF OrderInv, Below
  <2>7. BeginsWith(p, "initiate", o, "reserving")
    BY <1>2, <1>4, <2>5, <2>6, PlaceFits DEF InitiateOrder, BeginsWith, Alters, OrderTypeOK, Sources
  <2>8. Quiet
    BY <1>4, PureQuiet DEF InitiateOrder
  <2>9. QED
    BY <2>2, <2>3, <2>4, <2>7, <2>8, QuietBegin DEF Sources
<1>5. CASE VerifyPayment(p, o)
  <2>1. Quiet
    BY <1>5, PureQuiet DEF VerifyPayment, Completes
  <2>2. QED
    BY <1>3, <1>5, <2>1, QuietBegin DEF VerifyPayment, Sources
<1>6. CASE Deliver(p, o)
  <2>1. Quiet
    <3>1. deliveries' \in [Order -> 0 .. MaxDeliveries]
      BY <1>6, PlaceFits DEF Deliver, OrderTypeOK
    <3>2. QED
      BY <1>6, <3>1, PlaceFits DEF Deliver, Completes, Quiet, facts, DocsTyped, OrderTypeOK, documents
  <2>2. payment[o] = "captured"
    BY <1>6 DEF Deliver, OrderInv, DocsFit
  <2>3. "webhook" \in Sole => ~Working("webhook", o)
    BY <1>6 DEF Deliver, Sole, Calm
  <2>4. QED
    BY <1>3, <1>6, <2>1, <2>2, <2>3, QuietBegin DEF Deliver, Sources
<1>7. CASE CronReconcile(p, o)
  <2>1. Quiet
    BY <1>7, PureQuiet DEF CronReconcile, Completes
  <2>2. QED
    BY <1>3, <1>7, <2>1, QuietBegin DEF CronReconcile, Sources
<1>8. CASE ListPending(p, o)
  <2>1. Quiet
    BY <1>8, PureQuiet DEF ListPending, Completes
  <2>2. QED
    BY <1>3, <1>8, <2>1, QuietBegin DEF ListPending, Sources
<1>9. QED
  BY <1>1, <1>4, <1>5, <1>6, <1>7, <1>8

LEMMA HandlerDiesKeeps ==
  ASSUME OrderInv, OrderNext, NEW p \in Proc, HandlerDies(p)
  PROVE  OrderInv'
<1>1. flow' = [flow EXCEPT ![p] = NoFlow] /\ Quiet
  BY PureQuiet DEF HandlerDies
<1>2. \A q \in Proc \ {p} : task'[q] = task[q]
  BY TaskRecords DEF HandlerDies, Crash, OrderInv, Below
<1>3. QED
  BY <1>1, <1>2, DropsFlow, QuietLeave

LEMMA FlowFailsKeeps ==
  ASSUME OrderInv, OrderNext, NEW p \in Proc, FlowFails(p)
  PROVE  OrderInv'
<1>1. /\ Goes(p, "raised") /\ UNCHANGED task /\ Quiet
      /\ flow[p].at \notin Awaiting \cup {"none"}
  BY PureQuiet DEF FlowFails, Awaiting
<1>2. MayBe(p, "raised") /\ Accords(p, "raised")
  BY <1>1, PlaceFits DEF MayBe, Accords, Awaiting, InitiatePlaces, LookupPlaces,
       ClaimedPlaces, ClosingPlaces, Outcomes, PaidPlaces, SavedPlaces
<1>3. QED
  BY <1>1, <1>2, GoesQuietly DEF Outcomes, ClaimedPlaces

LEMMA BelowStepsKeep ==
  ASSUME OrderInv, OrderNext,
         \/ \E p \in Proc : InventoryStep(p) \/ OperationFails(p) \/ SweepEnds(p)
         \/ \E p \in Proc, o \in Order : SweepStarts(p, o)
         \/ \E o \in Order : TimePasses(o)
         \/ \E r \in Row : LockAges(r)
  PROVE  OrderInv'
<1>1. Quiet /\ UNCHANGED flow
  BY PureQuiet DEF InventoryStep, OperationFails, SweepEnds, SweepStarts, TimePasses, LockAges
<1>2. ASSUME NEW p \in Proc, InventoryStep(p) \/ OperationFails(p)
      PROVE  \A q \in Proc : At(q, "idle")' <=> At(q, "idle")
  BY <1>2, StepGoesOn DEF InventoryStep, OperationFails, At, OrderInv
<1>3. ASSUME NEW p \in Proc, SweepEnds(p)
      PROVE  \A q \in Proc : flow[q] = NoFlow \/ (At(q, "idle")' <=> At(q, "idle"))
  BY <1>3, TaskRecords DEF SweepEnds, Return, At, OrderInv, Below
<1>4. ASSUME NEW p \in Proc, NEW o \in Order, SweepStarts(p, o)
      PROVE  \A q \in Proc : flow[q] = NoFlow \/ (At(q, "idle")' <=> At(q, "idle"))
  BY <1>4, TaskRecords DEF SweepStarts, Free, Sweep, Call, At, OrderInv, Below
<1>5. ASSUME UNCHANGED task
      PROVE  \A q \in Proc : At(q, "idle")' <=> At(q, "idle")
  BY <1>5 DEF At
<1>6. QED
  BY <1>1, <1>2, <1>3, <1>4, <1>5, QuietElse DEF TimePasses, Tick, LockAges, LockExpires

LEMMA OutsideStepsKeep ==
  ASSUME OrderInv, OrderNext, NEW o \in Order,
         Pay(o) \/ Webhook(o) \/ StashExpires(o) \/ ClaimAges(o)
  PROVE  OrderInv'
<1>1. CASE Pay(o)
  <2>1. /\ payment[o] = "offered" /\ payment' = [payment EXCEPT ![o] = "captured"]
        /\ UNCHANGED <<flow, task, checkout, stash, attempt, saved, claimOld, cart, ledger, event, deliveries>>
    BY <1>1 DEF Pay, vars, env, documents
  <2>2. payment'[o] = "captured" /\ \A r \in Order \ {o} : payment'[r] = payment[r]
    BY <2>1, PlaceFits DEF OrderInv, OrderTypeOK
  <2>3. DocsTyped'
    BY <2>1 DEF OrderInv, OrderTypeOK, DocsTyped
  <2>4. \A q \in Proc : Spares(q)
    BY <2>1, <2>2, PlaceFits DEF Spares, CalledFor
  <2>5. DocsFit' /\ \A r \in Order : Persists(r)
    BY <2>1, <2>2 DEF OrderInv, DocsFit, Persists
  <2>6. QED
    BY <2>1, <2>3, <2>4, <2>5, WritesOnly
<1>2. CASE Webhook(o)
  <2>1. /\ payment[o] = "captured" /\ event[o] = "none"
        /\ \E n \in {"queued", "lost"} : event' = [event EXCEPT ![o] = n]
        /\ UNCHANGED <<flow, task, checkout, stash, attempt, saved, claimOld, cart, ledger, payment, deliveries>>
    BY <1>2 DEF Webhook, documents
  <2>2. event'[o] \in {"queued", "lost"} /\ \A r \in Order \ {o} : event'[r] = event[r]
    BY <2>1 DEF OrderInv, OrderTypeOK
  <2>3. DocsTyped'
    BY <2>1 DEF OrderInv, OrderTypeOK, DocsTyped
  <2>4. \A q \in Proc : Spares(q)
    BY <2>1, <2>2, PlaceFits DEF Spares, CalledFor
  <2>5. DocsFit' /\ \A r \in Order : Persists(r)
    BY <2>1, <2>2 DEF OrderInv, DocsFit, Persists
  <2>6. QED
    BY <2>1, <2>3, <2>4, <2>5, WritesOnly
<1>3. CASE StashExpires(o)
  <2>1. Quiet /\ UNCHANGED <<flow, task>>
    BY <1>3 DEF StashExpires, Quiet, facts, DocsTyped, OrderInv, OrderTypeOK, outside, vars
  <2>2. QED
    BY <2>1, QuietElse DEF At
<1>4. CASE ClaimAges(o)
  <2>1. /\ Calm => \A p \in Proc : ~Claims(p, o)
        /\ claimOld' = [claimOld EXCEPT ![o] = TRUE]
        /\ UNCHANGED <<flow, task, checkout, stash, attempt, saved, cart, ledger, payment, event, deliveries>>
    BY <1>4 DEF ClaimAges, Calm, vars, env, outside
  <2>2. \A r \in Order \ {o} : claimOld'[r] = claimOld[r]
    BY <2>1 DEF OrderInv, OrderTypeOK
  <2>3. DocsTyped'
    BY <2>1 DEF OrderInv, OrderTypeOK, DocsTyped
  <2>4. \A q \in Proc : Spares(q)
    BY <2>1, <2>2, PlaceFits DEF Spares, Claims, ClaimedPlaces
  <2>5. DocsFit' /\ \A r \in Order : Persists(r)
    BY <2>1 DEF OrderInv, DocsFit, Persists
  <2>6. QED
    BY <2>1, <2>3, <2>4, <2>5, WritesOnly
<1>5. QED
  BY <1>1, <1>2, <1>3, <1>4

-----------------------------------------------------------------------------
(* The invariant, and what follows from it *)

LEMMA OrderInvInductive ==
  ASSUME OrderInv, [OrderNext]_orderVars
  PROVE  OrderInv'
<1>1. CASE UNCHANGED orderVars
  <2>1. UNCHANGED <<vars, flow, documents, outside>>
    BY <1>1 DEF orderVars
  <2>2. Below'
    BY <2>1 DEF OrderInv, Below, TypeOK, PlaceOK, vars, stores, env, history
  <2>3. UNCHANGED <<flow, task, checkout, stash, attempt, saved, claimOld, cart, ledger, payment, event, deliveries>>
    BY <2>1 DEF vars, env, documents, outside
  <2>4. OrderTypeOK' /\ FlowsFit' /\ DocsFit' /\ Alone'
    BY <2>3 DEF OrderInv, OrderTypeOK, FlowsFit, MayBe, CalledFor, DocsFit, Alone, On, At
  <2>5. QED
    BY <2>2, <2>4 DEF OrderInv
<1>2. CASE OrderNext
  <2>1. ASSUME NEW p \in Proc, FlowStep(p)
        PROVE  OrderInv'
    BY <1>2, <2>1, PlainSteps, StashSteps, ReadSteps, ReturnSteps, RecordAttemptKeeps,
       UpsertKeeps, RecordKeeps, MarkResolvedKeeps, MarkDoneKeeps, ClaimKeeps, FinishKeeps,
       MatchPaymentsKeeps, AnswerKeeps DEF FlowStep
  <2>2. ASSUME NEW p \in Proc, FlowCaller(p) \/ HandlerDies(p) \/ FlowFails(p)
        PROVE  OrderInv'
    BY <1>2, <2>2, CallersKeep, HandlerDiesKeeps, FlowFailsKeeps
  <2>3. QED
    BY <1>2, <2>1, <2>2, BelowStepsKeep, OutsideStepsKeep DEF OrderNext
<1>3. QED
  BY <1>1, <1>2

LEMMA OrderInvCorrect == OrderSpec => []OrderInv
<1>1. OrderInit => OrderInv
  BY OrderInitFits
<1>2. OrderInv /\ [OrderNext]_orderVars => OrderInv'
  BY OrderInvInductive
<1>3. QED
  BY <1>1, <1>2, PTL DEF OrderSpec

(* Every document and handler stays in its type, and a handler is inside an *)
(* inventory operation exactly while OrderService awaits one.               *)
THEOREM OrderTyping == OrderSpec => []OrderTypeOK
<1>1. OrderInv => OrderTypeOK
  BY DEF OrderInv
<1>2. QED
  BY <1>1, OrderInvCorrect, PTL

(* No two handlers run one order's post-processing: for any callers, with   *)
(* redelivery, deaths and failures, as long as none outlives its claim.     *)
THEOREM ClaimExclusion == OrderSpec => []ClaimIsExclusive
<1>1. OrderInv => ClaimIsExclusive
  BY DEF OrderInv, Alone, ClaimIsExclusive, Claims, Calm
<1>2. QED
  BY <1>1, OrderInvCorrect, PTL

(* An event that was acknowledged has its order, whatever failed.           *)
THEOREM AckedAreSaved == OrderSpec => []AckedMeansSaved
<1>1. OrderInv => AckedMeansSaved
  BY DEF OrderInv, DocsFit, AckedMeansSaved
<1>2. QED
  BY <1>1, OrderInvCorrect, PTL

-----------------------------------------------------------------------------
(* The refinement: what OrderService promises of an online payment *)

Stages == [o \in Order |-> StageOf(o)]
Recorded == {o \in Order : ledger[o] > 0}

LEMMA SameStage ==
  ASSUME UNCHANGED <<saved, payment>>
  PROVE  UNCHANGED Stages
BY DEF Stages, StageOf

(* A step that writes nothing the promise is about. *)
LEMMA Untold ==
  ASSUME UNCHANGED <<saved, payment, ledger, event>>
  PROVE  UNCHANGED Promise!paidOrderVars
<1>1. UNCHANGED Stages /\ UNCHANGED Recorded
  BY SameStage DEF Recorded
<1>2. QED
  BY <1>1 DEF Promise!paidOrderVars, Stages, Recorded

LEMMA StageAdvances ==
  ASSUME NEW o \in Order, NEW from, NEW to, StageOf(o) = from, StageOf(o)' = to,
         \A r \in Order \ {o} : StageOf(r)' = StageOf(r),
         UNCHANGED <<ledger, event>>
  PROVE  Promise!Advances(o, from, to)
<1>1. Stages[o] = from /\ Stages' = [Stages EXCEPT ![o] = to]
  BY DEF Stages
<1>2. UNCHANGED Recorded
  BY DEF Recorded
<1>3. QED
  BY <1>1, <1>2 DEF Promise!Advances, Stages, Recorded

(* The steps that take an order further, *)
LEMMA AdvancingSteps ==
  ASSUME OrderInv, Calm, NEW p \in Proc, Upsert(p) \/ Claim(p) \/ Finish(p)
  PROVE  Promise!PaidOrderNext \/ UNCHANGED Promise!paidOrderVars
<1>1. PICK o \in Order : o = On(p)
  BY PlaceFits DEF Upsert, Claim, Finish, Sits, CalledFor
<1>2. /\ payment[o] = "captured" /\ UNCHANGED <<payment, ledger, event>>
      /\ saved \in [Order -> {"absent", "pending", "in_progress", "done"}]
  BY <1>1, PlaceFits DEF Upsert, Claim, Finish, Sits, MayBe, PaidPlaces, LookupPlaces, ClaimedPlaces,
     outside, OrderTypeOK, CalledFor
<1>3. CASE UNCHANGED saved
  BY <1>1, <1>2, <1>3, Untold
<1>4. CASE saved[o] = "absent" /\ saved' = [saved EXCEPT ![o] = "pending"]
  <2>1. /\ StageOf(o) = "paid" /\ StageOf(o)' = "pending"
        /\ \A r \in Order \ {o} : StageOf(r)' = StageOf(r)
    BY <1>1, <1>2, <1>4 DEF StageOf
  <2>2. Promise!Saves(o)
    BY <1>1, <1>2, <2>1, StageAdvances DEF Promise!Saves
  <2>3. QED
    BY <1>1, <1>2, <2>2 DEF Promise!PaidOrderNext
<1>5. CASE saved[o] = "pending" /\ saved' = [saved EXCEPT ![o] = "in_progress"]
  <2>1. /\ StageOf(o) = "pending" /\ StageOf(o)' = "in_progress"
        /\ \A r \in Order \ {o} : StageOf(r)' = StageOf(r)
    BY <1>1, <1>2, <1>5 DEF StageOf
  <2>2. Promise!Begins(o)
    BY <1>1, <1>2, <2>1, StageAdvances DEF Promise!Begins
  <2>3. QED
    BY <1>1, <1>2, <2>2 DEF Promise!PaidOrderNext
<1>6. CASE Finish(p)
  <2>1. saved[o] = "in_progress" /\ ledger[o] > 0 /\ saved' = [saved EXCEPT ![o] = "done"]
    BY <1>1, <1>6, PlaceFits DEF Finish, Sits, MayBe, CalledFor, ClaimedPlaces
  <2>2. /\ StageOf(o) = "in_progress" /\ StageOf(o)' = "done"
        /\ \A r \in Order \ {o} : StageOf(r)' = StageOf(r)
    BY <1>1, <1>2, <2>1 DEF StageOf
  <2>3. Promise!Completes(o)
    BY <1>1, <1>2, <2>1, <2>2, StageAdvances DEF Promise!Completes
  <2>4. QED
    BY <1>1, <1>2, <2>3 DEF Promise!PaidOrderNext
<1>7. CASE Upsert(p)
  <2>1. saved' = [saved EXCEPT ![o] = IF @ = "absent" THEN "pending" ELSE @]
    BY <1>1, <1>7 DEF Upsert
  <2>2. QED
    BY <1>1, <1>2, <1>3, <1>4, <2>1
<1>8. CASE Claim(p)
  <2>1. UNCHANGED saved \/ (Claimable(o) /\ saved' = [saved EXCEPT ![o] = "in_progress"])
    BY <1>1, <1>8 DEF Claim
  <2>2. QED
    BY <1>1, <1>2, <1>3, <1>5, <2>1 DEF Claimable
<1>9. QED
  BY <1>6, <1>7, <1>8

(* that enters its payment in the ledger, *)
LEMMA RecordingSteps ==
  ASSUME OrderInv, Calm, NEW p \in Proc, Record(p)
  PROVE  Promise!PaidOrderNext
<1>1. PICK o \in Order : o = On(p)
  BY PlaceFits DEF Record, Sits, CalledFor
<1>2. /\ saved[o] = "in_progress"
      /\ ledger' = [ledger EXCEPT ![o] = @ + 1] /\ ledger \in [Order -> Nat]
      /\ UNCHANGED <<saved, payment, event>>
  BY <1>1, PlaceFits DEF Record, Sits, CalledFor, ClaimedPlaces, outside, OrderTypeOK
<1>3. Recorded' = Recorded \cup {o}
  BY <1>2 DEF Recorded
<1>4. UNCHANGED Stages /\ Stages[o] = "in_progress"
  BY <1>2, SameStage DEF Stages, StageOf
<1>5. Promise!Records(o)
  BY <1>2, <1>3, <1>4 DEF Promise!Records, Stages, Recorded
<1>6. QED
  BY <1>1, <1>5 DEF Promise!PaidOrderNext

(* that settle its event or tell the client to pay, *)
LEMMA AnsweringSteps ==
  ASSUME OrderInv, Calm, NEW p \in Proc, Answer(p)
  PROVE  Promise!PaidOrderNext \/ UNCHANGED Promise!paidOrderVars
<1> DEFINE o == On(p)
<1>1. /\ flow[p].at \in Outcomes \ {"not_found"} /\ o \in Order
      /\ UNCHANGED <<saved, ledger>>
  BY PlaceFits DEF Answer, Outcomes, MayBe, CalledFor, documents
<1>2. CASE flow[p].at = "answered"
  <2>1. flow[p].source = "initiate" /\ payment[o] = "none"
    BY <1>2, PlaceFits DEF MayBe, CalledFor
  <2>2. payment' = [payment EXCEPT ![o] = "offered"] /\ UNCHANGED event
    BY <1>2, <2>1 DEF Answer, Sits
  <2>3. saved[o] = "absent"
    BY <1>1, <2>1 DEF OrderInv, DocsFit
  <2>4. UNCHANGED Stages
    BY <1>1, <2>1, <2>2, <2>3 DEF Stages, StageOf, OrderInv, OrderTypeOK
  <2>5. UNCHANGED Recorded
    BY <1>1 DEF Recorded
  <2>6. QED
    BY <2>2, <2>4, <2>5 DEF Promise!paidOrderVars, Stages, Recorded
<1>3. CASE flow[p].at # "answered" /\ flow[p].source # "webhook"
  BY <1>1, <1>3, Untold DEF Answer, Sits
<1>4. CASE flow[p].at # "answered" /\ flow[p].source = "webhook"
  <2>1. event[o] = "queued" /\ event \in [Order -> {"none", "lost", "queued", "acked", "dead"}]
    BY <1>4, PlaceFits DEF CalledFor, OrderTypeOK
  <2>2. UNCHANGED payment /\ UNCHANGED Stages /\ UNCHANGED Recorded
    BY <1>1, <1>4, SameStage DEF Answer, Sits, Recorded
  <2>3. CASE flow[p].at # "raised"
    <3>1. event' = [event EXCEPT ![o] = "acked"]
      BY <1>4, <2>3 DEF Answer, Sits
    <3>2. saved[o] \in {"pending", "in_progress", "done"}
      BY <1>1, <1>4, <2>3, PlaceFits DEF MayBe, SavedPlaces, Outcomes, OrderTypeOK
    <3>3. Stages[o] \in {"pending", "in_progress", "done"}
      BY <1>1, <3>2 DEF Stages, StageOf
    <3>4. Promise!Settles(o)
      BY <2>1, <2>2, <3>1, <3>3 DEF Promise!Settles, Stages, Recorded
    <3>5. QED
      BY <1>1, <3>4 DEF Promise!PaidOrderNext
  <2>4. CASE flow[p].at = "raised" /\ deliveries[o] >= MaxDeliveries
    <3>1. event' = [event EXCEPT ![o] = "dead"]
      BY <1>4, <2>4 DEF Answer, Sits
    <3>2. Promise!Settles(o)
      BY <2>1, <2>2, <3>1 DEF Promise!Settles, Stages, Recorded
    <3>3. QED
      BY <1>1, <3>2 DEF Promise!PaidOrderNext
  <2>5. CASE flow[p].at = "raised" /\ ~(deliveries[o] >= MaxDeliveries)
    <3>1. UNCHANGED event
      BY <1>4, <2>1, <2>5 DEF Answer, Sits
    <3>2. QED
      BY <1>1, <2>2, <3>1, Untold
  <2>6. QED
    BY <2>3, <2>4, <2>5
<1>5. QED
  BY <1>2, <1>3, <1>4

(* and the customer's and the gateway's. *)
LEMMA PaymentSteps ==
  ASSUME OrderInv, NEW o \in Order, Pay(o) \/ Webhook(o)
  PROVE  Promise!PaidOrderNext
<1>1. CASE Pay(o)
  <2>1. /\ payment[o] = "offered" /\ payment' = [payment EXCEPT ![o] = "captured"]
        /\ UNCHANGED <<saved, ledger, event>>
    BY <1>1 DEF Pay, documents
  <2>2. saved[o] = "absent"
    BY <2>1 DEF OrderInv, DocsFit
  <2>3. /\ StageOf(o) = "unpaid" /\ StageOf(o)' = "paid"
        /\ \A r \in Order \ {o} : StageOf(r)' = StageOf(r)
    BY <2>1, <2>2 DEF StageOf, OrderInv, OrderTypeOK
  <2>4. Promise!PaysFor(o)
    BY <2>1, <2>3, StageAdvances DEF Promise!PaysFor
  <2>5. QED
    BY <2>4 DEF Promise!PaidOrderNext
<1>2. CASE Webhook(o)
  <2>1. /\ payment[o] = "captured" /\ event[o] = "none"
        /\ \E n \in {"queued", "lost"} : event' = [event EXCEPT ![o] = n]
        /\ UNCHANGED <<saved, payment, ledger>>
    BY <1>2 DEF Webhook, documents
  <2>2. UNCHANGED Stages /\ UNCHANGED Recorded /\ Stages[o] # "unpaid"
    BY <2>1, SameStage, ZenonT(30) DEF Recorded, Stages, StageOf, OrderInv, OrderTypeOK
  <2>3. Promise!Notifies(o)
    BY <2>1, <2>2 DEF Promise!Notifies, Stages, Recorded
  <2>4. QED
    BY <2>3 DEF Promise!PaidOrderNext
<1>3. QED
  BY <1>1, <1>2

LEMMA PromiseKept ==
  ASSUME OrderInv, Calm, [OrderNext]_orderVars
  PROVE  [Promise!PaidOrderNext]_(Promise!paidOrderVars)
<1>1. ASSUME NEW p \in Proc, FlowStep(p)
      PROVE  [Promise!PaidOrderNext]_(Promise!paidOrderVars)
  <2>1. CASE \/ Reserved(p) \/ Stash(p) \/ CreateGatewayOrder(p) \/ StashId(p) \/ RecordAttempt(p)
             \/ FindOrder(p) \/ LoadStash(p) \/ Recheck(p) \/ LoadAttempt(p) \/ VerifyAmount(p)
             \/ Reread(p) \/ ConvertCart(p) \/ Committed(p) \/ WriteSnapshot(p) \/ Enrich(p)
             \/ MarkResolved(p) \/ Cleared(p) \/ Unstash(p) \/ MatchPayments(p) \/ MarkDone(p)
    BY <2>1, Untold DEF Reserved, Stash, CreateGatewayOrder, StashId, RecordAttempt, FindOrder,
       LoadStash, Recheck, LoadAttempt, VerifyAmount, Reread, ConvertCart, Committed,
       WriteSnapshot, Enrich, MarkResolved, Cleared, Unstash, MatchPayments, MarkDone,
       documents, outside
  <2>2. QED
    BY <1>1, <2>1, AdvancingSteps, RecordingSteps, AnsweringSteps DEF FlowStep
<1>2. ASSUME NEW p \in Proc, FlowCaller(p)
      PROVE  UNCHANGED Promise!paidOrderVars
  BY <1>2, Untold DEF FlowCaller, InitiateOrder, VerifyPayment, Deliver, CronReconcile,
     ListPending, Completes, documents, outside
<1>3. ASSUME NEW p \in Proc, \/ InventoryStep(p) \/ SweepEnds(p) \/ OperationFails(p)
                             \/ HandlerDies(p) \/ FlowFails(p)
      PROVE  UNCHANGED Promise!paidOrderVars
  BY <1>3, Untold DEF InventoryStep, SweepEnds, OperationFails, HandlerDies, FlowFails,
     documents, outside
<1>4. ASSUME NEW p \in Proc, NEW o \in Order, SweepStarts(p, o)
      PROVE  UNCHANGED Promise!paidOrderVars
  BY <1>4, Untold DEF SweepStarts, documents, outside
<1>5. ASSUME NEW o \in Order, StashExpires(o) \/ ClaimAges(o) \/ TimePasses(o)
      PROVE  UNCHANGED Promise!paidOrderVars
  BY <1>5, Untold DEF StashExpires, ClaimAges, TimePasses, documents, outside
<1>6. ASSUME NEW r \in Row, LockAges(r)
      PROVE  UNCHANGED Promise!paidOrderVars
  BY <1>6, Untold DEF LockAges, documents, outside
<1>7. CASE UNCHANGED orderVars
  BY <1>7, Untold DEF orderVars, documents, outside
<1>8. QED
  BY <1>1, <1>2, <1>3, <1>4, <1>5, <1>6, <1>7, PaymentSteps DEF OrderNext

(* Every step of OrderService, of the workers and of the customer is one    *)
(* that PaidOrder allows: for any number of orders, handlers and faults,    *)
(* as long as no handler outlives its claim or its delivery.                *)
THEOREM OrderImplementsPaidOrder ==
  ASSUME "stall" \notin Faults
  PROVE  OrderSpec => ImplementsPaidOrder
<1>1. OrderInit => Promise!PaidOrderInit
  <2> SUFFICES ASSUME OrderInit PROVE Promise!PaidOrderInit
    OBVIOUS
  <2>1. Stages = [o \in Order |-> "unpaid"] /\ Recorded = {}
    BY DEF OrderInit, Stages, StageOf, Recorded
  <2>2. QED
    BY <2>1 DEF OrderInit, Promise!PaidOrderInit, Stages, Recorded
<1>2. OrderInv /\ [OrderNext]_orderVars => [Promise!PaidOrderNext]_(Promise!paidOrderVars)
  BY PromiseKept DEF Calm
<1>3. QED
  BY <1>1, <1>2, OrderInvCorrect, PTL DEF OrderSpec, ImplementsPaidOrder, Promise!PaidOrderSpec

-----------------------------------------------------------------------------
(* What InventoryService guarantees, under OrderService *)

StoresInv == StockNeverNegative /\ MirrorClaimExclusive /\ LockInv

LEMMA StoresKept ==
  ASSUME OrderInv, StoresInv, [OrderNext]_orderVars
  PROVE  StoresInv'
<1>1. CASE [Next]_vars
  <2>1. TypeOK /\ PlaceOK
    BY DEF OrderInv, Below
  <2>2. StockNeverNegative' /\ MirrorClaimExclusive'
    BY <1>1, <2>1, StockStep, ClaimInductive DEF StoresInv
  <2>3. LockInv'
    BY <1>1, <2>1, LockInductive DEF StoresInv, LockInv, LockIsExclusive
  <2>4. QED
    BY <2>2, <2>3 DEF StoresInv
<1>2. CASE CountsFault
  BY <1>2 DEF CountsFault, StoresInv, StockNeverNegative, MirrorClaimExclusive, LockInv,
     LockIsExclusive, InLock, RowOf, OrderOf, stores
<1>3. ASSUME NEW p \in Proc, StartsBelow(p)
      PROVE  StoresInv'
  <2>1. UNCHANGED stores /\ \A q \in Proc \ {p} : task'[q] = task[q]
    BY <1>3, TaskRecords DEF StartsBelow, OrderInv, Below
  <2>2. task'[p].pc = "load" /\ ~task'[p].mirrored
    BY <1>3, TaskRecords DEF StartsBelow, Started, OrderInv, Below
  <2>3. \A q \in Proc : \A r : InLock(q, r)' => InLock(q, r)
    BY <2>1, <2>2 DEF InLock, RowOf, OrderOf, SyncSteps
  <2>4. LockInv'
    BY <2>1, <2>3 DEF StoresInv, LockInv, LockIsExclusive, stores
  <2>5. MirrorClaimExclusive'
    BY <2>1, <2>2 DEF StoresInv, MirrorClaimExclusive, OrderOf, stores
  <2>6. QED
    BY <2>1, <2>4, <2>5 DEF StoresInv, StockNeverNegative, stores
<1>4. [OrderNext]_orderVars => [Next]_vars \/ CountsFault \/ \E p \in Proc : StartsBelow(p)
  BY StepBelow DEF orderVars
<1>5. QED
  BY <1>1, <1>2, <1>3, <1>4

LEMMA StoresInvCorrect == OrderSpec => []StoresInv
<1>1. OrderInit => StoresInv
  BY DEF OrderInit, Init, StoresInv, StockNeverNegative, MirrorClaimExclusive, LockInv,
     LockIsExclusive, InLock, Idle, SyncSteps
<1>2. OrderInv /\ StoresInv /\ [OrderNext]_orderVars => StoresInv'
  BY StoresKept
<1>3. QED
  BY <1>1, <1>2, OrderInvCorrect, PTL DEF OrderSpec

(* No completion of an order, however often it is tried and wherever it is  *)
(* cut off, takes a row's stock below zero.                                 *)
THEOREM OrderStockSafe == OrderSpec => []StockNeverNegative
<1>1. StoresInv => StockNeverNegative
  BY DEF StoresInv
<1>2. QED
  BY <1>1, StoresInvCorrect, PTL

(* One handler at most works on the lines of an order's durable mirror,     *)
(* whoever completes the order: also when a claim is taken over.            *)
THEOREM OrderMirrorClaimSafe == OrderSpec => []MirrorClaimExclusive
<1>1. StoresInv => MirrorClaimExclusive
  BY DEF StoresInv
<1>2. QED
  BY <1>1, StoresInvCorrect, PTL

(* A reservation that was committed is never turned into a released one by  *)
(* the clean-up of another completion, nor the other way round.             *)
THEOREM OrderResolutionFinal == OrderSpec => ResolutionIsFinal
<1> DEFINE Stays == \A o \in Order :
             mirror[o] \in {"committed", "released"} => mirror'[o] = mirror[o]
<1>1. OrderInv /\ [OrderNext]_orderVars => [Stays]_vars
  <2> SUFFICES ASSUME OrderInv, [OrderNext]_orderVars
               PROVE  Stays
    OBVIOUS
  <2>1. CASE [Next]_vars
    BY <2>1, ResolvedStays DEF OrderInv, Below, Resolved
  <2>2. CASE UNCHANGED mirror
    BY <2>2
  <2>3. QED
    BY <2>1, <2>2, StepBelow DEF orderVars, CountsFault, StartsBelow, stores
<1>2. QED
  BY <1>1, OrderInvCorrect, PTL DEF OrderSpec, ResolutionIsFinal
-----------------------------------------------------------------------------
(* A handler's operation and its flow together *)

(* Only this handler does anything: it goes on with its operation, ends it, *)
(* starts one, or takes a step of OrderService between two of them.         *)
Starts(a, op, o) ==
  /\ At(a, "idle")
  /\ task'[a] = Started(op, o, IF op = "reserve" THEN "stock" ELSE "load")
  /\ flow'[a].at \in Awaiting => On(a)' = o
  /\ op = "reserve" => flow'[a].at = "reserving" /\ checkout[o] = "new"
  /\ op = "commit" => flow'[a].at = "committing"
  /\ op = "release" => flow'[a].at \in {"clearing", "none"}
  /\ op # "reserve" => \/ payment[o] = "captured"
                       \/ hold[o] /\ age[o] = "closing"
                       \/ mirror[o] = "reserved"

Turn(a) ==
  /\ \A q \in Proc \ {a} : task'[q] = task[q] /\ flow'[q] = flow[q]
  /\ \/ (Step(a) \/ StoreFails(a)) /\ flow'[a] = flow[a]
     \/ /\ task[a].pc \in Ended \/ Crash(a)
        /\ task'[a] = Idle /\ flow'[a].at \notin Awaiting
     \/ At(a, "idle") /\ task'[a] = task[a]
     \/ \E op \in {"reserve", "commit", "release"}, o \in Order : Starts(a, op, o)

(* Between operations a handler's task is idle. *)
LEMMA FlowTurn ==
  ASSUME OrderInv, NEW a \in Proc, UNCHANGED task, flow[a].at \notin Awaiting,
         flow[a] # NoFlow \/ At(a, "idle"), NEW f, flow' = [flow EXCEPT ![a] = f]
  PROVE  Turn(a)
<1>1. At(a, "idle")
  BY DEF OrderInv, OrderTypeOK, Awaiting
<1>2. \A q \in Proc \ {a} : flow'[q] = flow[q]
  BY DEF OrderInv, OrderTypeOK
<1>3. QED
  BY <1>1, <1>2 DEF Turn

LEMMA PlainTurn ==
  ASSUME OrderInv, NEW a \in Proc,
         \/ Stash(a) \/ CreateGatewayOrder(a) \/ StashId(a) \/ RecordAttempt(a)
         \/ FindOrder(a) \/ LoadStash(a) \/ Recheck(a) \/ LoadAttempt(a) \/ VerifyAmount(a)
         \/ Upsert(a) \/ Reread(a) \/ ConvertCart(a) \/ WriteSnapshot(a) \/ Record(a)
         \/ Enrich(a) \/ MarkResolved(a) \/ Unstash(a) \/ MatchPayments(a) \/ MarkDone(a)
         \/ Answer(a)
  PROVE  Turn(a)
<1>1. UNCHANGED task
  BY DEF Stash, CreateGatewayOrder, StashId, RecordAttempt, FindOrder, LoadStash, Recheck,
     LoadAttempt, VerifyAmount, Upsert, Reread, ConvertCart, WriteSnapshot, Record, Enrich,
     MarkResolved, Unstash, MatchPayments, MarkDone, Answer
<1>2. flow[a].at \notin Awaiting /\ flow[a].at # "none"
  BY DEF Stash, CreateGatewayOrder, StashId, RecordAttempt, FindOrder, LoadStash, Recheck,
     LoadAttempt, VerifyAmount, Upsert, Reread, ConvertCart, WriteSnapshot, Record, Enrich,
     MarkResolved, Unstash, MatchPayments, MarkDone, Answer, Sits, Awaiting, Outcomes
<1>3. \A q \in Proc \ {a} : flow'[q] = flow[q]
  BY DEF Stash, CreateGatewayOrder, StashId, RecordAttempt, FindOrder, LoadStash, Recheck,
     LoadAttempt, VerifyAmount, Upsert, Reread, ConvertCart, WriteSnapshot, Record, Enrich,
     MarkResolved, Unstash, MatchPayments, MarkDone, Answer, Goes, OrderInv, OrderTypeOK
<1>4. At(a, "idle")
  BY <1>2 DEF OrderInv, OrderTypeOK, Awaiting, NoFlow
<1>5. QED
  BY <1>1, <1>3, <1>4 DEF Turn

LEMMA ReturnTurn ==
  ASSUME OrderInv, NEW a \in Proc, Reserved(a) \/ Committed(a) \/ Cleared(a) \/ SweepEnds(a)
  PROVE  Turn(a)
<1>1. task'[a] = Idle /\ task[a].pc \in Ended /\ \A q \in Proc \ {a} : task'[q] = task[q]
  BY TaskRecords DEF Reserved, Committed, Cleared, SweepEnds, Return, OrderInv, Below
<1>2. flow'[a].at \notin Awaiting /\ \A q \in Proc \ {a} : flow'[q] = flow[q]
  <2>1. CASE SweepEnds(a)
    BY <2>1 DEF SweepEnds, NoFlow, Awaiting
  <2>2. ASSUME NEW at, Goes(a, at), at \notin Awaiting
        PROVE  flow'[a].at \notin Awaiting /\ \A q \in Proc \ {a} : flow'[q] = flow[q]
    BY <2>2 DEF Goes, OrderInv, OrderTypeOK, Flow
  <2>3. QED
    BY <2>1, <2>2 DEF Reserved, Committed, Cleared, Awaiting
<1>3. QED
  BY <1>1, <1>2 DEF Turn

LEMMA StartTurn ==
  ASSUME OrderInv, NEW a \in Proc,
         \/ Claim(a) \/ Finish(a)
         \/ \E o \in Order : InitiateOrder(a, o) \/ SweepStarts(a, o)
  PROVE  Turn(a)
<1>1. ASSUME NEW op \in {"commit", "release"}, NEW at \in {"committing", "clearing"},
             flow[a].at \in {"claim", "finish"}, Awaits(a, op, at),
             op = "commit" <=> at = "committing"
      PROVE  Turn(a)
  <2>1. On(a) \in Order /\ payment[On(a)] = "captured"
    BY <1>1, PlaceFits DEF MayBe, PaidPlaces, LookupPlaces, ClaimedPlaces
  <2>2. /\ task'[a] = Started(op, On(a), "load") /\ \A q \in Proc \ {a} : task'[q] = task[q]
        /\ flow'[a].at = at /\ On(a)' = On(a) /\ \A q \in Proc \ {a} : flow'[q] = flow[q]
    BY <1>1, TaskRecords DEF Awaits, Goes, On, OrderInv, OrderTypeOK, Flow, Below
  <2>3. Starts(a, op, On(a))
    <3>1. At(a, "idle")
      BY <1>1, PlaceFits DEF InCall, NoFlow, Awaiting
    <3>2. QED
      BY <1>1, <2>1, <2>2, <3>1 DEF Starts
  <2>4. QED
    BY <1>1, <2>1, <2>2, <2>3 DEF Turn
<1>2. ASSUME flow[a].at \in {"claim", "finish"}, Goes(a, "existing"), UNCHANGED task
      PROVE  Turn(a)
  <2>1. flow[a].at \notin Awaiting /\ flow[a] # NoFlow
    BY <1>2 DEF Awaiting, NoFlow
  <2>2. QED
    BY <1>2, <2>1, FlowTurn DEF Goes
<1>3. ASSUME flow[a].at \in {"claim", "finish"}, GoesOn(a)
      PROVE  Turn(a)
  <2>1. CASE Awaits(a, "release", "clearing")
    BY <1>1, <1>3, <2>1
  <2>2. CASE Goes(a, "existing") /\ UNCHANGED task
    BY <1>2, <1>3, <2>2
  <2>3. QED
    BY <1>3, <2>1, <2>2 DEF GoesOn
<1>4. ASSUME flow[a].at \in {"claim", "finish"}, Awaits(a, "commit", "committing")
      PROVE  Turn(a)
  BY <1>1, <1>4
<1>5. ASSUME NEW o \in Order, InitiateOrder(a, o)
      PROVE  Turn(a)
  <2>1. /\ task'[a] = Started("reserve", o, "stock") /\ \A q \in Proc \ {a} : task'[q] = task[q]
        /\ checkout[o] = "new" /\ At(a, "idle")
    BY <1>5, TaskRecords DEF InitiateOrder, CallReserve, Call, OrderInv, Below
  <2>2. /\ flow'[a] = Begun("initiate", o, "reserving")
        /\ \A q \in Proc \ {a} : flow'[q] = flow[q]
    BY <1>5 DEF InitiateOrder, OrderInv, OrderTypeOK
  <2>3. Starts(a, "reserve", o)
    BY <2>1, <2>2 DEF Starts, Begun, NoFlow, On
  <2>4. QED
    BY <2>1, <2>2, <2>3 DEF Turn
<1>6. ASSUME NEW o \in Order, SweepStarts(a, o)
      PROVE  Turn(a)
  <2>1. /\ task'[a] = Started("release", o, "load") /\ \A q \in Proc \ {a} : task'[q] = task[q]
        /\ (hold[o] /\ age[o] = "closing") \/ mirror[o] = "reserved"
        /\ flow'[a] = NoFlow /\ \A q \in Proc \ {a} : flow'[q] = flow[q]
        /\ At(a, "idle")
    BY <1>6, TaskRecords DEF SweepStarts, Free, Sweep, Call, OrderInv, Below
  <2>2. Starts(a, "release", o)
    BY <2>1 DEF Starts, NoFlow, Awaiting
  <2>3. QED
    BY <2>1, <2>2 DEF Turn
<1>7. QED
  BY <1>3, <1>4, <1>5, <1>6 DEF Claim, Finish, Sits

(* One handler takes the step, or nobody does. *)
Acts(a) ==
  \/ InventoryStep(a) \/ FlowStep(a) \/ FlowCaller(a) \/ SweepEnds(a)
  \/ HandlerDies(a) \/ OperationFails(a) \/ FlowFails(a)
  \/ \E o \in Order : SweepStarts(a, o)

LEMMA SomeoneActs ==
  ASSUME OrderNext
  PROVE  UNCHANGED <<task, flow>> \/ \E a \in Proc : Acts(a)
<1>1. ASSUME NEW o \in Order, Pay(o) \/ Webhook(o) \/ StashExpires(o) \/ ClaimAges(o) \/ TimePasses(o)
      PROVE  UNCHANGED <<task, flow>>
  BY <1>1 DEF Pay, Webhook, StashExpires, ClaimAges, TimePasses, Tick, vars
<1>2. ASSUME NEW r \in Row, LockAges(r)
      PROVE  UNCHANGED <<task, flow>>
  BY <1>2 DEF LockAges, LockExpires
<1>3. QED
  BY <1>1, <1>2 DEF OrderNext, Acts

LEMMA ActsTurn ==
  ASSUME OrderInv, NEW h \in Proc, Acts(h)
  PROVE  Turn(h)
<1>1. ASSUME NEW a \in Proc, InventoryStep(a) \/ OperationFails(a)
      PROVE  Turn(a)
  <2>1. (Step(a) \/ StoreFails(a)) /\ UNCHANGED flow
    BY <1>1 DEF InventoryStep, OperationFails
  <2>2. \A q \in Proc \ {a} : task'[q] = task[q]
    BY <2>1, StepGoesOn DEF OrderInv
  <2>3. QED
    BY <2>1, <2>2 DEF Turn
<1>2. ASSUME NEW a \in Proc, NEW o \in Order,
             VerifyPayment(a, o) \/ Deliver(a, o) \/ CronReconcile(a, o) \/ ListPending(a, o)
      PROVE  Turn(a)
  <2>1. /\ Free(a) /\ UNCHANGED task
        /\ \E source, at : flow' = [flow EXCEPT ![a] = Begun(source, o, at)]
    BY <1>2 DEF VerifyPayment, Deliver, CronReconcile, ListPending, Completes
  <2>2. QED
    <3>1. flow[a].at \notin Awaiting
      BY <2>1 DEF Free, NoFlow, Awaiting
    <3>2. QED
      BY <2>1, <3>1, FlowTurn DEF Free
<1>3. ASSUME NEW a \in Proc, HandlerDies(a)
      PROVE  Turn(a)
  <2>1. flow'[a] = NoFlow /\ \A q \in Proc \ {a} : flow'[q] = flow[q]
    BY <1>3 DEF HandlerDies, OrderInv, OrderTypeOK
  <2>2. CASE Crash(a)
    BY <2>1, <2>2, TaskRecords DEF Crash, Turn, NoFlow, Awaiting, OrderInv, Below
  <2>3. CASE At(a, "idle") /\ UNCHANGED task
    BY <2>1, <2>3 DEF Turn
  <2>4. QED
    BY <1>3, <2>2, <2>3 DEF HandlerDies
<1>4. ASSUME NEW a \in Proc, FlowFails(a)
      PROVE  Turn(a)
  <2>1. UNCHANGED task /\ flow[a].at \notin Awaiting /\ flow[a] # NoFlow
    BY <1>4 DEF FlowFails, Awaiting, NoFlow
  <2>2. QED
    BY <1>4, <2>1, FlowTurn DEF FlowFails, Goes
<1>7. ASSUME NEW a \in Proc, FlowStep(a)
      PROVE  Turn(a)
  BY <1>7, PlainTurn, ReturnTurn, StartTurn DEF FlowStep
<1>8. ASSUME NEW a \in Proc, FlowCaller(a)
      PROVE  Turn(a)
  BY <1>2, <1>8, StartTurn DEF FlowCaller
<1>9. QED
  BY <1>1, <1>3, <1>4, <1>7, <1>8, ReturnTurn, StartTurn DEF Acts

LEMMA TakesTurn ==
  ASSUME OrderInv, OrderNext
  PROVE  UNCHANGED <<task, flow>> \/ \E a \in Proc : Turn(a)
BY SomeoneActs, ActsTurn

(* While nothing has gone wrong, the step was no failure either. *)
LEMMA NothingFailed ==
  ASSUME OrderInv, OrderNext, faults' = 0
  PROVE  /\ faults = 0
         /\ ~\E a \in Proc : StoreFails(a) \/ HandlerDies(a) \/ FlowFails(a) \/ Crash(a)
<1>1. faults \in Nat
  BY DEF OrderInv, Below, TypeOK
<1>2. ~\E a \in Proc : StoreFails(a) \/ HandlerDies(a) \/ FlowFails(a) \/ Crash(a)
  BY <1>1 DEF StoreFails, HandlerDies, FlowFails, Crash
<1>3. CASE [Next]_vars
  <2>1. ASSUME NEW p \in Proc, Step(p) \/ Return(p) \/ Caller(p)
        PROVE  UNCHANGED faults
    BY <2>1 DEF Step, ReadStock, AcquireLock, CheckAvailable, CountHold, ReleaseLock, WriteKey,
       WriteMirror, SyncQty, SyncPending, SyncStatus, LoadReservation, ClaimMirror, TakeStock,
       TakeStatus, DecrPending, DropPending, DeleteKey, ResolveMirror, PutBack, env, Return,
       Caller, CallReserve, CallCommit, CallRelease, Sweep, CallSell, CallRestock, Call
  <2>2. QED
    BY <1>2, <1>3, <2>1 DEF Next, Tick, LockExpires, vars, env
<1>4. CASE CountsFault
  BY <1>1, <1>4 DEF CountsFault
<1>5. ASSUME NEW p \in Proc, StartsBelow(p)
      PROVE  UNCHANGED faults
  BY <1>5 DEF StartsBelow, env
<1>6. QED
  BY <1>2, <1>3, <1>4, <1>5, StepBelow

(* Which operation serves which place of OrderService. *)
Serves(p) ==
  /\ task[p].op \notin {"sell", "restock"}
  /\ task[p].op \in {"reserve", "undo"} => flow[p].at = "reserving"
  /\ task[p].op = "commit" <=> flow[p].at = "committing"
  /\ flow[p].at \in Awaiting => OrderOf(p) = On(p)
  /\ faults = 0 /\ task[p].op = "release" => task[p].pc # "raised"

ServesInv == TasksPlaced /\ \A p \in Proc : Serves(p)

(* Without a fault, an operation raises only where a line cannot be taken, *)
(* or after it has undone a reservation.                                   *)
LEMMA RaisesOnly ==
  ASSUME TypeOK, NEW p \in Proc, Step(p), task'[p].pc = "raised"
  PROVE  \/ /\ task[p].pc = "take" /\ qty[RowOf(p)] < UnitsOf(p)
            /\ UNCHANGED <<qty, taken>>
         \/ task[p].pc = "delKey" /\ task[p].op = "undo"
<1>1. ASSUME NEW pc, Goto(p, pc)
      PROVE  pc = "raised"
  BY <1>1, GotoEffect
<1>2. ASSUME NEW loop, NEW exit, NextLine(p, loop, exit)
      PROVE  "raised" \in {loop, exit}
  BY <1>2, NextLineEffect
<1>3. ASSUME NEW done, Undo(p, done)
      PROVE  FALSE
  BY <1>3, UndoEffect DEF Undoes
<1>4. ASSUME NEW pc, NEW v, task' = [task EXCEPT ![p].pc = pc, ![p].view = v]
      PROVE  pc = "raised"
  BY <1>4, ReadEffect
<1>5. ~(ReadStock(p) \/ SyncQty(p) \/ SyncPending(p))
  BY <1>4 DEF ReadStock, SyncQty, SyncPending
<1>6. ~(AcquireLock(p) \/ CheckAvailable(p) \/ CountHold(p) \/ ReleaseLock(p))
  BY <1>1, <1>2, <1>3 DEF AcquireLock, CheckAvailable, CountHold, ReleaseLock
<1>7. ~(WriteKey(p) \/ WriteMirror(p) \/ SyncStatus(p) \/ LoadReservation(p))
  BY <1>1, <1>2, SMTT(30) DEF WriteKey, WriteMirror, SyncStatus, LoadReservation, FirstStep
<1>8. ~ClaimMirror(p)
  <2>1. ASSUME task' = [task EXCEPT ![p].pc = FirstStep(task[p].op), ![p].mirrored = TRUE]
        PROVE  FALSE
    BY <2>1, TaskRecords DEF Task, FirstStep
  <2>2. QED
    BY <1>1, <2>1 DEF ClaimMirror
<1>9. ~(TakeStatus(p) \/ DropPending(p) \/ ResolveMirror(p) \/ PutBack(p))
  BY <1>1, <1>2 DEF TakeStatus, DropPending, ResolveMirror, PutBack, AfterAdjust
<1>10. ~DecrPending(p)
  BY <1>1, <1>2 DEF DecrPending, AfterAdjust
<1>11. CASE TakeStock(p)
  BY <1>4, <1>11 DEF TakeStock, At
<1>12. CASE DeleteKey(p)
  BY <1>1, <1>12 DEF DeleteKey, At
<1>13. QED
  BY <1>5, <1>6, <1>7, <1>8, <1>9, <1>10, <1>11, <1>12 DEF Step

LEMMA BelowPlaced ==
  ASSUME OrderInv, TasksPlaced, OrderNext
  PROVE  TasksPlaced'
<1>1. CASE [Next]_vars
  BY <1>1, PlacedInductive DEF OrderInv, Below
<1>2. CASE CountsFault
  BY <1>2 DEF CountsFault, TasksPlaced, Placing
<1>3. ASSUME NEW p \in Proc, StartsBelow(p)
      PROVE  TasksPlaced'
  <2>1. PICK op \in {"commit", "release"} : task' = [task EXCEPT ![p] = Started(op, On(p), "load")]
    BY <1>3 DEF StartsBelow
  <2>2. Placing(Started(op, On(p), "load"))
    BY StartedPlaced
  <2>3. QED
    BY <2>1, <2>2, ReplacedPlaced DEF OrderInv, Below
<1>4. QED
  BY <1>1, <1>2, <1>3, StepBelow

LEMMA ServesInductive ==
  ASSUME OrderInv, ServesInv, OrderNext
  PROVE  ServesInv'
<1>1. TasksPlaced' /\ OrderInv' /\ TypeOK /\ PlaceOK /\ TypeOK'
  BY BelowPlaced, OrderInvInductive DEF ServesInv, OrderInv, Below
<1>2. faults' = 0 => faults = 0
  BY NothingFailed
<1>3. ASSUME NEW q \in Proc, task'[q] = task[q], flow'[q] = flow[q]
      PROVE  Serves(q)'
  BY <1>2, <1>3 DEF ServesInv, Serves, OrderOf, On
<1>4. ASSUME NEW a \in Proc, Step(a) \/ StoreFails(a), flow'[a] = flow[a]
      PROVE  Serves(a)'
  <2>1. StepEffect(a) /\ task[a].op \in Ops
    BY <1>1, <1>4, StepKeepsPlace, TaskRecords DEF Task
  <2>2. /\ \/ task'[a].op = task[a].op
           \/ task[a].op = "reserve" /\ task'[a].op = "undo"
        /\ task'[a].order = task[a].order
    BY <2>1 DEF StepEffect, KeepsOp, Undoes, OnlyMoves
  <2>3. faults' = 0 /\ task'[a].op = "release" => task'[a].pc # "raised"
    <3>1. SUFFICES ASSUME faults' = 0, task'[a].op = "release", task'[a].pc = "raised"
                   PROVE  FALSE
      OBVIOUS
    <3>2. Step(a) /\ task[a].op = "release"
      BY <1>4, <2>2, <3>1, NothingFailed
    <3>3. task[a].pc = "take" \/ task[a].op = "undo"
      BY <1>1, <3>1, <3>2, RaisesOnly
    <3>4. QED
      BY <3>2, <3>3 DEF ServesInv, TasksPlaced, Placing, SyncSteps
  <2>4. QED
    BY <1>4, <2>2, <2>3 DEF ServesInv, Serves, OrderOf, On
<1>5. ASSUME NEW a \in Proc, task'[a] = Idle, flow'[a].at \notin Awaiting
      PROVE  Serves(a)'
  BY <1>5 DEF Serves, Idle, Awaiting
<1>6. ASSUME NEW a \in Proc, At(a, "idle"), task'[a] = task[a]
      PROVE  Serves(a)'
  <2>1. task[a].op = "none"
    <3>1. Placing(task[a]) /\ task[a].op \in Ops
      BY <1>1, TaskRecords DEF ServesInv, TasksPlaced, Task
    <3>2. QED
      BY <1>6, <3>1 DEF Placing, Ops, At, ReserveSteps, SyncSteps
  <2>2. flow'[a].at \notin Awaiting
    BY <1>1, <1>6 DEF OrderInv, OrderTypeOK, At, Awaiting, NoFlow
  <2>3. QED
    BY <1>6, <2>1, <2>2 DEF Serves, Awaiting
<1>7. ASSUME NEW a \in Proc, NEW op \in {"reserve", "commit", "release"}, NEW o \in Order,
             Starts(a, op, o)
      PROVE  Serves(a)'
  BY <1>7 DEF Starts, Serves, Started, OrderOf, Awaiting
<1>8. ASSUME NEW a \in Proc, Turn(a), NEW q \in Proc
      PROVE  Serves(q)'
  <2>1. CASE q # a
    BY <1>3, <1>8, <2>1 DEF Turn
  <2>2. CASE q = a
    BY <1>4, <1>5, <1>6, <1>7, <1>8, <2>2 DEF Turn
  <2>3. QED
    BY <2>1, <2>2
<1>9. QED
  BY <1>1, <1>3, <1>8, TakesTurn DEF ServesInv

-----------------------------------------------------------------------------
(* What completes an order, once *)

Uncut == Calm /\ faults = 0

(* How a handler that has claimed an order goes on while nothing fails. *)
Following == [at \in {"snapshot", "record", "enrich", "resolve"} |->
            CASE at = "snapshot" -> "record" [] at = "record" -> "enrich"
              [] at = "enrich" -> "resolve" [] OTHER -> "finish"]

GoesOnClaiming(q) ==
  \/ flow'[q] = flow[q] /\ task'[q] = task[q]
  \/ flow'[q] = flow[q] /\ Step(q)
  \/ /\ flow[q].at = "committing" /\ On(q)' = On(q) /\ task'[q] = Idle
     /\ \/ task[q].pc = "ok" /\ flow'[q].at = "snapshot"
        \/ task[q].pc = "raised"
  \/ /\ flow[q].at \in {"snapshot", "record", "enrich", "resolve"} /\ On(q)' = On(q)
     /\ flow'[q].at = Following[flow[q].at] /\ task'[q] = task[q]
  \/ flow[q].at = "finish" /\ saved'[On(q)] = "done"

LEMMA ClaimantGoesOn ==
  ASSUME OrderInv, OrderNext, faults' = 0, NEW q \in Proc, flow[q].at \in ClaimedPlaces
  PROVE  GoesOnClaiming(q)
<1>1. CASE UNCHANGED <<task, flow>>
  BY <1>1 DEF GoesOnClaiming
<1>2. ASSUME NEW a \in Proc, Acts(a), a # q
      PROVE  GoesOnClaiming(q)
  BY <1>2, ActsTurn DEF GoesOnClaiming, Turn
<1>3. CASE Acts(q)
  <2>1. flow[q] \in Flow /\ flow[q] # NoFlow /\ flow[q].at \in ClaimedPlaces /\ flow[q].at \notin Outcomes
    BY PlaceFits DEF NoFlow, ClaimedPlaces, Outcomes
  <2>2. ASSUME NEW at, Goes(q, at)
        PROVE  flow'[q].at = at /\ On(q)' = On(q)
    BY <2>1, <2>2 DEF Goes, On, OrderInv, OrderTypeOK, Flow
  <2>3. InventoryStep(q) \/ FlowStep(q)
    BY <1>3, <2>1, NothingFailed DEF Acts, OperationFails, SweepStarts, SweepEnds, Free,
       FlowCaller, InitiateOrder, VerifyPayment, Deliver, CronReconcile, ListPending, Completes
  <2>4. CASE InventoryStep(q)
    BY <2>4 DEF InventoryStep, GoesOnClaiming
  <2>5. CASE FlowStep(q)
    <3>1. \/ Committed(q) \/ WriteSnapshot(q) \/ Record(q) \/ Enrich(q) \/ MarkResolved(q)
          \/ Finish(q)
      BY <2>1, <2>5 DEF FlowStep, ClaimedPlaces, Sits, Reserved, Stash, CreateGatewayOrder, StashId,
         RecordAttempt, FindOrder, LoadStash, Recheck, LoadAttempt, VerifyAmount, Upsert, Reread,
         ConvertCart, Claim, Cleared, Unstash, MatchPayments, MarkDone, Answer
    <3>2. CASE Committed(q)
      <4>1. task'[q] = Idle /\ task[q].pc \in {"ok", "raised"}
        BY <3>2, TaskRecords DEF Committed, Return, Ended, OrderInv, Below
      <4>2. /\ flow[q].at = "committing" /\ On(q)' = On(q)
            /\ task[q].pc = "ok" => flow'[q].at = "snapshot"
        BY <2>2, <3>2 DEF Committed, Sits, At
      <4>3. QED
        BY <4>1, <4>2 DEF GoesOnClaiming
    <3>3. CASE WriteSnapshot(q) \/ Record(q) \/ Enrich(q) \/ MarkResolved(q)
      BY <2>2, <3>3 DEF WriteSnapshot, Record, Enrich, MarkResolved, Sits, Following, GoesOnClaiming
    <3>4. CASE Finish(q)
      <4>1. flow[q].at = "finish" /\ saved' = [saved EXCEPT ![On(q)] = "done"] /\ On(q) \in Order
        BY <3>4, PlaceFits DEF Finish, Sits
      <4>2. QED
        BY <4>1 DEF GoesOnClaiming, OrderInv, OrderTypeOK
    <3>5. QED
      BY <3>1, <3>2, <3>3, <3>4
  <2>6. QED
    BY <2>3, <2>4, <2>5
<1>4. QED
  BY <1>1, <1>2, <1>3, SomeoneActs

LEMMA DoneStays ==
  ASSUME OrderInv, OrderNext, NEW o \in Order, saved[o] = "done"
  PROVE  saved'[o] = "done"
<1>1. ASSUME NEW p \in Proc, Upsert(p) \/ Claim(p) \/ Finish(p)
      PROVE  saved'[o] = "done"
  BY <1>1 DEF Upsert, Claim, Finish, Claimable, OrderInv, OrderTypeOK
<1>2. ASSUME NEW p \in Proc, FlowStep(p), ~(Upsert(p) \/ Claim(p) \/ Finish(p))
      PROVE  UNCHANGED saved
  BY <1>2 DEF FlowStep, Reserved, Stash, CreateGatewayOrder, StashId, RecordAttempt, FindOrder,
     LoadStash, Recheck, LoadAttempt, VerifyAmount, Reread, ConvertCart, Committed, WriteSnapshot,
     Record, Enrich, MarkResolved, Cleared, Unstash, MatchPayments, MarkDone, Answer, documents
<1>3. ASSUME NEW p \in Proc, Acts(p), ~FlowStep(p)
      PROVE  UNCHANGED saved
  BY <1>3 DEF Acts, InventoryStep, FlowCaller, InitiateOrder, VerifyPayment, Deliver,
     CronReconcile, ListPending, Completes, SweepEnds, SweepStarts, HandlerDies, OperationFails,
     FlowFails, documents
<1>4. ASSUME NEW a \in Order, Pay(a) \/ Webhook(a) \/ StashExpires(a) \/ ClaimAges(a) \/ TimePasses(a)
      PROVE  UNCHANGED saved
  BY <1>4 DEF Pay, Webhook, StashExpires, ClaimAges, TimePasses, documents
<1>5. ASSUME NEW r \in Row, LockAges(r)
      PROVE  UNCHANGED saved
  BY <1>5 DEF LockAges, documents
<1>6. (\E p \in Proc : Acts(p)) \/ (\E a \in Order : Pay(a) \/ Webhook(a) \/ StashExpires(a) \/ ClaimAges(a) \/ TimePasses(a)) \/ \E r \in Row : LockAges(r)
  BY DEF OrderNext, Acts
<1>7. QED
  BY <1>1, <1>2, <1>3, <1>4, <1>5, <1>6

(* Only a commit under way takes stock, line by line. *)
LEMMA WhoTakes ==
  ASSUME OrderInv, ServesInv, OrderNext
  PROVE  \/ UNCHANGED <<qty, taken>>
         \/ \E p \in Proc :
              /\ task[p].op = "commit" /\ task[p].pc = "take" /\ Step(p)
              /\ task'[p].pc = "takeStatus" /\ task'[p].i = task[p].i
              /\ qty[RowOf(p)] >= UnitsOf(p)
              /\ qty' = [qty EXCEPT ![RowOf(p)] = @ - UnitsOf(p)]
              /\ taken' = [taken EXCEPT ![OrderOf(p)][task[p].i] = @ + 1]
<1>0. TypeOK
  BY DEF OrderInv, Below
<1>1. ASSUME NEW p \in Proc, Step(p), ~TakeStock(p)
      PROVE  UNCHANGED <<qty, taken>>
  <2>1. ~PutBack(p)
    <3>1. Placing(task[p]) /\ task[p].op \in Ops /\ Serves(p)
      BY <1>0, TaskRecords DEF ServesInv, TasksPlaced, Task
    <3>2. QED
      BY <3>1 DEF PutBack, At, Placing, Serves, Ops, ReserveSteps, SyncSteps
  <2>2. QED
    BY <1>1, <2>1 DEF Step, ReadStock, AcquireLock, CheckAvailable, CountHold, ReleaseLock,
       WriteKey, WriteMirror, SyncQty, SyncPending, SyncStatus, LoadReservation, ClaimMirror,
       TakeStatus, DecrPending, DropPending, DeleteKey, ResolveMirror, stores, history
<1>2. ASSUME NEW p \in Proc, TakeStock(p)
      PROVE  \/ UNCHANGED <<qty, taken>>
             \/ /\ task[p].op = "commit" /\ task[p].pc = "take" /\ Step(p)
                /\ task'[p].pc = "takeStatus" /\ task'[p].i = task[p].i
                /\ qty[RowOf(p)] >= UnitsOf(p)
                /\ qty' = [qty EXCEPT ![RowOf(p)] = @ - UnitsOf(p)]
                /\ taken' = [taken EXCEPT ![OrderOf(p)][task[p].i] = @ + 1]
  <2>1. task[p].pc = "take" /\ Step(p)
    BY <1>2 DEF TakeStock, At, Step
  <2>2. task[p].op = "commit"
    <3>1. Placing(task[p]) /\ task[p].op \in Ops /\ Serves(p)
      BY <1>0, TaskRecords DEF ServesInv, TasksPlaced, Task
    <3>2. QED
      BY <2>1, <3>1 DEF Placing, Serves, Ops, ReserveSteps, SyncSteps
  <2>3. CASE task' = [task EXCEPT ![p].pc = "takeStatus", ![p].view = qty[RowOf(p)] - UnitsOf(p)]
    <3>1. task'[p].pc = "takeStatus" /\ task'[p].i = task[p].i
      BY <1>0, <2>3, ReadEffect
    <3>2. QED
      BY <1>2, <2>1, <2>2, <3>1 DEF TakeStock
  <2>4. QED
    BY <1>2, <2>3 DEF TakeStock
<1>3. ASSUME NEW p \in Proc, Return(p) \/ Crash(p) \/ StoreFails(p) \/ Caller(p)
      PROVE  UNCHANGED <<qty, taken>>
  BY <1>3 DEF Return, Crash, StoreFails, Caller, CallReserve, CallCommit, CallRelease, Sweep,
     CallSell, CallRestock, Call, stores, history
<1>4. CASE [Next]_vars
  BY <1>1, <1>2, <1>3, <1>4 DEF Next, Tick, LockExpires, vars, stores, history
<1>5. QED
  BY <1>4, StepBelow DEF CountsFault, StartsBelow, stores, history

(* A handler that has claimed the order has taken this line itself, or need *)
(* not take it any more.                                                    *)
HasTaken(p, k) ==
  flow[p].at = "committing" =>
    /\ task[p].pc \notin {"load", "claim", "raised"}
    /\ task[p].pc = "take" => k < task[p].i
    /\ task[p].pc = "takeStatus" => k <= task[p].i

TakenOnce(o, k) ==
  /\ taken[o][k] \in {0, 1}
  /\ taken[o][k] = 1 => saved[o] = "done" \/ \E p \in Proc : Claims(p, o) /\ HasTaken(p, k)

TakenInv ==
  Uncut => \A o \in Order : Short(o) \/ \A k \in 1 .. Len(Lines[o]) : TakenOnce(o, k)

Recording == {"enrich", "resolve", "finish"}

LedgerInv ==
  Uncut => \A o \in Order :
    /\ ledger[o] <= 1
    /\ ledger[o] = 1 => saved[o] = "done" \/ \E p \in Proc : On(p) = o /\ flow[p].at \in Recording

LEMMA ShortStays ==
  ASSUME OrderInv, ServesInv, OrderNext, NEW o \in Order, Short(o)
  PROVE  Short(o)'
<1>0. TypeOK
  BY DEF OrderInv, Below
<1>1. PICK k \in 1 .. Len(Lines[o]) : taken[o][k] = 0 /\ qty[Lines[o][k].row] < Lines[o][k].n
  BY <1>0 DEF Short, TypeOK
<1>2. Lines[o][k] \in Line /\ Len(Lines[o]) \in Nat
  <2>1. Lines[o] \in Seq(Line)
    BY DEF Line
  <2>2. QED
    BY <2>1
<1>3. ASSUME UNCHANGED <<qty, taken>>
      PROVE  Short(o)'
  BY <1>0, <1>1, <1>3 DEF Short, TypeOK
<1>4. ASSUME NEW p \in Proc, task[p].op = "commit", task[p].pc = "take",
             qty[RowOf(p)] >= UnitsOf(p),
             qty' = [qty EXCEPT ![RowOf(p)] = @ - UnitsOf(p)],
             taken' = [taken EXCEPT ![OrderOf(p)][task[p].i] = @ + 1]
      PROVE  Short(o)'
  <2>1. /\ OrderOf(p) \in Order /\ task[p].i \in 1 .. Len(Lines[OrderOf(p)])
        /\ RowOf(p) \in Row /\ UnitsOf(p) \in Nat
    BY <1>0, <1>4, LineOfTask DEF LineSteps
  <2>2. qty'[Lines[o][k].row] <= qty[Lines[o][k].row]
    <3>1. Lines[o][k].row \in Row /\ qty[Lines[o][k].row] \in Int /\ qty[RowOf(p)] \in Int
      BY <1>0, <1>2, <2>1 DEF Line, TypeOK
    <3>2. qty'[Lines[o][k].row] = IF Lines[o][k].row = RowOf(p) THEN qty[RowOf(p)] - UnitsOf(p)
                                  ELSE qty[Lines[o][k].row]
      BY <1>0, <1>4, <3>1 DEF TypeOK
    <3>3. QED
      BY <2>1, <3>1, <3>2
  <2>3. ~(OrderOf(p) = o /\ task[p].i = k)
    <3>1. SUFFICES ASSUME OrderOf(p) = o, task[p].i = k PROVE FALSE
      OBVIOUS
    <3>2. qty[Lines[o][k].row] >= Lines[o][k].n
      BY <1>4, <3>1 DEF RowOf, UnitsOf
    <3>3. qty[Lines[o][k].row] \in Int /\ Lines[o][k].n \in Nat
      BY <1>0, <1>2 DEF Line, TypeOK
    <3>4. QED
      BY <1>1, <3>2, <3>3
  <2>4. taken'[o][k] = 0 /\ DOMAIN taken'[o] = 1 .. Len(Lines[o])
    <3>1. taken[o] \in [1 .. Len(Lines[o]) -> Int] /\ DOMAIN taken = Order
      BY <1>0 DEF TypeOK
    <3>2. CASE OrderOf(p) = o
      <4>1. taken'[o] = [taken[o] EXCEPT ![task[p].i] = @ + 1]
        BY <1>4, <3>1, <3>2
      <4>2. task[p].i # k
        BY <2>3, <3>2
      <4>3. QED
        BY <1>1, <3>1, <4>1, <4>2
    <3>3. CASE OrderOf(p) # o
      <4>1. taken'[o] = taken[o]
        BY <1>4, <3>1, <3>3
      <4>2. QED
        BY <1>1, <3>1, <4>1
    <3>4. QED
      BY <3>2, <3>3
  <2>5. qty'[Lines[o][k].row] < Lines[o][k].n
    <3>1. /\ qty[Lines[o][k].row] \in Int /\ qty'[Lines[o][k].row] \in Int /\ Lines[o][k].n \in Nat
      <4>1. Lines[o][k].row \in Row /\ Lines[o][k].n \in Nat
        BY <1>2 DEF Line
      <4>2. TypeOK'
        BY OrderInvInductive DEF OrderInv, Below
      <4>3. QED
        BY <1>0, <4>1, <4>2 DEF TypeOK
    <3>2. QED
      BY <1>1, <2>2, <3>1
  <2>6. QED
    BY <1>1, <2>4, <2>5 DEF Short
<1>5. QED
  BY <1>3, <1>4, WhoTakes

(* A commit past its lines' stock does not come back to them. *)
LEMMA PastTaking ==
  ASSUME TypeOK, NEW p \in Proc, Step(p), task[p].op = "commit",
         task[p].pc \notin {"load", "claim", "take", "takeStatus"}
  PROVE  task'[p].pc \notin {"load", "claim", "take", "takeStatus"}
<1>1. ASSUME NEW pc, Goto(p, pc)
      PROVE  task'[p].pc = pc
  BY <1>1, GotoEffect
<1>2. ASSUME NEW loop, NEW exit, NextLine(p, loop, exit)
      PROVE  task'[p].pc \in {loop, exit}
  BY <1>2, NextLineEffect
<1>3. ASSUME NEW done, Undo(p, done)
      PROVE  task'[p].pc \in {"delKey", "decr"}
  BY <1>3, UndoEffect DEF Undoes
<1>4. ASSUME NEW pc, NEW v, task' = [task EXCEPT ![p].pc = pc, ![p].view = v]
      PROVE  task'[p].pc = pc
  BY <1>4, ReadEffect
<1>5. CASE ReadStock(p) \/ SyncQty(p) \/ SyncPending(p)
  BY <1>4, <1>5 DEF ReadStock, SyncQty, SyncPending
<1>6. CASE AcquireLock(p) \/ CheckAvailable(p) \/ CountHold(p) \/ ReleaseLock(p)
  BY <1>1, <1>2, <1>3, <1>6 DEF AcquireLock, CheckAvailable, CountHold, ReleaseLock
<1>7. CASE WriteKey(p) \/ WriteMirror(p) \/ SyncStatus(p)
  BY <1>1, <1>2, <1>7 DEF WriteKey, WriteMirror, SyncStatus
<1>8. CASE DecrPending(p) \/ DropPending(p)
  BY <1>1, <1>2, <1>8, SMTT(30) DEF DecrPending, DropPending, AfterAdjust
<1>9. CASE DeleteKey(p) \/ ResolveMirror(p) \/ PutBack(p)
  BY <1>1, <1>2, <1>9 DEF DeleteKey, ResolveMirror, PutBack
<1>10. QED
  BY <1>5, <1>6, <1>7, <1>8, <1>9 DEF Step, LoadReservation, ClaimMirror, TakeStock, TakeStatus, At

(* What a handler has taken it goes on having taken, until the order is     *)
(* done or a line was short.                                                *)
LEMMA HasTakenStays ==
  ASSUME OrderInv, ServesInv, OrderNext, faults' = 0, NEW o \in Order, NEW p \in Proc, Claims(p, o),
         NEW k \in Nat, HasTaken(p, k)
  PROVE  \/ saved'[o] = "done"
         \/ Claims(p, o)' /\ HasTaken(p, k)'
         \/ /\ task[p].op = "commit" /\ task[p].pc = "take" /\ task'[p].pc = "raised"
            /\ qty[RowOf(p)] < UnitsOf(p) /\ UNCHANGED <<qty, taken>>
<1>0. TypeOK /\ flow[p].at \in ClaimedPlaces /\ On(p) = o
  BY DEF Claims, OrderInv, Below
<1>1. CASE flow'[p] = flow[p] /\ task'[p] = task[p]
  BY <1>1 DEF Claims, HasTaken, On
<1>2. CASE flow'[p] = flow[p] /\ Step(p)
  <2>1. Claims(p, o)'
    BY <1>2 DEF Claims, On
  <2>2. CASE flow[p].at # "committing"
    BY <1>2, <2>1, <2>2 DEF HasTaken
  <2>3. CASE flow[p].at = "committing"
    <3>1. Placing(task[p]) /\ task[p].op = "commit" /\ task[p].pc \notin {"load", "claim", "raised"}
      BY <2>3 DEF ServesInv, TasksPlaced, Serves, HasTaken
    <3>2. CASE task'[p].pc = "raised"
      BY <1>0, <1>2, <3>1, <3>2, RaisesOnly
    <3>3. CASE task[p].pc = "take" /\ task'[p].pc # "raised"
      <4>1. TakeStock(p)
        BY <1>2, <3>3 DEF Step, At, ReadStock, AcquireLock, CheckAvailable, CountHold, ReleaseLock,
           WriteKey, WriteMirror, SyncQty, SyncPending, SyncStatus, LoadReservation, ClaimMirror,
           TakeStatus, DecrPending, DropPending, DeleteKey, ResolveMirror, PutBack
      <4>2. ~Goto(p, "raised")
        BY <1>0, <3>3, GotoEffect
      <4>3. task'[p].pc = "takeStatus" /\ task'[p].i = task[p].i
        BY <1>0, <4>1, <4>2, ReadEffect DEF TakeStock
      <4>4. k < task[p].i /\ task[p].i \in Nat
        BY <1>0, <2>3, <3>3, TaskRecords DEF HasTaken, Task
      <4>5. QED
        BY <2>1, <4>3, <4>4 DEF HasTaken
    <3>4. CASE task[p].pc = "takeStatus" /\ task'[p].pc # "raised"
      <4>1. TakeStatus(p)
        BY <1>2, <3>4 DEF Step, At, ReadStock, AcquireLock, CheckAvailable, CountHold, ReleaseLock,
           WriteKey, WriteMirror, SyncQty, SyncPending, SyncStatus, LoadReservation, ClaimMirror,
           TakeStock, DecrPending, DropPending, DeleteKey, ResolveMirror, PutBack
      <4>2. NextLine(p, "take", "decr")
        BY <3>1, <4>1 DEF TakeStatus
      <4>3. \/ task'[p].pc = "take" /\ task'[p].i = task[p].i + 1
            \/ task'[p].pc = "decr"
        BY <1>0, <4>2, NextLineTurns DEF Turns
      <4>4. k <= task[p].i /\ task[p].i \in Nat
        BY <1>0, <2>3, <3>4, TaskRecords DEF HasTaken, Task
      <4>5. QED
        BY <2>1, <4>3, <4>4 DEF HasTaken
    <3>5. CASE task[p].pc \notin {"take", "takeStatus"} /\ task'[p].pc # "raised"
      <4>1. task'[p].pc \notin {"load", "claim", "take", "takeStatus"}
        BY <1>0, <1>2, <3>1, <3>5, PastTaking
      <4>2. QED
        BY <2>1, <3>5, <4>1 DEF HasTaken
    <3>6. QED
      BY <3>2, <3>3, <3>4, <3>5
  <2>4. QED
    BY <2>2, <2>3
<1>3. CASE /\ flow[p].at = "committing" /\ On(p)' = On(p)
           /\ task[p].pc = "ok" /\ flow'[p].at = "snapshot"
  BY <1>0, <1>3 DEF Claims, ClaimedPlaces, HasTaken
<1>4. CASE flow[p].at = "committing" /\ task[p].pc = "raised"
  BY <1>4 DEF HasTaken
<1>5. CASE /\ flow[p].at \in {"snapshot", "record", "enrich", "resolve"} /\ On(p)' = On(p)
           /\ flow'[p].at = Following[flow[p].at]
  BY <1>0, <1>5 DEF Following, Claims, ClaimedPlaces, HasTaken
<1>6. CASE flow[p].at = "finish" /\ saved'[On(p)] = "done"
  BY <1>0, <1>6
<1>7. QED
  BY <1>0, <1>1, <1>2, <1>3, <1>4, <1>5, <1>6, ClaimantGoesOn DEF GoesOnClaiming

-----------------------------------------------------------------------------
LEMMA TakenInductive ==
  ASSUME OrderInv, ServesInv, OrderNext, TakenInv
  PROVE  TakenInv'
<1>0. TypeOK /\ TypeOK' /\ OrderTypeOK
  BY OrderInvInductive DEF OrderInv, Below
<1> SUFFICES ASSUME Uncut', NEW o \in Order, ~Short(o)', NEW k \in 1 .. Len(Lines[o])
             PROVE  TakenOnce(o, k)'
  BY DEF TakenInv
<1>1. faults' = 0 /\ Calm /\ Uncut
  BY NothingFailed DEF Uncut, Calm
<1>2. ~Short(o) /\ \A j \in 1 .. Len(Lines[o]) : TakenOnce(o, j)
  BY <1>1, ShortStays DEF TakenInv
<1>3. ASSUME NEW p \in Proc, Claims(p, o)
      PROVE  saved[o] = "in_progress" /\ flow[p].at \in ClaimedPlaces /\ On(p) = o
  BY <1>1, <1>3, PlaceFits DEF Claims, CalledFor
<1>4. ASSUME NEW p \in Proc, NEW q \in Proc, Claims(p, o), Claims(q, o)
      PROVE  p = q
  BY <1>1, <1>3, <1>4 DEF OrderInv, Alone
(* Whoever had taken the line still has, or the order is done. *)
<1>5. ASSUME NEW p \in Proc, Claims(p, o), HasTaken(p, k), taken'[o][k] = taken[o][k]
      PROVE  saved'[o] = "done" \/ (Claims(p, o)' /\ HasTaken(p, k)')
  <2>0. k \in Nat
    <3>1. Lines[o] \in Seq(Line)
      BY DEF Line
    <3>2. QED
      BY <3>1
  <2>1. SUFFICES ASSUME task[p].op = "commit", task[p].pc = "take",
                        qty[RowOf(p)] < UnitsOf(p), UNCHANGED <<qty, taken>>
                 PROVE  FALSE
    BY <1>1, <1>5, <2>0, HasTakenStays
  <2>2. OrderOf(p) = o /\ task[p].i \in 1 .. Len(Lines[o]) /\ flow[p].at = "committing"
    <3>1. flow[p].at = "committing" /\ OrderOf(p) = On(p)
      BY <2>1 DEF ServesInv, Serves, Awaiting
    <3>2. OrderOf(p) = o
      BY <1>3, <1>5, <3>1
    <3>3. QED
      BY <1>0, <2>1, <3>1, <3>2, LineOfTask DEF LineSteps
  <2>3. TakenOnce(o, task[p].i)
    BY <1>2, <2>2
  <2>4. taken[o][task[p].i] # 0
    <3>1. SUFFICES ASSUME taken[o][task[p].i] = 0
                   PROVE  Short(o)'
      OBVIOUS
    <3>2. DOMAIN taken'[o] = 1 .. Len(Lines[o])
      BY <1>0 DEF TypeOK
    <3>3. qty'[Lines[o][task[p].i].row] < Lines[o][task[p].i].n /\ taken'[o][task[p].i] = 0
      BY <2>1, <2>2, <3>1 DEF RowOf, UnitsOf
    <3>4. QED
      BY <2>2, <3>2, <3>3 DEF Short
  <2>5. PICK q \in Proc : Claims(q, o) /\ HasTaken(q, task[p].i)
    BY <1>3, <1>5, <2>3, <2>4 DEF TakenOnce
  <2>6. task[p].i < task[p].i /\ task[p].i \in Nat
    <3>1. q = p
      BY <1>4, <1>5, <2>5
    <3>2. task[p].i \in Nat
      BY <1>0, TaskRecords DEF Task
    <3>3. QED
      BY <2>1, <2>2, <2>5, <3>1, <3>2 DEF HasTaken
  <2>7. QED
    BY <2>6
<1>6. ASSUME taken'[o][k] = taken[o][k]
      PROVE  TakenOnce(o, k)'
  <2>1. TakenOnce(o, k)
    BY <1>2
  <2>2. CASE taken[o][k] # 1
    BY <1>6, <2>1, <2>2 DEF TakenOnce
  <2>3. CASE taken[o][k] = 1 /\ saved[o] = "done"
    BY <1>6, <2>1, <2>3, DoneStays DEF TakenOnce
  <2>4. CASE taken[o][k] = 1 /\ \E p \in Proc : Claims(p, o) /\ HasTaken(p, k)
    BY <1>5, <1>6, <2>1, <2>4 DEF TakenOnce
  <2>5. QED
    BY <2>1, <2>2, <2>3, <2>4 DEF TakenOnce
(* The handler that takes the line is the one that holds the claim. *)
<1>7. ASSUME NEW p \in Proc, task[p].op = "commit", task[p].pc = "take", Step(p),
             task'[p].pc = "takeStatus", task'[p].i = task[p].i,
             taken' = [taken EXCEPT ![OrderOf(p)][task[p].i] = @ + 1],
             OrderOf(p) = o, task[p].i = k
      PROVE  TakenOnce(o, k)'
  <2>1. flow[p].at = "committing" /\ On(p) = o
    BY <1>7 DEF ServesInv, Serves, Awaiting
  <2>2. Claims(p, o)
    BY <2>1 DEF Claims, ClaimedPlaces
  <2>3. taken[o][k] = 0
    <3>1. SUFFICES ASSUME taken[o][k] = 1 PROVE FALSE
      BY <1>2 DEF TakenOnce
    <3>2. PICK q \in Proc : Claims(q, o) /\ HasTaken(q, k)
      BY <1>2, <1>3, <2>2, <3>1 DEF TakenOnce
    <3>3. q = p
      BY <1>4, <2>2, <3>2
    <3>4. QED
      BY <1>7, <2>1, <3>2, <3>3 DEF HasTaken
  <2>4. taken'[o][k] = 1
    BY <1>0, <1>7, <2>3 DEF TypeOK
  <2>5. flow'[p] = flow[p]
    <3>1. flow[p].at = "committing" /\ task[p].pc \notin {"ok", "raised"} /\ task'[p] # task[p]
      BY <1>7, <2>1
    <3>2. flow[p].at \in ClaimedPlaces
      BY <2>1 DEF ClaimedPlaces
    <3>3. QED
      BY <1>1, <3>1, <3>2, ClaimantGoesOn DEF GoesOnClaiming
  <2>6. Claims(p, o)' /\ HasTaken(p, k)'
    BY <1>7, <2>2, <2>5 DEF Claims, HasTaken, On
  <2>7. QED
    BY <2>4, <2>6 DEF TakenOnce
<1>8. QED
  <2>1. CASE UNCHANGED <<qty, taken>>
    BY <1>6, <2>1
  <2>2. ASSUME NEW p \in Proc, task[p].op = "commit", task[p].pc = "take", Step(p),
               task'[p].pc = "takeStatus", task'[p].i = task[p].i,
               taken' = [taken EXCEPT ![OrderOf(p)][task[p].i] = @ + 1]
        PROVE  TakenOnce(o, k)'
    <3>1. CASE OrderOf(p) = o /\ task[p].i = k
      BY <1>7, <2>2, <3>1
    <3>2. CASE ~(OrderOf(p) = o /\ task[p].i = k)
      <4>1. taken'[o][k] = taken[o][k]
        BY <1>0, <2>2, <3>2 DEF TypeOK
      <4>2. QED
        BY <1>6, <4>1
    <3>3. QED
      BY <3>1, <3>2
  <2>3. QED
    BY <2>1, <2>2, WhoTakes

LEMMA WhoRecords ==
  ASSUME OrderInv, OrderNext, NEW o \in Order, ledger'[o] # ledger[o]
  PROVE  \E p \in Proc : Record(p) /\ On(p) = o
<1>1. ASSUME NEW p \in Proc, Record(p)
      PROVE  On(p) = o
  BY <1>1 DEF Record, OrderInv, OrderTypeOK
<1>2. ASSUME NEW p \in Proc, FlowStep(p)
      PROVE  Record(p)
  BY <1>2 DEF FlowStep, Reserved, Stash, CreateGatewayOrder, StashId, RecordAttempt, FindOrder,
     LoadStash, Recheck, LoadAttempt, VerifyAmount, Upsert, Reread, ConvertCart, Claim, Committed,
     WriteSnapshot, Enrich, MarkResolved, Finish, Cleared, Unstash, MatchPayments, MarkDone, Answer,
     documents
<1>3. ASSUME NEW p \in Proc, Acts(p)
      PROVE  FlowStep(p)
  BY <1>3 DEF Acts, InventoryStep, FlowCaller, InitiateOrder, VerifyPayment, Deliver,
     CronReconcile, ListPending, Completes, SweepEnds, SweepStarts, HandlerDies, OperationFails,
     FlowFails, documents
<1>4. ASSUME NEW a \in Order, Pay(a) \/ Webhook(a) \/ StashExpires(a) \/ ClaimAges(a) \/ TimePasses(a)
      PROVE  FALSE
  BY <1>4 DEF Pay, Webhook, StashExpires, ClaimAges, TimePasses, documents
<1>5. ASSUME NEW r \in Row, LockAges(r)
      PROVE  FALSE
  BY <1>5 DEF LockAges, documents
<1>6. QED
  BY <1>1, <1>2, <1>3, <1>4, <1>5 DEF OrderNext, Acts

LEMMA LedgerInductive ==
  ASSUME OrderInv, OrderNext, LedgerInv
  PROVE  LedgerInv'
<1> SUFFICES ASSUME Uncut', NEW o \in Order
             PROVE  /\ ledger'[o] <= 1
                    /\ ledger'[o] = 1 => \/ saved'[o] = "done"
                                        \/ \E p \in Proc : (On(p) = o /\ flow[p].at \in Recording)'
  BY DEF LedgerInv
<1>1. faults' = 0 /\ Calm /\ Uncut
  BY NothingFailed DEF Uncut, Calm
<1>2. /\ ledger[o] <= 1 /\ ledger[o] \in Nat
      /\ ledger[o] = 1 => saved[o] = "done" \/ \E p \in Proc : On(p) = o /\ flow[p].at \in Recording
  BY <1>1 DEF LedgerInv, OrderInv, OrderTypeOK
<1>3. CASE ledger'[o] = ledger[o]
  <2>1. ASSUME NEW p \in Proc, On(p) = o, flow[p].at \in Recording
        PROVE  saved'[o] = "done" \/ (On(p) = o /\ flow[p].at \in Recording)'
    <3>1. flow[p].at \in ClaimedPlaces /\ flow[p].at # "committing"
      BY <2>1 DEF Recording, ClaimedPlaces
    <3>2. GoesOnClaiming(p)
      BY <1>1, <3>1, ClaimantGoesOn
    <3>3. QED
      BY <2>1, <3>1, <3>2 DEF GoesOnClaiming, Following, Recording, On
  <2>2. QED
    BY <1>2, <1>3, <2>1, DoneStays
<1>4. ASSUME NEW p \in Proc, Record(p), On(p) = o
      PROVE  ledger'[o] = 1 /\ On(p)' = o /\ flow'[p].at = "enrich"
  <2>1. flow[p].at = "record" /\ saved[o] = "in_progress" /\ flow[p] \in Flow
    BY <1>1, <1>4, PlaceFits DEF Record, Sits, CalledFor, ClaimedPlaces
  <2>2. ledger[o] # 1
    <3>1. SUFFICES ASSUME ledger[o] = 1 PROVE FALSE
      OBVIOUS
    <3>2. PICK q \in Proc : On(q) = o /\ flow[q].at \in Recording
      BY <1>2, <2>1, <3>1
    <3>3. q = p
      BY <1>1, <1>4, <2>1, <3>2 DEF OrderInv, Alone, Recording, ClaimedPlaces
    <3>4. QED
      BY <2>1, <3>2, <3>3 DEF Recording
  <2>3. ledger' = [ledger EXCEPT ![o] = @ + 1] /\ Goes(p, "enrich")
    BY <1>4 DEF Record
  <2>4. ledger[o] = 0
    BY SMTT(30), <1>2, <2>2
  <2>5. ledger'[o] = 1
    BY <2>3, <2>4 DEF OrderInv, OrderTypeOK
  <2>6. On(p)' = o /\ flow'[p].at = "enrich"
    BY <1>4, <2>1, <2>3 DEF Goes, On, OrderInv, OrderTypeOK, Flow
  <2>7. QED
    BY <2>5, <2>6
<1>5. ASSUME ledger'[o] # ledger[o]
      PROVE  \E p \in Proc : Record(p) /\ On(p) = o
  BY <1>5, WhoRecords
<1>6. QED
  BY <1>3, <1>4, <1>5 DEF Recording

OnceInv == ServesInv /\ TakenInv /\ LedgerInv

LEMMA OnceInitFits == OrderInit => OnceInv
<1> SUFFICES ASSUME OrderInit PROVE OnceInv
  OBVIOUS
<1>1. TasksPlaced
  BY DEF OrderInit, Init, TasksPlaced, Placing, Idle
<1>2. \A p \in Proc : Serves(p)
  BY DEF OrderInit, Init, Serves, Idle, NoFlow, Awaiting
<1>3. TakenInv
  BY DEF OrderInit, Init, TakenInv, TakenOnce
<1>4. LedgerInv
  BY DEF OrderInit, LedgerInv
<1>5. QED
  BY <1>1, <1>2, <1>3, <1>4 DEF OnceInv, ServesInv

LEMMA OnceInvCorrect == OrderSpec => []OnceInv
<1>1. OrderInv /\ OnceInv /\ [OrderNext]_orderVars => OnceInv'
  <2> SUFFICES ASSUME OrderInv, OnceInv, [OrderNext]_orderVars
               PROVE  OnceInv'
    OBVIOUS
  <2>1. CASE OrderNext
    BY <2>1, ServesInductive, TakenInductive, LedgerInductive DEF OnceInv
  <2>2. CASE UNCHANGED orderVars
    <3>1. ServesInv'
      BY <2>2 DEF orderVars, vars, env, OnceInv, ServesInv, TasksPlaced, Placing, Serves, OrderOf, On
    <3>2. TakenInv'
      BY <2>2 DEF orderVars, vars, stores, env, history, documents, OnceInv, TakenInv, Uncut, Short,
         TakenOnce, Claims, HasTaken, On
    <3>3. LedgerInv'
      BY <2>2 DEF orderVars, vars, env, documents, OnceInv, LedgerInv, Uncut, On
    <3>4. QED
      BY <3>1, <3>2, <3>3 DEF OnceInv
  <2>3. QED
    BY <2>1, <2>2
<1>2. QED
  BY <1>1, OnceInitFits, OrderInvCorrect, PTL DEF OrderSpec

(* What completes an order happens once, for any number of callers and     *)
(* handlers, any carts and any stock: as long as no handler outlives its    *)
(* claim and until one is cut off or a command fails, its payment is in the *)
(* ledger once and its units leave the stock once, unless it is short.      *)
THEOREM CompletedOnce ==
  ASSUME Calm
  PROVE  OrderSpec => []EffectsOnceUnlessCut
<1>1. OrderInv /\ OnceInv => EffectsOnceUnlessCut
  <2> SUFFICES ASSUME OrderInv, OnceInv, faults = 0, NEW o \in Order
               PROVE  /\ ledger[o] <= 1
                      /\ Short(o) \/ \A k \in DOMAIN taken[o] : taken[o][k] <= 1
    BY DEF EffectsOnceUnlessCut
  <2>1. Uncut
    BY DEF Uncut
  <2>2. ledger[o] <= 1
    BY <2>1 DEF OnceInv, LedgerInv
  <2>3. Short(o) \/ \A k \in 1 .. Len(Lines[o]) : taken[o][k] \in {0, 1}
    BY <2>1 DEF OnceInv, TakenInv, TakenOnce
  <2>4. DOMAIN taken[o] = 1 .. Len(Lines[o])
    BY DEF OrderInv, Below, TypeOK
  <2>5. QED
    BY <2>2, <2>3, <2>4
<1>2. QED
  BY <1>1, OrderInvCorrect, OnceInvCorrect, PTL

-----------------------------------------------------------------------------
(* The durable mirror of an order, under OrderService *)

(* Where initiate_order is once reserve_for_order has returned. *)
ReservedPlaces == {"stash", "gateway", "stashId", "attempt", "answered"}

MirrorFits ==
  /\ \A p \in Proc :
       /\ task[p].op = "reserve" => (task[p].pc = "ok" <=> mirror[OrderOf(p)] # "none")
       /\ task[p].op \in {"commit", "release"} => mirror[OrderOf(p)] # "none"
       /\ flow[p].at \in ReservedPlaces => mirror[On(p)] # "none"
  /\ \A o \in Order :
       /\ attempt[o] # "none" \/ age[o] # "fresh" => mirror[o] # "none"
       /\ checkout[o] = "new" => mirror[o] = "none"

LEMMA MirrorStays ==
  ASSUME OrderInv, OrderNext, NEW o \in Order, mirror[o] # "none"
  PROVE  mirror'[o] # "none"
<1>1. CASE [Next]_vars
  <2>1. SUFFICES ASSUME mirror'[o] # mirror[o] PROVE mirror'[o] # "none"
    OBVIOUS
  <2>2. PICK p \in Proc : OrderOf(p) = o /\ (ResolveMirror(p) \/ ClaimMirror(p)) /\ mirror[o] = "reserved"
    BY <1>1, <2>1, MirrorWrites DEF OrderInv, Below
  <2>3. QED
    BY <2>1, <2>2 DEF ResolveMirror, ClaimMirror, Resolution, OrderInv, Below, TypeOK
<1>2. CASE UNCHANGED mirror
  BY <1>2
<1>3. QED
  BY <1>1, <1>2, StepBelow DEF CountsFault, StartsBelow, stores

(* A handler that reserves is initiate_order's, and the only one. *)
LEMMA ReserverFits ==
  ASSUME OrderInv, ServesInv, NEW p \in Proc, task[p].op = "reserve"
  PROVE  /\ flow[p].at = "reserving" /\ OrderOf(p) = On(p) /\ On(p) \in Order
         /\ flow[p].source = "initiate" /\ checkout[On(p)] # "new"
         /\ \A q \in Proc : task[q].op = "reserve" /\ OrderOf(q) = OrderOf(p) => q = p
<1>1. \A q \in Proc : task[q].op = "reserve" =>
        /\ flow[q].at = "reserving" /\ OrderOf(q) = On(q) /\ On(q) \in Order
        /\ flow[q].source = "initiate" /\ checkout[On(q)] # "new"
  BY PlaceFits DEF ServesInv, Serves, Awaiting, MayBe, CalledFor, InitiatePlaces
<1>2. "initiate" \in Sole
  BY DEF Sole
<1>3. QED
  BY <1>1, <1>2 DEF OrderInv, Alone

LEMMA WriterReserves ==
  ASSUME OrderInv, NEW p \in Proc, WriteMirror(p)
  PROVE  task[p].op = "reserve"
BY DEF WriteMirror, At, OrderInv, Below, PlaceOK, ReserveSteps

LEMMA MirrorAppears ==
  ASSUME OrderInv, OrderNext, NEW o \in Order, mirror[o] = "none", mirror'[o] # "none"
  PROVE  \E p \in Proc : OrderOf(p) = o /\ WriteMirror(p)
<1>1. CASE [Next]_vars
  BY <1>1, MirrorWrites DEF OrderInv, Below
<1>2. CASE UNCHANGED mirror
  BY <1>2
<1>3. QED
  BY <1>1, <1>2, StepBelow DEF CountsFault, StartsBelow, stores

(* reserve_for_order returns once it has written the mirror. *)
LEMMA ReservesByMirror ==
  ASSUME TypeOK, TasksPlaced, NEW p \in Proc, Step(p) \/ StoreFails(p), task[p].op = "reserve",
         task'[p].op = "reserve", task'[p].pc = "ok"
  PROVE  WriteMirror(p)
<1>0. Placing(task[p])
  BY DEF TasksPlaced
<1>1. ASSUME NEW pc, Goto(p, pc)
      PROVE  task'[p].pc = pc
  BY <1>1, GotoEffect
<1>2. ASSUME NEW loop, NEW exit, NextLine(p, loop, exit)
      PROVE  task'[p].pc \in {loop, exit}
  BY <1>2, NextLineEffect
<1>3. ASSUME NEW done, Undo(p, done)
      PROVE  FALSE
  BY <1>3, UndoEffect DEF Undoes
<1>4. ASSUME NEW pc, NEW v, task' = [task EXCEPT ![p].pc = pc, ![p].view = v]
      PROVE  task'[p].pc = pc
  BY <1>4, ReadEffect
<1>5. CASE StoreFails(p)
  BY <1>1, <1>2, <1>3, <1>5 DEF StoreFails
<1>6. CASE ReadStock(p) \/ SyncQty(p) \/ SyncPending(p)
  BY <1>4, <1>6 DEF ReadStock, SyncQty, SyncPending
<1>7. CASE AcquireLock(p) \/ CheckAvailable(p) \/ CountHold(p) \/ ReleaseLock(p)
  BY <1>1, <1>2, <1>3, <1>7 DEF AcquireLock, CheckAvailable, CountHold, ReleaseLock
<1>8. CASE WriteKey(p) \/ SyncStatus(p)
  BY <1>1, <1>2, <1>8 DEF WriteKey, SyncStatus
<1>9. ~(LoadReservation(p) \/ ClaimMirror(p) \/ TakeStock(p) \/ TakeStatus(p) \/ DecrPending(p)
        \/ DropPending(p) \/ DeleteKey(p) \/ ResolveMirror(p) \/ PutBack(p))
  BY <1>0 DEF Placing, ReserveSteps, SyncSteps, At, LoadReservation, ClaimMirror, TakeStock,
     TakeStatus, DecrPending, DropPending, DeleteKey, ResolveMirror, PutBack
<1>10. QED
  BY <1>5, <1>6, <1>7, <1>8, <1>9 DEF Step

(* Where a handler stands with the mirror, step by step. *)
StandsBy(p) ==
  /\ task[p].op = "reserve" => (task[p].pc = "ok" <=> mirror[OrderOf(p)] # "none")
  /\ task[p].op \in {"commit", "release"} => mirror[OrderOf(p)] # "none"
  /\ flow[p].at \in ReservedPlaces => mirror[On(p)] # "none"

LEMMA StoodBy ==
  ASSUME OrderInv, ServesInv, NEW p \in Proc
  PROVE  /\ task[p].op \notin {"none", "sell", "restock"} => OrderOf(p) \in Order
         /\ flow[p].at \in ReservedPlaces => On(p) \in Order
<1>1. Placing(task[p]) /\ TypeOK
  BY DEF ServesInv, TasksPlaced, OrderInv, Below
<1>2. task[p].op \notin {"none", "sell", "restock"} => task[p].pc # "idle"
  BY <1>1, TaskRecords DEF Placing, Task, Ops, ReserveSteps, SyncSteps
<1>3. QED
  BY <1>1, <1>2, PlaceFits, OrderOfTask DEF ReservedPlaces, OrderOf, At

(* A handler that stays where it is, while others move. *)
LEMMA StandsStill ==
  ASSUME OrderInv, ServesInv, MirrorFits, OrderNext, NEW q \in Proc,
         task'[q] = task[q], flow'[q] = flow[q]
  PROVE  StandsBy(q)'
<1>1. StandsBy(q)
  BY DEF MirrorFits, StandsBy
<1>2. OrderOf(q)' = OrderOf(q) /\ On(q)' = On(q)
  BY DEF OrderOf, On
<1>3. ASSUME task[q].op = "reserve", task[q].pc # "ok"
      PROVE  mirror'[OrderOf(q)] = "none"
  <2>1. OrderOf(q) \in Order /\ mirror[OrderOf(q)] = "none"
    BY <1>1, <1>3, ReserverFits DEF StandsBy
  <2>2. SUFFICES ASSUME mirror'[OrderOf(q)] # "none" PROVE FALSE
    OBVIOUS
  <2>3. PICK p \in Proc : OrderOf(p) = OrderOf(q) /\ WriteMirror(p)
    BY <2>1, <2>2, MirrorAppears
  <2>4. p = q
    BY <1>3, <2>3, WriterReserves, ReserverFits
  <2>5. task'[q].pc = "ok"
    <3>1. Goto(q, "ok")
      BY <2>3, <2>4 DEF WriteMirror
    <3>2. QED
      BY <3>1, GotoEffect DEF OrderInv, Below
  <2>6. QED
    BY <1>3, <2>5
<1>4. ASSUME NEW o \in Order, mirror[o] # "none"
      PROVE  mirror'[o] # "none"
  BY <1>4, MirrorStays
<1>5. task[q].op = "reserve" => (task[q].pc = "ok" <=> mirror'[OrderOf(q)] # "none")
  BY <1>1, <1>3, <1>4, StoodBy DEF StandsBy
<1>6. /\ task[q].op \in {"commit", "release"} => mirror'[OrderOf(q)] # "none"
      /\ flow[q].at \in ReservedPlaces => mirror'[On(q)] # "none"
  BY <1>1, <1>4, StoodBy DEF StandsBy
<1>7. QED
  BY <1>2, <1>5, <1>6 DEF StandsBy

LEMMA StandsAfterStep ==
  ASSUME OrderInv, ServesInv, MirrorFits, OrderNext, NEW a \in Proc,
         Step(a) \/ StoreFails(a), flow'[a] = flow[a]
  PROVE  StandsBy(a)'
<1>0. TypeOK /\ PlaceOK /\ TasksPlaced
  BY DEF OrderInv, Below, ServesInv
<1>1. StandsBy(a)
  BY DEF MirrorFits, StandsBy
<1>2. /\ \/ task'[a].op = task[a].op
         \/ task[a].op = "reserve" /\ task'[a].op = "undo"
      /\ OrderOf(a)' = OrderOf(a) /\ On(a)' = On(a)
  BY <1>0, StepKeepsPlace DEF StepEffect, KeepsOp, Undoes, OnlyMoves, OrderOf, On
<1>3. ASSUME NEW o \in Order, mirror[o] # "none"
      PROVE  mirror'[o] # "none"
  BY <1>3, MirrorStays
<1>4. ASSUME task[a].op = "reserve", task'[a].op = "reserve"
      PROVE  task'[a].pc = "ok" <=> mirror'[OrderOf(a)] # "none"
  <2>1. OrderOf(a) \in Order
    BY <1>4, ReserverFits
  <2>2. ASSUME WriteMirror(a)
        PROVE  task'[a].pc = "ok" /\ mirror'[OrderOf(a)] # "none"
    <3>1. task'[a].pc = "ok"
      BY <1>0, <2>2, GotoEffect DEF WriteMirror
    <3>2. mirror'[OrderOf(a)] # "none"
      BY <1>0, <2>1, <2>2 DEF WriteMirror, TypeOK
    <3>3. QED
      BY <3>1, <3>2
  <2>3. ASSUME task'[a].pc = "ok"
        PROVE  WriteMirror(a)
    BY <1>0, <1>4, <2>3, ReservesByMirror
  <2>4. ASSUME mirror'[OrderOf(a)] # "none"
        PROVE  WriteMirror(a)
    <3>1. CASE mirror[OrderOf(a)] = "none"
      BY <1>4, <2>1, <2>4, <3>1, MirrorAppears, WriterReserves, ReserverFits
    <3>2. CASE mirror[OrderOf(a)] # "none"
      <4>1. task[a].pc = "ok"
        BY <1>1, <1>4, <3>2 DEF StandsBy
      <4>2. FALSE
        BY <4>1 DEF Step, StoreFails, At, Ended, ReadStock, AcquireLock, CheckAvailable, CountHold,
           ReleaseLock, WriteKey, WriteMirror, SyncQty, SyncPending, SyncStatus, LoadReservation,
           ClaimMirror, TakeStock, TakeStatus, DecrPending, DropPending, DeleteKey, ResolveMirror,
           PutBack
      <4>3. QED
        BY <4>2
    <3>3. QED
      BY <3>1, <3>2
  <2>5. QED
    BY <2>2, <2>3, <2>4
<1>5. task'[a].op = "reserve" => (task'[a].pc = "ok" <=> mirror'[OrderOf(a)] # "none")
  BY <1>2, <1>4
<1>6. /\ task'[a].op \in {"commit", "release"} => mirror'[OrderOf(a)] # "none"
      /\ flow'[a].at \in ReservedPlaces => mirror'[On(a)] # "none"
  BY <1>1, <1>2, <1>3, StoodBy DEF StandsBy
<1>7. QED
  BY <1>2, <1>5, <1>6 DEF StandsBy

LEMMA WhoAttempts ==
  ASSUME OrderInv, OrderNext, NEW o \in Order, attempt'[o] # attempt[o]
  PROVE  \/ attempt[o] = "pending" /\ attempt'[o] = "resolved"
         \/ /\ attempt[o] = "none" /\ attempt'[o] = "pending"
            /\ \E p \in Proc : flow[p].at = "attempt" /\ On(p) = o
<1>1. ASSUME NEW p \in Proc, RecordAttempt(p)
      PROVE  /\ attempt[o] = "none" /\ attempt'[o] = "pending"
             /\ flow[p].at = "attempt" /\ On(p) = o
  BY <1>1 DEF RecordAttempt, Sits, OrderInv, OrderTypeOK
<1>2. ASSUME NEW p \in Proc, MarkResolved(p) \/ MarkDone(p)
      PROVE  attempt[o] = "pending" /\ attempt'[o] = "resolved"
  BY <1>2 DEF MarkResolved, MarkDone, ResolvedAttempt, OrderInv, OrderTypeOK
<1>3. ASSUME NEW p \in Proc, FlowStep(p)
      PROVE  RecordAttempt(p) \/ MarkResolved(p) \/ MarkDone(p)
  BY <1>3 DEF FlowStep, Reserved, Stash, CreateGatewayOrder, StashId, FindOrder,
     LoadStash, Recheck, LoadAttempt, VerifyAmount, Upsert, Reread, ConvertCart, Claim, Committed,
     WriteSnapshot, Record, Enrich, Finish, Cleared, Unstash, MatchPayments, Answer, documents
<1>4. ASSUME NEW p \in Proc, Acts(p)
      PROVE  FlowStep(p)
  BY <1>4 DEF Acts, InventoryStep, FlowCaller, InitiateOrder, VerifyPayment, Deliver,
     CronReconcile, ListPending, Completes, SweepEnds, SweepStarts, HandlerDies, OperationFails,
     FlowFails, documents
<1>5. ASSUME NEW a \in Order, Pay(a) \/ Webhook(a) \/ StashExpires(a) \/ ClaimAges(a) \/ TimePasses(a)
      PROVE  FALSE
  BY <1>5 DEF Pay, Webhook, StashExpires, ClaimAges, TimePasses, documents
<1>6. ASSUME NEW r \in Row, LockAges(r)
      PROVE  FALSE
  BY <1>6 DEF LockAges, documents
<1>7. QED
  BY <1>1, <1>2, <1>3, <1>4, <1>5, <1>6 DEF OrderNext, Acts

LEMMA WhoAges ==
  ASSUME OrderInv, OrderNext, NEW o \in Order, age[o] = "fresh", age'[o] # "fresh"
  PROVE  mirror[o] # "none"
<1>1. ASSUME NEW a \in Order, Tick(a)
      PROVE  mirror[o] # "none"
  BY <1>1 DEF Tick, OrderInv, Below, TypeOK
<1>2. ASSUME NEW p \in Proc, Step(p)
      PROVE  age'[o] = "fresh"
  BY <1>2 DEF OrderInv, Below, TypeOK, Step, ReadStock, AcquireLock, CheckAvailable, CountHold,
     ReleaseLock, WriteKey, WriteMirror, SyncQty, SyncPending, SyncStatus, LoadReservation,
     ClaimMirror, TakeStock, TakeStatus, DecrPending, DropPending, DeleteKey, ResolveMirror,
     PutBack, stores
<1>3. ASSUME NEW p \in Proc, Return(p) \/ Crash(p) \/ StoreFails(p) \/ Caller(p)
      PROVE  UNCHANGED age
  BY <1>3 DEF Return, Crash, StoreFails, Caller, CallReserve, CallCommit, CallRelease, Sweep,
     CallSell, CallRestock, Call, stores
<1>4. CASE [Next]_vars
  BY <1>1, <1>2, <1>3, <1>4 DEF Next, LockExpires, vars, stores
<1>5. QED
  BY <1>4, StepBelow DEF CountsFault, StartsBelow, stores

(* initiate_order gets past its reservation by the way of "ok" alone. *)
LEMMA GetsReserved ==
  ASSUME OrderInv, NEW a \in Proc, Acts(a), flow'[a].at \in ReservedPlaces
  PROVE  \/ flow'[a] = flow[a]
         \/ /\ On(a)' = On(a)
            /\ \/ flow[a].at \in ReservedPlaces
               \/ flow[a].at = "reserving" /\ task[a].pc = "ok"
<1>1. flow[a] \in Flow /\ flow \in [Proc -> Flow]
  BY DEF OrderInv, OrderTypeOK
<1>2. ASSUME NEW at, Goes(a, at)
      PROVE  flow'[a].at = at /\ On(a)' = On(a)
  BY <1>1, <1>2 DEF Goes, On, Flow
<1>3. CASE InventoryStep(a) \/ OperationFails(a) \/ SweepEnds(a) \/ \E o \in Order : SweepStarts(a, o)
  BY <1>3 DEF InventoryStep, OperationFails, SweepEnds, SweepStarts
<1>4. ~FlowCaller(a) /\ ~HandlerDies(a)
  <2>1. ASSUME NEW source, NEW o, NEW at, flow' = [flow EXCEPT ![a] = Begun(source, o, at)]
        PROVE  flow'[a].at = at
    BY <1>1, <2>1 DEF Begun, NoFlow
  <2>2. ASSUME flow' = [flow EXCEPT ![a] = NoFlow]
        PROVE  flow'[a].at = "none"
    BY <1>1, <2>2 DEF NoFlow
  <2>3. ~HandlerDies(a)
    BY <2>2 DEF HandlerDies, ReservedPlaces
  <2>4. ~\E o \in Order : InitiateOrder(a, o)
    BY <2>1 DEF InitiateOrder, ReservedPlaces
  <2>5. ~\E o \in Order : \/ VerifyPayment(a, o) \/ Deliver(a, o) \/ CronReconcile(a, o)
                          \/ ListPending(a, o)
    BY <2>1, ZenonT(30) DEF VerifyPayment, Deliver, CronReconcile, ListPending, Completes, ReservedPlaces
  <2>6. QED
    BY <2>3, <2>4, <2>5 DEF FlowCaller
<1>5. ~FlowFails(a)
  BY <1>2 DEF FlowFails, ReservedPlaces
<1>6. CASE FlowStep(a)
  <2>1. CASE Reserved(a)
    <3>1. task[a].pc = "ok" /\ flow[a].at = "reserving" /\ On(a)' = On(a)
      BY <1>2, <2>1 DEF Reserved, Sits, At, ReservedPlaces
    <3>2. QED
      BY <3>1
  <2>2. CASE Stash(a) \/ CreateGatewayOrder(a) \/ StashId(a) \/ RecordAttempt(a)
    BY <1>2, <2>2 DEF Stash, CreateGatewayOrder, StashId, RecordAttempt, Sits, ReservedPlaces
  <2>3. ~(Claim(a) \/ Finish(a))
    BY <1>2 DEF Claim, Finish, GoesOn, Awaits, ReservedPlaces
  <2>4. ~(FindOrder(a) \/ Recheck(a) \/ Upsert(a) \/ Reread(a))
    <3>1. ASSUME NEW at, NEW s, NEW c, flow' = [flow EXCEPT ![a].at = at, ![a].seen = s, ![a].clears = c]
          PROVE  flow'[a].at = at
      BY <1>1, <3>1 DEF Flow
    <3>2. ASSUME NEW at, NEW s, flow' = [flow EXCEPT ![a].at = at, ![a].seen = s]
          PROVE  flow'[a].at = at
      BY <1>1, <3>2 DEF Flow
    <3>3. ASSUME NEW at, NEW c, flow' = [flow EXCEPT ![a].at = at, ![a].created = c]
          PROVE  flow'[a].at = at
      BY <1>1, <3>3 DEF Flow
    <3>4. ~FindOrder(a)
      BY <3>1, ZenonT(30) DEF FindOrder, ReservedPlaces
    <3>5. ~Recheck(a)
      <4>1. SUFFICES ASSUME Recheck(a) PROVE FALSE
        OBVIOUS
      <4>2. PICK c : flow' = [flow EXCEPT
                       ![a].at = IF saved[On(a)] = "absent" THEN "loadAttempt" ELSE "claim",
                       ![a].seen = saved[On(a)], ![a].clears = c]
        BY <4>1, Zenon DEF Recheck
      <4>3. flow'[a].at = IF saved[On(a)] = "absent" THEN "loadAttempt" ELSE "claim"
        BY <3>1, <4>2, Zenon
      <4>4. flow'[a].at = "loadAttempt" \/ flow'[a].at = "claim"
        BY <4>3, Zenon
      <4>5. QED
        BY <1>2, <4>4 DEF ReservedPlaces
    <3>6. ~Upsert(a)
      BY <3>3 DEF Upsert, ReservedPlaces
    <3>7. ~Reread(a)
      BY <3>2 DEF Reread, ReservedPlaces
    <3>8. QED
      BY <3>4, <3>5, <3>6, <3>7
  <2>5. ~(LoadStash(a) \/ LoadAttempt(a) \/ VerifyAmount(a) \/ ConvertCart(a) \/ Committed(a)
          \/ WriteSnapshot(a) \/ Record(a) \/ Enrich(a) \/ MarkResolved(a) \/ Cleared(a) \/ Unstash(a))
    <3>1. ~(VerifyAmount(a) \/ ConvertCart(a) \/ WriteSnapshot(a) \/ Record(a) \/ Enrich(a)
            \/ MarkResolved(a))
      BY <1>2 DEF VerifyAmount, ConvertCart, WriteSnapshot, Record, Enrich, MarkResolved, ReservedPlaces
    <3>2. ~\E at \in {"recheck", "verifyAmount", "not_found", "snapshot", "raised", "unstash",
                      "created", "existing"} : Goes(a, at)
      BY <1>2 DEF ReservedPlaces
    <3>3. ~(LoadStash(a) \/ LoadAttempt(a) \/ Committed(a) \/ Cleared(a) \/ Unstash(a))
      BY <3>2 DEF LoadStash, LoadAttempt, Committed, Cleared, Unstash
    <3>4. QED
      BY <3>1, <3>3
  <2>6. ~(MatchPayments(a) \/ MarkDone(a) \/ Answer(a))
    <3>1. ASSUME flow' = [flow EXCEPT ![a] = NoFlow]
          PROVE  FALSE
      BY <1>1, <3>1 DEF NoFlow, ReservedPlaces
    <3>2. QED
      BY <1>2, <3>1 DEF MatchPayments, MarkDone, Answer, ReservedPlaces
  <2>7. QED
    BY <1>6, <2>1, <2>2, <2>3, <2>4, <2>5, <2>6 DEF FlowStep
<1>7. QED
  BY <1>3, <1>4, <1>5, <1>6 DEF Acts

LEMMA MirrorInductive ==
  ASSUME OrderInv, ServesInv, MirrorFits, OrderNext
  PROVE  MirrorFits'
<1>0. TypeOK /\ OrderTypeOK /\ DocsFit
  BY DEF OrderInv, Below
<1>1. ASSUME NEW o \in Order, mirror[o] # "none"
      PROVE  mirror'[o] # "none"
  BY <1>1, MirrorStays
<1>2. ASSUME NEW o \in Order, checkout[o] = "new"
      PROVE  mirror'[o] = "none"
  <2>1. mirror[o] = "none"
    BY <1>2 DEF MirrorFits
  <2>2. SUFFICES ASSUME mirror'[o] # "none" PROVE FALSE
    OBVIOUS
  <2>3. PICK p \in Proc : OrderOf(p) = o /\ WriteMirror(p)
    BY <2>1, <2>2, MirrorAppears
  <2>4. QED
    BY <1>2, <2>3, WriterReserves, ReserverFits
<1>3. ASSUME NEW o \in Order
      PROVE  /\ attempt'[o] # "none" \/ age'[o] # "fresh" => mirror'[o] # "none"
             /\ checkout'[o] = "new" => mirror'[o] = "none"
  <2>1. attempt[o] # "none" \/ age[o] # "fresh" => mirror[o] # "none"
    BY DEF MirrorFits
  <2>2. ASSUME attempt'[o] # "none"
        PROVE  mirror[o] # "none"
    <3>1. CASE attempt[o] # "none"
      BY <2>1, <3>1
    <3>2. CASE attempt[o] = "none"
      <4>1. PICK p \in Proc : flow[p].at = "attempt" /\ On(p) = o
        BY <2>2, <3>2, WhoAttempts
      <4>2. QED
        BY <4>1 DEF MirrorFits, ReservedPlaces
    <3>3. QED
      BY <3>1, <3>2
  <2>3. ASSUME age'[o] # "fresh"
        PROVE  mirror[o] # "none"
    BY <2>1, <2>3, WhoAges
  <2>4. checkout'[o] = "new" => mirror'[o] = "none"
    BY <1>2, CheckoutStays DEF OrderInv
  <2>5. QED
    BY <1>1, <2>2, <2>3, <2>4
<1>4. ASSUME NEW a \in Proc, Acts(a)
      PROVE  StandsBy(a)'
  <2>0. StandsBy(a) /\ Turn(a) /\ Serves(a) /\ Placing(task[a])
    BY <1>4, ActsTurn DEF MirrorFits, StandsBy, ServesInv, TasksPlaced
  <2>1. flow'[a].at \in ReservedPlaces => mirror'[On(a)'] # "none"
    <3>1. SUFFICES ASSUME flow'[a].at \in ReservedPlaces
                   PROVE  mirror'[On(a)'] # "none"
      OBVIOUS
    <3>2. CASE flow'[a] = flow[a] \/ (flow[a].at \in ReservedPlaces /\ On(a)' = On(a))
      <4>1. On(a)' = On(a) /\ flow[a].at \in ReservedPlaces
        BY <3>1, <3>2 DEF On
      <4>2. On(a) \in Order /\ mirror[On(a)] # "none"
        BY <2>0, <4>1, StoodBy DEF StandsBy
      <4>3. QED
        BY <1>1, <4>1, <4>2
    <3>3. CASE flow[a].at = "reserving" /\ task[a].pc = "ok" /\ On(a)' = On(a)
      <4>1. OrderOf(a) = On(a) /\ On(a) \in Order
        BY <2>0, <3>3, PlaceFits DEF Serves, Awaiting
      <4>2. task[a].op \in {"reserve", "release"}
        BY <1>0, <2>0, <3>3, TaskRecords DEF Serves, Placing, Task, Ops
      <4>3. mirror[On(a)] # "none"
        BY <2>0, <3>3, <4>1, <4>2 DEF StandsBy
      <4>4. QED
        BY <1>1, <3>3, <4>1, <4>3
    <3>4. QED
      BY <1>4, <3>1, <3>2, <3>3, GetsReserved
  <2>2. CASE task'[a].op \in {"none", "undo", "sell", "restock"}
    BY <2>1, <2>2 DEF StandsBy
  <2>3. CASE (Step(a) \/ StoreFails(a)) /\ flow'[a] = flow[a]
    BY <2>3, StandsAfterStep
  <2>4. CASE task'[a] = Idle
    BY <2>2, <2>4 DEF Idle
  <2>5. CASE At(a, "idle") /\ task'[a] = task[a]
    <3>1. task[a].op = "none"
      BY <1>0, <2>0, <2>5, TaskRecords DEF Serves, Placing, Task, Ops, At, ReserveSteps, SyncSteps
    <3>2. QED
      BY <2>2, <2>5, <3>1
  <2>6. ASSUME NEW o \in Order, NEW op \in {"reserve", "commit", "release"}, Starts(a, op, o)
        PROVE  StandsBy(a)'
    <3>1. /\ task'[a].op = op /\ OrderOf(a)' = o
          /\ op = "reserve" => task'[a].pc = "stock" /\ checkout[o] = "new"
      BY <2>6 DEF Starts, Started, OrderOf
    <3>2. op = "reserve" => mirror'[o] = "none"
      BY <1>2, <3>1
    <3>3. op # "reserve" => mirror[o] # "none"
      <4>1. payment[o] = "captured" => attempt[o] # "none"
        BY <1>0 DEF DocsFit
      <4>2. attempt[o] # "none" \/ age[o] # "fresh" => mirror[o] # "none"
        BY DEF MirrorFits
      <4>3. QED
        BY <2>6, <4>1, <4>2 DEF Starts
    <3>4. QED
      BY <1>1, <2>1, <3>1, <3>2, <3>3 DEF StandsBy
  <2>7. QED
    BY <2>0, <2>3, <2>4, <2>5, <2>6 DEF Turn
<1>5. \A q \in Proc : StandsBy(q)'
  <2>1. CASE UNCHANGED <<task, flow>>
    BY <2>1, StandsStill
  <2>2. ASSUME NEW a \in Proc, Acts(a), NEW q \in Proc
        PROVE  StandsBy(q)'
    <3>1. CASE q = a
      BY <1>4, <2>2, <3>1
    <3>2. CASE q # a
      BY <2>2, <3>2, ActsTurn, StandsStill DEF Turn
    <3>3. QED
      BY <3>1, <3>2
  <2>3. QED
    BY <2>1, <2>2, SomeoneActs
<1>6. QED
  BY <1>3, <1>5 DEF MirrorFits, StandsBy

-----------------------------------------------------------------------------
(* What a commit or a release has left to take back *)

TakingBack == {"decr", "drop"} \cup SyncSteps

(* How a commit or a release gets from one await to the next. *)
Rounds(p) ==
  \/ task'[p].pc = "raised" /\ (StoreFails(p) \/ task[p].pc = "take")
  \/ /\ task[p].pc \in {"load", "claim"}
     /\ task'[p].pc \in {"claim", "take", "decr", "ok"}
     /\ task'[p].i = 1 /\ task'[p].last = task[p].last
  \/ task[p].pc = "take" /\ task'[p].pc = "takeStatus"
  \/ task[p].pc = "takeStatus" /\ task'[p].pc = "take"
  \/ /\ task[p].pc = "takeStatus" /\ task'[p].pc = "decr"
     /\ task'[p].i = 1 /\ task'[p].last = task[p].last
  \/ /\ task[p].pc \in TakingBack /\ task'[p].pc \in {"drop"} \cup SyncSteps
     /\ task'[p].i = task[p].i /\ task'[p].last = task[p].last
  \/ /\ task[p].pc \in TakingBack /\ task'[p].pc = "decr"
     /\ task'[p].i = task[p].i + 1 /\ task'[p].last = task[p].last
  \/ task[p].pc \in TakingBack /\ task'[p].pc = "delKey" /\ ~(task[p].i < task[p].last)
  \/ task[p].pc = "delKey" /\ task'[p].pc \in {"ok", "resolve"}
  \/ task[p].pc = "resolve" /\ task'[p].pc = "ok"

LEMMA HowItRounds ==
  ASSUME TypeOK, TasksPlaced, NEW p \in Proc, Step(p) \/ StoreFails(p),
         task[p].op \in {"commit", "release"}
  PROVE  Rounds(p) /\ (task[p].pc = "decr" => DecrPending(p) \/ task'[p].pc = "raised")
<1> USE DEF At, TakingBack, SyncSteps
<1>0. Placing(task[p])
  BY DEF TasksPlaced
<1>1. ASSUME NEW pc, Goto(p, pc)
      PROVE  task'[p].pc = pc /\ task'[p].i = task[p].i /\ task'[p].last = task[p].last
  BY <1>1, GotoTurns DEF Turns
<1>2. ASSUME NEW pc, NEW v, task' = [task EXCEPT ![p].pc = pc, ![p].view = v]
      PROVE  task'[p].pc = pc /\ task'[p].i = task[p].i /\ task'[p].last = task[p].last
  BY <1>2, ReadTurns DEF Turns
<1>3. ASSUME NEW loop, NEW exit, NextLine(p, loop, exit)
      PROVE  \/ /\ task'[p].pc = loop /\ task'[p].i = task[p].i + 1
                /\ task'[p].last = task[p].last
             \/ /\ task'[p].pc = exit /\ task'[p].i = 1 /\ task'[p].last = task[p].last
                /\ ~(task[p].i < task[p].last)
  BY <1>3, NextLineTurns DEF Turns
<1>4. CASE StoreFails(p)
  <2>1. \/ task[p].pc \in SyncSteps /\ NextLine(p, "decr", "delKey")
        \/ task[p].pc \notin SyncSteps /\ Goto(p, "raised")
    BY <1>0, <1>4 DEF StoreFails, Placing
  <2>2. CASE task[p].pc \in SyncSteps /\ NextLine(p, "decr", "delKey")
    BY <1>3, <2>2 DEF Rounds
  <2>3. CASE Goto(p, "raised")
    BY <1>1, <1>4, <2>3 DEF Rounds
  <2>4. QED
    BY <2>1, <2>2, <2>3
<1>5. ~(ReadStock(p) \/ AcquireLock(p) \/ CheckAvailable(p) \/ CountHold(p) \/ ReleaseLock(p)
        \/ WriteKey(p) \/ WriteMirror(p) \/ PutBack(p))
  BY <1>0 DEF Placing, ReadStock, AcquireLock, CheckAvailable, CountHold, ReleaseLock, WriteKey,
     WriteMirror, PutBack
<1>6. CASE SyncQty(p)
  BY <1>2, <1>6 DEF SyncQty, Rounds
<1>7. CASE SyncPending(p)
  <2>1. task' = [task EXCEPT ![p].pc = "syncStatus", ![p].view = task[p].view - pending[RowOf(p)]]
    BY <1>7, TaskRecords DEF SyncPending
  <2>2. QED
    BY <1>2, <1>7, <2>1 DEF SyncPending, Rounds
<1>8. CASE SyncStatus(p)
  BY <1>3, <1>8 DEF SyncStatus, Rounds
<1>9. CASE LoadReservation(p)
  BY <1>0, <1>1, <1>9 DEF LoadReservation, Placing, FirstStep, Rounds
<1>10. CASE ClaimMirror(p)
  <2>1. CASE task' = [task EXCEPT ![p].pc = FirstStep(task[p].op), ![p].mirrored = TRUE]
    <3>1. /\ task'[p].pc = FirstStep(task[p].op) /\ task'[p].i = task[p].i
          /\ task'[p].last = task[p].last
      BY <2>1, ClaimTurns
    <3>2. QED
      BY <1>0, <1>10, <3>1 DEF ClaimMirror, Placing, FirstStep, Rounds
  <2>2. CASE Goto(p, "ok")
    BY <1>0, <1>1, <1>10, <2>2 DEF ClaimMirror, Placing, Rounds
  <2>3. QED
    BY <1>10, <2>1, <2>2 DEF ClaimMirror
<1>11. CASE TakeStock(p)
  BY <1>1, <1>2, <1>11 DEF TakeStock, Rounds
<1>12. CASE TakeStatus(p)
  <2>1. NextLine(p, "take", "decr")
    BY <1>0, <1>12 DEF TakeStatus, Placing
  <2>2. QED
    BY <1>3, <1>12, <2>1 DEF TakeStatus, Rounds
<1>13. ASSUME AfterAdjust(p), task[p].pc \in {"decr", "drop"}
       PROVE  Rounds(p)
  <2>1. Goto(p, "syncQty") \/ NextLine(p, "decr", "delKey")
    BY <1>13 DEF AfterAdjust
  <2>2. CASE Goto(p, "syncQty")
    BY <1>1, <1>13, <2>2 DEF Rounds
  <2>3. CASE NextLine(p, "decr", "delKey")
    BY <1>3, <1>13, <2>3 DEF Rounds
  <2>4. QED
    BY <2>1, <2>2, <2>3
<1>14. CASE DecrPending(p)
  <2>1. CASE Goto(p, "drop")
    BY <1>1, <1>14, <2>1 DEF DecrPending, Rounds
  <2>2. CASE AfterAdjust(p)
    BY <1>13, <1>14, <2>2 DEF DecrPending
  <2>3. QED
    BY <1>14, <2>1, <2>2 DEF DecrPending
<1>15. CASE DropPending(p)
  BY <1>13, <1>15 DEF DropPending
<1>16. CASE DeleteKey(p)
  <2>1. Goto(p, "ok") \/ Goto(p, "resolve")
    BY <1>16 DEF DeleteKey
  <2>2. QED
    BY <1>1, <1>16, <2>1 DEF DeleteKey, Rounds
<1>17. CASE ResolveMirror(p)
  BY <1>1, <1>17 DEF ResolveMirror, Rounds
<1>18. QED
  BY <1>4, <1>5, <1>6, <1>7, <1>8, <1>9, <1>10, <1>11, <1>12, <1>14, <1>15, <1>16, <1>17 DEF Step

(* A commit or a release has, at each await, at most these lines to take    *)
(* back; others may have taken some of them back before it.                 *)
HeldFits(p) ==
  task[p].op \in {"commit", "release"} =>
    /\ task[p].pc = "decr" => held[OrderOf(p)] \subseteq task[p].i .. task[p].last
    /\ task[p].pc \in {"drop"} \cup SyncSteps =>
         held[OrderOf(p)] \subseteq task[p].i + 1 .. task[p].last
    /\ task[p].pc \in {"delKey", "resolve"} => held[OrderOf(p)] = {}

(* Nothing is held any more for an order that has a mirror. *)
LEMMA HeldShrinks ==
  ASSUME OrderInv, ServesInv, MirrorFits, OrderNext, NEW o \in Order, mirror[o] # "none"
  PROVE  held'[o] \subseteq held[o]
<1>0. TypeOK /\ PlaceOK
  BY DEF OrderInv, Below
<1>1. ASSUME NEW p \in Proc, CountHold(p)
      PROVE  held'[o] \subseteq held[o]
  <2>1. task[p].op = "reserve" /\ task[p].pc # "ok"
    BY <1>0, <1>1 DEF CountHold, At, PlaceOK, ReserveSteps
  <2>2. OrderOf(p) # o
    BY <2>1 DEF MirrorFits
  <2>3. QED
    BY <1>0, <1>1, <2>2 DEF CountHold, TypeOK
<1>2. ASSUME NEW p \in Proc, DecrPending(p)
      PROVE  held'[o] \subseteq held[o]
  BY <1>0, <1>2 DEF DecrPending, TypeOK
<1>3. CASE [Next]_vars
  BY <1>0, <1>1, <1>2, <1>3, HeldWrites
<1>4. QED
  BY <1>3, StepBelow DEF CountsFault, StartsBelow, history

LEMMA HeldStep ==
  ASSUME OrderInv, ServesInv, NEW p \in Proc, Step(p) \/ StoreFails(p), HeldFits(p),
         task[p].op \in {"commit", "release"} => held'[OrderOf(p)] \subseteq held[OrderOf(p)]
  PROVE  HeldFits(p)'
<1>0. TypeOK /\ PlaceOK /\ TasksPlaced /\ Placing(task[p])
  BY DEF OrderInv, Below, ServesInv, TasksPlaced
<1>1. /\ OrderOf(p)' = OrderOf(p)
      /\ task'[p].op \in {"commit", "release"} => task[p].op = task'[p].op
  BY <1>0, StepKeepsPlace DEF StepEffect, KeepsOp, Undoes, OnlyMoves, OrderOf
<1> SUFFICES ASSUME task'[p].op \in {"commit", "release"} PROVE HeldFits(p)'
  BY DEF HeldFits
<1> DEFINE o == OrderOf(p)
<1>2. task[p].op \in {"commit", "release"} /\ held'[o] \subseteq held[o]
  BY <1>1
<1>3. Rounds(p) /\ (task[p].pc = "decr" => DecrPending(p) \/ task'[p].pc = "raised")
  BY <1>0, <1>2, HowItRounds
<1>4. o \in Order /\ held[o] \subseteq 1 .. Len(Lines[o])
  <2>1. task[p].pc # "idle"
    BY <1>0, <1>2 DEF Placing, SyncSteps
  <2>2. QED
    BY <1>0, <2>1, OrderOfTask DEF TypeOK
<1>5. task[p].last = Len(Lines[o]) /\ task[p].last \in Nat /\ task[p].i \in Nat
  BY <1>0, <1>2, TaskRecords DEF Placing, OrderOf, Task
(* Past a line, what is left to take back is after it. *)
<1>6. ASSUME task[p].pc \in TakingBack, task'[p].pc # "raised"
      PROVE  held'[o] \subseteq task[p].i + 1 .. task[p].last
  <2>1. CASE task[p].pc = "decr"
    <3>1. held'[o] = held[o] \ {task[p].i} /\ held[o] \subseteq task[p].i .. task[p].last
      BY <1>0, <1>2, <1>3, <1>4, <1>6, <2>1 DEF DecrPending, TypeOK, HeldFits
    <3>2. QED
      BY <1>5, <3>1
  <2>2. CASE task[p].pc # "decr"
    BY <1>2, <1>6, <2>2 DEF HeldFits, TakingBack
  <2>3. QED
    BY <2>1, <2>2
<1>7. ASSUME ~(task[p].i < task[p].last)
      PROVE  task[p].i + 1 .. task[p].last = {}
  BY <1>5, <1>7
<1>8. /\ task'[p].pc = "decr" => held'[o] \subseteq task'[p].i .. task'[p].last
      /\ task'[p].pc \in {"drop"} \cup SyncSteps => held'[o] \subseteq task'[p].i + 1 .. task'[p].last
      /\ task'[p].pc \in {"delKey", "resolve"} => held'[o] = {}
  <2>1. CASE task'[p].pc \in {"claim", "take", "takeStatus", "ok", "raised"}
    BY <2>1 DEF SyncSteps
  <2>2. CASE task'[p].pc = "decr" /\ task'[p].i = 1 /\ task'[p].last = task[p].last
    <3>1. held'[o] \subseteq 1 .. task'[p].last
      BY <1>2, <1>4, <1>5, <2>2
    <3>2. QED
      BY <2>2, <3>1 DEF SyncSteps
  <2>3. CASE /\ task[p].pc \in TakingBack /\ task'[p].pc \in {"drop"} \cup SyncSteps
             /\ task'[p].i = task[p].i /\ task'[p].last = task[p].last
    BY <1>6, <2>3 DEF SyncSteps
  <2>4. CASE /\ task[p].pc \in TakingBack /\ task'[p].pc = "decr"
             /\ task'[p].i = task[p].i + 1 /\ task'[p].last = task[p].last
    BY <1>6, <2>4 DEF SyncSteps
  <2>5. CASE task[p].pc \in TakingBack /\ task'[p].pc = "delKey" /\ ~(task[p].i < task[p].last)
    BY <1>6, <1>7, <2>5 DEF SyncSteps
  <2>6. CASE task[p].pc = "delKey" /\ task'[p].pc \in {"ok", "resolve"}
    BY <1>2, <2>6 DEF HeldFits, SyncSteps
  <2>7. QED
    BY <1>3, <2>1, <2>2, <2>3, <2>4, <2>5, <2>6 DEF Rounds
<1> HIDE DEF o
<1>9. QED
  BY <1>1, <1>8 DEF HeldFits, o

HeldInv == \A p \in Proc : HeldFits(p)

LEMMA HeldInductive ==
  ASSUME OrderInv, ServesInv, MirrorFits, HeldInv, OrderNext
  PROVE  HeldInv'
<1>1. ASSUME NEW q \in Proc, task[q].op \in {"commit", "release"}
      PROVE  held'[OrderOf(q)] \subseteq held[OrderOf(q)]
  <2>1. OrderOf(q) \in Order /\ mirror[OrderOf(q)] # "none"
    BY <1>1, StoodBy DEF MirrorFits
  <2>2. QED
    BY <2>1, HeldShrinks
<1>2. ASSUME NEW q \in Proc, task'[q] = task[q]
      PROVE  HeldFits(q)'
  BY <1>1, <1>2 DEF HeldInv, HeldFits, OrderOf
<1>3. ASSUME NEW a \in Proc, Turn(a)
      PROVE  HeldFits(a)'
  <2>1. CASE Step(a) \/ StoreFails(a)
    BY <1>1, <2>1, HeldStep DEF HeldInv
  <2>2. CASE task'[a] = Idle
    BY <2>2 DEF HeldFits, Idle
  <2>3. CASE task'[a] = task[a]
    BY <1>2, <2>3
  <2>4. ASSUME NEW op \in {"reserve", "commit", "release"}, NEW o \in Order, Starts(a, op, o)
        PROVE  HeldFits(a)'
    BY <2>4 DEF Starts, Started, HeldFits, SyncSteps
  <2>5. QED
    BY <1>3, <2>1, <2>2, <2>3, <2>4 DEF Turn
<1>4. QED
  BY <1>2, <1>3, TakesTurn DEF HeldInv, Turn

-----------------------------------------------------------------------------
(* An order that is being settled holds nothing when it is *)

Settles(p, o) ==
  /\ OrderOf(p) = o /\ task[p].op \in {"commit", "release"}
  /\ task[p].pc \in {"take", "takeStatus"} \cup TakingBack

Settling(o) == held[o] = {} \/ \E p \in Proc : Settles(p, o)

(* A handler past its order's commit. *)
Committing(p, o) == Claims(p, o) /\ (flow[p].at = "committing" => At(p, "ok"))

(* Somebody has taken the order's reservation for good. *)
Past(o) ==
  mirror[o] \in Resolved \/ saved[o] = "done" \/ \E p \in Proc : Committing(p, o)

SettledInv == Uncut => \A o \in Order : Past(o) => Settling(o) \/ Short(o)

LEMMA PastIsMirrored ==
  ASSUME OrderInv, MirrorFits, NEW o \in Order, Past(o)
  PROVE  mirror[o] # "none"
<1>1. saved[o] # "absent" => mirror[o] # "none"
  BY DEF OrderInv, DocsFit, MirrorFits
<1>2. \A p \in Proc : Claims(p, o) => saved[o] # "absent"
  BY PlaceFits DEF Claims, MayBe
<1>3. QED
  BY <1>1, <1>2 DEF Past, Committing, Resolved

(* A commit raises at a line its own handler has not taken, so the order is *)
(* short there.                                                             *)
LEMMA RaiseMeansShort ==
  ASSUME OrderInv, ServesInv, TakenInv, Uncut, NEW p \in Proc,
         task[p].op = "commit", task[p].pc = "take", qty[RowOf(p)] < UnitsOf(p)
  PROVE  Short(OrderOf(p))
<1> DEFINE o == OrderOf(p)
<1>0. TypeOK /\ Calm
  BY DEF OrderInv, Below, Uncut
<1>1. /\ o \in Order /\ task[p].i \in 1 .. Len(Lines[o]) /\ task[p].i \in Nat
      /\ flow[p].at = "committing" /\ Claims(p, o)
  <2>1. flow[p].at = "committing" /\ o = On(p)
    BY DEF ServesInv, Serves, Awaiting
  <2>2. o \in Order /\ task[p].i \in 1 .. Len(Lines[o])
    BY <1>0, LineOfTask DEF LineSteps
  <2>3. task[p].i \in Nat
    BY <1>0, TaskRecords DEF Task
  <2>4. QED
    BY <2>1, <2>2, <2>3 DEF Claims, ClaimedPlaces
<1>2. SUFFICES ASSUME ~Short(o) PROVE FALSE
  OBVIOUS
<1>3. TakenOnce(o, task[p].i)
  BY <1>1, <1>2 DEF TakenInv
<1>4. taken[o][task[p].i] # 0
  <2>1. DOMAIN taken[o] = 1 .. Len(Lines[o])
    BY <1>0, <1>1 DEF TypeOK
  <2>2. QED
    BY <1>1, <1>2, <2>1 DEF Short, RowOf, UnitsOf
<1>5. saved[o] = "in_progress"
  BY <1>0, <1>1, PlaceFits DEF Claims, CalledFor
<1>6. PICK q \in Proc : Claims(q, o) /\ HasTaken(q, task[p].i)
  BY <1>3, <1>4, <1>5 DEF TakenOnce
<1>7. q = p
  BY <1>0, <1>1, <1>6 DEF Claims, OrderInv, Alone
<1>8. task[p].i < task[p].i
  BY <1>1, <1>6, <1>7 DEF HasTaken
<1>9. QED
  BY <1>1, <1>8

LEMMA WhoFinishes ==
  ASSUME OrderInv, OrderNext, NEW o \in Order, saved[o] # "done", saved'[o] = "done"
  PROVE  \E p \in Proc : Finish(p) /\ On(p) = o
<1>1. ASSUME NEW p \in Proc, Upsert(p) \/ Claim(p)
      PROVE  FALSE
  BY <1>1 DEF Upsert, Claim, OrderInv, OrderTypeOK
<1>2. ASSUME NEW p \in Proc, Finish(p)
      PROVE  On(p) = o
  BY <1>2 DEF Finish, OrderInv, OrderTypeOK
<1>3. ASSUME NEW p \in Proc, FlowStep(p), ~(Upsert(p) \/ Claim(p) \/ Finish(p))
      PROVE  FALSE
  BY <1>3 DEF FlowStep, Reserved, Stash, CreateGatewayOrder, StashId, RecordAttempt, FindOrder,
     LoadStash, Recheck, LoadAttempt, VerifyAmount, Reread, ConvertCart, Committed, WriteSnapshot,
     Record, Enrich, MarkResolved, Cleared, Unstash, MatchPayments, MarkDone, Answer, documents
<1>4. ASSUME NEW p \in Proc, Acts(p), ~FlowStep(p)
      PROVE  FALSE
  BY <1>4 DEF Acts, InventoryStep, FlowCaller, InitiateOrder, VerifyPayment, Deliver,
     CronReconcile, ListPending, Completes, SweepEnds, SweepStarts, HandlerDies, OperationFails,
     FlowFails, documents
<1>5. ASSUME NEW a \in Order, Pay(a) \/ Webhook(a) \/ StashExpires(a) \/ ClaimAges(a) \/ TimePasses(a)
      PROVE  FALSE
  BY <1>5 DEF Pay, Webhook, StashExpires, ClaimAges, TimePasses, documents
<1>6. ASSUME NEW r \in Row, LockAges(r)
      PROVE  FALSE
  BY <1>6 DEF LockAges, documents
<1>7. QED
  BY <1>1, <1>2, <1>3, <1>4, <1>5, <1>6 DEF OrderNext, Acts

(* A handler comes to the steps after its commit by the way of it alone. *)
LEMMA ComesToCommit ==
  ASSUME OrderInv, NEW a \in Proc, Acts(a), flow'[a].at \in ClaimedPlaces
  PROVE  \/ flow'[a] = flow[a] /\ (task'[a] = task[a] \/ Step(a) \/ StoreFails(a))
         \/ flow'[a].at = "committing" /\ task'[a].pc = "load"
         \/ /\ On(a)' = On(a) /\ flow[a].at \in ClaimedPlaces
            /\ flow[a].at = "committing" => At(a, "ok")
<1> USE DEF ClaimedPlaces
<1>0. flow[a] \in Flow /\ flow \in [Proc -> Flow] /\ TypeOK
  BY DEF OrderInv, OrderTypeOK, Below
<1>1. ASSUME NEW at, Goes(a, at)
      PROVE  flow'[a].at = at /\ On(a)' = On(a)
  BY <1>0, <1>1 DEF Goes, On, Flow
<1>2. CASE InventoryStep(a) \/ OperationFails(a)
  BY <1>2 DEF InventoryStep, OperationFails
<1>3. ~(SweepEnds(a) \/ \E o \in Order : SweepStarts(a, o))
  BY DEF SweepEnds, SweepStarts, Free, NoFlow
<1>4. ~FlowCaller(a) /\ ~HandlerDies(a) /\ ~FlowFails(a)
  <2>1. ASSUME NEW source, NEW o, NEW at, flow' = [flow EXCEPT ![a] = Begun(source, o, at)]
        PROVE  flow'[a].at = at
    BY <1>0, <2>1 DEF Begun, NoFlow
  <2>2. ASSUME flow' = [flow EXCEPT ![a] = NoFlow]
        PROVE  flow'[a].at = "none"
    BY <1>0, <2>2 DEF NoFlow
  <2>3. ~HandlerDies(a)
    BY <2>2 DEF HandlerDies
  <2>4. ~\E o \in Order : InitiateOrder(a, o)
    BY <2>1 DEF InitiateOrder
  <2>5. ~\E o \in Order : \/ VerifyPayment(a, o) \/ Deliver(a, o) \/ CronReconcile(a, o)
                          \/ ListPending(a, o)
    BY <2>1, ZenonT(30) DEF VerifyPayment, Deliver, CronReconcile, ListPending, Completes
  <2>6. ~FlowFails(a)
    BY <1>1 DEF FlowFails
  <2>7. QED
    BY <2>3, <2>4, <2>5, <2>6 DEF FlowCaller
<1>5. CASE FlowStep(a)
  <2>1. CASE Committed(a)
    <3>1. flow[a].at = "committing" /\ At(a, "ok") /\ On(a)' = On(a)
      BY <1>1, <2>1 DEF Committed, Sits
    <3>2. QED
      BY <3>1
  <2>2. CASE WriteSnapshot(a) \/ Record(a) \/ Enrich(a) \/ MarkResolved(a)
    BY <1>1, <2>2 DEF WriteSnapshot, Record, Enrich, MarkResolved, Sits
  <2>3. ASSUME NEW op, NEW at, Awaits(a, op, at)
        PROVE  flow'[a].at = at /\ task'[a].pc = "load"
    BY <1>0, <1>1, <2>3, TaskRecords DEF Awaits, Started
  <2>4. CASE Claim(a)
    BY <1>1, <2>3, <2>4 DEF Claim, GoesOn
  <2>5. ~Finish(a)
    BY <1>1, <2>3 DEF Finish, GoesOn
  <2>6. ~(Reserved(a) \/ Stash(a) \/ CreateGatewayOrder(a) \/ StashId(a) \/ RecordAttempt(a)
          \/ LoadStash(a) \/ LoadAttempt(a) \/ VerifyAmount(a) \/ ConvertCart(a) \/ Cleared(a)
          \/ Unstash(a))
    BY <1>1 DEF Reserved, Stash, CreateGatewayOrder, StashId, RecordAttempt, LoadStash, LoadAttempt,
       VerifyAmount, ConvertCart, Cleared, Unstash
  <2>7. ~(MatchPayments(a) \/ MarkDone(a) \/ Answer(a))
    <3>1. ASSUME flow' = [flow EXCEPT ![a] = NoFlow]
          PROVE  flow'[a].at = "none"
      BY <1>0, <3>1 DEF NoFlow
    <3>2. QED
      BY <1>1, <3>1 DEF MatchPayments, MarkDone, Answer
  <2>8. ~(FindOrder(a) \/ Recheck(a) \/ Upsert(a) \/ Reread(a))
    <3>1. ASSUME NEW at, NEW s, NEW c, flow' = [flow EXCEPT ![a].at = at, ![a].seen = s, ![a].clears = c]
          PROVE  flow'[a].at = at
      BY <1>0, <3>1 DEF Flow
    <3>2. ASSUME NEW at, NEW s, flow' = [flow EXCEPT ![a].at = at, ![a].seen = s]
          PROVE  flow'[a].at = at
      BY <1>0, <3>2 DEF Flow
    <3>3. ASSUME NEW at, NEW c, flow' = [flow EXCEPT ![a].at = at, ![a].created = c]
          PROVE  flow'[a].at = at
      BY <1>0, <3>3 DEF Flow
    <3>4. ~FindOrder(a)
      BY <3>1, ZenonT(30) DEF FindOrder
    <3>5. ~Recheck(a)
      <4>1. SUFFICES ASSUME Recheck(a) PROVE FALSE
        OBVIOUS
      <4>2. PICK c : flow' = [flow EXCEPT
                       ![a].at = IF saved[On(a)] = "absent" THEN "loadAttempt" ELSE "claim",
                       ![a].seen = saved[On(a)], ![a].clears = c]
        BY <4>1, Zenon DEF Recheck
      <4>3. flow'[a].at = IF saved[On(a)] = "absent" THEN "loadAttempt" ELSE "claim"
        BY <3>1, <4>2, Zenon
      <4>4. QED
        BY <4>3
    <3>6. ~Upsert(a)
      BY <3>3 DEF Upsert
    <3>7. ~Reread(a)
      BY <3>2 DEF Reread
    <3>8. QED
      BY <3>4, <3>5, <3>6, <3>7
  <2>9. QED
    BY <1>5, <2>1, <2>2, <2>4, <2>5, <2>6, <2>7, <2>8 DEF FlowStep
<1>6. QED
  BY <1>2, <1>3, <1>4, <1>5 DEF Acts

LEMMA SettledInductive ==
  ASSUME OrderInv, ServesInv, TakenInv, MirrorFits, HeldInv, SettledInv, OrderNext
  PROVE  SettledInv'
<1> SUFFICES ASSUME Uncut', NEW o \in Order, Past(o)', ~Short(o)'
             PROVE  Settling(o)'
  BY DEF SettledInv
<1>0. TypeOK /\ TypeOK' /\ PlaceOK /\ TasksPlaced /\ HeldInv'
  BY OrderInvInductive, HeldInductive DEF OrderInv, Below, ServesInv
<1>1. faults' = 0 /\ Uncut /\ ~Short(o)
  BY NothingFailed, ShortStays DEF Uncut
<1>2. ~\E a \in Proc : StoreFails(a) \/ HandlerDies(a) \/ FlowFails(a) \/ Crash(a)
  BY <1>1, NothingFailed
(* A handler that settles the order goes on until nothing is held. *)
<1>3. ASSUME NEW p \in Proc, Settles(p, o), Step(p)
      PROVE  Settling(o)'
  <2>1. task[p].op \in {"commit", "release"} /\ OrderOf(p) = o
    BY <1>3 DEF Settles
  <2>2. Rounds(p)
    BY <1>0, <1>3, <2>1, HowItRounds
  <2>3. OrderOf(p)' = o /\ task'[p].op = task[p].op
    BY <1>0, <1>3, <2>1, StepKeepsPlace DEF StepEffect, KeepsOp, Undoes, OnlyMoves, OrderOf
  <2>4. task'[p].pc # "raised"
    <3>1. SUFFICES ASSUME task'[p].pc = "raised" PROVE Short(o)'
      OBVIOUS
    <3>2. task[p].pc = "take" /\ qty[RowOf(p)] < UnitsOf(p)
      BY <1>0, <1>3, <2>1, <3>1, RaisesOnly
    <3>3. task[p].op = "commit"
      BY <1>0, <2>1, <3>2 DEF TasksPlaced, Placing, SyncSteps
    <3>4. Short(o)
      BY <1>1, <2>1, <3>2, <3>3, RaiseMeansShort
    <3>5. QED
      BY <1>1, <3>4
  <2>5. CASE task'[p].pc \in {"take", "takeStatus"} \cup TakingBack
    BY <2>1, <2>3, <2>5 DEF Settling, Settles
  <2>6. CASE task'[p].pc = "delKey"
    BY <1>0, <2>1, <2>3, <2>6 DEF HeldInv, HeldFits, Settling
  <2>7. QED
    BY <1>3, <2>2, <2>4, <2>5, <2>6 DEF Rounds, Settles, TakingBack, SyncSteps
<1>4. ASSUME Past(o)
      PROVE  Settling(o)'
  <2>1. mirror[o] # "none" /\ held'[o] \subseteq held[o]
    BY <1>4, PastIsMirrored, HeldShrinks
  <2>2. CASE held[o] = {}
    BY <2>1, <2>2 DEF Settling
  <2>3. ASSUME NEW p \in Proc, Settles(p, o)
        PROVE  Settling(o)'
    <3>1. CASE task'[p] = task[p]
      BY <2>3, <3>1 DEF Settling, Settles, OrderOf
    <3>2. ASSUME NEW a \in Proc, Turn(a)
          PROVE  Settling(o)'
      <4>1. CASE a # p
        BY <3>1, <3>2, <4>1 DEF Turn
      <4>2. CASE a = p
        <5>1. task[p].pc \notin Ended \cup {"idle"}
          BY <2>3 DEF Settles, TakingBack, SyncSteps, Ended
        <5>2. Step(p)
          BY <1>2, <3>2, <4>2, <5>1 DEF Turn, Starts, At
        <5>3. QED
          BY <1>3, <2>3, <5>2
      <4>3. QED
        BY <4>1, <4>2
    <3>3. QED
      BY <3>1, <3>2, TakesTurn
  <2>4. QED
    BY <1>1, <1>4, <2>2, <2>3 DEF SettledInv, Settling
(* The step that takes the reservation for good. *)
<1>5. ASSUME ~Past(o), mirror'[o] \in Resolved
      PROVE  Settling(o)'
  <2>1. mirror'[o] # mirror[o] /\ mirror'[o] # "reserved"
    BY <1>5 DEF Past, Resolved
  <2>2. [Next]_vars
    BY <2>1, StepBelow DEF CountsFault, StartsBelow, stores
  <2>3. PICK p \in Proc : OrderOf(p) = o /\ (ResolveMirror(p) \/ ClaimMirror(p)) /\ mirror[o] = "reserved"
    BY <1>0, <2>1, <2>2, MirrorWrites
  <2>4. Step(p)
    BY <2>3 DEF Step
  <2>5. task[p].op \in {"commit", "release"}
    BY <1>0, <2>3, TaskRecords DEF ResolveMirror, ClaimMirror, At, TasksPlaced, Placing, Task, Ops,
       ReserveSteps, SyncSteps
  <2>6. CASE ResolveMirror(p)
    <3>1. held[o] = {} /\ UNCHANGED held
      BY <2>3, <2>5, <2>6 DEF ResolveMirror, At, HeldInv, HeldFits, history
    <3>2. QED
      BY <3>1 DEF Settling
  <2>7. CASE ClaimMirror(p)
    <3>1. task' = [task EXCEPT ![p].pc = FirstStep(task[p].op), ![p].mirrored = TRUE]
      BY <2>3, <2>7 DEF ClaimMirror
    <3>2. /\ task'[p].pc = FirstStep(task[p].op) /\ task'[p].op = task[p].op /\ OrderOf(p)' = OrderOf(p)
      BY <1>0, <3>1, ClaimTurns DEF OnlyMoves, OrderOf
    <3>3. QED
      BY <2>3, <2>5, <3>2 DEF FirstStep, Settling, Settles, TakingBack
  <2>8. QED
    BY <2>3, <2>6, <2>7
<1>6. ASSUME ~Past(o), saved'[o] = "done"
      PROVE  FALSE
  <2>1. saved[o] # "done"
    BY <1>6 DEF Past
  <2>2. PICK p \in Proc : Finish(p) /\ On(p) = o
    BY <1>6, <2>1, WhoFinishes
  <2>3. Committing(p, o)
    BY <2>2 DEF Finish, Sits, Committing, Claims, ClaimedPlaces
  <2>4. QED
    BY <1>6, <2>3 DEF Past
<1>7. ASSUME ~Past(o), NEW p \in Proc, Committing(p, o)'
      PROVE  Settling(o)'
  <2>1. flow'[p].at \in ClaimedPlaces /\ On(p)' = o /\ (flow'[p].at = "committing" => task'[p].pc = "ok")
    BY <1>7 DEF Committing, Claims, At
  <2>2. ~(flow'[p] = flow[p] /\ task'[p] = task[p])
    BY <1>7, <2>1 DEF Past, Committing, Claims, At, On
  <2>3. Acts(p)
    BY <2>2, SomeoneActs, ActsTurn DEF Turn
  <2>4. flow'[p] = flow[p] /\ Step(p)
    <3>1. ~(On(p)' = On(p) /\ flow[p].at \in ClaimedPlaces /\ (flow[p].at = "committing" => At(p, "ok")))
      BY <1>7, <2>1 DEF Past, Committing, Claims
    <3>2. QED
      BY <1>2, <2>1, <2>2, <2>3, <3>1, ComesToCommit
  <2>5. flow[p].at = "committing" /\ task'[p].pc = "ok" /\ task[p].pc # "ok" /\ On(p) = o
    BY <1>7, <2>1, <2>4 DEF Past, Committing, Claims, At, On
  <2>6. task[p].op = "commit" /\ OrderOf(p) = o
    BY <2>5 DEF ServesInv, Serves, Awaiting
  <2>7. Rounds(p)
    BY <1>0, <2>4, <2>6, HowItRounds
  <2>8. mirror[o] # "none" /\ held'[o] \subseteq held[o]
    BY <2>6, HeldShrinks DEF MirrorFits
  <2>9. CASE task[p].pc \in {"delKey", "resolve"}
    BY <2>6, <2>8, <2>9 DEF HeldInv, HeldFits, Settling
  <2>10. CASE task[p].pc \in {"load", "claim"}
    <3>1. LoadReservation(p) \/ ClaimMirror(p)
      BY <2>4, <2>10 DEF Step, At, ReadStock, AcquireLock, CheckAvailable, CountHold, ReleaseLock,
         WriteKey, WriteMirror, SyncQty, SyncPending, SyncStatus, TakeStock, TakeStatus, DecrPending,
         DropPending, DeleteKey, ResolveMirror, PutBack
    <3>2. ~LoadReservation(p)
      BY <1>0, <2>5, GotoEffect DEF LoadReservation, FirstStep
    <3>3. mirror[o] # "reserved"
      <4>1. SUFFICES ASSUME mirror[o] = "reserved" PROVE FALSE
        OBVIOUS
      <4>2. task' = [task EXCEPT ![p].pc = FirstStep(task[p].op), ![p].mirrored = TRUE]
        BY <2>6, <3>1, <3>2, <4>1 DEF ClaimMirror
      <4>3. task'[p].pc = FirstStep(task[p].op)
        BY <1>0, <4>2, ClaimTurns
      <4>4. QED
        BY <2>5, <4>3 DEF FirstStep
    <3>4. mirror[o] \in Resolved
      BY <1>0, <2>8, <3>3 DEF TypeOK, Resolved
    <3>5. QED
      BY <1>7, <3>4 DEF Past
  <2>11. QED
    BY <2>5, <2>7, <2>9, <2>10 DEF Rounds, TakingBack, SyncSteps
<1>8. QED
  BY <1>4, <1>5, <1>6, <1>7 DEF Past

-----------------------------------------------------------------------------
(* The papers of a checkout: its attempt and its stash *)

AttemptInv ==
  /\ \A p \in Proc : flow[p].at = "finish" => attempt[On(p)] = "resolved"
  /\ \A o \in Order : saved[o] = "done" => attempt[o] = "resolved"

LEMMA ComesToFinish ==
  ASSUME OrderInv, NEW a \in Proc, Acts(a), flow'[a].at = "finish", flow'[a] # flow[a]
  PROVE  MarkResolved(a) /\ On(a)' = On(a)
<1>0. flow[a] \in Flow /\ flow \in [Proc -> Flow]
  BY DEF OrderInv, OrderTypeOK
<1>1. On(a)' = On(a) /\ flow[a].at \in ClaimedPlaces
  BY ComesToCommit DEF ClaimedPlaces
<1>2. ASSUME NEW at, Goes(a, at)
      PROVE  flow'[a].at = at
  BY <1>0, <1>2 DEF Goes
<1>3. ~(InventoryStep(a) \/ OperationFails(a) \/ SweepEnds(a) \/ \E o \in Order : SweepStarts(a, o))
  BY DEF InventoryStep, OperationFails, SweepEnds, SweepStarts
<1>4. ~FlowCaller(a)
  BY <1>1 DEF FlowCaller, InitiateOrder, VerifyPayment, Deliver, CronReconcile, ListPending,
     Completes, Free, NoFlow, ClaimedPlaces
<1>5. ~HandlerDies(a)
  BY <1>0 DEF HandlerDies, NoFlow
<1>6. ~FlowFails(a)
  BY <1>2 DEF FlowFails
<1>7. FlowStep(a)
  BY <1>3, <1>4, <1>5, <1>6 DEF Acts
<1>8. Committed(a) \/ WriteSnapshot(a) \/ Record(a) \/ Enrich(a) \/ MarkResolved(a) \/ Finish(a)
  <2>1. flow[a].at \in ClaimedPlaces /\ flow[a].at \notin Outcomes
    BY <1>1 DEF ClaimedPlaces, Outcomes
  <2>2. QED
    BY <1>7, <2>1 DEF FlowStep, ClaimedPlaces, Sits, Reserved, Stash, CreateGatewayOrder, StashId,
       RecordAttempt, FindOrder, LoadStash, Recheck, LoadAttempt, VerifyAmount, Upsert, Reread,
       ConvertCart, Claim, Cleared, Unstash, MatchPayments, MarkDone, Answer
<1>9. ~(Committed(a) \/ WriteSnapshot(a) \/ Record(a) \/ Enrich(a))
  BY <1>2 DEF Committed, WriteSnapshot, Record, Enrich
<1>10. ~Finish(a)
  BY <1>2 DEF Finish, GoesOn, Awaits
<1>11. QED
  BY <1>1, <1>8, <1>9, <1>10

LEMMA AttemptInductive ==
  ASSUME OrderInv, AttemptInv, OrderNext
  PROVE  AttemptInv'
<1>1. ASSUME NEW o \in Order, attempt[o] = "resolved"
      PROVE  attempt'[o] = "resolved"
  BY <1>1, WhoAttempts
<1>2. ASSUME NEW o \in Order, saved'[o] = "done"
      PROVE  attempt'[o] = "resolved"
  <2>1. CASE saved[o] = "done"
    BY <1>1, <2>1 DEF AttemptInv
  <2>2. CASE saved[o] # "done"
    <3>1. PICK p \in Proc : Finish(p) /\ On(p) = o
      BY <1>2, <2>2, WhoFinishes
    <3>2. QED
      BY <1>1, <3>1 DEF Finish, Sits, AttemptInv
  <2>3. QED
    BY <2>1, <2>2
<1>3. ASSUME NEW p \in Proc, flow'[p].at = "finish"
      PROVE  attempt'[On(p)'] = "resolved"
  <2>1. CASE flow'[p] = flow[p]
    <3>1. attempt[On(p)] = "resolved" /\ On(p) \in Order /\ On(p)' = On(p)
      BY <1>3, <2>1, PlaceFits DEF AttemptInv, On
    <3>2. QED
      BY <1>1, <3>1
  <2>2. CASE flow'[p] # flow[p]
    <3>1. Acts(p)
      BY <2>2, SomeoneActs, ActsTurn DEF Turn
    <3>2. MarkResolved(p) /\ On(p)' = On(p)
      BY <1>3, <2>2, <3>1, ComesToFinish
    <3>3. On(p) \in Order /\ attempt[On(p)] \in {"pending", "resolved"}
      <4>1. On(p) \in Order /\ saved[On(p)] # "absent"
        BY <3>2, PlaceFits DEF MarkResolved, Sits, MayBe, SavedPlaces, ClaimedPlaces
      <4>2. QED
        BY <4>1 DEF OrderInv, DocsFit, OrderTypeOK
    <3>4. attempt' = [attempt EXCEPT ![On(p)] = IF @ = "pending" THEN "resolved" ELSE @]
      BY <3>2 DEF MarkResolved, ResolvedAttempt
    <3>5. attempt'[On(p)] = "resolved"
      BY <3>3, <3>4 DEF OrderInv, OrderTypeOK
    <3>6. QED
      BY <3>2, <3>5
  <2>3. QED
    BY <2>1, <2>2
<1>4. QED
  BY <1>2, <1>3 DEF AttemptInv

(* A handler that will not clear the stash has found none, or never comes   *)
(* to need it.                                                              *)
Later == PaidPlaces \ {"find"}

StashInv ==
  \A p \in Proc :
    flow[p].at \in Later /\ (~flow[p].clears \/ flow[p].at = "recheck") => stash[On(p)] = "none"

(* Nobody writes a stash for an order that is paid. *)
LEMMA StashGone ==
  ASSUME OrderInv, OrderNext, NEW o \in Order, payment[o] = "captured", stash[o] = "none"
  PROVE  stash'[o] = "none"
<1>1. ASSUME NEW p \in Proc, Stash(p) \/ StashId(p)
      PROVE  stash'[o] = "none"
  <2>1. flow[p].at \in InitiatePlaces /\ On(p) # o
    <3>1. flow[p].at \in InitiatePlaces
      BY <1>1 DEF Stash, StashId, Sits, InitiatePlaces
    <3>2. payment[On(p)] = "none"
      BY <3>1, PlaceFits DEF MayBe, CalledFor
    <3>3. QED
      BY <3>1, <3>2
  <2>2. QED
    BY <1>1, <2>1 DEF Stash, StashId, OrderInv, OrderTypeOK
<1>2. ASSUME NEW p \in Proc, Unstash(p)
      PROVE  stash'[o] = "none"
  BY <1>2 DEF Unstash, OrderInv, OrderTypeOK
<1>3. ASSUME NEW p \in Proc, FlowStep(p), ~(Stash(p) \/ StashId(p) \/ Unstash(p))
      PROVE  UNCHANGED stash
  BY <1>3 DEF FlowStep, Reserved, CreateGatewayOrder, RecordAttempt, FindOrder,
     LoadStash, Recheck, LoadAttempt, VerifyAmount, Upsert, Reread, ConvertCart, Claim, Committed,
     WriteSnapshot, Record, Enrich, MarkResolved, Finish, Cleared, MatchPayments, MarkDone, Answer,
     documents
<1>4. ASSUME NEW p \in Proc, Acts(p), ~FlowStep(p)
      PROVE  UNCHANGED stash
  BY <1>4 DEF Acts, InventoryStep, FlowCaller, InitiateOrder, VerifyPayment, Deliver,
     CronReconcile, ListPending, Completes, SweepEnds, SweepStarts, HandlerDies, OperationFails,
     FlowFails, documents
<1>5. ASSUME NEW a \in Order, StashExpires(a)
      PROVE  stash'[o] = "none"
  BY <1>5 DEF StashExpires, OrderInv, OrderTypeOK
<1>6. ASSUME NEW a \in Order, Pay(a) \/ Webhook(a) \/ ClaimAges(a) \/ TimePasses(a)
      PROVE  UNCHANGED stash
  BY <1>6 DEF Pay, Webhook, ClaimAges, TimePasses, documents
<1>7. ASSUME NEW r \in Row, LockAges(r)
      PROVE  UNCHANGED stash
  BY <1>7 DEF LockAges, documents
<1>8. (\E p \in Proc : Acts(p)) \/ (\E a \in Order : Pay(a) \/ Webhook(a) \/ StashExpires(a) \/ ClaimAges(a) \/ TimePasses(a)) \/ \E r \in Row : LockAges(r)
  BY DEF OrderNext, Acts
<1>9. QED
  BY <1>1, <1>2, <1>3, <1>4, <1>5, <1>6, <1>7, <1>8

LEMMA ComesLater ==
  ASSUME OrderInv, NEW a \in Proc, Acts(a), flow'[a].at \in Later, flow'[a] # flow[a]
  PROVE  /\ On(a)' = On(a) /\ flow[a].at \in PaidPlaces
         /\ \/ flow'[a].clears /\ flow'[a].at # "recheck"
            \/ stash[On(a)] = "none"
            \/ flow[a].at = "recheck"
            \/ flow[a].at # "find" /\ flow'[a].clears = flow[a].clears /\ flow'[a].at # "recheck"
<1> USE DEF PaidPlaces, LookupPlaces, ClaimedPlaces, ClosingPlaces
<1>0. flow[a] \in Flow /\ flow \in [Proc -> Flow] /\ flow[a].at # "not_found"
  BY PlaceFits DEF OrderInv, OrderTypeOK, MayBe
<1>1. ASSUME NEW at, Goes(a, at)
      PROVE  flow'[a].at = at /\ On(a)' = On(a) /\ flow'[a].clears = flow[a].clears
  BY <1>0, <1>1 DEF Goes, On, Flow
<1>2. ~(InventoryStep(a) \/ OperationFails(a) \/ SweepEnds(a) \/ \E o \in Order : SweepStarts(a, o))
  BY DEF InventoryStep, OperationFails, SweepEnds, SweepStarts
<1>3. ASSUME flow' = [flow EXCEPT ![a] = NoFlow]
      PROVE  flow'[a].at = "none"
  BY <1>0, <1>3 DEF NoFlow
<1>4. ~FlowCaller(a) /\ ~HandlerDies(a) /\ ~FlowFails(a)
  <2>1. ASSUME NEW source, NEW o, NEW at, flow' = [flow EXCEPT ![a] = Begun(source, o, at)]
        PROVE  flow'[a].at = at
    BY <1>0, <2>1 DEF Begun, NoFlow
  <2>2. ~HandlerDies(a)
    BY <1>3 DEF HandlerDies, Later
  <2>3. ~\E o \in Order : InitiateOrder(a, o)
    BY <2>1 DEF InitiateOrder, Later
  <2>4. ~\E o \in Order : \/ VerifyPayment(a, o) \/ Deliver(a, o) \/ CronReconcile(a, o)
                          \/ ListPending(a, o)
    BY <2>1 DEF VerifyPayment, Deliver, CronReconcile, ListPending, Completes, Later
  <2>5. ~FlowFails(a)
    BY <1>1 DEF FlowFails, Later
  <2>6. QED
    BY <2>2, <2>3, <2>4, <2>5 DEF FlowCaller
<1>5. FlowStep(a)
  BY <1>2, <1>4 DEF Acts
<1>6. ~(Reserved(a) \/ Stash(a) \/ CreateGatewayOrder(a) \/ StashId(a) \/ RecordAttempt(a)
        \/ MatchPayments(a) \/ MarkDone(a))
  BY <1>1, <1>3 DEF Reserved, Stash, CreateGatewayOrder, StashId, RecordAttempt, MatchPayments,
     MarkDone, Later
<1>7. CASE LoadStash(a)
  <2>1. flow[a].at = "loadStash"
    BY <1>7 DEF LoadStash, Sits
  <2>2. CASE stash[On(a)] = "none"
    BY <1>1, <1>7, <2>1, <2>2 DEF LoadStash
  <2>3. CASE stash[On(a)] # "none"
    BY <1>1, <1>7, <2>1, <2>3 DEF LoadStash
  <2>4. QED
    BY <2>2, <2>3
<1>8. CASE \/ LoadAttempt(a) \/ VerifyAmount(a) \/ ConvertCart(a) \/ Committed(a) \/ WriteSnapshot(a)
           \/ Record(a) \/ Enrich(a) \/ MarkResolved(a) \/ Cleared(a) \/ Unstash(a)
  <2>1. flow[a].at \in PaidPlaces \ {"find"}
    BY <1>8 DEF LoadAttempt, VerifyAmount, ConvertCart, Committed, WriteSnapshot, Record, Enrich,
       MarkResolved, Cleared, Unstash, Sits
  <2>2. \E at : Goes(a, at) /\ at # "recheck"
    BY <1>8 DEF LoadAttempt, VerifyAmount, ConvertCart, Committed, WriteSnapshot, Record, Enrich,
       MarkResolved, Cleared, Unstash
  <2>3. QED
    BY <1>1, <2>1, <2>2
<1>9. CASE Claim(a) \/ Finish(a)
  <2>1. flow[a].at \in PaidPlaces \ {"find"}
    BY <1>9 DEF Claim, Finish, Sits
  <2>2. \E at : Goes(a, at) /\ at # "recheck"
    BY <1>9 DEF Claim, Finish, GoesOn, Awaits
  <2>3. QED
    BY <1>1, <2>1, <2>2
<1>10. CASE Answer(a)
  <2>1. Goes(a, "markDone") /\ flow[a].at = "existing"
    BY <1>0, <1>3, <1>10 DEF Answer, Later
  <2>2. QED
    BY <1>1, <2>1
<1>11. CASE FindOrder(a)
  <2>1. ASSUME NEW at, NEW s, flow' = [flow EXCEPT ![a].at = at, ![a].seen = s, ![a].clears = TRUE]
        PROVE  flow'[a].at = at /\ On(a)' = On(a) /\ flow'[a].clears
    BY <1>0, <2>1 DEF Flow, On
  <2>2. ASSUME NEW at \in {"loadStash", "claim"}, NEW s,
               flow' = [flow EXCEPT ![a].at = at, ![a].seen = s, ![a].clears = TRUE]
        PROVE  On(a)' = On(a) /\ flow'[a].clears /\ flow'[a].at # "recheck"
    BY <2>1, <2>2
  <2>3. \E at \in {"loadStash", "claim"} : \E s :
          flow' = [flow EXCEPT ![a].at = at, ![a].seen = s, ![a].clears = TRUE]
    BY <1>11, Zenon DEF FindOrder
  <2>4. flow[a].at = "find"
    BY <1>11 DEF FindOrder, Sits
  <2>5. QED
    BY <2>2, <2>3, <2>4
<1>12. CASE Recheck(a)
  <2>1. ASSUME NEW at, NEW s, NEW c, flow' = [flow EXCEPT ![a].at = at, ![a].seen = s, ![a].clears = c]
        PROVE  On(a)' = On(a)
    BY <1>0, <2>1 DEF Flow, On
  <2>2. \E at, s, c : flow' = [flow EXCEPT ![a].at = at, ![a].seen = s, ![a].clears = c]
    BY <1>12, Zenon DEF Recheck
  <2>3. flow[a].at = "recheck"
    BY <1>12 DEF Recheck, Sits
  <2>4. QED
    BY <2>1, <2>2, <2>3
<1>13. CASE Upsert(a)
  <2>1. ASSUME NEW c, flow' = [flow EXCEPT ![a].at = "reread", ![a].created = c]
        PROVE  flow'[a].at = "reread" /\ On(a)' = On(a) /\ flow'[a].clears = flow[a].clears
    BY <1>0, <2>1 DEF Flow, On
  <2>2. \E c : flow' = [flow EXCEPT ![a].at = "reread", ![a].created = c]
    BY <1>13, Zenon DEF Upsert
  <2>3. flow[a].at = "upsert"
    BY <1>13 DEF Upsert, Sits
  <2>4. QED
    BY <2>1, <2>2, <2>3
<1>14. CASE Reread(a)
  <2>1. ASSUME NEW at \in {"convert", "claim"}, NEW s, flow' = [flow EXCEPT ![a].at = at, ![a].seen = s]
        PROVE  flow'[a].at # "recheck" /\ On(a)' = On(a) /\ flow'[a].clears = flow[a].clears
    BY <1>0, <2>1 DEF Flow, On
  <2>2. \E at \in {"convert", "claim"} : \E s : flow' = [flow EXCEPT ![a].at = at, ![a].seen = s]
    BY <1>14, Zenon DEF Reread
  <2>3. flow[a].at = "reread"
    BY <1>14 DEF Reread, Sits
  <2>4. QED
    BY <2>1, <2>2, <2>3
<1>15. QED
  BY <1>5, <1>6, <1>7, <1>8, <1>9, <1>10, <1>11, <1>12, <1>13, <1>14 DEF FlowStep

LEMMA StashInductive ==
  ASSUME OrderInv, StashInv, OrderNext
  PROVE  StashInv'
<1> SUFFICES ASSUME NEW p \in Proc, flow'[p].at \in Later,
                    ~flow'[p].clears \/ flow'[p].at = "recheck"
             PROVE  stash'[On(p)'] = "none"
  BY DEF StashInv
<1>1. ASSUME flow[p].at \in PaidPlaces
      PROVE  On(p) \in Order /\ payment[On(p)] = "captured"
  BY <1>1, PlaceFits DEF MayBe, PaidPlaces, LookupPlaces, ClaimedPlaces, ClosingPlaces
<1>2. CASE flow'[p] = flow[p]
  <2>1. flow[p].at \in PaidPlaces /\ stash[On(p)] = "none" /\ On(p)' = On(p)
    BY <1>2 DEF StashInv, Later, On
  <2>2. QED
    BY <1>1, <2>1, StashGone
<1>3. CASE flow'[p] # flow[p]
  <2>1. Acts(p)
    BY <1>3, SomeoneActs, ActsTurn DEF Turn
  <2>2. On(p)' = On(p) /\ flow[p].at \in PaidPlaces
    BY <1>3, <2>1, ComesLater
  <2>3. stash[On(p)] = "none"
    <3>1. CASE flow[p].at = "recheck"
      BY <2>2, <3>1 DEF StashInv, Later
    <3>2. CASE flow[p].at # "find" /\ flow'[p].clears = flow[p].clears /\ flow'[p].at # "recheck"
      <4>1. ~flow[p].clears
        BY <3>2
      <4>2. QED
        BY <2>2, <3>2, <4>1 DEF StashInv, Later
    <3>3. QED
      BY <1>3, <2>1, <3>1, <3>2, ComesLater
  <2>4. QED
    BY <1>1, <2>2, <2>3, StashGone
<1>4. QED
  BY <1>2, <1>3

-----------------------------------------------------------------------------
(* What a finished order has behind it, or somebody is still at *)

Converting(p, o) ==
  On(p) = o /\ (flow[p].at = "convert" \/ (flow[p].at = "reread" /\ flow[p].created))

Clearing(p, o) == On(p) = o /\ flow[p].at \in {"clearing", "unstash"}

CartInv ==
  Uncut => \A o \in Order :
    saved[o] # "absent" => cart[o] = "converted" \/ \E p \in Proc : Converting(p, o)

ClearInv ==
  Uncut => \A o \in Order :
    saved[o] = "done" => stash[o] = "none" \/ \E p \in Proc : Clearing(p, o)

(* While nothing fails, a handler under way leaves its place by its own     *)
(* next step alone.                                                         *)
LEMMA OwnStep ==
  ASSUME OrderInv, OrderNext, faults' = 0, NEW p \in Proc, flow[p].at # "none",
         flow'[p] # flow[p]
  PROVE  FlowStep(p)
<1>1. Acts(p)
  BY SomeoneActs, ActsTurn DEF Turn
<1>2. ~HandlerDies(p) /\ ~FlowFails(p)
  BY NothingFailed
<1>3. ~(InventoryStep(p) \/ OperationFails(p) \/ SweepEnds(p) \/ \E o \in Order : SweepStarts(p, o))
  BY DEF InventoryStep, OperationFails, SweepEnds, SweepStarts
<1>4. ~FlowCaller(p)
  BY DEF FlowCaller, InitiateOrder, VerifyPayment, Deliver, CronReconcile, ListPending,
     Completes, Free, NoFlow
<1>5. QED
  BY <1>1, <1>2, <1>3, <1>4 DEF Acts

LEMMA ConvertingStays ==
  ASSUME OrderInv, OrderNext, faults' = 0, NEW p \in Proc, NEW o \in Order, Converting(p, o)
  PROVE  cart'[o] = "converted" \/ Converting(p, o)'
<1>0. flow[p] \in Flow /\ flow \in [Proc -> Flow] /\ flow[p].at \in {"convert", "reread"}
  BY DEF OrderInv, OrderTypeOK, Converting
<1>1. CASE flow'[p] = flow[p]
  BY <1>1 DEF Converting, On
<1>2. CASE flow'[p] # flow[p]
  <2>1. FlowStep(p)
    BY <1>0, <1>2, OwnStep
  <2>2. Reread(p) \/ ConvertCart(p)
    BY <1>0, <2>1 DEF FlowStep, Sits, Outcomes, Reserved, Stash, CreateGatewayOrder, StashId,
       RecordAttempt, FindOrder, LoadStash, Recheck, LoadAttempt, VerifyAmount, Upsert, Claim,
       Committed, WriteSnapshot, Record, Enrich, MarkResolved, Finish, Cleared, Unstash,
       MatchPayments, MarkDone, Answer
  <2>3. CASE ConvertCart(p)
    BY <2>3 DEF ConvertCart, Converting, OrderInv, OrderTypeOK
  <2>4. CASE Reread(p)
    <3>1. flow[p].created
      BY <2>4 DEF Reread, Sits, Converting
    <3>2. \E s : flow' = [flow EXCEPT ![p].at = "convert", ![p].seen = s]
      BY <2>4, <3>1, Zenon DEF Reread
    <3>3. ASSUME NEW s, flow' = [flow EXCEPT ![p].at = "convert", ![p].seen = s]
          PROVE  flow'[p].at = "convert" /\ On(p)' = On(p)
      BY <1>0, <3>3 DEF Flow, On
    <3>4. QED
      BY <3>2, <3>3 DEF Converting
  <2>5. QED
    BY <2>2, <2>3, <2>4
<1>3. QED
  BY <1>1, <1>2

LEMMA ClearingStays ==
  ASSUME OrderInv, ServesInv, OrderNext, faults' = 0, NEW p \in Proc, NEW o \in Order,
         Clearing(p, o)
  PROVE  stash'[o] = "none" \/ Clearing(p, o)'
<1>0. flow[p] \in Flow /\ flow \in [Proc -> Flow] /\ flow[p].at \in {"clearing", "unstash"}
  BY DEF OrderInv, OrderTypeOK, Clearing
<1>1. CASE flow'[p] = flow[p]
  BY <1>1 DEF Clearing, On
<1>2. CASE flow'[p] # flow[p]
  <2>1. FlowStep(p)
    BY <1>0, <1>2, OwnStep
  <2>2. Cleared(p) \/ Unstash(p)
    BY <1>0, <2>1 DEF FlowStep, Sits, Outcomes, Reserved, Stash, CreateGatewayOrder, StashId,
       RecordAttempt, FindOrder, LoadStash, Recheck, LoadAttempt, VerifyAmount, Upsert, Reread,
       ConvertCart, Claim, Committed, WriteSnapshot, Record, Enrich, MarkResolved, Finish,
       MatchPayments, MarkDone, Answer
  <2>3. CASE Unstash(p)
    BY <2>3 DEF Unstash, Clearing, OrderInv, OrderTypeOK
  <2>4. CASE Cleared(p)
    <3>1. task[p].pc \in {"ok", "raised"} /\ flow[p].at = "clearing"
      BY <2>4 DEF Cleared, Sits, Return, Ended
    <3>2. task[p].op = "release"
      <4>1. Placing(task[p]) /\ task[p].op \in Ops /\ Serves(p)
        BY TaskRecords DEF ServesInv, TasksPlaced, Task, OrderInv, Below
      <4>2. QED
        BY <3>1, <4>1 DEF Placing, Serves, Ops
    <3>3. At(p, "ok")
      <4>1. faults = 0
        BY NothingFailed
      <4>2. QED
        BY <3>1, <3>2, <4>1 DEF ServesInv, Serves, At
    <3>4. Goes(p, "unstash")
      BY <2>4, <3>3 DEF Cleared
    <3>5. flow'[p].at = "unstash" /\ On(p)' = On(p)
      BY <1>0, <3>4 DEF Goes, Flow, On
    <3>6. QED
      BY <3>5 DEF Clearing
  <2>5. QED
    BY <2>2, <2>3, <2>4
<1>3. QED
  BY <1>1, <1>2

LEMMA WhoSaves ==
  ASSUME OrderInv, OrderNext, NEW o \in Order, saved[o] = "absent", saved'[o] # "absent"
  PROVE  \E p \in Proc : Upsert(p) /\ On(p) = o
<1>1. ASSUME NEW p \in Proc, Claim(p)
      PROVE  FALSE
  BY <1>1 DEF Claim, Claimable, OrderInv, OrderTypeOK
<1>2. ASSUME NEW p \in Proc, Finish(p)
      PROVE  FALSE
  <2>1. On(p) \in Order /\ saved[On(p)] # "absent"
    BY <1>2, PlaceFits DEF Finish, Sits, MayBe, SavedPlaces, ClaimedPlaces
  <2>2. QED
    BY <1>2, <2>1 DEF Finish, OrderInv, OrderTypeOK
<1>3. ASSUME NEW p \in Proc, Upsert(p)
      PROVE  On(p) = o
  BY <1>3 DEF Upsert, OrderInv, OrderTypeOK
<1>4. ASSUME NEW p \in Proc, FlowStep(p), ~(Upsert(p) \/ Claim(p) \/ Finish(p))
      PROVE  FALSE
  BY <1>4 DEF FlowStep, Reserved, Stash, CreateGatewayOrder, StashId, RecordAttempt, FindOrder,
     LoadStash, Recheck, LoadAttempt, VerifyAmount, Reread, ConvertCart, Committed, WriteSnapshot,
     Record, Enrich, MarkResolved, Cleared, Unstash, MatchPayments, MarkDone, Answer, documents
<1>5. ASSUME NEW p \in Proc, Acts(p), ~FlowStep(p)
      PROVE  FALSE
  BY <1>5 DEF Acts, InventoryStep, FlowCaller, InitiateOrder, VerifyPayment, Deliver,
     CronReconcile, ListPending, Completes, SweepEnds, SweepStarts, HandlerDies, OperationFails,
     FlowFails, documents
<1>6. ASSUME NEW a \in Order, Pay(a) \/ Webhook(a) \/ StashExpires(a) \/ ClaimAges(a) \/ TimePasses(a)
      PROVE  FALSE
  BY <1>6 DEF Pay, Webhook, StashExpires, ClaimAges, TimePasses, documents
<1>7. ASSUME NEW r \in Row, LockAges(r)
      PROVE  FALSE
  BY <1>7 DEF LockAges, documents
<1>8. QED
  BY <1>1, <1>2, <1>3, <1>4, <1>5, <1>6, <1>7 DEF OrderNext, Acts

LEMMA CartStays ==
  ASSUME OrderInv, OrderNext, NEW o \in Order, cart[o] = "converted"
  PROVE  cart'[o] = "converted"
<1>1. ASSUME NEW p \in Proc, ConvertCart(p)
      PROVE  cart'[o] = "converted"
  BY <1>1 DEF ConvertCart, OrderInv, OrderTypeOK
<1>2. ASSUME NEW p \in Proc, FlowStep(p), ~ConvertCart(p)
      PROVE  UNCHANGED cart
  BY <1>2 DEF FlowStep, Reserved, Stash, CreateGatewayOrder, StashId, RecordAttempt, FindOrder,
     LoadStash, Recheck, LoadAttempt, VerifyAmount, Upsert, Reread, Claim, Committed,
     WriteSnapshot, Record, Enrich, MarkResolved, Finish, Cleared, Unstash, MatchPayments, MarkDone,
     Answer, documents
<1>3. ASSUME NEW p \in Proc, Acts(p), ~FlowStep(p)
      PROVE  UNCHANGED cart
  BY <1>3 DEF Acts, InventoryStep, FlowCaller, InitiateOrder, VerifyPayment, Deliver,
     CronReconcile, ListPending, Completes, SweepEnds, SweepStarts, HandlerDies, OperationFails,
     FlowFails, documents
<1>4. ASSUME NEW a \in Order, Pay(a) \/ Webhook(a) \/ StashExpires(a) \/ ClaimAges(a) \/ TimePasses(a)
      PROVE  UNCHANGED cart
  BY <1>4 DEF Pay, Webhook, StashExpires, ClaimAges, TimePasses, documents
<1>5. ASSUME NEW r \in Row, LockAges(r)
      PROVE  UNCHANGED cart
  BY <1>5 DEF LockAges, documents
<1>6. (\E p \in Proc : Acts(p)) \/ (\E a \in Order : Pay(a) \/ Webhook(a) \/ StashExpires(a) \/ ClaimAges(a) \/ TimePasses(a)) \/ \E r \in Row : LockAges(r)
  BY DEF OrderNext, Acts
<1>7. QED
  BY <1>1, <1>2, <1>3, <1>4, <1>5, <1>6

LEMMA CartInductive ==
  ASSUME OrderInv, CartInv, OrderNext
  PROVE  CartInv'
<1> SUFFICES ASSUME Uncut', NEW o \in Order, saved'[o] # "absent"
             PROVE  cart'[o] = "converted" \/ \E p \in Proc : Converting(p, o)'
  BY DEF CartInv
<1>1. faults' = 0 /\ Uncut
  BY NothingFailed DEF Uncut
<1>2. CASE saved[o] # "absent"
  BY <1>1, <1>2, CartStays, ConvertingStays DEF CartInv
<1>3. CASE saved[o] = "absent"
  <2>1. PICK p \in Proc : Upsert(p) /\ On(p) = o
    BY <1>3, WhoSaves
  <2>2. \E c : flow' = [flow EXCEPT ![p].at = "reread", ![p].created = c] /\ c = TRUE
    <3>1. flow' = [flow EXCEPT ![p].at = "reread", ![p].created = saved[On(p)] = "absent"]
      BY <2>1 DEF Upsert
    <3>2. (saved[On(p)] = "absent") = TRUE
      BY <1>3, <2>1
    <3>3. QED
      BY <3>1, <3>2, Zenon
  <2>3. ASSUME NEW c, flow' = [flow EXCEPT ![p].at = "reread", ![p].created = c]
        PROVE  flow'[p].at = "reread" /\ On(p)' = On(p) /\ flow'[p].created = c
    BY <2>3 DEF Flow, On, OrderInv, OrderTypeOK
  <2>4. QED
    BY <2>1, <2>2, <2>3 DEF Converting
<1>4. QED
  BY <1>2, <1>3

LEMMA ClearInductive ==
  ASSUME OrderInv, ServesInv, StashInv, ClearInv, OrderNext
  PROVE  ClearInv'
<1> SUFFICES ASSUME Uncut', NEW o \in Order, saved'[o] = "done"
             PROVE  stash'[o] = "none" \/ \E p \in Proc : Clearing(p, o)'
  BY DEF ClearInv
<1>1. faults' = 0 /\ Uncut
  BY NothingFailed DEF Uncut
<1>2. CASE saved[o] = "done"
  <2>1. payment[o] = "captured"
    BY <1>2 DEF OrderInv, DocsFit
  <2>2. QED
    BY <1>1, <1>2, <2>1, StashGone, ClearingStays DEF ClearInv
<1>3. CASE saved[o] # "done"
  <2>1. PICK p \in Proc : Finish(p) /\ On(p) = o
    BY <1>3, WhoFinishes
  <2>2. flow[p].at = "finish" /\ payment[o] = "captured"
    BY <2>1, PlaceFits DEF Finish, Sits, MayBe, PaidPlaces, ClaimedPlaces
  <2>3. CASE flow[p].clears
    <3>1. Goes(p, "clearing")
      BY <2>1, <2>3 DEF Finish, GoesOn, Awaits
    <3>2. flow'[p].at = "clearing" /\ On(p)' = On(p)
      BY <3>1 DEF Goes, Flow, On, OrderInv, OrderTypeOK
    <3>3. QED
      BY <2>1, <3>2 DEF Clearing
  <2>4. CASE ~flow[p].clears
    <3>1. stash[o] = "none"
      BY <2>1, <2>2, <2>4 DEF StashInv, Later, PaidPlaces, ClaimedPlaces
    <3>2. QED
      BY <2>2, <3>1, StashGone
  <2>5. QED
    BY <2>3, <2>4
<1>4. QED
  BY <1>2, <1>3

TidyInv == MirrorFits /\ HeldInv /\ SettledInv /\ AttemptInv /\ StashInv /\ CartInv /\ ClearInv

LEMMA TidyInitFits == OrderInit => TidyInv
<1> SUFFICES ASSUME OrderInit PROVE TidyInv
  OBVIOUS
<1> USE DEF OrderInit, Init
<1>1. MirrorFits /\ HeldInv
  BY DEF MirrorFits, HeldInv, HeldFits, Idle, NoFlow, ReservedPlaces
<1>2. SettledInv
  BY DEF SettledInv, Past, Resolved, Settling
<1>3. AttemptInv /\ StashInv
  BY DEF AttemptInv, StashInv, Later, PaidPlaces, LookupPlaces, ClaimedPlaces, ClosingPlaces, NoFlow, On
<1>4. CartInv /\ ClearInv
  BY DEF CartInv, ClearInv
<1>5. QED
  BY <1>1, <1>2, <1>3, <1>4 DEF TidyInv

LEMMA TidyInvCorrect == OrderSpec => []TidyInv
<1>1. OrderInv /\ OnceInv /\ TidyInv /\ [OrderNext]_orderVars => TidyInv'
  <2> SUFFICES ASSUME OrderInv, OnceInv, TidyInv, [OrderNext]_orderVars
               PROVE  TidyInv'
    OBVIOUS
  <2>1. CASE OrderNext
    BY <2>1, MirrorInductive, HeldInductive, SettledInductive, AttemptInductive, StashInductive,
       CartInductive, ClearInductive DEF OnceInv, TidyInv
  <2>2. CASE UNCHANGED orderVars
    <3> USE <2>2 DEF orderVars, vars, stores, env, history, documents, TidyInv
    <3>1. MirrorFits' /\ HeldInv'
      BY DEF MirrorFits, HeldInv, HeldFits, OrderOf, On
    <3>2. SettledInv'
      BY DEF SettledInv, Uncut, Past, Committing, Claims, Settling, Settles, Short, OrderOf, On, At
    <3>3. AttemptInv' /\ StashInv'
      BY DEF AttemptInv, StashInv, On
    <3>4. CartInv' /\ ClearInv'
      BY DEF CartInv, ClearInv, Uncut, Converting, Clearing, On
    <3>5. QED
      BY <3>1, <3>2, <3>3, <3>4
  <2>3. QED
    BY <2>1, <2>2
<1>2. QED
  BY <1>1, TidyInitFits, OrderInvCorrect, OnceInvCorrect, PTL DEF OrderSpec

(* A finished order leaves nothing of its checkout behind, whoever finished *)
(* it and however the callers came between each other: once its handlers    *)
(* are gone there is no stash, no pending attempt, no active cart and no    *)
(* hold, unless the order is short.                                         *)
THEOREM FinishedIsTidy ==
  ASSUME Calm
  PROVE  OrderSpec => []DoneIsTidy
<1>1. OrderInv /\ TidyInv => DoneIsTidy
  <2> SUFFICES ASSUME OrderInv, TidyInv, faults = 0, NEW o \in Order, saved[o] = "done",
                      \A p \in Proc : Free(p)
               PROVE  /\ stash[o] = "none" /\ attempt[o] = "resolved" /\ cart[o] = "converted"
                      /\ Short(o) \/ held[o] = {}
    BY DEF DoneIsTidy
  <2>1. Uncut
    BY DEF Uncut
  <2>2. \A p \in Proc : flow[p].at = "none" /\ task[p].pc = "idle"
    BY DEF Free, NoFlow, At
  <2>3. stash[o] = "none" /\ attempt[o] = "resolved" /\ cart[o] = "converted"
    BY <2>1, <2>2 DEF TidyInv, ClearInv, Clearing, AttemptInv, CartInv, Converting
  <2>4. Settling(o) \/ Short(o)
    BY <2>1 DEF TidyInv, SettledInv, Past
  <2>5. ~\E p \in Proc : Settles(p, o)
    BY <2>2 DEF Settles, TakingBack, SyncSteps
  <2>6. QED
    BY <2>3, <2>4, <2>5 DEF Settling
<1>2. QED
  BY <1>1, OrderInvCorrect, TidyInvCorrect, PTL

=============================================================================
