--------------------------- MODULE OrderCompletion ---------------------------
(***************************************************************************)
(* src/services/order_service.py: from initiate_order to an order whose    *)
(* post-processing is done, on top of Inventory.                           *)
(*                                                                         *)
(* The client's verify call, the payment webhook's event in the worker,    *)
(* the cron endpoint and the worker's reconcile loop all complete the same *)
(* order.  A handler's place is in flow; while it awaits an operation of   *)
(* InventoryService, task holds that operation's place.                    *)
(***************************************************************************)
EXTENDS Inventory

CONSTANTS
  Completers,     \* who calls complete_pending_order
  MaxDeliveries,  \* MAX_DELIVERY_ATTEMPTS of the order stream
  Expiry          \* do the Redis keys' TTLs pass?

ASSUME CompletionAssumption ==
  /\ Completers \subseteq {"verify", "webhook", "cron", "reconcile"}
  /\ MaxDeliveries \in Nat \ {0}
  /\ Expiry \in BOOLEAN

VARIABLES
  flow,        \* where each handler is in OrderService
  stash,       \* pending_order:<order>: without and then with the gateway's id
  attempt,     \* payment_attempts.status
  saved,       \* orders.post_processing_status, "absent" without a document
  claimOld,    \* post_processing_claimed_at is past the stale cutoff
  cart,        \* abandoned_carts.status of the customer
  ledger,      \* payment_captured entries in order_events
  payment,     \* what the gateway knows
  event,       \* the payment.captured event in the order stream
  deliveries   \* its delivery count, up to MaxDeliveries

documents  == <<stash, attempt, saved, claimOld, cart, ledger>>
outside    == <<payment, event, deliveries>>
inventory  == <<stores, env, history>>
orderVars  == <<vars, flow, documents, outside>>

Sources == {"none", "initiate", "verify", "webhook", "cron", "reconcile"}

InitiatePlaces == {"reserving", "stash", "gateway", "stashId", "attempt"}
LookupPlaces   == {"listed", "find", "loadStash", "recheck", "loadAttempt",
                   "verifyAmount", "upsert", "reread", "convert", "claim"}
ClaimedPlaces  == {"committing", "snapshot", "record", "enrich", "resolve", "finish"}
ClosingPlaces  == {"clearing", "unstash", "markDone"}
Outcomes       == {"answered", "created", "existing", "not_found", "raised"}

Flow == [at : {"none"} \cup InitiatePlaces \cup LookupPlaces \cup ClaimedPlaces
              \cup ClosingPlaces \cup Outcomes,
         order : Order \cup {NoOrder}, source : Sources,
         seen : {"absent", "pending", "in_progress", "done"},
         created : BOOLEAN, clears : BOOLEAN]

NoFlow == [at |-> "none", order |-> NoOrder, source |-> "none",
           seen |-> "absent", created |-> FALSE, clears |-> FALSE]

Begun(source, o, at) ==
  [NoFlow EXCEPT !.at = at, !.order = o, !.source = source]

Sits(p, at) == flow[p].at = at
On(p) == flow[p].order
Free(p) == flow[p] = NoFlow /\ At(p, "idle")
Working(source, o) == \E p \in Proc : flow[p].source = source /\ On(p) = o

Goes(p, at) == flow' = [flow EXCEPT ![p].at = at]

(* Await an operation of InventoryService. *)
Awaits(p, op, at) ==
  /\ Goes(p, at)
  /\ task' = [task EXCEPT ![p] = Started(op, On(p), "load")]

OrderInit ==
  /\ Init
  /\ flow = [p \in Proc |-> NoFlow]
  /\ stash = [o \in Order |-> "none"]
  /\ attempt = [o \in Order |-> "none"]
  /\ saved = [o \in Order |-> "absent"]
  /\ claimOld = [o \in Order |-> FALSE]
  /\ cart = [o \in Order |-> "active"]
  /\ ledger = [o \in Order |-> 0]
  /\ payment = [o \in Order |-> "none"]
  /\ event = [o \in Order |-> "none"]
  /\ deliveries = [o \in Order |-> 0]

-----------------------------------------------------------------------------
(* initiate_order *)

InitiateOrder(p, o) ==
  /\ Free(p)
  /\ CallReserve(p, o)
  /\ flow' = [flow EXCEPT ![p] = Begun("initiate", o, "reserving")]
  /\ UNCHANGED <<documents, outside>>

(* reserve_for_order returned, or raised and so does initiate_order. *)
Reserved(p) ==
  /\ Sits(p, "reserving")
  /\ Return(p)
  /\ Goes(p, IF At(p, "ok") THEN "stash" ELSE "raised")
  /\ UNCHANGED <<documents, outside>>

Stash(p) ==
  /\ Sits(p, "stash")
  /\ stash' = [stash EXCEPT ![On(p)] = "bare"]
  /\ Goes(p, "gateway")
  /\ UNCHANGED <<inventory, task, attempt, saved, claimOld, cart, ledger, outside>>

(* The gateway creates its order; a failure is FlowFails. *)
CreateGatewayOrder(p) ==
  /\ Sits(p, "gateway")
  /\ Goes(p, "stashId")
  /\ UNCHANGED <<inventory, task, documents, outside>>

StashId(p) ==
  /\ Sits(p, "stashId")
  /\ stash' = [stash EXCEPT ![On(p)] = "payable"]
  /\ Goes(p, "attempt")
  /\ UNCHANGED <<inventory, task, attempt, saved, claimOld, cart, ledger, outside>>

RecordAttempt(p) ==
  /\ Sits(p, "attempt")
  /\ attempt' = [attempt EXCEPT ![On(p)] = IF @ = "none" THEN "pending" ELSE @]
  /\ Goes(p, "answered")
  /\ UNCHANGED <<inventory, task, stash, saved, claimOld, cart, ledger, outside>>

-----------------------------------------------------------------------------
(* complete_pending_order, up to the order document *)

(* The document is there: go and finish it, and clear the stash after. *)
FindOrder(p) ==
  /\ Sits(p, "find")
  /\ flow' = [flow EXCEPT ![p].at = IF saved[On(p)] = "absent" THEN "loadStash" ELSE "claim",
                          ![p].seen = saved[On(p)],
                          ![p].clears = TRUE]
  /\ UNCHANGED <<inventory, task, documents, outside>>

LoadStash(p) ==
  /\ Sits(p, "loadStash")
  /\ Goes(p, IF stash[On(p)] = "none" THEN "recheck" ELSE "verifyAmount")
  /\ UNCHANGED <<inventory, task, documents, outside>>

(* Look again: a document found here is finished but nothing is cleared. *)
Recheck(p) ==
  /\ Sits(p, "recheck")
  /\ flow' = [flow EXCEPT ![p].at = IF saved[On(p)] = "absent" THEN "loadAttempt" ELSE "claim",
                          ![p].seen = saved[On(p)],
                          ![p].clears = saved[On(p)] = "absent"]
  /\ UNCHANGED <<inventory, task, documents, outside>>

LoadAttemptWithoutSnapshot(p) ==
  /\ Sits(p, "loadAttempt")
  /\ Goes(p, "not_found")
  /\ UNCHANGED <<inventory, task, documents, outside>>

(* The snapshot in payment_attempts, whatever the attempt's status. *)
LoadAttempt(p) ==
  /\ Sits(p, "loadAttempt")
  /\ Goes(p, IF attempt[On(p)] = "none" THEN "not_found" ELSE "verifyAmount")
  /\ UNCHANGED <<inventory, task, documents, outside>>

VerifyAmount(p) ==
  /\ Sits(p, "verifyAmount")
  /\ Goes(p, "upsert")
  /\ UNCHANGED <<inventory, task, documents, outside>>

UpsertOverwrites(p) ==
  /\ Sits(p, "upsert")
  /\ saved' = [saved EXCEPT ![On(p)] = "pending"]
  /\ flow' = [flow EXCEPT ![p].at = "reread", ![p].created = saved[On(p)] = "absent"]
  /\ UNCHANGED <<inventory, task, stash, attempt, claimOld, cart, ledger, outside>>

(* The upsert with $setOnInsert on the unique order_id. *)
Upsert(p) ==
  /\ Sits(p, "upsert")
  /\ saved' = [saved EXCEPT ![On(p)] = IF @ = "absent" THEN "pending" ELSE @]
  /\ flow' = [flow EXCEPT ![p].at = "reread", ![p].created = saved[On(p)] = "absent"]
  /\ UNCHANGED <<inventory, task, stash, attempt, claimOld, cart, ledger, outside>>

Reread(p) ==
  /\ Sits(p, "reread")
  /\ flow' = [flow EXCEPT ![p].at = IF flow[p].created THEN "convert" ELSE "claim",
                          ![p].seen = saved[On(p)]]
  /\ UNCHANGED <<inventory, task, documents, outside>>

(* AbandonedCartService.mark_converted; its errors are swallowed. *)
ConvertCart(p) ==
  /\ Sits(p, "convert")
  /\ cart' = [cart EXCEPT ![On(p)] = "converted"]
  /\ Goes(p, "claim")
  /\ UNCHANGED <<inventory, task, stash, attempt, saved, claimOld, ledger, outside>>

-----------------------------------------------------------------------------
(* _finish_post_processing *)

GoesOnWithoutAwait(p) ==
  IF flow[p].clears
  THEN Goes(p, "clearing") /\ UNCHANGED task
  ELSE Goes(p, "existing") /\ UNCHANGED task

GoesOnWithoutClearing(p) == Goes(p, "existing") /\ UNCHANGED task

(* Back in complete_pending_order: _clear_pending_redis releases the       *)
(* reservation first, whether this handler finished the order or lost.     *)
GoesOn(p) ==
  IF flow[p].clears
  THEN Awaits(p, "release", "clearing")
  ELSE Goes(p, "existing") /\ UNCHANGED task

ClaimableWhileFresh(o) == saved[o] \in {"pending", "in_progress"}

Claimable(o) == saved[o] = "pending" \/ (saved[o] = "in_progress" /\ claimOld[o])

(* The find_one_and_update that claims the post-processing. *)
Claim(p) ==
  /\ Sits(p, "claim")
  /\ \/ /\ flow[p].seen \in {"pending", "in_progress"}
        /\ Claimable(On(p))
        /\ saved' = [saved EXCEPT ![On(p)] = "in_progress"]
        /\ claimOld' = [claimOld EXCEPT ![On(p)] = FALSE]
        /\ Awaits(p, "commit", "committing")
     \/ /\ flow[p].seen = "done" \/ ~Claimable(On(p))
        /\ GoesOn(p)
        /\ UNCHANGED <<saved, claimOld>>
  /\ UNCHANGED <<inventory, stash, attempt, cart, ledger, outside>>

(* commit_reservation returned, or raised: the claim stays behind. *)
Committed(p) ==
  /\ Sits(p, "committing")
  /\ Return(p)
  /\ Goes(p, IF At(p, "ok") THEN "snapshot" ELSE "raised")
  /\ UNCHANGED <<documents, outside>>

(* The order_logs upsert. *)
WriteSnapshot(p) ==
  /\ Sits(p, "snapshot")
  /\ Goes(p, "record")
  /\ UNCHANGED <<inventory, task, documents, outside>>

(* The alert and the two ledger entries: none of them ever raises. *)
Record(p) ==
  /\ Sits(p, "record")
  /\ ledger' = [ledger EXCEPT ![On(p)] = @ + 1]
  /\ Goes(p, "enrich")
  /\ UNCHANGED <<inventory, task, stash, attempt, saved, claimOld, cart, outside>>

(* FraudEnrichmentService.mark_order_completed and schedule_purchase. *)
Enrich(p) ==
  /\ Sits(p, "enrich")
  /\ Goes(p, "resolve")
  /\ UNCHANGED <<inventory, task, documents, outside>>

ResolvedAttempt(o) == [attempt EXCEPT ![o] = IF @ = "pending" THEN "resolved" ELSE @]

MarkResolved(p) ==
  /\ Sits(p, "resolve")
  /\ attempt' = ResolvedAttempt(On(p))
  /\ Goes(p, "finish")
  /\ UNCHANGED <<inventory, task, stash, saved, claimOld, cart, ledger, outside>>

Finish(p) ==
  /\ Sits(p, "finish")
  /\ saved' = [saved EXCEPT ![On(p)] = "done"]
  /\ GoesOn(p)
  /\ UNCHANGED <<inventory, stash, attempt, claimOld, cart, ledger, outside>>

Cleared(p) ==
  /\ Sits(p, "clearing")
  /\ Return(p)
  /\ Goes(p, IF At(p, "ok") THEN "unstash" ELSE "raised")
  /\ UNCHANGED <<documents, outside>>

Unstash(p) ==
  /\ Sits(p, "unstash")
  /\ stash' = [stash EXCEPT ![On(p)] = "none"]
  /\ Goes(p, IF flow[p].created THEN "created" ELSE "existing")
  /\ UNCHANGED <<inventory, task, attempt, saved, claimOld, cart, ledger, outside>>

-----------------------------------------------------------------------------
(* The callers of complete_pending_order *)

Completes(p, source, o, at) ==
  /\ source \in Completers
  /\ Free(p)
  /\ flow' = [flow EXCEPT ![p] = Begun(source, o, at)]
  /\ UNCHANGED <<inventory, task, documents>>

(* POST /api/orders/verify, after the signature check, as often as the     *)
(* client asks for it.                                                     *)
VerifyPayment(p, o) ==
  /\ payment[o] = "captured"
  /\ ~Working("verify", o)
  /\ Completes(p, "verify", o, "find")
  /\ UNCHANGED outside

(* The worker reads the event, or claims it once its reader is gone or has *)
(* held it for CLAIM_IDLE_MS.                                              *)
Deliver(p, o) ==
  /\ event[o] = "queued"
  /\ "stall" \in Faults \/ ~Working("webhook", o)
  /\ deliveries' = [deliveries EXCEPT ![o] = IF @ < MaxDeliveries THEN @ + 1 ELSE @]
  /\ Completes(p, "webhook", o, "find")
  /\ UNCHANGED <<payment, event>>

(* reconcile_pending_payments: a stash with the gateway's id, paid. *)
CronReconcile(p, o) ==
  /\ stash[o] = "payable"
  /\ payment[o] = "captured"
  /\ ~Working("cron", o)
  /\ Completes(p, "cron", o, "find")
  /\ UNCHANGED outside

(* PaymentReconciliationService.run lists the pending attempts, *)
ListPending(p, o) ==
  /\ attempt[o] = "pending"
  /\ ~Working("reconcile", o)
  /\ Completes(p, "reconcile", o, "listed")
  /\ UNCHANGED outside

(* and completes those the gateway has captured a payment for. *)
MatchPayments(p) ==
  /\ Sits(p, "listed")
  /\ IF payment[On(p)] = "captured"
     THEN Goes(p, "find")
     ELSE flow' = [flow EXCEPT ![p] = NoFlow]
  /\ UNCHANGED <<inventory, task, documents, outside>>

(* The reconcile loop marks what it did not create itself as resolved. *)
MarkDone(p) ==
  /\ Sits(p, "markDone")
  /\ attempt' = ResolvedAttempt(On(p))
  /\ flow' = [flow EXCEPT ![p] = NoFlow]
  /\ UNCHANGED <<inventory, task, stash, saved, claimOld, cart, ledger, outside>>

(* The caller has its outcome: the client may pay once initiate_order has  *)
(* answered; the event is acked unless its handler raised, and goes to the *)
(* dead-letter stream when that was its last delivery.                     *)
Answer(p) ==
  /\ flow[p].at \in Outcomes
  /\ payment' = IF Sits(p, "answered") THEN [payment EXCEPT ![On(p)] = "offered"] ELSE payment
  /\ event' =
       IF flow[p].source # "webhook" THEN event
       ELSE [event EXCEPT ![On(p)] =
               IF ~Sits(p, "raised") THEN "acked"
               ELSE IF deliveries[On(p)] >= MaxDeliveries THEN "dead" ELSE @]
  /\ IF flow[p].source = "reconcile" /\ flow[p].at \in {"existing", "not_found"}
     THEN Goes(p, "markDone")
     ELSE flow' = [flow EXCEPT ![p] = NoFlow]
  /\ UNCHANGED <<inventory, task, documents, deliveries>>

-----------------------------------------------------------------------------
(* The customer, the gateway, time and failures *)

Pay(o) ==
  /\ payment[o] = "offered"
  /\ payment' = [payment EXCEPT ![o] = "captured"]
  /\ UNCHANGED <<vars, flow, documents, event, deliveries>>

(* POST /webhook/razorpay publishes the event once; a publish that fails   *)
(* is swallowed and the webhook is answered all the same.                  *)
Webhook(o) ==
  /\ payment[o] = "captured"
  /\ event[o] = "none"
  /\ \/ /\ event' = [event EXCEPT ![o] = "queued"]
        /\ UNCHANGED faults
     \/ /\ "store" \in Faults
        /\ faults < MaxFaults
        /\ faults' = faults + 1
        /\ event' = [event EXCEPT ![o] = "lost"]
  /\ UNCHANGED <<stores, task, checkout, calls, history, flow, documents, payment,
                 deliveries>>

(* The pending_order key is set after the reservation key, with its TTL. *)
StashExpires(o) ==
  /\ Expiry
  /\ stash[o] # "none"
  /\ age[o] = "past"
  /\ stash' = [stash EXCEPT ![o] = "none"]
  /\ UNCHANGED <<vars, flow, attempt, saved, claimOld, cart, ledger, outside>>

Claims(p, o) == flow[p].at \in ClaimedPlaces /\ On(p) = o

(* POST_PROCESSING_STALE_CLAIM_SECONDS pass over a claim whose holder is   *)
(* gone, or works for longer than that.                                    *)
ClaimAges(o) ==
  /\ saved[o] = "in_progress"
  /\ ~claimOld[o]
  /\ "stall" \in Faults \/ \A p \in Proc : ~Claims(p, o)
  /\ claimOld' = [claimOld EXCEPT ![o] = TRUE]
  /\ UNCHANGED <<vars, flow, stash, attempt, saved, cart, ledger, outside>>

(* The process of a handler dies, in OrderService or in an operation below it. *)
HandlerDies(p) ==
  /\ "crash" \in Faults
  /\ faults < MaxFaults
  /\ \/ Crash(p)
     \/ /\ At(p, "idle") /\ flow[p] # NoFlow
        /\ faults' = faults + 1
        /\ UNCHANGED <<stores, task, checkout, calls, history>>
  /\ flow' = [flow EXCEPT ![p] = NoFlow]
  /\ UNCHANGED <<documents, outside>>

(* The await at hand raises: a store, the gateway or the amount check. *)
FlowFails(p) ==
  /\ "store" \in Faults
  /\ faults < MaxFaults
  /\ flow[p].at \in {"stash", "gateway", "stashId", "attempt", "find", "loadStash", "recheck",
                     "loadAttempt", "verifyAmount", "upsert", "reread", "claim", "snapshot",
                     "enrich", "resolve", "finish", "unstash"}
  /\ faults' = faults + 1
  /\ Goes(p, "raised")
  /\ UNCHANGED <<stores, task, checkout, calls, history, documents, outside>>

-----------------------------------------------------------------------------
(* A step of InventoryService, called from here or by the sweep. *)
InventoryStep(p) == Step(p) /\ UNCHANGED <<flow, documents, outside>>

FlowStep(p) ==
  \/ Reserved(p) \/ Stash(p) \/ CreateGatewayOrder(p) \/ StashId(p) \/ RecordAttempt(p)
  \/ FindOrder(p) \/ LoadStash(p) \/ Recheck(p) \/ LoadAttempt(p) \/ VerifyAmount(p)
  \/ Upsert(p) \/ Reread(p) \/ ConvertCart(p)
  \/ Claim(p) \/ Committed(p) \/ WriteSnapshot(p) \/ Record(p) \/ Enrich(p)
  \/ MarkResolved(p) \/ Finish(p) \/ Cleared(p) \/ Unstash(p)
  \/ MatchPayments(p) \/ MarkDone(p) \/ Answer(p)

FlowCaller(p) ==
  \E o \in Order : \/ InitiateOrder(p, o) \/ VerifyPayment(p, o) \/ Deliver(p, o)
                   \/ CronReconcile(p, o) \/ ListPending(p, o)

(* The sweep has a handler to itself. *)
SweepStarts(p, o) == Free(p) /\ Sweep(p, o) /\ UNCHANGED <<flow, documents, outside>>
SweepEnds(p) == flow[p] = NoFlow /\ Return(p) /\ UNCHANGED <<flow, documents, outside>>

TimePasses(o) == Expiry /\ Tick(o) /\ UNCHANGED <<flow, documents, outside>>
LockAges(r) == LockExpires(r) /\ UNCHANGED <<flow, documents, outside>>
OperationFails(p) == StoreFails(p) /\ UNCHANGED <<flow, documents, outside>>

OrderNext ==
  \/ \E p \in Proc : \/ InventoryStep(p) \/ FlowStep(p) \/ FlowCaller(p) \/ SweepEnds(p)
                     \/ HandlerDies(p) \/ OperationFails(p) \/ FlowFails(p)
                     \/ \E o \in Order : SweepStarts(p, o)
  \/ \E o \in Order : Pay(o) \/ Webhook(o) \/ StashExpires(o) \/ ClaimAges(o) \/ TimePasses(o)
  \/ \E r \in Row : LockAges(r)

OrderSpec == OrderInit /\ [][OrderNext]_orderVars

(* Handlers run, the worker keeps reading its stream and running its       *)
(* reconcile loop, and time passes over an abandoned claim.                *)
OrderFairness ==
  /\ \A p \in Proc : WF_orderVars(InventoryStep(p) \/ FlowStep(p) \/ SweepEnds(p))
  /\ \A o \in Order : /\ WF_orderVars(\E p \in Proc : Deliver(p, o))
                      /\ WF_orderVars(\E p \in Proc : ListPending(p, o))
                      /\ WF_orderVars(ClaimAges(o))

FairOrderSpec == OrderSpec /\ OrderFairness

-----------------------------------------------------------------------------
(* Properties *)

(* Every document, event and handler is in its type; a handler is inside   *)
(* an inventory operation exactly while its flow awaits one.               *)
OrderTypeOK ==
  /\ flow \in [Proc -> Flow]
  /\ stash \in [Order -> {"none", "bare", "payable"}]
  /\ attempt \in [Order -> {"none", "pending", "resolved"}]
  /\ saved \in [Order -> {"absent", "pending", "in_progress", "done"}]
  /\ claimOld \in [Order -> BOOLEAN]
  /\ cart \in [Order -> {"active", "converted"}]
  /\ ledger \in [Order -> Nat]
  /\ payment \in [Order -> {"none", "offered", "captured"}]
  /\ event \in [Order -> {"none", "lost", "queued", "acked", "dead"}]
  /\ deliveries \in [Order -> 0 .. MaxDeliveries]
  /\ \A p \in Proc : flow[p] # NoFlow =>
       (At(p, "idle") <=> flow[p].at \notin {"reserving", "committing", "clearing"})

(* Two handlers never both run the post-processing of one order, unless    *)
(* one is slower than the stale cutoff (_finish_post_processing).          *)
ClaimIsExclusive ==
  "stall" \notin Faults =>
    \A p, q \in Proc, o \in Order : Claims(p, o) /\ Claims(q, o) => p = q

(* The units of an order's lines leave the stock at most once, whoever     *)
(* completes the order and however often (commit_reservation, called by    *)
(* _finish_post_processing).                                               *)
SoldAtMostOnce == \A o \in Order : \A k \in DOMAIN taken[o] : taken[o][k] <= 1

(* A line of the order can no longer be taken: other orders, promised the  *)
(* same units, have had them, and a commit of this one fails at that line. *)
Short(o) ==
  \E k \in DOMAIN taken[o] :
    taken[o][k] = 0 /\ qty[Lines[o][k].row] < Lines[o][k].n

(* What completes an order happens once, whoever completes it: while no    *)
(* handler has been cut off and no command has failed, the callers'        *)
(* interleaving alone does not enter its payment in the ledger twice       *)
(* (append_event), nor take its units twice unless the order is short:     *)
(* then every retry takes the lines before the short one again.            *)
EffectsOnceUnlessCut ==
  faults = 0 => \A o \in Order :
    /\ ledger[o] <= 1
    /\ Short(o) \/ \A k \in DOMAIN taken[o] : taken[o][k] <= 1

(* An order whose post-processing is done has had its units taken.         *)
DoneMeansSold ==
  \A o \in Order : saved[o] = "done" => \A k \in DOMAIN taken[o] : taken[o][k] >= 1

(* A payment event leaves the stream as handled only when its order is     *)
(* there, also when the stash has expired (OrderEventConsumer only warns   *)
(* of an order that was not found).                                        *)
AckedMeansSaved == \A o \in Order : event[o] = "acked" => saved[o] # "absent"

(* When nobody works on a finished order, nothing of its checkout is left: *)
(* no stash, no pending attempt, no active cart, and no hold, unless the   *)
(* order is short: a commit that had claimed the mirror and failed leaves  *)
(* its holds to nobody.  A handler cut off before its clean-up leaves      *)
(* something too, so this is while none was.                               *)
DoneIsTidy ==
  faults = 0 => \A o \in Order :
    saved[o] = "done" /\ (\A p \in Proc : Free(p))
      => /\ stash[o] = "none" /\ attempt[o] = "resolved" /\ cart[o] = "converted"
         /\ Short(o) \/ held[o] = {}

(* An order document with the payment, its ledger entry and its event is a *)
(* PaidOrder: it is not saved before it is paid, never reopened, finished  *)
(* only from a claim and with its payment in the ledger, and its event is  *)
(* not acknowledged before it is saved.                                    *)
StageOf(o) ==
  IF saved[o] # "absent" THEN saved[o] ELSE IF payment[o] = "captured" THEN "paid" ELSE "unpaid"

Promise == INSTANCE PaidOrder WITH
  stage <- [o \in Order |-> StageOf(o)],
  recorded <- {o \in Order : ledger[o] > 0},
  notice <- event

ImplementsPaidOrder == Promise!PaidOrderSpec

(* A captured payment ends up as a finished order, also when its webhook   *)
(* never comes or its event is lost.                                       *)
PaidGetsDone == \A o \in Order : payment[o] = "captured" ~> saved[o] = "done"

=============================================================================
