------------------------ MODULE PaymentReconciliation ------------------------
(***************************************************************************)
(* src/services/payment_reconciliation_service.py: the worker asks the     *)
(* gateway for the payments of every checkout that is still undecided.     *)
(*                                                                         *)
(* One loop runs at a time (src/worker.py).  Its list, the gateway's bulk  *)
(* answer and the age of an attempt against the cutoff are read once per   *)
(* run and used until its end, while webhooks complete orders beside it.   *)
(* Completion itself is the subject of OrderCompletion; here the webhook's *)
(* handler saves the order in one step and resolves the attempt in another. *)
(***************************************************************************)
EXTENDS Naturals, Sequences, FiniteSets, SequencesExt

CONSTANTS
  Checkout,     \* order ids of the checkouts
  PageSize,     \* attempts one run loads (500)
  LatePayments, \* may a customer pay for a checkout older than the window?
  RecFaults,    \* which faults happen
  MaxRecFaults  \* bound: faults that happen

ASSUME ReconciliationAssumption ==
  /\ PageSize \in Nat \ {0}
  /\ LatePayments \in BOOLEAN
  /\ RecFaults \subseteq {"bulk", "pages", "fetch", "store", "publish", "crash"}
  /\ MaxRecFaults \in Nat

VARIABLES
  attempts,  \* checkouts with a row in payment_attempts, by created_at
  attemptStatus,  \* payment_attempts.status, "none" without a row
  old,       \* checkouts whose attempt is older than the window
  payment,   \* at the gateway: none, in the window, or before it
  saved,     \* checkouts with a document in orders
  webhook,   \* the payment's webhook: due, in the worker's hands, over
  run,       \* the loop's local state
  orphans,   \* checkouts reported by the consistency check
  recFaults  \* faults so far

gateway == <<payment, webhook>>
rows    == <<attempts, attemptStatus, old, saved>>
recVars == <<gateway, rows, run, orphans, recFaults>>

Run == [phase : {"idle", "bulk", "match", "fallback", "decide", "consistency"},
        listed : SUBSET Checkout,    \* the attempts that were pending
        aged : SUBSET Checkout,      \* of them, at or before the cutoff
        window : SUBSET Checkout,    \* payments of the bulk answer
        todo : SUBSET Checkout,      \* still to visit in this phase, oldest first
        missed : SUBSET Checkout]    \* left over for the fallback

Resting == [phase |-> "idle", listed |-> {}, aged |-> {}, window |-> {}, todo |-> {}, missed |-> {}]

RecInit ==
  /\ attempts = <<>>
  /\ attemptStatus = [o \in Checkout |-> "none"]
  /\ old = {}
  /\ payment = [o \in Checkout |-> "none"]
  /\ saved = {}
  /\ webhook = [o \in Checkout |-> "due"]
  /\ run = Resting
  /\ orphans = {}
  /\ recFaults = 0

Fault(kind) == kind \in RecFaults /\ recFaults < MaxRecFaults /\ recFaults' = recFaults + 1

Paid(o) == payment[o] # "none"
Resolve(o) == attemptStatus' = [attemptStatus EXCEPT ![o] = IF @ = "pending" THEN "resolved" ELSE @]

-----------------------------------------------------------------------------
(* The checkout and the webhook's way to the order *)

RecordAttemptInserts(o) ==
  /\ attempts' = Append(attempts, o)
  /\ attemptStatus' = [attemptStatus EXCEPT ![o] = "pending"]
  /\ UNCHANGED <<gateway, old, saved, run, orphans, recFaults>>

(* record_attempt, before the client is answered: the row is made once. *)
RecordAttempt(o) ==
  /\ attemptStatus[o] = "none"
  /\ attempts' = Append(attempts, o)
  /\ attemptStatus' = [attemptStatus EXCEPT ![o] = "pending"]
  /\ UNCHANGED <<gateway, old, saved, run, orphans, recFaults>>

(* The client has had its answer, which comes after the attempt's row. *)
Pay(o) ==
  /\ attemptStatus[o] # "none"
  /\ ~Paid(o)
  /\ o \notin old \/ LatePayments
  /\ payment' = [payment EXCEPT ![o] = "recent"]
  /\ UNCHANGED <<rows, webhook, run, orphans, recFaults>>

(* created_at falls behind the window, and later the payment does. *)
Age(o) ==
  /\ \/ /\ attemptStatus[o] # "none" /\ o \notin old
        /\ old' = old \cup {o}
        /\ UNCHANGED payment
     \/ /\ o \in old /\ payment[o] = "recent"
        /\ payment' = [payment EXCEPT ![o] = "past"]
        /\ UNCHANGED old
  /\ UNCHANGED <<webhook, attempts, attemptStatus, saved, run, orphans, recFaults>>

(* The webhook's event reaches complete_pending_order, unless its publish  *)
(* failed: that is swallowed, and the gateway has been answered.           *)
WebhookSaves(o) ==
  /\ Paid(o) /\ webhook[o] = "due"
  /\ \/ /\ webhook' = [webhook EXCEPT ![o] = "working"]
        /\ saved' = saved \cup {o}
        /\ UNCHANGED recFaults
     \/ /\ Fault("publish")
        /\ webhook' = [webhook EXCEPT ![o] = "over"]
        /\ UNCHANGED saved
  /\ UNCHANGED <<payment, attempts, attemptStatus, old, run, orphans>>

(* The webhook's handler post-processes the order and resolves the attempt. *)
WebhookResolves(o) ==
  /\ webhook[o] = "working"
  /\ webhook' = [webhook EXCEPT ![o] = "over"]
  /\ Resolve(o)
  /\ UNCHANGED <<payment, attempts, old, saved, run, orphans, recFaults>>

-----------------------------------------------------------------------------
(* run *)

PendingNow(o) == attemptStatus[o] = "pending"
Earlier(o, other) == \E i, j \in DOMAIN attempts : i < j /\ attempts[i] = o /\ attempts[j] = other

Oldest(some) == {o \in some : Cardinality({other \in some : Earlier(other, o)}) < PageSize}

OldestInsideWindow == Oldest({o \in Checkout : PendingNow(o) /\ o \notin old})

(* Of the attempts that are pending, the oldest, up to the page size. *)
OldestPending == Oldest({o \in Checkout : PendingNow(o)})

ListPending ==
  /\ run.phase = "idle"
  /\ OldestPending # {}
  /\ run' = [Resting EXCEPT !.phase = "bulk", !.listed = OldestPending, !.todo = OldestPending,
                            !.aged = old \cap OldestPending]
  /\ UNCHANGED <<gateway, rows, orphans, recFaults>>

(* fetch_payments_window: everything captured in the window, or less when  *)
(* the page cap cuts it; an exception ends the run and changes nothing.    *)
FetchWindow ==
  LET recent == {o \in Checkout : payment[o] = "recent"} IN
  /\ run.phase = "bulk"
  /\ \/ /\ run' = [run EXCEPT !.phase = "match", !.window = recent]
        /\ UNCHANGED recFaults
     \/ /\ Fault("pages")
        /\ \E part \in SUBSET recent : run' = [run EXCEPT !.phase = "match", !.window = part]
     \/ /\ Fault("bulk")
        /\ run' = Resting
  /\ UNCHANGED <<gateway, rows, orphans>>

CompleteResolvesFirst(o) ==
  \/ /\ saved' = saved \cup {o}
     /\ Resolve(o)
     /\ UNCHANGED recFaults
  \/ /\ Fault("store")
     /\ Resolve(o)
     /\ UNCHANGED saved

(* complete_pending_order and, when it did not create the order itself,    *)
(* mark_resolved; if one of them raises, the attempt stays as it is,       *)
(* whether the order has been saved by then or not.                        *)
Complete(o) ==
  \/ /\ saved' = saved \cup {o}
     /\ Resolve(o)
     /\ UNCHANGED recFaults
  \/ /\ Fault("store")
     /\ saved' \in {saved, saved \cup {o}}
     /\ UNCHANGED attemptStatus

(* The loops of a run visit the oldest first. *)
Visits(o) == o \in run.todo /\ \A other \in run.todo \ {o} : Earlier(o, other)
Visited(o) == [run EXCEPT !.todo = @ \ {o}]

MatchDropsUnmatched(o) ==
  /\ run.phase = "match" /\ Visits(o)
  /\ run' = Visited(o)
  /\ IF o \in run.window
     THEN Complete(o)
     ELSE /\ attemptStatus' = IF o \in run.aged THEN [attemptStatus EXCEPT ![o] = "abandoned"] ELSE attemptStatus
          /\ UNCHANGED <<saved, recFaults>>
  /\ UNCHANGED <<gateway, attempts, old, orphans>>

(* The local cross-reference; whatever it misses is left for the fallback. *)
Match(o) ==
  /\ run.phase = "match" /\ Visits(o)
  /\ IF o \in run.window
     THEN Complete(o) /\ run' = Visited(o)
     ELSE /\ run' = [Visited(o) EXCEPT !.missed = @ \cup {o}]
          /\ UNCHANGED <<saved, attemptStatus, recFaults>>
  /\ UNCHANGED <<gateway, attempts, old, orphans>>

StartFallback ==
  /\ run.phase = "match" /\ run.todo = {}
  /\ run' = [run EXCEPT !.phase = "fallback", !.todo = run.missed]
  /\ UNCHANGED <<gateway, rows, orphans, recFaults>>

(* _fallback_check, one attempt: the gateway is asked for this order's     *)
(* payment.  fetch_captured_payment answers None when the call fails.      *)
FetchOne(o) ==
  /\ run.phase = "fallback" /\ Visits(o)
  /\ \/ Paid(o) /\ Complete(o) /\ run' = Visited(o)
     \/ /\ \/ ~Paid(o) /\ UNCHANGED recFaults
           \/ Paid(o) /\ Fault("fetch")
        /\ run' = IF o \in run.aged THEN [run EXCEPT !.phase = "decide"] ELSE Visited(o)
        /\ UNCHANGED <<saved, attemptStatus>>
  /\ UNCHANGED <<gateway, attempts, old, orphans>>

(* The update that abandons has no filter on the status; a failure is noted. *)
Abandon(o) ==
  /\ run.phase = "decide" /\ Visits(o)
  /\ \/ /\ attemptStatus' = [attemptStatus EXCEPT ![o] = "abandoned"]
        /\ UNCHANGED recFaults
     \/ /\ Fault("store")
        /\ UNCHANGED attemptStatus
  /\ run' = [Visited(o) EXCEPT !.phase = "fallback"]
  /\ UNCHANGED <<gateway, attempts, old, saved, orphans>>

EndFallback ==
  /\ run.phase = "fallback" /\ run.todo = {}
  /\ run' = [run EXCEPT !.phase = "consistency"]
  /\ UNCHANGED <<gateway, rows, orphans, recFaults>>

KnownByOrder == saved

(* The two lookups of _check_consistency; rows and orders are never removed, *)
(* so reading them one after the other finds no less than this.              *)
Known == saved \cup ToSet(attempts)

CheckConsistency ==
  /\ run.phase = "consistency"
  /\ orphans' = orphans \cup ((run.window \ run.listed) \ Known)
  /\ run' = Resting
  /\ UNCHANGED <<gateway, rows, recFaults>>

(* The worker is restarted, and with it the loop. *)
RunDies ==
  /\ run.phase # "idle"
  /\ Fault("crash")
  /\ run' = Resting
  /\ UNCHANGED <<gateway, rows, orphans>>

-----------------------------------------------------------------------------
RunStep ==
  \/ ListPending \/ FetchWindow \/ StartFallback \/ EndFallback \/ CheckConsistency
  \/ \E o \in Checkout : Match(o) \/ FetchOne(o) \/ Abandon(o)

RecNext ==
  \/ \E o \in Checkout : \/ RecordAttempt(o) \/ Pay(o) \/ Age(o)
                         \/ WebhookSaves(o) \/ WebhookResolves(o)
  \/ RunStep
  \/ RunDies

RecSpec == RecInit /\ [][RecNext]_recVars

(* The loop runs at its interval for as long as the worker is restarted    *)
(* (src/worker.py: reconcile_loop), attempts grow old, and a handler that  *)
(* has the event works on.  Nobody has to pay, and no webhook has to come. *)
RecFairness ==
  /\ WF_recVars(RunStep)
  /\ \A o \in Checkout : WF_recVars(Age(o)) /\ WF_recVars(WebhookResolves(o))

FairRecSpec == RecSpec /\ RecFairness

-----------------------------------------------------------------------------
(* Properties *)

(* Rows, orders and payments agree in type and in the order they are made: *)
(* a row is only ever decided, and an order only saved, for a checkout     *)
(* whose attempt was recorded; the run works on checkouts it listed.       *)
RecTypeOK ==
  /\ attempts \in Seq(Checkout) /\ IsInjective(attempts)
  /\ ToSet(attempts) = {o \in Checkout : attemptStatus[o] # "none"}
  /\ attemptStatus \in [Checkout -> {"none", "pending", "resolved", "abandoned"}]
  /\ old \subseteq ToSet(attempts) /\ saved \subseteq ToSet(attempts)
  /\ payment \in [Checkout -> {"none", "recent", "past"}]
  /\ webhook \in [Checkout -> {"due", "working", "over"}]
  /\ run \in Run
  /\ orphans \subseteq Checkout
  /\ recFaults \in 0 .. MaxRecFaults
  /\ run.todo \cup run.missed \cup run.aged \subseteq run.listed

(* A checkout the customer has paid for is never abandoned: not when the   *)
(* bulk answer missed its payment, not when the payment is older than the  *)
(* window, and not when its webhook completes it while the run is at work  *)
(* (_fallback_check asks for the order's own payment first).               *)
PaidNotAbandoned == \A o \in Checkout : Paid(o) => attemptStatus[o] # "abandoned"

(* The consistency check only reports a payment the store really knows     *)
(* nothing of, also when the attempt did not fit the run's page or was     *)
(* decided since (_check_consistency looks at both collections).           *)
OrphansAreForeign == orphans = {}

(* A resolved attempt belongs to an order that was saved, and keeps its    *)
(* resolution (mark_resolved's filter, complete_pending_order's order).    *)
ResolvedMeansSaved == \A o \in Checkout : attemptStatus[o] = "resolved" => o \in saved

(* Every payment becomes an order without any webhook, although runs fail, *)
(* miss pages, or die with the worker (run's reason to exist).             *)
PaidIsRecovered == \A o \in Checkout : Paid(o) ~> o \in saved

(* No attempt stays pending for ever, however many there are: the backlog  *)
(* drains under the page size and the unpaid grow old (comment in run).    *)
EveryAttemptDecided == \A o \in Checkout : PendingNow(o) ~> ~PendingNow(o)
=============================================================================
