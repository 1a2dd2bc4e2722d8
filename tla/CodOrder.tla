------------------------------ MODULE CodOrder ------------------------------
(***************************************************************************)
(* POST /api/orders: OrderService.create behind an Idempotency-Key.        *)
(*                                                                         *)
(* Requests are a double click or a client's retries of one checkout: they *)
(* share keys, and every cart holds one unit of one row.  A request is     *)
(* split at each await that another request can run at; commit_items is    *)
(* one step, for Inventory has its own.                                    *)
(***************************************************************************)
EXTENDS Fraud

CONSTANTS
  Request,       \* the requests of the clients
  Key,           \* Idempotency-Key headers
  Cart,          \* e-mail address and lines, what fingerprints are made of
  KeyOf, CartOf, \* of a request
  FactsOf,       \* of a cart, before its counters are read
  NoRequest,
  Units,         \* in stock at first
  CodFaults,     \* what may fail
  MaxCodFaults   \* how often, a bound

ASSUME CodAssumption ==
  /\ KeyOf \in [Request -> Key] /\ CartOf \in [Request -> Cart]
  /\ FactsOf \in [Cart -> SUBSET Facts]
  /\ NoRequest \notin Request
  /\ Units \in Nat /\ MaxCodFaults \in Nat
  /\ CodFaults \subseteq {"fraud", "insert", "unsure", "late", "die", "slow"}

VARIABLES
  req,        \* where each request is
  answer,     \* idempotency:<key>, as the request that stored it
  lock,       \* idempotency:<key>:lock, as the request that took it
  attempts,   \* fraud:velocity:email:<email>, all requests having one
  bought,     \* carts with a fraud:dup_order key
  review,     \* fraud_review_queue.status, by request
  units,      \* in stock
  orders,     \* requests with an order document
  codFaults   \* [all, late]: failures so far, and those after the insert

codVars == <<req, answer, lock, attempts, bought, review, units, orders, codFaults>>

Working == {"locking", "looking", "prepare", "commit", "insert", "giveBack", "log", "note",
            "store", "unlock", "release"}
Ended   == {"placed", "replayed", "conflict", "busy", "failed", "dead"}

InFlight(r) == req[r] \in Working
RequestAt(r, at) == req[r] = at
Moves(r, at) == req' = [req EXCEPT ![r] = at]

Fails(kind, late) ==
  /\ kind \in CodFaults
  /\ codFaults.all < MaxCodFaults
  /\ codFaults' = [all |-> codFaults.all + 1, late |-> codFaults.late + late]

CodInit ==
  /\ req = [r \in Request |-> "new"]
  /\ answer = [k \in Key |-> NoRequest]
  /\ lock = [k \in Key |-> NoRequest]
  /\ attempts = 0
  /\ bought = {}
  /\ review = [r \in Request |-> "none"]
  /\ units = Units
  /\ orders = {}
  /\ codFaults = [all |-> 0, late |-> 0]

-----------------------------------------------------------------------------
(* IdempotencyService.begin *)

(* The stored answer of the key is replayed, to the same cart only. *)
Replay(r) ==
  LET s == answer[KeyOf[r]] IN IF CartOf[s] = CartOf[r] THEN "replayed" ELSE "conflict"

Begin(r) ==
  /\ RequestAt(r, "new")
  /\ Moves(r, IF answer[KeyOf[r]] = NoRequest THEN "locking" ELSE Replay(r))
  /\ UNCHANGED <<answer, lock, attempts, bought, review, units, orders, codFaults>>

(* SET NX EX 60. *)
Lock(r) ==
  /\ RequestAt(r, "locking")
  /\ IF lock[KeyOf[r]] = NoRequest
     THEN lock' = [lock EXCEPT ![KeyOf[r]] = r] /\ Moves(r, "prepare")
     ELSE Moves(r, "looking") /\ UNCHANGED lock
  /\ UNCHANGED <<answer, attempts, bought, review, units, orders, codFaults>>

LookAgain(r) ==
  /\ RequestAt(r, "looking")
  /\ Moves(r, IF answer[KeyOf[r]] = NoRequest THEN "busy" ELSE Replay(r))
  /\ UNCHANGED <<answer, lock, attempts, bought, review, units, orders, codFaults>>

-----------------------------------------------------------------------------
(* OrderService.create *)

(* A line, a price or the destination is refused: a ValueError. *)
Refuse(r) ==
  /\ RequestAt(r, "prepare")
  /\ Moves(r, "release")
  /\ UNCHANGED <<answer, lock, attempts, bought, review, units, orders, codFaults>>

Decided(r, action) ==
  /\ Moves(r, IF action = "reject" THEN "release" ELSE "commit")
  /\ review' = [review EXCEPT ![r] = IF action = "manual_review" THEN "pending" ELSE @]

(* The cart is valid: count the attempt, look for a duplicate, decide. *)
ScreenOrder(r) ==
  /\ RequestAt(r, "prepare")
  /\ attempts' = IF FraudOn THEN attempts + 1 ELSE attempts
  /\ Decided(r, Evaluate(Enrich(FactsOf[CartOf[r]], attempts', CartOf[r] \in bought)))
  /\ UNCHANGED <<answer, lock, bought, units, orders, codFaults>>

ScreenFails(r) ==
  /\ RequestAt(r, "prepare")
  /\ FraudOn
  /\ Fails("fraud", 0)
  /\ Decided(r, EvaluateFails)
  /\ UNCHANGED <<answer, lock, attempts, bought, units, orders>>

(* commit_items, which raises when the unit is gone. *)
Commit(r) ==
  /\ RequestAt(r, "commit")
  /\ units' = IF units > 0 THEN units - 1 ELSE units
  /\ Moves(r, IF units > 0 THEN "insert" ELSE "release")
  /\ UNCHANGED <<answer, lock, attempts, bought, review, orders, codFaults>>

Insert(r) ==
  /\ RequestAt(r, "insert")
  /\ orders' = orders \cup {r}
  /\ Moves(r, "log")
  /\ UNCHANGED <<answer, lock, attempts, bought, review, units, codFaults>>

(* insert_one raises; what it wrote may be there all the same. *)
InsertFails(r) ==
  /\ RequestAt(r, "insert")
  /\ \/ Fails("insert", 0) /\ UNCHANGED orders
     \/ Fails("unsure", 1) /\ orders' = orders \cup {r}
  /\ Moves(r, "giveBack")
  /\ UNCHANGED <<answer, lock, attempts, bought, review, units>>

(* release_committed_items, then the exception goes on. *)
GiveBack(r) ==
  /\ RequestAt(r, "giveBack")
  /\ units' = units + 1
  /\ Moves(r, "release")
  /\ UNCHANGED <<answer, lock, attempts, bought, review, orders, codFaults>>

(* The order_logs insert; then the cart, the alert, the ledger and the     *)
(* purchase event, none of which raises.                                   *)
Log(r) ==
  /\ RequestAt(r, "log")
  /\ Moves(r, "note")
  /\ UNCHANGED <<answer, lock, attempts, bought, review, units, orders, codFaults>>

(* mark_order_completed *)
Note(r) ==
  /\ RequestAt(r, "note")
  /\ bought' = bought \cup {CartOf[r]}
  /\ Moves(r, "store")
  /\ UNCHANGED <<answer, lock, attempts, review, units, orders, codFaults>>

(* The order is there, but the request fails with a 500 and its lock goes. *)
FailsLate(r) ==
  /\ req[r] \in {"log", "note"}
  /\ Fails("late", 1)
  /\ Moves(r, "release")
  /\ UNCHANGED <<answer, lock, attempts, bought, review, units, orders>>

-----------------------------------------------------------------------------
(* The end of a request *)

Store(r) ==
  /\ RequestAt(r, "store")
  /\ answer' = [answer EXCEPT ![KeyOf[r]] = r]
  /\ Moves(r, "unlock")
  /\ UNCHANGED <<lock, attempts, bought, review, units, orders, codFaults>>

(* The end of store, and release_lock: the lock goes, whoever holds it. *)
Unlock(r) ==
  /\ req[r] \in {"unlock", "release"}
  /\ lock' = [lock EXCEPT ![KeyOf[r]] = NoRequest]
  /\ Moves(r, IF RequestAt(r, "unlock") THEN "placed" ELSE "failed")
  /\ UNCHANGED <<answer, attempts, bought, review, units, orders, codFaults>>

Die(r) ==
  /\ InFlight(r)
  /\ Fails("die", IF req[r] \in {"insert", "giveBack", "log", "note", "store"} THEN 1 ELSE 0)
  /\ Moves(r, "dead")
  /\ UNCHANGED <<answer, lock, attempts, bought, review, units, orders>>

(* 60 seconds: the holder is gone, or is slower than that. *)
LockExpires(k) ==
  /\ lock[k] # NoRequest
  /\ "slow" \in CodFaults \/ ~InFlight(lock[k])
  /\ lock' = [lock EXCEPT ![k] = NoRequest]
  /\ UNCHANGED <<req, answer, attempts, bought, review, units, orders, codFaults>>

(* The fraud counters lapse; a stored answer lives longer than they do. *)
WindowsPass ==
  /\ \A r \in Request : ~InFlight(r)
  /\ attempts + Cardinality(bought) > 0
  /\ attempts' = 0
  /\ bought' = {}
  /\ UNCHANGED <<req, answer, lock, review, units, orders, codFaults>>

(* FraudReviewService.resolve, on a review in any state. *)
ResolveReview(r, status) ==
  /\ review[r] # "none"
  /\ review' = [review EXCEPT ![r] = status]
  /\ UNCHANGED <<req, answer, lock, attempts, bought, units, orders, codFaults>>

CodNext ==
  \/ \E r \in Request :
       \/ Begin(r) \/ Lock(r) \/ LookAgain(r)
       \/ Refuse(r) \/ ScreenOrder(r) \/ ScreenFails(r)
       \/ Commit(r) \/ Insert(r) \/ InsertFails(r) \/ GiveBack(r)
       \/ Log(r) \/ Note(r) \/ FailsLate(r)
       \/ Store(r) \/ Unlock(r) \/ Die(r)
       \/ \E status \in {"approved", "rejected"} : ResolveReview(r, status)
  \/ \E k \in Key : LockExpires(k)
  \/ WindowsPass

CodSpec == CodInit /\ [][CodNext]_codVars

-----------------------------------------------------------------------------
(* Properties *)

(* Requests, keys, locks and the buyers' history are in their types.       *)
CodTypeOK ==
  /\ req \in [Request -> {"new"} \cup Working \cup Ended]
  /\ answer \in [Key -> Request \cup {NoRequest}]
  /\ lock \in [Key -> Request \cup {NoRequest}]
  /\ attempts \in Nat
  /\ bought \subseteq Cart
  /\ review \in [Request -> {"none", "pending", "approved", "rejected"}]
  /\ units \in Nat
  /\ orders \subseteq Request
  /\ codFaults \in [all : 0 .. MaxCodFaults, late : 0 .. MaxCodFaults]

(* However a checkout is repeated under one key, one order comes of it     *)
(* (security/idempotency.py: a caller must not proceed to process a        *)
(* request that another one is processing).                                *)
OneOrderPerKey ==
  \A r, s \in orders : KeyOf[r] = KeyOf[s] /\ CartOf[r] = CartOf[s] => r = s

(* The same while no request has failed or died with its order placed and  *)
(* its answer not stored.  The key alone does not give it: a request that  *)
(* looked for the answer before it was stored and takes the lock after it  *)
(* was released goes on, and only the duplicate check stops it.            *)
OneOrderUnlessCut == codFaults.late = 0 => OneOrderPerKey

(* Every unit is in stock, in an order or in a request's hands: a request  *)
(* that fails gives back what it took, and no other.                       *)
UnitsMatchOrders ==
  codFaults.late = 0 =>
    units + Cardinality(orders) + Cardinality({r \in Request : req[r] \in {"insert", "giveBack"}})
      = Units
=============================================================================
