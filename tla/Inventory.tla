----------------------------- MODULE Inventory -----------------------------
(***************************************************************************)
(* src/services/inventory_service.py: stock on hand in MongoDB, holds on   *)
(* it in Redis, and the durable mirror of every hold in MongoDB.           *)
(*                                                                         *)
(* A handler (an API request, the worker, a cron call) runs one operation  *)
(* of InventoryService on one order.  Every await on Redis or MongoDB is   *)
(* one step here, so handlers interleave exactly where the event loop and  *)
(* the separate API and worker processes let them.                         *)
(***************************************************************************)
EXTENDS Integers, Sequences, FiniteSets

CONSTANTS
  Order,        \* order ids (uuid4: an id is used by one checkout only)
  CodOrder,     \* those that call commit_items instead of reserving
  Row,          \* stock rows: a product and its resolved bucket
  Proc,         \* handlers that can run at the same time
  Lines,        \* Lines[o]: the order's tracked lines, each [row, n]
  InitialQty,   \* InitialQty[r]: units on hand at the start
  Callers,      \* which operations the environment calls
  Overlap,      \* may two handlers work on the same order at once?
  Faults,       \* which faults happen
  MaxCalls,     \* bound: calls made for one order
  MaxFaults,    \* bound: handlers killed and store commands failed
  NoOrder       \* the order of an idle handler

Line == [row : Row, n : Nat \ {0}]

ASSUME OrdersAssumption ==
  /\ CodOrder \subseteq Order
  /\ NoOrder \notin Order

ASSUME LinesAssumption ==
  /\ Lines \in [Order -> Seq(Line)]
  /\ \A o \in Order : Len(Lines[o]) >= 1

ASSUME StockAssumption == InitialQty \in [Row -> Nat]

ASSUME EnvironmentAssumption ==
  /\ Callers \subseteq {"reserve", "commit", "release", "sweep", "sell", "restock"}
  /\ Overlap \in BOOLEAN
  /\ Faults \subseteq {"stall", "store", "crash"}
  /\ MaxCalls \in Nat
  /\ MaxFaults \in Nat

VARIABLES
  qty,       \* products.stock[].qty
  status,    \* products.stock[].status
  pending,   \* inv:pending:<row>, 0 when the key is absent
  locked,    \* inv:lock:<row> exists
  hold,      \* inv:order:<order> exists
  age,       \* time since the key was set, against its TTL
  mirror,    \* inventory_reservations.status of the order
  task,      \* what each handler is doing
  checkout,  \* what the callers know of the order
  calls,     \* calls made for the order
  faults,    \* handlers killed and store commands failed so far
  held,      \* history: lines counted in pending and not yet taken back
  taken      \* history: how often each line was taken off qty

stores  == <<qty, status, pending, locked, hold, age, mirror>>
env     == <<checkout, calls, faults>>
history == <<held, taken>>
vars    == <<stores, task, env, history>>

(***************************************************************************)
(* A handler's local state: the operation, the order, the await it is at,  *)
(* the line it is on and the last line of its loop, what it last read, and *)
(* whether its lines came from a claim on the durable mirror.              *)
(***************************************************************************)
Ops == {"none", "reserve", "undo", "commit", "release", "sell", "restock"}

SyncSteps == {"syncQty", "syncPending", "syncStatus"}
LineSteps == {"stock", "lock", "check", "count", "unlock", "refuse", "load",
              "claim", "take", "takeStatus", "decr", "drop", "putBack"}
             \cup SyncSteps
OtherSteps == {"key", "mirror", "delKey", "resolve"}
Ended == {"ok", "raised"}

Task == [op : Ops, order : Order \cup {NoOrder},
         pc : LineSteps \cup OtherSteps \cup Ended \cup {"idle"},
         i : Nat, last : Nat, view : Int, mirrored : BOOLEAN]

Idle == [op |-> "none", order |-> NoOrder, pc |-> "idle",
         i |-> 1, last |-> 0, view |-> 0, mirrored |-> FALSE]

Started(op, o, pc) ==
  [op |-> op, order |-> o, pc |-> pc,
   i |-> 1, last |-> Len(Lines[o]), view |-> 0, mirrored |-> FALSE]

At(p, pc) == task[p].pc = pc
OrderOf(p) == task[p].order
RowOf(p) == Lines[OrderOf(p)][task[p].i].row
UnitsOf(p) == Lines[OrderOf(p)][task[p].i].n

Goto(p, pc) == task' = [task EXCEPT ![p].pc = pc]

NextLineOffByOne(p, loop, exit) ==
  task' = [task EXCEPT ![p].pc = IF task[p].i <= task[p].last THEN loop ELSE exit,
                       ![p].i = IF task[p].i <= task[p].last THEN @ + 1 ELSE 1]

NextLine(p, loop, exit) ==
  task' = [task EXCEPT ![p].pc = IF task[p].i < task[p].last THEN loop ELSE exit,
                       ![p].i = IF task[p].i < task[p].last THEN @ + 1 ELSE 1]

(* The except block of reserve_for_order: un-count the first done lines,   *)
(* then delete the key and re-raise.                                       *)
Undo(p, done) ==
  task' = [task EXCEPT ![p].op = "undo", ![p].last = done, ![p].i = 1,
                       ![p].pc = IF done = 0 THEN "delKey" ELSE "decr"]

StatusOf(units) == IF units <= 0 THEN "out_of_stock" ELSE "in_stock"

Init ==
  /\ qty = InitialQty
  /\ status = [r \in Row |-> StatusOf(InitialQty[r])]
  /\ pending = [r \in Row |-> 0]
  /\ locked = [r \in Row |-> FALSE]
  /\ hold = [o \in Order |-> FALSE]
  /\ age = [o \in Order |-> "fresh"]
  /\ mirror = [o \in Order |-> "none"]
  /\ task = [p \in Proc |-> Idle]
  /\ checkout = [o \in Order |-> "new"]
  /\ calls = [o \in Order |-> 0]
  /\ faults = 0
  /\ held = [o \in Order |-> {}]
  /\ taken = [o \in Order |-> [k \in 1 .. Len(Lines[o]) |-> 0]]

-----------------------------------------------------------------------------
(* reserve_for_order *)

(* _get_stock_entry: the quantity is read before the row's lock is taken.  *)
ReadStock(p) ==
  /\ At(p, "stock")
  /\ task' = [task EXCEPT ![p].pc = "lock", ![p].view = qty[RowOf(p)]]
  /\ UNCHANGED <<stores, env, history>>

AcquireLockWithoutNX(p) ==
  /\ At(p, "lock")
  /\ locked' = [locked EXCEPT ![RowOf(p)] = TRUE]
  /\ Goto(p, "check")
  /\ UNCHANGED <<qty, status, pending, hold, age, mirror, env, history>>

(* _acquire_product_lock: SET NX EX; a lock that is taken refuses at once. *)
AcquireLock(p) ==
  /\ At(p, "lock")
  /\ \/ /\ locked[RowOf(p)]
        /\ Undo(p, task[p].i - 1)
        /\ UNCHANGED locked
     \/ /\ ~locked[RowOf(p)]
        /\ locked' = [locked EXCEPT ![RowOf(p)] = TRUE]
        /\ Goto(p, "check")
  /\ UNCHANGED <<qty, status, pending, hold, age, mirror, env, history>>

(* Available units are the quantity read earlier less the pending counter. *)
CheckAvailable(p) ==
  /\ At(p, "check")
  /\ Goto(p, IF UnitsOf(p) > task[p].view - pending[RowOf(p)]
             THEN "refuse" ELSE "count")
  /\ UNCHANGED <<stores, env, history>>

(* _adjust_pending_qty with a positive delta: one INCRBY. *)
CountHold(p) ==
  /\ At(p, "count")
  /\ pending' = [pending EXCEPT ![RowOf(p)] = @ + UnitsOf(p)]
  /\ held' = [held EXCEPT ![OrderOf(p)] = @ \cup {task[p].i}]
  /\ Goto(p, "syncQty")
  /\ UNCHANGED <<qty, status, locked, hold, age, mirror, env, taken>>

(* _release_product_lock deletes the key, whoever set it. *)
ReleaseLock(p) ==
  /\ \/ /\ At(p, "unlock")
        /\ NextLine(p, "stock", "key")
     \/ /\ At(p, "refuse")
        /\ Undo(p, task[p].i - 1)
  /\ locked' = [locked EXCEPT ![RowOf(p)] = FALSE]
  /\ UNCHANGED <<qty, status, pending, hold, age, mirror, env, history>>

(* SETEX of the reservation key starts its TTL. *)
WriteKey(p) ==
  /\ At(p, "key")
  /\ hold' = [hold EXCEPT ![OrderOf(p)] = TRUE]
  /\ age' = [age EXCEPT ![OrderOf(p)] = "fresh"]
  /\ Goto(p, "mirror")
  /\ UNCHANGED <<qty, status, pending, locked, mirror, env, history>>

(* The upsert with $setOnInsert. *)
WriteMirror(p) ==
  /\ At(p, "mirror")
  /\ mirror' = [mirror EXCEPT ![OrderOf(p)] = IF @ = "none" THEN "reserved" ELSE @]
  /\ Goto(p, "ok")
  /\ UNCHANGED <<qty, status, pending, locked, hold, age, env, history>>

-----------------------------------------------------------------------------
(* _sync_availability_status: three awaits, and only reserve holds the lock *)

SyncQty(p) ==
  /\ At(p, "syncQty")
  /\ task' = [task EXCEPT ![p].pc = "syncPending", ![p].view = qty[RowOf(p)]]
  /\ UNCHANGED <<stores, env, history>>

SyncPending(p) ==
  /\ At(p, "syncPending")
  /\ task' = [task EXCEPT ![p].pc = "syncStatus", ![p].view = @ - pending[RowOf(p)]]
  /\ UNCHANGED <<stores, env, history>>

SyncStatus(p) ==
  /\ At(p, "syncStatus")
  /\ status' = [status EXCEPT ![RowOf(p)] = StatusOf(task[p].view)]
  /\ IF task[p].op = "reserve" THEN Goto(p, "unlock") ELSE NextLine(p, "decr", "delKey")
  /\ UNCHANGED <<qty, pending, locked, hold, age, mirror, env, history>>

-----------------------------------------------------------------------------
(* commit_reservation and release_reservation *)

Resolution(op) == IF op = "commit" THEN "committed" ELSE "released"

FirstStep(op) == IF op = "commit" THEN "take" ELSE "decr"

(* _load_reservation: the lines, if the key is still there. *)
LoadReservation(p) ==
  /\ At(p, "load")
  /\ Goto(p, IF hold[OrderOf(p)] THEN FirstStep(task[p].op) ELSE "claim")
  /\ UNCHANGED <<stores, env, history>>

ClaimMirrorUnfiltered(p) ==
  /\ At(p, "claim")
  /\ mirror[OrderOf(p)] # "none"
  /\ mirror' = [mirror EXCEPT ![OrderOf(p)] = Resolution(task[p].op)]
  /\ task' = [task EXCEPT ![p].pc = FirstStep(task[p].op), ![p].mirrored = TRUE]
  /\ UNCHANGED <<qty, status, pending, locked, hold, age, env, history>>

(* _resolve_durable_mirror as a claim: only a mirror still "reserved" is   *)
(* turned, and only the handler that turned it goes on with its lines.     *)
ClaimMirror(p) ==
  /\ At(p, "claim")
  /\ \/ /\ mirror[OrderOf(p)] = "reserved"
        /\ mirror' = [mirror EXCEPT ![OrderOf(p)] = Resolution(task[p].op)]
        /\ task' = [task EXCEPT ![p].pc = FirstStep(task[p].op), ![p].mirrored = TRUE]
     \/ /\ mirror[OrderOf(p)] # "reserved"
        /\ Goto(p, "ok")
        /\ UNCHANGED mirror
  /\ UNCHANGED <<qty, status, pending, locked, hold, age, env, history>>

TakeStockUnguarded(p) ==
  /\ At(p, "take")
  /\ qty' = [qty EXCEPT ![RowOf(p)] = @ - UnitsOf(p)]
  /\ taken' = [taken EXCEPT ![OrderOf(p)][task[p].i] = @ + 1]
  /\ task' = [task EXCEPT ![p].pc = "takeStatus", ![p].view = qty[RowOf(p)] - UnitsOf(p)]
  /\ UNCHANGED <<status, pending, locked, hold, age, mirror, env, held>>

(* _atomic_decrement, first write: $inc guarded by qty >= quantity. A line *)
(* that cannot be taken raises; the lines before it stay taken.            *)
TakeStock(p) ==
  /\ At(p, "take")
  /\ \/ /\ qty[RowOf(p)] >= UnitsOf(p)
        /\ qty' = [qty EXCEPT ![RowOf(p)] = @ - UnitsOf(p)]
        /\ taken' = [taken EXCEPT ![OrderOf(p)][task[p].i] = @ + 1]
        /\ task' = [task EXCEPT ![p].pc = "takeStatus",
                                ![p].view = qty[RowOf(p)] - UnitsOf(p)]
     \/ /\ qty[RowOf(p)] < UnitsOf(p)
        /\ Goto(p, "raised")
        /\ UNCHANGED <<qty, taken>>
  /\ UNCHANGED <<status, pending, locked, hold, age, mirror, env, held>>

(* _atomic_decrement, second write: the status from what the first left. *)
TakeStatus(p) ==
  /\ At(p, "takeStatus")
  /\ status' = [status EXCEPT ![RowOf(p)] = StatusOf(task[p].view)]
  /\ NextLine(p, "take", IF task[p].op = "commit" THEN "decr" ELSE "ok")
  /\ UNCHANGED <<qty, pending, locked, hold, age, mirror, env, history>>

AfterAdjust(p) ==
  IF task[p].op = "release" THEN Goto(p, "syncQty") ELSE NextLine(p, "decr", "delKey")

DecrPendingByOne(p) ==
  /\ At(p, "decr")
  /\ pending' = [pending EXCEPT ![RowOf(p)] = @ - 1]
  /\ held' = [held EXCEPT ![OrderOf(p)] = @ \ {task[p].i}]
  /\ IF pending[RowOf(p)] - 1 <= 0 THEN Goto(p, "drop") ELSE AfterAdjust(p)
  /\ UNCHANGED <<qty, status, locked, hold, age, mirror, env, taken>>

(* _adjust_pending_qty with a negative delta: DECRBY, and when the result  *)
(* is not positive a DELETE that is a second command.                      *)
DecrPending(p) ==
  /\ At(p, "decr")
  /\ pending' = [pending EXCEPT ![RowOf(p)] = @ - UnitsOf(p)]
  /\ held' = [held EXCEPT ![OrderOf(p)] = @ \ {task[p].i}]
  /\ IF pending[RowOf(p)] - UnitsOf(p) <= 0 THEN Goto(p, "drop") ELSE AfterAdjust(p)
  /\ UNCHANGED <<qty, status, locked, hold, age, mirror, env, taken>>

DropPending(p) ==
  /\ At(p, "drop")
  /\ pending' = [pending EXCEPT ![RowOf(p)] = 0]
  /\ AfterAdjust(p)
  /\ UNCHANGED <<qty, status, locked, hold, age, mirror, env, history>>

DeleteKeyForgotten(p) ==
  /\ At(p, "delKey")
  /\ Goto(p, IF task[p].op = "undo" THEN "raised"
             ELSE IF task[p].mirrored THEN "ok" ELSE "resolve")
  /\ UNCHANGED <<stores, env, history>>

DeleteKey(p) ==
  /\ At(p, "delKey")
  /\ hold' = [hold EXCEPT ![OrderOf(p)] = FALSE]
  /\ Goto(p, IF task[p].op = "undo" THEN "raised"
             ELSE IF task[p].mirrored THEN "ok" ELSE "resolve")
  /\ UNCHANGED <<qty, status, pending, locked, age, mirror, env, history>>

(* _resolve_durable_mirror after the Redis path: a no-op if resolved. *)
ResolveMirror(p) ==
  /\ At(p, "resolve")
  /\ mirror' = [mirror EXCEPT ![OrderOf(p)] =
                  IF @ = "reserved" THEN Resolution(task[p].op) ELSE @]
  /\ Goto(p, "ok")
  /\ UNCHANGED <<qty, status, pending, locked, hold, age, env, history>>

(* release_committed_items: one update per line, no guard. *)
PutBack(p) ==
  /\ At(p, "putBack")
  /\ qty' = [qty EXCEPT ![RowOf(p)] = @ + UnitsOf(p)]
  /\ status' = [status EXCEPT ![RowOf(p)] = "in_stock"]
  /\ taken' = [taken EXCEPT ![OrderOf(p)][task[p].i] = @ - 1]
  /\ NextLine(p, "putBack", "ok")
  /\ UNCHANGED <<pending, locked, hold, age, mirror, env, held>>

Step(p) ==
  \/ ReadStock(p) \/ AcquireLock(p) \/ CheckAvailable(p) \/ CountHold(p)
  \/ ReleaseLock(p) \/ WriteKey(p) \/ WriteMirror(p)
  \/ SyncQty(p) \/ SyncPending(p) \/ SyncStatus(p)
  \/ LoadReservation(p) \/ ClaimMirror(p) \/ TakeStock(p) \/ TakeStatus(p)
  \/ DecrPending(p) \/ DropPending(p) \/ DeleteKey(p) \/ ResolveMirror(p)
  \/ PutBack(p)

-----------------------------------------------------------------------------
(* Time: the reservation key nears its TTL, then both it and the mirror's  *)
(* cutoff pass.  A lock expires when nobody is left to delete it, or under *)
(* a handler that stalls for longer than LOCK_TTL_SECONDS.                 *)

Tick(o) ==
  /\ mirror[o] # "none"
  /\ \/ /\ age[o] = "fresh"
        /\ age' = [age EXCEPT ![o] = "closing"]
        /\ UNCHANGED hold
     \/ /\ age[o] = "closing"
        /\ age' = [age EXCEPT ![o] = "past"]
        /\ hold' = [hold EXCEPT ![o] = FALSE]
  /\ UNCHANGED <<qty, status, pending, locked, mirror, task, env, history>>

InLock(p, r) ==
  /\ task[p].pc \in {"check", "count", "unlock", "refuse"} \cup SyncSteps
  /\ task[p].op = "reserve"
  /\ RowOf(p) = r

LockExpires(r) ==
  /\ locked[r]
  /\ "stall" \in Faults \/ \A p \in Proc : ~InLock(p, r)
  /\ locked' = [locked EXCEPT ![r] = FALSE]
  /\ UNCHANGED <<qty, status, pending, hold, age, mirror, task, env, history>>

-----------------------------------------------------------------------------
(* The callers.  initiate_order reserves once; once it has answered, a     *)
(* payment may be completed (commit) or cleared (release) any number of    *)
(* times; the cron endpoint sweeps; a COD checkout takes stock and puts it *)
(* back if the order was not written.                                      *)

Busy(o) == \E p \in Proc : OrderOf(p) = o

Call(p, caller, op, o, pc) ==
  /\ caller \in Callers
  /\ At(p, "idle")
  /\ Overlap \/ ~Busy(o)
  /\ \/ /\ caller = "sweep"
        /\ UNCHANGED calls
     \/ /\ caller # "sweep"
        /\ calls[o] < MaxCalls
        /\ calls' = [calls EXCEPT ![o] = @ + 1]
  /\ task' = [task EXCEPT ![p] = Started(op, o, pc)]
  /\ UNCHANGED <<stores, faults, history>>

CallReserve(p, o) ==
  /\ o \notin CodOrder
  /\ checkout[o] = "new"
  /\ checkout' = [checkout EXCEPT ![o] = "starting"]
  /\ Call(p, "reserve", "reserve", o, "stock")

CallCommit(p, o) ==
  /\ o \notin CodOrder
  /\ checkout[o] = "open"
  /\ Call(p, "commit", "commit", o, "load")
  /\ UNCHANGED checkout

CallRelease(p, o) ==
  /\ o \notin CodOrder
  /\ checkout[o] = "open"
  /\ Call(p, "release", "release", o, "load")
  /\ UNCHANGED checkout

(* reconcile_stale_reservations: keys with at most a minute to live, and   *)
(* mirrors still "reserved" after the TTL.                                 *)
Sweep(p, o) ==
  /\ \/ hold[o] /\ age[o] = "closing"
     \/ mirror[o] = "reserved" /\ age[o] = "past"
  /\ Call(p, "sweep", "release", o, "load")
  /\ UNCHANGED checkout

CallSell(p, o) ==
  /\ o \in CodOrder
  /\ checkout[o] = "new"
  /\ checkout' = [checkout EXCEPT ![o] = "starting"]
  /\ Call(p, "sell", "sell", o, "take")

CallRestock(p, o) ==
  /\ o \in CodOrder
  /\ checkout[o] = "open"
  /\ checkout' = [checkout EXCEPT ![o] = "undone"]
  /\ Call(p, "restock", "restock", o, "putBack")

(* The handler gets its answer. *)
Return(p) ==
  /\ task[p].pc \in Ended
  /\ checkout' = IF checkout[OrderOf(p)] = "starting"
                 THEN [checkout EXCEPT ![OrderOf(p)] =
                         IF At(p, "ok") THEN "open" ELSE "refused"]
                 ELSE checkout
  /\ task' = [task EXCEPT ![p] = Idle]
  /\ UNCHANGED <<stores, calls, faults, history>>

(* The process dies: what it did stays, what it had left is never done. *)
Crash(p) ==
  /\ "crash" \in Faults
  /\ faults < MaxFaults
  /\ ~At(p, "idle")
  /\ faults' = faults + 1
  /\ checkout' = IF checkout[OrderOf(p)] = "starting"
                 THEN [checkout EXCEPT ![OrderOf(p)] = "refused"]
                 ELSE checkout
  /\ task' = [task EXCEPT ![p] = Idle]
  /\ UNCHANGED <<stores, calls, history>>

(* The Redis or MongoDB command at this await raises, having done nothing. *)
(* reserve_for_order releases the row's lock if it holds it and undoes the *)
(* lines it has appended so far; a failed sync is swallowed; every other   *)
(* operation, and the undo itself, lets the exception through.             *)
StoreFails(p) ==
  /\ "store" \in Faults
  /\ faults < MaxFaults
  /\ task[p].pc \notin Ended \cup {"idle"}
  /\ faults' = faults + 1
  /\ \/ task[p].op = "reserve" /\ task[p].pc \in SyncSteps /\ Goto(p, "unlock")
     \/ task[p].op # "reserve" /\ task[p].pc \in SyncSteps /\ NextLine(p, "decr", "delKey")
     \/ task[p].op # "reserve" /\ task[p].pc \notin SyncSteps /\ Goto(p, "raised")
     \/ task[p].pc \in {"check", "count"} /\ Goto(p, "refuse")
     \/ task[p].pc \in {"stock", "lock", "unlock", "refuse"} /\ Undo(p, task[p].i - 1)
     \/ task[p].pc \in {"key", "mirror"} /\ Undo(p, Len(Lines[OrderOf(p)]))
  /\ UNCHANGED <<stores, checkout, calls, history>>

Caller(p) ==
  \E o \in Order : \/ CallReserve(p, o) \/ CallCommit(p, o) \/ CallRelease(p, o)
                   \/ Sweep(p, o) \/ CallSell(p, o) \/ CallRestock(p, o)

Next ==
  \/ \E p \in Proc : Step(p) \/ Return(p) \/ Crash(p) \/ StoreFails(p) \/ Caller(p)
  \/ \E o \in Order : Tick(o)
  \/ \E r \in Row : LockExpires(r)

Spec == Init /\ [][Next]_vars

-----------------------------------------------------------------------------
(* Properties *)

WellFormedTask ==
  {t \in Task :
    /\ t.pc # "idle" => t.order \in Order
    /\ t.pc \in LineSteps => /\ t.i \in 1 .. t.last
                            /\ t.last \in 1 .. Len(Lines[t.order])}

(* Every variable stays in its type, and a handler in a line loop is on    *)
(* one of its order's lines.                                               *)
TypeOK ==
  /\ qty \in [Row -> Int]
  /\ status \in [Row -> {"in_stock", "out_of_stock"}]
  /\ pending \in [Row -> Int]
  /\ locked \in [Row -> BOOLEAN]
  /\ hold \in [Order -> BOOLEAN]
  /\ age \in [Order -> {"fresh", "closing", "past"}]
  /\ mirror \in [Order -> {"none", "reserved", "committed", "released"}]
  /\ task \in [Proc -> WellFormedTask]
  /\ checkout \in [Order -> {"new", "starting", "open", "refused", "undone"}]
  /\ calls \in [Order -> Nat]
  /\ faults \in Nat
  /\ DOMAIN held = Order /\ DOMAIN taken = Order
  /\ \A o \in Order : held[o] \subseteq 1 .. Len(Lines[o])
  /\ \A o \in Order : taken[o] \in [1 .. Len(Lines[o]) -> Int]

(* No row's quantity goes below zero, however many commits, COD checkouts  *)
(* and restocks interleave, crash or fail halfway (_atomic_decrement).     *)
StockNeverNegative == \A r \in Row : qty[r] >= 0

(* Two checkouts are never between taking and deleting the same row's lock *)
(* unless one of them outlived LOCK_TTL_SECONDS (_reserve_product).        *)
LockIsExclusive ==
  "stall" \notin Faults =>
    \A p, q \in Proc, r \in Row : InLock(p, r) /\ InLock(q, r) => p = q

(* The durable mirror of an order is handed to one handler at most, ever:  *)
(* two handlers never both work on lines they claimed from it, and the one *)
(* that does finds it marked with its own resolution                       *)
(* (_resolve_durable_mirror).                                              *)
MirrorClaimExclusive ==
  /\ \A p, q \in Proc :
       task[p].mirrored /\ task[q].mirrored /\ OrderOf(p) = OrderOf(q) => p = q
  /\ \A p \in Proc :
       task[p].mirrored => mirror[OrderOf(p)] = Resolution(task[p].op)

(* The units of row r on the given lines of each order, one by one. *)
LineUnits(o, k) == {<<o, k, u>> : u \in 1 .. Lines[o][k].n}

UnitsOn(r, lines) ==
  UNION {UNION {LineUnits(o, k) : k \in {j \in lines[o] : Lines[o][j].row = r}} : o \in Order}

UnitsIn(r, lines) == Cardinality(UnitsOn(r, lines))

UnitsHeld(r) == UnitsIn(r, held)

(* Held and not yet sold: what buyers were promised and may still pay for. *)
UnitsPromised(r) == UnitsIn(r, [o \in Order |-> {k \in held[o] : taken[o][k] = 0}])

(* The pending counter never claims units that no order holds, so a buyer  *)
(* is never turned away for a hold that was taken back: decrements,        *)
(* deletes and increments of the counter by several handlers may lose a    *)
(* hold but never invent one (_adjust_pending_qty).                        *)
NoPhantomHold == \A r \in Row : pending[r] <= UnitsHeld(r)

(* Reservations never promise more units of a row than it has on hand      *)
(* (reserve_for_order).                                                    *)
NoOverbooking == \A r \in Row : UnitsPromised(r) <= qty[r]

(* A resolved mirror is never resolved again the other way or reopened, so *)
(* a late handler cannot turn a sale back into a hold.                     *)
ResolutionIsFinal ==
  [][\A o \in Order : mirror[o] \in {"committed", "released"} => mirror'[o] = mirror[o]]_vars

(* A hold is taken back from the counter at most once, whether the order   *)
(* was committed, released or swept.                                       *)
HoldTakenBackOnce ==
  [][\A p \in Proc : DecrPending(p) => task[p].i \in held[OrderOf(p)]]_vars

(* Every hold ends: the order is committed, released, undone or swept.     *)
HoldsEnd == \A o \in Order : held[o] # {} ~> held[o] = {}

(* Handlers run to their end, time passes, and the cron job keeps being    *)
(* called (POST /cron/inventory/reconcile).                                *)
Fairness ==
  /\ \A p \in Proc : WF_vars(Step(p) \/ Return(p))
  /\ \A o \in Order : WF_vars(Tick(o)) /\ WF_vars(\E p \in Proc : Sweep(p, o))
  /\ \A r \in Row : WF_vars(LockExpires(r))

FairSpec == Spec /\ Fairness

=============================================================================
