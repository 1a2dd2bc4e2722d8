----------------------------- MODULE Fulfilment -----------------------------
(***************************************************************************)
(* The shipping of an order: ShiprocketService, with the dashboard's       *)
(* routes that call it and the courier's webhooks.                         *)
(*                                                                         *)
(* Everything is keyed by the order's id, so there is one order.  A        *)
(* handler is split at each call of the courier and at each write that     *)
(* follows a read; `seen` is the document it read.  A status of the        *)
(* courier is named after the status it is mapped to.                      *)
(***************************************************************************)
EXTENDS Naturals

CONSTANTS
  Handler,        \* requests of the dashboard and consumers of the event stream
  NoHandler,
  ShipFaults,     \* what may fail: "lost", "die", "slow"
  MaxShipFaults   \* how often, a bound

ASSUME FulfilmentAssumption ==
  /\ NoHandler \notin Handler
  /\ ShipFaults \subseteq {"lost", "die", "slow"}
  /\ MaxShipFaults \in Nat

VARIABLES
  doc,        \* the order: status.type, fulfillment_status, shipment_status, and
              \* whether it has the ids of the courier's order and an AWB
  handler,    \* where each handler is, and what it read
  shipLock,   \* shiprocket:ship_lock:<order>
  parcels,    \* orders created at the courier
  courier,    \* how far the parcel is
  hooks,      \* statuses of webhooks in the order stream
  shipFaults

shipVars == <<doc, handler, shipLock, parcels, courier, hooks, shipFaults>>

Terminal == {"cancelled", "delivered", "rto_delivered", "failed"}
Statuses == {"pending", "awb_assigned", "pickup_scheduled", "in_transit", "out_for_delivery"}
            \cup Terminal
RejectedTypes == {"rejected", "rejected_by_user"}

(* What the courier's next status may be; "other" is one the table of the  *)
(* service lacks.                                                          *)
StatusMap == [
  none             |-> {},
  awb_assigned     |-> {"pickup_scheduled", "in_transit"},
  pickup_scheduled |-> {"in_transit"},
  in_transit       |-> {"other", "out_for_delivery", "failed"},
  other            |-> {"out_for_delivery"},
  out_for_delivery |-> {"delivered", "failed"},
  failed           |-> {"out_for_delivery", "rto_delivered"},
  delivered        |-> {},
  rto_delivered    |-> {},
  cancelled        |-> {}]

NotBegun == [at |-> "new", seen |-> [status |-> "-", ship |-> "-", awb |-> FALSE], raw |-> "-"]

DocSeen == [status |-> doc.status, ship |-> doc.ship, awb |-> doc.awb]
HandlerAt(h, at) == handler[h].at = at
HandlerGoes(h, at) == handler' = [handler EXCEPT ![h].at = at]
HandlerReads(h, at, raw) == handler' = [handler EXCEPT ![h] = [at |-> at, seen |-> DocSeen, raw |-> raw]]
HandlerDone(raw) == [NotBegun EXCEPT !.at = "done", !.raw = raw]
HandlerEnds(h) == handler' = [handler EXCEPT ![h] = HandlerDone(handler[h].raw)]

ShipFails(kind) ==
  /\ kind \in ShipFaults
  /\ shipFaults < MaxShipFaults
  /\ shipFaults' = shipFaults + 1

ShipInit ==
  /\ doc = [status |-> "accepted", ful |-> "none", ship |-> "pending", sr |-> FALSE, awb |-> FALSE]
  /\ handler = [h \in Handler |-> NotBegun]
  /\ shipLock = NoHandler
  /\ parcels = 0
  /\ courier = "none"
  /\ hooks = {}
  /\ shipFaults = 0

-----------------------------------------------------------------------------
(* ship_order *)

(* (LockForgotten: a mutant that does not look at the lock.)               *)
LockForgotten(h) ==
  /\ HandlerAt(h, "new")
  /\ shipLock' = h
  /\ HandlerGoes(h, "shipRead")
  /\ UNCHANGED <<doc, parcels, courier, hooks, shipFaults>>

(* SET NX EX 120; the request that finds it taken is refused. *)
ShipOrder(h) ==
  /\ HandlerAt(h, "new")
  /\ shipLock = NoHandler
  /\ shipLock' = h
  /\ HandlerGoes(h, "shipRead")
  /\ UNCHANGED <<doc, parcels, courier, hooks, shipFaults>>

(* The steps whose result the document has are skipped. *)
AfterAwb(ship) == IF ship = "awb_assigned" THEN "pickup" ELSE "ship"

ShipRead(h) ==
  /\ HandlerAt(h, "shipRead")
  /\ HandlerReads(h, IF ~doc.sr THEN "create" ELSE IF ~doc.awb THEN "assign" ELSE AfterAwb(doc.ship), "-")
  /\ UNCHANGED <<doc, shipLock, parcels, courier, hooks, shipFaults>>

(* create_order, or its refusal. *)
CreateParcel(h) ==
  /\ HandlerAt(h, "create")
  /\ \/ parcels' = parcels + 1 /\ HandlerGoes(h, "saveIds")
     \/ HandlerGoes(h, "endShip") /\ UNCHANGED parcels
  /\ UNCHANGED <<doc, shipLock, courier, hooks, shipFaults>>

(* _request: an answer that is lost or a 5xx is retried, and the courier   *)
(* creates again; or it is lost for good.                                  *)
RequestRetried(h) ==
  /\ HandlerAt(h, "create")
  /\ ShipFails("lost")
  /\ \/ parcels' = parcels + 2 /\ HandlerGoes(h, "saveIds")
     \/ parcels' = parcels + 1 /\ HandlerGoes(h, "endShip")
  /\ UNCHANGED <<doc, shipLock, courier, hooks>>

SaveIds(h) ==
  /\ HandlerAt(h, "saveIds")
  /\ doc' = [doc EXCEPT !.sr = TRUE]
  /\ HandlerGoes(h, "assign")
  /\ UNCHANGED <<shipLock, parcels, courier, hooks, shipFaults>>

(* assign_awb: done; or refused, or still being processed, which both      *)
(* raise, the second with an AWB that a webhook brings later.              *)
AssignAwb(h) ==
  /\ HandlerAt(h, "assign")
  /\ \/ courier = "none" /\ courier' = "awb_assigned" /\ HandlerGoes(h, "saveAwb")
     \/ courier = "none" /\ courier' = "awb_assigned" /\ HandlerGoes(h, "endShip")
     \/ UNCHANGED courier /\ HandlerGoes(h, "endShip")
  /\ UNCHANGED <<doc, shipLock, parcels, hooks, shipFaults>>

SaveAwb(h) ==
  /\ HandlerAt(h, "saveAwb")
  /\ doc' = [doc EXCEPT !.awb = TRUE, !.ship = "awb_assigned"]
  /\ handler' = [handler EXCEPT ![h].at = "pickup", ![h].seen.ship = "awb_assigned"]
  /\ UNCHANGED <<shipLock, parcels, courier, hooks, shipFaults>>

(* The label and the invoice are fetched, or not; generate_pickup is done, *)
(* or fails and is only logged.                                            *)
GeneratePickup(h) ==
  /\ HandlerAt(h, "pickup")
  /\ \/ HandlerGoes(h, "savePickup")
        /\ courier' = IF courier = "awb_assigned" THEN "pickup_scheduled" ELSE courier
     \/ HandlerGoes(h, "ship") /\ UNCHANGED courier
  /\ UNCHANGED <<doc, shipLock, parcels, hooks, shipFaults>>

SavePickup(h) ==
  /\ HandlerAt(h, "savePickup")
  /\ doc' = [doc EXCEPT !.ship = "pickup_scheduled"]
  /\ HandlerGoes(h, "ship")
  /\ UNCHANGED <<shipLock, parcels, courier, hooks, shipFaults>>

Shipped(h) ==
  /\ HandlerAt(h, "ship")
  /\ doc' = [doc EXCEPT !.ful = "shipped"]
  /\ HandlerGoes(h, "endShip")
  /\ UNCHANGED <<shipLock, parcels, courier, hooks, shipFaults>>

(* finally: delete the lock, whoever holds it. *)
EndShip(h) ==
  /\ HandlerAt(h, "endShip")
  /\ shipLock' = NoHandler
  /\ HandlerEnds(h)
  /\ UNCHANGED <<doc, parcels, courier, hooks, shipFaults>>

-----------------------------------------------------------------------------
(* Courier updates: webhooks and track *)

(* (ApplyAnyway: a mutant that overwrites terminal statuses.)              *)
ApplyAnyway(h, raw, after) ==
  IF raw \notin Statuses
  THEN handler' = [handler EXCEPT ![h] = HandlerDone(raw)]
  ELSE HandlerReads(h, after, raw)

(* (ApplyUnmapped: a mutant that stores a status it has no mapping for.)   *)
ApplyUnmapped(h, raw, after) ==
  IF doc.ship \in Terminal /\ raw # doc.ship
  THEN handler' = [handler EXCEPT ![h] = HandlerDone(raw)]
  ELSE HandlerReads(h, after, raw)

(* _apply_status_update up to its write: a status that is unknown, or that *)
(* would change a terminal one, leaves the document alone.                 *)
ApplyUpdate(h, raw, after) ==
  IF raw \notin Statuses \/ (doc.ship \in Terminal /\ raw # doc.ship)
  THEN handler' = [handler EXCEPT ![h] = HandlerDone(raw)]
  ELSE HandlerReads(h, after, raw)

(* The stream delivers a webhook at least once, in any order. *)
HandleWebhook(h) ==
  /\ HandlerAt(h, "new")
  /\ \E raw \in hooks : ApplyUpdate(h, raw, "write")
  /\ UNCHANGED <<doc, shipLock, parcels, courier, hooks, shipFaults>>

Track(h) ==
  /\ HandlerAt(h, "new")
  /\ doc.awb
  /\ handler' = [handler EXCEPT ![h].at = "tracked", ![h].raw = courier]
  /\ UNCHANGED <<doc, shipLock, parcels, courier, hooks, shipFaults>>

Tracked(h) ==
  /\ HandlerAt(h, "tracked")
  /\ ApplyUpdate(h, handler[h].raw, "write")
  /\ UNCHANGED <<doc, shipLock, parcels, courier, hooks, shipFaults>>

(* The update has no filter but the order's id. *)
ApplyStatusUpdate(h) ==
  /\ HandlerAt(h, "write")
  /\ LET raw == handler[h].raw
         changed == raw # handler[h].seen.ship
     IN  /\ doc' = [doc EXCEPT !.ship = raw, !.awb = TRUE]
         /\ IF changed THEN HandlerGoes(h, "sync") ELSE HandlerEnds(h)
  /\ UNCHANGED <<shipLock, parcels, courier, hooks, shipFaults>>

(* The order's own status follows, unless it was rejected when it was read. *)
SyncOrderStatusType(h) ==
  /\ HandlerAt(h, "sync")
  /\ doc' = IF /\ handler[h].raw \in {"out_for_delivery", "delivered"}
               /\ handler[h].seen.status \notin RejectedTypes \cup {handler[h].raw}
            THEN [doc EXCEPT !.status = handler[h].raw] ELSE doc
  /\ HandlerEnds(h)
  /\ UNCHANGED <<shipLock, parcels, courier, hooks, shipFaults>>

-----------------------------------------------------------------------------
(* cancel_shipment, and the dashboard's other writes *)

CancelShipment(h) ==
  /\ HandlerAt(h, "new")
  /\ doc.ship \notin Terminal
  /\ doc.sr \/ doc.awb
  /\ HandlerReads(h, "cancelCall", "cancelled")
  /\ UNCHANGED <<doc, shipLock, parcels, courier, hooks, shipFaults>>

(* The courier cancels what it has not picked up, and refuses the rest. *)
CancelAtCourier(h) ==
  /\ HandlerAt(h, "cancelCall")
  /\ IF courier \in {"none", "awb_assigned", "pickup_scheduled"}
     THEN courier' = "cancelled" /\ hooks' = hooks \cup {"cancelled"} /\ HandlerGoes(h, "cancelWrite")
     ELSE HandlerEnds(h) /\ UNCHANGED <<courier, hooks>>
  /\ UNCHANGED <<doc, shipLock, parcels, shipFaults>>

Cancelled(h) ==
  /\ HandlerAt(h, "cancelWrite")
  /\ doc' = [doc EXCEPT !.ship = "cancelled"]
  /\ HandlerEnds(h)
  /\ UNCHANGED <<shipLock, parcels, courier, hooks, shipFaults>>

MarkPacked(h) ==
  /\ HandlerAt(h, "new")
  /\ HandlerEnds(h)
  /\ doc' = [doc EXCEPT !.ful = "packed"]
  /\ UNCHANGED <<shipLock, parcels, courier, hooks, shipFaults>>

UpdateStatus(h, type) ==
  /\ HandlerAt(h, "new")
  /\ HandlerEnds(h)
  /\ doc' = [doc EXCEPT !.status = type]
  /\ UNCHANGED <<shipLock, parcels, courier, hooks, shipFaults>>

-----------------------------------------------------------------------------
(* The courier, and failures *)

CourierMoves(next) ==
  /\ next \in StatusMap[courier]
  /\ courier' = next
  /\ hooks' = hooks \cup {next}
  /\ UNCHANGED <<doc, handler, shipLock, parcels, shipFaults>>

HandlerDies(h) ==
  /\ handler[h].at \notin {"new", "done"}
  /\ ShipFails("die")
  /\ HandlerEnds(h)
  /\ UNCHANGED <<doc, shipLock, parcels, courier, hooks>>

Shipping(h) ==
  handler[h].at \in {"shipRead", "create", "saveIds", "assign", "saveAwb", "pickup",
                     "savePickup", "ship", "endShip"}

(* 120 seconds: the holder died, or its calls, of 45 s and up to three     *)
(* attempts each, took longer.                                             *)
ShipLockExpires ==
  /\ shipLock # NoHandler
  /\ IF Shipping(shipLock) THEN ShipFails("slow") ELSE UNCHANGED shipFaults
  /\ shipLock' = NoHandler
  /\ UNCHANGED <<doc, handler, parcels, courier, hooks>>

ShipNext ==
  \/ \E h \in Handler :
       \/ ShipOrder(h) \/ ShipRead(h) \/ CreateParcel(h) \/ RequestRetried(h) \/ SaveIds(h)
       \/ AssignAwb(h) \/ SaveAwb(h) \/ GeneratePickup(h) \/ SavePickup(h)
       \/ Shipped(h) \/ EndShip(h)
       \/ HandleWebhook(h) \/ Track(h) \/ Tracked(h)
       \/ ApplyStatusUpdate(h) \/ SyncOrderStatusType(h)
       \/ CancelShipment(h) \/ CancelAtCourier(h) \/ Cancelled(h)
       \/ MarkPacked(h)
       \/ \E type \in {"accepted", "rejected"} : UpdateStatus(h, type)
       \/ HandlerDies(h)
  \/ \E next \in Statuses \cup {"other"} : CourierMoves(next)
  \/ ShipLockExpires

ShipSpec == ShipInit /\ [][ShipNext]_shipVars

-----------------------------------------------------------------------------
(* Properties *)

(* The order, the courier's side and every handler's copy of the order are *)
(* in their types, and only states the courier can report are on its way.  *)
ShipTypeOK ==
  /\ doc \in [status : {"accepted", "out_for_delivery", "delivered"} \cup RejectedTypes,
              ful : {"none", "packed", "shipped"}, ship : Statuses, sr : BOOLEAN, awb : BOOLEAN]
  /\ \A h \in Handler : handler[h].seen.ship \in Statuses \cup {"-"}
  /\ shipLock \in Handler \cup {NoHandler}
  /\ parcels \in Nat
  /\ courier \in DOMAIN StatusMap
  /\ hooks \subseteq Statuses \cup {"other"}
  /\ shipFaults \in 0 .. MaxShipFaults

(* One parcel is created for the order, however often and from however     *)
(* many tabs it is shipped: unless the courier's answer was lost, a        *)
(* handler died, or the lock lapsed under one.                             *)
OneParcelUnlessCut == shipFaults = 0 => parcels <= 1

(* _apply_status_update: a terminal status is not overwritten by a stale   *)
(* update.                                                                 *)
TerminalStays == [][doc.ship \in Terminal => doc'.ship = doc.ship]_shipVars

(* What is decided stays decided.  A terminal shipment status, or the      *)
(* rejection of the order by an admin, is undone only by a handler that    *)
(* had read the document before the decision, or by an admin.              *)
OnlyStaleReadersUndo ==
  [][/\ doc.ship \in Terminal /\ doc'.ship # doc.ship =>
          \E h \in Handler : handler'[h] # handler[h] /\ handler[h].seen.ship # doc.ship
     /\ doc.status \in RejectedTypes /\ doc'.status \in {"out_for_delivery", "delivered"} =>
          \E h \in Handler : HandlerAt(h, "sync") /\ handler[h].seen.status \notin RejectedTypes]_shipVars

(* The courier's confirmation of the delivery reaches the order (the       *)
(* comment on _SHIPMENT_TO_ORDER_STATUS_TYPE): once the webhook that says   *)
(* so has been handled, the parcel is shown as delivered.                  *)
DeliveryIsReflected ==
  /\ \E h \in Handler : handler[h] = HandlerDone("delivered")
  /\ \A h \in Handler : handler[h].at \in {"new", "done"}
  => doc.ship = "delivered"
=============================================================================
