-------------------------- MODULE FulfilmentProofs --------------------------
(* Proofs about Fulfilment.  What a handler read, and what it may do with  *)
(* it, depends on where it is (SeenFits); what the lock gives, on nobody   *)
(* having been cut off (OneShips).                                         *)
EXTENDS Fulfilment, TLAPS

Types == {"accepted", "out_for_delivery", "delivered"} \cup RejectedTypes
Known == Statuses \cup {"other", "none"}
ShipPlaces == {"shipRead", "create", "saveIds", "assign", "saveAwb", "pickup", "savePickup", "ship", "endShip"}
Places == ShipPlaces \cup {"new", "done", "tracked", "write", "sync", "cancelCall", "cancelWrite"}
Seen == [status : Types \cup {"-"}, ship : Statuses \cup {"-"}, awb : BOOLEAN]

Row == [at : Places, seen : Seen, raw : Known \cup {"-"}]

ShipTyped ==
  /\ ShipTypeOK
  /\ handler \in [Handler -> Row]

(* What a handler read, and what is true of the courier by then. *)
SeenFits(h) ==
  /\ handler[h].at \in {"create", "saveIds", "assign"} /\ handler[h].seen.ship \in Terminal => courier # "none"
  /\ handler[h].at = "saveAwb" => handler[h].seen.ship \notin Terminal
  /\ handler[h].at \in {"pickup", "savePickup"} => handler[h].seen.ship = "awb_assigned"
  /\ handler[h].at \in {"cancelCall", "cancelWrite"} => handler[h].seen.ship \notin Terminal
  /\ handler[h].at \in {"write", "sync"} => handler[h].raw \in Statuses
  /\ handler[h].at = "write" /\ handler[h].seen.ship \in Terminal => handler[h].raw = handler[h].seen.ship
  /\ handler[h].at \in {"tracked", "write"} /\ handler[h].raw \in Statuses => courier # "none"
  /\ handler[h].at = "cancelWrite" => courier # "none"

CourierFits ==
  /\ doc.ship \in Terminal => courier # "none"
  /\ hooks # {} => courier # "none"

(* The lock's holder ships alone, and creates only what was not created. *)
OneShips ==
  shipFaults = 0 =>
    /\ \A h \in Handler : Shipping(h) => shipLock = h
    /\ \A h \in Handler : HandlerAt(h, "create") => ~doc.sr
    /\ ~doc.sr /\ (\A h \in Handler : ~HandlerAt(h, "saveIds")) => parcels = 0
    /\ parcels <= 1

ShipInv == ShipTyped /\ (\A h \in Handler : SeenFits(h)) /\ CourierFits /\ OneShips

LEMMA ShipInitFits == ShipInit => ShipInv
BY FulfilmentAssumption DEF ShipInit, ShipInv, ShipTyped, ShipTypeOK, SeenFits, CourierFits, OneShips,
   NotBegun, Seen, Types, Known, Places, ShipPlaces, Statuses, Terminal, RejectedTypes, StatusMap,
   Shipping, HandlerAt, Row

LEMMA Goes ==
  ASSUME NEW h \in Handler, handler \in [Handler -> Row], NEW at \in Places, HandlerGoes(h, at)
  PROVE  /\ handler' \in [Handler -> Row]
         /\ handler'[h].at = at /\ handler'[h].seen = handler[h].seen /\ handler'[h].raw = handler[h].raw
         /\ \A g \in Handler : g # h => handler'[g] = handler[g]
BY DEF HandlerGoes, Row

LEMMA Tracks ==
  ASSUME NEW h \in Handler, handler \in [Handler -> Row], NEW at \in Places, NEW raw \in Known,
         handler' = [handler EXCEPT ![h].at = at, ![h].raw = raw]
  PROVE  /\ handler' \in [Handler -> Row]
         /\ handler'[h].at = at /\ handler'[h].seen = handler[h].seen /\ handler'[h].raw = raw
         /\ \A g \in Handler : g # h => handler'[g] = handler[g]
BY DEF Row

LEMMA SeenSet ==
  ASSUME NEW h \in Handler, NEW f \in [Handler -> Row], NEW g, NEW s \in Seen,
         g = [f EXCEPT ![h].seen = s]
  PROVE  /\ g \in [Handler -> Row]
         /\ g[h].at = f[h].at /\ g[h].seen = s /\ g[h].raw = f[h].raw
         /\ \A k \in Handler : k # h => g[k] = f[k]
BY DEF Row

LEMMA SeesAwb ==
  ASSUME NEW h \in Handler, handler \in [Handler -> Row], NEW at \in Places, NEW ship \in Statuses,
         handler' = [handler EXCEPT ![h].at = at, ![h].seen.ship = ship]
  PROVE  /\ handler' \in [Handler -> Row]
         /\ handler'[h].at = at /\ handler'[h].seen.ship = ship
         /\ \A g \in Handler : g # h => handler'[g] = handler[g]
<1> DEFINE mid  == [handler EXCEPT ![h].at = at]
           seen == [handler[h].seen EXCEPT !.ship = ship]
<1>1. mid \in [Handler -> Row] /\ mid[h].at = at /\ mid[h].seen = handler[h].seen
  BY DEF Row
<1>2. \A g \in Handler : g # h => mid[g] = handler[g]
  OBVIOUS
<1>3. seen \in Seen /\ seen.ship = ship
  BY DEF Row, Seen
<1>4. handler' = [mid EXCEPT ![h].seen.ship = ship]
  BY Zenon
<1>5. handler' = [mid EXCEPT ![h].seen = [mid[h].seen EXCEPT !.ship = ship]]
  BY <1>4, Zenon
<1>6. handler' = [mid EXCEPT ![h].seen = seen]
  BY <1>1, <1>5
<1> HIDE DEF mid, seen
<1>7. QED
  BY ONLY <1>1, <1>2, <1>3, <1>6, SeenSet, SMT

LEMMA Reads ==
  ASSUME NEW h \in Handler, ShipTyped, NEW at \in Places, NEW raw \in Known \cup {"-"},
         HandlerReads(h, at, raw)
  PROVE  /\ handler' \in [Handler -> Row]
         /\ handler'[h] = [at |-> at, seen |-> DocSeen, raw |-> raw]
         /\ handler'[h].at = at
         /\ \A g \in Handler : g # h => handler'[g] = handler[g]
<1>1. DocSeen \in Seen
  BY DEF DocSeen, Seen, ShipTyped, ShipTypeOK, Types
<1>2. [at |-> at, seen |-> DocSeen, raw |-> raw] \in Row
  BY <1>1 DEF Row
<1>3. QED
  BY <1>2 DEF HandlerReads, ShipTyped

LEMMA Ends ==
  ASSUME NEW h \in Handler, handler \in [Handler -> Row], NEW raw \in Known \cup {"-"},
         handler' = [handler EXCEPT ![h] = HandlerDone(raw)]
  PROVE  /\ handler' \in [Handler -> Row]
         /\ handler'[h].at = "done"
         /\ \A g \in Handler : g # h => handler'[g] = handler[g]
<1>1. HandlerDone(raw) \in Row /\ HandlerDone(raw).at = "done"
  BY DEF HandlerDone, NotBegun, Row, Seen, Places
<1>2. QED
  BY <1>1

(* Everything a step may do to a handler. *)
HandlerActs(h) ==
  \/ ShipOrder(h) \/ ShipRead(h) \/ CreateParcel(h) \/ RequestRetried(h) \/ SaveIds(h)
  \/ AssignAwb(h) \/ SaveAwb(h) \/ GeneratePickup(h) \/ SavePickup(h)
  \/ Shipped(h) \/ EndShip(h)
  \/ HandleWebhook(h) \/ Track(h) \/ Tracked(h)
  \/ ApplyStatusUpdate(h) \/ SyncOrderStatusType(h)
  \/ CancelShipment(h) \/ CancelAtCourier(h) \/ Cancelled(h)
  \/ MarkPacked(h)
  \/ (\E type \in {"accepted", "rejected"} : UpdateStatus(h, type))
  \/ HandlerDies(h)

Moved(h) == handler' \in [Handler -> Row] /\ \A g \in Handler : g # h => handler'[g] = handler[g]

LEMMA OneHandlerMoves ==
  ASSUME NEW h \in Handler, ShipTyped, SeenFits(h), HandlerActs(h)
  PROVE  Moved(h)
<1> USE DEF Moved
<1>1. handler \in [Handler -> Row] /\ handler[h] \in Row /\ handler[h].raw \in Known \cup {"-"} /\ courier \in Known
  BY DEF ShipTyped, ShipTypeOK, Row, StatusMap, Known, Statuses, Terminal
<1>2. \A at \in {"shipRead", "saveIds", "endShip", "assign", "saveAwb", "savePickup", "ship", "cancelWrite", "sync"} :
        HandlerGoes(h, at) => Moved(h)
  BY <1>1, Goes DEF Places, ShipPlaces
<1>3. \A at \in {"create", "assign", "pickup", "ship", "cancelCall", "write"}, raw \in Known \cup {"-"} :
        HandlerReads(h, at, raw) => Moved(h)
  BY Reads DEF Places, ShipPlaces
<1>4. \A raw \in Known \cup {"-"} : handler' = [handler EXCEPT ![h] = HandlerDone(raw)] => Moved(h)
  BY <1>1, Ends
<1>5. HandlerEnds(h) => Moved(h)
  BY <1>1, <1>4 DEF HandlerEnds
<1>6. \A raw \in Known \cup {"-"} : ApplyUpdate(h, raw, "write") => Moved(h)
  BY <1>3, <1>4 DEF ApplyUpdate
<1>7. CASE ShipOrder(h) \/ CreateParcel(h) \/ RequestRetried(h) \/ SaveIds(h) \/ AssignAwb(h)
           \/ GeneratePickup(h) \/ SavePickup(h) \/ Shipped(h)
  BY <1>7, <1>2 DEF ShipOrder, CreateParcel, RequestRetried, SaveIds, AssignAwb, GeneratePickup, SavePickup, Shipped
<1>8. CASE ShipRead(h)
  <2>1. (IF ~doc.sr THEN "create" ELSE IF ~doc.awb THEN "assign" ELSE AfterAwb(doc.ship))
          \in {"create", "assign", "pickup", "ship"}
    BY DEF AfterAwb
  <2>2. QED
    BY <1>8, <1>3, <2>1 DEF ShipRead
<1>9. CASE SaveAwb(h)
  BY <1>1, <1>9, SeesAwb DEF SaveAwb, Places, ShipPlaces, Statuses
<1>10. CASE EndShip(h) \/ Cancelled(h) \/ MarkPacked(h) \/ HandlerDies(h)
            \/ \E type \in {"accepted", "rejected"} : UpdateStatus(h, type)
  BY <1>10, <1>5 DEF EndShip, Cancelled, MarkPacked, HandlerDies, UpdateStatus
<1>11. CASE HandleWebhook(h) \/ Tracked(h)
  <2>1. hooks \subseteq Known
    BY DEF ShipTyped, ShipTypeOK, Known
  <2>2. QED
    BY <1>1, <1>6, <1>11, <2>1 DEF HandleWebhook, Tracked
<1>12. CASE Track(h)
  BY <1>1, <1>12, Tracks DEF Track, Places
<1>13. CASE ApplyStatusUpdate(h) \/ SyncOrderStatusType(h)
  BY <1>2, <1>5, <1>13 DEF ApplyStatusUpdate, SyncOrderStatusType
<1>14. CASE CancelShipment(h)
  BY <1>3, <1>14 DEF CancelShipment, Known, Statuses, Terminal
<1>15. CASE CancelAtCourier(h)
  BY <1>2, <1>5, <1>15 DEF CancelAtCourier
<1>16. QED
  BY <1>7, <1>8, <1>9, <1>10, <1>11, <1>12, <1>13, <1>14, <1>15 DEF HandlerActs

-----------------------------------------------------------------------------
(* The steps, each with what it leaves behind. *)

(* What a step of one handler may do beside moving it. *)
LEMMA ActsTyped ==
  ASSUME NEW h \in Handler, ShipTyped, SeenFits(h), HandlerActs(h)
  PROVE  ShipTyped'
<1>1. Moved(h)
  BY OneHandlerMoves
<1>2. \A g \in Handler : handler'[g].seen.ship \in Statuses \cup {"-"}
  BY <1>1 DEF Moved, Row, Seen
<1>3. doc' \in [status : Types, ful : {"none", "packed", "shipped"}, ship : Statuses, sr : BOOLEAN, awb : BOOLEAN]
  <2> USE DEF ShipTyped, ShipTypeOK, Types
  <2>1. CASE UNCHANGED doc
    BY <2>1
  <2>2. CASE SaveIds(h)
    BY <2>2 DEF SaveIds
  <2>3. CASE SaveAwb(h)
    BY <2>3 DEF SaveAwb, Statuses
  <2>4. CASE SavePickup(h)
    BY <2>4 DEF SavePickup, Statuses
  <2>5. CASE Shipped(h)
    BY <2>5 DEF Shipped
  <2>6. CASE ApplyStatusUpdate(h)
    BY <2>6 DEF ApplyStatusUpdate, SeenFits, HandlerAt
  <2>7. CASE SyncOrderStatusType(h)
    BY <2>7 DEF SyncOrderStatusType
  <2>8. CASE Cancelled(h)
    BY <2>8 DEF Cancelled, Statuses, Terminal
  <2>9. CASE MarkPacked(h)
    BY <2>9 DEF MarkPacked
  <2>10. ASSUME NEW type \in {"accepted", "rejected"}, UpdateStatus(h, type) PROVE doc' \in [status : Types, ful : {"none", "packed", "shipped"}, ship : Statuses, sr : BOOLEAN, awb : BOOLEAN]
    BY <2>10 DEF UpdateStatus, RejectedTypes
  <2>11. QED
    BY <2>1, <2>2, <2>3, <2>4, <2>5, <2>6, <2>7, <2>8, <2>9, <2>10
    DEF HandlerActs, ShipOrder, ShipRead, CreateParcel, RequestRetried, AssignAwb, GeneratePickup, EndShip,
        HandleWebhook, Track, Tracked, CancelShipment, CancelAtCourier, HandlerDies
<1>4. shipLock' \in Handler \cup {NoHandler}
  BY DEF HandlerActs, ShipOrder, ShipRead, CreateParcel, RequestRetried, SaveIds, AssignAwb, SaveAwb,
         GeneratePickup, SavePickup, Shipped, EndShip, HandleWebhook, Track, Tracked, ApplyStatusUpdate,
         SyncOrderStatusType, CancelShipment, CancelAtCourier, Cancelled, MarkPacked, UpdateStatus,
         HandlerDies, ShipTyped, ShipTypeOK
<1>5. parcels' \in Nat /\ shipFaults' \in 0 .. MaxShipFaults
  BY FulfilmentAssumption
     DEF HandlerActs, ShipOrder, ShipRead, CreateParcel, RequestRetried, SaveIds, AssignAwb, SaveAwb,
         GeneratePickup, SavePickup, Shipped, EndShip, HandleWebhook, Track, Tracked, ApplyStatusUpdate,
         SyncOrderStatusType, CancelShipment, CancelAtCourier, Cancelled, MarkPacked, UpdateStatus,
         HandlerDies, ShipFails, ShipTyped, ShipTypeOK
<1>6. courier' \in DOMAIN StatusMap /\ hooks' \subseteq Statuses \cup {"other"}
  <2>1. CASE CancelAtCourier(h)
    BY <2>1 DEF CancelAtCourier, ShipTyped, ShipTypeOK, StatusMap, Statuses, Terminal
  <2>2. CASE AssignAwb(h) \/ GeneratePickup(h)
    BY <2>2 DEF AssignAwb, GeneratePickup, ShipTyped, ShipTypeOK, StatusMap
  <2>3. CASE UNCHANGED <<courier, hooks>>
    BY <2>3 DEF ShipTyped, ShipTypeOK
  <2>4. QED
    BY <2>1, <2>2, <2>3
    DEF HandlerActs, ShipOrder, ShipRead, CreateParcel, RequestRetried, SaveIds, SaveAwb,
        SavePickup, Shipped, EndShip, HandleWebhook, Track, Tracked, ApplyStatusUpdate,
        SyncOrderStatusType, CancelShipment, Cancelled, MarkPacked, UpdateStatus, HandlerDies
<1>7. QED
  BY <1>1, <1>2, <1>3, <1>4, <1>5, <1>6 DEF ShipTyped, ShipTypeOK, Moved, Types

(* A parcel that has begun does not become one that has not. *)
LEMMA CourierBegun ==
  ASSUME NEW h \in Handler, HandlerActs(h), courier # "none"
  PROVE  courier' # "none"
BY DEF HandlerActs, ShipOrder, ShipRead, CreateParcel, RequestRetried, SaveIds, AssignAwb, SaveAwb,
       GeneratePickup, SavePickup, Shipped, EndShip, HandleWebhook, Track, Tracked, ApplyStatusUpdate,
       SyncOrderStatusType, CancelShipment, CancelAtCourier, Cancelled, MarkPacked, UpdateStatus, HandlerDies

(* A place about which SeenFits says nothing. *)
LEMMA SeenFitsElsewhere ==
  ASSUME NEW h \in Handler,
         handler'[h].at \in {"new", "done", "shipRead", "ship", "endShip"}
  PROVE  SeenFits(h)'
BY DEF SeenFits

LEMMA SeenFitsKept ==
  ASSUME NEW h \in Handler, ShipTyped, SeenFits(h), CourierFits, HandlerActs(h)
  PROVE  SeenFits(h)'
<1>1. handler \in [Handler -> Row] /\ handler[h] \in Row /\ handler[h].raw \in Known \cup {"-"} /\ courier \in Known
  BY DEF ShipTyped, ShipTypeOK, Row, StatusMap, Known, Statuses, Terminal
<1>2. HandlerEnds(h) => SeenFits(h)'
  BY <1>1, Ends, SeenFitsElsewhere DEF HandlerEnds
<1>3. \A at \in {"shipRead", "ship", "endShip"} : HandlerGoes(h, at) => SeenFits(h)'
  BY <1>1, Goes, SeenFitsElsewhere DEF Places, ShipPlaces
<1>4. CASE ShipOrder(h) \/ Shipped(h) \/ SavePickup(h) \/ EndShip(h) \/ Cancelled(h) \/ MarkPacked(h) \/ HandlerDies(h)
           \/ SyncOrderStatusType(h) \/ \E type \in {"accepted", "rejected"} : UpdateStatus(h, type)
  BY <1>2, <1>3, <1>4
  DEF ShipOrder, Shipped, SavePickup, EndShip, Cancelled, MarkPacked, HandlerDies, SyncOrderStatusType, UpdateStatus
<1>5. CASE ShipRead(h)
  <2> DEFINE at == IF ~doc.sr THEN "create" ELSE IF ~doc.awb THEN "assign" ELSE AfterAwb(doc.ship)
  <2>1. at \in {"create", "assign"} \/ (at = "pickup" /\ doc.ship = "awb_assigned") \/ at = "ship"
    BY DEF AfterAwb
  <2>2. HandlerReads(h, at, "-") /\ at \in Places /\ courier' = courier
    BY <1>5, <2>1 DEF ShipRead, Places, ShipPlaces
  <2> HIDE DEF at
  <2>3. handler'[h] = [at |-> at, seen |-> DocSeen, raw |-> "-"]
    BY <2>2, Reads
  <2>4. QED
    BY <2>1, <2>2, <2>3 DEF SeenFits, CourierFits, DocSeen
<1>6. CASE CreateParcel(h) \/ RequestRetried(h)
  <2>1. HandlerAt(h, "create") /\ (HandlerGoes(h, "saveIds") \/ HandlerGoes(h, "endShip")) /\ courier' = courier
    BY <1>6 DEF CreateParcel, RequestRetried
  <2>2. ASSUME HandlerGoes(h, "saveIds")
        PROVE  SeenFits(h)'
    <3>1. handler'[h].at = "saveIds" /\ handler'[h].seen = handler[h].seen
      BY <1>1, <2>2, Goes DEF Places, ShipPlaces
    <3>2. QED
      BY <2>1, <3>1 DEF SeenFits, HandlerAt
  <2>3. QED
    BY <1>3, <2>1, <2>2
<1>7. CASE SaveIds(h)
  <2>1. HandlerAt(h, "saveIds") /\ courier' = courier /\ handler'[h].at = "assign" /\ handler'[h].seen = handler[h].seen
    BY <1>1, <1>7, Goes DEF SaveIds, Places, ShipPlaces
  <2>2. QED
    BY <2>1 DEF SeenFits, HandlerAt
<1>8. CASE AssignAwb(h)
  <2>1. HandlerAt(h, "assign") /\ (HandlerGoes(h, "endShip") \/ (courier = "none" /\ HandlerGoes(h, "saveAwb")))
    BY <1>8 DEF AssignAwb
  <2>2. ASSUME courier = "none", HandlerGoes(h, "saveAwb")
        PROVE  SeenFits(h)'
    <3>1. handler'[h].at = "saveAwb" /\ handler'[h].seen = handler[h].seen
      BY <1>1, <2>2, Goes DEF Places, ShipPlaces
    <3>2. QED
      BY <2>1, <2>2, <3>1 DEF SeenFits, HandlerAt
  <2>3. QED
    BY <1>3, <2>1, <2>2
<1>9. CASE SaveAwb(h)
  <2>1. handler'[h].at = "pickup" /\ handler'[h].seen.ship = "awb_assigned"
    BY <1>1, <1>9, SeesAwb, ZenonT(30) DEF SaveAwb, Places, ShipPlaces, Statuses
  <2>2. QED
    BY <2>1 DEF SeenFits
<1>10. CASE GeneratePickup(h)
  <2>1. HandlerAt(h, "pickup") /\ (HandlerGoes(h, "ship") \/ HandlerGoes(h, "savePickup"))
    BY <1>10 DEF GeneratePickup
  <2>2. ASSUME HandlerGoes(h, "savePickup")
        PROVE  SeenFits(h)'
    <3>1. handler'[h].at = "savePickup" /\ handler'[h].seen = handler[h].seen
      BY <1>1, <2>2, Goes DEF Places, ShipPlaces
    <3>2. QED
      BY <2>1, <3>1 DEF SeenFits, HandlerAt
  <2>3. QED
    BY <1>3, <2>1, <2>2
<1>11. ASSUME NEW raw \in Known \cup {"-"}, ApplyUpdate(h, raw, "write"), raw \in Statuses => courier # "none",
              courier' = courier
       PROVE  SeenFits(h)'
  <2>1. CASE handler' = [handler EXCEPT ![h] = HandlerDone(raw)]
    BY <1>1, <2>1, Ends, SeenFitsElsewhere
  <2>2. CASE HandlerReads(h, "write", raw) /\ raw \in Statuses /\ (doc.ship \in Terminal => raw = doc.ship)
    <3>1. handler'[h] = [at |-> "write", seen |-> DocSeen, raw |-> raw]
      BY <2>2, Reads DEF Places
    <3>2. QED
      BY <1>11, <2>2, <3>1 DEF SeenFits, DocSeen
  <2>3. QED
    BY <1>11, <2>1, <2>2 DEF ApplyUpdate
<1>12. CASE HandleWebhook(h)
  BY <1>11, <1>12 DEF HandleWebhook, CourierFits, ShipTyped, ShipTypeOK, Known
<1>13. CASE Track(h)
  <2>1. handler'[h].at = "tracked" /\ handler'[h].raw = courier /\ courier' = courier
    BY <1>1, <1>13, Tracks DEF Track, Places
  <2>2. QED
    BY <2>1 DEF SeenFits, Statuses, Terminal
<1>14. CASE Tracked(h)
  BY <1>1, <1>11, <1>14 DEF Tracked, SeenFits, HandlerAt
<1>15. CASE ApplyStatusUpdate(h)
  <2>1. HandlerAt(h, "write") /\ (HandlerGoes(h, "sync") \/ HandlerEnds(h))
    BY <1>15 DEF ApplyStatusUpdate
  <2>2. ASSUME HandlerGoes(h, "sync")
        PROVE  SeenFits(h)'
    <3>1. handler'[h].at = "sync" /\ handler'[h].raw = handler[h].raw
      BY <1>1, <2>2, Goes DEF Places
    <3>2. QED
      BY <2>1, <3>1 DEF SeenFits, HandlerAt
  <2>3. QED
    BY <1>2, <2>1, <2>2
<1>16. CASE CancelShipment(h)
  <2>1. "cancelled" \in Known \cup {"-"} /\ "cancelCall" \in Places
    BY DEF Places, Known, Statuses, Terminal
  <2>2. HandlerReads(h, "cancelCall", "cancelled") /\ doc.ship \notin Terminal
    BY <1>16 DEF CancelShipment
  <2>3. handler'[h] = [at |-> "cancelCall", seen |-> DocSeen, raw |-> "cancelled"]
    BY <2>1, <2>2, Reads
  <2>4. QED
    BY <2>2, <2>3 DEF SeenFits, DocSeen
<1>17. CASE CancelAtCourier(h)
  <2>1. HandlerAt(h, "cancelCall") /\ (HandlerEnds(h) \/ (HandlerGoes(h, "cancelWrite") /\ courier' = "cancelled"))
    BY <1>17 DEF CancelAtCourier
  <2>2. ASSUME HandlerGoes(h, "cancelWrite"), courier' = "cancelled"
        PROVE  SeenFits(h)'
    <3>1. handler'[h].at = "cancelWrite" /\ handler'[h].seen = handler[h].seen
      BY <1>1, <2>2, Goes DEF Places
    <3>2. QED
      BY <2>1, <2>2, <3>1 DEF SeenFits, HandlerAt
  <2>3. QED
    BY <1>2, <2>1, <2>2
<1>18. QED
  BY <1>4, <1>5, <1>6, <1>7, <1>8, <1>9, <1>10, <1>12, <1>13, <1>14, <1>15, <1>16, <1>17 DEF HandlerActs

(* The other handlers' places and copies are as they were. *)
LEMMA OthersFit ==
  ASSUME NEW h \in Handler, Moved(h), HandlerActs(h), NEW g \in Handler, g # h, SeenFits(g)
  PROVE  SeenFits(g)'
<1>1. handler'[g] = handler[g]
  BY DEF Moved
<1>2. courier # "none" => courier' # "none"
  BY CourierBegun
<1>3. QED
  BY <1>1, <1>2 DEF SeenFits

LEMMA CourierFitsKept ==
  ASSUME NEW h \in Handler, ShipTyped, SeenFits(h), CourierFits, HandlerActs(h)
  PROVE  CourierFits'
<1>1. courier # "none" => courier' # "none"
  BY CourierBegun
<1>2. hooks' # {} => courier' # "none"
  <2>1. CASE CancelAtCourier(h)
    BY <1>1, <2>1 DEF CancelAtCourier, CourierFits
  <2>2. CASE hooks' = hooks
    BY <1>1, <2>2 DEF CourierFits
  <2>3. QED
    BY <2>1, <2>2
    DEF HandlerActs, ShipOrder, ShipRead, CreateParcel, RequestRetried, SaveIds, AssignAwb, SaveAwb,
        GeneratePickup, SavePickup, Shipped, EndShip, HandleWebhook, Track, Tracked, ApplyStatusUpdate,
        SyncOrderStatusType, CancelShipment, Cancelled, MarkPacked, UpdateStatus, HandlerDies
<1>3. doc'.ship \in Terminal => courier' # "none"
  <2> USE DEF ShipTyped, ShipTypeOK, CourierFits, SeenFits, HandlerAt
  <2>1. CASE UNCHANGED doc
    BY <1>1, <2>1
  <2>2. CASE SaveIds(h) \/ Shipped(h) \/ SyncOrderStatusType(h) \/ MarkPacked(h)
             \/ \E type \in {"accepted", "rejected"} : UpdateStatus(h, type)
    <3>1. doc'.ship = doc.ship
      BY <2>2 DEF SaveIds, Shipped, SyncOrderStatusType, MarkPacked, UpdateStatus
    <3>2. QED
      BY <1>1, <3>1
  <2>3. CASE SaveAwb(h) \/ SavePickup(h)
    <3>1. doc'.ship \in {"awb_assigned", "pickup_scheduled"}
      BY <2>3 DEF SaveAwb, SavePickup
    <3>2. QED
      BY <3>1 DEF Terminal
  <2>4. CASE ApplyStatusUpdate(h)
    BY <1>1, <2>4 DEF ApplyStatusUpdate
  <2>5. CASE Cancelled(h)
    BY <1>1, <2>5 DEF Cancelled
  <2>6. QED
    BY <2>1, <2>2, <2>3, <2>4, <2>5
    DEF HandlerActs, ShipOrder, ShipRead, CreateParcel, RequestRetried, AssignAwb, GeneratePickup, EndShip,
        HandleWebhook, Track, Tracked, CancelShipment, CancelAtCourier, HandlerDies
<1>4. QED
  BY <1>2, <1>3 DEF CourierFits

-----------------------------------------------------------------------------
(* One parcel *)

(* Where a handler may go when it acts: into the shipping of the order only *)
(* by taking the lock, and on in it one step after the other.              *)
LEMMA PlaceMoves ==
  ASSUME NEW h \in Handler, ShipTyped, SeenFits(h), HandlerActs(h)
  PROVE  /\ Shipping(h)' => Shipping(h) \/ ShipOrder(h)
         /\ HandlerAt(h, "create")' => ShipRead(h) /\ ~doc.sr
         /\ HandlerAt(h, "saveIds")' => CreateParcel(h) \/ RequestRetried(h)
<1>1. handler \in [Handler -> Row] /\ handler[h] \in Row /\ handler[h].raw \in Known \cup {"-"} /\ courier \in Known
  BY DEF ShipTyped, ShipTypeOK, Row, StatusMap, Known, Statuses, Terminal
<1>2. HandlerEnds(h) => handler'[h].at = "done"
  BY <1>1, Ends DEF HandlerEnds
<1>3. \A at \in {"shipRead", "saveIds", "endShip", "assign", "saveAwb", "savePickup", "ship", "cancelWrite", "sync"} :
        HandlerGoes(h, at) => handler'[h].at = at
  BY <1>1, Goes DEF Places, ShipPlaces
<1>4. \A at \in {"create", "assign", "pickup", "ship", "cancelCall", "write"}, raw \in Known \cup {"-"} :
        HandlerReads(h, at, raw) => handler'[h].at = at
  BY Reads DEF Places, ShipPlaces
<1>5. \A raw \in Known \cup {"-"} : ApplyUpdate(h, raw, "write") => handler'[h].at \in {"write", "done"}
  BY <1>1, <1>4, Ends DEF ApplyUpdate
<1> USE DEF Shipping, HandlerAt
<1>6. CASE ShipOrder(h)
  BY <1>3, <1>6 DEF ShipOrder
<1>7. CASE CreateParcel(h) \/ RequestRetried(h) \/ SaveIds(h) \/ AssignAwb(h)
           \/ GeneratePickup(h) \/ SavePickup(h) \/ Shipped(h)
  BY <1>3, <1>7 DEF CreateParcel, RequestRetried, SaveIds, AssignAwb, GeneratePickup, SavePickup, Shipped
<1>8. CASE ShipRead(h)
  <2> DEFINE at == IF ~doc.sr THEN "create" ELSE IF ~doc.awb THEN "assign" ELSE AfterAwb(doc.ship)
  <2>1. at \in {"create", "assign", "pickup", "ship"} /\ (at = "create" => ~doc.sr)
    BY DEF AfterAwb
  <2>2. HandlerReads(h, at, "-") /\ handler[h].at = "shipRead"
    BY <1>8 DEF ShipRead
  <2> HIDE DEF at
  <2>3. handler'[h].at = at
    BY <1>4, <2>1, <2>2
  <2>4. QED
    BY <1>8, <2>1, <2>2, <2>3
<1>9. CASE SaveAwb(h)
  <2>1. handler'[h].at = "pickup" /\ handler[h].at = "saveAwb"
    BY <1>1, <1>9, SeesAwb DEF SaveAwb, Places, ShipPlaces, Statuses
  <2>2. QED
    BY <2>1
<1>10. CASE EndShip(h) \/ Cancelled(h) \/ MarkPacked(h) \/ HandlerDies(h)
            \/ \E type \in {"accepted", "rejected"} : UpdateStatus(h, type)
  BY <1>10, <1>2 DEF EndShip, Cancelled, MarkPacked, HandlerDies, UpdateStatus
<1>11. CASE HandleWebhook(h) \/ Tracked(h)
  <2>1. hooks \subseteq Known
    BY DEF ShipTyped, ShipTypeOK, Known
  <2>2. QED
    BY <1>1, <1>5, <1>11, <2>1 DEF HandleWebhook, Tracked
<1>12. CASE Track(h)
  <2>1. handler'[h].at = "tracked"
    BY <1>1, <1>12, Tracks DEF Track, Places
  <2>2. QED
    BY <2>1
<1>13. CASE ApplyStatusUpdate(h) \/ SyncOrderStatusType(h)
  BY <1>2, <1>3, <1>13 DEF ApplyStatusUpdate, SyncOrderStatusType
<1>14. CASE CancelShipment(h)
  <2>1. "cancelled" \in Known \cup {"-"}
    BY DEF Known, Statuses, Terminal
  <2>2. handler'[h].at = "cancelCall"
    BY <1>4, <1>14, <2>1 DEF CancelShipment
  <2>3. QED
    BY <2>2
<1>15. CASE CancelAtCourier(h)
  BY <1>2, <1>3, <1>15 DEF CancelAtCourier
<1>16. QED
  BY <1>6, <1>7, <1>8, <1>9, <1>10, <1>11, <1>12, <1>13, <1>14, <1>15 DEF HandlerActs

(* What the steps do to the lock, the count and the id of the courier's    *)
(* order.                                                                  *)
LEMMA ShipEffects ==
  ASSUME NEW h \in Handler, ShipTyped, HandlerActs(h), shipFaults' = 0
  PROVE  /\ shipFaults = 0
         /\ ~HandlerDies(h) /\ ~RequestRetried(h)
         /\ ShipOrder(h) => shipLock = NoHandler /\ shipLock' = h
         /\ EndShip(h) => Shipping(h)
         /\ ~ShipOrder(h) /\ ~EndShip(h) => shipLock' = shipLock
         /\ CreateParcel(h) => HandlerAt(h, "create")
         /\ CreateParcel(h) => parcels' = parcels \/ (parcels' = parcels + 1 /\ HandlerGoes(h, "saveIds"))
         /\ ~CreateParcel(h) => parcels' = parcels
         /\ SaveIds(h) => HandlerAt(h, "saveIds") /\ doc'.sr
         /\ ~SaveIds(h) => doc'.sr = doc.sr
<1>1. shipFaults \in Nat /\ doc.sr \in BOOLEAN
  BY DEF ShipTyped, ShipTypeOK
<1>2. shipFaults = 0 /\ ~HandlerDies(h) /\ ~RequestRetried(h)
  BY <1>1 DEF HandlerActs, ShipOrder, ShipRead, CreateParcel, RequestRetried, SaveIds, AssignAwb, SaveAwb,
       GeneratePickup, SavePickup, Shipped, EndShip, HandleWebhook, Track, Tracked, ApplyStatusUpdate,
       SyncOrderStatusType, CancelShipment, CancelAtCourier, Cancelled, MarkPacked, UpdateStatus,
       HandlerDies, ShipFails
<1>3. ShipOrder(h) => shipLock = NoHandler /\ shipLock' = h
  BY DEF ShipOrder
<1>4. EndShip(h) => Shipping(h)
  BY DEF EndShip, Shipping, HandlerAt
<1>5. ~ShipOrder(h) /\ ~EndShip(h) => shipLock' = shipLock
  BY <1>2 DEF HandlerActs, ShipRead, CreateParcel, SaveIds, AssignAwb, SaveAwb,
       GeneratePickup, SavePickup, Shipped, HandleWebhook, Track, Tracked, ApplyStatusUpdate,
       SyncOrderStatusType, CancelShipment, CancelAtCourier, Cancelled, MarkPacked, UpdateStatus
<1>6. /\ CreateParcel(h) => HandlerAt(h, "create")
      /\ CreateParcel(h) => parcels' = parcels \/ (parcels' = parcels + 1 /\ HandlerGoes(h, "saveIds"))
  BY DEF CreateParcel
<1>7. ~CreateParcel(h) => parcels' = parcels
  BY <1>2 DEF HandlerActs, ShipOrder, ShipRead, SaveIds, AssignAwb, SaveAwb,
       GeneratePickup, SavePickup, Shipped, EndShip, HandleWebhook, Track, Tracked, ApplyStatusUpdate,
       SyncOrderStatusType, CancelShipment, CancelAtCourier, Cancelled, MarkPacked, UpdateStatus
<1>8. SaveIds(h) => HandlerAt(h, "saveIds") /\ doc'.sr
  BY DEF SaveIds, ShipTyped, ShipTypeOK
<1>9. ~SaveIds(h) => doc'.sr = doc.sr
  BY <1>2 DEF HandlerActs, ShipOrder, ShipRead, CreateParcel, AssignAwb, SaveAwb,
       GeneratePickup, SavePickup, Shipped, EndShip, HandleWebhook, Track, Tracked, ApplyStatusUpdate,
       SyncOrderStatusType, CancelShipment, CancelAtCourier, Cancelled, MarkPacked, UpdateStatus,
       ShipTyped, ShipTypeOK
<1>10. QED
  BY <1>2, <1>3, <1>4, <1>5, <1>6, <1>7, <1>8, <1>9

LEMMA OneShipsKept ==
  ASSUME NEW h \in Handler, ShipTyped, \A g \in Handler : SeenFits(g), OneShips, HandlerActs(h)
  PROVE  OneShips'
<1> SUFFICES ASSUME shipFaults' = 0
             PROVE  /\ \A g \in Handler : Shipping(g)' => shipLock' = g
                    /\ \A g \in Handler : HandlerAt(g, "create")' => ~doc'.sr
                    /\ ~doc'.sr /\ (\A g \in Handler : ~HandlerAt(g, "saveIds")') => parcels' = 0
                    /\ parcels' <= 1
  BY DEF OneShips
<1>1. shipFaults = 0
  BY ShipEffects
<1>2. /\ \A g \in Handler : Shipping(g) => shipLock = g
      /\ \A g \in Handler : HandlerAt(g, "create") => ~doc.sr
      /\ ~doc.sr /\ (\A g \in Handler : ~HandlerAt(g, "saveIds")) => parcels = 0
      /\ parcels <= 1
      /\ parcels \in Nat
      /\ doc.sr \in BOOLEAN
  BY <1>1 DEF OneShips, ShipTyped, ShipTypeOK
<1>3. \A g \in Handler : g # h => handler'[g] = handler[g]
  BY OneHandlerMoves DEF Moved
<1>4. \A g \in Handler : HandlerAt(g, "create") \/ HandlerAt(g, "saveIds") => Shipping(g)
  BY DEF HandlerAt, Shipping
<1>5. ASSUME NEW g \in Handler, Shipping(g)'
      PROVE  shipLock' = g
  <2>1. CASE g = h
    <3>1. CASE ShipOrder(h)
      BY <2>1, <3>1, ShipEffects
    <3>2. CASE ~ShipOrder(h)
      <4>1. Shipping(h) /\ ~EndShip(h)
        <5>1. Shipping(h)
          BY <1>5, <2>1, <3>2, PlaceMoves
        <5>2. EndShip(h) => handler'[h].at = "done"
          BY Ends DEF EndShip, HandlerEnds, ShipTyped, Row
        <5>3. QED
          BY <1>5, <2>1, <5>1, <5>2 DEF Shipping
      <4>2. QED
        BY <1>2, <2>1, <3>2, <4>1, ShipEffects
    <3>3. QED
      BY <3>1, <3>2
  <2>2. CASE g # h
    <3>1. Shipping(g)
      BY <1>3, <1>5, <2>2 DEF Shipping
    <3>2. shipLock = g /\ ~Shipping(h)
      BY <1>2, <2>2, <3>1
    <3>3. ~ShipOrder(h) /\ ~EndShip(h)
      BY <3>2, ShipEffects, FulfilmentAssumption
    <3>4. QED
      BY <3>2, <3>3, ShipEffects
  <2>3. QED
    BY <2>1, <2>2
<1>6. ASSUME NEW g \in Handler, HandlerAt(g, "create")'
      PROVE  ~doc'.sr
  <2>1. CASE g = h
    <3>1. ShipRead(h) /\ ~doc.sr
      BY <1>6, <2>1, PlaceMoves
    <3>2. doc' = doc
      BY <3>1 DEF ShipRead
    <3>3. QED
      BY <3>1, <3>2
  <2>2. CASE g # h
    <3>1. HandlerAt(g, "create")
      BY <1>3, <1>6, <2>2 DEF HandlerAt
    <3>2. ~SaveIds(h)
      BY <1>2, <1>4, <2>2, <3>1, ShipEffects
    <3>3. QED
      BY <1>2, <3>1, <3>2, ShipEffects
  <2>3. QED
    BY <2>1, <2>2
<1>7. CASE CreateParcel(h)
  <2>1. HandlerAt(h, "create") /\ doc'.sr = doc.sr /\ Shipping(h)
    BY <1>4, <1>7, ShipEffects DEF CreateParcel
  <2>2. parcels = 0
    <3>1. \A g \in Handler : ~HandlerAt(g, "saveIds")
      BY <1>2, <1>4, <2>1 DEF HandlerAt
    <3>2. QED
      BY <1>2, <2>1, <3>1
  <2>3. CASE parcels' = parcels
    BY <1>5, <1>6, <2>2, <2>3
  <2>4. CASE parcels' = parcels + 1 /\ HandlerGoes(h, "saveIds")
    <3>1. HandlerAt(h, "saveIds")'
      BY <2>4, Goes DEF HandlerAt, ShipTyped, Places, ShipPlaces
    <3>2. QED
      BY <1>5, <1>6, <2>2, <2>4, <3>1
  <2>5. QED
    BY <1>5, <1>6, <1>7, <2>2, <2>3, <2>4, ShipEffects
<1>8. CASE ~CreateParcel(h)
  <2>1. parcels' = parcels
    BY <1>8, ShipEffects
  <2>2. ASSUME ~doc'.sr, \A g \in Handler : ~HandlerAt(g, "saveIds")'
        PROVE  parcels' = 0
    <3>1. ~SaveIds(h) /\ ~doc.sr
      BY <2>2, ShipEffects
    <3>2. ASSUME NEW g \in Handler, HandlerAt(g, "saveIds")
          PROVE  FALSE
      <4>1. g = h
        BY <1>3, <2>2, <3>2 DEF HandlerAt
      <4>2. SaveIds(h)
        BY <3>2, <4>1, ShipEffects
        DEF HandlerActs, HandlerAt, ShipOrder, ShipRead, CreateParcel, AssignAwb, SaveAwb,
            GeneratePickup, SavePickup, Shipped, EndShip, HandleWebhook, Track, Tracked, ApplyStatusUpdate,
            SyncOrderStatusType, CancelShipment, CancelAtCourier, Cancelled, MarkPacked, UpdateStatus
      <4>3. QED
        BY <3>1, <4>2
    <3>3. QED
      BY <1>2, <2>1, <3>1, <3>2
  <2>3. QED
    BY <1>2, <1>5, <1>6, <2>1, <2>2
<1>9. QED
  BY <1>7, <1>8

-----------------------------------------------------------------------------
(* The invariant *)

LEMMA CourierMovesKept ==
  ASSUME ShipInv, NEW next \in Statuses \cup {"other"}, CourierMoves(next)
  PROVE  ShipInv'
<1>1. ShipTyped'
  <2>1. courier' \in DOMAIN StatusMap
    <3>1. \A at \in DOMAIN StatusMap : StatusMap[at] \subseteq DOMAIN StatusMap
      BY DEF StatusMap
    <3>2. courier \in DOMAIN StatusMap
      BY DEF ShipInv, ShipTyped, ShipTypeOK
    <3>3. QED
      BY <3>1, <3>2 DEF CourierMoves
  <2>2. hooks' \subseteq Statuses \cup {"other"}
    BY DEF ShipInv, ShipTyped, ShipTypeOK, CourierMoves
  <2>3. UNCHANGED <<doc, handler, shipLock, parcels, shipFaults>>
    BY DEF CourierMoves
  <2>4. QED
    BY <2>1, <2>2, <2>3 DEF ShipInv, ShipTyped, ShipTypeOK
<1>2. next # "none"
  BY DEF Statuses, Terminal
<1>3. (\A h \in Handler : SeenFits(h)') /\ CourierFits'
  BY <1>2 DEF ShipInv, SeenFits, CourierFits, CourierMoves
<1>4. OneShips'
  BY DEF ShipInv, OneShips, CourierMoves, Shipping, HandlerAt
<1>5. QED
  BY <1>1, <1>3, <1>4 DEF ShipInv

LEMMA ShipLockExpiresKept ==
  ASSUME ShipInv, ShipLockExpires
  PROVE  ShipInv'
<1>1. ShipTyped'
  BY FulfilmentAssumption DEF ShipInv, ShipTyped, ShipTypeOK, ShipLockExpires, ShipFails
<1>2. (\A h \in Handler : SeenFits(h)') /\ CourierFits'
  BY DEF ShipInv, SeenFits, CourierFits, ShipLockExpires
<1>3. OneShips'
  BY FulfilmentAssumption
     DEF ShipInv, ShipTyped, ShipTypeOK, OneShips, ShipLockExpires, ShipFails, Shipping, HandlerAt
<1>4. QED
  BY <1>1, <1>2, <1>3 DEF ShipInv

LEMMA ShipInvKept == ShipInv /\ [ShipNext]_shipVars => ShipInv'
<1> SUFFICES ASSUME ShipInv, [ShipNext]_shipVars PROVE ShipInv'
  OBVIOUS
<1>1. ASSUME NEW h \in Handler, HandlerActs(h) PROVE ShipInv'
  <2>1. ShipTyped /\ (\A g \in Handler : SeenFits(g)) /\ CourierFits /\ OneShips
    BY DEF ShipInv
  <2>2. ShipTyped' /\ CourierFits' /\ OneShips'
    BY <1>1, <2>1, ActsTyped, CourierFitsKept, OneShipsKept
  <2>3. \A g \in Handler : SeenFits(g)'
    BY <1>1, <2>1, OneHandlerMoves, OthersFit, SeenFitsKept
  <2>4. QED
    BY <2>2, <2>3 DEF ShipInv
<1>2. CASE UNCHANGED shipVars
  BY <1>2 DEF shipVars, ShipInv, ShipTyped, ShipTypeOK, SeenFits, CourierFits, OneShips, Shipping, HandlerAt
<1>3. QED
  BY <1>1, <1>2, CourierMovesKept, ShipLockExpiresKept DEF ShipNext, HandlerActs

LEMMA ShipInvHolds == ShipSpec => []ShipInv
BY ShipInitFits, ShipInvKept, PTL DEF ShipSpec

(* The types of the order, of the courier's side and of every handler's    *)
(* copy of the order, whatever the handlers, webhooks and failures do.     *)
THEOREM ShipTypesHold == ShipSpec => []ShipTypeOK
<1>1. ShipInv => ShipTypeOK
  BY DEF ShipInv, ShipTyped
<1>2. QED
  BY <1>1, ShipInvHolds, PTL

(* ship_order creates one parcel for the order, from however many tabs it  *)
(* is shipped and however the other handlers come between: unless an       *)
(* answer of the courier was lost, a handler died, or the lock lapsed      *)
(* under its holder.                                                       *)
THEOREM OneParcel == ShipSpec => []OneParcelUnlessCut
<1>1. ShipInv => OneParcelUnlessCut
  BY DEF ShipInv, OneShips, OneParcelUnlessCut
<1>2. QED
  BY <1>1, ShipInvHolds, PTL

LEMMA StaleUndo ==
  ASSUME ShipInv, NEW h \in Handler, HandlerActs(h), doc.ship \in Terminal, doc'.ship # doc.ship
  PROVE  handler'[h] # handler[h] /\ handler[h].seen.ship # doc.ship
<1>1. ShipTyped /\ SeenFits(h) /\ handler \in [Handler -> Row]
  BY DEF ShipInv, ShipTyped
<1>2. SaveAwb(h) \/ SavePickup(h) \/ ApplyStatusUpdate(h) \/ Cancelled(h)
  BY <1>1 DEF HandlerActs, ShipOrder, ShipRead, CreateParcel, RequestRetried, SaveIds, AssignAwb,
       GeneratePickup, Shipped, EndShip, HandleWebhook, Track, Tracked,
       SyncOrderStatusType, CancelShipment, CancelAtCourier, MarkPacked, UpdateStatus, HandlerDies,
       ShipTyped, ShipTypeOK
<1>3. handler[h].seen.ship # doc.ship
  BY <1>1, <1>2 DEF SaveAwb, SavePickup, ApplyStatusUpdate, Cancelled, SeenFits, HandlerAt, ShipTyped, ShipTypeOK, Terminal
<1>4. handler'[h].at # handler[h].at
  <2>1. CASE SaveAwb(h)
    <3>1. handler'[h].at = "pickup"
      BY <1>1, <2>1, SeesAwb DEF SaveAwb, Places, ShipPlaces, Statuses
    <3>2. QED
      BY <2>1, <3>1 DEF SaveAwb, HandlerAt
  <2>2. CASE SavePickup(h)
    BY <1>1, <2>2, Goes DEF SavePickup, Places, ShipPlaces, HandlerAt
  <2>3. CASE ApplyStatusUpdate(h)
    <3>1. HandlerAt(h, "write") /\ (HandlerGoes(h, "sync") \/ HandlerEnds(h))
      BY <2>3 DEF ApplyStatusUpdate
    <3>2. HandlerGoes(h, "sync") => handler'[h].at = "sync"
      BY <1>1, Goes DEF Places
    <3>3. HandlerEnds(h) => handler'[h].at = "done"
      BY <1>1, Ends DEF HandlerEnds, Row
    <3>4. QED
      BY <3>1, <3>2, <3>3 DEF HandlerAt
  <2>4. CASE Cancelled(h)
    BY <1>1, <2>4, Ends DEF Cancelled, HandlerEnds, HandlerAt, Row
  <2>5. QED
    BY <1>2, <2>1, <2>2, <2>3, <2>4
<1>5. QED
  BY <1>3, <1>4

LEMMA StaleSync ==
  ASSUME ShipInv, NEW h \in Handler, HandlerActs(h),
         doc.status \in RejectedTypes, doc'.status \in {"out_for_delivery", "delivered"}
  PROVE  HandlerAt(h, "sync") /\ handler[h].seen.status \notin RejectedTypes
<1>1. doc'.status # doc.status /\ ShipTyped
  BY DEF RejectedTypes, ShipInv
<1>2. SyncOrderStatusType(h)
  BY <1>1 DEF HandlerActs, ShipOrder, ShipRead, CreateParcel, RequestRetried, SaveIds, AssignAwb, SaveAwb,
       GeneratePickup, SavePickup, Shipped, EndShip, HandleWebhook, Track, Tracked, ApplyStatusUpdate,
       CancelShipment, CancelAtCourier, Cancelled, MarkPacked, UpdateStatus, HandlerDies,
       ShipTyped, ShipTypeOK
<1>3. QED
  BY <1>1, <1>2 DEF SyncOrderStatusType

(* _apply_status_update, cancel_shipment and the steps of ship_order write  *)
(* without a filter: a decided shipment or a rejection is undone only by a  *)
(* handler whose copy is older than the decision, or by an admin.          *)
THEOREM StaleReadersOnly == ShipSpec => OnlyStaleReadersUndo
<1> DEFINE Undo ==
      /\ doc.ship \in Terminal /\ doc'.ship # doc.ship =>
           \E h \in Handler : handler'[h] # handler[h] /\ handler[h].seen.ship # doc.ship
      /\ doc.status \in RejectedTypes /\ doc'.status \in {"out_for_delivery", "delivered"} =>
           \E h \in Handler : HandlerAt(h, "sync") /\ handler[h].seen.status \notin RejectedTypes
<1>1. ShipInv /\ [ShipNext]_shipVars => [Undo]_shipVars
  <2> SUFFICES ASSUME ShipInv, ShipNext PROVE Undo
    OBVIOUS
  <2>1. ASSUME NEW h \in Handler, HandlerActs(h) PROVE Undo
    BY <2>1, StaleUndo, StaleSync
  <2>2. CASE UNCHANGED doc
    BY <2>2 DEF RejectedTypes
  <2>3. QED
    BY <2>1, <2>2 DEF ShipNext, HandlerActs, CourierMoves, ShipLockExpires
<1>2. QED
  BY <1>1, ShipInvHolds, PTL DEF ShipSpec, OnlyStaleReadersUndo
=============================================================================
