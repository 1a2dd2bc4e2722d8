--------------------------- MODULE InventoryProofs ---------------------------
(* Theorems about Inventory for any orders, rows, handlers and carts. *)
EXTENDS Inventory, FiniteSetTheorems, TLAPS

USE OrdersAssumption, LinesAssumption, StockAssumption, EnvironmentAssumption

LEMMA IntegerSet ==
  ASSUME NEW S, NEW f \in [S -> Int], NEW s, NEW v \in Int
  PROVE  [f EXCEPT ![s] = v] \in [S -> Int]
OBVIOUS

(* What a handler's step needs to know of its own task. *)
LEMMA LineOfTask ==
  ASSUME TypeOK, NEW p \in Proc, task[p].pc \in LineSteps
  PROVE  /\ OrderOf(p) \in Order
         /\ task[p].i \in 1 .. Len(Lines[OrderOf(p)])
         /\ task[p].i \in 1 .. task[p].last
         /\ task[p].last \in 1 .. Len(Lines[OrderOf(p)])
         /\ RowOf(p) \in Row
         /\ UnitsOf(p) \in Nat \ {0}
<1>1. task[p] \in WellFormedTask /\ task[p].pc # "idle"
  BY DEF TypeOK, LineSteps, SyncSteps
<1>2. /\ OrderOf(p) \in Order
      /\ task[p].i \in 1 .. task[p].last
      /\ task[p].last \in 1 .. Len(Lines[OrderOf(p)])
  BY <1>1 DEF WellFormedTask, OrderOf
<1>3. Lines[OrderOf(p)] \in Seq(Line)
  BY <1>2
<1>4. task[p].i \in 1 .. Len(Lines[OrderOf(p)])
  BY <1>1, <1>2, <1>3 DEF WellFormedTask, Task
<1>5. Lines[OrderOf(p)][task[p].i] \in Line
  BY <1>3, <1>4
<1>6. QED
  BY <1>2, <1>4, <1>5 DEF Line, RowOf, UnitsOf

LEMMA OrderOfTask ==
  ASSUME TypeOK, NEW p \in Proc, task[p].pc # "idle"
  PROVE  task[p] \in WellFormedTask /\ OrderOf(p) \in Order
BY DEF TypeOK, WellFormedTask, OrderOf

(* Replacing one handler's task by a well-formed one. *)
LEMMA TaskReplaced ==
  ASSUME TypeOK, NEW p \in Proc, NEW t \in WellFormedTask,
         task' = [task EXCEPT ![p] = t]
  PROVE  task' \in [Proc -> WellFormedTask]
BY DEF TypeOK

LEMMA IdleOK == Idle \in WellFormedTask
BY DEF WellFormedTask, Task, Idle, Ops, LineSteps, SyncSteps, OtherSteps, Ended

LEMMA StartedOK ==
  ASSUME NEW op \in Ops, NEW o \in Order,
         NEW pc \in {"stock", "load", "take", "putBack"}
  PROVE  Started(op, o, pc) \in WellFormedTask
<1>1. Len(Lines[o]) \in Nat \ {0}
  OBVIOUS
<1>2. QED
  BY <1>1 DEF Started, WellFormedTask, Task, Ops, LineSteps, SyncSteps, OtherSteps, Ended

(* A jump to a step outside the line loops, or inside them on the same line. *)
LEMMA GotoOK ==
  ASSUME TypeOK, NEW p \in Proc, task[p].pc # "idle",
         NEW pc \in LineSteps \cup OtherSteps \cup Ended,
         pc \in LineSteps => task[p].pc \in LineSteps,
         Goto(p, pc)
  PROVE  task' \in [Proc -> WellFormedTask]
<1>1. task[p] \in WellFormedTask
  BY OrderOfTask
<1>2. [task[p] EXCEPT !.pc = pc] \in WellFormedTask
  BY <1>1 DEF WellFormedTask, Task, LineSteps, SyncSteps, OtherSteps, Ended
<1>3. task' = [task EXCEPT ![p] = [task[p] EXCEPT !.pc = pc]]
  BY DEF Goto, TypeOK
<1>4. QED
  BY <1>2, <1>3, TaskReplaced

LEMMA NextLineOK ==
  ASSUME TypeOK, NEW p \in Proc, task[p].pc \in LineSteps,
         NEW loop \in LineSteps,
         NEW exit \in OtherSteps \cup Ended \cup {"decr"},
         NextLine(p, loop, exit)
  PROVE  task' \in [Proc -> WellFormedTask]
<1> DEFINE more == task[p].i < task[p].last
           pc == IF more THEN loop ELSE exit
           i == IF more THEN task[p].i + 1 ELSE 1
           t == [task[p] EXCEPT !.pc = pc, !.i = i]
<1>1. task[p] \in WellFormedTask
  BY OrderOfTask DEF LineSteps, SyncSteps
<1>2. /\ task[p].i \in 1 .. task[p].last
      /\ task[p].last \in 1 .. Len(Lines[OrderOf(p)])
      /\ OrderOf(p) \in Order
  BY LineOfTask
<1>3. t \in Task
  <2>1. pc \in LineSteps \cup OtherSteps \cup Ended
    BY DEF LineSteps, SyncSteps
  <2>2. i \in Nat
    BY <1>1, <1>2 DEF WellFormedTask, Task
  <2> HIDE DEF pc, i
  <2>3. QED
    BY <1>1, <2>1, <2>2 DEF WellFormedTask, Task
<1>4. t.i \in 1 .. t.last /\ t.last = task[p].last /\ t.order = task[p].order
  BY <1>1, <1>2 DEF WellFormedTask, Task
<1>5. t \in WellFormedTask
  BY <1>2, <1>3, <1>4 DEF WellFormedTask, OrderOf
<1>6. task' = [task EXCEPT ![p] = t]
  BY DEF NextLine, TypeOK
<1>7. QED
  BY <1>5, <1>6, TaskReplaced

LEMMA UndoOK ==
  ASSUME TypeOK, NEW p \in Proc, task[p].pc # "idle",
         NEW done \in 0 .. Len(Lines[OrderOf(p)]),
         Undo(p, done)
  PROVE  task' \in [Proc -> WellFormedTask]
<1> DEFINE t == [task[p] EXCEPT !.op = "undo", !.last = done, !.i = 1,
                                !.pc = IF done = 0 THEN "delKey" ELSE "decr"]
<1>1. task[p] \in WellFormedTask /\ OrderOf(p) \in Order
  BY OrderOfTask
<1>2. Len(Lines[OrderOf(p)]) \in Nat
  BY <1>1
<1>3. t \in Task
  <2>1. done \in Nat
    BY <1>2
  <2>2. QED
    BY <1>1, <2>1 DEF WellFormedTask, Task, Ops, LineSteps, SyncSteps, OtherSteps
<1>4. t.order \in Order /\ t.last = done /\ t.i = 1 /\ t.order = OrderOf(p)
  BY <1>1 DEF OrderOf, WellFormedTask, Task
<1>5. t.pc \in LineSteps => done # 0
  <2>1. t.pc = IF done = 0 THEN "delKey" ELSE "decr"
    BY <1>1 DEF WellFormedTask, Task
  <2>2. QED
    BY <2>1 DEF LineSteps, SyncSteps
<1>6. t \in WellFormedTask
  <2>1. t.pc \in LineSteps => t.i \in 1 .. t.last /\ t.last \in 1 .. Len(Lines[t.order])
    BY <1>2, <1>4, <1>5
  <2>2. QED
    BY <1>3, <1>4, <2>1 DEF WellFormedTask
<1>7. task' = [task EXCEPT ![p] = t]
  BY DEF Undo, TypeOK
<1>8. QED
  BY <1>6, <1>7, TaskReplaced

(* A read kept in the task; the new step is in a line loop if the old is. *)
LEMMA ReadOK ==
  ASSUME TypeOK, NEW p \in Proc, task[p].pc \in LineSteps,
         NEW pc \in LineSteps, NEW v \in Int,
         task' = [task EXCEPT ![p].pc = pc, ![p].view = v]
  PROVE  task' \in [Proc -> WellFormedTask]
<1> DEFINE t == [task[p] EXCEPT !.pc = pc, !.view = v]
<1>1. task[p] \in WellFormedTask
  BY OrderOfTask DEF LineSteps, SyncSteps
<1>2. t \in WellFormedTask
  BY <1>1 DEF WellFormedTask, Task, LineSteps, SyncSteps
<1>3. task' = [task EXCEPT ![p] = t]
  BY DEF TypeOK
<1>4. QED
  BY <1>2, <1>3, TaskReplaced

-----------------------------------------------------------------------------
(* Type correctness *)

LEMMA InitTyped == Init => TypeOK
<1> SUFFICES ASSUME Init PROVE TypeOK
  OBVIOUS
<1>1. task \in [Proc -> WellFormedTask]
  BY IdleOK DEF Init
<1>2. status \in [Row -> {"in_stock", "out_of_stock"}]
  BY DEF Init, StatusOf
<1>3. qty \in [Row -> Int] /\ pending \in [Row -> Int]
  BY DEF Init
<1>4. \A o \in Order : taken[o] \in [1 .. Len(Lines[o]) -> Int]
  BY DEF Init
<1>5. QED
  BY <1>1, <1>2, <1>3, <1>4 DEF Init, TypeOK

LEMMA StepTyped ==
  ASSUME TypeOK, NEW p \in Proc, Step(p)
  PROVE  TypeOK'
<1>1. CASE ReadStock(p)
  <2>0. task[p].pc \in LineSteps
    BY <1>1 DEF ReadStock, At, LineSteps, SyncSteps, OtherSteps, Ended
  <2>2. qty[RowOf(p)] \in Int
    BY <2>0, LineOfTask, OrderOfTask DEF TypeOK, WellFormedTask, Task, LineSteps, SyncSteps
  <2>1. task' \in [Proc -> WellFormedTask]
    BY <1>1, <2>0, <2>2, ReadOK DEF ReadStock, At, LineSteps, SyncSteps, OtherSteps, Ended
  <2>9. QED
    BY <1>1, <2>1 DEF TypeOK, ReadStock, stores, env, history
<1>2. CASE AcquireLock(p)
  <2>0. task[p].pc \in LineSteps /\ task[p].pc # "idle"
    BY <1>2 DEF AcquireLock, At, LineSteps, SyncSteps, OtherSteps, Ended
  <2>2. task[p].i - 1 \in 0 .. Len(Lines[OrderOf(p)])
    BY <2>0, LineOfTask
  <2>1. task' \in [Proc -> WellFormedTask]
    BY <1>2, <2>0, <2>2, GotoOK, UndoOK DEF AcquireLock, At, LineSteps, SyncSteps, OtherSteps, Ended
  <2>9. QED
    BY <1>2, <2>1 DEF TypeOK, AcquireLock, stores, env, history
<1>3. CASE CheckAvailable(p)
  <2>1. task' \in [Proc -> WellFormedTask]
    BY <1>3, GotoOK DEF CheckAvailable, At, LineSteps, SyncSteps, OtherSteps, Ended
  <2>9. QED
    BY <1>3, <2>1 DEF TypeOK, CheckAvailable, stores, env, history
<1>4. CASE CountHold(p)
  <2>1. task' \in [Proc -> WellFormedTask]
    BY <1>4, GotoOK DEF CountHold, At, LineSteps, SyncSteps, OtherSteps, Ended
  <2>0. task[p].pc \in LineSteps
    BY <1>4 DEF CountHold, At, LineSteps, SyncSteps, OtherSteps, Ended
  <2>6. /\ OrderOf(p) \in Order
        /\ task[p].i \in 1 .. Len(Lines[OrderOf(p)])
        /\ RowOf(p) \in Row /\ UnitsOf(p) \in Int
    BY <2>0, LineOfTask
  <2>7. pending' \in [Row -> Int]
    BY <1>4, <2>6 DEF CountHold, TypeOK
  <2>8. \A o \in Order : held'[o] \subseteq 1 .. Len(Lines[o])
    BY <1>4, <2>6 DEF CountHold, TypeOK
  <2>9. QED
    BY <1>4, <2>1, <2>7, <2>8 DEF TypeOK, CountHold, stores, env, history
<1>5. CASE ReleaseLock(p)
  <2>0. task[p].pc \in LineSteps /\ task[p].pc # "idle"
    BY <1>5 DEF ReleaseLock, At, LineSteps, SyncSteps, OtherSteps, Ended
  <2>2. task[p].i - 1 \in 0 .. Len(Lines[OrderOf(p)])
    BY <2>0, LineOfTask
  <2>1. task' \in [Proc -> WellFormedTask]
    BY <1>5, <2>0, <2>2, NextLineOK, UndoOK DEF ReleaseLock, At, LineSteps, SyncSteps, OtherSteps, Ended
  <2>9. QED
    BY <1>5, <2>1 DEF TypeOK, ReleaseLock, stores, env, history
<1>6. CASE WriteKey(p)
  <2>1. task' \in [Proc -> WellFormedTask]
    BY <1>6, GotoOK DEF WriteKey, At, LineSteps, SyncSteps, OtherSteps, Ended
  <2>9. QED
    BY <1>6, <2>1 DEF TypeOK, WriteKey, stores, env, history
<1>7. CASE WriteMirror(p)
  <2>1. task' \in [Proc -> WellFormedTask]
    BY <1>7, GotoOK DEF WriteMirror, At, LineSteps, SyncSteps, OtherSteps, Ended
  <2>9. QED
    BY <1>7, <2>1 DEF TypeOK, WriteMirror, stores, env, history
<1>8. CASE SyncQty(p)
  <2>0. task[p].pc \in LineSteps
    BY <1>8 DEF SyncQty, At, LineSteps, SyncSteps, OtherSteps, Ended
  <2>2. qty[RowOf(p)] \in Int
    BY <2>0, LineOfTask, OrderOfTask DEF TypeOK, WellFormedTask, Task, LineSteps, SyncSteps
  <2>1. task' \in [Proc -> WellFormedTask]
    BY <1>8, <2>0, <2>2, ReadOK DEF SyncQty, At, LineSteps, SyncSteps, OtherSteps, Ended
  <2>9. QED
    BY <1>8, <2>1 DEF TypeOK, SyncQty, stores, env, history
<1>9. CASE SyncPending(p)
  <2>0. task[p].pc \in LineSteps
    BY <1>9 DEF SyncPending, At, LineSteps, SyncSteps, OtherSteps, Ended
  <2>2. task[p].view - pending[RowOf(p)] \in Int
    BY <2>0, LineOfTask, OrderOfTask, SMTT(30) DEF TypeOK, WellFormedTask, Task, LineSteps, SyncSteps
  <2>3. task' = [task EXCEPT ![p].pc = "syncStatus", ![p].view = task[p].view - pending[RowOf(p)]]
    BY <1>9 DEF SyncPending, TypeOK
  <2>1. task' \in [Proc -> WellFormedTask]
    BY <2>0, <2>2, <2>3, ReadOK DEF LineSteps, SyncSteps
  <2>9. QED
    BY <1>9, <2>1 DEF TypeOK, SyncPending, stores, env, history
<1>10. CASE SyncStatus(p)
  <2>0. task[p].pc \in LineSteps /\ task[p].pc # "idle"
    BY <1>10 DEF SyncStatus, At, LineSteps, SyncSteps, OtherSteps, Ended
  <2>1. task' \in [Proc -> WellFormedTask]
    BY <1>10, <2>0, GotoOK, NextLineOK DEF SyncStatus, At, LineSteps, SyncSteps, OtherSteps, Ended
  <2>9. QED
    BY <1>10, <2>1 DEF TypeOK, SyncStatus, stores, env, history, StatusOf
<1>11. CASE LoadReservation(p)
  <2>1. task' \in [Proc -> WellFormedTask]
    BY <1>11, GotoOK DEF LoadReservation, At, LineSteps, SyncSteps, OtherSteps, Ended, FirstStep
  <2>9. QED
    BY <1>11, <2>1 DEF TypeOK, LoadReservation, stores, env, history
<1>12. CASE ClaimMirror(p)
  <2>0. task[p].pc \in LineSteps /\ task[p].pc # "idle"
    BY <1>12 DEF ClaimMirror, At, LineSteps, SyncSteps, OtherSteps, Ended
  <2>2. task[p] \in WellFormedTask
    BY <2>0, OrderOfTask
  <2>3. [task[p] EXCEPT !.pc = FirstStep(task[p].op), !.mirrored = TRUE] \in WellFormedTask
    BY <2>0, <2>2 DEF WellFormedTask, Task, FirstStep, LineSteps, SyncSteps, OtherSteps, Ended
  <2>1. task' \in [Proc -> WellFormedTask]
    <3>1. CASE task' = [task EXCEPT ![p].pc = FirstStep(task[p].op), ![p].mirrored = TRUE]
      BY <2>3, <3>1, TaskReplaced DEF TypeOK
    <3>2. CASE Goto(p, "ok")
      BY <2>0, <3>2, GotoOK DEF LineSteps, SyncSteps, OtherSteps, Ended
    <3>3. QED
      BY <1>12, <3>1, <3>2 DEF ClaimMirror
  <2>9. QED
    BY <1>12, <2>1 DEF TypeOK, ClaimMirror, stores, env, history, Resolution
<1>13. CASE TakeStock(p)
  <2>0. task[p].pc \in LineSteps /\ task[p].pc # "idle"
    BY <1>13 DEF TakeStock, At, LineSteps, SyncSteps, OtherSteps, Ended
  <2>2. qty[RowOf(p)] - UnitsOf(p) \in Int
    BY <2>0, LineOfTask DEF TypeOK
  <2>1. task' \in [Proc -> WellFormedTask]
    BY <1>13, <2>0, <2>2, GotoOK, ReadOK DEF TakeStock, At, LineSteps, SyncSteps, OtherSteps, Ended
  <2>6. /\ OrderOf(p) \in Order
        /\ task[p].i \in 1 .. Len(Lines[OrderOf(p)])
        /\ RowOf(p) \in Row /\ UnitsOf(p) \in Int
    BY <2>0, LineOfTask
  <2>7. qty' \in [Row -> Int]
    BY <1>13, <2>6 DEF TakeStock, TypeOK
  <2>8. \A o \in Order : taken'[o] \in [1 .. Len(Lines[o]) -> Int]
    <3>1. CASE UNCHANGED taken
      BY <3>1 DEF TypeOK
    <3>2. CASE taken' = [taken EXCEPT ![OrderOf(p)][task[p].i] = @ + 1]
      <4>1. taken[OrderOf(p)] \in [1 .. Len(Lines[OrderOf(p)]) -> Int]
        BY <2>6 DEF TypeOK
      <4>2. taken'[OrderOf(p)] = [taken[OrderOf(p)] EXCEPT ![task[p].i] = @ + 1]
        BY <2>6, <3>2 DEF TypeOK
      <4>3. taken'[OrderOf(p)] \in [1 .. Len(Lines[OrderOf(p)]) -> Int]
        BY <2>6, <4>1, <4>2
      <4>4. \A o \in Order \ {OrderOf(p)} : taken'[o] = taken[o]
        BY <3>2 DEF TypeOK
      <4>5. QED
        BY <4>3, <4>4 DEF TypeOK
    <3>3. QED
      BY <1>13, <3>1, <3>2 DEF TakeStock
  <2>9. QED
    BY <1>13, <2>1, <2>7, <2>8 DEF TypeOK, TakeStock, stores, env, history
<1>14. CASE TakeStatus(p)
  <2>1. task' \in [Proc -> WellFormedTask]
    BY <1>14, NextLineOK DEF TakeStatus, At, LineSteps, SyncSteps, OtherSteps, Ended
  <2>9. QED
    BY <1>14, <2>1 DEF TypeOK, TakeStatus, stores, env, history, StatusOf
<1>15. CASE DecrPending(p)
  <2>0. task[p].pc \in LineSteps /\ task[p].pc # "idle"
    BY <1>15 DEF DecrPending, At, LineSteps, SyncSteps, OtherSteps, Ended
  <2>1. task' \in [Proc -> WellFormedTask]
    BY <1>15, <2>0, GotoOK, NextLineOK DEF DecrPending, At, LineSteps, SyncSteps, OtherSteps, Ended, AfterAdjust
  <2>6. /\ OrderOf(p) \in Order
        /\ task[p].i \in 1 .. Len(Lines[OrderOf(p)])
        /\ RowOf(p) \in Row /\ UnitsOf(p) \in Int
    BY <2>0, LineOfTask
  <2>7. pending' \in [Row -> Int]
    BY <1>15, <2>6 DEF DecrPending, TypeOK
  <2>8. \A o \in Order : held'[o] \subseteq 1 .. Len(Lines[o])
    BY <1>15, <2>6 DEF DecrPending, TypeOK
  <2>9. QED
    BY <1>15, <2>1, <2>7, <2>8 DEF TypeOK, DecrPending, stores, env, history
<1>16. CASE DropPending(p)
  <2>0. task[p].pc \in LineSteps /\ task[p].pc # "idle"
    BY <1>16 DEF DropPending, At, LineSteps, SyncSteps, OtherSteps, Ended
  <2>1. task' \in [Proc -> WellFormedTask]
    BY <1>16, <2>0, GotoOK, NextLineOK DEF DropPending, At, LineSteps, SyncSteps, OtherSteps, Ended, AfterAdjust
  <2>2. pending' \in [Row -> Int]
    <3>1. pending' = [pending EXCEPT ![RowOf(p)] = 0]
      BY <1>16 DEF DropPending
    <3>2. pending \in [Row -> Int]
      BY DEF TypeOK
    <3>3. QED
      BY <3>1, <3>2, IntegerSet
  <2>3. UNCHANGED <<qty, status, locked, hold, age, mirror, env, history>>
    BY <1>16 DEF DropPending
  <2>9. QED
    BY <2>1, <2>2, <2>3 DEF TypeOK, env, history
<1>17. CASE DeleteKey(p)
  <2>1. task' \in [Proc -> WellFormedTask]
    BY <1>17, GotoOK DEF DeleteKey, At, LineSteps, SyncSteps, OtherSteps, Ended
  <2>9. QED
    BY <1>17, <2>1 DEF TypeOK, DeleteKey, stores, env, history
<1>18. CASE ResolveMirror(p)
  <2>1. task' \in [Proc -> WellFormedTask]
    BY <1>18, GotoOK DEF ResolveMirror, At, LineSteps, SyncSteps, OtherSteps, Ended
  <2>9. QED
    BY <1>18, <2>1 DEF TypeOK, ResolveMirror, stores, env, history, Resolution
<1>19. CASE PutBack(p)
  <2>1. task' \in [Proc -> WellFormedTask]
    BY <1>19, NextLineOK DEF PutBack, At, LineSteps, SyncSteps, OtherSteps, Ended
  <2>0. task[p].pc \in LineSteps
    BY <1>19 DEF PutBack, At, LineSteps, SyncSteps, OtherSteps, Ended
  <2>6. /\ OrderOf(p) \in Order
        /\ task[p].i \in 1 .. Len(Lines[OrderOf(p)])
        /\ RowOf(p) \in Row /\ UnitsOf(p) \in Int
    BY <2>0, LineOfTask
  <2>7. qty' \in [Row -> Int]
    BY <1>19, <2>6 DEF PutBack, TypeOK
  <2>8. \A o \in Order : taken'[o] \in [1 .. Len(Lines[o]) -> Int]
    BY <1>19, <2>6, SMTT(30) DEF PutBack, TypeOK
  <2>9. QED
    BY <1>19, <2>1, <2>7, <2>8 DEF TypeOK, PutBack, stores, env, history
<1>20. QED
  BY <1>1, <1>2, <1>3, <1>4, <1>5, <1>6, <1>7, <1>8, <1>9, <1>10, <1>11, <1>12, <1>13, <1>14, <1>15, <1>16, <1>17, <1>18, <1>19 DEF Step

LEMMA NextTyped ==
  ASSUME TypeOK, [Next]_vars
  PROVE  TypeOK'
<1>1. ASSUME NEW p \in Proc, Step(p)
      PROVE  TypeOK'
  BY <1>1, StepTyped
<1>2. ASSUME NEW p \in Proc, Return(p)
      PROVE  TypeOK'
  <2>1. task[p].pc # "idle"
    BY <1>2 DEF Return, Ended
  <2>2. task' \in [Proc -> WellFormedTask]
    BY <1>2, IdleOK, TaskReplaced DEF Return
  <2>3. OrderOf(p) \in Order
    BY <2>1, OrderOfTask
  <2>4. QED
    BY <1>2, <2>2, <2>3 DEF Return, TypeOK, stores, history
<1>3. ASSUME NEW p \in Proc, Crash(p)
      PROVE  TypeOK'
  <2>1. task[p].pc # "idle"
    BY <1>3 DEF Crash, At
  <2>2. task' \in [Proc -> WellFormedTask]
    BY <1>3, IdleOK, TaskReplaced DEF Crash
  <2>3. OrderOf(p) \in Order
    BY <2>1, OrderOfTask
  <2>4. QED
    BY <1>3, <2>2, <2>3 DEF Crash, TypeOK, stores, history
<1>4. ASSUME NEW p \in Proc, StoreFails(p)
      PROVE  TypeOK'
  <2>1. task[p].pc # "idle" /\ OrderOf(p) \in Order
    BY <1>4, OrderOfTask DEF StoreFails
  <2>2. Len(Lines[OrderOf(p)]) \in 0 .. Len(Lines[OrderOf(p)])
    BY <2>1
  <2>3. task[p].pc \in LineSteps => task[p].i - 1 \in 0 .. Len(Lines[OrderOf(p)])
    BY LineOfTask
  <2>4. task' \in [Proc -> WellFormedTask]
    <3>1. CASE task[p].pc \in SyncSteps
      BY <1>4, <2>1, <3>1, GotoOK, NextLineOK
      DEF StoreFails, LineSteps, SyncSteps, OtherSteps, Ended
    <3>2. CASE Goto(p, "raised")
      BY <2>1, <3>2, GotoOK DEF LineSteps, SyncSteps, Ended
    <3>3. CASE task[p].pc \in {"check", "count"} /\ Goto(p, "refuse")
      BY <2>1, <3>3, GotoOK DEF LineSteps, SyncSteps
    <3>4. CASE task[p].pc \in {"stock", "lock", "unlock", "refuse"} /\ Undo(p, task[p].i - 1)
      BY <2>1, <2>3, <3>4, UndoOK DEF LineSteps, SyncSteps
    <3>5. CASE Undo(p, Len(Lines[OrderOf(p)]))
      BY <2>1, <2>2, <3>5, UndoOK
    <3>6. QED
      BY <1>4, <3>1, <3>2, <3>3, <3>4, <3>5 DEF StoreFails
  <2>5. QED
    BY <1>4, <2>4 DEF StoreFails, TypeOK, stores, history
<1>5. ASSUME NEW p \in Proc, Caller(p)
      PROVE  TypeOK'
  <2>1. PICK o \in Order : \/ CallReserve(p, o) \/ CallCommit(p, o) \/ CallRelease(p, o)
                           \/ Sweep(p, o) \/ CallSell(p, o) \/ CallRestock(p, o)
    BY <1>5 DEF Caller
  <2>2. ASSUME NEW caller, NEW op \in Ops, NEW pc \in {"stock", "load", "take", "putBack"},
               Call(p, caller, op, o, pc),
               checkout' \in [Order -> {"new", "starting", "open", "refused", "undone"}]
        PROVE  TypeOK'
    <3>1. task' \in [Proc -> WellFormedTask]
      BY <2>2, StartedOK, TaskReplaced DEF Call
    <3>2. calls' \in [Order -> Nat]
      <4>1. calls' = calls \/ calls' = [calls EXCEPT ![o] = calls[o] + 1]
        BY <2>2 DEF Call
      <4>2. calls[o] + 1 \in Nat
        BY DEF TypeOK
      <4>3. QED
        BY <4>1, <4>2 DEF TypeOK
    <3>3. UNCHANGED <<stores, faults, history>>
      BY <2>2 DEF Call
    <3>4. QED
      BY <2>2, <3>1, <3>2, <3>3 DEF TypeOK, stores, history
  <2>3. CASE CallReserve(p, o)
    BY <2>2, <2>3 DEF CallReserve, TypeOK, Ops
  <2>4. CASE CallCommit(p, o)
    BY <2>2, <2>4 DEF CallCommit, TypeOK, Ops
  <2>5. CASE CallRelease(p, o)
    BY <2>2, <2>5 DEF CallRelease, TypeOK, Ops
  <2>6. CASE Sweep(p, o)
    BY <2>2, <2>6 DEF Sweep, TypeOK, Ops
  <2>7. CASE CallSell(p, o)
    BY <2>2, <2>7 DEF CallSell, TypeOK, Ops
  <2>8. CASE CallRestock(p, o)
    BY <2>2, <2>8 DEF CallRestock, TypeOK, Ops
  <2>9. QED
    BY <2>1, <2>3, <2>4, <2>5, <2>6, <2>7, <2>8
<1>6. ASSUME NEW o \in Order, Tick(o)
      PROVE  TypeOK'
  BY <1>6 DEF Tick, TypeOK, env, history
<1>7. ASSUME NEW r \in Row, LockExpires(r)
      PROVE  TypeOK'
  BY <1>7 DEF LockExpires, TypeOK, env, history
<1>8. CASE UNCHANGED vars
  BY <1>8 DEF vars, stores, env, history, TypeOK
<1>9. QED
  BY <1>1, <1>2, <1>3, <1>4, <1>5, <1>6, <1>7, <1>8 DEF Next

(* Every reachable state is well typed: no handler ever works on a line its *)
(* order does not have, and no counter leaves the integers.                 *)
THEOREM TypeCorrect == Spec => []TypeOK
<1>1. Init => TypeOK
  BY InitTyped
<1>2. TypeOK /\ [Next]_vars => TypeOK'
  BY NextTyped
<1>3. QED
  BY <1>1, <1>2, PTL DEF Spec

-----------------------------------------------------------------------------
(* Where each operation can be *)

ReserveSteps == {"stock", "lock", "check", "count", "unlock", "refuse", "key", "mirror"}

PlaceOK ==
  \A p \in Proc :
    /\ task[p].pc \in ReserveSteps => task[p].op = "reserve"
    /\ task[p].pc \in {"load", "claim"} => task[p].op \in {"commit", "release"}
    /\ task[p].mirrored => /\ task[p].op \in {"commit", "release"}
                           /\ task[p].pc # "idle"

(* A step of one handler leaves the others where they are and keeps its order. *)
OnlyMoves(p) ==
  /\ \A q \in Proc \ {p} : task'[q] = task[q]
  /\ task'[p].order = task[p].order

KeepsOp(p) ==
  /\ OnlyMoves(p)
  /\ task'[p].op = task[p].op
  /\ task'[p].mirrored = task[p].mirrored

Undoes(p) ==
  /\ OnlyMoves(p)
  /\ task'[p].op = "undo"
  /\ task'[p].mirrored = task[p].mirrored
  /\ task'[p].pc \in {"delKey", "decr"}

LEMMA TaskRecords == TypeOK => task \in [Proc -> Task]
BY DEF TypeOK, WellFormedTask

LEMMA GotoEffect ==
  ASSUME TypeOK, NEW p \in Proc, NEW pc, Goto(p, pc)
  PROVE  KeepsOp(p) /\ task'[p].pc = pc /\ task'[p].i = task[p].i
BY TaskRecords DEF Goto, KeepsOp, OnlyMoves, Task

LEMMA ReadEffect ==
  ASSUME TypeOK, NEW p \in Proc, NEW pc, NEW v,
         task' = [task EXCEPT ![p].pc = pc, ![p].view = v]
  PROVE  KeepsOp(p) /\ task'[p].pc = pc /\ task'[p].i = task[p].i
BY TaskRecords DEF KeepsOp, OnlyMoves, Task

LEMMA NextLineEffect ==
  ASSUME TypeOK, NEW p \in Proc, NEW loop, NEW exit, NextLine(p, loop, exit)
  PROVE  KeepsOp(p) /\ task'[p].pc \in {loop, exit}
<1>1. task' = [task EXCEPT ![p] =
         [task[p] EXCEPT !.pc = IF task[p].i < task[p].last THEN loop ELSE exit,
                         !.i = IF task[p].i < task[p].last THEN task[p].i + 1 ELSE 1]]
  BY TaskRecords DEF NextLine
<1>2. task'[p].pc = IF task[p].i < task[p].last THEN loop ELSE exit
  BY <1>1, TaskRecords DEF Task
<1>3. QED
  BY <1>1, <1>2, TaskRecords DEF KeepsOp, OnlyMoves, Task

LEMMA UndoEffect ==
  ASSUME TypeOK, NEW p \in Proc, NEW done, Undo(p, done)
  PROVE  Undoes(p)
<1>1. task' = [task EXCEPT ![p] =
         [task[p] EXCEPT !.op = "undo", !.last = done, !.i = 1,
                         !.pc = IF done = 0 THEN "delKey" ELSE "decr"]]
  BY TaskRecords DEF Undo
<1>2. QED
  BY <1>1, TaskRecords DEF Undoes, OnlyMoves, Task

(* What a step does to its handler. *)
StepEffect(p) ==
  /\ OnlyMoves(p)
  /\ \/ KeepsOp(p)
     \/ Undoes(p) /\ task[p].op = "reserve"
     \/ /\ task[p].pc = "claim"
        /\ task'[p].op = task[p].op
        /\ task'[p].pc \in {"take", "decr"}
  /\ PlaceOK'

LEMMA StepKeepsPlace ==
  ASSUME TypeOK, PlaceOK, NEW p \in Proc, Step(p) \/ StoreFails(p)
  PROVE  StepEffect(p)
<1> USE DEF At
<1>1. CASE ReadStock(p)
  <2>1. KeepsOp(p) /\ task'[p].pc \in {"lock"}
    BY <1>1, ReadEffect DEF ReadStock
  <2>9. QED
    BY <1>1, <2>1, ZenonT(30) DEF ReadStock, StepEffect, KeepsOp, Undoes, OnlyMoves, PlaceOK, ReserveSteps
<1>2. CASE AcquireLock(p)
  <2>1. \/ KeepsOp(p) /\ task'[p].pc \in {"check"} /\ task[p].op = "reserve"
        \/ Undoes(p) /\ task[p].op = "reserve"
    BY <1>2, GotoEffect, UndoEffect DEF AcquireLock, PlaceOK, ReserveSteps
  <2>9. QED
    BY <1>2, <2>1 DEF AcquireLock, StepEffect, KeepsOp, Undoes, OnlyMoves, PlaceOK, ReserveSteps
<1>3. CASE CheckAvailable(p)
  <2>1. KeepsOp(p) /\ task'[p].pc \in {"refuse", "count"}
    BY <1>3, GotoEffect DEF CheckAvailable
  <2>9. QED
    BY <1>3, <2>1 DEF CheckAvailable, StepEffect, KeepsOp, Undoes, OnlyMoves, PlaceOK, ReserveSteps
<1>4. CASE CountHold(p)
  <2>1. KeepsOp(p) /\ task'[p].pc \in {"syncQty"}
    BY <1>4, GotoEffect DEF CountHold
  <2>9. QED
    BY <1>4, <2>1 DEF CountHold, StepEffect, KeepsOp, Undoes, OnlyMoves, PlaceOK, ReserveSteps
<1>5. CASE ReleaseLock(p)
  <2>1. \/ KeepsOp(p) /\ task'[p].pc \in {"stock", "key"} /\ task[p].op = "reserve"
        \/ Undoes(p) /\ task[p].op = "reserve"
    BY <1>5, NextLineEffect, UndoEffect DEF ReleaseLock, PlaceOK, ReserveSteps
  <2>9. QED
    BY <1>5, <2>1 DEF ReleaseLock, StepEffect, KeepsOp, Undoes, OnlyMoves, PlaceOK, ReserveSteps
<1>6. CASE WriteKey(p)
  <2>1. KeepsOp(p) /\ task'[p].pc \in {"mirror"}
    BY <1>6, GotoEffect DEF WriteKey
  <2>9. QED
    BY <1>6, <2>1 DEF WriteKey, StepEffect, KeepsOp, Undoes, OnlyMoves, PlaceOK, ReserveSteps
<1>7. CASE WriteMirror(p)
  <2>1. KeepsOp(p) /\ task'[p].pc \in {"ok"}
    BY <1>7, GotoEffect DEF WriteMirror
  <2>9. QED
    BY <1>7, <2>1 DEF WriteMirror, StepEffect, KeepsOp, Undoes, OnlyMoves, PlaceOK, ReserveSteps
<1>8. CASE SyncQty(p)
  <2>1. KeepsOp(p) /\ task'[p].pc \in {"syncPending"}
    BY <1>8, ReadEffect DEF SyncQty
  <2>9. QED
    BY <1>8, <2>1, ZenonT(30) DEF SyncQty, StepEffect, KeepsOp, Undoes, OnlyMoves, PlaceOK, ReserveSteps
<1>9. CASE SyncPending(p)
  <2>0. task' = [task EXCEPT ![p].pc = "syncStatus", ![p].view = task[p].view - pending[RowOf(p)]]
    BY <1>9, TaskRecords DEF SyncPending
  <2>1. KeepsOp(p) /\ task'[p].pc \in {"syncStatus"}
    BY <2>0, ReadEffect
  <2>9. QED
    BY <1>9, <2>1, ZenonT(30) DEF SyncPending, StepEffect, KeepsOp, Undoes, OnlyMoves, PlaceOK, ReserveSteps
<1>10. CASE SyncStatus(p)
  <2>1. KeepsOp(p) /\ task'[p].pc \in {"unlock", "decr", "delKey"}
    BY <1>10, GotoEffect, NextLineEffect DEF SyncStatus
  <2>2. task'[p].pc = "unlock" => task[p].op = "reserve"
    BY <1>10, GotoEffect, NextLineEffect DEF SyncStatus
  <2>9. QED
    BY <1>10, <2>1, <2>2 DEF SyncStatus, StepEffect, KeepsOp, Undoes, OnlyMoves, PlaceOK, ReserveSteps
<1>11. CASE LoadReservation(p)
  <2>1. KeepsOp(p) /\ task'[p].pc \in {"take", "decr", "claim"}
    BY <1>11, GotoEffect DEF LoadReservation, FirstStep
  <2>9. QED
    BY <1>11, <2>1 DEF LoadReservation, StepEffect, KeepsOp, Undoes, OnlyMoves, PlaceOK, ReserveSteps
<1>12. CASE ClaimMirror(p)
  <2>1. CASE Goto(p, "ok")
    <3>1. KeepsOp(p) /\ task'[p].pc = "ok"
      BY <2>1, GotoEffect
    <3>2. QED
      BY <3>1 DEF StepEffect, KeepsOp, OnlyMoves, PlaceOK, ReserveSteps
  <2>2. CASE task' = [task EXCEPT ![p].pc = FirstStep(task[p].op), ![p].mirrored = TRUE]
    <3>1. OnlyMoves(p) /\ task'[p].op = task[p].op /\ task'[p].pc = FirstStep(task[p].op)
      BY <2>2, TaskRecords DEF OnlyMoves, Task
    <3>2. task'[p].pc \in {"take", "decr"}
      BY <3>1 DEF FirstStep
    <3>3. task[p].op \in {"commit", "release"} /\ task[p].pc = "claim"
      BY <1>12 DEF ClaimMirror, PlaceOK
    <3>4. QED
      BY <3>1, <3>2, <3>3 DEF StepEffect, OnlyMoves, PlaceOK, ReserveSteps
  <2>3. QED
    BY <1>12, <2>1, <2>2 DEF ClaimMirror
<1>13. CASE TakeStock(p)
  <2>1. KeepsOp(p) /\ task'[p].pc \in {"takeStatus", "raised"}
    <3>1. CASE Goto(p, "raised")
      BY <3>1, GotoEffect
    <3>2. CASE task' = [task EXCEPT ![p].pc = "takeStatus",
                                    ![p].view = qty[RowOf(p)] - UnitsOf(p)]
      BY <3>2, ReadEffect
    <3>3. QED
      BY <1>13, <3>1, <3>2 DEF TakeStock
  <2>9. QED
    BY <1>13, <2>1 DEF TakeStock, StepEffect, KeepsOp, Undoes, OnlyMoves, PlaceOK, ReserveSteps
<1>14. CASE TakeStatus(p)
  <2>1. KeepsOp(p) /\ task'[p].pc \in {"take", "decr", "ok"}
    BY <1>14, NextLineEffect DEF TakeStatus
  <2>9. QED
    BY <1>14, <2>1 DEF TakeStatus, StepEffect, KeepsOp, Undoes, OnlyMoves, PlaceOK, ReserveSteps
<1>15. CASE DecrPending(p)
  <2>1. KeepsOp(p) /\ task'[p].pc \in {"drop", "syncQty", "decr", "delKey"}
    BY <1>15, GotoEffect, NextLineEffect DEF DecrPending, AfterAdjust
  <2>9. QED
    BY <1>15, <2>1 DEF DecrPending, StepEffect, KeepsOp, Undoes, OnlyMoves, PlaceOK, ReserveSteps
<1>16. CASE DropPending(p)
  <2>1. KeepsOp(p) /\ task'[p].pc \in {"syncQty", "decr", "delKey"}
    BY <1>16, GotoEffect, NextLineEffect DEF DropPending, AfterAdjust
  <2>9. QED
    BY <1>16, <2>1 DEF DropPending, StepEffect, KeepsOp, Undoes, OnlyMoves, PlaceOK, ReserveSteps
<1>17. CASE DeleteKey(p)
  <2>1. KeepsOp(p) /\ task'[p].pc \in {"raised", "ok", "resolve"}
    BY <1>17, GotoEffect DEF DeleteKey
  <2>9. QED
    BY <1>17, <2>1 DEF DeleteKey, StepEffect, KeepsOp, Undoes, OnlyMoves, PlaceOK, ReserveSteps
<1>18. CASE ResolveMirror(p)
  <2>1. KeepsOp(p) /\ task'[p].pc \in {"ok"}
    BY <1>18, GotoEffect DEF ResolveMirror
  <2>9. QED
    BY <1>18, <2>1 DEF ResolveMirror, StepEffect, KeepsOp, Undoes, OnlyMoves, PlaceOK, ReserveSteps
<1>19. CASE PutBack(p)
  <2>1. KeepsOp(p) /\ task'[p].pc \in {"putBack", "ok"}
    BY <1>19, NextLineEffect DEF PutBack
  <2>9. QED
    BY <1>19, <2>1 DEF PutBack, StepEffect, KeepsOp, Undoes, OnlyMoves, PlaceOK, ReserveSteps
<1>20. CASE StoreFails(p)
  <2>1. \/ KeepsOp(p) /\ task'[p].pc \in {"decr", "delKey", "raised"}
        \/ KeepsOp(p) /\ task'[p].pc \in {"unlock", "refuse"} /\ task[p].op = "reserve"
        \/ Undoes(p) /\ task[p].op = "reserve"
    BY <1>20, GotoEffect, NextLineEffect, UndoEffect DEF StoreFails, PlaceOK, ReserveSteps
  <2>2. QED
    BY <2>1 DEF StepEffect, KeepsOp, Undoes, OnlyMoves, PlaceOK, ReserveSteps
<1>21. QED
  BY <1>1, <1>2, <1>3, <1>4, <1>5, <1>6, <1>7, <1>8, <1>9, <1>10, <1>11, <1>12, <1>13, <1>14, <1>15, <1>16, <1>17, <1>18, <1>19, <1>20 DEF Step

(* Every other step of Next leaves the handlers alone or puts one in place. *)
LEMMA PlaceInductive ==
  ASSUME TypeOK, PlaceOK, [Next]_vars
  PROVE  PlaceOK'
<1>1. ASSUME NEW p \in Proc, Step(p) \/ StoreFails(p)
      PROVE  PlaceOK'
  BY <1>1, StepKeepsPlace DEF StepEffect
<1>2. ASSUME NEW p \in Proc, task' = [task EXCEPT ![p] = Idle]
      PROVE  PlaceOK'
  BY <1>2, TaskRecords DEF PlaceOK, Idle, ReserveSteps
<1>3. ASSUME NEW p \in Proc, NEW op, NEW o, NEW pc,
             task' = [task EXCEPT ![p] = Started(op, o, pc)],
             \/ op = "reserve" /\ pc = "stock"
             \/ op \in {"commit", "release"} /\ pc = "load"
             \/ pc \in {"take", "putBack"}
      PROVE  PlaceOK'
  BY <1>3, TaskRecords DEF PlaceOK, Started, ReserveSteps
<1>4. ASSUME NEW p \in Proc, Caller(p)
      PROVE  PlaceOK'
  BY <1>3, <1>4 DEF Caller, CallReserve, CallCommit, CallRelease, Sweep, CallSell,
                    CallRestock, Call
<1>5. CASE UNCHANGED task
  BY <1>5 DEF PlaceOK
<1>6. QED
  BY <1>1, <1>2, <1>4, <1>5 DEF Next, Return, Crash, Tick, LockExpires, vars

LEMMA PlaceCorrect == Spec => []PlaceOK
<1>1. Init => PlaceOK
  BY DEF Init, PlaceOK, Idle, ReserveSteps
<1>2. TypeOK /\ PlaceOK /\ [Next]_vars => PlaceOK'
  BY PlaceInductive
<1>3. QED
  BY <1>1, <1>2, TypeCorrect, PTL DEF Spec

-----------------------------------------------------------------------------
(* No step takes a row's stock below zero. *)
LEMMA StockStep ==
  ASSUME TypeOK, StockNeverNegative, [Next]_vars
  PROVE  StockNeverNegative'
<1>1. ASSUME NEW p \in Proc, TakeStock(p)
      PROVE  StockNeverNegative'
  <2>1. RowOf(p) \in Row /\ UnitsOf(p) \in Nat
    BY <1>1, LineOfTask DEF TakeStock, At, LineSteps
  <2>2. CASE UNCHANGED qty
    BY <2>2 DEF StockNeverNegative
  <2>3. CASE /\ qty[RowOf(p)] >= UnitsOf(p)
             /\ qty' = [qty EXCEPT ![RowOf(p)] = @ - UnitsOf(p)]
    BY <2>1, <2>3 DEF StockNeverNegative, TypeOK
  <2>4. QED
    BY <1>1, <2>2, <2>3 DEF TakeStock
<1>2. ASSUME NEW p \in Proc, PutBack(p)
      PROVE  StockNeverNegative'
  <2>1. RowOf(p) \in Row /\ UnitsOf(p) \in Nat
    BY <1>2, LineOfTask DEF PutBack, At, LineSteps
  <2>2. qty' = [qty EXCEPT ![RowOf(p)] = @ + UnitsOf(p)]
    BY <1>2 DEF PutBack
  <2>3. QED
    BY <2>1, <2>2 DEF StockNeverNegative, TypeOK
<1>3. CASE UNCHANGED qty
  BY <1>3 DEF StockNeverNegative
<1>4. ASSUME NEW p \in Proc, Step(p)
      PROVE  TakeStock(p) \/ PutBack(p) \/ UNCHANGED qty
  BY <1>4 DEF Step, ReadStock, AcquireLock, CheckAvailable, CountHold, ReleaseLock,
      WriteKey, WriteMirror, SyncQty, SyncPending, SyncStatus, LoadReservation,
      ClaimMirror, TakeStatus, DecrPending, DropPending, DeleteKey, ResolveMirror,
      stores
<1>5. ASSUME NEW p \in Proc, Caller(p)
      PROVE  UNCHANGED qty
  BY <1>5 DEF Caller, CallReserve, CallCommit, CallRelease, Sweep, CallSell,
      CallRestock, Call, stores
<1>6. QED
  BY <1>1, <1>2, <1>3, <1>4, <1>5
  DEF Next, Return, Crash, StoreFails, Tick, LockExpires, vars, stores

(* Stock *)

(* The quantity on hand of every row stays at or above zero, for any carts, *)
(* any number of handlers and any failures.                                 *)
THEOREM StockSafe == Spec => []StockNeverNegative
<1>1. Init => StockNeverNegative
  BY DEF Init, StockNeverNegative
<1>2. TypeOK /\ StockNeverNegative /\ [Next]_vars => StockNeverNegative'
  BY StockStep
<1>3. QED
  BY <1>1, <1>2, TypeCorrect, PTL DEF Spec

-----------------------------------------------------------------------------
(* The row lock *)

LockPlaces == {"check", "count", "unlock", "refuse"} \cup SyncSteps

(* Nobody comes to hold a row's lock but by acquiring it. *)
LEMMA OnlyAcquireEnters ==
  ASSUME TypeOK, PlaceOK, NEW p \in Proc, Step(p) \/ StoreFails(p), ~AcquireLock(p),
         NEW r, InLock(p, r)'
  PROVE  InLock(p, r)
<1> USE DEF At
<1>0. /\ task'[p].pc \in LockPlaces /\ task'[p].op = "reserve"
      /\ Lines[task'[p].order][task'[p].i].row = r
  BY DEF InLock, LockPlaces, RowOf, OrderOf
<1>1. ASSUME KeepsOp(p), task'[p].i = task[p].i, task[p].pc \in LockPlaces
      PROVE  InLock(p, r)
  BY <1>0, <1>1 DEF InLock, LockPlaces, RowOf, OrderOf, KeepsOp, OnlyMoves
<1>2. CASE CheckAvailable(p) \/ CountHold(p)
  BY <1>1, <1>2, GotoEffect DEF CheckAvailable, CountHold, LockPlaces
<1>3. CASE SyncQty(p)
  BY <1>1, <1>3, ReadEffect DEF SyncQty, LockPlaces, SyncSteps
<1>4. CASE SyncPending(p)
  <2>1. task' = [task EXCEPT ![p].pc = "syncStatus", ![p].view = task[p].view - pending[RowOf(p)]]
    BY <1>4, TaskRecords DEF SyncPending
  <2>2. KeepsOp(p) /\ task'[p].i = task[p].i
    BY <2>1, ReadEffect
  <2>3. QED
    BY <1>1, <1>4, <2>2 DEF SyncPending, LockPlaces, SyncSteps
<1>5. CASE SyncStatus(p)
  <2>1. CASE task[p].op = "reserve"
    BY <1>1, <1>5, <2>1, GotoEffect DEF SyncStatus, LockPlaces, SyncSteps
  <2>2. CASE task[p].op # "reserve"
    BY <1>0, <1>5, <2>2, NextLineEffect DEF SyncStatus, KeepsOp
  <2>3. QED
    BY <2>1, <2>2
<1>6. CASE StoreFails(p)
  <2>1. CASE task[p].op # "reserve"
    BY <1>0, <1>6, <2>1, GotoEffect, NextLineEffect, UndoEffect
    DEF StoreFails, KeepsOp, Undoes, PlaceOK, ReserveSteps
  <2>2. CASE task[p].op = "reserve" /\ task[p].pc \in SyncSteps \cup {"check", "count"}
    <3>1. Goto(p, "unlock") \/ Goto(p, "refuse")
      BY <1>6, <2>2 DEF StoreFails, SyncSteps
    <3>2. QED
      BY <1>1, <2>2, <3>1, GotoEffect DEF LockPlaces
  <2>3. CASE task[p].op = "reserve" /\ task[p].pc \notin SyncSteps \cup {"check", "count"}
    BY <1>0, <1>6, <2>3, UndoEffect DEF StoreFails, Undoes
  <2>4. QED
    BY <2>1, <2>2, <2>3
<1>7. CASE ReleaseLock(p)
  BY <1>0, <1>7, NextLineEffect, UndoEffect DEF ReleaseLock, Undoes, LockPlaces, SyncSteps
<1>8. CASE ReadStock(p) \/ WriteKey(p) \/ WriteMirror(p) \/ DeleteKey(p) \/ ResolveMirror(p)
           \/ TakeStatus(p) \/ PutBack(p)
  <2>1. CASE ReadStock(p)
    <3>1. task'[p].pc = "lock"
      BY <2>1, ReadEffect DEF ReadStock
    <3>2. QED
      BY <1>0, <3>1 DEF LockPlaces, SyncSteps
  <2>2. CASE WriteKey(p) \/ WriteMirror(p) \/ ResolveMirror(p)
    BY <1>0, <2>2, GotoEffect DEF WriteKey, WriteMirror, ResolveMirror, LockPlaces, SyncSteps
  <2>3. CASE DeleteKey(p)
    BY <1>0, <2>3, GotoEffect DEF DeleteKey, LockPlaces, SyncSteps
  <2>4. CASE TakeStatus(p) \/ PutBack(p)
    <3>1. task'[p].pc \in {"take", "putBack", "decr", "ok"}
      <4>1. CASE TakeStatus(p)
        BY <4>1, NextLineEffect DEF TakeStatus
      <4>2. CASE PutBack(p)
        BY <4>2, NextLineEffect DEF PutBack
      <4>3. QED
        BY <2>4, <4>1, <4>2
    <3>2. QED
      BY <1>0, <3>1 DEF LockPlaces, SyncSteps
  <2>5. QED
    BY <1>8, <2>1, <2>2, <2>3, <2>4
<1>9. CASE LoadReservation(p)
  BY <1>0, <1>9, GotoEffect DEF LoadReservation, FirstStep, LockPlaces, SyncSteps
<1>10. CASE ClaimMirror(p)
  BY <1>0, <1>10, StepKeepsPlace DEF ClaimMirror, StepEffect, KeepsOp, Undoes, PlaceOK, ReserveSteps, Step
<1>11. CASE TakeStock(p)
  <2>1. CASE Goto(p, "raised")
    BY <1>0, <2>1, GotoEffect DEF LockPlaces, SyncSteps
  <2>2. CASE task' = [task EXCEPT ![p].pc = "takeStatus",
                                  ![p].view = qty[RowOf(p)] - UnitsOf(p)]
    <3>1. task'[p].pc = "takeStatus"
      BY <2>2, ReadEffect
    <3>2. QED
      BY <1>0, <3>1 DEF LockPlaces, SyncSteps
  <2>3. QED
    BY <1>11, <2>1, <2>2 DEF TakeStock
<1>12. CASE DecrPending(p) \/ DropPending(p)
  <2>1. Goto(p, "drop") \/ AfterAdjust(p)
    BY <1>12 DEF DecrPending, DropPending
  <2>2. CASE task[p].op = "release"
    BY <1>0, <2>1, <2>2, GotoEffect, NextLineEffect DEF AfterAdjust, KeepsOp
  <2>3. CASE task[p].op # "release"
    BY <1>0, <2>1, <2>3, GotoEffect, NextLineEffect DEF AfterAdjust, LockPlaces, SyncSteps
  <2>4. QED
    BY <2>2, <2>3
<1>13. QED
  BY <1>2, <1>3, <1>4, <1>5, <1>6, <1>7, <1>8, <1>9, <1>10, <1>11, <1>12 DEF Step

(* The lock is there as long as somebody works under it. *)
LockInv ==
  /\ "stall" \notin Faults =>
       \A p \in Proc, r \in Row : InLock(p, r) => locked[r]
  /\ LockIsExclusive

LEMMA LockInductive ==
  ASSUME TypeOK, PlaceOK, LockInv, [Next]_vars, "stall" \notin Faults
  PROVE  LockInv'
<1> USE DEF LockInv, LockIsExclusive
<1>1. ASSUME NEW p \in Proc, \A q \in Proc \ {p} : task'[q] = task[q]
      PROVE  \A q \in Proc \ {p} : \A r : InLock(q, r)' = InLock(q, r)
  BY <1>1 DEF InLock, RowOf, OrderOf
<1>2. ASSUME UNCHANGED locked, \A p \in Proc, r \in Row : InLock(p, r)' => InLock(p, r)
      PROVE  LockInv'
  BY <1>2
<1>3. ASSUME NEW p \in Proc, Step(p) \/ StoreFails(p)
      PROVE  LockInv'
  <2>1. \A q \in Proc \ {p} : \A r : InLock(q, r)' = InLock(q, r)
    BY <1>1, <1>3, StepKeepsPlace DEF StepEffect, OnlyMoves
  <2>2. CASE AcquireLock(p)
    <3>1. task[p].pc # "idle" /\ RowOf(p) \in Row
      BY <2>2, LineOfTask DEF AcquireLock, At, LineSteps
    <3>2. CASE Undo(p, task[p].i - 1) /\ UNCHANGED locked
      <4>1. \A r : ~InLock(p, r)'
        BY <3>2, UndoEffect DEF Undoes, InLock
      <4>2. QED
        BY <1>2, <2>1, <3>2, <4>1
    <3>3. CASE /\ ~locked[RowOf(p)]
               /\ locked' = [locked EXCEPT ![RowOf(p)] = TRUE]
               /\ Goto(p, "check")
      <4>1. \A r : InLock(p, r)' => r = RowOf(p)
        BY <3>3, GotoEffect DEF InLock, RowOf, OrderOf, KeepsOp, OnlyMoves
      <4>2. \A q \in Proc : ~InLock(q, RowOf(p))
        BY <3>1, <3>3
      <4>3. \A r \in Row : locked[r] => locked'[r]
        BY <3>3 DEF TypeOK
      <4>4. locked'[RowOf(p)]
        BY <3>1, <3>3 DEF TypeOK
      <4>5. QED
        BY <2>1, <4>1, <4>2, <4>3, <4>4
    <3>4. QED
      BY <2>2, <3>2, <3>3 DEF AcquireLock
  <2>3. CASE ~AcquireLock(p)
    <3>1. \A r : InLock(p, r)' => InLock(p, r)
      BY <1>3, <2>3, OnlyAcquireEnters
    <3>2. CASE ReleaseLock(p)
      <4>1. RowOf(p) \in Row /\ InLock(p, RowOf(p))
        BY <3>2, LineOfTask DEF ReleaseLock, At, LineSteps, InLock, PlaceOK, ReserveSteps
      <4>2. \A q \in Proc \ {p} : ~InLock(q, RowOf(p))
        BY <4>1
      <4>3. \A r : ~InLock(p, r)'
        <5>1. task'[p].pc \in {"stock", "key"} \/ task'[p].op = "undo"
          BY <3>2, NextLineEffect, UndoEffect DEF ReleaseLock, Undoes
        <5>2. QED
          BY <5>1 DEF InLock, SyncSteps
      <4>4. \A r \in Row \ {RowOf(p)} : locked'[r] = locked[r]
        BY <3>2 DEF ReleaseLock, TypeOK
      <4>5. QED
        BY <2>1, <4>2, <4>3, <4>4
    <3>3. CASE ~ReleaseLock(p)
      <4>1. UNCHANGED locked
        BY <1>3, <2>3, <3>3
        DEF Step, StoreFails, ReadStock, CheckAvailable, CountHold, WriteKey, WriteMirror,
            SyncQty, SyncPending, SyncStatus, LoadReservation, ClaimMirror, TakeStock,
            TakeStatus, DecrPending, DropPending, DeleteKey, ResolveMirror, PutBack, stores
      <4>2. QED
        BY <1>2, <2>1, <3>1, <4>1
    <3>4. QED
      BY <3>2, <3>3
  <2>4. QED
    BY <2>2, <2>3
<1>4. ASSUME NEW p \in Proc, NEW t, task' = [task EXCEPT ![p] = t],
             t.pc \notin LockPlaces, UNCHANGED locked
      PROVE  LockInv'
  <2>1. \A q \in Proc \ {p} : \A r : InLock(q, r)' = InLock(q, r)
    BY <1>1, <1>4, TaskRecords
  <2>2. \A r : ~InLock(p, r)'
    BY <1>4, TaskRecords DEF InLock, LockPlaces
  <2>3. QED
    BY <1>2, <1>4, <2>1, <2>2
<1>5. ASSUME NEW p \in Proc, Return(p) \/ Crash(p)
      PROVE  LockInv'
  <2>1. Idle.pc \notin LockPlaces
    BY DEF Idle, LockPlaces, SyncSteps
  <2>2. QED
    BY <1>4, <1>5, <2>1 DEF Return, Crash, stores
<1>6. ASSUME NEW p \in Proc, Caller(p)
      PROVE  LockInv'
  <2>1. PICK op, o, pc : /\ task' = [task EXCEPT ![p] = Started(op, o, pc)]
                         /\ pc \in {"stock", "load", "take", "putBack"}
                         /\ UNCHANGED locked
    BY <1>6 DEF Caller, CallReserve, CallCommit, CallRelease, Sweep, CallSell,
                CallRestock, Call, stores
  <2>2. Started(op, o, pc).pc \notin LockPlaces
    BY <2>1 DEF Started, LockPlaces, SyncSteps
  <2>3. QED
    BY <1>4, <2>1, <2>2
<1>7. ASSUME NEW r \in Row, LockExpires(r)
      PROVE  LockInv'
  <2>1. \A p \in Proc : \A s : InLock(p, s)' = InLock(p, s)
    BY <1>7 DEF LockExpires, InLock, RowOf, OrderOf
  <2>2. \A p \in Proc : ~InLock(p, r)
    BY <1>7 DEF LockExpires
  <2>3. \A s \in Row \ {r} : locked'[s] = locked[s]
    BY <1>7 DEF LockExpires, TypeOK
  <2>4. QED
    BY <2>1, <2>2, <2>3
<1>8. CASE UNCHANGED <<task, locked>>
  BY <1>2, <1>8 DEF InLock, RowOf, OrderOf
<1>9. QED
  BY <1>3, <1>5, <1>6, <1>7, <1>8 DEF Next, Tick, vars, stores

(* At most one checkout works under a row's lock, for any number of handlers *)
(* and rows, as long as none of them outlives the lock's TTL.                *)
THEOREM LockExclusion == Spec => []LockIsExclusive
<1>1. Init => LockInv
  BY DEF Init, LockInv, LockIsExclusive, InLock, Idle, SyncSteps
<1>2. TypeOK /\ PlaceOK /\ LockInv /\ [Next]_vars => LockInv'
  <2>1. CASE "stall" \notin Faults
    BY <2>1, LockInductive
  <2>2. CASE "stall" \in Faults
    BY <2>2 DEF LockInv, LockIsExclusive
  <2>3. QED
    BY <2>1, <2>2
<1>3. LockInv => LockIsExclusive
  BY DEF LockInv
<1>4. QED
  BY <1>1, <1>2, <1>3, TypeCorrect, PlaceCorrect, PTL DEF Spec

-----------------------------------------------------------------------------
(* The durable mirror *)

Resolved == {"committed", "released"}

(* Only three steps write a mirror, each in its own way. *)
LEMMA MirrorWrites ==
  ASSUME TypeOK, [Next]_vars, NEW o \in Order, mirror'[o] # mirror[o]
  PROVE  \E p \in Proc :
           /\ OrderOf(p) = o
           /\ \/ WriteMirror(p) /\ mirror[o] = "none" /\ mirror'[o] = "reserved"
              \/ ResolveMirror(p) /\ mirror[o] = "reserved"
              \/ ClaimMirror(p) /\ mirror[o] = "reserved"
<1>1. ASSUME NEW p \in Proc, WriteMirror(p)
      PROVE  OrderOf(p) = o /\ mirror[o] = "none" /\ mirror'[o] = "reserved"
  BY <1>1 DEF WriteMirror, TypeOK
<1>2. ASSUME NEW p \in Proc, ResolveMirror(p)
      PROVE  OrderOf(p) = o /\ mirror[o] = "reserved"
  BY <1>2 DEF ResolveMirror, TypeOK
<1>3. ASSUME NEW p \in Proc, ClaimMirror(p)
      PROVE  OrderOf(p) = o /\ mirror[o] = "reserved"
  BY <1>3 DEF ClaimMirror, TypeOK
<1>4. ASSUME NEW p \in Proc, Step(p)
      PROVE  WriteMirror(p) \/ ResolveMirror(p) \/ ClaimMirror(p)
  BY <1>4 DEF Step, ReadStock, AcquireLock, CheckAvailable, CountHold, ReleaseLock,
      WriteKey, SyncQty, SyncPending, SyncStatus, LoadReservation, TakeStock, TakeStatus,
      DecrPending, DropPending, DeleteKey, PutBack, stores
<1>5. ~\E p \in Proc : Caller(p)
  BY DEF Caller, CallReserve, CallCommit, CallRelease, Sweep, CallSell, CallRestock,
         Call, stores
<1>6. QED
  BY <1>1, <1>2, <1>3, <1>4, <1>5
  DEF Next, Return, Crash, StoreFails, Tick, LockExpires, vars, stores

(* A resolved mirror keeps its resolution through every step. *)
LEMMA ResolvedStays ==
  ASSUME TypeOK, [Next]_vars, NEW o \in Order, mirror[o] \in Resolved
  PROVE  mirror'[o] = mirror[o]
BY MirrorWrites DEF Resolved

(* Once an order's reservation is committed or released in MongoDB it stays *)
(* so: no handler, however late, turns it.                                  *)
THEOREM ResolutionFinal == Spec => ResolutionIsFinal
<1>1. TypeOK /\ [Next]_vars =>
        [\A o \in Order : mirror[o] \in {"committed", "released"} => mirror'[o] = mirror[o]]_vars
  BY ResolvedStays DEF Resolved
<1>2. QED
  BY <1>1, TypeCorrect, PTL DEF Spec, ResolutionIsFinal

(* What changes a handler's claim: it is made by ClaimMirror, and every      *)
(* other step keeps it with its order and operation or drops it.             *)
LEMMA ClaimFrame ==
  ASSUME TypeOK, PlaceOK, [Next]_vars, NEW p \in Proc, task'[p].mirrored
  PROVE  \/ task[p].mirrored /\ OrderOf(p)' = OrderOf(p) /\ task'[p].op = task[p].op
         \/ /\ ClaimMirror(p)
            /\ mirror[OrderOf(p)] = "reserved"
            /\ mirror'[OrderOf(p)] = Resolution(task[p].op)
            /\ OrderOf(p)' = OrderOf(p) /\ task'[p].op = task[p].op
<1> USE DEF OrderOf
<1>1. ASSUME NEW q \in Proc, Step(q) \/ StoreFails(q), p # q
      PROVE  task'[p] = task[p]
  BY <1>1, StepKeepsPlace DEF StepEffect, OnlyMoves
<1>2. CASE ClaimMirror(p)
  <2>1. CASE Goto(p, "ok")
    BY <2>1, GotoEffect DEF KeepsOp, OnlyMoves
  <2>2. CASE /\ mirror[OrderOf(p)] = "reserved"
             /\ mirror' = [mirror EXCEPT ![OrderOf(p)] = Resolution(task[p].op)]
             /\ task' = [task EXCEPT ![p].pc = FirstStep(task[p].op), ![p].mirrored = TRUE]
    <3>1. OrderOf(p) \in Order
      BY <1>2, OrderOfTask DEF ClaimMirror, At
    <3>2. task'[p].order = task[p].order /\ task'[p].op = task[p].op
      BY <2>2, TaskRecords DEF Task
    <3>3. mirror'[OrderOf(p)] = Resolution(task[p].op)
      BY <2>2, <3>1 DEF TypeOK
    <3>4. QED
      BY <1>2, <2>2, <3>2, <3>3
  <2>3. QED
    BY <1>2, <2>1, <2>2 DEF ClaimMirror
<1>3. ASSUME Step(p) \/ StoreFails(p), ~ClaimMirror(p)
      PROVE  task'[p].mirrored = task[p].mirrored /\ OrderOf(p)' = OrderOf(p)
             /\ (task[p].mirrored => task'[p].op = task[p].op)
  <2>1. StepEffect(p)
    BY <1>3, StepKeepsPlace
  <2>2. task[p].mirrored => task[p].op \in {"commit", "release"}
    BY DEF PlaceOK
  <2>3. CASE KeepsOp(p) \/ (Undoes(p) /\ task[p].op = "reserve")
    BY <2>2, <2>3 DEF KeepsOp, Undoes, OnlyMoves
  <2>4. CASE task[p].pc = "claim" /\ task'[p].op = task[p].op /\ task'[p].pc \in {"take", "decr"}
    <3>1. StoreFails(p)
      BY <1>3, <2>4 DEF Step, At, ReadStock, AcquireLock, CheckAvailable, CountHold,
          ReleaseLock, WriteKey, WriteMirror, SyncQty, SyncPending, SyncStatus,
          LoadReservation, TakeStock, TakeStatus, DecrPending, DropPending, DeleteKey,
          ResolveMirror, PutBack
    <3>2. Goto(p, "raised")
      BY <2>4, <3>1 DEF StoreFails, PlaceOK, SyncSteps
    <3>3. QED
      BY <2>4, <3>2, GotoEffect
  <2>5. QED
    BY <2>1, <2>3, <2>4 DEF StepEffect
<1>4. ASSUME NEW q \in Proc, Return(q) \/ Crash(q)
      PROVE  task'[p] = task[p]
  BY <1>4, TaskRecords DEF Return, Crash, Idle
<1>5. ASSUME NEW q \in Proc, Caller(q)
      PROVE  task'[p] = task[p]
  BY <1>5, TaskRecords DEF Caller, CallReserve, CallCommit, CallRelease, Sweep,
     CallSell, CallRestock, Call, Started
<1>6. CASE UNCHANGED task
  BY <1>6
<1>7. QED
  BY <1>1, <1>2, <1>3, <1>4, <1>5, <1>6 DEF Next, Tick, LockExpires, vars

(* A step moves one handler at most. *)
LEMMA OneMoves ==
  ASSUME TypeOK, PlaceOK, [Next]_vars, NEW p \in Proc, NEW q \in Proc,
         task'[p] # task[p], task'[q] # task[q]
  PROVE  p = q
<1>1. ASSUME NEW r \in Proc, NEW t, task' = [task EXCEPT ![r] = t]
      PROVE  p = q
  BY <1>1, TaskRecords
<1>2. ASSUME NEW r \in Proc, Step(r) \/ StoreFails(r)
      PROVE  p = q
  BY <1>2, StepKeepsPlace DEF StepEffect, OnlyMoves
<1>3. ASSUME NEW r \in Proc, Return(r) \/ Crash(r)
      PROVE  p = q
  BY <1>1, <1>3 DEF Return, Crash
<1>4. ASSUME NEW r \in Proc, Caller(r)
      PROVE  p = q
  BY <1>1, <1>4 DEF Caller, CallReserve, CallCommit, CallRelease, Sweep, CallSell,
     CallRestock, Call
<1>5. QED
  BY <1>2, <1>3, <1>4 DEF Next, Tick, LockExpires, vars

(* A handler that claims a mirror is moved by it. *)
LEMMA ClaimMoves ==
  ASSUME TypeOK, NEW p \in Proc, ClaimMirror(p)
  PROVE  task'[p] # task[p]
<1>1. task[p].pc = "claim"
  BY DEF ClaimMirror, At
<1>2. CASE Goto(p, "ok")
  BY <1>1, <1>2, GotoEffect
<1>3. CASE task' = [task EXCEPT ![p].pc = FirstStep(task[p].op), ![p].mirrored = TRUE]
  <2>1. task'[p].pc = FirstStep(task[p].op)
    BY <1>3, TaskRecords DEF Task
  <2>2. QED
    BY <1>1, <2>1 DEF FirstStep
<1>4. QED
  BY <1>2, <1>3 DEF ClaimMirror

(* A claim made before a step is still its handler's alone after it. *)
LEMMA ClaimInductive ==
  ASSUME TypeOK, PlaceOK, MirrorClaimExclusive, [Next]_vars
  PROVE  MirrorClaimExclusive'
<1> DEFINE Keeps(p) == /\ task[p].mirrored
                       /\ OrderOf(p)' = OrderOf(p) /\ task'[p].op = task[p].op
<1> DEFINE Claims(p) == /\ ClaimMirror(p)
                        /\ mirror[OrderOf(p)] = "reserved"
                        /\ mirror'[OrderOf(p)] = Resolution(task[p].op)
                        /\ OrderOf(p)' = OrderOf(p) /\ task'[p].op = task[p].op
<1>1. ASSUME NEW p \in Proc, task[p].mirrored
      PROVE  /\ OrderOf(p) \in Order
             /\ mirror[OrderOf(p)] = Resolution(task[p].op)
             /\ mirror[OrderOf(p)] \in Resolved
             /\ mirror'[OrderOf(p)] = mirror[OrderOf(p)]
  <2>1. OrderOf(p) \in Order
    BY <1>1, OrderOfTask DEF PlaceOK
  <2>2. mirror[OrderOf(p)] = Resolution(task[p].op)
    BY <1>1 DEF MirrorClaimExclusive
  <2>3. mirror[OrderOf(p)] \in Resolved
    BY <2>2 DEF Resolution, Resolved
  <2>4. mirror'[OrderOf(p)] = mirror[OrderOf(p)]
    BY <2>1, <2>3, ResolvedStays
  <2>5. QED
    BY <2>1, <2>2, <2>3, <2>4
<1>2. ASSUME NEW p \in Proc, task'[p].mirrored
      PROVE  Keeps(p) \/ Claims(p)
  BY <1>2, ClaimFrame
<1>3. ASSUME NEW p \in Proc, task'[p].mirrored
      PROVE  mirror'[OrderOf(p)'] = Resolution(task'[p].op)
  <2>1. CASE Keeps(p)
    BY <1>1, <2>1
  <2>2. CASE Claims(p)
    BY <2>2
  <2>3. QED
    BY <1>2, <1>3, <2>1, <2>2
<1>4. ASSUME NEW p \in Proc, NEW q \in Proc, task'[p].mirrored, task'[q].mirrored,
             OrderOf(p)' = OrderOf(q)'
      PROVE  p = q
  <2>1. CASE Keeps(p) /\ Keeps(q)
    BY <1>4, <2>1 DEF MirrorClaimExclusive
  <2>2. CASE Keeps(p) /\ Claims(q)
    BY <1>1, <1>4, <2>2 DEF Resolved
  <2>3. CASE Claims(p) /\ Keeps(q)
    BY <1>1, <1>4, <2>3 DEF Resolved
  <2>4. CASE Claims(p) /\ Claims(q)
    <3>1. task'[p] # task[p]
      BY <2>4, ClaimMoves
    <3>2. task'[q] # task[q]
      BY <2>4, ClaimMoves
    <3>3. QED
      BY <3>1, <3>2, OneMoves
  <2>5. QED
    BY <1>2, <1>4, <2>1, <2>2, <2>3, <2>4
<1>5. QED
  BY <1>3, <1>4 DEF MirrorClaimExclusive, OrderOf

(* Whatever the number of handlers and orders, the durable mirror of an     *)
(* order is claimed by at most one handler.                                 *)
THEOREM MirrorClaimSafe == Spec => []MirrorClaimExclusive
<1>1. Init => MirrorClaimExclusive
  BY DEF Init, MirrorClaimExclusive, Idle
<1>2. TypeOK /\ PlaceOK /\ MirrorClaimExclusive /\ [Next]_vars => MirrorClaimExclusive'
  BY ClaimInductive
<1>3. QED
  BY <1>1, <1>2, TypeCorrect, PlaceCorrect, PTL DEF Spec

-----------------------------------------------------------------------------
(* Where each operation is, and on which line *)

Placing(t) ==
  /\ t.op = "none" => t.pc = "idle"
  /\ t.op = "reserve" => t.pc \in ReserveSteps \cup SyncSteps \cup {"ok"}
  /\ t.op = "undo" => t.pc \in {"decr", "drop", "delKey", "raised"}
  /\ t.op = "commit" => t.pc \in {"load", "claim", "take", "takeStatus", "decr", "drop",
                                  "delKey", "resolve", "ok", "raised"}
  /\ t.op = "release" => t.pc \in {"load", "claim", "decr", "drop", "delKey", "resolve",
                                   "ok", "raised"} \cup SyncSteps
  /\ t.op = "sell" => t.pc \in {"take", "takeStatus", "ok", "raised"}
  /\ t.op = "restock" => t.pc \in {"putBack", "ok", "raised"}
  /\ t.op \notin {"none", "undo"} => t.last = Len(Lines[t.order])
  /\ t.pc \in {"load", "claim"} => t.i = 1

TasksPlaced == \A p \in Proc : Placing(task[p])

(* Its handler goes to a line and an await of the same operation. *)
Turns(p, pc, i) ==
  /\ KeepsOp(p)
  /\ task'[p].pc = pc /\ task'[p].i = i /\ task'[p].last = task[p].last

LEMMA GotoTurns ==
  ASSUME TypeOK, NEW p \in Proc, NEW pc, Goto(p, pc)
  PROVE  Turns(p, pc, task[p].i)
BY TaskRecords DEF Goto, Turns, KeepsOp, OnlyMoves, Task

LEMMA ReadTurns ==
  ASSUME TypeOK, NEW p \in Proc, NEW pc, NEW v,
         task' = [task EXCEPT ![p].pc = pc, ![p].view = v]
  PROVE  Turns(p, pc, task[p].i)
BY TaskRecords DEF Turns, KeepsOp, OnlyMoves, Task

LEMMA NextLineTurns ==
  ASSUME TypeOK, NEW p \in Proc, NEW loop, NEW exit, NextLine(p, loop, exit)
  PROVE  \/ task[p].i < task[p].last /\ Turns(p, loop, task[p].i + 1)
         \/ ~(task[p].i < task[p].last) /\ Turns(p, exit, 1)
<1>1. task' = [task EXCEPT ![p] =
         [task[p] EXCEPT !.pc = IF task[p].i < task[p].last THEN loop ELSE exit,
                         !.i = IF task[p].i < task[p].last THEN task[p].i + 1 ELSE 1]]
  BY TaskRecords DEF NextLine
<1>2. /\ task'[p].pc = IF task[p].i < task[p].last THEN loop ELSE exit
      /\ task'[p].i = IF task[p].i < task[p].last THEN task[p].i + 1 ELSE 1
      /\ task'[p].last = task[p].last
  BY <1>1, TaskRecords DEF Task
<1>3. KeepsOp(p)
  BY NextLineEffect
<1>4. QED
  BY <1>2, <1>3 DEF Turns

LEMMA UndoTurns ==
  ASSUME TypeOK, NEW p \in Proc, NEW done, Undo(p, done)
  PROVE  /\ OnlyMoves(p)
         /\ task'[p].op = "undo" /\ task'[p].i = 1 /\ task'[p].last = done
         /\ task'[p].pc = IF done = 0 THEN "delKey" ELSE "decr"
<1>1. task' = [task EXCEPT ![p] =
         [task[p] EXCEPT !.op = "undo", !.last = done, !.i = 1,
                         !.pc = IF done = 0 THEN "delKey" ELSE "decr"]]
  BY TaskRecords DEF Undo
<1>2. QED
  BY <1>1, TaskRecords DEF OnlyMoves, Task

LEMMA ClaimTurns ==
  ASSUME TypeOK, NEW p \in Proc, NEW pc,
         task' = [task EXCEPT ![p].pc = pc, ![p].mirrored = TRUE]
  PROVE  /\ OnlyMoves(p)
         /\ task'[p].op = task[p].op /\ task'[p].i = task[p].i /\ task'[p].last = task[p].last
         /\ task'[p].pc = pc
BY TaskRecords DEF OnlyMoves, Task

(* A step that stays on its operation, or undoes a reserve. *)
LEMMA TurnsPlaced ==
  ASSUME NEW p \in Proc, TasksPlaced, NEW pc, NEW i, Turns(p, pc, i),
         pc # "idle" \/ task[p].op = "none",
         task[p].op = "none" => pc = "idle",
         task[p].op = "reserve" => pc \in ReserveSteps \cup SyncSteps \cup {"ok"},
         task[p].op = "undo" => pc \in {"decr", "drop", "delKey", "raised"},
         task[p].op = "commit" => pc \in {"load", "claim", "take", "takeStatus", "decr", "drop",
                                          "delKey", "resolve", "ok", "raised"},
         task[p].op = "release" => pc \in {"load", "claim", "decr", "drop", "delKey", "resolve",
                                           "ok", "raised"} \cup SyncSteps,
         task[p].op = "sell" => pc \in {"take", "takeStatus", "ok", "raised"},
         task[p].op = "restock" => pc \in {"putBack", "ok", "raised"},
         pc \in {"load", "claim"} => i = 1
  PROVE  TasksPlaced'
<1>1. \A q \in Proc \ {p} : Placing(task[q])'
  BY DEF Turns, KeepsOp, OnlyMoves, TasksPlaced, Placing
<1>2. Placing(task[p])'
  BY DEF Turns, KeepsOp, OnlyMoves, TasksPlaced, Placing, SyncSteps, ReserveSteps
<1>3. QED
  BY <1>1, <1>2 DEF TasksPlaced

LEMMA UndoPlaced ==
  ASSUME TypeOK, TasksPlaced, NEW p \in Proc, NEW done, Undo(p, done)
  PROVE  TasksPlaced'
<1>1. /\ OnlyMoves(p) /\ task'[p].op = "undo" /\ task'[p].pc \in {"delKey", "decr"}
  BY UndoTurns
<1>2. \A q \in Proc \ {p} : Placing(task[q])'
  BY <1>1 DEF OnlyMoves, TasksPlaced, Placing
<1>3. Placing(task[p])'
  BY <1>1 DEF Placing
<1>4. QED
  BY <1>2, <1>3 DEF TasksPlaced

(* The operation a handler must be in to take a step, and where it goes.   *)
LEMMA StepPlaced ==
  ASSUME TypeOK, TasksPlaced, NEW p \in Proc, Step(p) \/ StoreFails(p)
  PROVE  TasksPlaced'
<1> USE DEF At, SyncSteps, ReserveSteps
<1>0. Placing(task[p]) /\ task[p].op \in Ops
  BY TaskRecords DEF TasksPlaced, Task
<1>1. CASE ReadStock(p) \/ SyncQty(p) \/ SyncPending(p)
  <2>1. ASSUME ReadStock(p)
        PROVE  TasksPlaced'
    BY <1>0, <2>1, ReadTurns, TurnsPlaced DEF ReadStock, Placing
  <2>2. ASSUME SyncQty(p)
        PROVE  TasksPlaced'
    BY <1>0, <2>2, ReadTurns, TurnsPlaced DEF SyncQty, Placing
  <2>3. ASSUME SyncPending(p)
        PROVE  TasksPlaced'
    <3>1. task' = [task EXCEPT ![p].pc = "syncStatus", ![p].view = task[p].view - pending[RowOf(p)]]
      BY <2>3, TaskRecords DEF SyncPending
    <3>2. Turns(p, "syncStatus", task[p].i)
      BY <3>1, ReadTurns
    <3>3. QED
      BY <1>0, <2>3, <3>2, TurnsPlaced DEF SyncPending, Placing
  <2>4. QED
    BY <1>1, <2>1, <2>2, <2>3
<1>2. CASE AcquireLock(p) \/ ReleaseLock(p)
  <2>1. CASE \E done : Undo(p, done)
    BY <2>1, UndoPlaced
  <2>2. CASE Goto(p, "check")
    BY <1>0, <1>2, <2>2, GotoTurns, TurnsPlaced DEF AcquireLock, ReleaseLock, Placing
  <2>3. CASE NextLine(p, "stock", "key")
    BY <1>0, <1>2, <2>3, NextLineTurns, TurnsPlaced DEF AcquireLock, ReleaseLock, Placing
  <2>4. QED
    BY <1>2, <2>1, <2>2, <2>3 DEF AcquireLock, ReleaseLock
<1>3. CASE CheckAvailable(p) \/ CountHold(p) \/ WriteKey(p) \/ WriteMirror(p)
  <2>1. task[p].op = "reserve"
    BY <1>0, <1>3 DEF CheckAvailable, CountHold, WriteKey, WriteMirror, Placing, Ops
  <2>2. \E pc \in {"refuse", "count", "syncQty", "mirror", "ok"} : Goto(p, pc)
    BY <1>3 DEF CheckAvailable, CountHold, WriteKey, WriteMirror
  <2>3. QED
    BY <2>1, <2>2, GotoTurns, TurnsPlaced
<1>4. CASE SyncStatus(p)
  <2>1. CASE task[p].op = "reserve" /\ Goto(p, "unlock")
    BY <2>1, GotoTurns, TurnsPlaced
  <2>2. CASE task[p].op # "reserve" /\ NextLine(p, "decr", "delKey")
    BY <1>0, <1>4, <2>2, NextLineTurns, TurnsPlaced DEF SyncStatus, Placing
  <2>3. QED
    BY <1>4, <2>1, <2>2 DEF SyncStatus
<1>5. CASE LoadReservation(p)
  <2>1. task[p].op \in {"commit", "release"} /\ task[p].i = 1
    BY <1>0, <1>5 DEF LoadReservation, Placing, Ops
  <2>2. Goto(p, "claim") \/ Goto(p, FirstStep(task[p].op))
    BY <1>5 DEF LoadReservation
  <2>3. QED
    BY <2>1, <2>2, GotoTurns, TurnsPlaced DEF FirstStep
<1>6. CASE ClaimMirror(p)
  <2>1. task[p].op \in {"commit", "release"}
    BY <1>0, <1>6 DEF ClaimMirror, Placing, Ops
  <2>2. CASE Goto(p, "ok")
    BY <2>1, <2>2, GotoTurns, TurnsPlaced
  <2>3. CASE task' = [task EXCEPT ![p].pc = FirstStep(task[p].op), ![p].mirrored = TRUE]
    <3>1. /\ OnlyMoves(p) /\ task'[p].op = task[p].op /\ task'[p].last = task[p].last
          /\ task'[p].pc = FirstStep(task[p].op)
      BY <2>3, ClaimTurns
    <3>2. \A q \in Proc \ {p} : Placing(task[q])'
      BY <3>1 DEF OnlyMoves, TasksPlaced, Placing
    <3>3. Placing(task[p])'
      BY <1>0, <2>1, <3>1 DEF OnlyMoves, Placing, FirstStep
    <3>4. QED
      BY <3>2, <3>3 DEF TasksPlaced
  <2>4. QED
    BY <1>6, <2>2, <2>3 DEF ClaimMirror
<1>7. CASE TakeStock(p) \/ TakeStatus(p)
  <2>1. task[p].op \in {"commit", "sell"}
    BY <1>0, <1>7 DEF TakeStock, TakeStatus, Placing, Ops
  <2>2. CASE Goto(p, "raised")
    BY <2>1, <2>2, GotoTurns, TurnsPlaced
  <2>3. CASE task' = [task EXCEPT ![p].pc = "takeStatus", ![p].view = qty[RowOf(p)] - UnitsOf(p)]
    BY <2>1, <2>3, ReadTurns, TurnsPlaced
  <2>4. CASE NextLine(p, "take", IF task[p].op = "commit" THEN "decr" ELSE "ok")
    <3>1. \E pc, i : /\ Turns(p, pc, i)
                     /\ pc = "take" \/ pc = IF task[p].op = "commit" THEN "decr" ELSE "ok"
      BY <2>4, NextLineTurns
    <3>2. QED
      BY <2>1, <3>1, TurnsPlaced
  <2>5. QED
    BY <1>7, <2>2, <2>3, <2>4 DEF TakeStock, TakeStatus
<1>8. CASE DecrPending(p) \/ DropPending(p)
  <2>1. task[p].op \in {"undo", "commit", "release"}
    BY <1>0, <1>8 DEF DecrPending, DropPending, Placing, Ops
  <2>2. CASE Goto(p, "drop")
    BY <2>1, <2>2, GotoTurns, TurnsPlaced
  <2>3. CASE AfterAdjust(p)
    <3>1. CASE task[p].op = "release" /\ Goto(p, "syncQty")
      BY <3>1, GotoTurns, TurnsPlaced
    <3>2. CASE task[p].op # "release" /\ NextLine(p, "decr", "delKey")
      BY <2>1, <3>2, NextLineTurns, TurnsPlaced
    <3>3. QED
      BY <2>3, <3>1, <3>2 DEF AfterAdjust
  <2>4. QED
    BY <1>8, <2>2, <2>3 DEF DecrPending, DropPending
<1>9. CASE DeleteKey(p)
  <2>1. task[p].op \in {"undo", "commit", "release"}
    BY <1>0, <1>9 DEF DeleteKey, Placing, Ops
  <2>2. \E pc \in {"raised", "ok", "resolve"} : Goto(p, pc) /\ (task[p].op = "undo" => pc = "raised")
    BY <1>9 DEF DeleteKey
  <2>3. QED
    BY <2>1, <2>2, GotoTurns, TurnsPlaced
<1>10. CASE ResolveMirror(p)
  BY <1>0, <1>10, GotoTurns, TurnsPlaced DEF ResolveMirror, Placing
<1>11. CASE PutBack(p)
  BY <1>0, <1>11, NextLineTurns, TurnsPlaced DEF PutBack, Placing
<1>12. CASE StoreFails(p)
  <2>1. CASE \E done : Undo(p, done)
    BY <2>1, UndoPlaced
  <2>2. CASE task[p].op = "reserve" /\ \E pc \in {"unlock", "refuse"} : Goto(p, pc)
    BY <2>2, GotoTurns, TurnsPlaced
  <2>3. CASE task[p].op # "reserve" /\ task[p].pc \in SyncSteps /\ NextLine(p, "decr", "delKey")
    BY <1>0, <2>3, NextLineTurns, TurnsPlaced DEF Placing
  <2>4. CASE task[p].op # "reserve" /\ task[p].pc # "idle" /\ Goto(p, "raised")
    BY <1>0, <2>4, GotoTurns, TurnsPlaced DEF Placing
  <2>5. CASE task[p].pc \in {"check", "count"} /\ Goto(p, "refuse")
    BY <1>0, <2>2, <2>5 DEF Placing, Ops
  <2>6. QED
    BY <1>12, <2>1, <2>2, <2>3, <2>4, <2>5 DEF StoreFails
<1>13. QED
  BY <1>1, <1>2, <1>3, <1>4, <1>5, <1>6, <1>7, <1>8, <1>9, <1>10, <1>11, <1>12 DEF Step

LEMMA ReplacedPlaced ==
  ASSUME TypeOK, TasksPlaced, NEW p \in Proc, NEW t, task' = [task EXCEPT ![p] = t], Placing(t)
  PROVE  TasksPlaced'
<1>1. task'[p] = t /\ \A q \in Proc \ {p} : task'[q] = task[q]
  BY TaskRecords
<1>2. QED
  BY <1>1 DEF TasksPlaced, Placing

LEMMA StartedPlaced ==
  ASSUME NEW op, NEW o, NEW pc,
         \/ op = "reserve" /\ pc = "stock"
         \/ op \in {"commit", "release"} /\ pc = "load"
         \/ op = "sell" /\ pc = "take"
         \/ op = "restock" /\ pc = "putBack"
  PROVE  Placing(Started(op, o, pc))
BY DEF Placing, Started, ReserveSteps

LEMMA PlacedInductive ==
  ASSUME TypeOK, TasksPlaced, [Next]_vars
  PROVE  TasksPlaced'
<1>1. ASSUME NEW p \in Proc, Return(p) \/ Crash(p)
      PROVE  TasksPlaced'
  <2>1. Placing(Idle)
    BY DEF Placing, Idle
  <2>2. task' = [task EXCEPT ![p] = Idle]
    BY <1>1 DEF Return, Crash
  <2>3. QED
    BY <2>1, <2>2, ReplacedPlaced
<1>2. ASSUME NEW p \in Proc, Caller(p)
      PROVE  TasksPlaced'
  <2>1. \E op, pc : \E o \in Order :
          /\ task' = [task EXCEPT ![p] = Started(op, o, pc)]
          /\ \/ op = "reserve" /\ pc = "stock"
             \/ op \in {"commit", "release"} /\ pc = "load"
             \/ op = "sell" /\ pc = "take"
             \/ op = "restock" /\ pc = "putBack"
    BY <1>2 DEF Caller, CallReserve, CallCommit, CallRelease, Sweep, CallSell, CallRestock, Call
  <2>2. QED
    BY <2>1, StartedPlaced, ReplacedPlaced
<1>3. CASE UNCHANGED task
  BY <1>3 DEF TasksPlaced, Placing
<1>4. QED
  BY <1>1, <1>2, <1>3, StepPlaced DEF Next, Tick, LockExpires, vars

LEMMA PlacedCorrect == Spec => []TasksPlaced
<1>1. Init => TasksPlaced
  BY DEF Init, TasksPlaced, Placing, Idle
<1>2. TypeOK /\ TasksPlaced /\ [Next]_vars => TasksPlaced'
  BY PlacedInductive
<1>3. QED
  BY <1>1, <1>2, TypeCorrect, PTL DEF Spec

-----------------------------------------------------------------------------
(* The pending counter and the units that are held *)

(* A line's units, where it is held, are counted apart from all others. *)
LEMMA LineHasItsUnits ==
  ASSUME NEW o \in Order, NEW k \in 1 .. Len(Lines[o])
  PROVE  IsFiniteSet(LineUnits(o, k)) /\ Cardinality(LineUnits(o, k)) = Lines[o][k].n
<1> DEFINE n == Lines[o][k].n
           f == [u \in 1 .. n |-> <<o, k, u>>]
<1>1. n \in Nat \ {0}
  <2>1. Lines[o] \in Seq(Line)
    OBVIOUS
  <2>2. Lines[o][k] \in Line
    BY <2>1
  <2>3. QED
    BY <2>2 DEF Line
<1>2. IsFiniteSet(1 .. n) /\ Cardinality(1 .. n) = n
  <2> HIDE DEF n
  <2>1. /\ IsFiniteSet(1 .. n)
        /\ Cardinality(1 .. n) = IF 1 > n THEN 0 ELSE n - 1 + 1
    BY <1>1, FS_Interval
  <2>2. QED
    BY <1>1, <2>1
<1>3. f \in Bijection(1 .. n, LineUnits(o, k))
  <2>1. f \in [1 .. n -> LineUnits(o, k)]
    BY DEF LineUnits
  <2>2. \A u, v \in 1 .. n : f[u] = f[v] => u = v
    OBVIOUS
  <2>3. \A x \in LineUnits(o, k) : \E u \in 1 .. n : f[u] = x
    BY DEF LineUnits
  <2> HIDE DEF f
  <2>4. QED
    BY <2>1, <2>2, <2>3 DEF Bijection, Injection, IsInjective, Surjection
<1>4. ExistsBijection(1 .. n, LineUnits(o, k))
  BY <1>3 DEF ExistsBijection
<1>5. QED
  BY <1>2, <1>4, FS_Bijection

LEMMA DisjointUnion ==
  ASSUME NEW S, NEW T, IsFiniteSet(S), IsFiniteSet(T), S \cap T = {}
  PROVE  /\ IsFiniteSet(S \cup T)
         /\ Cardinality(S \cup T) = Cardinality(S) + Cardinality(T)
<1>1. Cardinality(S) \in Nat /\ Cardinality(T) \in Nat
  BY FS_CardinalityType
<1>2. Cardinality(S \cap T) = 0
  BY FS_EmptySet
<1>3. /\ IsFiniteSet(S \cup T)
      /\ Cardinality(S \cup T) = Cardinality(S) + Cardinality(T) - Cardinality(S \cap T)
  BY FS_Union
<1>4. QED
  BY <1>1, <1>2, <1>3

LEMMA UnitOn ==
  ASSUME NEW r, NEW lines, NEW x
  PROVE  x \in UnitsOn(r, lines) <=>
           \E o \in Order : \E k \in lines[o] : Lines[o][k].row = r /\ x \in LineUnits(o, k)
BY DEF UnitsOn

LEMMA UnitsApart ==
  ASSUME NEW o, NEW k, NEW q, NEW j, NEW x, x \in LineUnits(o, k), x \in LineUnits(q, j)
  PROVE  o = q /\ k = j
BY DEF LineUnits

(* One more line of an order is held, or one less. *)
LEMMA LineJoins ==
  ASSUME NEW r, NEW o \in Order, NEW k \in 1 .. Len(Lines[o]), NEW a, NEW b,
         k \notin a[o], \A j : j \in b[o] <=> j \in a[o] \/ j = k,
         \A q \in Order \ {o} : b[q] = a[q],
         IsFiniteSet(UnitsOn(r, a))
  PROVE  /\ IsFiniteSet(UnitsOn(r, b))
         /\ Lines[o][k].row = r => UnitsIn(r, b) >= UnitsIn(r, a) + Lines[o][k].n
         /\ Lines[o][k].row # r => UnitsIn(r, b) = UnitsIn(r, a)
<1>2. CASE Lines[o][k].row = r
  <2>1. UnitsOn(r, b) = UnitsOn(r, a) \cup LineUnits(o, k)
    <3>1. ASSUME NEW x \in UnitsOn(r, b)
          PROVE  x \in UnitsOn(r, a) \cup LineUnits(o, k)
      <4>1. PICK q \in Order : \E j \in b[q] : Lines[q][j].row = r /\ x \in LineUnits(q, j)
        BY <3>1, UnitOn
      <4>2. PICK j \in b[q] : Lines[q][j].row = r /\ x \in LineUnits(q, j)
        BY <4>1
      <4>3. CASE j \in a[q]
        BY <4>2, <4>3, UnitOn
      <4>4. CASE j \notin a[q]
        <5>1. q = o /\ j = k
          BY <4>2, <4>4
        <5>2. QED
          BY <4>2, <5>1
      <4>5. QED
        BY <4>3, <4>4
    <3>2. ASSUME NEW x \in UnitsOn(r, a)
          PROVE  x \in UnitsOn(r, b)
      <4>1. PICK q \in Order : \E j \in a[q] : Lines[q][j].row = r /\ x \in LineUnits(q, j)
        BY <3>2, UnitOn
      <4>2. a[q] \subseteq b[q]
        OBVIOUS
      <4>3. QED
        BY <4>1, <4>2, UnitOn
    <3>3. ASSUME NEW x \in LineUnits(o, k)
          PROVE  x \in UnitsOn(r, b)
      BY <1>2, <3>3, UnitOn
    <3>4. QED
      BY <3>1, <3>2, <3>3
  <2>2. UnitsOn(r, a) \cap LineUnits(o, k) = {}
    <3>1. ASSUME NEW x \in UnitsOn(r, a), x \in LineUnits(o, k)
          PROVE  FALSE
      <4>1. PICK q \in Order : \E j \in a[q] : x \in LineUnits(q, j)
        BY <3>1, UnitOn
      <4>2. PICK j \in a[q] : x \in LineUnits(q, j)
        BY <4>1
      <4>3. q = o /\ j = k
        BY <3>1, <4>2, UnitsApart
      <4>4. QED
        BY <4>2, <4>3
    <3>2. QED
      BY <3>1
  <2>4. IsFiniteSet(LineUnits(o, k)) /\ Cardinality(LineUnits(o, k)) = Lines[o][k].n
    BY LineHasItsUnits
  <2>7. IsFiniteSet(UnitsOn(r, b)) /\ UnitsIn(r, b) = UnitsIn(r, a) + Lines[o][k].n
    <3>1. /\ IsFiniteSet(UnitsOn(r, a) \cup LineUnits(o, k))
          /\ Cardinality(UnitsOn(r, a) \cup LineUnits(o, k)) =
               Cardinality(UnitsOn(r, a)) + Cardinality(LineUnits(o, k))
      BY <2>2, <2>4, DisjointUnion, Zenon
    <3>2. IsFiniteSet(UnitsOn(r, b))
      BY <2>1, <3>1, Zenon
    <3>3. Cardinality(UnitsOn(r, b)) = Cardinality(UnitsOn(r, a)) + Lines[o][k].n
      BY <2>1, <2>4, <3>1, Zenon
    <3>4. QED
      BY <3>2, <3>3 DEF UnitsIn
  <2>8. UnitsIn(r, a) \in Nat /\ Lines[o][k].n \in Nat
    BY <2>4, FS_CardinalityType DEF UnitsIn
  <2>9. QED
    BY <1>2, <2>7, <2>8
<1>3. CASE Lines[o][k].row # r
  <2>1. UnitsOn(r, b) = UnitsOn(r, a)
    <3>1. ASSUME NEW x
          PROVE  x \in UnitsOn(r, b) <=> x \in UnitsOn(r, a)
      <4>1. \A q \in Order : \A j : Lines[q][j].row = r => (j \in b[q] <=> j \in a[q])
        BY <1>3
      <4>2. QED
        BY <4>1, UnitOn
    <3>2. QED
      BY <3>1
  <2>2. Cardinality(UnitsOn(r, a)) \in Nat
    BY FS_CardinalityType
  <2>3. QED
    BY <1>3, <2>1, <2>2 DEF UnitsIn
<1>4. QED
  BY <1>2, <1>3

LEMMA LineLeaves ==
  ASSUME NEW r, NEW o \in Order, NEW k \in 1 .. Len(Lines[o]), NEW a, NEW b,
         b[o] = a[o] \ {k}, \A q \in Order \ {o} : b[q] = a[q],
         IsFiniteSet(UnitsOn(r, a))
  PROVE  /\ IsFiniteSet(UnitsOn(r, b))
         /\ UnitsIn(r, b) >=
              UnitsIn(r, a) - (IF Lines[o][k].row = r THEN Lines[o][k].n ELSE 0)
<1>2. UnitsOn(r, b) \subseteq UnitsOn(r, a)
  <2>1. ASSUME NEW x \in UnitsOn(r, b)
        PROVE  x \in UnitsOn(r, a)
    <3>1. PICK q \in Order : \E j \in b[q] : Lines[q][j].row = r /\ x \in LineUnits(q, j)
      BY <2>1, UnitOn
    <3>2. b[q] \subseteq a[q]
      OBVIOUS
    <3>3. QED
      BY <3>1, <3>2, UnitOn
  <2>2. QED
    BY <2>1
<1>3. IsFiniteSet(UnitsOn(r, b))
  BY <1>2, FS_Subset
<1>4. Cardinality(UnitsOn(r, a)) \in Nat /\ Cardinality(UnitsOn(r, b)) \in Nat
  BY <1>3, FS_CardinalityType
<1>5. CASE Lines[o][k].row = r
  <2>1. UnitsOn(r, a) \subseteq UnitsOn(r, b) \cup LineUnits(o, k)
    <3>1. ASSUME NEW x \in UnitsOn(r, a)
          PROVE  x \in UnitsOn(r, b) \cup LineUnits(o, k)
      <4>1. PICK q \in Order : \E j \in a[q] : Lines[q][j].row = r /\ x \in LineUnits(q, j)
        BY <3>1, UnitOn
      <4>2. PICK j \in a[q] : Lines[q][j].row = r /\ x \in LineUnits(q, j)
        BY <4>1
      <4>3. CASE j \in b[q]
        BY <4>2, <4>3, UnitOn
      <4>4. CASE j \notin b[q]
        <5>1. q = o /\ j = k
          BY <4>2, <4>4
        <5>2. QED
          BY <4>2, <5>1
      <4>5. QED
        BY <4>3, <4>4
    <3>2. QED
      BY <3>1
  <2>2. IsFiniteSet(LineUnits(o, k)) /\ Cardinality(LineUnits(o, k)) = Lines[o][k].n
    BY LineHasItsUnits
  <2>3. /\ IsFiniteSet(UnitsOn(r, b) \cup LineUnits(o, k))
        /\ Cardinality(UnitsOn(r, b) \cup LineUnits(o, k)) =
             Cardinality(UnitsOn(r, b)) + Cardinality(LineUnits(o, k))
               - Cardinality(UnitsOn(r, b) \cap LineUnits(o, k))
    BY <1>3, <2>2, FS_Union
  <2>4. Cardinality(UnitsOn(r, a)) <= Cardinality(UnitsOn(r, b) \cup LineUnits(o, k))
    BY <2>1, <2>3, FS_Subset
  <2>5. /\ Cardinality(UnitsOn(r, b) \cap LineUnits(o, k)) \in Nat
        /\ Cardinality(LineUnits(o, k)) \in Nat
    BY <1>3, <2>2, FS_Intersection, FS_CardinalityType
  <2>6. QED
    BY <1>3, <1>4, <1>5, <2>2, <2>3, <2>4, <2>5 DEF UnitsIn
<1>6. CASE Lines[o][k].row # r
  <2>1. UnitsOn(r, b) = UnitsOn(r, a)
    <3>1. ASSUME NEW x
          PROVE  x \in UnitsOn(r, b) <=> x \in UnitsOn(r, a)
      <4>1. \A q \in Order : \A j : Lines[q][j].row = r => (j \in b[q] <=> j \in a[q])
        BY <1>6
      <4>2. QED
        BY <4>1, UnitOn
    <3>2. QED
      BY <3>1
  <2>2. QED
    BY <1>3, <1>4, <1>6, <2>1 DEF UnitsIn
<1>7. QED
  BY <1>5, <1>6

(* A checkout counts its lines one after the other: what its order holds   *)
(* lies behind it, and no other checkout counts for the order.             *)
Counting == {"stock", "lock", "check", "count", "refuse"}

CountsInTurn(t, lines) ==
  /\ t.pc \in Counting => \A k \in lines : k < t.i
  /\ t.pc \in SyncSteps \cup {"unlock"} => \A k \in lines : k <= t.i

Reserves(p, o) == task[p].op = "reserve" /\ OrderOf(p) = o

CountInv ==
  /\ \A p, q \in Proc, o \in Order : Reserves(p, o) /\ Reserves(q, o) => p = q
  /\ \A p \in Proc, o \in Order : Reserves(p, o) =>
       checkout[o] # "new" /\ CountsInTurn(task[p], held[o])
  /\ \A o \in Order : checkout[o] = "new" => held[o] = {}

PhantomInv ==
  /\ CountInv
  /\ \A r \in Row : IsFiniteSet(UnitsOn(r, held))
  /\ NoPhantomHold

LEMMA HeldWrites ==
  ASSUME TypeOK, [Next]_vars, ~\E p \in Proc : CountHold(p) \/ DecrPending(p)
  PROVE  UNCHANGED held
<1>1. ASSUME NEW p \in Proc, Step(p)
      PROVE  UNCHANGED held
  BY <1>1 DEF Step, ReadStock, AcquireLock, CheckAvailable, ReleaseLock, WriteKey,
      WriteMirror, SyncQty, SyncPending, SyncStatus, LoadReservation, ClaimMirror,
      TakeStock, TakeStatus, DropPending, DeleteKey, ResolveMirror, PutBack, history
<1>2. ASSUME NEW p \in Proc, Caller(p)
      PROVE  UNCHANGED held
  BY <1>2 DEF Caller, CallReserve, CallCommit, CallRelease, Sweep, CallSell, CallRestock,
      Call, history
<1>3. QED
  BY <1>1, <1>2 DEF Next, Return, Crash, StoreFails, Tick, LockExpires, vars, history

LEMMA PendingWrites ==
  ASSUME TypeOK, [Next]_vars,
         ~\E p \in Proc : CountHold(p) \/ DecrPending(p) \/ DropPending(p)
  PROVE  UNCHANGED pending
<1>1. ASSUME NEW p \in Proc, Step(p)
      PROVE  UNCHANGED pending
  BY <1>1 DEF Step, ReadStock, AcquireLock, CheckAvailable, ReleaseLock, WriteKey,
      WriteMirror, SyncQty, SyncPending, SyncStatus, LoadReservation, ClaimMirror,
      TakeStock, TakeStatus, DeleteKey, ResolveMirror, PutBack, stores
<1>2. ASSUME NEW p \in Proc, Caller(p)
      PROVE  UNCHANGED pending
  BY <1>2 DEF Caller, CallReserve, CallCommit, CallRelease, Sweep, CallSell, CallRestock,
      Call, stores
<1>3. QED
  BY <1>1, <1>2 DEF Next, Return, Crash, StoreFails, Tick, LockExpires, vars, stores

(* An order once started is never new again. *)
LEMMA NewWasNew ==
  ASSUME TypeOK, [Next]_vars, NEW o \in Order, checkout'[o] = "new"
  PROVE  checkout[o] = "new"
<1>1. ASSUME NEW p \in Proc, Step(p)
      PROVE  UNCHANGED checkout
  BY <1>1 DEF Step, ReadStock, AcquireLock, CheckAvailable, CountHold, ReleaseLock, WriteKey,
      WriteMirror, SyncQty, SyncPending, SyncStatus, LoadReservation, ClaimMirror, TakeStock,
      TakeStatus, DecrPending, DropPending, DeleteKey, ResolveMirror, PutBack, env
<1>2. ASSUME NEW p \in Proc, Caller(p)
      PROVE  checkout[o] = "new"
  BY <1>2 DEF Caller, CallReserve, CallCommit, CallRelease, Sweep, CallSell, CallRestock,
      Call, TypeOK
<1>3. ASSUME NEW p \in Proc, Return(p) \/ Crash(p)
      PROVE  checkout[o] = "new"
  BY <1>3 DEF Return, Crash, TypeOK
<1>4. CASE UNCHANGED checkout
  BY <1>4
<1>5. QED
  BY <1>1, <1>2, <1>3, <1>4 DEF Next, StoreFails, Tick, LockExpires, vars, env

(* Nobody comes to reserve for an order but by a call for a new one. *)
LEMMA WhoReserves ==
  ASSUME TypeOK, PlaceOK, [Next]_vars, NEW p \in Proc, NEW o \in Order, Reserves(p, o)'
  PROVE  \/ Reserves(p, o)
         \/ /\ checkout[o] = "new" /\ checkout'[o] = "starting"
            /\ task'[p] = Started("reserve", o, "stock")
            /\ UNCHANGED held
            /\ \A q \in Proc \ {p} : task'[q] = task[q]
<1> USE DEF Reserves, OrderOf
<1>1. ASSUME NEW q \in Proc, Step(q) \/ StoreFails(q)
      PROVE  Reserves(p, o)
  <2>1. StepEffect(q)
    BY <1>1, StepKeepsPlace
  <2>2. CASE p = q
    BY <2>1, <2>2 DEF StepEffect, KeepsOp, Undoes, OnlyMoves
  <2>3. CASE p # q
    BY <2>1, <2>3 DEF StepEffect, OnlyMoves
  <2>4. QED
    BY <2>2, <2>3
<1>2. ASSUME NEW q \in Proc, Return(q) \/ Crash(q)
      PROVE  Reserves(p, o)
  <2>1. task' = [task EXCEPT ![q] = Idle]
    BY <1>2 DEF Return, Crash
  <2>2. CASE p = q
    BY <2>1, <2>2, TaskRecords DEF Idle
  <2>3. CASE p # q
    BY <2>1, <2>3, TaskRecords
  <2>4. QED
    BY <2>2, <2>3
<1>3. ASSUME NEW q \in Proc, NEW a \in Order, CallReserve(q, a)
      PROVE  \/ Reserves(p, o)
             \/ /\ checkout[o] = "new" /\ checkout'[o] = "starting"
                /\ task'[p] = Started("reserve", o, "stock")
                /\ UNCHANGED held
                /\ \A z \in Proc \ {p} : task'[z] = task[z]
  <2>1. /\ checkout[a] = "new" /\ checkout' = [checkout EXCEPT ![a] = "starting"]
        /\ task' = [task EXCEPT ![q] = Started("reserve", a, "stock")]
        /\ UNCHANGED held
    BY <1>3 DEF CallReserve, Call, history
  <2>2. CASE p = q
    <3>1. /\ task'[p] = Started("reserve", a, "stock")
          /\ \A z \in Proc \ {p} : task'[z] = task[z]
      BY <2>1, <2>2, TaskRecords
    <3>2. a = o
      BY <3>1 DEF Started
    <3>3. checkout'[o] = "starting"
      BY <2>1, <3>2 DEF TypeOK
    <3>4. QED
      BY <2>1, <3>1, <3>2, <3>3
  <2>3. CASE p # q
    BY <2>1, <2>3, TaskRecords
  <2>4. QED
    BY <2>2, <2>3
<1>4. ASSUME NEW q \in Proc, NEW a \in Order,
             \/ CallCommit(q, a) \/ CallRelease(q, a) \/ Sweep(q, a) \/ CallSell(q, a)
             \/ CallRestock(q, a)
      PROVE  Reserves(p, o)
  <2>1. \E op \in Ops \ {"reserve"} : \E pc : task' = [task EXCEPT ![q] = Started(op, a, pc)]
    BY <1>4 DEF CallCommit, CallRelease, Sweep, CallSell, CallRestock, Call, Ops
  <2>2. PICK op \in Ops \ {"reserve"} : \E pc : task' = [task EXCEPT ![q] = Started(op, a, pc)]
    BY <2>1
  <2>3. PICK pc : task' = [task EXCEPT ![q] = Started(op, a, pc)]
    BY <2>2
  <2>4. CASE p = q
    BY <2>3, <2>4, TaskRecords DEF Started
  <2>5. CASE p # q
    BY <2>3, <2>5, TaskRecords
  <2>6. QED
    BY <2>4, <2>5
<1>5. CASE UNCHANGED task
  BY <1>5
<1>6. QED
  BY <1>1, <1>2, <1>3, <1>4, <1>5 DEF Next, Caller, Tick, LockExpires, vars

(* A handler that goes on reserving goes on counting in turn. *)
LEMMA CountingStep ==
  ASSUME TypeOK, PlaceOK, NEW p \in Proc, NEW o \in Order, Step(p) \/ StoreFails(p),
         Reserves(p, o), Reserves(p, o)', CountsInTurn(task[p], held[o]),
         CountHold(p) \/ held'[o] \subseteq held[o]
  PROVE  CountsInTurn(task[p], held[o])'
<1> USE DEF At, Reserves, SyncSteps, Counting
<1>0. task[p] \in Task /\ OrderOf(p) = o
  BY TaskRecords
<1>1. CASE CountHold(p)
  <2>1. Turns(p, "syncQty", task[p].i)
    BY <1>1, GotoTurns DEF CountHold
  <2>2. held'[o] = held[o] \cup {task[p].i} /\ task[p].i \in Nat
    BY <1>0, <1>1 DEF CountHold, TypeOK, Task
  <2>3. \A k \in held[o] : k \in Nat /\ k < task[p].i
    BY <1>0, <1>1 DEF CountHold, CountsInTurn, TypeOK
  <2>4. \A k \in held'[o] : k <= task[p].i
    BY <2>2, <2>3
  <2>5. QED
    BY <2>1, <2>4 DEF CountsInTurn, Turns
<1>2. ASSUME held'[o] \subseteq held[o], NEW pc, Turns(p, pc, task[p].i),
             pc \in Counting => task[p].pc \in Counting,
             pc \in SyncSteps \cup {"unlock"} => task[p].pc \in Counting \cup SyncSteps \cup {"unlock"}
      PROVE  CountsInTurn(task[p], held[o])'
  <2>1. \A k \in held[o] : k \in Nat
    BY DEF TypeOK
  <2>2. task[p].i \in Nat
    BY <1>0 DEF Task
  <2>3. task'[p].pc = pc /\ task'[p].i = task[p].i
    BY <1>2 DEF Turns
  <2>4. CASE pc \in Counting
    BY <1>2, <2>3, <2>4 DEF CountsInTurn
  <2>5. CASE pc \in SyncSteps \cup {"unlock"}
    <3>1. \A k \in held[o] : k <= task[p].i
      BY <1>2, <2>1, <2>2, <2>5 DEF CountsInTurn
    <3>2. \A k \in held'[o] : k <= task[p].i
      BY <1>2, <3>1
    <3>3. QED
      BY <2>3, <2>5, <3>2 DEF CountsInTurn
  <2>6. CASE pc \notin Counting \cup SyncSteps \cup {"unlock"}
    BY <2>3, <2>6 DEF CountsInTurn
  <2>7. QED
    BY <2>4, <2>5, <2>6
<1>3. ASSUME held'[o] \subseteq held[o], NEW pc, Goto(p, pc),
             pc \in Counting => task[p].pc \in Counting,
             pc \in SyncSteps \cup {"unlock"} => task[p].pc \in Counting \cup SyncSteps \cup {"unlock"}
      PROVE  CountsInTurn(task[p], held[o])'
  BY <1>2, <1>3, GotoTurns
<1>4. CASE ReadStock(p) \/ SyncQty(p) \/ SyncPending(p)
  <2>1. ~CountHold(p)
    BY <1>4 DEF ReadStock, SyncQty, SyncPending, CountHold
  <2>2. CASE ReadStock(p)
    BY <1>2, <2>1, <2>2, ReadTurns DEF ReadStock
  <2>3. CASE SyncQty(p)
    BY <1>2, <2>1, <2>3, ReadTurns DEF SyncQty
  <2>4. CASE SyncPending(p)
    <3>1. task' = [task EXCEPT ![p].pc = "syncStatus", ![p].view = task[p].view - pending[RowOf(p)]]
      BY <2>4, TaskRecords DEF SyncPending
    <3>2. Turns(p, "syncStatus", task[p].i)
      BY <3>1, ReadTurns
    <3>3. QED
      BY <1>2, <2>1, <2>4, <3>2 DEF SyncPending
  <2>5. QED
    BY <1>4, <2>2, <2>3, <2>4
<1>5. CASE \E done : Undo(p, done)
  BY <1>5, UndoTurns
<1>6. CASE AcquireLock(p) /\ Goto(p, "check")
  BY <1>3, <1>6 DEF AcquireLock, CountHold
<1>7. CASE CheckAvailable(p)
  BY <1>3, <1>7 DEF CheckAvailable, CountHold
<1>8. CASE ReleaseLock(p) /\ At(p, "unlock") /\ NextLine(p, "stock", "key")
  <2>1. held'[o] \subseteq held[o]
    BY <1>8 DEF CountHold
  <2>2. CASE task[p].i < task[p].last /\ Turns(p, "stock", task[p].i + 1)
    <3>1. \A k \in held[o] : k \in Nat /\ k <= task[p].i
      BY <1>8 DEF CountsInTurn, TypeOK
    <3>2. task[p].i \in Nat
      BY <1>0 DEF Task
    <3>3. \A k \in held'[o] : k < task[p].i + 1
      BY <2>1, <3>1, <3>2
    <3>4. QED
      BY <2>2, <3>3 DEF CountsInTurn, Turns
  <2>3. CASE Turns(p, "key", 1)
    BY <2>3 DEF CountsInTurn, Turns
  <2>4. QED
    BY <1>8, <2>2, <2>3, NextLineTurns
<1>9. CASE WriteKey(p) \/ WriteMirror(p)
  BY <1>3, <1>9 DEF WriteKey, WriteMirror, CountHold
<1>10. CASE SyncStatus(p)
  BY <1>3, <1>10 DEF SyncStatus, CountHold
<1>11. CASE LoadReservation(p) \/ ClaimMirror(p)
  BY <1>11 DEF LoadReservation, ClaimMirror, PlaceOK
<1>12. CASE TakeStock(p) \/ TakeStatus(p) \/ DecrPending(p) \/ DropPending(p) \/ DeleteKey(p)
            \/ ResolveMirror(p) \/ PutBack(p)
  <2>1. /\ task'[p].pc \notin Counting \cup SyncSteps \cup {"unlock"}
    <3>1. CASE TakeStock(p)
      <4>1. CASE Goto(p, "raised")
        BY <4>1, GotoEffect
      <4>2. CASE task' = [task EXCEPT ![p].pc = "takeStatus",
                                      ![p].view = qty[RowOf(p)] - UnitsOf(p)]
        <5>1. task'[p].pc = "takeStatus"
          BY <4>2, ReadEffect
        <5>2. QED
          BY <5>1
      <4>3. QED
        BY <3>1, <4>1, <4>2 DEF TakeStock
    <3>2. CASE TakeStatus(p)
      BY <3>2, NextLineEffect DEF TakeStatus
    <3>3. CASE DecrPending(p) \/ DropPending(p)
      BY <3>3, GotoEffect, NextLineEffect DEF DecrPending, DropPending, AfterAdjust
    <3>4. CASE DeleteKey(p)
      BY <3>4, GotoEffect DEF DeleteKey
    <3>5. CASE ResolveMirror(p)
      BY <3>5, GotoEffect DEF ResolveMirror
    <3>6. CASE PutBack(p)
      BY <3>6, NextLineEffect, SMTT(30) DEF PutBack
    <3>7. QED
      BY <1>12, <3>1, <3>2, <3>3, <3>4, <3>5, <3>6
  <2>2. QED
    BY <2>1 DEF CountsInTurn
<1>13. CASE StoreFails(p)
  <2>1. CASE ~CountHold(p)
    BY <1>3, <1>5, <1>13, <2>1 DEF StoreFails
  <2>2. QED
    BY <1>1, <2>1
<1>14. QED
  BY <1>1, <1>4, <1>5, <1>6, <1>7, <1>8, <1>9, <1>10, <1>11, <1>12, <1>13
  DEF Step, AcquireLock, ReleaseLock

LEMMA CountInductive ==
  ASSUME TypeOK, PlaceOK, TasksPlaced, CountInv, [Next]_vars
  PROVE  CountInv'
<1>1. ASSUME NEW p \in Proc, CountHold(p)
      PROVE  Reserves(p, OrderOf(p)) /\ OrderOf(p) \in Order
  BY <1>1, OrderOfTask DEF CountHold, At, Reserves, PlaceOK, ReserveSteps
<1>2. ASSUME NEW o \in Order
      PROVE  held'[o] \subseteq held[o] \/ \E p \in Proc : CountHold(p) /\ OrderOf(p) = o
  <2>1. ASSUME NEW p \in Proc, CountHold(p)
        PROVE  held'[o] \subseteq held[o] \/ OrderOf(p) = o
    BY <2>1 DEF CountHold, TypeOK
  <2>2. ASSUME NEW p \in Proc, DecrPending(p)
        PROVE  held'[o] \subseteq held[o]
    <3>1. held' = [held EXCEPT ![OrderOf(p)] = @ \ {task[p].i}]
      BY <2>2 DEF DecrPending
    <3>2. QED
      BY <3>1 DEF TypeOK
  <2>3. QED
    BY <2>1, <2>2, HeldWrites
<1>3. ASSUME NEW o \in Order, checkout'[o] = "new"
      PROVE  held'[o] = {}
  <2>1. checkout[o] = "new"
    BY <1>3, NewWasNew
  <2>2. ~\E p \in Proc : CountHold(p) /\ OrderOf(p) = o
    BY <1>1, <2>1 DEF CountInv
  <2>3. QED
    BY <1>2, <2>1, <2>2 DEF CountInv
<1>4. ASSUME NEW p \in Proc, NEW q \in Proc, NEW o \in Order, Reserves(p, o)', Reserves(q, o)'
      PROVE  p = q
  <2>1. ASSUME NEW a \in Proc, NEW b \in Proc, a # b, Reserves(b, o)', ~Reserves(a, o), Reserves(a, o)'
        PROVE  FALSE
    <3>1. checkout[o] = "new" /\ checkout'[o] = "starting"
      BY <2>1, WhoReserves
    <3>2. task'[b] = task[b]
      BY <2>1, WhoReserves
    <3>3. Reserves(b, o)
      BY <2>1, <3>2 DEF Reserves, OrderOf
    <3>4. QED
      BY <3>1, <3>3 DEF CountInv
  <2>2. CASE Reserves(p, o) /\ Reserves(q, o)
    BY <2>2 DEF CountInv
  <2>3. QED
    BY <1>4, <2>1, <2>2
<1>5. ASSUME NEW p \in Proc, NEW o \in Order, Reserves(p, o)'
      PROVE  checkout'[o] # "new" /\ CountsInTurn(task[p], held[o])'
  <2>1. CASE ~Reserves(p, o)
    <3>1. /\ checkout[o] = "new" /\ checkout'[o] = "starting"
          /\ task'[p] = Started("reserve", o, "stock") /\ UNCHANGED held
      BY <1>5, <2>1, WhoReserves
    <3>2. held'[o] = {}
      BY <3>1 DEF CountInv
    <3>3. QED
      BY <3>1, <3>2 DEF CountsInTurn
  <2>2. CASE Reserves(p, o)
    <3>1. checkout'[o] # "new" /\ CountsInTurn(task[p], held[o])
      BY <2>2, NewWasNew DEF CountInv
    <3>2. CASE Step(p) \/ StoreFails(p)
      <4>1. ASSUME NEW q \in Proc, CountHold(q), OrderOf(q) = o
            PROVE  CountHold(p)
        BY <1>1, <2>2, <4>1 DEF CountInv
      <4>2. CountHold(p) \/ held'[o] \subseteq held[o]
        BY <1>2, <4>1
      <4>3. QED
        BY <1>5, <2>2, <3>1, <3>2, <4>2, CountingStep
    <3>3. CASE task'[p] = task[p]
      <4>1. CASE held'[o] \subseteq held[o]
        BY <3>1, <3>3, <4>1 DEF CountsInTurn
      <4>2. CASE \E q \in Proc : CountHold(q) /\ OrderOf(q) = o
        <5>1. CountHold(p)
          BY <1>1, <2>2, <4>2 DEF CountInv
        <5>2. task'[p].pc = "syncQty" /\ task[p].pc = "count"
          BY <5>1, GotoEffect DEF CountHold, At
        <5>3. QED
          BY <3>3, <5>2
      <4>3. QED
        BY <1>2, <4>1, <4>2
    <3>4. CASE task'[p] # task[p] /\ ~(Step(p) \/ StoreFails(p))
      <4>1. ASSUME NEW q \in Proc, Step(q) \/ StoreFails(q)
            PROVE  FALSE
        BY <3>4, <4>1, StepKeepsPlace DEF StepEffect, OnlyMoves
      <4>2. ASSUME NEW q \in Proc, Return(q) \/ Crash(q)
            PROVE  task'[p].op # "reserve"
        BY <3>4, <4>2, TaskRecords DEF Return, Crash, Idle
      <4>3. ASSUME NEW q \in Proc, Caller(q)
            PROVE  task[p].pc = "idle"
        BY <3>4, <4>3, TaskRecords
        DEF Caller, CallReserve, CallCommit, CallRelease, Sweep, CallSell, CallRestock, Call, At
      <4>4. task[p].pc # "idle"
        BY <2>2 DEF Reserves, TasksPlaced, Placing, ReserveSteps, SyncSteps
      <4>5. QED
        BY <1>5, <3>4, <4>1, <4>2, <4>3, <4>4 DEF Next, Tick, LockExpires, vars, Reserves
    <3>5. QED
      BY <3>1, <3>2, <3>3, <3>4
  <2>3. QED
    BY <2>1, <2>2
<1>6. QED
  BY <1>3, <1>4, <1>5 DEF CountInv

(* No step makes the counter claim more than is held: only CountHold raises *)
(* it, and it adds a line that was not held.                                *)
LEMMA PhantomInductive ==
  ASSUME TypeOK, PlaceOK, TasksPlaced, PhantomInv, [Next]_vars
  PROVE  PhantomInv'
<1> USE DEF PhantomInv
<1>1. CountInv'
  BY CountInductive
<1>2. \A r \in Row : UnitsIn(r, held) \in Nat
  BY FS_CardinalityType DEF UnitsIn
<1>3. ASSUME NEW p \in Proc, CountHold(p)
      PROVE  (\A r \in Row : IsFiniteSet(UnitsOn(r, held))) ' /\ NoPhantomHold'
  <2> DEFINE o == OrderOf(p)
             k == task[p].i
  <2>1. /\ o \in Order /\ k \in 1 .. Len(Lines[o]) /\ RowOf(p) \in Row
        /\ UnitsOf(p) \in Nat \ {0} /\ RowOf(p) = Lines[o][k].row /\ UnitsOf(p) = Lines[o][k].n
    BY <1>3, LineOfTask DEF CountHold, At, LineSteps, RowOf, UnitsOf
  <2>2. Reserves(p, o)
    BY <1>3 DEF CountHold, At, Reserves, PlaceOK, ReserveSteps
  <2>3. k \notin held[o]
    <3>1. CountsInTurn(task[p], held[o]) /\ task[p].pc \in Counting
      BY <1>3, <2>1, <2>2 DEF CountInv, CountHold, At, Counting
    <3>2. \A j \in held[o] : j < k
      BY <3>1 DEF CountsInTurn
    <3>3. ~(k < k)
      BY <2>1
    <3>4. QED
      BY <3>2, <3>3
  <2>4. /\ held'[o] = held[o] \cup {k} /\ \A q \in Order \ {o} : held'[q] = held[q]
        /\ pending' = [pending EXCEPT ![RowOf(p)] = @ + UnitsOf(p)]
    BY <1>3, <2>1 DEF CountHold, TypeOK
  <2> HIDE DEF o, k
  <2>5. ASSUME NEW r \in Row
        PROVE  IsFiniteSet(UnitsOn(r, held')) /\ pending'[r] <= UnitsIn(r, held')
    <3>0. \A j : j \in held'[o] <=> j \in held[o] \/ j = k
      BY <2>4
    <3>5. IsFiniteSet(UnitsOn(r, held'))
      BY <2>1, <2>3, <2>4, <3>0, LineJoins
    <3>6. Lines[o][k].row # r => UnitsIn(r, held') = UnitsIn(r, held)
      BY <2>1, <2>3, <2>4, <3>0, LineJoins
    <3>7. Lines[o][k].row = r => UnitsIn(r, held') >= UnitsIn(r, held) + Lines[o][k].n
      BY <2>1, <2>3, <2>4, <3>0, LineJoins
    <3>1. UnitsIn(r, held') \in Nat
      BY <3>5, FS_CardinalityType DEF UnitsIn
    <3>2. pending[r] <= UnitsIn(r, held) /\ pending[r] \in Int /\ UnitsIn(r, held) \in Nat
      BY <1>2 DEF NoPhantomHold, UnitsHeld, TypeOK
    <3>3. CASE RowOf(p) = r
      <4>1. pending'[r] = pending[r] + UnitsOf(p)
        BY <2>4, <3>3 DEF TypeOK
      <4>2. QED
        BY <2>1, <3>1, <3>2, <3>3, <3>5, <3>7, <4>1
    <3>4. CASE RowOf(p) # r
      <4>1. pending'[r] = pending[r]
        BY <2>4, <3>4 DEF TypeOK
      <4>2. QED
        BY <2>1, <3>1, <3>2, <3>4, <3>5, <3>6, <4>1
    <3>8. QED
      BY <3>3, <3>4
  <2>6. QED
    BY <2>5 DEF NoPhantomHold, UnitsHeld
<1>4. ASSUME NEW p \in Proc, DecrPending(p)
      PROVE  (\A r \in Row : IsFiniteSet(UnitsOn(r, held))) ' /\ NoPhantomHold'
  <2> DEFINE o == OrderOf(p)
             k == task[p].i
  <2>1. /\ o \in Order /\ k \in 1 .. Len(Lines[o]) /\ RowOf(p) \in Row
        /\ UnitsOf(p) \in Nat \ {0} /\ RowOf(p) = Lines[o][k].row /\ UnitsOf(p) = Lines[o][k].n
    BY <1>4, LineOfTask DEF DecrPending, At, LineSteps, RowOf, UnitsOf
  <2>2. /\ held'[o] = held[o] \ {k} /\ \A q \in Order \ {o} : held'[q] = held[q]
        /\ pending' = [pending EXCEPT ![RowOf(p)] = @ - UnitsOf(p)]
    BY <1>4, <2>1 DEF DecrPending, TypeOK
  <2> HIDE DEF o, k
  <2>3. ASSUME NEW r \in Row
        PROVE  IsFiniteSet(UnitsOn(r, held')) /\ pending'[r] <= UnitsIn(r, held')
    <3>1. /\ IsFiniteSet(UnitsOn(r, held'))
          /\ UnitsIn(r, held') >=
               UnitsIn(r, held) - (IF Lines[o][k].row = r THEN Lines[o][k].n ELSE 0)
      BY <2>1, <2>2, LineLeaves
    <3>2. pending[r] <= UnitsIn(r, held) /\ pending[r] \in Int /\ UnitsIn(r, held) \in Nat
      BY <1>2 DEF NoPhantomHold, UnitsHeld, TypeOK
    <3>3. UnitsIn(r, held') \in Nat
      BY <3>1, FS_CardinalityType DEF UnitsIn
    <3>4. pending'[r] = pending[r] - (IF RowOf(p) = r THEN UnitsOf(p) ELSE 0)
      BY <2>1, <2>2 DEF TypeOK
    <3>5. QED
      BY <2>1, <3>1, <3>2, <3>3, <3>4
  <2>4. QED
    BY <2>3 DEF NoPhantomHold, UnitsHeld
<1>5. ASSUME UNCHANGED held, \A r \in Row : pending'[r] = pending[r] \/ pending'[r] = 0
      PROVE  (\A r \in Row : IsFiniteSet(UnitsOn(r, held))) ' /\ NoPhantomHold'
  <2>1. ASSUME NEW r \in Row
        PROVE  UnitsOn(r, held') = UnitsOn(r, held) /\ UnitsIn(r, held') = UnitsIn(r, held)
    BY <1>5
  <2>2. QED
    BY <1>2, <1>5, <2>1 DEF NoPhantomHold, UnitsHeld
<1>6. ASSUME NEW p \in Proc, DropPending(p)
      PROVE  UNCHANGED held /\ \A r \in Row : pending'[r] = pending[r] \/ pending'[r] = 0
  BY <1>6 DEF DropPending, TypeOK, history
<1>7. QED
  BY <1>1, <1>3, <1>4, <1>5, <1>6, HeldWrites, PendingWrites

(* The counter of a row never claims more units than orders hold, for any   *)
(* carts, any number of handlers, overlapping or not, and any failures.     *)
THEOREM NoPhantoms == Spec => []NoPhantomHold
<1>1. Init => PhantomInv
  <2> SUFFICES ASSUME Init PROVE PhantomInv
    OBVIOUS
  <2>1. \A r : UnitsOn(r, held) = {}
    BY DEF Init, UnitsOn
  <2>2. \A r : IsFiniteSet(UnitsOn(r, held)) /\ UnitsIn(r, held) = 0
    BY <2>1, FS_EmptySet DEF UnitsIn
  <2>3. CountInv
    BY DEF Init, CountInv, Reserves, Idle
  <2>4. NoPhantomHold
    <3>1. \A r \in Row : pending[r] = 0
      BY DEF Init
    <3>2. QED
      BY <2>2, <3>1 DEF NoPhantomHold, UnitsHeld
  <2>5. QED
    BY <2>2, <2>3, <2>4 DEF PhantomInv
<1>2. TypeOK /\ PlaceOK /\ TasksPlaced /\ PhantomInv /\ [Next]_vars => PhantomInv'
  BY PhantomInductive
<1>3. PhantomInv => NoPhantomHold
  BY DEF PhantomInv
<1>4. QED
  BY <1>1, <1>2, <1>3, TypeCorrect, PlaceCorrect, PlacedCorrect, PTL DEF Spec

-----------------------------------------------------------------------------
(* One handler to an order: what the order holds *)

Full(o) == held[o] = 1 .. Len(Lines[o])
OnRecord(o) == hold[o] \/ mirror[o] = "reserved"
OffRecord(o) == ~hold[o] /\ mirror[o] = "none"

(* Where the order's handler is tells which lines are held, and what the   *)
(* two stores may know of them.                                            *)
HoldFits(t, o) ==
  /\ t.op = "reserve" =>
       /\ t.pc \notin {"mirror", "ok"} => ~hold[o]
       /\ t.pc # "ok" => mirror[o] = "none"
       /\ t.pc \in Counting => held[o] = 1 .. t.i - 1
       /\ t.pc \in SyncSteps \cup {"unlock"} => held[o] = 1 .. t.i
       /\ t.pc \in {"key", "mirror", "ok"} => Full(o)
  /\ t.op = "undo" => OffRecord(o)
  /\ t.op \in {"undo", "commit", "release"} =>
       /\ t.pc = "decr" => held[o] = t.i .. t.last
       /\ t.pc \in {"drop"} \cup SyncSteps => held[o] = t.i + 1 .. t.last
       /\ t.pc \in {"delKey", "resolve"} => held[o] = {}
  /\ t.op \in {"commit", "release"} =>
       /\ t.pc \in {"claim", "resolve"} => ~hold[o]
       /\ t.pc \in {"take", "takeStatus"} => Full(o)
       /\ t.mirrored => ~hold[o] /\ mirror[o] # "reserved"
  /\ t.pc \in {"load", "claim", "ok", "raised"} \/ t.op \in {"sell", "restock"} =>
       (OnRecord(o) => Full(o))

SoleInv ==
  /\ \A p, q \in Proc : OrderOf(p) = OrderOf(q) /\ OrderOf(p) \in Order => p = q
  /\ \A p \in Proc : At(p, "idle") => OrderOf(p) = NoOrder
  /\ \A p \in Proc, o \in Order : OrderOf(p) = o => HoldFits(task[p], o)
  /\ \A o \in Order : ~Busy(o) => (OnRecord(o) => Full(o))
  /\ \A o \in Order : checkout[o] = "new" => OffRecord(o) /\ held[o] = {}

(* A step of an operation touches its own order's records only. *)
LEMMA OrderFrame ==
  ASSUME TypeOK, NEW p \in Proc, Step(p), NEW o \in Order, o # OrderOf(p)
  PROVE  held'[o] = held[o] /\ hold'[o] = hold[o] /\ mirror'[o] = mirror[o]
<1>1. held'[o] = held[o]
  BY DEF Step, ReadStock, AcquireLock, CheckAvailable, CountHold, ReleaseLock, WriteKey,
      WriteMirror, SyncQty, SyncPending, SyncStatus, LoadReservation, ClaimMirror, TakeStock,
      TakeStatus, DecrPending, DropPending, DeleteKey, ResolveMirror, PutBack, history, TypeOK
<1>2. hold'[o] = hold[o]
  BY DEF Step, ReadStock, AcquireLock, CheckAvailable, CountHold, ReleaseLock, WriteKey,
      WriteMirror, SyncQty, SyncPending, SyncStatus, LoadReservation, ClaimMirror, TakeStock,
      TakeStatus, DecrPending, DropPending, DeleteKey, ResolveMirror, PutBack, stores, TypeOK
<1>3. mirror'[o] = mirror[o]
  BY DEF Step, ReadStock, AcquireLock, CheckAvailable, CountHold, ReleaseLock, WriteKey,
      WriteMirror, SyncQty, SyncPending, SyncStatus, LoadReservation, ClaimMirror, TakeStock,
      TakeStatus, DecrPending, DropPending, DeleteKey, ResolveMirror, PutBack, stores, TypeOK
<1>4. QED
  BY <1>1, <1>2, <1>3

(* Ranges of lines, as the loops walk them. *)
LEMMA Ranges ==
  ASSUME NEW i \in Nat, NEW last \in Nat, 1 <= i, i <= last
  PROVE  /\ (1 .. i - 1) \cup {i} = 1 .. i
         /\ 1 .. (i + 1) - 1 = 1 .. i
         /\ (i .. last) \ {i} = i + 1 .. last
         /\ ~(i < last) => i + 1 .. last = {} /\ i = last
         /\ i - 1 = 0 => 1 .. i - 1 = {}
         /\ i \in i .. last
<1>1. (1 .. i - 1) \cup {i} = 1 .. i
  OBVIOUS
<1>2. 1 .. (i + 1) - 1 = 1 .. i
  OBVIOUS
<1>3. (i .. last) \ {i} = i + 1 .. last
  OBVIOUS
<1>4. QED
  BY <1>1, <1>2, <1>3

LEMMA HoldStep ==
  ASSUME TypeOK, PlaceOK, TasksPlaced, NEW p \in Proc, Step(p), NEW o \in Order,
         OrderOf(p) = o, HoldFits(task[p], o)
  PROVE  HoldFits(task[p], o)'
<1> USE DEF At, SyncSteps, Counting, ReserveSteps
<1>0. Placing(task[p]) /\ task[p].op \in Ops /\ task[p].mirrored \in BOOLEAN
  BY TaskRecords DEF TasksPlaced, Task
<1>1. ASSUME task[p].pc \in LineSteps
      PROVE  /\ task[p].i \in Nat /\ task[p].last \in Nat /\ 1 <= task[p].i /\ task[p].i <= task[p].last
             /\ task[p].i <= Len(Lines[o]) /\ task[p].last <= Len(Lines[o]) /\ Len(Lines[o]) \in Nat
  BY <1>1, LineOfTask
<1>2. ASSUME UNCHANGED <<held, hold, mirror>>, task'[p].op = task[p].op,
             task'[p].mirrored = task[p].mirrored,
             task[p].pc = task'[p].pc, task'[p].i = task[p].i, task'[p].last = task[p].last
      PROVE  HoldFits(task[p], o)'
  BY <1>2 DEF HoldFits, Full, OnRecord, OffRecord
<1>3. CASE ReadStock(p) \/ SyncQty(p) \/ SyncPending(p)
  <2>1. UNCHANGED <<held, hold, mirror>>
    BY <1>3 DEF ReadStock, SyncQty, SyncPending, stores, history
  <2>2. CASE ReadStock(p)
    <3>1. Turns(p, "lock", task[p].i)
      BY <2>2, ReadTurns DEF ReadStock
    <3>2. QED
      BY <1>0, <2>1, <2>2, <3>1 DEF ReadStock, Turns, KeepsOp, HoldFits, Full, OnRecord, OffRecord, Placing
  <2>3. CASE SyncQty(p)
    <3>1. Turns(p, "syncPending", task[p].i)
      BY <2>3, ReadTurns DEF SyncQty
    <3>2. QED
      BY <1>0, <2>1, <2>3, <3>1 DEF SyncQty, Turns, KeepsOp, HoldFits, Full, OnRecord, OffRecord, Placing
  <2>4. CASE SyncPending(p)
    <3>1. task' = [task EXCEPT ![p].pc = "syncStatus", ![p].view = task[p].view - pending[RowOf(p)]]
      BY <2>4, TaskRecords DEF SyncPending
    <3>2. Turns(p, "syncStatus", task[p].i)
      BY <3>1, ReadTurns
    <3>3. QED
      BY <1>0, <2>1, <2>4, <3>2 DEF SyncPending, Turns, KeepsOp, HoldFits, Full, OnRecord, OffRecord, Placing
  <2>5. QED
    BY <1>3, <2>2, <2>3, <2>4
<1>4. ASSUME UNCHANGED <<held, hold, mirror>>, task[p].op = "reserve",
             task[p].pc \in {"lock", "refuse"}, Undo(p, task[p].i - 1)
      PROVE  HoldFits(task[p], o)'
  <2>1. task[p].i \in Nat /\ task[p].last \in Nat /\ 1 <= task[p].i
    BY <1>1, <1>4 DEF LineSteps
  <2>2. held'[o] = 1 .. task[p].i - 1 /\ ~hold'[o] /\ mirror'[o] = "none"
    BY <1>4 DEF HoldFits
  <2>3. /\ task'[p].op = "undo" /\ task'[p].i = 1 /\ task'[p].last = task[p].i - 1
        /\ task'[p].pc = IF task[p].i - 1 = 0 THEN "delKey" ELSE "decr"
    BY <1>4, UndoTurns
  <2>4. task'[p].pc = "delKey" => held'[o] = {}
    BY <2>1, <2>2, <2>3
  <2>5. QED
    BY <2>2, <2>3, <2>4 DEF HoldFits, OffRecord, OnRecord
<1>5. CASE AcquireLock(p)
  <2>1. UNCHANGED <<held, hold, mirror>> /\ task[p].op = "reserve" /\ task[p].pc = "lock"
    BY <1>0, <1>5 DEF AcquireLock, history, Placing, Ops
  <2>2. CASE Goto(p, "check")
    <3>1. Turns(p, "check", task[p].i)
      BY <2>2, GotoTurns
    <3>2. QED
      BY <2>1, <3>1 DEF Turns, KeepsOp, HoldFits, Full, OnRecord, OffRecord
  <2>3. QED
    BY <1>4, <1>5, <2>1, <2>2 DEF AcquireLock
<1>6. CASE CheckAvailable(p)
  <2>1. UNCHANGED <<held, hold, mirror>> /\ task[p].op = "reserve" /\ task[p].pc = "check"
    BY <1>0, <1>6 DEF CheckAvailable, stores, history, Placing, Ops
  <2>2. \E pc \in {"refuse", "count"} : Turns(p, pc, task[p].i)
    BY <1>6, GotoTurns DEF CheckAvailable
  <2>3. QED
    BY <2>1, <2>2 DEF Turns, KeepsOp, HoldFits, Full, OnRecord, OffRecord
<1>7. CASE CountHold(p)
  <2>1. UNCHANGED <<hold, mirror>> /\ task[p].op = "reserve" /\ task[p].pc = "count"
    BY <1>0, <1>7 DEF CountHold, Placing, Ops
  <2>2. Turns(p, "syncQty", task[p].i)
    BY <1>7, GotoTurns DEF CountHold
  <2>3. held'[o] = (1 .. task[p].i - 1) \cup {task[p].i}
    BY <1>7, <2>1 DEF CountHold, TypeOK, HoldFits
  <2>4. held'[o] = 1 .. task[p].i
    BY <1>1, <2>1, <2>3, Ranges DEF LineSteps
  <2>5. QED
    BY <2>1, <2>2, <2>4 DEF Turns, KeepsOp, HoldFits, Full, OnRecord, OffRecord
<1>8. CASE ReleaseLock(p)
  <2>1. UNCHANGED <<held, hold, mirror>> /\ task[p].op = "reserve" /\ task[p].pc \in {"unlock", "refuse"}
    BY <1>0, <1>8 DEF ReleaseLock, history, Placing, Ops
  <2>2. CASE task[p].pc = "unlock" /\ NextLine(p, "stock", "key")
    <3>1. CASE Turns(p, "stock", task[p].i + 1)
      <4>1. held'[o] = 1 .. (task[p].i + 1) - 1
        BY <1>1, <2>1, <2>2, Ranges DEF LineSteps, HoldFits
      <4>2. QED
        BY <2>1, <2>2, <3>1, <4>1 DEF Turns, KeepsOp, HoldFits, Full, OnRecord, OffRecord
    <3>2. CASE ~(task[p].i < task[p].last) /\ Turns(p, "key", 1)
      <4>1. task[p].last = Len(Lines[o])
        BY <1>0, <2>1 DEF Placing, OrderOf
      <4>2. held'[o] = 1 .. Len(Lines[o])
        BY <1>1, <2>1, <2>2, <3>2, <4>1, Ranges DEF LineSteps, HoldFits
      <4>3. QED
        BY <2>1, <2>2, <3>2, <4>2 DEF Turns, KeepsOp, HoldFits, Full, OnRecord, OffRecord
    <3>3. QED
      BY <2>2, <3>1, <3>2, NextLineTurns
  <2>3. CASE task[p].pc = "refuse" /\ Undo(p, task[p].i - 1)
    BY <1>4, <2>1, <2>3
  <2>4. QED
    BY <1>8, <2>2, <2>3 DEF ReleaseLock
<1>9. CASE WriteKey(p) \/ WriteMirror(p)
  <2>1. UNCHANGED held /\ task[p].op = "reserve" /\ task[p].pc \in {"key", "mirror"} /\ Full(o)
    BY <1>0, <1>9 DEF WriteKey, WriteMirror, history, Placing, Ops, HoldFits
  <2>2. CASE WriteKey(p)
    <3>1. Turns(p, "mirror", task[p].i) /\ UNCHANGED mirror
      BY <2>2, GotoTurns DEF WriteKey
    <3>2. QED
      BY <2>1, <2>2, <3>1 DEF WriteKey, Turns, KeepsOp, HoldFits, Full, OnRecord, OffRecord
  <2>3. CASE WriteMirror(p)
    <3>1. Turns(p, "ok", task[p].i)
      BY <2>3, GotoTurns DEF WriteMirror
    <3>2. QED
      BY <2>1, <2>3, <3>1 DEF WriteMirror, Turns, KeepsOp, HoldFits, Full, OnRecord, OffRecord
  <2>4. QED
    BY <1>9, <2>2, <2>3
(* The loop that takes the lines back, on its way to the next one. *)
<1>10. ASSUME UNCHANGED <<hold, mirror>>, held'[o] = task[p].i + 1 .. task[p].last,
              task[p].pc \in {"decr", "drop", "syncStatus"},
              task[p].op \in {"undo", "commit", "release"}, NextLine(p, "decr", "delKey")
       PROVE  HoldFits(task[p], o)'
  <2>1. CASE Turns(p, "decr", task[p].i + 1)
    BY <1>10, <2>1 DEF Turns, KeepsOp, HoldFits, Full, OnRecord, OffRecord
  <2>2. CASE ~(task[p].i < task[p].last) /\ Turns(p, "delKey", 1)
    <3>1. held'[o] = {}
      BY <1>1, <1>10, <2>2, Ranges DEF LineSteps
    <3>2. QED
      BY <1>10, <2>2, <3>1 DEF Turns, KeepsOp, HoldFits, Full, OnRecord, OffRecord
  <2>3. QED
    BY <1>10, <2>1, <2>2, NextLineTurns
<1>11. CASE SyncStatus(p)
  <2>1. UNCHANGED <<held, hold, mirror>> /\ task[p].pc = "syncStatus"
    BY <1>11 DEF SyncStatus, history
  <2>2. CASE task[p].op = "reserve" /\ Goto(p, "unlock")
    <3>1. Turns(p, "unlock", task[p].i)
      BY <2>2, GotoTurns
    <3>2. QED
      BY <2>1, <2>2, <3>1 DEF Turns, KeepsOp, HoldFits, Full, OnRecord, OffRecord
  <2>3. CASE task[p].op # "reserve" /\ NextLine(p, "decr", "delKey")
    <3>1. task[p].op = "release"
      BY <1>0, <2>1, <2>3 DEF Placing, Ops
    <3>2. QED
      BY <1>10, <2>1, <2>3, <3>1 DEF HoldFits
  <2>4. QED
    BY <1>11, <2>2, <2>3 DEF SyncStatus
<1>12. CASE LoadReservation(p)
  <2>1. /\ UNCHANGED <<held, hold, mirror>> /\ task[p].op \in {"commit", "release"}
        /\ task[p].pc = "load" /\ task[p].i = 1 /\ task[p].last = Len(Lines[o])
    BY <1>0, <1>12 DEF LoadReservation, stores, history, Placing, Ops, OrderOf
  <2>2. CASE hold[o] /\ Turns(p, FirstStep(task[p].op), task[p].i)
    BY <2>1, <2>2 DEF FirstStep, Turns, KeepsOp, HoldFits, Full, OnRecord, OffRecord
  <2>3. CASE ~hold[o] /\ Turns(p, "claim", task[p].i)
    BY <2>1, <2>3 DEF Turns, KeepsOp, HoldFits, Full, OnRecord, OffRecord
  <2>4. QED
    BY <1>12, <2>2, <2>3, GotoTurns DEF LoadReservation
<1>13. CASE ClaimMirror(p)
  <2>1. /\ UNCHANGED <<held, hold>> /\ task[p].op \in {"commit", "release"}
        /\ task[p].pc = "claim" /\ task[p].i = 1 /\ task[p].last = Len(Lines[o]) /\ ~hold[o]
    BY <1>0, <1>13 DEF ClaimMirror, history, Placing, Ops, OrderOf, HoldFits
  <2>2. CASE mirror[o] # "reserved" /\ Goto(p, "ok") /\ UNCHANGED mirror
    <3>1. Turns(p, "ok", task[p].i)
      BY <2>2, GotoTurns
    <3>2. QED
      BY <2>1, <2>2, <3>1 DEF Turns, KeepsOp, HoldFits, Full, OnRecord, OffRecord
  <2>3. CASE /\ mirror[o] = "reserved"
             /\ mirror' = [mirror EXCEPT ![o] = Resolution(task[p].op)]
             /\ task' = [task EXCEPT ![p].pc = FirstStep(task[p].op), ![p].mirrored = TRUE]
    <3>1. /\ task'[p].op = task[p].op /\ task'[p].i = task[p].i /\ task'[p].last = task[p].last
          /\ task'[p].pc = FirstStep(task[p].op)
      BY <2>3, ClaimTurns
    <3>2. Full(o)
      BY <2>1, <2>3 DEF HoldFits, OnRecord
    <3>3. mirror'[o] \in Resolved
      BY <2>3 DEF TypeOK, Resolution, Resolved
    <3>4. QED
      BY <2>1, <3>1, <3>2, <3>3 DEF FirstStep, Resolved, HoldFits, Full, OnRecord, OffRecord
  <2>4. QED
    BY <1>13, <2>2, <2>3 DEF ClaimMirror
<1>14. CASE TakeStock(p) \/ TakeStatus(p)
  <2>1. UNCHANGED <<held, hold, mirror>> /\ task[p].op \in {"commit", "sell"} /\ task[p].pc \in {"take", "takeStatus"}
    BY <1>0, <1>14 DEF TakeStock, TakeStatus, history, Placing, Ops
  <2>2. CASE Goto(p, "raised")
    <3>1. Turns(p, "raised", task[p].i)
      BY <2>2, GotoTurns
    <3>2. QED
      BY <2>1, <3>1 DEF Turns, KeepsOp, HoldFits, Full, OnRecord, OffRecord
  <2>3. CASE task' = [task EXCEPT ![p].pc = "takeStatus", ![p].view = qty[RowOf(p)] - UnitsOf(p)]
    <3>1. Turns(p, "takeStatus", task[p].i)
      BY <2>3, ReadTurns
    <3>2. QED
      BY <2>1, <3>1 DEF Turns, KeepsOp, HoldFits, Full, OnRecord, OffRecord
  <2>4. CASE task[p].op = "commit" /\ NextLine(p, "take", "decr")
    <3>1. CASE Turns(p, "take", task[p].i + 1)
      BY <2>1, <2>4, <3>1 DEF Turns, KeepsOp, HoldFits, Full, OnRecord, OffRecord
    <3>2. CASE Turns(p, "decr", 1)
      <4>1. task[p].last = Len(Lines[o])
        BY <1>0, <2>1 DEF Placing, OrderOf
      <4>2. QED
        BY <2>1, <2>4, <3>2, <4>1 DEF Turns, KeepsOp, HoldFits, Full, OnRecord, OffRecord
    <3>3. QED
      BY <2>4, <3>1, <3>2, NextLineTurns
  <2>5. CASE task[p].op # "commit" /\ NextLine(p, "take", "ok")
    <3>1. \E pc, i : Turns(p, pc, i) /\ pc \in {"take", "ok"}
      BY <2>5, NextLineTurns
    <3>2. QED
      BY <2>1, <2>5, <3>1 DEF Turns, KeepsOp, HoldFits, Full, OnRecord, OffRecord
  <2>6. QED
    BY <1>14, <2>2, <2>3, <2>4, <2>5 DEF TakeStock, TakeStatus
<1>15. ASSUME UNCHANGED <<hold, mirror>>, held'[o] = task[p].i + 1 .. task[p].last,
              task[p].pc \in {"decr", "drop"},
              task[p].op \in {"undo", "commit", "release"}, AfterAdjust(p)
       PROVE  HoldFits(task[p], o)'
  <2>1. CASE task[p].op = "release" /\ Goto(p, "syncQty")
    <3>1. Turns(p, "syncQty", task[p].i)
      BY <2>1, GotoTurns
    <3>2. QED
      BY <1>15, <2>1, <3>1 DEF Turns, KeepsOp, HoldFits, Full, OnRecord, OffRecord
  <2>2. QED
    BY <1>10, <1>15, <2>1 DEF AfterAdjust
<1>16. CASE DecrPending(p)
  <2>1. /\ UNCHANGED <<hold, mirror>> /\ task[p].op \in {"undo", "commit", "release"}
        /\ task[p].pc = "decr"
    BY <1>0, <1>16 DEF DecrPending, Placing, Ops
  <2>2. held'[o] = (task[p].i .. task[p].last) \ {task[p].i}
    BY <1>16, <2>1 DEF DecrPending, TypeOK, HoldFits
  <2>3. held'[o] = task[p].i + 1 .. task[p].last
    BY <1>1, <2>1, <2>2, Ranges DEF LineSteps
  <2>4. CASE Goto(p, "drop")
    <3>1. Turns(p, "drop", task[p].i)
      BY <2>4, GotoTurns
    <3>2. QED
      BY <2>1, <2>3, <3>1 DEF Turns, KeepsOp, HoldFits, Full, OnRecord, OffRecord
  <2>5. QED
    BY <1>15, <1>16, <2>1, <2>3, <2>4 DEF DecrPending
<1>17. CASE DropPending(p)
  <2>1. /\ UNCHANGED <<held, hold, mirror>> /\ task[p].op \in {"undo", "commit", "release"}
        /\ task[p].pc = "drop" /\ AfterAdjust(p)
    BY <1>0, <1>17 DEF DropPending, history, Placing, Ops
  <2>2. QED
    BY <1>15, <2>1 DEF HoldFits
<1>18. CASE DeleteKey(p)
  <2>1. /\ UNCHANGED <<held, mirror>> /\ task[p].op \in {"undo", "commit", "release"}
        /\ task[p].pc = "delKey" /\ ~hold'[o]
    BY <1>0, <1>18 DEF DeleteKey, history, Placing, Ops, TypeOK
  <2>2. Turns(p, IF task[p].op = "undo" THEN "raised"
                 ELSE IF task[p].mirrored THEN "ok" ELSE "resolve", task[p].i)
    BY <1>18, GotoTurns DEF DeleteKey
  <2>3. CASE task[p].op = "undo"
    BY <2>1, <2>2, <2>3 DEF Turns, KeepsOp, HoldFits, Full, OnRecord, OffRecord
  <2>4. CASE task[p].op # "undo" /\ task[p].mirrored
    BY <2>1, <2>2, <2>4 DEF Turns, KeepsOp, HoldFits, Full, OnRecord, OffRecord
  <2>5. CASE task[p].op # "undo" /\ ~task[p].mirrored
    BY <2>1, <2>2, <2>5 DEF Turns, KeepsOp, HoldFits, Full, OnRecord, OffRecord
  <2>6. QED
    BY <2>3, <2>4, <2>5
<1>19. CASE ResolveMirror(p)
  <2>1. /\ UNCHANGED <<held, hold>> /\ task[p].op \in {"commit", "release"}
        /\ task[p].pc = "resolve" /\ ~hold[o]
    BY <1>0, <1>19 DEF ResolveMirror, history, Placing, Ops, HoldFits
  <2>2. Turns(p, "ok", task[p].i)
    BY <1>19, GotoTurns DEF ResolveMirror
  <2>3. mirror'[o] # "reserved"
    BY <1>19 DEF ResolveMirror, TypeOK, Resolution
  <2>4. QED
    BY <2>1, <2>2, <2>3 DEF Turns, KeepsOp, HoldFits, Full, OnRecord, OffRecord
<1>20. CASE PutBack(p)
  <2>1. UNCHANGED <<held, hold, mirror>> /\ task[p].op = "restock"
    BY <1>0, <1>20 DEF PutBack, history, Placing, Ops
  <2>2. \E pc, i : Turns(p, pc, i) /\ pc \in {"putBack", "ok"}
    BY <1>20, NextLineTurns DEF PutBack
  <2>3. QED
    BY <1>20, <2>1, <2>2 DEF PutBack, Turns, KeepsOp, HoldFits, Full, OnRecord, OffRecord
<1>21. QED
  BY <1>3, <1>5, <1>6, <1>7, <1>8, <1>9, <1>11, <1>12, <1>13, <1>14, <1>16, <1>17, <1>18, <1>19, <1>20
  DEF Step

(* A handler that stays where it is, while the key may expire. *)
LEMMA StillFits ==
  ASSUME NEW p \in Proc, NEW o \in Order, HoldFits(task[p], o), task'[p] = task[p],
         held'[o] = held[o], mirror'[o] = mirror[o], hold'[o] => hold[o]
  PROVE  HoldFits(task[p], o)'
BY DEF HoldFits, Full, OnRecord, OffRecord

(* One handler to an order at a time, and nothing fails or dies. *)
AloneAndSteady == ~Overlap /\ Faults \subseteq {"stall"}

LEMMA SoleInductive ==
  ASSUME TypeOK, PlaceOK, TasksPlaced, CountInv, SoleInv, [Next]_vars, AloneAndSteady
  PROVE  SoleInv'
<1>1. ASSUME NEW p \in Proc, Step(p)
      PROVE  SoleInv'
  <2>1. /\ OnlyMoves(p) /\ task[p].pc # "idle" /\ OrderOf(p) \in Order
        /\ \A q \in Proc : OrderOf(q)' = OrderOf(q)
    <3>1. OnlyMoves(p)
      BY <1>1, StepKeepsPlace DEF StepEffect
    <3>2. task[p].pc # "idle"
      BY <1>1 DEF Step, At, ReadStock, AcquireLock, CheckAvailable, CountHold, ReleaseLock,
        WriteKey, WriteMirror, SyncQty, SyncPending, SyncStatus, LoadReservation, ClaimMirror,
        TakeStock, TakeStatus, DecrPending, DropPending, DeleteKey, ResolveMirror, PutBack
    <3>3. QED
      BY <3>1, <3>2, OrderOfTask DEF OnlyMoves, OrderOf
  <2>2. \A o \in Order : o # OrderOf(p) => held'[o] = held[o] /\ hold'[o] = hold[o] /\ mirror'[o] = mirror[o]
    BY <1>1, OrderFrame
  <2>3. HoldFits(task[p], OrderOf(p))'
    <3>1. HoldFits(task[p], OrderOf(p))
      BY <2>1 DEF SoleInv
    <3>2. ASSUME NEW o \in Order, OrderOf(p) = o
          PROVE  HoldFits(task[p], o)'
      BY <1>1, <3>1, <3>2, HoldStep
    <3>3. QED
      BY <2>1, <3>2
  <2>4. ASSUME NEW q \in Proc, NEW o \in Order, OrderOf(q)' = o
        PROVE  HoldFits(task[q], o)'
    <3>1. CASE q = p
      BY <2>1, <2>3, <2>4, <3>1
    <3>2. CASE q # p
      <4>1. task'[q] = task[q] /\ OrderOf(q) = o
        BY <2>1, <2>4, <3>2 DEF OnlyMoves
      <4>2. o # OrderOf(p)
        BY <3>2, <4>1 DEF SoleInv
      <4>3. HoldFits(task[q], o)
        BY <4>1 DEF SoleInv
      <4>4. QED
        BY <2>2, <4>1, <4>2, <4>3, StillFits
    <3>3. QED
      BY <3>1, <3>2
  <2>5. ASSUME NEW q \in Proc, At(q, "idle")'
        PROVE  OrderOf(q)' = NoOrder
    <3>1. q # p
      <4>1. task'[p].pc # "idle"
        <5>1. TasksPlaced' /\ task'[p].op # "none"
          <6>1. task[p].op # "none"
            BY <2>1 DEF TasksPlaced, Placing
          <6>2. task'[p].op \in {task[p].op, "undo"}
            BY <1>1, StepKeepsPlace DEF StepEffect, KeepsOp, Undoes
          <6>3. QED
            BY <1>1, <6>1, <6>2, StepPlaced
        <5>2. task'[p].op \in Ops
          <6>1. TypeOK'
            BY <1>1, StepTyped
          <6>2. QED
            BY <6>1 DEF TypeOK, WellFormedTask, Task
        <5>3. QED
          BY <5>1, <5>2 DEF TasksPlaced, Placing, Ops, ReserveSteps, SyncSteps
      <4>2. QED
        BY <2>5, <4>1 DEF At
    <3>2. task'[q] = task[q]
      BY <2>1, <3>1 DEF OnlyMoves
    <3>3. QED
      BY <2>1, <2>5, <3>2 DEF At, SoleInv
  <2>6. ASSUME NEW o \in Order, ~Busy(o)'
        PROVE  (OnRecord(o) => Full(o))'
    <3>1. ~Busy(o) /\ o # OrderOf(p)
      BY <2>1, <2>6 DEF Busy
    <3>2. QED
      BY <2>2, <3>1 DEF SoleInv, OnRecord, Full
  <2>7. ASSUME NEW o \in Order, checkout'[o] = "new"
        PROVE  (OffRecord(o) /\ held[o] = {})'
    <3>1. checkout[o] = "new"
      BY <2>7, NewWasNew
    <3>2. OffRecord(o) /\ held[o] = {}
      BY <3>1 DEF SoleInv
    <3>3. ASSUME OrderOf(p) = o, CountHold(p) \/ WriteKey(p) \/ WriteMirror(p)
          PROVE  FALSE
      <4>1. Reserves(p, o)
        BY <3>3 DEF CountHold, WriteKey, WriteMirror, At, Reserves, PlaceOK, ReserveSteps
      <4>2. QED
        BY <3>1, <4>1 DEF CountInv
    <3>4. CASE OrderOf(p) = o
      <4>1. held'[o] \subseteq held[o]
        <5>1. CASE DecrPending(p)
          <6>1. held' = [held EXCEPT ![OrderOf(p)] = @ \ {task[p].i}]
            BY <5>1 DEF DecrPending
          <6>2. QED
            BY <3>4, <6>1 DEF TypeOK
        <5>2. CASE ~DecrPending(p)
          <6>1. UNCHANGED held
            BY <1>1, <3>3, <3>4, <5>2
            DEF Step, ReadStock, AcquireLock, CheckAvailable, ReleaseLock, WriteKey,
              WriteMirror, SyncQty, SyncPending, SyncStatus, LoadReservation, ClaimMirror,
              TakeStock, TakeStatus, DropPending, DeleteKey, ResolveMirror, PutBack, history
          <6>2. QED
            BY <6>1
        <5>3. QED
          BY <5>1, <5>2
      <4>2. hold'[o] => hold[o]
        <5>1. CASE DeleteKey(p)
          BY <3>4, <5>1 DEF DeleteKey, TypeOK
        <5>2. CASE ~DeleteKey(p)
          BY <1>1, <3>3, <3>4, <5>2
          DEF Step, ReadStock, AcquireLock, CheckAvailable, CountHold, ReleaseLock,
              WriteMirror, SyncQty, SyncPending, SyncStatus, LoadReservation, ClaimMirror,
              TakeStock, TakeStatus, DecrPending, DropPending, ResolveMirror, PutBack, stores
        <5>3. QED
          BY <5>1, <5>2
      <4>3. mirror'[o] = mirror[o]
        <5>1. ASSUME NEW q \in Proc, OrderOf(q) = o
              PROVE  q = p
          BY <3>4, <5>1 DEF SoleInv
        <5>2. ~\E q \in Proc : OrderOf(q) = o /\ WriteMirror(q)
          BY <3>3, <3>4, <5>1
        <5>3. mirror[o] = "none"
          BY <3>2 DEF OffRecord
        <5>4. QED
          BY <5>2, <5>3, MirrorWrites
      <4>4. QED
        BY <3>2, <4>1, <4>2, <4>3 DEF OffRecord
    <3>5. CASE OrderOf(p) # o
      BY <2>2, <3>2, <3>5 DEF OffRecord
    <3>6. QED
      BY <3>4, <3>5
  <2>8. QED
    BY <2>1, <2>4, <2>5, <2>6, <2>7 DEF SoleInv
(* A handler that ends, and one that starts. *)
<1>2. ASSUME NEW p \in Proc, Return(p)
      PROVE  SoleInv'
  <2>1. /\ task'[p] = Idle /\ \A q \in Proc \ {p} : task'[q] = task[q]
        /\ OrderOf(p) \in Order /\ task[p].pc \in {"ok", "raised"}
        /\ UNCHANGED <<held, hold, mirror>>
    BY <1>2, TaskRecords, OrderOfTask DEF Return, Ended, stores, history
  <2>2. OrderOf(p)' = NoOrder /\ \A q \in Proc \ {p} : OrderOf(q)' = OrderOf(q)
    BY <2>1 DEF OrderOf, Idle
  <2>3. ASSUME NEW q \in Proc, NEW o \in Order, OrderOf(q)' = o
        PROVE  HoldFits(task[q], o)'
    <3>1. q # p
      BY <2>2, <2>3
    <3>2. HoldFits(task[q], o) /\ task'[q] = task[q]
      BY <2>1, <2>2, <2>3, <3>1 DEF SoleInv
    <3>3. QED
      BY <2>1, <3>2, StillFits
  <2>4. ASSUME NEW o \in Order, ~Busy(o)'
        PROVE  (OnRecord(o) => Full(o))'
    <3>1. CASE o = OrderOf(p)
      <4>1. HoldFits(task[p], o)
        BY <3>1 DEF SoleInv
      <4>2. QED
        BY <2>1, <4>1 DEF HoldFits, OnRecord, Full
    <3>2. CASE o # OrderOf(p)
      <4>1. ~Busy(o)
        BY <2>2, <2>4, <3>2 DEF Busy
      <4>2. QED
        BY <2>1, <4>1 DEF SoleInv, OnRecord, Full
    <3>3. QED
      BY <3>1, <3>2
  <2>5. ASSUME NEW o \in Order, checkout'[o] = "new"
        PROVE  (OffRecord(o) /\ held[o] = {})'
    BY <2>1, <2>5, NewWasNew DEF SoleInv, OffRecord
  <2>6. ASSUME NEW q \in Proc, At(q, "idle")'
        PROVE  OrderOf(q)' = NoOrder
    <3>1. CASE q = p
      BY <2>2, <3>1
    <3>2. CASE q # p
      BY <2>1, <2>2, <2>6, <3>2 DEF At, SoleInv
    <3>3. QED
      BY <3>1, <3>2
  <2>7. ASSUME NEW a \in Proc, NEW b \in Proc, OrderOf(a)' = OrderOf(b)', OrderOf(a)' \in Order
        PROVE  a = b
    <3>1. a # p /\ b # p
      BY <2>2, <2>7
    <3>2. QED
      BY <2>2, <2>7, <3>1 DEF SoleInv
  <2>8. QED
    BY <2>3, <2>4, <2>5, <2>6, <2>7 DEF SoleInv
<1>3. ASSUME NEW p \in Proc, NEW o \in Order, NEW op, NEW pc, At(p, "idle"), Overlap \/ ~Busy(o),
             task' = [task EXCEPT ![p] = Started(op, o, pc)],
             UNCHANGED <<held, hold, mirror>>, checkout'[o] # "new",
             \/ op = "reserve" /\ pc = "stock" /\ checkout[o] = "new"
             \/ op \in {"commit", "release"} /\ pc = "load"
             \/ op = "sell" /\ pc = "take"
             \/ op = "restock" /\ pc = "putBack"
      PROVE  SoleInv'
  <2>1. /\ task'[p] = Started(op, o, pc) /\ \A q \in Proc \ {p} : task'[q] = task[q]
        /\ ~Busy(o)
    BY <1>3, TaskRecords DEF AloneAndSteady
  <2>2. /\ OrderOf(p)' = o /\ task'[p].pc = pc /\ pc # "idle"
        /\ \A q \in Proc \ {p} : OrderOf(q)' = OrderOf(q) /\ OrderOf(q) # o
    BY <1>3, <2>1 DEF OrderOf, Started, Busy
  <2>3. HoldFits(task[p], o)'
    <3>1. OnRecord(o) => Full(o)
      BY <2>1 DEF SoleInv
    <3>2. op = "reserve" => OffRecord(o) /\ held[o] = {}
      BY <1>3 DEF SoleInv
    <3>3. 1 .. 1 - 1 = {}
      OBVIOUS
    <3>4. /\ task'[p].op = op /\ task'[p].pc = pc /\ task'[p].i = 1 /\ task'[p].mirrored = FALSE
      BY <2>1 DEF Started
    <3>5. CASE op = "reserve"
      BY <1>3, <3>2, <3>3, <3>4, <3>5 DEF HoldFits, OnRecord, OffRecord, Full, SyncSteps, Counting
    <3>6. CASE op # "reserve"
      BY <1>3, <3>1, <3>4, <3>6 DEF HoldFits, OnRecord, OffRecord, Full, SyncSteps, Counting
    <3>7. QED
      BY <3>5, <3>6
  <2>4. ASSUME NEW q \in Proc, NEW a \in Order, OrderOf(q)' = a
        PROVE  HoldFits(task[q], a)'
    <3>1. CASE q = p
      BY <2>2, <2>3, <2>4, <3>1
    <3>2. CASE q # p
      <4>1. HoldFits(task[q], a) /\ task'[q] = task[q]
        BY <2>1, <2>2, <2>4, <3>2 DEF SoleInv
      <4>2. QED
        BY <1>3, <4>1, StillFits
    <3>3. QED
      BY <3>1, <3>2
  <2>5. ASSUME NEW a \in Order, ~Busy(a)'
        PROVE  (OnRecord(a) => Full(a))'
    <3>1. OrderOf(p) = NoOrder
      BY <1>3 DEF SoleInv
    <3>2. ~Busy(a)
      BY <2>2, <2>5, <3>1 DEF Busy
    <3>3. QED
      BY <1>3, <3>2 DEF SoleInv, OnRecord, Full
  <2>6. ASSUME NEW a \in Order, checkout'[a] = "new"
        PROVE  (OffRecord(a) /\ held[a] = {})'
    BY <1>3, <2>6, NewWasNew DEF SoleInv, OffRecord
  <2>7. ASSUME NEW q \in Proc, At(q, "idle")'
        PROVE  OrderOf(q)' = NoOrder
    <3>1. q # p
      BY <2>2, <2>7 DEF At
    <3>2. QED
      BY <2>1, <2>2, <2>7, <3>1 DEF At, SoleInv
  <2>8. ASSUME NEW a \in Proc, NEW b \in Proc, OrderOf(a)' = OrderOf(b)', OrderOf(a)' \in Order
        PROVE  a = b
    <3>1. CASE a # p /\ b # p
      BY <2>2, <2>8, <3>1 DEF SoleInv
    <3>2. CASE a = p \/ b = p
      BY <2>2, <2>8, <3>2
    <3>3. QED
      BY <3>1, <3>2
  <2>9. QED
    BY <2>4, <2>5, <2>6, <2>7, <2>8 DEF SoleInv
<1>4. ASSUME NEW p \in Proc, Caller(p)
      PROVE  SoleInv'
  <2>1. \E o \in Order : \E op, pc :
          /\ At(p, "idle") /\ (Overlap \/ ~Busy(o))
          /\ task' = [task EXCEPT ![p] = Started(op, o, pc)]
          /\ UNCHANGED <<held, hold, mirror>>
          /\ checkout'[o] # "new"
          /\ \/ op = "reserve" /\ pc = "stock" /\ checkout[o] = "new"
             \/ op \in {"commit", "release"} /\ pc = "load"
             \/ op = "sell" /\ pc = "take"
             \/ op = "restock" /\ pc = "putBack"
    <3>1. PICK o \in Order : \/ CallReserve(p, o) \/ CallCommit(p, o) \/ CallRelease(p, o)
                             \/ Sweep(p, o) \/ CallSell(p, o) \/ CallRestock(p, o)
      BY <1>4 DEF Caller
    <3>2. UNCHANGED <<held, hold, mirror>> /\ At(p, "idle") /\ (Overlap \/ ~Busy(o))
      BY <3>1 DEF CallReserve, CallCommit, CallRelease, Sweep, CallSell, CallRestock, Call,
                  stores, history
    <3>3. checkout'[o] # "new"
      <4>1. CASE Sweep(p, o)
        <5>1. checkout[o] # "new" /\ UNCHANGED checkout
          BY <4>1 DEF Sweep, SoleInv, OffRecord
        <5>2. QED
          BY <5>1
      <4>2. CASE ~Sweep(p, o)
        BY <3>1, <4>2 DEF CallReserve, CallCommit, CallRelease, CallSell, CallRestock, TypeOK
      <4>3. QED
        BY <4>1, <4>2
    <3>4. \E op, pc :
             /\ task' = [task EXCEPT ![p] = Started(op, o, pc)]
             /\ \/ op = "reserve" /\ pc = "stock" /\ checkout[o] = "new"
                \/ op \in {"commit", "release"} /\ pc = "load"
                \/ op = "sell" /\ pc = "take"
                \/ op = "restock" /\ pc = "putBack"
      BY <3>1 DEF CallReserve, CallCommit, CallRelease, Sweep, CallSell, CallRestock, Call
    <3>5. QED
      BY <3>2, <3>3, <3>4
  <2>2. PICK o \in Order : \E op, pc :
          /\ At(p, "idle") /\ (Overlap \/ ~Busy(o))
          /\ task' = [task EXCEPT ![p] = Started(op, o, pc)]
          /\ UNCHANGED <<held, hold, mirror>>
          /\ checkout'[o] # "new"
          /\ \/ op = "reserve" /\ pc = "stock" /\ checkout[o] = "new"
             \/ op \in {"commit", "release"} /\ pc = "load"
             \/ op = "sell" /\ pc = "take"
             \/ op = "restock" /\ pc = "putBack"
    BY <2>1
  <2>3. PICK op, pc :
          /\ At(p, "idle") /\ (Overlap \/ ~Busy(o))
          /\ task' = [task EXCEPT ![p] = Started(op, o, pc)]
          /\ UNCHANGED <<held, hold, mirror>>
          /\ checkout'[o] # "new"
          /\ \/ op = "reserve" /\ pc = "stock" /\ checkout[o] = "new"
             \/ op \in {"commit", "release"} /\ pc = "load"
             \/ op = "sell" /\ pc = "take"
             \/ op = "restock" /\ pc = "putBack"
    BY <2>2
  <2>4. QED
    BY <1>3, <2>3
(* Time passes. *)
<1>5. ASSUME UNCHANGED <<task, held, mirror, checkout>>, \A o \in Order : hold'[o] => hold[o]
      PROVE  SoleInv'
  <2>1. ASSUME NEW p \in Proc, NEW o \in Order, OrderOf(p)' = o
        PROVE  HoldFits(task[p], o)'
    <3>1. HoldFits(task[p], o) /\ task'[p] = task[p]
      BY <1>5, <2>1 DEF SoleInv, OrderOf
    <3>2. QED
      BY <1>5, <3>1, StillFits
  <2>2. \A o \in Order : ~Busy(o)' => (OnRecord(o) => Full(o))'
    BY <1>5 DEF SoleInv, Busy, OrderOf, OnRecord, Full
  <2>3. \A o \in Order : checkout'[o] = "new" => (OffRecord(o) /\ held[o] = {})'
    BY <1>5 DEF SoleInv, OffRecord
  <2>4. QED
    BY <1>5, <2>1, <2>2, <2>3 DEF SoleInv, OrderOf, At
<1>6. ASSUME NEW o \in Order, Tick(o)
      PROVE  SoleInv'
  <2>1. UNCHANGED <<task, held, mirror, checkout>>
    BY <1>6 DEF Tick, env, history
  <2>2. \A a \in Order : hold'[a] => hold[a]
    BY <1>6 DEF Tick, TypeOK
  <2>3. QED
    BY <1>5, <2>1, <2>2
<1>7. CASE UNCHANGED <<task, held, mirror, checkout, hold>>
  BY <1>5, <1>7
<1>8. ~\E p \in Proc : Crash(p) \/ StoreFails(p)
  BY DEF Crash, StoreFails, AloneAndSteady
<1>9. QED
  BY <1>1, <1>2, <1>4, <1>6, <1>7, <1>8 DEF Next, LockExpires, vars, stores, env, history

(* With one handler to an order and no failures, every decrement takes back *)
(* a line that is held, for any carts and any number of calls: committing,  *)
(* releasing and sweeping an order again finds nothing left to take.        *)
THEOREM HoldsTakenBackOnce ==
  ASSUME AloneAndSteady
  PROVE  Spec => HoldTakenBackOnce
<1>1. Init => SoleInv
  BY DEF Init, SoleInv, Idle, OrderOf, At, Busy, OnRecord, OffRecord, HoldFits, Full
<1>2. TypeOK /\ PlaceOK /\ TasksPlaced /\ CountInv /\ SoleInv /\ [Next]_vars => SoleInv'
  BY SoleInductive
<1>3. TypeOK /\ TasksPlaced /\ SoleInv /\ [Next]_vars =>
        [\A p \in Proc : DecrPending(p) => task[p].i \in held[OrderOf(p)]]_vars
  <2>1. ASSUME TypeOK, TasksPlaced, SoleInv, NEW p \in Proc, DecrPending(p)
        PROVE  task[p].i \in held[OrderOf(p)]
    <3>1. /\ OrderOf(p) \in Order /\ task[p].i \in Nat /\ task[p].last \in Nat
          /\ task[p].i \in 1 .. task[p].last
      BY <2>1, LineOfTask, TaskRecords DEF DecrPending, At, LineSteps, Task
    <3>2. task[p].pc = "decr" /\ task[p].op \in {"undo", "commit", "release"}
      BY <2>1, TaskRecords
      DEF DecrPending, At, TasksPlaced, Placing, Task, Ops, ReserveSteps, SyncSteps
    <3>3. held[OrderOf(p)] = task[p].i .. task[p].last
      BY <2>1, <3>1, <3>2 DEF SoleInv, HoldFits
    <3>4. QED
      BY <3>1, <3>3
  <2>2. QED
    BY <2>1
<1>4. CountInv /\ TypeOK /\ PlaceOK /\ TasksPlaced /\ [Next]_vars => CountInv'
  BY CountInductive
<1>5. Init => CountInv
  BY DEF Init, CountInv, Reserves, Idle
<1>6. QED
  BY <1>1, <1>2, <1>3, <1>4, <1>5, TypeCorrect, PlaceCorrect, PlacedCorrect, PTL
  DEF Spec, HoldTakenBackOnce
=============================================================================
