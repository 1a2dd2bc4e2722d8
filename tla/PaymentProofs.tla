---------------------------- MODULE PaymentProofs ----------------------------
(***************************************************************************)
(* Proofs about PaymentReconciliation, for any number of checkouts, any    *)
(* page size and any faults.                                               *)
(***************************************************************************)
EXTENDS PaymentReconciliation, TLAPS

HasRow(o) == attemptStatus[o] # "none"

(* Every variable is in its type, and a row has one place. *)
RecTyped ==
  /\ attempts \in Seq(Checkout) /\ IsInjective(attempts)
  /\ attemptStatus \in [Checkout -> {"none", "pending", "resolved", "abandoned"}]
  /\ payment \in [Checkout -> {"none", "recent", "past"}]
  /\ webhook \in [Checkout -> {"due", "working", "over"}]
  /\ run \in Run
  /\ orphans \subseteq Checkout
  /\ recFaults \in 0 .. MaxRecFaults

(* A payment, an order and an age follow the attempt's row, the row has    *)
(* its place in the collection, and a webhook at work has saved its order. *)
RowsInOrder ==
  /\ ToSet(attempts) = {o \in Checkout : HasRow(o)}
  /\ \A o \in Checkout : Paid(o) => HasRow(o)
  /\ \A o \in saved \cup old : o \in Checkout /\ HasRow(o)
  /\ \A o \in Checkout : webhook[o] = "working" => o \in saved

(* What a run remembers of payments and ages was so when it looked, it     *)
(* works on what it listed, and decides about the old alone.               *)
RunInOrder ==
  /\ \A o \in run.window : Paid(o)
  /\ run.aged \subseteq old
  /\ \A o \in run.listed : HasRow(o)
  /\ run.todo \cup run.missed \cup run.aged \subseteq run.listed
  /\ run.phase = "decide" => \A o \in run.todo : Visits(o) => o \in run.aged

RecInv == RecTyped /\ RowsInOrder /\ RunInOrder

-----------------------------------------------------------------------------
(* The order of the rows *)

(* A new row comes after the others, which stay in their order. *)
LEMMA RowAppended ==
  ASSUME NEW S, NEW s \in Seq(S), NEW x \in S, x \notin ToSet(s), IsInjective(s)
  PROVE  /\ Append(s, x) \in Seq(S) /\ ToSet(Append(s, x)) = ToSet(s) \cup {x}
         /\ IsInjective(Append(s, x))
<1>1. /\ DOMAIN Append(s, x) = DOMAIN s \cup {Len(s) + 1} /\ Len(s) + 1 \notin DOMAIN s
      /\ Append(s, x)[Len(s) + 1] = x /\ \A i \in DOMAIN s : Append(s, x)[i] = s[i]
  OBVIOUS
<1>2. Append(s, x) \in Seq(S)
  OBVIOUS
<1>3. \A i \in DOMAIN s : s[i] # x
  BY DEF ToSet
<1>4. \A i, j \in DOMAIN Append(s, x) : Append(s, x)[i] = Append(s, x)[j] => i = j
  BY <1>1, <1>3 DEF IsInjective
<1>5. ToSet(Append(s, x)) = ToSet(s) \cup {x}
  BY <1>1 DEF ToSet
<1>6. QED
  BY <1>2, <1>4, <1>5 DEF IsInjective

(* One attempt at a time is visited. *)
LEMMA OneVisited ==
  ASSUME RecTyped, NEW o, NEW other, Visits(o), Visits(other)
  PROVE  o = other
<1> SUFFICES ASSUME o # other PROVE FALSE
  OBVIOUS
<1>1. Earlier(o, other) /\ Earlier(other, o)
  BY DEF Visits
<1>2. PICK i, j \in DOMAIN attempts : i < j /\ attempts[i] = o /\ attempts[j] = other
  BY <1>1 DEF Earlier
<1>3. PICK k, l \in DOMAIN attempts : k < l /\ attempts[k] = other /\ attempts[l] = o
  BY <1>1 DEF Earlier
<1>4. k = j /\ l = i
  BY <1>2, <1>3 DEF RecTyped, IsInjective
<1>5. DOMAIN attempts \subseteq Nat
  BY DEF RecTyped
<1>6. QED
  BY <1>2, <1>3, <1>4, <1>5

(* A new row is not earlier than those a run has listed. *)
LEMMA VisitsStay ==
  ASSUME RecInv, NEW x \in Checkout, ~HasRow(x), attempts' = Append(attempts, x), run' = run, NEW o, Visits(o)'
  PROVE  Visits(o)
<1>1. o \in run.todo /\ \A other \in run.todo \ {o} : Earlier(o, other)'
  BY DEF Visits
<1>2. run.todo \subseteq ToSet(attempts) /\ x \notin ToSet(attempts)
  BY DEF RecInv, RecTyped, RowsInOrder, RunInOrder, Run
<1>3. /\ DOMAIN attempts' = DOMAIN attempts \cup {Len(attempts) + 1}
      /\ attempts'[Len(attempts) + 1] = x /\ \A i \in DOMAIN attempts : attempts'[i] = attempts[i]
  BY DEF RecInv, RecTyped
<1>4. ASSUME NEW other \in run.todo \ {o} PROVE Earlier(o, other)
  <2>1. PICK i, j \in DOMAIN attempts' : i < j /\ attempts'[i] = o /\ attempts'[j] = other
    BY <1>1, <1>4 DEF Earlier
  <2>2. i \in DOMAIN attempts /\ j \in DOMAIN attempts
    BY <1>1, <1>2, <1>3, <1>4, <2>1
  <2>3. QED
    BY <1>3, <2>1, <2>2 DEF Earlier
<1>5. QED
  BY <1>1, <1>4 DEF Visits

-----------------------------------------------------------------------------
(* The checkout and the webhook *)

LEMMA RecInvInit == RecInit => RecInv
<1> SUFFICES ASSUME RecInit PROVE RecInv
  OBVIOUS
<1>1. attempts \in Seq(Checkout) /\ IsInjective(attempts) /\ ToSet(attempts) = {}
  BY DEF RecInit, IsInjective, ToSet
<1>2. Resting \in Run
  BY DEF Resting, Run
<1>3. RecTyped
  BY <1>1, <1>2, ReconciliationAssumption DEF RecInit, RecTyped
<1>4. QED
  BY <1>1, <1>3 DEF RecInit, RecInv, RowsInOrder, RunInOrder, HasRow, Paid, Resting

(* The variables of the rows, when a run or nobody moves. *)
LEMMA RowsAside ==
  ASSUME RecInv, UNCHANGED <<gateway, rows>>
  PROVE  RowsInOrder' /\ ((run \in Run)' /\ (orphans \subseteq Checkout)' /\ (recFaults \in 0 .. MaxRecFaults)' => RecTyped')
BY DEF RecInv, RecTyped, RowsInOrder, HasRow, Paid, gateway, rows

(* A run that does not move keeps what it remembers, while payments and    *)
(* rows come and none goes.                                                *)
LEMMA RunAside ==
  ASSUME RecInv, UNCHANGED <<run, attempts>>,
         \A o \in Checkout : (HasRow(o) => HasRow(o)') /\ (Paid(o) => Paid(o)'), old \subseteq old'
  PROVE  RunInOrder'
BY DEF RecInv, RecTyped, RunInOrder, Run, Visits, Earlier

LEMMA RecordAttemptKept ==
  ASSUME RecInv, NEW o \in Checkout, RecordAttempt(o)
  PROVE  RecInv'
<1>1. /\ attempts' = Append(attempts, o) /\ attemptStatus' = [attemptStatus EXCEPT ![o] = "pending"]
      /\ UNCHANGED <<payment, webhook, old, saved, run, orphans, recFaults>> /\ ~HasRow(o)
  BY DEF RecordAttempt, gateway, HasRow
<1>2. /\ attempts' \in Seq(Checkout) /\ ToSet(attempts') = ToSet(attempts) \cup {o} /\ IsInjective(attempts')
  BY <1>1, RowAppended DEF RecInv, RecTyped, RowsInOrder
<1>3. \A q \in Checkout : HasRow(q)' <=> (HasRow(q) \/ q = o)
  BY <1>1 DEF RecInv, RecTyped, HasRow
<1>4. RecTyped'
  BY <1>1, <1>2 DEF RecInv, RecTyped
<1>5. RowsInOrder'
  BY <1>1, <1>2, <1>3 DEF RecInv, RowsInOrder, Paid
<1>6. RunInOrder'
  <2>1. \A q : Visits(q)' => Visits(q)
    BY <1>1, VisitsStay
  <2>2. QED
    BY <1>1, <1>3, <2>1 DEF RecInv, RecTyped, RunInOrder, Run, Paid
<1>7. QED
  BY <1>4, <1>5, <1>6 DEF RecInv

(* Steps of a customer, of time and of a webhook: attempts stay. *)
LEMMA CustomerKept ==
  ASSUME RecInv, NEW o \in Checkout, Pay(o) \/ Age(o) \/ WebhookSaves(o) \/ WebhookResolves(o)
  PROVE  RecInv'
<1>1. UNCHANGED <<run, attempts, orphans>>
  BY DEF Pay, Age, WebhookSaves, WebhookResolves, rows
<1>2. /\ payment' \in [Checkout -> {"none", "recent", "past"}]
      /\ \A q \in Checkout : Paid(q) => Paid(q)'
      /\ \A q \in Checkout : Paid(q)' => Paid(q) \/ HasRow(q)
  BY DEF Pay, Age, WebhookSaves, WebhookResolves, rows, Paid, RecInv, RecTyped, HasRow
<1>3. /\ attemptStatus' \in [Checkout -> {"none", "pending", "resolved", "abandoned"}]
      /\ \A q \in Checkout : HasRow(q)' <=> HasRow(q)
  BY DEF Pay, Age, WebhookSaves, WebhookResolves, Resolve, rows, RecInv, RecTyped, HasRow
<1>4. /\ webhook' \in [Checkout -> {"due", "working", "over"}]
      /\ \A q \in Checkout : webhook'[q] = "working" => q \in saved'
  BY DEF Pay, Age, WebhookSaves, WebhookResolves, rows, RecInv, RecTyped, RowsInOrder
<1>5. /\ old \subseteq old' /\ \A q \in saved' \cup old' : q \in Checkout /\ HasRow(q)
  BY DEF Pay, Age, WebhookSaves, WebhookResolves, rows, RecInv, RowsInOrder, HasRow
<1>6. recFaults' \in 0 .. MaxRecFaults
  BY ReconciliationAssumption DEF Pay, Age, WebhookSaves, WebhookResolves, Fault, RecInv, RecTyped
<1>7. RecTyped'
  BY <1>1, <1>2, <1>3, <1>4, <1>6 DEF RecInv, RecTyped
<1>8. RowsInOrder'
  BY <1>1, <1>2, <1>3, <1>4, <1>5 DEF RecInv, RowsInOrder
<1>9. RunInOrder'
  BY <1>1, <1>2, <1>3, <1>5, RunAside
<1>10. QED
  BY <1>7, <1>8, <1>9 DEF RecInv

-----------------------------------------------------------------------------
(* The run *)

(* Resting keeps nothing in mind. *)
LEMMA RestingKept ==
  ASSUME RecInv, run' = Resting, UNCHANGED <<gateway, rows>>,
         orphans' \subseteq Checkout, recFaults' \in 0 .. MaxRecFaults
  PROVE  RecInv'
<1>1. Resting \in Run
  BY DEF Resting, Run
<1>2. RunInOrder'
  BY DEF RunInOrder, Resting
<1>3. QED
  BY <1>1, <1>2, RowsAside DEF RecInv

LEMMA ListPendingKept == ASSUME RecInv, ListPending PROVE RecInv'
<1>1. /\ run' = [phase |-> "bulk", listed |-> OldestPending, aged |-> old \cap OldestPending,
                 window |-> {}, todo |-> OldestPending, missed |-> {}]
      /\ UNCHANGED <<gateway, rows, orphans, recFaults>>
  BY DEF ListPending, Resting
<1>2. \A o \in OldestPending : o \in Checkout /\ HasRow(o)
  BY DEF OldestPending, Oldest, PendingNow, HasRow
<1>3. run' \in Run
  BY <1>1, <1>2 DEF Run
<1>4. RunInOrder'
  BY <1>1, <1>2 DEF RunInOrder, HasRow, rows
<1>5. QED
  BY <1>1, <1>3, <1>4, RowsAside DEF RecInv, RecTyped

(* The bulk answer is part of what was paid lately, or ends the run. *)
LEMMA FetchWindowEffect ==
  ASSUME FetchWindow
  PROVE  \/ run' = Resting
         \/ \E part \in SUBSET {o \in Checkout : payment[o] = "recent"} :
              run' = [run EXCEPT !.phase = "match", !.window = part]
<1> DEFINE recent == {o \in Checkout : payment[o] = "recent"}
<1>1. \/ run' = [run EXCEPT !.phase = "match", !.window = recent]
      \/ \E part \in SUBSET recent : run' = [run EXCEPT !.phase = "match", !.window = part]
      \/ run' = Resting
  BY DEF FetchWindow
<1>2. recent \in SUBSET recent
  OBVIOUS
<1> HIDE DEF recent
<1>3. \/ run' = Resting
      \/ \E part \in SUBSET recent : run' = [run EXCEPT !.phase = "match", !.window = part]
  BY <1>1, <1>2
<1>4. QED
  BY <1>3 DEF recent

LEMMA FetchWindowKept == ASSUME RecInv, FetchWindow PROVE RecInv'
<1>1. /\ UNCHANGED <<gateway, rows, orphans>> /\ recFaults' \in 0 .. MaxRecFaults
      /\ \/ run' = Resting
         \/ \E part \in SUBSET {o \in Checkout : payment[o] = "recent"} :
              run' = [run EXCEPT !.phase = "match", !.window = part]
  <2>1. UNCHANGED <<gateway, rows, orphans>>
    BY DEF FetchWindow
  <2>2. recFaults' = recFaults \/ (recFaults < MaxRecFaults /\ recFaults' = recFaults + 1)
    BY DEF FetchWindow, Fault
  <2>3. recFaults' \in 0 .. MaxRecFaults
    BY <2>2, ReconciliationAssumption DEF RecInv, RecTyped
  <2>4. QED
    BY <2>1, <2>3, FetchWindowEffect
<1>2. CASE run' = Resting
  BY <1>1, <1>2, RestingKept DEF RecInv, RecTyped
<1>3. ASSUME NEW part \in SUBSET {o \in Checkout : payment[o] = "recent"},
             run' = [run EXCEPT !.phase = "match", !.window = part]
      PROVE  RecInv'
  <2>1. run' \in Run /\ run'.phase = "match" /\ run'.window = part
        /\ run'.listed = run.listed /\ run'.aged = run.aged /\ run'.todo = run.todo /\ run'.missed = run.missed
    BY <1>3 DEF RecInv, RecTyped, Run
  <2>2. RunInOrder'
    BY <1>1, <1>3, <2>1 DEF RecInv, RunInOrder, Paid, HasRow, gateway, rows
  <2>3. QED
    BY <1>1, <2>1, <2>2, RowsAside DEF RecInv, RecTyped
<1>4. QED
  BY <1>1, <1>2, <1>3

(* Steps of a run that leave the rows alone. *)
LEMMA PhaseKept ==
  ASSUME RecInv, StartFallback \/ EndFallback
  PROVE  RecInv'
<1>1. /\ UNCHANGED <<gateway, rows, orphans, recFaults>>
      /\ run' \in Run /\ run'.phase # "decide" /\ run'.window = run.window /\ run'.listed = run.listed
      /\ run'.aged = run.aged /\ run'.missed = run.missed /\ run'.todo \subseteq run.listed
  BY ZenonT(30) DEF StartFallback, EndFallback, RecInv, RecTyped, RunInOrder, Run
<1>2. RunInOrder'
  BY <1>1 DEF RecInv, RunInOrder, HasRow, Paid, gateway, rows
<1>3. QED
  BY <1>1, <1>2, RowsAside DEF RecInv, RecTyped

LEMMA CheckConsistencyKept == ASSUME RecInv, CheckConsistency PROVE RecInv'
<1>1. orphans' \subseteq Checkout
  BY DEF CheckConsistency, RecInv, RecTyped, Run
<1>2. QED
  BY <1>1, RestingKept DEF CheckConsistency, RecInv, RecTyped

LEMMA RunDiesKept == ASSUME RecInv, RunDies PROVE RecInv'
BY RestingKept, ReconciliationAssumption DEF RunDies, Fault, RecInv, RecTyped

(* Visiting an attempt: its row is decided or stays, its order is saved or *)
(* not, and the run goes on, or stays at it to decide.                     *)
LEMMA VisitKept ==
  ASSUME RecInv, NEW o \in Checkout, Match(o) \/ FetchOne(o) \/ Abandon(o)
  PROVE  RecInv'
<1>1. /\ UNCHANGED <<payment, webhook, attempts, old, orphans>>
      /\ o \in run.todo /\ Visits(o)
  BY DEF Match, FetchOne, Abandon, Visits, gateway
<1>2. HasRow(o)
  BY <1>1 DEF RecInv, RunInOrder
<1>3. attemptStatus' = attemptStatus \/ Resolve(o) \/ attemptStatus' = [attemptStatus EXCEPT ![o] = "abandoned"]
  BY DEF Match, FetchOne, Abandon, Complete
<1>4. saved' \in {saved, saved \cup {o}}
  BY DEF Match, FetchOne, Abandon, Complete
<1>5. recFaults' \in 0 .. MaxRecFaults
  BY ReconciliationAssumption DEF Match, FetchOne, Abandon, Complete, Fault, RecInv, RecTyped
<1>6. /\ attemptStatus' \in [Checkout -> {"none", "pending", "resolved", "abandoned"}]
      /\ \A q \in Checkout : HasRow(q)' <=> HasRow(q)
  BY <1>2, <1>3 DEF RecInv, RecTyped, Resolve, HasRow
<1>7. /\ run' \in Run /\ run'.window = run.window /\ run'.listed = run.listed /\ run'.aged = run.aged
      /\ run'.todo \cup run'.missed \subseteq run.listed
      /\ run'.phase = "decide" => run'.todo = run.todo /\ o \in run.aged
  <2>1. CASE Match(o)
    <3>1. /\ run \in Run /\ run.phase = "match" /\ Visited(o) \in Run /\ Visited(o).phase = "match"
          /\ Visited(o).window = run.window /\ Visited(o).listed = run.listed /\ Visited(o).aged = run.aged
          /\ Visited(o).todo \subseteq run.todo /\ Visited(o).missed = run.missed
      BY <2>1 DEF Match, Visited, RecInv, RecTyped, Run
    <3>2. CASE run' = Visited(o)
      BY <3>1, <3>2 DEF RecInv, RunInOrder
    <3>3. CASE run' = [Visited(o) EXCEPT !.missed = @ \cup {o}]
      <4>1. /\ run' \in Run /\ run'.phase = "match" /\ run'.window = run.window /\ run'.listed = run.listed
            /\ run'.aged = run.aged /\ run'.todo \subseteq run.todo /\ run'.missed = run.missed \cup {o}
        BY <3>1, <3>3 DEF Run
      <4>2. QED
        BY <1>1, <4>1 DEF RecInv, RunInOrder
    <3>4. QED
      BY <2>1, <3>2, <3>3 DEF Match
  <2>2. CASE FetchOne(o)
    BY <1>1, <2>2 DEF FetchOne, Visited, RecInv, RecTyped, RunInOrder, Run
  <2>3. CASE Abandon(o)
    BY <1>1, <2>3 DEF Abandon, Visited, RecInv, RecTyped, RunInOrder, Run
  <2>4. QED
    BY <2>1, <2>2, <2>3
<1>8. RecTyped'
  BY <1>1, <1>5, <1>6, <1>7 DEF RecInv, RecTyped
<1>9. RowsInOrder'
  BY <1>1, <1>2, <1>4, <1>6 DEF RecInv, RowsInOrder, Paid
<1>10. RunInOrder'
  <2>1. run'.phase = "decide" => \A q \in run'.todo : Visits(q)' => q \in run'.aged
    <3> SUFFICES ASSUME run'.phase = "decide", NEW q \in run'.todo, Visits(q)' PROVE q \in run'.aged
      OBVIOUS
    <3>1. Visits(q)
      BY <1>1, <1>7 DEF Visits, Earlier
    <3>2. q = o
      BY <1>1, <3>1, OneVisited DEF RecInv
    <3>3. QED
      BY <1>7, <3>2
  <2>2. QED
    BY <1>1, <1>6, <1>7, <2>1 DEF RecInv, RecTyped, RunInOrder, Run, Paid
<1>11. QED
  BY <1>8, <1>9, <1>10 DEF RecInv

LEMMA RecInvNext == ASSUME RecInv, [RecNext]_recVars PROVE RecInv'
<1>1. CASE UNCHANGED recVars
  <2>1. UNCHANGED <<gateway, rows, run, orphans, recFaults>>
    BY <1>1 DEF recVars
  <2>2. RunInOrder'
    BY <2>1, RunAside DEF HasRow, Paid, gateway, rows
  <2>3. QED
    BY <2>1, <2>2, RowsAside DEF RecInv, RecTyped
<1>2. ASSUME NEW o \in Checkout, RecordAttempt(o) PROVE RecInv'
  BY <1>2, RecordAttemptKept
<1>3. ASSUME NEW o \in Checkout, Pay(o) \/ Age(o) \/ WebhookSaves(o) \/ WebhookResolves(o) PROVE RecInv'
  BY <1>3, CustomerKept
<1>4. ASSUME NEW o \in Checkout, Match(o) \/ FetchOne(o) \/ Abandon(o) PROVE RecInv'
  BY <1>4, VisitKept
<1>5. CASE ListPending
  BY <1>5, ListPendingKept
<1>6. CASE FetchWindow
  BY <1>6, FetchWindowKept
<1>7. CASE StartFallback \/ EndFallback
  BY <1>7, PhaseKept
<1>8. CASE CheckConsistency
  BY <1>8, CheckConsistencyKept
<1>9. CASE RunDies
  BY <1>9, RunDiesKept
<1>10. QED
  BY <1>1, <1>2, <1>3, <1>4, <1>5, <1>6, <1>7, <1>8, <1>9 DEF RecNext, RunStep

LEMMA RecInvCorrect == RecSpec => []RecInv
BY RecInvInit, RecInvNext, PTL DEF RecSpec

(* Every variable is in its type; a row has one place, an order and an age *)
(* belong to a row, and a run works on what it listed.                     *)
THEOREM RecordsTyped == RecSpec => []RecTypeOK
<1>1. RecInv => RecTypeOK
  BY DEF RecInv, RecTyped, RowsInOrder, RunInOrder, HasRow, RecTypeOK
<1>2. QED
  BY <1>1, RecInvCorrect, PTL

-----------------------------------------------------------------------------
(* The consistency check never reports a payment of this store: a payment  *)
(* in its window has a row in payment_attempts, whatever was listed.       *)
THEOREM NoOrphans == RecSpec => []OrphansAreForeign
<1>1. RecInit => OrphansAreForeign
  BY DEF RecInit, OrphansAreForeign
<1>2. RecInv /\ OrphansAreForeign /\ [RecNext]_recVars => OrphansAreForeign'
  <2> SUFFICES ASSUME RecInv, OrphansAreForeign, [RecNext]_recVars
               PROVE  OrphansAreForeign'
    OBVIOUS
  <2>1. CASE CheckConsistency
    <3>1. run.window \subseteq Known
      BY DEF RecInv, RecTyped, RowsInOrder, RunInOrder, Run, Known
    <3> QED
      BY <2>1, <3>1 DEF CheckConsistency, OrphansAreForeign
  <2>2. CASE ~CheckConsistency
    <3>1. UNCHANGED orphans
      BY <2>2 DEF RecNext, RunStep, recVars, RecordAttempt, Pay, Age, WebhookSaves,
         WebhookResolves, ListPending, FetchWindow, Match, StartFallback, FetchOne, Abandon,
         EndFallback, RunDies
    <3> QED
      BY <3>1 DEF OrphansAreForeign
  <2> QED
    BY <2>1, <2>2
<1> QED
  BY <1>1, <1>2, RecInvCorrect, PTL DEF RecSpec

-----------------------------------------------------------------------------
(* An attempt is only ever resolved after its order was saved. *)
THEOREM ResolvedAfterSaved == RecSpec => []ResolvedMeansSaved
<1>1. RecInit => ResolvedMeansSaved
  BY DEF RecInit, ResolvedMeansSaved
<1>2. RecInv /\ ResolvedMeansSaved /\ [RecNext]_recVars => ResolvedMeansSaved'
  <2> SUFFICES ASSUME RecInv, ResolvedMeansSaved, [RecNext]_recVars
               PROVE  ResolvedMeansSaved'
    OBVIOUS
  <2> USE DEF RecInv, RecTyped, RowsInOrder, ResolvedMeansSaved
  <2>1. ASSUME NEW o \in Checkout, RecordAttempt(o) PROVE ResolvedMeansSaved'
    BY <2>1 DEF RecordAttempt
  <2>2. ASSUME NEW o \in Checkout, Pay(o) \/ Age(o) PROVE ResolvedMeansSaved'
    BY <2>2 DEF Pay, Age, rows
  <2>3. ASSUME NEW o \in Checkout, WebhookSaves(o) PROVE ResolvedMeansSaved'
    BY <2>3 DEF WebhookSaves
  <2>4. ASSUME NEW o \in Checkout, WebhookResolves(o) PROVE ResolvedMeansSaved'
    BY <2>4 DEF WebhookResolves, Resolve
  <2>5. ASSUME NEW o \in Checkout, Match(o) PROVE ResolvedMeansSaved'
    BY <2>5 DEF Match, Complete, Resolve
  <2>6. ASSUME NEW o \in Checkout, FetchOne(o) PROVE ResolvedMeansSaved'
    BY <2>6 DEF FetchOne, Complete, Resolve
  <2>7. ASSUME NEW o \in Checkout, Abandon(o) PROVE ResolvedMeansSaved'
    BY <2>7 DEF Abandon
  <2>8. CASE \/ UNCHANGED recVars \/ ListPending \/ FetchWindow \/ StartFallback
             \/ EndFallback \/ CheckConsistency \/ RunDies
    BY <2>8 DEF recVars, rows, ListPending, FetchWindow, StartFallback, EndFallback,
       CheckConsistency, RunDies
  <2> QED
    BY <2>1, <2>2, <2>3, <2>4, <2>5, <2>6, <2>7, <2>8 DEF RecNext, RunStep
<1> QED
  BY <1>1, <1>2, RecInvCorrect, PTL DEF RecSpec

-----------------------------------------------------------------------------
(* What keeps a paid attempt from being abandoned: only an old one is, the *)
(* gateway has just said that nobody paid for it, and nobody can any more. *)
AbandonInv ==
  /\ run.phase = "decide" => \A o \in run.todo : Visits(o) => ~Paid(o)
  /\ \A o \in Checkout : attemptStatus[o] = "abandoned" => o \in old /\ ~Paid(o)

(* While the gateway answers and nobody pays for a checkout that is older  *)
(* than the window, a paid attempt is never abandoned.                     *)
THEOREM PaidSafe ==
  ASSUME "fetch" \notin RecFaults, ~LatePayments
  PROVE  RecSpec => []PaidNotAbandoned
<1>1. RecInit => AbandonInv
  BY DEF RecInit, AbandonInv, Resting
<1>2. RecInv /\ AbandonInv /\ [RecNext]_recVars => AbandonInv'
  <2> SUFFICES ASSUME RecInv, AbandonInv, [RecNext]_recVars
               PROVE  AbandonInv'
    OBVIOUS
  <2>1. ASSUME NEW o \in Checkout, RecordAttempt(o) PROVE AbandonInv'
    <3>1. UNCHANGED <<payment, old, run>> /\ attemptStatus' = [attemptStatus EXCEPT ![o] = "pending"]
      BY <2>1 DEF RecordAttempt, gateway
    <3>2. \A q : Visits(q)' => Visits(q)
      BY <2>1, <3>1, VisitsStay DEF RecordAttempt, HasRow
    <3> QED
      BY <3>1, <3>2 DEF AbandonInv, Paid, RecInv, RecTyped
  <2>2. ASSUME NEW o \in Checkout, Pay(o) PROVE AbandonInv'
    <3>1. UNCHANGED <<attempts, attemptStatus, old, run>> /\ o \notin old
      BY <2>2 DEF Pay, rows
    <3>2. \A q \in Checkout \ {o} : Paid(q)' <=> Paid(q)
      BY <2>2 DEF Pay, Paid, RecInv, RecTyped
    <3>3. run.phase = "decide" => \A q \in run.todo : Visits(q) => q \in old /\ q \in Checkout
      BY DEF RecInv, RecTyped, RunInOrder, Run
    <3> QED
      BY <3>1, <3>2, <3>3 DEF AbandonInv, Visits, Earlier
  <2>3. ASSUME NEW o \in Checkout, Age(o) PROVE AbandonInv'
    <3>1. UNCHANGED <<attempts, attemptStatus, run>> /\ old \subseteq old'
      BY <2>3 DEF Age
    <3>2. \A q \in Checkout : Paid(q)' <=> Paid(q)
      BY <2>3 DEF Age, Paid, RecInv, RecTyped
    <3>3. run.todo \subseteq Checkout
      BY DEF RecInv, RecTyped, Run
    <3> QED
      BY <3>1, <3>2, <3>3 DEF AbandonInv, Visits, Earlier
  <2>4. ASSUME NEW o \in Checkout, WebhookSaves(o) PROVE AbandonInv'
    BY <2>4 DEF WebhookSaves, AbandonInv, Visits, Earlier, Paid
  <2>5. ASSUME NEW o \in Checkout, WebhookResolves(o) PROVE AbandonInv'
    BY <2>5 DEF WebhookResolves, Resolve, AbandonInv, Visits, Earlier, Paid, RecInv, RecTyped
  <2>6. CASE ListPending \/ FetchWindow \/ StartFallback \/ EndFallback \/ CheckConsistency \/ RunDies
    <3>1. run'.phase # "decide"
      <4>1. run \in Run
        BY DEF RecInv, RecTyped
      <4>2. CASE FetchWindow
        <5>1. PICK part : run' = Resting \/ run' = [run EXCEPT !.phase = "match", !.window = part]
          BY <4>2, FetchWindowEffect
        <5>2. CASE run' = Resting
          BY <5>2 DEF Resting
        <5>3. CASE run' = [run EXCEPT !.phase = "match", !.window = part]
          BY <4>1, <5>3 DEF Run
        <5> QED
          BY <5>1, <5>2, <5>3
      <4>3. CASE ListPending
        BY <4>3 DEF ListPending, Resting
      <4>4. CASE StartFallback \/ EndFallback
        BY <4>1, <4>4 DEF StartFallback, EndFallback, Run
      <4>5. CASE CheckConsistency \/ RunDies
        BY <4>5 DEF CheckConsistency, RunDies, Resting
      <4> QED
        BY <2>6, <4>2, <4>3, <4>4, <4>5
    <3>2. UNCHANGED <<gateway, rows>>
      BY <2>6 DEF ListPending, FetchWindow, StartFallback, EndFallback, CheckConsistency, RunDies
    <3> QED
      BY <3>1, <3>2 DEF AbandonInv, Paid, gateway, rows
  <2>7. ASSUME NEW o \in Checkout, Match(o) PROVE AbandonInv'
    <3>1. run'.phase # "decide"
      BY <2>7 DEF Match, Visited, RecInv, RecTyped, Run
    <3>2. attemptStatus' = attemptStatus \/ Resolve(o)
      BY <2>7 DEF Match, Complete
    <3>3. UNCHANGED <<gateway, old>>
      BY <2>7 DEF Match
    <3> QED
      BY <3>1, <3>2, <3>3 DEF AbandonInv, Paid, Resolve, gateway, RecInv, RecTyped
  <2>8. ASSUME NEW o \in Checkout, FetchOne(o) PROVE AbandonInv'
    <3>1. run'.phase = "decide" => run'.todo = run.todo /\ ~Paid(o)
      BY <2>8 DEF FetchOne, Fault, Visited, RecInv, RecTyped, Run
    <3>2. attemptStatus' = attemptStatus \/ Resolve(o)
      BY <2>8 DEF FetchOne, Complete
    <3>3. UNCHANGED <<gateway, attempts, old>> /\ Visits(o)
      BY <2>8 DEF FetchOne
    <3>4. run'.phase = "decide" => \A q \in run'.todo : Visits(q)' => q = o
      <4>1. run'.todo = run.todo => \A q : Visits(q)' => Visits(q)
        BY <3>3 DEF Visits, Earlier
      <4> QED
        BY <3>1, <3>3, <4>1, OneVisited DEF RecInv
    <3> QED
      BY <3>1, <3>2, <3>3, <3>4 DEF AbandonInv, Paid, Resolve, gateway, RecInv, RecTyped
  <2>9. ASSUME NEW o \in Checkout, Abandon(o) PROVE AbandonInv'
    <3>1. run'.phase = "fallback"
      BY <2>9 DEF Abandon, Visited, RecInv, RecTyped, Run
    <3>2. o \in run.todo /\ o \in old /\ ~Paid(o)
      BY <2>9 DEF Abandon, Visits, AbandonInv, RecInv, RunInOrder
    <3>3. attemptStatus' = attemptStatus \/ attemptStatus' = [attemptStatus EXCEPT ![o] = "abandoned"]
      BY <2>9 DEF Abandon
    <3>4. UNCHANGED <<gateway, old>>
      BY <2>9 DEF Abandon
    <3> QED
      BY <3>1, <3>2, <3>3, <3>4 DEF AbandonInv, Paid, gateway, RecInv, RecTyped
  <2>10. CASE UNCHANGED recVars
    BY <2>10 DEF recVars, rows, gateway, AbandonInv, Visits, Earlier, Paid
  <2> QED
    BY <2>1, <2>2, <2>3, <2>4, <2>5, <2>6, <2>7, <2>8, <2>9, <2>10 DEF RecNext, RunStep
<1>3. AbandonInv => PaidNotAbandoned
  BY DEF AbandonInv, PaidNotAbandoned
<1> QED
  BY <1>1, <1>2, <1>3, RecInvCorrect, PTL DEF RecSpec
=============================================================================
