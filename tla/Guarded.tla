------------------------------ MODULE Guarded ------------------------------
(***************************************************************************)
(* call_guarded around one dependency: a bulkhead in each process, a       *)
(* breaker in Redis that all processes share, retries, and a timeout that  *)
(* leaves the thread of a blocking call behind.  Every command to Redis is *)
(* a step; the dependency answers, fails or hangs.                         *)
(***************************************************************************)
EXTENDS Naturals, FiniteSets

CONSTANTS
  Client,
  Process,
  Home,       \* the process of each client
  Limit,      \* bulkhead_limit
  Retries,
  Threshold,  \* failure_threshold
  MaxArrivals, MaxDeaths  \* bounds

ASSUME GuardedAssumption ==
  /\ Home \in [Client -> Process]
  /\ Limit \in Nat \ {0} /\ Retries \in Nat /\ Threshold \in Nat \ {0, 1}
  /\ MaxArrivals \in Nat /\ MaxDeaths \in Nat

VARIABLES
  fails, lapses,  \* the counter, and whether it will lapse
  open, notice,
  client,
  left,           \* threads whose callers have stopped waiting, in each process
  gauge,          \* circuit_breaker_open, in each process
  arrivals, deaths,
  cut             \* a process died between counting and setting the window

breakerVars == <<fails, lapses, open, notice>>
guardVars == <<fails, lapses, open, notice, client, left, gauge, arrivals, deaths, cut>>

Outside == [at |-> "idle", tries |-> 0, tripped |-> FALSE]
Inside(p) == {c \in Client : Home[c] = p /\ client[c].at \notin {"idle", "waiting"}}

GuardInit ==
  /\ fails = 0 /\ lapses = FALSE /\ open = FALSE /\ notice = FALSE
  /\ client = [c \in Client |-> Outside]
  /\ left = [p \in Process |-> 0] /\ gauge = [p \in Process |-> FALSE]
  /\ arrivals = 0 /\ deaths = 0 /\ cut = FALSE

Goes(c, at) == client' = [client EXCEPT ![c].at = at]
Leaves(c) == client' = [client EXCEPT ![c] = Outside]

Arrive(c) ==
  /\ client[c].at = "idle" /\ arrivals < MaxArrivals
  /\ Goes(c, "waiting") /\ arrivals' = arrivals + 1
  /\ UNCHANGED <<breakerVars, left, gauge, deaths, cut>>

(* with_bulkhead *)
Enter(c) ==
  /\ client[c].at = "waiting" /\ Cardinality(Inside(Home[c])) < Limit
  /\ Goes(c, "gate")
  /\ UNCHANGED <<breakerVars, left, gauge, arrivals, deaths, cut>>

(* CircuitBreaker.call *)
Gate(c) ==
  /\ client[c].at = "gate"
  /\ IF open THEN Leaves(c) ELSE Goes(c, "calling")
  /\ UNCHANGED <<breakerVars, left, gauge, arrivals, deaths, cut>>
-----------------------------------------------------------------------------
(* retry_async around with_timeout *)

Answer(c) ==
  /\ client[c].at = "calling"
  /\ Goes(c, "clearing")
  /\ UNCHANGED <<breakerVars, left, gauge, arrivals, deaths, cut>>

(* An error that the call site does not retry.                             *)
Raise(c) ==
  /\ client[c].at = "calling"
  /\ Goes(c, "counting")
  /\ UNCHANGED <<breakerVars, left, gauge, arrivals, deaths, cut>>

(* (OnceTooOften: a mutant, one retry beyond the limit.)                   *)
OnceTooOften(c) == Goes(c, IF client[c].tries <= Retries THEN "pausing" ELSE "counting")
AgainOrCount(c) == Goes(c, IF client[c].tries < Retries THEN "pausing" ELSE "counting")

Fail(c) ==
  /\ client[c].at = "calling"
  /\ AgainOrCount(c)
  /\ UNCHANGED <<breakerVars, left, gauge, arrivals, deaths, cut>>

(* wait_for stops waiting; the thread of to_thread does not end.           *)
(* (NeverTimesOut: a mutant.)                                              *)
NeverTimesOut(c) == client[c].at = "none" /\ UNCHANGED guardVars

TimeOut(c) ==
  /\ client[c].at = "calling"
  /\ AgainOrCount(c)
  /\ left' = [left EXCEPT ![Home[c]] = @ + 1]
  /\ UNCHANGED <<breakerVars, gauge, arrivals, deaths, cut>>

ThreadEnds(p) ==
  /\ left[p] > 0
  /\ left' = [left EXCEPT ![p] = @ - 1]
  /\ UNCHANGED <<breakerVars, client, gauge, arrivals, deaths, cut>>

Retry(c) ==
  /\ client[c].at = "pausing"
  /\ client' = [client EXCEPT ![c].at = "calling", ![c].tries = @ + 1]
  /\ UNCHANGED <<breakerVars, left, gauge, arrivals, deaths, cut>>
-----------------------------------------------------------------------------
(* _record_failure and _record_success *)

Count(c) ==
  /\ client[c].at = "counting"
  /\ fails' = fails + 1
  /\ IF fails' = 1 THEN Goes(c, "windowing")
     ELSE IF fails' >= Threshold THEN Goes(c, "opening") ELSE Leaves(c)
  /\ UNCHANGED <<lapses, open, notice, left, gauge, arrivals, deaths, cut>>

SetWindow(c) ==
  /\ client[c].at = "windowing"
  /\ lapses' = (fails > 0)
  /\ Leaves(c)
  /\ UNCHANGED <<fails, open, notice, left, gauge, arrivals, deaths, cut>>

(* Only the one whose SET NX lands has tripped the breaker.                *)
Open(c) ==
  /\ client[c].at = "opening"
  /\ open' = TRUE
  /\ client' = [client EXCEPT ![c].at = "forgetting", ![c].tripped = ~open]
  /\ UNCHANGED <<fails, lapses, notice, left, gauge, arrivals, deaths, cut>>

Forget(c) ==
  /\ client[c].at = "forgetting"
  /\ fails' = 0 /\ lapses' = FALSE
  /\ IF client[c].tripped THEN Goes(c, "noticing") ELSE Leaves(c)
  /\ UNCHANGED <<open, notice, left, gauge, arrivals, deaths, cut>>

Notice(c) ==
  /\ client[c].at = "noticing"
  /\ notice' = TRUE
  /\ gauge' = [gauge EXCEPT ![Home[c]] = TRUE]
  /\ Leaves(c)
  /\ UNCHANGED <<fails, lapses, open, left, arrivals, deaths, cut>>

Clear(c) ==
  /\ client[c].at = "clearing"
  /\ fails' = 0 /\ lapses' = FALSE
  /\ Goes(c, "resetting")
  /\ UNCHANGED <<open, notice, left, gauge, arrivals, deaths, cut>>

Reset(c) ==
  /\ client[c].at = "resetting"
  /\ notice' = FALSE
  /\ gauge' = [gauge EXCEPT ![Home[c]] = @ /\ ~notice]
  /\ Leaves(c)
  /\ UNCHANGED <<fails, lapses, open, left, arrivals, deaths, cut>>

(* Keys of Redis lapse: the window, the cooldown, and the notice after it. *)
Lapse ==
  /\ \/ lapses /\ fails' = 0 /\ lapses' = FALSE /\ UNCHANGED <<open, notice>>
     \/ open /\ open' = FALSE /\ UNCHANGED <<fails, lapses, notice>>
     \/ notice /\ ~open /\ notice' = FALSE /\ UNCHANGED <<fails, lapses, open>>
  /\ UNCHANGED <<client, left, gauge, arrivals, deaths, cut>>

ProcessDies(p) ==
  /\ deaths < MaxDeaths /\ deaths' = deaths + 1
  /\ cut' = (cut \/ \E c \in Inside(p) : client[c].at = "windowing")
  /\ client' = [c \in Client |-> IF Home[c] = p THEN Outside ELSE client[c]]
  /\ left' = [left EXCEPT ![p] = 0] /\ gauge' = [gauge EXCEPT ![p] = FALSE]
  /\ UNCHANGED <<breakerVars, arrivals>>

OwnSteps(c) ==
  \/ Gate(c) \/ TimeOut(c) \/ Retry(c)
  \/ Count(c) \/ SetWindow(c) \/ Open(c) \/ Forget(c) \/ Notice(c) \/ Clear(c) \/ Reset(c)

GuardNext ==
  \/ \E c \in Client : Arrive(c) \/ Enter(c) \/ Answer(c) \/ Raise(c) \/ Fail(c) \/ OwnSteps(c)
  \/ \E p \in Process : ThreadEnds(p) \/ ProcessDies(p)
  \/ Lapse

(* The process goes on by itself, timeouts included; its semaphore serves  *)
(* those who wait in their order.  The dependency owes nothing.            *)
GuardFairness == \A c \in Client : WF_guardVars(OwnSteps(c)) /\ SF_guardVars(Enter(c))

GuardSpec == GuardInit /\ [][GuardNext]_guardVars /\ GuardFairness
-----------------------------------------------------------------------------
(* Properties *)

(* Counters are in their types; no process is in more calls than it has    *)
(* threads for.                                                            *)
GuardTypeOK ==
  /\ fails \in Nat /\ \A p \in Process : left[p] \in Nat /\ Cardinality(Inside(p)) <= Limit
  /\ \A c \in Client : client[c].tries \in 0 .. Retries

(* Failures are counted in a window: a counter lapses, or is about to be   *)
(* given the time to, unless a process died in between.                    *)
FailuresLapseUnlessCut ==
  fails > 0 /\ ~cut => lapses \/ \E c \in Client : client[c].at = "windowing"

(* Whoever arrives is answered or refused, even when the dependency hangs. *)
CallsEnd == \A c \in Client : client[c].at = "waiting" ~> client[c].at = "idle"

(* The bulkhead exists to keep one slow dependency from the threads of its *)
(* process.                                                                *)
ThreadsBounded ==
  \A p \in Process : left[p] + Cardinality({c \in Client : Home[c] = p /\ client[c].at = "calling"}) <= Limit
=============================================================================
