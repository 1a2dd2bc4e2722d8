---------------------------- MODULE BackgroundJob ----------------------------
(***************************************************************************)
(* src/jobs/: the catalogue sync an admin asks for, carried by the job     *)
(* stream and kept in background_jobs.                                     *)
(*                                                                         *)
(* An event is the id of the job it asks a worker to run.  task is the     *)
(* place of a worker inside run_facebook_sync_job, while its loop is at    *)
(* "handle", or inside _on_failure, while its loop is at "callback".       *)
(***************************************************************************)
EXTENDS EventStream

CONSTANTS
  MaxJobs,     \* bound: jobs created
  Batches,     \* batches of products a job sends
  StaleAfter   \* STALE_AFTER_SECONDS in units of CLAIM_IDLE_MS (3)

ASSUME JobAssumption ==
  /\ MaxJobs \in Nat
  /\ Batches \in Nat
  /\ StaleAfter \in Nat \ {0}

VARIABLES
  request,  \* the admin's call that would create the job
  job,      \* background_jobs
  task,     \* what each worker is doing for the job at hand
  sent      \* history: batches the catalogue has accepted

jobVars == <<streamVars, request, job, task, sent>>

(* "running" stands for "retrying" too, which nothing tells apart. *)
Active   == {"queued", "running"}
Terminal == {"succeeded", "partial", "failed"}

(* beat is the age of heartbeat_at, bad the batches counted as failed,     *)
(* where two runners that overlap may count one twice.                     *)
Job == [status : {"none"} \cup Active \cup Terminal, beat : 0 .. StaleAfter,
        next : 0 .. Batches, bad : Nat]

NoJob == [status |-> "none", beat |-> 0, next |-> 0, bad |-> 0]

Task == [at : {"idle", "claim", "plan", "submit", "sent", "refused", "finish", "review",
               "noReview", "crashed", "giveUp"},
         index : 0 .. Batches, bad : Nat]

NoTask == [at |-> "idle", index |-> 0, bad |-> 0]

JobInit ==
  /\ EventInit
  /\ request = [j \in Event |-> "new"]
  /\ job = [j \in Event |-> NoJob]
  /\ task = [w \in Worker |-> NoTask]
  /\ sent = [j \in Event |-> {}]

Is(j, statuses) == job[j].status \in statuses
TaskAt(w, at) == task[w].at = at
Turns(w, at) == task' = [task EXCEPT ![w].at = at]

(* patch: the fields given and, always, the heartbeat; no filter. *)
Patched(j, status) == [job EXCEPT ![j].status = status, ![j].beat = 0]

-----------------------------------------------------------------------------
(* _enqueue_facebook_sync *)

(* find_active: a job with a heartbeat, or one that is queued; that one    *)
(* no longer counts once its grace of 15 minutes is over.                  *)
FindActive(j) ==
  /\ request[j] = "new"
  /\ \/ /\ \E k \in Event : Is(k, {"queued"}) \/ (Is(k, {"running"}) /\ job[k].beat < StaleAfter)
        /\ request' = [request EXCEPT ![j] = "answered"]
     \/ /\ \A k \in Event : Is(k, {"running"}) => job[k].beat >= StaleAfter
        /\ Cardinality({k \in Event : request[k] # "new"}) < MaxJobs
        /\ request' = [request EXCEPT ![j] = "create"]
  /\ UNCHANGED <<streamVars, job, task, sent>>

Create(j) ==
  /\ request[j] = "create"
  /\ job' = [job EXCEPT ![j].status = "queued"]
  /\ request' = [request EXCEPT ![j] = "publish"]
  /\ UNCHANGED <<streamVars, task, sent>>

Enqueue(j) ==
  /\ request[j] = "publish"
  /\ \/ /\ Publish(j)
        /\ request' = [request EXCEPT ![j] = "answered"]
     \/ /\ PublishFails(j) \/ PublishLosesReply(j)
        /\ request' = [request EXCEPT ![j] = "withdraw"]
  /\ UNCHANGED <<job, task, sent>>

(* The publish returned None: the job is marked failed. *)
Withdraw(j) ==
  /\ request[j] = "withdraw"
  /\ job' = Patched(j, "failed")
  /\ request' = [request EXCEPT ![j] = "answered"]
  /\ UNCHANGED <<streamVars, task, sent>>

(* The API process dies under the request. *)
RequestDies(j) ==
  /\ request[j] \in {"create", "publish", "withdraw"}
  /\ Fault("crash")
  /\ request' = [request EXCEPT ![j] = "answered"]
  /\ UNCHANGED <<stream, loop, job, task, sent>>

-----------------------------------------------------------------------------
(* run_facebook_sync_job *)

Quiet == UNCHANGED <<stream, loop, faults, request>>

Begins(w) == LoopAt(w, "handle") /\ TaskAt(w, "idle")

(* A job that is finished is nothing to do, and the entry is acked. *)
GetJob(w) ==
  /\ Begins(w)
  /\ IF Is(InHand(w), Terminal)
     THEN HandlerEnds(w) /\ UNCHANGED task
     ELSE Turns(w, "claim") /\ UNCHANGED streamVars
  /\ UNCHANGED <<request, job, sent>>

ClaimableInAnyState(j) == Is(j, Active)

ClaimableUnlessRun(j) == Is(j, {"running"}) => job[j].beat >= StaleAfter

(* The filter of claim: queued, or abandoned by a worker that died. *)
Claimable(j) ==
  \/ Is(j, {"queued"})
  \/ Is(j, {"running"}) /\ job[j].beat >= StaleAfter

ClaimedFromStart(w, j) ==
  /\ job' = Patched(j, "running")
  /\ task' = [task EXCEPT ![w] = [at |-> "plan", index |-> 0, bad |-> job[j].bad]]

(* The claim returns the job as it is stored: where to resume it. *)
Claimed(w, j) ==
  /\ job' = Patched(j, "running")
  /\ task' = [task EXCEPT ![w] = [at |-> "plan", index |-> job[j].next, bad |-> job[j].bad]]

ClaimJobEndsBusy(w) ==
  /\ TaskAt(w, "claim")
  /\ \/ /\ Claimable(InHand(w))
        /\ Claimed(w, InHand(w))
        /\ UNCHANGED streamVars
     \/ /\ ~Claimable(InHand(w))
        /\ Turns(w, "idle")
        /\ HandlerEnds(w)
        /\ UNCHANGED job
  /\ UNCHANGED <<request, sent>>

(* find_one_and_update, or JobBusyError. *)
ClaimJob(w) ==
  /\ TaskAt(w, "claim")
  /\ \/ /\ Claimable(InHand(w))
        /\ Claimed(w, InHand(w))
        /\ UNCHANGED streamVars
     \/ /\ ~Claimable(InHand(w))
        /\ Turns(w, "idle")
        /\ HandlerRaises(w) /\ UNCHANGED faults
        /\ UNCHANGED job
  /\ UNCHANGED <<request, sent>>

NextBatchOffByOne(index) == IF index <= Batches THEN "submit" ELSE "finish"

NextBatch(index) == IF index < Batches THEN "submit" ELSE "finish"

(* The batches are laid out once; a resumed job keeps them. *)
Plan(w) ==
  /\ TaskAt(w, "plan")
  /\ job' = Patched(InHand(w), job[InHand(w)].status)
  /\ Turns(w, NextBatch(task[w].index))
  /\ Quiet /\ UNCHANGED sent

Submit(w) ==
  /\ TaskAt(w, "submit")
  /\ \/ /\ sent' = [sent EXCEPT ![InHand(w)] = @ \cup {task[w].index}]
        /\ Turns(w, "sent")
     \/ /\ UNCHANGED sent
        /\ Turns(w, "refused")
  /\ Quiet /\ UNCHANGED job

(* on_retry, and the heartbeats while it waits. *)
Retry(w) ==
  /\ TaskAt(w, "submit")
  /\ job' = Patched(InHand(w), "running")
  /\ Quiet /\ UNCHANGED <<task, sent>>

RecordForgetsRefusals(w) ==
  LET t == task[w]
      j == InHand(w)
      bad == IF TaskAt(w, "refused") THEN t.bad + 1 ELSE t.bad IN
  /\ t.at \in {"sent", "refused"}
  /\ job' = [job EXCEPT ![j] = [status |-> "running", beat |-> 0, next |-> t.index + 1,
                                bad |-> @.bad]]
  /\ task' = [task EXCEPT ![w] = [at |-> NextBatch(t.index + 1), index |-> t.index + 1,
                                  bad |-> bad]]
  /\ Quiet /\ UNCHANGED sent

(* The batch's outcome is patched from the worker's own counters. *)
Record(w) ==
  LET t == task[w]
      j == InHand(w)
      bad == IF TaskAt(w, "refused") THEN t.bad + 1 ELSE t.bad IN
  /\ t.at \in {"sent", "refused"}
  /\ job' = [job EXCEPT ![j] = [status |-> "running", beat |-> 0, next |-> t.index + 1,
                                bad |-> IF TaskAt(w, "refused") THEN bad ELSE @.bad]]
  /\ task' = [task EXCEPT ![w] = [at |-> NextBatch(t.index + 1), index |-> t.index + 1,
                                  bad |-> bad]]
  /\ Quiet /\ UNCHANGED sent

Summary(bad) ==
  IF bad = 0 THEN "succeeded" ELSE IF bad = Batches THEN "failed" ELSE "partial"

Finish(w) ==
  /\ TaskAt(w, "finish")
  /\ job' = Patched(InHand(w), Summary(task[w].bad))
  /\ \/ /\ task[w].bad < Batches
        /\ Turns(w, "review")
        /\ UNCHANGED streamVars
     \/ /\ task[w].bad >= Batches
        /\ Turns(w, "idle")
        /\ HandlerEnds(w)
  /\ UNCHANGED <<request, sent>>

(* A note in the job's timeline: what the catalogue's review says, or why  *)
(* that could not be noted.  A job that sent nothing has none.             *)
NoteReview(w) ==
  /\ task[w].at \in {"review", "noReview"}
  /\ job' = Patched(InHand(w), job[InHand(w)].status)
  /\ Turns(w, "idle")
  /\ HandlerEnds(w)
  /\ UNCHANGED <<request, sent>>

FailJobWithoutAck(w) ==
  /\ TaskAt(w, "crashed")
  /\ job' = Patched(InHand(w), "failed")
  /\ Turns(w, "idle")
  /\ Proceeds(w)
  /\ UNCHANGED <<stream, faults, request, sent>>

(* The except block of run_facebook_sync_job: fail the job visibly. *)
FailJob(w) ==
  /\ TaskAt(w, "crashed")
  /\ job' = Patched(InHand(w), "failed")
  /\ Turns(w, "idle")
  /\ HandlerEnds(w)
  /\ UNCHANGED <<request, sent>>

(* A write to MongoDB raises: within _execute the job is to be failed,     *)
(* anywhere else the exception leaves the handler, or ends the callback.   *)
MongoFails(w) ==
  /\ Fault("mongo")
  /\ \/ /\ task[w].at \in {"plan", "submit", "sent", "refused", "finish", "noReview"}
        /\ Turns(w, "crashed")
        /\ UNCHANGED loop
     \/ /\ TaskAt(w, "review")
        /\ Turns(w, "noReview")
        /\ UNCHANGED loop
     \/ /\ Begins(w) \/ task[w].at \in {"claim", "crashed"}
        /\ Turns(w, "idle")
        /\ HandlerRaises(w)
     \/ /\ LoopAt(w, "callback") /\ loop[w].last
        /\ Turns(w, "idle")
        /\ CallbackEnds(w)
  /\ UNCHANGED <<stream, request, job, sent>>

-----------------------------------------------------------------------------
(* _on_failure: on the last delivery an abandoned job is marked failed. *)
Callback(w) ==
  /\ LoopAt(w, "callback") /\ TaskAt(w, "idle")
  /\ IF loop[w].last /\ Claimable(InHand(w))
     THEN /\ job' = Patched(InHand(w), "running")
          /\ Turns(w, "giveUp")
          /\ UNCHANGED streamVars
     ELSE /\ CallbackEnds(w) /\ UNCHANGED faults
          /\ UNCHANGED <<job, task>>
  /\ UNCHANGED <<request, sent>>

GiveUp(w) ==
  /\ TaskAt(w, "giveUp")
  /\ job' = Patched(InHand(w), "failed")
  /\ Turns(w, "idle")
  /\ CallbackEnds(w) /\ UNCHANGED faults
  /\ UNCHANGED <<request, sent>>

-----------------------------------------------------------------------------
(* A worker has claimed the job and not let go of it. *)
Runs(w, j) ==
  /\ task[w].at \in {"plan", "submit", "sent", "refused", "finish", "review", "noReview",
                    "crashed", "giveUp"}
  /\ InHand(w) = j

(* CLAIM_IDLE_MS pass.  A worker that runs a job patches it more often     *)
(* than every StaleAfter of them, unless it stalls.                        *)
Tick ==
  /\ \/ "stall" \in Faults
     \/ \A w \in Worker, j \in Event : Runs(w, j) => job[j].beat + 1 < StaleAfter
  /\ job' = [j \in Event |-> IF Is(j, Active) /\ job[j].beat < StaleAfter
                             THEN [job[j] EXCEPT !.beat = @ + 1] ELSE job[j]]
  /\ IdlePasses
  /\ UNCHANGED <<request, task, sent>>

JobWorkerDies(w) ==
  /\ WorkerDies(w)
  /\ task' = [task EXCEPT ![w] = NoTask]
  /\ UNCHANGED <<request, job, sent>>

Reads(w) == (ReadNew(w) \/ ClaimStale(w)) /\ UNCHANGED <<request, job, task, sent>>

Acks(w) == (Ack(w) \/ CountDeliveries(w) \/ DeadLetter(w) \/ AckDead(w))
           /\ UNCHANGED <<request, job, task, sent>>

Works(w) ==
  \/ GetJob(w) \/ ClaimJob(w) \/ Plan(w) \/ Submit(w) \/ Record(w)
  \/ Finish(w) \/ NoteReview(w) \/ FailJob(w) \/ Callback(w) \/ GiveUp(w) \/ Acks(w)

JobNext ==
  \/ \E j \in Event : \/ FindActive(j) \/ Create(j) \/ Enqueue(j) \/ Withdraw(j)
                      \/ RequestDies(j)
  \/ \E w \in Worker : Reads(w) \/ Works(w) \/ Retry(w) \/ MongoFails(w) \/ JobWorkerDies(w)
  \/ Tick

JobSpec == JobInit /\ [][JobNext]_jobVars

(* Every consumer keeps reading and claiming, its handler runs on whatever *)
(* the number of retries, and time passes.                                 *)
JobFairness ==
  /\ \A w \in Worker : WF_jobVars(Reads(w) \/ Works(w))
  /\ WF_jobVars(Tick)

FairJobSpec == JobSpec /\ JobFairness

-----------------------------------------------------------------------------
(* Properties *)

(* Jobs, requests and tasks are in their types, and a worker is inside a   *)
(* job exactly where its loop awaits the handler or the callback.          *)
JobTypeOK ==
  /\ StreamTypeOK
  /\ request \in [Event -> {"new", "create", "publish", "withdraw", "answered"}]
  /\ job \in [Event -> Job]
  /\ task \in [Worker -> Task]
  /\ sent \in [Event -> SUBSET (0 .. Batches)]
  /\ \A w \in Worker : ~TaskAt(w, "idle") =>
       loop[w].at = IF TaskAt(w, "giveUp") THEN "callback" ELSE "handle"

(* Two workers never run one job at once, unless one of them was silent    *)
(* for longer than STALE_AFTER_SECONDS (claim: exactly one worker wins).   *)
OneRunner ==
  "stall" \notin Faults =>
    \A v, w \in Worker, j \in Event : Runs(v, j) /\ Runs(w, j) => v = w

(* A job that says it succeeded has sent every batch, in however many      *)
(* pieces and by however many workers it was run (_execute's resumption).  *)
SucceededMeansSent ==
  \A j \in Event : Is(j, {"succeeded"}) => sent[j] = 0 .. Batches - 1

(* A batch whose outcome was recorded is not sent again when the job is    *)
(* resumed (facebook_sync's "resumes at the next unfinished batch").       *)
NoBatchRepeated ==
  "stall" \notin Faults =>
    \A w \in Worker : TaskAt(w, "submit") => task[w].index >= job[InHand(w)].next

(* A finished job is not reopened by a late patch or claim, while nobody   *)
(* stalls and no reply is lost.  (Its outcome may still turn to failed,    *)
(* when both notes after it fail: run_facebook_sync_job's except block.)   *)
FinishedStays ==
  [][\A j \in Event : Is(j, Terminal) /\ {"stall", "reply"} \cap Faults = {}
                        => job'[j].status \in Terminal]_jobVars

(* A job a worker has been told of is finished at last, or its event is in *)
(* the dead-letter stream for an admin to replay.                          *)
JobEndsOrIsDead ==
  \A j \in Event : entry[j] # "absent" ~> Is(j, Terminal) \/ j \in dead

(* The job is finished, whatever became of its event: _on_failure means to *)
(* leave no job running for ever.                                          *)
JobEnds == \A j \in Event : entry[j] # "absent" ~> Is(j, Terminal)

(* What a worker does for a job is what EventStream says of any handler. *)
Transport == EventSpec
=============================================================================
