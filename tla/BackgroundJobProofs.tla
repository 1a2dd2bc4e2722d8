------------------------- MODULE BackgroundJobProofs -------------------------
(***************************************************************************)
(* Proofs about BackgroundJob, for any number of jobs, batches, workers,   *)
(* deliveries and faults.                                                  *)
(***************************************************************************)
EXTENDS BackgroundJob, EventStreamProofs

-----------------------------------------------------------------------------
(* A job step is a step of the transport *)

LEMMA JobStepIsEventStep == ASSUME [JobNext]_jobVars PROVE [EventNext]_<<stream, loop>>
<1> USE DEF streamVars
<1>1. CASE UNCHANGED jobVars
  BY <1>1 DEF jobVars
<1>2. ASSUME NEW j \in Event, FindActive(j) \/ Create(j) \/ Withdraw(j) \/ RequestDies(j)
      PROVE  UNCHANGED <<stream, loop>>
  BY <1>2 DEF FindActive, Create, Withdraw, RequestDies
<1>3. ASSUME NEW j \in Event, Enqueue(j) PROVE EventNext
  BY <1>3 DEF Enqueue, EventNext
<1>4. ASSUME NEW w \in Worker, Plan(w) \/ Submit(w) \/ Retry(w) \/ Record(w)
      PROVE  UNCHANGED <<stream, loop>>
  BY <1>4 DEF Plan, Submit, Retry, Record, Quiet
<1>5. ASSUME NEW w \in Worker,
             GetJob(w) \/ ClaimJob(w) \/ Finish(w) \/ NoteReview(w) \/ FailJob(w) \/ MongoFails(w)
      PROVE  HandlerEnds(w) \/ HandlerRaises(w) \/ CallbackEnds(w) \/ UNCHANGED <<stream, loop>>
  BY <1>5 DEF GetJob, ClaimJob, Finish, NoteReview, FailJob, MongoFails
<1>6. ASSUME NEW w \in Worker, Callback(w) \/ GiveUp(w)
      PROVE  CallbackEnds(w) \/ UNCHANGED <<stream, loop>>
  BY <1>6 DEF Callback, GiveUp
<1>7. ASSUME NEW w \in Worker, Reads(w) \/ Acks(w) \/ JobWorkerDies(w) PROVE EventNext
  BY <1>7 DEF Reads, Acks, JobWorkerDies, EventNext, Closes
<1>8. ASSUME NEW w \in Worker, Works(w) \/ Retry(w) \/ MongoFails(w)
      PROVE  EventNext \/ UNCHANGED <<stream, loop>>
  BY <1>4, <1>5, <1>6, <1>7, <1>8 DEF Works, EventNext, Closes
<1>9. CASE Tick
  BY <1>9 DEF Tick, EventNext
<1> QED
  BY <1>1, <1>2, <1>3, <1>7, <1>8, <1>9 DEF JobNext

(* The job consumer is a consumer: what it does for a job, its callback    *)
(* included, is what EventStream allows the handler of an event            *)
(* (JobConsumer is a StreamConsumer with a handler and on_failure).        *)
THEOREM JobsUseTheTransport == JobSpec => Transport
<1>1. JobInit => EventInit
  BY DEF JobInit
<1>2. [JobNext]_jobVars => [EventNext]_<<stream, loop>>
  BY JobStepIsEventStep
<1> QED
  BY <1>1, <1>2, PTL DEF JobSpec, Transport, EventSpec

(* The event of a job leaves the job stream handled or dead-lettered. *)
THEOREM JobEventsDoNotVanish == JobSpec => []NothingVanishes
BY JobsUseTheTransport, EventsDoNotVanish, PTL DEF Transport

-----------------------------------------------------------------------------
(* The invariant *)

Working == {"plan", "submit", "sent", "refused", "finish"}

(* Where a worker may be inside a job, given where its loop is. *)
Placed(w) ==
  ~TaskAt(w, "idle") => loop[w].at = IF TaskAt(w, "giveUp") THEN "callback" ELSE "handle"

(* A job whose call has not published it is in nobody's hands, and is not  *)
(* in the collection before it is created.                                 *)
Unpublished ==
  \A j \in Event : /\ request[j] \in {"new", "create", "publish"} => entry[j] = "absent"
                   /\ request[j] \in {"new", "create"} => Is(j, {"none"})

JobsTyped ==
  /\ request \in [Event -> {"new", "create", "publish", "withdraw", "answered"}]
  /\ job \in [Event -> Job]
  /\ task \in [Worker -> Task]
  /\ sent \in [Event -> SUBSET (0 .. Batches)]
  /\ \A w \in Worker : Placed(w)

(* A job that counts no failure has sent what is behind its next batch. *)
JobFits(j) ==
  /\ sent[j] \subseteq 0 .. Batches - 1
  /\ job[j].bad = 0 => 0 .. job[j].next - 1 \subseteq sent[j]
  /\ Is(j, {"succeeded"}) => sent[j] = 0 .. Batches - 1

(* So has a worker, by its own counters, which count no failure while the  *)
(* job does not, whoever else runs it.                                     *)
TaskFits(w) ==
  LET t == task[w]
      j == InHand(w) IN
  t.at \in Working =>
    /\ t.bad = 0 => 0 .. t.index - 1 \subseteq sent[j]
    /\ job[j].bad = 0 => t.bad = 0
    /\ t.at \in {"submit", "sent", "refused"} => t.index < Batches
    /\ t.at = "sent" => t.index \in sent[j]
    /\ t.at = "finish" => t.index = Batches

JobInv ==
  /\ StreamInv
  /\ faults \in 0 .. MaxFaults
  /\ JobsTyped
  /\ Unpublished
  /\ \A j \in Event : JobFits(j)
  /\ \A w \in Worker : TaskFits(w)

-----------------------------------------------------------------------------
(* One worker's step *)

(* What the other workers have at hand, and where they are, is theirs. *)
OthersAlone(w) ==
  \A v \in Worker \ {w} : task'[v] = task[v] /\ loop'[v] = loop[v]

LEMMA LoopOfOthers ==
  ASSUME StreamInv, NEW w \in Worker,
         \/ HandlerEnds(w) \/ HandlerRaises(w) \/ Closes(w) \/ ReadNew(w) \/ ClaimStale(w)
         \/ WorkerDies(w) \/ Proceeds(w) \/ UNCHANGED loop
  PROVE  \A v \in Worker \ {w} : loop'[v] = loop[v]
<1>1. loop \in [Worker -> Loop]
  BY DEF StreamInv, StreamShape
<1>2. \A at : Goes(w, at) => \A v \in Worker \ {w} : loop'[v] = loop[v]
  BY <1>1 DEF Goes
<1>3. Proceeds(w) => \A v \in Worker \ {w} : loop'[v] = loop[v]
  BY <1>1 DEF Proceeds
<1>4. ReadNew(w) \/ ClaimStale(w) => \A v \in Worker \ {w} : loop'[v] = loop[v]
  BY <1>1 DEF ReadNew, ClaimStale, Delivered
<1>5. AckDead(w) => \A v \in Worker \ {w} : loop'[v] = loop[v]
  BY <1>1, <1>3 DEF AckDead
<1>6. CountDeliveries(w) => \A v \in Worker \ {w} : loop'[v] = loop[v]
  BY <1>1 DEF CountDeliveries
<1>7. WorkerDies(w) => \A v \in Worker \ {w} : loop'[v] = loop[v]
  BY <1>1 DEF WorkerDies
<1> QED
  BY <1>2, <1>3, <1>4, <1>5, <1>6, <1>7 DEF HandlerEnds, HandlerRaises, Closes, Ack,
     CallbackEnds, DeadLetter

(* The transport's steps neither unpublish an entry nor publish one. *)
LEMMA AbsentStays ==
  ASSUME StreamInv, NEW w \in Worker,
         \/ HandlerEnds(w) \/ HandlerRaises(w) \/ Closes(w) \/ ReadNew(w) \/ ClaimStale(w)
         \/ WorkerDies(w) \/ UNCHANGED entry
  PROVE  \A e \in Event : entry'[e] = "absent" <=> entry[e] = "absent"
<1>1. entry \in [Event -> {"absent", "unread", "pending", "acked"}]
  BY DEF StreamInv, StreamShape
<1>2. CASE ReadNew(w) \/ ClaimStale(w)
  <2>1. PICK batch : Delivered(w, batch)
    BY <1>2 DEF ReadNew, ClaimStale
  <2>2. ToSet(batch) \subseteq ToSet(log)
    BY <2>1, ElementsAreMembers DEF Delivered
  <2> QED
    BY <1>1, <2>1, <2>2 DEF Delivered, StreamInv, StreamShape
<1>3. CASE Ack(w) \/ AckDead(w)
  <2>1. InHand(w) \in ToSet(log)
    BY <1>3, InHandInLog DEF Ack, AckDead, LoopAt
  <2> QED
    BY <1>1, <1>3, <2>1 DEF Ack, AckDead, StreamInv, StreamShape
<1>4. CASE CountDeliveries(w) \/ CallbackEnds(w) \/ DeadLetter(w) \/ WorkerDies(w)
           \/ HandlerEnds(w) \/ HandlerRaises(w) \/ UNCHANGED entry
  BY <1>4 DEF CountDeliveries, CallbackEnds, DeadLetter, WorkerDies, HandlerEnds,
     HandlerRaises, stream
<1> QED
  BY <1>2, <1>3, <1>4 DEF Closes

(* A worker's step keeps the invariant if it keeps the job it has at hand  *)
(* and its own place in order, loses nothing that was sent and resets no   *)
(* count of failures.                                                      *)
LEMMA WorkerKeepsInv ==
  ASSUME JobInv, [JobNext]_jobVars, NEW w \in Worker, OthersAlone(w),
         faults' \in 0 .. MaxFaults,
         UNCHANGED request,
         \A e \in Event : entry'[e] = "absent" <=> entry[e] = "absent",
         job' \in [Event -> Job],
         task' \in [Worker -> Task],
         sent' \in [Event -> SUBSET (0 .. Batches)],
         Placed(w)', TaskFits(w)',
         \A j \in Event : job'[j] # job[j] => entry[j] # "absent",
         \A j \in Event : sent[j] \subseteq sent'[j] /\ (job'[j].bad = 0 => job[j].bad = 0),
         \A j \in Event : JobFits(j)'
  PROVE  JobInv'
<1>1. StreamInv'
  BY JobStepIsEventStep, StreamInvNext DEF JobInv
<1>2. JobsTyped'
  BY DEF JobInv, JobsTyped, OthersAlone, Placed, LoopAt, TaskAt
<1>3. Unpublished'
  BY DEF JobInv, Unpublished, Is
<1>4. ASSUME NEW v \in Worker, v # w, task'[v].at \in Working PROVE TaskFits(v)'
  <2>1. task'[v] = task[v] /\ loop'[v] = loop[v] /\ InHand(v)' = InHand(v)
    BY <1>4 DEF OthersAlone, InHand
  <2>2. loop[v].at = "handle"
    BY <1>4, <2>1 DEF JobInv, JobsTyped, Placed, Working, TaskAt
  <2>3. InHand(v) \in Event
    BY <2>2, InHandInLog DEF JobInv, LoopAt
  <2> QED
    BY <1>4, <2>1, <2>3 DEF JobInv, TaskFits
<1>5. \A v \in Worker : TaskFits(v)'
  BY <1>4 DEF TaskFits
<1> QED
  BY <1>1, <1>2, <1>3, <1>5 DEF JobInv

(* The entry a worker has at hand, wherever it is. *)
LEMMA TaskInHand ==
  ASSUME JobInv, NEW w \in Worker, ~TaskAt(w, "idle") \/ ~LoopAt(w, "waiting")
  PROVE  InHand(w) \in Event /\ entry[InHand(w)] # "absent"
<1>1. ~LoopAt(w, "waiting")
  BY DEF JobInv, JobsTyped, Placed, LoopAt
<1> QED
  BY <1>1, InHandInLog DEF JobInv, StreamInv, StreamShape

(* A patch of the status alone. *)
LEMMA PatchFits ==
  ASSUME JobInv, NEW j \in Event, NEW status \in {"none"} \cup Active \cup Terminal,
         status = "succeeded" => Is(j, {"succeeded"}) \/ sent[j] = 0 .. Batches - 1,
         job' = Patched(j, status), UNCHANGED sent
  PROVE  /\ job' \in [Event -> Job]
         /\ sent' \in [Event -> SUBSET (0 .. Batches)]
         /\ \A k \in Event : k # j => job'[k] = job[k]
         /\ job'[j].status = status /\ job'[j].beat = 0
         /\ job'[j].bad = job[j].bad /\ job'[j].next = job[j].next
         /\ \A k \in Event : sent[k] \subseteq sent'[k] /\ (job'[k].bad = 0 => job[k].bad = 0)
         /\ \A k \in Event : JobFits(k)'
<1>1. job \in [Event -> Job] /\ sent \in [Event -> SUBSET (0 .. Batches)]
  BY DEF JobInv, JobsTyped
<1>2. /\ job' \in [Event -> Job]
      /\ \A k \in Event : k # j => job'[k] = job[k]
      /\ job'[j].status = status /\ job'[j].beat = 0
      /\ job'[j].bad = job[j].bad /\ job'[j].next = job[j].next
  <2> DEFINE r == [job[j] EXCEPT !.status = status, !.beat = 0]
  <2>1. job[j] \in Job
    BY <1>1
  <2>2. 0 \in 0 .. StaleAfter
    BY JobAssumption
  <2>3. /\ r \in Job
        /\ r.status = status /\ r.beat = 0 /\ r.bad = job[j].bad /\ r.next = job[j].next
    BY <2>1, <2>2 DEF Job
  <2>4. job' = [job EXCEPT ![j] = r]
    BY <1>1 DEF Patched
  <2> HIDE DEF r
  <2> QED
    BY <1>1, <2>3, <2>4
<1>3. \A k \in Event : JobFits(k)'
  BY <1>2 DEF JobInv, JobFits, Is
<1> QED
  BY <1>1, <1>2, <1>3

(* A step that leaves the collection and the catalogue alone. *)
LEMMA NoPatchFits ==
  ASSUME JobInv, UNCHANGED <<job, sent>>
  PROVE  /\ job' \in [Event -> Job]
         /\ sent' \in [Event -> SUBSET (0 .. Batches)]
         /\ \A k \in Event : job'[k] = job[k]
         /\ \A k \in Event : sent[k] \subseteq sent'[k] /\ (job'[k].bad = 0 => job[k].bad = 0)
         /\ \A k \in Event : JobFits(k)'
BY DEF JobInv, JobsTyped, JobFits, Is

(* A fault is counted at most once, and only below the bound. *)
LEMMA FaultsTyped ==
  ASSUME JobInv, UNCHANGED faults \/ \E kind : Fault(kind)
  PROVE  faults' \in 0 .. MaxFaults
BY StreamAssumption DEF JobInv, Fault

(* A worker whose task ends, whatever its loop does next. *)
LEMMA IdleFits ==
  ASSUME JobInv, NEW w \in Worker, NEW at \in {"idle", "claim"},
         task' = [task EXCEPT ![w].at = at],
         at = "idle" \/ loop'[w].at = "handle",
         \A v \in Worker \ {w} : loop'[v] = loop[v]
  PROVE  /\ task' \in [Worker -> Task]
         /\ OthersAlone(w) /\ Placed(w)' /\ TaskFits(w)'
         /\ task'[w].at = at
<1>1. /\ task' \in [Worker -> Task] /\ task'[w].at = at
      /\ \A v \in Worker \ {w} : task'[v] = task[v]
  BY DEF JobInv, JobsTyped, Task
<1> QED
  BY <1>1 DEF OthersAlone, Placed, TaskFits, Working, TaskAt

-----------------------------------------------------------------------------
(* The steps of a request *)

LEMMA RequestKeepsInv ==
  ASSUME JobInv, [JobNext]_jobVars, NEW j \in Event,
         FindActive(j) \/ Create(j) \/ Enqueue(j) \/ Withdraw(j) \/ RequestDies(j)
  PROVE  JobInv'
<1> USE DEF streamVars
<1>1. StreamInv'
  BY JobStepIsEventStep, StreamInvNext DEF JobInv
<1>2. UNCHANGED <<task, sent, loop>>
  BY DEF FindActive, Create, Enqueue, Withdraw, RequestDies, Publish, PublishLosesReply,
         PublishFails, Appended
<1>3. faults' \in 0 .. MaxFaults
  BY FaultsTyped DEF FindActive, Create, Enqueue, Withdraw, RequestDies, Publish,
     PublishLosesReply, PublishFails, Appended
<1>4. /\ job' \in [Event -> Job]
      /\ \A k \in Event : job'[k].bad = job[k].bad /\ job'[k].next = job[k].next
      /\ \A k \in Event : job'[k].status = job[k].status
                          \/ (k = j /\ job'[k].status \in {"queued", "failed"}
                              /\ request'[k] \notin {"new", "create"})
  <2>1. CASE FindActive(j) \/ Enqueue(j) \/ RequestDies(j)
    BY <2>1 DEF FindActive, Enqueue, RequestDies, JobInv, JobsTyped
  <2>2. CASE Create(j)
    BY <2>2 DEF Create, JobInv, JobsTyped, Job, Active
  <2>3. CASE Withdraw(j)
    <3>1. /\ "failed" \in {"none"} \cup Active \cup Terminal
          /\ job' = Patched(j, "failed") /\ UNCHANGED sent
      BY <2>3 DEF Withdraw, Terminal
    <3>2. /\ job' \in [Event -> Job]
          /\ \A k \in Event : k # j => job'[k] = job[k]
          /\ job'[j].status = "failed"
          /\ job'[j].bad = job[j].bad /\ job'[j].next = job[j].next
      BY <3>1, PatchFits
    <3> QED
      BY <2>3, <3>2 DEF Withdraw, JobInv, JobsTyped
  <2> QED
    BY <2>1, <2>2, <2>3
<1>5. JobsTyped'
  <2>1. request' \in [Event -> {"new", "create", "publish", "withdraw", "answered"}]
    BY DEF FindActive, Create, Enqueue, Withdraw, RequestDies, JobInv, JobsTyped
  <2> QED
    BY <1>2, <1>4, <2>1 DEF JobInv, JobsTyped, Placed, LoopAt, TaskAt
<1>6. Unpublished'
  <2>1. \A k \in Event : entry'[k] = entry[k]
                         \/ (k = j /\ request'[k] \notin {"new", "create", "publish"})
    BY DEF FindActive, Create, Enqueue, Withdraw, RequestDies, Publish, PublishLosesReply,
           PublishFails, Appended, stream, JobInv, JobsTyped, StreamInv, StreamShape
  <2>2. \A k \in Event : request'[k] = request[k]
                         \/ request[k] \in {"new", "create", "publish"}
                         \/ request'[k] = "answered"
    BY DEF FindActive, Create, Enqueue, Withdraw, RequestDies, JobInv, JobsTyped
  <2>3. \A k \in Event : request'[k] \in {"new", "create"} => request[k] \in {"new", "create"}
    BY DEF FindActive, Create, Enqueue, Withdraw, RequestDies, JobInv, JobsTyped
  <2> QED
    BY <1>4, <2>1, <2>2, <2>3 DEF JobInv, Unpublished, Is
<1>7. \A k \in Event : JobFits(k)'
  BY <1>2, <1>4 DEF JobInv, JobFits, Is
<1>8. ASSUME NEW v \in Worker, task'[v].at \in Working PROVE TaskFits(v)'
  <2>1. InHand(v) \in Event
    BY <1>2, <1>8, TaskInHand DEF TaskAt, Working
  <2> QED
    BY <1>2, <1>4, <1>8, <2>1 DEF JobInv, TaskFits, InHand
<1>9. \A v \in Worker : TaskFits(v)'
  BY <1>8 DEF TaskFits
<1> QED
  BY <1>1, <1>3, <1>5, <1>6, <1>7, <1>9 DEF JobInv

-----------------------------------------------------------------------------
(* The steps of a worker *)

(* Its loop's own steps, and its death, leave every job alone. *)
LEMMA TransportKeepsInv ==
  ASSUME JobInv, [JobNext]_jobVars, NEW w \in Worker, Reads(w) \/ Acks(w) \/ JobWorkerDies(w)
  PROVE  JobInv'
<1>1. /\ UNCHANGED <<request, job, sent>>
      /\ ReadNew(w) \/ ClaimStale(w) \/ Closes(w) \/ WorkerDies(w)
  BY DEF Reads, Acks, JobWorkerDies, Closes
<1>2. /\ \A v \in Worker \ {w} : loop'[v] = loop[v]
      /\ \A e \in Event : entry'[e] = "absent" <=> entry[e] = "absent"
  BY <1>1, LoopOfOthers, AbsentStays DEF JobInv
<1>3. faults' \in 0 .. MaxFaults
  BY FaultsTyped DEF Reads, Acks, JobWorkerDies, ReadNew, ClaimStale, Delivered, Ack,
     CountDeliveries, DeadLetter, AckDead, WorkerDies
<1>4. /\ task' \in [Worker -> Task] /\ task'[w].at = "idle"
      /\ \A v \in Worker \ {w} : task'[v] = task[v]
  <2>1. CASE Reads(w) \/ Acks(w)
    <3>1. UNCHANGED task
      BY <2>1 DEF Reads, Acks
    <3>2. ~LoopAt(w, "handle") /\ ~LoopAt(w, "callback")
      BY <2>1 DEF Reads, Acks, ReadNew, ClaimStale, Delivered, Ack, CountDeliveries,
         DeadLetter, AckDead, LoopAt
    <3> QED
      BY <3>1, <3>2 DEF JobInv, JobsTyped, Placed, LoopAt, TaskAt
  <2>2. CASE JobWorkerDies(w)
    <3>1. NoTask \in Task /\ NoTask.at = "idle"
      BY JobAssumption DEF NoTask, Task
    <3>2. task' = [task EXCEPT ![w] = NoTask]
      BY <2>2 DEF JobWorkerDies
    <3> QED
      BY <3>1, <3>2 DEF JobInv, JobsTyped
  <2> QED
    BY <2>1, <2>2
<1>5. OthersAlone(w) /\ Placed(w)' /\ TaskFits(w)'
  BY <1>2, <1>4 DEF OthersAlone, Placed, TaskFits, Working, TaskAt
<1> QED
  BY <1>1, <1>2, <1>3, <1>4, <1>5, NoPatchFits, WorkerKeepsInv

(* A handler that has nothing more to do for its job, or a callback. *)
LEMMA LeavesKeepsInv ==
  ASSUME JobInv, [JobNext]_jobVars, NEW w \in Worker,
         HandlerEnds(w) \/ HandlerRaises(w) \/ CallbackEnds(w) \/ UNCHANGED <<stream, loop>>,
         NEW at \in {"idle", "claim"},
         at = "claim" => LoopAt(w, "handle") /\ UNCHANGED loop,
         \/ task' = [task EXCEPT ![w].at = at]
         \/ (at = "idle" /\ TaskAt(w, "idle") /\ UNCHANGED task),
         UNCHANGED <<request, sent>>,
         faults' \in 0 .. MaxFaults,
         ~TaskAt(w, "idle") \/ ~LoopAt(w, "waiting"),
         \/ UNCHANGED job
         \/ \E status \in {"none"} \cup Active \cup Terminal :
              /\ status = "succeeded" => Is(InHand(w), {"succeeded"})
                                         \/ sent[InHand(w)] = 0 .. Batches - 1
              /\ job' = Patched(InHand(w), status)
  PROVE  JobInv'
<1>1. /\ \A v \in Worker \ {w} : loop'[v] = loop[v]
      /\ \A e \in Event : entry'[e] = "absent" <=> entry[e] = "absent"
  BY LoopOfOthers, AbsentStays DEF JobInv, Closes, stream
<1>2. InHand(w) \in Event /\ entry[InHand(w)] # "absent"
  BY TaskInHand
<1>3. /\ job' \in [Event -> Job]
      /\ sent' \in [Event -> SUBSET (0 .. Batches)]
      /\ \A k \in Event : k # InHand(w) => job'[k] = job[k]
      /\ \A k \in Event : sent[k] \subseteq sent'[k] /\ (job'[k].bad = 0 => job[k].bad = 0)
      /\ \A k \in Event : JobFits(k)'
  BY <1>2, NoPatchFits, PatchFits
<1>4. task' = [task EXCEPT ![w].at = at]
  BY DEF JobInv, JobsTyped, Task, TaskAt
<1>5. at = "idle" \/ loop'[w].at = "handle"
  BY DEF LoopAt
<1>6. task' \in [Worker -> Task] /\ OthersAlone(w) /\ Placed(w)' /\ TaskFits(w)'
  BY <1>1, <1>4, <1>5, IdleFits
<1> QED
  BY <1>1, <1>2, <1>3, <1>6, WorkerKeepsInv

(* A step within the handler, or within the callback. *)
LEMMA StaysKeepsInv ==
  ASSUME JobInv, [JobNext]_jobVars, NEW w \in Worker,
         UNCHANGED <<stream, loop, request>>,
         faults' \in 0 .. MaxFaults,
         ~TaskAt(w, "idle") \/ ~LoopAt(w, "waiting"),
         NEW t \in Task, task' = [task EXCEPT ![w] = t],
         t.at # "idle" => loop[w].at = IF t.at = "giveUp" THEN "callback" ELSE "handle",
         TaskFits(w)',
         job' \in [Event -> Job],
         \A k \in Event : k # InHand(w) => job'[k] = job[k],
         sent' \in [Event -> SUBSET (0 .. Batches)],
         \A k \in Event : sent[k] \subseteq sent'[k] /\ (job'[k].bad = 0 => job[k].bad = 0),
         \A k \in Event : JobFits(k)'
  PROVE  JobInv'
<1>1. /\ \A v \in Worker \ {w} : loop'[v] = loop[v]
      /\ \A e \in Event : entry'[e] = "absent" <=> entry[e] = "absent"
  BY DEF stream
<1>2. InHand(w) \in Event /\ entry[InHand(w)] # "absent"
  BY TaskInHand
<1>3. /\ task' \in [Worker -> Task] /\ task'[w] = t
      /\ \A v \in Worker \ {w} : task'[v] = task[v]
  BY DEF JobInv, JobsTyped
<1>4. OthersAlone(w) /\ Placed(w)'
  BY <1>1, <1>3 DEF OthersAlone, Placed, TaskAt
<1> QED
  BY <1>1, <1>2, <1>3, <1>4, WorkerKeepsInv

(* A task that turns to another place keeps its counters. *)
LEMMA TurnsTask ==
  ASSUME JobInv, NEW w \in Worker,
         NEW at \in {"idle", "claim", "plan", "submit", "sent", "refused", "finish", "review",
                     "noReview", "crashed", "giveUp"},
         Turns(w, at)
  PROVE  \E t \in Task : /\ task' = [task EXCEPT ![w] = t]
                         /\ t.at = at /\ t.index = task[w].index /\ t.bad = task[w].bad
<1> DEFINE t == [task[w] EXCEPT !.at = at]
<1>1. task' = [task EXCEPT ![w] = t]
  BY DEF Turns
<1>2. t \in Task /\ t.at = at /\ t.index = task[w].index /\ t.bad = task[w].bad
  BY DEF JobInv, JobsTyped, Task
<1> QED
  BY <1>1, <1>2

LEMMA StatusOfJob == 
  ASSUME JobInv, NEW j \in Event
  PROVE  job[j] \in Job /\ job[j].status \in {"none"} \cup Active \cup Terminal
BY DEF JobInv, JobsTyped, Job

(* run_facebook_sync_job up to the claim *)
LEMMA GetJobKeepsInv ==
  ASSUME JobInv, [JobNext]_jobVars, NEW w \in Worker, GetJob(w) PROVE JobInv'
<1>1. LoopAt(w, "handle") /\ TaskAt(w, "idle") /\ UNCHANGED <<request, job, sent>>
  BY DEF GetJob, Begins
<1>2. CASE HandlerEnds(w) /\ UNCHANGED task
  BY <1>1, <1>2, LeavesKeepsInv, FaultsTyped DEF HandlerEnds, LoopAt
<1>3. CASE Turns(w, "claim") /\ UNCHANGED streamVars
  BY <1>1, <1>3, LeavesKeepsInv, FaultsTyped DEF Turns, LoopAt, streamVars
<1> QED
  BY <1>2, <1>3 DEF GetJob

LEMMA ClaimJobKeepsInv ==
  ASSUME JobInv, [JobNext]_jobVars, NEW w \in Worker, ClaimJob(w) PROVE JobInv'
<1> DEFINE j == InHand(w)
<1>1. TaskAt(w, "claim") /\ ~TaskAt(w, "idle") /\ UNCHANGED <<request, sent>>
  BY DEF ClaimJob, TaskAt
<1>2. CASE Claimed(w, j) /\ UNCHANGED streamVars
  <2> DEFINE t == [at |-> "plan", index |-> job[j].next, bad |-> job[j].bad]
  <2>1. j \in Event
    BY <1>1, TaskInHand
  <2>2. t \in Task
    BY <2>1, StatusOfJob DEF Task, Job
  <2>3. "running" \in {"none"} \cup Active \cup Terminal
    BY DEF Active
  <2>4. job' = Patched(j, "running") /\ UNCHANGED sent
    BY <1>1, <1>2 DEF Claimed
  <2>5. /\ job' \in [Event -> Job]
        /\ sent' \in [Event -> SUBSET (0 .. Batches)]
        /\ \A k \in Event : k # j => job'[k] = job[k]
        /\ job'[j].bad = job[j].bad
        /\ \A k \in Event : sent[k] \subseteq sent'[k] /\ (job'[k].bad = 0 => job[k].bad = 0)
        /\ \A k \in Event : JobFits(k)'
    BY <2>1, <2>3, <2>4, PatchFits
  <2>6. task' = [task EXCEPT ![w] = t]
    BY <1>2 DEF Claimed
  <2>7. TaskFits(w)'
    <3>1. task'[w] = t /\ InHand(w)' = j
      BY <1>2, <2>2, <2>6 DEF JobInv, JobsTyped, InHand, streamVars
    <3>2. job[j].bad = 0 => 0 .. job[j].next - 1 \subseteq sent[j]
      BY <2>1 DEF JobInv, JobFits
    <3> QED
      BY <2>4, <2>5, <3>1, <3>2 DEF TaskFits
  <2>8. loop[w].at = "handle"
    BY <1>1 DEF JobInv, JobsTyped, Placed, TaskAt
  <2>9. UNCHANGED <<stream, loop, request>> /\ faults' \in 0 .. MaxFaults
    BY <1>1, <1>2, FaultsTyped DEF streamVars
  <2> HIDE DEF t
  <2>10. t.at = "plan"
    BY DEF t
  <2> QED
    BY <1>1, <2>2, <2>5, <2>6, <2>7, <2>8, <2>9, <2>10, StaysKeepsInv
<1>3. CASE Turns(w, "idle") /\ HandlerRaises(w) /\ UNCHANGED faults /\ UNCHANGED job
  BY <1>1, <1>3, LeavesKeepsInv, FaultsTyped DEF Turns
<1> QED
  BY <1>2, <1>3 DEF ClaimJob

(* _execute *)
LEMMA PlanKeepsInv ==
  ASSUME JobInv, [JobNext]_jobVars, NEW w \in Worker, Plan(w) PROVE JobInv'
<1> DEFINE j == InHand(w)
<1>1. /\ TaskAt(w, "plan") /\ ~TaskAt(w, "idle")
      /\ UNCHANGED <<stream, loop, faults, request, sent>>
  BY DEF Plan, TaskAt, Quiet
<1>2. j \in Event
  BY <1>1, TaskInHand
<1>3. job' = Patched(j, job[j].status)
  BY DEF Plan
<1>4. /\ job' \in [Event -> Job]
      /\ sent' \in [Event -> SUBSET (0 .. Batches)]
      /\ \A k \in Event : k # j => job'[k] = job[k]
      /\ job'[j].bad = job[j].bad
      /\ \A k \in Event : sent[k] \subseteq sent'[k] /\ (job'[k].bad = 0 => job[k].bad = 0)
      /\ \A k \in Event : JobFits(k)'
  <2>1. job[j].status = "succeeded" => Is(j, {"succeeded"})
    BY DEF Is
  <2> QED
    BY <1>1, <1>2, <1>3, <2>1, PatchFits, StatusOfJob
<1>5. PICK t \in Task : /\ task' = [task EXCEPT ![w] = t]
                        /\ t.at = NextBatch(task[w].index)
                        /\ t.index = task[w].index /\ t.bad = task[w].bad
  BY TurnsTask DEF Plan, NextBatch
<1>6. loop[w].at = "handle"
  BY <1>1 DEF JobInv, JobsTyped, Placed, TaskAt
<1>7. TaskFits(w)'
  <2>1. task'[w] = t /\ InHand(w)' = j
    BY <1>1, <1>5 DEF JobInv, JobsTyped, InHand
  <2>2. /\ task[w].bad = 0 => 0 .. task[w].index - 1 \subseteq sent[j]
        /\ job[j].bad = 0 => task[w].bad = 0
    BY <1>1 DEF JobInv, TaskFits, TaskAt, Working
  <2>3. task[w].index \in 0 .. Batches
    BY DEF JobInv, JobsTyped, Task
  <2> QED
    BY <1>1, <1>4, <1>5, <2>1, <2>2, <2>3, JobAssumption DEF TaskFits, NextBatch
<1>8. faults' \in 0 .. MaxFaults
  BY <1>1, FaultsTyped
<1> QED
  BY <1>1, <1>4, <1>5, <1>6, <1>7, <1>8, StaysKeepsInv DEF NextBatch

LEMMA SubmitKeepsInv ==
  ASSUME JobInv, [JobNext]_jobVars, NEW w \in Worker, Submit(w) PROVE JobInv'
<1> DEFINE j == InHand(w)
<1>1. /\ TaskAt(w, "submit") /\ ~TaskAt(w, "idle")
      /\ UNCHANGED <<stream, loop, faults, request, job>>
  BY DEF Submit, TaskAt, Quiet
<1>2. j \in Event /\ task[w].index \in 0 .. Batches /\ task[w].index < Batches
  BY <1>1, TaskInHand DEF JobInv, JobsTyped, Task, TaskFits, TaskAt, Working
<1>3. PICK at \in {"sent", "refused"} :
           /\ Turns(w, at)
           /\ sent' = IF at = "sent" THEN [sent EXCEPT ![j] = @ \cup {task[w].index}] ELSE sent
  BY DEF Submit
<1>4. PICK t \in Task : /\ task' = [task EXCEPT ![w] = t]
                        /\ t.at = at /\ t.index = task[w].index /\ t.bad = task[w].bad
  BY <1>3, TurnsTask
<1>5. /\ sent' \in [Event -> SUBSET (0 .. Batches)]
      /\ \A k \in Event : sent[k] \subseteq sent'[k]
      /\ \A k \in Event : sent'[k] \subseteq sent[k] \cup 0 .. Batches - 1
      /\ at = "sent" => task[w].index \in sent'[j]
  BY <1>2, <1>3, JobAssumption DEF JobInv, JobsTyped
<1>6. /\ job' \in [Event -> Job]
      /\ \A k \in Event : job'[k] = job[k]
  BY <1>1 DEF JobInv, JobsTyped
<1>7. \A k \in Event : JobFits(k)'
  <2> SUFFICES ASSUME NEW k \in Event PROVE JobFits(k)'
    OBVIOUS
  <2>1. JobFits(k)
    BY DEF JobInv
  <2> QED
    BY <1>5, <1>6, <2>1 DEF JobFits, Is
<1>8. TaskFits(w)'
  <2>1. task'[w] = t /\ InHand(w)' = j
    BY <1>1, <1>4 DEF JobInv, JobsTyped, InHand
  <2>2. /\ task[w].bad = 0 => 0 .. task[w].index - 1 \subseteq sent[j]
        /\ job[j].bad = 0 => task[w].bad = 0
    BY <1>1 DEF JobInv, TaskFits, TaskAt, Working
  <2> QED
    BY <1>2, <1>4, <1>5, <1>6, <2>1, <2>2 DEF TaskFits
<1>9. loop[w].at = "handle"
  BY <1>1 DEF JobInv, JobsTyped, Placed, TaskAt
<1>10. faults' \in 0 .. MaxFaults
  BY <1>1, FaultsTyped
<1> QED
  BY <1>1, <1>3, <1>4, <1>5, <1>6, <1>7, <1>8, <1>9, <1>10, StaysKeepsInv

LEMMA RetryKeepsInv ==
  ASSUME JobInv, [JobNext]_jobVars, NEW w \in Worker, Retry(w) PROVE JobInv'
<1> DEFINE j == InHand(w)
<1>1. /\ TaskAt(w, "submit") /\ ~TaskAt(w, "idle")
      /\ UNCHANGED <<stream, loop, faults, request, task, sent>>
  BY DEF Retry, TaskAt, Quiet
<1>2. j \in Event
  BY <1>1, TaskInHand
<1>3. "running" \in {"none"} \cup Active \cup Terminal /\ job' = Patched(j, "running")
  BY DEF Retry, Active
<1>4. /\ job' \in [Event -> Job]
      /\ sent' \in [Event -> SUBSET (0 .. Batches)]
      /\ \A k \in Event : k # j => job'[k] = job[k]
      /\ job'[j].bad = job[j].bad
      /\ \A k \in Event : sent[k] \subseteq sent'[k] /\ (job'[k].bad = 0 => job[k].bad = 0)
      /\ \A k \in Event : JobFits(k)'
  BY <1>1, <1>2, <1>3, PatchFits
<1>5. task[w] \in Task /\ task' = [task EXCEPT ![w] = task[w]]
  BY <1>1 DEF JobInv, JobsTyped
<1>6. TaskFits(w)'
  BY <1>1, <1>4 DEF JobInv, TaskFits, InHand
<1>7. loop[w].at = "handle" /\ task[w].at = "submit"
  BY <1>1 DEF JobInv, JobsTyped, Placed, TaskAt
<1>8. faults' \in 0 .. MaxFaults
  BY <1>1, FaultsTyped
<1> QED
  BY <1>1, <1>4, <1>5, <1>6, <1>7, <1>8, StaysKeepsInv

LEMMA RecordKeepsInv ==
  ASSUME JobInv, [JobNext]_jobVars, NEW w \in Worker, Record(w) PROVE JobInv'
<1> DEFINE j == InHand(w)
           next == task[w].index + 1
           bad == IF TaskAt(w, "refused") THEN task[w].bad + 1 ELSE task[w].bad
           r == [status |-> "running", beat |-> 0, next |-> next,
                 bad |-> IF TaskAt(w, "refused") THEN bad ELSE job[j].bad]
           t == [at |-> NextBatch(next), index |-> next, bad |-> bad]
<1>1. /\ TaskAt(w, "sent") \/ TaskAt(w, "refused")
      /\ ~TaskAt(w, "idle")
      /\ UNCHANGED <<stream, loop, faults, request, sent>>
  BY DEF Record, TaskAt, Quiet
<1>2. j \in Event
  BY <1>1, TaskInHand
<1>3. task[w].index \in 0 .. Batches /\ task[w].bad \in Nat /\ job[j] \in Job /\ job[j].bad \in Nat
  BY <1>2 DEF JobInv, JobsTyped, Task, Job
<1>4. /\ task[w].index < Batches
      /\ task[w].bad = 0 => 0 .. task[w].index - 1 \subseteq sent[j]
      /\ job[j].bad = 0 => task[w].bad = 0
      /\ TaskAt(w, "sent") => task[w].index \in sent[j]
  BY <1>1 DEF JobInv, TaskFits, TaskAt, Working
<1>5. next \in 0 .. Batches /\ bad \in Nat
  BY <1>3, <1>4, JobAssumption
<1>6. bad = 0 => 0 .. next - 1 \subseteq sent[j] /\ task[w].bad = 0 /\ TaskAt(w, "sent")
  BY <1>1, <1>3, <1>4
<1>7. job' = [job EXCEPT ![j] = r] /\ task' = [task EXCEPT ![w] = t]
  BY DEF Record
<1>8. r \in Job /\ t \in Task
  BY <1>3, <1>5, JobAssumption DEF Job, Task, Active, NextBatch
<1>9. r.bad = 0 => bad = 0 /\ job[j].bad = 0
  BY <1>3, <1>4
<1>10. /\ r.next = next /\ r.status = "running"
       /\ t.at = NextBatch(next) /\ t.index = next /\ t.bad = bad
  OBVIOUS
<1> HIDE DEF r, t, bad, next
<1>11. /\ job' \in [Event -> Job] /\ job'[j] = r
       /\ \A k \in Event : k # j => job'[k] = job[k]
  BY <1>2, <1>7, <1>8 DEF JobInv, JobsTyped
<1>12. /\ sent' \in [Event -> SUBSET (0 .. Batches)]
       /\ \A k \in Event : sent[k] \subseteq sent'[k] /\ (job'[k].bad = 0 => job[k].bad = 0)
  BY <1>1, <1>9, <1>11 DEF JobInv, JobsTyped
<1>13. \A k \in Event : JobFits(k)'
  BY <1>1, <1>6, <1>9, <1>10, <1>11 DEF JobInv, JobFits, Is
<1>14. task'[w] = t /\ InHand(w)' = j
  BY <1>1, <1>7, <1>8 DEF JobInv, JobsTyped, InHand
<1>15. TaskFits(w)'
  BY <1>1, <1>5, <1>6, <1>9, <1>10, <1>11, <1>14, JobAssumption DEF TaskFits, NextBatch
<1>16. loop[w].at = "handle" /\ t.at \notin {"idle", "giveUp"}
  BY <1>1, <1>10 DEF JobInv, JobsTyped, Placed, TaskAt, NextBatch
<1>17. faults' \in 0 .. MaxFaults
  BY <1>1, FaultsTyped
<1> QED
  BY <1>1, <1>7, <1>8, <1>11, <1>12, <1>13, <1>15, <1>16, <1>17, StaysKeepsInv

LEMMA FinishKeepsInv ==
  ASSUME JobInv, [JobNext]_jobVars, NEW w \in Worker, Finish(w) PROVE JobInv'
<1> DEFINE j == InHand(w)
<1>1. /\ TaskAt(w, "finish") /\ ~TaskAt(w, "idle")
      /\ UNCHANGED <<request, sent>>
      /\ job' = Patched(j, Summary(task[w].bad))
  BY DEF Finish, TaskAt
<1>2. j \in Event
  BY <1>1, TaskInHand
<1>3. /\ Summary(task[w].bad) \in {"none"} \cup Active \cup Terminal
      /\ Summary(task[w].bad) = "succeeded" => task[w].bad = 0
  BY DEF Summary, Terminal
<1>4. Summary(task[w].bad) = "succeeded" => sent[j] = 0 .. Batches - 1
  <2>1. task[w].bad = 0 => 0 .. Batches - 1 \subseteq sent[j]
    BY <1>1 DEF JobInv, TaskFits, TaskAt, Working
  <2>2. sent[j] \subseteq 0 .. Batches - 1
    BY <1>2 DEF JobInv, JobFits
  <2> QED
    BY <1>3, <2>1, <2>2
<1>5. CASE Turns(w, "review") /\ UNCHANGED streamVars
  <2>1. /\ job' \in [Event -> Job]
        /\ sent' \in [Event -> SUBSET (0 .. Batches)]
        /\ \A k \in Event : k # j => job'[k] = job[k]
        /\ \A k \in Event : sent[k] \subseteq sent'[k] /\ (job'[k].bad = 0 => job[k].bad = 0)
        /\ \A k \in Event : JobFits(k)'
    BY <1>1, <1>2, <1>3, <1>4, PatchFits
  <2>2. PICK t \in Task : task' = [task EXCEPT ![w] = t] /\ t.at = "review"
    BY <1>5, TurnsTask
  <2>3. loop[w].at = "handle"
    BY <1>1 DEF JobInv, JobsTyped, Placed, TaskAt
  <2>4. TaskFits(w)'
    BY <2>2 DEF JobInv, JobsTyped, TaskFits, Working
  <2>5. UNCHANGED <<stream, loop>> /\ faults' \in 0 .. MaxFaults
    BY <1>5, FaultsTyped DEF streamVars
  <2> QED
    BY <1>1, <2>1, <2>2, <2>3, <2>4, <2>5, StaysKeepsInv
<1>6. CASE Turns(w, "idle") /\ HandlerEnds(w)
  <2>1. faults' \in 0 .. MaxFaults
    BY <1>6, FaultsTyped DEF HandlerEnds
  <2> QED
    BY <1>1, <1>3, <1>4, <1>6, <2>1, LeavesKeepsInv DEF Turns
<1> QED
  BY <1>5, <1>6 DEF Finish

(* The last note of a job, the failing of one that crashed, and the giving *)
(* up of an abandoned one.                                                 *)
LEMMA ClosesJobKeepsInv ==
  ASSUME JobInv, [JobNext]_jobVars, NEW w \in Worker, NoteReview(w) \/ FailJob(w) \/ GiveUp(w)
  PROVE  JobInv'
<1>1. /\ ~TaskAt(w, "idle")
      /\ task' = [task EXCEPT ![w].at = "idle"]
      /\ UNCHANGED <<request, sent>>
      /\ HandlerEnds(w) \/ CallbackEnds(w)
  BY DEF NoteReview, FailJob, GiveUp, TaskAt, Turns
<1>2. faults' \in 0 .. MaxFaults
  BY FaultsTyped DEF NoteReview, FailJob, GiveUp, HandlerEnds
<1>3. InHand(w) \in Event
  BY <1>1, TaskInHand
<1>4. PICK status : /\ status \in {"failed", job[InHand(w)].status}
                    /\ job' = Patched(InHand(w), status)
  BY DEF NoteReview, FailJob, GiveUp
<1>5. /\ status \in {"none"} \cup Active \cup Terminal
      /\ status = "succeeded" => Is(InHand(w), {"succeeded"})
  BY <1>3, <1>4, StatusOfJob DEF Terminal, Is
<1> QED
  BY <1>1, <1>2, <1>4, <1>5, LeavesKeepsInv

LEMMA MongoFailsKeepsInv ==
  ASSUME JobInv, [JobNext]_jobVars, NEW w \in Worker, MongoFails(w) PROVE JobInv'
<1>1. UNCHANGED <<stream, request, job, sent>> /\ faults' \in 0 .. MaxFaults
  BY FaultsTyped DEF MongoFails
<1>2. ASSUME NEW at \in {"crashed", "noReview"}, Turns(w, at), UNCHANGED loop,
             ~TaskAt(w, "idle"), ~TaskAt(w, "giveUp")
      PROVE  JobInv'
  <2>1. PICK t \in Task : task' = [task EXCEPT ![w] = t] /\ t.at = at
    BY <1>2, TurnsTask
  <2>2. loop[w].at = "handle"
    BY <1>2 DEF JobInv, JobsTyped, Placed
  <2>3. TaskFits(w)'
    BY <2>1 DEF JobInv, JobsTyped, TaskFits, Working
  <2> QED
    BY <1>1, <1>2, <2>1, <2>2, <2>3, NoPatchFits, StaysKeepsInv
<1>3. ASSUME Turns(w, "idle"), HandlerRaises(w) \/ CallbackEnds(w),
             ~TaskAt(w, "idle") \/ ~LoopAt(w, "waiting")
      PROVE  JobInv'
  BY <1>1, <1>3, LeavesKeepsInv DEF Turns
<1> QED
  BY <1>2, <1>3 DEF MongoFails, Begins, TaskAt, LoopAt

LEMMA CallbackKeepsInv ==
  ASSUME JobInv, [JobNext]_jobVars, NEW w \in Worker, Callback(w) PROVE JobInv'
<1> DEFINE j == InHand(w)
<1>1. LoopAt(w, "callback") /\ ~LoopAt(w, "waiting") /\ TaskAt(w, "idle")
      /\ UNCHANGED <<request, sent>>
  BY DEF Callback, LoopAt
<1>2. j \in Event
  BY <1>1, TaskInHand
<1>3. CASE job' = Patched(j, "running") /\ Turns(w, "giveUp") /\ UNCHANGED streamVars
  <2>1. "running" \in {"none"} \cup Active \cup Terminal
    BY DEF Active
  <2>2. /\ job' \in [Event -> Job]
        /\ sent' \in [Event -> SUBSET (0 .. Batches)]
        /\ \A k \in Event : k # j => job'[k] = job[k]
        /\ \A k \in Event : sent[k] \subseteq sent'[k] /\ (job'[k].bad = 0 => job[k].bad = 0)
        /\ \A k \in Event : JobFits(k)'
    BY <1>1, <1>2, <1>3, <2>1, PatchFits
  <2>3. PICK t \in Task : task' = [task EXCEPT ![w] = t] /\ t.at = "giveUp"
    BY <1>3, TurnsTask
  <2>4. TaskFits(w)'
    BY <2>3 DEF JobInv, JobsTyped, TaskFits, Working
  <2>5. UNCHANGED <<stream, loop>> /\ faults' \in 0 .. MaxFaults /\ loop[w].at = "callback"
    BY <1>1, <1>3, FaultsTyped DEF streamVars, LoopAt
  <2> QED
    BY <1>1, <2>2, <2>3, <2>4, <2>5, StaysKeepsInv
<1>4. CASE CallbackEnds(w) /\ UNCHANGED faults /\ UNCHANGED <<job, task>>
  BY <1>1, <1>4, LeavesKeepsInv, FaultsTyped
<1> QED
  BY <1>3, <1>4 DEF Callback

LEMMA TickKeepsInv ==
  ASSUME JobInv, [JobNext]_jobVars, Tick PROVE JobInv'
<1>1. StreamInv'
  BY JobStepIsEventStep, StreamInvNext DEF JobInv
<1>2. UNCHANGED <<request, task, sent, loop, entry, faults>>
  BY DEF Tick, IdlePasses
<1>3. /\ job' \in [Event -> Job]
      /\ \A k \in Event : /\ job'[k].status = job[k].status
                          /\ job'[k].bad = job[k].bad /\ job'[k].next = job[k].next
  <2> SUFFICES ASSUME NEW k \in Event
               PROVE  /\ job'[k] \in Job /\ job'[k].status = job[k].status
                      /\ job'[k].bad = job[k].bad /\ job'[k].next = job[k].next
    BY DEF Tick
  <2>1. job[k] \in Job
    BY StatusOfJob
  <2>2. CASE Is(k, Active) /\ job[k].beat < StaleAfter
    <3>1. job'[k] = [job[k] EXCEPT !.beat = @ + 1]
      BY <2>2 DEF Tick
    <3>2. job[k].beat + 1 \in 0 .. StaleAfter
      BY <2>1, <2>2, JobAssumption DEF Job
    <3> QED
      BY <2>1, <3>1, <3>2 DEF Job
  <2>3. CASE ~(Is(k, Active) /\ job[k].beat < StaleAfter)
    BY <2>1, <2>3 DEF Tick
  <2> QED
    BY <2>2, <2>3
<1>4. JobsTyped' /\ Unpublished'
  BY <1>2, <1>3 DEF JobInv, JobsTyped, Unpublished, Placed, LoopAt, TaskAt, Is
<1>5. \A k \in Event : JobFits(k)'
  BY <1>2, <1>3 DEF JobInv, JobFits, Is
<1>6. ASSUME NEW v \in Worker, task'[v].at \in Working PROVE TaskFits(v)'
  <2>1. InHand(v) \in Event
    BY <1>2, <1>6, TaskInHand DEF TaskAt, Working
  <2> QED
    BY <1>2, <1>3, <1>6, <2>1 DEF JobInv, TaskFits, InHand
<1>7. \A v \in Worker : TaskFits(v)'
  BY <1>6 DEF TaskFits
<1> QED
  BY <1>1, <1>2, <1>4, <1>5, <1>7 DEF JobInv

-----------------------------------------------------------------------------
LEMMA JobInvInit == JobInit => JobInv
<1> SUFFICES ASSUME JobInit PROVE JobInv
  OBVIOUS
<1>1. StreamInv /\ faults \in 0 .. MaxFaults
  BY StreamInvInit, StreamAssumption DEF JobInit, EventInit
<1>2. NoJob \in Job /\ NoTask \in Task /\ NoTask.at = "idle"
  BY JobAssumption DEF NoJob, Job, NoTask, Task
<1>3. JobsTyped
  BY <1>2 DEF JobInit, JobsTyped, Placed, TaskAt
<1>4. Unpublished
  BY DEF JobInit, EventInit, Unpublished, Is, NoJob
<1>5. \A j \in Event : JobFits(j)
  BY JobAssumption DEF JobInit, JobFits, Is, NoJob
<1>6. \A w \in Worker : TaskFits(w)
  BY <1>2 DEF JobInit, TaskFits, Working
<1> QED
  BY <1>1, <1>3, <1>4, <1>5, <1>6 DEF JobInv

LEMMA JobInvNext == ASSUME JobInv, [JobNext]_jobVars PROVE JobInv'
<1>1. CASE UNCHANGED jobVars
  <2>1. StreamInv'
    BY JobStepIsEventStep, StreamInvNext DEF JobInv
  <2> QED
    BY <1>1, <2>1 DEF jobVars, streamVars, stream, JobInv, JobsTyped, Unpublished, JobFits,
       TaskFits, Placed, LoopAt, TaskAt, InHand, Is
<1>2. ASSUME NEW w \in Worker, Works(w) \/ Reads(w) \/ JobWorkerDies(w) PROVE JobInv'
  BY <1>2, TransportKeepsInv, GetJobKeepsInv, ClaimJobKeepsInv, PlanKeepsInv, SubmitKeepsInv,
     RecordKeepsInv, FinishKeepsInv, ClosesJobKeepsInv, CallbackKeepsInv DEF Works
<1>3. ASSUME NEW w \in Worker, Retry(w) \/ MongoFails(w) PROVE JobInv'
  BY <1>3, RetryKeepsInv, MongoFailsKeepsInv
<1> QED
  BY <1>1, <1>2, <1>3, RequestKeepsInv, TickKeepsInv DEF JobNext

(* Every part of the system keeps its type, and a worker is inside a job   *)
(* exactly where its loop awaits the handler or the callback.              *)
THEOREM JobTyping == JobSpec => []JobTypeOK
<1>1. JobInv => JobTypeOK
  BY DEF JobInv, JobTypeOK, JobsTyped, StreamInv, StreamShape, StreamTypeOK, Placed
<1> QED
  BY <1>1, JobInvInit, JobInvNext, PTL DEF JobSpec

(* A job that says it succeeded has sent every batch, however often it was *)
(* redelivered, resumed and run by workers that overlap                    *)
(* (run_facebook_sync_job, _execute).                                      *)
THEOREM SuccessIsEarned == JobSpec => []SucceededMeansSent
<1>1. JobInv => SucceededMeansSent
  BY DEF JobInv, JobFits, SucceededMeansSent
<1> QED
  BY <1>1, JobInvInit, JobInvNext, PTL DEF JobSpec

-----------------------------------------------------------------------------
(* One runner, while no runner stalls *)

Sending == {"plan", "submit", "sent", "refused"}

(* A job that is run is not to be claimed, no two workers run it, and the  *)
(* one that does has the job's own next batch.                             *)
Owned ==
  /\ \A v, w \in Worker, j \in Event : Runs(v, j) /\ Runs(w, j) => v = w
  /\ \A w \in Worker, j \in Event : Runs(w, j) => ~Claimable(j)
  /\ \A w \in Worker : task[w].at \in Sending => task[w].index = job[InHand(w)].next

(* A worker's step keeps that if it changes only a job it runs or claims.  *)
LEMMA WorkerKeepsOwned ==
  ASSUME JobInv, Owned, NEW w \in Worker, OthersAlone(w),
         \A k \in Event : k # InHand(w) => job'[k] = job[k],
         Runs(w, InHand(w)) \/ Claimable(InHand(w)) \/ UNCHANGED job,
         \A k \in Event : Runs(w, k)' =>
            /\ k = InHand(w) /\ InHand(w)' = InHand(w)
            /\ Runs(w, k) \/ Claimable(k)
            /\ ~Claimable(k)'
            /\ task'[w].at \in Sending => task'[w].index = job'[k].next,
         task'[w].at \in Sending => InHand(w)' \in Event
  PROVE  Owned'
<1>1. ASSUME NEW v \in Worker, v # w
      PROVE  task'[v] = task[v] /\ InHand(v)' = InHand(v) /\ \A k \in Event : Runs(v, k)' <=> Runs(v, k)
  BY <1>1 DEF OthersAlone, InHand, Runs
<1>2. ASSUME NEW v \in Worker, v # w, NEW k \in Event, Runs(v, k)
      PROVE  job'[k] = job[k] /\ ~Runs(w, k) /\ ~Claimable(k)
  BY <1>2 DEF Owned
<1>3. \A v \in Worker, k \in Event : Runs(v, k)' /\ Runs(w, k)' => v = w
  BY <1>1, <1>2
<1>4. \A u, v \in Worker, k \in Event : Runs(u, k)' /\ Runs(v, k)' => u = v
  BY <1>1, <1>3 DEF Owned
<1>5. \A v \in Worker, k \in Event : Runs(v, k)' => ~Claimable(k)'
  BY <1>1, <1>2 DEF Claimable, Is
<1>6. ASSUME NEW v \in Worker, task'[v].at \in Sending
      PROVE  task'[v].index = job'[InHand(v)'].next
  <2>1. CASE v = w
    BY <1>6, <2>1 DEF Runs, Sending
  <2>2. CASE v # w
    <3>1. task[v].at \in Sending /\ task[v] = task'[v] /\ InHand(v)' = InHand(v)
      BY <1>1, <1>6, <2>2
    <3>2. InHand(v) \in Event
      BY <3>1, TaskInHand DEF TaskAt, Sending
    <3>3. Runs(v, InHand(v))
      BY <3>1 DEF Runs, Sending
    <3> QED
      BY <1>2, <2>2, <3>1, <3>2, <3>3 DEF Owned
  <2> QED
    BY <2>1, <2>2
<1> QED
  BY <1>4, <1>5, <1>6 DEF Owned

(* A worker that lets go of its job, or never had it. *)
LEMMA LeavesKeepsOwned ==
  ASSUME JobInv, Owned, NEW w \in Worker,
         \/ HandlerEnds(w) \/ HandlerRaises(w) \/ Closes(w) \/ ReadNew(w) \/ ClaimStale(w)
         \/ WorkerDies(w) \/ UNCHANGED loop,
         \A v \in Worker \ {w} : task'[v] = task[v],
         task'[w].at \in {"idle", "claim"},
         \A k \in Event : k # InHand(w) => job'[k] = job[k],
         Runs(w, InHand(w)) \/ UNCHANGED job
  PROVE  Owned'
<1>1. OthersAlone(w)
  BY LoopOfOthers DEF JobInv, OthersAlone
<1>2. ~(task'[w].at \in Sending) /\ \A k \in Event : ~Runs(w, k)'
  BY DEF Runs, Sending
<1> QED
  BY <1>1, <1>2, WorkerKeepsOwned

(* A worker that runs its job on, or claims it. *)
LEMMA StaysKeepsOwned ==
  ASSUME JobInv, Owned, NEW w \in Worker, UNCHANGED loop,
         InHand(w) \in Event,
         \A v \in Worker \ {w} : task'[v] = task[v],
         \A k \in Event : k # InHand(w) => job'[k] = job[k],
         Runs(w, InHand(w)) \/ Claimable(InHand(w)),
         ~Claimable(InHand(w))',
         task'[w].at \in Sending => task'[w].index = job'[InHand(w)].next
  PROVE  Owned'
<1>1. OthersAlone(w) /\ InHand(w)' = InHand(w)
  BY DEF OthersAlone, InHand
<1>2. \A k \in Event : Runs(w, k)' => k = InHand(w)
  BY <1>1 DEF Runs
<1> QED
  BY <1>1, <1>2, WorkerKeepsOwned

(* A patch refreshes the heartbeat. *)
LEMMA PatchedIsNotClaimable ==
  ASSUME JobInv, NEW j \in Event, NEW status, status # "queued", job' = Patched(j, status)
  PROVE  /\ ~Claimable(j)'
         /\ job'[j].next = job[j].next /\ job'[j].status = status
         /\ \A k \in Event : k # j => job'[k] = job[k]
<1>1. job \in [Event -> Job] /\ job[j] \in Job
  BY DEF JobInv, JobsTyped
<1>2. /\ job'[j].status = status /\ job'[j].beat = 0 /\ job'[j].next = job[j].next
      /\ \A k \in Event : k # j => job'[k] = job[k]
  BY <1>1 DEF Patched, Job
<1> QED
  BY <1>2, JobAssumption DEF Claimable, Is

LEMMA OwnedNext ==
  ASSUME JobInv, Owned, "stall" \notin Faults, [JobNext]_jobVars
  PROVE  Owned'
<1> USE DEF streamVars
<1>0. ASSUME UNCHANGED <<task, loop>>,
             \A j \in Event : job'[j].next = job[j].next,
             \A w \in Worker, j \in Event : Runs(w, j) => ~Claimable(j)'
      PROVE  Owned'
  <2>1. \A w \in Worker : InHand(w)' = InHand(w)
    BY <1>0 DEF InHand
  <2>2. \A w \in Worker, j \in Event : Runs(w, j)' <=> Runs(w, j)
    BY <1>0, <2>1 DEF Runs
  <2>3. ASSUME NEW w \in Worker, task[w].at \in Sending PROVE InHand(w) \in Event
    BY <2>3, TaskInHand DEF TaskAt, Sending
  <2> QED
    BY <1>0, <2>1, <2>2, <2>3 DEF Owned
<1>1. CASE UNCHANGED jobVars
  BY <1>0, <1>1 DEF jobVars, Owned, Claimable, Is
<1>2. ASSUME NEW j \in Event, FindActive(j) \/ Enqueue(j) \/ RequestDies(j) PROVE Owned'
  <2>1. UNCHANGED <<task, loop, job>>
    BY <1>2 DEF FindActive, Enqueue, RequestDies, Publish, PublishLosesReply, PublishFails,
       Appended
  <2> QED
    BY <1>0, <2>1 DEF Owned, Claimable, Is
<1>3. ASSUME NEW j \in Event, Create(j) \/ Withdraw(j) PROVE Owned'
  <2>1. UNCHANGED <<task, loop>>
    BY <1>3 DEF Create, Withdraw
  <2>2. CASE Create(j)
    <3>1. \A w \in Worker : ~Runs(w, j)
      BY <2>2, TaskInHand DEF Create, JobInv, Unpublished, Runs, TaskAt
    <3>2. /\ \A k \in Event : job'[k].next = job[k].next
          /\ \A k \in Event : k # j => job'[k] = job[k]
      BY <2>2 DEF Create, JobInv, JobsTyped, Job
    <3> QED
      BY <1>0, <2>1, <3>1, <3>2 DEF Owned, Claimable, Is
  <2>3. CASE Withdraw(j)
    <3>1. /\ ~Claimable(j)' /\ job'[j].next = job[j].next
          /\ \A k \in Event : k # j => job'[k] = job[k]
      BY <2>3, PatchedIsNotClaimable DEF Withdraw
    <3> QED
      BY <1>0, <2>1, <3>1 DEF Owned, Claimable, Is
  <2> QED
    BY <1>3, <2>2, <2>3
<1>4. ASSUME NEW w \in Worker, Reads(w) \/ Acks(w) \/ JobWorkerDies(w) PROVE Owned'
  <2>1. /\ ReadNew(w) \/ ClaimStale(w) \/ Closes(w) \/ WorkerDies(w)
        /\ UNCHANGED job
    BY <1>4 DEF Reads, Acks, JobWorkerDies, Closes
  <2>2. /\ \A v \in Worker \ {w} : task'[v] = task[v]
        /\ task'[w].at = "idle"
    <3>1. CASE Reads(w) \/ Acks(w)
      <4>1. ~LoopAt(w, "handle") /\ ~LoopAt(w, "callback") /\ UNCHANGED task
        BY <3>1 DEF Reads, Acks, ReadNew, ClaimStale, Delivered, Ack, CountDeliveries,
           DeadLetter, AckDead, LoopAt
      <4> QED
        BY <4>1 DEF JobInv, JobsTyped, Placed, LoopAt, TaskAt
    <3>2. CASE JobWorkerDies(w)
      BY <3>2 DEF JobWorkerDies, NoTask, JobInv, JobsTyped
    <3> QED
      BY <1>4, <3>1, <3>2
  <2> QED
    BY <2>1, <2>2, LeavesKeepsOwned
<1>5. ASSUME NEW w \in Worker, NEW at \in {"idle", "claim"}, Turns(w, at),
             HandlerEnds(w) \/ HandlerRaises(w) \/ CallbackEnds(w) \/ UNCHANGED loop,
             \A k \in Event : k # InHand(w) => job'[k] = job[k],
             Runs(w, InHand(w)) \/ UNCHANGED job
      PROVE  Owned'
  <2>1. task'[w].at = at /\ \A v \in Worker \ {w} : task'[v] = task[v]
    BY <1>5 DEF Turns, JobInv, JobsTyped, Task
  <2> QED
    BY <1>5, <2>1, LeavesKeepsOwned DEF Closes
<1>6. ASSUME NEW w \in Worker, GetJob(w) PROVE Owned'
  <2>1. CASE HandlerEnds(w) /\ UNCHANGED task
    <3>1. task[w].at = "idle"
      BY <1>6 DEF GetJob, Begins, TaskAt
    <3> QED
      BY <1>6, <2>1, <3>1, LeavesKeepsOwned DEF GetJob
  <2>2. CASE Turns(w, "claim") /\ UNCHANGED streamVars
    BY <1>5, <1>6, <2>2 DEF GetJob
  <2> QED
    BY <1>6, <2>1, <2>2 DEF GetJob
<1>7. ASSUME NEW w \in Worker, ClaimJob(w) PROVE Owned'
  <2>1. CASE Claimable(InHand(w)) /\ Claimed(w, InHand(w)) /\ UNCHANGED streamVars
    <3>1. InHand(w) \in Event
      BY <1>7, TaskInHand DEF ClaimJob, TaskAt
    <3>2. PICK j \in Event : j = InHand(w) /\ j = InHand(w)'
      BY <2>1, <3>1 DEF InHand
    <3>4. /\ ~Claimable(j)' /\ job'[j].next = job[j].next
          /\ \A k \in Event : k # j => job'[k] = job[k]
      BY <2>1, <3>2, PatchedIsNotClaimable DEF Claimed
    <3>3. /\ task'[w].index = job[InHand(w)].next
          /\ \A v \in Worker \ {w} : task'[v] = task[v]
      BY <2>1 DEF Claimed, JobInv, JobsTyped
    <3> QED
      BY <2>1, <3>2, <3>3, <3>4, StaysKeepsOwned
  <2>2. CASE Turns(w, "idle") /\ HandlerRaises(w) /\ UNCHANGED job
    BY <1>5, <2>2
  <2> QED
    BY <1>7, <2>1, <2>2 DEF ClaimJob
<1>8. ASSUME NEW w \in Worker, NEW status, status # "queued",
             Runs(w, InHand(w)) \/ Claimable(InHand(w)),
             job' = Patched(InHand(w), status), UNCHANGED loop,
             InHand(w) \in Event,
             \A v \in Worker \ {w} : task'[v] = task[v],
             task'[w].at \in Sending => task'[w].index = job[InHand(w)].next
      PROVE  Owned'
  <2>1. PICK j \in Event : j = InHand(w) /\ j = InHand(w)'
    BY <1>8 DEF InHand
  <2>2. /\ ~Claimable(j)' /\ job'[j].next = job[j].next
        /\ \A k \in Event : k # j => job'[k] = job[k]
    BY <1>8, <2>1, PatchedIsNotClaimable
  <2> QED
    BY <1>8, <2>1, <2>2, StaysKeepsOwned
<1>9. ASSUME NEW w \in Worker, task[w].at \notin {"idle", "claim"}
      PROVE  InHand(w) \in Event /\ Runs(w, InHand(w)) /\ ~Claimable(InHand(w))
  <2>1. InHand(w) \in Event
    BY <1>9, TaskInHand DEF TaskAt
  <2>2. Runs(w, InHand(w))
    BY <1>9 DEF Runs, JobInv, JobsTyped, Task
  <2> QED
    BY <2>1, <2>2 DEF Owned
<1>10. ASSUME NEW w \in Worker, Plan(w) \/ Retry(w) PROVE Owned'
  <2>1. task[w].at \in {"plan", "submit"} /\ UNCHANGED loop
    BY <1>10 DEF Plan, Retry, TaskAt, Quiet
  <2>2. InHand(w) \in Event /\ Runs(w, InHand(w)) /\ ~Claimable(InHand(w))
    BY <1>9, <2>1
  <2>3. PICK status : status # "queued" /\ job' = Patched(InHand(w), status)
    BY <1>10, <2>2 DEF Plan, Retry, Claimable, Is
  <2>4. /\ \A v \in Worker \ {w} : task'[v] = task[v]
        /\ task'[w].index = task[w].index
    BY <1>10 DEF Plan, Retry, Turns, JobInv, JobsTyped, Task
  <2>5. task[w].index = job[InHand(w)].next
    BY <2>1 DEF Owned, Sending
  <2> QED
    BY <1>8, <2>1, <2>2, <2>3, <2>4, <2>5
<1>11. ASSUME NEW w \in Worker, Submit(w) PROVE Owned'
  <2>1. task[w].at = "submit" /\ UNCHANGED <<loop, job>>
    BY <1>11 DEF Submit, TaskAt, Quiet
  <2>2. InHand(w) \in Event /\ Runs(w, InHand(w)) /\ ~Claimable(InHand(w))
    BY <1>9, <2>1
  <2>3. /\ \A v \in Worker \ {w} : task'[v] = task[v]
        /\ task'[w].index = task[w].index
    BY <1>11 DEF Submit, Turns, JobInv, JobsTyped, Task
  <2>4. task[w].index = job[InHand(w)].next
    BY <2>1 DEF Owned, Sending
  <2>5. ~Claimable(InHand(w))'
    BY <2>1, <2>2 DEF Claimable, Is, InHand
  <2> QED
    BY <2>1, <2>2, <2>3, <2>4, <2>5, StaysKeepsOwned
<1>12. ASSUME NEW w \in Worker, Record(w) PROVE Owned'
  <2>1. task[w].at \in {"sent", "refused"} /\ UNCHANGED loop
    BY <1>12 DEF Record, Quiet
  <2>2. PICK j \in Event : j = InHand(w) /\ j = InHand(w)' /\ Runs(w, j)
    BY <1>9, <2>1 DEF InHand
  <2>3. /\ job'[j].status = "running" /\ job'[j].beat = 0
        /\ job'[j].next = task[w].index + 1
        /\ \A k \in Event : k # j => job'[k] = job[k]
    BY <1>12, <2>2 DEF Record, JobInv, JobsTyped
  <2>4. /\ \A v \in Worker \ {w} : task'[v] = task[v]
        /\ task'[w].index = task[w].index + 1
    BY <1>12 DEF Record, JobInv, JobsTyped
  <2>5. ~Claimable(j)'
    BY <2>3, JobAssumption DEF Claimable, Is
  <2> QED
    BY <2>1, <2>2, <2>3, <2>4, <2>5, StaysKeepsOwned
<1>13. ASSUME NEW w \in Worker, Finish(w) PROVE Owned'
  <2>1. task[w].at = "finish" /\ Summary(task[w].bad) # "queued"
    BY <1>13 DEF Finish, TaskAt, Summary
  <2>2. InHand(w) \in Event /\ Runs(w, InHand(w))
    BY <1>9, <2>1
  <2>3. job' = Patched(InHand(w), Summary(task[w].bad))
    BY <1>13 DEF Finish
  <2>4. CASE Turns(w, "review") /\ UNCHANGED streamVars
    <3>1. task'[w].at = "review" /\ \A v \in Worker \ {w} : task'[v] = task[v]
      BY <2>4 DEF Turns, JobInv, JobsTyped, Task
    <3> QED
      BY <1>8, <2>1, <2>2, <2>3, <2>4, <3>1 DEF Sending
  <2>5. CASE Turns(w, "idle") /\ HandlerEnds(w)
    <3>1. \A k \in Event : k # InHand(w) => job'[k] = job[k]
      BY <2>1, <2>2, <2>3, PatchedIsNotClaimable
    <3> QED
      BY <1>5, <2>2, <2>5, <3>1
  <2> QED
    BY <1>13, <2>4, <2>5 DEF Finish
<1>14. ASSUME NEW w \in Worker, NoteReview(w) \/ FailJob(w) \/ GiveUp(w) PROVE Owned'
  <2>1. /\ task[w].at \notin {"idle", "claim"} /\ Turns(w, "idle")
        /\ HandlerEnds(w) \/ CallbackEnds(w)
    BY <1>14 DEF NoteReview, FailJob, GiveUp, TaskAt
  <2>2. InHand(w) \in Event /\ Runs(w, InHand(w)) /\ ~Claimable(InHand(w))
    BY <1>9, <2>1
  <2>3. PICK status : status # "queued" /\ job' = Patched(InHand(w), status)
    BY <1>14, <2>2 DEF NoteReview, FailJob, GiveUp, Claimable, Is
  <2>4. \A k \in Event : k # InHand(w) => job'[k] = job[k]
    BY <2>2, <2>3, PatchedIsNotClaimable
  <2> QED
    BY <1>5, <2>1, <2>2, <2>4
<1>15. ASSUME NEW w \in Worker, MongoFails(w) PROVE Owned'
  <2>1. UNCHANGED job
    BY <1>15 DEF MongoFails
  <2>2. ASSUME NEW at \in {"crashed", "noReview"}, Turns(w, at), UNCHANGED loop,
               task[w].at \notin {"idle", "claim"}
        PROVE  Owned'
    <3>1. InHand(w) \in Event /\ Runs(w, InHand(w)) /\ ~Claimable(InHand(w))
      BY <1>9, <2>2
    <3>2. task'[w].at = at /\ \A v \in Worker \ {w} : task'[v] = task[v]
      BY <2>2 DEF Turns, JobInv, JobsTyped, Task
    <3>3. ~Claimable(InHand(w))'
      BY <2>1, <2>2, <3>1 DEF Claimable, Is, InHand
    <3> QED
      BY <2>1, <2>2, <3>1, <3>2, <3>3, StaysKeepsOwned DEF Sending
  <2>3. ASSUME Turns(w, "idle"), HandlerRaises(w) \/ CallbackEnds(w) PROVE Owned'
    BY <1>5, <2>1, <2>3
  <2> QED
    BY <1>15, <2>2, <2>3 DEF MongoFails, TaskAt
<1>16. ASSUME NEW w \in Worker, Callback(w) PROVE Owned'
  <2>1. LoopAt(w, "callback") /\ TaskAt(w, "idle") /\ InHand(w) \in Event
    BY <1>16, TaskInHand DEF Callback, LoopAt
  <2>2. CASE Claimable(InHand(w)) /\ job' = Patched(InHand(w), "running") /\ Turns(w, "giveUp")
             /\ UNCHANGED streamVars
    <3>1. task'[w].at = "giveUp" /\ \A v \in Worker \ {w} : task'[v] = task[v]
      BY <2>2 DEF Turns, JobInv, JobsTyped, Task
    <3> QED
      BY <1>8, <2>1, <2>2, <3>1 DEF Sending
  <2>3. CASE CallbackEnds(w) /\ UNCHANGED <<job, task>>
    BY <2>1, <2>3, LeavesKeepsOwned DEF Closes, TaskAt
  <2> QED
    BY <1>16, <2>2, <2>3 DEF Callback
<1>17. CASE Tick
  <2>1. UNCHANGED <<task, loop>>
    BY <1>17 DEF Tick, IdlePasses
  <2>2. \A k \in Event : job'[k].next = job[k].next /\ job'[k].status = job[k].status
    BY <1>17, StatusOfJob DEF Tick, Job
  <2>3. ASSUME NEW w \in Worker, NEW k \in Event, Runs(w, k) PROVE ~Claimable(k)'
    <3>1. job[k].beat + 1 < StaleAfter /\ ~Claimable(k)
      BY <1>17, <2>3 DEF Tick, Owned
    <3>2. job'[k].beat = job[k].beat \/ job'[k].beat = job[k].beat + 1
      BY <1>17, StatusOfJob DEF Tick, Job
    <3>3. job[k].beat \in 0 .. StaleAfter
      BY StatusOfJob DEF Job
    <3> QED
      BY <2>2, <3>1, <3>2, <3>3, JobAssumption DEF Claimable, Is
  <2> QED
    BY <1>0, <2>1, <2>2, <2>3
<1>18. ASSUME NEW w \in Worker, Works(w) PROVE Owned'
  BY <1>4, <1>6, <1>7, <1>10, <1>11, <1>12, <1>13, <1>14, <1>16, <1>18 DEF Works
<1> QED
  BY <1>1, <1>2, <1>3, <1>4, <1>10, <1>15, <1>17, <1>18 DEF JobNext

OwnInv == JobInv /\ ("stall" \notin Faults => Owned)

LEMMA OwnInvInit == JobInit => OwnInv
<1> SUFFICES ASSUME JobInit PROVE OwnInv
  OBVIOUS
<1>1. \A w \in Worker : task[w].at = "idle"
  BY DEF JobInit, NoTask
<1>2. Owned
  BY <1>1 DEF Owned, Runs, Sending
<1> QED
  BY <1>2, JobInvInit DEF OwnInv

LEMMA OwnInvNext == OwnInv /\ [JobNext]_jobVars => OwnInv'
BY JobInvNext, OwnedNext DEF OwnInv

(* Two workers never run one job at once, as long as no runner is silent   *)
(* for STALE_AFTER_SECONDS (BackgroundJobService.claim).                   *)
THEOREM OneWorkerRuns == JobSpec => []OneRunner
<1>1. OwnInv => OneRunner
  BY DEF OwnInv, Owned, OneRunner
<1> QED
  BY <1>1, OwnInvInit, OwnInvNext, PTL DEF JobSpec

(* Nor is a recorded batch sent again (_execute resumes at next_chunk). *)
THEOREM BatchesAreNotRepeated == JobSpec => []NoBatchRepeated
<1>1. OwnInv => NoBatchRepeated
  <2> SUFFICES ASSUME OwnInv, "stall" \notin Faults, NEW w \in Worker, TaskAt(w, "submit")
               PROVE  task[w].index >= job[InHand(w)].next
    BY DEF NoBatchRepeated
  <2>1. task[w].index = job[InHand(w)].next
    BY DEF OwnInv, Owned, Sending, TaskAt
  <2>2. task[w].index \in 0 .. Batches
    BY DEF OwnInv, JobInv, JobsTyped, Task
  <2> QED
    BY <2>1, <2>2, JobAssumption
<1> QED
  BY <1>1, OwnInvInit, OwnInvNext, PTL DEF JobSpec

-----------------------------------------------------------------------------
(* A finished job stays finished *)

(* A call withdraws only what is not in the stream, so a job that a worker *)
(* is working at says that it is running.                                  *)
Marked ==
  /\ \A j \in Event : request[j] = "withdraw" => entry[j] = "absent"
  /\ \A w \in Worker : task[w].at \in Working => Is(InHand(w), {"running"})

Strict == {"stall", "reply"} \cap Faults = {}

MarkedInv == OwnInv /\ (Strict => Marked)

LEMMA MarkedRequest ==
  ASSUME JobInv, Strict, Marked, NEW j \in Event,
         FindActive(j) \/ Create(j) \/ Enqueue(j) \/ Withdraw(j) \/ RequestDies(j)
  PROVE  Marked'
<1> USE DEF streamVars
<1>1. UNCHANGED <<task, loop>>
  BY DEF FindActive, Create, Enqueue, Withdraw, RequestDies, Publish, PublishLosesReply,
         PublishFails, Appended
<1>2. \A k \in Event : request'[k] = "withdraw" => entry'[k] = "absent"
  <2>1. ~PublishLosesReply(j)
    BY DEF PublishLosesReply, Fault, Strict
  <2>2. CASE Enqueue(j)
    BY <2>1, <2>2 DEF Enqueue, Publish, PublishFails, Appended, stream, Marked, JobInv,
       JobsTyped, StreamInv, StreamShape
  <2>3. CASE FindActive(j) \/ Create(j) \/ Withdraw(j) \/ RequestDies(j)
    BY <2>3 DEF FindActive, Create, Withdraw, RequestDies, stream, Marked, JobInv, JobsTyped
  <2> QED
    BY <2>2, <2>3
<1>3. ASSUME NEW w \in Worker, task[w].at \in Working PROVE Is(InHand(w), {"running"})'
  <2>1. InHand(w) \in Event /\ entry[InHand(w)] # "absent" /\ InHand(w)' = InHand(w)
    BY <1>1, <1>3, TaskInHand DEF TaskAt, Working, InHand
  <2>2. job'[InHand(w)] = job[InHand(w)]
    <3>1. CASE FindActive(j) \/ Enqueue(j) \/ RequestDies(j)
      BY <3>1 DEF FindActive, Enqueue, RequestDies
    <3>2. CASE Create(j) \/ Withdraw(j)
      <4>1. entry[j] = "absent"
        BY <3>2 DEF Create, Withdraw, JobInv, Unpublished, Marked
      <4>2. j # InHand(w)
        BY <2>1, <4>1
      <4> QED
        BY <2>1, <3>2, <4>2 DEF Create, Withdraw, Patched, JobInv, JobsTyped
    <3> QED
      BY <3>1, <3>2
  <2> QED
    BY <1>3, <2>1, <2>2 DEF Marked, Is
<1> QED
  BY <1>1, <1>2, <1>3 DEF Marked

(* A worker's step: what it works at after it is running then. *)
LEMMA WorkerKeepsMarked ==
  ASSUME JobInv, Owned, Marked, NEW w \in Worker, OthersAlone(w), UNCHANGED request,
         \A e \in Event : entry'[e] = "absent" <=> entry[e] = "absent",
         \A k \in Event : k # InHand(w) => job'[k] = job[k],
         Runs(w, InHand(w)) \/ Claimable(InHand(w)) \/ UNCHANGED job,
         task'[w].at \in Working => Is(InHand(w), {"running"})'
  PROVE  Marked'
<1>1. ASSUME NEW v \in Worker, v # w, task'[v].at \in Working
      PROVE  Is(InHand(v), {"running"})'
  <2>1. task[v] = task'[v] /\ InHand(v)' = InHand(v)
    BY <1>1 DEF OthersAlone, InHand
  <2>2. InHand(v) \in Event
    BY <1>1, <2>1, TaskInHand DEF TaskAt, Working
  <2>3. Runs(v, InHand(v))
    BY <1>1, <2>1 DEF Runs, Working
  <2>4. job'[InHand(v)] = job[InHand(v)]
    BY <1>1, <2>2, <2>3 DEF Owned
  <2> QED
    BY <1>1, <2>1, <2>4 DEF Marked, Is
<1> QED
  BY <1>1 DEF Marked

(* A step of a worker is about the job it has at hand, which it runs or    *)
(* claims if it changes it.                                                *)
LEMMA WorkerStepIsLocal ==
  ASSUME JobInv, NEW w \in Worker,
         Works(w) \/ Reads(w) \/ Retry(w) \/ MongoFails(w) \/ JobWorkerDies(w)
  PROVE  /\ OthersAlone(w)
         /\ UNCHANGED request
         /\ \A e \in Event : entry'[e] = "absent" <=> entry[e] = "absent"
         /\ \A k \in Event : k # InHand(w) => job'[k] = job[k]
         /\ Runs(w, InHand(w)) \/ Claimable(InHand(w)) \/ UNCHANGED job
<1> USE DEF streamVars
<1> DEFINE Steps == \/ HandlerEnds(w) \/ HandlerRaises(w) \/ Closes(w) \/ ReadNew(w)
                    \/ ClaimStale(w) \/ WorkerDies(w) \/ UNCHANGED <<stream, loop>>
<1>1. UNCHANGED request
  BY DEF Works, GetJob, ClaimJob, Plan, Submit, Retry, Record, Finish, NoteReview, FailJob,
         MongoFails, Callback, GiveUp, Reads, Acks, JobWorkerDies, Quiet
<1>2. Steps
  <2>1. Plan(w) \/ Submit(w) \/ Record(w) \/ Retry(w) => Steps
    BY DEF Plan, Submit, Record, Retry, Quiet
  <2>2. GetJob(w) \/ ClaimJob(w) \/ Finish(w) \/ NoteReview(w) \/ FailJob(w) => Steps
    BY DEF GetJob, ClaimJob, Finish, NoteReview, FailJob
  <2>3. MongoFails(w) \/ Callback(w) \/ GiveUp(w) => Steps
    BY DEF MongoFails, Callback, GiveUp, Closes
  <2>4. Reads(w) \/ Acks(w) \/ JobWorkerDies(w) => Steps
    BY DEF Reads, Acks, JobWorkerDies, Closes
  <2> QED
    BY <2>1, <2>2, <2>3, <2>4 DEF Works
<1>3. /\ \A v \in Worker \ {w} : loop'[v] = loop[v]
      /\ \A e \in Event : entry'[e] = "absent" <=> entry[e] = "absent"
  BY <1>2, LoopOfOthers, AbsentStays DEF JobInv, stream
<1>4. \A v \in Worker \ {w} : task'[v] = task[v]
  BY DEF Works, GetJob, ClaimJob, Claimed, Plan, Submit, Retry, Record, Finish, NoteReview,
         FailJob, MongoFails, Callback, GiveUp, Reads, Acks, JobWorkerDies, Quiet, Turns,
         JobInv, JobsTyped
<1>5. \A k \in Event : k # InHand(w) => job'[k] = job[k]
  BY DEF Works, GetJob, ClaimJob, Claimed, Plan, Submit, Retry, Record, Finish, NoteReview,
         FailJob, MongoFails, Callback, GiveUp, Reads, Acks, JobWorkerDies, Quiet, Patched,
         JobInv, JobsTyped
<1>6. Runs(w, InHand(w)) \/ Claimable(InHand(w)) \/ UNCHANGED job
  BY DEF Works, GetJob, ClaimJob, Plan, Submit, Retry, Record, Finish, NoteReview, FailJob,
         MongoFails, Callback, GiveUp, Reads, Acks, JobWorkerDies, Quiet, Runs, TaskAt
<1> QED
  BY <1>1, <1>3, <1>4, <1>5, <1>6 DEF OthersAlone

LEMMA MarkedWorker ==
  ASSUME JobInv, Owned, Marked, NEW w \in Worker,
         Works(w) \/ Reads(w) \/ Retry(w) \/ MongoFails(w) \/ JobWorkerDies(w)
  PROVE  Marked'
<1> USE DEF streamVars
<1>1. ASSUME task'[w].at \in Working PROVE Is(InHand(w), {"running"})'
  <2>2. ASSUME ~TaskAt(w, "idle") \/ ~LoopAt(w, "waiting"), UNCHANGED loop,
               job' = Patched(InHand(w), "running")
        PROVE  Is(InHand(w), {"running"})'
    <3>1. PICK j \in Event : j = InHand(w) /\ j = InHand(w)'
      BY <2>2, TaskInHand DEF InHand
    <3>2. job'[j].status = "running"
      BY <2>2, <3>1, PatchedIsNotClaimable
    <3> QED
      BY <3>1, <3>2 DEF Is
  <2>3. ASSUME NEW at, Turns(w, at) PROVE task'[w].at = at
    BY <2>3 DEF Turns, JobInv, JobsTyped, Task
  <2>4. CASE Plan(w)
    <3>1. task[w].at = "plan" /\ job[InHand(w)].status = "running"
      BY <2>4 DEF Plan, TaskAt, Marked, Working, Is
    <3> QED
      BY <2>2, <2>4, <3>1 DEF Plan, Quiet, TaskAt
  <2>5. CASE Submit(w)
    <3>1. task[w].at = "submit" /\ UNCHANGED <<loop, job>>
      BY <2>5 DEF Submit, TaskAt, Quiet
    <3> QED
      BY <3>1 DEF Marked, Working, Is, InHand
  <2>6. CASE Retry(w)
    BY <2>2, <2>6 DEF Retry, Quiet, TaskAt
  <2>7. CASE Record(w)
    <3>1. UNCHANGED loop /\ ~TaskAt(w, "idle")
      BY <2>7 DEF Record, Quiet, TaskAt
    <3>2. PICK j \in Event : j = InHand(w) /\ j = InHand(w)'
      BY <3>1, TaskInHand DEF InHand
    <3>3. job'[j].status = "running"
      BY <2>7, <3>2 DEF Record, JobInv, JobsTyped
    <3> QED
      BY <3>2, <3>3 DEF Is
  <2>8. CASE ClaimJob(w)
    <3>1. CASE Claimed(w, InHand(w)) /\ UNCHANGED streamVars
      BY <2>2, <2>8, <3>1 DEF Claimed, ClaimJob, TaskAt
    <3>2. CASE Turns(w, "idle")
      BY <1>1, <2>3, <3>2 DEF Working
    <3> QED
      BY <2>8, <3>1, <3>2 DEF ClaimJob
  <2>9. CASE GetJob(w) \/ Reads(w) \/ Acks(w) \/ JobWorkerDies(w)
    <3>2. CASE Reads(w) \/ Acks(w)
      <4>1. loop[w].at = "handle"
        BY <1>1, <3>2 DEF Reads, Acks, JobInv, JobsTyped, Placed, TaskAt, Working
      <4> QED
        BY <3>2, <4>1 DEF Reads, Acks, ReadNew, ClaimStale, Delivered, Ack, CountDeliveries,
           DeadLetter, AckDead, LoopAt
    <3>3. CASE GetJob(w) \/ JobWorkerDies(w)
      <4>1. task'[w].at \in {"idle", "claim"}
        BY <2>3, <3>3 DEF GetJob, Begins, TaskAt, JobWorkerDies, NoTask, JobInv, JobsTyped
      <4> QED
        BY <1>1, <4>1 DEF Working
    <3> QED
      BY <2>9, <3>2, <3>3
  <2>10. CASE Finish(w) \/ NoteReview(w) \/ FailJob(w) \/ MongoFails(w) \/ GiveUp(w)
    <3>1. PICK at \in {"review", "idle", "crashed", "noReview"} : Turns(w, at)
      BY <2>10 DEF Finish, NoteReview, FailJob, MongoFails, GiveUp
    <3> QED
      BY <1>1, <2>3, <3>1 DEF Working
  <2>11. CASE Callback(w)
    <3>1. CASE Turns(w, "giveUp")
      BY <1>1, <2>3, <3>1 DEF Working
    <3>2. CASE UNCHANGED task
      BY <1>1, <2>11, <3>2 DEF Callback, TaskAt, Working
    <3> QED
      BY <2>11, <3>1, <3>2 DEF Callback
  <2> QED
    BY <2>4, <2>5, <2>6, <2>7, <2>8, <2>9, <2>10, <2>11 DEF Works
<1> QED
  BY <1>1, WorkerStepIsLocal, WorkerKeepsMarked

LEMMA MarkedInvNext == MarkedInv /\ [JobNext]_jobVars => MarkedInv'
<1> SUFFICES ASSUME MarkedInv, [JobNext]_jobVars PROVE MarkedInv'
  OBVIOUS
<1>1. OwnInv'
  BY OwnInvNext DEF MarkedInv
<1>2. ASSUME Strict PROVE Marked'
  <2>1. JobInv /\ Owned /\ Marked
    BY <1>2 DEF MarkedInv, OwnInv, Strict
  <2>2. CASE UNCHANGED jobVars
    BY <2>1, <2>2 DEF jobVars, streamVars, stream, Marked, InHand, Is
  <2>3. CASE Tick
    <3>1. UNCHANGED <<request, entry, task, loop>>
      BY <2>3 DEF Tick, IdlePasses
    <3>2. \A k \in Event : job'[k].status = job[k].status
      BY <2>1, <2>3, StatusOfJob DEF Tick, Job
    <3>3. \A w \in Worker : task[w].at \in Working => InHand(w) \in Event
      BY <2>1, TaskInHand DEF TaskAt, Working
    <3> QED
      BY <2>1, <3>1, <3>2, <3>3 DEF Marked, InHand, Is
  <2> QED
    BY <1>2, <2>1, <2>2, <2>3, MarkedRequest, MarkedWorker DEF JobNext
<1> QED
  BY <1>1, <1>2 DEF MarkedInv, Strict

LEMMA FinishedStaysInStep ==
  ASSUME MarkedInv, [JobNext]_jobVars, NEW j \in Event, Is(j, Terminal), Strict
  PROVE  job'[j].status \in Terminal
<1> USE DEF Is
<1>1. JobInv /\ Owned /\ Marked /\ job \in [Event -> Job]
  BY DEF MarkedInv, OwnInv, Strict, JobInv, JobsTyped
<1>2. job[j].status \notin {"none", "queued", "running"}
  BY DEF Terminal
<1>3. ASSUME NEW w \in Worker, InHand(w) = j PROVE task[w].at \notin Working /\ ~Claimable(j)
  BY <1>1, <1>2, <1>3 DEF Marked, Claimable
<1>4. ASSUME NEW w \in Worker, NEW status, job' = Patched(InHand(w), status),
             InHand(w) = j => status \in Terminal
      PROVE  job'[j].status \in Terminal
  <2>1. CASE InHand(w) = j
    BY <1>1, <1>4, <2>1 DEF Patched, Job
  <2>2. CASE InHand(w) # j
    BY <1>1, <1>4, <2>2 DEF Patched
  <2> QED
    BY <2>1, <2>2
<1>5. CASE UNCHANGED job
  BY <1>5
<1>6. ASSUME NEW k \in Event, Create(k) \/ Withdraw(k) PROVE job'[j].status \in Terminal
  <2>1. CASE Create(k)
    BY <1>1, <1>2, <2>1 DEF Create, JobInv, Unpublished
  <2>2. CASE Withdraw(k)
    BY <1>1, <2>2 DEF Withdraw, Patched, Terminal
  <2> QED
    BY <1>6, <2>1, <2>2
<1>7. CASE Tick
  BY <1>1, <1>7, StatusOfJob DEF Tick, Job
<1>8. ASSUME NEW w \in Worker, Plan(w) \/ Finish(w) \/ NoteReview(w) \/ FailJob(w) \/ GiveUp(w)
      PROVE  job'[j].status \in Terminal
  <2>1. PICK status : /\ job' = Patched(InHand(w), status)
                      /\ status \in {"failed", job[InHand(w)].status, Summary(task[w].bad)}
    BY <1>8 DEF Plan, Finish, NoteReview, FailJob, GiveUp
  <2>2. Summary(task[w].bad) \in Terminal /\ "failed" \in Terminal
    BY DEF Summary, Terminal
  <2> QED
    BY <1>4, <2>1, <2>2
<1>9. ASSUME NEW w \in Worker, ClaimJob(w) \/ Callback(w) PROVE job'[j].status \in Terminal
  <2>1. UNCHANGED job \/ (Claimable(InHand(w)) /\ job' = Patched(InHand(w), "running"))
    BY <1>9 DEF ClaimJob, Callback, Claimed
  <2> QED
    BY <1>3, <1>4, <1>5, <2>1
<1>10. ASSUME NEW w \in Worker, Retry(w) PROVE job'[j].status \in Terminal
  <2>1. task[w].at \in Working /\ job' = Patched(InHand(w), "running")
    BY <1>10 DEF Retry, TaskAt, Working
  <2> QED
    BY <1>3, <1>4, <2>1
<1>11. ASSUME NEW w \in Worker, Record(w) PROVE job'[j].status \in Terminal
  <2>1. task[w].at \in Working
    BY <1>11 DEF Record, Working
  <2>2. InHand(w) # j
    BY <1>3, <2>1
  <2> QED
    BY <1>1, <1>11, <2>2 DEF Record
<1>12. ASSUME NEW w \in Worker,
              GetJob(w) \/ Submit(w) \/ MongoFails(w) \/ Reads(w) \/ Acks(w) \/ JobWorkerDies(w)
       PROVE  UNCHANGED job
  BY <1>12 DEF GetJob, Submit, MongoFails, Reads, Acks, JobWorkerDies
<1>13. ASSUME NEW k \in Event, FindActive(k) \/ Enqueue(k) \/ RequestDies(k) PROVE UNCHANGED job
  BY <1>13 DEF FindActive, Enqueue, RequestDies
<1> QED
  BY <1>5, <1>6, <1>7, <1>8, <1>9, <1>10, <1>11, <1>12, <1>13 DEF JobNext, Works, jobVars

(* No step takes a job back from the statuses of a finished one, while no  *)
(* runner stalls and every published entry is known to be published        *)
(* (patch has no filter: the callers keep to this).                        *)
THEOREM FinishedJobsStay == JobSpec => FinishedStays
<1>1. JobInit => MarkedInv
  <2> SUFFICES ASSUME JobInit PROVE MarkedInv
    OBVIOUS
  <2>1. Marked
    BY DEF JobInit, Marked, Working, NoTask
  <2> QED
    BY <2>1, OwnInvInit DEF MarkedInv
<1>2. MarkedInv /\ [JobNext]_jobVars =>
        [\A j \in Event : Is(j, Terminal) /\ {"stall", "reply"} \cap Faults = {}
                            => job'[j].status \in Terminal]_jobVars
  BY FinishedStaysInStep DEF Strict
<1> QED
  BY <1>1, <1>2, MarkedInvNext, PTL DEF JobSpec, FinishedStays
=============================================================================
