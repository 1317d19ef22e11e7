------------------------ MODULE CallKentTranscription ------------------------
(***************************************************************************)
(* The Call Kent transcription queue of the site worker: the rows that ask *)
(* for a transcript (a caller's recording, an episode draft), the queue of *)
(* jobs, the consumers that claim a row under a lease and write its        *)
(* result, the two-minute recovery cron, and the requests of the caller    *)
(* and of the admin that create, supersede, edit and delete the rows.      *)
(*                                                                         *)
(* Every action is one database call, queue operation or external call of  *)
(* the code: whatever may happen between two awaits may happen between two *)
(* actions.  Time is counted down in ticks (a row carries what is left of  *)
(* its lease and the age of its updatedAt), so no clock has to be bounded. *)
(***************************************************************************)
EXTENDS Naturals, FiniteSets

CONSTANTS
  Calls,       \* call ids
  DraftCalls,  \* the calls for which an episode draft may be recorded
  Workers,     \* consumer invocations that may run at the same time
  Jobs,        \* job ids (UUIDs); an id no longer in use may be minted again
  Leases,      \* lease ids (UUIDs), likewise
  LeaseTicks,  \* PROCESSING_LEASE_MILLISECONDS in ticks
  StaleTicks,  \* STALE_PROCESSING_MILLISECONDS in ticks
  MaxDeliveryAttempts,  \* MAX_DELIVERY_ATTEMPTS, 3 in the code
  MaxFaults,   \* bound on infrastructure faults (crashes, failed enqueues, ...)
  None,        \* SQL null
  Manual       \* a text typed by a person

ASSUME DraftCallsAssumption == DraftCalls \subseteq Calls
ASSUME TicksAssumption == LeaseTicks \in Nat \ {0} /\ StaleTicks \in Nat \ {0}
ASSUME AttemptsAssumption == MaxDeliveryAttempts \in Nat \ {0}
ASSUME FaultsAssumption == MaxFaults \in Nat
ASSUME NullAssumption ==
  /\ None \notin Jobs \cup Leases
  /\ Manual \notin Jobs \cup {None}

VARIABLES
  row,       \* the Call row and the draft row of each call
  queue,     \* messages waiting for delivery
  worker,    \* the consumer invocations
  dispatch,  \* enqueues under way: of a request handler, or of the cron
  faults     \* infrastructure faults so far

vars == <<row, queue, worker, dispatch, faults>>

-----------------------------------------------------------------------------
(* Data.                                                                   *)

Ids == ({"call"} \X Calls) \cup ({"draft"} \X DraftCalls)
IsDraft(i) == i[1] = "draft"
CallerOf(i) == <<"call", i[2]>>

\* Who wrote a text: the job that produced it, a person, or nobody yet.
Texts == Jobs \cup {None, Manual}
Metadata == {"missing", "generated", "edited"}

\* STARTED and GENERATING_AUDIO are one step here: every guard of the code
\* that names one of them names both.
Steps == {"AUDIO", "TRANSCRIBING", "GENERATING_METADATA", "DONE"}

Row == [status : {"ABSENT", "NOT_STARTED", "PROCESSING", "READY", "ERROR"},
        job    : Jobs \cup {None},
        lease  : Leases \cup {None},
        left   : 0..LeaseTicks,       \* until leaseExpiresAt
        age    : 0..(StaleTicks + 1), \* since updatedAt, while PROCESSING
        step   : Steps,
        text   : Texts,               \* callerTranscript or transcript
        meta   : Metadata]            \* title, description and keywords

Absent == [status |-> "ABSENT", job |-> None, lease |-> None, left |-> 0,
           age |-> 0, step |-> "DONE", text |-> None, meta |-> "missing"]

\* A job payload with the number of deliveries it has had.
Messages == [id : Ids, job : Jobs, attempts : 0..(MaxDeliveryAttempts - 1)]

Dispatches == [id : Ids, job : Jobs, by : {"request", "cron"},
               stage : {"audio", "enqueue", "touch"}]

\* What a consumer invocation is about to do.
Processing == {"loading", "marking", "transcribing", "metadata", "describing"}
Outcomes == {"stale", "deferred", "failed"}

Worker == [pc    : {"idle", "claiming"} \cup Processing \cup Outcomes,
           id    : Ids \cup {None},
           job   : Jobs \cup {None},
           attempts : 0..MaxDeliveryAttempts,
           lease : Leases \cup {None},
           text  : Texts,          \* the transcript it read or made
           meta  : Metadata]       \* the metadata it read

Idle == [pc |-> "idle", id |-> None, job |-> None, attempts |-> 0,
         lease |-> None, text |-> None, meta |-> "missing"]

JobsInUse ==
  {row[i].job : i \in Ids} \cup {row[i].text : i \in Ids}
    \cup {worker[w].job : w \in Workers} \cup {worker[w].text : w \in Workers}
    \cup {m.job : m \in queue} \cup {d.job : d \in dispatch}

LeasesInUse ==
  {row[i].lease : i \in Ids} \cup {worker[w].lease : w \in Workers}

FreshJobs == Jobs \ JobsInUse
FreshLeases == Leases \ LeasesInUse

\* randomUUID never repeats: with enough ids there is always an unused one.
Fault == faults < MaxFaults /\ faults' = faults + 1

-----------------------------------------------------------------------------
(* Requests of the caller and of the admin.                                *)

\* What a dispatcher writes afterwards is guarded by the job and PROCESSING.
Awaits(i, j) == row[i].status = "PROCESSING" /\ row[i].job = j

\* A request handler goes on to hand the job over: to the transcription queue,
\* or to the audio worker.
HandsOver(i, j, stage) ==
  dispatch' = dispatch \cup
    {[id |-> i, job |-> j, by |-> "request", stage |-> stage]}

\* createCall: a typed question is its own transcript; a recording is stored
\* as PROCESSING with a new job id, which is enqueued afterwards.
CreateCall(c) ==
  LET i == <<"call", c>> IN
  /\ row[i].status = "ABSENT"
  /\ \/ /\ row' = [row EXCEPT ![i] =
                     [Absent EXCEPT !.status = "READY", !.text = Manual]]
        /\ UNCHANGED dispatch
     \/ \E j \in FreshJobs :
          /\ row' = [row EXCEPT ![i] =
                       [Absent EXCEPT !.status = "PROCESSING", !.job = j]]
          /\ HandsOver(i, j, "enqueue")
  /\ UNCHANGED <<queue, worker, faults>>

\* generateCallerTranscript: a new job supersedes whatever was under way; the
\* previous transcript stays until the new one is written.
GenerateCallerTranscript(c) ==
  LET i == <<"call", c>> IN
  /\ row[i].status # "ABSENT"
  /\ \E j \in FreshJobs :
       /\ row' = [row EXCEPT ![i] =
                    [@ EXCEPT !.status = "PROCESSING", !.job = j,
                              !.lease = None, !.left = 0, !.age = 0]]
       /\ HandsOver(i, j, "enqueue")
  /\ UNCHANGED <<queue, worker, faults>>

\* updateCallerTranscript: the admin types a transcript or empties it.
UpdateCallerTranscript(c) ==
  LET i == <<"call", c>> IN
  /\ row[i].status # "ABSENT"
  /\ \/ row' = [row EXCEPT ![i] = [Absent EXCEPT !.status = "NOT_STARTED"]]
     \/ row' = [row EXCEPT ![i] =
                  [Absent EXCEPT !.status = "READY", !.text = Manual]]
  /\ UNCHANGED <<queue, worker, dispatch, faults>>

\* deleteCall, and the end of publishCall: the draft goes with the call.
DeleteCall(c) ==
  /\ row[<<"call", c>>].status # "ABSENT"
  /\ row' = [i \in Ids |-> IF i[2] = c THEN Absent ELSE row[i]]
  /\ UNCHANGED <<queue, worker, dispatch, faults>>

\* createEpisodeDraft: the old draft is replaced by one with a new job id,
\* which waits for the audio worker.  A draft's id and its job id are minted
\* together, so the job id stands for both.
CreateEpisodeDraft(c) ==
  /\ row[<<"call", c>>].status # "ABSENT"
  /\ \E j \in FreshJobs :
       /\ row' = [row EXCEPT ![<<"draft", c>>] =
                    [Absent EXCEPT !.status = "PROCESSING", !.job = j,
                                   !.step = "AUDIO"]]
       /\ HandsOver(<<"draft", c>>, j, "audio")
  /\ UNCHANGED <<queue, worker, faults>>

\* The end of createEpisodeDraft: the audio worker's queue answered ...
AudioRequested(d) ==
  /\ d.stage = "audio"
  /\ dispatch' = dispatch \ {d}
  /\ UNCHANGED <<row, queue, worker, faults>>

\* ... or the request failed, or timed out although it was queued: the draft is
\* set to ERROR if it is still PROCESSING, wherever the audio worker has got to.
AudioRequestFails(d) ==
  /\ d.stage = "audio"
  /\ row' = IF Awaits(d.id, d.job)
            THEN [row EXCEPT ![d.id] = [@ EXCEPT !.status = "ERROR",
                                                 !.step = "DONE", !.age = 0]]
            ELSE row
  /\ dispatch' = dispatch \ {d}
  /\ Fault
  /\ UNCHANGED <<queue, worker>>

\* undoEpisodeDraft.
UndoEpisodeDraft(c) ==
  /\ row[<<"draft", c>>].status # "ABSENT"
  /\ row' = [row EXCEPT ![<<"draft", c>>] = Absent]
  /\ UNCHANGED <<queue, worker, dispatch, faults>>

\* updateEpisodeDraft, and the form fields of publishCall: whatever draft the
\* call has, in whatever state, gets the text or the metadata of the form.
UpdateEpisodeDraft(c) ==
  LET i == <<"draft", c>> IN
  /\ row[i].status # "ABSENT"
  /\ \/ row' = [row EXCEPT ![i] = [@ EXCEPT !.text = Manual, !.age = 0]]
     \/ row' = [row EXCEPT ![i] = [@ EXCEPT !.meta = "edited", !.age = 0]]
  /\ UNCHANGED <<queue, worker, dispatch, faults>>

\* handleCallKentAudioProcessorEvent, audio_generation_completed: the audio
\* keys are stored and the transcription of the draft is enqueued.
AudioCompleted(c) ==
  LET i == <<"draft", c>> IN
  /\ row[i].status = "PROCESSING" /\ row[i].step = "AUDIO"
  /\ row' = [row EXCEPT ![i] = [@ EXCEPT !.step = "TRANSCRIBING", !.age = 0]]
  /\ HandsOver(i, row[i].job, "enqueue")
  /\ UNCHANGED <<queue, worker, faults>>

\* audio_generation_failed.
AudioFailed(c) ==
  LET i == <<"draft", c>> IN
  /\ row[i].status = "PROCESSING" /\ row[i].step = "AUDIO"
  /\ row' = [row EXCEPT ![i] = [@ EXCEPT !.status = "ERROR", !.step = "DONE",
                                         !.age = 0]]
  /\ UNCHANGED <<queue, worker, dispatch, faults>>

-----------------------------------------------------------------------------
(* Enqueueing.                                                             *)

Message(i, j, n) == [id |-> i, job |-> j, attempts |-> n]

Enqueue(d) ==
  /\ d.stage = "enqueue"
  /\ queue' = queue \cup {Message(d.id, d.job, 0)}
  /\ dispatch' = IF d.by = "request"
                 THEN dispatch \ {d}
                 ELSE (dispatch \ {d}) \cup {[d EXCEPT !.stage = "touch"]}
  /\ UNCHANGED <<row, worker, faults>>

\* The queue refuses the message.  A request handler notes it on the row,
\* which stays PROCESSING; the cron only logs it.
EnqueueFails(d) ==
  /\ d.stage = "enqueue"
  /\ row' = IF d.by = "request" /\ Awaits(d.id, d.job)
            THEN [row EXCEPT ![d.id].age = 0] ELSE row
  /\ dispatch' = dispatch \ {d}
  /\ Fault
  /\ UNCHANGED <<queue, worker>>

\* touchDispatchedJob: updatedAt becomes the time of the cron's invocation.
TouchDispatchedJob(d) ==
  /\ d.stage = "touch"
  /\ row' = IF Awaits(d.id, d.job)
            THEN [row EXCEPT ![d.id].age = 0] ELSE row
  /\ dispatch' = dispatch \ {d}
  /\ UNCHANGED <<queue, worker, faults>>

\* The handler or the cron invocation is lost between two of its awaits.
DispatchCrashes(d) ==
  /\ dispatch' = dispatch \ {d}
  /\ Fault
  /\ UNCHANGED <<row, queue, worker>>

\* Mutants: the cron also selects drafts that wait for their audio, forgets those
\* that have a transcript, or leaves alone the rows that hold a lease.
StaleAtAnyStep(i) ==
  row[i].status = "PROCESSING" /\ row[i].job # None /\ row[i].age > StaleTicks

StaleWhileTranscribing(i) ==
  StaleAtAnyStep(i) /\ (IsDraft(i) => row[i].step = "TRANSCRIBING")

\* reenqueueStaleCallKentTranscriptionJobs: which rows the cron selects.
Stale(i) ==
  /\ row[i].status = "PROCESSING"
  /\ row[i].job # None
  /\ row[i].age > StaleTicks
  /\ IsDraft(i) => row[i].step \in {"TRANSCRIBING", "GENERATING_METADATA"}

CronSelect ==
  /\ \A d \in dispatch : d.by # "cron"
  /\ \E i \in Ids : Stale(i)
  /\ dispatch' = dispatch \cup
       {[id |-> i, job |-> row[i].job, by |-> "cron", stage |-> "enqueue"]
           : i \in {k \in Ids : Stale(k)}}
  /\ UNCHANGED <<row, queue, worker, faults>>

-----------------------------------------------------------------------------
(* The consumer.                                                           *)

\* A message is delivered to an idle consumer.  Delivery is at least once: a
\* fault leaves the message in the queue as well.
Deliver(w, m) ==
  /\ m \in queue
  /\ worker[w].pc = "idle"
  /\ worker' = [worker EXCEPT ![w] =
                  [Idle EXCEPT !.pc = "claiming", !.id = m.id, !.job = m.job,
                               !.attempts = m.attempts + 1]]
  /\ \/ queue' = queue \ {m} /\ UNCHANGED faults
     \/ Fault /\ UNCHANGED queue
  /\ UNCHANGED <<row, dispatch>>

Ack(w) == worker' = [worker EXCEPT ![w] = Idle] /\ UNCHANGED queue

\* Mutant: a message is redelivered without end.
RetryForever(w) ==
  /\ worker' = [worker EXCEPT ![w] = Idle]
  /\ queue' = queue \cup {Message(worker[w].id, worker[w].job, worker[w].attempts)}

\* The platform redelivers until the attempts are used up; then the message
\* goes to the dead-letter queue.
Retry(w) ==
  /\ worker' = [worker EXCEPT ![w] = Idle]
  /\ queue' = IF worker[w].attempts < MaxDeliveryAttempts
              THEN queue \cup {Message(worker[w].id, worker[w].job,
                                       worker[w].attempts)}
              ELSE queue

\* Mutant: a job that is PROCESSING is claimed whatever lease is on it.
ClaimableWhateverLease(r, j) == r.job = j /\ r.status = "PROCESSING"

\* claimJob: the lease is taken when there is none or it has run out.
Claimable(r, j) ==
  /\ r.job = j
  /\ r.status = "PROCESSING"
  /\ r.lease = None \/ r.left = 0

ClaimJob(w) ==
  LET i == worker[w].id IN
  /\ worker[w].pc = "claiming"
  /\ IF Claimable(row[i], worker[w].job)
     THEN \E l \in FreshLeases :
            /\ row' = [row EXCEPT ![i] = [@ EXCEPT !.lease = l,
                                            !.left = LeaseTicks, !.age = 0]]
            /\ worker' = [worker EXCEPT ![w] =
                            [@ EXCEPT !.pc = "loading", !.lease = l]]
            /\ UNCHANGED queue
     ELSE Ack(w) /\ UNCHANGED row
  /\ UNCHANGED <<dispatch, faults>>

\* Mutants: the writes are guarded by the status alone, or by the job alone.
OwnsByStatus(w) == row[worker[w].id].status = "PROCESSING"
OwnsByJob(w) == row[worker[w].id].job = worker[w].job

\* processingWhere: the row is still PROCESSING this job under this lease.
Owns(w) ==
  LET r == row[worker[w].id] IN
  /\ r.status = "PROCESSING"
  /\ r.job = worker[w].job
  /\ r.lease = worker[w].lease

Goto(w, pc) == worker' = [worker EXCEPT ![w].pc = pc]

\* An update guarded by processingWhere: the row is written and the consumer
\* goes on, or no row is affected and the work is stale.
OwnedWrite(w, written, next) ==
  IF Owns(w)
  THEN row' = [row EXCEPT ![worker[w].id] = written] /\ next
  ELSE UNCHANGED <<row, queue>> /\ Goto(w, "stale")

\* The first read of startCallKentCallerTranscriptProcessing.
LoadCaller(w) ==
  /\ worker[w].pc = "loading" /\ ~IsDraft(worker[w].id)
  /\ Goto(w, IF Owns(w) THEN "transcribing" ELSE "stale")
  /\ UNCHANGED <<row, queue, dispatch, faults>>

\* The first read of startCallKentEpisodeDraftProcessing, with the call: a
\* checkpointed transcript is reused, otherwise the caller's must be READY.
LoadDraft(w) ==
  LET r == row[worker[w].id]
      caller == row[CallerOf(worker[w].id)]
      pc == IF ~Owns(w) THEN "stale"
            ELSE IF r.text # None THEN "metadata"
            ELSE IF caller.status = "PROCESSING" THEN "deferred"
            ELSE IF caller.status # "READY" \/ caller.text = None THEN "failed"
            ELSE "marking"
  IN
  /\ worker[w].pc = "loading" /\ IsDraft(worker[w].id)
  /\ worker' = [worker EXCEPT ![w] =
                  [@ EXCEPT !.pc = pc,
                            !.text = IF Owns(w) THEN r.text ELSE None,
                            !.meta = IF Owns(w) THEN r.meta ELSE "missing"]]
  /\ UNCHANGED <<row, queue, dispatch, faults>>

\* step TRANSCRIBING, before the response audio is read and transcribed.
MarkTranscribing(w) ==
  /\ worker[w].pc = "marking"
  /\ OwnedWrite(w, [row[worker[w].id] EXCEPT !.step = "TRANSCRIBING", !.age = 0],
                Goto(w, "transcribing") /\ UNCHANGED queue)
  /\ UNCHANGED <<dispatch, faults>>

\* The caller's transcript is written with READY, and the lease given back.
CompleteCaller(w) ==
  /\ worker[w].pc = "transcribing" /\ ~IsDraft(worker[w].id)
  /\ OwnedWrite(w, [row[worker[w].id] EXCEPT !.status = "READY", !.lease = None,
                                             !.left = 0, !.age = 0,
                                             !.text = worker[w].job],
                Ack(w))
  /\ UNCHANGED <<dispatch, faults>>

\* The checkpoint of the draft's transcript.
SaveTranscript(w) ==
  /\ worker[w].pc = "transcribing" /\ IsDraft(worker[w].id)
  /\ OwnedWrite(w, [row[worker[w].id] EXCEPT !.step = "GENERATING_METADATA",
                                             !.age = 0, !.text = worker[w].job],
                /\ worker' = [worker EXCEPT ![w] =
                     [@ EXCEPT !.pc = "metadata", !.text = worker[w].job]]
                /\ UNCHANGED queue)
  /\ UNCHANGED <<dispatch, faults>>

\* step GENERATING_METADATA, when the draft that was read lacks metadata.
MarkMetadata(w) ==
  /\ worker[w].pc = "metadata" /\ worker[w].meta = "missing"
  /\ OwnedWrite(w, [row[worker[w].id] EXCEPT !.step = "GENERATING_METADATA",
                                             !.age = 0],
                Goto(w, "describing") /\ UNCHANGED queue)
  /\ UNCHANGED <<dispatch, faults>>

\* The final write: generated metadata for a draft that was read without, and
\* READY alone for one that had it.
CompleteDraft(w) ==
  LET done == [row[worker[w].id] EXCEPT !.status = "READY", !.step = "DONE",
                                        !.lease = None, !.left = 0, !.age = 0]
  IN
  /\ \/ /\ worker[w].pc = "describing"
        /\ OwnedWrite(w, [done EXCEPT !.meta = "generated"], Ack(w))
     \/ /\ worker[w].pc = "metadata" /\ worker[w].meta # "missing"
        /\ OwnedWrite(w, done, Ack(w))
  /\ UNCHANGED <<dispatch, faults>>

\* A read, an external call or an empty result throws while processing.
ProcessingThrows(w) ==
  /\ worker[w].pc \in Processing
  /\ Goto(w, "failed")
  /\ UNCHANGED <<row, queue, dispatch, faults>>

-----------------------------------------------------------------------------
(* How a delivery ends when it did not complete.                           *)

\* releaseLease is guarded by the job and the lease, not by the status.
ReleaseLease(w) ==
  LET i == worker[w].id IN
  row' = IF row[i].job = worker[w].job /\ row[i].lease = worker[w].lease
         THEN [row EXCEPT ![i] = [@ EXCEPT !.lease = None, !.left = 0, !.age = 0]]
         ELSE row

\* A stale or deferred outcome releases at best effort, then ends the message.
SettleStale(w) ==
  /\ worker[w].pc = "stale"
  /\ \/ ReleaseLease(w) /\ UNCHANGED faults
     \/ Fault /\ UNCHANGED row
  /\ Ack(w)
  /\ UNCHANGED dispatch

SettleDeferred(w) ==
  /\ worker[w].pc = "deferred"
  /\ \/ ReleaseLease(w) /\ UNCHANGED faults
     \/ Fault /\ UNCHANGED row
  /\ Retry(w)
  /\ UNCHANGED dispatch

\* An exception is retried with the lease released...
SettleRetry(w) ==
  /\ worker[w].pc = "failed" /\ worker[w].attempts < MaxDeliveryAttempts
  /\ ReleaseLease(w)
  /\ Retry(w)
  /\ UNCHANGED <<dispatch, faults>>

\* ... and recorded as ERROR on the last attempt (recordTerminalError).
SettleError(w) ==
  LET i == worker[w].id IN
  /\ worker[w].pc = "failed" /\ worker[w].attempts >= MaxDeliveryAttempts
  /\ row' = IF Owns(w)
            THEN [row EXCEPT ![i] = [@ EXCEPT !.status = "ERROR", !.step = "DONE",
                                       !.lease = None, !.left = 0, !.age = 0]]
            ELSE row
  /\ Ack(w)
  /\ UNCHANGED <<dispatch, faults>>

\* The invocation dies, or a call outside the try block throws: the platform
\* redelivers the message, and the row keeps the lease.
WorkerCrashes(w) ==
  /\ worker[w].pc # "idle"
  /\ Retry(w)
  /\ Fault
  /\ UNCHANGED <<row, dispatch>>

-----------------------------------------------------------------------------
(* Time.                                                                   *)

Less(n) == IF n = 0 THEN 0 ELSE n - 1
More(n) == IF n > StaleTicks THEN n ELSE n + 1

\* A tick is a large part of twenty minutes: no request handler and no cron
\* invocation lasts that long, while a consumer may.
Tick ==
  /\ dispatch = {}
  /\ row' = [i \in Ids |->
       IF row[i].status = "PROCESSING"
       THEN [row[i] EXCEPT !.left = Less(@), !.age = More(@)] ELSE row[i]]
  /\ UNCHANGED <<queue, worker, dispatch, faults>>

-----------------------------------------------------------------------------

Init ==
  /\ row = [i \in Ids |-> Absent]
  /\ queue = {}
  /\ worker = [w \in Workers |-> Idle]
  /\ dispatch = {}
  /\ faults = 0

CallerStep(c) ==
  \/ CreateCall(c)
  \/ GenerateCallerTranscript(c)
  \/ UpdateCallerTranscript(c)
  \/ DeleteCall(c)

DraftStep(c) ==
  \/ CreateEpisodeDraft(c)
  \/ UndoEpisodeDraft(c)
  \/ UpdateEpisodeDraft(c)
  \/ AudioCompleted(c)
  \/ AudioFailed(c)

DispatchStep(d) ==
  \/ AudioRequested(d)
  \/ AudioRequestFails(d)
  \/ Enqueue(d)
  \/ EnqueueFails(d)
  \/ TouchDispatchedJob(d)
  \/ DispatchCrashes(d)

\* What a consumer does of its own accord after a delivery.
WorkerStep(w) ==
  \/ ClaimJob(w)
  \/ LoadCaller(w)
  \/ LoadDraft(w)
  \/ MarkTranscribing(w)
  \/ CompleteCaller(w)
  \/ SaveTranscript(w)
  \/ MarkMetadata(w)
  \/ CompleteDraft(w)
  \/ ProcessingThrows(w)
  \/ SettleStale(w)
  \/ SettleDeferred(w)
  \/ SettleRetry(w)
  \/ SettleError(w)

\* The steps of the queue's side: nobody asked for them.
BackgroundStep ==
  \/ \E d \in dispatch : DispatchStep(d)
  \/ CronSelect
  \/ \E w \in Workers :
       \/ \E m \in queue : Deliver(w, m)
       \/ WorkerStep(w)
       \/ WorkerCrashes(w)

Next ==
  \/ \E c \in Calls : CallerStep(c)
  \/ \E c \in DraftCalls : DraftStep(c)
  \/ BackgroundStep
  \/ Tick

Spec == Init /\ [][Next]_vars

\* The platform delivers every message in the end, runs the cron and lets an
\* invocation go on; no person has to ask for anything, nothing has to fail.
FairnessFor(messages) ==
  /\ WF_vars(Tick)
  /\ WF_vars(CronSelect)
  /\ WF_vars(\E d \in dispatch :
               AudioRequested(d) \/ Enqueue(d) \/ TouchDispatchedJob(d))
  /\ \A m \in messages : SF_vars(\E w \in Workers : Deliver(w, m))
  /\ \A w \in Workers : WF_vars(WorkerStep(w))

Fairness == FairnessFor(Messages)

FairSpec == Spec /\ Fairness
=============================================================================
