--------------------- MODULE CallKentTranscriptionProofs ---------------------
(***************************************************************************)
(* Proofs about the transcription queue, for any number of calls,          *)
(* consumers, jobs, leases, deliveries and faults.                         *)
(***************************************************************************)
EXTENDS CallKentTranscriptionProperties, TLAPS

-----------------------------------------------------------------------------
(* Type correctness.                                                       *)

\* A consumer that is not idle has a message; one that processes or settles has
\* the lease it claimed.
WorkerInv ==
  \A w \in Workers :
    /\ worker[w].pc # "idle" =>
         /\ worker[w].id \in Ids /\ worker[w].job \in Jobs
         /\ worker[w].attempts > 0
    /\ worker[w].pc \in Processing \cup Outcomes => worker[w].lease \in Leases

\* A row that is PROCESSING has a job.
RowInv == \A i \in Ids : row[i].status = "PROCESSING" => row[i].job \in Jobs

\* The rows and the consumers have their types.
RowsFit == row \in [Ids -> Row] /\ RowInv
WorkersFit == worker \in [Workers -> Worker] /\ WorkerInv

TInv ==
  /\ RowsFit
  /\ WorkersFit
  /\ queue \subseteq Messages
  /\ dispatch \subseteq Dispatches
  /\ faults \in 0..MaxFaults

LEMMA RecordTypes ==
  /\ Absent \in Row
  /\ Idle \in Worker
BY DraftCallsAssumption, TicksAssumption, AttemptsAssumption
   DEF Absent, Row, Steps, Texts, Metadata, Idle, Worker

LEMMA IdTypes ==
  /\ \A c \in Calls : <<"call", c>> \in Ids
  /\ \A c \in DraftCalls : <<"draft", c>> \in Ids
BY DEF Ids

LEMMA InitTInv == Init => TInv
BY RecordTypes, FaultsAssumption
   DEF Init, TInv, RowsFit, WorkersFit, WorkerInv, RowInv, Idle, Absent, Processing, Outcomes

\* One row or one consumer is written, with a record that is fit.
RowFits(r) == r \in Row /\ (r.status = "PROCESSING" => r.job \in Jobs)

WorkerFits(r) ==
  /\ r \in Worker
  /\ r.pc # "idle" => r.id \in Ids /\ r.job \in Jobs /\ r.attempts > 0
  /\ r.pc \in Processing \cup Outcomes => r.lease \in Leases

\* The ways in which the code writes some of the fields of a row.
LEMMA Zeros == 0 \in 0..LeaseTicks /\ 0 \in 0..(StaleTicks + 1)
BY TicksAssumption

LEMMA AskedFits ==
  ASSUME NEW r \in Row, NEW j \in Jobs
  PROVE  RowFits([r EXCEPT !.status = "PROCESSING", !.job = j,
                           !.lease = None, !.left = 0, !.age = 0])
BY Zeros DEF RowFits, Row

LEMMA RowWrite ==
  ASSUME RowsFit, NEW i \in Ids, NEW r, RowFits(r), row' = [row EXCEPT ![i] = r]
  PROVE  RowsFit'
BY DEF RowsFit, RowInv, RowFits

LEMMA WorkerWrite ==
  ASSUME WorkersFit, NEW w \in Workers, NEW r, WorkerFits(r),
         worker' = [worker EXCEPT ![w] = r]
  PROVE  WorkersFit'
BY DEF WorkersFit, WorkerInv, WorkerFits

LEMMA RowStays == ASSUME RowsFit, UNCHANGED row PROVE RowsFit'
BY DEF RowsFit, RowInv

LEMMA WorkerStays == ASSUME WorkersFit, UNCHANGED worker PROVE WorkersFit'
BY DEF WorkersFit, WorkerInv

LEMMA HandsOverType ==
  ASSUME dispatch \subseteq Dispatches, NEW i \in Ids, NEW j \in Jobs,
         NEW stage \in {"audio", "enqueue"}, HandsOver(i, j, stage)
  PROVE  dispatch' \subseteq Dispatches
BY DEF HandsOver, Dispatches

LEMMA CallerTInv ==
  ASSUME TInv, NEW c \in Calls, CallerStep(c)
  PROVE  TInv'
<1> DEFINE i == <<"call", c>>
<1>0. /\ i \in Ids /\ RowsFit /\ WorkersFit
      /\ queue \subseteq Messages /\ dispatch \subseteq Dispatches
      /\ faults \in 0..MaxFaults /\ row[i] \in Row
  BY IdTypes DEF TInv, RowsFit
<1>1. CASE CreateCall(c)
  <2>1. CASE row' = [row EXCEPT ![i] =
                        [Absent EXCEPT !.status = "READY", !.text = Manual]]
             /\ UNCHANGED dispatch
    <3>1. RowFits([Absent EXCEPT !.status = "READY", !.text = Manual])
      BY RecordTypes DEF RowFits, Row, Texts
    <3>2. RowsFit'
      BY <1>0, <2>1, <3>1, RowWrite
    <3>3. QED
      BY <1>0, <1>1, <2>1, <3>2, WorkerStays DEF TInv, CreateCall
  <2>2. ASSUME NEW j \in FreshJobs, HandsOver(i, j, "enqueue"),
               row' = [row EXCEPT ![i] =
                         [Absent EXCEPT !.status = "PROCESSING", !.job = j]]
        PROVE  TInv'
    <3>0. j \in Jobs
      BY DEF FreshJobs
    <3>1. RowFits([Absent EXCEPT !.status = "PROCESSING", !.job = j])
      BY <3>0, RecordTypes DEF RowFits, Row, Absent
    <3>2. RowsFit'
      BY <1>0, <2>2, <3>1, RowWrite
    <3>3. dispatch' \subseteq Dispatches
      BY <1>0, <2>2, <3>0, HandsOverType
    <3>4. QED
      BY <1>0, <1>1, <3>2, <3>3, WorkerStays DEF TInv, CreateCall
  <2>3. QED
    BY <1>1, <2>1, <2>2 DEF CreateCall
<1>2. CASE GenerateCallerTranscript(c)
  <2> DEFINE asked(j) == [row[i] EXCEPT !.status = "PROCESSING", !.job = j,
                                        !.lease = None, !.left = 0, !.age = 0]
  <2>1. PICK j \in FreshJobs : /\ HandsOver(i, j, "enqueue")
                               /\ row' = [row EXCEPT ![i] = asked(j)]
    BY <1>2 DEF GenerateCallerTranscript
  <2>2. j \in Jobs
    BY DEF FreshJobs
  <2>3. RowFits(asked(j))
    BY <1>0, <2>2, AskedFits
  <2>4. RowsFit'
    BY <1>0, <2>1, <2>3, RowWrite
  <2>5. dispatch' \subseteq Dispatches
    BY <1>0, <2>1, <2>2, HandsOverType
  <2>6. QED
    BY <1>0, <1>2, <2>4, <2>5, WorkerStays DEF TInv, GenerateCallerTranscript
<1>3. CASE UpdateCallerTranscript(c)
  <2>1. /\ RowFits([Absent EXCEPT !.status = "NOT_STARTED"])
        /\ RowFits([Absent EXCEPT !.status = "READY", !.text = Manual])
    BY RecordTypes DEF RowFits, Row, Texts
  <2>2. RowsFit'
    BY <1>0, <1>3, <2>1, RowWrite DEF UpdateCallerTranscript
  <2>3. QED
    BY <1>0, <1>3, <2>2, WorkerStays DEF TInv, UpdateCallerTranscript
<1>4. CASE DeleteCall(c)
  <2>1. RowsFit'
    BY <1>0, <1>4, RecordTypes DEF DeleteCall, RowsFit, RowInv, Absent
  <2>2. QED
    BY <1>0, <1>4, <2>1, WorkerStays DEF TInv, DeleteCall
<1>5. QED
  BY <1>1, <1>2, <1>3, <1>4 DEF CallerStep

LEMMA EditedFits ==
  ASSUME NEW r, RowFits(r)
  PROVE  /\ RowFits([r EXCEPT !.text = Manual, !.age = 0])
         /\ RowFits([r EXCEPT !.meta = "edited", !.age = 0])
BY Zeros DEF RowFits, Row, Texts, Metadata

LEMMA TouchedFits ==
  ASSUME NEW r, RowFits(r)
  PROVE  /\ RowFits([r EXCEPT !.age = 0])
         /\ \A p \in Steps : RowFits([r EXCEPT !.step = p, !.age = 0])
BY Zeros DEF RowFits, Row

LEMMA FailedFits ==
  ASSUME NEW r, RowFits(r)
  PROVE  RowFits([r EXCEPT !.status = "ERROR", !.step = "DONE", !.age = 0])
BY Zeros DEF RowFits, Row, Steps

LEMMA RowFit == ASSUME RowsFit, NEW i \in Ids PROVE RowFits(row[i])
BY DEF RowsFit, RowInv, RowFits

LEMMA DraftTInv ==
  ASSUME TInv, NEW c \in DraftCalls, DraftStep(c)
  PROVE  TInv'
<1> DEFINE i == <<"draft", c>>
<1>0. /\ i \in Ids /\ RowsFit /\ WorkersFit
      /\ queue \subseteq Messages /\ dispatch \subseteq Dispatches
      /\ faults \in 0..MaxFaults /\ RowFits(row[i])
  BY IdTypes, RowFit DEF TInv
<1>1. CASE CreateEpisodeDraft(c)
  <2> DEFINE new(j) == [Absent EXCEPT !.status = "PROCESSING", !.job = j,
                                      !.step = "AUDIO"]
  <2>1. PICK j \in FreshJobs : /\ HandsOver(i, j, "audio")
                               /\ row' = [row EXCEPT ![i] = new(j)]
    BY <1>1 DEF CreateEpisodeDraft
  <2>2. j \in Jobs
    BY DEF FreshJobs
  <2>3. RowFits(new(j))
    BY <2>2, RecordTypes DEF RowFits, Row, Absent, Steps
  <2>4. RowsFit'
    BY <1>0, <2>1, <2>3, RowWrite
  <2>5. dispatch' \subseteq Dispatches
    BY <1>0, <2>1, <2>2, HandsOverType
  <2>6. QED
    BY <1>0, <1>1, <2>4, <2>5, WorkerStays DEF TInv, CreateEpisodeDraft
<1>2. CASE UndoEpisodeDraft(c)
  <2>1. RowFits(Absent)
    BY RecordTypes DEF RowFits, Absent
  <2>2. RowsFit'
    BY <1>0, <1>2, <2>1, RowWrite DEF UndoEpisodeDraft
  <2>3. QED
    BY <1>0, <1>2, <2>2, WorkerStays DEF TInv, UndoEpisodeDraft
<1>3. CASE UpdateEpisodeDraft(c)
  <2>1. RowsFit'
    BY <1>0, <1>3, EditedFits, RowWrite DEF UpdateEpisodeDraft
  <2>2. QED
    BY <1>0, <1>3, <2>1, WorkerStays DEF TInv, UpdateEpisodeDraft
<1>4. CASE AudioCompleted(c)
  <2>1. RowsFit'
    BY <1>0, <1>4, TouchedFits, RowWrite DEF AudioCompleted, Steps
  <2>2. row[i].job \in Jobs
    BY <1>0, <1>4 DEF AudioCompleted, RowFits
  <2>3. dispatch' \subseteq Dispatches
    BY <1>0, <1>4, <2>2, HandsOverType DEF AudioCompleted
  <2>4. QED
    BY <1>0, <1>4, <2>1, <2>3, WorkerStays DEF TInv, AudioCompleted
<1>5. CASE AudioFailed(c)
  <2>1. RowsFit'
    BY <1>0, <1>5, FailedFits, RowWrite DEF AudioFailed
  <2>2. QED
    BY <1>0, <1>5, <2>1, WorkerStays DEF TInv, AudioFailed
<1>6. QED
  BY <1>1, <1>2, <1>3, <1>4, <1>5 DEF DraftStep

LEMMA FaultType ==
  ASSUME faults \in 0..MaxFaults, Fault \/ UNCHANGED faults
  PROVE  faults' \in 0..MaxFaults
BY FaultsAssumption DEF Fault

LEMMA DispatchTInv ==
  ASSUME TInv, NEW d \in dispatch, DispatchStep(d)
  PROVE  TInv'
<1>0. /\ RowsFit /\ WorkersFit
      /\ queue \subseteq Messages /\ dispatch \subseteq Dispatches
      /\ faults \in 0..MaxFaults
      /\ d \in Dispatches /\ d.id \in Ids /\ d.job \in Jobs /\ RowFits(row[d.id])
  BY RowFit DEF TInv, Dispatches
<1>1. CASE AudioRequested(d)
  BY <1>0, <1>1, RowStays, WorkerStays DEF TInv, AudioRequested
<1>2. CASE AudioRequestFails(d)
  <2>1. RowsFit'
    BY <1>0, <1>2, FailedFits, RowWrite, RowStays DEF AudioRequestFails
  <2>2. QED
    BY <1>0, <1>2, <2>1, FaultType, WorkerStays DEF TInv, AudioRequestFails
<1>3. CASE Enqueue(d)
  <2>1. queue' \subseteq Messages
    BY <1>0, <1>3, AttemptsAssumption DEF Enqueue, Message, Messages
  <2>2. dispatch' \subseteq Dispatches
    BY <1>0, <1>3 DEF Enqueue, Dispatches
  <2>3. QED
    BY <1>0, <1>3, <2>1, <2>2, RowStays, WorkerStays DEF TInv, Enqueue
<1>4. CASE EnqueueFails(d)
  <2>1. RowsFit'
    BY <1>0, <1>4, TouchedFits, RowWrite, RowStays DEF EnqueueFails
  <2>2. QED
    BY <1>0, <1>4, <2>1, FaultType, WorkerStays DEF TInv, EnqueueFails
<1>5. CASE TouchDispatchedJob(d)
  <2>1. RowsFit'
    BY <1>0, <1>5, TouchedFits, RowWrite, RowStays DEF TouchDispatchedJob
  <2>2. QED
    BY <1>0, <1>5, <2>1, WorkerStays DEF TInv, TouchDispatchedJob
<1>6. CASE DispatchCrashes(d)
  BY <1>0, <1>6, FaultType, RowStays, WorkerStays DEF TInv, DispatchCrashes
<1>7. QED
  BY <1>1, <1>2, <1>3, <1>4, <1>5, <1>6 DEF DispatchStep

LEMMA CronTInv == ASSUME TInv, CronSelect PROVE TInv'
<1>1. \A i \in Ids : Stale(i) => row[i].job \in Jobs
  BY RowFit DEF TInv, Stale, RowFits
<1>2. dispatch' \subseteq Dispatches
  BY <1>1 DEF TInv, CronSelect, Dispatches
<1>3. QED
  BY <1>2, RowStays, WorkerStays DEF TInv, CronSelect

LEMMA TickTInv == ASSUME TInv, Tick PROVE TInv'
<1>1. ASSUME NEW r \in Row
      PROVE  [r EXCEPT !.left = Less(@), !.age = More(@)] \in Row
  <2>1. Less(r.left) \in 0..LeaseTicks
    <3>1. r.left \in 0..LeaseTicks
      BY DEF Row
    <3>2. QED
      BY <3>1, TicksAssumption DEF Less
  <2>2. More(r.age) \in 0..(StaleTicks + 1)
    <3>1. r.age \in 0..(StaleTicks + 1)
      BY DEF Row
    <3>2. QED
      BY <3>1, TicksAssumption DEF More
  <2>3. QED
    BY <2>1, <2>2 DEF Row
<1>2. RowsFit'
  <2>1. ASSUME NEW i \in Ids
        PROVE  row'[i] \in Row /\ row'[i].status = row[i].status
                               /\ row'[i].job = row[i].job
    BY <1>1 DEF TInv, RowsFit, Tick, Row
  <2>2. row' = [i \in Ids |-> row'[i]]
    BY DEF Tick
  <2>3. QED
    BY <2>1, <2>2 DEF TInv, RowsFit, RowInv
<1>3. QED
  BY <1>2, WorkerStays DEF TInv, Tick

\* Where a consumer goes next.
LEMMA GotoFits ==
  ASSUME WorkersFit, NEW w \in Workers, worker[w].pc \in Processing,
         NEW p \in Processing \cup Outcomes, Goto(w, p)
  PROVE  WorkersFit'
<1> DEFINE r == [worker[w] EXCEPT !.pc = p]
<1>1. worker[w] \in Worker
  BY DEF WorkersFit
<1>2. WorkerFits(r)
  BY <1>1 DEF WorkerFits, Worker, WorkersFit, WorkerInv, Processing, Outcomes
<1>3. worker' = [worker EXCEPT ![w] = r]
  BY <1>1 DEF Goto, WorkersFit
<1>4. QED
  BY <1>2, <1>3, WorkerWrite

LEMMA AckFits ==
  ASSUME WorkersFit, NEW w \in Workers, Ack(w)
  PROVE  WorkersFit' /\ UNCHANGED queue
<1>1. WorkerFits(Idle)
  BY RecordTypes DEF WorkerFits, Idle, Processing, Outcomes
<1>2. QED
  BY <1>1, WorkerWrite DEF Ack

LEMMA RetryFits ==
  ASSUME WorkersFit, queue \subseteq Messages, NEW w \in Workers,
         worker[w].pc # "idle", Retry(w)
  PROVE  WorkersFit' /\ queue' \subseteq Messages
<1>1. WorkerFits(Idle)
  BY RecordTypes DEF WorkerFits, Idle, Processing, Outcomes
<1>2. WorkersFit'
  BY <1>1, WorkerWrite DEF Retry
<1>3. /\ worker[w].id \in Ids /\ worker[w].job \in Jobs
      /\ worker[w].attempts \in 0..MaxDeliveryAttempts
  BY DEF WorkersFit, WorkerInv, Worker
<1>4. queue' \subseteq Messages
  BY <1>3, AttemptsAssumption DEF Retry, Message, Messages
<1>5. QED
  BY <1>2, <1>4

LEMMA ReleaseFits ==
  ASSUME RowsFit, WorkersFit, NEW w \in Workers, worker[w].pc \in Outcomes,
         ReleaseLease(w)
  PROVE  RowsFit'
<1>1. worker[w].id \in Ids
  BY DEF WorkersFit, WorkerInv, Outcomes
<1>2. ASSUME NEW r, RowFits(r)
      PROVE  RowFits([r EXCEPT !.lease = None, !.left = 0, !.age = 0])
  BY <1>2, Zeros DEF RowFits, Row
<1>3. QED
  BY <1>1, <1>2, RowFit, RowWrite, RowStays DEF ReleaseLease

\* A write guarded by processingWhere, with what the consumer does after it.
LEMMA OwnedWriteFits ==
  ASSUME RowsFit, WorkersFit, queue \subseteq Messages,
         NEW w \in Workers, worker[w].pc \in Processing,
         NEW r, RowFits(row[worker[w].id]) => RowFits(r),
         \/ Owns(w) /\ row' = [row EXCEPT ![worker[w].id] = r]
                    /\ WorkersFit' /\ UNCHANGED queue
         \/ UNCHANGED <<row, queue>> /\ Goto(w, "stale")
  PROVE  RowsFit' /\ WorkersFit' /\ queue' \subseteq Messages
<1>1. worker[w].id \in Ids
  BY DEF WorkersFit, WorkerInv, Processing
<1>2. RowFits(r)
  BY <1>1, RowFit
<1>3. CASE Goto(w, "stale") /\ UNCHANGED <<row, queue>>
  BY <1>3, GotoFits, RowStays DEF Outcomes
<1>4. CASE row' = [row EXCEPT ![worker[w].id] = r] /\ WorkersFit' /\ UNCHANGED queue
  BY <1>1, <1>2, <1>4, RowWrite
<1>5. QED
  BY <1>3, <1>4

LEMMA WorkerTInv ==
  ASSUME TInv, NEW w \in Workers, WorkerStep(w)
  PROVE  TInv'
<1> DEFINE i == worker[w].id
           done == [row[i] EXCEPT !.status = "READY", !.step = "DONE",
                                  !.lease = None, !.left = 0, !.age = 0]
<1>0. /\ RowsFit /\ WorkersFit
      /\ queue \subseteq Messages /\ dispatch \subseteq Dispatches
      /\ faults \in 0..MaxFaults /\ worker[w] \in Worker
      /\ worker[w].pc # "idle" => i \in Ids /\ worker[w].job \in Jobs
  BY DEF TInv, WorkersFit, WorkerInv
<1>1. CASE ClaimJob(w)
  <2>1. CASE Claimable(row[i], worker[w].job)
    <3> DEFINE held(l) == [row[i] EXCEPT !.lease = l, !.left = LeaseTicks,
                                         !.age = 0]
               loading(l) == [worker[w] EXCEPT !.pc = "loading", !.lease = l]
    <3>1. PICK l \in FreshLeases : /\ row' = [row EXCEPT ![i] = held(l)]
                                   /\ worker' = [worker EXCEPT ![w] = loading(l)]
      BY <1>1, <2>1 DEF ClaimJob
    <3>2. l \in Leases
      BY DEF FreshLeases
    <3>3. i \in Ids /\ RowFits(row[i]) /\ LeaseTicks \in 0..LeaseTicks
      <4>1. i \in Ids
        BY <1>0, <1>1 DEF ClaimJob
      <4>2. LeaseTicks \in 0..LeaseTicks
        BY TicksAssumption
      <4>3. QED
        BY <1>0, <4>1, <4>2, RowFit
    <3>4. RowFits(held(l))
      BY <3>2, <3>3, Zeros DEF RowFits, Row
    <3>5. WorkerFits(loading(l))
      <4>1. worker[w].job \in Jobs /\ worker[w].attempts > 0
        BY <1>0, <1>1 DEF ClaimJob, WorkersFit, WorkerInv
      <4>2. /\ loading(l) \in Worker
            /\ loading(l).id = i /\ loading(l).job = worker[w].job
            /\ loading(l).attempts = worker[w].attempts /\ loading(l).lease = l
        BY <1>0, <3>2 DEF Worker, Processing
      <4>3. QED
        BY <3>2, <3>3, <4>1, <4>2 DEF WorkerFits
    <3>6. RowsFit' /\ WorkersFit'
      BY <1>0, <3>1, <3>3, <3>4, <3>5, RowWrite, WorkerWrite
    <3>7. QED
      BY <1>0, <1>1, <2>1, <3>6 DEF TInv, ClaimJob
  <2>2. CASE ~Claimable(row[i], worker[w].job)
    BY <1>0, <1>1, <2>2, AckFits, RowStays DEF TInv, ClaimJob
  <2>3. QED
    BY <2>1, <2>2
<1>2. CASE LoadCaller(w)
  <2>1. worker[w].pc \in Processing
    BY <1>2 DEF LoadCaller, Processing
  <2>2. WorkersFit'
    BY <1>0, <1>2, <2>1, GotoFits DEF LoadCaller, Processing, Outcomes
  <2>3. QED
    BY <1>0, <1>2, <2>2, RowStays DEF TInv, LoadCaller
<1>3. CASE LoadDraft(w)
  <2> DEFINE loaded(p, t, e) == [worker[w] EXCEPT !.pc = p, !.text = t, !.meta = e]
  <2>1. i \in Ids /\ row[i] \in Row /\ worker[w].lease \in Leases
                  /\ worker[w].attempts > 0
    BY <1>0, <1>3, RowFit
       DEF LoadDraft, RowFits, WorkersFit, WorkerInv, Processing
  <2>2. ASSUME NEW p \in Processing \cup Outcomes, NEW t \in Texts, NEW e \in Metadata
        PROVE  WorkerFits(loaded(p, t, e))
    BY <1>0, <1>3, <2>1 DEF LoadDraft, WorkerFits, Worker, Processing, Outcomes
  <2>3. PICK p \in Processing \cup Outcomes, t \in Texts, e \in Metadata :
          worker' = [worker EXCEPT ![w] = loaded(p, t, e)]
    BY <1>3, <2>1 DEF LoadDraft, Row, Texts, Metadata, Processing, Outcomes
  <2>4. WorkersFit'
    BY <1>0, <2>2, <2>3, WorkerWrite
  <2>5. QED
    BY <1>0, <1>3, <2>4, RowStays DEF TInv, LoadDraft
<1>4. CASE MarkTranscribing(w)
  <2> DEFINE r == [row[i] EXCEPT !.step = "TRANSCRIBING", !.age = 0]
  <2>1. worker[w].pc \in Processing /\ (RowFits(row[i]) => RowFits(r))
    BY <1>4, TouchedFits DEF MarkTranscribing, Processing, Steps
  <2>2. RowsFit' /\ WorkersFit' /\ queue' \subseteq Messages
    BY <1>0, <1>4, <2>1, GotoFits, OwnedWriteFits
       DEF MarkTranscribing, OwnedWrite, Processing
  <2>3. QED
    BY <1>0, <1>4, <2>2 DEF TInv, MarkTranscribing
<1>5. CASE CompleteCaller(w)
  <2> DEFINE r == [row[i] EXCEPT !.status = "READY", !.lease = None, !.left = 0,
                                 !.age = 0, !.text = worker[w].job]
  <2>1. worker[w].pc \in Processing /\ (RowFits(row[i]) => RowFits(r))
    BY <1>0, <1>5, Zeros DEF CompleteCaller, Processing, RowFits, Row, Texts
  <2>2. RowsFit' /\ WorkersFit' /\ queue' \subseteq Messages
    BY <1>0, <1>5, <2>1, AckFits, OwnedWriteFits DEF CompleteCaller, OwnedWrite
  <2>3. QED
    BY <1>0, <1>5, <2>2 DEF TInv, CompleteCaller
<1>6. CASE SaveTranscript(w)
  <2> DEFINE r == [row[i] EXCEPT !.step = "GENERATING_METADATA", !.age = 0,
                                 !.text = worker[w].job]
             saved == [worker[w] EXCEPT !.pc = "metadata", !.text = worker[w].job]
  <2>1. worker[w].pc \in Processing /\ (RowFits(row[i]) => RowFits(r))
    BY <1>0, <1>6, Zeros DEF SaveTranscript, Processing, RowFits, Row, Texts, Steps
  <2>2. WorkerFits(saved)
    BY <1>0, <2>1 DEF WorkerFits, Worker, WorkersFit, WorkerInv, Processing, Texts
  <2>3. worker' = [worker EXCEPT ![w] = saved] => WorkersFit'
    BY <1>0, <2>2, WorkerWrite
  <2>4. RowsFit' /\ WorkersFit' /\ queue' \subseteq Messages
    BY <1>0, <1>6, <2>1, <2>3, OwnedWriteFits DEF SaveTranscript, OwnedWrite
  <2>5. QED
    BY <1>0, <1>6, <2>4 DEF TInv, SaveTranscript
<1>7. CASE MarkMetadata(w)
  <2> DEFINE r == [row[i] EXCEPT !.step = "GENERATING_METADATA", !.age = 0]
  <2>1. worker[w].pc \in Processing /\ (RowFits(row[i]) => RowFits(r))
    BY <1>7, TouchedFits DEF MarkMetadata, Processing, Steps
  <2>2. RowsFit' /\ WorkersFit' /\ queue' \subseteq Messages
    BY <1>0, <1>7, <2>1, GotoFits, OwnedWriteFits
       DEF MarkMetadata, OwnedWrite, Processing
  <2>3. QED
    BY <1>0, <1>7, <2>2 DEF TInv, MarkMetadata
<1>8. CASE CompleteDraft(w)
  <2>1. worker[w].pc \in Processing
    BY <1>8 DEF CompleteDraft, Processing
  <2>2. RowFits(row[i]) => RowFits(done) /\ RowFits([done EXCEPT !.meta = "generated"])
    BY Zeros DEF RowFits, Row, Steps, Metadata
  <2>3. RowsFit' /\ WorkersFit' /\ queue' \subseteq Messages
    BY <1>0, <1>8, <2>1, <2>2, AckFits, OwnedWriteFits DEF CompleteDraft, OwnedWrite
  <2>4. QED
    BY <1>0, <1>8, <2>3 DEF TInv, CompleteDraft
<1>9. CASE ProcessingThrows(w)
  <2>1. WorkersFit'
    BY <1>0, <1>9, GotoFits DEF ProcessingThrows, Outcomes
  <2>2. QED
    BY <1>0, <1>9, <2>1, RowStays DEF TInv, ProcessingThrows
<1>10. CASE SettleStale(w)
  BY <1>0, <1>10, AckFits, ReleaseFits, RowStays, FaultType
     DEF TInv, SettleStale, Outcomes
<1>11. CASE SettleDeferred(w)
  <2>1. WorkersFit' /\ queue' \subseteq Messages
    BY <1>0, <1>11, RetryFits DEF SettleDeferred
  <2>2. QED
    BY <1>0, <1>11, <2>1, ReleaseFits, RowStays, FaultType
       DEF TInv, SettleDeferred, Outcomes
<1>12. CASE SettleRetry(w)
  <2>1. WorkersFit' /\ queue' \subseteq Messages
    BY <1>0, <1>12, RetryFits DEF SettleRetry
  <2>2. QED
    BY <1>0, <1>12, <2>1, ReleaseFits DEF TInv, SettleRetry, Outcomes
<1>13. CASE SettleError(w)
  <2>1. i \in Ids /\ RowFits(row[i])
    BY <1>0, <1>13, RowFit DEF SettleError
  <2>2. RowFits([row[i] EXCEPT !.status = "ERROR", !.step = "DONE", !.lease = None,
                               !.left = 0, !.age = 0])
    BY <2>1, Zeros DEF RowFits, Row, Steps
  <2>3. RowsFit'
    BY <1>0, <1>13, <2>1, <2>2, RowWrite, RowStays DEF SettleError
  <2>4. QED
    BY <1>0, <1>13, <2>3, AckFits DEF TInv, SettleError
<1>14. QED
  BY <1>1, <1>2, <1>3, <1>4, <1>5, <1>6, <1>7, <1>8, <1>9, <1>10, <1>11, <1>12,
     <1>13 DEF WorkerStep

LEMMA DeliverTInv ==
  ASSUME TInv, NEW w \in Workers, NEW m \in queue, Deliver(w, m)
  PROVE  TInv'
<1> DEFINE r == [Idle EXCEPT !.pc = "claiming", !.id = m.id, !.job = m.job,
                             !.attempts = m.attempts + 1]
<1>1. m \in Messages
  BY DEF TInv
<1>2. WorkerFits(r)
  <2>1. /\ m.id \in Ids /\ m.job \in Jobs
        /\ m.attempts + 1 \in 0..MaxDeliveryAttempts /\ m.attempts + 1 > 0
    BY <1>1, AttemptsAssumption DEF Messages
  <2>2. r \in Worker /\ r.pc = "claiming"
    BY <2>1, RecordTypes DEF Worker, Idle
  <2>3. r.id = m.id /\ r.job = m.job /\ r.attempts = m.attempts + 1
    BY DEF Idle
  <2>4. QED
    BY <2>1, <2>2, <2>3 DEF WorkerFits, Processing, Outcomes
<1>3. WorkersFit'
  BY <1>2, WorkerWrite DEF TInv, Deliver
<1>4. queue' \subseteq Messages /\ faults' \in 0..MaxFaults
  BY FaultType DEF TInv, Deliver
<1>5. QED
  BY <1>3, <1>4, RowStays DEF TInv, Deliver

LEMMA CrashTInv ==
  ASSUME TInv, NEW w \in Workers, WorkerCrashes(w)
  PROVE  TInv'
BY RetryFits, FaultType, RowStays DEF TInv, WorkerCrashes

LEMMA NextTInv == TInv /\ [Next]_vars => TInv'
<1> SUFFICES ASSUME TInv, [Next]_vars PROVE TInv'
  OBVIOUS
<1>1. CASE \E c \in Calls : CallerStep(c)
  BY <1>1, CallerTInv
<1>2. CASE \E c \in DraftCalls : DraftStep(c)
  BY <1>2, DraftTInv
<1>3. CASE \E d \in dispatch : DispatchStep(d)
  BY <1>3, DispatchTInv
<1>4. CASE CronSelect
  BY <1>4, CronTInv
<1>5. CASE \E w \in Workers : \E m \in queue : Deliver(w, m)
  BY <1>5, DeliverTInv
<1>6. CASE \E w \in Workers : WorkerStep(w)
  BY <1>6, WorkerTInv
<1>7. CASE \E w \in Workers : WorkerCrashes(w)
  BY <1>7, CrashTInv
<1>8. CASE Tick
  BY <1>8, TickTInv
<1>9. CASE UNCHANGED vars
  BY <1>9, RowStays, WorkerStays DEF TInv, vars
<1>10. QED
  BY <1>1, <1>2, <1>3, <1>4, <1>5, <1>6, <1>7, <1>8, <1>9 DEF Next, BackgroundStep

\* TypeOK in every reachable state: rows, messages, consumers and dispatches
\* keep the fields of the schema and of the queue's payloads.
THEOREM TypeCorrect == Spec => []TypeOK
<1>1. TInv => TypeOK
  BY DEF TInv, RowsFit, WorkersFit, TypeOK
<1>2. QED
  BY <1>1, InitTInv, NextTInv, PTL DEF Spec

-----------------------------------------------------------------------------
(* A READY text is of the current job.                                     *)

\* What must be known of one row: besides the claim itself, the text of a draft
\* is of its job in every state, so that a checkpoint can be relied upon.
TextFits(i, r) ==
  /\ r.status = "READY" =>
       /\ r.text # None
       /\ IF IsDraft(i) THEN r.text \in {r.job, Manual}
          ELSE r.text = (IF r.job = None THEN Manual ELSE r.job)
  /\ IsDraft(i) => r.text \in {None, Manual, r.job}

Late == {"metadata", "describing"}

\* A consumer past the checkpoint works on a draft which, while the job is the
\* current one, has a text.
TextInv ==
  /\ \A i \in Ids : TextFits(i, row[i])
  /\ \A w \in Workers : worker[w].pc \in Late =>
       /\ IsDraft(worker[w].id)
       /\ row[worker[w].id].job = worker[w].job => row[worker[w].id].text # None

\* A write keeps what late consumers rely on: it leaves the job and does not
\* remove the text, or the job is one that no consumer has, or it is a call.
Keeps(i, r) ==
  \/ r.job = row[i].job /\ (row[i].text # None => r.text # None)
  \/ \A w \in Workers : worker[w].job \in Jobs => r.job # worker[w].job
  \/ ~IsDraft(i)

\* Consumers get past the checkpoint only on a draft that has a text.
LateFits ==
  \A w \in Workers : worker'[w].pc \in Late =>
    /\ worker'[w].id = worker[w].id /\ worker'[w].job = worker[w].job
    /\ \/ worker[w].pc \in Late
       \/ /\ worker[w].pc # "idle" /\ IsDraft(worker[w].id)
          /\ row'[worker[w].id].text # None

OtherRowsStay(i) == \A n \in Ids : n # i => row'[n] = row[n]

LEMMA WrittenRow ==
  ASSUME TInv, NEW i \in Ids, NEW r, row' = [row EXCEPT ![i] = r]
  PROVE  OtherRowsStay(i) /\ row'[i] = r
BY DEF OtherRowsStay, TInv, RowsFit

LEMMA TextStep ==
  ASSUME TInv, TextInv, LateFits,
         \A i \in Ids : TextFits(i, row'[i]) /\ Keeps(i, row'[i])
  PROVE  TextInv'
<1>1. ASSUME NEW w \in Workers, worker'[w].pc \in Late
      PROVE  /\ IsDraft(worker'[w].id)
             /\ row'[worker'[w].id].job = worker'[w].job
                  => row'[worker'[w].id].text # None
  <2>1. worker[w].id \in Ids /\ worker[w].job \in Jobs
    BY <1>1 DEF LateFits, Late, TInv, WorkersFit, WorkerInv
  <2>2. CASE worker[w].pc \in Late
    BY <1>1, <2>1, <2>2 DEF LateFits, TextInv, Keeps
  <2>3. CASE worker[w].pc \notin Late
    BY <1>1, <2>3 DEF LateFits
  <2>4. QED
    BY <2>2, <2>3
<1>2. QED
  BY <1>1 DEF TextInv, TextFits

LEMMA SameRow ==
  ASSUME TextInv, NEW i \in Ids
  PROVE  TextFits(i, row[i]) /\ Keeps(i, row[i])
BY DEF TextInv, Keeps

\* The two shapes of a step: one row is written, or none.
LEMMA TextWrite ==
  ASSUME TInv, TextInv, LateFits, NEW i \in Ids, OtherRowsStay(i),
         TextFits(i, row'[i]), Keeps(i, row'[i])
  PROVE  TextInv'
<1>1. ASSUME NEW n \in Ids PROVE TextFits(n, row'[n]) /\ Keeps(n, row'[n])
  BY SameRow DEF OtherRowsStay
<1>2. QED
  BY <1>1, TextStep

LEMMA TextStays ==
  ASSUME TInv, TextInv, LateFits, UNCHANGED row
  PROVE  TextInv'
<1>1. ASSUME NEW n \in Ids PROVE TextFits(n, row'[n]) /\ Keeps(n, row'[n])
  BY SameRow
<1>2. QED
  BY <1>1, TextStep

LEMMA LateStays == ASSUME TInv, UNCHANGED worker PROVE LateFits
BY DEF LateFits

\* A job that is minted is nobody's.
LEMMA FreshJob ==
  ASSUME NEW j \in FreshJobs
  PROVE  /\ j \in Jobs
         /\ \A w \in Workers : worker[w].job # j
BY DEF FreshJobs, JobsInUse

LEMMA NullJob == \A w \in Workers : worker[w].job \in Jobs => worker[w].job # None
BY NullAssumption

LEMMA AbsentText == \A i \in Ids : TextFits(i, Absent) /\ Keeps(i, Absent)
BY NullJob DEF TextFits, Absent, Keeps

LEMMA CallIsNoDraft ==
  /\ \A c : ~IsDraft(<<"call", c>>)
  /\ \A c : IsDraft(<<"draft", c>>)
BY DEF IsDraft

LEMMA CallerText ==
  ASSUME TInv, TextInv, NEW c \in Calls, CallerStep(c)
  PROVE  TextInv'
<1> DEFINE i == <<"call", c>>
<1>0. /\ i \in Ids /\ ~IsDraft(i) /\ LateFits /\ Manual # None
      /\ row \in [Ids -> Row]
  <2>1. UNCHANGED worker
    BY DEF CallerStep, CreateCall, GenerateCallerTranscript, UpdateCallerTranscript,
           DeleteCall
  <2>2. QED
    BY <2>1, LateStays, IdTypes, CallIsNoDraft, NullAssumption DEF TInv, RowsFit
<1>1. CASE CreateCall(c)
  <2>1. OtherRowsStay(i)
    BY <1>0, <1>1 DEF CreateCall, OtherRowsStay
  <2>2. \/ row'[i] = [Absent EXCEPT !.status = "READY", !.text = Manual]
        \/ row'[i].status = "PROCESSING"
    <3>1. ASSUME NEW r, row' = [row EXCEPT ![i] = r] PROVE row'[i] = r
      BY <1>0, <3>1
    <3>2. \A j : [Absent EXCEPT !.status = "PROCESSING", !.job = j].status = "PROCESSING"
      BY DEF Absent
    <3> QED
      BY <1>1, <3>1, <3>2 DEF CreateCall
  <2>3. TextFits(i, row'[i]) /\ Keeps(i, row'[i])
    BY <1>0, <2>2 DEF TextFits, Keeps, Absent
  <2>4. QED
    BY <1>0, <2>1, <2>3, TextWrite
<1>2. CASE GenerateCallerTranscript(c)
  <2>1. OtherRowsStay(i)
    BY <1>0, <1>2 DEF GenerateCallerTranscript, OtherRowsStay
  <2>2. row'[i].status = "PROCESSING"
    BY <1>0, <1>2 DEF GenerateCallerTranscript, Row
  <2>3. TextFits(i, row'[i]) /\ Keeps(i, row'[i])
    BY <1>0, <2>2 DEF TextFits, Keeps
  <2>4. QED
    BY <1>0, <2>1, <2>3, TextWrite
<1>3. CASE UpdateCallerTranscript(c)
  <2>1. OtherRowsStay(i)
    BY <1>0, <1>3 DEF UpdateCallerTranscript, OtherRowsStay
  <2>2. \/ row'[i] = [Absent EXCEPT !.status = "READY", !.text = Manual]
        \/ row'[i].status = "NOT_STARTED"
    BY <1>0, <1>3 DEF UpdateCallerTranscript, Absent
  <2>3. TextFits(i, row'[i]) /\ Keeps(i, row'[i])
    BY <1>0, <2>2 DEF TextFits, Keeps, Absent
  <2>4. QED
    BY <1>0, <2>1, <2>3, TextWrite
<1>4. CASE DeleteCall(c)
  <2>1. ASSUME NEW n \in Ids PROVE TextFits(n, row'[n]) /\ Keeps(n, row'[n])
    BY <1>4, AbsentText, SameRow DEF DeleteCall
  <2>2. QED
    BY <1>0, <2>1, TextStep
<1>5. QED
  BY <1>1, <1>2, <1>3, <1>4 DEF CallerStep

\* The writes that change neither the job nor, but for Manual, the text, and
\* do not make a row READY.
LEMMA HarmlessWrite ==
  ASSUME TInv, TextInv, NEW i \in Ids, NEW r,
         r.job = row[i].job,
         \/ r.text = row[i].text
         \/ IsDraft(i) /\ r.text = Manual,
         r.status = row[i].status \/ r.status # "READY"
  PROVE  TextFits(i, r) /\ Keeps(i, r)
BY NullAssumption DEF TextInv, TextFits, Keeps

LEMMA DraftText ==
  ASSUME TInv, TextInv, NEW c \in DraftCalls, DraftStep(c)
  PROVE  TextInv'
<1> DEFINE i == <<"draft", c>>
<1>0. i \in Ids /\ IsDraft(i) /\ LateFits /\ row \in [Ids -> Row] /\ OtherRowsStay(i)
  <2>1. UNCHANGED worker
    BY DEF DraftStep, CreateEpisodeDraft, UndoEpisodeDraft, UpdateEpisodeDraft,
           AudioCompleted, AudioFailed
  <2>2. i \in Ids /\ IsDraft(i) /\ LateFits /\ row \in [Ids -> Row]
    BY <2>1, LateStays, IdTypes, CallIsNoDraft DEF TInv, RowsFit
  <2>3. OtherRowsStay(i)
    BY <2>2 DEF DraftStep, CreateEpisodeDraft, UndoEpisodeDraft, UpdateEpisodeDraft,
           AudioCompleted, AudioFailed, OtherRowsStay
  <2>4. QED
    BY <2>2, <2>3
<1>1. CASE CreateEpisodeDraft(c)
  <2>1. PICK j \in FreshJobs : row'[i] = [Absent EXCEPT !.status = "PROCESSING",
                                            !.job = j, !.step = "AUDIO"]
    BY <1>0, <1>1 DEF CreateEpisodeDraft
  <2>2. row'[i].job = j /\ row'[i].status = "PROCESSING" /\ row'[i].text = None
    BY <2>1 DEF Absent
  <2>3. TextFits(i, row'[i]) /\ Keeps(i, row'[i])
    BY <2>2, FreshJob DEF TextFits, Keeps
  <2>4. QED
    BY <1>0, <2>3, TextWrite
<1>2. CASE UndoEpisodeDraft(c)
  <2>1. row'[i] = Absent
    BY <1>0, <1>2 DEF UndoEpisodeDraft
  <2>2. QED
    BY <1>0, <2>1, AbsentText, TextWrite
<1>3. CASE UpdateEpisodeDraft(c) \/ AudioCompleted(c) \/ AudioFailed(c)
  <2>1. /\ row'[i].job = row[i].job
        /\ row'[i].text \in {row[i].text, Manual}
        /\ row'[i].status = row[i].status \/ row'[i].status # "READY"
    <3>1. CASE UpdateEpisodeDraft(c)
      BY ZenonT(30), <1>0, <3>1 DEF UpdateEpisodeDraft, Row
    <3>2. CASE AudioCompleted(c)
      BY <1>0, <3>2 DEF AudioCompleted, Row
    <3>3. CASE AudioFailed(c)
      BY <1>0, <3>3 DEF AudioFailed, Row
    <3>4. QED
      BY <1>3, <3>1, <3>2, <3>3
  <2>2. TextFits(i, row'[i]) /\ Keeps(i, row'[i])
    BY <1>0, <2>1, HarmlessWrite
  <2>3. QED
    BY <1>0, <2>2, TextWrite
<1>4. QED
  BY <1>1, <1>2, <1>3 DEF DraftStep

LEMMA DispatchText ==
  ASSUME TInv, TextInv, NEW d \in dispatch, DispatchStep(d)
  PROVE  TextInv'
<1> DEFINE i == d.id
<1>0. i \in Ids /\ row \in [Ids -> Row]
  BY DEF TInv, RowsFit, Dispatches
<1>1. LateFits
  <2>1. UNCHANGED worker
    BY DEF DispatchStep, AudioRequested, AudioRequestFails, Enqueue, EnqueueFails,
           TouchDispatchedJob, DispatchCrashes
  <2>2. QED
    BY <2>1, LateStays
<1>2. CASE AudioRequested(d) \/ Enqueue(d) \/ DispatchCrashes(d)
  BY <1>1, <1>2, TextStays DEF AudioRequested, Enqueue, DispatchCrashes
<1>3. CASE AudioRequestFails(d) \/ EnqueueFails(d) \/ TouchDispatchedJob(d)
  <2>1. /\ OtherRowsStay(i)
        /\ row'[i].job = row[i].job /\ row'[i].text = row[i].text
        /\ row'[i].status = row[i].status \/ row'[i].status # "READY"
    <3>1. CASE AudioRequestFails(d)
      BY <1>0, <3>1 DEF AudioRequestFails, OtherRowsStay, Row
    <3>2. CASE EnqueueFails(d)
      BY <1>0, <3>2 DEF EnqueueFails, OtherRowsStay, Row
    <3>3. CASE TouchDispatchedJob(d)
      BY <1>0, <3>3 DEF TouchDispatchedJob, OtherRowsStay, Row
    <3>4. QED
      BY <1>3, <3>1, <3>2, <3>3
  <2>2. TextFits(i, row'[i]) /\ Keeps(i, row'[i])
    BY <1>0, <2>1, HarmlessWrite
  <2>3. QED
    BY <1>0, <1>1, <2>1, <2>2, TextWrite
<1>4. QED
  BY <1>2, <1>3 DEF DispatchStep

LEMMA TickText == ASSUME TInv, TextInv, Tick PROVE TextInv'
<1>1. ASSUME NEW i \in Ids PROVE TextFits(i, row'[i]) /\ Keeps(i, row'[i])
  <2>1. /\ row'[i].job = row[i].job /\ row'[i].text = row[i].text
        /\ row'[i].status = row[i].status
    BY DEF TInv, RowsFit, Row, Tick
  <2>2. QED
    BY <2>1, HarmlessWrite
<1>2. QED
  BY <1>1, LateStays, TextStep DEF Tick

\* A consumer that is delivered a message, or gives one back, is not late.
LEMMA NotLate ==
  ASSUME TInv, NEW w \in Workers, NEW r, r.pc \notin Late,
         worker' = [worker EXCEPT ![w] = r]
  PROVE  LateFits
BY DEF LateFits, TInv, WorkersFit

LEMMA IdleIsNotLate == Idle.pc \notin Late
BY DEF Idle, Late

LEMMA GotoLate ==
  ASSUME TInv, NEW w \in Workers, NEW pc, Goto(w, pc), pc \notin Late
  PROVE  LateFits
<1> DEFINE r == [worker[w] EXCEPT !.pc = pc]
<1>1. worker[w] \in Worker
  BY DEF TInv, WorkersFit
<1>2. r.pc = pc /\ worker' = [worker EXCEPT ![w] = r]
  BY <1>1 DEF Goto, Worker
<1>3. QED
  BY <1>2, NotLate

LEMMA DeliverText ==
  ASSUME TInv, TextInv, NEW w \in Workers, NEW m \in queue, Deliver(w, m)
  PROVE  TextInv'
<1> DEFINE r == [Idle EXCEPT !.pc = "claiming", !.id = m.id, !.job = m.job,
                             !.attempts = m.attempts + 1]
<1>1. r.pc \notin Late /\ worker' = [worker EXCEPT ![w] = r]
  BY DEF Deliver, Idle, Late
<1>2. QED
  BY <1>1, NotLate, TextStays DEF Deliver

LEMMA CrashText ==
  ASSUME TInv, TextInv, NEW w \in Workers, WorkerCrashes(w)
  PROVE  TextInv'
BY IdleIsNotLate, NotLate, TextStays DEF WorkerCrashes, Retry

\* A step that is late for the row changes nothing in it.
LEMMA StaleText ==
  ASSUME TInv, TextInv, NEW w \in Workers, UNCHANGED row,
         NEW pc, pc \notin Late, Goto(w, pc)
  PROVE  TextInv'
BY GotoLate, TextStays

LEMMA ReleaseText ==
  ASSUME TInv, TextInv, NEW w \in Workers, worker[w].pc # "idle",
         worker' = [worker EXCEPT ![w] = Idle],
         ReleaseLease(w) \/ UNCHANGED row
  PROVE  TextInv'
<1> DEFINE i == worker[w].id
<1>1. i \in Ids /\ row \in [Ids -> Row]
  BY DEF TInv, RowsFit, WorkersFit, WorkerInv
<1>2. LateFits
  BY IdleIsNotLate, NotLate
<1>3. /\ OtherRowsStay(i)
      /\ row'[i].job = row[i].job /\ row'[i].text = row[i].text
      /\ row'[i].status = row[i].status
  BY ZenonT(30), <1>1 DEF ReleaseLease, OtherRowsStay, Row
<1>4. TextFits(i, row'[i]) /\ Keeps(i, row'[i])
  BY <1>1, <1>3, HarmlessWrite
<1>5. QED
  BY <1>1, <1>2, <1>3, <1>4, TextWrite

LEMMA WorkerText ==
  ASSUME TInv, TextInv, NEW w \in Workers, WorkerStep(w)
  PROVE  TextInv'
<1> DEFINE i == worker[w].id
           Same == /\ OtherRowsStay(i)
                   /\ row'[i].job = row[i].job /\ row'[i].text = row[i].text
                   /\ row'[i].status = row[i].status \/ row'[i].status = "ERROR"
<1>0. /\ row \in [Ids -> Row] /\ worker \in [Workers -> Worker]
      /\ worker[w] \in Worker
      /\ worker[w].pc # "idle" => /\ i \in Ids /\ row[i] \in Row
                                  /\ worker[w].job \in Jobs
  BY DEF TInv, RowsFit, WorkersFit, WorkerInv
<1>s. ASSUME i \in Ids, LateFits, Same PROVE TextInv'
  <2>1. TextFits(i, row'[i]) /\ Keeps(i, row'[i])
    BY <1>s, HarmlessWrite
  <2>2. QED
    BY <1>s, <2>1, TextWrite
<1>1. CASE ClaimJob(w)
  <2>1. CASE Claimable(row[i], worker[w].job)
    <3> DEFINE held(l) == [row[i] EXCEPT !.lease = l, !.left = LeaseTicks, !.age = 0]
    <3>1. Same
      <4>1. PICK l \in FreshLeases : row' = [row EXCEPT ![i] = held(l)]
        BY <1>1, <2>1 DEF ClaimJob
      <4>2. OtherRowsStay(i) /\ row'[i] = held(l)
        BY <1>0, <1>1, <4>1, WrittenRow DEF ClaimJob
      <4>3. /\ held(l).job = row[i].job /\ held(l).text = row[i].text
            /\ held(l).status = row[i].status
        BY <1>0, <1>1 DEF ClaimJob, Row
      <4>4. QED
        BY <4>2, <4>3
    <3>2. worker'[w].pc = "loading" /\ \A v \in Workers : v # w => worker'[v] = worker[v]
      BY ZenonT(30), <1>0, <1>1, <2>1 DEF ClaimJob, Worker
    <3>3. LateFits
      BY <3>2 DEF LateFits, Late
    <3>4. QED
      BY <1>0, <1>1, <1>s, <3>1, <3>3 DEF ClaimJob
  <2>2. CASE ~Claimable(row[i], worker[w].job)
    BY <1>1, <2>2, IdleIsNotLate, NotLate, TextStays DEF ClaimJob, Ack
  <2>3. QED
    BY <2>1, <2>2
<1>2. CASE LoadCaller(w)
  BY <1>2, StaleText DEF LoadCaller, Late
<1>3. CASE LoadDraft(w)
  <2>1. \A v \in Workers : v # w => worker'[v] = worker[v]
    BY <1>0, <1>3 DEF LoadDraft
  <2>2. /\ worker'[w].id = i /\ worker'[w].job = worker[w].job
        /\ worker'[w].pc \in Late => row[i].text # None
    BY <1>0, <1>3 DEF LoadDraft, Worker, Late
  <2>3. LateFits
    BY <1>3, <2>1, <2>2 DEF LateFits, LoadDraft
  <2>4. QED
    BY <1>3, <2>3, TextStays DEF LoadDraft
<1>4. CASE MarkTranscribing(w)
  <2>1. CASE Owns(w)
    <3>1. Same
      BY ZenonT(30), <1>0, <1>4, <2>1 DEF MarkTranscribing, OwnedWrite, OtherRowsStay, Row
    <3>2. LateFits
      BY <1>4, <2>1, GotoLate DEF MarkTranscribing, OwnedWrite, Late
    <3>3. QED
      BY <1>0, <1>4, <1>s, <3>1, <3>2 DEF MarkTranscribing
  <2>2. CASE ~Owns(w)
    BY <1>4, <2>2, StaleText DEF MarkTranscribing, OwnedWrite, Late
  <2>3. QED
    BY <2>1, <2>2
<1>5. CASE CompleteCaller(w)
  <2>1. CASE Owns(w)
    <3> DEFINE r == [row[i] EXCEPT !.status = "READY", !.lease = None, !.left = 0,
                                   !.age = 0, !.text = worker[w].job]
    <3>0. OtherRowsStay(i) /\ row'[i] = r
      BY <1>0, <1>5, <2>1, WrittenRow DEF CompleteCaller, OwnedWrite
    <3>1. /\ row'[i].text = row[i].job /\ row'[i].job = row[i].job
          /\ row'[i].job \in Jobs /\ ~IsDraft(i)
      <4>1. r.text = worker[w].job /\ r.job = row[i].job
        BY <1>0, <1>5 DEF CompleteCaller, Row
      <4>2. QED
        BY <1>0, <1>5, <2>1, <3>0, <4>1 DEF CompleteCaller, Owns
    <3>2. TextFits(i, row'[i]) /\ Keeps(i, row'[i])
      BY <3>1, NullAssumption DEF TextFits, Keeps
    <3>3. LateFits
      BY <1>5, <2>1, IdleIsNotLate, NotLate DEF CompleteCaller, OwnedWrite, Ack
    <3>4. QED
      BY <1>0, <1>5, <3>0, <3>2, <3>3, TextWrite DEF CompleteCaller
  <2>2. CASE ~Owns(w)
    BY <1>5, <2>2, StaleText DEF CompleteCaller, OwnedWrite, Late
  <2>3. QED
    BY <2>1, <2>2
<1>6. CASE SaveTranscript(w)
  <2>1. CASE Owns(w)
    <3> DEFINE r == [row[i] EXCEPT !.step = "GENERATING_METADATA", !.age = 0,
                                   !.text = worker[w].job]
    <3>0. OtherRowsStay(i) /\ row'[i] = r
      BY <1>0, <1>6, <2>1, WrittenRow DEF SaveTranscript, OwnedWrite
    <3>1. /\ row'[i].text = row[i].job /\ row'[i].job = row[i].job
          /\ row'[i].job \in Jobs /\ IsDraft(i) /\ row'[i].status = "PROCESSING"
      <4>1. r.text = worker[w].job /\ r.job = row[i].job /\ r.status = row[i].status
        BY <1>0, <1>6 DEF SaveTranscript, Row
      <4>2. QED
        BY <1>0, <1>6, <2>1, <3>0, <4>1 DEF SaveTranscript, Owns
    <3>2. TextFits(i, row'[i]) /\ Keeps(i, row'[i]) /\ row'[i].text # None
      BY <3>1, NullAssumption DEF TextFits, Keeps
    <3>3. /\ \A v \in Workers : v # w => worker'[v] = worker[v]
          /\ worker'[w].id = i /\ worker'[w].job = worker[w].job
      BY ZenonT(30), <1>0, <1>6, <2>1 DEF SaveTranscript, OwnedWrite, Worker
    <3>4. LateFits
      BY <1>6, <3>1, <3>2, <3>3 DEF LateFits, SaveTranscript
    <3>5. QED
      BY <1>0, <1>6, <3>0, <3>2, <3>4, TextWrite DEF SaveTranscript
  <2>2. CASE ~Owns(w)
    BY <1>6, <2>2, StaleText DEF SaveTranscript, OwnedWrite, Late
  <2>3. QED
    BY <2>1, <2>2
<1>7. CASE MarkMetadata(w)
  <2>1. CASE Owns(w)
    <3>1. Same
      BY ZenonT(30), <1>0, <1>7, <2>1 DEF MarkMetadata, OwnedWrite, OtherRowsStay, Row
    <3>2. /\ \A v \in Workers : v # w => worker'[v] = worker[v]
          /\ worker'[w].id = i /\ worker'[w].job = worker[w].job
      BY <1>0, <1>7, <2>1 DEF MarkMetadata, OwnedWrite, Goto, Worker
    <3>3. LateFits
      BY <1>7, <3>2 DEF LateFits, MarkMetadata, Late
    <3>4. QED
      BY <1>0, <1>7, <1>s, <3>1, <3>3 DEF MarkMetadata
  <2>2. CASE ~Owns(w)
    BY <1>7, <2>2, StaleText DEF MarkMetadata, OwnedWrite, Late
  <2>3. QED
    BY <2>1, <2>2
<1>8. CASE CompleteDraft(w)
  <2>0. worker[w].pc \in Late
    BY <1>8 DEF CompleteDraft, Late
  <2>1. CASE Owns(w)
    <3> DEFINE done == [row[i] EXCEPT !.status = "READY", !.step = "DONE",
                                      !.lease = None, !.left = 0, !.age = 0]
    <3>0. OtherRowsStay(i) /\ row'[i] \in {done, [done EXCEPT !.meta = "generated"]}
      <4>0. i \in Ids
        BY <1>0, <1>8 DEF CompleteDraft
      <4>1. ASSUME NEW r, row' = [row EXCEPT ![i] = r]
            PROVE  OtherRowsStay(i) /\ row'[i] = r
        BY <4>0, <4>1, WrittenRow
      <4>2. \/ row' = [row EXCEPT ![i] = done]
            \/ row' = [row EXCEPT ![i] = [done EXCEPT !.meta = "generated"]]
        BY <1>8, <2>1 DEF CompleteDraft, OwnedWrite
      <4>3. QED
        BY <4>1, <4>2
    <3>1. row'[i].text = row[i].text /\ row'[i].job = row[i].job
      <4>1. /\ done.text = row[i].text /\ done.job = row[i].job
            /\ [done EXCEPT !.meta = "generated"].text = row[i].text
            /\ [done EXCEPT !.meta = "generated"].job = row[i].job
        BY <1>0, <1>8 DEF CompleteDraft, Row
      <4>2. QED
        BY <3>0, <4>1
    <3>2. IsDraft(i) /\ row[i].text # None /\ i \in Ids
      BY <1>0, <2>0, <2>1 DEF TextInv, Owns, Late
    <3>3. TextFits(i, row'[i]) /\ Keeps(i, row'[i])
      BY <3>1, <3>2 DEF TextInv, TextFits, Keeps
    <3>4. LateFits
      BY <1>8, <2>1, IdleIsNotLate, NotLate DEF CompleteDraft, OwnedWrite, Ack
    <3>5. QED
      BY <3>0, <3>2, <3>3, <3>4, TextWrite
  <2>2. CASE ~Owns(w)
    BY <1>8, <2>2, StaleText DEF CompleteDraft, OwnedWrite, Late
  <2>3. QED
    BY <2>1, <2>2
<1>9. CASE ProcessingThrows(w)
  BY <1>9, StaleText DEF ProcessingThrows, Late
<1>10. CASE SettleStale(w) \/ SettleDeferred(w) \/ SettleRetry(w)
  BY <1>10, ReleaseText DEF SettleStale, SettleDeferred, SettleRetry, Ack, Retry
<1>11. CASE SettleError(w)
  <2>1. LateFits
    BY <1>11, IdleIsNotLate, NotLate DEF SettleError, Ack
  <2>2. Same
    BY <1>0, <1>11 DEF SettleError, OtherRowsStay, Row
  <2>3. QED
    BY <1>0, <1>11, <1>s, <2>1, <2>2 DEF SettleError
<1>12. QED
  BY <1>1, <1>2, <1>3, <1>4, <1>5, <1>6, <1>7, <1>8, <1>9, <1>10, <1>11
     DEF WorkerStep

LEMMA InitText == Init => TextInv
BY DEF Init, TextInv, TextFits, Absent, Idle, Late

LEMMA NextText == TInv /\ TextInv /\ [Next]_vars => TextInv'
<1> SUFFICES ASSUME TInv, TextInv, [Next]_vars PROVE TextInv'
  OBVIOUS
<1>1. CASE \E c \in Calls : CallerStep(c)
  BY <1>1, CallerText
<1>2. CASE \E c \in DraftCalls : DraftStep(c)
  BY <1>2, DraftText
<1>3. CASE \E d \in dispatch : DispatchStep(d)
  BY <1>3, DispatchText
<1>4. CASE CronSelect
  BY <1>4, LateStays, TextStays DEF CronSelect
<1>5. CASE \E w \in Workers : \E m \in queue : Deliver(w, m)
  BY <1>5, DeliverText
<1>6. CASE \E w \in Workers : WorkerStep(w)
  BY <1>6, WorkerText
<1>7. CASE \E w \in Workers : WorkerCrashes(w)
  BY <1>7, CrashText
<1>8. CASE Tick
  BY <1>8, TickText
<1>9. CASE UNCHANGED vars
  BY <1>9, LateStays, TextStays DEF vars
<1>10. QED
  BY <1>1, <1>2, <1>3, <1>4, <1>5, <1>6, <1>7, <1>8, <1>9 DEF Next, BackgroundStep

\* Whatever is superseded, retried, delivered twice or late, a READY row shows
\* the text of its own job or of a person.
THEOREM ReadyTextCorrect == Spec => []ReadyTextIsOfCurrentJob
<1>1. TextInv => ReadyTextIsOfCurrentJob
  BY DEF TextInv, TextFits, ReadyTextIsOfCurrentJob
<1>2. Init => TInv /\ TextInv
  BY InitTInv, InitText
<1>3. TInv /\ TextInv /\ [Next]_vars => TInv' /\ TextInv'
  BY NextTInv, NextText
<1>4. QED
  BY <1>1, <1>2, <1>3, PTL DEF Spec

-----------------------------------------------------------------------------
(* A lease that has not run out is kept.                                   *)

\* No two consumers have the same lease: an id that is minted is nobody's.
LeaseInv ==
  \A v, w \in Workers :
    v # w /\ worker[v].lease = worker[w].lease => worker[v].lease = None

OtherWorkersStay(v) == \A u \in Workers : u # v => worker'[u] = worker[u]

\* What a consumer's step does to its own lease ...
OwnLease(v) == worker'[v].lease \in {worker[v].lease, None} \cup FreshLeases

\* ... and to that of the row: it claims the row, or it gives up its own.
RowLease(v) ==
  LET i == worker[v].id IN
  \/ row'[i].lease = row[i].lease
  \/ Claimable(row[i], worker[v].job)
  \/ /\ row[i].lease = worker[v].lease
     /\ worker'[v].pc = "idle"

LEMMA FreshLease ==
  ASSUME NEW l \in FreshLeases
  PROVE  /\ l \in Leases
         /\ \A w \in Workers : worker[w].lease # l
BY DEF FreshLeases, LeasesInUse

LEMMA LeaseStep ==
  ASSUME LeaseInv, NEW v \in Workers, OtherWorkersStay(v), OwnLease(v)
  PROVE  LeaseInv'
<1>1. ASSUME NEW u \in Workers, u # v, worker'[u].lease = worker'[v].lease
      PROVE  worker'[u].lease = None
  <2>1. worker'[u] = worker[u]
    BY <1>1 DEF OtherWorkersStay
  <2>2. CASE worker'[v].lease = worker[v].lease
    BY <1>1, <2>1, <2>2 DEF LeaseInv
  <2>3. CASE worker'[v].lease \in FreshLeases
    BY <1>1, <2>1, <2>3, FreshLease
  <2>4. QED
    BY <1>1, <2>2, <2>3 DEF OwnLease
<1>2. ASSUME NEW u \in Workers, NEW w \in Workers, u # v, w # v, u # w,
             worker'[u].lease = worker'[w].lease
      PROVE  worker'[u].lease = None
  BY <1>2 DEF OtherWorkersStay, LeaseInv
<1>3. QED
  BY <1>1, <1>2 DEF LeaseInv

\* A consumer of its own accord.
LEMMA WorkerLease ==
  ASSUME TInv, NEW v \in Workers, WorkerStep(v)
  PROVE  OtherRowsStay(worker[v].id) /\ OtherWorkersStay(v) /\ OwnLease(v) /\ RowLease(v)
<1> DEFINE i == worker[v].id
<1>0. /\ i \in Ids /\ row \in [Ids -> Row] /\ row[i] \in Row
      /\ worker \in [Workers -> Worker] /\ worker[v] \in Worker
  <2>1. worker[v].pc # "idle"
    BY DEF WorkerStep, ClaimJob, LoadCaller, LoadDraft, MarkTranscribing,
           CompleteCaller, SaveTranscript, MarkMetadata, CompleteDraft,
           ProcessingThrows, SettleStale, SettleDeferred, SettleRetry, SettleError,
           Processing
  <2>2. QED
    BY <2>1 DEF TInv, RowsFit, WorkersFit, WorkerInv
<1>a. ASSUME NEW r, row' = [row EXCEPT ![i] = r]
      PROVE  OtherRowsStay(i) /\ row'[i] = r
  BY <1>0, <1>a, WrittenRow
<1>b. ASSUME UNCHANGED row PROVE OtherRowsStay(i) /\ RowLease(v)
  BY <1>b DEF OtherRowsStay, RowLease
<1>c. ASSUME NEW r, worker' = [worker EXCEPT ![v] = r]
      PROVE  OtherWorkersStay(v) /\ worker'[v] = r
  BY <1>0, <1>c DEF OtherWorkersStay
<1>d. ASSUME worker' = [worker EXCEPT ![v] = Idle]
      PROVE  OtherWorkersStay(v) /\ OwnLease(v) /\ worker'[v].pc = "idle"
  BY <1>c, <1>d DEF OwnLease, Idle
<1>e. ASSUME NEW pc, Goto(v, pc) PROVE OtherWorkersStay(v) /\ OwnLease(v)
  <2>1. OtherWorkersStay(v)
    BY <1>0, <1>e DEF Goto, OtherWorkersStay
  <2>2. worker'[v].lease = worker[v].lease
    BY <1>0, <1>e DEF Goto, Worker
  <2>3. QED
    BY <2>1, <2>2 DEF OwnLease
<1>f. ASSUME ReleaseLease(v) \/ UNCHANGED row, worker'[v].pc = "idle"
      PROVE  OtherRowsStay(i) /\ RowLease(v)
  BY <1>b, <1>f, <1>a DEF ReleaseLease, RowLease
<1>1. CASE ClaimJob(v)
  <2>1. CASE Claimable(row[i], worker[v].job)
    <3> DEFINE held(l) == [row[i] EXCEPT !.lease = l, !.left = LeaseTicks, !.age = 0]
               loading(l) == [worker[v] EXCEPT !.pc = "loading", !.lease = l]
    <3>1. PICK l \in FreshLeases : /\ row' = [row EXCEPT ![i] = held(l)]
                                   /\ worker' = [worker EXCEPT ![v] = loading(l)]
      BY <1>1, <2>1 DEF ClaimJob
    <3>2. loading(l).lease = l
      BY <1>0 DEF Worker
    <3>3. OtherRowsStay(i) /\ OtherWorkersStay(v) /\ worker'[v] = loading(l)
      BY <1>a, <1>c, <3>1
    <3>4. QED
      BY <2>1, <3>2, <3>3 DEF OwnLease, RowLease
  <2>2. CASE ~Claimable(row[i], worker[v].job)
    BY <1>1, <1>b, <1>d, <2>2 DEF ClaimJob, Ack
  <2>3. QED
    BY <2>1, <2>2
<1>2. CASE LoadCaller(v) \/ ProcessingThrows(v)
  BY <1>2, <1>b, <1>e DEF LoadCaller, ProcessingThrows
<1>3. CASE LoadDraft(v)
  <2>1. PICK p, t, e : worker' = [worker EXCEPT ![v] =
                                    [worker[v] EXCEPT !.pc = p, !.text = t, !.meta = e]]
    BY <1>3 DEF LoadDraft
  <2>2. OtherWorkersStay(v) /\ worker'[v].lease = worker[v].lease
    BY <1>0, <2>1 DEF OtherWorkersStay, Worker
  <2>3. QED
    BY <1>3, <1>b, <2>2 DEF LoadDraft, OwnLease
<1>4. ASSUME ~Owns(v), MarkTranscribing(v) \/ CompleteCaller(v) \/ SaveTranscript(v)
                         \/ MarkMetadata(v) \/ CompleteDraft(v)
      PROVE  /\ OtherRowsStay(i) /\ OtherWorkersStay(v) /\ OwnLease(v) /\ RowLease(v)
  BY <1>4, <1>b, <1>e
     DEF OwnedWrite, MarkTranscribing, CompleteCaller, SaveTranscript, MarkMetadata,
         CompleteDraft
<1>5. ASSUME Owns(v), MarkTranscribing(v) \/ MarkMetadata(v) \/ SaveTranscript(v)
      PROVE  /\ OtherRowsStay(i) /\ OtherWorkersStay(v) /\ OwnLease(v) /\ RowLease(v)
  <2> DEFINE r(p) == [row[i] EXCEPT !.step = p, !.age = 0]
             t == [row[i] EXCEPT !.step = "GENERATING_METADATA", !.age = 0,
                                 !.text = worker[v].job]
             saved == [worker[v] EXCEPT !.pc = "metadata", !.text = worker[v].job]
  <2>1. \/ row' = [row EXCEPT ![i] = r("TRANSCRIBING")]
        \/ row' = [row EXCEPT ![i] = r("GENERATING_METADATA")]
        \/ row' = [row EXCEPT ![i] = t]
    BY <1>5 DEF MarkTranscribing, MarkMetadata, SaveTranscript, OwnedWrite
  <2>2. t.lease = row[i].lease /\ \A p : r(p).lease = row[i].lease
    BY <1>0 DEF Row
  <2>3. OtherRowsStay(i) /\ row'[i].lease = row[i].lease
    <3> HIDE DEF i, r, t
    <3>1. OtherRowsStay(i) /\ row'[i] \in {r("TRANSCRIBING"), r("GENERATING_METADATA"), t}
      BY <1>a, <2>1
    <3>2. QED
      BY <2>2, <3>1
  <2>4. CASE Goto(v, "transcribing") \/ Goto(v, "describing")
    BY <1>e, <2>3, <2>4 DEF RowLease
  <2>5. CASE worker' = [worker EXCEPT ![v] = saved]
    <3>1. saved.lease = worker[v].lease
      BY <1>0 DEF Worker
    <3>2. OtherWorkersStay(v) /\ worker'[v].lease = worker[v].lease
      BY <1>c, <2>5, <3>1
    <3>3. QED
      BY <2>3, <3>2 DEF OwnLease, RowLease
  <2>6. QED
    BY <1>5, <2>4, <2>5 DEF MarkTranscribing, MarkMetadata, SaveTranscript, OwnedWrite
<1>6. ASSUME Owns(v), CompleteCaller(v) \/ CompleteDraft(v)
      PROVE  /\ OtherRowsStay(i) /\ OtherWorkersStay(v) /\ OwnLease(v) /\ RowLease(v)
  <2>1. OtherWorkersStay(v) /\ OwnLease(v) /\ worker'[v].pc = "idle"
    BY <1>6, <1>d DEF CompleteCaller, CompleteDraft, OwnedWrite, Ack
  <2>2. PICK r : row' = [row EXCEPT ![i] = r]
    BY <1>6 DEF CompleteCaller, CompleteDraft, OwnedWrite
  <2>3. OtherRowsStay(i)
    BY <1>a, <2>2
  <2>4. QED
    BY <1>6, <2>1, <2>3 DEF RowLease, Owns
<1>7. CASE SettleStale(v) \/ SettleDeferred(v) \/ SettleRetry(v)
  BY <1>7, <1>d, <1>f DEF SettleStale, SettleDeferred, SettleRetry, Ack, Retry
<1>8. CASE SettleError(v)
  <2>1. OtherWorkersStay(v) /\ OwnLease(v) /\ worker'[v].pc = "idle"
    BY <1>8, <1>d DEF SettleError, Ack
  <2>2. CASE Owns(v)
    BY <1>8, <1>a, <2>1, <2>2 DEF SettleError, RowLease, Owns
  <2>3. CASE ~Owns(v)
    BY <1>8, <1>b, <2>1, <2>3 DEF SettleError
  <2>4. QED
    BY <2>2, <2>3
<1>9. QED
  BY <1>1, <1>2, <1>3, <1>4, <1>5, <1>6, <1>7, <1>8 DEF WorkerStep

LEMMA InitLease == Init => LeaseInv
BY DEF Init, LeaseInv, Idle

\* Only a delivery, a consumer and its crash write a consumer.
LEMMA RequestsLeaveWorkers ==
  ASSUME \/ \E c \in Calls : CallerStep(c)
         \/ \E c \in DraftCalls : DraftStep(c)
  PROVE  UNCHANGED worker /\ dispatch \subseteq dispatch'
<1>1. ASSUME NEW c \in Calls, CallerStep(c)
      PROVE  UNCHANGED worker /\ dispatch \subseteq dispatch'
  BY <1>1 DEF CallerStep, CreateCall, GenerateCallerTranscript,
              UpdateCallerTranscript, DeleteCall, HandsOver
<1>2. ASSUME NEW c \in DraftCalls, DraftStep(c)
      PROVE  UNCHANGED worker /\ dispatch \subseteq dispatch'
  BY <1>2 DEF DraftStep, CreateEpisodeDraft, UndoEpisodeDraft, UpdateEpisodeDraft,
              AudioCompleted, AudioFailed, HandsOver
<1>3. QED
  BY <1>1, <1>2

LEMMA DispatchLease ==
  ASSUME TInv, NEW d \in dispatch, DispatchStep(d)
  PROVE  /\ UNCHANGED worker
         /\ \A i \in Ids : row'[i].lease = row[i].lease
<1>1. UNCHANGED worker
  BY DEF DispatchStep, AudioRequested, AudioRequestFails, Enqueue, EnqueueFails,
         TouchDispatchedJob, DispatchCrashes
<1>2. d.id \in Ids /\ row \in [Ids -> Row]
  BY DEF TInv, RowsFit, Dispatches
<1>3. ASSUME NEW i \in Ids PROVE row'[i].lease = row[i].lease
  <2>1. CASE AudioRequested(d) \/ Enqueue(d) \/ DispatchCrashes(d)
    BY <2>1 DEF AudioRequested, Enqueue, DispatchCrashes
  <2>2. CASE AudioRequestFails(d)
    BY <1>2, <2>2 DEF AudioRequestFails, Row
  <2>3. CASE EnqueueFails(d)
    BY <1>2, <2>3 DEF EnqueueFails, Row
  <2>4. CASE TouchDispatchedJob(d)
    BY <1>2, <2>4 DEF TouchDispatchedJob, Row
  <2>5. QED
    BY <2>1, <2>2, <2>3, <2>4 DEF DispatchStep
<1>4. QED
  BY <1>1, <1>3

\* A delivery or a crash leaves a consumer without a lease.
LEMMA DeliveryLease ==
  ASSUME TInv, NEW v \in Workers,
         (\E m \in queue : Deliver(v, m)) \/ WorkerCrashes(v)
  PROVE  UNCHANGED row /\ OtherWorkersStay(v) /\ OwnLease(v)
<1>1. PICK r : worker' = [worker EXCEPT ![v] = r] /\ r.lease = None
  <2>1. ASSUME NEW m \in queue, Deliver(v, m)
        PROVE  \E r : worker' = [worker EXCEPT ![v] = r] /\ r.lease = None
    <3> DEFINE r == [Idle EXCEPT !.pc = "claiming", !.id = m.id, !.job = m.job,
                                 !.attempts = m.attempts + 1]
    <3>1. r.lease = None
      BY DEF Idle
    <3>2. worker' = [worker EXCEPT ![v] = r]
      BY <2>1 DEF Deliver
    <3>3. QED
      BY <3>1, <3>2
  <2>2. CASE WorkerCrashes(v)
    <3>1. worker' = [worker EXCEPT ![v] = Idle]
      BY <2>2 DEF WorkerCrashes, Retry
    <3>2. Idle.lease = None
      BY DEF Idle
    <3>3. QED
      BY <3>1, <3>2
  <2>3. QED
    BY <2>1, <2>2
<1>2. QED
  BY <1>1 DEF TInv, WorkersFit, OtherWorkersStay, OwnLease, Deliver, WorkerCrashes

LEMMA NextLease == TInv /\ LeaseInv /\ [Next]_vars => LeaseInv'
<1> SUFFICES ASSUME TInv, LeaseInv, [Next]_vars PROVE LeaseInv'
  OBVIOUS
<1>1. CASE UNCHANGED worker
  BY <1>1 DEF LeaseInv
<1>2. CASE \E v \in Workers : WorkerStep(v)
  BY <1>2, WorkerLease, LeaseStep
<1>3. CASE \E v \in Workers : (\E m \in queue : Deliver(v, m)) \/ WorkerCrashes(v)
  BY <1>3, DeliveryLease, LeaseStep
<1>4. CASE ~UNCHANGED worker
  <2>1. ~(\E d \in dispatch : DispatchStep(d)) /\ ~CronSelect /\ ~Tick /\ ~UNCHANGED vars
    BY <1>4, DispatchLease DEF CronSelect, Tick, vars
  <2>2. QED
    BY <1>2, <1>3, <1>4, <2>1, RequestsLeaveWorkers DEF Next, BackgroundStep
<1>5. QED
  BY <1>1, <1>4

LEMMA LeaseKept ==
  ASSUME TInv, LeaseInv, [Next]_vars, QueueSide,
         NEW w \in Workers, Working(w), Owns(w), row[worker[w].id].left > 0,
         worker'[w] = worker[w]
  PROVE  row'[worker[w].id].lease = row[worker[w].id].lease
<1> DEFINE i == worker[w].id
<1>1. /\ i \in Ids /\ worker[w].lease \in Leases /\ worker[w].lease # None
      /\ row[i].lease = worker[w].lease /\ worker[w].pc # "idle"
  BY NullAssumption DEF TInv, WorkersFit, WorkerInv, Working, Owns, Processing
<1>2. CASE \E v \in Workers : WorkerStep(v)
  <2>1. PICK v \in Workers : WorkerStep(v)
    BY <1>2
  <2>2. /\ OtherRowsStay(worker[v].id) /\ RowLease(v)
    BY <2>1, WorkerLease
  <2>3. CASE worker[v].id # i
    BY <1>1, <2>2, <2>3 DEF OtherRowsStay
  <2>4. CASE worker[v].id = i
    <3>1. ~Claimable(row[i], worker[v].job)
      <4>1. row[i].left # 0
        OBVIOUS
      <4>2. QED
        BY <1>1, <4>1 DEF Claimable
    <3>2. ~(row[i].lease = worker[v].lease /\ worker'[v].pc = "idle")
      BY <1>1 DEF LeaseInv
    <3>3. QED
      BY <2>2, <2>4, <3>1, <3>2 DEF RowLease
  <2>5. QED
    BY <2>3, <2>4
<1>3. CASE \E v \in Workers : (\E m \in queue : Deliver(v, m)) \/ WorkerCrashes(v)
  BY <1>3, DeliveryLease
<1>4. CASE \E d \in dispatch : DispatchStep(d)
  BY <1>1, <1>4, DispatchLease
<1>5. ~CronSelect /\ ~Tick /\ ~UNCHANGED vars
  BY DEF QueueSide, CronSelect, Tick, vars
<1>6. QED
  BY <1>2, <1>3, <1>4, <1>5, RequestsLeaveWorkers DEF QueueSide, Next, BackgroundStep

\* No two consumers process one job while its lease lasts: what one of them has
\* claimed, no delivery, retry, recovery or other consumer takes from it.
THEOREM LeaseKeptCorrect == Spec => UnexpiredLeaseIsKept
<1>1. Init => TInv /\ LeaseInv
  BY InitTInv, InitLease
<1>2. TInv /\ LeaseInv /\ [Next]_vars => TInv' /\ LeaseInv'
  BY NextTInv, NextLease
<1> DEFINE Kept ==
      \A w \in Workers :
        LET i == worker[w].id IN
        QueueSide /\ Working(w) /\ Owns(w) /\ row[i].left > 0
          /\ worker'[w] = worker[w]
        => row'[i].lease = row[i].lease
<1>3. TInv /\ LeaseInv /\ [Next]_vars => [Kept]_vars
  BY LeaseKept
<1>4. QED
  BY <1>1, <1>2, <1>3, PTL DEF Spec, UnexpiredLeaseIsKept

-----------------------------------------------------------------------------
(* What the queue's side does to a row.                                    *)

\* A lease is taken or given back, or the row is noted to be alive.
OnlyLease(i) ==
  row'[i] = [row[i] EXCEPT !.lease = row'[i].lease,
                           !.left = row'[i].left, !.age = row'[i].age]

\* The open job goes on, with a text of its own for a draft, or is closed: by
\* its own text, by the text that a draft already has, or by an error.
Progress(i) ==
  /\ row[i].status = "PROCESSING"
  /\ \/ row'[i].status = "PROCESSING" /\ row'[i].text = row[i].text
     \/ row'[i].status = "PROCESSING" /\ IsDraft(i) /\ row'[i].text = row[i].job
     \/ row'[i].status = "READY" /\ row'[i].text = row[i].job
     \/ /\ row'[i].status = "READY" /\ IsDraft(i)
        /\ row'[i].text = row[i].text /\ row[i].text # None
     \/ row'[i].status = "ERROR" /\ row'[i].text = row[i].text

\* A step on behalf of job j of row i leaves the other rows alone, and this one
\* too if it has another job by now; no draft is sent back to wait for its audio.
Effect(i, j) ==
  /\ OtherRowsStay(i)
  /\ row[i].job # j => row'[i] = row[i]
  /\ row'[i].job = row[i].job
  /\ row'[i].step = "AUDIO" => row[i].step = "AUDIO"
  /\ OnlyLease(i) \/ Progress(i)

LEMMA NoEffect ==
  ASSUME TInv, UNCHANGED row, NEW i \in Ids, NEW j
  PROVE  Effect(i, j)
<1>1. row[i] \in Row
  BY DEF TInv, RowsFit
<1>2. row[i] = [row[i] EXCEPT !.lease = row[i].lease,
                              !.left = row[i].left, !.age = row[i].age]
  BY <1>1 DEF Row
<1> QED
  BY <1>2 DEF Effect, OtherRowsStay, OnlyLease

LEMMA LeaseEffect ==
  ASSUME TInv, NEW i \in Ids, NEW l, NEW n, NEW a,
         \/ row' = [row EXCEPT ![i] = [row[i] EXCEPT !.lease = l, !.left = n, !.age = a]]
         \/ row' = [row EXCEPT ![i] = [row[i] EXCEPT !.age = a]]
  PROVE  Effect(i, row[i].job)
<1> DEFINE held == [row[i] EXCEPT !.lease = l, !.left = n, !.age = a]
           touched == [row[i] EXCEPT !.age = a]
<1>1. row \in [Ids -> Row] /\ row[i] \in Row
  BY DEF TInv, RowsFit
<1>2. OtherRowsStay(i) /\ row'[i] \in {held, touched}
  BY <1>1 DEF OtherRowsStay
<1>3. /\ held = [row[i] EXCEPT !.lease = held.lease, !.left = held.left,
                               !.age = held.age]
      /\ held.job = row[i].job /\ held.step = row[i].step
      /\ touched = [row[i] EXCEPT !.lease = touched.lease, !.left = touched.left,
                                  !.age = touched.age]
      /\ touched.job = row[i].job /\ touched.step = row[i].step
  BY <1>1 DEF Row
<1> HIDE DEF held, touched
<1> QED
  BY <1>2, <1>3 DEF Effect, OnlyLease

\* One row is written with a record in which the job goes on or is closed.
LEMMA ProgressEffect ==
  ASSUME TInv, NEW i \in Ids, NEW r, row' = [row EXCEPT ![i] = r],
         row[i].status = "PROCESSING", r.job = row[i].job,
         r.step = "AUDIO" => row[i].step = "AUDIO",
         \/ r.status = "PROCESSING" /\ r.text = row[i].text
         \/ r.status = "PROCESSING" /\ IsDraft(i) /\ r.text = row[i].job
         \/ r.status = "READY" /\ r.text = row[i].job
         \/ r.status = "READY" /\ IsDraft(i) /\ r.text = row[i].text /\ r.text # None
         \/ r.status = "ERROR" /\ r.text = row[i].text
  PROVE  Effect(i, row[i].job)
BY WrittenRow DEF Effect, Progress

LEMMA DispatchEffect ==
  ASSUME TInv, NEW d \in dispatch, DispatchStep(d)
  PROVE  d.id \in Ids /\ Effect(d.id, d.job)
<1> DEFINE i == d.id
           touched == [row[i] EXCEPT !.age = 0]
           failed == [row[i] EXCEPT !.status = "ERROR", !.step = "DONE", !.age = 0]
<1>1. i \in Ids /\ row \in [Ids -> Row] /\ row[i] \in Row
  BY DEF TInv, RowsFit, Dispatches
<1>2. CASE UNCHANGED row
  BY <1>1, <1>2, NoEffect
<1>3. CASE Awaits(i, d.job) /\ row' = [row EXCEPT ![i] = failed]
  <2>1. failed.status = "ERROR" /\ failed.text = row[i].text /\ failed.job = row[i].job
        /\ failed.step = "DONE"
    BY <1>1 DEF Row
  <2> HIDE DEF failed
  <2> QED
    BY <1>1, <1>3, <2>1, ProgressEffect DEF Awaits
<1>4. CASE Awaits(i, d.job) /\ row' = [row EXCEPT ![i] = touched]
  BY <1>1, <1>4, LeaseEffect DEF Awaits
<1> QED
  <2>1. CASE AudioRequestFails(d)
    BY <1>2, <1>3, <2>1 DEF AudioRequestFails
  <2>2. CASE EnqueueFails(d) \/ TouchDispatchedJob(d)
    <3>1. [row EXCEPT ![i].age = 0] = [row EXCEPT ![i] = touched]
      BY <1>1
    <3> QED
      BY <1>2, <1>4, <2>2, <3>1 DEF EnqueueFails, TouchDispatchedJob
  <2>3. CASE AudioRequested(d) \/ Enqueue(d) \/ DispatchCrashes(d)
    BY <1>2, <2>3 DEF AudioRequested, Enqueue, DispatchCrashes
  <2> QED
    BY <1>1, <2>1, <2>2, <2>3 DEF DispatchStep

LEMMA ReleaseEffect ==
  ASSUME TInv, NEW w \in Workers, worker[w].pc # "idle",
         ReleaseLease(w) \/ UNCHANGED row
  PROVE  Effect(worker[w].id, worker[w].job)
<1> DEFINE i == worker[w].id
<1>1. i \in Ids
  BY DEF TInv, WorkersFit, WorkerInv
<1>2. CASE UNCHANGED row
  BY <1>1, <1>2, NoEffect
<1>3. CASE /\ row[i].job = worker[w].job
           /\ row' = [row EXCEPT ![i] = [row[i] EXCEPT !.lease = None, !.left = 0, !.age = 0]]
  BY <1>1, <1>3, LeaseEffect
<1> QED
  BY <1>2, <1>3 DEF ReleaseLease

\* A consumer's step is a step on behalf of the job it was delivered; past the
\* checkpoint it relies on the text of the draft.
LEMMA WorkerEffect ==
  ASSUME TInv, TextInv, NEW w \in Workers, WorkerStep(w)
  PROVE  worker[w].id \in Ids /\ Effect(worker[w].id, worker[w].job)
<1> DEFINE i == worker[w].id
<1>0. /\ worker[w].pc # "idle" /\ i \in Ids
      /\ row \in [Ids -> Row] /\ row[i] \in Row
  <2>1. worker[w].pc # "idle"
    BY DEF WorkerStep, ClaimJob, LoadCaller, LoadDraft, MarkTranscribing,
           CompleteCaller, SaveTranscript, MarkMetadata, CompleteDraft,
           ProcessingThrows, SettleStale, SettleDeferred, SettleRetry, SettleError,
           Processing
  <2> QED
    BY <2>1 DEF TInv, RowsFit, WorkersFit, WorkerInv
<1>1. CASE UNCHANGED row
  BY <1>0, <1>1, NoEffect
<1>2. CASE ClaimJob(w)
  <2> DEFINE held(l) == [row[i] EXCEPT !.lease = l, !.left = LeaseTicks, !.age = 0]
  <2>1. CASE Claimable(row[i], worker[w].job)
    <3>1. PICK l \in FreshLeases : row' = [row EXCEPT ![i] = held(l)]
      BY <1>2, <2>1 DEF ClaimJob
    <3> QED
      BY <1>0, <2>1, <3>1, LeaseEffect DEF Claimable
  <2> QED
    BY <1>1, <1>2, <2>1 DEF ClaimJob
<1>3. ASSUME Owns(w), MarkTranscribing(w) \/ MarkMetadata(w)
      PROVE  Effect(i, worker[w].job)
  <2> DEFINE r(p) == [row[i] EXCEPT !.step = p, !.age = 0]
  <2>1. PICK p \in {"TRANSCRIBING", "GENERATING_METADATA"} : row' = [row EXCEPT ![i] = r(p)]
    BY <1>3 DEF MarkTranscribing, MarkMetadata, OwnedWrite
  <2>2. /\ r(p).status = row[i].status /\ r(p).job = row[i].job
        /\ r(p).text = row[i].text /\ r(p).step # "AUDIO"
    BY <1>0 DEF Row
  <2> HIDE DEF r
  <2> QED
    BY <1>0, <1>3, <2>1, <2>2, ProgressEffect DEF Owns
<1>4. ASSUME Owns(w), SaveTranscript(w) PROVE Effect(i, worker[w].job)
  <2> DEFINE r == [row[i] EXCEPT !.step = "GENERATING_METADATA", !.age = 0,
                                 !.text = worker[w].job]
  <2>1. row' = [row EXCEPT ![i] = r] /\ IsDraft(i)
    BY <1>4 DEF SaveTranscript, OwnedWrite
  <2>2. /\ r.status = row[i].status /\ r.job = row[i].job
        /\ r.text = worker[w].job /\ r.step # "AUDIO"
    BY <1>0 DEF Row
  <2> HIDE DEF r
  <2> QED
    BY <1>0, <1>4, <2>1, <2>2, ProgressEffect DEF Owns
<1>5. ASSUME Owns(w), CompleteCaller(w) PROVE Effect(i, worker[w].job)
  <2> DEFINE r == [row[i] EXCEPT !.status = "READY", !.lease = None, !.left = 0,
                                 !.age = 0, !.text = worker[w].job]
  <2>1. row' = [row EXCEPT ![i] = r]
    BY <1>5 DEF CompleteCaller, OwnedWrite
  <2>2. /\ r.status = "READY" /\ r.job = row[i].job
        /\ r.text = worker[w].job /\ r.step = row[i].step
    BY <1>0 DEF Row
  <2> HIDE DEF r
  <2> QED
    BY <1>0, <1>5, <2>1, <2>2, ProgressEffect DEF Owns
<1>6. ASSUME Owns(w), CompleteDraft(w) PROVE Effect(i, worker[w].job)
  <2> DEFINE done == [row[i] EXCEPT !.status = "READY", !.step = "DONE",
                                    !.lease = None, !.left = 0, !.age = 0]
             described == [done EXCEPT !.meta = "generated"]
  <2>1. PICK r \in {done, described} : row' = [row EXCEPT ![i] = r]
    BY <1>6 DEF CompleteDraft, OwnedWrite
  <2>2. /\ r.status = "READY" /\ r.job = row[i].job
        /\ r.text = row[i].text /\ r.step = "DONE"
    BY <1>0, <2>1 DEF Row
  <2>3. IsDraft(i) /\ row[i].text # None
    BY <1>6 DEF CompleteDraft, TextInv, Owns, Late
  <2> HIDE DEF done, described
  <2> QED
    BY <1>0, <1>6, <2>1, <2>2, <2>3, ProgressEffect DEF Owns
<1>7. ASSUME Owns(w), SettleError(w) PROVE Effect(i, worker[w].job)
  <2> DEFINE r == [row[i] EXCEPT !.status = "ERROR", !.step = "DONE",
                                 !.lease = None, !.left = 0, !.age = 0]
  <2>1. row' = [row EXCEPT ![i] = r]
    BY <1>7 DEF SettleError
  <2>2. /\ r.status = "ERROR" /\ r.job = row[i].job
        /\ r.text = row[i].text /\ r.step = "DONE"
    BY <1>0 DEF Row
  <2> HIDE DEF r
  <2> QED
    BY <1>0, <1>7, <2>1, <2>2, ProgressEffect DEF Owns
<1>8. CASE SettleStale(w) \/ SettleDeferred(w) \/ SettleRetry(w)
  BY <1>0, <1>8, ReleaseEffect DEF SettleStale, SettleDeferred, SettleRetry
<1> QED
  <2>1. CASE LoadCaller(w) \/ LoadDraft(w) \/ ProcessingThrows(w)
    BY <1>0, <1>1, <2>1 DEF LoadCaller, LoadDraft, ProcessingThrows
  <2>2. CASE MarkTranscribing(w) \/ CompleteCaller(w) \/ SaveTranscript(w)
             \/ MarkMetadata(w) \/ CompleteDraft(w) \/ SettleError(w)
    <3>1. ~Owns(w) => UNCHANGED row
      BY <2>2 DEF MarkTranscribing, CompleteCaller, SaveTranscript, MarkMetadata,
                  CompleteDraft, SettleError, OwnedWrite
    <3> QED
      BY <1>0, <1>1, <1>3, <1>4, <1>5, <1>6, <1>7, <2>2, <3>1
  <2> QED
    BY <1>0, <1>2, <1>8, <2>1, <2>2 DEF WorkerStep

\* Every step of the queue's side is the effect of one job on one row.
LEMMA QueueEffect ==
  ASSUME TInv, TextInv, BackgroundStep
  PROVE  UNCHANGED row \/ \E i \in Ids : \E j : Effect(i, j)
<1>1. CASE \E d \in dispatch : DispatchStep(d)
  BY <1>1, DispatchEffect
<1>2. CASE \E w \in Workers : WorkerStep(w)
  BY <1>2, WorkerEffect
<1> QED
  BY <1>1, <1>2 DEF BackgroundStep, CronSelect, Deliver, WorkerCrashes

-----------------------------------------------------------------------------
(* Settled rows.                                                           *)

LEMMA SettledStays ==
  ASSUME TInv, TextInv, [Next]_vars, QueueSide,
         NEW i \in Ids, row[i].status # "PROCESSING"
  PROVE  OnlyLease(i)
<1>1. CASE UNCHANGED row
  BY <1>1, NoEffect DEF Effect, Progress
<1>2. CASE BackgroundStep
  <2>1. CASE \E n \in Ids : \E j : Effect(n, j)
    <3>1. PICK n \in Ids : \E j : Effect(n, j)
      BY <2>1
    <3>2. CASE n = i
      BY <3>1, <3>2 DEF Effect, Progress
    <3>3. CASE n # i
      <4>1. row'[i] = row[i] /\ row[i] \in Row
        BY <3>1, <3>3 DEF Effect, OtherRowsStay, TInv, RowsFit
      <4> QED
        BY <4>1 DEF OnlyLease, Row
    <3> QED
      BY <3>2, <3>3
  <2> QED
    BY <1>1, <1>2, <2>1, QueueEffect
<1>3. ~Tick /\ ~UNCHANGED vars
  BY DEF QueueSide, Tick, vars
<1> QED
  BY <1>1, <1>2, <1>3, RequestsLeaveWorkers DEF QueueSide, Next

\* Late consumers, duplicate deliveries, failed enqueues and the cron write
\* nothing into a settled row but the release of a lease.
THEOREM SettledRowsCorrect == Spec => SettledRowsStay
<1> DEFINE Stay ==
      \A i \in Ids :
        QueueSide /\ row[i].status # "PROCESSING" =>
          row'[i] = [row[i] EXCEPT !.lease = row'[i].lease,
                                   !.left = row'[i].left, !.age = row'[i].age]
<1>1. Init => TInv /\ TextInv
  BY InitTInv, InitText
<1>2. TInv /\ TextInv /\ [Next]_vars => TInv' /\ TextInv'
  BY NextTInv, NextText
<1>3. TInv /\ TextInv /\ [Next]_vars => [Stay]_vars
  BY SettledStays DEF OnlyLease
<1> QED
  BY <1>1, <1>2, <1>3, PTL DEF Spec, SettledRowsStay

-----------------------------------------------------------------------------
(* No work before the audio.                                               *)

Waiting(i) == row[i].status = "PROCESSING" /\ row[i].step = "AUDIO"

\* A message, a consumer or a dispatch to the queue names job j of row i.
Named(i, j) ==
  \/ \E m \in queue : m.id = i /\ m.job = j
  \/ \E w \in Workers : worker[w].id = i /\ worker[w].job = j
  \/ \E d \in dispatch : d.id = i /\ d.job = j /\ d.stage # "audio"

\* While a draft waits for its audio, nobody holds it and nobody has its job.
AudioInv ==
  \A i \in Ids :
    /\ row[i].step = "AUDIO" => IsDraft(i)
    /\ Waiting(i) => row[i].lease = None /\ ~Named(i, row[i].job)

\* A step names no job, but the one of a row that does not wait.
NamesStay ==
  \A i \in Ids : \A j \in Jobs :
    Named(i, j)' => \/ Named(i, j)
                    \/ row'[i].job = j /\ ~Waiting(i)'

\* A row that waits did so before, or its job is a new one.
WaitingStays ==
  \A i \in Ids :
    /\ row'[i].step = "AUDIO" => IsDraft(i)
    /\ Waiting(i)' => \/ row'[i] = row[i]
                      \/ Waiting(i) /\ row'[i].job = row[i].job
                           /\ row'[i].lease = row[i].lease
                      \/ row'[i].lease = None /\ row'[i].job \in FreshJobs

LEMMA FreshIsNamedByNobody ==
  ASSUME NEW j \in FreshJobs, NEW i \in Ids
  PROVE  ~Named(i, j)
BY DEF FreshJobs, JobsInUse, Named

LEMMA AudioStep ==
  ASSUME TInv, TInv', AudioInv, NamesStay, WaitingStays
  PROVE  AudioInv'
<1> SUFFICES ASSUME NEW i \in Ids, Waiting(i)'
             PROVE  (row[i].lease = None /\ ~Named(i, row[i].job))'
  BY DEF AudioInv, WaitingStays
<1>1. PICK j \in Jobs : j = row'[i].job
  BY DEF TInv, RowsFit, RowInv, Waiting
<1>2. row'[i].lease = None /\ ~Named(i, j)
  <2>1. CASE row'[i].job \in FreshJobs /\ row'[i].lease = None
    BY <1>1, <2>1, FreshIsNamedByNobody
  <2>2. CASE row'[i] = row[i]
    BY <1>1, <2>2 DEF AudioInv, Waiting
  <2>3. CASE Waiting(i) /\ row'[i].job = row[i].job /\ row'[i].lease = row[i].lease
    BY <1>1, <2>3 DEF AudioInv
  <2> QED
    BY <2>1, <2>2, <2>3 DEF WaitingStays
<1>3. ~Named(i, j)'
  BY <1>2 DEF NamesStay
<1> QED
  BY <1>1, <1>2, <1>3 DEF Named

\* Nothing is written and nobody is named.
LEMMA RowsWait == ASSUME TInv, AudioInv, UNCHANGED row PROVE WaitingStays
BY DEF WaitingStays, AudioInv

\* The steps of a job that is named already.
LEMMA NamedEffect ==
  ASSUME TInv, AudioInv, NEW i \in Ids, NEW j, Effect(i, j), Named(i, j)
  PROVE  WaitingStays
<1> SUFFICES ASSUME NEW n \in Ids
             PROVE  /\ row'[n].step = "AUDIO" => IsDraft(n)
                    /\ Waiting(n)' => row'[n] = row[n]
  BY DEF WaitingStays
<1>1. CASE row'[n] = row[n]
  BY <1>1 DEF AudioInv
<1>2. CASE n = i /\ row[i].job = j
  <2>1. ~Waiting(i)
    BY <1>2 DEF AudioInv
  <2>2. row[i].status # "PROCESSING" => row'[i].status # "PROCESSING"
    <3>1. row[i] \in Row
      BY DEF TInv, RowsFit
    <3>2. OnlyLease(i) => row'[i].status = row[i].status
      BY <3>1 DEF OnlyLease, Row
    <3> QED
      BY <3>2 DEF Effect, Progress
  <2> QED
    BY <1>2, <2>1, <2>2 DEF Effect, AudioInv, Waiting
<1> QED
  BY <1>1, <1>2 DEF Effect, OtherRowsStay

LEMMA NamesUnchanged ==
  ASSUME UNCHANGED <<queue, worker>>, dispatch' \subseteq dispatch
  PROVE  NamesStay
<1>1. ASSUME NEW n \in Ids, NEW k \in Jobs, Named(n, k)' PROVE Named(n, k)
  BY <1>1 DEF Named
<1> QED
  BY <1>1 DEF NamesStay, Named

\* A request hands a job over that the row has been given.
LEMMA HandedOver ==
  ASSUME NEW i \in Ids, NEW j, NEW stage, HandsOver(i, j, stage),
         UNCHANGED <<queue, worker>>,
         stage # "audio" => row'[i].job = j /\ ~Waiting(i)'
  PROVE  NamesStay
<1> SUFFICES ASSUME NEW n \in Ids, NEW k \in Jobs, Named(n, k)', ~Named(n, k)
             PROVE  row'[n].job = k /\ ~Waiting(n)'
  BY DEF NamesStay
<1>1. PICK d \in dispatch' : d.id = n /\ d.job = k /\ d.stage # "audio" /\ d \notin dispatch
  BY DEF Named
<1>2. d = [id |-> i, job |-> j, by |-> "request", stage |-> stage]
  BY <1>1 DEF HandsOver
<1> QED
  BY <1>1, <1>2

LEMMA CallerAudio ==
  ASSUME TInv, AudioInv, NEW c \in Calls, CallerStep(c)
  PROVE  NamesStay /\ WaitingStays
<1> DEFINE i == <<"call", c>>
<1>0. /\ i \in Ids /\ ~IsDraft(i) /\ row \in [Ids -> Row]
      /\ row[i] \in Row /\ row[i].step # "AUDIO"
  BY IdTypes, CallIsNoDraft DEF TInv, RowsFit, AudioInv
<1>a. ASSUME NEW r, row' = [row EXCEPT ![i] = r], r.step # "AUDIO"
      PROVE  WaitingStays /\ row'[i] = r /\ ~Waiting(i)'
  <2>1. row'[i] = r /\ \A n \in Ids : n # i => row'[n] = row[n]
    BY <1>0, <1>a
  <2>2. ASSUME NEW n \in Ids
        PROVE  /\ row'[n].step = "AUDIO" => IsDraft(n)
               /\ Waiting(n)' => row'[n] = row[n]
    BY <1>a, <2>1 DEF Waiting, AudioInv
  <2> QED
    BY <1>a, <2>1, <2>2 DEF WaitingStays, Waiting
<1>1. CASE CreateCall(c)
  <2> DEFINE typed == [Absent EXCEPT !.status = "READY", !.text = Manual]
             spoken(j) == [Absent EXCEPT !.status = "PROCESSING", !.job = j]
  <2>0. typed.step = "DONE" /\ \A j : spoken(j).step = "DONE" /\ spoken(j).job = j
    BY DEF Absent
  <2>1. CASE row' = [row EXCEPT ![i] = typed] /\ UNCHANGED dispatch
    <3> HIDE DEF typed
    <3>1. WaitingStays
      BY <1>a, <2>0, <2>1
    <3> QED
      BY <1>1, <2>1, <3>1, NamesUnchanged DEF CreateCall
  <2>2. ASSUME NEW j \in FreshJobs, HandsOver(i, j, "enqueue"),
               row' = [row EXCEPT ![i] = spoken(j)]
        PROVE  NamesStay /\ WaitingStays
    <3> HIDE DEF spoken
    <3>1. WaitingStays /\ row'[i].job = j /\ ~Waiting(i)'
      BY <1>a, <2>0, <2>2
    <3> QED
      BY <1>0, <1>1, <2>2, <3>1, HandedOver DEF CreateCall
  <2> QED
    BY <1>1, <2>1, <2>2 DEF CreateCall
<1>2. CASE GenerateCallerTranscript(c)
  <2> DEFINE asked(j) == [row[i] EXCEPT !.status = "PROCESSING", !.job = j,
                                        !.lease = None, !.left = 0, !.age = 0]
  <2>1. PICK j \in FreshJobs : /\ HandsOver(i, j, "enqueue")
                               /\ row' = [row EXCEPT ![i] = asked(j)]
    BY <1>2 DEF GenerateCallerTranscript
  <2>2. asked(j).step = row[i].step /\ asked(j).job = j
    BY <1>0 DEF Row
  <2> HIDE DEF asked
  <2>3. WaitingStays /\ row'[i].job = j /\ ~Waiting(i)'
    BY <1>0, <1>a, <2>1, <2>2
  <2> QED
    BY <1>0, <1>2, <2>1, <2>3, HandedOver DEF GenerateCallerTranscript
<1>3. CASE UpdateCallerTranscript(c)
  <2>1. PICK r \in {[Absent EXCEPT !.status = "NOT_STARTED"],
                    [Absent EXCEPT !.status = "READY", !.text = Manual]} :
          row' = [row EXCEPT ![i] = r]
    BY <1>3 DEF UpdateCallerTranscript
  <2>2. r.step = "DONE"
    BY DEF Absent
  <2> QED
    BY <1>3, <1>a, <2>1, <2>2, NamesUnchanged DEF UpdateCallerTranscript
<1>4. CASE DeleteCall(c)
  <2>1. ASSUME NEW n \in Ids
        PROVE  /\ row'[n].step = "AUDIO" => IsDraft(n)
               /\ Waiting(n)' => row'[n] = row[n]
    BY <1>4 DEF DeleteCall, Waiting, AudioInv, Absent
  <2> QED
    BY <1>4, <2>1, NamesUnchanged DEF DeleteCall, WaitingStays
<1> QED
  BY <1>1, <1>2, <1>3, <1>4 DEF CallerStep

LEMMA DraftAudio ==
  ASSUME TInv, AudioInv, NEW c \in DraftCalls, DraftStep(c)
  PROVE  NamesStay /\ WaitingStays
<1> DEFINE i == <<"draft", c>>
<1>0. i \in Ids /\ IsDraft(i) /\ row \in [Ids -> Row] /\ row[i] \in Row
  BY IdTypes, CallIsNoDraft DEF TInv, RowsFit
<1>a. ASSUME NEW r, row' = [row EXCEPT ![i] = r],
             \/ ~(r.status = "PROCESSING" /\ r.step = "AUDIO")
             \/ /\ r.status = row[i].status /\ r.step = row[i].step
                /\ r.job = row[i].job /\ r.lease = row[i].lease
             \/ r.lease = None /\ r.job \in FreshJobs
      PROVE  WaitingStays /\ row'[i] = r
  <2>1. row'[i] = r /\ \A n \in Ids : n # i => row'[n] = row[n]
    BY <1>0, <1>a
  <2> QED
    BY <1>0, <1>a, <2>1 DEF WaitingStays, Waiting, AudioInv
<1>1. CASE CreateEpisodeDraft(c)
  <2> DEFINE new(j) == [Absent EXCEPT !.status = "PROCESSING", !.job = j, !.step = "AUDIO"]
  <2>1. PICK j \in FreshJobs : /\ HandsOver(i, j, "audio")
                               /\ row' = [row EXCEPT ![i] = new(j)]
    BY <1>1 DEF CreateEpisodeDraft
  <2>2. new(j).lease = None /\ new(j).job = j
    BY DEF Absent
  <2> HIDE DEF new
  <2> QED
    BY <1>0, <1>1, <1>a, <2>1, <2>2, HandedOver DEF CreateEpisodeDraft
<1>2. CASE UndoEpisodeDraft(c)
  <2>1. Absent.status # "PROCESSING"
    BY DEF Absent
  <2> QED
    BY <1>2, <1>a, <2>1, NamesUnchanged DEF UndoEpisodeDraft
<1>3. CASE UpdateEpisodeDraft(c)
  <2>1. PICK r \in {[row[i] EXCEPT !.text = Manual, !.age = 0],
                    [row[i] EXCEPT !.meta = "edited", !.age = 0]} :
          row' = [row EXCEPT ![i] = r]
    BY <1>3 DEF UpdateEpisodeDraft
  <2>2. /\ r.status = row[i].status /\ r.step = row[i].step
        /\ r.job = row[i].job /\ r.lease = row[i].lease
    BY <1>0, <2>1 DEF Row
  <2> QED
    BY <1>3, <1>a, <2>1, <2>2, NamesUnchanged DEF UpdateEpisodeDraft
<1>4. CASE AudioCompleted(c)
  <2> DEFINE r == [row[i] EXCEPT !.step = "TRANSCRIBING", !.age = 0]
  <2>1. r.step = "TRANSCRIBING" /\ r.job = row[i].job
    BY <1>0 DEF Row
  <2>2. row' = [row EXCEPT ![i] = r] /\ HandsOver(i, row[i].job, "enqueue")
    BY <1>4 DEF AudioCompleted
  <2> HIDE DEF r
  <2>3. WaitingStays /\ row'[i] = r
    BY <1>a, <2>1, <2>2
  <2> QED
    BY <1>0, <1>4, <2>1, <2>2, <2>3, HandedOver DEF AudioCompleted, Waiting
<1>5. CASE AudioFailed(c)
  <2> DEFINE r == [row[i] EXCEPT !.status = "ERROR", !.step = "DONE", !.age = 0]
  <2>1. r.step = "DONE"
    BY <1>0 DEF Row
  <2>2. row' = [row EXCEPT ![i] = r]
    BY <1>5 DEF AudioFailed
  <2> HIDE DEF r
  <2> QED
    BY <1>5, <1>a, <2>1, <2>2, NamesUnchanged DEF AudioFailed
<1> QED
  BY <1>1, <1>2, <1>3, <1>4, <1>5 DEF DraftStep

\* A step that names no other job than one that is named already.
LEMMA NamedAgain ==
  ASSUME NEW n, NEW k, Named(n, k),
         \A m \in queue' \ queue : m.id = n /\ m.job = k,
         \A d \in dispatch' \ dispatch : d.id = n /\ d.job = k,
         \A w \in Workers :
           \/ worker'[w].id = worker[w].id /\ worker'[w].job = worker[w].job
           \/ worker'[w].id = n /\ worker'[w].job = k
           \/ worker'[w] = Idle
  PROVE  NamesStay
<1> SUFFICES ASSUME NEW i \in Ids, NEW j \in Jobs, Named(i, j)'
             PROVE  Named(i, j)
  BY DEF NamesStay
<1>1. CASE \E m \in queue' : m.id = i /\ m.job = j
  BY <1>1 DEF Named
<1>2. CASE \E d \in dispatch' : d.id = i /\ d.job = j /\ d.stage # "audio"
  BY <1>2 DEF Named
<1>3. CASE \E w \in Workers : worker'[w].id = i /\ worker'[w].job = j
  BY <1>3, NullAssumption DEF Named, Idle
<1> QED
  BY <1>1, <1>2, <1>3 DEF Named

LEMMA DispatchAudio ==
  ASSUME TInv, AudioInv, NEW d \in dispatch, DispatchStep(d)
  PROVE  NamesStay /\ WaitingStays
<1> DEFINE i == d.id
<1>0. i \in Ids /\ d \in Dispatches /\ row \in [Ids -> Row] /\ row[i] \in Row
  BY DEF TInv, RowsFit, Dispatches
<1>1. CASE AudioRequested(d) \/ DispatchCrashes(d)
  BY <1>1, NamesUnchanged, RowsWait DEF AudioRequested, DispatchCrashes
<1>2. CASE AudioRequestFails(d)
  <2> DEFINE failed == [row[i] EXCEPT !.status = "ERROR", !.step = "DONE", !.age = 0]
  <2>1. failed.step = "DONE"
    BY <1>0 DEF Row
  <2>2. row' = [row EXCEPT ![i] = failed] \/ UNCHANGED row
    BY <1>2 DEF AudioRequestFails
  <2> HIDE DEF failed
  <2>3. \A n \in Ids : row'[n] = row[n] \/ row'[n].step = "DONE"
    BY <1>0, <2>1, <2>2
  <2>4. WaitingStays
    BY <2>3 DEF WaitingStays, Waiting, AudioInv
  <2> QED
    BY <1>2, <2>4, NamesUnchanged DEF AudioRequestFails
<1>3. CASE Enqueue(d)
  <2>1. Named(i, d.job)
    BY <1>3 DEF Enqueue, Named
  <2>2. \A m \in queue' \ queue : m.id = i /\ m.job = d.job
    BY <1>3 DEF Enqueue, Message
  <2>3. [d EXCEPT !.stage = "touch"].id = i /\ [d EXCEPT !.stage = "touch"].job = d.job
    BY <1>0 DEF Dispatches
  <2>4. \A e \in dispatch' \ dispatch : e.id = i /\ e.job = d.job
    BY <1>3, <2>3 DEF Enqueue
  <2>5. NamesStay
    BY <1>3, <2>1, <2>2, <2>4, NamedAgain DEF Enqueue
  <2> QED
    BY <1>3, <2>5, RowsWait DEF Enqueue
<1>4. CASE EnqueueFails(d) \/ TouchDispatchedJob(d)
  <2>1. Effect(i, d.job) /\ Named(i, d.job)
    BY <1>4, DispatchEffect DEF DispatchStep, EnqueueFails, TouchDispatchedJob, Named
  <2> QED
    BY <1>0, <1>4, <2>1, NamedEffect, NamesUnchanged DEF EnqueueFails, TouchDispatchedJob
<1> QED
  BY <1>1, <1>2, <1>3, <1>4 DEF DispatchStep

LEMMA CronAudio == ASSUME TInv, AudioInv, CronSelect PROVE NamesStay /\ WaitingStays
<1>1. WaitingStays
  BY RowsWait DEF CronSelect
<1>2. ASSUME NEW n \in Ids, NEW k \in Jobs, Named(n, k)', ~Named(n, k)
      PROVE  row'[n].job = k /\ ~Waiting(n)'
  <2>1. PICK d \in dispatch' : d.id = n /\ d.job = k /\ d \notin dispatch
    BY <1>2 DEF Named, CronSelect
  <2>2. PICK i \in {j \in Ids : Stale(j)} :
          d = [id |-> i, job |-> row[i].job, by |-> "cron", stage |-> "enqueue"]
    BY <2>1 DEF CronSelect
  <2>3. i = n /\ row[n].job = k
    BY <2>1, <2>2
  <2>4. ~Waiting(n)
    BY <2>2, <2>3 DEF Stale, AudioInv, Waiting
  <2> QED
    BY <2>3, <2>4 DEF CronSelect, Waiting
<1> QED
  BY <1>1, <1>2 DEF NamesStay

LEMMA TickAudio == ASSUME TInv, AudioInv, Tick PROVE NamesStay /\ WaitingStays
<1>1. ASSUME NEW i \in Ids
      PROVE  /\ row'[i].step = row[i].step /\ row'[i].status = row[i].status
             /\ row'[i].job = row[i].job /\ row'[i].lease = row[i].lease
  BY DEF TInv, RowsFit, Row, Tick
<1> QED
  BY <1>1, NamesUnchanged DEF Tick, WaitingStays, Waiting, AudioInv

LEMMA DeliverAudio ==
  ASSUME TInv, AudioInv, NEW w \in Workers, NEW m \in queue, Deliver(w, m)
  PROVE  NamesStay /\ WaitingStays
<1> DEFINE r == [Idle EXCEPT !.pc = "claiming", !.id = m.id, !.job = m.job,
                             !.attempts = m.attempts + 1]
<1>1. r.id = m.id /\ r.job = m.job
  BY DEF Idle
<1>2. worker' = [worker EXCEPT ![w] = r] /\ queue' \subseteq queue
      /\ UNCHANGED <<row, dispatch>>
  BY DEF Deliver
<1> HIDE DEF r
<1>3. \A v \in Workers : worker'[v] = IF v = w THEN r ELSE worker[v]
  BY <1>2 DEF TInv, WorkersFit
<1>4. Named(m.id, m.job)
  BY DEF Named
<1>5. NamesStay
  BY <1>1, <1>2, <1>3, <1>4, NamedAgain
<1> QED
  BY <1>2, <1>5, RowsWait

\* A consumer goes on with its job, or ends it and may give the message back.
LEMMA WorkerGoesOn ==
  ASSUME TInv, NEW w \in Workers, WorkerStep(w) \/ WorkerCrashes(w)
  PROVE  /\ OtherWorkersStay(w) /\ UNCHANGED dispatch
         /\ worker[w].pc # "idle"
         /\ \/ worker'[w] = Idle
            \/ worker'[w].id = worker[w].id /\ worker'[w].job = worker[w].job
         /\ queue' \subseteq
              queue \cup {Message(worker[w].id, worker[w].job, worker[w].attempts)}
<1>0. worker \in [Workers -> Worker] /\ worker[w] \in Worker
  BY DEF TInv, WorkersFit
<1>1. worker[w].pc # "idle" /\ UNCHANGED dispatch
  BY DEF WorkerStep, ClaimJob, LoadCaller, LoadDraft, MarkTranscribing,
         CompleteCaller, SaveTranscript, MarkMetadata, CompleteDraft,
         ProcessingThrows, SettleStale, SettleDeferred, SettleRetry, SettleError,
         WorkerCrashes, Processing
<1>2. OtherWorkersStay(w)
  BY WorkerLease, DeliveryLease
<1>3. queue' \subseteq
        queue \cup {Message(worker[w].id, worker[w].job, worker[w].attempts)}
  <2>1. CASE Retry(w)
    BY <2>1 DEF Retry
  <2>2. CASE UNCHANGED queue
    BY <2>2
  <2> QED
    BY <2>1, <2>2
       DEF WorkerStep, ClaimJob, LoadCaller, LoadDraft, MarkTranscribing,
           CompleteCaller, SaveTranscript, MarkMetadata, CompleteDraft, Ack, OwnedWrite,
           ProcessingThrows, SettleStale, SettleDeferred, SettleRetry, SettleError,
           WorkerCrashes
<1>a. ASSUME worker' = [worker EXCEPT ![w] = Idle] PROVE worker'[w] = Idle
  BY <1>0, <1>a
<1>b. ASSUME NEW pc, Goto(w, pc)
      PROVE  worker'[w].id = worker[w].id /\ worker'[w].job = worker[w].job
  BY <1>0, <1>b DEF Goto, Worker
<1> DEFINE Goes == \/ worker'[w] = Idle
                   \/ worker'[w].id = worker[w].id /\ worker'[w].job = worker[w].job
<1>4. CASE ClaimJob(w)
  <2> DEFINE loading(l) == [worker[w] EXCEPT !.pc = "loading", !.lease = l]
  <2>1. CASE Claimable(row[worker[w].id], worker[w].job)
    <3>1. PICK l \in FreshLeases : worker' = [worker EXCEPT ![w] = loading(l)]
      BY <1>4, <2>1 DEF ClaimJob
    <3>2. loading(l).id = worker[w].id /\ loading(l).job = worker[w].job
      BY <1>0 DEF Worker
    <3> HIDE DEF loading
    <3> QED
      BY <1>0, <1>1, <1>2, <1>3, <3>1, <3>2
  <2> QED
    BY <1>1, <1>2, <1>3, <1>4, <1>a, <2>1 DEF ClaimJob, Ack
<1>5. CASE LoadDraft(w)
  <2>1. PICK p, t, e : worker' = [worker EXCEPT ![w] =
                                    [worker[w] EXCEPT !.pc = p, !.text = t, !.meta = e]]
    BY <1>5 DEF LoadDraft
  <2>2. worker'[w].id = worker[w].id /\ worker'[w].job = worker[w].job
    BY <1>0, <2>1 DEF Worker
  <2> QED
    BY <1>1, <1>2, <1>3, <2>2
<1>6. CASE SaveTranscript(w)
  <2> DEFINE saved == [worker[w] EXCEPT !.pc = "metadata", !.text = worker[w].job]
  <2>1. saved.id = worker[w].id /\ saved.job = worker[w].job
    BY <1>0 DEF Worker
  <2>2. worker' = [worker EXCEPT ![w] = saved] \/ Goto(w, "stale")
    BY <1>6 DEF SaveTranscript, OwnedWrite
  <2> HIDE DEF saved
  <2> QED
    BY <1>0, <1>1, <1>2, <1>3, <1>b, <2>1, <2>2
<1>7. CASE \/ MarkTranscribing(w) \/ MarkMetadata(w) \/ CompleteCaller(w)
           \/ CompleteDraft(w) \/ LoadCaller(w) \/ ProcessingThrows(w)
  <2>1. (\E pc : Goto(w, pc)) \/ worker' = [worker EXCEPT ![w] = Idle]
    BY <1>7 DEF MarkTranscribing, MarkMetadata, CompleteCaller, CompleteDraft,
                LoadCaller, ProcessingThrows, OwnedWrite, Ack
  <2>2. Goes
    BY <1>a, <1>b, <2>1
  <2> QED
    BY <1>1, <1>2, <1>3, <2>2
<1>8. CASE \/ SettleStale(w) \/ SettleDeferred(w) \/ SettleRetry(w)
           \/ SettleError(w) \/ WorkerCrashes(w)
  <2>1. worker' = [worker EXCEPT ![w] = Idle]
    BY <1>8 DEF SettleStale, SettleDeferred, SettleRetry, SettleError, WorkerCrashes,
                Ack, Retry
  <2> QED
    BY <1>1, <1>2, <1>3, <1>a, <2>1
<1> QED
  BY <1>4, <1>5, <1>6, <1>7, <1>8 DEF WorkerStep

LEMMA WorkerAudio ==
  ASSUME TInv, TextInv, AudioInv, NEW w \in Workers, WorkerStep(w) \/ WorkerCrashes(w)
  PROVE  NamesStay /\ WaitingStays
<1> DEFINE i == worker[w].id
           j == worker[w].job
<1>1. i \in Ids /\ Named(i, j)
  BY WorkerGoesOn DEF TInv, WorkersFit, WorkerInv, Named
<1>2. /\ \A m \in queue' \ queue : m.id = i /\ m.job = j
      /\ \A d \in dispatch' \ dispatch : d.id = i /\ d.job = j
      /\ \A v \in Workers :
           \/ worker'[v].id = worker[v].id /\ worker'[v].job = worker[v].job
           \/ worker'[v] = Idle
  BY WorkerGoesOn DEF Message, OtherWorkersStay
<1>3. NamesStay
  BY <1>1, <1>2, NamedAgain
<1>4. CASE WorkerStep(w)
  BY <1>1, <1>3, <1>4, WorkerEffect, NamedEffect
<1>5. CASE WorkerCrashes(w)
  BY <1>3, <1>5, RowsWait DEF WorkerCrashes
<1> QED
  BY <1>4, <1>5

LEMMA InitAudio == Init => AudioInv
BY DEF Init, AudioInv, Waiting, Absent

LEMMA NextAudio == TInv /\ TextInv /\ AudioInv /\ [Next]_vars => AudioInv'
<1> SUFFICES ASSUME TInv, TextInv, AudioInv, [Next]_vars PROVE NamesStay /\ WaitingStays
  BY NextTInv, AudioStep
<1>1. CASE \E c \in Calls : CallerStep(c)
  BY <1>1, CallerAudio
<1>2. CASE \E c \in DraftCalls : DraftStep(c)
  BY <1>2, DraftAudio
<1>3. CASE \E d \in dispatch : DispatchStep(d)
  BY <1>3, DispatchAudio
<1>4. CASE CronSelect
  BY <1>4, CronAudio
<1>5. CASE \E w \in Workers : \E m \in queue : Deliver(w, m)
  BY <1>5, DeliverAudio
<1>6. CASE \E w \in Workers : WorkerStep(w) \/ WorkerCrashes(w)
  BY <1>6, WorkerAudio
<1>7. CASE Tick
  BY <1>7, TickAudio
<1>8. CASE UNCHANGED vars
  BY <1>8, NamesUnchanged, RowsWait DEF vars
<1> QED
  BY <1>1, <1>2, <1>3, <1>4, <1>5, <1>6, <1>7, <1>8 DEF Next, BackgroundStep

\* No consumer, message or cron selection reaches a draft before its audio does,
\* whatever was under way for the drafts that its call had earlier.
THEOREM NoWorkCorrect == Spec => []NoWorkBeforeAudio
<1>1. AudioInv => NoWorkBeforeAudio
  BY DEF AudioInv, NoWorkBeforeAudio, Waiting, Named
<1>2. Init => TInv /\ TextInv /\ AudioInv
  BY InitTInv, InitText, InitAudio
<1>3. TInv /\ TextInv /\ AudioInv /\ [Next]_vars => TInv' /\ TextInv' /\ AudioInv'
  BY NextTInv, NextText, NextAudio
<1> QED
  BY <1>1, <1>2, <1>3, PTL DEF Spec

-----------------------------------------------------------------------------
(* The queue implements TranscriptRequests.                                *)

\* The open question of a row, and what the abstract specification sees.
Open(i) == IF row[i].status = "PROCESSING" THEN row[i].job ELSE None

Questions == [i \in Ids |-> Open(i)]
Answers == [i \in Ids |-> row[i].text]
DraftIds == {i \in Ids : IsDraft(i)}

PromiseStep == Promise!Next \/ UNCHANGED <<Questions, Answers>>

\* Who is not there has no text: a deleted call starts afresh.
AbsentInv == \A i \in Ids : row[i].status = "ABSENT" => row[i].text = None

LEMMA PromiseOpens ==
  ASSUME NEW i \in Ids, OtherRowsStay(i)
  PROVE  /\ Questions' = [Questions EXCEPT ![i] = Open(i)']
         /\ Answers' = [Answers EXCEPT ![i] = row'[i].text]
<1>1. \A n \in Ids : n # i => Open(n)' = Open(n) /\ row'[n].text = row[n].text
  BY DEF OtherRowsStay, Open
<1>2. Questions' = [n \in Ids |-> Open(n)'] /\ Answers' = [n \in Ids |-> row'[n].text]
  BY DEF Questions, Answers
<1> HIDE DEF Open
<1> QED
  BY <1>1, <1>2 DEF Questions, Answers

\* A row that keeps its question and its text is not seen to move.
LEMMA PromiseStays ==
  ASSUME \A i \in Ids : /\ row'[i].status = row[i].status /\ row'[i].job = row[i].job
                        /\ row'[i].text = row[i].text
  PROVE  PromiseStep
BY DEF PromiseStep, Questions, Answers, Open

LEMMA PromiseAsk ==
  ASSUME NEW i \in Ids, OtherRowsStay(i), NEW j \in FreshJobs, Open(i)' = j,
         row'[i].text = row[i].text \/ (IsDraft(i) /\ row'[i].text = None)
  PROVE  PromiseStep
<1>1. j \in Jobs /\ \A n \in Ids : row[n].job # j /\ row[n].text # j /\ j # None
  BY NullAssumption DEF FreshJobs, JobsInUse
<1>2. \A n \in Ids : Questions[n] # j /\ Answers[n] # j
  BY <1>1 DEF Questions, Answers, Open
<1>3. /\ Questions' = [Questions EXCEPT ![i] = j]
      /\ Answers' = [Answers EXCEPT ![i] = row'[i].text]
  BY PromiseOpens
<1>4. [Answers EXCEPT ![i] = row[i].text] = Answers
  BY DEF Answers
<1>5. \/ Answers' = Answers
      \/ i \in DraftIds /\ Answers' = [Answers EXCEPT ![i] = None]
  BY <1>3, <1>4 DEF DraftIds
<1>6. Promise!Ask(i)
  BY <1>1, <1>2, <1>3, <1>5 DEF Promise!Ask, Questions, Answers, Open, DraftIds
<1> QED
  BY <1>6 DEF PromiseStep, Promise!Next

LEMMA PromiseType ==
  ASSUME NEW i \in Ids, OtherRowsStay(i), row'[i].text \in {Manual, None},
         Open(i)' = None \/ (IsDraft(i) /\ Open(i)' = Open(i))
  PROVE  PromiseStep
<1>1. /\ Questions' = [Questions EXCEPT ![i] = Open(i)']
      /\ Answers' = [Answers EXCEPT ![i] = row'[i].text]
  BY PromiseOpens
<1>2. [Questions EXCEPT ![i] = Open(i)] = Questions
  BY DEF Questions
<1>3. \/ Questions' = [Questions EXCEPT ![i] = None]
      \/ i \in DraftIds /\ Questions' = Questions
  BY <1>1, <1>2 DEF DraftIds
<1>4. Promise!Type(i)
  BY <1>1, <1>3 DEF Promise!Type, Questions, Answers, Open, DraftIds
<1> QED
  BY <1>4 DEF PromiseStep, Promise!Next

LEMMA PromiseRemove ==
  ASSUME NEW S \in SUBSET Ids, row' = [i \in Ids |-> IF i \in S THEN Absent ELSE row[i]],
         \/ \E c \in {i[2] : i \in Ids} : S = {i \in Ids : i[2] = c}
         \/ \E i \in DraftIds : S = {i}
  PROVE  PromiseStep
<1>1. Promise!Remove(S)
  BY DEF Promise!Remove, Absent
<1> QED
  BY <1>1 DEF PromiseStep, Promise!Next, DraftIds

\* A row that has an open question is written by the queue's side.
LEMMA PromiseProgress ==
  ASSUME TInv, TextInv, NEW i \in Ids, OtherRowsStay(i), row'[i].job = row[i].job,
         Progress(i)
  PROVE  PromiseStep
<1>1. /\ Questions' = [Questions EXCEPT ![i] = Open(i)']
      /\ Answers' = [Answers EXCEPT ![i] = row'[i].text]
  BY PromiseOpens
<1>2. /\ [Questions EXCEPT ![i] = Open(i)] = Questions
      /\ [Answers EXCEPT ![i] = row[i].text] = Answers
      /\ Questions[i] = Open(i) /\ Answers[i] = row[i].text
  BY DEF Questions, Answers
<1>3. Open(i) = row[i].job /\ Open(i) # None
  BY NullAssumption DEF Open, Progress, TInv, RowsFit, RowInv
<1>4. CASE row'[i].status = "PROCESSING" /\ row'[i].text = row[i].text
  BY <1>1, <1>2, <1>3, <1>4 DEF PromiseStep, Open
<1>5. CASE row'[i].status = "PROCESSING" /\ IsDraft(i) /\ row'[i].text = row[i].job
  <2>1. Questions' = Questions /\ Answers' = [Answers EXCEPT ![i] = Questions[i]]
    BY <1>1, <1>2, <1>3, <1>5 DEF Open
  <2>2. Promise!Note(i)
    BY <1>2, <1>3, <1>5, <2>1 DEF Promise!Note, Questions, Answers, Open
  <2> QED
    BY <2>2 DEF PromiseStep, Promise!Next
<1>6. CASE row'[i].status = "READY"
  <2>1. Questions' = [Questions EXCEPT ![i] = None]
    BY <1>1, <1>6 DEF Open
  <2>2. CASE row'[i].text = row[i].job
    <3>1. Promise!Answer(i)
      BY <1>1, <1>2, <1>3, <2>1, <2>2 DEF Promise!Answer, Questions, Answers, Open
    <3> QED
      BY <3>1 DEF PromiseStep, Promise!Next
  <2>3. CASE IsDraft(i) /\ row'[i].text = row[i].text /\ row[i].text # None
    <3>1. Answers' = Answers /\ Answers[i] \in {Questions[i], Manual}
      BY <1>1, <1>2, <1>3, <2>3 DEF TextInv, TextFits
    <3>2. Promise!Answer(i)
      BY <1>2, <1>3, <2>1, <2>3, <3>1 DEF Promise!Answer, Questions, Answers, Open
    <3> QED
      BY <3>2 DEF PromiseStep, Promise!Next
  <2> QED
    BY <1>6, <2>2, <2>3 DEF Progress
<1>7. CASE row'[i].status = "ERROR" /\ row'[i].text = row[i].text
  <2>1. Questions' = [Questions EXCEPT ![i] = None] /\ Answers' = Answers
    BY <1>1, <1>2, <1>7 DEF Open
  <2>2. Promise!GiveUp(i)
    BY <1>2, <1>3, <2>1 DEF Promise!GiveUp, Questions, Answers, Open
  <2> QED
    BY <2>2 DEF PromiseStep, Promise!Next
<1> QED
  BY <1>4, <1>5, <1>6, <1>7 DEF Progress

\* Whether a step is seen or not, who is not there stays without a text.
LEMMA QueuePromise ==
  ASSUME TInv, TextInv, AbsentInv, BackgroundStep
  PROVE  PromiseStep /\ AbsentInv'
<1>1. CASE UNCHANGED row
  BY <1>1, PromiseStays DEF AbsentInv
<1>2. CASE \E i \in Ids : \E j : Effect(i, j)
  <2>1. PICK i \in Ids : \E j : Effect(i, j)
    BY <1>2
  <2>2. OtherRowsStay(i) /\ row'[i].job = row[i].job /\ (OnlyLease(i) \/ Progress(i))
    BY <2>1 DEF Effect
  <2>3. CASE OnlyLease(i)
    <3>1. row[i] \in Row
      BY DEF TInv, RowsFit
    <3>2. row'[i].status = row[i].status /\ row'[i].text = row[i].text
      BY <2>3, <3>1 DEF OnlyLease, Row
    <3> QED
      BY <2>2, <3>2, PromiseStays DEF OtherRowsStay, AbsentInv
  <2>4. CASE Progress(i)
    <3>1. row'[i].status # "ABSENT"
      BY <2>4 DEF Progress
    <3> QED
      BY <2>2, <2>4, <3>1, PromiseProgress DEF OtherRowsStay, AbsentInv
  <2> QED
    BY <2>2, <2>3, <2>4
<1> QED
  BY <1>1, <1>2, QueueEffect

LEMMA AbsentWrite ==
  ASSUME AbsentInv, NEW i \in Ids, OtherRowsStay(i),
         row'[i].status = "ABSENT" => row'[i].text = None
  PROVE  AbsentInv'
BY DEF AbsentInv, OtherRowsStay

LEMMA CallerPromise ==
  ASSUME TInv, AbsentInv, NEW c \in Calls, CallerStep(c)
  PROVE  PromiseStep /\ AbsentInv'
<1> DEFINE i == <<"call", c>>
<1>0. i \in Ids /\ row \in [Ids -> Row] /\ row[i] \in Row /\ Manual # None
  BY IdTypes, NullAssumption DEF TInv, RowsFit
<1>1. CASE CreateCall(c)
  <2> DEFINE typed == [Absent EXCEPT !.status = "READY", !.text = Manual]
             spoken(j) == [Absent EXCEPT !.status = "PROCESSING", !.job = j]
  <2>0. /\ typed.status = "READY" /\ typed.text = Manual
        /\ \A j : /\ spoken(j).status = "PROCESSING" /\ spoken(j).job = j
                  /\ spoken(j).text = None
    BY DEF Absent
  <2>1. CASE row' = [row EXCEPT ![i] = typed]
    <3> HIDE DEF typed
    <3>1. OtherRowsStay(i) /\ row'[i] = typed
      BY <1>0, <2>1, WrittenRow
    <3> QED
      BY <1>0, <2>0, <3>1, PromiseType, AbsentWrite DEF Open
  <2>2. ASSUME NEW j \in FreshJobs, row' = [row EXCEPT ![i] = spoken(j)]
        PROVE  PromiseStep /\ AbsentInv'
    <3> HIDE DEF spoken
    <3>1. OtherRowsStay(i) /\ row'[i] = spoken(j)
      BY <1>0, <2>2, WrittenRow
    <3>2. row[i].text = None
      BY <1>0, <1>1 DEF CreateCall, AbsentInv
    <3>3. Open(i)' = j
      BY <2>0, <3>1 DEF Open
    <3> QED
      BY <1>0, <2>0, <3>1, <3>2, <3>3, PromiseAsk, AbsentWrite
  <2> QED
    BY <1>1, <2>1, <2>2 DEF CreateCall
<1>2. CASE GenerateCallerTranscript(c)
  <2> DEFINE asked(j) == [row[i] EXCEPT !.status = "PROCESSING", !.job = j,
                                        !.lease = None, !.left = 0, !.age = 0]
  <2>1. PICK j \in FreshJobs : row' = [row EXCEPT ![i] = asked(j)]
    BY <1>2 DEF GenerateCallerTranscript
  <2>2. /\ asked(j).status = "PROCESSING" /\ asked(j).job = j
        /\ asked(j).text = row[i].text
    BY <1>0 DEF Row
  <2> HIDE DEF asked
  <2>3. OtherRowsStay(i) /\ row'[i] = asked(j)
    BY <1>0, <2>1, WrittenRow
  <2>4. Open(i)' = j
    BY <2>2, <2>3 DEF Open
  <2> QED
    BY <1>0, <2>2, <2>3, <2>4, PromiseAsk, AbsentWrite
<1>3. CASE UpdateCallerTranscript(c)
  <2>1. PICK r \in {[Absent EXCEPT !.status = "NOT_STARTED"],
                    [Absent EXCEPT !.status = "READY", !.text = Manual]} :
          row' = [row EXCEPT ![i] = r]
    BY <1>3 DEF UpdateCallerTranscript
  <2>2. r.text \in {Manual, None} /\ r.status \in {"NOT_STARTED", "READY"}
    BY DEF Absent
  <2>3. OtherRowsStay(i) /\ row'[i] = r
    BY <1>0, <2>1, WrittenRow
  <2>4. Open(i)' = None
    BY <2>2, <2>3 DEF Open
  <2> QED
    BY <1>0, <2>2, <2>3, <2>4, PromiseType, AbsentWrite
<1>4. CASE DeleteCall(c)
  <2> DEFINE S == {n \in Ids : n[2] = c}
  <2>1. row' = [n \in Ids |-> IF n \in S THEN Absent ELSE row[n]]
    BY <1>4 DEF DeleteCall
  <2>2. c \in {n[2] : n \in Ids}
    BY <1>0
  <2>3. PromiseStep
    BY <2>1, <2>2, PromiseRemove
  <2>4. AbsentInv'
    BY <2>1 DEF AbsentInv, Absent
  <2> QED
    BY <2>3, <2>4
<1> QED
  BY <1>1, <1>2, <1>3, <1>4 DEF CallerStep

LEMMA DraftPromise ==
  ASSUME TInv, TextInv, AbsentInv, NEW c \in DraftCalls, DraftStep(c)
  PROVE  PromiseStep /\ AbsentInv'
<1> DEFINE i == <<"draft", c>>
<1>0. i \in Ids /\ IsDraft(i) /\ row \in [Ids -> Row] /\ row[i] \in Row
  BY IdTypes, CallIsNoDraft DEF TInv, RowsFit
<1>1. CASE CreateEpisodeDraft(c)
  <2> DEFINE new(j) == [Absent EXCEPT !.status = "PROCESSING", !.job = j, !.step = "AUDIO"]
  <2>1. PICK j \in FreshJobs : row' = [row EXCEPT ![i] = new(j)]
    BY <1>1 DEF CreateEpisodeDraft
  <2>2. new(j).status = "PROCESSING" /\ new(j).job = j /\ new(j).text = None
    BY DEF Absent
  <2> HIDE DEF new
  <2>3. OtherRowsStay(i) /\ row'[i] = new(j)
    BY <1>0, <2>1, WrittenRow
  <2>4. Open(i)' = j
    BY <2>2, <2>3 DEF Open
  <2> QED
    BY <1>0, <2>2, <2>3, <2>4, PromiseAsk, AbsentWrite
<1>2. CASE UndoEpisodeDraft(c)
  <2>1. row' = [n \in Ids |-> IF n \in {i} THEN Absent ELSE row[n]]
    BY <1>0, <1>2 DEF UndoEpisodeDraft
  <2>2. {i} \in SUBSET Ids /\ i \in DraftIds
    BY <1>0 DEF DraftIds
  <2>3. PromiseStep
    BY <2>1, <2>2, PromiseRemove
  <2>4. AbsentInv'
    BY <2>1 DEF AbsentInv, Absent
  <2> QED
    BY <2>3, <2>4
<1>3. CASE UpdateEpisodeDraft(c)
  <2> DEFINE typed == [row[i] EXCEPT !.text = Manual, !.age = 0]
             edited == [row[i] EXCEPT !.meta = "edited", !.age = 0]
  <2>0. /\ typed.status = row[i].status /\ typed.job = row[i].job /\ typed.text = Manual
        /\ edited.status = row[i].status /\ edited.job = row[i].job
        /\ edited.text = row[i].text
    BY <1>0 DEF Row
  <2>1. row[i].status # "ABSENT"
        /\ (row' = [row EXCEPT ![i] = typed] \/ row' = [row EXCEPT ![i] = edited])
    BY <1>3 DEF UpdateEpisodeDraft
  <2> HIDE DEF typed, edited
  <2>2. OtherRowsStay(i) /\ row'[i] \in {typed, edited}
    BY <1>0, <2>1, WrittenRow
  <2>3. CASE row'[i] = typed
    <3>1. Open(i)' = Open(i)
      BY <2>0, <2>3 DEF Open
    <3> QED
      BY <1>0, <2>0, <2>1, <2>2, <2>3, <3>1, PromiseType, AbsentWrite
  <2>4. CASE row'[i] = edited
    BY <1>0, <2>0, <2>1, <2>2, <2>4, PromiseStays, AbsentWrite DEF OtherRowsStay
  <2> QED
    BY <2>2, <2>3, <2>4
<1>4. CASE AudioCompleted(c)
  <2> DEFINE r == [row[i] EXCEPT !.step = "TRANSCRIBING", !.age = 0]
  <2>1. r.status = row[i].status /\ r.job = row[i].job /\ r.text = row[i].text
    BY <1>0 DEF Row
  <2>2. row' = [row EXCEPT ![i] = r] /\ row[i].status = "PROCESSING"
    BY <1>4 DEF AudioCompleted
  <2> HIDE DEF r
  <2>3. OtherRowsStay(i) /\ row'[i] = r
    BY <1>0, <2>2, WrittenRow
  <2> QED
    BY <1>0, <2>1, <2>2, <2>3, PromiseStays, AbsentWrite DEF OtherRowsStay
<1>5. CASE AudioFailed(c)
  <2> DEFINE r == [row[i] EXCEPT !.status = "ERROR", !.step = "DONE", !.age = 0]
  <2>1. r.status = "ERROR" /\ r.job = row[i].job /\ r.text = row[i].text
    BY <1>0 DEF Row
  <2>2. row' = [row EXCEPT ![i] = r] /\ row[i].status = "PROCESSING"
    BY <1>5 DEF AudioFailed
  <2> HIDE DEF r
  <2>3. OtherRowsStay(i) /\ row'[i] = r
    BY <1>0, <2>2, WrittenRow
  <2>4. Progress(i)
    BY <2>1, <2>2, <2>3 DEF Progress
  <2> QED
    BY <1>0, <2>1, <2>3, <2>4, PromiseProgress, AbsentWrite
<1> QED
  BY <1>1, <1>2, <1>3, <1>4, <1>5 DEF DraftStep

LEMMA TickPromise == ASSUME TInv, AbsentInv, Tick PROVE PromiseStep /\ AbsentInv'
<1>1. ASSUME NEW i \in Ids
      PROVE  /\ row'[i].status = row[i].status /\ row'[i].job = row[i].job
             /\ row'[i].text = row[i].text
  BY DEF TInv, RowsFit, Row, Tick
<1> QED
  BY <1>1, PromiseStays DEF AbsentInv

LEMMA NextPromise ==
  TInv /\ TextInv /\ AbsentInv /\ [Next]_vars => PromiseStep /\ AbsentInv'
<1> SUFFICES ASSUME TInv, TextInv, AbsentInv, [Next]_vars PROVE PromiseStep /\ AbsentInv'
  OBVIOUS
<1>1. CASE UNCHANGED vars
  BY <1>1, PromiseStays DEF vars, AbsentInv
<1> QED
  BY <1>1, CallerPromise, DraftPromise, QueuePromise, TickPromise DEF Next

\* Every behaviour of the queue, with all its retries, leases, crashes and
\* recoveries, is one that TranscriptRequests allows.
THEOREM KeepsPromiseCorrect == Spec => KeepsPromise
<1>1. Init => TInv /\ TextInv /\ AbsentInv
  BY InitTInv, InitText DEF Init, AbsentInv, Absent
<1>2. TInv /\ TextInv /\ AbsentInv /\ [Next]_vars => TInv' /\ TextInv' /\ AbsentInv'
  BY NextTInv, NextText, NextPromise
<1>3. Init => Promise!Init
  BY DEF Init, Promise!Init, Absent
<1>4. TInv /\ TextInv /\ AbsentInv /\ [Next]_vars => [Promise!Next]_(Promise!promised)
  BY NextPromise DEF PromiseStep, Promise!promised, Questions, Answers, Open
<1> QED
  BY <1>1, <1>2, <1>3, <1>4, PTL DEF Spec, KeepsPromise, Promise!Spec
=============================================================================
