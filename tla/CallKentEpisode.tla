--------------------------- MODULE CallKentEpisode ---------------------------
(***************************************************************************)
(* How one Call Kent call becomes an episode: the requests of the admin    *)
(* (record a response, undo it, delete the call, publish), the audio       *)
(* worker with its queue and its callbacks, the audio objects in R2 and    *)
(* the episodes on Transistor.                                             *)
(*                                                                         *)
(* Every action is one database call, object operation or external call.   *)
(* There is one call and its rows: different calls share nothing.  The     *)
(* transcription, a specification of its own, is the one action that takes *)
(* a draft from TRANSCRIBING to its end.                                   *)
(***************************************************************************)
EXTENDS Naturals, FiniteSets

CONSTANTS
  Drafts,         \* draft ids (UUIDs); an id without a trace may be minted again
  Admins,         \* requests that may be handled at the same time
  Consumers,      \* invocations of the audio worker
  Episodes,       \* ids that Transistor gives to episodes (a bound)
  MaxDeliveries,  \* max_retries + 1 of the audio queue, 6 in the configuration
  MaxFaults,      \* bound on infrastructure faults
  HandlersBreak,  \* may a request handler stop half way?
  None

ASSUME DeliveriesAssumption == MaxDeliveries \in Nat \ {0}
ASSUME FaultsAssumption == MaxFaults \in Nat
ASSUME BreakAssumption == HandlersBreak \in BOOLEAN
ASSUME NoneAssumption == None \notin Drafts \cup Episodes

VARIABLES
  call,       \* the Call row: there, deleted by the admin, or published
  recording,  \* is the caller's audio in the bucket?
  draft,      \* the rows of callKentEpisodeDraftTable
  blobs,      \* the other objects in the bucket
  handler,    \* the requests under way
  queue,      \* messages of the audio queue
  worker,     \* the consumers of the audio queue
  late,       \* callbacks whose sender has stopped waiting
  episodes,   \* what Transistor has
  recorded,   \* the CallKentCallerEpisode rows
  abandoned,  \* drafts whose removal stopped half way
  faults

caller == <<call, recording>>
published == <<episodes, recorded>>
audio == <<queue, worker, late>>
vars == <<caller, draft, blobs, handler, audio, published, abandoned, faults>>

-----------------------------------------------------------------------------
(* Data.                                                                   *)

\* What a draft has in the bucket.  The stitched episode stands for its two
\* segments as well, which are uploaded with it and named with it.
Kinds == {"response", "episode"}

\* Mutant: the key is made of the call's id, the same for every draft.
ObjectOfCall(d, k) == <<CHOOSE x \in Drafts : TRUE, k>>

\* getEpisodeDraftAudioKey: an object's key is made of the draft's id.
ObjectOf(d, k) == <<d, k>>
ObjectsOf(d, keys) == {ObjectOf(d, k) : k \in keys}

\* PROCESSING is AUDIO or TRANSCRIBING here: STARTED and GENERATING_AUDIO are
\* one step, and so are TRANSCRIBING and GENERATING_METADATA.
Statuses == {"ABSENT", "AUDIO", "TRANSCRIBING", "READY", "ERROR"}
Processing == {"AUDIO", "TRANSCRIBING"}

Draft == [status : Statuses, keys : SUBSET Kinds]
Absent == [status |-> "ABSENT", keys |-> {}]

Intents == {"record", "undo", "delete", "publish"}

Handler ==
  [pc : {"idle", "reading", "clearing", "dropping", "creating", "storing",
         "keying", "requesting", "excusing", "deleting", "fetching",
         "producing", "recording", "closing", "cleaning"},
   intent  : Intents,
   draft   : Drafts \cup {None},     \* the draft that was read, or made
   keys    : SUBSET Kinds,           \* the keys in the row that was read
   episode : Episodes \cup {None}]   \* an episode that is not recorded yet

NoRequest == [pc |-> "idle", intent |-> "undo", draft |-> None, keys |-> {},
              episode |-> None]

\* A job with the deliveries it has had.
Messages == [draft : Drafts, attempts : 0..(MaxDeliveries - 1)]

Consumer == [pc : {"idle", "starting", "stitching", "completing", "failing"},
             draft : Drafts \cup {None}, attempts : 0..(MaxDeliveries - 1)]
NoJob == [pc |-> "idle", draft |-> None, attempts |-> 0]

Callbacks == [draft : Drafts, event : {"completed", "failed"}]

Rows == {d \in Drafts : draft[d].status # "ABSENT"}

\* randomUUID: an id that is in no row, object, request, message or callback.
FreshDrafts ==
  {d \in Drafts \ abandoned :
     /\ d \notin Rows
     /\ \A k \in Kinds : ObjectOf(d, k) \notin blobs
     /\ \A a \in Admins : handler[a].draft # d
     /\ \A w \in Consumers : worker[w].draft # d
     /\ \A m \in queue : m.draft # d
     /\ \A c \in late : c.draft # d}

Fault == faults < MaxFaults /\ faults' = faults + 1

GoTo(a, pc) == handler' = [handler EXCEPT ![a].pc = pc]
Finish(a) == handler' = [handler EXCEPT ![a] = NoRequest]

\* A request begins and reads the draft of the call, if it has one.
ReadsDraft(a, intent, pc) ==
  \/ /\ Rows = {}
     /\ handler' = [handler EXCEPT ![a] =
                      [NoRequest EXCEPT !.pc = pc, !.intent = intent]]
  \/ \E d \in Rows :
       handler' = [handler EXCEPT ![a] =
                     [NoRequest EXCEPT !.pc = pc, !.intent = intent,
                                       !.draft = d, !.keys = draft[d].keys]]

\* The best-effort removal of the objects whose keys the request has read.
RemoveObjects(a) ==
  LET named == ObjectsOf(handler[a].draft, handler[a].keys) IN
  \/ blobs' = blobs \ named /\ UNCHANGED faults
  \/ Fault /\ \E gone \in SUBSET named : blobs' = blobs \ gone

RemoveRows == draft' = [d \in Drafts |-> Absent]

-----------------------------------------------------------------------------
(* createEpisodeDraft and undoEpisodeDraft.                                *)

\* The bound on the number of drafts: a recording begins while there is an id
\* for it and for every other that has begun.
Recordings ==
  {a \in Admins : /\ handler[a].intent = "record"
                  /\ handler[a].pc \in {"reading", "clearing", "dropping", "creating"}}
IdsLeft == Cardinality(Recordings) < Cardinality(FreshDrafts)

BeginRecord(a) ==
  /\ handler[a].pc = "idle"
  /\ call = "there"
  /\ IdsLeft
  /\ handler' = [handler EXCEPT ![a] =
                   [NoRequest EXCEPT !.pc = "reading", !.intent = "record"]]
  /\ UNCHANGED <<caller, draft, blobs, audio, published, abandoned, faults>>

ReadExisting(a) ==
  /\ handler[a].pc = "reading"
  /\ ReadsDraft(a, "record", "clearing")
  /\ UNCHANGED <<caller, draft, blobs, audio, published, abandoned, faults>>

BeginUndo(a) ==
  /\ handler[a].pc = "idle"
  /\ ReadsDraft(a, "undo", "clearing")
  /\ UNCHANGED <<caller, draft, blobs, audio, published, abandoned, faults>>

ClearObjects(a) ==
  /\ handler[a].pc = "clearing"
  /\ RemoveObjects(a)
  /\ GoTo(a, "dropping")
  /\ UNCHANGED <<caller, draft, audio, published, abandoned>>

\* Whatever draft the call has by now is deleted, not the one that was read.
DropDraft(a) ==
  /\ handler[a].pc = "dropping"
  /\ RemoveRows
  /\ IF handler[a].intent = "undo"
     THEN Finish(a)
     ELSE handler' = [handler EXCEPT ![a] =
                        [NoRequest EXCEPT !.pc = "creating", !.intent = "record"]]
  /\ UNCHANGED <<caller, blobs, audio, published, abandoned, faults>>

\* The create fails if another request was faster (the call id is unique) or
\* if the call is gone (a foreign key); nothing catches that.
CreateDraft(a) ==
  /\ handler[a].pc = "creating"
  /\ IF call = "there" /\ Rows = {}
     THEN \E d \in FreshDrafts :
            /\ draft' = [draft EXCEPT ![d] = [status |-> "AUDIO", keys |-> {}]]
            /\ handler' = [handler EXCEPT ![a].pc = "storing", ![a].draft = d]
     ELSE Finish(a) /\ UNCHANGED draft
  /\ UNCHANGED <<caller, blobs, audio, published, abandoned, faults>>

StoreResponse(a) ==
  /\ handler[a].pc = "storing"
  /\ blobs' = blobs \cup {ObjectOf(handler[a].draft, "response")}
  /\ GoTo(a, "keying")
  /\ UNCHANGED <<caller, draft, audio, published, abandoned, faults>>

\* The key and the step are written while the draft is PROCESSING.
KeyResponse(a) ==
  LET d == handler[a].draft IN
  /\ handler[a].pc = "keying"
  /\ draft' = IF draft[d].status \in Processing
              THEN [draft EXCEPT ![d] = [status |-> "AUDIO",
                                         keys |-> @.keys \cup {"response"}]]
              ELSE draft
  /\ GoTo(a, "requesting")
  /\ UNCHANGED <<caller, blobs, audio, published, abandoned, faults>>

\* The put fails, perhaps after the object was stored, or the update does.
StoreFails(a) ==
  /\ handler[a].pc \in {"storing", "keying"}
  /\ Fault
  /\ \/ UNCHANGED blobs
     \/ blobs' = blobs \cup {ObjectOf(handler[a].draft, "response")}
  /\ GoTo(a, "excusing")
  /\ UNCHANGED <<caller, draft, audio, published, abandoned>>

Enqueued(d) == queue \cup {[draft |-> d, attempts |-> 0]}

\* requestCallKentEpisodeAudioGeneration.
RequestAudio(a) ==
  /\ handler[a].pc = "requesting"
  /\ queue' = Enqueued(handler[a].draft)
  /\ Finish(a)
  /\ UNCHANGED <<caller, draft, blobs, worker, late, published, abandoned, faults>>

\* The queue refused the message, or did not answer in time although it took it.
RequestAudioFails(a) ==
  /\ handler[a].pc = "requesting"
  /\ Fault
  /\ queue' \in {queue, Enqueued(handler[a].draft)}
  /\ GoTo(a, "excusing")
  /\ UNCHANGED <<caller, draft, blobs, worker, late, published, abandoned>>

\* The handler's catch, whatever has become of the draft in the meantime.
Excuse(a) ==
  LET d == handler[a].draft IN
  /\ handler[a].pc = "excusing"
  /\ draft' = IF draft[d].status \in Processing
              THEN [draft EXCEPT ![d].status = "ERROR"] ELSE draft
  /\ Finish(a)
  /\ UNCHANGED <<caller, blobs, audio, published, abandoned, faults>>

-----------------------------------------------------------------------------
(* deleteCall and publishCall.                                             *)

BeginDelete(a) ==
  /\ handler[a].pc = "idle"
  /\ call = "there"
  /\ ReadsDraft(a, "delete", "deleting")
  /\ UNCHANGED <<caller, draft, blobs, audio, published, abandoned, faults>>

\* The draft goes with the call (ON DELETE CASCADE).
RemoveCall(how) ==
  /\ call' = IF call = "there" THEN how ELSE call
  /\ draft' = IF call = "there" THEN [d \in Drafts |-> Absent] ELSE draft

DeleteRow(a) ==
  /\ handler[a].pc = "deleting"
  /\ RemoveCall("deleted")
  /\ GoTo(a, "cleaning")
  /\ UNCHANGED <<recording, blobs, audio, published, abandoned, faults>>

\* The objects of the call and of the draft that was read go last.
CleanUp(a) ==
  /\ handler[a].pc = "cleaning"
  /\ RemoveObjects(a)
  /\ \/ recording' = FALSE
     \/ faults' # faults /\ UNCHANGED recording
  /\ Finish(a)
  /\ UNCHANGED <<call, draft, audio, published, abandoned>>

\* A READY draft is published as it was read here.
BeginPublish(a) ==
  /\ handler[a].pc = "idle"
  /\ call = "there"
  /\ \E d \in Rows :
       /\ draft[d].status = "READY"
       /\ "episode" \in draft[d].keys
       /\ handler' = [handler EXCEPT ![a] =
                        [NoRequest EXCEPT !.pc = "fetching", !.intent = "publish",
                                          !.draft = d, !.keys = draft[d].keys]]
  /\ UNCHANGED <<caller, draft, blobs, audio, published, abandoned, faults>>

\* getAudioBuffer throws when the object is gone.
FetchAudio(a) ==
  /\ handler[a].pc = "fetching"
  /\ IF ObjectOf(handler[a].draft, "episode") \in blobs
     THEN GoTo(a, "producing") ELSE Finish(a)
  /\ UNCHANGED <<caller, draft, blobs, audio, published, abandoned, faults>>

\* createEpisode.
ProduceEpisode(a) ==
  /\ handler[a].pc = "producing"
  /\ \E e \in Episodes \ episodes :
       /\ episodes' = episodes \cup {e}
       /\ handler' = [handler EXCEPT ![a].pc = "recording", ![a].episode = e]
  /\ UNCHANGED <<caller, draft, blobs, audio, recorded, abandoned, faults>>

\* fetchTransitor sends the POST again when its answer was lost.
ProduceTwice(a) ==
  /\ handler[a].pc = "producing"
  /\ Fault
  /\ \E e, f \in Episodes \ episodes :
       /\ e # f
       /\ episodes' = episodes \cup {e, f}
       /\ handler' = [handler EXCEPT ![a].pc = "recording", ![a].episode = e]
  /\ UNCHANGED <<caller, draft, blobs, audio, recorded, abandoned>>

\* One of the calls of createEpisode fails, before or after the POST.
ProduceFails(a) ==
  /\ handler[a].pc = "producing"
  /\ Fault
  /\ \/ UNCHANGED episodes
     \/ \E e \in Episodes \ episodes : episodes' = episodes \cup {e}
  /\ Finish(a)
  /\ UNCHANGED <<caller, draft, blobs, audio, recorded, abandoned>>

\* Mutant: the record is written only if the call is still there.
RecordWhileThere(a) ==
  /\ handler[a].pc = "recording"
  /\ recorded' = IF call = "there" THEN recorded \cup {handler[a].episode}
                 ELSE recorded
  /\ handler' = [handler EXCEPT ![a].pc = "closing", ![a].episode = None]
  /\ UNCHANGED <<caller, draft, blobs, audio, episodes, abandoned, faults>>

\* recordPublishedCallKentEpisode: the record is written, whether or not the
\* call is still there ...
RecordEpisode(a) ==
  /\ handler[a].pc = "recording"
  /\ recorded' = recorded \cup {handler[a].episode}
  /\ handler' = [handler EXCEPT ![a].pc = "closing", ![a].episode = None]
  /\ UNCHANGED <<caller, draft, blobs, audio, episodes, abandoned, faults>>

\* ... and then the call is deleted.
CloseCall(a) ==
  /\ handler[a].pc = "closing"
  /\ RemoveCall("published")
  /\ GoTo(a, "cleaning")
  /\ UNCHANGED <<recording, blobs, audio, published, abandoned, faults>>

\* The isolate is lost, or a database call that nothing catches fails.
HandlerBreaks(a) ==
  /\ HandlersBreak
  /\ handler[a].pc # "idle"
  /\ Fault
  /\ abandoned' = IF handler[a].pc = "dropping" /\ handler[a].draft # None
                  THEN abandoned \cup {handler[a].draft} ELSE abandoned
  /\ Finish(a)
  /\ UNCHANGED <<caller, draft, blobs, audio, published>>

-----------------------------------------------------------------------------
(* The audio worker (processMessage, handleQueueBatch).                    *)

WorkerGoTo(w, pc) == worker' = [worker EXCEPT ![w].pc = pc]
WorkerEnds(w) == worker' = [worker EXCEPT ![w] = NoJob]

\* Mutant: the last delivery is retried as well.
RetryForever(w) ==
  /\ queue' = queue \cup {[draft |-> worker[w].draft,
                           attempts |-> worker[w].attempts + 1]}
  /\ WorkerEnds(w)

\* Mutant: what was not acknowledged is not delivered again.
DropMessage(w) ==
  /\ UNCHANGED queue
  /\ WorkerEnds(w)

\* message.retry(): the message comes back, or goes to the dead letter queue.
Retry(w) ==
  /\ queue' = IF worker[w].attempts + 1 < MaxDeliveries
              THEN queue \cup {[draft |-> worker[w].draft,
                                attempts |-> worker[w].attempts + 1]}
              ELSE queue
  /\ WorkerEnds(w)

Deliver(w, m) ==
  /\ worker[w].pc = "idle"
  /\ m \in queue
  /\ queue' = queue \ {m}
  /\ worker' = [worker EXCEPT ![w] = [pc |-> "starting", draft |-> m.draft,
                                      attempts |-> m.attempts]]
  /\ UNCHANGED <<caller, draft, blobs, handler, late, published, abandoned, faults>>

\* Mutant: a callback for any row counts.
AwaitsAnything(d) == draft[d].status # "ABSENT"

\* handleCallKentAudioProcessorEvent, audio_generation_completed ...
AwaitsAudio(d) == draft[d].status = "AUDIO"

Completed(d) ==
  draft' = IF AwaitsAudio(d)
           THEN [draft EXCEPT ![d] = [status |-> "TRANSCRIBING",
                                      keys |-> @.keys \cup {"episode"}]]
           ELSE draft

\* ... and audio_generation_failed.
Failed(d) ==
  draft' = IF AwaitsAudio(d)
           THEN [draft EXCEPT ![d].status = "ERROR"] ELSE draft

\* audio_generation_started writes nothing that is told apart here.
SendStarted(w) ==
  /\ worker[w].pc = "starting"
  /\ WorkerGoTo(w, "stitching")
  /\ UNCHANGED <<caller, draft, blobs, handler, queue, late, published,
                 abandoned, faults>>

Stitchable(d) == recording /\ ObjectOf(d, "response") \in blobs
WithEpisode(d) == blobs \cup {ObjectOf(d, "episode")}

\* The sandbox downloads both recordings and uploads the result.
Stitch(w) ==
  LET d == worker[w].draft IN
  /\ worker[w].pc = "stitching"
  /\ IF Stitchable(d)
     THEN blobs' = WithEpisode(d) /\ WorkerGoTo(w, "completing")
     ELSE UNCHANGED blobs /\ WorkerGoTo(w, "failing")
  /\ UNCHANGED <<caller, draft, handler, queue, late, published, abandoned,
                 faults>>

\* The sandbox fails, before or after the upload.
StitchFails(w) ==
  LET d == worker[w].draft IN
  /\ worker[w].pc = "stitching"
  /\ Fault
  /\ \/ UNCHANGED blobs
     \/ Stitchable(d) /\ blobs' = WithEpisode(d)
  /\ WorkerGoTo(w, "failing")
  /\ UNCHANGED <<caller, draft, handler, queue, late, published, abandoned>>

SendCompleted(w) ==
  /\ worker[w].pc = "completing"
  /\ Completed(worker[w].draft)
  /\ WorkerEnds(w)
  /\ UNCHANGED <<caller, blobs, handler, queue, late, published, abandoned,
                 faults>>

SendFailed(w) ==
  /\ worker[w].pc = "failing"
  /\ Failed(worker[w].draft)
  /\ Retry(w)
  /\ UNCHANGED <<caller, blobs, handler, late, published, abandoned, faults>>

\* A callback is not answered within ten seconds.  It may be lost, or the
\* application may handle it after the worker has gone on.
CallbackTimesOut(w) ==
  LET Unanswered(event) ==
        late' = late \cup {[draft |-> worker[w].draft, event |-> event]} IN
  /\ Fault
  /\ \/ /\ worker[w].pc = "starting"
        /\ WorkerGoTo(w, "failing")
        /\ UNCHANGED <<queue, late>>
     \/ /\ worker[w].pc = "completing"
        /\ Unanswered("completed")
        /\ WorkerGoTo(w, "failing")
        /\ UNCHANGED queue
     \/ /\ worker[w].pc = "failing"
        /\ Unanswered("failed")
        /\ Retry(w)
  /\ UNCHANGED <<caller, draft, blobs, handler, published, abandoned>>

LateCallback(c) ==
  /\ c \in late
  /\ late' = late \ {c}
  /\ \/ c.event = "completed" /\ Completed(c.draft)
     \/ c.event = "failed" /\ Failed(c.draft)
     \/ UNCHANGED draft
  /\ UNCHANGED <<caller, blobs, handler, queue, worker, published, abandoned,
                 faults>>

\* A consumer that dies does not acknowledge: the queue delivers again.
WorkerCrashes(w) ==
  /\ worker[w].pc # "idle"
  /\ Fault
  /\ Retry(w)
  /\ UNCHANGED <<caller, draft, blobs, handler, late, published, abandoned>>

\* The transcription writes READY, or ERROR at its last attempt.
TranscriptionEnds(d) ==
  /\ draft[d].status = "TRANSCRIBING"
  /\ \E s \in {"READY", "ERROR"} : draft' = [draft EXCEPT ![d].status = s]
  /\ UNCHANGED <<caller, blobs, handler, audio, published, abandoned, faults>>

-----------------------------------------------------------------------------
Init ==
  /\ call = "there"
  /\ recording = TRUE
  /\ draft = [d \in Drafts |-> Absent]
  /\ blobs = {}
  /\ handler = [a \in Admins |-> NoRequest]
  /\ queue = {}
  /\ worker = [w \in Consumers |-> NoJob]
  /\ late = {}
  /\ episodes = {}
  /\ recorded = {}
  /\ abandoned = {}
  /\ faults = 0

\* What a handler does next once it has begun.
HandlerStep(a) ==
  \/ ReadExisting(a) \/ ClearObjects(a) \/ DropDraft(a) \/ CreateDraft(a)
  \/ StoreResponse(a) \/ KeyResponse(a) \/ RequestAudio(a) \/ Excuse(a)
  \/ DeleteRow(a) \/ CleanUp(a) \/ FetchAudio(a) \/ ProduceEpisode(a)
  \/ RecordEpisode(a) \/ CloseCall(a)

HandlerFault(a) ==
  \/ StoreFails(a) \/ RequestAudioFails(a) \/ ProduceTwice(a)
  \/ ProduceFails(a) \/ HandlerBreaks(a)

Request(a) == BeginRecord(a) \/ BeginUndo(a) \/ BeginDelete(a) \/ BeginPublish(a)

WorkerStep(w) ==
  SendStarted(w) \/ Stitch(w) \/ SendCompleted(w) \/ SendFailed(w)

WorkerFault(w) == StitchFails(w) \/ CallbackTimesOut(w) \/ WorkerCrashes(w)

Next ==
  \/ \E a \in Admins : Request(a) \/ HandlerStep(a) \/ HandlerFault(a)
  \/ \E w \in Consumers :
       WorkerStep(w) \/ WorkerFault(w) \/ \E m \in Messages : Deliver(w, m)
  \/ \E c \in Callbacks : LateCallback(c)
  \/ \E d \in Drafts : TranscriptionEnds(d)

\* Handlers and consumers that are running go on, and the queue delivers.
Fairness ==
  /\ \A a \in Admins : WF_vars(HandlerStep(a))
  /\ \A w \in Consumers : WF_vars(WorkerStep(w))
  /\ \A m \in Messages : SF_vars(\E w \in Consumers : Deliver(w, m))

Spec == Init /\ [][Next]_vars
FairSpec == Spec /\ Fairness
=============================================================================
