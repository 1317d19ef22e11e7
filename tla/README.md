# Verification of kentcdodds.com

TLA+ models of the parts of this repository whose correctness depends on the
order of things: queue consumers, retries, recovery jobs, caches shared by many
isolates and requests that overlap. TLC checks every model on small instances;
every safety property is also proved with TLAPS, for every value of the
constants that the modules' assumptions allow.

`PROJECT.json` lists the components, the runs, the source lines each definition
stands for, the mutants that show each property can fail, the hazards and the
theorems.

## 1. The system

The site is a React Router application that runs on Cloudflare. A *parent*
worker (`services/site-worker`) serves media and the anonymous page cache, loads
the application into *dynamic* workers built from published MDX artifacts,
consumes the Call Kent transcription queue and runs the crons. Two more workers
make the audio of a Call Kent episode (`services/call-kent-audio-worker`) and
answer searches (`services/search-worker`). Rows live in D1, blobs in R2,
caches in KV and in the memory of each isolate. There are no transactions across
statements: guarded updates (`updateMany` with a condition, and the number of
affected rows) are the only synchronisation.

| Component | State | Operations | What is hard |
| --- | --- | --- | --- |
| Call Kent transcription queue (`call-kent-transcription-consumer`, `-queue`, `-caller-transcript`, `-episode-draft`) | status, job id, lease, step, texts of a `Call` row and of its draft; the queue; up to N consumers | claim, load, checkpoint, complete, release, retry, dead letter, recover | leases that run out under a slow consumer, at-least-once delivery, crashes between two awaits, superseded jobs, a recovery cron beside the queue |
| Call Kent requests (`routes/resources/calls/save.tsx`) | the same rows; audio blobs | create, regenerate, edit, delete, record a response, undo, publish | they overlap each other and the consumers; external calls between two writes |
| Call Kent audio pipeline (`services/call-kent-audio-worker`, audio callback) | the audio queue, the draft's step, R2 blobs | started, completed and failed callbacks; queue retries | callbacks late, repeated, or after the draft was replaced; a timeout that was really a success |
| Call Kent publishing (`publishCall`, `recordPublishedCallKentEpisode`) | Transistor episodes, the published record | create the episode, record it, delete the call, drop the blobs | retry of a step that was already done in a service without idempotency keys |
| Anonymous page cache (`page-cache.ts`, `manifest.ts`, `index.ts`, `prewarm-page-cache.ts`) | generation, entries in KV, a generation and a manifest cached by each isolate, in-flight revalidations | serve, fill, revalidate, bump, prewarm | values read before an await and used after it, in isolates that do not see each other |
| MDX artifact publishing (`publish-artifacts.ts`, `artifact-kv-mirror.ts`, `artifact-bundle-cache.ts`) | R2 bundle, KV mirror and code keys, manifest, bundles in memory | publish, fetch, write the mirror back | a reader that repairs the mirror races a publication |
| MDX compilation and development (`other/mdx-artifacts/`) | the cache of compiled documents, the manifest and index of the watcher | hash, compile, keep; compile at start, watch, recompile | files edited under a compilation, one count of degraded embeds for documents compiled side by side, two files written one after the other |
| Deployment and content refresh (`compute-deploy-plan.ts`, `refresh-changed-content.ts`, the workflows) | GitHub deployments, the live build and content, the recorded commit | plan, deploy, refresh, index | runs of several pushes that cancel each other at any point; what the next plan compares with |
| Search indexing (`other/semantic-search/`) | a manifest and a lexical artifact per source in R2, vectors | diff, full and incremental runs, deletion by an admin | jobs that stop between two stores; services that refuse a page |
| Search synchronisation (`search-sync.ts`, `search-db.ts`) | rows per source in D1, the mark of a finished source, answers kept by the site | sync, query, keep | several batches per source, overlapping and lost syncs, queries in between |
| Application cache (`rpc/cache-rpc.ts`, `cache.server.ts`) | value and metadata entries in KV, an LRU per isolate | get, set, delete, expire | an entry is two KV entries |
| Call Kent episodes and their list (`transistor.server.ts`) | episodes and their numbers on Transistor, a list under a generation | create, number, publish, renew the list | a season read long before it is used; episodes that are listed late |
| Call recorder (`recorder.tsx`, `call-kent-text-to-speech.tsx`, `recording-form.tsx`) | the machine on the screen, an actor per recording, spoken questions, submissions | record, pause, stop, type a question and have it spoken, accept, submit, start over | permissions, data, speech and answers that come after the visitor went on |
| Accounts (`verification`, `password-reset`, `session`, `webauthn`, `expired-cleanup`) | verifications, users, passwords, sessions | request and present a code, sign up, log in, reset, change, delete, clean up | the same code presented twice; a login that overlaps a password change; an account half created |
| Homework and reads (`homework-completion-migration`, `client`, `blog`) | rows by client id and by user, the client cookie | record, take back, move at a sign-in | rows added while they are moved |
| D1 access (`d1-session-request`, `d1-rpc`, the bookmark cookie) | the bookmark of a request and of a browser | carry, return, answer | statements side by side and requests that overlap bring bookmarks back in any order |
| Media (`media.ts`, `media-serving.server.ts`) | R2 objects, the edge | look up, sniff, slice, transform, keep | one kept answer for many requests; objects replaced while they are served |
| Rate limits (`rate-limit`, `rate-limiting`, `parent-rate-limit`) | windows per key in an isolate | count, evict, sweep | the boundaries of windows, and capacity |
| Request pipeline, rendering, feeds, search presentation, OAuth, Discord, pages, mocks | little or none | | not modelled: data processing, I/O and presentation |

How they interact: a request handler writes a row and then sends a message; a
consumer claims the row the message names, calls Workers AI, and writes the row
again; the audio worker calls back over HTTP; the cron reads rows that nobody
has touched for a while and sends their messages again; publishing bumps the
page-cache generation, and every isolate learns of it when its own copy expires.

What makes each component correct:

- *Transcription*: nobody processes a job that another consumer holds under an
  unexpired lease; a READY text belongs to the current job; what was settled,
  emptied or deleted is not changed by late work; a draft is not transcribed
  before it has audio; every job is settled or superseded in the end.
- *Audio and publishing*: one episode per call, but for overlaps and faults, and
  every episode is recorded; no blob is deleted that a current row names; a draft
  only moves forward; no row is left waiting for a callback that will not come.
- *Page cache and artifacts*: a shared entry never holds what was rendered for
  one client; a prewarmed entry stays at its content version; the manifest never
  names a bundle that cannot be loaded; old content disappears in the end.
- *Content*: whatever version an isolate goes by can be loaded and is not mixed with
  another; a compiled document fits its text; what is live is what main has.
- *Search*: between jobs the three stores of a source agree; published content is not
  lost; a source that is marked as synced is complete; answers are of the last sync.
- *Call list and recorder*: no two episodes have one number; the list under a
  generation has what its opener saw; the screen tells what the microphone does.
- *Application cache*: an old value does not live on with young metadata.
- *Accounts and records*: a code is used once; no session outlives a password change; no
  account stays without a password; nothing done is lost by signing in.
- *Requests*: a request sees what its browser wrote; a media answer fits the
  request that gets it, not the one that left it at the edge; limits hold.

## 2. The modules

One module per component, its properties in a module of the same name with
`Properties` (or at its end, when there are one or two), its theorems in one with
`Proofs`. Components that share no state are checked together: the run has a
variable `part`, chosen at the start, and everything but that part rests. That
says nothing less than separate runs would, and the parts that do interact are in
one module. The theorems of such components are together as well, in `ContentProofs`,
`SiteProofs` and `PageCacheProofs`: each component's for its own specification, and at the
end those of the composed one, of which a behaviour is, for each part, a behaviour of
that part. No module that is proved about reaches a RECURSIVE operator;
sizes and times are CONSTANTS with named assumptions.

| Module | Composes | Checked in | Proved |
| --- | --- | --- | --- |
| `CallKentTranscription`, refines `TranscriptRequests` | requests, queue, consumers, cron | `transcription`, `transcription_liveness`, `draft_edit_overwritten` | types, `ReadyTextIsOfCurrentJob`, `UnexpiredLeaseIsKept`, `SettledRowsStay`, `NoWorkBeforeAudio`, `KeepsPromise` |
| `CallKentEpisode`, refines `CallLife` | requests, audio queue and worker, callbacks, objects, publishing | `episode`, `episode_liveness`, `audio_draft_unowned` | types, `AudioIsThere`, `EpisodesAreAccountedFor`, `KeepsToLife`, `DraftsMoveForward` |
| `CallsFeed` | publish requests, Transistor, the list | `page_cache` (`MCCaches`) | types, `NumbersAreDistinct`, `ListsFitTheirGeneration` |
| `CallRecording` | screen, actors, spoken questions, form, server | `site` (`MCSite`) | types, `RecorderIsHonest` |
| `PageCache` | isolates, KV, fills, publication, refresh, prewarm | `page_cache`, `page_cache_liveness`, `prewarm_overwritten` | types, `SharedPagesAreNobodys`, `PagesFitTheirGeneration` |
| `MdxArtifacts` | publisher, KV, parents, dynamic workers, readers | `content` (`MCContent`) | types, `DocumentsAreServed`, `CachesDoNotMix` |
| `ArtifactCompile`, `DevWatcher` | builds and their cache; the watcher and its files | `content` | types, `CompiledFitsItsText` |
| `Deployments` | plan, site, refresh and index jobs of several pushes | `content`, `content_reverted` | types, `DeploymentsTellWhatIsLive`, `LiveFollowsMain` |
| `SearchIndexing` | jobs, manifest, vectors, artifact, admin | `content` | types, `StoresAgree`, `FullRunsShowContent`, `PublishedStaysFound` |
| `SearchSync` | artifact, D1, syncs, searches, kept answers | `content` | types, `SyncsTakeEffect`, `AnswersAreOfLastSync` |
| `AppCache` | isolates, edges, KV | `site` | types, `OldValuesGo` |
| `Accounts` | codes, users, passwords, sessions, browsers | `site` | types, `CodesGrantOnce`, `SessionsFitThePassword`, `AccountsHavePasswords` |
| `ReaderRecords` | tabs, cookies, rows | `site` | types, `NothingDoneIsLost` |
| `D1Sessions` | browsers, requests, statements, replicas | `site` | types, `ReadsOwnWrites` |
| `MediaServing` | R2, the edge, requests | `page_cache` | types, `MediaFitsTheRequest` |
| `RateLimits` | the three limiters of an isolate | `site` | types, `LimitsHold` |

`Absence` declares the model value `None` that the modules of one run share.

## 3. The transcription queue

### Modules

- `CallKentTranscription`: state, one action per database call, queue operation
  or external call, the specification and its fairness.
- `CallKentTranscriptionProperties`: what is checked about it.
- `TranscriptRequests`: the promise to the people who ask. A row has at most
  one open job; only an open job (or a person) puts a text down, closing it; a
  text is not touched after the question was closed. Jobs, leases, queues,
  retries and the cron do not appear in it.
- `CallKentTranscriptionProofs`: the theorems.
- `MCCallKentTranscription` and the `.cfg` files: the instances.

### State and code

| Variable | Code |
| --- | --- |
| `row[i]` | the columns of `callTable` (`<<"call", c>>`) and `callKentEpisodeDraftTable` (`<<"draft", c>>`) that the guards read: status, `processingJobId`, `processingLeaseId`, `processingLeaseExpiresAt` (`left`, counted down), `updatedAt` (`age`, counted up), `step`, the transcript (`text`: the job that produced it, `Manual`, or `None`) and the metadata (`meta`) |
| `queue` | messages of the transcription queue with the deliveries they have had |
| `worker[w]` | one invocation of `consumeCallKentTranscriptionBatch` at one message: where it is (`pc`), its lease, and what it read of the draft |
| `dispatch` | enqueues under way between the write of a row and the answer of the queue, of a request handler or of the cron |
| `faults` | infrastructure faults so far (a bound) |

The requests are `CreateCall`, `GenerateCallerTranscript`,
`UpdateCallerTranscript`, `DeleteCall`, `CreateEpisodeDraft`,
`UndoEpisodeDraft`, `UpdateEpisodeDraft` (all in `save.tsx`); the audio worker
is present through its callbacks `AudioCompleted` and `AudioFailed`; the queue
through `Deliver`, `Retry` and the dead letter in it; the consumer through
`ClaimJob` ... `SettleError`; the cron through `CronSelect`, `Enqueue`,
`TouchDispatchedJob`.

Abstractions:

- A text is its author. STARTED and GENERATING_AUDIO are one step, because every
  guard that names one names both. The draft's id and its job id are minted
  together, so the job id stands for both.
- Replacing a draft (delete, then create) is one step, and so is a read of a
  draft with its call.
- A tick stands for twenty minutes or more. No request handler and no cron
  invocation is under way when it passes; consumers may be.
- Job and lease ids are taken from small sets; one that is in use nowhere may be
  minted again. This is what keeps the state space finite without bounding the
  number of jobs, and the assumption is that `randomUUID` does not repeat.
- Rows written before the queue existed (`processingJobId` null while
  PROCESSING) and the cron's page of 50 rows are left out.

### Runs

Every run has one call. `MaxDeliveryAttempts` is 2 (3 in the code): a first
delivery, a retry and the last attempt all occur. `LeaseTicks` and `StaleTicks`
are 1: the lease runs out, and a row goes stale, under a consumer that is slow.
Two jobs are enough for one to supersede the other, and recycling lets the
sequence go on.

| Run | Instance | Shows |
| --- | --- | --- |
| `transcription` | one recorded call with its draft, two consumers, two jobs, three leases, one fault; where the draft is there, less beside it (`DraftsAreSmall`) | leases exclude, READY texts are of the current job, late work leaves settled rows alone, nothing touches a draft that waits for its audio, the promise of `TranscriptRequests` is kept |
| `transcription_liveness` | a call, and a call with its deferred draft after which nobody asks again; one consumer, one fault, fairness | every job that was asked for is settled or superseded in the end |
| `draft_edit_overwritten` | one draft | a divergence from a comment, see below |

Two consumers that race over the checkpoints of one draft, and more, are left to
`ReadyTextCorrect` and `LeaseKeptCorrect` (below), which cover any number of
consumers. Symmetry (jobs, leases, consumers) is used in the safety run only. The
quiet mode of the liveness run starts where the audio has arrived and the
draft and its call are both queued; it states strong fairness for the messages
that exist there, because fairness towards a message that is never sent says nothing.

### Fairness

`Fairness` assumes what the platform provides: time passes, the cron runs, a
request handler that goes on reaches its next call, a consumer that is running
takes its next step (weak fairness), and a message that is in the queue again and
again is delivered (strong fairness for each message, because consumers may be
busy with others each time). No request of a person is fair, and no fault is. The
faults are finite in number: with a crash at every delivery nothing can
be promised.

The liveness runs show why the cron is needed. A consumer that crashes keeps its
lease, so the redelivered message is acknowledged without work; only the cron
brings the row back once the lease has run out. With the cron restricted to rows
without a lease, or to drafts in step TRANSCRIBING, TLC finds the row that
stays PROCESSING for ever (the mutant of `JobsSettle` is of this kind).

### What the code does not keep

`draft_edit_overwritten`: the comments of
`startCallKentEpisodeDraftProcessing` say that a transcript or metadata that is
already present is skipped. What is looked at is the draft read at the start of
the delivery. `updateEpisodeDraft` writes by call id in any state, so a form that
was open on the previous draft can store a text after that read; the checkpoint
or the final write replaces it. TLC finds it in a few steps. The UI offers the form
for READY drafts, which makes this a narrow window: an admin records again in
one tab and saves in another.

### Proofs

`CallKentTranscriptionProofs` proves, for any sets of calls, consumers, jobs and
leases and any attempts, ticks and faults satisfying the module's assumptions:

| Theorem | Property | Inductive invariant |
| --- | --- | --- |
| `TypeCorrect` | `TypeOK` | `TInv`: the types, and that a busy consumer has a message and a lease, and a PROCESSING row a job. Without them a claim or a retry could write a value outside its type. |
| `ReadyTextCorrect` | `ReadyTextIsOfCurrentJob` | `TInv /\ TextInv`: a draft's text is of its job in every state (not only READY), and a consumer past the checkpoint works on a row that has a text as long as it has the consumer's job. The last clause is what lets the final write of a draft, which does not write the text, put down READY. |
| `LeaseKeptCorrect` | `UnexpiredLeaseIsKept` | `TInv /\ LeaseInv`: no two consumers have the same lease. Every write to a lease is either a claim, whose guard needs the lease absent or expired, or gives up the writer's own lease. |
| `SettledRowsCorrect` | `SettledRowsStay` | `TInv /\ TextInv`. Every step of the queue's side is shown to be the effect of one job on one row: it takes or gives back the lease, or the open job goes on or is closed (`QueueEffect`). |
| `NoWorkCorrect` | `NoWorkBeforeAudio` | `TInv /\ TextInv /\ AudioInv`: while a draft waits for its audio nobody holds it, and no message, consumer or dispatch names its job. It begins so because the job is new when the row is made; after that only the callback names it, and ends the wait. |
| `KeepsPromiseCorrect` | `KeepsPromise` | `TInv /\ TextInv /\ AbsentInv` (who is not there has no text): under the refinement mapping every action is one of `TranscriptRequests` or is not seen. A final write closes the question with the text of its own job, or with the one that a draft has already, which `TextInv` says is of that job. |

The proofs use the assumptions `DraftCallsAssumption`, `TicksAssumption`,
`AttemptsAssumption`, `FaultsAssumption` and `NullAssumption`, which TLC
evaluates in every run. `FreshJobs` and `FreshLeases` (ids are unique) are part
of the model. Only model-checked: `JobsSettle`, which rests on fairness.

## 4. From a call to an episode

### Modules and state

`CallKentEpisode` models one call: the requests of the admin about it, the audio
worker with its queue, the objects in R2 and the episodes on Transistor.
`CallKentEpisodeProperties` says what is checked, `CallKentEpisodeProofs` what is
proved, `MCCallKentEpisode` and the `.cfg` files are the instances. `CallLife` is the
abstract specification: a call has at most one draft, which gets its response, then its
audio, then its transcript, or ends in an error; the admin may drop it; the call ends
deleted, or published with a recorded episode. Requests, queues, workers, callbacks,
objects and faults do not appear in it. Two calls share no row and no object, so one is
enough.

| Variable | Code |
| --- | --- |
| `call` | the row of `callTable`: there, deleted by `deleteCall`, or deleted by `recordPublishedCallKentEpisode` |
| `recording` | the object of the caller's audio (`callerAudioKey`) |
| `draft[d]` | the row of `callKentEpisodeDraftTable` with id `d`: its status (with the step, see below) and which keys it holds |
| `blobs` | the objects of drafts; `ObjectOf` is `getEpisodeDraftAudioKey` |
| `handler[a]` | one request in `save.tsx`, between two awaits: its intent, and the draft and keys that it read or made |
| `queue` | messages of the audio queue with the deliveries they have had |
| `worker[w]` | one `processMessage` of the audio worker |
| `late` | callbacks whose sender has given up waiting, which the application may still handle |
| `episodes`, `recorded` | episodes on Transistor, rows of the published-episode table |
| `abandoned` | for the properties only: drafts whose removal stopped between the objects and the row |

The requests are `createEpisodeDraft` (`BeginRecord`, `ReadExisting`,
`ClearObjects`, `DropDraft`, `CreateDraft`, `StoreResponse`, `KeyResponse`,
`RequestAudio`, and `Excuse` for its catch), `undoEpisodeDraft` (`BeginUndo`,
`ClearObjects`, `DropDraft`), `deleteCall` (`BeginDelete`, `DeleteRow`, `CleanUp`)
and `publishCall` (`BeginPublish`, `FetchAudio`, `ProduceEpisode`,
`RecordEpisode`, `CloseCall`, `CleanUp`). The worker is `Deliver`, `SendStarted`,
`Stitch`, `SendCompleted`, `SendFailed`; the callback route is `Completed` and
`Failed`, which the worker's actions and `LateCallback` share.

Faults, of which there are at most `MaxFaults`: an object operation or the enqueue
fails or times out although it happened; the POST to Transistor is sent again by
`fetchTransitor` because its answer was lost; a callback is not answered in ten
seconds; the sandbox fails before or after its upload; a consumer dies; an isolate
is lost between two calls of a handler (`HandlerBreaks`).

Abstractions:

- The objects of the segments stand with the object of the stitched episode: they
  are uploaded together and named in the row together.
- STARTED and GENERATING_AUDIO are one status (AUDIO), TRANSCRIBING and
  GENERATING_METADATA another: the guards of this model never tell them apart. The
  transcription, which section 3 models, is one action that ends in READY or ERROR.
- An upload of a sandbox whose consumer has died already is left out, and so are
  signatures, the lifetime of signed URLs, and the failure of the best-effort
  removal when nothing else depends on it.
- Edits of titles and notes and the e-mail to the caller are left out; the number of an
  episode and the refresh of the list are in `CallsFeed`, below.
- Draft ids are taken from a small set and minted again when nothing mentions them
  any more; a recording begins only while there is an id for it (`IdsLeft`).

### Runs

| Run | Instance | Shows |
| --- | --- | --- |
| `episode` | two requests at a time, one consumer, two drafts, four episodes, two deliveries, one fault | types; rows name objects that are there; every episode is recorded, about to be, or paid for by a fault; the call lives as `CallLife` tells |
| `episode_liveness` | one request at a time, one consumer, one fault, two deliveries, handlers do not stop half way | no draft waits for its audio for ever |
| `audio_draft_unowned` | one of each | a divergence from the documentation, see below |

Two requests are the smallest number that overlaps, and each may be of any kind, so
every pair of record, undo, delete and publish is there, at any point of the other.
Two drafts are the old one and the one that replaces it. The queue has
`max_retries` 5, six deliveries; two are a first and a last one. Four episodes are
what two publications and a repeated POST can make. More requests and consumers are
left to the proofs.

What the properties say about the code:

- `AudioIsThere`. Objects are removed under keys that a request read some awaits ago.
  That is safe because the draft's id is part of every key: removing the objects of a
  draft that was replaced in the meantime reaches nothing of the new one. With the
  call's id in the key instead, TLC finds the undo that deletes the response of the
  draft that was recorded after it (the mutant). The property excepts a draft whose
  own removal has begun, because the code removes the objects before the row.
- `EpisodesAreAccountedFor`. `recordPublishedCallKentEpisode` writes the record
  first and does not ask whether the call is still there. If it did, the slower of two
  publish requests would leave an episode that nothing knows of.
- `KeepsToLife`. The call, its drafts and its recorded episodes are a behaviour of
  `CallLife` (the same variables, without the rest). What is READY has had its response
  and its audio, there is never a second draft, nothing that is READY or in ERROR goes
  on, and a call is published only after an episode was recorded. The callbacks are
  guarded by the status and the step, the handler's write of the step by the status
  alone. The latter is safe only because the handler has not queued the job yet when it
  writes; and a callback that completes a draft needs not look for the response, because
  no job is queued before the response is named. The proof has to say both.
- `DraftsMoveForward`, that no draft goes back, is the part of it that a reader asks
  about first. No run checks it by itself; it has its own theorem.

Fairness of the liveness run: handlers and consumers that are running take their
next step (weak fairness), and a message that is in the queue again and again is
delivered (strong fairness for each message, because the consumers may be busy with
another). No request of a person and no fault is fair. Handlers do not stop half way in
this run and faults are fewer than deliveries: `audio_draft_unowned` shows that the
first is needed, and with a fault at every delivery the message is dropped.

### What the code does not keep

`audio_draft_unowned`: the documentation says of the drafts that the recovery cron
passes over that "audio-generation jobs remain owned by their separate queue"
(`docs/agents/cloudflare-worker-architecture.md:366`). The row is created PROCESSING
in step STARTED, then the response is stored and its key written, then the job is
queued. An isolate that is lost in between leaves a draft that no queue has and the
cron does not select; the admin has to undo it.

### Proofs

`CallKentEpisodeProofs` proves, for any sets of drafts, requests, consumers and
episodes and any deliveries and faults (`DeliveriesAssumption`,
`FaultsAssumption`, `NoneAssumption`):

| Theorem | Property | Rests on |
| --- | --- | --- |
| `EpisodeTypeCorrect` | `TypeOK` | `HandlersFit`, `AudioFits`, `DataFit` |
| `AudioCorrect` | `AudioIsThere` | `CallFits`, `KeysFit`, `MakingFits`, `VoicesFit`, `ObjectsFit` |
| `AccountsCorrect` | `EpisodesAreAccountedFor` | `CountFits`, with the library's facts about finite sets |
| `ForwardCorrect` | `DraftsMoveForward` | `OwnersFit` |
| `LifeCorrect` | `KeepsToLife` | `OwnersFit`, `MakingFits`, and `LifeFits`: a draft whose audio is asked for has its response and nothing else, one that is transcribed has everything, one that is gone has nothing, and a request that closes the call has recorded an episode |

They are the parts of one inductive invariant, `IInv`, and `LifeFits` is inductive
beside it. None of the properties is inductive. The central part is `OwnersFit`: from its creation until its audio is
requested a draft belongs to the one request that made it, and no message, consumer
or late callback knows it, because the id was fresh. Hence no callback can move it or
add a key to it while it is made (`MakingFits`), and the unguarded write of the step
finds it still in AUDIO. `KeysFit` says that what a request read of a row that is
still there is still in the row, so a removal takes from a draft only what it named
when it was read; `VoicesFit` that an episode is in the bucket once somebody says
so, as long as anyone would listen. `CallFits` is why the last clean-up of a delete
or publish request touches no row: there is none without its call.

The steps fall into five kinds, with one lemma for each: a request reads or stops
(`HandlerMoves`), rows go (`RowsRemoved`), objects go (`RemovalReaches`), the
request that holds a draft goes on (`HolderMoves`), and the audio side advances
(`AudioMoves`). The lemma of an action shows which kind it is. Only model-checked: the
liveness property.

### Numbers and the list of episodes

`CallsFeed` is the other half of publishing: `createEpisode` with the season it reads,
the upload, the creation, the publication and the number it asks for afterwards
(`BeginPublishing`, `PostEpisode`, `PublishEpisode`, `NumberEpisode`), and the list that
the site keeps under a generation and renews until the episode is in it (`RefreshLoads`
to `BumpFeedGeneration`, `LoadFeed` and `StoreFeed` for everybody else). The state is `episode` on
Transistor, `publishing`, the generation in KV with the values that may still be read,
`feed` per generation and `loading`; `openedWith` is for a property. It is checked beside
the page cache (`page_cache`), with two publish requests, one loader, seasons of two
episodes, four episodes, three generations and one call that fails or is repeated.

- `NumbersAreDistinct`. A season is read long before its episode exists; the later
  renumbering has to repair that. It does, except for an episode that was created in a
  season that was over by then, or is numbered after another opened the next one
  (`crossed`): the new number is worked out from the season that was read at first.
- `ListsFitTheirGeneration`. A load that began before a publication may end after it; it
  stores under the generation that it read first. When the new episode is not
  processed within thirty seconds the code deletes the list instead, and the next
  reader keeps an incomplete one for a day; the property is about lists whose
  opener saw the episode.

`PageCacheProofs` proves both, for any publishers, loaders, episodes, seasons of any
length, generations and failures (`FeedAssumption`):

| Theorem | Property | Rests on |
| --- | --- | --- |
| `FeedTyped` | `FeedTypeOK` | `FeedShapes` |
| `NumbersDiffer` | `NumbersAreDistinct` | `PlacesDiffer`, with `PublishingsFit` |
| `ListsAreComplete` | `ListsFitTheirGeneration` | `GenerationsFit`, `ListsHeldFit` |

`PublishingsFit` says that the episode of a request that has not numbered it is that
request's alone and still has the season that was read. `PlacesDiffer` is what the
property needs and a step keeps: the places of two episodes differ that have a number, or
are about to get one, and that did not cross a season, where a place counts through all
seasons. The new number is the largest of its season plus one, which takes the existence of
a largest (`LargestOfBounded`, from the library's facts about cardinalities); a number
that is more than a season holds becomes one of the next season at the same place
(`WrappingKeepsThePlace`, `SeasonsFollow`). `GenerationsFit` says that a generation was
opened only with entries whose episodes are listed and stay so, and that what is stored under a
generation or about to be has all of them; `ListsHeldFit` the same of the list that a
publish request is about to store.

### The recorder

`CallRecording` is the browser's part: the machine of `recorder.tsx` (`screen`), the
actor around each `MediaRecorder` (asking for the microphone, recording, its last data on
the way), the question that is typed instead (`question`) with the requests to speak it
(`speech`), the form (`blob`, `text`) and its submissions as the server sees them. The
visitor may press anything the screen shows at any time, and leave; the permission, the
data, the speech and the answer come late, or not at all. The run `site` has two
recordings, two questions, two submissions and two accidents (refusals, unplugged
devices, lost answers); beside a question there are three of these in all
(`RecorderIsSmall`), enough for two questions whose audio is awaited, or for a submission
that fails after the audio of its form was replaced and is repeated.

`RecorderIsHonest` has three parts. `ScreenIsHonest`: no microphone stays open for a
recording that is not on the screen, however late the permission was given, and what is
on the screen is what the recorder does. It excepts what the code does get wrong and the
model shows: a pause or a stop pressed before the recorder exists is not heard, a
refused microphone leaves a screen that "records", the chunks of an unplugged device are
dropped, and an empty list of devices leaves "selecting" without a way out.
`SubmittedOnce`: one recording becomes two calls only when an answer was lost or the
submission was aborted on its way; the server has nothing to recognise a repetition by.

`TextIsWhatIsHeard`: a typed question becomes the transcript of its call without being
heard again, so the question that is submitted must be that of the audio. A request that
was superseded is aborted or not looked at (`requestIdRef`), and starting over forgets the
question beside the old audio. After the audio is here its length is awaited, and nothing
is compared after that (`call-kent-text-to-speech.tsx:195-209`): audio of a question that
was changed in the meantime is accepted, over a recording that has begun and in place of
the audio of a form. A submission of that form that was under way and is answered by an
error then puts its own question back beside the new audio. These forms are excepted
(`late`).

`SiteProofs` proves `RecorderTyped` and `RecorderHonest`, for any recordings, questions,
speeches and submissions (`RecordingAssumption`). The invariant has three parts beside the
types. `ActorsFit`: an actor whose microphone is open, or will be when the permission comes, is
that of the recording on the screen, and unless a button was lost it does what the
screen says. `TextsFit`: the form has the question of its audio unless that came `late`;
only a speech for the question in the field is still looked at; a submission that
is awaited is of the audio in the form. `SubmissionsFit`: a recording that was submitted is
over and comes back to the form only when that failed, and of two submissions of one
recording one has failed. The last is what makes `SubmittedOnce` inductive: the next submission
is allowed or not by the form, long after the first.

## 5. The anonymous page cache

### Modules and state

`PageCache` models one page for one theme; `PageCacheProperties` says what is
checked, `PageCacheProofs` what is proved, `MCPageCache` and its `.cfg` files
are the instances. The key of an entry is the generation, because the other parts
of `buildPageCacheKey` (host, path, search, theme, markdown) separate pages that
never meet.

| Variable | Code |
| --- | --- |
| `version`, `generation` | `mdx-manifest:current` and `page-cache:generation` as last put, numbered in the order of the puts |
| `readable` | what a KV read of the two may return: the older values too, until the put has propagated |
| `entry[g]` | the stored page under generation `g`: the version it was rendered from, for whom, whether it is older than five minutes |
| `memory[i]` | `manifestCache` and `generationCache` of isolate `i` |
| `filling[i][g]` | `inFlightRevalidations` of isolate `i`, with the page once it is rendered |
| `request[r]` | a request in `handlePageCacheRequest`, between two awaits |
| `publisher[p]` | a workflow run and the handler it waits for: manifest flipped, generation bumped, refreshed, prewarming, warm |
| `opened` | for the properties only: the version published by the workflow that opened a generation |

The actions follow the awaits: `ReadGeneration`, `Lookup`, `Render` (the manifest
is read here), `Store`; `FillRender`, `FillStore`, `FillFails` for the
background fill that a stale hit or a client's miss begins; `FlipManifest`,
`BumpGeneration` (`handlePublishArtifacts`), `RefreshCache`, `RefreshAnswers`
(`/action/refresh-cache`), `Prewarm` (one attempt of `prewarmPageCache`).

Abstractions: the copies in memory, the freshness of an entry and the propagation
of a put end at any moment (`Forget`, `EntryAges`, `Propagate`), so no clock is
needed and every timing is covered. Everything the cache does not serve or store
(session cookies, clients on the listed personalised pages, HEAD on a miss) is
`Bypass`: it only fills the isolate's copy of the manifest. Two bumps in the same
millisecond, which would share a generation, are left out, and so are nonces,
headers and content types.

### Runs

| Run | Instance | Shows |
| --- | --- | --- |
| `page_cache` | `MCCaches`: the page cache with one isolate, one request beside one fill, one publication with refresh and prewarm, one fault, at most one stored entry and one fill in flight (`OnePage`); or the list of episodes of section 4 (`FeedIsSmall`); or the media of section 7 (`MediaIsSmall`) | types, privacy, that pages fit their generation; numbers are distinct, lists fit their generation; media fit the request |
| `page_cache_liveness` | one isolate, one request at a time, one fault; a publication has just ended, with any copies in memory and any propagation | the current content in the end |
| `prewarm_overwritten` | one isolate, two requests | a divergence from the documentation, see below |

One isolate stands for many in the safety run: it forgets at any moment and a KV
read may lag, so what it remembers for one request says nothing about what it
remembers for the next. Versions 0 and 1 and generations 0 to 2 are the content
before and after a publication, its bump, and the bump of the refresh.

`PagesFitTheirGeneration` is about the order of four steps in two handlers: the
publisher flips the manifest, then bumps; a request reads the generation, then the
manifest, and stores under the generation it read. If a page is stored under
the generation of the moment of the write instead, TLC finds an old page under a
new generation (the mutant). Old content can still be filed there by an isolate
with an older copy of the manifest, which is why the code bypasses the copies for
prewarming and why `CurrentContentInTheEnd` matters.

Fairness of the liveness run: time passes (copies run out, entries age, puts
propagate), a request and a fill go on, and somebody keeps asking for the page.
The last is an assumption about traffic: without it nobody sees the old content
either. Expiry after 26 hours is not fair, so the old page goes because
it is revalidated, not because it expires.

### What the code does not keep

`prewarm_overwritten`: the documentation says that prewarming "prevents a fresh
cache generation from being filled with stale MDX"
(`docs/agents/cloudflare-worker-architecture.md:524`). A request that missed
before the prewarm and read the manifest from an older copy, or before the
put had propagated, stores its page after the prewarm was confirmed. The entry then
shows the old content as a HIT for five minutes, and is revalidated after that.

### Proofs

`PageCacheProofs` has the theorems of all three caches. Of the page cache it proves, for
any sets of isolates, requests and workflow runs and any bounds (`BoundsAssumption`,
`NoneAssumption`):

| Theorem | Property |
| --- | --- |
| `PageCacheTypeCorrect` | `TypeOK` |
| `PrivacyCorrect` | `SharedPagesAreNobodys` |
| `GenerationsCorrect` | `PagesFitTheirGeneration` |

One inductive invariant `IInv` serves all three, with one part for each kind of
state. A page is fit (`PageFits`) from the moment it is rendered, not only when
it is stored: it is nobody's, its generation has been opened, and if it was
rendered from the current manifest it is not older than the publication behind its
generation. That needs two facts about numbers: no request, fill or copy
names a generation that has not been opened (otherwise a later bump would change
`opened` under it), and a workflow on its way to a bump has published a version
that is at most the current one (`PublisherFits`), so a generation is never
opened for content that cannot be read yet. `Grows` states what every step does
with the numbers, and one lemma per kind of state carries fitness over a
step that leaves it alone or writes one record.

`CachesTyped` is about the three parts of `MCCaches` together, as `page_cache` runs them: by
`CachesAreTheirOwn` a behaviour of the composed specification is one of each part,
so that every theorem about a part holds of it.

## 6. Content and search

`MCContent` puts six modules beside each other. The run `content` checks all of them,
`content_reverted` one claim about deployments.

| Module | State and code | Instance |
| --- | --- | --- |
| `MdxArtifacts` | `r2`, `mirror`, `codeKey`, `manifest`: the bundle in R2, its mirror without code, the code of the document, and the manifest in KV, each KV cell with the older values that may still be read; `parent[p]`: the caches of a parent isolate; `app[v]`: the dynamic worker of a version and what it keeps; `reader`, `publication`: requests and workflow runs between two awaits | three versions, of which two have the document; one isolate, reader and publication; one fault |
| `ArtifactCompile` | a build (`building`, `compile`), the cache it `kept` under hashes, the one count of degraded embeds | two articles, two texts, two edits, one degraded embed |
| `DevWatcher` | `devManifest` and `index` (two files), the first compilation, what the file system has told (`seen`), the queue, the recompilations | three articles, one of them a directory; two edits, two stops |
| `Deployments` | `main`, `run[c]`: the jobs of each push, `deployments` on GitHub, `live`, `recorded`, `indexed` | three commits, two contents and two codes, one failure |
| `SearchIndexing` | `manifestDocs`, `vectors`, `lexical`: what each store has; `details`: what the YouTube job keeps of each video; `due`: a push that waits for its job; `job`: what the job has read and is at | each source, two documents with one or two chunks (`Bare`, a video without its details, has one), three changes; one lost job, refused embedding, run to which details are refused, or run without the cache |
| `SearchSync` | `artifact`, `rows`, `mark`: R2, the rows of the source, and its mark; `sync`, `search`, `cached` | two syncs at a time, two artifacts of two chunks, one search, one loss |

The bounds are the smallest with which the cases of interest happen: a revert (a version
published, replaced and published again), a document that a version no longer has, two
compiles of one version (`Builds`), an edit in the middle of a compilation, a push that
arrives at each point of the jobs of the one before, a job between two stores, a sync in
the middle of another. Texts, embeddings and MDX are choices from small sets (articles begin with the same one: no
text is compared with that of another article); two chunks
tell the first batch of a source from its last.

What the properties say about the code:

- `DocumentsAreServed`. Readers go by whatever manifest they find: of KV, of their
  isolate or of the edge. Bundles are never removed and the manifest is flipped last, so
  whatever they go by can be loaded; flipping the manifest before the bundle is the
  mutant. A document that is gone in one version and back in the next is the one case in
  which its absence may be remembered, and the property says so.
- `CachesDoNotMix`. Mirrors and codes are written back by readers
  (`artifact-bundle-cache.ts:99`) that may be as old as they like; this is harmless
  because every key has the version in it. Two compiles of one version may differ, though, and
  a reader may then put the code of the older one back; and what a browser hydrates with
  may be of another compile than what was rendered. The documentation promises more
  than that (`docs/agents/cloudflare-worker-architecture.md:62`), but only for versions.
- `PublishedInTheEnd` is a liveness property, under `ArtifactsFairness`: publications and
  readers that are under way go on, copies of the manifest expire and a put propagates. No
  publication, arrival or fault is fair.
- `KeptDocumentsFit`, `DevServesEdits` (`CompiledFitsItsText`). Articles compile side by
  side and count what degrades together, so the count errs on the side of keeping less.
  The hash of the inputs is compared again after the compilation; an edit that was
  changed back passes the comparison, which the property excepts. In development the
  change of an article that is a directory is queued under a key that no document has
  (`contentPathToDocumentKey`), and edits between the first compilation and the opening
  of the watcher are missed: both are excepted, and shown, by the model.
- `DeploymentsTellWhatIsLive`, `LiveFollowsMain`. Plans compare with GitHub's last
  successful deployment. After a failed deployment that had changed the worker already,
  an exact revert plans nothing; an index job that was cancelled is not made up for; two
  deployments that overlap may end out of order. Hence the conditions.
- `StoresAgree`, `FullRunsShowContent`, `PublishedStaysFound`. A job decides by its manifest
  and writes the artifact after it, so a job that stops between the two leaves an
  artifact that lacks chunks until something changes; a page that the embedding service
  refuses is recorded as indexed (`embedItemsSafely`); an admin who deletes a document
  while a job runs is undone by its manifest. What is lost that way is not content that
  is still published, and a full run repairs what is found by words.
- Two things the properties have to except, because the code does them. A push tells its job
  which files it changed and which it took away (`PushContent`), and any file below
  `content/blog/<slug>/` stands for the article
  (`other/semantic-search/index-repo-content.ts:157-182`, 529-531): a push that takes a
  companion file away, or renames it to somewhere else, and neither adds nor changes
  another of that article deletes the article from all three stores although its text is
  still published, until a push that touches it or a full run. `PublishedStaysFound`
  excepts those articles and no other. And the details of a video, its transcript among them, that
  YouTube refuses other than as a bot's are read as empty and the run goes on
  (`index-youtube-playlist.ts:1010-1022`, `EnrichVideos`), so the video is stored
  shortened and its old chunks are deleted. The empty details are kept in the cache of the runner
  (`details`), and every run that uses the cache has them again; an incremental run does
  not look at the video at all. `FullRunsShowContent` asks of such a video, and of one that
  came from the cache and has changed since, only that it is found; of every other document
  that it is found whole. A list, unlike details, that is refused fails the job, and
  taking it for empty is the mutant of `PublishedStaysFound`.
- `SyncsTakeEffect`, `AnswersAreOfLastSync`. A replacement takes several batches and the
  mark is written in the last, so an interrupted one hides its source until it is done
  again. The documentation's "partial rows written mid-replace are not searchable"
  (`docs/agents/project-context.md:98-101`) does not hold while two syncs of one source
  overlap, which the property excepts; a forced sync on its own repairs it. Answers are
  kept under the time of the last sync, so no purge is needed.

`content_reverted`: `other/resolve-compare-commit-sha.ts:6-7` says that the commit a refresh
compares with is the one "currently reflected by the live site". It always is the deployed
one: a push that changes content is refreshed, and one that takes the content back to that of
the deployed commit changes nothing against it, so the site goes on with the content that main
has left. The next push that changes that file, or a deployment, repairs it.

### Proofs

`ContentProofs` proves, for any values of the constants that satisfy the assumptions of the
modules:

| Theorem | Property | Rests on |
| --- | --- | --- |
| `ArtifactsTyped`, `DocumentsServed`, `CachesNeverMix` | `ArtifactsTypeOK`, `DocumentsAreServed`, `CachesDoNotMix` | `ArtifactsInv` |
| `CompileTyped`, `KeptDocumentsAreFit` | `CompileTypeOK`, `KeptDocumentsFit` | `CompileInv` |
| `WatcherTyped`, `EditsAreServed` | `WatcherTypeOK`, `DevServesEdits` | `WatcherInv` |
| `DeploymentsTyped`, `DeploymentsAreHonest`, `LiveIsMain` | `DeploymentsTypeOK`, `DeploymentsTellWhatIsLive`, `LiveFollowsMain` | `DeploymentsInv` |
| `IndexingIsTyped`, `StoresStayTogether`, `FullRunsAreEffective`, `NothingPublishedIsLost` | `IndexingTypeOK`, `StoresAgree`, `FullRunsShowContent`, `PublishedStaysFound` | `IndexingInv` |
| `SearchSyncTyped`, `SyncsAreEffective`, `AnswersAreFresh` | `SearchSyncTypeOK`, `SyncsTakeEffect`, `AnswersAreOfLastSync` | `SyncInv` |
| `ContentTyped`, `CompiledFits` | `ContentTypeOK`, `CompiledFitsItsText` | all of them, and `PartsAreTheirOwn` |

- *Artifacts*. `Loadable` is the set of versions that R2 has, which only grows. Whatever
  names a version (KV, an isolate, a worker, a reader, a publication past its upload) names
  a loadable one, and whatever is kept under a version was compiled for it
  (`CachesFit`, `CopiesFit`). A worker that misses a document of its version implies that some
  version lacks it, which is the exception of the property. The assumptions are
  `ArtifactsAssumption`, and that `None` is no payload and no worker (`NonePayload`, `NoneApp`).
- *Compilation* (`CompileAssumption`). `CompileFits` follows one compilation from its hash: with no edit
  since, the inputs are those of the hash, and after one they differ; a degraded embed has
  been counted before the count is compared. Both are needed for the comparison at the
  end to say anything.
- *Watcher* (`WatcherAssumption`). An article that the watcher answers for (no directory, not missed) is shown as
  it is, or something will still show it: the first compilation, the file system, the queue or a
  recompilation (`IsShown`); the two files agree except for what a stop would cut off
  (`FilesAgree`).
- *Deployments* (`DeploymentsAssumption`). A commit that was not pushed has no jobs (`JobsAreOfMain`). A job that is deploying is
  the one of the last record, and has put its build live before it can report a success
  (`LatestIsLive`). In a calm sequence only the jobs of the last push are under way, and
  each of their states says how far the site and the index have followed (`CalmFits`).
- *Indexing* (`IndexingAssumption`). `JobFits` and `DueFits` say what the job under way
  has read, `StoresFollow` where each store is between what was and what the job makes it;
  two lemmas compute the stores after the job's steps (`VectorsBecomeNext`, `LexicalBecomesNext`).
  What a full run has read of a document is what is published or the document is in
  `unread`, and of what is published it has read something (`JobFits`); what a push's job
  deletes is what the push took files from.
- *Synchronisation* (`SearchAssumption`). The parts are about one sync (`SyncsFit`), one
  that is alone (`SolosFit`, `SoloIsAlone`), and the rows of a marked source
  (`AloneIsComplete`, `LastIsCopied`); `StampsFit` says that no answer is kept under a time
  to come, which is why the time of the last sync is enough for a key.

## 7. The requests of the site

`MCSite` puts five of these modules and the recorder of section 4 beside each other, for
the run `site`; `MediaServing` is in the run `page_cache`, with the other caches.

| Module | State and code | Instance |
| --- | --- | --- |
| `AppCache` | `kv`, `edge`, `lru`: the value and the metadata of one key in KV, at the edge of each isolate (a minute), in the LRUs; `load`: the puts of a fresh value | two isolates, a life of two ticks, one failed put; isolates that store and edges that keep something are three at a time, and two after a put has failed (`StoresAreFew`) |
| `Accounts` | `verification`, `inbox`, `user`, `session`: the rows and the mail; `browser`: cookies; `asking`: the request of each browser between two statements; `shown`: what a replica may still show each browser, replaced passwords and a deleted session | two browsers, one address, two passwords, codes and sessions, one error; one of code, aged session, passkey and lag of the replicas at a time (`AccountsAreSmall`) |
| `ReaderRecords` | `kept`: rows by owner; `cookie`; `tab`: requests between two statements | two tabs, one homework item, one post, two client ids, two sign-ins, one failed statement; after it one request at a time (`TabsAreFew`) |
| `D1Sessions` | `commits`: of the primary; `bookmarkCookie`; `query`: requests with their bookmark and statements | one browser, two requests with two statements each, two of them at a time (`FewStatements`), two commits |
| `MediaServing` | `bucket`: the objects under the candidate keys of one id; `mediaEdge`: what is kept under each cache key; `fetch`: a request between two awaits | one request at a time beside two uploads, two units of size, one object and one kept answer (`MediaIsSmall`) |
| `RateLimits` | `limiter`, `window`: the windows of one limiter; `admitted`: for the property | each of the three limiters, two keys, two requests in three ticks, capacity for one window |

The constraints cut what is there at the same time, not the order of steps: two requests
still overlap at every point. `D1Sessions` needs two statements and two requests because
the order in which bookmarks come back is the question; `MediaServing` one request because
what the earlier ones did is in the edge and what the others do to it is an upload; the
limiter a capacity of one so that an eviction happens. Browsers, tabs, isolates, requests
and keys share their names, as do sessions, client ids, statements and questions; passwords are
alike: the permutations of these names (`Alike`) exchange nothing that an action or a
property tells apart.

What the properties say about the code:

- `OldValuesGo`. An entry is put as two halves, side by side and without an order, and an
  edge may keep one half longer than the other. An old value may hence get young metadata,
  but only once: it is not younger than its own life then, and KV drops it. The branch
  without the parent worker, which has one entry, is not modelled.
- `CodesGrantOnce`. Two requests may find and compare the same code; only the one whose
  delete takes the row has it accepted.
- `SessionsFitThePassword`. Sessions are deleted after the new password is stored; without
  that the sessions of the old password stay (the mutant). Three are left, and excepted
  (`overlapped`): one of a login that had verified the old password when the new one was
  stored and opened its session after the deletion; one of a login that began only after
  that, in a browser without a bookmark of the change, and was answered by a replica that
  had the old hash still (`d1-session-request.server.ts:66`,
  `d1-sql-executor.server.ts:202-207`); and those whose deletion failed twice. A request of the
  password form may likewise verify the replaced password, and a browser whose session was
  deleted may go on for as long as a replica has it (`SessionUser`). `ReplicasCatchUp`
  ends this for all browsers; a browser that opens a session has the bookmark of its own
  commit and is shown nothing older (`SignIn`). Passwords and sessions are the reads whose lag a
  property could notice. A code that a replica has too long is refused by the
  delete on the primary, and an account that it has too long by the foreign keys of what is
  written next. The other stale reads (a passkey or an expiry that has changed, an account that
  a replica does not have yet) are not modelled: sessions opened with a passkey are outside of
  the property, and who is not found is sent back.
- `AccountsHavePasswords`. Signing up creates the user and then the password; when the latter
  fails the user is deleted again. If the password could not be stored because a reset
  had stored one in the meantime, that account is deleted too.
- `NothingDoneIsLost`. Records are moved by client id in three statements. What is added
  between the read and the delete is deleted with the rest; a login or reset drops the client
  cookie although the move failed, where a signup keeps it; two first requests mint two ids; a
  passkey moves nothing. The property says what is safe: everything else. Reads of a device
  without a cookie are not recorded at all, since only completing homework sets it
  (`mark-as-read.tsx:45,85`; the documentation,
  `cloudflare-worker-architecture.md:500-501`, has it otherwise).
- `ReadsOwnWrites`. "read-your-writes" (`cloudflare-worker-architecture.md:241`) holds for
  statements after one another and requests after one another. Statements side by side, and
  requests that overlap, replace the bookmark by whichever comes back last.
- `MediaFitsTheRequest`. One kept answer serves all requests of its key. Slices of videos are
  not kept; the class of formats is in the key. Left out of the property: an object
  replaced between the awaits of one request, and a range whose end is beyond the object,
  for which `parseByteRange` (353-377) claims more than there is (and which is an error
  when its beginning is). Replaced objects stay at the edges for as long as a year, and a PNG
  with a typed metadata becomes a JPEG for clients that take neither WebP nor AVIF.
- `LimitsHold`. The comments of two limiters call their windows sliding
  (`dynamic/rate-limiting.ts:2`, `parent-rate-limit.ts:2`); they are fixed. What holds is
  the bound of fixed windows: one less than twice the limit in any interval of their
  length, for a key whose entry is not evicted. The windows of the dynamic limiter
  are never swept.

### Proofs

| Theorem | Property | Rests on |
| --- | --- | --- |
| `CacheTypeCorrect`, `AgeCorrect` | `CacheTypeOK`, `OldValuesGo` | `KvFits`, `EdgesFit`, `LrusFit`, `LoadsFit` |
| `AccountsTypeCorrect` | `AccountsTypeOK` | `CodesFit`, `UsersFit`, `SessionTypes`, `BrowserTypes`, `RequestsFit` |
| `CodesCorrect` | `CodesGrantOnce` | `CodesFit` |
| `SessionsCorrect` | `SessionsFitThePassword` | `SessionsOwned`, `SigningFits` |
| `PasswordsCorrect` | `AccountsHavePasswords` | `UsersFit`, `RequestsFit` |
| `D1TypeCorrect`, `ReadsCorrect` | `D1TypeOK`, `ReadsOwnWrites` | `QueryFits`, `BrowserFits` |
| `RecordsTyped`, `RecordsFollow` | `RecordsTypeOK`, `NothingDoneIsLost` | `TabFits`, `ReportFits`, `OverlapsKnown`, `UnmovedIsFollowed` |
| `LimitsTyped`, `LimitsBound` | `LimitsTypeOK`, `LimitsHold` | `KeyFits` |
| `MediaTyped`, `MediaFits` | `MediaTypeOK`, `MediaFitsTheRequest` | `KeptAnswerFits`, `FetchFits` |
| `SiteTyped` | `SiteTypeOK` | the types of the six parts, and `SitePartsAreTheirOwn` |

`AppCacheProofs` is for any isolates, lives and failures (`TtlAssumption`,
`SlipsAssumption`). In KV a half is as old as its put, and expires; at an edge it is a minute
older at most; in an LRU the value is at most one life and a minute older than the metadata,
and the entry goes when the metadata's life ends. Together: two lives and a minute.

`AccountsProofs` is for any sets of addresses, users, passwords, codes, sessions and
browsers (`CodesAssumption`, `PasskeyAssumption`, `ErrorsAssumption`,
`AbsentAssumption`). The parts are inductive only together. A session has a user as long
as it exists (`SessionsOwned`), because a user id is not minted while something names it. A
request that will open a session holds the password of the moment, was overlapped when
another one was stored, or has lost its user (`HoldsPassword`, for all requests
`SigningFits`); without it the step that opens the session could be of any password. A
login that a replica let in counts as overlapped from its beginning, so this holds of it as well,
and `ShownTypes` keeps what the replicas may show to users and passwords that there are. A
code that is still there has granted nothing (`CodesFit`), which is why the deletion that
succeeds is the only one to grant.

`D1SessionsProofs` is for any browsers, requests and statements and any bound on commits
(`CommitsAssumption`). The bookmark of a request is never behind what it has to see, and a
statement carries at least that (`QueryFits`); the cookie is never behind what its browser
is owed, nor is what any request under way has to see, and a request that is alone still
finds the cookie it came with (`BrowserFits`).

`SiteProofs` has the rest, but for media. Of the records (any tabs, clients, items
and posts, `ReaderAssumption`): a request knows of the sign-ins and first requests that it
overlaps (`OverlapsKnown`), and one that overlaps none still acts for the device as it is
(`ReportFits`); what is the device's and not yet the user's is under the client id of the
cookie, and every sign-in under way has yet to move it (`UnmovedIsFollowed`).

Of the limits (any keys, limits, lengths and capacities, `LimitsAssumption`, `NoneWindow`): a window that
is open has counted what was granted since it opened; its own first request is among that, and
before it there is one less than a limit, because the first request of the window before has
become too old (`KeyFits`). When a window ends its first request goes out of reach with
that very tick, so one less than a limit is left, which is what the next window starts
with. An entry that is swept by the parent is over, and one that the LRU cache drops takes what
it granted with it. `Grants` tells the grants of a history as a set, so that their number is a
cardinality; a sum over the ticks would need an induction over data.

Of the media (`PageCacheProofs`; any objects and sizes, `MediaAssumption`): what the edge keeps is whole,
and in a format that every request of its key takes (`KeptAnswerFits`); the class of
formats is part of the key, which is what `TakesByKey` needs.

## 8. What is not proved, and what is not modelled

Every safety property that a passing run checks is also a theorem. Only model-checked are the
liveness properties (`JobsSettle`, `AudioEnds`, `CurrentContentInTheEnd`,
`PublishedInTheEnd`): they rest on fairness, hence on ENABLED, which the prover does not
reach. What the four runs that expect a
violation find are behaviours, which TLC shows. Nothing is proved about what a definition by recursion
or a fold computes; the modules with theorems have none.

The proofs assume no more about the constants than the named assumptions of the modules, which
TLC evaluates in every run; sets of names may be infinite where the assumptions allow it.

Not modelled, because they keep no state that several actors change and unit tests reach
them:

- the request pipeline: redirects, headers, negotiation, the loading of a dynamic worker
  (its caches are in `MdxArtifacts`);
- podcast feeds, and the rendering of blog, MDX and pages: data processing behind the
  application cache;
- the presentation of search results and of suggestions: scores of one request. (Its
  `noCloseMatches` cannot become true in the service: the best fused score is at least 1/61,
  above the threshold of 0.013.);
- OAuth and MCP, which configure a library; Discord and email, which call services;
- the pages and components, but for the recorder; mocks, tests and tools.

Left out of the modelled parts, beside the abstractions named in each section: rows of
the transcription from before the queue existed, and the cron's page of 50 rows; the
search, OAuth and audio workers in the deployment plan; articles that appear or go
while the watcher runs; favourites; CDN behaviour beyond what a kept answer is. The API of
Transistor is read in pages, one read here. That a NAS run does not trigger a sync, and the
vectors of documents that an ignore list covers after they were indexed
(`other/semantic-search/readme.md`), are outside of what `StoresAgree` compares.

Of the indexing jobs: a list that a service answers counts as complete, so an answer of 200
that lacks entries (a YouTube page whose renderers are missing or say `isPlayable: false`,
a `talks.yml` that does not parse as a list) takes what it lacks for removed, as the job does with
pruning. The options `--only`, `--videos`, `--only-videos`, `--max-videos` and `--dry-run` of a
person, who then indexes less than everything, are not modelled. GitHub's runner starts with an
empty cache, which is the run without one; the cache of the NAS stays. Entries
that were written to that cache by a job that is lost while it still reads are left out. A push
that adds or changes a file beside an article whose `index.mdx` is not there fails its job
before anything is written: it is like a job that is lost.
