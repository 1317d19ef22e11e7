------------------- MODULE CallKentTranscriptionProperties -------------------
(***************************************************************************)
(* What the transcription queue must guarantee, stated over the model of   *)
(* CallKentTranscription.                                                  *)
(***************************************************************************)
EXTENDS CallKentTranscription

\* A consumer moves or a dispatcher ends: no request handler wrote in this step.
QueueSide == worker' # worker \/ ~(dispatch \subseteq dispatch')

Working(w) == worker[w].pc \in Processing

\* Every variable holds a value of its kind: rows, messages, consumers and
\* dispatches have the fields of the schema and of the payloads.
TypeOK ==
  /\ row \in [Ids -> Row]
  /\ queue \subseteq Messages
  /\ worker \in [Workers -> Worker]
  /\ dispatch \subseteq Dispatches
  /\ faults \in 0..MaxFaults

\* A consumer that works under a lease which has not run out keeps it: whatever
\* is delivered twice, retried or dispatched again, no other step of the queue's
\* side takes or clears the lease, so two consumers never process one job
\* within the twenty minutes of a claim.
UnexpiredLeaseIsKept ==
  [][\A w \in Workers :
       LET i == worker[w].id IN
       QueueSide /\ Working(w) /\ Owns(w) /\ row[i].left > 0
         /\ worker'[w] = worker[w]
       => row'[i].lease = row[i].lease]_vars

\* A transcript that is READY for a job was made by that job: a consumer of an
\* earlier job, slow or retried, never gets its text into the row after
\* the job was superseded.  A READY call without a job has a person's text.
ReadyTextIsOfCurrentJob ==
  \A i \in Ids : row[i].status = "READY" =>
    /\ row[i].text # None
    /\ IF IsDraft(i) THEN row[i].text \in {row[i].job, Manual}
       ELSE row[i].text = (IF row[i].job = None THEN Manual ELSE row[i].job)

\* The transcription of a draft begins only after its audio exists: no consumer
\* owns, and no message or dispatch names, a draft that still waits for
\* the audio worker (the cron leaves those drafts alone).
NoWorkBeforeAudio ==
  \A i \in Ids : row[i].status = "PROCESSING" /\ row[i].step = "AUDIO" =>
    /\ row[i].lease = None
    /\ \A m \in queue : m.id = i => m.job # row[i].job
    /\ \A d \in dispatch :
         d.id = i /\ d.stage # "audio" => d.job # row[i].job

\* Once a row is settled (READY, ERROR, emptied or deleted), the queue's side
\* writes nothing into it but the release of a lease: late consumers, duplicate
\* deliveries and the cron change neither its status nor its texts.
SettledRowsStay ==
  [][\A i \in Ids :
       QueueSide /\ row[i].status # "PROCESSING" =>
         row'[i] = [row[i] EXCEPT !.lease = row'[i].lease,
                                  !.left = row'[i].left, !.age = row'[i].age]]_vars

\* What the admin typed into a draft survives its processing: "skip if already
\* present" (call-kent-episode-draft.server.ts:45).  It does not hold: the code
\* looks at the draft it read first, and overwrites a transcript or metadata
\* that a form still open on the previous draft saved in the meantime.
TypedDraftSurvives ==
  [][\A i \in Ids :
       QueueSide /\ IsDraft(i) =>
         /\ row[i].text = Manual => row'[i].text = Manual
         /\ row[i].meta = "edited" => row'[i].meta = "edited"]_vars

Awaiting(i, j) ==
  Awaits(i, j) /\ (IsDraft(i) => row[i].step # "AUDIO")

\* A job that was asked for is settled or superseded in the end, whichever crash
\* keeps its lease, loses its message or its dispatch: the redelivery of a
\* crashed consumer's message is acknowledged because the lease is still there,
\* so it is the cron that brings the job back.
JobSettles(i, j) == Awaiting(i, j) ~> ~Awaiting(i, j)

\* The queue with all its retries, leases and recoveries keeps the promise of
\* TranscriptRequests: every text it puts down belongs to the job open at that
\* moment, an open job is closed once, and a text a person left is not touched
\* after the question was closed.
Promise == INSTANCE TranscriptRequests WITH
  Drafts <- {i \in Ids : IsDraft(i)},
  asked <- [i \in Ids |->
              IF row[i].status = "PROCESSING" THEN row[i].job ELSE None],
  text <- [i \in Ids |-> row[i].text]

KeepsPromise == Promise!Spec
=============================================================================
