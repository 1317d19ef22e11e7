---------------------- MODULE CallKentEpisodeProperties ----------------------
(***************************************************************************)
(* What the way from a call to an episode must guarantee, stated over      *)
(* CallKentEpisode.                                                        *)
(***************************************************************************)
EXTENDS CallKentEpisode

\* Every variable holds a value of its kind.
TypeOK ==
  /\ call \in {"there", "deleted", "published"} /\ recording \in BOOLEAN
  /\ draft \in [Drafts -> Draft]
  /\ blobs \subseteq Drafts \X Kinds
  /\ handler \in [Admins -> Handler]
  /\ queue \subseteq Messages
  /\ worker \in [Consumers -> Consumer]
  /\ late \subseteq Callbacks
  /\ episodes \subseteq Episodes /\ recorded \subseteq episodes
  /\ abandoned \subseteq Drafts
  /\ faults \in 0..MaxFaults

\* A request has read draft d, has removed its objects and is about to delete
\* its row.
Removes(a, d) == handler[a].pc = "dropping" /\ handler[a].draft = d

\* What a row names is in the bucket, whichever requests, uploads and callbacks
\* overlap: the call's recording as long as there is a call, and a draft's
\* objects unless a removal of that very draft is under way or stopped half
\* way.  Objects are removed under the names that a request read some time ago,
\* and a late clean-up or retry must not reach the objects of a newer draft.
AudioIsThere ==
  /\ call = "there" => recording
  /\ \A d \in Rows : \A k \in draft[d].keys :
       \/ ObjectOf(d, k) \in blobs
       \/ d \in abandoned
       \/ \E a \in Admins : Removes(a, d)

\* Where a draft may go from each status, other than being removed.
After == [AUDIO        |-> {"TRANSCRIBING", "ERROR"},
          TRANSCRIBING |-> {"READY", "ERROR"},
          READY        |-> {},
          ERROR        |-> {}]

\* A draft only moves forward, and READY and ERROR are final: not even a
\* callback that comes late or twice, the handler that writes the step, or the
\* catch of a handler whose job was queued after all, takes it back.
DraftsMoveForward ==
  [][\A d \in Rows :
       draft'[d].status \in {draft[d].status, "ABSENT"} \cup
                            After[draft[d].status]]_vars

\* All of it is one life of a call at a time, as CallLife tells it: requests that
\* overlap, repeated and late callbacks, crashes and retries give the call no second
\* draft, no draft an audio without its response, no transcript before its audio, and
\* no end other than deletion or a recorded episode.
Life == INSTANCE CallLife
KeepsToLife == Life!Spec

\* An episode that Transistor has is recorded, or the request that made it is
\* about to record it, or a fault came between.  In particular a request whose
\* call has been deleted or published in the meantime still records its own.
EpisodesAreAccountedFor ==
  Cardinality(episodes \ (recorded \cup {handler[a].episode : a \in Admins}))
    <= faults

\* A draft does not wait for its audio for ever, provided that no request handler
\* stops half way and that faults are fewer than deliveries: the worker answers,
\* or the queue brings the message back, or the handler's catch ends the draft.
AudioEnds ==
  \A d \in Drafts : draft[d].status = "AUDIO" ~> draft[d].status # "AUDIO"

\* "Draft recovery is limited to transcription/metadata steps with generated
\* episode or segment audio; audio-generation jobs remain owned by their separate
\* queue" (docs/agents/cloudflare-worker-architecture.md:365-367).  It does not
\* hold: the row is created with step STARTED before the job is queued, and a
\* handler that stops in between leaves a draft that nothing owns.
AudioDraftsAreOwned ==
  \A d \in Rows : draft[d].status = "AUDIO" =>
    \/ \E a \in Admins : handler[a].draft = d
    \/ \E m \in queue : m.draft = d
    \/ \E w \in Consumers : worker[w].draft = d
    \/ \E c \in late : c.draft = d
=============================================================================
