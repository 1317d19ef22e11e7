------------------------------- MODULE CallLife -------------------------------
(***************************************************************************)
(* What becomes of a call, with no request, object, queue, consumer or     *)
(* callback in sight.  It has one draft at a time, which gets its          *)
(* response, then its audio, then its transcript, or ends in an error; the *)
(* admin may drop it at any time; and the call is deleted, or closed with  *)
(* a recorded episode, and takes its draft with it.                        *)
(***************************************************************************)
CONSTANTS Drafts, Episodes

VARIABLES
  call,      \* there, deleted, or published
  draft,     \* how far each draft is, and what it has in the bucket
  recorded   \* the episodes of the call

life == <<call, draft, recorded>>

Absent == [status |-> "ABSENT", keys |-> {}]
NoDrafts == [d \in Drafts |-> Absent]

Init == call = "there" /\ draft = NoDrafts /\ recorded = {}

\* Draft d goes from what it is to what it becomes, and nothing else happens.
Becomes(d, before, after) ==
  /\ draft[d] = before
  /\ draft' = [draft EXCEPT ![d] = after]
  /\ UNCHANGED <<call, recorded>>

\* The call is still there and has no other draft.
Begin(d) ==
  /\ call = "there" /\ draft = NoDrafts
  /\ Becomes(d, Absent, [status |-> "AUDIO", keys |-> {}])

Respond(d) ==
  Becomes(d, [status |-> "AUDIO", keys |-> {}],
             [status |-> "AUDIO", keys |-> {"response"}])

\* Only a draft with its response gets its audio, and only one that has both its
\* transcript: what is READY has everything that publishing needs.
Voice(d) ==
  Becomes(d, [status |-> "AUDIO", keys |-> {"response"}],
             [status |-> "TRANSCRIBING", keys |-> {"response", "episode"}])

Transcribe(d) ==
  Becomes(d, [status |-> "TRANSCRIBING", keys |-> {"response", "episode"}],
             [status |-> "READY", keys |-> {"response", "episode"}])

GiveUp(d) ==
  /\ draft[d].status \in {"AUDIO", "TRANSCRIBING"}
  /\ Becomes(d, draft[d], [status |-> "ERROR", keys |-> draft[d].keys])

Drop == draft' = NoDrafts /\ UNCHANGED <<call, recorded>>

Record(e) == recorded' = recorded \cup {e} /\ UNCHANGED <<call, draft>>

Close(how) ==
  /\ call = "there"
  /\ how = "published" => recorded # {}
  /\ call' = how /\ draft' = NoDrafts
  /\ UNCHANGED recorded

Next ==
  \/ \E d \in Drafts :
       Begin(d) \/ Respond(d) \/ Voice(d) \/ Transcribe(d) \/ GiveUp(d)
  \/ Drop
  \/ \E e \in Episodes : Record(e)
  \/ \E how \in {"deleted", "published"} : Close(how)

Spec == Init /\ [][Next]_life
=============================================================================
