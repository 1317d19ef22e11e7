-------------------------- MODULE TranscriptRequests --------------------------
(***************************************************************************)
(* What the transcription queue promises the people who use it, with no    *)
(* queue, lease, cron or crash in sight.  A row has at most one open        *)
(* question, the job that was asked for last; the machinery may put down a *)
(* text of that job, answer it or give it up, and nothing else.            *)
(***************************************************************************)
CONSTANTS Ids, Drafts, Jobs, None, Manual

VARIABLES
  asked,  \* the open job of each row
  text    \* who made the text of each row

promised == <<asked, text>>

Init == asked = [i \in Ids |-> None] /\ text = [i \in Ids |-> None]

\* A person asks: the new job is nobody else's, and it supersedes the old one.
\* The text stays, unless the draft is a new one.
Ask(i) ==
  /\ \E j \in Jobs : /\ \A n \in Ids : asked[n] # j /\ text[n] # j
                     /\ asked' = [asked EXCEPT ![i] = j]
  /\ \/ UNCHANGED text
     \/ i \in Drafts /\ text' = [text EXCEPT ![i] = None]

\* A person types the text, or empties it; only a draft's question stays open.
Type(i) ==
  /\ \E t \in {Manual, None} : text' = [text EXCEPT ![i] = t]
  /\ \/ asked' = [asked EXCEPT ![i] = None]
     \/ i \in Drafts /\ UNCHANGED asked

\* A call is removed with its draft, or a draft alone.
Remove(S) ==
  /\ asked' = [i \in Ids |-> IF i \in S THEN None ELSE asked[i]]
  /\ text' = [i \in Ids |-> IF i \in S THEN None ELSE text[i]]

\* The machinery notes a text for the open question of a draft.
Note(i) ==
  /\ asked[i] # None /\ i \in Drafts
  /\ text' = [text EXCEPT ![i] = asked[i]]
  /\ UNCHANGED asked

\* The open question is answered: by its own text, or for a draft by the text
\* that is already there.
Answer(i) ==
  /\ asked[i] # None
  /\ \/ text' = [text EXCEPT ![i] = asked[i]]
     \/ i \in Drafts /\ text[i] \in {asked[i], Manual} /\ UNCHANGED text
  /\ asked' = [asked EXCEPT ![i] = None]

GiveUp(i) ==
  /\ asked[i] # None
  /\ asked' = [asked EXCEPT ![i] = None]
  /\ UNCHANGED text

Next ==
  \/ \E i \in Ids : Ask(i) \/ Type(i) \/ Note(i) \/ Answer(i) \/ GiveUp(i)
  \/ \E c \in {i[2] : i \in Ids} : Remove({i \in Ids : i[2] = c})
  \/ \E i \in Drafts : Remove({i})

Spec == Init /\ [][Next]_promised
=============================================================================
