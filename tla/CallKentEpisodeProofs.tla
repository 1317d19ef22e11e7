------------------------ MODULE CallKentEpisodeProofs ------------------------
(***************************************************************************)
(* Type correctness of the way from a call to an episode, the presence of  *)
(* the audio that rows name, the accounting of episodes, the direction in  *)
(* which drafts move, and the refinement of CallLife, for any drafts,      *)
(* requests, consumers and faults.                                         *)
(***************************************************************************)
EXTENDS CallKentEpisodeProperties, FiniteSetTheorems, TLAPS

-----------------------------------------------------------------------------
(* The inductive invariant, one part for each kind of fact.                *)

\* A request that has a draft of its own: it makes it, or makes excuses for it.
Making(a) == handler[a].pc \in {"storing", "keying"}
Owning(a) == handler[a].pc \in {"storing", "keying", "requesting"}
Holding(a) == handler[a].pc \in {"storing", "keying", "requesting", "excusing"}

\* The audio side knows draft d: a message, a consumer or a late callback.
Queued(d) == \E m \in queue : m.draft = d
Worked(d) == \E w \in Consumers : worker[w].draft = d
Delayed(d) == \E c \in late : c.draft = d
Known(d) == Queued(d) \/ Worked(d) \/ Delayed(d)

\* A callback that says that the episode of draft d has been made.
Announced(d) ==
  \/ \E w \in Consumers : worker[w].pc = "completing" /\ worker[w].draft = d
  \/ \E c \in late : c.draft = d /\ c.event = "completed"

HandlerFits(h, made) ==
  /\ h \in Handler
  /\ h.pc \in {"storing", "keying", "requesting", "excusing", "fetching",
               "producing", "recording", "closing"} => h.draft # None
  /\ h.pc = "recording" => h.episode \in made
  /\ h.pc # "recording" => h.episode = None

WorkerFits(x) == x \in Consumer /\ (x.pc # "idle" => x.draft # None)

HandlersFit ==
  /\ handler \in [Admins -> Handler]
  /\ \A a \in Admins : HandlerFits(handler[a], episodes)

AudioFits ==
  /\ queue \subseteq Messages
  /\ late \subseteq Callbacks
  /\ worker \in [Consumers -> Consumer]
  /\ \A w \in Consumers : WorkerFits(worker[w])

DataFit ==
  /\ call \in {"there", "deleted", "published"} /\ recording \in BOOLEAN
  /\ draft \in [Drafts -> Draft]
  /\ blobs \subseteq Drafts \X Kinds
  /\ episodes \subseteq Episodes /\ recorded \subseteq episodes
  /\ abandoned \subseteq Drafts
  /\ faults \in 0..MaxFaults

\* A draft needs its call, and a recording goes after its call.
CallFits ==
  /\ call = "there" => recording
  /\ call # "there" => Rows = {}
  /\ \A a \in Admins : handler[a].pc = "cleaning" => call # "there"

\* What a request has read of a draft that is still there is still in its row.
KeysFit ==
  \A a \in Admins, d \in Rows :
    handler[a].draft = d => handler[a].keys \subseteq draft[d].keys

\* A request that is about to make a draft holds nothing of another.
CreatorsFit == \A a \in Admins : handler[a].pc = "creating" => handler[a].keys = {}

\* Before its audio is requested a draft belongs to the one request that made it.
OwnersFit ==
  /\ \A a, b \in Admins :
       Holding(a) /\ Holding(b) /\ handler[a].draft = handler[b].draft => a = b
  /\ \A a \in Admins, d \in Drafts :
       Owning(a) /\ handler[a].draft = d =>
         /\ ~Known(d)
         /\ draft[d].status \in {"ABSENT", "AUDIO"}

\* A draft that is being made names nothing yet, and its response is in place
\* before it is named.
MakingFits ==
  \A a \in Admins, d \in Rows :
    Making(a) /\ handler[a].draft = d =>
      /\ draft[d].keys = {}
      /\ handler[a].pc = "keying" => ObjectOf(d, "response") \in blobs

\* A draft that waits for its episode does not name it, and has it in the
\* bucket once somebody says so.
VoicesFit ==
  \A d \in Drafts :
    draft[d].status = "AUDIO" =>
      /\ "episode" \notin draft[d].keys
      /\ Announced(d) => ObjectOf(d, "episode") \in blobs

\* What a row names is there, or on its way out.
ObjectsFit ==
  \A d \in Rows : \A k \in draft[d].keys :
    \/ ObjectOf(d, k) \in blobs
    \/ d \in abandoned
    \/ \E a \in Admins : Removes(a, d)

\* The episodes that nothing accounts for are no more than the faults.
Unrecorded == episodes \ (recorded \cup {handler[a].episode : a \in Admins})

CountFits == IsFiniteSet(Unrecorded) /\ Cardinality(Unrecorded) <= faults

IInv ==
  /\ HandlersFit /\ AudioFits /\ DataFit
  /\ CallFits /\ KeysFit /\ OwnersFit /\ MakingFits /\ VoicesFit /\ ObjectsFit
  /\ CreatorsFit /\ CountFits

\* What a request may hold of the drafts that are in rows.
ReadFits(x) == x.draft \in Rows => x.keys \subseteq draft[x.draft].keys

Writes(a, x) == handler' = [handler EXCEPT ![a] = x]

-----------------------------------------------------------------------------
(* Finite counts.                                                          *)

LEMMA NatFaults ==
  ASSUME DataFit
  PROVE  faults \in Nat
BY FaultsAssumption DEF DataFit

LEMMA FaultFits ==
  ASSUME DataFit, UNCHANGED faults \/ Fault
  PROVE  faults' \in 0..MaxFaults /\ faults <= faults'
BY FaultsAssumption DEF DataFit, Fault

LEMMA CountStays ==
  ASSUME DataFit, CountFits, UNCHANGED faults \/ Fault, Unrecorded' \subseteq Unrecorded
  PROVE  CountFits'
<1>1. IsFiniteSet(Unrecorded') /\ Cardinality(Unrecorded') <= Cardinality(Unrecorded)
  BY FS_Subset DEF CountFits
<1>2. Cardinality(Unrecorded') \in Nat /\ Cardinality(Unrecorded) \in Nat
  BY <1>1, FS_CardinalityType DEF CountFits
<1>3. faults' \in Nat /\ faults \in Nat /\ faults <= faults'
  BY FaultFits, NatFaults, FaultsAssumption
<1>4. Cardinality(Unrecorded) <= faults
  BY DEF CountFits
<1>5. Cardinality(Unrecorded') <= faults'
  BY <1>1, <1>2, <1>3, <1>4
<1> QED
  BY <1>1, <1>5 DEF CountFits

LEMMA CountGrows ==
  ASSUME DataFit, CountFits, Fault, NEW e, Unrecorded' \subseteq Unrecorded \cup {e}
  PROVE  CountFits'
<1> DEFINE more == Unrecorded \cup {e}
<1>1. IsFiniteSet(more) /\ Cardinality(more) <= Cardinality(Unrecorded) + 1
  <2>1. IsFiniteSet(Unrecorded) /\ Cardinality(Unrecorded) \in Nat
    BY FS_CardinalityType DEF CountFits
  <2>2. IsFiniteSet(more) /\ (Cardinality(more) = Cardinality(Unrecorded)
                              \/ Cardinality(more) = Cardinality(Unrecorded) + 1)
    BY <2>1, FS_AddElement
  <2> QED
    BY <2>1, <2>2
<1>2. IsFiniteSet(Unrecorded') /\ Cardinality(Unrecorded') <= Cardinality(more)
  BY <1>1, FS_Subset
<1>3. /\ Cardinality(Unrecorded') \in Nat /\ Cardinality(more) \in Nat
      /\ Cardinality(Unrecorded) \in Nat
  BY <1>1, <1>2, FS_CardinalityType DEF CountFits
<1>4. faults' = faults + 1 /\ faults \in Nat
  BY NatFaults DEF Fault
<1>5. Cardinality(Unrecorded) <= faults
  BY DEF CountFits
<1>6. Cardinality(Unrecorded') <= faults'
  BY <1>1, <1>2, <1>3, <1>4, <1>5
<1> QED
  BY <1>2, <1>6 DEF CountFits

\* A request that has no episode in hand changes no account.
LEMMA CountKept ==
  ASSUME IInv, NEW a \in Admins, NEW x, handler[a].pc # "recording",
         Writes(a, x), UNCHANGED published, UNCHANGED faults \/ Fault
  PROVE  CountFits'
<1>1. handler \in [Admins -> Handler] /\ handler[a].episode = None
  BY DEF IInv, HandlersFit, HandlerFits
<1>2. None \notin episodes
  BY NoneAssumption DEF IInv, DataFit
<1>3. \A b \in Admins : b # a => handler'[b].episode = handler[b].episode
  BY <1>1 DEF Writes
<1>4. Unrecorded' \subseteq Unrecorded
  BY <1>1, <1>2, <1>3 DEF Unrecorded, published
<1> QED
  BY <1>4, CountStays DEF IInv

LEMMA CountUntouched ==
  ASSUME IInv, UNCHANGED <<handler, published>>, UNCHANGED faults \/ Fault
  PROVE  CountFits'
<1>1. Unrecorded' = Unrecorded
  BY DEF Unrecorded, published
<1> QED
  BY <1>1, CountStays DEF IInv

-----------------------------------------------------------------------------
(* Steps of one kind.                                                      *)

LEMMA HandlerWritten ==
  ASSUME IInv, NEW a \in Admins, NEW x, HandlerFits(x, episodes'), Writes(a, x),
         episodes \subseteq episodes'
  PROVE  /\ HandlersFit'
         /\ \A b \in Admins : handler'[b] = IF b = a THEN x ELSE handler[b]
<1>1. handler \in [Admins -> Handler] /\ x \in Handler
  BY DEF IInv, HandlersFit, HandlerFits
<1>2. \A b \in Admins : handler'[b] = IF b = a THEN x ELSE handler[b]
  BY <1>1 DEF Writes
<1>3. \A b \in Admins : HandlerFits(handler'[b], episodes')
  BY <1>2 DEF IInv, HandlersFit, HandlerFits
<1> QED
  BY <1>1, <1>2, <1>3 DEF HandlersFit, Writes

\* A request reads, calls Transistor or stops: rows, objects and audio stay.
LEMMA HandlerMoves ==
  ASSUME IInv, NEW a \in Admins, NEW x, HandlerFits(x, episodes'), Writes(a, x),
         UNCHANGED <<caller, draft, blobs, audio>>, DataFit', CountFits',
         episodes \subseteq episodes', abandoned \subseteq abandoned',
         handler[a].pc = "dropping" => handler[a].draft \in abandoned' \cup {None},
         x.pc \notin {"storing", "keying", "requesting", "excusing", "cleaning",
                      "creating"},
         ReadFits(x)
  PROVE  IInv'
<1>1. /\ HandlersFit'
      /\ \A b \in Admins : handler'[b] = IF b = a THEN x ELSE handler[b]
  BY HandlerWritten
<1>2. Rows' = Rows
  BY DEF Rows
<1>3. AudioFits'
  BY DEF audio, AudioFits, IInv
<1>4. CallFits'
  BY <1>1, <1>2 DEF caller, CallFits, IInv
<1>5. KeysFit'
  BY <1>1, <1>2 DEF KeysFit, ReadFits, IInv
<1>6. OwnersFit'
  BY <1>1 DEF OwnersFit, Holding, Owning, Known, Queued, Worked, Delayed, audio, IInv
<1>7. MakingFits'
  BY <1>1, <1>2 DEF MakingFits, Making, IInv
<1>8. VoicesFit'
  BY DEF VoicesFit, Announced, audio, IInv
<1>9. ObjectsFit'
  <2> SUFFICES ASSUME NEW d \in Rows, NEW k \in draft[d].keys,
                      ObjectOf(d, k) \notin blobs, d \notin abandoned'
               PROVE  \E b \in Admins : Removes(b, d)'
    BY <1>2 DEF ObjectsFit
  <2>1. PICK b \in Admins : Removes(b, d)
    BY DEF ObjectsFit, IInv
  <2>2. d # None
    BY NoneAssumption DEF Rows
  <2>3. b # a
    BY <2>1, <2>2 DEF Removes
  <2> QED
    BY <1>1, <2>1, <2>3 DEF Removes
<1>10. CreatorsFit'
  BY <1>1 DEF CreatorsFit, IInv
<1> QED
  BY <1>1, <1>3, <1>4, <1>5, <1>6, <1>7, <1>8, <1>9, <1>10 DEF IInv

\* The rows of the call go.
LEMMA RowsRemoved ==
  ASSUME IInv, NEW a \in Admins, NEW x, HandlerFits(x, episodes'), Writes(a, x),
         Rows' = {}, draft' \in [Drafts -> Draft],
         UNCHANGED <<recording, blobs, audio, published, abandoned, faults>>,
         call' \in {"there", "deleted", "published"},
         call' = "there" => call = "there",
         x.pc \notin {"storing", "keying", "requesting", "excusing"},
         x.pc = "cleaning" => call' # "there",
         x.pc = "creating" => x.keys = {},
         handler[a].pc # "recording"
  PROVE  IInv'
<1>1. /\ HandlersFit'
      /\ \A b \in Admins : handler'[b] = IF b = a THEN x ELSE handler[b]
  BY HandlerWritten DEF published
<1>2. \A d \in Drafts : draft'[d].status = "ABSENT"
  BY DEF Rows
<1>3. AudioFits'
  BY DEF audio, AudioFits, IInv
<1>4. DataFit'
  BY DEF DataFit, published, IInv
<1>5. CallFits'
  BY <1>1 DEF CallFits, IInv
<1>6. KeysFit' /\ MakingFits' /\ ObjectsFit'
  BY DEF KeysFit, MakingFits, ObjectsFit
<1>7. OwnersFit'
  BY <1>1, <1>2
  DEF OwnersFit, Holding, Owning, Known, Queued, Worked, Delayed, audio, IInv
<1>8. VoicesFit'
  BY <1>2 DEF VoicesFit
<1>9. CountFits'
  BY CountKept
<1>10. CreatorsFit'
  BY <1>1 DEF CreatorsFit, IInv
<1> QED
  BY <1>1, <1>3, <1>4, <1>5, <1>6, <1>7, <1>8, <1>9, <1>10 DEF IInv

\* Where the audio side may take row d: on from AUDIO with the objects it names,
\* or to the end of the transcription, never a draft that is being made.
Advances(d) ==
  /\ d \in Rows
  /\ \A a \in Admins : Owning(a) => handler[a].draft # d
  /\ draft'[d].status \notin {"ABSENT", "AUDIO"}
  /\ draft[d].keys \subseteq draft'[d].keys
  /\ \A k \in draft'[d].keys \ draft[d].keys : ObjectOf(d, k) \in blobs'

\* A step of the queue, a consumer, a callback or the transcription.
LEMMA AudioMoves ==
  ASSUME IInv, AudioFits', DataFit', UNCHANGED <<caller, handler, published, abandoned>>,
         UNCHANGED faults \/ Fault,
         blobs \subseteq blobs',
         \A d \in Drafts : Known(d)' => Known(d),
         \A d \in Drafts : Announced(d)' =>
           Announced(d) \/ ObjectOf(d, "episode") \in blobs',
         \A d \in Drafts : draft'[d] = draft[d] \/ Advances(d)
  PROVE  IInv'
<1>1. Rows' = Rows
  BY DEF Rows, Advances
<1>2. HandlersFit'
  BY DEF HandlersFit, HandlerFits, published, IInv
<1>3. CallFits'
  BY <1>1 DEF CallFits, caller, IInv
<1>4. \A d \in Rows : d \in Drafts /\ draft[d].keys \subseteq draft'[d].keys
  BY DEF Advances, Rows
<1>5. KeysFit'
  BY <1>1, <1>4 DEF KeysFit, IInv
<1>6. OwnersFit'
  BY DEF OwnersFit, Holding, Owning, Advances, IInv
<1>7. MakingFits'
  BY <1>1, <1>4 DEF MakingFits, Making, Owning, Advances, IInv
<1>8. VoicesFit'
  BY DEF VoicesFit, Advances, IInv
<1>9. ObjectsFit'
  BY <1>1, <1>4 DEF ObjectsFit, Removes, Advances, IInv
<1>10. CountFits' /\ CreatorsFit'
  BY CountUntouched DEF CreatorsFit, IInv
<1> QED
  BY <1>2, <1>3, <1>5, <1>6, <1>7, <1>8, <1>9, <1>10 DEF IInv

-----------------------------------------------------------------------------
(* The requests that read, publish or stop.                                *)

LEMMA NoRequestFits ==
  /\ HandlerFits(NoRequest, episodes) /\ HandlerFits(NoRequest, episodes')
  /\ ReadFits(NoRequest)
BY DEF NoRequest, HandlerFits, Handler, Intents, ReadFits

LEMMA DataStays ==
  ASSUME IInv, UNCHANGED <<caller, draft, blobs, published>>,
         UNCHANGED faults \/ Fault, abandoned' \subseteq Drafts
  PROVE  DataFit'
BY FaultFits DEF IInv, DataFit, caller, published

\* A request that begins, with or without a draft that it has read.
LEMMA ReadsDraftFits ==
  ASSUME IInv, NEW a \in Admins, NEW intent \in Intents,
         NEW pc \in {"reading", "clearing", "deleting"},
         handler[a].pc \in {"idle", "reading"},
         ReadsDraft(a, intent, pc),
         UNCHANGED <<caller, draft, blobs, audio, published, abandoned, faults>>
  PROVE  IInv'
<1>1. PICK x : /\ Writes(a, x) /\ x \in Handler /\ x.pc = pc /\ x.episode = None
               /\ ReadFits(x)
  <2>1. CASE Rows = {}
    <3> DEFINE x == [NoRequest EXCEPT !.pc = pc, !.intent = intent]
    <3>1. x \in Handler /\ x.pc = pc /\ x.episode = None /\ x.keys = {}
      BY DEF NoRequest, Handler, Intents
    <3> QED
      BY <2>1, <3>1 DEF ReadsDraft, Writes, ReadFits
  <2>2. ASSUME NEW d \in Rows,
               Writes(a, [NoRequest EXCEPT !.pc = pc, !.intent = intent,
                                           !.draft = d, !.keys = draft[d].keys])
        PROVE  \E x : /\ Writes(a, x) /\ x \in Handler /\ x.pc = pc
                      /\ x.episode = None /\ ReadFits(x)
    <3> DEFINE x == [NoRequest EXCEPT !.pc = pc, !.intent = intent,
                                      !.draft = d, !.keys = draft[d].keys]
    <3>1. d \in Drafts /\ draft[d].keys \subseteq Kinds
      BY DEF Rows, IInv, DataFit, Draft
    <3>2. /\ x \in Handler /\ x.pc = pc /\ x.episode = None
          /\ x.draft = d /\ x.keys = draft[d].keys
      BY <3>1 DEF NoRequest, Handler, Intents
    <3> QED
      BY <2>2, <3>2 DEF ReadFits
  <2> QED
    BY <2>1, <2>2 DEF ReadsDraft, Writes
<1>2. HandlerFits(x, episodes')
  BY <1>1 DEF HandlerFits
<1>3. DataFit' /\ CountFits'
  BY <1>1, DataStays, CountKept DEF IInv, DataFit
<1> QED
  BY <1>1, <1>2, <1>3, HandlerMoves DEF published

LEMMA BeginFits ==
  ASSUME IInv, NEW a \in Admins, BeginRecord(a) \/ BeginUndo(a) \/ BeginDelete(a)
  PROVE  IInv'
<1>1. CASE BeginRecord(a)
  <2> DEFINE x == [NoRequest EXCEPT !.pc = "reading", !.intent = "record"]
  <2>1. /\ x \in Handler /\ x.pc = "reading" /\ x.episode = None /\ x.keys = {}
    BY DEF NoRequest, Handler, Intents
  <2>2. HandlerFits(x, episodes') /\ ReadFits(x) /\ Writes(a, x)
    BY <1>1, <2>1 DEF HandlerFits, ReadFits, Writes, BeginRecord
  <2>3. DataFit' /\ CountFits'
    BY <1>1, <2>2, DataStays, CountKept DEF IInv, DataFit, BeginRecord
  <2> QED
    BY <1>1, <2>1, <2>2, <2>3, HandlerMoves DEF published, BeginRecord
<1>2. CASE BeginUndo(a) \/ BeginDelete(a)
  BY <1>2, ReadsDraftFits DEF BeginUndo, BeginDelete, Intents
<1> QED
  BY <1>1, <1>2

LEMMA ReadExistingFits ==
  ASSUME IInv, NEW a \in Admins, ReadExisting(a)
  PROVE  IInv'
BY ReadsDraftFits DEF ReadExisting, Intents

LEMMA BeginPublishFits ==
  ASSUME IInv, NEW a \in Admins, BeginPublish(a)
  PROVE  IInv'
<1>1. PICK d \in Rows :
        Writes(a, [NoRequest EXCEPT !.pc = "fetching", !.intent = "publish",
                                    !.draft = d, !.keys = draft[d].keys])
  BY DEF BeginPublish, Writes
<1> DEFINE x == [NoRequest EXCEPT !.pc = "fetching", !.intent = "publish",
                                  !.draft = d, !.keys = draft[d].keys]
<1>2. d \in Drafts /\ d # None /\ draft[d].keys \subseteq Kinds
  BY NoneAssumption DEF Rows, IInv, DataFit, Draft
<1>3. /\ x \in Handler /\ x.pc = "fetching" /\ x.episode = None
      /\ x.draft = d /\ x.keys = draft[d].keys
  BY <1>2 DEF NoRequest, Handler, Intents
<1>4. HandlerFits(x, episodes') /\ ReadFits(x)
  BY <1>2, <1>3 DEF HandlerFits, ReadFits
<1>5. DataFit' /\ CountFits'
  BY <1>1, DataStays, CountKept DEF IInv, DataFit, BeginPublish
<1> QED
  BY <1>1, <1>3, <1>4, <1>5, HandlerMoves DEF published, BeginPublish

\* A request that ends, or has its pc moved, by a step that touches nothing else.
LEMMA FinishFits ==
  ASSUME IInv, NEW a \in Admins, Finish(a),
         UNCHANGED <<caller, draft, blobs, audio>>, DataFit', CountFits',
         episodes \subseteq episodes', abandoned \subseteq abandoned',
         handler[a].pc = "dropping" => handler[a].draft \in abandoned' \cup {None}
  PROVE  IInv'
<1>1. Writes(a, NoRequest) /\ NoRequest.pc = "idle"
  BY DEF Finish, Writes, NoRequest
<1> QED
  BY <1>1, NoRequestFits, HandlerMoves

LEMMA FetchAudioFits ==
  ASSUME IInv, NEW a \in Admins, FetchAudio(a)
  PROVE  IInv'
<1>1. DataFit'
  BY DataStays DEF IInv, DataFit, FetchAudio
<1>2. CASE GoTo(a, "producing")
  <2> DEFINE x == [handler[a] EXCEPT !.pc = "producing"]
  <2>1. HandlerFits(handler[a], episodes) /\ handler \in [Admins -> Handler]
    BY DEF IInv, HandlersFit
  <2>2. /\ x \in Handler /\ x.pc = "producing" /\ x.episode = None /\ x.draft # None
        /\ x.draft = handler[a].draft /\ x.keys = handler[a].keys
    BY <2>1 DEF HandlerFits, Handler, FetchAudio
  <2>3. HandlerFits(x, episodes') /\ ReadFits(x) /\ Writes(a, x)
    BY <1>2, <2>2 DEF HandlerFits, ReadFits, GoTo, Writes, IInv, KeysFit
  <2>4. CountFits'
    BY <2>3, CountKept DEF FetchAudio
  <2> QED
    BY <1>1, <2>2, <2>3, <2>4, HandlerMoves DEF published, FetchAudio
<1>3. CASE Finish(a)
  <2>1. CountFits'
    BY <1>3, CountKept DEF FetchAudio, Finish, Writes
  <2> QED
    BY <1>1, <1>3, <2>1, FinishFits DEF published, FetchAudio
<1> QED
  BY <1>2, <1>3 DEF FetchAudio

\* Transistor has one episode or two, and the request has the first in hand.
LEMMA EpisodeMade ==
  ASSUME IInv, NEW a \in Admins, handler[a].pc = "producing",
         NEW e \in Episodes, NEW f, episodes' = episodes \cup {e, f}, f \in Episodes,
         handler' = [handler EXCEPT ![a].pc = "recording", ![a].episode = e],
         UNCHANGED <<caller, draft, blobs, audio, recorded, abandoned>>,
         (e = f /\ UNCHANGED faults) \/ Fault
  PROVE  IInv'
<1> DEFINE x == [handler[a] EXCEPT !.pc = "recording", !.episode = e]
<1>1. HandlerFits(handler[a], episodes) /\ handler \in [Admins -> Handler]
  BY DEF IInv, HandlersFit
<1>2. /\ x \in Handler /\ x.pc = "recording" /\ x.episode = e /\ x.draft # None
      /\ x.draft = handler[a].draft /\ x.keys = handler[a].keys
  BY <1>1 DEF HandlerFits, Handler
<1>3. HandlerFits(x, episodes') /\ ReadFits(x)
  BY <1>2 DEF HandlerFits, ReadFits, IInv, KeysFit
<1>4. Writes(a, x)
  BY <1>1 DEF Writes
<1>5. DataFit'
  BY FaultFits DEF IInv, DataFit, caller
<1>6. CountFits'
  <2>1. \A b \in Admins : b # a => handler'[b].episode = handler[b].episode
    BY <1>1, <1>4 DEF Writes
  <2>2. handler'[a].episode = e
    BY <1>1, <1>2, <1>4 DEF Writes
  <2>3. handler[a].episode = None /\ None \notin episodes
    BY <1>1, NoneAssumption DEF HandlerFits, IInv, DataFit
  <2>4. /\ Unrecorded' \subseteq Unrecorded \cup {f}
        /\ e = f => Unrecorded' \subseteq Unrecorded
    BY <2>1, <2>2, <2>3 DEF Unrecorded
  <2> QED
    BY <2>4, CountStays, CountGrows DEF IInv
<1> QED
  BY <1>2, <1>3, <1>4, <1>5, <1>6, HandlerMoves

LEMMA ProduceFits ==
  ASSUME IInv, NEW a \in Admins, ProduceEpisode(a) \/ ProduceTwice(a)
  PROVE  IInv'
<1>1. CASE ProduceEpisode(a)
  <2>1. PICK e \in Episodes \ episodes :
          /\ episodes' = episodes \cup {e}
          /\ handler' = [handler EXCEPT ![a].pc = "recording", ![a].episode = e]
    BY <1>1 DEF ProduceEpisode
  <2>2. episodes' = episodes \cup {e, e}
    BY <2>1
  <2> QED
    BY <1>1, <2>1, <2>2, EpisodeMade DEF ProduceEpisode
<1>2. CASE ProduceTwice(a)
  BY <1>2, EpisodeMade DEF ProduceTwice
<1> QED
  BY <1>1, <1>2

LEMMA ProduceFailsFits ==
  ASSUME IInv, NEW a \in Admins, ProduceFails(a)
  PROVE  IInv'
<1>1. DataFit' /\ episodes \subseteq episodes'
  BY FaultFits DEF IInv, DataFit, caller, ProduceFails
<1>2. CountFits'
  <2>1. handler \in [Admins -> Handler] /\ handler[a].episode = None
    BY DEF IInv, HandlersFit, HandlerFits, ProduceFails
  <2>2. \A b \in Admins : b # a => handler'[b].episode = handler[b].episode
    BY <2>1 DEF ProduceFails, Finish
  <2>3. None \notin episodes
    BY NoneAssumption DEF IInv, DataFit
  <2>4. CASE UNCHANGED episodes
    <3>1. Unrecorded' \subseteq Unrecorded
      BY <2>1, <2>2, <2>3, <2>4 DEF Unrecorded, ProduceFails
    <3> QED
      BY <3>1, CountStays DEF IInv, ProduceFails
  <2>5. ASSUME NEW e, episodes' = episodes \cup {e}
        PROVE  CountFits'
    <3>1. Unrecorded' \subseteq Unrecorded \cup {e}
      BY <2>1, <2>2, <2>3, <2>5 DEF Unrecorded, ProduceFails
    <3> QED
      BY <3>1, CountGrows DEF IInv, ProduceFails
  <2> QED
    BY <2>4, <2>5 DEF ProduceFails
<1> QED
  BY <1>1, <1>2, FinishFits DEF ProduceFails

LEMMA RecordEpisodeFits ==
  ASSUME IInv, NEW a \in Admins, RecordEpisode(a)
  PROVE  IInv'
<1> DEFINE x == [handler[a] EXCEPT !.pc = "closing", !.episode = None]
<1>1. HandlerFits(handler[a], episodes) /\ handler \in [Admins -> Handler]
  BY DEF IInv, HandlersFit
<1>2. /\ x \in Handler /\ x.pc = "closing" /\ x.episode = None /\ x.draft # None
      /\ x.draft = handler[a].draft /\ x.keys = handler[a].keys
  BY <1>1 DEF HandlerFits, Handler, RecordEpisode
<1>3. HandlerFits(x, episodes') /\ ReadFits(x)
  BY <1>2 DEF HandlerFits, ReadFits, IInv, KeysFit
<1>4. Writes(a, x)
  BY <1>1 DEF Writes, RecordEpisode
<1>5. DataFit'
  BY <1>1 DEF IInv, DataFit, caller, RecordEpisode, HandlerFits
<1>6. CountFits'
  <2>1. \A b \in Admins : b # a => handler'[b].episode = handler[b].episode
    BY <1>1, <1>4 DEF Writes
  <2>2. Unrecorded' \subseteq Unrecorded
    BY <2>1 DEF Unrecorded, RecordEpisode
  <2> QED
    BY <2>2, CountStays DEF IInv, RecordEpisode
<1> QED
  BY <1>2, <1>3, <1>4, <1>5, <1>6, HandlerMoves DEF RecordEpisode

LEMMA HandlerBreaksFits ==
  ASSUME IInv, NEW a \in Admins, HandlerBreaks(a)
  PROVE  IInv'
<1>1. HandlerFits(handler[a], episodes) /\ handler \in [Admins -> Handler]
  BY DEF IInv, HandlersFit
<1>2. abandoned \subseteq abandoned' /\ abandoned' \subseteq Drafts
  BY <1>1 DEF HandlerBreaks, HandlerFits, Handler, IInv, DataFit
<1>3. DataFit'
  BY <1>2, DataStays DEF HandlerBreaks
<1>4. CountFits'
  <2>1. \A b \in Admins : b # a => handler'[b].episode = handler[b].episode
    BY <1>1 DEF HandlerBreaks, Finish
  <2>2. Unrecorded' \subseteq Unrecorded \cup {handler[a].episode}
    BY <2>1 DEF Unrecorded, HandlerBreaks, published
  <2> QED
    BY <2>2, CountGrows DEF IInv, HandlerBreaks
<1>5. handler[a].pc = "dropping" => handler[a].draft \in abandoned' \cup {None}
  BY DEF HandlerBreaks
<1> QED
  BY <1>2, <1>3, <1>4, <1>5, FinishFits DEF HandlerBreaks, published

-----------------------------------------------------------------------------
(* The requests that remove.                                               *)

LEMMA RowsAreRemoved ==
  ASSUME IInv
  PROVE  /\ RemoveRows => Rows' = {} /\ draft' \in [Drafts -> Draft]
         /\ \A how : RemoveCall(how) => Rows' = {} /\ draft' \in [Drafts -> Draft]
<1>1. Absent \in Draft /\ Absent.status = "ABSENT"
  BY DEF Absent, Draft, Statuses
<1>2. draft' = [d \in Drafts |-> Absent] => Rows' = {} /\ draft' \in [Drafts -> Draft]
  BY <1>1 DEF Rows
<1>3. call # "there" /\ draft' = draft => Rows' = {} /\ draft' \in [Drafts -> Draft]
  BY DEF IInv, CallFits, DataFit, Rows
<1> QED
  BY <1>2, <1>3 DEF RemoveRows, RemoveCall

\* The handler's pc moves, and nothing else of it.
LEMMA PcMoves ==
  ASSUME IInv, NEW a \in Admins, NEW pc, GoTo(a, pc), handler[a].pc # "recording",
         pc \in {"dropping", "cleaning"} \/
           (pc \in {"keying", "requesting", "excusing"} /\ handler[a].draft # None)
  PROVE  \E x : /\ Writes(a, x) /\ HandlerFits(x, episodes) /\ x.pc = pc
                /\ x.draft = handler[a].draft /\ x.keys = handler[a].keys
                /\ x.intent = handler[a].intent
<1> DEFINE x == [handler[a] EXCEPT !.pc = pc]
<1>1. HandlerFits(handler[a], episodes) /\ handler \in [Admins -> Handler]
  BY DEF IInv, HandlersFit
<1>2. /\ x \in Handler /\ x.pc = pc /\ x.episode = None
      /\ x.draft = handler[a].draft /\ x.keys = handler[a].keys
      /\ x.intent = handler[a].intent
  BY <1>1 DEF HandlerFits, Handler
<1>3. HandlerFits(x, episodes) /\ Writes(a, x)
  BY <1>2 DEF HandlerFits, GoTo, Writes
<1> QED
  BY <1>2, <1>3

LEMMA DropDraftFits ==
  ASSUME IInv, NEW a \in Admins, DropDraft(a)
  PROVE  IInv'
<1> DEFINE x == [NoRequest EXCEPT !.pc = "creating", !.intent = "record"]
<1>1. x \in Handler /\ x.pc = "creating" /\ x.episode = None /\ x.keys = {}
  BY DEF NoRequest, Handler, Intents
<1>2. HandlerFits(x, episodes')
  BY <1>1 DEF HandlerFits
<1>3. /\ call \in {"there", "deleted", "published"}
      /\ Rows' = {} /\ draft' \in [Drafts -> Draft]
  BY RowsAreRemoved DEF DropDraft, IInv, DataFit
<1>4. CASE Finish(a)
  <2>1. Writes(a, NoRequest) /\ NoRequest.pc = "idle"
    BY <1>4 DEF Finish, Writes, NoRequest
  <2> QED
    BY <1>3, <2>1, NoRequestFits, RowsRemoved DEF DropDraft, caller
<1>5. CASE Writes(a, x)
  BY <1>1, <1>2, <1>3, <1>5, RowsRemoved DEF DropDraft, caller
<1> QED
  BY <1>4, <1>5 DEF DropDraft, Writes

LEMMA CallRemovedFits ==
  ASSUME IInv, NEW a \in Admins, DeleteRow(a) \/ CloseCall(a)
  PROVE  IInv'
<1>1. PICK how \in {"deleted", "published"} : RemoveCall(how)
  BY DEF DeleteRow, CloseCall
<1>2. /\ call' \in {"deleted", "published"}
      /\ Rows' = {} /\ draft' \in [Drafts -> Draft]
  BY <1>1, RowsAreRemoved DEF RemoveCall, IInv, DataFit
<1>3. GoTo(a, "cleaning") /\ handler[a].pc # "recording"
  BY DEF DeleteRow, CloseCall
<1>4. PICK x : Writes(a, x) /\ HandlerFits(x, episodes) /\ x.pc = "cleaning"
  BY <1>3, PcMoves
<1>5. UNCHANGED <<recording, blobs, audio, published, abandoned, faults>>
  BY DEF DeleteRow, CloseCall
<1> QED
  BY <1>2, <1>3, <1>4, <1>5, RowsRemoved DEF published

\* A removal of objects under names that were read some time ago reaches no
\* object of another draft, and none that a draft in a row does not name.
LEMMA RemovalReaches ==
  ASSUME IInv, NEW a \in Admins, RemoveObjects(a)
  PROVE  /\ blobs' \subseteq blobs
         /\ UNCHANGED faults \/ Fault
         /\ \A d \in Drafts, k \in Kinds :
              ObjectOf(d, k) \in blobs /\ ObjectOf(d, k) \notin blobs'
                => handler[a].draft = d /\ k \in handler[a].keys
<1> DEFINE named == ObjectsOf(handler[a].draft, handler[a].keys)
<1>1. \E gone \in SUBSET named : blobs' = blobs \ gone
  BY DEF RemoveObjects
<1>2. \A d, k : ObjectOf(d, k) \in named
                  => handler[a].draft = d /\ k \in handler[a].keys
  BY DEF ObjectsOf, ObjectOf
<1> QED
  BY <1>1, <1>2 DEF RemoveObjects

LEMMA ClearObjectsFits ==
  ASSUME IInv, NEW a \in Admins, ClearObjects(a)
  PROVE  IInv'
<1>1. PICK x : /\ Writes(a, x) /\ HandlerFits(x, episodes) /\ x.pc = "dropping"
               /\ x.draft = handler[a].draft /\ x.keys = handler[a].keys
  BY PcMoves DEF ClearObjects
<1>2. /\ HandlersFit'
      /\ \A b \in Admins : handler'[b] = IF b = a THEN x ELSE handler[b]
  BY <1>1, HandlerWritten DEF ClearObjects, published
<1>3. /\ blobs' \subseteq blobs
      /\ UNCHANGED faults \/ Fault
      /\ \A d \in Drafts, k \in Kinds :
           ObjectOf(d, k) \in blobs /\ ObjectOf(d, k) \notin blobs'
             => handler[a].draft = d /\ k \in handler[a].keys
  BY RemovalReaches DEF ClearObjects
<1>4. DataFit'
  BY <1>3, FaultFits DEF ClearObjects, DataFit, caller, published, IInv
<1>5. CountFits'
  BY <1>1, <1>3, CountKept DEF ClearObjects
<1>6. Rows' = Rows /\ Rows \subseteq Drafts
  BY DEF ClearObjects, Rows
<1>7. AudioFits' /\ CallFits'
  BY <1>1, <1>2, <1>6 DEF ClearObjects, caller, audio, AudioFits, CallFits, IInv
<1>8. KeysFit'
  BY <1>1, <1>2, <1>6 DEF ClearObjects, KeysFit, IInv
<1>9. OwnersFit'
  BY <1>1, <1>2 DEF ClearObjects, OwnersFit, Holding, Owning, Known, Queued, Worked,
                    Delayed, audio, IInv
<1>10. MakingFits'
  <2> SUFFICES ASSUME NEW b \in Admins, NEW d \in Rows,
                      Making(b)', handler'[b].draft = d
               PROVE  /\ draft[d].keys = {}
                      /\ handler'[b].pc = "keying" => ObjectOf(d, "response") \in blobs'
    BY <1>6 DEF MakingFits, ClearObjects
  <2>1. b # a /\ Making(b) /\ handler[b] = handler'[b]
    BY <1>1, <1>2 DEF Making
  <2>2. /\ draft[d].keys = {}
        /\ handler[b].pc = "keying" => ObjectOf(d, "response") \in blobs
    BY <2>1 DEF IInv, MakingFits
  <2>3. handler[a].draft = d => handler[a].keys = {}
    BY <2>2 DEF IInv, KeysFit
  <2>4. ObjectOf(d, "response") \in blobs => ObjectOf(d, "response") \in blobs'
    BY <1>3, <1>6, <2>3 DEF Kinds
  <2> QED
    BY <2>1, <2>2, <2>4
<1>11. VoicesFit'
  <2> SUFFICES ASSUME NEW d \in Drafts, draft[d].status = "AUDIO"
               PROVE  /\ "episode" \notin draft[d].keys
                      /\ Announced(d) => ObjectOf(d, "episode") \in blobs'
    BY DEF VoicesFit, ClearObjects, Announced, audio
  <2>1. /\ "episode" \notin draft[d].keys
        /\ Announced(d) => ObjectOf(d, "episode") \in blobs
    BY DEF IInv, VoicesFit
  <2>2. handler[a].draft = d => "episode" \notin handler[a].keys
    BY <2>1 DEF IInv, KeysFit, Rows
  <2> QED
    BY <1>3, <2>1, <2>2 DEF Kinds
<1>12. ObjectsFit'
  <2> SUFFICES ASSUME NEW d \in Rows, NEW k \in draft[d].keys,
                      ObjectOf(d, k) \notin blobs', d \notin abandoned
               PROVE  \E b \in Admins : Removes(b, d)'
    BY <1>6 DEF ObjectsFit, ClearObjects
  <2>1. d \in Drafts /\ k \in Kinds
    BY <1>6 DEF IInv, DataFit, Draft
  <2>2. CASE ObjectOf(d, k) \in blobs
    <3>1. handler[a].draft = d
      BY <1>3, <2>1, <2>2
    <3>2. Removes(a, d)'
      BY <1>1, <1>2, <3>1 DEF Removes
    <3> QED
      BY <3>2
  <2>3. CASE ObjectOf(d, k) \notin blobs
    <3>1. PICK b \in Admins : Removes(b, d)
      BY <2>3 DEF IInv, ObjectsFit
    <3>2. b # a
      BY <3>1 DEF Removes, ClearObjects
    <3> QED
      BY <1>2, <3>1, <3>2 DEF Removes
  <2> QED
    BY <2>2, <2>3
<1>13. CreatorsFit'
  BY <1>1, <1>2 DEF CreatorsFit, IInv
<1> QED
  BY <1>2, <1>4, <1>5, <1>7, <1>8, <1>9, <1>10, <1>11, <1>12, <1>13 DEF IInv

\* The call is gone, so there is no row whose objects could go.
LEMMA CleanUpFits ==
  ASSUME IInv, NEW a \in Admins, CleanUp(a)
  PROVE  IInv'
<1>1. Writes(a, NoRequest) /\ NoRequest.pc = "idle"
  BY DEF CleanUp, Finish, Writes, NoRequest
<1>2. /\ HandlersFit'
      /\ \A b \in Admins : handler'[b] = IF b = a THEN NoRequest ELSE handler[b]
  BY <1>1, NoRequestFits, HandlerWritten DEF CleanUp, published
<1>3. blobs' \subseteq blobs /\ (UNCHANGED faults \/ Fault)
  BY RemovalReaches DEF CleanUp
<1>4. call # "there" /\ Rows = {} /\ Rows' = {}
  BY DEF CleanUp, IInv, CallFits, Rows
<1>5. \A d \in Drafts : draft'[d].status = "ABSENT"
  BY <1>4 DEF Rows
<1>6. recording' \in BOOLEAN /\ call' = call
  BY DEF CleanUp, IInv, DataFit
<1>7. DataFit'
  BY <1>3, <1>6, FaultFits DEF CleanUp, DataFit, published, IInv
<1>8. CountFits'
  BY <1>1, <1>3, CountKept DEF CleanUp
<1>9. AudioFits' /\ CallFits'
  BY <1>1, <1>2, <1>4, <1>6 DEF CleanUp, audio, AudioFits, CallFits, IInv
<1>10. KeysFit' /\ MakingFits' /\ ObjectsFit'
  BY <1>4 DEF KeysFit, MakingFits, ObjectsFit
<1>11. OwnersFit'
  BY <1>1, <1>2 DEF CleanUp, OwnersFit, Holding, Owning, Known, Queued, Worked,
                    Delayed, audio, IInv
<1>12. VoicesFit'
  BY <1>5 DEF VoicesFit
<1>13. CreatorsFit'
  BY <1>1, <1>2 DEF CreatorsFit, IInv
<1> QED
  BY <1>2, <1>7, <1>8, <1>9, <1>10, <1>11, <1>12, <1>13 DEF IInv

-----------------------------------------------------------------------------
(* The request that makes a draft.                                         *)

\* A fresh id is known to nobody, so the new draft is its maker's alone.
LEMMA CreateDraftFits ==
  ASSUME IInv, NEW a \in Admins, CreateDraft(a)
  PROVE  IInv'
<1>1. HandlerFits(handler[a], episodes) /\ handler \in [Admins -> Handler]
  BY DEF IInv, HandlersFit
<1>2. CASE Finish(a) /\ UNCHANGED draft
  <2>1. DataFit' /\ CountFits'
    BY <1>2, DataStays, CountKept DEF CreateDraft, Finish, Writes, IInv, DataFit
  <2> QED
    BY <1>2, <2>1, FinishFits DEF CreateDraft, published
<1>3. ASSUME call = "there", Rows = {}, NEW d \in FreshDrafts,
             draft' = [draft EXCEPT ![d] = [status |-> "AUDIO", keys |-> {}]],
             handler' = [handler EXCEPT ![a].pc = "storing", ![a].draft = d]
      PROVE  IInv'
  <2> DEFINE x == [handler[a] EXCEPT !.pc = "storing", !.draft = d]
             row == [status |-> "AUDIO", keys |-> {}]
  <2>1. d \in Drafts /\ d # None /\ ~Known(d)
    BY NoneAssumption DEF FreshDrafts, Known, Queued, Worked, Delayed
  <2>2. \A b \in Admins : handler[b].draft # d
    BY DEF FreshDrafts
  <2>3. /\ x \in Handler /\ x.pc = "storing" /\ x.episode = None
        /\ x.draft = d /\ x.keys = handler[a].keys
    BY <1>1, <2>1 DEF HandlerFits, Handler, CreateDraft
  <2>4. HandlerFits(x, episodes') /\ Writes(a, x)
    BY <1>1, <1>3, <2>1, <2>3 DEF HandlerFits, Writes
  <2>5. /\ HandlersFit'
        /\ \A b \in Admins : handler'[b] = IF b = a THEN x ELSE handler[b]
    BY <2>4, HandlerWritten DEF CreateDraft, published
  <2>6. row \in Draft /\ row.status = "AUDIO" /\ row.keys = {}
    BY DEF Draft, Statuses
  <2>7. /\ draft' \in [Drafts -> Draft]
        /\ \A f \in Drafts : draft'[f] = IF f = d THEN row ELSE draft[f]
    BY <1>3, <2>6 DEF IInv, DataFit
  <2>8. Rows' = {d}
    BY <1>3, <2>1, <2>6, <2>7 DEF Rows
  <2>9. DataFit'
    BY <2>7 DEF CreateDraft, caller, published, DataFit, IInv
  <2>10. CountFits'
    BY <2>4, CountKept DEF CreateDraft
  <2>11. AudioFits' /\ CallFits'
    <3>1. AudioFits'
      BY DEF CreateDraft, audio, AudioFits, IInv
    <3>2. \A b \in Admins : handler'[b].pc = "cleaning" => handler[b].pc = "cleaning"
      BY <2>3, <2>5
    <3>3. CallFits'
      BY <1>3, <3>2 DEF CreateDraft, caller, CallFits, IInv
    <3> QED
      BY <3>1, <3>3
  <2>12. handler[a].keys = {}
    BY DEF IInv, CreatorsFit, CreateDraft
  <2>13. KeysFit'
    BY <2>2, <2>3, <2>5, <2>8, <2>12 DEF KeysFit
  <2>14. OwnersFit'
    <3>1. \A b, c \in Admins :
            Holding(b)' /\ Holding(c)' /\ handler'[b].draft = handler'[c].draft => b = c
      <4> SUFFICES ASSUME NEW b \in Admins, NEW c \in Admins, Holding(b)', Holding(c)',
                          handler'[b].draft = handler'[c].draft
                   PROVE  b = c
        OBVIOUS
      <4>1. \A e \in Admins :
              /\ e = a => handler'[e].draft = d
              /\ e # a => handler'[e] = handler[e] /\ handler'[e].draft # d
        BY <2>2, <2>3, <2>5
      <4>2. CASE b = a \/ c = a
        BY <4>1, <4>2
      <4>3. CASE b # a /\ c # a
        BY <4>1, <4>3 DEF Holding, OwnersFit, IInv
      <4> QED
        BY <4>2, <4>3
    <3>2. \A f \in Drafts : Known(f)' <=> Known(f)
      BY DEF Known, Queued, Worked, Delayed, audio, CreateDraft
    <3>3. ASSUME NEW b \in Admins, NEW f \in Drafts, Owning(b)', handler'[b].draft = f
          PROVE  ~Known(f)' /\ draft'[f].status \in {"ABSENT", "AUDIO"}
      BY ZenonT(30), <2>1, <2>2, <2>3, <2>5, <2>6, <2>7, <3>2, <3>3 DEF Owning, OwnersFit, IInv
    <3> QED
      BY <3>1, <3>3 DEF OwnersFit
  <2>15. MakingFits'
    BY <2>1, <2>2, <2>3, <2>5, <2>6, <2>7, <2>8 DEF MakingFits, Making
  <2>16. VoicesFit'
    <3>1. ~Announced(d)
      BY <2>1 DEF Announced, Known, Worked, Delayed
    <3>2. \A f \in Drafts : f # d => draft'[f].status # "AUDIO"
      BY <2>8 DEF Rows
    <3> QED
      BY <2>6, <2>7, <3>1, <3>2 DEF VoicesFit, Announced, audio, CreateDraft
  <2>17. ObjectsFit'
    BY <2>1, <2>6, <2>7, <2>8 DEF ObjectsFit
  <2>18. CreatorsFit'
    BY <2>3, <2>5 DEF CreatorsFit, IInv
  <2> QED
    BY <2>5, <2>9, <2>10, <2>11, <2>13, <2>14, <2>15, <2>16, <2>17, <2>18 DEF IInv
<1> QED
  BY <1>2, <1>3 DEF CreateDraft

\* The handler that holds a draft moves on: its row may get its response, or end.
LEMMA HolderMoves ==
  ASSUME IInv, NEW a \in Admins, NEW x, HandlerFits(x, episodes'), Writes(a, x),
         Holding(a), x.draft \in {handler[a].draft, None},
         x.keys \subseteq handler[a].keys,
         x.pc \in {"idle", "keying", "requesting", "excusing"},
         x.pc \in {"keying", "requesting"} => x.draft = handler[a].draft /\ Owning(a),
         x.pc = "keying" =>
           Making(a) /\ ObjectOf(handler[a].draft, "response") \in blobs',
         x.pc = "excusing" => x.draft = handler[a].draft,
         UNCHANGED <<caller, worker, late, published, abandoned>>,
         UNCHANGED faults \/ Fault,
         AudioFits', DataFit', blobs \subseteq blobs',
         \A m \in queue' : m \in queue \/
           (m.draft = handler[a].draft /\ x.pc \notin {"keying", "requesting"}),
         \A d \in Drafts : draft'[d] = draft[d] \/
           /\ d \in Rows /\ d = handler[a].draft
           /\ x.pc # "keying"
           /\ draft[d].keys \subseteq draft'[d].keys
           /\ \A k \in draft'[d].keys \ draft[d].keys : ObjectOf(d, k) \in blobs'
           /\ \/ /\ draft'[d].status = "AUDIO" /\ draft[d].status = "AUDIO"
                 /\ "episode" \notin draft'[d].keys
              \/ draft'[d].status = "ERROR" /\ x.pc = "idle"
  PROVE  IInv'
<1>1. /\ HandlersFit'
      /\ \A b \in Admins : handler'[b] = IF b = a THEN x ELSE handler[b]
  BY HandlerWritten DEF published
<1>2. Rows' = Rows /\ Rows \subseteq Drafts
  BY DEF Rows
<1>3. \A d \in Rows : draft[d].keys \subseteq draft'[d].keys
  BY <1>2
<1>4. handler[a].draft # None /\ handler[a].pc \notin {"dropping", "recording", "creating"}
  BY DEF IInv, HandlersFit, HandlerFits, Holding
<1>5. CountFits'
  BY <1>4, CountKept
<1>6. CallFits'
  BY <1>1, <1>2 DEF CallFits, caller, IInv
<1>7. KeysFit'
  <2> SUFFICES ASSUME NEW b \in Admins, NEW d \in Rows, handler'[b].draft = d
               PROVE  handler'[b].keys \subseteq draft'[d].keys
    BY <1>2 DEF KeysFit
  <2>1. d # None
    BY <1>2, NoneAssumption
  <2>2. handler[b].draft = d /\ handler'[b].keys \subseteq handler[b].keys
    BY <1>1, <2>1
  <2> QED
    BY <1>3, <2>2 DEF KeysFit, IInv
<1>8. OwnersFit'
  <2>1. \A b \in Admins : Holding(b)' => Holding(b) /\ handler'[b].draft = handler[b].draft
    BY <1>1 DEF Holding
  <2>2. ASSUME NEW b \in Admins, NEW d \in Drafts, Owning(b)', handler'[b].draft = d
        PROVE  ~Known(d)' /\ draft'[d].status \in {"ABSENT", "AUDIO"}
    <3>1. Owning(b) /\ handler[b].draft = d
      BY <1>1, <2>2 DEF Owning
    <3>2. ~Known(d) /\ draft[d].status \in {"ABSENT", "AUDIO"}
      BY <3>1 DEF IInv, OwnersFit
    <3>3. b = a \/ handler[a].draft # d
      BY <3>1 DEF IInv, OwnersFit, Owning, Holding
    <3>4. \A m \in queue' : m.draft = d => m \in queue
      BY <1>1, <2>2, <3>3 DEF Owning
    <3>5. ~Known(d)'
      BY <3>2, <3>4 DEF Known, Queued, Worked, Delayed
    <3>6. draft'[d].status \in {"ABSENT", "AUDIO"}
      BY <1>1, <2>2, <3>2, <3>3 DEF Owning
    <3> QED
      BY <3>5, <3>6
  <2> QED
    BY <2>1, <2>2 DEF OwnersFit, IInv
<1>9. MakingFits'
  <2> SUFFICES ASSUME NEW b \in Admins, NEW d \in Rows, Making(b)', handler'[b].draft = d
               PROVE  /\ draft'[d].keys = {}
                      /\ handler'[b].pc = "keying" => ObjectOf(d, "response") \in blobs'
    BY <1>2 DEF MakingFits
  <2>1. Making(b) /\ handler[b].draft = d
    BY <1>1 DEF Making
  <2>2. /\ draft[d].keys = {}
        /\ handler[b].pc = "keying" => ObjectOf(d, "response") \in blobs
    BY <2>1 DEF IInv, MakingFits
  <2>3. b = a \/ handler[a].draft # d
    BY <2>1 DEF IInv, OwnersFit, Making, Holding
  <2>4. draft'[d] = draft[d]
    BY <1>1, <1>2, <2>3 DEF Making
  <2>5. handler'[b].pc = "keying" => ObjectOf(d, "response") \in blobs'
    BY <1>1, <2>1, <2>2
  <2> QED
    BY <2>2, <2>4, <2>5
<1>10. VoicesFit'
  BY DEF VoicesFit, Announced, IInv
<1>11. ObjectsFit'
  <2>1. \A b \in Admins, d \in Drafts : Removes(b, d) => Removes(b, d)'
    BY <1>1, <1>4 DEF Removes
  <2> QED
    BY <1>2, <2>1 DEF ObjectsFit, IInv
<1>12. CreatorsFit'
  BY <1>1 DEF CreatorsFit, IInv
<1> QED
  BY <1>1, <1>5, <1>6, <1>7, <1>8, <1>9, <1>10, <1>11, <1>12 DEF IInv

\* The holder's own response is in place, and it goes on with the key.
LEMMA StoreResponseFits ==
  ASSUME IInv, NEW a \in Admins, StoreResponse(a)
  PROVE  IInv'
<1>1. HandlerFits(handler[a], episodes) /\ handler[a] \in Handler
  BY DEF IInv, HandlersFit, HandlerFits
<1>2. handler[a].draft \in Drafts /\ handler[a].draft # None
  BY <1>1 DEF HandlerFits, Handler, StoreResponse
<1>3. PICK x : /\ Writes(a, x) /\ HandlerFits(x, episodes) /\ x.pc = "keying"
               /\ x.draft = handler[a].draft /\ x.keys = handler[a].keys
  BY <1>2, PcMoves DEF StoreResponse
<1>4. AudioFits'
  BY DEF StoreResponse, audio, AudioFits, IInv
<1>5. DataFit'
  BY <1>2 DEF StoreResponse, caller, published, DataFit, ObjectOf, Kinds, IInv
<1> QED
  BY <1>3, <1>4, <1>5, HolderMoves
  DEF StoreResponse, audio, published, Holding, Owning, Making

\* The draft is its maker's alone, so its status has not moved from AUDIO.
LEMMA KeyResponseFits ==
  ASSUME IInv, NEW a \in Admins, KeyResponse(a)
  PROVE  IInv'
<1> DEFINE d == handler[a].draft
<1>1. HandlerFits(handler[a], episodes) /\ handler[a] \in Handler
  BY DEF IInv, HandlersFit, HandlerFits
<1>2. d \in Drafts /\ d # None
  BY <1>1 DEF HandlerFits, Handler, KeyResponse
<1>3. PICK x : /\ Writes(a, x) /\ HandlerFits(x, episodes) /\ x.pc = "requesting"
               /\ x.draft = d /\ x.keys = handler[a].keys
  BY <1>2, PcMoves DEF KeyResponse
<1>4. AudioFits'
  BY DEF KeyResponse, audio, AudioFits, IInv
<1>5. draft[d].status \in {"ABSENT", "AUDIO"}
  BY <1>2 DEF IInv, OwnersFit, Owning, KeyResponse
<1>6. CASE draft[d].status = "ABSENT"
  <2>1. UNCHANGED draft
    BY <1>6 DEF KeyResponse, Processing
  <2>2. DataFit'
    BY <2>1 DEF KeyResponse, caller, published, DataFit, IInv
  <2> QED
    BY <1>3, <1>4, <2>1, <2>2, HolderMoves
    DEF KeyResponse, audio, published, Holding, Owning, Making
<1>7. CASE draft[d].status = "AUDIO"
  <2> DEFINE row == [status |-> "AUDIO", keys |-> draft[d].keys \cup {"response"}]
  <2>1. draft \in [Drafts -> Draft] /\ d \in Rows
    BY <1>2, <1>7 DEF IInv, DataFit, Rows
  <2>2. draft[d].keys = {} /\ ObjectOf(d, "response") \in blobs
    BY <2>1 DEF IInv, MakingFits, Making, KeyResponse
  <2>3. row \in Draft /\ row.status = "AUDIO" /\ row.keys = {"response"}
    BY <2>2 DEF Draft, Statuses, Kinds
  <2>4. draft' = [draft EXCEPT ![d] = row]
    BY <1>2, <1>7, <2>1 DEF KeyResponse, Processing
  <2>5. \A f \in Drafts : draft'[f] = IF f = d THEN row ELSE draft[f]
    BY <2>1, <2>4
  <2>6. DataFit'
    BY <2>1, <2>3, <2>4 DEF KeyResponse, caller, published, DataFit, IInv
  <2>7. \A f \in Drafts : draft'[f] = draft[f] \/
          /\ f \in Rows /\ f = d
          /\ draft[f].keys \subseteq draft'[f].keys
          /\ \A k \in draft'[f].keys \ draft[f].keys : ObjectOf(f, k) \in blobs'
          /\ draft'[f].status = "AUDIO" /\ draft[f].status = "AUDIO"
          /\ "episode" \notin draft'[f].keys
    BY <1>7, <2>1, <2>2, <2>3, <2>5 DEF KeyResponse
  <2> QED
    BY <1>3, <1>4, <2>6, <2>7, HolderMoves
    DEF KeyResponse, audio, published, Holding, Owning, Making
<1> QED
  BY <1>5, <1>6, <1>7

LEMMA StoreFailsFits ==
  ASSUME IInv, NEW a \in Admins, StoreFails(a)
  PROVE  IInv'
<1>1. HandlerFits(handler[a], episodes) /\ handler[a] \in Handler
  BY DEF IInv, HandlersFit, HandlerFits
<1>2. handler[a].draft \in Drafts /\ handler[a].draft # None
  BY <1>1 DEF HandlerFits, Handler, StoreFails
<1>3. PICK x : /\ Writes(a, x) /\ HandlerFits(x, episodes) /\ x.pc = "excusing"
               /\ x.draft = handler[a].draft /\ x.keys = handler[a].keys
  BY <1>2, PcMoves DEF StoreFails
<1>4. AudioFits'
  BY DEF StoreFails, audio, AudioFits, IInv
<1>5. DataFit'
  BY <1>2, FaultFits DEF StoreFails, caller, published, DataFit, ObjectOf, Kinds, IInv
<1> QED
  BY <1>3, <1>4, <1>5, HolderMoves
  DEF StoreFails, audio, published, Holding, Owning, Making

LEMMA RequestAudioFits ==
  ASSUME IInv, NEW a \in Admins, RequestAudio(a) \/ RequestAudioFails(a)
  PROVE  IInv'
<1> DEFINE d == handler[a].draft
<1>1. HandlerFits(handler[a], episodes) /\ handler[a] \in Handler
  BY DEF IInv, HandlersFit, HandlerFits
<1>2. handler[a].pc = "requesting" /\ d \in Drafts /\ d # None
  BY <1>1 DEF HandlerFits, Handler, RequestAudio, RequestAudioFails
<1>3. PICK x : /\ Writes(a, x) /\ HandlerFits(x, episodes)
               /\ x.keys \subseteq handler[a].keys
               /\ \/ x.pc = "excusing" /\ x.draft = d
                  \/ x.pc = "idle" /\ x.draft = None
  <2>1. CASE RequestAudio(a)
    <3>1. /\ Writes(a, NoRequest)
          /\ NoRequest.pc = "idle" /\ NoRequest.draft = None /\ NoRequest.keys = {}
      BY <2>1 DEF RequestAudio, Finish, Writes, NoRequest
    <3> QED
      BY <3>1, NoRequestFits
  <2>2. CASE RequestAudioFails(a)
    BY <1>2, <2>2, PcMoves DEF RequestAudioFails
  <2> QED
    BY <2>1, <2>2
<1>4. queue' \subseteq Enqueued(d)
  BY DEF RequestAudio, RequestAudioFails, Enqueued
<1>5. [draft |-> d, attempts |-> 0] \in Messages
  BY <1>2, DeliveriesAssumption DEF Messages
<1>6. AudioFits'
  BY <1>4, <1>5 DEF RequestAudio, RequestAudioFails, Enqueued, AudioFits, IInv
<1>7. UNCHANGED <<caller, draft, blobs, worker, late, published, abandoned>>
      /\ (UNCHANGED faults \/ Fault)
  BY DEF RequestAudio, RequestAudioFails
<1>8. DataFit'
  BY <1>7, FaultFits DEF caller, published, DataFit, IInv
<1>9. \A m \in queue' : m \in queue \/ m.draft = d
  BY <1>4 DEF Enqueued
<1> QED
  BY <1>2, <1>3, <1>6, <1>7, <1>8, <1>9, HolderMoves
  DEF published, Holding, Owning, Making

LEMMA ExcuseFits ==
  ASSUME IInv, NEW a \in Admins, Excuse(a)
  PROVE  IInv'
<1> DEFINE d == handler[a].draft
<1>1. HandlerFits(handler[a], episodes) /\ handler[a] \in Handler
  BY DEF IInv, HandlersFit, HandlerFits
<1>2. d \in Drafts /\ d # None
  BY <1>1 DEF HandlerFits, Handler, Excuse
<1>3. /\ Writes(a, NoRequest)
      /\ NoRequest.pc = "idle" /\ NoRequest.draft = None /\ NoRequest.keys = {}
  BY DEF Excuse, Finish, Writes, NoRequest
<1>4. AudioFits'
  BY DEF Excuse, audio, AudioFits, IInv
<1>5. draft \in [Drafts -> Draft]
  BY DEF IInv, DataFit
<1>6. /\ draft' \in [Drafts -> Draft]
      /\ \A f \in Drafts : draft'[f] = draft[f] \/
           /\ f \in Rows /\ f = d
           /\ draft[f].keys = draft'[f].keys
           /\ draft'[f].status = "ERROR"
  <2>1. CASE draft[d].status \in Processing
    <3> DEFINE row == [draft[d] EXCEPT !.status = "ERROR"]
    <3>1. row \in Draft /\ row.status = "ERROR" /\ row.keys = draft[d].keys
      BY <1>2, <1>5 DEF Draft, Statuses
    <3>2. draft' = [draft EXCEPT ![d] = row] /\ d \in Rows
      BY <1>2, <1>5, <2>1 DEF Excuse, Processing, Rows
    <3> QED
      BY <1>5, <3>1, <3>2
  <2>2. CASE draft[d].status \notin Processing
    BY <1>5, <2>2 DEF Excuse
  <2> QED
    BY <2>1, <2>2
<1>7. DataFit'
  BY <1>6 DEF Excuse, caller, published, DataFit, IInv
<1> QED
  BY <1>3, <1>4, <1>6, <1>7, NoRequestFits, HolderMoves
  DEF Excuse, audio, published, Holding, Owning, Making

-----------------------------------------------------------------------------
(* The queue, the worker and its callbacks.                                *)

LEMMA WorkerWritten ==
  ASSUME IInv, NEW w \in Consumers, NEW y, WorkerFits(y),
         worker' = [worker EXCEPT ![w] = y],
         queue' \subseteq Messages, late' \subseteq Callbacks
  PROVE  /\ AudioFits'
         /\ \A v \in Consumers : worker'[v] = IF v = w THEN y ELSE worker[v]
<1>1. worker \in [Consumers -> Consumer] /\ y \in Consumer
  BY DEF IInv, AudioFits, WorkerFits
<1>2. \A v \in Consumers : worker'[v] = IF v = w THEN y ELSE worker[v]
  BY <1>1
<1> QED
  BY <1>1, <1>2 DEF IInv, AudioFits

LEMMA BusyWorker ==
  ASSUME IInv, NEW w \in Consumers, worker[w].pc # "idle"
  PROVE  /\ worker[w] \in Consumer
         /\ worker[w].draft \in Drafts /\ worker[w].draft # None
         /\ Known(worker[w].draft)
BY DEF IInv, AudioFits, WorkerFits, Consumer, Known, Worked

LEMMA RetryFits ==
  ASSUME IInv, NEW w \in Consumers, worker[w].pc # "idle", Retry(w)
  PROVE  /\ queue' \subseteq Messages
         /\ \A m \in queue' : m \in queue \/ m.draft = worker[w].draft
         /\ worker' = [worker EXCEPT ![w] = NoJob]
         /\ WorkerFits(NoJob) /\ NoJob.pc = "idle" /\ NoJob.draft = None
<1>1. worker[w] \in Consumer /\ worker[w].draft \in Drafts
  BY BusyWorker
<1>2. NoJob.pc = "idle" /\ NoJob.draft = None /\ NoJob \in Consumer
  BY DeliveriesAssumption DEF NoJob, Consumer
<1> DEFINE m == [draft |-> worker[w].draft, attempts |-> worker[w].attempts + 1]
<1>3. worker[w].attempts + 1 < MaxDeliveries => m \in Messages
  BY <1>1, DeliveriesAssumption DEF Messages, Consumer
<1>4. m.draft = worker[w].draft
  OBVIOUS
<1> QED
  BY <1>2, <1>3, <1>4 DEF Retry, WorkerEnds, WorkerFits, IInv, AudioFits

\* A callback finds a draft that somebody knows, so nobody is still making it.
LEMMA CallbackAdvances ==
  ASSUME IInv, NEW d \in Drafts, Known(d), UNCHANGED blobs,
         UNCHANGED draft \/ Failed(d) \/ (Completed(d) /\ Announced(d))
  PROVE  /\ draft' \in [Drafts -> Draft]
         /\ \A f \in Drafts : draft'[f] = draft[f] \/ Advances(f)
<1>1. draft \in [Drafts -> Draft]
  BY DEF IInv, DataFit
<1>2. CASE UNCHANGED draft
  BY <1>1, <1>2
<1>3. ASSUME AwaitsAudio(d), NEW row \in Draft, draft' = [draft EXCEPT ![d] = row],
             row.status \notin {"ABSENT", "AUDIO"}, draft[d].keys \subseteq row.keys,
             \A k \in row.keys \ draft[d].keys : ObjectOf(d, k) \in blobs
      PROVE  /\ draft' \in [Drafts -> Draft]
             /\ \A f \in Drafts : draft'[f] = draft[f] \/ Advances(f)
  <2>1. d \in Rows
    BY <1>3 DEF AwaitsAudio, Rows
  <2>2. \A a \in Admins : Owning(a) => handler[a].draft # d
    BY DEF IInv, OwnersFit
  <2>3. \A f \in Drafts : draft'[f] = IF f = d THEN row ELSE draft[f]
    BY <1>1, <1>3
  <2>4. draft' \in [Drafts -> Draft]
    BY <1>1, <1>3
  <2>5. Advances(d)
    BY <1>3, <2>1, <2>2, <2>3 DEF Advances
  <2> QED
    BY <2>3, <2>4, <2>5
<1>4. CASE Failed(d) /\ AwaitsAudio(d)
  <2> DEFINE row == [draft[d] EXCEPT !.status = "ERROR"]
  <2>1. row \in Draft /\ row.status = "ERROR" /\ row.keys = draft[d].keys
    BY <1>1 DEF Draft, Statuses
  <2>2. draft' = [draft EXCEPT ![d] = row]
    BY <1>1, <1>4 DEF Failed
  <2> QED
    BY <1>3, <1>4, <2>1, <2>2
<1>5. CASE Completed(d) /\ Announced(d) /\ AwaitsAudio(d)
  <2> DEFINE row == [status |-> "TRANSCRIBING", keys |-> draft[d].keys \cup {"episode"}]
  <2>1. ObjectOf(d, "episode") \in blobs
    BY <1>5 DEF IInv, VoicesFit, AwaitsAudio
  <2>2. row \in Draft
    BY <1>1 DEF Draft, Statuses, Kinds
  <2>3. draft' = [draft EXCEPT ![d] = row]
    BY <1>1, <1>5 DEF Completed
  <2> QED
    BY <1>3, <1>5, <2>1, <2>2, <2>3
<1>6. CASE ~AwaitsAudio(d) /\ (Failed(d) \/ Completed(d))
  BY <1>1, <1>6 DEF Failed, Completed
<1> QED
  BY <1>2, <1>4, <1>5, <1>6

LEMMA DeliverFits ==
  ASSUME IInv, NEW w \in Consumers, NEW m \in Messages, Deliver(w, m)
  PROVE  IInv'
<1> DEFINE y == [pc |-> "starting", draft |-> m.draft, attempts |-> m.attempts]
<1>1. WorkerFits(y) /\ m.draft \in Drafts
  BY NoneAssumption DEF WorkerFits, Consumer, Messages
<1>2. /\ AudioFits'
      /\ \A v \in Consumers : worker'[v] = IF v = w THEN y ELSE worker[v]
  BY <1>1, WorkerWritten DEF Deliver, IInv, AudioFits
<1>3. DataFit'
  BY DEF Deliver, caller, published, DataFit, IInv
<1>4. \A d \in Drafts : Known(d)' => Known(d)
  BY <1>2 DEF Deliver, Known, Queued, Worked, Delayed
<1>5. \A d \in Drafts : Announced(d)' => Announced(d)
  BY <1>2 DEF Deliver, Announced
<1> QED
  BY <1>2, <1>3, <1>4, <1>5, AudioMoves DEF Deliver, published

\* A consumer goes on, with or without an episode that it has just stored.
LEMMA WorkerGoes ==
  ASSUME IInv, NEW w \in Consumers, worker[w].pc # "idle",
         NEW pc \in {"stitching", "completing", "failing"}, WorkerGoTo(w, pc),
         pc = "completing" => ObjectOf(worker[w].draft, "episode") \in blobs',
         blobs' \in {blobs, WithEpisode(worker[w].draft)},
         UNCHANGED <<caller, draft, handler, queue, published, abandoned>>,
         late' \subseteq Callbacks,
         \A c \in late' : c \in late \/
           (c.draft = worker[w].draft /\ worker[w].pc = "completing"),
         UNCHANGED faults \/ Fault
  PROVE  IInv'
<1> DEFINE y == [worker[w] EXCEPT !.pc = pc]
<1>1. worker[w] \in Consumer /\ worker[w].draft \in Drafts /\ worker[w].draft # None
  BY BusyWorker
<1>2. y \in Consumer /\ y.pc = pc /\ y.draft = worker[w].draft
  BY <1>1 DEF Consumer
<1>3. WorkerFits(y) /\ worker' = [worker EXCEPT ![w] = y]
  BY <1>1, <1>2 DEF WorkerFits, WorkerGoTo
<1>4. /\ AudioFits'
      /\ \A v \in Consumers : worker'[v] = IF v = w THEN y ELSE worker[v]
  BY <1>3, WorkerWritten DEF IInv, AudioFits
<1>5. blobs \subseteq blobs' /\ DataFit'
  BY <1>1, FaultFits
  DEF WithEpisode, ObjectOf, Kinds, caller, published, DataFit, IInv
<1>6. \A d \in Drafts : Known(d)' => Known(d)
  BY <1>1, <1>2, <1>4 DEF Known, Queued, Worked, Delayed
<1>7. \A d \in Drafts : Announced(d)' =>
        Announced(d) \/ ObjectOf(d, "episode") \in blobs'
  BY <1>2, <1>4 DEF Announced
<1> QED
  BY <1>4, <1>5, <1>6, <1>7, AudioMoves

\* A consumer ends, with its callback handled or not, and its message may return.
LEMMA WorkerLeaves ==
  ASSUME IInv, NEW w \in Consumers, worker[w].pc # "idle",
         worker' = [worker EXCEPT ![w] = NoJob],
         WorkerFits(NoJob), NoJob.pc = "idle", NoJob.draft = None,
         queue' \subseteq Messages,
         \A m \in queue' : m \in queue \/ m.draft = worker[w].draft,
         late' \subseteq Callbacks,
         \A c \in late' : c \in late \/ (c.draft = worker[w].draft /\ c.event = "failed"),
         draft' \in [Drafts -> Draft],
         \A f \in Drafts : draft'[f] = draft[f] \/ Advances(f),
         UNCHANGED <<caller, blobs, handler, published, abandoned>>,
         UNCHANGED faults \/ Fault
  PROVE  IInv'
<1>1. worker[w].draft \in Drafts /\ Known(worker[w].draft)
  BY BusyWorker
<1>2. /\ AudioFits'
      /\ \A v \in Consumers : worker'[v] = IF v = w THEN NoJob ELSE worker[v]
  BY ZenonT(30), WorkerWritten
<1>3. DataFit'
  BY FaultFits DEF caller, published, DataFit, IInv
<1>4. \A d \in Drafts : Known(d)' => Known(d)
  <2> SUFFICES ASSUME NEW d \in Drafts, Known(d)'
               PROVE  d = worker[w].draft \/ Known(d)
    BY <1>1
  <2>1. d # None
    BY NoneAssumption
  <2> QED
    BY <1>2, <2>1 DEF Known, Queued, Worked, Delayed
<1>5. \A d \in Drafts : Announced(d)' => Announced(d)
  BY <1>2 DEF Announced
<1> QED
  BY <1>2, <1>3, <1>4, <1>5, AudioMoves

LEMMA SendFits ==
  ASSUME IInv, NEW w \in Consumers, SendStarted(w) \/ SendCompleted(w) \/ SendFailed(w)
  PROVE  IInv'
<1>1. worker[w].pc # "idle" /\ late \subseteq Callbacks /\ queue \subseteq Messages
  BY DEF SendStarted, SendCompleted, SendFailed, IInv, AudioFits
<1>2. worker[w].draft \in Drafts /\ Known(worker[w].draft)
  BY <1>1, BusyWorker
<1>3. CASE SendStarted(w)
  BY <1>1, <1>3, WorkerGoes DEF SendStarted
<1>4. CASE SendCompleted(w)
  <2>1. Announced(worker[w].draft)
    BY <1>4 DEF SendCompleted, Announced
  <2>2. /\ draft' \in [Drafts -> Draft]
        /\ \A f \in Drafts : draft'[f] = draft[f] \/ Advances(f)
    BY <1>2, <1>4, <2>1, CallbackAdvances DEF SendCompleted
  <2>3. /\ worker' = [worker EXCEPT ![w] = NoJob]
        /\ WorkerFits(NoJob) /\ NoJob.pc = "idle" /\ NoJob.draft = None
    BY <1>4, DeliveriesAssumption
    DEF SendCompleted, WorkerEnds, NoJob, WorkerFits, Consumer
  <2> QED
    BY <1>1, <1>4, <2>2, <2>3, WorkerLeaves DEF SendCompleted
<1>5. CASE SendFailed(w)
  <2>1. /\ draft' \in [Drafts -> Draft]
        /\ \A f \in Drafts : draft'[f] = draft[f] \/ Advances(f)
    BY <1>2, <1>5, CallbackAdvances DEF SendFailed
  <2>2. /\ queue' \subseteq Messages
        /\ \A m \in queue' : m \in queue \/ m.draft = worker[w].draft
        /\ worker' = [worker EXCEPT ![w] = NoJob]
        /\ WorkerFits(NoJob) /\ NoJob.pc = "idle" /\ NoJob.draft = None
    BY <1>1, <1>5, RetryFits DEF SendFailed
  <2> QED
    BY <1>1, <1>5, <2>1, <2>2, WorkerLeaves DEF SendFailed
<1> QED
  BY <1>3, <1>4, <1>5

LEMMA StitchFits ==
  ASSUME IInv, NEW w \in Consumers, Stitch(w) \/ StitchFails(w)
  PROVE  IInv'
<1> DEFINE d == worker[w].draft
<1>1. worker[w].pc # "idle" /\ late \subseteq Callbacks
  BY DEF Stitch, StitchFails, IInv, AudioFits
<1>2. CASE Stitch(w) /\ Stitchable(d)
  <2>1. blobs' = WithEpisode(d) /\ ObjectOf(d, "episode") \in blobs'
    BY <1>2 DEF Stitch, WithEpisode
  <2> QED
    BY <1>1, <1>2, <2>1, WorkerGoes DEF Stitch
<1>3. CASE Stitch(w) /\ ~Stitchable(d)
  BY <1>1, <1>3, WorkerGoes DEF Stitch
<1>4. CASE StitchFails(w)
  BY <1>1, <1>4, WorkerGoes DEF StitchFails
<1> QED
  BY <1>2, <1>3, <1>4

LEMMA CallbackTimesOutFits ==
  ASSUME IInv, NEW w \in Consumers, CallbackTimesOut(w)
  PROVE  IInv'
<1> DEFINE Unanswered(event) ==
             late' = late \cup {[draft |-> worker[w].draft, event |-> event]}
<1>1. worker[w].pc # "idle" /\ late \subseteq Callbacks /\ queue \subseteq Messages
  BY DEF CallbackTimesOut, IInv, AudioFits
<1>2. worker[w].draft \in Drafts /\ draft \in [Drafts -> Draft]
  BY <1>1, BusyWorker DEF IInv, DataFit
<1>3. \A event \in {"completed", "failed"} : Unanswered(event) =>
        /\ late' \subseteq Callbacks
        /\ \A c \in late' : c \in late \/ (c.draft = worker[w].draft /\ c.event = event)
  BY <1>1, <1>2 DEF Callbacks
<1>4. /\ Fault
      /\ UNCHANGED <<caller, draft, blobs, handler, published, abandoned>>
  BY DEF CallbackTimesOut
<1>5. CASE worker[w].pc = "starting" /\ WorkerGoTo(w, "failing")
           /\ UNCHANGED <<queue, late>>
  BY <1>1, <1>4, <1>5, WorkerGoes
<1>6. CASE worker[w].pc = "completing" /\ Unanswered("completed")
           /\ WorkerGoTo(w, "failing") /\ UNCHANGED queue
  BY <1>1, <1>3, <1>4, <1>6, WorkerGoes
<1>7. CASE worker[w].pc = "failing" /\ Unanswered("failed") /\ Retry(w)
  <2>1. /\ queue' \subseteq Messages
        /\ \A m \in queue' : m \in queue \/ m.draft = worker[w].draft
        /\ worker' = [worker EXCEPT ![w] = NoJob]
        /\ WorkerFits(NoJob) /\ NoJob.pc = "idle" /\ NoJob.draft = None
    BY <1>1, <1>7, RetryFits
  <2> QED
    BY <1>1, <1>2, <1>3, <1>4, <1>7, <2>1, WorkerLeaves
<1> QED
  BY <1>5, <1>6, <1>7 DEF CallbackTimesOut

LEMMA WorkerCrashesFits ==
  ASSUME IInv, NEW w \in Consumers, WorkerCrashes(w)
  PROVE  IInv'
<1>1. /\ worker[w].pc # "idle" /\ late \subseteq Callbacks
      /\ draft \in [Drafts -> Draft]
  BY DEF WorkerCrashes, IInv, AudioFits, DataFit
<1>2. /\ queue' \subseteq Messages
      /\ \A m \in queue' : m \in queue \/ m.draft = worker[w].draft
      /\ worker' = [worker EXCEPT ![w] = NoJob]
      /\ WorkerFits(NoJob) /\ NoJob.pc = "idle" /\ NoJob.draft = None
  BY <1>1, RetryFits DEF WorkerCrashes
<1> QED
  BY <1>1, <1>2, WorkerLeaves DEF WorkerCrashes

LEMMA LateCallbackFits ==
  ASSUME IInv, NEW c \in Callbacks, LateCallback(c)
  PROVE  IInv'
<1>1. c.draft \in Drafts /\ Known(c.draft)
  BY DEF LateCallback, Callbacks, Known, Delayed
<1>2. c.event = "completed" => Announced(c.draft)
  BY DEF LateCallback, Announced
<1>3. /\ draft' \in [Drafts -> Draft]
      /\ \A f \in Drafts : draft'[f] = draft[f] \/ Advances(f)
  BY <1>1, <1>2, CallbackAdvances DEF LateCallback
<1>4. AudioFits'
  BY DEF LateCallback, AudioFits, IInv
<1>5. DataFit'
  BY <1>3 DEF LateCallback, caller, published, DataFit, IInv
<1>6. \A d \in Drafts : Known(d)' => Known(d)
  BY DEF LateCallback, Known, Queued, Worked, Delayed
<1>7. \A d \in Drafts : Announced(d)' => Announced(d)
  BY DEF LateCallback, Announced
<1> QED
  BY <1>3, <1>4, <1>5, <1>6, <1>7, AudioMoves DEF LateCallback

LEMMA TranscriptionEndsFits ==
  ASSUME IInv, NEW d \in Drafts, TranscriptionEnds(d)
  PROVE  IInv'
<1>1. draft \in [Drafts -> Draft] /\ d \in Rows
  BY DEF IInv, DataFit, TranscriptionEnds, Rows
<1>2. PICK s \in {"READY", "ERROR"} : draft' = [draft EXCEPT ![d].status = s]
  BY DEF TranscriptionEnds
<1> DEFINE row == [draft[d] EXCEPT !.status = s]
<1>3. row \in Draft /\ row.status = s /\ row.keys = draft[d].keys
  BY <1>1 DEF Draft, Statuses
<1>4. /\ draft' \in [Drafts -> Draft]
      /\ \A f \in Drafts : draft'[f] = IF f = d THEN row ELSE draft[f]
  BY <1>1, <1>2, <1>3
<1>5. \A a \in Admins : Owning(a) => handler[a].draft # d
  BY DEF IInv, OwnersFit, TranscriptionEnds
<1>6. Advances(d)
  BY <1>1, <1>3, <1>4, <1>5 DEF Advances
<1>7. AudioFits' /\ DataFit'
  BY <1>4 DEF TranscriptionEnds, audio, caller, published, AudioFits, DataFit, IInv
<1> QED
  BY <1>4, <1>6, <1>7, AudioMoves
  DEF TranscriptionEnds, audio, Known, Queued, Worked, Delayed, Announced

-----------------------------------------------------------------------------

LEMMA InitFits == Init => IInv
<1> SUFFICES ASSUME Init PROVE IInv
  OBVIOUS
<1>1. Absent \in Draft /\ Absent.status = "ABSENT" /\ Rows = {}
  BY DEF Absent, Draft, Statuses, Init, Rows
<1>2. \A d \in Drafts : draft[d].status = "ABSENT"
  BY <1>1 DEF Init
<1>3. /\ NoRequest.pc = "idle"
      /\ \A a \in Admins : handler[a] = NoRequest
  BY DEF Init, NoRequest
<1>4. HandlersFit
  BY <1>3, NoRequestFits DEF Init, HandlersFit, HandlerFits
<1>5. NoJob \in Consumer /\ NoJob.pc = "idle"
  BY DeliveriesAssumption DEF NoJob, Consumer
<1>6. AudioFits
  BY <1>5 DEF Init, AudioFits, WorkerFits
<1>7. DataFit
  BY <1>1, FaultsAssumption DEF Init, DataFit
<1>8. CallFits /\ KeysFit /\ MakingFits /\ ObjectsFit
  BY <1>1, <1>3 DEF Init, CallFits, KeysFit, MakingFits, ObjectsFit
<1>9. OwnersFit /\ CreatorsFit
  BY <1>3 DEF OwnersFit, CreatorsFit, Holding, Owning
<1>10. VoicesFit
  BY <1>2 DEF VoicesFit
<1>11. CountFits
  <2>1. Unrecorded = {}
    BY DEF Init, Unrecorded
  <2> QED
    BY <2>1, FS_EmptySet DEF CountFits, Init
<1> QED
  BY <1>4, <1>6, <1>7, <1>8, <1>9, <1>10, <1>11 DEF IInv

LEMMA StepFits == IInv /\ [Next]_vars => IInv'
<1> SUFFICES ASSUME IInv, [Next]_vars PROVE IInv'
  OBVIOUS
<1>1. ASSUME NEW a \in Admins, Request(a)
      PROVE  IInv'
  BY <1>1, BeginFits, BeginPublishFits DEF Request
<1>2. ASSUME NEW a \in Admins, HandlerStep(a)
      PROVE  IInv'
  BY <1>2, ReadExistingFits, ClearObjectsFits, DropDraftFits, CreateDraftFits,
     StoreResponseFits, KeyResponseFits, RequestAudioFits, ExcuseFits,
     CallRemovedFits, CleanUpFits, FetchAudioFits, ProduceFits, RecordEpisodeFits
  DEF HandlerStep
<1>3. ASSUME NEW a \in Admins, HandlerFault(a)
      PROVE  IInv'
  BY <1>3, StoreFailsFits, RequestAudioFits, ProduceFits, ProduceFailsFits,
     HandlerBreaksFits
  DEF HandlerFault
<1>4. ASSUME NEW w \in Consumers,
             WorkerStep(w) \/ WorkerFault(w) \/ \E m \in Messages : Deliver(w, m)
      PROVE  IInv'
  BY <1>4, DeliverFits, SendFits, StitchFits, CallbackTimesOutFits, WorkerCrashesFits
  DEF WorkerStep, WorkerFault
<1>5. CASE \E c \in Callbacks : LateCallback(c)
  BY <1>5, LateCallbackFits
<1>6. CASE \E d \in Drafts : TranscriptionEnds(d)
  BY <1>6, TranscriptionEndsFits
<1>7. CASE UNCHANGED vars
  <2>1. AudioFits' /\ DataFit'
    BY <1>7 DEF vars, audio, caller, published, AudioFits, DataFit, IInv
  <2> QED
    BY <1>7, <2>1, AudioMoves
    DEF vars, audio, Known, Queued, Worked, Delayed, Announced
<1> QED
  BY <1>1, <1>2, <1>3, <1>4, <1>5, <1>6, <1>7 DEF Next

LEMMA InvariantHolds == Spec => []IInv
<1> QED
  BY InitFits, StepFits, PTL DEF Spec

\* Every variable keeps a value of its kind, for any drafts, requests, consumers
\* and faults.
THEOREM EpisodeTypeCorrect == Spec => []TypeOK
<1>1. IInv => TypeOK
  BY DEF IInv, DataFit, HandlersFit, AudioFits, TypeOK
<1> QED
  BY <1>1, InvariantHolds, PTL

\* What a row names is in the bucket, whichever requests, uploads and callbacks
\* overlap, unless a removal of that very draft is under way or stopped half way.
THEOREM AudioCorrect == Spec => []AudioIsThere
<1>1. IInv => AudioIsThere
  BY DEF IInv, CallFits, ObjectsFit, AudioIsThere
<1> QED
  BY <1>1, InvariantHolds, PTL

\* No more episodes are without a record, or a request about to write it, than
\* there were faults.
THEOREM AccountsCorrect == Spec => []EpisodesAreAccountedFor
<1>1. IInv => EpisodesAreAccountedFor
  BY DEF IInv, CountFits, Unrecorded, EpisodesAreAccountedFor
<1> QED
  BY <1>1, InvariantHolds, PTL

-----------------------------------------------------------------------------
(* The direction in which drafts move.                                     *)

Forward(d) ==
  draft'[d].status \in {draft[d].status, "ABSENT"} \cup After[draft[d].status]

LEMMA WriteIsForward ==
  ASSUME IInv, NEW d \in Rows, NEW f \in Drafts, NEW row \in Draft,
         draft' = [draft EXCEPT ![f] = row],
         \/ row.status \in {draft[f].status, "ABSENT"}
         \/ draft[f].status = "AUDIO" /\ row.status \in {"TRANSCRIBING", "ERROR"}
         \/ draft[f].status = "TRANSCRIBING" /\ row.status \in {"READY", "ERROR"}
  PROVE  Forward(d)
<1>1. draft \in [Drafts -> Draft] /\ d \in Drafts
  BY DEF IInv, DataFit, Rows
<1>2. draft'[d] = IF d = f THEN row ELSE draft[d]
  BY <1>1
<1> QED
  BY <1>2 DEF Forward, After

LEMMA CallbackIsForward ==
  ASSUME IInv, NEW d \in Rows, NEW f \in Drafts,
         UNCHANGED draft \/ Failed(f) \/ Completed(f)
  PROVE  Forward(d)
<1>1. draft[f] \in Draft
  BY DEF IInv, DataFit
<1>2. CASE UNCHANGED draft
  BY <1>2 DEF Forward
<1>3. CASE Failed(f) /\ AwaitsAudio(f)
  <2> DEFINE row == [draft[f] EXCEPT !.status = "ERROR"]
  <2>1. row \in Draft /\ row.status = "ERROR"
    BY <1>1 DEF Draft, Statuses
  <2>2. draft' = [draft EXCEPT ![f] = row]
    BY <1>3 DEF Failed
  <2> QED
    BY <1>3, <2>1, <2>2, WriteIsForward DEF AwaitsAudio
<1>4. CASE Completed(f) /\ AwaitsAudio(f)
  <2> DEFINE row == [status |-> "TRANSCRIBING", keys |-> draft[f].keys \cup {"episode"}]
  <2>1. row \in Draft /\ row.status = "TRANSCRIBING"
    BY <1>1 DEF Draft, Statuses, Kinds
  <2>2. draft' = [draft EXCEPT ![f] = row]
    BY <1>4 DEF Completed
  <2> QED
    BY <1>4, <2>1, <2>2, WriteIsForward DEF AwaitsAudio
<1>5. CASE ~AwaitsAudio(f) /\ (Failed(f) \/ Completed(f))
  BY <1>5 DEF Failed, Completed, Forward
<1> QED
  BY <1>2, <1>3, <1>4, <1>5

LEMMA HandlerIsForward ==
  ASSUME IInv, NEW d \in Rows, NEW a \in Admins,
         Request(a) \/ HandlerStep(a) \/ HandlerFault(a)
  PROVE  Forward(d)
<1>1. draft \in [Drafts -> Draft] /\ d \in Drafts
  BY DEF IInv, DataFit, Rows
<1>2. HandlerFits(handler[a], episodes) /\ handler[a] \in Handler
  BY DEF IInv, HandlersFit, HandlerFits
<1>3. CASE UNCHANGED draft
  BY <1>3 DEF Forward
<1>4. CASE DropDraft(a) \/ DeleteRow(a) \/ CloseCall(a)
  <2>1. Rows' = {} /\ draft' \in [Drafts -> Draft]
    BY <1>4, RowsAreRemoved DEF DropDraft, DeleteRow, CloseCall
  <2>2. draft'[d].status = "ABSENT"
    BY <1>1, <2>1 DEF Rows
  <2> QED
    BY <2>2 DEF Forward
<1>5. CASE CreateDraft(a)
  BY <1>5, <1>3 DEF CreateDraft
<1>6. CASE KeyResponse(a)
  <2> DEFINE f == handler[a].draft
             row == [status |-> "AUDIO", keys |-> draft[f].keys \cup {"response"}]
  <2>1. f \in Drafts
    BY <1>2, <1>6 DEF HandlerFits, Handler, KeyResponse
  <2>2. draft[f].status \in {"ABSENT", "AUDIO"}
    BY <1>6, <2>1 DEF IInv, OwnersFit, Owning, KeyResponse
  <2>3. row \in Draft /\ row.status = "AUDIO"
    BY <1>1, <2>1 DEF Draft, Statuses, Kinds
  <2>4. CASE draft[f].status = "AUDIO"
    <3>1. draft' = [draft EXCEPT ![f] = row]
      BY <1>1, <1>6, <2>1, <2>4 DEF KeyResponse, Processing
    <3> QED
      BY <2>1, <2>3, <2>4, <3>1, WriteIsForward
  <2>5. CASE draft[f].status = "ABSENT"
    BY <1>3, <1>6, <2>5 DEF KeyResponse, Processing
  <2> QED
    BY <2>2, <2>4, <2>5
<1>7. CASE Excuse(a)
  <2> DEFINE f == handler[a].draft
             row == [draft[f] EXCEPT !.status = "ERROR"]
  <2>1. f \in Drafts
    BY <1>2, <1>7 DEF HandlerFits, Handler, Excuse
  <2>2. row \in Draft /\ row.status = "ERROR"
    BY <1>1, <2>1 DEF Draft, Statuses
  <2>3. CASE draft[f].status \in Processing
    <3>1. draft' = [draft EXCEPT ![f] = row]
      BY <1>7, <2>3 DEF Excuse
    <3> QED
      BY <2>1, <2>2, <2>3, <3>1, WriteIsForward DEF Processing
  <2>4. CASE draft[f].status \notin Processing
    BY <1>3, <1>7, <2>4 DEF Excuse
  <2> QED
    BY <2>3, <2>4
<1>8. \/ UNCHANGED draft
      \/ DropDraft(a) \/ DeleteRow(a) \/ CloseCall(a) \/ CreateDraft(a)
      \/ KeyResponse(a) \/ Excuse(a)
  BY DEF Request, BeginRecord, BeginUndo, BeginDelete, BeginPublish,
         HandlerStep, ReadExisting, ClearObjects, StoreResponse, RequestAudio,
         CleanUp, FetchAudio, ProduceEpisode, RecordEpisode, HandlerFault,
         StoreFails, RequestAudioFails, ProduceTwice, ProduceFails, HandlerBreaks
<1> QED
  BY <1>3, <1>4, <1>5, <1>6, <1>7, <1>8

LEMMA WorkerIsForward ==
  ASSUME IInv, NEW d \in Rows, NEW w \in Consumers,
         WorkerStep(w) \/ WorkerFault(w) \/ \E m \in Messages : Deliver(w, m)
  PROVE  Forward(d)
<1>1. CASE UNCHANGED draft
  BY <1>1 DEF Forward
<1>2. CASE SendCompleted(w) \/ SendFailed(w)
  <2>1. worker[w].draft \in Drafts
    BY <1>2, BusyWorker DEF SendCompleted, SendFailed
  <2> QED
    BY <1>2, <2>1, CallbackIsForward DEF SendCompleted, SendFailed
<1>3. UNCHANGED draft \/ SendCompleted(w) \/ SendFailed(w)
  BY DEF WorkerStep, SendStarted, Stitch, WorkerFault, StitchFails,
         CallbackTimesOut, WorkerCrashes, Deliver
<1> QED
  BY <1>1, <1>2, <1>3

LEMMA StepIsForward ==
  ASSUME IInv, [Next]_vars, NEW d \in Rows
  PROVE  Forward(d)
<1>1. CASE \E a \in Admins : Request(a) \/ HandlerStep(a) \/ HandlerFault(a)
  BY <1>1, HandlerIsForward
<1>2. CASE \E w \in Consumers :
             WorkerStep(w) \/ WorkerFault(w) \/ \E m \in Messages : Deliver(w, m)
  BY <1>2, WorkerIsForward
<1>3. ASSUME NEW c \in Callbacks, LateCallback(c)
      PROVE  Forward(d)
  <2>1. c.draft \in Drafts
    BY DEF Callbacks
  <2> QED
    BY <1>3, <2>1, CallbackIsForward DEF LateCallback
<1>4. ASSUME NEW f \in Drafts, TranscriptionEnds(f)
      PROVE  Forward(d)
  <2>1. PICK s \in {"READY", "ERROR"} : draft' = [draft EXCEPT ![f].status = s]
    BY <1>4 DEF TranscriptionEnds
  <2> DEFINE row == [draft[f] EXCEPT !.status = s]
  <2>2. row \in Draft /\ row.status = s
    BY DEF IInv, DataFit, Draft, Statuses
  <2>3. draft' = [draft EXCEPT ![f] = row]
    BY <2>1
  <2> QED
    BY <1>4, <2>2, <2>3, WriteIsForward DEF TranscriptionEnds
<1>5. CASE UNCHANGED vars
  BY <1>5 DEF vars, Forward
<1> QED
  BY <1>1, <1>2, <1>3, <1>4, <1>5 DEF Next

\* A draft only moves forward, and READY and ERROR are final, whatever comes late
\* or twice.
THEOREM ForwardCorrect == Spec => DraftsMoveForward
<1>1. IInv /\ [Next]_vars =>
        [\A d \in Rows :
           draft'[d].status \in {draft[d].status, "ABSENT"} \cup
                                After[draft[d].status]]_vars
  BY StepIsForward DEF Forward
<1> QED
  BY <1>1, InvariantHolds, PTL DEF Spec, DraftsMoveForward

-----------------------------------------------------------------------------
(* The requests and the worker implement CallLife.                         *)

\* The audio of draft d has been asked for, or is about to be.
Asked(d) ==
  Known(d) \/ \E a \in Admins : handler[a].pc = "requesting" /\ handler[a].draft = d

\* A draft whose audio is asked for has its response and nothing else; one that is
\* transcribed has everything; one that is not there has nothing.
RowFits(d) ==
  /\ draft[d].status = "AUDIO" /\ Asked(d) => draft[d].keys = {"response"}
  /\ draft[d].status = "TRANSCRIBING" => draft[d].keys = Kinds
  /\ draft[d].status = "ABSENT" => draft[d].keys = {}

\* A request closes the call with an episode that it has recorded.
ClosersFit == \A a \in Admins : handler[a].pc = "closing" => recorded # {}

LifeFits == ClosersFit /\ \A d \in Drafts : RowFits(d)

\* What CallLife tells apart changes as it says, or not at all.
Lives == Life!Next \/ UNCHANGED Life!life

LEMMA RowIs ==
  ASSUME IInv, NEW d \in Drafts
  PROVE  /\ draft[d] \in Draft
         /\ draft[d] = [status |-> draft[d].status, keys |-> draft[d].keys]
BY DEF IInv, DataFit, Draft

LEMMA NoRows ==
  ASSUME IInv, LifeFits, Rows = {}
  PROVE  draft = Life!NoDrafts
<1>1. \A d \in Drafts : draft[d] = Absent
  BY RowIs DEF Rows, LifeFits, RowFits, Absent
<1> QED
  BY <1>1 DEF IInv, DataFit, Life!NoDrafts, Life!Absent, Absent

\* Rows are written to their end or not at all, and nothing new is asked for.
LEMMA RowsKept ==
  ASSUME LifeFits,
         \A d \in Drafts : Asked(d)' => Asked(d),
         \A d \in Drafts : \/ draft'[d] = draft[d]
                           \/ draft'[d] = Absent
                           \/ draft'[d].status \in {"READY", "ERROR"}
                           \/ draft'[d].status = "TRANSCRIBING" /\ draft'[d].keys = Kinds
  PROVE  \A d \in Drafts : RowFits(d)'
BY DEF LifeFits, RowFits, Absent

LEMMA ReadingWrites ==
  ASSUME NEW a \in Admins, NEW intent, NEW pc, ReadsDraft(a, intent, pc)
  PROVE  \E x : Writes(a, x) /\ x.pc = pc
<1>1. CASE Writes(a, [NoRequest EXCEPT !.pc = pc, !.intent = intent])
  <2> DEFINE x == [NoRequest EXCEPT !.pc = pc, !.intent = intent]
  <2>1. x.pc = pc
    BY DEF NoRequest
  <2> QED
    BY <1>1, <2>1
<1>2. ASSUME NEW d \in Rows,
             Writes(a, [NoRequest EXCEPT !.pc = pc, !.intent = intent,
                                         !.draft = d, !.keys = draft[d].keys])
      PROVE  \E x : Writes(a, x) /\ x.pc = pc
  <2> DEFINE x == [NoRequest EXCEPT !.pc = pc, !.intent = intent,
                                    !.draft = d, !.keys = draft[d].keys]
  <2>1. x.pc = pc
    BY DEF NoRequest
  <2> QED
    BY <1>2, <2>1
<1> QED
  BY <1>1, <1>2 DEF ReadsDraft, Writes

LEMMA PublishingWrites ==
  ASSUME NEW a \in Admins, BeginPublish(a)
  PROVE  \E x : Writes(a, x) /\ x.pc = "fetching"
<1>1. PICK d \in Rows :
        Writes(a, [NoRequest EXCEPT !.pc = "fetching", !.intent = "publish",
                                    !.draft = d, !.keys = draft[d].keys])
  BY DEF BeginPublish, Writes
<1> DEFINE x == [NoRequest EXCEPT !.pc = "fetching", !.intent = "publish",
                                  !.draft = d, !.keys = draft[d].keys]
<1>2. x.pc = "fetching"
  BY DEF NoRequest
<1> QED
  BY <1>1, <1>2

\* No other step of a request asks for audio or is about to close the call.
LEMMA PcsKept ==
  ASSUME IInv, NEW a \in Admins, Request(a) \/ HandlerStep(a) \/ HandlerFault(a),
         ~KeyResponse(a), ~RecordEpisode(a)
  PROVE  \A b \in Admins : \/ handler'[b] = handler[b]
                           \/ handler'[b].pc \notin {"requesting", "closing"}
<1> DEFINE Kept == \A b \in Admins : \/ handler'[b] = handler[b]
                                     \/ handler'[b].pc \notin {"requesting", "closing"}
<1>1. handler \in [Admins -> Handler]
  BY DEF IInv, HandlersFit
<1>2. \A x : Writes(a, x) /\ x.pc \notin {"requesting", "closing"} => Kept
  BY <1>1 DEF Writes
<1>3. ASSUME NEW pc, GoTo(a, pc), pc \notin {"requesting", "closing"}
      PROVE  Kept
  <2> DEFINE x == [handler[a] EXCEPT !.pc = pc]
  <2>1. Writes(a, x) /\ x.pc = pc
    BY <1>1, <1>3 DEF GoTo, Writes, Handler
  <2> QED
    BY <1>2, <1>3, <2>1
<1>4. Finish(a) => Kept
  <2>1. NoRequest.pc = "idle"
    BY DEF NoRequest
  <2> QED
    BY <1>2, <2>1 DEF Finish, Writes
<1>5. ASSUME NEW intent, NEW pc, ReadsDraft(a, intent, pc),
             pc \notin {"requesting", "closing"}
      PROVE  Kept
  <2>1. PICK x : Writes(a, x) /\ x.pc = pc
    BY <1>5, ReadingWrites
  <2> QED
    BY <1>2, <1>5, <2>1
<1>6. CASE BeginRecord(a)
  <2> DEFINE x == [NoRequest EXCEPT !.pc = "reading", !.intent = "record"]
  <2>1. Writes(a, x) /\ x.pc = "reading"
    BY <1>6 DEF BeginRecord, Writes, NoRequest
  <2> QED
    BY <1>2, <2>1
<1>7. CASE BeginPublish(a)
  <2>1. PICK x : Writes(a, x) /\ x.pc = "fetching"
    BY <1>7, PublishingWrites
  <2> QED
    BY <1>2, <2>1
<1>8. CASE DropDraft(a)
  <2> DEFINE x == [NoRequest EXCEPT !.pc = "creating", !.intent = "record"]
  <2>1. x.pc = "creating"
    BY DEF NoRequest
  <2>2. Finish(a) \/ Writes(a, x)
    BY <1>8 DEF DropDraft, Writes
  <2> QED
    BY <1>2, <1>4, <2>1, <2>2
<1>9. CASE CreateDraft(a)
  <2>1. ASSUME NEW d \in FreshDrafts,
               handler' = [handler EXCEPT ![a].pc = "storing", ![a].draft = d]
        PROVE  Kept
    <3> DEFINE x == [handler[a] EXCEPT !.pc = "storing", !.draft = d]
    <3>1. x.pc = "storing"
      BY <1>1 DEF Handler
    <3>2. Writes(a, x)
      BY <1>1, <2>1 DEF Writes
    <3> QED
      BY <1>2, <3>1, <3>2
  <2> QED
    BY <1>4, <1>9, <2>1 DEF CreateDraft
<1>10. CASE ProduceEpisode(a) \/ ProduceTwice(a)
  <2>1. PICK e \in Episodes :
          handler' = [handler EXCEPT ![a].pc = "recording", ![a].episode = e]
    BY <1>10 DEF ProduceEpisode, ProduceTwice
  <2> DEFINE x == [handler[a] EXCEPT !.pc = "recording", !.episode = e]
  <2>2. x.pc = "recording"
    BY <1>1 DEF Handler
  <2>3. Writes(a, x)
    BY <1>1, <2>1 DEF Writes
  <2> QED
    BY <1>2, <2>2, <2>3
<1>11. CASE Request(a)
  BY <1>5, <1>6, <1>7, <1>11 DEF Request, BeginUndo, BeginDelete
<1>12. CASE HandlerStep(a)
  BY <1>3, <1>4, <1>5, <1>8, <1>9, <1>10, <1>12
  DEF HandlerStep, ReadExisting, ClearObjects, StoreResponse, RequestAudio, Excuse,
      DeleteRow, CleanUp, FetchAudio, CloseCall
<1>13. CASE HandlerFault(a)
  BY <1>3, <1>4, <1>10, <1>13
  DEF HandlerFault, StoreFails, RequestAudioFails, ProduceFails, HandlerBreaks
<1> QED
  BY <1>11, <1>12, <1>13

\* Only a request that asks for audio puts a message into the queue.
LEMMA HandlerAsks ==
  ASSUME IInv, NEW a \in Admins, Request(a) \/ HandlerStep(a) \/ HandlerFault(a),
         ~KeyResponse(a), NEW d \in Drafts, Asked(d)'
  PROVE  Asked(d)
<1>1. handler \in [Admins -> Handler]
  BY DEF IInv, HandlersFit
<1>2. UNCHANGED <<worker, late>>
  BY DEF Request, BeginRecord, BeginUndo, BeginDelete, BeginPublish, audio,
         HandlerStep, ReadExisting, ClearObjects, DropDraft, CreateDraft,
         StoreResponse, RequestAudio, Excuse, DeleteRow, CleanUp, FetchAudio,
         ProduceEpisode, RecordEpisode, CloseCall, HandlerFault, StoreFails,
         RequestAudioFails, ProduceTwice, ProduceFails, HandlerBreaks, KeyResponse
<1>3. \A b \in Admins : handler'[b] = handler[b] \/ handler'[b].pc # "requesting"
  <2>1. CASE RecordEpisode(a)
    BY <1>1, <2>1 DEF RecordEpisode, Handler
  <2> QED
    BY <2>1, PcsKept
<1>4. CASE UNCHANGED queue
  BY <1>2, <1>3, <1>4 DEF Asked, Known, Queued, Worked, Delayed
<1>5. CASE RequestAudio(a) \/ RequestAudioFails(a)
  <2>1. /\ handler[a].pc = "requesting"
        /\ \A m \in queue' : m \in queue \/ m.draft = handler[a].draft
    BY <1>5 DEF RequestAudio, RequestAudioFails, Enqueued
  <2> QED
    BY <1>2, <1>3, <2>1 DEF Asked, Known, Queued, Worked, Delayed
<1>6. UNCHANGED queue \/ RequestAudio(a) \/ RequestAudioFails(a)
  BY DEF Request, BeginRecord, BeginUndo, BeginDelete, BeginPublish, audio,
         HandlerStep, ReadExisting, ClearObjects, DropDraft, CreateDraft,
         StoreResponse, Excuse, DeleteRow, CleanUp, FetchAudio,
         ProduceEpisode, RecordEpisode, CloseCall, HandlerFault, StoreFails,
         ProduceTwice, ProduceFails, HandlerBreaks, KeyResponse
<1> QED
  BY <1>4, <1>5, <1>6

LEMMA ClosersKept ==
  ASSUME IInv, LifeFits, UNCHANGED recorded,
         \A b \in Admins : handler'[b] = handler[b] \/ handler'[b].pc # "closing"
  PROVE  ClosersFit'
BY DEF LifeFits, ClosersFit

\* The audio side passes on what it knows and learns nothing.
LEMMA AudioKnows ==
  ASSUME IInv, UNCHANGED handler,
         \/ \E w \in Consumers :
              WorkerStep(w) \/ WorkerFault(w) \/ \E m \in Messages : Deliver(w, m)
         \/ \E c \in Callbacks : LateCallback(c)
         \/ UNCHANGED audio,
         NEW d \in Drafts, Asked(d)'
  PROVE  Asked(d)
<1>1. worker \in [Consumers -> Consumer] /\ d # None
  BY NoneAssumption DEF IInv, AudioFits
<1> SUFFICES Known(d)' => Known(d)
  BY DEF Asked
<1>2. ASSUME NEW w \in Consumers, WorkerStep(w) \/ WorkerFault(w)
      PROVE  Known(d)' => Known(d)
  <2>1. \A v \in Consumers : worker'[v].draft \in {worker[v].draft, None}
    <3>1. CASE \E pc : WorkerGoTo(w, pc)
      BY <1>1, <3>1 DEF WorkerGoTo, Consumer
    <3>2. CASE WorkerEnds(w)
      BY <1>1, <3>2 DEF WorkerEnds, NoJob
    <3>3. (\E pc : WorkerGoTo(w, pc)) \/ WorkerEnds(w)
      BY <1>2 DEF WorkerStep, WorkerFault, SendStarted, Stitch, SendCompleted,
                  SendFailed, StitchFails, CallbackTimesOut, WorkerCrashes, Retry
    <3> QED
      BY <3>1, <3>2, <3>3
  <2>2. \A m \in queue' : m \in queue \/ m.draft = worker[w].draft
    BY <1>2 DEF WorkerStep, WorkerFault, SendStarted, Stitch, SendCompleted,
                SendFailed, StitchFails, CallbackTimesOut, WorkerCrashes, Retry
  <2>3. \A c \in late' : c \in late \/ c.draft = worker[w].draft
    BY <1>2 DEF WorkerStep, WorkerFault, SendStarted, Stitch, SendCompleted,
                SendFailed, StitchFails, CallbackTimesOut, WorkerCrashes
  <2> QED
    BY <1>1, <2>1, <2>2, <2>3 DEF Known, Queued, Worked, Delayed
<1>3. ASSUME NEW w \in Consumers, NEW m \in Messages, Deliver(w, m)
      PROVE  Known(d)' => Known(d)
  <2>1. \A v \in Consumers : worker'[v] = worker[v] \/ worker'[v].draft = m.draft
    BY <1>1, <1>3 DEF Deliver
  <2> QED
    BY <1>3, <2>1 DEF Deliver, Known, Queued, Worked, Delayed
<1>4. ASSUME NEW c \in Callbacks, LateCallback(c)
      PROVE  Known(d)' => Known(d)
  BY <1>4 DEF LateCallback, Known, Queued, Worked, Delayed
<1>5. CASE UNCHANGED audio
  BY <1>5 DEF audio, Known, Queued, Worked, Delayed
<1> QED
  BY <1>2, <1>3, <1>4, <1>5

\* A step of draft d as CallLife has it.
LEMMA BecomesIs ==
  ASSUME IInv, NEW d \in Drafts, NEW row, draft' = [draft EXCEPT ![d] = row],
         UNCHANGED <<call, recorded>>
  PROVE  /\ Life!Becomes(d, draft[d], row)
         /\ \A f \in Drafts : draft'[f] = IF f = d THEN row ELSE draft[f]
BY DEF IInv, DataFit, Life!Becomes

LEMMA GivesUp ==
  ASSUME IInv, NEW d \in Drafts, draft[d].status \in {"AUDIO", "TRANSCRIBING"},
         draft' = [draft EXCEPT ![d].status = "ERROR"], UNCHANGED <<call, recorded>>
  PROVE  /\ Life!GiveUp(d)
         /\ \A f \in Drafts : draft'[f] = draft[f] \/ draft'[f].status = "ERROR"
<1> DEFINE row == [status |-> "ERROR", keys |-> draft[d].keys]
<1>1. draft' = [draft EXCEPT ![d] = row]
  <2>1. draft[d] \in [status : Statuses, keys : SUBSET Kinds]
    BY RowIs DEF Draft
  <2>2. [draft[d] EXCEPT !.status = "ERROR"] = row
    BY <2>1
  <2> QED
    BY <2>2
<1>2. /\ Life!Becomes(d, draft[d], row)
      /\ \A f \in Drafts : draft'[f] = IF f = d THEN row ELSE draft[f]
  <2> HIDE DEF row
  <2> QED
    BY <1>1, BecomesIs
<1> QED
  BY <1>2 DEF Life!GiveUp

\* A callback voices the draft, gives it up or is ignored.
LEMMA CallbackLives ==
  ASSUME IInv, LifeFits, NEW d \in Drafts, Known(d), UNCHANGED <<call, recorded>>,
         UNCHANGED draft \/ Failed(d) \/ Completed(d)
  PROVE  /\ Lives
         /\ \A f \in Drafts : \/ draft'[f] = draft[f]
                              \/ draft'[f].status = "ERROR"
                              \/ /\ draft'[f].status = "TRANSCRIBING"
                                 /\ draft'[f].keys = Kinds
<1>1. CASE UNCHANGED draft
  BY <1>1 DEF Lives, Life!life
<1>2. CASE Failed(d) /\ AwaitsAudio(d)
  BY <1>2, GivesUp DEF Failed, AwaitsAudio, Lives, Life!Next
<1>3. CASE Completed(d) /\ AwaitsAudio(d)
  <2> DEFINE row == [status |-> "TRANSCRIBING", keys |-> {"response", "episode"}]
  <2>1. draft[d] = [status |-> "AUDIO", keys |-> {"response"}]
    BY <1>3, RowIs DEF AwaitsAudio, LifeFits, RowFits, Asked
  <2>2. draft' = [draft EXCEPT ![d] = row]
    <3>1. draft[d].keys \cup {"episode"} = {"response", "episode"}
      BY <2>1
    <3> QED
      BY <1>3, <3>1 DEF Completed
  <2>3. /\ Life!Becomes(d, draft[d], row)
        /\ \A f \in Drafts : draft'[f] = IF f = d THEN row ELSE draft[f]
    BY <2>2, BecomesIs
  <2>4. Life!Voice(d)
    BY <2>1, <2>3 DEF Life!Voice
  <2> QED
    BY <2>3, <2>4 DEF Lives, Life!Next, Kinds
<1>4. CASE ~AwaitsAudio(d) /\ (Failed(d) \/ Completed(d))
  BY <1>1, <1>4 DEF Failed, Completed
<1> QED
  BY <1>1, <1>2, <1>3, <1>4

\* The queue, the workers, their callbacks and the transcription.
LEMMA AudioLives ==
  ASSUME IInv, LifeFits,
         \/ \E w \in Consumers :
              WorkerStep(w) \/ WorkerFault(w) \/ \E m \in Messages : Deliver(w, m)
         \/ \E c \in Callbacks : LateCallback(c)
         \/ \E d \in Drafts : TranscriptionEnds(d)
         \/ UNCHANGED vars
  PROVE  Lives /\ LifeFits'
<1> DEFINE Written == \A f \in Drafts : \/ draft'[f] = draft[f]
                                        \/ draft'[f].status \in {"READY", "ERROR"}
                                        \/ /\ draft'[f].status = "TRANSCRIBING"
                                           /\ draft'[f].keys = Kinds
<1>1. UNCHANGED <<call, recorded, handler>>
  BY DEF WorkerStep, WorkerFault, SendStarted, Stitch, SendCompleted, SendFailed,
         StitchFails, CallbackTimesOut, WorkerCrashes, Deliver, LateCallback,
         TranscriptionEnds, vars, caller, published
<1>2. \A f \in Drafts : Asked(f)' => Asked(f)
  <2>1. \/ \E w \in Consumers :
             WorkerStep(w) \/ WorkerFault(w) \/ \E m \in Messages : Deliver(w, m)
        \/ \E c \in Callbacks : LateCallback(c)
        \/ UNCHANGED audio
    BY DEF TranscriptionEnds, vars
  <2> QED
    BY <1>1, <2>1, AudioKnows
<1>3. Lives /\ Written
  <2>1. CASE UNCHANGED draft
    BY <1>1, <2>1 DEF Lives, Life!life
  <2>2. ASSUME NEW w \in Consumers, SendCompleted(w) \/ SendFailed(w)
        PROVE  Lives /\ Written
    <3>1. worker[w].draft \in Drafts /\ Known(worker[w].draft)
      BY <2>2, BusyWorker DEF SendCompleted, SendFailed
    <3> QED
      BY <1>1, <2>2, <3>1, CallbackLives DEF SendCompleted, SendFailed
  <2>3. ASSUME NEW c \in Callbacks, LateCallback(c)
        PROVE  Lives /\ Written
    <3>1. c.draft \in Drafts /\ Known(c.draft)
      BY <2>3 DEF Callbacks, LateCallback, Known, Delayed
    <3>2. UNCHANGED draft \/ Failed(c.draft) \/ Completed(c.draft)
      BY <2>3 DEF LateCallback
    <3> QED
      BY <1>1, <3>1, <3>2, CallbackLives
  <2>4. ASSUME NEW d \in Drafts, TranscriptionEnds(d)
        PROVE  Lives /\ Written
    <3>1. draft[d].status = "TRANSCRIBING" /\ draft[d].keys = {"response", "episode"}
      BY <2>4 DEF TranscriptionEnds, LifeFits, RowFits, Kinds
    <3>2. CASE draft' = [draft EXCEPT ![d].status = "ERROR"]
      BY <1>1, <3>1, <3>2, GivesUp DEF Lives, Life!Next
    <3>3. CASE draft' = [draft EXCEPT ![d].status = "READY"]
      <4> DEFINE row == [status |-> "READY", keys |-> {"response", "episode"}]
      <4>1. draft[d] = [status |-> "TRANSCRIBING", keys |-> {"response", "episode"}]
        BY <3>1, RowIs
      <4>2. draft' = [draft EXCEPT ![d] = row]
        <5>1. [draft[d] EXCEPT !.status = "READY"] = row
          BY <4>1
        <5> QED
          BY <3>3, <5>1
      <4>3. /\ Life!Becomes(d, draft[d], row)
            /\ \A f \in Drafts : draft'[f] = IF f = d THEN row ELSE draft[f]
        BY <1>1, <4>2, BecomesIs
      <4>4. Life!Transcribe(d)
        BY <4>1, <4>3 DEF Life!Transcribe
      <4> QED
        BY <4>3, <4>4 DEF Lives, Life!Next
    <3> QED
      BY <2>4, <3>2, <3>3 DEF TranscriptionEnds
  <2>5. \/ UNCHANGED draft
        \/ \E w \in Consumers : SendCompleted(w) \/ SendFailed(w)
        \/ \E c \in Callbacks : LateCallback(c)
        \/ \E d \in Drafts : TranscriptionEnds(d)
    BY DEF WorkerStep, WorkerFault, SendStarted, Stitch, StitchFails,
           CallbackTimesOut, WorkerCrashes, Deliver, vars
  <2> QED
    BY <2>1, <2>2, <2>3, <2>4, <2>5
<1>4. \A f \in Drafts : RowFits(f)'
  BY <1>2, <1>3, RowsKept
<1>5. ClosersFit'
  BY <1>1, ClosersKept
<1> QED
  BY <1>3, <1>4, <1>5 DEF LifeFits

\* The rows of the call are removed, alone or with the call.
LEMMA RemovalLives ==
  ASSUME IInv, LifeFits, NEW a \in Admins, DropDraft(a) \/ DeleteRow(a) \/ CloseCall(a)
  PROVE  /\ Lives
         /\ \A f \in Drafts : draft'[f] = draft[f] \/ draft'[f] = Absent
<1> DEFINE Gone == [d \in Drafts |-> Absent]
<1>1. Gone = Life!NoDrafts /\ \A f \in Drafts : Gone[f] = Absent
  BY DEF Life!NoDrafts, Life!Absent, Absent
<1>2. UNCHANGED recorded
  BY DEF DropDraft, DeleteRow, CloseCall, published
<1>3. CASE DropDraft(a)
  BY <1>1, <1>2, <1>3 DEF DropDraft, RemoveRows, caller, Lives, Life!Next, Life!Drop
<1>4. ASSUME NEW how \in {"deleted", "published"}, RemoveCall(how),
             how = "published" => recorded # {}
      PROVE  /\ Lives
             /\ \A f \in Drafts : draft'[f] = draft[f] \/ draft'[f] = Absent
  <2>1. CASE call = "there"
    <3>1. Life!Close(how)
      BY <1>1, <1>2, <1>4, <2>1 DEF RemoveCall, Life!Close
    <3> QED
      BY <1>1, <1>4, <2>1, <3>1 DEF RemoveCall, Lives, Life!Next
  <2>2. CASE call # "there"
    BY <1>2, <1>4, <2>2 DEF RemoveCall, Lives, Life!life
  <2> QED
    BY <2>1, <2>2
<1>5. CASE DeleteRow(a)
  BY <1>4, <1>5 DEF DeleteRow
<1>6. CASE CloseCall(a)
  BY <1>4, <1>6 DEF CloseCall, LifeFits, ClosersFit
<1> QED
  BY <1>3, <1>5, <1>6

\* A fresh id is known to nobody, so its audio has not been asked for.
LEMMA CreateDraftLives ==
  ASSUME IInv, LifeFits, NEW a \in Admins, CreateDraft(a)
  PROVE  Lives /\ \A f \in Drafts : RowFits(f)'
<1> DEFINE row == [status |-> "AUDIO", keys |-> {}]
<1>1. UNCHANGED <<call, recorded>>
  BY DEF CreateDraft, caller, published
<1>2. \A f \in Drafts : Asked(f)' => Asked(f)
  BY HandlerAsks DEF HandlerStep, CreateDraft, KeyResponse
<1>3. CASE UNCHANGED draft
  BY <1>1, <1>2, <1>3, RowsKept DEF Lives, Life!life
<1>4. ASSUME NEW d \in FreshDrafts, call = "there", Rows = {},
             draft' = [draft EXCEPT ![d] = row]
      PROVE  Lives /\ \A f \in Drafts : RowFits(f)'
  <2>1. d \in Drafts /\ ~Asked(d)
    BY DEF FreshDrafts, Asked, Known, Queued, Worked, Delayed
  <2>2. draft = Life!NoDrafts
    BY <1>4, NoRows
  <2>3. draft[d] = Life!Absent
    BY <2>1, <2>2 DEF Life!NoDrafts
  <2>4. /\ Life!Becomes(d, draft[d], row)
        /\ \A f \in Drafts : draft'[f] = IF f = d THEN row ELSE draft[f]
    BY <1>1, <1>4, <2>1, BecomesIs
  <2>5. Life!Begin(d)
    BY <1>4, <2>2, <2>3, <2>4 DEF Life!Begin
  <2>6. \A f \in Drafts : RowFits(f)'
    BY <1>2, <2>1, <2>4 DEF LifeFits, RowFits
  <2> QED
    BY <2>1, <2>5, <2>6 DEF Lives, Life!Next
<1> QED
  BY <1>3, <1>4 DEF CreateDraft

\* The draft that a request has made gets its response, unless it is gone.
LEMMA KeyResponseLives ==
  ASSUME IInv, LifeFits, NEW a \in Admins, KeyResponse(a)
  PROVE  Lives /\ \A f \in Drafts : RowFits(f)'
<1> DEFINE d == handler[a].draft
           row == [status |-> "AUDIO", keys |-> {"response"}]
<1>1. UNCHANGED <<call, recorded, queue, worker, late>> /\ handler[a].pc = "keying"
  BY DEF KeyResponse, caller, published, audio
<1>2. handler \in [Admins -> Handler] /\ d \in Drafts
  BY <1>1 DEF IInv, HandlersFit, HandlerFits, Handler
<1>3. draft[d].status \in {"ABSENT", "AUDIO"} /\ ~Known(d)
  BY <1>1, <1>2 DEF IInv, OwnersFit, Owning
<1>4. \A f \in Drafts : Asked(f)' => Asked(f) \/ f = d
  <2>1. \A b \in Admins : b # a => handler'[b] = handler[b]
    BY <1>2 DEF KeyResponse, GoTo
  <2>2. handler'[a].draft = d
    BY <1>2 DEF KeyResponse, GoTo, Handler
  <2> QED
    BY <1>1, <2>1, <2>2 DEF Asked, Known, Queued, Worked, Delayed
<1>5. CASE draft[d].status = "ABSENT"
  <2>1. UNCHANGED draft
    BY <1>5 DEF KeyResponse, Processing
  <2> QED
    BY <1>1, <1>4, <1>5, <2>1 DEF Lives, Life!life, LifeFits, RowFits
<1>6. CASE draft[d].status = "AUDIO"
  <2>1. draft[d] = [status |-> "AUDIO", keys |-> {}]
    BY <1>1, <1>2, <1>6, RowIs DEF IInv, MakingFits, Making, Rows
  <2>2. draft' = [draft EXCEPT ![d] = row]
    <3>1. draft[d].keys \cup {"response"} = {"response"}
      BY <2>1
    <3> QED
      BY <1>6, <3>1 DEF KeyResponse, Processing
  <2>3. /\ Life!Becomes(d, draft[d], row)
        /\ \A f \in Drafts : draft'[f] = IF f = d THEN row ELSE draft[f]
    <3> HIDE DEF d, row
    <3> QED
      BY <1>1, <1>2, <2>2, BecomesIs
  <2>4. Life!Respond(d)
    BY <2>1, <2>3 DEF Life!Respond
  <2>5. \A f \in Drafts : RowFits(f)'
    BY <1>4, <2>3 DEF LifeFits, RowFits
  <2> QED
    BY <1>2, <2>4, <2>5 DEF Lives, Life!Next
<1> QED
  BY <1>3, <1>5, <1>6

LEMMA ExcuseLives ==
  ASSUME IInv, LifeFits, NEW a \in Admins, Excuse(a)
  PROVE  /\ Lives
         /\ \A f \in Drafts : draft'[f] = draft[f] \/ draft'[f].status = "ERROR"
<1> DEFINE d == handler[a].draft
<1>1. UNCHANGED <<call, recorded>>
  BY DEF Excuse, caller, published
<1>2. d \in Drafts
  BY DEF Excuse, IInv, HandlersFit, HandlerFits, Handler
<1>3. CASE draft[d].status \in Processing
  <2>1. /\ draft[d].status \in {"AUDIO", "TRANSCRIBING"}
        /\ draft' = [draft EXCEPT ![d].status = "ERROR"]
    BY <1>3 DEF Excuse, Processing
  <2> QED
    BY <1>1, <1>2, <2>1, GivesUp DEF Lives, Life!Next
<1>4. CASE draft[d].status \notin Processing
  <2>1. UNCHANGED draft
    BY <1>4 DEF Excuse
  <2> QED
    BY <1>1, <2>1 DEF Lives, Life!life
<1> QED
  BY <1>3, <1>4

\* The requests.
LEMMA HandlerLives ==
  ASSUME IInv, LifeFits, NEW a \in Admins,
         Request(a) \/ HandlerStep(a) \/ HandlerFault(a)
  PROVE  Lives /\ LifeFits'
<1>1. CASE KeyResponse(a)
  <2>1. handler \in [Admins -> Handler]
    BY DEF IInv, HandlersFit
  <2>2. \A b \in Admins : handler'[b] = handler[b] \/ handler'[b].pc = "requesting"
    BY <1>1, <2>1 DEF KeyResponse, GoTo, Handler
  <2>3. UNCHANGED recorded
    BY <1>1 DEF KeyResponse, published
  <2>4. ClosersFit'
    BY <2>2, <2>3, ClosersKept
  <2> QED
    BY <1>1, <2>4, KeyResponseLives DEF LifeFits
<1>2. CASE RecordEpisode(a)
  <2>1. handler[a].episode \in Episodes
    BY <1>2 DEF RecordEpisode, IInv, DataFit, HandlersFit, HandlerFits
  <2>2. Life!Record(handler[a].episode)
    BY <1>2 DEF RecordEpisode, caller, Life!Record
  <2>3. ClosersFit'
    BY <1>2 DEF RecordEpisode, ClosersFit
  <2>4. \A f \in Drafts : Asked(f)' => Asked(f)
    BY <1>2, HandlerAsks DEF HandlerStep, RecordEpisode, KeyResponse
  <2>5. \A f \in Drafts : RowFits(f)'
    BY <1>2, <2>4, RowsKept DEF RecordEpisode
  <2> QED
    BY <2>1, <2>2, <2>3, <2>5 DEF Lives, Life!Next, LifeFits
<1>3. CASE ~KeyResponse(a) /\ ~RecordEpisode(a)
  <2>1. \A f \in Drafts : Asked(f)' => Asked(f)
    BY <1>3, HandlerAsks
  <2>2. UNCHANGED recorded
    BY <1>3
    DEF Request, BeginRecord, BeginUndo, BeginDelete, BeginPublish, published,
        HandlerStep, ReadExisting, ClearObjects, DropDraft, CreateDraft,
        StoreResponse, RequestAudio, Excuse, DeleteRow, CleanUp, FetchAudio,
        ProduceEpisode, CloseCall, HandlerFault, StoreFails,
        RequestAudioFails, ProduceTwice, ProduceFails, HandlerBreaks
  <2>3. ClosersFit'
    BY <1>3, <2>2, PcsKept, ClosersKept
  <2>4. CASE UNCHANGED <<call, draft>>
    BY <2>1, <2>2, <2>3, <2>4, RowsKept DEF Lives, Life!life, LifeFits
  <2>5. CASE DropDraft(a) \/ DeleteRow(a) \/ CloseCall(a)
    BY <2>1, <2>3, <2>5, RemovalLives, RowsKept DEF LifeFits
  <2>6. CASE CreateDraft(a)
    BY <2>3, <2>6, CreateDraftLives DEF LifeFits
  <2>7. CASE Excuse(a)
    BY <2>1, <2>3, <2>7, ExcuseLives, RowsKept DEF LifeFits
  <2>8. \/ UNCHANGED <<call, draft>>
        \/ DropDraft(a) \/ DeleteRow(a) \/ CloseCall(a) \/ CreateDraft(a) \/ Excuse(a)
    BY <1>3
    DEF Request, BeginRecord, BeginUndo, BeginDelete, BeginPublish, caller,
        HandlerStep, ReadExisting, ClearObjects, StoreResponse, RequestAudio,
        CleanUp, FetchAudio, ProduceEpisode, HandlerFault, StoreFails,
        RequestAudioFails, ProduceTwice, ProduceFails, HandlerBreaks
  <2> QED
    BY <2>4, <2>5, <2>6, <2>7, <2>8
<1> QED
  BY <1>1, <1>2, <1>3

LEMMA InitLives == Init => LifeFits /\ Life!Init
<1> SUFFICES ASSUME Init PROVE LifeFits /\ Life!Init
  OBVIOUS
<1>1. \A d \in Drafts : draft[d].status = "ABSENT" /\ draft[d].keys = {}
  BY DEF Init, Absent
<1>2. \A a \in Admins : handler[a].pc = "idle"
  BY DEF Init, NoRequest
<1> QED
  BY <1>1, <1>2 DEF Init, LifeFits, ClosersFit, RowFits, Life!Init, Life!NoDrafts,
                    Life!Absent, Absent

LEMMA StepLives == IInv /\ LifeFits /\ [Next]_vars => Lives /\ LifeFits'
BY HandlerLives, AudioLives DEF Next

\* Whatever requests, messages, consumers, callbacks and faults there are, what
\* becomes of the call and its drafts is what CallLife tells.
THEOREM LifeCorrect == Spec => KeepsToLife
<1>1. Init => IInv /\ LifeFits /\ Life!Init
  BY InitFits, InitLives
<1>2. IInv /\ LifeFits /\ [Next]_vars => IInv' /\ LifeFits'
  BY StepFits, StepLives
<1>3. IInv /\ LifeFits /\ [Next]_vars => [Life!Next]_(Life!life)
  BY StepLives DEF Lives
<1> QED
  BY <1>1, <1>2, <1>3, PTL DEF Spec, KeepsToLife, Life!Spec
=============================================================================
