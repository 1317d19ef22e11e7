---------------------------- MODULE CallRecording ----------------------------
(***************************************************************************)
(* A call that is made in the browser: the recorder (a state machine with  *)
(* an actor around each MediaRecorder), the question that is typed instead *)
(* and spoken by a voice, the form that submits the audio, and the         *)
(* submissions as the server sees them.                                    *)
(*                                                                         *)
(* The microphone is granted, the last data of a recorder arrives, the     *)
(* voice speaks and the server answers at some later moment; meanwhile the *)
(* visitor may press anything the screen shows, or leave.                  *)
(***************************************************************************)
EXTENDS Naturals, FiniteSets, Absence

CONSTANTS
  MaxRecordings,  \* bound on recordings that are begun
  MaxSubmissions, \* bound on submissions
  Questions,      \* questions of a valid length, each with its voice
  Speeches,       \* requests to speak a question that are under way
  MaxAccidents    \* bound on refusals, unplugged devices and lost answers

ASSUME RecordingAssumption ==
  /\ MaxRecordings \in Nat /\ MaxSubmissions \in Nat /\ MaxAccidents \in Nat
  /\ None \notin Questions /\ Questions \cap 0..MaxRecordings = {}

VARIABLES
  screen,    \* the state of the machine, or what is shown instead of it
  devices,   \* whether a device was listed
  current,   \* the last recording that was begun, 0 before the first
  actor,     \* the mediaRecorder actor of each recording
  ignored,   \* a button was pressed that the actor of the recording never heard
  blob,      \* the recording that audioBlob holds, or the audio of the form
  question,  \* what is typed
  speech,    \* the requests to speak a question
  text,      \* the question that the form submits beside the audio
  late,      \* the form's audio came when nobody waited for it any more
  submission,      \* the submissions
  accidents

questionVars == <<question, speech, text, late>>
recorderVars == <<screen, devices, current, actor, ignored, blob, questionVars,
                  submission, accidents>>

Recordings == 1..MaxRecordings
Submissions == 1..MaxSubmissions

RecorderScreens ==
  {"devices", "selecting", "error", "ready", "playing", "paused", "stopping", "done"}
RecordingScreens == {"playing", "paused", "stopping"}

\* `live': its tracks are open.  `data': the recorder has stopped, and its last
\* data is on the way to ondataavailable.
Actor == [pc : {"none", "asking", "recording", "paused", "inactive", "over"},
          cancelled : BOOLEAN, live : BOOLEAN, data : BOOLEAN]
NoActor == [pc |-> "none", cancelled |-> FALSE, live |-> FALSE, data |-> FALSE]

\* Recordings, and questions that were spoken.
Audio == 0..MaxRecordings \cup Questions

\* `asked': the voice is asked to speak.  `measured': its audio is here, and its
\* length awaited.  `current': isGenerating, the question has not been left or
\* changed since.
Speech == [pc : {"none", "asked", "measured"}, of : Questions \cup {None},
           current : BOOLEAN]
NoSpeech == [pc |-> "none", of |-> None, current |-> FALSE]

\* `watched': the form waits for its answer.  `failed': it was told, or left to
\* believe, that nothing was submitted.
Submission == [of : Audio, text : Questions \cup {None}, late : BOOLEAN,
               state : {"none", "sent", "stored", "gone"},
               watched : BOOLEAN, failed : BOOLEAN]
NoSubmission == [of |-> 0, text |-> None, late |-> FALSE, state |-> "none",
                 watched |-> FALSE, failed |-> FALSE]

Accident == accidents < MaxAccidents /\ accidents' = accidents + 1

\* The cleanup of the actor, when the machine leaves `recording' or stops:
\* a recorder is stopped with its tracks and not heard any more.
CleanedUp(a) ==
  [a EXCEPT !.cancelled = TRUE, !.live = FALSE, !.data = FALSE,
            !.pc = IF a.pc = "asking" THEN "asking" ELSE "over"]

-----------------------------------------------------------------------------
(* Before recording.                                                       *)

Show(next) ==
  /\ screen' = next
  /\ UNCHANGED <<devices, current, actor, ignored, blob, questionVars, submission, accidents>>

\* A list that fails or takes five seconds is an empty list.
DevicesListed ==
  /\ screen = "devices"
  /\ screen' = "ready"
  /\ devices' \in BOOLEAN
  /\ UNCHANGED <<current, actor, ignored, blob, questionVars, submission, accidents>>

\* There is no navigator.mediaDevices.
NoDevices == screen = "devices" /\ Show("error")
Retry == screen = "error" /\ Show("devices")
ChangeDevice == screen = "ready" /\ Show("selecting")

\* Without a device in the list there is nothing to press.
SelectDevice == screen = "selecting" /\ devices /\ Show("ready")

StartRecording ==
  /\ screen = "ready"
  /\ current < MaxRecordings
  /\ screen' = "playing"
  /\ current' = current + 1
  /\ actor' = [actor EXCEPT ![current + 1] = [NoActor EXCEPT !.pc = "asking"]]
  /\ ignored' = FALSE
  /\ UNCHANGED <<devices, blob, questionVars, submission, accidents>>

-----------------------------------------------------------------------------
(* The actor.                                                              *)

\* getUserMedia resolves: recording starts, and from now on the actor hears
\* the buttons; or the recorder was left meanwhile, and the tracks are closed.
GrantedAnyway(n) == [actor[n] EXCEPT !.pc = "recording", !.live = TRUE]
Granted(n) ==
  IF actor[n].cancelled THEN [actor[n] EXCEPT !.pc = "over"]
  ELSE [actor[n] EXCEPT !.pc = "recording", !.live = TRUE]

MicrophoneGranted(n) ==
  /\ actor[n].pc = "asking"
  /\ actor' = [actor EXCEPT ![n] = Granted(n)]
  /\ UNCHANGED <<screen, devices, current, ignored, blob, questionVars, submission, accidents>>

\* It rejects, and nothing handles that: the screen goes on as if it recorded.
MicrophoneRefused(n) ==
  /\ actor[n].pc = "asking"
  /\ Accident
  /\ actor' = [actor EXCEPT ![n].pc = "over"]
  /\ ignored' = IF n = current THEN TRUE ELSE ignored
  /\ UNCHANGED <<screen, devices, current, blob, questionVars, submission>>

\* The tracks of a device that is unplugged end, and the recorder with them.
DeviceUnplugged(n) ==
  /\ actor[n].pc \in {"recording", "paused"}
  /\ Accident
  /\ actor' = [actor EXCEPT ![n] = [@ EXCEPT !.pc = "inactive", !.live = FALSE,
                                             !.data = TRUE]]
  /\ UNCHANGED <<screen, devices, current, ignored, blob, questionVars, submission>>

\* ondataavailable of a recorder that is inactive sends the chunks, which the
\* machine takes only while it is stopping.
DataArrives(n) ==
  /\ actor[n].data
  /\ IF n = current /\ screen = "stopping"
     THEN /\ screen' = "done"
          /\ blob' = n
          /\ actor' = [actor EXCEPT ![n] = CleanedUp(@)]
          /\ UNCHANGED ignored
     ELSE /\ actor' = [actor EXCEPT ![n].data = FALSE]
          /\ ignored' = TRUE
          /\ UNCHANGED <<screen, blob>>
  /\ UNCHANGED <<devices, current, questionVars, submission, accidents>>

-----------------------------------------------------------------------------
(* The buttons while recording.  A command that comes before the recorder  *)
(* is there is lost; pause and resume throw at one that is inactive, which *)
(* stops the machine.                                                      *)

Command(next, from, to) ==
  LET a == actor[current] IN
  /\ IF a.pc = "inactive" THEN screen' = "broken" ELSE screen' = next
  /\ actor' = IF a.pc = from THEN [actor EXCEPT ![current].pc = to] ELSE actor
  /\ ignored' = (ignored \/ a.pc = "asking")
  /\ UNCHANGED <<devices, current, blob, questionVars, submission, accidents>>

Pause == screen = "playing" /\ Command("paused", "recording", "paused")
Resume == screen = "paused" /\ Command("playing", "paused", "recording")

Stop ==
  /\ screen \in {"playing", "paused"}
  /\ screen' = "stopping"
  /\ actor' = IF actor[current].pc \in {"recording", "paused"}
              THEN [actor EXCEPT ![current] = [@ EXCEPT !.pc = "inactive", !.data = TRUE]]
              ELSE actor
  /\ ignored' = (ignored \/ actor[current].pc = "asking")
  /\ UNCHANGED <<devices, current, blob, questionVars, submission, accidents>>

-----------------------------------------------------------------------------
(* Afterwards.                                                             *)

Restart == screen = "done" /\ Show("ready")

\* A recorder that is there is unmounted.
Leave(next) ==
  /\ screen' = next
  /\ actor' = IF current = 0 THEN actor ELSE [actor EXCEPT ![current] = CleanedUp(@)]
  /\ UNCHANGED <<devices, current, ignored, accidents>>

\* The form is unmounted and aborts its request, which may be too late.
Abandoned == [p \in Submissions |->
  IF submission[p].watched THEN [submission[p] EXCEPT !.watched = FALSE, !.failed = TRUE]
  ELSE submission[p]]

\* setAudio(null), and no fields for the next form.
PrefillKept == blob' = 0 /\ text' = text /\ late' = FALSE
FormCleared == blob' = 0 /\ text' = None /\ late' = FALSE

\* Nothing is kept of what was on the page.
PageCleared ==
  /\ FormCleared
  /\ question' = None
  /\ speech' = [r \in Speeches |-> NoSpeech]

LeavePage ==
  /\ screen # "away"
  /\ Leave("away")
  /\ PageCleared
  /\ submission' = Abandoned

ReturnToPage == screen = "away" /\ Show("devices")

\* onRecordingComplete sets the audio, and leaves the question beside it alone.
Accept ==
  /\ screen = "done"
  /\ Leave("form")
  /\ UNCHANGED <<blob, questionVars, submission>>

-----------------------------------------------------------------------------
(* A question that is typed, and spoken by a voice.                        *)

TypeInstead ==
  /\ screen \in RecorderScreens \cup {"broken"}
  /\ Leave("typing")
  /\ blob' = 0 /\ question' = None
  /\ UNCHANGED <<speech, text, late, submission>>

\* The fetch is aborted, and the request is not the current one any more.  One
\* that has its audio only waits for its length, and does not look again.
Superseded == [r \in Speeches |->
  IF speech[r].pc = "measured" THEN [speech[r] EXCEPT !.current = FALSE] ELSE NoSpeech]

Typing(next, q) ==
  /\ screen = "typing"
  /\ screen' = next
  /\ question' = q
  /\ speech' = Superseded
  /\ UNCHANGED <<devices, current, actor, ignored, blob, text, late, submission, accidents>>

EditQuestion(q) == q # question /\ Typing("typing", q)
RecordInstead == Typing("devices", None)

\* The button is disabled while a question is spoken.
SaveQuestion(r) ==
  /\ screen = "typing" /\ question # None
  /\ \A x \in Speeches : ~speech[x].current
  /\ speech[r] = NoSpeech
  /\ speech' = [speech EXCEPT ![r] = [pc |-> "asked", of |-> question, current |-> TRUE]]
  /\ UNCHANGED <<screen, devices, current, actor, ignored, blob, question, text, late,
                 submission, accidents>>

\* It is spoken; or refused or failed, or its audio is too long or unreadable.
SpeechMoves(r) ==
  /\ \/ speech[r].pc = "asked" /\ speech' = [speech EXCEPT ![r].pc = "measured"]
     \/ speech[r].pc # "none" /\ speech' = [speech EXCEPT ![r] = NoSpeech]
  /\ UNCHANGED <<screen, devices, current, actor, ignored, blob, question, text, late,
                 submission, accidents>>

\* onAcceptAudio, whatever is on the page by now.
SpeechAccepted(r) ==
  /\ speech[r].pc = "measured"
  /\ Leave("form")
  /\ blob' = speech[r].of /\ text' = speech[r].of
  /\ late' = ~speech[r].current
  /\ question' = None
  /\ speech' = [Superseded EXCEPT ![r] = NoSpeech]
  /\ UNCHANGED submission

-----------------------------------------------------------------------------
(* The form.                                                               *)

\* handleSubmit: not while a submission is under way.
SubmitsAgain == TRUE
MaySubmit == \A p \in Submissions : ~submission[p].watched

Submit(p) ==
  /\ screen = "form"
  /\ MaySubmit
  /\ submission[p].state = "none"
  /\ submission' = [submission EXCEPT ![p] = [of |-> blob, text |-> text, late |-> late,
                                        state |-> "sent", watched |-> TRUE,
                                        failed |-> FALSE]]
  /\ UNCHANGED <<screen, devices, current, actor, ignored, blob, questionVars, accidents>>

\* createCall stores the audio and the call, a new call for every submission; a
\* question beside the audio is its transcript.
CreateCall(p) ==
  /\ submission[p].state = "sent"
  /\ submission' = [submission EXCEPT ![p].state = "stored"]
  /\ UNCHANGED <<screen, devices, current, actor, ignored, blob, questionVars, accidents>>

\* The redirect is followed to the page of the call.
Redirected(p) ==
  /\ submission[p].watched /\ submission[p].state = "stored"
  /\ screen' = "away"
  /\ PageCleared
  /\ submission' = [submission EXCEPT ![p].watched = FALSE]
  /\ UNCHANGED <<devices, current, actor, ignored, accidents>>

\* An error is answered, or no answer comes: the form may be submitted again.
\* Without an answer the server may have the call, or still get it.  An answer
\* puts back the question that was submitted.
SubmissionFails(p) ==
  /\ submission[p].watched
  /\ Accident
  /\ submission' = [submission EXCEPT ![p].watched = FALSE, ![p].failed = TRUE]
  /\ text' \in {text, submission[p].text}
  /\ UNCHANGED <<screen, devices, current, actor, ignored, blob, question, speech, late>>

\* A submission that is refused or lost on the way.
PostLost(p) ==
  /\ submission[p].state = "sent" /\ ~submission[p].watched
  /\ submission' = [submission EXCEPT ![p].state = "gone"]
  /\ UNCHANGED <<screen, devices, current, actor, ignored, blob, questionVars, accidents>>

StartOver ==
  /\ screen = "form"
  /\ screen' = "devices"
  /\ FormCleared
  /\ submission' = Abandoned
  /\ UNCHANGED <<devices, current, actor, ignored, question, speech, accidents>>

-----------------------------------------------------------------------------

RecordingInit ==
  /\ screen = "devices"
  /\ devices = FALSE
  /\ current = 0
  /\ actor = [n \in Recordings |-> NoActor]
  /\ ignored = FALSE
  /\ blob = 0
  /\ question = None /\ text = None /\ late = FALSE
  /\ speech = [r \in Speeches |-> NoSpeech]
  /\ submission = [p \in Submissions |-> NoSubmission]
  /\ accidents = 0

ActorStep(n) ==
  \/ MicrophoneGranted(n)
  \/ MicrophoneRefused(n)
  \/ DeviceUnplugged(n)
  \/ DataArrives(n)

SpeechStep(r) == SaveQuestion(r) \/ SpeechMoves(r) \/ SpeechAccepted(r)

PostStep(p) ==
  \/ Submit(p)
  \/ CreateCall(p)
  \/ Redirected(p)
  \/ SubmissionFails(p)
  \/ PostLost(p)

RecordingNext ==
  \/ DevicesListed \/ NoDevices \/ Retry \/ ChangeDevice \/ SelectDevice
  \/ StartRecording \/ Pause \/ Resume \/ Stop \/ Restart
  \/ LeavePage \/ ReturnToPage \/ TypeInstead \/ RecordInstead \/ Accept \/ StartOver
  \/ \E q \in Questions : EditQuestion(q)
  \/ \E r \in Speeches : SpeechStep(r)
  \/ \E n \in Recordings : ActorStep(n)
  \/ \E p \in Submissions : PostStep(p)

RecordingSpec == RecordingInit /\ [][RecordingNext]_recorderVars
=============================================================================
