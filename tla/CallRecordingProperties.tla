----------------------- MODULE CallRecordingProperties -----------------------
(***************************************************************************)
(* What recording a call in the browser must guarantee.                    *)
(***************************************************************************)
EXTENDS CallRecording

\* Every variable holds a value of its kind, and whoever hears a recording has the
\* one that was begun last: a machine that is done without audio "should be
\* impossible" (recorder.tsx:336-343).
RecordingTypeOK ==
  /\ screen \in RecorderScreens \cup {"broken", "typing", "form", "away"}
  /\ devices \in BOOLEAN /\ ignored \in BOOLEAN
  /\ current \in 0..MaxRecordings
  /\ actor \in [Recordings -> Actor]
  /\ blob \in Audio
  /\ screen = "done" => blob = current
  /\ screen \in {"done", "form"} => blob # 0
  /\ question \in Questions \cup {None} /\ text \in Questions \cup {None}
  /\ late \in BOOLEAN
  /\ speech \in [Speeches -> Speech]
  /\ submission \in [Submissions -> Submission]
  /\ accidents \in 0..MaxAccidents

\* The screen tells what the microphone does.  It is open only for the recording on
\* the screen, whenever the visitor left and however late the permission was
\* given.  A paused screen does not record and one that is stopping gets its
\* recording, unless a button was pressed before the recorder existed, the
\* microphone was refused, or the device was unplugged.
ScreenIsHonest ==
  /\ \A n \in Recordings : actor[n].live => n = current /\ screen \in RecordingScreens
  /\ ~ignored => /\ screen = "paused" => actor[current].pc # "recording"
                 /\ screen = "stopping" => actor[current].data

\* A recording becomes two calls only when an answer was lost or a submission
\* that was aborted had been on its way.
SubmittedOnce ==
  \A n \in Recordings :
    Cardinality({p \in Submissions : submission[p].of = n /\ ~submission[p].failed}) <= 1

\* Only the question on the screen is being spoken, and the question that a
\* submission adds to its audio, the transcript of the call, is the one that is
\* heard in it.  The exception is audio that was measured when the visitor changed
\* the question or went back to recording: it is accepted all the same.
TextIsWhatIsHeard ==
  /\ \A r \in Speeches : speech[r].pc = "asked" \/ speech[r].current =>
       screen = "typing" /\ speech[r].of = question
  /\ \A p \in Submissions : submission[p].state # "none" /\ ~submission[p].late =>
       submission[p].text = IF submission[p].of \in Questions THEN submission[p].of ELSE None

\* The visitor is told the truth: of what is recorded, of the question that is
\* spoken, and that pressing again what has been pressed submits nothing twice.
RecorderIsHonest == ScreenIsHonest /\ SubmittedOnce /\ TextIsWhatIsHeard
=============================================================================
