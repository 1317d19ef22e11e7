----------------------- MODULE MCTranscriptionLiveness -----------------------
EXTENDS CallKentTranscriptionProperties

VARIABLE
  mode  \* "open": people keep asking for a call; "quiet": nobody asks any more

\* A recorded call whose draft has just got its audio, after which nobody asks
\* for anything: the draft waits for the caller's transcript.
CallJob == CHOOSE x \in Jobs : TRUE
DraftJob == CHOOSE x \in Jobs \ {CallJob} : TRUE

QuietInit ==
  /\ \E c \in DraftCalls :
       /\ row = [[n \in Ids |-> Absent] EXCEPT
            ![<<"call", c>>] = [@ EXCEPT !.status = "PROCESSING", !.job = CallJob],
            ![<<"draft", c>>] = [@ EXCEPT !.status = "PROCESSING", !.job = DraftJob,
                                          !.step = "TRANSCRIBING"]]
       /\ queue = {Message(<<"call", c>>, CallJob, 0),
                   Message(<<"draft", c>>, DraftJob, 0)}
  /\ worker = [w \in Workers |-> Idle]
  /\ dispatch = {}
  /\ faults = 0

\* The only messages there can be: fairness towards any other says nothing.
PossibleMessages == {m \in Messages : IsDraft(m.id) => m.job = DraftJob}

MCNext ==
  /\ UNCHANGED mode
  /\ \/ mode = "open" /\ \E c \in Calls : CallerStep(c)
     \/ BackgroundStep
     \/ Tick

MCSpec ==
  /\ \/ mode = "open" /\ Init
     \/ mode = "quiet" /\ QuietInit
  /\ [][MCNext]_<<mode, vars>>
  /\ FairnessFor(PossibleMessages)

\* The two jobs of the quiet mode settle; there the draft is deferred until its
\* message is used up, and the cron dispatches it again after the caller's
\* transcript has settled.  In the open mode the jobs are interchangeable, so
\* that one of them stands for all.
JobsSettle ==
  \A c \in Calls :
    /\ JobSettles(<<"call", c>>, CallJob)
    /\ c \in DraftCalls => JobSettles(<<"draft", c>>, DraftJob)
=============================================================================
