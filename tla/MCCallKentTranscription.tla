----------------------- MODULE MCCallKentTranscription -----------------------
EXTENDS CallKentTranscriptionProperties, TLC

Symmetry ==
  Permutations(Workers) \cup Permutations(Jobs) \cup Permutations(Leases)

\* Nothing is left of a draft: no row, message, enqueue or consumer.
DraftsAreGone ==
  /\ \A i \in Ids : IsDraft(i) => row[i].status = "ABSENT"
  /\ \A m \in queue \cup dispatch : ~IsDraft(m.id)
  /\ \A w \in Workers : worker[w].pc # "idle" => ~IsDraft(worker[w].id)

\* Bounds while there is a draft: one consumer at a time, two leases, messages
\* and enqueues under way together at most two, and nobody edits metadata.
\* A call alone meets two consumers and every duplicate message.
DraftsAreSmall ==
  DraftsAreGone \/
    /\ Cardinality({w \in Workers : worker[w].pc # "idle"}) <= 1
    /\ Cardinality(LeasesInUse \ {None}) <= 2
    /\ Cardinality(queue) + Cardinality(dispatch) <= 2
    /\ \A i \in Ids : row[i].meta # "edited"
=============================================================================
