------------------------- MODULE SearchSyncProperties ------------------------
(***************************************************************************)
(* What the search worker and the cache of its answers must guarantee.     *)
(***************************************************************************)
EXTENDS SearchSync

\* Every variable holds a value of its kind.
SearchSyncTypeOK ==
  /\ artifact \in Artifact \cup {None} /\ generated \in 0..MaxArtifacts
  /\ rows \in Rows /\ mark \in Artifact \cup {None}
  /\ sync \in [Syncs -> SyncState] /\ started \in Stamps /\ syncedAt \in Stamps
  /\ search \in [Searchers -> SearchState]
  /\ cached \in [Stamps -> Rows \cup {None}]
  /\ whole \in BOOLEAN /\ alone \in BOOLEAN
  /\ copied \in Artifact \cup {None} /\ losses \in 0..MaxLosses

\* What a query can find of a source is one artifact, all of it: "partial rows
\* written mid-replace are not searchable until the source is marked"
\* (docs/agents/project-context.md:100-101).
SearchableIsComplete == mark # None => rows = RowsOf(mark)

Syncing == \E s \in Syncs : sync[s].pc # "idle"

\* So it is as long as no two syncs overlap, whatever is lost half way; and when two
\* have, a forced sync on its own puts it right.  A sync that ends has put what it
\* read from R2 into the database: a source whose replacement was interrupted is
\* replaced again, by an unforced sync too, and an artifact that is gone takes
\* its rows with it.
SyncsTakeEffect ==
  alone =>
    /\ SearchableIsComplete
    /\ ~Syncing /\ whole =>
         Visible = IF copied = None THEN NoRows ELSE RowsOf(copied)

\* After a sync no answer of before it is given any more, although nobody purges the
\* cache of the site and searches overlap the sync.
AnswersAreOfLastSync ==
  ~Syncing /\ whole /\ cached[syncedAt] # None => cached[syncedAt] = Visible
=============================================================================
