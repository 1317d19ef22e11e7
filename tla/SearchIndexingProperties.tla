----------------------- MODULE SearchIndexingProperties ----------------------
(***************************************************************************)
(* What the indexing jobs must guarantee.                                  *)
(***************************************************************************)
EXTENDS SearchIndexing

\* Every variable holds a value of its kind.
IndexingTypeOK ==
  /\ source \in Sources
  /\ content \in Bodied /\ ignored \subseteq Docs /\ manifestDocs \in Bodied
  /\ vectors \in Chunked /\ lexical \in Chunked /\ details \in Bodied
  /\ job \in Job /\ due \in Job
  /\ orderly \in BOOLEAN /\ edits \in 0..MaxEdits /\ mishaps \in 0..MaxMishaps

\* Between the jobs the manifest, the vectors and the lexical artifact tell of the same
\* chunks with the same bodies, unless a job was lost or an embedding refused or a
\* document deleted by hand: the manifest is what the next job decides by.
StoresAgree ==
  orderly /\ job.pc = "idle" =>
    /\ vectors = ChunksOf(manifestDocs)
    /\ lexical = ChunksOf(manifestDocs)

Wanted == [d \in Docs |-> IF d \in ignored THEN None ELSE content[d]]

Ends == job.pc = "lexical" /\ job'.pc = "idle" /\ mishaps' = mishaps /\ edits' = edits

\* A run over everything makes what is found by words what is published and not ignored,
\* although jobs before it were lost: of the podcasts always, of the other two
\* (for YouTube with pruning) as long as no document was dropped from the manifest
\* by a run that did not live to write the artifact.  A video whose details YouTube
\* refused to that run, or that came from the cache of an earlier run, is found too,
\* but by what was read of it, which may be less or older than what is published.
FullRunsShowContent ==
  [][/\ Ends /\ job.at = edits /\ job.mode = "full"
     /\ source = "podcasts" \/ (orderly /\ (source = "youtube" => job.prune))
     => \A d \in Docs :
          IF source = "youtube" /\ d \in job.unread
          THEN Wanted[d] # None => lexical'[<<d, 1>>] # None
          ELSE \A i \in {1, 2} : lexical'[<<d, i>>] = ChunksOf(Wanted)[<<d, i>>]]_indexVars

\* A document that is published and not ignored does not lose its first chunk to a job
\* that started after its last change: a service that refuses a list does not look
\* like deleted content, nor does a refused transcript, whatever was lost before.
\* Excepted is an article of which the push took a file away and neither added nor
\* changed one: the job deletes it, although its text may still be there.
PublishedStaysFound ==
  [][Ends /\ job.at = edits =>
       \A d \in Docs \ (job.deleted \ job.added) :
         Wanted[d] # None /\ lexical[<<d, 1>>] # None
           => lexical'[<<d, 1>>] # None]_indexVars

=============================================================================
