---------------------------- MODULE SearchIndexing ---------------------------
(***************************************************************************)
(* The jobs that index the content for the search: from the repository     *)
(* (what a push changed), from the podcast services (all of it), and from  *)
(* YouTube (what is new).  A job reads its manifest from R2, deletes and   *)
(* upserts vectors, and writes the manifest and then the lexical artifact. *)
(* It can stop between any two of these.  An admin deletes documents and   *)
(* ignores them in the meantime.  What a list that a service answers       *)
(* leaves out counts as removed; the details of a video may be refused, or *)
(* come from a cache beside the job.                                       *)
(***************************************************************************)
EXTENDS Integers, FiniteSets, Absence

CONSTANTS
  Sources,      \* {"repo", "podcasts", "youtube"}
  Docs,         \* documents of one source
  Bodies,       \* contents of a document
  LongBodies,   \* those that make two chunks, the others make one
  Bare,         \* what is left of a video without its details: one chunk
  MaxEdits,     \* bound on changes of content and of the ignore list
  MaxMishaps    \* bound on jobs lost, embeddings refused, and runs to which details
                \* are refused or that go without the cache

ASSUME IndexingAssumption ==
  /\ Sources \subseteq {"repo", "podcasts", "youtube"}
  /\ LongBodies \subseteq Bodies /\ None \notin Bodies
  /\ Bare \in Bodies \ LongBodies
  /\ MaxEdits \in Nat /\ MaxMishaps \in Nat

VARIABLES
  source,     \* the source in question
  content,    \* what is published: the body of each document, or None
  ignored,    \* documents that the ignore list matches
  manifestDocs,  \* R2: the body that each document was indexed with
  vectors,    \* Vectorize: the body that each chunk was embedded from
  lexical,    \* R2: the chunks of the lexical artifact
  details,    \* beside the YouTube job: the details that it has kept of each video
  job,        \* the job that runs
  due,        \* a push that no job has taken up yet
  orderly,    \* no job was lost, no embedding refused, nothing deleted by hand
  edits, mishaps

indexVars == <<source, content, ignored, manifestDocs, vectors, lexical, details, job, due,
               orderly, edits, mishaps>>

-----------------------------------------------------------------------------
(* Data.                                                                   *)

Bodied == [Docs -> Bodies \cup {None}]
Chunk == Docs \X {1, 2}
Chunked == [Chunk -> Bodies \cup {None}]

\* The chunks of documents with these bodies.  The hash of a chunk is its body.
ChunksOf(docs) ==
  [c \in Chunk |-> LET body == docs[c[1]] IN
                   IF c[2] = 1 \/ body \in LongBodies THEN body ELSE None]

NoDocs == [d \in Docs |-> None]
NoJob == [pc |-> "idle", mode |-> "none", prune |-> FALSE, seen |-> NoDocs,
          unread |-> {}, added |-> {}, deleted |-> {}, ignored |-> {},
          manifest |-> NoDocs, lexical |-> ChunksOf(NoDocs), at |-> 0]

Modes == {"none", "diff", "full", "incremental"}
Job == [pc : {"idle", "read", "delete", "upsert", "manifest", "lexical"}, mode : Modes,
        prune : BOOLEAN, seen : Bodied,
        unread : SUBSET Docs,  \* videos whose details were refused, or are old ones
        added : SUBSET Docs,   \* articles that the push added files to or changed files of
        deleted : SUBSET Docs, \* articles that it took files away from
        ignored : SUBSET Docs, manifest : Bodied, lexical : Chunked,
        at : 0..MaxEdits]  \* edits before it read, for the properties

CountMishap == mishaps < MaxMishaps /\ mishaps' = mishaps + 1
Mishap == CountMishap /\ orderly' = FALSE

-----------------------------------------------------------------------------
(* Which documents a job indexes, and which it removes.                    *)

Found(j) == {d \in Docs : j.seen[d] # None}
Kept(j) == {d \in Docs : j.manifest[d] # None}

\* getDocsFromChangedPaths: any file of its directory stands for the article, one
\* that is taken away too, whether the article itself is still there or not.
ChangedDocs(j) == j.added
GoneDocs(j) == j.deleted

\* index-repo-content: what the push changed, or everything.
RepoDocsToIndex(j) ==
  (IF j.mode = "diff" THEN ChangedDocs(j) ELSE Found(j)) \ j.ignored
RepoDocsToDelete(j) ==
  IF j.mode = "diff" THEN (GoneDocs(j) \cup j.ignored) \cap Kept(j)
  ELSE Kept(j) \ (Found(j) \ j.ignored)

\* index-podcasts: every episode; what is not among them is removed.
PodcastDocsToIndex(j) == Found(j) \ j.ignored
PodcastDocsToDelete(j) == Kept(j) \ PodcastDocsToIndex(j)

\* index-youtube-playlist: the videos that the manifest does not have, or all.
VideosToIndex(j) ==
  LET videos == Found(j) \ j.ignored IN
  IF j.mode = "incremental" THEN videos \ Kept(j) ELSE videos
VideosToDelete(j) ==
  IF j.prune THEN Kept(j) \ (Found(j) \ j.ignored) ELSE Kept(j) \cap j.ignored

ToIndex(j) ==
  CASE source = "repo" -> RepoDocsToIndex(j)
    [] source = "podcasts" -> PodcastDocsToIndex(j)
    [] source = "youtube" -> VideosToIndex(j)
ToDelete(j) ==
  CASE source = "repo" -> RepoDocsToDelete(j)
    [] source = "podcasts" -> PodcastDocsToDelete(j)
    [] source = "youtube" -> VideosToDelete(j)

\* The manifest when the deletions are done; then come the documents to index, one
\* of those deleted as if it were new.
Remaining(j) ==
  [d \in Docs |-> IF d \in ToDelete(j) THEN None ELSE j.manifest[d]]

NextManifest(j) ==
  [d \in Docs |-> IF d \in ToIndex(j) THEN j.seen[d] ELSE Remaining(j)[d]]

\* Mutant: only removed documents lose chunks, not one that has become shorter.
IdsOfGone(j) ==
  {c \in Chunk : ChunksOf(j.manifest)[c] # None /\ c[1] \in ToDelete(j)}

\* The chunks of removed documents, and those that the manifest names no more.
IdsToDelete(j) ==
  {c \in Chunk : /\ ChunksOf(j.manifest)[c] # None
                 /\ c[1] \in ToDelete(j) \/ ChunksOf(NextManifest(j))[c] = None}

\* Chunks whose hash differs from the one in the manifest that remains.
ToUpsert(j) ==
  {c \in Chunk : /\ c[1] \in ToIndex(j) /\ ChunksOf(j.seen)[c] # None
                 /\ ChunksOf(Remaining(j))[c] # ChunksOf(j.seen)[c]}

\* Mutant: what the artifact has is kept, or replaced.
KeepLexical(j) ==
  [c \in Chunk |-> IF c[1] \in ToIndex(j) /\ ChunksOf(j.seen)[c] # None
                   THEN j.seen[c[1]] ELSE j.lexical[c]]

\* The podcasts' artifact is made anew, the others start from the previous one and
\* drop what the manifest names.
NextLexical(j) ==
  LET docs == ToIndex(j) \cup ToDelete(j) IN
  [c \in Chunk |->
     IF c[1] \in ToIndex(j) /\ ChunksOf(j.seen)[c] # None THEN j.seen[c[1]]
     ELSE IF source = "podcasts" THEN None
     ELSE IF c[1] \in docs /\ ChunksOf(j.manifest)[c] # None THEN None
     ELSE j.lexical[c]]

-----------------------------------------------------------------------------
(* Content, and the admin of the search.                                   *)

\* An episode or a video is published, changed or taken away.
ChangeContent(d, body) ==
  /\ source # "repo"
  /\ edits < MaxEdits /\ body # content[d]
  /\ edits' = edits + 1
  /\ content' = [content EXCEPT ![d] = body]
  /\ UNCHANGED <<source, ignored, manifestDocs, vectors, lexical, details, job, due,
                 orderly, mishaps>>

\* A push changes an article or leaves all as they are, adds and changes files beside
\* articles that are published, and takes away others.  Its job compares with the
\* commit before, and the job of an earlier push is cancelled.
PushContent(d, body, added, deleted) ==
  /\ source = "repo"
  /\ edits < MaxEdits
  /\ edits' = edits + 1
  /\ content' = [content EXCEPT ![d] = body]
  /\ \A e \in added : content'[e] # None
  /\ body # content[d] => d \in (IF body = None THEN deleted ELSE added)
  /\ added \cup deleted # {}
  /\ due' = [NoJob EXCEPT !.pc = "read", !.mode = "diff", !.seen = content',
                          !.added = added, !.deleted = deleted]
  /\ job' = NoJob
  /\ orderly' = (orderly /\ job.pc = "idle" /\ due.pc = "idle")
  /\ UNCHANGED <<source, ignored, manifestDocs, vectors, lexical, details, mishaps>>

\* search.admin, ignore-add and ignore-remove.
Ignore(d) ==
  /\ edits < MaxEdits /\ edits' = edits + 1
  /\ ignored' = IF d \in ignored THEN ignored \ {d} ELSE ignored \cup {d}
  /\ UNCHANGED <<source, content, manifestDocs, vectors, lexical, details, job, due,
                 orderly, mishaps>>

\* search.admin, doc-delete: the manifest, then the vectors, then the ignore list.
DeleteByHand(d) ==
  /\ edits < MaxEdits /\ manifestDocs[d] # None
  /\ edits' = edits + 1 /\ orderly' = FALSE
  /\ manifestDocs' = [manifestDocs EXCEPT ![d] = None]
  /\ \E reached, ignoring \in BOOLEAN :
       /\ vectors' = [c \in Chunk |->
                        IF reached /\ c[1] = d /\ ChunksOf(manifestDocs)[c] # None
                        THEN None ELSE vectors[c]]
       /\ ignored' = IF ignoring THEN ignored \cup {d} ELSE ignored
  /\ UNCHANGED <<source, content, lexical, details, job, due, mishaps>>

-----------------------------------------------------------------------------
(* A job.                                                                  *)

Becomes(state) == job' = state

\* The job of the push; or one that a schedule or a person starts.
JobBegins ==
  /\ job.pc = "idle"
  /\ \/ /\ due.pc = "read" /\ Becomes(due) /\ due' = NoJob
     \/ /\ source = "repo" /\ due.pc = "idle"
        /\ Becomes([NoJob EXCEPT !.pc = "read", !.mode = "full", !.seen = content])
        /\ UNCHANGED due
     \/ /\ source = "podcasts"
        /\ Becomes([NoJob EXCEPT !.pc = "read", !.mode = "full"])
        /\ UNCHANGED due
     \/ /\ source = "youtube"
        /\ \E mode \in {"full", "incremental"}, prune \in BOOLEAN :
             Becomes([NoJob EXCEPT !.pc = "read", !.mode = mode, !.prune = prune])
        /\ UNCHANGED due
  /\ UNCHANGED <<source, content, ignored, manifestDocs, vectors, lexical, details, orderly,
                 edits, mishaps>>

\* A job that has the list of what is published, its manifest, the previous artifact
\* and the ignore list.
Reading(list) ==
  [job EXCEPT !.pc = "delete", !.seen = list, !.ignored = ignored,
              !.manifest = manifestDocs, !.lexical = lexical, !.at = edits]

\* Mutant: a list that the service refuses counts as empty.
ReadsWhatItGets ==
  /\ job.pc = "read"
  /\ \E refused \in SUBSET Docs :
       Becomes(Reading([d \in Docs |-> IF d \in refused THEN None ELSE content[d]]))
  /\ UNCHANGED <<source, content, ignored, manifestDocs, vectors, lexical, details, due,
                 orderly, edits, mishaps>>

\* fetchVideoEnrichedData: details that are refused, other than as a bot's, are empty
\* and do not fail the job.  Those of a video to index come from the cache if it is
\* used and has them, empty ones too, and are kept in it.
EnrichVideos ==
  \E useCache, refreshCache \in BOOLEAN :
    LET videos == VideosToIndex(Reading(content))
        stored == {d \in videos : useCache /\ ~refreshCache /\ details[d] # None}
    IN \E refused \in SUBSET (videos \ stored) :
         LET read == [d \in Docs |-> IF d \in stored THEN details[d]
                                     ELSE IF d \in refused THEN Bare ELSE content[d]]
         IN /\ IF useCache /\ refused = {} THEN UNCHANGED mishaps ELSE CountMishap
            /\ Becomes([Reading(read) EXCEPT
                         !.unread = {d \in videos : read[d] # content[d]}])
            /\ details' = [d \in Docs |-> IF useCache /\ d \in videos THEN read[d]
                                          ELSE details[d]]

\* A list that cannot be had fails the job: one that is answered is complete.
JobReads ==
  /\ job.pc = "read"
  /\ CASE source = "repo" -> Becomes(Reading(job.seen)) /\ UNCHANGED <<details, mishaps>>
       [] source = "podcasts" -> Becomes(Reading(content)) /\ UNCHANGED <<details, mishaps>>
       [] source = "youtube" -> EnrichVideos
  /\ UNCHANGED <<source, content, ignored, manifestDocs, vectors, lexical, due, orderly,
                 edits>>

\* index-youtube-playlist: no new video, no pruning and nothing to ignore.
NothingNew ==
  /\ job.pc = "delete" /\ source = "youtube" /\ ~job.prune
  /\ ToIndex(job) = {} /\ job.ignored \cap Kept(job) = {}
  /\ Becomes(NoJob)
  /\ UNCHANGED <<source, content, ignored, manifestDocs, vectors, lexical, details, due,
                 orderly, edits, mishaps>>

DeleteVectors ==
  /\ job.pc = "delete"
  /\ ~(source = "youtube" /\ ~job.prune /\ ToIndex(job) = {}
       /\ job.ignored \cap Kept(job) = {})
  /\ vectors' = [c \in Chunk |-> IF c \in IdsToDelete(job) THEN None ELSE vectors[c]]
  /\ Becomes([job EXCEPT !.pc = "upsert"])
  /\ UNCHANGED <<source, content, ignored, manifestDocs, lexical, details, due, orderly,
                 edits, mishaps>>

\* embedItemsSafely splits a batch that is refused until it has found the item.
Embedded(chunks, refused) == chunks \ refused

UpsertVectors ==
  /\ job.pc = "upsert"
  /\ \E refused \in {{}} \cup {{c} : c \in ToUpsert(job)} :
       /\ IF refused = {} THEN UNCHANGED <<orderly, mishaps>> ELSE Mishap
       /\ vectors' = [c \in Chunk |-> IF c \in Embedded(ToUpsert(job), refused)
                                      THEN job.seen[c[1]] ELSE vectors[c]]
  /\ Becomes([job EXCEPT !.pc = "manifest"])
  /\ UNCHANGED <<source, content, ignored, manifestDocs, lexical, details, due, edits>>

PutManifest ==
  /\ job.pc = "manifest"
  /\ manifestDocs' = NextManifest(job)
  /\ Becomes([job EXCEPT !.pc = "lexical"])
  /\ UNCHANGED <<source, content, ignored, vectors, lexical, details, due, orderly, edits,
                 mishaps>>

PutLexical ==
  /\ job.pc = "lexical"
  /\ lexical' = NextLexical(job)
  /\ Becomes(NoJob)
  /\ UNCHANGED <<source, content, ignored, manifestDocs, vectors, details, due, orderly,
                 edits, mishaps>>

JobIsLost ==
  /\ job.pc # "idle"
  /\ Mishap /\ Becomes(NoJob)
  /\ UNCHANGED <<source, content, ignored, manifestDocs, vectors, lexical, details, due,
                 edits>>

-----------------------------------------------------------------------------

IndexingInit ==
  /\ source \in Sources
  /\ content = NoDocs /\ ignored = {} /\ manifestDocs = NoDocs
  /\ vectors = ChunksOf(NoDocs) /\ lexical = ChunksOf(NoDocs) /\ details = NoDocs
  /\ job = NoJob /\ due = NoJob /\ orderly = TRUE /\ edits = 0 /\ mishaps = 0

JobGoesOn ==
  JobReads \/ NothingNew \/ DeleteVectors \/ UpsertVectors \/ PutManifest \/ PutLexical

IndexingNext ==
  \/ \E d \in Docs, body \in Bodies \cup {None} :
       \/ ChangeContent(d, body)
       \/ \E added, deleted \in SUBSET Docs : PushContent(d, body, added, deleted)
  \/ \E d \in Docs : Ignore(d) \/ DeleteByHand(d)
  \/ JobBegins \/ JobGoesOn \/ JobIsLost

IndexingSpec == IndexingInit /\ [][IndexingNext]_indexVars
=============================================================================
