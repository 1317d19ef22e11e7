----------------------------- MODULE SearchSync ------------------------------
(***************************************************************************)
(* The search worker copies the lexical artifact of a source from R2 to    *)
(* its D1 database in several batches, each atomic, and marks the source   *)
(* in the last one.  The site keeps the answers to queries under the time  *)
(* of the last sync that it reads from the worker.                         *)
(***************************************************************************)
EXTENDS Integers, FiniteSets, FiniteSetsExt, Absence

CONSTANTS
  Syncs,           \* requests to /internal/sync that may be under way together
  Searchers,       \* searches that may be under way together
  MaxChunks,       \* bound on the chunks of an artifact
  MaxArtifacts,    \* bound on the artifacts that the indexer writes
  MaxSyncs,        \* bound on syncs
  MaxLosses        \* bound on syncs that are lost half way

ASSUME SearchAssumption ==
  /\ MaxChunks \in Nat \ {0} /\ MaxArtifacts \in Nat \ {0}
  /\ MaxSyncs \in Nat /\ MaxLosses \in Nat

VARIABLES
  artifact,   \* the object in R2
  generated,  \* artifacts written so far: the clock of generatedAt
  rows,       \* lexical_chunks with lexical_search_fts: the artifact each chunk is of
  mark,       \* the row of lexical_sources
  sync,       \* syncSearchArtifacts, between two awaits
  started,    \* syncs so far: the clock of syncedAt
  syncedAt,   \* service_metadata: lastSyncedAt
  search,     \* searchKCD, between two awaits
  cached,     \* application cache: the answer kept under each time of a sync
  whole,      \* no sync was lost since the last one that ended
  alone,      \* what is in the database is of syncs that did not overlap
  copied,     \* the artifact that the last sync which ended had read
  losses

syncVars == <<artifact, generated, rows, mark, sync, started, syncedAt,
              search, cached, whole, alone, copied, losses>>

-----------------------------------------------------------------------------
(* Data.                                                                   *)

ChunkIds == 1..MaxChunks
Stamps == 0..MaxSyncs

Artifact == [at : 1..MaxArtifacts, chunks : ChunkIds]

\* Chunks 1 to n, of one artifact each; 0 where there is no row.
Rows == [ChunkIds -> 0..MaxArtifacts]
NoRows == [c \in ChunkIds |-> 0]
RowsOf(a) == [c \in ChunkIds |-> IF c <= a.chunks THEN a.at ELSE 0]

NoSync == [pc |-> "idle", force |-> FALSE, solo |-> TRUE, stamp |-> 0,
           artifact |-> None, next |-> 1]
SyncState ==
  [pc : {"idle", "read", "check", "clear", "replace", "finish"}, force : BOOLEAN,
   solo : BOOLEAN, stamp : Stamps, artifact : Artifact \cup {None}, next : 1..MaxChunks]

NoSearch == [pc |-> "idle", key |-> 0, answer |-> NoRows]
SearchState == [pc : {"idle", "query", "store"}, key : Stamps, answer : Rows]

\* queryLexicalSearch joins lexical_sources: a source without its mark has no hits.
Visible == IF mark = None THEN NoRows ELSE rows

-----------------------------------------------------------------------------
(* The indexer writes the artifact, or somebody removes or breaks it.      *)

PutArtifact(n) ==
  /\ generated < MaxArtifacts
  /\ generated' = generated + 1
  /\ artifact' = [at |-> generated + 1, chunks |-> n]
  /\ UNCHANGED <<rows, mark, sync, started, syncedAt, search, cached, whole, alone,
                 copied, losses>>

\* Missing, or malformed JSON: getLexicalSearchArtifact answers null.
SpoilArtifact ==
  /\ artifact # None /\ losses < MaxLosses
  /\ artifact' = None /\ losses' = losses + 1
  /\ UNCHANGED <<generated, rows, mark, sync, started, syncedAt, search, cached,
                 whole, alone, copied>>

-----------------------------------------------------------------------------
(* syncSearchArtifacts.                                                    *)

Continue(s, state) == sync' = [sync EXCEPT ![s] = state]

SyncBegins(s, force) ==
  /\ sync[s].pc = "idle" /\ started < MaxSyncs
  /\ started' = started + 1
  /\ LET others == {t \in Syncs : sync[t].pc # "idle"} IN
     /\ sync' = [t \in Syncs |->
                  IF t = s THEN [NoSync EXCEPT !.pc = "read", !.force = force,
                                   !.solo = (others = {}), !.stamp = started + 1]
                  ELSE IF t \in others THEN [sync[t] EXCEPT !.solo = FALSE]
                  ELSE sync[t]]
     /\ alone' = (alone /\ others = {})
  /\ UNCHANGED <<artifact, generated, rows, mark, syncedAt, search, cached, whole, copied,
                 losses>>

SyncReads(s) ==
  /\ sync[s].pc = "read"
  /\ Continue(s, [sync[s] EXCEPT !.artifact = artifact,
                    !.pc = IF artifact = None THEN "clear" ELSE "check"])
  /\ UNCHANGED <<artifact, generated, rows, mark, started, syncedAt, search, cached,
                 whole, alone, copied, losses>>

Unchanged(s) == mark = [at |-> sync[s].artifact.at, chunks |-> sync[s].artifact.chunks]

SyncChecks(s) ==
  /\ sync[s].pc = "check"
  /\ Continue(s, [sync[s] EXCEPT !.pc =
                    IF ~sync[s].force /\ Unchanged(s) THEN "finish" ELSE "replace"])
  /\ UNCHANGED <<artifact, generated, rows, mark, started, syncedAt, search, cached,
                 whole, alone, copied, losses>>

\* clearSearchSource: four deletes in one batch.
SyncClears(s) ==
  /\ sync[s].pc = "clear"
  /\ rows' = NoRows /\ mark' = None
  /\ Continue(s, [sync[s] EXCEPT !.pc = "finish"])
  /\ UNCHANGED <<artifact, generated, started, syncedAt, search, cached, whole,
                 alone, copied, losses>>

\* Mutant: the mark is written with the deletes.
MarkFirst(s) ==
  LET a == sync[s].artifact  n == sync[s].next
      old == IF n = 1 THEN NoRows ELSE rows
  IN
  /\ sync[s].pc = "replace" /\ old[n] = 0
  /\ rows' = [old EXCEPT ![n] = a.at]
  /\ mark' = a
  /\ Continue(s, IF n = a.chunks THEN [sync[s] EXCEPT !.pc = "finish"]
                 ELSE [sync[s] EXCEPT !.next = n + 1])
  /\ UNCHANGED <<artifact, generated, started, syncedAt, search, cached, whole,
                 alone, copied, losses>>

\* replaceSearchSource: the deletes are in the first batch, the mark is in the last.
\* Each chunk stands for the statements of one batch.
WriteBatch(s) ==
  LET a == sync[s].artifact  n == sync[s].next
      old == IF n = 1 THEN NoRows ELSE rows
  IN
  /\ sync[s].pc = "replace" /\ old[n] = 0
  /\ rows' = [old EXCEPT ![n] = a.at]
  /\ mark' = IF n = a.chunks THEN a ELSE IF n = 1 THEN None ELSE mark
  /\ Continue(s, IF n = a.chunks THEN [sync[s] EXCEPT !.pc = "finish"]
                 ELSE [sync[s] EXCEPT !.next = n + 1])
  /\ UNCHANGED <<artifact, generated, started, syncedAt, search, cached, whole,
                 alone, copied, losses>>

\* The batch inserts a chunk whose primary key is there: it fails as a whole.
WriteConflicts(s) ==
  /\ sync[s].pc = "replace" /\ sync[s].next > 1 /\ rows[sync[s].next] # 0
  /\ Continue(s, NoSync) /\ whole' = FALSE
  /\ UNCHANGED <<artifact, generated, rows, mark, started, syncedAt, search, cached,
                 alone, copied, losses>>

\* markSearchSynced
SyncFinishes(s) ==
  /\ sync[s].pc = "finish"
  /\ syncedAt' = sync[s].stamp /\ whole' = TRUE /\ copied' = sync[s].artifact
  /\ alone' = (alone \/ (sync[s].solo /\ sync[s].force))
  /\ Continue(s, NoSync)
  /\ UNCHANGED <<artifact, generated, rows, mark, started, search, cached, losses>>

SyncIsLost(s) ==
  /\ sync[s].pc # "idle" /\ losses < MaxLosses
  /\ losses' = losses + 1 /\ whole' = FALSE
  /\ Continue(s, NoSync)
  /\ UNCHANGED <<artifact, generated, rows, mark, started, syncedAt, search, cached,
                 alone, copied>>

-----------------------------------------------------------------------------
(* searchKCD.                                                              *)

\* getSearchWorkerHealth, then the cache under that key: nothing is there.
SearchBegins(r) ==
  /\ search[r].pc = "idle" /\ cached[syncedAt] = None
  /\ search' = [search EXCEPT ![r] = [NoSearch EXCEPT !.pc = "query", !.key = syncedAt]]
  /\ UNCHANGED <<artifact, generated, rows, mark, sync, started, syncedAt, cached,
                 whole, alone, copied, losses>>

\* querySearchWorkerResults
SearchQueries(r) ==
  /\ search[r].pc = "query"
  /\ search' = [search EXCEPT ![r].pc = "store", ![r].answer = Visible]
  /\ UNCHANGED <<artifact, generated, rows, mark, sync, started, syncedAt, cached,
                 whole, alone, copied, losses>>

\* Under the key of now, not the one of the beginning.
StoresUnderNewKey(r) ==
  /\ search[r].pc = "store"
  /\ cached' = [cached EXCEPT ![syncedAt] = search[r].answer]
  /\ search' = [search EXCEPT ![r] = NoSearch]
  /\ UNCHANGED <<artifact, generated, rows, mark, sync, started, syncedAt, whole,
                 alone, copied, losses>>

SearchStores(r) ==
  /\ search[r].pc = "store"
  /\ cached' = [cached EXCEPT ![search[r].key] = search[r].answer]
  /\ search' = [search EXCEPT ![r] = NoSearch]
  /\ UNCHANGED <<artifact, generated, rows, mark, sync, started, syncedAt, whole,
                 alone, copied, losses>>

\* SEARCH_CACHE_TTL_MS
AnswerExpires(k) ==
  /\ cached[k] # None
  /\ cached' = [cached EXCEPT ![k] = None]
  /\ UNCHANGED <<artifact, generated, rows, mark, sync, started, syncedAt, search,
                 whole, alone, copied, losses>>

-----------------------------------------------------------------------------

SearchSyncInit ==
  /\ artifact = None /\ generated = 0 /\ rows = NoRows /\ mark = None
  /\ sync = [s \in Syncs |-> NoSync] /\ started = 0 /\ syncedAt = 0
  /\ search = [r \in Searchers |-> NoSearch] /\ cached = [k \in Stamps |-> None]
  /\ whole = TRUE /\ alone = TRUE /\ copied = None /\ losses = 0

SyncGoesOn(s) ==
  SyncReads(s) \/ SyncChecks(s) \/ SyncClears(s) \/ WriteBatch(s) \/ SyncFinishes(s)

SearchSyncNext ==
  \/ \E n \in ChunkIds : PutArtifact(n)
  \/ SpoilArtifact
  \/ \E s \in Syncs, force \in BOOLEAN : SyncBegins(s, force)
  \/ \E s \in Syncs : SyncGoesOn(s) \/ WriteConflicts(s) \/ SyncIsLost(s)
  \/ \E r \in Searchers : SearchBegins(r) \/ SearchQueries(r) \/ SearchStores(r)
  \/ \E k \in Stamps : AnswerExpires(k)

SearchSyncSpec == SearchSyncInit /\ [][SearchSyncNext]_syncVars
=============================================================================
