----------------------- MODULE MdxArtifactsProperties -----------------------
(***************************************************************************)
(* What the publishing of compiled content must guarantee.                 *)
(***************************************************************************)
EXTENDS MdxArtifacts

\* Every variable holds a value of its kind.
ArtifactsTypeOK ==
  /\ r2 \in [Versions -> Payloads \cup {None}]
  /\ mirror \in [Versions -> Cell(Payloads \cup {None})]
  /\ codeKey \in [Versions -> Cell(Payloads \cup {None})]
  /\ manifest \in Cell(Versions)
  /\ parent \in [Parents -> Caches]
  /\ app \in [Versions -> App \cup {None}]
  /\ reader \in [Readers -> Reader]
  /\ publication \in [Publications -> Publication]
  /\ published \in 0..MaxPublished /\ broken \in 0..MaxBroken

\* No request is answered that nothing was published, or without its document.
NeverUnprovisioned == \A r \in Readers : reader[r].pc # "unprovisioned"
LostOnlyByRemoval ==
  (\E v \in Listed : app[v] # None /\ None \in app[v].page)
    => \E u \in Versions \ Listed : r2[u] # None

\* Once content has been published, no request is answered that it is not there:
\* whatever manifest an isolate goes by, of KV, of its memory or of the edge, its
\* bundle can be loaded, although mirrors are missing and publications break off;
\* and a worker takes a document of its version for missing, and keeps that, only
\* if a version without the document has been put into R2.
DocumentsAreServed == NeverUnprovisioned /\ LostOnlyByRemoval

\* Everything that is kept under a version, in KV, in an isolate, or as modules
\* of a worker, was compiled for that version: two versions never mix in a cache.
CachesDoNotMix ==
  \A v \in Versions :
    LET kept == Readable(mirror[v]) \cup Readable(codeKey[v]) \cup {r2[v]}
                \cup (UNION {{parent[p].modules[v], parent[p].code[v]} : p \in Parents})
                \cup {parent[p].bundle[v].payload :
                        p \in {q \in Parents : parent[q].bundle[v] # None}}
                \cup (IF app[v] = None THEN {} ELSE {app[v].modules}) IN
    \A x \in kept \ {None} : x.version = v

\* When nothing is published any more, every page is served from the version of
\* the manifest in the end, in every isolate.
PublishedInTheEnd ==
  <>[](\A r \in Readers : reader[r].phase = "page" /\ reader[r].pc = "bundle"
         => reader[r].version = manifest.now)

=============================================================================
