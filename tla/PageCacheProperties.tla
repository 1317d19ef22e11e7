-------------------------- MODULE PageCacheProperties --------------------------
(***************************************************************************)
(* What the anonymous page cache must guarantee, stated over PageCache.    *)
(***************************************************************************)
EXTENDS PageCache

\* Every variable holds a value of its kind.
TypeOK ==
  /\ version \in Versions /\ generation \in Generations
  /\ readable \in [manifest : SUBSET Versions, generation : SUBSET Generations]
  /\ opened \in [Generations -> Versions]
  /\ entry \in [Generations -> Entry \cup {None}]
  /\ memory \in [Isolates -> Memory]
  /\ filling \in [Isolates -> [Generations -> Fill \cup {None}]]
  /\ request \in [Requests -> Request]
  /\ publisher \in [Publishers -> Publisher]
  /\ faults \in 0..MaxFaults

\* Privacy: a page that anybody may be served was rendered for nobody in
\* particular, however requests of clients, their fills and prewarms overlap.
SharedPagesAreNobodys ==
  \A g \in Generations : entry[g] # None => entry[g].page.by = "nobody"

\* A page that was rendered from the manifest of the moment is not older than the
\* publication that opened its generation: the manifest is flipped before
\* the generation is bumped, and a request reads its generation before its
\* manifest.  So what a new generation holds of older content comes from a stale
\* copy of the manifest, never from the order of these four steps.
PagesFitTheirGeneration ==
  \A g \in Generations :
    entry[g] # None /\ entry[g].page.current => entry[g].page.version >= opened[g]

\* When nothing is published any more, the page under the current generation
\* shows the current content for good, as long as somebody asks for it: stale
\* copies of the manifest run out, and stale entries are filled again.
CurrentContentInTheEnd ==
  <>[](entry[generation] # None => entry[generation].page.version = version)

\* A page that was prewarmed keeps the content it was prewarmed with, or newer:
\* "This prevents a fresh cache generation from being filled with stale MDX"
\* (docs/agents/cloudflare-worker-architecture.md:525).  It does not hold: a
\* request that missed before the prewarm, in an isolate whose copy of the
\* manifest is older, stores its page afterwards.
PrewarmedPageStays ==
  \A p \in Publishers :
    LET e == entry[publisher[p].generation] IN
    publisher[p].pc = "warm" /\ e # None => e.page.version >= publisher[p].version
=============================================================================
