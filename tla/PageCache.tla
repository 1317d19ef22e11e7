------------------------------ MODULE PageCache ------------------------------
(***************************************************************************)
(* The anonymous page cache of the parent worker, for one page and one     *)
(* theme: the manifest and the cache generation in KV with the copies that *)
(* every isolate keeps for fifteen seconds, the entries in KV under the    *)
(* generation, the requests and background fills that render the page and  *)
(* store it, and the workflow that publishes, refreshes and prewarms.      *)
(*                                                                         *)
(* Every action is one await of the code.  The fifteen seconds of a copy,  *)
(* the five minutes of a fresh entry and the propagation of a KV write may *)
(* end at any moment, so no time is counted.                               *)
(***************************************************************************)
EXTENDS Absence, Naturals

CONSTANTS
  Isolates,       \* parent isolates
  Requests,       \* requests that may be under way at the same time
  Publishers,     \* workflow runs that may overlap (deploy, content refresh)
  MaxVersion,     \* bound on manifests that are put
  MaxGeneration,  \* bound on generation bumps
  MaxFaults       \* bound on failed fetches and writes, and on lost isolates

ASSUME BoundsAssumption ==
  MaxVersion \in Nat /\ MaxGeneration \in Nat /\ MaxFaults \in Nat

ASSUME NoneAssumption == None \notin Nat /\ None \notin Isolates

Versions == 0..MaxVersion        \* contents, in the order of their manifests
Generations == 0..MaxGeneration  \* Date.now() of the bumps, in their order

VARIABLES
  version,     \* mdx-manifest:current, as last put
  generation,  \* page-cache:generation, as last put
  readable,    \* what a KV read of the two may return until it has propagated
  opened,      \* the version that was published when a generation was opened
  entry,       \* the stored page of each generation
  memory,      \* manifestCache and generationCache of each isolate
  filling,     \* inFlightRevalidations of each isolate
  request,     \* the requests that are under way
  publisher,   \* the workflow runs, with the handler they are waiting for
  faults       \* failures so far

vars == <<version, generation, readable, opened, entry, memory, filling,
          request, publisher, faults>>

-----------------------------------------------------------------------------
(* Data.                                                                   *)

\* A rendered page: of which content, for whom, and whether the manifest it was
\* rendered from was the current one when it was read.
Rendering == [version : Versions, by : {"nobody", "client"}, current : BOOLEAN]

\* A stored page is stale after PAGE_CACHE_FRESH_TTL_SEC.
Entry == [page : Rendering, stale : BOOLEAN]

Memory == [manifest : Versions \cup {None}, generation : Generations \cup {None}]

\* A background fill, before and after its page is rendered.
Fill == [page : Rendering \cup {None}]

\* A client carries KCD_client_id, an anonymous visitor at most a theme; a
\* prewarm is anonymous and wants a version.
Request == [pc : {"idle", "generation", "lookup", "dynamic", "storing"},
            isolate : Isolates \cup {None},
            visitor : {"anonymous", "client"},
            wanted : Versions \cup {None},
            generation : Generations \cup {None},
            page : Rendering \cup {None}]

NoRequest == [pc |-> "idle", isolate |-> None, visitor |-> "anonymous",
              wanted |-> None, generation |-> None, page |-> None]

Publisher == [pc : {"idle", "flipped", "published", "refreshing", "prewarming",
                    "warm"},
              isolate : Isolates \cup {None},
              version : Versions \cup {None},
              generation : Generations \cup {None}]

NoPublisher == [pc |-> "idle", isolate |-> None, version |-> None,
                generation |-> None]

Cold == [manifest |-> None, generation |-> None]

Fault == faults < MaxFaults /\ faults' = faults + 1

-----------------------------------------------------------------------------
(* Reading the two keys through the memory of the isolate.                 *)

ReadableManifests(i, bypass) ==
  IF bypass \/ memory[i].manifest = None THEN readable.manifest
  ELSE {memory[i].manifest}

ReadableGenerations(i) ==
  IF memory[i].generation = None THEN readable.generation
  ELSE {memory[i].generation}

Remember(i, key, value) ==
  memory' = [memory EXCEPT ![i] = [@ EXCEPT ![key] = value]]

\* The page that the dynamic worker renders from a manifest.
PageOf(v, by) == [version |-> v, by |-> by, current |-> v = version]

-----------------------------------------------------------------------------
(* handlePageCacheRequest.                                                 *)

\* Mutants: whatever a visitor got may be stored for everyone; the page is
\* filed under the generation of the moment at which it is stored; a stale
\* entry is served without a fill.
StoresEveryResponse(r) == TRUE
GenerationWhenStored(r) == generation
NoFillForEntry(i, g) ==
  filling' = IF filling[i][g] = None /\ entry[g] = None
             THEN [filling EXCEPT ![i][g] = [page |-> None]] ELSE filling

\* canStoreOwnResponse.
CanStoreOwnResponse(r) == request[r].visitor = "anonymous"

\* buildPageCacheKey: the generation that was read when the request came in.
KeyOf(r) == request[r].generation

\* revalidatePageCacheEntry: a fill is begun unless one is in flight.
BeginFill(i, g) ==
  filling' = IF filling[i][g] = None
             THEN [filling EXCEPT ![i][g] = [page |-> None]] ELSE filling

\* A GET of the page by somebody the cache may serve; HEAD requests and listed
\* pages read only, see Bypass.
Arrive(r, i) ==
  /\ request[r].pc = "idle"
  /\ \E visitor \in {"anonymous", "client"} :
       request' = [request EXCEPT ![r] =
                     [NoRequest EXCEPT !.pc = "generation", !.isolate = i,
                                       !.visitor = visitor]]
  /\ UNCHANGED <<version, generation, readable, opened, entry, memory, filling,
                 publisher, faults>>

\* getPageCacheGeneration; a prewarm of another generation is refused (409), and
\* one of this generation does not look at the entry.
ReadGeneration(r) ==
  /\ request[r].pc = "generation"
  /\ \E g \in ReadableGenerations(request[r].isolate) :
       /\ Remember(request[r].isolate, "generation", g)
       /\ request' = [request EXCEPT ![r] =
            IF request[r].wanted = None
            THEN [@ EXCEPT !.pc = "lookup", !.generation = g]
            ELSE IF request[r].generation = g
            THEN [@ EXCEPT !.pc = "dynamic"]
            ELSE NoRequest]
  /\ UNCHANGED <<version, generation, readable, opened, entry, filling,
                 publisher, faults>>

\* readPageCacheEntry: a fresh entry is served, a stale one is served and filled
\* again, and without one the page is rendered.  A read may miss an entry that
\* was stored elsewhere a moment ago.
Lookup(r) ==
  LET g == request[r].generation IN
  /\ request[r].pc = "lookup"
  /\ \/ /\ entry[g] # None
        /\ request' = [request EXCEPT ![r] = NoRequest]
        /\ IF entry[g].stale THEN BeginFill(request[r].isolate, g)
           ELSE UNCHANGED filling
     \/ /\ request' = [request EXCEPT ![r].pc = "dynamic"]
        /\ UNCHANGED filling
  /\ UNCHANGED <<version, generation, readable, opened, entry, memory,
                 publisher, faults>>

\* handleDynamicRequest on a miss: a prewarm reads past the memory and is
\* refused when the version is another; the visitor's own response is stored if
\* it is nobody's, and otherwise a fill is begun.
Render(r) ==
  LET i == request[r].isolate IN
  /\ request[r].pc = "dynamic"
  /\ \E v \in ReadableManifests(i, request[r].wanted # None) :
       /\ Remember(i, "manifest", v)
       /\ IF request[r].wanted \notin {None, v}
          THEN request' = [request EXCEPT ![r] = NoRequest] /\ UNCHANGED filling
          ELSE IF CanStoreOwnResponse(r)
          THEN /\ request' = [request EXCEPT ![r] =
                    [@ EXCEPT !.pc = "storing",
                       !.page = PageOf(v, IF request[r].visitor = "client"
                                          THEN "client" ELSE "nobody")]]
               /\ UNCHANGED filling
          ELSE /\ request' = [request EXCEPT ![r] = NoRequest]
               /\ BeginFill(i, request[r].generation)
  /\ UNCHANGED <<version, generation, readable, opened, entry, publisher, faults>>

Fresh(page) == [page |-> page, stale |-> FALSE]

\* storePageCacheFromFillResponse: the entry is put whatever is there.  The
\* answer to a prewarm tells its workflow that the page was stored.
Store(r) ==
  /\ request[r].pc = "storing"
  /\ entry' = [entry EXCEPT ![KeyOf(r)] = Fresh(request[r].page)]
  /\ publisher' = [p \in Publishers |->
       IF /\ publisher[p].pc = "prewarming" /\ request[r].wanted # None
          /\ publisher[p].generation = request[r].generation
       THEN [publisher[p] EXCEPT !.pc = "warm"] ELSE publisher[p]]
  /\ request' = [request EXCEPT ![r] = NoRequest]
  /\ UNCHANGED <<version, generation, readable, opened, memory, filling, faults>>

\* An error, a response that must not be stored, or a write that fails.
StoreFails(r) ==
  /\ request[r].pc \in {"dynamic", "storing"}
  /\ request' = [request EXCEPT ![r] = NoRequest]
  /\ Fault
  /\ UNCHANGED <<version, generation, readable, opened, entry, memory, filling,
                 publisher>>

\* The body of a fill: buildPageCacheFillRequest carries no client id, and goes
\* through the memory of the isolate.
FillRender(i, g) ==
  /\ filling[i][g] # None /\ filling[i][g].page = None
  /\ \E v \in ReadableManifests(i, FALSE) :
       /\ Remember(i, "manifest", v)
       /\ filling' = [filling EXCEPT ![i][g] = [page |-> PageOf(v, "nobody")]]
  /\ UNCHANGED <<version, generation, readable, opened, entry, request,
                 publisher, faults>>

\* Mutant: a fill does not wait for its page.
StoreBeforeRender(i, g) ==
  /\ filling[i][g] # None
  /\ entry' = [entry EXCEPT ![g] = Fresh(filling[i][g].page)]
  /\ filling' = [filling EXCEPT ![i][g] = None]
  /\ UNCHANGED <<version, generation, readable, opened, memory, request,
                 publisher, faults>>

FillStore(i, g) ==
  /\ filling[i][g] # None /\ filling[i][g].page # None
  /\ entry' = [entry EXCEPT ![g] = Fresh(filling[i][g].page)]
  /\ filling' = [filling EXCEPT ![i][g] = None]
  /\ UNCHANGED <<version, generation, readable, opened, memory, request,
                 publisher, faults>>

\* The fill throws, or its response must not be stored: finally() removes it.
FillFails(i, g) ==
  /\ filling[i][g] # None
  /\ filling' = [filling EXCEPT ![i][g] = None]
  /\ Fault
  /\ UNCHANGED <<version, generation, readable, opened, entry, memory, request,
                 publisher>>

\* The warmup cron, and every request that the cache does not serve or store
\* (a session cookie, a client on a listed page, HEAD), read the manifest.
Bypass(i) ==
  /\ memory[i].manifest = None
  /\ \E v \in readable.manifest : Remember(i, "manifest", v)
  /\ UNCHANGED <<version, generation, readable, opened, entry, filling, request,
                 publisher, faults>>

-----------------------------------------------------------------------------
(* The workflow: publish, refresh, prewarm.                                *)

\* bumpPageCacheGeneration, on behalf of a workflow that published a version.
OpenGeneration(p) ==
  /\ generation < MaxGeneration
  /\ generation' = generation + 1
  /\ readable' = [readable EXCEPT !.generation = @ \cup {generation + 1}]
  /\ opened' = [opened EXCEPT ![generation + 1] = publisher[p].version]

\* handlePublishArtifacts: the manifest is flipped and the isolate forgets its
\* copy ...
FlipManifest(p, i) ==
  /\ publisher[p].pc = "idle"
  /\ version < MaxVersion
  /\ version' = version + 1
  /\ readable' = [readable EXCEPT !.manifest = @ \cup {version + 1}]
  /\ Remember(i, "manifest", None)
  /\ publisher' = [publisher EXCEPT ![p] =
                     [NoPublisher EXCEPT !.pc = "flipped", !.isolate = i,
                                         !.version = version + 1]]
  /\ UNCHANGED <<generation, opened, entry, filling, request, faults>>

\* ... and then the generation is bumped.
BumpGeneration(p) ==
  /\ publisher[p].pc = "flipped"
  /\ OpenGeneration(p)
  /\ Remember(publisher[p].isolate, "generation", generation + 1)
  /\ publisher' = [publisher EXCEPT ![p] =
                     [@ EXCEPT !.pc = "published", !.isolate = None]]
  /\ UNCHANGED <<version, entry, filling, request, faults>>

\* POST /action/refresh-cache bumps the generation again ...
RefreshCache(p, i) ==
  /\ publisher[p].pc = "published"
  /\ OpenGeneration(p)
  /\ Remember(i, "generation", None)
  /\ publisher' = [publisher EXCEPT ![p] =
                     [@ EXCEPT !.pc = "refreshing", !.isolate = i,
                               !.generation = generation + 1]]
  /\ UNCHANGED <<version, entry, filling, request, faults>>

\* ... and answers with the version that a read past the memory returns.
RefreshAnswers(p) ==
  /\ publisher[p].pc = "refreshing"
  /\ \E v \in readable.manifest :
       /\ Remember(publisher[p].isolate, "manifest", v)
       /\ publisher' = [publisher EXCEPT ![p] =
                          [@ EXCEPT !.pc = "prewarming", !.isolate = None,
                                    !.version = v]]
  /\ UNCHANGED <<version, generation, readable, opened, entry, filling, request, faults>>

\* postRefreshCacheWithRetry posts again when the answer is lost.
RefreshLost(p) ==
  /\ publisher[p].pc = "refreshing"
  /\ publisher' = [publisher EXCEPT ![p] =
                     [@ EXCEPT !.pc = "published", !.isolate = None,
                               !.generation = None]]
  /\ Fault
  /\ UNCHANGED <<version, generation, readable, opened, entry, memory, filling,
                 request>>

\* prewarmPageCache: one attempt, in whatever isolate answers.
Prewarm(p, r, i) ==
  /\ publisher[p].pc = "prewarming"
  /\ request[r].pc = "idle"
  /\ request' = [request EXCEPT ![r] =
                   [NoRequest EXCEPT !.pc = "generation", !.isolate = i,
                                     !.wanted = publisher[p].version,
                                     !.generation = publisher[p].generation]]
  /\ UNCHANGED <<version, generation, readable, opened, entry, memory, filling,
                 publisher, faults>>

\* The attempts are used up, there is nothing (more) to prewarm, or the run is
\* cancelled or lost between two steps of the handler.
WorkflowEnds(p) ==
  /\ publisher[p].pc # "idle"
  /\ publisher' = [publisher EXCEPT ![p] = NoPublisher]
  /\ UNCHANGED <<version, generation, readable, opened, entry, memory, filling,
                 request, faults>>

-----------------------------------------------------------------------------
(* Time.                                                                   *)

\* A KV write has reached every location.
Propagate ==
  /\ readable # [manifest |-> {version}, generation |-> {generation}]
  /\ readable' = [manifest |-> {version}, generation |-> {generation}]
  /\ UNCHANGED <<version, generation, opened, entry, memory, filling, request,
                 publisher, faults>>

\* MANIFEST_TTL_MS and PAGE_CACHE_GENERATION_MEMORY_TTL_MS.
Forget(i, key) ==
  /\ memory[i][key] # None
  /\ Remember(i, key, None)
  /\ UNCHANGED <<version, generation, readable, opened, entry, filling, request,
                 publisher, faults>>

EntryAges(g) ==
  /\ entry[g] # None /\ ~entry[g].stale
  /\ entry' = [entry EXCEPT ![g] = [@ EXCEPT !.stale = TRUE]]
  /\ UNCHANGED <<version, generation, readable, opened, memory, filling,
                 request, publisher, faults>>

\* PAGE_CACHE_EXPIRATION_TTL_SEC.
EntryExpires(g) ==
  /\ entry[g] # None /\ entry[g].stale
  /\ entry' = [entry EXCEPT ![g] = None]
  /\ UNCHANGED <<version, generation, readable, opened, memory, filling,
                 request, publisher, faults>>

\* An isolate is lost with all it had under way.
Evict(i) ==
  /\ memory' = [memory EXCEPT ![i] = Cold]
  /\ filling' = [filling EXCEPT ![i] = [g \in Generations |-> None]]
  /\ request' = [r \in Requests |->
                   IF request[r].isolate = i THEN NoRequest ELSE request[r]]
  /\ publisher' = [p \in Publishers |->
       IF publisher[p].isolate = i THEN NoPublisher ELSE publisher[p]]
  /\ Fault
  /\ UNCHANGED <<version, generation, readable, opened, entry>>

-----------------------------------------------------------------------------

Init ==
  /\ version = 0
  /\ generation = 0
  /\ readable = [manifest |-> {0}, generation |-> {0}]
  /\ opened = [g \in Generations |-> 0]
  /\ entry = [g \in Generations |-> None]
  /\ memory = [i \in Isolates |-> Cold]
  /\ filling = [i \in Isolates |-> [g \in Generations |-> None]]
  /\ request = [r \in Requests |-> NoRequest]
  /\ publisher = [p \in Publishers |-> NoPublisher]
  /\ faults = 0

RequestStep(r) == ReadGeneration(r) \/ Lookup(r) \/ Render(r) \/ Store(r)

FillStep(i, g) == FillRender(i, g) \/ FillStore(i, g)

WorkflowStep(p) ==
  \/ \E i \in Isolates : FlipManifest(p, i) \/ RefreshCache(p, i)
  \/ BumpGeneration(p)
  \/ RefreshAnswers(p)
  \/ RefreshLost(p)
  \/ \E r \in Requests, i \in Isolates : Prewarm(p, r, i)
  \/ WorkflowEnds(p)

IsolateStep(i) ==
  \/ \E r \in Requests : Arrive(r, i)
  \/ \E g \in Generations : FillStep(i, g) \/ FillFails(i, g)
  \/ Bypass(i)
  \/ \E key \in {"manifest", "generation"} : Forget(i, key)
  \/ Evict(i)

Next ==
  \/ \E r \in Requests : RequestStep(r) \/ StoreFails(r)
  \/ \E i \in Isolates : IsolateStep(i)
  \/ \E p \in Publishers : WorkflowStep(p)
  \/ \E g \in Generations : EntryAges(g) \/ EntryExpires(g)
  \/ Propagate

Spec == Init /\ [][Next]_vars

\* Time passes, an isolate goes on with what it has begun, and somebody keeps
\* asking for the page; workflows and faults are not fair.
Fairness ==
  /\ WF_vars(Propagate)
  /\ \A i \in Isolates, key \in {"manifest", "generation"} :
       WF_vars(Forget(i, key))
  /\ \A g \in Generations : WF_vars(EntryAges(g))
  /\ \A r \in Requests : WF_vars(RequestStep(r))
  /\ \A i \in Isolates, g \in Generations : WF_vars(FillStep(i, g))
  /\ \A r \in Requests : WF_vars(\E i \in Isolates : Arrive(r, i))

FairSpec == Spec /\ Fairness
=============================================================================
