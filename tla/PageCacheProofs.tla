---------------------------- MODULE PageCacheProofs ----------------------------
(***************************************************************************)
(* The three caches that are checked together.  Type correctness of the    *)
(* page cache, the privacy of its entries, and the fit of an entry with    *)
(* the publication that opened its generation, for any isolates, requests  *)
(* and workflow runs; that media are served whole, in a format that the    *)
(* client takes, for any requests and objects of any size; the numbers of  *)
(* the episodes and the lists that are kept of them, for any publishers,   *)
(* requests and generations; and at the end all three of them.             *)
(***************************************************************************)
EXTENDS MCCaches, FiniteSetTheorems, TLAPS

-----------------------------------------------------------------------------
(* The inductive invariant, one part for each kind of state.               *)

\* What has been put in KV; no generation was opened by a later version.
NumbersFit ==
  /\ version \in Versions /\ generation \in Generations
  /\ readable \in [manifest : SUBSET Versions, generation : SUBSET Generations]
  /\ \A g \in readable.generation : g <= generation
  /\ opened \in [Generations -> Versions]
  /\ \A g \in Generations : g <= generation => opened[g] <= version
  /\ faults \in 0..MaxFaults

\* A page that is in an entry, or on its way into one.
PageFits(page, g) ==
  /\ g <= generation
  /\ page \in Rendering
  /\ page.by = "nobody"
  /\ page.current => page.version >= opened[g]

EntriesFit ==
  /\ entry \in [Generations -> Entry \cup {None}]
  /\ \A g \in Generations : entry[g] # None => PageFits(entry[g].page, g)

MemoryFits(m) == m \in Memory /\ (m.generation # None => m.generation <= generation)

MemoriesFit ==
  /\ memory \in [Isolates -> Memory]
  /\ \A i \in Isolates : MemoryFits(memory[i])

FillFits(f, g) ==
  f # None => g <= generation /\ (f.page # None => PageFits(f.page, g))

FillsFit ==
  /\ filling \in [Isolates -> [Generations -> Fill \cup {None}]]
  /\ \A i \in Isolates, g \in Generations : FillFits(filling[i][g], g)

\* A request has an isolate, the generation it read or wants, and in the end a page.
RequestFits(r) ==
  /\ r \in Request
  /\ r.pc # "idle" => r.isolate # None
  /\ r.pc \in {"lookup", "dynamic", "storing"} \/ r.wanted # None
       => r.generation # None
  /\ r.generation # None => r.generation <= generation
  /\ r.pc = "storing" => PageFits(r.page, r.generation)

RequestsFit ==
  /\ request \in [Requests -> Request]
  /\ \A r \in Requests : RequestFits(request[r])

\* A workflow on its way to a bump has published a version before.
PublisherFits(p, gen, ver) ==
  /\ p \in Publisher
  /\ p.pc \in {"flipped", "published", "refreshing"}
       => p.version # None /\ p.version <= ver
  /\ p.pc \in {"flipped", "refreshing"} => p.isolate # None
  /\ p.pc \in {"prewarming", "warm"} => p.version # None /\ p.generation # None
  /\ p.pc = "refreshing" => p.generation # None
  /\ p.generation # None => p.generation <= gen

PublishersFit ==
  /\ publisher \in [Publishers -> Publisher]
  /\ \A p \in Publishers : PublisherFits(publisher[p], generation, version)

IInv ==
  /\ NumbersFit
  /\ EntriesFit
  /\ MemoriesFit
  /\ FillsFit
  /\ RequestsFit
  /\ PublishersFit

\* What every step does with the numbers.
Grows ==
  /\ version' \in Nat /\ version <= version'
  /\ generation' \in Nat /\ generation <= generation'
  /\ \A g \in Generations : g <= generation => opened'[g] = opened[g]

-----------------------------------------------------------------------------
(* Records.                                                                *)

LEMMA PageOfFits ==
  ASSUME IInv, NEW v \in Versions, NEW g \in Generations, g <= generation
  PROVE  PageFits(PageOf(v, "nobody"), g)
<1>1. opened[g] <= version
  BY DEF IInv, NumbersFit
<1> QED
  BY <1>1 DEF PageOf, Rendering, PageFits

LEMMA IdleFits ==
  /\ RequestFits(NoRequest)
  /\ PublisherFits(NoPublisher, generation, version)
  /\ MemoryFits(Cold)
BY DEF NoRequest, Request, RequestFits, NoPublisher, Publisher, PublisherFits,
       Cold, Memory, MemoryFits

LEMMA ReadsFit ==
  ASSUME IInv, NEW i \in Isolates
  PROVE  /\ \A bypass \in BOOLEAN : ReadableManifests(i, bypass) \subseteq Versions
         /\ \A g \in ReadableGenerations(i) : g \in Generations /\ g <= generation
BY DEF IInv, NumbersFit, MemoriesFit, MemoryFits, ReadableManifests,
       ReadableGenerations, Memory

LEMMA NatNumbers ==
  ASSUME NumbersFit
  PROVE  version \in Nat /\ generation \in Nat
BY BoundsAssumption DEF NumbersFit, Versions, Generations

-----------------------------------------------------------------------------
(* Writes.                                                                 *)

LEMMA PageStaysFit ==
  ASSUME IInv, Grows, NEW page, NEW g \in Generations, PageFits(page, g)
  PROVE  PageFits(page, g)'
<1>1. g <= generation'
  BY NatNumbers DEF IInv, Grows, PageFits, Generations
<1> QED
  BY <1>1 DEF PageFits, Grows

LEMMA EntriesStay ==
  ASSUME IInv, Grows, UNCHANGED entry
  PROVE  EntriesFit'
BY PageStaysFit DEF IInv, EntriesFit

LEMMA EntryWrite ==
  ASSUME IInv, Grows, NEW g \in Generations, NEW e \in Entry \cup {None},
         e # None => PageFits(e.page, g), entry' = [entry EXCEPT ![g] = e]
  PROVE  EntriesFit'
BY PageStaysFit DEF IInv, EntriesFit

LEMMA MemoriesStay ==
  ASSUME IInv, Grows, UNCHANGED memory
  PROVE  MemoriesFit'
BY NatNumbers DEF IInv, Grows, MemoriesFit, MemoryFits, Memory, Generations

LEMMA MemoryWrite ==
  ASSUME IInv, Grows, NEW i \in Isolates, NEW m \in Memory,
         m.generation # None => m.generation <= generation',
         memory' = [memory EXCEPT ![i] = m]
  PROVE  MemoriesFit'
BY NatNumbers DEF IInv, Grows, MemoriesFit, MemoryFits, Memory, Generations

LEMMA ManifestRemembered ==
  ASSUME IInv, Grows, NEW i \in Isolates, NEW v \in Versions \cup {None},
         Remember(i, "manifest", v)
  PROVE  MemoriesFit'
<1>1. memory[i] \in Memory /\ MemoryFits(memory[i])
  BY DEF IInv, MemoriesFit
<1> DEFINE m == [memory[i] EXCEPT !["manifest"] = v]
<1>2. m \in Memory /\ m.generation = memory[i].generation
  BY <1>1 DEF Memory
<1>3. m.generation # None => m.generation <= generation'
  BY <1>1, <1>2, NatNumbers DEF MemoryFits, Memory, Generations, Grows, IInv
<1>4. memory' = [memory EXCEPT ![i] = m]
  BY DEF Remember
<1> QED
  BY <1>2, <1>3, <1>4, MemoryWrite

LEMMA GenerationRemembered ==
  ASSUME IInv, Grows, NEW i \in Isolates, NEW g \in Generations \cup {None},
         g # None => g <= generation', Remember(i, "generation", g)
  PROVE  MemoriesFit'
<1>1. memory[i] \in Memory
  BY DEF IInv, MemoriesFit
<1> DEFINE m == [memory[i] EXCEPT !["generation"] = g]
<1>2. m \in Memory /\ m.generation = g
  BY <1>1 DEF Memory
<1>3. memory' = [memory EXCEPT ![i] = m]
  BY DEF Remember
<1> QED
  BY <1>2, <1>3, MemoryWrite

LEMMA FillStaysFit ==
  ASSUME IInv, Grows, NEW f, NEW g \in Generations, FillFits(f, g)
  PROVE  FillFits(f, g)'
BY PageStaysFit, NatNumbers DEF IInv, Grows, FillFits, Generations

LEMMA FillsStay ==
  ASSUME IInv, Grows, UNCHANGED filling
  PROVE  FillsFit'
BY FillStaysFit DEF IInv, FillsFit

LEMMA FillWrite ==
  ASSUME IInv, Grows, NEW i \in Isolates, NEW g \in Generations,
         NEW f \in Fill \cup {None}, FillFits(f, g),
         filling' = [filling EXCEPT ![i][g] = f]
  PROVE  FillsFit'
<1>1. filling \in [Isolates -> [Generations -> Fill \cup {None}]]
  BY DEF IInv, FillsFit
<1>2. filling' \in [Isolates -> [Generations -> Fill \cup {None}]]
  BY <1>1
<1>3. \A j \in Isolates, h \in Generations :
        filling'[j][h] = IF j = i /\ h = g THEN f ELSE filling[j][h]
  BY <1>1
<1> QED
  BY <1>2, <1>3, FillStaysFit DEF IInv, FillsFit

LEMMA FillBegun ==
  ASSUME IInv, Grows, NEW i \in Isolates, NEW g \in Generations, g <= generation,
         BeginFill(i, g)
  PROVE  FillsFit'
<1>1. [page |-> None] \in Fill /\ FillFits([page |-> None], g)
  BY DEF Fill, FillFits
<1>2. CASE filling[i][g] = None
  BY <1>1, <1>2, FillWrite DEF BeginFill
<1>3. CASE filling[i][g] # None
  BY <1>3, FillsStay DEF BeginFill
<1> QED
  BY <1>2, <1>3

LEMMA RequestStaysFit ==
  ASSUME IInv, Grows, NEW r, RequestFits(r)
  PROVE  RequestFits(r)'
<1>1. r \in Request
  BY DEF RequestFits
<1>2. r.generation # None => r.generation \in Generations /\ r.generation <= generation
  BY <1>1 DEF RequestFits, Request
<1>3. r.generation # None => r.generation <= generation'
  BY <1>2, NatNumbers DEF Grows, IInv, Generations
<1>4. r.pc = "storing" => PageFits(r.page, r.generation)'
  BY <1>2, PageStaysFit DEF RequestFits
<1> QED
  BY <1>1, <1>3, <1>4 DEF RequestFits

LEMMA RequestsStay ==
  ASSUME IInv, Grows, UNCHANGED request
  PROVE  RequestsFit'
BY RequestStaysFit DEF IInv, RequestsFit

LEMMA RequestWrite ==
  ASSUME IInv, Grows, NEW r \in Requests, NEW x, RequestFits(x),
         request' = [request EXCEPT ![r] = x]
  PROVE  RequestsFit'
<1>1. request \in [Requests -> Request] /\ x \in Request
  BY DEF IInv, RequestsFit, RequestFits
<1>2. \A s \in Requests : request'[s] = IF s = r THEN x ELSE request[s]
  BY <1>1 DEF IInv, RequestsFit
<1> QED
  BY <1>1, <1>2, RequestStaysFit DEF IInv, RequestsFit

LEMMA PublisherStaysFit ==
  ASSUME IInv, Grows, NEW p, PublisherFits(p, generation, version)
  PROVE  PublisherFits(p, generation', version')
BY NatNumbers DEF IInv, Grows, PublisherFits, Publisher, Generations, Versions

LEMMA PublishersStay ==
  ASSUME IInv, Grows, UNCHANGED publisher
  PROVE  PublishersFit'
BY PublisherStaysFit DEF IInv, PublishersFit

LEMMA PublisherWrite ==
  ASSUME IInv, Grows, NEW p \in Publishers, NEW x,
         PublisherFits(x, generation', version'),
         publisher' = [publisher EXCEPT ![p] = x]
  PROVE  PublishersFit'
<1>1. publisher \in [Publishers -> Publisher] /\ x \in Publisher
  BY DEF IInv, PublishersFit, PublisherFits
<1>2. ASSUME NEW q \in Publishers
      PROVE  PublisherFits(publisher'[q], generation', version')
  BY <1>1, PublisherStaysFit DEF IInv, PublishersFit
<1> QED
  BY <1>1, <1>2 DEF PublishersFit

LEMMA NumbersStay ==
  ASSUME IInv, UNCHANGED <<version, generation, readable, opened>>,
         UNCHANGED faults \/ Fault
  PROVE  NumbersFit' /\ Grows
BY NatNumbers, BoundsAssumption DEF IInv, NumbersFit, Grows, Fault

LEMMA InitFits == Init => IInv
<1> SUFFICES ASSUME Init PROVE IInv
  OBVIOUS
<1>1. NumbersFit /\ EntriesFit /\ FillsFit
  BY BoundsAssumption
  DEF Init, NumbersFit, EntriesFit, FillsFit, FillFits, Versions, Generations
<1>2. MemoriesFit /\ RequestsFit /\ PublishersFit
  BY IdleFits DEF Init, MemoriesFit, MemoryFits, RequestsFit, RequestFits,
                  PublishersFit, PublisherFits
<1> QED
  BY <1>1, <1>2 DEF IInv

-----------------------------------------------------------------------------
(* Requests.                                                               *)

LEMMA ArriveFits ==
  ASSUME IInv, NEW r \in Requests, NEW i \in Isolates, Arrive(r, i)
  PROVE  IInv'
<1>1. NumbersFit' /\ Grows
  BY NumbersStay DEF Arrive
<1>2. PICK visitor \in {"anonymous", "client"} :
        request' = [request EXCEPT ![r] =
                      [NoRequest EXCEPT !.pc = "generation", !.isolate = i,
                                        !.visitor = visitor]]
  BY DEF Arrive
<1>3. RequestFits([NoRequest EXCEPT !.pc = "generation", !.isolate = i,
                                    !.visitor = visitor])
  BY NoneAssumption DEF NoRequest, RequestFits, Request
<1>4. RequestsFit'
  BY <1>1, <1>2, <1>3, RequestWrite
<1> QED
  BY <1>1, <1>4, EntriesStay, MemoriesStay, FillsStay, PublishersStay DEF Arrive, IInv

LEMMA ReadGenerationFits ==
  ASSUME IInv, NEW r \in Requests, ReadGeneration(r)
  PROVE  IInv'
<1>1. NumbersFit' /\ Grows
  BY NumbersStay DEF ReadGeneration
<1>2. RequestFits(request[r]) /\ request[r].isolate \in Isolates
  BY DEF IInv, RequestsFit, RequestFits, Request, ReadGeneration
<1>3. PICK g \in ReadableGenerations(request[r].isolate) :
        /\ Remember(request[r].isolate, "generation", g)
        /\ request' = [request EXCEPT ![r] =
             IF request[r].wanted = None
             THEN [@ EXCEPT !.pc = "lookup", !.generation = g]
             ELSE IF request[r].generation = g
             THEN [@ EXCEPT !.pc = "dynamic"]
             ELSE NoRequest]
  BY DEF ReadGeneration
<1>4. g \in Generations /\ g <= generation /\ g <= generation'
  BY <1>1, <1>2, <1>3, ReadsFit DEF ReadGeneration
<1>5. MemoriesFit'
  BY <1>1, <1>2, <1>3, <1>4, GenerationRemembered
<1> DEFINE x == IF request[r].wanted = None
                THEN [request[r] EXCEPT !.pc = "lookup", !.generation = g]
                ELSE IF request[r].generation = g
                THEN [request[r] EXCEPT !.pc = "dynamic"]
                ELSE NoRequest
<1>6. RequestFits(x)
  <2>1. CASE request[r].wanted = None
    <3> DEFINE y == [request[r] EXCEPT !.pc = "lookup", !.generation = g]
    <3>1. y \in Request /\ y.pc = "lookup" /\ y.generation = g
      BY <1>2, <1>4 DEF RequestFits, Request
    <3>2. y.isolate \in Isolates
      BY <1>2 DEF RequestFits, Request
    <3>3. RequestFits(y)
      BY <1>4, <3>1, <3>2, NoneAssumption DEF RequestFits, Generations
    <3> QED
      BY <2>1, <3>3
  <2>2. CASE request[r].wanted # None /\ request[r].generation = g
    <3> DEFINE y == [request[r] EXCEPT !.pc = "dynamic"]
    <3>1. y \in Request /\ y.pc = "dynamic" /\ y.generation = g
      BY <1>2, <2>2 DEF RequestFits, Request
    <3>2. y.isolate \in Isolates
      BY <1>2 DEF RequestFits, Request
    <3>3. RequestFits(y)
      BY <1>4, <2>2, <3>1, <3>2, NoneAssumption DEF RequestFits, Generations
    <3> QED
      BY <2>2, <3>3
  <2>3. CASE request[r].wanted # None /\ request[r].generation # g
    BY <2>3, IdleFits
  <2> QED
    BY <2>1, <2>2, <2>3
<1>7. RequestsFit'
  BY <1>1, <1>3, <1>6, RequestWrite
<1> QED
  BY <1>1, <1>5, <1>7, EntriesStay, FillsStay, PublishersStay DEF ReadGeneration, IInv

LEMMA LookupFits ==
  ASSUME IInv, NEW r \in Requests, Lookup(r)
  PROVE  IInv'
<1> DEFINE g == request[r].generation
<1>1. NumbersFit' /\ Grows
  BY NumbersStay DEF Lookup
<1>2. RequestFits(request[r]) /\ request[r].isolate \in Isolates
  BY DEF IInv, RequestsFit, RequestFits, Request, Lookup
<1>3. g \in Generations /\ g <= generation
  BY <1>2 DEF RequestFits, Request, Lookup
<1>4. FillsFit'
  BY <1>1, <1>2, <1>3, FillBegun, FillsStay DEF Lookup
<1>5. RequestFits([request[r] EXCEPT !.pc = "dynamic"])
  BY <1>2 DEF Lookup, RequestFits, Request
<1>6. RequestsFit'
  BY <1>1, <1>5, IdleFits, RequestWrite DEF Lookup
<1> QED
  BY <1>1, <1>4, <1>6, EntriesStay, MemoriesStay, PublishersStay DEF Lookup, IInv

\* Where privacy is decided: only an anonymous request goes on to store its page.
LEMMA RenderFits ==
  ASSUME IInv, NEW r \in Requests, Render(r)
  PROVE  IInv'
<1> DEFINE i == request[r].isolate
           g == request[r].generation
<1>1. NumbersFit' /\ Grows
  BY NumbersStay DEF Render
<1>2. RequestFits(request[r]) /\ i \in Isolates
  BY DEF IInv, RequestsFit, RequestFits, Request, Render
<1>3. g \in Generations /\ g <= generation
  BY <1>2 DEF RequestFits, Request, Render
<1>4. PICK v \in ReadableManifests(i, request[r].wanted # None) :
       /\ Remember(i, "manifest", v)
       /\ IF request[r].wanted \notin {None, v}
          THEN request' = [request EXCEPT ![r] = NoRequest] /\ UNCHANGED filling
          ELSE IF CanStoreOwnResponse(r)
          THEN /\ request' = [request EXCEPT ![r] =
                    [@ EXCEPT !.pc = "storing",
                       !.page = PageOf(v, IF request[r].visitor = "client"
                                          THEN "client" ELSE "nobody")]]
               /\ UNCHANGED filling
          ELSE /\ request' = [request EXCEPT ![r] = NoRequest]
               /\ BeginFill(i, request[r].generation)
  BY DEF Render
<1>5. v \in Versions
  BY <1>2, <1>4, ReadsFit
<1>6. MemoriesFit'
  BY <1>1, <1>2, <1>4, <1>5, ManifestRemembered
<1>7. FillsFit'
  BY <1>1, <1>2, <1>3, <1>4, FillBegun, FillsStay
<1>8. RequestsFit'
  <2>1. CASE request' = [request EXCEPT ![r] = NoRequest]
    BY <1>1, <2>1, IdleFits, RequestWrite
  <2>2. CASE /\ CanStoreOwnResponse(r)
             /\ request' = [request EXCEPT ![r] =
                    [@ EXCEPT !.pc = "storing",
                       !.page = PageOf(v, IF request[r].visitor = "client"
                                          THEN "client" ELSE "nobody")]]
    <3> DEFINE x == [request[r] EXCEPT !.pc = "storing",
                                       !.page = PageOf(v, "nobody")]
    <3>1. request' = [request EXCEPT ![r] = x]
      BY <2>2 DEF CanStoreOwnResponse
    <3>2. PageFits(PageOf(v, "nobody"), g)
      BY <1>3, <1>5, PageOfFits
    <3>3. x \in Request /\ x.pc = "storing" /\ x.generation = g
      BY <1>2, <3>2 DEF RequestFits, Request, PageFits
    <3>4. x.page = PageOf(v, "nobody") /\ x.isolate \in Isolates
      BY <1>2 DEF RequestFits, Request
    <3>5. RequestFits(x)
      BY <1>3, <3>2, <3>3, <3>4, NoneAssumption DEF RequestFits, Generations
    <3> QED
      BY <1>1, <3>1, <3>5, RequestWrite
  <2> QED
    BY <1>4, <2>1, <2>2
<1> QED
  BY <1>1, <1>6, <1>7, <1>8, EntriesStay, PublishersStay DEF Render, IInv

LEMMA StoreFits ==
  ASSUME IInv, NEW r \in Requests, Store(r)
  PROVE  IInv'
<1>1. NumbersFit' /\ Grows
  BY NumbersStay DEF Store
<1>2. RequestFits(request[r])
  BY DEF IInv, RequestsFit
<1>3. request[r].generation \in Generations
  BY <1>2 DEF RequestFits, Request, Store
<1>4. PageFits(request[r].page, request[r].generation)
  BY <1>2 DEF RequestFits, Store
<1>5. Fresh(request[r].page) \in Entry /\ Fresh(request[r].page).page = request[r].page
  BY <1>4 DEF Fresh, Entry, PageFits
<1>6. EntriesFit'
  BY <1>1, <1>3, <1>4, <1>5, EntryWrite DEF Store, KeyOf
<1>7. RequestsFit'
  BY <1>1, IdleFits, RequestWrite DEF Store
<1>8. PublishersFit'
  <2>1. ASSUME NEW p \in Publishers
        PROVE  PublisherFits(publisher'[p], generation', version')
    <3>1. PublisherFits(publisher[p], generation, version)
      BY DEF IInv, PublishersFit
    <3>2. \/ publisher'[p] = publisher[p]
          \/ /\ publisher'[p] = [publisher[p] EXCEPT !.pc = "warm"]
             /\ publisher[p].pc = "prewarming"
      BY DEF Store
    <3>3. PublisherFits(publisher'[p], generation, version)
      BY <3>1, <3>2 DEF PublisherFits, Publisher
    <3> QED
      BY <3>3 DEF Store
  <2>2. publisher' \in [Publishers -> Publisher]
    BY <2>1 DEF PublisherFits, Store
  <2> QED
    BY <2>1, <2>2 DEF PublishersFit
<1> QED
  BY <1>1, <1>6, <1>7, <1>8, MemoriesStay, FillsStay DEF Store, IInv

LEMMA StoreFailsFits ==
  ASSUME IInv, NEW r \in Requests, StoreFails(r)
  PROVE  IInv'
<1>1. NumbersFit' /\ Grows
  BY NumbersStay DEF StoreFails
<1>2. RequestsFit'
  BY <1>1, IdleFits, RequestWrite DEF StoreFails
<1> QED
  BY <1>1, <1>2, EntriesStay, MemoriesStay, FillsStay, PublishersStay
  DEF StoreFails, IInv

-----------------------------------------------------------------------------
(* Fills, and what else an isolate does.                                   *)

LEMMA FillRenderFits ==
  ASSUME IInv, NEW i \in Isolates, NEW g \in Generations, FillRender(i, g)
  PROVE  IInv'
<1>1. NumbersFit' /\ Grows
  BY NumbersStay DEF FillRender
<1>2. g <= generation
  BY DEF IInv, FillsFit, FillFits, FillRender
<1>3. PICK v \in ReadableManifests(i, FALSE) :
        /\ Remember(i, "manifest", v)
        /\ filling' = [filling EXCEPT ![i][g] = [page |-> PageOf(v, "nobody")]]
  BY DEF FillRender
<1>4. v \in Versions
  BY <1>3, ReadsFit
<1>5. PageFits(PageOf(v, "nobody"), g)
  BY <1>2, <1>4, PageOfFits
<1>6. /\ [page |-> PageOf(v, "nobody")] \in Fill
      /\ FillFits([page |-> PageOf(v, "nobody")], g)
  BY <1>2, <1>5 DEF Fill, FillFits, PageFits
<1>7. FillsFit'
  BY <1>1, <1>3, <1>6, FillWrite
<1>8. MemoriesFit'
  BY <1>1, <1>3, <1>4, ManifestRemembered
<1> QED
  BY <1>1, <1>7, <1>8, EntriesStay, RequestsStay, PublishersStay DEF FillRender, IInv

LEMMA FillStoreFits ==
  ASSUME IInv, NEW i \in Isolates, NEW g \in Generations, FillStore(i, g)
  PROVE  IInv'
<1>1. NumbersFit' /\ Grows
  BY NumbersStay DEF FillStore
<1>2. PageFits(filling[i][g].page, g)
  BY DEF IInv, FillsFit, FillFits, FillStore
<1>3. /\ Fresh(filling[i][g].page) \in Entry
      /\ Fresh(filling[i][g].page).page = filling[i][g].page
  BY <1>2 DEF Fresh, Entry, PageFits
<1>4. EntriesFit'
  BY <1>1, <1>2, <1>3, EntryWrite DEF FillStore
<1>5. FillsFit'
  BY <1>1, FillWrite DEF FillStore, FillFits
<1> QED
  BY <1>1, <1>4, <1>5, MemoriesStay, RequestsStay, PublishersStay DEF FillStore, IInv

LEMMA FillFailsFits ==
  ASSUME IInv, NEW i \in Isolates, NEW g \in Generations, FillFails(i, g)
  PROVE  IInv'
<1>1. NumbersFit' /\ Grows
  BY NumbersStay DEF FillFails
<1>2. FillsFit'
  BY <1>1, FillWrite DEF FillFails, FillFits
<1> QED
  BY <1>1, <1>2, EntriesStay, MemoriesStay, RequestsStay, PublishersStay
  DEF FillFails, IInv

LEMMA BypassFits ==
  ASSUME IInv, NEW i \in Isolates, Bypass(i)
  PROVE  IInv'
<1>1. NumbersFit' /\ Grows
  BY NumbersStay DEF Bypass
<1>2. MemoriesFit'
  BY <1>1, ManifestRemembered DEF Bypass, IInv, NumbersFit
<1> QED
  BY <1>1, <1>2, EntriesStay, FillsStay, RequestsStay, PublishersStay DEF Bypass, IInv

LEMMA ForgetFits ==
  ASSUME IInv, NEW i \in Isolates, NEW key \in {"manifest", "generation"},
         Forget(i, key)
  PROVE  IInv'
<1>1. NumbersFit' /\ Grows
  BY NumbersStay DEF Forget
<1>2. MemoriesFit'
  BY <1>1, ManifestRemembered, GenerationRemembered DEF Forget
<1> QED
  BY <1>1, <1>2, EntriesStay, FillsStay, RequestsStay, PublishersStay DEF Forget, IInv

LEMMA EvictFits ==
  ASSUME IInv, NEW i \in Isolates, Evict(i)
  PROVE  IInv'
<1>1. NumbersFit' /\ Grows
  BY NumbersStay DEF Evict
<1>2. MemoriesFit'
  BY <1>1, IdleFits, MemoryWrite DEF Evict, MemoryFits, Cold
<1>3. FillsFit'
  <2>1. filling \in [Isolates -> [Generations -> Fill \cup {None}]]
    BY DEF IInv, FillsFit
  <2>2. \A j \in Isolates, g \in Generations :
          filling'[j][g] = IF j = i THEN None ELSE filling[j][g]
    BY <2>1 DEF Evict
  <2>3. filling' \in [Isolates -> [Generations -> Fill \cup {None}]]
    BY <2>1 DEF Evict
  <2>4. \A g \in Generations : FillFits(None, g)
    BY DEF FillFits
  <2> QED
    BY <1>1, <2>2, <2>3, <2>4, FillStaysFit DEF IInv, FillsFit
<1>4. RequestsFit'
  <2>1. request' \in [Requests -> Request]
    BY IdleFits DEF IInv, RequestsFit, RequestFits, Evict
  <2>2. \A r \in Requests : request'[r] = NoRequest \/ request'[r] = request[r]
    BY DEF Evict
  <2> QED
    BY <1>1, <2>1, <2>2, IdleFits, RequestStaysFit DEF IInv, RequestsFit
<1>5. PublishersFit'
  <2>1. publisher' \in [Publishers -> Publisher]
    BY IdleFits DEF IInv, PublishersFit, PublisherFits, Evict
  <2>2. \A p \in Publishers :
          publisher'[p] = NoPublisher \/ publisher'[p] = publisher[p]
    BY DEF Evict
  <2> QED
    BY <1>1, <2>1, <2>2, IdleFits, PublisherStaysFit DEF IInv, PublishersFit
<1> QED
  BY <1>1, <1>2, <1>3, <1>4, <1>5, EntriesStay DEF Evict, IInv

-----------------------------------------------------------------------------
(* The workflow.                                                           *)

\* Where the order of a publication counts: the version for which a generation
\* is opened has been published.
LEMMA GenerationOpened ==
  ASSUME IInv, NEW p \in Publishers, OpenGeneration(p),
         UNCHANGED <<version, faults>>,
         publisher[p].pc \in {"flipped", "published"}
  PROVE  NumbersFit' /\ Grows /\ generation + 1 \in Generations
<1> DEFINE new == generation + 1
<1>1. new \in Generations /\ generation < new
  BY NatNumbers, BoundsAssumption DEF IInv, NumbersFit, OpenGeneration, Generations
<1>2. PublisherFits(publisher[p], generation, version)
  BY DEF IInv, PublishersFit
<1>3. publisher[p].version \in Versions /\ publisher[p].version <= version
  BY <1>2 DEF PublisherFits, Publisher
<1>4. /\ opened' \in [Generations -> Versions]
      /\ \A g \in Generations :
           opened'[g] = IF g = new THEN publisher[p].version ELSE opened[g]
  BY <1>1, <1>3 DEF IInv, NumbersFit, OpenGeneration
<1>5. \A g \in Generations : g <= generation => g # new
  BY NatNumbers DEF IInv, Generations
<1>6. Grows
  BY <1>1, <1>4, <1>5, NatNumbers DEF IInv, Grows, OpenGeneration
<1>7. \A g \in Generations : g <= generation' => opened'[g] <= version'
  BY <1>3, <1>4, NatNumbers DEF IInv, NumbersFit, OpenGeneration, Generations
<1>8. /\ readable' \in [manifest : SUBSET Versions, generation : SUBSET Generations]
      /\ readable'.generation = readable.generation \cup {new}
  BY <1>1 DEF IInv, NumbersFit, OpenGeneration
<1>9. \A g \in readable'.generation : g <= generation'
  BY <1>1, <1>8, NatNumbers DEF IInv, NumbersFit, OpenGeneration, Generations
<1> QED
  BY <1>1, <1>4, <1>6, <1>7, <1>8, <1>9 DEF IInv, NumbersFit, OpenGeneration

LEMMA FlipManifestFits ==
  ASSUME IInv, NEW p \in Publishers, NEW i \in Isolates, FlipManifest(p, i)
  PROVE  IInv'
<1>1. version + 1 \in Versions /\ version' = version + 1
  BY NatNumbers, BoundsAssumption DEF IInv, NumbersFit, FlipManifest, Versions
<1>2. Grows
  BY <1>1, NatNumbers DEF IInv, Grows, FlipManifest
<1>3. NumbersFit'
  <2>1. /\ readable' \in [manifest : SUBSET Versions, generation : SUBSET Generations]
        /\ readable'.generation = readable.generation
    BY <1>1 DEF IInv, NumbersFit, FlipManifest
  <2>2. \A g \in Generations : g <= generation' => opened'[g] <= version'
    <3>1. \A g \in Generations : opened[g] \in Nat
      BY DEF IInv, NumbersFit, Versions
    <3> QED
      BY <1>1, <3>1, NatNumbers DEF IInv, NumbersFit, FlipManifest
  <2> QED
    BY <1>1, <2>1, <2>2 DEF IInv, NumbersFit, FlipManifest
<1>4. MemoriesFit'
  BY <1>2, ManifestRemembered DEF FlipManifest
<1> DEFINE x == [NoPublisher EXCEPT !.pc = "flipped", !.isolate = i,
                                    !.version = version + 1]
<1>5. PublisherFits(x, generation', version')
  <2>1. /\ x \in Publisher /\ x.pc = "flipped" /\ x.isolate = i
        /\ x.version = version' /\ x.generation = None
    BY <1>1 DEF NoPublisher, Publisher
  <2>2. version' \in Nat
    BY <1>2 DEF Grows
  <2> QED
    BY <2>1, <2>2, NoneAssumption DEF PublisherFits
<1>6. PublishersFit'
  BY <1>2, <1>5, PublisherWrite DEF FlipManifest
<1> QED
  BY <1>2, <1>3, <1>4, <1>6, EntriesStay, FillsStay, RequestsStay DEF FlipManifest, IInv

LEMMA BumpGenerationFits ==
  ASSUME IInv, NEW p \in Publishers, BumpGeneration(p)
  PROVE  IInv'
<1>1. NumbersFit' /\ Grows /\ generation + 1 \in Generations
  BY GenerationOpened DEF BumpGeneration
<1>2. PublisherFits(publisher[p], generation', version')
  BY <1>1, PublisherStaysFit DEF IInv, PublishersFit
<1>3. publisher[p].isolate \in Isolates
  BY <1>2 DEF PublisherFits, Publisher, BumpGeneration
<1>4. MemoriesFit'
  BY <1>1, <1>3, GenerationRemembered, NatNumbers
  DEF BumpGeneration, OpenGeneration, IInv
<1>5. PublisherFits([publisher[p] EXCEPT !.pc = "published", !.isolate = None],
                    generation', version')
  BY <1>2 DEF BumpGeneration, PublisherFits, Publisher
<1>6. PublishersFit'
  BY <1>1, <1>5, PublisherWrite DEF BumpGeneration
<1> QED
  BY <1>1, <1>4, <1>6, EntriesStay, FillsStay, RequestsStay DEF BumpGeneration, IInv

LEMMA RefreshCacheFits ==
  ASSUME IInv, NEW p \in Publishers, NEW i \in Isolates, RefreshCache(p, i)
  PROVE  IInv'
<1>1. NumbersFit' /\ Grows /\ generation + 1 \in Generations
  BY GenerationOpened DEF RefreshCache
<1>2. PublisherFits(publisher[p], generation', version')
  BY <1>1, PublisherStaysFit DEF IInv, PublishersFit
<1>3. MemoriesFit'
  BY <1>1, GenerationRemembered DEF RefreshCache
<1> DEFINE x == [publisher[p] EXCEPT !.pc = "refreshing", !.isolate = i,
                                     !.generation = generation + 1]
<1>4. /\ x \in Publisher /\ x.pc = "refreshing" /\ x.isolate = i
      /\ x.generation = generation + 1 /\ x.version = publisher[p].version
  BY <1>1, <1>2 DEF PublisherFits, Publisher
<1>5. generation + 1 = generation' /\ generation' \in Nat
  BY <1>1 DEF RefreshCache, OpenGeneration, Grows
<1>6. PublisherFits(x, generation', version')
  BY <1>2, <1>4, <1>5, NoneAssumption DEF RefreshCache, PublisherFits
<1>7. PublishersFit'
  BY <1>1, <1>6, PublisherWrite DEF RefreshCache
<1> QED
  BY <1>1, <1>3, <1>7, EntriesStay, FillsStay, RequestsStay DEF RefreshCache, IInv

LEMMA RefreshAnswersFits ==
  ASSUME IInv, NEW p \in Publishers, RefreshAnswers(p)
  PROVE  IInv'
<1>1. NumbersFit' /\ Grows
  BY NumbersStay DEF RefreshAnswers
<1>2. PublisherFits(publisher[p], generation', version')
  BY <1>1, PublisherStaysFit DEF IInv, PublishersFit
<1>3. publisher[p].isolate \in Isolates /\ publisher[p].generation # None
  BY <1>2 DEF PublisherFits, Publisher, RefreshAnswers
<1>4. PICK v \in readable.manifest :
        /\ Remember(publisher[p].isolate, "manifest", v)
        /\ publisher' = [publisher EXCEPT ![p] =
                           [@ EXCEPT !.pc = "prewarming", !.isolate = None,
                                     !.version = v]]
  BY DEF RefreshAnswers
<1>5. v \in Versions /\ v # None
  BY NoneAssumption DEF IInv, NumbersFit, Versions
<1>6. MemoriesFit'
  BY <1>1, <1>3, <1>4, <1>5, ManifestRemembered
<1>7. PublisherFits([publisher[p] EXCEPT !.pc = "prewarming", !.isolate = None,
                                         !.version = v], generation', version')
  BY <1>2, <1>3, <1>5 DEF PublisherFits, Publisher
<1>8. PublishersFit'
  BY <1>1, <1>4, <1>7, PublisherWrite
<1> QED
  BY <1>1, <1>6, <1>8, EntriesStay, FillsStay, RequestsStay DEF RefreshAnswers, IInv

LEMMA RefreshLostFits ==
  ASSUME IInv, NEW p \in Publishers, RefreshLost(p)
  PROVE  IInv'
<1>1. NumbersFit' /\ Grows
  BY NumbersStay DEF RefreshLost
<1>2. PublisherFits(publisher[p], generation', version')
  BY <1>1, PublisherStaysFit DEF IInv, PublishersFit
<1>3. PublisherFits([publisher[p] EXCEPT !.pc = "published", !.isolate = None,
                                         !.generation = None], generation', version')
  BY <1>2 DEF RefreshLost, PublisherFits, Publisher
<1>4. PublishersFit'
  BY <1>1, <1>3, PublisherWrite DEF RefreshLost
<1> QED
  BY <1>1, <1>4, EntriesStay, MemoriesStay, FillsStay, RequestsStay
  DEF RefreshLost, IInv

LEMMA PrewarmFits ==
  ASSUME IInv, NEW p \in Publishers, NEW r \in Requests, NEW i \in Isolates,
         Prewarm(p, r, i)
  PROVE  IInv'
<1>1. NumbersFit' /\ Grows
  BY NumbersStay DEF Prewarm
<1>2. PublisherFits(publisher[p], generation, version)
  BY DEF IInv, PublishersFit
<1>3. /\ publisher[p].version \in Versions
      /\ publisher[p].generation \in Generations /\ publisher[p].generation # None
      /\ publisher[p].generation <= generation
  BY <1>2 DEF Prewarm, PublisherFits, Publisher
<1> DEFINE x == [NoRequest EXCEPT !.pc = "generation", !.isolate = i,
                                  !.wanted = publisher[p].version,
                                  !.generation = publisher[p].generation]
<1>4. /\ x \in Request /\ x.pc = "generation" /\ x.isolate = i
      /\ x.generation = publisher[p].generation
  BY <1>3 DEF NoRequest, Request
<1>5. RequestFits(x)
  BY <1>3, <1>4, NoneAssumption DEF RequestFits
<1>6. RequestsFit'
  BY <1>1, <1>5, RequestWrite DEF Prewarm
<1> QED
  BY <1>1, <1>6, EntriesStay, MemoriesStay, FillsStay, PublishersStay
  DEF Prewarm, IInv

LEMMA WorkflowEndsFits ==
  ASSUME IInv, NEW p \in Publishers, WorkflowEnds(p)
  PROVE  IInv'
<1>1. NumbersFit' /\ Grows
  BY NumbersStay DEF WorkflowEnds
<1>2. PublishersFit'
  BY <1>1, IdleFits, PublisherStaysFit, PublisherWrite DEF WorkflowEnds
<1> QED
  BY <1>1, <1>2, EntriesStay, MemoriesStay, FillsStay, RequestsStay
  DEF WorkflowEnds, IInv

-----------------------------------------------------------------------------
(* Time.                                                                   *)

LEMMA PropagateFits ==
  ASSUME IInv, Propagate
  PROVE  IInv'
<1>1. NumbersFit' /\ Grows
  BY NatNumbers DEF Propagate, IInv, NumbersFit, Grows
<1> QED
  BY <1>1, EntriesStay, MemoriesStay, FillsStay, RequestsStay, PublishersStay
  DEF Propagate, IInv

LEMMA EntryTimeFits ==
  ASSUME IInv, NEW g \in Generations, EntryAges(g) \/ EntryExpires(g)
  PROVE  IInv'
<1>1. NumbersFit' /\ Grows
  BY NumbersStay DEF EntryAges, EntryExpires
<1>2. EntriesFit'
  <2>1. CASE EntryAges(g)
    <3>1. entry[g] \in Entry /\ PageFits(entry[g].page, g)
      BY <2>1 DEF EntryAges, IInv, EntriesFit
    <3> DEFINE e == [entry[g] EXCEPT !.stale = TRUE]
    <3>2. e \in Entry /\ e.page = entry[g].page
      BY <3>1 DEF Entry
    <3>3. PageFits(e.page, g)
      BY <3>1, <3>2
    <3> QED
      BY <1>1, <2>1, <3>2, <3>3, EntryWrite DEF EntryAges
  <2>2. CASE EntryExpires(g)
    BY <1>1, <2>2, EntryWrite DEF EntryExpires
  <2> QED
    BY <2>1, <2>2
<1> QED
  BY <1>1, <1>2, MemoriesStay, FillsStay, RequestsStay, PublishersStay
  DEF EntryAges, EntryExpires, IInv

-----------------------------------------------------------------------------

LEMMA StepFits == IInv /\ [Next]_vars => IInv'
<1> SUFFICES ASSUME IInv, [Next]_vars PROVE IInv'
  OBVIOUS
<1>1. CASE \E r \in Requests : RequestStep(r) \/ StoreFails(r)
  BY <1>1, ReadGenerationFits, LookupFits, RenderFits, StoreFits, StoreFailsFits
  DEF RequestStep
<1>2. CASE \E i \in Isolates : IsolateStep(i)
  BY <1>2, ArriveFits, FillRenderFits, FillStoreFits, FillFailsFits, BypassFits,
     ForgetFits, EvictFits
  DEF IsolateStep, FillStep
<1>3. CASE \E p \in Publishers : WorkflowStep(p)
  BY <1>3, FlipManifestFits, BumpGenerationFits, RefreshCacheFits,
     RefreshAnswersFits, RefreshLostFits, PrewarmFits, WorkflowEndsFits
  DEF WorkflowStep
<1>4. CASE \E g \in Generations : EntryAges(g) \/ EntryExpires(g)
  BY <1>4, EntryTimeFits
<1>5. CASE Propagate
  BY <1>5, PropagateFits
<1>6. CASE UNCHANGED vars
  <2>1. NumbersFit' /\ Grows
    BY <1>6, NumbersStay DEF vars
  <2> QED
    BY <1>6, <2>1, EntriesStay, MemoriesStay, FillsStay, RequestsStay,
       PublishersStay
    DEF vars, IInv
<1> QED
  BY <1>1, <1>2, <1>3, <1>4, <1>5, <1>6 DEF Next

LEMMA InvariantHolds == Spec => []IInv
<1> QED
  BY InitFits, StepFits, PTL DEF Spec

\* Every variable of the page cache keeps its type, for any isolates, requests
\* and workflow runs.
THEOREM PageCacheTypeCorrect == Spec => []TypeOK
<1>1. IInv => TypeOK
  BY DEF IInv, TypeOK, NumbersFit, EntriesFit, MemoriesFit, FillsFit, RequestsFit,
         PublishersFit
<1> QED
  BY <1>1, InvariantHolds, PTL

\* No page that was rendered for a client is ever what everybody is served.
THEOREM PrivacyCorrect == Spec => []SharedPagesAreNobodys
<1>1. IInv => SharedPagesAreNobodys
  BY DEF IInv, EntriesFit, PageFits, SharedPagesAreNobodys
<1> QED
  BY <1>1, InvariantHolds, PTL

\* A page rendered from the manifest of the moment is never older than the
\* publication that opened its generation.
THEOREM GenerationsCorrect == Spec => []PagesFitTheirGeneration
<1>1. IInv => PagesFitTheirGeneration
  BY DEF IInv, EntriesFit, PageFits, PagesFitTheirGeneration
<1> QED
  BY <1>1, InvariantHolds, PTL

-----------------------------------------------------------------------------
(* Media: the inductive invariant.                                         *)

\* An answer fits a request, unless the object changed while it was read.
AnswerFitsRequest(req, a) ==
  a.object # None /\ ~a.mixed =>
    /\ a.status = 200 =>
         /\ req.method = "GET" => a.body = Whole(a.object)
         /\ Takes(req, a.format)
         /\ ~(a.format = "video" /\ Parses(req.range))
    /\ a.status = 206 =>
         /\ Parses(req.range)
         /\ req.method = "GET" /\ a.claimed.offset + a.claimed.length <= a.object.size
              => a.body = a.claimed

\* What the edge keeps is whole, and taken by every client that its key stands for.
KeptAnswerFits(key, a) ==
  a.object # None /\ ~a.mixed =>
    /\ a.status = 200 /\ a.body = Whole(a.object)
    /\ \A req \in MediaRequest : MediaKeyOf(req) = key => Takes(req, a.format)

\* What a request for media has, in each of its states.
FetchFits(r) ==
  /\ r \in FetchRecord
  /\ r.pc # "idle" => r.request \in MediaRequest
  /\ r.pc \in {"magic", "get"} => r.found \in MediaObject \ {None}
  /\ r.pc = "answered" => r.answer \in MediaResponse /\ AnswerFitsRequest(r.request, r.answer)

MediaInv ==
  /\ MediaTypeOK
  /\ \A key \in CacheKeys : mediaEdge[key] # None => KeptAnswerFits(key, mediaEdge[key])
  /\ \A f \in Fetches : FetchFits(fetch[f])

-----------------------------------------------------------------------------
(* Media: slices, formats and answers.                                     *)

\* Every range that parses is a slice, of whichever size the object is.
LEMMA SlicesTyped ==
  ASSUME NEW object \in MediaObject
  PROVE  /\ NoSlice \in Slices /\ Whole(object) \in Slices
         /\ \A range \in RangeHeaders : ParseByteRange(range, object.size) \in Slices
<1>1. object.size \in 1..MaxSize /\ object.size \in Nat /\ MaxSize \in Nat
  BY MediaAssumption DEF MediaObject
<1>2. NoSlice \in Slices /\ Whole(object) \in Slices
  BY <1>1 DEF NoSlice, Whole, Slices
<1>3. ASSUME NEW range \in RangeHeaders
      PROVE  ParseByteRange(range, object.size) \in Slices
  <2>1. /\ range.form \in {"from", "last", "between"}
        /\ range.a \in 0..MaxSize /\ range.b \in 0..MaxSize
        /\ range.form = "between" => range.a = 0
    BY <1>1 DEF RangeHeaders
  <2>2. CASE range.form = "from"
    BY <1>1, <2>1, <2>2 DEF ParseByteRange, Slices
  <2>3. CASE range.form = "last"
    BY <1>1, <2>1, <2>3 DEF ParseByteRange, Slices
  <2>4. CASE range.form = "between"
    BY <1>1, <2>1, <2>4 DEF ParseByteRange, Slices
  <2> QED BY <2>1, <2>2, <2>3, <2>4
<1> QED BY <1>2, <1>3

\* What R2 reads of a slice; no less than the slice when it ends with the object.
LEMMA ClippedTyped ==
  ASSUME NEW object \in MediaObject, NEW slice \in Slices, Satisfiable(slice, object)
  PROVE  /\ Clipped(slice, object) \in Slices
         /\ slice.offset + slice.length <= object.size => Clipped(slice, object) = slice
<1>1. object.size \in 1..MaxSize /\ object.size \in Nat /\ MaxSize \in Nat
  BY MediaAssumption DEF MediaObject
<1>2. slice.offset \in 0..MaxSize /\ slice.length \in 0..MaxSize + 1
  BY DEF Slices
<1>3. slice.offset < object.size
  BY DEF Satisfiable
<1>4. CASE slice.offset + slice.length > object.size
  <2>1. Clipped(slice, object) = [slice EXCEPT !.length = object.size - slice.offset]
    BY <1>4 DEF Clipped
  <2>2. object.size - slice.offset \in 0..MaxSize + 1
    BY <1>1, <1>2, <1>3
  <2>3. ~(slice.offset + slice.length <= object.size)
    BY <1>1, <1>2, <1>4
  <2> QED BY <2>1, <2>2, <2>3 DEF Slices
<1>5. CASE ~(slice.offset + slice.length > object.size)
  BY <1>5 DEF Clipped, Slices
<1> QED BY <1>4, <1>5

Kinds == {"video", "svg", "gif", "png"}

LEMMA KindsTyped ==
  ASSUME NEW object \in MediaObject, NEW sniffed \in MediaObject \cup {None}
  PROVE  /\ object.kind \in Kinds /\ object.typed \in BOOLEAN /\ object.size \in Nat
         /\ sniffed # None => sniffed.kind \in Kinds
         /\ ContentType(object, sniffed) \in Kinds \cup {"jpeg"}
<1>1. object.kind \in Kinds /\ object.typed \in BOOLEAN /\ object.size \in Nat
  BY MediaAssumption DEF MediaObject, Kinds
<1>2. sniffed # None => sniffed.kind \in Kinds
  BY DEF MediaObject, Kinds
<1> QED BY <1>1, <1>2 DEF ContentType

\* A transformation makes a picture of a format that the client takes.
LEMMA FormatTyped ==
  ASSUME NEW req \in MediaRequest, req.transform # "original",
         NEW object, NEW sniffed
  PROVE  /\ OutputFormat(req, object, sniffed) \in {"jpeg", "gif", "png", "avif", "webp"}
         /\ Takes(req, OutputFormat(req, object, sniffed))
<1>1. req.transform \in {"jpeg", "auto"} /\ req.accept \in AcceptClasses
  BY DEF MediaRequest, Transforms
<1>2. CASE req.transform = "jpeg"
  BY <1>2 DEF OutputFormat, Takes
<1>3. CASE req.transform = "auto"
  <2>1. CASE SaysKind(object, sniffed, "gif")
    <3>1. OutputFormat(req, object, sniffed) = "gif"
      BY <1>3, <2>1 DEF OutputFormat
    <3> QED BY <1>3, <3>1 DEF Takes
  <2>2. CASE ~SaysKind(object, sniffed, "gif")
    <3>1. OutputFormat(req, object, sniffed) =
            IF req.accept # "base" THEN req.accept
            ELSE IF SaysKind(None, sniffed, "png") THEN "png" ELSE "jpeg"
      BY <1>3, <2>2 DEF OutputFormat
    <3> QED BY <1>1, <1>3, <3>1 DEF Takes, AcceptClasses
  <2> QED BY <2>1, <2>2
<1> QED BY <1>1, <1>2, <1>3

\* What serveMediaObject answers, by what is known of the object.
LEMMA ServedAnswers ==
  ASSUME NEW req \in MediaRequest, NEW slice \in Slices, NEW object \in MediaObject,
         NEW found \in MediaObject, NEW sniffed \in MediaObject \cup {None}
  PROVE  LET a == Served(req, slice, object, found, sniffed) IN
         /\ a \in MediaResponse /\ a.object = object
         /\ a.mixed <=> (object # found \/ sniffed \notin {None, object})
         /\ a.body = IF req.method = "HEAD" THEN NoSlice ELSE slice
         /\ SaysKind(object, sniffed, "video") /\ Parses(req.range) =>
              /\ a.status = 206 /\ a.format = "video"
              /\ a.claimed = ParseByteRange(req.range, object.size)
         /\ ~(SaysKind(object, sniffed, "video") /\ Parses(req.range)) => a.status = 200
         /\ SaysKind(object, sniffed, "video") => a.format = "video"
         /\ ~SaysKind(object, sniffed, "video") =>
              a.format = IF SaysKind(object, sniffed, "svg") \/ req.transform = "original"
                         THEN ContentType(object, sniffed)
                         ELSE OutputFormat(req, object, sniffed)
<1> DEFINE a == Served(req, slice, object, found, sniffed)
           mixed == object # found \/ (sniffed \notin {None, object})
           body == IF req.method = "HEAD" THEN NoSlice ELSE slice
           of(status, claimed, format) ==
             [status |-> status, object |-> object, claimed |-> claimed, mixed |-> mixed,
              body |-> body, format |-> format]
           video == SaysKind(object, sniffed, "video")
           svg == SaysKind(object, sniffed, "svg")
           section == ParseByteRange(req.range, object.size)
           pictured == IF svg \/ req.transform = "original"
                       THEN ContentType(object, sniffed)
                       ELSE OutputFormat(req, object, sniffed)
<1>1. body \in Slices /\ mixed \in BOOLEAN /\ Whole(object) \in Slices
  BY SlicesTyped
<1>2. Parses(req.range) => section \in Slices
  <2>1. Parses(req.range) => req.range \in RangeHeaders
    BY DEF MediaRequest, Parses
  <2> QED BY <2>1, SlicesTyped
<1>3. pictured \in {"video", "svg", "gif", "png", "jpeg", "avif", "webp"}
  BY KindsTyped, FormatTyped DEF Kinds
<1>4. video /\ Parses(req.range) => a = of(206, section, "video")
  BY DEF Served
<1>5. video /\ ~Parses(req.range) => a = of(200, Whole(object), "video")
  BY DEF Served
<1>6. ~video => a = of(200, Whole(object), pictured)
  <2>1. ~video /\ svg => a = of(200, Whole(object), ContentType(object, sniffed))
    BY DEF Served
  <2>2. ~video /\ ~svg => a = of(200, Whole(object),
                                 IF req.transform = "original"
                                 THEN ContentType(object, sniffed)
                                 ELSE OutputFormat(req, object, sniffed))
    BY DEF Served
  <2> QED BY <2>1, <2>2
<1> HIDE DEF a, mixed, body, video, svg, section, pictured
<1>7. CASE video /\ Parses(req.range)
  <2>1. /\ a.format = "video" /\ a.status = 206 /\ a.object = object /\ a.body = body
        /\ a.mixed = mixed /\ a.claimed = section
    BY <1>4, <1>7
  <2>2. a \in MediaResponse
    BY <1>1, <1>2, <1>4, <1>7 DEF MediaResponse
  <2> QED BY <1>7, <2>1, <2>2 DEF a, mixed, body, video, section
<1>8. CASE video /\ ~Parses(req.range)
  <2>1. /\ a.format = "video" /\ a.status = 200 /\ a.object = object /\ a.body = body
        /\ a.mixed = mixed
    BY <1>5, <1>8
  <2>2. a \in MediaResponse
    BY <1>1, <1>5, <1>8 DEF MediaResponse
  <2> QED BY <1>8, <2>1, <2>2 DEF a, mixed, body, video
<1>9. CASE ~video
  <2>1. a.format = pictured /\ a.status = 200 /\ a.object = object /\ a.body = body
        /\ a.mixed = mixed
    BY <1>6, <1>9
  <2>2. a \in MediaResponse
    BY <1>1, <1>3, <1>6, <1>9 DEF MediaResponse
  <2> QED BY <1>9, <2>1, <2>2 DEF a, mixed, body, video, svg, pictured
<1> QED BY <1>7, <1>8, <1>9

\* An object that is still the one that was looked up: what is answered fits.
LEMMA AnswersFit ==
  ASSUME NEW req \in MediaRequest, NEW slice \in Slices, NEW object \in MediaObject,
         object # None, NEW found \in MediaObject, NEW sniffed \in MediaObject \cup {None},
         NEW asked \in MediaRequest,
         asked.method = req.method, asked.range = req.range,
         asked.accept = req.accept,
         SaysKind(found, sniffed, "video") => req.transform = "original",
         ~SaysKind(found, sniffed, "video") => req = asked,
         slice = IF SaysKind(found, sniffed, "video") /\ Parses(req.range)
                 THEN Clipped(ParseByteRange(req.range, found.size), object)
                 ELSE Whole(object),
         SaysKind(found, sniffed, "video") /\ Parses(req.range) =>
           Satisfiable(ParseByteRange(req.range, found.size), object)
  PROVE  LET a == Served(req, slice, object, found, sniffed) IN
         /\ a \in MediaResponse
         /\ AnswerFitsRequest(asked, a)
<1> DEFINE a == Served(req, slice, object, found, sniffed)
<1>1. a \in MediaResponse /\ a.object = object
  BY ServedAnswers
<1>2. SUFFICES ASSUME ~a.mixed
               PROVE  /\ a.status = 200 =>
                           /\ asked.method = "GET" => a.body = Whole(object)
                           /\ Takes(asked, a.format)
                           /\ ~(a.format = "video" /\ Parses(asked.range))
                      /\ a.status = 206 =>
                           /\ Parses(asked.range)
                           /\ /\ asked.method = "GET"
                              /\ a.claimed.offset + a.claimed.length <= object.size
                              => a.body = a.claimed
  BY <1>1 DEF AnswerFitsRequest
<1>3. object = found /\ sniffed \in {None, object}
  BY <1>2, ServedAnswers
<1>4. \A kind : SaysKind(object, sniffed, kind) <=>
                  (object.typed \/ sniffed # None) /\ object.kind = kind
  BY <1>3, KindsTyped DEF SaysKind
<1>5. a.body = IF req.method = "HEAD" THEN NoSlice ELSE slice
  BY ServedAnswers
<1>6. CASE SaysKind(object, sniffed, "video") /\ Parses(req.range)
  <2> DEFINE section == ParseByteRange(req.range, object.size)
  <2>1. a.status = 206 /\ a.claimed = section
    BY <1>6, ServedAnswers
  <2>2. req.range \in RangeHeaders
    BY <1>6 DEF MediaRequest, Parses
  <2>3. section \in Slices /\ Satisfiable(section, object) /\ slice = Clipped(section, object)
    BY <1>3, <1>6, <2>2, SlicesTyped
  <2>4. section.offset + section.length <= object.size => slice = section
    BY <2>3, ClippedTyped
  <2> QED BY <1>5, <1>6, <2>1, <2>4
<1>7. CASE ~(SaysKind(object, sniffed, "video") /\ Parses(req.range))
  <2>1. a.status = 200 /\ slice = Whole(object)
    BY <1>3, <1>7, ServedAnswers
  <2>2. CASE SaysKind(object, sniffed, "video")
    <3>1. a.format = "video"
      BY <2>2, ServedAnswers
    <3>2. Takes(asked, "video")
      BY DEF Takes, MediaRequest, Transforms
    <3> QED BY <1>5, <1>7, <2>1, <2>2, <3>1, <3>2
  <2>3. CASE ~SaysKind(object, sniffed, "video")
    <3>1. req = asked
      BY <1>3, <2>3
    <3>2. a.format = IF SaysKind(object, sniffed, "svg") \/ req.transform = "original"
                     THEN ContentType(object, sniffed)
                     ELSE OutputFormat(req, object, sniffed)
      BY <2>3, ServedAnswers
    <3>3. ContentType(object, sniffed) # "video"
      BY <1>3, <1>4, <2>3, KindsTyped DEF ContentType, Kinds
    <3>4. SaysKind(object, sniffed, "svg") => ContentType(object, sniffed) = "svg"
      BY <1>3, <1>4 DEF ContentType
    <3>5. Takes(req, "svg") /\ (req.transform = "original" => \A x : Takes(req, x))
      BY DEF Takes, MediaRequest, Transforms
    <3>6. Takes(req, a.format) /\ a.format # "video"
      <4>1. CASE SaysKind(object, sniffed, "svg")
        BY <3>2, <3>4, <3>5, <4>1
      <4>2. CASE ~SaysKind(object, sniffed, "svg") /\ req.transform = "original"
        BY <3>2, <3>3, <3>5, <4>2
      <4>3. CASE ~SaysKind(object, sniffed, "svg") /\ req.transform # "original"
        BY <3>2, <4>3, FormatTyped
      <4> QED BY <4>1, <4>2, <4>3
    <3> QED BY <1>5, <2>1, <3>1, <3>6
  <2> QED BY <2>2, <2>3
<1> QED BY <1>6, <1>7

\* Who takes a format, by what the edge keeps answers under.
LEMMA TakesByKey ==
  ASSUME NEW r \in MediaRequest, NEW s \in MediaRequest, NEW format,
         MediaKeyOf(r) = MediaKeyOf(s), Takes(r, format)
  PROVE  Takes(s, format)
<1>1. r.transform = s.transform
  BY DEF MediaKeyOf, MediaRequest, Transforms
<1>2. r.transform = "auto" => r.accept = s.accept
  BY <1>1 DEF MediaKeyOf
<1> QED BY <1>1, <1>2 DEF Takes, MediaRequest, Transforms

LEMMA KeysTyped ==
  ASSUME NEW r \in MediaRequest
  PROVE  MediaKeyOf(r) \in CacheKeys
BY DEF MediaKeyOf, MediaRequest, CacheKeys, Transforms

-----------------------------------------------------------------------------
(* Media: the steps.                                                       *)

\* A request goes from one state to another that fits.
LEMMA FetchMoves ==
  ASSUME MediaInv, NEW f \in Fetches, NEW new, FetchFits(new),
         fetch' = [fetch EXCEPT ![f] = new], UNCHANGED <<bucket, mediaEdge, uploads>>
  PROVE  MediaInv'
<1>1. fetch' \in [Fetches -> FetchRecord]
  BY DEF MediaInv, MediaTypeOK, FetchFits
<1>2. \A g \in Fetches : FetchFits(fetch'[g])
  BY DEF MediaInv, MediaTypeOK
<1> QED BY <1>1, <1>2 DEF MediaInv, MediaTypeOK, FetchFits, AnswerFitsRequest, KeptAnswerFits

LEMMA NoFetchFits == FetchFits(NoFetch)
<1>1. NoFetch.pc = "idle" /\ NoFetch \in FetchRecord
  BY DEF NoFetch, FetchRecord, Candidates
<1> QED BY <1>1 DEF FetchFits

\* A failure has no object, so it fits every request.
LEMMA FailuresFit ==
  ASSUME NEW status \in {404, 500}, NEW req
  PROVE  Failure(status) \in MediaResponse /\ AnswerFitsRequest(req, Failure(status))
<1>1. MaxSize \in Nat
  BY MediaAssumption
<1>2. NoSlice \in Slices
  BY <1>1 DEF NoSlice, Slices
<1>3. Failure(status) \in MediaResponse
  BY <1>2 DEF Failure, MediaResponse
<1>4. Failure(status).object = None
  BY DEF Failure
<1> QED BY <1>3, <1>4 DEF AnswerFitsRequest

LEMMA ReceiveStep ==
  ASSUME MediaInv, NEW f \in Fetches, NEW req \in MediaRequest, ReceiveFetch(f, req)
  PROVE  MediaInv'
<1> DEFINE kept == mediaEdge[MediaKeyOf(req)]
           given == IF req.method = "HEAD" THEN [kept EXCEPT !.body = NoSlice] ELSE kept
<1>1. NoFetch \in FetchRecord /\ NoFetch = [pc |-> "idle", request |-> None, key |-> 1,
        found |-> None, sniffed |-> None, answer |-> None]
  BY NoFetchFits DEF FetchFits, NoFetch
<1>2. CASE AsksEdge(req) /\ kept # None
  <2> DEFINE new == [NoFetch EXCEPT !.pc = "answered", !.request = req, !.answer = given]
  <2>1. kept \in MediaResponse /\ KeptAnswerFits(MediaKeyOf(req), kept)
    BY <1>2, KeysTyped DEF MediaInv, MediaTypeOK
  <2>2. NoSlice \in Slices
    BY MediaAssumption DEF NoSlice, Slices
  <2>3. /\ given \in MediaResponse /\ given.object = kept.object /\ given.mixed = kept.mixed
        /\ given.status = kept.status /\ given.format = kept.format
        /\ req.method = "GET" => given.body = kept.body
    BY <2>1, <2>2 DEF MediaResponse
  <2>4. AnswerFitsRequest(req, given)
    BY <1>2, <2>1, <2>3 DEF KeptAnswerFits, AnswerFitsRequest, AsksEdge, Parses
  <2>5. new.pc = "answered" /\ new.request = req /\ new.answer = given /\ new \in FetchRecord
    BY <1>1, <2>3 DEF FetchRecord
  <2>6. FetchFits(new)
    BY <2>3, <2>4, <2>5 DEF FetchFits
  <2>7. fetch' = [fetch EXCEPT ![f] = new]
    BY <1>2 DEF ReceiveFetch
  <2> QED BY <2>6, <2>7, FetchMoves DEF ReceiveFetch
<1>3. CASE ~(AsksEdge(req) /\ kept # None)
  <2> DEFINE new == [NoFetch EXCEPT !.pc = "head", !.request = req]
  <2>1. new.pc = "head" /\ new.request = req /\ new \in FetchRecord
    BY <1>1 DEF FetchRecord
  <2>2. FetchFits(new)
    BY <2>1 DEF FetchFits
  <2>3. fetch' = [fetch EXCEPT ![f] = new]
    BY <1>3 DEF ReceiveFetch
  <2> QED BY <2>2, <2>3, FetchMoves DEF ReceiveFetch
<1> QED BY <1>2, <1>3

LEMMA HeadStep ==
  ASSUME MediaInv, NEW f \in Fetches, HeadObject(f)
  PROVE  MediaInv'
<1> DEFINE r == fetch[f]
           found == bucket[r.key]
<1>1. FetchFits(r) /\ r \in FetchRecord /\ r.pc = "head" /\ r.request \in MediaRequest
  BY DEF MediaInv, FetchFits, HeadObject
<1>2. found \in MediaObject \cup {None}
  BY <1>1 DEF MediaInv, MediaTypeOK, FetchRecord
<1>3. CASE found # None /\ fetch' = [fetch EXCEPT ![f].pc = IF found.typed THEN "get" ELSE "magic",
                                                  ![f].found = found]
  <2> DEFINE new == [r EXCEPT !.pc = IF found.typed THEN "get" ELSE "magic", !.found = found]
  <2>1. new \in FetchRecord /\ new.pc \in {"get", "magic"} /\ new.request = r.request
        /\ new.found = found
    BY <1>1, <1>2 DEF FetchRecord
  <2>2. FetchFits(new)
    BY <1>1, <1>2, <1>3, <2>1 DEF FetchFits
  <2>3. fetch' = [fetch EXCEPT ![f] = new]
    BY <1>3 DEF MediaInv, MediaTypeOK
  <2> QED BY <2>2, <2>3, FetchMoves DEF HeadObject
<1>4. CASE fetch[f].key + 1 \in Candidates /\ fetch' = [fetch EXCEPT ![f].key = @ + 1]
  <2> DEFINE new == [r EXCEPT !.key = @ + 1]
  <2>1. new \in FetchRecord /\ new.pc = "head" /\ new.request = r.request
    BY <1>1, <1>4 DEF FetchRecord
  <2>2. FetchFits(new)
    BY <1>1, <2>1 DEF FetchFits
  <2>3. fetch' = [fetch EXCEPT ![f] = new]
    BY <1>4 DEF MediaInv, MediaTypeOK
  <2> QED BY <2>2, <2>3, FetchMoves DEF HeadObject
<1>5. CASE fetch' = [fetch EXCEPT ![f].pc = "answered", ![f].answer = Failure(404)]
  <2> DEFINE none == Failure(404)
             new == [r EXCEPT !.pc = "answered", !.answer = none]
  <2>1. none \in MediaResponse /\ AnswerFitsRequest(r.request, none)
    BY FailuresFit
  <2>2. fetch' = [fetch EXCEPT ![f].pc = "answered", ![f].answer = none]
    BY <1>5
  <2> HIDE DEF none
  <2>3. new \in FetchRecord /\ new.pc = "answered" /\ new.request = r.request
        /\ new.answer = none
    BY <1>1, <2>1 DEF FetchRecord
  <2>4. FetchFits(new)
    BY <1>1, <2>1, <2>3 DEF FetchFits
  <2>5. fetch' = [fetch EXCEPT ![f] = new]
    BY <2>2 DEF MediaInv, MediaTypeOK
  <2> QED BY <2>4, <2>5, FetchMoves DEF HeadObject
<1> QED BY <1>3, <1>4, <1>5 DEF HeadObject

LEMMA MagicStep ==
  ASSUME MediaInv, NEW f \in Fetches, ReadMagic(f)
  PROVE  MediaInv'
<1> DEFINE r == fetch[f]
           new == [r EXCEPT !.pc = "get", !.sniffed = bucket[r.key]]
<1>1. FetchFits(r) /\ r \in FetchRecord /\ r.pc = "magic" /\ r.request \in MediaRequest
      /\ r.found \in MediaObject \ {None}
  BY DEF MediaInv, FetchFits, ReadMagic
<1>2. bucket[r.key] \in MediaObject \cup {None}
  BY <1>1 DEF MediaInv, MediaTypeOK, FetchRecord
<1>3. new \in FetchRecord /\ new.pc = "get" /\ new.request = r.request /\ new.found = r.found
  BY <1>1, <1>2 DEF FetchRecord
<1>4. FetchFits(new)
  BY <1>1, <1>3 DEF FetchFits
<1>5. fetch' = [fetch EXCEPT ![f] = new]
  BY DEF ReadMagic, MediaInv, MediaTypeOK
<1> QED BY <1>4, <1>5, FetchMoves DEF ReadMagic

LEMMA GetStep ==
  ASSUME MediaInv, NEW f \in Fetches, GetObject(f)
  PROVE  MediaInv'
<1> DEFINE r == fetch[f]
           object == bucket[r.key]
           video == SaysKind(r.found, r.sniffed, "video")
           sliced == video /\ Parses(r.request.range)
           section == ParseByteRange(r.request.range, r.found.size)
           req == IF video THEN [r.request EXCEPT !.transform = "original"] ELSE r.request
           given == IF object = None THEN Failure(404)
                    ELSE IF ~sliced THEN Served(req, Whole(object), object, r.found, r.sniffed)
                    ELSE IF ~Satisfiable(section, object) THEN Failure(500)
                    ELSE Served(req, Clipped(section, object), object, r.found, r.sniffed)
           new == [r EXCEPT !.pc = "answered", !.answer = given]
<1>1. FetchFits(r) /\ r \in FetchRecord /\ r.pc = "get" /\ r.request \in MediaRequest
      /\ r.found \in MediaObject /\ r.sniffed \in MediaObject \cup {None}
  BY DEF MediaInv, FetchFits, GetObject, FetchRecord
<1>2. object \in MediaObject \cup {None}
  BY <1>1 DEF MediaInv, MediaTypeOK, FetchRecord
<1>3. /\ req \in MediaRequest /\ req.method = r.request.method
      /\ req.range = r.request.range /\ req.accept = r.request.accept
      /\ video => req.transform = "original"
      /\ ~video => req = r.request
  BY <1>1 DEF MediaRequest, Transforms
<1>4. given \in MediaResponse /\ AnswerFitsRequest(r.request, given)
  <2>1. CASE object = None
    BY <2>1, FailuresFit
  <2>2. CASE object # None /\ ~sliced
    <3>1. object \in MediaObject /\ Whole(object) \in Slices
      BY <1>2, <2>2, SlicesTyped
    <3>2. given = Served(req, Whole(object), object, r.found, r.sniffed)
      BY <2>2
    <3> HIDE DEF object, video, req, given, r
    <3> QED BY <1>1, <1>3, <2>2, <3>1, <3>2, AnswersFit DEF video
  <2>3. CASE object # None /\ sliced /\ ~Satisfiable(section, object)
    BY <2>3, FailuresFit
  <2>4. CASE object # None /\ sliced /\ Satisfiable(section, object)
    <3>1. r.request.range \in RangeHeaders
      BY <1>1, <2>4 DEF MediaRequest, Parses
    <3>2. object \in MediaObject /\ section \in Slices /\ Clipped(section, object) \in Slices
      BY <1>1, <1>2, <2>4, <3>1, SlicesTyped, ClippedTyped
    <3>3. given = Served(req, Clipped(section, object), object, r.found, r.sniffed)
      BY <2>4
    <3> HIDE DEF object, req, given, r
    <3> QED BY <1>1, <1>3, <2>4, <3>2, <3>3, AnswersFit
  <2> QED BY <2>1, <2>2, <2>3, <2>4
<1>5. fetch' = [fetch EXCEPT ![f].pc = "answered", ![f].answer = given]
  BY DEF GetObject
<1> HIDE DEF given
<1>6. new \in FetchRecord /\ new.pc = "answered" /\ new.request = r.request /\ new.answer = given
  BY <1>1, <1>4 DEF FetchRecord
<1>7. FetchFits(new)
  BY <1>1, <1>4, <1>6 DEF FetchFits
<1>8. fetch' = [fetch EXCEPT ![f] = new]
  BY <1>5 DEF MediaInv, MediaTypeOK
<1> QED BY <1>7, <1>8, FetchMoves DEF GetObject

\* What a GET answered whole is kept for every request that its key stands for.
LEMMA KeptFits ==
  ASSUME NEW req \in MediaRequest, NEW a \in MediaResponse,
         AnswerFitsRequest(req, a), IsKept(req, a)
  PROVE  KeptAnswerFits(MediaKeyOf(req), a)
<1>1. SUFFICES ASSUME a.object # None, ~a.mixed
               PROVE  /\ a.status = 200 /\ a.body = Whole(a.object)
                      /\ \A other \in MediaRequest :
                           MediaKeyOf(other) = MediaKeyOf(req) => Takes(other, a.format)
  BY DEF KeptAnswerFits
<1>2. a.status = 200 /\ a.body = Whole(a.object) /\ Takes(req, a.format)
  BY <1>1 DEF IsKept, AnswerFitsRequest
<1> QED BY <1>2, TakesByKey

LEMMA FinishStep ==
  ASSUME MediaInv, NEW f \in Fetches, FinishFetch(f)
  PROVE  MediaInv'
<1> DEFINE r == fetch[f]
           key == MediaKeyOf(r.request)
<1>1. /\ r.pc = "answered" /\ r.request \in MediaRequest /\ r.answer \in MediaResponse
      /\ AnswerFitsRequest(r.request, r.answer)
  BY DEF MediaInv, FetchFits, FinishFetch
<1>2. key \in CacheKeys
  BY <1>1, KeysTyped
<1>3. \/ /\ mediaEdge' = [mediaEdge EXCEPT ![key] = r.answer]
         /\ KeptAnswerFits(key, r.answer)
      \/ mediaEdge' = mediaEdge
  BY <1>1, KeptFits DEF FinishFetch
<1>4. mediaEdge' \in [CacheKeys -> MediaResponse \cup {None}]
  BY <1>1, <1>3 DEF MediaInv, MediaTypeOK
<1>5. ASSUME NEW k \in CacheKeys, mediaEdge'[k] # None
      PROVE  KeptAnswerFits(k, mediaEdge'[k])
  BY <1>2, <1>3, <1>5 DEF MediaInv, MediaTypeOK
<1>6. fetch' \in [Fetches -> FetchRecord] /\ \A g \in Fetches : FetchFits(fetch'[g])
  BY NoFetchFits DEF FinishFetch, MediaInv, MediaTypeOK, FetchFits
<1> QED BY <1>4, <1>5, <1>6 DEF FinishFetch, MediaInv, MediaTypeOK

LEMMA EvictStep ==
  ASSUME MediaInv, NEW key \in CacheKeys, EvictEdge(key)
  PROVE  MediaInv'
<1>1. mediaEdge' = [mediaEdge EXCEPT ![key] = None] /\ UNCHANGED <<bucket, fetch, uploads>>
  BY DEF EvictEdge
<1>2. mediaEdge' \in [CacheKeys -> MediaResponse \cup {None}]
  BY <1>1 DEF MediaInv, MediaTypeOK
<1>3. \A k \in CacheKeys : mediaEdge'[k] # None => KeptAnswerFits(k, mediaEdge'[k])
  BY <1>1 DEF MediaInv, MediaTypeOK
<1> QED BY <1>1, <1>2, <1>3 DEF MediaInv, MediaTypeOK

LEMMA UploadStep ==
  ASSUME MediaInv, NEW key \in Candidates, NEW object \in MediaObject \cup {None},
         Upload(key, object)
  PROVE  MediaInv'
<1>1. uploads' \in 0..MaxUploads
  BY MediaAssumption DEF Upload, MediaInv, MediaTypeOK
<1>2. bucket' \in [Candidates -> MediaObject \cup {None}]
  BY DEF Upload, MediaInv, MediaTypeOK
<1> QED BY <1>1, <1>2 DEF Upload, MediaInv, MediaTypeOK

LEMMA MediaInvariant == MediaSpec => []MediaInv
<1>1. MediaInit => MediaInv
  <2>1. SUFFICES ASSUME MediaInit PROVE MediaInv
    OBVIOUS
  <2>2. bucket \in [Candidates -> MediaObject \cup {None}]
        /\ mediaEdge \in [CacheKeys -> MediaResponse \cup {None}]
    BY <2>1 DEF MediaInit
  <2>3. fetch \in [Fetches -> FetchRecord] /\ \A f \in Fetches : FetchFits(fetch[f])
    BY <2>1, NoFetchFits DEF MediaInit, FetchFits
  <2>4. uploads \in 0..MaxUploads
    BY <2>1, MediaAssumption DEF MediaInit
  <2>5. \A key \in CacheKeys : mediaEdge[key] = None
    BY <2>1 DEF MediaInit
  <2> QED BY <2>2, <2>3, <2>4, <2>5 DEF MediaInv, MediaTypeOK
<1>2. MediaInv /\ [MediaNext]_mediaVars => MediaInv'
  <2> SUFFICES ASSUME MediaInv, [MediaNext]_mediaVars
               PROVE  MediaInv'
    OBVIOUS
  <2>1. ASSUME NEW f \in Fetches, NEW req \in MediaRequest, ReceiveFetch(f, req)
        PROVE  MediaInv'
    BY <2>1, ReceiveStep
  <2>2. ASSUME NEW f \in Fetches, HeadObject(f)
        PROVE  MediaInv'
    BY <2>2, HeadStep
  <2>3. ASSUME NEW f \in Fetches, ReadMagic(f)
        PROVE  MediaInv'
    BY <2>3, MagicStep
  <2>4. ASSUME NEW f \in Fetches, GetObject(f)
        PROVE  MediaInv'
    BY <2>4, GetStep
  <2>5. ASSUME NEW f \in Fetches, FinishFetch(f)
        PROVE  MediaInv'
    BY <2>5, FinishStep
  <2>6. ASSUME NEW key \in CacheKeys, EvictEdge(key)
        PROVE  MediaInv'
    BY <2>6, EvictStep
  <2>7. ASSUME NEW key \in Candidates, NEW object \in MediaObject \cup {None},
               Upload(key, object)
        PROVE  MediaInv'
    BY <2>7, UploadStep
  <2>8. CASE UNCHANGED mediaVars
    BY <2>8 DEF mediaVars, MediaInv, MediaTypeOK
  <2> QED BY <2>1, <2>2, <2>3, <2>4, <2>5, <2>6, <2>7, <2>8 DEF MediaNext
<1> QED BY <1>1, <1>2, PTL DEF MediaSpec

\* The bucket, the edge and the requests for media hold values of their kinds.
THEOREM MediaTyped == MediaSpec => []MediaTypeOK
<1>1. MediaInv => MediaTypeOK
  BY DEF MediaInv
<1> QED BY <1>1, MediaInvariant, PTL

\* Whoever fetched it before, a client gets the whole object, in a format that it takes,
\* or of a video the slice that it asked for and was told; unless the object was
\* replaced while it was read, or the range goes beyond the end.
THEOREM MediaFits == MediaSpec => []MediaFitsTheRequest
<1>1. MediaInv => MediaFitsTheRequest
  BY DEF MediaInv, FetchFits, AnswerFitsRequest, MediaFitsTheRequest
<1> QED BY <1>1, MediaInvariant, PTL

-----------------------------------------------------------------------------
(* The episodes and their list: the largest of some numbers.               *)

\* Max is a choice: a bounded set has a largest member because the numbers up to
\* its members are as many as one of them says.
LEMMA LargestOfBounded ==
  ASSUME NEW S, S \subseteq Nat, S # {}, NEW b \in Nat, \A x \in S : x <= b
  PROVE  Max(S) \in S /\ \A x \in S : x <= Max(S)
<1> DEFINE D == {x \in 0..b : \E y \in S : x <= y}
<1> DEFINE k == Cardinality(D)
<1>1. IsFiniteSet(D) /\ k \in Nat
  <2>1. IsFiniteSet(0..b)
    BY FS_Interval
  <2> QED BY <2>1, FS_Subset, FS_CardinalityType
<1>2. S \subseteq D
  OBVIOUS
<1>3. \A x \in D : \A y \in 0..x : y \in D
  OBVIOUS
<1> HIDE DEF D
<1>4. k \notin D
  <2> SUFFICES ASSUME k \in D PROVE FALSE
    OBVIOUS
  <2>1. 0..k \subseteq D
    BY <1>3
  <2>2. Cardinality(0..k) <= k
    BY <2>1, <1>1, FS_Subset
  <2>3. Cardinality(0..k) = k + 1
    BY <1>1, FS_Interval
  <2> QED BY <2>2, <2>3, <1>1
<1>5. \A x \in D : x < k
  BY <1>1, <1>3, <1>4 DEF D
<1>6. D \subseteq 0..(k - 1)
  BY <1>1, <1>5 DEF D
<1>7. k >= 1
  <2>1. PICK y \in S : y \in D
    BY <1>2
  <2>2. y \in Nat /\ y < k
    BY <2>1, <1>5
  <2> QED BY <2>2, <1>1
<1>8. Cardinality(0..(k - 1)) = k /\ IsFiniteSet(0..(k - 1))
  BY <1>1, <1>7, FS_Interval
<1>9. D = 0..(k - 1)
  BY <1>6, <1>8, FS_Subset
<1>10. k - 1 \in S
  <2>1. k - 1 \in D
    BY <1>1, <1>7, <1>9
  <2>2. PICK y \in S : k - 1 <= y
    BY <2>1 DEF D
  <2>3. y \in Nat /\ y < k
    BY <1>2, <1>5
  <2>4. y = k - 1
    BY <2>2, <2>3, <1>1
  <2> QED BY <2>4
<1>11. \A y \in S : k - 1 >= y
  BY <1>1, <1>2, <1>5
<1> QED BY <1>10, <1>11 DEF Max

-----------------------------------------------------------------------------
(* The episodes and their list: the inductive invariant.                   *)

Entries == [id : EpisodeIds, numbered : BOOLEAN]

FeedShapes ==
  /\ episode \in [EpisodeIds -> Episode]
  /\ publishing \in [PublishRequests -> Publishing]
  /\ feedGeneration \in [now : FeedGenerations, readable : SUBSET FeedGenerations]
  /\ openedWith \in [FeedGenerations -> SUBSET Entries]
  /\ feed \in [FeedGenerations -> (SUBSET Entries) \cup {None}]
  /\ loading \in [Listeners -> [generation : FeedGenerations, list : SUBSET Entries]
                               \cup {None}]
  /\ outages \in 0..MaxOutages

\* Transistor's ids are given in order; what it gives stays within some bound.
IdsInOrder == \E k \in 0..MaxEpisodes : Made = 1..k
NumbersBounded ==
  \E b \in Nat : \A i \in EpisodeIds : episode[i].season <= b /\ episode[i].number <= b

EpisodeFits(i) ==
  /\ ~episode[i].made => episode[i] = NoEpisode
  /\ episode[i].made => episode[i].number >= 1
  /\ episode[i].numbered => episode[i].number <= EpisodesPerSeason

\* The request that is about to give episode i its number.
Holds(h, i) == publishing[h].pc \in {"publishing", "numbering"} /\ publishing[h].id = i

\* The episode of a request is its own until it has its number.
PublishingFits(h) ==
  /\ publishing[h].pc \in {"publishing", "numbering"} =>
       /\ publishing[h].id \in Made
       /\ ~episode[publishing[h].id].numbered
       /\ episode[publishing[h].id].season = publishing[h].season
       /\ \A k \in PublishRequests : k # h => ~Holds(k, publishing[h].id)
  /\ publishing[h].pc = "numbering" => episode[publishing[h].id].published
  /\ publishing[h].pc \in {"refreshing", "storing", "bumping"} =>
       /\ publishing[h].id \in Made
       /\ episode[publishing[h].id].published /\ episode[publishing[h].id].numbered

EpisodesFit == IdsInOrder /\ NumbersBounded /\ \A i \in EpisodeIds : EpisodeFits(i)
PublishingsFit == \A h \in PublishRequests : PublishingFits(h)

\* Lists are made and opened up to the generation that is now.
Listed(i) == i \in Made /\ episode[i].published /\ episode[i].processed
Ready(e) == Listed(e.id) /\ episode[e.id].numbered /\ e.numbered
Opened(g) == g \in FeedGenerations /\ g <= feedGeneration.now

\* A list has what its generation was opened with.
Complete(g, list) == Opened(g) /\ openedWith[g] \subseteq list

GenerationsFit ==
  /\ feedGeneration.now \in feedGeneration.readable
  /\ \A g \in feedGeneration.readable : Opened(g)
  /\ \A g \in FeedGenerations : \A e \in openedWith[g] : Ready(e)
  /\ \A g \in FeedGenerations : feed[g] # None => Complete(g, feed[g])
  /\ \A r \in Listeners :
       loading[r] # None => Complete(loading[r].generation, loading[r].list)
ListHeldFits(h) ==
  /\ publishing[h].pc = "storing" =>
       /\ Complete(publishing[h].generation, publishing[h].list)
       /\ \A e \in publishing[h].list : Listed(e.id)
  /\ publishing[h].pc = "bumping" => Listed(publishing[h].id)
ListsHeldFit == \A h \in PublishRequests : ListHeldFits(h)

\* An episode's place in the counting of all seasons, which wrapping keeps.
Position(i) == episode[i].season * EpisodesPerSeason + episode[i].number

\* The episodes that the property is about, and those that are to be.
Counts(i) ==
  /\ i \in Made
  /\ \/ episode[i].numbered /\ ~episode[i].crossed
     \/ \E h \in PublishRequests : Holds(h, i) /\ ~publishing[h].crossed
PlacesDiffer ==
  \A i, j \in EpisodeIds : i # j /\ Counts(i) /\ Counts(j) => Position(i) # Position(j)

FeedInv ==
  /\ FeedShapes
  /\ EpisodesFit
  /\ PublishingsFit
  /\ GenerationsFit
  /\ ListsHeldFit
  /\ PlacesDiffer

LEMMA FeedInvTyped == FeedInv => FeedTypeOK
<1> SUFFICES ASSUME FeedInv PROVE FeedTypeOK
  OBVIOUS
<1>1. \A i \in Made : episode[i].numbered => episode[i].number \in 1..EpisodesPerSeason
  BY FeedAssumption
     DEF FeedInv, EpisodesFit, EpisodeFits, FeedShapes, Episode, Made
<1>2. \A h \in PublishRequests :
        /\ publishing[h].pc \in {"idle", "creating", "publishing", "numbering",
                                 "refreshing", "storing", "bumping"}
        /\ publishing[h].season \in Nat /\ publishing[h].crossed \in BOOLEAN
        /\ publishing[h].id \in EpisodeIds \cup {None}
        /\ publishing[h].generation \in FeedGenerations \cup {None}
  BY DEF FeedInv, FeedShapes, Publishing
<1> QED
  BY <1>1, <1>2 DEF FeedInv, FeedShapes, GenerationsFit, FeedTypeOK

LEMMA FeedInvDistinct == FeedInv => NumbersAreDistinct
<1> SUFFICES ASSUME FeedInv,
                    NEW i \in Made, NEW j \in Made, i # j,
                    episode[i].numbered, episode[j].numbered,
                    ~episode[i].crossed, ~episode[j].crossed
             PROVE  <<episode[i].season, episode[i].number>>
                      # <<episode[j].season, episode[j].number>>
  BY DEF NumbersAreDistinct
<1>1. Counts(i) /\ Counts(j)
  BY DEF Counts
<1>2. Position(i) # Position(j)
  BY <1>1 DEF FeedInv, PlacesDiffer, Made
<1> QED BY <1>2 DEF Position

LEMMA FeedInvLists == FeedInv => ListsFitTheirGeneration
BY DEF FeedInv, GenerationsFit, Complete, ListsFitTheirGeneration

LEMMA FeedInitInv == FeedInit => FeedInv
<1> SUFFICES ASSUME FeedInit PROVE FeedInv
  OBVIOUS
<1> USE FeedAssumption
<1>1. PICK n \in 0..EpisodesPerSeason :
        episode = [i \in EpisodeIds |->
          IF i > n THEN NoEpisode
          ELSE [made |-> TRUE, published |-> TRUE, processed |-> TRUE,
                numbered |-> TRUE, crossed |-> FALSE, season |-> 1, number |-> i]]
  BY DEF FeedInit
<1>2. \A i \in EpisodeIds :
        /\ i \in Nat /\ i >= 1 /\ i <= MaxEpisodes
        /\ episode[i] \in Episode
        /\ i > n => episode[i] = NoEpisode /\ ~episode[i].made
                    /\ ~episode[i].numbered /\ episode[i].season = 0
                    /\ episode[i].number = 0
        /\ ~(i > n) => episode[i].made /\ episode[i].season = 1 /\ episode[i].number = i
  BY <1>1 DEF EpisodeIds, Episode, NoEpisode
<1>3. FeedShapes
  <2>1. episode \in [EpisodeIds -> Episode]
    BY <1>1, <1>2
  <2>2. publishing \in [PublishRequests -> Publishing]
    BY DEF FeedInit, NotPublishing, Publishing
  <2>3. feedGeneration \in [now : FeedGenerations, readable : SUBSET FeedGenerations]
    <3>1. 1 \in FeedGenerations
      BY DEF FeedGenerations
    <3> QED BY <3>1 DEF FeedInit
  <2>4. openedWith \in [FeedGenerations -> SUBSET Entries]
    BY DEF FeedInit
  <2>5. feed \in [FeedGenerations -> (SUBSET Entries) \cup {None}]
    BY DEF FeedInit
  <2>6. loading \in [Listeners -> [generation : FeedGenerations, list : SUBSET Entries]
                                  \cup {None}]
    BY DEF FeedInit
  <2>7. outages \in 0..MaxOutages
    BY DEF FeedInit
  <2> QED BY <2>1, <2>2, <2>3, <2>4, <2>5, <2>6, <2>7 DEF FeedShapes
<1>4. IdsInOrder
  <2>1. CASE n <= MaxEpisodes
    <3>1. Made = 1..n
      BY <1>2, <2>1 DEF Made, EpisodeIds
    <3> QED BY <2>1, <3>1 DEF IdsInOrder
  <2>2. CASE n > MaxEpisodes
    <3>1. Made = 1..MaxEpisodes
      BY <1>2, <2>2 DEF Made, EpisodeIds
    <3> QED BY <3>1 DEF IdsInOrder
  <2> QED BY <2>1, <2>2
<1>5. NumbersBounded
  <2> DEFINE b == 1 + n
  <2>1. \A i \in EpisodeIds : episode[i].season <= b /\ episode[i].number <= b
    BY <1>2
  <2>2. b \in Nat
    OBVIOUS
  <2> HIDE DEF b
  <2> QED BY <2>1, <2>2 DEF NumbersBounded
<1>6. \A i \in EpisodeIds : EpisodeFits(i)
  BY <1>2 DEF EpisodeFits
<1>7. \A h \in PublishRequests : publishing[h].pc = "idle"
  BY DEF FeedInit, NotPublishing
<1>8. PublishingsFit /\ ListsHeldFit
  BY <1>7 DEF PublishingsFit, PublishingFits, ListsHeldFit, ListHeldFits
<1>9. GenerationsFit
  BY DEF FeedInit, FeedGenerations, GenerationsFit, Opened
<1>10. PlacesDiffer
  <2> SUFFICES ASSUME NEW i \in EpisodeIds, NEW j \in EpisodeIds, i # j,
                      Counts(i), Counts(j)
               PROVE  Position(i) # Position(j)
    BY DEF PlacesDiffer
  <2>1. episode[i].made /\ episode[j].made
    BY DEF Counts, Made
  <2>2. Position(i) = EpisodesPerSeason + i /\ Position(j) = EpisodesPerSeason + j
    BY <1>2, <2>1 DEF Position
  <2> QED BY <1>2, <2>2
<1> QED BY <1>3, <1>4, <1>5, <1>6, <1>8, <1>9, <1>10 DEF FeedInv, EpisodesFit

-----------------------------------------------------------------------------
(* The episodes and their list: what every step leaves as it was.          *)

LEMMA ListedAreEntries ==
  ASSUME FeedShapes
  PROVE  /\ ListedEpisodes \subseteq Entries
         /\ \A e \in ListedEpisodes : Listed(e.id)
         /\ \A e \in Entries : Ready(e) => e \in ListedEpisodes
<1>1. \A i \in EpisodeIds : episode[i].numbered \in BOOLEAN
  BY DEF FeedShapes, Episode
<1>2. ListedEpisodes \subseteq Entries /\ \A e \in ListedEpisodes : Listed(e.id)
  BY <1>1 DEF ListedEpisodes, FeedEntry, Entries, Listed, Made
<1>3. ASSUME NEW e \in Entries, Ready(e)
      PROVE  e \in ListedEpisodes
  <2>1. e = FeedEntry(e.id)
    BY <1>1, <1>3 DEF Entries, FeedEntry, Ready
  <2>2. e.id \in {j \in Made : episode[j].published /\ episode[j].processed}
    BY <1>3 DEF Ready, Listed
  <2> QED BY <2>1, <2>2 DEF ListedEpisodes
<1> QED BY <1>2, <1>3

\* A list of now has all that any generation was opened with.
LEMMA ListedIsComplete ==
  ASSUME FeedShapes, GenerationsFit, NEW g \in feedGeneration.readable
  PROVE  Complete(g, ListedEpisodes)
<1>1. Opened(g) /\ g \in FeedGenerations
  BY DEF GenerationsFit, Opened
<1>2. openedWith[g] \subseteq Entries /\ \A e \in openedWith[g] : Ready(e)
  BY <1>1 DEF GenerationsFit, FeedShapes
<1> QED BY <1>1, <1>2, ListedAreEntries DEF Complete

\* An episode stays listed and numbered; an opened generation stays what it is.
EpisodesGrow ==
  \A i \in EpisodeIds :
    /\ i \in Made => i \in Made'
    /\ Listed(i) => Listed(i)'
    /\ episode[i].numbered => episode'[i].numbered
GenerationsGoOn ==
  \A g \in FeedGenerations :
    Opened(g) => Opened(g)' /\ openedWith'[g] = openedWith[g]

LEMMA EpisodesStayThere ==
  UNCHANGED episode => EpisodesGrow
BY DEF EpisodesGrow, Listed, Made

LEMMA GenerationsStayThere ==
  UNCHANGED <<feedGeneration, openedWith>> => GenerationsGoOn
BY DEF GenerationsGoOn, Opened

LEMMA CompleteStays ==
  ASSUME GenerationsGoOn, NEW g, NEW list, Complete(g, list)
  PROVE  Complete(g, list)'
BY DEF Complete, GenerationsGoOn, Opened

LEMMA ReadyStays ==
  ASSUME EpisodesGrow, NEW e, Ready(e)
  PROVE  Ready(e)'
<1>1. e.id \in EpisodeIds
  BY DEF Ready, Listed, Made
<1> QED BY <1>1 DEF EpisodesGrow, Ready

LEMMA HeldListStays ==
  ASSUME EpisodesGrow, GenerationsGoOn, NEW k \in PublishRequests, ListHeldFits(k),
         publishing'[k].pc = publishing[k].pc, publishing'[k].id = publishing[k].id,
         publishing'[k].generation = publishing[k].generation,
         publishing'[k].list = publishing[k].list
  PROVE  ListHeldFits(k)'
<1>1. ASSUME publishing'[k].pc = "storing"
      PROVE  /\ Complete(publishing[k].generation, publishing[k].list)'
             /\ (\A e \in publishing[k].list : Listed(e.id))'
  <2>1. Complete(publishing[k].generation, publishing[k].list)
    BY <1>1 DEF ListHeldFits
  <2>2. Complete(publishing[k].generation, publishing[k].list)'
    BY <2>1 DEF Complete, GenerationsGoOn, Opened
  <2>3. \A e \in publishing[k].list : Listed(e.id) /\ e.id \in EpisodeIds
    BY <1>1 DEF ListHeldFits, Listed, Made
  <2> QED BY <2>2, <2>3 DEF EpisodesGrow
<1>2. ASSUME publishing'[k].pc = "bumping"
      PROVE  Listed(publishing[k].id)'
  <2>1. Listed(publishing[k].id) /\ publishing[k].id \in EpisodeIds
    BY <1>2 DEF ListHeldFits, Listed, Made
  <2> QED BY <2>1 DEF EpisodesGrow, Listed
<1> QED BY <1>1, <1>2 DEF ListHeldFits

\* Steps that leave the generations and their lists alone.
LEMMA GenerationsFitStays ==
  ASSUME FeedInv, EpisodesGrow,
         UNCHANGED <<feedGeneration, openedWith, feed, loading>>
  PROVE  GenerationsFit' /\ GenerationsGoOn
<1>1. GenerationsGoOn
  BY GenerationsStayThere
<1>2. \A g \in FeedGenerations : \A e \in openedWith[g] : Ready(e)'
  BY ReadyStays DEF FeedInv, GenerationsFit
<1>3. \A g \in FeedGenerations : feed[g] # None => Complete(g, feed[g])'
  BY DEF FeedInv, GenerationsFit, Complete, Opened
<1>4. \A r \in Listeners :
        loading[r] # None => Complete(loading[r].generation, loading[r].list)'
  BY DEF FeedInv, GenerationsFit, Complete, Opened
<1>5. /\ feedGeneration.now \in feedGeneration.readable
      /\ \A g \in feedGeneration.readable : Opened(g)'
  BY DEF FeedInv, GenerationsFit, Opened
<1> QED BY <1>1, <1>2, <1>3, <1>4, <1>5 DEF GenerationsFit, Complete, Opened

LEMMA EpisodesFitStays ==
  ASSUME EpisodesFit, UNCHANGED episode
  PROVE  EpisodesFit'
BY DEF EpisodesFit, IdsInOrder, NumbersBounded, EpisodeFits, Made

LEMMA PlacesFollow ==
  ASSUME FeedInv,
         \A i \in EpisodeIds : Counts(i)' => Counts(i) /\ Position(i)' = Position(i)
  PROVE  PlacesDiffer'
<1> SUFFICES ASSUME NEW i \in EpisodeIds, NEW j \in EpisodeIds, i # j,
                    Counts(i)', Counts(j)'
             PROVE  Position(i)' # Position(j)'
  BY DEF PlacesDiffer
<1> QED BY DEF FeedInv, PlacesDiffer

\* Steps of others leave a request as it is.
LEMMA PublishingsStay ==
  ASSUME FeedInv, UNCHANGED <<episode, publishing>>
  PROVE  EpisodesFit' /\ PublishingsFit' /\ PlacesDiffer'
<1>1. PublishingsFit'
  BY DEF FeedInv, PublishingsFit, PublishingFits, Holds, Made
<1>2. \A i \in EpisodeIds : Counts(i)' => Counts(i) /\ Position(i)' = Position(i)
  BY DEF Counts, Holds, Position, Made
<1> QED BY <1>1, <1>2, EpisodesFitStays, PlacesFollow DEF FeedInv

\* A request that begins, ends, or goes on with the list.
LEMMA PublisherMovesOn ==
  ASSUME FeedInv, UNCHANGED episode,
         NEW h \in PublishRequests, NEW p \in Publishing,
         publishing' = [publishing EXCEPT ![h] = p],
         p.pc \notin {"publishing", "numbering"},
         p.pc \in {"refreshing", "storing", "bumping"} =>
           p.id \in Made /\ episode[p.id].published /\ episode[p.id].numbered
  PROVE  /\ publishing' \in [PublishRequests -> Publishing]
         /\ EpisodesFit' /\ PublishingsFit' /\ PlacesDiffer'
<1>1. publishing \in [PublishRequests -> Publishing]
  BY DEF FeedInv, FeedShapes
<1>2. publishing' \in [PublishRequests -> Publishing]
  BY <1>1
<1>3. publishing'[h] = p /\ \A k \in PublishRequests : k # h => publishing'[k] = publishing[k]
  BY <1>1
<1>4. \A k \in PublishRequests : \A i : Holds(k, i)' => Holds(k, i) /\ k # h
  BY <1>3 DEF Holds
<1>5. \A k \in PublishRequests : PublishingFits(k)'
  <2> SUFFICES ASSUME NEW k \in PublishRequests PROVE PublishingFits(k)'
    OBVIOUS
  <2>1. CASE k = h
    BY <2>1, <1>3 DEF PublishingFits, Made
  <2>2. CASE k # h
    <3>1. PublishingFits(k) /\ publishing'[k] = publishing[k]
      BY <2>2, <1>3 DEF FeedInv, PublishingsFit
    <3> QED BY <3>1, <1>4 DEF PublishingFits, Made
  <2> QED BY <2>1, <2>2
<1>6. \A i \in EpisodeIds : Counts(i)' => Counts(i) /\ Position(i)' = Position(i)
  BY <1>3, <1>4 DEF Counts, Position, Made
<1> QED BY <1>2, <1>5, <1>6, EpisodesFitStays, PlacesFollow DEF FeedInv, PublishingsFit

-----------------------------------------------------------------------------
(* The episodes and their list: seasons and numbers.                       *)

LEMMA SeasonIsTheLast ==
  ASSUME FeedInv
  PROVE  /\ CurrentSeason \in Nat
         /\ \A i \in Made : episode[i].season <= CurrentSeason
<1> DEFINE S == {1} \cup {episode[i].season : i \in Made}
<1>1. \A i \in EpisodeIds : episode[i].season \in Nat
  BY DEF FeedInv, FeedShapes, Episode
<1>2. PICK b \in Nat : \A i \in EpisodeIds : episode[i].season <= b
  BY DEF FeedInv, EpisodesFit, NumbersBounded
<1>3. S \subseteq Nat /\ S # {}
  BY <1>1 DEF Made
<1>4. b + 1 \in Nat /\ \A x \in S : x <= b + 1
  BY <1>1, <1>2 DEF Made
<1>5. \A i \in Made : episode[i].season \in S
  OBVIOUS
<1>6. CurrentSeason = Max(S)
  BY DEF CurrentSeason
<1> HIDE DEF S
<1>7. Max(S) \in S /\ \A x \in S : x <= Max(S)
  BY <1>3, <1>4, LargestOfBounded
<1>8. CurrentSeason \in Nat
  BY <1>3, <1>6, <1>7
<1>9. \A i \in Made : episode[i].season <= CurrentSeason
  BY <1>5, <1>6, <1>7
<1> QED BY <1>8, <1>9

LEMMA NumberIsTheNext ==
  ASSUME FeedInv, NEW s
  PROVE  /\ NextNumber(s) \in Nat /\ NextNumber(s) >= 1
         /\ \A j \in Made : episode[j].season = s => episode[j].number < NextNumber(s)
<1> DEFINE S == {0} \cup {episode[i].number : i \in {j \in Made : episode[j].season = s}}
<1>1. \A i \in EpisodeIds : episode[i].number \in Nat
  BY DEF FeedInv, FeedShapes, Episode
<1>2. PICK b \in Nat : \A i \in EpisodeIds : episode[i].number <= b
  BY DEF FeedInv, EpisodesFit, NumbersBounded
<1>3. S \subseteq Nat /\ S # {}
  BY <1>1 DEF Made
<1>4. \A x \in S : x <= b
  BY <1>1, <1>2 DEF Made
<1>5. \A i \in Made : episode[i].season = s => episode[i].number \in S
  OBVIOUS
<1>6. NextNumber(s) = 1 + Max(S)
  BY DEF NextNumber
<1> HIDE DEF S
<1>7. Max(S) \in S /\ \A x \in S : x <= Max(S)
  BY <1>3, <1>4, LargestOfBounded
<1>8. Max(S) \in Nat
  BY <1>3, <1>7
<1>9. NextNumber(s) \in Nat /\ NextNumber(s) >= 1
  BY <1>6, <1>8
<1>10. ASSUME NEW j \in Made, episode[j].season = s
       PROVE  episode[j].number < NextNumber(s)
  <2>1. episode[j].number \in Nat /\ episode[j].number <= Max(S)
    BY <1>3, <1>5, <1>7, <1>10
  <2> QED BY <2>1, <1>6, <1>8
<1> QED BY <1>9, <1>10

\* The update keeps the place of an episode in the counting of all seasons.
LEMMA WrappingKeepsThePlace ==
  ASSUME NEW s \in Nat, NEW n \in Nat, n >= 1
  PROVE  /\ SeasonOf(s, n) \in Nat
         /\ NumberOf(n) \in 1..EpisodesPerSeason
         /\ SeasonOf(s, n) * EpisodesPerSeason + NumberOf(n) = s * EpisodesPerSeason + n
<1> DEFINE q == (n - 1) \div EpisodesPerSeason
           r == (n - 1) % EpisodesPerSeason
<1>1. EpisodesPerSeason \in Nat \ {0}
  BY FeedAssumption
<1>2. q \in Nat /\ r \in 0..EpisodesPerSeason - 1 /\ n - 1 = q * EpisodesPerSeason + r
  BY <1>1
<1>3. SeasonOf(s, n) = s + q /\ NumberOf(n) = 1 + r
  BY DEF SeasonOf, NumberOf
<1> HIDE DEF q, r
<1>4. (s + q) * EpisodesPerSeason + (1 + r) = s * EpisodesPerSeason + n
  BY <1>1, <1>2
<1>5. s + q \in Nat /\ 1 + r \in 1..EpisodesPerSeason
  BY <1>1, <1>2
<1> QED BY <1>3, <1>4, <1>5

\* A place within an earlier season is before all those of a later one.
LEMMA SeasonsFollow ==
  ASSUME NEW s \in Nat, NEW t \in Nat, NEW n \in Nat, NEW m \in Nat,
         s < t, n <= EpisodesPerSeason, m >= 1
  PROVE  s * EpisodesPerSeason + n < t * EpisodesPerSeason + m
<1>1. EpisodesPerSeason \in Nat \ {0}
  BY FeedAssumption
<1>2. PICK d \in Nat : t = s + 1 + d
  <2>1. t - (s + 1) \in Nat /\ t = s + 1 + (t - (s + 1))
    OBVIOUS
  <2> QED BY <2>1
<1>3. t * EpisodesPerSeason = s * EpisodesPerSeason + EpisodesPerSeason + d * EpisodesPerSeason
  BY <1>1, <1>2
<1>4. d * EpisodesPerSeason \in Nat /\ s * EpisodesPerSeason \in Nat
  BY <1>1
<1> QED BY <1>1, <1>3, <1>4

LEMMA BoundGoesOn ==
  ASSUME NumbersBounded, FeedShapes, FeedShapes', NEW i \in EpisodeIds,
         \A j \in EpisodeIds : j # i => episode'[j] = episode[j]
  PROVE  NumbersBounded'
<1>1. PICK b \in Nat : \A j \in EpisodeIds : episode[j].season <= b /\ episode[j].number <= b
  BY DEF NumbersBounded
<1>2. \A j \in EpisodeIds :
        /\ episode[j].season \in Nat /\ episode[j].number \in Nat
        /\ episode'[j].season \in Nat /\ episode'[j].number \in Nat
  BY DEF FeedShapes, Episode
<1> DEFINE c == b + episode'[i].season + episode'[i].number
<1>3. c \in Nat
  BY <1>2
<1>4. \A j \in EpisodeIds : episode'[j].season <= c /\ episode'[j].number <= c
  <2> SUFFICES ASSUME NEW j \in EpisodeIds
               PROVE  episode'[j].season <= c /\ episode'[j].number <= c
    OBVIOUS
  <2>1. CASE j = i
    BY <1>2, <2>1
  <2>2. CASE j # i
    <3>1. episode'[j].season <= b /\ episode'[j].number <= b
      BY <1>1, <2>2
    <3> QED BY <3>1, <1>2
  <2> QED BY <2>1, <2>2
<1> HIDE DEF c
<1> QED BY <1>3, <1>4 DEF NumbersBounded

-----------------------------------------------------------------------------
(* The episodes and their list: the steps of a publish request.            *)

LEMMA EpisodesTyped ==
  ASSUME FeedInv
  PROVE  /\ episode \in [EpisodeIds -> Episode]
         /\ \A i \in EpisodeIds : episode[i] \in Episode
         /\ publishing \in [PublishRequests -> Publishing]
         /\ \A h \in PublishRequests : publishing[h] \in Publishing
BY DEF FeedInv, FeedShapes

\* The lists of the other requests.
LEMMA OtherListsStay ==
  ASSUME FeedInv, EpisodesGrow, GenerationsGoOn, NEW h \in PublishRequests,
         NEW p, publishing' = [publishing EXCEPT ![h] = p],
         ListHeldFits(h)'
  PROVE  ListsHeldFit'
<1>1. \A k \in PublishRequests : k # h => publishing'[k] = publishing[k]
  BY EpisodesTyped
<1>2. ASSUME NEW k \in PublishRequests, k # h
      PROVE  ListHeldFits(k)'
  <2>1. ListHeldFits(k) /\ publishing'[k] = publishing[k]
    BY <1>1, <1>2 DEF FeedInv, ListsHeldFit
  <2> QED BY <2>1, HeldListStays
<1> QED BY <1>2 DEF ListsHeldFit

LEMMA BeginPublishingKeeps ==
  ASSUME FeedInv, NEW h \in PublishRequests, BeginPublishing(h)
  PROVE  FeedInv'
<1> DEFINE p == [NotPublishing EXCEPT !.pc = "creating", !.season = CurrentSeason]
<1>1. p \in Publishing /\ p.pc = "creating"
  BY SeasonIsTheLast DEF NotPublishing, Publishing
<1>2. publishing' = [publishing EXCEPT ![h] = p]
  BY DEF BeginPublishing
<1>3. UNCHANGED <<episode, feedGeneration, openedWith, feed, loading, outages>>
  BY DEF BeginPublishing
<1> HIDE DEF p
<1>4. /\ publishing' \in [PublishRequests -> Publishing]
      /\ EpisodesFit' /\ PublishingsFit' /\ PlacesDiffer'
  BY <1>1, <1>2, <1>3, PublisherMovesOn
<1>5. EpisodesGrow /\ GenerationsFit' /\ GenerationsGoOn
  BY <1>3, EpisodesStayThere, GenerationsFitStays
<1>6. publishing'[h].pc = "creating"
  BY <1>1, <1>2, EpisodesTyped
<1>7. ListsHeldFit'
  BY <1>2, <1>5, <1>6, OtherListsStay DEF ListHeldFits
<1>8. FeedShapes'
  BY <1>3, <1>4 DEF FeedInv, FeedShapes
<1> QED BY <1>4, <1>5, <1>7, <1>8 DEF FeedInv

LEMMA PublishingFailsKeeps ==
  ASSUME FeedInv, NEW h \in PublishRequests, PublishingFails(h)
  PROVE  FeedInv'
<1> DEFINE p == NotPublishing
<1>1. p \in Publishing /\ p.pc = "idle"
  BY DEF NotPublishing, Publishing
<1>2. publishing' = [publishing EXCEPT ![h] = p]
  BY DEF PublishingFails
<1>3. UNCHANGED <<episode, feedGeneration, openedWith, feed, loading>>
  BY DEF PublishingFails
<1> HIDE DEF p
<1>4. /\ publishing' \in [PublishRequests -> Publishing]
      /\ EpisodesFit' /\ PublishingsFit' /\ PlacesDiffer'
  BY <1>1, <1>2, <1>3, PublisherMovesOn
<1>5. EpisodesGrow /\ GenerationsFit' /\ GenerationsGoOn
  BY <1>3, EpisodesStayThere, GenerationsFitStays
<1>6. publishing'[h].pc = "idle"
  BY <1>1, <1>2, EpisodesTyped
<1>7. ListsHeldFit'
  BY <1>2, <1>5, <1>6, OtherListsStay DEF ListHeldFits
<1>8. outages' \in 0..MaxOutages
  BY FeedAssumption DEF FeedInv, FeedShapes, PublishingFails, Outage
<1>9. FeedShapes'
  BY <1>3, <1>4, <1>8 DEF FeedInv, FeedShapes
<1> QED BY <1>4, <1>5, <1>7, <1>9 DEF FeedInv

LEMMA RefreshLoadsKeeps ==
  ASSUME FeedInv, NEW h \in PublishRequests, RefreshLoads(h)
  PROVE  FeedInv'
<1>0. publishing[h].pc = "refreshing" /\ publishing[h] \in Publishing
  BY EpisodesTyped DEF RefreshLoads
<1>1. PICK g \in feedGeneration.readable :
        publishing' = [publishing EXCEPT ![h].pc = "storing", ![h].generation = g,
                                         ![h].list = ListedEpisodes]
  BY DEF RefreshLoads
<1>2. Complete(g, ListedEpisodes) /\ g \in FeedGenerations
  BY ListedIsComplete DEF FeedInv, Complete, Opened
<1>3. ListedEpisodes \subseteq Entries /\ \A e \in ListedEpisodes : Listed(e.id)
  BY ListedAreEntries DEF FeedInv
<1> DEFINE p == [publishing[h] EXCEPT !.pc = "storing", !.generation = g,
                                      !.list = ListedEpisodes]
<1>4. /\ p \in Publishing /\ p.pc = "storing" /\ p.id = publishing[h].id
      /\ p.generation = g /\ p.list = ListedEpisodes
  BY <1>0, <1>2, <1>3 DEF Publishing, Entries
<1>5. publishing' = [publishing EXCEPT ![h] = p]
  BY <1>1, EpisodesTyped
<1>6. UNCHANGED <<episode, feedGeneration, openedWith, feed, loading, outages>>
  BY DEF RefreshLoads
<1> HIDE DEF p
<1>7. p.id \in Made /\ episode[p.id].published /\ episode[p.id].numbered
  BY <1>0, <1>4 DEF FeedInv, PublishingsFit, PublishingFits
<1>8. /\ publishing' \in [PublishRequests -> Publishing]
      /\ EpisodesFit' /\ PublishingsFit' /\ PlacesDiffer'
  BY <1>4, <1>5, <1>6, <1>7, PublisherMovesOn
<1>9. EpisodesGrow /\ GenerationsFit' /\ GenerationsGoOn
  BY <1>6, EpisodesStayThere, GenerationsFitStays
<1>10. publishing'[h] = p
  BY <1>5, EpisodesTyped
<1>11. ListHeldFits(h)'
  BY <1>2, <1>3, <1>4, <1>6, <1>10 DEF ListHeldFits, Complete, Opened, Listed, Made
<1>12. ListsHeldFit'
  BY <1>5, <1>9, <1>11, OtherListsStay
<1>13. FeedShapes'
  BY <1>6, <1>8 DEF FeedInv, FeedShapes
<1> QED BY <1>8, <1>9, <1>12, <1>13 DEF FeedInv

LEMMA RefreshStoresKeeps ==
  ASSUME FeedInv, NEW h \in PublishRequests, RefreshStores(h)
  PROVE  FeedInv'
<1>0. publishing[h].pc = "storing" /\ publishing[h] \in Publishing
  BY EpisodesTyped DEF RefreshStores
<1> DEFINE next == IF IsListReady(h) THEN "bumping" ELSE "refreshing"
           p == [NotPublishing EXCEPT !.pc = next, !.id = publishing[h].id]
           g == publishing[h].generation
           list == publishing[h].list
<1>1. Complete(g, list) /\ g \in FeedGenerations /\ \A e \in list : Listed(e.id)
  BY <1>0 DEF FeedInv, ListsHeldFit, ListHeldFits, Complete, Opened
<1>2. list \in SUBSET Entries
  BY <1>0 DEF Publishing, Entries
<1>3. /\ p \in Publishing /\ p.pc = next /\ p.id = publishing[h].id
      /\ next \in {"bumping", "refreshing"}
  BY <1>0 DEF NotPublishing, Publishing
<1>4. publishing' = [publishing EXCEPT ![h] = p] /\ feed' = [feed EXCEPT ![g] = list]
  BY DEF RefreshStores
<1>5. UNCHANGED <<episode, feedGeneration, openedWith, loading, outages>>
  BY DEF RefreshStores
<1>6. next = "bumping" => Listed(publishing[h].id)
  BY <1>1 DEF IsListReady
<1> HIDE DEF p, next, g, list
<1>7. p.id \in Made /\ episode[p.id].published /\ episode[p.id].numbered
  BY <1>0, <1>3 DEF FeedInv, PublishingsFit, PublishingFits
<1>8. p.pc \notin {"publishing", "numbering"}
  BY <1>3
<1>9. /\ publishing' \in [PublishRequests -> Publishing]
      /\ EpisodesFit' /\ PublishingsFit' /\ PlacesDiffer'
  BY <1>3, <1>4, <1>5, <1>7, <1>8, PublisherMovesOn
<1>10. feed \in [FeedGenerations -> (SUBSET Entries) \cup {None}]
  BY DEF FeedInv, FeedShapes
<1>11. feed' \in [FeedGenerations -> (SUBSET Entries) \cup {None}]
  BY <1>2, <1>4, <1>10
<1>12. EpisodesGrow /\ GenerationsGoOn
  BY <1>5, EpisodesStayThere, GenerationsStayThere
<1>13. GenerationsFit'
  <2>1. \A f \in FeedGenerations : feed'[f] = IF f = g THEN list ELSE feed[f]
    BY <1>4, <1>10
  <2>2. \A f \in FeedGenerations : feed'[f] # None => Complete(f, feed'[f])
    BY <2>1, <1>1 DEF FeedInv, GenerationsFit
  <2> QED BY <2>2, <1>5 DEF FeedInv, GenerationsFit, Complete, Opened, Ready, Listed, Made
<1>14. publishing'[h] = p
  BY <1>4, EpisodesTyped
<1>15. ListHeldFits(h)'
  BY <1>3, <1>5, <1>6, <1>14 DEF ListHeldFits, Listed, Made
<1>16. ListsHeldFit'
  BY <1>4, <1>12, <1>15, OtherListsStay
<1>17. FeedShapes'
  BY <1>5, <1>9, <1>11 DEF FeedInv, FeedShapes
<1> QED BY <1>9, <1>13, <1>16, <1>17 DEF FeedInv

LEMMA GiveUpRefreshingKeeps ==
  ASSUME FeedInv, NEW h \in PublishRequests, GiveUpRefreshing(h)
  PROVE  FeedInv'
<1> DEFINE p == NotPublishing
<1>1. p \in Publishing /\ p.pc = "idle"
  BY DEF NotPublishing, Publishing
<1>2. publishing' = [publishing EXCEPT ![h] = p]
  BY DEF GiveUpRefreshing
<1>3. UNCHANGED <<episode, feedGeneration, openedWith, loading, outages>>
  BY DEF GiveUpRefreshing
<1>4. PICK g \in feedGeneration.readable : feed' = [feed EXCEPT ![g] = None]
  BY DEF GiveUpRefreshing
<1> HIDE DEF p
<1>5. /\ publishing' \in [PublishRequests -> Publishing]
      /\ EpisodesFit' /\ PublishingsFit' /\ PlacesDiffer'
  BY <1>1, <1>2, <1>3, PublisherMovesOn
<1>6. feed \in [FeedGenerations -> (SUBSET Entries) \cup {None}]
  BY DEF FeedInv, FeedShapes
<1>7. feed' \in [FeedGenerations -> (SUBSET Entries) \cup {None}]
  BY <1>4, <1>6
<1>8. EpisodesGrow /\ GenerationsGoOn
  BY <1>3, EpisodesStayThere, GenerationsStayThere
<1>9. GenerationsFit'
  <2>1. \A f \in FeedGenerations : feed'[f] # None => feed'[f] = feed[f]
    BY <1>4, <1>6
  <2>2. \A f \in FeedGenerations : feed'[f] # None => Complete(f, feed'[f])
    BY <2>1 DEF FeedInv, GenerationsFit
  <2> QED BY <2>2, <1>3 DEF FeedInv, GenerationsFit, Complete, Opened, Ready, Listed, Made
<1>10. publishing'[h].pc = "idle"
  BY <1>1, <1>2, EpisodesTyped
<1>11. ListsHeldFit'
  BY <1>2, <1>8, <1>10, OtherListsStay DEF ListHeldFits
<1>12. FeedShapes'
  BY <1>3, <1>5, <1>7 DEF FeedInv, FeedShapes
<1> QED BY <1>5, <1>9, <1>11, <1>12 DEF FeedInv

LEMMA BumpFeedGenerationKeeps ==
  ASSUME FeedInv, NEW h \in PublishRequests, BumpFeedGeneration(h)
  PROVE  FeedInv'
<1> DEFINE p == NotPublishing
           now == feedGeneration.now
           g == now + 1
           new == FeedEntry(publishing[h].id)
<1>1. p \in Publishing /\ p.pc = "idle"
  BY DEF NotPublishing, Publishing
<1>2. publishing' = [publishing EXCEPT ![h] = p]
  BY DEF BumpFeedGeneration
<1>3. UNCHANGED <<episode, feed, loading, outages>>
  BY DEF BumpFeedGeneration
<1>4. /\ publishing[h].pc = "bumping" /\ g \in FeedGenerations
      /\ feedGeneration' = [now |-> g, readable |-> feedGeneration.readable \cup {g}]
      /\ openedWith' = [openedWith EXCEPT ![g] = openedWith[now] \cup {new}]
  BY DEF BumpFeedGeneration
<1> HIDE DEF p
<1>5. /\ publishing' \in [PublishRequests -> Publishing]
      /\ EpisodesFit' /\ PublishingsFit' /\ PlacesDiffer'
  BY <1>1, <1>2, <1>3, PublisherMovesOn
<1>6. EpisodesGrow
  BY <1>3, EpisodesStayThere
<1>7. now \in FeedGenerations /\ now \in Nat /\ feedGeneration.readable \subseteq FeedGenerations
  BY FeedAssumption DEF FeedInv, FeedShapes, FeedGenerations
<1>8. Ready(new) /\ new \in Entries
  <2>1. Listed(publishing[h].id) /\ episode[publishing[h].id].numbered
    BY <1>4 DEF FeedInv, PublishingsFit, PublishingFits, ListsHeldFit, ListHeldFits
  <2> QED BY <2>1 DEF Ready, FeedEntry, Entries, Listed, Made
<1>9. openedWith \in [FeedGenerations -> SUBSET Entries]
  BY DEF FeedInv, FeedShapes
<1> HIDE DEF new, now
<1>10. openedWith' \in [FeedGenerations -> SUBSET Entries]
  BY <1>4, <1>7, <1>8, <1>9
<1>11. feedGeneration' \in [now : FeedGenerations, readable : SUBSET FeedGenerations]
  BY <1>4, <1>7
<1>12. \A f \in FeedGenerations : Opened(f) => f # g /\ Opened(f)'
  BY <1>4, <1>7 DEF Opened, FeedGenerations, now
<1>13. \A f \in FeedGenerations : f # g => openedWith'[f] = openedWith[f]
  BY <1>4, <1>9
<1>14. GenerationsGoOn
  BY <1>12, <1>13 DEF GenerationsGoOn
<1>15. GenerationsFit'
  <2>0. /\ feedGeneration'.now = g /\ g <= g
        /\ feedGeneration'.readable = feedGeneration.readable \cup {g}
    BY <1>4, <1>7
  <2>1. g \in FeedGenerations /\ g <= feedGeneration'.now
    BY <1>4, <2>0
  <2>2. \A f \in feedGeneration'.readable : Opened(f)'
    <3>1. \A f \in feedGeneration.readable : Opened(f)'
      BY <1>7, <1>12 DEF FeedInv, GenerationsFit
    <3> QED BY <2>0, <2>1, <3>1 DEF Opened
  <2>3. openedWith'[g] = openedWith[now] \cup {new}
    BY <1>4, <1>9
  <2>4. \A f \in FeedGenerations : \A e \in openedWith'[f] : Ready(e)
    BY <1>7, <1>8, <1>13, <2>3 DEF FeedInv, GenerationsFit
  <2>5. \A f \in FeedGenerations : \A e \in openedWith'[f] : Ready(e)'
    BY <2>4, <1>6, ReadyStays
  <2>6. \A f \in FeedGenerations : feed[f] # None => Complete(f, feed[f])'
    <3> SUFFICES ASSUME NEW f \in FeedGenerations, feed[f] # None
                 PROVE  Complete(f, feed[f])'
      OBVIOUS
    <3>1. Complete(f, feed[f])
      BY DEF FeedInv, GenerationsFit
    <3> QED BY <3>1, <1>3, <1>14 DEF Complete, GenerationsGoOn, Opened
  <2>7. \A r \in Listeners :
          loading[r] # None => Complete(loading[r].generation, loading[r].list)'
    <3> SUFFICES ASSUME NEW r \in Listeners, loading[r] # None
                 PROVE  Complete(loading[r].generation, loading[r].list)'
      OBVIOUS
    <3>1. Complete(loading[r].generation, loading[r].list)
      BY DEF FeedInv, GenerationsFit
    <3> QED BY <3>1, <1>3, <1>14 DEF Complete, GenerationsGoOn, Opened
  <2>8. feedGeneration'.now \in feedGeneration'.readable
    BY <1>4
  <2> QED BY <2>2, <2>5, <2>6, <2>7, <2>8, <1>3 DEF GenerationsFit
<1>16. publishing'[h].pc = "idle"
  BY <1>1, <1>2, EpisodesTyped
<1>17. ListsHeldFit'
  BY <1>2, <1>6, <1>14, <1>16, OtherListsStay DEF ListHeldFits
<1>18. FeedShapes'
  BY <1>3, <1>5, <1>10, <1>11 DEF FeedInv, FeedShapes
<1> QED BY <1>5, <1>15, <1>17, <1>18 DEF FeedInv

\* An update of one episode that was made: the rest and the order of ids stay.
LEMMA EpisodeUpdated ==
  ASSUME FeedInv, NEW i \in Made, NEW e \in Episode,
         episode' = [episode EXCEPT ![i] = e],
         e.made, episode[i].published => e.published,
         episode[i].processed => e.processed, episode[i].numbered => e.numbered,
         e.number >= 1, e.numbered => e.number <= EpisodesPerSeason
  PROVE  /\ episode' \in [EpisodeIds -> Episode]
         /\ episode'[i] = e
         /\ \A j \in EpisodeIds : j # i => episode'[j] = episode[j]
         /\ Made' = Made /\ IdsInOrder' /\ EpisodesGrow
         /\ \A j \in EpisodeIds : EpisodeFits(j)'
<1>1. episode \in [EpisodeIds -> Episode] /\ i \in EpisodeIds
  BY DEF FeedInv, FeedShapes, Made
<1>2. episode' \in [EpisodeIds -> Episode]
  BY <1>1
<1>3. episode'[i] = e /\ \A j \in EpisodeIds : j # i => episode'[j] = episode[j]
  BY <1>1
<1>4. Made' = Made
  BY <1>3 DEF Made
<1>5. IdsInOrder'
  BY <1>4 DEF FeedInv, EpisodesFit, IdsInOrder
<1>6. EpisodesGrow
  BY <1>3, <1>4 DEF EpisodesGrow, Listed
<1>7. ASSUME NEW j \in EpisodeIds
      PROVE  EpisodeFits(j)'
  <2>1. CASE j = i
    BY <2>1, <1>3 DEF EpisodeFits
  <2>2. CASE j # i
    BY <2>2, <1>3 DEF FeedInv, EpisodesFit, EpisodeFits
  <2> QED BY <2>1, <2>2
<1> QED BY <1>2, <1>3, <1>4, <1>5, <1>6, <1>7

LEMMA PublishEpisodeKeeps ==
  ASSUME FeedInv, NEW h \in PublishRequests, PublishEpisode(h)
  PROVE  FeedInv'
<1> DEFINE i == publishing[h].id
           e == [episode[i] EXCEPT !.published = TRUE]
           p == [publishing[h] EXCEPT !.pc = "numbering"]
<1>1. publishing[h].pc = "publishing" /\ publishing[h] \in Publishing
  BY EpisodesTyped DEF PublishEpisode
<1>2. /\ i \in Made /\ i \in EpisodeIds /\ ~episode[i].numbered
      /\ episode[i].season = publishing[h].season
      /\ \A k \in PublishRequests : k # h => ~Holds(k, i)
  BY <1>1 DEF FeedInv, PublishingsFit, PublishingFits, Made
<1>3. episode[i] \in Episode /\ episode[i].made /\ episode[i].number >= 1
  BY <1>2, EpisodesTyped DEF FeedInv, EpisodesFit, EpisodeFits, Made
<1>4. /\ e \in Episode /\ e.made /\ e.published /\ ~e.numbered
      /\ e.processed = episode[i].processed /\ e.crossed = episode[i].crossed
      /\ e.season = episode[i].season /\ e.number = episode[i].number
  BY <1>2, <1>3 DEF Episode
<1>5. episode' = [episode EXCEPT ![i] = e]
  BY <1>2, EpisodesTyped DEF PublishEpisode
<1>6. /\ p \in Publishing /\ p.pc = "numbering" /\ p.id = i
      /\ p.season = publishing[h].season /\ p.crossed = publishing[h].crossed
  BY <1>1 DEF Publishing
<1>7. publishing' = [publishing EXCEPT ![h] = p]
  BY EpisodesTyped DEF PublishEpisode
<1>8. UNCHANGED <<feedGeneration, openedWith, feed, loading, outages>>
  BY DEF PublishEpisode
<1> HIDE DEF e, p, i
<1>9. /\ episode' \in [EpisodeIds -> Episode] /\ episode'[i] = e
      /\ \A j \in EpisodeIds : j # i => episode'[j] = episode[j]
      /\ Made' = Made /\ IdsInOrder' /\ EpisodesGrow
      /\ \A j \in EpisodeIds : EpisodeFits(j)'
  BY <1>2, <1>3, <1>4, <1>5, EpisodeUpdated
<1>10. /\ publishing' \in [PublishRequests -> Publishing] /\ publishing'[h] = p
       /\ \A k \in PublishRequests : k # h => publishing'[k] = publishing[k]
  BY <1>6, <1>7, EpisodesTyped
<1>11. FeedShapes'
  BY <1>8, <1>9, <1>10 DEF FeedInv, FeedShapes
<1>12. EpisodesFit'
  BY <1>2, <1>9, <1>11, BoundGoesOn DEF FeedInv, EpisodesFit
<1>13. \A k \in PublishRequests : \A j : Holds(k, j)' <=> Holds(k, j)
  BY <1>1, <1>6, <1>10 DEF Holds, i
<1>14. \A k \in PublishRequests : PublishingFits(k)'
  <2> SUFFICES ASSUME NEW k \in PublishRequests PROVE PublishingFits(k)'
    OBVIOUS
  <2>1. CASE k = h
    BY <2>1, <1>2, <1>4, <1>6, <1>9, <1>10, <1>13 DEF PublishingFits
  <2>2. CASE k # h
    <3>1. PublishingFits(k) /\ publishing'[k] = publishing[k] /\ ~Holds(k, i)
      BY <2>2, <1>2, <1>10 DEF FeedInv, PublishingsFit
    <3>2. publishing[k].pc \in {"publishing", "numbering", "refreshing", "storing", "bumping"} =>
            publishing[k].id \in EpisodeIds /\ publishing[k].id # i
      BY <3>1, <1>2 DEF PublishingFits, Holds, Made
    <3> QED BY <3>1, <3>2, <1>9, <1>13 DEF PublishingFits
  <2> QED BY <2>1, <2>2
<1>15. \A j \in EpisodeIds : Counts(j)' => Counts(j) /\ Position(j)' = Position(j)
  <2> SUFFICES ASSUME NEW j \in EpisodeIds, Counts(j)'
               PROVE  Counts(j) /\ Position(j)' = Position(j)
    OBVIOUS
  <2>1. /\ episode'[j].numbered <=> episode[j].numbered
        /\ episode'[j].crossed = episode[j].crossed
        /\ episode'[j].season = episode[j].season /\ episode'[j].number = episode[j].number
    BY <1>2, <1>4, <1>9
  <2>2. \A k \in PublishRequests : publishing'[k].crossed = publishing[k].crossed
    BY <1>6, <1>10
  <2> QED BY <2>1, <2>2, <1>9, <1>13 DEF Counts, Position
<1>16. PlacesDiffer'
  BY <1>15, PlacesFollow
<1>17. GenerationsFit' /\ GenerationsGoOn
  BY <1>8, <1>9, GenerationsFitStays
<1>18. ListsHeldFit'
  BY <1>6, <1>7, <1>9, <1>10, <1>17, OtherListsStay DEF ListHeldFits
<1> QED BY <1>11, <1>12, <1>14, <1>16, <1>17, <1>18 DEF FeedInv, PublishingsFit

LEMMA NumberEpisodeKeeps ==
  ASSUME FeedInv, NEW h \in PublishRequests, NumberEpisode(h)
  PROVE  FeedInv'
<1> DEFINE i == publishing[h].id
           n == episode[i].number
           s == publishing[h].season
           e == [episode[i] EXCEPT !.season = SeasonOf(s, n), !.number = NumberOf(n),
                                   !.numbered = TRUE, !.crossed = publishing[h].crossed]
           p == [NotPublishing EXCEPT !.pc = "refreshing", !.id = i]
<1>1. publishing[h].pc = "numbering" /\ publishing[h] \in Publishing
  BY EpisodesTyped DEF NumberEpisode
<1>2. /\ i \in Made /\ i \in EpisodeIds /\ ~episode[i].numbered /\ episode[i].published
      /\ episode[i].season = s
      /\ \A k \in PublishRequests : k # h => ~Holds(k, i)
  BY <1>1 DEF FeedInv, PublishingsFit, PublishingFits, Made
<1>3. /\ episode[i] \in Episode /\ episode[i].made /\ n >= 1 /\ n \in Nat /\ s \in Nat
      /\ publishing[h].crossed \in BOOLEAN
  BY <1>1, <1>2, EpisodesTyped
     DEF FeedInv, EpisodesFit, EpisodeFits, Made, Episode, Publishing
<1>4. /\ SeasonOf(s, n) \in Nat /\ NumberOf(n) \in 1..EpisodesPerSeason
      /\ SeasonOf(s, n) * EpisodesPerSeason + NumberOf(n) = s * EpisodesPerSeason + n
  BY <1>3, WrappingKeepsThePlace
<1>5. NumberOf(n) \in Nat /\ NumberOf(n) >= 1 /\ NumberOf(n) <= EpisodesPerSeason
  BY <1>4, FeedAssumption
<1>6. /\ e \in Episode /\ e.made /\ e.published /\ e.numbered
      /\ e.processed = episode[i].processed /\ e.crossed = publishing[h].crossed
      /\ e.season = SeasonOf(s, n) /\ e.number = NumberOf(n)
  BY <1>2, <1>3, <1>4, <1>5 DEF Episode
<1>7. episode' = [episode EXCEPT ![i] = e]
  BY <1>2, EpisodesTyped DEF NumberEpisode
<1>8. p \in Publishing /\ p.pc = "refreshing" /\ p.id = i
  BY <1>2 DEF Publishing, NotPublishing
<1>9. publishing' = [publishing EXCEPT ![h] = p]
  BY EpisodesTyped DEF NumberEpisode
<1>10. UNCHANGED <<feedGeneration, openedWith, feed, loading, outages>>
  BY DEF NumberEpisode
<1>11. Position(i) = s * EpisodesPerSeason + n
  BY <1>2 DEF Position
<1> HIDE DEF e, p, i, n, s
<1>12. /\ episode' \in [EpisodeIds -> Episode] /\ episode'[i] = e
       /\ \A j \in EpisodeIds : j # i => episode'[j] = episode[j]
       /\ Made' = Made /\ IdsInOrder' /\ EpisodesGrow
       /\ \A j \in EpisodeIds : EpisodeFits(j)'
  <2>1. e.number >= 1 /\ e.number <= EpisodesPerSeason
    BY <1>5, <1>6
  <2> QED BY <2>1, <1>2, <1>3, <1>6, <1>7, EpisodeUpdated
<1>13. /\ publishing' \in [PublishRequests -> Publishing] /\ publishing'[h] = p
       /\ \A k \in PublishRequests : k # h => publishing'[k] = publishing[k]
  BY <1>8, <1>9, EpisodesTyped
<1>14. FeedShapes'
  BY <1>10, <1>12, <1>13 DEF FeedInv, FeedShapes
<1>15. EpisodesFit'
  BY <1>2, <1>12, <1>14, BoundGoesOn DEF FeedInv, EpisodesFit
<1>16. \A k \in PublishRequests : \A j : Holds(k, j)' => k # h /\ Holds(k, j)
  BY <1>8, <1>13 DEF Holds
<1>17. \A k \in PublishRequests : PublishingFits(k)'
  <2> SUFFICES ASSUME NEW k \in PublishRequests PROVE PublishingFits(k)'
    OBVIOUS
  <2>1. CASE k = h
    BY <2>1, <1>2, <1>6, <1>8, <1>12, <1>13 DEF PublishingFits
  <2>2. CASE k # h
    <3>1. PublishingFits(k) /\ publishing'[k] = publishing[k] /\ ~Holds(k, i)
      BY <2>2, <1>2, <1>13 DEF FeedInv, PublishingsFit
    <3>2. publishing[k].pc \in {"publishing", "numbering", "refreshing", "storing", "bumping"} =>
            publishing[k].id \in EpisodeIds /\ publishing[k].id # i
      BY <3>1, <1>2 DEF PublishingFits, Holds, Made
    <3> QED BY <3>1, <3>2, <1>12, <1>16 DEF PublishingFits
  <2> QED BY <2>1, <2>2
<1>18. \A j \in EpisodeIds : Counts(j)' => Counts(j) /\ Position(j)' = Position(j)
  <2> SUFFICES ASSUME NEW j \in EpisodeIds, Counts(j)'
               PROVE  Counts(j) /\ Position(j)' = Position(j)
    OBVIOUS
  <2>1. CASE j = i
    <3>1. ~publishing[h].crossed
      BY <2>1, <1>2, <1>6, <1>12, <1>16 DEF Counts
    <3>2. Holds(h, i)
      BY <1>1 DEF Holds, i
    <3>3. Counts(j)
      BY <2>1, <3>1, <3>2, <1>2 DEF Counts
    <3>4. Position(j)' = SeasonOf(s, n) * EpisodesPerSeason + NumberOf(n)
      BY <2>1, <1>6, <1>12 DEF Position
    <3>5. Position(j) = s * EpisodesPerSeason + n
      BY <2>1, <1>11
    <3> QED BY <3>3, <3>4, <3>5, <1>4
  <2>2. CASE j # i
    <3>1. episode'[j] = episode[j]
      BY <2>2, <1>12
    <3> QED BY <3>1, <1>12, <1>13, <1>16 DEF Counts, Position
  <2> QED BY <2>1, <2>2
<1>19. PlacesDiffer'
  BY <1>18, PlacesFollow
<1>20. GenerationsFit' /\ GenerationsGoOn
  BY <1>10, <1>12, GenerationsFitStays
<1>21. ListsHeldFit'
  BY <1>8, <1>9, <1>12, <1>13, <1>20, OtherListsStay DEF ListHeldFits
<1> QED BY <1>14, <1>15, <1>17, <1>19, <1>20, <1>21 DEF FeedInv, PublishingsFit

LEMMA PostEpisodeKeeps ==
  ASSUME FeedInv, NEW h \in PublishRequests, PostEpisode(h)
  PROVE  FeedInv'
<1> DEFINE s == publishing[h].season
           i == 1 + Cardinality(Made)
           e == [NoEpisode EXCEPT !.made = TRUE, !.season = s, !.number = NextNumber(s)]
           Passed(k) == publishing[k].pc \in {"publishing", "numbering"}
                        /\ publishing[k].season < s
           Answered == publishing' = [k \in PublishRequests |->
             IF k = h
             THEN [publishing[k] EXCEPT !.pc = "publishing", !.id = i,
                                        !.crossed = s < CurrentSeason]
             ELSE [publishing[k] EXCEPT !.crossed = @ \/ Passed(k)]]
<1>1. publishing[h].pc = "creating" /\ publishing[h] \in Publishing /\ s \in Nat
  BY EpisodesTyped DEF PostEpisode, Publishing
<1>2. i \in EpisodeIds /\ episode' = [episode EXCEPT ![i] = e]
  BY DEF PostEpisode
<1>3. Answered \/ UNCHANGED publishing
  BY DEF PostEpisode
<1>4. outages' \in 0..MaxOutages
  <2>1. Outage \/ UNCHANGED outages
    BY DEF PostEpisode
  <2> QED BY <2>1, FeedAssumption DEF Outage, FeedInv, FeedShapes
<1>5. UNCHANGED <<feedGeneration, openedWith, feed, loading>>
  BY DEF PostEpisode
<1>6. PICK m \in 0..MaxEpisodes : Made = 1..m
  BY DEF FeedInv, EpisodesFit, IdsInOrder
<1>7. m \in Nat /\ i = m + 1
  <2>1. m \in Nat
    BY <1>6, FeedAssumption
  <2>2. Cardinality(1..m) = IF 1 > m THEN 0 ELSE m - 1 + 1
    BY <2>1, FS_Interval
  <2> QED BY <2>1, <2>2, <1>6
<1>8. i \notin Made
  BY <1>6, <1>7
<1>9. NextNumber(s) \in Nat /\ NextNumber(s) >= 1
  BY NumberIsTheNext
<1>10. /\ e \in Episode /\ e.made /\ ~e.numbered /\ ~e.published /\ ~e.processed
       /\ e.season = s /\ e.number = NextNumber(s)
  BY <1>1, <1>9 DEF Episode, NoEpisode
<1>11. \A k \in PublishRequests :
         /\ k # h => /\ publishing'[k].pc = publishing[k].pc
                     /\ publishing'[k].id = publishing[k].id
                     /\ publishing'[k].season = publishing[k].season
                     /\ publishing'[k].generation = publishing[k].generation
                     /\ publishing'[k].list = publishing[k].list
                     /\ ~publishing'[k].crossed => ~publishing[k].crossed
         /\ Answered /\ k # h /\ ~publishing'[k].crossed => ~Passed(k)
         /\ publishing'[k] \in Publishing
  <2> SUFFICES ASSUME NEW k \in PublishRequests
               PROVE  /\ k # h => /\ publishing'[k].pc = publishing[k].pc
                                  /\ publishing'[k].id = publishing[k].id
                                  /\ publishing'[k].season = publishing[k].season
                                  /\ publishing'[k].generation = publishing[k].generation
                                  /\ publishing'[k].list = publishing[k].list
                                  /\ ~publishing'[k].crossed => ~publishing[k].crossed
                      /\ Answered /\ k # h /\ ~publishing'[k].crossed => ~Passed(k)
                      /\ publishing'[k] \in Publishing
    OBVIOUS
  <2>0. publishing[k] \in Publishing
    BY EpisodesTyped
  <2>1. CASE Answered
    <3>1. CASE k = h
      <4>1. publishing'[k] = [publishing[k] EXCEPT !.pc = "publishing", !.id = i,
                                                   !.crossed = s < CurrentSeason]
        BY <2>1, <3>1
      <4>2. (s < CurrentSeason) \in BOOLEAN
        OBVIOUS
      <4> HIDE DEF Answered, i, s
      <4> QED BY <3>1, <4>1, <4>2, <2>0, <1>2 DEF Publishing
    <3>2. CASE k # h
      <4>1. publishing'[k] = [publishing[k] EXCEPT !.crossed = @ \/ Passed(k)]
        BY <2>1, <3>2
      <4>2. Passed(k) \in BOOLEAN
        OBVIOUS
      <4> HIDE DEF Answered, Passed
      <4> QED BY <3>2, <4>1, <4>2, <2>0 DEF Publishing
    <3> QED BY <3>1, <3>2
  <2>2. CASE UNCHANGED publishing /\ ~Answered
    <3> HIDE DEF Answered, Passed
    <3> QED BY <2>2, <2>0
  <2> QED BY <1>3, <2>1, <2>2
<1>12. Answered => /\ publishing'[h].pc = "publishing" /\ publishing'[h].id = i
                   /\ publishing'[h].season = s
                   /\ ~publishing'[h].crossed => ~(s < CurrentSeason)
  <2> SUFFICES ASSUME Answered
               PROVE  /\ publishing'[h].pc = "publishing" /\ publishing'[h].id = i
                      /\ publishing'[h].season = s
                      /\ ~publishing'[h].crossed => ~(s < CurrentSeason)
    OBVIOUS
  <2>1. publishing'[h] = [publishing[h] EXCEPT !.pc = "publishing", !.id = i,
                                               !.crossed = s < CurrentSeason]
    OBVIOUS
  <2> HIDE DEF Answered, i
  <2> QED BY <2>1, <1>1 DEF Publishing
<1>13. publishing' \in [PublishRequests -> Publishing]
  <2>1. Answered => publishing' = [k \in PublishRequests |-> publishing'[k]]
    OBVIOUS
  <2> HIDE DEF Answered
  <2> QED BY <2>1, <1>3, <1>11, EpisodesTyped
<1>14. UNCHANGED publishing \/ (Answered /\ publishing'[h].pc = "publishing")
  BY <1>3, <1>12
<1> HIDE DEF Answered, Passed, e, i, s
<1>15. /\ episode' \in [EpisodeIds -> Episode] /\ episode'[i] = e
       /\ \A j \in EpisodeIds : j # i => episode'[j] = episode[j]
  BY <1>2, <1>10, EpisodesTyped
<1>16. Made' = 1..i
  <2>1. Made' = Made \cup {i}
    BY <1>2, <1>10, <1>15 DEF Made
  <2> QED BY <2>1, <1>6, <1>7
<1>17. Made \subseteq Made'
  BY <1>6, <1>7, <1>16
<1>18. FeedShapes'
  BY <1>4, <1>5, <1>13, <1>15 DEF FeedInv, FeedShapes
<1>19. EpisodesFit'
  <2>1. IdsInOrder'
    <3>1. i \in 0..MaxEpisodes
      BY <1>2 DEF EpisodeIds
    <3> QED BY <3>1, <1>16 DEF IdsInOrder
  <2>2. NumbersBounded'
    BY <1>2, <1>15, <1>18, BoundGoesOn DEF FeedInv, EpisodesFit
  <2>3. \A j \in EpisodeIds : EpisodeFits(j)'
    BY <1>9, <1>10, <1>15 DEF FeedInv, EpisodesFit, EpisodeFits
  <2> QED BY <2>1, <2>2, <2>3 DEF EpisodesFit
<1>20. EpisodesGrow
  <2>1. \A j \in EpisodeIds : j \in Made => j # i /\ episode'[j] = episode[j]
    BY <1>8, <1>15
  <2>2. ~episode[i].numbered
    BY <1>2, <1>8 DEF FeedInv, EpisodesFit, EpisodeFits, Made, NoEpisode
  <2>3. \A j \in EpisodeIds : episode[j].numbered => episode'[j].numbered
    BY <2>2, <1>15
  <2> QED BY <2>1, <2>3, <1>17 DEF EpisodesGrow, Listed
<1>21. \A k \in PublishRequests : \A j \in Made : Holds(k, j)' <=> Holds(k, j)
  <2> SUFFICES ASSUME NEW k \in PublishRequests, NEW j \in Made
               PROVE  Holds(k, j)' <=> Holds(k, j)
    OBVIOUS
  <2>1. CASE k # h
    BY <2>1, <1>11 DEF Holds
  <2>2. CASE k = h
    BY <2>2, <1>1, <1>3, <1>8, <1>12 DEF Holds
  <2> QED BY <2>1, <2>2
<1>22. \A k \in PublishRequests : publishing'[k].pc \in {"publishing", "numbering"} /\ k # h =>
         publishing'[k].id \in Made /\ publishing'[k].id # i
  BY <1>8, <1>11 DEF FeedInv, PublishingsFit, PublishingFits
<1>23. \A k \in PublishRequests : PublishingFits(k)'
  <2> SUFFICES ASSUME NEW k \in PublishRequests PROVE PublishingFits(k)'
    OBVIOUS
  <2>1. CASE k = h
    <3>1. CASE Answered
      <4>1. \A l \in PublishRequests : l # h => ~(publishing'[l].pc \in {"publishing", "numbering"}
                                                  /\ publishing'[l].id = i)
        BY <1>22
      <4>2. i \in Made'
        BY <1>7, <1>16
      <4> QED BY <2>1, <3>1, <4>1, <4>2, <1>10, <1>12, <1>15 DEF PublishingFits, Holds
    <3>2. CASE UNCHANGED publishing
      BY <2>1, <3>2, <1>1 DEF PublishingFits
    <3> QED BY <3>1, <3>2, <1>3
  <2>2. CASE k # h
    <3>1. PublishingFits(k)
      BY DEF FeedInv, PublishingsFit
    <3>2. publishing[k].pc \in {"publishing", "numbering", "refreshing", "storing", "bumping"} =>
            /\ publishing[k].id \in Made /\ publishing[k].id \in Made'
            /\ episode'[publishing[k].id] = episode[publishing[k].id]
      BY <3>1, <1>8, <1>15, <1>17 DEF PublishingFits, Made
    <3>3. publishing'[k].pc \in {"publishing", "numbering"} =>
            \A l \in PublishRequests : l # k => ~Holds(l, publishing[k].id)'
      BY <2>2, <3>1, <3>2, <1>11, <1>21 DEF PublishingFits, Holds
    <3> QED BY <2>2, <3>1, <3>2, <3>3, <1>11 DEF PublishingFits, Holds
  <2> QED BY <2>1, <2>2
<1>24. GenerationsFit' /\ GenerationsGoOn
  BY <1>5, <1>20, GenerationsFitStays
<1>25. \A k \in PublishRequests : ListHeldFits(k)'
  <2> SUFFICES ASSUME NEW k \in PublishRequests PROVE ListHeldFits(k)'
    OBVIOUS
  <2>1. CASE k = h
    BY <2>1, <1>1, <1>14 DEF ListHeldFits
  <2>2. CASE k # h
    BY <2>2, <1>11, <1>20, <1>24, HeldListStays DEF FeedInv, ListsHeldFit
  <2> QED BY <2>1, <2>2
<1>26. PlacesDiffer'
  <2>1. \A j \in Made : Counts(j)' => Counts(j) /\ Position(j)' = Position(j)
    <3> SUFFICES ASSUME NEW j \in Made, Counts(j)'
                 PROVE  Counts(j) /\ Position(j)' = Position(j)
      OBVIOUS
    <3>1. episode'[j] = episode[j]
      BY <1>8, <1>15 DEF Made
    <3>2. \A k \in PublishRequests : Holds(k, j) => k # h
      BY <1>1 DEF Holds
    <3> QED BY <3>1, <3>2, <1>11, <1>21 DEF Counts, Position
  <2>2. ASSUME NEW j \in Made, NEW l \in EpisodeIds, l = i, Counts(j)', Counts(l)'
        PROVE  Position(j)' # Position(l)'
    <3>1. PICK k \in PublishRequests : Holds(k, l)' /\ ~publishing'[k].crossed
      BY <2>2, <1>10, <1>15 DEF Counts
    <3>2. k = h /\ Answered
      <4>1. k = h
        BY <3>1, <2>2, <1>22 DEF Holds
      <4> QED BY <4>1, <3>1, <1>1, <1>3 DEF Holds
    <3>3. ~(s < CurrentSeason)
      BY <3>1, <3>2, <1>12
    <3>4. /\ episode'[j] = episode[j] /\ episode[j].season \in Nat
          /\ episode[j].number \in Nat /\ episode[j].season <= CurrentSeason
      BY <1>8, <1>15, EpisodesTyped, SeasonIsTheLast DEF Made, Episode
    <3>5. episode[j].season <= s
      BY <3>3, <3>4, <1>1, SeasonIsTheLast
    <3>6. Position(j)' = episode[j].season * EpisodesPerSeason + episode[j].number
      BY <3>4 DEF Position
    <3>7. Position(l)' = s * EpisodesPerSeason + NextNumber(s)
      BY <2>2, <1>10, <1>15 DEF Position
    <3>8. CASE episode[j].season = s
      <4>1. episode[j].number < NextNumber(s)
        BY <3>8, NumberIsTheNext
      <4>2. s * EpisodesPerSeason \in Nat
        BY <1>1, FeedAssumption
      <4> QED BY <4>1, <4>2, <3>4, <3>6, <3>7, <3>8, <1>9
    <3>9. CASE episode[j].season # s
      <4>1. episode[j].season < s
        BY <3>4, <3>5, <3>9, <1>1
      <4>2. episode[j].numbered
        <5> SUFFICES ASSUME ~episode[j].numbered PROVE FALSE
          OBVIOUS
        <5>1. PICK o \in PublishRequests : Holds(o, j)' /\ ~publishing'[o].crossed
          BY <2>2, <3>4 DEF Counts
        <5>2. Holds(o, j) /\ o # h
          BY <5>1, <1>1, <1>21 DEF Holds
        <5>3. publishing[o].season = episode[j].season
          BY <5>2 DEF Holds, FeedInv, PublishingsFit, PublishingFits
        <5>4. Passed(o)
          BY <5>2, <5>3, <4>1 DEF Holds, Passed
        <5> QED BY <5>1, <5>2, <5>4, <3>2, <1>11
      <4>3. episode[j].number <= EpisodesPerSeason
        BY <4>2 DEF FeedInv, EpisodesFit, EpisodeFits, Made
      <4>4. episode[j].season * EpisodesPerSeason + episode[j].number
              < s * EpisodesPerSeason + NextNumber(s)
        BY <4>1, <4>3, <3>4, <1>1, <1>9, SeasonsFollow
      <4>5. /\ episode[j].season * EpisodesPerSeason \in Nat
            /\ s * EpisodesPerSeason \in Nat
        BY <3>4, <1>1, FeedAssumption
      <4> QED BY <4>4, <4>5, <3>4, <3>6, <3>7, <1>9
    <3> QED BY <3>8, <3>9
  <2>3. \A j \in EpisodeIds : Counts(j)' => j \in Made \/ j = i
    BY <1>6, <1>7, <1>16 DEF Counts
  <2> SUFFICES ASSUME NEW j \in EpisodeIds, NEW l \in EpisodeIds, j # l,
                      Counts(j)', Counts(l)'
               PROVE  Position(j)' # Position(l)'
    BY DEF PlacesDiffer
  <2>4. CASE j \in Made /\ l \in Made
    BY <2>1, <2>4 DEF FeedInv, PlacesDiffer
  <2>5. CASE j \in Made /\ l = i
    BY <2>2, <2>5
  <2>6. CASE j = i /\ l \in Made
    BY <2>2, <2>6
  <2> QED BY <2>3, <2>4, <2>5, <2>6
<1> QED
  BY <1>18, <1>19, <1>23, <1>24, <1>25, <1>26 DEF FeedInv, PublishingsFit, ListsHeldFit

-----------------------------------------------------------------------------
(* The episodes and their list: Transistor, the edges and other requests.  *)

LEMMA AudioProcessedKeeps ==
  ASSUME FeedInv, NEW i \in EpisodeIds, AudioProcessed(i)
  PROVE  FeedInv'
<1> DEFINE e == [episode[i] EXCEPT !.processed = TRUE]
<1>1. i \in Made /\ episode[i] \in Episode
  <2>1. episode[i].published
    BY DEF AudioProcessed
  <2>2. episode[i].made
    BY <2>1 DEF FeedInv, EpisodesFit, EpisodeFits, NoEpisode
  <2> QED BY <2>2, EpisodesTyped DEF Made
<1>2. /\ e \in Episode /\ e.made = episode[i].made /\ e.published = episode[i].published
      /\ e.processed /\ e.numbered = episode[i].numbered /\ e.crossed = episode[i].crossed
      /\ e.season = episode[i].season /\ e.number = episode[i].number
  BY <1>1 DEF Episode
<1>3. episode' = [episode EXCEPT ![i] = e]
  BY EpisodesTyped DEF AudioProcessed
<1>4. UNCHANGED <<publishing, feedGeneration, openedWith, feed, loading, outages>>
  BY DEF AudioProcessed
<1>5. episode[i].made /\ episode[i].number >= 1
      /\ (episode[i].numbered => episode[i].number <= EpisodesPerSeason)
  BY <1>1 DEF FeedInv, EpisodesFit, EpisodeFits, Made
<1> HIDE DEF e
<1>6. /\ episode' \in [EpisodeIds -> Episode] /\ episode'[i] = e
      /\ \A j \in EpisodeIds : j # i => episode'[j] = episode[j]
      /\ Made' = Made /\ IdsInOrder' /\ EpisodesGrow
      /\ \A j \in EpisodeIds : EpisodeFits(j)'
  <2>1. /\ e.made /\ (episode[i].published => e.published) /\ e.processed
        /\ (episode[i].numbered => e.numbered) /\ e.number >= 1
        /\ (e.numbered => e.number <= EpisodesPerSeason)
    BY <1>2, <1>5
  <2> QED BY <2>1, <1>1, <1>2, <1>3, EpisodeUpdated
<1>7. FeedShapes'
  BY <1>4, <1>6 DEF FeedInv, FeedShapes
<1>8. EpisodesFit'
  BY <1>6, <1>7, BoundGoesOn DEF FeedInv, EpisodesFit
<1>9. \A j \in EpisodeIds :
        /\ episode'[j].published = episode[j].published
        /\ episode'[j].numbered = episode[j].numbered
        /\ episode'[j].crossed = episode[j].crossed
        /\ episode'[j].season = episode[j].season /\ episode'[j].number = episode[j].number
  BY <1>2, <1>6
<1>10. PublishingsFit'
  <2> SUFFICES ASSUME NEW k \in PublishRequests PROVE PublishingFits(k)'
    BY DEF PublishingsFit
  <2>1. PublishingFits(k)
    BY DEF FeedInv, PublishingsFit
  <2>2. \A j \in Made : j \in EpisodeIds
    BY DEF Made
  <2> QED BY <2>1, <2>2, <1>4, <1>6, <1>9 DEF PublishingFits, Holds
<1>11. \A j \in EpisodeIds : Counts(j)' => Counts(j) /\ Position(j)' = Position(j)
  BY <1>4, <1>6, <1>9 DEF Counts, Position, Holds
<1>12. PlacesDiffer'
  BY <1>11, PlacesFollow
<1>13. GenerationsFit' /\ GenerationsGoOn
  BY <1>4, <1>6, GenerationsFitStays
<1>14. ListsHeldFit'
  <2> SUFFICES ASSUME NEW k \in PublishRequests PROVE ListHeldFits(k)'
    BY DEF ListsHeldFit
  <2>1. ListHeldFits(k)
    BY DEF FeedInv, ListsHeldFit
  <2> QED BY <2>1, <1>4, <1>6, <1>13, HeldListStays
<1> QED BY <1>7, <1>8, <1>10, <1>12, <1>13, <1>14 DEF FeedInv

\* The lists that requests hold, in steps of others.
LEMMA HeldListsStay ==
  ASSUME FeedInv, UNCHANGED <<episode, publishing>>, GenerationsGoOn
  PROVE  ListsHeldFit'
<1>1. EpisodesGrow
  BY EpisodesStayThere
<1> SUFFICES ASSUME NEW k \in PublishRequests PROVE ListHeldFits(k)'
  BY DEF ListsHeldFit
<1>2. ListHeldFits(k)
  BY DEF FeedInv, ListsHeldFit
<1> QED BY <1>1, <1>2, HeldListStays

LEMMA FeedGenerationPropagatesKeeps ==
  ASSUME FeedInv, FeedGenerationPropagates
  PROVE  FeedInv'
<1> DEFINE now == feedGeneration.now
<1>1. UNCHANGED <<episode, publishing, openedWith, feed, loading, outages>>
  BY DEF FeedGenerationPropagates
<1>2. feedGeneration \in [now : FeedGenerations, readable : SUBSET FeedGenerations]
  BY DEF FeedInv, FeedShapes
<1>3. /\ feedGeneration' \in [now : FeedGenerations, readable : SUBSET FeedGenerations]
      /\ feedGeneration'.now = now /\ feedGeneration'.readable = {now}
  BY <1>2 DEF FeedGenerationPropagates
<1>4. EpisodesFit' /\ PublishingsFit' /\ PlacesDiffer'
  BY <1>1, PublishingsStay
<1>5. \A g \in FeedGenerations : Opened(g)' <=> Opened(g)
  BY <1>3 DEF Opened
<1>6. GenerationsGoOn
  BY <1>1, <1>5 DEF GenerationsGoOn
<1>7. ListsHeldFit'
  BY <1>1, <1>6, HeldListsStay
<1>8. Opened(now)
  BY DEF FeedInv, GenerationsFit
<1>9. GenerationsFit'
  <2>1. \A g \in feedGeneration'.readable : Opened(g)'
    BY <1>3, <1>8 DEF Opened
  <2>2. \A g \in FeedGenerations : \A d \in openedWith[g] : Ready(d)'
    BY <1>1 DEF FeedInv, GenerationsFit, Ready, Listed, Made
  <2>3. \A g \in FeedGenerations : feed[g] # None => Complete(g, feed[g])'
    BY <1>1, <1>5 DEF FeedInv, GenerationsFit, Complete
  <2>4. \A r \in Listeners :
          loading[r] # None => Complete(loading[r].generation, loading[r].list)'
    BY <1>1, <1>3 DEF FeedInv, GenerationsFit, Complete, Opened
  <2> QED BY <2>1, <2>2, <2>3, <2>4, <1>1, <1>3 DEF GenerationsFit
<1>10. FeedShapes'
  BY <1>1, <1>3 DEF FeedInv, FeedShapes
<1> QED BY <1>4, <1>7, <1>9, <1>10 DEF FeedInv

LEMMA LoadFeedKeeps ==
  ASSUME FeedInv, NEW r \in Listeners, LoadFeed(r)
  PROVE  FeedInv'
<1>1. UNCHANGED <<episode, publishing, feedGeneration, openedWith, feed, outages>>
  BY DEF LoadFeed
<1>2. PICK g \in feedGeneration.readable :
        loading' = [loading EXCEPT ![r] = [generation |-> g, list |-> ListedEpisodes]]
  BY DEF LoadFeed
<1>3. Complete(g, ListedEpisodes) /\ g \in FeedGenerations
  BY ListedIsComplete DEF FeedInv, Complete, Opened
<1>4. ListedEpisodes \in SUBSET Entries
  BY ListedAreEntries DEF FeedInv
<1> DEFINE Loads == [generation : FeedGenerations, list : SUBSET Entries]
<1>5. loading \in [Listeners -> Loads \cup {None}]
  BY DEF FeedInv, FeedShapes
<1> DEFINE new == [generation |-> g, list |-> ListedEpisodes]
<1>6. new \in Loads /\ new.generation = g /\ new.list = ListedEpisodes
  BY <1>3, <1>4
<1>7. loading' \in [Listeners -> Loads \cup {None}]
  <2> HIDE DEF Loads
  <2> QED BY <1>2, <1>5, <1>6
<1>8. \A q \in Listeners : loading'[q] = IF q = r THEN new ELSE loading[q]
  BY <1>2, <1>5
<1>9. EpisodesFit' /\ PublishingsFit' /\ PlacesDiffer'
  BY <1>1, PublishingsStay
<1>10. GenerationsGoOn
  BY <1>1, GenerationsStayThere
<1>11. ListsHeldFit'
  BY <1>1, <1>10, HeldListsStay
<1> HIDE DEF new
<1>12. GenerationsFit'
  <2>1. \A q \in Listeners :
          loading'[q] # None => Complete(loading'[q].generation, loading'[q].list)
    BY <1>3, <1>6, <1>8 DEF FeedInv, GenerationsFit
  <2> QED BY <2>1, <1>1 DEF FeedInv, GenerationsFit, Complete, Opened, Ready, Listed, Made
<1>13. FeedShapes'
  BY <1>1, <1>7 DEF FeedInv, FeedShapes
<1> QED BY <1>9, <1>11, <1>12, <1>13 DEF FeedInv

LEMMA StoreFeedKeeps ==
  ASSUME FeedInv, NEW r \in Listeners, StoreFeed(r)
  PROVE  FeedInv'
<1> DEFINE Loads == [generation : FeedGenerations, list : SUBSET Entries]
           g == loading[r].generation
           list == loading[r].list
<1>1. UNCHANGED <<episode, publishing, feedGeneration, openedWith, outages>>
  BY DEF StoreFeed
<1>2. loading \in [Listeners -> Loads \cup {None}] /\ loading[r] # None
  BY DEF FeedInv, FeedShapes, StoreFeed
<1>3. Complete(g, list)
  BY <1>2 DEF FeedInv, GenerationsFit
<1>4. g \in FeedGenerations /\ list \in SUBSET Entries
  <2>1. loading[r] \in Loads
    BY <1>2
  <2> QED BY <2>1
<1>5. feed' = [feed EXCEPT ![g] = list] /\ loading' = [loading EXCEPT ![r] = None]
  BY DEF StoreFeed
<1>6. feed \in [FeedGenerations -> (SUBSET Entries) \cup {None}]
  BY DEF FeedInv, FeedShapes
<1> HIDE DEF g, list, Loads
<1>7. feed' \in [FeedGenerations -> (SUBSET Entries) \cup {None}]
  BY <1>4, <1>5, <1>6
<1>8. loading' \in [Listeners -> Loads \cup {None}]
  BY <1>2, <1>5
<1>9. EpisodesFit' /\ PublishingsFit' /\ PlacesDiffer'
  BY <1>1, PublishingsStay
<1>10. GenerationsGoOn
  BY <1>1, GenerationsStayThere
<1>11. ListsHeldFit'
  BY <1>1, <1>10, HeldListsStay
<1>12. GenerationsFit'
  <2>1. \A f \in FeedGenerations : feed'[f] = IF f = g THEN list ELSE feed[f]
    BY <1>5, <1>6
  <2>2. \A f \in FeedGenerations : feed'[f] # None => Complete(f, feed'[f])
    BY <2>1, <1>3 DEF FeedInv, GenerationsFit
  <2>3. \A q \in Listeners : loading'[q] # None => loading'[q] = loading[q]
    BY <1>2, <1>5
  <2>4. \A q \in Listeners :
          loading'[q] # None => Complete(loading'[q].generation, loading'[q].list)
    BY <2>3 DEF FeedInv, GenerationsFit
  <2> QED BY <2>2, <2>4, <1>1
          DEF FeedInv, GenerationsFit, Complete, Opened, Ready, Listed, Made
<1>13. FeedShapes'
  BY <1>1, <1>7, <1>8 DEF FeedInv, FeedShapes, Loads
<1> QED BY <1>9, <1>11, <1>12, <1>13 DEF FeedInv

-----------------------------------------------------------------------------
(* The episodes and their list: every step, and the theorems.              *)

LEMMA FeedStepInv == FeedInv /\ [FeedNext]_feedVars => FeedInv'
<1> SUFFICES ASSUME FeedInv, [FeedNext]_feedVars PROVE FeedInv'
  OBVIOUS
<1>1. CASE \E h \in PublishRequests : PublisherStep(h)
  <2>1. PICK h \in PublishRequests : PublisherStep(h)
    BY <1>1
  <2> QED
    BY <2>1, BeginPublishingKeeps, PostEpisodeKeeps, PublishEpisodeKeeps,
       NumberEpisodeKeeps, PublishingFailsKeeps, RefreshLoadsKeeps,
       RefreshStoresKeeps, GiveUpRefreshingKeeps, BumpFeedGenerationKeeps
       DEF PublisherStep
<1>2. CASE \E i \in EpisodeIds : AudioProcessed(i)
  BY <1>2, AudioProcessedKeeps
<1>3. CASE FeedGenerationPropagates
  BY <1>3, FeedGenerationPropagatesKeeps
<1>4. CASE \E r \in Listeners : LoadFeed(r) \/ StoreFeed(r)
  BY <1>4, LoadFeedKeeps, StoreFeedKeeps
<1>5. CASE UNCHANGED feedVars
  <2>1. UNCHANGED <<episode, publishing, feedGeneration, openedWith, feed, loading, outages>>
    BY <1>5 DEF feedVars
  <2>2. EpisodesFit' /\ PublishingsFit' /\ PlacesDiffer'
    BY <2>1, PublishingsStay
  <2>3. EpisodesGrow /\ GenerationsFit' /\ GenerationsGoOn
    BY <2>1, EpisodesStayThere, GenerationsFitStays
  <2>4. ListsHeldFit'
    BY <2>1, <2>3, HeldListsStay
  <2>5. FeedShapes'
    BY <2>1 DEF FeedInv, FeedShapes
  <2> QED BY <2>2, <2>3, <2>4, <2>5 DEF FeedInv
<1> QED BY <1>1, <1>2, <1>3, <1>4, <1>5 DEF FeedNext

LEMMA FeedInvAlways == FeedSpec => []FeedInv
BY FeedInitInv, FeedStepInv, PTL DEF FeedSpec

\* For any number of requests, episodes and generations: every variable of the
\* episodes and their list holds a value of its kind, and the numbers that were
\* given fit the season.
THEOREM FeedTyped == FeedSpec => []FeedTypeOK
BY FeedInvAlways, FeedInvTyped, PTL

\* No two episodes get one path, and no season more than its number, however the
\* requests that create, publish and number episodes overlap, fail or create one
\* twice; except for those that were crossed, by a season that was over when they
\* were created or by the next one that began before they had their number.
THEOREM NumbersDiffer == FeedSpec => []NumbersAreDistinct
BY FeedInvAlways, FeedInvDistinct, PTL

\* The list under a generation never lacks an episode that was ready when the
\* generation was opened, whichever load is stored, and however late.
THEOREM ListsAreComplete == FeedSpec => []ListsFitTheirGeneration
BY FeedInvAlways, FeedInvLists, PTL

-----------------------------------------------------------------------------
(* The three caches together, as they are checked.                         *)

\* A behaviour of all of them is, for each part, one of that part.
LEMMA CachesAreTheirOwn == PartsSpec => Spec /\ FeedSpec /\ MediaSpec
<1>1. PartsInit => Init /\ FeedInit /\ MediaInit
  BY DEF PartsInit
<1>2. [PartsNext]_<<part, vars, feedVars, mediaVars>> =>
        [Next]_vars /\ [FeedNext]_feedVars /\ [MediaNext]_mediaVars
  BY DEF PartsNext
<1> QED BY <1>1, <1>2, PTL DEF PartsSpec, Spec, FeedSpec, MediaSpec

\* Every variable of the part that does not rest holds a value of its kind.
THEOREM CachesTyped == PartsSpec => []CachesTypeOK
<1> DEFINE OneOfThem == part \in {"pages", "episodes", "media"}
<1>1. PartsInit => OneOfThem
  BY DEF PartsInit
<1>2. OneOfThem /\ [PartsNext]_<<part, vars, feedVars, mediaVars>> => OneOfThem'
  BY DEF PartsNext
<1>3. OneOfThem /\ TypeOK /\ FeedTypeOK /\ MediaTypeOK => CachesTypeOK
  <2> SUFFICES ASSUME OneOfThem, TypeOK, FeedTypeOK, MediaTypeOK
               PROVE  CachesTypeOK
    OBVIOUS
  <2>1. CASE part = "pages"
    BY <2>1 DEF CachesTypeOK
  <2>2. CASE part = "episodes"
    BY <2>2 DEF CachesTypeOK
  <2>3. CASE part = "media"
    BY <2>3 DEF CachesTypeOK
  <2> QED BY <2>1, <2>2, <2>3
<1> HIDE DEF OneOfThem
<1> QED BY <1>1, <1>2, <1>3, CachesAreTheirOwn, PageCacheTypeCorrect, FeedTyped, MediaTyped,
           PTL DEF PartsSpec
=============================================================================
