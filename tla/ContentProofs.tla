----------------------------- MODULE ContentProofs ----------------------------
(***************************************************************************)
(* The content of the site, for any versions, isolates, requests, commits, *)
(* documents and workflow runs: the artifacts that are published and       *)
(* served, the jobs that index the content, the synchronisation of the     *)
(* search index with its artifacts, the deployments and content refreshes  *)
(* that make a push live, the compilation of articles, and the watcher of  *)
(* local development; at the end, all of them as they are checked.         *)
(***************************************************************************)
EXTENDS MCContent, TLAPS

-----------------------------------------------------------------------------
(* The inductive invariant of the artifacts.                               *)

\* What was compiled for a version.
MadeFor(v) == {x \in Payloads : x.version = v}

\* The versions that R2 has: none is ever removed.
Loadable == {v \in Versions : r2[v] # None}
Warm == {v \in Versions : app[v] # None}

\* A version without the document was put into R2.
Removed(loadable) == loadable \ Listed # {}

\* What an isolate holds under a version was compiled for that version, and a
\* manifest that it holds names a version that can be loaded.
CachesFit(c, loadable) ==
  /\ c \in Caches /\ c.manifest \subseteq loadable
  /\ \A v \in Versions :
       /\ c.bundle[v] # None => c.bundle[v].payload \in MadeFor(v)
       /\ c.modules[v] \in MadeFor(v) \cup {None}
       /\ c.code[v] \in MadeFor(v) \cup {None}

\* A worker runs what was compiled for its version, and misses a document of its
\* version only if some version lacks it.
AppFits(v, a, loadable) ==
  /\ a \in App \cup {None}
  /\ a # None =>
       /\ a.modules \in MadeFor(v)
       /\ v \in Listed /\ None \in a.page => Removed(loadable)

\* A request goes by a version that can be loaded, with a bundle of that version,
\* and the worker that it waits in is there.
ReaderFits(row, loadable, warm) ==
  /\ row \in Reader
  /\ row.pc # "unprovisioned"
  /\ row.pc \in {"bundle", "r2", "codes", "mirror", "cache", "code", "codeR2"} =>
       /\ row.at \in Parents /\ row.version \in loadable
       /\ row.phase = "code" => row.app \in warm
  /\ row.pc \in {"codes", "mirror", "cache"} => row.bundle \in MadeFor(row.version)
  /\ row.pc \in {"render", "code", "codeR2"} => row.app \in warm

\* Nothing names a version before its bundle is in R2.
PublicationFits(row, loadable) ==
  /\ row \in Publication
  /\ row.pc # "idle" => row.payload \in Payloads
  /\ row.pc \in {"codes", "mirror", "manifest"} => row.payload.version \in loadable

BundlesFit ==
  /\ r2 \in [Versions -> Payloads \cup {None}]
  /\ \A v \in Versions : r2[v] \in MadeFor(v) \cup {None}

CopiesFit(copies) ==
  /\ copies \in [Versions -> Cell(Payloads \cup {None})]
  /\ \A v \in Versions : copies[v] \in Cell(MadeFor(v) \cup {None})

ParentsFit ==
  /\ parent \in [Parents -> Caches]
  /\ \A p \in Parents : CachesFit(parent[p], Loadable)

AppsFit ==
  /\ app \in [Versions -> App \cup {None}]
  /\ \A v \in Versions : AppFits(v, app[v], Loadable)

ReadersFit ==
  /\ reader \in [Readers -> Reader]
  /\ \A r \in Readers : ReaderFits(reader[r], Loadable, Warm)

PublicationsFit ==
  /\ publication \in [Publications -> Publication]
  /\ \A w \in Publications : PublicationFits(publication[w], Loadable)

FaultsFit == published \in 0..MaxPublished /\ broken \in 0..MaxBroken

ArtifactsInv ==
  /\ BundlesFit /\ CopiesFit(mirror) /\ CopiesFit(codeKey)
  /\ manifest \in Cell(Loadable)
  /\ ParentsFit /\ AppsFit /\ ReadersFit /\ PublicationsFit /\ FaultsFit

-----------------------------------------------------------------------------
(* Cells, and what fits when more versions can be loaded.                  *)

\* A key holds what was put into it.
LEMMA PutIsHeld ==
  ASSUME NEW S, NEW cell \in Cell(S), NEW x \in S
  PROVE  Put(cell, x) \in Cell(S)
BY DEF Put, Cell

LEMMA ReadableIsHeld ==
  ASSUME NEW S, NEW cell \in Cell(S)
  PROVE  /\ Readable(cell) \subseteq S
         /\ [cell EXCEPT !.old = {}] \in Cell(S)
BY DEF Readable, Cell

LEMMA CachesGrow ==
  ASSUME NEW c, NEW loadable, NEW more, loadable \subseteq more,
         CachesFit(c, loadable)
  PROVE  CachesFit(c, more)
BY DEF CachesFit

LEMMA AppGrows ==
  ASSUME NEW v, NEW a, NEW loadable, NEW more, loadable \subseteq more,
         AppFits(v, a, loadable)
  PROVE  AppFits(v, a, more)
BY DEF AppFits, Removed

LEMMA ReaderGrows ==
  ASSUME NEW row, NEW loadable, NEW more, loadable \subseteq more,
         NEW warm, NEW warmer, warm \subseteq warmer, ReaderFits(row, loadable, warm)
  PROVE  ReaderFits(row, more, warmer)
BY DEF ReaderFits

LEMMA PublicationGrows ==
  ASSUME NEW row, NEW loadable, NEW more, loadable \subseteq more,
         PublicationFits(row, loadable)
  PROVE  PublicationFits(row, more)
BY DEF PublicationFits

\* An isolate that starts, a request that has gone.
LEMMA ColdFits ==
  ASSUME NEW loadable
  PROVE  CachesFit(ColdCaches, loadable)
BY DEF CachesFit, ColdCaches, Caches

LEMMA NoReaderFits ==
  ASSUME NEW loadable, NEW warm
  PROVE  ReaderFits(NoReader, loadable, warm)
BY DEF ReaderFits, NoReader, Reader

LEMMA NoPublicationFits ==
  ASSUME NEW loadable
  PROVE  PublicationFits(NoPublication, loadable)
BY DEF PublicationFits, NoPublication, Publication

\* The rows that fit are rows.
LEMMA FittingRows ==
  ASSUME NEW c, NEW v, NEW a, NEW row, NEW pub, NEW loadable, NEW warm
  PROVE  /\ CachesFit(c, loadable) => c \in Caches
         /\ AppFits(v, a, loadable) => a \in App \cup {None}
         /\ ReaderFits(row, loadable, warm) => row \in Reader
         /\ PublicationFits(pub, loadable) => pub \in Publication
BY DEF CachesFit, AppFits, ReaderFits, PublicationFits

-----------------------------------------------------------------------------
(* A step changes one caches, worker, request or run.                      *)

LEMMA StoresRest ==
  ASSUME UNCHANGED r2
  PROVE  /\ Loadable' = Loadable
         /\ BundlesFit => BundlesFit'
BY DEF Loadable, BundlesFit

LEMMA CopiesRest ==
  ASSUME UNCHANGED <<mirror, codeKey>>
  PROVE  /\ CopiesFit(mirror) => CopiesFit(mirror)'
         /\ CopiesFit(codeKey) => CopiesFit(codeKey)'
BY DEF CopiesFit

LEMMA ParentChanges ==
  ASSUME ParentsFit, UNCHANGED r2, NEW p \in Parents, NEW c, CachesFit(c, Loadable),
         parent' = [parent EXCEPT ![p] = c]
  PROVE  ParentsFit'
<1>1. Loadable' = Loadable
  BY StoresRest
<1>2. c \in Caches
  BY FittingRows
<1>3. parent' \in [Parents -> Caches]
  BY <1>2 DEF ParentsFit
<1>4. \A q \in Parents : CachesFit(parent'[q], Loadable)
  BY DEF ParentsFit
<1> QED
  BY <1>1, <1>3, <1>4 DEF ParentsFit

LEMMA ParentsRest ==
  ASSUME ParentsFit, Loadable \subseteq Loadable', UNCHANGED parent
  PROVE  ParentsFit'
BY CachesGrow DEF ParentsFit

LEMMA AppChanges ==
  ASSUME AppsFit, UNCHANGED r2, NEW v \in Versions, NEW a \in App, AppFits(v, a, Loadable),
         app' = [app EXCEPT ![v] = a]
  PROVE  AppsFit' /\ Warm \subseteq Warm' /\ v \in Warm'
<1>1. Loadable' = Loadable
  BY StoresRest
<1>2. app' \in [Versions -> App \cup {None}]
  BY DEF AppsFit
<1>3. \A u \in Versions : AppFits(u, app'[u], Loadable)
  BY DEF AppsFit
<1>4. Warm \subseteq Warm' /\ v \in Warm'
  BY NoneApp DEF AppsFit, Warm
<1> QED
  BY <1>1, <1>2, <1>3, <1>4 DEF AppsFit

LEMMA AppsRest ==
  ASSUME Loadable \subseteq Loadable', UNCHANGED app
  PROVE  /\ Warm' = Warm
         /\ AppsFit => AppsFit'
BY AppGrows DEF AppsFit, Warm

LEMMA ReaderChanges ==
  ASSUME ReadersFit, UNCHANGED r2, Warm \subseteq Warm', NEW r \in Readers,
         NEW row, ReaderFits(row, Loadable, Warm'), Step(r, row)
  PROVE  ReadersFit'
<1>1. Loadable' = Loadable
  BY StoresRest
<1>2. row \in Reader
  BY FittingRows
<1>3. reader' \in [Readers -> Reader]
  BY <1>2 DEF ReadersFit, Step
<1>4. \A s \in Readers : s # r => ReaderFits(reader[s], Loadable, Warm')
  BY ReaderGrows DEF ReadersFit
<1>5. \A s \in Readers : ReaderFits(reader'[s], Loadable, Warm')
  BY <1>4 DEF ReadersFit, Step
<1> QED
  BY <1>1, <1>3, <1>5 DEF ReadersFit

LEMMA ReadersRest ==
  ASSUME ReadersFit, Loadable \subseteq Loadable', Warm \subseteq Warm', UNCHANGED reader
  PROVE  ReadersFit'
BY ReaderGrows DEF ReadersFit

LEMMA PublicationChanges ==
  ASSUME PublicationsFit, Loadable \subseteq Loadable', NEW w \in Publications, NEW row,
         PublicationFits(row, Loadable'), publication' = [publication EXCEPT ![w] = row]
  PROVE  PublicationsFit'
<1>1. row \in Publication
  BY FittingRows
<1>2. publication' \in [Publications -> Publication]
  BY <1>1 DEF PublicationsFit
<1>3. \A x \in Publications : x # w => PublicationFits(publication[x], Loadable')
  BY PublicationGrows DEF PublicationsFit
<1>4. \A x \in Publications : PublicationFits(publication'[x], Loadable')
  BY <1>3 DEF PublicationsFit
<1> QED
  BY <1>2, <1>4 DEF PublicationsFit

LEMMA PublicationsRest ==
  ASSUME PublicationsFit, Loadable \subseteq Loadable', UNCHANGED publication
  PROVE  PublicationsFit'
BY PublicationGrows DEF PublicationsFit

\* Faults and publications are counted up to their bounds.
LEMMA BreakCounts ==
  ASSUME FaultsFit, Break \/ UNCHANGED broken, UNCHANGED published
  PROVE  FaultsFit'
BY ArtifactsAssumption DEF FaultsFit, Break

LEMMA FaultsRest ==
  ASSUME FaultsFit, UNCHANGED <<published, broken>>
  PROVE  FaultsFit'
BY DEF FaultsFit

\* A write of what was compiled for a version goes to the keys of that version.
LEMMA CopyIsPut ==
  ASSUME NEW copies, CopiesFit(copies), NEW payload \in Payloads
  PROVE  CopiesFit([copies EXCEPT ![payload.version] = Put(@, payload)])
<1> DEFINE v == payload.version
           next == [copies EXCEPT ![v] = Put(@, payload)]
<1>1. v \in Versions /\ payload \in MadeFor(v)
  BY DEF Payloads, MadeFor
<1>2. Put(copies[v], payload) \in Cell(Payloads \cup {None})
  BY <1>1, PutIsHeld DEF CopiesFit
<1>3. Put(copies[v], payload) \in Cell(MadeFor(v) \cup {None})
  BY <1>1, PutIsHeld DEF CopiesFit
<1>4. next \in [Versions -> Cell(Payloads \cup {None})]
  BY <1>1, <1>2 DEF CopiesFit
<1>5. \A u \in Versions : next[u] \in Cell(MadeFor(u) \cup {None})
  BY <1>1, <1>3 DEF CopiesFit
<1> QED
  BY <1>4, <1>5 DEF CopiesFit

LEMMA PutsFit ==
  ASSUME NEW payload \in Payloads
  PROVE  /\ CopiesFit(mirror) /\ PutMirror(payload) => CopiesFit(mirror)'
         /\ CopiesFit(codeKey) /\ PutCode(payload) => CopiesFit(codeKey)'
<1>1. CopiesFit(mirror) /\ PutMirror(payload) => CopiesFit(mirror')
  <2> SUFFICES ASSUME CopiesFit(mirror), PutMirror(payload)
               PROVE  CopiesFit(mirror')
    OBVIOUS
  <2>1. CopiesFit([mirror EXCEPT ![payload.version] = Put(@, payload)])
    BY CopyIsPut
  <2> QED
    BY <2>1 DEF PutMirror
<1>2. CopiesFit(codeKey) /\ PutCode(payload) => CopiesFit(codeKey')
  <2> SUFFICES ASSUME CopiesFit(codeKey), PutCode(payload)
               PROVE  CopiesFit(codeKey')
    OBVIOUS
  <2>1. CopiesFit([codeKey EXCEPT ![payload.version] = Put(@, payload)])
    BY CopyIsPut
  <2> QED
    BY <2>1, ZenonT(30) DEF PutCode
<1>3. CopiesFit(mirror)' = CopiesFit(mirror') /\ CopiesFit(codeKey)' = CopiesFit(codeKey')
  BY DEF CopiesFit
<1> QED
  BY <1>1, <1>2, <1>3

-----------------------------------------------------------------------------
(* Publishing.                                                             *)

LEMMA PublishKeeps ==
  ASSUME ArtifactsInv, NEW w \in Publications, NEW payload \in Payloads,
         NEW direct \in BOOLEAN, Publish(w, payload, direct)
  PROVE  ArtifactsInv'
<1> USE DEF ArtifactsInv
<1>1. UNCHANGED <<r2, mirror, codeKey, manifest, parent, app, reader, broken>>
  BY DEF Publish
<1>2. Loadable' = Loadable /\ BundlesFit'
  BY <1>1, StoresRest
<1>3. CopiesFit(mirror)' /\ CopiesFit(codeKey)'
  BY <1>1, CopiesRest
<1>4. ParentsFit' /\ AppsFit' /\ ReadersFit'
  BY <1>1, <1>2, ParentsRest, AppsRest, ReadersRest
<1> DEFINE row == [pc |-> "r2", payload |-> payload, direct |-> direct]
<1>5. PublicationFits(row, Loadable')
  BY DEF PublicationFits, Publication
<1>6. PublicationsFit'
  BY <1>2, <1>5, PublicationChanges DEF Publish
<1>7. FaultsFit'
  BY <1>1, ArtifactsAssumption DEF Publish, FaultsFit
<1> QED
  BY <1>1, <1>2, <1>3, <1>4, <1>6, <1>7

\* The bundle is in R2: its version can be loaded from now on.
LEMMA PublishBundleKeeps ==
  ASSUME ArtifactsInv, NEW w \in Publications, PublishBundle(w)
  PROVE  ArtifactsInv'
<1> USE DEF ArtifactsInv
<1> DEFINE payload == publication[w].payload
           row(pc) == [publication[w] EXCEPT !.pc = pc]
<1>1. /\ UNCHANGED <<mirror, codeKey, manifest, parent, app, reader, published, broken>>
      /\ publication[w].pc = "r2" /\ publication[w] \in Publication
      /\ r2' = [r2 EXCEPT ![payload.version] = payload]
  BY DEF PublishBundle, PublicationsFit
<1>2. payload \in Payloads /\ payload \in MadeFor(payload.version)
  BY <1>1 DEF PublicationsFit, PublicationFits, MadeFor
<1>3. payload.version \in Versions
  BY <1>2 DEF Payloads
<1>4. BundlesFit'
  BY <1>1, <1>2, <1>3 DEF BundlesFit
<1>5. Loadable \subseteq Loadable' /\ payload.version \in Loadable'
  BY <1>1, <1>2, <1>3, NonePayload DEF BundlesFit, Loadable
<1>6. CopiesFit(mirror)' /\ CopiesFit(codeKey)'
  BY <1>1, CopiesRest
<1>7. (manifest \in Cell(Loadable))'
  BY <1>1, <1>5 DEF Cell
<1>8. ParentsFit' /\ AppsFit' /\ ReadersFit'
  BY <1>1, <1>5, ParentsRest, AppsRest, ReadersRest
<1>9. \A pc \in {"manifest", "codes"} : PublicationFits(row(pc), Loadable')
  BY <1>1, <1>2, <1>5 DEF PublicationFits, Publication
<1>10. PublicationsFit'
  <2>1. PICK pc \in {"manifest", "codes"} : publication' = [publication EXCEPT ![w] = row(pc)]
    BY DEF PublishBundle, PublishGoes
  <2> QED
    BY <1>5, <1>9, <2>1, PublicationChanges
<1>11. FaultsFit'
  BY <1>1, FaultsRest
<1> QED
  BY <1>4, <1>6, <1>7, <1>8, <1>10, <1>11

\* The run goes on with what it publishes.
LEMMA PublishGoesOn ==
  ASSUME PublicationsFit, NEW w \in Publications, Loadable' = Loadable,
         publication[w].pc \in {"codes", "mirror"},
         PublishGoes(w, "mirror") \/ PublishGoes(w, "manifest")
  PROVE  PublicationsFit'
<1> DEFINE row(pc) == [publication[w] EXCEPT !.pc = pc]
<1>1. \A pc \in {"manifest", "mirror"} : PublicationFits(row(pc), Loadable')
  BY DEF PublicationsFit, PublicationFits, Publication
<1>2. PICK pc \in {"manifest", "mirror"} : publication' = [publication EXCEPT ![w] = row(pc)]
  BY DEF PublishGoes
<1> QED
  BY <1>1, <1>2, PublicationChanges

LEMMA PublishCopiesKeeps ==
  ASSUME ArtifactsInv, NEW w \in Publications, PublishCodes(w) \/ PublishMirror(w)
  PROVE  ArtifactsInv'
<1> USE DEF ArtifactsInv
<1>1. /\ UNCHANGED <<r2, manifest, parent, app, reader, published>>
      /\ publication[w].pc \in {"codes", "mirror"}
      /\ PublishGoes(w, "mirror") \/ PublishGoes(w, "manifest")
      /\ Break \/ UNCHANGED broken
  BY DEF PublishCodes, PublishMirror
<1>2. Loadable' = Loadable /\ BundlesFit'
  BY <1>1, StoresRest
<1>3. publication[w].payload \in Payloads
  BY <1>1 DEF PublicationsFit, PublicationFits
<1>4. CopiesFit(mirror)' /\ CopiesFit(codeKey)'
  BY <1>3, PutsFit, CopiesRest DEF PublishCodes, PublishMirror
<1>5. ParentsFit' /\ AppsFit' /\ ReadersFit'
  BY <1>1, <1>2, ParentsRest, AppsRest, ReadersRest
<1>6. PublicationsFit'
  BY <1>1, <1>2, PublishGoesOn
<1>7. FaultsFit'
  BY <1>1, BreakCounts
<1> QED
  BY <1>1, <1>2, <1>4, <1>5, <1>6, <1>7

LEMMA PublishManifestKeeps ==
  ASSUME ArtifactsInv, NEW w \in Publications, PublishManifest(w)
  PROVE  ArtifactsInv'
<1> USE DEF ArtifactsInv
<1>1. /\ UNCHANGED <<r2, mirror, codeKey, app, reader, published, broken>>
      /\ publication[w].pc = "manifest"
      /\ publication' = [publication EXCEPT ![w] = NoPublication]
      /\ manifest' = Put(manifest, publication[w].payload.version)
  BY DEF PublishManifest
<1>2. Loadable' = Loadable /\ BundlesFit'
  BY <1>1, StoresRest
<1>3. publication[w].payload.version \in Loadable
  BY <1>1 DEF PublicationsFit, PublicationFits
<1>4. (manifest \in Cell(Loadable))'
  BY <1>1, <1>2, <1>3, PutIsHeld
<1>5. CopiesFit(mirror)' /\ CopiesFit(codeKey)'
  BY <1>1, CopiesRest
<1>6. ParentsFit'
  BY <1>1, <1>2, ParentsRest, ParentChanges, ColdFits DEF PublishManifest
<1>7. AppsFit' /\ ReadersFit'
  BY <1>1, <1>2, AppsRest, ReadersRest
<1>8. PublicationsFit'
  BY <1>1, <1>2, PublicationChanges, NoPublicationFits
<1>9. FaultsFit'
  BY <1>1, FaultsRest
<1> QED
  BY <1>2, <1>4, <1>5, <1>6, <1>7, <1>8, <1>9

LEMMA PublishFailsKeeps ==
  ASSUME ArtifactsInv, NEW w \in Publications, PublishFails(w)
  PROVE  ArtifactsInv'
<1> USE DEF ArtifactsInv
<1> DEFINE row == [publication[w] EXCEPT !.pc = "r2"]
<1>1. /\ UNCHANGED <<r2, mirror, codeKey, manifest, parent, app, reader, published>>
      /\ publication[w].pc # "idle" /\ Break
      /\ \/ publication' = [publication EXCEPT ![w] = NoPublication]
         \/ publication' = [publication EXCEPT ![w] = row]
  BY DEF PublishFails
<1>2. Loadable' = Loadable /\ BundlesFit'
  BY <1>1, StoresRest
<1>3. CopiesFit(mirror)' /\ CopiesFit(codeKey)'
  BY <1>1, CopiesRest
<1>4. ParentsFit' /\ AppsFit' /\ ReadersFit'
  BY <1>1, <1>2, ParentsRest, AppsRest, ReadersRest
<1>5. PublicationFits(row, Loadable')
  BY <1>1 DEF PublicationsFit, PublicationFits, Publication
<1>6. PublicationsFit'
  BY <1>1, <1>2, <1>5, PublicationChanges, NoPublicationFits
<1>7. FaultsFit'
  BY <1>1, BreakCounts
<1> QED
  BY <1>1, <1>2, <1>3, <1>4, <1>6, <1>7

-----------------------------------------------------------------------------
(* Reading.                                                                *)

\* What readMdxManifest can say names a version that can be loaded.
LEMMA ManifestLoads ==
  ASSUME ArtifactsInv, NEW p \in Parents, NEW bypass \in BOOLEAN,
         NEW v \in ManifestAt(p, bypass)
  PROVE  v \in Loadable
<1>1. Readable(manifest) \subseteq Loadable
  BY ReadableIsHeld DEF ArtifactsInv
<1>2. parent[p].manifest \subseteq Loadable
  BY DEF ArtifactsInv, ParentsFit, CachesFit
<1> QED
  BY <1>1, <1>2 DEF ManifestAt

LEMMA LoadableIsVersion == Loadable \subseteq Versions
BY DEF Loadable

\* What an isolate is given to keep.
LEMMA KeepsManifest ==
  ASSUME NEW c, NEW loadable, CachesFit(c, loadable), NEW v \in loadable, v \in Versions
  PROVE  CachesFit([c EXCEPT !.manifest = {v}], loadable)
BY DEF CachesFit, Caches

LEMMA KeepsModules ==
  ASSUME NEW c, NEW loadable, CachesFit(c, loadable), NEW v \in Versions,
         NEW m \in MadeFor(v)
  PROVE  CachesFit([c EXCEPT !.modules[v] = m], loadable)
<1> DEFINE new == [c EXCEPT !.modules[v] = m]
           f == [c.modules EXCEPT ![v] = m]
<1>1. c \in Caches /\ m \in Payloads
  BY DEF CachesFit, MadeFor
<1>2. f \in [Versions -> Payloads \cup {None}]
  BY <1>1 DEF Caches
<1>3. \A u \in Versions : f[u] \in MadeFor(u) \cup {None}
  BY <1>1 DEF CachesFit, Caches
<1>4. /\ new.modules = f /\ new.bundle = c.bundle /\ new.code = c.code
      /\ new.manifest = c.manifest /\ new \in Caches
  BY <1>1, <1>2 DEF Caches
<1> HIDE DEF new, f
<1>5. CachesFit(new, loadable)
  BY <1>3, <1>4 DEF CachesFit
<1> QED
  BY <1>5 DEF new

LEMMA KeepsCode ==
  ASSUME NEW c, NEW loadable, CachesFit(c, loadable), NEW v \in Versions,
         NEW x \in MadeFor(v)
  PROVE  CachesFit([c EXCEPT !.code[v] = x], loadable)
<1> DEFINE new == [c EXCEPT !.code[v] = x]
           f == [c.code EXCEPT ![v] = x]
<1>1. c \in Caches /\ x \in Payloads
  BY DEF CachesFit, MadeFor
<1>2. f \in [Versions -> Payloads \cup {None}]
  BY <1>1 DEF Caches
<1>3. \A u \in Versions : f[u] \in MadeFor(u) \cup {None}
  BY <1>1 DEF CachesFit, Caches
<1>4. /\ new.code = f /\ new.bundle = c.bundle /\ new.modules = c.modules
      /\ new.manifest = c.manifest /\ new \in Caches
  BY <1>1, <1>2 DEF Caches
<1> HIDE DEF new, f
<1>5. CachesFit(new, loadable)
  BY <1>3, <1>4 DEF CachesFit
<1> QED
  BY <1>5 DEF new

LEMMA KeepsBundle ==
  ASSUME NEW c, NEW loadable, CachesFit(c, loadable), NEW v \in Versions,
         NEW x \in MadeFor(v), NEW inline \in BOOLEAN
  PROVE  CachesFit([c EXCEPT !.bundle[v] = [payload |-> x, inline |-> inline]], loadable)
<1> DEFINE held == [payload |-> x, inline |-> inline]
           new == [c EXCEPT !.bundle[v] = held]
           f == [c.bundle EXCEPT ![v] = held]
<1>1. c \in Caches /\ x \in Payloads /\ held.payload = x
  BY DEF CachesFit, MadeFor
<1>2. held \in [payload : Payloads, inline : BOOLEAN]
  BY <1>1
<1> HIDE DEF held
<1>3. f \in [Versions -> [payload : Payloads, inline : BOOLEAN] \cup {None}]
  BY <1>1, <1>2 DEF Caches
<1>4. \A u \in Versions : f[u] # None => f[u].payload \in MadeFor(u)
  BY <1>1 DEF CachesFit, Caches
<1>5. /\ new.bundle = f /\ new.code = c.code /\ new.modules = c.modules
      /\ new.manifest = c.manifest /\ new \in Caches
  BY <1>1, <1>3 DEF Caches
<1> HIDE DEF new, f
<1>6. CachesFit(new, loadable)
  BY <1>4, <1>5 DEF CachesFit
<1> QED
  BY <1>6 DEF new, held

LEMMA ReaderArrivesKeeps ==
  ASSUME ArtifactsInv, NEW r \in Readers, NEW p \in Parents, NEW bypass \in BOOLEAN,
         NEW expected \in Versions \cup {None}, ReaderArrives(r, p, bypass, expected)
  PROVE  ArtifactsInv'
<1> USE DEF ArtifactsInv
<1>1. UNCHANGED <<r2, mirror, codeKey, manifest, app, publication, published, broken>>
  BY DEF ReaderArrives
<1>2. Loadable' = Loadable /\ BundlesFit' /\ Warm' = Warm
  BY <1>1, StoresRest, AppsRest
<1> DEFINE c == IF bypass THEN ColdCaches ELSE parent[p]
           row(v) == [NoReader EXCEPT !.pc = "bundle", !.at = p, !.version = v]
<1>3. PICK v \in ManifestAt(p, bypass) :
        /\ parent' = [parent EXCEPT ![p] =
             [(IF bypass THEN ColdCaches ELSE @) EXCEPT !.manifest = {v}]]
        /\ IF expected \in {None, v} THEN Step(r, row(v)) ELSE UNCHANGED reader
  BY DEF ReaderArrives
<1>4. v \in Loadable /\ v \in Versions
  BY ManifestLoads, LoadableIsVersion
<1>5. CachesFit(c, Loadable)
  BY ColdFits DEF ParentsFit
<1>6. CachesFit([c EXCEPT !.manifest = {v}], Loadable)
  BY <1>4, <1>5, KeepsManifest
<1>7. ParentsFit'
  <2>1. parent' = [parent EXCEPT ![p] = [c EXCEPT !.manifest = {v}]]
    BY <1>3
  <2> QED
    BY <1>1, <1>6, <2>1, ParentChanges
<1>8. ReaderFits(row(v), Loadable, Warm')
  BY <1>4 DEF ReaderFits, Reader, NoReader
<1>9. ReadersFit'
  BY <1>1, <1>2, <1>3, <1>8, ReaderChanges, ReadersRest
<1>10. CopiesFit(mirror)' /\ CopiesFit(codeKey)' /\ (manifest \in Cell(Loadable))'
  BY <1>1, <1>2, CopiesRest
<1>11. AppsFit' /\ PublicationsFit' /\ FaultsFit'
  BY <1>1, <1>2, AppsRest, PublicationsRest, FaultsRest
<1> QED
  BY <1>2, <1>7, <1>9, <1>10, <1>11

\* What a request that goes by a version knows of it.
LEMMA ReaderKnows ==
  ASSUME ArtifactsInv, NEW r \in Readers,
         reader[r].pc \in {"bundle", "r2", "codes", "mirror", "cache", "code", "codeR2"}
  PROVE  /\ reader[r].at \in Parents
         /\ reader[r].version \in Loadable /\ reader[r].version \in Versions
         /\ reader[r].phase \in {"page", "code"}
         /\ reader[r].phase = "code" => reader[r].app \in Warm
         /\ CachesFit(parent[reader[r].at], Loadable)
<1>1. reader[r] \in Reader /\ ReaderFits(reader[r], Loadable, Warm)
  BY DEF ArtifactsInv, ReadersFit
<1>2. reader[r].at \in Parents /\ reader[r].version \in Loadable
  BY <1>1 DEF ReaderFits
<1> QED
  BY <1>1, <1>2, LoadableIsVersion DEF ReaderFits, Reader, ArtifactsInv, ParentsFit

\* A worker that is answered keeps the answer: it misses a document only when some
\* version lacks it.
LEMMA AnsweredKeeps ==
  ASSUME ArtifactsInv, NEW r \in Readers, UNCHANGED r2, reader[r].app \in Warm,
         NEW code \in Payloads \cup {None},
         code = None /\ reader[r].app \in Listed => Removed(Loadable),
         Answered(r, code)
  PROVE  AppsFit' /\ ReadersFit'
<1> DEFINE v == reader[r].app
           a == [app[v] EXCEPT !.page = {code}]
<1>1. v \in Versions /\ app[v] \in App /\ AppFits(v, app[v], Loadable) /\ app[v] # None
  <2>1. v \in Versions /\ app[v] # None
    BY DEF Warm
  <2> QED
    BY <2>1 DEF ArtifactsInv, AppsFit
<1>2. a \in App /\ a.modules = app[v].modules /\ a.page = {code}
  BY <1>1 DEF App
<1>3. app' = [app EXCEPT ![v] = a] /\ Step(r, NoReader)
  BY DEF Answered
<1> HIDE DEF a, v
<1>4. AppFits(v, a, Loadable)
  BY <1>1, <1>2 DEF AppFits, v
<1>5. AppsFit' /\ Warm \subseteq Warm'
  BY <1>1, <1>2, <1>3, <1>4, AppChanges DEF ArtifactsInv
<1>6. ReadersFit'
  BY <1>3, <1>5, NoReaderFits, ReaderChanges DEF ArtifactsInv
<1> QED
  BY <1>5, <1>6

\* The worker of the version is started, or is warm; the isolate keeps its modules.
LEMMA LoadAppKeeps ==
  ASSUME ArtifactsInv, NEW r \in Readers, UNCHANGED r2,
         reader[r].pc \in {"bundle", "cache"},
         NEW c, CachesFit(c, Loadable), NEW payload \in MadeFor(reader[r].version),
         LoadApp(r, c, payload)
  PROVE  ParentsFit' /\ AppsFit' /\ ReadersFit'
<1> DEFINE p == reader[r].at
           v == reader[r].version
           m == IF c.modules[v] # None THEN c.modules[v] ELSE payload
           a == [modules |-> m, page |-> {}]
           grown == [c EXCEPT !.modules[v] = m]
           row == [NoReader EXCEPT !.pc = "render", !.app = v]
<1>1. p \in Parents /\ v \in Versions
  BY ReaderKnows
<1>2. m \in MadeFor(v) /\ m \in Payloads
  BY <1>1 DEF CachesFit, MadeFor
<1>3. /\ parent' = [parent EXCEPT ![p] = grown]
      /\ app' = IF app[v] # None THEN app ELSE [app EXCEPT ![v] = a]
      /\ Step(r, row)
  BY DEF LoadApp
<1>4. CachesFit(grown, Loadable)
  BY <1>1, <1>2, KeepsModules
<1>5. a \in App /\ a.modules = m /\ a.page = {}
  BY <1>2 DEF App
<1>6. row \in Reader /\ row.pc = "render" /\ row.app = v
  BY <1>1 DEF Reader, NoReader
<1> HIDE DEF p, v, m, a, grown, row
<1>7. ParentsFit'
  BY <1>1, <1>3, <1>4, ParentChanges DEF ArtifactsInv
<1>8. AppFits(v, a, Loadable)
  BY <1>2, <1>5 DEF AppFits
<1>9. AppsFit' /\ Warm \subseteq Warm' /\ v \in Warm'
  <2>1. CASE app[v] # None
    <3>1. UNCHANGED app
      BY <1>3, <2>1
    <3>2. AppsFit' /\ Warm' = Warm
      BY <3>1, StoresRest, AppsRest DEF ArtifactsInv
    <3> QED
      BY <1>1, <2>1, <3>2 DEF Warm
  <2>2. CASE app[v] = None
    BY <1>1, <1>3, <1>5, <1>8, <2>2, AppChanges DEF ArtifactsInv
  <2> QED
    BY <2>1, <2>2
<1>10. ReaderFits(row, Loadable, Warm')
  BY <1>6, <1>9 DEF ReaderFits
<1> QED
  BY <1>3, <1>7, <1>9, <1>10, ReaderChanges DEF ArtifactsInv

LEMMA FindCodeKeeps ==
  ASSUME ArtifactsInv, NEW r \in Readers, UNCHANGED r2,
         reader[r].pc \in {"bundle", "cache"}, reader[r].phase = "code",
         NEW c, CachesFit(c, Loadable), NEW payload \in MadeFor(reader[r].version),
         NEW inline \in BOOLEAN, FindCode(r, c, payload, inline)
  PROVE  ParentsFit' /\ AppsFit' /\ ReadersFit'
<1> DEFINE p == reader[r].at
           v == reader[r].version
           row == [reader[r] EXCEPT !.pc = "code"]
<1>1. p \in Parents /\ v \in Versions /\ v \in Loadable /\ reader[r].app \in Warm
  BY ReaderKnows
<1>2. payload \in Payloads /\ payload.version = v
  BY DEF MadeFor
<1>3. parent' = [parent EXCEPT ![p] = c]
  BY DEF FindCode
<1>4. ParentsFit'
  BY <1>1, <1>3, ParentChanges DEF ArtifactsInv
<1>5. CASE payload.version \notin Listed
  <2>1. Answered(r, None)
    BY <1>5 DEF FindCode
  <2>2. Removed(Loadable)
    BY <1>1, <1>2, <1>5 DEF Removed
  <2> QED
    BY <1>1, <1>4, <2>1, <2>2, AnsweredKeeps
<1>6. ASSUME NEW x \in Payloads, Answered(r, x)
      PROVE  AppsFit' /\ ReadersFit'
  BY <1>1, <1>6, NonePayload, AnsweredKeeps
<1>7. c.code[v] # None => c.code[v] \in Payloads
  BY <1>1 DEF CachesFit, MadeFor
<1>8. CASE Step(r, row) /\ UNCHANGED app
  <2>1. reader[r] \in Reader /\ ReaderFits(reader[r], Loadable, Warm)
    BY DEF ArtifactsInv, ReadersFit
  <2>2. /\ row \in Reader /\ row.pc = "code" /\ row.at = p /\ row.version = v
        /\ row.app = reader[r].app
    BY <2>1 DEF Reader
  <2> HIDE DEF row, v, p
  <2>3. ReaderFits(row, Loadable, Warm)
    BY <1>1, <2>2 DEF ReaderFits
  <2>4. AppsFit' /\ Warm' = Warm
    BY <1>8, StoresRest, AppsRest DEF ArtifactsInv
  <2>5. ReadersFit'
    BY <1>8, <2>3, <2>4, ReaderChanges DEF ArtifactsInv
  <2> QED
    BY <1>4, <2>4, <2>5
<1> QED
  BY <1>2, <1>4, <1>5, <1>6, <1>7, <1>8 DEF FindCode

LEMMA UseBundleKeeps ==
  ASSUME ArtifactsInv, NEW r \in Readers, UNCHANGED r2,
         reader[r].pc \in {"bundle", "cache"},
         NEW c, CachesFit(c, Loadable), NEW payload \in MadeFor(reader[r].version),
         NEW inline \in BOOLEAN, UseBundle(r, c, payload, inline)
  PROVE  ParentsFit' /\ AppsFit' /\ ReadersFit'
BY ReaderKnows, LoadAppKeeps, FindCodeKeeps DEF UseBundle

LEMMA BundleFromMemoryKeeps ==
  ASSUME ArtifactsInv, NEW r \in Readers, BundleFromMemory(r)
  PROVE  ArtifactsInv'
<1> DEFINE c == parent[reader[r].at]
           v == reader[r].version
           b == c.bundle[v]
<1>1. /\ UNCHANGED <<r2, mirror, codeKey, manifest, publication, published, broken>>
      /\ reader[r].pc = "bundle" /\ b # None
      /\ UseBundle(r, c, b.payload, b.inline)
  BY DEF BundleFromMemory
<1>2. CachesFit(c, Loadable) /\ v \in Versions
  BY <1>1, ReaderKnows
<1>3. b.payload \in MadeFor(v) /\ b.inline \in BOOLEAN
  BY <1>1, <1>2 DEF CachesFit, Caches
<1> HIDE DEF c, b
<1>4. ParentsFit' /\ AppsFit' /\ ReadersFit'
  BY <1>1, <1>2, <1>3, UseBundleKeeps
<1>5. Loadable' = Loadable /\ BundlesFit' /\ CopiesFit(mirror)' /\ CopiesFit(codeKey)'
  BY <1>1, StoresRest, CopiesRest DEF ArtifactsInv
<1>6. PublicationsFit' /\ FaultsFit' /\ (manifest \in Cell(Loadable))'
  BY <1>1, <1>5, PublicationsRest, FaultsRest DEF ArtifactsInv
<1> QED
  BY <1>4, <1>5, <1>6 DEF ArtifactsInv

LEMMA CacheBundleKeeps ==
  ASSUME ArtifactsInv, NEW r \in Readers, CacheBundle(r)
  PROVE  ArtifactsInv'
<1> DEFINE v == reader[r].version
           x == reader[r].bundle
           i == reader[r].inline
           c == [parent[reader[r].at] EXCEPT !.bundle[v] = [payload |-> x, inline |-> i]]
<1>1. /\ UNCHANGED <<r2, mirror, codeKey, manifest, publication, published, broken>>
      /\ reader[r].pc = "cache"
      /\ UseBundle(r, c, x, i)
  BY DEF CacheBundle
<1>2. CachesFit(parent[reader[r].at], Loadable) /\ v \in Versions
  BY <1>1, ReaderKnows
<1>3. x \in MadeFor(v) /\ i \in BOOLEAN
  BY <1>1 DEF ArtifactsInv, ReadersFit, ReaderFits, Reader
<1>4. CachesFit(c, Loadable)
  BY <1>2, <1>3, KeepsBundle
<1> HIDE DEF c, x, i
<1>5. ParentsFit' /\ AppsFit' /\ ReadersFit'
  BY <1>1, <1>3, <1>4, UseBundleKeeps
<1>6. Loadable' = Loadable /\ BundlesFit' /\ CopiesFit(mirror)' /\ CopiesFit(codeKey)'
  BY <1>1, StoresRest, CopiesRest DEF ArtifactsInv
<1>7. PublicationsFit' /\ FaultsFit' /\ (manifest \in Cell(Loadable))'
  BY <1>1, <1>6, PublicationsRest, FaultsRest DEF ArtifactsInv
<1> QED
  BY <1>5, <1>6, <1>7 DEF ArtifactsInv

\* A request that goes on with the bundle of its version, or without one yet.
LEMMA ReaderGoesOn ==
  ASSUME ArtifactsInv, NEW r \in Readers,
         reader[r].pc \in {"bundle", "r2", "codes", "mirror"},
         UNCHANGED <<r2, app>>, NEW pc \in {"r2", "codes", "mirror", "cache"},
         NEW b \in Payloads \cup {None}, NEW inline \in BOOLEAN,
         pc # "r2" => b \in MadeFor(reader[r].version),
         Step(r, [reader[r] EXCEPT !.pc = pc, !.bundle = b, !.inline = inline])
  PROVE  AppsFit' /\ ReadersFit'
<1> DEFINE row == [reader[r] EXCEPT !.pc = pc, !.bundle = b, !.inline = inline]
<1>1. reader[r] \in Reader /\ ReaderFits(reader[r], Loadable, Warm)
  BY DEF ArtifactsInv, ReadersFit
<1>2. /\ row \in Reader /\ row.pc = pc /\ row.bundle = b /\ row.at = reader[r].at
      /\ row.version = reader[r].version /\ row.app = reader[r].app
      /\ row.phase = reader[r].phase
  <2>1. row \in Reader
    BY <1>1 DEF Reader
  <2>2. row.pc = pc /\ row.bundle = b
    BY <1>1 DEF Reader
  <2>3. /\ row.at = reader[r].at /\ row.version = reader[r].version
        /\ row.app = reader[r].app /\ row.phase = reader[r].phase
    BY <1>1 DEF Reader
  <2> QED BY <2>1, <2>2, <2>3
<1> HIDE DEF row
<1>3. ReaderFits(row, Loadable, Warm)
  BY <1>1, <1>2, ReaderKnows DEF ReaderFits
<1>4. AppsFit' /\ Warm' = Warm
  BY StoresRest, AppsRest DEF ArtifactsInv
<1>5. Step(r, row)
  BY DEF row
<1> QED
  BY <1>3, <1>4, <1>5, ReaderChanges DEF ArtifactsInv

LEMMA BundleFromMirrorKeeps ==
  ASSUME ArtifactsInv, NEW r \in Readers, BundleFromMirror(r)
  PROVE  ArtifactsInv'
<1> DEFINE v == reader[r].version
           row(pc, b, i) == [reader[r] EXCEPT !.pc = pc, !.bundle = b, !.inline = i]
<1>1. /\ UNCHANGED <<r2, mirror, codeKey, manifest, parent, app, publication, published,
                     broken>>
      /\ reader[r].pc = "bundle" /\ reader[r] \in Reader
  BY DEF BundleFromMirror, ArtifactsInv, ReadersFit
<1>2. v \in Versions
  BY <1>1, ReaderKnows
<1>3. Readable(mirror[v]) \subseteq MadeFor(v) \cup {None}
  <2>1. mirror[v] \in Cell(MadeFor(v) \cup {None})
    BY <1>2 DEF ArtifactsInv, CopiesFit
  <2> HIDE DEF v
  <2> QED
    BY <2>1, ReadableIsHeld
<1>4. PICK b \in Readable(mirror[v]) \cup {None} :
        Step(r, IF b # None
                THEN [reader[r] EXCEPT !.pc = "cache", !.bundle = b, !.inline = FALSE]
                ELSE [reader[r] EXCEPT !.pc = "r2"])
  BY DEF BundleFromMirror
<1>5. AppsFit' /\ ReadersFit'
  <2>1. CASE b # None
    <3>1. b \in MadeFor(v) /\ b \in Payloads
      BY <1>3, <1>4, <2>1 DEF MadeFor
    <3>2. Step(r, row("cache", b, FALSE))
      BY <1>4, <2>1
    <3> QED
      BY <1>1, <3>1, <3>2, ReaderGoesOn
  <2>2. CASE b = None
    <3>1. row("r2", reader[r].bundle, reader[r].inline) = [reader[r] EXCEPT !.pc = "r2"]
      BY <1>1 DEF Reader
    <3>2. Step(r, row("r2", reader[r].bundle, reader[r].inline))
      BY <1>4, <2>2, <3>1
    <3>3. reader[r].bundle \in Payloads \cup {None} /\ reader[r].inline \in BOOLEAN
      BY <1>1 DEF Reader
    <3> QED
      BY <1>1, <3>2, <3>3, ReaderGoesOn
  <2> QED
    BY <2>1, <2>2
<1>6. Loadable' = Loadable /\ BundlesFit' /\ CopiesFit(mirror)' /\ CopiesFit(codeKey)'
  BY <1>1, StoresRest, CopiesRest DEF ArtifactsInv
<1>7. /\ PublicationsFit' /\ FaultsFit' /\ (manifest \in Cell(Loadable))' /\ ParentsFit'
  BY <1>1, <1>6, PublicationsRest, FaultsRest, ParentsRest DEF ArtifactsInv
<1> QED
  BY <1>5, <1>6, <1>7 DEF ArtifactsInv

\* The version of a request is in R2, so neither the page nor the code is missing.
LEMMA BundleFromR2Keeps ==
  ASSUME ArtifactsInv, NEW r \in Readers, BundleFromR2(r)
  PROVE  ArtifactsInv'
<1> DEFINE v == reader[r].version
<1>1. /\ UNCHANGED <<r2, mirror, codeKey, manifest, parent, publication, published, broken>>
      /\ reader[r].pc = "r2"
  BY DEF BundleFromR2
<1>2. v \in Versions /\ v \in Loadable
  BY <1>1, ReaderKnows
<1>3. r2[v] # None /\ r2[v] \in MadeFor(v) /\ r2[v] \in Payloads
  BY <1>2 DEF Loadable, ArtifactsInv, BundlesFit, MadeFor
<1>4. /\ UNCHANGED app
      /\ Step(r, [reader[r] EXCEPT !.pc = "codes", !.bundle = r2[v], !.inline = TRUE])
  BY <1>3 DEF BundleFromR2
<1>5. AppsFit' /\ ReadersFit'
  BY <1>1, <1>3, <1>4, ReaderGoesOn
<1>6. Loadable' = Loadable /\ BundlesFit' /\ CopiesFit(mirror)' /\ CopiesFit(codeKey)'
  BY <1>1, StoresRest, CopiesRest DEF ArtifactsInv
<1>7. /\ PublicationsFit' /\ FaultsFit' /\ (manifest \in Cell(Loadable))' /\ ParentsFit'
  BY <1>1, <1>6, PublicationsRest, FaultsRest, ParentsRest DEF ArtifactsInv
<1> QED
  BY <1>5, <1>6, <1>7 DEF ArtifactsInv

LEMMA WriteBackKeeps ==
  ASSUME ArtifactsInv, NEW r \in Readers, WriteBackCodes(r) \/ WriteBackMirror(r)
  PROVE  ArtifactsInv'
<1> DEFINE x == reader[r].bundle
           i == reader[r].inline
           row(pc) == [reader[r] EXCEPT !.pc = pc, !.bundle = x, !.inline = i]
<1>1. /\ UNCHANGED <<r2, manifest, parent, app, publication, published>>
      /\ reader[r].pc \in {"codes", "mirror"} /\ reader[r] \in Reader
      /\ Break \/ UNCHANGED broken
  BY DEF WriteBackCodes, WriteBackMirror, ArtifactsInv, ReadersFit
<1>2. x \in MadeFor(reader[r].version) /\ x \in Payloads /\ i \in BOOLEAN
  BY <1>1 DEF ArtifactsInv, ReadersFit, ReaderFits, MadeFor, Reader
<1>3. \A pc \in {"mirror", "cache"} : row(pc) = [reader[r] EXCEPT !.pc = pc]
  BY <1>1 DEF Reader
<1>4. PICK pc \in {"mirror", "cache"} : Step(r, row(pc))
  BY <1>3 DEF WriteBackCodes, WriteBackMirror
<1>5. CopiesFit(mirror)' /\ CopiesFit(codeKey)'
  BY <1>2, PutsFit, CopiesRest DEF WriteBackCodes, WriteBackMirror, ArtifactsInv
<1> HIDE DEF x, i
<1>6. AppsFit' /\ ReadersFit'
  BY <1>1, <1>2, <1>4, ReaderGoesOn
<1>7. Loadable' = Loadable /\ BundlesFit'
  BY <1>1, StoresRest DEF ArtifactsInv
<1>8. /\ PublicationsFit' /\ FaultsFit' /\ (manifest \in Cell(Loadable))' /\ ParentsFit'
  BY <1>1, <1>7, PublicationsRest, BreakCounts, ParentsRest DEF ArtifactsInv
<1> QED
  BY <1>5, <1>6, <1>7, <1>8 DEF ArtifactsInv

\* A reader that waits in a worker waits in one that is there.
LEMMA RenderKeeps ==
  ASSUME ArtifactsInv, NEW r \in Readers, NEW p \in Parents, Render(r, p)
  PROVE  ArtifactsInv'
<1> DEFINE v == reader[r].app
           row(u) == [NoReader EXCEPT !.pc = "bundle", !.phase = "code",
                                      !.at = p, !.version = u, !.app = v]
<1>1. /\ UNCHANGED <<r2, mirror, codeKey, manifest, publication, published, broken>>
      /\ reader[r].pc = "render"
  BY DEF Render
<1>2. v \in Warm /\ v \in Versions
  BY <1>1 DEF ArtifactsInv, ReadersFit, ReaderFits, Warm
<1>3. ParentsFit' /\ AppsFit' /\ ReadersFit'
  <2>1. CASE Step(r, NoReader) /\ UNCHANGED <<parent, app>>
    <3>1. AppsFit' /\ Warm' = Warm /\ ParentsFit'
      BY <1>1, <2>1, StoresRest, AppsRest, ParentsRest DEF ArtifactsInv
    <3> QED
      BY <1>1, <2>1, <3>1, NoReaderFits, ReaderChanges DEF ArtifactsInv
  <2>2. CASE v \notin Listed /\ Answered(r, None) /\ UNCHANGED parent
    <3>1. AppsFit' /\ ReadersFit'
      BY <1>1, <1>2, <2>2, AnsweredKeeps
    <3>2. ParentsFit'
      BY <1>1, <2>2, StoresRest, ParentsRest DEF ArtifactsInv
    <3> QED
      BY <3>1, <3>2
  <2>3. CASE \E u \in ManifestAt(p, FALSE) :
               /\ parent' = [parent EXCEPT ![p] = [@ EXCEPT !.manifest = {u}]]
               /\ Step(r, row(u)) /\ UNCHANGED app
    <3>1. PICK u \in ManifestAt(p, FALSE) :
               /\ parent' = [parent EXCEPT ![p] = [@ EXCEPT !.manifest = {u}]]
               /\ Step(r, row(u)) /\ UNCHANGED app
      BY <2>3
    <3>2. u \in Loadable /\ u \in Versions
      BY ManifestLoads, LoadableIsVersion
    <3>3. CachesFit([parent[p] EXCEPT !.manifest = {u}], Loadable)
      BY <3>2, KeepsManifest DEF ArtifactsInv, ParentsFit
    <3>4. ParentsFit'
      BY <1>1, <3>1, <3>3, ParentChanges DEF ArtifactsInv
    <3>5. AppsFit' /\ Warm' = Warm
      BY <1>1, <3>1, StoresRest, AppsRest DEF ArtifactsInv
    <3>6. ReaderFits(row(u), Loadable, Warm)
      BY <1>2, <3>2 DEF ReaderFits, Reader, NoReader
    <3>7. ReadersFit'
      BY <1>1, <3>1, <3>5, <3>6, ReaderChanges DEF ArtifactsInv
    <3> QED
      BY <3>4, <3>5, <3>7
  <2> QED
    BY <2>1, <2>2, <2>3 DEF Render
<1>4. Loadable' = Loadable /\ BundlesFit' /\ CopiesFit(mirror)' /\ CopiesFit(codeKey)'
  BY <1>1, StoresRest, CopiesRest DEF ArtifactsInv
<1>5. PublicationsFit' /\ FaultsFit' /\ (manifest \in Cell(Loadable))'
  BY <1>1, <1>4, PublicationsRest, FaultsRest DEF ArtifactsInv
<1> QED
  BY <1>3, <1>4, <1>5 DEF ArtifactsInv

\* The code that is found for a version is kept under it, and answered.
LEMMA CodeFoundKeeps ==
  ASSUME ArtifactsInv, NEW r \in Readers, reader[r].pc \in {"code", "codeR2"}, UNCHANGED r2,
         NEW x \in MadeFor(reader[r].version), KeepCode(r, x), Answered(r, x)
  PROVE  ParentsFit' /\ AppsFit' /\ ReadersFit'
<1> DEFINE p == reader[r].at
           v == reader[r].version
           c == [parent[p] EXCEPT !.code[v] = x]
<1>1. p \in Parents /\ v \in Versions /\ CachesFit(parent[p], Loadable)
  BY ReaderKnows
<1>2. x \in Payloads /\ x # None
  BY NonePayload DEF MadeFor
<1>3. reader[r].app \in Warm
  BY DEF ArtifactsInv, ReadersFit, ReaderFits
<1>4. CachesFit(c, Loadable)
  BY <1>1, KeepsCode
<1>5. parent' = [parent EXCEPT ![p] = c]
  BY DEF KeepCode
<1> HIDE DEF c, p
<1>6. ParentsFit'
  BY <1>1, <1>4, <1>5, ParentChanges DEF ArtifactsInv
<1>7. AppsFit' /\ ReadersFit'
  BY <1>2, <1>3, AnsweredKeeps
<1> QED
  BY <1>6, <1>7

LEMMA CodeFromKeyKeeps ==
  ASSUME ArtifactsInv, NEW r \in Readers, CodeFromKey(r)
  PROVE  ArtifactsInv'
<1> DEFINE v == reader[r].version
           row == [reader[r] EXCEPT !.pc = "codeR2"]
<1>1. /\ UNCHANGED <<r2, mirror, codeKey, manifest, publication, published, broken>>
      /\ reader[r].pc = "code"
  BY DEF CodeFromKey
<1>2. v \in Versions
  BY <1>1, ReaderKnows
<1>3. Readable(codeKey[v]) \subseteq MadeFor(v) \cup {None}
  <2>1. codeKey[v] \in Cell(MadeFor(v) \cup {None})
    BY <1>2 DEF ArtifactsInv, CopiesFit
  <2> HIDE DEF v
  <2> QED
    BY <2>1, ReadableIsHeld
<1>4. PICK x \in Readable(codeKey[v]) \cup {None} :
        IF x # None THEN KeepCode(r, x) /\ Answered(r, x)
        ELSE Step(r, row) /\ UNCHANGED <<parent, app>>
  BY DEF CodeFromKey
<1>5. ParentsFit' /\ AppsFit' /\ ReadersFit'
  <2>1. CASE x # None
    BY <1>1, <1>3, <1>4, <2>1, CodeFoundKeeps
  <2>2. CASE x = None
    <3>1. reader[r] \in Reader /\ ReaderFits(reader[r], Loadable, Warm)
      BY DEF ArtifactsInv, ReadersFit
    <3>2. /\ row \in Reader /\ row.pc = "codeR2" /\ row.at = reader[r].at
          /\ row.version = v /\ row.app = reader[r].app /\ row.phase = reader[r].phase
      BY <3>1 DEF Reader
    <3>3. Step(r, row) /\ UNCHANGED <<parent, app>>
      BY <1>4, <2>2
    <3> HIDE DEF row
    <3>4. ReaderFits(row, Loadable, Warm)
      BY <1>1, <3>1, <3>2 DEF ReaderFits
    <3>5. AppsFit' /\ Warm' = Warm /\ ParentsFit'
      BY <1>1, <3>3, StoresRest, AppsRest, ParentsRest DEF ArtifactsInv
    <3> QED
      BY <1>1, <3>3, <3>4, <3>5, ReaderChanges DEF ArtifactsInv
  <2> QED
    BY <2>1, <2>2
<1>6. Loadable' = Loadable /\ BundlesFit' /\ CopiesFit(mirror)' /\ CopiesFit(codeKey)'
  BY <1>1, StoresRest, CopiesRest DEF ArtifactsInv
<1>7. PublicationsFit' /\ FaultsFit' /\ (manifest \in Cell(Loadable))'
  BY <1>1, <1>6, PublicationsRest, FaultsRest DEF ArtifactsInv
<1> QED
  BY <1>5, <1>6, <1>7 DEF ArtifactsInv

\* The bundle is in R2; if it lacks the document, it is a version that does.
LEMMA CodeFromR2Keeps ==
  ASSUME ArtifactsInv, NEW r \in Readers, CodeFromR2(r)
  PROVE  ArtifactsInv'
<1> DEFINE v == reader[r].version
           x == r2[v]
<1>1. /\ UNCHANGED <<r2, mirror, codeKey, manifest, publication, published, broken>>
      /\ reader[r].pc = "codeR2"
      /\ IF x = None \/ x.version \notin Listed
         THEN Answered(r, None) /\ UNCHANGED parent
         ELSE KeepCode(r, x) /\ Answered(r, x)
  BY DEF CodeFromR2
<1>2. v \in Versions /\ v \in Loadable
  BY <1>1, ReaderKnows
<1>3. x # None /\ x \in MadeFor(v) /\ x.version = v
  BY <1>2 DEF Loadable, ArtifactsInv, BundlesFit, MadeFor
<1>4. ParentsFit' /\ AppsFit' /\ ReadersFit'
  <2>1. CASE v \notin Listed
    <3>1. Removed(Loadable)
      BY <1>2, <2>1 DEF Removed
    <3>2. Answered(r, None) /\ UNCHANGED parent
      BY <1>1, <1>3, <2>1
    <3>3. reader[r].app \in Warm
      BY <1>1 DEF ArtifactsInv, ReadersFit, ReaderFits
    <3>4. AppsFit' /\ ReadersFit'
      BY <1>1, <3>1, <3>2, <3>3, AnsweredKeeps
    <3>5. ParentsFit'
      BY <1>1, <3>2, StoresRest, ParentsRest DEF ArtifactsInv
    <3> QED
      BY <3>4, <3>5
  <2>2. CASE v \in Listed
    <3>1. KeepCode(r, x) /\ Answered(r, x)
      BY <1>1, <1>3, <2>2
    <3> HIDE DEF x
    <3> QED
      BY <1>1, <1>3, <3>1, CodeFoundKeeps
  <2> QED
    BY <2>1, <2>2
<1>5. Loadable' = Loadable /\ BundlesFit' /\ CopiesFit(mirror)' /\ CopiesFit(codeKey)'
  BY <1>1, StoresRest, CopiesRest DEF ArtifactsInv
<1>6. PublicationsFit' /\ FaultsFit' /\ (manifest \in Cell(Loadable))'
  BY <1>1, <1>5, PublicationsRest, FaultsRest DEF ArtifactsInv
<1> QED
  BY <1>4, <1>5, <1>6 DEF ArtifactsInv

-----------------------------------------------------------------------------
(* The platform.                                                           *)

LEMMA ManifestCopyExpiresKeeps ==
  ASSUME ArtifactsInv, NEW p \in Parents, ManifestCopyExpires(p)
  PROVE  ArtifactsInv'
<1> USE DEF ArtifactsInv
<1>1. UNCHANGED <<r2, mirror, codeKey, manifest, app, reader, publication, published, broken>>
  BY DEF ManifestCopyExpires
<1>2. CachesFit([parent[p] EXCEPT !.manifest = {}], Loadable)
  BY DEF ParentsFit, CachesFit, Caches
<1>3. ParentsFit'
  BY <1>1, <1>2, ParentChanges DEF ManifestCopyExpires
<1>4. Loadable' = Loadable /\ BundlesFit' /\ CopiesFit(mirror)' /\ CopiesFit(codeKey)'
  BY <1>1, StoresRest, CopiesRest
<1>5. AppsFit' /\ ReadersFit' /\ PublicationsFit' /\ FaultsFit' /\ (manifest \in Cell(Loadable))'
  BY <1>1, <1>4, AppsRest, ReadersRest, PublicationsRest, FaultsRest
<1> QED
  BY <1>3, <1>4, <1>5

LEMMA ParentGoesKeeps ==
  ASSUME ArtifactsInv, NEW p \in Parents, ParentGoes(p)
  PROVE  ArtifactsInv'
<1> USE DEF ArtifactsInv
<1>1. /\ UNCHANGED <<r2, mirror, codeKey, manifest, app, publication, published, broken>>
      /\ parent' = [parent EXCEPT ![p] = ColdCaches]
      /\ reader' = [r \in Readers |-> IF reader[r].at = p THEN NoReader ELSE reader[r]]
  BY DEF ParentGoes
<1>2. ParentsFit'
  BY <1>1, ColdFits, ParentChanges
<1>3. Loadable' = Loadable /\ BundlesFit' /\ CopiesFit(mirror)' /\ CopiesFit(codeKey)'
  BY <1>1, StoresRest, CopiesRest
<1>4. AppsFit' /\ Warm' = Warm /\ PublicationsFit' /\ FaultsFit' /\ (manifest \in Cell(Loadable))'
  BY <1>1, <1>3, AppsRest, PublicationsRest, FaultsRest
<1>5. \A r \in Readers : ReaderFits(reader'[r], Loadable, Warm)
  BY <1>1, NoReaderFits DEF ReadersFit
<1>6. reader' \in [Readers -> Reader]
  <2>1. NoReader \in Reader
    BY NoReaderFits, FittingRows
  <2> QED
    BY <1>1, <2>1 DEF ReadersFit
<1>7. ReadersFit'
  BY <1>3, <1>4, <1>5, <1>6 DEF ReadersFit
<1> QED
  BY <1>2, <1>3, <1>4, <1>7

\* Only a worker that nobody waits in goes.
LEMMA AppGoesKeeps ==
  ASSUME ArtifactsInv, NEW v \in Versions, AppGoes(v)
  PROVE  ArtifactsInv'
<1> USE DEF ArtifactsInv
<1>1. /\ UNCHANGED <<r2, mirror, codeKey, manifest, parent, reader, publication, published,
                     broken>>
      /\ app' = [app EXCEPT ![v] = None]
      /\ \A r \in Readers : reader[r].app # v
  BY DEF AppGoes
<1>2. Loadable' = Loadable /\ BundlesFit' /\ CopiesFit(mirror)' /\ CopiesFit(codeKey)'
  BY <1>1, StoresRest, CopiesRest
<1>3. ParentsFit' /\ PublicationsFit' /\ FaultsFit' /\ (manifest \in Cell(Loadable))'
  BY <1>1, <1>2, ParentsRest, PublicationsRest, FaultsRest
<1>4. AppFits(v, None, Loadable)
  BY DEF AppFits
<1>5. AppsFit'
  BY <1>1, <1>2, <1>4 DEF AppsFit
<1>6. \A u \in Warm : u # v => u \in Warm'
  BY <1>1 DEF Warm, AppsFit
<1>7. \A r \in Readers : ReaderFits(reader[r], Loadable, Warm')
  BY <1>1, <1>6 DEF ReadersFit, ReaderFits
<1>8. ReadersFit'
  BY <1>1, <1>2, <1>7 DEF ReadersFit
<1> QED
  BY <1>2, <1>3, <1>5, <1>8

LEMMA ManifestPropagatesKeeps ==
  ASSUME ArtifactsInv, ManifestPropagates
  PROVE  ArtifactsInv'
<1> USE DEF ArtifactsInv
<1>1. /\ UNCHANGED <<r2, mirror, codeKey, parent, app, reader, publication, published, broken>>
      /\ manifest' = [manifest EXCEPT !.old = {}]
  BY DEF ManifestPropagates
<1>2. Loadable' = Loadable /\ BundlesFit' /\ CopiesFit(mirror)' /\ CopiesFit(codeKey)'
  BY <1>1, StoresRest, CopiesRest
<1>3. (manifest \in Cell(Loadable))'
  BY <1>1, <1>2, ReadableIsHeld
<1>4. ParentsFit' /\ AppsFit' /\ ReadersFit' /\ PublicationsFit' /\ FaultsFit'
  BY <1>1, <1>2, ParentsRest, AppsRest, ReadersRest, PublicationsRest, FaultsRest
<1> QED
  BY <1>2, <1>3, <1>4

LEMMA CopyPropagates ==
  ASSUME NEW copies, CopiesFit(copies), NEW v \in Versions
  PROVE  CopiesFit([copies EXCEPT ![v].old = {}])
<1> DEFINE cell == [copies[v] EXCEPT !.old = {}]
           next == [copies EXCEPT ![v] = cell]
<1>1. cell \in Cell(Payloads \cup {None})
  BY ReadableIsHeld DEF CopiesFit
<1>2. cell \in Cell(MadeFor(v) \cup {None})
  BY ReadableIsHeld DEF CopiesFit
<1>3. [copies EXCEPT ![v].old = {}] = next
  BY DEF CopiesFit
<1> HIDE DEF cell
<1>4. next \in [Versions -> Cell(Payloads \cup {None})]
  BY <1>1 DEF CopiesFit
<1>5. \A u \in Versions : next[u] \in Cell(MadeFor(u) \cup {None})
  BY <1>2 DEF CopiesFit
<1> QED
  BY <1>3, <1>4, <1>5 DEF CopiesFit

LEMMA CopiesPropagateKeeps ==
  ASSUME ArtifactsInv, NEW v \in Versions, CopiesPropagate(v)
  PROVE  ArtifactsInv'
<1> USE DEF ArtifactsInv
<1>1. /\ UNCHANGED <<r2, manifest, parent, app, reader, publication, published, broken>>
      /\ mirror' = [mirror EXCEPT ![v].old = {}]
      /\ codeKey' = [codeKey EXCEPT ![v].old = {}]
  BY DEF CopiesPropagate
<1>2. CopiesFit(mirror)' /\ CopiesFit(codeKey)'
  <2>1. CopiesFit(mirror') /\ CopiesFit(codeKey')
    BY <1>1, CopyPropagates
  <2> QED
    BY <2>1 DEF CopiesFit
<1>3. Loadable' = Loadable /\ BundlesFit' /\ (manifest \in Cell(Loadable))'
  BY <1>1, StoresRest
<1>4. ParentsFit' /\ AppsFit' /\ ReadersFit' /\ PublicationsFit' /\ FaultsFit'
  BY <1>1, <1>3, ParentsRest, AppsRest, ReadersRest, PublicationsRest, FaultsRest
<1> QED
  BY <1>2, <1>3, <1>4

-----------------------------------------------------------------------------
(* What the specification guarantees.                                      *)

LEMMA ArtifactsInitFits ==
  ASSUME ArtifactsInit
  PROVE  ArtifactsInv
<1> DEFINE nothing == [now |-> None, old |-> {}]
<1>1. PICK b \in Builds :
        r2 = [v \in Versions |-> IF v = FirstVersion
                                 THEN [version |-> FirstVersion, build |-> b] ELSE None]
  BY DEF ArtifactsInit
<1>2. [version |-> FirstVersion, build |-> b] \in MadeFor(FirstVersion)
  BY ArtifactsAssumption DEF MadeFor, Payloads
<1>3. BundlesFit /\ FirstVersion \in Loadable
  BY <1>1, <1>2, ArtifactsAssumption, NonePayload DEF BundlesFit, Loadable, MadeFor
<1>4. /\ mirror = [v \in Versions |-> nothing] /\ codeKey = mirror
      /\ manifest = [now |-> FirstVersion, old |-> {}]
      /\ parent = [p \in Parents |-> ColdCaches]
      /\ app = [v \in Versions |-> None]
      /\ reader = [r \in Readers |-> NoReader]
      /\ publication = [w \in Publications |-> NoPublication]
      /\ published = 0 /\ broken = 0
  BY DEF ArtifactsInit
<1>5. CopiesFit(mirror) /\ CopiesFit(codeKey)
  BY <1>4 DEF CopiesFit, Cell
<1>6. manifest \in Cell(Loadable)
  BY <1>3, <1>4 DEF Cell
<1>7. ParentsFit
  <2>1. CachesFit(ColdCaches, Loadable) /\ ColdCaches \in Caches
    BY ColdFits, FittingRows
  <2> QED
    BY <1>4, <2>1 DEF ParentsFit
<1>8. AppsFit
  BY <1>4 DEF AppsFit, AppFits
<1>9. ReadersFit
  <2>1. ReaderFits(NoReader, Loadable, Warm) /\ NoReader \in Reader
    BY NoReaderFits, FittingRows
  <2> QED
    BY <1>4, <2>1 DEF ReadersFit
<1>10. PublicationsFit
  <2>1. PublicationFits(NoPublication, Loadable) /\ NoPublication \in Publication
    BY NoPublicationFits, FittingRows
  <2> QED
    BY <1>4, <2>1 DEF PublicationsFit
<1>11. FaultsFit
  BY <1>4, ArtifactsAssumption DEF FaultsFit
<1> QED
  BY <1>3, <1>5, <1>6, <1>7, <1>8, <1>9, <1>10, <1>11 DEF ArtifactsInv

LEMMA ArtifactsStepKeeps ==
  ASSUME ArtifactsInv, [ArtifactsNext]_artifactVars
  PROVE  ArtifactsInv'
<1>1. ASSUME NEW w \in Publications, NEW payload \in Payloads, NEW direct \in BOOLEAN,
             Publish(w, payload, direct)
      PROVE  ArtifactsInv'
  BY <1>1, PublishKeeps
<1>2. ASSUME NEW w \in Publications, PublicationStep(w) \/ PublishFails(w)
      PROVE  ArtifactsInv'
  BY <1>2, PublishBundleKeeps, PublishCopiesKeeps, PublishManifestKeeps, PublishFailsKeeps
     DEF PublicationStep
<1>3. ASSUME NEW r \in Readers, NEW p \in Parents, NEW bypass \in BOOLEAN,
             NEW expected \in Versions \cup {None}, ReaderArrives(r, p, bypass, expected)
      PROVE  ArtifactsInv'
  BY <1>3, ReaderArrivesKeeps
<1>4. ASSUME NEW r \in Readers, ReaderStep(r)
      PROVE  ArtifactsInv'
  BY <1>4, BundleFromMemoryKeeps, BundleFromMirrorKeeps, BundleFromR2Keeps, WriteBackKeeps,
     CacheBundleKeeps, RenderKeeps, CodeFromKeyKeeps, CodeFromR2Keeps DEF ReaderStep
<1>5. ASSUME NEW p \in Parents, ManifestCopyExpires(p) \/ ParentGoes(p)
      PROVE  ArtifactsInv'
  BY <1>5, ManifestCopyExpiresKeeps, ParentGoesKeeps
<1>6. ASSUME NEW v \in Versions, AppGoes(v) \/ CopiesPropagate(v)
      PROVE  ArtifactsInv'
  BY <1>6, AppGoesKeeps, CopiesPropagateKeeps
<1>7. CASE ManifestPropagates
  BY <1>7, ManifestPropagatesKeeps
<1>8. CASE UNCHANGED artifactVars
  <2>1. UNCHANGED <<r2, mirror, codeKey, manifest, parent, app, reader, publication,
                    published, broken>>
    BY <1>8 DEF artifactVars
  <2>2. Loadable' = Loadable /\ BundlesFit' /\ CopiesFit(mirror)' /\ CopiesFit(codeKey)'
    BY <2>1, StoresRest, CopiesRest DEF ArtifactsInv
  <2>3. ParentsFit' /\ AppsFit' /\ ReadersFit' /\ PublicationsFit' /\ FaultsFit'
    BY <2>1, <2>2, ParentsRest, AppsRest, ReadersRest, PublicationsRest, FaultsRest
       DEF ArtifactsInv
  <2> QED
    BY <2>1, <2>2, <2>3 DEF ArtifactsInv
<1> QED
  BY <1>1, <1>2, <1>3, <1>4, <1>5, <1>6, <1>7, <1>8 DEF ArtifactsNext

\* In every state that can be reached, whatever is held of a version fits it, and
\* whoever goes by a version finds it in R2.
LEMMA ArtifactsInvHolds == ArtifactsSpec => []ArtifactsInv
<1>1. ArtifactsInit => ArtifactsInv
  BY ArtifactsInitFits
<1>2. ArtifactsInv /\ [ArtifactsNext]_artifactVars => ArtifactsInv'
  BY ArtifactsStepKeeps
<1> QED
  BY <1>1, <1>2, PTL DEF ArtifactsSpec

\* Every variable of the artifacts holds a value of its kind.
THEOREM ArtifactsTyped == ArtifactsSpec => []ArtifactsTypeOK
<1>1. ArtifactsInv => ArtifactsTypeOK
  <2>1. Loadable \subseteq Versions
    BY LoadableIsVersion
  <2>2. manifest \in Cell(Loadable) => manifest \in Cell(Versions)
    BY <2>1 DEF Cell
  <2> QED
    BY <2>2 DEF ArtifactsInv, BundlesFit, CopiesFit, ParentsFit, AppsFit, ReadersFit,
                PublicationsFit, FaultsFit, ArtifactsTypeOK
<1> QED
  BY <1>1, ArtifactsInvHolds, PTL

\* Once content has been published, no page is answered that it is not there, and no
\* worker keeps that a document of its version is missing unless a version without
\* it was put into R2: PublishBundle precedes whatever names a version, and R2
\* forgets none.
THEOREM DocumentsServed == ArtifactsSpec => []DocumentsAreServed
<1>1. ArtifactsInv => DocumentsAreServed
  <2> SUFFICES ASSUME ArtifactsInv PROVE NeverUnprovisioned /\ LostOnlyByRemoval
    BY DEF DocumentsAreServed
  <2>1. NeverUnprovisioned
    BY DEF ArtifactsInv, ReadersFit, ReaderFits, NeverUnprovisioned
  <2>2. ASSUME NEW v \in Listed, app[v] # None, None \in app[v].page
        PROVE  \E u \in Versions \ Listed : r2[u] # None
    <3>1. v \in Versions
      BY ArtifactsAssumption
    <3>2. Removed(Loadable)
      BY <2>2, <3>1 DEF ArtifactsInv, AppsFit, AppFits
    <3> QED
      BY <3>2 DEF Removed, Loadable
  <2> QED
    BY <2>1, <2>2 DEF LostOnlyByRemoval
<1> QED
  BY <1>1, ArtifactsInvHolds, PTL

\* Whatever is kept under a version, in R2, in KV, in an isolate or in a worker, was
\* compiled for it, whatever publications, requests and caches overlap.
THEOREM CachesNeverMix == ArtifactsSpec => []CachesDoNotMix
<1>1. ArtifactsInv => CachesDoNotMix
  <2> DEFINE held(v) ==
               Readable(mirror[v]) \cup Readable(codeKey[v]) \cup {r2[v]}
                \cup (UNION {{parent[p].modules[v], parent[p].code[v]} : p \in Parents})
                \cup {parent[p].bundle[v].payload :
                        p \in {q \in Parents : parent[q].bundle[v] # None}}
                \cup (IF app[v] = None THEN {} ELSE {app[v].modules})
  <2> SUFFICES ASSUME ArtifactsInv, NEW v \in Versions
               PROVE  \A x \in held(v) \ {None} : x.version = v
    BY DEF CachesDoNotMix
  <2> DEFINE fit == MadeFor(v) \cup {None}
  <2>1. Readable(mirror[v]) \subseteq fit /\ Readable(codeKey[v]) \subseteq fit
    <3>1. mirror[v] \in Cell(fit) /\ codeKey[v] \in Cell(fit)
      BY DEF ArtifactsInv, CopiesFit
    <3> HIDE DEF fit
    <3> QED
      BY <3>1, ReadableIsHeld
  <2>2. r2[v] \in fit
    BY DEF ArtifactsInv, BundlesFit
  <2>3. \A p \in Parents : /\ parent[p].modules[v] \in fit /\ parent[p].code[v] \in fit
                           /\ parent[p].bundle[v] # None => parent[p].bundle[v].payload \in fit
    BY DEF ArtifactsInv, ParentsFit, CachesFit
  <2>4. app[v] # None => app[v].modules \in fit
    BY DEF ArtifactsInv, AppsFit, AppFits
  <2>5. \A x \in fit \ {None} : x.version = v
    BY DEF MadeFor
  <2> HIDE DEF fit
  <2> DEFINE isolates == UNION {{parent[p].modules[v], parent[p].code[v]} : p \in Parents}
             bundles == {parent[p].bundle[v].payload :
                           p \in {q \in Parents : parent[q].bundle[v] # None}}
             worker == IF app[v] = None THEN {} ELSE {app[v].modules}
  <2>6. isolates \subseteq fit
    BY <2>3
  <2>7. bundles \subseteq fit
    BY <2>3
  <2>8. worker \subseteq fit
    BY <2>4
  <2>9. held(v) = Readable(mirror[v]) \cup Readable(codeKey[v]) \cup {r2[v]}
                    \cup isolates \cup bundles \cup worker
    OBVIOUS
  <2> HIDE DEF held, isolates, bundles, worker
  <2> QED
    BY <2>1, <2>2, <2>5, <2>6, <2>7, <2>8, <2>9
<1> QED
  BY <1>1, ArtifactsInvHolds, PTL

-----------------------------------------------------------------------------
(* The inductive invariant of the synchronisation of the search.           *)

Underway(s) == sync[s].pc # "idle"

\* The chunks that a replacement has written before its batch n.
Written(a, n) == [c \in ChunkIds |-> IF c < n THEN a.at ELSE 0]

\* A sync has what its step needs.
SyncFits(row) ==
  /\ row.pc \in {"read", "check"} => row.next = 1
  /\ row.pc \in {"check", "replace"} => row.artifact # None
  /\ row.pc = "replace" => row.next <= row.artifact.chunks
  /\ row.pc = "clear" => row.artifact = None

\* A sync that is the only one of its time: what the database has half way, and that
\* it ends with what the sync had read, unless it was taken to be there already.
SoloFits(row, marked, held, lone) ==
  /\ row.pc = "replace" /\ row.next > 1 =>
       marked = None /\ held = Written(row.artifact, row.next)
  /\ row.pc = "finish" =>
       /\ marked = row.artifact
       /\ marked # None /\ (lone \/ row.force) => held = RowsOf(marked)

\* A sync that overlaps another is not solo; as long as none has, all are.
SoloIsAlone ==
  /\ \A s, t \in Syncs : Underway(s) /\ Underway(t) /\ sync[s].solo => s = t
  /\ alone => \A s \in Syncs : Underway(s) => sync[s].solo

\* No search has gone by this time, and none is cached under it.
Unused(k) ==
  /\ syncedAt # k /\ cached[k] = None
  /\ \A r \in Searchers : search[r].pc # "idle" => search[r].key # k

\* The time that a sync will write is its own, and nobody has seen it.
StampsFit ==
  /\ \A s \in Syncs : Underway(s) => sync[s].stamp <= started /\ Unused(sync[s].stamp)
  /\ \A s, t \in Syncs :
       Underway(s) /\ Underway(t) /\ sync[s].stamp = sync[t].stamp => s = t
  /\ \A k \in Stamps : k > started => Unused(k)

\* Between syncs none of which was lost, answers are of what the database has.
AnswersFit ==
  ~Syncing /\ whole =>
    /\ cached[syncedAt] \in {None, Visible}
    /\ \A r \in Searchers :
         search[r].pc = "store" /\ search[r].key = syncedAt => search[r].answer = Visible

SyncsFit == \A s \in Syncs : SyncFits(sync[s])
SolosFit == \A s \in Syncs : sync[s].solo => SoloFits(sync[s], mark, rows, alone)
AloneIsComplete == alone => SearchableIsComplete
LastIsCopied == alone /\ whole /\ ~Syncing => mark = copied

SyncInv ==
  /\ SearchSyncTypeOK
  /\ SyncsFit /\ SolosFit /\ SoloIsAlone /\ AloneIsComplete /\ LastIsCopied
  /\ StampsFit /\ AnswersFit

-----------------------------------------------------------------------------
(* Steps that leave something alone.                                       *)

\* Nothing that was copied, and no sync, is touched: only the artifact may be.
LEMMA CopyRests ==
  ASSUME SyncInv, UNCHANGED <<rows, mark, sync, started, syncedAt, search, cached, whole,
                              alone, copied>>
  PROVE  /\ SyncsFit' /\ SolosFit' /\ SoloIsAlone' /\ AloneIsComplete' /\ LastIsCopied'
         /\ StampsFit' /\ AnswersFit'
<1>1. SyncsFit' /\ SolosFit' /\ SoloIsAlone' /\ AloneIsComplete'
  BY DEF SyncInv, SyncsFit, SolosFit, SoloIsAlone, Underway, AloneIsComplete,
         SearchableIsComplete
<1>2. Syncing' = Syncing /\ Visible' = Visible
  BY DEF Syncing, Visible
<1>3. LastIsCopied' /\ AnswersFit'
  BY <1>2 DEF SyncInv, LastIsCopied, AnswersFit
<1>4. StampsFit'
  BY DEF SyncInv, StampsFit, Underway, Unused
<1> QED
  BY <1>1, <1>3, <1>4

\* A search goes on: the database and its syncs do not know.
LEMMA DatabaseRests ==
  ASSUME SyncInv, UNCHANGED <<rows, mark, sync, whole, alone, copied>>
  PROVE  /\ SyncsFit' /\ SolosFit' /\ SoloIsAlone' /\ AloneIsComplete' /\ LastIsCopied'
         /\ Syncing' = Syncing /\ Visible' = Visible
<1>1. SyncsFit' /\ SolosFit' /\ SoloIsAlone' /\ AloneIsComplete'
  BY DEF SyncInv, SyncsFit, SolosFit, SoloIsAlone, Underway, AloneIsComplete,
         SearchableIsComplete
<1>2. Syncing' = Syncing /\ Visible' = Visible
  BY DEF Syncing, Visible
<1>3. LastIsCopied'
  BY <1>2 DEF SyncInv, LastIsCopied
<1> QED
  BY <1>1, <1>2, <1>3

\* Sync s is under way and goes on, or ends, as row.
LEMMA SyncRow ==
  ASSUME SyncInv, NEW s \in Syncs, Underway(s), NEW row \in SyncState, Continue(s, row),
         SyncFits(row), row.solo => SoloFits(row, mark', rows', alone'),
         row.pc # "idle" => row.solo = sync[s].solo /\ row.stamp = sync[s].stamp,
         alone' => alone \/ sync[s].solo,
         UNCHANGED <<started, search, cached>>,
         syncedAt' = syncedAt \/ (row.pc = "idle" /\ syncedAt' = sync[s].stamp)
  PROVE  /\ sync' \in [Syncs -> SyncState]
         /\ SyncsFit' /\ SolosFit' /\ SoloIsAlone' /\ StampsFit'
<1>1. sync \in [Syncs -> SyncState] /\ started \in Stamps /\ Stamps \subseteq Nat
  BY SearchAssumption DEF SyncInv, SearchSyncTypeOK, Stamps
<1>2. sync' = [sync EXCEPT ![s] = row]
  BY DEF Continue
<1>3. sync' \in [Syncs -> SyncState] /\ \A t \in Syncs : sync'[t] = IF t = s THEN row ELSE sync[t]
  BY <1>1, <1>2
<1>4. SyncsFit'
  BY <1>3 DEF SyncInv, SyncsFit
<1>5. \A t \in Syncs : t # s /\ Underway(t) => ~sync[t].solo /\ ~sync[s].solo
  BY DEF SyncInv, SoloIsAlone
<1>6. SolosFit'
  <2>1. \A t \in Syncs : sync'[t].solo => SoloFits(sync'[t], mark', rows', alone')
    <3> SUFFICES ASSUME NEW t \in Syncs, t # s, sync[t].solo
                 PROVE  SoloFits(sync[t], mark', rows', alone')
      BY <1>3
    <3>1. sync[t].pc = "idle"
      BY <1>5 DEF Underway
    <3> QED
      BY <3>1 DEF SoloFits
  <2> QED
    BY <2>1 DEF SolosFit
<1>7. \A t \in Syncs : Underway(t)' => /\ Underway(t) /\ sync'[t].solo = sync[t].solo
                                       /\ sync'[t].stamp = sync[t].stamp
                                       /\ t = s => row.pc # "idle"
  BY <1>3 DEF Underway
<1>8. SoloIsAlone'
  <2>1. \A t, u \in Syncs : Underway(t)' /\ Underway(u)' /\ sync'[t].solo => t = u
    BY <1>7 DEF SyncInv, SoloIsAlone
  <2>2. ASSUME alone', NEW t \in Syncs, Underway(t)'
        PROVE  sync'[t].solo
    BY <1>5, <1>7, <2>2 DEF SyncInv, SoloIsAlone
  <2> QED
    BY <2>1, <2>2 DEF SoloIsAlone
<1>9. StampsFit'
  <2>1. \A t \in Syncs : Underway(t)' => sync'[t].stamp <= started' /\ Unused(sync[t].stamp)
    BY <1>7 DEF SyncInv, StampsFit
  <2>2. ASSUME NEW k, Unused(k), row.pc = "idle" => k # sync[s].stamp
        PROVE  /\ syncedAt' # k /\ cached'[k] = None
               /\ \A r \in Searchers : search'[r].pc # "idle" => search'[r].key # k
    BY <2>2 DEF Unused
  <2>3. ASSUME NEW t \in Syncs, Underway(t)'
        PROVE  /\ syncedAt' # sync'[t].stamp /\ cached'[sync'[t].stamp] = None
               /\ \A r \in Searchers :
                    search'[r].pc # "idle" => search'[r].key # sync'[t].stamp
    <3> DEFINE k == sync[t].stamp
    <3>1. Unused(k) /\ k = sync'[t].stamp
      BY <1>7, <2>1, <2>3
    <3>2. row.pc = "idle" => k # sync[s].stamp
      BY <1>7, <2>3 DEF SyncInv, StampsFit
    <3> HIDE DEF k
    <3> QED
      BY <2>2, <3>1, <3>2
  <2>4. \A t, u \in Syncs :
          Underway(t)' /\ Underway(u)' /\ sync'[t].stamp = sync'[u].stamp => t = u
    BY <1>7 DEF SyncInv, StampsFit
  <2>5. ASSUME NEW k \in Stamps, k > started
        PROVE  /\ syncedAt' # k /\ cached'[k] = None
               /\ \A r \in Searchers : search'[r].pc # "idle" => search'[r].key # k
    <3>1. Unused(k)
      BY <2>5 DEF SyncInv, StampsFit
    <3>2. sync[s].stamp \in Nat /\ sync[s].stamp <= started
      BY <1>1 DEF SyncInv, StampsFit, SyncState
    <3>3. k # sync[s].stamp
      BY <1>1, <2>5, <3>2
    <3> QED
      BY <2>2, <3>1, <3>3
  <2> QED
    BY <2>1, <2>3, <2>4, <2>5 DEF StampsFit, Unused
<1> QED
  BY <1>3, <1>4, <1>6, <1>8, <1>9

\* A sync that is there when a sync goes on: answers are not of this moment.
LEMMA SyncingRests ==
  ASSUME NEW s \in Syncs, Underway(s)'
  PROVE  AnswersFit' /\ LastIsCopied'
BY DEF Underway, Syncing, AnswersFit, LastIsCopied

\* The types of what a step writes.
LEMMA SyncTypes ==
  ASSUME SyncInv, NEW s \in Syncs
  PROVE  /\ sync[s] \in SyncState /\ NoSync \in SyncState /\ NoRows \in Rows
         /\ sync[s].artifact # None =>
              /\ sync[s].artifact \in Artifact
              /\ RowsOf(sync[s].artifact) \in Rows
         /\ SyncFits(sync[s]) /\ SyncFits(NoSync)
         /\ \A marked, held, lone : SoloFits(NoSync, marked, held, lone)
<1>1. sync[s] \in SyncState /\ SyncFits(sync[s])
  BY DEF SyncInv, SearchSyncTypeOK, SyncsFit
<1>2. NoSync \in SyncState /\ NoRows \in Rows
  BY SearchAssumption DEF NoSync, SyncState, NoRows, Rows, Stamps
<1>3. sync[s].artifact # None => sync[s].artifact \in Artifact
  BY <1>1 DEF SyncState
<1>4. \A a \in Artifact : RowsOf(a) \in Rows
  BY SearchAssumption DEF Artifact, RowsOf, Rows, ChunkIds
<1>5. SyncFits(NoSync) /\ \A marked, held, lone : SoloFits(NoSync, marked, held, lone)
  BY DEF SyncFits, SoloFits, NoSync
<1> QED
  BY <1>1, <1>2, <1>3, <1>4, <1>5

-----------------------------------------------------------------------------
(* The steps of a sync.                                                    *)

LEMMA ArtifactStepKeeps ==
  ASSUME SyncInv, (\E n \in ChunkIds : PutArtifact(n)) \/ SpoilArtifact
  PROVE  SyncInv'
<1>1. UNCHANGED <<rows, mark, sync, started, syncedAt, search, cached, whole, alone, copied>>
  BY DEF PutArtifact, SpoilArtifact
<1>2. artifact' \in Artifact \cup {None} /\ generated' \in 0..MaxArtifacts
      /\ losses' \in 0..MaxLosses
  BY SearchAssumption
     DEF SyncInv, SearchSyncTypeOK, PutArtifact, SpoilArtifact, Artifact, ChunkIds
<1>3. SearchSyncTypeOK'
  BY <1>1, <1>2 DEF SyncInv, SearchSyncTypeOK
<1> QED
  BY <1>1, <1>3, CopyRests DEF SyncInv

LEMMA SyncBeginsKeeps ==
  ASSUME SyncInv, NEW s \in Syncs, NEW force \in BOOLEAN, SyncBegins(s, force)
  PROVE  SyncInv'
<1> DEFINE others == {t \in Syncs : sync[t].pc # "idle"}
           row == [NoSync EXCEPT !.pc = "read", !.force = force,
                                 !.solo = (others = {}), !.stamp = started + 1]
           beside(t) == [sync[t] EXCEPT !.solo = FALSE]
<1>1. /\ sync[s].pc = "idle" /\ started < MaxSyncs /\ started' = started + 1
      /\ sync' = [t \in Syncs |-> IF t = s THEN row
                                  ELSE IF t \in others THEN beside(t) ELSE sync[t]]
      /\ alone' = (alone /\ others = {})
      /\ UNCHANGED <<artifact, generated, rows, mark, syncedAt, search, cached, whole, copied,
                     losses>>
  BY DEF SyncBegins
<1>2. started \in Nat /\ started' \in Stamps /\ started + 1 \in Stamps
  <2>1. started \in 0..MaxSyncs /\ MaxSyncs \in Nat
    BY SearchAssumption DEF SyncInv, SearchSyncTypeOK, Stamps
  <2>2. started < MaxSyncs /\ started' = started + 1
    BY <1>1
  <2> QED
    BY <2>1, <2>2 DEF Stamps
<1>3. /\ row \in SyncState /\ row.pc = "read" /\ row.solo = (others = {})
      /\ row.stamp = started + 1 /\ row.next = 1
  <2> DEFINE begins == (others = {})
  <2>1. begins \in BOOLEAN /\ 1 \in 1..MaxChunks
    BY SearchAssumption
  <2> HIDE DEF begins
  <2> QED
    BY <1>2, <2>1 DEF NoSync, SyncState, begins
<1>4. \A t \in Syncs : /\ sync[t] \in SyncState /\ beside(t) \in SyncState
                       /\ SyncFits(sync[t]) /\ SyncFits(beside(t))
                       /\ beside(t).solo = FALSE /\ beside(t).stamp = sync[t].stamp
                       /\ beside(t).pc = sync[t].pc
  <2>1. \A t \in Syncs : sync[t] \in SyncState /\ SyncFits(sync[t])
    BY SyncTypes
  <2> QED
    BY <2>1 DEF SyncState, SyncFits
<1>5. \A t \in Syncs : t \in others <=> Underway(t)
  BY DEF Underway
<1> HIDE DEF row, others, beside
<1>6. sync' \in [Syncs -> SyncState] /\ SyncsFit'
  <2>1. SyncFits(row)
    BY <1>3 DEF SyncFits
  <2> QED
    BY <1>1, <1>3, <1>4, <2>1 DEF SyncsFit
<1>7. SearchSyncTypeOK'
  BY <1>1, <1>2, <1>6 DEF SyncInv, SearchSyncTypeOK
<1>8. SolosFit'
  <2>1. \A t \in Syncs : sync'[t].solo => SoloFits(sync'[t], mark', rows', alone')
    <3> SUFFICES ASSUME NEW t \in Syncs, sync'[t].solo
                 PROVE  SoloFits(sync'[t], mark', rows', alone')
      OBVIOUS
    <3>1. sync'[t].pc \in {"idle", "read"}
      BY <1>1, <1>3, <1>4, <1>5 DEF Underway
    <3> QED
      BY <3>1 DEF SoloFits
  <2> QED
    BY <2>1 DEF SolosFit
<1>9. \A t \in Syncs : /\ Underway(t)' <=> t = s \/ Underway(t)
                       /\ t # s => sync'[t].stamp = sync[t].stamp
                       /\ t # s /\ Underway(t) => ~sync'[t].solo
                       /\ t = s => sync'[t].stamp = started + 1
                       /\ t = s => (sync'[t].solo <=> (others = {}))
  BY <1>1, <1>3, <1>4, <1>5 DEF Underway
<1>10. SoloIsAlone'
  BY <1>1, <1>5, <1>9 DEF SyncInv, SoloIsAlone
<1>11. AloneIsComplete'
  BY <1>1 DEF SyncInv, AloneIsComplete, SearchableIsComplete
<1>12. Underway(s)'
  BY <1>9
<1>13. AnswersFit' /\ LastIsCopied'
  BY <1>12, SyncingRests
<1>14. \A k : Unused(k)' <=> Unused(k)
  BY <1>1 DEF Unused
<1>15. StampsFit'
  <2>1. \A t \in Syncs : Underway(t) => sync[t].stamp <= started /\ Unused(sync[t].stamp)
                                        /\ sync[t].stamp \in Nat
    BY <1>4 DEF SyncInv, StampsFit, SyncState, Stamps
  <2>2. Unused(started + 1)
    BY <1>2 DEF SyncInv, StampsFit
  <2>3. ASSUME NEW t \in Syncs, Underway(t)'
        PROVE  sync'[t].stamp <= started' /\ Unused(sync'[t].stamp)
    BY <1>1, <1>2, <1>9, <2>1, <2>2, <2>3
  <2>4. \A t, u \in Syncs :
          Underway(t)' /\ Underway(u)' /\ sync'[t].stamp = sync'[u].stamp => t = u
    BY <1>2, <1>9, <2>1 DEF SyncInv, StampsFit
  <2>5. \A k \in Stamps : k > started' => Unused(k)
    BY <1>1, <1>2 DEF SyncInv, StampsFit, Stamps
  <2> QED
    BY <1>1, <2>3, <2>4, <2>5 DEF StampsFit, Unused
<1> QED
  BY <1>6, <1>7, <1>8, <1>10, <1>11, <1>13, <1>15 DEF SyncInv

LEMMA SyncReadsKeeps ==
  ASSUME SyncInv, NEW s \in Syncs, SyncReads(s)
  PROVE  SyncInv'
<1> DEFINE row == [sync[s] EXCEPT !.artifact = artifact,
                                  !.pc = IF artifact = None THEN "clear" ELSE "check"]
<1>1. /\ sync[s].pc = "read" /\ Continue(s, row)
      /\ UNCHANGED <<artifact, generated, rows, mark, started, syncedAt, search, cached,
                     whole, alone, copied, losses>>
  BY DEF SyncReads
<1>2. Underway(s) /\ sync[s] \in SyncState /\ SyncFits(sync[s])
  BY <1>1, SyncTypes DEF Underway
<1>3. /\ row \in SyncState /\ row.solo = sync[s].solo /\ row.stamp = sync[s].stamp
      /\ row.pc \in {"clear", "check"} /\ row.artifact = artifact /\ row.next = sync[s].next
      /\ row.pc = "clear" <=> artifact = None
  BY <1>2 DEF SyncInv, SearchSyncTypeOK, SyncState
<1> HIDE DEF row
<1>4. SyncFits(row) /\ SoloFits(row, mark', rows', alone')
  BY <1>1, <1>2, <1>3 DEF SyncFits, SoloFits
<1>5. sync' \in [Syncs -> SyncState] /\ SyncsFit' /\ SolosFit' /\ SoloIsAlone' /\ StampsFit'
  BY <1>1, <1>2, <1>3, <1>4, SyncRow
<1>6. Underway(s)'
  BY <1>1, <1>3 DEF Continue, Underway, SyncInv, SearchSyncTypeOK
<1>7. AloneIsComplete'
  BY <1>1 DEF SyncInv, AloneIsComplete, SearchableIsComplete
<1>8. SearchSyncTypeOK'
  BY <1>1, <1>5 DEF SyncInv, SearchSyncTypeOK
<1> QED
  BY <1>5, <1>6, <1>7, <1>8, SyncingRests DEF SyncInv

\* A source that is taken to be there already has the mark of the artifact.
LEMMA SyncChecksKeeps ==
  ASSUME SyncInv, NEW s \in Syncs, SyncChecks(s)
  PROVE  SyncInv'
<1> DEFINE pc == IF ~sync[s].force /\ Unchanged(s) THEN "finish" ELSE "replace"
           row == [sync[s] EXCEPT !.pc = pc]
<1>1. /\ sync[s].pc = "check" /\ Continue(s, row)
      /\ UNCHANGED <<artifact, generated, rows, mark, started, syncedAt, search, cached,
                     whole, alone, copied, losses>>
  BY DEF SyncChecks
<1>2. Underway(s) /\ sync[s] \in SyncState /\ SyncFits(sync[s])
  BY <1>1, SyncTypes DEF Underway
<1>3. sync[s].artifact \in Artifact /\ sync[s].artifact # None /\ sync[s].next = 1
  BY <1>1, <1>2 DEF SyncFits, SyncState
<1>4. pc = "finish" => ~sync[s].force /\ mark = sync[s].artifact
  BY <1>3 DEF Unchanged, Artifact
<1>5. /\ row \in SyncState /\ row.solo = sync[s].solo /\ row.stamp = sync[s].stamp
      /\ row.pc = pc /\ row.artifact = sync[s].artifact /\ row.next = 1
      /\ row.force = sync[s].force /\ pc \in {"finish", "replace"}
  BY <1>2, <1>3 DEF SyncState
<1> HIDE DEF row, pc
<1>6. SyncFits(row)
  BY <1>3, <1>5 DEF SyncFits, Artifact, ChunkIds
<1>7. alone /\ mark # None => rows = RowsOf(mark)
  BY DEF SyncInv, AloneIsComplete, SearchableIsComplete
<1>8. SoloFits(row, mark', rows', alone')
  BY <1>1, <1>4, <1>5, <1>7 DEF SoloFits
<1>9. sync' \in [Syncs -> SyncState] /\ SyncsFit' /\ SolosFit' /\ SoloIsAlone' /\ StampsFit'
  BY <1>1, <1>2, <1>5, <1>6, <1>8, SyncRow
<1>10. Underway(s)'
  BY <1>1, <1>5 DEF Continue, Underway, SyncInv, SearchSyncTypeOK
<1>11. AloneIsComplete'
  BY <1>1 DEF SyncInv, AloneIsComplete, SearchableIsComplete
<1>12. SearchSyncTypeOK'
  BY <1>1, <1>9 DEF SyncInv, SearchSyncTypeOK
<1> QED
  BY <1>9, <1>10, <1>11, <1>12, SyncingRests DEF SyncInv

LEMMA SyncClearsKeeps ==
  ASSUME SyncInv, NEW s \in Syncs, SyncClears(s)
  PROVE  SyncInv'
<1> DEFINE row == [sync[s] EXCEPT !.pc = "finish"]
<1>1. /\ sync[s].pc = "clear" /\ Continue(s, row) /\ rows' = NoRows /\ mark' = None
      /\ UNCHANGED <<artifact, generated, started, syncedAt, search, cached, whole,
                     alone, copied, losses>>
  BY DEF SyncClears
<1>2. Underway(s) /\ sync[s] \in SyncState /\ SyncFits(sync[s]) /\ NoRows \in Rows
  BY <1>1, SyncTypes DEF Underway
<1>3. /\ row \in SyncState /\ row.solo = sync[s].solo /\ row.stamp = sync[s].stamp
      /\ row.pc = "finish" /\ row.artifact = sync[s].artifact
  BY <1>2 DEF SyncState
<1>4. sync[s].artifact = None
  BY <1>1, <1>2 DEF SyncFits
<1> HIDE DEF row
<1>5. SyncFits(row) /\ SoloFits(row, mark', rows', alone')
  BY <1>1, <1>3, <1>4 DEF SyncFits, SoloFits
<1>6. sync' \in [Syncs -> SyncState] /\ SyncsFit' /\ SolosFit' /\ SoloIsAlone' /\ StampsFit'
  BY <1>1, <1>2, <1>3, <1>5, SyncRow
<1>7. Underway(s)'
  BY <1>1, <1>3 DEF Continue, Underway, SyncInv, SearchSyncTypeOK
<1>8. AloneIsComplete'
  BY <1>1 DEF AloneIsComplete, SearchableIsComplete
<1>9. SearchSyncTypeOK'
  BY <1>1, <1>2, <1>6 DEF SyncInv, SearchSyncTypeOK
<1> QED
  BY <1>6, <1>7, <1>8, <1>9, SyncingRests DEF SyncInv

\* The rows of one artifact, batch by batch: those of the first n batches, then of
\* the whole.
LEMMA WrittenGrows ==
  ASSUME NEW a \in Artifact, NEW n \in ChunkIds, n <= a.chunks,
         NEW old, old = IF n = 1 THEN NoRows ELSE Written(a, n)
  PROVE  /\ n < a.chunks => [old EXCEPT ![n] = a.at] = Written(a, n + 1)
         /\ n = a.chunks => [old EXCEPT ![n] = a.at] = RowsOf(a)
<1>1. a.chunks \in Nat /\ n \in Nat /\ n >= 1
  BY SearchAssumption DEF Artifact, ChunkIds
<1>2. old = Written(a, n)
  BY <1>1, SearchAssumption DEF Written, NoRows, ChunkIds
<1> DEFINE new == [old EXCEPT ![n] = a.at]
<1>3. new = [c \in ChunkIds |-> IF c < n + 1 THEN a.at ELSE 0]
  BY <1>1, <1>2, SearchAssumption DEF Written, ChunkIds
<1> HIDE DEF new
<1>4. n = a.chunks => new = RowsOf(a)
  BY <1>1, <1>3, SearchAssumption DEF RowsOf, ChunkIds
<1>5. new = Written(a, n + 1)
  BY <1>3 DEF Written
<1> QED
  BY <1>4, <1>5 DEF new

\* A batch of a sync that overlaps others may leave anything; one of a sync that is
\* alone leaves the rows so far, and no mark before the last.
LEMMA WriteBatchKeeps ==
  ASSUME SyncInv, NEW s \in Syncs, WriteBatch(s)
  PROVE  SyncInv'
<1> DEFINE a == sync[s].artifact
           n == sync[s].next
           old == IF n = 1 THEN NoRows ELSE rows
           row == IF n = a.chunks THEN [sync[s] EXCEPT !.pc = "finish"]
                  ELSE [sync[s] EXCEPT !.next = n + 1]
<1>1. /\ sync[s].pc = "replace" /\ Continue(s, row)
      /\ rows' = [old EXCEPT ![n] = a.at]
      /\ mark' = IF n = a.chunks THEN a ELSE IF n = 1 THEN None ELSE mark
      /\ UNCHANGED <<artifact, generated, started, syncedAt, search, cached, whole,
                     alone, copied, losses>>
  BY DEF WriteBatch
<1>2. Underway(s) /\ sync[s] \in SyncState /\ SyncFits(sync[s]) /\ NoRows \in Rows
  BY <1>1, SyncTypes DEF Underway
<1>3. a \in Artifact /\ a # None /\ n \in ChunkIds /\ n <= a.chunks
  BY <1>1, <1>2 DEF SyncFits, SyncState, ChunkIds
<1>4. /\ a.chunks \in Nat /\ n \in Nat /\ a.at \in 0..MaxArtifacts
      /\ n # a.chunks => n + 1 \in 1..MaxChunks /\ n + 1 <= a.chunks /\ n < a.chunks /\ n + 1 > 1
  BY <1>3, SearchAssumption DEF Artifact, ChunkIds
<1>5. /\ row \in SyncState /\ row.solo = sync[s].solo /\ row.stamp = sync[s].stamp
      /\ row.artifact = a /\ row.pc \in {"finish", "replace"}
      /\ row.pc = "finish" <=> n = a.chunks
      /\ n # a.chunks => row.next = n + 1
  BY <1>1, <1>2, <1>4 DEF SyncState
<1>6. rows' \in Rows /\ mark' \in Artifact \cup {None}
  <2>1. old \in Rows /\ mark \in Artifact \cup {None}
    BY <1>2 DEF SyncInv, SearchSyncTypeOK
  <2> HIDE DEF old, a, n
  <2> QED
    BY <1>1, <1>3, <1>4, <2>1 DEF Rows
<1>7. SyncFits(row)
  <2> HIDE DEF row, a, n
  <2> QED
    BY <1>3, <1>4, <1>5 DEF SyncFits
<1>8. sync[s].solo => SoloFits(row, mark', rows', alone')
  <2> SUFFICES ASSUME sync[s].solo
               PROVE  SoloFits(row, mark', rows', alone')
    OBVIOUS
  <2>1. n > 1 => mark = None /\ rows = Written(a, n)
    BY <1>1 DEF SyncInv, SolosFit, SoloFits
  <2>2. n # 1 => n > 1
    BY <1>3, SearchAssumption DEF ChunkIds
  <2>3. old = IF n = 1 THEN NoRows ELSE Written(a, n)
    BY <2>1, <2>2
  <2> HIDE DEF old, a, n, row
  <2>4. /\ n < a.chunks => rows' = Written(a, n + 1)
        /\ n = a.chunks => rows' = RowsOf(a)
    BY <1>1, <1>3, <2>3, WrittenGrows
  <2>5. CASE n = a.chunks
    BY <1>1, <1>5, <2>4, <2>5 DEF SoloFits
  <2>6. CASE n # a.chunks
    BY <1>1, <1>4, <1>5, <2>1, <2>2, <2>4, <2>6 DEF SoloFits
  <2> QED
    BY <2>5, <2>6
<1> HIDE DEF row, old, a, n
<1>9. sync' \in [Syncs -> SyncState] /\ SyncsFit' /\ SolosFit' /\ SoloIsAlone' /\ StampsFit'
  BY <1>1, <1>2, <1>5, <1>7, <1>8, SyncRow
<1>10. Underway(s)'
  BY <1>1, <1>5 DEF Continue, Underway, SyncInv, SearchSyncTypeOK
<1>11. AloneIsComplete'
  <2> SUFFICES ASSUME alone, mark' # None PROVE rows' = RowsOf(mark')
    BY <1>1 DEF AloneIsComplete, SearchableIsComplete
  <2>1. SoloFits(row, mark', rows', alone')
    BY <1>2, <1>8 DEF SyncInv, SoloIsAlone
  <2>2. CASE n = a.chunks
    BY <1>1, <1>5, <2>1, <2>2 DEF SoloFits
  <2>3. CASE n # a.chunks
    BY <1>1, <1>4, <1>5, <2>1, <2>3 DEF SoloFits
  <2> QED
    BY <2>2, <2>3
<1>12. SearchSyncTypeOK'
  BY <1>1, <1>6, <1>9 DEF SyncInv, SearchSyncTypeOK
<1> QED
  BY <1>9, <1>10, <1>11, <1>12, SyncingRests DEF SyncInv

\* A sync whose batch fails, or that dies, was not whole.
LEMMA SyncBreaksKeeps ==
  ASSUME SyncInv, NEW s \in Syncs, WriteConflicts(s) \/ SyncIsLost(s)
  PROVE  SyncInv'
<1>1. /\ Underway(s) /\ Continue(s, NoSync) /\ whole' = FALSE
      /\ UNCHANGED <<artifact, generated, rows, mark, started, syncedAt, search, cached,
                     alone, copied>>
      /\ losses' \in 0..MaxLosses
  BY SearchAssumption
     DEF WriteConflicts, SyncIsLost, Underway, SyncInv, SearchSyncTypeOK
<1>2. NoSync.pc = "idle" /\ NoSync \in SyncState /\ SyncFits(NoSync)
  BY SyncTypes DEF NoSync
<1>3. SoloFits(NoSync, mark', rows', alone')
  BY SyncTypes
<1>4. sync' \in [Syncs -> SyncState] /\ SyncsFit' /\ SolosFit' /\ SoloIsAlone' /\ StampsFit'
  BY <1>1, <1>2, <1>3, SyncRow
<1>5. AloneIsComplete'
  BY <1>1 DEF SyncInv, AloneIsComplete, SearchableIsComplete
<1>6. LastIsCopied' /\ AnswersFit'
  BY <1>1 DEF LastIsCopied, AnswersFit
<1>7. SearchSyncTypeOK'
  BY <1>1, <1>4 DEF SyncInv, SearchSyncTypeOK
<1> QED
  BY <1>4, <1>5, <1>6, <1>7 DEF SyncInv

\* What a sync that ends leaves: the artifact that it had read, if it was alone, and
\* a time that nobody has seen.
LEMMA SyncFinishesKeeps ==
  ASSUME SyncInv, NEW s \in Syncs, SyncFinishes(s)
  PROVE  SyncInv'
<1> DEFINE k == sync[s].stamp
           a == sync[s].artifact
<1>1. /\ sync[s].pc = "finish" /\ Continue(s, NoSync)
      /\ syncedAt' = k /\ whole' = TRUE /\ copied' = a
      /\ alone' = (alone \/ (sync[s].solo /\ sync[s].force))
      /\ UNCHANGED <<artifact, generated, rows, mark, started, search, cached, losses>>
  BY DEF SyncFinishes
<1>2. /\ Underway(s) /\ sync[s] \in SyncState /\ NoSync.pc = "idle"
      /\ NoSync \in SyncState /\ SyncFits(NoSync)
  BY <1>1, SyncTypes DEF Underway, NoSync
<1>3. SoloFits(NoSync, mark', rows', alone')
  BY SyncTypes
<1>4. alone' => alone \/ sync[s].solo
  BY <1>1
<1>5. sync' \in [Syncs -> SyncState] /\ SyncsFit' /\ SolosFit' /\ SoloIsAlone' /\ StampsFit'
  BY <1>1, <1>2, <1>3, <1>4, SyncRow
<1>6. k \in Stamps /\ a \in Artifact \cup {None} /\ sync[s].solo \in BOOLEAN
      /\ sync[s].force \in BOOLEAN
  BY <1>2 DEF SyncState
<1>7. SearchSyncTypeOK'
  <2>1. alone' \in BOOLEAN /\ whole' \in BOOLEAN
    BY <1>1
  <2> HIDE DEF k, a
  <2> QED
    BY <1>1, <1>5, <1>6, <2>1 DEF SyncInv, SearchSyncTypeOK
<1>8. alone' => /\ sync[s].solo /\ SoloFits(sync[s], mark, rows, alone)
                /\ alone \/ sync[s].force
  BY <1>1, <1>2 DEF SyncInv, SoloIsAlone, SolosFit
<1>9. alone' => mark = a /\ (mark # None => rows = RowsOf(mark))
  BY <1>1, <1>8 DEF SoloFits
<1>10. AloneIsComplete' /\ LastIsCopied'
  BY <1>1, <1>9 DEF AloneIsComplete, SearchableIsComplete, LastIsCopied
<1>11. Unused(k)
  BY <1>2 DEF SyncInv, StampsFit
<1>12. AnswersFit'
  <2>1. cached'[syncedAt'] = None
    BY <1>1, <1>11 DEF Unused
  <2>2. \A r \in Searchers : search'[r].pc = "store" => search'[r].key # syncedAt'
    BY <1>1, <1>11 DEF Unused
  <2> QED
    BY <2>1, <2>2 DEF AnswersFit
<1> QED
  BY <1>5, <1>7, <1>10, <1>12 DEF SyncInv

-----------------------------------------------------------------------------
(* The steps of a search, and the cache of the site.                       *)

\* Searches and what is cached change; the times that syncs will write stay unused.
LEMMA StampsRest ==
  ASSUME SyncInv, UNCHANGED <<sync, started, syncedAt>>,
         \A k : Unused(k) => /\ cached'[k] = None
                             /\ \A r \in Searchers :
                                  search'[r].pc # "idle" => search'[r].key # k
  PROVE  StampsFit'
<1>1. \A k : Unused(k) => Unused(k)'
  BY DEF Unused
<1>2. \A s \in Syncs : Underway(s)' <=> Underway(s)
  BY DEF Underway
<1>3. \A s \in Syncs : Underway(s) => Unused(sync[s].stamp)' /\ sync[s].stamp <= started
  BY <1>1 DEF SyncInv, StampsFit
<1> QED
  BY <1>1, <1>2, <1>3 DEF SyncInv, StampsFit, Unused

LEMMA SearchTypes ==
  ASSUME SyncInv
  PROVE  /\ search \in [Searchers -> SearchState] /\ cached \in [Stamps -> Rows \cup {None}]
         /\ syncedAt \in Stamps /\ Visible \in Rows /\ NoSearch \in SearchState
         /\ NoSearch.pc = "idle"
<1>1. NoRows \in Rows /\ 0 \in Stamps
  BY SearchAssumption DEF NoRows, Rows, Stamps
<1> QED
  BY <1>1 DEF SyncInv, SearchSyncTypeOK, Visible, NoSearch, SearchState

LEMMA SearchBeginsKeeps ==
  ASSUME SyncInv, NEW r \in Searchers, SearchBegins(r)
  PROVE  SyncInv'
<1> DEFINE row == [NoSearch EXCEPT !.pc = "query", !.key = syncedAt]
<1>1. /\ search' = [search EXCEPT ![r] = row]
      /\ UNCHANGED <<artifact, generated, rows, mark, sync, started, syncedAt, cached,
                     whole, alone, copied, losses>>
  BY DEF SearchBegins
<1>2. row \in SearchState /\ row.pc = "query" /\ row.key = syncedAt
  BY SearchTypes DEF NoSearch, SearchState
<1> HIDE DEF row
<1>3. /\ search' \in [Searchers -> SearchState]
      /\ \A q \in Searchers : search'[q] = IF q = r THEN row ELSE search[q]
  BY <1>1, <1>2, SearchTypes
<1>4. SearchSyncTypeOK'
  BY <1>1, <1>3 DEF SyncInv, SearchSyncTypeOK
<1>5. \A k : Unused(k) => /\ cached'[k] = None
                          /\ \A q \in Searchers :
                               search'[q].pc # "idle" => search'[q].key # k
  BY <1>1, <1>2, <1>3 DEF Unused
<1>6. StampsFit'
  BY <1>1, <1>5, StampsRest
<1>7. /\ SyncsFit' /\ SolosFit' /\ SoloIsAlone' /\ AloneIsComplete' /\ LastIsCopied'
      /\ Syncing' = Syncing /\ Visible' = Visible
  BY <1>1, DatabaseRests
<1>8. AnswersFit'
  BY <1>1, <1>2, <1>3, <1>7 DEF SyncInv, AnswersFit
<1> QED
  BY <1>4, <1>6, <1>7, <1>8 DEF SyncInv

LEMMA SearchQueriesKeeps ==
  ASSUME SyncInv, NEW r \in Searchers, SearchQueries(r)
  PROVE  SyncInv'
<1> DEFINE row == [search[r] EXCEPT !.pc = "store", !.answer = Visible]
<1>1. /\ search[r].pc = "query"
      /\ search' = [search EXCEPT ![r].pc = "store", ![r].answer = Visible]
      /\ UNCHANGED <<artifact, generated, rows, mark, sync, started, syncedAt, cached,
                     whole, alone, copied, losses>>
  BY DEF SearchQueries
<1>2. search[r] \in SearchState /\ Visible \in Rows
  BY SearchTypes
<1>3. /\ row \in SearchState /\ row.pc = "store" /\ row.key = search[r].key
      /\ row.answer = Visible
  BY <1>2 DEF SearchState
<1>4. search' = [search EXCEPT ![r] = row]
  BY <1>1, <1>2, SearchTypes DEF SearchState
<1> HIDE DEF row
<1>5. /\ search' \in [Searchers -> SearchState]
      /\ \A q \in Searchers : search'[q] = IF q = r THEN row ELSE search[q]
  BY <1>3, <1>4, SearchTypes
<1>6. SearchSyncTypeOK'
  BY <1>1, <1>5 DEF SyncInv, SearchSyncTypeOK
<1>7. \A k : Unused(k) => /\ cached'[k] = None
                          /\ \A q \in Searchers :
                               search'[q].pc # "idle" => search'[q].key # k
  BY <1>1, <1>3, <1>5 DEF Unused
<1>8. StampsFit'
  BY <1>1, <1>7, StampsRest
<1>9. /\ SyncsFit' /\ SolosFit' /\ SoloIsAlone' /\ AloneIsComplete' /\ LastIsCopied'
      /\ Syncing' = Syncing /\ Visible' = Visible
  BY <1>1, DatabaseRests
<1>10. AnswersFit'
  BY <1>1, <1>3, <1>5, <1>9 DEF SyncInv, AnswersFit
<1> QED
  BY <1>6, <1>8, <1>9, <1>10 DEF SyncInv

LEMMA SearchStoresKeeps ==
  ASSUME SyncInv, NEW r \in Searchers, SearchStores(r)
  PROVE  SyncInv'
<1> DEFINE k == search[r].key
           answer == search[r].answer
<1>1. /\ search[r].pc = "store"
      /\ cached' = [cached EXCEPT ![k] = answer]
      /\ search' = [search EXCEPT ![r] = NoSearch]
      /\ UNCHANGED <<artifact, generated, rows, mark, sync, started, syncedAt, whole,
                     alone, copied, losses>>
  BY DEF SearchStores
<1>2. k \in Stamps /\ answer \in Rows
  BY SearchTypes DEF SearchState
<1>3. ~Unused(k)
  BY <1>1 DEF Unused
<1>4. ~Syncing /\ whole /\ k = syncedAt => answer = Visible
  BY <1>1 DEF SyncInv, AnswersFit
<1> HIDE DEF k, answer
<1>5. /\ cached' \in [Stamps -> Rows \cup {None}]
      /\ \A i : i # k => cached'[i] = cached[i] 
  BY <1>1, <1>2, SearchTypes
<1>6. /\ search' \in [Searchers -> SearchState]
      /\ \A q \in Searchers : search'[q].pc # "idle" => q # r /\ search'[q] = search[q]
  BY <1>1, SearchTypes
<1>7. SearchSyncTypeOK'
  BY <1>1, <1>5, <1>6 DEF SyncInv, SearchSyncTypeOK
<1>8. \A i : Unused(i) => /\ cached'[i] = None
                          /\ \A q \in Searchers :
                               search'[q].pc # "idle" => search'[q].key # i
  BY <1>3, <1>5, <1>6 DEF Unused
<1>9. StampsFit'
  BY <1>1, <1>8, StampsRest
<1>10. /\ SyncsFit' /\ SolosFit' /\ SoloIsAlone' /\ AloneIsComplete' /\ LastIsCopied'
       /\ Syncing' = Syncing /\ Visible' = Visible
  BY <1>1, DatabaseRests
<1>11. AnswersFit'
  BY <1>1, <1>2, <1>4, <1>5, <1>6, <1>10, SearchTypes DEF SyncInv, AnswersFit
<1> QED
  BY <1>7, <1>9, <1>10, <1>11 DEF SyncInv

LEMMA AnswerExpiresKeeps ==
  ASSUME SyncInv, NEW k \in Stamps, AnswerExpires(k)
  PROVE  SyncInv'
<1>1. /\ cached' = [cached EXCEPT ![k] = None]
      /\ UNCHANGED <<artifact, generated, rows, mark, sync, started, syncedAt, search,
                     whole, alone, copied, losses>>
  BY DEF AnswerExpires
<1>2. /\ cached' \in [Stamps -> Rows \cup {None}]
      /\ \A i : cached[i] = None => cached'[i] = None
      /\ \A i \in Stamps : cached'[i] \in {None, cached[i]}
  BY <1>1, SearchTypes
<1>3. SearchSyncTypeOK'
  BY <1>1, <1>2 DEF SyncInv, SearchSyncTypeOK
<1>4. StampsFit'
  BY <1>1, <1>2, StampsRest DEF Unused
<1>5. /\ SyncsFit' /\ SolosFit' /\ SoloIsAlone' /\ AloneIsComplete' /\ LastIsCopied'
      /\ Syncing' = Syncing /\ Visible' = Visible
  BY <1>1, DatabaseRests
<1>6. AnswersFit'
  BY <1>1, <1>2, <1>5, SearchTypes DEF SyncInv, AnswersFit
<1> QED
  BY <1>3, <1>4, <1>5, <1>6 DEF SyncInv

-----------------------------------------------------------------------------
(* What the synchronisation guarantees.                                    *)

LEMMA SyncInitFits ==
  ASSUME SearchSyncInit
  PROVE  SyncInv
<1> USE DEF SearchSyncInit
<1>1. NoSync \in SyncState /\ NoSearch \in SearchState /\ NoRows \in Rows /\ 0 \in Stamps
  BY SearchAssumption
     DEF NoSync, SyncState, NoSearch, SearchState, NoRows, Rows, Stamps
<1>2. SearchSyncTypeOK
  BY <1>1, SearchAssumption DEF SearchSyncTypeOK
<1>3. \A s \in Syncs : sync[s] = NoSync /\ ~Underway(s)
  BY DEF Underway, NoSync
<1>4. SyncsFit /\ SolosFit /\ SoloIsAlone
  BY <1>3 DEF SyncsFit, SolosFit, SoloIsAlone, SyncFits, SoloFits, NoSync
<1>5. AloneIsComplete /\ LastIsCopied
  BY DEF AloneIsComplete, SearchableIsComplete, LastIsCopied
<1>6. \A r \in Searchers : search[r].pc = "idle"
  BY DEF NoSearch
<1>7. \A k \in Stamps : cached[k] = None
  OBVIOUS
<1>8. StampsFit
  BY <1>3, <1>6, <1>7 DEF StampsFit, Unused, Stamps
<1>9. AnswersFit
  BY <1>1, <1>6, <1>7 DEF AnswersFit
<1> QED
  BY <1>2, <1>4, <1>5, <1>8, <1>9 DEF SyncInv

LEMMA SyncStepKeeps ==
  ASSUME SyncInv, [SearchSyncNext]_syncVars
  PROVE  SyncInv'
<1>1. CASE (\E n \in ChunkIds : PutArtifact(n)) \/ SpoilArtifact
  BY <1>1, ArtifactStepKeeps
<1>2. ASSUME NEW s \in Syncs, NEW force \in BOOLEAN, SyncBegins(s, force)
      PROVE  SyncInv'
  BY <1>2, SyncBeginsKeeps
<1>3. ASSUME NEW s \in Syncs, SyncGoesOn(s) \/ WriteConflicts(s) \/ SyncIsLost(s)
      PROVE  SyncInv'
  BY <1>3, SyncReadsKeeps, SyncChecksKeeps, SyncClearsKeeps, WriteBatchKeeps,
     SyncFinishesKeeps, SyncBreaksKeeps DEF SyncGoesOn
<1>4. ASSUME NEW r \in Searchers, SearchBegins(r) \/ SearchQueries(r) \/ SearchStores(r)
      PROVE  SyncInv'
  BY <1>4, SearchBeginsKeeps, SearchQueriesKeeps, SearchStoresKeeps
<1>5. ASSUME NEW k \in Stamps, AnswerExpires(k)
      PROVE  SyncInv'
  BY <1>5, AnswerExpiresKeeps
<1>6. CASE UNCHANGED syncVars
  <2>1. UNCHANGED <<artifact, generated, rows, mark, sync, started, syncedAt, search,
                    cached, whole, alone, copied, losses>>
    BY <1>6 DEF syncVars
  <2>2. SearchSyncTypeOK'
    BY <2>1 DEF SyncInv, SearchSyncTypeOK
  <2> QED
    BY <2>1, <2>2, CopyRests DEF SyncInv
<1> QED
  BY <1>1, <1>2, <1>3, <1>4, <1>5, <1>6 DEF SearchSyncNext

LEMMA SyncInvHolds == SearchSyncSpec => []SyncInv
<1>1. SearchSyncInit => SyncInv
  BY SyncInitFits
<1>2. SyncInv /\ [SearchSyncNext]_syncVars => SyncInv'
  BY SyncStepKeeps
<1> QED
  BY <1>1, <1>2, PTL DEF SearchSyncSpec

\* Every variable of the synchronisation holds a value of its kind.
THEOREM SearchSyncTyped == SearchSyncSpec => []SearchSyncTypeOK
<1>1. SyncInv => SearchSyncTypeOK
  BY DEF SyncInv
<1> QED
  BY <1>1, SyncInvHolds, PTL

\* As long as no two syncs overlapped, or a forced one has put it right since, a query
\* finds one artifact, all of it, whatever is lost between the batches of
\* replaceSearchSource; and a sync that ends has copied what it had read.
THEOREM SyncsAreEffective == SearchSyncSpec => []SyncsTakeEffect
<1>1. SyncInv => SyncsTakeEffect
  BY DEF SyncInv, AloneIsComplete, LastIsCopied, SearchableIsComplete, SyncsTakeEffect,
         Visible
<1> QED
  BY <1>1, SyncInvHolds, PTL

\* The site answers a search from its cache only with what the database has since the
\* last sync: the time of a sync is a key that nothing was kept under before.
THEOREM AnswersAreFresh == SearchSyncSpec => []AnswersAreOfLastSync
<1>1. SyncInv => AnswersAreOfLastSync
  BY DEF SyncInv, AnswersFit, AnswersAreOfLastSync
<1> QED
  BY <1>1, SyncInvHolds, PTL

-----------------------------------------------------------------------------
(* The inductive invariant of the deployments.                             *)

Latest == deployments[Len(deployments)]

\* Only commits of main have jobs, and the worker is of one of them.
JobsAreOfMain ==
  /\ \A c \in Commits : c > Len(main) => run[c] = NoJobs
  /\ live.build <= Len(main)

\* A commit that is being deployed is the newest deployment, so there is at most one;
\* the worker is that of the newest deployment from the moment that it is there.
LatestIsLive ==
  /\ deployments # <<>>
  /\ \A c \in Commits :
       /\ run[c].site \in Deploying =>
            Latest = [commit |-> c, state |-> "in_progress"]
       /\ run[c].site \in {"artifacts", "smoke"} => live.build = c
  /\ Latest.state = "success" => live.build = Latest.commit

\* No job is under way.
Ended(c) ==
  run[c].plan # "waiting" /\ SiteEnded(c) /\ RefreshEnded(c) /\ IndexEnded(c)

\* Before it is planned nothing runs for the newest commit n.
PlanWaits(n) ==
  run[n].plan = "waiting" =>
    /\ run[n].site = "skipped" /\ run[n].refresh = "skipped" /\ run[n].index = "skipped"
    /\ n > 1 /\ indexed = main[n - 1].content

\* Either the site is deployed, or what is live has its code; then the content is
\* refreshed, or it need not be.
SiteFollows(n) ==
  run[n].plan # "waiting" =>
    /\ run[n].site # "lost" /\ run[n].refresh # "lost"
    /\ run[n].site = "skipped" => main[live.build].code = main[n].code
    /\ run[n].site # "skipped" => run[n].refresh = "skipped"
    /\ run[n].site \in {"smoke", "ok"} => live.content = main[n].content
    /\ run[n].site = "ok" => live.build = n
    /\ run[n].refresh = "record" => live.content = main[n].content
    /\ run[n].site = "skipped" /\ run[n].refresh \in {"skipped", "ok"} =>
         live.content = main[n].content \/ main[n].content = main[live.build].content

IndexFollows(n) ==
  run[n].plan # "waiting" =>
    /\ run[n].index # "lost"
    /\ run[n].index \in {"waiting", "running"} =>
         n > 1 /\ indexed = main[n - 1].content
    /\ run[n].index \in {"skipped", "ok"} => indexed = main[n].content

\* While pushes come one after the other and nothing fails, only the newest commit
\* has jobs under way, and these bring what is live to it.
CalmFits ==
  calm =>
    /\ \A c \in Commits : c # Len(main) => Ended(c)
    /\ Latest.state = "success" \/ run[Len(main)].site \in Deploying
    /\ PlanWaits(Len(main)) /\ SiteFollows(Len(main)) /\ IndexFollows(Len(main))

DeploymentsInv ==
  DeploymentsTypeOK /\ JobsAreOfMain /\ LatestIsLive /\ CalmFits

-----------------------------------------------------------------------------
(* Sequences of commits and of deployments, and the rows of jobs.          *)

LEMMA CommitNumbers ==
  /\ Commits \subseteq Nat
  /\ \A c \in Commits : c >= 1 /\ c <= MaxCommits
  /\ 1 \in Commits /\ MaxCommits \in Nat
BY DeploymentsAssumption DEF Commits

\* Every commit of main can be read.
LEMMA MainIsRead ==
  ASSUME DeploymentsTypeOK
  PROVE  /\ Len(main) \in Commits /\ Len(main) \in Nat
         /\ \A c \in Commits : c <= Len(main) => main[c] \in Commit
<1>1. main \in Seq(Commit) /\ Len(main) \in Commits /\ Len(main) \in Nat
  BY CommitNumbers DEF DeploymentsTypeOK
<1>2. \A c \in Commits : c <= Len(main) => c \in 1..Len(main)
  BY <1>1, CommitNumbers
<1> QED
  BY <1>1, <1>2

\* The deployment that succeeded last, when it is the newest.
LEMMA LatestSuccess ==
  ASSUME DeploymentsTypeOK, deployments # <<>>, Latest.state = "success"
  PROVE  LastSuccess = Latest.commit
<1> DEFINE successes == {i \in DOMAIN deployments : deployments[i].state = "success"}
           last(i) == i \in successes /\ \A k \in successes : k <= i
           chosen == CHOOSE i \in successes : \A k \in successes : k <= i
<1>1. /\ deployments \in Seq(Deployment) /\ Len(deployments) \in Nat
      /\ DOMAIN deployments = 1..Len(deployments) /\ Len(deployments) >= 1
  BY DEF DeploymentsTypeOK
<1>2. Len(deployments) \in successes /\ \A k \in successes : k <= Len(deployments)
  BY <1>1 DEF Latest
<1>3. chosen \in successes /\ \A k \in successes : k <= chosen
  BY <1>2
<1>4. chosen = Len(deployments)
  BY <1>1, <1>2, <1>3
<1>5. LastSuccess = deployments[chosen].commit
  BY <1>2 DEF LastSuccess
<1> QED
  BY <1>4, <1>5 DEF Latest

\* One job of one commit goes on.
LEMMA SiteGoes ==
  ASSUME DeploymentsTypeOK, NEW c \in Commits,
         NEW state \in {"skipped", "verify", "worker", "artifacts", "smoke", "ok", "lost"},
         Goes(c, "site", state)
  PROVE  /\ run' \in [Commits -> Jobs]
         /\ \A d \in Commits : d # c => run'[d] = run[d]
         /\ run'[c].site = state /\ run'[c].plan = run[c].plan
         /\ run'[c].refresh = run[c].refresh /\ run'[c].index = run[c].index
BY DEF DeploymentsTypeOK, Goes, Jobs

LEMMA RefreshGoes ==
  ASSUME DeploymentsTypeOK, NEW c \in Commits,
         NEW state \in {"skipped", "waiting", "compare", "publish", "record", "ok", "lost"},
         Goes(c, "refresh", state)
  PROVE  /\ run' \in [Commits -> Jobs]
         /\ \A d \in Commits : d # c => run'[d] = run[d]
         /\ run'[c].site = run[c].site /\ run'[c].plan = run[c].plan
         /\ run'[c].refresh = state /\ run'[c].index = run[c].index
BY DEF DeploymentsTypeOK, Goes, Jobs

LEMMA IndexGoes ==
  ASSUME DeploymentsTypeOK, NEW c \in Commits,
         NEW state \in {"skipped", "waiting", "running", "ok", "lost"},
         Goes(c, "index", state)
  PROVE  /\ run' \in [Commits -> Jobs]
         /\ \A d \in Commits : d # c => run'[d] = run[d]
         /\ run'[c].site = run[c].site /\ run'[c].plan = run[c].plan
         /\ run'[c].refresh = run[c].refresh /\ run'[c].index = state
BY DEF DeploymentsTypeOK, Goes, Jobs

\* A job that enters its group: those it cancels are lost, the others stay.
LEMMA SiteEnters ==
  ASSUME DeploymentsTypeOK, NEW c \in Commits, Enters(c, "site", Deploying, "worker")
  PROVE  /\ run' \in [Commits -> Jobs]
         /\ \A d \in Commits : d # c =>
              IF run[d].site \in Deploying
              THEN run'[d].site = "lost" /\ run'[d].plan = run[d].plan
              ELSE run'[d] = run[d]
         /\ run'[c].site = "worker" /\ run'[c].plan = run[c].plan
         /\ run'[c].refresh = run[c].refresh /\ run'[c].index = run[c].index
         /\ ~Cancels(c, "site", Deploying) => \A d \in Commits : d # c => run'[d] = run[d]
BY SMTT(20) DEF DeploymentsTypeOK, Enters, Jobs, Cancels, Deploying

LEMMA RefreshEnters ==
  ASSUME DeploymentsTypeOK, NEW c \in Commits, Enters(c, "refresh", Refreshing, "compare")
  PROVE  /\ run' \in [Commits -> Jobs]
         /\ \A d \in Commits : d # c => run'[d].site = run[d].site
         /\ \A d \in Commits : d # c /\ run[d] = NoJobs => run'[d] = NoJobs
         /\ run'[c].site = run[c].site /\ run'[c].plan = run[c].plan
         /\ run'[c].refresh = "compare" /\ run'[c].index = run[c].index
         /\ ~Cancels(c, "refresh", Refreshing) => \A d \in Commits : d # c => run'[d] = run[d]
<1>1. run' = [d \in Commits |->
                IF d = c THEN [run[d] EXCEPT !.refresh = "compare"]
                ELSE IF run[d].refresh \in Refreshing THEN [run[d] EXCEPT !.refresh = "lost"]
                ELSE run[d]]
  BY DEF DeploymentsTypeOK, Enters, Jobs
<1>2. \A d \in Commits : run[d] \in Jobs
  BY DEF DeploymentsTypeOK
<1>3. \A d \in Commits : /\ [run[d] EXCEPT !.refresh = "compare"] \in Jobs
                         /\ [run[d] EXCEPT !.refresh = "lost"] \in Jobs
  BY <1>2 DEF Jobs
<1>4. run' \in [Commits -> Jobs]
  BY <1>1, <1>2, <1>3
<1>5. /\ run'[c].site = run[c].site /\ run'[c].plan = run[c].plan
      /\ run'[c].refresh = "compare" /\ run'[c].index = run[c].index
      /\ \A d \in Commits : d # c => run'[d].site = run[d].site
  BY <1>1, <1>2 DEF Jobs
<1>6. \A d \in Commits : d # c /\ run[d].refresh \notin Refreshing => run'[d] = run[d]
  BY <1>1
<1>7. \A d \in Commits : run[d] = NoJobs => run[d].refresh \notin Refreshing
  BY DEF NoJobs, Refreshing
<1>8. ~Cancels(c, "refresh", Refreshing) => \A d \in Commits : d # c => run[d].refresh \notin Refreshing
  BY <1>2 DEF Cancels, Jobs
<1> QED
  BY <1>4, <1>5, <1>6, <1>7, <1>8

LEMMA IndexEnters ==
  ASSUME DeploymentsTypeOK, NEW c \in Commits, Enters(c, "index", {"running"}, "running")
  PROVE  /\ run' \in [Commits -> Jobs]
         /\ \A d \in Commits : d # c => run'[d].site = run[d].site
         /\ \A d \in Commits : d # c /\ run[d] = NoJobs => run'[d] = NoJobs
         /\ run'[c].site = run[c].site /\ run'[c].plan = run[c].plan
         /\ run'[c].refresh = run[c].refresh /\ run'[c].index = "running"
         /\ ~Cancels(c, "index", {"running"}) => \A d \in Commits : d # c => run'[d] = run[d]
<1>1. run' = [d \in Commits |->
                IF d = c THEN [run[d] EXCEPT !.index = "running"]
                ELSE IF run[d].index \in {"running"} THEN [run[d] EXCEPT !.index = "lost"]
                ELSE run[d]]
  BY DEF DeploymentsTypeOK, Enters, Jobs
<1>2. \A d \in Commits : run[d] \in Jobs
  BY DEF DeploymentsTypeOK
<1>3. \A d \in Commits : /\ [run[d] EXCEPT !.index = "running"] \in Jobs
                         /\ [run[d] EXCEPT !.index = "lost"] \in Jobs
  BY <1>2 DEF Jobs
<1>4. run' \in [Commits -> Jobs]
  BY <1>1, <1>2, <1>3
<1>5. /\ run'[c].site = run[c].site /\ run'[c].plan = run[c].plan
      /\ run'[c].index = "running" /\ run'[c].refresh = run[c].refresh
      /\ \A d \in Commits : d # c => run'[d].site = run[d].site
  BY <1>1, <1>2 DEF Jobs
<1>6. \A d \in Commits : d # c /\ run[d].index \notin {"running"} => run'[d] = run[d]
  BY <1>1
<1>7. \A d \in Commits : run[d] = NoJobs => run[d].index \notin {"running"}
  BY DEF NoJobs
<1>8. ~Cancels(c, "index", {"running"}) => \A d \in Commits : d # c => run[d].index \notin {"running"}
  BY <1>2 DEF Cancels, Jobs
<1> QED
  BY <1>4, <1>5, <1>6, <1>7, <1>8

-----------------------------------------------------------------------------
(* A step of the jobs of one commit.                                       *)

\* A commit that has a job under way is one of main.
LEMMA UnderwayIsOfMain ==
  ASSUME DeploymentsInv, NEW c \in Commits, run[c] # NoJobs
  PROVE  c <= Len(main) /\ main[c] \in Commit
<1>1. Len(main) \in Nat /\ c \in Nat
  BY MainIsRead, CommitNumbers DEF DeploymentsInv
<1>2. c <= Len(main)
  BY <1>1 DEF DeploymentsInv, JobsAreOfMain
<1> QED
  BY <1>2, MainIsRead DEF DeploymentsInv

LEMMA JobsStayOfMain ==
  ASSUME DeploymentsInv, NEW c \in Commits, c <= Len(main), UNCHANGED main,
         \A d \in Commits : d # c /\ run[d] = NoJobs => run'[d] = NoJobs,
         live'.build \in {live.build, c}
  PROVE  JobsAreOfMain'
<1>1. Len(main) \in Nat /\ c \in Nat
  BY MainIsRead, CommitNumbers DEF DeploymentsInv
<1>2. Len(main') = Len(main)
  OBVIOUS
<1>3. ASSUME NEW d \in Commits, d > Len(main')
      PROVE  run'[d] = NoJobs
  <2>1. d > Len(main) /\ d # c
    BY <1>1, <1>2, <1>3
  <2>2. run[d] = NoJobs
    BY <2>1 DEF DeploymentsInv, JobsAreOfMain
  <2> QED
    BY <2>1, <2>2
<1>4. live.build <= Len(main)
  BY DEF DeploymentsInv, JobsAreOfMain
<1>5. live'.build <= Len(main')
  BY <1>2, <1>4
<1> QED
  BY <1>3, <1>5 DEF JobsAreOfMain

\* In calm, a step is of the newest commit.
LEMMA CalmStep ==
  ASSUME DeploymentsInv, NEW c \in Commits, ~Ended(c), UNCHANGED main,
         calm' => calm /\ \A d \in Commits : d # c => run'[d] = run[d],
         calm' /\ c = Len(main) =>
           /\ Latest'.state = "success" \/ run'[c].site \in Deploying
           /\ PlanWaits(c)' /\ SiteFollows(c)' /\ IndexFollows(c)'
  PROVE  CalmFits'
<1> SUFFICES ASSUME calm'
             PROVE  /\ \A d \in Commits : d # Len(main) => Ended(d)'
                    /\ Latest'.state = "success" \/ run'[Len(main)].site \in Deploying
                    /\ PlanWaits(Len(main))' /\ SiteFollows(Len(main))'
                    /\ IndexFollows(Len(main))'
  BY DEF CalmFits
<1>1. c = Len(main)
  BY DEF DeploymentsInv, CalmFits
<1>2. \A d \in Commits : d # c => Ended(d)'
  BY <1>1 DEF DeploymentsInv, CalmFits, Ended, SiteEnded, RefreshEnded, IndexEnded
<1>3. PlanWaits(Len(main))' /\ SiteFollows(Len(main))' /\ IndexFollows(Len(main))'
  BY <1>1 DEF PlanWaits, SiteFollows, IndexFollows
<1> QED
  BY <1>1, <1>2, <1>3

\* The newest commit in calm.
LEMMA CalmNow ==
  ASSUME DeploymentsInv, calm, NEW c \in Commits, c = Len(main)
  PROVE  /\ Latest.state = "success" \/ run[c].site \in Deploying
         /\ PlanWaits(c) /\ SiteFollows(c) /\ IndexFollows(c)
BY DEF DeploymentsInv, CalmFits

\* Steps of other jobs than the deployment leave it.
LEMMA DeploymentRests ==
  ASSUME DeploymentsInv, UNCHANGED deployments, live'.build = live.build,
         \A d \in Commits : run'[d].site \in Deploying => run'[d].site = run[d].site
  PROVE  LatestIsLive' /\ Latest' = Latest
<1>1. Latest' = Latest
  BY DEF Latest
<1>2. \A d \in Commits : run'[d].site \in {"artifacts", "smoke"} => run'[d].site = run[d].site
  BY DEF Deploying
<1> QED
  BY <1>1, <1>2 DEF DeploymentsInv, LatestIsLive

-----------------------------------------------------------------------------
(* The push and its plan.                                                  *)

LEMMA PushKeeps ==
  ASSUME DeploymentsInv, NEW commit \in Commit, Push(commit)
  PROVE  DeploymentsInv'
<1> DEFINE n == Len(main)
           row == [NoJobs EXCEPT !.plan = "waiting"]
<1>1. /\ n < MaxCommits /\ main' = Append(main, commit)
      /\ run' = [run EXCEPT ![n + 1] = row]
      /\ calm' = (calm /\ Quiet)
      /\ UNCHANGED <<deployments, live, recorded, indexed, troubles>>
  BY DEF Push
<1>2. /\ main \in Seq(Commit) /\ n \in Nat /\ n \in Commits /\ MaxCommits \in Nat
      /\ run \in [Commits -> Jobs]
  BY MainIsRead, DeploymentsAssumption DEF DeploymentsInv, DeploymentsTypeOK
<1>3. n >= 1 /\ n + 1 \in Commits
  BY <1>1, <1>2, CommitNumbers DEF Commits
<1>4. /\ main' \in Seq(Commit) /\ Len(main') = n + 1
      /\ \A c \in Commits : c <= n => main'[c] = main[c]
  BY <1>1, <1>2, CommitNumbers
<1>5. /\ row \in Jobs /\ row.plan = "waiting" /\ row.site = "skipped"
      /\ row.refresh = "skipped" /\ row.index = "skipped"
  BY DEF NoJobs, Jobs
<1> HIDE DEF row
<1>6. /\ run' \in [Commits -> Jobs] /\ run'[n + 1] = row
      /\ \A c \in Commits : c # n + 1 => run'[c] = run[c]
  BY <1>1, <1>2, <1>3, <1>5
<1>7. DeploymentsTypeOK'
  <2>1. calm' \in BOOLEAN
    BY <1>1
  <2> QED
    BY <1>1, <1>3, <1>4, <1>6, <2>1 DEF DeploymentsInv, DeploymentsTypeOK
<1>8. JobsAreOfMain'
  <2>1. \A c \in Commits : c > n + 1 => c > n /\ c # n + 1
    BY <1>2, CommitNumbers
  <2>2. live.build \in Nat /\ live.build <= n
    BY CommitNumbers DEF DeploymentsInv, DeploymentsTypeOK, JobsAreOfMain
  <2>3. live.build <= n + 1
    BY <1>2, <2>2
  <2> QED
    BY <1>1, <1>4, <1>6, <2>1, <2>3 DEF DeploymentsInv, JobsAreOfMain
<1>9. LatestIsLive' /\ Latest' = Latest
  <2>1. \A d \in Commits : run'[d].site \in Deploying => run'[d].site = run[d].site
    BY <1>5, <1>6 DEF Deploying
  <2> QED
    BY <1>1, <2>1, DeploymentRests
<1>10. CalmFits'
  <2> SUFFICES ASSUME calm'
               PROVE  /\ \A d \in Commits : d # n + 1 => Ended(d)'
                      /\ Latest'.state = "success"
                      /\ indexed' = main'[n].content
    BY <1>3, <1>4, <1>5, <1>6, <1>2 DEF CalmFits, PlanWaits, SiteFollows, IndexFollows
  <2>1. calm /\ \A d \in Commits : Ended(d)
    BY <1>1 DEF Quiet, Ended
  <2>2. \A d \in Commits : d # n + 1 => Ended(d)'
    BY <1>6, <2>1 DEF Ended, SiteEnded, RefreshEnded, IndexEnded
  <2>3. PlanWaits(n) /\ SiteFollows(n) /\ IndexFollows(n)
        /\ (Latest.state = "success" \/ run[n].site \in Deploying)
    BY <1>2, <2>1, CalmNow
  <2>4. Latest.state = "success"
    BY <1>2, <2>1, <2>3 DEF Ended, SiteEnded, Deploying
  <2>5. indexed = main[n].content
    BY <1>2, <2>1, <2>3 DEF Ended, IndexEnded, IndexFollows
  <2>6. main'[n] = main[n]
    BY <1>2, <1>4
  <2>7. indexed' = indexed
    BY <1>1
  <2> QED
    BY <1>9, <2>2, <2>4, <2>5, <2>6, <2>7
<1> QED
  BY <1>7, <1>8, <1>9, <1>10 DEF DeploymentsInv

\* Without trouble the plan deploys unless what is live has the code of the commit, and
\* refreshes unless it has its content.
LEMMA PlanKeeps ==
  ASSUME DeploymentsInv, NEW c \in Commits, Plan(c)
  PROVE  DeploymentsInv'
<1> DEFINE row(deploy, refresh) ==
             [plan |-> "done",
              site |-> IF deploy THEN "verify" ELSE "skipped",
              refresh |-> IF refresh THEN "waiting" ELSE "skipped",
              index |-> "waiting"]
<1>1. /\ run[c].plan = "waiting" /\ recorded' = None
      /\ UNCHANGED <<main, deployments, live, indexed>>
  BY DEF Plan
<1>2. PICK deploy \in BOOLEAN, refresh \in BOOLEAN :
        /\ run' = [run EXCEPT ![c] = row(deploy, refresh)]
        /\ \/ /\ deploy = ShouldDeploySite(c) /\ refresh = (~deploy /\ ContentChanged(c))
              /\ UNCHANGED <<troubles, calm>>
           \/ Trouble
  BY DEF Plan
<1>3. run \in [Commits -> Jobs] /\ calm \in BOOLEAN
  BY DEF DeploymentsInv, DeploymentsTypeOK
<1>4. /\ row(deploy, refresh) \in Jobs
      /\ row(deploy, refresh).plan = "done" /\ row(deploy, refresh).index = "waiting"
      /\ row(deploy, refresh).site = IF deploy THEN "verify" ELSE "skipped"
      /\ row(deploy, refresh).refresh = IF refresh THEN "waiting" ELSE "skipped"
  BY DEF Jobs
<1> HIDE DEF row
<1>5. /\ run' \in [Commits -> Jobs] /\ run'[c] = row(deploy, refresh)
      /\ \A d \in Commits : d # c => run'[d] = run[d]
  BY <1>2, <1>3, <1>4
<1>6. troubles' \in 0..MaxTroubles /\ calm' \in BOOLEAN /\ (calm' => calm)
  <2>1. troubles \in 0..MaxTroubles /\ MaxTroubles \in Nat
    BY DeploymentsAssumption DEF DeploymentsInv, DeploymentsTypeOK
  <2>2. CASE UNCHANGED <<troubles, calm>>
    BY <1>3, <2>1, <2>2
  <2>3. CASE Trouble
    <3>1. troubles' \in 0..MaxTroubles /\ calm' = FALSE
      BY <2>1, <2>3 DEF Trouble
    <3> QED
      BY <3>1
  <2> QED
    BY <1>2, <2>2, <2>3
<1>7. DeploymentsTypeOK'
  BY <1>1, <1>5, <1>6 DEF DeploymentsInv, DeploymentsTypeOK
<1>8. ~Ended(c) /\ run[c] # NoJobs
  BY <1>1 DEF Ended, NoJobs
<1>9. c <= Len(main)
  BY <1>8, UnderwayIsOfMain
<1>10. JobsAreOfMain'
  BY <1>1, <1>5, <1>9, JobsStayOfMain
<1>11. LatestIsLive' /\ Latest' = Latest
  <2>1. \A d \in Commits : run'[d].site \in Deploying => run'[d].site = run[d].site
    BY <1>4, <1>5 DEF Deploying
  <2> QED
    BY <1>1, <2>1, DeploymentRests
<1>12. CalmFits'
  <2> SUFFICES ASSUME calm', c = Len(main)
               PROVE  /\ Latest'.state = "success" \/ run'[c].site \in Deploying
                      /\ PlanWaits(c)' /\ SiteFollows(c)' /\ IndexFollows(c)'
    BY <1>1, <1>5, <1>6, <1>8, CalmStep
  <2>1. calm /\ PlanWaits(c)
    BY <1>6, CalmNow
  <2>2. Latest.state = "success"
    BY <1>1, <1>6, CalmNow DEF PlanWaits, Deploying
  <2>3. LastSuccess = live.build
    BY <2>2, LatestSuccess DEF DeploymentsInv, LatestIsLive
  <2>4. deploy = ShouldDeploySite(c) /\ refresh = (~deploy /\ ContentChanged(c))
    BY <1>2 DEF Trouble
  <2>5. ~deploy => main[live.build].code = main[c].code
    BY <2>3, <2>4 DEF ShouldDeploySite
  <2>6. ~deploy /\ ~refresh => main[c].content = main[live.build].content
    BY <2>4 DEF ContentChanged, CompareSha
  <2>7. deploy => ~refresh
    BY <2>4
  <2>8. SiteFollows(c)'
    BY <1>1, <1>4, <1>5, <2>5, <2>6, <2>7 DEF SiteFollows
  <2>9. PlanWaits(c)' /\ IndexFollows(c)'
    BY <1>1, <1>4, <1>5, <2>1 DEF PlanWaits, IndexFollows
  <2> QED
    BY <1>11, <2>2, <2>8, <2>9
<1> QED
  BY <1>7, <1>10, <1>11, <1>12 DEF DeploymentsInv

-----------------------------------------------------------------------------
(* The deployment of the site.                                             *)

\* A job that runs is of a commit of main.
LEMMA SiteRuns ==
  ASSUME DeploymentsInv, NEW c \in Commits,
         run[c].site \in {"verify", "worker", "artifacts", "smoke"}
  PROVE  ~Ended(c) /\ c <= Len(main) /\ main[c] \in Commit
<1>1. ~Ended(c) /\ run[c] # NoJobs
  BY DEF Ended, SiteEnded, NoJobs
<1> QED
  BY <1>1, UnderwayIsOfMain

\* The deployment that is under way is the only one.
LEMMA OneDeploys ==
  ASSUME DeploymentsInv, NEW c \in Commits, NEW d \in Commits,
         run[c].site \in Deploying, run[d].site \in Deploying
  PROVE  d = c
<1>1. /\ Latest = [commit |-> c, state |-> "in_progress"]
      /\ Latest = [commit |-> d, state |-> "in_progress"]
  BY DEF DeploymentsInv, LatestIsLive
<1>2. Latest.commit = c /\ Latest.commit = d
  BY <1>1
<1> QED
  BY <1>2

\* The newest deployment, once another one is created or this one has ended.
LEMMA NextDeployment ==
  ASSUME DeploymentsInv, NEW c \in Commits,
         deployments' = Append([i \in DOMAIN deployments |->
                                  IF deployments[i].state = "in_progress"
                                  THEN [deployments[i] EXCEPT !.state = "failure"]
                                  ELSE deployments[i]],
                               [commit |-> c, state |-> "in_progress"])
  PROVE  /\ deployments' \in Seq(Deployment) /\ deployments' # <<>>
         /\ Latest' = [commit |-> c, state |-> "in_progress"]
<1> DEFINE ended(i) == IF deployments[i].state = "in_progress"
                       THEN [deployments[i] EXCEPT !.state = "failure"] ELSE deployments[i]
           old == [i \in DOMAIN deployments |-> ended(i)]
           new == [commit |-> c, state |-> "in_progress"]
<1>1. deployments \in Seq(Deployment) /\ Len(deployments) \in Nat
      /\ DOMAIN deployments = 1..Len(deployments)
  BY DEF DeploymentsInv, DeploymentsTypeOK
<1>2. \A i \in 1..Len(deployments) : ended(i) \in Deployment
  <2>1. \A i \in 1..Len(deployments) : deployments[i] \in Deployment
    BY <1>1
  <2> QED
    BY <2>1 DEF Deployment
<1>3. new \in Deployment
  BY DEF Deployment
<1> HIDE DEF ended, new
<1>4. old \in Seq(Deployment) /\ Len(old) = Len(deployments)
  BY <1>1, <1>2
<1> HIDE DEF old
<1>5. deployments' = Append(old, new)
  BY DEF old, ended, new
<1>6. /\ deployments' \in Seq(Deployment) /\ Len(deployments') = Len(deployments) + 1
      /\ deployments'[Len(deployments) + 1] = new
  BY <1>1, <1>3, <1>4, <1>5
<1>7. Latest' = new /\ deployments' # <<>>
  BY <1>1, <1>6 DEF Latest
<1> QED
  BY <1>6, <1>7 DEF new

LEMMA EndedDeployment ==
  ASSUME DeploymentsInv, NEW c \in Commits, NEW state \in {"success", "failure"},
         DeploymentEnds(c, state)
  PROVE  /\ deployments' \in Seq(Deployment) /\ deployments' # <<>>
         /\ Latest' = IF Latest = [commit |-> c, state |-> "in_progress"]
                      THEN [commit |-> c, state |-> state] ELSE Latest
<1> DEFINE ended(i) == IF deployments[i] = [commit |-> c, state |-> "in_progress"]
                       THEN [commit |-> c, state |-> state] ELSE deployments[i]
<1>1. /\ deployments \in Seq(Deployment) /\ Len(deployments) \in Nat
      /\ DOMAIN deployments = 1..Len(deployments) /\ deployments # <<>>
  BY DEF DeploymentsInv, DeploymentsTypeOK, LatestIsLive
<1>2. Len(deployments) \in 1..Len(deployments)
  BY <1>1
<1>3. \A i \in 1..Len(deployments) : ended(i) \in Deployment
  <2>1. \A i \in 1..Len(deployments) : deployments[i] \in Deployment
    BY <1>1
  <2> QED
    BY <2>1 DEF Deployment
<1>4. deployments' = [i \in 1..Len(deployments) |-> ended(i)]
  BY <1>1 DEF DeploymentEnds
<1>5. Latest' = ended(Len(deployments)) /\ deployments' # <<>>
  <2> HIDE DEF ended
  <2>1. Len(deployments') = Len(deployments)
    BY <1>1, <1>3, <1>4
  <2>2. deployments'[Len(deployments)] = ended(Len(deployments))
    BY <1>2, <1>4
  <2> QED
    BY <1>1, <1>2, <2>1, <2>2 DEF Latest
<1>6. deployments' \in Seq(Deployment)
  <2> HIDE DEF ended
  <2> QED
    BY <1>1, <1>3, <1>4
<1> QED
  BY <1>5, <1>6 DEF Latest

LEMMA DeployStartsKeeps ==
  ASSUME DeploymentsInv, NEW c \in Commits, DeployStarts(c)
  PROVE  DeploymentsInv'
<1>1. /\ run[c].site = "verify" /\ Enters(c, "site", Deploying, "worker")
      /\ UNCHANGED <<main, live, recorded, indexed, troubles>>
      /\ calm' = (calm /\ ~Cancels(c, "site", Deploying))
  BY DEF DeployStarts
<1>2. /\ deployments' \in Seq(Deployment) /\ deployments' # <<>>
      /\ Latest' = [commit |-> c, state |-> "in_progress"]
  BY NextDeployment DEF DeployStarts
<1>3. /\ run' \in [Commits -> Jobs]
      /\ \A d \in Commits : d # c =>
           IF run[d].site \in Deploying
           THEN run'[d].site = "lost" /\ run'[d].plan = run[d].plan
           ELSE run'[d] = run[d]
      /\ run'[c].site = "worker" /\ run'[c].plan = run[c].plan
      /\ run'[c].refresh = run[c].refresh /\ run'[c].index = run[c].index
  BY <1>1, SiteEnters DEF DeploymentsInv
<1>4. calm' => calm /\ \A d \in Commits : d # c => run'[d] = run[d]
  BY <1>1, SiteEnters DEF DeploymentsInv
<1>5. ~Ended(c) /\ c <= Len(main)
  BY <1>1, SiteRuns
<1>6. DeploymentsTypeOK'
  <2>1. calm' \in BOOLEAN
    BY <1>1
  <2> QED
    BY <1>1, <1>2, <1>3, <2>1 DEF DeploymentsInv, DeploymentsTypeOK
<1>7. JobsAreOfMain'
  <2>1. \A d \in Commits : run[d] = NoJobs => run[d].site \notin Deploying
    BY DEF NoJobs, Deploying
  <2> QED
    BY <1>1, <1>3, <1>5, <2>1, JobsStayOfMain
<1>8. LatestIsLive'
  <2>1. \A d \in Commits : d # c => run'[d].site \notin Deploying
    BY <1>3 DEF Deploying
  <2>2. Deploying \cap {"artifacts", "smoke"} = {"artifacts", "smoke"}
        /\ run'[c].site \notin {"artifacts", "smoke"}
    BY <1>3 DEF Deploying
  <2>3. \A d \in Commits : run'[d].site \notin {"artifacts", "smoke"}
    BY <2>1, <2>2
  <2>4. Latest'.state # "success"
    BY <1>2
  <2> QED
    BY <1>2, <2>1, <2>3, <2>4 DEF LatestIsLive
<1>9. CalmFits'
  <2> SUFFICES ASSUME calm', c = Len(main)
               PROVE  /\ run'[c].site \in Deploying
                      /\ PlanWaits(c)' /\ SiteFollows(c)' /\ IndexFollows(c)'
    BY <1>1, <1>4, <1>5, CalmStep
  <2>1. PlanWaits(c) /\ SiteFollows(c) /\ IndexFollows(c)
    BY <1>4, CalmNow
  <2>2. run[c].plan # "waiting"
    BY <1>1, <2>1 DEF PlanWaits
  <2>3. SiteFollows(c)'
    BY <1>1, <1>3, <2>1, <2>2 DEF SiteFollows
  <2>4. PlanWaits(c)' /\ IndexFollows(c)'
    BY <1>1, <1>3, <2>1, <2>2 DEF PlanWaits, IndexFollows
  <2> QED
    BY <1>3, <2>3, <2>4 DEF Deploying
<1> QED
  BY <1>6, <1>7, <1>8, <1>9 DEF DeploymentsInv

LEMMA DeployWorkerKeeps ==
  ASSUME DeploymentsInv, NEW c \in Commits, DeployWorker(c)
  PROVE  DeploymentsInv'
<1>1. /\ run[c].site = "worker" /\ Goes(c, "site", "artifacts")
      /\ live' = [live EXCEPT !.build = c]
      /\ UNCHANGED <<main, deployments, recorded, indexed, calm, troubles>>
  BY DEF DeployWorker
<1>2. /\ run' \in [Commits -> Jobs] /\ \A d \in Commits : d # c => run'[d] = run[d]
      /\ run'[c].site = "artifacts" /\ run'[c].plan = run[c].plan
      /\ run'[c].refresh = run[c].refresh /\ run'[c].index = run[c].index
  BY <1>1, SiteGoes DEF DeploymentsInv
<1>3. /\ live' \in [build : Commits, content : Contents] /\ live'.build = c
      /\ live'.content = live.content
  BY <1>1 DEF DeploymentsInv, DeploymentsTypeOK
<1>4. ~Ended(c) /\ c <= Len(main)
  BY <1>1, SiteRuns
<1>5. DeploymentsTypeOK'
  BY <1>1, <1>2, <1>3 DEF DeploymentsInv, DeploymentsTypeOK
<1>6. JobsAreOfMain'
  BY <1>1, <1>2, <1>3, <1>4, JobsStayOfMain
<1>7. run[c].site \in Deploying /\ \A d \in Commits : run[d].site \in Deploying => d = c
  BY <1>1, OneDeploys DEF Deploying
<1>8. Latest' = Latest /\ Latest = [commit |-> c, state |-> "in_progress"]
  BY <1>1, <1>7 DEF DeploymentsInv, LatestIsLive, Latest
<1>9. LatestIsLive'
  <2>1. \A d \in Commits : run'[d].site \in Deploying => d = c
    BY <1>2, <1>7
  <2>2. \A d \in Commits : run'[d].site \in {"artifacts", "smoke"} => d = c
    BY <2>1 DEF Deploying
  <2> QED
    BY <1>1, <1>3, <1>8, <2>1, <2>2 DEF DeploymentsInv, LatestIsLive
<1>10. CalmFits'
  <2> SUFFICES ASSUME calm', c = Len(main)
               PROVE  /\ run'[c].site \in Deploying
                      /\ PlanWaits(c)' /\ SiteFollows(c)' /\ IndexFollows(c)'
    BY <1>1, <1>2, <1>4, CalmStep
  <2>1. PlanWaits(c) /\ SiteFollows(c) /\ IndexFollows(c)
    BY <1>1, CalmNow
  <2>2. run[c].plan # "waiting"
    BY <1>1, <2>1 DEF PlanWaits
  <2>3. SiteFollows(c)'
    BY <1>1, <1>2, <2>1, <2>2 DEF SiteFollows
  <2>4. PlanWaits(c)' /\ IndexFollows(c)'
    BY <1>1, <1>2, <2>1, <2>2 DEF PlanWaits, IndexFollows
  <2> QED
    BY <1>2, <2>3, <2>4 DEF Deploying
<1> QED
  BY <1>5, <1>6, <1>9, <1>10 DEF DeploymentsInv

LEMMA DeployArtifactsKeeps ==
  ASSUME DeploymentsInv, NEW c \in Commits, DeployArtifacts(c)
  PROVE  DeploymentsInv'
<1>1. /\ run[c].site = "artifacts" /\ Goes(c, "site", "smoke")
      /\ live' = [live EXCEPT !.content = main[c].content]
      /\ UNCHANGED <<main, deployments, recorded, indexed, calm, troubles>>
  BY DEF DeployArtifacts
<1>2. /\ run' \in [Commits -> Jobs] /\ \A d \in Commits : d # c => run'[d] = run[d]
      /\ run'[c].site = "smoke" /\ run'[c].plan = run[c].plan
      /\ run'[c].refresh = run[c].refresh /\ run'[c].index = run[c].index
  BY <1>1, SiteGoes DEF DeploymentsInv
<1>3. ~Ended(c) /\ c <= Len(main) /\ main[c] \in Commit
  BY <1>1, SiteRuns
<1>4. /\ live' \in [build : Commits, content : Contents] /\ live'.build = live.build
      /\ live'.content = main[c].content
  BY <1>1, <1>3 DEF DeploymentsInv, DeploymentsTypeOK, Commit
<1>5. DeploymentsTypeOK'
  BY <1>1, <1>2, <1>4 DEF DeploymentsInv, DeploymentsTypeOK
<1>6. JobsAreOfMain'
  BY <1>1, <1>2, <1>3, <1>4, JobsStayOfMain
<1>7. /\ live.build = c /\ Latest' = Latest
      /\ Latest = [commit |-> c, state |-> "in_progress"]
  BY <1>1 DEF DeploymentsInv, LatestIsLive, Latest, Deploying
<1>8. LatestIsLive'
  BY <1>1, <1>2, <1>4, <1>7 DEF DeploymentsInv, LatestIsLive
<1>9. CalmFits'
  <2> SUFFICES ASSUME calm', c = Len(main)
               PROVE  /\ run'[c].site \in Deploying
                      /\ PlanWaits(c)' /\ SiteFollows(c)' /\ IndexFollows(c)'
    BY <1>1, <1>2, <1>3, CalmStep
  <2>1. PlanWaits(c) /\ SiteFollows(c) /\ IndexFollows(c)
    BY <1>1, CalmNow
  <2>2. run[c].plan # "waiting"
    BY <1>1, <2>1 DEF PlanWaits
  <2>3. SiteFollows(c)'
    BY <1>1, <1>2, <1>4, <2>1, <2>2 DEF SiteFollows
  <2>4. PlanWaits(c)' /\ IndexFollows(c)'
    BY <1>1, <1>2, <2>1, <2>2 DEF PlanWaits, IndexFollows
  <2> QED
    BY <1>2, <2>3, <2>4 DEF Deploying
<1> QED
  BY <1>5, <1>6, <1>8, <1>9 DEF DeploymentsInv

LEMMA DeploySucceedsKeeps ==
  ASSUME DeploymentsInv, NEW c \in Commits, DeploySucceeds(c)
  PROVE  DeploymentsInv'
<1>1. /\ run[c].site = "smoke" /\ Goes(c, "site", "ok") /\ DeploymentEnds(c, "success")
      /\ UNCHANGED <<main, live, recorded, indexed, calm, troubles>>
  BY DEF DeploySucceeds
<1>2. /\ run' \in [Commits -> Jobs] /\ \A d \in Commits : d # c => run'[d] = run[d]
      /\ run'[c].site = "ok" /\ run'[c].plan = run[c].plan
      /\ run'[c].refresh = run[c].refresh /\ run'[c].index = run[c].index
  BY <1>1, SiteGoes DEF DeploymentsInv
<1>3. ~Ended(c) /\ c <= Len(main)
  BY <1>1, SiteRuns
<1>4. live.build = c /\ Latest = [commit |-> c, state |-> "in_progress"]
  BY <1>1 DEF DeploymentsInv, LatestIsLive, Deploying
<1>5. /\ deployments' \in Seq(Deployment) /\ deployments' # <<>>
      /\ Latest' = [commit |-> c, state |-> "success"]
  BY <1>1, <1>4, EndedDeployment
<1>6. DeploymentsTypeOK'
  BY <1>1, <1>2, <1>5 DEF DeploymentsInv, DeploymentsTypeOK
<1>7. JobsAreOfMain'
  BY <1>1, <1>2, <1>3, JobsStayOfMain
<1>8. LatestIsLive'
  <2>1. \A d \in Commits : run'[d].site \notin Deploying
    BY <1>1, <1>2, OneDeploys DEF Deploying
  <2>2. \A d \in Commits : run'[d].site \notin {"artifacts", "smoke"}
    BY <2>1 DEF Deploying
  <2> QED
    BY <1>1, <1>4, <1>5, <2>1, <2>2 DEF LatestIsLive
<1>9. CalmFits'
  <2> SUFFICES ASSUME calm', c = Len(main)
               PROVE  /\ Latest'.state = "success"
                      /\ PlanWaits(c)' /\ SiteFollows(c)' /\ IndexFollows(c)'
    BY <1>1, <1>2, <1>3, CalmStep
  <2>1. PlanWaits(c) /\ SiteFollows(c) /\ IndexFollows(c)
    BY <1>1, CalmNow
  <2>2. run[c].plan # "waiting"
    BY <1>1, <2>1 DEF PlanWaits
  <2>3. SiteFollows(c)'
    BY <1>1, <1>2, <1>4, <2>1, <2>2 DEF SiteFollows
  <2>4. PlanWaits(c)' /\ IndexFollows(c)'
    BY <1>1, <1>2, <2>1, <2>2 DEF PlanWaits, IndexFollows
  <2> QED
    BY <1>5, <2>3, <2>4
<1> QED
  BY <1>6, <1>7, <1>8, <1>9 DEF DeploymentsInv

LEMMA DeployFailsKeeps ==
  ASSUME DeploymentsInv, NEW c \in Commits, DeployFails(c)
  PROVE  DeploymentsInv'
<1>1. /\ run[c].site \in {"verify", "worker", "artifacts", "smoke"}
      /\ Trouble /\ Goes(c, "site", "lost") /\ DeploymentEnds(c, "failure")
      /\ UNCHANGED <<main, live, recorded, indexed>>
  BY DEF DeployFails, Deploying
<1>2. /\ run' \in [Commits -> Jobs] /\ \A d \in Commits : d # c => run'[d] = run[d]
      /\ run'[c].site = "lost"
  BY <1>1, SiteGoes DEF DeploymentsInv
<1>3. c <= Len(main)
  BY <1>1, SiteRuns
<1>4. /\ deployments' \in Seq(Deployment) /\ deployments' # <<>>
      /\ Latest' = IF Latest = [commit |-> c, state |-> "in_progress"]
                   THEN [commit |-> c, state |-> "failure"] ELSE Latest
  BY <1>1, EndedDeployment
<1>5. troubles' \in 0..MaxTroubles /\ calm' = FALSE
  BY <1>1, DeploymentsAssumption DEF Trouble, DeploymentsInv, DeploymentsTypeOK
<1>6. DeploymentsTypeOK'
  BY <1>1, <1>2, <1>4, <1>5 DEF DeploymentsInv, DeploymentsTypeOK
<1>7. JobsAreOfMain'
  BY <1>1, <1>2, <1>3, JobsStayOfMain
<1>8. LatestIsLive'
  <2>1. ASSUME NEW d \in Commits, run'[d].site \in Deploying
        PROVE  Latest' = [commit |-> d, state |-> "in_progress"]
    <3>1. d # c /\ run[d].site \in Deploying
      BY <1>2, <2>1 DEF Deploying
    <3>2. Latest = [commit |-> d, state |-> "in_progress"]
      BY <3>1 DEF DeploymentsInv, LatestIsLive
    <3>3. Latest.commit # c
      BY <3>1, <3>2
    <3> QED
      BY <1>4, <3>2, <3>3
  <2>2. \A d \in Commits : run'[d].site \in {"artifacts", "smoke"} => live'.build = d
    BY <1>1, <1>2 DEF DeploymentsInv, LatestIsLive
  <2>3. Latest'.state = "success" => live'.build = Latest'.commit
    BY <1>1, <1>4 DEF DeploymentsInv, LatestIsLive
  <2> QED
    BY <1>4, <2>1, <2>2, <2>3 DEF LatestIsLive
<1>9. CalmFits'
  BY <1>5 DEF CalmFits
<1> QED
  BY <1>6, <1>7, <1>8, <1>9 DEF DeploymentsInv

-----------------------------------------------------------------------------
(* The refresh of the content, and the index.                              *)

LEMMA OtherJobsRun ==
  ASSUME DeploymentsInv, NEW c \in Commits,
         \/ run[c].refresh \in {"waiting", "compare", "publish", "record"}
         \/ run[c].index \in {"waiting", "running"}
  PROVE  ~Ended(c) /\ c <= Len(main) /\ main[c] \in Commit
<1>1. ~Ended(c) /\ run[c] # NoJobs
  BY DEF Ended, RefreshEnded, IndexEnded, NoJobs
<1> QED
  BY <1>1, UnderwayIsOfMain

LEMMA TroubleCounts ==
  ASSUME DeploymentsInv, Trouble
  PROVE  troubles' \in 0..MaxTroubles /\ calm' = FALSE
BY DeploymentsAssumption DEF Trouble, DeploymentsInv, DeploymentsTypeOK

\* A job that is not of the deployment leaves the sites of all commits.
LEMMA SitesRest ==
  ASSUME DeploymentsInv, NEW c \in Commits, c <= Len(main),
         UNCHANGED <<main, deployments>>, live'.build = live.build,
         \A d \in Commits : run'[d].site = run[d].site,
         \A d \in Commits : d # c /\ run[d] = NoJobs => run'[d] = NoJobs
  PROVE  JobsAreOfMain' /\ LatestIsLive' /\ Latest' = Latest
<1>1. JobsAreOfMain'
  BY JobsStayOfMain
<1>2. LatestIsLive' /\ Latest' = Latest
  BY DeploymentRests
<1> QED
  BY <1>1, <1>2

LEMMA StartsKeep ==
  ASSUME DeploymentsInv, NEW c \in Commits, RefreshStarts(c) \/ IndexStarts(c)
  PROVE  DeploymentsInv'
<1>1. UNCHANGED <<main, deployments, live, recorded, indexed, troubles>>
  BY DEF RefreshStarts, IndexStarts
<1>2. ~Ended(c) /\ c <= Len(main)
  BY OtherJobsRun DEF RefreshStarts, IndexStarts
<1>3. /\ run' \in [Commits -> Jobs]
      /\ \A d \in Commits : run'[d].site = run[d].site
      /\ \A d \in Commits : d # c /\ run[d] = NoJobs => run'[d] = NoJobs
      /\ run'[c].plan = run[c].plan
      /\ \/ run[c].refresh = "waiting" /\ run'[c].refresh = "compare"
            /\ run'[c].index = run[c].index
         \/ run[c].index = "waiting" /\ run'[c].index = "running"
            /\ run'[c].refresh = run[c].refresh
      /\ calm' \in BOOLEAN
      /\ calm' => calm /\ \A d \in Commits : d # c => run'[d] = run[d]
  <2>1. CASE RefreshStarts(c)
    BY <2>1, RefreshEnters DEF RefreshStarts, DeploymentsInv
  <2>2. CASE IndexStarts(c)
    BY <2>2, IndexEnters DEF IndexStarts, DeploymentsInv
  <2> QED
    BY <2>1, <2>2
<1>4. DeploymentsTypeOK'
  BY <1>1, <1>3 DEF DeploymentsInv, DeploymentsTypeOK
<1>5. JobsAreOfMain' /\ LatestIsLive' /\ Latest' = Latest
  BY <1>1, <1>2, <1>3, SitesRest
<1>6. CalmFits'
  <2> SUFFICES ASSUME calm', c = Len(main)
               PROVE  /\ Latest'.state = "success" \/ run'[c].site \in Deploying
                      /\ PlanWaits(c)' /\ SiteFollows(c)' /\ IndexFollows(c)'
    BY <1>1, <1>2, <1>3, CalmStep
  <2>1. /\ PlanWaits(c) /\ SiteFollows(c) /\ IndexFollows(c)
        /\ Latest.state = "success" \/ run[c].site \in Deploying
    BY <1>3, CalmNow
  <2>2. run[c].plan # "waiting"
    BY <1>3, <2>1 DEF PlanWaits
  <2>3. SiteFollows(c)'
    BY <1>1, <1>3, <2>1, <2>2 DEF SiteFollows
  <2>4. PlanWaits(c)' /\ IndexFollows(c)'
    BY <1>1, <1>3, <2>1, <2>2 DEF PlanWaits, IndexFollows
  <2> QED
    BY <1>3, <1>5, <2>1, <2>3, <2>4
<1> QED
  BY <1>4, <1>5, <1>6 DEF DeploymentsInv

\* The refresh of a commit that the live site has the code of ends with its content.
LEMMA RefreshGoesOnKeeps ==
  ASSUME DeploymentsInv, NEW c \in Commits,
         RefreshCompares(c) \/ RefreshPublishes(c) \/ RefreshRecords(c) \/ RefreshFails(c)
  PROVE  DeploymentsInv'
<1> DEFINE from == run[c].refresh
           to == run'[c].refresh
<1>1. from \in {"compare", "publish", "record"} /\ UNCHANGED <<main, deployments, indexed>>
  BY DEF RefreshCompares, RefreshPublishes, RefreshRecords, RefreshFails, Refreshing
<1>2. ~Ended(c) /\ c <= Len(main) /\ main[c] \in Commit
  BY <1>1, OtherJobsRun
<1>3. /\ run' \in [Commits -> Jobs]
      /\ \A d \in Commits : d # c => run'[d] = run[d]
      /\ run'[c].site = run[c].site /\ run'[c].plan = run[c].plan
      /\ run'[c].index = run[c].index
      /\ \/ from = "compare" /\ to = "publish" /\ live' = live
         \/ from = "compare" /\ to = "ok" /\ live' = live /\ ~ContentChanged(c)
         \/ from = "publish" /\ to = "record"
            /\ live' = [live EXCEPT !.content = main[c].content]
         \/ from = "record" /\ to = "ok" /\ live' = live
         \/ to = "lost" /\ live' = live /\ Trouble
  <2>1. CASE RefreshCompares(c)
    <3>1. PICK state \in {"publish", "ok"} :
            Goes(c, "refresh", state) /\ (state = "ok" => ~ContentChanged(c))
      BY <2>1 DEF RefreshCompares
    <3> QED
      BY <2>1, <3>1, RefreshGoes DEF RefreshCompares, DeploymentsInv
  <2>2. CASE RefreshPublishes(c)
    BY <2>2, RefreshGoes DEF RefreshPublishes, DeploymentsInv
  <2>3. CASE RefreshRecords(c)
    BY <2>3, RefreshGoes DEF RefreshRecords, DeploymentsInv
  <2>4. CASE RefreshFails(c)
    BY <2>4, RefreshGoes DEF RefreshFails, DeploymentsInv
  <2> QED
    BY <2>1, <2>2, <2>3, <2>4
<1>4. /\ live' \in [build : Commits, content : Contents] /\ live'.build = live.build
      /\ from # "publish" \/ to = "lost" => live' = live
      /\ to = "record" => live'.content = main[c].content
  BY <1>2, <1>3 DEF DeploymentsInv, DeploymentsTypeOK, Commit
<1>5. /\ recorded' \in Commits \cup {None}
      /\ troubles' \in 0..MaxTroubles /\ calm' \in BOOLEAN
      /\ calm' => calm /\ to # "lost"
  <2>1. CASE UNCHANGED <<calm, troubles>> /\ to # "lost"
    BY <2>1 DEF RefreshCompares, RefreshPublishes, RefreshRecords, RefreshFails,
                DeploymentsInv, DeploymentsTypeOK
  <2>2. CASE Trouble
    <3>1. troubles' \in 0..MaxTroubles /\ calm' = FALSE
      BY <2>2, TroubleCounts
    <3>2. recorded' \in Commits \cup {None}
      BY DEF RefreshCompares, RefreshPublishes, RefreshRecords, RefreshFails,
             DeploymentsInv, DeploymentsTypeOK
    <3> QED
      BY <3>1, <3>2
  <2>3. \/ UNCHANGED <<calm, troubles>> /\ to # "lost"
        \/ Trouble
    BY <1>3 DEF RefreshCompares, RefreshPublishes, RefreshRecords, RefreshFails
  <2> QED
    BY <2>1, <2>2, <2>3
<1>6. DeploymentsTypeOK'
  BY <1>1, <1>3, <1>4, <1>5 DEF DeploymentsInv, DeploymentsTypeOK
<1>7. JobsAreOfMain' /\ LatestIsLive' /\ Latest' = Latest
  BY <1>1, <1>2, <1>3, <1>4, SitesRest
<1>8. CalmFits'
  <2> SUFFICES ASSUME calm', c = Len(main)
               PROVE  /\ Latest'.state = "success" \/ run'[c].site \in Deploying
                      /\ PlanWaits(c)' /\ SiteFollows(c)' /\ IndexFollows(c)'
    BY <1>1, <1>2, <1>3, <1>5, CalmStep
  <2>1. /\ PlanWaits(c) /\ SiteFollows(c) /\ IndexFollows(c)
        /\ Latest.state = "success" \/ run[c].site \in Deploying
    BY <1>5, CalmNow
  <2>2. run[c].plan # "waiting"
    BY <1>1, <2>1 DEF PlanWaits
  <2>3. run[c].site = "skipped" /\ main[live.build].code = main[c].code
        /\ (from = "record" => live.content = main[c].content)
    BY <1>1, <2>1, <2>2 DEF SiteFollows
  <2>4. to = "ok" => live'.content = main[c].content
                     \/ main[c].content = main[live.build].content
    BY <1>3, <2>3 DEF ContentChanged, CompareSha
  <2>5. to \in {"publish", "ok", "record"}
    BY <1>3, <1>5
  <2>6. SiteFollows(c)'
    <3> HIDE DEF to, from
    <3>1. /\ run'[c].site = "skipped" /\ run'[c].refresh \notin {"lost", "skipped"}
          /\ main'[live'.build].code = main'[c].code
          /\ run'[c].refresh = "record" => live'.content = main'[c].content
          /\ run'[c].refresh = "ok" => live'.content = main'[c].content
                                       \/ main'[c].content = main'[live'.build].content
      BY <1>1, <1>3, <1>4, <2>3, <2>4, <2>5 DEF to
    <3> QED
      BY <3>1 DEF SiteFollows
  <2>7. PlanWaits(c)' /\ IndexFollows(c)'
    BY <1>1, <1>3, <2>1, <2>2 DEF PlanWaits, IndexFollows
  <2> QED
    BY <1>3, <1>7, <2>1, <2>6, <2>7
<1> QED
  BY <1>6, <1>7, <1>8 DEF DeploymentsInv

\* The index of what the commit before had, and what the push changed.
LEMMA IndexGoesOnKeeps ==
  ASSUME DeploymentsInv, NEW c \in Commits, IndexEnds(c) \/ IndexFails(c)
  PROVE  DeploymentsInv'
<1>1. run[c].index = "running" /\ UNCHANGED <<main, deployments, live, recorded>>
  BY DEF IndexEnds, IndexFails
<1>2. ~Ended(c) /\ c <= Len(main) /\ main[c] \in Commit
  BY <1>1, OtherJobsRun
<1>3. /\ run' \in [Commits -> Jobs]
      /\ \A d \in Commits : d # c => run'[d] = run[d]
      /\ run'[c].site = run[c].site /\ run'[c].plan = run[c].plan
      /\ run'[c].refresh = run[c].refresh
      /\ \/ run'[c].index = "ok" /\ IndexEnds(c)
         \/ run'[c].index = "lost" /\ Trouble /\ UNCHANGED indexed
  BY IndexGoes DEF IndexEnds, IndexFails, DeploymentsInv
<1>4. /\ indexed' \in Contents /\ troubles' \in 0..MaxTroubles /\ calm' \in BOOLEAN
      /\ calm' => calm /\ run'[c].index = "ok" /\ IndexEnds(c)
  <2>1. CASE run'[c].index = "ok" /\ IndexEnds(c)
    BY <1>2, <2>1 DEF IndexEnds, DeploymentsInv, DeploymentsTypeOK, Commit
  <2>2. CASE Trouble /\ UNCHANGED indexed
    <3>1. troubles' \in 0..MaxTroubles /\ calm' = FALSE
      BY <2>2, TroubleCounts
    <3> QED
      BY <2>2, <3>1 DEF DeploymentsInv, DeploymentsTypeOK
  <2> QED
    BY <1>3, <2>1, <2>2
<1>5. DeploymentsTypeOK'
  BY <1>1, <1>3, <1>4 DEF DeploymentsInv, DeploymentsTypeOK
<1>6. JobsAreOfMain' /\ LatestIsLive' /\ Latest' = Latest
  BY <1>1, <1>2, <1>3, SitesRest
<1>7. CalmFits'
  <2> SUFFICES ASSUME calm', c = Len(main)
               PROVE  /\ Latest'.state = "success" \/ run'[c].site \in Deploying
                      /\ PlanWaits(c)' /\ SiteFollows(c)' /\ IndexFollows(c)'
    BY <1>1, <1>2, <1>3, <1>4, CalmStep
  <2>1. /\ PlanWaits(c) /\ SiteFollows(c) /\ IndexFollows(c)
        /\ Latest.state = "success" \/ run[c].site \in Deploying
    BY <1>4, CalmNow
  <2>2. run[c].plan # "waiting"
    BY <1>1, <2>1 DEF PlanWaits
  <2>3. indexed' = main[c].content
    BY <1>1, <1>4, <2>1, <2>2 DEF IndexEnds, IndexFollows
  <2>4. SiteFollows(c)'
    BY <1>1, <1>3, <2>1, <2>2 DEF SiteFollows
  <2>5. PlanWaits(c)' /\ IndexFollows(c)'
    BY <1>1, <1>3, <1>4, <2>2, <2>3 DEF PlanWaits, IndexFollows
  <2> QED
    BY <1>3, <1>6, <2>1, <2>4, <2>5
<1> QED
  BY <1>5, <1>6, <1>7 DEF DeploymentsInv

-----------------------------------------------------------------------------
(* What the deployments guarantee.                                         *)

LEMMA DeploymentsInitFits ==
  ASSUME DeploymentsInit
  PROVE  DeploymentsInv
<1>1. PICK commit \in Commit :
        /\ main = <<commit>>
        /\ run = [c \in Commits |-> NoJobs]
        /\ deployments = <<[commit |-> 1, state |-> "success"]>>
        /\ live = [build |-> 1, content |-> commit.content]
        /\ recorded = None /\ indexed = commit.content
        /\ calm = TRUE /\ troubles = 0
  BY DEF DeploymentsInit
<1>2. 1 \in Commits /\ NoJobs \in Jobs /\ commit.content \in Contents
      /\ [commit |-> 1, state |-> "success"] \in Deployment
  BY CommitNumbers DEF NoJobs, Jobs, Commit, Deployment
<1>3. Len(main) = 1 /\ main[1] = commit /\ main \in Seq(Commit)
  BY <1>1
<1>4. /\ deployments \in Seq(Deployment) /\ deployments # <<>>
      /\ Latest = [commit |-> 1, state |-> "success"]
  BY <1>1, <1>2 DEF Latest
<1>5. DeploymentsTypeOK
  BY <1>1, <1>2, <1>3, <1>4, DeploymentsAssumption DEF DeploymentsTypeOK
<1>6. JobsAreOfMain
  BY <1>1, <1>3 DEF JobsAreOfMain
<1>7. \A c \in Commits : Ended(c) /\ run[c].site = "skipped" /\ run[c].plan = "none"
                         /\ run[c].refresh = "skipped" /\ run[c].index = "skipped"
  BY <1>1 DEF NoJobs, Ended, SiteEnded, RefreshEnded, IndexEnded
<1>8. LatestIsLive
  BY <1>1, <1>4, <1>7 DEF LatestIsLive, Deploying
<1>9. CalmFits
  BY <1>1, <1>2, <1>3, <1>4, <1>7 DEF CalmFits, PlanWaits, SiteFollows, IndexFollows
<1> QED
  BY <1>5, <1>6, <1>8, <1>9 DEF DeploymentsInv

LEMMA DeploymentsStepKeeps ==
  ASSUME DeploymentsInv, [DeploymentsNext]_deploymentVars
  PROVE  DeploymentsInv'
<1>1. ASSUME NEW commit \in Commit, Push(commit)
      PROVE  DeploymentsInv'
  BY <1>1, PushKeeps
<1>2. ASSUME NEW c \in Commits,
             \/ Plan(c)
             \/ DeployStarts(c) \/ DeployWorker(c) \/ DeployArtifacts(c)
             \/ DeploySucceeds(c) \/ DeployFails(c)
             \/ RefreshStarts(c) \/ RefreshCompares(c) \/ RefreshPublishes(c)
             \/ RefreshRecords(c) \/ RefreshFails(c)
             \/ IndexStarts(c) \/ IndexEnds(c) \/ IndexFails(c)
      PROVE  DeploymentsInv'
  BY <1>2, PlanKeeps, DeployStartsKeeps, DeployWorkerKeeps, DeployArtifactsKeeps,
     DeploySucceedsKeeps, DeployFailsKeeps, StartsKeep, RefreshGoesOnKeeps,
     IndexGoesOnKeeps
<1>3. CASE UNCHANGED deploymentVars
  <2>1. UNCHANGED <<main, run, deployments, live, recorded, indexed, calm, troubles>>
    BY <1>3 DEF deploymentVars
  <2>2. DeploymentsTypeOK' /\ JobsAreOfMain'
    BY <2>1 DEF DeploymentsInv, DeploymentsTypeOK, JobsAreOfMain
  <2>3. LatestIsLive' /\ Latest' = Latest
    BY <2>1, DeploymentRests
  <2>4. CalmFits'
    BY <2>1, <2>3 DEF DeploymentsInv, CalmFits, Ended, SiteEnded, RefreshEnded, IndexEnded,
                      PlanWaits, SiteFollows, IndexFollows
  <2> QED
    BY <2>2, <2>3, <2>4 DEF DeploymentsInv
<1> QED
  BY <1>1, <1>2, <1>3 DEF DeploymentsNext

LEMMA DeploymentsInvHolds == DeploymentsSpec => []DeploymentsInv
<1>1. DeploymentsInit => DeploymentsInv
  BY DeploymentsInitFits
<1>2. DeploymentsInv /\ [DeploymentsNext]_deploymentVars => DeploymentsInv'
  BY DeploymentsStepKeeps
<1> QED
  BY <1>1, <1>2, PTL DEF DeploymentsSpec

\* Every variable of the deployments holds a value of its kind.
THEOREM DeploymentsTyped == DeploymentsSpec => []DeploymentsTypeOK
<1>1. DeploymentsInv => DeploymentsTypeOK
  BY DEF DeploymentsInv
<1> QED
  BY <1>1, DeploymentsInvHolds, PTL

\* What plans compare with is what is live: while the newest deployment is one that
\* succeeded, the worker is that of the last success, however runs overlap, cancel
\* each other and fail.
THEOREM DeploymentsAreHonest == DeploymentsSpec => []DeploymentsTellWhatIsLive
<1>1. DeploymentsInv => DeploymentsTellWhatIsLive
  <2> SUFFICES ASSUME DeploymentsInv, Latest.state = "success"
               PROVE  live.build = LastSuccess
    BY DEF DeploymentsTellWhatIsLive, Latest
  <2> QED
    BY LatestSuccess DEF DeploymentsInv, LatestIsLive
<1> QED
  BY <1>1, DeploymentsInvHolds, PTL

\* When pushes come one after the other and nothing fails, the code, the content and
\* the search index that are live are those of main, except content that a push
\* takes back to what the deployed commit had.
THEOREM LiveIsMain == DeploymentsSpec => []LiveFollowsMain
<1>1. DeploymentsInv => LiveFollowsMain
  <2> SUFFICES ASSUME DeploymentsInv, Quiet, calm
               PROVE  /\ main[live.build].code = Newest.code
                      /\ \/ live.content = Newest.content
                         \/ Newest.content = main[live.build].content
                      /\ indexed = Newest.content
    BY DEF LiveFollowsMain
  <2> DEFINE n == Len(main)
  <2>1. n \in Commits
    BY MainIsRead DEF DeploymentsInv
  <2>2. Ended(n) /\ SiteFollows(n) /\ IndexFollows(n)
    BY <2>1, CalmNow DEF Quiet, Ended
  <2>3. run[n].plan # "waiting" /\ run[n].site \in {"skipped", "ok"}
        /\ run[n].refresh \in {"skipped", "ok"} /\ run[n].index \in {"skipped", "ok"}
    BY <2>2 DEF Ended, SiteEnded, RefreshEnded, IndexEnded, SiteFollows, IndexFollows
  <2> QED
    BY <2>2, <2>3 DEF SiteFollows, IndexFollows, Newest
<1> QED
  BY <1>1, DeploymentsInvHolds, PTL

-----------------------------------------------------------------------------
(* The indexing jobs: the inductive invariant.                             *)

HasRead == job.pc \in {"delete", "upsert", "manifest", "lexical"}

HasSeen(j) ==
  \A d \in Docs : /\ j.seen[d] # None <=> content[d] # None
                  /\ d \notin j.unread => j.seen[d] = content[d]

\* What a job has seen is what is published, unless something changed since, but for
\* the details of videos that it could not read anew.
JobFits ==
  /\ job.pc # "idle" =>
       /\ job.mode # "none"
       /\ source = "podcasts" => job.mode = "full"
       /\ job.mode = "diff" => source = "repo"
       /\ job.mode = "incremental" => source = "youtube"
       /\ source = "repo" => job.seen = content
  /\ job.added \subseteq Found(job) /\ (source # "repo" => job.added = {})
  /\ source # "youtube" => job.unread = {}
  /\ HasRead =>
       /\ job.at <= edits /\ job.lexical = lexical
       /\ job.at = edits => job.ignored = ignored /\ HasSeen(job)
DueFits ==
  /\ due.pc \in {"idle", "read"}
  /\ due.added \subseteq Found(due) /\ due.unread = {}
  /\ due.pc = "read" => source = "repo" /\ due.mode = "diff" /\ due.seen = content

\* The vectors between the deletions and the upserts.
Deleted(j) ==
  [c \in Chunk |-> IF c \in IdsToDelete(j) THEN None ELSE ChunksOf(j.manifest)[c]]

\* What each step of an orderly job leaves in the three stores.
StoresFollow ==
  orderly =>
    /\ job.pc \in {"idle", "read", "delete"} => vectors = ChunksOf(manifestDocs)
    /\ job.pc \in {"delete", "upsert", "manifest"} => job.manifest = manifestDocs
    /\ job.pc # "lexical" => lexical = ChunksOf(manifestDocs)
    /\ job.pc = "upsert" => vectors = Deleted(job)
    /\ job.pc \in {"manifest", "lexical"} => vectors = ChunksOf(NextManifest(job))
    /\ job.pc = "lexical" =>
         lexical = ChunksOf(job.manifest) /\ manifestDocs = NextManifest(job)

IndexingInv == IndexingTypeOK /\ JobFits /\ DueFits /\ StoresFollow

-----------------------------------------------------------------------------
(* The indexing jobs: what a job indexes and removes.                      *)

LEMMA ChunksTyped ==
  ASSUME NEW docs \in Bodied
  PROVE  /\ ChunksOf(docs) \in Chunked
         /\ \A c \in Chunk :
              /\ c[1] \in Docs
              /\ ChunksOf(docs)[c] =
                   IF c[2] = 1 \/ docs[c[1]] \in LongBodies THEN docs[c[1]] ELSE None
              /\ docs[c[1]] = None => ChunksOf(docs)[c] = None
<1>1. \A c \in Chunk : c[1] \in Docs
  BY DEF Chunk
<1>2. \A c \in Chunk :
        ChunksOf(docs)[c] = IF c[2] = 1 \/ docs[c[1]] \in LongBodies THEN docs[c[1]] ELSE None
  BY DEF ChunksOf
<1>3. ChunksOf(docs) \in Chunked
  BY <1>1 DEF ChunksOf, Chunked, Bodied
<1> QED BY <1>1, <1>2, <1>3

LEMMA JobsTyped ==
  ASSUME NEW j \in Job
  PROVE  /\ j.seen \in Bodied /\ j.manifest \in Bodied
         /\ j.lexical \in Chunked /\ j.ignored \subseteq Docs
         /\ Remaining(j) \in Bodied /\ NextManifest(j) \in Bodied
<1>1. /\ j.seen \in Bodied /\ j.manifest \in Bodied
      /\ j.lexical \in Chunked /\ j.ignored \subseteq Docs
  BY DEF Job
<1>2. Remaining(j) \in Bodied
  BY <1>1 DEF Remaining, Bodied
<1>3. NextManifest(j) \in Bodied
  BY <1>1, <1>2 DEF NextManifest, Bodied
<1> QED BY <1>1, <1>2, <1>3

\* Only what was found and is not ignored is indexed; of it only articles that lost a
\* file are removed, and stay so if they are not indexed.
LEMMA IndexedIsFound ==
  ASSUME source \in Sources, NEW j \in Job, j.added \subseteq Found(j)
  PROVE  /\ ToIndex(j) \subseteq Found(j) \ j.ignored
         /\ (Found(j) \ j.ignored) \cap ToDelete(j) \subseteq
              ToIndex(j) \cup (j.deleted \ j.added)
         /\ source = "podcasts" => Kept(j) \subseteq ToIndex(j) \cup ToDelete(j)
<1>1. source \in {"repo", "podcasts", "youtube"}
  BY IndexingAssumption
<1>2. CASE source = "repo"
  <2>1. ToIndex(j) = RepoDocsToIndex(j) /\ ToDelete(j) = RepoDocsToDelete(j)
    BY <1>2 DEF ToIndex, ToDelete
  <2> QED BY <1>2, <2>1 DEF RepoDocsToIndex, RepoDocsToDelete, ChangedDocs, GoneDocs
<1>3. CASE source = "podcasts"
  <2>1. ToIndex(j) = PodcastDocsToIndex(j) /\ ToDelete(j) = PodcastDocsToDelete(j)
    BY <1>3 DEF ToIndex, ToDelete
  <2> QED BY <2>1 DEF PodcastDocsToIndex, PodcastDocsToDelete
<1>4. CASE source = "youtube"
  <2>1. ToIndex(j) = VideosToIndex(j) /\ ToDelete(j) = VideosToDelete(j)
    BY <1>4 DEF ToIndex, ToDelete
  <2> QED BY <1>4, <2>1 DEF VideosToIndex, VideosToDelete
<1> QED BY <1>1, <1>2, <1>3, <1>4

\* A run over everything indexes all that it found and does not ignore, and removes
\* the rest of the manifest.
LEMMA FullRunIndexesAll ==
  ASSUME source \in Sources, NEW j \in Job, j.mode = "full"
  PROVE  /\ ToIndex(j) = Found(j) \ j.ignored
         /\ (source = "youtube" => j.prune) => Kept(j) \subseteq ToIndex(j) \cup ToDelete(j)
<1>1. source \in {"repo", "podcasts", "youtube"}
  BY IndexingAssumption
<1>2. CASE source = "repo"
  <2>1. ToIndex(j) = RepoDocsToIndex(j) /\ ToDelete(j) = RepoDocsToDelete(j)
    BY <1>2 DEF ToIndex, ToDelete
  <2> QED BY <2>1 DEF RepoDocsToIndex, RepoDocsToDelete
<1>3. CASE source = "podcasts"
  <2>1. ToIndex(j) = PodcastDocsToIndex(j) /\ ToDelete(j) = PodcastDocsToDelete(j)
    BY <1>3 DEF ToIndex, ToDelete
  <2> QED BY <2>1 DEF PodcastDocsToIndex, PodcastDocsToDelete
<1>4. CASE source = "youtube"
  <2>1. ToIndex(j) = VideosToIndex(j) /\ ToDelete(j) = VideosToDelete(j)
    BY <1>4 DEF ToIndex, ToDelete
  <2> QED BY <1>4, <2>1 DEF VideosToIndex, VideosToDelete
<1> QED BY <1>1, <1>2, <1>3, <1>4

\* The deletions and upserts make the vectors those of the next manifest.
LEMMA VectorsBecomeNext ==
  ASSUME source \in Sources, NEW j \in Job, j.added \subseteq Found(j), NEW c \in Chunk
  PROVE  (IF c \in ToUpsert(j) THEN j.seen[c[1]] ELSE Deleted(j)[c])
           = ChunksOf(NextManifest(j))[c]
<1> DEFINE d == c[1]
           next == NextManifest(j)
           rest == Remaining(j)
<1>1. /\ d \in Docs /\ j.seen \in Bodied /\ j.manifest \in Bodied /\ next \in Bodied
      /\ ChunksOf(j.seen)[c] = IF c[2] = 1 \/ j.seen[d] \in LongBodies THEN j.seen[d] ELSE None
      /\ ChunksOf(next)[c] = IF c[2] = 1 \/ next[d] \in LongBodies THEN next[d] ELSE None
      /\ ChunksOf(j.manifest)[c] =
           IF c[2] = 1 \/ j.manifest[d] \in LongBodies THEN j.manifest[d] ELSE None
      /\ ChunksOf(rest)[c] = IF c[2] = 1 \/ rest[d] \in LongBodies THEN rest[d] ELSE None
      /\ next[d] = None => ChunksOf(next)[c] = None
      /\ rest[d] = None => ChunksOf(rest)[c] = None
  <2> HIDE DEF next, rest
  <2>1. /\ j.seen \in Bodied /\ j.manifest \in Bodied
        /\ next \in Bodied /\ rest \in Bodied
    BY JobsTyped DEF next, rest
  <2> QED BY <2>1, ChunksTyped
<1>2. /\ next[d] = IF d \in ToIndex(j) THEN j.seen[d] ELSE rest[d]
      /\ rest[d] = IF d \in ToDelete(j) THEN None ELSE j.manifest[d]
  BY <1>1 DEF NextManifest, Remaining
<1>3. d \in ToIndex(j) => j.seen[d] # None
  BY IndexedIsFound DEF Found
<1>4. c \in ToUpsert(j) <=>
        /\ d \in ToIndex(j) /\ ChunksOf(j.seen)[c] # None
        /\ ChunksOf(rest)[c] # ChunksOf(j.seen)[c]
  BY DEF ToUpsert
<1>5. Deleted(j)[c] =
        IF /\ ChunksOf(j.manifest)[c] # None
           /\ d \in ToDelete(j) \/ ChunksOf(next)[c] = None
        THEN None ELSE ChunksOf(j.manifest)[c]
  BY DEF Deleted, IdsToDelete
<1>6. d \notin ToDelete(j) => ChunksOf(rest)[c] = ChunksOf(j.manifest)[c]
  BY <1>1, <1>2
<1> HIDE DEF d, next, rest
<1>7. CASE d \in ToIndex(j)
  <2>1. ChunksOf(next)[c] = ChunksOf(j.seen)[c]
    BY <1>1, <1>2, <1>7
  <2>2. d \in ToDelete(j) => ChunksOf(rest)[c] = None
    BY <1>1, <1>2
  <2>3. CASE c \in ToUpsert(j)
    BY <1>1, <1>4, <2>1, <2>3 DEF d, next
  <2>4. CASE c \notin ToUpsert(j)
    BY <1>4, <1>5, <1>6, <1>7, <2>1, <2>2, <2>4 DEF next
  <2> QED BY <2>3, <2>4
<1>8. CASE d \notin ToIndex(j)
  <2>1. c \notin ToUpsert(j) /\ ChunksOf(next)[c] = ChunksOf(rest)[c]
    BY <1>1, <1>2, <1>4, <1>8
  <2> QED BY <1>1, <1>2, <1>5, <1>6, <2>1 DEF next
<1> QED BY <1>7, <1>8

\* So does the artifact, if it was that of the manifest.
LEMMA LexicalBecomesNext ==
  ASSUME source \in Sources, NEW j \in Job, j.added \subseteq Found(j),
         j.lexical = ChunksOf(j.manifest)
  PROVE  NextLexical(j) = ChunksOf(NextManifest(j))
<1> SUFFICES ASSUME NEW c \in Chunk
             PROVE  NextLexical(j)[c] = ChunksOf(NextManifest(j))[c]
  BY DEF NextLexical, ChunksOf
<1> DEFINE d == c[1]
           next == NextManifest(j)
<1>1. /\ d \in Docs /\ j.seen \in Bodied /\ j.manifest \in Bodied /\ next \in Bodied
      /\ ChunksOf(j.seen)[c] = IF c[2] = 1 \/ j.seen[d] \in LongBodies THEN j.seen[d] ELSE None
      /\ ChunksOf(next)[c] = IF c[2] = 1 \/ next[d] \in LongBodies THEN next[d] ELSE None
      /\ ChunksOf(j.manifest)[c] =
           IF c[2] = 1 \/ j.manifest[d] \in LongBodies THEN j.manifest[d] ELSE None
      /\ next[d] = None => ChunksOf(next)[c] = None
      /\ j.manifest[d] = None => ChunksOf(j.manifest)[c] = None
  <2> HIDE DEF next
  <2>1. j.seen \in Bodied /\ j.manifest \in Bodied /\ next \in Bodied
    BY JobsTyped DEF next
  <2> QED BY <2>1, ChunksTyped
<1>2. next[d] = IF d \in ToIndex(j) THEN j.seen[d]
                ELSE IF d \in ToDelete(j) THEN None ELSE j.manifest[d]
  BY <1>1 DEF NextManifest, Remaining
<1>3. NextLexical(j)[c] =
        IF d \in ToIndex(j) /\ ChunksOf(j.seen)[c] # None THEN j.seen[d]
        ELSE IF source = "podcasts" THEN None
        ELSE IF d \in ToIndex(j) \cup ToDelete(j) /\ ChunksOf(j.manifest)[c] # None THEN None
        ELSE ChunksOf(j.manifest)[c]
  BY DEF NextLexical
<1>4. source = "podcasts" /\ d \notin ToIndex(j) \cup ToDelete(j) => j.manifest[d] = None
  BY <1>1, IndexedIsFound DEF Kept
<1> HIDE DEF d, next
<1>5. CASE d \in ToIndex(j)
  BY <1>1, <1>2, <1>3, <1>5 DEF next
<1>6. CASE d \notin ToIndex(j)
  BY <1>1, <1>2, <1>3, <1>4, <1>6 DEF next
<1> QED BY <1>5, <1>6

-----------------------------------------------------------------------------
(* The indexing jobs: every step keeps the invariant.                      *)

LEMMA NoJobTyped ==
  /\ NoDocs \in Bodied /\ NoJob \in Job /\ NoJob.pc = "idle"
  /\ NoJob.added = {} /\ NoJob.unread = {}
<1>1. NoDocs \in Bodied
  BY DEF NoDocs, Bodied
<1>2. ChunksOf(NoDocs) \in Chunked
  BY <1>1, ChunksTyped
<1>3. 0 \in 0..MaxEdits
  BY IndexingAssumption
<1> QED BY <1>1, <1>2, <1>3 DEF NoJob, Job, Modes

LEMMA IndexingTyped ==
  ASSUME IndexingInv
  PROVE  /\ source \in Sources /\ content \in Bodied /\ ignored \subseteq Docs
         /\ manifestDocs \in Bodied /\ vectors \in Chunked /\ lexical \in Chunked
         /\ details \in Bodied
         /\ job \in Job /\ due \in Job /\ orderly \in BOOLEAN
         /\ edits \in 0..MaxEdits /\ edits \in Nat /\ mishaps \in 0..MaxMishaps
         /\ NextManifest(job) \in Bodied /\ job.added \subseteq Found(job)
BY IndexingAssumption, JobsTyped DEF IndexingInv, IndexingTypeOK, JobFits

LEMMA IndexingStarts == IndexingInit => IndexingInv
<1> SUFFICES ASSUME IndexingInit PROVE IndexingInv
  OBVIOUS
<1>1. ChunksOf(NoDocs) \in Chunked
  BY NoJobTyped, ChunksTyped
<1>2. IndexingTypeOK
  BY <1>1, NoJobTyped, IndexingAssumption DEF IndexingInit, IndexingTypeOK
<1>3. job.pc = "idle" /\ due.pc = "idle"
  BY NoJobTyped DEF IndexingInit
<1>4. StoresFollow
  BY <1>3 DEF IndexingInit, StoresFollow
<1>5. JobFits /\ DueFits
  <2>1. job = NoJob /\ due = NoJob
    BY DEF IndexingInit
  <2> QED BY <1>3, <2>1, NoJobTyped DEF JobFits, DueFits, HasRead
<1> QED BY <1>2, <1>4, <1>5 DEF IndexingInv

\* The plan of a job that rests stays what it was.
LEMMA PlanRests ==
  UNCHANGED <<source, job>> =>
    NextManifest(job)' = NextManifest(job) /\ Deleted(job)' = Deleted(job)
BY DEF NextManifest, Remaining, Deleted, IdsToDelete, ToIndex, ToDelete, Found, Kept, ChunksOf,
       RepoDocsToIndex, RepoDocsToDelete, ChangedDocs, GoneDocs, PodcastDocsToIndex,
       PodcastDocsToDelete, VideosToIndex, VideosToDelete

\* What a job has seen does not matter any more after an edit.
LEMMA EditedSince ==
  ASSUME IndexingInv, edits' = edits + 1, UNCHANGED <<source, lexical, job, due>>,
         source # "repo" \/ content' = content
  PROVE  JobFits' /\ DueFits'
<1>1. HasRead => job.at <= edits' /\ job.at # edits'
  BY IndexingTyped DEF IndexingInv, JobFits, Job
<1> QED BY <1>1 DEF IndexingInv, JobFits, DueFits, HasRead, Found

LEMMA ChangeContentKeeps ==
  ASSUME IndexingInv, NEW d \in Docs, NEW body \in Bodies \cup {None}, ChangeContent(d, body)
  PROVE  IndexingInv'
<1>1. /\ source # "repo" /\ edits < MaxEdits /\ edits' = edits + 1
      /\ content' = [content EXCEPT ![d] = body]
      /\ UNCHANGED <<source, ignored, manifestDocs, vectors, lexical, details, job, due,
                     orderly, mishaps>>
  BY DEF ChangeContent
<1>2. content' \in Bodied /\ edits' \in 0..MaxEdits
  BY <1>1, IndexingTyped, IndexingAssumption DEF Bodied
<1>3. IndexingTypeOK'
  BY <1>1, <1>2, IndexingTyped DEF IndexingTypeOK
<1>4. JobFits' /\ DueFits'
  BY <1>1, EditedSince
<1>5. StoresFollow'
  BY <1>1, PlanRests DEF IndexingInv, StoresFollow
<1> QED BY <1>3, <1>4, <1>5 DEF IndexingInv

LEMMA PushContentKeeps ==
  ASSUME IndexingInv, NEW d \in Docs, NEW body \in Bodies \cup {None},
         NEW added \in SUBSET Docs, NEW deleted \in SUBSET Docs,
         PushContent(d, body, added, deleted)
  PROVE  IndexingInv'
<1> DEFINE j == [NoJob EXCEPT !.pc = "read", !.mode = "diff", !.seen = content',
                              !.added = added, !.deleted = deleted]
<1>1. /\ source = "repo" /\ edits < MaxEdits /\ edits' = edits + 1
      /\ content' = [content EXCEPT ![d] = body]
      /\ \A e \in added : content'[e] # None
      /\ due' = j /\ job' = NoJob /\ orderly' = (orderly /\ job.pc = "idle" /\ due.pc = "idle")
      /\ UNCHANGED <<source, ignored, manifestDocs, vectors, lexical, details, mishaps>>
  BY DEF PushContent
<1>2. content' \in Bodied /\ edits' \in 0..MaxEdits
  BY <1>1, IndexingTyped, IndexingAssumption DEF Bodied
<1>3. /\ j \in Job /\ j.pc = "read" /\ j.mode = "diff" /\ j.seen = content'
      /\ j.added = added /\ j.unread = {}
  BY <1>2, NoJobTyped, IndexingTyped DEF NoJob, Job, Modes
<1> HIDE DEF j
<1>4. IndexingTypeOK'
  BY <1>1, <1>2, <1>3, NoJobTyped, IndexingTyped DEF IndexingTypeOK
<1>5. JobFits' /\ DueFits'
  BY <1>1, <1>3, NoJobTyped DEF JobFits, DueFits, HasRead, Found
<1>6. orderly' => orderly /\ job.pc = "idle"
  BY <1>1
<1>7. StoresFollow'
  BY <1>1, <1>6, NoJobTyped DEF IndexingInv, StoresFollow
<1> QED BY <1>4, <1>5, <1>7 DEF IndexingInv

LEMMA IgnoreKeeps ==
  ASSUME IndexingInv, NEW d \in Docs, Ignore(d)
  PROVE  IndexingInv'
<1>1. /\ edits < MaxEdits /\ edits' = edits + 1
      /\ UNCHANGED <<source, content, manifestDocs, vectors, lexical, details, job, due,
                     orderly, mishaps>>
  BY DEF Ignore
<1>2. ignored' \subseteq Docs /\ edits' \in 0..MaxEdits
  BY <1>1, IndexingTyped, IndexingAssumption DEF Ignore
<1>3. IndexingTypeOK'
  BY <1>1, <1>2, IndexingTyped DEF IndexingTypeOK
<1>4. JobFits' /\ DueFits'
  BY <1>1, EditedSince
<1>5. StoresFollow'
  BY <1>1, PlanRests DEF IndexingInv, StoresFollow
<1> QED BY <1>3, <1>4, <1>5 DEF IndexingInv

LEMMA DeleteByHandKeeps ==
  ASSUME IndexingInv, NEW d \in Docs, DeleteByHand(d)
  PROVE  IndexingInv'
<1>1. /\ edits < MaxEdits /\ edits' = edits + 1 /\ orderly' = FALSE
      /\ manifestDocs' = [manifestDocs EXCEPT ![d] = None]
      /\ UNCHANGED <<source, content, lexical, details, job, due, mishaps>>
  BY DEF DeleteByHand
<1>2. ignored' \subseteq Docs /\ vectors' \in Chunked
  <2>1. PICK reached \in BOOLEAN, ignoring \in BOOLEAN :
          /\ vectors' = [c \in Chunk |->
                           IF reached /\ c[1] = d /\ ChunksOf(manifestDocs)[c] # None
                           THEN None ELSE vectors[c]]
          /\ ignored' = IF ignoring THEN ignored \cup {d} ELSE ignored
    BY DEF DeleteByHand
  <2>2. vectors' \in Chunked
    BY <2>1, IndexingTyped DEF Chunked
  <2>3. ignored' \subseteq Docs
    BY <2>1, IndexingTyped
  <2> QED BY <2>2, <2>3
<1>3. manifestDocs' \in Bodied /\ edits' \in 0..MaxEdits
  BY <1>1, IndexingTyped, IndexingAssumption DEF Bodied
<1>4. IndexingTypeOK'
  BY <1>1, <1>2, <1>3, IndexingTyped DEF IndexingTypeOK
<1>5. JobFits' /\ DueFits'
  BY <1>1, EditedSince
<1>6. StoresFollow'
  BY <1>1 DEF StoresFollow
<1> QED BY <1>4, <1>5, <1>6 DEF IndexingInv

LEMMA JobBeginsKeeps ==
  ASSUME IndexingInv, JobBegins
  PROVE  IndexingInv'
<1>1. /\ job.pc = "idle"
      /\ UNCHANGED <<source, content, ignored, manifestDocs, vectors, lexical, details,
                     orderly, edits, mishaps>>
  BY DEF JobBegins
<1>2. /\ job' \in Job /\ job'.pc = "read" /\ job'.mode # "none"
      /\ source = "podcasts" => job'.mode = "full"
      /\ job'.mode = "diff" => source = "repo"
      /\ job'.mode = "incremental" => source = "youtube"
      /\ source = "repo" => job'.seen = content
      /\ job'.added \subseteq {d \in Docs : job'.seen[d] # None} /\ job'.unread = {}
      /\ source # "repo" => job'.added = {}
      /\ due' = NoJob \/ due' = due
  <2>1. CASE due.pc = "read" /\ Becomes(due) /\ due' = NoJob
    BY <2>1, IndexingTyped DEF Becomes, IndexingInv, DueFits, Found
  <2>2. CASE /\ source = "repo" /\ due.pc = "idle"
             /\ Becomes([NoJob EXCEPT !.pc = "read", !.mode = "full", !.seen = content])
             /\ UNCHANGED due
    <3> DEFINE j == [NoJob EXCEPT !.pc = "read", !.mode = "full", !.seen = content]
    <3>1. j \in Job /\ j.pc = "read" /\ j.mode = "full" /\ j.seen = content
          /\ j.added = {} /\ j.unread = {}
      BY NoJobTyped, IndexingTyped DEF NoJob, Job, Modes
    <3>2. job' = j
      BY <2>2 DEF Becomes
    <3> HIDE DEF j
    <3> QED BY <2>2, <3>1, <3>2
  <2>3. CASE /\ source = "podcasts"
             /\ Becomes([NoJob EXCEPT !.pc = "read", !.mode = "full"])
             /\ UNCHANGED due
    <3> DEFINE j == [NoJob EXCEPT !.pc = "read", !.mode = "full"]
    <3>1. j \in Job /\ j.pc = "read" /\ j.mode = "full"
          /\ j.added = {} /\ j.unread = {}
      BY NoJobTyped DEF NoJob, Job, Modes
    <3>2. job' = j
      BY <2>3 DEF Becomes
    <3> HIDE DEF j
    <3> QED BY <2>3, <3>1, <3>2
  <2>4. CASE /\ source = "youtube"
             /\ \E mode \in {"full", "incremental"}, prune \in BOOLEAN :
                  Becomes([NoJob EXCEPT !.pc = "read", !.mode = mode, !.prune = prune])
             /\ UNCHANGED due
    <3>1. PICK mode \in {"full", "incremental"}, prune \in BOOLEAN :
            Becomes([NoJob EXCEPT !.pc = "read", !.mode = mode, !.prune = prune])
      BY <2>4
    <3> DEFINE j == [NoJob EXCEPT !.pc = "read", !.mode = mode, !.prune = prune]
    <3>2. j \in Job /\ j.pc = "read" /\ j.mode = mode
          /\ j.added = {} /\ j.unread = {}
      BY NoJobTyped DEF NoJob, Job, Modes
    <3>3. job' = j
      BY <3>1 DEF Becomes
    <3> HIDE DEF j
    <3> QED BY <2>4, <3>2, <3>3
  <2> QED BY <2>1, <2>2, <2>3, <2>4 DEF JobBegins
<1>3. IndexingTypeOK'
  BY <1>1, <1>2, NoJobTyped, IndexingTyped DEF IndexingTypeOK
<1>4. JobFits'
  BY <1>1, <1>2 DEF JobFits, HasRead, Found
<1>5. DueFits'
  BY <1>1, <1>2, NoJobTyped DEF IndexingInv, DueFits, Found
<1>6. StoresFollow'
  BY <1>1, <1>2 DEF IndexingInv, StoresFollow
<1> QED BY <1>3, <1>4, <1>5, <1>6 DEF IndexingInv

LEMMA JobEnds ==
  ASSUME IndexingInv, job' = NoJob, due' = due,
         UNCHANGED <<source, content, ignored, manifestDocs, vectors, details, edits>>,
         lexical' \in Chunked, orderly' \in BOOLEAN, mishaps' \in 0..MaxMishaps,
         orderly' => vectors = ChunksOf(manifestDocs) /\ lexical' = ChunksOf(manifestDocs)
  PROVE  IndexingInv'
<1>1. IndexingTypeOK'
  BY NoJobTyped, IndexingTyped DEF IndexingTypeOK
<1>2. JobFits' /\ DueFits'
  BY NoJobTyped DEF IndexingInv, JobFits, DueFits, HasRead, Found
<1>3. StoresFollow'
  BY NoJobTyped DEF StoresFollow
<1> QED BY <1>1, <1>2, <1>3 DEF IndexingInv

LEMMA JobIsLostKeeps ==
  ASSUME IndexingInv, JobIsLost
  PROVE  IndexingInv'
<1>1. mishaps' \in 0..MaxMishaps /\ orderly' = FALSE
  BY IndexingTyped, IndexingAssumption DEF JobIsLost, Mishap, CountMishap
<1> QED BY <1>1, JobEnds, IndexingTyped DEF JobIsLost, Becomes

LEMMA NothingNewKeeps ==
  ASSUME IndexingInv, NothingNew
  PROVE  IndexingInv'
<1>1. orderly => vectors = ChunksOf(manifestDocs) /\ lexical = ChunksOf(manifestDocs)
  BY DEF NothingNew, IndexingInv, StoresFollow
<1> QED BY <1>1, JobEnds, IndexingTyped DEF NothingNew, Becomes

\* What is read is what is published, but for the details of some videos.
LEMMA Read ==
  ASSUME IndexingInv, JobReads
  PROVE  \E list \in Bodied, unread \in SUBSET Docs :
           /\ job' = [Reading(list) EXCEPT !.unread = unread]
           /\ source # "youtube" => unread = {} /\ list = content
           /\ \A d \in Docs : /\ list[d] # None <=> content[d] # None
                              /\ d \notin unread => list[d] = content[d]
           /\ details' \in Bodied /\ mishaps' \in 0..MaxMishaps
<1>1. /\ job.pc = "read" /\ source \in {"repo", "podcasts", "youtube"}
      /\ content \in Bodied /\ details \in Bodied /\ mishaps \in 0..MaxMishaps
      /\ job \in Job
  BY IndexingTyped, IndexingAssumption DEF JobReads
<1>2. CASE source # "youtube"
  <2>1. job' = Reading(content) /\ UNCHANGED <<details, mishaps>>
    BY <1>1, <1>2 DEF JobReads, Becomes, IndexingInv, JobFits
  <2>2. job.unread = {}
    BY <1>2 DEF IndexingInv, JobFits
  <2>3. Reading(content) = [Reading(content) EXCEPT !.unread = {}]
    BY <1>1, <2>2 DEF Reading, Job
  <2>4. job' = [Reading(content) EXCEPT !.unread = {}]
    BY <2>1, <2>3
  <2> QED BY <1>1, <1>2, <2>1, <2>4
<1>3. CASE source = "youtube"
  <2> DEFINE videos == VideosToIndex(Reading(content))
  <2>1. EnrichVideos
    BY <1>3 DEF JobReads
  <2>2. PICK useCache \in BOOLEAN, refreshCache \in BOOLEAN :
          LET stored == {d \in videos : useCache /\ ~refreshCache /\ details[d] # None}
          IN \E refused \in SUBSET (videos \ stored) :
               LET read == [d \in Docs |-> IF d \in stored THEN details[d]
                                           ELSE IF d \in refused THEN Bare ELSE content[d]]
               IN /\ IF useCache /\ refused = {} THEN UNCHANGED mishaps ELSE CountMishap
                  /\ Becomes([Reading(read) EXCEPT
                               !.unread = {d \in videos : read[d] # content[d]}])
                  /\ details' = [d \in Docs |-> IF useCache /\ d \in videos THEN read[d]
                                                ELSE details[d]]
    BY <2>1 DEF EnrichVideos
  <2> DEFINE stored == {d \in videos : useCache /\ ~refreshCache /\ details[d] # None}
  <2>3. PICK refused \in SUBSET (videos \ stored) :
          LET read == [d \in Docs |-> IF d \in stored THEN details[d]
                                      ELSE IF d \in refused THEN Bare ELSE content[d]]
          IN /\ IF useCache /\ refused = {} THEN UNCHANGED mishaps ELSE CountMishap
             /\ Becomes([Reading(read) EXCEPT
                          !.unread = {d \in videos : read[d] # content[d]}])
             /\ details' = [d \in Docs |-> IF useCache /\ d \in videos THEN read[d]
                                           ELSE details[d]]
    BY <2>2
  <2> DEFINE read == [d \in Docs |-> IF d \in stored THEN details[d]
                                     ELSE IF d \in refused THEN Bare ELSE content[d]]
             unread == {d \in videos : read[d] # content[d]}
  <2>4. /\ job' = [Reading(read) EXCEPT !.unread = unread]
        /\ details' = [d \in Docs |-> IF useCache /\ d \in videos THEN read[d]
                                      ELSE details[d]]
        /\ mishaps' = mishaps \/ CountMishap
    BY <2>3 DEF Becomes
  <2>5. videos \subseteq {d \in Docs : content[d] # None}
    <3>1. Reading(content).seen = content
      BY <1>1 DEF Reading, Job
    <3> QED BY <3>1 DEF VideosToIndex, Found
  <2>6. stored \subseteq videos /\ refused \subseteq videos
        /\ \A d \in stored : details[d] # None
    BY <2>3
  <2> HIDE DEF videos, stored
  <2>7. read \in Bodied
    BY <1>1, IndexingAssumption DEF Bodied
  <2>8. ASSUME NEW d \in Docs
        PROVE  /\ read[d] # None <=> content[d] # None
               /\ d \notin unread => read[d] = content[d]
    BY <2>5, <2>6, IndexingAssumption
  <2>9. unread \in SUBSET Docs
    BY <2>5
  <2> HIDE DEF read
  <2>10. details' \in Bodied
    BY <1>1, <2>4, <2>7 DEF Bodied
  <2>11. mishaps' \in 0..MaxMishaps
    BY <1>1, <2>4, IndexingAssumption DEF CountMishap
  <2> HIDE DEF unread
  <2>12. \A d \in Docs : /\ read[d] # None <=> content[d] # None
                         /\ d \notin unread => read[d] = content[d]
    BY <2>8 DEF unread
  <2> QED BY <1>3, <2>4, <2>7, <2>9, <2>10, <2>11, <2>12
<1> QED BY <1>2, <1>3

LEMMA JobReadsKeeps ==
  ASSUME IndexingInv, JobReads
  PROVE  IndexingInv'
<1>1. /\ job.pc = "read"
      /\ UNCHANGED <<source, content, ignored, manifestDocs, vectors, lexical, due, orderly,
                     edits>>
  BY DEF JobReads
<1>2. PICK list \in Bodied, unread \in SUBSET Docs :
        /\ job' = [Reading(list) EXCEPT !.unread = unread]
        /\ source # "youtube" => unread = {} /\ list = content
        /\ \A d \in Docs : /\ list[d] # None <=> content[d] # None
                           /\ d \notin unread => list[d] = content[d]
        /\ details' \in Bodied /\ mishaps' \in 0..MaxMishaps
  BY Read
<1>3. /\ job' \in Job /\ job'.pc = "delete" /\ job'.seen = list /\ job'.unread = unread
      /\ job'.ignored = ignored /\ job'.manifest = manifestDocs /\ job'.lexical = lexical
      /\ job'.at = edits /\ job'.mode = job.mode /\ job'.added = job.added
  BY <1>2, IndexingTyped DEF Job, Reading
<1>4. IndexingTypeOK'
  BY <1>1, <1>2, <1>3, IndexingTyped DEF IndexingTypeOK
<1>5. job'.added \subseteq {d \in Docs : job'.seen[d] # None}
  <2>1. CASE source = "youtube" \/ source = "podcasts" \/ source = "repo"
    <3>1. source = "repo" => job.seen = content
      BY <1>1 DEF IndexingInv, JobFits
    <3>2. source # "repo" => job.added = {}
      BY <1>1 DEF IndexingInv, JobFits
    <3> QED BY <1>2, <1>3, <3>1, <3>2 DEF IndexingInv, JobFits, Found
  <2> QED BY <2>1, IndexingTyped, IndexingAssumption
<1>6. JobFits' /\ DueFits'
  <2>1. /\ job'.mode # "none"
        /\ source = "podcasts" => job'.mode = "full"
        /\ job'.mode = "diff" => source = "repo"
        /\ job'.mode = "incremental" => source = "youtube"
        /\ source # "repo" => job'.added = {}
    BY <1>1, <1>3 DEF IndexingInv, JobFits
  <2>2. /\ source = "repo" => job'.seen = content
        /\ source # "youtube" => job'.unread = {}
    BY <1>2, <1>3
  <2>3. HasSeen(job)' /\ edits \in Nat
    BY <1>1, <1>2, <1>3, IndexingTyped DEF HasSeen
  <2>4. JobFits'
    BY <1>1, <1>3, <1>5, <2>1, <2>2, <2>3 DEF JobFits, HasRead, Found
  <2>5. DueFits'
    BY <1>1 DEF IndexingInv, DueFits, Found
  <2> QED BY <2>4, <2>5
<1>7. StoresFollow'
  BY <1>1, <1>3 DEF IndexingInv, StoresFollow
<1> QED BY <1>4, <1>6, <1>7 DEF IndexingInv

\* A job that goes on keeps its plan.
LEMMA JobGoes ==
  ASSUME IndexingInv, UNCHANGED source,
         NEW pc \in {"delete", "upsert", "manifest", "lexical"},
         job' = [job EXCEPT !.pc = pc]
  PROVE  /\ job' \in Job /\ job'.pc = pc /\ job'.mode = job.mode /\ job'.seen = job.seen
         /\ job'.ignored = job.ignored /\ job'.manifest = job.manifest
         /\ job'.lexical = job.lexical /\ job'.at = job.at
         /\ job'.unread = job.unread /\ job'.added = job.added
         /\ NextManifest(job)' = NextManifest(job)
         /\ Deleted(job)' = Deleted(job)
<1>1. /\ job' \in Job /\ job'.pc = pc /\ job'.mode = job.mode /\ job'.seen = job.seen
      /\ job'.ignored = job.ignored /\ job'.manifest = job.manifest
      /\ job'.lexical = job.lexical /\ job'.at = job.at
      /\ job'.prune = job.prune /\ job'.unread = job.unread
      /\ job'.added = job.added /\ job'.deleted = job.deleted
  BY IndexingTyped DEF Job
<1>2. Found(job)' = Found(job) /\ Kept(job)' = Kept(job)
  BY <1>1 DEF Found, Kept
<1>3. ToIndex(job)' = ToIndex(job)
  BY <1>1, <1>2 DEF ToIndex, RepoDocsToIndex, ChangedDocs, PodcastDocsToIndex, VideosToIndex
<1>4. PodcastDocsToIndex(job)' = PodcastDocsToIndex(job)
  BY <1>1, <1>2 DEF PodcastDocsToIndex
<1>5. ToDelete(job)' = ToDelete(job)
  BY <1>1, <1>2, <1>4 DEF ToDelete, RepoDocsToDelete, GoneDocs, PodcastDocsToDelete,
                          VideosToDelete
<1>6. NextManifest(job)' = NextManifest(job)
  BY <1>1, <1>3, <1>5 DEF NextManifest, Remaining
<1>7. Deleted(job)' = Deleted(job)
  BY <1>1, <1>5, <1>6 DEF Deleted, IdsToDelete, ChunksOf
<1> QED BY <1>1, <1>6, <1>7

LEMMA DeleteVectorsKeeps ==
  ASSUME IndexingInv, DeleteVectors
  PROVE  IndexingInv'
<1>1. /\ job.pc = "delete" /\ job' = [job EXCEPT !.pc = "upsert"]
      /\ vectors' = [c \in Chunk |-> IF c \in IdsToDelete(job) THEN None ELSE vectors[c]]
      /\ UNCHANGED <<source, content, ignored, manifestDocs, lexical, details, due,
                     orderly, edits, mishaps>>
  BY DEF DeleteVectors, Becomes
<1>2. /\ job' \in Job /\ job'.pc = "upsert" /\ job'.mode = job.mode /\ job'.seen = job.seen
      /\ job'.ignored = job.ignored /\ job'.manifest = job.manifest
      /\ job'.lexical = job.lexical /\ job'.at = job.at
      /\ job'.unread = job.unread /\ job'.added = job.added
      /\ Deleted(job)' = Deleted(job)
  BY <1>1, JobGoes
<1>3. vectors' \in Chunked
  BY <1>1, IndexingTyped DEF Chunked
<1>4. orderly => vectors' = Deleted(job)
  BY <1>1 DEF IndexingInv, StoresFollow, Deleted
<1>5. IndexingTypeOK'
  BY <1>1, <1>2, <1>3, IndexingTyped DEF IndexingTypeOK
<1>6. JobFits' /\ DueFits'
  BY <1>1, <1>2 DEF IndexingInv, JobFits, DueFits, HasRead, HasSeen, Found
<1>7. StoresFollow'
  BY <1>1, <1>2, <1>4 DEF IndexingInv, StoresFollow
<1> QED BY <1>5, <1>6, <1>7 DEF IndexingInv

LEMMA UpsertVectorsKeeps ==
  ASSUME IndexingInv, UpsertVectors
  PROVE  IndexingInv'
<1>1. /\ job.pc = "upsert" /\ job' = [job EXCEPT !.pc = "manifest"]
      /\ UNCHANGED <<source, content, ignored, manifestDocs, lexical, details, due, edits>>
  BY DEF UpsertVectors, Becomes
<1>2. PICK refused \in {{}} \cup {{c} : c \in ToUpsert(job)} :
        /\ IF refused = {} THEN UNCHANGED <<orderly, mishaps>> ELSE Mishap
        /\ vectors' = [c \in Chunk |-> IF c \in Embedded(ToUpsert(job), refused)
                                       THEN job.seen[c[1]] ELSE vectors[c]]
  BY DEF UpsertVectors
<1>3. /\ job' \in Job /\ job'.pc = "manifest" /\ job'.mode = job.mode /\ job'.seen = job.seen
      /\ job'.ignored = job.ignored /\ job'.manifest = job.manifest
      /\ job'.lexical = job.lexical /\ job'.at = job.at
      /\ job'.unread = job.unread /\ job'.added = job.added
      /\ NextManifest(job)' = NextManifest(job)
  BY <1>1, JobGoes
<1>4. vectors' \in Chunked
  <2>1. \A c \in Chunk : c[1] \in Docs
    BY DEF Chunk
  <2> QED BY <2>1, <1>2, IndexingTyped, JobsTyped DEF Chunked, Bodied
<1>5. orderly' \in BOOLEAN /\ mishaps' \in 0..MaxMishaps
      /\ (orderly' => orderly /\ refused = {})
  <2>1. CASE refused = {}
    BY <1>2, <2>1, IndexingTyped
  <2>2. CASE refused # {}
    <3>1. mishaps < MaxMishaps /\ mishaps' = mishaps + 1 /\ orderly' = FALSE
      BY <1>2, <2>2 DEF Mishap, CountMishap
    <3>2. mishaps' \in 0..MaxMishaps
      BY <3>1, IndexingTyped, IndexingAssumption
    <3> QED BY <3>1, <3>2
  <2> QED BY <2>1, <2>2
<1>6. orderly' => vectors' = ChunksOf(NextManifest(job))
  <2> SUFFICES ASSUME orderly' PROVE vectors' = ChunksOf(NextManifest(job))
    OBVIOUS
  <2>1. vectors = Deleted(job)
    BY <1>1, <1>5 DEF IndexingInv, StoresFollow
  <2>2. vectors' = [c \in Chunk |-> IF c \in ToUpsert(job) THEN job.seen[c[1]]
                                    ELSE Deleted(job)[c]]
    BY <1>2, <1>5, <2>1 DEF Embedded
  <2>3. \A c \in Chunk : (IF c \in ToUpsert(job) THEN job.seen[c[1]] ELSE Deleted(job)[c])
                           = ChunksOf(NextManifest(job))[c]
    BY VectorsBecomeNext, IndexingTyped
  <2>4. vectors' \in Chunked /\ ChunksOf(NextManifest(job)) \in Chunked
    BY <1>4, ChunksTyped, IndexingTyped
  <2>5. \A c \in Chunk : vectors'[c] = ChunksOf(NextManifest(job))[c]
    BY <2>2, <2>3
  <2> QED BY <2>4, <2>5 DEF Chunked
<1>7. IndexingTypeOK'
  BY <1>1, <1>3, <1>4, <1>5, IndexingTyped DEF IndexingTypeOK
<1>8. JobFits' /\ DueFits'
  BY <1>1, <1>3 DEF IndexingInv, JobFits, DueFits, HasRead, HasSeen, Found
<1>9. StoresFollow'
  BY <1>1, <1>3, <1>5, <1>6 DEF IndexingInv, StoresFollow
<1> QED BY <1>7, <1>8, <1>9 DEF IndexingInv

LEMMA PutManifestKeeps ==
  ASSUME IndexingInv, PutManifest
  PROVE  IndexingInv'
<1>1. /\ job.pc = "manifest" /\ job' = [job EXCEPT !.pc = "lexical"]
      /\ manifestDocs' = NextManifest(job)
      /\ UNCHANGED <<source, content, ignored, vectors, lexical, details, due, orderly,
                     edits, mishaps>>
  BY DEF PutManifest, Becomes
<1>2. /\ job' \in Job /\ job'.pc = "lexical" /\ job'.mode = job.mode /\ job'.seen = job.seen
      /\ job'.ignored = job.ignored /\ job'.manifest = job.manifest
      /\ job'.lexical = job.lexical /\ job'.at = job.at
      /\ job'.unread = job.unread /\ job'.added = job.added
      /\ NextManifest(job)' = NextManifest(job)
  BY <1>1, JobGoes
<1>3. IndexingTypeOK'
  BY <1>1, <1>2, IndexingTyped DEF IndexingTypeOK
<1>4. JobFits' /\ DueFits'
  BY <1>1, <1>2 DEF IndexingInv, JobFits, DueFits, HasRead, HasSeen, Found
<1>5. StoresFollow'
  BY <1>1, <1>2 DEF IndexingInv, StoresFollow
<1> QED BY <1>3, <1>4, <1>5 DEF IndexingInv

LEMMA LexicalTyped ==
  ASSUME NEW j \in Job
  PROVE  NextLexical(j) \in Chunked
<1>1. \A c \in Chunk : c[1] \in Docs
  BY DEF Chunk
<1>2. j.seen \in Bodied /\ j.lexical \in Chunked
  BY JobsTyped
<1>3. \A c \in Chunk : j.seen[c[1]] \in Bodies \cup {None} /\ j.lexical[c] \in Bodies \cup {None}
  BY <1>1, <1>2 DEF Bodied, Chunked
<1> QED BY <1>3 DEF NextLexical, Chunked

LEMMA PutLexicalKeeps ==
  ASSUME IndexingInv, PutLexical
  PROVE  IndexingInv'
<1>1. /\ job.pc = "lexical" /\ job' = NoJob /\ lexical' = NextLexical(job)
      /\ UNCHANGED <<source, content, ignored, manifestDocs, vectors, details, due, orderly,
                     edits, mishaps>>
  BY DEF PutLexical, Becomes
<1>2. lexical' \in Chunked
  BY <1>1, LexicalTyped, IndexingTyped
<1>3. ASSUME orderly
      PROVE  vectors = ChunksOf(manifestDocs) /\ lexical' = ChunksOf(manifestDocs)
  <2>1. /\ vectors = ChunksOf(NextManifest(job)) /\ manifestDocs = NextManifest(job)
        /\ job.lexical = ChunksOf(job.manifest)
    BY <1>1, <1>3 DEF IndexingInv, StoresFollow, JobFits, HasRead
  <2>2. NextLexical(job) = ChunksOf(NextManifest(job))
    BY <2>1, LexicalBecomesNext, IndexingTyped
  <2> QED BY <1>1, <2>1, <2>2
<1> QED BY <1>1, <1>2, <1>3, JobEnds, IndexingTyped

LEMMA IndexingStepKeeps == IndexingInv /\ [IndexingNext]_indexVars => IndexingInv'
<1> SUFFICES ASSUME IndexingInv, [IndexingNext]_indexVars PROVE IndexingInv'
  OBVIOUS
<1>1. CASE \E d \in Docs, body \in Bodies \cup {None} :
             \/ ChangeContent(d, body)
             \/ \E added, deleted \in SUBSET Docs : PushContent(d, body, added, deleted)
  BY <1>1, ChangeContentKeeps, PushContentKeeps
<1>2. CASE \E d \in Docs : Ignore(d) \/ DeleteByHand(d)
  BY <1>2, IgnoreKeeps, DeleteByHandKeeps
<1>3. CASE JobBegins
  BY <1>3, JobBeginsKeeps
<1>4. CASE JobGoesOn
  BY <1>4, JobReadsKeeps, NothingNewKeeps, DeleteVectorsKeeps, UpsertVectorsKeeps,
     PutManifestKeeps, PutLexicalKeeps DEF JobGoesOn
<1>5. CASE JobIsLost
  BY <1>5, JobIsLostKeeps
<1>6. CASE UNCHANGED indexVars
  <2>1. UNCHANGED <<source, content, ignored, manifestDocs, vectors, lexical, details, job, due,
                    orderly, edits, mishaps>>
    BY <1>6 DEF indexVars
  <2>2. IndexingTypeOK' /\ JobFits' /\ DueFits'
    BY <2>1 DEF IndexingInv, IndexingTypeOK, JobFits, DueFits, HasRead, HasSeen, Found
  <2>3. StoresFollow'
    BY <2>1, PlanRests DEF IndexingInv, StoresFollow
  <2> QED BY <2>2, <2>3 DEF IndexingInv
<1> QED BY <1>1, <1>2, <1>3, <1>4, <1>5, <1>6 DEF IndexingNext

LEMMA IndexingInvHolds == IndexingSpec => []IndexingInv
BY IndexingStarts, IndexingStepKeeps, PTL DEF IndexingSpec

-----------------------------------------------------------------------------
(* The indexing jobs: what a run that ends has written.                    *)

LEMMA EndsByWriting ==
  ASSUME IndexingInv, IndexingNext, Ends
  PROVE  PutLexical
<1>1. job.pc = "lexical" /\ job'.pc = "idle" /\ mishaps' = mishaps /\ edits' = edits
  BY DEF Ends
<1>2. edits' # edits + 1 /\ mishaps' # mishaps + 1
  BY <1>1, IndexingTyped, IndexingAssumption
<1>3. ~ \E d \in Docs, body \in Bodies \cup {None} :
           \/ ChangeContent(d, body)
           \/ \E added, deleted \in SUBSET Docs : PushContent(d, body, added, deleted)
  BY <1>2 DEF ChangeContent, PushContent
<1>4. ~ \E d \in Docs : Ignore(d) \/ DeleteByHand(d)
  BY <1>2 DEF Ignore, DeleteByHand
<1>5. ~JobBegins /\ ~JobIsLost
  BY <1>1, <1>2 DEF JobBegins, JobIsLost, Mishap, CountMishap
<1>6. ~JobReads /\ ~NothingNew /\ ~DeleteVectors
  BY <1>1 DEF JobReads, NothingNew, DeleteVectors
<1>7. ~UpsertVectors /\ ~PutManifest
  BY <1>1 DEF UpsertVectors, PutManifest
<1> QED BY <1>3, <1>4, <1>5, <1>6, <1>7 DEF IndexingNext, JobGoesOn

\* What the job has seen and ignores is what is published and ignored.
LEMMA EndsUpToDate ==
  ASSUME IndexingInv, PutLexical, job.at = edits
  PROVE  /\ lexical' = NextLexical(job) /\ job.ignored = ignored
         /\ job.lexical = lexical /\ job.mode # "none"
         /\ \A d \in Docs : /\ Wanted[d] # None <=> d \in Found(job) \ job.ignored
                            /\ Wanted[d] # None /\ d \notin job.unread
                                 => Wanted[d] = job.seen[d]
<1>1. lexical' = NextLexical(job) /\ job.pc = "lexical"
  BY DEF PutLexical
<1>2. HasSeen(job) /\ job.ignored = ignored /\ job.lexical = lexical /\ job.mode # "none"
  BY <1>1 DEF IndexingInv, JobFits, HasRead
<1> QED BY <1>1, <1>2 DEF Wanted, Found, HasSeen

\* A run over everything writes what it has read and does not ignore.
LEMMA FullRunWrites ==
  ASSUME IndexingInv, PutLexical, job.at = edits, job.mode = "full",
         source = "podcasts" \/ (orderly /\ (source = "youtube" => job.prune))
  PROVE  lexical' = ChunksOf([d \in Docs |-> IF d \in Found(job) \ job.ignored
                                             THEN job.seen[d] ELSE None])
<1> DEFINE docs == [d \in Docs |-> IF d \in Found(job) \ job.ignored
                                    THEN job.seen[d] ELSE None]
<1>1. /\ ToIndex(job) = Found(job) \ job.ignored
      /\ (source = "youtube" => job.prune) => Kept(job) \subseteq ToIndex(job) \cup ToDelete(job)
  BY FullRunIndexesAll, IndexingTyped
<1>2. \A d \in Docs : docs[d] = IF d \in ToIndex(job) THEN job.seen[d] ELSE None
  BY <1>1
<1>3. docs \in Bodied
  BY IndexingTyped, JobsTyped DEF Bodied
<1> HIDE DEF docs
<1>4. CASE source = "podcasts"
  <2> SUFFICES ASSUME NEW c \in Chunk PROVE NextLexical(job)[c] = ChunksOf(docs)[c]
    BY EndsUpToDate DEF NextLexical, ChunksOf, docs
  <2>1. c[1] \in Docs
    BY DEF Chunk
  <2>2. /\ ChunksOf(docs)[c] =
             IF c[2] = 1 \/ docs[c[1]] \in LongBodies THEN docs[c[1]] ELSE None
        /\ docs[c[1]] = None => ChunksOf(docs)[c] = None
    BY <1>3, ChunksTyped
  <2>3. ChunksOf(job.seen)[c] =
          IF c[2] = 1 \/ job.seen[c[1]] \in LongBodies THEN job.seen[c[1]] ELSE None
    BY IndexingTyped, JobsTyped, ChunksTyped
  <2>4. NextLexical(job)[c] =
          IF c[1] \in ToIndex(job) /\ ChunksOf(job.seen)[c] # None THEN job.seen[c[1]]
          ELSE None
    BY <1>4 DEF NextLexical
  <2> QED BY <1>2, <2>1, <2>2, <2>3, <2>4
<1>5. CASE orderly /\ (source = "youtube" => job.prune)
  <2>1. job.lexical = ChunksOf(job.manifest)
    BY <1>5 DEF IndexingInv, StoresFollow, JobFits, HasRead, PutLexical
  <2>2. lexical' = ChunksOf(NextManifest(job))
    BY <2>1, EndsUpToDate, LexicalBecomesNext, IndexingTyped
  <2>3. \A d \in Docs : NextManifest(job)[d] = docs[d]
    <3> SUFFICES ASSUME NEW d \in Docs PROVE NextManifest(job)[d] = docs[d]
      OBVIOUS
    <3>1. NextManifest(job)[d] = IF d \in ToIndex(job) THEN job.seen[d]
                                 ELSE IF d \in ToDelete(job) THEN None ELSE job.manifest[d]
      BY DEF NextManifest, Remaining
    <3>2. d \notin ToIndex(job) \cup ToDelete(job) => job.manifest[d] = None
      BY <1>1, <1>5 DEF Kept
    <3> QED BY <1>2, <3>1, <3>2
  <2>4. NextManifest(job) = docs
    BY <1>3, <2>3, IndexingTyped DEF Bodied
  <2> QED BY <2>2, <2>4 DEF docs
<1> QED BY <1>4, <1>5

LEMMA FullRunShows ==
  ASSUME IndexingInv, PutLexical, job.at = edits, job.mode = "full",
         source = "podcasts" \/ (orderly /\ (source = "youtube" => job.prune)),
         NEW d \in Docs
  PROVE  IF source = "youtube" /\ d \in job.unread
         THEN Wanted[d] # None => lexical'[<<d, 1>>] # None
         ELSE \A i \in {1, 2} : lexical'[<<d, i>>] = ChunksOf(Wanted)[<<d, i>>]
<1> DEFINE docs == [e \in Docs |-> IF e \in Found(job) \ job.ignored
                                    THEN job.seen[e] ELSE None]
<1>1. lexical' = ChunksOf(docs)
  BY FullRunWrites
<1>2. /\ \A i \in {1, 2} : <<d, i>> \in Chunk
      /\ \A e \in {docs, Wanted}, i \in {1, 2} :
           ChunksOf(e)[<<d, i>>] = IF i = 1 \/ e[d] \in LongBodies THEN e[d] ELSE None
  BY DEF ChunksOf, Chunk
<1>3. docs[d] = IF d \in Found(job) \ job.ignored THEN job.seen[d] ELSE None
  OBVIOUS
<1>4. /\ Wanted[d] # None <=> d \in Found(job) \ job.ignored
      /\ Wanted[d] # None /\ d \notin job.unread => Wanted[d] = job.seen[d]
  <2>1. \A e \in Docs : /\ Wanted[e] # None <=> e \in Found(job) \ job.ignored
                        /\ Wanted[e] # None /\ e \notin job.unread
                              => Wanted[e] = job.seen[e]
    BY EndsUpToDate
  <2> QED BY <2>1
<1> HIDE DEF docs
<1>5. CASE source = "youtube" /\ d \in job.unread
  BY <1>1, <1>2, <1>3, <1>4, <1>5 DEF Found
<1>6. CASE ~(source = "youtube" /\ d \in job.unread)
  <2>1. d \notin job.unread
    BY <1>6 DEF IndexingInv, JobFits
  <2>2. docs[d] = Wanted[d]
    BY <1>3, <1>4, <2>1
  <2> QED BY <1>1, <1>2, <1>6, <2>2
<1> QED BY <1>5, <1>6

LEMMA PublishedStays ==
  ASSUME IndexingInv, PutLexical, job.at = edits,
         NEW d \in Docs \ (job.deleted \ job.added),
         Wanted[d] # None, lexical[<<d, 1>>] # None
  PROVE  lexical'[<<d, 1>>] # None
<1> DEFINE c == <<d, 1>>
<1>1. c \in Chunk /\ c[1] = d /\ c[2] = 1
  BY DEF Chunk
<1>2. /\ d \in Found(job) \ job.ignored /\ job.seen[d] # None
      /\ d \in ToDelete(job) => d \in ToIndex(job)
  <2>1. \A e \in Docs : Wanted[e] # None <=> e \in Found(job) \ job.ignored
    BY EndsUpToDate
  <2>2. d \in Found(job) \ job.ignored
    BY <2>1
  <2>3. (Found(job) \ job.ignored) \cap ToDelete(job) \subseteq
          ToIndex(job) \cup (job.deleted \ job.added)
    BY IndexedIsFound, IndexingTyped
  <2> QED BY <2>2, <2>3 DEF Found
<1>3. ChunksOf(job.seen)[c] = job.seen[d]
  BY <1>1 DEF ChunksOf
<1>4. NextLexical(job)[c] =
        IF d \in ToIndex(job) /\ ChunksOf(job.seen)[c] # None THEN job.seen[d]
        ELSE IF source = "podcasts" THEN None
        ELSE IF d \in ToIndex(job) \cup ToDelete(job) /\ ChunksOf(job.manifest)[c] # None
             THEN None
        ELSE job.lexical[c]
  BY <1>1 DEF NextLexical
<1> HIDE DEF c
<1>5. CASE d \in ToIndex(job)
  BY <1>2, <1>3, <1>4, <1>5, EndsUpToDate DEF c
<1>6. CASE d \notin ToIndex(job)
  <2>1. source # "podcasts"
    BY <1>2, <1>6, IndexingTyped DEF ToIndex, PodcastDocsToIndex
  <2> QED BY <1>2, <1>4, <1>6, <2>1, EndsUpToDate DEF c
<1> QED BY <1>5, <1>6

\* For any documents, bodies and jobs, lost ones included: every variable of the
\* indexing jobs holds a value of its kind.
THEOREM IndexingIsTyped == IndexingSpec => []IndexingTypeOK
<1>1. IndexingInv => IndexingTypeOK
  BY DEF IndexingInv
<1> QED BY <1>1, IndexingInvHolds, PTL

\* Between the jobs the manifest, the vectors and the lexical artifact tell of the
\* same chunks, as long as nothing interfered: a job, whatever it indexes and
\* removes, brings all three from the manifest it read to the one it writes.
THEOREM StoresStayTogether == IndexingSpec => []StoresAgree
<1>1. IndexingInv => StoresAgree
  BY DEF IndexingInv, StoresFollow, StoresAgree
<1> QED BY <1>1, IndexingInvHolds, PTL

\* A run over everything that ends without a change in between leaves what is
\* published and not ignored, and nothing else, to be found by words; a video whose
\* details it could not read anew is found by what it read of it.
THEOREM FullRunsAreEffective == IndexingSpec => FullRunsShowContent
<1>1. IndexingInv /\ [IndexingNext]_indexVars =>
        [/\ Ends /\ job.at = edits /\ job.mode = "full"
         /\ source = "podcasts" \/ (orderly /\ (source = "youtube" => job.prune))
         => \A d \in Docs :
              IF source = "youtube" /\ d \in job.unread
              THEN Wanted[d] # None => lexical'[<<d, 1>>] # None
              ELSE \A i \in {1, 2} :
                     lexical'[<<d, i>>] = ChunksOf(Wanted)[<<d, i>>]]_indexVars
  BY EndsByWriting, FullRunShows
<1> QED BY <1>1, IndexingInvHolds, PTL DEF IndexingSpec, FullRunsShowContent

\* A document that is published and not ignored keeps its first chunk when a job ends
\* that read it after the last change, of whichever kind, whatever jobs were lost,
\* unless the push took a file of the article away and neither added nor changed one.
THEOREM NothingPublishedIsLost == IndexingSpec => PublishedStaysFound
<1>1. IndexingInv /\ [IndexingNext]_indexVars =>
        [Ends /\ job.at = edits =>
           \A d \in Docs \ (job.deleted \ job.added) :
             Wanted[d] # None /\ lexical[<<d, 1>>] # None
               => lexical'[<<d, 1>>] # None]_indexVars
  BY EndsByWriting, PublishedStays
<1> QED BY <1>1, IndexingInvHolds, PTL DEF IndexingSpec, PublishedStaysFound

-----------------------------------------------------------------------------
(* The compilation of articles: the inductive invariant.                   *)

\* What is known of the compilation of an article: an edit since its hash was taken
\* leaves it with other inputs, and a degraded embed has been counted.
CompileFits(d, c) ==
  /\ c.edits <= revisions
  /\ c.pc \in {"hashed", "compiling"} =>
       /\ c.hash \in Texts
       /\ c.edits = 0 => inputs[d] = c.hash
       /\ c.edits = 1 => inputs[d] # c.hash
  /\ c.pc = "compiling" =>
       /\ c.document \in Compiled
       /\ c.edits = 0 => c.document.from = c.hash
       /\ c.before <= degradations
       /\ c.document.degraded => c.before < degradations
  /\ c.pc = "idle" => c = NoCompile
  /\ c.pc = "done" => c.document \in Compiled
  /\ building = None => c = NoCompile

CompileInv ==
  /\ CompileTypeOK
  /\ KeptDocumentsFit
  /\ \A d \in Articles : CompileFits(d, compile[d])

-----------------------------------------------------------------------------
(* The compilation of articles: the steps.                                 *)

LEMMA NoCompileTyped == NoCompile \in Compile /\ NoCompile.pc = "idle" /\ NoCompile.edits = 0
<1>1. MaxRevisions \in Nat /\ MaxDegradations \in Nat
  BY CompileAssumption
<1> QED BY <1>1 DEF NoCompile, Compile

\* A compilation goes from one state to another that fits, and no other changes.
LEMMA CompileMoves ==
  ASSUME CompileInv, NEW d \in Articles, NEW c \in Compile,
         compile' = [compile EXCEPT ![d] = c],
         UNCHANGED <<inputs, kept, building, degradations, bundle, revisions>>,
         CompileFits(d, c)
  PROVE  CompileInv'
<1>1. compile' \in [Articles -> Compile] /\ compile'[d] = c
      /\ \A e \in Articles \ {d} : compile'[e] = compile[e]
  BY DEF CompileInv, CompileTypeOK
<1>2. CompileTypeOK'
  BY <1>1 DEF CompileInv, CompileTypeOK
<1>3. KeptDocumentsFit'
  BY DEF CompileInv, KeptDocumentsFit
<1>4. CompileFits(d, compile[d])'
  BY <1>1 DEF CompileFits
<1>5. ASSUME NEW e \in Articles \ {d}
      PROVE  CompileFits(e, compile[e])'
  BY <1>1 DEF CompileInv, CompileFits
<1> QED BY <1>2, <1>3, <1>4, <1>5 DEF CompileInv

\* Nothing is compiled.
LEMMA NothingCompiled ==
  ASSUME CompileInv, compile' = [d \in Articles |-> NoCompile],
         kept' \in [Articles -> {None} \cup [hash : Texts, document : Compiled]],
         \A d \in Articles : kept'[d] # None => kept'[d] = kept[d],
         building' \in {None} \cup SUBSET Articles,
         degradations' \in 0..MaxDegradations,
         bundle' \in [Articles -> Compiled \cup {None}],
         UNCHANGED <<inputs, revisions>>
  PROVE  CompileInv'
<1>1. compile' \in [Articles -> Compile]
  BY NoCompileTyped
<1>2. CompileTypeOK'
  BY <1>1 DEF CompileInv, CompileTypeOK
<1>3. KeptDocumentsFit'
  BY DEF CompileInv, KeptDocumentsFit
<1>4. ASSUME NEW d \in Articles
      PROVE  CompileFits(d, compile[d])'
  <2>1. compile'[d] = NoCompile /\ revisions' \in Nat
    BY CompileAssumption DEF CompileInv, CompileTypeOK
  <2> QED BY <2>1, NoCompileTyped DEF CompileFits
<1> QED BY <1>2, <1>3, <1>4 DEF CompileInv

LEMMA StartBuildStep == CompileInv /\ StartBuild => CompileInv'
<1> SUFFICES ASSUME CompileInv, StartBuild
             PROVE  CompileInv'
  OBVIOUS
<1>1. building' \in SUBSET Articles /\ degradations' \in 0..MaxDegradations
  BY CompileAssumption DEF StartBuild
<1> QED BY <1>1, NothingCompiled DEF StartBuild, CompileInv, CompileTypeOK

LEMMA HashDocumentStep ==
  ASSUME CompileInv, NEW d \in Articles, HashDocument(d)
  PROVE  CompileInv'
<1> DEFINE c == compile[d]
<1>1. /\ c = NoCompile /\ c \in Compile /\ c.edits = 0 /\ building # None
      /\ revisions \in Nat /\ inputs[d] \in Texts \cup {None}
  BY NoCompileTyped, CompileAssumption
     DEF CompileInv, CompileFits, CompileTypeOK, HashDocument
<1>2. CASE inputs[d] = None
  <2> DEFINE next == [c EXCEPT !.pc = "failed"]
  <2>1. next \in Compile /\ next.pc = "failed" /\ next.edits = 0
    BY <1>1 DEF Compile
  <2>2. compile' = [compile EXCEPT ![d] = next]
    BY <1>2 DEF HashDocument
  <2>3. CompileFits(d, next)
    BY <1>1, <2>1 DEF CompileFits
  <2> QED BY <2>1, <2>2, <2>3, CompileMoves DEF HashDocument
<1>3. CASE inputs[d] # None /\ FromCache(d, inputs[d])
  <2> DEFINE next == [c EXCEPT !.pc = "done", !.document = kept[d].document]
  <2>1. kept[d].document \in Compiled
    BY <1>3 DEF FromCache, CompileInv, CompileTypeOK
  <2>2. next \in Compile /\ next.pc = "done" /\ next.edits = 0 /\ next.document \in Compiled
    BY <1>1, <2>1 DEF Compile
  <2>3. compile' = [compile EXCEPT ![d] = next]
    BY <1>3 DEF HashDocument
  <2>4. CompileFits(d, next)
    BY <1>1, <2>2 DEF CompileFits
  <2> QED BY <2>2, <2>3, <2>4, CompileMoves DEF HashDocument
<1>4. CASE inputs[d] # None /\ ~FromCache(d, inputs[d])
  <2> DEFINE next == [c EXCEPT !.pc = "hashed", !.hash = inputs[d]]
  <2>1. next \in Compile /\ next.pc = "hashed" /\ next.edits = 0 /\ next.hash = inputs[d]
    BY <1>1, <1>4 DEF Compile
  <2>2. compile' = [compile EXCEPT ![d] = next]
    BY <1>4 DEF HashDocument
  <2>3. CompileFits(d, next)
    BY <1>1, <1>4, <2>1 DEF CompileFits
  <2> QED BY <2>1, <2>2, <2>3, CompileMoves DEF HashDocument
<1> QED BY <1>2, <1>3, <1>4

\* What is known while an article is compiled.
LEMMA CompilingKnown ==
  ASSUME CompileInv, NEW d \in Articles, compile[d].pc \in {"hashed", "compiling"}
  PROVE  LET c == compile[d] IN
         /\ c \in Compile /\ building # None /\ inputs[d] \in Texts \cup {None}
         /\ c.edits \in Nat /\ revisions \in Nat /\ c.edits <= revisions
         /\ c.hash \in Texts
         /\ c.edits = 0 => inputs[d] = c.hash
         /\ c.edits = 1 => inputs[d] # c.hash
         /\ c.before \in Nat /\ degradations \in Nat
         /\ c.pc = "compiling" =>
              /\ c.document \in Compiled
              /\ c.edits = 0 => c.document.from = c.hash
              /\ c.before <= degradations
              /\ c.document.degraded => c.before < degradations
<1>1. compile[d] \in Compile /\ CompileFits(d, compile[d]) /\ inputs[d] \in Texts \cup {None}
      /\ revisions \in Nat /\ degradations \in Nat
  BY CompileAssumption DEF CompileInv, CompileTypeOK
<1>2. building # None
  BY <1>1, NoCompileTyped DEF CompileFits
<1>3. compile[d].edits \in Nat /\ compile[d].before \in Nat
  BY <1>1, CompileAssumption DEF Compile
<1> QED BY <1>1, <1>2, <1>3 DEF CompileFits

LEMMA ReadDocumentStep ==
  ASSUME CompileInv, NEW d \in Articles, ReadDocument(d)
  PROVE  CompileInv'
<1> DEFINE c == compile[d]
<1>1. c.pc = "hashed"
  BY DEF ReadDocument
<1>2. CASE inputs[d] = None
  <2> DEFINE next == [c EXCEPT !.pc = "failed"]
  <2>1. next \in Compile /\ next.pc = "failed" /\ next.edits = c.edits
    BY <1>1, CompilingKnown DEF Compile
  <2>2. compile' = [compile EXCEPT ![d] = next]
    BY <1>2 DEF ReadDocument, CompileInv, CompileTypeOK
  <2>3. CompileFits(d, next)
    BY <1>1, <2>1, CompilingKnown DEF CompileFits
  <2> QED BY <2>1, <2>2, <2>3, CompileMoves DEF ReadDocument
<1>3. CASE inputs[d] # None
  <2> DEFINE document == [from |-> inputs[d], degraded |-> FALSE, edits |-> 0]
             next == [c EXCEPT !.pc = "compiling", !.before = degradations,
                               !.document = document]
  <2>1. document \in Compiled /\ document.from = inputs[d] /\ ~document.degraded
    BY <1>1, <1>3, CompilingKnown, CompileAssumption DEF Compiled
  <2>2. degradations \in 0..MaxDegradations
    BY DEF CompileInv, CompileTypeOK
  <2>3. compile' = [compile EXCEPT ![d] = next]
    BY <1>3 DEF ReadDocument, CompileInv, CompileTypeOK
  <2> HIDE DEF document
  <2>4. /\ next \in Compile /\ next.pc = "compiling" /\ next.edits = c.edits
        /\ next.hash = c.hash /\ next.document = document /\ next.before = degradations
    BY <1>1, <2>1, <2>2, CompilingKnown DEF Compile
  <2> HIDE DEF next
  <2>5. CompileFits(d, next)
    BY <1>1, <2>1, <2>4, CompilingKnown DEF CompileFits
  <2> QED BY <2>3, <2>4, <2>5, CompileMoves DEF ReadDocument
<1> QED BY <1>2, <1>3

LEMMA EmbedDegradesStep ==
  ASSUME CompileInv, NEW d \in Articles, EmbedDegrades(d)
  PROVE  CompileInv'
<1> DEFINE c == compile[d]
           document == [c.document EXCEPT !.degraded = TRUE]
           next == [c EXCEPT !.document = document]
<1>1. c.pc = "compiling" /\ degradations' = degradations + 1
      /\ degradations' \in 0..MaxDegradations /\ degradations \in Nat
  BY CompileAssumption DEF EmbedDegrades, CompileInv, CompileTypeOK
<1>2. document \in Compiled /\ document.from = c.document.from
  BY <1>1, CompilingKnown DEF Compiled
<1>3. compile' = [compile EXCEPT ![d] = next]
  BY DEF EmbedDegrades, CompileInv, CompileTypeOK
<1> HIDE DEF document
<1>4. /\ next \in Compile /\ next.pc = "compiling" /\ next.edits = c.edits
      /\ next.hash = c.hash /\ next.document = document /\ next.before = c.before
  BY <1>1, <1>2, CompilingKnown DEF Compile
<1> HIDE DEF next
<1>5. compile' \in [Articles -> Compile] /\ compile'[d] = next
      /\ \A e \in Articles \ {d} : compile'[e] = compile[e]
  BY <1>3, <1>4 DEF CompileInv, CompileTypeOK
<1>6. CompileTypeOK'
  BY <1>1, <1>5 DEF EmbedDegrades, CompileInv, CompileTypeOK
<1>7. KeptDocumentsFit'
  BY DEF EmbedDegrades, CompileInv, KeptDocumentsFit
<1>8. CompileFits(d, compile[d])'
  <2>1. c.before \in Nat /\ c.before < degradations' /\ c.before <= degradations'
    BY <1>1, CompilingKnown
  <2>2. /\ c.edits <= revisions' /\ building' # None /\ c.hash \in Texts
        /\ c.edits = 0 => inputs'[d] = c.hash
        /\ c.edits = 1 => inputs'[d] # c.hash
        /\ c.edits = 0 => document.from = c.hash
    BY <1>1, <1>2, CompilingKnown DEF EmbedDegrades
  <2> QED BY <1>2, <1>4, <1>5, <2>1, <2>2 DEF CompileFits
<1>9. ASSUME NEW e \in Articles \ {d}
      PROVE  CompileFits(e, compile[e])'
  <2>1. compile'[e] = compile[e] /\ CompileFits(e, compile[e]) /\ compile[e].before \in Nat
    BY <1>5, CompileAssumption DEF CompileInv, CompileTypeOK, Compile
  <2> QED BY <1>1, <2>1 DEF CompileFits, EmbedDegrades
<1> QED BY <1>6, <1>7, <1>8, <1>9 DEF CompileInv

\* A document that is kept has the inputs of its hash, or they were changed twice.
LEMMA FinishDocumentStep ==
  ASSUME CompileInv, NEW d \in Articles, FinishDocument(d)
  PROVE  CompileInv'
<1> DEFINE c == compile[d]
           document == [c.document EXCEPT !.edits = c.edits]
           next == [c EXCEPT !.pc = "done", !.document = document]
           entry == [hash |-> c.hash, document |-> document]
<1>1. c.pc = "compiling" /\ UNCHANGED <<inputs, building, degradations, bundle, revisions>>
  BY DEF FinishDocument
<1>2. /\ document \in Compiled /\ document.from = c.document.from
      /\ document.degraded = c.document.degraded /\ document.edits = c.edits
  <2>1. c.document \in Compiled /\ c.edits \in 0..MaxRevisions
    BY <1>1, CompilingKnown DEF Compile
  <2> QED BY <2>1 DEF Compiled
<1>3. compile' = [compile EXCEPT ![d] = next]
  BY DEF FinishDocument, CompileInv, CompileTypeOK
<1>4. \/ kept' = kept
      \/ Cacheable(d) /\ kept' = [kept EXCEPT ![d] = entry]
  BY DEF FinishDocument
<1> HIDE DEF document
<1>5. /\ next \in Compile /\ next.pc = "done" /\ next.edits = c.edits
      /\ next.document = document
  BY <1>1, <1>2, CompilingKnown DEF Compile
<1> HIDE DEF next
<1>6. compile' \in [Articles -> Compile] /\ compile'[d] = next
      /\ \A e \in Articles \ {d} : compile'[e] = compile[e]
  BY <1>3, <1>5 DEF CompileInv, CompileTypeOK
<1>7. entry \in [hash : Texts, document : Compiled]
      /\ entry.hash = c.hash /\ entry.document = document
  BY <1>1, <1>2, CompilingKnown
<1> HIDE DEF entry
<1>8. CompileTypeOK'
  BY <1>1, <1>4, <1>6, <1>7 DEF CompileInv, CompileTypeOK
<1>9. Cacheable(d) => /\ ~document.degraded
                      /\ document.edits < 2 => document.from = c.hash
  <2>1. SUFFICES ASSUME Cacheable(d)
                 PROVE  /\ ~document.degraded
                        /\ document.edits < 2 => document.from = c.hash
    OBVIOUS
  <2>2. degradations = c.before /\ inputs[d] = c.hash
    BY <2>1 DEF Cacheable
  <2>3. ~c.document.degraded
    BY <1>1, <2>2, CompilingKnown
  <2>4. c.edits \in Nat /\ c.edits # 1
    BY <1>1, <2>2, CompilingKnown
  <2>5. c.edits < 2 => c.document.from = c.hash
    BY <1>1, <2>4, CompilingKnown
  <2> QED BY <1>2, <2>3, <2>5
<1>10. KeptDocumentsFit'
  BY <1>4, <1>7, <1>9 DEF CompileInv, CompileTypeOK, KeptDocumentsFit
<1>11. CompileFits(d, compile[d])'
  <2>1. c.edits <= revisions' /\ building' # None
    BY <1>1, CompilingKnown
  <2> QED BY <1>2, <1>5, <1>6, <2>1 DEF CompileFits
<1>12. ASSUME NEW e \in Articles \ {d}
       PROVE  CompileFits(e, compile[e])'
  BY <1>1, <1>6 DEF CompileInv, CompileFits
<1> QED BY <1>8, <1>10, <1>11, <1>12 DEF CompileInv

LEMMA DocumentFailsStep ==
  ASSUME CompileInv, NEW d \in Articles, DocumentFails(d)
  PROVE  CompileInv'
<1> DEFINE c == compile[d]
           next == [c EXCEPT !.pc = "failed"]
<1>1. c.pc = "compiling"
  BY DEF DocumentFails
<1>2. next \in Compile /\ next.pc = "failed" /\ next.edits = c.edits
  BY <1>1, CompilingKnown DEF Compile
<1>3. compile' = [compile EXCEPT ![d] = next]
  BY DEF DocumentFails, CompileInv, CompileTypeOK
<1>4. CompileFits(d, next)
  BY <1>1, <1>2, CompilingKnown DEF CompileFits
<1> QED BY <1>2, <1>3, <1>4, CompileMoves DEF DocumentFails

\* A build that ends leaves of what was kept what it had articles for.
LEMMA BuildEndsStep == CompileInv /\ BuildEnds => CompileInv'
<1> SUFFICES ASSUME CompileInv, BuildEnds
             PROVE  CompileInv'
  OBVIOUS
<1>1. kept' \in [Articles -> {None} \cup [hash : Texts, document : Compiled]]
      /\ \A d \in Articles : kept'[d] # None => kept'[d] = kept[d]
  BY DEF BuildEnds, CompileInv, CompileTypeOK
<1>2. bundle' \in [Articles -> Compiled \cup {None}]
  BY DEF BuildEnds, CompileInv, CompileTypeOK, Compile
<1> QED BY <1>1, <1>2, NothingCompiled DEF BuildEnds, CompileInv, CompileTypeOK

LEMMA BuildFailsStep == CompileInv /\ BuildFails => CompileInv'
<1> SUFFICES ASSUME CompileInv, BuildFails
             PROVE  CompileInv'
  OBVIOUS
<1>1. kept' \in [Articles -> {None} \cup [hash : Texts, document : Compiled]]
      /\ \A d \in Articles : kept'[d] # None => kept'[d] = kept[d]
  BY DEF BuildFails, CompileInv, CompileTypeOK
<1> QED BY <1>1, NothingCompiled DEF BuildFails, CompileInv, CompileTypeOK

\* The first edit since the hash was taken leaves other inputs.
LEMMA ReviseStep ==
  ASSUME CompileInv, NEW d \in Articles, NEW t \in Texts \cup {None}, Revise(d, t)
  PROVE  CompileInv'
<1> DEFINE c == compile[d]
           under == c.pc \in {"hashed", "compiling"}
           next == [c EXCEPT !.edits = IF under THEN @ + 1 ELSE @]
<1>1. /\ t # inputs[d] /\ revisions' = revisions + 1 /\ revisions < MaxRevisions
      /\ inputs' = [inputs EXCEPT ![d] = t]
      /\ UNCHANGED <<kept, building, degradations, bundle>>
  BY DEF Revise
<1>2. revisions \in Nat /\ revisions' \in 0..MaxRevisions /\ c \in Compile
      /\ CompileFits(d, c) /\ c.edits \in Nat
  BY <1>1, CompileAssumption DEF CompileInv, CompileTypeOK, Compile
<1>3. compile' = [compile EXCEPT ![d] = next]
  BY DEF Revise, CompileInv, CompileTypeOK
<1>4. c.edits <= revisions /\ MaxRevisions \in Nat
  BY <1>2, CompileAssumption DEF CompileFits
<1>5. CASE ~under
  <2>1. next = c
    BY <1>2, <1>5 DEF Compile
  <2>2. compile' = compile
    BY <1>3, <2>1 DEF CompileInv, CompileTypeOK
  <2>3. CompileTypeOK'
    BY <1>1, <1>2, <2>2 DEF CompileInv, CompileTypeOK
  <2>4. KeptDocumentsFit'
    BY <1>1 DEF CompileInv, KeptDocumentsFit
  <2>5. CompileFits(d, compile[d])'
    <3>1. c.edits <= revisions'
      BY <1>1, <1>2, <1>4
    <3> QED BY <1>1, <1>2, <1>5, <2>2, <3>1 DEF CompileFits
  <2>6. ASSUME NEW e \in Articles \ {d}
        PROVE  CompileFits(e, compile[e])'
    <3>1. /\ CompileFits(e, compile[e]) /\ inputs'[e] = inputs[e]
          /\ compile[e].edits \in Nat /\ compile'[e] = compile[e]
      BY <1>1, <2>2, CompileAssumption DEF CompileInv, CompileTypeOK, Compile
    <3>2. compile[e].edits <= revisions'
      BY <1>1, <1>2, <3>1 DEF CompileFits
    <3> QED BY <1>1, <3>1, <3>2 DEF CompileFits
  <2> QED BY <2>3, <2>4, <2>5, <2>6 DEF CompileInv
<1>6. CASE under
  <2>1. c.edits + 1 \in 0..MaxRevisions
    BY <1>1, <1>2, <1>4
  <2>2. /\ next \in Compile /\ next.pc = c.pc /\ next.edits = c.edits + 1 /\ next.hash = c.hash
        /\ next.before = c.before /\ next.document = c.document
    BY <1>2, <1>6, <2>1 DEF Compile
  <2> HIDE DEF next
  <2>3. compile' \in [Articles -> Compile] /\ compile'[d] = next
        /\ \A e \in Articles \ {d} : compile'[e] = compile[e]
    BY <1>3, <2>2 DEF CompileInv, CompileTypeOK
  <2>4. inputs' \in [Articles -> Texts \cup {None}] /\ inputs'[d] = t
        /\ \A e \in Articles \ {d} : inputs'[e] = inputs[e]
    BY <1>1 DEF CompileInv, CompileTypeOK
  <2>5. CompileTypeOK'
    BY <1>1, <1>2, <2>3, <2>4 DEF CompileInv, CompileTypeOK
  <2>6. KeptDocumentsFit'
    BY <1>1 DEF CompileInv, KeptDocumentsFit
  <2>7. CompileFits(d, compile[d])'
    <3>1. next.edits <= revisions' /\ next.edits # 0 /\ (next.edits = 1 <=> c.edits = 0)
      BY <1>1, <1>2, <1>4, <2>2
    <3>2. c.hash \in Texts /\ (c.edits = 0 => inputs[d] = c.hash) /\ building' # None
      BY <1>1, <1>6, CompilingKnown
    <3>3. next.edits = 1 => inputs'[d] # next.hash
      BY <1>1, <2>2, <2>4, <3>1, <3>2
    <3>4. c.pc = "compiling" => /\ c.document \in Compiled
                                /\ c.before <= degradations'
                                /\ c.document.degraded => c.before < degradations'
      BY <1>1, CompilingKnown
    <3> QED BY <1>6, <2>2, <2>3, <3>1, <3>2, <3>3, <3>4 DEF CompileFits
  <2>8. ASSUME NEW e \in Articles \ {d}
        PROVE  CompileFits(e, compile[e])'
    <3>1. /\ CompileFits(e, compile[e]) /\ inputs'[e] = inputs[e]
          /\ compile[e].edits \in Nat /\ compile'[e] = compile[e]
      BY <2>3, <2>4, CompileAssumption DEF CompileInv, CompileTypeOK, Compile
    <3>2. compile[e].edits <= revisions'
      BY <1>1, <1>2, <3>1 DEF CompileFits
    <3> QED BY <1>1, <3>1, <3>2 DEF CompileFits
  <2> QED BY <2>5, <2>6, <2>7, <2>8 DEF CompileInv
<1> QED BY <1>5, <1>6

LEMMA CompileInvariant == CompileSpec => []CompileInv
<1>1. CompileInit => CompileInv
  <2> SUFFICES ASSUME CompileInit
               PROVE  CompileInv
    OBVIOUS
  <2>1. compile \in [Articles -> Compile] /\ \A d \in Articles : compile[d] = NoCompile
    BY NoCompileTyped DEF CompileInit
  <2>2. CompileTypeOK
    BY <2>1, CompileAssumption DEF CompileInit, CompileTypeOK
  <2>3. KeptDocumentsFit
    BY DEF CompileInit, KeptDocumentsFit
  <2>4. \A d \in Articles : CompileFits(d, compile[d])
    BY <2>1, NoCompileTyped DEF CompileInit, CompileFits
  <2> QED BY <2>2, <2>3, <2>4 DEF CompileInv
<1>2. CompileInv /\ [CompileNext]_compileVars => CompileInv'
  <2> SUFFICES ASSUME CompileInv, [CompileNext]_compileVars
               PROVE  CompileInv'
    OBVIOUS
  <2>1. ASSUME NEW d \in Articles, DocumentStep(d)
        PROVE  CompileInv'
    BY <2>1, HashDocumentStep, ReadDocumentStep, EmbedDegradesStep, FinishDocumentStep,
       DocumentFailsStep, ReviseStep DEF DocumentStep
  <2>2. CASE UNCHANGED compileVars
    BY <2>2 DEF compileVars, CompileInv, CompileTypeOK, KeptDocumentsFit, CompileFits
  <2> QED BY <2>1, <2>2, StartBuildStep, BuildEndsStep, BuildFailsStep DEF CompileNext
<1> QED BY <1>1, <1>2, PTL DEF CompileSpec

\* The inputs, the cache, the compilations and the bundle hold values of their kinds.
THEOREM CompileTyped == CompileSpec => []CompileTypeOK
<1>1. CompileInv => CompileTypeOK
  BY DEF CompileInv
<1> QED BY <1>1, CompileInvariant, PTL

\* A document in the cache is whole and was made of the inputs of its hash, whichever
\* articles are compiled beside it and whatever is edited meanwhile, unless its inputs
\* were changed and changed back.
THEOREM KeptDocumentsAreFit == CompileSpec => []KeptDocumentsFit
<1>1. CompileInv => KeptDocumentsFit
  BY DEF CompileInv
<1> QED BY <1>1, CompileInvariant, PTL

-----------------------------------------------------------------------------
(* The watcher of local development: the inductive invariant.              *)

DevDocuments == [code : Drafts, module : Drafts]
First == [pc : {"todo", "hashed", "compiled", "done"}, hash : Drafts \cup {None},
          document : DevDocuments \cup {None}, fresh : BOOLEAN]
Recompilation ==
  [pc : {"idle", "compiled", "read", "written"}, from : Drafts \cup {None},
   copy : [Entries -> {None} \cup DevDocuments] \cup {<<>>}]

Within(q, d) == \E i \in 1..Len(q) : q[i] = d
IsQueued(d) == Within(queue, d)

\* An edit of the article is still to be served.
IsAwaited(d) == d \in seen \/ IsQueued(d)
IsSettled(d) == ~IsAwaited(d) /\ recompile[d].pc = "idle"
Answers(d) == d \in Entries \ (Folders \cup missed)

WatcherShapes ==
  /\ WatcherTypeOK
  /\ first \in [Entries -> First]
  /\ recompile \in [Entries -> Recompilation]
  /\ watcher # "watching" =>
       seen = {} /\ queue = <<>> /\ \A d \in Entries : recompile[d].pc = "idle"
  /\ watcher = "indexing" =>
       \A d \in Entries : first[d].pc = "done" /\ devManifest[d] = first[d].document

\* What is compiled at the start, and what is reused.
FirstFits(d) ==
  LET c == first[d] IN
  /\ c.pc # "todo" => c.hash \in Drafts
  /\ c.pc \in {"compiled", "done"} => c.document \in DevDocuments
  /\ c.pc \in {"hashed", "compiled"} => c.fresh
  /\ watcher \in {"compiling", "indexing"} /\ c.pc = "done" /\ ~c.fresh =>
       /\ index[d] # None /\ index[d].hash = c.hash /\ index[d].module = c.document.module
       /\ Answers(d) => c.document = Document(c.hash)

\* One at a time, and what was read is still what is there.
RecompileFits(d) ==
  LET c == recompile[d] IN
  /\ c.pc # "idle" =>
       /\ c.from \in Drafts /\ d \notin Folders
       /\ \A e \in Entries \ {d} : recompile[e].pc = "idle"
       /\ saved[d] = c.from \/ IsAwaited(d)
  /\ c.pc = "read" => c.copy = devManifest
  /\ c.pc = "written" => devManifest[d] = Document(c.from)

\* The two files agree on an article, but for what a stop would miss.
FilesAgree(d) ==
  /\ devManifest[d] # None /\ index[d] # None
  /\ ~(watcher = "indexing" /\ first[d].fresh)
  /\ IsSettled(d)
  => devManifest[d].code = index[d].hash /\ index[d].module = index[d].hash

\* What is shown is what is on the disk.
IsShown(d) ==
  watcher \in {"opening", "watching"} /\ IsSettled(d) =>
    /\ devManifest[d] = Document(saved[d])
    /\ index[d] = [hash |-> saved[d], module |-> saved[d]]

WatcherInv ==
  /\ WatcherShapes
  /\ \A d \in Entries : FirstFits(d) /\ RecompileFits(d)
  /\ \A d \in Entries : Answers(d) => FilesAgree(d) /\ IsShown(d)

-----------------------------------------------------------------------------
(* The watcher: the queue, and the steps of its start.                     *)

LEMMA QueueGrows ==
  ASSUME NEW q \in Seq(Entries), NEW e \in Entries
  PROVE  /\ Append(q, e) \in Seq(Entries)
         /\ \A d : Within(Append(q, e), d) <=> d = e \/ Within(q, d)
<1>1. Append(q, e) \in Seq(Entries) /\ Len(Append(q, e)) = Len(q) + 1 /\ Len(q) \in Nat
      /\ Append(q, e)[Len(q) + 1] = e
      /\ \A i \in 1..Len(q) : Append(q, e)[i] = q[i]
  OBVIOUS
<1>2. \A d : Within(Append(q, e), d) => d = e \/ Within(q, d)
  <2>1. \A i \in 1..Len(q) + 1 : i \in 1..Len(q) \/ i = Len(q) + 1
    BY <1>1
  <2> QED BY <1>1, <2>1 DEF Within
<1>3. \A d : d = e \/ Within(q, d) => Within(Append(q, e), d)
  <2>1. \A i \in 1..Len(q) : i \in 1..Len(q) + 1
    BY <1>1
  <2>2. Len(q) + 1 \in 1..Len(q) + 1
    BY <1>1
  <2> QED BY <1>1, <2>1, <2>2 DEF Within
<1> QED BY <1>1, <1>2, <1>3

LEMMA QueueShrinks ==
  ASSUME NEW q \in Seq(Entries), q # <<>>
  PROVE  /\ Head(q) \in Entries /\ Tail(q) \in Seq(Entries)
         /\ \A d : Within(q, d) => d = Head(q) \/ Within(Tail(q), d)
         /\ \A d : Within(Tail(q), d) => Within(q, d)
<1>1. Head(q) \in Entries /\ Tail(q) \in Seq(Entries) /\ Len(Tail(q)) = Len(q) - 1
      /\ Len(q) \in Nat /\ Len(q) > 0 /\ Head(q) = q[1]
      /\ \A i \in 1..Len(q) - 1 : Tail(q)[i] = q[i + 1]
  OBVIOUS
<1>2. \A i \in 1..Len(q) : i = 1 \/ (i - 1 \in 1..Len(q) - 1 /\ Tail(q)[i - 1] = q[i])
  <2>1. TAKE i \in 1..Len(q)
  <2>2. CASE i # 1
    <3>1. i - 1 \in 1..Len(q) - 1 /\ (i - 1) + 1 = i
      BY <1>1, <2>2
    <3> QED BY <1>1, <3>1
  <2> QED BY <2>2
<1>3. \A i \in 1..Len(q) - 1 : i + 1 \in 1..Len(q)
  BY <1>1
<1>4. ASSUME NEW d, Within(q, d)
      PROVE  d = Head(q) \/ Within(Tail(q), d)
  <2>1. PICK i \in 1..Len(q) : q[i] = d
    BY <1>4 DEF Within
  <2> QED BY <1>1, <1>2, <2>1 DEF Within
<1>5. ASSUME NEW d, Within(Tail(q), d)
      PROVE  Within(q, d)
  <2>1. PICK i \in 1..Len(q) - 1 : Tail(q)[i] = d
    BY <1>1, <1>5 DEF Within
  <2>2. i + 1 \in 1..Len(q) /\ q[i + 1] = d
    BY <1>1, <1>3, <2>1
  <2> QED BY <2>2 DEF Within
<1> QED BY <1>1, <1>4, <1>5

\* While nothing is watched, nothing waits.
LEMMA NothingWaits ==
  ASSUME WatcherInv, watcher # "watching", NEW d \in Entries
  PROVE  ~IsAwaited(d) /\ IsSettled(d) /\ recompile[d].pc = "idle"
<1>1. seen = {} /\ queue = <<>> /\ recompile[d].pc = "idle"
  BY DEF WatcherInv, WatcherShapes
<1>2. ~Within(<<>>, d)
  BY DEF Within
<1> QED BY <1>1, <1>2 DEF IsAwaited, IsSettled, IsQueued

\* What the process has, for the first compilation.
LEMMA StartMoves ==
  ASSUME WatcherInv, watcher \in {"off", "compiling"}, watcher' = "compiling",
         UNCHANGED <<saved, devManifest, index, seen, queue, recompile, missed>>,
         first' \in [Entries -> First],
         \A d \in Entries : FirstFits(d)'
  PROVE  WatcherInv'
<1>1. WatcherShapes'
  BY DEF WatcherInv, WatcherShapes, WatcherTypeOK
<1>2. \A d \in Entries : RecompileFits(d)'
  BY DEF WatcherInv, RecompileFits, IsAwaited, IsQueued
<1>3. ASSUME NEW d \in Entries, Answers(d)'
      PROVE  FilesAgree(d)' /\ IsShown(d)'
  <2>1. Answers(d) /\ FilesAgree(d)
    BY <1>3 DEF Answers, WatcherInv
  <2> QED BY <2>1 DEF FilesAgree, IsShown, IsSettled, IsAwaited, IsQueued
<1> QED BY <1>1, <1>2, <1>3 DEF WatcherInv

LEMMA NoFirstTyped == NoFirst \in First /\ NoFirst.pc = "todo"
BY DEF NoFirst, First

LEMMA StartWatcherStep == WatcherInv /\ StartWatcher => WatcherInv'
<1> SUFFICES ASSUME WatcherInv, StartWatcher
             PROVE  WatcherInv'
  OBVIOUS
<1>1. first' \in [Entries -> First] /\ \A d \in Entries : first'[d] = NoFirst
  BY NoFirstTyped DEF StartWatcher
<1>2. \A d \in Entries : FirstFits(d)'
  BY <1>1, NoFirstTyped DEF FirstFits
<1> QED BY <1>1, <1>2, StartMoves DEF StartWatcher

\* One article gets on with its first compilation.
LEMMA FirstMoves ==
  ASSUME WatcherInv, NEW d \in Entries, NEW c \in First, watcher = "compiling",
         first' = [first EXCEPT ![d] = c],
         UNCHANGED <<saved, devManifest, index, watcher, seen, queue, recompile, missed>>,
         c.pc # "todo" => c.hash \in Drafts,
         c.pc \in {"compiled", "done"} => c.document \in DevDocuments,
         c.fresh \/ /\ c.pc = "done"
                    /\ index[d] # None /\ index[d].hash = c.hash
                    /\ index[d].module = c.document.module
                    /\ Answers(d) => c.document = Document(c.hash)
  PROVE  WatcherInv'
<1>1. first' \in [Entries -> First] /\ first'[d] = c
      /\ \A e \in Entries \ {d} : first'[e] = first[e]
  BY DEF WatcherInv, WatcherShapes
<1>2. FirstFits(d)'
  BY <1>1 DEF FirstFits, Answers
<1>3. ASSUME NEW e \in Entries \ {d}
      PROVE  FirstFits(e)'
  BY <1>1 DEF WatcherInv, FirstFits, Answers
<1> QED BY <1>1, <1>2, <1>3, StartMoves

\* Where the hash is known, the two files agree on what it stands for.
LEMMA HashAtStartStep ==
  ASSUME WatcherInv, NEW d \in Entries, HashAtStart(d)
  PROVE  WatcherInv'
<1> DEFINE hash == saved[d]
           reusable == index[d] # None /\ index[d].hash = hash /\ devManifest[d] # None
           document == [code |-> devManifest[d].code, module |-> index[d].module]
<1>1. /\ watcher = "compiling" /\ hash \in Drafts
      /\ devManifest[d] \in {None} \cup DevDocuments
      /\ index[d] \in {None} \cup [hash : Drafts, module : Drafts]
  BY DEF HashAtStart, WatcherInv, WatcherShapes, WatcherTypeOK, DevDocuments
<1>2. CASE reusable
  <2> DEFINE c == [pc |-> "done", hash |-> hash, fresh |-> FALSE, document |-> document]
  <2>1. document \in DevDocuments /\ document.module = index[d].module
        /\ document.code = devManifest[d].code
    BY <1>1, <1>2 DEF DevDocuments
  <2>2. Answers(d) => document = Document(hash)
    <3>1. Answers(d) => devManifest[d].code = hash /\ index[d].module = hash
      BY <1>1, <1>2, NothingWaits DEF WatcherInv, FilesAgree
    <3> QED BY <3>1 DEF Document
  <2>3. first' = [first EXCEPT ![d] = c]
    BY <1>2 DEF HashAtStart
  <2> HIDE DEF document
  <2>4. /\ c \in First /\ c.pc = "done" /\ c.hash = hash /\ c.document = document
    BY <1>1, <2>1 DEF First
  <2> HIDE DEF c
  <2>5. /\ index[d] # None /\ index[d].hash = c.hash
        /\ index[d].module = c.document.module
        /\ Answers(d) => c.document = Document(c.hash)
    BY <1>2, <2>1, <2>2, <2>4
  <2>6. c.hash \in Drafts /\ c.document \in DevDocuments
    BY <1>1, <2>1, <2>4
  <2> HIDE DEF hash, reusable
  <2> QED BY <1>1, <2>3, <2>4, <2>5, <2>6, FirstMoves DEF HashAtStart
<1>3. CASE ~reusable
  <2> DEFINE c == [NoFirst EXCEPT !.pc = "hashed", !.hash = hash, !.fresh = TRUE]
  <2>1. c \in First /\ c.pc = "hashed" /\ c.hash = hash /\ c.fresh
    BY <1>1 DEF NoFirst, First
  <2>2. first' = [first EXCEPT ![d] = c]
    BY <1>3 DEF HashAtStart
  <2> HIDE DEF c
  <2> QED BY <1>1, <2>1, <2>2, FirstMoves DEF HashAtStart
<1> QED BY <1>2, <1>3

LEMMA DocumentTyped == \A t \in Drafts : Document(t) \in DevDocuments
BY DEF Document, DevDocuments

LEMMA CompileAtStartStep ==
  ASSUME WatcherInv, NEW d \in Entries, CompileAtStart(d)
  PROVE  WatcherInv'
<1> DEFINE document == Document(saved[d])
           c == [first[d] EXCEPT !.pc = "compiled", !.document = document]
<1>1. /\ first[d] \in First /\ first[d].hash \in Drafts /\ first[d].fresh
      /\ document \in DevDocuments
  BY DocumentTyped
     DEF CompileAtStart, WatcherInv, WatcherShapes, WatcherTypeOK, FirstFits
<1>2. first' = [first EXCEPT ![d] = c]
  BY DEF CompileAtStart, WatcherInv, WatcherShapes
<1> HIDE DEF document
<1>3. /\ c \in First /\ c.pc = "compiled" /\ c.hash = first[d].hash /\ c.fresh
      /\ c.document = document
  BY <1>1 DEF First
<1> HIDE DEF c
<1> QED BY <1>1, <1>2, <1>3, FirstMoves DEF CompileAtStart

LEMMA CheckAtStartStep ==
  ASSUME WatcherInv, NEW d \in Entries, CheckAtStart(d)
  PROVE  WatcherInv'
<1> DEFINE c == [first[d] EXCEPT !.pc = "done"]
<1>1. /\ first[d] \in First /\ first[d].hash \in Drafts /\ first[d].fresh
      /\ first[d].document \in DevDocuments
  BY DEF CheckAtStart, WatcherInv, WatcherShapes, FirstFits
<1>2. first' = [first EXCEPT ![d] = c]
  BY DEF CheckAtStart, WatcherInv, WatcherShapes
<1>3. /\ c \in First /\ c.pc = "done" /\ c.hash = first[d].hash /\ c.fresh
      /\ c.document = first[d].document
  BY <1>1 DEF First
<1> HIDE DEF c
<1> QED BY <1>1, <1>2, <1>3, FirstMoves DEF CheckAtStart

LEMMA WriteFirstManifestStep == WatcherInv /\ WriteFirstManifest => WatcherInv'
<1> SUFFICES ASSUME WatcherInv, WriteFirstManifest
             PROVE  WatcherInv'
  OBVIOUS
<1>1. /\ watcher = "compiling" /\ watcher' = "indexing"
      /\ \A d \in Entries : first[d].pc = "done"
      /\ devManifest' = [d \in Entries |-> first[d].document]
      /\ UNCHANGED <<saved, index, first, seen, queue, recompile, missed>>
  BY DEF WriteFirstManifest, AllCompiled
<1>2. \A d \in Entries : first[d].document \in DevDocuments /\ devManifest'[d] = first[d].document
  BY <1>1 DEF WatcherInv, FirstFits
<1>3. WatcherShapes'
  BY <1>1, <1>2 DEF WatcherInv, WatcherShapes, WatcherTypeOK, DevDocuments
<1>4. \A d \in Entries : FirstFits(d)'
  BY <1>1 DEF WatcherInv, FirstFits, Answers
<1>5. \A d \in Entries : RecompileFits(d)'
  BY <1>1, NothingWaits DEF RecompileFits, WatcherInv, WatcherShapes
<1>6. ASSUME NEW d \in Entries, Answers(d)', ~first[d].fresh
      PROVE  devManifest'[d].code = index'[d].hash /\ index'[d].module = index'[d].hash
  <2>1. /\ index[d].hash = first[d].hash /\ index[d].module = first[d].document.module
        /\ first[d].document = Document(first[d].hash)
    BY <1>1, <1>6 DEF WatcherInv, FirstFits, Answers
  <2> QED BY <1>1, <1>2, <2>1 DEF Document
<1>7. \A d \in Entries : Answers(d)' => FilesAgree(d)' /\ IsShown(d)'
  BY <1>1, <1>6 DEF FilesAgree, IsShown
<1> QED BY <1>3, <1>4, <1>5, <1>7 DEF WatcherInv

\* What is late, or was compiled from something else than what is there now, is missed.
LEMMA WriteFirstIndexStep == WatcherInv /\ WriteFirstIndex => WatcherInv'
<1> SUFFICES ASSUME WatcherInv, WriteFirstIndex
             PROVE  WatcherInv'
  OBVIOUS
<1>1. /\ watcher = "indexing" /\ watcher' = "opening"
      /\ index' = [d \in Entries |-> [hash |-> first[d].hash,
                                      module |-> first[d].document.module]]
      /\ missed' = (missed \ {d \in Entries : first[d].fresh})
           \cup {d \in Entries : first[d].hash # saved[d]}
           \cup {d \in Entries : first[d].fresh /\ first[d].document # Document(saved[d])}
      /\ UNCHANGED <<saved, devManifest, first, seen, queue, recompile>>
  BY DEF WriteFirstIndex
<1>2. \A d \in Entries : /\ first[d].pc = "done" /\ devManifest[d] = first[d].document
                         /\ first[d].hash \in Drafts /\ first[d].document \in DevDocuments
                         /\ index'[d] = [hash |-> first[d].hash,
                                         module |-> first[d].document.module]
  BY <1>1 DEF WatcherInv, WatcherShapes, FirstFits
<1>3. index' \in [Entries -> {None} \cup [hash : Drafts, module : Drafts]]
      /\ missed' \subseteq Entries
  BY <1>1, <1>2 DEF DevDocuments, WatcherInv, WatcherShapes, WatcherTypeOK
<1>4. WatcherShapes'
  BY <1>1, <1>3 DEF WatcherInv, WatcherShapes, WatcherTypeOK
<1>5. \A d \in Entries : FirstFits(d)'
  BY <1>1 DEF WatcherInv, FirstFits
<1>6. \A d \in Entries : RecompileFits(d)'
  BY <1>1, NothingWaits DEF RecompileFits, WatcherInv, WatcherShapes
<1>7. ASSUME NEW d \in Entries, Answers(d)'
      PROVE  /\ devManifest'[d] = Document(saved'[d])
             /\ index'[d] = [hash |-> saved'[d], module |-> saved'[d]]
  <2>1. first[d].hash = saved[d] /\ first[d].document = Document(saved[d])
    <3>1. d \notin Folders /\ d \notin missed'
      BY <1>7 DEF Answers
    <3>2. first[d].hash = saved[d]
      BY <1>1, <3>1
    <3>3. CASE first[d].fresh
      BY <1>1, <3>1, <3>3
    <3>4. CASE ~first[d].fresh
      <4>1. Answers(d)
        BY <1>1, <3>1, <3>4 DEF Answers
      <4> QED BY <1>1, <1>2, <3>2, <3>4, <4>1 DEF WatcherInv, FirstFits
    <3> QED BY <3>2, <3>3, <3>4
  <2>2. Document(saved[d]).module = saved[d]
    BY DEF Document
  <2> QED BY <1>1, <1>2, <2>1, <2>2
<1>8. \A d \in Entries : Answers(d)' => FilesAgree(d)' /\ IsShown(d)'
  BY <1>7 DEF FilesAgree, IsShown, Document
<1> QED BY <1>4, <1>5, <1>6, <1>8 DEF WatcherInv

LEMMA OpenWatcherStep == WatcherInv /\ OpenWatcher => WatcherInv'
<1> SUFFICES ASSUME WatcherInv, OpenWatcher
             PROVE  WatcherInv'
  OBVIOUS
<1>1. /\ watcher = "opening" /\ watcher' = "watching"
      /\ UNCHANGED <<saved, devManifest, index, first, seen, queue, recompile, missed>>
  BY DEF OpenWatcher
<1>2. WatcherShapes'
  BY <1>1 DEF WatcherInv, WatcherShapes, WatcherTypeOK
<1>3. \A d \in Entries : FirstFits(d)' /\ RecompileFits(d)'
  BY <1>1 DEF WatcherInv, FirstFits, RecompileFits, IsAwaited, IsQueued
<1>4. ASSUME NEW d \in Entries, Answers(d)'
      PROVE  FilesAgree(d)' /\ IsShown(d)'
  <2>1. Answers(d) /\ FilesAgree(d) /\ IsShown(d)
    BY <1>1, <1>4 DEF Answers, WatcherInv
  <2> QED BY <1>1, <2>1 DEF FilesAgree, IsShown, IsSettled, IsAwaited, IsQueued
<1> QED BY <1>2, <1>3, <1>4 DEF WatcherInv

-----------------------------------------------------------------------------
(* The watcher: recompilations.                                            *)

\* Something waits or is recompiled only while it is watched.
LEMMA OnlyWatching ==
  ASSUME WatcherInv, NEW d \in Entries, IsAwaited(d) \/ recompile[d].pc # "idle"
  PROVE  watcher = "watching"
BY NothingWaits

\* A step of a recompilation, or of what waits for one.
LEMMA WatchingMoves ==
  ASSUME WatcherInv, watcher = "watching", UNCHANGED <<watcher, first>>,
         WatcherTypeOK', recompile' \in [Entries -> Recompilation],
         \A d \in Entries : RecompileFits(d)',
         \A d \in Entries : Answers(d)' /\ IsSettled(d)' =>
           /\ devManifest'[d] = Document(saved'[d])
           /\ index'[d] = [hash |-> saved'[d], module |-> saved'[d]]
  PROVE  WatcherInv'
<1>1. WatcherShapes'
  BY DEF WatcherInv, WatcherShapes
<1>2. \A d \in Entries : FirstFits(d)'
  BY DEF WatcherInv, FirstFits
<1>3. \A d \in Entries : Answers(d)' => FilesAgree(d)' /\ IsShown(d)'
  BY DEF FilesAgree, IsShown, Document
<1> QED BY <1>1, <1>2, <1>3 DEF WatcherInv

LEMMA NoRecompileTyped == NoRecompile \in Recompilation /\ NoRecompile.pc = "idle"
BY DEF NoRecompile, Recompilation

LEMMA NoticeStep ==
  ASSUME WatcherInv, NEW d \in Entries, Notice(d)
  PROVE  WatcherInv'
<1>1. /\ d \in seen /\ seen' = seen \ {d} /\ queue' = Append(queue, d)
      /\ UNCHANGED <<saved, devManifest, index, watcher, first, recompile, missed>>
      /\ queue \in Seq(Entries)
  BY DEF Notice, WatcherInv, WatcherShapes, WatcherTypeOK
<1>2. watcher = "watching"
  BY <1>1, OnlyWatching DEF IsAwaited
<1>3. \A e \in Entries : IsAwaited(e)' <=> IsAwaited(e)
  BY <1>1, QueueGrows DEF IsAwaited, IsQueued
<1>4. WatcherTypeOK' /\ recompile' \in [Entries -> Recompilation]
  BY <1>1, QueueGrows DEF WatcherInv, WatcherShapes, WatcherTypeOK
<1>5. \A e \in Entries : RecompileFits(e)'
  BY <1>1, <1>3 DEF WatcherInv, RecompileFits
<1>6. ASSUME NEW e \in Entries, Answers(e)', IsSettled(e)'
      PROVE  /\ devManifest'[e] = Document(saved'[e])
             /\ index'[e] = [hash |-> saved'[e], module |-> saved'[e]]
  BY <1>1, <1>2, <1>3, <1>6 DEF Answers, IsSettled, WatcherInv, IsShown
<1> QED BY <1>1, <1>2, <1>4, <1>5, <1>6, WatchingMoves

LEMMA RecompileStep ==
  ASSUME WatcherInv, NEW d \in Entries, Recompile(d)
  PROVE  WatcherInv'
<1>1. /\ queue # <<>> /\ d = Head(queue) /\ queue' = Tail(queue) /\ queue \in Seq(Entries)
      /\ UNCHANGED <<saved, devManifest, index, watcher, first, seen, missed>>
      /\ \A e \in Entries : recompile[e].pc = "idle"
  BY DEF Recompile, MayRecompile, WatcherInv, WatcherShapes, WatcherTypeOK
<1>2. watcher = "watching"
  BY <1>1 DEF WatcherInv, WatcherShapes
<1>3. /\ \A e \in Entries : IsAwaited(e)' => IsAwaited(e)
      /\ \A e \in Entries \ {d} : IsAwaited(e) => IsAwaited(e)'
  BY <1>1, QueueShrinks DEF IsAwaited, IsQueued
<1>4. WatcherTypeOK'
  BY <1>1, QueueShrinks DEF WatcherInv, WatcherShapes, WatcherTypeOK
<1>5. CASE d \in Folders
  <2>1. recompile' = recompile
    BY <1>5 DEF Recompile
  <2>2. recompile' \in [Entries -> Recompilation] /\ \A e \in Entries : RecompileFits(e)'
    BY <1>1, <2>1 DEF RecompileFits, WatcherInv, WatcherShapes
  <2>3. ASSUME NEW e \in Entries, Answers(e)', IsSettled(e)'
        PROVE  /\ devManifest'[e] = Document(saved'[e])
               /\ index'[e] = [hash |-> saved'[e], module |-> saved'[e]]
    <3>1. Answers(e) /\ e # d
      BY <1>1, <1>5, <2>3 DEF Answers
    <3>2. IsSettled(e)
      BY <1>3, <2>1, <2>3, <3>1 DEF IsSettled
    <3> QED BY <1>1, <1>2, <3>1, <3>2 DEF WatcherInv, IsShown
  <2> QED BY <1>1, <1>2, <1>4, <2>2, <2>3, WatchingMoves
<1>6. CASE d \notin Folders
  <2> DEFINE c == [NoRecompile EXCEPT !.pc = "compiled", !.from = saved[d]]
  <2>1. recompile' = [recompile EXCEPT ![d] = c]
    BY <1>6 DEF Recompile
  <2>2. c \in Recompilation /\ c.pc = "compiled" /\ c.from = saved[d] /\ saved[d] \in Drafts
    BY NoRecompileTyped DEF Recompilation, NoRecompile, WatcherInv, WatcherShapes, WatcherTypeOK
  <2> HIDE DEF c
  <2>3. recompile' \in [Entries -> Recompilation] /\ recompile'[d] = c
        /\ \A e \in Entries \ {d} : recompile'[e] = recompile[e]
    BY <2>1, <2>2 DEF WatcherInv, WatcherShapes
  <2>4. \A e \in Entries : RecompileFits(e)'
    BY <1>1, <1>6, <2>2, <2>3 DEF RecompileFits
  <2>5. ASSUME NEW e \in Entries, Answers(e)', IsSettled(e)'
        PROVE  /\ devManifest'[e] = Document(saved'[e])
               /\ index'[e] = [hash |-> saved'[e], module |-> saved'[e]]
    <3>1. Answers(e) /\ e # d
      BY <1>1, <2>2, <2>3, <2>5 DEF Answers, IsSettled
    <3>2. IsSettled(e)
      BY <1>3, <2>3, <2>5, <3>1 DEF IsSettled
    <3> QED BY <1>1, <1>2, <3>1, <3>2 DEF WatcherInv, IsShown
  <2> QED BY <1>1, <1>2, <1>4, <2>3, <2>4, <2>5, WatchingMoves
<1> QED BY <1>5, <1>6

\* What is known while an article is recompiled: no other is.
LEMMA RecompilingKnown ==
  ASSUME WatcherInv, NEW d \in Entries, recompile[d].pc # "idle"
  PROVE  /\ watcher = "watching" /\ recompile[d] \in Recompilation
         /\ recompile[d].from \in Drafts /\ d \notin Folders
         /\ \A e \in Entries \ {d} : recompile[e].pc = "idle"
         /\ saved[d] = recompile[d].from \/ IsAwaited(d)
         /\ recompile[d].pc = "read" => recompile[d].copy = devManifest
         /\ recompile[d].pc = "written" => devManifest[d] = Document(recompile[d].from)
BY OnlyWatching DEF WatcherInv, WatcherShapes, RecompileFits

LEMMA ReadManifestStep ==
  ASSUME WatcherInv, NEW d \in Entries, ReadManifest(d)
  PROVE  WatcherInv'
<1> DEFINE c == [recompile[d] EXCEPT !.pc = "read", !.copy = devManifest]
<1>1. /\ recompile[d].pc = "compiled"
      /\ UNCHANGED <<saved, devManifest, index, watcher, first, seen, queue, missed>>
  BY DEF ReadManifest
<1>2. /\ c \in Recompilation /\ c.pc = "read" /\ c.from = recompile[d].from
      /\ c.copy = devManifest
  <2>1. recompile[d] \in Recompilation
    BY <1>1, RecompilingKnown
  <2>2. devManifest \in [Entries -> {None} \cup DevDocuments]
    BY DEF DevDocuments, WatcherInv, WatcherShapes, WatcherTypeOK
  <2> QED BY <2>1, <2>2 DEF Recompilation
<1>3. recompile' = [recompile EXCEPT ![d] = c]
  BY DEF ReadManifest, WatcherInv, WatcherShapes
<1> HIDE DEF c
<1>4. recompile' \in [Entries -> Recompilation] /\ recompile'[d] = c
      /\ \A e \in Entries \ {d} : recompile'[e] = recompile[e]
  BY <1>2, <1>3 DEF WatcherInv, WatcherShapes
<1>5. \A e \in Entries : (IsAwaited(e)' <=> IsAwaited(e)) /\ (Answers(e)' <=> Answers(e))
  BY <1>1 DEF IsAwaited, IsQueued, Answers
<1>6. WatcherTypeOK'
  BY <1>1 DEF WatcherInv, WatcherShapes, WatcherTypeOK
<1>7. \A e \in Entries : RecompileFits(e)'
  BY <1>1, <1>2, <1>4, <1>5, RecompilingKnown DEF RecompileFits
<1>8. ASSUME NEW e \in Entries, Answers(e)', IsSettled(e)'
      PROVE  /\ devManifest'[e] = Document(saved'[e])
             /\ index'[e] = [hash |-> saved'[e], module |-> saved'[e]]
  <2>1. e # d /\ IsSettled(e) /\ Answers(e)
    BY <1>2, <1>4, <1>5, <1>8 DEF IsSettled
  <2> QED BY <1>1, <2>1, RecompilingKnown DEF WatcherInv, IsShown
<1> QED BY <1>1, <1>4, <1>6, <1>7, <1>8, WatchingMoves, RecompilingKnown

LEMMA WriteManifestStep ==
  ASSUME WatcherInv, NEW d \in Entries, WriteManifest(d)
  PROVE  WatcherInv'
<1> DEFINE c == [recompile[d] EXCEPT !.pc = "written"]
<1>1. /\ recompile[d].pc = "read"
      /\ UNCHANGED <<saved, index, watcher, first, seen, queue, missed>>
  BY DEF WriteManifest
<1>2. devManifest' = [devManifest EXCEPT ![d] = Document(recompile[d].from)]
  BY <1>1, RecompilingKnown DEF WriteManifest
<1>3. c \in Recompilation /\ c.pc = "written" /\ c.from = recompile[d].from
  BY <1>1, RecompilingKnown DEF Recompilation
<1>4. recompile' = [recompile EXCEPT ![d] = c]
  BY DEF WriteManifest, WatcherInv, WatcherShapes
<1> HIDE DEF c
<1>5. recompile' \in [Entries -> Recompilation] /\ recompile'[d] = c
      /\ \A e \in Entries \ {d} : recompile'[e] = recompile[e]
  BY <1>3, <1>4 DEF WatcherInv, WatcherShapes
<1>6. \A e \in Entries : (IsAwaited(e)' <=> IsAwaited(e)) /\ (Answers(e)' <=> Answers(e))
  BY <1>1 DEF IsAwaited, IsQueued, Answers
<1>7. /\ devManifest' \in [Entries -> {None} \cup DevDocuments]
      /\ devManifest'[d] = Document(recompile[d].from)
      /\ \A e \in Entries \ {d} : devManifest'[e] = devManifest[e]
  BY <1>1, <1>2, RecompilingKnown, DocumentTyped
     DEF WatcherInv, WatcherShapes, WatcherTypeOK, DevDocuments
<1>8. WatcherTypeOK'
  BY <1>1, <1>7 DEF WatcherInv, WatcherShapes, WatcherTypeOK, DevDocuments
<1>9. \A e \in Entries : RecompileFits(e)'
  BY <1>1, <1>3, <1>5, <1>6, <1>7, RecompilingKnown DEF RecompileFits
<1>10. ASSUME NEW e \in Entries, Answers(e)', IsSettled(e)'
       PROVE  /\ devManifest'[e] = Document(saved'[e])
              /\ index'[e] = [hash |-> saved'[e], module |-> saved'[e]]
  <2>1. e # d /\ IsSettled(e) /\ Answers(e)
    BY <1>3, <1>5, <1>6, <1>10 DEF IsSettled
  <2> QED BY <1>1, <1>7, <2>1, RecompilingKnown DEF WatcherInv, IsShown
<1> QED BY <1>1, <1>5, <1>8, <1>9, <1>10, WatchingMoves, RecompilingKnown

\* An article that was saved again since it was read waits for the next recompilation.
LEMMA WriteIndexStep ==
  ASSUME WatcherInv, NEW d \in Entries, WriteIndex(d)
  PROVE  WatcherInv'
<1> DEFINE entry == [hash |-> saved[d], module |-> recompile[d].from]
<1>1. /\ recompile[d].pc = "written" /\ missed' = missed \ {d}
      /\ index' = [index EXCEPT ![d] = entry]
      /\ recompile' = [recompile EXCEPT ![d] = NoRecompile]
      /\ UNCHANGED <<saved, devManifest, watcher, first, seen, queue>>
  BY DEF WriteIndex
<1>2. recompile' \in [Entries -> Recompilation]
      /\ \A e \in Entries : recompile'[e].pc = "idle"
  BY <1>1, NoRecompileTyped, RecompilingKnown DEF WatcherInv, WatcherShapes
<1>3. \A e \in Entries : IsAwaited(e)' <=> IsAwaited(e)
  BY <1>1 DEF IsAwaited, IsQueued
<1>4. /\ index' \in [Entries -> {None} \cup [hash : Drafts, module : Drafts]]
      /\ index'[d] = entry /\ \A e \in Entries \ {d} : index'[e] = index[e]
  BY <1>1, RecompilingKnown DEF WatcherInv, WatcherShapes, WatcherTypeOK
<1>5. WatcherTypeOK'
  BY <1>1, <1>4 DEF WatcherInv, WatcherShapes, WatcherTypeOK
<1>6. \A e \in Entries : RecompileFits(e)'
  BY <1>2 DEF RecompileFits
<1>7. ASSUME NEW e \in Entries, Answers(e)', IsSettled(e)'
      PROVE  /\ devManifest'[e] = Document(saved'[e])
             /\ index'[e] = [hash |-> saved'[e], module |-> saved'[e]]
  <2>1. ~IsAwaited(e)
    BY <1>3, <1>7 DEF IsSettled
  <2>2. CASE e = d
    <3>1. saved[d] = recompile[d].from
      BY <1>1, <2>1, <2>2, RecompilingKnown
    <3>2. devManifest[d] = Document(recompile[d].from)
      BY <1>1, RecompilingKnown
    <3> QED BY <1>1, <1>4, <2>2, <3>1, <3>2
  <2>3. CASE e # d
    <3>1. Answers(e) /\ IsSettled(e)
      BY <1>1, <1>7, <2>1, <2>3, RecompilingKnown DEF Answers, IsSettled
    <3> QED BY <1>1, <1>4, <2>3, <3>1, RecompilingKnown DEF WatcherInv, IsShown
  <2> QED BY <2>2, <2>3
<1> QED BY <1>1, <1>2, <1>5, <1>6, <1>7, WatchingMoves, RecompilingKnown

LEMMA RecompileFailsStep ==
  ASSUME WatcherInv, NEW d \in Entries, RecompileFails(d)
  PROVE  WatcherInv'
<1>1. /\ recompile[d].pc = "compiled" /\ missed' = missed \cup {d}
      /\ recompile' = [recompile EXCEPT ![d] = NoRecompile]
      /\ UNCHANGED <<saved, devManifest, index, watcher, first, seen, queue>>
  BY DEF RecompileFails
<1>2. recompile' \in [Entries -> Recompilation]
      /\ \A e \in Entries : recompile'[e].pc = "idle"
  BY <1>1, NoRecompileTyped, RecompilingKnown DEF WatcherInv, WatcherShapes
<1>3. WatcherTypeOK'
  BY <1>1 DEF WatcherInv, WatcherShapes, WatcherTypeOK
<1>4. \A e \in Entries : RecompileFits(e)'
  BY <1>2 DEF RecompileFits
<1>5. ASSUME NEW e \in Entries, Answers(e)', IsSettled(e)'
      PROVE  /\ devManifest'[e] = Document(saved'[e])
             /\ index'[e] = [hash |-> saved'[e], module |-> saved'[e]]
  <2>1. e # d /\ Answers(e)
    BY <1>1, <1>5 DEF Answers
  <2>2. IsSettled(e)
    BY <1>1, <1>5, <2>1, RecompilingKnown DEF IsSettled, IsAwaited, IsQueued
  <2> QED BY <1>1, <2>1, <2>2, RecompilingKnown DEF WatcherInv, IsShown
<1> QED BY <1>1, <1>2, <1>3, <1>4, <1>5, WatchingMoves, RecompilingKnown

-----------------------------------------------------------------------------
(* The watcher: edits, and stops.                                          *)

LEMMA SaveStep ==
  ASSUME WatcherInv, NEW d \in Entries, NEW t \in Drafts, Save(d, t)
  PROVE  WatcherInv'
<1>1. /\ saved' = [saved EXCEPT ![d] = t]
      /\ UNCHANGED <<devManifest, index, watcher, first, queue, recompile>>
  BY DEF Save
<1>2. /\ saved' \in [Entries -> Drafts]
      /\ \A e \in Entries \ {d} : saved'[e] = saved[e]
  BY <1>1 DEF WatcherInv, WatcherShapes, WatcherTypeOK
<1>3. CASE watcher = "watching"
  <2>1. seen' = seen \cup {d} /\ missed' = missed \ {d}
    BY <1>3 DEF Save
  <2>2. IsAwaited(d)' /\ \A e \in Entries \ {d} : IsAwaited(e)' <=> IsAwaited(e)
    BY <1>1, <2>1 DEF IsAwaited, IsQueued
  <2>3. WatcherTypeOK' /\ recompile' \in [Entries -> Recompilation]
    BY <1>1, <1>2, <2>1 DEF WatcherInv, WatcherShapes, WatcherTypeOK
  <2>4. \A e \in Entries : RecompileFits(e)'
    BY <1>1, <1>2, <2>2 DEF WatcherInv, RecompileFits
  <2>5. ASSUME NEW e \in Entries, Answers(e)', IsSettled(e)'
        PROVE  /\ devManifest'[e] = Document(saved'[e])
               /\ index'[e] = [hash |-> saved'[e], module |-> saved'[e]]
    <3>1. e # d
      BY <2>2, <2>5 DEF IsSettled
    <3>2. Answers(e) /\ IsSettled(e)
      BY <1>1, <2>1, <2>2, <2>5, <3>1 DEF Answers, IsSettled
    <3> QED BY <1>1, <1>2, <1>3, <3>1, <3>2 DEF WatcherInv, IsShown
  <2> QED BY <1>1, <1>3, <2>3, <2>4, <2>5, WatchingMoves
<1>4. CASE watcher # "watching"
  <2>1. seen' = seen /\ missed' = IF watcher = "opening" THEN missed \cup {d} ELSE missed
    BY <1>4 DEF Save
  <2>2. \A e \in Entries : /\ IsAwaited(e)' <=> IsAwaited(e)
                           /\ Answers(e)' => Answers(e)
    BY <1>1, <2>1 DEF IsAwaited, IsQueued, Answers
  <2>3. WatcherShapes'
    BY <1>1, <1>2, <2>1 DEF WatcherInv, WatcherShapes, WatcherTypeOK
  <2>4. \A e \in Entries : FirstFits(e)'
    BY <1>1, <2>2 DEF WatcherInv, FirstFits
  <2>5. \A e \in Entries : RecompileFits(e)'
    BY <1>1, <1>4, NothingWaits DEF RecompileFits
  <2>6. ASSUME NEW e \in Entries, Answers(e)'
        PROVE  FilesAgree(e)' /\ IsShown(e)'
    <3>1. Answers(e) /\ FilesAgree(e) /\ IsShown(e)
      BY <2>2, <2>6 DEF WatcherInv
    <3>2. FilesAgree(e)'
      BY <1>1, <2>2, <3>1 DEF FilesAgree, IsSettled
    <3>3. watcher = "opening" => e # d
      BY <2>1, <2>6 DEF Answers
    <3>4. IsShown(e)'
      BY <1>1, <1>2, <1>4, <2>2, <3>1, <3>3 DEF IsShown, IsSettled
    <3> QED BY <3>2, <3>4
  <2> QED BY <2>3, <2>4, <2>5, <2>6 DEF WatcherInv
<1> QED BY <1>3, <1>4

\* A stop misses what was under way or waited; of the rest the two files agree, or one
\* of them is gone.
LEMMA StopWatcherStep == WatcherInv /\ StopWatcher => WatcherInv'
<1> SUFFICES ASSUME WatcherInv, StopWatcher
             PROVE  WatcherInv'
  OBVIOUS
<1> DEFINE nothing == [d \in Entries |-> None]
<1>1. /\ watcher' = "off" /\ saved' = saved
      /\ queue' = <<>> /\ seen' = {} /\ recompile' = [d \in Entries |-> NoRecompile]
      /\ missed' = missed \cup {d \in Entries : recompile[d].pc # "idle"}
           \cup (seen \cup {queue[i] : i \in 1..Len(queue)})
           \cup {d \in Entries : watcher = "indexing" /\ first[d].fresh}
      /\ devManifest' \in {devManifest, nothing}
      /\ index' \in {index, nothing}
      /\ first' = [d \in Entries |-> NoFirst]
  BY DEF StopWatcher, NothingQueued, CutShort
<1>2. missed' \subseteq Entries
  <2>1. queue \in Seq(Entries) /\ seen \subseteq Entries /\ missed \subseteq Entries
    BY DEF WatcherInv, WatcherShapes, WatcherTypeOK
  <2>2. \A i \in 1..Len(queue) : queue[i] \in Entries
    BY <2>1
  <2> QED BY <1>1, <2>1, <2>2
<1>3. /\ devManifest' \in [Entries -> {None} \cup [code : Drafts, module : Drafts]]
      /\ index' \in [Entries -> {None} \cup [hash : Drafts, module : Drafts]]
  <2>1. nothing \in [Entries -> {None} \cup [code : Drafts, module : Drafts]]
        /\ nothing \in [Entries -> {None} \cup [hash : Drafts, module : Drafts]]
    OBVIOUS
  <2> QED BY <1>1, <2>1 DEF WatcherInv, WatcherShapes, WatcherTypeOK
<1>4. /\ recompile' \in [Entries -> Recompilation] /\ first' \in [Entries -> First]
      /\ \A d \in Entries : recompile'[d].pc = "idle" /\ first'[d].pc = "todo"
  BY <1>1, NoRecompileTyped, NoFirstTyped
<1>5. <<>> \in Seq(Entries)
  OBVIOUS
<1>6. WatcherShapes'
  BY <1>1, <1>2, <1>3, <1>4, <1>5 DEF WatcherInv, WatcherShapes, WatcherTypeOK
<1>7. \A d \in Entries : FirstFits(d)' /\ RecompileFits(d)'
  BY <1>4 DEF FirstFits, RecompileFits
<1>8. ASSUME NEW d \in Entries, Answers(d)', devManifest'[d] # None, index'[d] # None
      PROVE  devManifest'[d].code = index'[d].hash /\ index'[d].module = index'[d].hash
  <2>1. d \notin missed' /\ d \notin Folders
    BY <1>8 DEF Answers
  <2>2. /\ Answers(d) /\ recompile[d].pc = "idle"
        /\ d \notin seen /\ ~Within(queue, d)
        /\ ~(watcher = "indexing" /\ first[d].fresh)
    BY <1>1, <2>1 DEF Answers, Within
  <2>3. devManifest'[d] = devManifest[d] /\ index'[d] = index[d]
    BY <1>1, <1>8
  <2>4. IsSettled(d) /\ FilesAgree(d)
    BY <2>2 DEF IsSettled, IsAwaited, IsQueued, WatcherInv
  <2> QED BY <1>8, <2>2, <2>3, <2>4 DEF FilesAgree
<1>9. \A d \in Entries : Answers(d)' => FilesAgree(d)' /\ IsShown(d)'
  BY <1>1, <1>8 DEF FilesAgree, IsShown
<1> QED BY <1>6, <1>7, <1>9 DEF WatcherInv

LEMMA WatcherInvariant == WatcherSpec => []WatcherInv
<1>1. WatcherInit => WatcherInv
  <2> SUFFICES ASSUME WatcherInit
               PROVE  WatcherInv
    OBVIOUS
  <2>1. /\ watcher = "off" /\ queue = <<>> /\ seen = {} /\ missed = {}
        /\ first = [d \in Entries |-> NoFirst] /\ recompile = [d \in Entries |-> NoRecompile]
        /\ devManifest = [d \in Entries |-> None] /\ index = [d \in Entries |-> None]
        /\ saved \in [Entries -> Drafts]
    BY DEF WatcherInit
  <2>2. <<>> \in Seq(Entries)
    OBVIOUS
  <2>3. WatcherShapes
    BY <2>1, <2>2, NoFirstTyped, NoRecompileTyped DEF WatcherShapes, WatcherTypeOK
  <2>4. \A d \in Entries : FirstFits(d) /\ RecompileFits(d)
    BY <2>1, NoFirstTyped, NoRecompileTyped DEF FirstFits, RecompileFits
  <2>5. \A d \in Entries : FilesAgree(d) /\ IsShown(d)
    BY <2>1 DEF FilesAgree, IsShown
  <2> QED BY <2>3, <2>4, <2>5 DEF WatcherInv
<1>2. WatcherInv /\ [WatcherNext]_watcherVars => WatcherInv'
  <2> SUFFICES ASSUME WatcherInv, [WatcherNext]_watcherVars
               PROVE  WatcherInv'
    OBVIOUS
  <2>1. ASSUME NEW d \in Entries, EntryStep(d)
        PROVE  WatcherInv'
    BY <2>1, HashAtStartStep, CompileAtStartStep, CheckAtStartStep, NoticeStep, RecompileStep,
       ReadManifestStep, WriteManifestStep, WriteIndexStep, RecompileFailsStep, SaveStep
       DEF EntryStep
  <2>2. CASE UNCHANGED watcherVars
    BY <2>2 DEF watcherVars, WatcherInv, WatcherShapes, WatcherTypeOK, FirstFits, RecompileFits,
       FilesAgree, IsShown, Answers, IsSettled, IsAwaited, IsQueued
  <2> QED BY <2>1, <2>2, StartWatcherStep, WriteFirstManifestStep, WriteFirstIndexStep,
             OpenWatcherStep, StopWatcherStep DEF WatcherNext
<1> QED BY <1>1, <1>2, PTL DEF WatcherSpec

\* The disk, the two files and what waits hold values of their kinds.
THEOREM WatcherTyped == WatcherSpec => []WatcherTypeOK
<1>1. WatcherInv => WatcherTypeOK
  BY DEF WatcherInv, WatcherShapes
<1> QED BY <1>1, WatcherInvariant, PTL

\* When the watcher has nothing left to do, the manifest has every article as it is on
\* the disk, through any stops and starts, but for those named at the property.
THEOREM EditsAreServed == WatcherSpec => []DevServesEdits
<1>1. WatcherInv => DevServesEdits
  <2> SUFFICES ASSUME WatcherInv, watcher = "watching", seen = {}, queue = <<>>,
                      \A d \in Entries : recompile[d].pc = "idle",
                      NEW d \in Entries \ (Folders \cup missed)
               PROVE  devManifest[d] = Document(saved[d])
    BY DEF DevServesEdits
  <2>1. Answers(d) /\ IsSettled(d)
    BY DEF Answers, IsSettled, IsAwaited, IsQueued, Within
  <2> QED BY <2>1 DEF WatcherInv, IsShown
<1> QED BY <1>1, WatcherInvariant, PTL

-----------------------------------------------------------------------------
(* The six parts together, as they are checked.                            *)

\* A behaviour of all of them is, for each part, one of that part.
LEMMA PartsAreTheirOwn ==
  MCSpec => /\ ArtifactsSpec /\ DeploymentsSpec /\ IndexingSpec
            /\ SearchSyncSpec /\ CompileSpec /\ WatcherSpec
<1>1. MCInit => /\ ArtifactsInit /\ DeploymentsInit /\ IndexingInit
                /\ SearchSyncInit /\ CompileInit /\ WatcherInit
  BY DEF MCInit
<1>2. [MCNext]_contentVars =>
        /\ [ArtifactsNext]_artifactVars /\ [DeploymentsNext]_deploymentVars
        /\ [IndexingNext]_indexVars /\ [SearchSyncNext]_syncVars
        /\ [CompileNext]_compileVars /\ [WatcherNext]_watcherVars
  BY DEF MCNext, contentVars
<1> QED BY <1>1, <1>2, PTL DEF MCSpec, ArtifactsSpec, DeploymentsSpec, IndexingSpec,
           SearchSyncSpec, CompileSpec, WatcherSpec

\* Every variable of the part that does not rest holds a value of its kind.
THEOREM ContentTyped == MCSpec => []ContentTypeOK
<1>1. /\ ArtifactsTypeOK /\ DeploymentsTypeOK /\ IndexingTypeOK /\ SearchSyncTypeOK
      /\ CompileTypeOK /\ WatcherTypeOK
      => ContentTypeOK
  BY DEF ContentTypeOK
<1> QED BY <1>1, PartsAreTheirOwn, ArtifactsTyped, DeploymentsTyped, IndexingIsTyped,
           SearchSyncTyped, CompileTyped, WatcherTyped, PTL

\* What is compiled fits what it was compiled from: the documents that a build keeps,
\* and those that local development shows.
THEOREM CompiledFits == MCSpec => []CompiledFitsItsText
<1>1. KeptDocumentsFit /\ DevServesEdits => CompiledFitsItsText
  BY DEF CompiledFitsItsText
<1> QED BY <1>1, PartsAreTheirOwn, KeptDocumentsAreFit, EditsAreServed, PTL
=============================================================================
