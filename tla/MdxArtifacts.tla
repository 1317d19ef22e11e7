---------------------------- MODULE MdxArtifacts ----------------------------
(***************************************************************************)
(* The compiled content of the site, for one document: the bundle in R2,   *)
(* its code-stripped mirror and the document's client code in KV, the      *)
(* manifest that names the version to serve, the copies in the memory of   *)
(* each parent isolate, and the dynamic worker of each version, which      *)
(* renders the document on the server and asks a parent for the code that  *)
(* the browser hydrates it with.                                           *)
(*                                                                         *)
(* A version is the hash of what was compiled (computeContentVersion), so  *)
(* a revert brings an old version back, and two compiles of one version    *)
(* may differ (an embed that could not be fetched, generatedAt): a payload *)
(* is a version and the build that produced it.  A bundle is its payload;  *)
(* the document is in the bundles of the versions in Listed.               *)
(***************************************************************************)
EXTENDS Naturals, Absence

CONSTANTS
  Versions,      \* content hashes
  FirstVersion,  \* the one that is being served at the start
  Listed,        \* versions whose bundle has the document
  Builds,        \* compiles of one version
  Parents,       \* parent isolates
  Readers,       \* page requests that may be under way at the same time
  Publications,  \* workflow runs that may publish at the same time
  MaxPublished,  \* bound on publications
  MaxBroken      \* bound on writes that fail and handlers that die

ASSUME ArtifactsAssumption ==
  /\ FirstVersion \in Versions /\ Listed \subseteq Versions /\ Builds # {}
  /\ MaxPublished \in Nat /\ MaxBroken \in Nat
  /\ None \notin Parents /\ None \notin Versions

Payloads == [version : Versions, build : Builds]

ASSUME NonePayload == None \notin Payloads

VARIABLES
  r2,         \* MDX_ARTIFACTS: the bundle of each version
  mirror,     \* CONTENT_KV: mdx-bundle:<r2Key>, without code
  codeKey,    \* CONTENT_KV: mdx-code:<version>:<document>
  manifest,   \* CONTENT_KV: mdx-manifest:current
  parent,     \* the caches of each parent isolate
  app,        \* the warm dynamic worker of each version
  reader,     \* page requests
  publication,\* workflow runs with the handler they wait for
  published,  \* publications so far
  broken      \* faults so far

artifactVars == <<r2, mirror, codeKey, manifest, parent, app, reader,
                  publication, published, broken>>

-----------------------------------------------------------------------------
(* Data.                                                                   *)

\* A KV key: its last value, and what an edge may still return instead, except
\* that it had none: wherever that matters a read may find nothing or fail.
Cell(values) == [now : values, old : SUBSET values]
Put(cell, value) == [now |-> value, old |-> cell.old \cup ({cell.now} \ {None, value})]
Readable(cell) == {cell.now} \cup cell.old

\* A copy is held in a set: none, or one (page: one that may be None, for a
\* document that was looked for and not found).
Caches == [manifest : SUBSET Versions,
           bundle : [Versions -> [payload : Payloads, inline : BOOLEAN] \cup {None}],
           modules : [Versions -> Payloads \cup {None}],
           code : [Versions -> Payloads \cup {None}]]

ColdCaches == [manifest |-> {}, bundle |-> [v \in Versions |-> None],
               modules |-> [v \in Versions |-> None],
               code |-> [v \in Versions |-> None]]

App == [modules : Payloads, page : SUBSET (Payloads \cup {None})]

ASSUME NoneApp == None \notin App

\* A reader first gets its dynamic worker ("page"), whose render then asks a
\* parent for the code ("code"); app is the worker it waits in.
Reader == [pc : {"idle", "bundle", "r2", "codes", "mirror", "cache", "render",
                 "code", "codeR2", "unprovisioned"},
           phase : {"page", "code"},
           at : Parents \cup {None},
           version : Versions \cup {None},
           app : Versions \cup {None},
           bundle : Payloads \cup {None},
           inline : BOOLEAN]

NoReader == [pc |-> "idle", phase |-> "page", at |-> None, version |-> None,
             app |-> None, bundle |-> None, inline |-> FALSE]

Publication == [pc : {"idle", "r2", "codes", "mirror", "manifest"},
                payload : Payloads \cup {None}, direct : BOOLEAN]

NoPublication == [pc |-> "idle", payload |-> None, direct |-> FALSE]

Break == broken < MaxBroken /\ broken' = broken + 1

Step(r, changes) == reader' = [reader EXCEPT ![r] = changes]

\* writeArtifactBundleKvMirror stops at the first put that fails; both its
\* callers catch that and go on.
PutCode(payload) ==
  codeKey' = IF payload.version \in Listed
             THEN [codeKey EXCEPT ![payload.version] = Put(@, payload)]
             ELSE codeKey
\* Mutant: the mirror gets what the manifest gets.
PutMirrorVersion(payload) ==
  mirror' = [mirror EXCEPT ![payload.version] = Put(@, payload.version)]
PutMirror(payload) ==
  mirror' = [mirror EXCEPT ![payload.version] = Put(@, payload)]

-----------------------------------------------------------------------------
(* Publishing: publishViaEndpoint and handlePublishArtifacts, or wrangler. *)

Publish(w, payload, direct) ==
  /\ publication[w].pc = "idle"
  /\ published < MaxPublished /\ published' = published + 1
  /\ publication' = [publication EXCEPT ![w] =
       [pc |-> "r2", payload |-> payload, direct |-> direct]]
  /\ UNCHANGED <<r2, mirror, codeKey, manifest, parent, app, reader, broken>>

PublishGoes(w, pc) == publication' = [publication EXCEPT ![w] = [@ EXCEPT !.pc = pc]]

\* Mutant: the manifest is flipped first.
ManifestBeforeBundle(w) ==
  /\ publication[w].pc = "r2"
  /\ manifest' = Put(manifest, publication[w].payload.version)
  /\ PublishGoes(w, "codes")
  /\ UNCHANGED <<r2, mirror, codeKey, parent, app, reader, published, broken>>

\* The bundle goes to R2 before anything that names it.
PublishBundle(w) ==
  /\ publication[w].pc = "r2"
  /\ r2' = [r2 EXCEPT ![publication[w].payload.version] = publication[w].payload]
  /\ PublishGoes(w, IF publication[w].direct THEN "manifest" ELSE "codes")
  /\ UNCHANGED <<mirror, codeKey, manifest, parent, app, reader, published, broken>>

PublishCodes(w) ==
  /\ publication[w].pc = "codes"
  /\ \/ PutCode(publication[w].payload) /\ PublishGoes(w, "mirror") /\ UNCHANGED broken
     \/ Break /\ PublishGoes(w, "manifest") /\ UNCHANGED codeKey
  /\ UNCHANGED <<r2, mirror, manifest, parent, app, reader, published>>

PublishMirror(w) ==
  /\ publication[w].pc = "mirror"
  /\ PublishGoes(w, "manifest")
  /\ \/ PutMirror(publication[w].payload) /\ UNCHANGED broken
     \/ Break /\ UNCHANGED mirror
  /\ UNCHANGED <<r2, codeKey, manifest, parent, app, reader, published>>

\* The manifest last; the isolate of the handler forgets what it holds.
PublishManifest(w) ==
  /\ publication[w].pc = "manifest"
  /\ manifest' = Put(manifest, publication[w].payload.version)
  /\ IF publication[w].direct THEN UNCHANGED parent
     ELSE \E p \in Parents : parent' = [parent EXCEPT ![p] = ColdCaches]
  /\ publication' = [publication EXCEPT ![w] = NoPublication]
  /\ UNCHANGED <<r2, mirror, codeKey, app, reader, published, broken>>

\* A put that throws, a handler or a workflow run that dies: the run retries with
\* the same bundle, or gives up (a newer run of its group cancels it).
PublishFails(w) ==
  /\ publication[w].pc # "idle" /\ Break
  /\ publication' \in {[publication EXCEPT ![w] = NoPublication],
                       [publication EXCEPT ![w] = [@ EXCEPT !.pc = "r2"]]}
  /\ UNCHANGED <<r2, mirror, codeKey, manifest, parent, app, reader, published>>

-----------------------------------------------------------------------------
(* Reading: handleDynamicRequest, ContentRpc.getDocumentCode and what they *)
(* share.                                                                  *)

\* readMdxManifest: the copy of the isolate for fifteen seconds, else KV.
ManifestAt(p, bypass) ==
  IF bypass \/ parent[p].manifest = {} THEN Readable(manifest)
  ELSE parent[p].manifest

\* A GET of the page.  A prewarm, and the refresh of the cache, bypass the
\* copies of the isolate; a prewarm that expects another version gets a 409.
ReaderArrives(r, p, bypass, expected) ==
  /\ reader[r].pc = "idle"
  /\ expected # None => bypass
  /\ \E v \in ManifestAt(p, bypass) :
       /\ parent' = [parent EXCEPT ![p] =
            [(IF bypass THEN ColdCaches ELSE @) EXCEPT !.manifest = {v}]]
       /\ IF expected \in {None, v}
          THEN Step(r, [NoReader EXCEPT !.pc = "bundle", !.at = p, !.version = v])
          ELSE UNCHANGED reader
  /\ UNCHANGED <<r2, mirror, codeKey, manifest, app, publication, published, broken>>

\* getOrBuildModuleMap and LOADER.get: the caches of the parent (c) get the module
\* map, a worker of this version is started unless one is warm.
LoadApp(r, c, payload) ==
  LET p == reader[r].at
      v == reader[r].version
      m == IF c.modules[v] # None THEN c.modules[v] ELSE payload IN
  /\ parent' = [parent EXCEPT ![p] = [c EXCEPT !.modules[v] = m]]
  /\ app' = IF app[v] # None THEN app
            ELSE [app EXCEPT ![v] = [modules |-> m, page |-> {}]]
  /\ Step(r, [NoReader EXCEPT !.pc = "render", !.app = v])

\* The worker keeps what it was told, also that there is no such code.
Answered(r, code) ==
  /\ app' = [app EXCEPT ![reader[r].app] = [@ EXCEPT !.page = {code}]]
  /\ Step(r, NoReader)

\* The rest of resolveDocumentCode, for a bundle and the caches c.
FindCode(r, c, payload, inline) ==
  LET p == reader[r].at
      v == reader[r].version IN
  /\ parent' = [parent EXCEPT ![p] = c]
  /\ IF payload.version \notin Listed THEN Answered(r, None)
     ELSE IF inline THEN Answered(r, payload)
     ELSE IF c.code[v] # None THEN Answered(r, c.code[v])
     ELSE Step(r, [reader[r] EXCEPT !.pc = "code"]) /\ UNCHANGED app

UseBundle(r, c, payload, inline) ==
  IF reader[r].phase = "page" THEN LoadApp(r, c, payload)
  ELSE FindCode(r, c, payload, inline)

\* getCachedArtifactBundle.
BundleFromMemory(r) ==
  /\ reader[r].pc = "bundle"
  /\ LET c == parent[reader[r].at]
         b == c.bundle[reader[r].version] IN
       b # None /\ UseBundle(r, c, b.payload, b.inline)
  /\ UNCHANGED <<r2, mirror, codeKey, manifest, publication, published, broken>>

\* fetchArtifactBundle: the mirror if it is there and can be read, else R2.
BundleFromMirror(r) ==
  /\ reader[r].pc = "bundle"
  /\ parent[reader[r].at].bundle[reader[r].version] = None
  /\ \E b \in Readable(mirror[reader[r].version]) \cup {None} :
       Step(r, IF b # None
               THEN [reader[r] EXCEPT !.pc = "cache", !.bundle = b, !.inline = FALSE]
               ELSE [reader[r] EXCEPT !.pc = "r2"])
  /\ UNCHANGED <<r2, mirror, codeKey, manifest, parent, app, publication, published,
                 broken>>

\* Without the bundle a page is a 503 and the code of a document is null.
BundleFromR2(r) ==
  /\ reader[r].pc = "r2"
  /\ LET b == r2[reader[r].version] IN
       IF b # None
       THEN /\ Step(r, [reader[r] EXCEPT !.pc = "codes", !.bundle = b, !.inline = TRUE])
            /\ UNCHANGED app
       ELSE IF reader[r].phase = "page"
            THEN Step(r, [NoReader EXCEPT !.pc = "unprovisioned"]) /\ UNCHANGED app
            ELSE Answered(r, None)
  /\ UNCHANGED <<r2, mirror, codeKey, manifest, parent, publication, published, broken>>

\* The mirror is written back, the code first.
WriteBackCodes(r) ==
  /\ reader[r].pc = "codes"
  /\ \/ /\ PutCode(reader[r].bundle) /\ UNCHANGED broken
        /\ Step(r, [reader[r] EXCEPT !.pc = "mirror"])
     \/ /\ Break /\ UNCHANGED codeKey
        /\ Step(r, [reader[r] EXCEPT !.pc = "cache"])
  /\ UNCHANGED <<r2, mirror, manifest, parent, app, publication, published>>

WriteBackMirror(r) ==
  /\ reader[r].pc = "mirror"
  /\ Step(r, [reader[r] EXCEPT !.pc = "cache"])
  /\ \/ PutMirror(reader[r].bundle) /\ UNCHANGED broken
     \/ Break /\ UNCHANGED mirror
  /\ UNCHANGED <<r2, codeKey, manifest, parent, app, publication, published>>

\* cacheArtifactBundle.
CacheBundle(r) ==
  /\ reader[r].pc = "cache"
  /\ UseBundle(r, [parent[reader[r].at] EXCEPT !.bundle[reader[r].version] =
                     [payload |-> reader[r].bundle, inline |-> reader[r].inline]],
               reader[r].bundle, reader[r].inline)
  /\ UNCHANGED <<r2, mirror, codeKey, manifest, publication, published, broken>>

\* getWorkerMdxPage: the page the worker keeps, nothing for a document that the
\* version does not have, else a call of ContentRpc at some parent, which reads
\* the manifest for itself.
Render(r, p) ==
  /\ reader[r].pc = "render"
  /\ LET v == reader[r].app IN
       IF app[v].page # {} THEN Step(r, NoReader) /\ UNCHANGED <<parent, app>>
       ELSE IF v \notin Listed THEN Answered(r, None) /\ UNCHANGED parent
       ELSE \E u \in ManifestAt(p, FALSE) :
              /\ parent' = [parent EXCEPT ![p] = [@ EXCEPT !.manifest = {u}]]
              /\ Step(r, [NoReader EXCEPT !.pc = "bundle", !.phase = "code",
                                          !.at = p, !.version = u, !.app = v])
              /\ UNCHANGED app
  /\ UNCHANGED <<r2, mirror, codeKey, manifest, publication, published, broken>>

\* Mutant: the code that an isolate keeps is filed by document alone.
KeepCodeByDocument(r, code) ==
  parent' = [parent EXCEPT ![reader[r].at] =
               [@ EXCEPT !.code = [v \in Versions |-> code]]]

KeepCode(r, code) ==
  parent' = [parent EXCEPT ![reader[r].at] =
               [@ EXCEPT !.code[reader[r].version] = code]]

\* Mutant: the document's own key is all there is.
CodeFromKeyAlone(r) ==
  /\ reader[r].pc = "code"
  /\ \E c \in Readable(codeKey[reader[r].version]) \cup {None} :
       Answered(r, c) /\ UNCHANGED parent
  /\ UNCHANGED <<r2, mirror, codeKey, manifest, publication, published, broken>>

\* The document's own key, if it is there and can be read, else R2.
CodeFromKey(r) ==
  /\ reader[r].pc = "code"
  /\ \E c \in Readable(codeKey[reader[r].version]) \cup {None} :
       IF c # None THEN KeepCode(r, c) /\ Answered(r, c)
       ELSE Step(r, [reader[r] EXCEPT !.pc = "codeR2"]) /\ UNCHANGED <<parent, app>>
  /\ UNCHANGED <<r2, mirror, codeKey, manifest, publication, published, broken>>

CodeFromR2(r) ==
  /\ reader[r].pc = "codeR2"
  /\ LET c == r2[reader[r].version] IN
       IF c = None \/ c.version \notin Listed
       THEN Answered(r, None) /\ UNCHANGED parent
       ELSE KeepCode(r, c) /\ Answered(r, c)
  /\ UNCHANGED <<r2, mirror, codeKey, manifest, publication, published, broken>>

-----------------------------------------------------------------------------
(* The platform.                                                           *)

\* Mutant: a copy of the manifest is kept for good.
ManifestCopyStays(p) == FALSE /\ UNCHANGED artifactVars

\* MANIFEST_TTL_MS is over.
ManifestCopyExpires(p) ==
  /\ parent[p].manifest # {}
  /\ parent' = [parent EXCEPT ![p] = [@ EXCEPT !.manifest = {}]]
  /\ UNCHANGED <<r2, mirror, codeKey, manifest, app, reader, publication, published,
                 broken>>

\* An isolate goes, with the requests it is serving.
ParentGoes(p) ==
  /\ parent' = [parent EXCEPT ![p] = ColdCaches]
  /\ reader' = [r \in Readers |-> IF reader[r].at = p THEN NoReader ELSE reader[r]]
  /\ UNCHANGED <<r2, mirror, codeKey, manifest, app, publication, published, broken>>

AppGoes(v) ==
  /\ app[v] # None /\ \A r \in Readers : reader[r].app # v
  /\ app' = [app EXCEPT ![v] = None]
  /\ UNCHANGED <<r2, mirror, codeKey, manifest, parent, reader, publication, published,
                 broken>>

\* A KV write, or the cacheTtl of a read, has run its course everywhere.
ManifestPropagates ==
  /\ manifest.old # {} /\ manifest' = [manifest EXCEPT !.old = {}]
  /\ UNCHANGED <<r2, mirror, codeKey, parent, app, reader, publication, published,
                 broken>>

CopiesPropagate(v) ==
  /\ mirror[v].old # {} \/ codeKey[v].old # {}
  /\ mirror' = [mirror EXCEPT ![v].old = {}]
  /\ codeKey' = [codeKey EXCEPT ![v].old = {}]
  /\ UNCHANGED <<r2, manifest, parent, app, reader, publication, published, broken>>

-----------------------------------------------------------------------------

ArtifactsInit ==
  \E b \in Builds :
    LET first == [version |-> FirstVersion, build |-> b]
        nothing == [now |-> None, old |-> {}] IN
    /\ r2 = [v \in Versions |-> IF v = FirstVersion THEN first ELSE None]
    /\ mirror = [v \in Versions |-> nothing] /\ codeKey = mirror
    /\ manifest = [now |-> FirstVersion, old |-> {}]
    /\ parent = [p \in Parents |-> ColdCaches]
    /\ app = [v \in Versions |-> None]
    /\ reader = [r \in Readers |-> NoReader]
    /\ publication = [w \in Publications |-> NoPublication]
    /\ published = 0 /\ broken = 0

PublicationStep(w) ==
  \/ PublishBundle(w) \/ PublishCodes(w) \/ PublishMirror(w) \/ PublishManifest(w)

ReaderStep(r) ==
  \/ BundleFromMemory(r) \/ BundleFromMirror(r) \/ BundleFromR2(r)
  \/ WriteBackCodes(r) \/ WriteBackMirror(r) \/ CacheBundle(r)
  \/ \E p \in Parents : Render(r, p)
  \/ CodeFromKey(r) \/ CodeFromR2(r)

ArtifactsNext ==
  \/ \E w \in Publications :
       \/ \E payload \in Payloads, direct \in BOOLEAN : Publish(w, payload, direct)
       \/ PublicationStep(w) \/ PublishFails(w)
  \/ \E r \in Readers :
       \/ \E p \in Parents, bypass \in BOOLEAN, expected \in Versions \cup {None} :
            ReaderArrives(r, p, bypass, expected)
       \/ ReaderStep(r)
  \/ \E p \in Parents : ManifestCopyExpires(p) \/ ParentGoes(p)
  \/ \E v \in Versions : AppGoes(v) \/ CopiesPropagate(v)
  \/ ManifestPropagates

\* Handlers go on, and the fifteen seconds of a copy and the propagation of a
\* KV write come to an end.
ArtifactsFairness ==
  /\ \A w \in Publications : WF_artifactVars(PublicationStep(w))
  /\ \A r \in Readers : WF_artifactVars(ReaderStep(r))
  /\ \A p \in Parents : WF_artifactVars(ManifestCopyExpires(p))
  /\ WF_artifactVars(ManifestPropagates)

ArtifactsSpec == ArtifactsInit /\ [][ArtifactsNext]_artifactVars /\ ArtifactsFairness
=============================================================================
