---------------------------- MODULE ArtifactCompile ----------------------------
(***************************************************************************)
(* mdx:compile: every article is compiled for the bundle, or taken from a  *)
(* cache that outlives the build, where it is kept with the hash of its    *)
(* inputs.  Articles are compiled side by side; what degraded an embed is  *)
(* counted for all of them together.                                       *)
(***************************************************************************)
EXTENDS Absence, Naturals

CONSTANTS
  Articles,         \* blog posts and pages
  Texts,            \* what the inputs of an article can be; its own hash
  MaxRevisions,     \* bound on edits of articles
  MaxDegradations   \* bound on embeds that degrade

ASSUME CompileAssumption == MaxRevisions \in Nat /\ MaxDegradations \in Nat

VARIABLES
  inputs,        \* the files of the articles and the list of their directory
  kept,          \* the cache of compiled documents
  compile,       \* the compilation of each article in this build
  building,      \* the articles of this build, or None
  degradations,  \* embedDegradationCount
  bundle,        \* the bundle that was written last
  revisions

compileVars == <<inputs, kept, compile, building, degradations, bundle, revisions>>

\* A compiled document: the inputs it was made of, whether an embed of it
\* degraded, and the edits since the hash that it is kept under was taken.
Compiled == [from : Texts, degraded : BOOLEAN, edits : 0..MaxRevisions]
NoCompile == [pc |-> "idle", hash |-> None, before |-> 0, document |-> None, edits |-> 0]
Compile ==
  [pc : {"idle", "hashed", "compiling", "done", "failed"}, hash : Texts \cup {None},
   before : 0..MaxDegradations, document : Compiled \cup {None}, edits : 0..MaxRevisions]

\* The count belongs to the process.
StartBuild ==
  /\ building = None
  /\ building' = {d \in Articles : inputs[d] # None}
  /\ compile' = [d \in Articles |-> NoCompile]
  /\ degradations' = 0
  /\ UNCHANGED <<inputs, kept, bundle, revisions>>

\* readCachedCompiledDocument: what is kept under another hash is not used.
FromCache(d, hash) == kept[d] # None /\ kept[d].hash = hash

\* computeDocumentInputHash, and the cache.
HashDocument(d) ==
  /\ building # None /\ d \in building /\ compile[d].pc = "idle"
  /\ compile' = [compile EXCEPT ![d] =
       IF inputs[d] = None THEN [@ EXCEPT !.pc = "failed"]
       ELSE IF FromCache(d, inputs[d])
            THEN [@ EXCEPT !.pc = "done", !.document = kept[d].document]
            ELSE [@ EXCEPT !.pc = "hashed", !.hash = inputs[d]]]
  /\ UNCHANGED <<inputs, kept, building, degradations, bundle, revisions>>

\* compileMdxArtifactDocument reads the inputs again.
ReadDocument(d) ==
  /\ compile[d].pc = "hashed"
  /\ compile' = [compile EXCEPT ![d] =
       IF inputs[d] = None THEN [@ EXCEPT !.pc = "failed"]
       ELSE [@ EXCEPT !.pc = "compiling", !.before = degradations,
                      !.document = [from |-> inputs[d], degraded |-> FALSE, edits |-> 0]]]
  /\ UNCHANGED <<inputs, kept, building, degradations, bundle, revisions>>

\* recordEmbedDegradation: a tweet, an embed or a diagram was not to be had.
EmbedDegrades(d) ==
  /\ compile[d].pc = "compiling" /\ degradations < MaxDegradations
  /\ degradations' = degradations + 1
  /\ compile' = [compile EXCEPT ![d].document.degraded = TRUE]
  /\ UNCHANGED <<inputs, kept, building, bundle, revisions>>

\* The count may have grown for another article, whose compilation overlaps.
KeepsWhatDegraded(d) == inputs[d] = compile[d].hash
Cacheable(d) == degradations = compile[d].before /\ inputs[d] = compile[d].hash

\* The document is used in any case, and kept if it is whole and its inputs
\* have the hash still.
FinishDocument(d) ==
  LET document == [compile[d].document EXCEPT !.edits = compile[d].edits] IN
  /\ compile[d].pc = "compiling" /\ inputs[d] # None
  /\ kept' = IF Cacheable(d)
             THEN [kept EXCEPT ![d] = [hash |-> compile[d].hash, document |-> document]]
             ELSE kept
  /\ compile' = [compile EXCEPT ![d].pc = "done", ![d].document = document]
  /\ UNCHANGED <<inputs, building, degradations, bundle, revisions>>

\* Three attempts were not enough, or the article is gone.
DocumentFails(d) ==
  /\ compile[d].pc = "compiling"
  /\ compile' = [compile EXCEPT ![d].pc = "failed"]
  /\ UNCHANGED <<inputs, kept, building, degradations, bundle, revisions>>

\* pruneCompiledDocumentCache, then the bundle.
BuildEnds ==
  /\ building # None /\ \A d \in building : compile[d].pc = "done"
  /\ kept' = [d \in Articles |-> IF d \in building THEN kept[d] ELSE None]
  /\ bundle' = [d \in Articles |-> compile[d].document]
  /\ building' = None /\ compile' = [d \in Articles |-> NoCompile]
  /\ UNCHANGED <<inputs, degradations, revisions>>

\* A document failed, which fails the build once all are through, or the build
\* was cut off.  What is kept stays, but for a runner that has none of it.
BuildFails ==
  /\ building # None
  /\ kept' \in {kept, [d \in Articles |-> None]}
  /\ building' = None /\ compile' = [d \in Articles |-> NoCompile]
  /\ UNCHANGED <<inputs, degradations, bundle, revisions>>

\* An article is written, edited or removed.
Revise(d, t) ==
  /\ t # inputs[d] /\ revisions < MaxRevisions /\ revisions' = revisions + 1
  /\ inputs' = [inputs EXCEPT ![d] = t]
  /\ compile' = [compile EXCEPT ![d].edits = IF compile[d].pc \in {"hashed", "compiling"}
                                             THEN @ + 1 ELSE @]
  /\ UNCHANGED <<kept, building, degradations, bundle>>

CompileInit ==
  /\ inputs \in [Articles -> Texts]
  /\ kept = [d \in Articles |-> None]
  /\ compile = [d \in Articles |-> NoCompile]
  /\ building = None
  /\ degradations = 0
  /\ bundle = [d \in Articles |-> None]
  /\ revisions = 0

DocumentStep(d) ==
  \/ HashDocument(d)
  \/ ReadDocument(d)
  \/ EmbedDegrades(d)
  \/ FinishDocument(d)
  \/ DocumentFails(d)
  \/ \E t \in Texts \cup {None} : Revise(d, t)

CompileNext ==
  \/ StartBuild
  \/ \E d \in Articles : DocumentStep(d)
  \/ BuildEnds
  \/ BuildFails

CompileSpec == CompileInit /\ [][CompileNext]_compileVars

-----------------------------------------------------------------------------

\* Every variable holds a value of its kind.
CompileTypeOK ==
  /\ inputs \in [Articles -> Texts \cup {None}]
  /\ kept \in [Articles -> {None} \cup [hash : Texts, document : Compiled]]
  /\ compile \in [Articles -> Compile]
  /\ building \in {None} \cup SUBSET Articles
  /\ degradations \in 0..MaxDegradations /\ revisions \in 0..MaxRevisions
  /\ bundle \in [Articles -> Compiled \cup {None}]

\* "Degraded compiles never enter the caches" (docs/agents/cloudflare-worker-
\* architecture.md:112), and the guard "never store output under a hash it may
\* not match" (compile-mdx-artifacts.ts:146-147): a document in the cache is
\* whole and was made of the inputs of its hash, whichever articles are
\* compiled beside it and whatever is edited meanwhile; except that inputs
\* that were changed and changed back during the compilation pass the guard.
KeptDocumentsFit ==
  \A d \in Articles : kept[d] # None =>
    /\ ~kept[d].document.degraded
    /\ kept[d].document.edits < 2 => kept[d].document.from = kept[d].hash
=============================================================================
