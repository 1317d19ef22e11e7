------------------------------- MODULE MCContent -------------------------------
(***************************************************************************)
(* Six parts that share no state, in one run: content and its artifacts,   *)
(* deployments, the indexing jobs, the synchronisation of the search, the  *)
(* compilation of articles and the watcher of local development.           *)
(* A behaviour is one of a single part; the other variables rest.          *)
(***************************************************************************)
EXTENDS MdxArtifactsProperties, DeploymentsProperties, SearchIndexingProperties,
        SearchSyncProperties, ArtifactCompile, DevWatcher

VARIABLE part

contentVars ==
  <<part, artifactVars, deploymentVars, indexVars, syncVars, compileVars, watcherVars>>

\* A part that rests does so in one state.  Articles begin with the same text: no text
\* is compared with that of another article, so their names can be exchanged.
Rests(p, fixed) == part = p \/ fixed

MCInit ==
  /\ part \in {"artifacts", "deployments", "indexing", "sync", "compile", "dev"}
  /\ ArtifactsInit
  /\ Rests("artifacts", r2[FirstVersion].build = CHOOSE b \in Builds : TRUE)
  /\ DeploymentsInit
  /\ Rests("deployments", main[1] = CHOOSE commit \in Commit : TRUE)
  /\ IndexingInit
  /\ Rests("indexing", source = CHOOSE s \in Sources : TRUE)
  /\ SearchSyncInit
  /\ CompileInit
  /\ inputs = [d \in Articles |-> CHOOSE t \in Texts : TRUE]
  /\ WatcherInit
  /\ saved = [d \in Entries |-> CHOOSE t \in Drafts : TRUE]

MCNext ==
  /\ UNCHANGED part
  /\ \/ /\ part = "artifacts" /\ ArtifactsNext
        /\ UNCHANGED <<deploymentVars, indexVars, syncVars, compileVars, watcherVars>>
     \/ /\ part = "deployments" /\ DeploymentsNext
        /\ UNCHANGED <<artifactVars, indexVars, syncVars, compileVars, watcherVars>>
     \/ /\ part = "indexing" /\ IndexingNext
        /\ UNCHANGED <<artifactVars, deploymentVars, syncVars, compileVars, watcherVars>>
     \/ /\ part = "sync" /\ SearchSyncNext
        /\ UNCHANGED <<artifactVars, deploymentVars, indexVars, compileVars, watcherVars>>
     \/ /\ part = "compile" /\ CompileNext
        /\ UNCHANGED <<artifactVars, deploymentVars, indexVars, syncVars, watcherVars>>
     \/ /\ part = "dev" /\ WatcherNext
        /\ UNCHANGED <<artifactVars, deploymentVars, indexVars, syncVars, compileVars>>

MCSpec == MCInit /\ [][MCNext]_contentVars /\ ArtifactsFairness

\* Every variable of the part that does not rest holds a value of its kind.
ContentTypeOK ==
  /\ part = "artifacts" => ArtifactsTypeOK
  /\ part = "deployments" => DeploymentsTypeOK
  /\ part = "indexing" => IndexingTypeOK
  /\ part = "sync" => SearchSyncTypeOK
  /\ part = "compile" => CompileTypeOK
  /\ part = "dev" => WatcherTypeOK

\* What is compiled fits what it was compiled from: the documents that a build
\* keeps, and those that local development shows.
CompiledFitsItsText == KeptDocumentsFit /\ DevServesEdits
=============================================================================
