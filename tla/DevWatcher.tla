------------------------------- MODULE DevWatcher -------------------------------
(***************************************************************************)
(* The content watcher of local development: it compiles all articles as   *)
(* it starts, taking those whose hash it knows from its last manifest, and *)
(* then recompiles one after another the articles that are written.        *)
(*                                                                         *)
(* The manifest and the index of the hashes are two files, and survive the *)
(* process; a document is its client code and the name of its module.      *)
(***************************************************************************)
EXTENDS Absence, Naturals, Sequences

CONSTANTS
  Entries,      \* the articles
  Folders,      \* those that are a directory with an index file
  Drafts,       \* what an article can say
  MaxSaves,     \* bound on edits
  MaxStops      \* bound on stops of the process, and on compilations that fail

ASSUME WatcherAssumption == Folders \subseteq Entries

VARIABLES
  saved,     \* the articles on the disk
  devManifest,  \* manifest.json: what the code and the module were compiled from
  index,     \* compiled-hashes.json
  watcher,   \* the process
  first,     \* the compilations of its start
  seen,      \* articles that were written, before the watcher tells so
  queue,     \* recompileQueue
  recompile, \* the recompilation of each article
  missed,    \* articles whose last edit the watcher had no chance to serve
  saves, stops

watcherVars ==
  <<saved, devManifest, index, watcher, first, seen, queue, recompile, missed, saves, stops>>

NoFirst == [pc |-> "todo", hash |-> None, document |-> None, fresh |-> FALSE]
NoRecompile == [pc |-> "idle", from |-> None, copy |-> <<>>]
Document(t) == [code |-> t, module |-> t]
Stop == stops < MaxStops /\ stops' = stops + 1
NothingQueued == queue' = <<>> /\ seen' = {} /\ recompile' = [d \in Entries |-> NoRecompile]

-----------------------------------------------------------------------------
(* compileAllDocuments.                                                    *)

StartWatcher ==
  /\ watcher = "off"
  /\ watcher' = "compiling"
  /\ first' = [d \in Entries |-> NoFirst]
  /\ UNCHANGED <<saved, devManifest, index, seen, queue, recompile, missed, saves, stops>>

\* tryReuseDocument: the code of the manifest with the module of the index.
HashAtStart(d) ==
  LET hash == saved[d]
      reusable == index[d] # None /\ index[d].hash = hash /\ devManifest[d] # None
  IN
  /\ watcher = "compiling" /\ first[d].pc = "todo"
  /\ first' = [first EXCEPT ![d] =
       IF reusable
       THEN [pc |-> "done", hash |-> hash, fresh |-> FALSE,
             document |-> [code |-> devManifest[d].code, module |-> index[d].module]]
       ELSE [NoFirst EXCEPT !.pc = "hashed", !.hash = hash, !.fresh = TRUE]]
  /\ UNCHANGED <<saved, devManifest, index, watcher, seen, queue, recompile, missed, saves, stops>>

\* compileDocument.
CompileAtStart(d) ==
  /\ watcher = "compiling" /\ first[d].pc = "hashed"
  /\ first' = [first EXCEPT ![d].pc = "compiled", ![d].document = Document(saved[d])]
  /\ UNCHANGED <<saved, devManifest, index, watcher, seen, queue, recompile, missed, saves, stops>>

\* The inputs have their hash still; otherwise the start fails (StopWatcher).
CheckAtStart(d) ==
  /\ watcher = "compiling" /\ first[d].pc = "compiled" /\ saved[d] = first[d].hash
  /\ first' = [first EXCEPT ![d].pc = "done"]
  /\ UNCHANGED <<saved, devManifest, index, watcher, seen, queue, recompile, missed, saves, stops>>

AllCompiled == watcher = "compiling" /\ \A d \in Entries : first[d].pc = "done"

WriteFirstManifest ==
  /\ AllCompiled
  /\ devManifest' = [d \in Entries |-> first[d].document]
  /\ watcher' = "indexing"
  /\ UNCHANGED <<saved, index, first, seen, queue, recompile, missed, saves, stops>>

WriteFirstIndex ==
  LET Fresh == {d \in Entries : first[d].fresh}
      Late == {d \in Entries : first[d].hash # saved[d]}
      Changed == {d \in Fresh : first[d].document # Document(saved[d])}
  IN
  /\ watcher = "indexing"
  /\ index' = [d \in Entries |-> [hash |-> first[d].hash, module |-> first[d].document.module]]
  /\ watcher' = "opening"
  /\ missed' = (missed \ Fresh) \cup Late \cup Changed
  /\ UNCHANGED <<saved, devManifest, first, seen, queue, recompile, saves, stops>>

\* ignoreInitial: what is there when the watcher opens is no event.
OpenWatcher ==
  /\ watcher = "opening"
  /\ watcher' = "watching"
  /\ UNCHANGED <<saved, devManifest, index, first, seen, queue, recompile, missed, saves, stops>>

-----------------------------------------------------------------------------
(* recompileDocumentKey.                                                   *)

\* awaitWriteFinish: writes in a row are one event.
Notice(d) ==
  /\ d \in seen
  /\ seen' = seen \ {d} /\ queue' = Append(queue, d)
  /\ UNCHANGED <<saved, devManifest, index, watcher, first, recompile, missed, saves, stops>>

\* The promises are chained: one recompilation at a time.
AtOnce(d) == recompile[d].pc = "idle"
MayRecompile(d) == \A e \in Entries : recompile[e].pc = "idle"

\* The key of a directory's file is that of its name: there is no such article.
Recompile(d) ==
  /\ queue # <<>> /\ d = Head(queue) /\ MayRecompile(d)
  /\ queue' = Tail(queue)
  /\ IF d \in Folders
     THEN UNCHANGED recompile
     ELSE recompile' = [recompile EXCEPT ![d] =
            [NoRecompile EXCEPT !.pc = "compiled", !.from = saved[d]]]
  /\ UNCHANGED <<saved, devManifest, index, watcher, first, seen, missed, saves, stops>>

ReadManifest(d) ==
  /\ recompile[d].pc = "compiled"
  /\ recompile' = [recompile EXCEPT ![d].pc = "read", ![d].copy = devManifest]
  /\ UNCHANGED <<saved, devManifest, index, watcher, first, seen, queue, missed, saves, stops>>

\* The lists and the version are built in between.
WriteManifest(d) ==
  /\ recompile[d].pc = "read"
  /\ devManifest' = [recompile[d].copy EXCEPT ![d] = Document(recompile[d].from)]
  /\ recompile' = [recompile EXCEPT ![d].pc = "written"]
  /\ UNCHANGED <<saved, index, watcher, first, seen, queue, missed, saves, stops>>

\* The hash is that of the inputs as they are by now.
WriteIndex(d) ==
  /\ recompile[d].pc = "written"
  /\ index' = [index EXCEPT ![d] = [hash |-> saved[d], module |-> recompile[d].from]]
  /\ recompile' = [recompile EXCEPT ![d] = NoRecompile]
  /\ missed' = missed \ {d}
  /\ UNCHANGED <<saved, devManifest, watcher, first, seen, queue, saves, stops>>

\* The catch of queueRecompile: the error is printed, the queue goes on.
RecompileFails(d) ==
  /\ recompile[d].pc = "compiled" /\ Stop
  /\ recompile' = [recompile EXCEPT ![d] = NoRecompile]
  /\ missed' = missed \cup {d}
  /\ UNCHANGED <<saved, devManifest, index, watcher, first, seen, queue, saves>>

-----------------------------------------------------------------------------

\* A file that was being written may be cut short, and is then read as if it
\* were not there.
CutShort(writing) == IF writing THEN {[d \in Entries |-> None]} ELSE {}

\* The process is stopped, or its start failed.
StopWatcher ==
  LET underWay == {d \in Entries : recompile[d].pc # "idle"}
      waiting == seen \cup {queue[i] : i \in 1..Len(queue)}
      fresh == {d \in Entries : watcher = "indexing" /\ first[d].fresh}
  IN
  /\ watcher # "off" /\ Stop
  /\ watcher' = "off"
  /\ NothingQueued
  /\ missed' = missed \cup underWay \cup waiting \cup fresh
  /\ devManifest' \in {devManifest} \cup
       CutShort(AllCompiled \/ \E d \in Entries : recompile[d].pc = "read")
  /\ index' \in {index} \cup
       CutShort(watcher = "indexing" \/ \E d \in Entries : recompile[d].pc = "written")
  /\ first' = [d \in Entries |-> NoFirst]
  /\ UNCHANGED <<saved, saves>>

\* An article is saved.  The watcher sees it if it watches already.
Save(d, t) ==
  /\ t # saved[d] /\ saves < MaxSaves /\ saves' = saves + 1
  /\ saved' = [saved EXCEPT ![d] = t]
  /\ IF watcher = "watching"
     THEN seen' = seen \cup {d} /\ missed' = missed \ {d}
     ELSE /\ UNCHANGED seen
          /\ missed' = IF watcher = "opening" THEN missed \cup {d} ELSE missed
  /\ UNCHANGED <<devManifest, index, watcher, first, queue, recompile, stops>>

WatcherInit ==
  /\ saved \in [Entries -> Drafts]
  /\ devManifest = [d \in Entries |-> None]
  /\ index = [d \in Entries |-> None]
  /\ watcher = "off"
  /\ first = [d \in Entries |-> NoFirst]
  /\ seen = {} /\ queue = <<>>
  /\ recompile = [d \in Entries |-> NoRecompile]
  /\ missed = {}
  /\ saves = 0 /\ stops = 0

EntryStep(d) ==
  \/ HashAtStart(d)
  \/ CompileAtStart(d)
  \/ CheckAtStart(d)
  \/ Notice(d)
  \/ Recompile(d)
  \/ ReadManifest(d)
  \/ WriteManifest(d)
  \/ WriteIndex(d)
  \/ RecompileFails(d)
  \/ \E t \in Drafts : Save(d, t)

WatcherNext ==
  \/ StartWatcher
  \/ \E d \in Entries : EntryStep(d)
  \/ WriteFirstManifest
  \/ WriteFirstIndex
  \/ OpenWatcher
  \/ StopWatcher

WatcherSpec == WatcherInit /\ [][WatcherNext]_watcherVars

-----------------------------------------------------------------------------

\* Every variable holds a value of its kind.
WatcherTypeOK ==
  /\ saved \in [Entries -> Drafts]
  /\ devManifest \in [Entries -> {None} \cup [code : Drafts, module : Drafts]]
  /\ index \in [Entries -> {None} \cup [hash : Drafts, module : Drafts]]
  /\ watcher \in {"off", "compiling", "indexing", "opening", "watching"}
  /\ seen \subseteq Entries /\ missed \subseteq Entries
  /\ queue \in Seq(Entries)

\* The watcher "compiles all local MDX on startup (cached ...), watches content/
\* for changes" (docs/agents/cloudflare-worker-architecture.md:566-567): when it
\* has nothing left to do, the manifest has every article as it is on the disk,
\* code and module, through any stops and starts; except an article that is a
\* directory, and one whose last edit came between its first compilation and
\* the opening of the watcher, whose recompilation failed, or was cut off.
DevServesEdits ==
  watcher = "watching" /\ seen = {} /\ queue = <<>>
  /\ (\A d \in Entries : recompile[d].pc = "idle")
  => \A d \in Entries \ (Folders \cup missed) : devManifest[d] = Document(saved[d])
=============================================================================
