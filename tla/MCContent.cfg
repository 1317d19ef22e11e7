SPECIFICATION MCSpec
CONSTANTS
  None = None
  Versions = {v1, v2, v3}
  FirstVersion = v1
  Listed = {v1, v2}
  Builds = {b1}
  Parents = {p1}
  Readers = {r1}
  Publications = {w1}
  MaxPublished = 1
  MaxBroken = 1
  Contents = {a, b}
  Codes = {x, y}
  MaxCommits = 3
  MaxTroubles = 1
  Sources = {"repo", "podcasts", "youtube"}
  Docs = {d1, d2}
  Bodies = {short, long}
  LongBodies = {long}
  Bare = short
  MaxEdits = 3
  MaxMishaps = 1
  Syncs = {s1, s2}
  Searchers = {q1}
  MaxChunks = 2
  MaxArtifacts = 2
  MaxSyncs = 2
  MaxLosses = 1
  Articles = {e1, e2}
  Texts = {t1, t2}
  MaxRevisions = 2
  MaxDegradations = 1
  Entries = {e1, e2, e3}
  Folders = {e3}
  Drafts = {t1, t2}
  MaxSaves = 2
  MaxStops = 2
INVARIANT ContentTypeOK
INVARIANT DocumentsAreServed CachesDoNotMix
INVARIANT DeploymentsTellWhatIsLive LiveFollowsMain
INVARIANT StoresAgree
INVARIANT SyncsTakeEffect AnswersAreOfLastSync
INVARIANT CompiledFitsItsText
PROPERTY PublishedInTheEnd FullRunsShowContent PublishedStaysFound
CHECK_DEADLOCK FALSE
