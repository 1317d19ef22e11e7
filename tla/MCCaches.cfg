SPECIFICATION PartsSpec
CONSTANTS
  Isolates = {i1}
  Requests = {r1}
  Publishers = {p1}
  MaxVersion = 1
  MaxGeneration = 2
  MaxFaults = 1
  None = None
  PublishRequests = {h1, h2}
  Listeners = {l1}
  EpisodesPerSeason = 2
  MaxEpisodes = 4
  MaxBumps = 3
  MaxOutages = 1
  Fetches = {f1}
  MaxSize = 2
  MaxUploads = 2
CONSTRAINT OnePage FeedIsSmall MediaIsSmall
INVARIANT CachesTypeOK SharedPagesAreNobodys PagesFitTheirGeneration
INVARIANT NumbersAreDistinct ListsFitTheirGeneration MediaFitsTheRequest
CHECK_DEADLOCK FALSE
