------------------------------- MODULE CallsFeed -------------------------------
(***************************************************************************)
(* The episodes of "Call Kent": the requests that create, publish and      *)
(* number an episode on Transistor, and the list of episodes that the site *)
(* keeps under a generation and renews after each publication.             *)
(*                                                                         *)
(* A request reads the season long before it creates its episode (the      *)
(* audio is uploaded in between) and gives it its number some calls later. *)
(* Transistor lists an episode once it has processed the audio.            *)
(***************************************************************************)
EXTENDS Absence, Naturals, FiniteSets, FiniteSetsExt

CONSTANTS
  PublishRequests,         \* publish requests
  Listeners,          \* requests that load the list
  EpisodesPerSeason,  \* episodesPerSeason
  MaxEpisodes,        \* bound on episodes that are created
  MaxBumps,           \* bound on generations that are opened
  MaxOutages          \* bound on calls that fail or whose answers are lost

ASSUME FeedAssumption ==
  /\ EpisodesPerSeason \in Nat \ {0} /\ MaxBumps \in Nat \ {0}
  /\ MaxEpisodes \in Nat /\ MaxOutages \in Nat

VARIABLES
  episode,         \* what Transistor has, by id
  publishing,      \* the publish requests
  feedGeneration,  \* its generation in KV, and those that may still be read
  openedWith,      \* what the opener of each generation had found in the list
  feed,            \* the list that is cached under each generation
  loading,         \* the loads of other requests
  outages

feedVars == <<episode, publishing, feedGeneration, openedWith, feed, loading, outages>>

EpisodeIds == 1..MaxEpisodes
FeedGenerations == 1..MaxBumps

\* `processed': audio_processing is over.  `numbered': its request has given it
\* its number.  `crossed': in a season that was over (see PostEpisode).
Episode == [made : BOOLEAN, published : BOOLEAN, processed : BOOLEAN,
            numbered : BOOLEAN, crossed : BOOLEAN, season : Nat, number : Nat]
NoEpisode == [made |-> FALSE, published |-> FALSE, processed |-> FALSE,
              numbered |-> FALSE, crossed |-> FALSE, season |-> 0, number |-> 0]

\* An entry of the list, with the number that it is given or the one before.
FeedEntry(i) == [id |-> i, numbered |-> episode[i].numbered]

Publishing ==
  [pc : {"idle", "creating", "publishing", "numbering", "refreshing", "storing", "bumping"},
   season : Nat, id : EpisodeIds \cup {None}, crossed : BOOLEAN,
   generation : FeedGenerations \cup {None},
   list : SUBSET [id : EpisodeIds, numbered : BOOLEAN]]
NotPublishing == [pc |-> "idle", season |-> 0, id |-> None, crossed |-> FALSE,
                  generation |-> None, list |-> {}]

Made == {i \in EpisodeIds : episode[i].made}
Outage == outages < MaxOutages /\ outages' = outages + 1

\* getEpisodes: what is published and processed.
ListedEpisodes ==
  {FeedEntry(i) : i \in {j \in Made : episode[j].published /\ episode[j].processed}}

-----------------------------------------------------------------------------
(* createEpisode.                                                          *)

\* getCurrentSeason looks at every episode, published or not.
CurrentSeason == Max({1} \cup {episode[i].season : i \in Made})

\* The upload is authorised, the season read and the audio uploaded.
BeginPublishing(h) ==
  /\ publishing[h].pc = "idle"
  /\ publishing' = [publishing EXCEPT ![h] =
       [NotPublishing EXCEPT !.pc = "creating", !.season = CurrentSeason]]
  /\ UNCHANGED <<episode, feedGeneration, openedWith, feed, loading, outages>>

\* increment_number: Transistor gives the next number of the season.
NextNumber(s) ==
  1 + Max({0} \cup {episode[i].number : i \in {j \in Made : episode[j].season = s}})

\* A POST whose answer is lost is repeated by fetchTransitor, and leaves an
\* episode that no request goes on with.  A request is crossed if its season is
\* over by now, or if another adds to a later season before it gives its number.
PostEpisode(h) ==
  LET s == publishing[h].season
      i == 1 + Cardinality(Made)
      Passed(k) == publishing[k].pc \in {"publishing", "numbering"}
                   /\ publishing[k].season < s
  IN
  /\ publishing[h].pc = "creating" /\ i \in EpisodeIds
  /\ episode' = [episode EXCEPT ![i] =
       [NoEpisode EXCEPT !.made = TRUE, !.season = s, !.number = NextNumber(s)]]
  /\ \/ /\ publishing' = [k \in PublishRequests |->
            IF k = h
            THEN [publishing[k] EXCEPT !.pc = "publishing", !.id = i,
                                       !.crossed = s < CurrentSeason]
            ELSE [publishing[k] EXCEPT !.crossed = @ \/ Passed(k)]]
        /\ UNCHANGED outages
     \/ Outage /\ UNCHANGED publishing
  /\ UNCHANGED <<feedGeneration, openedWith, feed, loading>>

PublishEpisode(h) ==
  /\ publishing[h].pc = "publishing"
  /\ episode' = [episode EXCEPT ![publishing[h].id].published = TRUE]
  /\ publishing' = [publishing EXCEPT ![h].pc = "numbering"]
  /\ UNCHANGED <<feedGeneration, openedWith, feed, loading, outages>>

\* A number beyond the season is wrapped into the seasons after it.
NumberFromZero(n) == n % EpisodesPerSeason
OneBeyond(n) == IF n > EpisodesPerSeason THEN 1 ELSE n
SeasonOf(season, n) == season + ((n - 1) \div EpisodesPerSeason)
NumberOf(n) == 1 + ((n - 1) % EpisodesPerSeason)

\* The update with the season and the number.
NumberEpisode(h) ==
  LET i == publishing[h].id  n == episode[i].number IN
  /\ publishing[h].pc = "numbering"
  /\ episode' = [episode EXCEPT ![i] =
       [@ EXCEPT !.season = SeasonOf(publishing[h].season, n), !.number = NumberOf(n),
                 !.numbered = TRUE, !.crossed = publishing[h].crossed]]
  /\ publishing' = [publishing EXCEPT ![h] =
       [NotPublishing EXCEPT !.pc = "refreshing", !.id = i]]
  /\ UNCHANGED <<feedGeneration, openedWith, feed, loading, outages>>

\* A call fails for good, or the request is lost: the catch of publishCall
\* redirects with the error.  A refresh or bump that fails only ends.
PublishingFails(h) ==
  /\ publishing[h].pc # "idle"
  /\ Outage
  /\ publishing' = [publishing EXCEPT ![h] = NotPublishing]
  /\ UNCHANGED <<episode, feedGeneration, openedWith, feed, loading>>

\* Transistor has processed the audio, which matters once it is published.
AudioProcessed(i) ==
  /\ episode[i].published /\ ~episode[i].processed
  /\ episode' = [episode EXCEPT ![i].processed = TRUE]
  /\ UNCHANGED <<publishing, feedGeneration, openedWith, feed, loading, outages>>

-----------------------------------------------------------------------------
(* The list of episodes.                                                   *)

\* getEpisodes with forceFresh, under the generation that can be read.
RefreshLoads(h) ==
  /\ publishing[h].pc = "refreshing"
  /\ \E g \in feedGeneration.readable :
       publishing' = [publishing EXCEPT ![h].pc = "storing", ![h].generation = g,
                                        ![h].list = ListedEpisodes]
  /\ UNCHANGED <<episode, feedGeneration, openedWith, feed, loading, outages>>

\* episodes.some: the episode is in the list, with whatever number.
TakesItForReady(h) == TRUE
IsListReady(h) == \E e \in publishing[h].list : e.id = publishing[h].id

RefreshStores(h) ==
  /\ publishing[h].pc = "storing"
  /\ feed' = [feed EXCEPT ![publishing[h].generation] = publishing[h].list]
  /\ publishing' = [publishing EXCEPT ![h] =
       [NotPublishing EXCEPT !.pc = IF IsListReady(h) THEN "bumping" ELSE "refreshing",
                             !.id = publishing[h].id]]
  /\ UNCHANGED <<episode, feedGeneration, openedWith, loading, outages>>

\* Fifteen attempts were not enough: the list is deleted, the generation stays.
GiveUpRefreshing(h) ==
  /\ publishing[h].pc = "refreshing"
  /\ \E g \in feedGeneration.readable : feed' = [feed EXCEPT ![g] = None]
  /\ publishing' = [publishing EXCEPT ![h] = NotPublishing]
  /\ UNCHANGED <<episode, feedGeneration, openedWith, loading, outages>>

\* bumpEpisodesCacheGeneration: a key of its own for the lists from now on.
BumpFeedGeneration(h) ==
  LET g == feedGeneration.now + 1 IN
  /\ publishing[h].pc = "bumping" /\ g \in FeedGenerations
  /\ feedGeneration' = [now |-> g, readable |-> feedGeneration.readable \cup {g}]
  /\ openedWith' = [openedWith EXCEPT ![g] =
       openedWith[feedGeneration.now] \cup {FeedEntry(publishing[h].id)}]
  /\ publishing' = [publishing EXCEPT ![h] = NotPublishing]
  /\ UNCHANGED <<episode, feed, loading, outages>>

\* The older values of the generation run out at the edges.
FeedGenerationPropagates ==
  /\ feedGeneration.readable # {feedGeneration.now}
  /\ feedGeneration' = [feedGeneration EXCEPT !.readable = {feedGeneration.now}]
  /\ UNCHANGED <<episode, publishing, openedWith, feed, loading, outages>>

\* A request that finds no list, or a stale one, or is told to load afresh...
LoadFeed(r) ==
  /\ loading[r] = None
  /\ \E g \in feedGeneration.readable :
       loading' = [loading EXCEPT ![r] = [generation |-> g, list |-> ListedEpisodes]]
  /\ UNCHANGED <<episode, publishing, feedGeneration, openedWith, feed, outages>>

\* ... keeps what it has loaded.
StoreFeed(r) ==
  /\ loading[r] # None
  /\ feed' = [feed EXCEPT ![loading[r].generation] = loading[r].list]
  /\ loading' = [loading EXCEPT ![r] = None]
  /\ UNCHANGED <<episode, publishing, feedGeneration, openedWith, outages>>

-----------------------------------------------------------------------------

\* Some episodes of the first season are there.
FeedInit ==
  /\ \E n \in 0..EpisodesPerSeason :
       episode = [i \in EpisodeIds |->
         IF i > n THEN NoEpisode
         ELSE [made |-> TRUE, published |-> TRUE, processed |-> TRUE,
               numbered |-> TRUE, crossed |-> FALSE, season |-> 1, number |-> i]]
  /\ publishing = [h \in PublishRequests |-> NotPublishing]
  /\ feedGeneration = [now |-> 1, readable |-> {1}]
  /\ openedWith = [g \in FeedGenerations |-> {}]
  /\ feed = [g \in FeedGenerations |-> None]
  /\ loading = [r \in Listeners |-> None]
  /\ outages = 0

PublisherStep(h) ==
  \/ BeginPublishing(h)
  \/ PostEpisode(h)
  \/ PublishEpisode(h)
  \/ NumberEpisode(h)
  \/ PublishingFails(h)
  \/ RefreshLoads(h)
  \/ RefreshStores(h)
  \/ GiveUpRefreshing(h)
  \/ BumpFeedGeneration(h)

FeedNext ==
  \/ \E h \in PublishRequests : PublisherStep(h)
  \/ \E i \in EpisodeIds : AudioProcessed(i)
  \/ FeedGenerationPropagates
  \/ \E r \in Listeners : LoadFeed(r) \/ StoreFeed(r)

FeedSpec == FeedInit /\ [][FeedNext]_feedVars
=============================================================================
