-------------------------- MODULE CallsFeedProperties --------------------------
(***************************************************************************)
(* What the episodes and their list must guarantee.                        *)
(***************************************************************************)
EXTENDS CallsFeed

\* Every variable holds a value of its kind, and numbers that were given fit
\* the season.
FeedTypeOK ==
  /\ episode \in [EpisodeIds -> Episode]
  /\ \A i \in Made : episode[i].numbered => episode[i].number \in 1..EpisodesPerSeason
  /\ \A h \in PublishRequests :
       /\ publishing[h].pc \in {"idle", "creating", "publishing", "numbering",
                                "refreshing", "storing", "bumping"}
       /\ publishing[h].season \in Nat /\ publishing[h].crossed \in BOOLEAN
       /\ publishing[h].id \in EpisodeIds \cup {None}
       /\ publishing[h].generation \in FeedGenerations \cup {None}
  /\ feedGeneration.now \in feedGeneration.readable
  /\ feedGeneration.readable \subseteq FeedGenerations
  /\ outages \in 0..MaxOutages

\* "If the season we used is stale (or multiple publishes happen quickly) ... Wrap
\* into the correct season/episode" (transistor.server.ts:284-286): no two
\* episodes get one path, and no season gets more than its number, whatever
\* requests overlap, fail or create an episode twice; except that one created
\* in a season that was over by then, or numbered after another was created
\* in the next season, may get a number that is taken.
NumbersAreDistinct ==
  \A i, j \in Made :
    /\ i # j /\ episode[i].numbered /\ episode[j].numbered
    /\ ~episode[i].crossed /\ ~episode[j].crossed
    => <<episode[i].season, episode[i].number>> # <<episode[j].season, episode[j].number>>

\* The list under a generation has every episode that was list-ready when the
\* generation was opened, by the number it was given, whichever load that
\* began before, with less or with the first number, is stored late.
ListsFitTheirGeneration ==
  \A g \in FeedGenerations : feed[g] # None => openedWith[g] \subseteq feed[g]
=============================================================================
