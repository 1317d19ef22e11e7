------------------------------- MODULE MCCaches -------------------------------
(***************************************************************************)
(* Three caches that share no state, in one run: a page, whose generation  *)
(* is bumped by whoever publishes content; the list of episodes, whose     *)
(* generation is bumped when an episode is published; and media at the     *)
(* edge.  A behaviour is one of a single part; the others rest.            *)
(***************************************************************************)
EXTENDS MCPageCache, CallsFeedProperties, MediaServing

VARIABLE part

PartsInit ==
  /\ part \in {"pages", "episodes", "media"}
  /\ Init
  /\ FeedInit
  /\ MediaInit
  /\ part # "episodes" => Made = {}

PartsNext ==
  /\ UNCHANGED part
  /\ \/ part = "pages" /\ Next /\ UNCHANGED <<feedVars, mediaVars>>
     \/ part = "episodes" /\ FeedNext /\ UNCHANGED <<vars, mediaVars>>
     \/ part = "media" /\ MediaNext /\ UNCHANGED <<vars, feedVars>>

PartsSpec == PartsInit /\ [][PartsNext]_<<part, vars, feedVars, mediaVars>>

\* Every variable of the part that does not rest holds a value of its kind.
CachesTypeOK ==
  CASE part = "pages"    -> TypeOK
    [] part = "episodes" -> FeedTypeOK
    [] part = "media"    -> MediaTypeOK

\* How much is there at a time: the list is renewed beside a third episode, a
\* fourth is created and numbered while no list is kept.
FeedIsSmall ==
  /\ Cardinality({h \in PublishRequests : publishing[h].pc # "idle"})
       + Cardinality({r \in Listeners : loading[r] # None}) + outages <= 2
  /\ \/ Cardinality(Made) <= 3
     \/ /\ feedGeneration.now = 1 /\ \A g \in FeedGenerations : feed[g] = None
        /\ \A r \in Listeners : loading[r] = None

\* There is one object, and the edge keeps one answer; only videos are longer than
\* a unit, only originals are asked for by ranges, and heads of what is negotiated.
MediaIsSmall == part = "media" =>
  /\ Cardinality({k \in CacheKeys : mediaEdge[k] # None}) <= 1
  /\ Cardinality({k \in Candidates : bucket[k] # None}) <= 1
  /\ \A k \in Candidates : bucket[k] # None =>
       /\ bucket[k].kind = "video" \/ bucket[k].size = 1
       /\ bucket[k].kind = "svg" => bucket[k].typed
  /\ \A f \in Fetches : fetch[f].request # None =>
       LET asked == fetch[f].request IN
       /\ asked.range # None => asked.transform = "original"
       /\ asked.transform # "auto" => asked.accept = "base" /\ asked.method = "GET"
=============================================================================
