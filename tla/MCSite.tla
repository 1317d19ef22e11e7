------------------------------- MODULE MCSite -------------------------------
(***************************************************************************)
(* Parts of the site that share no state, in one run: the application      *)
(* cache, accounts, what is remembered of a reader, the recorder, D1       *)
(* with its bookmarks, and the rate limits.  A behaviour is one of a       *)
(* single part; the other variables rest.                                  *)
(***************************************************************************)
EXTENDS AccountsProperties, ReaderRecordsProperties, AppCache,
        CallRecordingProperties, D1Sessions, RateLimits, TLC

VARIABLE part

siteVars == <<part, accountVars, recordVars, cacheVars, recorderVars,
              d1Vars, limitVars>>

Parts == {"cache", "accounts", "records", "recorder", "d1", "limits"}

\* The variables of a part rest.
PartRests(p) ==
  CASE p = "cache"    -> UNCHANGED cacheVars
    [] p = "accounts" -> UNCHANGED accountVars
    [] p = "records"  -> UNCHANGED recordVars
    [] p = "recorder" -> UNCHANGED recorderVars
    [] p = "d1"       -> UNCHANGED d1Vars
    [] p = "limits"   -> UNCHANGED limitVars

SiteInit ==
  /\ part \in Parts
  /\ CacheInit
  /\ AccountsInit
  /\ RecordsInit
  /\ RecordingInit
  /\ D1Init
  /\ LimitsInit
  /\ part # "limits" => limiter = "app"

SiteNext ==
  /\ UNCHANGED part
  /\ \/ part = "cache" /\ CacheNext
     \/ part = "accounts" /\ AccountsNext
     \/ part = "records" /\ RecordsNext
     \/ part = "recorder" /\ RecordingNext
     \/ part = "d1" /\ D1Next
     \/ part = "limits" /\ LimitsNext
  /\ \A p \in Parts \ {part} : PartRests(p)

SiteSpec == SiteInit /\ [][SiteNext]_siteVars

\* Every variable of the part that does not rest holds a value of its kind.
SiteTypeOK ==
  CASE part = "cache"    -> CacheTypeOK
    [] part = "accounts" -> AccountsTypeOK
    [] part = "records"  -> RecordsTypeOK
    [] part = "recorder" -> RecordingTypeOK
    [] part = "d1"       -> D1TypeOK
    [] part = "limits"   -> LimitsTypeOK

\* How much of the accounts is there at a time: a code, an aged session, a passkey
\* or a lag of the replicas.
AccountsAreSmall == part = "accounts" =>
  Cardinality({c \in Codes : verification[c] # None})
    + Cardinality({s \in Sessions : session[s] # None /\ session[s].age # "fresh"})
    + Cardinality({u \in Users : user[u].passkey})
    + (IF \E b \in Browsers : shown[b] # NothingOld THEN 1 ELSE 0) <= 1

\* Isolates that store and edges that keep something are three at a time, and two
\* after a put has failed.
StoresAreFew == part = "cache" =>
  Cardinality({i \in Apps : load[i] # {}}) + Cardinality({i \in Apps : edge[i] # Nothing})
    + slips <= 3

\* After a statement has failed one request is under way at a time.
TabsAreFew == part = "records" =>
  troubles = 0 \/ Cardinality({t \in Tabs : tab[t].pc # "idle"}) <= 1

\* Two statements are under way at a time.
FewStatements ==
  part = "d1" => \A x \in Readers :
    Cardinality({s \in Queries \X Slots : query[x][s[1]].statement[s[2]].pc # "none"}) <= 2

\* Beside a question there are three recordings, requests and accidents in all.
RecorderIsSmall == part = "recorder" =>
  \/ question = None /\ blob \notin Questions /\ speech = [r \in Speeches |-> NoSpeech]
     /\ \A p \in Submissions : submission[p].of \notin Questions
  \/ current + accidents + Cardinality({r \in Speeches : speech[r] # NoSpeech})
       + Cardinality({p \in Submissions : submission[p] # NoSubmission}) <= 3

\* Browsers, tabs, isolates and requests share their names, as sessions, client
\* ids, statements and questions do: fewer permutations to compare.
Alike == Permutations(Browsers) \cup Permutations(Sessions) \cup Permutations(Passwords)
=============================================================================
