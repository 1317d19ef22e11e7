----------------------------- MODULE D1Sessions -----------------------------
(***************************************************************************)
(* D1 with its read replicas, as the requests of the site use it.  A       *)
(* request keeps one bookmark.  Every statement carries the bookmark of    *)
(* the moment to the parent worker, which opens a session with it, and the *)
(* bookmark that comes back replaces the one of the request.  The last one *)
(* travels in a cookie to the next request of the browser.                 *)
(*                                                                         *)
(* A bookmark is a number of commits.  A replica may answer a read if it   *)
(* has the commits of the bookmark; each read may find another replica.    *)
(* Loaders run side by side, and so do requests.                           *)
(***************************************************************************)
EXTENDS Naturals

CONSTANTS
  Readers,      \* browsers
  Queries,      \* requests that may be under way at a time
  Slots,        \* statements that a request may have under way at a time
  MaxCommits    \* bound on commits

ASSUME CommitsAssumption == MaxCommits \in Nat

VARIABLES
  commits,         \* how many commits the primary has
  bookmarkCookie,  \* kcd_d1_bookmark of each browser, 0 when there is none
  owed,            \* the last commit of its own that a browser has to see
  query            \* the requests

d1Vars == <<commits, bookmarkCookie, owed, query>>

Bookmarks == 0..MaxCommits

\* `must': what the statement has to see.
Statement == [pc : {"none", "read", "write", "served"}, carried : Bookmarks,
              result : Bookmarks, wrote : BOOLEAN, must : Bookmarks]
NoStatement ==
  [pc |-> "none", carried |-> 0, result |-> 0, wrote |-> FALSE, must |-> 0]

\* `inbound' and `bookmark' are the D1RequestStore; 0 is "first-unconstrained".
\* `sees': what its statements have to see.  `alone': no other request of its
\* browser has been under way beside it.
QueryRecord == [pc : {"idle", "running", "answered"}, inbound : Bookmarks,
                bookmark : Bookmarks, sees : Bookmarks, alone : BOOLEAN,
                statement : [Slots -> Statement]]

NoQuery == [pc |-> "idle", inbound |-> 0, bookmark |-> 0, sees |-> 0,
            alone |-> TRUE, statement |-> [i \in Slots |-> NoStatement]]

Later(m, n) == IF m < n THEN n ELSE m

\* The requests that each browser has under way.
UnderwayOf(x) == {q \in Queries : query[x][q].pc # "idle"}

\* runWithD1RequestContext: the bookmark of the cookie, if there is one.
ArriveQuery(x, q) ==
  /\ query[x][q].pc = "idle"
  /\ query' = [query EXCEPT ![x] = [r \in Queries |->
       IF r = q
       THEN [NoQuery EXCEPT !.pc = "running", !.inbound = bookmarkCookie[x],
               !.bookmark = bookmarkCookie[x], !.sees = owed[x],
               !.alone = (UnderwayOf(x) = {})]
       ELSE IF r \in UnderwayOf(x) THEN [query[x][r] EXCEPT !.alone = FALSE]
       ELSE query[x][r]]]
  /\ UNCHANGED <<commits, bookmarkCookie, owed>>

\* getRequestD1Bookmark, at the moment of the statement.
InboundOnly(x, q) == query[x][q].inbound
Carried(x, q) == query[x][q].bookmark

SendStatement(x, q, i, kind) ==
  /\ query[x][q].pc = "running"
  /\ query[x][q].statement[i].pc = "none"
  /\ query' = [query EXCEPT ![x][q].statement[i] =
       [NoStatement EXCEPT !.pc = kind, !.carried = Carried(x, q),
                           !.must = query[x][q].sees]]
  /\ UNCHANGED <<commits, bookmarkCookie, owed>>

\* sessionQuery: any database that has the commits of the bookmark.
Read(x, q, i) ==
  /\ query[x][q].statement[i].pc = "read"
  /\ \E v \in query[x][q].statement[i].carried..commits :
       query' = [query EXCEPT ![x][q].statement[i] =
                   [@ EXCEPT !.pc = "served", !.result = v]]
  /\ UNCHANGED <<commits, bookmarkCookie, owed>>

\* sessionRun and sessionBatch: the primary.
Write(x, q, i) ==
  /\ query[x][q].statement[i].pc = "write"
  /\ commits < MaxCommits
  /\ commits' = commits + 1
  /\ query' = [query EXCEPT ![x][q].statement[i] =
                  [@ EXCEPT !.pc = "served", !.result = commits + 1, !.wrote = TRUE]]
  /\ UNCHANGED <<bookmarkCookie, owed>>

\* What a request wrote has to be seen by its later statements, unless one that
\* was sent before may still come back.
SeesAfter(x, q, i) ==
  LET s == query[x][q].statement[i] IN
  IF s.wrote /\ \A j \in Slots \ {i} : query[x][q].statement[j].pc = "none"
  THEN s.result
  ELSE query[x][q].sees

\* setRequestD1Bookmark: whatever comes back last stays.
ReturnStatement(x, q, i) ==
  LET s == query[x][q].statement[i] IN
  /\ s.pc = "served"
  /\ query' = [query EXCEPT ![x][q] =
       [@ EXCEPT !.bookmark = s.result,
                 !.sees = SeesAfter(x, q, i),
                 !.statement[i] = NoStatement]]
  /\ UNCHANGED <<commits, bookmarkCookie, owed>>

\* getOutboundD1Bookmark, when the response is made.  Statements that are still
\* under way go on in the background.
AnswerQuery(x, q) ==
  /\ query[x][q].pc = "running"
  /\ query' = [query EXCEPT ![x][q].pc = "answered"]
  /\ UNCHANGED <<commits, bookmarkCookie, owed>>

\* The browser gets the response, with a cookie if the bookmark is another; or
\* it does not, as when the handler throws.  What a request wrote has to be seen
\* by those that follow, if it was alone.
ReceiveAnswer(x, q) ==
  LET r == query[x][q] IN
  /\ r.pc = "answered"
  /\ query' = [query EXCEPT ![x][q] = NoQuery]
  /\ \/ /\ bookmarkCookie' = IF r.bookmark \notin {0, r.inbound}
                             THEN [bookmarkCookie EXCEPT ![x] = r.bookmark]
                             ELSE bookmarkCookie
        /\ owed' = IF r.alone THEN [owed EXCEPT ![x] = Later(@, r.sees)] ELSE owed
     \/ UNCHANGED <<bookmarkCookie, owed>>
  /\ UNCHANGED commits

\* Max-Age: after ten minutes without a cookie the replicas have caught up.
ForgetBookmark(x) ==
  /\ bookmarkCookie[x] # 0
  /\ UnderwayOf(x) = {}
  /\ bookmarkCookie' = [bookmarkCookie EXCEPT ![x] = 0]
  /\ owed' = [owed EXCEPT ![x] = 0]
  /\ UNCHANGED <<commits, query>>

D1Init ==
  /\ commits = 0
  /\ bookmarkCookie = [x \in Readers |-> 0]
  /\ owed = [x \in Readers |-> 0]
  /\ query = [x \in Readers |-> [q \in Queries |-> NoQuery]]

D1Next ==
  \E x \in Readers :
    \/ \E q \in Queries :
         \/ ArriveQuery(x, q)
         \/ AnswerQuery(x, q)
         \/ ReceiveAnswer(x, q)
         \/ \E i \in Slots :
              \/ \E kind \in {"read", "write"} : SendStatement(x, q, i, kind)
              \/ Read(x, q, i)
              \/ Write(x, q, i)
              \/ ReturnStatement(x, q, i)
    \/ ForgetBookmark(x)

D1Spec == D1Init /\ [][D1Next]_d1Vars

-----------------------------------------------------------------------------

\* Every variable holds a value of its kind.
D1TypeOK ==
  /\ commits \in 0..MaxCommits
  /\ bookmarkCookie \in [Readers -> Bookmarks]
  /\ owed \in [Readers -> Bookmarks]
  /\ query \in [Readers -> [Queries -> QueryRecord]]

\* "reads can use regional replicas while preserving read-your-writes"
\* (cloudflare-worker-architecture.md:241): a statement sees what its request
\* wrote before and what earlier requests of the browser wrote, but for a write
\* that returned while another statement was under way, and for requests that
\* overlapped: there the older bookmark may come last.
ReadsOwnWrites ==
  \A x \in Readers, q \in Queries, i \in Slots :
    LET s == query[x][q].statement[i] IN s.pc = "served" => s.result >= s.must
=============================================================================
