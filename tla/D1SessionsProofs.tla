-------------------------- MODULE D1SessionsProofs --------------------------
(***************************************************************************)
(* Bookmarks, for any browsers, requests and statements: a statement sees  *)
(* what it has to see.                                                     *)
(***************************************************************************)
EXTENDS D1Sessions, TLAPS

-----------------------------------------------------------------------------
(* The inductive invariant.                                                *)

Active(r) == r.pc # "idle"

\* What a request has to see it carries, and so do its statements, none of which
\* was sent before the write that raised it came back.
StatementFits(s, sees, n) ==
  s.pc # "none" =>
    /\ s.must = sees
    /\ sees <= s.carried /\ s.carried <= n
    /\ s.pc = "served" => sees <= s.result /\ s.result <= n

QueryFits(r) ==
  /\ r.sees <= r.bookmark /\ r.bookmark <= commits
  /\ \A i \in Slots : StatementFits(r.statement[i], r.sees, commits)
  /\ ~Active(r) => r = NoQuery

\* A browser has to see no more than its cookie says, nor than any request of it
\* knows; a request that is alone still has the cookie that it came with.
BrowserFits(x) ==
  /\ owed[x] <= bookmarkCookie[x] /\ bookmarkCookie[x] <= commits
  /\ \A q \in Queries : Active(query[x][q]) =>
       /\ owed[x] <= query[x][q].sees
       /\ query[x][q].alone =>
            /\ query[x][q].inbound = bookmarkCookie[x]
            /\ UnderwayOf(x) = {q}

D1Inv ==
  /\ D1TypeOK
  /\ \A x \in Readers, q \in Queries : QueryFits(query[x][q])
  /\ \A x \in Readers : BrowserFits(x)

-----------------------------------------------------------------------------

\* What the invariant says of one request and of one statement.
LEMMA Known ==
  ASSUME D1Inv, NEW x \in Readers, NEW q \in Queries
  PROVE  /\ query \in [Readers -> [Queries -> QueryRecord]] /\ query[x][q] \in QueryRecord
         /\ bookmarkCookie[x] \in Bookmarks /\ owed[x] \in Bookmarks
         /\ QueryFits(query[x][q]) /\ BrowserFits(x)
         /\ commits \in Nat /\ MaxCommits \in Nat /\ commits <= MaxCommits
<1>1. MaxCommits \in Nat
  BY CommitsAssumption
<1>2. query \in [Readers -> [Queries -> QueryRecord]] /\ commits \in 0..MaxCommits
      /\ bookmarkCookie \in [Readers -> Bookmarks] /\ owed \in [Readers -> Bookmarks]
  BY DEF D1Inv, D1TypeOK
<1>3. QueryFits(query[x][q]) /\ BrowserFits(x)
  BY DEF D1Inv
<1> QED
  BY <1>1, <1>2, <1>3

LEMMA NoQueryFits ==
  /\ NoQuery \in QueryRecord
  /\ commits \in Nat => QueryFits(NoQuery)
BY CommitsAssumption DEF NoQuery, QueryRecord, NoStatement, Statement, Bookmarks, QueryFits,
   StatementFits, Active

\* One request of one browser becomes r; the commits and the cookies stay.
LEMMA QueryMoves ==
  ASSUME D1Inv, NEW x \in Readers, NEW q \in Queries, NEW r \in QueryRecord,
         query' = [query EXCEPT ![x][q] = r],
         UNCHANGED <<bookmarkCookie, owed>>, commits' \in {commits, commits + 1},
         commits' \in 0..MaxCommits,
         r.sees <= r.bookmark, r.bookmark <= commits',
         \A i \in Slots : StatementFits(r.statement[i], r.sees, commits'),
         Active(r), Active(query[x][q]), r.inbound = query[x][q].inbound,
         r.alone = query[x][q].alone, query[x][q].sees <= r.sees
  PROVE  D1Inv'
<1>1. /\ query \in [Readers -> [Queries -> QueryRecord]]
      /\ commits \in Nat /\ commits' \in Nat /\ commits <= commits'
  BY CommitsAssumption DEF D1Inv, D1TypeOK
<1>2. /\ query'[x][q] = r
      /\ \A y \in Readers, p \in Queries :
           y # x \/ p # q => query'[y][p] = query[y][p]
  BY <1>1
<1>3. D1TypeOK'
  BY <1>1 DEF D1Inv, D1TypeOK
<1>4. ASSUME NEW y \in Readers, NEW p \in Queries PROVE QueryFits(query[y][p])'
  <2>1. CASE y = x /\ p = q
    BY <1>2, <2>1 DEF QueryFits, Active
  <2>2. CASE y # x \/ p # q
    <3>1. query'[y][p] = query[y][p] /\ QueryFits(query[y][p]) /\ query[y][p] \in QueryRecord
      BY <1>1, <1>2, <2>2 DEF D1Inv
    <3>2. \A i \in Slots : StatementFits(query[y][p].statement[i], query[y][p].sees, commits')
      BY <1>1, <3>1 DEF QueryFits, StatementFits, QueryRecord, Statement, Bookmarks
    <3> QED
      BY <1>1, <3>1, <3>2 DEF QueryFits, QueryRecord, Bookmarks, Active
  <2> QED
    BY <2>1, <2>2
<1>5. ASSUME NEW y \in Readers PROVE BrowserFits(y)'
  <2>1. UnderwayOf(y)' = UnderwayOf(y)
    BY <1>2 DEF UnderwayOf, Active
  <2>2. BrowserFits(y)
    BY DEF D1Inv
  <2>3. \A p \in Queries : Active(query[y][p])' =>
          /\ owed[y] <= query'[y][p].sees
          /\ query'[y][p].alone => /\ query'[y][p].inbound = bookmarkCookie[y]
                                   /\ UnderwayOf(y) = {p}
    <3> SUFFICES ASSUME NEW p \in Queries, Active(query[y][p])'
                 PROVE  /\ owed[y] <= query'[y][p].sees
                        /\ query'[y][p].alone => /\ query'[y][p].inbound = bookmarkCookie[y]
                                                 /\ UnderwayOf(y) = {p}
      OBVIOUS
    <3>1. CASE y = x /\ p = q
      <4>1. owed[x] <= query[x][q].sees /\ owed[x] \in Nat /\ query[x][q].sees \in Nat
            /\ r.sees \in Nat
        BY <1>1, <2>2, <3>1 DEF BrowserFits, D1Inv, D1TypeOK, QueryRecord, Bookmarks
      <4> QED
        BY <1>2, <2>2, <3>1, <4>1 DEF BrowserFits
    <3>2. CASE y # x \/ p # q
      BY <1>2, <2>2, <3>2 DEF BrowserFits, Active
    <3> QED
      BY <3>1, <3>2
  <2>4. bookmarkCookie[y] <= commits'
    BY <1>1, <2>2 DEF BrowserFits, D1Inv, D1TypeOK, Bookmarks
  <2> QED
    BY <2>1, <2>2, <2>3, <2>4 DEF BrowserFits
<1> QED
  BY <1>3, <1>4, <1>5 DEF D1Inv

LEMMA ArriveFits ==
  ASSUME D1Inv, NEW x \in Readers, NEW q \in Queries, ArriveQuery(x, q)
  PROVE  D1Inv'
<1> DEFINE new == [NoQuery EXCEPT !.pc = "running", !.inbound = bookmarkCookie[x],
                     !.bookmark = bookmarkCookie[x], !.sees = owed[x],
                     !.alone = (UnderwayOf(x) = {})]
<1>1. /\ query \in [Readers -> [Queries -> QueryRecord]] /\ commits \in Nat
      /\ bookmarkCookie[x] \in Bookmarks /\ owed[x] \in Bookmarks
      /\ query[x][q].pc = "idle" /\ UNCHANGED <<commits, bookmarkCookie, owed>>
  BY Known DEF ArriveQuery
<1>2. /\ new \in QueryRecord /\ new.pc = "running" /\ new.inbound = bookmarkCookie[x]
      /\ new.bookmark = bookmarkCookie[x] /\ new.sees = owed[x]
      /\ new.alone = (UnderwayOf(x) = {})
      /\ \A i \in Slots : new.statement[i].pc = "none"
  BY <1>1, NoQueryFits DEF QueryRecord, NoQuery, NoStatement
<1>3. query' = [query EXCEPT ![x] = [r \in Queries |->
        IF r = q THEN new
        ELSE IF r \in UnderwayOf(x) THEN [query[x][r] EXCEPT !.alone = FALSE]
        ELSE query[x][r]]]
  BY DEF ArriveQuery
<1> HIDE DEF new
<1>4. /\ query'[x][q] = new
      /\ \A p \in Queries \ {q} :
           /\ query'[x][p] = query[x][p] \/ p \in UnderwayOf(x)
           /\ query'[x][p] \in QueryRecord
           /\ Active(query[x][p])' => ~query'[x][p].alone
           /\ query'[x][p].pc = query[x][p].pc /\ query'[x][p].sees = query[x][p].sees
           /\ query'[x][p].bookmark = query[x][p].bookmark
           /\ query'[x][p].statement = query[x][p].statement
      /\ \A y \in Readers \ {x} : query'[y] = query[y]
  <2>1. /\ query'[x][q] = new /\ \A y \in Readers \ {x} : query'[y] = query[y]
        /\ \A p \in Queries \ {q} : query'[x][p] =
             IF p \in UnderwayOf(x) THEN [query[x][p] EXCEPT !.alone = FALSE] ELSE query[x][p]
    BY <1>1, <1>3
  <2>2. ASSUME NEW p \in Queries \ {q}
        PROVE  /\ query'[x][p] = query[x][p] \/ p \in UnderwayOf(x)
               /\ query'[x][p] \in QueryRecord
               /\ Active(query[x][p])' => ~query'[x][p].alone
               /\ query'[x][p].pc = query[x][p].pc /\ query'[x][p].sees = query[x][p].sees
               /\ query'[x][p].bookmark = query[x][p].bookmark
               /\ query'[x][p].statement = query[x][p].statement
    <3>1. query[x][p] \in QueryRecord
      BY <1>1
    <3>2. CASE p \in UnderwayOf(x)
      BY <2>1, <3>1, <3>2 DEF QueryRecord
    <3>3. CASE p \notin UnderwayOf(x)
      BY <2>1, <3>1, <3>3 DEF UnderwayOf, Active
    <3> QED
      BY <3>2, <3>3
  <2> QED
    BY <2>1, <2>2
<1>5. D1TypeOK'
  BY <1>1, <1>2, <1>3, <1>4 DEF D1Inv, D1TypeOK
<1>6. ASSUME NEW p \in Queries PROVE QueryFits(query[x][p])'
  <2>1. CASE p = q
    BY <1>1, <1>2, <1>4, <2>1 DEF D1Inv, BrowserFits, QueryFits, StatementFits, Active
  <2>2. CASE p # q
    BY <1>1, <1>4, <2>2 DEF D1Inv, QueryFits, StatementFits, Active, UnderwayOf
  <2> QED
    BY <2>1, <2>2
<1>7. ASSUME NEW y \in Readers PROVE BrowserFits(y)'
  <2>1. BrowserFits(y)
    BY DEF D1Inv
  <2>2. CASE y # x
    BY <1>1, <1>4, <2>1, <2>2 DEF BrowserFits, UnderwayOf, Active
  <2>3. CASE y = x
    <3>1. ASSUME NEW p \in Queries, Active(query[x][p])'
          PROVE  /\ owed[x] <= query'[x][p].sees
                 /\ query'[x][p].alone => /\ query'[x][p].inbound = bookmarkCookie[x]
                                          /\ UnderwayOf(x)' = {p}
      <4>1. CASE p = q
        <5>1. owed[x] \in Nat
          BY <1>1 DEF Bookmarks
        <5>2. new.alone => UnderwayOf(x)' = {q}
          <6> SUFFICES ASSUME new.alone, NEW o \in Queries \ {q} PROVE o \notin UnderwayOf(x)'
            BY <1>2, <1>4 DEF UnderwayOf
          <6>1. o \notin UnderwayOf(x) /\ query'[x][o].pc = query[x][o].pc
            BY <1>2, <1>4
          <6> QED
            BY <6>1 DEF UnderwayOf
        <5> QED
          BY <1>2, <1>4, <4>1, <5>1, <5>2
      <4>2. CASE p # q
        BY <1>4, <2>1, <2>3, <3>1, <4>2 DEF BrowserFits, Active
      <4> QED
        BY <4>1, <4>2
    <3> QED
      BY <1>1, <2>1, <2>3, <3>1 DEF BrowserFits
  <2> QED
    BY <2>2, <2>3
<1> QED
  BY <1>1, <1>4, <1>5, <1>6, <1>7 DEF D1Inv, QueryFits, StatementFits, Active

\* A statement carries what its request has to see.
LEMMA SendFits ==
  ASSUME D1Inv, NEW x \in Readers, NEW q \in Queries, NEW i \in Slots,
         NEW kind \in {"read", "write"}, SendStatement(x, q, i, kind)
  PROVE  D1Inv'
<1> DEFINE old == query[x][q]
           s == [NoStatement EXCEPT !.pc = kind, !.carried = Carried(x, q),
                                    !.must = query[x][q].sees]
           r == [old EXCEPT !.statement[i] = s]
<1>1. /\ old \in QueryRecord /\ QueryFits(old) /\ old.pc = "running"
      /\ commits \in 0..MaxCommits
  BY Known DEF SendStatement
<1>2. s \in Statement /\ s.pc = kind /\ s.carried = old.bookmark /\ s.must = old.sees
  <2>1. NoStatement \in Statement
    BY CommitsAssumption DEF NoStatement, Statement, Bookmarks
  <2>2. old.bookmark \in Bookmarks /\ old.sees \in Bookmarks
    BY <1>1 DEF QueryRecord
  <2> QED
    BY <2>1, <2>2 DEF Statement, Carried
<1>3. query' = [query EXCEPT ![x][q] = r] /\ UNCHANGED <<commits, bookmarkCookie, owed>>
  BY DEF SendStatement, D1Inv, D1TypeOK
<1> HIDE DEF s
<1>4. /\ r \in QueryRecord /\ r.pc = "running" /\ r.sees = old.sees
      /\ r.bookmark = old.bookmark /\ r.inbound = old.inbound /\ r.alone = old.alone
      /\ r.statement[i] = s
      /\ \A j \in Slots \ {i} : r.statement[j] = old.statement[j]
  BY <1>1, <1>2 DEF QueryRecord
<1> HIDE DEF r
<1>5. \A j \in Slots : StatementFits(r.statement[j], r.sees, commits')
  <2> SUFFICES ASSUME NEW j \in Slots PROVE StatementFits(r.statement[j], r.sees, commits')
    OBVIOUS
  <2>1. StatementFits(old.statement[j], old.sees, commits) /\ old.sees <= old.bookmark
        /\ old.bookmark <= commits
    BY <1>1 DEF QueryFits
  <2>2. CASE j = i
    BY <1>2, <1>3, <1>4, <2>1, <2>2 DEF StatementFits
  <2>3. CASE j # i
    BY <1>3, <1>4, <2>1, <2>3 DEF StatementFits
  <2> QED
    BY <2>2, <2>3
<1>6. r.sees <= r.bookmark /\ r.bookmark <= commits' /\ old.sees <= r.sees
  BY <1>1, <1>3, <1>4 DEF QueryFits, QueryRecord, Bookmarks
<1> QED
  <2>1. Active(r) /\ Active(old) /\ commits' \in {commits, commits + 1} /\ commits' \in 0..MaxCommits
    BY <1>1, <1>3, <1>4 DEF Active
  <2> QED
    BY <1>3, <1>4, <1>5, <1>6, <2>1, QueryMoves

\* A database that has the commits of the bookmark answers; the primary has all.
LEMMA ServeFits ==
  ASSUME D1Inv, NEW x \in Readers, NEW q \in Queries, NEW i \in Slots,
         Read(x, q, i) \/ Write(x, q, i)
  PROVE  D1Inv'
<1> DEFINE old == query[x][q]
<1>1. /\ old \in QueryRecord /\ QueryFits(old) /\ Active(old)
      /\ commits \in 0..MaxCommits
  <2>1. old.statement[i].pc # "none"
    BY DEF Read, Write
  <2>2. NoQuery.statement[i].pc = "none"
    BY DEF NoQuery, NoStatement
  <2> QED
    BY <2>1, <2>2, Known DEF QueryFits
<1>2. PICK s \in Statement :
        /\ query' = [query EXCEPT ![x][q].statement[i] = s]
        /\ s.pc = "served" /\ old.sees <= s.result /\ s.result <= commits'
        /\ s.carried = old.statement[i].carried /\ s.must = old.statement[i].must
        /\ old.statement[i].pc # "none"
        /\ commits' \in {commits, commits + 1} /\ commits' \in 0..MaxCommits
        /\ UNCHANGED <<bookmarkCookie, owed>>
  <2>1. /\ old.statement[i] \in Statement /\ old.sees \in Bookmarks
        /\ StatementFits(old.statement[i], old.sees, commits)
        /\ MaxCommits \in Nat
    BY <1>1, CommitsAssumption DEF QueryFits, QueryRecord
  <2>2. CASE Read(x, q, i)
    <3>1. PICK v \in old.statement[i].carried..commits :
            query' = [query EXCEPT ![x][q].statement[i] =
                        [@ EXCEPT !.pc = "served", !.result = v]]
      BY <2>2 DEF Read
    <3> DEFINE s == [old.statement[i] EXCEPT !.pc = "served", !.result = v]
    <3>2. old.statement[i].pc = "read" /\ UNCHANGED <<commits, bookmarkCookie, owed>>
      BY <2>2 DEF Read
    <3>3. v \in Bookmarks /\ old.sees <= v /\ v <= commits
      BY <1>1, <2>1, <3>1, <3>2 DEF StatementFits, Statement, Bookmarks
    <3>4. /\ s \in Statement /\ s.pc = "served" /\ s.result = v
          /\ s.carried = old.statement[i].carried /\ s.must = old.statement[i].must
      BY <2>1, <3>3 DEF Statement
    <3>5. query' = [query EXCEPT ![x][q].statement[i] = s]
      BY <3>1
    <3> HIDE DEF s
    <3> QED
      BY <1>1, <3>2, <3>3, <3>4, <3>5
  <2>3. CASE Write(x, q, i)
    <3> DEFINE s == [old.statement[i] EXCEPT !.pc = "served", !.result = commits + 1,
                                             !.wrote = TRUE]
    <3>1. /\ old.statement[i].pc = "write" /\ commits' = commits + 1 /\ commits < MaxCommits
          /\ UNCHANGED <<bookmarkCookie, owed>>
          /\ query' = [query EXCEPT ![x][q].statement[i] = s]
      BY <2>3 DEF Write
    <3>2. commits + 1 \in Bookmarks /\ old.sees <= commits + 1
      BY <1>1, <2>1, <3>1 DEF QueryFits, StatementFits, Statement, Bookmarks
    <3>3. /\ s \in Statement /\ s.pc = "served" /\ s.result = commits + 1
          /\ s.carried = old.statement[i].carried /\ s.must = old.statement[i].must
      BY <2>1, <3>2 DEF Statement
    <3> HIDE DEF s
    <3>4. /\ commits' \in {commits, commits + 1} /\ commits' \in 0..MaxCommits
          /\ s.result <= commits' /\ old.sees <= s.result
      BY <1>1, <2>1, <3>1, <3>2, <3>3 DEF Bookmarks
    <3>5. old.statement[i].pc # "none"
      BY <3>1
    <3> QED
      BY <3>1, <3>3, <3>4, <3>5
  <2> QED
    BY <2>2, <2>3
<1> DEFINE r == [old EXCEPT !.statement[i] = s]
<1>3. query' = [query EXCEPT ![x][q] = r]
  BY <1>2
<1>4. /\ r \in QueryRecord /\ Active(r) /\ r.sees = old.sees
      /\ r.bookmark = old.bookmark /\ r.inbound = old.inbound /\ r.alone = old.alone
      /\ r.statement[i] = s
      /\ \A j \in Slots \ {i} : r.statement[j] = old.statement[j]
  BY <1>1, <1>2 DEF QueryRecord, Active
<1> HIDE DEF r
<1>5. \A j \in Slots : StatementFits(r.statement[j], r.sees, commits')
  <2> SUFFICES ASSUME NEW j \in Slots PROVE StatementFits(r.statement[j], r.sees, commits')
    OBVIOUS
  <2>1. /\ StatementFits(old.statement[j], old.sees, commits) /\ old.statement[j] \in Statement
        /\ commits \in Nat /\ commits' \in Nat /\ commits <= commits'
    BY <1>1, <1>2, CommitsAssumption DEF QueryFits, QueryRecord
  <2>2. CASE j = i
    BY <1>2, <1>4, <2>1, <2>2 DEF StatementFits, Statement, Bookmarks
  <2>3. CASE j # i
    BY <1>4, <2>1, <2>3 DEF StatementFits, Statement, Bookmarks
  <2> QED
    BY <2>2, <2>3
<1>6. r.sees <= r.bookmark /\ r.bookmark <= commits' /\ old.sees <= r.sees
  BY <1>1, <1>2, <1>4 DEF QueryFits, QueryRecord, Bookmarks
<1> QED
  BY <1>1, <1>2, <1>3, <1>4, <1>5, <1>6, QueryMoves

\* What a request saw or wrote is not older than what it has to see; only a write
\* that returned alone raises that.
LEMMA ReturnFits ==
  ASSUME D1Inv, NEW x \in Readers, NEW q \in Queries, NEW i \in Slots,
         ReturnStatement(x, q, i)
  PROVE  D1Inv'
<1> DEFINE old == query[x][q]
           s == query[x][q].statement[i]
           sees == SeesAfter(x, q, i)
           r == [old EXCEPT !.bookmark = s.result, !.sees = sees, !.statement[i] = NoStatement]
<1>1. /\ old \in QueryRecord /\ QueryFits(old) /\ s \in Statement /\ s.pc = "served"
      /\ StatementFits(s, old.sees, commits)
      /\ commits \in Nat /\ MaxCommits \in Nat /\ commits <= MaxCommits
      /\ UNCHANGED <<commits, bookmarkCookie, owed>>
  <2>1. /\ old \in QueryRecord /\ QueryFits(old) /\ commits \in Nat /\ MaxCommits \in Nat
        /\ commits <= MaxCommits
    BY Known
  <2>2. s.pc = "served" /\ UNCHANGED <<commits, bookmarkCookie, owed>>
    BY DEF ReturnStatement
  <2>3. s \in Statement
    BY <2>1 DEF QueryRecord
  <2>4. StatementFits(s, old.sees, commits)
    BY <2>1 DEF QueryFits
  <2> QED
    BY <2>1, <2>2, <2>3, <2>4
<1>2. Active(old)
  <2>1. NoQuery.statement[i].pc = "none"
    BY DEF NoQuery, NoStatement
  <2> QED
    BY <1>1, <2>1 DEF QueryFits
<1>3. query' = [query EXCEPT ![x][q] = r]
  BY DEF ReturnStatement
<1>4. /\ sees \in Bookmarks /\ old.sees <= sees /\ sees <= s.result /\ s.result <= commits
      /\ sees # old.sees => \A j \in Slots \ {i} : old.statement[j].pc = "none"
  <2>1. /\ s.result \in Bookmarks /\ old.sees \in Bookmarks /\ old.sees \in Nat
        /\ old.sees <= s.result /\ s.result <= commits
    BY <1>1 DEF StatementFits, Statement, QueryRecord, Bookmarks
  <2>2. \/ sees = old.sees
        \/ sees = s.result /\ \A j \in Slots \ {i} : old.statement[j].pc = "none"
    BY DEF SeesAfter
  <2> HIDE DEF sees, s, old
  <2>3. s.result \in Nat
    BY <2>1 DEF Bookmarks
  <2> QED
    BY <2>1, <2>2, <2>3
<1> HIDE DEF sees
<1>5. /\ r \in QueryRecord /\ Active(r) /\ r.sees = sees
      /\ r.bookmark = s.result /\ r.inbound = old.inbound /\ r.alone = old.alone
      /\ r.statement[i] = NoStatement
      /\ \A j \in Slots \ {i} : r.statement[j] = old.statement[j]
  <2>1. NoStatement \in Statement /\ s.result \in Bookmarks
    BY <1>1 DEF NoStatement, Statement, Bookmarks
  <2> QED
    BY <1>1, <1>2, <1>4, <2>1 DEF QueryRecord, Active
<1> HIDE DEF r
<1>6. \A j \in Slots : StatementFits(r.statement[j], r.sees, commits')
  <2> SUFFICES ASSUME NEW j \in Slots PROVE StatementFits(r.statement[j], r.sees, commits')
    OBVIOUS
  <2>1. CASE j = i
    BY <1>5, <2>1 DEF StatementFits, NoStatement
  <2>2. CASE j # i
    <3>1. StatementFits(old.statement[j], old.sees, commits) /\ r.statement[j] = old.statement[j]
      BY <1>1, <1>5, <2>2 DEF QueryFits
    <3>2. r.sees = old.sees \/ r.statement[j].pc = "none"
      BY <1>4, <1>5, <2>2
    <3> QED
      BY <1>1, <3>1, <3>2 DEF StatementFits
  <2> QED
    BY <2>1, <2>2
<1>7. /\ r.sees <= r.bookmark /\ r.bookmark <= commits' /\ old.sees <= r.sees
      /\ commits' \in {commits, commits + 1} /\ commits' \in 0..MaxCommits
  BY <1>1, <1>4, <1>5
<1> QED
  BY <1>1, <1>2, <1>3, <1>5, <1>6, <1>7, QueryMoves

\* A response goes out: its request fits as before.
LEMMA AnswerFits ==
  ASSUME D1Inv, NEW x \in Readers, NEW q \in Queries, AnswerQuery(x, q)
  PROVE  D1Inv'
<1> DEFINE old == query[x][q]
           r == [old EXCEPT !.pc = "answered"]
<1>1. /\ old \in QueryRecord /\ QueryFits(old) /\ commits \in Nat /\ MaxCommits \in Nat
      /\ commits <= MaxCommits
  BY Known
<1>2. /\ old.pc = "running" /\ query' = [query EXCEPT ![x][q] = r]
      /\ UNCHANGED <<commits, bookmarkCookie, owed>>
  BY DEF AnswerQuery
<1>3. /\ r \in QueryRecord /\ r.pc = "answered" /\ r.sees = old.sees
      /\ r.bookmark = old.bookmark /\ r.inbound = old.inbound /\ r.alone = old.alone
      /\ r.statement = old.statement
  BY <1>1 DEF QueryRecord
<1> HIDE DEF r
<1>4. /\ r.sees <= r.bookmark /\ r.bookmark <= commits' /\ old.sees <= r.sees
      /\ commits' \in {commits, commits + 1} /\ commits' \in 0..MaxCommits
  BY <1>1, <1>2, <1>3 DEF QueryFits, QueryRecord, Bookmarks
<1>5. \A i \in Slots : StatementFits(r.statement[i], r.sees, commits')
  BY <1>1, <1>2, <1>3 DEF QueryFits
<1> QED
  BY <1>2, <1>3, <1>4, <1>5, QueryMoves DEF Active

\* One browser's requests and cookies change, the commits stay.
LEMMA BrowserMoves ==
  ASSUME D1Inv, NEW x \in Readers, UNCHANGED commits, D1TypeOK',
         \A y \in Readers \ {x} : /\ query'[y] = query[y] /\ owed'[y] = owed[y]
                                 /\ bookmarkCookie'[y] = bookmarkCookie[y],
         \A p \in Queries : QueryFits(query[x][p])',
         BrowserFits(x)'
  PROVE  D1Inv'
<1>1. ASSUME NEW y \in Readers, NEW p \in Queries PROVE QueryFits(query[y][p])'
  <2>1. CASE y = x
    BY <2>1
  <2>2. CASE y # x
    <3>1. QueryFits(query[y][p]) /\ query'[y][p] = query[y][p]
      BY <2>2 DEF D1Inv
    <3> QED
      BY <3>1 DEF QueryFits, StatementFits, Active
  <2> QED
    BY <2>1, <2>2
<1>2. ASSUME NEW y \in Readers PROVE BrowserFits(y)'
  <2>1. CASE y = x
    BY <2>1
  <2>2. CASE y # x
    <3>1. /\ BrowserFits(y) /\ query'[y] = query[y] /\ owed'[y] = owed[y]
          /\ bookmarkCookie'[y] = bookmarkCookie[y]
      BY <2>2 DEF D1Inv
    <3>2. UnderwayOf(y)' = UnderwayOf(y)
      BY <3>1 DEF UnderwayOf
    <3> QED
      BY <3>1, <3>2 DEF BrowserFits, Active
  <2> QED
    BY <2>1, <2>2
<1> QED
  BY <1>1, <1>2 DEF D1Inv

\* The cookie of a response is not older than what its request had to see; where
\* that raises what the browser has to see, the request was alone.
LEMMA ReceiveFits ==
  ASSUME D1Inv, NEW x \in Readers, NEW q \in Queries, ReceiveAnswer(x, q)
  PROVE  D1Inv'
<1> DEFINE r == query[x][q]
<1>1. /\ r \in QueryRecord /\ QueryFits(r) /\ BrowserFits(x) /\ commits \in Nat
      /\ MaxCommits \in Nat /\ commits <= MaxCommits
      /\ bookmarkCookie[x] \in Bookmarks /\ owed[x] \in Bookmarks
      /\ query \in [Readers -> [Queries -> QueryRecord]]
  BY Known
<1>2. /\ r.pc = "answered" /\ query' = [query EXCEPT ![x][q] = NoQuery] /\ commits' = commits
  BY DEF ReceiveAnswer
<1>3. /\ query'[x][q] = NoQuery
      /\ \A p \in Queries \ {q} : query'[x][p] = query[x][p]
      /\ \A y \in Readers \ {x} : query'[y] = query[y]
  BY <1>1, <1>2
<1>4. /\ bookmarkCookie \in [Readers -> Bookmarks] /\ owed \in [Readers -> Bookmarks]
  BY DEF D1Inv, D1TypeOK
<1>5. PICK b \in Bookmarks, o \in Bookmarks :
        /\ bookmarkCookie' = [bookmarkCookie EXCEPT ![x] = b]
        /\ owed' = [owed EXCEPT ![x] = o]
        /\ \/ b = bookmarkCookie[x] /\ o = owed[x]
           \/ /\ b = IF r.bookmark \notin {0, r.inbound} THEN r.bookmark ELSE bookmarkCookie[x]
              /\ o = IF r.alone THEN Later(owed[x], r.sees) ELSE owed[x]
  <2> DEFINE b1 == IF r.bookmark \notin {0, r.inbound} THEN r.bookmark ELSE bookmarkCookie[x]
             o1 == IF r.alone THEN Later(owed[x], r.sees) ELSE owed[x]
  <2>1. b1 \in Bookmarks /\ o1 \in Bookmarks
    BY <1>1 DEF QueryRecord, Later, Bookmarks
  <2>2. \/ UNCHANGED <<bookmarkCookie, owed>>
        \/ /\ bookmarkCookie' = [bookmarkCookie EXCEPT ![x] = b1]
           /\ owed' = [owed EXCEPT ![x] = o1]
    <3>1. bookmarkCookie = [bookmarkCookie EXCEPT ![x] = bookmarkCookie[x]]
          /\ owed = [owed EXCEPT ![x] = owed[x]]
      BY <1>4
    <3> QED
      BY <3>1 DEF ReceiveAnswer
  <2>3. CASE UNCHANGED <<bookmarkCookie, owed>>
    <3>1. bookmarkCookie' = [bookmarkCookie EXCEPT ![x] = bookmarkCookie[x]]
          /\ owed' = [owed EXCEPT ![x] = owed[x]]
      BY <1>4, <2>3
    <3> QED
      BY <1>1, <3>1
  <2> HIDE DEF b1, o1
  <2>4. CASE /\ bookmarkCookie' = [bookmarkCookie EXCEPT ![x] = b1]
             /\ owed' = [owed EXCEPT ![x] = o1]
    BY <2>1, <2>4 DEF b1, o1
  <2> QED
    BY <2>2, <2>3, <2>4
<1>6. /\ bookmarkCookie'[x] = b /\ owed'[x] = o
      /\ \A y \in Readers \ {x} : owed'[y] = owed[y] /\ bookmarkCookie'[y] = bookmarkCookie[y]
  BY <1>4, <1>5
<1>7. D1TypeOK'
  BY <1>1, <1>2, <1>4, <1>5, NoQueryFits DEF D1Inv, D1TypeOK
<1>8. \A p \in Queries : QueryFits(query[x][p])'
  <2> SUFFICES ASSUME NEW p \in Queries PROVE QueryFits(query[x][p])'
    OBVIOUS
  <2>1. query'[x][p] = NoQuery \/ query'[x][p] = query[x][p]
    BY <1>3
  <2>2. QueryFits(NoQuery)' /\ QueryFits(query[x][p])
    BY <1>1, <1>2, NoQueryFits DEF D1Inv, QueryFits, StatementFits, Active, NoQuery, NoStatement
  <2> QED
    BY <1>2, <2>1, <2>2 DEF QueryFits, StatementFits, Active
<1>9. BrowserFits(x)'
  <2>1. o <= b /\ b <= commits
    BY <1>1, <1>2, <1>5 DEF BrowserFits, QueryFits, Later, Active, QueryRecord, Bookmarks
  <2>2. ASSUME NEW p \in Queries, Active(query[x][p])'
        PROVE  /\ o <= query'[x][p].sees
               /\ query'[x][p].alone => /\ query'[x][p].inbound = b
                                        /\ UnderwayOf(x)' = {p}
    <3>1. p # q /\ query'[x][p] = query[x][p] /\ Active(query[x][p]) /\ Active(query[x][q])
      BY <1>2, <1>3, <2>2 DEF Active, NoQuery
    <3>2. ~r.alone /\ ~query[x][p].alone
      <4>1. UnderwayOf(x) # {p} /\ UnderwayOf(x) # {q}
        BY <3>1 DEF UnderwayOf, Active
      <4> QED
        BY <1>1, <3>1, <4>1 DEF BrowserFits
    <3>3. o = owed[x] /\ owed[x] <= query[x][p].sees
      BY <1>1, <1>5, <3>1, <3>2 DEF BrowserFits
    <3> QED
      BY <3>1, <3>2, <3>3
  <2> QED
    BY <1>2, <1>6, <2>1, <2>2 DEF BrowserFits
<1> QED
  BY <1>2, <1>3, <1>6, <1>7, <1>8, <1>9, BrowserMoves

LEMMA ForgetFits ==
  ASSUME D1Inv, NEW x \in Readers, ForgetBookmark(x)
  PROVE  D1Inv'
<1>1. /\ bookmarkCookie \in [Readers -> Bookmarks] /\ owed \in [Readers -> Bookmarks]
      /\ query \in [Readers -> [Queries -> QueryRecord]]
      /\ commits \in 0..MaxCommits /\ MaxCommits \in Nat
  BY CommitsAssumption DEF D1Inv, D1TypeOK
<1>2. /\ bookmarkCookie' = [bookmarkCookie EXCEPT ![x] = 0] /\ owed' = [owed EXCEPT ![x] = 0]
      /\ UNCHANGED <<commits, query>> /\ UnderwayOf(x) = {}
  BY DEF ForgetBookmark
<1>3. D1TypeOK'
  BY <1>1, <1>2 DEF D1TypeOK, Bookmarks
<1>4. \A p \in Queries : QueryFits(query[x][p])'
  BY <1>2 DEF D1Inv, QueryFits, StatementFits, Active
<1>5. BrowserFits(x)'
  <2>1. \A p \in Queries : ~Active(query[x][p])'
    BY <1>2 DEF UnderwayOf, Active
  <2> QED
    BY <1>1, <1>2, <2>1 DEF BrowserFits
<1> QED
  BY <1>1, <1>2, <1>3, <1>4, <1>5, BrowserMoves

LEMMA D1InitFits == D1Init => D1Inv
<1> SUFFICES ASSUME D1Init PROVE D1Inv
  OBVIOUS
<1>1. MaxCommits \in Nat /\ commits = 0 /\ NoQuery \in QueryRecord /\ QueryFits(NoQuery)
  BY CommitsAssumption, NoQueryFits DEF D1Init
<1>2. D1TypeOK
  BY <1>1 DEF D1Init, D1TypeOK, Bookmarks
<1>3. \A x \in Readers, q \in Queries : QueryFits(query[x][q])
  BY <1>1 DEF D1Init
<1>4. \A x \in Readers : BrowserFits(x)
  <2> SUFFICES ASSUME NEW x \in Readers PROVE BrowserFits(x)
    OBVIOUS
  <2>1. owed[x] = 0 /\ bookmarkCookie[x] = 0 /\ \A q \in Queries : query[x][q] = NoQuery
    BY DEF D1Init
  <2>2. ~Active(NoQuery)
    BY DEF Active, NoQuery
  <2> QED
    BY <1>1, <2>1, <2>2 DEF BrowserFits
<1> QED
  BY <1>2, <1>3, <1>4 DEF D1Inv

LEMMA D1StepFits == D1Inv /\ [D1Next]_d1Vars => D1Inv'
<1> SUFFICES ASSUME D1Inv, [D1Next]_d1Vars PROVE D1Inv'
  OBVIOUS
<1>1. CASE UNCHANGED d1Vars
  BY <1>1 DEF d1Vars, D1Inv, D1TypeOK, QueryFits, StatementFits, Active, BrowserFits, UnderwayOf
<1>2. CASE D1Next
  <2>1. PICK x \in Readers :
          \/ \E q \in Queries : ArriveQuery(x, q)
          \/ \E q \in Queries : AnswerQuery(x, q)
          \/ \E q \in Queries : ReceiveAnswer(x, q)
          \/ \E q \in Queries, i \in Slots, kind \in {"read", "write"} :
               SendStatement(x, q, i, kind)
          \/ \E q \in Queries, i \in Slots : Read(x, q, i) \/ Write(x, q, i)
          \/ \E q \in Queries, i \in Slots : ReturnStatement(x, q, i)
          \/ ForgetBookmark(x)
    BY <1>2 DEF D1Next
  <2> QED
    BY <2>1, ArriveFits, AnswerFits, ReceiveFits, SendFits, ServeFits, ReturnFits, ForgetFits
<1> QED
  BY <1>1, <1>2

-----------------------------------------------------------------------------

\* Every variable keeps its type, for any number of browsers, requests and
\* statements under way.
THEOREM D1TypeCorrect == D1Spec => []D1TypeOK
<1>1. D1Inv => D1TypeOK
  BY DEF D1Inv
<1> QED
  BY <1>1, D1InitFits, D1StepFits, PTL DEF D1Spec

\* A statement sees what its browser has to see: what its request wrote before,
\* and what the requests before wrote that were alone and answered.
THEOREM ReadsCorrect == D1Spec => []ReadsOwnWrites
<1>1. D1Inv => ReadsOwnWrites
  <2> SUFFICES ASSUME D1Inv, NEW x \in Readers, NEW q \in Queries, NEW i \in Slots,
                      query[x][q].statement[i].pc = "served"
               PROVE  query[x][q].statement[i].result >= query[x][q].statement[i].must
    BY DEF ReadsOwnWrites
  <2>1. query[x][q] \in QueryRecord /\ QueryFits(query[x][q]) /\ MaxCommits \in Nat
    BY Known
  <2>2. query[x][q].statement[i] \in Statement
        /\ StatementFits(query[x][q].statement[i], query[x][q].sees, commits)
    BY <2>1 DEF QueryFits, QueryRecord
  <2> QED
    BY <2>1, <2>2 DEF StatementFits, Statement, Bookmarks
<1> QED
  BY <1>1, D1InitFits, D1StepFits, PTL DEF D1Spec

=============================================================================
