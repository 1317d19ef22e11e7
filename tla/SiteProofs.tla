------------------------------ MODULE SiteProofs ------------------------------
(***************************************************************************)
(* What the site remembers of a reader, and the recorder in the browser,   *)
(* for any number of tabs, client ids, recordings and submissions; at the  *)
(* end, the six parts of the site as they are checked.                     *)
(***************************************************************************)
EXTENDS MCSite, AccountsProofs, AppCacheProofs, D1SessionsProofs,
        FiniteSetTheorems, TLAPS

-----------------------------------------------------------------------------
(* The reader's records: the inductive invariant.                          *)

TabActive(t) == tab[t].pc # "idle"

\* What a request that is under way has.
TabFits(t) ==
  /\ TabActive(t) => tab[t].owner \in Owners
  /\ tab[t].way = "record" => tab[t].pc \in {"idle", "adding", "answering"}
  /\ tab[t].pc = "adding" => tab[t].way = "record"
  /\ TabActive(t) /\ tab[t].way = "record" => tab[t].item \in Items
  /\ tab[t].minted \/ tab[t].way # "record" => tab[t].owner \in Clients

\* A request knows of the sign-ins and first requests that it overlaps.
OverlapsKnown ==
  \A t, u \in Tabs :
    t # u /\ TabActive(t) /\ TabActive(u) /\ ~tab[t].overlapped => ~Upset(u)

\* One that overlaps none of them acts for the device as it still is, and what it
\* is about to report is there.
ReportFits(t) ==
  TabActive(t) /\ tab[t].way = "record" /\ ~tab[t].overlapped =>
    /\ ~tab[t].minted => tab[t].owner = Me \/ cookie.client = tab[t].owner
    /\ tab[t].pc = "answering" /\ tab[t].item \notin excused =>
         tab[t].item \in kept[tab[t].owner]

\* What is the device's, and not yet the user's.
Unmoved == (wanted \ (excused \cup untracked)) \ kept[Me]

\* A sign-in that has not come to the item.
Pending(t, i) ==
  \/ tab[t].pc = "reads"
  \/ tab[t].pc = "listing" /\ i \in Homework
  \/ tab[t].pc = "copying" /\ i \in tab[t].left

\* It is the cookie's, and every sign-in under way is of this very client id and
\* will come to it.
UnmovedIsFollowed ==
  \A i \in Unmoved :
    /\ cookie.client # None /\ i \in kept[cookie.client]
    /\ \A t \in Tabs : TabActive(t) /\ Upset(t) =>
         tab[t].way # "record" /\ tab[t].owner = cookie.client /\ Pending(t, i)

RecordsInv ==
  /\ RecordsTypeOK
  /\ OverlapsKnown
  /\ \A t \in Tabs : TabFits(t) /\ ReportFits(t)
  /\ UnmovedIsFollowed

LEMMA FollowedItems ==
  ASSUME RecordsInv
  PROVE  NothingDoneIsLost
<1> SUFFICES ASSUME NEW i \in wanted \ (excused \cup untracked), i \notin kept[Me]
             PROVE  \E c \in Clients : i \in kept[c] /\ cookie.client = c
  BY DEF NothingDoneIsLost, Followed
<1>1. cookie.client # None /\ i \in kept[cookie.client]
  BY DEF RecordsInv, UnmovedIsFollowed, Unmoved
<1>2. cookie.client \in Clients
  BY <1>1 DEF RecordsInv, RecordsTypeOK
<1> QED
  BY <1>1, <1>2

LEMMA RecordsStart == RecordsInit => RecordsInv
<1> SUFFICES ASSUME RecordsInit PROVE RecordsInv
  OBVIOUS
<1>1. RecordsTypeOK
  BY ReaderAssumption DEF RecordsInit, RecordsTypeOK, Tab, Closed
<1>2. \A t \in Tabs : ~TabActive(t) /\ tab[t].way = "record" /\ ~tab[t].minted
  BY DEF RecordsInit, TabActive, Closed
<1>3. \A t \in Tabs : TabFits(t) /\ ReportFits(t)
  BY <1>2 DEF TabFits, ReportFits, TabActive
<1>4. OverlapsKnown
  BY <1>2 DEF OverlapsKnown
<1>5. UnmovedIsFollowed
  BY DEF RecordsInit, UnmovedIsFollowed, Unmoved
<1> QED
  BY <1>1, <1>3, <1>4, <1>5 DEF RecordsInv

-----------------------------------------------------------------------------
(* What the steps do to the requests.                                      *)

\* The fields of a request but for `overlapped'.
Same(a, b) ==
  /\ a.pc = b.pc /\ a.way = b.way /\ a.owner = b.owner /\ a.minted = b.minted
  /\ a.item = b.item /\ a.left = b.left

LEMMA ItemsAndOwners ==
  /\ Homework \subseteq Items /\ Posts \subseteq Items
  /\ Clients \subseteq Owners /\ Me \in Owners /\ Me \notin Clients /\ None \notin Clients
  /\ \A i \in Items : i \notin Homework => i \in Posts
BY ReaderAssumption DEF Items, Owners

\* A request that begins: those that it upsets, and it itself, know of it.
LEMMA RequestStarts ==
  ASSUME RecordsInv, NEW t \in Tabs, ~TabActive(t),
         NEW fields \in Tab, fields.pc # "idle", Start(t, fields)
  PROVE  /\ tab' \in [Tabs -> Tab]
         /\ \A u \in Tabs : u # t =>
              Same(tab'[u], tab[u]) /\ (tab[u].overlapped => tab'[u].overlapped)
         /\ Same(tab'[t], fields)
         /\ OverlapsKnown'
<1> DEFINE upsetting == fields.way # "record" \/ fields.minted
           others == {u \in Tabs : tab[u].pc # "idle"}
           disturbed == \E u \in others : Upset(u)
           known == disturbed \/ (upsetting /\ others # {})
           next(u) == IF u = t THEN [fields EXCEPT !.overlapped = known]
                      ELSE IF u \in others /\ upsetting THEN [tab[u] EXCEPT !.overlapped = TRUE]
                      ELSE tab[u]
<1>1. tab' = [u \in Tabs |-> next(u)]
  BY DEF Start
<1>2. tab \in [Tabs -> Tab]
  BY DEF RecordsInv, RecordsTypeOK
<1>3. known \in BOOLEAN
  OBVIOUS
<1> HIDE DEF known
<1>4. \A u \in Tabs : next(u) \in Tab
  BY <1>2, <1>3 DEF Tab
<1>5. tab' \in [Tabs -> Tab]
  BY <1>1, <1>4
<1>6. Same(tab'[t], fields) /\ tab'[t].overlapped = known
  BY <1>1, <1>3 DEF Tab, Same
<1>7. \A u \in Tabs : u # t =>
        Same(tab'[u], tab[u]) /\ (tab[u].overlapped => tab'[u].overlapped)
  BY <1>1, <1>2 DEF Tab, Same
<1>8. \A u \in others : u # t /\ upsetting => tab'[u].overlapped
  BY <1>1, <1>2 DEF Tab
<1>9. ASSUME NEW u \in Tabs, NEW w \in Tabs, u # w, TabActive(u)', TabActive(w)', ~tab'[u].overlapped
      PROVE  ~Upset(w)'
  <2>1. CASE u = t
    <3>1. w # t /\ w \in others
      BY <1>7, <1>9, <2>1 DEF TabActive, Same
    <3>2. ~Upset(w)
      BY <1>6, <1>9, <2>1, <3>1 DEF known
    <3> QED
      BY <1>7, <3>1, <3>2 DEF Upset, Same
  <2>2. CASE u # t /\ w = t
    <3>1. u \in others
      BY <1>7, <1>9, <2>2 DEF TabActive, Same
    <3>2. ~upsetting
      BY <1>8, <1>9, <2>2, <3>1
    <3> QED
      BY <1>6, <2>2, <3>2 DEF Upset, Same
  <2>3. CASE u # t /\ w # t
    <3>1. TabActive(u) /\ TabActive(w) /\ ~tab[u].overlapped
      BY <1>7, <1>9, <2>3 DEF TabActive, Same
    <3>2. ~Upset(w)
      BY <1>9, <3>1 DEF RecordsInv, OverlapsKnown
    <3> QED
      BY <1>7, <2>3, <3>2 DEF Upset, Same
  <2> QED
    BY <2>1, <2>2, <2>3
<1>10. OverlapsKnown'
  BY <1>9 DEF OverlapsKnown
<1> QED
  BY <1>5, <1>6, <1>7, <1>10

\* No step but these brings an overlap.
LEMMA OverlapsStayKnown ==
  ASSUME OverlapsKnown,
         \A u \in Tabs : TabActive(u)' => /\ TabActive(u) /\ tab'[u].way = tab[u].way
                                       /\ tab'[u].minted = tab[u].minted
                                       /\ tab'[u].overlapped = tab[u].overlapped
  PROVE  OverlapsKnown'
BY DEF OverlapsKnown, Upset

\* A request that goes on.
LEMMA RequestTurns ==
  ASSUME RecordsInv, NEW t \in Tabs, NEW pc, Turn(t, pc), TabActive(t),
         pc \in {"adding", "listing", "copying", "deleting", "answering"},
         pc # "copying" => tab[t].left = {}
  PROVE  /\ tab' \in [Tabs -> Tab]
         /\ \A u \in Tabs : u # t => tab'[u] = tab[u]
         /\ tab'[t].pc = pc /\ tab'[t].way = tab[t].way /\ tab'[t].owner = tab[t].owner
         /\ tab'[t].minted = tab[t].minted /\ tab'[t].item = tab[t].item
         /\ tab'[t].left = tab[t].left /\ tab'[t].overlapped = tab[t].overlapped
         /\ OverlapsKnown'
<1>1. tab \in [Tabs -> Tab] /\ OverlapsKnown
  BY DEF RecordsInv, RecordsTypeOK
<1>2. /\ tab' \in [Tabs -> Tab]
      /\ \A u \in Tabs : u # t => tab'[u] = tab[u]
      /\ tab'[t].pc = pc /\ tab'[t].way = tab[t].way /\ tab'[t].owner = tab[t].owner
      /\ tab'[t].minted = tab[t].minted /\ tab'[t].item = tab[t].item
      /\ tab'[t].left = tab[t].left /\ tab'[t].overlapped = tab[t].overlapped
  BY <1>1 DEF Turn, Tab
<1>3. \A u \in Tabs : TabActive(u)' => /\ TabActive(u) /\ tab'[u].way = tab[u].way
                                    /\ tab'[u].minted = tab[u].minted
                                    /\ tab'[u].overlapped = tab[u].overlapped
  BY <1>2 DEF TabActive
<1> QED
  BY <1>1, <1>2, <1>3, OverlapsStayKnown

\* A request that ends.
LEMMA RequestEnds ==
  ASSUME RecordsInv, NEW t \in Tabs, tab' = [tab EXCEPT ![t] = Closed]
  PROVE  /\ tab' \in [Tabs -> Tab]
         /\ \A u \in Tabs : u # t => tab'[u] = tab[u]
         /\ tab'[t] = Closed
         /\ OverlapsKnown'
<1>1. tab \in [Tabs -> Tab] /\ OverlapsKnown
  BY DEF RecordsInv, RecordsTypeOK
<1>2. Closed \in Tab
  BY DEF Closed, Tab
<1>3. /\ tab' \in [Tabs -> Tab]
      /\ \A u \in Tabs : u # t => tab'[u] = tab[u]
      /\ tab'[t] = Closed
  BY <1>1, <1>2
<1>4. \A u \in Tabs : TabActive(u)' => /\ TabActive(u) /\ tab'[u].way = tab[u].way
                                    /\ tab'[u].minted = tab[u].minted
                                    /\ tab'[u].overlapped = tab[u].overlapped
  BY <1>3 DEF TabActive, Closed
<1> QED
  BY <1>1, <1>3, <1>4, OverlapsStayKnown

LEMMA ClosedFits ==
  ASSUME NEW t \in Tabs, tab[t] = Closed
  PROVE  ~TabActive(t) /\ TabFits(t) /\ ReportFits(t) /\ tab[t].left = {}
BY DEF Closed, TabActive, TabFits, ReportFits

LEMMA SameFits ==
  ASSUME NEW u \in Tabs, TabFits(u), Same(tab'[u], tab[u])
  PROVE  TabFits(u)'
BY DEF TabFits, Same, TabActive

LEMMA SameAnswers ==
  ASSUME NEW u \in Tabs, ReportFits(u), Same(tab'[u], tab[u]),
         tab[u].overlapped => tab'[u].overlapped,
         TabActive(u) /\ ~tab[u].overlapped => cookie'.client = cookie.client,
         excused \subseteq excused',
         TabActive(u) /\ ~tab[u].overlapped /\ tab[u].item \notin excused'
           /\ tab[u].item \in kept[tab[u].owner] => tab[u].item \in kept'[tab[u].owner]
  PROVE  ReportFits(u)'
<1> SUFFICES ASSUME TabActive(u)', tab'[u].way = "record", ~tab'[u].overlapped
             PROVE  /\ ~tab'[u].minted => tab'[u].owner = Me \/ cookie'.client = tab'[u].owner
                    /\ tab'[u].pc = "answering" /\ tab'[u].item \notin excused' =>
                         tab'[u].item \in kept'[tab'[u].owner]
  BY DEF ReportFits
<1>1. TabActive(u) /\ tab[u].way = "record" /\ ~tab[u].overlapped
  BY DEF TabActive, Same
<1>2. cookie'.client = cookie.client
  BY <1>1
<1>3. /\ ~tab[u].minted => tab[u].owner = Me \/ cookie.client = tab[u].owner
      /\ tab[u].pc = "answering" /\ tab[u].item \notin excused =>
           tab[u].item \in kept[tab[u].owner]
  BY <1>1 DEF ReportFits
<1> QED
  BY <1>1, <1>2, <1>3 DEF Same

LEMMA SameIsFollowed ==
  ASSUME UnmovedIsFollowed, UNCHANGED cookie, Unmoved' \subseteq Unmoved,
         \A i \in Unmoved' : i \in kept[cookie.client] => i \in kept'[cookie.client],
         \A i \in Unmoved', u \in Tabs :
           cookie.client # None /\ TabActive(u)' /\ Upset(u)' =>
             \/ Same(tab'[u], tab[u])
             \/ tab'[u].way # "record" /\ tab'[u].owner = cookie.client /\ Pending(u, i)'
  PROVE  UnmovedIsFollowed'
<1> SUFFICES ASSUME NEW i \in Unmoved'
             PROVE  /\ cookie'.client # None /\ i \in kept'[cookie'.client]
                    /\ \A u \in Tabs : TabActive(u)' /\ Upset(u)' =>
                         tab'[u].way # "record" /\ tab'[u].owner = cookie'.client
                         /\ Pending(u, i)'
  BY DEF UnmovedIsFollowed
<1>1. /\ cookie.client # None /\ i \in kept[cookie.client]
      /\ \A t \in Tabs : TabActive(t) /\ Upset(t) =>
           tab[t].way # "record" /\ tab[t].owner = cookie.client /\ Pending(t, i)
  BY DEF UnmovedIsFollowed
<1>2. cookie'.client # None /\ i \in kept'[cookie'.client]
  BY <1>1
<1>3. ASSUME NEW u \in Tabs, TabActive(u)', Upset(u)', Same(tab'[u], tab[u])
      PROVE  tab'[u].way # "record" /\ tab'[u].owner = cookie'.client /\ Pending(u, i)'
  BY <1>1, <1>3 DEF Same, TabActive, Upset, Pending
<1>4. ASSUME NEW u \in Tabs, TabActive(u)', Upset(u)', ~Same(tab'[u], tab[u])
      PROVE  tab'[u].way # "record" /\ tab'[u].owner = cookie'.client /\ Pending(u, i)'
  BY <1>1, <1>4
<1> QED
  BY <1>2, <1>3, <1>4

\* Whom a request acts for.
LEMMA ActingOwner ==
  ASSUME RecordsInv, NEW owner \in Owners, NEW minted \in BOOLEAN, Acting(owner, minted)
  PROVE  /\ minted => owner \in Clients /\ cookie.client = None /\ ~cookie.signedIn
         /\ ~minted => owner = Me \/ cookie.client = owner
         /\ ~minted /\ owner = cookie.client => cookie.client # None \/ owner = Me
         /\ ~minted /\ ~cookie.signedIn => owner = cookie.client /\ cookie.client # None
BY DEF Acting, FreshClients

LEMMA RecordStep ==
  ASSUME RecordsInv, NEW t \in Tabs, NEW i \in Items, Record(t, i)
  PROVE  RecordsInv'
<1>1. /\ tab[t].pc = "idle"
      /\ UNCHANGED <<kept, cookie, wanted, excused, untracked, signIns, troubles>>
  BY DEF Record
<1>2. PICK owner \in Owners, minted \in BOOLEAN :
        /\ Acting(owner, minted)
        /\ Start(t, [Closed EXCEPT !.owner = owner, !.minted = minted, !.item = i,
                       !.pc = IF i \in kept[owner] THEN "answering" ELSE "adding"])
  BY DEF Record
<1> DEFINE fields == [Closed EXCEPT !.owner = owner, !.minted = minted, !.item = i,
                        !.pc = IF i \in kept[owner] THEN "answering" ELSE "adding"]
<1>3. /\ fields \in Tab /\ fields.pc \in {"answering", "adding"} /\ fields.way = "record"
      /\ fields.owner = owner /\ fields.minted = minted /\ fields.item = i
      /\ fields.left = {} /\ (fields.pc = "answering" => i \in kept[owner])
  BY DEF Closed, Tab
<1> HIDE DEF fields
<1>4. /\ tab' \in [Tabs -> Tab]
      /\ \A u \in Tabs : u # t =>
           Same(tab'[u], tab[u]) /\ (tab[u].overlapped => tab'[u].overlapped)
      /\ Same(tab'[t], fields)
      /\ OverlapsKnown'
  <2>1. Start(t, fields)
    BY <1>2 DEF fields
  <2> QED
    BY <1>1, <1>3, <2>1, RequestStarts DEF TabActive
<1>5. \A u \in Tabs : tab'[u].left # {} => tab'[u].pc = "copying"
  BY <1>3, <1>4 DEF RecordsInv, RecordsTypeOK, Same
<1>6. RecordsTypeOK'
  BY <1>1, <1>4, <1>5 DEF RecordsInv, RecordsTypeOK
<1>7. TabFits(t)'
  BY <1>2, <1>3, <1>4, ActingOwner DEF TabFits, TabActive, Same
<1>8. ReportFits(t)'
  BY <1>1, <1>2, <1>3, <1>4, ActingOwner DEF ReportFits, TabActive, Same
<1>9. \A u \in Tabs : u # t => TabFits(u)' /\ ReportFits(u)'
  BY <1>1, <1>4, SameFits, SameAnswers DEF RecordsInv
<1>10. ASSUME cookie.client # None, Upset(t)'
       PROVE  FALSE
  BY <1>2, <1>3, <1>4, <1>10, ActingOwner DEF Upset, Same
<1>11. UnmovedIsFollowed'
  <2>1. Unmoved' = Unmoved
    BY <1>1 DEF Unmoved
  <2> QED
    BY <1>1, <1>4, <1>10, <2>1, SameIsFollowed DEF RecordsInv
<1> QED
  BY <1>4, <1>6, <1>7, <1>8, <1>9, <1>11 DEF RecordsInv

LEMMA AddStep ==
  ASSUME RecordsInv, NEW t \in Tabs, Add(t)
  PROVE  RecordsInv'
<1> DEFINE o == tab[t].owner
           i == tab[t].item
<1>1. /\ tab[t].pc = "adding" /\ tab[t].way = "record" /\ TabActive(t)
      /\ o \in Owners /\ i \in Items /\ tab[t].left = {}
  BY DEF Add, RecordsInv, RecordsTypeOK, TabFits, TabActive
<1>2. /\ kept' = [kept EXCEPT ![o] = @ \cup {i}]
      /\ UNCHANGED <<cookie, wanted, excused, untracked, signIns, troubles>>
  BY DEF Add
<1>3. /\ tab' \in [Tabs -> Tab]
      /\ \A u \in Tabs : u # t => tab'[u] = tab[u]
      /\ tab'[t].pc = "answering" /\ tab'[t].way = tab[t].way /\ tab'[t].owner = tab[t].owner
      /\ tab'[t].minted = tab[t].minted /\ tab'[t].item = tab[t].item
      /\ tab'[t].left = tab[t].left /\ tab'[t].overlapped = tab[t].overlapped
      /\ OverlapsKnown'
  BY <1>1, RequestTurns DEF Add
<1>4. /\ kept' \in [Owners -> SUBSET Items] /\ i \in kept'[o]
      /\ \A p \in Owners : kept[p] \subseteq kept'[p]
  BY <1>1, <1>2 DEF RecordsInv, RecordsTypeOK
<1>5. RecordsTypeOK'
  BY <1>1, <1>2, <1>3, <1>4 DEF RecordsInv, RecordsTypeOK
<1>6. TabFits(t)'
  BY <1>1, <1>3 DEF RecordsInv, TabFits, TabActive
<1>7. ReportFits(t)'
  BY <1>1, <1>2, <1>3, <1>4 DEF RecordsInv, ReportFits, TabActive
<1>8. \A u \in Tabs : u # t => Same(tab'[u], tab[u]) /\ tab'[u].overlapped = tab[u].overlapped
  BY <1>3 DEF Same
<1>9. \A u \in Tabs : u # t => TabFits(u)' /\ ReportFits(u)'
  <2>1. \A u \in Tabs : TabActive(u) => tab[u].owner \in Owners
    BY DEF RecordsInv, TabFits
  <2> QED
    BY <1>2, <1>4, <1>8, <2>1, SameFits, SameAnswers DEF RecordsInv
<1>10. UnmovedIsFollowed'
  <2>1. Unmoved' \subseteq Unmoved
    BY <1>2, <1>4, ItemsAndOwners DEF Unmoved
  <2>2. cookie.client \in Owners \/ cookie.client = None
    BY ItemsAndOwners DEF RecordsInv, RecordsTypeOK
  <2>3. ASSUME NEW j \in Unmoved', j \in kept[cookie.client], cookie.client # None
        PROVE  j \in kept'[cookie.client]
    BY <1>4, <2>2, <2>3
  <2>4. ASSUME NEW j \in Unmoved', TabActive(t), Upset(t)
        PROVE  FALSE
    <3>1. tab[t].way # "record"
      BY <2>1, <2>4 DEF RecordsInv, UnmovedIsFollowed
    <3> QED
      BY <1>1, <3>1
  <2>5. ASSUME NEW j \in Unmoved', Upset(t)'
        PROVE  FALSE
    BY <1>1, <1>3, <2>4, <2>5 DEF Upset
  <2>6. \A j \in Unmoved' : cookie.client # None
    BY <2>1 DEF RecordsInv, UnmovedIsFollowed
  <2> QED
    BY <1>2, <1>8, <2>1, <2>3, <2>5, <2>6, SameIsFollowed DEF RecordsInv
<1> QED
  BY <1>3, <1>5, <1>6, <1>7, <1>9, <1>10 DEF RecordsInv

\* Nothing waits to be moved when it could not be.
LEMMA NothingUnmoved ==
  ASSUME RecordsInv, NEW t \in Tabs, TabActive(t), Upset(t),
         \A i \in Items : ~(tab[t].way # "record" /\ Pending(t, i))
  PROVE  Unmoved = {}
<1>1. Unmoved \subseteq Items
  BY DEF RecordsInv, RecordsTypeOK, Unmoved
<1> QED
  BY <1>1 DEF RecordsInv, UnmovedIsFollowed

LEMMA AnswerStep ==
  ASSUME RecordsInv, NEW t \in Tabs, Answer(t)
  PROVE  RecordsInv'
<1> DEFINE o == tab[t].owner
           i == tab[t].item
<1>1. /\ tab[t].pc = "answering" /\ tab[t].way = "record" /\ TabActive(t)
      /\ o \in Owners /\ i \in Items /\ (tab[t].minted => o \in Clients)
      /\ tab' = [tab EXCEPT ![t] = Closed]
      /\ UNCHANGED <<kept, signIns, troubles>>
  BY DEF Answer, RecordsInv, TabFits, TabActive
<1>2. /\ cookie' = IF tab[t].minted /\ i \in Homework
                   THEN [cookie EXCEPT !.client = o] ELSE cookie
      /\ untracked' = IF tab[t].minted /\ i \notin Homework THEN untracked \cup {i}
                      ELSE untracked
      /\ wanted' = wanted \cup {i}
      /\ excused' = IF tab[t].overlapped THEN excused \cup {i} ELSE excused
  BY DEF Answer, SetsCookie
<1>3. /\ tab' \in [Tabs -> Tab]
      /\ \A u \in Tabs : u # t => tab'[u] = tab[u]
      /\ tab'[t] = Closed
      /\ OverlapsKnown'
  BY <1>1, RequestEnds
<1>4. cookie \in [client : Clients \cup {None}, signedIn : BOOLEAN]
  BY DEF RecordsInv, RecordsTypeOK
<1>5. /\ cookie' \in [client : Clients \cup {None}, signedIn : BOOLEAN]
      /\ tab[t].minted /\ i \in Homework => cookie'.client = o
      /\ ~(tab[t].minted /\ i \in Homework) => cookie' = cookie
  BY <1>1, <1>2, <1>4
<1>6. wanted' \subseteq Items /\ excused' \subseteq Items /\ untracked' \subseteq Posts
  BY <1>1, <1>2, ItemsAndOwners DEF RecordsInv, RecordsTypeOK
<1>7. \A u \in Tabs : tab'[u].left # {} => tab'[u].pc = "copying"
  BY <1>3 DEF RecordsInv, RecordsTypeOK, Closed
<1>8. RecordsTypeOK'
  BY <1>1, <1>3, <1>5, <1>6, <1>7 DEF RecordsInv, RecordsTypeOK
<1>9. TabFits(t)' /\ ReportFits(t)'
  BY <1>3 DEF Closed, TabActive, TabFits, ReportFits
<1>10. \A u \in Tabs : u # t => Same(tab'[u], tab[u]) /\ tab'[u].overlapped = tab[u].overlapped
  BY <1>3 DEF Same
<1>11. ASSUME NEW u \in Tabs, u # t, TabActive(u), ~tab[u].overlapped
       PROVE  cookie'.client = cookie.client
  <2>1. ~Upset(t)
    BY <1>1, <1>11 DEF RecordsInv, OverlapsKnown
  <2> QED
    BY <1>5, <2>1 DEF Upset
<1>12. \A u \in Tabs : u # t => TabFits(u)' /\ ReportFits(u)'
  BY <1>1, <1>2, <1>10, <1>11, SameFits, SameAnswers DEF RecordsInv
<1>13. ASSUME tab[t].minted
       PROVE  Unmoved = {}
  <2>1. Upset(t)
    BY <1>13 DEF Upset
  <2> QED
    BY <1>1, <2>1, NothingUnmoved
<1>14. Unmoved' \subseteq Unmoved \cup {i}
  BY <1>1, <1>2 DEF Unmoved
<1>15. ASSUME i \in Unmoved', i \notin Unmoved
       PROVE  /\ ~tab[t].overlapped /\ cookie'.client = o /\ o # None /\ i \in kept'[o]
              /\ \A u \in Tabs : TabActive(u)' => ~Upset(u)'
  <2>1. i \notin excused' /\ i \notin untracked' /\ i \notin kept[Me]
    BY <1>1, <1>15 DEF Unmoved
  <2>2. ~tab[t].overlapped /\ i \notin excused
    BY <1>2, <2>1
  <2>3. i \in kept[o] /\ o # Me
    BY <1>1, <2>1, <2>2 DEF RecordsInv, ReportFits
  <2>4. o # None
    BY <1>1, <2>3, ItemsAndOwners DEF Owners
  <2>5. cookie'.client = o
    <3>1. CASE tab[t].minted
      BY <1>2, <1>5, <2>1, <3>1
    <3>2. CASE ~tab[t].minted
      BY <1>1, <1>5, <2>2, <2>3, <3>2 DEF RecordsInv, ReportFits
    <3> QED
      BY <3>1, <3>2
  <2>6. ASSUME NEW u \in Tabs, TabActive(u)'
        PROVE  ~Upset(u)'
    <3>1. u # t /\ TabActive(u)
      BY <1>3, <2>6 DEF TabActive, Closed
    <3>2. ~Upset(u)
      BY <1>1, <2>2, <3>1 DEF RecordsInv, OverlapsKnown
    <3> QED
      BY <1>10, <3>1, <3>2 DEF Upset, Same
  <2> QED
    BY <1>1, <2>2, <2>3, <2>4, <2>5, <2>6
<1>16. ASSUME NEW j \in Unmoved'
       PROVE  /\ cookie'.client # None /\ j \in kept'[cookie'.client]
              /\ \A u \in Tabs : TabActive(u)' /\ Upset(u)' =>
                   tab'[u].way # "record" /\ tab'[u].owner = cookie'.client /\ Pending(u, j)'
  <2>1. CASE j \notin Unmoved
    BY <1>14, <1>15, <2>1
  <2>2. CASE j \in Unmoved
    <3>1. ~tab[t].minted /\ cookie' = cookie
      BY <1>5, <1>13, <2>2
    <3>2. /\ cookie.client # None /\ j \in kept[cookie.client]
          /\ \A u \in Tabs : TabActive(u) /\ Upset(u) =>
               tab[u].way # "record" /\ tab[u].owner = cookie.client /\ Pending(u, j)
      BY <2>2 DEF RecordsInv, UnmovedIsFollowed
    <3>3. \A u \in Tabs : TabActive(u)' => u # t
      BY <1>3 DEF TabActive, Closed
    <3>4. \A u \in Tabs : TabActive(u)' /\ Upset(u)' =>
            tab'[u].way # "record" /\ tab'[u].owner = cookie.client /\ Pending(u, j)'
      BY <1>3, <3>2, <3>3 DEF TabActive, Upset, Pending
    <3> QED
      BY <1>1, <3>1, <3>2, <3>4
  <2> QED
    BY <2>1, <2>2
<1>17. UnmovedIsFollowed'
  BY <1>16 DEF UnmovedIsFollowed
<1> QED
  BY <1>3, <1>8, <1>9, <1>12, <1>17 DEF RecordsInv

LEMMA GetClientIdStep ==
  ASSUME RecordsInv, GetClientId
  PROVE  RecordsInv'
<1>1. /\ cookie.client = None /\ \A t \in Tabs : ~TabActive(t)
      /\ UNCHANGED <<kept, tab, wanted, excused, untracked, signIns, troubles>>
  BY DEF GetClientId, TabActive
<1>2. cookie' \in [client : Clients \cup {None}, signedIn : BOOLEAN]
  BY DEF GetClientId, FreshClients, RecordsInv, RecordsTypeOK
<1>3. RecordsTypeOK'
  BY <1>1, <1>2 DEF RecordsInv, RecordsTypeOK
<1>4. \A t \in Tabs : TabFits(t)' /\ ReportFits(t)'
  BY <1>1 DEF RecordsInv, TabFits, ReportFits, TabActive
<1>5. OverlapsKnown'
  BY <1>1 DEF OverlapsKnown, TabActive
<1>6. Unmoved' = {}
  <2>1. Unmoved' = Unmoved
    BY <1>1 DEF Unmoved
  <2> QED
    BY <1>1, <2>1 DEF RecordsInv, UnmovedIsFollowed
<1> QED
  BY <1>3, <1>4, <1>5, <1>6 DEF RecordsInv, UnmovedIsFollowed

LEMMA TakeBackStep ==
  ASSUME RecordsInv, NEW i \in Homework, TakeBack(i)
  PROVE  RecordsInv'
<1>1. PICK owner \in Owners : kept' = [kept EXCEPT ![owner] = @ \ {i}]
  BY DEF TakeBack
<1>2. /\ wanted' = wanted \ {i}
      /\ excused' = IF \E t \in Tabs : tab[t].item = i THEN excused \cup {i} ELSE excused
      /\ UNCHANGED <<untracked, cookie, tab, signIns, troubles>>
  BY DEF TakeBack
<1>3. /\ kept' \in [Owners -> SUBSET Items]
      /\ \A o \in Owners, j \in Items : j # i => (j \in kept'[o] <=> j \in kept[o])
  BY <1>1 DEF RecordsInv, RecordsTypeOK
<1>4. i \in Items /\ excused \subseteq excused' /\ excused' \subseteq Items
  BY <1>2, ItemsAndOwners DEF RecordsInv, RecordsTypeOK
<1>5. RecordsTypeOK'
  BY <1>2, <1>3, <1>4 DEF RecordsInv, RecordsTypeOK
<1>6. \A u \in Tabs : Same(tab'[u], tab[u]) /\ tab'[u].overlapped = tab[u].overlapped
  BY <1>2 DEF Same
<1>7. ASSUME NEW u \in Tabs, TabActive(u), tab[u].item \notin excused',
             tab[u].item \in kept[tab[u].owner]
      PROVE  tab[u].item \in kept'[tab[u].owner]
  <2>1. tab[u].item # i /\ tab[u].owner \in Owners
    BY <1>2, <1>7 DEF RecordsInv, TabFits
  <2>2. tab[u].item \in Items
    BY <1>7, <2>1 DEF RecordsInv, RecordsTypeOK
  <2> QED
    BY <1>3, <1>7, <2>1, <2>2
<1>8. \A u \in Tabs : TabFits(u)' /\ ReportFits(u)'
  BY <1>2, <1>4, <1>6, <1>7, SameFits, SameAnswers DEF RecordsInv
<1>9. OverlapsKnown'
  BY <1>2 DEF RecordsInv, OverlapsKnown, TabActive, Upset
<1>10. UnmovedIsFollowed'
  <2>1. Unmoved' \subseteq Unmoved
    BY <1>2, <1>3, <1>4, ItemsAndOwners DEF RecordsInv, RecordsTypeOK, Unmoved
  <2>2. ASSUME NEW j \in Unmoved', j \in kept[cookie.client]
        PROVE  j \in kept'[cookie.client]
    <3>1. j # i /\ j \in Items
      BY <1>2 DEF RecordsInv, RecordsTypeOK, Unmoved
    <3>2. cookie.client \in Owners
      BY <2>1, ItemsAndOwners DEF RecordsInv, RecordsTypeOK, UnmovedIsFollowed
    <3> QED
      BY <1>3, <2>2, <3>1, <3>2
  <2> QED
    BY <1>2, <1>6, <2>1, <2>2, SameIsFollowed DEF RecordsInv
<1> QED
  BY <1>5, <1>8, <1>9, <1>10 DEF RecordsInv

LEMMA SignInStep ==
  ASSUME RecordsInv, NEW t \in Tabs, NEW way \in {"login", "signup"}, SignInReader(t, way)
  PROVE  RecordsInv'
<1>1. /\ tab[t].pc = "idle" /\ ~cookie.signedIn
      /\ signIns < MaxSignIns /\ signIns' = signIns + 1
      /\ UNCHANGED <<kept, cookie, wanted, excused, untracked, troubles>>
  BY DEF SignInReader
<1>2. PICK owner \in Clients, minted \in BOOLEAN :
        /\ Acting(owner, minted)
        /\ Start(t, [Closed EXCEPT !.pc = "reads", !.way = way, !.owner = owner,
                                   !.minted = minted])
  BY DEF SignInReader
<1> DEFINE fields == [Closed EXCEPT !.pc = "reads", !.way = way, !.owner = owner,
                                    !.minted = minted]
<1>3. /\ fields \in Tab /\ fields.pc = "reads" /\ fields.way = way
      /\ fields.owner = owner /\ fields.minted = minted /\ fields.left = {}
  BY ItemsAndOwners DEF Closed, Tab
<1> HIDE DEF fields
<1>4. /\ tab' \in [Tabs -> Tab]
      /\ \A u \in Tabs : u # t =>
           Same(tab'[u], tab[u]) /\ (tab[u].overlapped => tab'[u].overlapped)
      /\ Same(tab'[t], fields)
      /\ OverlapsKnown'
  <2>1. Start(t, fields)
    BY <1>2 DEF fields
  <2> QED
    BY <1>1, <1>3, <2>1, RequestStarts DEF TabActive
<1>5. \A u \in Tabs : tab'[u].left # {} => tab'[u].pc = "copying"
  BY <1>3, <1>4 DEF RecordsInv, RecordsTypeOK, Same
<1>6. RecordsTypeOK'
  <2>1. signIns' \in 0..MaxSignIns
    BY <1>1, ReaderAssumption DEF RecordsInv, RecordsTypeOK
  <2> QED
    BY <1>1, <1>4, <1>5, <2>1 DEF RecordsInv, RecordsTypeOK
<1>7. TabFits(t)' /\ ReportFits(t)'
  BY <1>2, <1>3, <1>4, ItemsAndOwners DEF TabFits, ReportFits, TabActive, Same
<1>8. \A u \in Tabs : u # t => TabFits(u)' /\ ReportFits(u)'
  BY <1>1, <1>4, SameFits, SameAnswers DEF RecordsInv
<1>9. ASSUME cookie.client # None
      PROVE  owner = cookie.client
  BY <1>1, <1>2, <1>9, ItemsAndOwners DEF Acting
<1>10. UnmovedIsFollowed'
  <2>1. Unmoved' = Unmoved
    BY <1>1 DEF Unmoved
  <2>2. \A j \in Unmoved' : cookie.client # None =>
          tab'[t].way # "record" /\ tab'[t].owner = cookie.client /\ Pending(t, j)'
    BY <1>3, <1>4, <1>9 DEF Pending, Same
  <2> QED
    BY <1>1, <1>4, <2>1, <2>2, SameIsFollowed DEF RecordsInv
<1> QED
  BY <1>4, <1>6, <1>7, <1>8, <1>10 DEF RecordsInv

\* A sign-in that moves something: whose it is, and what it may hold.
LEMMA MoveOwner ==
  ASSUME RecordsInv, NEW t \in Tabs,
         tab[t].pc \in {"reads", "listing", "copying", "deleting"}
  PROVE  /\ TabActive(t) /\ Upset(t) /\ tab[t].way # "record"
         /\ tab[t].owner \in Clients /\ tab[t].owner # Me
         /\ \A i \in Unmoved : tab[t].owner = cookie.client
              /\ i \in kept[tab[t].owner] /\ i \in Items /\ Pending(t, i)
         /\ \A u \in Tabs : u # t /\ TabActive(u) => tab[u].overlapped
<1>1. TabActive(t) /\ tab[t].way # "record" /\ tab[t].owner \in Clients
  BY DEF RecordsInv, TabFits, TabActive
<1>2. Upset(t)
  BY <1>1 DEF Upset
<1>3. \A i \in Unmoved : i \in Items
  BY DEF RecordsInv, RecordsTypeOK, Unmoved
<1> QED
  BY <1>1, <1>2, <1>3, ItemsAndOwners DEF RecordsInv, UnmovedIsFollowed, OverlapsKnown

\* Others rest while a sign-in goes on: they know of it.
LEMMA OthersRest ==
  ASSUME RecordsInv, NEW t \in Tabs,
         tab[t].pc \in {"reads", "listing", "copying", "deleting"},
         excused \subseteq excused', \A u \in Tabs : u # t => tab'[u] = tab[u]
  PROVE  \A u \in Tabs : u # t => TabFits(u)' /\ ReportFits(u)'
<1>1. \A u \in Tabs : u # t => Same(tab'[u], tab[u]) /\ tab'[u].overlapped = tab[u].overlapped
  BY DEF Same
<1> QED
  BY <1>1, MoveOwner, SameFits, SameAnswers DEF RecordsInv

LEMMA MoveReadsStep ==
  ASSUME RecordsInv, NEW t \in Tabs, MoveReads(t)
  PROVE  RecordsInv'
<1> DEFINE c == tab[t].owner
<1>1. /\ tab[t].pc = "reads" /\ Turn(t, "listing")
      /\ kept' = [kept EXCEPT ![Me] = @ \cup (kept[c] \cap Posts), ![c] = @ \ Posts]
      /\ UNCHANGED <<cookie, wanted, excused, untracked, signIns, troubles>>
  BY DEF MoveReads
<1>2. /\ TabActive(t) /\ tab[t].way # "record" /\ c \in Clients /\ c # Me
      /\ c \in Owners /\ Me \in Owners /\ tab[t].left = {}
  BY <1>1, MoveOwner, ItemsAndOwners DEF RecordsInv, RecordsTypeOK
<1>3. /\ tab' \in [Tabs -> Tab]
      /\ \A u \in Tabs : u # t => tab'[u] = tab[u]
      /\ tab'[t].pc = "listing" /\ tab'[t].way = tab[t].way /\ tab'[t].owner = c
      /\ tab'[t].minted = tab[t].minted /\ tab'[t].item = tab[t].item
      /\ tab'[t].left = tab[t].left
      /\ OverlapsKnown'
  BY <1>1, <1>2, RequestTurns
<1>4. kept \in [Owners -> SUBSET Items]
  BY DEF RecordsInv, RecordsTypeOK
<1>5. /\ kept' \in [Owners -> SUBSET Items]
      /\ kept'[Me] = kept[Me] \cup (kept[c] \cap Posts)
      /\ kept'[c] = kept[c] \ Posts
  BY <1>1, <1>2, <1>4, ItemsAndOwners
<1>6. RecordsTypeOK'
  BY <1>1, <1>2, <1>3, <1>5 DEF RecordsInv, RecordsTypeOK
<1>7. TabFits(t)' /\ ReportFits(t)'
  BY <1>2, <1>3 DEF RecordsInv, TabFits, ReportFits, TabActive
<1>8. \A u \in Tabs : u # t => TabFits(u)' /\ ReportFits(u)'
  BY <1>1, <1>3, OthersRest
<1>9. UnmovedIsFollowed'
  <2>1. Unmoved' \subseteq Unmoved
    BY <1>1, <1>5 DEF Unmoved
  <2>2. ASSUME NEW j \in Unmoved'
        PROVE  /\ c = cookie.client /\ j \in kept'[c] /\ Pending(t, j)'
    <3>1. c = cookie.client /\ j \in kept[c] /\ j \in Items
      BY <1>1, <2>1, MoveOwner
    <3>2. j \notin Posts
      BY <1>5, <3>1 DEF Unmoved
    <3> QED
      BY <1>3, <1>5, <3>1, <3>2, ItemsAndOwners DEF Pending
  <2>3. \A u \in Tabs : u # t => Same(tab'[u], tab[u])
    BY <1>3 DEF Same
  <2> QED
    BY <1>1, <1>2, <1>3, <2>1, <2>2, <2>3, SameIsFollowed DEF RecordsInv
<1> QED
  BY <1>3, <1>6, <1>7, <1>8, <1>9 DEF RecordsInv

LEMMA ListHomeworkStep ==
  ASSUME RecordsInv, NEW t \in Tabs, ListHomework(t)
  PROVE  RecordsInv'
<1> DEFINE found == kept[tab[t].owner] \cap Homework
<1>1. /\ tab[t].pc = "listing"
      /\ tab' = [tab EXCEPT ![t].left = found, ![t].pc = NextOf(found)]
      /\ UNCHANGED <<kept, cookie, wanted, excused, untracked, signIns, troubles>>
  BY DEF ListHomework
<1>2. tab \in [Tabs -> Tab] /\ OverlapsKnown
  BY DEF RecordsInv, RecordsTypeOK
<1>3. /\ TabActive(t) /\ tab[t].way # "record" /\ tab[t].owner \in Clients
      /\ tab[t].owner \in Owners
  BY <1>1, MoveOwner, ItemsAndOwners
<1>4. found \in SUBSET Homework /\ NextOf(found) \in {"answering", "copying"}
  BY DEF NextOf
<1>5. /\ tab' \in [Tabs -> Tab]
      /\ \A u \in Tabs : u # t => tab'[u] = tab[u]
      /\ tab'[t].pc = NextOf(found) /\ tab'[t].left = found
      /\ tab'[t].way = tab[t].way /\ tab'[t].owner = tab[t].owner
      /\ tab'[t].minted = tab[t].minted /\ tab'[t].overlapped = tab[t].overlapped
  <2> HIDE DEF found
  <2> QED
    BY <1>1, <1>2, <1>4 DEF Tab
<1>6. \A u \in Tabs : tab'[u].left # {} => tab'[u].pc = "copying"
  BY <1>5 DEF RecordsInv, RecordsTypeOK, NextOf
<1>7. RecordsTypeOK'
  BY <1>1, <1>5, <1>6 DEF RecordsInv, RecordsTypeOK
<1>8. TabFits(t)' /\ ReportFits(t)'
  BY <1>3, <1>4, <1>5 DEF TabFits, ReportFits, TabActive
<1>9. \A u \in Tabs : u # t => TabFits(u)' /\ ReportFits(u)'
  BY <1>1, <1>5, OthersRest
<1>10. OverlapsKnown'
  <2>1. \A u \in Tabs : TabActive(u)' => /\ TabActive(u) /\ tab'[u].way = tab[u].way
                                      /\ tab'[u].minted = tab[u].minted
                                      /\ tab'[u].overlapped = tab[u].overlapped
    BY <1>3, <1>5 DEF TabActive
  <2> QED
    BY <1>2, <2>1, OverlapsStayKnown
<1>11. UnmovedIsFollowed'
  <2>1. Unmoved' = Unmoved
    BY <1>1 DEF Unmoved
  <2>2. ASSUME NEW j \in Unmoved
        PROVE  tab[t].owner = cookie.client /\ Pending(t, j)'
    <3>1. tab[t].owner = cookie.client /\ j \in kept[tab[t].owner] /\ Pending(t, j)
      BY <1>1, MoveOwner
    <3>2. j \in found
      BY <1>1, <3>1 DEF Pending
    <3>3. NextOf(found) = "copying"
      BY <3>2 DEF NextOf
    <3> QED
      BY <1>5, <3>1, <3>2, <3>3 DEF Pending
  <2>3. \A u \in Tabs : u # t => Same(tab'[u], tab[u])
    BY <1>5 DEF Same
  <2> QED
    BY <1>1, <1>3, <1>5, <2>1, <2>2, <2>3, SameIsFollowed DEF RecordsInv
<1> QED
  BY <1>7, <1>8, <1>9, <1>10, <1>11 DEF RecordsInv

LEMMA CopyHomeworkStep ==
  ASSUME RecordsInv, NEW t \in Tabs, CopyHomework(t)
  PROVE  RecordsInv'
<1>1. PICK i \in tab[t].left :
        /\ kept' = [kept EXCEPT ![Me] = @ \cup {i}]
        /\ tab' = [tab EXCEPT ![t].left = @ \ {i},
                              ![t].pc = IF tab[t].left = {i} THEN "deleting" ELSE @]
  BY DEF CopyHomework
<1>2. /\ tab[t].pc = "copying"
      /\ UNCHANGED <<cookie, wanted, excused, untracked, signIns, troubles>>
  BY DEF CopyHomework
<1>3. /\ tab \in [Tabs -> Tab] /\ OverlapsKnown /\ kept \in [Owners -> SUBSET Items]
      /\ tab[t].left \subseteq Homework
  BY DEF RecordsInv, RecordsTypeOK, Tab
<1>4. /\ TabActive(t) /\ tab[t].way # "record" /\ tab[t].owner \in Clients
      /\ tab[t].owner # Me /\ tab[t].owner \in Owners /\ Me \in Owners
  BY <1>2, MoveOwner, ItemsAndOwners
<1> DEFINE pc == IF tab[t].left = {i} THEN "deleting" ELSE "copying"
<1>5. /\ tab' \in [Tabs -> Tab]
      /\ \A u \in Tabs : u # t => tab'[u] = tab[u]
      /\ tab'[t].pc = pc /\ tab'[t].left = tab[t].left \ {i}
      /\ tab'[t].way = tab[t].way /\ tab'[t].owner = tab[t].owner
      /\ tab'[t].minted = tab[t].minted /\ tab'[t].overlapped = tab[t].overlapped
  <2> DEFINE rest == tab[t].left \ {i}
             next == [tab[t] EXCEPT !.left = rest, !.pc = pc]
  <2>1. tab[t] \in Tab /\ rest \in SUBSET Homework /\ pc \in {"deleting", "copying"}
    BY <1>3
  <2>2. tab' = [tab EXCEPT ![t] = next]
    BY <1>1, <1>2
  <2> HIDE DEF rest, pc
  <2>3. /\ next \in Tab /\ next.pc = pc /\ next.left = rest
        /\ next.way = tab[t].way /\ next.owner = tab[t].owner
        /\ next.minted = tab[t].minted /\ next.overlapped = tab[t].overlapped
    BY <2>1 DEF Tab
  <2> HIDE DEF next
  <2> QED
    BY <1>3, <2>2, <2>3 DEF rest
<1>6. /\ kept' \in [Owners -> SUBSET Items] /\ kept'[Me] = kept[Me] \cup {i}
      /\ \A o \in Owners : o # Me => kept'[o] = kept[o]
  BY <1>1, <1>3, <1>4, ItemsAndOwners
<1>7. \A u \in Tabs : tab'[u].left # {} => tab'[u].pc = "copying"
  BY <1>5 DEF RecordsInv, RecordsTypeOK
<1>8. RecordsTypeOK'
  BY <1>2, <1>5, <1>6, <1>7 DEF RecordsInv, RecordsTypeOK
<1>9. TabFits(t)' /\ ReportFits(t)'
  BY <1>4, <1>5 DEF TabFits, ReportFits, TabActive
<1>10. \A u \in Tabs : u # t => TabFits(u)' /\ ReportFits(u)'
  BY <1>2, <1>5, OthersRest
<1>11. OverlapsKnown'
  <2>1. \A u \in Tabs : TabActive(u)' => /\ TabActive(u) /\ tab'[u].way = tab[u].way
                                      /\ tab'[u].minted = tab[u].minted
                                      /\ tab'[u].overlapped = tab[u].overlapped
    BY <1>4, <1>5 DEF TabActive
  <2> QED
    BY <1>3, <2>1, OverlapsStayKnown
<1>12. UnmovedIsFollowed'
  <2>1. Unmoved' \subseteq Unmoved \ {i}
    BY <1>2, <1>6 DEF Unmoved
  <2>2. ASSUME NEW j \in Unmoved'
        PROVE  /\ tab[t].owner = cookie.client /\ j \in kept'[cookie.client]
               /\ Pending(t, j)'
    <3>1. /\ tab[t].owner = cookie.client /\ j \in kept[tab[t].owner]
          /\ Pending(t, j) /\ j # i
      BY <1>2, <2>1, MoveOwner
    <3>2. j \in tab[t].left
      BY <1>2, <3>1 DEF Pending
    <3>3. pc = "copying"
      BY <3>1, <3>2
    <3> QED
      BY <1>4, <1>5, <1>6, <3>1, <3>2, <3>3 DEF Pending
  <2>3. \A u \in Tabs : u # t => Same(tab'[u], tab[u])
    BY <1>5 DEF Same
  <2> QED
    BY <1>2, <1>4, <1>5, <2>1, <2>2, <2>3, SameIsFollowed DEF RecordsInv
<1> QED
  BY <1>8, <1>9, <1>10, <1>11, <1>12 DEF RecordsInv

LEMMA DeleteHomeworkStep ==
  ASSUME RecordsInv, NEW t \in Tabs, DeleteHomework(t)
  PROVE  RecordsInv'
<1>1. /\ tab[t].pc = "deleting" /\ Turn(t, "answering")
      /\ kept' = [kept EXCEPT ![tab[t].owner] = @ \ Homework]
      /\ UNCHANGED <<cookie, wanted, excused, untracked, signIns, troubles>>
  BY DEF DeleteHomework
<1>2. /\ TabActive(t) /\ Upset(t) /\ tab[t].way # "record" /\ tab[t].owner \in Clients
      /\ tab[t].owner # Me /\ tab[t].left = {}
  BY <1>1, MoveOwner DEF RecordsInv, RecordsTypeOK
<1>3. /\ tab' \in [Tabs -> Tab]
      /\ \A u \in Tabs : u # t => tab'[u] = tab[u]
      /\ tab'[t].pc = "answering" /\ tab'[t].way = tab[t].way
      /\ tab'[t].owner = tab[t].owner
      /\ tab'[t].minted = tab[t].minted /\ tab'[t].left = tab[t].left
      /\ OverlapsKnown'
  BY <1>1, <1>2, RequestTurns
<1>4. kept' \in [Owners -> SUBSET Items] /\ kept'[Me] = kept[Me]
  BY <1>1, <1>2, ItemsAndOwners DEF RecordsInv, RecordsTypeOK
<1>5. RecordsTypeOK'
  BY <1>1, <1>2, <1>3, <1>4 DEF RecordsInv, RecordsTypeOK
<1>6. TabFits(t)' /\ ReportFits(t)'
  BY <1>2, <1>3 DEF RecordsInv, TabFits, ReportFits, TabActive
<1>7. \A u \in Tabs : u # t => TabFits(u)' /\ ReportFits(u)'
  BY <1>1, <1>3, OthersRest
<1>8. Unmoved = {}
  BY <1>1, <1>2, NothingUnmoved DEF Pending
<1>9. Unmoved' = {}
  BY <1>1, <1>4, <1>8 DEF Unmoved
<1> QED
  BY <1>3, <1>5, <1>6, <1>7, <1>9 DEF RecordsInv, UnmovedIsFollowed

LEMMA SignedInStep ==
  ASSUME RecordsInv, NEW t \in Tabs, SignedIn(t)
  PROVE  RecordsInv'
<1>1. /\ tab[t].pc = "answering" /\ tab[t].way # "record"
      /\ cookie' = [client |-> None, signedIn |-> TRUE]
      /\ tab' = [tab EXCEPT ![t] = Closed]
      /\ UNCHANGED <<kept, wanted, excused, untracked, signIns, troubles>>
  BY DEF SignedIn
<1>2. TabActive(t) /\ Upset(t)
  BY <1>1 DEF TabActive, Upset
<1>3. /\ tab' \in [Tabs -> Tab]
      /\ \A u \in Tabs : u # t => tab'[u] = tab[u]
      /\ tab'[t] = Closed
      /\ OverlapsKnown'
  BY <1>1, RequestEnds
<1>4. \A u \in Tabs : tab'[u].left # {} => tab'[u].pc = "copying"
  BY <1>3 DEF RecordsInv, RecordsTypeOK, Closed
<1>5. RecordsTypeOK'
  BY <1>1, <1>3, <1>4 DEF RecordsInv, RecordsTypeOK
<1>6. TabFits(t)' /\ ReportFits(t)'
  BY <1>3 DEF Closed, TabActive, TabFits, ReportFits
<1>7. \A u \in Tabs : u # t => TabFits(u)' /\ ReportFits(u)'
  <2>1. \A u \in Tabs : u # t => Same(tab'[u], tab[u]) /\ tab'[u].overlapped = tab[u].overlapped
    BY <1>3 DEF Same
  <2>2. \A u \in Tabs : u # t /\ TabActive(u) => tab[u].overlapped
    BY <1>2 DEF RecordsInv, OverlapsKnown
  <2> QED
    BY <1>1, <2>1, <2>2, SameFits, SameAnswers DEF RecordsInv
<1>8. Unmoved = {}
  BY <1>1, <1>2, NothingUnmoved DEF Pending
<1>9. Unmoved' = {}
  BY <1>1, <1>8 DEF Unmoved
<1> QED
  BY <1>3, <1>5, <1>6, <1>7, <1>9 DEF RecordsInv, UnmovedIsFollowed

LEMMA MoveFailsStep ==
  ASSUME RecordsInv, NEW t \in Tabs, MoveFails(t)
  PROVE  RecordsInv'
<1> DEFINE c == tab[t].owner
<1>1. /\ tab[t].pc \in {"reads", "listing", "copying", "deleting"}
      /\ troubles < MaxTroubles /\ troubles' = troubles + 1
      /\ cookie' = [signedIn |-> TRUE,
                    client |-> IF tab[t].way = "signup" THEN c ELSE None]
      /\ excused' = IF tab[t].way = "signup" THEN excused ELSE excused \cup kept[c]
      /\ tab' = [tab EXCEPT ![t] = Closed]
      /\ UNCHANGED <<kept, wanted, untracked, signIns>>
  BY DEF MoveFails, KeepsCookie
<1>2. /\ TabActive(t) /\ c \in Clients /\ c \in Owners
      /\ \A i \in Unmoved : c = cookie.client /\ i \in kept[c]
      /\ \A u \in Tabs : u # t /\ TabActive(u) => tab[u].overlapped
  BY <1>1, MoveOwner, ItemsAndOwners
<1>3. /\ tab' \in [Tabs -> Tab]
      /\ \A u \in Tabs : u # t => tab'[u] = tab[u]
      /\ tab'[t] = Closed
      /\ OverlapsKnown'
  BY <1>1, RequestEnds
<1>4. \A u \in Tabs : tab'[u].left # {} => tab'[u].pc = "copying"
  BY <1>3 DEF RecordsInv, RecordsTypeOK, Closed
<1>5. cookie' \in [client : Clients \cup {None}, signedIn : BOOLEAN]
  BY <1>1, <1>2
<1>6. excused' \subseteq Items /\ excused \subseteq excused'
  BY <1>1, <1>2 DEF RecordsInv, RecordsTypeOK
<1>7. troubles' \in 0..MaxTroubles
  BY <1>1, ReaderAssumption DEF RecordsInv, RecordsTypeOK
<1>8. RecordsTypeOK'
  BY <1>1, <1>3, <1>4, <1>5, <1>6, <1>7 DEF RecordsInv, RecordsTypeOK
<1>9. TabFits(t)' /\ ReportFits(t)'
  BY <1>3 DEF Closed, TabActive, TabFits, ReportFits
<1>10. \A u \in Tabs : u # t => TabFits(u)' /\ ReportFits(u)'
  BY <1>1, <1>3, <1>6, OthersRest
<1>11. UnmovedIsFollowed'
  <2>1. CASE tab[t].way # "signup"
    <3>1. Unmoved' = {}
      BY <1>1, <1>2, <2>1 DEF Unmoved
    <3> QED
      BY <3>1 DEF UnmovedIsFollowed
  <2>2. CASE tab[t].way = "signup"
    <3>1. Unmoved' = Unmoved /\ cookie'.client = c
      BY <1>1, <2>2 DEF Unmoved
    <3>2. ASSUME NEW j \in Unmoved
          PROVE  /\ cookie'.client # None /\ j \in kept'[cookie'.client]
                 /\ \A u \in Tabs : TabActive(u)' /\ Upset(u)' =>
                      tab'[u].way # "record" /\ tab'[u].owner = cookie'.client
                      /\ Pending(u, j)'
      <4>1. cookie'.client = cookie.client /\ c # None /\ j \in kept[c]
        BY <1>2, <3>1, ItemsAndOwners
      <4>2. \A u \in Tabs : TabActive(u) /\ Upset(u) =>
              tab[u].way # "record" /\ tab[u].owner = cookie.client /\ Pending(u, j)
        BY <3>2 DEF RecordsInv, UnmovedIsFollowed
      <4>3. \A u \in Tabs : TabActive(u)' => u # t
        BY <1>3 DEF TabActive, Closed
      <4>4. \A u \in Tabs : TabActive(u)' /\ Upset(u)' =>
              tab'[u].way # "record" /\ tab'[u].owner = cookie.client /\ Pending(u, j)'
        BY <1>3, <4>2, <4>3 DEF TabActive, Upset, Pending
      <4> QED
        BY <1>1, <1>2, <4>1, <4>4
    <3> QED
      BY <3>1, <3>2 DEF UnmovedIsFollowed
  <2> QED
    BY <2>1, <2>2
<1> QED
  BY <1>3, <1>8, <1>9, <1>10, <1>11 DEF RecordsInv

LEMMA SessionMoves ==
  ASSUME RecordsInv, PasskeySignIn \/ SignOutReader
  PROVE  RecordsInv'
<1>1. /\ cookie' \in [client : Clients \cup {None}, signedIn : BOOLEAN]
      /\ cookie'.client = cookie.client
      /\ UNCHANGED <<kept, tab, wanted, excused, untracked, troubles>>
  BY DEF PasskeySignIn, SignOutReader, RecordsInv, RecordsTypeOK
<1>2. signIns' \in 0..MaxSignIns
  BY ReaderAssumption DEF PasskeySignIn, SignOutReader, RecordsInv, RecordsTypeOK
<1>3. RecordsTypeOK'
  BY <1>1, <1>2 DEF RecordsInv, RecordsTypeOK
<1>4. \A t \in Tabs : TabFits(t)' /\ ReportFits(t)'
  BY <1>1 DEF RecordsInv, TabFits, ReportFits, TabActive
<1>5. OverlapsKnown'
  BY <1>1 DEF RecordsInv, OverlapsKnown, TabActive, Upset
<1>6. UnmovedIsFollowed'
  <2>1. Unmoved' = Unmoved
    BY <1>1 DEF Unmoved
  <2> QED
    BY <1>1, <2>1 DEF RecordsInv, UnmovedIsFollowed, TabActive, Upset, Pending
<1> QED
  BY <1>3, <1>4, <1>5, <1>6 DEF RecordsInv

LEMMA RecordsKeep == RecordsInv /\ [RecordsNext]_recordVars => RecordsInv'
<1> SUFFICES ASSUME RecordsInv, [RecordsNext]_recordVars PROVE RecordsInv'
  OBVIOUS
<1>1. ASSUME NEW t \in Tabs,
             \/ \E i \in Items : Record(t, i)
             \/ Add(t) \/ Answer(t)
             \/ SignInReader(t, "login") \/ SignInReader(t, "signup")
             \/ MoveReads(t) \/ ListHomework(t) \/ CopyHomework(t) \/ DeleteHomework(t)
             \/ SignedIn(t) \/ MoveFails(t)
      PROVE  RecordsInv'
  BY <1>1, RecordStep, AddStep, AnswerStep, SignInStep, MoveReadsStep, ListHomeworkStep,
     CopyHomeworkStep, DeleteHomeworkStep, SignedInStep, MoveFailsStep
<1>2. CASE UNCHANGED recordVars
  BY <1>2 DEF recordVars, RecordsInv, RecordsTypeOK, TabFits, ReportFits, OverlapsKnown,
              Upset, TabActive, UnmovedIsFollowed, Unmoved, Pending
<1>3. CASE RecordsNext
  BY <1>1, <1>3, TakeBackStep, GetClientIdStep, SessionMoves DEF RecordsNext
<1> QED
  BY <1>2, <1>3

\* Every variable of the reader's records holds a value of its kind, and completions
\* that were read are copied before anything is deleted, for any number of tabs,
\* client ids and items.
THEOREM RecordsTyped == RecordsSpec => []RecordsTypeOK
<1>1. RecordsSpec => []RecordsInv
  BY RecordsStart, RecordsKeep, PTL DEF RecordsSpec
<1> QED
  BY <1>1, PTL DEF RecordsInv

\* Homework done and posts read are not lost by signing in, whatever the ways in and
\* out, the statement that fails and the requests that overlap, but for what the
\* property excepts.
THEOREM RecordsFollow == RecordsSpec => []NothingDoneIsLost
<1>1. RecordsSpec => []RecordsInv
  BY RecordsStart, RecordsKeep, PTL DEF RecordsSpec
<1> QED
  BY <1>1, FollowedItems, PTL

-----------------------------------------------------------------------------
(* The recorder: the inductive invariant.                                  *)

OnScreen(n) == n = current /\ screen \in RecordingScreens

\* A recorder that records, or will once it is permitted, is that of the screen; its
\* tracks stay open only while its last data is on the way.
ActorFits(n) ==
  /\ actor[n].live =>
       /\ OnScreen(n) /\ actor[n].pc \in {"recording", "paused", "inactive"}
       /\ actor[n].pc = "inactive" => screen = "stopping"
  /\ actor[n].pc \in {"recording", "paused"} => OnScreen(n)
  /\ actor[n].pc = "asking" /\ ~actor[n].cancelled => OnScreen(n)

\* If no button was lost, the recorder does what the screen says.
ScreenFits ==
  screen \in RecordingScreens =>
    /\ current \in Recordings /\ ~actor[current].cancelled
    /\ ~ignored =>
         /\ actor[current].pc \in {"asking", "recording", "paused", "inactive"}
         /\ actor[current].pc = "inactive" => actor[current].data
         /\ screen = "paused" => actor[current].pc \in {"paused", "inactive"}
         /\ screen = "stopping" => actor[current].pc = "inactive"

\* The question that is heard in an audio.
Heard(audio) == IF audio \in Questions THEN audio ELSE None

\* Only the form has a text, that of its audio.
FormFits ==
  /\ screen # "form" => text = None /\ ~late
  /\ screen = "form" /\ ~late => text = Heard(blob)

SpeechFits(r) ==
  /\ speech[r].pc # "none" => speech[r].of \in Questions
  /\ speech[r].pc = "asked" \/ speech[r].current =>
       screen = "typing" /\ speech[r].of = question

\* A submission whose answer is awaited is of the audio in the form, unless that came
\* late.
AnswerIsOfForm(p) ==
  /\ submission[p].watched =>
       /\ screen = "form" /\ submission[p].state # "none"
       /\ ~late => submission[p].of = blob /\ ~submission[p].late
  /\ submission[p].state # "none" /\ ~submission[p].late =>
       submission[p].text = Heard(submission[p].of)

\* A recording that was submitted is over, and is in the form only as long as the
\* answer is awaited or when it failed.
RecordingIsOver(p) ==
  submission[p].of \in Recordings =>
    /\ submission[p].of <= current
    /\ submission[p].of = current => screen \notin RecordingScreens \cup {"done"}
    /\ submission[p].of = blob =>
         screen = "form" /\ (submission[p].watched \/ submission[p].failed)

\* One answer is awaited at a time, and of two submissions of a recording one failed.
OnceEach ==
  \A p, q \in Submissions :
    p # q =>
      /\ ~submission[p].watched \/ ~submission[q].watched
      /\ submission[p].of \in Recordings /\ submission[q].of = submission[p].of =>
           submission[p].failed \/ submission[q].failed

ActorsFit == ScreenFits /\ \A n \in Recordings : ActorFits(n)
TextsFit == /\ FormFits
            /\ \A r \in Speeches : SpeechFits(r)
            /\ \A p \in Submissions : AnswerIsOfForm(p)
SubmissionsFit == /\ OnceEach /\ \A p \in Submissions : RecordingIsOver(p)
                  /\ blob \in Recordings => blob <= current

RecorderInv == RecordingTypeOK /\ ActorsFit /\ TextsFit /\ SubmissionsFit

LEMMA RecordingNumbers ==
  /\ MaxRecordings \in Nat /\ MaxSubmissions \in Nat /\ MaxAccidents \in Nat
  /\ Recordings \subseteq Nat /\ 0 \notin Recordings /\ Recordings \subseteq 0..MaxRecordings
  /\ \A n \in Recordings : n >= 1 /\ n <= MaxRecordings
  /\ \A n \in 0..MaxRecordings : n # 0 => n \in Recordings
  /\ \A q \in Questions : q \notin Recordings /\ q # 0 /\ q # None
  /\ Recordings \subseteq Audio /\ Questions \subseteq Audio /\ 0 \in Audio
  /\ None \notin Questions
BY RecordingAssumption DEF Recordings, Audio

\* A set without two members has one at most.
LEMMA AtMostOne ==
  ASSUME NEW S, \A x, y \in S : x = y
  PROVE  Cardinality(S) <= 1
<1>1. CASE S = {}
  BY <1>1, FS_EmptySet
<1>2. CASE S # {}
  <2>1. PICK x \in S : S = {x}
    BY <1>2
  <2> QED
    BY <2>1, FS_Singleton
<1> QED
  BY <1>1, <1>2

LEMMA HonestRecorder ==
  ASSUME RecorderInv
  PROVE  RecorderIsHonest
<1>1. ScreenIsHonest
  BY DEF RecorderInv, ActorsFit, ScreenFits, ActorFits, OnScreen, ScreenIsHonest,
         RecordingScreens
<1>2. SubmittedOnce
  <2> SUFFICES ASSUME NEW n \in Recordings
               PROVE  Cardinality({p \in Submissions :
                        submission[p].of = n /\ ~submission[p].failed}) <= 1
    BY DEF SubmittedOnce
  <2> QED
    BY AtMostOne DEF RecorderInv, SubmissionsFit, OnceEach
<1>3. TextIsWhatIsHeard
  BY DEF RecorderInv, TextsFit, SpeechFits, AnswerIsOfForm, Heard, TextIsWhatIsHeard
<1> QED
  BY <1>1, <1>2, <1>3 DEF RecorderIsHonest

LEMMA RecorderStart == RecordingInit => RecorderInv
<1> SUFFICES ASSUME RecordingInit PROVE RecorderInv
  OBVIOUS
<1>1. RecordingTypeOK
  <2>1. actor \in [Recordings -> Actor] /\ speech \in [Speeches -> Speech]
    BY DEF RecordingInit, Actor, NoActor, Speech, NoSpeech
  <2>2. submission \in [Submissions -> Submission]
    BY RecordingNumbers DEF RecordingInit, Submission, NoSubmission
  <2>3. current \in 0..MaxRecordings /\ accidents \in 0..MaxAccidents
    BY RecordingAssumption DEF RecordingInit
  <2>4. /\ screen \in RecorderScreens /\ screen \notin {"done", "form"}
        /\ devices \in BOOLEAN /\ ignored \in BOOLEAN /\ late \in BOOLEAN
        /\ blob \in Audio /\ question = None /\ text = None
    BY RecordingNumbers DEF RecordingInit, RecorderScreens
  <2> QED
    BY <2>1, <2>2, <2>3, <2>4 DEF RecordingTypeOK
<1>2. ActorsFit
  BY DEF RecordingInit, ActorsFit, ScreenFits, ActorFits, NoActor, RecordingScreens
<1>3. TextsFit
  BY DEF RecordingInit, TextsFit, FormFits, SpeechFits, AnswerIsOfForm, NoSpeech, NoSubmission
<1>4. SubmissionsFit
  BY RecordingNumbers
  DEF RecordingInit, SubmissionsFit, OnceEach, RecordingIsOver, NoSubmission
<1> QED
  BY <1>1, <1>2, <1>3, <1>4 DEF RecorderInv

-----------------------------------------------------------------------------
(* What a step leaves alone.                                               *)

LEMMA ActorsRest ==
  ASSUME RecorderInv, UNCHANGED <<current, actor, ignored>>,
         screen' = screen \/ {screen, screen'} \cap RecordingScreens = {}
  PROVE  ActorsFit'
<1>1. ScreenFits'
  BY DEF RecorderInv, ActorsFit, ScreenFits
<1>2. \A n \in Recordings : ActorFits(n)'
  BY DEF RecorderInv, ActorsFit, ActorFits, OnScreen
<1> QED
  BY <1>1, <1>2 DEF ActorsFit

LEMMA TextsRest ==
  ASSUME RecorderInv, UNCHANGED <<questionVars, submission>>,
         \/ screen' = screen /\ blob' = blob
         \/ {screen, screen'} \cap {"typing", "form"} = {}
  PROVE  TextsFit'
<1>1. /\ text' = text /\ late' = late /\ question' = question /\ speech' = speech
      /\ submission' = submission
  BY DEF questionVars
<1>2. CASE screen' = screen /\ blob' = blob
  BY <1>1, <1>2 DEF RecorderInv, TextsFit, FormFits, SpeechFits, AnswerIsOfForm
<1>3. CASE {screen, screen'} \cap {"typing", "form"} = {}
  <2>1. screen \notin {"typing", "form"} /\ screen' \notin {"typing", "form"}
    BY <1>3
  <2>2. FormFits'
    BY <1>1, <2>1 DEF RecorderInv, TextsFit, FormFits
  <2>3. \A r \in Speeches : SpeechFits(r)'
    BY <1>1, <2>1 DEF RecorderInv, TextsFit, SpeechFits
  <2>4. \A p \in Submissions : AnswerIsOfForm(p)'
    BY <1>1, <2>1 DEF RecorderInv, TextsFit, AnswerIsOfForm
  <2> QED
    BY <2>2, <2>3, <2>4 DEF TextsFit
<1> QED
  BY <1>2, <1>3

LEMMA SubmissionsRest ==
  ASSUME RecorderInv, UNCHANGED <<submission, current>>,
         blob' = blob \/ blob' \notin Recordings,
         screen' = screen \/ screen # "form" \/ blob' \notin Recordings,
         screen' \in RecordingScreens \cup {"done"} =>
           screen \in RecordingScreens \cup {"done"}
  PROVE  SubmissionsFit'
<1>1. OnceEach'
  BY DEF RecorderInv, SubmissionsFit, OnceEach
<1>2. \A p \in Submissions : RecordingIsOver(p)'
  BY DEF RecorderInv, SubmissionsFit, RecordingIsOver
<1>3. blob' \in Recordings => blob' <= current'
  BY DEF RecorderInv, SubmissionsFit
<1> QED
  BY <1>1, <1>2, <1>3 DEF SubmissionsFit

LEMMA ShowStep ==
  ASSUME RecorderInv, NEW next, Show(next),
         next \in RecorderScreens \ (RecordingScreens \cup {"done"}),
         screen \notin RecordingScreens \cup {"typing", "form"}
  PROVE  RecorderInv'
<1>1. /\ screen' = next
      /\ UNCHANGED <<devices, current, actor, ignored, blob, questionVars, submission, accidents>>
  BY DEF Show
<1>2. /\ screen' \notin RecordingScreens \cup {"typing", "form", "done"}
      /\ screen' \in RecorderScreens
  BY <1>1 DEF RecorderScreens
<1>3. RecordingTypeOK'
  BY <1>1, <1>2 DEF RecorderInv, RecordingTypeOK, questionVars
<1>4. ActorsFit'
  BY <1>1, <1>2, ActorsRest
<1>5. TextsFit'
  BY <1>1, <1>2, TextsRest
<1>6. SubmissionsFit'
  BY <1>1, <1>2, SubmissionsRest
<1> QED
  BY <1>3, <1>4, <1>5, <1>6 DEF RecorderInv

LEMMA BeforeRecording ==
  ASSUME RecorderInv,
         \/ DevicesListed \/ NoDevices \/ Retry \/ ChangeDevice \/ SelectDevice
         \/ Restart \/ ReturnToPage
  PROVE  RecorderInv'
<1>1. ASSUME DevicesListed PROVE RecorderInv'
  <2>1. /\ screen = "devices" /\ screen' = "ready" /\ devices' \in BOOLEAN
        /\ UNCHANGED <<current, actor, ignored, blob, questionVars, submission, accidents>>
    BY <1>1 DEF DevicesListed
  <2>2. /\ {screen, screen'} \cap RecordingScreens = {}
        /\ {screen, screen'} \cap {"typing", "form"} = {}
        /\ screen' \notin RecordingScreens \cup {"done"}
    BY <2>1 DEF RecordingScreens
  <2>3. RecordingTypeOK'
    BY <2>1 DEF RecorderInv, RecordingTypeOK, questionVars, RecorderScreens
  <2> QED
    BY <2>1, <2>2, <2>3, ActorsRest, TextsRest, SubmissionsRest DEF RecorderInv
<1>2. ASSUME NoDevices \/ Retry \/ ChangeDevice \/ SelectDevice \/ Restart \/ ReturnToPage
      PROVE  RecorderInv'
  <2>1. /\ screen \in {"devices", "error", "ready", "selecting", "done", "away"}
        /\ \E next \in {"error", "devices", "selecting", "ready"} : Show(next)
    BY <1>2 DEF NoDevices, Retry, ChangeDevice, SelectDevice, Restart, ReturnToPage
  <2>2. screen \notin RecordingScreens \cup {"typing", "form"}
    BY <2>1 DEF RecordingScreens
  <2>3. {"error", "devices", "selecting", "ready"} \subseteq
          RecorderScreens \ (RecordingScreens \cup {"done"})
    BY DEF RecorderScreens, RecordingScreens
  <2> QED
    BY <2>1, <2>2, <2>3, ShowStep
<1> QED
  BY <1>1, <1>2

-----------------------------------------------------------------------------
(* The actors.                                                             *)

LEMMA Screens ==
  /\ RecordingScreens = {"playing", "paused", "stopping"}
  /\ RecordingScreens \subseteq RecorderScreens /\ "done" \in RecorderScreens
  /\ "ready" \notin RecordingScreens /\ "done" \notin RecordingScreens
  /\ "broken" \notin RecordingScreens /\ "broken" \notin RecorderScreens
  /\ "typing" \notin RecorderScreens /\ "form" \notin RecorderScreens
  /\ "away" \notin RecorderScreens /\ "devices" \in RecorderScreens
BY DEF RecordingScreens, RecorderScreens

LEMMA StartRecordingStep ==
  ASSUME RecorderInv, StartRecording
  PROVE  RecorderInv'
<1>1. /\ screen = "ready" /\ current < MaxRecordings
      /\ screen' = "playing" /\ current' = current + 1 /\ ignored' = FALSE
      /\ actor' = [actor EXCEPT ![current + 1] = [NoActor EXCEPT !.pc = "asking"]]
      /\ UNCHANGED <<devices, blob, questionVars, submission, accidents>>
  BY DEF StartRecording
<1>2. /\ current \in 0..MaxRecordings /\ actor \in [Recordings -> Actor]
      /\ current' \in Recordings /\ current' \in 0..MaxRecordings
      /\ current \in Nat /\ current' \in Nat /\ current' = current + 1
  BY <1>1, RecordingNumbers DEF RecorderInv, RecordingTypeOK, Recordings
<1>3. [NoActor EXCEPT !.pc = "asking"] \in Actor
  BY DEF NoActor, Actor
<1>4. /\ actor' \in [Recordings -> Actor]
      /\ actor'[current'].pc = "asking" /\ ~actor'[current'].live
      /\ ~actor'[current'].cancelled
      /\ \A n \in Recordings : n # current' => actor'[n] = actor[n]
  BY <1>1, <1>2, <1>3 DEF NoActor
<1>5. RecordingTypeOK'
  BY <1>1, <1>2, <1>4, Screens DEF RecorderInv, RecordingTypeOK, questionVars
<1>6. ActorsFit'
  <2>1. \A n \in Recordings : ~OnScreen(n)
    BY <1>1, Screens DEF OnScreen
  <2>2. \A n \in Recordings : n # current + 1 => ActorFits(n)'
    <3> SUFFICES ASSUME NEW n \in Recordings, n # current + 1 PROVE ActorFits(n)'
      OBVIOUS
    <3>1. actor'[n] = actor[n]
      BY <1>1, <1>2
    <3>2. ~actor[n].live /\ actor[n].pc \notin {"recording", "paused"}
          /\ (actor[n].pc = "asking" => actor[n].cancelled)
      BY <2>1 DEF RecorderInv, ActorsFit, ActorFits
    <3> QED
      BY <3>1, <3>2 DEF ActorFits
  <2>3. ASSUME NEW n \in Recordings, n = current + 1
        PROVE  ActorFits(n)'
    BY <1>1, <1>2, <1>4, <2>3, Screens DEF ActorFits, OnScreen
  <2>4. ScreenFits'
    BY <1>1, <1>2, <1>4 DEF ScreenFits
  <2> QED
    BY <2>2, <2>3, <2>4, ZenonT(30) DEF ActorsFit
<1>7. TextsFit'
  BY <1>1, TextsRest
<1>8. SubmissionsFit'
  <2>1. ASSUME NEW p \in Submissions, submission[p].of \in Recordings
        PROVE  /\ submission[p].of < current' /\ submission[p].of # blob
               /\ submission[p].of \in Nat
    BY <1>1, <1>2, <2>1, RecordingNumbers DEF RecorderInv, SubmissionsFit, RecordingIsOver
  <2>2. \A p \in Submissions : RecordingIsOver(p)'
    BY <1>1, <1>2, <2>1 DEF RecordingIsOver
  <2>3. OnceEach'
    BY <1>1 DEF RecorderInv, SubmissionsFit, OnceEach
  <2>4. blob' \in Recordings => blob' <= current'
    BY <1>1, <1>2, RecordingNumbers DEF RecorderInv, SubmissionsFit
  <2> QED
    BY <2>2, <2>3, <2>4 DEF SubmissionsFit
<1> QED
  BY <1>5, <1>6, <1>7, <1>8 DEF RecorderInv

\* A step of one actor that leaves the screen.
LEMMA ActorMoves ==
  ASSUME RecorderInv, NEW n \in Recordings, NEW a \in Actor,
         actor' = [actor EXCEPT ![n] = a],
         UNCHANGED <<screen, devices, current, blob, questionVars, submission>>,
         ignored' \in BOOLEAN, accidents' \in 0..MaxAccidents,
         a.live => /\ OnScreen(n) /\ a.pc \in {"recording", "paused", "inactive"}
                   /\ a.pc = "inactive" => screen = "stopping",
         a.pc \in {"recording", "paused"} \/ (a.pc = "asking" /\ ~a.cancelled) => OnScreen(n),
         OnScreen(n) /\ ~ignored' =>
           /\ ~ignored /\ a.pc \in {"recording", "paused", "inactive"}
           /\ a.pc = "inactive" => a.data
           /\ screen = "paused" => a.pc # "recording"
           /\ screen = "stopping" => a.pc = "inactive",
         n # current /\ ~ignored' => ~ignored, OnScreen(n) => ~a.cancelled
  PROVE  RecorderInv'
<1>1. actor \in [Recordings -> Actor]
  BY DEF RecorderInv, RecordingTypeOK
<1>2. /\ actor' \in [Recordings -> Actor] /\ actor'[n] = a
      /\ \A m \in Recordings : m # n => actor'[m] = actor[m]
  BY <1>1
<1>3. RecordingTypeOK'
  BY <1>2 DEF RecorderInv, RecordingTypeOK, questionVars
<1>4. \A m \in Recordings : m # n => ActorFits(m)'
  BY <1>2 DEF RecorderInv, ActorsFit, ActorFits, OnScreen
<1>5. ActorFits(n)'
  BY <1>2 DEF ActorFits, OnScreen
<1>6. ScreenFits'
  <2> SUFFICES ASSUME screen \in RecordingScreens
               PROVE  ScreenFits'
    BY DEF ScreenFits
  <2>1. current \in Recordings
    BY DEF RecorderInv, ActorsFit, ScreenFits
  <2>2. CASE n = current
    <3>1. OnScreen(n)
      BY <2>2 DEF OnScreen
    <3> QED
      BY <1>2, <2>1, <2>2, <3>1 DEF ScreenFits
  <2>3. CASE n # current
    BY <1>2, <2>1, <2>3 DEF RecorderInv, ActorsFit, ScreenFits
  <2> QED
    BY <2>2, <2>3
<1>7. TextsFit' /\ SubmissionsFit'
  BY TextsRest, SubmissionsRest
<1> QED
  BY <1>3, <1>4, <1>5, <1>6, <1>7 DEF RecorderInv, ActorsFit

LEMMA MicrophoneGrantedStep ==
  ASSUME RecorderInv, NEW n \in Recordings, MicrophoneGranted(n)
  PROVE  RecorderInv'
<1> DEFINE a == Granted(n)
<1>1. /\ actor[n].pc = "asking" /\ actor' = [actor EXCEPT ![n] = a]
      /\ UNCHANGED <<screen, devices, current, ignored, blob, questionVars, submission, accidents>>
  BY DEF MicrophoneGranted
<1>2. actor[n] \in Actor
  BY DEF RecorderInv, RecordingTypeOK
<1>3. /\ a \in Actor
      /\ actor[n].cancelled => a.pc = "over" /\ a.live = actor[n].live
      /\ ~actor[n].cancelled => a.pc = "recording" /\ a.live
      /\ a.cancelled = actor[n].cancelled
  BY <1>2 DEF Granted, Actor
<1> HIDE DEF a
<1>4. ActorFits(n) /\ ~actor[n].live
  BY <1>1 DEF RecorderInv, ActorsFit, ActorFits
<1>5. ignored' \in BOOLEAN /\ accidents' \in 0..MaxAccidents /\ ignored' = ignored
  BY <1>1 DEF RecorderInv, RecordingTypeOK
<1>6. a.live \/ a.pc \in {"recording", "paused"} => OnScreen(n) /\ a.pc = "recording"
  BY <1>1, <1>3, <1>4 DEF ActorFits
<1>7. a.pc # "asking"
  BY <1>3
<1>8. ASSUME OnScreen(n), ~ignored'
      PROVE  screen # "paused" /\ screen # "stopping" /\ a.pc = "recording"
  <2>1. screen # "paused" /\ screen # "stopping"
    BY <1>1, <1>5, <1>8 DEF RecorderInv, ActorsFit, ScreenFits, OnScreen
  <2>2. ~actor[n].cancelled
    BY <1>8 DEF RecorderInv, ActorsFit, ScreenFits, OnScreen
  <2> QED
    BY <1>3, <2>1, <2>2
<1>9. OnScreen(n) => ~a.cancelled
  BY <1>2, <1>3 DEF RecorderInv, ActorsFit, ScreenFits, OnScreen
<1>10. a.live => /\ OnScreen(n) /\ a.pc \in {"recording", "paused", "inactive"}
                 /\ a.pc = "inactive" => screen = "stopping"
  BY <1>6
<1>11. a.pc \in {"recording", "paused"} \/ (a.pc = "asking" /\ ~a.cancelled) => OnScreen(n)
  BY <1>6, <1>7
<1>12. OnScreen(n) /\ ~ignored' =>
         /\ ~ignored /\ a.pc \in {"recording", "paused", "inactive"}
         /\ a.pc = "inactive" => a.data
         /\ screen = "paused" => a.pc # "recording"
         /\ screen = "stopping" => a.pc = "inactive"
  BY <1>5, <1>8
<1>13. n # current /\ ~ignored' => ~ignored
  BY <1>5
<1> QED
  BY <1>1, <1>3, <1>5, <1>9, <1>10, <1>11, <1>12, <1>13, ActorMoves

LEMMA MicrophoneRefusedStep ==
  ASSUME RecorderInv, NEW n \in Recordings, MicrophoneRefused(n)
  PROVE  RecorderInv'
<1> DEFINE a == [actor[n] EXCEPT !.pc = "over"]
<1>1. /\ actor[n].pc = "asking" /\ actor' = [actor EXCEPT ![n] = a]
      /\ accidents < MaxAccidents /\ accidents' = accidents + 1
      /\ ignored' = IF n = current THEN TRUE ELSE ignored
      /\ UNCHANGED <<screen, devices, current, blob, questionVars, submission>>
  BY DEF MicrophoneRefused, Accident
<1>2. actor[n] \in Actor /\ ignored \in BOOLEAN
  BY DEF RecorderInv, RecordingTypeOK
<1>3. /\ a \in Actor /\ a.pc = "over" /\ a.live = actor[n].live
      /\ a.cancelled = actor[n].cancelled
  BY <1>2 DEF Actor
<1> HIDE DEF a
<1>4. ~actor[n].live
  BY <1>1 DEF RecorderInv, ActorsFit, ActorFits
<1>5. accidents' \in 0..MaxAccidents
  BY <1>1, RecordingNumbers DEF RecorderInv, RecordingTypeOK
<1>6. ignored' \in BOOLEAN /\ (n = current => ignored') /\ (n # current => ignored' = ignored)
  BY <1>1, <1>2
<1>7. OnScreen(n) => ~a.cancelled
  BY <1>3 DEF RecorderInv, ActorsFit, ScreenFits, OnScreen
<1>8. OnScreen(n) => ignored'
  BY <1>6 DEF OnScreen
<1>9. n # current /\ ~ignored' => ~ignored
  BY <1>6
<1> QED
  BY <1>1, <1>3, <1>4, <1>5, <1>6, <1>7, <1>8, <1>9, ActorMoves

LEMMA DeviceUnpluggedStep ==
  ASSUME RecorderInv, NEW n \in Recordings, DeviceUnplugged(n)
  PROVE  RecorderInv'
<1> DEFINE a == [actor[n] EXCEPT !.pc = "inactive", !.live = FALSE, !.data = TRUE]
<1>1. /\ actor[n].pc \in {"recording", "paused"} /\ actor' = [actor EXCEPT ![n] = a]
      /\ accidents < MaxAccidents /\ accidents' = accidents + 1
      /\ UNCHANGED <<screen, devices, current, ignored, blob, questionVars, submission>>
  BY DEF DeviceUnplugged, Accident
<1>2. actor[n] \in Actor /\ ignored' \in BOOLEAN
  BY <1>1 DEF RecorderInv, RecordingTypeOK
<1>3. /\ a \in Actor /\ a.pc = "inactive" /\ ~a.live /\ a.data
      /\ a.cancelled = actor[n].cancelled
  BY <1>2 DEF Actor
<1> HIDE DEF a
<1>4. accidents' \in 0..MaxAccidents
  BY <1>1, RecordingNumbers DEF RecorderInv, RecordingTypeOK
<1>5. OnScreen(n) => ~a.cancelled
  BY <1>3 DEF RecorderInv, ActorsFit, ScreenFits, OnScreen
<1>6. ~ignored' => ~ignored
  BY <1>1
<1> QED
  BY <1>1, <1>2, <1>3, <1>4, <1>5, <1>6, ActorMoves

\* The machine leaves `recording', or the recorder is unmounted: no actor records any
\* more, or will.
LEMMA CleanedUpFits ==
  ASSUME RecorderInv, screen' \notin RecordingScreens,
         actor' = IF current = 0 THEN actor ELSE [actor EXCEPT ![current] = CleanedUp(@)],
         UNCHANGED current
  PROVE  actor' \in [Recordings -> Actor] /\ ActorsFit'
<1>1. actor \in [Recordings -> Actor] /\ current \in 0..MaxRecordings
  BY DEF RecorderInv, RecordingTypeOK
<1>2. ASSUME NEW a \in Actor
      PROVE  /\ CleanedUp(a) \in Actor /\ ~CleanedUp(a).live
             /\ CleanedUp(a).cancelled /\ CleanedUp(a).pc \in {"asking", "over"}
  BY DEF Actor, CleanedUp
<1>3. /\ actor' \in [Recordings -> Actor]
      /\ \A n \in Recordings : actor'[n] = IF n = current THEN CleanedUp(actor[n]) ELSE actor[n]
  <2>1. CASE current = 0
    BY <1>1, <2>1, RecordingNumbers
  <2>2. CASE current # 0
    <3>1. current \in Recordings
      BY <1>1, <2>2, RecordingNumbers
    <3> QED
      BY <1>1, <1>2, <2>2, <3>1
  <2> QED
    BY <2>1, <2>2
<1>4. ASSUME NEW n \in Recordings
      PROVE  ActorFits(n)'
  <2>1. CASE n = current
    BY <1>1, <1>2, <1>3, <2>1 DEF ActorFits
  <2>2. CASE n # current
    BY <1>3, <2>2 DEF RecorderInv, ActorsFit, ActorFits, OnScreen
  <2> QED
    BY <2>1, <2>2
<1> QED
  BY <1>3, <1>4 DEF ActorsFit, ScreenFits

LEMMA DataArrivesStep ==
  ASSUME RecorderInv, NEW n \in Recordings, DataArrives(n)
  PROVE  RecorderInv'
<1>1. /\ actor[n].data
      /\ UNCHANGED <<devices, current, questionVars, submission, accidents>>
  BY DEF DataArrives
<1>2. CASE n = current /\ screen = "stopping"
  <2>1. /\ screen' = "done" /\ blob' = n /\ UNCHANGED ignored
        /\ actor' = [actor EXCEPT ![n] = CleanedUp(@)]
    BY <1>2 DEF DataArrives
  <2>2. current # 0 /\ current \in Recordings
    BY <1>2, RecordingNumbers
  <2>3. actor' \in [Recordings -> Actor] /\ ActorsFit'
    BY <1>1, <1>2, <2>1, <2>2, CleanedUpFits, Screens
  <2>4. RecordingTypeOK'
    BY <1>1, <1>2, <2>1, <2>2, <2>3, RecordingNumbers, Screens
    DEF RecorderInv, RecordingTypeOK, questionVars
  <2>5. TextsFit'
    BY <1>1, <1>2, <2>1, TextsRest
  <2>6. SubmissionsFit'
    <3>1. ASSUME NEW p \in Submissions, submission[p].of \in Recordings
          PROVE  submission[p].of <= current /\ submission[p].of # current
      BY <1>2, <3>1, Screens DEF RecorderInv, SubmissionsFit, RecordingIsOver
    <3>2. \A p \in Submissions : RecordingIsOver(p)'
      BY <1>1, <1>2, <2>1, <3>1 DEF RecordingIsOver
    <3>3. OnceEach'
      BY <1>1 DEF RecorderInv, SubmissionsFit, OnceEach
    <3>4. blob' <= current'
      BY <1>1, <1>2, <2>1, <2>2, RecordingNumbers
    <3> QED
      BY <3>2, <3>3, <3>4 DEF SubmissionsFit
  <2> QED
    BY <2>3, <2>4, <2>5, <2>6 DEF RecorderInv
<1>3. CASE ~(n = current /\ screen = "stopping")
  <2> DEFINE a == [actor[n] EXCEPT !.data = FALSE]
  <2>1. /\ actor' = [actor EXCEPT ![n] = a] /\ ignored' = TRUE /\ UNCHANGED <<screen, blob>>
    BY <1>3 DEF DataArrives
  <2>2. actor[n] \in Actor /\ accidents' \in 0..MaxAccidents
    BY <1>1 DEF RecorderInv, RecordingTypeOK
  <2>3. /\ a \in Actor /\ a.pc = actor[n].pc /\ a.live = actor[n].live
        /\ a.cancelled = actor[n].cancelled
    BY <2>2 DEF Actor
  <2> HIDE DEF a
  <2>4. ActorFits(n)
    BY DEF RecorderInv, ActorsFit
  <2>5. /\ a.live => /\ OnScreen(n) /\ a.pc \in {"recording", "paused", "inactive"}
                     /\ a.pc = "inactive" => screen = "stopping"
        /\ a.pc \in {"recording", "paused"} \/ (a.pc = "asking" /\ ~a.cancelled) => OnScreen(n)
    BY <2>3, <2>4 DEF ActorFits
  <2>6. OnScreen(n) => ~a.cancelled
    BY <2>3 DEF RecorderInv, ActorsFit, ScreenFits, OnScreen
  <2> QED
    BY <1>1, <2>1, <2>2, <2>3, <2>5, <2>6, ActorMoves
<1> QED
  BY <1>2, <1>3

-----------------------------------------------------------------------------
(* The buttons while recording.                                            *)

LEMMA CurrentMoves ==
  ASSUME RecorderInv, screen \in {"playing", "paused"}, screen' \in RecordingScreens,
         NEW a \in Actor, actor' = [actor EXCEPT ![current] = a],
         UNCHANGED <<devices, current, blob, questionVars, submission, accidents>>,
         ignored' \in BOOLEAN,
         a.live => /\ a.pc \in {"recording", "paused", "inactive"}
                   /\ a.pc = "inactive" => screen' = "stopping",
         ~a.cancelled,
         ~ignored' => /\ a.pc \in {"recording", "paused", "inactive"}
                      /\ a.pc = "inactive" => a.data
                      /\ screen' = "paused" => a.pc # "recording"
                      /\ screen' = "stopping" => a.pc = "inactive"
  PROVE  RecorderInv'
<1>1. actor \in [Recordings -> Actor] /\ current \in Recordings
  BY Screens DEF RecorderInv, RecordingTypeOK, ActorsFit, ScreenFits
<1>2. /\ actor' \in [Recordings -> Actor] /\ actor'[current] = a
      /\ \A m \in Recordings : m # current => actor'[m] = actor[m]
  BY <1>1
<1>3. screen' \notin {"done", "form", "typing"} /\ screen' \in RecorderScreens
  BY Screens
<1>4. RecordingTypeOK'
  BY <1>2, <1>3 DEF RecorderInv, RecordingTypeOK, questionVars
<1>5. \A m \in Recordings : m # current => ActorFits(m)'
  BY <1>2 DEF RecorderInv, ActorsFit, ActorFits, OnScreen
<1>6. \A m \in Recordings : m = current => ActorFits(m)'
  BY <1>2 DEF ActorFits, OnScreen
<1>7. ScreenFits'
  BY <1>1, <1>2 DEF ScreenFits
<1>8. TextsFit' /\ SubmissionsFit'
  <2>1. {screen, screen'} \cap {"typing", "form"} = {}
    BY <1>3
  <2>2. screen \in RecordingScreens /\ screen # "form"
    BY Screens
  <2> QED
    BY <2>1, <2>2, TextsRest, SubmissionsRest
<1> QED
  BY <1>4, <1>5, <1>6, <1>7, <1>8 DEF RecorderInv, ActorsFit

\* The actor on the screen while it can be paused or stopped.
LEMMA CurrentNow ==
  ASSUME RecorderInv, screen \in {"playing", "paused"}
  PROVE  /\ current \in Recordings /\ actor[current] \in Actor /\ ignored \in BOOLEAN
         /\ actor \in [Recordings -> Actor]
         /\ ~actor[current].cancelled
         /\ actor[current].live => actor[current].pc \in {"recording", "paused"}
         /\ ~ignored => /\ actor[current].pc \in {"asking", "recording", "paused", "inactive"}
                        /\ actor[current].pc = "inactive" => actor[current].data
                        /\ screen = "paused" => actor[current].pc \in {"paused", "inactive"}
BY Screens DEF RecorderInv, RecordingTypeOK, ActorsFit, ScreenFits, ActorFits

LEMMA CommandStep ==
  ASSUME RecorderInv,
         NEW next \in {"playing", "paused"}, NEW from \in {"recording", "paused"},
         NEW to \in {"recording", "paused"}, Command(next, from, to),
         \/ screen = "playing" /\ next = "paused" /\ from = "recording" /\ to = "paused"
         \/ screen = "paused" /\ next = "playing" /\ from = "paused" /\ to = "recording"
  PROVE  RecorderInv'
<1> DEFINE now == actor[current]
           a == IF now.pc = from THEN [now EXCEPT !.pc = to] ELSE now
<1>1. /\ screen' = IF now.pc = "inactive" THEN "broken" ELSE next
      /\ actor' = IF now.pc = from THEN [actor EXCEPT ![current].pc = to] ELSE actor
      /\ ignored' = (ignored \/ now.pc = "asking")
      /\ UNCHANGED <<devices, current, blob, questionVars, submission, accidents>>
  BY DEF Command
<1>2. /\ screen \in {"playing", "paused"} /\ current \in Recordings /\ now \in Actor
      /\ actor \in [Recordings -> Actor] /\ ~now.cancelled
      /\ now.live => now.pc \in {"recording", "paused"}
  BY CurrentNow
<1>3. ignored' \in BOOLEAN /\ (~ignored' => ~ignored /\ now.pc # "asking")
  BY <1>1
<1>4. ~ignored => /\ now.pc \in {"asking", "recording", "paused", "inactive"}
                  /\ now.pc = "inactive" => now.data
  BY CurrentNow
<1>5. CASE now.pc # "inactive"
  <2>1. /\ a \in Actor /\ a.live = now.live /\ a.cancelled = now.cancelled
        /\ a.pc = IF now.pc = from THEN to ELSE now.pc
    BY <1>2 DEF Actor
  <2>2. actor' = [actor EXCEPT ![current] = a]
    BY <1>1, <1>2
  <2> HIDE DEF a
  <2>3. a.live => /\ a.pc \in {"recording", "paused", "inactive"}
                  /\ a.pc = "inactive" => screen' = "stopping"
    BY <1>2, <2>1
  <2>4. screen' \in RecordingScreens /\ screen' = next
    BY <1>1, <1>5, Screens
  <2>5. ~ignored' => /\ a.pc \in {"recording", "paused", "inactive"}
                     /\ a.pc = "inactive" => a.data
                     /\ screen' = "paused" => a.pc # "recording"
                     /\ screen' = "stopping" => a.pc = "inactive"
    BY <1>3, <1>4, <1>5, <2>1, <2>4
  <2> QED
    BY <1>1, <1>2, <1>3, <2>1, <2>2, <2>3, <2>4, <2>5, CurrentMoves
<1>6. CASE now.pc = "inactive"
  <2>1. screen' = "broken" /\ actor' = actor /\ ~now.live
    BY <1>1, <1>2, <1>6
  <2>2. RecordingTypeOK'
    BY <1>1, <1>3, <2>1 DEF RecorderInv, RecordingTypeOK, questionVars
  <2>3. ASSUME NEW m \in Recordings
        PROVE  ActorFits(m)'
    <3>1. ~actor[m].live /\ actor[m].pc \notin {"recording", "paused"}
          /\ (actor[m].pc = "asking" => actor[m].cancelled)
      BY <1>6, <2>1 DEF RecorderInv, ActorsFit, ActorFits, OnScreen
    <3> QED
      BY <2>1, <3>1 DEF ActorFits
  <2>4. ScreenFits'
    BY <2>1, Screens DEF ScreenFits
  <2>5. TextsFit' /\ SubmissionsFit'
    <3>1. {screen, screen'} \cap {"typing", "form"} = {} /\ screen # "form"
      BY <1>2, <2>1
    <3>2. screen' \notin RecordingScreens \cup {"done"}
      BY <2>1, Screens
    <3> QED
      BY <1>1, <3>1, <3>2, TextsRest, SubmissionsRest
  <2> QED
    BY <2>2, <2>3, <2>4, <2>5 DEF RecorderInv, ActorsFit
<1> QED
  BY <1>5, <1>6

LEMMA StopStep ==
  ASSUME RecorderInv, Stop
  PROVE  RecorderInv'
<1> DEFINE now == actor[current]
           a == IF now.pc \in {"recording", "paused"}
                THEN [now EXCEPT !.pc = "inactive", !.data = TRUE] ELSE now
<1>1. /\ screen \in {"playing", "paused"} /\ screen' = "stopping"
      /\ actor' = IF now.pc \in {"recording", "paused"}
                  THEN [actor EXCEPT ![current] = [@ EXCEPT !.pc = "inactive", !.data = TRUE]]
                  ELSE actor
      /\ ignored' = (ignored \/ now.pc = "asking")
      /\ UNCHANGED <<devices, current, blob, questionVars, submission, accidents>>
  BY DEF Stop
<1>2. /\ current \in Recordings /\ now \in Actor /\ actor \in [Recordings -> Actor]
      /\ ~now.cancelled /\ (now.live => now.pc \in {"recording", "paused"})
  BY <1>1, CurrentNow
<1>3. ignored' \in BOOLEAN /\ (~ignored' => ~ignored /\ now.pc # "asking")
  BY <1>1
<1>4. ~ignored => /\ now.pc \in {"asking", "recording", "paused", "inactive"}
                  /\ now.pc = "inactive" => now.data
  BY <1>1, CurrentNow
<1>5. /\ a \in Actor /\ a.live = now.live /\ a.cancelled = now.cancelled
      /\ now.pc \in {"recording", "paused"} => a.pc = "inactive" /\ a.data
      /\ now.pc \notin {"recording", "paused"} => a = now
  BY <1>2 DEF Actor
<1>6. actor' = [actor EXCEPT ![current] = a]
  BY <1>1, <1>2
<1> HIDE DEF a
<1>7. a.live => /\ a.pc \in {"recording", "paused", "inactive"}
                /\ a.pc = "inactive" => screen' = "stopping"
  BY <1>1, <1>2, <1>5
<1>8. ~ignored' => a.pc = "inactive" /\ a.data
  BY <1>3, <1>4, <1>5
<1>9. screen' \in RecordingScreens /\ ~a.cancelled
  BY <1>1, <1>2, <1>5, Screens
<1> QED
  BY <1>1, <1>3, <1>5, <1>6, <1>7, <1>8, <1>9, CurrentMoves

-----------------------------------------------------------------------------
(* Leaving, and the question that is typed.                                *)

LEMMA LeaveFits ==
  ASSUME RecorderInv, NEW next, next \notin RecordingScreens, Leave(next)
  PROVE  /\ screen' = next /\ actor' \in [Recordings -> Actor] /\ ActorsFit'
         /\ UNCHANGED <<devices, current, ignored, accidents>>
<1>1. /\ screen' = next
      /\ actor' = IF current = 0 THEN actor ELSE [actor EXCEPT ![current] = CleanedUp(@)]
      /\ UNCHANGED <<devices, current, ignored, accidents>>
  BY DEF Leave
<1> QED
  BY <1>1, CleanedUpFits

LEMMA AbandonedRows ==
  ASSUME RecorderInv
  PROVE  /\ Abandoned \in [Submissions -> Submission]
         /\ \A p \in Submissions :
              /\ Abandoned[p].of = submission[p].of /\ Abandoned[p].text = submission[p].text
              /\ Abandoned[p].late = submission[p].late
              /\ Abandoned[p].state = submission[p].state
              /\ ~Abandoned[p].watched
              /\ submission[p].watched \/ submission[p].failed => Abandoned[p].failed
<1>1. submission \in [Submissions -> Submission]
  BY DEF RecorderInv, RecordingTypeOK
<1> QED
  BY <1>1 DEF Abandoned, Submission

LEMMA SupersededRows ==
  ASSUME RecorderInv
  PROVE  /\ Superseded \in [Speeches -> Speech]
         /\ \A r \in Speeches :
              /\ Superseded[r].pc \in {"none", "measured"} /\ ~Superseded[r].current
              /\ Superseded[r].pc = "measured" => Superseded[r].of \in Questions
<1>1. speech \in [Speeches -> Speech] /\ NoSpeech \in Speech
  BY DEF RecorderInv, RecordingTypeOK, NoSpeech, Speech
<1>2. \A r \in Speeches : speech[r].pc # "none" => speech[r].of \in Questions
  BY DEF RecorderInv, TextsFit, SpeechFits
<1>3. ASSUME NEW r \in Speeches
      PROVE  /\ Superseded[r] \in Speech
             /\ Superseded[r].pc \in {"none", "measured"} /\ ~Superseded[r].current
             /\ Superseded[r].pc = "measured" => Superseded[r].of \in Questions
  <2>1. CASE speech[r].pc = "measured"
    <3>1. Superseded[r] = [speech[r] EXCEPT !.current = FALSE]
      BY <2>1 DEF Superseded
    <3>2. speech[r] \in Speech /\ speech[r].of \in Questions
      BY <1>1, <1>2, <2>1
    <3> QED
      BY <2>1, <3>1, <3>2 DEF Speech
  <2>2. CASE speech[r].pc # "measured"
    BY <1>1, <2>2 DEF Superseded, NoSpeech
  <2> QED
    BY <2>1, <2>2
<1>4. Superseded = [r \in Speeches |-> Superseded[r]]
  BY DEF Superseded
<1> QED
  BY <1>3, <1>4

\* Nothing is left of the form, and no answer is awaited.
LEMMA FormIsGone ==
  ASSUME RecorderInv, screen' \notin RecordingScreens \cup {"done", "form"}, blob' = 0,
         text' = None, late' = FALSE, submission' = Abandoned, UNCHANGED current
  PROVE  /\ FormFits' /\ SubmissionsFit'
         /\ \A p \in Submissions : AnswerIsOfForm(p)'
<1>1. FormFits'
  BY DEF FormFits
<1>2. \A p \in Submissions : AnswerIsOfForm(p)'
  BY AbandonedRows DEF RecorderInv, TextsFit, AnswerIsOfForm
<1>3. \A p \in Submissions : RecordingIsOver(p)'
  BY AbandonedRows, RecordingNumbers DEF RecorderInv, SubmissionsFit, RecordingIsOver
<1>4. OnceEach'
  BY AbandonedRows DEF RecorderInv, SubmissionsFit, OnceEach
<1> QED
  BY <1>1, <1>2, <1>3, <1>4, RecordingNumbers DEF SubmissionsFit

LEMMA LeavePageStep ==
  ASSUME RecorderInv, LeavePage
  PROVE  RecorderInv'
<1>1. /\ Leave("away") /\ submission' = Abandoned
      /\ blob' = 0 /\ text' = None /\ late' = FALSE /\ question' = None
      /\ speech' = [r \in Speeches |-> NoSpeech]
  BY DEF LeavePage, PageCleared, FormCleared
<1>2. /\ screen' = "away" /\ actor' \in [Recordings -> Actor] /\ ActorsFit'
      /\ UNCHANGED <<devices, current, ignored, accidents>>
  BY <1>1, LeaveFits, Screens
<1>3. "away" \notin RecordingScreens \cup {"done", "form"}
  BY Screens
<1>4. FormFits' /\ SubmissionsFit' /\ \A p \in Submissions : AnswerIsOfForm(p)'
  BY <1>1, <1>2, <1>3, FormIsGone
<1>5. \A r \in Speeches : SpeechFits(r)' /\ speech'[r] \in Speech
  BY <1>1 DEF SpeechFits, NoSpeech, Speech
<1>6. RecordingTypeOK'
  <2>1. speech' \in [Speeches -> Speech]
    BY <1>1, <1>5
  <2> QED
    BY <1>1, <1>2, <2>1, AbandonedRows, RecordingNumbers DEF RecorderInv, RecordingTypeOK
<1> QED
  BY <1>2, <1>4, <1>5, <1>6 DEF RecorderInv, TextsFit

LEMMA AcceptStep ==
  ASSUME RecorderInv, Accept
  PROVE  RecorderInv'
<1>1. screen = "done" /\ Leave("form") /\ UNCHANGED <<blob, questionVars, submission>>
  BY DEF Accept
<1>2. /\ screen' = "form" /\ actor' \in [Recordings -> Actor] /\ ActorsFit'
      /\ UNCHANGED <<devices, current, ignored, accidents>>
  BY <1>1, LeaveFits, Screens
<1>3. /\ text' = text /\ late' = late /\ question' = question /\ speech' = speech
      /\ submission' = submission /\ blob' = blob
  BY <1>1 DEF questionVars
<1>4. RecordingTypeOK'
  BY <1>1, <1>2, <1>3 DEF RecorderInv, RecordingTypeOK
<1>5. blob \in Recordings
  BY <1>1, RecordingNumbers DEF RecorderInv, RecordingTypeOK
<1>6. FormFits'
  BY <1>1, <1>2, <1>3, <1>5, RecordingNumbers DEF RecorderInv, TextsFit, FormFits, Heard
<1>7. \A r \in Speeches : SpeechFits(r)'
  BY <1>1, <1>2, <1>3 DEF RecorderInv, TextsFit, SpeechFits
<1>8. \A p \in Submissions : AnswerIsOfForm(p)'
  BY <1>1, <1>2, <1>3 DEF RecorderInv, TextsFit, AnswerIsOfForm
<1>9. SubmissionsFit'
  BY <1>1, <1>2, <1>3, SubmissionsRest, Screens
<1> QED
  BY <1>2, <1>4, <1>6, <1>7, <1>8, <1>9 DEF RecorderInv, TextsFit

LEMMA TypeInsteadStep ==
  ASSUME RecorderInv, TypeInstead
  PROVE  RecorderInv'
<1>1. /\ screen \in RecorderScreens \cup {"broken"} /\ Leave("typing")
      /\ blob' = 0 /\ question' = None /\ UNCHANGED <<speech, text, late, submission>>
  BY DEF TypeInstead
<1>2. /\ screen' = "typing" /\ actor' \in [Recordings -> Actor] /\ ActorsFit'
      /\ UNCHANGED <<devices, current, ignored, accidents>>
  BY <1>1, LeaveFits, Screens
<1>3. screen \notin {"form", "typing"}
  BY <1>1, Screens
<1>4. RecordingTypeOK'
  BY <1>1, <1>2, RecordingNumbers DEF RecorderInv, RecordingTypeOK
<1>5. FormFits'
  BY <1>1, <1>2, <1>3 DEF RecorderInv, TextsFit, FormFits
<1>6. \A r \in Speeches : SpeechFits(r)'
  BY <1>1, <1>2, <1>3 DEF RecorderInv, TextsFit, SpeechFits
<1>7. \A p \in Submissions : AnswerIsOfForm(p)'
  BY <1>1, <1>2, <1>3 DEF RecorderInv, TextsFit, AnswerIsOfForm
<1>8. SubmissionsFit'
  BY <1>1, <1>2, <1>3, SubmissionsRest, Screens, RecordingNumbers
<1> QED
  BY <1>2, <1>4, <1>5, <1>6, <1>7, <1>8 DEF RecorderInv, TextsFit

LEMMA TypingStep ==
  ASSUME RecorderInv, NEW next \in {"typing", "devices"}, NEW q \in Questions \cup {None},
         Typing(next, q)
  PROVE  RecorderInv'
<1>1. /\ screen = "typing" /\ screen' = next /\ question' = q /\ speech' = Superseded
      /\ UNCHANGED <<devices, current, actor, ignored, blob, text, late, submission, accidents>>
  BY DEF Typing
<1>2. {screen, screen'} \cap RecordingScreens = {} /\ screen' \notin {"done", "form"}
  BY <1>1, Screens
<1>3. RecordingTypeOK'
  BY <1>1, <1>2, SupersededRows, Screens DEF RecorderInv, RecordingTypeOK
<1>4. ActorsFit' /\ SubmissionsFit'
  BY <1>1, <1>2, ActorsRest, SubmissionsRest
<1>5. FormFits'
  BY <1>1, <1>2 DEF RecorderInv, TextsFit, FormFits
<1>6. \A r \in Speeches : SpeechFits(r)'
  BY <1>1, SupersededRows DEF SpeechFits
<1>7. \A p \in Submissions : AnswerIsOfForm(p)'
  BY <1>1, <1>2 DEF RecorderInv, TextsFit, AnswerIsOfForm
<1> QED
  BY <1>3, <1>4, <1>5, <1>6, <1>7 DEF RecorderInv, TextsFit

\* One request to speak a question changes.
LEMMA SpeechChanges ==
  ASSUME RecorderInv, NEW r \in Speeches, NEW s \in Speech, speech' = [speech EXCEPT ![r] = s],
         UNCHANGED <<screen, devices, current, actor, ignored, blob, question, text, late,
                     submission, accidents>>,
         s.pc # "none" => s.of \in Questions,
         s.pc = "asked" \/ s.current => screen = "typing" /\ s.of = question
  PROVE  RecorderInv'
<1>1. /\ speech' \in [Speeches -> Speech] /\ speech'[r] = s
      /\ \A x \in Speeches : x # r => speech'[x] = speech[x]
  BY DEF RecorderInv, RecordingTypeOK
<1>2. RecordingTypeOK'
  BY <1>1 DEF RecorderInv, RecordingTypeOK
<1>3. ActorsFit' /\ SubmissionsFit'
  BY ActorsRest, SubmissionsRest
<1>4. \A x \in Speeches : SpeechFits(x)'
  BY <1>1 DEF RecorderInv, TextsFit, SpeechFits
<1>5. FormFits' /\ \A p \in Submissions : AnswerIsOfForm(p)'
  BY DEF RecorderInv, TextsFit, FormFits, AnswerIsOfForm
<1> QED
  BY <1>2, <1>3, <1>4, <1>5 DEF RecorderInv, TextsFit

LEMMA SpeechMovesStep ==
  ASSUME RecorderInv, NEW r \in Speeches, SaveQuestion(r) \/ SpeechMoves(r)
  PROVE  RecorderInv'
<1>1. speech \in [Speeches -> Speech] /\ SpeechFits(r) /\ question \in Questions \cup {None}
  BY DEF RecorderInv, RecordingTypeOK, TextsFit
<1>2. ASSUME SaveQuestion(r) PROVE RecorderInv'
  <2> DEFINE s == [pc |-> "asked", of |-> question, current |-> TRUE]
  <2>1. /\ screen = "typing" /\ question # None /\ speech' = [speech EXCEPT ![r] = s]
        /\ UNCHANGED <<screen, devices, current, actor, ignored, blob, question, text, late,
                       submission, accidents>>
    BY <1>2 DEF SaveQuestion
  <2>2. s \in Speech /\ s.of = question /\ question \in Questions
    BY <1>1, <2>1 DEF Speech
  <2> QED
    BY <2>1, <2>2, SpeechChanges
<1>3. ASSUME SpeechMoves(r), speech[r].pc = "asked", speech' = [speech EXCEPT ![r].pc = "measured"]
      PROVE  RecorderInv'
  <2> DEFINE s == [speech[r] EXCEPT !.pc = "measured"]
  <2>1. /\ s \in Speech /\ s.of = speech[r].of /\ s.current = speech[r].current
        /\ s.pc = "measured"
    BY <1>1 DEF Speech
  <2>2. speech' = [speech EXCEPT ![r] = s]
    BY <1>3
  <2>3. UNCHANGED <<screen, devices, current, actor, ignored, blob, question, text, late,
                    submission, accidents>>
    BY <1>3 DEF SpeechMoves
  <2>4. /\ s.of \in Questions
        /\ s.current => screen = "typing" /\ s.of = question
    BY <1>1, <1>3, <2>1 DEF SpeechFits
  <2> HIDE DEF s
  <2> QED
    BY <2>1, <2>2, <2>3, <2>4, SpeechChanges
<1>4. ASSUME SpeechMoves(r), speech' = [speech EXCEPT ![r] = NoSpeech]
      PROVE  RecorderInv'
  <2>1. NoSpeech \in Speech /\ NoSpeech.pc = "none" /\ ~NoSpeech.current
    BY DEF NoSpeech, Speech
  <2> QED
    BY <1>4, <2>1, SpeechChanges DEF SpeechMoves
<1> QED
  BY <1>2, <1>3, <1>4 DEF SpeechMoves

\* A watched submission is of the form that the spoken question replaces, and then
\* the audio comes late.
LEMMA SpeechAcceptedStep ==
  ASSUME RecorderInv, NEW r \in Speeches, SpeechAccepted(r)
  PROVE  RecorderInv'
<1> DEFINE q == speech[r].of
<1>1. /\ speech[r].pc = "measured" /\ Leave("form")
      /\ blob' = q /\ text' = q /\ late' = ~speech[r].current
      /\ question' = None /\ UNCHANGED submission
      /\ speech' = [Superseded EXCEPT ![r] = NoSpeech]
  BY DEF SpeechAccepted
<1>2. /\ screen' = "form" /\ actor' \in [Recordings -> Actor] /\ ActorsFit'
      /\ UNCHANGED <<devices, current, ignored, accidents>>
  BY <1>1, LeaveFits, Screens
<1>3. q \in Questions /\ speech[r] \in Speech
  BY <1>1 DEF RecorderInv, TextsFit, SpeechFits, RecordingTypeOK
<1>4. /\ speech' \in [Speeches -> Speech] /\ speech'[r] = NoSpeech
      /\ \A x \in Speeches : x # r => speech'[x] = Superseded[x]
  <2>1. NoSpeech \in Speech
    BY DEF NoSpeech, Speech
  <2> QED
    BY <1>1, <2>1, SupersededRows
<1>5. RecordingTypeOK'
  <2>1. late' \in BOOLEAN /\ blob' \in Audio /\ blob' # 0
    BY <1>1, <1>3, RecordingNumbers DEF Speech
  <2> QED
    BY <1>1, <1>2, <1>3, <1>4, <2>1 DEF RecorderInv, RecordingTypeOK
<1>6. FormFits'
  BY <1>1, <1>2, <1>3 DEF FormFits, Heard
<1>7. \A x \in Speeches : SpeechFits(x)'
  BY <1>4, SupersededRows DEF SpeechFits, NoSpeech
<1>8. ASSUME NEW p \in Submissions
      PROVE  AnswerIsOfForm(p)'
  <2>1. AnswerIsOfForm(p)
    BY DEF RecorderInv, TextsFit
  <2>2. speech[r].current => screen = "typing"
    BY DEF RecorderInv, TextsFit, SpeechFits
  <2>3. submission[p].watched => late'
    BY <1>1, <2>1, <2>2 DEF AnswerIsOfForm
  <2> QED
    BY <1>1, <1>2, <2>1, <2>3 DEF AnswerIsOfForm
<1>9. SubmissionsFit'
  BY <1>1, <1>2, <1>3, SubmissionsRest, Screens, RecordingNumbers
<1> QED
  BY <1>2, <1>5, <1>6, <1>7, <1>8, <1>9 DEF RecorderInv, TextsFit

-----------------------------------------------------------------------------
(* The form.                                                               *)

LEMMA StartOverStep ==
  ASSUME RecorderInv, StartOver
  PROVE  RecorderInv'
<1>1. /\ screen = "form" /\ screen' = "devices" /\ submission' = Abandoned
      /\ blob' = 0 /\ text' = None /\ late' = FALSE
      /\ UNCHANGED <<devices, current, actor, ignored, question, speech, accidents>>
  BY DEF StartOver, FormCleared
<1>2. {screen, screen'} \cap RecordingScreens = {} /\ screen' \notin {"done", "form"}
  BY <1>1, Screens
<1>3. ActorsFit'
  BY <1>1, <1>2, ActorsRest
<1>4. FormFits' /\ SubmissionsFit' /\ \A p \in Submissions : AnswerIsOfForm(p)'
  BY <1>1, <1>2, FormIsGone
<1>5. \A r \in Speeches : SpeechFits(r)'
  BY <1>1 DEF RecorderInv, TextsFit, SpeechFits
<1>6. RecordingTypeOK'
  BY <1>1, AbandonedRows, RecordingNumbers, Screens DEF RecorderInv, RecordingTypeOK
<1> QED
  BY <1>3, <1>4, <1>5, <1>6 DEF RecorderInv, TextsFit

\* One submission changes.
LEMMA OneSubmission ==
  ASSUME RecorderInv, NEW p \in Submissions, NEW s \in Submission,
         submission' = [submission EXCEPT ![p] = s]
  PROVE  /\ submission' \in [Submissions -> Submission] /\ submission'[p] = s
         /\ \A x \in Submissions : x # p => submission'[x] = submission[x]
BY DEF RecorderInv, RecordingTypeOK

\* A submission goes on without being submitted or answered for: the form and the
\* audio are as they were, or the text is again that of the submission.
LEMMA SubmissionMoves ==
  ASSUME RecorderInv, NEW p \in Submissions, NEW s \in Submission,
         submission' = [submission EXCEPT ![p] = s],
         UNCHANGED <<screen, devices, current, actor, ignored, blob, question, speech, late>>,
         accidents' \in 0..MaxAccidents,
         s.of = submission[p].of, s.text = submission[p].text, s.late = submission[p].late,
         s.state # "none", submission[p].state # "none",
         s.watched => submission[p].watched,
         submission[p].watched \/ submission[p].failed => s.watched \/ s.failed,
         submission[p].failed => s.failed,
         text' = text \/ (submission[p].watched /\ text' = submission[p].text)
  PROVE  RecorderInv'
<1>1. /\ submission' \in [Submissions -> Submission] /\ submission'[p] = s
      /\ \A x \in Submissions : x # p => submission'[x] = submission[x]
  BY OneSubmission
<1>2. text' \in Questions \cup {None}
  BY DEF RecorderInv, RecordingTypeOK, Submission
<1>3. RecordingTypeOK'
  BY <1>1, <1>2 DEF RecorderInv, RecordingTypeOK
<1>4. ActorsFit'
  BY ActorsRest
<1>5. AnswerIsOfForm(p) /\ FormFits
  BY DEF RecorderInv, TextsFit
<1>6. FormFits'
  <2>1. CASE text' = text
    BY <1>5, <2>1 DEF FormFits, Heard
  <2>2. CASE submission[p].watched /\ text' = submission[p].text
    BY <1>5, <2>2 DEF FormFits, AnswerIsOfForm, Heard
  <2> QED
    BY <2>1, <2>2
<1>7. \A r \in Speeches : SpeechFits(r)'
  BY DEF RecorderInv, TextsFit, SpeechFits
<1>8. \A x \in Submissions : x # p => AnswerIsOfForm(x)'
  BY <1>1 DEF RecorderInv, TextsFit, AnswerIsOfForm
<1>9. AnswerIsOfForm(p)'
  BY <1>1, <1>5 DEF AnswerIsOfForm
<1>10. \A x \in Submissions : RecordingIsOver(x)'
  BY <1>1 DEF RecorderInv, SubmissionsFit, RecordingIsOver
<1>11. OnceEach'
  BY <1>1 DEF RecorderInv, SubmissionsFit, OnceEach
<1>12. blob' \in Recordings => blob' <= current'
  BY DEF RecorderInv, SubmissionsFit
<1> QED
  BY <1>3, <1>4, <1>6, <1>7, <1>8, <1>9, <1>10, <1>11, <1>12
  DEF RecorderInv, TextsFit, SubmissionsFit

LEMMA SubmitStep ==
  ASSUME RecorderInv, NEW p \in Submissions, Submit(p)
  PROVE  RecorderInv'
<1> DEFINE s == [of |-> blob, text |-> text, late |-> late, state |-> "sent",
                 watched |-> TRUE, failed |-> FALSE]
<1>1. /\ screen = "form" /\ \A x \in Submissions : ~submission[x].watched
      /\ submission[p].state = "none" /\ submission' = [submission EXCEPT ![p] = s]
      /\ UNCHANGED <<screen, devices, current, actor, ignored, blob, questionVars, accidents>>
  BY DEF Submit, MaySubmit
<1>2. /\ s \in Submission /\ s.of = blob /\ s.text = text /\ s.late = late
      /\ s.state = "sent" /\ s.watched /\ ~s.failed
  BY DEF RecorderInv, RecordingTypeOK, Submission
<1> HIDE DEF s
<1>3. /\ submission' \in [Submissions -> Submission] /\ submission'[p] = s
      /\ \A x \in Submissions : x # p => submission'[x] = submission[x]
  BY <1>1, <1>2, OneSubmission
<1>4. /\ text' = text /\ late' = late /\ question' = question /\ speech' = speech
      /\ screen' = screen /\ blob' = blob /\ current' = current
  BY <1>1 DEF questionVars
<1>5. RecordingTypeOK'
  BY <1>1, <1>3, <1>4 DEF RecorderInv, RecordingTypeOK
<1>6. ActorsFit'
  BY <1>1, ActorsRest
<1>7. FormFits' /\ \A r \in Speeches : SpeechFits(r)'
  BY <1>4 DEF RecorderInv, TextsFit, FormFits, SpeechFits
<1>8. \A x \in Submissions : x # p => AnswerIsOfForm(x)'
  BY <1>3, <1>4 DEF RecorderInv, TextsFit, AnswerIsOfForm
<1>9. AnswerIsOfForm(p)'
  BY <1>1, <1>2, <1>3, <1>4 DEF RecorderInv, TextsFit, FormFits, AnswerIsOfForm
<1>10. \A x \in Submissions : x # p => RecordingIsOver(x)'
  BY <1>3, <1>4 DEF RecorderInv, SubmissionsFit, RecordingIsOver
<1>11. RecordingIsOver(p)'
  <2> SUFFICES ASSUME blob \in Recordings
               PROVE  blob <= current /\ screen \notin RecordingScreens \cup {"done"}
    BY <1>1, <1>2, <1>3, <1>4 DEF RecordingIsOver
  <2>1. screen \notin RecordingScreens \cup {"done"}
    BY <1>1, Screens
  <2>2. blob <= current
    BY DEF RecorderInv, SubmissionsFit
  <2> QED
    BY <2>1, <2>2
<1>12. ASSUME NEW x \in Submissions, x # p, submission[x].of = blob, blob \in Recordings
       PROVE  submission[x].failed
  BY <1>1, <1>12 DEF RecorderInv, SubmissionsFit, RecordingIsOver
<1>13. OnceEach'
  <2>0. \A x, y \in Submissions : x # y => ~submission'[x].watched \/ ~submission'[y].watched
    BY <1>1, <1>3
  <2>1. ASSUME NEW x \in Submissions, NEW y \in Submissions, x # y,
               submission'[x].of \in Recordings, submission'[y].of = submission'[x].of
        PROVE  submission'[x].failed \/ submission'[y].failed
    <3>1. CASE x # p /\ y # p
      BY <1>3, <2>1, <3>1 DEF RecorderInv, SubmissionsFit, OnceEach
    <3>2. CASE x = p
      BY <1>2, <1>3, <1>12, <2>1, <3>2
    <3>3. CASE y = p
      BY <1>2, <1>3, <1>12, <2>1, <3>3
    <3> QED
      BY <3>1, <3>2, <3>3
  <2> QED
    BY <2>0, <2>1 DEF OnceEach
<1>14. blob' \in Recordings => blob' <= current'
  BY <1>4 DEF RecorderInv, SubmissionsFit
<1> QED
  BY <1>5, <1>6, <1>7, <1>8, <1>9, <1>10, <1>11, <1>13, <1>14
  DEF RecorderInv, TextsFit, SubmissionsFit

LEMMA CreateCallStep ==
  ASSUME RecorderInv, NEW p \in Submissions, CreateCall(p) \/ PostLost(p)
  PROVE  RecorderInv'
<1> DEFINE next == IF CreateCall(p) THEN "stored" ELSE "gone"
           s == [submission[p] EXCEPT !.state = next]
<1>1. /\ submission[p].state = "sent"
      /\ submission' = [submission EXCEPT ![p] = s]
      /\ UNCHANGED <<screen, devices, current, actor, ignored, blob, questionVars, accidents>>
  BY DEF CreateCall, PostLost
<1>2. next \in {"stored", "gone"} /\ submission[p] \in Submission
  BY DEF RecorderInv, RecordingTypeOK
<1> HIDE DEF next
<1>3. /\ s \in Submission /\ s.of = submission[p].of /\ s.text = submission[p].text
      /\ s.late = submission[p].late /\ s.state # "none"
      /\ s.watched = submission[p].watched /\ s.failed = submission[p].failed
  BY <1>2 DEF Submission
<1> HIDE DEF s
<1>4. /\ text' = text /\ late' = late /\ question' = question /\ speech' = speech
      /\ accidents' \in 0..MaxAccidents
  BY <1>1 DEF questionVars, RecorderInv, RecordingTypeOK
<1> QED
  BY <1>1, <1>3, <1>4, SubmissionMoves

LEMMA SubmissionFailsStep ==
  ASSUME RecorderInv, NEW p \in Submissions, SubmissionFails(p)
  PROVE  RecorderInv'
<1> DEFINE s == [submission[p] EXCEPT !.watched = FALSE, !.failed = TRUE]
<1>1. /\ submission[p].watched /\ accidents < MaxAccidents /\ accidents' = accidents + 1
      /\ submission' = [submission EXCEPT ![p].watched = FALSE, ![p].failed = TRUE]
      /\ text' \in {text, submission[p].text}
      /\ UNCHANGED <<screen, devices, current, actor, ignored, blob, question, speech, late>>
  BY DEF SubmissionFails, Accident
<1>2. /\ submission \in [Submissions -> Submission] /\ submission[p] \in Submission
      /\ submission[p].state # "none"
  BY <1>1 DEF RecorderInv, RecordingTypeOK, TextsFit, AnswerIsOfForm
<1>3. submission' = [submission EXCEPT ![p] = s]
  BY <1>1, <1>2
<1>4. /\ s \in Submission /\ s.of = submission[p].of /\ s.text = submission[p].text
      /\ s.late = submission[p].late /\ s.state # "none" /\ ~s.watched /\ s.failed
  BY <1>2 DEF Submission
<1> HIDE DEF s
<1>5. accidents' \in 0..MaxAccidents
  BY <1>1, RecordingNumbers DEF RecorderInv, RecordingTypeOK
<1> QED
  BY <1>1, <1>2, <1>3, <1>4, <1>5, SubmissionMoves

\* The form goes with its audio; only one submission had been watched.
LEMMA RedirectedStep ==
  ASSUME RecorderInv, NEW p \in Submissions, Redirected(p)
  PROVE  RecorderInv'
<1> DEFINE s == [submission[p] EXCEPT !.watched = FALSE]
<1>1. /\ submission[p].watched /\ submission[p].state = "stored" /\ screen' = "away"
      /\ blob' = 0 /\ text' = None /\ late' = FALSE /\ question' = None
      /\ speech' = [r \in Speeches |-> NoSpeech]
      /\ submission' = [submission EXCEPT ![p] = s]
      /\ UNCHANGED <<devices, current, actor, ignored, accidents>>
  BY DEF Redirected, PageCleared, FormCleared
<1>2. submission[p] \in Submission /\ screen = "form"
  BY <1>1 DEF RecorderInv, RecordingTypeOK, TextsFit, AnswerIsOfForm
<1>3. /\ s \in Submission /\ s.of = submission[p].of /\ s.text = submission[p].text
      /\ s.late = submission[p].late /\ s.state = submission[p].state /\ ~s.watched
      /\ s.failed = submission[p].failed
  BY <1>2 DEF Submission
<1> HIDE DEF s
<1>4. /\ submission' \in [Submissions -> Submission] /\ submission'[p] = s
      /\ \A x \in Submissions : x # p => submission'[x] = submission[x]
  BY <1>1, <1>3, OneSubmission
<1>5. \A x \in Submissions : /\ submission'[x].of = submission[x].of /\ ~submission'[x].watched
                              /\ submission'[x].text = submission[x].text
                              /\ submission'[x].late = submission[x].late
                              /\ submission'[x].state = submission[x].state
                              /\ submission'[x].failed = submission[x].failed
  BY <1>1, <1>3, <1>4 DEF RecorderInv, SubmissionsFit, OnceEach
<1>6. {screen, screen'} \cap RecordingScreens = {} /\ screen' \notin RecordingScreens \cup {"done"}
  BY <1>1, <1>2, Screens
<1>7. ActorsFit'
  BY <1>1, <1>6, ActorsRest
<1>8. \A r \in Speeches : SpeechFits(r)' /\ speech'[r] \in Speech
  BY <1>1 DEF SpeechFits, NoSpeech, Speech
<1>9. RecordingTypeOK'
  <2>1. speech' \in [Speeches -> Speech]
    BY <1>1, <1>8
  <2> QED
    BY <1>1, <1>4, <2>1, RecordingNumbers DEF RecorderInv, RecordingTypeOK
<1>10. FormFits' /\ \A x \in Submissions : AnswerIsOfForm(x)'
  BY <1>1, <1>5 DEF RecorderInv, TextsFit, FormFits, AnswerIsOfForm
<1>11. \A x \in Submissions : RecordingIsOver(x)'
  BY <1>1, <1>5, <1>6, RecordingNumbers DEF RecorderInv, SubmissionsFit, RecordingIsOver
<1>12. OnceEach' /\ (blob' \in Recordings => blob' <= current')
  BY <1>1, <1>5, RecordingNumbers DEF RecorderInv, SubmissionsFit, OnceEach
<1> QED
  BY <1>7, <1>8, <1>9, <1>10, <1>11, <1>12 DEF RecorderInv, TextsFit, SubmissionsFit

LEMMA RecorderKeeps == RecorderInv /\ [RecordingNext]_recorderVars => RecorderInv'
<1> SUFFICES ASSUME RecorderInv, [RecordingNext]_recorderVars PROVE RecorderInv'
  OBVIOUS
<1>1. CASE UNCHANGED recorderVars
  <2>1. RecordingTypeOK'
    BY <1>1 DEF recorderVars, questionVars, RecorderInv, RecordingTypeOK
  <2> QED
    BY <1>1, <2>1, ActorsRest, TextsRest, SubmissionsRest DEF recorderVars, RecorderInv
<1>2. ASSUME NEW q \in Questions, EditQuestion(q)
      PROVE  RecorderInv'
  BY <1>2, TypingStep DEF EditQuestion
<1>3. ASSUME RecordInstead
      PROVE  RecorderInv'
  BY <1>3, TypingStep DEF RecordInstead
<1>4. ASSUME NEW r \in Speeches, SpeechStep(r)
      PROVE  RecorderInv'
  BY <1>4, SpeechMovesStep, SpeechAcceptedStep DEF SpeechStep
<1>5. ASSUME NEW n \in Recordings, ActorStep(n)
      PROVE  RecorderInv'
  BY <1>5, MicrophoneGrantedStep, MicrophoneRefusedStep, DeviceUnpluggedStep, DataArrivesStep
  DEF ActorStep
<1>6. ASSUME NEW p \in Submissions, PostStep(p)
      PROVE  RecorderInv'
  BY <1>6, SubmitStep, CreateCallStep, RedirectedStep, SubmissionFailsStep DEF PostStep
<1>7. ASSUME Pause \/ Resume
      PROVE  RecorderInv'
  <2>1. CASE Pause
    BY <2>1, CommandStep DEF Pause
  <2>2. CASE Resume
    BY <2>2, CommandStep DEF Resume
  <2> QED
    BY <1>7, <2>1, <2>2
<1> QED
  BY <1>1, <1>2, <1>3, <1>4, <1>5, <1>6, <1>7, BeforeRecording, StartRecordingStep, StopStep,
     LeavePageStep, TypeInsteadStep, AcceptStep, StartOverStep
  DEF RecordingNext

\* Every variable of the recorder holds a value of its kind, and a machine that is done
\* has the recording that was begun last, for any number of recordings and submissions.
THEOREM RecorderTyped == RecordingSpec => []RecordingTypeOK
<1>1. RecordingSpec => []RecorderInv
  BY RecorderStart, RecorderKeeps, PTL DEF RecordingSpec
<1> QED
  BY <1>1, PTL DEF RecorderInv

\* The screen tells what the microphone does, a recording becomes one call unless a
\* submission failed, and the text beside an audio is what is heard in it, whichever
\* permissions, data, voices and answers are late.
THEOREM RecorderHonest == RecordingSpec => []RecorderIsHonest
<1>1. RecordingSpec => []RecorderInv
  BY RecorderStart, RecorderKeeps, PTL DEF RecordingSpec
<1> QED
  BY <1>1, HonestRecorder, PTL

-----------------------------------------------------------------------------
(* The rate limits, for any keys, limit and window.                        *)

\* What is counted for a key fits a window.
LEMMA CountsFit ==
  ASSUME LimitsTypeOK, NEW key \in LimitKeys
  PROVE  CountedIn(key) \in Window
<1>1. RateLimit \in Nat \ {0} /\ WindowLength \in Nat \ {0}
  BY LimitsAssumption
<1>2. CASE Reopens(key)
  BY <1>1, <1>2 DEF CountedIn, Window
<1>3. CASE ~Reopens(key)
  <2>1. window[key] \in Window
    BY <1>3 DEF LimitsTypeOK, Reopens
  <2>2. window[key].count \in 1..RateLimit + 1
    BY <2>1 DEF Window
  <2>3. ~(window[key].count > RateLimit) => window[key].count + 1 \in 1..RateLimit + 1
    BY <1>1, <2>2
  <2> QED BY <1>3, <2>1, <2>3 DEF CountedIn, Window
<1> QED BY <1>2, <1>3

LEMMA AskFits ==
  ASSUME LimitsTypeOK, NEW key \in LimitKeys, Ask(key)
  PROVE  LimitsTypeOK'
<1> DEFINE windows == [window EXCEPT ![key] = CountedIn(key)]
           admissions == IF Admits(key) THEN [admitted EXCEPT ![key][0] = @ + 1] ELSE admitted
<1>1. WindowLength \in Nat \ {0} /\ 0 \in Ticks
  BY LimitsAssumption DEF Ticks
<1>2. windows \in [LimitKeys -> Window \cup {None}]
  BY CountsFit DEF LimitsTypeOK
<1>3. admissions \in [LimitKeys -> [Ticks -> Nat]]
  BY <1>1 DEF LimitsTypeOK
<1>4. NoneAdmitted \in [Ticks -> Nat]
  BY DEF NoneAdmitted
<1>5. PICK gone \in Swept(windows, key) :
        /\ window' = [k \in LimitKeys |-> IF k \in gone THEN None ELSE windows[k]]
        /\ admitted' = IF limiter = "app"
                       THEN [k \in LimitKeys |-> IF k \in gone THEN NoneAdmitted
                                                 ELSE admissions[k]]
                       ELSE admissions
  BY DEF Ask
<1> HIDE DEF windows, admissions
<1>6. window' \in [LimitKeys -> Window \cup {None}]
  BY <1>2, <1>5
<1>7. admitted' \in [LimitKeys -> [Ticks -> Nat]]
  BY <1>3, <1>4, <1>5
<1> QED BY <1>6, <1>7 DEF Ask, LimitsTypeOK

LEMMA LimitsTickFits == LimitsTypeOK /\ LimitsTick => LimitsTypeOK'
<1> SUFFICES ASSUME LimitsTypeOK, LimitsTick
             PROVE  LimitsTypeOK'
  OBVIOUS
<1>1. WindowLength \in Nat
  BY LimitsAssumption
<1>2. ASSUME NEW k \in LimitKeys
      PROVE  window'[k] \in Window \cup {None}
  <2>1. window'[k] = IF window[k] = None \/ window[k].left = 0 THEN window[k]
                     ELSE [window[k] EXCEPT !.left = @ - 1]
    BY DEF LimitsTick
  <2>2. CASE window[k] = None \/ window[k].left = 0
    BY <2>1, <2>2 DEF LimitsTypeOK
  <2>3. CASE window[k] # None /\ window[k].left # 0
    <3>1. window[k] \in Window
      BY <2>3 DEF LimitsTypeOK
    <3>2. window[k].left - 1 \in 0..WindowLength
      BY <1>1, <2>3, <3>1 DEF Window
    <3> QED BY <2>1, <2>3, <3>1, <3>2 DEF Window
  <2> QED BY <2>2, <2>3
<1>3. window' \in [LimitKeys -> Window \cup {None}]
  BY <1>2 DEF LimitsTick
<1>4. \A k \in LimitKeys, t \in Ticks : t # 0 => admitted[k][t - 1] \in Nat
  <2>1. \A t \in Ticks : t # 0 => t - 1 \in Ticks
    BY <1>1 DEF Ticks
  <2> QED BY <2>1 DEF LimitsTypeOK
<1>5. admitted' \in [LimitKeys -> [Ticks -> Nat]]
  BY <1>4 DEF LimitsTick
<1> QED BY <1>3, <1>5 DEF LimitsTick, LimitsTypeOK

\* Windows and what was granted hold values of their kinds: no count passes the limit
\* by more than one, and no window lasts longer than it should.
THEOREM LimitsTyped == LimitsSpec => []LimitsTypeOK
<1>1. LimitsInit => LimitsTypeOK
  BY DEF LimitsInit, LimitsTypeOK, NoneAdmitted
<1>2. LimitsTypeOK /\ [LimitsNext]_limitVars => LimitsTypeOK'
  BY AskFits, LimitsTickFits DEF LimitsNext, limitVars, LimitsTypeOK
<1> QED BY <1>1, <1>2, PTL DEF LimitsSpec

-----------------------------------------------------------------------------
(* The bound on what is granted, from what is granted to an open window    *)
(* and before it.                                                          *)

\* A window that is gone or over; the ticks since one was opened; what was granted in
\* them, and before.
WindowClosed(w) == w = None \/ w.left = 0
WindowAge(w) == WindowLength - w.left
GrantedSince(w, history) == {g \in Grants(history) : g[1] <= WindowAge(w)}
GrantedBefore(w, history) == {g \in Grants(history) : g[1] > WindowAge(w)}

\* A window that is open has counted what was granted since, its own first request among
\* it; the first request of the window before it is out of reach, so
\* there is one less than a limit from before.  The same when the window is over.
KeyFits(w, history) ==
  /\ WindowClosed(w) =>
       history[0] = 0 /\ Cardinality(Grants(history)) <= RateLimit - 1
  /\ ~WindowClosed(w) =>
       /\ history[WindowAge(w)] > 0
       /\ Cardinality(GrantedSince(w, history)) <= RateLimit
       /\ Cardinality(GrantedSince(w, history)) <= w.count
       /\ Cardinality(GrantedBefore(w, history)) <= RateLimit - 1

LimitsInv == LimitsTypeOK /\ \A key \in LimitKeys : KeyFits(window[key], admitted[key])

\* There are finitely many grants, so those of a part can be counted.
LEMMA GrantsAreFinite ==
  ASSUME NEW history
  PROVE  /\ IsFiniteSet(Grants(history))
         /\ \A few \in SUBSET Grants(history) :
              IsFiniteSet(few) /\ Cardinality(few) \in Nat
<1>1. IsFiniteSet(Ticks) /\ IsFiniteSet(1..2 * RateLimit)
  <2>1. 0 \in Int /\ WindowLength - 1 \in Int /\ 1 \in Int /\ 2 * RateLimit \in Int
    BY LimitsAssumption
  <2> QED BY <2>1, FS_Interval DEF Ticks
<1>2. IsFiniteSet(Ticks \X (1..2 * RateLimit))
  BY <1>1, FS_Product
<1>3. Grants(history) \in SUBSET (Ticks \X (1..2 * RateLimit))
  BY DEF Grants
<1>4. IsFiniteSet(Grants(history))
  BY <1>2, <1>3, FS_Subset
<1>5. \A few \in SUBSET Grants(history) : IsFiniteSet(few)
  BY <1>4, FS_Subset
<1> QED BY <1>4, <1>5, FS_CardinalityType

\* A tick takes every grant one tick back, and no two to the same place.
LEMMA GrantsGrowOld ==
  ASSUME NEW older, NEW history,
         NEW few \in SUBSET Grants(older), NEW many \in SUBSET Grants(history),
         \A g \in few : <<g[1] - 1, g[2]>> \in many
  PROVE  Cardinality(few) <= Cardinality(many)
<1> DEFINE back == [g \in few |-> <<g[1] - 1, g[2]>>]
<1>1. \A g \in few : g \in Nat \X Nat /\ g = <<g[1], g[2]>>
  BY LimitsAssumption DEF Grants, Ticks
<1>2. back \in [few -> many]
  OBVIOUS
<1>3. ASSUME NEW g \in few, NEW h \in few, back[g] = back[h]
      PROVE  g = h
  <2>1. g[1] - 1 = h[1] - 1 /\ g[2] = h[2]
    BY <1>3
  <2>2. g[1] = h[1]
    BY <1>1, <2>1
  <2>3. g = <<g[1], g[2]>> /\ h = <<h[1], h[2]>>
    BY <1>1, Zenon
  <2> QED BY <2>1, <2>2, <2>3, Zenon
<1>4. back \in Injection(few, many)
  BY <1>2, <1>3 DEF Injection, IsInjective
<1> QED BY <1>4, FS_Injection, GrantsAreFinite

\* A fresh entry fits, and one that is swept when it is over.
LEMMA NoWindowFits == KeyFits(None, NoneAdmitted)
<1>1. 0 \in Ticks
  BY LimitsAssumption DEF Ticks
<1>2. Grants(NoneAdmitted) = {}
  <2>1. \A g \in Ticks \X (1..2 * RateLimit) : ~(g[2] <= NoneAdmitted[g[1]])
    BY LimitsAssumption DEF NoneAdmitted
  <2> QED BY <2>1 DEF Grants
<1> QED BY <1>1, <1>2, FS_EmptySet, LimitsAssumption DEF KeyFits, WindowClosed, NoneAdmitted

LEMMA SweptWindowFits ==
  ASSUME NEW w, NEW history, KeyFits(w, history), WindowClosed(w)
  PROVE  KeyFits(None, history)
BY DEF KeyFits, WindowClosed

\* One more is granted now.
LEMMA OneMoreGrant ==
  ASSUME NEW history \in [Ticks -> Nat], NEW more,
         more = [history EXCEPT ![0] = @ + 1]
  PROVE  /\ more \in [Ticks -> Nat]
         /\ more[0] = history[0] + 1
         /\ \A t \in Ticks : t # 0 => more[t] = history[t]
         /\ Grants(more) \subseteq Grants(history) \cup {<<0, history[0] + 1>>}
<1>1. 0 \in Ticks /\ Ticks \subseteq Nat
  BY LimitsAssumption DEF Ticks
<1>2. more[0] = history[0] + 1 /\ \A t \in Ticks : t # 0 => more[t] = history[t]
  BY <1>1
<1>3. ASSUME NEW g \in Grants(more), g \notin Grants(history)
      PROVE  g = <<0, history[0] + 1>>
  <2>1. /\ g \in Ticks \X (1..2 * RateLimit) /\ g = <<g[1], g[2]>>
        /\ g[2] <= more[g[1]] /\ ~(g[2] <= history[g[1]])
    BY <1>3 DEF Grants
  <2>2. g[1] \in Ticks /\ g[2] \in Nat
    BY <2>1, LimitsAssumption
  <2>3. g[1] = 0
    BY <1>2, <2>1, <2>2
  <2>4. g[2] = history[0] + 1
    BY <1>1, <1>2, <2>1, <2>2, <2>3
  <2>5. g = <<g[1], g[2]>>
    BY <2>1
  <2> QED BY <2>3, <2>4, <2>5, Zenon
<1>4. history[0] + 1 \in Nat
  BY <1>1
<1>5. more \in [Ticks -> Nat]
  BY <1>4
<1>6. Grants(more) \subseteq Grants(history) \cup {<<0, history[0] + 1>>}
  BY <1>3
<1> QED BY <1>2, <1>5, <1>6

\* A request that is granted or denied leaves its own entry fit.
LEMMA AskedWindowFits ==
  ASSUME LimitsTypeOK, NEW key \in LimitKeys, NEW history, NEW more,
         history = admitted[key], KeyFits(window[key], history),
         more = IF Admits(key) THEN [history EXCEPT ![0] = @ + 1] ELSE history
  PROVE  KeyFits(CountedIn(key), more)
<1> DEFINE w == window[key]
           v == CountedIn(key)
<1>1. /\ RateLimit \in Nat \ {0} /\ WindowLength \in Nat \ {0}
      /\ 0 \in Ticks /\ Ticks \subseteq Nat /\ history \in [Ticks -> Nat]
  BY LimitsAssumption DEF Ticks, LimitsTypeOK
<1>2. Admits(key) =>
        /\ more \in [Ticks -> Nat]
        /\ more[0] = history[0] + 1
        /\ \A t \in Ticks : t # 0 => more[t] = history[t]
        /\ Grants(more) \subseteq Grants(history) \cup {<<0, history[0] + 1>>}
  BY <1>1, OneMoreGrant
<1>3. CASE WindowClosed(w)
  <2>1. v = [count |-> 1, left |-> WindowLength] /\ Admits(key)
    BY <1>3 DEF WindowClosed, Reopens, CountedIn, Admits
  <2>2. history[0] = 0 /\ Cardinality(Grants(history)) <= RateLimit - 1
    BY <1>3 DEF KeyFits
  <2>3. ~WindowClosed(v) /\ WindowAge(v) = 0 /\ v.count = 1
    <3>1. v # None
      BY CountsFit, NoneWindow
    <3> QED BY <1>1, <2>1, <3>1 DEF WindowClosed, WindowAge
  <2>4. \A g \in Grants(more) : g[1] \in Nat /\ (g[1] <= 0 => g = <<0, 1>>)
    <3> SUFFICES ASSUME NEW g \in Grants(more)
                 PROVE  g[1] \in Nat /\ (g[1] <= 0 => g = <<0, 1>>)
      OBVIOUS
    <3>1. g \in Ticks \X (1..2 * RateLimit) /\ g[2] <= more[g[1]]
      BY DEF Grants
    <3>2. g[1] \in Nat /\ g[2] \in Nat /\ g[2] >= 1 /\ g = <<g[1], g[2]>>
      <4>1. g[1] \in Ticks /\ g[2] \in 1..2 * RateLimit /\ g = <<g[1], g[2]>>
        BY <3>1
      <4> QED BY <1>1, <4>1
    <3>3. g[1] <= 0 => g[1] = 0 /\ g[2] = 1
      BY <1>2, <2>1, <2>2, <3>1, <3>2
    <3>4. g[1] = 0 /\ g[2] = 1 => g = <<0, 1>>
      BY <3>2, Zenon
    <3> QED BY <3>2, <3>3, <3>4
  <2>5. Cardinality(GrantedSince(v, more)) <= 1
    <3>1. GrantedSince(v, more) \in SUBSET {<<0, 1>>}
      BY <2>3, <2>4 DEF GrantedSince
    <3>2. IsFiniteSet({<<0, 1>>}) /\ Cardinality({<<0, 1>>}) = 1
      BY FS_Singleton
    <3> QED BY <3>1, <3>2, FS_Subset
  <2>6. Cardinality(GrantedBefore(v, more)) <= RateLimit - 1
    <3>1. GrantedBefore(v, more) \in SUBSET Grants(history)
      BY <1>2, <2>1, <2>3, <2>4 DEF GrantedBefore
    <3>2. Cardinality(GrantedBefore(v, more)) <= Cardinality(Grants(history))
      BY <3>1, GrantsAreFinite, FS_Subset
    <3>3. Cardinality(GrantedBefore(v, more)) \in Nat /\ Cardinality(Grants(history)) \in Nat
      BY <3>1, GrantsAreFinite
    <3> QED BY <1>1, <2>2, <3>2, <3>3
  <2>7. more[WindowAge(v)] > 0
    BY <1>2, <2>1, <2>2, <2>3
  <2>8. Cardinality(GrantedSince(v, more)) \in Nat
    <3>1. GrantedSince(v, more) \in SUBSET Grants(more)
      BY DEF GrantedSince
    <3> QED BY <3>1, GrantsAreFinite
  <2> QED BY <1>1, <2>3, <2>5, <2>6, <2>7, <2>8 DEF KeyFits
<1>4. CASE ~WindowClosed(w)
  <2>1. /\ w \in Window /\ w.count \in Nat /\ w.left \in 1..WindowLength
    BY <1>1, <1>4 DEF WindowClosed, LimitsTypeOK, Window
  <2>2. /\ history[WindowAge(w)] > 0
        /\ Cardinality(GrantedSince(w, history)) <= RateLimit
        /\ Cardinality(GrantedSince(w, history)) <= w.count
        /\ Cardinality(GrantedBefore(w, history)) <= RateLimit - 1
    BY <1>4 DEF KeyFits
  <2>3. /\ ~WindowClosed(v) /\ v.left = w.left
        /\ v.count \in Nat /\ v.count >= w.count
        /\ w.count < RateLimit => v.count = w.count + 1
    <3>1. v \in Window /\ v # None
      BY CountsFit, NoneWindow
    <3>2. v = w \/ (v = [w EXCEPT !.count = @ + 1])
      BY <1>4 DEF WindowClosed, Reopens, CountedIn
    <3>3. w.count < RateLimit => v = [w EXCEPT !.count = @ + 1]
      BY <1>1, <1>4, <2>1 DEF WindowClosed, Reopens, CountedIn
    <3> QED BY <1>4, <2>1, <3>1, <3>2, <3>3 DEF WindowClosed, Window
  <2>4. WindowAge(v) = WindowAge(w) /\ WindowAge(w) \in Ticks
    BY <1>1, <2>1, <2>3 DEF WindowAge, Ticks
  <2>5. CASE ~Admits(key)
    <3>1. more = history
      BY <2>5
    <3>2. /\ GrantedSince(v, more) = GrantedSince(w, history)
          /\ GrantedBefore(v, more) = GrantedBefore(w, history)
      BY <2>4, <3>1 DEF GrantedSince, GrantedBefore
    <3>3. GrantedSince(w, history) \in SUBSET Grants(history)
      BY DEF GrantedSince
    <3>4. Cardinality(GrantedSince(w, history)) \in Nat
      BY <3>3, GrantsAreFinite
    <3> QED BY <2>1, <2>2, <2>3, <2>4, <3>1, <3>2, <3>4 DEF KeyFits
  <2>6. CASE Admits(key)
    <3>1. w.count < RateLimit
      BY <1>4, <2>6 DEF Admits, Reopens, WindowClosed
    <3>2. GrantedBefore(v, more) \in SUBSET GrantedBefore(w, history)
      <4> SUFFICES ASSUME NEW g \in GrantedBefore(v, more)
                   PROVE  g \in GrantedBefore(w, history)
        OBVIOUS
      <4>1. g \in Grants(more) /\ g[1] > WindowAge(w)
        BY <2>4 DEF GrantedBefore
      <4>2. g # <<0, history[0] + 1>>
        BY <1>1, <2>4, <4>1
      <4> QED BY <1>2, <2>6, <4>1, <4>2 DEF GrantedBefore
    <3>3. GrantedSince(v, more) \in SUBSET (GrantedSince(w, history) \cup {<<0, history[0] + 1>>})
      BY <1>2, <2>4, <2>6 DEF GrantedSince
    <3>4. /\ GrantedBefore(w, history) \in SUBSET Grants(history)
          /\ GrantedSince(w, history) \in SUBSET Grants(history)
          /\ GrantedBefore(v, more) \in SUBSET Grants(more)
          /\ GrantedSince(v, more) \in SUBSET Grants(more)
      BY DEF GrantedBefore, GrantedSince
    <3>5. /\ IsFiniteSet(GrantedBefore(w, history)) /\ IsFiniteSet(GrantedSince(w, history))
          /\ Cardinality(GrantedBefore(w, history)) \in Nat
          /\ Cardinality(GrantedSince(w, history)) \in Nat
          /\ Cardinality(GrantedBefore(v, more)) \in Nat
          /\ Cardinality(GrantedSince(v, more)) \in Nat
      BY <3>4, GrantsAreFinite
    <3>6. Cardinality(GrantedBefore(v, more)) <= Cardinality(GrantedBefore(w, history))
      BY <3>2, <3>5, FS_Subset
    <3>7. Cardinality(GrantedSince(v, more)) <= Cardinality(GrantedSince(w, history)) + 1
      <4> DEFINE one == GrantedSince(w, history) \cup {<<0, history[0] + 1>>}
      <4>1. /\ IsFiniteSet(one)
            /\ \/ Cardinality(one) = Cardinality(GrantedSince(w, history))
               \/ Cardinality(one) = Cardinality(GrantedSince(w, history)) + 1
        BY <3>5, FS_AddElement
      <4>2. Cardinality(GrantedSince(v, more)) <= Cardinality(one)
        BY <3>3, <4>1, FS_Subset
      <4> QED BY <3>5, <4>1, <4>2
    <3>8. more[WindowAge(v)] > 0
      BY <1>1, <1>2, <2>2, <2>4, <2>6
    <3>9. Cardinality(GrantedSince(v, more)) <= v.count
      BY <2>1, <2>2, <2>3, <3>1, <3>5, <3>7
    <3>10. Cardinality(GrantedSince(v, more)) <= RateLimit
      BY <1>1, <2>1, <2>2, <3>1, <3>5, <3>7
    <3>11. Cardinality(GrantedBefore(v, more)) <= RateLimit - 1
      BY <1>1, <2>2, <3>5, <3>6
    <3> QED BY <2>3, <3>8, <3>9, <3>10, <3>11 DEF KeyFits
  <2> QED BY <2>5, <2>6
<1> QED BY <1>3, <1>4

\* A tick leaves every entry fit: when it ends a window, the first request of that window
\* has just become too old to count.
LEMMA TickedWindowFits ==
  ASSUME NEW w \in Window \cup {None}, NEW history \in [Ticks -> Nat], KeyFits(w, history),
         NEW v, v = IF w = None \/ w.left = 0 THEN w ELSE [w EXCEPT !.left = @ - 1],
         NEW older, older = [t \in Ticks |-> IF t = 0 THEN 0 ELSE history[t - 1]]
  PROVE  KeyFits(v, older)
<1>1. /\ RateLimit \in Nat \ {0} /\ WindowLength \in Nat \ {0}
      /\ 0 \in Ticks /\ Ticks \subseteq Nat
  BY LimitsAssumption DEF Ticks
<1>2. older[0] = 0
  BY <1>1
<1>3. \A g \in Grants(older) :
        /\ g[1] \in Nat /\ g[1] - 1 \in Nat /\ g[1] - 1 < WindowLength - 1
        /\ <<g[1] - 1, g[2]>> \in Grants(history)
  <2> SUFFICES ASSUME NEW g \in Grants(older)
               PROVE  /\ g[1] \in Nat /\ g[1] - 1 \in Nat /\ g[1] - 1 < WindowLength - 1
                      /\ <<g[1] - 1, g[2]>> \in Grants(history)
    OBVIOUS
  <2>1. g[1] \in Ticks /\ g[2] \in 1..2 * RateLimit /\ g[2] <= older[g[1]]
    BY DEF Grants
  <2>2. g[1] # 0
    BY <1>1, <1>2, <2>1
  <2>3. /\ g[1] \in Nat /\ g[1] - 1 \in Nat /\ g[1] - 1 < WindowLength - 1
        /\ g[1] - 1 \in Ticks
    BY <1>1, <2>1, <2>2 DEF Ticks
  <2>4. g[2] <= history[g[1] - 1]
    BY <2>1, <2>2
  <2> QED BY <2>1, <2>3, <2>4 DEF Grants
<1>4. CASE WindowClosed(w)
  <2>1. v = w
    BY <1>4 DEF WindowClosed
  <2>2. Cardinality(Grants(older)) <= Cardinality(Grants(history))
    BY <1>3, GrantsGrowOld
  <2>3. Cardinality(Grants(older)) \in Nat /\ Cardinality(Grants(history)) \in Nat
    BY GrantsAreFinite
  <2> QED BY <1>1, <1>2, <1>4, <2>1, <2>2, <2>3 DEF KeyFits
<1>5. CASE ~WindowClosed(w)
  <2>1. w \in Window /\ w.left \in 1..WindowLength /\ w.count \in Nat
    BY <1>1, <1>5 DEF WindowClosed, Window
  <2>2. v = [w EXCEPT !.left = @ - 1]
    BY <1>5 DEF WindowClosed
  <2>3. v \in Window /\ v # None /\ v.left = w.left - 1 /\ v.count = w.count
    <3>1. w.left - 1 \in 0..WindowLength
      BY <1>1, <2>1
    <3> QED BY <2>1, <2>2, <3>1, NoneWindow DEF Window
  <2>4. /\ WindowAge(w) \in Ticks /\ WindowAge(v) = WindowAge(w) + 1
        /\ WindowAge(w) \in Nat /\ WindowAge(v) \in Nat
    BY <1>1, <2>1, <2>3 DEF WindowAge, Ticks
  <2>5. /\ history[WindowAge(w)] > 0
        /\ Cardinality(GrantedSince(w, history)) <= RateLimit
        /\ Cardinality(GrantedSince(w, history)) <= w.count
        /\ Cardinality(GrantedBefore(w, history)) <= RateLimit - 1
    BY <1>5 DEF KeyFits
  <2>6. /\ GrantedBefore(w, history) \in SUBSET Grants(history)
        /\ GrantedSince(w, history) \in SUBSET Grants(history)
        /\ GrantedBefore(v, older) \in SUBSET Grants(older)
        /\ GrantedSince(v, older) \in SUBSET Grants(older)
    BY DEF GrantedBefore, GrantedSince
  <2>7. /\ IsFiniteSet(GrantedSince(w, history))
        /\ Cardinality(GrantedBefore(w, history)) \in Nat
        /\ Cardinality(GrantedSince(w, history)) \in Nat
        /\ Cardinality(GrantedBefore(v, older)) \in Nat
        /\ Cardinality(GrantedSince(v, older)) \in Nat
    BY <2>6, GrantsAreFinite
  <2>8. CASE v.left = 0
    <3> DEFINE first == <<WindowAge(w), 1>>
               rest == GrantedSince(w, history) \ {first}
    <3>1. WindowAge(w) = WindowLength - 1
      BY <1>1, <2>1, <2>3, <2>8 DEF WindowAge
    <3>2. first \in GrantedSince(w, history)
      BY <1>1, <2>4, <2>5 DEF GrantedSince, Grants, Ticks
    <3>3. IsFiniteSet(rest) /\ Cardinality(rest) = Cardinality(GrantedSince(w, history)) - 1
      BY <2>7, <3>2, FS_RemoveElement
    <3>4. \A g \in Grants(older) : <<g[1] - 1, g[2]>> \in rest
      <4> SUFFICES ASSUME NEW g \in Grants(older)
                   PROVE  <<g[1] - 1, g[2]>> \in rest
        OBVIOUS
      <4>1. g[1] \in Nat /\ g[1] - 1 \in Nat
        BY <1>3
      <4>2. g[1] - 1 < WindowAge(w)
        BY <1>3, <3>1
      <4>3. <<g[1] - 1, g[2]>> # first
        BY <2>4, <4>1, <4>2
      <4>4. g[1] - 1 <= WindowAge(w)
        BY <2>4, <4>1, <4>2
      <4> QED BY <1>3, <4>3, <4>4 DEF GrantedSince
    <3>5. rest \in SUBSET Grants(history)
      BY <2>6
    <3>6. Cardinality(Grants(older)) <= Cardinality(rest)
      BY <3>4, <3>5, GrantsGrowOld
    <3>7. Cardinality(Grants(older)) \in Nat
      BY GrantsAreFinite
    <3>8. Cardinality(Grants(older)) <= RateLimit - 1
      BY <1>1, <2>5, <2>7, <3>3, <3>6, <3>7
    <3>9. WindowClosed(v)
      BY <2>8 DEF WindowClosed
    <3> QED BY <1>2, <3>8, <3>9 DEF KeyFits
  <2>9. CASE v.left # 0
    <3>1. ~WindowClosed(v)
      BY <2>3, <2>9 DEF WindowClosed
    <3>2. WindowAge(v) \in Ticks /\ WindowAge(v) # 0
      BY <1>1, <2>1, <2>3, <2>4, <2>9 DEF WindowAge, Ticks
    <3>3. older[WindowAge(v)] > 0
      <4>1. WindowAge(v) - 1 = WindowAge(w)
        BY <1>1, <2>4
      <4> QED BY <2>5, <3>2, <4>1
    <3>4. Cardinality(GrantedSince(v, older)) <= Cardinality(GrantedSince(w, history))
      <4>1. \A g \in GrantedSince(v, older) : <<g[1] - 1, g[2]>> \in GrantedSince(w, history)
        <5> SUFFICES ASSUME NEW g \in GrantedSince(v, older)
                     PROVE  <<g[1] - 1, g[2]>> \in GrantedSince(w, history)
          OBVIOUS
        <5>1. g \in Grants(older) /\ g[1] <= WindowAge(v)
          BY DEF GrantedSince
        <5>2. g[1] \in Nat
          BY <1>3, <5>1
        <5>3. g[1] - 1 <= WindowAge(w)
          BY <2>4, <5>1, <5>2
        <5> QED BY <1>3, <5>1, <5>3 DEF GrantedSince
      <4> QED BY <2>6, <4>1, GrantsGrowOld
    <3>5. Cardinality(GrantedBefore(v, older)) <= Cardinality(GrantedBefore(w, history))
      <4>1. \A g \in GrantedBefore(v, older) : <<g[1] - 1, g[2]>> \in GrantedBefore(w, history)
        <5> SUFFICES ASSUME NEW g \in GrantedBefore(v, older)
                     PROVE  <<g[1] - 1, g[2]>> \in GrantedBefore(w, history)
          OBVIOUS
        <5>1. g \in Grants(older) /\ g[1] > WindowAge(v)
          BY DEF GrantedBefore
        <5>2. g[1] \in Nat
          BY <1>3, <5>1
        <5>3. g[1] - 1 > WindowAge(w)
          BY <2>4, <5>1, <5>2
        <5> QED BY <1>3, <5>1, <5>3 DEF GrantedBefore
      <4> QED BY <2>6, <4>1, GrantsGrowOld
    <3>6. /\ Cardinality(GrantedSince(v, older)) <= RateLimit
          /\ Cardinality(GrantedSince(v, older)) <= v.count
          /\ Cardinality(GrantedBefore(v, older)) <= RateLimit - 1
      BY <1>1, <2>1, <2>3, <2>5, <2>7, <3>4, <3>5
    <3> QED BY <3>1, <3>3, <3>6 DEF KeyFits
  <2> QED BY <2>8, <2>9
<1> QED BY <1>4, <1>5

\* Every step keeps every entry fit.
LEMMA LimitsStepFits == LimitsInv /\ [LimitsNext]_limitVars => LimitsInv'
<1> SUFFICES ASSUME LimitsInv, [LimitsNext]_limitVars
             PROVE  LimitsInv'
  OBVIOUS
<1>1. LimitsTypeOK /\ \A k \in LimitKeys : KeyFits(window[k], admitted[k])
  BY DEF LimitsInv
<1>2. LimitsTypeOK'
  BY <1>1, AskFits, LimitsTickFits DEF LimitsNext, limitVars, LimitsTypeOK
<1>3. ASSUME NEW key \in LimitKeys, Ask(key), NEW k \in LimitKeys
      PROVE  KeyFits(window'[k], admitted'[k])
  <2> DEFINE windows == [window EXCEPT ![key] = CountedIn(key)]
             admissions == IF Admits(key) THEN [admitted EXCEPT ![key][0] = @ + 1] ELSE admitted
  <2>1. PICK gone \in Swept(windows, key) :
          /\ window' = [j \in LimitKeys |-> IF j \in gone THEN None ELSE windows[j]]
          /\ admitted' = IF limiter = "app"
                         THEN [j \in LimitKeys |-> IF j \in gone THEN NoneAdmitted
                                                   ELSE admissions[j]]
                         ELSE admissions
    BY <1>3 DEF Ask
  <2>2. KeyFits(windows[k], admissions[k])
    <3>1. CASE k = key
      <4>1. windows[k] = CountedIn(key)
        BY <1>1, <3>1 DEF LimitsTypeOK
      <4>2. admissions[k] = IF Admits(key) THEN [admitted[key] EXCEPT ![0] = @ + 1]
                            ELSE admitted[key]
        BY <1>1, <3>1 DEF LimitsTypeOK
      <4> QED BY <1>1, <4>1, <4>2, AskedWindowFits
    <3>2. CASE k # key
      <4>1. windows[k] = window[k] /\ admissions[k] = admitted[k]
        BY <1>1, <3>2 DEF LimitsTypeOK
      <4> QED BY <1>1, <4>1
    <3> QED BY <3>1, <3>2
  <2>3. k \in gone /\ limiter # "app" => windows[k].left = 0
    BY <2>1 DEF Swept
  <2> HIDE DEF windows, admissions
  <2>4. CASE k \notin gone
    BY <2>1, <2>2, <2>4
  <2>5. CASE k \in gone /\ limiter = "app"
    BY <2>1, <2>5, NoWindowFits
  <2>6. CASE k \in gone /\ limiter # "app"
    <3>1. KeyFits(None, admissions[k])
      BY <2>2, <2>3, <2>6, SweptWindowFits DEF WindowClosed
    <3> QED BY <2>1, <2>6, <3>1
  <2> QED BY <2>4, <2>5, <2>6
<1>4. ASSUME LimitsTick, NEW k \in LimitKeys
      PROVE  KeyFits(window'[k], admitted'[k])
  <2>1. window[k] \in Window \cup {None} /\ admitted[k] \in [Ticks -> Nat]
    BY <1>1 DEF LimitsTypeOK
  <2>2. /\ window'[k] = IF window[k] = None \/ window[k].left = 0 THEN window[k]
                        ELSE [window[k] EXCEPT !.left = @ - 1]
        /\ admitted'[k] = [t \in Ticks |-> IF t = 0 THEN 0 ELSE admitted[k][t - 1]]
    BY <1>4 DEF LimitsTick
  <2> QED BY <1>1, <2>1, <2>2, TickedWindowFits
<1>5. \A k \in LimitKeys : KeyFits(window'[k], admitted'[k])
  BY <1>1, <1>3, <1>4 DEF LimitsNext, limitVars
<1> QED BY <1>2, <1>5 DEF LimitsInv, KeyFits, WindowClosed, WindowAge,
           GrantedSince, GrantedBefore, Grants, Ticks

\* In no interval as long as a window does a key get more than the rest of one window and
\* the whole of the next: the windows of the three limiters are fixed and this is
\* what such windows bound, for any limit, length and capacity.
THEOREM LimitsBound == LimitsSpec => []LimitsHold
<1>1. LimitsInit => LimitsInv
  BY NoWindowFits DEF LimitsInit, LimitsInv, LimitsTypeOK, NoneAdmitted
<1>2. LimitsInv => LimitsHold
  <2> SUFFICES ASSUME LimitsInv, NEW key \in LimitKeys
               PROVE  Cardinality(Grants(admitted[key])) <= 2 * RateLimit - 1
    BY DEF LimitsHold
  <2> DEFINE w == window[key]
             since == GrantedSince(w, admitted[key])
             before == GrantedBefore(w, admitted[key])
  <2>1. RateLimit \in Nat \ {0} /\ KeyFits(w, admitted[key])
    BY LimitsAssumption DEF LimitsInv
  <2>2. Cardinality(Grants(admitted[key])) \in Nat
    BY GrantsAreFinite
  <2>3. CASE WindowClosed(w)
    BY <2>1, <2>2, <2>3 DEF KeyFits
  <2>4. CASE ~WindowClosed(w)
    <3>1. Cardinality(since) <= RateLimit /\ Cardinality(before) <= RateLimit - 1
      BY <2>1, <2>4 DEF KeyFits
    <3>2. /\ since \in SUBSET Grants(admitted[key]) /\ before \in SUBSET Grants(admitted[key])
          /\ since \cap before \in SUBSET Grants(admitted[key])
      BY DEF GrantedSince, GrantedBefore
    <3>3. /\ IsFiniteSet(since) /\ IsFiniteSet(before)
          /\ Cardinality(since) \in Nat /\ Cardinality(before) \in Nat
          /\ Cardinality(since \cap before) \in Nat
      BY <3>2, GrantsAreFinite
    <3>4. Grants(admitted[key]) = since \cup before
      <4>1. WindowAge(w) \in Int
        BY <2>4, LimitsAssumption DEF LimitsInv, LimitsTypeOK, WindowClosed, WindowAge, Window
      <4>2. \A g \in Grants(admitted[key]) : g[1] \in Int
        BY LimitsAssumption DEF Grants, Ticks
      <4> QED BY <4>1, <4>2 DEF GrantedSince, GrantedBefore
    <3>5. Cardinality(since \cup before) =
            Cardinality(since) + Cardinality(before) - Cardinality(since \cap before)
      BY <3>3, FS_Union
    <3> HIDE DEF since, before
    <3> QED BY <2>1, <3>1, <3>3, <3>4, <3>5
  <2> QED BY <2>3, <2>4
<1> QED BY <1>1, <1>2, LimitsStepFits, PTL DEF LimitsSpec

-----------------------------------------------------------------------------
(* The six parts together, as they are checked.                            *)

\* A behaviour of all of them is, for each part, one of that part.
LEMMA SitePartsAreTheirOwn ==
  SiteSpec => /\ CacheSpec /\ AccountsSpec /\ RecordsSpec
              /\ RecordingSpec /\ D1Spec /\ LimitsSpec
<1>1. SiteInit => /\ CacheInit /\ AccountsInit /\ RecordsInit
                  /\ RecordingInit /\ D1Init /\ LimitsInit
  BY DEF SiteInit
<1>2. [SiteNext]_siteVars =>
        /\ [CacheNext]_cacheVars /\ [AccountsNext]_accountVars
        /\ [RecordsNext]_recordVars /\ [RecordingNext]_recorderVars
        /\ [D1Next]_d1Vars /\ [LimitsNext]_limitVars
  BY DEF SiteNext, siteVars, Parts, PartRests
<1> QED BY <1>1, <1>2, PTL DEF SiteSpec, CacheSpec, AccountsSpec, RecordsSpec,
           RecordingSpec, D1Spec, LimitsSpec

\* Every variable of the part that does not rest holds a value of its kind.
THEOREM SiteTyped == SiteSpec => []SiteTypeOK
<1> DEFINE OneOfThem == part \in Parts
<1>1. SiteInit => OneOfThem
  BY DEF SiteInit
<1>2. OneOfThem /\ [SiteNext]_siteVars => OneOfThem'
  BY DEF SiteNext, siteVars
<1>3. /\ OneOfThem
      /\ CacheTypeOK /\ AccountsTypeOK /\ RecordsTypeOK
      /\ RecordingTypeOK /\ D1TypeOK /\ LimitsTypeOK
      => SiteTypeOK
  <2> SUFFICES ASSUME OneOfThem,
                      CacheTypeOK, AccountsTypeOK, RecordsTypeOK,
                      RecordingTypeOK, D1TypeOK, LimitsTypeOK
               PROVE  SiteTypeOK
    OBVIOUS
  <2>1. CASE part = "cache"
    BY <2>1 DEF SiteTypeOK
  <2>2. CASE part = "accounts"
    BY <2>2 DEF SiteTypeOK
  <2>3. CASE part = "records"
    BY <2>3 DEF SiteTypeOK
  <2>4. CASE part = "recorder"
    BY <2>4 DEF SiteTypeOK
  <2>5. CASE part = "d1"
    BY <2>5 DEF SiteTypeOK
  <2>6. CASE part = "limits"
    BY <2>6 DEF SiteTypeOK
  <2> QED BY <2>1, <2>2, <2>3, <2>4, <2>5, <2>6 DEF Parts
<1> HIDE DEF OneOfThem
<1> QED BY <1>1, <1>2, <1>3, SitePartsAreTheirOwn, CacheTypeCorrect, AccountsTypeCorrect,
           RecordsTyped, RecorderTyped, D1TypeCorrect, LimitsTyped, PTL DEF SiteSpec
=============================================================================
