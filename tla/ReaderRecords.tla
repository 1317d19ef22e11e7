---------------------------- MODULE ReaderRecords ----------------------------
(***************************************************************************)
(* What the site remembers of one reader on one device: homework done and  *)
(* posts read, under the id of a client cookie while anonymous and under   *)
(* the user afterwards, and the move from one to the other when the reader *)
(* signs in.  Several requests (tabs) may be under way; an action is one   *)
(* statement of D1 or the answer that sets the cookies.                    *)
(***************************************************************************)
EXTENDS Absence, Naturals, FiniteSets

CONSTANTS
  Homework,     \* homework items: unique per owner
  Posts,        \* posts that may be marked as read
  Clients,      \* client ids (UUIDs), used again once nothing names them
  Tabs,         \* requests that may be under way at a time
  MaxSignIns,   \* bound on sign-ins
  MaxTroubles   \* bound on statements that fail

Me == "me"
ASSUME ReaderAssumption ==
  /\ Me \notin Clients /\ None \notin Clients
  /\ MaxSignIns \in Nat /\ MaxTroubles \in Nat

VARIABLES
  kept,      \* the rows of each owner
  cookie,    \* the client cookie and whether the device is signed in
  tab,       \* the requests under way
  wanted,    \* what the reader was told is recorded, and did not take back
  excused,   \* what was done beside a sign-in, a first request or its taking back
  untracked, \* posts read by a device without a client cookie
  signIns,   \* sign-ins so far
  troubles   \* failed statements so far

recordVars == <<kept, cookie, tab, wanted, excused, untracked, signIns, troubles>>

Items == Homework \cup Posts
Owners == Clients \cup {Me}

Tab == [pc    : {"idle", "adding", "reads", "listing", "copying", "deleting", "answering"},
        way   : {"record", "login", "signup"},
        owner : Owners \cup {None},
        minted : BOOLEAN,         \* the request had no client cookie
        item  : Items \cup {None},
        left  : SUBSET Homework,  \* completions read and not yet copied
        overlapped : BOOLEAN]

Closed == [pc |-> "idle", way |-> "record", owner |-> None, minted |-> FALSE,
           item |-> None, left |-> {}, overlapped |-> FALSE]

Upset(t) == tab[t].way # "record" \/ tab[t].minted

\* A sign-in, or a request that mints a client id, overlaps what is under way.
Start(t, fields) ==
  LET upsetting == fields.way # "record" \/ fields.minted
      others == {u \in Tabs : tab[u].pc # "idle"}
      disturbed == \E u \in others : Upset(u)
  IN tab' = [u \in Tabs |->
       IF u = t THEN [fields EXCEPT !.overlapped = disturbed \/ (upsetting /\ others # {})]
       ELSE IF u \in others /\ upsetting THEN [tab[u] EXCEPT !.overlapped = TRUE]
       ELSE tab[u]]

Turn(t, pc) == tab' = [tab EXCEPT ![t].pc = pc]

ClientsInUse ==
  {cookie.client} \cup {tab[t].owner : t \in Tabs} \cup {c \in Clients : kept[c] # {}}
FreshClients == Clients \ ClientsInUse

\* Whom the request acts for: getUser, or else getClientSession, which mints an
\* id for a device that has none.
Acting(owner, minted) ==
  IF cookie.signedIn THEN owner = Me /\ ~minted
  ELSE IF cookie.client # None THEN owner = cookie.client /\ ~minted
  ELSE owner \in FreshClients /\ minted

-----------------------------------------------------------------------------

\* setEpisodeHomeworkCompletion (upsert) and addPostRead look for the row
\* first; a row that is there answers the request.
Record(t, i) ==
  /\ tab[t].pc = "idle"
  /\ \E owner \in Owners, minted \in BOOLEAN :
       /\ Acting(owner, minted)
       /\ Start(t, [Closed EXCEPT !.owner = owner, !.minted = minted, !.item = i,
                      !.pc = IF i \in kept[owner] THEN "answering" ELSE "adding"])
  /\ UNCHANGED <<kept, cookie, wanted, excused, untracked, signIns, troubles>>

\* The insert; another request may have been first (unique for homework).
Add(t) ==
  /\ tab[t].pc = "adding"
  /\ kept' = [kept EXCEPT ![tab[t].owner] = @ \cup {tab[t].item}]
  /\ Turn(t, "answering")
  /\ UNCHANGED <<cookie, wanted, excused, untracked, signIns, troubles>>

\* The cookie of a minted id arrives with the answer of the homework action;
\* the answer of mark-as-read has no cookies, and the id is lost.
SetsCookieAlways(item) == TRUE
SetsCookie(item) == item \in Homework

Answer(t) ==
  LET i == tab[t].item IN
  /\ tab[t].pc = "answering" /\ tab[t].way = "record"
  /\ cookie' = IF tab[t].minted /\ SetsCookie(i)
               THEN [cookie EXCEPT !.client = tab[t].owner] ELSE cookie
  /\ untracked' = IF tab[t].minted /\ ~SetsCookie(i) THEN untracked \cup {i}
                  ELSE untracked
  /\ wanted' = wanted \cup {tab[t].item}
  /\ excused' = IF tab[t].overlapped THEN excused \cup {tab[t].item} ELSE excused
  /\ tab' = [tab EXCEPT ![t] = Closed]
  /\ UNCHANGED <<kept, signIns, troubles>>

\* The homework loader answers a device without a cookie with a new one.
GetClientId ==
  /\ ~cookie.signedIn /\ cookie.client = None
  /\ \A t \in Tabs : tab[t].pc = "idle"
  /\ \E c \in FreshClients : cookie' = [cookie EXCEPT !.client = c]
  /\ UNCHANGED <<kept, tab, wanted, excused, untracked, signIns, troubles>>

\* Homework that is not done after all: one statement.
TakeBack(i) ==
  /\ \E owner \in Owners :
       /\ Acting(owner, FALSE)
       /\ i \in kept[owner]
       /\ kept' = [kept EXCEPT ![owner] = @ \ {i}]
  /\ wanted' = wanted \ {i}
  /\ excused' = IF \E t \in Tabs : tab[t].item = i THEN excused \cup {i} ELSE excused
  /\ UNCHANGED <<untracked, cookie, tab, signIns, troubles>>

-----------------------------------------------------------------------------

\* A sign-in by password, a reset or a signup moves what the client id owns.
SignInReader(t, way) ==
  /\ tab[t].pc = "idle"
  /\ ~cookie.signedIn
  /\ signIns < MaxSignIns /\ signIns' = signIns + 1
  /\ \E owner \in Clients, minted \in BOOLEAN :
       /\ Acting(owner, minted)
       /\ Start(t, [Closed EXCEPT !.pc = "reads", !.way = way, !.owner = owner,
                                  !.minted = minted])
  /\ UNCHANGED <<kept, cookie, wanted, excused, untracked, troubles>>

\* One update for all posts read.
MoveReads(t) ==
  LET c == tab[t].owner IN
  /\ tab[t].pc = "reads"
  /\ kept' = [kept EXCEPT ![Me] = @ \cup (kept[c] \cap Posts), ![c] = @ \ Posts]
  /\ Turn(t, "listing")
  /\ UNCHANGED <<cookie, wanted, excused, untracked, signIns, troubles>>

\* migrateHomeworkCompletionsToUser reads the completions of the client id,
NextOf(left) == IF left = {} THEN "answering" ELSE "copying"

ListHomework(t) ==
  LET found == kept[tab[t].owner] \cap Homework IN
  /\ tab[t].pc = "listing"
  /\ tab' = [tab EXCEPT ![t].left = found, ![t].pc = NextOf(found)]
  /\ UNCHANGED <<kept, cookie, wanted, excused, untracked, signIns, troubles>>

\* copies them one after the other (a row that is there already is all right),
CopyHomework(t) ==
  /\ tab[t].pc = "copying"
  /\ \E i \in tab[t].left :
       /\ kept' = [kept EXCEPT ![Me] = @ \cup {i}]
       /\ tab' = [tab EXCEPT ![t].left = @ \ {i},
                             ![t].pc = IF tab[t].left = {i} THEN "deleting" ELSE @]
  /\ UNCHANGED <<cookie, wanted, excused, untracked, signIns, troubles>>

\* and deletes whatever the client id owns by then.
DeleteHomework(t) ==
  /\ tab[t].pc = "deleting"
  /\ kept' = [kept EXCEPT ![tab[t].owner] = @ \ Homework]
  /\ Turn(t, "answering")
  /\ UNCHANGED <<cookie, wanted, excused, untracked, signIns, troubles>>

\* The answer signs in and destroys the client cookie.
SignedIn(t) ==
  /\ tab[t].pc = "answering" /\ tab[t].way # "record"
  /\ cookie' = [client |-> None, signedIn |-> TRUE]
  /\ tab' = [tab EXCEPT ![t] = Closed]
  /\ UNCHANGED <<kept, wanted, excused, untracked, signIns, troubles>>

\* The move fails at some statement.  Moving is best effort: the reader is
\* signed in; the cookie is destroyed by a login or a reset, whose handlers
\* catch the error before setUser, and kept by a signup.
KeepsNoCookie(way) == FALSE
KeepsCookie(way) == way = "signup"

MoveFails(t) ==
  LET c == tab[t].owner IN
  /\ tab[t].pc \in {"reads", "listing", "copying", "deleting"}
  /\ troubles < MaxTroubles /\ troubles' = troubles + 1
  /\ cookie' = [signedIn |-> TRUE,
                client |-> IF KeepsCookie(tab[t].way) THEN c ELSE None]
  /\ excused' = IF tab[t].way = "signup" THEN excused ELSE excused \cup kept[c]
  /\ tab' = [tab EXCEPT ![t] = Closed]
  /\ UNCHANGED <<kept, wanted, untracked, signIns>>

\* verify-authentication moves nothing and leaves the client cookie alone.
PasskeySignIn ==
  /\ ~cookie.signedIn
  /\ signIns < MaxSignIns /\ signIns' = signIns + 1
  /\ cookie' = [cookie EXCEPT !.signedIn = TRUE]
  /\ UNCHANGED <<kept, tab, wanted, excused, untracked, troubles>>

SignOutReader ==
  /\ cookie.signedIn
  /\ cookie' = [cookie EXCEPT !.signedIn = FALSE]
  /\ UNCHANGED <<kept, tab, wanted, excused, untracked, signIns, troubles>>

-----------------------------------------------------------------------------

RecordsInit ==
  /\ kept = [o \in Owners |-> {}]
  /\ cookie = [client |-> None, signedIn |-> FALSE]
  /\ tab = [t \in Tabs |-> Closed]
  /\ wanted = {}
  /\ excused = {}
  /\ untracked = {}
  /\ signIns = 0
  /\ troubles = 0

RecordsNext ==
  \/ \E t \in Tabs :
       \/ \E i \in Items : Record(t, i)
       \/ Add(t)
       \/ Answer(t)
       \/ SignInReader(t, "login") \/ SignInReader(t, "signup")
       \/ MoveReads(t)
       \/ ListHomework(t)
       \/ CopyHomework(t)
       \/ DeleteHomework(t)
       \/ SignedIn(t)
       \/ MoveFails(t)
  \/ \E i \in Homework : TakeBack(i)
  \/ GetClientId
  \/ PasskeySignIn
  \/ SignOutReader

RecordsSpec == RecordsInit /\ [][RecordsNext]_recordVars
=============================================================================
