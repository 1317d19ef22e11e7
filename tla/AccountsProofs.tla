---------------------------- MODULE AccountsProofs ----------------------------
(***************************************************************************)
(* Accounts, for any browsers, users, codes and sessions: a code grants    *)
(* once, a session fits the password it was opened with, and no account is *)
(* left without a password unless its request was lost.                    *)
(***************************************************************************)
EXTENDS AccountsProperties, TLAPS

-----------------------------------------------------------------------------
(* The inductive invariant, one part for each kind of state.               *)

\* A code that is there has granted nothing yet.
CodesFit ==
  /\ verification \in [Codes -> VerificationRow \cup {None}]
  /\ inbox \subseteq Codes
  /\ granted \in [Codes -> Nat]
  /\ \A c \in Codes : granted[c] <= 1 /\ (verification[c] # None => granted[c] = 0)
  /\ errors \in 0..MaxErrors

UsersFit ==
  /\ user \in [Users -> UserRow]
  /\ \A u \in Users : user[u].email = None => user[u] = NoUser

SessionTypes == session \in [Sessions -> SessionRow \cup {None}]
\* A session has a user: deleting the user deletes it, and no other is minted.
SessionsOwned ==
  \A s \in Sessions : session[s] # None => user[session[s].user].email # None

BrowserTypes == browser \in [Browsers -> Cookies]

\* A request has what its next statement needs.
RequestFits(r) ==
  /\ r \in Asking
  /\ r.pc \in {"mailing", "unmailing", "consuming"} => r.code \in Codes
  /\ r.pc = "consuming" => r.email \in Emails
  /\ r.pc \in {"protecting", "undoing", "storing", "sweeping", "sweeping again",
               "counting", "signing"} => r.user \in Users
  /\ r.pc \in {"protecting", "storing", "sweeping", "sweeping again"} => r.by \in Passwords
  /\ r.pc = "counting" => r.by = Passkey
  /\ r.pc = "signing" => r.by \in Passwords \cup {Passkey}

RequestsFit ==
  /\ asking \in [Browsers -> Asking]
  /\ \A b \in Browsers :
       /\ RequestFits(asking[b])
       /\ asking[b].pc = "renewing" => browser[b].session \in Sessions

\* A request that will open a session holds the password of the moment, or was
\* overlapped when another one was stored, or its user is gone.
HoldsPassword(r) ==
  r.pc \in {"sweeping", "sweeping again", "signing"} /\ r.by # Passkey /\ ~r.overlapped
  => user[r.user].email = None \/ r.by = user[r.user].password

SigningFits == \A b \in Browsers : HoldsPassword(asking[b])

\* What replicas show too long names users and passwords.
ShownTypes == shown \in [Browsers -> Shown]

AccountsInv ==
  /\ CodesFit
  /\ UsersFit
  /\ SessionTypes
  /\ SessionsOwned
  /\ BrowserTypes
  /\ RequestsFit
  /\ SigningFits
  /\ SessionsFitThePassword
  /\ AccountsHavePasswords

LEMMA SessionUserFits ==
  ASSUME AccountsInv, ShownTypes, NEW b \in Browsers, SessionUser(b) # None
  PROVE  SessionUser(b) \in Users
<1>1. /\ browser[b].session \in Sessions \cup {None}
      /\ shown[b].user \in Users \cup {None}
  BY DEF AccountsInv, BrowserTypes, Cookies, ShownTypes, Shown
<1>2. \A s \in Sessions : session[s] # None => session[s].user \in Users
  BY DEF AccountsInv, SessionTypes, SessionRow
<1> QED
  BY <1>1, <1>2 DEF SessionUser

-----------------------------------------------------------------------------
(* Requests.                                                               *)

Pcs == {"idle", "mailing", "unmailing", "consuming", "creating", "protecting", "undoing",
        "storing", "sweeping", "sweeping again", "counting", "signing", "renewing"}

\* What a request is after a step of its own.
Next(b, pc) == [asking[b] EXCEPT !.pc = pc]

LEMMA NextFits ==
  ASSUME AccountsInv, NEW b \in Browsers, NEW pc \in Pcs
  PROVE  /\ Next(b, pc) \in Asking
         /\ Next(b, pc).pc = pc
         /\ Next(b, pc).code = asking[b].code
         /\ Next(b, pc).email = asking[b].email
         /\ Next(b, pc).user = asking[b].user
         /\ Next(b, pc).by = asking[b].by
         /\ Next(b, pc).overlapped = asking[b].overlapped
         /\ Proceed(b, pc) => asking' = [asking EXCEPT ![b] = Next(b, pc)]
BY DEF AccountsInv, RequestsFit, Next, Asking, Proceed, Pcs

LEMMA RestingFits ==
  Resting \in Asking /\ RequestFits(Resting) /\ HoldsPassword(Resting)
BY DEF Resting, Asking, RequestFits, HoldsPassword

\* One request moves, and only the browser it came from may change.
LEMMA RequestMoves ==
  ASSUME AccountsInv, BrowserTypes', NEW b \in Browsers, NEW r, RequestFits(r),
         asking' = [asking EXCEPT ![b] = r],
         r.pc = "renewing" => browser'[b].session \in Sessions,
         \A x \in Browsers \ {b} : browser'[x] = browser[x]
  PROVE  RequestsFit'
BY DEF AccountsInv, RequestsFit, RequestFits

-----------------------------------------------------------------------------
(* Steps that leave the users alone.                                       *)

\* No session is opened.
SessionsShrink ==
  /\ SessionTypes'
  /\ \A s \in Sessions : session'[s] # None =>
       /\ session[s] # None
       /\ session'[s].user = session[s].user /\ session'[s].by = session[s].by
       /\ session'[s].overlapped = session[s].overlapped

LEMMA SessionsStay ==
  ASSUME AccountsInv, UNCHANGED session
  PROVE  SessionsShrink
BY DEF AccountsInv, SessionsShrink, SessionTypes

LEMMA CodesStay ==
  ASSUME AccountsInv, UNCHANGED <<verification, inbox, granted>>, UNCHANGED errors \/ Error
  PROVE  CodesFit'
BY ErrorsAssumption DEF AccountsInv, CodesFit, Error

\* The common case: one request moves, users stay, sessions may go.
LEMMA QuietStep ==
  ASSUME AccountsInv, CodesFit', BrowserTypes', SessionsShrink, UNCHANGED user,
         NEW b \in Browsers, NEW r, RequestFits(r), HoldsPassword(r),
         asking' = [asking EXCEPT ![b] = r],
         r.pc = "renewing" => browser'[b].session \in Sessions,
         \A x \in Browsers \ {b} : browser'[x] = browser[x],
         asking[b].pc \notin {"protecting", "undoing", "sweeping", "sweeping again"}
  PROVE  AccountsInv'
<1>1. RequestsFit'
  BY RequestMoves
<1>2. asking \in [Browsers -> Asking] /\ asking'[b] = r
      /\ \A x \in Browsers \ {b} : asking'[x] = asking[x]
  BY DEF AccountsInv, RequestsFit
<1>3. SigningFits'
  BY <1>2 DEF AccountsInv, SigningFits, HoldsPassword
<1>4. SessionsFitThePassword'
  <2> SUFFICES ASSUME NEW s \in Sessions, session'[s] # None, session'[s].by # Passkey,
                      ~session'[s].overlapped
               PROVE  \/ session'[s].by = user'[session'[s].user].password
                      \/ \E x \in Browsers : asking'[x].user = session'[s].user
                           /\ asking'[x].pc \in {"sweeping", "sweeping again"}
    BY DEF SessionsFitThePassword
  <2>1. \/ session[s].by = user[session[s].user].password
        \/ \E x \in Browsers : asking[x].user = session[s].user
             /\ asking[x].pc \in {"sweeping", "sweeping again"}
    BY DEF AccountsInv, SessionsFitThePassword, SessionsShrink
  <2> QED
    BY <1>2, <2>1 DEF SessionsShrink
<1>5. AccountsHavePasswords'
  <2> SUFFICES ASSUME NEW u \in Users, user[u].email # None, user[u].password = None,
                      ~user[u].half
               PROVE  \E x \in Browsers :
                        asking'[x].user = u /\ asking'[x].pc \in {"protecting", "undoing"}
    BY DEF AccountsHavePasswords
  <2>1. PICK x \in Browsers :
          asking[x].user = u /\ asking[x].pc \in {"protecting", "undoing"}
    BY DEF AccountsInv, AccountsHavePasswords
  <2>2. x # b
    BY <2>1
  <2> QED
    BY <1>2, <2>1, <2>2
<1> QED
  BY <1>1, <1>3, <1>4, <1>5 DEF AccountsInv, UsersFit, SessionsShrink, SessionsOwned

\* No request moves at all.
LEMMA StillStep ==
  ASSUME AccountsInv, CodesFit', SessionsShrink, UNCHANGED <<user, asking, browser>>
  PROVE  AccountsInv'
<1>1. SessionsFitThePassword'
  BY ZenonT(30) DEF AccountsInv, SessionsFitThePassword, SessionsShrink
<1> QED
  BY <1>1 DEF AccountsInv, UsersFit, BrowserTypes, RequestsFit, SigningFits, HoldsPassword,
     AccountsHavePasswords, SessionsShrink, RequestFits, SessionsOwned

-----------------------------------------------------------------------------
(* Codes.                                                                  *)

LEMMA CreateVerificationFits ==
  ASSUME AccountsInv, NEW b \in Browsers, NEW type \in {"SIGNUP", "PASSWORD_RESET"},
         NEW e \in Emails, Free(b), CreateVerification(b, type, e)
  PROVE  AccountsInv'
<1>1. PICK c \in FreshCodes :
        /\ verification' = [verification EXCEPT
             ![c] = [type |-> type, target |-> e, expired |-> FALSE]]
        /\ Begin(b, [Resting EXCEPT !.pc = "mailing", !.code = c])
  BY DEF CreateVerification
<1>2. UNCHANGED <<inbox, granted, user, session, browser, errors>>
  BY DEF CreateVerification
<1>3. c \in Codes /\ granted[c] = 0
  BY DEF FreshCodes
<1>4. CodesFit'
  BY <1>1, <1>2, <1>3 DEF AccountsInv, CodesFit, VerificationRow
<1> DEFINE r == [Resting EXCEPT !.pc = "mailing", !.code = c]
<1>5. RequestFits(r) /\ HoldsPassword(r) /\ r.pc = "mailing"
  BY <1>3 DEF Resting, RequestFits, HoldsPassword, Asking
<1>6. asking' = [asking EXCEPT ![b] = r]
  BY <1>1 DEF Begin
<1>7. SessionsShrink /\ BrowserTypes'
  BY <1>2, SessionsStay DEF AccountsInv, BrowserTypes
<1> HIDE DEF r
<1> QED
  BY <1>2, <1>4, <1>5, <1>6, <1>7, QuietStep DEF Free, At

LEMMA MailFits ==
  ASSUME AccountsInv, NEW b \in Browsers, SendCode(b) \/ SendFails(b) \/ DeleteUnsent(b)
  PROVE  AccountsInv'
<1>1. asking[b] \in Asking /\ RequestFits(asking[b])
  BY DEF AccountsInv, RequestsFit
<1>2. UNCHANGED <<user, session, browser>> /\ BrowserTypes'
  BY DEF AccountsInv, BrowserTypes, SendCode, SendFails, DeleteUnsent
<1>3. SessionsShrink
  BY <1>2, SessionsStay
<1>4. CASE SendCode(b)
  <2>1. CodesFit'
    BY <1>1, <1>4 DEF AccountsInv, CodesFit, SendCode, At, RequestFits
  <2> QED
    BY <1>2, <1>3, <1>4, <2>1, RestingFits, QuietStep DEF SendCode, At, Finish, Resting
<1>5. CASE SendFails(b)
  <2>1. CodesFit'
    BY <1>1, <1>5, ErrorsAssumption DEF AccountsInv, CodesFit, SendFails, At, RequestFits, Error
  <2>3. /\ Next(b, "unmailing") \in Asking /\ Next(b, "unmailing").pc = "unmailing"
        /\ Next(b, "unmailing").code = asking[b].code
        /\ asking' = [asking EXCEPT ![b] = Next(b, "unmailing")]
    <3>1. "unmailing" \in Pcs
      BY DEF Pcs
    <3>2. Proceed(b, "unmailing")
      BY <1>5 DEF SendFails
    <3> QED
      BY <3>1, <3>2, NextFits
  <2>4. asking[b].code \in Codes
    BY <1>1, <1>5 DEF SendFails, At, RequestFits
  <2>2. RequestFits(Next(b, "unmailing")) /\ HoldsPassword(Next(b, "unmailing"))
    BY <2>3, <2>4 DEF RequestFits, HoldsPassword
  <2> QED
    BY <1>2, <1>3, <1>5, <2>1, <2>2, <2>3, QuietStep DEF SendFails, At
<1>6. CASE DeleteUnsent(b)
  <2>1. CodesFit'
    BY <1>1, <1>6 DEF AccountsInv, CodesFit, DeleteUnsent, At, RequestFits
  <2> QED
    BY <1>2, <1>3, <1>6, <2>1, RestingFits, QuietStep DEF DeleteUnsent, At, Finish, Resting
<1> QED
  BY <1>4, <1>5, <1>6

LEMMA PresentFits ==
  ASSUME AccountsInv, NEW b \in Browsers, NEW c \in Codes, Present(b, c)
  PROVE  AccountsInv'
<1> DEFINE r == [Resting EXCEPT !.pc = "consuming", !.code = c,
                                !.email = verification[c].target, !.by = None]
<1>1. verification[c] \in VerificationRow
  BY DEF Present, FoundByLink, FoundByForm, Valid, AccountsInv, CodesFit
<1>2. RequestFits(r) /\ HoldsPassword(r) /\ r.pc = "consuming"
  BY <1>1 DEF Resting, RequestFits, HoldsPassword, Asking, VerificationRow
<1>3. asking' = [asking EXCEPT ![b] = r]
  BY DEF Present, Begin
<1>4. CodesFit' /\ SessionsShrink /\ BrowserTypes'
  BY CodesStay, SessionsStay DEF Present, AccountsInv, BrowserTypes
<1> HIDE DEF r
<1> QED
  BY <1>2, <1>3, <1>4, QuietStep DEF Present, Free, At

\* Whoever finds the row has it deleted, and it had granted nothing before.
LEMMA ConsumeFits ==
  ASSUME AccountsInv, NEW b \in Browsers, Consume(b) \/ ConsumedByAnother(b)
  PROVE  AccountsInv'
<1>1. asking[b].pc = "consuming" /\ asking[b].code \in Codes /\ asking[b].email \in Emails
  BY DEF Consume, ConsumedByAnother, At, AccountsInv, RequestsFit, RequestFits
<1>2. SessionsShrink /\ UNCHANGED user /\ asking' = [asking EXCEPT ![b] = Resting]
  BY SessionsStay DEF Consume, ConsumedByAnother, Finish
<1>3. CASE Consume(b)
  <2>1. CodesFit'
    BY <1>1, <1>3 DEF Consume, Accepts, AccountsInv, CodesFit
  <2>2. BrowserTypes' /\ \A x \in Browsers \ {b} : browser'[x] = browser[x]
    BY <1>1, <1>3 DEF Consume, AccountsInv, BrowserTypes, Cookies
  <2> QED
    BY <1>1, <1>2, <2>1, <2>2, RestingFits, QuietStep DEF Resting
<1>4. CASE ConsumedByAnother(b)
  <2>1. CodesFit' /\ BrowserTypes' /\ UNCHANGED browser
    BY <1>4, CodesStay DEF ConsumedByAnother, AccountsInv, BrowserTypes
  <2> QED
    BY <1>1, <1>2, <2>1, RestingFits, QuietStep DEF Resting
<1> QED
  BY <1>3, <1>4

-----------------------------------------------------------------------------
(* Steps of the users.                                                     *)

\* A browser that has no request under way changes its cookies only.
LEMMA CookieStep ==
  ASSUME AccountsInv, CodesFit', BrowserTypes', SessionsShrink, UNCHANGED <<user, asking>>,
         NEW b \in Browsers, Free(b), \A x \in Browsers \ {b} : browser'[x] = browser[x]
  PROVE  AccountsInv'
<1>1. RequestFits(asking[b]) /\ HoldsPassword(asking[b]) /\ asking[b].pc = "idle"
  BY DEF AccountsInv, RequestsFit, SigningFits, Free, At
<1>2. asking' = [asking EXCEPT ![b] = asking[b]]
  BY DEF AccountsInv, RequestsFit
<1> QED
  BY <1>1, <1>2, QuietStep

LEMMA CookiesFit ==
  ASSUME AccountsInv, NEW b \in Browsers, OpenSignup(b) \/ Cancel(b) \/ SignOut(b)
  PROVE  AccountsInv'
<1>1. UNCHANGED <<user, asking>> /\ Free(b)
  BY DEF OpenSignup, Cancel, SignOut
<1>2. CodesFit'
  BY CodesStay DEF OpenSignup, Cancel, SignOut
<1>3. BrowserTypes' /\ \A x \in Browsers \ {b} : browser'[x] = browser[x]
  BY DEF AccountsInv, BrowserTypes, Cookies, OpenSignup, Cancel, SignOut
<1>4. SessionsShrink
  BY SessionsStay DEF OpenSignup, Cancel, SignOut, SessionsShrink, AccountsInv, SessionTypes
<1> QED
  BY <1>1, <1>2, <1>3, <1>4, CookieStep

\* A user id that is minted is nobody's.
LEMMA CreateUserFits ==
  ASSUME AccountsInv, NEW b \in Browsers, NEW p \in Passwords, CreateUser(b, p)
  PROVE  AccountsInv'
<1> DEFINE e == browser[b].signup
<1>1. Free(b) /\ e \in Emails /\ CodesFit' /\ UNCHANGED session
  BY CodesStay DEF CreateUser, AccountsInv, BrowserTypes, Cookies
<1>2. SessionsShrink
  BY <1>1, SessionsStay
<1>3. CASE UserOf(e) # {}
  <2>1. BrowserTypes' /\ UNCHANGED <<user, asking>>
        /\ \A x \in Browsers \ {b} : browser'[x] = browser[x]
    BY <1>3 DEF CreateUser, AccountsInv, BrowserTypes, Cookies
  <2> QED
    BY <1>1, <1>2, <2>1, CookieStep
<1>4. CASE UserOf(e) = {}
  <2>1. PICK u \in FreshUsers :
          /\ user' = [user EXCEPT ![u] = [NoUser EXCEPT !.email = e]]
          /\ Begin(b, [Resting EXCEPT !.pc = "protecting", !.email = e, !.user = u, !.by = p])
          /\ UNCHANGED browser
    BY <1>4 DEF CreateUser
  <2> DEFINE r == [Resting EXCEPT !.pc = "protecting", !.email = e, !.user = u, !.by = p]
  <2>2. u \in Users /\ (\A x \in Browsers : asking[x].user # u)
        /\ \A s \in Sessions : session[s] # None => session[s].user # u
    BY DEF FreshUsers, UserIdsInUse
  <2>3. RequestFits(r) /\ r.pc = "protecting" /\ r.user = u
    BY <1>1, <2>2 DEF Resting, RequestFits, Asking
  <2>4. asking' = [asking EXCEPT ![b] = r]
    BY <2>1 DEF Begin
  <2> HIDE DEF r
  <2>5. asking \in [Browsers -> Asking] /\ asking'[b] = r
        /\ (\A x \in Browsers \ {b} : asking'[x] = asking[x]) /\ asking[b].pc = "idle"
    BY <1>1, <2>4 DEF AccountsInv, RequestsFit, Free, At
  <2>6. UsersFit' /\ \A v \in Users \ {u} : user'[v] = user[v]
    BY <1>1, <2>1, <2>2, AbsentAssumption DEF AccountsInv, UsersFit, UserRow, NoUser
  <2>7. BrowserTypes' /\ SessionTypes'
    BY <1>1, <2>1 DEF AccountsInv, BrowserTypes, SessionTypes
  <2>8. RequestsFit'
    BY <2>1, <2>3, <2>4, <2>7, RequestMoves
  <2>9. SigningFits'
    <3> SUFFICES ASSUME NEW x \in Browsers, x # b PROVE HoldsPassword(asking[x])'
      BY <2>3, <2>5 DEF SigningFits, HoldsPassword
    <3>1. RequestFits(asking[x]) /\ HoldsPassword(asking[x]) /\ asking[x].user # u
      BY <2>2 DEF AccountsInv, RequestsFit, SigningFits
    <3> QED
      BY <2>5, <2>6, <3>1 DEF HoldsPassword, RequestFits
  <2>10. SessionsFitThePassword'
    <3> SUFFICES ASSUME NEW s \in Sessions, session[s] # None, session[s].by # Passkey,
                        ~session[s].overlapped
                 PROVE  \/ session[s].by = user'[session[s].user].password
                        \/ \E x \in Browsers : asking'[x].user = session[s].user
                             /\ asking'[x].pc \in {"sweeping", "sweeping again"}
      BY <1>1 DEF SessionsFitThePassword
    <3>1. session[s].user \in Users \ {u}
      BY <2>2 DEF AccountsInv, SessionTypes, SessionRow
    <3>2. \/ session[s].by = user[session[s].user].password
          \/ \E x \in Browsers : asking[x].user = session[s].user
                /\ asking[x].pc \in {"sweeping", "sweeping again"}
      BY DEF AccountsInv, SessionsFitThePassword
    <3> QED
      BY <2>5, <2>6, <3>1, <3>2
  <2>11. AccountsHavePasswords'
    <3> SUFFICES ASSUME NEW v \in Users, user'[v].email # None, user'[v].password = None,
                        ~user'[v].half
                 PROVE  \E x \in Browsers :
                          asking'[x].user = v /\ asking'[x].pc \in {"protecting", "undoing"}
      BY DEF AccountsHavePasswords
    <3>1. CASE v = u
      BY <2>3, <2>5, <3>1
    <3>2. CASE v # u
      <4>1. PICK x \in Browsers :
              asking[x].user = v /\ asking[x].pc \in {"protecting", "undoing"}
        BY <2>6, <3>2 DEF AccountsInv, AccountsHavePasswords
      <4>2. x # b
        BY <2>5, <4>1
      <4> QED
        BY <2>5, <4>1, <4>2
    <3> QED
      BY <3>1, <3>2
  <2>12. SessionsOwned'
    BY <1>1, <2>2, <2>6 DEF AccountsInv, SessionsOwned, SessionTypes, SessionRow
  <2> QED
    BY <1>1, <2>6, <2>7, <2>8, <2>9, <2>10, <2>11, <2>12 DEF AccountsInv
<1> QED
  BY <1>3, <1>4

\* Nobody else can hold a password of an account that has none.
LEMMA CreatePasswordFits ==
  ASSUME AccountsInv, NEW b \in Browsers, CreatePassword(b)
  PROVE  AccountsInv'
<1> DEFINE u == asking[b].user
           r == Next(b, "signing")
<1>1. /\ u \in Users /\ asking[b].by \in Passwords /\ asking[b].pc = "protecting"
      /\ user[u].email # None /\ user[u].password = None
      /\ UNCHANGED <<verification, inbox, granted, session, browser, errors>>
  BY DEF CreatePassword, At, AccountsInv, RequestsFit, RequestFits
<1>2. r.pc = "signing" /\ r.user = u /\ r.by = asking[b].by /\ RequestFits(r)
      /\ asking' = [asking EXCEPT ![b] = r]
  BY ZenonT(30), <1>1, NextFits DEF CreatePassword, RequestFits, Pcs
<1>3. user' = [user EXCEPT ![u].password = asking[b].by]
  BY DEF CreatePassword
<1>4. UsersFit' /\ user'[u].password = asking[b].by
      /\ (\A v \in Users \ {u} : user'[v] = user[v]) /\ user'[u].email = user[u].email
  BY <1>1, <1>3 DEF AccountsInv, UsersFit, UserRow
<1> HIDE DEF r
<1>5. asking \in [Browsers -> Asking] /\ asking'[b] = r
      /\ \A x \in Browsers \ {b} : asking'[x] = asking[x]
  BY <1>2 DEF AccountsInv, RequestsFit
<1>6. CodesFit' /\ BrowserTypes' /\ SessionTypes'
  BY <1>1, CodesStay DEF AccountsInv, BrowserTypes, SessionTypes
<1>7. RequestsFit'
  BY <1>1, <1>2, <1>6, RequestMoves
<1>8. SigningFits'
  <2> SUFFICES ASSUME NEW x \in Browsers PROVE HoldsPassword(asking[x])'
    BY DEF SigningFits
  <2>1. CASE x = b
    BY <1>2, <1>4, <1>5, <2>1 DEF HoldsPassword
  <2>2. CASE x # b
    <3>1. RequestFits(asking[x]) /\ HoldsPassword(asking[x])
      BY DEF AccountsInv, RequestsFit, SigningFits
    <3> QED
      BY ZenonT(30), <1>1, <1>4, <1>5, <2>2, <3>1, AbsentAssumption DEF HoldsPassword, RequestFits
  <2> QED
    BY <2>1, <2>2
<1>9. SessionsFitThePassword'
  <2> SUFFICES ASSUME NEW s \in Sessions, session[s] # None, session[s].by # Passkey,
                      ~session[s].overlapped
               PROVE  \/ session[s].by = user'[session[s].user].password
                      \/ \E x \in Browsers : asking'[x].user = session[s].user
                           /\ asking'[x].pc \in {"sweeping", "sweeping again"}
    BY <1>1 DEF SessionsFitThePassword
  <2>1. session[s].user \in Users /\ session[s].by \in Passwords
    BY DEF AccountsInv, SessionTypes, SessionRow
  <2>2. CASE \E x \in Browsers : asking[x].user = session[s].user
                /\ asking[x].pc \in {"sweeping", "sweeping again"}
    BY <1>1, <1>5, <2>2
  <2>3. CASE session[s].by = user[session[s].user].password
    BY <1>1, <1>4, <2>1, <2>3, AbsentAssumption
  <2> QED
    BY <2>2, <2>3 DEF AccountsInv, SessionsFitThePassword
<1>10. AccountsHavePasswords'
  <2> SUFFICES ASSUME NEW v \in Users, user'[v].email # None, user'[v].password = None,
                      ~user'[v].half
               PROVE  \E x \in Browsers :
                        asking'[x].user = v /\ asking'[x].pc \in {"protecting", "undoing"}
    BY DEF AccountsHavePasswords
  <2>1. v # u
    BY <1>1, <1>4, AbsentAssumption
  <2>2. PICK x \in Browsers :
          asking[x].user = v /\ asking[x].pc \in {"protecting", "undoing"}
    BY <1>4, <2>1 DEF AccountsInv, AccountsHavePasswords
  <2> QED
    BY <1>5, <2>1, <2>2
<1>11. SessionsOwned'
  BY <1>1, <1>4 DEF AccountsInv, SessionsOwned, SessionTypes, SessionRow
<1> QED
  BY <1>4, <1>6, <1>7, <1>8, <1>9, <1>10, <1>11 DEF AccountsInv

LEMMA CreatePasswordFailsFits ==
  ASSUME AccountsInv, NEW b \in Browsers, CreatePasswordFails(b)
  PROVE  AccountsInv'
<1> DEFINE r == Next(b, "undoing")
<1>1. asking[b].user \in Users /\ asking[b].pc = "protecting"
      /\ UNCHANGED <<user, session, browser>>
  BY DEF CreatePasswordFails, At, AccountsInv, RequestsFit, RequestFits
<1>2. r.pc = "undoing" /\ r.user = asking[b].user /\ RequestFits(r)
      /\ asking' = [asking EXCEPT ![b] = r]
  <2>1. "undoing" \in Pcs
    BY DEF Pcs
  <2>2. r \in Asking /\ r.pc = "undoing" /\ r.user = asking[b].user
    BY <2>1, NextFits
  <2>3. asking' = [asking EXCEPT ![b] = r]
    BY DEF CreatePasswordFails, Proceed, Next
  <2> HIDE DEF r
  <2>4. RequestFits(r)
    BY <1>1, <2>2 DEF RequestFits
  <2> QED
    BY <2>2, <2>3, <2>4
<1> HIDE DEF r
<1>3. asking \in [Browsers -> Asking] /\ asking'[b] = r
      /\ \A x \in Browsers \ {b} : asking'[x] = asking[x]
  BY <1>2 DEF AccountsInv, RequestsFit
<1>4. CodesFit' /\ BrowserTypes' /\ SessionTypes' /\ UsersFit'
  BY <1>1, CodesStay DEF CreatePasswordFails, AccountsInv, BrowserTypes, SessionTypes, UsersFit
<1>5. RequestsFit'
  BY <1>1, <1>2, <1>4, RequestMoves
<1>6. SigningFits'
  BY <1>1, <1>2, <1>3 DEF AccountsInv, SigningFits, HoldsPassword
<1>7. SessionsFitThePassword'
  <2> SUFFICES ASSUME NEW s \in Sessions, session[s] # None, session[s].by # Passkey,
                      ~session[s].overlapped
               PROVE  \/ session[s].by = user[session[s].user].password
                      \/ \E x \in Browsers : asking'[x].user = session[s].user
                           /\ asking'[x].pc \in {"sweeping", "sweeping again"}
    BY <1>1 DEF SessionsFitThePassword
  <2> QED
    BY <1>1, <1>3 DEF AccountsInv, SessionsFitThePassword
<1>8. AccountsHavePasswords'
  <2> SUFFICES ASSUME NEW v \in Users, user[v].email # None, user[v].password = None,
                      ~user[v].half
               PROVE  \E x \in Browsers :
                        asking'[x].user = v /\ asking'[x].pc \in {"protecting", "undoing"}
    BY <1>1 DEF AccountsHavePasswords
  <2> QED
    BY <1>2, <1>3 DEF AccountsInv, AccountsHavePasswords
<1> QED
  BY <1>1, <1>4, <1>5, <1>6, <1>7, <1>8 DEF AccountsInv, SessionsOwned

\* A user goes, with the sessions; requests for the user find nobody.
LEMMA UserGoes ==
  ASSUME AccountsInv, CodesFit', BrowserTypes', NEW b \in Browsers, NEW u \in Users,
         NEW r, RequestFits(r), r.pc = "idle",
         user' = [user EXCEPT ![u] = NoUser], session' = SessionsWithout({u}),
         asking[b].pc \in {"idle", "undoing"},
         asking[b].pc = "undoing" => asking[b].user = u,
         asking' = [asking EXCEPT ![b] = r],
         \A x \in Browsers \ {b} : browser'[x] = browser[x]
  PROVE  AccountsInv'
<1>1. UsersFit' /\ user'[u] = NoUser /\ user'[u].email = None /\ \A v \in Users \ {u} : user'[v] = user[v]
  BY DEF AccountsInv, UsersFit, UserRow, NoUser
<1>2. asking \in [Browsers -> Asking] /\ asking'[b] = r
      /\ \A x \in Browsers \ {b} : asking'[x] = asking[x]
  BY DEF AccountsInv, RequestsFit
<1>3. SessionTypes' /\ \A s \in Sessions : session'[s] # None =>
        session'[s] = session[s] /\ session[s] # None /\ session[s].user # u
  BY DEF AccountsInv, SessionTypes, SessionsWithout
<1>4. RequestsFit'
  BY RequestMoves
<1>5. SigningFits'
  <2> SUFFICES ASSUME NEW x \in Browsers PROVE HoldsPassword(asking[x])'
    BY DEF SigningFits
  <2>1. CASE x = b
    BY <1>2, <2>1 DEF HoldsPassword
  <2>2. CASE x # b
    <3>1. RequestFits(asking[x]) /\ HoldsPassword(asking[x])
      BY DEF AccountsInv, RequestsFit, SigningFits
    <3>2. asking'[x] = asking[x]
      BY <1>2, <2>2
    <3>3. CASE asking[x].user = u
      BY <1>1, <3>2, <3>3 DEF HoldsPassword
    <3>4. CASE asking[x].user \in Users \ {u}
      <4>1. user'[asking[x].user] = user[asking[x].user]
        BY <1>1, <3>4
      <4> QED
        BY <3>1, <3>2, <4>1 DEF HoldsPassword
    <3>5. CASE asking[x].user \notin Users
      BY <3>1, <3>2, <3>5 DEF HoldsPassword, RequestFits
    <3> QED
      BY <3>3, <3>4, <3>5
  <2> QED
    BY <2>1, <2>2
<1>6. SessionsFitThePassword'
  <2> SUFFICES ASSUME NEW s \in Sessions, session'[s] # None, session'[s].by # Passkey,
                      ~session'[s].overlapped
               PROVE  \/ session'[s].by = user'[session'[s].user].password
                      \/ \E x \in Browsers : asking'[x].user = session'[s].user
                           /\ asking'[x].pc \in {"sweeping", "sweeping again"}
    BY DEF SessionsFitThePassword
  <2>1. session[s].user \in Users \ {u} /\ session'[s] = session[s]
    BY <1>3 DEF AccountsInv, SessionTypes, SessionRow
  <2>2. \/ session[s].by = user[session[s].user].password
        \/ \E x \in Browsers : asking[x].user = session[s].user
              /\ asking[x].pc \in {"sweeping", "sweeping again"}
    BY <2>1, <1>3 DEF AccountsInv, SessionsFitThePassword
  <2> QED
    BY <1>1, <1>2, <2>1, <2>2
<1>7. AccountsHavePasswords'
  <2> SUFFICES ASSUME NEW v \in Users, user'[v].email # None, user'[v].password = None,
                      ~user'[v].half
               PROVE  \E x \in Browsers :
                        asking'[x].user = v /\ asking'[x].pc \in {"protecting", "undoing"}
    BY DEF AccountsHavePasswords
  <2>1. v # u
    BY <1>1 DEF NoUser
  <2>2. PICK x \in Browsers :
          asking[x].user = v /\ asking[x].pc \in {"protecting", "undoing"}
    BY <1>1, <2>1 DEF AccountsInv, AccountsHavePasswords
  <2> QED
    BY <1>2, <2>1, <2>2
<1>8. SessionsOwned'
  <2> SUFFICES ASSUME NEW s \in Sessions, session'[s] # None
               PROVE  user'[session'[s].user].email # None
    BY DEF SessionsOwned
  <2>1. session[s].user \in Users \ {u} /\ session'[s] = session[s]
    BY <1>3 DEF AccountsInv, SessionTypes, SessionRow
  <2> QED
    BY <1>1, <1>3, <2>1 DEF AccountsInv, SessionsOwned
<1> QED
  BY <1>1, <1>3, <1>4, <1>5, <1>6, <1>7, <1>8 DEF AccountsInv

LEMMA UndoUserFits ==
  ASSUME AccountsInv, NEW b \in Browsers, UndoUser(b)
  PROVE  AccountsInv'
<1>1. asking[b].user \in Users /\ asking[b].pc = "undoing"
  BY DEF UndoUser, At, AccountsInv, RequestsFit, RequestFits
<1>2. CodesFit' /\ BrowserTypes' /\ UNCHANGED browser
  BY CodesStay DEF UndoUser, AccountsInv, BrowserTypes
<1> QED
  BY <1>1, <1>2, RestingFits, UserGoes DEF UndoUser, Finish, Resting

LEMMA DeleteAccountFits ==
  ASSUME AccountsInv, ShownTypes, NEW b \in Browsers, DeleteAccount(b)
  PROVE  AccountsInv'
<1>1. SessionUser(b) \in Users /\ asking[b].pc = "idle"
  BY SessionUserFits DEF DeleteAccount, Free, At
<1>2. CodesFit' /\ BrowserTypes' /\ \A x \in Browsers \ {b} : browser'[x] = browser[x]
  BY CodesStay DEF DeleteAccount, AccountsInv, BrowserTypes, Cookies
<1>3. RequestFits(asking[b]) /\ asking' = [asking EXCEPT ![b] = asking[b]]
  BY DEF DeleteAccount, AccountsInv, RequestsFit
<1> QED
  BY <1>1, <1>2, <1>3, UserGoes DEF DeleteAccount

-----------------------------------------------------------------------------
(* Signing in.                                                             *)

LEMMA LoginFits ==
  ASSUME AccountsInv, NEW b \in Browsers, NEW e \in Emails, NEW p \in Passwords, Login(b, e, p)
  PROVE  AccountsInv'
<1>1. PICK u \in UserOf(e) :
        Begin(b, [Resting EXCEPT !.pc = "signing", !.email = e, !.user = u, !.by = p,
                                 !.overlapped = user[u].password # p])
  BY DEF Login
<1> DEFINE r == [Resting EXCEPT !.pc = "signing", !.email = e, !.user = u, !.by = p,
                                !.overlapped = user[u].password # p]
<1>2. RequestFits(r) /\ HoldsPassword(r) /\ r.pc = "signing"
  BY <1>1 DEF UserOf, Resting, RequestFits, HoldsPassword, Asking
<1>3. CodesFit' /\ SessionsShrink /\ BrowserTypes'
  BY CodesStay, SessionsStay DEF Login, AccountsInv, BrowserTypes
<1>4. asking' = [asking EXCEPT ![b] = r]
  BY <1>1 DEF Begin
<1> HIDE DEF r
<1> QED
  BY <1>2, <1>3, <1>4, QuietStep DEF Login, Free, At

LEMMA PasskeyLoginFits ==
  ASSUME AccountsInv, NEW b \in Browsers, NEW u \in Users, PasskeyLogin(b, u)
  PROVE  AccountsInv'
<1> DEFINE r == [Resting EXCEPT !.pc = "counting", !.email = user[u].email,
                                !.user = u, !.by = Passkey]
<1>1. RequestFits(r) /\ HoldsPassword(r) /\ r.pc = "counting"
  BY DEF AccountsInv, UsersFit, UserRow, Resting, RequestFits, HoldsPassword, Asking
<1>2. CodesFit' /\ SessionsShrink /\ BrowserTypes'
  BY CodesStay, SessionsStay DEF PasskeyLogin, AccountsInv, BrowserTypes
<1>3. asking' = [asking EXCEPT ![b] = r]
  BY DEF PasskeyLogin, Begin
<1> HIDE DEF r
<1> QED
  BY <1>1, <1>2, <1>3, QuietStep DEF PasskeyLogin, Free, At

LEMMA StoreCounterFits ==
  ASSUME AccountsInv, NEW b \in Browsers, StoreCounter(b)
  PROVE  AccountsInv'
<1>1. RequestFits(asking[b]) /\ asking[b].pc = "counting"
  BY DEF StoreCounter, At, AccountsInv, RequestsFit
<1>2. CodesFit' /\ SessionsShrink /\ BrowserTypes' /\ UNCHANGED <<user, browser>>
  BY CodesStay, SessionsStay DEF StoreCounter, AccountsInv, BrowserTypes
<1>3. CASE Proceed(b, "signing")
  <2>1. Next(b, "signing").pc = "signing" /\ RequestFits(Next(b, "signing"))
        /\ HoldsPassword(Next(b, "signing"))
        /\ asking' = [asking EXCEPT ![b] = Next(b, "signing")]
    BY ZenonT(30), <1>1, <1>3, NextFits DEF RequestFits, HoldsPassword, Pcs
  <2> QED
    BY <1>1, <1>2, <2>1, QuietStep
<1>4. CASE Finish(b)
  BY <1>1, <1>2, <1>4, RestingFits, QuietStep DEF Finish, Resting
<1> QED
  BY <1>3, <1>4 DEF StoreCounter

\* A session is opened with the password of the moment, with a passkey, or by a
\* request that was overlapped.
LEMMA SignInFits ==
  ASSUME AccountsInv, NEW b \in Browsers, SignIn(b)
  PROVE  AccountsInv'
<1> DEFINE r == asking[b]
<1>1. RequestFits(r) /\ HoldsPassword(r) /\ r.pc = "signing" /\ r.user \in Users
      /\ r.by \in Passwords \cup {Passkey} /\ r.overlapped \in BOOLEAN
  BY DEF SignIn, At, AccountsInv, RequestsFit, RequestFits, SigningFits, Asking
<1>2. asking' = [asking EXCEPT ![b] = Resting] /\ UNCHANGED user /\ CodesFit'
  BY CodesStay DEF SignIn, Finish
<1>3. CASE user[r.user].email = None
  <2>1. UNCHANGED <<session, browser>>
    BY <1>3 DEF SignIn
  <2>2. SessionsShrink /\ BrowserTypes'
    BY <2>1, SessionsStay DEF AccountsInv, BrowserTypes
  <2> QED
    BY <1>1, <1>2, <2>1, <2>2, RestingFits, QuietStep DEF Resting
<1>4. CASE user[r.user].email # None
  <2>1. PICK s \in FreshSessions :
          /\ session' = [session EXCEPT
               ![s] = [user |-> r.user, by |-> r.by, age |-> "fresh",
                       overlapped |-> r.overlapped]]
          /\ browser' = [browser EXCEPT
               ![b] = [signup |-> None, reset |-> None, session |-> s]]
    BY <1>4 DEF SignIn
  <2>2. s \in Sessions /\ session[s] = None
    BY DEF FreshSessions
  <2>3. BrowserTypes' /\ \A x \in Browsers \ {b} : browser'[x] = browser[x]
    BY <2>1, <2>2 DEF AccountsInv, BrowserTypes, Cookies
  <2>4. SessionTypes'
    BY <1>1, <2>1, <2>2 DEF AccountsInv, SessionTypes, SessionRow
  <2>5. RequestsFit'
    BY <1>2, <2>3, RestingFits, RequestMoves DEF Resting
  <2>6. asking \in [Browsers -> Asking] /\ asking'[b] = Resting
        /\ \A x \in Browsers \ {b} : asking'[x] = asking[x]
    BY <1>2 DEF AccountsInv, RequestsFit
  <2>7. SigningFits'
    BY <1>2, <2>6 DEF AccountsInv, SigningFits, HoldsPassword, Resting
  <2>8. SessionsFitThePassword'
    <3> SUFFICES ASSUME NEW t \in Sessions, session'[t] # None, session'[t].by # Passkey,
                        ~session'[t].overlapped
                 PROVE  \/ session'[t].by = user[session'[t].user].password
                        \/ \E x \in Browsers : asking'[x].user = session'[t].user
                             /\ asking'[x].pc \in {"sweeping", "sweeping again"}
      BY <1>2 DEF SessionsFitThePassword
    <3>1. CASE t = s
      <4>1. session'[t] = [user |-> r.user, by |-> r.by, age |-> "fresh",
                           overlapped |-> r.overlapped]
        BY <2>1, <2>2, <3>1 DEF AccountsInv, SessionTypes
      <4>2. /\ session'[t].user = r.user /\ session'[t].by = r.by
            /\ session'[t].overlapped = r.overlapped
        BY <4>1
      <4> QED
        BY <1>1, <1>4, <4>2 DEF HoldsPassword
    <3>2. CASE t # s
      <4>1. session'[t] = session[t]
        BY <2>1, <3>2 DEF AccountsInv, SessionTypes
      <4> QED
        BY <1>1, <2>6, <4>1 DEF AccountsInv, SessionsFitThePassword
    <3> QED
      BY <3>1, <3>2
  <2>9. AccountsHavePasswords'
    <3> SUFFICES ASSUME NEW v \in Users, user[v].email # None, user[v].password = None,
                        ~user[v].half
                 PROVE  \E x \in Browsers :
                          asking'[x].user = v /\ asking'[x].pc \in {"protecting", "undoing"}
      BY <1>2 DEF AccountsHavePasswords
    <3> QED
      BY <1>1, <2>6 DEF AccountsInv, AccountsHavePasswords
  <2>10. SessionsOwned'
    BY <1>2, <1>4, <2>1, <2>2 DEF AccountsInv, SessionsOwned, SessionTypes
  <2> QED
    BY <1>2, <2>3, <2>4, <2>5, <2>7, <2>8, <2>9, <2>10 DEF AccountsInv, UsersFit
<1> QED
  BY <1>3, <1>4

LEMMA SignInFailsFits ==
  ASSUME AccountsInv, NEW b \in Browsers, SignInFails(b)
  PROVE  AccountsInv'
<1>1. CodesFit' /\ SessionsShrink
  BY CodesStay, SessionsStay DEF SignInFails
<1>2. BrowserTypes' /\ \A x \in Browsers \ {b} : browser'[x] = browser[x]
  BY DEF SignInFails, AccountsInv, BrowserTypes, Cookies
<1> QED
  BY <1>1, <1>2, RestingFits, QuietStep DEF SignInFails, At, Finish, Resting

\* Passkeys have nothing to do with the password.
LEMMA PasskeysFit ==
  ASSUME AccountsInv, ShownTypes, NEW b \in Browsers, RegisterPasskey(b) \/ DeletePasskey(b)
  PROVE  AccountsInv'
<1> DEFINE u == SessionUser(b)
<1>1. u \in Users /\ user[u].email # None
  <2>1. u \in Users
    BY SessionUserFits DEF RegisterPasskey, DeletePasskey
  <2> HIDE DEF u
  <2>2. user[u].email = None => user[u] = NoUser /\ ~NoUser.passkey
    BY <2>1 DEF AccountsInv, UsersFit, NoUser
  <2>3. user[u].email # None \/ user[u].passkey
    BY DEF RegisterPasskey, DeletePasskey, u
  <2> QED
    BY <2>1, <2>2, <2>3
<1>2. PICK k \in BOOLEAN : user' = [user EXCEPT ![u].passkey = k]
  BY DEF RegisterPasskey, DeletePasskey
<1>3. UNCHANGED <<verification, inbox, granted, session, browser, asking, errors>>
  BY DEF RegisterPasskey, DeletePasskey
<1>4. UsersFit' /\ \A v \in Users :
        /\ user'[v].email = user[v].email
        /\ user'[v].password = user[v].password
        /\ user'[v].half = user[v].half
  BY <1>1, <1>2 DEF AccountsInv, UsersFit, UserRow
<1> HIDE DEF u
<1>5. CodesFit' /\ SessionTypes' /\ BrowserTypes' /\ RequestsFit'
  BY <1>3, CodesStay DEF AccountsInv, SessionTypes, BrowserTypes, RequestsFit, RequestFits
<1>6. SigningFits'
  <2> SUFFICES ASSUME NEW x \in Browsers PROVE HoldsPassword(asking[x])'
    BY DEF SigningFits
  <2>1. RequestFits(asking[x]) /\ HoldsPassword(asking[x])
    BY DEF AccountsInv, RequestsFit, SigningFits
  <2> QED
    BY <1>3, <1>4, <2>1 DEF HoldsPassword, RequestFits
<1>7. SessionsFitThePassword' /\ SessionsOwned'
  BY <1>3, <1>4 DEF AccountsInv, SessionsFitThePassword, SessionsOwned, SessionTypes, SessionRow
<1>8. AccountsHavePasswords'
  BY <1>3, <1>4 DEF AccountsInv, AccountsHavePasswords
<1> QED
  BY <1>4, <1>5, <1>6, <1>7, <1>8 DEF AccountsInv

-----------------------------------------------------------------------------
(* Passwords.                                                              *)

LEMMA ResetPasswordFits ==
  ASSUME AccountsInv, NEW b \in Browsers, NEW p \in Passwords, ResetPassword(b, p)
  PROVE  AccountsInv'
<1> DEFINE e == browser[b].reset
<1>1. Free(b) /\ e \in Emails /\ CodesFit' /\ UNCHANGED <<user, session>>
  BY CodesStay DEF ResetPassword, AccountsInv, BrowserTypes, Cookies
<1>2. SessionsShrink
  BY <1>1, SessionsStay
<1>3. CASE UserOf(e) = {}
  <2>1. BrowserTypes' /\ UNCHANGED asking
        /\ \A x \in Browsers \ {b} : browser'[x] = browser[x]
    BY <1>3 DEF ResetPassword, AccountsInv, BrowserTypes, Cookies
  <2> QED
    BY <1>1, <1>2, <2>1, CookieStep
<1>4. CASE UserOf(e) # {}
  <2>1. PICK u \in UserOf(e) :
          Begin(b, [Resting EXCEPT !.pc = "storing", !.email = e, !.user = u, !.by = p])
    BY <1>4 DEF ResetPassword
  <2> DEFINE r == [Resting EXCEPT !.pc = "storing", !.email = e, !.user = u, !.by = p]
  <2>2. RequestFits(r) /\ HoldsPassword(r) /\ r.pc = "storing"
    BY <1>1 DEF UserOf, Resting, RequestFits, HoldsPassword, Asking
  <2>3. asking' = [asking EXCEPT ![b] = r] /\ UNCHANGED browser /\ BrowserTypes'
    BY <1>4, <2>1 DEF ResetPassword, Begin, AccountsInv, BrowserTypes
  <2> HIDE DEF r
  <2> QED
    BY <1>1, <1>2, <2>2, <2>3, QuietStep DEF Free, At
<1> QED
  BY <1>3, <1>4

LEMMA ChangePasswordFits ==
  ASSUME AccountsInv, ShownTypes, NEW b \in Browsers, NEW current \in Passwords,
         NEW p \in Passwords, ChangePassword(b, current, p)
  PROVE  AccountsInv'
<1> DEFINE u == SessionUser(b)
           r == [Resting EXCEPT !.pc = "storing", !.email = user[u].email,
                                !.user = u, !.by = p]
<1>1. u \in Users
  BY SessionUserFits DEF ChangePassword
<1>2. user[u].email \in Emails \cup {None}
  BY <1>1 DEF AccountsInv, UsersFit, UserRow
<1>3. asking' = [asking EXCEPT ![b] = r]
  BY DEF ChangePassword, Begin
<1> HIDE DEF u
<1>4. RequestFits(r) /\ HoldsPassword(r) /\ r.pc = "storing"
  BY <1>1, <1>2 DEF Resting, RequestFits, HoldsPassword, Asking
<1>5. CodesFit' /\ SessionsShrink /\ BrowserTypes'
  BY CodesStay, SessionsStay DEF ChangePassword, AccountsInv, BrowserTypes
<1> HIDE DEF r
<1> QED
  BY <1>3, <1>4, <1>5, QuietStep DEF ChangePassword, Free, At

\* The new password is stored: whoever holds the old one is overlapped, and the
\* sessions opened with it are about to be deleted.
LEMMA StorePasswordFits ==
  ASSUME AccountsInv, NEW b \in Browsers, StorePassword(b)
  PROVE  AccountsInv'
<1> DEFINE u == asking[b].user
           r == Next(b, "sweeping")
<1>1. /\ RequestFits(asking[b]) /\ asking[b].pc = "storing"
      /\ u \in Users /\ asking[b].by \in Passwords
      /\ UNCHANGED <<verification, inbox, granted, session, browser, errors>>
  BY DEF StorePassword, At, AccountsInv, RequestsFit, RequestFits
<1>2. CodesFit' /\ BrowserTypes' /\ SessionTypes' /\ SessionsShrink
  BY <1>1, CodesStay, SessionsStay DEF AccountsInv, BrowserTypes, SessionTypes
<1>3. CASE ~Owned(u)
  <2>1. UNCHANGED user /\ asking' = [asking EXCEPT ![b] = Resting]
    BY <1>3 DEF StorePassword, Finish
  <2> QED
    BY <1>1, <1>2, <2>1, RestingFits, QuietStep DEF Resting
<1>4. CASE Owned(u)
  <2>1. /\ user' = [user EXCEPT ![u].password = asking[b].by, ![u].half = FALSE]
        /\ asking' = [x \in Browsers |->
             IF x = b THEN [asking[x] EXCEPT !.pc = "sweeping"]
             ELSE IF x \in Underway(u) /\ asking[x].by # Passkey
                  THEN [asking[x] EXCEPT !.overlapped = TRUE]
                  ELSE asking[x]]
    BY <1>4 DEF StorePassword, AfterStoring
  <2>2. /\ r \in Asking /\ r.pc = "sweeping" /\ r.code = asking[b].code
        /\ r.email = asking[b].email /\ r.user = u /\ r.by = asking[b].by
    BY NextFits DEF Pcs
  <2>3. asking'[b] = r
    BY <2>1 DEF Next
  <2> HIDE DEF r
  <2>4. \A x \in Browsers \ {b} :
          /\ asking[x] \in Asking /\ RequestFits(asking[x]) /\ HoldsPassword(asking[x])
          /\ asking'[x] \in Asking
          /\ asking'[x].pc = asking[x].pc /\ asking'[x].code = asking[x].code
          /\ asking'[x].email = asking[x].email /\ asking'[x].user = asking[x].user
          /\ asking'[x].by = asking[x].by
          /\ asking'[x].overlapped \/ asking'[x] = asking[x]
          /\ x \in Underway(u) /\ asking[x].by # Passkey => asking'[x].overlapped
    BY ZenonT(30), <2>1 DEF AccountsInv, RequestsFit, SigningFits, Asking
  <2>5. /\ UsersFit' /\ user'[u].password = asking[b].by /\ user'[u].email = user[u].email
        /\ \A v \in Users \ {u} : user'[v] = user[v]
    BY ZenonT(30), <1>1, <1>4, <2>1 DEF AccountsInv, UsersFit, UserRow, Owned
  <2>6. RequestFits(r)
    BY <1>1, <2>2 DEF RequestFits
  <2>7. RequestsFit'
    <3>1. asking' \in [Browsers -> Asking]
      BY <2>1, <2>2, <2>3, <2>4
    <3>2. ASSUME NEW x \in Browsers
          PROVE  RequestFits(asking'[x])
      <4>1. CASE x = b
        BY <2>3, <2>6, <4>1
      <4>2. CASE x # b
        <5>1. /\ RequestFits(asking[x]) /\ asking'[x] \in Asking
              /\ asking'[x].pc = asking[x].pc /\ asking'[x].code = asking[x].code
              /\ asking'[x].email = asking[x].email /\ asking'[x].user = asking[x].user
              /\ asking'[x].by = asking[x].by
          BY <2>4, <4>2
        <5> QED
          BY <5>1 DEF RequestFits
      <4> QED
        BY <4>1, <4>2
    <3>3. \A x \in Browsers : asking'[x].pc = "renewing" => browser'[x].session \in Sessions
      BY <1>1, <2>2, <2>3, <2>4 DEF AccountsInv, RequestsFit
    <3> QED
      BY <3>1, <3>2, <3>3 DEF RequestsFit, RequestFits
  <2>8. SigningFits'
    <3> SUFFICES ASSUME NEW x \in Browsers PROVE HoldsPassword(asking[x])'
      BY DEF SigningFits
    <3>1. CASE x = b
      BY <2>2, <2>3, <2>5, <3>1 DEF HoldsPassword
    <3>2. CASE x # b /\ asking[x].user = u
      <4>1. /\ asking'[x].pc = asking[x].pc /\ asking'[x].by = asking[x].by
            /\ x \in Underway(u) /\ asking[x].by # Passkey => asking'[x].overlapped
        BY <2>4, <3>2
      <4>2. asking[x].pc \in {"sweeping", "sweeping again", "signing"} => x \in Underway(u)
        BY <3>2 DEF Underway
      <4>3. CASE asking'[x].overlapped
        BY <4>3 DEF HoldsPassword
      <4>4. CASE ~(asking[x].pc \in {"sweeping", "sweeping again", "signing"})
                 \/ asking[x].by = Passkey
        BY <4>1, <4>4 DEF HoldsPassword
      <4> QED
        BY <4>1, <4>2, <4>3, <4>4
    <3>3. CASE x # b /\ asking[x].user # u
      <4>1. asking'[x].overlapped \/ asking'[x] = asking[x]
        BY <2>4, <3>3
      <4>2. CASE asking'[x].overlapped
        BY <4>2 DEF HoldsPassword
      <4>3. CASE asking'[x] = asking[x] /\ asking[x].user \in Users
        <5>1. user'[asking[x].user] = user[asking[x].user]
          BY <2>5, <3>3, <4>3
        <5>2. HoldsPassword(asking[x])
          BY <2>4, <3>3
        <5> QED
          BY <4>3, <5>1, <5>2 DEF HoldsPassword
      <4>4. CASE asking'[x] = asking[x] /\ asking[x].user \notin Users
        BY <2>4, <3>3, <4>4 DEF HoldsPassword, RequestFits
      <4> QED
        BY <4>1, <4>2, <4>3, <4>4
    <3> QED
      BY <3>1, <3>2, <3>3
  <2>9. SessionsFitThePassword'
    <3> SUFFICES ASSUME NEW s \in Sessions, session[s] # None, session[s].by # Passkey,
                        ~session[s].overlapped
                 PROVE  \/ session[s].by = user'[session[s].user].password
                        \/ \E x \in Browsers : asking'[x].user = session[s].user
                             /\ asking'[x].pc \in {"sweeping", "sweeping again"}
      BY <1>1 DEF SessionsFitThePassword
    <3>1. CASE session[s].user = u
      BY <2>2, <2>3, <3>1
    <3>2. CASE session[s].user # u
      <4>1. session[s].user \in Users \ {u}
        BY <3>2 DEF AccountsInv, SessionTypes, SessionRow
      <4>2. \/ session[s].by = user[session[s].user].password
            \/ \E x \in Browsers : asking[x].user = session[s].user
                 /\ asking[x].pc \in {"sweeping", "sweeping again"}
        BY DEF AccountsInv, SessionsFitThePassword
      <4> QED
        BY <1>1, <2>4, <2>5, <4>1, <4>2
    <3> QED
      BY <3>1, <3>2
  <2>10. AccountsHavePasswords'
    <3> SUFFICES ASSUME NEW v \in Users, user'[v].email # None, user'[v].password = None,
                        ~user'[v].half
                 PROVE  \E x \in Browsers :
                          asking'[x].user = v /\ asking'[x].pc \in {"protecting", "undoing"}
      BY DEF AccountsHavePasswords
    <3>1. v # u
      BY <1>1, <2>5, AbsentAssumption
    <3>2. PICK x \in Browsers :
            asking[x].user = v /\ asking[x].pc \in {"protecting", "undoing"}
      BY <2>5, <3>1 DEF AccountsInv, AccountsHavePasswords
    <3> QED
      BY <1>1, <2>4, <3>2
  <2>11. SessionsOwned'
    BY <1>1, <2>5 DEF AccountsInv, SessionsOwned, SessionTypes, SessionRow
  <2> QED
    BY <1>2, <2>5, <2>7, <2>8, <2>9, <2>10, <2>11 DEF AccountsInv
<1> QED
  BY <1>3, <1>4

\* The request that stored the password deletes the sessions of its user, or
\* gives up on them, or tries again.
LEMMA SweepStep ==
  ASSUME AccountsInv, CodesFit', SessionTypes', UNCHANGED <<user, browser>>,
         NEW b \in Browsers, NEW r, RequestFits(r), HoldsPassword(r),
         asking' = [asking EXCEPT ![b] = r], r.pc # "renewing",
         asking[b].pc \in {"sweeping", "sweeping again"},
         \A s \in Sessions : session'[s] # None =>
           /\ session[s] # None
           /\ session'[s].user = session[s].user /\ session'[s].by = session[s].by
           /\ session[s].overlapped => session'[s].overlapped
           /\ session[s].user = asking[b].user =>
                \/ session'[s].overlapped
                \/ r.user = asking[b].user /\ r.pc = "sweeping again"
  PROVE  AccountsInv'
<1>1. BrowserTypes' /\ UsersFit'
  BY DEF AccountsInv, BrowserTypes, UsersFit
<1>2. asking \in [Browsers -> Asking] /\ asking'[b] = r
      /\ \A x \in Browsers \ {b} : asking'[x] = asking[x]
  BY DEF AccountsInv, RequestsFit
<1>3. RequestsFit'
  BY <1>1, RequestMoves
<1>4. SigningFits'
  BY <1>2 DEF AccountsInv, SigningFits, HoldsPassword
<1>5. SessionsFitThePassword'
  <2> SUFFICES ASSUME NEW s \in Sessions, session'[s] # None, session'[s].by # Passkey,
                      ~session'[s].overlapped
               PROVE  \/ session'[s].by = user[session'[s].user].password
                      \/ \E x \in Browsers : asking'[x].user = session'[s].user
                           /\ asking'[x].pc \in {"sweeping", "sweeping again"}
    BY DEF SessionsFitThePassword
  <2>1. \/ session[s].by = user[session[s].user].password
        \/ \E x \in Browsers : asking[x].user = session[s].user
             /\ asking[x].pc \in {"sweeping", "sweeping again"}
    BY DEF AccountsInv, SessionsFitThePassword, SessionTypes, SessionRow
  <2>2. CASE session[s].user = asking[b].user
    BY <1>2, <2>2
  <2>3. CASE session[s].user # asking[b].user
    BY <1>2, <2>1, <2>3
  <2> QED
    BY <2>2, <2>3
<1>6. AccountsHavePasswords'
  BY <1>2 DEF AccountsInv, AccountsHavePasswords
<1>7. SessionsOwned'
  BY DEF AccountsInv, SessionsOwned
<1> QED
  BY <1>1, <1>3, <1>4, <1>5, <1>6, <1>7 DEF AccountsInv

LEMMA SweepSessionsFits ==
  ASSUME AccountsInv, NEW b \in Browsers, SweepSessions(b) \/ SweepFails(b)
  PROVE  AccountsInv'
<1>1. /\ RequestFits(asking[b]) /\ HoldsPassword(asking[b])
      /\ asking[b].pc \in {"sweeping", "sweeping again"} /\ asking[b].user \in Users
      /\ UNCHANGED <<user, browser>>
  BY DEF SweepSessions, SweepFails, At, AccountsInv, RequestsFit, RequestFits, SigningFits
<1>2. CodesFit'
  BY CodesStay DEF SweepSessions, SweepFails
<1>3. CASE SweepSessions(b)
  <2>1. SessionTypes' /\ \A s \in Sessions : session'[s] # None =>
          session'[s] = session[s] /\ session[s] # None /\ session[s].user # asking[b].user
    BY <1>3 DEF SweepSessions, AccountsInv, SessionTypes, SessionsWithout
  <2>2. /\ Next(b, "signing").pc = "signing" /\ RequestFits(Next(b, "signing"))
        /\ HoldsPassword(Next(b, "signing"))
        /\ asking' = [asking EXCEPT ![b] = Next(b, "signing")]
    BY ZenonT(30), <1>1, <1>3, NextFits DEF SweepSessions, RequestFits, HoldsPassword, Pcs
  <2> QED
    BY <1>1, <1>2, <2>1, <2>2, SweepStep
<1>4. CASE Proceed(b, "sweeping again") /\ UNCHANGED session
  <2>1. /\ Next(b, "sweeping again").pc = "sweeping again"
        /\ Next(b, "sweeping again").user = asking[b].user
        /\ RequestFits(Next(b, "sweeping again")) /\ HoldsPassword(Next(b, "sweeping again"))
        /\ asking' = [asking EXCEPT ![b] = Next(b, "sweeping again")]
    BY ZenonT(30), <1>1, <1>4, NextFits DEF RequestFits, HoldsPassword, Pcs
  <2>2. SessionTypes'
    BY <1>4 DEF AccountsInv, SessionTypes
  <2> QED
    BY <1>1, <1>2, <1>4, <2>1, <2>2, SweepStep
<1>5. CASE /\ Finish(b)
           /\ session' = [s \in Sessions |->
                IF session[s] # None /\ session[s].user = asking[b].user
                THEN [session[s] EXCEPT !.overlapped = TRUE] ELSE session[s]]
  <2>1. SessionTypes' /\ \A s \in Sessions : session'[s] # None =>
          /\ session[s] # None
          /\ session'[s].user = session[s].user /\ session'[s].by = session[s].by
          /\ session[s].overlapped => session'[s].overlapped
          /\ session[s].user = asking[b].user => session'[s].overlapped
    BY <1>5 DEF AccountsInv, SessionTypes, SessionRow
  <2> QED
    BY ZenonT(30), <1>1, <1>2, <1>5, <2>1, RestingFits, SweepStep DEF Finish, Resting
<1> QED
  BY <1>3, <1>4, <1>5 DEF SweepFails

-----------------------------------------------------------------------------
(* Sessions, time and lost requests.                                       *)

LEMMA UseSessionFits ==
  ASSUME AccountsInv, NEW b \in Browsers, UseSession(b)
  PROVE  AccountsInv'
<1>1. /\ RequestFits(asking[b]) /\ Free(b) /\ UNCHANGED <<user, browser>> /\ BrowserTypes'
      /\ browser[b].session \in Sessions
  BY DEF UseSession, AccountsInv, RequestsFit, BrowserTypes, Cookies
<1>2. CodesFit'
  BY CodesStay DEF UseSession
<1>3. CASE session' = [session EXCEPT ![browser[b].session] = None] /\ UNCHANGED asking
  <2>1. SessionsShrink
    BY <1>1, <1>3 DEF SessionsShrink, AccountsInv, SessionTypes
  <2> QED
    BY <1>1, <1>2, <1>3, <2>1, CookieStep
<1>4. CASE Proceed(b, "renewing") /\ UNCHANGED session
  <2>1. /\ Next(b, "renewing").pc = "renewing" /\ RequestFits(Next(b, "renewing"))
        /\ HoldsPassword(Next(b, "renewing"))
        /\ asking' = [asking EXCEPT ![b] = Next(b, "renewing")]
    BY <1>1, <1>4, NextFits DEF RequestFits, HoldsPassword, Pcs
  <2> QED
    BY <1>1, <1>2, <1>4, <2>1, SessionsStay, QuietStep DEF Free, At
<1> QED
  BY <1>3, <1>4 DEF UseSession

LEMMA RenewSessionFits ==
  ASSUME AccountsInv, NEW b \in Browsers, RenewSession(b)
  PROVE  AccountsInv'
<1>1. CodesFit' /\ BrowserTypes'
  BY CodesStay DEF RenewSession, AccountsInv, BrowserTypes
<1>2. browser[b].session \in Sessions
  BY DEF RenewSession, At, AccountsInv, RequestsFit
<1>3. SessionsShrink
  BY <1>2 DEF RenewSession, SessionsShrink, AccountsInv, SessionTypes, SessionRow
<1> QED
  BY <1>1, <1>3, RestingFits, QuietStep DEF RenewSession, At, Finish, Resting

LEMMA DeleteOtherSessionsFits ==
  ASSUME AccountsInv, NEW b \in Browsers, DeleteOtherSessions(b)
  PROVE  AccountsInv'
<1>1. CodesFit' /\ BrowserTypes'
  BY CodesStay DEF DeleteOtherSessions, AccountsInv, BrowserTypes
<1>2. SessionsShrink
  BY DEF DeleteOtherSessions, SessionsShrink, AccountsInv, SessionTypes
<1> QED
  BY <1>1, <1>2, StillStep DEF DeleteOtherSessions

\* Time and the nightly cron delete, and age what they leave.
LEMMA TimeFits ==
  ASSUME AccountsInv, DeleteExpired \/ PassTime
  PROVE  AccountsInv'
<1>1. UNCHANGED <<inbox, granted, user, browser, asking, errors>>
  BY DEF DeleteExpired, PassTime
<1>2. CASE DeleteExpired
  <2>1. CodesFit' /\ SessionsShrink
    BY <1>1, <1>2 DEF DeleteExpired, AccountsInv, CodesFit, SessionsShrink, SessionTypes
  <2> QED
    BY <1>1, <2>1, StillStep
<1>3. CASE \E c \in Codes : /\ Valid(c)
                            /\ verification' = [verification EXCEPT ![c].expired = TRUE]
                            /\ UNCHANGED session
  <2>1. CodesFit'
    BY <1>1, <1>3 DEF AccountsInv, CodesFit, Valid, VerificationRow
  <2> QED
    BY <1>1, <1>3, <2>1, SessionsStay, StillStep
<1>4. CASE \E s \in Sessions : /\ session[s] # None
                               /\ session' = [session EXCEPT ![s].age = Older(@)]
                               /\ UNCHANGED verification
  <2>1. SessionsShrink
    BY <1>4 DEF AccountsInv, SessionsShrink, SessionTypes, SessionRow, Older
  <2>2. CodesFit'
    BY <1>1, <1>4, CodesStay
  <2> QED
    BY <1>1, <2>1, <2>2, StillStep
<1> QED
  BY <1>2, <1>3, <1>4 DEF PassTime

\* A request that is lost leaves its account without a password, and says so.
LEMMA LoseRequestFits ==
  ASSUME AccountsInv, NEW b \in Browsers, LoseRequest(b)
  PROVE  AccountsInv'
<1> DEFINE u == asking[b].user
<1>1. /\ asking' = [asking EXCEPT ![b] = Resting] /\ UNCHANGED <<session, browser>>
      /\ RequestFits(asking[b])
  BY DEF LoseRequest, Finish, AccountsInv, RequestsFit
<1>2. CodesFit' /\ BrowserTypes' /\ SessionTypes' /\ SessionsShrink
  BY <1>1, CodesStay, SessionsStay DEF LoseRequest, AccountsInv, BrowserTypes, SessionTypes
<1>3. CASE asking[b].pc \notin {"protecting", "undoing"}
  <2>1. UNCHANGED user
    BY <1>3 DEF LoseRequest
  <2> QED
    BY <1>1, <1>2, <1>3, <2>1, RestingFits, QuietStep DEF LoseRequest, Resting
<1>4. CASE asking[b].pc \in {"protecting", "undoing"}
  <2>1. u \in Users
    BY <1>1, <1>4 DEF RequestFits
  <2>2. user' = IF user[u].email # None
                THEN [user EXCEPT ![u].half = user[u].password = None] ELSE user
    BY <1>4 DEF LoseRequest
  <2>3. /\ UsersFit'
        /\ \A v \in Users :
             /\ user'[v].email = user[v].email /\ user'[v].password = user[v].password
             /\ v # u => user'[v].half = user[v].half
        /\ user[u].email # None /\ user[u].password = None => user'[u].half
    BY ZenonT(30), <2>1, <2>2 DEF AccountsInv, UsersFit, UserRow
  <2> HIDE DEF u
  <2>4. asking \in [Browsers -> Asking] /\ asking'[b] = Resting
        /\ \A x \in Browsers \ {b} : asking'[x] = asking[x]
    BY <1>1 DEF AccountsInv, RequestsFit
  <2>5. RequestsFit'
    BY <1>1, <1>2, RestingFits, RequestMoves DEF Resting
  <2>6. SigningFits'
    <3> SUFFICES ASSUME NEW x \in Browsers PROVE HoldsPassword(asking[x])'
      BY DEF SigningFits
    <3>1. RequestFits(asking[x]) /\ HoldsPassword(asking[x])
      BY DEF AccountsInv, RequestsFit, SigningFits
    <3>2. CASE x = b
      <4>1. asking'[x].pc = "idle"
        BY <2>4, <3>2 DEF Resting
      <4> QED
        BY <4>1 DEF HoldsPassword
    <3>3. CASE x # b
      BY <2>3, <2>4, <3>1, <3>3 DEF HoldsPassword, RequestFits
    <3> QED
      BY <3>2, <3>3
  <2>7. SessionsFitThePassword' /\ SessionsOwned'
    <3>1. \A s \in Sessions : session[s] # None => session[s].user \in Users
      BY DEF AccountsInv, SessionTypes, SessionRow
    <3>2. SessionsOwned'
      BY <1>1, <2>3, <3>1 DEF AccountsInv, SessionsOwned
    <3>3. \A x \in Browsers : asking[x].pc \in {"sweeping", "sweeping again"} =>
            asking'[x] = asking[x]
      BY <1>4, <2>4
    <3>4. UNCHANGED session
      BY <1>1
    <3>5. SessionsFitThePassword
      BY DEF AccountsInv
    <3>6. SessionsFitThePassword'
      <4> SUFFICES ASSUME NEW s \in Sessions, session[s] # None,
                          session[s].by # Passkey, ~session[s].overlapped
                   PROVE  \/ session[s].by = user'[session[s].user].password
                          \/ \E x \in Browsers : asking'[x].user = session[s].user
                               /\ asking'[x].pc \in {"sweeping", "sweeping again"}
        BY <3>4 DEF SessionsFitThePassword
      <4>1. \/ session[s].by = user[session[s].user].password
            \/ \E x \in Browsers : asking[x].user = session[s].user
                 /\ asking[x].pc \in {"sweeping", "sweeping again"}
        BY <3>5 DEF SessionsFitThePassword
      <4>2. session[s].user \in Users
        BY <3>1
      <4>3. session[s].by = user[session[s].user].password
              => session[s].by = user'[session[s].user].password
        BY <2>3, <4>2
      <4> QED
        BY <3>3, <4>1, <4>3
    <3> QED
      BY <3>2, <3>6
  <2>8. AccountsHavePasswords'
    <3> SUFFICES ASSUME NEW v \in Users, user'[v].email # None, user'[v].password = None,
                        ~user'[v].half
                 PROVE  \E x \in Browsers :
                          asking'[x].user = v /\ asking'[x].pc \in {"protecting", "undoing"}
      BY DEF AccountsHavePasswords
    <3>1. v # u
      BY <2>3
    <3>2. PICK x \in Browsers :
            asking[x].user = v /\ asking[x].pc \in {"protecting", "undoing"}
      BY <2>3, <3>1 DEF AccountsInv, AccountsHavePasswords
    <3> QED
      BY <2>4, <3>1, <3>2 DEF u
  <2> QED
    BY <1>2, <2>3, <2>5, <2>6, <2>7, <2>8 DEF AccountsInv
<1> QED
  BY <1>3, <1>4

-----------------------------------------------------------------------------
(* The invariant holds of every behaviour.                                 *)

LEMMA AccountsInitFits == AccountsInit => AccountsInv
<1> SUFFICES ASSUME AccountsInit PROVE AccountsInv
  OBVIOUS
<1>1. CodesFit
  BY ErrorsAssumption DEF AccountsInit, CodesFit
<1>2. UsersFit
  BY DEF AccountsInit, UsersFit, NoUser, UserRow
<1>3. SessionTypes /\ BrowserTypes /\ SessionsOwned /\ SessionsFitThePassword
  BY DEF AccountsInit, SessionTypes, BrowserTypes, SessionsOwned, SessionsFitThePassword,
     Cookies
<1>4. \A b \in Browsers : asking[b] = Resting
  BY DEF AccountsInit
<1>5. RequestsFit
  BY <1>4, RestingFits DEF AccountsInit, RequestsFit, Resting
<1>6. SigningFits
  BY <1>4, RestingFits DEF SigningFits
<1>7. AccountsHavePasswords
  BY DEF AccountsInit, AccountsHavePasswords, NoUser
<1> QED
  BY <1>1, <1>2, <1>3, <1>5, <1>6, <1>7 DEF AccountsInv

\* Deleted sessions and replaced passwords had users that there are.
LEMMA StillShownFits ==
  ASSUME AccountsInv, ShownTypes, NEW gone \in SUBSET Sessions
  PROVE  StillShown(gone) \in [Browsers -> Shown]
<1> SUFFICES ASSUME NEW x \in Browsers PROVE StillShown(gone)[x] \in Shown
  BY DEF StillShown
<1> DEFINE s == browser[x].session
<1>1. shown[x] \in Shown /\ s \in Sessions \cup {None}
  BY DEF AccountsInv, BrowserTypes, Cookies, ShownTypes
<1>2. session[s] # None /\ s \in Sessions => session[s].user \in Users
  BY DEF AccountsInv, SessionTypes, SessionRow
<1>3. StillShown(gone)[x] =
        IF s \in gone /\ session[s] # None /\ session[s].age # "expired"
        THEN [shown[x] EXCEPT !.user = session[s].user] ELSE shown[x]
  BY DEF StillShown
<1> QED
  BY <1>1, <1>2, <1>3 DEF Shown

LEMMA ShownStepFits ==
  AccountsInv /\ ShownTypes /\ [AccountsNext]_accountVars => ShownTypes'
<1> SUFFICES ASSUME AccountsInv, ShownTypes, [AccountsNext]_accountVars PROVE ShownTypes'
  OBVIOUS
<1>1. NothingOld \in Shown
  BY DEF NothingOld, Shown
<1>2. CASE UNCHANGED shown
  BY <1>2 DEF ShownTypes
<1>3. ASSUME NEW b \in Browsers, SignIn(b) PROVE ShownTypes'
  BY <1>1, <1>3 DEF SignIn, ShownTypes
<1>4. ASSUME NEW b \in Browsers, StorePassword(b) PROVE ShownTypes'
  BY <1>4 DEF StorePassword, ShownTypes, Shown
<1>5. ASSUME NEW b \in Browsers, SweepSessions(b) \/ DeleteOtherSessions(b)
      PROVE  ShownTypes'
  BY <1>5, StillShownFits DEF SweepSessions, DeleteOtherSessions, ShownTypes
<1>6. ASSUME NEW b \in Browsers, SignOut(b) \/ DeleteAccount(b) PROVE ShownTypes'
  BY <1>6 DEF SignOut, DeleteAccount, ShownTypes, Shown
<1>7. CASE ReplicasCatchUp
  BY <1>1, <1>7 DEF ReplicasCatchUp, ShownTypes
<1>8. ASSUME NEW b \in Browsers,
             \/ CodeStep(b) \/ SignupStep(b) \/ LoginStep(b) \/ PasswordStep(b)
             \/ SessionStep(b) \/ LoseRequest(b)
      PROVE  ShownTypes'
  <2>1. CASE CodeStep(b) \/ SignupStep(b)
    BY <1>2, <2>1
       DEF CodeStep, ForgotPassword, RequestSignupCode, CreateVerification, SendCode, SendFails,
           DeleteUnsent, Present, Consume, ConsumedByAnother, SignupStep, CreateUser,
           OpenSignup, Cancel, CreatePassword, CreatePasswordFails, UndoUser
  <2>2. CASE LoginStep(b)
    BY <1>2, <1>3, <2>2
       DEF LoginStep, Login, PasskeyLogin, StoreCounter, SignInFails, RegisterPasskey,
           DeletePasskey
  <2>3. CASE PasswordStep(b)
    BY <1>2, <1>4, <1>5, <2>3 DEF PasswordStep, ResetPassword, ChangePassword, SweepFails
  <2>4. CASE SessionStep(b) \/ LoseRequest(b)
    BY <1>2, <1>5, <1>6, <2>4 DEF SessionStep, UseSession, RenewSession, LoseRequest
  <2> QED
    BY <1>8, <2>1, <2>2, <2>3, <2>4
<1>9. CASE DeleteExpired \/ PassTime \/ UNCHANGED accountVars
  BY <1>2, <1>9 DEF DeleteExpired, PassTime, accountVars
<1> QED
  BY <1>7, <1>8, <1>9 DEF AccountsNext

LEMMA AccountsStepFits ==
  AccountsInv /\ ShownTypes /\ [AccountsNext]_accountVars => AccountsInv'
<1> SUFFICES ASSUME AccountsInv, ShownTypes, [AccountsNext]_accountVars PROVE AccountsInv'
  OBVIOUS
<1>1. ASSUME NEW b \in Browsers, CodeStep(b) PROVE AccountsInv'
  <2>1. ASSUME NEW e \in Emails, ForgotPassword(b, e) \/ RequestSignupCode(b, e)
        PROVE  AccountsInv'
    BY <2>1, CreateVerificationFits DEF ForgotPassword, RequestSignupCode
  <2> QED
    BY <1>1, <2>1, MailFits, PresentFits, ConsumeFits DEF CodeStep
<1>2. ASSUME NEW b \in Browsers, SignupStep(b) PROVE AccountsInv'
  BY <1>2, CreateUserFits, CookiesFit, CreatePasswordFits, CreatePasswordFailsFits,
     UndoUserFits DEF SignupStep
<1>3. ASSUME NEW b \in Browsers, LoginStep(b) PROVE AccountsInv'
  BY <1>3, LoginFits, PasskeyLoginFits, StoreCounterFits, SignInFits, SignInFailsFits,
     PasskeysFit DEF LoginStep
<1>4. ASSUME NEW b \in Browsers, PasswordStep(b) PROVE AccountsInv'
  BY <1>4, ResetPasswordFits, ChangePasswordFits, StorePasswordFits, SweepSessionsFits
     DEF PasswordStep
<1>5. ASSUME NEW b \in Browsers, SessionStep(b) PROVE AccountsInv'
  BY <1>5, UseSessionFits, RenewSessionFits, CookiesFit, DeleteOtherSessionsFits,
     DeleteAccountFits DEF SessionStep
<1>6. CASE UNCHANGED accountVars
  BY <1>6, CodesStay, SessionsStay, StillStep DEF accountVars
<1>7. CASE ReplicasCatchUp
  BY <1>7, CodesStay, SessionsStay, StillStep DEF ReplicasCatchUp
<1> QED
  BY <1>1, <1>2, <1>3, <1>4, <1>5, <1>6, <1>7, TimeFits, LoseRequestFits DEF AccountsNext

LEMMA AccountsInvariant == AccountsSpec => [](AccountsInv /\ ShownTypes)
<1>1. AccountsInit => ShownTypes
  BY DEF AccountsInit, ShownTypes, Shown, NothingOld
<1> QED
  BY <1>1, AccountsInitFits, AccountsStepFits, ShownStepFits, PTL DEF AccountsSpec

\* Every variable keeps to the values of its kind, for any browsers and users.
THEOREM AccountsTypeCorrect == AccountsSpec => []AccountsTypeOK
<1>1. AccountsInv /\ ShownTypes => AccountsTypeOK
  BY DEF AccountsInv, CodesFit, UsersFit, SessionTypes, BrowserTypes, RequestsFit, ShownTypes,
         AccountsTypeOK
<1> QED
  BY <1>1, AccountsInvariant, PTL

\* A mailed code is accepted once, however many requests found and compared it
\* before the first of them deleted it: the delete that finds the row decides.
THEOREM CodesCorrect == AccountsSpec => []CodesGrantOnce
<1>1. AccountsInv => CodesGrantOnce
  BY DEF AccountsInv, CodesFit, CodesGrantOnce
<1> QED
  BY <1>1, AccountsInvariant, PTL

\* The sessions opened with a password go with it, except those whose request
\* was overlapped, those opened later with a password that a lagging replica still
\* had, and those whose deletion failed: wherever else replicas show a deleted
\* session or a replaced password, what is stored in the end fits.
THEOREM SessionsCorrect == AccountsSpec => []SessionsFitThePassword
<1>1. AccountsInv => SessionsFitThePassword
  BY DEF AccountsInv
<1> QED
  BY <1>1, AccountsInvariant, PTL

\* No account is left without a password unless the request that made it was
\* lost: what fails is compensated.
THEOREM PasswordsCorrect == AccountsSpec => []AccountsHavePasswords
<1>1. AccountsInv => AccountsHavePasswords
  BY DEF AccountsInv
<1> QED
  BY <1>1, AccountsInvariant, PTL
=============================================================================
