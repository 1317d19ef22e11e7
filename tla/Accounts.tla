------------------------------ MODULE Accounts ------------------------------
(***************************************************************************)
(* Accounts of the site: the codes that are mailed to prove an address,    *)
(* signing up, signing in by password or passkey, resetting and changing   *)
(* the password, signing out, deleting the account, and the nightly        *)
(* deletion of what has expired.                                           *)
(*                                                                         *)
(* A browser has one request under way.  Every action is one statement of  *)
(* D1 or one call of the mail service; there are no transactions.  Only    *)
(* codes that were mailed are presented, and a user id, a code id and a    *)
(* session id is minted again only when nothing names it any more.         *)
(*                                                                         *)
(* Writes go to the primary database.  A read may be answered by a replica *)
(* that lags, unless the browser has a bookmark of later: this matters for *)
(* passwords and for sessions.  Other reads are those of the primary, and  *)
(* what a replica shows too long of a code or of an account is refused by  *)
(* the write that follows.                                                 *)
(***************************************************************************)
EXTENDS Absence, Naturals, FiniteSets

CONSTANTS
  Emails,      \* addresses, in lower case
  Users,       \* user ids
  Passwords,   \* passwords that pass the strength check
  Codes,       \* numbers of the verifications, in the order of createdAt
  Sessions,    \* session ids
  Browsers,    \* browsers, each with one request under way
  MaxErrors    \* bound on failed statements, failed mails and lost requests

ASSUME CodesAssumption == Codes \subseteq Nat \ {0}

Passkey == "passkey"
ASSUME PasskeyAssumption == Passkey \notin Passwords
ASSUME ErrorsAssumption == MaxErrors \in Nat
ASSUME AbsentAssumption ==
  /\ None # Passkey
  /\ None \notin Emails \cup Users \cup Passwords \cup Codes \cup Sessions

VARIABLES
  verification, \* the Verification rows
  inbox,        \* the codes that have reached their address
  granted,      \* how often a code has been accepted
  user,         \* the User rows with the password and the passkey of each
  session,      \* the Session rows
  browser,      \* the cookies of each browser
  asking,      \* the request that each browser has under way
  shown,       \* what a replica may still show each browser
  errors        \* errors so far

accountVars ==
  <<verification, inbox, granted, user, session, browser, asking, shown, errors>>

NoUser == [email |-> None, password |-> None, passkey |-> FALSE, half |-> FALSE]

\* `half': the account was left without a password by an error of its signup.
UserRow == [email : Emails \cup {None}, password : Passwords \cup {None},
            passkey : BOOLEAN, half : BOOLEAN]

\* `by' is what the session was opened with.  `overlapped': a new password was
\* stored while the request that opened it was under way, or before it and the
\* replica that was asked for the password did not have it yet, or the sessions
\* could not be deleted after it.
SessionRow == [user : Users, by : Passwords \cup {Passkey},
               age : {"fresh", "old", "expired"}, overlapped : BOOLEAN]

VerificationRow == [type : {"SIGNUP", "PASSWORD_RESET"}, target : Emails,
                    expired : BOOLEAN]

\* KCD_login (signupEmail, resetPasswordEmail) and KCD_root_session.
Cookies == [signup : Emails \cup {None}, reset : Emails \cup {None},
            session : Sessions \cup {None}]

Asking == [pc : {"idle", "mailing", "unmailing", "consuming", "creating",
                  "protecting", "undoing", "storing", "sweeping", "sweeping again",
                  "counting", "signing", "renewing"},
            code : Codes \cup {None}, email : Emails \cup {None},
            user : Users \cup {None}, by : Passwords \cup {Passkey, None},
            overlapped : BOOLEAN]

\* Passwords that were replaced, and the user of a session that was deleted.
Shown == [passwords : SUBSET (Users \X Passwords), user : Users \cup {None}]
NothingOld == [passwords |-> {}, user |-> None]

Resting == [pc |-> "idle", code |-> None, email |-> None, user |-> None,
            by |-> None, overlapped |-> FALSE]

At(b, pc) == asking[b].pc = pc
Finish(b) == asking' = [asking EXCEPT ![b] = Resting]
Proceed(b, pc) == asking' = [asking EXCEPT ![b].pc = pc]
Begin(b, fields) == asking' = [asking EXCEPT ![b] = fields]

Error == errors < MaxErrors /\ errors' = errors + 1

UserOf(e) == {u \in Users : user[u].email = e}

\* The user of a session that has not expired, of one that was deleted as well
\* where a replica still has it.
SessionUser(b) ==
  LET s == browser[b].session IN
  IF s = None THEN None
  ELSE IF session[s] = None THEN shown[b].user
  ELSE IF session[s].age = "expired" THEN None
  ELSE session[s].user

UserIdsInUse ==
  {asking[b].user : b \in Browsers}
    \cup {session[s].user : s \in {x \in Sessions : session[x] # None}}
    \cup {shown[b].user : b \in Browsers}
    \cup {old[1] : old \in UNION {shown[b].passwords : b \in Browsers}}
FreshUsers == {u \in Users \ UserIdsInUse : user[u] = NoUser}
FreshCodes == {c \in Codes : verification[c] = None /\ granted[c] = 0 /\ c \notin inbox
                 /\ \A b \in Browsers : asking[b].code # c}
FreshSessions == {s \in Sessions : session[s] = None
                    /\ \A b \in Browsers : browser[b].session # s}

\* On delete cascade: the sessions of a deleted user go with it.
SessionsWithout(gone) ==
  [s \in Sessions |->
     IF session[s] # None /\ session[s].user \in gone THEN None ELSE session[s]]

Free(b) == At(b, "idle")

-----------------------------------------------------------------------------
(* Codes.                                                                  *)

\* createVerification; the newest code has the greatest number.
CreateVerification(b, type, e) ==
  \E c \in FreshCodes :
    /\ \A d \in Codes : d >= c => verification[d] = None /\ granted[d] = 0
    /\ verification' = [verification EXCEPT
         ![c] = [type |-> type, target |-> e, expired |-> FALSE]]
    /\ Begin(b, [Resting EXCEPT !.pc = "mailing", !.code = c])
    /\ UNCHANGED <<inbox, granted, user, session, browser, shown, errors>>

\* The forgot-password form: only an address with an account gets a code.
ForgotPassword(b, e) ==
  /\ Free(b)
  /\ UserOf(e) # {}
  /\ CreateVerification(b, "PASSWORD_RESET", e)

\* The first signup form: only an address without an account gets a code.
RequestSignupCode(b, e) ==
  /\ Free(b)
  /\ UserOf(e) = {}
  /\ CreateVerification(b, "SIGNUP", e)

SendCode(b) ==
  /\ At(b, "mailing")
  /\ inbox' = inbox \cup {asking[b].code}
  /\ Finish(b)
  /\ UNCHANGED <<verification, granted, user, session, browser, shown, errors>>

\* The mail provider refuses, or its answer is lost and the mail was sent; the
\* verification is deleted, if that succeeds.
SendFails(b) ==
  /\ At(b, "mailing")
  /\ Error
  /\ inbox' \in {inbox, inbox \cup {asking[b].code}}
  /\ Proceed(b, "unmailing")
  /\ UNCHANGED <<verification, granted, user, session, browser, shown>>

DeleteUnsent(b) ==
  /\ At(b, "unmailing")
  /\ verification' = [verification EXCEPT ![asking[b].code] = None]
  /\ Finish(b)
  /\ UNCHANGED <<inbox, granted, user, session, browser, shown, errors>>

Valid(c) == verification[c] # None /\ ~verification[c].expired

\* consumeVerification: a link of a mail names its row.
FoundByLink(c) == Valid(c)

\* consumeVerificationForTarget: the form takes the newest row of the target.
FoundByForm(c) ==
  /\ Valid(c)
  /\ \A d \in Codes : d > c => ~(Valid(d)
       /\ verification[d].type = verification[c].type
       /\ verification[d].target = verification[c].target)

\* The row was read and the code compared; nothing is decided yet.
Present(b, c) ==
  /\ Free(b)
  /\ c \in inbox
  /\ FoundByLink(c) \/ FoundByForm(c)
  /\ Begin(b, [Resting EXCEPT !.pc = "consuming", !.code = c,
                              !.email = verification[c].target,
                              !.by = None])
  /\ UNCHANGED <<verification, inbox, granted, user, session, browser, shown, errors>>

\* The request whose delete finds the row may use the code.
AcceptsWhatItFound(c) == TRUE
Accepts(c) == verification[c] # None

Consume(b) ==
  LET c == asking[b].code IN
  /\ At(b, "consuming")
  /\ Accepts(c)
  /\ verification' = [verification EXCEPT ![c] = None]
  /\ granted' = [granted EXCEPT ![c] = @ + 1]
  /\ \E type \in IF verification[c] = None THEN {"SIGNUP", "PASSWORD_RESET"}
                 ELSE {verification[c].type} :
       browser' = IF type = "SIGNUP"
         THEN [browser EXCEPT ![b].signup = asking[b].email]
         ELSE [browser EXCEPT ![b].reset = asking[b].email]
  /\ Finish(b)
  /\ UNCHANGED <<inbox, user, session, shown, errors>>

ConsumedByAnother(b) ==
  /\ At(b, "consuming")
  /\ ~Accepts(asking[b].code)
  /\ Finish(b)
  /\ UNCHANGED <<verification, inbox, granted, user, session, browser, shown, errors>>

-----------------------------------------------------------------------------
(* Signing up.                                                             *)

\* An account for the proven address.  The unique email decides between two
\* attempts; the second is sent to the login.
CreateUser(b, p) ==
  LET e == browser[b].signup IN
  /\ Free(b)
  /\ e # None
  /\ IF UserOf(e) # {}
     THEN /\ browser' = [browser EXCEPT ![b].signup = None, ![b].reset = None]
          /\ UNCHANGED <<user, asking>>
     ELSE \E u \in FreshUsers :
            /\ user' = [user EXCEPT ![u] = [NoUser EXCEPT !.email = e]]
            /\ Begin(b, [Resting EXCEPT !.pc = "protecting", !.email = e,
                                        !.user = u, !.by = p])
            /\ UNCHANGED browser
  /\ UNCHANGED <<verification, inbox, granted, session, shown, errors>>

\* The loader of the form sends to the login when the account exists by now.
OpenSignup(b) ==
  /\ Free(b)
  /\ browser[b].signup # None
  /\ UserOf(browser[b].signup) # {}
  /\ browser' = [browser EXCEPT ![b].signup = None]
  /\ UNCHANGED <<verification, inbox, granted, user, session, asking, shown, errors>>

\* The cancel buttons of the signup and of the reset form.
Cancel(b) ==
  /\ Free(b)
  /\ browser[b].signup # None \/ browser[b].reset # None
  /\ browser' = [browser EXCEPT ![b].signup = None, ![b].reset = None]
  /\ UNCHANGED <<verification, inbox, granted, user, session, asking, shown, errors>>

CreatePassword(b) ==
  LET u == asking[b].user IN
  /\ At(b, "protecting")
  /\ user[u].email # None /\ user[u].password = None
  /\ user' = [user EXCEPT ![u].password = asking[b].by]
  /\ Proceed(b, "signing")
  /\ UNCHANGED <<verification, inbox, granted, session, browser, shown, errors>>

\* The insert fails: of itself, or since a reset has stored a password for the
\* new account, or since the account is gone.
CreatePasswordFails(b) ==
  LET u == asking[b].user IN
  /\ At(b, "protecting")
  /\ \/ Error
     \/ (user[u].email = None \/ user[u].password # None) /\ UNCHANGED errors
  /\ Proceed(b, "undoing")
  /\ UNCHANGED <<verification, inbox, granted, user, session, browser, shown>>

NoCompensation(b) ==
  /\ At(b, "undoing")
  /\ Finish(b)
  /\ UNCHANGED <<verification, inbox, granted, user, session, browser, shown, errors>>

\* The compensation deletes the account that has no password.
UndoUser(b) ==
  LET u == asking[b].user IN
  /\ At(b, "undoing")
  /\ user' = [user EXCEPT ![u] = NoUser]
  /\ session' = SessionsWithout({u})
  /\ Finish(b)
  /\ UNCHANGED <<verification, inbox, granted, browser, shown, errors>>

-----------------------------------------------------------------------------
(* Signing in.                                                             *)

\* The password that a read finds: that of the primary, or of a replica.
ReadsPassword(b, u, p) == user[u].password = p \/ <<u, p>> \in shown[b].passwords

\* The hash is read and the password compared; the session comes later.
Login(b, e, p) ==
  /\ Free(b)
  /\ \E u \in UserOf(e) :
       /\ ReadsPassword(b, u, p)
       /\ Begin(b, [Resting EXCEPT !.pc = "signing", !.email = e, !.user = u,
                                   !.by = p, !.overlapped = user[u].password # p])
  /\ UNCHANGED <<verification, inbox, granted, user, session, browser, shown, errors>>

\* verify-authentication: the passkey and its user are read, the signature is
\* checked against the counter that was read, and the counter is stored.
PasskeyLogin(b, u) ==
  /\ Free(b)
  /\ user[u].passkey
  /\ Begin(b, [Resting EXCEPT !.pc = "counting", !.email = user[u].email,
                              !.user = u, !.by = Passkey])
  /\ UNCHANGED <<verification, inbox, granted, user, session, browser, shown, errors>>

\* If the passkey was deleted meanwhile the update finds no row.
StoreCounter(b) ==
  /\ At(b, "counting")
  /\ \/ Proceed(b, "signing")
     \/ ~user[asking[b].user].passkey /\ Finish(b)
  /\ UNCHANGED <<verification, inbox, granted, user, session, browser, shown, errors>>

\* createSession, and the cookies of the answer, the bookmark of this commit among
\* them.  A user that is gone has no sessions (foreign key): the request fails.
SignIn(b) ==
  LET r == asking[b] IN
  /\ At(b, "signing")
  /\ IF user[r.user].email = None
     THEN UNCHANGED <<session, browser, shown>>
     ELSE \E s \in FreshSessions :
            /\ shown' = [shown EXCEPT ![b] = NothingOld]
            /\ session' = [session EXCEPT
                 ![s] = [user |-> r.user, by |-> r.by, age |-> "fresh",
                         overlapped |-> r.overlapped]]
            /\ browser' = [browser EXCEPT
                 ![b] = [signup |-> None, reset |-> None, session |-> s]]
  /\ Finish(b)
  /\ UNCHANGED <<verification, inbox, granted, user, errors>>

\* The account was created and the automatic login fails.
SignInFails(b) ==
  /\ At(b, "signing")
  /\ Error
  /\ browser' = [browser EXCEPT ![b].signup = None]
  /\ Finish(b)
  /\ UNCHANGED <<verification, inbox, granted, user, session, shown>>

RegisterPasskey(b) ==
  /\ Free(b)
  /\ SessionUser(b) # None
  /\ user[SessionUser(b)].email # None /\ ~user[SessionUser(b)].passkey
  /\ user' = [user EXCEPT ![SessionUser(b)].passkey = TRUE]
  /\ UNCHANGED <<verification, inbox, granted, session, browser, asking, shown, errors>>

DeletePasskey(b) ==
  /\ Free(b)
  /\ SessionUser(b) # None
  /\ user[SessionUser(b)].passkey
  /\ user' = [user EXCEPT ![SessionUser(b)].passkey = FALSE]
  /\ UNCHANGED <<verification, inbox, granted, session, browser, asking, shown, errors>>

-----------------------------------------------------------------------------
(* Passwords.                                                              *)

\* The reset form: the address was proven, the account is looked up.
ResetPassword(b, p) ==
  LET e == browser[b].reset IN
  /\ Free(b)
  /\ e # None
  /\ IF UserOf(e) = {}
     THEN /\ browser' = [browser EXCEPT ![b].reset = None, ![b].signup = None]
          /\ UNCHANGED asking
     ELSE /\ \E u \in UserOf(e) :
               Begin(b, [Resting EXCEPT !.pc = "storing", !.email = e,
                                        !.user = u, !.by = p])
          /\ UNCHANGED browser
  /\ UNCHANGED <<verification, inbox, granted, user, session, shown, errors>>

\* The password form of /me: the current password has to be given, if any.
ChangePassword(b, current, p) ==
  LET u == SessionUser(b) IN
  /\ Free(b)
  /\ u # None
  /\ user[u].password = None \/ ReadsPassword(b, u, current)
  /\ Begin(b, [Resting EXCEPT !.pc = "storing", !.email = user[u].email,
                              !.user = u, !.by = p])
  /\ UNCHANGED <<verification, inbox, granted, user, session, browser, shown, errors>>

\* Other requests of the user that hold a password and will open a session.
Underway(u) ==
  {b \in Browsers : asking[b].user = u /\ asking[b].pc \in
     {"protecting", "sweeping", "sweeping again", "signing"}}

\* upsertPasswordAndDeleteSessions: the upsert.  A user that is gone has no
\* password (foreign key).  The replicas have the password of before until they
\* catch up.
StoringIsAll == "signing"
AfterStoring == "sweeping"

\* The foreign key of Password.
OwnedByAnybody(u) == TRUE
Owned(u) == user[u].email # None

StorePassword(b) ==
  LET u == asking[b].user IN
  /\ At(b, "storing")
  /\ IF ~Owned(u)
     THEN /\ Finish(b)
          /\ UNCHANGED <<user, shown>>
     ELSE /\ shown' = [x \in Browsers |-> [shown[x] EXCEPT !.passwords =
               @ \cup ({<<u, user[u].password>>} \cap (Users \X Passwords))]]
          /\ user' = [user EXCEPT ![u].password = asking[b].by, ![u].half = FALSE]
          /\ asking' = [x \in Browsers |->
               IF x = b THEN [asking[x] EXCEPT !.pc = AfterStoring]
               ELSE IF x \in Underway(u) /\ asking[x].by # Passkey
                    THEN [asking[x] EXCEPT !.overlapped = TRUE]
                    ELSE asking[x]]
  /\ UNCHANGED <<verification, inbox, granted, session, browser, errors>>

\* Browsers whose session is deleted are users to a replica that has it.  Where the
\* user is deleted too the foreign keys refuse what they write.
StillShown(gone) ==
  [x \in Browsers |->
     LET s == browser[x].session IN
     IF s \in gone /\ session[s] # None /\ session[s].age # "expired"
     THEN [shown[x] EXCEPT !.user = session[s].user] ELSE shown[x]]

\* Every session of the user, that of the request included.
SweepSessions(b) ==
  /\ At(b, "sweeping") \/ At(b, "sweeping again")
  /\ session' = SessionsWithout({asking[b].user})
  /\ shown' = StillShown({s \in Sessions :
                 session[s] # None /\ session[s].user = asking[b].user})
  /\ Proceed(b, "signing")
  /\ UNCHANGED <<verification, inbox, granted, user, browser, errors>>

\* The deletion is tried twice; after that the request fails with the new
\* password stored and the old sessions open, as it does when it is lost before.
SweepFails(b) ==
  LET u == asking[b].user IN
  /\ Error
  /\ \/ /\ At(b, "sweeping")
        /\ Proceed(b, "sweeping again")
        /\ UNCHANGED session
     \/ /\ At(b, "sweeping") \/ At(b, "sweeping again")
        /\ Finish(b)
        /\ session' = [s \in Sessions |->
             IF session[s] # None /\ session[s].user = u
             THEN [session[s] EXCEPT !.overlapped = TRUE] ELSE session[s]]
  /\ UNCHANGED <<verification, inbox, granted, user, browser, shown>>

-----------------------------------------------------------------------------
(* Sessions.                                                               *)

\* getUserFromSessionId: an expired session is deleted, one in the second half
\* of its year is prolonged in a statement of its own.
UseSession(b) ==
  LET s == browser[b].session IN
  /\ Free(b)
  /\ s # None /\ session[s] # None
  /\ \/ /\ session[s].age = "expired"
        /\ session' = [session EXCEPT ![s] = None]
        /\ UNCHANGED asking
     \/ /\ session[s].age = "old"
        /\ Proceed(b, "renewing")
        /\ UNCHANGED session
  /\ UNCHANGED <<verification, inbox, granted, user, browser, shown, errors>>

RenewSession(b) ==
  LET s == browser[b].session IN
  /\ At(b, "renewing")
  /\ session' = IF session[s] = None THEN session
                ELSE [session EXCEPT ![s].age = "fresh"]
  /\ Finish(b)
  /\ UNCHANGED <<verification, inbox, granted, user, browser, shown, errors>>

\* The answer forgets the cookie; the row is deleted without being waited for.
SignOut(b) ==
  LET s == browser[b].session IN
  /\ Free(b)
  /\ s # None
  /\ browser' = [browser EXCEPT ![b].session = None]
  /\ shown' = [shown EXCEPT ![b].user = None]
  /\ \/ session' = [session EXCEPT ![s] = None] /\ UNCHANGED errors
     \/ Error /\ UNCHANGED session
  /\ UNCHANGED <<verification, inbox, granted, user, asking>>

DeleteOtherSessions(b) ==
  LET own == browser[b].session IN
  /\ Free(b)
  /\ SessionUser(b) # None
  /\ LET others == {s \in Sessions : /\ s # own /\ session[s] # None
                                     /\ session[s].user = SessionUser(b)}
     IN /\ session' = [s \in Sessions |-> IF s \in others THEN None ELSE session[s]]
        /\ shown' = StillShown(others)
  /\ UNCHANGED <<verification, inbox, granted, user, browser, asking, errors>>

\* Deleting the account signs out, then deletes the row with all it owns: one
\* step here, since both only delete.
DeleteAccount(b) ==
  LET u == SessionUser(b) IN
  /\ Free(b)
  /\ u # None
  /\ user' = [user EXCEPT ![u] = NoUser]
  /\ session' = SessionsWithout({u})
  /\ browser' = [browser EXCEPT ![b].session = None]
  /\ shown' = [shown EXCEPT ![b].user = None]
  /\ UNCHANGED <<verification, inbox, granted, asking, errors>>

\* The nightly cron: two statements, both guarded by the time of its start.
DeleteExpired ==
  /\ \/ /\ session' = [s \in Sessions |->
             IF session[s] # None /\ session[s].age = "expired" THEN None ELSE session[s]]
        /\ UNCHANGED verification
     \/ /\ verification' = [c \in Codes |->
             IF verification[c] # None /\ verification[c].expired THEN None
             ELSE verification[c]]
        /\ UNCHANGED session
  /\ UNCHANGED <<inbox, granted, user, browser, asking, shown, errors>>

Older(age) == IF age = "fresh" THEN "old" ELSE "expired"

PassTime ==
  /\ \/ \E c \in Codes :
          /\ Valid(c)
          /\ verification' = [verification EXCEPT ![c].expired = TRUE]
          /\ UNCHANGED session
     \/ \E s \in Sessions :
          /\ session[s] # None /\ session[s].age # "expired"
          /\ session' = [session EXCEPT ![s].age = Older(@)]
          /\ UNCHANGED verification
  /\ UNCHANGED <<inbox, granted, user, browser, asking, shown, errors>>

\* The replicas have every commit.
ReplicasCatchUp ==
  /\ shown' = [b \in Browsers |-> NothingOld]
  /\ UNCHANGED <<verification, inbox, granted, user, session, browser, asking, errors>>

\* A request that is lost between two statements, or whose next statement
\* fails; an account it was creating stays without a password.
LoseRequest(b) ==
  /\ asking[b].pc \in {"mailing", "unmailing", "consuming", "storing", "signing",
                        "protecting", "undoing"}
  /\ Error
  /\ user' = IF asking[b].pc \in {"protecting", "undoing"}
                  /\ user[asking[b].user].email # None
             THEN [user EXCEPT ![asking[b].user].half = user[asking[b].user].password = None]
             ELSE user
  /\ Finish(b)
  /\ UNCHANGED <<verification, inbox, granted, session, browser, shown>>

-----------------------------------------------------------------------------

AccountsInit ==
  /\ verification = [c \in Codes |-> None]
  /\ inbox = {}
  /\ granted = [c \in Codes |-> 0]
  /\ user = [u \in Users |-> NoUser]
  /\ session = [s \in Sessions |-> None]
  /\ browser = [b \in Browsers |-> [signup |-> None, reset |-> None, session |-> None]]
  /\ asking = [b \in Browsers |-> Resting]
  /\ shown = [b \in Browsers |-> NothingOld]
  /\ errors = 0

CodeStep(b) ==
  \/ \E e \in Emails : ForgotPassword(b, e) \/ RequestSignupCode(b, e)
  \/ SendCode(b)
  \/ SendFails(b)
  \/ DeleteUnsent(b)
  \/ \E c \in Codes : Present(b, c)
  \/ Consume(b)
  \/ ConsumedByAnother(b)

SignupStep(b) ==
  \/ \E p \in Passwords : CreateUser(b, p)
  \/ OpenSignup(b)
  \/ Cancel(b)
  \/ CreatePassword(b)
  \/ CreatePasswordFails(b)
  \/ UndoUser(b)

LoginStep(b) ==
  \/ \E e \in Emails, p \in Passwords : Login(b, e, p)
  \/ \E u \in Users : PasskeyLogin(b, u)
  \/ StoreCounter(b)
  \/ SignIn(b)
  \/ SignInFails(b)
  \/ RegisterPasskey(b)
  \/ DeletePasskey(b)

PasswordStep(b) ==
  \/ \E p \in Passwords : ResetPassword(b, p)
  \/ \E current, p \in Passwords : ChangePassword(b, current, p)
  \/ StorePassword(b)
  \/ SweepSessions(b)
  \/ SweepFails(b)

SessionStep(b) ==
  \/ UseSession(b)
  \/ RenewSession(b)
  \/ SignOut(b)
  \/ DeleteOtherSessions(b)
  \/ DeleteAccount(b)

AccountsNext ==
  \/ \E b \in Browsers :
       \/ CodeStep(b)
       \/ SignupStep(b)
       \/ LoginStep(b)
       \/ PasswordStep(b)
       \/ SessionStep(b)
       \/ LoseRequest(b)
  \/ DeleteExpired
  \/ PassTime
  \/ ReplicasCatchUp

AccountsSpec == AccountsInit /\ [][AccountsNext]_accountVars
=============================================================================
