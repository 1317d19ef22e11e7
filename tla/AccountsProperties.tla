------------------------- MODULE AccountsProperties -------------------------
(***************************************************************************)
(* What the accounts of the site must guarantee.                           *)
(***************************************************************************)
EXTENDS Accounts

\* Every variable holds a value of its kind, and nobody owns no password.
AccountsTypeOK ==
  /\ verification \in [Codes -> VerificationRow \cup {None}]
  /\ inbox \subseteq Codes
  /\ granted \in [Codes -> Nat]
  /\ user \in [Users -> UserRow]
  /\ \A u \in Users : user[u].email = None => user[u] = NoUser
  /\ session \in [Sessions -> SessionRow \cup {None}]
  /\ browser \in [Browsers -> Cookies]
  /\ asking \in [Browsers -> Asking]
  /\ shown \in [Browsers -> Shown]
  /\ errors \in 0..MaxErrors

\* A mailed code is good for one request, although several may have found and
\* compared it before the first deletes it, and the cleanup may delete it too.
CodesGrantOnce == \A c \in Codes : granted[c] <= 1

\* No session outlives the password it was opened with ("sign out everywhere on
\* password reset after storing the new password"), whether the password
\* was reset or changed, but for three: one whose request had verified the old
\* password when the new one was stored, one whose request began later and had the
\* old password verified by a replica that lagged, the browser having no bookmark of
\* the change, and one whose deletion failed twice.
SessionsFitThePassword ==
  \A s \in Sessions :
    session[s] # None /\ session[s].by # Passkey /\ ~session[s].overlapped =>
      \/ session[s].by = user[session[s].user].password
      \/ \E b \in Browsers : asking[b].user = session[s].user
           /\ asking[b].pc \in {"sweeping", "sweeping again"}

\* "the email isn't left claimed by a password-less account": an account without
\* a password has its signup under way, or that request was lost.
AccountsHavePasswords ==
  \A u \in Users :
    user[u].email # None /\ user[u].password = None /\ ~user[u].half =>
      \E b \in Browsers :
        asking[b].user = u /\ asking[b].pc \in {"protecting", "undoing"}
=============================================================================
