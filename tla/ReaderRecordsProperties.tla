----------------------- MODULE ReaderRecordsProperties -----------------------
EXTENDS ReaderRecords

\* Every variable holds a value of its kind; completions that were read are
\* copied before anything is deleted.
RecordsTypeOK ==
  /\ kept \in [Owners -> SUBSET Items]
  /\ cookie \in [client : Clients \cup {None}, signedIn : BOOLEAN]
  /\ tab \in [Tabs -> Tab]
  /\ \A t \in Tabs : tab[t].left # {} => tab[t].pc = "copying"
  /\ wanted \subseteq Items
  /\ excused \subseteq Items /\ untracked \subseteq Posts
  /\ signIns \in 0..MaxSignIns
  /\ troubles \in 0..MaxTroubles

\* An item is the user's, or belongs to the client id of the cookie, or to one
\* that an answer under way will bring.
Followed(i) ==
  \/ i \in kept[Me]
  \/ \E c \in Clients : i \in kept[c] /\
       (cookie.client = c \/ \E t \in Tabs : tab[t].owner = c /\ tab[t].pc # "idle")

\* Homework done and posts read are not lost by signing in, whatever the ways
\* in and out and whichever statement fails.  Not so what was done beside a
\* sign-in, or beside the first request of a device, or before a login whose
\* move failed, or what was read by a device without a client cookie.
NothingDoneIsLost == \A i \in wanted \ (excused \cup untracked) : Followed(i)
=============================================================================
