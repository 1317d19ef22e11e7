----------------------------- MODULE RateLimits -----------------------------
(***************************************************************************)
(* The rate limits of an isolate: of the application for what it asks      *)
(* itself ("app", an LRU cache), of the dynamic worker for its requests    *)
(* ("dynamic") and of the parent worker for pictures and media ("parent",  *)
(* swept when it has grown).  Each counts in a window per key, which opens *)
(* with the first request that finds none.                                 *)
(*                                                                         *)
(* Time goes in ticks; a key is an address with a tier or a bucket.        *)
(***************************************************************************)
EXTENDS Absence, Naturals, FiniteSets

CONSTANTS
  LimitKeys,
  RateLimit,        \* max, or the limit of the tier
  WindowLength,     \* WINDOW_MS, in ticks
  WindowCapacity    \* windows beyond which one is evicted, or the rest are swept

ASSUME LimitsAssumption ==
  /\ RateLimit \in Nat \ {0}
  /\ WindowLength \in Nat \ {0}
  /\ WindowCapacity \in Nat \ {0}

VARIABLES
  limiter,   \* which of the limits
  window,    \* the window of each key, with the ticks until resetAt
  admitted   \* how many requests were granted in each of the last ticks

limitVars == <<limiter, window, admitted>>

\* Beyond the limit, how many were denied tells nothing.
Window == [count : 1..RateLimit + 1, left : 0..WindowLength]
ASSUME NoneWindow == None \notin Window

Ticks == 0..WindowLength - 1
NoneAdmitted == [t \in Ticks |-> 0]

-----------------------------------------------------------------------------

\* existing.resetAt <= now, or no window.
Reopens(key) == window[key] = None \/ window[key].left = 0

\* rateLimit leaves the count alone when it denies; the two others do not.
CountedIn(key) ==
  IF Reopens(key) THEN [count |-> 1, left |-> WindowLength]
  ELSE IF window[key].count > RateLimit \/ (limiter = "app" /\ window[key].count = RateLimit)
       THEN window[key]
  ELSE [window[key] EXCEPT !.count = @ + 1]

Admits(key) == Reopens(key) \/ window[key].count < RateLimit

Over(windows) ==
  Cardinality({k \in LimitKeys : windows[k] # None}) > WindowCapacity

\* What goes when there are too many windows: of the application one entry, the
\* least recently used; of the parent those that are over; of the dynamic worker
\* none.
SweepsAll(windows, key) ==
  IF ~Over(windows) \/ limiter = "dynamic" THEN {{}}
  ELSE {LimitKeys}
Swept(windows, key) ==
  LET rest == {k \in LimitKeys \ {key} : windows[k] # None} IN
  IF ~Over(windows) \/ limiter = "dynamic" THEN {{}}
  ELSE IF limiter = "app" THEN {{k} : k \in rest}
  ELSE {{k \in rest : windows[k].left = 0}}

\* rateLimit, checkRateLimit and checkParentRateLimit.  What was granted to an entry
\* that the LRU cache drops is forgotten with it.
Ask(key) ==
  LET windows == [window EXCEPT ![key] = CountedIn(key)]
      admissions == IF Admits(key) THEN [admitted EXCEPT ![key][0] = @ + 1] ELSE admitted IN
  /\ \E gone \in Swept(windows, key) :
       /\ window' = [k \in LimitKeys |-> IF k \in gone THEN None ELSE windows[k]]
       /\ admitted' = IF limiter = "app"
                     THEN [k \in LimitKeys |-> IF k \in gone THEN NoneAdmitted ELSE admissions[k]]
                     ELSE admissions
  /\ UNCHANGED limiter

LimitsTick ==
  /\ window' = [k \in LimitKeys |->
       IF window[k] = None \/ window[k].left = 0 THEN window[k]
       ELSE [window[k] EXCEPT !.left = @ - 1]]
  /\ admitted' = [k \in LimitKeys |-> [t \in Ticks |-> IF t = 0 THEN 0 ELSE admitted[k][t - 1]]]
  /\ UNCHANGED limiter

LimitsInit ==
  /\ limiter \in {"app", "dynamic", "parent"}
  /\ window = [k \in LimitKeys |-> None]
  /\ admitted = [k \in LimitKeys |-> NoneAdmitted]

LimitsNext ==
  \/ \E key \in LimitKeys : Ask(key)
  \/ LimitsTick

LimitsSpec == LimitsInit /\ [][LimitsNext]_limitVars

-----------------------------------------------------------------------------

\* Every variable holds a value of its kind.
LimitsTypeOK ==
  /\ limiter \in {"app", "dynamic", "parent"}
  /\ window \in [LimitKeys -> Window \cup {None}]
  /\ admitted \in [LimitKeys -> [Ticks -> Nat]]

\* The requests that a history of ticks has granted, each told by its tick and its place
\* in it; more than two limits in one tick are not told apart.
Grants(history) == {g \in Ticks \X (1..2 * RateLimit) : g[2] <= history[g[1]]}

\* "fixed-window rate limiter" (rate-limit.server.ts:21): in no interval as long as
\* a window does a key get more than the rest of one window and the whole of the
\* next, whatever is swept and asked beside it, as long as its own entry is kept.
LimitsHold == \A key \in LimitKeys : Cardinality(Grants(admitted[key])) <= 2 * RateLimit - 1
=============================================================================
