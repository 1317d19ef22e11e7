------------------------------- MODULE AppCache -------------------------------
(***************************************************************************)
(* The application cache, for one key with a finite life: cachified in the *)
(* application, the LRU of its isolate, the LRU of the parent worker, and  *)
(* two entries of KV, one for the value and one for its metadata, which an *)
(* edge keeps for a minute each.                                           *)
(*                                                                         *)
(* A value is its age, in ticks since it was loaded; metadata is the age   *)
(* of its createdTime.  The two belong together when the ages agree.  The  *)
(* LRUs of an isolate and of its parent hold the same entry, or one of     *)
(* them none, and answer alike: they are one here.                         *)
(***************************************************************************)
EXTENDS Absence, Naturals, FiniteSets

CONSTANTS
  Apps,     \* pairs of an application isolate and its parent, on one edge
  TotalTtl,     \* ttl plus staleWhileRevalidate, in ticks
  MaxAgeSeen,   \* bound on ages, beyond any the property allows
  MaxSlips      \* bound on puts that fail

EdgeTtl == 1    \* KV_EDGE_CACHE_TTL_SECONDS: at most a tick

ASSUME TtlAssumption ==
  /\ TotalTtl \in Nat \ {0}
  /\ MaxAgeSeen \in Nat /\ MaxAgeSeen > 2 * TotalTtl + EdgeTtl

ASSUME SlipsAssumption == MaxSlips \in Nat

VARIABLES
  kv,      \* the entries of KV under their prefixes
  edge,    \* what the edge of each isolate keeps of them
  lru,     \* the LRUs of each isolate and its parent
  load,    \* the puts of the fresh value each isolate is storing (Promise.all)
  slips    \* failed puts so far

cacheVars == <<kv, edge, lru, load, slips>>

Ages == 0..MaxAgeSeen
Halves == {"value", "metadata"}

\* A KV entry: the age of what it holds, and of the put that expires it.
Stored == [made : Ages, put : Ages]

\* cachified's entry: decodeCacheEntry of what was read.
CacheEntry == [value : Ages, metadata : Ages]

Nothing == [h \in Halves |-> None]
Young == [value |-> 0, metadata |-> 0]

\* An LRU drops an entry by the metadata it came with.
Alive(e) == e # None /\ e.metadata < TotalTtl

-----------------------------------------------------------------------------

\* decodeCacheEntry takes an entry that has both halves.
Found(entry) == entry.value # None /\ entry.metadata # None

\* cache.get after both LRUs, and CacheRpc.get: one half of an entry comes from
\* the edge, or else from KV, and the edge keeps it from then on.  (That an edge
\* also remembers an absence only makes a reader load.)
Half(i, h) == IF edge[i][h] # None THEN edge[i][h].made
              ELSE IF kv[h] # None THEN kv[h].made ELSE None

ReadKv(i) ==
  /\ lru[i] = None
  /\ edge' = [edge EXCEPT ![i] = [h \in Halves |->
       IF @[h] # None THEN @[h]
       ELSE IF kv[h] = None THEN None ELSE [made |-> kv[h].made, put |-> 0]]]
  /\ LET entry == [value |-> Half(i, "value"), metadata |-> Half(i, "metadata")]
         found == Found(entry) /\ Alive(entry)
     IN lru' = [lru EXCEPT ![i] = IF found THEN entry ELSE None]
  /\ UNCHANGED <<kv, load, slips>>

\* cachified asks for a fresh value when there is none, when the one there is
\* is stale (in the background), or when it is forced to.  A load that fails
\* changes nothing; after one that succeeds cache.set and CacheRpc.set put the
\* entry into both LRUs, then into KV.
StoreFresh(i) ==
  /\ load[i] = {}
  /\ lru' = [lru EXCEPT ![i] = Young]
  /\ load' = [load EXCEPT ![i] = Halves]
  /\ UNCHANGED <<kv, edge, slips>>

Put(i, h) ==
  /\ h \in load[i]
  /\ kv' = [kv EXCEPT ![h] = [made |-> 0, put |-> 0]]
  /\ load' = [load EXCEPT ![i] = @ \ {h}]
  /\ UNCHANGED <<edge, lru, slips>>

PutFails(i, h) ==
  /\ h \in load[i]
  /\ slips < MaxSlips /\ slips' = slips + 1
  /\ load' = [load EXCEPT ![i] = @ \ {h}]
  /\ UNCHANGED <<kv, edge, lru>>

\* cache.delete: the two LRUs it passes and both entries of KV; one that is
\* deleted first is the same as both with a reader in between.
Delete(i) ==
  /\ lru' = [lru EXCEPT ![i] = None]
  /\ \E halves \in {{h} : h \in Halves} \cup {Halves} :
       kv' = [h \in Halves |-> IF h \in halves THEN None ELSE kv[h]]
  /\ UNCHANGED <<edge, load, slips>>

\* The entry limits of the LRUs, or a new isolate.
EvictLru(i) ==
  /\ lru' = [lru EXCEPT ![i] = None]
  /\ UNCHANGED <<kv, edge, load, slips>>

-----------------------------------------------------------------------------
(* Time.  A load with its puts ends within a tick.                         *)

Aged(n) == IF n < MaxAgeSeen THEN n + 1 ELSE n
AgedEntry(e) ==
  LET o == [value |-> Aged(e.value), metadata |-> Aged(e.metadata)] IN
  IF Alive(o) THEN o ELSE None

\* expirationTtl of getKvExpirationTtl counts from the put.
ExpiresNever(s) == FALSE
Expires(s) == s.put + 1 >= TotalTtl

CacheTick ==
  /\ \A i \in Apps : load[i] = {}
  /\ kv' = [h \in Halves |->
       IF kv[h] = None \/ Expires(kv[h]) THEN None
       ELSE [made |-> Aged(kv[h].made), put |-> Aged(kv[h].put)]]
  /\ edge' = [i \in Apps |-> [h \in Halves |->
       IF edge[i][h] = None \/ edge[i][h].put + 1 > EdgeTtl THEN None
       ELSE [made |-> Aged(edge[i][h].made), put |-> edge[i][h].put + 1]]]
  /\ lru' = [i \in Apps |-> IF lru[i] = None THEN None ELSE AgedEntry(lru[i])]
  /\ UNCHANGED <<load, slips>>

-----------------------------------------------------------------------------

CacheInit ==
  /\ kv = Nothing
  /\ edge = [i \in Apps |-> Nothing]
  /\ lru = [i \in Apps |-> None]
  /\ load = [i \in Apps |-> {}]
  /\ slips = 0

CacheNext ==
  \/ \E i \in Apps :
       \/ ReadKv(i)
       \/ StoreFresh(i)
       \/ \E h \in Halves : Put(i, h) \/ PutFails(i, h)
       \/ Delete(i)
       \/ EvictLru(i)
  \/ CacheTick

CacheSpec == CacheInit /\ [][CacheNext]_cacheVars

-----------------------------------------------------------------------------
(* What the cache must guarantee.                                         *)

\* Every variable holds a value of its kind.
CacheTypeOK ==
  /\ kv \in [Halves -> Stored \cup {None}]
  /\ edge \in [Apps -> [Halves -> Stored \cup {None}]]
  /\ lru \in [Apps -> CacheEntry \cup {None}]
  /\ load \in [Apps -> SUBSET Halves]
  /\ slips \in 0..MaxSlips

\* A value that gets the metadata of a younger one, from another writer,
\* from a put that failed or from an edge that kept one of the two, is not
\* renewed again and again: no isolate answers with a value
\* older than two lives and a minute, whatever overlaps and fails.
OldValuesGo ==
  \A i \in Apps :
    lru[i] # None => lru[i].value < 2 * TotalTtl + EdgeTtl
=============================================================================
