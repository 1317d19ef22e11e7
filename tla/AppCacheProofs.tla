---------------------------- MODULE AppCacheProofs ----------------------------
(***************************************************************************)
(* The types of the application cache, and the bound on the age of what it *)
(* answers with, for any isolates, lives and failures.                     *)
(***************************************************************************)
EXTENDS AppCache, TLAPS

-----------------------------------------------------------------------------
(* The inductive invariant: every copy is older by the life it has had,    *)
(* and by no more than what its source could have had.                     *)

\* What KV holds runs out by its own put.
StoredFits(s) == s # None => s \in Stored /\ s.made = s.put /\ s.put < TotalTtl

\* An edge adds at most its own minute.
KeptFits(s) ==
  s # None => s \in Stored /\ s.put <= EdgeTtl /\ s.made < TotalTtl + s.put

\* The metadata of an entry may be younger than its value, by a life.
EntryFits(e) ==
  e # None => e \in CacheEntry /\ e.metadata < TotalTtl
              /\ e.value <= e.metadata + TotalTtl + EdgeTtl

KvFits == kv \in [Halves -> Stored \cup {None}] /\ \A h \in Halves : StoredFits(kv[h])

EdgesFit ==
  /\ edge \in [Apps -> [Halves -> Stored \cup {None}]]
  /\ \A i \in Apps, h \in Halves : KeptFits(edge[i][h])

LrusFit ==
  /\ lru \in [Apps -> CacheEntry \cup {None}]
  /\ \A i \in Apps : EntryFits(lru[i])

LoadsFit == load \in [Apps -> SUBSET Halves] /\ slips \in 0..MaxSlips

CacheInv == KvFits /\ EdgesFit /\ LrusFit /\ LoadsFit

-----------------------------------------------------------------------------
(* Time.                                                                   *)

LEMMA AgesGrow ==
  ASSUME NEW n \in Ages
  PROVE  Aged(n) \in Ages /\ (n < 2 * TotalTtl + EdgeTtl => Aged(n) = n + 1)
         /\ Aged(n) <= n + 1
BY TtlAssumption DEF Aged, Ages, EdgeTtl

LEMMA StoredAges ==
  ASSUME NEW s \in Stored, StoredFits(s), s # None, ~Expires(s)
  PROVE  LET o == [made |-> Aged(s.made), put |-> Aged(s.put)]
         IN o \in Stored /\ o.made = o.put /\ o.put < TotalTtl
<1>1. s.made \in Ages /\ s.put \in Ages /\ s.made = s.put /\ s.put + 1 < TotalTtl
  BY TtlAssumption DEF Stored, StoredFits, Expires, Ages
<1>2. Aged(s.put) = s.put + 1 /\ Aged(s.put) \in Ages
  BY <1>1, AgesGrow, TtlAssumption DEF EdgeTtl, Ages
<1> QED
  BY <1>1, <1>2 DEF Stored

LEMMA KeptAges ==
  ASSUME NEW s \in Stored, KeptFits(s), s # None, ~(s.put + 1 > EdgeTtl)
  PROVE  LET o == [made |-> Aged(s.made), put |-> s.put + 1]
         IN o \in Stored /\ o.put <= EdgeTtl /\ o.made < TotalTtl + o.put
<1>1. s.made \in Ages /\ s.put \in Ages /\ s.put + 1 <= EdgeTtl /\ s.made < TotalTtl + s.put
  BY DEF Stored, KeptFits, EdgeTtl, Ages
<1>2. Aged(s.made) = s.made + 1 /\ Aged(s.made) \in Ages
  BY <1>1, AgesGrow, TtlAssumption DEF EdgeTtl, Ages
<1>3. s.put + 1 \in Ages
  BY <1>1, TtlAssumption DEF EdgeTtl, Ages
<1> QED
  BY <1>1, <1>2, <1>3, TtlAssumption DEF Stored, Ages

LEMMA EntryAgesFit ==
  ASSUME NEW e \in CacheEntry, EntryFits(e), e # None
  PROVE  AgedEntry(e) \in CacheEntry \cup {None} /\ EntryFits(AgedEntry(e))
<1> DEFINE o == [value |-> Aged(e.value), metadata |-> Aged(e.metadata)]
<1>1. e.value \in Ages /\ e.metadata \in Ages /\ e.metadata < TotalTtl
      /\ e.value <= e.metadata + TotalTtl + EdgeTtl
  BY DEF CacheEntry, EntryFits
<1>2. Aged(e.metadata) = e.metadata + 1 /\ Aged(e.metadata) \in Ages
      /\ Aged(e.value) \in Ages /\ Aged(e.value) <= e.value + 1
  BY <1>1, AgesGrow, TtlAssumption DEF EdgeTtl, Ages
<1>3. o \in CacheEntry /\ o.value <= o.metadata + TotalTtl + EdgeTtl
  BY <1>1, <1>2, TtlAssumption DEF CacheEntry, EdgeTtl, Ages
<1>4. AgedEntry(e) = IF Alive(o) THEN o ELSE None
  BY DEF AgedEntry
<1> HIDE DEF o
<1> QED
  BY <1>3, <1>4 DEF EntryFits, Alive

-----------------------------------------------------------------------------
(* Operations.                                                             *)

LEMMA CacheInitFits == CacheInit => CacheInv
BY SlipsAssumption
DEF CacheInit, CacheInv, KvFits, EdgesFit, LrusFit, LoadsFit, Nothing, StoredFits, KeptFits,
    EntryFits

LEMMA YoungFits == Young \in CacheEntry /\ EntryFits(Young)
BY TtlAssumption DEF Young, CacheEntry, EntryFits, Ages, EdgeTtl

LEMMA NewPutFits ==
  LET s == [made |-> 0, put |-> 0] IN s \in Stored /\ StoredFits(s)
BY TtlAssumption DEF Stored, StoredFits, Ages

\* A half comes from an edge or from KV, and is younger than a life and a minute.
LEMMA HalfFits ==
  ASSUME CacheInv, NEW i \in Apps, NEW h \in Halves, Half(i, h) # None
  PROVE  Half(i, h) \in Ages /\ Half(i, h) <= TotalTtl + EdgeTtl
<1>1. CASE edge[i][h] # None
  <2>1. edge[i][h] \in Stored /\ KeptFits(edge[i][h])
    BY <1>1 DEF CacheInv, EdgesFit
  <2> QED
    BY <1>1, <2>1, TtlAssumption DEF Half, KeptFits, Stored, EdgeTtl, Ages
<1>2. CASE edge[i][h] = None
  <2>1. kv[h] # None
    BY <1>2 DEF Half
  <2>2. kv[h] \in Stored /\ StoredFits(kv[h])
    BY <2>1 DEF CacheInv, KvFits
  <2> QED
    BY <1>2, <2>1, <2>2, TtlAssumption DEF Half, StoredFits, Stored, EdgeTtl, Ages
<1> QED
  BY <1>1, <1>2

LEMMA ReadKvFits ==
  ASSUME CacheInv, NEW i \in Apps, ReadKv(i)
  PROVE  CacheInv'
<1> DEFINE entry == [value |-> Half(i, "value"), metadata |-> Half(i, "metadata")]
           found == Found(entry) /\ Alive(entry)
<1>1. ASSUME NEW h \in Halves, edge[i][h] = None, kv[h] # None
      PROVE  LET s == [made |-> kv[h].made, put |-> 0] IN s \in Stored /\ KeptFits(s)
  <2>1. kv[h] \in Stored /\ StoredFits(kv[h])
    BY <1>1 DEF CacheInv, KvFits
  <2> QED
    BY <1>1, <2>1, TtlAssumption DEF Stored, StoredFits, KeptFits, EdgeTtl, Ages
<1>2. EdgesFit'
  BY <1>1 DEF ReadKv, CacheInv, EdgesFit, KeptFits
<1>3. ASSUME found PROVE entry \in CacheEntry /\ EntryFits(entry)
  <2>1. Half(i, "value") # None /\ Half(i, "metadata") # None
    BY <1>3 DEF Found
  <2>2. /\ Half(i, "value") \in Ages /\ Half(i, "value") <= TotalTtl + EdgeTtl
        /\ Half(i, "metadata") \in Ages
    BY <2>1, HalfFits DEF Halves
  <2>3. Half(i, "metadata") < TotalTtl
    BY <1>3 DEF Alive
  <2> QED
    BY <2>2, <2>3, TtlAssumption DEF CacheEntry, EntryFits, EdgeTtl, Ages
<1>4. LrusFit'
  <2>1. lru' = [lru EXCEPT ![i] = IF found THEN entry ELSE None]
    BY DEF ReadKv
  <2> HIDE DEF found, entry
  <2> QED
    BY <1>3, <2>1 DEF CacheInv, LrusFit, EntryFits
<1> QED
  BY <1>2, <1>4 DEF ReadKv, CacheInv, KvFits, LoadsFit

LEMMA StoreFreshFits ==
  ASSUME CacheInv, NEW i \in Apps, StoreFresh(i)
  PROVE  CacheInv'
<1>1. LrusFit'
  BY YoungFits DEF StoreFresh, CacheInv, LrusFit
<1> QED
  BY <1>1 DEF StoreFresh, CacheInv, KvFits, EdgesFit, LoadsFit

LEMMA PutFits ==
  ASSUME CacheInv, NEW i \in Apps, NEW h \in Halves, Put(i, h)
  PROVE  CacheInv'
<1>1. KvFits'
  BY NewPutFits DEF Put, CacheInv, KvFits
<1> QED
  BY <1>1 DEF Put, CacheInv, EdgesFit, LrusFit, LoadsFit

LEMMA PutFailsFits ==
  ASSUME CacheInv, NEW i \in Apps, NEW h \in Halves, PutFails(i, h)
  PROVE  CacheInv'
<1>1. LoadsFit'
  BY SlipsAssumption DEF PutFails, CacheInv, LoadsFit
<1> QED
  BY <1>1 DEF PutFails, CacheInv, KvFits, EdgesFit, LrusFit

LEMMA DeleteFits ==
  ASSUME CacheInv, NEW i \in Apps, Delete(i)
  PROVE  CacheInv'
<1>1. KvFits'
  BY DEF Delete, CacheInv, KvFits, StoredFits
<1>2. LrusFit'
  BY DEF Delete, CacheInv, LrusFit, EntryFits
<1> QED
  BY <1>1, <1>2 DEF Delete, CacheInv, EdgesFit, LoadsFit

LEMMA EvictLruFits ==
  ASSUME CacheInv, NEW i \in Apps, EvictLru(i)
  PROVE  CacheInv'
<1>1. LrusFit'
  BY DEF EvictLru, CacheInv, LrusFit, EntryFits
<1> QED
  BY <1>1 DEF EvictLru, CacheInv, KvFits, EdgesFit, LoadsFit

LEMMA CacheTickFits ==
  ASSUME CacheInv, CacheTick
  PROVE  CacheInv'
<1>1. KvFits'
  <2> DEFINE next(h) == IF kv[h] = None \/ Expires(kv[h]) THEN None
                        ELSE [made |-> Aged(kv[h].made), put |-> Aged(kv[h].put)]
  <2>1. ASSUME NEW h \in Halves PROVE next(h) \in Stored \cup {None} /\ StoredFits(next(h))
    BY StoredAges DEF CacheInv, KvFits, StoredFits
  <2>2. kv' = [h \in Halves |-> next(h)]
    BY DEF CacheTick
  <2> HIDE DEF next
  <2> QED
    BY <2>1, <2>2 DEF KvFits
<1>2. EdgesFit'
  <2> DEFINE next(i, h) == IF edge[i][h] = None \/ edge[i][h].put + 1 > EdgeTtl THEN None
                           ELSE [made |-> Aged(edge[i][h].made), put |-> edge[i][h].put + 1]
  <2>1. ASSUME NEW i \in Apps, NEW h \in Halves
        PROVE  next(i, h) \in Stored \cup {None} /\ KeptFits(next(i, h))
    BY KeptAges DEF CacheInv, EdgesFit, KeptFits
  <2>2. edge' = [i \in Apps |-> [h \in Halves |-> next(i, h)]]
    BY DEF CacheTick
  <2> HIDE DEF next
  <2> QED
    BY <2>1, <2>2 DEF EdgesFit
<1>3. LrusFit'
  <2> DEFINE next(i) == IF lru[i] = None THEN None ELSE AgedEntry(lru[i])
  <2>1. ASSUME NEW i \in Apps PROVE next(i) \in CacheEntry \cup {None} /\ EntryFits(next(i))
    <3>1. lru[i] # None => lru[i] \in CacheEntry /\ EntryFits(lru[i])
      BY DEF CacheInv, LrusFit
    <3> QED
      BY <3>1, EntryAgesFit DEF EntryFits
  <2>2. lru' = [i \in Apps |-> next(i)]
    BY DEF CacheTick
  <2> HIDE DEF next
  <2> QED
    BY <2>1, <2>2 DEF LrusFit
<1> QED
  BY <1>1, <1>2, <1>3 DEF CacheTick, CacheInv, LoadsFit

-----------------------------------------------------------------------------

LEMMA CacheStepFits == CacheInv /\ [CacheNext]_cacheVars => CacheInv'
<1> SUFFICES ASSUME CacheInv, [CacheNext]_cacheVars PROVE CacheInv'
  OBVIOUS
<1>1. CASE CacheNext
  BY <1>1, ReadKvFits, StoreFreshFits, PutFits, PutFailsFits, DeleteFits, EvictLruFits,
     CacheTickFits
  DEF CacheNext
<1>2. CASE UNCHANGED cacheVars
  BY <1>2 DEF cacheVars, CacheInv, KvFits, EdgesFit, LrusFit, LoadsFit
<1> QED
  BY <1>1, <1>2

LEMMA CacheInvariant == CacheSpec => []CacheInv
<1> QED
  BY CacheInitFits, CacheStepFits, PTL DEF CacheSpec

\* Every variable of the application cache keeps its type.
THEOREM CacheTypeCorrect == CacheSpec => []CacheTypeOK
<1>1. CacheInv => CacheTypeOK
  BY DEF CacheInv, CacheTypeOK, KvFits, EdgesFit, LrusFit, LoadsFit
<1> QED
  BY <1>1, CacheInvariant, PTL

\* No isolate answers with a value older than two lives and a minute, for any
\* number of isolates, any life and any puts that fail.
THEOREM AgeCorrect == CacheSpec => []OldValuesGo
<1>1. CacheInv => OldValuesGo
  BY TtlAssumption DEF CacheInv, LrusFit, EntryFits, CacheEntry, Ages, EdgeTtl, OldValuesGo
<1> QED
  BY <1>1, CacheInvariant, PTL
=============================================================================
