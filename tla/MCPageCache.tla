------------------------------ MODULE MCPageCache ------------------------------
EXTENDS PageCacheProperties, FiniteSets, TLC

Symmetry ==
  Permutations(Isolates) \cup Permutations(Requests) \cup Permutations(Publishers)

\* Bounds of the runs: one generation has an entry, one fill is in flight.
OnePage ==
  /\ Cardinality({g \in Generations : entry[g] # None}) <= 1
  /\ Cardinality({f \in Isolates \X Generations : filling[f[1]][f[2]] # None}) <= 1

\* A version has just been published: the isolates may still have, or read, what
\* was there before, and the page may have been stored from it.
QuietInit ==
  /\ version = 1 /\ generation = 1
  /\ readable \in [manifest : {{1}, {0, 1}}, generation : {{1}, {0, 1}}]
  /\ opened = [g \in Generations |-> g]
  /\ \E e \in {None} \cup [page : {[version |-> 0, by |-> "nobody", current |-> FALSE]},
                           stale : BOOLEAN] :
       entry = [g \in Generations |-> IF g = 1 THEN e ELSE None]
  /\ memory \in [Isolates -> Memory]
  /\ filling = [i \in Isolates |-> [g \in Generations |-> None]]
  /\ request = [r \in Requests |-> NoRequest]
  /\ publisher = [p \in Publishers |-> NoPublisher]
  /\ faults = 0

\* Nobody publishes any more.
QuietNext ==
  \/ \E r \in Requests : RequestStep(r) \/ StoreFails(r)
  \/ \E i \in Isolates : IsolateStep(i)
  \/ \E g \in Generations : EntryAges(g) \/ EntryExpires(g)
  \/ Propagate

QuietSpec == QuietInit /\ [][QuietNext]_vars /\ Fairness
=============================================================================
