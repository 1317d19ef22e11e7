-------------------------- MODULE MCCallKentEpisode --------------------------
EXTENDS CallKentEpisodeProperties, TLC

Symmetry ==
  Permutations(Drafts) \cup Permutations(Admins) \cup Permutations(Consumers)
    \cup Permutations(Episodes)
=============================================================================
