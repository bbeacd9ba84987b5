-------------------------- MODULE MCResearchClaims --------------------------
(* Shared research with few handlers, spellings and attempts.              *)
EXTENDS ResearchClaims, TLC

\* Handlers and spellings are interchangeable.
Symmetry ==
  Permutations(Requests) \cup Permutations(Polls) \cup Permutations(Platforms)
=============================================================================
