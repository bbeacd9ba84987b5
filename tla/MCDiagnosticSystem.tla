------------------------- MODULE MCDiagnosticSystem -------------------------
(* The service with a small set of answers, requests, runs and attempts.   *)
EXTENDS DiagnosticSystem, TLC

\* Answers and requests are interchangeable; used where only safety is checked.
Symmetry == Permutations(Turns) \cup Permutations(Requests)
=============================================================================
