------------------------- MODULE MCDiagnosticStore -------------------------
(* The store under free callers, with a small set of answers.              *)
EXTENDS DiagnosticStore
=============================================================================
