----------------------------- MODULE LiveResearch -----------------------------
(***************************************************************************)
(* A live research run beside the search task that it starts: whatever the *)
(* one does goes with whatever the other does.                             *)
(***************************************************************************)
EXTENDS ResearchPipeline, OfficialSearch

LiveSpec == PipelineSpec /\ SearchSpec

\* A live research run, however its providers fail, hang and answer, stays
\* within what it may cost and completes only with a grounded draft
\* (researchPipeline.ts); and its search, whatever results, links and redirects
\* the web comes up with, asks official pages only, and the right ones
\* (youSearch.ts).
ResearchHolds ==
  /\ ResearchGrounded
  /\ SearchStaysOfficial
===============================================================================
