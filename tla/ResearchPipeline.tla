--------------------------- MODULE ResearchPipeline ---------------------------
(***************************************************************************)
(* One live research run: runResearchPipeline (core/researchPipeline.ts)   *)
(* as the task researchPlatform runs it (workflows/research.ts), with its  *)
(* two subtasks: the search for official pages (adapters/youSearch.ts) and *)
(* the reconstruction of a record (adapters/openRouter.ts), which asks the *)
(* model at most twice.  Subtasks retry after transient failures; every    *)
(* attempt is fast or takes the whole time it is allowed.                  *)
(***************************************************************************)
EXTENDS JourneyGraph

CONSTANTS Findings,     \* page lists the search may come back with
          Answers,      \* what the model may answer
          MaxFound      \* MAX_EVIDENCE_PAGES

\* Seconds, and the waits before the second and later attempts.
SearchTimeout == 90
SearchWaits == <<2, 4>>
CallTimeout == 90
ReconstructWaits == <<5>>
ParentTimeout == 600
MaxCalls == 2           \* MAX_ATTEMPTS of one reconstruction

ASSUME PageLists ==
  \A found \in Findings : found \in Seq(ToSet(found)) /\ Len(found) <= MaxFound

VARIABLES
  phase, outcome,
  request,   \* what was asked: whether its slug and its identity are published
  attempt,   \* attempts of the subtask under way
  call,      \* model calls of this attempt of the reconstruction
  docs,      \* the pages the search found
  record,    \* the record that was reconstructed
  clock,     \* seconds since the parent task began
  searches, calls  \* what the run has paid for

pipelineVars == <<phase, outcome, request, attempt, call, docs, record, clock, searches, calls>>
------------------------------------------------------------------------------
NoRecord == [slug |-> "none"]
NotJson == [slug |-> "not JSON"]

\* A step that ends d seconds later, unless the parent is stopped before.
Elapse(d, to) ==
  IF clock + d > ParentTimeout
  THEN clock' = ParentTimeout /\ phase' = "stopped"
  ELSE clock' = clock + d /\ phase' = to

Return(o) == outcome' = o /\ phase' = "returned" /\ UNCHANGED clock

known == request.slugPublished
------------------------------------------------------------------------------
(* Pages                                                                   *)

\* sourceCanSupportClaims of an official page; the search keeps no other.
usable(found) == Among(found, {d \in ToSet(found) : d.hasContent})

\* Pages that quote the claims of the route.
quoting(pages) == {k \in DOMAIN pages : pages[k].quotes}

\* The page that quotes best; 0 if none does.
bestPages == IF quoting(docs) = {} THEN {0} ELSE quoting(docs)

\* Sources the record lists: one for every page, numbered in their order.
sourceIds(pages) == DOMAIN pages
------------------------------------------------------------------------------
(* normalizeTrustedRecordFields and normalizeLiteralEvidenceLocators       *)

declaredSelected(g) ==
  IF g.routeId = "none" THEN g
  ELSE [g EXCEPT !.candidates = SelectSeq(@, LAMBDA c : c.id = g.routeId /\ c.status = "selected")]

\* The boundary of the route becomes a terminal: the first node of that id.
terminalMarked(g) ==
  LET here == {k \in DOMAIN g.nodes : g.nodes[k].id = g.success.node}
  IN  IF g.route = <<>> \/ g.success.node # Last(g.route) \/ here = {} THEN g
      ELSE [g EXCEPT !.nodes[Min(here)].kind = "terminal_outcome", !.nodes[Min(here)].signal = TRUE]

evidenceOf(g, id) == IF id \in ids(g) THEN node(g, id).evidence ELSE {}

\* Transitions the model left out take over the evidence of where they lead.
edgesCompleted(g) ==
  LET r == g.route
      gaps == {k \in 1..(Len(r) - 1) : ~joined(g, r[k], r[k + 1])}
      firsts == {k \in gaps : \A j \in gaps : j < k => <<r[j], r[j + 1]>> # <<r[k], r[k + 1]>>}
      Filled(k) == [from |-> r[k], to |-> r[k + 1],
                    evidence |-> IF evidenceOf(g, r[k + 1]) # {} THEN evidenceOf(g, r[k + 1])
                                 ELSE evidenceOf(g, r[k])]
      order == SetToSortSeq(firsts, <)
  IN  [g EXCEPT !.edges = @ \o [i \in DOMAIN order |-> Filled(order[i])]]

\* Items are moved to a page that quotes the claim, if there is one.
moved(e, best) == IF e = {} \/ best = 0 THEN e ELSE {best}

relocated(g, best) ==
  LET At(x) == [x EXCEPT !.evidence = moved(@, best)]
      Node(n) == [At(n) EXCEPT !.fields = {moved(e, best) : e \in @},
                               !.failures = {moved(e, best) : e \in @},
                               !.options = {At(o) : o \in @}]
      All(s) == [k \in DOMAIN s |-> At(s[k])]
  IN  [g EXCEPT !.nodes = [k \in DOMAIN g.nodes |-> Node(g.nodes[k])],
                !.edges = All(@), !.candidates = All(@), !.success = At(@),
                !.prerequisites = {At(p) : p \in @}, !.gates = {At(x) : x \in @}]

normalized(a, best) ==
  IF a = NotJson THEN a ELSE [a EXCEPT !.graph = relocated(edgesCompleted(terminalMarked(declaredSelected(@))), best)]
------------------------------------------------------------------------------
(* Checks of a record                                                      *)

graphFindings(rec) ==
  draftBlockingJourneyFindings(validateJourneyGraph(rec.graph))
    \cup when(rec.graph.platform # rec.slug, "platform_slug_mismatch")

\* materializeResearchDraftRoute and the schema.
acceptable(rec) == rec # NotJson /\ rec.schemaValid /\ graphFindings(rec) = {}

citations(g) ==
  (UNION {n.evidence \cup (UNION n.fields) \cup (UNION n.failures)
            \cup UNION {o.evidence : o \in n.options} : n \in ToSet(g.nodes)})
  \cup (UNION {x.evidence : x \in g.prerequisites \cup g.gates})
  \cup (UNION {x.evidence : x \in ToSet(g.edges)})
  \cup (UNION {x.evidence : x \in ToSet(g.candidates)})
  \cup g.success.evidence

\* Only the steps of the route are looked at.
groundedSteps(rec, pages) ==
  UNION {n.evidence : n \in ToSet(route(rec.graph))} \subseteq sourceIds(pages)

\* validateSourceGrounding without literal locators.
grounded(rec, pages) == citations(rec.graph) \subseteq sourceIds(pages)
------------------------------------------------------------------------------
(* The run                                                                 *)

PipelineInit ==
  /\ phase = "begin" /\ outcome = "none"
  /\ request \in [slugPublished : BOOLEAN, identities : 0..2, identityPublished : BOOLEAN]
  /\ request.slugPublished => request.identities = 1 /\ request.identityPublished
  /\ request.identityPublished => request.identities = 1
  /\ attempt = 0 /\ call = 0 /\ docs = <<>> /\ record = NoRecord
  /\ clock = 0 /\ searches = 0 /\ calls = 0

Begin ==
  /\ phase = "begin"
  /\ \/ known /\ Return("known")
     \/ ~known /\ request.identities = 2 /\ Return("identity_ambiguous")
     \/ ~known /\ request.identities = 0 /\ Return("identity_unresolved")
     \/ ~known /\ request.identities = 1 /\ phase' = "search" /\ UNCHANGED <<outcome, clock>>
  /\ attempt' = 1
  /\ UNCHANGED <<request, call, docs, record, searches, calls>>

Paid == UNCHANGED <<request, call, record, calls>> /\ searches' = searches + 1

SearchReturns ==
  /\ phase = "search"
  /\ \E found \in Findings, d \in {1, SearchTimeout} :
       docs' = found /\ Elapse(d, "choose")
  /\ UNCHANGED <<outcome, attempt>> /\ Paid

\* A page that cannot be fetched fails the whole search.
SearchFails ==
  /\ phase = "search"
  /\ \E d \in {1, SearchTimeout} :
       IF attempt <= Len(SearchWaits)
       THEN Elapse(d + SearchWaits[attempt], "search") /\ attempt' = attempt + 1
       ELSE Elapse(d, "search_failed") /\ UNCHANGED attempt
  /\ UNCHANGED <<outcome, docs>> /\ Paid

ChoosePages ==
  /\ phase = "choose"
  /\ \/ docs = <<>> /\ Return("no_official_source")
     \/ docs # <<>> /\ usable(docs) = <<>> /\ Return("official_source_unusable")
     \/ usable(docs) # <<>> /\ phase' = "ask" /\ UNCHANGED <<outcome, clock>>
  /\ docs' = usable(docs) /\ attempt' = 1 /\ call' = 1
  /\ UNCHANGED <<request, record, searches, calls>>

\* What the model may have answered, brought into shape.
Shaped == {normalized(a, best) : a \in Answers, best \in bestPages}
Asked == UNCHANGED <<request, docs, outcome, searches>> /\ calls' = calls + 1

Accept ==
  /\ phase = "ask"
  /\ \E rec \in Shaped, d \in {1, CallTimeout} :
       acceptable(rec) /\ record' = rec /\ Elapse(d, "ground")
  /\ UNCHANGED <<attempt, call>> /\ Asked

\* The errors are sent back once; after that they are final.
Reject ==
  /\ phase = "ask"
  /\ \E rec \in Shaped : ~acceptable(rec)
  /\ \E d \in {1, CallTimeout} :
       IF call < MaxCalls THEN call' = call + 1 /\ Elapse(d, "ask")
       ELSE UNCHANGED call /\ Elapse(d, "invalid_output")
  /\ UNCHANGED <<attempt, record>> /\ Asked

\* The provider fails or hangs: the task starts again from the first call.
CallFails ==
  /\ phase = "ask"
  /\ \E d \in {1, CallTimeout} :
       IF attempt <= Len(ReconstructWaits)
       THEN Elapse(d + ReconstructWaits[attempt], "ask") /\ attempt' = attempt + 1 /\ call' = 1
       ELSE Elapse(d, "model_failed") /\ UNCHANGED <<attempt, call>>
  /\ UNCHANGED record /\ Asked

\* What a subtask could not do is an outcome too.
Report ==
  /\ phase \in {"search_failed", "invalid_output", "model_failed"} /\ Return(phase)
  /\ UNCHANGED <<request, attempt, call, docs, record, searches, calls>>

Ground ==
  /\ phase = "ground"
  /\ \/ grounded(record, docs) /\ graphFindings(record) = {} /\ Return("completed")
     \/ ~(grounded(record, docs) /\ graphFindings(record) = {}) /\ Return("claim_grounding_failed")
  /\ UNCHANGED <<request, attempt, call, docs, record, searches, calls>>

PipelineNext ==
  \/ Begin \/ SearchReturns \/ SearchFails \/ ChoosePages
  \/ Accept \/ Reject \/ CallFails \/ Report \/ Ground

PipelineSpec == PipelineInit /\ [][PipelineNext]_pipelineVars
------------------------------------------------------------------------------
(* Properties                                                              *)

Failures == {"search_failed", "invalid_output", "model_failed", "no_official_source",
             "official_source_unusable", "claim_grounding_failed",
             "identity_ambiguous", "identity_unresolved"}

\* Exactly the runs that have returned have an outcome, and none is later than
\* the task may last.
PipelineTypeOK ==
  /\ outcome \in Failures \cup {"none", "known", "completed"}
  /\ (outcome # "none") <=> (phase = "returned")
  /\ clock \in 0..ParentTimeout
  /\ attempt \in 0..(1 + Len(SearchWaits)) /\ call \in 0..MaxCalls

\* A completed draft cites, in every part of its graph, only official pages
\* that had content, however the pages were numbered, moved and filled in
\* between; and each of its steps finds its inputs, leads to the next by a
\* cited transition, and ends at the declared first success.
CompletedIsGrounded ==
  outcome = "completed" =>
    LET g == record.graph
        r == route(g)
    IN  /\ \A s \in citations(g) : s \in DOMAIN docs /\ docs[s].hasContent
        /\ r # <<>> /\ Last(r).id = g.success.node /\ Last(r).kind = "terminal_outcome"
        /\ \A k \in DOMAIN r : r[k].needs \subseteq available(g, k) /\ r[k].evidence # {}
        /\ \A k \in 1..(Len(r) - 1) : \E e \in ToSet(g.edges) :
             e.from = r[k].id /\ e.to = r[k + 1].id /\ e.evidence # {}

\* A run pays for three searches and four model calls at most; for none unless
\* the platform is identified, and for no call without a usable page.
PaidWorkBounded ==
  /\ searches <= 3 /\ calls <= 4
  /\ searches > 0 => request.identities = 1 /\ ~request.slugPublished
  /\ calls > 0 => docs # <<>> /\ \A k \in DOMAIN docs : docs[k].hasContent

\* The task's own limit stops a run only in the very last call of the last
\* attempt that its subtasks have, after searches that were all used up.
OnlyTheLongestRunStops == phase = "stopped" => searches = 3 /\ calls = 4

\* A run ends within what it may cost, and completes only with a grounded
\* draft.
ResearchGrounded ==
  /\ PipelineTypeOK
  /\ CompletedIsGrounded
  /\ PaidWorkBounded
  /\ OnlyTheLongestRunStops
==============================================================================
