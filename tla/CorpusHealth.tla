----------------------------- MODULE CorpusHealth -----------------------------
(***************************************************************************)
(* The publication gate of the corpus: scripts/build-corpus-health.mjs     *)
(* judges a platform's record, the evidence that was retrieved for it and  *)
(* its journey graph, and commits the result, which core/publicationGate.ts *)
(* serves.  The script validates graphs on its own; core/journeyGraph.ts   *)
(* validates them again when a route is shown.                             *)
(*                                                                         *)
(* Evidence is a set of source numbers as in JourneyGraph; a source is     *)
(* located when its content was retrieved and holds the quoted locator.    *)
(***************************************************************************)
EXTENDS JourneyGraph, Integers

CONSTANTS FirstGraph, FirstPlatform,
          Revised(_),      \* the graphs that one edit makes of a graph
          Reviewed(_),     \* what one review step makes of a platform's facts
          Connected,       \* actions whose words the script finds compound
          MaxEdits, MaxDay,
          FreshDays        \* COMPARISON_FRESHNESS_DAYS

ASSUME ScriptIsStricter == Compound \subseteq Connected
ASSUME FreshnessInDays == FreshDays \in Nat

VARIABLES
  graph,      \* trust/journey-graphs/<slug>.json
  platform,   \* the record's sources and trust/source-evidence/<slug>.json
  edits, day,
  health      \* the platform's row of corpus-health.json

healthVars == <<graph, platform, edits, day, health>>
------------------------------------------------------------------------------
(* Sources                                                                 *)

Never == -1
NotBuilt == [disposition |-> "none", eligible |-> FALSE]

resolved(p) == p.identities = 1

\* Authority is judged only when the identity is unambiguous.
acceptedSources(p) == IF resolved(p) THEN p.listed \cap p.official ELSE {}
rejectedSources(p) == IF resolved(p) THEN p.listed \ p.official ELSE {}
missingContent(p) == acceptedSources(p) \ p.content

evidenceIsFresh(p, d) == p.retrieved # Never /\ d - p.retrieved <= FreshDays
------------------------------------------------------------------------------
(* graphHealth                                                             *)

covered(p, evidence) == evidence # {} /\ evidence \subseteq p.listed \cap p.located

endHealth(g) ==
  LET r == route(g)
  IN  when(r = <<>> \/ Last(r).kind # "terminal_outcome", "invalid_terminal")
      \cup when(\/ r = <<>> \/ g.success.node # Last(r).id
                \/ g.success.created /\ g.success.continues, "invalid_first_success_boundary")

\* Everything of the graph that must cite evidence, without the gates.
claimsUngated(g) ==
  LET r == route(g)
  IN  {x.evidence : x \in g.prerequisites \cup ToSet(g.edges) \cup ToSet(g.candidates) \cup ToSet(r)}
      \cup (UNION {r[k].fields : k \in DOMAIN r})
      \cup IF "invalid_first_success_boundary" \in endHealth(g) THEN {} ELSE {g.success.evidence}

\* Everything of the graph that must cite evidence.
claims(g) == claimsUngated(g) \cup {x.evidence : x \in g.gates}

unsupported(g, p) == IF p.graphed THEN {e \in claims(g) : ~covered(p, e)} ELSE {}

stepHealth(g, k) ==
  LET n == route(g)[k]
      earlier == {route(g)[j] : j \in 1..(k - 1)}
  IN  when(\E m \in earlier : m.id = n.id, "duplicate_node")
      \cup when(\E m \in earlier : m.action = n.action, "duplicate_action")
      \cup when(n.kind = "developer_action" /\ n.action \in Connected, "compound_action")
      \cup inventoryFindings(n)
      \cup when(n.kind = "developer_action" /\ n.inDocs, "documentation_navigation_action")
      \cup when(n.kind \in {"passive_wait", "platform_outcome"} /\ n.actor = "developer",
                "event_counted_as_developer_action")
      \cup when(~(n.needs \subseteq available(g, k)), "broken_causal_input")

edgeHealth(g) ==
  LET r == route(g)
  IN  when(\E e \in ToSet(g.edges) : ~({e.from, e.to} \subseteq ids(g)), "unknown_edge_endpoint")
      \cup when(\E j, k \in DOMAIN g.edges :
                  j < k /\ <<g.edges[j].from, g.edges[j].to>> = <<g.edges[k].from, g.edges[k].to>>,
                "duplicate_edge")
      \cup when(\E k \in 1..(Len(r) - 1) : ~joined(g, r[k].id, r[k + 1].id), "missing_route_edge")

\* A considered route must branch off a step of the selected one.
candidateUnfit(g, c) ==
  \/ ~c.described
  \/ c.status = "selected" /\ (c.rejected \/ c.branch # "none")
  \/ c.status = "considered" /\ (~c.rejected \/ c.branch \notin ToSet(g.route))

graphHealth(g, p) ==
  LET r == route(g)
  IN  IF ~p.graphed THEN {"missing_journey_graph"} ELSE
      routeFindings(g)
      \cup (UNION {stepHealth(g, k) : k \in DOMAIN r})
      \cup edgeHealth(g)
      \cup when(Cardinality({n.branch : n \in ToSet(r)} \ {"none"}) > 1, "branch_concatenation")
      \cup when(\E c \in ToSet(g.candidates) : candidateUnfit(g, c), "invalid_candidate_route")
      \cup when(\E x \in g.gates : x.at \notin ToSet(g.route), "unknown_gate_target")
      \cup when(g.blocked, "unresolved_uncertainty")
      \cup endHealth(g)
      \cup when(unsupported(g, p) # {}, "claim_grounding_failed")
------------------------------------------------------------------------------
(* The verdict on a platform                                               *)

\* However old the evidence is.
eligibleAtAnyAge(g, p, d) ==
  /\ resolved(p) /\ rejectedSources(p) = {} /\ acceptedSources(p) # {}
  /\ missingContent(p) = {} /\ graphHealth(g, p) = {}

eligible(g, p, d) ==
  /\ resolved(p) /\ rejectedSources(p) = {} /\ acceptedSources(p) # {}
  /\ missingContent(p) = {} /\ graphHealth(g, p) = {} /\ evidenceIsFresh(p, d)

\* Whatever is old is stale.
dispositionByAge(g, p, d) ==
  IF p.retrieved # Never /\ d - p.retrieved > FreshDays THEN "stale"
  ELSE IF eligible(g, p, d) THEN "published"
  ELSE IF ~resolved(p) THEN "identity_needs_approval"
  ELSE IF rejectedSources(p) # {} THEN "excluded"
  ELSE IF acceptedSources(p) = {} \/ missingContent(p) # {} \/ unsupported(g, p) # {}
  THEN "evidence_needs_review"
  ELSE "route_needs_review"

\* The first of the rules that applies.
dispositionFor(g, p, d) ==
  LET allButAge == /\ resolved(p) /\ rejectedSources(p) = {} /\ acceptedSources(p) # {}
                   /\ missingContent(p) = {} /\ unsupported(g, p) = {} /\ graphHealth(g, p) = {}
      old == p.retrieved # Never /\ d - p.retrieved > FreshDays
  IN  IF allButAge /\ old THEN "stale"
      ELSE IF eligible(g, p, d) THEN "published"
      ELSE IF ~resolved(p) THEN "identity_needs_approval"
      ELSE IF rejectedSources(p) # {} THEN "excluded"
      ELSE IF acceptedSources(p) = {} \/ missingContent(p) # {} \/ unsupported(g, p) # {}
      THEN "evidence_needs_review"
      ELSE "route_needs_review"
------------------------------------------------------------------------------
HealthInit ==
  /\ graph = FirstGraph /\ platform = FirstPlatform
  /\ edits = 0 /\ day = 0 /\ health = NotBuilt

unbuilt == health = NotBuilt /\ edits < MaxEdits

ReviseGraph ==
  /\ unbuilt
  /\ graph' \in Revised(graph) /\ edits' = edits + 1
  /\ UNCHANGED <<platform, day, health>>

ReviewPlatform ==
  /\ unbuilt
  /\ platform' \in Reviewed(platform) /\ edits' = edits + 1
  /\ UNCHANGED <<graph, day, health>>

\* The script runs, and what it writes is committed and deployed.
Build ==
  /\ health' = [disposition |-> dispositionFor(graph, platform, day),
                eligible |-> eligible(graph, platform, day)]
  /\ UNCHANGED <<graph, platform, edits, day>>

NextDay == day < MaxDay /\ day' = day + 1 /\ UNCHANGED <<graph, platform, edits, health>>

HealthNext == ReviseGraph \/ ReviewPlatform \/ Build \/ NextDay

HealthSpec == HealthInit /\ [][HealthNext]_healthVars
------------------------------------------------------------------------------
(* Properties                                                              *)

\* PublicationGate: what the sites go by.
isEligible == health.eligible

\* The disposition in which a record is listed agrees with the switch that
\* the sites go by, although each is decided by conditions of its own.
PublishedIsEligible ==
  health # NotBuilt => (health.disposition = "published" <=> isEligible)

\* Whatever the pages of a published platform cite was retrieved from an
\* official source of the record: its steps and their fields, its gates, its
\* prerequisites, its routes, its first success (graphHealth, eligible).
PublishedIsGrounded ==
  isEligible =>
    UNION ((UNION {{n.evidence} \cup n.fields : n \in ToSet(route(graph))})
           \cup {x.evidence : x \in graph.gates} \cup {x.evidence : x \in graph.prerequisites}
           \cup {c.evidence : c \in ToSet(graph.candidates)} \cup {graph.success.evidence})
      \subseteq platform.listed \cap platform.official \cap platform.content

\* The script lets through no finding of validateJourneyGraph but these.
PublishedIsNearlySelectable ==
  isEligible =>
    validateJourneyGraph(graph) \subseteq
      {"near_duplicate_action", "missing_decision_options", "missing_evidence",
       "missing_evidence_locator", "invalid_candidate_route", "invalid_terminal"}

\* When only time has passed, a new build retires published platforms and
\* changes nothing else (dispositionFor, evidenceIsFresh).
TimeOnlyRetires ==
  [][health # NotBuilt =>
       health' = health \/ (health.disposition = "published" /\ health'.disposition = "stale")]_healthVars

\* What the build publishes is listed as published, rests on sources that were
\* retrieved, and has a graph with next to no finding.
PublishedStands ==
  /\ PublishedIsEligible
  /\ PublishedIsGrounded
  /\ PublishedIsNearlySelectable
==============================================================================
