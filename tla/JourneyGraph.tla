----------------------------- MODULE JourneyGraph -----------------------------
(***************************************************************************)
(* The journey graph of a platform and what validateJourneyGraph finds in  *)
(* it (core/journeyGraph.ts).  Texts are abstracted: evidence is the set   *)
(* of the numbers of the sources it cites, 0 for an item without a source  *)
(* or a locator; an action is a token, compound or near another one as the *)
(* constants say.                                                          *)
(***************************************************************************)
EXTENDS Naturals, Sequences, FiniteSets, SequencesExt, Lists

CONSTANTS Compound,     \* actions that hold several interactions
          Near          \* pairs of actions whose words nearly agree
------------------------------------------------------------------------------
(* Reading a graph                                                         *)

when(condition, code) == IF condition THEN {code} ELSE {}

hasEvidence(evidence) == evidence # {} /\ 0 \notin evidence
evidenceFindings(evidence) ==
  when(~hasEvidence(evidence), IF evidence = {} THEN "missing_evidence" ELSE "missing_evidence_locator")

ids(g) == {n.id : n \in ToSet(g.nodes)}

\* Of nodes with one id, the last is the one that counts.
node(g, id) == g.nodes[Max({k \in DOMAIN g.nodes : g.nodes[k].id = id})]

\* The nodes of the selected route, unknown ids left out.
route(g) ==
  LET known == Among(g.route, ids(g))
  IN  [k \in DOMAIN known |-> node(g, known[k])]

\* Outputs of the step itself count as available to it.
availableAtOnce(g, k) ==
  g.have \cup (UNION {p.gives : p \in g.prerequisites})
         \cup UNION {route(g)[j].gives : j \in 1..k}

\* What the k-th step of the route may use.
available(g, k) ==
  g.have \cup (UNION {p.gives : p \in g.prerequisites})
         \cup UNION {route(g)[j].gives : j \in 1..(k - 1)}

alike(a, b) == a = b \/ {a, b} \in Near
joined(g, from, to) == \E e \in ToSet(g.edges) : e.from = from /\ e.to = to
------------------------------------------------------------------------------
(* validateJourneyGraph: the codes of its findings                         *)

selectedCandidates(g) == SelectSeq(g.candidates, LAMBDA c : c.id = g.routeId)

routeFindings(g) ==
  LET declared == selectedCandidates(g)
      undeclared == declared = <<>> \/ Head(declared).status # "selected"
  IN  when(g.boundaryKind # "account_creation", "invalid_starting_state")
      \cup when(g.routeId = "none" \/ g.unresolved, "route_unresolved")
      \cup when(undeclared, "route_not_declared")
      \cup when(~undeclared /\ Head(declared).nodes # g.route, "invalid_candidate_route")
      \cup when(Len(SelectSeq(g.candidates, LAMBDA c : c.status = "selected")) # 1,
                "invalid_candidate_route")
      \cup when(~(ToSet(g.route) \subseteq ids(g)), "unknown_node")

candidateIncomplete(g, c) ==
  \/ c.status = "selected" /\ (c.nodes = <<>> \/ c.rejected \/ c.branch # "none")
  \/ c.status = "considered" /\ (~c.rejected \/ c.branch = "none")
  \/ ~c.described \/ ~hasEvidence(c.evidence)
  \/ ~(ToSet(c.nodes) \subseteq ids(g)) \/ c.branch \notin ids(g) \cup {"none"}

inventoryFindings(n) ==
  when(n.inventory = "unset", "field_inventory_status_missing")
  \cup when(n.inventory = "yes" /\ n.fields = {}, "missing_field_inventory")
  \cup when(n.inventory = "no" /\ n.fields # {}, "field_inventory_inconsistent")

\* Findings about the k-th step; earlier steps decide what repeats and what
\* is available.
stepFindings(g, k) ==
  LET n == route(g)[k]
      earlier == {route(g)[j] : j \in 1..(k - 1)}
  IN  when(\E m \in earlier : m.id = n.id \/ m.action = n.action, "duplicate_node")
      \cup when(\E m \in earlier : alike(m.action, n.action), "near_duplicate_action")
      \cup when(n.kind = "developer_action" /\ n.action \in Compound, "compound_action")
      \cup when(n.kind = "developer_action" /\ n.inDocs, "documentation_navigation_action")
      \cup when(n.kind \in {"passive_wait", "platform_outcome"} /\ n.actor = "developer",
                "wrong_actor_for_event")
      \cup when(~(n.needs \subseteq available(g, k)), "broken_causal_input")
      \cup when(n.kind = "decision" /\ Cardinality(n.options) < 2, "missing_decision_options")
      \cup inventoryFindings(n)
      \cup UNION {evidenceFindings(e) : e \in {n.evidence} \cup n.fields \cup n.failures
                                              \cup {o.evidence : o \in n.options}}

edgeFindings(g) ==
  LET From(e) == <<e.from, e.to>>
      r == route(g)
  IN  when(\E e \in ToSet(g.edges) : ~({e.from, e.to} \subseteq ids(g)), "unknown_edge_endpoint")
      \cup when(\E j, k \in DOMAIN g.edges : j < k /\ From(g.edges[j]) = From(g.edges[k]), "duplicate_edge")
      \cup (UNION {evidenceFindings(e.evidence) : e \in ToSet(g.edges)})
      \cup when(\E k \in 1..(Len(r) - 1) : ~joined(g, r[k].id, r[k + 1].id), "missing_route_edge")

endFindings(g) ==
  LET r == route(g)
  IN  when(r = <<>> \/ Last(r).kind # "terminal_outcome" \/ ~Last(r).signal, "invalid_terminal")
      \cup when(\/ r = <<>> \/ g.success.node # Last(r).id
                \/ ~hasEvidence(g.success.evidence)
                \/ g.success.created /\ g.success.continues, "invalid_first_success_boundary")

gateFindings(g) ==
  when(\E x \in g.gates : x.at \notin {n.id : n \in ToSet(route(g))}, "unknown_gate_target")
  \cup UNION {evidenceFindings(x.evidence) : x \in g.gates}

\* The callers that expect a platform compare its slug themselves.
validateJourneyGraph(g) ==
  LET r == route(g)
  IN  routeFindings(g)
      \cup when(\E c \in ToSet(g.candidates) : candidateIncomplete(g, c), "invalid_candidate_route")
      \cup (UNION {evidenceFindings(p.evidence) : p \in g.prerequisites})
      \cup (UNION {stepFindings(g, k) : k \in DOMAIN r})
      \cup when(Cardinality({n.branch : n \in ToSet(r)} \ {"none"}) > 1, "branch_concatenation")
      \cup edgeFindings(g) \cup gateFindings(g) \cup endFindings(g)
      \cup when(g.blocked, "unresolved_uncertainty")

\* Wording is for the reviewers of a publication, not for a private draft.
draftBlockingJourneyFindings(findings) == findings \ {"compound_action"}

\* Selecting throws unless there are no findings.
selectable(g) == validateJourneyGraph(g) = {}
==============================================================================
