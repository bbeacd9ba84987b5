----------------------------- MODULE JourneyRoute -----------------------------
(***************************************************************************)
(* What the public sees of a journey graph: the route that is shown of it  *)
(* (core/journeyOverlay.ts), the sources that are disclosed for it         *)
(* (core/journeyEvidence.ts), and a developer who follows the route.       *)
(***************************************************************************)
EXTENDS JourneyGraph

CONSTANTS FirstJourney, \* the graph the authors begin with
          Changed(_),   \* the graphs that one edit makes of a graph
          MaxChanges,
          Sources       \* source ids of the platform's record

VARIABLES
  authored,   \* the graph the authors have made so far
  changes,    \* how often they have changed it
  walk,       \* node ids the developer has been through, once the route is shown
  held,       \* what the developer has in hand
  shown       \* whether the route has passed validation and is shown

routeVars == <<authored, changes, walk, held, shown>>
------------------------------------------------------------------------------
(* What the public pages derive from a selectable graph                    *)

overlayGates(g, k) == {x \in g.gates : x.at = route(g)[k].id}

buildJourneyOverlay(g) ==
  [k \in DOMAIN route(g) |->
     [id |-> route(g)[k].id, action |-> route(g)[k].action,
      sources |-> route(g)[k].evidence, gates |-> overlayGates(g, k)]]

firstSuccess(g) == Last(route(g)).action

\* Nodes of the route in the order of the graph, not of the route.
selectedNodes(g) == Among(g.nodes, {n \in ToSet(g.nodes) : n.id \in ToSet(g.route)})

\* The sources a disclosure names.
disclosed(g) ==
  Sources \cap
    ((UNION {p.evidence : p \in g.prerequisites})
     \cup (UNION {n.evidence \cup UNION n.fields : n \in ToSet(selectedNodes(g))})
     \cup (UNION {x.evidence : x \in {y \in g.gates : y.at \in ToSet(g.route)}})
     \cup (UNION {c.evidence : c \in ToSet(g.candidates)})
     \cup g.success.evidence)

\* The action it names as the first-success boundary.
disclosedBoundary(g) == Last(selectedNodes(g)).action
------------------------------------------------------------------------------
RouteInit ==
  /\ authored = FirstJourney /\ changes = 0
  /\ walk = <<>> /\ held = {} /\ shown = FALSE

\* The authors of the graph change one thing.
ChangeJourney ==
  /\ ~shown /\ changes < MaxChanges
  /\ authored' \in Changed(authored)
  /\ changes' = changes + 1
  /\ UNCHANGED <<walk, held, shown>>

\* The route is shown, and a developer starts where it says.
Show ==
  /\ ~shown /\ selectable(authored)
  /\ shown' = TRUE
  /\ held' = authored.have \cup UNION {p.gives : p \in authored.prerequisites}
  /\ UNCHANGED <<authored, changes, walk>>

nextStep == route(authored)[Len(walk) + 1]

\* The developer takes the next step that the page lists, if it can be taken.
Follow ==
  /\ shown /\ Len(walk) < Len(route(authored))
  /\ nextStep.needs \subseteq held
  /\ walk' = Append(walk, nextStep.id)
  /\ held' = held \cup nextStep.gives
  /\ UNCHANGED <<authored, changes, shown>>

RouteNext == ChangeJourney \/ Show \/ Follow

RouteSpec == RouteInit /\ [][RouteNext]_routeVars
------------------------------------------------------------------------------
(* Properties                                                              *)

Arrived == shown /\ Len(walk) = Len(route(authored))

\* A developer who follows a shown route always has what the next step needs,
\* and always gets to it by a documented transition (validateJourneyGraph,
\* selectedRouteNodes, buildJourneyOverlayFromGraph).
NeverStuck ==
  shown /\ ~Arrived =>
    /\ nextStep.needs \subseteq held
    /\ walk # <<>> => joined(authored, Last(walk), nextStep.id)

\* Who has followed the route to its end is at the declared first success,
\* has been nowhere twice and on one branch only, and has passed every gate
\* just once on the way.
ArrivesAtSuccess ==
  Arrived =>
    /\ walk # <<>> /\ Last(walk) = authored.success.node
    /\ node(authored, Last(walk)).kind = "terminal_outcome"
    /\ IsInjective(walk)
    /\ \A j, k \in DOMAIN walk :
         LET b(i) == node(authored, walk[i]).branch IN b(j) = "none" \/ b(k) = "none" \/ b(j) = b(k)
    /\ \A x \in authored.gates : \E k \in DOMAIN walk :
         walk[k] = x.at /\ x \in buildJourneyOverlay(authored)[k].gates

\* Every source that a shown step, a gate on the way or the boundary rests on
\* is disclosed, provided the record has it; and the boundary that is named is
\* that of the route, provided the graph lists its nodes in the order of the
\* route (buildJourneyEvidence).
ShownIsDisclosed ==
  shown =>
    LET steps == buildJourneyOverlay(authored)
    IN  /\ selectedNodes(authored) = route(authored)
             => disclosedBoundary(authored) = firstSuccess(authored)
        /\ Sources \cap ((UNION {steps[k].sources \cup UNION {x.evidence : x \in steps[k].gates} :
                                k \in DOMAIN steps}) \cup authored.success.evidence)
          \subseteq disclosed(authored)

\* A route that is shown can be followed to its end, and says what it rests on.
RouteHolds ==
  /\ NeverStuck
  /\ ArrivesAtSuccess
  /\ ShownIsDisclosed
==============================================================================
