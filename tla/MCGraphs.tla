------------------------------- MODULE MCGraphs -------------------------------
(* A sound journey graph, and what one edit makes of a graph. *)
EXTENDS JourneyGraph, TLC

Plain(id, kind, actor, needs, gives) ==
  [id |-> id, kind |-> kind, actor |-> actor, action |-> id, branch |-> "none",
   inDocs |-> FALSE, inventory |-> "no", fields |-> {}, options |-> {}, failures |-> {},
   needs |-> needs, gives |-> gives, signal |-> TRUE, evidence |-> {1}]

SignUp == Plain("signup", "developer_action", "developer", {"email"}, {"account"})
Key == [Plain("key", "developer_action", "developer", {"account"}, {"token"})
          EXCEPT !.inventory = "yes", !.fields = {{2}}]
Choice == [Plain("choose", "decision", "developer", {"account"}, {"region"})
             EXCEPT !.branch = "left", !.failures = {{1}},
                    !.options = {[label |-> "eu", evidence |-> {1}], [label |-> "us", evidence |-> {2}]}]
Waiting == Plain("wait", "passive_wait", "platform", {"account"}, {})
Call == [Plain("call", "terminal_outcome", "developer", {"token"}, {"result"}) EXCEPT !.evidence = {2}]

Edge(a, b) == [from |-> a, to |-> b, evidence |-> {1}]
Selected(r) == [id |-> "r", status |-> "selected", nodes |-> r, rejected |-> FALSE,
                branch |-> "none", described |-> TRUE, evidence |-> {1}]
Considered == [id |-> "s", status |-> "considered", nodes |-> <<>>, rejected |-> TRUE,
               branch |-> "signup", described |-> TRUE, evidence |-> {1}]

Straight ==
  [have |-> {}, boundaryKind |-> "account_creation", routeId |-> "r", unresolved |-> FALSE,
   route |-> <<"signup", "key", "call">>,
   nodes |-> <<SignUp, Key, Waiting, Choice, Call>>,
   edges |-> <<Edge("signup", "key"), Edge("key", "call"), Edge("signup", "choose"), Edge("choose", "key"),
             Edge("signup", "wait"), Edge("wait", "key")>>,
   candidates |-> <<Selected(<<"signup", "key", "call">>), Considered>>,
   prerequisites |-> {[gives |-> {"email"}, evidence |-> {2}]},
   gates |-> {[at |-> "key", evidence |-> {3}]},
   success |-> [node |-> "call", created |-> FALSE, continues |-> FALSE, evidence |-> {2}],
   blocked |-> FALSE]

\* The selected route and its declaration change together, or apart.
Routes == {<<"signup", "choose", "key", "call">>, <<"signup", "wait", "key", "call">>,
           <<"key", "signup", "call">>, <<"signup", "key">>, <<"signup", "key", "key", "call">>,
           <<"signup", "key", "gone", "call">>, <<>>}
Declare(g, c) == [g EXCEPT !.candidates = IF @ = <<>> THEN @ ELSE <<c>> \o Tail(@)]
First(g) == IF g.candidates = <<>> THEN Considered ELSE Head(g.candidates)
Rerouted(g) ==
  {Declare([g EXCEPT !.route = r], [First(g) EXCEPT !.nodes = r]) : r \in Routes}
  \cup {[g EXCEPT !.route = r] : r \in Routes}

Evidences == {{}, {0}, {1, 3}, {9}}
NodeEdits(n) ==
  {[n EXCEPT !.kind = k] : k \in {"developer_action", "decision", "platform_outcome", "terminal_outcome"}}
  \cup {[n EXCEPT !.action = a] : a \in {"signup", "sign up", "key", "open and copy"}}
  \cup {[n EXCEPT !.branch = b] : b \in {"left", "right"}}
  \cup {[n EXCEPT !.inventory = v] : v \in {"yes", "unset"}}
  \cup {[n EXCEPT !.evidence = e] : e \in Evidences}
  \cup {[n EXCEPT !.fields = {{}}], [n EXCEPT !.failures = {{0}}], [n EXCEPT !.options = {}],
        [n EXCEPT !.needs = @ \cup {"token"}], [n EXCEPT !.gives = {}], [n EXCEPT !.inDocs = TRUE],
        [n EXCEPT !.signal = FALSE], [n EXCEPT !.actor = "developer"]}

EdgeEdits(g) ==
  {[g EXCEPT !.edges = Append(@, e)] :
     e \in {Edge("key", "signup"), Edge("signup", "call"), Edge("signup", "key"), Edge("key", "gone")}}
  \cup {[g EXCEPT !.edges = Tail(@)]}
  \cup {[g EXCEPT !.edges = <<[Head(@) EXCEPT !.evidence = {}]>> \o Tail(@)]}

OtherEdits(g) ==
  {[g EXCEPT !.routeId = "none"], [g EXCEPT !.routeId = "s"], [g EXCEPT !.unresolved = TRUE],
   [g EXCEPT !.boundaryKind = "installed"], [g EXCEPT !.blocked = TRUE],
   Declare(g, [First(g) EXCEPT !.branch = "key"]), Declare(g, [First(g) EXCEPT !.status = "considered"]),
   Declare(g, [First(g) EXCEPT !.rejected = TRUE]), Declare(g, [First(g) EXCEPT !.described = FALSE]),
   [g EXCEPT !.candidates = Append(@, [Considered EXCEPT !.branch = "gone"])],
   [g EXCEPT !.candidates = Append(@, [Considered EXCEPT !.nodes = <<"gone">>])],
   [g EXCEPT !.candidates = <<>>],
   [g EXCEPT !.prerequisites = {}], [g EXCEPT !.prerequisites = {[gives |-> {"email"}, evidence |-> {0}]}],
   [g EXCEPT !.have = {"email", "token"}],
   [g EXCEPT !.gates = @ \cup {[at |-> "wait", evidence |-> {1}]}],
   [g EXCEPT !.gates = {[at |-> "call", evidence |-> {}]}],
   [g EXCEPT !.success.node = "key"], [g EXCEPT !.success.evidence = {3}],
   [g EXCEPT !.success.created = TRUE, !.success.continues = TRUE],
   [g EXCEPT !.nodes = Reverse(@)], [g EXCEPT !.nodes = Append(@, Key)],
   [g EXCEPT !.nodes = Append(@, [Key EXCEPT !.gives = {}])]}

Edited(g) ==
  (UNION {{[g EXCEPT !.nodes[k] = n] : n \in NodeEdits(g.nodes[k])} : k \in DOMAIN g.nodes}
    \cup Rerouted(g) \cup EdgeEdits(g) \cup OtherEdits(g)) \ {g}
NearPairs == {{"signup", "sign up"}}
CompoundActions == {"open and copy"}
==============================================================================
