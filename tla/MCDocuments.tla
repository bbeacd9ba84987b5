------------------------------ MODULE MCDocuments ------------------------------
(* The documents of the two programs and the rules they pass: the journey      *)
(* graph a route is shown of, the draft of a live research run and the pages   *)
(* it rests on, the publication gate, the packet of the labelling laboratory,  *)
(* the comparison with peers, and the saved copies of the form.  They share no *)
(* state, so a behaviour exercises one of them; part says which.               *)
EXTENDS MCGraphs, JourneyRoute, LiveResearch, CorpusHealth, ReasonLab,
        PeerComparison, FirstMileApp

CONSTANTS c1, c2, ann, auth   \* commands, a reviewer, a reason

VARIABLE part
--------------------------------------------------------------------------------
\* Live research: what the model may answer, and the pages the search may find.
\* The model leaves out the edges and does not mark the terminal.
Drafted(id, needs, gives, e) ==
  [Plain(id, "developer_action", "developer", needs, gives) EXCEPT !.signal = FALSE, !.evidence = e]
DraftRoute == <<"signup", "call">>
Candidate(id, st) ==
  [id |-> id, status |-> st, nodes |-> DraftRoute, rejected |-> st = "considered",
   branch |-> "none", described |-> TRUE, evidence |-> {1}]
Good ==
  [slug |-> "asked", schemaValid |-> TRUE,
   graph |->
     [platform |-> "asked", have |-> {}, boundaryKind |-> "account_creation", routeId |-> "r",
      unresolved |-> FALSE, route |-> DraftRoute,
      nodes |-> <<Drafted("signup", {}, {"token"}, {1}), Drafted("call", {"token"}, {}, {2}),
                  Drafted("extra", {}, {}, {1})>>,
      edges |-> <<>>, candidates |-> <<Candidate("r", "selected"), Candidate("s", "considered")>>,
      prerequisites |-> {}, gates |-> {}, blocked |-> FALSE,
      success |-> [node |-> "call", created |-> FALSE, continues |-> FALSE, evidence |-> {2}]]]

WithGraph(g) == [Good EXCEPT !.graph = g]
Variants ==
  LET g == Good.graph
  IN  {[g EXCEPT !.nodes[2].evidence = {}], [g EXCEPT !.nodes[1].evidence = {3}],
       [g EXCEPT !.nodes[3].evidence = {9}], [g EXCEPT !.nodes[3].evidence = {0}],
       [g EXCEPT !.nodes[1].gives = {}], [g EXCEPT !.success.node = "signup"],
       [g EXCEPT !.route = <<"signup", "call", "call">>], [g EXCEPT !.nodes[1].action = "open and copy"],
       [g EXCEPT !.candidates = Tail(@)], [g EXCEPT !.platform = "other"],
       [g EXCEPT !.nodes = Append(@, [@[2] EXCEPT !.evidence = {2, 3}])],
       [g EXCEPT !.blocked = TRUE]}
MCAnswers ==
  {Good, NotJson, [Good EXCEPT !.schemaValid = FALSE],
   [Good EXCEPT !.slug = "other", !.graph.platform = "other"]}
    \cup {WithGraph(g) : g \in Variants}

Page(content, quotes) == [hasContent |-> content, quotes |-> quotes]
Shell == Page(FALSE, FALSE)
MCFindings ==
  {<<>>, <<Shell>>, <<Page(TRUE, FALSE)>>, <<Shell, Page(TRUE, FALSE), Page(TRUE, FALSE)>>,
   <<Page(TRUE, FALSE), Page(TRUE, FALSE), Page(TRUE, FALSE)>>,
   <<Page(TRUE, TRUE), Shell, Page(TRUE, TRUE), Page(TRUE, TRUE)>>}
--------------------------------------------------------------------------------
\* Publication: a platform all of whose sources were retrieved today.
Retrieved == [identities |-> 1, graphed |-> TRUE, listed |-> 1..3, official |-> 1..3,
              content |-> 1..3, located |-> 1..3, retrieved |-> 0]
MCReviewed(p) ==
  ({[p EXCEPT !.identities = n] : n \in {0, 2}} \cup {[p EXCEPT !.graphed = FALSE]}
   \cup {[p EXCEPT !.listed = s] : s \in {{}, {1, 2}, 1..4}}
   \cup {[p EXCEPT !.official = s] : s \in {{}, {1, 2}, 1..4}}
   \cup {[p EXCEPT !.content = s, !.located = @ \cap s] : s \in {{}, {1, 2}, 1..4}}
   \cup {[p EXCEPT !.located = s \cap p.content] : s \in {{1, 2}, {2, 3}, 1..4}}
   \cup {[p EXCEPT !.retrieved = d] : d \in {Never, 1}}) \ {p}
--------------------------------------------------------------------------------
\* The laboratory: the first command labels; commands, people and reasons are
\* alike, so it is c1, and the label is ann's and says auth.  Commands that
\* overlap or stop halfway are three at most.
FirstIs(c) ==
  /\ \A d \in Commands \ {c} : at[d] = "idle"
  /\ at[c] # "idle" =>
       \E s \in Samples, slot \in {"reviewer_a", "reviewer_b"} :
         copy[c][s][slot] = [by |-> ann, says |-> auth]
--------------------------------------------------------------------------------
\* Search: pages of one platform, of someone else, and of a lookalike.
Url(secure, host, owner, leads) == [secure |-> secure, host |-> host, owner |-> owner, leads |-> leads]
docsPage == Url(TRUE, <<"docs", "acme", "dev">>, "none", TRUE)
homePage == Url(TRUE, <<"acme", "dev">>, "none", FALSE)
unsafePage == Url(FALSE, <<"acme", "dev">>, "none", TRUE)
lookalike == Url(TRUE, <<"megaacme", "dev">>, "none", TRUE)
ownCode == Url(TRUE, <<"github", "com">>, "acme", TRUE)
otherCode == Url(TRUE, <<"github", "com">>, "other", TRUE)
MCUrls == {docsPage, homePage, unsafePage, lookalike, ownCode, otherCode}
MCDomains == {<<"acme", "dev">>, <<"github", "com">>}
MCResultLists ==
  {<<>>, <<homePage, docsPage>>, <<docsPage, docsPage>>, <<unsafePage, lookalike, docsPage>>,
   <<otherCode, homePage, ownCode>>}
MCLinkLists ==
  {<<>>, <<docsPage, ownCode>>, <<lookalike, homePage>>, <<ownCode, docsPage, otherCode>>}
--------------------------------------------------------------------------------
\* Peers: a cohort of four, after a fifth platform that may come to share the
\* organization of one and the documentation of another.  Build and service
\* spell the key of one organization differently.
Basis(org, docSet) ==
  [complete |-> TRUE, classAgrees |-> TRUE, key |-> "runtimes", organizationKey |-> org,
   documentationSetKey |-> docSet, day |-> 0]
Platform(org, key, docSet, value) ==
  [published |-> TRUE, valid |-> TRUE, organization |-> org, basis |-> Basis(key, docSet), value |-> value]
MCRows == <<"a", "b", "c", "d", "e">>
Compared ==
  [s \in ToSet(MCRows) |->
     CASE s = "a" -> Platform("Ash", "ash", "a docs", 2)
       [] s = "b" -> Platform("Bay", "bay", "b docs", 3)
       [] s = "c" -> Platform("Cod", "cod", "c docs", 1)
       [] s = "d" -> Platform("Dew", "dew", "d docs", 4)
       [] s = "e" -> Platform("Elm", "elm", "e docs", 2)]
Unreviewed == [s \in ToSet(MCRows) |-> [Compared[s] EXCEPT !.published = FALSE]]
MCPlatforms == {Compared, Unreviewed}
LowerKeys ==
  [o \in {"Ash", "Bay", "Cod", "Dew", "Elm", "Fir.com"} |->
     CASE o = "Ash" -> "ash" [] o = "Bay" -> "bay" [] o = "Cod" -> "cod"
       [] o = "Dew" -> "dew" [] o = "Elm" -> "elm" [] o = "Fir.com" -> "fir.com"]
WordKeys == [LowerKeys EXCEPT !["Fir.com"] = "fir com"]
MCReviewsOf(p) ==
  ({[p EXCEPT !.published = ~@], [p EXCEPT !.valid = ~@],
    [p EXCEPT !.basis.complete = ~@], [p EXCEPT !.basis.classAgrees = ~@]}
   \cup {[p EXCEPT !.basis.key = k] : k \in {"runtimes", "models"}}
   \cup {[p EXCEPT !.basis.organizationKey = k] : k \in {"bay", "fir com"}}
   \cup {[p EXCEPT !.organization = "Bay", !.basis.organizationKey = "bay"],
         [p EXCEPT !.organization = "Fir.com", !.basis.organizationKey = "fir com"]}
   \cup {[p EXCEPT !.basis.documentationSetKey = d] : d \in {"b docs", "c docs"}}
   \cup {[p EXCEPT !.basis.day = d] : d \in {0, 1}}
   \cup {[p EXCEPT !.value = v] : v \in {0, 2}}) \ {p}
--------------------------------------------------------------------------------
\* The form: two steps, an exported case, and a map saved before the journey
\* screens existed, with a last stage, its question and an answer, but no
\* journey, break or furthest step.
step(id, stage) == [id |-> id, stage |-> stage, inPath |-> TRUE, named |-> TRUE]
MCSteps == <<step("encounter", "S02"), step("setup", "S04")>>
filled == [emptyAnswers EXCEPT !.profile = TRUE, !.developer = TRUE]
explained == [filled EXCEPT !.furthest = "encounter", !.break = "setup",
                !.evidence = "observed", !.question = "DQ_IMPLEMENTATION",
                !.answer = "seen", !.issue = "explained", !.lastStage = "setup",
                !.evidenceTypes = "observed", !.explanation = "explained"]
MCCases == {explained}
MCOlder == {[screen |-> "seven-day", history |-> <<"welcome", "name", "concern">>,
             origin |-> "older",
             answers |-> [filled EXCEPT !.question = "DQ_NO_ATTEMPT",
                            !.answer = "unknown", !.lastStage = "no attempt",
                            !.evidenceTypes = "assumption"]]}
--------------------------------------------------------------------------------
Init ==
  /\ part \in {"routes", "pipeline", "health", "lab", "search", "peers", "copies"}
  /\ RouteInit /\ PipelineInit /\ HealthInit /\ LabInit /\ SearchInit /\ PeerInit /\ AppInit
  /\ part # "pipeline" => request = [slugPublished |-> FALSE, identities |-> 1, identityPublished |-> FALSE]
  /\ platforms = IF part = "peers" THEN Compared ELSE Unreviewed
  /\ part # "copies" => saved = NoMap /\ ~credential

Next ==
  \/ part = "routes" /\ RouteNext
     /\ UNCHANGED <<part, pipelineVars, healthVars, labVars, searchVars, peerVars, appVars>>
  \/ part = "pipeline" /\ PipelineNext
     /\ UNCHANGED <<part, routeVars, healthVars, labVars, searchVars, peerVars, appVars>>
  \/ part = "health" /\ HealthNext
     /\ UNCHANGED <<part, routeVars, pipelineVars, labVars, searchVars, peerVars, appVars>>
  \/ part = "lab" /\ LabNext /\ (begun' = 1 => FirstIs(c1)') /\ (disturbed' => begun' < 4)
     /\ UNCHANGED <<part, routeVars, pipelineVars, healthVars, searchVars, peerVars, appVars>>
  \/ part = "search" /\ SearchNext
     /\ UNCHANGED <<part, routeVars, pipelineVars, healthVars, labVars, peerVars, appVars>>
  \/ part = "peers" /\ PeerNext
     /\ UNCHANGED <<part, routeVars, pipelineVars, healthVars, labVars, searchVars, appVars>>
  \/ part = "copies" /\ AppNext
     /\ UNCHANGED <<part, routeVars, pipelineVars, healthVars, labVars, searchVars, peerVars>>

Spec == Init /\ [][Next]_<<part, routeVars, pipelineVars, healthVars, labVars, searchVars,
                          peerVars, appVars>>
================================================================================
