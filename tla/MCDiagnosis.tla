------------------------------ MODULE MCDiagnosis ------------------------------
(* The parts of the diagnostic that keep their state to themselves: the form   *)
(* in the browser, the case and the diagnosis that are folded from its events, *)
(* the question policy of the server, and its rate limiter.  They share no     *)
(* state, so a behaviour exercises one of them; part says which, and the others *)
(* rest at their first states, which have the properties of their parts too.   *)
EXTENDS FirstMileApp, DiagnosisAssembly, TurnPolicy, RequestGate, TLC

VARIABLE part
------------------------------------------------------------------------------
(* The form: two steps, and one that may be added *)

step(id, stage) == [id |-> id, stage |-> stage, inPath |-> TRUE, named |-> TRUE]
MCSteps == <<step("encounter", "S02"), step("setup", "S04")>>
------------------------------------------------------------------------------
(* The case: four questions, three reasons of two families *)

answer(fields, v, route, kinds) ==
  [fields |-> fields, value |-> v, route |-> route, kinds |-> kinds]
MCQuestions == <<"developer", "last-truth", "catalog-discriminator", "next-move">>
MCAnswers ==
  [q \in {MCQuestions[i] : i \in 1..4} |->
     CASE q = "developer" -> {answer("all", "both", "none", {"participant_report"}),
                              answer("all", "human", "none", {"participant_report"})}
       [] q = "last-truth" -> {answer("all", "setup", "none", {"direct_observation"}),
                               answer("all", "result", "none", {"assumption"})}
       [] q = "catalog-discriminator" ->
             {answer("all", "configuration", "setup", {"participant_report"}),
              answer("all", "agent_false_green", "result", {"participant_report"})}
       [] q = "next-move" -> {answer("all", "move", "none", {"participant_report"}),
                              answer("some", "move", "none", {"participant_report"})}]

MCOptions == {"both", "human", "configuration", "agent_false_green", NoOption}
MCSpecial == [o \in MCOptions |-> "none"]
MCStrengthens ==
  [o \in MCOptions |-> CASE o = "both" -> {"U26.17"}
                         [] o = "configuration" -> {"U12"}
                         [] o = "agent_false_green" -> {"U26.12"}
                         [] OTHER -> {}]
MCWeakens == [o \in MCOptions |-> IF o = "human" THEN {"U26"} ELSE {}]
MCReasons == {"U26.12", "U26.17", "U12.01"}
MCParent == [r \in MCReasons |-> IF r = "U12.01" THEN "U12" ELSE "U26"]
MCCards ==
  [r \in MCReasons |->
     IF r = "U12.01"
     THEN [reviewed |-> TRUE, accepted |-> {"direct_observation"},
           prerequisites |-> {"participant_report"}, lookalike |-> TRUE]
     ELSE [reviewed |-> TRUE, accepted |-> {"participant_report"},
           prerequisites |-> {}, lookalike |-> FALSE]]

MCJourneys ==
  [j \in {"render deploy", "render workflow", "stripe charge", "fly deploy"} |->
     CASE j \in {"render deploy", "render workflow"} -> [platform |-> "render", researched |-> TRUE]
       [] j = "stripe charge" -> [platform |-> "stripe", researched |-> TRUE]
       [] OTHER -> [platform |-> "fly", researched |-> FALSE]]

record(subject, checks, shownPeers, safe, declared) ==
  [subject |-> subject, checks |-> checks, peers |-> shownPeers, safe |-> safe,
   summary |-> "bounded", declaredEligible |-> declared[1], declaredCount |-> declared[2],
   declaredPattern |-> declared[3]]
Sound == record("stripe charge", ComparisonChecks, 3, TRUE, <<TRUE, TRUE, TRUE>>)
ClaimRequest == [platform |-> "stripe", journey |-> "none", comparison |-> Sound]
MCRequests ==
  [platform : {"render", "stripe", "fly", "unknown"}, journey : DOMAIN MCJourneys \cup {"none"},
   comparison :
     {Sound} \cup {record(s, c, p, safe, <<e, n, t>>) :
        s \in {"stripe charge", "render deploy"}, c \in {ComparisonChecks, ComparisonChecks \ {"sources"}},
        p \in {2, 3}, safe \in {TRUE}, e \in {TRUE}, n \in BOOLEAN, t \in BOOLEAN}]
------------------------------------------------------------------------------
(* The question policy: two objectives of nine, budgets in proportion *)

MCOrder == <<"D1", "D8">>
MCTurns == [m \in {"deterministic", "mastra"} |-> IF m = "mastra" THEN 3 ELSE 4]
------------------------------------------------------------------------------
(* The rate limiter: two clients *)

CONSTANTS c1, c2
ClientSymmetry == Permutations(Clients)
------------------------------------------------------------------------------
Init ==
  /\ part \in {"form", "case", "claims", "requests", "turns", "gate"}
  /\ AppInit /\ AssemblyInit /\ TurnInit /\ GateInit
  /\ part # "requests" => request = ClaimRequest
  /\ part # "turns" => mode = "mastra"

\* In "claims" one of four answers strays from what is asked, and there are no
\* partial answers and no signals, which the diagnosis does not read; in "requests" no
\* answer strays.
WholeAnswers(es) == \A i \in DOMAIN es : IsAnswer(es[i]) /\ es[i].answer.fields = "all"

\* Creations and turns use limiters of their own, which share the clock only.
OneLimiter(buckets) ==
  \/ \A b \in CreateBuckets : buckets[b] = Absent
  \/ \A b \in Buckets \ CreateBuckets : buckets[b] = Absent

Next ==
  \/ part = "form" /\ AppNext /\ UNCHANGED <<part, assemblyVars, turnVars, gateVars>>
  \/ part = "case" /\ CaseGoesOn /\ UNCHANGED <<part, appVars, turnVars, gateVars>>
  \/ part = "claims" /\ AssemblyNext /\ detours' < 2 /\ Len(events') < 5 /\ WholeAnswers(events')
     /\ UNCHANGED <<part, appVars, turnVars, gateVars>>
  \/ part = "requests" /\ detours' = 0 /\ CaseGoesOn
     /\ UNCHANGED <<part, appVars, turnVars, gateVars>>
  \* Candidates with evidence are live: others count as if there were none.
  \/ part = "turns" /\ TurnNext
     /\ (\A id \in Catalog : case'.candidates[id].evidence # {} => case'.candidates[id].live)
     /\ UNCHANGED <<part, appVars, assemblyVars, gateVars>>
  \/ part = "gate" /\ GateNext /\ OneLimiter(bucket')
     /\ UNCHANGED <<part, appVars, assemblyVars, turnVars>>

Spec == Init /\ [][Next]_<<part, appVars, assemblyVars, turnVars, gateVars>>
==============================================================================
