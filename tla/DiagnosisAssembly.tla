------------------------- MODULE DiagnosisAssembly -------------------------
(***************************************************************************)
(* The diagnosis shown for a case (src/src/domain/diagnosis-assembler.ts), *)
(* with the contract for claims (evidence-validation.ts) and the gates for *)
(* comparisons (comparison-validation.ts).  The output is derived anew     *)
(* from the case, the claims proposed so far, the journeys of the Atlas    *)
(* and a comparison record; the case goes on meanwhile.                    *)
(* Here an answer also has the kinds of evidence it rests on.  The records *)
(* of the Atlas cite only sources they have: the code throws otherwise.    *)
(***************************************************************************)
EXTENDS DiagnosticCase

CONSTANTS
    Eligible,        \* the reasons the catalog allows as a diagnosis
    Cards,           \* Cards[r]: the diagnostic card of reason r
    Journeys,        \* Journeys[j]: [platform, researched], journey j of the Atlas
    Requests,        \* what may be asked: [platform, journey, comparison]
    MaxClaims,       \* bound: claims proposed
    MaxCited         \* bound: answers cited for one purpose

ASSUME AtlasIsFinite == IsFiniteSet(DOMAIN Journeys)

VARIABLES claims, request
assemblyVars == <<events, detours, claims, request>>

-----------------------------------------------------------------------------
(* Evidence and claims *)

canSupportReason == {"direct_observation", "product_data", "support_case", "developer_interview"}
canTestPrerequisite == canSupportReason \union {"participant_report"}
canAddressLookalike == canTestPrerequisite

evidenceKindsForIds(ids) == UNION {events[i].answer.kinds : i \in ids \intersect ActiveEvents}

Families == {Parent[r] : r \in Reasons}
NodeState(n) == IF n \in Reasons THEN ReasonState(n) ELSE FamilyState(n)

activeEvidenceExisting(claim) == claim.cited # {}
activeEvidence(claim) == claim.cited # {} /\ claim.cited \subseteq ActiveEvents

validateReasonSupported(claim) ==
    /\ claim.node \in Eligible \intersect DOMAIN Cards
    /\ NodeState(claim.node) \in {"live", "needs_observation"}
    /\ LET card == Cards[claim.node]
       IN  /\ card.reviewed
           /\ card.accepted \subseteq canSupportReason
           /\ evidenceKindsForIds(claim.cited)
                \intersect card.accepted \intersect canSupportReason # {}
           /\ card.prerequisites # {} =>
                evidenceKindsForIds(claim.tested)
                    \intersect card.prerequisites \intersect canTestPrerequisite # {}
           /\ card.lookalike =>
                /\ claim.excluded # {} /\ claim.excluded \subseteq ActiveEvents
                /\ evidenceKindsForIds(claim.excluded) \intersect canAddressLookalike # {}

ClaimAccepted(claim) ==
    \/ claim.type = "observation"
    \/ /\ claim.type = "family_narrowed"
       /\ claim.node \in Families /\ NodeState(claim.node) = "live"
    \/ /\ claim.type = "reason_hypothesis"
       /\ claim.node \in Reasons /\ NodeState(claim.node) \in {"live", "needs_observation"}
    \/ claim.type = "reason_supported" /\ validateReasonSupported(claim)
    \/ /\ claim.type = "action"
       /\ \E i \in claim.cited \intersect ActiveEvents : events[i].question = "next-move"

validateDiagnosticClaims ==
    {i \in DOMAIN claims :
        /\ activeEvidence(claims[i])
        /\ \A j \in DOMAIN claims : claims[j].id = claims[i].id => i = j
        /\ ClaimAccepted(claims[i])}

-----------------------------------------------------------------------------
(* Journeys and comparisons *)

Matches == {j \in DOMAIN Journeys : Journeys[j].platform = request.platform}
resolveJourney ==
    IF Matches = {} THEN "none"
    ELSE IF request.journey # "none"
         THEN IF request.journey \in Matches THEN request.journey ELSE "ambiguous"
    ELSE IF Cardinality(Matches) > 1 THEN "ambiguous"
    ELSE CHOOSE j \in Matches : TRUE

ComparisonChecks == {"goal or finish line", "structure", "sources", "peer values",
                     "agreement", "limitations", "snapshots"}
analysisEligible(record) == record.checks = ComparisonChecks /\ record.peers > 0
minimumComparisonCountMet(record) == record.peers >= 3
patternClaimEligible(record) == analysisEligible(record) /\ minimumComparisonCountMet(record)

analysisIntegrity(record) ==
    /\ analysisEligible(record)
    /\ record.declaredEligible = analysisEligible(record)
    /\ record.declaredCount = minimumComparisonCountMet(record)
    /\ record.declaredPattern = patternClaimEligible(record)

Withheld == [summary |-> "none", pattern |-> FALSE]
assembleComparison(journey, record) ==
    IF record.subject # journey THEN Withheld
    ELSE [summary |-> IF analysisIntegrity(record) /\ record.safe THEN record.summary ELSE "none",
          pattern |-> analysisIntegrity(record) /\ patternClaimEligible(record)]

-----------------------------------------------------------------------------
(* The diagnosis *)

Hypothesis(node, supported, cited) == [node |-> node, supported |-> supported, cited |-> cited]

hypothesesFromClaims ==
    {Hypothesis(claims[i].node, claims[i].type = "reason_supported", claims[i].cited) :
        i \in {j \in validateDiagnosticClaims :
                  claims[j].type \in {"family_narrowed", "reason_hypothesis", "reason_supported"}}}

(* The answers behind a live node: the discriminator, the actor or both. *)
supportingEventIds(n) ==
    LET strengthens(o) == n \in Strengthens[o] \union Touched(Strengthens[o])
    IN  (IF strengthens(Discriminated) THEN ActiveFor("catalog-discriminator") ELSE {})
        \union (IF strengthens(Actor) THEN ActiveFor("developer") ELSE {})
fallbackHypotheses ==
    {Hypothesis(n, FALSE, supportingEventIds(n)) :
        n \in {m \in Reasons \union Families : NodeState(m) = "live"}}

(* The code shows the first three; the instances have no more than that.   *)
Hypotheses == IF claims # <<>> THEN hypothesesFromClaims ELSE fallbackHypotheses

NextCheck ==
    LET actions == {i \in validateDiagnosticClaims : claims[i].type = "action"}
    IN  IF actions # {} THEN "action claim"
        ELSE IF ActiveFor("next-move") # {} THEN "recorded move"
        ELSE "observation"

Output(journey, hypotheses, comparison, next, status) ==
    [journey |-> journey, hypotheses |-> hypotheses, comparison |-> comparison,
     next |-> next, status |-> status]
missingPlatformOutput == Output("none", {}, Withheld, "intake", "platform-not-present")
ambiguousJourneyOutput == Output("none", {}, Withheld, "selection", "research-incomplete")

analysisStatus(journey, hypotheses) ==
    IF ~Journeys[journey].researched THEN "research-incomplete"
    ELSE IF \E h \in hypotheses : h.supported THEN "supported-hypothesis"
    ELSE IF \E h \in hypotheses : h.node \in Reasons THEN "plausible-hypothesis"
    ELSE IF hypotheses # {} THEN "candidate-risks"
    ELSE "insufficient-evidence"

assembleDiagnosis ==
    LET journey == resolveJourney
        hypotheses == Hypotheses
    IN  IF journey = "ambiguous" THEN ambiguousJourneyOutput
        ELSE IF journey = "none" THEN missingPlatformOutput
        ELSE Output(journey, hypotheses, assembleComparison(journey, request.comparison),
                    NextCheck, analysisStatus(journey, hypotheses))

-----------------------------------------------------------------------------
(* Operations *)

AssemblyInit == CaseInit /\ claims = <<>> /\ request \in Requests

ProposeClaim ==
    /\ Len(claims) < MaxClaims
    /\ LET cites == {c \in SUBSET {i \in DOMAIN events : IsAnswer(events[i])} :
                        Cardinality(c) <= MaxCited}
       IN  \E id \in 1..MaxClaims, cited \in cites :
             \/ \E type \in {"observation", "action"} :
                   claims' = Append(claims, [id |-> id, type |-> type, node |-> "none", cited |-> cited,
                                             tested |-> {}, excluded |-> {}])
             \/ \E type \in {"family_narrowed", "reason_hypothesis"}, n \in Reasons \union Families :
                   claims' = Append(claims, [id |-> id, type |-> type, node |-> n, cited |-> cited,
                                             tested |-> {}, excluded |-> {}])
             \/ \E n \in Reasons, tested \in cites, excluded \in cites :
                   claims' = Append(claims, [id |-> id, type |-> "reason_supported", node |-> n,
                                             cited |-> cited, tested |-> tested, excluded |-> excluded])
    /\ UNCHANGED <<events, detours, request>>

CaseGoesOn == CaseNext /\ UNCHANGED <<claims, request>>

AssemblyNext == ProposeClaim \/ CaseGoesOn
AssemblySpec == AssemblyInit /\ [][AssemblyNext]_assemblyVars

-----------------------------------------------------------------------------
(* Properties *)

(* Whatever is corrected after a claim was made, no explanation is shown   *)
(* that rests on an answer which was retracted, or that the current        *)
(* answers weaken.                                                         *)
HypothesesStand(diagnosis) ==
    \A h \in diagnosis.hypotheses :
        /\ h.cited # {} /\ h.cited \subseteq ActiveEvents
        /\ NodeState(h.node) # "weakened"

(* A supported explanation rests on an active answer of a kind that can    *)
(* support a reason by itself; any number of assumptions, anecdotes and    *)
(* reports cannot.                                                         *)
SupportIsIndependent(diagnosis) ==
    diagnosis.status = "supported-hypothesis" =>
        \E i \in ActiveEvents : events[i].answer.kinds \intersect canSupportReason # {}

(* "The assembler never silently selects among multiple developer          *)
(* journeys": the journey is the one that was asked for, or the only one.  *)
NoSilentChoice(diagnosis) ==
    LET journey == diagnosis.journey
    IN  journey # "none" =>
            /\ Journeys[journey].platform = request.platform
            /\ request.journey = journey \/ Matches = {journey}

(* A comparison that is shown is one of the journey shown, and its author  *)
(* and the evidence agree on what may be concluded from it.                *)
ComparisonAgrees(diagnosis) ==
    LET shown == diagnosis.comparison
    IN  shown # Withheld =>
            /\ request.comparison.subject = diagnosis.journey
            /\ request.comparison.declaredPattern = patternClaimEligible(request.comparison)
            /\ shown.pattern => request.comparison.peers >= 3

(* A diagnosis shows only what the answers that still stand and the        *)
(* request support: its explanations, its journey and its comparison.      *)
DiagnosisSound ==
    LET diagnosis == assembleDiagnosis
    IN  /\ HypothesesStand(diagnosis)
        /\ SupportIsIndependent(diagnosis)
        /\ NoSilentChoice(diagnosis)
        /\ ComparisonAgrees(diagnosis)
=============================================================================
