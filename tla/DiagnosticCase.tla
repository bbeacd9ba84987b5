--------------------------- MODULE DiagnosticCase ---------------------------
(***************************************************************************)
(* The deterministic diagnostic engine (src/src/domain/                    *)
(* diagnostic-engine.ts): a case is an append-only sequence of answers,    *)
(* corrections and signals, and everything else (the active answers, the   *)
(* progress of each question, the state of objectives, reasons and         *)
(* families, the next question and the decision to stop) is derived from   *)
(* it.                                                                     *)
(*                                                                         *)
(* An answer is a record [fields, value, route]: fields says whether none, *)
(* some or all of the fields the question needs are filled in, value is    *)
(* what routes the case (a stage, an option, the strength of the evidence; *)
(* NoOption when that field is missing), and route is the stage whose      *)
(* discriminator question was answered ("none" for other questions).       *)
(* Event ids are the positions in the sequence.  Reasons and their families*)
(* are the part of the catalog that the options of the instance touch; the *)
(* code adds those to the candidates whatever the stage and platform are.  *)
(***************************************************************************)
EXTENDS Naturals, Sequences, FiniteSets

CONSTANTS
    Questions,      \* the ids of the questions, in the order they are asked
    Answers,        \* Answers[q]: the answers a participant may give to q
    Special,        \* Special[o]: the special state of option o, or "none"
    Strengthens,    \* Strengthens[o], Weakens[o]: reasons and families
    Weakens,
    Reasons,
    Parent,         \* Parent[r]: the family of reason r
    Signals,        \* the case signals that may be recorded
    MaxAnswerEvents,\* the attention budget
    MaxDetours      \* bound: events other than a full answer to the target

Asked == {Questions[i] : i \in DOMAIN Questions}

ASSUME QuestionsDistinct ==
    \A i, j \in DOMAIN Questions : Questions[i] = Questions[j] => i = j

(* The stage is asked for before the discriminator that belongs to it, a   *)
(* next move is asked for, and the attention budget (14) is larger than    *)
(* the number of questions (13).                                           *)
ASSUME QuestionsInOrder ==
    /\ Questions \in Seq(STRING) /\ "next-move" \in Asked
    /\ \A i, j \in DOMAIN Questions :
          Questions[i] = "last-truth" /\ Questions[j] = "catalog-discriminator" => i < j
    /\ MaxAnswerEvents \in Nat /\ Len(Questions) < MaxAnswerEvents /\ MaxDetours \in Nat

NoOption == "no option selected"
ASSUME NoOptionTouchesNothing ==
    Strengthens[NoOption] = {} /\ Weakens[NoOption] = {} /\ Special[NoOption] = "none"

(* The options of the discriminators and of the actor question, as         *)
(* src/domain/question-routes.ts has them: an option that strengthens a    *)
(* reason weakens no other reason of its family, and the options of the    *)
(* actor weaken families as a whole.                                       *)
AnswerValues(q) == {NoOption} \union {a.value : a \in Answers[q]}
SpecialStates == {"none", "needs_external_evidence", "deliberate_non_fit", "catalog_gap",
                  "compound_blockers", "legitimate_gate"}
ASSUME OptionsAgree ==
    /\ \A o \in AnswerValues("catalog-discriminator") \union AnswerValues("developer") :
          /\ Special[o] \in SpecialStates
          /\ \A r \in Reasons \intersect Strengthens[o], x \in Reasons \intersect Weakens[o] :
                Parent[r] # Parent[x]
    /\ \A o \in AnswerValues("developer") : Weakens[o] \intersect Reasons = {}

VARIABLES events, detours   \* detours: history variable for the bound
caseVars == <<events, detours>>

AnswerKinds == {"answer_accepted", "answer_corrected"}
Answer(q, a) == [kind |-> "answer_accepted", question |-> q, answer |-> a]
Correction(q, a, target) ==
    [kind |-> "answer_corrected", question |-> q, answer |-> a, corrects |-> target]
Signal(s, cited) == [kind |-> "case_signal", signal |-> s, cited |-> cited]

-----------------------------------------------------------------------------
(* Active answers *)

IsAnswer(e) == e.kind \in AnswerKinds
Corrected(es) == {es[i].corrects : i \in {j \in DOMAIN es : es[j].kind = "answer_corrected"}}
activeAnswerEvents(es) ==
    LET corrected == Corrected(es)
    IN  {i \in DOMAIN es : IsAnswer(es[i]) /\ i \notin corrected}

ActiveEvents == activeAnswerEvents(events)
ActiveFor(q) == {i \in ActiveEvents : events[i].question = q}
NoAnswer == [fields |-> "none", value |-> NoOption, route |-> "none"]
AnswerTo(q) ==
    LET own == ActiveFor(q)
    IN  IF own = {} THEN NoAnswer ELSE events[CHOOSE i \in own : TRUE].answer

-----------------------------------------------------------------------------
(* Progress of questions and objectives *)

lastStageFromCase ==
    LET a == AnswerTo("last-truth")
    IN  IF a.fields = "none" THEN "unlocated" ELSE a.value

(* Each stage has a discriminator question of its own. *)
expectedDiscriminatorId == lastStageFromCase

Progress(q) ==
    LET a == AnswerTo(q)
    IN  IF a.fields = "none" THEN "unanswered"
        ELSE IF q = "catalog-discriminator" /\ a.route # expectedDiscriminatorId THEN "stale"
        ELSE IF a.fields = "some" THEN "partial" ELSE "satisfied"

CorrectionCount(q) ==
    Cardinality({i \in DOMAIN events :
                    events[i].kind = "answer_corrected" /\ events[i].question = q})

(* Objectives D10, D6 and D8, the ones the stop condition reads.  The      *)
(* evidence for a stop is blocked while it cannot be located.              *)
ActionChosen == Progress("next-move") = "satisfied"
LastTruthBlocked == Progress("last-truth") = "satisfied" /\ lastStageFromCase = "unlocated"
Focused == Progress("last-truth") = "satisfied"
Narrowed == Progress("catalog-discriminator") = "satisfied"

-----------------------------------------------------------------------------
(* Reasons and families.  The option of the applicable discriminator is    *)
(* applied first, then the option for the actor of the journey.            *)

Discriminated ==
    IF Progress("catalog-discriminator") \in {"partial", "satisfied"}
    THEN AnswerTo("catalog-discriminator").value ELSE NoOption
Actor == AnswerTo("developer").value

(* What one selected option does to a reason: strengthening comes first,   *)
(* and the options weaken or strengthen the whole family or the reason.    *)
ReasonAfterFamilyBlind(o, r, state) ==
    IF r \in Weakens[o] THEN "weakened"
    ELSE IF r \in Strengthens[o] THEN "live"
    ELSE IF Parent[r] \in Strengthens[o] /\ state = "not_considered" THEN "needs_observation"
    ELSE state
ReasonAfter(o, r, state) ==
    IF r \in Weakens[o] \/ Parent[r] \in Weakens[o] THEN "weakened"
    ELSE IF r \in Strengthens[o] THEN "live"
    ELSE IF Parent[r] \in Strengthens[o] /\ state = "not_considered" THEN "needs_observation"
    ELSE state
ReasonState(r) ==
    ReasonAfter(Actor, r, ReasonAfter(Discriminated, r, "not_considered"))

Touched(nodes) == {IF n \in Reasons THEN Parent[n] ELSE n : n \in nodes}
FamilyAfter(o, f, state) ==
    IF f \in Touched(Weakens[o]) THEN "weakened"
    ELSE IF f \in Touched(Strengthens[o]) THEN "live" ELSE state
FamilyState(f) ==
    FamilyAfter(Actor, f, FamilyAfter(Discriminated, f, "not_considered"))

SpecialState ==
    IF AnswerTo("profile-platform").value = "unmapped" THEN "catalog_gap"
    ELSE IF Special[Discriminated] # "none" THEN Special[Discriminated]
    ELSE Special[Actor]

-----------------------------------------------------------------------------
(* Signals, the next question and the stop *)

Standing == {"user_declines", "safety_boundary"}
SignalsInForceCited ==
    LET active == ActiveEvents
    IN  {i \in DOMAIN events : /\ events[i].kind = "case_signal"
                              /\ events[i].cited # {} /\ events[i].cited \subseteq active}
SignalsInForce ==
    SignalsInForceCited \union
    {i \in DOMAIN events : events[i].kind = "case_signal" /\ events[i].signal \in Standing}

selectNextQuestionTarget ==
    LET open == {i \in DOMAIN Questions : Progress(Questions[i]) # "satisfied"}
        first == Questions[CHOOSE i \in open : \A j \in open : i <= j]
    IN  IF Cardinality(ActiveEvents) >= MaxAnswerEvents \/ open = {} THEN [kind |-> "finish"]
        ELSE [kind |-> IF CorrectionCount(first) >= 2 THEN "recovery"
                       ELSE IF Progress(first) = "unanswered" THEN "question"
                       ELSE "clarifier",
              question |-> first]

WeakEvidenceOnly == AnswerTo("explanation-evidence").value = "weak"

Stop(state, asks) == [terminalState |-> state, shouldAsk |-> asks]

evaluateStopCondition ==
    LET signalled == {events[i].signal : i \in SignalsInForce}
        priority == <<"safety_boundary", "user_declines", "catalog_gap",
                      "compound_blockers", "legitimate_gate">>
        first == {i \in DOMAIN priority : priority[i] \in signalled}
        target == selectNextQuestionTarget
        more == target.kind # "finish"
        special == SpecialState
    IN  CASE first # {} ->
                Stop(priority[CHOOSE i \in first : \A j \in first : i <= j], FALSE)
          [] first = {} /\ special \notin {"none", "needs_external_evidence"} ->
                Stop(special, FALSE)
          [] OTHER ->
                IF special = "needs_external_evidence" \/ WeakEvidenceOnly \/ LastTruthBlocked
                THEN Stop("needs_evidence", more /\ target.question # "catalog-discriminator")
                ELSE IF ActionChosen THEN Stop("action_ready", FALSE)
                ELSE IF Narrowed THEN Stop("needs_evidence", more)
                ELSE IF Focused THEN Stop("focus_clarified", more)
                ELSE Stop("continue", more)  \* hypothesis_ready: no reason becomes supported

-----------------------------------------------------------------------------
(* Operations *)

CaseInit == events = <<>> /\ detours = 0

acceptAnswer(q, a) ==
    /\ ActiveFor(q) = {}
    /\ events' = Append(events, Answer(q, a))

correctAnswer(i, a) ==
    /\ i \in ActiveEvents
    /\ events' = Append(events, Correction(events[i].question, a, i))

appendCaseSignal(s, cited) ==
    /\ cited \subseteq ActiveEvents
    /\ s \notin Standing => cited # {}
    /\ events' = Append(events, Signal(s, cited))

Detour == detours < MaxDetours /\ detours' = detours + 1

(* The participant answers, corrects or stops as they like. *)
AnswerAnything ==
    /\ Detour
    /\ \/ \E q \in Asked : \E a \in Answers[q] : acceptAnswer(q, a)
       \/ \E i \in ActiveEvents : \E a \in Answers[events[i].question] : correctAnswer(i, a)

RaiseSignal ==
    /\ Detour
    /\ \E s \in Signals : \E cited \in SUBSET ActiveEvents : appendCaseSignal(s, cited)

(* The participant answers the question that is put to them, in full and   *)
(* for the route they are on.                                              *)
AnswerTarget ==
    LET target == selectNextQuestionTarget
    IN  /\ target.kind # "finish"
        /\ \E a \in Answers[target.question] :
              /\ a.fields = "all"
              /\ target.question = "catalog-discriminator" => a.route = expectedDiscriminatorId
              /\ IF ActiveFor(target.question) = {}
                 THEN acceptAnswer(target.question, a)
                 ELSE \E i \in ActiveFor(target.question) : correctAnswer(i, a)
        /\ UNCHANGED detours

CaseNext == AnswerAnything \/ RaiseSignal \/ AnswerTarget
CaseSpec == CaseInit /\ [][CaseNext]_caseVars

-----------------------------------------------------------------------------
(* Properties *)

EventType ==
    [kind : {"answer_accepted"}, question : Asked, answer : UNION {Answers[q] : q \in Asked}]
    \union [kind : {"answer_corrected"}, question : Asked,
            answer : UNION {Answers[q] : q \in Asked}, corrects : Nat]
    \union [kind : {"case_signal"}, signal : Signals, cited : SUBSET Nat]

(* Events are well formed, and a correction or a signal only points back.  *)
CaseTypeOK ==
    /\ events \in Seq(EventType)
    /\ detours \in 0..MaxDetours
    /\ \A i \in DOMAIN events :
          /\ events[i].kind = "answer_corrected" => events[i].corrects \in 1..(i - 1)
          /\ events[i].kind = "case_signal" => events[i].cited \subseteq 1..(i - 1)

(* Whatever is accepted, corrected, and corrected again, a question has at *)
(* most one active answer: progress, objectives and candidates, which take *)
(* the first one they find, are well defined.                              *)
OneActiveAnswer ==
    \A i, j \in ActiveEvents : events[i].question = events[j].question => i = j

(* A retraction is final: an answer that was corrected, or a signal that   *)
(* lost the evidence it cites, never counts again.                         *)
RetractionIsFinal ==
    /\ (DOMAIN events \ ActiveEvents) \intersect activeAnswerEvents(events') = {}
    /\ (DOMAIN events \ SignalsInForce) \intersect SignalsInForce' = {}

(* No later answer or correction overrules a participant who declined or a *)
(* safety boundary.                                                        *)
StandingSignalsStop ==
    evaluateStopCondition.terminalState \in Standing
        => evaluateStopCondition'.terminalState \in Standing

(* The two views of the catalog agree: a reason is not live in a family    *)
(* that the same answers weaken.  They are computed by two passes over the *)
(* options, and a family also takes the state of its reasons.              *)
LiveReasonInOpenFamily ==
    \A r \in Reasons : ReasonState(r) = "live" => FamilyState(Parent[r]) # "weakened"

(* A participant who answers what is asked, in full and for the route they *)
(* are on, settles that question and leaves every earlier one settled:     *)
(* however often answers were corrected or became stale, the questions     *)
(* come to an end.  (The only step without a detour is AnswerTarget.)      *)
QuestionsMoveOn ==
    detours' = detours =>
        LET target == selectNextQuestionTarget
        IN  \A i \in DOMAIN Questions :
               (\A j \in 1..(i - 1) : Questions[j] # target.question)
                   => Progress(Questions[i])' = "satisfied"

(* A case that is not closed is not abandoned: while nothing but the focus *)
(* is clear, there is another question to ask.                             *)
OpenCaseAsks ==
    LET decision == evaluateStopCondition
    IN  decision.terminalState \in {"continue", "focus_clarified"} => decision.shouldAsk

(* However answers are corrected and signals raised, the case that is      *)
(* folded from the events is well defined, the two views of the catalog    *)
(* agree, and an open case asks on.                                        *)
CaseSound ==
    /\ CaseTypeOK
    /\ OneActiveAnswer
    /\ LiveReasonInOpenFamily
    /\ OpenCaseAsks

(* No step of a case revives what was retracted, overrules a participant   *)
(* who declined, or unsettles what came before an answer that was given as *)
(* it was asked for.                                                       *)
CaseMovesOn ==
    [][events' # events => RetractionIsFinal /\ StandingSignalsStop /\ QuestionsMoveOn]_caseVars
=============================================================================
