----------------------------- MODULE TurnPolicy -----------------------------
(***************************************************************************)
(* What one answer does to a diagnostic case: the reasoner's proposal      *)
(* (server/reasoner.ts, server/objective-assessment.ts), the validator     *)
(* that applies or refuses it (server/validator.ts) and the question       *)
(* policy both share (server/objective-policy.ts).                         *)
(*                                                                         *)
(* A turn is accepted, reasoned about and completed in one step: how it    *)
(* gets from the one to the other is the business of DiagnosticStore and   *)
(* DiagnosticSystem. A turn is named by its place in the case. The texts   *)
(* of answers, questions and reflections are abstracted to what the        *)
(* assessment and the validator tell apart.                                *)
(***************************************************************************)
EXTENDS Integers, Sequences, FiniteSets

CONSTANTS
    ObjectiveOrder, \* diagnosticObjectiveOrder
    Required,       \* D8, D9 and D10: what a conclusion needs
    GapAccepted,    \* D6 and D8: "unknown" answers them
    VagueAccepted,  \* D6: a text without an observation is a measurement gap
    Catalog,        \* the blocker families and reasons of the packet
    Concluding,     \* the terminal states that validateTerminal has conditions for
    Early,          \* earlyTerminalStates: it has none for them
    MaxAttempts,    \* 3 in the code: the turns an objective is asked for
    MaxEvidence,    \* 12 in the code: the turns an update may cite
    Modes,          \* of "deterministic" and "mastra": how the server may be configured
    PauseAt,        \* 12 in the code
    HardBudget,     \* 15 in the code
    MaxTurns        \* bound of the exploration: MaxTurns[mode] turns of a case

Objectives == {ObjectiveOrder[i] : i \in 1..Len(ObjectiveOrder)}
None == "none"

ASSUME OrderDistinct ==
    /\ ObjectiveOrder \in Seq(STRING \ {None}) /\ ObjectiveOrder # <<>>
    /\ \A i, j \in 1..Len(ObjectiveOrder) : ObjectiveOrder[i] = ObjectiveOrder[j] => i = j
    /\ Required \subseteq Objectives
ASSUME TerminalsNamed ==
    /\ {"needs_evidence", "hypothesis_ready", "compound_blockers"} \subseteq Concluding
    /\ "user_declines" \in Early
    /\ None \notin Concluding \union Early /\ Concluding \intersect Early = {}
ASSUME BudgetsGrow == PauseAt \in Nat \ {0} /\ HardBudget \in Nat /\ PauseAt < HardBudget

VARIABLES
    mode,        \* the reasoner of this server (REASONER_MODE)
    case,        \* the DiagnosticState
    warnings,    \* ValidatedTurn.warnings is not empty: the proposal was refused in part
    askedBefore  \* the objective asked before the last answer: a handler may have read it

turnVars == <<mode, case, warnings, askedBefore>>

Index(o) == CHOOSE i \in 1..Len(ObjectiveOrder) : ObjectiveOrder[i] = o

(* The active prompts: accepted, not retracted and not spent on the pause. *)
Turns(s) == 1..Len(s.turns)
ActiveTurns(s) == {t \in Turns(s) : t \notin s.retracted /\ ~s.turns[t].control}

nextUnansweredObjective(s) ==
    LET open == {i \in 1..Len(ObjectiveOrder) : ObjectiveOrder[i] \notin s.answered}
    IN  IF open = {} THEN None ELSE ObjectiveOrder[CHOOSE i \in open : \A j \in open : i <= j]

(* No answer is compared with the wording or the options of a question:    *)
(* what is kept of them is whether it is the one that offers to stop.      *)
Question(o, pauses) == [objective |-> o, pauses |-> pauses]
defaultQuestionFor(o) == Question(o, FALSE)
NoQuestion == Question(None, FALSE)

Ask(q) == [kind |-> "question", question |-> q, terminal |-> None]
StopAt(terminal) == [kind |-> "stop", question |-> NoQuestion, terminal |-> terminal]

(***************************************************************************)
(* The deterministic proposal. It looks at the case as it was before a     *)
(* correction retracted anything.                                          *)
(***************************************************************************)

safeTerminalFor(s) ==
    LET live == {id \in Catalog : s.candidates[id].live}
    IN  IF live = {} THEN "needs_evidence"
        ELSE IF \E id \in live : live = {id} THEN "hypothesis_ready" ELSE "compound_blockers"

Proposal(answered, next) ==
    [answered |-> answered, next |-> next, updates |-> <<>>, unsupported |-> FALSE]

(* The current objective is done with: on to the next, or stop. *)
Advance(s, o) ==
    LET simulated == [s EXCEPT !.answered = @ \union {o}]
        following == nextUnansweredObjective(simulated)
    IN  Proposal(TRUE, IF following = None THEN StopAt(safeTerminalFor(simulated))
                       ELSE Ask(defaultQuestionFor(following)))

Controls == {"finish", "correct", "continue", "deeper", "bored"}

conversationControlProposal(s, e) ==
    CASE e.answer = "finish"   -> Proposal(FALSE, StopAt("user_declines"))
      [] e.answer = "continue" -> Advance(s, e.objective)
      [] OTHER                 -> Proposal(FALSE, Ask(defaultQuestionFor(e.objective)))

(* "vague" is a text the patterns of the objective find too general. *)
assessedAnswered(e) ==
    \/ e.answer \in {"specific", "choice"}
    \/ e.answer = "unknown" /\ e.objective \in GapAccepted
    \/ e.answer = "vague" /\ e.objective \in VagueAccepted

deterministicProposal(s, e) ==
    LET priorAttempts == s.attempts[e.objective]
    IN  IF ~assessedAnswered(e) /\ priorAttempts < MaxAttempts - 1
        THEN Proposal(FALSE, Ask(defaultQuestionFor(e.objective)))
        ELSE Advance(s, e.objective)

(***************************************************************************)
(* The proposals of a language model: the schema lets it propose anything, *)
(* a question to any objective, any terminal state, and updates of any     *)
(* candidates that cite any turns. Of two updates of one candidate the     *)
(* last counts. The wording and the options of a question are left out,    *)
(* and "unsupported" stands for what the validator refuses by content      *)
(* alone: a causal reflection, an identifier or a turn it has never seen,  *)
(* a reason that may not be live, a malformed question: no update is       *)
(* looked at that comes with it.                                           *)
(***************************************************************************)

Candidate(turns) ==
    [evidence : {cited \in SUBSET turns : Cardinality(cited) \in 1..MaxEvidence},
     live : BOOLEAN]
NoCandidate == [evidence |-> {}, live |-> FALSE]

Updates(s) == UNION {[ids -> Candidate(1..(Len(s.turns) + 1))] : ids \in SUBSET Catalog}

modelProposals(s) ==
    LET steps == {Ask(defaultQuestionFor(o)) : o \in Objectives}
                 \union {StopAt(terminal) : terminal \in Concluding \union Early}
    IN  [answered : BOOLEAN, next : steps, updates : Updates(s), unsupported : {FALSE}]
        \union [answered : BOOLEAN, next : steps, updates : {<<>>}, unsupported : {TRUE}]

Proposals(s, e) ==
    IF e.answer \in Controls THEN {conversationControlProposal(s, e)}
    ELSE IF mode = "deterministic" THEN {deterministicProposal(s, e)}
    ELSE modelProposals(s)

(***************************************************************************)
(* The validator.                                                          *)
(***************************************************************************)

Uncited(candidates, turns) ==
    [id \in Catalog |->
        IF candidates[id].evidence \subseteq turns THEN NoCandidate
        ELSE [candidates[id] EXCEPT !.evidence = @ \ turns]]

retractTurnOnly(s, t, o) ==
    [s EXCEPT !.answered = @ \ {o}, !.attempts[o] = 0, !.extended = FALSE,
              !.candidates = Uncited(@, {t}),
              !.retracted = @ \union {u \in Turns(s) :
                  u = t \/ Index(s.turns[u].objective) > Index(o)}]

retractTurn(s, t, o) ==
    LET invalidated == {u \in Turns(s) : u = t \/ Index(s.turns[u].objective) > Index(o)}
        Before(x) == Index(x) < Index(o)
    IN  [s EXCEPT !.answered = {x \in @ : Before(x)},
                  !.attempts = [x \in Objectives |-> IF Before(x) THEN @[x] ELSE 0],
                  !.candidates = Uncited(@, invalidated),
                  !.extended = FALSE,
                  !.retracted = @ \union invalidated]

mergeCandidates(s, updates) ==
    [id \in Catalog |-> IF id \in DOMAIN updates THEN updates[id] ELSE s.candidates[id]]

(* The turn the envelope carries is the next of the case. *)
allowedEvidence(s, e) ==
    ((Turns(s) \ s.retracted) \union {Len(s.turns) + 1}) \ e.correctionOf

contentRefused(s, e, p) ==
    \/ p.unsupported
    \/ \E t \in e.correctionOf : t \notin Turns(s) \ s.retracted
    \/ \E id \in DOMAIN p.updates : ~(p.updates[id].evidence \subseteq allowedEvidence(s, e))

acceptTurn(s, e, p) ==
    LET corrected == IF e.correctionOf = {} THEN s
                     ELSE retractTurn(s, CHOOSE t \in e.correctionOf : TRUE, e.objective)
        entry == [objective |-> e.objective, control |-> e.deeper,
                  both |-> e.deeper /\ e.answer = "continue"]
    IN  [corrected EXCEPT
            !.turns = Append(@, entry),
            !.answered = @ \union (IF p.answered THEN {e.objective} ELSE {}),
            !.attempts[e.objective] = @ + (IF e.deeper THEN 0 ELSE 1),
            !.extended = @ \/ e.deeper]

questionInOrder(s, e, p) ==
    IF p.answered THEN p.next.question.objective = nextUnansweredObjective(s)
    ELSE p.next.question.objective = e.objective

validateTerminal(s, terminal) == terminal \in Early \/ Required \subseteq s.answered

Asking(s, q) == [s EXCEPT !.question = q, !.terminal = None]
Ended(s, terminal) == [s EXCEPT !.question = NoQuestion, !.terminal = terminal]
AskNext(s) ==
    LET o == nextUnansweredObjective(s)
    IN  IF o = None THEN Ended(s, "needs_evidence") ELSE Asking(s, defaultQuestionFor(o))

budgetSpent(s) == Cardinality(ActiveTurns(s)) >= HardBudget

pauseDue(s) == Cardinality(ActiveTurns(s)) >= PauseAt /\ ~s.extended

(* The case and whether anything was refused, in the order of the code. *)
validateAndApplyProposal(s, e, p) ==
    LET refused == contentRefused(s, e, p)
        accepted == acceptTurn(s, e, p)
        merged == [accepted EXCEPT !.candidates = mergeCandidates(accepted, p.updates)]
        kept == IF refused THEN accepted ELSE merged
        asks == p.next.kind = "question"
        asked == p.next.question
        exhausted == /\ asked.objective = e.objective
                     /\ accepted.attempts[e.objective] >= MaxAttempts
        outOfOrder == IF asks THEN ~questionInOrder(accepted, e, p)
                      ELSE ~validateTerminal(accepted, p.next.terminal)
        Result(state, warned) == [state |-> state, warned |-> warned]
    IN  IF asks /\ budgetSpent(accepted)
        THEN Result(Ended(kept, "needs_evidence"), TRUE)
        ELSE IF asks /\ e.deeper
        THEN Result(Asking(accepted, defaultQuestionFor(asked.objective)), refused)
        ELSE IF asks /\ pauseDue(accepted)
        THEN Result(Asking(kept, Question(asked.objective, TRUE)), refused)
        ELSE IF asks /\ exhausted
        THEN Result(AskNext([kept EXCEPT !.answered = @ \union {e.objective}]), TRUE)
        ELSE IF refused \/ outOfOrder
        THEN Result(AskNext(accepted), TRUE)
        ELSE Result(IF asks THEN Asking(merged, asked) ELSE Ended(merged, p.next.terminal), FALSE)

(***************************************************************************)
(* A participant answers an objective, or corrects a turn of the case with *)
(* an answer to the same objective. The schema alone judges the answer: it *)
(* may tick options nobody offered, several at once, and answer a question *)
(* that was put as a text.                                                 *)
(***************************************************************************)

(* A model reads the answer itself: what it says is in its proposal, and a *)
(* text is to it what a choice is.                                         *)
Typed == IF mode = "mastra" THEN {"bored"} ELSE {"specific", "vague", "unknown", "bored"}

(* Of the conversation controls an answer ticks, the reasoner looks at the *)
(* first in this order, and the validator for "deeper" alone.              *)
Said(ticked) ==
    IF "finish" \in ticked THEN "finish"
    ELSE IF "correct" \in ticked THEN "correct"
    ELSE IF "continue" \in ticked THEN "continue"
    ELSE IF "deeper" \in ticked THEN "deeper"
    ELSE "choice"
Ticks == {[answer |-> Said(ticked), deeper |-> "deeper" \in ticked] :
                ticked \in SUBSET {"finish", "correct", "continue", "deeper"}}

Given == [answer : Typed, deeper : {FALSE}] \union Ticks

Envelope(o, given, correctionOf) ==
    [objective |-> o, answer |-> given.answer, deeper |-> given.deeper,
     correctionOf |-> correctionOf]

(* A session without a question admits an answer to any objective.         *)
Expected(o) == IF o = None THEN Objectives ELSE {o}

Process(e) ==
    /\ Len(case.turns) < MaxTurns[mode]
    /\ \E p \in Proposals(case, e) :
          LET r == validateAndApplyProposal(case, e, p)
          IN  case' = r.state /\ warnings' = r.warned
    /\ askedBefore' = case.question.objective
    /\ UNCHANGED mode

(* The objective is compared with the session that the handler has read:   *)
(* while the answer before was processed, that was still its question. A   *)
(* case that ended takes answers again once a correction of it has failed. *)
AnswerQuestion ==
    \E o \in Expected(case.question.objective) \union Expected(askedBefore), given \in Given :
        Process(Envelope(o, given, {}))

(* A turn that is retracted already is still a turn of the session, and so *)
(* is one that failed and is no part of the case (Unapplied).              *)
Unapplied == 0
CorrectTurn ==
    \E t \in Turns(case) \union {Unapplied}, o \in Objectives, given \in Given :
        /\ t \in Turns(case) => o = case.turns[t].objective
        /\ Process(Envelope(o, given, {t}))

TurnInit ==
    /\ mode \in Modes
    /\ case = [turns |-> <<>>, retracted |-> {}, answered |-> {},
               attempts |-> [o \in Objectives |-> 0],
               candidates |-> [id \in Catalog |-> NoCandidate],
               extended |-> FALSE,
               question |-> defaultQuestionFor(ObjectiveOrder[1]), terminal |-> None]
    /\ warnings = FALSE /\ askedBefore = case.question.objective

TurnNext == AnswerQuestion \/ CorrectTurn
TurnSpec == TurnInit /\ [][TurnNext]_turnVars

(***************************************************************************)
(* Properties.                                                             *)
(***************************************************************************)

(* The state is the record of server/domain.ts, and a case is either       *)
(* waiting for an answer or over.                                          *)
TurnTypeOK ==
    /\ case.turns \in Seq([objective : Objectives, control : BOOLEAN, both : BOOLEAN])
    /\ case.retracted \subseteq Turns(case)
    /\ case.answered \subseteq Objectives
    /\ case.attempts \in [Objectives -> Nat]
    /\ case.candidates \in [Catalog -> [evidence : SUBSET Turns(case), live : BOOLEAN]]
    /\ case.extended \in BOOLEAN
    /\ case.question \in [objective : Objectives \union {None}, pauses : BOOLEAN]
    /\ case.terminal \in Concluding \union Early \union {None}
    /\ askedBefore \in Objectives \union {None}
    /\ (case.question = NoQuestion) <=> (case.terminal # None)
    /\ warnings \in BOOLEAN /\ mode \in Modes

prompts(s) == Cardinality(ActiveTurns(s))
Waiting(s) == s.question # NoQuestion
Paused(s) == s.question.pauses

(* At the hard budget the case asks nothing more, however many answers     *)
(* were corrected and retracted on the way; only a proposal the validator  *)
(* has refused leads past it (validator.ts, activePromptCount).            *)
PromptBudget == Waiting(case) /\ prompts(case) >= HardBudget => warnings

(* Past the pause the case asks on only with the participant's leave, and  *)
(* a correction takes the leave back (validator.ts,                        *)
(* extendedPromptBudgetApproved), again but for a refused proposal.        *)
AsksPermission ==
    Waiting(case) /\ ~Paused(case) /\ prompts(case) >= PauseAt => case.extended \/ warnings

(* The turns an answer may rest on: those that stand as prompts, and of    *)
(* those spent on the pause the ones whose answer asked to carry on as     *)
(* well, which count as an answer and as no prompt.                        *)
RestingTurns(s) ==
    {t \in Turns(s) \ s.retracted : s.turns[t].control => s.turns[t].both}

(* No objective counts as answered, and none of a concluded case, without  *)
(* a turn that still stands: a correction of an early answer leaves no     *)
(* later objective answered by the turns it retracts (retractTurn).        *)
AnsweredRests ==
    \A o \in case.answered : \E t \in RestingTurns(case) : case.turns[t].objective = o

(* A conclusion other than "needs evidence" is reached only with an        *)
(* observation, an owner and a next move that still stand, whatever a      *)
(* model proposes (validateTerminal).                                      *)
ConclusionOwned ==
    case.terminal \in Concluding \ {"needs_evidence"} =>
        Required \subseteq {case.turns[t].objective : t \in RestingTurns(case)}

(* With either reasoner, through any answers and corrections: the case     *)
(* keeps to its budgets, and what it counts as answered or concludes rests *)
(* on turns that stand.                                                    *)
TurnsRest ==
    /\ TurnTypeOK
    /\ PromptBudget
    /\ AsksPermission
    /\ AnsweredRests
    /\ ConclusionOwned
=============================================================================
