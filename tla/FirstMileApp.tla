---------------------------- MODULE FirstMileApp ----------------------------
(***************************************************************************)
(* The browser form of the diagnostic (src/src/App.tsx): one participant,  *)
(* seven screens, the answers in memory, their copy in local storage, the  *)
(* import of an exported case, and the deletion of an older server         *)
(* session before the local copy.                                          *)
(*                                                                         *)
(* An action is one event handler together with the effects React runs     *)
(* after it (Commit).  Texts are reduced to what the handlers tell apart:  *)
(* filled in or not, an observed evidence or an assumption, no conclusion, *)
(* the fixed "insufficient" one or one in the participant's words.         *)
(***************************************************************************)
EXTENDS Naturals, Sequences, FiniteSets, SequencesExt, Lists

CONSTANTS DefaultSteps,    \* the steps of a new map: records [id, stage, inPath, named]
          CustomIds,       \* ids that added steps may get
          Blankable,       \* bound: ids of steps whose label may be blanked
          OlderMaps,       \* saved maps written before the journey screens existed
          PortableCases,   \* answers found in exported files
          Credentials,     \* whether an older adaptive session may be left
          MaxHistory       \* bound on the length of the history

VARIABLES screen, history, answers,  \* component state, lost by a reload
          saved,                     \* local storage
          importing,                 \* the case whose import waits for confirmation
          deletion,                  \* the confirmed reset: "none", "sent", "gone" (at the server)
          credential, server,        \* the older adaptive session, here and at the server
          minted,                    \* custom ids used so far (they are UUIDs)
          origin                     \* history variable: where the map in memory comes from

form == <<screen, history, answers>>
appVars == <<screen, history, answers, saved, importing, deletion, credential,
          server, minted, origin>>

ScreenOrder == <<"welcome", "profile", "developer", "journey-map", "break-point",
           "blocker", "summary">>
Screens == ToSet(ScreenOrder)
nextScreen(s) == ScreenOrder[CHOOSE i \in 2..7 : ScreenOrder[i-1] = s]

normalizeScreenUnchanged(s) == s
(* Screens of older versions that no longer exist. *)
normalizeScreen(s) ==
    IF s \in Screens THEN s ELSE IF s = "first-mile" THEN "developer" ELSE "profile"

(* A screen that follows itself is left out. *)
normalizeHistory(screens) ==
    LET named(n) == normalizeScreen(screens[n])
        places == Among([n \in DOMAIN screens |-> n],
                        {n \in DOMAIN screens : n = 1 \/ named(n) # named(n - 1)})
    IN  [k \in DOMAIN places |-> named(places[k])]

NoMap == [screen |-> "welcome"]
NoCase == [break |-> "no case"]

emptyAnswers ==
    [profile |-> FALSE, developer |-> FALSE, steps |-> DefaultSteps,
     furthest |-> "", break |-> "", evidence |-> "", question |-> "", answer |-> "",
     issue |-> "", lastStage |-> "", evidenceTypes |-> "", explanation |-> ""]

-----------------------------------------------------------------------------
(* Questions *)

lastStageForCatalogStage(stage) ==
    IF stage = "S01" THEN "no attempt"
    ELSE IF stage = "S02" THEN "evaluated"
    ELSE IF stage = "S03" THEN "access"
    ELSE IF stage \in {"S04", "S05"} THEN "setup"
    ELSE IF stage = "S06" THEN "result" ELSE "verified"

legacyBreakStepId(lastStage) ==
    IF lastStage \in {"evaluated", "no attempt"} THEN "encounter"
    ELSE IF lastStage \in {"access", "setup"} THEN lastStage
    ELSE IF lastStage = "result" THEN "signal"
    ELSE IF lastStage = "verified" THEN "verify" ELSE "cannot-tell"

selectDiscriminatorQuestion(lastStage) ==
    IF lastStage = "no attempt" THEN "DQ_NO_ATTEMPT"
    ELSE IF lastStage = "evaluated" THEN "DQ_DISCOVERY_EVALUATION"
    ELSE IF lastStage = "access" THEN "DQ_ACCESS_GATE"
    ELSE IF lastStage = "setup" THEN "DQ_IMPLEMENTATION"
    ELSE IF lastStage = "result" THEN "DQ_VERIFY"
    ELSE IF lastStage = "verified" THEN "DQ_REPRESENTATIVE" ELSE "DQ_MEASUREMENT"

(* One plain option and one that asks for outside evidence stand for the   *)
(* options of a question; option ids are shared between questions.         *)
OptionsOf(q) == IF q = "DQ_MEASUREMENT" THEN {"observe", "none"} ELSE {"seen", "unknown"}

ActiveSteps(a) == Among(a.steps, {s \in ToSet(a.steps) : s.inPath})
ActiveIds(a) == {s.id : s \in ToSet(ActiveSteps(a))}
IndexOf(a, id) ==
    LET at == {i \in DOMAIN ActiveSteps(a) : ActiveSteps(a)[i].id = id}
    IN  IF at = {} THEN 0 ELSE CHOOSE i \in at : \A j \in at : i <= j

LastStage(a) ==
    IF a.break \in ActiveIds(a)
    THEN lastStageForCatalogStage(ActiveSteps(a)[IndexOf(a, a.break)].stage)
    ELSE "unlocated"
Discriminator(a) == selectDiscriminatorQuestion(LastStage(a))
SelectedOption(a) == IF a.answer \in OptionsOf(Discriminator(a)) THEN a.answer ELSE ""

(* The state of a step in the summary and in both exports; special states  *)
(* of an option other than the missing evidence are left out.              *)
journeyStatus(a, step) ==
    LET index == IndexOf(a, step.id)
        furthest == IndexOf(a, a.furthest)
    IN  IF ~step.inPath THEN "Not required"
        ELSE IF a.break = "completed" THEN "Reached"
        ELSE IF a.break = step.id /\ SelectedOption(a) \in {"unknown", "none"} THEN "Needs evidence"
        ELSE IF a.furthest # "none" /\ index <= furthest THEN "Reached"
        ELSE IF step.id = a.break THEN "Unresolved"
        ELSE IF a.furthest # "none" /\ a.break = "cannot-tell" THEN "Unknown"
        ELSE "Untested"

(* Answers saved by an older version, and by this one, when they are read. *)
migrateAnswers(a) ==
    [a EXCEPT !.steps = IF a.steps = <<>> THEN DefaultSteps ELSE @,
              !.break = IF @ = "" /\ a.lastStage # "" THEN legacyBreakStepId(a.lastStage) ELSE @,
              !.evidence = IF @ = "" THEN a.evidenceTypes ELSE @,
              !.issue = IF @ = "" THEN a.explanation ELSE @]

-----------------------------------------------------------------------------
(* Effects.  Entering the blocker screen, or changing the route on it,     *)
(* replaces the question; the measurement question concludes by itself.    *)

Settle(s, a) ==
    LET asked == IF s = "blocker" /\ a.question # Discriminator(a)
                 THEN [a EXCEPT !.question = Discriminator(a), !.answer = "", !.issue = ""]
                 ELSE a
    IN  IF s = "blocker" /\ asked.question = "DQ_MEASUREMENT" /\ asked.answer # ""
        THEN [asked EXCEPT !.issue = "insufficient"]
        ELSE asked

Commit(s, h, a) ==
    LET settled == Settle(s, a)
    IN  /\ screen' = s
        /\ history' = h
        /\ answers' = settled
        /\ saved' = IF s = "welcome" THEN saved
                    ELSE [screen |-> s, history |-> h, answers |-> settled, origin |-> origin']

Blank == screen' = "welcome" /\ history' = <<>> /\ answers' = emptyAnswers

AppInit ==
    /\ screen = "welcome" /\ history = <<>> /\ answers = emptyAnswers
    /\ saved \in {NoMap} \union OlderMaps
    /\ importing = NoCase
    /\ deletion = "none"
    /\ credential \in Credentials
    /\ server = (IF credential THEN "live" ELSE "gone")
    /\ minted = {}
    /\ origin = "new"

remote == <<importing, deletion, credential, server>>

(* A handler that changes only the answers. *)
Edit(a) == UNCHANGED <<remote, origin>> /\ Commit(screen, history, a)

goTo(s, a) ==
    /\ Len(history) < MaxHistory
    /\ UNCHANGED <<remote, minted, origin>>
    /\ Commit(s, Append(history, screen), a)

-----------------------------------------------------------------------------
(* Welcome, saved maps and imports *)

Start == screen = "welcome" /\ goTo("profile", answers)

Resume ==
    /\ screen = "welcome" /\ saved # NoMap
    /\ origin' = IF saved.origin = "older" THEN "older" ELSE "resumed"
    /\ Commit(normalizeScreen(saved.screen), normalizeHistory(saved.history),
              migrateAnswers(saved.answers))
    /\ UNCHANGED <<remote, minted>>

PreviewImport(case) ==
    /\ screen = "welcome"
    /\ importing' = case
    /\ UNCHANGED <<form, saved, deletion, credential, server, minted, origin>>

CancelImport ==
    /\ importing # NoCase
    /\ importing' = NoCase
    /\ UNCHANGED <<form, saved, deletion, credential, server, minted, origin>>

AcceptImport ==
    /\ importing # NoCase
    /\ origin' = "resumed"
    /\ Commit("summary", <<>>, migrateAnswers(importing))
    /\ importing' = NoCase
    /\ minted' = minted \union ({s.id : s \in ToSet(importing.steps)} \intersect CustomIds)
    /\ UNCHANGED <<deletion, credential, server>>

-----------------------------------------------------------------------------
(* The screens of the form *)

FillIn == /\ screen \in {"profile", "developer"}
          /\ Edit([answers EXCEPT ![screen] = ~ @])
          /\ UNCHANGED minted

(* What leaves the answers when step id leaves the journey. *)
Forget(a, id) ==
    [a EXCEPT !.furthest = IF @ = id THEN "" ELSE @,
              !.break = IF @ = id THEN "" ELSE @,
              !.question = IF a.break = id THEN "" ELSE @,
              !.answer = IF a.break = id THEN "" ELSE @,
              !.issue = IF a.break = id THEN "" ELSE @]

updateJourneyStep(i) ==
    LET step == answers.steps[i]
        with(new) == [answers EXCEPT !.steps[i] = new]
    IN  /\ screen = "journey-map"
        /\ \/ Edit(IF step.inPath THEN Forget(with([step EXCEPT !.inPath = FALSE]), step.id)
                                  ELSE with([step EXCEPT !.inPath = TRUE]))
           \/ step.id \in Blankable /\ Edit(with([step EXCEPT !.named = ~ @]))
        /\ UNCHANGED minted

addJourneyStep(id) ==
    /\ screen = "journey-map" /\ id \in CustomIds \ minted
    /\ Edit([answers EXCEPT !.steps =
               Append(@, [id |-> id, stage |-> "S05", inPath |-> TRUE, named |-> TRUE])])
    /\ minted' = minted \union {id}

removeJourneyStep(id) ==
    /\ screen = "journey-map" /\ id \in CustomIds /\ id \in {s.id : s \in ToSet(answers.steps)}
    /\ Edit(Forget([answers EXCEPT !.steps = Among(@, {s \in ToSet(@) : s.id # id})], id))
    /\ UNCHANGED minted

Place(a, furthest, break) ==
    [a EXCEPT !.furthest = furthest, !.break = break,
              !.evidence = "", !.answer = "", !.issue = ""]

(* The step that broke counts as reached. *)
ChooseBreakOffByOne ==
    /\ screen = "break-point" /\ answers.break = ""
    /\ \E i \in DOMAIN ActiveSteps(answers) :
          Edit(Place(answers, ActiveSteps(answers)[i].id, ActiveSteps(answers)[i].id))
    /\ UNCHANGED minted

ChooseBreak ==
    /\ screen = "break-point" /\ answers.break = ""
    /\ LET path == ActiveSteps(answers) IN
       \/ \E i \in DOMAIN path :
             Edit(Place(answers, IF i = 1 THEN "none" ELSE path[i-1].id, path[i].id))
       \/ Edit(Place(answers, "none", "cannot-tell"))
       \/ Edit(Place(answers, IF path = <<>> THEN "none" ELSE Last(path).id, "completed"))
    /\ UNCHANGED minted

ChangeBreak ==
    /\ screen = "break-point" /\ answers.break # ""
    /\ Edit(Place(answers, "", ""))
    /\ UNCHANGED minted

ChooseEvidence(e) ==
    /\ screen = "break-point" /\ answers.break # ""
    /\ answers.break = "completed" => e # "assumption"
    /\ Edit([answers EXCEPT !.evidence = e])
    /\ UNCHANGED minted

ChooseObservation(option) ==
    /\ screen = "blocker" /\ SelectedOption(answers) = ""
    /\ option \in OptionsOf(Discriminator(answers))
    /\ Edit([answers EXCEPT !.question = Discriminator(answers), !.answer = option, !.issue = ""])
    /\ UNCHANGED minted

ChangeObservation ==
    /\ screen = "blocker" /\ SelectedOption(answers) # ""
    /\ Edit([answers EXCEPT !.answer = "", !.issue = ""])
    /\ UNCHANGED minted

(* The two buttons and the text field of the conclusion. *)
Conclude(issue) ==
    /\ screen = "blocker" /\ SelectedOption(answers) # ""
    /\ Discriminator(answers) # "DQ_MEASUREMENT"
    /\ Edit([answers EXCEPT !.issue = issue])
    /\ UNCHANGED minted

-----------------------------------------------------------------------------
(* Moving between the screens *)

Valid ==
    CASE screen = "profile" -> answers.profile
      [] screen = "developer" -> answers.developer
      [] screen = "journey-map" ->
            Cardinality({i \in DOMAIN answers.steps :
                            answers.steps[i].inPath /\ answers.steps[i].named}) >= 3
      [] screen = "break-point" -> "" \notin {answers.furthest, answers.break, answers.evidence}
      [] screen = "blocker" -> answers.answer # "" /\ answers.issue # ""

(* Two steps are named after the action and the signal of first success. *)
Named(step) == [step EXCEPT !.named = @ \/ step.id \in {"execute", "verify"}]

continueFromCurrent ==
    /\ screen \notin {"welcome", "summary"}
    /\ Valid
    /\ \/ /\ screen = "break-point"
          /\ goTo(IF answers.break = "completed" THEN "summary" ELSE "blocker",
                  [answers EXCEPT !.lastStage = LastStage(answers),
                                  !.evidenceTypes = answers.evidence,
                                  !.question = Discriminator(answers),
                                  !.answer = "", !.issue = ""])
       \/ /\ screen = "blocker"
          /\ goTo("summary", [answers EXCEPT !.explanation = answers.issue])
       \/ /\ screen = "developer"
          /\ goTo("journey-map", [answers EXCEPT !.steps = [i \in DOMAIN @ |-> Named(@[i])]])
       \/ /\ screen \in {"profile", "journey-map"}
          /\ goTo(nextScreen(screen), answers)

goBack ==
    /\ screen \notin {"welcome", "summary"} /\ history # <<>>
    /\ UNCHANGED <<remote, minted, origin>>
    /\ Commit(Last(history), Front(history), answers)

Revise ==
    /\ screen = "summary"
    /\ \/ goTo("break-point", answers)
       \/ answers.break # "completed" /\ goTo("journey-map", answers)

-----------------------------------------------------------------------------
(* Start over: the server session goes first *)

Erase ==
    /\ Blank
    /\ saved' = NoMap
    /\ origin' = "new"

(* The local copy is erased without waiting for the server. *)
ConfirmResetAtOnce ==
    /\ deletion = "none" /\ screen # "welcome"
    /\ Blank /\ saved' = NoMap /\ origin' = "new"
    /\ deletion' = IF credential THEN "sent" ELSE "none"
    /\ UNCHANGED <<importing, credential, server, minted>>

ConfirmReset ==
    /\ deletion = "none" /\ screen # "welcome"
    /\ IF credential
       THEN deletion' = "sent" /\ UNCHANGED <<form, saved, origin>>
       ELSE Erase /\ UNCHANGED deletion
    /\ UNCHANGED <<importing, credential, server, minted>>

DeletionArrives ==
    /\ deletion = "sent"
    /\ deletion' = "gone" /\ server' = "gone"
    /\ UNCHANGED <<form, saved, importing, credential, minted, origin>>

(* 2xx or 404 *)
DeletionConfirmed ==
    /\ deletion = "gone"
    /\ deletion' = "none" /\ credential' = FALSE
    /\ Erase
    /\ UNCHANGED <<importing, server, minted>>

(* An error, or eight seconds without an answer. *)
DeletionFails ==
    /\ deletion # "none"
    /\ deletion' = "none"
    /\ UNCHANGED <<form, saved, importing, credential, server, minted, origin>>

(* The page is closed or reloaded at any moment. *)
Reload ==
    /\ form # <<"welcome", <<>>, emptyAnswers>> \/ deletion # "none"
    /\ Blank
    /\ origin' = "new"
    /\ importing' = NoCase /\ deletion' = "none"
    /\ UNCHANGED <<saved, credential, server, minted>>

Step ==
    \/ Start \/ Resume \/ CancelImport \/ AcceptImport
    \/ \E case \in PortableCases : PreviewImport(case)
    \/ FillIn \/ ChooseBreak \/ ChangeBreak \/ ChangeObservation
    \/ \E i \in DOMAIN answers.steps : updateJourneyStep(i)
    \/ \E id \in CustomIds : addJourneyStep(id) \/ removeJourneyStep(id)
    \/ \E e \in {"", "observed", "assumption"} : ChooseEvidence(e)
    \/ \E o \in {"seen", "unknown", "observe", "none"} : ChooseObservation(o)
    \/ \E issue \in {"", "insufficient", "explained"} : Conclude(issue)
    \/ continueFromCurrent \/ goBack \/ Revise

AppNext ==
    \/ Step
    \/ ConfirmReset \/ DeletionArrives \/ DeletionConfirmed \/ DeletionFails \/ Reload

AppSpec == AppInit /\ [][AppNext]_appVars

-----------------------------------------------------------------------------
(* Properties *)

StepIds == {s.id : s \in ToSet(DefaultSteps)} \union CustomIds
Breaks == {"", "cannot-tell", "completed", "encounter", "access", "setup", "signal", "verify"}
            \union StepIds
Stages == {"S01", "S02", "S03", "S04", "S05", "S06", "S07"}
LastStages == {"", "no attempt", "evaluated", "access", "setup", "result", "verified", "unlocated"}
QuestionIds == {"", "DQ_NO_ATTEMPT", "DQ_DISCOVERY_EVALUATION", "DQ_ACCESS_GATE",
                "DQ_IMPLEMENTATION", "DQ_VERIFY", "DQ_REPRESENTATIVE", "DQ_MEASUREMENT"}
StepRecords == [id : StepIds, stage : Stages, inPath : BOOLEAN, named : BOOLEAN]
FormAnswers ==
    [profile : BOOLEAN, developer : BOOLEAN, steps : Seq(StepRecords),
     furthest : {"", "none"} \union StepIds, break : Breaks,
     evidence : {"", "observed", "assumption"}, question : QuestionIds,
     answer : {""} \union OptionsOf("DQ_MEASUREMENT") \union OptionsOf("DQ_VERIFY"),
     issue : {"", "insufficient", "explained"}, lastStage : LastStages,
     evidenceTypes : {"", "observed", "assumption"},
     explanation : {"", "insufficient", "explained"}]

(* The steps of a new map have ids of their own, and what older versions   *)
(* saved and exports contain has the shape that validation demands.        *)
ASSUME StepsAreKnown ==
    /\ DefaultSteps \in Seq(StepRecords)
    /\ \A i, j \in DOMAIN DefaultSteps : DefaultSteps[i].id = DefaultSteps[j].id => i = j
    /\ {s.id : s \in ToSet(DefaultSteps)} \intersect CustomIds = {}
    /\ StepIds \intersect {"", "none", "cannot-tell", "completed"} = {}
ASSUME CopiesAreKnown ==
    /\ \A map \in OlderMaps :
          map.history \in Seq(STRING) /\ migrateAnswers(map.answers) \in FormAnswers
    /\ \A case \in PortableCases : migrateAnswers(case) \in FormAnswers

(* Every screen of the form finds answers it can show, and every map it    *)
(* saves can be resumed: App.tsx keeps screen, history and answers in      *)
(* separate state hooks and writes them together.                          *)
FormTypeOK ==
    /\ screen \in Screens /\ history \in Seq(Screens)
    /\ answers \in FormAnswers
    /\ (saved = NoMap \/ saved \in OlderMaps \/ saved.answers \in FormAnswers)
    /\ deletion \in {"none", "sent", "gone"}
    /\ minted \subseteq CustomIds
    /\ origin \in {"new", "resumed", "older"}

(* As long as a map is worked through without being reopened, the break    *)
(* and the furthest step point into the path that is left: taking a step   *)
(* out on any screen, then walking back and forth, never leaves the        *)
(* verdict on a step that is no longer part of the journey.                *)
BreakInJourney ==
    origin = "new" =>
        /\ answers.break \in {"", "cannot-tell", "completed"} \union ActiveIds(answers)
        /\ answers.furthest \in {"", "none"} \union ActiveIds(answers)

(* The map of the summary and of the exports agrees with its verdict: no   *)
(* step from the break onwards is reported as reached, however the path    *)
(* was edited after the break was chosen.                                  *)
ReachedLiesBeforeBreak ==
    origin = "new" /\ answers.break \in ActiveIds(answers) =>
        \A step \in ToSet(ActiveSteps(answers)) :
            IndexOf(answers, step.id) >= IndexOf(answers, answers.break) =>
                journeyStatus(answers, step) # "Reached"

(* The observation shown beside a break answers the question that break    *)
(* leads to.  The option ids of the questions overlap, so a stale answer   *)
(* would show the next observation of another question.                    *)
AnswerFitsBreak ==
    origin = "new" /\ answers.answer # "" =>
        /\ answers.question = Discriminator(answers)
        /\ answers.answer \in OptionsOf(answers.question)

(* First success is never confirmed by a team assumption, in a map worked  *)
(* through without being reopened: the evidence of an earlier break does   *)
(* not survive the choice "They reached first success".                    *)
CompletionIsEvidenced ==
    origin = "new" /\ answers.break = "completed" => answers.evidence # "assumption"

(* A local copy is erased, and the credential of an older session given    *)
(* up, only when no such session is left at the server, whatever reply is  *)
(* lost and whenever the page is reloaded (reset, clearAll).               *)
LocalCopyGoesLast ==
    [][/\ saved # NoMap /\ saved' = NoMap => server' = "gone"
       /\ credential /\ ~credential' => server' = "gone"]_appVars

(* A reload loses nothing: what is on the screen after Welcome is what     *)
(* local storage holds.                                                    *)
SavedIsShown ==
    screen # "welcome" =>
        saved = [screen |-> screen, history |-> history, answers |-> answers,
                 origin |-> origin]

(* Whatever is edited, walked back over and reloaded, the parts of a map   *)
(* that the screens keep apart agree with each other: break, furthest      *)
(* step, path, question, observation, and the saved copy.                  *)
JourneyAgrees ==
    /\ FormTypeOK
    /\ BreakInJourney
    /\ ReachedLiesBeforeBreak
    /\ AnswerFitsBreak
    /\ CompletionIsEvidenced
    /\ SavedIsShown
=============================================================================
