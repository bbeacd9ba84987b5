--------------------------- MODULE ResearchClaims ---------------------------
(***************************************************************************)
(* Shared research in the Journey Atlas, Postgres mode: visitors who ask   *)
(* for the same platform share one Render run through a research_claims    *)
(* row (packages/journey-corpus/src/db/researchClaims.ts), which the HTTP  *)
(* handlers startResearch and getResearchStatus read and write             *)
(* (src/api/research.ts).  No transaction spans two statements: each SQL   *)
(* statement and each call to Render is a step, and the handlers of all    *)
(* web instances interleave between them.  Claims of different platforms   *)
(* do not interact, so one slug is modelled.                               *)
(***************************************************************************)
EXTENDS Naturals, FiniteSets

CONSTANTS
  Requests,    \* concurrent startResearch handlers
  Polls,       \* concurrent getResearchStatus handlers
  Platforms,   \* spellings that normalise to this slug
  NoPlatform,  \* no spelling yet
  MaxKeys      \* bound: submission identities, that is values of startedAt

ASSUME ResearchAssumption == MaxKeys \in Nat \ {0} /\ NoPlatform \notin Platforms

VARIABLES
  claim,      \* the research_claims row; status "absent": no row
  age,        \* how long ago its startedAt is: under 60 s, under 24 h, or more
  lastKey,    \* the newest startedAt ever given out; later ones are larger
  request,    \* what each startResearch handler knows and does next
  poll,       \* what each getResearchStatus handler knows and does next
  run,        \* run[k]: the run Render keeps for the submission key slug:k
  submitted,  \* <<key, platform>> of every submission sent to Render
  transit,    \* submissions whose caller has stopped waiting
  draft       \* the slug has a saved research draft

researchVars == <<claim, age, lastKey, request, poll, run, submitted, transit, draft>>

\* startedAt identifies an attempt; Render names its run, so run ids are keys too (0: "").
Keys == 1..MaxKeys
RunIds == Keys \cup {0}

ClaimRow ==
  [status : {"absent", "claiming", "pending", "completed", "failed"},
   runId : RunIds, platform : Platforms \cup {NoPlatform}, startedAt : RunIds]
NoClaim ==
  [status |-> "absent", runId |-> 0, platform |-> NoPlatform, startedAt |-> 0]

RequestRecord ==
  [stage : {"idle", "find", "create", "refind", "stale", "replace", "current",
            "start", "attach", "fail", "refuse"},
   platform : Platforms \cup {NoPlatform},   \* what the visitor typed
   again : BOOLEAN,          \* this is the second beginResearchClaim
   acquired : BOOLEAN,       \* the claim was taken by this handler
   seen : ClaimRow]          \* the row as this handler last read it
IdleRequest ==
  [stage |-> "idle", platform |-> NoPlatform, again |-> FALSE, acquired |-> FALSE,
   seen |-> NoClaim]

PollRecord ==
  [stage : {"idle", "persist", "completeSlug", "completeRun", "failRun"}, run : RunIds]
IdlePoll == [stage |-> "idle", run |-> 0]

ResearchInit ==
  /\ claim = NoClaim /\ age = "fresh" /\ lastKey = 0
  /\ request = [h \in Requests |-> IdleRequest]
  /\ poll = [p \in Polls |-> IdlePoll]
  /\ run = [k \in Keys |-> "none"]
  /\ submitted = {} /\ transit = {}
  /\ draft = FALSE

Exists == claim.status # "absent"

\* Mistake: a pending claim is given up after a while although its run is known.
ActiveForAWhile ==
  \/ claim.status = "completed"
  \/ claim.status = "pending" /\ claim.runId # 0 /\ age = "fresh"
  \/ claim.status = "claiming" /\ age = "fresh"

\* findActiveResearchClaim returns this row.
Active ==
  \/ claim.status = "completed"
  \/ claim.status = "pending" /\ claim.runId # 0
  \/ claim.status = "claiming" /\ age = "fresh"

\* Without a run id the earlier submission may have reached Render.
Uncertain(c) == c.runId = 0

NewClaim(typed) ==
  [status |-> "claiming", runId |-> 0, platform |-> typed, startedAt |-> lastKey + 1]

Goto(h, stage) == request' = [request EXCEPT ![h].stage = stage]
Finish(h) == request' = [request EXCEPT ![h] = IdleRequest]
OnlyClaim == UNCHANGED <<poll, run, submitted, transit, draft>>

-----------------------------------------------------------------------------
(* Mistakes.  Each definition repeats one below with a mistake a           *)
(* maintainer could make; no specification uses them (README.md,           *)
(* "Sensitivity").                                                         *)

\* A takeover of an uncertain attempt starts a new one.
ReplacementRestarted(old, typed) ==
  IF Uncertain(old)
  THEN [old EXCEPT !.status = "claiming", !.startedAt = @ + 1]
  ELSE NewClaim(typed)

\* A takeover of an uncertain attempt submits its own spelling.
ReplacementRetyped(old, typed) ==
  IF Uncertain(old)
  THEN [old EXCEPT !.status = "claiming", !.platform = typed]
  ELSE NewClaim(typed)

\* The UPDATE does not compare the status.
SameAttempt(c, seen) == c.startedAt = seen.startedAt /\ c.runId = seen.runId

\* A failed run releases the row of the slug, not only its own.
PollFailsSlug(p) ==
  /\ poll[p].stage = "failRun"
  /\ claim' = IF claim.status \in {"claiming", "pending"}
              THEN [claim EXCEPT !.status = "failed"] ELSE claim
  /\ poll' = [poll EXCEPT ![p] = IdlePoll]
  /\ UNCHANGED <<age, lastKey, request, run, submitted, transit, draft>>

-----------------------------------------------------------------------------
(* startResearch: beginResearchClaim, once or twice.                       *)

\* The handler first deletes rows past retention: CleanupClaim.
RequestArrives(h, typed) ==
  /\ request[h].stage = "idle"
  /\ request' = [request EXCEPT ![h] = [IdleRequest EXCEPT !.stage = "find", !.platform = typed]]
  /\ UNCHANGED <<claim, age, lastKey>> /\ OnlyClaim

\* What the handler does with the claim that beginResearchClaim returns.
Answer(h, row, acquired) ==
  LET again == request[h].again
      shared == row.runId # 0 \/ (~again /\ row.status = "completed" /\ draft)
  IN \/ /\ acquired /\ ~again
        /\ request' = [request EXCEPT ![h] =
             [IdleRequest EXCEPT !.stage = "start", !.seen = row, !.acquired = TRUE]]
     \/ /\ ~acquired /\ shared
        /\ Finish(h)
     \/ /\ ~acquired /\ ~shared /\ ~again      \* waits 400 ms and begins again
        /\ request' = [request EXCEPT ![h].stage = "find", ![h].again = TRUE]
     \/ /\ again /\ (acquired \/ ~shared)
        /\ request' = [request EXCEPT ![h].stage = "refuse", ![h].acquired = acquired]

FindActive(h) ==
  /\ request[h].stage = "find"
  /\ IF Active THEN Answer(h, claim, FALSE) ELSE Goto(h, "create")
  /\ UNCHANGED <<claim, age, lastKey>> /\ OnlyClaim

CreateClaim(h) ==
  /\ request[h].stage = "create"
  /\ \/ /\ ~Exists /\ lastKey < MaxKeys
        /\ claim' = NewClaim(request[h].platform)
        /\ lastKey' = lastKey + 1 /\ age' = "fresh"
        /\ Answer(h, claim', TRUE)
     \/ /\ Exists                               \* P2002: the row exists
        /\ Goto(h, "refind")
        /\ UNCHANGED <<claim, age, lastKey>>
  /\ OnlyClaim

FindActiveAgain(h) ==
  /\ request[h].stage = "refind"
  /\ IF Active THEN Answer(h, claim, FALSE) ELSE Goto(h, "stale")
  /\ UNCHANGED <<claim, age, lastKey>> /\ OnlyClaim

\* ResearchSubmissionExpired
TooOld == ~Active /\ Uncertain(claim) /\ age = "expired"

\* Only an inactive row is replaced, and an uncertain one only while Render remembers
\* its key; otherwise the handler answers with an error.
ReadStale(h) ==
  /\ request[h].stage = "stale"
  /\ \/ /\ Active /\ claim.status = "pending"
        /\ Answer(h, claim, FALSE)
     \/ /\ Exists /\ ~Active /\ ~TooOld
        /\ request' = [request EXCEPT ![h].stage = "replace", ![h].seen = claim]
     \/ /\ ~Exists \/ TooOld \/ (Active /\ claim.status # "pending")
        /\ Finish(h)
  /\ UNCHANGED <<claim, age, lastKey>> /\ OnlyClaim

\* An uncertain attempt keeps its input and start time; a finished one gets new ones.
Replacement(old, typed) ==
  IF Uncertain(old)
  THEN [old EXCEPT !.status = "claiming"]
  ELSE NewClaim(typed)

\* The WHERE clause of the UPDATE: the row is still the one this handler read.
SameIdentity(c, seen) ==
  c.status = seen.status /\ c.startedAt = seen.startedAt /\ c.runId = seen.runId

ReplaceClaim(h) ==
  LET seen == request[h].seen
      matches == SameIdentity(claim, seen)
  IN /\ request[h].stage = "replace"
     /\ matches /\ ~Uncertain(seen) => lastKey < MaxKeys
     /\ claim' = IF matches THEN Replacement(seen, request[h].platform) ELSE claim
     /\ IF matches /\ ~Uncertain(seen)
        THEN lastKey' = lastKey + 1 /\ age' = "fresh"
        ELSE UNCHANGED <<lastKey, age>>
     /\ request' = [request EXCEPT ![h].stage = "current", ![h].acquired = matches,
                      ![h].seen = NoClaim]
     /\ OnlyClaim

\* The row is read back in a statement of its own: another handler may have changed it.
ReadCurrent(h) ==
  /\ request[h].stage = "current"
  /\ IF Exists THEN Answer(h, claim, request[h].acquired) ELSE Finish(h)
  /\ UNCHANGED <<claim, age, lastKey>> /\ OnlyClaim

\* 409 claim_in_progress.
Refuse(h) ==
  /\ request[h].stage = "refuse"
  /\ Finish(h)
  /\ UNCHANGED <<claim, age, lastKey>> /\ OnlyClaim

-----------------------------------------------------------------------------
(* startResearch: the submission to Render and its result.                 *)

\* Render ignores the input of a key it knows.
Deliver(key) == run' = [run EXCEPT ![key] = IF @ = "none" THEN "live" ELSE @]

StartRun(h) ==
  LET c == request[h].seen
  IN /\ request[h].stage = "start"
     /\ submitted' = submitted \cup {<<c.startedAt, c.platform>>}
     /\ Deliver(c.startedAt)
     /\ Goto(h, "attach")
     /\ UNCHANGED <<claim, age, lastKey, poll, transit, draft>>

\* The call fails or its reply is lost; the submission may still arrive.
StartRunLost(h) ==
  LET c == request[h].seen
  IN /\ request[h].stage = "start"
     /\ submitted' = submitted \cup {<<c.startedAt, c.platform>>}
     /\ transit' = transit \cup {c.startedAt}
     /\ Goto(h, "fail")
     /\ UNCHANGED <<claim, age, lastKey, poll, run, draft>>

SubmissionArrives(key) ==
  /\ transit' = transit \ {key}
  /\ Deliver(key)
  /\ UNCHANGED <<claim, age, lastKey, request, poll, submitted, draft>>

SubmissionDropped(key) ==
  /\ transit' = transit \ {key}
  /\ UNCHANGED <<claim, age, lastKey, request, poll, run, submitted, draft>>

\* attachResearchRunId: only for the attempt that was submitted, and only once.
AttachRunId(h) ==
  LET key == request[h].seen.startedAt
      matches == /\ claim.startedAt = key /\ claim.runId = 0
                 /\ claim.status \in {"claiming", "failed"}
  IN /\ request[h].stage = "attach"
     /\ claim' = IF matches THEN [claim EXCEPT !.runId = key, !.status = "pending"] ELSE claim
     /\ Finish(h)
     /\ UNCHANGED <<age, lastKey>> /\ OnlyClaim

\* The UPDATE throws; the handler treats the submission as failed.
AttachErrs(h) ==
  /\ request[h].stage = "attach"
  /\ Goto(h, "fail")
  /\ UNCHANGED <<claim, age, lastKey>> /\ OnlyClaim

\* failResearchClaim
FailClaim(h) ==
  LET matches == /\ claim.startedAt = request[h].seen.startedAt
                 /\ claim.runId = 0 /\ claim.status = "claiming"
  IN /\ request[h].stage = "fail"
     /\ claim' = IF matches THEN [claim EXCEPT !.status = "failed"] ELSE claim
     /\ Finish(h)
     /\ UNCHANGED <<age, lastKey>> /\ OnlyClaim

\* A statement throws outside the inner try, the capacity is reached, or the
\* process ends: the handler is gone and the row stays as it is.
RequestDies(h) ==
  /\ request[h].stage # "idle"
  /\ Finish(h)
  /\ UNCHANGED <<claim, age, lastKey>> /\ OnlyClaim

-----------------------------------------------------------------------------
(* getResearchStatus                                                       *)

PollGoes(p, stage) == poll' = [poll EXCEPT ![p].stage = stage]
PollEnds(p) == poll' = [poll EXCEPT ![p] = IdlePoll]

\* Only a finished run makes the handler write anything.
PollReads(p, k) ==
  /\ poll[p].stage = "idle"
  /\ run[k] \in {"draft", "kept", "failed"}
  /\ poll' = [poll EXCEPT ![p] =
       [run |-> k, stage |-> CASE run[k] = "draft"  -> "persist"
                               [] run[k] = "kept"   -> "completeRun"
                               [] run[k] = "failed" -> "failRun"]]
  /\ UNCHANGED <<claim, age, lastKey, request, run, submitted, transit, draft>>

PollPersists(p) ==
  /\ poll[p].stage = "persist"
  /\ draft' = TRUE
  /\ PollGoes(p, "completeSlug")
  /\ UNCHANGED <<claim, age, lastKey, request, run, submitted, transit>>

\* completeResearchClaim: by slug, whatever attempt the row is at.
PollCompletesSlug(p) ==
  /\ poll[p].stage = "completeSlug"
  /\ claim' = IF Exists THEN [claim EXCEPT !.status = "completed"] ELSE claim
  /\ PollGoes(p, "completeRun")
  /\ UNCHANGED <<age, lastKey, request, run, submitted, transit, draft>>

\* completeResearchClaimByRunId
PollCompletesRun(p) ==
  /\ poll[p].stage = "completeRun"
  /\ claim' = IF Exists /\ claim.runId = poll[p].run
              THEN [claim EXCEPT !.status = "completed"] ELSE claim
  /\ PollEnds(p)
  /\ UNCHANGED <<age, lastKey, request, run, submitted, transit, draft>>

\* failResearchClaimByRunId
PollFailsRun(p) ==
  /\ poll[p].stage = "failRun"
  /\ claim' = IF claim.runId = poll[p].run /\ claim.status \in {"claiming", "pending"}
              THEN [claim EXCEPT !.status = "failed"] ELSE claim
  /\ PollEnds(p)
  /\ UNCHANGED <<age, lastKey, request, run, submitted, transit, draft>>

\* A statement throws or the process ends.
PollDies(p) ==
  /\ poll[p].stage # "idle"
  /\ PollEnds(p)
  /\ UNCHANGED <<claim, age, lastKey, request, run, submitted, transit, draft>>

-----------------------------------------------------------------------------
(* Render and the clock.                                                   *)

\* "draft": a completed record; "kept": known or review_required; "failed": every
\* other outcome, failure or cancellation.
RunEnds(k) ==
  /\ run[k] = "live"
  /\ \E outcome \in {"draft", "kept", "failed"} : run' = [run EXCEPT ![k] = outcome]
  /\ UNCHANGED <<claim, age, lastKey, request, poll, submitted, transit, draft>>

ClaimAges ==
  /\ Exists
  /\ \/ age = "fresh" /\ age' = "stale"
     \/ age = "stale" /\ age' = "expired"
  /\ UNCHANGED <<claim, lastKey, request, poll, run, submitted, transit, draft>>

\* cleanupResearchClaims, which every startResearch runs first: the row has not been
\* updated for 24 hours (claiming, pending) or 7 days.  Tasks time out after minutes
\* (src/workflows/research.ts) and handlers do not last a day, so by then none is left.
CleanupClaim ==
  /\ Exists /\ age = "expired"
  /\ transit = {} /\ \A k \in Keys : run[k] # "live"
  /\ \A h \in Requests : request[h].stage = "idle"
  /\ \A p \in Polls : poll[p].stage = "idle"
  /\ claim' = NoClaim /\ age' = "fresh"
  /\ UNCHANGED <<lastKey, request, poll, run, submitted, transit, draft>>

RequestStep(h) ==
  \/ \E typed \in Platforms : RequestArrives(h, typed)
  \/ FindActive(h) \/ CreateClaim(h) \/ FindActiveAgain(h) \/ ReadStale(h)
  \/ ReplaceClaim(h) \/ ReadCurrent(h) \/ Refuse(h)
  \/ StartRun(h) \/ StartRunLost(h) \/ AttachRunId(h) \/ AttachErrs(h) \/ FailClaim(h)
  \/ RequestDies(h)

PollStep(p) ==
  \/ \E k \in Keys : PollReads(p, k)
  \/ PollPersists(p) \/ PollCompletesSlug(p) \/ PollCompletesRun(p) \/ PollFailsRun(p)
  \/ PollDies(p)

ResearchNext ==
  \/ \E h \in Requests : RequestStep(h)
  \/ \E p \in Polls : PollStep(p)
  \/ \E k \in Keys : RunEnds(k)
  \/ \E k \in transit : SubmissionArrives(k) \/ SubmissionDropped(k)
  \/ ClaimAges \/ CleanupClaim

ResearchSpec == ResearchInit /\ [][ResearchNext]_researchVars

-----------------------------------------------------------------------------
(* Properties.                                                             *)

ResearchTypeOK ==
  /\ claim \in ClaimRow /\ age \in {"fresh", "stale", "expired"} /\ lastKey \in RunIds
  /\ request \in [Requests -> RequestRecord]
  /\ poll \in [Polls -> PollRecord]
  /\ run \in [Keys -> {"none", "live", "draft", "kept", "failed"}]
  /\ submitted \subseteq Keys \X Platforms /\ transit \subseteq Keys
  /\ draft \in BOOLEAN

\* src/api/research.ts:165: visitors who request the same slug share one Workflow.
\* However statements interleave and replies are lost, no two runs are ever live.
OneLiveRun == \A j, k \in Keys : run[j] = "live" /\ run[k] = "live" => j = k

\* Render ignores the input of a known key, so a key must always carry the same input:
\* a takeover submits the saved spelling, never its own.
OneInputPerKey == \A s, u \in submitted : s[1] = u[1] => s[2] = u[2]

\* The row never names a run of another attempt, and it says failed of a named run only
\* when that run has failed: a late reply or poll of an old attempt cannot release it.
ClaimNamesItsRun ==
  /\ claim.runId # 0 => claim.runId = claim.startedAt /\ run[claim.runId] # "none"
  /\ claim.status = "pending" => claim.runId # 0
  /\ claim.status = "failed" /\ claim.runId # 0 => run[claim.runId] = "failed"
  /\ claim.status = "completed" => draft \/ claim.runId # 0

\* README.md:60: a claim retains its input and start time until its submission is
\* resolved; it moves to a new attempt only when the run of the old one has failed.
KeptUntilResolved ==
  [][Exists /\ claim'.status # "absent"
       /\ <<claim'.startedAt, claim'.platform>> # <<claim.startedAt, claim.platform>>
     => claim.runId = claim.startedAt /\ run[claim.startedAt] = "failed"]_researchVars

\* src/db/researchClaims.ts:130: completed research is not reopened by a late response
\* or a takeover; only the clean-up ends it.
CompletedStays ==
  [][claim.status = "completed" => claim'.status \in {"completed", "absent"}]_researchVars

\* src/api/research.ts:260 answers "Another request is starting this research": the
\* request that says so has not itself taken the claim.
RefusedForAnother ==
  \A h \in Requests : request[h].stage = "refuse" => ~request[h].acquired
=============================================================================
