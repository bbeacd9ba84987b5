------------------------ MODULE ResearchClaimsProofs ------------------------
(***************************************************************************)
(* Proofs, for any handlers, polls, spellings and number of attempts, that *)
(* visitors share one run of a platform's research.                        *)
(***************************************************************************)
EXTENDS ResearchClaims, TLAPS

-----------------------------------------------------------------------------
(* The inductive invariant.                                                *)

\* The row is the newest attempt, and it names only the run of that attempt.
RowSound ==
  /\ ~Exists => claim = NoClaim
  /\ Exists => claim.startedAt = lastKey /\ lastKey \in Keys /\ claim.platform \in Platforms
  /\ claim.status = "claiming" => claim.runId = 0
  /\ ClaimNamesItsRun

\* A handler works for an attempt that has been given out; it replaces only a row that
\* was not completed and names no run or a failed one.
RecordSound(r) ==
  /\ r.stage \in {"find", "create", "refind", "stale", "replace", "current"} =>
       r.platform \in Platforms
  /\ r.stage \in {"replace", "start", "attach", "fail"} =>
       r.seen.startedAt \in 1..lastKey /\ r.seen.platform \in Platforms
  /\ r.stage = "replace" =>
       /\ r.seen.status \notin {"absent", "completed"}
       /\ r.seen.runId # 0 => r.seen.status = "failed"
  /\ r.stage = "attach" => run[r.seen.startedAt] # "none"

\* A poll writes what the run it has read justifies.
PollSound(q) ==
  /\ q.stage # "idle" => q.run \in Keys
  /\ q.stage = "completeSlug" => draft
  /\ q.stage = "failRun" => run[q.run] = "failed"

\* Somebody has submitted, or may still submit, this spelling under this key.
Carries(k, typed) ==
  \/ <<k, typed>> \in submitted
  \/ Exists /\ claim.startedAt = k /\ claim.platform = typed
  \/ \E h \in Requests :
       /\ request[h].stage \in {"replace", "start"}
       /\ request[h].seen.startedAt = k /\ request[h].seen.platform = typed

\* A key is carried with one spelling, and keys are given out in order.
InputsAgree ==
  /\ \A k \in Keys, typed \in Platforms : Carries(k, typed) => k <= lastKey
  /\ \A k \in Keys, a, b \in Platforms : Carries(k, a) /\ Carries(k, b) => a = b

\* No run of this key is live or can still come alive.
Quiet(k) ==
  /\ run[k] # "live"
  /\ run[k] = "none" =>
       /\ k \notin transit
       /\ \A h \in Requests : request[h].stage = "start" => request[h].seen.startedAt # k

\* The inductive invariant: an attempt that is not the newest is quiet.
ResearchInv ==
  /\ ResearchTypeOK
  /\ RowSound
  /\ \A h \in Requests : RecordSound(request[h])
  /\ \A p \in Polls : PollSound(poll[p])
  /\ InputsAgree
  /\ \A k \in Keys : ~(Exists /\ k = lastKey) => Quiet(k)

-----------------------------------------------------------------------------
(* What every step leaves standing.                                        *)

\* How a run ends.
Outcomes == {"draft", "kept", "failed"}

\* The data that handlers and polls share keep their types.
DataOK ==
  /\ claim \in ClaimRow /\ age \in {"fresh", "stale", "expired"} /\ lastKey \in RunIds
  /\ run \in [Keys -> {"none", "live"} \cup Outcomes]
  /\ submitted \subseteq Keys \X Platforms /\ transit \subseteq Keys
  /\ draft \in BOOLEAN

\* Attempts are numbered upwards, and Render never forgets a run or its outcome.
Grows ==
  /\ lastKey <= lastKey'
  /\ draft => draft'
  /\ \A k \in Keys : run[k] # "none" => run'[k] # "none"
  /\ \A k \in Keys : run[k] \in Outcomes => run'[k] = run[k]

\* A delivery starts the run of its key unless Render knows the key.
LEMMA DeliverEffect ==
  ASSUME run \in [Keys -> {"none", "live"} \cup Outcomes], NEW key \in Keys, Deliver(key)
  PROVE  /\ run' \in [Keys -> {"none", "live"} \cup Outcomes]
         /\ run'[key] # "none"
         /\ run[key] # "none" => run' = run
         /\ \A k \in Keys : k # key => run'[k] = run[k]
         /\ \A k \in Keys : run[k] # "none" => run'[k] = run[k]
<1>1. /\ run' = [run EXCEPT ![key] = IF run[key] = "none" THEN "live" ELSE run[key]]
      /\ "live" # "none"
  BY DEF Deliver
<1> QED BY <1>1

\* A handler keeps the row, the runs and what has been submitted well typed.
LEMMA RequestKeepsData ==
  ASSUME ResearchInv, NEW h \in Requests, RequestStep(h)
  PROVE  DataOK' /\ Grows
<1>1. /\ DataOK /\ request[h] \in RequestRecord /\ RecordSound(request[h])
      /\ MaxKeys \in Nat /\ lastKey \in Nat
  BY ResearchAssumption DEF ResearchInv, ResearchTypeOK, DataOK, Outcomes, RunIds, Keys
<1> PICK r \in RequestRecord : r = request[h]
  BY <1>1
<1>2. /\ lastKey < MaxKeys => lastKey + 1 \in RunIds
      /\ lastKey <= lastKey + 1 /\ lastKey <= lastKey
      /\ r.seen \in ClaimRow
  BY <1>1 DEF RunIds, Keys, RequestRecord
<1>3. ASSUME lastKey < MaxKeys, r.platform \in Platforms
      PROVE  NewClaim(r.platform) \in ClaimRow
  BY <1>1, <1>2, <1>3 DEF NewClaim, ClaimRow, RunIds
<1>4. CASE UNCHANGED <<claim, age, lastKey, run, submitted, transit, draft>>
  BY <1>1, <1>2, <1>4 DEF DataOK, Grows
<1>5. CASE CreateClaim(h)
  BY <1>1, <1>2, <1>3, <1>5 DEF CreateClaim, OnlyClaim, RecordSound, DataOK, Grows
<1>6. CASE ReplaceClaim(h)
  <2>1. r.stage = "replace" /\ r.platform \in Platforms
    BY <1>1, <1>6 DEF ReplaceClaim, RecordSound
  <2>2. [r.seen EXCEPT !.status = "claiming"] \in ClaimRow
    BY <1>2 DEF ClaimRow
  <2>3. \/ UNCHANGED <<claim, lastKey, age>>
        \/ /\ claim' = [r.seen EXCEPT !.status = "claiming"]
           /\ UNCHANGED <<lastKey, age>>
        \/ /\ lastKey < MaxKeys /\ claim' = NewClaim(r.platform)
           /\ lastKey' = lastKey + 1 /\ age' = "fresh"
    BY <1>6 DEF ReplaceClaim, Replacement
  <2>4. UNCHANGED <<run, submitted, transit, draft>>
    BY <1>6 DEF ReplaceClaim, OnlyClaim
  <2> QED BY <1>1, <1>2, <1>3, <2>1, <2>2, <2>3, <2>4 DEF DataOK, Grows
<1>7. CASE StartRun(h) \/ StartRunLost(h)
  <2>1. /\ r.seen.startedAt \in Keys /\ r.seen.platform \in Platforms
        /\ submitted' = submitted \cup {<<r.seen.startedAt, r.seen.platform>>}
        /\ UNCHANGED <<claim, age, lastKey, draft>>
    BY <1>1, <1>7 DEF StartRun, StartRunLost, RecordSound, RunIds, Keys, DataOK
  <2>2. CASE StartRun(h)
    <3>1. Deliver(r.seen.startedAt) /\ transit' = transit
      BY <2>2 DEF StartRun
    <3>2. run \in [Keys -> {"none", "live"} \cup Outcomes]
      BY <1>1 DEF DataOK
    <3>3. /\ run' \in [Keys -> {"none", "live"} \cup Outcomes]
          /\ \A k \in Keys : run[k] # "none" => run'[k] = run[k]
      BY <2>1, <3>1, <3>2, DeliverEffect
    <3>4. DataOK'
      BY <1>1, <2>1, <3>1, <3>3 DEF DataOK
    <3> QED BY <1>2, <2>1, <3>3, <3>4 DEF Grows, Outcomes
  <2>3. CASE StartRunLost(h)
    BY <1>1, <1>2, <2>1, <2>3 DEF StartRunLost, DataOK, Grows
  <2> QED BY <1>7, <2>2, <2>3
<1>8. CASE AttachRunId(h)
  <2>1. r.stage = "attach" => r.seen.startedAt \in RunIds
    BY <1>1 DEF RecordSound, RunIds, Keys, DataOK
  <2>2. UNCHANGED <<age, lastKey, run, submitted, transit, draft>>
    BY <1>8 DEF AttachRunId, OnlyClaim
  <2>3. claim' \in ClaimRow
    BY <1>1, <1>8, <2>1 DEF AttachRunId, DataOK, ClaimRow
  <2> QED BY <1>1, <1>2, <2>2, <2>3 DEF DataOK, Grows
<1>9. CASE FailClaim(h)
  <2>1. UNCHANGED <<age, lastKey, run, submitted, transit, draft>>
    BY <1>9 DEF FailClaim, OnlyClaim
  <2>2. claim' \in ClaimRow
    BY <1>1, <1>9 DEF FailClaim, DataOK, ClaimRow
  <2> QED BY <1>1, <1>2, <2>1, <2>2 DEF DataOK, Grows
<1> QED
  BY <1>4, <1>5, <1>6, <1>7, <1>8, <1>9
     DEF RequestStep, RequestArrives, FindActive, FindActiveAgain, ReadStale, ReadCurrent,
         Refuse, AttachErrs, RequestDies, OnlyClaim

\* So does every other step.
LEMMA StepKeepsData == ResearchInv /\ [ResearchNext]_researchVars => DataOK' /\ Grows
<1> SUFFICES ASSUME ResearchInv, [ResearchNext]_researchVars PROVE DataOK' /\ Grows
  OBVIOUS
<1>1. DataOK /\ lastKey \in Nat /\ NoClaim \in ClaimRow
  BY ResearchAssumption
     DEF ResearchInv, ResearchTypeOK, DataOK, Outcomes, RunIds, Keys, NoClaim, ClaimRow
<1>2. ASSUME NEW h \in Requests, RequestStep(h) PROVE DataOK' /\ Grows
  BY <1>2, RequestKeepsData
<1>3. ASSUME NEW p \in Polls, PollStep(p) PROVE DataOK' /\ Grows
  <2>1. /\ UNCHANGED <<age, lastKey, run, submitted, transit>>
        /\ draft' = draft \/ draft' = TRUE
    BY <1>3 DEF PollStep, PollReads, PollPersists, PollCompletesSlug, PollCompletesRun,
                PollFailsRun, PollDies
  <2>2. \/ claim' = claim
        \/ claim' = [claim EXCEPT !.status = "completed"]
        \/ claim' = [claim EXCEPT !.status = "failed"]
    BY <1>3 DEF PollStep, PollReads, PollPersists, PollCompletesSlug, PollCompletesRun,
                PollFailsRun, PollDies
  <2>3. claim' \in ClaimRow
    BY <1>1, <2>2 DEF DataOK, ClaimRow
  <2>4. draft' \in BOOLEAN /\ (draft => draft')
    <3>1. CASE draft' = draft
      BY <1>1, <3>1 DEF DataOK
    <3>2. CASE draft' = TRUE
      BY <3>2
    <3> QED BY <2>1, <3>1, <3>2
  <2>5. DataOK'
    BY <1>1, <2>1, <2>3, <2>4 DEF DataOK
  <2> QED BY <1>1, <2>1, <2>4, <2>5 DEF Grows
<1>4. ASSUME NEW k \in Keys, RunEnds(k) PROVE DataOK' /\ Grows
  BY <1>1, <1>4 DEF RunEnds, DataOK, Grows, Outcomes
<1>5. ASSUME NEW k \in transit, SubmissionArrives(k) PROVE DataOK' /\ Grows
  <2>1. k \in Keys /\ run \in [Keys -> {"none", "live"} \cup Outcomes] /\ Deliver(k)
    BY <1>1, <1>5 DEF DataOK, SubmissionArrives
  <2>2. /\ run' \in [Keys -> {"none", "live"} \cup Outcomes]
        /\ \A j \in Keys : run[j] # "none" => run'[j] = run[j]
    BY <2>1, DeliverEffect
  <2>3. UNCHANGED <<claim, age, lastKey, submitted, draft>> /\ transit' \subseteq transit
    BY <1>5 DEF SubmissionArrives
  <2>4. DataOK'
    BY <1>1, <2>2, <2>3 DEF DataOK
  <2> QED BY <1>1, <2>2, <2>3, <2>4 DEF Grows, Outcomes
<1>6. ASSUME NEW k \in transit, SubmissionDropped(k) PROVE DataOK' /\ Grows
  BY <1>1, <1>6 DEF SubmissionDropped, DataOK, Grows
<1>7. CASE ClaimAges \/ CleanupClaim \/ UNCHANGED researchVars
  BY <1>1, <1>7 DEF ClaimAges, CleanupClaim, researchVars, DataOK, Grows
<1> QED
  BY <1>2, <1>3, <1>4, <1>5, <1>6, <1>7 DEF ResearchNext

-----------------------------------------------------------------------------
(* The row.                                                                *)

\* A row that is not written stays sound.
LEMMA RowEndures ==
  ASSUME DataOK, RowSound, Grows, UNCHANGED <<claim, lastKey>>
  PROVE  RowSound'
<1>1. claim.runId # 0 => claim.runId \in Keys
  BY DEF DataOK, ClaimRow, RunIds
<1>2. \A k \in Keys : run[k] = "failed" => run'[k] = "failed"
  BY DEF Grows, Outcomes
<1> QED BY <1>1, <1>2 DEF RowSound, ClaimNamesItsRun, Grows, Exists

\* What a handler writes into the row.
LEMMA RequestKeepsRow ==
  ASSUME ResearchInv, NEW h \in Requests, RequestStep(h), DataOK', Grows
  PROVE  RowSound'
<1>1. /\ DataOK /\ RowSound /\ RecordSound(request[h]) /\ request[h] \in RequestRecord
      /\ MaxKeys \in Nat /\ lastKey \in Nat
  BY ResearchAssumption DEF ResearchInv, ResearchTypeOK, DataOK, Outcomes, RunIds, Keys
<1> PICK r \in RequestRecord : r = request[h]
  BY <1>1
<1>2. ASSUME lastKey < MaxKeys, r.platform \in Platforms, claim' = NewClaim(r.platform),
             lastKey' = lastKey + 1
      PROVE  RowSound'
  <2>1. lastKey + 1 \in Keys
    BY <1>1, <1>2 DEF Keys
  <2>2. claim' = [status |-> "claiming", runId |-> 0, platform |-> r.platform,
                  startedAt |-> lastKey + 1]
    BY <1>2 DEF NewClaim
  <2> QED BY <1>2, <2>1, <2>2 DEF RowSound, ClaimNamesItsRun, Exists
<1>3. CASE CreateClaim(h)
  <2>1. r.platform \in Platforms
    BY <1>1, <1>3 DEF CreateClaim, RecordSound
  <2>2. \/ lastKey < MaxKeys /\ claim' = NewClaim(r.platform) /\ lastKey' = lastKey + 1
        \/ UNCHANGED <<claim, lastKey>>
    BY <1>3 DEF CreateClaim
  <2> QED BY <1>1, <1>2, <2>1, <2>2, RowEndures
<1>4. CASE ReplaceClaim(h)
  <2>1. /\ r.stage = "replace" /\ r.platform \in Platforms /\ r.seen.status # "absent"
        /\ r.seen.platform \in Platforms /\ r.seen \in ClaimRow
    BY <1>1, <1>4 DEF ReplaceClaim, RecordSound, RequestRecord
  <2>2. CASE ~SameIdentity(claim, r.seen)
    BY <1>1, <1>4, <2>2, RowEndures DEF ReplaceClaim
  <2>3. CASE SameIdentity(claim, r.seen) /\ ~Uncertain(r.seen)
    BY <1>2, <1>4, <2>1, <2>3 DEF ReplaceClaim, Replacement
  <2>4. CASE SameIdentity(claim, r.seen) /\ Uncertain(r.seen)
    <3>1. claim' = [r.seen EXCEPT !.status = "claiming"] /\ lastKey' = lastKey
      BY <1>4, <2>4 DEF ReplaceClaim, Replacement
    <3>2. /\ claim'.status = "claiming" /\ claim'.runId = 0
          /\ claim'.startedAt = claim.startedAt /\ claim'.platform \in Platforms
      BY <2>1, <2>4, <3>1 DEF ClaimRow, SameIdentity, Uncertain
    <3>3. Exists
      BY <2>1, <2>4 DEF SameIdentity, Exists
    <3> QED BY <1>1, <3>1, <3>2, <3>3 DEF RowSound, ClaimNamesItsRun, Exists
  <2> QED BY <2>2, <2>3, <2>4
<1>5. CASE AttachRunId(h)
  <2> DEFINE key == r.seen.startedAt
  <2>1. key \in Keys /\ run[key] # "none" /\ lastKey' = lastKey /\ run' = run
        /\ draft' = draft
    BY <1>1, <1>5 DEF AttachRunId, OnlyClaim, RecordSound, RunIds, Keys, DataOK
  <2>2. CASE claim' = claim
    BY <1>1, <2>1, <2>2, RowEndures
  <2>3. CASE claim.startedAt = key /\ claim.status \in {"claiming", "failed"}
             /\ claim' = [claim EXCEPT !.runId = key, !.status = "pending"]
    <3>1. /\ claim'.runId = key /\ claim'.status = "pending"
          /\ claim'.startedAt = key /\ claim'.platform = claim.platform /\ key # 0
      BY <1>1, <2>1, <2>3 DEF DataOK, ClaimRow, Keys
    <3> QED BY <1>1, <2>1, <2>3, <3>1 DEF RowSound, ClaimNamesItsRun, Exists
  <2> QED BY <1>5, <2>2, <2>3 DEF AttachRunId
<1>6. CASE FailClaim(h)
  <2>1. lastKey' = lastKey
    BY <1>6 DEF FailClaim
  <2>2. CASE claim' = claim
    BY <1>1, <2>1, <2>2, RowEndures
  <2>3. CASE claim.runId = 0 /\ claim.status = "claiming"
             /\ claim' = [claim EXCEPT !.status = "failed"]
    <3>1. /\ claim'.runId = 0 /\ claim'.status = "failed"
          /\ claim'.startedAt = claim.startedAt /\ claim'.platform = claim.platform
      BY <1>1, <2>3 DEF DataOK, ClaimRow
    <3> QED BY <1>1, <2>1, <2>3, <3>1 DEF RowSound, ClaimNamesItsRun, Exists
  <2> QED BY <1>6, <2>2, <2>3 DEF FailClaim
<1>7. ASSUME RequestStep(h), ~CreateClaim(h), ~ReplaceClaim(h), ~AttachRunId(h), ~FailClaim(h)
      PROVE  UNCHANGED <<claim, lastKey>>
  BY <1>7 DEF RequestStep, RequestArrives, FindActive, FindActiveAgain, ReadStale, ReadCurrent,
              Refuse, StartRun, StartRunLost, AttachErrs, RequestDies
<1> QED BY <1>1, <1>3, <1>4, <1>5, <1>6, <1>7, RowEndures

\* What a poll writes into the row.
LEMMA PollKeepsRow ==
  ASSUME ResearchInv, NEW p \in Polls, PollStep(p), DataOK', Grows
  PROVE  RowSound'
<1>1. DataOK /\ RowSound /\ PollSound(poll[p])
  BY DEF ResearchInv, ResearchTypeOK, DataOK, Outcomes
<1>2. UNCHANGED <<lastKey, run>>
  BY DEF PollStep, PollReads, PollPersists, PollCompletesSlug, PollCompletesRun, PollFailsRun,
         PollDies
<1>3. CASE claim' = claim
  BY <1>1, <1>2, <1>3, RowEndures
<1>4. CASE Exists /\ (draft \/ claim.runId # 0) /\ claim' = [claim EXCEPT !.status = "completed"]
  <2>1. /\ claim'.status = "completed" /\ claim'.runId = claim.runId
        /\ claim'.startedAt = claim.startedAt /\ claim'.platform = claim.platform
    BY <1>1, <1>4 DEF DataOK, ClaimRow
  <2>2. draft => draft'
    BY DEF Grows
  <2> QED BY <1>1, <1>2, <1>4, <2>1, <2>2 DEF RowSound, ClaimNamesItsRun, Exists
<1>5. CASE claim.runId # 0 /\ run[claim.runId] = "failed" /\ Exists
           /\ claim' = [claim EXCEPT !.status = "failed"]
  <2>1. /\ claim'.status = "failed" /\ claim'.runId = claim.runId
        /\ claim'.startedAt = claim.startedAt /\ claim'.platform = claim.platform
    BY <1>1, <1>5 DEF DataOK, ClaimRow
  <2> QED BY <1>1, <1>2, <1>5, <2>1 DEF RowSound, ClaimNamesItsRun, Exists
<1>6. CASE PollCompletesSlug(p)
  BY <1>1, <1>3, <1>4, <1>6 DEF PollCompletesSlug, PollSound
<1>7. CASE PollCompletesRun(p)
  <2>1. poll[p].run # 0
    BY <1>1, <1>7 DEF PollCompletesRun, PollSound, Keys
  <2> QED BY <1>3, <1>4, <1>7, <2>1 DEF PollCompletesRun
<1>8. CASE PollFailsRun(p)
  <2>1. poll[p].run # 0 /\ run[poll[p].run] = "failed"
    BY <1>1, <1>8 DEF PollFailsRun, PollSound, Keys
  <2> QED BY <1>3, <1>5, <1>8, <2>1 DEF PollFailsRun, Exists
<1> QED
  BY <1>3, <1>6, <1>7, <1>8 DEF PollStep, PollReads, PollPersists, PollDies

\* Every step leaves the row sound.
LEMMA StepKeepsRow ==
  ASSUME ResearchInv, [ResearchNext]_researchVars, DataOK', Grows
  PROVE  RowSound'
<1>1. DataOK /\ RowSound
  BY DEF ResearchInv, ResearchTypeOK, DataOK, Outcomes
<1>2. CASE CleanupClaim
  BY <1>2 DEF CleanupClaim, RowSound, ClaimNamesItsRun, Exists, NoClaim
<1>3. ASSUME (\E k \in Keys : RunEnds(k)) \/ ClaimAges \/ UNCHANGED researchVars
             \/ \E k \in transit : SubmissionArrives(k) \/ SubmissionDropped(k)
      PROVE  UNCHANGED <<claim, lastKey>>
  BY <1>3 DEF RunEnds, ClaimAges, SubmissionArrives, SubmissionDropped, researchVars
<1> QED
  BY <1>1, <1>2, <1>3, RequestKeepsRow, PollKeepsRow, RowEndures DEF ResearchNext

-----------------------------------------------------------------------------
(* The handlers.                                                           *)

\* A record a handler does not change stays sound.
LEMMA RecordEndures ==
  ASSUME DataOK, DataOK', Grows, NEW r \in RequestRecord, RecordSound(r)
  PROVE  RecordSound(r)'
<1>1. lastKey \in 0..MaxKeys /\ lastKey' \in 0..MaxKeys /\ MaxKeys \in Nat
  BY ResearchAssumption DEF DataOK, RunIds, Keys
<1>2. r.seen.startedAt \in 1..lastKey =>
        r.seen.startedAt \in 1..lastKey' /\ r.seen.startedAt \in Keys
  BY <1>1 DEF Grows, Keys
<1> QED BY <1>2 DEF RecordSound, Grows

\* A handler moves to a sound record; a row it means to replace or to submit is the row
\* as it stands.
RequestMoves(h) ==
  \E r \in RequestRecord :
    /\ request' = [request EXCEPT ![h] = r]
    /\ RecordSound(r)'
    /\ r.stage \in {"replace", "start"} =>
         /\ Exists' /\ r.seen.startedAt = claim'.startedAt
         /\ r.seen.platform = claim'.platform

\* A handler that has finished knows nothing.
LEMMA FinishMoves ==
  ASSUME NEW h \in Requests, Finish(h)
  PROVE  RequestMoves(h)
<1>1. IdleRequest \in RequestRecord /\ IdleRequest.stage = "idle"
  BY DEF IdleRequest, RequestRecord, NoClaim, ClaimRow, RunIds
<1> QED BY <1>1 DEF Finish, RequestMoves, RecordSound

\* The row as it stands is the newest attempt.
LEMMA RowIsNewest ==
  ASSUME DataOK', RowSound', Exists'
  PROVE  /\ claim' \in ClaimRow /\ claim'.startedAt \in 1..lastKey'
         /\ claim'.platform \in Platforms
  BY ResearchAssumption DEF DataOK, RowSound, RunIds, Keys

\* A handler that only goes on keeps its spelling.
LEMMA GotoMoves ==
  ASSUME ResearchInv, DataOK', Grows, NEW h \in Requests,
         NEW s \in {"create", "refind", "stale", "find", "attach", "fail"}, Goto(h, s),
         s \in {"create", "refind", "stale", "find"} => request[h].platform \in Platforms,
         s \in {"attach", "fail"} =>
           request[h].seen.startedAt \in 1..lastKey' /\ request[h].seen.platform \in Platforms,
         s = "attach" => run'[request[h].seen.startedAt] # "none"
  PROVE  RequestMoves(h)
<1>1. request[h] \in RequestRecord
  BY DEF ResearchInv, ResearchTypeOK
<1> PICK q \in RequestRecord : q = request[h]
  BY <1>1
<1> PICK r : r = [q EXCEPT !.stage = s]
  OBVIOUS
<1>2. /\ r \in RequestRecord /\ r.stage = s /\ r.seen = q.seen /\ r.platform = q.platform
  BY DEF RequestRecord
<1>3. request' = [request EXCEPT ![h] = r]
  BY DEF Goto
<1>4. RecordSound(r)'
  BY <1>2 DEF RecordSound
<1> QED BY <1>2, <1>3, <1>4 DEF RequestMoves

\* Whatever beginResearchClaim returns, the handler submits only the row it was given.
LEMMA AnswerMoves ==
  ASSUME ResearchInv, DataOK', Grows, RowSound', Exists', NEW h \in Requests,
         request[h].platform \in Platforms, NEW acquired \in BOOLEAN,
         Answer(h, claim', acquired)
  PROVE  RequestMoves(h)
<1>1. /\ request[h] \in RequestRecord
      /\ claim' \in ClaimRow /\ claim'.startedAt \in 1..lastKey'
      /\ claim'.platform \in Platforms
  BY RowIsNewest DEF ResearchInv, ResearchTypeOK
<1> PICK q \in RequestRecord : q = request[h]
  BY <1>1
<1> PICK row \in ClaimRow : row = claim'
  BY <1>1
<1>2. CASE Finish(h)
  BY <1>2, FinishMoves
<1>3. CASE request' = [request EXCEPT ![h] =
             [IdleRequest EXCEPT !.stage = "start", !.seen = row, !.acquired = TRUE]]
  <2> PICK r : r = [IdleRequest EXCEPT !.stage = "start", !.seen = row, !.acquired = TRUE]
    OBVIOUS
  <2>1. IdleRequest \in RequestRecord
    BY DEF IdleRequest, RequestRecord, NoClaim, ClaimRow, RunIds
  <2>2. r \in RequestRecord /\ r.stage = "start" /\ r.seen = row
    BY <2>1 DEF RequestRecord
  <2>3. RecordSound(r)'
    BY <1>1, <2>2 DEF RecordSound
  <2> QED BY <1>3, <2>2, <2>3 DEF RequestMoves
<1>4. CASE request' = [request EXCEPT ![h].stage = "find", ![h].again = TRUE]
  <2> PICK r : r = [q EXCEPT !.stage = "find", !.again = TRUE]
    OBVIOUS
  <2>1. r \in RequestRecord /\ r.stage = "find" /\ r.platform = q.platform
    BY DEF RequestRecord
  <2>2. request' = [request EXCEPT ![h] = r]
    BY <1>4 DEF ResearchInv, ResearchTypeOK
  <2>3. RecordSound(r)'
    BY <2>1 DEF RecordSound
  <2> QED BY <2>1, <2>2, <2>3 DEF RequestMoves
<1>5. CASE request' = [request EXCEPT ![h].stage = "refuse", ![h].acquired = acquired]
  <2> PICK r : r = [q EXCEPT !.stage = "refuse", !.acquired = acquired]
    OBVIOUS
  <2>1. r \in RequestRecord /\ r.stage = "refuse"
    BY DEF RequestRecord
  <2>2. request' = [request EXCEPT ![h] = r]
    BY <1>5 DEF ResearchInv, ResearchTypeOK
  <2>3. RecordSound(r)'
    BY <2>1 DEF RecordSound
  <2> QED BY <2>1, <2>2, <2>3 DEF RequestMoves
<1> QED BY <1>2, <1>3, <1>4, <1>5 DEF Answer

\* Every step of a handler.
LEMMA RequestStepMoves ==
  ASSUME ResearchInv, DataOK', Grows, RowSound', NEW h \in Requests, RequestStep(h)
  PROVE  RequestMoves(h)
<1>1. /\ DataOK /\ RowSound /\ RecordSound(request[h]) /\ request[h] \in RequestRecord
      /\ request \in [Requests -> RequestRecord]
  BY DEF ResearchInv, ResearchTypeOK, DataOK, Outcomes
<1> PICK q \in RequestRecord : q = request[h]
  BY <1>1
<1>2. RecordSound(q) /\ RecordSound(q)'
  BY <1>1, RecordEndures
<1>3. ASSUME NEW typed \in Platforms, RequestArrives(h, typed) PROVE RequestMoves(h)
  <2> PICK r : r = [IdleRequest EXCEPT !.stage = "find", !.platform = typed]
    OBVIOUS
  <2>1. IdleRequest \in RequestRecord
    BY DEF IdleRequest, RequestRecord, NoClaim, ClaimRow, RunIds
  <2>2. r \in RequestRecord /\ r.stage = "find" /\ r.platform = typed
    BY <2>1 DEF RequestRecord
  <2>3. RecordSound(r)'
    BY <2>2 DEF RecordSound
  <2> QED BY <1>3, <2>2, <2>3 DEF RequestArrives, RequestMoves
<1>4. ASSUME claim' = claim, Active \/ Exists, q.platform \in Platforms,
             NEW acquired \in BOOLEAN, Answer(h, claim, acquired)
      PROVE  RequestMoves(h)
  <2>1. Exists' /\ Answer(h, claim', acquired)
    BY <1>4 DEF Active, Exists, Answer
  <2> QED BY <1>4, <2>1, AnswerMoves
<1>5. CASE FindActive(h)
  <2>1. claim' = claim /\ q.platform \in Platforms
    BY <1>2, <1>5 DEF FindActive, RecordSound
  <2>2. CASE Active
    BY <1>4, <1>5, <2>1, <2>2 DEF FindActive
  <2>3. CASE ~Active
    BY <1>5, <2>1, <2>3, GotoMoves DEF FindActive
  <2> QED BY <2>2, <2>3
<1>6. CASE CreateClaim(h)
  <2>1. q.platform \in Platforms
    BY <1>2, <1>6 DEF CreateClaim, RecordSound
  <2>2. CASE Goto(h, "refind")
    BY <2>1, <2>2, GotoMoves
  <2>3. CASE claim' = NewClaim(q.platform) /\ Answer(h, claim', TRUE)
    <3>1. Exists'
      BY <2>3 DEF NewClaim, Exists
    <3> QED BY <2>1, <2>3, <3>1, AnswerMoves
  <2> QED BY <1>6, <2>2, <2>3 DEF CreateClaim
<1>7. CASE FindActiveAgain(h)
  <2>1. claim' = claim /\ q.platform \in Platforms
    BY <1>2, <1>7 DEF FindActiveAgain, RecordSound
  <2>2. CASE Active
    BY <1>4, <1>7, <2>1, <2>2 DEF FindActiveAgain
  <2>3. CASE ~Active
    BY <1>7, <2>1, <2>3, GotoMoves DEF FindActiveAgain
  <2> QED BY <2>2, <2>3
<1>8. CASE ReadStale(h)
  <2>1. claim' = claim /\ q.platform \in Platforms
    BY <1>2, <1>8 DEF ReadStale, RecordSound
  <2>2. CASE Active /\ Answer(h, claim, FALSE)
    BY <1>4, <2>1, <2>2
  <2>3. CASE Exists /\ ~Active
             /\ request' = [request EXCEPT ![h].stage = "replace", ![h].seen = claim]
    <3> PICK row \in ClaimRow : row = claim
      BY <1>1 DEF DataOK
    <3> PICK r : r = [q EXCEPT !.stage = "replace", !.seen = row]
      OBVIOUS
    <3>1. r \in RequestRecord /\ r.stage = "replace" /\ r.seen = row /\ r.platform = q.platform
      BY DEF RequestRecord
    <3>2. request' = [request EXCEPT ![h] = r]
      BY <1>1, <2>3
    <3>3. /\ row.status \notin {"absent", "completed"}
          /\ row.runId # 0 => row.status = "failed"
      BY <1>1, <2>3 DEF Exists, Active, RowSound, ClaimRow
    <3>4. row.startedAt \in 1..lastKey' /\ row.platform \in Platforms /\ Exists'
      BY <2>1, <2>3, RowIsNewest DEF Exists
    <3>5. RecordSound(r)'
      BY <2>1, <3>1, <3>3, <3>4 DEF RecordSound
    <3> QED BY <2>1, <3>1, <3>2, <3>4, <3>5 DEF RequestMoves
  <2> QED BY <1>8, <2>2, <2>3, FinishMoves DEF ReadStale
<1>9. CASE ReplaceClaim(h)
  <2> PICK matches \in BOOLEAN : matches = SameIdentity(claim, q.seen)
    BY DEF SameIdentity
  <2> PICK r : r = [q EXCEPT !.stage = "current", !.acquired = matches, !.seen = NoClaim]
    OBVIOUS
  <2>1. NoClaim \in ClaimRow
    BY DEF NoClaim, ClaimRow, RunIds
  <2>2. r \in RequestRecord /\ r.stage = "current" /\ r.platform = q.platform
    BY <2>1 DEF RequestRecord
  <2>3. request' = [request EXCEPT ![h] = r]
    BY <1>1, <1>9 DEF ReplaceClaim
  <2>4. q.platform \in Platforms
    BY <1>2, <1>9 DEF ReplaceClaim, RecordSound
  <2>5. RecordSound(r)'
    BY <2>2, <2>4 DEF RecordSound
  <2> QED BY <2>2, <2>3, <2>5 DEF RequestMoves
<1>10. CASE ReadCurrent(h)
  <2>1. claim' = claim /\ q.platform \in Platforms /\ q.acquired \in BOOLEAN
    BY <1>2, <1>10 DEF ReadCurrent, RecordSound, RequestRecord
  <2>2. CASE Exists
    BY <1>4, <1>10, <2>1, <2>2 DEF ReadCurrent
  <2>3. CASE ~Exists
    BY <1>10, <2>3, FinishMoves DEF ReadCurrent
  <2> QED BY <2>2, <2>3
<1>11. CASE StartRun(h)
  <2>1. q.seen.startedAt \in Keys /\ Deliver(q.seen.startedAt) /\ Goto(h, "attach")
    BY <1>1, <1>2, <1>11 DEF StartRun, RecordSound, DataOK, RunIds, Keys
  <2>2. run'[q.seen.startedAt] # "none"
    BY <1>1, <2>1, DeliverEffect DEF DataOK
  <2>3. q.seen.startedAt \in 1..lastKey' /\ q.seen.platform \in Platforms
    BY <1>2, <1>11 DEF StartRun, RecordSound
  <2> QED BY <2>1, <2>2, <2>3, GotoMoves
<1>12. CASE StartRunLost(h) \/ AttachErrs(h)
  <2>1. q.seen.startedAt \in 1..lastKey' /\ q.seen.platform \in Platforms /\ Goto(h, "fail")
    BY <1>2, <1>12 DEF StartRunLost, AttachErrs, RecordSound
  <2> QED BY <2>1, GotoMoves
<1>13. CASE Refuse(h) \/ AttachRunId(h) \/ FailClaim(h) \/ RequestDies(h)
  BY <1>13, FinishMoves DEF Refuse, AttachRunId, FailClaim, RequestDies
<1> QED
  BY <1>3, <1>5, <1>6, <1>7, <1>8, <1>9, <1>10, <1>11, <1>12, <1>13 DEF RequestStep

\* After any step the handlers are sound, and a row that one of them has newly taken up
\* is the row as it stands.
LEMMA StepKeepsRequests ==
  ASSUME ResearchInv, [ResearchNext]_researchVars, DataOK', Grows, RowSound'
  PROVE  /\ request' \in [Requests -> RequestRecord]
         /\ \A h \in Requests : RecordSound(request[h])'
         /\ \A h \in Requests : request'[h].stage \in {"replace", "start"} =>
              \/ request'[h] = request[h]
              \/ /\ Exists' /\ request'[h].seen.startedAt = claim'.startedAt
                 /\ request'[h].seen.platform = claim'.platform
<1>1. /\ DataOK /\ request \in [Requests -> RequestRecord]
      /\ \A h \in Requests : RecordSound(request[h])
  BY DEF ResearchInv, ResearchTypeOK, DataOK, Outcomes
<1>2. ASSUME NEW h \in Requests, request'[h] = request[h]
      PROVE  RecordSound(request[h])'
  <2> PICK q \in RequestRecord : q = request[h] /\ q = request'[h]
    BY <1>1, <1>2
  <2>1. RecordSound(q)'
    BY <1>1, RecordEndures
  <2> QED BY <2>1 DEF RecordSound
<1>3. CASE UNCHANGED request
  BY <1>1, <1>2, <1>3
<1>4. ASSUME NEW h \in Requests, RequestStep(h)
      PROVE  /\ request' \in [Requests -> RequestRecord]
             /\ \A j \in Requests : RecordSound(request[j])'
             /\ \A j \in Requests : request'[j].stage \in {"replace", "start"} =>
                  \/ request'[j] = request[j]
                  \/ /\ Exists' /\ request'[j].seen.startedAt = claim'.startedAt
                     /\ request'[j].seen.platform = claim'.platform
  <2> PICK r \in RequestRecord :
        /\ request' = [request EXCEPT ![h] = r]
        /\ RecordSound(r)'
        /\ r.stage \in {"replace", "start"} =>
             /\ Exists' /\ r.seen.startedAt = claim'.startedAt
             /\ r.seen.platform = claim'.platform
    BY <1>4, RequestStepMoves DEF RequestMoves
  <2>1. /\ request' \in [Requests -> RequestRecord] /\ request'[h] = r
        /\ \A j \in Requests : j # h => request'[j] = request[j]
    BY <1>1
  <2>2. RecordSound(request[h])'
    BY <2>1 DEF RecordSound
  <2> QED BY <1>2, <2>1, <2>2
<1>5. ASSUME ~\E h \in Requests : RequestStep(h) PROVE UNCHANGED request
  BY <1>5 DEF ResearchNext, researchVars, PollStep, PollReads, PollPersists, PollCompletesSlug,
              PollCompletesRun, PollFailsRun, PollDies, RunEnds, SubmissionArrives,
              SubmissionDropped, ClaimAges, CleanupClaim
<1> QED BY <1>3, <1>4, <1>5

-----------------------------------------------------------------------------
(* The polls.                                                              *)

\* A poll that has read an outcome acts on that outcome, which never changes.
LEMMA StepKeepsPolls ==
  ASSUME ResearchInv, [ResearchNext]_researchVars, DataOK', Grows
  PROVE  poll' \in [Polls -> PollRecord] /\ \A p \in Polls : PollSound(poll[p])'
<1>1. /\ DataOK /\ poll \in [Polls -> PollRecord] /\ \A p \in Polls : PollSound(poll[p])
  BY DEF ResearchInv, ResearchTypeOK, DataOK, Outcomes
<1>2. ASSUME NEW q \in PollRecord, PollSound(q) PROVE PollSound(q)'
  BY <1>2 DEF PollSound, Grows, Outcomes
<1>3. ASSUME NEW p \in Polls, poll'[p] = poll[p] PROVE PollSound(poll[p])'
  <2> PICK q \in PollRecord : q = poll[p] /\ q = poll'[p]
    BY <1>1, <1>3
  <2> QED BY <1>1, <1>2 DEF PollSound
<1>4. CASE UNCHANGED poll
  BY <1>1, <1>3, <1>4
<1>5. ASSUME NEW p \in Polls, NEW q \in PollRecord, PollSound(q)', poll' = [poll EXCEPT ![p] = q]
      PROVE  poll' \in [Polls -> PollRecord] /\ \A j \in Polls : PollSound(poll[j])'
  <2>1. /\ poll' \in [Polls -> PollRecord] /\ poll'[p] = q
        /\ \A j \in Polls : j # p => poll'[j] = poll[j]
    BY <1>1, <1>5
  <2>2. PollSound(poll[p])'
    BY <1>5, <2>1 DEF PollSound
  <2> QED BY <1>3, <2>1, <2>2
<1>6. ASSUME NEW p \in Polls, PollStep(p)
      PROVE  poll' \in [Polls -> PollRecord] /\ \A j \in Polls : PollSound(poll[j])'
  <2> PICK old \in PollRecord : old = poll[p] /\ PollSound(old) /\ PollSound(old)'
    BY <1>1, <1>2
  <2>1. ASSUME NEW k \in Keys, PollReads(p, k)
        PROVE  \E q \in PollRecord : PollSound(q)' /\ poll' = [poll EXCEPT ![p] = q]
    <3> PICK s : s = CASE run[k] = "draft"  -> "persist"
                       [] run[k] = "kept"   -> "completeRun"
                       [] run[k] = "failed" -> "failRun"
      OBVIOUS
    <3>1. /\ s \in {"persist", "completeRun", "failRun"}
          /\ s = "failRun" => run[k] = "failed"
      BY <2>1 DEF PollReads
    <3> PICK q : q = [run |-> k, stage |-> s]
      OBVIOUS
    <3>2. q \in PollRecord /\ q.run = k /\ q.stage = s
      BY <3>1 DEF PollRecord, RunIds
    <3>3. PollSound(q)'
      BY <2>1, <3>1, <3>2 DEF PollSound, PollReads
    <3> QED BY <2>1, <3>2, <3>3 DEF PollReads
  <2>2. ASSUME NEW s \in {"completeSlug", "completeRun"}, PollGoes(p, s), old.stage # "idle",
               s = "completeSlug" => draft'
        PROVE  \E q \in PollRecord : PollSound(q)' /\ poll' = [poll EXCEPT ![p] = q]
    <3> PICK q : q = [old EXCEPT !.stage = s]
      OBVIOUS
    <3>1. q \in PollRecord /\ q.run = old.run /\ q.stage = s
      BY DEF PollRecord
    <3>2. PollSound(q)'
      BY <2>2, <3>1 DEF PollSound
    <3> QED BY <2>2, <3>1, <3>2 DEF PollGoes
  <2>3. ASSUME PollEnds(p)
        PROVE  \E q \in PollRecord : PollSound(q)' /\ poll' = [poll EXCEPT ![p] = q]
    <3>1. IdlePoll \in PollRecord /\ IdlePoll.stage = "idle"
      BY DEF IdlePoll, PollRecord, RunIds
    <3> QED BY <2>3, <3>1 DEF PollEnds, PollSound
  <2>4. CASE PollPersists(p) \/ PollCompletesSlug(p)
    BY <1>5, <2>2, <2>4 DEF PollPersists, PollCompletesSlug
  <2>5. CASE PollCompletesRun(p) \/ PollFailsRun(p) \/ PollDies(p)
    BY <1>5, <2>3, <2>5 DEF PollCompletesRun, PollFailsRun, PollDies
  <2> QED BY <1>5, <1>6, <2>1, <2>4, <2>5 DEF PollStep
<1>7. ASSUME ~\E p \in Polls : PollStep(p) PROVE UNCHANGED poll
  BY <1>7 DEF ResearchNext, researchVars, RequestStep, RequestArrives, FindActive, CreateClaim,
              FindActiveAgain, ReadStale, ReplaceClaim, ReadCurrent, Refuse, StartRun,
              StartRunLost, AttachRunId, AttachErrs, FailClaim, RequestDies, OnlyClaim,
              RunEnds, SubmissionArrives, SubmissionDropped, ClaimAges, CleanupClaim
<1> QED BY <1>4, <1>6, <1>7

-----------------------------------------------------------------------------
(* The inputs.                                                             *)

\* The row goes on with an attempt somebody has known, or with a new one.
LEMMA RowInputKnown ==
  ASSUME ResearchInv, [ResearchNext]_researchVars, Exists'
  PROVE  \/ Carries(claim'.startedAt, claim'.platform)
         \/ claim'.startedAt = lastKey + 1 /\ lastKey' = lastKey + 1
<1>1. DataOK /\ request \in [Requests -> RequestRecord]
  BY DEF ResearchInv, ResearchTypeOK, DataOK, Outcomes
<1>2. ASSUME claim'.startedAt = claim.startedAt, claim'.platform = claim.platform, Exists
      PROVE  Carries(claim'.startedAt, claim'.platform)
  BY <1>2 DEF Carries
<1>3. ASSUME claim' = claim PROVE Carries(claim'.startedAt, claim'.platform)
  BY <1>2, <1>3 DEF Exists
<1>4. ASSUME NEW c, claim' = NewClaim(c), lastKey' = lastKey + 1
      PROVE  claim'.startedAt = lastKey + 1 /\ lastKey' = lastKey + 1
  BY <1>4 DEF NewClaim
<1>5. ASSUME NEW h \in Requests, CreateClaim(h)
      PROVE  claim' = claim \/ (claim'.startedAt = lastKey + 1 /\ lastKey' = lastKey + 1)
  BY <1>4, <1>5 DEF CreateClaim
<1>6. ASSUME NEW h \in Requests, ReplaceClaim(h)
      PROVE  \/ claim' = claim
             \/ claim'.startedAt = lastKey + 1 /\ lastKey' = lastKey + 1
             \/ Carries(claim'.startedAt, claim'.platform)
  <2> PICK q \in RequestRecord : q = request[h]
    BY <1>1
  <2>1. CASE ~SameIdentity(claim, q.seen)
    BY <1>6, <2>1 DEF ReplaceClaim
  <2>2. CASE SameIdentity(claim, q.seen) /\ ~Uncertain(q.seen)
    BY <1>4, <1>6, <2>2 DEF ReplaceClaim, Replacement
  <2>3. CASE SameIdentity(claim, q.seen) /\ Uncertain(q.seen)
    <3>1. q.stage = "replace" /\ claim' = [q.seen EXCEPT !.status = "claiming"]
      BY <1>6, <2>3 DEF ReplaceClaim, Replacement
    <3>2. claim'.startedAt = q.seen.startedAt /\ claim'.platform = q.seen.platform
      BY <3>1 DEF RequestRecord, ClaimRow
    <3> QED BY <3>1, <3>2 DEF Carries
  <2> QED BY <2>1, <2>2, <2>3
<1>8. ASSUME NEW h \in Requests, AttachRunId(h) PROVE claim' = claim \/ Exists
  BY <1>8 DEF AttachRunId, Exists
<1>9. ASSUME NEW p \in Polls, PollStep(p)
      PROVE  \/ claim' = claim
             \/ claim' = [claim EXCEPT !.status = "completed"] /\ Exists
             \/ claim' = [claim EXCEPT !.status = "failed"] /\ Exists
  BY <1>9 DEF PollStep, PollReads, PollPersists, PollCompletesSlug, PollCompletesRun,
              PollFailsRun, PollDies, Exists
<1>10. ASSUME NEW k, claim' = [claim EXCEPT !.runId = k, !.status = "pending"]
       PROVE  claim'.startedAt = claim.startedAt /\ claim'.platform = claim.platform
  BY <1>1, <1>10 DEF DataOK, ClaimRow
<1>11. ASSUME NEW s \in {"completed", "failed"}, claim' = [claim EXCEPT !.status = s]
       PROVE  claim'.startedAt = claim.startedAt /\ claim'.platform = claim.platform
  BY <1>1, <1>11 DEF DataOK, ClaimRow
<1>12. ASSUME NEW h \in Requests, RequestStep(h)
       PROVE  \/ Carries(claim'.startedAt, claim'.platform)
              \/ claim'.startedAt = lastKey + 1 /\ lastKey' = lastKey + 1
  <2>1. CASE CreateClaim(h) \/ ReplaceClaim(h)
    BY <1>3, <1>5, <1>6, <2>1
  <2>2. CASE AttachRunId(h)
    <3>1. claim' = claim \/ \E k : claim' = [claim EXCEPT !.runId = k, !.status = "pending"]
      BY <2>2 DEF AttachRunId
    <3> QED BY <1>2, <1>3, <1>8, <1>10, <2>2, <3>1
  <2>3. CASE FailClaim(h)
    <3>1. claim' = claim \/ (Exists /\ claim' = [claim EXCEPT !.status = "failed"])
      BY <2>3 DEF FailClaim, Exists
    <3> QED BY <1>2, <1>3, <1>11, <3>1
  <2>4. ASSUME ~CreateClaim(h), ~ReplaceClaim(h), ~AttachRunId(h), ~FailClaim(h)
        PROVE  claim' = claim
    BY <1>12, <2>4
       DEF RequestStep, RequestArrives, FindActive, FindActiveAgain, ReadStale, ReadCurrent,
           Refuse, StartRun, StartRunLost, AttachErrs, RequestDies
  <2> QED BY <1>3, <2>1, <2>2, <2>3, <2>4
<1>13. ASSUME NEW p \in Polls, PollStep(p) PROVE Carries(claim'.startedAt, claim'.platform)
  <2>1. CASE Exists /\ \E s \in {"completed", "failed"} : claim' = [claim EXCEPT !.status = s]
    BY <1>2, <1>11, <2>1
  <2> QED BY <1>3, <1>9, <1>13, <2>1
<1>14. ASSUME ~\E h \in Requests : RequestStep(h), ~\E p \in Polls : PollStep(p)
       PROVE  claim' = claim \/ claim' = NoClaim
  BY <1>14 DEF ResearchNext, researchVars, RunEnds, SubmissionArrives, SubmissionDropped,
               ClaimAges, CleanupClaim
<1> QED BY <1>3, <1>12, <1>13, <1>14 DEF Exists, NoClaim

\* Nothing is submitted that nobody carried.
LEMMA SubmissionsKnown ==
  ASSUME ResearchInv, [ResearchNext]_researchVars, NEW k \in Keys, NEW typed \in Platforms,
         <<k, typed>> \in submitted'
  PROVE  Carries(k, typed)
<1>1. CASE submitted' = submitted
  BY <1>1 DEF Carries
<1>2. ASSUME NEW h \in Requests, StartRun(h) \/ StartRunLost(h)
      PROVE  Carries(k, typed)
  <2>1. /\ request[h].stage = "start"
        /\ submitted' = submitted
             \cup {<<request[h].seen.startedAt, request[h].seen.platform>>}
    BY <1>2 DEF StartRun, StartRunLost
  <2> QED BY <2>1 DEF Carries
<1>3. ASSUME ~\E h \in Requests : StartRun(h) \/ StartRunLost(h)
      PROVE  submitted' = submitted
  BY <1>3 DEF ResearchNext, researchVars, RequestStep, RequestArrives, FindActive, CreateClaim,
              FindActiveAgain, ReadStale, ReplaceClaim, ReadCurrent, Refuse, AttachRunId,
              AttachErrs, FailClaim, RequestDies, OnlyClaim, PollStep, PollReads, PollPersists,
              PollCompletesSlug, PollCompletesRun, PollFailsRun, PollDies, RunEnds,
              SubmissionArrives, SubmissionDropped, ClaimAges, CleanupClaim
<1> QED BY <1>1, <1>2, <1>3

\* A key keeps the one spelling it was given out with.
LEMMA StepKeepsInputs ==
  ASSUME ResearchInv, [ResearchNext]_researchVars, DataOK', Grows, RowSound'
  PROVE  InputsAgree'
<1>1. /\ InputsAgree /\ lastKey \in Nat /\ lastKey' \in Nat /\ lastKey <= lastKey'
      /\ Keys \subseteq Nat
  BY ResearchAssumption
     DEF ResearchInv, ResearchTypeOK, DataOK, RunIds, Keys, Grows
<1>2. Exists' => /\ claim'.startedAt = lastKey' /\ claim'.platform \in Platforms
  BY DEF RowSound
<1>3. ASSUME NEW k \in Keys, NEW typed \in Platforms,
             Exists', claim'.startedAt = k, claim'.platform = typed
      PROVE  Carries(k, typed) \/ k = lastKey + 1
  BY <1>3, RowInputKnown
<1>4. ASSUME NEW k \in Keys, NEW typed \in Platforms, Carries(k, typed)'
      PROVE  Carries(k, typed) \/ (k = lastKey + 1 /\ typed = claim'.platform /\ k = lastKey')
  <2>1. CASE <<k, typed>> \in submitted'
    BY <2>1, SubmissionsKnown
  <2>2. CASE Exists' /\ claim'.startedAt = k /\ claim'.platform = typed
    BY <1>2, <1>3, <2>2
  <2>3. ASSUME NEW h \in Requests, request'[h].stage \in {"replace", "start"},
               request'[h].seen.startedAt = k, request'[h].seen.platform = typed
        PROVE  Carries(k, typed) \/ (k = lastKey + 1 /\ typed = claim'.platform /\ k = lastKey')
    <3>1. CASE request'[h] = request[h]
      BY <2>3, <3>1 DEF Carries
    <3>2. CASE Exists' /\ claim'.startedAt = k /\ claim'.platform = typed
      BY <1>2, <1>3, <3>2
    <3> QED BY <2>3, <3>1, <3>2, StepKeepsRequests
  <2> QED BY <1>4, <2>1, <2>2, <2>3 DEF Carries
<1>5. \A k \in Keys, typed \in Platforms : Carries(k, typed) => k <= lastKey
  BY <1>1 DEF InputsAgree
<1>6. ASSUME NEW k \in Keys, NEW typed \in Platforms, Carries(k, typed)'
      PROVE  k <= lastKey'
  BY <1>1, <1>4, <1>5, <1>6
<1>7. ASSUME NEW k \in Keys, NEW a \in Platforms, NEW b \in Platforms,
             Carries(k, a)', Carries(k, b)'
      PROVE  a = b
  <2>1. k = lastKey + 1 => ~Carries(k, a) /\ ~Carries(k, b)
    BY <1>1, <1>5
  <2> QED BY <1>1, <1>4, <1>7, <2>1 DEF InputsAgree
<1> QED BY <1>6, <1>7 DEF InputsAgree

-----------------------------------------------------------------------------
(* The runs.                                                               *)

\* Some handler is about to submit this key.
Starting(k) ==
  \E h \in Requests : request[h].stage = "start" /\ request[h].seen.startedAt = k

\* A run comes alive only by a submission, and ends for good.
LEMMA RunChanges ==
  ASSUME ResearchInv, [ResearchNext]_researchVars, NEW k \in Keys
  PROVE  /\ \/ run'[k] = run[k]
            \/ run[k] = "live" /\ run'[k] \in Outcomes
            \/ run[k] = "none" /\ (k \in transit \/ Starting(k))
         /\ k \in transit' => k \in transit \/ Starting(k)
<1>1. /\ run \in [Keys -> {"none", "live"} \cup Outcomes] /\ transit \subseteq Keys
      /\ \A h \in Requests : RecordSound(request[h])
      /\ lastKey \in 0..MaxKeys /\ MaxKeys \in Nat
  BY ResearchAssumption DEF ResearchInv, ResearchTypeOK, Outcomes, RunIds, Keys
<1>2. CASE UNCHANGED <<run, transit>>
  BY <1>2
<1>3. ASSUME NEW j \in Keys, Deliver(j), j \in transit \/ Starting(j), transit' \subseteq transit
      PROVE  /\ \/ run'[k] = run[k]
                \/ run[k] = "none" /\ (k \in transit \/ Starting(k))
             /\ k \in transit' => k \in transit
  BY <1>1, <1>3, DeliverEffect
<1>4. ASSUME NEW h \in Requests, StartRun(h)
      PROVE  \E j \in Keys : Deliver(j) /\ Starting(j) /\ transit' \subseteq transit
  <2>1. request[h].seen.startedAt \in Keys
    BY <1>1, <1>4 DEF StartRun, RecordSound, Keys
  <2> QED BY <1>4, <2>1 DEF StartRun, Starting
<1>5. ASSUME NEW h \in Requests, StartRunLost(h)
      PROVE  run' = run /\ (k \in transit' => k \in transit \/ Starting(k))
  BY <1>5 DEF StartRunLost, Starting
<1>6. ASSUME NEW j \in transit, SubmissionArrives(j)
      PROVE  Deliver(j) /\ j \in Keys /\ transit' \subseteq transit
  BY <1>1, <1>6 DEF SubmissionArrives
<1>7. ASSUME NEW j \in transit, SubmissionDropped(j)
      PROVE  run' = run /\ transit' \subseteq transit
  BY <1>7 DEF SubmissionDropped
<1>8. ASSUME NEW j \in Keys, RunEnds(j)
      PROVE  /\ run'[k] = run[k] \/ (run[k] = "live" /\ run'[k] \in Outcomes)
             /\ transit' = transit
  BY <1>1, <1>8 DEF RunEnds, Outcomes
<1>9. ASSUME NEW h \in Requests, RequestStep(h), ~StartRun(h), ~StartRunLost(h)
      PROVE  UNCHANGED <<run, transit>>
  BY <1>9 DEF RequestStep, RequestArrives, FindActive, CreateClaim, FindActiveAgain, ReadStale,
              ReplaceClaim, ReadCurrent, Refuse, AttachRunId, AttachErrs, FailClaim,
              RequestDies, OnlyClaim
<1>10. ASSUME \/ \E p \in Polls : PollStep(p)
              \/ ClaimAges \/ CleanupClaim \/ UNCHANGED researchVars
       PROVE  UNCHANGED <<run, transit>>
  BY <1>10 DEF researchVars, PollStep, PollReads, PollPersists, PollCompletesSlug,
               PollCompletesRun, PollFailsRun, PollDies, ClaimAges, CleanupClaim
<1>11. ASSUME NEW h \in Requests, RequestStep(h)
       PROVE  /\ \/ run'[k] = run[k]
                 \/ run[k] = "none" /\ (k \in transit \/ Starting(k))
              /\ k \in transit' => k \in transit \/ Starting(k)
  BY <1>3, <1>4, <1>5, <1>9, <1>11
<1> QED BY <1>2, <1>3, <1>6, <1>7, <1>8, <1>10, <1>11 DEF ResearchNext

\* The row leaves its attempt only when the run of that attempt has failed, or when the
\* clean-up finds nothing under way.
LEMMA AttemptLeft ==
  ASSUME ResearchInv, [ResearchNext]_researchVars, Exists,
         ~(Exists' /\ lastKey' = lastKey)
  PROVE  \/ claim.runId = claim.startedAt /\ run[lastKey] = "failed"
         \/ CleanupClaim
<1>1. /\ RowSound /\ \A h \in Requests : RecordSound(request[h])
      /\ claim \in ClaimRow /\ request \in [Requests -> RequestRecord]
      /\ \A p \in Polls : PollSound(poll[p])
  BY DEF ResearchInv, ResearchTypeOK
<1>2. ASSUME NEW h \in Requests, ReplaceClaim(h)
      PROVE  claim.runId = claim.startedAt /\ run[lastKey] = "failed"
  <2> PICK q \in RequestRecord : q = request[h]
    BY <1>1
  <2>1. q.stage = "replace" /\ RecordSound(q)
    BY <1>1, <1>2 DEF ReplaceClaim
  <2>2. SameIdentity(claim, q.seen) /\ ~Uncertain(q.seen)
    <3>1. q.seen \in ClaimRow
      BY DEF RequestRecord
    <3>2. CASE ~SameIdentity(claim, q.seen)
      BY <1>2, <3>2 DEF ReplaceClaim, Exists
    <3>3. CASE SameIdentity(claim, q.seen) /\ Uncertain(q.seen)
      <4>1. claim' = [q.seen EXCEPT !.status = "claiming"] /\ lastKey' = lastKey
        BY <1>2, <3>3 DEF ReplaceClaim, Replacement
      <4>2. claim'.status = "claiming"
        BY <3>1, <4>1 DEF ClaimRow
      <4> QED BY <4>1, <4>2 DEF Exists
    <3> QED BY <3>2, <3>3
  <2>3. claim.runId # 0 /\ claim.status = "failed"
    BY <2>1, <2>2 DEF RecordSound, SameIdentity, Uncertain
  <2> QED BY <1>1, <2>3 DEF RowSound, ClaimNamesItsRun
<1>3. ASSUME NEW h \in Requests, RequestStep(h), ~ReplaceClaim(h)
      PROVE  FALSE
  <2>1. lastKey' = lastKey
    BY <1>3 DEF RequestStep, RequestArrives, FindActive, CreateClaim, FindActiveAgain, ReadStale,
                ReadCurrent, Refuse, StartRun, StartRunLost, AttachRunId, AttachErrs, FailClaim,
                RequestDies, OnlyClaim
  <2>2. CASE AttachRunId(h)
    BY <1>1, <2>1, <2>2 DEF AttachRunId, Exists, ClaimRow
  <2>3. CASE FailClaim(h)
    BY <1>1, <2>1, <2>3 DEF FailClaim, Exists, ClaimRow
  <2>4. CASE UNCHANGED claim
    BY <2>1, <2>4 DEF Exists
  <2> QED
    BY <1>3, <2>2, <2>3, <2>4
       DEF RequestStep, RequestArrives, FindActive, CreateClaim, FindActiveAgain, ReadStale,
           ReadCurrent, Refuse, StartRun, StartRunLost, AttachErrs, RequestDies, OnlyClaim
<1>4. ASSUME NEW p \in Polls, PollStep(p) PROVE FALSE
  <2>1. lastKey' = lastKey
    BY <1>4 DEF PollStep, PollReads, PollPersists, PollCompletesSlug, PollCompletesRun,
                PollFailsRun, PollDies
  <2>2. \/ claim' = claim
        \/ claim' = [claim EXCEPT !.status = "completed"]
        \/ claim' = [claim EXCEPT !.status = "failed"]
    BY <1>4 DEF PollStep, PollReads, PollPersists, PollCompletesSlug, PollCompletesRun,
                PollFailsRun, PollDies
  <2> QED BY <1>1, <2>1, <2>2 DEF Exists, ClaimRow
<1>5. ASSUME (\E k \in Keys : RunEnds(k)) \/ ClaimAges \/ UNCHANGED researchVars
             \/ \E k \in transit : SubmissionArrives(k) \/ SubmissionDropped(k)
      PROVE  FALSE
  BY <1>5 DEF RunEnds, ClaimAges, SubmissionArrives, SubmissionDropped, researchVars, Exists
<1> QED BY <1>2, <1>3, <1>4, <1>5 DEF ResearchNext

\* Every attempt but the one in the row is quiet and stays quiet.
LEMMA StepKeepsQuiet ==
  ASSUME ResearchInv, [ResearchNext]_researchVars, DataOK', Grows, RowSound',
         NEW k \in Keys, ~(Exists' /\ k = lastKey')
  PROVE  Quiet(k)'
<1>1. /\ run \in [Keys -> {"none", "live"} \cup Outcomes]
      /\ ~(Exists /\ k = lastKey) => Quiet(k)
  BY DEF ResearchInv, ResearchTypeOK, Outcomes
<1>2. ASSUME NEW h \in Requests, request'[h].stage = "start", request'[h].seen.startedAt = k
      PROVE  Starting(k)
  <2>1. Exists' => claim'.startedAt = lastKey'
    BY DEF RowSound
  <2> QED BY <1>2, <2>1, StepKeepsRequests DEF Starting
<1>3. CASE Quiet(k)
  <2>1. run[k] # "live" /\ (run[k] = "none" => k \notin transit /\ ~Starting(k))
    BY <1>3 DEF Quiet, Starting
  <2>2. run'[k] = run[k]
    BY <2>1, RunChanges
  <2>3. run'[k] = "none" => k \notin transit'
    BY <2>1, <2>2, RunChanges
  <2> QED BY <1>2, <2>1, <2>2, <2>3 DEF Quiet
<1>4. CASE Exists /\ k = lastKey /\ ~(Exists' /\ lastKey' = lastKey)
  <2>1. CASE CleanupClaim
    BY <1>4, <2>1 DEF CleanupClaim, Quiet
  <2>2. CASE run[k] = "failed"
    <3>1. run'[k] = "failed"
      BY <2>2 DEF Grows, Outcomes
    <3> QED BY <3>1 DEF Quiet
  <2> QED BY <1>4, <2>1, <2>2, AttemptLeft
<1> QED BY <1>1, <1>3, <1>4

-----------------------------------------------------------------------------
(* The theorems.                                                           *)

\* Initially there is no row, no run and no handler.
LEMMA ResearchInitInv == ResearchInit => ResearchInv
<1> SUFFICES ASSUME ResearchInit PROVE ResearchInv
  OBVIOUS
<1>1. NoClaim \in ClaimRow /\ IdleRequest \in RequestRecord /\ IdlePoll \in PollRecord
  BY DEF NoClaim, ClaimRow, RunIds, IdleRequest, RequestRecord, IdlePoll, PollRecord
<1>2. ResearchTypeOK
  BY <1>1 DEF ResearchInit, ResearchTypeOK, RunIds
<1>3. /\ ~Exists /\ claim = NoClaim /\ claim.runId = 0 /\ claim.status = "absent"
      /\ \A h \in Requests : request[h].stage = "idle"
      /\ \A p \in Polls : poll[p].stage = "idle"
      /\ \A k \in Keys : run[k] = "none"
      /\ submitted = {} /\ transit = {}
  BY DEF ResearchInit, Exists, NoClaim, IdleRequest, IdlePoll
<1>4. RowSound
  BY <1>3 DEF RowSound, ClaimNamesItsRun
<1>5. InputsAgree
  BY <1>3 DEF InputsAgree, Carries
<1> QED BY <1>2, <1>3, <1>4, <1>5 DEF ResearchInv, RecordSound, PollSound, Quiet

\* Every statement, submission and poll keeps the invariant.
LEMMA ResearchNextInv == ResearchInv /\ [ResearchNext]_researchVars => ResearchInv'
<1> SUFFICES ASSUME ResearchInv, [ResearchNext]_researchVars PROVE ResearchInv'
  OBVIOUS
<1>1. DataOK' /\ Grows
  BY StepKeepsData
<1>2. RowSound'
  BY <1>1, StepKeepsRow
<1>3. /\ request' \in [Requests -> RequestRecord]
      /\ \A h \in Requests : RecordSound(request[h])'
  BY <1>1, <1>2, StepKeepsRequests
<1>4. poll' \in [Polls -> PollRecord] /\ \A p \in Polls : PollSound(poll[p])'
  BY <1>1, StepKeepsPolls
<1>5. InputsAgree'
  BY <1>1, <1>2, StepKeepsInputs
<1>6. \A k \in Keys : ~(Exists' /\ k = lastKey') => Quiet(k)'
  BY <1>1, <1>2, StepKeepsQuiet
<1>7. ResearchTypeOK'
  BY <1>1, <1>3, <1>4 DEF ResearchTypeOK, DataOK, Outcomes
<1> QED BY <1>2, <1>3, <1>4, <1>5, <1>6, <1>7 DEF ResearchInv

\* The inductive invariant holds in every reachable state, however the statements of
\* handlers and polls interleave and submissions get lost (researchClaims.ts).
THEOREM ResearchInvariant == ResearchSpec => []ResearchInv
  BY ResearchInitInv, ResearchNextInv, PTL DEF ResearchSpec

\* The row, the handlers and the polls keep their types.
THEOREM ResearchTyped == ResearchSpec => []ResearchTypeOK
<1>1. ResearchInv => ResearchTypeOK
  BY DEF ResearchInv
<1> QED BY <1>1, ResearchInvariant, PTL

\* Visitors who ask for the same platform share one Workflow: no two runs are ever live.
THEOREM OneRunIsLive == ResearchSpec => []OneLiveRun
<1>1. ResearchInv => OneLiveRun
  BY DEF ResearchInv, Quiet, OneLiveRun
<1> QED BY <1>1, ResearchInvariant, PTL

\* A submission key always carries the same input.
THEOREM KeysKeepTheirInput == ResearchSpec => []OneInputPerKey
<1>1. ASSUME ResearchInv PROVE OneInputPerKey
  <2>1. submitted \subseteq Keys \X Platforms
    BY <1>1 DEF ResearchInv, ResearchTypeOK
  <2>2. ASSUME NEW s \in submitted, NEW u \in submitted, s[1] = u[1] PROVE s[2] = u[2]
    <3>1. /\ s[1] \in Keys /\ s[2] \in Platforms /\ u[2] \in Platforms
          /\ s = <<s[1], s[2]>> /\ u = <<u[1], u[2]>>
      BY <2>1
    <3>2. Carries(s[1], s[2]) /\ Carries(s[1], u[2])
      BY <2>2, <3>1 DEF Carries
    <3> QED BY <1>1, <3>1, <3>2 DEF ResearchInv, InputsAgree
  <2> QED BY <2>2 DEF OneInputPerKey
<1> QED BY <1>1, ResearchInvariant, PTL

\* The row names only the run of its own attempt, and calls it failed only when it is.
THEOREM RowsNameTheirRun == ResearchSpec => []ClaimNamesItsRun
<1>1. ResearchInv => ClaimNamesItsRun
  BY DEF ResearchInv, RowSound
<1> QED BY <1>1, ResearchInvariant, PTL

\* A claim keeps its input and start time until the run of its attempt has failed.
THEOREM ClaimsAreKept == ResearchSpec => KeptUntilResolved
<1>1. ASSUME ResearchInv, [ResearchNext]_researchVars, Exists, claim'.status # "absent",
             <<claim'.startedAt, claim'.platform>> # <<claim.startedAt, claim.platform>>
      PROVE  claim.runId = claim.startedAt /\ run[claim.startedAt] = "failed"
  <2>1. DataOK' /\ Grows /\ RowSound /\ RowSound' /\ claim.startedAt = lastKey
    BY <1>1, StepKeepsData, StepKeepsRow DEF ResearchInv, RowSound
  <2>2. CASE lastKey' # lastKey
    BY <1>1, <2>1, <2>2, AttemptLeft DEF CleanupClaim, NoClaim
  <2>3. CASE lastKey' = lastKey
    <3>1. /\ Exists' /\ claim'.startedAt = lastKey /\ lastKey \in Keys
          /\ claim.platform \in Platforms /\ claim'.platform \in Platforms
      BY <1>1, <2>1, <2>3 DEF RowSound, Exists
    <3>2. lastKey' # lastKey + 1
      BY <2>3, <3>1, ResearchAssumption DEF Keys
    <3>3. Carries(lastKey, claim'.platform) /\ Carries(lastKey, claim.platform)
      BY <1>1, <2>1, <3>1, <3>2, RowInputKnown DEF Carries
    <3>4. claim'.platform = claim.platform
      BY <1>1, <3>1, <3>3 DEF ResearchInv, InputsAgree
    <3> QED BY <1>1, <2>1, <3>1, <3>4
  <2> QED BY <2>2, <2>3
<1>2. ResearchInv /\ [ResearchNext]_researchVars =>
        [Exists /\ claim'.status # "absent"
           /\ <<claim'.startedAt, claim'.platform>> # <<claim.startedAt, claim.platform>>
         => claim.runId = claim.startedAt /\ run[claim.startedAt] = "failed"]_researchVars
  BY <1>1
<1> QED BY <1>2, ResearchInvariant, PTL DEF ResearchSpec, KeptUntilResolved

\* Completed research is reopened by no takeover and no late answer.
THEOREM CompletionStays == ResearchSpec => CompletedStays
<1>1. ASSUME ResearchInv, [ResearchNext]_researchVars, claim.status = "completed"
      PROVE  claim'.status \in {"completed", "absent"}
  <2>1. claim \in ClaimRow /\ request \in [Requests -> RequestRecord]
    BY <1>1 DEF ResearchInv, ResearchTypeOK
  <2>2. ASSUME NEW h \in Requests, ReplaceClaim(h) PROVE claim' = claim
    <3>1. RecordSound(request[h])
      BY <1>1 DEF ResearchInv
    <3>2. request[h].seen.status # "completed"
      BY <2>2, <3>1 DEF ReplaceClaim, RecordSound
    <3> QED BY <1>1, <2>2, <3>2 DEF ReplaceClaim, SameIdentity
  <2>3. ASSUME NEW h \in Requests, RequestStep(h), ~ReplaceClaim(h) PROVE claim' = claim
    BY <1>1, <2>3
       DEF RequestStep, RequestArrives, FindActive, CreateClaim, FindActiveAgain, ReadStale,
           ReadCurrent, Refuse, StartRun, StartRunLost, AttachRunId, AttachErrs, FailClaim,
           RequestDies, OnlyClaim, Exists
  <2>4. ASSUME NEW p \in Polls, PollStep(p)
        PROVE  claim' = claim \/ claim' = [claim EXCEPT !.status = "completed"]
    BY <1>1, <2>4 DEF PollStep, PollReads, PollPersists, PollCompletesSlug, PollCompletesRun,
                      PollFailsRun, PollDies
  <2>5. ASSUME NEW p \in Polls, PollStep(p) PROVE claim'.status = "completed"
    BY <1>1, <2>1, <2>4, <2>5 DEF ClaimRow
  <2>6. CASE CleanupClaim
    BY <2>6 DEF CleanupClaim, NoClaim
  <2> QED
    BY <1>1, <2>2, <2>3, <2>5, <2>6
       DEF ResearchNext, RunEnds, ClaimAges, SubmissionArrives, SubmissionDropped, researchVars
<1>2. ResearchInv /\ [ResearchNext]_researchVars =>
        [claim.status = "completed" => claim'.status \in {"completed", "absent"}]_researchVars
  BY <1>1
<1> QED BY <1>2, ResearchInvariant, PTL DEF ResearchSpec, CompletedStays
=============================================================================
