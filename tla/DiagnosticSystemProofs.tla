----------------------- MODULE DiagnosticSystemProofs -----------------------
(***************************************************************************)
(* Proofs, for any answers, requests and bounds, that the service uses its *)
(* store legally and never runs one answer twice at a time.                *)
(***************************************************************************)
EXTENDS DiagnosticSystem, DiagnosticStoreProofs

-----------------------------------------------------------------------------
(* The inductive invariant: what each part of the service knows.           *)

\* A workflow input carries the turn's own revision or the one sealed in its envelope.
Carries(t, rev) == rev \in {turn[t].revision, turn[t].input}

\* A submission carries what it has sealed with the answer it stored, a retry the revision
\* of the answer, and a request starts a run after another one only once Render has said
\* that the other one is over.
RequestSound(h) ==
  LET r == request[h]
  IN /\ r.stage # "idle" => r.turn \in Turns
     /\ r.stage = "read" =>
          /\ r.run = 0 /\ ~r.retry /\ 1 <= r.rev
          /\ session.exists => r.rev <= session.revision + 1
     /\ r.stage \in {"start", "mark", "status"} /\ session.exists =>
          /\ Present(r.turn)
          /\ r.rev = IF r.retry THEN turn[r.turn].revision ELSE turn[r.turn].input
     /\ r.stage = "start" /\ r.run # 0 => Over(r.turn, r.run)
     /\ r.stage \in {"mark", "status"} => r.run # 0 /\ Started(r.turn, r.run)

\* A run belongs to a stored answer, was created after all with a smaller name, follows one
\* that is over (of an answer that was not accepted ahead: the last), and waits between
\* attempts only while it has one left.
RunSound(t, n) ==
  /\ Started(t, n) =>
       /\ \A k \in 1..(n - 1) : Started(t, k)
       /\ run[t][n].previous # 0 => Over(t, run[t][n].previous)
  /\ session.exists /\ Started(t, n) =>
       /\ Present(t) /\ Carries(t, run[t][n].rev)
       /\ EnvelopeMatches(t) => run[t][n].previous = n - 1
  /\ run[t][n].status = "running" /\ ~run[t][n].calling => run[t][n].attempt < MaxAttempts

\* The run a turn names exists.
MarkSound(t) == workflowRunId[t] # 0 => Started(t, workflowRunId[t])

\* A call on its way to Render asks for what its request was entitled to.
TransitSound(m) ==
  /\ m.previous # 0 => Over(m.turn, m.previous)
  /\ session.exists => Present(m.turn) /\ Carries(m.turn, m.rev)

\* A callback works for a run that exists, on a state the store has handed out.
CallbackSound(c) ==
  /\ Started(c.turn, c.run)
  /\ c.stage = "reason" => c.base \in claims[c.turn]

\* All parts at once, and with them the rows of the store.
ServiceSound ==
  /\ \A h \in Requests : RequestSound(h)
  /\ \A t \in Turns, n \in RunIds : RunSound(t, n)
  /\ \A t \in Turns : MarkSound(t)
  /\ \A m \in transit : TransitSound(m)
  /\ \A c \in callback : CallbackSound(c)

ServiceInv == StoreInv /\ SystemTypeOK /\ ServiceSound

-----------------------------------------------------------------------------
(* What a step can do to the store, seen from a request in flight.         *)

\* While the session exists answers keep their revisions; claims are never withdrawn.
StoreGrows ==
  /\ session'.exists =>
       /\ session.exists /\ session.revision <= session'.revision
       /\ \A t \in Turns : turn[t].status # "absent" =>
            /\ turn'[t].status # "absent"
            /\ turn'[t].revision = turn[t].revision /\ turn'[t].input = turn[t].input
  /\ \A t \in Turns : claims[t] \subseteq claims'[t]

\* Every operation of the store lets the store grow or erases the session.
LEMMA StoreStepGrows == TypeOK /\ [StoreNext]_storeVars => StoreGrows
<1> SUFFICES ASSUME TypeOK, [StoreNext]_storeVars PROVE StoreGrows
  OBVIOUS
<1> USE DEF TypeOK, SessionRecord, TurnRecord, Present
<1>1. ASSUME NEW t \in Turns, Submit(t) PROVE StoreGrows
  BY <1>1 DEF Submit, AcceptTurn, Hold, StoreGrows
<1>2. ASSUME NEW t \in Turns, RetryTurn(t) PROVE StoreGrows
  BY <1>2 DEF RetryTurn, Hold, StoreGrows
<1>3. ASSUME NEW t \in Turns, Supersede(t), turn[t].status # "absent" PROVE StoreGrows
  BY <1>3 DEF Supersede, StoreGrows
<1>4. ASSUME NEW t \in Turns, Claim(t) PROVE StoreGrows
  <2> PICK rev : ClaimTaken(t, rev) \/ ClaimSuperseded(t, rev)
    BY <1>4 DEF Claim
  <2>1. CASE ClaimTaken(t, rev)
    BY <2>1 DEF ClaimTaken, Hold, StoreGrows
  <2>2. CASE ClaimSuperseded(t, rev)
    BY <1>3, <2>2 DEF ClaimSuperseded
  <2> QED BY <2>1, <2>2
<1>5. ASSUME NEW t \in Turns, Complete(t) PROVE StoreGrows
  <2> PICK base \in claims[t], terminal \in BOOLEAN :
        CompleteApplied(t, NextState(base, t, terminal)) \/ CompleteSuperseded(t)
    BY <1>5 DEF Complete
  <2>1. CASE CompleteApplied(t, NextState(base, t, terminal))
    <3>1. NextState(base, t, terminal) \in DiagnosticState
      BY NextStateType
    <3>2. /\ session' = [session EXCEPT !.state = NextState(base, t, terminal),
                           !.pendingTurnId = NoTurn,
                           !.status = IF NextState(base, t, terminal).terminal
                                      THEN "complete" ELSE "active"]
          /\ turn' = [turn EXCEPT ![t] = [@ EXCEPT !.status = "completed", !.envelope = "none"]]
          /\ claims' = claims
      BY <2>1, <3>1, AppliedEffect
    <3> QED BY <3>2 DEF StoreGrows
  <2>2. CASE CompleteSuperseded(t)
    BY <1>3, <2>2 DEF CompleteSuperseded
  <2> QED BY <2>1, <2>2
<1>6. ASSUME NEW t \in Turns, FailTurn(t) PROVE StoreGrows
  BY <1>6 DEF FailTurn, Release, StoreGrows
<1>7. ASSUME NEW t \in Turns, EnvelopeExpires(t) PROVE StoreGrows
  BY <1>7 DEF EnvelopeExpires, StoreGrows
<1>8. CASE RemoveRows
  BY <1>8 DEF RemoveRows, NewSession, StoreGrows
<1>9. CASE SessionExpires
  BY <1>9 DEF SessionExpires, StoreGrows
<1>10. CASE PurgeEnvelopes
  <2>1. /\ session'.exists = session.exists /\ session'.revision = session.revision
        /\ session.exists /\ claims' = claims
    BY <1>10 DEF PurgeEnvelopes, Release
  <2>2. ASSUME NEW u \in Turns, turn[u].status # "absent"
        PROVE  /\ turn'[u].status # "absent"
               /\ turn'[u].revision = turn[u].revision /\ turn'[u].input = turn[u].input
    <3>1. turn[u] \in TurnRecord
      OBVIOUS
    <3>2. \/ turn'[u] = turn[u]
          \/ turn'[u] = [turn[u] EXCEPT !.envelope = "none",
                           !.status = IF @ \in Open THEN "failed" ELSE @]
      BY <1>10 DEF PurgeEnvelopes
    <3> QED BY <2>2, <3>1, <3>2 DEF TurnRecord
  <2> QED BY <2>1, <2>2 DEF StoreGrows
<1>11. CASE UNCHANGED storeVars
  BY <1>11 DEF storeVars, StoreGrows
<1> QED
  BY <1>1, <1>2, <1>4, <1>5, <1>6, <1>7, <1>8, <1>9, <1>10, <1>11
     DEF StoreNext, DeleteSession, PurgeExpired, PurgeSession

-----------------------------------------------------------------------------
(* Every step of the service is a step of the store or leaves it alone.    *)

\* Recording a failure is a call of failTurn or nothing.
LEMMA RecordedFailure ==
  ASSUME NEW t \in Turns, RecordFailure(t)
  PROVE  [StoreNext]_storeVars
  BY DEF RecordFailure, StoreNext

\* A request that stores an answer names the session's revision and has computed its input
\* from an earlier one or the same.
LEMMA SubmitIsLegal ==
  ASSUME ServiceInv, NEW h \in Requests, SubmitAccepted(h)
  PROVE  StoreNext
<1>1. RequestSound(h) /\ session.revision \in Nat /\ request[h] \in RequestRecord
  BY DEF ServiceInv, ServiceSound, SystemTypeOK, StoreInv, TypeOK, SessionRecord
<1>2. /\ request[h].turn \in Turns /\ request[h].expected \in 0..(session.revision + 1)
      /\ request[h].correction \in BOOLEAN /\ request[h].rev \in 1..(session.revision + 1)
  BY <1>1 DEF SubmitAccepted, AcceptTurn, RequestSound, RequestRecord
<1>3. Submit(request[h].turn)
  BY <1>2 DEF SubmitAccepted, Submit
<1> QED BY <1>2, <1>3 DEF StoreNext

\* A callback claims its turn with the turn's own revision or the one in its envelope.
LEMMA ClaimIsLegal ==
  ASSUME ServiceInv, NEW c \in callback, CallbackClaims(c)
  PROVE  [StoreNext]_storeVars
<1> DEFINE rev == run[c.turn][c.run].rev
<1>1. c.turn \in Turns /\ c.run \in RunIds
  BY DEF ServiceInv, SystemTypeOK, CallbackRecord
<1>2. session.exists => rev \in {turn[c.turn].revision, turn[c.turn].input}
  BY <1>1 DEF ServiceInv, ServiceSound, CallbackSound, RunSound, Carries
<1>3. ASSUME ClaimTaken(c.turn, rev) \/ ClaimSuperseded(c.turn, rev) PROVE Claim(c.turn)
  <2>1. session.exists
    BY <1>3 DEF ClaimTaken, ClaimSuperseded
  <2> QED BY <1>2, <1>3, <2>1 DEF Claim
<1> QED BY <1>1, <1>3 DEF CallbackClaims, WorkOnClaimed, StoreNext

\* A callback completes its turn with a state built on one the store handed out.
LEMMA CompletionIsLegal ==
  ASSUME ServiceInv, NEW c \in callback, CallbackCompletes(c)
  PROVE  [StoreNext]_storeVars
<1>1. c.turn \in Turns /\ c.base \in claims[c.turn]
  BY DEF ServiceInv, SystemTypeOK, CallbackRecord, ServiceSound, CallbackSound,
         CallbackCompletes
<1>2. ASSUME NEW terminal \in BOOLEAN, CompleteApplied(c.turn, NextState(c.base, c.turn, terminal))
      PROVE  Complete(c.turn)
  BY <1>1, <1>2 DEF Complete
<1>3. ASSUME CompleteSuperseded(c.turn) PROVE Complete(c.turn)
  BY <1>1, <1>3 DEF Complete
<1> QED BY <1>1, <1>2, <1>3 DEF CallbackCompletes, StoreNext

\* The service only ever makes legal calls of the store.
LEMMA StepUsesStore == ServiceInv /\ [SystemNext]_systemVars => [StoreNext]_storeVars
<1> SUFFICES ASSUME ServiceInv, [SystemNext]_systemVars PROVE [StoreNext]_storeVars
  OBVIOUS
<1>1. ASSUME NEW h \in Requests, RequestStep(h) PROVE [StoreNext]_storeVars
  <2>1. ASSUME NEW t \in Turns, SubmitRead(h, t) PROVE [StoreNext]_storeVars
    BY <2>1 DEF SubmitRead
  <2>2. ASSUME NEW t \in Turns, RetryAccepted(h, t) PROVE [StoreNext]_storeVars
    BY <2>2 DEF RetryAccepted, StoreNext
  <2>3. CASE RequestFails(h)
    <3>1. request[h].turn \in Turns
      BY <2>3 DEF ServiceInv, ServiceSound, RequestSound, RequestFails
    <3> QED BY <2>3, <3>1, RecordedFailure DEF RequestFails
  <2> QED
    BY <1>1, <2>1, <2>2, <2>3, SubmitIsLegal
       DEF RequestStep, SubmitRefused, StartTask, StartTaskLost, MarkWorkflowDispatched,
           ReadRunStatus, RetryReadBack, DispatchFails
<1>2. ASSUME NEW c \in callback, CallbackStep(c) PROVE [StoreNext]_storeVars
  <2>1. CASE CallbackFails(c)
    <3>1. c.turn \in Turns
      BY DEF ServiceInv, SystemTypeOK, CallbackRecord
    <3> QED BY <2>1, <3>1, RecordedFailure DEF CallbackFails
  <2> QED
    BY <1>2, <2>1, ClaimIsLegal, CompletionIsLegal DEF CallbackStep, CallbackErrs
<1>3. CASE RenderStep
  BY <1>3 DEF RenderStep, StartTaskArrives, StartTaskDropped, AttemptStarts, AttemptTimesOut,
              RunCanceled
<1>4. CASE RowsRemoved \/ ClockTicks
  BY <1>4 DEF RowsRemoved, ClockTicks, StoreNext, PurgeExpired
<1>5. CASE ServerCrashes \/ UNCHANGED systemVars
  BY <1>5 DEF ServerCrashes, systemVars
<1> QED
  BY <1>1, <1>2, <1>3, <1>4, <1>5 DEF SystemNext

-----------------------------------------------------------------------------
(* What a step can do to the runs that Render keeps.                       *)

\* A run is created for a stored answer after a run that is over, makes progress while
\* it is running, and stays as it is once it has ended.
RunAdvances(t, n) ==
  \/ run'[t][n] = run[t][n]
  \/ /\ run[t][n].status = "none"
     /\ run'[t][n].status = "running" /\ run'[t][n].attempt < MaxAttempts
     /\ \A k \in 1..(n - 1) : Started(t, k)
     /\ run'[t][n].previous # 0 => Over(t, run'[t][n].previous)
     /\ session.exists =>
          /\ Present(t) /\ Carries(t, run'[t][n].rev)
          /\ EnvelopeMatches(t) => run'[t][n].previous = n - 1
  \/ /\ run[t][n].status = "running"
     /\ run'[t][n].status # "none"
     /\ run'[t][n].rev = run[t][n].rev /\ run'[t][n].previous = run[t][n].previous
     /\ run'[t][n].status = "running" /\ ~run'[t][n].calling =>
          run'[t][n].attempt < MaxAttempts

\* All runs advance or rest.
RunsAdvance ==
  /\ run' \in [Turns -> [RunIds -> RunRecord]]
  /\ \A t \in Turns, n \in RunIds : RunAdvances(t, n)

\* Nothing happens to the runs.
LEMMA RunsUnchanged ==
  ASSUME SystemTypeOK, UNCHANGED run
  PROVE  RunsAdvance
  BY DEF SystemTypeOK, RunsAdvance, RunAdvances

\* The run that startTask creates for an answer that was not accepted ahead comes right
\* after the one it was asked to follow.
LEMMA NextInChain ==
  ASSUME SystemTypeOK, NEW t \in Turns, \A k \in RunIds : RunSound(t, k),
         NEW previous \in 0..MaxRuns, NEW rev \in Nat, NEW n \in RunIds,
         previous # 0 => Over(t, previous),
         session.exists, EnvelopeMatches(t), rev = turn[t].revision,
         RunsOf(t, previous, rev) = {}, ~Started(t, n), \A k \in 1..(n - 1) : Started(t, k)
  PROVE  previous = n - 1
<1>1. MaxRuns \in Nat /\ n \in Nat /\ n >= 1 /\ n <= MaxRuns
  BY BoundsAssumption DEF RunIds
<1>2. previous # 0 => previous \in RunIds /\ Started(t, previous)
  BY <1>1 DEF RunIds, Started, Over
<1>3. previous < n
  <2>1. SUFFICES ASSUME previous >= n PROVE FALSE
    BY <1>1
  <2>2. previous # 0 /\ previous # n
    BY <1>1, <1>2, <2>1
  <2>3. n \in 1..(previous - 1)
    BY <1>1, <2>1, <2>2
  <2> QED BY <1>2, <2>2, <2>3 DEF RunSound
<1>4. ASSUME previous + 1 < n PROVE FALSE
  <2>1. previous + 1 \in 1..(n - 1) /\ previous + 1 \in RunIds
    BY <1>1, <1>4 DEF RunIds
  <2>2. Started(t, previous + 1)
    BY <2>1
  <2>3. run[t][previous + 1].rev = rev /\ run[t][previous + 1].previous = (previous + 1) - 1
    BY <2>1, <2>2 DEF RunSound, Carries, EnvelopeMatches
  <2>4. previous + 1 \in RunsOf(t, previous, rev)
    BY <2>1, <2>2, <2>3 DEF RunsOf
  <2> QED BY <2>4
<1> QED BY <1>1, <1>3, <1>4

\* startTask creates a run, or returns the run of its key.
LEMMA CreateRunAdvances ==
  ASSUME SystemTypeOK, NEW t \in Turns, \A k \in RunIds : RunSound(t, k),
         NEW previous \in 0..MaxRuns, NEW rev \in Nat, NEW n \in RunIds,
         previous # 0 => Over(t, previous),
         session.exists => Present(t) /\ Carries(t, rev),
         CreateRun(t, previous, rev, n)
  PROVE  RunsAdvance /\ run'[t][n].status # "none"
<1>1. MaxAttempts \in Nat \ {0} /\ MaxRuns \in Nat
  BY BoundsAssumption
<1> DEFINE new == [NoRun EXCEPT !.status = "running", !.rev = rev, !.previous = previous]
<1>2. /\ new \in RunRecord /\ new.status = "running" /\ new.rev = rev
      /\ new.previous = previous /\ new.attempt < MaxAttempts
  <2>1. NoRun \in RunRecord /\ NoRun.attempt = 0
    BY <1>1 DEF NoRun, RunRecord
  <2>2. /\ new \in RunRecord /\ new.status = "running" /\ new.rev = rev
        /\ new.previous = previous /\ new.attempt = NoRun.attempt
    BY <2>1 DEF RunRecord
  <2> QED BY <1>1, <2>1, <2>2
<1>3. ASSUME RunsOf(t, previous, rev) = {}, ~Started(t, n), \A k \in 1..(n - 1) : Started(t, k),
             run' = [run EXCEPT ![t][n] = new]
      PROVE  RunsAdvance /\ run'[t][n].status # "none"
  <2> HIDE DEF new
  <2>1. run' \in [Turns -> [RunIds -> RunRecord]]
    BY <1>2, <1>3 DEF SystemTypeOK
  <2>2. /\ run'[t][n] = new
        /\ \A u \in Turns, k \in RunIds : u # t \/ k # n => run'[u][k] = run[u][k]
    BY <1>3 DEF SystemTypeOK
  <2>3. session.exists /\ EnvelopeMatches(t) => previous = n - 1
    BY <1>3, NextInChain DEF Carries, EnvelopeMatches
  <2>4. RunAdvances(t, n)
    BY <1>2, <1>3, <2>2, <2>3 DEF RunAdvances, Started
  <2> QED BY <1>2, <2>1, <2>2, <2>4 DEF RunsAdvance, RunAdvances
<1>4. CASE n \in RunsOf(t, previous, rev) /\ UNCHANGED run
  BY <1>4, RunsUnchanged DEF RunsOf, Started
<1> QED BY <1>3, <1>4 DEF CreateRun

\* A running run moves on to another state that is not "none".
LEMMA OneRunMoves ==
  ASSUME SystemTypeOK, NEW t \in Turns, NEW n \in RunIds, NEW r \in RunRecord,
         run[t][n].status = "running",
         r.status # "none", r.rev = run[t][n].rev, r.previous = run[t][n].previous,
         r.status = "running" /\ ~r.calling => r.attempt < MaxAttempts,
         run' = [run EXCEPT ![t][n] = r]
  PROVE  RunsAdvance
<1>1. run' \in [Turns -> [RunIds -> RunRecord]]
  BY DEF SystemTypeOK
<1>2. /\ run'[t][n] = r
      /\ \A u \in Turns, k \in RunIds : u # t \/ k # n => run'[u][k] = run[u][k]
  BY DEF SystemTypeOK
<1> QED BY <1>1, <1>2 DEF RunsAdvance, RunAdvances

\* The end of an attempt leaves the run running only with an attempt to spare.
LEMMA EndAttemptEffect ==
  ASSUME NEW r \in RunRecord
  PROVE  /\ EndAttempt(r) \in RunRecord
         /\ EndAttempt(r).status # "none"
         /\ EndAttempt(r).rev = r.rev /\ EndAttempt(r).previous = r.previous
         /\ EndAttempt(r).status = "running" => EndAttempt(r).attempt < MaxAttempts
<1>1. MaxAttempts \in Nat /\ r.attempt \in 0..MaxAttempts
  BY BoundsAssumption DEF RunRecord
<1>2. EndAttempt(r) = [r EXCEPT !.calling = FALSE,
                         !.status = IF r.attempt = MaxAttempts THEN "failed" ELSE "running"]
  BY DEF EndAttempt
<1>3. CASE r.attempt = MaxAttempts
  BY <1>1, <1>2, <1>3 DEF RunRecord
<1>4. CASE r.attempt # MaxAttempts
  <2>1. EndAttempt(r) = [r EXCEPT !.calling = FALSE, !.status = "running"]
    BY <1>2, <1>4
  <2>2. /\ EndAttempt(r) \in RunRecord
        /\ EndAttempt(r).rev = r.rev /\ EndAttempt(r).previous = r.previous
        /\ EndAttempt(r).status = "running" /\ EndAttempt(r).attempt = r.attempt
    BY <2>1 DEF RunRecord
  <2> QED BY <1>1, <1>4, <2>2
<1> QED BY <1>3, <1>4

\* A reply ends the attempt that asked for it, if that attempt still waits.
LEMMA ReplyAdvances ==
  ASSUME SystemTypeOK, NEW c \in callback, NEW ok \in BOOLEAN, Reply(c, ok)
  PROVE  RunsAdvance /\ callback' \subseteq callback
<1>1. c.turn \in Turns /\ c.run \in RunIds
  BY DEF SystemTypeOK, CallbackRecord
<1>2. callback' \subseteq callback
  BY DEF Reply
<1>3. CASE ~Current(c)
  BY <1>2, <1>3, RunsUnchanged DEF Reply
<1>4. CASE Current(c)
  <2> DEFINE old == run[c.turn][c.run]
             new == IF ok THEN [old EXCEPT !.status = "completed", !.calling = FALSE]
                          ELSE EndAttempt(old)
  <2>1. old \in RunRecord /\ old.status = "running"
    BY <1>1, <1>4 DEF SystemTypeOK, Current
  <2>2. run' = [run EXCEPT ![c.turn][c.run] = new]
    BY <1>4 DEF Reply
  <2>3. /\ new \in RunRecord /\ new.status # "none"
        /\ new.rev = old.rev /\ new.previous = old.previous
        /\ new.status = "running" => new.attempt < MaxAttempts
    <3>1. CASE ok
      BY <2>1, <3>1 DEF RunRecord
    <3>2. CASE ~ok
      BY <2>1, <3>2, EndAttemptEffect
    <3> QED BY <3>1, <3>2
  <2> HIDE DEF new
  <2> QED BY <1>1, <1>2, <2>1, <2>2, <2>3, OneRunMoves
<1> QED BY <1>3, <1>4

\* An attempt that starts, times out or is cancelled moves its run forwards.
LEMMA AttemptAdvances ==
  ASSUME ServiceInv, NEW t \in Turns, NEW n \in RunIds,
         AttemptStarts(t, n) \/ AttemptTimesOut(t, n) \/ RunCanceled(t, n)
  PROVE  RunsAdvance
<1>1. /\ SystemTypeOK /\ RunSound(t, n)
      /\ run[t][n] \in RunRecord /\ run[t][n].status = "running"
  BY DEF ServiceInv, ServiceSound, SystemTypeOK, AttemptStarts, AttemptTimesOut, RunCanceled
<1>2. CASE AttemptStarts(t, n)
  <2> DEFINE new == [run[t][n] EXCEPT !.calling = TRUE, !.attempt = @ + 1]
  <2>1. run' = [run EXCEPT ![t][n] = new]
    BY <1>1, <1>2 DEF AttemptStarts, SystemTypeOK
  <2>2. run[t][n].attempt + 1 \in 0..MaxAttempts
    BY <1>1, <1>2, BoundsAssumption DEF AttemptStarts, RunSound, RunRecord
  <2>3. /\ new \in RunRecord /\ new.status = "running" /\ new.calling
        /\ new.rev = run[t][n].rev /\ new.previous = run[t][n].previous
    BY <1>1, <2>2 DEF RunRecord
  <2> HIDE DEF new
  <2> QED BY <1>1, <2>1, <2>3, OneRunMoves
<1>3. CASE AttemptTimesOut(t, n)
  <2>1. run' = [run EXCEPT ![t][n] = EndAttempt(run[t][n])]
    BY <1>3 DEF AttemptTimesOut
  <2> QED BY <1>1, <2>1, EndAttemptEffect, OneRunMoves
<1>4. CASE RunCanceled(t, n)
  <2> DEFINE new == [run[t][n] EXCEPT !.status = "canceled", !.calling = FALSE]
  <2>1. run' = [run EXCEPT ![t][n] = new]
    BY <1>1, <1>4 DEF RunCanceled, SystemTypeOK
  <2>2. /\ new \in RunRecord /\ new.status = "canceled"
        /\ new.rev = run[t][n].rev /\ new.previous = run[t][n].previous
    BY <1>1 DEF RunRecord
  <2> HIDE DEF new
  <2> QED BY <1>1, <2>1, <2>2, OneRunMoves
<1> QED BY <1>2, <1>3, <1>4

\* Render's records only ever advance.
LEMMA StepAdvancesRuns == ServiceInv /\ [SystemNext]_systemVars => RunsAdvance
<1> SUFFICES ASSUME ServiceInv, [SystemNext]_systemVars PROVE RunsAdvance
  OBVIOUS
<1>0. SystemTypeOK /\ MaxRuns \in Nat
  BY BoundsAssumption DEF ServiceInv
<1>1. ASSUME NEW h \in Requests, StartTask(h) PROVE RunsAdvance
  <2>1. request[h] \in RequestRecord /\ RequestSound(h)
    BY <1>0 DEF SystemTypeOK, ServiceInv, ServiceSound
  <2>2. /\ request[h].turn \in Turns /\ request[h].run \in 0..MaxRuns
        /\ request[h].rev \in Nat
        /\ request[h].run # 0 => Over(request[h].turn, request[h].run)
        /\ session.exists => /\ Present(request[h].turn)
                             /\ Carries(request[h].turn, request[h].rev)
    BY <1>1, <2>1 DEF StartTask, RequestSound, RequestRecord, Carries
  <2> PICK n \in RunIds : CreateRun(request[h].turn, request[h].run, request[h].rev, n)
    BY <1>1 DEF StartTask
  <2> QED BY <1>0, <2>2, CreateRunAdvances DEF ServiceInv, ServiceSound
<1>2. ASSUME NEW m \in transit, StartTaskArrives(m) PROVE RunsAdvance
  <2>1. /\ m.turn \in Turns /\ m.previous \in 0..MaxRuns /\ m.rev \in Nat
        /\ TransitSound(m)
    BY <1>0 DEF SystemTypeOK, TransitRecord, ServiceInv, ServiceSound
  <2> PICK n \in RunIds : CreateRun(m.turn, m.previous, m.rev, n)
    BY <1>2 DEF StartTaskArrives
  <2> QED BY <1>0, <2>1, CreateRunAdvances DEF TransitSound, ServiceInv, ServiceSound
<1>3. ASSUME NEW h \in Requests, RequestStep(h), ~StartTask(h) PROVE UNCHANGED run
  BY <1>3 DEF RequestStep, SubmitRead, RetryAccepted, SubmitAccepted, SubmitRefused,
              StartTaskLost, MarkWorkflowDispatched, ReadRunStatus, RetryReadBack,
              DispatchFails, RequestFails
<1>4. ASSUME NEW c \in callback, CallbackStep(c) PROVE RunsAdvance
  <2>1. UNCHANGED run \/ \E ok \in BOOLEAN : Reply(c, ok)
    BY <1>4 DEF CallbackStep, CallbackClaims, WorkOnClaimed, CallbackCompletes, CallbackErrs,
                CallbackFails, Advance
  <2> QED BY <1>0, <2>1, ReplyAdvances, RunsUnchanged
<1>5. CASE RenderStep
  BY <1>0, <1>2, <1>5, AttemptAdvances, RunsUnchanged DEF RenderStep, StartTaskDropped
<1>6. CASE ServerCrashes \/ RowsRemoved \/ ClockTicks \/ UNCHANGED systemVars
  BY <1>0, <1>6, RunsUnchanged DEF ServerCrashes, RowsRemoved, ClockTicks, systemVars
<1> QED
  BY <1>0, <1>1, <1>3, <1>4, <1>5, <1>6, RunsUnchanged DEF SystemNext

\* Runs that have been started stay started, and runs that are over stay over.
LEMMA RunsEndure ==
  ASSUME SystemTypeOK, RunsAdvance, NEW t \in Turns, NEW n \in RunIds
  PROVE  /\ Started(t, n) => /\ run'[t][n].status # "none"
                              /\ run'[t][n].rev = run[t][n].rev
                              /\ run'[t][n].previous = run[t][n].previous
         /\ Over(t, n) => run'[t][n] = run[t][n]
  BY DEF RunsAdvance, RunAdvances, Started, Over

-----------------------------------------------------------------------------
(* Each part of the service keeps what it knows.                           *)

\* What the lemmas above say of a step.
Progress == StoreInv' /\ StoreGrows /\ RunsAdvance

\* After the step the requests know what they need to know.
RequestsKept ==
  request' \in [Requests -> RequestRecord] /\ \A h \in Requests : RequestSound(h)'

\* A request that does not move knows after a step what it knew before.
LEMMA RequestStays ==
  ASSUME ServiceInv, Progress, NEW h \in Requests, request'[h] = request[h]
  PROVE  RequestSound(h)'
<1>1. /\ SystemTypeOK /\ RequestSound(h) /\ request[h] \in RequestRecord
      /\ session.revision \in Nat /\ session'.revision \in Nat /\ MaxRuns \in Nat
  BY BoundsAssumption
     DEF ServiceInv, ServiceSound, SystemTypeOK, Progress, StoreInv, TypeOK, SessionRecord
<1> PICK r \in RequestRecord : r = request[h] /\ r = request'[h]
  BY <1>1
<1>2. /\ r.run \in RunIds \cup {0} /\ r.rev \in Nat
      /\ r.stage # "idle" => r.turn \in Turns
  BY <1>1 DEF RequestRecord, RunIds, RequestSound
<1>3. ASSUME r.stage \in {"start", "mark", "status"}, session'.exists
      PROVE  /\ turn'[r.turn].status # "absent"
             /\ r.rev = IF r.retry THEN turn'[r.turn].revision ELSE turn'[r.turn].input
  BY <1>1, <1>2, <1>3 DEF RequestSound, Progress, StoreGrows, Present
<1>4. ASSUME r.stage = "read", session'.exists
      PROVE  r.rev <= session'.revision + 1
  <2>1. session.exists /\ session.revision <= session'.revision
    BY <1>4 DEF Progress, StoreGrows
  <2> QED BY <1>1, <1>2, <1>4, <2>1 DEF RequestSound
<1>5. ASSUME r.stage = "start", r.run # 0
      PROVE  run'[r.turn][r.run].status \in {"failed", "canceled"}
  <2>1. Over(r.turn, r.run)
    BY <1>1, <1>5 DEF RequestSound
  <2> QED BY <1>1, <1>2, <1>5, <2>1, RunsEndure DEF Progress, Over
<1>6. ASSUME r.stage \in {"mark", "status"}
      PROVE  r.run # 0 /\ run'[r.turn][r.run].status # "none"
  <2>1. r.run # 0 /\ Started(r.turn, r.run)
    BY <1>1, <1>6 DEF RequestSound
  <2> QED BY <1>1, <1>2, <1>6, <2>1, RunsEndure DEF Progress, Started
<1>7. r.stage = "read" => r.run = 0 /\ ~r.retry /\ 1 <= r.rev
  BY <1>1 DEF RequestSound
<1> QED
  BY <1>2, <1>3, <1>4, <1>5, <1>6, <1>7 DEF RequestSound, Present, Over, Started

\* One request moves to a record that is sound; the others stay.
LEMMA OneRequestMoves ==
  ASSUME ServiceInv, Progress, NEW h \in Requests, NEW r \in RequestRecord,
         request' = [request EXCEPT ![h] = r],
         request'[h] = r => RequestSound(h)'
  PROVE  RequestsKept
<1>1. request \in [Requests -> RequestRecord]
  BY DEF ServiceInv, SystemTypeOK
<1>2. /\ request' \in [Requests -> RequestRecord] /\ request'[h] = r
      /\ \A k \in Requests : k # h => request'[k] = request[k]
  BY <1>1
<1> QED BY <1>2, RequestStays DEF RequestsKept

\* A handler that has finished, given up or only reads back promises nothing.
LEMMA RequestRests ==
  ASSUME ServiceInv, Progress, NEW h \in Requests, request[h].stage # "idle",
         \/ Finish(h) \/ Goto(h, "fail") \/ Goto(h, "readback")
  PROVE  RequestsKept
<1>1. request[h] \in RequestRecord /\ RequestSound(h)
  BY DEF ServiceInv, SystemTypeOK, ServiceSound
<1>2. CASE Finish(h)
  <2>1. Idle \in RequestRecord /\ Idle.stage = "idle"
    BY BoundsAssumption DEF Idle, RequestRecord
  <2>2. request'[h] = Idle => RequestSound(h)'
    BY <2>1 DEF RequestSound
  <2> QED BY <1>2, <2>1, <2>2, OneRequestMoves DEF Finish
<1>3. ASSUME NEW s \in {"fail", "readback"}, Goto(h, s) PROVE RequestsKept
  <2> DEFINE r == [request[h] EXCEPT !.stage = s]
  <2>1. request' = [request EXCEPT ![h] = r]
    BY <1>1, <1>3 DEF Goto
  <2>2. r \in RequestRecord /\ r.stage = s /\ r.turn = request[h].turn
    BY <1>1 DEF RequestRecord
  <2>3. r.turn \in Turns
    BY <1>1, <2>2 DEF RequestSound
  <2> HIDE DEF r
  <2>4. request'[h] = r => RequestSound(h)'
    BY <2>2, <2>3 DEF RequestSound
  <2> QED BY <2>1, <2>2, <2>4, OneRequestMoves
<1> QED BY <1>2, <1>3

\* A handler that submits works for the revision after the one it read.
LEMMA SubmitReadKeeps ==
  ASSUME ServiceInv, Progress, NEW h \in Requests, NEW t \in Turns, SubmitRead(h, t)
  PROVE  RequestsKept
<1>1. session.revision \in Nat /\ session' = session
  BY DEF ServiceInv, StoreInv, TypeOK, SessionRecord, SubmitRead, storeVars
<1> PICK expected \in 0..(session.revision + Ahead), correction \in BOOLEAN :
      request' = [request EXCEPT ![h] =
        [Idle EXCEPT !.stage = "read", !.turn = t, !.expected = expected,
           !.correction = correction, !.rev = session.revision + 1]]
  BY DEF SubmitRead
<1> DEFINE r == [Idle EXCEPT !.stage = "read", !.turn = t, !.expected = expected,
                   !.correction = correction, !.rev = session.revision + 1]
<1>2. Idle \in RequestRecord /\ Idle.run = 0 /\ ~Idle.retry
  BY BoundsAssumption DEF Idle, RequestRecord
<1>3. expected \in Nat /\ session.revision + 1 \in Nat
  BY <1>1, BoundsAssumption
<1>4. /\ r \in RequestRecord /\ r.stage = "read" /\ r.turn = t /\ r.run = Idle.run
      /\ r.retry = Idle.retry /\ r.rev = session.revision + 1
  BY <1>2, <1>3 DEF RequestRecord
<1> HIDE DEF r
<1>5. request'[h] = r => RequestSound(h)'
  BY <1>1, <1>2, <1>3, <1>4 DEF RequestSound
<1> QED BY <1>4, <1>5, OneRequestMoves DEF r

\* An accepted answer is stored with the revision that its handler works for.
LEMMA SubmitAcceptedKeeps ==
  ASSUME ServiceInv, Progress, NEW h \in Requests, SubmitAccepted(h)
  PROVE  RequestsKept
<1>1. /\ request[h] \in RequestRecord /\ RequestSound(h) /\ session.revision \in Nat
      /\ turn \in [Turns -> TurnRecord]
  BY DEF ServiceInv, SystemTypeOK, ServiceSound, StoreInv, TypeOK, SessionRecord
<1> PICK q \in RequestRecord : q = request[h]
  BY <1>1
<1>2. /\ q.stage = "read" /\ q.turn \in Turns /\ q.run = 0 /\ ~q.retry
      /\ session.exists /\ q.expected = session.revision /\ q.rev \in Nat
  BY <1>1 DEF SubmitAccepted, AcceptTurn, RequestSound, RequestRecord
<1>3. turn'[q.turn] = [status |-> "accepted", envelope |-> "sealed",
                       revision |-> session.revision + 1, input |-> q.rev]
  BY <1>1, <1>2 DEF SubmitAccepted, AcceptTurn
<1> DEFINE r == [q EXCEPT !.stage = "start", !.expected = 0, !.correction = FALSE]
<1>4. /\ r \in RequestRecord /\ r.stage = "start" /\ r.turn = q.turn /\ r.run = q.run
      /\ r.rev = q.rev /\ r.retry = q.retry
  BY DEF RequestRecord
<1>5. request' = [request EXCEPT ![h] = r]
  BY DEF SubmitAccepted
<1> HIDE DEF r
<1>7. request'[h] = r => RequestSound(h)'
  BY <1>2, <1>3, <1>4 DEF RequestSound, Present
<1> QED BY <1>4, <1>5, <1>7, OneRequestMoves

\* A retry works for the revision of the answer it has put back in line.
LEMMA RetryAcceptedKeeps ==
  ASSUME ServiceInv, Progress, NEW h \in Requests, NEW t \in Turns, RetryAccepted(h, t)
  PROVE  RequestsKept
<1>1. /\ turn[t] \in TurnRecord /\ workflowRunId[t] \in 0..MaxRuns /\ MarkSound(t)
      /\ turn \in [Turns -> TurnRecord] /\ run' = run
  BY DEF ServiceInv, SystemTypeOK, ServiceSound, StoreInv, TypeOK, RetryAccepted
<1>2. turn'[t].status # "absent" /\ turn'[t].revision = turn[t].revision
  BY <1>1 DEF RetryAccepted, RetryTurn, TurnRecord
<1> DEFINE s == IF workflowRunId[t] = 0 THEN "start" ELSE "status"
           r == [Idle EXCEPT !.stage = s, !.retry = TRUE, !.turn = t,
                   !.rev = turn[t].revision, !.run = workflowRunId[t]]
<1>3. request' = [request EXCEPT ![h] = r]
  BY DEF RetryAccepted
<1>4. Idle \in RequestRecord
  BY BoundsAssumption DEF Idle, RequestRecord
<1>5. s \in {"start", "status"} /\ turn[t].revision \in Nat
  BY <1>1 DEF TurnRecord
<1>6. s = "status" => Started(t, workflowRunId[t]) /\ workflowRunId[t] # 0
  BY <1>1 DEF MarkSound
<1>7. s = "start" => workflowRunId[t] = 0
  OBVIOUS
<1> HIDE DEF s
<1>8. /\ r \in RequestRecord /\ r.stage = s /\ r.turn = t /\ r.retry
      /\ r.rev = turn[t].revision /\ r.run = workflowRunId[t]
  BY <1>1, <1>4, <1>5 DEF RequestRecord
<1> HIDE DEF r
<1>9. request'[h] = r => RequestSound(h)'
  BY <1>1, <1>2, <1>5, <1>6, <1>7, <1>8 DEF RequestSound, Present, Started
<1> QED BY <1>3, <1>8, <1>9, OneRequestMoves

\* startTask hands back a run that exists.
LEMMA StartTaskKeeps ==
  ASSUME ServiceInv, Progress, NEW h \in Requests, StartTask(h)
  PROVE  RequestsKept
<1>1. /\ SystemTypeOK /\ request[h] \in RequestRecord /\ RequestSound(h)
      /\ UNCHANGED storeVars
  BY DEF ServiceInv, SystemTypeOK, ServiceSound, StartTask
<1> PICK q \in RequestRecord : q = request[h]
  BY <1>1
<1>2. /\ q.stage = "start" /\ q.turn \in Turns /\ q.run \in 0..MaxRuns
      /\ q.rev \in Nat /\ MaxRuns \in Nat
      /\ q.run # 0 => Over(q.turn, q.run)
      /\ session.exists =>
           /\ Present(q.turn)
           /\ q.rev = IF q.retry THEN turn[q.turn].revision ELSE turn[q.turn].input
  BY <1>1, BoundsAssumption DEF StartTask, RequestSound, RequestRecord
<1> PICK n \in RunIds :
      CreateRun(q.turn, q.run, q.rev, n)
        /\ request' = [request EXCEPT ![h].stage = "mark", ![h].run = n]
  BY DEF StartTask
<1>3. run'[q.turn][n].status # "none"
  <2>1. \A k \in RunIds : RunSound(q.turn, k)
    BY <1>2 DEF ServiceInv, ServiceSound
  <2>2. session.exists => Present(q.turn) /\ Carries(q.turn, q.rev)
    BY <1>2 DEF Carries
  <2> QED BY <1>1, <1>2, <2>1, <2>2, CreateRunAdvances
<1>4. n \in 0..MaxRuns /\ n # 0
  BY <1>2 DEF RunIds
<1> DEFINE r == [q EXCEPT !.stage = "mark", !.run = n]
<1>5. request' = [request EXCEPT ![h] = r]
  BY <1>1 DEF SystemTypeOK
<1>6. /\ r \in RequestRecord /\ r.stage = "mark" /\ r.turn = q.turn /\ r.rev = q.rev
      /\ r.run = n /\ r.retry = q.retry
  BY <1>4 DEF RequestRecord
<1> HIDE DEF r
<1>7. request'[h] = r => RequestSound(h)'
  BY <1>1, <1>2, <1>3, <1>4, <1>6 DEF RequestSound, Present, Started, storeVars
<1> QED BY <1>5, <1>6, <1>7, OneRequestMoves

\* A retry that has marked its run asks for its status.
LEMMA MarkKeeps ==
  ASSUME ServiceInv, Progress, NEW h \in Requests, MarkWorkflowDispatched(h)
  PROVE  RequestsKept
<1>1. /\ request[h] \in RequestRecord /\ RequestSound(h)
      /\ request[h].stage = "mark" /\ UNCHANGED <<storeVars, run>>
  BY DEF ServiceInv, SystemTypeOK, ServiceSound, MarkWorkflowDispatched
<1>2. CASE Finish(h) \/ Goto(h, "readback")
  BY <1>1, <1>2, RequestRests
<1>3. CASE Goto(h, "status")
  <2> PICK q \in RequestRecord : q = request[h]
    BY <1>1
  <2> DEFINE r == [q EXCEPT !.stage = "status"]
  <2>1. request' = [request EXCEPT ![h] = r]
    BY <1>3 DEF Goto
  <2>2. /\ r \in RequestRecord /\ r.stage = "status" /\ r.turn = q.turn /\ r.run = q.run
        /\ r.rev = q.rev /\ r.retry = q.retry
    BY DEF RequestRecord
  <2> HIDE DEF r
  <2>3. request'[h] = r => RequestSound(h)'
    BY <1>1, <2>2 DEF RequestSound, Present, Started, storeVars
  <2> QED BY <2>1, <2>2, <2>3, OneRequestMoves
<1> QED BY <1>2, <1>3 DEF MarkWorkflowDispatched

\* Only a run that is over lets a retry start another one.
LEMMA ReadRunStatusKeeps ==
  ASSUME ServiceInv, Progress, NEW h \in Requests, ReadRunStatus(h)
  PROVE  RequestsKept
<1>1. /\ request[h] \in RequestRecord /\ RequestSound(h) /\ request[h].stage = "status"
      /\ UNCHANGED <<storeVars, run>> /\ request \in [Requests -> RequestRecord]
  BY DEF ServiceInv, SystemTypeOK, ServiceSound, ReadRunStatus
<1> PICK q \in RequestRecord : q = request[h]
  BY <1>1
<1> DEFINE s == IF run[q.turn][q.run].status \in {"failed", "canceled"}
                THEN "start" ELSE "readback"
           r == [q EXCEPT !.confirmed = TRUE, !.stage = s]
<1>2. request' = [request EXCEPT ![h] = r]
  BY <1>1 DEF ReadRunStatus
<1>3. s = "start" \/ s = "readback"
  OBVIOUS
<1>4. s = "start" => Over(q.turn, q.run)
  BY DEF Over
<1> HIDE DEF s
<1>5. /\ r \in RequestRecord /\ r.stage = s /\ r.turn = q.turn /\ r.run = q.run
      /\ r.rev = q.rev /\ r.retry = q.retry
  BY <1>3 DEF RequestRecord
<1> HIDE DEF r
<1>6. request'[h] = r => RequestSound(h)'
  BY <1>1, <1>3, <1>4, <1>5 DEF RequestSound, Present, Over, storeVars
<1> QED BY <1>2, <1>5, <1>6, OneRequestMoves

\* The requests keep what they know.
LEMMA StepKeepsRequests ==
  ASSUME ServiceInv, Progress, [SystemNext]_systemVars
  PROVE  RequestsKept
<1>1. ASSUME NEW h \in Requests, RequestStep(h) PROVE RequestsKept
  <2>1. ASSUME NEW t \in Turns, SubmitRead(h, t) \/ RetryAccepted(h, t)
        PROVE  RequestsKept
    BY <2>1, SubmitReadKeeps, RetryAcceptedKeeps
  <2>2. CASE SubmitAccepted(h) \/ StartTask(h) \/ MarkWorkflowDispatched(h) \/ ReadRunStatus(h)
    BY <2>2, SubmitAcceptedKeeps, StartTaskKeeps, MarkKeeps, ReadRunStatusKeeps
  <2>3. CASE SubmitRefused(h) \/ StartTaskLost(h) \/ RetryReadBack(h) \/ DispatchFails(h)
             \/ RequestFails(h)
    <3>1. request[h].stage # "idle"
      BY <2>3 DEF SubmitRefused, StartTaskLost, RetryReadBack, DispatchFails, RequestFails
    <3>2. Finish(h) \/ Goto(h, "fail")
      BY <2>3 DEF SubmitRefused, StartTaskLost, RetryReadBack, DispatchFails, RequestFails
    <3> QED BY <3>1, <3>2, RequestRests
  <2> QED BY <1>1, <2>1, <2>2, <2>3 DEF RequestStep
<1>2. CASE ServerCrashes
  <2>1. Idle \in RequestRecord /\ Idle.stage = "idle"
    BY BoundsAssumption DEF Idle, RequestRecord
  <2> QED BY <1>2, <2>1 DEF ServerCrashes, RequestsKept, RequestSound
<1>3. CASE UNCHANGED request
  BY <1>3, RequestStays DEF RequestsKept, ServiceInv, SystemTypeOK
<1>4. ASSUME NEW c \in callback, CallbackStep(c) PROVE UNCHANGED request
  BY <1>4 DEF CallbackStep, CallbackClaims, CallbackCompletes, CallbackErrs, CallbackFails
<1>5. ASSUME RenderStep \/ RowsRemoved \/ ClockTicks \/ UNCHANGED systemVars
      PROVE  UNCHANGED request
  BY <1>5 DEF RenderStep, StartTaskArrives, StartTaskDropped, AttemptStarts, AttemptTimesOut,
              RunCanceled, RowsRemoved, ClockTicks, systemVars
<1> QED BY <1>1, <1>2, <1>3, <1>4, <1>5 DEF SystemNext

\* The runs of a turn keep their order, and each a revision of its answer.
LEMMA StepKeepsRuns ==
  ASSUME ServiceInv, Progress, NEW t \in Turns, NEW n \in RunIds
  PROVE  RunSound(t, n)'
<1>1. /\ SystemTypeOK /\ RunsAdvance /\ RunAdvances(t, n)
      /\ \A k \in RunIds : RunSound(t, k)
      /\ turn[t].status # "absent" /\ session'.exists =>
           /\ turn'[t].status # "absent"
           /\ turn'[t].revision = turn[t].revision /\ turn'[t].input = turn[t].input
      /\ session'.exists => session.exists
      /\ run' \in [Turns -> [RunIds -> RunRecord]]
  BY DEF ServiceInv, ServiceSound, Progress, RunsAdvance, StoreGrows
<1>2. /\ \A k \in 1..(n - 1) : k \in RunIds
      /\ run[t][n].previous # 0 => run[t][n].previous \in RunIds
      /\ run'[t][n].previous # 0 => run'[t][n].previous \in RunIds
  <2>1. run[t][n] \in RunRecord /\ run'[t][n] \in RunRecord
    BY <1>1 DEF SystemTypeOK
  <2>2. run[t][n].previous \in 0..MaxRuns /\ run'[t][n].previous \in 0..MaxRuns
    BY <2>1 DEF RunRecord
  <2>3. \A p \in 0..MaxRuns : p # 0 => p \in RunIds
    BY BoundsAssumption DEF RunIds
  <2>4. \A k \in 1..(n - 1) : k \in RunIds
    BY BoundsAssumption DEF RunIds
  <2> QED BY <2>2, <2>3, <2>4
<1>3. ASSUME Started(t, n)', NEW k \in 1..(n - 1)
      PROVE  run'[t][k].status # "none"
  <2>1. Started(t, k)
    BY <1>1, <1>3 DEF RunAdvances, RunSound, Started
  <2> QED BY <1>1, <1>2, <2>1, RunsEndure
<1>4. ASSUME Started(t, n)', run'[t][n].previous # 0
      PROVE  run'[t][run'[t][n].previous].status \in {"failed", "canceled"}
  <2>1. Over(t, run'[t][n].previous)
    BY <1>1, <1>4 DEF RunAdvances, RunSound, Started
  <2> PICK p \in RunIds : p = run'[t][n].previous
    BY <1>2, <1>4
  <2> QED BY <1>1, <2>1, RunsEndure DEF Over
<1>5. ASSUME session'.exists, Started(t, n)'
      PROVE  /\ turn'[t].status # "absent"
             /\ run'[t][n].rev \in {turn'[t].revision, turn'[t].input}
             /\ turn'[t].input = turn'[t].revision => run'[t][n].previous = n - 1
  <2>1. CASE Started(t, n)
    BY <1>1, <1>5, <2>1, RunsEndure DEF RunSound, Present, Carries, EnvelopeMatches
  <2>2. CASE ~Started(t, n)
    BY <1>1, <1>5, <2>2 DEF RunAdvances, Started, Present, Carries, EnvelopeMatches
  <2> QED BY <2>1, <2>2
<1>6. run'[t][n].status = "running" /\ ~run'[t][n].calling => run'[t][n].attempt < MaxAttempts
  BY <1>1 DEF RunAdvances, RunSound
<1> QED BY <1>3, <1>4, <1>5, <1>6
        DEF RunSound, Started, Over, Present, Carries, EnvelopeMatches

\* After the step every mark names a run that exists.
MarksKept == workflowRunId' \in [Turns -> 0..MaxRuns] /\ \A t \in Turns : MarkSound(t)'

\* A turn only ever names a run that exists.
LEMMA StepKeepsMarks ==
  ASSUME ServiceInv, Progress, [SystemNext]_systemVars
  PROVE  MarksKept
<1>1. SystemTypeOK /\ workflowRunId \in [Turns -> 0..MaxRuns] /\ MaxRuns \in Nat
  BY BoundsAssumption DEF ServiceInv, SystemTypeOK
<1>2. ASSUME NEW t \in Turns, workflowRunId'[t] = workflowRunId[t] PROVE MarkSound(t)'
  <2> PICK n \in 0..MaxRuns : n = workflowRunId[t]
    BY <1>1
  <2>1. n # 0 => n \in RunIds /\ Started(t, n)
    BY <1>1 DEF RunIds, ServiceInv, ServiceSound, MarkSound
  <2>2. n # 0 => run'[t][n].status # "none"
    BY <1>1, <2>1, RunsEndure DEF Progress
  <2> QED BY <1>2, <2>2 DEF MarkSound, Started
<1>3. CASE UNCHANGED workflowRunId
  BY <1>1, <1>2, <1>3 DEF MarksKept
<1>4. ASSUME NEW h \in Requests, MarkWorkflowDispatched(h) PROVE MarksKept
  <2>1. /\ request[h] \in RequestRecord /\ RequestSound(h) /\ request[h].stage = "mark"
        /\ workflowRunId' = [workflowRunId EXCEPT ![request[h].turn] = request[h].run]
        /\ run' = run
    BY <1>4 DEF ServiceInv, SystemTypeOK, ServiceSound, MarkWorkflowDispatched
  <2> PICK q \in RequestRecord : q = request[h]
    BY <2>1
  <2>2. q.turn \in Turns /\ q.run \in 0..MaxRuns /\ Started(q.turn, q.run)
    BY <2>1 DEF RequestSound, RequestRecord
  <2>3. /\ workflowRunId' \in [Turns -> 0..MaxRuns] /\ workflowRunId'[q.turn] = q.run
        /\ \A t \in Turns : t # q.turn => workflowRunId'[t] = workflowRunId[t]
    BY <1>1, <2>1, <2>2
  <2>4. MarkSound(q.turn)'
    BY <2>1, <2>2, <2>3 DEF MarkSound, Started
  <2> QED BY <1>2, <2>3, <2>4 DEF MarksKept
<1>5. CASE RowsRemoved
  BY <1>1, <1>5 DEF RowsRemoved, MarksKept, MarkSound
<1>6. ASSUME NEW h \in Requests, RequestStep(h), ~MarkWorkflowDispatched(h)
      PROVE  UNCHANGED workflowRunId
  BY <1>6 DEF RequestStep, SubmitRead, RetryAccepted, SubmitAccepted, SubmitRefused, StartTask,
              StartTaskLost, ReadRunStatus, RetryReadBack, DispatchFails, RequestFails
<1>7. ASSUME NEW c \in callback, CallbackStep(c) PROVE UNCHANGED workflowRunId
  BY <1>7 DEF CallbackStep, CallbackClaims, CallbackCompletes, CallbackErrs, CallbackFails
<1>8. ASSUME RenderStep \/ ServerCrashes \/ ClockTicks \/ UNCHANGED systemVars
      PROVE  UNCHANGED workflowRunId
  BY <1>8 DEF RenderStep, StartTaskArrives, StartTaskDropped, AttemptStarts, AttemptTimesOut,
              RunCanceled, ServerCrashes, ClockTicks, systemVars
<1> QED BY <1>3, <1>4, <1>5, <1>6, <1>7, <1>8 DEF SystemNext

\* After the step every call on its way is one that a request was entitled to.
TransitKept == transit' \subseteq TransitRecord /\ \A m \in transit' : TransitSound(m)'

\* A call on its way keeps asking for what its request was entitled to.
LEMMA StepKeepsTransit ==
  ASSUME ServiceInv, Progress, [SystemNext]_systemVars
  PROVE  TransitKept
<1>1. SystemTypeOK /\ transit \subseteq TransitRecord /\ MaxRuns \in Nat
  BY BoundsAssumption DEF ServiceInv, SystemTypeOK
<1>2. ASSUME NEW m \in TransitRecord, TransitSound(m) PROVE TransitSound(m)'
  <2>1. m.turn \in Turns /\ (m.previous # 0 => m.previous \in RunIds)
    BY <1>1 DEF TransitRecord, RunIds
  <2>2. m.previous # 0 => Over(m.turn, m.previous)'
    BY <1>1, <1>2, <2>1, RunsEndure DEF Progress, TransitSound, Over
  <2>3. session'.exists => Present(m.turn)' /\ Carries(m.turn, m.rev)'
    BY <1>2, <2>1 DEF Progress, StoreGrows, TransitSound, Present, Carries
  <2> QED BY <1>2, <2>2, <2>3 DEF TransitSound
<1>3. CASE transit' \subseteq transit
  BY <1>1, <1>2, <1>3 DEF TransitKept, ServiceInv, ServiceSound
<1>4. ASSUME NEW h \in Requests, StartTaskLost(h) PROVE TransitKept
  <2> PICK q \in RequestRecord : q = request[h] /\ RequestSound(h)
    BY DEF ServiceInv, SystemTypeOK, ServiceSound
  <2> PICK m : m = [turn |-> q.turn, previous |-> q.run, rev |-> q.rev]
    OBVIOUS
  <2>1. transit' = transit \cup {m}
    BY <1>4 DEF StartTaskLost
  <2>2. m \in TransitRecord /\ TransitSound(m)
    BY <1>4 DEF StartTaskLost, RequestSound, RequestRecord, TransitRecord, TransitSound,
                Carries
  <2> QED BY <1>1, <1>2, <2>1, <2>2 DEF TransitKept, ServiceInv, ServiceSound
<1>5. ASSUME NEW h \in Requests, RequestStep(h), ~StartTaskLost(h)
      PROVE  UNCHANGED transit
  BY <1>5 DEF RequestStep, SubmitRead, RetryAccepted, SubmitAccepted, SubmitRefused, StartTask,
              MarkWorkflowDispatched, ReadRunStatus, RetryReadBack, DispatchFails, RequestFails
<1>6. ASSUME NEW c \in callback, CallbackStep(c) PROVE UNCHANGED transit
  BY <1>6 DEF CallbackStep, CallbackClaims, CallbackCompletes, CallbackErrs, CallbackFails
<1>7. ASSUME RenderStep \/ ServerCrashes \/ RowsRemoved \/ ClockTicks \/ UNCHANGED systemVars
      PROVE  transit' \subseteq transit
  BY <1>7 DEF RenderStep, StartTaskArrives, StartTaskDropped, AttemptStarts, AttemptTimesOut,
              RunCanceled, ServerCrashes, RowsRemoved, ClockTicks, systemVars
<1> QED BY <1>3, <1>4, <1>5, <1>6, <1>7 DEF SystemNext

\* After the step every callback works for a run that exists.
CallbacksKept == callback' \subseteq CallbackRecord /\ \A c \in callback' : CallbackSound(c)'

\* A callback keeps working on a state that the store has handed out.
LEMMA StepKeepsCallbacks ==
  ASSUME ServiceInv, Progress, [SystemNext]_systemVars
  PROVE  CallbacksKept
<1>1. /\ SystemTypeOK /\ callback \subseteq CallbackRecord
      /\ session.state \in DiagnosticState /\ claims \in [Turns -> SUBSET DiagnosticState]
      /\ EmptyState \in DiagnosticState
  BY DEF ServiceInv, SystemTypeOK, StoreInv, TypeOK, SessionRecord, EmptyState, DiagnosticState
<1>2. ASSUME NEW c \in CallbackRecord, Started(c.turn, c.run),
             c.stage = "reason" => c.base \in claims'[c.turn]
      PROVE  CallbackSound(c)'
  <2>1. c.turn \in Turns /\ c.run \in RunIds
    BY DEF CallbackRecord
  <2> QED BY <1>1, <1>2, <2>1, RunsEndure DEF Progress, CallbackSound, Started
<1>3. ASSUME NEW c \in callback PROVE CallbackSound(c)'
  <2>1. c \in CallbackRecord /\ c.turn \in Turns /\ CallbackSound(c)
    BY <1>1 DEF CallbackRecord, ServiceInv, ServiceSound
  <2>2. claims[c.turn] \subseteq claims'[c.turn]
    BY <2>1 DEF Progress, StoreGrows
  <2> QED BY <1>2, <2>1, <2>2 DEF CallbackSound
<1>4. CASE callback' \subseteq callback
  BY <1>1, <1>3, <1>4 DEF CallbacksKept
<1>5. ASSUME NEW d \in CallbackRecord, callback' \subseteq callback \cup {d},
             Started(d.turn, d.run), d.stage = "reason" => d.base \in claims'[d.turn]
      PROVE  CallbacksKept
  BY <1>1, <1>2, <1>3, <1>5 DEF CallbacksKept
<1>6. ASSUME NEW t \in Turns, NEW n \in RunIds, AttemptStarts(t, n) PROVE CallbacksKept
  <2> PICK k \in Nat : k = run[t][n].attempt
    BY <1>1, BoundsAssumption DEF SystemTypeOK, RunRecord
  <2>1. /\ k + 1 \in 1..MaxAttempts /\ run[t][n].status = "running"
    BY <1>6, BoundsAssumption DEF AttemptStarts, ServiceInv, ServiceSound, RunSound
  <2> DEFINE d == [turn |-> t, run |-> n, attempt |-> k + 1, stage |-> "claim",
                   base |-> EmptyState]
  <2>2. callback' = callback \cup {d}
    BY <1>6 DEF AttemptStarts
  <2>3. /\ d \in CallbackRecord /\ d.turn = t /\ d.run = n /\ d.stage = "claim"
    BY <1>1, <2>1 DEF CallbackRecord
  <2> HIDE DEF d
  <2>4. Started(d.turn, d.run)
    BY <2>1, <2>3 DEF Started
  <2> QED BY <1>5, <2>2, <2>3, <2>4
<1>7. ASSUME NEW c \in callback, NEW stage \in {"claim", "reason", "fail"},
             NEW base \in DiagnosticState, Advance(c, stage, base),
             stage = "reason" => base \in claims'[c.turn]
      PROVE  CallbacksKept
  <2>1. c \in CallbackRecord /\ Started(c.turn, c.run)
    BY <1>1 DEF ServiceInv, ServiceSound, CallbackSound
  <2> DEFINE d == [c EXCEPT !.stage = stage, !.base = base]
  <2>2. callback' \subseteq callback \cup {d}
    BY <1>7 DEF Advance
  <2>3. /\ d \in CallbackRecord /\ d.turn = c.turn /\ d.run = c.run /\ d.stage = stage
        /\ d.base = base
    BY <2>1 DEF CallbackRecord
  <2> HIDE DEF d
  <2> QED BY <1>5, <1>7, <2>1, <2>2, <2>3
<1>8. ASSUME NEW c \in callback, CallbackStep(c) PROVE CallbacksKept
  <2>1. ASSUME NEW ok \in BOOLEAN, Reply(c, ok) PROVE CallbacksKept
    BY <1>4, <2>1 DEF Reply
  <2>2. CASE CallbackClaims(c)
    <3> PICK rev : rev = run[c.turn][c.run].rev
      OBVIOUS
    <3>1. CASE ClaimTaken(c.turn, rev) /\ EnvelopeMatches(c.turn)
               /\ Advance(c, "reason", session.state)
      <4>1. c.turn \in Turns
        BY <1>1 DEF CallbackRecord
      <4>2. session.state \in claims'[c.turn]
        BY <1>1, <3>1, <4>1 DEF ClaimTaken
      <4> QED BY <1>1, <1>7, <3>1, <4>2
    <3>2. CASE Advance(c, "fail", EmptyState)
      BY <1>1, <1>7, <3>2
    <3>3. CASE Reply(c, TRUE)
      BY <2>1, <3>3
    <3> QED BY <2>2, <3>1, <3>2, <3>3 DEF CallbackClaims, WorkOnClaimed
  <2>3. CASE CallbackErrs(c)
    BY <1>1, <1>7, <2>3 DEF CallbackErrs
  <2>4. CASE CallbackCompletes(c) \/ CallbackFails(c)
    BY <2>1, <2>4 DEF CallbackCompletes, CallbackFails
  <2> QED BY <1>8, <2>2, <2>3, <2>4 DEF CallbackStep
<1>9. ASSUME NEW h \in Requests, RequestStep(h) PROVE UNCHANGED callback
  BY <1>9 DEF RequestStep, SubmitRead, RetryAccepted, SubmitAccepted, SubmitRefused, StartTask,
              StartTaskLost, MarkWorkflowDispatched, ReadRunStatus, RetryReadBack,
              DispatchFails, RequestFails
<1>10. CASE RenderStep
  BY <1>4, <1>6, <1>10 DEF RenderStep, StartTaskArrives, StartTaskDropped, AttemptTimesOut,
                           RunCanceled
<1>11. ASSUME ServerCrashes \/ RowsRemoved \/ ClockTicks \/ UNCHANGED systemVars
       PROVE  callback' \subseteq callback
  BY <1>11 DEF ServerCrashes, RowsRemoved, ClockTicks, systemVars
<1> QED BY <1>4, <1>8, <1>9, <1>10, <1>11 DEF SystemNext

-----------------------------------------------------------------------------
(* The theorems.                                                           *)

\* Initially there is nothing to know.
LEMMA ServiceInitInv == SystemInit => ServiceInv
<1> SUFFICES ASSUME SystemInit PROVE ServiceInv
  OBVIOUS
<1>1. StoreInv
  BY InitInv DEF SystemInit
<1>2. Idle \in RequestRecord /\ NoRun \in RunRecord
  BY BoundsAssumption DEF Idle, RequestRecord, NoRun, RunRecord
<1>3. SystemTypeOK
  BY <1>2, BoundsAssumption DEF SystemInit, SystemTypeOK
<1>4. /\ \A h \in Requests : request[h].stage = "idle"
      /\ \A t \in Turns : workflowRunId[t] = 0
      /\ \A t \in Turns, n \in RunIds : run[t][n].status = "none"
      /\ transit = {} /\ callback = {}
  BY DEF SystemInit, Idle, NoRun
<1>5. ServiceSound
  BY <1>4 DEF ServiceSound, RequestSound, RunSound, MarkSound, Started
<1> QED BY <1>1, <1>3, <1>5 DEF ServiceInv

\* Every step of the service keeps the invariant.
LEMMA ServiceNextInv == ServiceInv /\ [SystemNext]_systemVars => ServiceInv'
<1> SUFFICES ASSUME ServiceInv, [SystemNext]_systemVars PROVE ServiceInv'
  OBVIOUS
<1>1. [StoreNext]_storeVars
  BY StepUsesStore
<1>2. Progress
  BY <1>1, NextKeepsInv, StoreStepGrows, StepAdvancesRuns DEF Progress, ServiceInv, StoreInv
<1>3. SystemTypeOK'
  BY <1>2, StepKeepsRequests, StepKeepsMarks, StepKeepsTransit, StepKeepsCallbacks
     DEF SystemTypeOK, Progress, RunsAdvance, RequestsKept, MarksKept, TransitKept,
         CallbacksKept
<1>4. ServiceSound'
  BY <1>2, StepKeepsRequests, StepKeepsRuns, StepKeepsMarks, StepKeepsTransit,
     StepKeepsCallbacks
     DEF ServiceSound, RequestsKept, MarksKept, TransitKept, CallbacksKept
<1> QED BY <1>2, <1>3, <1>4 DEF ServiceInv, Progress

\* The inductive invariant of the service holds in every reachable state, through crashes,
\* lost calls and late callbacks (service.ts, dispatcher.ts, diagnostic-turn.ts).
THEOREM ServiceInvariant == SystemSpec => []ServiceInv
  BY ServiceInitInv, ServiceNextInv, PTL DEF SystemSpec

\* Requests, runs, calls and callbacks keep their types, and no run exceeds its attempts.
THEOREM ServiceTyped == SystemSpec => []SystemTypeOK
<1>1. ServiceInv => SystemTypeOK
  BY DEF ServiceInv
<1> QED BY <1>1, ServiceInvariant, PTL

\* Every step of the service is a legal use of its store.
THEOREM ServiceUsesStore == SystemSpec => UsesStore
<1>1. SystemInit => StoreInit
  BY DEF SystemInit
<1>2. ServiceInv /\ [SystemNext]_systemVars => [UNCHANGED storeVars \/ StoreNext]_storeVars
  BY StepUsesStore
<1> QED
  BY <1>1, <1>2, ServiceInvariant, PTL DEF SystemSpec, UsesStore

\* However dispatches are lost, repeated or late, a new run of an answer starts only
\* after the run before it is over, and a turn names only runs that exist.
THEOREM RunsAreChained == SystemSpec => []RunsFormChain
<1>1. ServiceInv => RunsFormChain
  BY DEF ServiceInv, ServiceSound, RunSound, MarkSound, RunsFormChain
<1> QED BY <1>1, ServiceInvariant, PTL

\* The revision a workflow input carries is that of the answer it was made for.
THEOREM InputsMatchTurns == SystemSpec => []InputMatchesTurn
<1>1. ServiceInv => InputMatchesTurn
  BY DEF ServiceInv, StoreInv, ServiceSound, RequestSound, RunSound, Carries, InputMatchesTurn
<1> QED BY <1>1, ServiceInvariant, PTL

\* What holds of the store for free callers holds in the service: it keeps the promise of
\* AnswerLog, loses no update, never touches a settled turn again and works on one answer
\* at a time, applied in the order of acceptance.
THEOREM ServiceKeepsPromises ==
  SystemSpec => /\ ImplementsAnswerLog /\ NoLostUpdate /\ SettledForever
                /\ [](OneAnswerInFlight /\ AppliedInOrder)
<1>0. [UNCHANGED storeVars \/ StoreNext]_storeVars => [StoreNext]_storeVars
  OBVIOUS
<1>1. SystemSpec => StoreSpec
  BY <1>0, ServiceUsesStore, PTL DEF UsesStore, StoreSpec
<1>2. SystemSpec => ImplementsAnswerLog
  BY <1>1, StoreImplementsLog
<1>3. SystemSpec => NoLostUpdate
  BY <1>1, NoUpdateLost
<1>4. SystemSpec => SettledForever
  BY <1>1, SettledTurnsStay
<1>5. SystemSpec => [](OneAnswerInFlight /\ AppliedInOrder)
  BY <1>1, OneAnswerAtATime, AnswersAppliedInOrder, PTL
<1> QED BY <1>2, <1>3, <1>4, <1>5
=============================================================================
