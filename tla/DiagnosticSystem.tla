-------------------------- MODULE DiagnosticSystem --------------------------
(***************************************************************************)
(* The diagnostic service in Render Workflow mode around its store:        *)
(*   - HTTP requests that submit or retry an answer (server/service.ts)    *)
(*     and start Render runs under idempotency keys (server/dispatcher.ts);*)
(*   - Render, which runs the task diagnosticTurn with retries             *)
(*     (workflows/src/index.ts, workflows/src/diagnostic-turn.ts);         *)
(*   - the callbacks by which a run has the server process the turn        *)
(*     (DiagnosticService.processWorkflowTurn, server/processor.ts).       *)
(* Requests and callbacks interleave at every await.  Replies are lost or  *)
(* late, attempts time out while the server still works on them, and the   *)
(* server process may crash at any point.                                  *)
(***************************************************************************)
EXTENDS DiagnosticStore

CONSTANTS
  Requests,     \* concurrent submit and retry requests
  MaxRuns,      \* bound: Render runs of one turn
  MaxAttempts,  \* attempts of a run: 1 + maxRetries of the task
  Ahead,        \* bound: how far an author's revision may run ahead of the session's
  MaxFaults     \* bound: errors, lost replies, timeouts, crashes, expiries, deletions

ASSUME BoundsAssumption ==
  /\ MaxRuns \in Nat \ {0} /\ MaxAttempts \in Nat \ {0}
  /\ Ahead \in Nat /\ MaxFaults \in Nat

VARIABLES
  request,        \* what each request handler is about to do
  workflowRunId,  \* the column workflow_run_id of each turn, 0: null
  run,            \* run[t][n]: the n-th run of t that Render has created
  transit,        \* startTask calls whose caller has stopped waiting
  callback,       \* turns the server is processing for a run's attempt
  faults          \* how often something has gone wrong so far

systemVars == <<storeVars, request, workflowRunId, run, transit, callback, faults>>

RunIds == 1..MaxRuns

\* Render finds a run by its key: the task, the input (of which only the revision rev can
\* differ for one turn) and the previous run (0: null).
RunRecord ==
  [status : {"none", "running", "completed", "failed", "canceled"},
   rev : Nat, previous : 0..MaxRuns, attempt : 0..MaxAttempts, calling : BOOLEAN]
NoRun == [status |-> "none", rev |-> 0, previous |-> 0, attempt |-> 0, calling |-> FALSE]

RequestRecord ==
  [stage : {"idle", "read", "start", "mark", "status", "readback", "fail"},
   retry : BOOLEAN, turn : Turns \cup {NoTurn}, expected : Nat, correction : BOOLEAN,
   rev : Nat, run : 0..MaxRuns, confirmed : BOOLEAN]
Idle ==
  [stage |-> "idle", retry |-> FALSE, turn |-> NoTurn, expected |-> 0,
   correction |-> FALSE, rev |-> 0, run |-> 0, confirmed |-> FALSE]

TransitRecord == [turn : Turns, previous : 0..MaxRuns, rev : Nat]
CallbackRecord ==
  [turn : Turns, run : RunIds, attempt : 1..MaxAttempts,
   stage : {"claim", "reason", "fail"}, base : DiagnosticState]

SystemInit ==
  /\ StoreInit
  /\ request = [h \in Requests |-> Idle]
  /\ workflowRunId = [t \in Turns |-> 0]
  /\ run = [t \in Turns |-> [n \in RunIds |-> NoRun]]
  /\ transit = {}
  /\ callback = {}
  /\ faults = 0

Started(t, n) == run[t][n].status # "none"
Over(t, n) == run[t][n].status \in {"failed", "canceled"}

Fault == faults < MaxFaults /\ faults' = faults + 1

Goto(h, stage) == request' = [request EXCEPT ![h].stage = stage]
Finish(h) == request' = [request EXCEPT ![h] = Idle]

\* A caller of failTurn: it does nothing to a missing or settled turn, and it may
\* itself fail, as when Postgres breaks a deadlock by aborting its transaction.
RecordFailure(t) ==
  \/ FailTurn(t) /\ UNCHANGED faults
  \/ (~Present(t) \/ turn[t].status \in Settled) /\ UNCHANGED <<storeVars, faults>>
  \/ Fault /\ UNCHANGED storeVars

-----------------------------------------------------------------------------
(* Mistakes, used by no specification, as in DiagnosticStore.              *)

\* A retry replaces a run that is still running.
ReadRunStatusEagerly(h) ==
  LET r == request[h]
  IN /\ r.stage = "status"
     /\ request' = [request EXCEPT ![h].confirmed = TRUE,
                      ![h].stage = IF run[r.turn][r.run].status # "completed"
                                   THEN "start" ELSE "readback"]
     /\ UNCHANGED <<storeVars, workflowRunId, run, transit, callback, faults>>

\* One attempt more than maxRetries allows.
EndAttemptLate(r) ==
  [r EXCEPT !.calling = FALSE,
            !.status = IF r.attempt > MaxAttempts THEN "failed" ELSE "running"]

\* The processor reasons from an empty state instead of the one it claimed.
AdvanceFromScratch(c, stage, base) ==
  /\ callback' = (callback \ {c}) \cup {[c EXCEPT !.stage = stage, !.base = EmptyState]}
  /\ UNCHANGED run

\* The processor works on whatever envelope it decrypts.
WorkOnAnyEnvelope(c, rev) ==
  /\ ClaimTaken(c.turn, rev)
  /\ callback' = (callback \ {c}) \cup {[c EXCEPT !.stage = "reason", !.base = session.state]}
  /\ UNCHANGED run

-----------------------------------------------------------------------------
(* Submitting an answer: DiagnosticService.submitTurn.                     *)

\* The handler reads the session, checks the input against it (a correction names an
\* earlier answer; with another revision than the session's nothing is checked) and
\* prepares envelope and workflow input for the revision after the one it read, whatever
\* revision the author expects.
SubmitRead(h, t) ==
  /\ request[h].stage = "idle"
  /\ session.exists /\ ~session.expired
  /\ \E expected \in 0..(session.revision + Ahead), correction \in BOOLEAN :
       /\ (expected = session.revision /\ correction) => \E c \in Turns : Present(c)
       /\ request' = [request EXCEPT ![h] =
            [Idle EXCEPT !.stage = "read", !.turn = t, !.expected = expected,
               !.correction = correction, !.rev = session.revision + 1]]
  /\ UNCHANGED <<storeVars, workflowRunId, run, transit, callback, faults>>

\* The handler keeps what the dispatch needs.
SubmitAccepted(h) ==
  /\ request[h].stage = "read"
  /\ AcceptTurn(request[h].turn, request[h].expected, request[h].correction, request[h].rev)
  /\ request' = [request EXCEPT ![h] = [@ EXCEPT !.stage = "start", !.expected = 0,
                                                 !.correction = FALSE]]
  /\ UNCHANGED <<workflowRunId, run, transit, callback, faults>>

\* A replay of a known key, a conflict, an expired session or a failed transaction:
\* nothing is stored.
SubmitRefused(h) ==
  /\ request[h].stage = "read"
  /\ Finish(h)
  /\ UNCHANGED <<storeVars, workflowRunId, run, transit, callback, faults>>

-----------------------------------------------------------------------------
(* Retrying a failed answer: DiagnosticService.retryTurn.                  *)

RetryAccepted(h, t) ==
  /\ request[h].stage = "idle"
  /\ RetryTurn(t)
  /\ request' = [request EXCEPT ![h] =
       [Idle EXCEPT !.stage = IF workflowRunId[t] = 0 THEN "start" ELSE "status",
          !.retry = TRUE, !.turn = t, !.rev = turn[t].revision, !.run = workflowRunId[t]]]
  /\ UNCHANGED <<workflowRunId, run, transit, callback, faults>>

\* After the dispatch a retry reads session and turn back; it counts as failed when the
\* session has meanwhile expired or been deleted, or the read fails.
RetryReadBack(h) ==
  LET readable == session.exists /\ ~session.expired
  IN /\ request[h].stage = "readback"
     /\ \/ readable /\ Finish(h) /\ UNCHANGED faults
        \/ ~readable /\ Goto(h, "fail") /\ UNCHANGED faults
        \/ Fault /\ Goto(h, "fail")
     /\ UNCHANGED <<storeVars, workflowRunId, run, transit, callback>>

-----------------------------------------------------------------------------
(* Dispatching a saved answer: RenderWorkflowTurnDispatcher.dispatch.      *)

\* The runs of a key: at most one.
RunsOf(t, previous, rev) ==
  {n \in RunIds : Started(t, n) /\ run[t][n].previous = previous /\ run[t][n].rev = rev}

\* Render's side of startTask: the key of a run that exists returns that run, and n is its
\* name; another key creates the next one.
CreateRun(t, previous, rev, n) ==
  \/ n \in RunsOf(t, previous, rev) /\ UNCHANGED run
  \/ /\ RunsOf(t, previous, rev) = {}
     /\ ~Started(t, n) /\ \A k \in 1..(n - 1) : Started(t, k)
     /\ run' = [run EXCEPT ![t][n] = [NoRun EXCEPT !.status = "running", !.rev = rev,
                                                   !.previous = previous]]

StartTask(h) ==
  LET r == request[h]
  IN /\ r.stage = "start"
     /\ \E n \in RunIds :
          /\ CreateRun(r.turn, r.run, r.rev, n)
          /\ request' = [request EXCEPT ![h].stage = "mark", ![h].run = n]
     /\ UNCHANGED <<storeVars, workflowRunId, transit, callback, faults>>

\* The caller stops waiting (error, lost reply, dispatch timeout) with the call under way.
StartTaskLost(h) ==
  LET r == request[h]
  IN /\ r.stage = "start" /\ r.run < MaxRuns
     /\ transit' = transit \cup {[turn |-> r.turn, previous |-> r.run, rev |-> r.rev]}
     /\ Goto(h, "fail")
     /\ Fault
     /\ UNCHANGED <<storeVars, workflowRunId, run, callback>>

StartTaskArrives(m) ==
  /\ transit' = transit \ {m}
  /\ \E n \in RunIds : CreateRun(m.turn, m.previous, m.rev, n)
  /\ UNCHANGED <<storeVars, request, workflowRunId, callback, faults>>

StartTaskDropped(m) ==
  /\ transit' = transit \ {m}
  /\ Fault
  /\ UNCHANGED <<storeVars, request, workflowRunId, run, callback>>

\* markWorkflowDispatched overwrites whatever run the turn names.
MarkWorkflowDispatched(h) ==
  LET r == request[h]
  IN /\ r.stage = "mark" /\ Present(r.turn)
     /\ workflowRunId' = [workflowRunId EXCEPT ![r.turn] = r.run]
     /\ CASE ~r.retry               -> Finish(h)
          [] r.retry /\ ~r.confirmed -> Goto(h, "status")
          [] OTHER                  -> Goto(h, "readback")
     /\ UNCHANGED <<storeVars, run, transit, callback, faults>>

\* A retry asks Render about the run it recovered; only a run that is over is replaced.
ReadRunStatus(h) ==
  LET r == request[h]
  IN /\ r.stage = "status"
     /\ request' = [request EXCEPT ![h].confirmed = TRUE,
                      ![h].stage = IF run[r.turn][r.run].status \in {"failed", "canceled"}
                                   THEN "start" ELSE "readback"]
     /\ UNCHANGED <<storeVars, workflowRunId, run, transit, callback, faults>>

\* An error or the dispatch timeout while the run is marked or its status is read,
\* or startTask refused outright.
DispatchFails(h) ==
  /\ request[h].stage \in {"start", "mark", "status"}
  /\ Goto(h, "fail")
  /\ Fault
  /\ UNCHANGED <<storeVars, workflowRunId, run, transit, callback>>

\* The handler records the failure and answers 503.
RequestFails(h) ==
  /\ request[h].stage = "fail"
  /\ RecordFailure(request[h].turn)
  /\ Finish(h)
  /\ UNCHANGED <<workflowRunId, run, transit, callback>>

-----------------------------------------------------------------------------
(* Render executes the task: each attempt makes one HTTP call and waits.   *)

EndAttempt(r) ==
  [r EXCEPT !.calling = FALSE,
            !.status = IF r.attempt = MaxAttempts THEN "failed" ELSE "running"]

AttemptStarts(t, n) ==
  LET r == run[t][n]
  IN /\ r.status = "running" /\ ~r.calling
     /\ run' = [run EXCEPT ![t][n].calling = TRUE, ![t][n].attempt = @ + 1]
     /\ callback' = callback \cup
          {[turn |-> t, run |-> n, attempt |-> r.attempt + 1,
            stage |-> "claim", base |-> EmptyState]}
     /\ UNCHANGED <<storeVars, request, workflowRunId, transit, faults>>

\* The task's own timeout: the attempt is over, the server does not notice.
AttemptTimesOut(t, n) ==
  /\ run[t][n].status = "running" /\ run[t][n].calling
  /\ run' = [run EXCEPT ![t][n] = EndAttempt(@)]
  /\ Fault
  /\ UNCHANGED <<storeVars, request, workflowRunId, transit, callback>>

RunCanceled(t, n) ==
  /\ run[t][n].status = "running"
  /\ run' = [run EXCEPT ![t][n].status = "canceled", ![t][n].calling = FALSE]
  /\ Fault
  /\ UNCHANGED <<storeVars, request, workflowRunId, transit, callback>>

-----------------------------------------------------------------------------
(* The server processes a turn for an attempt.                             *)

Current(c) ==
  LET r == run[c.turn][c.run]
  IN r.status = "running" /\ r.calling /\ r.attempt = c.attempt

\* The response ends the attempt that asked for it; an older attempt's is ignored.
Reply(c, ok) ==
  /\ callback' = callback \ {c}
  /\ run' = IF ~Current(c) THEN run
            ELSE [run EXCEPT ![c.turn][c.run] =
                    IF ok THEN [@ EXCEPT !.status = "completed", !.calling = FALSE]
                          ELSE EndAttempt(@)]

Advance(c, stage, base) ==
  /\ callback' = (callback \ {c}) \cup {[c EXCEPT !.stage = stage, !.base = base]}
  /\ UNCHANGED run

\* With the claim the processor reads the state; it throws when the envelope does not
\* carry the turn's own revision.
WorkOnClaimed(c, rev) ==
  /\ ClaimTaken(c.turn, rev)
  /\ IF EnvelopeMatches(c.turn) THEN Advance(c, "reason", session.state)
                                ELSE Advance(c, "fail", EmptyState)

CallbackClaims(c) ==
  LET rev == run[c.turn][c.run].rev
  IN /\ c.stage = "claim"
     /\ \/ WorkOnClaimed(c, rev)
        \/ ClaimSuperseded(c.turn, rev) /\ Reply(c, TRUE)
        \/ /\ turn[c.turn].status \in Settled      \* duplicate or superseded: an answer too
           /\ Reply(c, TRUE) /\ UNCHANGED storeVars
        \/ /\ ClaimThrows(c.turn, rev)
           /\ Advance(c, "fail", EmptyState) /\ UNCHANGED storeVars
     /\ UNCHANGED <<request, workflowRunId, transit, faults>>

CallbackCompletes(c) ==
  /\ c.stage = "reason"
  /\ \/ \E terminal \in BOOLEAN :
          CompleteApplied(c.turn, NextState(c.base, c.turn, terminal))
     \/ CompleteSuperseded(c.turn)
     \/ turn[c.turn].status = "completed" /\ UNCHANGED storeVars
  /\ Reply(c, TRUE)
  /\ UNCHANGED <<request, workflowRunId, transit, faults>>

\* The reasoner or a store call throws, at any point before the turn is settled.
CallbackErrs(c) ==
  /\ c.stage \in {"claim", "reason"}
  /\ Advance(c, "fail", EmptyState)
  /\ Fault
  /\ UNCHANGED <<storeVars, request, workflowRunId, transit>>

CallbackFails(c) ==
  /\ c.stage = "fail"
  /\ RecordFailure(c.turn)
  /\ Reply(c, FALSE)
  /\ UNCHANGED <<request, workflowRunId, transit>>

-----------------------------------------------------------------------------
(* The process, the clock and the participant's right to erasure.          *)

ServerCrashes ==
  /\ request' = [h \in Requests |-> Idle]
  /\ callback' = {}
  /\ Fault
  /\ UNCHANGED <<storeVars, workflowRunId, run, transit>>

RowsRemoved ==
  /\ DeleteSession \/ PurgeSession
  /\ workflowRunId' = [t \in Turns |-> 0]
  /\ Fault
  /\ UNCHANGED <<request, run, transit, callback>>

ClockTicks ==
  /\ \/ PurgeEnvelopes /\ UNCHANGED faults
     \/ (SessionExpires \/ \E t \in Turns : EnvelopeExpires(t)) /\ Fault
  /\ UNCHANGED <<request, workflowRunId, run, transit, callback>>

RequestStep(h) ==
  \/ \E t \in Turns : SubmitRead(h, t) \/ RetryAccepted(h, t)
  \/ SubmitAccepted(h) \/ SubmitRefused(h)
  \/ StartTask(h) \/ StartTaskLost(h)
  \/ MarkWorkflowDispatched(h) \/ ReadRunStatus(h) \/ RetryReadBack(h)
  \/ DispatchFails(h) \/ RequestFails(h)

CallbackStep(c) ==
  CallbackClaims(c) \/ CallbackCompletes(c) \/ CallbackErrs(c) \/ CallbackFails(c)

RenderStep ==
  \/ \E m \in transit : StartTaskArrives(m) \/ StartTaskDropped(m)
  \/ \E t \in Turns, n \in RunIds :
       AttemptStarts(t, n) \/ AttemptTimesOut(t, n) \/ RunCanceled(t, n)

SystemNext ==
  \/ \E h \in Requests : RequestStep(h)
  \/ \E c \in callback : CallbackStep(c)
  \/ RenderStep
  \/ ServerCrashes \/ RowsRemoved \/ ClockTicks

SystemSpec == SystemInit /\ [][SystemNext]_systemVars

-----------------------------------------------------------------------------
(* Properties.                                                             *)

SystemTypeOK ==
  /\ request \in [Requests -> RequestRecord]
  /\ workflowRunId \in [Turns -> 0..MaxRuns]
  /\ run \in [Turns -> [RunIds -> RunRecord]]
  /\ transit \subseteq TransitRecord
  /\ callback \subseteq CallbackRecord

\* README.md:60: retries reconnect to an active run, and a new attempt is created only
\* after Render confirms failure or cancellation.  However replies are lost, marks are
\* late and retries overlap, a run follows another only when that one is over, a turn never
\* names a run that Render does not know, and the runs of a turn form one chain, so that
\* all but the last are over: unless the turn was accepted ahead of what its request had
\* read, when its submission and its retries have different keys.
RunsFormChain ==
  session.exists => \A t \in Turns :
    /\ \A n \in RunIds :
         Started(t, n) =>
           /\ run[t][n].previous # 0 => Over(t, run[t][n].previous)
           /\ EnvelopeMatches(t) => run[t][n].previous = n - 1
    /\ workflowRunId[t] # 0 => Started(t, workflowRunId[t])

\* The revision in a workflow input was computed from a session read before the
\* transaction that accepted the answer.  A submission carries what it sealed in the
\* envelope, a retry the turn's own number, a run one of the two; they differ only in one
\* direction, and an answer for which they differ is never applied, however often it is
\* retried and whichever run arrives first.
InputMatchesTurn ==
  session.exists =>
    /\ \A h \in Requests :
         LET r == request[h]
         IN r.stage \in {"start", "mark", "status"} /\ Present(r.turn) =>
              /\ r.retry => r.rev = turn[r.turn].revision
              /\ ~r.retry => r.rev = turn[r.turn].input
    /\ \A t \in Turns, n \in RunIds :
         Started(t, n) => run[t][n].rev \in {turn[t].revision, turn[t].input}
    /\ AppliedAsSealed

\* Every step of the service is a legal use of the store, so that what holds of the
\* store for free callers holds in the service: StoreSpec, with the steps that leave the
\* store alone named first, which are most.
UsesStore == StoreInit /\ [][UNCHANGED storeVars \/ StoreNext]_storeVars

\* server/dispatcher.ts:51 makes a confirmed failed run the anchor of a new attempt: the
\* run that startTask then returns is not itself one that is already over.
FreshAttemptIsLive ==
  [][\A h \in Requests :
       LET r == request'[h]
       IN request[h].stage = "start" /\ request[h].confirmed /\ r.stage = "mark"
            => run'[r.turn][r.run].status \notin {"failed", "canceled"}]_systemVars
=============================================================================
