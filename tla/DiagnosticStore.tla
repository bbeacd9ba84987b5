-------------------------- MODULE DiagnosticStore --------------------------
(***************************************************************************)
(* The transactional store of a diagnostic session (server/store.ts and    *)
(* server/postgres-store.ts) together with the processors that claim a     *)
(* saved answer, reason about it and write the result back                 *)
(* (server/processor.ts).                                                  *)
(*                                                                         *)
(* A "turn" is one answer of the participant: the row that acceptTurn      *)
(* inserts for one idempotency key.  Every operation of the Postgres store *)
(* runs in one transaction that locks the rows it changes before it        *)
(* decides, and the in-memory store never awaits inside an operation, so   *)
(* every operation is one action.  The callers are left free here: any     *)
(* legal caller may invoke any operation at any time, any number of times. *)
(* The module DiagnosticSystem says which calls the server and Render      *)
(* Workflows really make.  Sessions share nothing, so one is modelled.     *)
(***************************************************************************)
EXTENDS Naturals, Sequences, FiniteSets

CONSTANTS Turns,      \* the answers a participant may submit
          NoTurn      \* pendingTurnId = null

ASSUME TurnsAssumption == IsFiniteSet(Turns) /\ NoTurn \notin Turns

VARIABLES
  session,  \* the diagnostic_sessions row, and whether it exists and has expired
  turn,     \* the diagnostic_turns rows; status "absent": no such row
  claims    \* claims[t]: the session states claimTurn has handed to processors of t

storeVars == <<session, turn, claims>>

Open == {"accepted", "processing"}          \* some processor is expected to finish it
Settled == {"completed", "superseded"}      \* no operation may touch it again
TurnStatus == Open \cup Settled \cup {"absent", "failed"}

\* DiagnosticState, reduced to the answers it was built from and its verdict.
DiagnosticState == [acceptedTurnIds : Seq(Turns), terminal : BOOLEAN]
EmptyState == [acceptedTurnIds |-> <<>>, terminal |-> FALSE]

SessionRecord ==
  [exists : BOOLEAN, expired : BOOLEAN, revision : Nat,
   status : {"active", "processing", "complete"},
   pendingTurnId : Turns \cup {NoTurn}, state : DiagnosticState]

\* "none": the envelope is null; "expired": still stored, past envelopeExpiresAt.  input
\* is the revision that the request computed from the session it had read: it is sealed in
\* the envelope and sent as the workflow input, and kept here after the envelope is gone.
TurnRecord ==
  [status : TurnStatus, revision : Nat, input : Nat, envelope : {"none", "sealed", "expired"}]

NewSession ==
  [exists |-> TRUE, expired |-> FALSE, revision |-> 0, status |-> "active",
   pendingTurnId |-> NoTurn, state |-> EmptyState]
NoRow == [status |-> "absent", revision |-> 0, input |-> 0, envelope |-> "none"]

StoreInit ==
  /\ session = NewSession
  /\ turn = [t \in Turns |-> NoRow]
  /\ claims = [t \in Turns |-> {}]

Present(t) == turn[t].status # "absent"
Answers == session.state.acceptedTurnIds

\* The processor works only on an envelope sealed for the turn's own revision.
EnvelopeMatches(t) == turn[t].input = turn[t].revision

Release(s) == [s EXCEPT !.status = "active", !.pendingTurnId = NoTurn]
Hold(s, t) == [s EXCEPT !.status = "processing", !.pendingTurnId = t]

-----------------------------------------------------------------------------
(* Mistakes.  Each definition repeats an operation below with one mistake  *)
(* a maintainer could make; no specification uses them.  They show that    *)
(* the properties notice (README.md, "Sensitivity").                       *)

\* acceptTurn trusts the author's revision.
AcceptTurnUnchecked(t, expectedRevision, correction, input) ==
  /\ session.exists /\ ~session.expired
  /\ ~Present(t)
  /\ session.status # "processing"
  /\ session.status = "complete" => correction
  /\ turn' = [turn EXCEPT ![t] = [status |-> "accepted", envelope |-> "sealed",
                                  revision |-> expectedRevision + 1, input |-> input]]
  /\ session' = [Hold(session, t) EXCEPT !.revision = expectedRevision + 1]
  /\ UNCHANGED claims

\* retryTurn does not wait for the turn in progress.
RetryTurnAtOnce(t) ==
  /\ session.exists
  /\ turn[t].status = "failed" /\ turn[t].envelope = "sealed"
  /\ turn' = [turn EXCEPT ![t].status = "accepted"]
  /\ session' = Hold(session, t)
  /\ UNCHANGED claims

\* The superseded turn keeps its answer text.
SupersedeKeepingEnvelope(t) ==
  /\ turn' = [turn EXCEPT ![t].status = "superseded"]
  /\ UNCHANGED <<session, claims>>

\* completeTurn writes whatever a processor hands in.
CompleteUnchecked(t, newState) ==
  /\ session.exists /\ Present(t)
  /\ turn[t].status # "completed"
  /\ session' = [Release(session) EXCEPT
                   !.state = newState,
                   !.status = IF newState.terminal THEN "complete" ELSE "active"]
  /\ turn' = [turn EXCEPT ![t].status = "completed", ![t].envelope = "none"]
  /\ UNCHANGED claims

\* completeTurn copies the turn's status into the session.
CompleteWithTurnStatus(t, newState) ==
  /\ session.exists /\ Present(t)
  /\ turn[t].status # "completed"
  /\ session.revision = turn[t].revision /\ session.pendingTurnId = t
  /\ session' = [Release(session) EXCEPT
                   !.state = newState,
                   !.status = IF newState.terminal THEN "completed" ELSE "active"]
  /\ turn' = [turn EXCEPT ![t].status = "completed", ![t].envelope = "none"]
  /\ UNCHANGED claims

\* failTurn arrives late and does not look at the turn's status.
FailTurnLate(t) ==
  /\ session.exists /\ Present(t)
  /\ turn' = [turn EXCEPT ![t].status = "failed"]
  /\ session' = IF session.pendingTurnId = t THEN Release(session) ELSE session
  /\ UNCHANGED claims

\* purgeExpired drops the text and leaves the turn open.
PurgeEnvelopesOnly ==
  LET due == {t \in Turns : turn[t].envelope = "expired"}
  IN /\ session.exists /\ ~session.expired
     /\ due # {}
     /\ turn' = [t \in Turns |->
                   IF t \in due THEN [turn[t] EXCEPT !.envelope = "none"] ELSE turn[t]]
     /\ UNCHANGED <<session, claims>>

-----------------------------------------------------------------------------
(* Operations of the store.                                                *)

\* acceptTurn: a new answer, for the revision its author last saw.
AcceptTurn(t, expectedRevision, correction, input) ==
  /\ session.exists /\ ~session.expired
  /\ ~Present(t)
  /\ session.status # "processing"
  /\ session.status = "complete" => correction
  /\ session.revision = expectedRevision
  /\ turn' = [turn EXCEPT ![t] = [status |-> "accepted", envelope |-> "sealed",
                                  revision |-> expectedRevision + 1, input |-> input]]
  /\ session' = [Hold(session, t) EXCEPT !.revision = expectedRevision + 1]
  /\ UNCHANGED claims

\* retryTurn: hand a failed answer to the processors again.
RetryTurn(t) ==
  /\ session.exists
  /\ turn[t].status = "failed" /\ turn[t].envelope = "sealed"
  /\ session.status # "processing"
  /\ turn' = [turn EXCEPT ![t].status = "accepted"]
  /\ session' = Hold(session, t)
  /\ UNCHANGED claims

\* claimTurn takes back a session that a failed attempt of the same turn released.
Reactivates(t, rev) ==
  /\ turn[t].status = "failed" /\ turn[t].revision = rev
  /\ session.revision = rev
  /\ session.status = "active" /\ session.pendingTurnId = NoTurn

\* claimTurn: the turn is the one the session waits for.
HoldsSession(t, rev) ==
  /\ turn[t].revision = rev
  /\ session.revision = rev
  /\ session.pendingTurnId = t \/ Reactivates(t, rev)

Supersede(t) ==
  /\ turn' = [turn EXCEPT ![t].status = "superseded", ![t].envelope = "none"]
  /\ UNCHANGED <<session, claims>>

ClaimSuperseded(t, rev) ==
  /\ session.exists /\ Present(t)
  /\ turn[t].status \notin Settled
  /\ ~HoldsSession(t, rev)
  /\ Supersede(t)

ClaimTaken(t, rev) ==
  /\ session.exists /\ Present(t)
  /\ turn[t].status \notin Settled
  /\ HoldsSession(t, rev)
  /\ turn[t].envelope = "sealed"
  /\ turn' = [turn EXCEPT ![t].status = "processing"]
  /\ session' = IF Reactivates(t, rev) THEN Hold(session, t) ELSE session
  /\ claims' = IF EnvelopeMatches(t) THEN [claims EXCEPT ![t] = @ \cup {session.state}]
                ELSE claims

\* claimTurn throws and its transaction rolls back: nothing changes.
ClaimThrows(t, rev) ==
  \/ ~(session.exists /\ Present(t))
  \/ /\ turn[t].status \notin Settled
     /\ HoldsSession(t, rev)
     /\ turn[t].envelope # "sealed"

\* validateAndApplyProposal: the answer is added to the state the processor read.
NextState(base, t, terminal) ==
  [acceptedTurnIds |-> Append(base.acceptedTurnIds, t), terminal |-> terminal]

\* completeTurn, the turn is still the one the session waits for.
CompleteApplied(t, newState) ==
  /\ session.exists /\ Present(t)
  /\ turn[t].status # "completed"
  /\ session.revision = turn[t].revision /\ session.pendingTurnId = t
  /\ session' = [Release(session) EXCEPT
                   !.state = newState,
                   !.status = IF newState.terminal THEN "complete" ELSE "active"]
  /\ turn' = [turn EXCEPT ![t].status = "completed", ![t].envelope = "none"]
  /\ UNCHANGED claims

\* completeTurn, another answer or a failure came first.
CompleteSuperseded(t) ==
  /\ session.exists /\ Present(t)
  /\ turn[t].status # "completed"
  /\ ~(session.revision = turn[t].revision /\ session.pendingTurnId = t)
  /\ Supersede(t)

\* failTurn: an attempt gave up; the answer stays for a retry.
FailTurn(t) ==
  /\ session.exists /\ Present(t)
  /\ turn[t].status \notin Settled
  /\ turn' = [turn EXCEPT ![t].status = "failed"]
  /\ session' = IF session.pendingTurnId = t THEN Release(session) ELSE session
  /\ UNCHANGED claims

\* Rows of the session and, by ON DELETE CASCADE, of its turns.
RemoveRows ==
  /\ session' = [NewSession EXCEPT !.exists = FALSE]
  /\ turn' = [t \in Turns |-> NoRow]
  /\ UNCHANGED claims

DeleteSession == session.exists /\ RemoveRows

PurgeSession == session.exists /\ session.expired /\ RemoveRows

\* purgeExpired on a live session: drop expired envelopes, fail the turns that wait.
PurgeEnvelopes ==
  LET due == {t \in Turns : turn[t].envelope = "expired"}
  IN /\ session.exists /\ ~session.expired
     /\ due # {}
     /\ turn' = [t \in Turns |->
                   IF t \in due
                   THEN [turn[t] EXCEPT !.envelope = "none",
                           !.status = IF @ \in Open THEN "failed" ELSE @]
                   ELSE turn[t]]
     /\ session' = IF session.pendingTurnId \in due THEN Release(session) ELSE session
     /\ UNCHANGED claims

PurgeExpired == PurgeSession \/ PurgeEnvelopes

-----------------------------------------------------------------------------
(* The clock, which runs past expires_at and envelope_expires_at.          *)

SessionExpires ==
  /\ session.exists /\ ~session.expired
  /\ session' = [session EXCEPT !.expired = TRUE]
  /\ UNCHANGED <<turn, claims>>

EnvelopeExpires(t) ==
  /\ turn[t].envelope = "sealed"
  /\ turn' = [turn EXCEPT ![t].envelope = "expired"]
  /\ UNCHANGED <<session, claims>>

-----------------------------------------------------------------------------
(* Legal callers: an author may name any revision, known or guessed (every *)
(* one but the session's is refused); a request computed its input from a  *)
(* revision the session had when the request read it; a workflow input     *)
(* carries that number or, in a retry, the turn's own; and a processor     *)
(* completes a turn with a state built on one claimTurn returned.          *)

Submit(t) ==
  \E expected \in 0..(session.revision + 1), correction \in BOOLEAN,
     input \in 1..(session.revision + 1) :
    AcceptTurn(t, expected, correction, input)

Claim(t) ==
  \E rev \in {turn[t].revision, turn[t].input} :
    ClaimTaken(t, rev) \/ ClaimSuperseded(t, rev)

Complete(t) ==
  \E base \in claims[t], terminal \in BOOLEAN :
    \/ CompleteApplied(t, NextState(base, t, terminal))
    \/ CompleteSuperseded(t)

StoreNext ==
  \/ \E t \in Turns :
       \/ Submit(t) \/ RetryTurn(t)
       \/ Claim(t) \/ Complete(t) \/ FailTurn(t)
       \/ EnvelopeExpires(t)
  \/ DeleteSession \/ SessionExpires \/ PurgeExpired

StoreSpec == StoreInit /\ [][StoreNext]_storeVars

(* server/index.ts purges every 60 seconds and the clock never stops.  No  *)
(* fairness is assumed of participants, of Render or of the reasoner.      *)
StoreFairness ==
  /\ \A t \in Turns : WF_storeVars(EnvelopeExpires(t))
  /\ WF_storeVars(PurgeExpired)

StoreFairSpec == StoreSpec /\ StoreFairness
-----------------------------------------------------------------------------
(* Properties.                                                             *)

\* The rows stay within their columns' types and CHECK constraints
\* (database/migrations/001_initial.sql).
TypeOK ==
  /\ session \in SessionRecord
  /\ turn \in [Turns -> TurnRecord]
  /\ claims \in [Turns -> SUBSET DiagnosticState]

\* A session works on one answer at a time.  It waits exactly for its pending
\* turn; every open turn is that turn; and a pending turn that was given up
\* without being processed can only be one that a newer answer has outrun, or
\* one accepted ahead of the revision its request had read.
OneAnswerInFlight ==
  /\ session.status = "processing" <=> session.pendingTurnId # NoTurn
  /\ \A t \in Turns : turn[t].status \in Open => session.pendingTurnId = t
  /\ \A t \in Turns :
       session.pendingTurnId = t =>
         \/ turn[t].status \in Open
         \/ turn[t].status = "superseded"
              /\ (turn[t].revision < session.revision \/ ~EnvelopeMatches(t))

\* Each accepted answer has a revision of its own, and every revision up to the
\* session's belongs to an answer: no two answers are ever accepted for one question.
RevisionsNumberAnswers ==
  /\ ~session.exists => \A t \in Turns : ~Present(t)
  /\ \A t \in Turns : Present(t) => turn[t].revision \in 1..session.revision
  /\ \A t, u \in Turns :
       Present(t) /\ Present(u) /\ turn[t].revision = turn[u].revision => t = u
  /\ \A r \in 1..session.revision : \E t \in Turns : Present(t) /\ turn[t].revision = r

\* The session state is built from exactly the completed answers, each once, in the
\* order in which they were accepted, whatever was retried or delivered twice.
AppliedInOrder ==
  /\ \A t \in Turns : turn[t].status = "completed"
                        <=> \E i \in 1..Len(Answers) : Answers[i] = t
  /\ \A i, j \in 1..Len(Answers) :
       i < j => turn[Answers[i]].revision < turn[Answers[j]].revision

\* The encrypted answer is kept exactly as long as somebody may still need it: a
\* settled turn has none, a turn that waits to be processed always has one (so the
\* purge finds it).
EnvelopeKeptWhileNeeded ==
  \A t \in Turns :
    /\ turn[t].status \in Settled \cup {"absent"} => turn[t].envelope = "none"
    /\ turn[t].status \in Open => turn[t].envelope # "none"

\* A processor that may still complete its turn works on the current session state,
\* however long ago it claimed the turn: no state read before the await is stale.  None
\* works on a turn whose envelope carries another revision.
ClaimsCurrent ==
  \A t \in Turns :
    /\ session.exists /\ ~Present(t) => claims[t] = {}
    /\ ~EnvelopeMatches(t) => claims[t] = {}
    /\ Present(t) /\ turn[t].status # "completed" /\ turn[t].revision = session.revision
         => claims[t] \subseteq {session.state}

\* The number sealed in an envelope never exceeds that of its turn, and an answer whose
\* two numbers differ is never applied.
AppliedAsSealed ==
  \A t \in Turns :
    /\ turn[t].input <= turn[t].revision
    /\ turn[t].status = "completed" => EnvelopeMatches(t)

\* The inductive invariant: together the parts above survive every operation.
StoreInv ==
  /\ TypeOK
  /\ OneAnswerInFlight
  /\ RevisionsNumberAnswers
  /\ AppliedInOrder
  /\ EnvelopeKeptWhileNeeded
  /\ ClaimsCurrent
  /\ AppliedAsSealed

\* While the session exists its state changes only by one more answer on top of the
\* state before: two processors never overwrite each other's work.
NoLostUpdate ==
  [][session'.exists /\ session'.state # session.state =>
       \E t \in Turns : session'.state.acceptedTurnIds = Append(Answers, t)]_storeVars

\* A completed or superseded turn is never reopened, failed or applied again.
SettledForever ==
  [][session'.exists =>
       \A t \in Turns : turn[t].status \in Settled => turn'[t] = turn[t]]_storeVars

\* Whatever the workers do, an answer that no newer answer has outrun, and that was not
\* accepted ahead of what its request had read, stops blocking its session: it is applied,
\* it fails, or the purge releases it with its envelope.
OpenTurnReleased ==
  \A t \in Turns :
    (/\ session.pendingTurnId = t /\ turn[t].status \in Open
     /\ turn[t].revision = session.revision /\ EnvelopeMatches(t))
      ~> session.pendingTurnId # t

\* The session keeps the promise of AnswerLog: revisions number the accepted answers
\* and the state holds the applied ones.
AcceptedAnswers ==
  [r \in 1..session.revision |->
     CHOOSE t \in Turns : Present(t) /\ turn[t].revision = r]

Log == INSTANCE AnswerLog WITH
  Answers <- Turns, kept <- session.exists,
  accepted <- AcceptedAnswers, applied <- Answers

ImplementsAnswerLog == Log!LogSpec

\* server/store.ts:127 answers "Wait for the current answer to finish processing":
\* a session that says so waits for an answer that is being processed.
BlockedOnLiveAnswer ==
  session.status = "processing" => turn[session.pendingTurnId].status \in Open

\* server/service.ts:187 promises after a failed attempt that the saved answer remains
\* available until its retention window ends: while it is the newest answer and has
\* not expired, it leaves the store only by being applied or deleted.
SavedAnswerRemains ==
  [][\A t \in Turns :
       turn[t].envelope = "sealed" /\ turn[t].revision = session.revision
         /\ turn'[t].envelope = "none"
       => turn'[t].status \in {"completed", "absent"}]_storeVars

\* server/store.ts:129 says a complete diagnostic is reopened by correcting an accepted
\* answer: while the verdict stands, the session never takes an ordinary new answer.
CompleteUntilCorrected ==
  session.exists /\ session.state.terminal => session.status # "active"
=============================================================================
