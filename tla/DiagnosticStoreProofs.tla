---------------------- MODULE DiagnosticStoreProofs -----------------------
(***************************************************************************)
(* Proofs, for any finite set of answers, of the invariants of the         *)
(* diagnostic store under free callers, and that the store implements      *)
(* AnswerLog: every step is an acceptance, an application, an erasure, or  *)
(* invisible to the log.                                                   *)
(***************************************************************************)
EXTENDS DiagnosticStore, SequenceTheorems, TLAPS

\* A state a processor computes from a claimed one is a diagnostic state.
LEMMA NextStateType ==
  ASSUME NEW base \in DiagnosticState, NEW t \in Turns, NEW terminal \in BOOLEAN
  PROVE  NextState(base, t, terminal) \in DiagnosticState
  BY DEF NextState, DiagnosticState

\* What an applied completion does to the rows, field by field.
LEMMA AppliedEffect ==
  ASSUME TypeOK, NEW t \in Turns, NEW newState \in DiagnosticState,
         CompleteApplied(t, newState)
  PROVE  /\ session' = [session EXCEPT !.state = newState, !.pendingTurnId = NoTurn,
                          !.status = IF newState.terminal THEN "complete" ELSE "active"]
         /\ session' \in SessionRecord
         /\ turn' = [turn EXCEPT ![t] = [@ EXCEPT !.status = "completed", !.envelope = "none"]]
         /\ turn' \in [Turns -> TurnRecord]
         /\ claims' = claims
<1>1. session \in SessionRecord /\ turn \in [Turns -> TurnRecord]
  BY DEF TypeOK
<1>2. (IF newState.terminal THEN "complete" ELSE "active") \in {"active", "complete"}
  OBVIOUS
<1>3. session' = [session EXCEPT !.state = newState, !.pendingTurnId = NoTurn,
                     !.status = IF newState.terminal THEN "complete" ELSE "active"]
  BY <1>1 DEF CompleteApplied, Release, SessionRecord
<1>4. session' \in SessionRecord
  BY <1>1, <1>2, <1>3 DEF SessionRecord
<1>5. /\ turn' = [turn EXCEPT ![t] = [@ EXCEPT !.status = "completed", !.envelope = "none"]]
      /\ claims' = claims
  BY DEF CompleteApplied
<1>6. turn' \in [Turns -> TurnRecord]
  BY <1>1, <1>5 DEF TurnRecord, TurnStatus, Settled
<1> QED
  BY <1>3, <1>4, <1>5, <1>6

\* Initially no answer exists and the session is new.
LEMMA InitType == StoreInit => TypeOK
  BY DEF StoreInit, TypeOK, NewSession, NoRow, SessionRecord, TurnRecord, TurnStatus,
         DiagnosticState, EmptyState, Open, Settled

\* A turn that is given up keeps its row well typed.
LEMMA SupersedeType ==
  ASSUME TypeOK, NEW t \in Turns, Supersede(t)
  PROVE  TypeOK'
<1>1. turn \in [Turns -> TurnRecord] /\ turn[t] \in TurnRecord
  BY DEF TypeOK
<1> DEFINE r == [turn[t] EXCEPT !.status = "superseded", !.envelope = "none"]
<1>2. r \in TurnRecord
  BY <1>1 DEF TurnRecord, TurnStatus, Settled
<1>3. turn' = [turn EXCEPT ![t] = r] /\ UNCHANGED <<session, claims>>
  BY <1>1 DEF Supersede
<1> HIDE DEF r
<1> QED BY <1>1, <1>2, <1>3 DEF TypeOK

\* Every operation keeps the rows well typed.
LEMMA NextType == TypeOK /\ [StoreNext]_storeVars => TypeOK'
<1> SUFFICES ASSUME TypeOK, [StoreNext]_storeVars PROVE TypeOK'
  OBVIOUS
<1> USE DEF TypeOK, SessionRecord, TurnRecord, TurnStatus, Open, Settled
<1>1. ASSUME NEW t \in Turns, Submit(t) PROVE TypeOK'
  <2> PICK expected \in 0..(session.revision + 1), correction \in BOOLEAN,
           input \in 1..(session.revision + 1) :
        AcceptTurn(t, expected, correction, input)
    BY <1>1 DEF Submit
  <2>1. expected \in Nat /\ expected + 1 \in Nat /\ input \in Nat
    OBVIOUS
  <2>2. turn' \in [Turns -> TurnRecord]
    BY <2>1 DEF AcceptTurn
  <2>3. Hold(session, t) \in SessionRecord
    BY DEF Hold
  <2>4. session' \in SessionRecord
    BY <2>1, <2>3 DEF AcceptTurn
  <2> QED BY <2>2, <2>4 DEF AcceptTurn
<1>2. ASSUME NEW t \in Turns, RetryTurn(t) PROVE TypeOK'
  BY <1>2 DEF RetryTurn, Hold
<1>3. ASSUME NEW t \in Turns, Claim(t) PROVE TypeOK'
  <2> PICK rev : ClaimTaken(t, rev) \/ ClaimSuperseded(t, rev)
    BY <1>3 DEF Claim
  <2>1. CASE ClaimTaken(t, rev)
    BY <2>1 DEF ClaimTaken, Hold
  <2>2. CASE ClaimSuperseded(t, rev)
    BY <2>2, SupersedeType DEF ClaimSuperseded
  <2> QED BY <2>1, <2>2
<1>4. ASSUME NEW t \in Turns, Complete(t) PROVE TypeOK'
  <2> PICK base \in claims[t], terminal \in BOOLEAN :
        CompleteApplied(t, NextState(base, t, terminal)) \/ CompleteSuperseded(t)
    BY <1>4 DEF Complete
  <2>1. NextState(base, t, terminal) \in DiagnosticState
    BY NextStateType
  <2>2. CASE CompleteApplied(t, NextState(base, t, terminal))
    BY <2>1, <2>2, AppliedEffect
  <2>3. CASE CompleteSuperseded(t)
    BY <2>3, SupersedeType DEF CompleteSuperseded
  <2> QED BY <2>2, <2>3
<1>5. ASSUME NEW t \in Turns, FailTurn(t) PROVE TypeOK'
  BY <1>5 DEF FailTurn, Release
<1>6. ASSUME NEW t \in Turns, EnvelopeExpires(t) PROVE TypeOK'
  BY <1>6 DEF EnvelopeExpires
<1>7. ASSUME RemoveRows PROVE TypeOK'
  <2>1. NewSession \in SessionRecord /\ NoRow \in TurnRecord
    BY DEF NewSession, NoRow, EmptyState, DiagnosticState
  <2> QED BY <1>7, <2>1 DEF RemoveRows
<1>8. ASSUME SessionExpires PROVE TypeOK'
  BY <1>8 DEF SessionExpires
<1>9. ASSUME PurgeEnvelopes PROVE TypeOK'
  BY <1>9 DEF PurgeEnvelopes, Release
<1>10. CASE UNCHANGED storeVars
  BY <1>10 DEF storeVars
<1> QED
  BY <1>1, <1>2, <1>3, <1>4, <1>5, <1>6, <1>7, <1>8, <1>9, <1>10
     DEF StoreNext, DeleteSession, PurgeExpired, PurgeSession

\* The rows always have the types of their columns.
THEOREM StoreTyped == StoreSpec => []TypeOK
  BY InitType, NextType, PTL DEF StoreSpec

-----------------------------------------------------------------------------
(* The inductive invariant, one lemma per operation.                       *)

\* The answers in the session state are completed turns.
LEMMA AnswersCompleted ==
  ASSUME StoreInv
  PROVE  \A i \in 1..Len(Answers) :
           Answers[i] \in Turns /\ turn[Answers[i]].status = "completed"
<1>1. Answers \in Seq(Turns)
  BY DEF StoreInv, TypeOK, SessionRecord, DiagnosticState, Answers
<1>2. \A i \in 1..Len(Answers) : Answers[i] \in Turns
  BY <1>1
<1> QED
  BY <1>2 DEF StoreInv, AppliedInOrder

\* An operation that leaves the state alone, completes nothing and renumbers no
\* completed turn keeps the applied answers in order.
LEMMA AppliedUntouched ==
  ASSUME StoreInv, session'.state = session.state,
         \A u \in Turns : turn'[u].status = "completed" <=> turn[u].status = "completed",
         \A u \in Turns : turn[u].status = "completed" => turn'[u].revision = turn[u].revision
  PROVE  AppliedInOrder'
<1>1. Answers' = Answers
  BY DEF Answers
<1>2. \A u \in Turns : turn'[u].status = "completed"
                       <=> \E i \in 1..Len(Answers) : Answers[i] = u
  BY DEF StoreInv, AppliedInOrder
<1>3. \A i, j \in 1..Len(Answers) :
        i < j => turn'[Answers[i]].revision < turn'[Answers[j]].revision
  BY AnswersCompleted DEF StoreInv, AppliedInOrder
<1> QED
  BY <1>1, <1>2, <1>3 DEF AppliedInOrder

\* So does an operation that leaves the numbers alone: what is applied carries its own.
LEMMA SealedUntouched ==
  ASSUME StoreInv,
         \A u \in Turns : turn'[u].revision = turn[u].revision /\ turn'[u].input = turn[u].input,
         \A u \in Turns : turn'[u].status = "completed" => turn[u].status = "completed"
  PROVE  AppliedAsSealed'
  BY DEF StoreInv, AppliedAsSealed, EnvelopeMatches

\* A new answer gets the next revision and becomes the pending turn.
LEMMA SubmitKeepsInv ==
  ASSUME StoreInv, NEW t \in Turns, Submit(t)
  PROVE  StoreInv'
<1> USE TurnsAssumption DEF Open, Settled, Present, Answers
<1>0. TypeOK
  BY DEF StoreInv
<1>1. TypeOK'
  BY <1>0, NextType DEF StoreNext
<1>a. PICK expected \in 0..(session.revision + 1), correction \in BOOLEAN,
           input \in 1..(session.revision + 1) :
        AcceptTurn(t, expected, correction, input)
  BY DEF Submit
<1>b. /\ session.exists /\ turn[t].status = "absent" /\ session.status # "processing"
      /\ session' = [session EXCEPT !.status = "processing", !.pendingTurnId = t,
                                    !.revision = session.revision + 1]
      /\ turn' = [turn EXCEPT ![t] = [status |-> "accepted", envelope |-> "sealed",
                                      revision |-> session.revision + 1, input |-> input]]
      /\ claims' = claims
  BY <1>0, <1>a DEF AcceptTurn, Hold, TypeOK, SessionRecord
<1>2. /\ session.exists /\ turn[t].status = "absent" /\ session.status # "processing"
      /\ session'.exists = session.exists
      /\ session'.revision = session.revision + 1
      /\ session'.status = "processing" /\ session'.pendingTurnId = t
      /\ session'.state = session.state
      /\ \A u \in Turns : u # t => turn'[u] = turn[u]
      /\ turn'[t] = [status |-> "accepted", envelope |-> "sealed",
                     revision |-> session.revision + 1, input |-> input]
      /\ claims' = claims
  BY <1>0, <1>b DEF TypeOK, SessionRecord
<1>3. session.revision \in Nat /\ input <= session.revision + 1
  BY <1>0 DEF TypeOK, SessionRecord
<1>4. OneAnswerInFlight'
  BY <1>2 DEF StoreInv, OneAnswerInFlight, EnvelopeMatches
<1>5. RevisionsNumberAnswers'
  BY <1>2, <1>3 DEF StoreInv, RevisionsNumberAnswers
<1>6. AppliedInOrder'
  BY <1>2, AppliedUntouched
<1>7. EnvelopeKeptWhileNeeded'
  BY <1>2 DEF StoreInv, EnvelopeKeptWhileNeeded
<1>8. ClaimsCurrent'
  BY <1>2, <1>3 DEF StoreInv, ClaimsCurrent, RevisionsNumberAnswers, EnvelopeMatches
<1>9. AppliedAsSealed'
  BY <1>2, <1>3 DEF StoreInv, AppliedAsSealed, EnvelopeMatches
<1> QED
  BY <1>1, <1>4, <1>5, <1>6, <1>7, <1>8, <1>9 DEF StoreInv

\* A retry only moves a failed turn back to the front.
LEMMA RetryKeepsInv ==
  ASSUME StoreInv, NEW t \in Turns, RetryTurn(t)
  PROVE  StoreInv'
<1> USE TurnsAssumption DEF Open, Settled, Present, Answers
<1>0. TypeOK
  BY DEF StoreInv
<1>1. TypeOK'
  BY <1>0, NextType DEF StoreNext
<1>2. /\ turn[t].status = "failed" /\ turn[t].envelope = "sealed"
      /\ session.status # "processing"
      /\ session' = [session EXCEPT !.status = "processing", !.pendingTurnId = t]
      /\ \A u \in Turns : u # t => turn'[u] = turn[u]
      /\ turn'[t].status = "accepted"
      /\ turn'[t].revision = turn[t].revision /\ turn'[t].envelope = turn[t].envelope
      /\ turn'[t].input = turn[t].input
      /\ claims' = claims
  BY <1>0 DEF RetryTurn, Hold, TypeOK, TurnRecord
<1>3. /\ session'.exists = session.exists /\ session'.revision = session.revision
      /\ session'.status = "processing" /\ session'.pendingTurnId = t
      /\ session'.state = session.state
  BY <1>0, <1>2 DEF TypeOK, SessionRecord
<1>4. OneAnswerInFlight'
  BY <1>2, <1>3 DEF StoreInv, OneAnswerInFlight, EnvelopeMatches
<1>5. RevisionsNumberAnswers'
  BY <1>2, <1>3 DEF StoreInv, RevisionsNumberAnswers
<1>6. AppliedInOrder'
  BY <1>2, <1>3, AppliedUntouched
<1>7. EnvelopeKeptWhileNeeded'
  BY <1>2 DEF StoreInv, EnvelopeKeptWhileNeeded
<1>8. ClaimsCurrent'
  BY <1>2, <1>3 DEF StoreInv, ClaimsCurrent, EnvelopeMatches
<1>9. AppliedAsSealed'
  BY <1>2, SealedUntouched
<1> QED
  BY <1>1, <1>4, <1>5, <1>6, <1>7, <1>8, <1>9 DEF StoreInv

\* Giving a turn up is safe unless it is the one the session really waits for.  A turn
\* with another number in its envelope is safe to give up: nobody can apply it.
LEMMA SupersedeKeepsInv ==
  ASSUME StoreInv, NEW t \in Turns, Supersede(t), TypeOK',
         turn[t].status \notin {"absent", "completed"},
         \/ ~(session.pendingTurnId = t /\ session.revision = turn[t].revision)
         \/ ~EnvelopeMatches(t)
  PROVE  StoreInv'
<1> USE TurnsAssumption DEF Open, Settled, Present, Answers
<1>1. /\ session' = session /\ claims' = claims
      /\ \A u \in Turns : u # t => turn'[u] = turn[u]
      /\ turn'[t].status = "superseded" /\ turn'[t].envelope = "none"
      /\ turn'[t].revision = turn[t].revision /\ turn'[t].input = turn[t].input
  BY DEF Supersede, StoreInv, TypeOK, TurnRecord
<1>2. session.revision \in Nat /\ turn[t].revision \in 1..session.revision
  BY DEF StoreInv, RevisionsNumberAnswers, TypeOK, SessionRecord
<1>3. OneAnswerInFlight'
  BY <1>1, <1>2 DEF StoreInv, OneAnswerInFlight, EnvelopeMatches
<1>4. RevisionsNumberAnswers'
  BY <1>1 DEF StoreInv, RevisionsNumberAnswers
<1>5. AppliedInOrder'
  BY <1>1, AppliedUntouched
<1>6. EnvelopeKeptWhileNeeded'
  BY <1>1 DEF StoreInv, EnvelopeKeptWhileNeeded
<1>7. ClaimsCurrent'
  BY <1>1 DEF StoreInv, ClaimsCurrent, EnvelopeMatches
<1>8. AppliedAsSealed'
  BY <1>1, SealedUntouched
<1> QED
  BY <1>3, <1>4, <1>5, <1>6, <1>7, <1>8 DEF StoreInv

\* A claim that succeeds names the turn's own revision.
LEMMA ClaimTakenRevision ==
  ASSUME NEW t \in Turns, NEW rev, ClaimTaken(t, rev)
  PROVE  rev = turn[t].revision
  BY DEF ClaimTaken, HoldsSession, Reactivates

\* A claim hands out the current state, possibly taking a released session back.
LEMMA ClaimTakenKeepsInv ==
  ASSUME StoreInv, NEW t \in Turns, ClaimTaken(t, turn[t].revision), TypeOK'
  PROVE  StoreInv'
<1> USE TurnsAssumption DEF Open, Settled, Present, Answers
<1>1. TypeOK
  BY DEF StoreInv
<1>2. /\ turn[t].status \notin {"absent", "completed", "superseded"}
      /\ turn[t].envelope = "sealed" /\ session.revision = turn[t].revision
      /\ session.pendingTurnId = t \/ session.pendingTurnId = NoTurn
      /\ \A u \in Turns : u # t => turn'[u] = turn[u]
      /\ turn'[t].status = "processing"
      /\ turn'[t].revision = turn[t].revision /\ turn'[t].envelope = turn[t].envelope
      /\ turn'[t].input = turn[t].input
  BY <1>1 DEF ClaimTaken, HoldsSession, Reactivates, TypeOK, TurnRecord
<1>3. /\ session'.exists = session.exists /\ session'.revision = session.revision
      /\ session'.state = session.state
      /\ session'.pendingTurnId = t /\ session'.status = "processing"
  <2>1. CASE Reactivates(t, turn[t].revision)
    BY <1>1, <2>1 DEF ClaimTaken, Hold, TypeOK, SessionRecord
  <2>2. CASE ~Reactivates(t, turn[t].revision)
    BY <2>2 DEF ClaimTaken, HoldsSession, StoreInv, OneAnswerInFlight
  <2> QED BY <2>1, <2>2
<1>4. /\ \A u \in Turns : u # t => claims'[u] = claims[u]
      /\ claims'[t] = IF EnvelopeMatches(t) THEN claims[t] \cup {session.state}
                       ELSE claims[t]
  BY <1>1 DEF ClaimTaken, TypeOK
<1>5. OneAnswerInFlight'
  BY <1>2, <1>3 DEF StoreInv, OneAnswerInFlight, EnvelopeMatches
<1>6. RevisionsNumberAnswers'
  BY <1>2, <1>3 DEF StoreInv, RevisionsNumberAnswers
<1>7. AppliedInOrder'
  BY <1>2, <1>3, AppliedUntouched
<1>8. EnvelopeKeptWhileNeeded'
  BY <1>2 DEF StoreInv, EnvelopeKeptWhileNeeded
<1>9. ClaimsCurrent'
  BY <1>2, <1>3, <1>4 DEF StoreInv, ClaimsCurrent, EnvelopeMatches
<1>10. AppliedAsSealed'
  BY <1>2, SealedUntouched
<1> QED
  BY <1>5, <1>6, <1>7, <1>8, <1>9, <1>10 DEF StoreInv

\* A processor that completes the pending turn built its state on the current one.
LEMMA AppliedBaseIsCurrent ==
  ASSUME StoreInv, NEW t \in Turns, NEW base \in claims[t], NEW terminal \in BOOLEAN,
         CompleteApplied(t, NextState(base, t, terminal))
  PROVE  base = session.state
  BY DEF CompleteApplied, StoreInv, ClaimsCurrent

\* An applied answer goes to the end of the state: it is the newest one.
LEMMA CompleteAppliedKeepsInv ==
  ASSUME StoreInv, NEW t \in Turns, NEW base \in claims[t], NEW terminal \in BOOLEAN,
         CompleteApplied(t, NextState(base, t, terminal)), TypeOK'
  PROVE  StoreInv'
<1> USE TurnsAssumption DEF Open, Settled, Present
<1>1. TypeOK
  BY DEF StoreInv
<1>2. /\ session.exists /\ turn[t].status \notin {"absent", "completed"}
      /\ session.revision = turn[t].revision /\ session.pendingTurnId = t
  BY DEF CompleteApplied
<1>3. NextState(base, t, terminal) \in DiagnosticState
  BY <1>1, NextStateType DEF TypeOK
<1>4. /\ session' = [session EXCEPT !.state = NextState(base, t, terminal),
                       !.pendingTurnId = NoTurn,
                       !.status = IF NextState(base, t, terminal).terminal
                                  THEN "complete" ELSE "active"]
      /\ turn' = [turn EXCEPT ![t] = [@ EXCEPT !.status = "completed", !.envelope = "none"]]
      /\ claims' = claims
  BY <1>1, <1>3, AppliedEffect
<1>5. /\ session'.exists /\ session'.revision = session.revision
      /\ session'.state = NextState(base, t, terminal)
      /\ session'.pendingTurnId = NoTurn /\ session'.status # "processing"
  BY <1>1, <1>2, <1>4 DEF TypeOK, SessionRecord
<1>6. /\ \A u \in Turns : u # t => turn'[u] = turn[u]
      /\ turn'[t].status = "completed" /\ turn'[t].envelope = "none"
      /\ turn'[t].revision = turn[t].revision /\ turn'[t].input = turn[t].input
  BY <1>1, <1>4 DEF TypeOK, TurnRecord
<1>7. OneAnswerInFlight'
  BY <1>2, <1>5, <1>6 DEF StoreInv, OneAnswerInFlight, EnvelopeMatches
<1>8. RevisionsNumberAnswers'
  BY <1>2, <1>5, <1>6 DEF StoreInv, RevisionsNumberAnswers
<1>9. AppliedInOrder'
  <2>1. Answers \in Seq(Turns)
    BY <1>1 DEF TypeOK, SessionRecord, DiagnosticState, Answers
  <2>2. Answers' = Append(Answers, t)
    BY <1>5, AppliedBaseIsCurrent DEF NextState, Answers
  <2>3. /\ Len(Answers) \in Nat /\ Len(Answers') = Len(Answers) + 1
        /\ Answers'[Len(Answers) + 1] = t
        /\ \A i \in 1..Len(Answers) : Answers'[i] = Answers[i]
    BY <2>1, <2>2
  <2>4. \A i \in 1..Len(Answers) :
          /\ Answers[i] \in Turns \ {t} /\ turn'[Answers[i]] = turn[Answers[i]]
          /\ turn[Answers[i]].revision < turn[t].revision
    <3> TAKE i \in 1..Len(Answers)
    <3>1. Answers[i] \in Turns /\ turn[Answers[i]].status = "completed"
      BY AnswersCompleted
    <3>2. Answers[i] # t
      BY <1>2, <3>1
    <3>3. turn[Answers[i]].revision \in 1..session.revision /\ session.revision \in Nat
      BY <1>1, <3>1 DEF StoreInv, RevisionsNumberAnswers, TypeOK, SessionRecord
    <3>4. turn[Answers[i]].revision # turn[t].revision
      BY <1>2, <3>1, <3>2 DEF StoreInv, RevisionsNumberAnswers
    <3> QED BY <1>2, <1>6, <3>1, <3>2, <3>3, <3>4
  <2>5. ASSUME NEW u \in Turns
        PROVE  turn'[u].status = "completed"
                 <=> \E i \in 1..Len(Answers') : Answers'[i] = u
    <3>1. CASE u = t
      BY <1>6, <2>3, <3>1
    <3>2. CASE u # t
      <4>1. turn'[u].status = "completed" <=> \E i \in 1..Len(Answers) : Answers[i] = u
        BY <1>6, <3>2 DEF StoreInv, AppliedInOrder
      <4>2. (\E i \in 1..Len(Answers') : Answers'[i] = u)
              <=> \E i \in 1..Len(Answers) : Answers[i] = u
        BY <2>3, <3>2
      <4> QED BY <4>1, <4>2
    <3> QED BY <3>1, <3>2
  <2>6. ASSUME NEW i \in 1..Len(Answers'), NEW j \in 1..Len(Answers'), i < j
        PROVE  turn'[Answers'[i]].revision < turn'[Answers'[j]].revision
    <3>1. i \in 1..Len(Answers)
      BY <2>3, <2>6
    <3>2. CASE j = Len(Answers) + 1
      BY <1>6, <2>3, <2>4, <3>1, <3>2
    <3>3. CASE j \in 1..Len(Answers)
      BY <2>3, <2>4, <2>6, <3>1, <3>3 DEF StoreInv, AppliedInOrder
    <3> QED BY <2>3, <3>2, <3>3
  <2> QED BY <2>5, <2>6 DEF AppliedInOrder
<1>10. EnvelopeKeptWhileNeeded'
  BY <1>6 DEF StoreInv, EnvelopeKeptWhileNeeded
<1>11. ClaimsCurrent'
  BY <1>2, <1>4, <1>5, <1>6 DEF StoreInv, ClaimsCurrent, RevisionsNumberAnswers, EnvelopeMatches
<1>12. AppliedAsSealed'
  BY <1>6 DEF StoreInv, ClaimsCurrent, AppliedAsSealed, EnvelopeMatches
<1> QED
  BY <1>7, <1>8, <1>9, <1>10, <1>11, <1>12 DEF StoreInv

\* A failed attempt releases the session if it was waiting for that turn.
LEMMA FailKeepsInv ==
  ASSUME StoreInv, NEW t \in Turns, FailTurn(t), TypeOK'
  PROVE  StoreInv'
<1> USE TurnsAssumption DEF Open, Settled, Present, Answers
<1>1. TypeOK
  BY DEF StoreInv
<1>2. /\ turn[t].status \notin {"absent", "completed", "superseded"}
      /\ \A u \in Turns : u # t => turn'[u] = turn[u]
      /\ turn'[t].status = "failed" /\ claims' = claims
      /\ turn'[t].revision = turn[t].revision /\ turn'[t].envelope = turn[t].envelope
      /\ turn'[t].input = turn[t].input
  BY <1>1 DEF FailTurn, TypeOK, TurnRecord
<1>3. /\ session'.exists = session.exists /\ session'.revision = session.revision
      /\ session'.state = session.state
      /\ IF session.pendingTurnId = t
         THEN session'.pendingTurnId = NoTurn /\ session'.status = "active"
         ELSE session' = session
  BY <1>1 DEF FailTurn, Release, TypeOK, SessionRecord
<1>4. OneAnswerInFlight'
  BY <1>2, <1>3 DEF StoreInv, OneAnswerInFlight, EnvelopeMatches
<1>5. RevisionsNumberAnswers'
  BY <1>2, <1>3 DEF StoreInv, RevisionsNumberAnswers
<1>6. AppliedInOrder'
  BY <1>2, <1>3, AppliedUntouched
<1>7. EnvelopeKeptWhileNeeded'
  BY <1>2 DEF StoreInv, EnvelopeKeptWhileNeeded
<1>8. ClaimsCurrent'
  BY <1>2, <1>3 DEF StoreInv, ClaimsCurrent, EnvelopeMatches
<1>9. AppliedAsSealed'
  BY <1>2, SealedUntouched
<1> QED
  BY <1>4, <1>5, <1>6, <1>7, <1>8, <1>9 DEF StoreInv

\* The purge of envelopes fails exactly the open turns whose time is up.
LEMMA PurgeEnvelopesKeepsInv ==
  ASSUME StoreInv, PurgeEnvelopes, TypeOK'
  PROVE  StoreInv'
<1> USE TurnsAssumption DEF Open, Settled, Present, Answers
<1> DEFINE due == {t \in Turns : turn[t].envelope = "expired"}
<1>1. TypeOK
  BY DEF StoreInv
<1>2. /\ \A u \in Turns \ due : turn'[u] = turn[u]
      /\ \A u \in due :
           /\ turn'[u].envelope = "none" /\ turn'[u].revision = turn[u].revision
           /\ turn'[u].input = turn[u].input
           /\ turn'[u].status = IF turn[u].status \in Open THEN "failed" ELSE turn[u].status
      /\ claims' = claims
  <2>1. /\ turn' = [u \in Turns |->
                     IF u \in due
                     THEN [turn[u] EXCEPT !.envelope = "none",
                             !.status = IF @ \in Open THEN "failed" ELSE @]
                     ELSE turn[u]]
        /\ claims' = claims
    BY DEF PurgeEnvelopes
  <2>2. \A u \in Turns \ due : turn'[u] = turn[u]
    BY <2>1
  <2>3. ASSUME NEW u \in due
        PROVE  /\ turn'[u].envelope = "none" /\ turn'[u].revision = turn[u].revision
               /\ turn'[u].input = turn[u].input
               /\ turn'[u].status = IF turn[u].status \in Open THEN "failed"
                                    ELSE turn[u].status
    <3>1. turn[u] \in TurnRecord
      BY <1>1 DEF TypeOK
    <3>2. turn'[u] = [turn[u] EXCEPT !.envelope = "none",
                        !.status = IF @ \in Open THEN "failed" ELSE @]
      BY <2>1
    <3> HIDE DEF due
    <3> QED BY <3>1, <3>2 DEF TurnRecord
  <2> QED BY <2>1, <2>2, <2>3
<1>3. /\ session'.exists = session.exists /\ session'.revision = session.revision
      /\ session'.state = session.state
      /\ IF session.pendingTurnId \in due
         THEN session'.pendingTurnId = NoTurn /\ session'.status = "active"
         ELSE session' = session
  BY <1>1 DEF PurgeEnvelopes, Release, TypeOK, SessionRecord
<1>4. \A u \in due : turn[u].status \notin {"absent", "completed", "superseded"}
  BY DEF StoreInv, EnvelopeKeptWhileNeeded
<1>5. OneAnswerInFlight'
  BY <1>2, <1>3, <1>4 DEF StoreInv, OneAnswerInFlight, EnvelopeMatches
<1>6. RevisionsNumberAnswers'
  BY <1>2, <1>3 DEF StoreInv, RevisionsNumberAnswers
<1>7. AppliedInOrder'
  BY <1>2, <1>3, AppliedUntouched
<1>8. EnvelopeKeptWhileNeeded'
  BY <1>2, <1>4 DEF StoreInv, EnvelopeKeptWhileNeeded
<1>9. ClaimsCurrent'
  BY <1>2, <1>3 DEF StoreInv, ClaimsCurrent, EnvelopeMatches
<1>10. AppliedAsSealed'
  BY <1>2, SealedUntouched
<1> QED
  BY <1>5, <1>6, <1>7, <1>8, <1>9, <1>10 DEF StoreInv

\* Deleting the rows leaves an empty store, whatever processors still hold claims.
LEMMA RemoveRowsKeepsInv ==
  ASSUME StoreInv, RemoveRows, TypeOK'
  PROVE  StoreInv'
<1>1. /\ ~session'.exists /\ session'.revision = 0 /\ session'.status = "active"
      /\ session'.pendingTurnId = NoTurn /\ session'.state = EmptyState
      /\ \A t \in Turns : turn'[t] = NoRow
      /\ Answers' = <<>>
  BY DEF RemoveRows, NewSession, EmptyState, Answers
<1> QED
  BY <1>1, TurnsAssumption
     DEF StoreInv, OneAnswerInFlight, RevisionsNumberAnswers, AppliedInOrder,
         EnvelopeKeptWhileNeeded, ClaimsCurrent, AppliedAsSealed, EnvelopeMatches, Present,
         NoRow, Open, Settled

\* The clock changes no status and no revision.
LEMMA ClockKeepsInv ==
  ASSUME StoreInv, TypeOK', SessionExpires \/ \E t \in Turns : EnvelopeExpires(t)
  PROVE  StoreInv'
<1> USE TurnsAssumption DEF Open, Settled, Present, Answers
<1>1. TypeOK
  BY DEF StoreInv
<1>2. /\ session'.exists = session.exists /\ session'.revision = session.revision
      /\ session'.status = session.status /\ session'.state = session.state
      /\ session'.pendingTurnId = session.pendingTurnId
      /\ claims' = claims
  BY <1>1 DEF SessionExpires, EnvelopeExpires, TypeOK, SessionRecord
<1>3. \A u \in Turns :
        /\ turn'[u].status = turn[u].status /\ turn'[u].revision = turn[u].revision
        /\ turn'[u].input = turn[u].input
        /\ \/ turn'[u].envelope = turn[u].envelope
           \/ turn[u].envelope = "sealed" /\ turn'[u].envelope = "expired"
  <2>1. CASE SessionExpires
    BY <2>1 DEF SessionExpires
  <2>2. ASSUME NEW t \in Turns, EnvelopeExpires(t), NEW u \in Turns
        PROVE  /\ turn'[u].status = turn[u].status /\ turn'[u].revision = turn[u].revision
               /\ turn'[u].input = turn[u].input
               /\ \/ turn'[u].envelope = turn[u].envelope
                  \/ turn[u].envelope = "sealed" /\ turn'[u].envelope = "expired"
    <3>1. turn[u] \in TurnRecord /\ turn[t].envelope = "sealed"
      BY <1>1, <2>2 DEF TypeOK, EnvelopeExpires
    <3>2. turn'[u] = IF u = t THEN [turn[u] EXCEPT !.envelope = "expired"] ELSE turn[u]
      BY <1>1, <2>2 DEF TypeOK, EnvelopeExpires
    <3> QED BY <3>1, <3>2 DEF TurnRecord
  <2> QED BY <2>1, <2>2
<1>4. OneAnswerInFlight'
  BY <1>2, <1>3 DEF StoreInv, OneAnswerInFlight, EnvelopeMatches
<1>5. RevisionsNumberAnswers'
  BY <1>2, <1>3 DEF StoreInv, RevisionsNumberAnswers
<1>6. AppliedInOrder'
  BY <1>2, <1>3, AppliedUntouched
<1>7. EnvelopeKeptWhileNeeded'
  BY <1>3 DEF StoreInv, EnvelopeKeptWhileNeeded
<1>8. ClaimsCurrent'
  BY <1>2, <1>3 DEF StoreInv, ClaimsCurrent, EnvelopeMatches
<1>9. AppliedAsSealed'
  BY <1>3, SealedUntouched
<1> QED
  BY <1>4, <1>5, <1>6, <1>7, <1>8, <1>9 DEF StoreInv

\* A new session without answers satisfies every part.
LEMMA InitInv == StoreInit => StoreInv
<1> SUFFICES ASSUME StoreInit PROVE StoreInv
  OBVIOUS
<1>1. TypeOK
  BY InitType
<1>2. /\ session.exists /\ session.revision = 0 /\ session.status = "active"
      /\ session.pendingTurnId = NoTurn /\ Answers = <<>>
      /\ \A t \in Turns : turn[t] = NoRow /\ claims[t] = {}
  BY DEF StoreInit, NewSession, EmptyState, Answers
<1> QED
  BY <1>1, <1>2, TurnsAssumption
     DEF StoreInv, OneAnswerInFlight, RevisionsNumberAnswers, AppliedInOrder,
         EnvelopeKeptWhileNeeded, ClaimsCurrent, AppliedAsSealed, EnvelopeMatches, Present,
         NoRow, Open, Settled

\* Every operation of the store keeps the invariant.
LEMMA NextKeepsInv == StoreInv /\ [StoreNext]_storeVars => StoreInv'
<1> SUFFICES ASSUME StoreInv, [StoreNext]_storeVars PROVE StoreInv'
  OBVIOUS
<1>1. TypeOK'
  BY NextType DEF StoreInv
<1>2. ASSUME NEW t \in Turns, Submit(t) PROVE StoreInv'
  BY <1>2, SubmitKeepsInv
<1>3. ASSUME NEW t \in Turns, RetryTurn(t) PROVE StoreInv'
  BY <1>3, RetryKeepsInv
<1>4. ASSUME NEW t \in Turns, Claim(t) PROVE StoreInv'
  <2> PICK rev \in {turn[t].revision, turn[t].input} :
        ClaimTaken(t, rev) \/ ClaimSuperseded(t, rev)
    BY <1>4 DEF Claim
  <2>1. CASE ClaimTaken(t, rev)
    BY <1>1, <2>1, ClaimTakenRevision, ClaimTakenKeepsInv
  <2>2. CASE ClaimSuperseded(t, rev)
    <3>1. Supersede(t) /\ turn[t].status \notin {"absent", "completed"}
      BY <2>2 DEF ClaimSuperseded, Present, Settled
    <3>2. \/ ~(session.pendingTurnId = t /\ session.revision = turn[t].revision)
          \/ ~EnvelopeMatches(t)
      BY <2>2 DEF ClaimSuperseded, HoldsSession, EnvelopeMatches
    <3> QED BY <1>1, <3>1, <3>2, SupersedeKeepsInv
  <2> QED BY <2>1, <2>2
<1>5. ASSUME NEW t \in Turns, Complete(t) PROVE StoreInv'
  <2> PICK base \in claims[t], terminal \in BOOLEAN :
        CompleteApplied(t, NextState(base, t, terminal)) \/ CompleteSuperseded(t)
    BY <1>5 DEF Complete
  <2>1. CASE CompleteApplied(t, NextState(base, t, terminal))
    BY <1>1, <2>1, CompleteAppliedKeepsInv
  <2>2. CASE CompleteSuperseded(t)
    <3>1. Supersede(t) /\ turn[t].status \notin {"absent", "completed"}
      BY <2>2 DEF CompleteSuperseded, Present
    <3>2. ~(session.pendingTurnId = t /\ session.revision = turn[t].revision)
      BY <2>2 DEF CompleteSuperseded
    <3> QED BY <1>1, <3>1, <3>2, SupersedeKeepsInv
  <2> QED BY <2>1, <2>2
<1>6. ASSUME NEW t \in Turns, FailTurn(t) PROVE StoreInv'
  BY <1>1, <1>6, FailKeepsInv
<1>7. ASSUME NEW t \in Turns, EnvelopeExpires(t) PROVE StoreInv'
  BY <1>1, <1>7, ClockKeepsInv
<1>8. CASE SessionExpires
  BY <1>1, <1>8, ClockKeepsInv
<1>9. CASE RemoveRows
  BY <1>1, <1>9, RemoveRowsKeepsInv
<1>10. CASE PurgeEnvelopes
  BY <1>1, <1>10, PurgeEnvelopesKeepsInv
<1>11. CASE UNCHANGED storeVars
  BY <1>1, <1>11
     DEF storeVars, StoreInv, OneAnswerInFlight, RevisionsNumberAnswers, AppliedInOrder,
         EnvelopeKeptWhileNeeded, ClaimsCurrent, AppliedAsSealed, EnvelopeMatches, Present,
         Answers
<1> QED
  BY <1>2, <1>3, <1>4, <1>5, <1>6, <1>7, <1>8, <1>9, <1>10, <1>11
     DEF StoreNext, DeleteSession, PurgeExpired, PurgeSession

\* The inductive invariant holds in every reachable state of the store.
THEOREM StoreInvariant == StoreSpec => []StoreInv
  BY InitInv, NextKeepsInv, PTL DEF StoreSpec

\* A session works on one answer at a time and knows which.
THEOREM OneAnswerAtATime == StoreSpec => []OneAnswerInFlight
<1>1. StoreInv => OneAnswerInFlight
  BY DEF StoreInv
<1> QED BY <1>1, StoreInvariant, PTL

\* The session state holds each completed answer once, in the order of acceptance.
THEOREM AnswersAppliedInOrder == StoreSpec => []AppliedInOrder
<1>1. StoreInv => AppliedInOrder
  BY DEF StoreInv
<1> QED BY <1>1, StoreInvariant, PTL

\* Settled turns hold no answer text, and no open turn has lost its own.
THEOREM EnvelopesKeptWhileNeeded == StoreSpec => []EnvelopeKeptWhileNeeded
<1>1. StoreInv => EnvelopeKeptWhileNeeded
  BY DEF StoreInv
<1> QED BY <1>1, StoreInvariant, PTL

\* Every accepted answer has a revision of its own, without gaps.
THEOREM RevisionsCount == StoreSpec => []RevisionsNumberAnswers
<1>1. StoreInv => RevisionsNumberAnswers
  BY DEF StoreInv
<1> QED BY <1>1, StoreInvariant, PTL

\* A processor that may still complete its turn works on the current state.
THEOREM ClaimsAreCurrent == StoreSpec => []ClaimsCurrent
<1>1. StoreInv => ClaimsCurrent
  BY DEF StoreInv
<1> QED BY <1>1, StoreInvariant, PTL

\* Processors never overwrite each other: the state only grows at its end.
THEOREM NoUpdateLost == StoreSpec => NoLostUpdate
<1>1. ASSUME StoreInv, [StoreNext]_storeVars, session'.exists, session'.state # session.state
      PROVE  \E t \in Turns : session'.state.acceptedTurnIds = Append(Answers, t)
  <2>1. TypeOK
    BY <1>1 DEF StoreInv
  <2>2. ~RemoveRows
    BY <1>1 DEF RemoveRows, NewSession
  <2>3. \E t \in Turns : Complete(t) /\ ~CompleteSuperseded(t)
    BY <1>1, <2>1, <2>2
       DEF StoreNext, storeVars, Submit, AcceptTurn, RetryTurn, Claim, ClaimTaken,
           ClaimSuperseded, CompleteSuperseded, Supersede, FailTurn, EnvelopeExpires,
           SessionExpires, DeleteSession, PurgeExpired, PurgeSession, PurgeEnvelopes,
           Hold, Release, TypeOK, SessionRecord
  <2> PICK t \in Turns : Complete(t) /\ ~CompleteSuperseded(t)
    BY <2>3
  <2> PICK base \in claims[t], terminal \in BOOLEAN :
        CompleteApplied(t, NextState(base, t, terminal))
    BY DEF Complete
  <2>4. base = session.state
    BY <1>1, AppliedBaseIsCurrent
  <2>5. NextState(base, t, terminal) \in DiagnosticState
    BY <2>1, NextStateType DEF TypeOK
  <2>6. session'.state = NextState(base, t, terminal)
    <3> DEFINE new == NextState(base, t, terminal)
    <3>1. session' = [session EXCEPT !.state = new, !.pendingTurnId = NoTurn,
                        !.status = IF new.terminal THEN "complete" ELSE "active"]
      <4> HIDE DEF new
      <4> QED BY <2>1, <2>5, AppliedEffect DEF new
    <3> HIDE DEF new
    <3>2. session \in SessionRecord
      BY <2>1 DEF TypeOK
    <3>3. session'.state = new
      BY <3>1, <3>2 DEF SessionRecord
    <3> QED BY <3>3 DEF new
  <2> QED BY <2>4, <2>6 DEF NextState, Answers
<1>2. StoreInv /\ [StoreNext]_storeVars =>
        [session'.exists /\ session'.state # session.state =>
           \E t \in Turns : session'.state.acceptedTurnIds = Append(Answers, t)]_storeVars
  BY <1>1
<1> QED BY <1>2, StoreInvariant, PTL DEF StoreSpec, NoLostUpdate

\* Completed and superseded turns are final.
THEOREM SettledTurnsStay == StoreSpec => SettledForever
<1>1. ASSUME StoreInv, [StoreNext]_storeVars, session'.exists,
             NEW t \in Turns, turn[t].status \in Settled
      PROVE  turn'[t] = turn[t]
  <2>1. TypeOK /\ turn[t].envelope = "none"
    BY <1>1 DEF StoreInv, EnvelopeKeptWhileNeeded
  <2>2. turn[t].status = "completed" => session.pendingTurnId # t
    BY <1>1 DEF StoreInv, OneAnswerInFlight, Open
  <2>3. ASSUME NEW u \in Turns, Supersede(u), turn[u].status # "completed"
        PROVE  turn'[t] = turn[t]
    BY <1>1, <2>1, <2>3 DEF Supersede, TypeOK, TurnRecord, Settled
  <2>4. ASSUME NEW u \in Turns, Complete(u)
        PROVE  turn'[t] = turn[t]
    <3>1. CASE CompleteSuperseded(u)
      BY <2>3, <3>1 DEF CompleteSuperseded
    <3>0. EnvelopeMatches(u)
      BY <1>1, <2>4 DEF Complete, StoreInv, ClaimsCurrent
    <3>2. ASSUME NEW newState, CompleteApplied(u, newState)
          PROVE  turn'[t] = turn[t]
      <4>1. u # t
        <5>1. session.revision \in Nat /\ session.revision = turn[u].revision
          BY <2>1, <3>2 DEF CompleteApplied, TypeOK, SessionRecord
        <5>2. session.pendingTurnId = u /\ turn[u].status # "completed"
          BY <3>2 DEF CompleteApplied
        <5>3. turn[u].status \notin Settled
          BY <1>1, <3>0, <5>1, <5>2 DEF StoreInv, OneAnswerInFlight, Open, Settled
        <5> QED BY <1>1, <5>3
      <4> QED BY <2>1, <3>2, <4>1 DEF CompleteApplied, TypeOK
    <3> QED BY <2>4, <3>1, <3>2 DEF Complete
  <2>5. ASSUME NEW u \in Turns, Claim(u)
        PROVE  turn'[t] = turn[t]
    <3> PICK rev : ClaimTaken(u, rev) \/ ClaimSuperseded(u, rev)
      BY <2>5 DEF Claim
    <3>1. CASE ClaimTaken(u, rev)
      BY <1>1, <2>1, <3>1 DEF ClaimTaken, Settled, TypeOK
    <3>2. CASE ClaimSuperseded(u, rev)
      BY <2>3, <3>2 DEF ClaimSuperseded, Settled
    <3> QED BY <3>1, <3>2
  <2>6. CASE RemoveRows
    BY <1>1, <2>6 DEF RemoveRows, NewSession
  <2> QED
    BY <1>1, <2>1, <2>4, <2>5, <2>6
       DEF StoreNext, storeVars, Submit, AcceptTurn, RetryTurn, FailTurn, EnvelopeExpires,
           SessionExpires, DeleteSession, PurgeExpired, PurgeSession, PurgeEnvelopes,
           Present, Settled, TypeOK
<1>2. StoreInv /\ [StoreNext]_storeVars =>
        [session'.exists =>
           \A t \in Turns : turn[t].status \in Settled => turn'[t] = turn[t]]_storeVars
  BY <1>1
<1> QED BY <1>2, StoreInvariant, PTL DEF StoreSpec, SettledForever

-----------------------------------------------------------------------------
(* The store implements AnswerLog *)

\* The r-th entry of the log is the one answer with revision r.
EntriesNumbered ==
  /\ session.revision \in Nat
  /\ AcceptedAnswers \in [1..session.revision -> Turns]
  /\ \A r \in 1..session.revision :
       Present(AcceptedAnswers[r]) /\ turn[AcceptedAnswers[r]].revision = r
  /\ \A t \in Turns : Present(t) =>
       turn[t].revision \in 1..session.revision /\ AcceptedAnswers[turn[t].revision] = t

\* The revisions of the store are the positions of its answers in the log.
LEMMA AcceptedEntries == StoreInv => EntriesNumbered
<1> SUFFICES ASSUME StoreInv PROVE EntriesNumbered
  OBVIOUS
<1>1. session.revision \in Nat
  BY DEF StoreInv, TypeOK, SessionRecord
<1>2. ASSUME NEW r \in 1..session.revision
      PROVE  /\ AcceptedAnswers[r] \in Turns
             /\ Present(AcceptedAnswers[r]) /\ turn[AcceptedAnswers[r]].revision = r
  <2>1. \E t \in Turns : Present(t) /\ turn[t].revision = r
    BY <1>2 DEF StoreInv, RevisionsNumberAnswers
  <2>2. AcceptedAnswers[r] = CHOOSE t \in Turns : Present(t) /\ turn[t].revision = r
    BY <1>2 DEF AcceptedAnswers
  <2> QED BY <2>1, <2>2
<1>3. AcceptedAnswers \in [1..session.revision -> Turns]
  BY <1>2 DEF AcceptedAnswers
<1>4. ASSUME NEW t \in Turns, Present(t)
      PROVE  /\ turn[t].revision \in 1..session.revision
             /\ AcceptedAnswers[turn[t].revision] = t
  BY <1>2, <1>4 DEF StoreInv, RevisionsNumberAnswers
<1> QED
  BY <1>1, <1>2, <1>3, <1>4 DEF EntriesNumbered

\* The same of the state after a step.
LEMMA AcceptedEntriesAfter == StoreInv' => EntriesNumbered'
  BY AcceptedEntries, PTL

\* An operation that adds no answer and renumbers none leaves the log alone.
LEMMA LogUntouched ==
  ASSUME StoreInv, StoreInv', session'.revision = session.revision,
         \A t \in Turns : turn[t].status # "absent" =>
           turn'[t].status # "absent" /\ turn'[t].revision = turn[t].revision
  PROVE  AcceptedAnswers' = AcceptedAnswers
<1>1. EntriesNumbered /\ EntriesNumbered'
  BY AcceptedEntries, AcceptedEntriesAfter
<1>2. ASSUME NEW r \in 1..session.revision
      PROVE  AcceptedAnswers'[r] = AcceptedAnswers[r]
  <2> PICK t \in Turns : t = AcceptedAnswers[r]
    BY <1>1 DEF EntriesNumbered
  <2>1. turn[t].status # "absent" /\ turn[t].revision = r
    BY <1>1 DEF EntriesNumbered, Present
  <2>2. turn'[t].status # "absent" /\ turn'[t].revision = r
    BY <2>1
  <2> QED BY <1>1, <2>2 DEF EntriesNumbered, Present
<1> QED
  BY <1>1, <1>2 DEF EntriesNumbered

\* acceptTurn appends its answer to the log.
LEMMA SubmitAccepts ==
  ASSUME StoreInv, StoreInv', NEW t \in Turns, Submit(t)
  PROVE  Log!AcceptAnswer(t)
<1>1. EntriesNumbered /\ EntriesNumbered'
  BY AcceptedEntries, AcceptedEntriesAfter
<1>2. /\ session.exists /\ session'.exists /\ turn[t].status = "absent"
      /\ session'.revision = session.revision + 1
      /\ session'.state = session.state
      /\ turn'[t].status # "absent" /\ turn'[t].revision = session.revision + 1
      /\ \A u \in Turns : u # t => turn'[u] = turn[u]
  BY DEF Submit, AcceptTurn, Hold, Present, StoreInv, TypeOK, SessionRecord
<1>3. \A i \in 1..Len(AcceptedAnswers) : AcceptedAnswers[i] # t
  BY <1>1, <1>2 DEF EntriesNumbered, Present
<1>4. AcceptedAnswers' = Append(AcceptedAnswers, t)
  <2>1. /\ AcceptedAnswers \in Seq(Turns)
        /\ Len(AcceptedAnswers) = session.revision
    BY <1>1 DEF EntriesNumbered
  <2>2. AcceptedAnswers'[session.revision + 1] = t
    BY <1>1, <1>2 DEF EntriesNumbered, Present
  <2>3. ASSUME NEW r \in 1..session.revision
        PROVE  AcceptedAnswers'[r] = AcceptedAnswers[r]
    <3> PICK u \in Turns : u = AcceptedAnswers[r]
      BY <1>1 DEF EntriesNumbered
    <3>1. u # t /\ turn[u].revision = r /\ turn[u].status # "absent"
      BY <1>1, <1>2 DEF EntriesNumbered, Present
    <3>2. turn'[u].revision = r /\ turn'[u].status # "absent"
      BY <1>2, <3>1
    <3> QED BY <1>1, <3>2 DEF EntriesNumbered, Present
  <2>4. /\ AcceptedAnswers' \in Seq(Turns) /\ Append(AcceptedAnswers, t) \in Seq(Turns)
        /\ Len(AcceptedAnswers') = session.revision + 1
        /\ Len(Append(AcceptedAnswers, t)) = session.revision + 1
    BY <1>1, <1>2, <2>1 DEF EntriesNumbered
  <2>5. \A r \in 1..Len(AcceptedAnswers') :
          AcceptedAnswers'[r] = Append(AcceptedAnswers, t)[r]
    BY <1>1, <2>1, <2>2, <2>3, <2>4 DEF EntriesNumbered
  <2> QED BY <2>4, <2>5, SeqEqual
<1> QED
  BY <1>2, <1>3, <1>4 DEF Log!AcceptAnswer, Log!Occurs, Answers

\* completeTurn applies the newest answer of the log, for the first time.
LEMMA CompletionApplies ==
  ASSUME StoreInv, StoreInv', NEW t \in Turns, NEW base \in claims[t],
         NEW terminal \in BOOLEAN, CompleteApplied(t, NextState(base, t, terminal))
  PROVE  Log!ApplyAnswer(t)
<1>1. EntriesNumbered
  BY AcceptedEntries
<1>2. TypeOK /\ NextState(base, t, terminal) \in DiagnosticState
  BY NextStateType DEF StoreInv, TypeOK
<1>3. /\ session.exists /\ turn[t].status \notin {"absent", "completed"}
      /\ session.revision = turn[t].revision
  BY DEF CompleteApplied, Present
<1>4. /\ session' = [session EXCEPT !.state = NextState(base, t, terminal),
                       !.pendingTurnId = NoTurn,
                       !.status = IF NextState(base, t, terminal).terminal
                                  THEN "complete" ELSE "active"]
      /\ turn' = [turn EXCEPT ![t] = [@ EXCEPT !.status = "completed", !.envelope = "none"]]
  BY <1>2, AppliedEffect
<1>5. /\ session'.exists = session.exists /\ session'.revision = session.revision
      /\ session'.state = NextState(base, t, terminal)
  BY <1>2, <1>4 DEF TypeOK, SessionRecord
<1>6. \A u \in Turns : turn[u].status # "absent" =>
        turn'[u].status # "absent" /\ turn'[u].revision = turn[u].revision
  BY <1>2, <1>4 DEF TypeOK, TurnRecord
<1>7. AcceptedAnswers' = AcceptedAnswers
  BY <1>5, <1>6, LogUntouched
<1>8. /\ AcceptedAnswers \in Seq(Turns) /\ Len(AcceptedAnswers) \in Nat \ {0}
      /\ AcceptedAnswers[Len(AcceptedAnswers)] = t
  BY <1>1, <1>3 DEF EntriesNumbered, Present
<1>9. \A i \in 1..Len(Answers) : Answers[i] # t
  BY <1>3 DEF StoreInv, AppliedInOrder
<1>10. Answers' = Append(Answers, t)
  BY <1>5, AppliedBaseIsCurrent DEF NextState, Answers
<1> QED
  BY <1>3, <1>5, <1>7, <1>8, <1>9, <1>10 DEF Log!ApplyAnswer, Log!Occurs

\* A deletion or a purge of the session erases the log.
LEMMA RemovalErases ==
  ASSUME StoreInv, StoreInv', session.exists, RemoveRows
  PROVE  Log!Erase
<1>1. ~session'.exists /\ session'.revision = 0 /\ Answers' = <<>>
  BY DEF RemoveRows, NewSession, EmptyState, Answers
<1>2. AcceptedAnswers' = <<>>
  BY <1>1, AcceptedEntriesAfter DEF EntriesNumbered
<1>3. session.exists \in BOOLEAN /\ session'.exists \in BOOLEAN
  BY DEF StoreInv, TypeOK, SessionRecord
<1> QED
  BY <1>1, <1>2, <1>3 DEF Log!Erase

\* Every other operation is invisible to the log.
LEMMA StutterOfLog ==
  ASSUME StoreInv, StoreInv', session'.exists = session.exists,
         session'.state = session.state, session'.revision = session.revision,
         \A t \in Turns : turn[t].status # "absent" =>
           turn'[t].status # "absent" /\ turn'[t].revision = turn[t].revision
  PROVE  UNCHANGED Log!logVars
  BY LogUntouched DEF Log!logVars, Answers

\* A new session is a new log.
LEMMA InitIsLogInit == StoreInit => Log!LogInit
<1> SUFFICES ASSUME StoreInit PROVE Log!LogInit
  OBVIOUS
<1>1. session.exists = TRUE /\ session.revision = 0 /\ Answers = <<>>
  BY DEF StoreInit, NewSession, EmptyState, Answers
<1>2. AcceptedAnswers = <<>>
  BY <1>1, InitInv, AcceptedEntries DEF EntriesNumbered
<1> QED
  BY <1>1, <1>2 DEF Log!LogInit

\* Every step of the store is a step of the log or leaves it alone.
LEMMA StepIsLogStep ==
  StoreInv /\ StoreInv' /\ [StoreNext]_storeVars => [Log!LogNext]_(Log!logVars)
<1> SUFFICES ASSUME StoreInv, StoreInv', [StoreNext]_storeVars
             PROVE  [Log!LogNext]_(Log!logVars)
  OBVIOUS
<1>0. TypeOK
  BY DEF StoreInv
<1>1. ASSUME NEW t \in Turns, Submit(t) PROVE Log!LogNext
  BY <1>1, SubmitAccepts DEF Log!LogNext
<1>2. ASSUME NEW t \in Turns, Supersede(t), turn[t].status # "absent"
      PROVE  UNCHANGED Log!logVars
  <2>1. session' = session
    BY <1>2 DEF Supersede
  <2>2. \A u \in Turns : turn[u].status # "absent" =>
          turn'[u].status # "absent" /\ turn'[u].revision = turn[u].revision
    BY <1>0, <1>2 DEF Supersede, TypeOK, TurnRecord
  <2> QED BY <2>1, <2>2, StutterOfLog
<1>3. ASSUME NEW t \in Turns, Claim(t) PROVE UNCHANGED Log!logVars
  <2> PICK rev : ClaimTaken(t, rev) \/ ClaimSuperseded(t, rev)
    BY <1>3 DEF Claim
  <2>1. CASE ClaimTaken(t, rev)
    <3>1. /\ session'.exists = session.exists /\ session'.state = session.state
          /\ session'.revision = session.revision
      BY <1>0, <2>1 DEF ClaimTaken, Hold, TypeOK, SessionRecord
    <3>2. \A u \in Turns : turn[u].status # "absent" =>
            turn'[u].status # "absent" /\ turn'[u].revision = turn[u].revision
      BY <1>0, <2>1 DEF ClaimTaken, TypeOK, TurnRecord
    <3> QED BY <3>1, <3>2, StutterOfLog
  <2>2. CASE ClaimSuperseded(t, rev)
    BY <1>2, <2>2 DEF ClaimSuperseded, Present
  <2> QED BY <2>1, <2>2
<1>4. ASSUME NEW t \in Turns, Complete(t) PROVE [Log!LogNext]_(Log!logVars)
  <2> PICK base \in claims[t], terminal \in BOOLEAN :
        CompleteApplied(t, NextState(base, t, terminal)) \/ CompleteSuperseded(t)
    BY <1>4 DEF Complete
  <2>1. CASE CompleteApplied(t, NextState(base, t, terminal))
    BY <2>1, CompletionApplies DEF Log!LogNext
  <2>2. CASE CompleteSuperseded(t)
    BY <1>2, <2>2 DEF CompleteSuperseded, Present
  <2> QED BY <2>1, <2>2
<1>5. ASSUME NEW t \in Turns, RetryTurn(t) \/ FailTurn(t) \/ EnvelopeExpires(t)
      PROVE  UNCHANGED Log!logVars
  <2>1. /\ session'.exists = session.exists /\ session'.state = session.state
        /\ session'.revision = session.revision
    BY <1>0, <1>5
       DEF RetryTurn, FailTurn, EnvelopeExpires, Hold, Release, TypeOK, SessionRecord
  <2>2. \A u \in Turns : turn[u].status # "absent" =>
          turn'[u].status # "absent" /\ turn'[u].revision = turn[u].revision
    BY <1>0, <1>5 DEF RetryTurn, FailTurn, EnvelopeExpires, TypeOK, TurnRecord
  <2> QED BY <2>1, <2>2, StutterOfLog
<1>6. CASE session.exists /\ RemoveRows
  BY <1>6, RemovalErases DEF Log!LogNext
<1>7. CASE SessionExpires
  <2>1. /\ session'.exists = session.exists /\ session'.state = session.state
        /\ session'.revision = session.revision /\ turn' = turn
    BY <1>0, <1>7 DEF SessionExpires, TypeOK, SessionRecord
  <2> QED BY <2>1, StutterOfLog
<1>8. CASE PurgeEnvelopes
  <2>1. /\ session'.exists = session.exists /\ session'.state = session.state
        /\ session'.revision = session.revision
    BY <1>0, <1>8 DEF PurgeEnvelopes, Release, TypeOK, SessionRecord
  <2>2. ASSUME NEW u \in Turns, turn[u].status # "absent"
        PROVE  turn'[u].status # "absent" /\ turn'[u].revision = turn[u].revision
    <3>1. turn[u] \in TurnRecord
      BY <1>0 DEF TypeOK
    <3>2. \/ turn'[u] = turn[u]
          \/ turn'[u] = [turn[u] EXCEPT !.envelope = "none",
                           !.status = IF @ \in Open THEN "failed" ELSE @]
      BY <1>8 DEF PurgeEnvelopes
    <3> QED BY <2>2, <3>1, <3>2 DEF TurnRecord
  <2> QED BY <2>1, <2>2, StutterOfLog
<1>9. CASE UNCHANGED storeVars
  BY <1>9, StutterOfLog DEF storeVars
<1> QED
  BY <1>1, <1>3, <1>4, <1>5, <1>6, <1>7, <1>8, <1>9
     DEF StoreNext, DeleteSession, PurgeExpired, PurgeSession

\* The store keeps the promise of AnswerLog: answers are accepted one after another,
\* each takes effect at most once and only while it is the newest, and erasure is final.
THEOREM StoreImplementsLog == StoreSpec => ImplementsAnswerLog
<1>1. StoreSpec => []StoreInv
  BY StoreInvariant
<1> QED
  BY <1>1, InitIsLogInit, StepIsLogStep, PTL
     DEF StoreSpec, ImplementsAnswerLog, Log!LogSpec
=============================================================================
