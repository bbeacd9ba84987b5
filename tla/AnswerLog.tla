----------------------------- MODULE AnswerLog -----------------------------
(***************************************************************************)
(* What a diagnostic session promises its participant, without rows,       *)
(* attempts or retries: answers are accepted one after another, an answer  *)
(* takes effect at most once and only while it is the newest one, and when *)
(* the session is erased nothing of it remains and nothing is added.       *)
(***************************************************************************)
EXTENDS Naturals, Sequences

CONSTANT Answers

VARIABLES
  kept,       \* FALSE once the session has been erased
  accepted,   \* the answers in the order they were accepted
  applied     \* the answers that have taken effect, in that order

logVars == <<kept, accepted, applied>>

Occurs(a, s) == \E i \in 1..Len(s) : s[i] = a

LogInit == kept = TRUE /\ accepted = <<>> /\ applied = <<>>

AcceptAnswer(a) ==
  /\ kept
  /\ ~Occurs(a, accepted)
  /\ accepted' = Append(accepted, a)
  /\ UNCHANGED <<kept, applied>>

ApplyAnswer(a) ==
  /\ kept
  /\ accepted # <<>> /\ a = accepted[Len(accepted)]
  /\ ~Occurs(a, applied)
  /\ applied' = Append(applied, a)
  /\ UNCHANGED <<kept, accepted>>

Erase ==
  /\ kept
  /\ kept' = FALSE /\ accepted' = <<>> /\ applied' = <<>>

LogNext ==
  \/ \E a \in Answers : AcceptAnswer(a) \/ ApplyAnswer(a)
  \/ Erase

LogSpec == LogInit /\ [][LogNext]_logVars
=============================================================================
