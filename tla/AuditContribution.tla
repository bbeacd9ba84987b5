-------------------------- MODULE AuditContribution --------------------------
(***************************************************************************)
(* Verification of one platform's shortest-path audit: the workflow run    *)
(* (core/runVerifyAudit.ts, workflows/verifyAudit.ts), the gates that      *)
(* decide its status (core/auditEligibility.ts), and the draft pull        *)
(* request that carries the outcome to the maintainers                     *)
(* (adapters/githubPr.ts), under retries, lost and late replies,           *)
(* concurrent runs, and maintainers who merge and close.                   *)
(***************************************************************************)
EXTENDS Naturals, FiniteSets

CONSTANTS Runs,         \* workflow runs that may be under way together
          Gates,        \* structural gates of an audit: route, path, evidence...
          Proposals,    \* audits the model may propose
          Initial,      \* audits the corpus may start with; None for no file
          None,
          MaxRounds,    \* runs started in all
          MaxAuditAttempts, \* attempts of the contribution task: 3 in verifyAudit.ts
          MaxTrouble,   \* requests of one run that fail on the way
          MaxLate       \* requests that may take effect after their time-out

VARIABLES
  base,      \* the base branch: its commit, and the audit file there
  copy,      \* the audit file in the deployed copy of the repository
  branch,    \* the branch audit/<slug>, or None
  pr,        \* is a pull request from that branch open
  run,       \* run[r]: what workflow run r is doing
  late,      \* writes that were given up and may still take effect
  rounds,    \* runs started so far
  hurried,   \* requests that took effect late so far
  disturbed  \* runs overlapped, a request was given up, or a list went unread

auditVars == <<base, copy, branch, pr, run, late, rounds, hurried, disturbed>>
------------------------------------------------------------------------------
(* Audits.  fails: the structural gates that do not hold.  open: the       *)
(* questions listed as uncertainties.  counts: absent, equal to the lists  *)
(* of the path, or not.                                                    *)

Questions == [about : {"gate"}, of : Gates] \cup [about : {"remaining"}, number : Nat]
               \cup [about : {"counts"}, of : {"wrong", "none"}]

Audits ==
  {a \in [status : {"verified", "blocked", "needs-human-judgment"},
          counts : {"right", "wrong", "none"}, fails : SUBSET Gates, open : SUBSET Questions] :
     IsFiniteSet(a.open)}

\* A commit of the base branch, and a branch that starts at one.
Bases == [commit : Nat, audit : Audits \cup {None}]
Branches == [base : Nat, audit : Audits \cup {None}, ahead : BOOLEAN]

ASSUME AuditInputs ==
  /\ IsFiniteSet(Gates)
  /\ Proposals \subseteq Audits /\ Initial \subseteq Audits \cup {None}
  /\ None \notin Audits /\ None \notin Bases /\ None \notin Branches

ASSUME AuditLimits == MaxRounds \in Nat /\ MaxAuditAttempts \in Nat \ {0}

Gate(g) == [about |-> "gate", of |-> g]
Remaining(n) == [about |-> "remaining", number |-> n]
CountsOff == [about |-> "counts", of |-> "wrong"]
CountsMissing == [about |-> "counts", of |-> "none"]

reasons(a) ==
  LET found == {Gate(g) : g \in a.fails}
                 \cup (IF a.open = {} THEN {} ELSE {Remaining(Cardinality(a.open))})
                 \cup (IF a.counts = "wrong" THEN {CountsOff} ELSE {})
  IN  IF found = {} /\ a.counts = "none" THEN {CountsMissing} ELSE found

eligible(a) == reasons(a) = {}

\* The status that the model proposes is kept.
applyEligibilityGuess(a) ==
  IF eligible(a) THEN [a EXCEPT !.status = "verified", !.counts = "right", !.open = {}]
  ELSE [a EXCEPT !.counts = "none", !.open = @ \cup reasons(a)]

applyEligibilityStatus(a) ==
  IF eligible(a)
  THEN [a EXCEPT !.status = "verified", !.counts = "right", !.open = {}]
  ELSE [a EXCEPT !.status = IF @ = "blocked" THEN @ ELSE "needs-human-judgment",
                 !.counts = "none", !.open = @ \cup reasons(a)]

settled(a) ==
  LET f == applyEligibilityStatus(a) IN f.status = a.status /\ f.counts = a.counts
------------------------------------------------------------------------------
(* A workflow run up to its contribution                                   *)

Ended == {"unchanged", "search_failed", "model_failed", "invalid_output",
          "opened", "skipped", "failed"}
Requests == {"list", "base", "branch", "reset", "fileSha", "put", "relist", "open"}

NewRun == [pc |-> "idle", audit |-> None, seen |-> None, base |-> None,
           attempts |-> 0, trouble |-> 0, reused |-> FALSE]

End(r, outcome) == run' = [run EXCEPT ![r].pc = outcome]

\* The first attempt of draftAuditContribution, with the finalized audit.
Contribute(r, a) ==
  run' = [run EXCEPT ![r].pc = "list", ![r].audit = applyEligibilityStatus(a), ![r].attempts = 1]

Begin(r, pc, a) == run' = [run EXCEPT ![r] = [NewRun EXCEPT !.pc = pc, !.audit = a]]

underWay(r) == run[r].pc \notin {"idle"} \cup Ended

\* A run takes a step of its own, and notes whether others are under way.
OwnStep(r) ==
  /\ disturbed' = (disturbed \/ \E q \in Runs \ {r} : underWay(q))
  /\ UNCHANGED <<base, copy, branch, pr, late, hurried>>

\* checkOnly: the deployed audit, which may lag behind the base branch, against
\* the gates, no model involved.
StartCheck(r) ==
  /\ run[r].pc \in {"idle"} \cup Ended /\ rounds < MaxRounds
  /\ rounds' = rounds + 1
  /\ LET a == copy
     IN  IF a = None \/ settled(a) THEN Begin(r, "unchanged", a)
         ELSE run' = [run EXCEPT ![r] =
                [NewRun EXCEPT !.pc = "list", !.audit = applyEligibilityStatus(a), !.attempts = 1]]
  /\ OwnStep(r)

StartFull(r) ==
  /\ run[r].pc \in {"idle"} \cup Ended /\ rounds < MaxRounds
  /\ rounds' = rounds + 1
  /\ Begin(r, "search", copy)
  /\ OwnStep(r)

\* No official page, or an unknown platform, is a result like any other.
refreshAuditEvidence == {"propose", "search_failed"}

SearchDocs(r) ==
  /\ run[r].pc = "search"
  /\ \E outcome \in refreshAuditEvidence : End(r, outcome)
  /\ UNCHANGED rounds /\ OwnStep(r)

\* The proposal may be unusable, or lack lists that the gates read: the run
\* then fails before it contributes anything.
proposeAuditRevision == {"invalid_output", "model_failed", "failed"}

ProposeAudit(r) ==
  /\ run[r].pc = "propose"
  /\ \/ \E a \in Proposals : Contribute(r, a)
     \/ \E outcome \in proposeAuditRevision : End(r, outcome)
  /\ UNCHANGED rounds /\ OwnStep(r)
------------------------------------------------------------------------------
(* The contribution, one request at a time.  What GitHub answers and does  *)
(* to its state is external.                                               *)

At(r, pc) == run[r].pc = pc
Goto(r, pc) == run' = [run EXCEPT ![r].pc = pc]
Opened(r, reused) == run' = [run EXCEPT ![r].pc = "opened", ![r].reused = reused]
Asked == UNCHANGED <<base, copy, branch, pr, late, rounds, hurried, disturbed>>

\* Open pull requests are looked for only at the end.
ListPullsLater(r) == At(r, "list") /\ Goto(r, "base") /\ Asked

ListPulls(r) ==
  /\ At(r, "list")
  /\ IF pr THEN Opened(r, TRUE) ELSE Goto(r, "base")
  /\ Asked

ReadBase(r) ==
  /\ At(r, "base")
  /\ run' = [run EXCEPT ![r].pc = "branch", ![r].base = base]
  /\ Asked

\* A branch starts at a base commit, with the file that is there.
BranchAt(b) == [base |-> b.commit, audit |-> b.audit, ahead |-> FALSE]

CreateBranch(r) ==
  /\ At(r, "branch")
  /\ IF branch = None
     THEN branch' = BranchAt(run[r].base) /\ Goto(r, "fileSha")
     ELSE UNCHANGED branch /\ Goto(r, "reset")
  /\ UNCHANGED <<base, copy, pr, late, rounds, hurried, disturbed>>

Reset(b) == branch' = IF branch = None THEN None ELSE BranchAt(b)

\* The branch of a prior run is reset by force; it may be gone by now.
ResetBranch(r) ==
  /\ At(r, "reset")
  /\ Reset(run[r].base)
  /\ Goto(r, IF branch = None THEN "skipped" ELSE "fileSha")
  /\ UNCHANGED <<base, copy, pr, late, rounds, hurried, disturbed>>

ReadFile(r) ==
  /\ At(r, "fileSha")
  /\ run' = [run EXCEPT ![r].pc = "put",
                        ![r].seen = IF branch = None THEN None ELSE branch.audit]
  /\ Asked

\* GitHub takes the file only for the version it replaces.
Accepts(seen) == branch # None /\ branch.audit = seen

Put(a) == branch' = [branch EXCEPT !.audit = a, !.ahead = TRUE]

PutFile(r) ==
  /\ At(r, "put")
  /\ IF Accepts(run[r].seen)
     THEN Put(run[r].audit) /\ Goto(r, "relist")
     ELSE UNCHANGED branch /\ Goto(r, "skipped")
  /\ UNCHANGED <<base, copy, pr, late, rounds, hurried, disturbed>>

RelistPulls(r) ==
  /\ At(r, "relist")
  /\ IF pr THEN Opened(r, TRUE) ELSE Goto(r, "open")
  /\ Asked

\* One open pull request per branch, and only for a branch with commits.
Openable == ~pr /\ branch # None /\ branch.ahead

OpenPull(r) ==
  /\ At(r, "open")
  /\ IF Openable THEN pr' = TRUE /\ Opened(r, FALSE)
     ELSE UNCHANGED pr /\ Goto(r, "skipped")
  /\ UNCHANGED <<base, copy, branch, late, rounds, hurried, disturbed>>
------------------------------------------------------------------------------
(* Trouble on the way: a request times out, or the attempt is cut off.     *)
(* The request may have taken effect, may not, or may still do so.         *)

\* A transient error is thrown to the task: another attempt, from the start,
\* or the end of the run.
retried(r) ==
  [run[r] EXCEPT !.trouble = @ + 1,
                 !.pc = IF run[r].attempts < MaxAuditAttempts THEN "list" ELSE "failed",
                 !.attempts = IF @ < MaxAuditAttempts THEN @ + 1 ELSE @]

Trouble(r) == run[r].trouble < MaxTrouble /\ run' = [run EXCEPT ![r] = retried(r)]

LoseRequest(r) ==
  /\ run[r].pc \in Requests /\ Trouble(r)
  /\ Asked

Create(b) == branch' = IF branch = None THEN BranchAt(b) ELSE branch

\* The effect of a write, if GitHub accepts it when it arrives.
Effect(kind, b, seen, a) ==
  \/ kind = "branch" /\ Create(b) /\ UNCHANGED pr
  \/ kind = "reset" /\ Reset(b) /\ UNCHANGED pr
  \/ kind = "put" /\ Accepts(seen) /\ Put(a) /\ UNCHANGED pr
  \/ kind = "open" /\ Openable /\ pr' = TRUE /\ UNCHANGED branch

Writes == {"branch", "reset", "put", "open"}

LoseResponse(r) ==
  /\ run[r].pc \in Writes /\ Trouble(r)
  /\ Effect(run[r].pc, run[r].base, run[r].seen, run[r].audit)
  /\ UNCHANGED <<base, copy, late, rounds, hurried, disturbed>>

GiveUp(r) ==
  /\ run[r].pc \in Writes /\ Trouble(r)
  /\ hurried < MaxLate /\ hurried' = hurried + 1 /\ disturbed' = TRUE
  /\ late' = late \cup {[kind |-> run[r].pc, base |-> run[r].base,
                         seen |-> run[r].seen, audit |-> run[r].audit]}
  /\ UNCHANGED <<base, copy, branch, pr, rounds>>

TakeEffect ==
  \E w \in late :
    /\ late' = late \ {w}
    /\ \/ Effect(w.kind, w.base, w.seen, w.audit)
       \/ UNCHANGED <<branch, pr>>
    /\ UNCHANGED <<base, copy, run, rounds, hurried, disturbed>>

\* The body of a successful reply is lost after its headers.  The request does
\* not fail: it reads as {}, no pull request, no version of the file, no address.
Unread(r, pc) == run' = [run EXCEPT ![r].pc = pc, ![r].trouble = @ + 1]

ListUnread(r) ==
  /\ At(r, "list") /\ Unread(r, "base")
  /\ disturbed' = (disturbed \/ pr)
  /\ UNCHANGED <<base, copy, branch, pr, late, rounds, hurried>>

\* No retry without the commit: the run ends without a contribution.
BaseUnread(r) == At(r, "base") /\ Unread(r, "skipped") /\ Asked

\* The file is then written as a new one, and refused if there is one.
FileUnread(r) ==
  /\ At(r, "fileSha")
  /\ run' = [run EXCEPT ![r].pc = "put", ![r].seen = None, ![r].trouble = @ + 1]
  /\ Asked

RelistUnread(r) == At(r, "relist") /\ Unread(r, "open") /\ Asked

\* The pull request is open, and the run reports that it was skipped.
OpenUnread(r) ==
  /\ At(r, "open") /\ Openable /\ pr' = TRUE /\ Unread(r, "skipped")
  /\ UNCHANGED <<base, copy, branch, late, rounds, hurried, disturbed>>

LoseBody(r) ==
  /\ run[r].trouble < MaxTrouble
  /\ ListUnread(r) \/ BaseUnread(r) \/ FileUnread(r) \/ RelistUnread(r) \/ OpenUnread(r)

\* 401, 403, 404, 422: no retry, the run completes without a contribution.
Refused(r) ==
  /\ run[r].pc \in Requests /\ run[r].trouble < MaxTrouble
  /\ run' = [run EXCEPT ![r].pc = "skipped", ![r].trouble = @ + 1]
  /\ Asked
------------------------------------------------------------------------------
(* Maintainers                                                             *)

\* A commit is merged: the file on the base branch becomes that of the pull request.
Merge ==
  /\ pr /\ branch # None /\ branch.ahead
  /\ base' = [commit |-> base.commit + 1, audit |-> branch.audit]
  /\ pr' = FALSE
  /\ branch' \in {None, [branch EXCEPT !.ahead = FALSE]}
  /\ UNCHANGED <<copy, run, late, rounds, hurried, disturbed>>

Close ==
  /\ pr /\ pr' = FALSE
  /\ UNCHANGED <<base, copy, branch, run, late, rounds, hurried, disturbed>>
\* The workflow is deployed again, with the files of the base branch.
DeployAudit ==
  /\ copy' = base.audit
  /\ UNCHANGED <<base, branch, pr, run, late, rounds, hurried, disturbed>>
------------------------------------------------------------------------------
AuditInit ==
  /\ copy \in Initial /\ base = [commit |-> 0, audit |-> copy]
  /\ branch = None /\ pr = FALSE
  /\ run = [r \in Runs |-> NewRun]
  /\ late = {} /\ rounds = 0 /\ hurried = 0 /\ disturbed = FALSE

Verify(r) == StartCheck(r) \/ StartFull(r) \/ SearchDocs(r) \/ ProposeAudit(r)

Request(r) ==
  \/ ListPulls(r) \/ ReadBase(r) \/ CreateBranch(r) \/ ResetBranch(r)
  \/ ReadFile(r) \/ PutFile(r) \/ RelistPulls(r) \/ OpenPull(r)
  \/ LoseRequest(r) \/ LoseResponse(r) \/ LoseBody(r) \/ GiveUp(r) \/ Refused(r)

AuditNext ==
  \/ \E r \in Runs : Verify(r) \/ Request(r)
  \/ TakeEffect \/ Merge \/ Close \/ DeployAudit

AuditSpec == AuditInit /\ [][AuditNext]_auditVars
------------------------------------------------------------------------------
(* Properties                                                              *)

\* Runs, branch and files have their types; an audit that a run contributes
\* has the status that its gates give it.
ContributionTypeOK ==
  /\ base \in Bases /\ copy \in Audits \cup {None} /\ branch \in Branches \cup {None} /\ pr \in BOOLEAN
  /\ branch # None => branch.base <= base.commit
  /\ rounds \in 0..MaxRounds
  /\ \A r \in Runs :
       /\ run[r].pc \in {"idle", "search", "propose"} \cup Requests \cup Ended
       /\ run[r].attempts \in 0..MaxAuditAttempts
       /\ run[r].pc \in Requests => settled(run[r].audit)

\* While runs of a platform come one after another, no request takes effect
\* late, and no list of pull requests that has one is read as {}, an open pull
\* request carries an audit, through lost requests, replies and bodies, retries
\* and refusals at every other step (githubPr.ts).
PullCarriesAudit == ~disturbed /\ pr => branch # None /\ branch.ahead /\ branch.audit # None

\* ... and what a maintainer reviews stays as it was opened: a retry and a
\* later run reuse the open pull request without touching its branch.
UnderReviewStays == [][~disturbed' /\ pr /\ pr' => branch' = branch]_auditVars

\* No guess gets to the maintainers as verified: whatever the model proposes,
\* an audit in a commit of a run is verified only with every gate satisfied,
\* no question open and counts that match (auditEligibility.ts).
VerifiedIsEligible ==
  \A a \in {base.audit : c \in 1..base.commit}
             \cup (IF branch # None /\ branch.ahead THEN {branch.audit} ELSE {}) :
    a # None /\ a.status = "verified" => a.fails = {} /\ a.open = {} /\ a.counts = "right"

\* A contribution that was merged is final for the deterministic check: once
\* deployed, it finds nothing to change, whatever questions it has added (runVerifyAudit.ts).
MergedIsSettled == base.commit > 0 /\ base.audit # None => settled(base.audit)

\* What reaches the maintainers, and what they merge, was earned from the
\* gates, whatever requests were lost, late, unread, repeated or refused.
AuditsEarned ==
  /\ ContributionTypeOK
  /\ VerifiedIsEligible
  /\ MergedIsSettled
  /\ PullCarriesAudit
==============================================================================
