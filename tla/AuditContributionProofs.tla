----------------------- MODULE AuditContributionProofs -----------------------
(***************************************************************************)
(* Proofs, for any runs, gates, proposals and bounds, that what reaches    *)
(* the maintainers was earned from the gates, and that what they review    *)
(* stays as it was opened.                                                 *)
(***************************************************************************)
EXTENDS AuditContribution, FiniteSetTheorems, TLAPS

------------------------------------------------------------------------------
(* The inductive invariant                                                 *)

\* An audit that a run may contribute: the check finds nothing to change, and
\* "verified" was earned.
Earned(a) ==
  /\ a \in Audits
  /\ settled(a)
  /\ a.status = "verified" => a.fails = {} /\ a.open = {} /\ a.counts = "right"

\* A verification run and the request it is at.
Stages == {"idle", "search", "propose"} \cup Requests \cup Ended

RunRecord ==
  [pc : Stages, audit : Audits \cup {None}, seen : Audits \cup {None}, base : Bases \cup {None},
   attempts : 0..MaxAuditAttempts, trouble : Nat, reused : BOOLEAN]

\* A request of the contribution carries an earned audit, and from the base on a
\* commit that the base branch has had.
RunEarned(q) ==
  /\ q \in RunRecord
  /\ q.pc \in Requests => Earned(q.audit)
  /\ q.pc \in Requests \ {"list", "base"} => q.base \in Bases
  /\ q.base # None => q.base.commit <= base.commit

\* A request that was given up and may still take effect carries an earned audit.
WriteEarned(w) ==
  /\ w.kind \in Writes /\ w.base \in Bases /\ w.base.commit <= base.commit
  /\ Earned(w.audit)

\* A branch starts at a commit of the base branch and adds earned audits only.
BranchEarned ==
  branch # None =>
    /\ branch \in Branches /\ branch.base <= base.commit
    /\ branch.ahead => Earned(branch.audit)

\* What is on the base branch, on the pull request's, and on the way there.
ContributionsEarned ==
  /\ base \in Bases /\ (base.commit > 0 => Earned(base.audit))
  /\ copy \in Audits \cup {None}
  /\ BranchEarned
  /\ \A w \in late : WriteEarned(w)
  /\ pr \in BOOLEAN /\ disturbed \in BOOLEAN /\ rounds \in 0..MaxRounds
  /\ DOMAIN run = Runs /\ \A r \in Runs : RunEarned(run[r])

\* Until something disturbs them: one run at most is under way, nothing arrives
\* late, and nobody is about to write while a pull request is open.
Undisturbed ==
  /\ late = {}
  /\ \A r, q \in Runs : underWay(r) /\ underWay(q) => r = q
  /\ pr => branch # None /\ branch.ahead
  /\ pr => \A r \in Runs : run[r].pc \notin Requests \ {"list"}

\* The inductive invariant of the contribution.
AuditInv == ContributionsEarned /\ (~disturbed => Undisturbed)

------------------------------------------------------------------------------
(* Audits and their gates                                                  *)

\* The gates find nothing, or something that can be listed as a question.
LEMMA ReasonsAreQuestions ==
  ASSUME NEW a \in Audits
  PROVE  reasons(a) \subseteq Questions /\ IsFiniteSet(reasons(a))
<1> DEFINE ofGates == {Gate(g) : g \in a.fails}
           ofOpen == IF a.open = {} THEN {} ELSE {Remaining(Cardinality(a.open))}
           ofCounts == IF a.counts = "wrong" THEN {CountsOff} ELSE {}
<1>1. a.fails \subseteq Gates /\ IsFiniteSet(a.open) /\ IsFiniteSet(Gates)
  BY AuditInputs DEF Audits
<1>2. Cardinality(a.open) \in Nat
  BY <1>1, FS_CardinalityType
<1>3. ofGates \subseteq Questions /\ ofOpen \subseteq Questions /\ ofCounts \subseteq Questions
      /\ CountsMissing \in Questions
  BY <1>1, <1>2 DEF Questions, Gate, Remaining, CountsOff, CountsMissing
<1>4. IsFiniteSet(a.fails)
  BY <1>1, FS_Subset
<1>5. IsFiniteSet(ofGates)
  <2> DEFINE f == [g \in a.fails |-> Gate(g)]
  <2>1. f \in Surjection(a.fails, ofGates)
    BY DEF Surjection
  <2> QED BY <1>4, <2>1, FS_Surjection
<1>6. IsFiniteSet(ofOpen) /\ IsFiniteSet(ofCounts) /\ IsFiniteSet({CountsMissing})
  BY FS_EmptySet, FS_Singleton
<1>7. IsFiniteSet(ofGates \cup ofOpen \cup ofCounts)
  BY <1>5, <1>6, FS_Union
<1>8. reasons(a) \in {ofGates \cup ofOpen \cup ofCounts, {CountsMissing}}
  BY DEF reasons
<1> HIDE DEF ofGates, ofOpen, ofCounts
<1> QED BY <1>3, <1>6, <1>7, <1>8

\* An audit is eligible when no gate fails, no question is open and its counts
\* match.
LEMMA EligibleMeans ==
  ASSUME NEW a \in Audits
  PROVE  eligible(a) <=> a.fails = {} /\ a.open = {} /\ a.counts = "right"
<1>1. a.counts \in {"right", "wrong", "none"}
  BY DEF Audits
<1>2. ASSUME a.fails = {}, a.open = {}, a.counts = "right"
      PROVE  eligible(a)
  BY <1>2 DEF eligible, reasons
<1>3. ASSUME eligible(a)
      PROVE  a.fails = {} /\ a.open = {} /\ a.counts = "right"
  <2>1. reasons(a) = {}
    BY <1>3 DEF eligible
  <2>2. /\ {Gate(g) : g \in a.fails} = {}
        /\ (IF a.open = {} THEN {} ELSE {Remaining(Cardinality(a.open))}) = {}
        /\ (IF a.counts = "wrong" THEN {CountsOff} ELSE {}) = {}
        /\ a.counts # "none"
    BY <2>1 DEF reasons
  <2> QED BY <1>1, <2>2
<1> QED BY <1>2, <1>3

\* Whatever status was proposed, the one that the gates give is earned, and the
\* next check finds nothing to change.
LEMMA AppliedIsEarned ==
  ASSUME NEW a \in Audits
  PROVE  Earned(applyEligibilityStatus(a))
<1> DEFINE f == applyEligibilityStatus(a)
<1>1. CASE eligible(a)
  <2>1. f = [a EXCEPT !.status = "verified", !.counts = "right", !.open = {}]
    BY <1>1 DEF applyEligibilityStatus
  <2>2. a.fails = {}
    BY <1>1, EligibleMeans
  <2>3. /\ f \in Audits /\ f.fails = {} /\ f.open = {} /\ f.counts = "right"
        /\ f.status = "verified"
    BY <2>1, <2>2, FS_EmptySet DEF Audits
  <2> HIDE DEF f
  <2>4. eligible(f)
    BY <2>3, EligibleMeans
  <2>5. /\ applyEligibilityStatus(f).status = "verified"
        /\ applyEligibilityStatus(f).counts = "right"
    BY <2>3, <2>4 DEF applyEligibilityStatus, Audits
  <2>6. Earned(f)
    BY <2>3, <2>5 DEF Earned, settled
  <2> QED BY <2>6 DEF f
<1>2. CASE ~eligible(a)
  <2>1. f = [a EXCEPT !.status = IF @ = "blocked" THEN @ ELSE "needs-human-judgment",
                      !.counts = "none", !.open = @ \cup reasons(a)]
    BY <1>2 DEF applyEligibilityStatus
  <2>2. IsFiniteSet(a.open \cup reasons(a)) /\ a.open \cup reasons(a) \in SUBSET Questions
    BY ReasonsAreQuestions, FS_Union DEF Audits
  <2>3. /\ f \in Audits /\ f.counts = "none"
        /\ f.status \in {"blocked", "needs-human-judgment"}
    BY <2>1, <2>2 DEF Audits
  <2> HIDE DEF f
  <2>4. ~eligible(f)
    BY <2>3, EligibleMeans
  <2>5. /\ applyEligibilityStatus(f).status = f.status
        /\ applyEligibilityStatus(f).counts = "none"
    BY <2>3, <2>4 DEF applyEligibilityStatus, Audits
  <2>6. Earned(f)
    BY <2>3, <2>5 DEF Earned, settled
  <2> QED BY <2>6 DEF f
<1> QED BY <1>1, <1>2

------------------------------------------------------------------------------
(* Steps of the runs                                                       *)

\* A run takes a step of its own: its requests carry earned audits.
LEMMA RunStepsEarned ==
  ASSUME ContributionsEarned, NEW r \in Runs, Verify(r) \/ Request(r)
  PROVE  /\ base' = base /\ DOMAIN run' = Runs
         /\ \A q \in Runs \ {r} : run'[q] = run[q]
         /\ RunEarned(run[r])'
<1>1. /\ DOMAIN run = Runs /\ RunEarned(run[r]) /\ base \in Bases
      /\ MaxAuditAttempts \in Nat \ {0} /\ copy \in Audits \cup {None}
  BY AuditLimits DEF ContributionsEarned
<1> PICK n \in RunRecord : n = run[r]
  BY <1>1 DEF RunEarned
<1>2. RunEarned(n)
  BY <1>1
<1>3. NewRun \in RunRecord /\ NewRun.base = None
  BY <1>1 DEF NewRun, RunRecord, Stages
<1>4. base.commit \in Nat /\ copy \in Audits \cup {None}
  BY <1>1 DEF Bases
<1>5. CASE StartCheck(r)
  <2>1. CASE copy = None \/ settled(copy)
    <3>1. run' = [run EXCEPT ![r] = [NewRun EXCEPT !.pc = "unchanged", !.audit = copy]]
          /\ base' = base
      BY <1>5, <2>1 DEF StartCheck, Begin, OwnStep
    <3>2. [NewRun EXCEPT !.pc = "unchanged", !.audit = copy] \in RunRecord
      BY <1>3, <1>4 DEF RunRecord, Stages, Ended
    <3>3. /\ [NewRun EXCEPT !.pc = "unchanged", !.audit = copy].pc \notin Requests
          /\ [NewRun EXCEPT !.pc = "unchanged", !.audit = copy].base = None
      BY <1>3 DEF RunRecord, Requests
    <3> QED BY <1>1, <3>1, <3>2, <3>3 DEF RunEarned
  <2>2. CASE ~(copy = None \/ settled(copy))
    <3> DEFINE a == applyEligibilityStatus(copy)
               new == [NewRun EXCEPT !.pc = "list", !.audit = a, !.attempts = 1]
    <3>1. run' = [run EXCEPT ![r] = new] /\ base' = base
      BY <1>5, <2>2 DEF StartCheck, OwnStep
    <3>2. Earned(a)
      BY <1>4, <2>2, AppliedIsEarned
    <3> HIDE DEF a
    <3>a. a \in Audits /\ "list" \in Stages /\ 1 \in 0..MaxAuditAttempts
      BY <1>1, <3>2 DEF Stages, Requests, Earned
    <3>3. new \in RunRecord /\ new.pc = "list" /\ new.audit = a /\ new.base = None
      BY <1>3, <3>a DEF RunRecord
    <3> HIDE DEF new
    <3> QED BY <1>1, <3>1, <3>2, <3>3 DEF RunEarned
  <2> QED BY <2>1, <2>2
<1>6. CASE StartFull(r)
  <2> DEFINE new == [NewRun EXCEPT !.pc = "search", !.audit = copy]
  <2>1. run' = [run EXCEPT ![r] = new] /\ base' = base
    BY <1>6 DEF StartFull, Begin, OwnStep
  <2>2. new \in RunRecord /\ new.pc = "search" /\ new.base = None
    BY <1>3, <1>4 DEF RunRecord, Stages
  <2> HIDE DEF new
  <2> QED BY <1>1, <2>1, <2>2 DEF RunEarned, Requests
<1>7. ASSUME NEW pc \in Stages \ Requests, run' = [run EXCEPT ![r].pc = pc], base' = base
      PROVE  /\ DOMAIN run' = Runs /\ \A q \in Runs \ {r} : run'[q] = run[q]
             /\ RunEarned(run[r])'
  <2>1. run'[r] = [n EXCEPT !.pc = pc] /\ [n EXCEPT !.pc = pc] \in RunRecord
    BY <1>1, <1>7 DEF RunRecord
  <2> QED BY <1>1, <1>2, <1>7, <2>1 DEF RunEarned, RunRecord
<1>8. CASE SearchDocs(r)
  BY <1>7, <1>8 DEF SearchDocs, End, OwnStep, refreshAuditEvidence, Stages, Requests, Ended
<1>9. CASE ProposeAudit(r)
  <2>1. base' = base /\ n.pc = "propose"
    BY <1>9 DEF ProposeAudit, OwnStep
  <2>2. CASE \E outcome \in proposeAuditRevision : End(r, outcome)
    BY <1>7, <2>1, <2>2 DEF proposeAuditRevision, End, Stages, Requests, Ended
  <2>3. CASE \E x \in Proposals : Contribute(r, x)
    <3> PICK x \in Audits : Contribute(r, x)
      BY <2>3, AuditInputs
    <3> DEFINE a == applyEligibilityStatus(x)
               new == [n EXCEPT !.pc = "list", !.audit = a, !.attempts = 1]
    <3>1. run' = [run EXCEPT ![r] = new]
      BY <1>1 DEF Contribute
    <3>2. Earned(a)
      BY AppliedIsEarned
    <3> HIDE DEF a
    <3>a. a \in Audits /\ "list" \in Stages /\ 1 \in 0..MaxAuditAttempts
      BY <1>1, <3>2 DEF Stages, Requests, Earned
    <3>3. new \in RunRecord /\ new.pc = "list" /\ new.audit = a /\ new.base = n.base
      BY <1>3, <3>a DEF RunRecord
    <3> HIDE DEF new
    <3> QED BY <1>1, <1>2, <2>1, <3>1, <3>2, <3>3 DEF RunEarned
  <2> QED BY <1>9, <2>2, <2>3 DEF ProposeAudit
<1>10. CASE ReadBase(r)
  <2> DEFINE new == [n EXCEPT !.pc = "branch", !.base = base]
  <2>1. run' = [run EXCEPT ![r] = new] /\ base' = base /\ n.pc = "base"
    BY <1>1, <1>10 DEF ReadBase, Asked, At
  <2>2. /\ new \in RunRecord /\ new.pc = "branch" /\ new.base = base
        /\ new.audit = n.audit
    BY <1>1 DEF RunRecord, Stages, Requests
  <2> HIDE DEF new
  <2> QED BY <1>1, <1>2, <1>4, <2>1, <2>2 DEF RunEarned, Requests
<1>11. CASE ReadFile(r)
  <2> DEFINE seen == IF branch = None THEN None ELSE branch.audit
             new == [n EXCEPT !.pc = "put", !.seen = seen]
  <2>1. run' = [run EXCEPT ![r] = new] /\ base' = base /\ n.pc = "fileSha"
    BY <1>1, <1>11 DEF ReadFile, Asked, At
  <2>2. seen \in Audits \cup {None}
    BY DEF ContributionsEarned, BranchEarned, Branches
  <2> HIDE DEF seen
  <2>3. /\ new \in RunRecord /\ new.pc = "put" /\ new.base = n.base
        /\ new.audit = n.audit
    BY <2>2 DEF RunRecord, Stages, Requests
  <2> HIDE DEF new
  <2> QED BY <1>1, <1>2, <2>1, <2>3 DEF RunEarned, Requests
<1>12. ASSUME NEW pc \in Requests, run' = [run EXCEPT ![r].pc = pc], base' = base,
              \/ n.pc \in Requests \ {"list", "base"}
              \/ n.pc = "list" /\ pc = "base"
       PROVE  /\ DOMAIN run' = Runs /\ \A q \in Runs \ {r} : run'[q] = run[q]
              /\ RunEarned(run[r])'
  <2>1. run'[r] = [n EXCEPT !.pc = pc] /\ [n EXCEPT !.pc = pc] \in RunRecord
    BY <1>1, <1>12 DEF RunRecord, Stages
  <2>2. n.pc \in Requests
    BY <1>12 DEF Requests
  <2> QED BY <1>1, <1>2, <1>12, <2>1, <2>2 DEF RunEarned, RunRecord
<1>13. ASSUME NEW reused \in BOOLEAN, Opened(r, reused), base' = base
       PROVE  /\ DOMAIN run' = Runs /\ \A q \in Runs \ {r} : run'[q] = run[q]
              /\ RunEarned(run[r])'
  <2> DEFINE new == [n EXCEPT !.pc = "opened", !.reused = reused]
  <2>1. run' = [run EXCEPT ![r] = new]
    BY <1>1, <1>13 DEF Opened
  <2>2. new \in RunRecord /\ new.pc = "opened" /\ new.base = n.base
    BY <1>13 DEF RunRecord, Stages, Ended
  <2> HIDE DEF new
  <2> QED BY <1>1, <1>2, <1>13, <2>1, <2>2 DEF RunEarned, Requests
<1>14. CASE ListPulls(r)
  BY <1>12, <1>13, <1>14 DEF ListPulls, Asked, At, Goto, Requests
<1>15. CASE CreateBranch(r)
  BY <1>12, <1>15 DEF CreateBranch, Goto, At, Requests
<1>16. CASE ResetBranch(r)
  <2>1. "skipped" \in Stages \ Requests /\ "fileSha" \in Requests
    BY DEF Stages, Ended, Requests
  <2>2. /\ base' = base /\ n.pc = "reset" /\ n.pc \in Requests \ {"list", "base"}
        /\ \/ run' = [run EXCEPT ![r].pc = "skipped"]
           \/ run' = [run EXCEPT ![r].pc = "fileSha"]
    BY <1>16 DEF ResetBranch, Goto, At, Requests
  <2> QED BY <1>7, <1>12, <2>1, <2>2
<1>17. CASE PutFile(r)
  <2>1. "skipped" \in Stages \ Requests /\ "relist" \in Requests
    BY DEF Stages, Ended, Requests
  <2>2. /\ base' = base /\ n.pc = "put" /\ n.pc \in Requests \ {"list", "base"}
        /\ \/ run' = [run EXCEPT ![r].pc = "skipped"]
           \/ run' = [run EXCEPT ![r].pc = "relist"]
    BY <1>17 DEF PutFile, Goto, At, Requests
  <2> QED BY <1>7, <1>12, <2>1, <2>2
<1>18. CASE RelistPulls(r)
  BY <1>12, <1>13, <1>18 DEF RelistPulls, Asked, At, Goto, Requests
<1>19. CASE OpenPull(r)
  <2>1. "skipped" \in Stages \ Requests
    BY DEF Stages, Ended, Requests
  <2> QED BY <1>7, <1>13, <1>19, <2>1 DEF OpenPull, Goto
<1>20. ASSUME Trouble(r), n.pc \in Requests, base' = base
       PROVE  /\ DOMAIN run' = Runs /\ \A q \in Runs \ {r} : run'[q] = run[q]
              /\ RunEarned(run[r])'
  <2> DEFINE pc == IF n.attempts < MaxAuditAttempts THEN "list" ELSE "failed"
             attempts == IF n.attempts < MaxAuditAttempts THEN n.attempts + 1 ELSE n.attempts
             new == [n EXCEPT !.trouble = @ + 1, !.pc = pc, !.attempts = attempts]
  <2>1. run' = [run EXCEPT ![r] = new]
    BY <1>1, <1>20 DEF Trouble, retried
  <2>2. pc \in {"list", "failed"} /\ attempts \in 0..MaxAuditAttempts /\ n.trouble + 1 \in Nat
    BY <1>1 DEF RunRecord
  <2> HIDE DEF pc, attempts
  <2>3. /\ new \in RunRecord /\ new.pc = pc /\ new.base = n.base
        /\ new.audit = n.audit
    BY <2>2 DEF RunRecord, Stages, Requests, Ended
  <2> HIDE DEF new
  <2> QED BY <1>1, <1>2, <1>20, <2>1, <2>2, <2>3 DEF RunEarned, Requests
<1>21. CASE LoseRequest(r)
  BY <1>20, <1>21 DEF LoseRequest, Asked
<1>22. CASE LoseResponse(r) \/ GiveUp(r)
  BY <1>20, <1>22 DEF LoseResponse, GiveUp, Writes, Requests
<1>23. CASE Refused(r)
  <2> DEFINE new == [n EXCEPT !.pc = "skipped", !.trouble = @ + 1]
  <2>1. run' = [run EXCEPT ![r] = new] /\ base' = base
    BY <1>1, <1>23 DEF Refused, Asked
  <2>a. n.trouble + 1 \in Nat /\ "skipped" \in Stages
    BY DEF RunRecord, Stages, Ended
  <2>2. new \in RunRecord /\ new.pc = "skipped" /\ new.base = n.base
    BY <2>a DEF RunRecord
  <2> HIDE DEF new
  <2> QED BY <1>1, <1>2, <2>1, <2>2 DEF RunEarned, Requests
<1>25. ASSUME NEW pc \in {"base", "skipped", "open"}, Unread(r, pc), base' = base,
              pc = "base" => n.pc = "list", pc = "open" => n.pc = "relist"
       PROVE  /\ DOMAIN run' = Runs /\ \A q \in Runs \ {r} : run'[q] = run[q]
              /\ RunEarned(run[r])'
  <2> DEFINE new == [n EXCEPT !.pc = pc, !.trouble = @ + 1]
  <2>1. run' = [run EXCEPT ![r] = new]
    BY <1>1, <1>25 DEF Unread
  <2>a. n.trouble + 1 \in Nat /\ pc \in Stages
    BY <1>25 DEF RunRecord, Stages, Requests, Ended
  <2>2. new \in RunRecord /\ new.pc = pc /\ new.base = n.base /\ new.audit = n.audit
    BY <2>a DEF RunRecord
  <2> HIDE DEF new
  <2> QED BY <1>1, <1>2, <1>25, <2>1, <2>2 DEF RunEarned, Requests
<1>26. CASE FileUnread(r)
  <2> DEFINE new == [n EXCEPT !.pc = "put", !.seen = None, !.trouble = @ + 1]
  <2>1. run' = [run EXCEPT ![r] = new] /\ base' = base /\ n.pc = "fileSha"
    BY <1>1, <1>26 DEF FileUnread, Asked, At
  <2>a. n.trouble + 1 \in Nat /\ "put" \in Stages
    BY DEF RunRecord, Stages, Requests
  <2>2. new \in RunRecord /\ new.pc = "put" /\ new.base = n.base /\ new.audit = n.audit
    BY <2>a DEF RunRecord
  <2> HIDE DEF new
  <2> QED BY <1>1, <1>2, <2>1, <2>2 DEF RunEarned, Requests
<1>27. CASE LoseBody(r)
  <2>1. CASE ListUnread(r)
    BY <1>25, <2>1 DEF ListUnread, At
  <2>2. CASE BaseUnread(r)
    BY <1>25, <2>2 DEF BaseUnread, At, Asked
  <2>3. CASE RelistUnread(r)
    BY <1>25, <2>3 DEF RelistUnread, At, Asked
  <2>4. CASE OpenUnread(r)
    BY <1>25, <2>4 DEF OpenUnread, At
  <2>5. base' = base
    BY <1>27 DEF LoseBody, ListUnread, BaseUnread, FileUnread, RelistUnread, OpenUnread, Asked
  <2> QED BY <1>26, <1>27, <2>1, <2>2, <2>3, <2>4, <2>5 DEF LoseBody
<1>24. /\ SearchDocs(r) => base' = base
       /\ ListPulls(r) \/ RelistPulls(r) \/ LoseRequest(r) => base' = base
       /\ CreateBranch(r) \/ ResetBranch(r) \/ PutFile(r) \/ OpenPull(r) => base' = base
       /\ LoseResponse(r) \/ GiveUp(r) => base' = base
  BY DEF SearchDocs, OwnStep, ListPulls, RelistPulls, LoseRequest, Asked, CreateBranch,
         ResetBranch, PutFile, OpenPull, LoseResponse, GiveUp
<1> QED
  BY <1>5, <1>6, <1>8, <1>9, <1>10, <1>11, <1>14, <1>15, <1>16, <1>17, <1>18, <1>19, <1>21,
     <1>22, <1>23, <1>24, <1>27 DEF Verify, Request

\* A write of an earned audit, at whatever time, leaves the branch earned.
LEMMA EffectEarned ==
  ASSUME ContributionsEarned, base' = base, NEW kind, NEW b \in Bases, b.commit <= base.commit,
         NEW seen, NEW a, Earned(a), Effect(kind, b, seen, a)
  PROVE  BranchEarned' /\ pr' \in BOOLEAN
<1>1. BranchEarned /\ pr \in BOOLEAN /\ base.commit \in Nat
  BY DEF ContributionsEarned, Bases
<1>2. BranchAt(b) \in Branches /\ BranchAt(b).base = b.commit /\ BranchAt(b).ahead = FALSE
  BY DEF BranchAt, Branches, Bases
<1>3. CASE branch' = branch
  BY <1>1, <1>3 DEF BranchEarned, Effect
<1>4. CASE branch' = BranchAt(b)
  BY <1>1, <1>2, <1>4 DEF BranchEarned, Effect
<1>5. CASE kind = "put" /\ Accepts(seen) /\ Put(a) /\ UNCHANGED pr
  <2>1. branch \in Branches /\ branch' = [branch EXCEPT !.audit = a, !.ahead = TRUE]
    BY <1>1, <1>5 DEF BranchEarned, Accepts, Put
  <2>2. a \in Audits
    BY DEF Earned
  <2>3. branch' \in Branches /\ branch'.base = branch.base /\ branch'.audit = a
    BY <2>1, <2>2 DEF Branches
  <2>4. branch # None
    BY <1>5 DEF Accepts
  <2> QED BY <1>1, <1>5, <2>3, <2>4 DEF BranchEarned
<1>6. CASE kind = "reset" /\ Reset(b) /\ UNCHANGED pr
  BY <1>1, <1>3, <1>4, <1>6 DEF Reset, BranchEarned
<1> QED BY <1>1, <1>3, <1>4, <1>5, <1>6 DEF Effect, Create

\* A run leaves the branch, the writes on their way and the counters earned.
LEMMA RunLeavesEarned ==
  ASSUME ContributionsEarned, NEW r \in Runs, Verify(r) \/ Request(r)
  PROVE  /\ BranchEarned' /\ (\A w \in late : WriteEarned(w))'
         /\ pr' \in BOOLEAN /\ disturbed' \in BOOLEAN /\ rounds' \in 0..MaxRounds
         /\ copy' = copy
<1>0. copy' = copy
  BY DEF Verify, StartCheck, StartFull, SearchDocs, ProposeAudit, OwnStep, Request, ListPulls,
         ReadBase, CreateBranch, ResetBranch, ReadFile, PutFile, RelistPulls, OpenPull,
         LoseRequest, LoseResponse, LoseBody, ListUnread, BaseUnread, FileUnread, RelistUnread,
         OpenUnread, GiveUp, Refused, Asked
<1>1. /\ BranchEarned /\ \A w \in late : WriteEarned(w)
      /\ pr \in BOOLEAN /\ disturbed \in BOOLEAN /\ rounds \in 0..MaxRounds
      /\ RunEarned(run[r]) /\ base' = base
  BY RunStepsEarned DEF ContributionsEarned
<1> PICK n \in RunRecord : n = run[r]
  BY <1>1 DEF RunEarned
<1>2. RunEarned(n)
  BY <1>1
<1>3. ASSUME n.pc \in Writes
      PROVE  n.base \in Bases /\ n.base.commit <= base.commit /\ Earned(n.audit)
  BY <1>2, <1>3, AuditInputs DEF RunEarned, Writes, Requests
<1>4. CASE UNCHANGED <<branch, late, pr>> /\ disturbed' \in BOOLEAN /\ rounds' \in 0..MaxRounds
  BY <1>0, <1>1, <1>4 DEF BranchEarned, WriteEarned
<1>5. CASE Verify(r)
  <2>1. disturbed' \in BOOLEAN /\ UNCHANGED <<branch, late, pr>>
    BY <1>5 DEF Verify, StartCheck, StartFull, SearchDocs, ProposeAudit, OwnStep
  <2>2. rounds' = rounds \/ (rounds < MaxRounds /\ rounds' = rounds + 1)
    BY <1>5 DEF Verify, StartCheck, StartFull, SearchDocs, ProposeAudit
  <2>3. rounds' \in 0..MaxRounds
    BY <1>1, <2>2, AuditLimits
  <2> QED BY <1>4, <2>1, <2>3
<1>6. CASE ListPulls(r) \/ ReadBase(r) \/ ReadFile(r) \/ RelistPulls(r) \/ LoseRequest(r) \/ Refused(r)
  <2>1. Asked
    BY <1>6 DEF ListPulls, ReadBase, ReadFile, RelistPulls, LoseRequest, Refused
  <2> QED BY <1>1, <1>4, <2>1 DEF Asked
<1>7. CASE LoseResponse(r)
  BY <1>0, <1>1, <1>3, <1>7, EffectEarned DEF LoseResponse, WriteEarned
<1>8. CASE CreateBranch(r) \/ ResetBranch(r) \/ PutFile(r) \/ OpenPull(r)
  <2>1. /\ n.pc \in Writes
        /\ \/ Effect(n.pc, n.base, n.seen, n.audit)
           \/ UNCHANGED <<branch, pr>>
    BY <1>8 DEF CreateBranch, ResetBranch, PutFile, OpenPull, At, Writes, Effect, Create
  <2>2. UNCHANGED <<late, rounds, disturbed>>
    BY <1>8 DEF CreateBranch, ResetBranch, PutFile, OpenPull
  <2>3. BranchEarned' /\ pr' \in BOOLEAN
    <3>1. CASE Effect(n.pc, n.base, n.seen, n.audit)
      BY <1>1, <1>3, <2>1, <3>1, EffectEarned
    <3>2. CASE UNCHANGED <<branch, pr>>
      BY <1>1, <3>2 DEF BranchEarned
    <3> QED BY <2>1, <3>1, <3>2
  <2> QED BY <1>0, <1>1, <2>2, <2>3 DEF WriteEarned
<1>9. CASE GiveUp(r)
  <2> DEFINE w == [kind |-> n.pc, base |-> n.base, seen |-> n.seen, audit |-> n.audit]
  <2>1. /\ n.pc \in Writes /\ disturbed' = TRUE /\ late' = late \cup {w}
        /\ UNCHANGED <<base, branch, pr, rounds>>
    BY <1>9 DEF GiveUp
  <2>2. WriteEarned(w)
    BY <1>3, <2>1 DEF WriteEarned
  <2>3. (\A v \in late : WriteEarned(v))'
    <3> HIDE DEF w
    <3> QED BY <1>1, <2>1, <2>2 DEF WriteEarned
  <2>4. BranchEarned'
    BY <1>1, <2>1 DEF BranchEarned
  <2>5. disturbed' \in BOOLEAN /\ pr' \in BOOLEAN
    BY <1>1, <2>1
  <2>6. rounds' \in 0..MaxRounds
    BY <1>1, <2>1
  <2> QED BY <1>0, <2>3, <2>4, <2>5, <2>6
<1>10. CASE LoseBody(r)
  <2>1. CASE ListUnread(r)
    BY <1>1, <1>4, <2>1 DEF ListUnread
  <2>2. CASE BaseUnread(r) \/ FileUnread(r) \/ RelistUnread(r)
    <3>1. Asked
      BY <2>2 DEF BaseUnread, FileUnread, RelistUnread
    <3> QED BY <1>1, <1>4, <3>1 DEF Asked
  <2>3. CASE OpenUnread(r)
    <3>1. pr' = TRUE /\ UNCHANGED <<base, branch, late, rounds, disturbed>>
      BY <2>3 DEF OpenUnread
    <3> QED BY <1>0, <1>1, <3>1 DEF BranchEarned, WriteEarned
  <2> QED BY <1>10, <2>1, <2>2, <2>3 DEF LoseBody
<1> QED BY <1>5, <1>6, <1>7, <1>8, <1>9, <1>10 DEF Request

------------------------------------------------------------------------------
(* All steps                                                               *)

\* At first nothing was contributed.
LEMMA InitAudit == AuditInit => AuditInv
<1> SUFFICES ASSUME AuditInit PROVE AuditInv
  OBVIOUS
<1>1. base \in Bases /\ base.commit = 0 /\ copy \in Audits \cup {None}
  BY AuditInputs DEF AuditInit, Bases
<1>2. NewRun \in RunRecord /\ NewRun.base = None /\ NewRun.pc = "idle"
  BY AuditLimits DEF NewRun, RunRecord, Stages
<1>3. ContributionsEarned
  <2>1. RunEarned(NewRun)
    BY <1>1, <1>2 DEF RunEarned, Requests
  <2>2. pr \in BOOLEAN /\ disturbed \in BOOLEAN /\ BranchEarned /\ late = {}
    BY DEF AuditInit, BranchEarned
  <2>3. rounds \in 0..MaxRounds /\ ~(base.commit > 0) /\ base \in Bases
    BY <1>1, AuditLimits DEF AuditInit
  <2>4. DOMAIN run = Runs /\ \A r \in Runs : run[r] = NewRun
    BY DEF AuditInit
  <2> QED BY <1>1, <2>1, <2>2, <2>3, <2>4 DEF ContributionsEarned
<1>4. Undisturbed
  BY <1>2 DEF AuditInit, Undisturbed, underWay
<1> QED BY <1>3, <1>4 DEF AuditInv

\* Every step, of a run, of the network or of a maintainer, passes on earned
\* audits only.
LEMMA StepEarned ==
  ASSUME ContributionsEarned, [AuditNext]_auditVars
  PROVE  ContributionsEarned'
<1>1. CASE \E r \in Runs : Verify(r) \/ Request(r)
  <2> PICK r \in Runs : Verify(r) \/ Request(r)
    BY <1>1
  <2>1. /\ base' = base /\ DOMAIN run' = Runs
        /\ \A q \in Runs \ {r} : run'[q] = run[q]
        /\ RunEarned(run[r])'
    BY RunStepsEarned
  <2>2. \A q \in Runs : RunEarned(run[q])'
    BY <2>1 DEF ContributionsEarned, RunEarned
  <2> QED BY <2>1, <2>2, RunLeavesEarned DEF ContributionsEarned
<1>2. CASE TakeEffect
  <2>1. PICK w \in late : /\ late' = late \ {w}
                          /\ \/ Effect(w.kind, w.base, w.seen, w.audit)
                             \/ UNCHANGED <<branch, pr>>
    BY <1>2 DEF TakeEffect
  <2>2. UNCHANGED <<base, copy, run, rounds, disturbed>>
    BY <1>2 DEF TakeEffect
  <2>3. WriteEarned(w)
    BY DEF ContributionsEarned
  <2>4. BranchEarned' /\ pr' \in BOOLEAN
    <3>1. CASE Effect(w.kind, w.base, w.seen, w.audit)
      BY <2>2, <2>3, <3>1, EffectEarned DEF WriteEarned
    <3>2. CASE UNCHANGED <<branch, pr>>
      BY <2>2, <3>2 DEF ContributionsEarned, BranchEarned
    <3> QED BY <2>1, <3>1, <3>2
  <2> QED BY <2>1, <2>2, <2>4 DEF ContributionsEarned, WriteEarned, RunEarned
<1>3. CASE Merge
  <2> PICK b \in Branches : b = branch
    BY <1>3 DEF Merge, ContributionsEarned, BranchEarned
  <2>1. /\ b.ahead /\ base' = [commit |-> base.commit + 1, audit |-> b.audit]
        /\ pr' = FALSE /\ branch' \in {None, [b EXCEPT !.ahead = FALSE]}
        /\ UNCHANGED <<copy, run, late, rounds, disturbed>> /\ branch # None
    BY <1>3 DEF Merge
  <2>2. Earned(b.audit) /\ b.base <= base.commit /\ b.base \in Nat /\ base.commit \in Nat
    BY <2>1 DEF ContributionsEarned, BranchEarned, Branches, Bases
  <2>3. /\ base' \in Bases /\ base'.commit = base.commit + 1 /\ base'.audit = b.audit
        /\ b.base <= base'.commit
    BY <2>1, <2>2 DEF Bases, Earned
  <2>4. BranchEarned'
    <3>1. [b EXCEPT !.ahead = FALSE] \in Branches /\ [b EXCEPT !.ahead = FALSE].base = b.base
          /\ [b EXCEPT !.ahead = FALSE].ahead = FALSE
      BY DEF Branches
    <3> QED BY <2>1, <2>3, <3>1 DEF BranchEarned
  <2>5. ASSUME NEW c \in Bases, c.commit <= base.commit
        PROVE  c.commit <= base'.commit
    BY <2>2, <2>3, <2>5 DEF Bases
  <2>6. \A r \in Runs : RunEarned(run[r])'
    <3> SUFFICES ASSUME NEW r \in Runs PROVE RunEarned(run[r])'
      OBVIOUS
    <3>1. RunEarned(run[r]) /\ run' = run
      BY <2>1 DEF ContributionsEarned
    <3>2. run[r].base # None => run[r].base \in Bases
      BY <3>1 DEF RunEarned, RunRecord
    <3> QED BY <2>5, <3>1, <3>2 DEF RunEarned
  <2>7. (\A w \in late : WriteEarned(w))'
    BY <2>1, <2>5 DEF ContributionsEarned, WriteEarned
  <2> QED BY <2>1, <2>2, <2>3, <2>4, <2>6, <2>7 DEF ContributionsEarned
<1>4. CASE Close
  BY <1>4 DEF Close, ContributionsEarned, BranchEarned, WriteEarned, RunEarned
<1>5. CASE UNCHANGED auditVars
  BY <1>5 DEF auditVars, ContributionsEarned, BranchEarned, WriteEarned, RunEarned
<1>6. CASE DeployAudit
  <2>1. copy' \in Audits \cup {None}
    BY <1>6 DEF DeployAudit, ContributionsEarned, Bases
  <2> QED BY <1>6, <2>1 DEF DeployAudit, ContributionsEarned, BranchEarned, WriteEarned, RunEarned
<1> QED BY <1>1, <1>2, <1>3, <1>4, <1>5, <1>6 DEF AuditNext

\* While runs come one after another, a step keeps them so, and what is under
\* review stays.
LEMMA StepUndisturbed ==
  ASSUME ContributionsEarned, ContributionsEarned', ~disturbed => Undisturbed,
         [AuditNext]_auditVars, ~disturbed'
  PROVE  Undisturbed' /\ (pr /\ pr' => branch' = branch)
<1>1. ASSUME NEW r \in Runs, Verify(r)
      PROVE  Undisturbed' /\ (pr /\ pr' => branch' = branch)
  <2>1. /\ ~disturbed /\ \A q \in Runs \ {r} : ~underWay(q)
        /\ UNCHANGED <<branch, pr, late>>
    BY <1>1 DEF Verify, StartCheck, StartFull, SearchDocs, ProposeAudit, OwnStep
  <2>2. DOMAIN run' = Runs /\ \A q \in Runs \ {r} : run'[q] = run[q]
    BY <1>1, RunStepsEarned
  <2>3. run'[r].pc \notin Requests \ {"list"}
    <3>1. DOMAIN run = Runs /\ "pc" \in DOMAIN run[r]
      BY DEF ContributionsEarned, RunEarned, RunRecord
    <3>a. ASSUME StartCheck(r)
          PROVE  run'[r].pc \in {"unchanged", "list", "search"} \cup refreshAuditEvidence
                               \cup proposeAuditRevision
      BY <3>1, <3>a DEF StartCheck, Begin, NewRun
    <3>b. ASSUME StartFull(r)
          PROVE  run'[r].pc \in {"unchanged", "list", "search"} \cup refreshAuditEvidence
                               \cup proposeAuditRevision
      BY <3>1, <3>b DEF StartFull, Begin, NewRun
    <3>c. ASSUME SearchDocs(r)
          PROVE  run'[r].pc \in {"unchanged", "list", "search"} \cup refreshAuditEvidence
                               \cup proposeAuditRevision
      BY <3>1, <3>c DEF SearchDocs, End
    <3>d. ASSUME ProposeAudit(r)
          PROVE  run'[r].pc \in {"unchanged", "list", "search"} \cup refreshAuditEvidence
                               \cup proposeAuditRevision
      BY <3>1, <3>d DEF ProposeAudit, End, Contribute
    <3>2. run'[r].pc \in {"unchanged", "list", "search"} \cup refreshAuditEvidence
                          \cup proposeAuditRevision
      BY <1>1, <3>a, <3>b, <3>c, <3>d DEF Verify
    <3> QED BY <3>2 DEF refreshAuditEvidence, proposeAuditRevision, Requests
  <2> QED BY <2>1, <2>2, <2>3 DEF Undisturbed, underWay
<1>2. ASSUME NEW r \in Runs, Request(r)
      PROVE  Undisturbed' /\ (pr /\ pr' => branch' = branch)
  <2>1. run[r].pc \in Requests
    BY <1>2 DEF Request, ListPulls, ReadBase, CreateBranch, ResetBranch, ReadFile, PutFile,
                RelistPulls, OpenPull, LoseRequest, LoseResponse, LoseBody, ListUnread, BaseUnread,
                FileUnread, RelistUnread, OpenUnread, GiveUp, Refused, At, Requests, Writes
  <2>2. disturbed' = disturbed \/ disturbed' = TRUE \/ disturbed' = (disturbed \/ pr)
    BY <1>2 DEF Request, ListPulls, ReadBase, CreateBranch, ResetBranch, ReadFile, PutFile,
                RelistPulls, OpenPull, LoseRequest, LoseResponse, LoseBody, ListUnread, BaseUnread,
                FileUnread, RelistUnread, OpenUnread, GiveUp, Refused, Asked
  <2>3. Undisturbed /\ ~GiveUp(r) /\ (pr => ~ListUnread(r))
    BY <2>2 DEF GiveUp, ListUnread
  <2>4. underWay(r)
    BY <2>1 DEF underWay, Requests, Ended
  <2>5. /\ DOMAIN run' = Runs /\ DOMAIN run = Runs
        /\ \A q \in Runs \ {r} : run'[q] = run[q] /\ ~underWay(q)
    BY <1>2, <2>3, <2>4, RunStepsEarned DEF Undisturbed, ContributionsEarned
  <2>6. \A q \in Runs \ {r} : run'[q].pc \notin Requests
    BY <2>5 DEF underWay, Requests, Ended
  <2>7. late' = {}
    BY <1>2, <2>3 DEF Undisturbed, Request, ListPulls, ReadBase, CreateBranch, ResetBranch, ReadFile,
         PutFile, RelistPulls, OpenPull, LoseRequest, LoseResponse, LoseBody, ListUnread, BaseUnread,
         FileUnread, RelistUnread, OpenUnread, Refused, Asked
  <2>8. \A p, q \in Runs : underWay(p)' /\ underWay(q)' => p = q
    BY <2>5 DEF underWay
  <2>9. "pc" \in DOMAIN run[r]
    BY DEF ContributionsEarned, RunEarned, RunRecord
  <2>10. CASE pr
    <3>1. run[r].pc = "list"
      BY <2>1, <2>3, <2>10 DEF Undisturbed
    <3>2. ListPulls(r) \/ LoseRequest(r) \/ Refused(r)
      BY <1>2, <2>3, <2>10, <3>1 DEF Request, ReadBase, CreateBranch, ResetBranch, ReadFile, PutFile,
           RelistPulls, OpenPull, LoseResponse, LoseBody, BaseUnread, FileUnread, RelistUnread,
           OpenUnread, Writes, At
    <3>3. UNCHANGED <<branch, pr>>
      BY <3>2 DEF ListPulls, LoseRequest, Refused, Asked
    <3>4. run'[r].pc \in {"opened", "list", "failed", "skipped"}
      BY <2>5, <2>9, <2>10, <3>2
      DEF ListPulls, LoseRequest, Refused, Opened, Goto, Trouble, retried
    <3> QED BY <2>3, <2>6, <2>7, <2>8, <3>3, <3>4 DEF Undisturbed, Requests
  <2>11. CASE ~pr /\ pr'
    <3>1. Openable /\ branch' = branch /\ (OpenPull(r) \/ LoseResponse(r) \/ OpenUnread(r))
      BY <1>2, <2>3, <2>11 DEF Request, ListPulls, ReadBase, CreateBranch, ResetBranch, ReadFile,
           PutFile, RelistPulls, OpenPull, LoseRequest, LoseResponse, LoseBody, ListUnread,
           BaseUnread, FileUnread, RelistUnread, OpenUnread, Refused, Asked, Effect
    <3>2. run'[r].pc \in {"opened", "list", "failed", "skipped"}
      BY <2>5, <2>9, <3>1 DEF OpenPull, LoseResponse, OpenUnread, Opened, Goto, Trouble, retried, Unread
    <3> QED BY <2>6, <2>7, <2>8, <2>11, <3>1, <3>2 DEF Undisturbed, Requests, Openable
  <2>12. CASE ~pr'
    BY <2>7, <2>8, <2>12 DEF Undisturbed
  <2> QED BY <2>10, <2>11, <2>12
<1>3. CASE TakeEffect
  <2>1. disturbed' = disturbed /\ \E w \in late : TRUE
    BY <1>3 DEF TakeEffect
  <2> QED BY <2>1 DEF Undisturbed
<1>4. CASE Merge \/ Close \/ DeployAudit
  BY <1>4 DEF Merge, Close, DeployAudit, Undisturbed, underWay
<1>5. CASE UNCHANGED auditVars
  BY <1>5 DEF auditVars, Undisturbed, underWay
<1> QED BY <1>1, <1>2, <1>3, <1>4, <1>5 DEF AuditNext

\* Runs, branch, base branch and late writes keep the invariant (githubPr.ts,
\* runVerifyAudit.ts, auditEligibility.ts).
THEOREM AuditInvariant == AuditSpec => []AuditInv
<1>1. AuditInv /\ [AuditNext]_auditVars => AuditInv'
  BY StepEarned, StepUndisturbed DEF AuditInv
<1> QED BY <1>1, InitAudit, PTL DEF AuditSpec

\* What reaches the maintainers, and what they merge, was earned from the gates,
\* through any number of runs, lost, late and refused requests (auditEligibility.ts,
\* githubPr.ts).
THEOREM ContributionsAreEarned == AuditSpec => []AuditsEarned
<1>1. ASSUME AuditInv
      PROVE  AuditsEarned
  <2>1. ContributionsEarned /\ (~disturbed => Undisturbed)
    BY <1>1 DEF AuditInv
  <2>2. ContributionTypeOK
    <3> SUFFICES ASSUME NEW r \in Runs
                 PROVE  /\ run[r].pc \in Stages /\ run[r].attempts \in 0..MaxAuditAttempts
                        /\ run[r].pc \in Requests => settled(run[r].audit)
      BY <2>1 DEF ContributionTypeOK, ContributionsEarned, BranchEarned, Stages
    <3>1. RunEarned(run[r])
      BY <2>1 DEF ContributionsEarned
    <3> QED BY <3>1 DEF RunEarned, RunRecord, Earned
  <2>3. VerifiedIsEligible /\ MergedIsSettled
    BY <2>1 DEF VerifiedIsEligible, MergedIsSettled, ContributionsEarned, BranchEarned, Earned, Bases
  <2>4. PullCarriesAudit
    BY <2>1, AuditInputs DEF PullCarriesAudit, ContributionsEarned, Undisturbed, BranchEarned, Earned
  <2> QED BY <2>2, <2>3, <2>4 DEF AuditsEarned
<1> QED BY <1>1, AuditInvariant, PTL

\* What is under review stays as it was opened, while runs come one after another,
\* nothing takes effect late and every list of pull requests is read (githubPr.ts).
THEOREM ReviewIsUndisturbed == AuditSpec => UnderReviewStays
<1>1. AuditInv /\ AuditInv' /\ [AuditNext]_auditVars
        => [~disturbed' /\ pr /\ pr' => branch' = branch]_auditVars
  BY StepUndisturbed DEF AuditInv
<1> QED BY <1>1, AuditInvariant, PTL DEF AuditSpec, UnderReviewStays
==============================================================================
