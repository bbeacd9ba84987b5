-------------------------------- MODULE MCAtlas --------------------------------
(* The Atlas behind its web server: the submissions a process remembers, the   *)
(* drafts and seeds that reach its visitors, the audits that reach its         *)
(* maintainers, and the links from gates to reasons.  Postgres, GitHub and     *)
(* Render are shared, but these parts touch none of each other's state: a      *)
(* behaviour exercises one of them; part says which.                           *)
EXTENDS SubmissionMemory, AtlasDrafts, AuditContribution, BlockerLinking, TLC

CONSTANTS h1, h2, i1, i2, p1, p2, l1, l2, r1, r2, t1, t2

VARIABLE part
--------------------------------------------------------------------------------
\* Audits: a sound one, one that lacks its counts, and a guess.
Audit(status, counts, fails, open) ==
  [status |-> status, counts |-> counts, fails |-> fails, open |-> open]
MCProposals == {Audit("verified", "right", {}, {}), Audit("blocked", "none", {}, {}),
                Audit("verified", "wrong", {"route"}, {})}
\* No file, and a published audit with an open question.
MCFiles == {None, Audit("verified", "right", {}, {Gate("field")})}

\* Answers of the linking model: a plain one, another, a repeated id, an
\* invented one, and too many.
MCModelOf == [t \in Tasks |-> "m"]
MCLinkAnswers == {<<"q1">>, <<"q2">>, <<"q1", "q1">>, <<"q9", "q2">>, <<"q1", "q2">>}
--------------------------------------------------------------------------------
NoLookups == query = [q \in Lookups |-> NoQuery]

otherThanMemory == <<part, draftsVars, auditVars, linkVars>>
otherThanDrafts == <<part, memoryVars, auditVars, linkVars>>

Init ==
  /\ part \in {"research", "verify", "polls", "deploys", "lookups", "audits", "links"}
  /\ MemoryInit /\ DraftsInit /\ AuditInit /\ LinkInit
  /\ part # "audits" => base.audit = None
  /\ deployed \in IF part = "lookups" THEN {1, 3} ELSE {1}
  /\ part # "links" => catalog = Reasons

Next ==
  \/ part = "research" /\ MemoryNext /\ slots' = <<>> /\ UNCHANGED otherThanMemory
  \/ part = "verify" /\ MemoryNext /\ memory'["research"] = NoEntry /\ UNCHANGED otherThanMemory
  \* Two polls of one run with a draft, at instances of which one stays up.
  \/ part = "polls" /\ DraftsNext /\ seed' = SeedIdle
     /\ researchRuns' < 2 /\ outcome'[1] \in {"none", "draft"} /\ (snap[i2].up => snap'[i2].up)
     /\ poll'[p1].inst # i2 /\ poll'[p2].inst # i1 /\ NoLookups' /\ UNCHANGED otherThanDrafts
  \* One instance, one poll at a time, two runs or a run and a deploy.
  \/ part = "deploys" /\ DraftsNext /\ snap'[i2] = NoSnapshot(1)
     /\ poll'[p2] = IdlePoll /\ (researchRuns' < 2 \/ (deployed' = 1 /\ seed' = SeedIdle))
     /\ seed'.deploy < 3 /\ NoLookups' /\ UNCHANGED otherThanDrafts
  \* One instance, one poll of a run with a draft, and a request that looks the
  \* platform up; beside a search, if the platform is not in the corpus.
  \/ part = "lookups" /\ DraftsNext /\ seed' = SeedIdle /\ snap'[i2] = snap[i2]
     /\ poll'[p2] = IdlePoll /\ researchRuns' < 2 /\ outcome'[1] \in {"none", "draft"}
     /\ query'[l2].pc \in {"idle"} \cup (IF deployed = 1 THEN {"search"} ELSE {})
     /\ claim'.run >= claim.run /\ UNCHANGED otherThanDrafts
  \* One trouble; only a run that starts reads what was deployed.
  \/ part = "audits" /\ AuditNext /\ run'[r1].trouble + run'[r2].trouble < 2
     /\ (copy' # copy => rounds < MaxRounds) /\ UNCHANGED <<part, memoryVars, draftsVars, linkVars>>
  \* A replaced draft or a changed label; missing reasons are added beside both.
  \/ part = "links" /\ LinkNext /\ draft' + relabels' < 2 /\ UNCHANGED <<part, memoryVars, draftsVars, auditVars>>

\* Whichever part moves, it keeps the SubmissionsBounded, DraftsStored,
\* AuditsEarned or LinksExact of its module; the parts at rest satisfy theirs.
Spec == Init /\ [][Next]_<<part, memoryVars, draftsVars, auditVars, linkVars>>
================================================================================
