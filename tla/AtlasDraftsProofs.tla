-------------------------- MODULE AtlasDraftsProofs --------------------------
(***************************************************************************)
(* Proofs, for any instances, polls, research runs and deploys, that a     *)
(* completed claim has its rows, that an undisturbed persist is whole,     *)
(* that a draft outlives deploys, and that an instance that no late load   *)
(* has set back draws the route of the record that it serves.              *)
(***************************************************************************)
EXTENDS AtlasDrafts, TLAPS

------------------------------------------------------------------------------
(* The inductive invariant                                                 *)

\* The drafts of the runs that were started, and every document a row may hold.
Drafts == {Draft(r) : r \in 1..researchRuns}
Known == {Missing} \cup {Corpus(v) : v \in InCorpus} \cup Drafts

\* The rows, the claim, and their columns.
Rows ==
  [record : Known, draft : {Missing} \cup Drafts, metric : Known, steps : Known,
   gates : Seq(Known \ {Missing}), audit : Known]

Claims == [status : {"none", "pending", "completed", "failed"}, run : 0..MaxResearchRuns]

\* The stages of a poll, and those that follow its writes of the metric row and
\* of the audit.
PastAudit == {"readMeta", "writeMeta", "ingest", "claimSlug", "claimRun"}
PastMetric == {"dropSteps", "addSteps", "dropGates", "addGates", "audit"} \cup PastAudit
PollStages == {"idle", "platform", "metric"} \cup PastMetric

\* A poll and the stage it is at.
PollRecord ==
  [pc : PollStages, run : 0..researchRuns, inst : Instances \cup {"none"}, meta : 0..MaxDeploys]

\* What a poll has written is still there, its own or somebody's.
PollSound(q) ==
  /\ q \in PollRecord
  /\ q.pc # "idle" => q.run # 0 /\ q.inst \in Instances
  /\ q.pc = "writeMeta" => q.meta # 0
  /\ q.pc \notin {"idle", "platform"} => db.draft # Missing
  /\ q.pc \in PastMetric => db.metric # Missing
  /\ q.pc \in PastAudit => db.audit # Missing

\* What a poll that nobody disturbed has written is its own.
WholeSoFar(q) ==
  LET d == Draft(q.run)
  IN  /\ q.pc \notin {"idle", "platform"} => db.draft = d
      /\ q.pc \in PastMetric => db.metric = d
      /\ q.pc = "addSteps" => db.steps = Missing
      /\ q.pc \in PastMetric \ {"dropSteps", "addSteps"} => db.steps = d
      /\ q.pc = "addGates" => db.gates = <<>>
      /\ q.pc \in {"audit"} \cup PastAudit => db.gates = <<d>>
      /\ q.pc \in PastAudit => db.audit = d

\* The seed, and what an instance holds in memory.
Seeds == [pc : {"idle", "platform", "meta"} \cup Statements, deploy : 0..MaxDeploys]

Snapshots ==
  [up : BOOLEAN, deploy : 1..MaxDeploys, row : Known, record : Known, audit : Known,
   graph : {Missing} \cup Drafts \cup {Graph(v) : v \in Reviewed},
   toLoad : SUBSET {"metric", "platform", "audit"}, behind : BOOLEAN]

\* What a request has read of the platform.
Queries ==
  [pc : {"idle", "visit", "search"}, inst : Instances \cup {"none"}, row : Known, record : Known,
   audit : Known, toLoad : SUBSET {"metric", "audit"}, overtaken : BOOLEAN]

\* An instance that serves draws the route of its record unless a late load set
\* it back, and has taken nothing in that Postgres does not have.
SnapshotSound(s) ==
  /\ s \in Snapshots
  /\ s.audit # Missing => db.audit # Missing
  /\ s.graph.kind = "draft" \/ s.record.kind = "draft" => db.draft # Missing
  /\ s.up => (s.deploy \in Reviewed <=> s.graph.kind = "reviewed")
  /\ s.up /\ s.deploy \in Reviewed => s.graph = Graph(s.deploy)
  /\ s.behind => s.up
  /\ s.up /\ s.deploy \notin Reviewed /\ s.audit # Missing /\ ~s.behind =>
       s.graph = IF s.record.kind = "draft" THEN s.record ELSE Missing

\* A request has read nothing that Postgres does not have.
QuerySound(q) ==
  /\ q \in Queries
  /\ q.pc # "idle" => q.inst \in Instances
  /\ q.record.kind = "draft" => db.draft # Missing
  /\ q.audit # Missing => db.audit # Missing

\* A request that nothing has overtaken reads no less than its instance holds.
QueryFits(q, s) ==
  /\ s.up
  /\ ~q.overtaken =>
       /\ s.graph.kind = "draft" => q.record.kind = "draft"
       /\ "audit" \notin q.toLoad /\ s.audit # Missing => q.audit # Missing

QueriesSound ==
  /\ DOMAIN query = Lookups
  /\ \A l \in Lookups :
       QuerySound(query[l]) /\ (query[l].pc # "idle" => QueryFits(query[l], snap[query[l].inst]))

\* The completed claim of a run with a draft has everything a visit needs, and a
\* platform is recorded from a draft only when it has one.
RowsSound ==
  /\ db \in Rows /\ claim \in Claims /\ claim.run <= researchRuns
  /\ meta \in 1..MaxDeploys /\ deployed \in 1..MaxDeploys /\ researchRuns \in 0..MaxResearchRuns
  /\ db.record.kind = "draft" => db.draft # Missing
  /\ claim.status = "none" => claim.run = 0
  /\ claim.status = "completed" =>
       outcome[claim.run] = "known"
         \/ (db.draft # Missing /\ db.metric # Missing /\ db.audit # Missing)

\* A seed under way writes the record of a deploy whose corpus has one.
SeedSound ==
  /\ seed \in Seeds
  /\ seed.pc # "idle" => seed.deploy # 0
  /\ seed.pc \in {"platform"} \cup Statements => seed.deploy \in InCorpus

\* All of it, and a poll that nobody disturbed has no seed beside it.
DraftsInv ==
  /\ RowsSound /\ SeedSound
  /\ DOMAIN poll = Pollers /\ \A p \in Pollers : PollSound(poll[p])
  /\ DOMAIN snap = Instances /\ \A i \in Instances : SnapshotSound(snap[i])
  /\ QueriesSound
  /\ alone \in [Pollers -> BOOLEAN]
  /\ \A p \in Pollers :
       alone[p] /\ poll[p].pc # "idle" => seed.pc = "idle" /\ WholeSoFar(poll[p])

------------------------------------------------------------------------------
(* Documents and statements                                                *)

\* Nothing that was written goes missing, and no run is forgotten.
Grows ==
  /\ researchRuns \in Nat /\ researchRuns' \in Nat /\ researchRuns <= researchRuns'
  /\ db.draft # Missing => db'.draft # Missing
  /\ db.metric # Missing => db'.metric # Missing
  /\ db.audit # Missing => db'.audit # Missing
  /\ db'.record.kind = "draft" => db'.draft # Missing

\* Documents of different kinds differ, and none of them is Missing.
LEMMA Documents ==
  /\ Missing.kind = "none"
  /\ \A r : Draft(r).kind = "draft" /\ Draft(r) # Missing
  /\ \A v : Corpus(v).kind = "corpus" /\ Corpus(v) # Missing
  /\ \A v : Graph(v).kind = "reviewed" /\ Graph(v) # Missing
<1> QED BY DEF Missing, Draft, Corpus, Graph

\* The statements by name.
LEMMA Statement ==
  Statements = {"metric", "dropSteps", "addSteps", "dropGates", "addGates", "audit"}
<1>1. /\ Rest[1] = "metric" /\ Rest[2] = "dropSteps" /\ Rest[3] = "addSteps"
      /\ Rest[4] = "dropGates" /\ Rest[5] = "addGates" /\ Rest[6] = "audit"
  BY DEF Rest
<1>2. 1..6 = {1, 2, 3, 4, 5, 6}
  OBVIOUS
<1> QED BY <1>1, <1>2 DEF Statements

\* The statements follow each other, and last follows the audit.
LEMMA StatementOrder ==
  ASSUME NEW last
  PROVE  /\ NextStatement("metric", last) = "dropSteps"
         /\ NextStatement("dropSteps", last) = "addSteps"
         /\ NextStatement("addSteps", last) = "dropGates"
         /\ NextStatement("dropGates", last) = "addGates"
         /\ NextStatement("addGates", last) = "audit"
         /\ NextStatement("audit", last) = last
<1>1. /\ Rest[1] = "metric" /\ Rest[2] = "dropSteps" /\ Rest[3] = "addSteps"
      /\ Rest[4] = "dropGates" /\ Rest[5] = "addGates" /\ Rest[6] = "audit"
  BY DEF Rest
<1>2. 1..6 = {1, 2, 3, 4, 5, 6}
  OBVIOUS
<1>3. ASSUME NEW k \in 1..6
      PROVE  (CHOOSE n \in 1..6 : Rest[n] = Rest[k]) = k
  <2>1. \A n \in 1..6 : Rest[n] = Rest[k] => n = k
    BY <1>1, <1>2
  <2> QED BY <2>1
<1>4. \A k \in 1..6 : NextStatement(Rest[k], last) = IF k = 6 THEN last ELSE Rest[k + 1]
  <2> SUFFICES ASSUME NEW k \in 1..6
               PROVE  NextStatement(Rest[k], last) = IF k = 6 THEN last ELSE Rest[k + 1]
    OBVIOUS
  <2> DEFINE c == CHOOSE n \in 1..6 : Rest[n] = Rest[k]
  <2>1. c = k
    BY <1>3
  <2>2. NextStatement(Rest[k], last) = IF c = 6 THEN last ELSE Rest[c + 1]
    BY DEF NextStatement
  <2> HIDE DEF c
  <2> QED BY <2>1, <2>2
<1> QED BY <1>1, <1>2, <1>4

\* While no run is started, the known documents are the same.
LEMMA SameTypes ==
  ASSUME researchRuns' = researchRuns
  PROVE  /\ Drafts' = Drafts /\ Known' = Known /\ Rows' = Rows
         /\ PollRecord' = PollRecord /\ Snapshots' = Snapshots
  BY DEF Drafts, Known, Rows, PollRecord, Snapshots

\* A request that looks the platform up changes only what is in memory.
LEMMA LookupFrame ==
  ASSUME NEW l \in Lookups, Lookup(l)
  PROVE  UNCHANGED <<db, meta, claim, researchRuns, outcome, poll, seed, deployed, alone>>
BY DEF Lookup, Visit, Search, Ask, ReadRelated, TakeIn, PassOver, stored, researchVars

\* A run that ends without a draft changes only the claim.
LEMMA RunEndsFrame ==
  ASSUME NEW r \in 1..MaxResearchRuns, RunEnds(r)
  PROVE  UNCHANGED <<db, meta, researchRuns, outcome, poll, seed, deployed, snap, query, alone>>
BY DEF RunEnds, CompleteWithoutDraft, FailRun, researchVars, servingVars

\* A run that is started adds its draft and takes none away.
LEMMA MoreKnown ==
  ASSUME researchRuns \in Nat, researchRuns' \in Nat, researchRuns <= researchRuns'
  PROVE  /\ Drafts \subseteq Drafts' /\ Known \subseteq Known'
         /\ 0..researchRuns \subseteq 0..researchRuns'
<1>1. 1..researchRuns \subseteq 1..researchRuns' /\ 0..researchRuns \subseteq 0..researchRuns'
  OBVIOUS
<1> QED BY <1>1 DEF Drafts, Known

\* A statement that writes a document d keeps the rows and forgets nothing.
LEMMA AfterKeeps ==
  ASSUME db \in Rows, NEW pc \in Statements, NEW d \in Known \ {Missing}
  PROVE  /\ After(pc, d) \in Rows /\ After(pc, d).draft = db.draft
         /\ After(pc, d).record = db.record
         /\ After(pc, d).metric = IF pc = "metric" THEN d ELSE db.metric
         /\ After(pc, d).audit = IF pc = "audit" THEN d ELSE db.audit
         /\ After(pc, d).steps = IF pc = "dropSteps" THEN Missing
                                 ELSE IF pc = "addSteps" THEN d ELSE db.steps
         /\ After(pc, d).gates = IF pc = "dropGates" THEN <<>>
                                 ELSE IF pc = "addGates" THEN Append(db.gates, d) ELSE db.gates
<1>1. Missing \in Known
  BY DEF Known
<1> PICK b \in Rows : b = db
  OBVIOUS
<1>2. CASE pc = "metric"
  BY <1>2 DEF After, Rows
<1>3. CASE pc = "dropSteps"
  <2>1. After(pc, d) = [b EXCEPT !.steps = Missing]
    BY <1>3 DEF After
  <2> QED BY <1>1, <1>3, <2>1 DEF Rows
<1>4. CASE pc = "addSteps"
  BY <1>4 DEF After, Rows
<1>5. CASE pc = "dropGates"
  <2>1. <<>> \in Seq(Known \ {Missing}) /\ After(pc, d) = [b EXCEPT !.gates = <<>>]
    BY <1>5 DEF After
  <2> QED BY <1>5, <2>1 DEF Rows
<1>6. CASE pc = "addGates"
  <2>1. Append(b.gates, d) \in Seq(Known \ {Missing})
    BY DEF Rows
  <2> QED BY <1>6, <2>1 DEF After, Rows
<1>7. CASE pc = "audit"
  BY <1>7 DEF After, Rows
<1> QED BY <1>2, <1>3, <1>4, <1>5, <1>6, <1>7, Statement

------------------------------------------------------------------------------
(* What polls, seeds and instances write                                   *)

\* What a poll that is under way writes, and where.
LEMMA PollFacts ==
  ASSUME DraftsInv, NEW p \in Pollers
  PROVE  /\ poll[p] \in PollRecord /\ DOMAIN poll = Pollers /\ PollSound(poll[p])
         /\ poll[p].pc # "idle" => Draft(poll[p].run) \in Drafts /\ poll[p].inst \in Instances
         /\ Drafts \subseteq Known \ {Missing}
<1>1. DOMAIN poll = Pollers /\ PollSound(poll[p])
  BY DEF DraftsInv
<1>2. poll[p] \in PollRecord
  BY <1>1 DEF PollSound
<1>3. researchRuns \in Nat
  BY DraftLimits DEF DraftsInv, RowsSound
<1>4. poll[p].pc # "idle" => poll[p].run \in 1..researchRuns
  BY <1>1, <1>2, <1>3 DEF PollSound, PollRecord
<1>5. Drafts \subseteq Known \ {Missing}
  BY Documents DEF Drafts, Known
<1> QED BY <1>1, <1>2, <1>4, <1>5 DEF PollSound, Drafts

\* Only the statements of polls and seeds change the rows; they forget nothing.
LEMMA RowsStep ==
  ASSUME DraftsInv, [DraftsNext]_draftsVars
  PROVE  Grows /\ db' \in Rows' /\ researchRuns' \in 0..MaxResearchRuns
<1>1. /\ db \in Rows /\ researchRuns \in 0..MaxResearchRuns /\ MaxResearchRuns \in Nat
      /\ researchRuns \in Nat /\ (db.record.kind = "draft" => db.draft # Missing)
  BY DraftLimits DEF DraftsInv, RowsSound
<1> PICK b \in Rows : b = db
  BY <1>1
<1>2. CASE UNCHANGED <<db, researchRuns>>
  BY <1>1, <1>2, SameTypes DEF Grows
<1>3. ASSUME NEW p \in Pollers, PersistPlatform(p)
      PROVE  Grows /\ db' \in Rows' /\ researchRuns' \in 0..MaxResearchRuns
  <2> DEFINE d == Draft(poll[p].run)
  <2>1. d \in Drafts /\ d \in Known /\ d # Missing
    BY <1>3, PollFacts, Documents DEF PersistPlatform
  <2>2. /\ db' = [b EXCEPT !.record = IF b.record = Missing THEN d ELSE b.record, !.draft = d]
        /\ researchRuns' = researchRuns
    BY <1>3 DEF PersistPlatform, withPlatformOfDraft, researchVars
  <2> HIDE DEF d
  <2>3. db' \in Rows /\ db'.draft = d /\ db'.metric = b.metric /\ db'.audit = b.audit
    BY <2>1, <2>2 DEF Rows
  <2> QED BY <1>1, <2>1, <2>2, <2>3, SameTypes DEF Grows
<1>4. ASSUME NEW pc \in Statements, NEW d \in Known \ {Missing}, db' = After(pc, d),
             researchRuns' = researchRuns
      PROVE  Grows /\ db' \in Rows' /\ researchRuns' \in 0..MaxResearchRuns
  <2>1. db' \in Rows /\ db'.draft = db.draft /\ db'.record = db.record
        /\ (db.metric # Missing => db'.metric # Missing)
        /\ (db.audit # Missing => db'.audit # Missing)
    BY <1>1, <1>4, AfterKeeps
  <2> QED BY <1>1, <1>4, <2>1, SameTypes DEF Grows
<1>5. ASSUME NEW p \in Pollers, PersistStatement(p)
      PROVE  Grows /\ db' \in Rows' /\ researchRuns' \in 0..MaxResearchRuns
  <2>1. /\ poll[p].pc \in Statements /\ db' = After(poll[p].pc, Draft(poll[p].run))
        /\ researchRuns' = researchRuns
    BY <1>5 DEF PersistStatement, researchVars
  <2>2. Draft(poll[p].run) \in Known \ {Missing}
    BY <2>1, PollFacts, Statement
  <2> QED BY <1>4, <2>1, <2>2
<1>6. CASE SeedPlatform
  <2>1. seed.deploy \in InCorpus
    BY <1>6 DEF SeedPlatform, DraftsInv, SeedSound
  <2>2. Corpus(seed.deploy) \in Known
    BY <2>1 DEF Known
  <2>3. db' = [b EXCEPT !.record = Corpus(seed.deploy)] /\ researchRuns' = researchRuns
    BY <1>6 DEF SeedPlatform, withPlatformOfSeed, researchVars
  <2>4. db' \in Rows /\ db'.draft = b.draft /\ db'.metric = b.metric /\ db'.audit = b.audit
        /\ db'.record = Corpus(seed.deploy)
    BY <2>2, <2>3 DEF Rows
  <2> QED BY <1>1, <2>3, <2>4, SameTypes, Documents DEF Grows
<1>7. CASE SeedStatement
  <2>1. /\ seed.pc \in Statements /\ db' = After(seed.pc, Corpus(seed.deploy))
        /\ researchRuns' = researchRuns
    BY <1>7 DEF SeedStatement, researchVars
  <2>2. Corpus(seed.deploy) \in Known \ {Missing}
    BY <2>1, Documents DEF DraftsInv, SeedSound, Known
  <2> QED BY <1>4, <2>1, <2>2
<1>8. ASSUME NEW i \in Instances, StartRun(i)
      PROVE  Grows /\ db' \in Rows' /\ researchRuns' \in 0..MaxResearchRuns
  <2>1. db' = db /\ researchRuns' = researchRuns + 1 /\ researchRuns < MaxResearchRuns
    BY <1>8 DEF StartRun
  <2>2. researchRuns' \in Nat /\ researchRuns <= researchRuns'
        /\ researchRuns' \in 0..MaxResearchRuns
    BY <1>1, <2>1
  <2>3. Drafts \subseteq Drafts' /\ Known \subseteq Known'
    BY <1>1, <2>2, MoreKnown
  <2>4. Seq(Known \ {Missing}) \subseteq Seq(Known' \ {Missing})
    BY <2>3
  <2>5. db' \in Rows'
    BY <1>1, <2>1, <2>3, <2>4 DEF Rows
  <2> QED BY <1>1, <2>1, <2>2, <2>5 DEF Grows
<1>9. ASSUME NEW p \in Pollers, Persist(p), ~PersistPlatform(p), ~PersistStatement(p)
      PROVE  UNCHANGED <<db, researchRuns>>
  BY <1>9 DEF Persist, BeginPersist, PersistClash, ReadMeta, WriteMeta, Ingest, CompleteBySlug,
              CompleteByRun, PersistFails, stored, researchVars
<1>10. ASSUME Deploy, ~SeedPlatform, ~SeedStatement
       PROVE  UNCHANGED <<db, researchRuns>>
  BY <1>10 DEF Deploy, BeginSeed, SeedFails, SeedMeta, stored, researchVars
<1>11. ASSUME NEW i \in Instances, Instance(i), ~StartRun(i)
       PROVE  UNCHANGED <<db, researchRuns>>
  BY <1>11 DEF Instance, Restart, LoadTable, Serve, stored, researchVars
<1>12. CleanupClaims \/ UNCHANGED draftsVars => UNCHANGED <<db, researchRuns>>
  BY DEF CleanupClaims, draftsVars, researchVars
<1>13. (\E l \in Lookups : Lookup(l)) \/ (\E r \in 1..MaxResearchRuns : RunEnds(r))
         => UNCHANGED <<db, researchRuns>>
  BY LookupFrame, RunEndsFrame
<1> QED
  BY <1>2, <1>3, <1>5, <1>6, <1>7, <1>8, <1>9, <1>10, <1>11, <1>12, <1>13 DEF DraftsNext

\* The claim is completed only by a poll that has stored everything, or for a
\* run that brings no draft.
LEMMA ClaimStep ==
  ASSUME DraftsInv, [DraftsNext]_draftsVars
  PROVE  RowsSound'
<1>1. /\ RowsSound /\ SeedSound /\ Grows /\ db' \in Rows'
      /\ researchRuns' \in 0..MaxResearchRuns
  BY RowsStep DEF DraftsInv
<1> PICK c \in Claims : c = claim
  BY <1>1 DEF RowsSound
<1>2. CASE UNCHANGED <<claim, outcome>>
  <2>1. meta' \in 1..MaxDeploys /\ deployed' \in 1..MaxDeploys
    <3>1. CASE UNCHANGED <<meta, deployed>>
      BY <1>1, <3>1 DEF RowsSound
    <3>2. CASE \E p \in Pollers : WriteMeta(p)
      BY <1>1, <3>2 DEF WriteMeta, RowsSound, DraftsInv, PollSound, PollRecord
    <3>3. CASE SeedMeta
      BY <1>1, <3>3 DEF SeedMeta, RowsSound, SeedSound, Seeds
    <3>4. ASSUME NEW p \in Pollers, Persist(p), ~WriteMeta(p)
          PROVE  UNCHANGED <<meta, deployed>>
      BY <3>4 DEF Persist, BeginPersist, PersistPlatform, PersistStatement, PersistClash, ReadMeta,
           Ingest, CompleteBySlug, CompleteByRun, PersistFails, stored, researchVars
    <3>5. ASSUME Deploy, ~SeedMeta
          PROVE  UNCHANGED <<meta, deployed>>
      BY <3>5 DEF Deploy, BeginSeed, SeedPlatform, SeedStatement, SeedFails, stored, researchVars
    <3>6. ASSUME NEW i \in Instances, Instance(i)
          PROVE  UNCHANGED <<meta, deployed>>
      BY <3>6 DEF Instance, Restart, LoadTable, Serve, StartRun, stored, researchVars
    <3>7. CleanupClaims \/ UNCHANGED draftsVars => UNCHANGED <<meta, deployed>>
      BY DEF CleanupClaims, draftsVars
    <3>8. (\E l \in Lookups : Lookup(l)) \/ (\E r \in 1..MaxResearchRuns : RunEnds(r))
            => UNCHANGED <<meta, deployed>>
      BY LookupFrame, RunEndsFrame
    <3> QED BY <3>1, <3>2, <3>3, <3>4, <3>5, <3>6, <3>7, <3>8 DEF DraftsNext
  <2>2. c.run <= researchRuns'
    BY <1>1, DraftLimits DEF RowsSound, Grows, Claims
  <2> QED BY <1>1, <1>2, <2>1, <2>2 DEF RowsSound, Grows
<1>3. ASSUME NEW p \in Pollers, CompleteBySlug(p)
      PROVE  RowsSound'
  <2>1. /\ poll[p].pc = "claimSlug" /\ UNCHANGED <<db, meta, researchRuns, deployed>>
        /\ claim' = [c EXCEPT !.status = IF c.status = "none" THEN c.status ELSE "completed"]
    BY <1>3 DEF CompleteBySlug, researchVars
  <2>2. claim' \in Claims /\ claim'.run = c.run /\ (claim'.status = "none" => c.status = "none")
    BY <2>1 DEF Claims
  <2>3. db.draft # Missing /\ db.metric # Missing /\ db.audit # Missing
    BY <2>1 DEF DraftsInv, PollSound, PastMetric, PastAudit
  <2> QED BY <1>1, <2>1, <2>2, <2>3 DEF RowsSound
<1>4. ASSUME NEW p \in Pollers, CompleteByRun(p)
      PROVE  RowsSound'
  <2>1. /\ poll[p].pc = "claimRun" /\ UNCHANGED <<db, meta, researchRuns, deployed>>
        /\ claim' = IF c.run = poll[p].run THEN [c EXCEPT !.status = "completed"] ELSE c
    BY <1>4 DEF CompleteByRun, researchVars
  <2>2. claim' \in Claims /\ claim'.run = c.run
        /\ (claim'.status = "none" => c.status = "none")
    BY <2>1 DEF Claims
  <2>3. db.draft # Missing /\ db.metric # Missing /\ db.audit # Missing
    BY <2>1 DEF DraftsInv, PollSound, PastMetric, PastAudit
  <2> QED BY <1>1, <2>1, <2>2, <2>3 DEF RowsSound
<1>5. ASSUME NEW i \in Instances, StartRun(i)
      PROVE  RowsSound'
  <2>1. /\ UNCHANGED <<db, meta, deployed>> /\ researchRuns' = researchRuns + 1
        /\ claim' = [status |-> "pending", run |-> researchRuns + 1]
    BY <1>5 DEF StartRun
  <2>2. researchRuns + 1 \in 0..MaxResearchRuns /\ researchRuns + 1 <= researchRuns + 1
    BY <1>1, <2>1
  <2>3. claim' \in Claims /\ claim'.status = "pending" /\ claim'.run <= researchRuns'
    BY <2>1, <2>2 DEF Claims
  <2> QED BY <1>1, <2>1, <2>3 DEF RowsSound
<1>6. CASE CleanupClaims
  <2>1. /\ UNCHANGED <<db, meta, researchRuns, deployed>>
        /\ claim' = [status |-> "none", run |-> 0]
    BY <1>6 DEF CleanupClaims, researchVars
  <2>2. MaxResearchRuns \in Nat /\ 0 \in 0..MaxResearchRuns /\ 0 <= researchRuns
    BY <1>1, DraftLimits DEF RowsSound
  <2>3. claim' \in Claims /\ claim'.status = "none" /\ claim'.run = 0
    BY <2>1, <2>2 DEF Claims
  <2> QED BY <1>1, <2>1, <2>2, <2>3 DEF RowsSound
<1>7. ASSUME NEW p \in Pollers, Persist(p), ~CompleteBySlug(p), ~CompleteByRun(p)
      PROVE  UNCHANGED <<claim, outcome>>
  BY <1>7 DEF Persist, BeginPersist, PersistPlatform, PersistStatement, PersistClash, ReadMeta,
       WriteMeta, Ingest, PersistFails, stored, researchVars
<1>8. ASSUME Deploy
      PROVE  UNCHANGED <<claim, outcome>>
  BY <1>8 DEF Deploy, BeginSeed, SeedPlatform, SeedStatement, SeedFails, SeedMeta, stored, researchVars
<1>9. ASSUME NEW i \in Instances, Instance(i), ~StartRun(i)
      PROVE  UNCHANGED <<claim, outcome>>
  BY <1>9 DEF Instance, Restart, LoadTable, Serve, stored, researchVars
<1>10. (\E l \in Lookups : Lookup(l)) \/ UNCHANGED draftsVars => UNCHANGED <<claim, outcome>>
  BY LookupFrame DEF draftsVars
<1>11. ASSUME NEW r \in 1..MaxResearchRuns, RunEnds(r)
       PROVE  RowsSound'
  <2>1. /\ UNCHANGED <<db, meta, researchRuns, outcome, deployed>>
        /\ \/ claim' = [c EXCEPT !.status = "completed"] /\ c.run = r /\ outcome[r] = "known"
           \/ claim' = [c EXCEPT !.status = "failed"] /\ c.run = r
    BY <1>11, RunEndsFrame DEF RunEnds, CompleteWithoutDraft, FailRun
  <2>2. /\ claim' \in Claims /\ claim'.run = c.run /\ claim'.status # "none"
        /\ claim'.status = "completed" => outcome'[claim'.run] = "known"
    BY <2>1 DEF Claims
  <2> QED BY <1>1, <2>1, <2>2 DEF RowsSound
<1> QED
  BY <1>2, <1>3, <1>4, <1>5, <1>6, <1>7, <1>8, <1>9, <1>10, <1>11 DEF DraftsNext

\* A seed begins for the next deploy and ends; nothing else moves it.
LEMMA SeedStep ==
  ASSUME DraftsInv, [DraftsNext]_draftsVars
  PROVE  SeedSound'
<1>1. SeedSound /\ deployed \in 1..MaxDeploys /\ MaxDeploys \in Nat \ {0}
  BY DraftLimits DEF DraftsInv, RowsSound
<1> PICK s \in Seeds : s = seed
  BY <1>1 DEF SeedSound
<1>2. CASE UNCHANGED seed
  BY <1>1, <1>2 DEF SeedSound
<1>3. CASE BeginSeed
  <2> DEFINE pc == IF deployed + 1 \in InCorpus /\ ~leftAlone THEN "platform" ELSE "meta"
  <2>1. seed' = [pc |-> pc, deploy |-> deployed + 1] /\ deployed < MaxDeploys
    BY <1>3 DEF BeginSeed
  <2>2. deployed + 1 \in 0..MaxDeploys /\ deployed + 1 # 0
    BY <1>1, <2>1
  <2>3. pc \in {"platform", "meta"} /\ (pc = "platform" => deployed + 1 \in InCorpus)
    OBVIOUS
  <2> HIDE DEF pc
  <2> QED BY <2>1, <2>2, <2>3, Statement DEF SeedSound, Seeds
<1>4. ASSUME NEW pc \in {"meta"} \cup Statements, seed' = [seed EXCEPT !.pc = pc],
             s.pc \in {"platform"} \cup Statements
      PROVE  SeedSound'
  <2>1. seed' \in Seeds /\ seed'.pc = pc /\ seed'.deploy = s.deploy
    BY <1>4 DEF Seeds
  <2>2. s.deploy # 0 /\ s.deploy \in InCorpus
    BY <1>1, <1>4, Statement DEF SeedSound
  <2> QED BY <2>1, <2>2 DEF SeedSound
<1>5. CASE SeedPlatform
  BY <1>4, <1>5, Statement DEF SeedPlatform, SeedGoto
<1>6. CASE SeedStatement
  <2>1. NextStatement(s.pc, "meta") \in {"meta"} \cup Statements
    BY <1>6, Statement, StatementOrder DEF SeedStatement
  <2> QED BY <1>4, <1>6, <2>1 DEF SeedStatement, SeedGoto
<1>7. CASE SeedFails \/ SeedMeta
  <2>1. seed' = SeedIdle
    BY <1>7 DEF SeedFails, SeedMeta
  <2>2. 0 \in 0..MaxDeploys
    BY <1>1
  <2>3. SeedIdle \in Seeds /\ SeedIdle.pc = "idle"
    BY <2>2 DEF SeedIdle, Seeds
  <2> QED BY <2>1, <2>3, Statement DEF SeedSound
<1>8. ASSUME NEW p \in Pollers, Persist(p)
      PROVE  UNCHANGED seed
  BY <1>8 DEF Persist, BeginPersist, PersistPlatform, PersistStatement, PersistClash, ReadMeta,
       WriteMeta, Ingest, CompleteBySlug, CompleteByRun, PersistFails
<1>9. ASSUME NEW i \in Instances, Instance(i)
      PROVE  UNCHANGED seed
  BY <1>9 DEF Instance, Restart, LoadTable, Serve, StartRun
<1>10. CleanupClaims \/ UNCHANGED draftsVars => UNCHANGED seed
  BY DEF CleanupClaims, draftsVars
<1>11. (\E l \in Lookups : Lookup(l)) \/ (\E r \in 1..MaxResearchRuns : RunEnds(r)) => UNCHANGED seed
  BY LookupFrame, RunEndsFrame
<1> QED
  BY <1>2, <1>3, <1>5, <1>6, <1>7, <1>8, <1>9, <1>10, <1>11 DEF DraftsNext, Deploy

------------------------------------------------------------------------------
(* Polls                                                                   *)

\* A poll that does not move keeps what it needs.
LEMMA PollStays ==
  ASSUME NEW q, PollSound(q), Grows
  PROVE  PollSound(q)'
<1>1. 0..researchRuns \subseteq 0..researchRuns'
  BY MoreKnown DEF Grows
<1> QED BY <1>1 DEF PollSound, PollRecord, Grows

\* A poll goes on only with what it needs in the rows.
LEMMA PollMoves ==
  ASSUME DraftsInv, NEW p \in Pollers, Persist(p), Grows, db' \in Rows'
  PROVE  /\ DOMAIN poll' = Pollers /\ PollSound(poll[p])'
         /\ \A q \in Pollers \ {p} : poll'[q] = poll[q]
<1>1. /\ DOMAIN poll = Pollers /\ PollSound(poll[p]) /\ researchRuns \in Nat
      /\ MaxDeploys \in Nat \ {0} /\ meta \in 1..MaxDeploys
  BY PollFacts, DraftLimits DEF DraftsInv, Grows, RowsSound
<1> PICK q \in PollRecord : q = poll[p]
  BY PollFacts
<1>2. PollSound(q)'
  BY <1>1, PollStays
<1>3. IdlePoll \in PollRecord' /\ IdlePoll.pc = "idle"
  BY <1>1 DEF IdlePoll, PollRecord, PollStages, Grows
<1>4. CASE poll' = [poll EXCEPT ![p] = IdlePoll]
  BY <1>1, <1>3, <1>4 DEF PollSound, PastMetric, PastAudit
<1>5. CASE \E i \in Instances, r \in 1..MaxResearchRuns : BeginPersist(p, i, r)
  <2> PICK i \in Instances, r \in 1..MaxResearchRuns : BeginPersist(p, i, r)
    BY <1>5
  <2> DEFINE n == [pc |-> "platform", run |-> r, inst |-> i, meta |-> 0]
  <2>1. poll' = [poll EXCEPT ![p] = n] /\ r <= researchRuns /\ researchRuns' = researchRuns
    BY DEF BeginPersist, researchVars
  <2>2. r \in 0..researchRuns' /\ r # 0 /\ 0 \in 0..MaxDeploys
    BY <1>1, <2>1, DraftLimits
  <2>3. n \in PollRecord' /\ n.pc = "platform" /\ n.run = r /\ n.inst = i
    BY <2>2 DEF PollRecord, PollStages
  <2> HIDE DEF n
  <2> QED BY <1>1, <2>1, <2>2, <2>3 DEF PollSound, PastMetric, PastAudit
<1>6. ASSUME NEW pc \in PollStages \ {"writeMeta"}, poll' = [poll EXCEPT ![p].pc = pc], q.pc # "idle",
             pc \notin {"idle", "platform"} => db'.draft # Missing,
             pc \in PastMetric => db'.metric # Missing,
             pc \in PastAudit => db'.audit # Missing
      PROVE  /\ DOMAIN poll' = Pollers /\ PollSound(poll[p])'
             /\ \A x \in Pollers \ {p} : poll'[x] = poll[x]
  <2>1. poll' = [poll EXCEPT ![p] = [q EXCEPT !.pc = pc]]
    BY <1>1, <1>6
  <2>2. q \in PollRecord' /\ q.run # 0 /\ q.inst \in Instances
    BY <1>2, <1>6 DEF PollSound
  <2>3. /\ [q EXCEPT !.pc = pc] \in PollRecord' /\ [q EXCEPT !.pc = pc].pc = pc
        /\ [q EXCEPT !.pc = pc].run = q.run /\ [q EXCEPT !.pc = pc].inst = q.inst
    BY <2>2, <1>6 DEF PollRecord
  <2> QED BY <1>1, <1>6, <2>1, <2>2, <2>3 DEF PollSound
<1>7. CASE PersistPlatform(p)
  <2>1. q.pc = "platform" /\ poll' = [poll EXCEPT ![p].pc = "metric"]
        /\ db' = [db EXCEPT !.record = IF @ = Missing THEN Draft(q.run) ELSE @, !.draft = Draft(q.run)]
    BY <1>7 DEF PersistPlatform, Proceed, withPlatformOfDraft
  <2>2. db \in Rows
    BY DEF DraftsInv, RowsSound
  <2>3. db'.draft # Missing
    BY <2>1, <2>2, Documents DEF Rows
  <2> QED BY <1>6, <2>1, <2>3 DEF PollStages, PastMetric, PastAudit
<1>8. CASE PersistStatement(p)
  <2> DEFINE pc == NextStatement(q.pc, "readMeta")
  <2>1. /\ q.pc \in Statements /\ poll' = [poll EXCEPT ![p].pc = pc]
        /\ db' = After(q.pc, Draft(q.run))
    BY <1>8 DEF PersistStatement, Proceed
  <2>2. q.pc \notin {"idle", "platform"}
    BY <2>1, Statement
  <2>3. Draft(q.run) \in Known \ {Missing} /\ db \in Rows
    BY <2>2, PollFacts DEF DraftsInv, RowsSound
  <2>4. /\ db'.draft # Missing
        /\ q.pc = "metric" \/ q.pc \in PastMetric => db'.metric # Missing
        /\ q.pc = "audit" \/ q.pc \in PastAudit => db'.audit # Missing
    BY <1>1, <2>1, <2>2, <2>3, AfterKeeps DEF PollSound
  <2>5. /\ pc \in PollStages \ {"writeMeta", "idle", "platform"}
        /\ pc \in PastMetric => q.pc = "metric" \/ q.pc \in PastMetric
        /\ pc \in PastAudit => q.pc = "audit"
    BY <2>1, Statement, StatementOrder DEF PollStages, PastMetric, PastAudit
  <2> HIDE DEF pc
  <2> QED BY <1>6, <2>1, <2>2, <2>4, <2>5
<1>9. CASE ReadMeta(p)
  <2> DEFINE n == [q EXCEPT !.pc = "writeMeta", !.meta = meta]
  <2>1. poll' = [poll EXCEPT ![p] = n] /\ q.pc = "readMeta"
    BY <1>1, <1>9 DEF ReadMeta
  <2>2. q \in PollRecord' /\ meta \in 0..MaxDeploys /\ meta # 0
    BY <1>1, <1>2 DEF PollSound
  <2>3. /\ n \in PollRecord' /\ n.pc = "writeMeta" /\ n.meta = meta
        /\ n.run = q.run /\ n.inst = q.inst
    BY <2>2 DEF PollRecord, PollStages, PastMetric, PastAudit
  <2> HIDE DEF n
  <2> QED BY <1>1, <1>2, <2>1, <2>2, <2>3 DEF PollSound, PastMetric, PastAudit
<1>10. ASSUME q.pc \in PastAudit
       PROVE  db'.draft # Missing /\ db'.metric # Missing /\ db'.audit # Missing
  BY <1>2, <1>10 DEF PollSound, PastMetric, PastAudit
<1>11. CASE WriteMeta(p)
  BY <1>6, <1>10, <1>11 DEF WriteMeta, Proceed, PollStages, PastMetric, PastAudit
<1>12. CASE Ingest(p)
  BY <1>6, <1>10, <1>12 DEF Ingest, Proceed, PollStages, PastMetric, PastAudit
<1>13. CASE CompleteBySlug(p)
  BY <1>6, <1>10, <1>13 DEF CompleteBySlug, Proceed, PollStages, PastMetric, PastAudit
<1>14. PersistClash(p) \/ CompleteByRun(p) \/ PersistFails(p) => poll' = [poll EXCEPT ![p] = IdlePoll]
  BY DEF PersistClash, CompleteByRun, PersistFails
<1> QED
  BY <1>4, <1>5, <1>7, <1>8, <1>9, <1>11, <1>12, <1>13, <1>14 DEF Persist

\* All steps leave the polls sound; a restart only cuts them off.
LEMMA PollStep ==
  ASSUME DraftsInv, [DraftsNext]_draftsVars
  PROVE  DOMAIN poll' = Pollers /\ \A p \in Pollers : PollSound(poll[p])'
<1>1. Grows /\ db' \in Rows' /\ DOMAIN poll = Pollers /\ \A p \in Pollers : PollSound(poll[p])
  BY RowsStep DEF DraftsInv
<1>2. \A p \in Pollers : poll'[p] = poll[p] => PollSound(poll[p])'
  <2> SUFFICES ASSUME NEW p \in Pollers, poll'[p] = poll[p]
               PROVE  PollSound(poll[p])'
    OBVIOUS
  <2> PICK q \in PollRecord : q = poll[p]
    BY PollFacts
  <2>1. PollSound(q)'
    BY <1>1, PollStays
  <2> QED BY <2>1
<1>3. CASE UNCHANGED poll
  BY <1>1, <1>2, <1>3
<1>4. CASE \E p \in Pollers : Persist(p)
  BY <1>1, <1>2, <1>4, PollMoves
<1>5. CASE \E i \in Instances : Restart(i)
  <2>1. DOMAIN poll' = Pollers /\ \A p \in Pollers : poll'[p] = poll[p] \/ poll'[p] = IdlePoll
    BY <1>5 DEF Restart
  <2>2. IdlePoll \in PollRecord' /\ IdlePoll.pc = "idle"
    BY <1>1, DraftLimits DEF IdlePoll, PollRecord, PollStages, Grows
  <2>3. \A p \in Pollers : poll'[p] = IdlePoll => PollSound(poll[p])'
    BY <2>2 DEF PollSound, PastMetric, PastAudit
  <2> QED BY <1>2, <2>1, <2>3
<1>6. ASSUME Deploy
      PROVE  UNCHANGED poll
  BY <1>6 DEF Deploy, BeginSeed, SeedPlatform, SeedStatement, SeedFails, SeedMeta
<1>7. ASSUME NEW i \in Instances, Instance(i), ~Restart(i)
      PROVE  UNCHANGED poll
  BY <1>7 DEF Instance, LoadTable, Serve, StartRun
<1>8. CleanupClaims \/ UNCHANGED draftsVars => UNCHANGED poll
  BY DEF CleanupClaims, draftsVars
<1>9. (\E l \in Lookups : Lookup(l)) \/ (\E r \in 1..MaxResearchRuns : RunEnds(r)) => UNCHANGED poll
  BY LookupFrame, RunEndsFrame
<1> QED BY <1>3, <1>4, <1>5, <1>6, <1>7, <1>8, <1>9 DEF DraftsNext

\* What an undisturbed poll has written stays its own.
LEMMA LoneMoves ==
  ASSUME DraftsInv, NEW p \in Pollers, Persist(p), alone'[p], poll'[p].pc # "idle"
  PROVE  seed.pc = "idle" /\ WholeSoFar(poll[p])'
<1>1. /\ DOMAIN poll = Pollers /\ db \in Rows /\ DOMAIN alone = Pollers
  BY DEF DraftsInv, RowsSound
<1> PICK q \in PollRecord : q = poll[p]
  BY PollFacts
<1> DEFINE d == Draft(q.run)
<1>2. alone[p] /\ q.pc # "idle" => seed.pc = "idle" /\ WholeSoFar(q)
  BY DEF DraftsInv
<1>3. IdlePoll.pc = "idle"
  BY DEF IdlePoll
<1>4. CASE PersistClash(p) \/ CompleteByRun(p) \/ PersistFails(p)
  BY <1>1, <1>3, <1>4 DEF PersistClash, CompleteByRun, PersistFails
<1>5. CASE \E i \in Instances, r \in 1..MaxResearchRuns : BeginPersist(p, i, r)
  <2> PICK i \in Instances, r \in 1..MaxResearchRuns : BeginPersist(p, i, r)
    BY <1>5
  <2>1. poll'[p].pc = "platform"
    BY <1>1 DEF BeginPersist
  <2>2. alone' = [alone EXCEPT ![p] = (seed.pc = "idle")]
    BY Zenon DEF BeginPersist
  <2>3. alone'[p] = (seed.pc = "idle")
    BY <1>1, <2>2, Zenon
  <2>4. seed.pc = "idle"
    BY <2>3, Zenon
  <2> QED BY <2>1, <2>4 DEF WholeSoFar, PastMetric, PastAudit
<1>6. ASSUME NEW pc, poll' = [poll EXCEPT ![p].pc = pc]
      PROVE  poll'[p].pc = pc /\ poll'[p].run = q.run
  BY <1>1, <1>6 DEF PollRecord
<1>7. ASSUME alone' = alone \/ OthersWrite(p), q.pc # "idle"
      PROVE  seed.pc = "idle" /\ WholeSoFar(q)
  BY <1>1, <1>2, <1>7 DEF OthersWrite
<1>8. CASE PersistPlatform(p)
  <2>1. q.pc = "platform" /\ poll' = [poll EXCEPT ![p].pc = "metric"] /\ OthersWrite(p)
        /\ db' = [db EXCEPT !.record = IF @ = Missing THEN Draft(q.run) ELSE @, !.draft = Draft(q.run)]
    BY <1>8 DEF PersistPlatform, Proceed, withPlatformOfDraft
  <2>2. db'.draft = d
    BY <1>1, <2>1 DEF Rows
  <2>3. poll'[p].pc = "metric" /\ poll'[p].run = q.run
    BY <1>6, <2>1
  <2> QED BY <1>7, <2>1, <2>2, <2>3 DEF WholeSoFar, PastMetric, PastAudit
<1>9. CASE PersistStatement(p)
  <2> DEFINE pc == NextStatement(q.pc, "readMeta")
  <2>1. /\ q.pc \in Statements /\ poll' = [poll EXCEPT ![p].pc = pc]
        /\ db' = After(q.pc, d) /\ OthersWrite(p)
    BY <1>9 DEF PersistStatement, Proceed
  <2>2. q.pc \notin {"idle", "platform"} /\ d \in Known \ {Missing}
    BY <2>1, Statement, PollFacts
  <2>3. seed.pc = "idle" /\ WholeSoFar(q)
    BY <1>7, <2>1, <2>2
  <2>4. poll'[p].pc = pc /\ poll'[p].run = q.run
    BY <1>6, <2>1
  <2>5. /\ db'.draft = d
        /\ db'.metric = IF q.pc = "metric" THEN d ELSE db.metric
        /\ db'.audit = IF q.pc = "audit" THEN d ELSE db.audit
        /\ db'.steps = IF q.pc = "dropSteps" THEN Missing
                       ELSE IF q.pc = "addSteps" THEN d ELSE db.steps
        /\ db'.gates = IF q.pc = "dropGates" THEN <<>>
                       ELSE IF q.pc = "addGates" THEN Append(db.gates, d) ELSE db.gates
    BY <1>1, <2>1, <2>2, <2>3, AfterKeeps DEF WholeSoFar
  <2> HIDE DEF d
  <2>6. CASE q.pc \in {"metric", "dropSteps", "addSteps"}
    <3>1. \/ q.pc = "metric" /\ pc = "dropSteps"
          \/ q.pc = "dropSteps" /\ pc = "addSteps"
          \/ q.pc = "addSteps" /\ pc = "dropGates"
      BY <2>6, StatementOrder
    <3> HIDE DEF pc
    <3> QED BY <2>3, <2>4, <2>5, <3>1 DEF WholeSoFar, PastMetric, PastAudit, d
  <2>7. CASE q.pc \in {"dropGates", "addGates", "audit"}
    <3>1. \/ q.pc = "dropGates" /\ pc = "addGates"
          \/ q.pc = "addGates" /\ pc = "audit"
          \/ q.pc = "audit" /\ pc = "readMeta"
      BY <2>7, StatementOrder
    <3>2. Append(<<>>, d) = <<d>>
      OBVIOUS
    <3> HIDE DEF pc
    <3> QED BY <2>3, <2>4, <2>5, <3>1, <3>2 DEF WholeSoFar, PastMetric, PastAudit, d
  <2> QED BY <2>1, <2>6, <2>7, Statement
<1>10. ASSUME q.pc \in PastAudit, NEW pc \in PastAudit, poll'[p].pc = pc, poll'[p].run = q.run,
              alone' = alone \/ OthersWrite(p), db' = db
       PROVE  seed.pc = "idle" /\ WholeSoFar(poll[p])'
  <2>1. seed.pc = "idle" /\ WholeSoFar(q)
    BY <1>7, <1>10 DEF PastAudit
  <2> QED BY <1>10, <2>1 DEF WholeSoFar, PastMetric, PastAudit
<1>11. CASE ReadMeta(p)
  <2>1. poll'[p].pc = "writeMeta" /\ poll'[p].run = q.run /\ q.pc = "readMeta"
    BY <1>1, <1>11 DEF ReadMeta, PollRecord
  <2> QED BY <1>10, <1>11, <2>1 DEF ReadMeta, stored, researchVars, PastAudit
<1>12. CASE WriteMeta(p) \/ Ingest(p) \/ CompleteBySlug(p)
  <2>1. \E pc \in PastAudit : poll' = [poll EXCEPT ![p].pc = pc]
    BY <1>12 DEF WriteMeta, Ingest, CompleteBySlug, Proceed, PastAudit
  <2> PICK pc \in PastAudit : poll' = [poll EXCEPT ![p].pc = pc]
    BY <2>1
  <2>2. poll'[p].pc = pc /\ poll'[p].run = q.run
    BY <1>6
  <2>3. q.pc \in PastAudit /\ db' = db /\ (alone' = alone \/ OthersWrite(p))
    BY <1>12 DEF WriteMeta, Ingest, CompleteBySlug, PastAudit, stored, researchVars
  <2> QED BY <1>10, <2>2, <2>3
<1> QED
  BY <1>4, <1>5, <1>8, <1>9, <1>11, <1>12 DEF Persist

\* A poll stays alone only while nobody else writes.
LEMMA LoneStep ==
  ASSUME DraftsInv, [DraftsNext]_draftsVars
  PROVE  /\ alone' \in [Pollers -> BOOLEAN]
         /\ \A p \in Pollers :
              alone'[p] /\ poll'[p].pc # "idle" => seed'.pc = "idle" /\ WholeSoFar(poll[p])'
<1>1. alone \in [Pollers -> BOOLEAN] /\ DOMAIN poll = Pollers
  BY DEF DraftsInv
<1>2. ASSUME NEW p \in Pollers, UNCHANGED <<db, seed>>, poll'[p] = poll[p], alone'[p] = alone[p],
             alone'[p], poll'[p].pc # "idle"
      PROVE  seed'.pc = "idle" /\ WholeSoFar(poll[p])'
  BY <1>2 DEF DraftsInv, WholeSoFar
<1>3. CASE UNCHANGED <<db, seed, poll, alone>>
  BY <1>1, <1>2, <1>3
<1>4. ASSUME NEW p \in Pollers, Persist(p)
      PROVE  /\ alone' \in [Pollers -> BOOLEAN]
             /\ \A x \in Pollers :
                  alone'[x] /\ poll'[x].pc # "idle" => seed'.pc = "idle" /\ WholeSoFar(poll[x])'
  <2>1. seed' = seed /\ \A x \in Pollers \ {p} : poll'[x] = poll[x]
    BY <1>4, RowsStep, PollMoves
    DEF Persist, BeginPersist, PersistPlatform, PersistStatement, PersistClash, ReadMeta,
        WriteMeta, Ingest, CompleteBySlug, CompleteByRun, PersistFails
  <2>2. /\ alone' \in [Pollers -> BOOLEAN]
        /\ \A x \in Pollers \ {p} : alone'[x] => alone'[x] = alone[x] /\ db' = db
    <3>1. CASE UNCHANGED <<db, alone>>
      BY <1>1, <3>1
    <3>2. CASE OthersWrite(p)
      BY <1>1, <3>2 DEF OthersWrite
    <3>3. CASE \E i \in Instances, r \in 1..MaxResearchRuns : BeginPersist(p, i, r)
      BY <1>1, <3>3 DEF BeginPersist, stored, researchVars
    <3> QED BY <1>4, <3>1, <3>2, <3>3 DEF Persist, PersistPlatform, PersistStatement, PersistClash,
          ReadMeta, WriteMeta, Ingest, CompleteBySlug, CompleteByRun, PersistFails, stored, researchVars
  <2>3. alone'[p] /\ poll'[p].pc # "idle" => seed'.pc = "idle" /\ WholeSoFar(poll[p])'
    BY <1>4, <2>1, LoneMoves
  <2> QED BY <1>2, <2>1, <2>2, <2>3
<1>5. CASE BeginSeed
  BY <1>5 DEF BeginSeed
<1>6. CASE SeedPlatform \/ SeedStatement \/ SeedFails \/ SeedMeta
  <2>1. seed.pc # "idle" /\ UNCHANGED <<poll, alone>>
    BY <1>6, Statement DEF SeedPlatform, SeedStatement, SeedFails, SeedMeta
  <2>2. \A p \in Pollers : ~(alone[p] /\ poll[p].pc # "idle")
    BY <2>1 DEF DraftsInv
  <2> QED BY <1>1, <2>1, <2>2
<1>7. CASE \E i \in Instances : Restart(i)
  <2>1. /\ UNCHANGED <<db, seed, alone>>
        /\ \A p \in Pollers : poll'[p] = poll[p] \/ poll'[p].pc = "idle"
    BY <1>7 DEF Restart, stored, researchVars, IdlePoll
  <2> QED BY <1>1, <1>2, <2>1
<1>8. ASSUME NEW i \in Instances, Instance(i), ~Restart(i)
      PROVE  UNCHANGED <<db, seed, poll, alone>>
  BY <1>8 DEF Instance, LoadTable, Serve, StartRun, stored, researchVars
<1>9. CleanupClaims \/ UNCHANGED draftsVars => UNCHANGED <<db, seed, poll, alone>>
  BY DEF CleanupClaims, draftsVars
<1>10. (\E l \in Lookups : Lookup(l)) \/ (\E r \in 1..MaxResearchRuns : RunEnds(r))
         => UNCHANGED <<db, seed, poll, alone>>
  BY LookupFrame, RunEndsFrame
<1> QED BY <1>3, <1>4, <1>5, <1>6, <1>7, <1>8, <1>9, <1>10 DEF DraftsNext, Deploy
------------------------------------------------------------------------------
(* Snapshots                                                               *)

\* What Postgres serves is a draft whenever there is one.
LEMMA Served ==
  ASSUME RowsSound
  PROVE  /\ servedRecord(db) \in Known /\ db.metric \in Known /\ db.audit \in Known
         /\ servedRecord(db).kind = "draft" <=> db.draft # Missing
         /\ db.draft # Missing => servedRecord(db) = db.draft
<1>1. /\ db.record \in Known /\ db.draft \in {Missing} \cup Drafts /\ db.metric \in Known
      /\ db.audit \in Known /\ (db.record.kind = "draft" => db.draft # Missing)
  BY DEF RowsSound, Rows
<1>2. Drafts \subseteq Known /\ \A d \in Drafts : d.kind = "draft"
  BY Documents DEF Drafts, Known
<1>3. CASE db.draft = Missing
  BY <1>1, <1>3 DEF servedRecord
<1>4. CASE db.draft # Missing
  BY <1>1, <1>2, <1>4 DEF servedRecord
<1> QED BY <1>1, <1>3, <1>4

\* The documents that may be known are told apart by their kinds.
LEMMA Kinds ==
  /\ \A d \in Known : d.kind = "draft" => d \in Drafts
  /\ \A d \in Drafts : d.kind = "draft" /\ d \in Known /\ d # Missing
  /\ \A g \in {Missing} \cup Drafts \cup {Graph(v) : v \in Reviewed} :
       g.kind # "draft" /\ g.kind # "reviewed" => g = Missing
<1> QED BY Documents DEF Known, Drafts

\* A snapshot that does not move stays sound while the rows grow.
LEMMA SnapStays ==
  ASSUME NEW s, SnapshotSound(s), Grows
  PROVE  SnapshotSound(s)'
<1>1. Known \subseteq Known' /\ Drafts \subseteq Drafts'
  BY MoreKnown DEF Grows
<1>2. s \in Snapshots'
  BY <1>1 DEF SnapshotSound, Snapshots
<1> QED BY <1>2 DEF SnapshotSound, Grows

\* What an instance registers is the graph of the draft it takes in, unless
\* its deploy ships a reviewed one.
LEMMA Registered ==
  ASSUME NEW v \in 1..MaxDeploys, NEW record \in Known,
         NEW graph \in {Missing} \cup Drafts \cup {Graph(w) : w \in Reviewed}
  PROVE  /\ registered(v, record, graph) \in {Missing} \cup Drafts \cup {Graph(w) : w \in Reviewed}
         /\ v \in Reviewed => registered(v, record, graph) = Graph(v)
         /\ v \notin Reviewed /\ record.kind = "draft" => registered(v, record, graph) = record
         /\ v \notin Reviewed /\ record.kind # "draft" => registered(v, record, graph) = graph
<1> QED BY Kinds DEF registered

\* An instance that takes in a record with its row and its audit, not older than
\* the graph it holds unless it is behind.
LEMMA IngestedSound ==
  ASSUME NEW s, SnapshotSound(s), NEW record \in Known, NEW row \in Known, NEW audit \in Known,
         NEW behind \in BOOLEAN, behind => s.up,
         db.audit # Missing, record.kind = "draft" => db.draft # Missing,
         ~behind /\ s.graph.kind = "draft" => record.kind = "draft"
  PROVE  SnapshotSound(ingestLive(s, record, row, audit, behind))
<1> DEFINE g == registered(s.deploy, record, s.graph)
           t == ingestLive(s, record, row, audit, behind)
<1>1. /\ s \in Snapshots /\ s.deploy \in 1..MaxDeploys /\ s.up \in BOOLEAN
      /\ s.graph \in {Missing} \cup Drafts \cup {Graph(w) : w \in Reviewed}
  BY DEF SnapshotSound, Snapshots
<1>2. /\ g \in {Missing} \cup Drafts \cup {Graph(w) : w \in Reviewed}
      /\ s.deploy \in Reviewed => g = Graph(s.deploy)
      /\ s.deploy \notin Reviewed /\ record.kind = "draft" => g = record
      /\ s.deploy \notin Reviewed /\ record.kind # "draft" => g = s.graph
  BY <1>1, Registered
<1>3. /\ t = [s EXCEPT !.row = row, !.record = record, !.audit = audit, !.graph = g,
                       !.behind = behind]
      /\ t.deploy = s.deploy /\ t.record = record /\ t.audit = audit /\ t.graph = g
      /\ t.behind = behind
  BY <1>1 DEF ingestLive, Snapshots
<1>4. t \in Snapshots /\ t.up = s.up
  <2> HIDE DEF g
  <2> QED BY <1>1, <1>2, <1>3 DEF Snapshots
<1> HIDE DEF t, g
<1>5. g.kind = "draft" => db.draft # Missing
  BY <1>2, Documents DEF SnapshotSound
<1>6. ASSUME s.up
      PROVE  /\ s.deploy \in Reviewed <=> g.kind = "reviewed"
             /\ s.deploy \in Reviewed => g = Graph(s.deploy)
             /\ s.deploy \notin Reviewed /\ ~behind =>
                  g = IF record.kind = "draft" THEN record ELSE Missing
  <2>1. CASE s.deploy \in Reviewed
    BY <1>2, <2>1, Documents
  <2>2. CASE s.deploy \notin Reviewed /\ record.kind = "draft"
    BY <1>2, <2>2
  <2>3. CASE s.deploy \notin Reviewed /\ record.kind # "draft"
    <3>1. g = s.graph /\ s.graph.kind # "reviewed"
      BY <1>2, <1>6, <2>3 DEF SnapshotSound
    <3>2. ~behind => s.graph = Missing
      BY <1>1, <2>3, <3>1, Kinds
    <3> QED BY <2>3, <3>1, <3>2
  <2> QED BY <2>1, <2>2, <2>3
<1>7. SnapshotSound(t)
  BY <1>3, <1>4, <1>5, <1>6 DEF SnapshotSound
<1> QED BY <1>7 DEF t

\* An instance takes in what a request has read, with the audit or without.
LEMMA TakenInSound ==
  ASSUME NEW s, SnapshotSound(s), NEW q, QuerySound(q), QueryFits(q, s), q.toLoad = {}
  PROVE  SnapshotSound(takenIn(s, q))
<1>1. /\ s \in Snapshots /\ q \in Queries /\ s.up
      /\ q.record.kind = "draft" => db.draft # Missing
      /\ ~q.overtaken /\ s.graph.kind = "draft" => q.record.kind = "draft"
      /\ ~q.overtaken /\ s.audit # Missing => q.audit # Missing
  BY DEF SnapshotSound, QuerySound, QueryFits
<1>2. CASE q.audit # Missing
  <2>1. db.audit # Missing /\ q.record \in Known /\ q.row \in Known /\ q.audit \in Known
        /\ q.overtaken \in BOOLEAN
    BY <1>1, <1>2 DEF QuerySound, Queries
  <2>2. SnapshotSound(ingestLive(s, q.record, q.row, q.audit, q.overtaken))
    BY <1>1, <2>1, IngestedSound
  <2> QED BY <1>2, <2>2 DEF takenIn
<1>3. CASE q.audit = Missing
  <2> DEFINE t == [s EXCEPT !.row = q.row, !.record = q.record, !.behind = q.overtaken]
  <2>1. q.row \in Known /\ q.record \in Known /\ q.overtaken \in BOOLEAN
    BY <1>1 DEF Queries
  <2>2. /\ t \in Snapshots /\ t.up = s.up /\ t.deploy = s.deploy /\ t.audit = s.audit
        /\ t.graph = s.graph /\ t.record = q.record /\ t.behind = q.overtaken
    BY <1>1, <2>1 DEF Snapshots
  <2> HIDE DEF t
  <2>3. SnapshotSound(t)
    BY <1>1, <1>3, <2>2 DEF SnapshotSound
  <2> QED BY <1>3, <2>3 DEF takenIn, t
<1> QED BY <1>2, <1>3

\* A process starts without anything in memory.
LEMMA NewSnapshotSound ==
  ASSUME NEW v \in 1..MaxDeploys
  PROVE  SnapshotSound(NoSnapshot(v))
<1>1. Missing \in Known
  BY DEF Known
<1>2. NoSnapshot(v) \in Snapshots /\ NoSnapshot(v).up = FALSE /\ NoSnapshot(v).audit = Missing
      /\ NoSnapshot(v).graph = Missing /\ NoSnapshot(v).record = Missing
      /\ NoSnapshot(v).behind = FALSE
  BY <1>1 DEF NoSnapshot, Snapshots
<1> QED BY <1>2, Documents DEF SnapshotSound

\* One of the three tables arrives.
LEMMA LoadedSound ==
  ASSUME RowsSound, NEW s, SnapshotSound(s), ~s.up, NEW t \in s.toLoad
  PROVE  SnapshotSound(WithTable(s, t))
<1> DEFINE row == IF t = "metric" THEN db.metric ELSE s.row
           record == IF t = "platform" THEN servedRecord(db) ELSE s.record
           audit == IF t = "audit" THEN db.audit ELSE s.audit
           n == [s EXCEPT !.toLoad = s.toLoad \ {t}, !.row = row, !.record = record, !.audit = audit]
<1>1. s \in Snapshots
  BY DEF SnapshotSound
<1>2. row \in Known /\ record \in Known /\ audit \in Known
  BY <1>1, Served DEF Snapshots
<1>3. /\ record.kind = "draft" => db.draft # Missing
      /\ audit # Missing => db.audit # Missing
  BY Served DEF SnapshotSound
<1> HIDE DEF row, record, audit
<1>4. /\ n \in Snapshots /\ n.up = s.up /\ n.deploy = s.deploy /\ n.graph = s.graph
      /\ n.record = record /\ n.audit = audit /\ n.behind = s.behind
  BY <1>1, <1>2 DEF Snapshots
<1> HIDE DEF n
<1>5. SnapshotSound(n)
  BY <1>3, <1>4 DEF SnapshotSound
<1> QED BY <1>5 DEF n, row, record, audit, WithTable

\* An instance that has loaded its tables goes up.
LEMMA ServingSound ==
  ASSUME NEW s, SnapshotSound(s)
  PROVE  SnapshotSound([s EXCEPT !.up = TRUE, !.graph = registered(s.deploy, s.record, Missing)])
<1> DEFINE g == registered(s.deploy, s.record, Missing)
           n == [s EXCEPT !.up = TRUE, !.graph = g]
<1>1. s \in Snapshots /\ s.deploy \in 1..MaxDeploys /\ s.record \in Known
  BY DEF SnapshotSound, Snapshots
<1>2. /\ g \in {Missing} \cup Drafts \cup {Graph(w) : w \in Reviewed}
      /\ s.deploy \in Reviewed => g = Graph(s.deploy)
      /\ s.deploy \notin Reviewed /\ s.record.kind = "draft" => g = s.record
      /\ s.deploy \notin Reviewed /\ s.record.kind # "draft" => g = Missing
  BY <1>1, Registered
<1> HIDE DEF g
<1>3. /\ n \in Snapshots /\ n.deploy = s.deploy /\ n.record = s.record /\ n.audit = s.audit
      /\ n.graph = g /\ n.up
  BY <1>1, <1>2 DEF Snapshots
<1> HIDE DEF n
<1>4. g.kind = "draft" \/ s.record.kind = "draft" => db.draft # Missing
  BY <1>2, Documents DEF SnapshotSound
<1>5. s.deploy \in Reviewed <=> g.kind = "reviewed"
  BY <1>2, Documents
<1>6. SnapshotSound(n)
  BY <1>2, <1>3, <1>4, <1>5 DEF SnapshotSound
<1> QED BY <1>6 DEF n, g

\* What is in memory changes only by the steps of instances and lookups and the
\* ingest of a poll.
LEMMA MemoryFrame ==
  ASSUME [DraftsNext]_draftsVars
  PROVE  \/ \E p \in Pollers : Ingest(p)
         \/ \E i \in Instances : Restart(i) \/ LoadTable(i) \/ Serve(i)
         \/ \E l \in Lookups : Lookup(l)
         \/ UNCHANGED <<snap, query>>
<1>1. ASSUME NEW p \in Pollers, Persist(p), ~Ingest(p)
      PROVE  UNCHANGED <<snap, query>>
  BY <1>1 DEF Persist, BeginPersist, PersistPlatform, PersistStatement, PersistClash, ReadMeta,
       WriteMeta, CompleteBySlug, CompleteByRun, PersistFails, servingVars
<1>2. Deploy => UNCHANGED <<snap, query>>
  BY DEF Deploy, BeginSeed, SeedPlatform, SeedStatement, SeedFails, SeedMeta, servingVars
<1>3. (\E i \in Instances : StartRun(i)) \/ CleanupClaims \/ UNCHANGED draftsVars
        => UNCHANGED <<snap, query>>
  BY DEF StartRun, CleanupClaims, draftsVars, servingVars
<1>4. (\E r \in 1..MaxResearchRuns : RunEnds(r)) => UNCHANGED <<snap, query>>
  BY RunEndsFrame
<1> QED BY <1>1, <1>2, <1>3, <1>4 DEF DraftsNext, Instance

\* Every step leaves the snapshots sound: what instances take in Postgres has.
LEMMA SnapStep ==
  ASSUME DraftsInv, [DraftsNext]_draftsVars
  PROVE  DOMAIN snap' = Instances /\ \A i \in Instances : SnapshotSound(snap[i])'
<1>1. /\ RowsSound /\ DOMAIN snap = Instances /\ (\A i \in Instances : SnapshotSound(snap[i]))
      /\ Grows
  BY RowsStep DEF DraftsInv
<1> SUFFICES DOMAIN snap' = Instances /\ \A i \in Instances : SnapshotSound(snap'[i])
  <2>1. ASSUME NEW i \in Instances, SnapshotSound(snap'[i])
        PROVE  SnapshotSound(snap[i])'
    <3> PICK s : s = snap'[i]
      OBVIOUS
    <3>1. SnapshotSound(s)
      BY <2>1
    <3>2. SnapshotSound(s)'
      BY <1>1, <3>1, SnapStays
    <3> QED BY <3>2
  <2> QED BY <2>1
<1>2. ASSUME NEW i \in Instances, NEW s, SnapshotSound(s), snap' = [snap EXCEPT ![i] = s]
      PROVE  DOMAIN snap' = Instances /\ \A j \in Instances : SnapshotSound(snap'[j])
  BY <1>1, <1>2
<1>3. CASE UNCHANGED snap
  BY <1>1, <1>3
<1>4. ASSUME NEW p \in Pollers, Ingest(p)
      PROVE  DOMAIN snap' = Instances /\ \A i \in Instances : SnapshotSound(snap'[i])
  <2> DEFINE i == poll[p].inst
             d == Draft(poll[p].run)
  <2>1. poll[p].pc = "ingest" /\ snap' = [snap EXCEPT ![i] = ingestLive(snap[i], d, d, d, FALSE)]
    BY <1>4 DEF Ingest
  <2>2. i \in Instances /\ d \in Drafts /\ db.draft # Missing /\ db.audit # Missing
    BY <2>1, PollFacts DEF PollSound, PastMetric, PastAudit
  <2> HIDE DEF i, d
  <2>3. d \in Known /\ d.kind = "draft"
    BY <2>2, Kinds
  <2>4. SnapshotSound(ingestLive(snap[i], d, d, d, FALSE))
    BY <1>1, <2>2, <2>3, IngestedSound
  <2> QED BY <1>2, <2>1, <2>2, <2>4
<1>5. ASSUME NEW i \in Instances, Restart(i)
      PROVE  DOMAIN snap' = Instances /\ \A j \in Instances : SnapshotSound(snap'[j])
  <2>1. SnapshotSound(NoSnapshot(deployed))
    BY <1>1, NewSnapshotSound DEF RowsSound
  <2> QED BY <1>2, <1>5, <2>1 DEF Restart
<1>6. ASSUME NEW i \in Instances, LoadTable(i)
      PROVE  DOMAIN snap' = Instances /\ \A j \in Instances : SnapshotSound(snap'[j])
  <2> PICK t \in snap[i].toLoad : snap' = [snap EXCEPT ![i] = WithTable(snap[i], t)]
    BY <1>6 DEF LoadTable
  <2>1. ~snap[i].up /\ SnapshotSound(snap[i])
    BY <1>1, <1>6 DEF LoadTable
  <2>2. SnapshotSound(WithTable(snap[i], t))
    BY <1>1, <2>1, LoadedSound
  <2> QED BY <1>2, <2>2
<1>7. ASSUME NEW i \in Instances, Serve(i)
      PROVE  DOMAIN snap' = Instances /\ \A j \in Instances : SnapshotSound(snap'[j])
  <2>1. SnapshotSound([snap[i] EXCEPT !.up = TRUE,
                         !.graph = registered(snap[i].deploy, snap[i].record, Missing)])
    BY <1>1, ServingSound
  <2> QED BY <1>2, <1>7, <2>1 DEF Serve
<1>8. ASSUME NEW l \in Lookups, TakeIn(l)
      PROVE  DOMAIN snap' = Instances /\ \A j \in Instances : SnapshotSound(snap'[j])
  <2> DEFINE i == query[l].inst
  <2>1. /\ query[l].pc # "idle" /\ query[l].toLoad = {}
        /\ snap' = [snap EXCEPT ![i] = takenIn(snap[i], query[l])]
    BY <1>8 DEF TakeIn
  <2>2. QuerySound(query[l]) /\ QueryFits(query[l], snap[i]) /\ i \in Instances
    BY <2>1 DEF DraftsInv, QueriesSound, QuerySound
  <2> HIDE DEF i
  <2>3. SnapshotSound(takenIn(snap[i], query[l]))
    BY <1>1, <2>1, <2>2, TakenInSound
  <2> QED BY <1>2, <2>1, <2>2, <2>3
<1>9. ASSUME NEW l \in Lookups, Lookup(l), ~TakeIn(l)
      PROVE  UNCHANGED snap
  BY <1>9 DEF Lookup, Visit, Search, Ask, ReadRelated, PassOver
<1>10. UNCHANGED <<snap, query>> => UNCHANGED snap
  OBVIOUS
<1> QED
  BY <1>3, <1>4, <1>5, <1>6, <1>7, <1>8, <1>9, <1>10, MemoryFrame

------------------------------------------------------------------------------
(* Requests                                                                *)

\* A request that does not move stays sound while the rows grow.
LEMMA QueryStays ==
  ASSUME NEW q, QuerySound(q), Grows
  PROVE  QuerySound(q)'
<1>1. Known \subseteq Known'
  BY MoreKnown DEF Grows
<1>2. q \in Queries'
  BY <1>1 DEF QuerySound, Queries
<1> QED BY <1>2 DEF QuerySound, Grows

\* Whatever an instance takes in, the requests it overtakes know that it has.
LEMMA OvertakenSound ==
  ASSUME QueriesSound, NEW i \in Instances, snap[i].up, DOMAIN snap = Instances,
         NEW s, s.up, snap' = [snap EXCEPT ![i] = s], NEW l \in Lookups
  PROVE  /\ QuerySound(overtaken(l, i))
         /\ overtaken(l, i).pc # "idle" =>
              QueryFits(overtaken(l, i), snap'[overtaken(l, i).inst])
<1> DEFINE q == query[l]
           n == [q EXCEPT !.overtaken = TRUE]
<1>1. q \in Queries /\ QuerySound(q) /\ (q.pc # "idle" => QueryFits(q, snap[q.inst]))
      /\ (q.pc # "idle" => q.inst \in Instances)
  BY DEF QueriesSound, QuerySound
<1>2. overtaken(l, i) = IF q.pc # "idle" /\ q.inst = i THEN n ELSE q
  BY DEF overtaken
<1>3. /\ n \in Queries /\ n.pc = q.pc /\ n.inst = q.inst /\ n.record = q.record
      /\ n.audit = q.audit /\ n.overtaken
  BY <1>1 DEF Queries
<1> HIDE DEF n, q
<1>4. CASE q.pc # "idle" /\ q.inst = i
  <2>1. QuerySound(n) /\ QueryFits(n, s)
    BY <1>1, <1>3, <1>4 DEF QuerySound, QueryFits
  <2> QED BY <1>2, <1>3, <1>4, <2>1
<1>5. CASE ~(q.pc # "idle" /\ q.inst = i)
  BY <1>1, <1>2, <1>5
<1> QED BY <1>4, <1>5

\* Every step leaves the requests sound, and those that nothing overtakes still
\* fit what their instances hold.
LEMMA QueryStep ==
  ASSUME DraftsInv, [DraftsNext]_draftsVars
  PROVE  QueriesSound'
<1>1. /\ RowsSound /\ QueriesSound /\ Grows /\ DOMAIN query = Lookups
      /\ DOMAIN snap = Instances /\ (\A i \in Instances : SnapshotSound(snap[i]))
      /\ \A l \in Lookups :
           /\ query[l] \in Queries /\ QuerySound(query[l])
           /\ query[l].pc # "idle" =>
                query[l].inst \in Instances /\ QueryFits(query[l], snap[query[l].inst])
  BY RowsStep DEF DraftsInv, QueriesSound, QuerySound
<1> DEFINE Fits(q) == QuerySound(q) /\ (q.pc # "idle" => QueryFits(q, snap'[q.inst]))
<1> SUFFICES DOMAIN query' = Lookups /\ \A l \in Lookups : Fits(query'[l])
  <2>1. ASSUME NEW l \in Lookups, Fits(query'[l])
        PROVE  QuerySound(query[l])' /\ (query'[l].pc # "idle" => QueryFits(query[l], snap[query[l].inst])')
    <3> PICK q : q = query'[l]
      OBVIOUS
    <3>1. QuerySound(q) /\ (q.pc # "idle" => QueryFits(q, snap'[q.inst]))
      BY <2>1
    <3>2. QuerySound(q)'
      BY <1>1, <3>1, QueryStays
    <3> QED BY <3>1, <3>2 DEF QueryFits
  <2> QED BY <2>1 DEF QueriesSound
<1>2. ASSUME NEW l \in Lookups, NEW q, Fits(q), UNCHANGED snap, query' = [query EXCEPT ![l] = q]
      PROVE  DOMAIN query' = Lookups /\ \A k \in Lookups : Fits(query'[k])
  BY <1>1, <1>2
<1>3. CASE UNCHANGED <<snap, query>>
  BY <1>1, <1>3
<1>4. ASSUME NEW i \in Instances, LoadTable(i) \/ Serve(i)
      PROVE  DOMAIN query' = Lookups /\ \A l \in Lookups : Fits(query'[l])
  <2>1. ~snap[i].up /\ query' = query /\ \A j \in Instances \ {i} : snap'[j] = snap[j]
    BY <1>1, <1>4 DEF LoadTable, Serve
  <2>2. \A l \in Lookups : query[l].pc # "idle" => query[l].inst # i
    BY <1>1, <2>1 DEF QueryFits
  <2> QED BY <1>1, <2>1, <2>2
<1>5. NoQuery \in Queries /\ NoQuery.pc = "idle" /\ Fits(NoQuery)
  <2>1. Missing \in Known
    BY DEF Known
  <2>2. NoQuery \in Queries /\ NoQuery.pc = "idle" /\ NoQuery.record = Missing
        /\ NoQuery.audit = Missing
    BY <2>1 DEF NoQuery, Queries
  <2> QED BY <2>2, Documents DEF QuerySound
<1>6. ASSUME NEW i \in Instances, Restart(i)
      PROVE  DOMAIN query' = Lookups /\ \A l \in Lookups : Fits(query'[l])
  <2>1. /\ query' = [l \in Lookups |-> IF query[l].inst = i THEN NoQuery ELSE query[l]]
        /\ \A j \in Instances \ {i} : snap'[j] = snap[j]
    BY <1>1, <1>6 DEF Restart
  <2> HIDE DEF Fits
  <2>2. ASSUME NEW l \in Lookups, query[l].inst # i
        PROVE  Fits(query[l])
    BY <1>1, <2>1, <2>2 DEF Fits
  <2> QED BY <1>5, <2>1, <2>2
<1>7. ASSUME NEW l \in Lookups, NEW i \in Instances, Visit(l, i) \/ Search(l, i)
      PROVE  DOMAIN query' = Lookups /\ \A k \in Lookups : Fits(query'[k])
  <2> PICK pc \in {"visit", "search"} : Ask(l, i, pc)
    BY <1>7 DEF Visit, Search
  <2> DEFINE q == [NoQuery EXCEPT !.pc = pc, !.inst = i, !.record = servedRecord(db),
                                  !.toLoad = {"metric", "audit"}]
  <2>1. snap[i].up /\ query' = [query EXCEPT ![l] = q] /\ UNCHANGED snap
    BY DEF Ask
  <2>2. /\ q \in Queries /\ q.inst = i /\ q.record = servedRecord(db) /\ q.audit = Missing
        /\ q.toLoad = {"metric", "audit"}
    <3>1. servedRecord(db) \in Known /\ NoQuery \in Queries
      BY <1>1, <1>5, Served
    <3>2. NoQuery.audit = Missing
      BY DEF NoQuery
    <3> QED BY <3>1, <3>2 DEF Queries
  <2> HIDE DEF q
  <2>3. QuerySound(q)
    BY <1>1, <2>2, Served DEF QuerySound
  <2>4. QueryFits(q, snap[i])
    BY <1>1, <2>1, <2>2, Served DEF QueryFits, SnapshotSound
  <2> QED BY <1>2, <2>1, <2>2, <2>3, <2>4
<1>8. ASSUME NEW l \in Lookups, ReadRelated(l)
      PROVE  DOMAIN query' = Lookups /\ \A k \in Lookups : Fits(query'[k])
  <2> PICK t \in query[l].toLoad : query' = [query EXCEPT ![l] = WithTable(query[l], t)]
    BY <1>8 DEF ReadRelated
  <2> PICK q \in Queries : q = query[l]
    BY <1>1
  <2> DEFINE n == WithTable(q, t)
             audit == IF t = "audit" THEN db.audit ELSE q.audit
             row == IF t = "metric" THEN db.metric ELSE q.row
  <2>1. t \in {"metric", "audit"} /\ UNCHANGED snap /\ q.pc # "idle"
    BY <1>8 DEF ReadRelated, Queries
  <2>2. audit \in Known /\ row \in Known
    BY <1>1, Served DEF Queries
  <2>3. n = [q EXCEPT !.toLoad = q.toLoad \ {t}, !.row = row, !.audit = audit]
    BY <2>1 DEF WithTable, Queries
  <2>4. audit # Missing => db.audit # Missing
    BY <1>1 DEF QuerySound
  <2>5. QueryFits(q, snap[q.inst]) /\ q.inst \in Instances
    BY <1>1, <2>1
  <2>6. "audit" \notin q.toLoad \ {t} /\ ~q.overtaken /\ snap[q.inst].audit # Missing
          => audit # Missing
    BY <1>1, <2>5 DEF QueryFits, SnapshotSound
  <2> HIDE DEF audit, row, n
  <2>7. /\ n \in Queries /\ n.pc = q.pc /\ n.inst = q.inst /\ n.record = q.record
        /\ n.audit = audit /\ n.overtaken = q.overtaken /\ n.toLoad = q.toLoad \ {t}
    BY <2>2, <2>3 DEF Queries
  <2>8. QuerySound(n)
    BY <1>1, <2>4, <2>7 DEF QuerySound
  <2>9. QueryFits(n, snap[n.inst])
    BY <2>5, <2>6, <2>7 DEF QueryFits
  <2> QED BY <1>2, <2>1, <2>8, <2>9 DEF n
<1>9. ASSUME NEW l \in Lookups, PassOver(l)
      PROVE  DOMAIN query' = Lookups /\ \A k \in Lookups : Fits(query'[k])
  BY <1>2, <1>5, <1>9 DEF PassOver
<1>10. ASSUME NEW l \in Lookups, TakeIn(l)
       PROVE  DOMAIN query' = Lookups /\ \A k \in Lookups : Fits(query'[k])
  <2> DEFINE i == query[l].inst
             s == takenIn(snap[i], query[l])
  <2>1. /\ query[l].pc # "idle" /\ snap' = [snap EXCEPT ![i] = s]
        /\ query' = [k \in Lookups |-> IF k = l THEN NoQuery ELSE overtaken(k, i)]
    BY <1>10 DEF TakeIn
  <2>2. i \in Instances /\ snap[i].up /\ snap[i] \in Snapshots
    BY <1>1, <2>1 DEF QueryFits, SnapshotSound
  <2>3. s.up
    BY <2>2 DEF takenIn, ingestLive, Snapshots
  <2> HIDE DEF i, s
  <2>4. \A k \in Lookups : Fits(overtaken(k, i))
    BY <1>1, <2>1, <2>2, <2>3, OvertakenSound
  <2> HIDE DEF Fits
  <2> QED BY <1>5, <2>1, <2>4
<1>11. ASSUME NEW p \in Pollers, Ingest(p)
       PROVE  DOMAIN query' = Lookups /\ \A k \in Lookups : Fits(query'[k])
  <2> DEFINE i == poll[p].inst
             d == Draft(poll[p].run)
             s == ingestLive(snap[i], d, d, d, FALSE)
  <2>1. /\ poll[p].pc = "ingest" /\ snap' = [snap EXCEPT ![i] = s]
        /\ query' = [k \in Lookups |-> overtaken(k, i)]
    BY <1>11 DEF Ingest
  <2>2. i \in Instances /\ snap[i] \in Snapshots
    BY <1>1, <2>1, PollFacts DEF SnapshotSound
  <2>3. s.up = snap[i].up
    BY <2>2 DEF ingestLive, Snapshots
  <2> HIDE DEF i, s
  <2>4. CASE snap[i].up
    <3>1. \A k \in Lookups : Fits(overtaken(k, i))
      BY <1>1, <2>1, <2>2, <2>3, <2>4, OvertakenSound
    <3> QED BY <2>1, <3>1
  <2>5. CASE ~snap[i].up
    <3>1. \A k \in Lookups : query[k].pc # "idle" => query[k].inst # i
      BY <1>1, <2>5 DEF QueryFits
    <3>2. \A k \in Lookups : overtaken(k, i) = query[k]
      BY <3>1 DEF overtaken
    <3> QED BY <1>1, <2>1, <2>2, <3>1, <3>2
  <2> QED BY <2>4, <2>5
<1> HIDE DEF Fits
<1> QED
  BY <1>3, <1>4, <1>6, <1>7, <1>8, <1>9, <1>10, <1>11, MemoryFrame DEF Lookup

------------------------------------------------------------------------------
(* The theorems                                                            *)

\* At first the rows are what the deploy that was made has seeded.
LEMMA InitDrafts == DraftsInit => DraftsInv
<1> SUFFICES ASSUME DraftsInit
             PROVE  DraftsInv
  OBVIOUS
<1> PICK v \in 1..MaxDeploys : v = deployed
  BY DEF DraftsInit
<1>1. researchRuns = 0 /\ db = Seeded(v) /\ meta = v /\ deployed = v
      /\ claim = [status |-> "none", run |-> 0] /\ 0 \in 0..MaxResearchRuns /\ 0 \in 0..MaxDeploys
  BY DraftLimits DEF DraftsInit
<1>2. RowsSound
  <2>1. claim \in Claims /\ claim.run = 0 /\ claim.status = "none"
    BY <1>1 DEF Claims
  <2>2. db \in Rows /\ db.record.kind # "draft"
    <3>1. CASE v \in InCorpus
      <4>1. Corpus(v) \in Known /\ Corpus(v) # Missing /\ Missing \in Known
        BY <3>1, Documents DEF Known
      <4>2. <<Corpus(v)>> \in Seq(Known \ {Missing})
        BY <4>1
      <4>3. db = [record |-> Corpus(v), draft |-> Missing, metric |-> Corpus(v),
                  steps |-> Corpus(v), gates |-> <<Corpus(v)>>, audit |-> Corpus(v)]
        BY <1>1, <3>1 DEF Seeded
      <4>4. db \in Rows
        BY <4>1, <4>2, <4>3 DEF Rows
      <4> QED BY <4>3, <4>4, Documents
    <3>2. CASE v \notin InCorpus
      <4>1. Missing \in Known /\ <<>> \in Seq(Known \ {Missing})
        BY DEF Known
      <4>2. db = [record |-> Missing, draft |-> Missing, metric |-> Missing,
                  steps |-> Missing, gates |-> <<>>, audit |-> Missing]
        BY <1>1, <3>2 DEF Seeded
      <4>3. db \in Rows
        BY <4>1, <4>2 DEF Rows
      <4> QED BY <4>2, <4>3, Documents
    <3> QED BY <3>1, <3>2
  <2> QED BY <1>1, <2>1, <2>2 DEF RowsSound
<1>3. SeedSound
  <2>1. seed = SeedIdle
    BY DEF DraftsInit
  <2>2. seed \in Seeds /\ seed.pc = "idle"
    BY <1>1, <2>1 DEF SeedIdle, Seeds
  <2> QED BY <2>2, Statement DEF SeedSound
<1>4. DOMAIN poll = Pollers /\ \A p \in Pollers : PollSound(poll[p]) /\ poll[p].pc = "idle"
  <2>1. IdlePoll \in PollRecord /\ IdlePoll.pc = "idle"
    BY <1>1 DEF IdlePoll, PollRecord, PollStages
  <2>2. PollSound(IdlePoll)
    BY <2>1 DEF PollSound, PastMetric, PastAudit
  <2> QED BY <2>1, <2>2 DEF DraftsInit
<1>5. DOMAIN snap = Instances /\ \A i \in Instances : SnapshotSound(snap[i])
  BY <1>1, NewSnapshotSound DEF DraftsInit
<1>6. alone \in [Pollers -> BOOLEAN]
  BY DEF DraftsInit
<1>7. QueriesSound
  <2>1. Missing \in Known /\ query = [l \in Lookups |-> NoQuery]
    BY DEF Known, DraftsInit
  <2>2. NoQuery \in Queries /\ NoQuery.pc = "idle" /\ NoQuery.record = Missing
        /\ NoQuery.audit = Missing
    BY <2>1 DEF NoQuery, Queries
  <2>3. QuerySound(NoQuery)
    BY <2>2, Documents DEF QuerySound
  <2> QED BY <2>1, <2>2, <2>3 DEF QueriesSound
<1> QED BY <1>2, <1>3, <1>4, <1>5, <1>6, <1>7 DEF DraftsInv

\* The inductive invariant holds in every reachable state, for any instances,
\* pollers, lookups, research runs and deploys: rows, polls, seed, snapshots and
\* what requests have read and not yet taken in agree
\* (persistResearchDraft.ts, seed.ts, postgresData.ts).
THEOREM DraftsInvariant == DraftsSpec => []DraftsInv
<1>1. DraftsInit => DraftsInv
  BY InitDrafts
<1>2. DraftsInv /\ [DraftsNext]_draftsVars => DraftsInv'
  BY ClaimStep, SeedStep, PollStep, LoneStep, SnapStep, QueryStep DEF DraftsInv
<1> QED BY <1>1, <1>2, PTL DEF DraftsSpec

\* The rows, the claim and the snapshots fit, as DraftsStored asks of a state.
LEMMA StoredFromInv == DraftsInv => DraftsStored
<1> SUFFICES ASSUME DraftsInv
             PROVE  DraftsStored
  OBVIOUS
<1>1. /\ RowsSound /\ db \in Rows
      /\ \A p \in Pollers : PollSound(poll[p])
      /\ \A i \in Instances : SnapshotSound(snap[i])
      /\ \A l \in Lookups : QuerySound(query[l])
  BY DEF DraftsInv, RowsSound, QueriesSound
<1>2. DraftsTypeOK
  <2>1. {db.record, db.draft, db.metric, db.steps, db.audit} \subseteq Known
    BY <1>1 DEF Rows, Known
  <2>2. \A k \in DOMAIN db.gates : db.gates[k] \in Known \ {Missing}
    BY <1>1 DEF Rows
  <2>3. \A i \in Instances : {snap[i].row, snap[i].record, snap[i].audit} \subseteq Known
    BY <1>1 DEF SnapshotSound, Snapshots
  <2>4. \A p \in Pollers : poll[p].run \in 0..researchRuns /\ poll[p].inst \in Instances \cup {"none"}
    BY <1>1 DEF PollSound, PollRecord
  <2>5. \A l \in Lookups : {query[l].row, query[l].record, query[l].audit} \subseteq Known
    BY <1>1 DEF QuerySound, Queries
  <2> QED BY <1>1, <2>1, <2>2, <2>3, <2>4, <2>5 DEF DraftsTypeOK, Known, Drafts, RowsSound
<1>3. CompletedMeansStored
  <2>1. db.draft # Missing => db.draft.kind = "draft"
    BY <1>1, Kinds DEF Rows
  <2> QED BY <1>1, <2>1 DEF CompletedMeansStored, RowsSound
<1>4. LonePersistIsWhole
  BY DEF LonePersistIsWhole, DraftsInv, WholeSoFar, PastMetric, PastAudit
<1>5. RouteFitsRecord
  BY <1>1 DEF RouteFitsRecord, SnapshotSound
<1> QED BY <1>2, <1>3, <1>4, <1>5 DEF DraftsStored

\* Wherever polls, requests, restarts and deploys cross, the completed claim of a
\* run with a draft has its rows, an undisturbed persist is whole, and an
\* instance that no late load has set back draws the route of the record that it
\* serves (research.ts, persistResearchDraft.ts, storeHelpers.ts, postgresData.ts).
THEOREM DraftsAreStored == DraftsSpec => []DraftsStored
BY DraftsInvariant, StoredFromInv, PTL

\* A corpus record that an instance takes in once there is a draft was read by a
\* request of that instance.
LEMMA TakesInDrafts ==
  ASSUME DraftsInv, [DraftsNext]_draftsVars, db.draft # Missing, NEW i \in Instances,
         snap'[i].record # snap[i].record, snap'[i].record.kind = "corpus"
  PROVE  \E l \in Lookups : query[l].inst = i /\ query[l].record = snap'[i].record
<1>1. /\ RowsSound /\ DOMAIN snap = Instances /\ snap[i] \in Snapshots
      /\ servedRecord(db).kind = "draft"
  BY Served DEF DraftsInv, SnapshotSound
<1>2. ASSUME NEW p \in Pollers, Ingest(p)
      PROVE  FALSE
  <2> DEFINE d == Draft(poll[p].run)
             j == poll[p].inst
  <2>1. snap' = [snap EXCEPT ![j] = ingestLive(snap[j], d, d, d, FALSE)] /\ poll[p].pc = "ingest"
    BY <1>2 DEF Ingest
  <2>2. j \in Instances /\ snap[j] \in Snapshots
    BY <2>1, PollFacts DEF DraftsInv, SnapshotSound
  <2>3. d.kind = "draft"
    BY Documents
  <2> HIDE DEF d, j
  <2>4. ingestLive(snap[j], d, d, d, FALSE).record = d
    BY <2>2 DEF ingestLive, Snapshots
  <2> QED BY <1>1, <2>1, <2>2, <2>3, <2>4
<1>3. ASSUME NEW j \in Instances, Restart(j)
      PROVE  FALSE
  <2>1. snap'[i] = snap[i] \/ snap'[i] = NoSnapshot(deployed)
    BY <1>1, <1>3 DEF Restart
  <2> QED BY <2>1, Documents DEF NoSnapshot
<1>4. ASSUME NEW j \in Instances, LoadTable(j)
      PROVE  FALSE
  <2>1. snap'[i].record = servedRecord(db)
    BY <1>1, <1>4 DEF LoadTable, WithTable, Snapshots
  <2> QED BY <1>1, <2>1
<1>5. ASSUME NEW j \in Instances, Serve(j)
      PROVE  FALSE
  BY <1>1, <1>5 DEF Serve, Snapshots
<1>6. ASSUME NEW l \in Lookups, TakeIn(l)
      PROVE  query[l].inst = i /\ query[l].record = snap'[i].record
  <2> DEFINE j == query[l].inst
             q == query[l]
  <2>1. snap' = [snap EXCEPT ![j] = takenIn(snap[j], q)] /\ q.pc # "idle"
    BY <1>6 DEF TakeIn
  <2>2. j \in Instances /\ snap[j] \in Snapshots
    BY <2>1 DEF DraftsInv, QueriesSound, QuerySound, SnapshotSound
  <2>3. takenIn(snap[j], q).record = q.record
    BY <2>2 DEF takenIn, ingestLive, Snapshots
  <2> HIDE DEF j
  <2>4. j = i
    BY <1>1, <2>1
  <2> QED BY <1>1, <2>1, <2>3, <2>4 DEF j
<1>7. ASSUME NEW l \in Lookups, Lookup(l), ~TakeIn(l)
      PROVE  UNCHANGED snap
  BY <1>7 DEF Lookup, Visit, Search, Ask, ReadRelated, PassOver
<1> QED
  BY <1>2, <1>3, <1>4, <1>5, <1>6, <1>7, MemoryFrame

\* Once there is a draft, no request reads a corpus record.
LEMMA ReadsDrafts ==
  ASSUME DraftsInv, [DraftsNext]_draftsVars, db.draft # Missing, NEW l \in Lookups,
         query'[l].record # query[l].record
  PROVE  query'[l].record.kind # "corpus"
<1>1. /\ RowsSound /\ DOMAIN query = Lookups /\ servedRecord(db).kind = "draft"
      /\ \A k \in Lookups : query[k] \in Queries
      /\ NoQuery.record = Missing
  BY Served DEF DraftsInv, QueriesSound, QuerySound, NoQuery
<1>2. \A k \in Lookups, i \in Instances : overtaken(k, i).record = query[k].record
  BY <1>1 DEF overtaken, Queries
<1>3. CASE UNCHANGED query
  BY <1>3
<1>4. ASSUME NEW p \in Pollers, Ingest(p)
      PROVE  FALSE
  <2>1. poll[p].inst \in Instances
    BY <1>4, PollFacts DEF Ingest
  <2> QED BY <1>2, <1>4, <2>1 DEF Ingest
<1>5. ASSUME NEW i \in Instances, Restart(i)
      PROVE  query'[l].record = Missing
  BY <1>1, <1>5 DEF Restart
<1>6. ASSUME NEW k \in Lookups, NEW i \in Instances, Visit(k, i) \/ Search(k, i)
      PROVE  query'[l].record = servedRecord(db)
  <2> PICK pc : Ask(k, i, pc)
    BY <1>6 DEF Visit, Search
  <2>1. query' = [query EXCEPT ![k] =
          [NoQuery EXCEPT !.pc = pc, !.inst = i, !.record = servedRecord(db),
                          !.toLoad = {"metric", "audit"}]]
    BY DEF Ask
  <2>2. [NoQuery EXCEPT !.pc = pc, !.inst = i, !.record = servedRecord(db),
                        !.toLoad = {"metric", "audit"}].record = servedRecord(db)
    BY DEF NoQuery
  <2> QED BY <1>1, <2>1, <2>2
<1>7. ASSUME NEW k \in Lookups, ReadRelated(k)
      PROVE  FALSE
  <2> PICK t \in query[k].toLoad : query' = [query EXCEPT ![k] = WithTable(query[k], t)]
    BY <1>7 DEF ReadRelated
  <2>1. t \in {"metric", "audit"}
    BY <1>1 DEF Queries
  <2>2. WithTable(query[k], t).record = query[k].record
    BY <1>1, <2>1 DEF WithTable, Queries
  <2> QED BY <1>1, <2>2
<1>8. ASSUME NEW k \in Lookups, PassOver(k)
      PROVE  query'[l].record = Missing
  BY <1>1, <1>8 DEF PassOver
<1>9. ASSUME NEW k \in Lookups, TakeIn(k)
      PROVE  query'[l].record = Missing
  <2>1. query[k].inst \in Instances
    BY <1>9 DEF TakeIn, DraftsInv, QueriesSound, QuerySound
  <2> QED BY <1>1, <1>2, <1>9, <2>1 DEF TakeIn
<1>10. (\E i \in Instances : LoadTable(i) \/ Serve(i)) => UNCHANGED query
  BY DEF LoadTable, Serve
<1> QED
  BY <1>1, <1>3, <1>4, <1>5, <1>6, <1>7, <1>8, <1>9, <1>10, MemoryFrame, Documents DEF Lookup

\* No deploy, poll or restart loses a draft, no request reads a corpus record of
\* a platform that has one, and an instance takes one in only for a request that
\* had read it before (seed.ts, persistResearchDraft.ts, postgresData.ts).
THEOREM DraftsOutliveDeploys == DraftsSpec => DraftOutlivesDeploys
<1>1. DraftsInv /\ [DraftsNext]_draftsVars =>
        [db.draft # Missing =>
           /\ db'.draft # Missing
           /\ \A q \in Lookups :
                query'[q].record # query[q].record => query'[q].record.kind # "corpus"
           /\ \A i \in Instances :
                snap'[i].record # snap[i].record /\ snap'[i].record.kind = "corpus" =>
                  \E q \in Lookups :
                    query[q].inst = i /\ query[q].record = snap'[i].record]_draftsVars
  BY RowsStep, TakesInDrafts, ReadsDrafts DEF Grows
<1> QED BY <1>1, DraftsInvariant, PTL DEF DraftsSpec, DraftOutlivesDeploys
==============================================================================
