----------------------------- MODULE AtlasDrafts -----------------------------
(***************************************************************************)
(* How one platform reaches the visitors of the Atlas: polls that persist  *)
(* a finished research draft (persistResearchDraft.ts, api/research.ts),   *)
(* the seed that runs before each deploy (db/seed.ts), and the snapshots   *)
(* that the web instances serve from (postgresData.ts, storeHelpers.ts,    *)
(* journey.ts).  Postgres executes one statement at a time; nothing here   *)
(* is a transaction, so every statement is a step, and an instance may die *)
(* between any two of them.                                                *)
(*                                                                         *)
(* A stored value is abstracted to the document it was derived from: the   *)
(* corpus record of a deploy or the draft of a research run.               *)
(***************************************************************************)
EXTENDS Naturals, Sequences, FiniteSets

CONSTANTS Instances,    \* web instances
          Pollers,      \* poll requests that may be in flight together
          Lookups,      \* requests that may be asking Postgres for the platform together
          MaxResearchRuns, \* research runs of this platform
          MaxDeploys,   \* deploys, one of which Init has completed
          InCorpus,     \* the deploys whose corpus has a record of the platform
          Reviewed,     \* the deploys with a committed journey graph for it
          Published     \* the deploys whose publication gate lets it through

ASSUME DeploysKnown == Reviewed \subseteq InCorpus /\ Published \subseteq Reviewed
ASSUME DraftLimits == MaxResearchRuns \in Nat /\ MaxDeploys \in Nat \ {0}

VARIABLES
  db,        \* the platform's rows: record, draft, metric, steps, gates, audit
  meta,      \* the deploy whose dataset metadata the singleton row carries
  claim,     \* the research claim of the platform
  researchRuns, \* research runs started so far
  outcome,   \* outcome[r]: how run r ends: with a draft, with none to add, or failed
  poll,      \* poll[p]: the poll that p is serving
  seed,      \* the seed of the deploy under way
  deployed,  \* the deploy that new instances belong to
  snap,      \* snap[i]: what instance i holds in memory
  query,     \* query[q]: what request q has read of the platform and not yet taken in
  alone      \* alone[p]: nobody else has written since p's persist began

stored == <<db, meta, claim>>
researchVars == <<researchRuns, outcome>>
servingVars == <<snap, query>>
draftsVars == <<db, meta, claim, researchRuns, outcome, poll, seed, deployed, snap, query, alone>>
------------------------------------------------------------------------------
(* Documents                                                               *)

Missing == [kind |-> "none", of |-> 0]
Corpus(v) == [kind |-> "corpus", of |-> v]
Draft(r) == [kind |-> "draft", of |-> r]

Graph(v) == [kind |-> "reviewed", of |-> v]

\* A live reconstruction wins over the canonical record.
servedRecord(row) == IF row.draft # Missing THEN row.draft ELSE row.record

\* The graph a snapshot registers when it takes in a record: its own, unless
\* the deploy ships a reviewed one; a corpus record carries none.
registered(v, record, graph) ==
  IF v \in Reviewed THEN Graph(v)
  ELSE IF record.kind = "draft" THEN record ELSE graph

isPublicEligible(i) == snap[i].deploy \in Published
------------------------------------------------------------------------------
(* The statements persistResearchDraft and the seed share                  *)

\* Two sets of steps of one platform clash on step number 1.
stepsClash == db.steps # Missing

withPlatformOfDraft(d) ==
  [db EXCEPT !.record = IF @ = Missing THEN d ELSE @, !.draft = d]

\* The seed writes the only record there is.
withPlatformOfSeedAlone(c) == [db EXCEPT !.record = c, !.draft = Missing]

withPlatformOfSeed(c) == [db EXCEPT !.record = c]

\* What each statement leaves, given the document that is being written.
After(pc, d) ==
  CASE pc = "metric" -> [db EXCEPT !.metric = d]
    [] pc = "dropSteps" -> [db EXCEPT !.steps = Missing]
    [] pc = "addSteps" -> [db EXCEPT !.steps = d]
    [] pc = "dropGates" -> [db EXCEPT !.gates = <<>>]
    [] pc = "addGates" -> [db EXCEPT !.gates = Append(@, d)]
    [] pc = "audit" -> [db EXCEPT !.audit = d]

Rest == <<"metric", "dropSteps", "addSteps", "dropGates", "addGates", "audit">>
Statements == {Rest[k] : k \in 1..6}

\* The statement after pc, or last when pc is the final one.
NextStatement(pc, last) ==
  LET k == CHOOSE n \in 1..6 : Rest[n] = pc
  IN  IF k = 6 THEN last ELSE Rest[k + 1]

OthersWrite(p) == alone' = [q \in Pollers |-> alone[q] /\ q = p]
------------------------------------------------------------------------------
(* Research runs and their claims                                          *)

StartRun(i) ==
  /\ snap[i].up /\ ~isPublicEligible(i)
  /\ claim.status \in {"none", "failed"} /\ researchRuns < MaxResearchRuns
  /\ researchRuns' = researchRuns + 1
  /\ \E o \in {"draft", "known", "failed"} :
       outcome' = [outcome EXCEPT ![researchRuns + 1] = o]
  /\ claim' = [status |-> "pending", run |-> researchRuns + 1]
  /\ UNCHANGED <<db, meta, poll, seed, deployed, servingVars, alone>>

\* A poll of a run that ended without a draft.  The task's own copy of the
\* corpus may be newer than the instance's and publish the platform: "known"
\* (the contract's review_required is treated alike); other ends are "failed".
CompleteWithoutDraft(r) ==
  /\ r <= researchRuns /\ outcome[r] = "known" /\ claim.run = r
  /\ claim' = [claim EXCEPT !.status = "completed"]
  /\ UNCHANGED <<db, meta, researchVars, poll, seed, deployed, servingVars, alone>>

FailRun(r) ==
  /\ r <= researchRuns /\ outcome[r] = "failed"
  /\ claim.run = r /\ claim.status = "pending"
  /\ claim' = [claim EXCEPT !.status = "failed"]
  /\ UNCHANGED <<db, meta, researchVars, poll, seed, deployed, servingVars, alone>>

\* Retention is counted in days: no poll lasts that long.
CleanupClaims ==
  /\ claim.status # "none" /\ \A p \in Pollers : poll[p].pc = "idle"
  /\ claim' = [status |-> "none", run |-> 0]
  /\ UNCHANGED <<db, meta, researchVars, poll, seed, deployed, servingVars, alone>>
------------------------------------------------------------------------------
(* A poll of a run that has completed: persistCompletedResearch            *)

Proceed(p, pc) == poll' = [poll EXCEPT ![p].pc = pc]
IdlePoll == [pc |-> "idle", run |-> 0, inst |-> "none", meta |-> 0]

BeginPersist(p, i, r) ==
  /\ poll[p].pc = "idle" /\ snap[i].up /\ r <= researchRuns /\ outcome[r] = "draft"
  /\ poll' = [poll EXCEPT ![p] = [pc |-> "platform", run |-> r, inst |-> i, meta |-> 0]]
  /\ alone' = [alone EXCEPT ![p] = seed.pc = "idle"]
  /\ UNCHANGED <<stored, researchVars, seed, deployed, servingVars>>

\* The claim is completed before the first statement.
PersistPlatformClaimed(p) ==
  /\ poll[p].pc = "platform"
  /\ db' = withPlatformOfDraft(Draft(poll[p].run))
  /\ claim' = [claim EXCEPT !.status = IF @ = "none" THEN @ ELSE "completed"]
  /\ Proceed(p, "metric") /\ OthersWrite(p)
  /\ UNCHANGED <<meta, researchVars, seed, deployed, servingVars>>

PersistPlatform(p) ==
  /\ poll[p].pc = "platform"
  /\ db' = withPlatformOfDraft(Draft(poll[p].run))
  /\ Proceed(p, "metric") /\ OthersWrite(p)
  /\ UNCHANGED <<meta, claim, researchVars, seed, deployed, servingVars>>

PersistStatement(p) ==
  LET pc == poll[p].pc
  IN  /\ pc \in Statements
      /\ pc = "addSteps" => ~stepsClash
      /\ db' = After(pc, Draft(poll[p].run))
      /\ Proceed(p, NextStatement(pc, "readMeta")) /\ OthersWrite(p)
      /\ UNCHANGED <<meta, claim, researchVars, seed, deployed, servingVars>>

\* The insert fails on a duplicate step number: 502, and the claim stands.
PersistClash(p) ==
  /\ poll[p].pc = "addSteps" /\ stepsClash
  /\ poll' = [poll EXCEPT ![p] = IdlePoll]
  /\ UNCHANGED <<stored, researchVars, seed, deployed, servingVars, alone>>

ReadMeta(p) ==
  /\ poll[p].pc = "readMeta"
  /\ poll' = [poll EXCEPT ![p].pc = "writeMeta", ![p].meta = meta]
  /\ UNCHANGED <<stored, researchVars, seed, deployed, servingVars, alone>>

\* The row is written back as it was read, with a new count.
WriteMeta(p) ==
  /\ poll[p].pc = "writeMeta"
  /\ meta' = poll[p].meta
  /\ Proceed(p, "ingest") /\ OthersWrite(p)
  /\ UNCHANGED <<db, claim, researchVars, seed, deployed, servingVars>>

\* behind is history: what was taken in is older than what it replaced.
ingestLive(s, record, row, audit, behind) ==
  [s EXCEPT !.row = row, !.record = record, !.audit = audit,
            !.graph = registered(s.deploy, record, @), !.behind = behind]

\* History: the instance takes something in while q is about to.
overtaken(q, i) ==
  IF query[q].pc # "idle" /\ query[q].inst = i THEN [query[q] EXCEPT !.overtaken = TRUE]
  ELSE query[q]

Ingest(p) ==
  LET d == Draft(poll[p].run)
  IN  /\ poll[p].pc = "ingest"
      /\ snap' = [snap EXCEPT ![poll[p].inst] = ingestLive(@, d, d, d, FALSE)]
      /\ query' = [q \in Lookups |-> overtaken(q, poll[p].inst)]
      /\ Proceed(p, "claimSlug")
      /\ UNCHANGED <<stored, researchVars, seed, deployed, alone>>

CompleteBySlug(p) ==
  /\ poll[p].pc = "claimSlug"
  /\ claim' = [claim EXCEPT !.status = IF @ = "none" THEN @ ELSE "completed"]
  /\ Proceed(p, "claimRun")
  /\ UNCHANGED <<db, meta, researchVars, seed, deployed, servingVars, alone>>

CompleteByRun(p) ==
  /\ poll[p].pc = "claimRun"
  /\ claim' = IF claim.run = poll[p].run THEN [claim EXCEPT !.status = "completed"] ELSE claim
  /\ poll' = [poll EXCEPT ![p] = IdlePoll]
  /\ UNCHANGED <<db, meta, researchVars, seed, deployed, servingVars, alone>>

\* A statement fails: 502 from here, and the browser may poll again.
PersistFails(p) ==
  /\ poll[p].pc \in Statements \cup {"platform", "readMeta", "writeMeta", "claimSlug", "claimRun"}
  /\ poll' = [poll EXCEPT ![p] = IdlePoll]
  /\ UNCHANGED <<stored, researchVars, seed, deployed, servingVars, alone>>
------------------------------------------------------------------------------
(* A deploy: the seed runs while the old instances still serve             *)

SeedIdle == [pc |-> "idle", deploy |-> 0]
SeedGoto(pc) == seed' = [seed EXCEPT !.pc = pc]

\* Either the platform is not in the corpus, or a completed claim with a run
\* marks a live draft that the seed leaves alone, or its record is imported.
leftAlone == claim.status = "completed" /\ claim.run # 0

BeginSeed ==
  /\ seed.pc = "idle" /\ deployed < MaxDeploys
  /\ seed' = [pc |-> IF deployed + 1 \in InCorpus /\ ~leftAlone THEN "platform" ELSE "meta",
              deploy |-> deployed + 1]
  /\ alone' = [p \in Pollers |-> FALSE]
  /\ UNCHANGED <<stored, researchVars, poll, deployed, servingVars>>

SeedPlatform ==
  /\ seed.pc = "platform"
  /\ db' = withPlatformOfSeed(Corpus(seed.deploy))
  /\ SeedGoto("metric")
  /\ UNCHANGED <<meta, claim, researchVars, poll, deployed, servingVars, alone>>

SeedStatement ==
  /\ seed.pc \in Statements
  /\ seed.pc = "addSteps" => ~stepsClash
  /\ db' = After(seed.pc, Corpus(seed.deploy))
  /\ SeedGoto(NextStatement(seed.pc, "meta"))
  /\ UNCHANGED <<meta, claim, researchVars, poll, deployed, servingVars, alone>>

\* A failed seed cancels the deploy; the old instances go on serving.
SeedFails ==
  /\ seed.pc = "addSteps" /\ stepsClash
  /\ seed' = SeedIdle
  /\ UNCHANGED <<stored, researchVars, poll, deployed, servingVars, alone>>

SeedMeta ==
  /\ seed.pc = "meta"
  /\ meta' = seed.deploy /\ deployed' = seed.deploy
  /\ seed' = SeedIdle
  /\ UNCHANGED <<db, claim, researchVars, poll, servingVars, alone>>
------------------------------------------------------------------------------
(* Instances                                                               *)

NoSnapshot(v) ==
  [up |-> FALSE, deploy |-> v, row |-> Missing, record |-> Missing, audit |-> Missing,
   graph |-> Missing, toLoad |-> {"metric", "platform", "audit"}, behind |-> FALSE]

NoQuery ==
  [pc |-> "idle", inst |-> "none", row |-> Missing, record |-> Missing, audit |-> Missing,
   toLoad |-> {}, overtaken |-> FALSE]

\* The process is replaced; the requests it was serving are cut off.
Restart(i) ==
  /\ snap' = [snap EXCEPT ![i] = NoSnapshot(deployed)]
  /\ poll' = [p \in Pollers |-> IF poll[p].inst = i THEN IdlePoll ELSE poll[p]]
  /\ query' = [q \in Lookups |-> IF query[q].inst = i THEN NoQuery ELSE query[q]]
  /\ UNCHANGED <<stored, researchVars, seed, deployed, alone>>

\* What table t holds of the platform now, in place of what s holds of it.
WithTable(s, t) ==
  [s EXCEPT !.toLoad = @ \ {t},
            !.row = IF t = "metric" THEN db.metric ELSE @,
            !.record = IF t = "platform" THEN servedRecord(db) ELSE @,
            !.audit = IF t = "audit" THEN db.audit ELSE @]

\* The tables are read by separate queries, in any order.
LoadTable(i) ==
  /\ ~snap[i].up
  /\ \E t \in snap[i].toLoad : snap' = [snap EXCEPT ![i] = WithTable(@, t)]
  /\ UNCHANGED <<stored, researchVars, poll, seed, deployed, query, alone>>

\* Graphs of drafts survive a restart, unless a reviewed one is committed.
Serve(i) ==
  /\ ~snap[i].up /\ snap[i].toLoad = {}
  /\ snap' = [snap EXCEPT ![i] =
       [snap[i] EXCEPT !.up = TRUE, !.graph = registered(snap[i].deploy, snap[i].record, Missing)]]
  /\ UNCHANGED <<stored, researchVars, poll, seed, deployed, query, alone>>

\* A request asks for the platform's row; its metric and its audit are read
\* after it.  Meanwhile the instance serves other requests.
Ask(q, i, pc) ==
  /\ query[q].pc = "idle" /\ snap[i].up /\ db.record # Missing
  /\ query' = [query EXCEPT ![q] =
       [NoQuery EXCEPT !.pc = pc, !.inst = i, !.record = servedRecord(db),
                       !.toLoad = {"metric", "audit"}]]
  /\ UNCHANGED <<stored, researchVars, poll, seed, deployed, snap, alone>>

\* ensureRow asks for what is not in memory, a search for what it matches.
Visit(q, i) == snap[i].row = Missing /\ Ask(q, i, "visit")
Search(q, i) == Ask(q, i, "search")

ReadRelated(q) ==
  /\ query[q].pc # "idle"
  /\ \E t \in query[q].toLoad : query' = [query EXCEPT ![q] = WithTable(@, t)]
  /\ UNCHANGED <<stored, researchVars, poll, seed, deployed, snap, alone>>

\* A platform without a metric is passed over, and so is, by a search, one
\* without an audit that is in memory already.
passedOver(q) ==
  \/ query[q].row = Missing
  \/ query[q].audit = Missing /\ query[q].pc = "search" /\ snap[query[q].inst].row # Missing

\* Without an audit only the row and the record are taken in.
takenIn(s, q) ==
  IF q.audit = Missing THEN [s EXCEPT !.row = q.row, !.record = q.record, !.behind = q.overtaken]
  ELSE ingestLive(s, q.record, q.row, q.audit, q.overtaken)

\* What was read is taken in without another look at what memory holds by then.
TakeIn(q) ==
  /\ query[q].pc # "idle" /\ query[q].toLoad = {} /\ ~passedOver(q)
  /\ snap' = [snap EXCEPT ![query[q].inst] = takenIn(@, query[q])]
  /\ query' = [r \in Lookups |-> IF r = q THEN NoQuery ELSE overtaken(r, query[q].inst)]
  /\ UNCHANGED <<stored, researchVars, poll, seed, deployed, alone>>

PassOver(q) ==
  /\ query[q].pc # "idle" /\ query[q].toLoad = {} /\ passedOver(q)
  /\ query' = [query EXCEPT ![q] = NoQuery]
  /\ UNCHANGED <<stored, researchVars, poll, seed, deployed, snap, alone>>
------------------------------------------------------------------------------
Seeded(v) ==
  IF v \in InCorpus
  THEN [record |-> Corpus(v), draft |-> Missing, metric |-> Corpus(v), steps |-> Corpus(v),
        gates |-> <<Corpus(v)>>, audit |-> Corpus(v)]
  ELSE [record |-> Missing, draft |-> Missing, metric |-> Missing, steps |-> Missing,
        gates |-> <<>>, audit |-> Missing]

DraftsInit ==
  /\ deployed \in 1..MaxDeploys /\ meta = deployed /\ db = Seeded(deployed)
  /\ claim = [status |-> "none", run |-> 0] /\ researchRuns = 0
  /\ poll = [p \in Pollers |-> IdlePoll] /\ seed = SeedIdle
  /\ outcome = [r \in 1..MaxResearchRuns |-> "none"]
  /\ snap = [i \in Instances |-> NoSnapshot(deployed)] /\ query = [q \in Lookups |-> NoQuery]
  /\ alone = [p \in Pollers |-> FALSE]

Persist(p) ==
  \/ \E i \in Instances, r \in 1..MaxResearchRuns : BeginPersist(p, i, r)
  \/ PersistPlatform(p) \/ PersistStatement(p) \/ PersistClash(p)
  \/ ReadMeta(p) \/ WriteMeta(p) \/ Ingest(p)
  \/ CompleteBySlug(p) \/ CompleteByRun(p) \/ PersistFails(p)

Deploy == BeginSeed \/ SeedPlatform \/ SeedStatement \/ SeedFails \/ SeedMeta

Instance(i) == Restart(i) \/ LoadTable(i) \/ Serve(i) \/ StartRun(i)

Lookup(q) ==
  \/ \E i \in Instances : Visit(q, i) \/ Search(q, i)
  \/ ReadRelated(q) \/ TakeIn(q) \/ PassOver(q)

RunEnds(r) == CompleteWithoutDraft(r) \/ FailRun(r)

DraftsNext ==
  \/ \E p \in Pollers : Persist(p)
  \/ Deploy
  \/ \E i \in Instances : Instance(i)
  \/ \E q \in Lookups : Lookup(q)
  \/ \E r \in 1..MaxResearchRuns : RunEnds(r)
  \/ CleanupClaims

DraftsSpec == DraftsInit /\ [][DraftsNext]_draftsVars
------------------------------------------------------------------------------
(* Properties                                                              *)

\* The rows, the polls and the snapshots have their types; every value is the
\* corpus record of a deploy or the draft of a run that was started.
DraftsTypeOK ==
  LET Known == {Missing} \cup {Corpus(v) : v \in InCorpus} \cup {Draft(r) : r \in 1..researchRuns}
  IN  /\ {db.record, db.draft, db.metric, db.steps, db.audit} \subseteq Known
      /\ \A k \in DOMAIN db.gates : db.gates[k] \in Known \ {Missing}
      /\ \A i \in Instances : {snap[i].row, snap[i].record, snap[i].audit} \subseteq Known
      /\ \A q \in Lookups : {query[q].row, query[q].record, query[q].audit} \subseteq Known
      /\ meta \in 1..MaxDeploys /\ deployed \in 1..MaxDeploys /\ researchRuns \in 0..MaxResearchRuns
      /\ \A p \in Pollers : poll[p].run \in 0..researchRuns /\ poll[p].inst \in Instances \cup {"none"}

\* The claim of a run that brings a draft is completed only after everything a
\* visit needs has been stored: if a poll is cut off before that, the claim
\* still points to the run, and another poll can store its result
\* (research.ts, persistCompletedResearch).  A run that ends with nothing to
\* add completes its claim with nothing stored.
CompletedMeansStored ==
  claim.status = "completed" =>
    \/ outcome[claim.run] = "known"
    \/ db.draft.kind = "draft" /\ db.metric # Missing /\ db.audit # Missing

\* A draft is never lost to a deploy: the row keeps one once it has one, no
\* request reads a corpus record after that, and an instance takes a corpus
\* record in only for a request that had read it before the draft was there
\* (persistResearchDraft.ts, "a draft written there would be silently
\* discarded on the next release").
DraftOutlivesDeploys ==
  [][db.draft # Missing =>
       /\ db'.draft # Missing
       /\ \A q \in Lookups :
            query'[q].record # query[q].record => query'[q].record.kind # "corpus"
       /\ \A i \in Instances :
            snap'[i].record # snap[i].record /\ snap'[i].record.kind = "corpus" =>
              \E q \in Lookups : query[q].inst = i /\ query[q].record = snap'[i].record]_draftsVars

\* A poll that wrote without company leaves one document in every row, with
\* each gate once, however often the run had been polled, and however many of
\* those polls had been cut off half-way (persistResearchDraft.ts).
LonePersistIsWhole ==
  \A p \in Pollers :
    alone[p] /\ poll[p].pc \in {"ingest", "claimSlug", "claimRun"} =>
      LET d == Draft(poll[p].run)
      IN  /\ {db.draft, db.metric, db.steps, db.audit} = {d}
          /\ db.gates = <<d>>

\* An instance of a deploy with a reviewed graph draws every route on it; any
\* other that holds the platform whole draws it on the graph of the very draft
\* it serves, through restarts, polls, loads and deploys (postgresData.ts, "A
\* reviewed graph is never replaced by a reconstruction").  Two loads pair the
\* graph of one draft with the record of another document: one without an
\* audit, which leaves the graph as it was, and one that something newer has
\* overtaken between its query and its taking in.
RouteFitsRecord ==
  \A i \in Instances :
    snap[i].up =>
      IF snap[i].deploy \in Reviewed THEN snap[i].graph = Graph(snap[i].deploy)
      ELSE snap[i].audit # Missing /\ ~snap[i].behind =>
             snap[i].graph = IF snap[i].record.kind = "draft" THEN snap[i].record ELSE Missing

\* Wherever polls, requests, restarts and deploys cross: a completed claim has
\* its rows, undisturbed persists are whole, and an instance that no late load
\* has set back draws the route of the record that it serves.
DraftsStored ==
  /\ DraftsTypeOK
  /\ CompletedMeansStored
  /\ LonePersistIsWhole
  /\ RouteFitsRecord
==============================================================================
