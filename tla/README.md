# Developer Journey Atlas: specifications

TLA+ models of the protocols in this repository, the TLC configurations that
check them on small instances, and TLAPS proofs of every safety property that
these runs check.

    tlc -config DiagnosticStore.cfg MCDiagnosticStore     # any run of PROJECT.json
    tlapm ResearchClaimsProofs.tla                        # any proof module of section 5

`PROJECT.json` lists the runs, maps every definition to the lines it models, and
records hazards, findings and the mistakes used for sensitivity checks.

## 1. Inventory

The repository holds two products that share a database server and Render
Workflows.

**A. The adaptive diagnostic** (`server/`, `workflows/`, `database/`, `src/`). A
participant answers questions one at a time. Each answer is saved encrypted,
handed to a Render task, reasoned about, and added to the session's state. A
form in the browser, with its own deterministic engine, asks the same kind of
questions without a server.

**B. The Journey Atlas** (`packages/journey-corpus/`). Visitors ask for research
on a platform. One Render run serves all visitors who ask for the same platform,
and its draft is stored and read back by polling. Offline scripts and tasks
review, publish, verify, link and compare the records.

| Component | State it keeps | Operations | Correct when | Module |
|---|---|---|---|---|
| Diagnostic store (`server/store.ts`, `server/postgres-store.ts`) | a session row (revision, status, pending turn, state), a row per turn (status, revision, envelope) | create, accept, retry, claim, complete, fail, delete, purge | one answer in flight; answers applied once, in order, on the current state; settled turns final; envelopes kept as long as needed; a session is not blocked for ever | `DiagnosticStore`, `AnswerLog` |
| Diagnostic service, dispatcher, turn processor, workflow task (`server/service.ts`, `dispatcher.ts`, `processor.ts`, `workflows/src/`) | what each request or callback read before an `await`; `workflow_run_id`; Render's keys and attempts | submit, retry, process, dispatch, reattach, time out | only legal uses of the store; one live run per turn; late attempts change nothing | `DiagnosticSystem` |
| Reasoner, validator and question policy (`server/reasoner.ts`, `validator.ts`, `objective-*.ts`) | the state inside a session | propose, validate, apply, correct | prompts within budgets; what counts as answered or concluded rests on turns that stand | `TurnPolicy` |
| Rate limiter (`server/rate-limit.ts`, `http.ts`) | buckets per key | consume, prune | at most so many per stretch of time; `Retry-After` is kept | `RequestGate` |
| Browser form (`src/App.tsx`) | screen, history, answers, local storage, an older session | edit, walk back, reload, import, delete | break, path, question and observation agree; the local copy goes last | `FirstMileApp` |
| Case engine (`src/domain/diagnostic-engine.ts`) | an append-only sequence of events | answer, correct, signal | one active answer a question; retractions final; an open case asks on | `DiagnosticCase` |
| Diagnosis and its contracts (`src/domain/diagnosis-assembler.ts`, `evidence-validation.ts`, `comparison-validation.ts`) | claims made so far | claim, request, assemble | shows only what standing answers support | `DiagnosisAssembly` |
| Research claims and API with Postgres (`src/db/researchClaims.ts`, `src/api/research.ts`, `src/workflows/renderRunner.ts`) | one row per platform | begin, attach, complete, fail, clean up, poll | one live run per platform; an attempt keeps its input and key until it is resolved | `ResearchClaims` |
| Submissions in memory (`src/api/research.ts` without Postgres, `src/api/verify.ts`) | maps and slots of a process | start, poll, recover | the memory bounds the tasks that are paid for | `SubmissionMemory` |
| Research pipeline (`src/core/researchPipeline.ts`, `src/workflows/research.ts`, `src/adapters/openRouter.ts`) | none between tasks | look up, search, reconstruct, ground | early exits; bounded cost; only grounded drafts complete | `ResearchPipeline` |
| Search of official pages (`src/adapters/youSearch.ts`, `src/core/sourceAuthority.ts`) | pages fetched so far | search, fetch, follow | asks nobody but the platform | `OfficialSearch` |
| Draft persistence, seed, snapshots (`src/db/persistResearchDraft.ts`, `seed.ts`, `src/adapters/postgresData.ts`, `src/api/storeHelpers.ts`) | rows of a platform; a snapshot per instance | poll and persist, seed, load, visit | a completed draft is stored and found, whole, and survives deploys | `AtlasDrafts` |
| Audits and draft pull requests (`src/core/runVerifyAudit.ts`, `auditEligibility.ts`, `src/adapters/githubPr.ts`) | a branch, a file, a pull request | check, search, propose, contribute | maintainers get only what the gates allow, once | `AuditContribution` |
| Blocker linking (`src/core/runBlockerLinking.ts`, `blockerLinking.ts`) | vectors, links | embed, retrieve, confirm, replace | links rest on the present catalog and on the model's answer | `BlockerLinking` |
| Journey graph, route, evidence (`src/core/journeyGraph.ts`, `journeyOverlay.ts`, `journeyEvidence.ts`) | none | validate, show, disclose | a shown route can be followed and says what it rests on | `JourneyGraph`, `JourneyRoute` |
| Publication gate (`scripts/build-corpus-health.mjs`, `src/core/publicationGate.ts`) | a committed build | judge | publishes only what was retrieved and validates | `CorpusHealth` |
| Labelling workflow (`scripts/reason-lab.mjs`) | a packet and a status file | label, settle, discard, status | labels of different people; verdicts fit | `ReasonLab` |
| Peer comparison (`src/core/peerComparison.ts`) | none | qualify, compare | meets the criteria it states | `PeerComparison` |
| Privacy, configuration, telemetry, migration; web application and read API; legacy scores; other scripts | none of protocol interest | parse, encrypt, log, render | - | - |

Paths without a package are of the diagnostic in the first seven rows and of
`packages/journey-corpus/` in the others.

How they interact:

    participant --HTTP--> service --tx--> store          visitor --HTTP--> research API
                            | startTask                       | statements     | startTask
                            v                                 v                v
                       Render run --HTTP callback-->     research_claims   Render run
                         (attempts)   processor --tx--> store         ^  poll  |
                                                                      +--------+

What makes it hard:

- *State read before an await.* `submitTurn` reads the session before it accepts;
  a processor holds a session state for as long as the reasoner takes; a research
  handler holds a claim it read two statements ago.
- *Overlapping workers.* An HTTP attempt that the Render task gave up after its
  timeout goes on in the server, next to the following attempt, a retry by
  the participant, or the dispatcher's failure handling.
- *Lost replies.* `startTask` may be accepted although its caller saw an error.
  Both products use idempotency keys to find the run again.
- *Partial failure.* A run exists, but the mark that names it was not written; a
  claim exists, but nobody submits it.
- *Statements without a transaction.* Polls, the seed, the linking task and the
  claims write several rows one by one, while other processes do the same.
- *Edits.* Answers are corrected, steps taken out, graphs revised and reviews
  repeated after something else was derived from them.
- *Time.* Envelopes (one hour by default) and sessions (1 to 168 hours) expire in
  the middle of everything; claims go stale after 60 s and 24 h;
  evidence and reviews grow old between two builds or requests.

The list, line by line, is under `hazards` in `PROJECT.json`.

## 2. Modules

| Module | Models | Variables |
|---|---|---|
| `AnswerLog` | abstract: what a session promises | `kept`, `accepted`, `applied` |
| `DiagnosticStore` | the store and its legal callers, clock and purge | `session`, `turn`, `claims` |
| `DiagnosticSystem` | service, dispatcher, Render, callbacks, crashes around the store (EXTENDS it) | the above and `request`, `workflowRunId`, `run`, `transit`, `callback`, `faults` |
| `TurnPolicy` | what one answer does to a case, for both reasoners | `mode`, `case`, `warnings`, `askedBefore` |
| `RequestGate` | the rate limits, one process | `now`, `bucket`, `admitted`, `promised` |
| `FirstMileApp` | the form, seven screens | `screen`, `history`, `answers`, `saved`, `credential`, `server`, `deletion`, ... |
| `DiagnosticCase` | the event log and all that is derived from it | `events`, `detours` |
| `DiagnosisAssembly` | claims, comparisons and the assembled diagnosis (EXTENDS `DiagnosticCase`) | the above and `claims`, `request` |
| `ResearchClaims` | shared research in Postgres mode | `claim`, `age`, `lastKey`, `request`, `poll`, `run`, `submitted`, `transit`, `draft` |
| `SubmissionMemory` | submissions in process memory | `now`, `entries`, `memory`, `slots`, `handler`, `stray`, `runs`, `restarts` |
| `AtlasDrafts` | a platform's rows, polls, seed, instances and the requests they serve | `db`, `claim`, `outcome`, `poll`, `seed`, `snap`, `query`, ... |
| `AuditContribution` | verification runs, branch, pull request, maintainers | `base`, `copy`, `branch`, `pr`, `run`, `late`, ... |
| `BlockerLinking` | linking tasks against drafts, seeds and relabels | `label`, `embedding`, `draft`, `links`, `task`, ... |
| `JourneyGraph` | validation of a graph (operators only) | |
| `JourneyRoute` | the route shown, and a developer who follows it (EXTENDS `JourneyGraph`) | `authored`, `changes`, `walk`, `held`, `shown` |
| `ResearchPipeline` | one research run with its subtasks (EXTENDS `JourneyGraph`) | `phase`, `outcome`, `request`, `attempt`, `call`, `clock`, ... |
| `CorpusHealth` | the publication gate (EXTENDS `JourneyGraph`) | `graph`, `platform`, `edits`, `day`, `health` |
| `OfficialSearch` | the search for pages | `pc`, `results`, `queue`, `seen`, `asked`, `pages`, ... |
| `LiveResearch` | a research run beside its search (EXTENDS both) | those of both |
| `ReasonLab` | labelling commands over two files | `packet`, `packetTmp`, `status`, `statusTmp`, `at`, `copy`, ... |
| `PeerComparison` | peers, certified cohorts, position | `platforms`, `now`, `reviews` |
| `Lists` | `Array.prototype.filter` (operator only) | |
| `MC...` | instances for TLC | |
| `DiagnosticStoreProofs`, `DiagnosticSystemProofs`, `ResearchClaimsProofs`, `AtlasDraftsProofs`, `AuditContributionProofs` | theorems about the module before the suffix; in the first also the store as an `AnswerLog` | |
| `AtlasTaskProofs` | theorems about `SubmissionMemory`, `BlockerLinking` | |
| `DiagnosisProofs` | theorems about `RequestGate`, `TurnPolicy`, `DiagnosticCase`, `DiagnosisAssembly` | |
| `DocumentProofs` | theorems about `JourneyRoute`, `CorpusHealth`, `LiveResearch`, `PeerComparison`, `ReasonLab`, `FirstMileApp` | |

The provers know nothing of `SelectSeq` and of the folds. Where a theorem
depends on a filter or a sum, it is written as a recursive function: `Among` of
`Lists`, the k-th least value (`ascending`) behind the median of
`PeerComparison`, the page list of `ResearchPipeline`.

### DiagnosticStore

Every method of the Postgres store is one transaction that locks the rows it
will change before it looks at them, and the in-memory store has no `await`
inside a method. So each method is one action, or two to four when it has
outcomes of different kinds: `claimTurn` is `ClaimTaken`, `ClaimSuperseded` and
`ClaimThrows`; `completeTurn` is `CompleteApplied` and `CompleteSuperseded`;
`purgeExpired` is `PurgeSession` and `PurgeEnvelopes`. Outcomes that change
nothing (duplicates, conflicts, `markWorkflowDispatched` as seen from the
store's rows) are stuttering steps.

A turn's status, revision and envelope (`none`, `sealed`, or `expired`: still stored but past
its time) are kept, and `input`, the revision that its request had computed from the session it
read: it is sealed in the envelope and sent as the workflow input, and the turn's own revision
is another if answers were accepted meanwhile. The session state is reduced to `acceptedTurnIds`
and whether there is a verdict, because every other field is a function of the answers.
`claims[t]` is a history of the session states that `claimTurn` has given to processors of `t`;
a processor may finish at any later time with any of them. That is how a read before an `await`
enters the model.

The callers are free: any answer may be submitted for any revision, with any `input` up to the
next one, and be retried, claimed, completed or failed at any time and any number of times. A
processor goes on only with an envelope that carries the turn's own revision (`processor.ts:29`,
`EnvelopeMatches`). Whatever holds here holds for every client, both dispatch modes and any
worker schedule.

### DiagnosticSystem

Adds who really calls the store. A request moves through the stages between the
`await`s of `submitTurn` or `retryTurn`. The revision that its author expects is
any up to `Ahead` beyond the session's: `domain.ts:40` admits any number, and
`service.ts:109` only tests equality with the session it has read. `run[t][n]` is the
`n`-th run of a turn. Render keeps it for the key made of the input, of which only the
revision can differ for one turn, and of the run before; asking for the same key returns
the same run (`CreateRun`). A claim goes on to the reasoner or, when the envelope does not
match, to failure (`WorkOnClaimed`). `transit` holds `startTask` calls whose caller has given
up; they still arrive or are dropped. `callback` holds the
turns the server is processing for an attempt; an attempt may time out while its
callback goes on (`AttemptTimesOut`), and the reply to an attempt that is no
longer current is ignored (`Reply`). `ServerCrashes` forgets requests and
callbacks. `RecordFailure` includes the case in which `failTurn` itself fails.

### ResearchClaims

No transaction spans two statements in `researchClaims.ts`, so each statement is
an action, and so is each call to Render. A handler is a record with
its stage and the row it last read. A `startedAt` is a
key from a growing counter; Render names the run after it. `age` abstracts the
clock to the thresholds the code compares with: below 60 seconds, below 24
hours, beyond. `submitted` is a history of what was sent under which key.

### The browser form, the case and the diagnosis

`FirstMileApp` has one action per handler of `App.tsx`, with the effects React
runs after it: the save to local storage, and the resets of a break, an
observation or an explanation that no longer fits. Answers are reduced to what
the handlers tell apart. A map may be new, resumed, imported or left by an
older version. What the screens promise of each other (`JourneyAgrees`) is
stated of maps worked through without reopening where resuming breaks it:
`migrateAnswers` merges a saved map with fields of an earlier pass
(`origin = "new"` in the properties; section 7).

`DiagnosticCase` keeps the events as the code does and derives everything else:
active answers, progress, objectives, reasons, families, the next question, the
decision to stop. A *detour* is a step that is not the answer that was asked
for: a correction, a signal, a partial answer or an answer to another question;
`MaxDetours` bounds them. Its assumptions say that question ids are
distinct, and that choosing no option moves no reason; the catalog of the code
fulfils both. A case never stops as `hypothesis_ready`, because no answer makes a
reason supported in the code. `DiagnosisAssembly` adds claims made at some point of the case and
assembled later, when answers may have been corrected, and requests for a
journey with a comparison record.

### TurnPolicy and RequestGate

`TurnPolicy` takes an answer from the reasoner's proposal to the validated state in one step;
how a turn gets there is the business of the store and the system. An answer is what
`server/domain.ts` admits, since nothing compares it with the question: it may tick any options,
several controls of the conversation at once (`Ticks`), correct a turn that failed, or answer
the question before, which a handler had read while the previous answer was processed
(`askedBefore`). A model as a reasoner may propose what its schema admits: any next question,
any end, any updates that cite any turns; wording and options of a question are left out, and
all that is refused by content alone is one flag. The validator's fallback (`warnings`) is
modelled with it. The objectives, 12 and 15 prompts, 3 attempts and 12 cited turns of the code
are in proportion: two objectives, a pause at 2, a hard budget of 3, two attempts, one cited
turn. The two budgets are stated for proposals that were accepted: section 7 has what a refused
one leads to. What an answered objective rests on (`RestingTurns`) is a turn that stands as a
prompt, or one spent on the pause whose answer ticked both ways to continue: the reasoner takes
such an answer for an answer, the validator for a control.

`RequestGate` is synchronous in the code, so a request is a step. The clock ticks
faster than its seconds, so that `Retry-After` has something to round, and the stretch of
time `WindowBound` looks at may begin anywhere. `admitted` is a history of all the
times at which a bucket admitted a request.

### SubmissionMemory, AtlasDrafts, AuditContribution, BlockerLinking

Four protocols of the Atlas in which statements or requests interleave.
`SubmissionMemory` keeps the entry a handler holds apart from the one in memory:
a poll or a newer request may have replaced it when the handler's call returns.
Calls arrive, are lost, arrive with the reply lost, or arrive late.

`AtlasDrafts` has one step per statement of a persist, a load and a seed (Prisma runs a query
with `include` as one read here), and an instance may die between any two. A request that looks
a platform up reads its row, then its metric and audit, and takes them in after that, without
another look at what the memory of its instance holds by then (`Visit`, `Search`, `ReadRelated`,
`TakeIn`): `query` is what it holds, and `behind` the history of whether something newer was
overwritten. A run ends with a draft, with none because the platform is known (which completes
its claim with nothing stored), or failed. A stored value is the document it comes from: the
corpus record of a deploy, or the draft of a run. Steps and gates are never empty and numbered
from 1. A claim is cleaned up after days, when no poll is under way. The poll of an old run may
still overwrite a newer draft in the model, as in the code; no property denies it.

`AuditContribution` makes the requests to GitHub one by one, with GitHub and the
maintainers external. A request can be lost, lose its reply, take effect
late, or succeed with the body of its reply lost, which the code reads as `{}`
(`githubPr.ts:116`, `LoseBody`): no open pull request, no commit, no version of the file.
The audit that a run checks is that of the deployed copy, which may lag behind the
base branch. Two of its properties are about runs that nothing has disturbed
(`disturbed`): the code takes no lock, and two runs at once may reset each other's branch;
so may a request that takes effect after it was given up, and a run that reads a list with
an open pull request as `{}` resets the branch under review (section 7).

`BlockerLinking` starts with any part of the catalog, and deploys add the reasons that
are missing one by one, or change a label (`UpsertReason`). A task reads the catalog in one
statement and the vectors in the next. The similarity of two vectors is left open: any order of the
candidates. An answer of the confirming model that repeats a reason breaks the
unique index and fails the attempt, as in the code.

### Journey documents

`JourneyGraph` translates `validateJourneyGraph` finding by finding. Evidence is
a set of source numbers, 0 for an item without locator. `JourneyRoute` then lets
authors edit a sound graph, shows it if it has no finding, and lets a developer
follow it: the properties are about the walk, not about the validator.

`ResearchPipeline` is one run: identity, search, reconstruction with its repair call,
normalization, grounding, validation. Every attempt is fast or takes its whole time, so the sums
of timeouts and waits against the 600 seconds of the parent are the code's own numbers. Queueing
and cold starts of Render take no time. The support a page gives is one flag (`quotes`). A draft
whose slug differs from what was asked is persisted under its own slug.

`CorpusHealth` judges a graph and a platform that are revised apart, as days
pass (the freshness limit is scaled to `FreshDays`). `OfficialSearch` lets any url answer anything,
differently each time; page fetches have no timeout of their own, so the
search need not end. `ReasonLab` has the four file steps of a command; one
write or rename is atomic. `PeerComparison` counts time in half days, because reviews are dated by
day and requests come at any hour, and stands for the four measurements with one.

## 3. Runs

Sizes are distinct states; times are for two workers.

| Run | Instance | Shows |
|---|---|---|
| `diagnostic_store` | 3 answers; 0.10 million states, half a minute | types; one answer in flight; revisions number answers; answers applied once and in order; envelopes; no stale write; nothing settled is reopened; every session that can be released is; `AnswerLog` is implemented |
| `diagnostic_one_answer` | 1 answer, 2 requests, 2 runs of 2 attempts, 4 faults; 2.9 million, two minutes | the runs of a turn form a chain in which all but the last are over, unless it was accepted ahead of what its request had read |
| `diagnostic_two_answers` | 2 answers, 2 requests, 1 run of 1 attempt, 2 faults; 2.5 million, two minutes | the service uses the store legally (`StoreSpec` as a property); a workflow input carries the turn's revision or the sealed one, and an answer for which they differ is never applied |
| `research_claims` | 2 handlers, 1 poll, 2 spellings, 2 keys; 2.9 million, two minutes | one live run; one input per key; the claim names its own run; an attempt is kept until resolved; a completion stays |
| `diagnosis_parts` | six parts, below; 0.47 million, two minutes | form, case, diagnosis, question policy, rate limits |
| `atlas_parts` | seven parts, below; 2.0 million, two and a half minutes | submissions, drafts, audits, links |
| `documents_parts` | seven parts, below; 0.43 million, a minute and a half | routes, research runs, searches, publication, labels, comparisons, saved maps |
| `blocked_session`, `dropped_answer`, `reopened_without_correction`, `dead_fresh_attempt`, `refused_by_itself` | small instances, seconds | the five disagreements of section 7 |

**Parts.** Components that touch none of each other's state share a run: the MC
module extends them all, a variable `part` is chosen in `Init`, and `Next` lets
only that part move while the others keep their first states. This checks each
component as if alone, with one start of TLC. The conjunction of a module's
invariants (`JourneyAgrees`, `CaseSound`, `LinksExact` and so on) is defined at
the end of its *Properties* section, where each conjunct is named and explained.
The `.cfg` names these conjunctions, of which section 5 has the theorems. They
hold in the first states too, so no property has to say which part it is about.

**Limits inside parts**, besides the constants in the `.cfg` files:

- `diagnosis_parts`. *form*: two default steps and one that can be added, at most 6 screens of
  history. *case*: four questions, three reasons of two families, 2 detours. *claims*: up to
  four answers, one of them stray, whole answers only; *requests*: no detours, every request.
  *turns*: both reasoners, four turns of the deterministic one, three of a model; a candidate
  with evidence is live (one that is not counts as none). *gate*: two clients, symmetric, one
  session; one limiter at a time (the limiters share no state); windows of two seconds of two
  ticks.
- `atlas_parts`. *research* and *verify*: the memory of one kind is used at a time. *polls*: two
  polls of one run with a draft on two instances, of which one stays up, no seed, no lookups.
  *deploys*: one instance, one poll at a time, two runs or a run with a second deploy, no
  lookups. *lookups*: one instance, one poll of a run with a draft, and a request that looks the
  platform up, at the third deploy (which has it in the corpus and no reviewed graph) or at the
  first (without it, and there beside a search). *audits*: two runs that share at most one
  trouble (a lost request, reply or body, a refusal, a stop); no deploy after the last run
  started, as nothing reads it. *links*: two tasks, any part of the catalog seeded, the rest
  added at any time, one label changed or one draft replaced.
- `documents_parts`. *routes*, *health*: two edits of a sound graph or platform out of some 170.
  *pipeline*: 17 answers, 6 page lists. *lab*: four commands in sequence, or three that overlap
  or are stopped; the first is fixed up to renaming. *search*: six urls, five result lists.
  *peers*: five platforms, of which four are a cohort and one comes before them in the order,
  two reviews, three half days. *copies*: two steps; the screens that need three are reached
  through an imported or older map.

**Bounds.** Three answers are what the store needs for its interesting cases: an answer that
completed, one that failed and was outrun, and the newest one. Nothing else in the store is
bounded: a turn may be retried and claimed without limit. In the system, a fault is an error, a
lost reply, a timeout, a crash, an expiry or a deletion, and `MaxFaults` bounds how many happen
in one behaviour. Four are enough to lose the reply of a submission, fail two attempts and lose
another reply. `MaxRuns` and `MaxAttempts` of 2 give one run to be replaced and one to replace
it, each with an attempt that can overlap the next; the code has 3 attempts
(`workflows/src/index.ts`), and the third adds no new pairing. A request that would start a run
beyond `MaxRuns` stops there. `Ahead` of 1 lets an author's revision be one that no handler has
read yet; with two answers none that is ahead by more can be accepted. With two answers
the interesting part is the interleaving between two requests and two callbacks, so that run
takes one run and one attempt. `MaxKeys` = 2 gives a research attempt and its successor, which
is all that a row can confuse. Two handlers and a poll are enough for a read-check-update race
between handlers with a completion in between.

In the parts, two of a kind are what the hazards need: two polls or tasks that cross, two edits
of which the second can undo what the first made sound, a correction of a correction. Where a
counter of the code is larger (12, 15 and 3 prompts; 30 and 60 requests; 14 days), the instance
keeps the order of the thresholds. A mutant that moves a threshold by one, or drops a guard, is
found in each of them, which shows that the bound is reached.

**Symmetry** is used only in runs without liveness: the constants it permutes
occur in no `CHOOSE` that could tell them apart. `diagnostic_store`, which has a liveness property and a
`CHOOSE`, does without.

**Deadlock** is not checked: the store may stop when all its answers are
settled and the session is gone, and the bounded modules stop at their bounds.
Being stuck for want of a release is what `OpenTurnReleased` is about; that an
open case has a next question, and that a developer on a route has a next
step, are the invariants `OpenCaseAsks` and `NeverStuck`.

**Fairness.** Only `diagnostic_store` assumes any. `EnvelopeExpires(t)` and
`PurgeExpired` are weakly fair, because a stored expiry time passes by itself
and `server/index.ts` purges every 60 seconds for as long as the server runs.
Participants, Render, the reasoner and the processors get none: they may
stop for ever, and the session is still released.

## 4. Sensitivity

Every property of a passing run has a mutant: an operator that repeats one of the module's with
one plausible error (a dropped comparison, a missing reset, a status copied from the wrong row,
an off-by-one, a swapped order). No specification uses them. They are in a part *Mistakes* of
`DiagnosticStore`, `DiagnosticSystem` and `ResearchClaims`, and beside their originals
elsewhere. Putting one in the place of its original makes TLC report the property named in
`PROJECT.json` (`mutants`) as violated, under that property's own configuration.

## 5. What is proved

All theorems hold for every value of the constants that satisfies the named
assumptions, each of which TLC evaluates for its instance:

| Assumption | Says | Because |
|---|---|---|
| `TurnsAssumption` (`DiagnosticStore`) | `Turns` is finite, `NoTurn` outside it | a session has finitely many rows |
| `BoundsAssumption` (`DiagnosticSystem`), `ResearchAssumption` (`ResearchClaims`) | bounds are natural numbers (so is `Ahead`), at least 1 for runs, attempts and keys; `NoPlatform` is no platform | these are the numbers of things that a behaviour may use |
| `DeploysKnown`, `DraftLimits` (`AtlasDrafts`) | a published platform is reviewed, a reviewed one in the corpus; there is a first deploy | `build-corpus-health.mjs` publishes only reviewed graphs of its records |
| `AuditInputs`, `AuditLimits` (`AuditContribution`) | finitely many gates; proposals and files are audits by their schema | `core/ports.ts:62`, and arrays are finite |
| `LinkingConstants` (`BlockerLinking`) | limits are numbers; an answer of the confirming model is a list | its response schema |
| `KindsKnown`, `Durations` (`SubmissionMemory`) | an entry is deduplicated for a shorter time than its key is kept | 15 minutes and 24 hours |
| `LimitsPositive` (`RequestGate`) | limits and windows are at least 1 | `server/config.ts:24` |
| `OrderDistinct`, `TerminalsNamed`, `BudgetsGrow` (`TurnPolicy`) | objectives are distinct strings other than `none`; the ends of a case are those the code names, with or without conditions; the pause comes before the hard budget | `diagnosticObjectiveOrder`, `validateTerminal`; 12 and 15 |
| `QuestionsDistinct`, `QuestionsInOrder`, `NoOptionTouchesNothing`, `OptionsAgree` (`DiagnosticCase`) | question ids are distinct, the stage is asked for before what depends on it, fewer questions than the budget; no option strengthens a reason and weakens a sibling | the catalog of questions and options |
| `AtlasIsFinite` (`DiagnosisAssembly`) | finitely many journeys | they are records in a file |
| `ScriptIsStricter`, `FreshnessInDays` (`CorpusHealth`) | what the validator takes for two connected actions, the build takes for two | the two patterns |
| `PageLists` (`ResearchPipeline`), `SearchLimits`, `SearchLists` (`OfficialSearch`) | results, links and host names are lists; limits are numbers | their types |
| `RowsDistinct`, `PeerLimits` (`PeerComparison`) | slugs are distinct; three peers at most are asked for | a cohort of four is the smallest of the code |
| `StepsAreKnown`, `CopiesAreKnown` (`FirstMileApp`) | default steps have ids of their own; older and imported maps have, once migrated, the shape that the form works on | `src/App.tsx` and the validation in `src/storage.ts`, `src/session-portability.ts` |

Some theorems have a hypothesis besides. `CorpusStaysWhole` and `LinksAreExact`
are for tasks that embed with one model (`OneModel`; section 7 has what two do).
`RoutesCanBeFollowed`, `PublicationStands`, `PublicationOnlyAges` and `ComparisonsStand`
take the set of documents that edits and reviews may lead to, and ask of it
what the file formats say: a graph lists its nodes and its route
(`Journeys`, `Graphs`), counts and days are numbers, source numbers begin
with 1 (`Platforms`, `Recorded`). They ask nothing else of an edit.

| Module | Theorem | Property |
|---|---|---|
| `DiagnosticStoreProofs` | `StoreTyped` | `TypeOK` |
| | `StoreInvariant` | `StoreInv` |
| | `OneAnswerAtATime` | `OneAnswerInFlight` |
| | `AnswersAppliedInOrder` | `AppliedInOrder` |
| | `EnvelopesKeptWhileNeeded` | `EnvelopeKeptWhileNeeded` |
| | `RevisionsCount` | `RevisionsNumberAnswers` |
| | `ClaimsAreCurrent` | `ClaimsCurrent` |
| | `NoUpdateLost` | `NoLostUpdate` |
| | `SettledTurnsStay` | `SettledForever` |
| | `StoreImplementsLog` | `ImplementsAnswerLog` |
| `DiagnosticSystemProofs` | `ServiceInvariant` | `ServiceInv` |
| | `ServiceTyped` | `SystemTypeOK` |
| | `ServiceUsesStore` | `UsesStore` |
| | `RunsAreChained` | `RunsFormChain` |
| | `InputsMatchTurns` | `InputMatchesTurn` |
| | `ServiceKeepsPromises` | what holds of the store, of the service |
| `ResearchClaimsProofs` | `ResearchInvariant` | `ResearchInv` |
| | `ResearchTyped` | `ResearchTypeOK` |
| | `OneRunIsLive` | `OneLiveRun` |
| | `KeysKeepTheirInput` | `OneInputPerKey` |
| | `RowsNameTheirRun` | `ClaimNamesItsRun` |
| | `ClaimsAreKept` | `KeptUntilResolved` |
| | `CompletionStays` | `CompletedStays` |
| `AtlasDraftsProofs` | `DraftsInvariant` | `DraftsInv` |
| | `DraftsAreStored` | `DraftsStored` |
| | `DraftsOutliveDeploys` | `DraftOutlivesDeploys` |
| `AuditContributionProofs` | `AuditInvariant` | `AuditInv` |
| | `ContributionsAreEarned` | `AuditsEarned` |
| | `ReviewIsUndisturbed` | `UnderReviewStays` |
| `AtlasTaskProofs` | `MemoryInvariant` | `MemoryInv` |
| | `SubmissionsAreBounded` | `SubmissionsBounded` |
| | `LinkingInvariant` | `LinkInv` |
| | `LinkingTyped`, `LoneRunsAreExact`, `CorpusStaysWhole` | the conjuncts of `LinksExact` |
| | `LinksAreExact` | `LinksExact` |
| `DiagnosisProofs` | `GateInvariant` | `GateInv` |
| | `LimitsHoldAlways` | `GateHolds` |
| | `WindowIsBounded`, `WaitsAreEnough` | conjuncts of `GateHolds` |
| | `TurnInvariant` | `TurnInv` |
| | `TurnsRestAlways` | `TurnsRest` |
| | `CaseInvariant` | `CaseInv` |
| | `CaseSoundAlways` | `CaseSound` |
| | `CaseMovesOnAlways` | `CaseMovesOn` |
| | `DiagnosisStaysSound` | `DiagnosisSound` |
| `DocumentProofs` | `RoutesCanBeFollowed` | `RouteHolds` |
| | `PublicationStands` | `PublishedStands` |
| | `PublicationOnlyAges` | `TimeOnlyRetires` |
| | `ResearchIsGrounded`, `SearchIsOfficial` | the conjuncts of `ResearchHolds` |
| | `LiveResearchHolds` | `ResearchHolds` |
| | `ComparisonsStand` | `PeersStand` |
| | `LabInvariant` | `LabInv` |
| | `LabStands` | `LabelsStand` |
| | `FormAgrees` | `JourneyAgrees` |
| | `CopyGoesLast` | `LocalCopyGoesLast` |

**The store.** `AppliedInOrder` says that the state holds the completed answers in order of
acceptance. When a processor completes a turn it writes the state it claimed earlier, so the
step preserves the property only if that state is still the current one: this is
`ClaimsCurrent`. It also says that nobody works on a turn whose envelope carries another
revision, whence `AppliedAsSealed`. It holds because a turn can be completed only at the
session's own revision, and since that revision was given out no other turn could complete. For
that, revisions must identify turns, and every revision up to the session's must belong to one
(`RevisionsNumberAnswers`); and the turn that completes must be the one the session waits for
(`OneAnswerInFlight`). `EnvelopeKeptWhileNeeded` closes the loop for the purge: it fails exactly
the turns whose envelope it drops, so an open turn always has one and the session is released
together with its pending turn. Each of these alone fails to be inductive; their conjunction
`StoreInv` is, with one lemma per operation (`SubmitKeepsInv` to `ClockKeepsInv`). The two
action properties follow from `StoreInv` in the state before the step.

**The store as an `AnswerLog`.** Under the mapping of `ImplementsAnswerLog` the
initial state maps to the initial state, and with `StoreInv` before and after
it every action maps to one of `AnswerLog` or to a stutter: accepting an answer
to `AcceptAnswer`, completing one to `ApplyAnswer`, removing the rows to
`Erase`. The accepted answers are mapped by a `CHOOSE` of the turn with each revision
(`AcceptedAnswers`); the lemmas say that revisions, one each and without gaps,
determine it.

**The service.** `UsesStore` is step by step: what a request, a callback or
the purge does to the store must be one of its legal steps. That a callback
completes with a state that `claimTurn` has handed out needs `CallbackSound`;
that a request accepts or retries what exists needs `RequestSound`.
`RunsFormChain` needs more: a request, and a call on its way to Render, asks
for a run after run *n* only when *n* is known to be over (`RequestSound`,
`TransitSound`), and a run that is over stays over (`RunAdvances`); each carries the
turn's revision or the sealed one (`Carries`), and where the two are one number, a turn
has one key after each run (`RunSound`). No bound on the author's revision enters
these proofs. `InputMatchesTurn` follows from them and from `AppliedAsSealed`, because
a processor goes on only with an envelope that matches. `ServiceInv`
adds these to `StoreInv`. Since the service uses the store legally,
`ServiceKeepsPromises` hands it everything proved of the store's free callers.

**Research claims.** `OneLiveRun` rests on `Quiet`: an attempt that is not the
newest has no live run, and none can still start. A row that names no run keeps
its key when it is taken over, and Render starts no second run for a key; a new
key is given out only after the run that the row names has failed. The update
compares the row that the handler read (`RecordSound`), and the row names no run
but its own (`ClaimNamesItsRun`). `OneInputPerKey` needs to be stated of everybody who may
still submit, not of what was submitted: `Carries` collects the handlers, the
row and the past submissions of a key.

**Drafts.** The completed claim of a run that brings a draft has its rows, because a poll
completes it only after its audit statement, and no statement removes a draft, a metric or an
audit (`Grows`); `PollSound` says what the stage of a poll implies. That a poll that wrote alone
leaves one document in every row is `WholeSoFar`, stage by stage. A request that looks a
platform up has read nothing that Postgres does not have (`QuerySound`); until something else is
taken in at its instance, it has read no less than the instance holds (`QueryFits`), and
afterwards it is marked as overtaken. So the route fits the record of an instance that no late
load set back (`SnapshotSound`), whose least obvious part is that an instance without audit
keeps a graph only if it is a draft's, and then Postgres has a draft (a reviewed graph comes
with a reviewed deploy).

**Audits.** `Earned` (settled, and verified only with no gate open) is what
every run, branch, late request and merge carries from the moment a run passes
the check; the key lemma, `AppliedIsEarned`, is that the check is idempotent: what
`applyEligibilityStatus` leaves is settled, although it adds questions that the
next check counts. `UnderReviewStays` is about
the time before anything disturbs the runs: `Undisturbed` says that one of them at most is
under way then, nothing is late, and nobody is past `list` while a pull request is open. What
disturbs them is that two overlap, that a write is given up and may arrive later, or that
the list of an open pull request is read as `{}`; every other loss, that of the other
bodies included, leaves it in force.

**Labels.** Every copy of a packet is sound by itself, whoever writes it back
(`PacketSound`), so overlapping commands lose labels but never mix a sample's
two reviewers; `Orderly` adds what a command finds of its own four steps while
no other runs.

**Submissions.** What is paid for is decided by the submissions that are unsettled:
nobody was told their run, or it is research still at work. `MemoryInv` says that a
process has one of a kind at most, that it is the one in memory, and that
those before it are confirmed. A key whose call is still on its way is one that Render remembers
(`PendingRemembered`), so a late call starts no second run. `Spaced` dates each
verification from the one before it.

**Links.** `TaskSound` says what a task holds whoever works beside it, and
`AloneSound` what it finds in the tables while nobody else writes: every vector is
current, and each gate that it has begun holds what was confirmed or will when the
rest is inserted. What a task works on is the catalog as it read it (`task[t].text`), which is no
longer the present one once a deploy has added or relabelled a reason. That it has a
vector of every reason it read needs one model: then a vector which is not
stale for a task stays readable for it, whoever writes it. While nobody else writes, what it
read is the whole catalog (`Indexed`).

**Rate limits.** `GateInv` compares the counter of a bucket with the history: its
window began with the first of the admissions it counts, and at that moment the admissions
as far back as the limit reaches were a window old. Two admissions with
2 * limit - 1 between their places are therefore a window apart, which bounds any stretch.

**Turns.** `TurnInv` says that every answered objective rests on a turn that
stands (`Rests`), that a case waits for an objective or is over (`Settled`), that a conclusion has asked
all it requires (`Owned`), and that a case beyond a budget was offered what the budget calls
for, or warned (`Budgeted`). The turn just accepted is one of `RestingTurns` whenever the
reasoner may count its answer: it is spent on the pause without being one only if
going deeper was all the participant said.

**The case and the diagnosis.** Everything a case derives, it derives from the
log, so the inductive part is only that the log is well formed: what an event names
comes before it. That one answer a question is active, that an answer
moves the questions on, or that nothing retracted revives, are then facts about
the derived operators and about one more event. `DiagnosisSound` needs no
invariant: claims are checked when they are assembled, and the proof shows that the
checks are enough in any state.

**The form.** `AppInv` says of the answers on the screen and of the saved ones
that they have the right shape and agree: step ids are distinct; break and
furthest step are on the path, the one before the other; the observation is
one of the question that the break leads to; a completed map rests on evidence. Order is the hard
part, because an edit takes steps out, puts them back or adds one. The lemma
`CarriesOver` says that agreement survives any edit which maps the steps that stay,
in order, into those there were; `ActiveSteps` embeds the path into the steps. `CopyGoesLast`
needs only that a deletion reported as done has reached the server.

**Routes and publication.** A shown graph was selectable when it was shown, and is not
edited afterwards; the walk is a prefix of its route, and what the developer holds is
what that prefix gives. The committed verdict is that of some day up to now, on
a graph and facts that still stand. As days pass, fit evidence can only age.

**Research.** Each search costs 94 seconds at most and each call 95, waits
included, and the numbers of searches and calls follow from the attempts
(`PipelineInv`); a run therefore is stopped in its last calls only. A draft
completes only if nothing but a compound action was found in its graph, so its route
can be followed, and if it cites pages with content only. In
the search, the queue holds the results that wait and then links, all of them secure pages
of the platform, and every official result or first step that a page links to waits or was a
candidate.

**Peers.** The peers chosen are those rows that no earlier choice collides with:
a row left out has an earliest one that it collides with (a least-number argument
over the rows). A qualified cohort maps one to one into the organizations of its
peers, hence their number. The median is a value with as many peers below as
above, because the k-th least value counts the values up to it.

The inductive invariants of the store, the service, the claims, the drafts, the audits and the
labels were checked with TLC on the instances of their runs before they were proved. What
particular recursive functions compute (a filter, an index, a k-th value) is proved with the
least counterexample, for which the library has a theorem (`WFMin`) that takes a set. The
induction theorems take an operator and cannot be used.

Only model-checked:

- `OpenTurnReleased`, because it is a liveness property under fairness, which
  the prover does not treat.
- The five runs of section 7, which are counterexamples.

The theorems are about the specification of each component; that a run
composes several of them as parts is about TLC only. A run of `diagnosis_parts` restricts
parts of its components further (*Limits inside parts*), the theorems do not.

## 6. Assumptions

- Postgres gives the isolation that `SELECT ... FOR UPDATE` promises; a
  transaction that is aborted, by a deadlock for instance, changes nothing.
- Render keeps idempotency keys (24 hours) longer than envelopes and uncertain
  claims live, and ignores the input of a key it knows. Both are what the code
  relies on (`server/dispatcher.ts:49`, `researchClaims.ts:99`).
- An envelope's or session's expiry is decided at the instant of the
  operation that reads it.
- The clean-up of a claim happens only on a quiet day: task timeouts are minutes,
  the clean-up waits 24 hours (`CleanupClaim`). Without this a handler asleep for
  a day could submit beside a new claim.
- The result of the reasoner is free within what the store can tell apart: the
  answer, and whether there is a verdict.

- A participant's browser runs one tab of the form; a write to local storage
  succeeds or the page goes on without it.
- GitHub and the web answer as section 2 says of them; maintainers merge or
  close whole pull requests.
- Sources of a journey record have https addresses, and hosts have no trailing dot:
  `JourneyRoute` leaves out the filter of `journeyEvidence.ts:86`, and
  `OfficialSearch` compares normalized hosts also where `sourceAuthority.ts:49` does not.
- One file write or rename of `reason-lab.mjs` is atomic.

Differences between the two stores that are abstracted: the in-memory store
deletes an expired session (without its turns) when it is next read, and keeps
a reactivation when `claimTurn` then throws for a missing envelope; the
Postgres store rolls back.

## 7. Findings

Where a comment or message in the repository and the code disagree, a run
states the former and TLC shows a behaviour of the latter.

1. `blocked_session` (`server/store.ts:168`). Answer 1 fails, answer 2 is
   accepted and finishes, the participant retries answer 1. `retryTurn` makes the session
   wait for it without comparing revisions, `claimTurn` supersedes it because
   of its revision, and nothing clears `pendingTurnId`: every later request
   gets "Wait for the current answer to finish processing".
2. `dropped_answer` (`server/store.ts:230`). The last attempt of a run times out, or
   a dispatch fails, and the turn is failed with the promise that the answer remains available. The
   earlier attempt, still working in the server, then completes: the turn is not
   pending, so it is superseded and its text removed.
3. `reopened_without_correction` (`server/store.ts:258`). A correction of a complete
   diagnostic fails. `failTurn` sets the session active although its state
   keeps the verdict, and it then accepts ordinary answers.
4. `dead_fresh_attempt` (`server/dispatcher.ts:72`). A retry starts run 2 but loses the
   reply; run 2 fails. The next retry finds run 1 failed, asks for the
   run after it and receives run 2, which is over. It answers as dispatched with nothing
   running; the purge releases the session with its envelope.
5. `refused_by_itself` (`api/research.ts:249`). A request waits for another one's claim,
   whose submission fails. Its second `beginResearchClaim` takes the claim over,
   and the handler answers that another request is starting the research.
   Nobody submits until the claim is 60 seconds old.

Disagreements met while modelling the other components, without a run of their
own. The models follow the code; where a property would fail, its statement
names the condition under which it holds.

| Code | What it does | What is said |
|---|---|---|
| `src/App.tsx:299` | a step added, or put back, after first success was chosen is not looked at by the verdict | "You marked every required step as completed." (`src/App.tsx:802`) |
| `src/App.tsx:120` | resuming a current map fills a cleared break, evidence or conclusion from the previous pass | "round-trips a current session" (`src/storage.test.ts:8`) |
| `src/domain/diagnostic-engine.ts:578` | the attention budget of 14 counts active answers, of which there are at most 13: it is never used up | "The diagnostic attention budget is exhausted." (585) |
| `src/domain/diagnosis-assembler.ts:247` | unbounded language in a comparison is a reason to withhold it, and the summary is still shown | "Bounded comparison output cannot use broad prevalence or performance language." (`comparison-validation.ts:164`) |
| `server/validator.ts:275` | a refused conclusion at the hard budget falls through to the next default question; a correction at the pause likewise | "hard-stops at fifteen active prompts" (`validator.test.ts:268`), "asks permission before going beyond twelve" (316) |
| `server/validator.ts:208` | the pause comes before the check of three attempts, and going deeper asks the exhausted objective again | "moves on after two unsuccessful follow-ups" (`validator.test.ts:431`) |
| `server/validator.ts:124` | evidence a proposal cites loses the corrected turn only, not those retracted with it | "invalidates downstream answers when an early objective is corrected" (`validator.test.ts:217`) |
| `server/validator.ts:218` | the pause takes the objective of the proposal without the check that it is the earliest open one | "The next question must address the earliest unresolved objective" (268) |
| `src/adapters/postgresData.ts:39` | a draft is preferred for ever; a platform published later shows the draft as published | "Drafts are labelled so a caller can never mistake" one (`src/api/journey.ts:12`) |
| `src/api/storeHelpers.ts:19` | an instance that held the platform before the run keeps serving the old record | "so every instance can serve it on the next request" (`src/api/research.ts:318`) |
| `src/db/seed.ts:126` | platforms with a completed claim are skipped | `recordJson` is "rewrite[n] on every deploy" (`persistResearchDraft.ts:45`) |
| `src/adapters/githubPr.ts:160` | the forced reset may empty a pull request opened meanwhile; the next attempt reports it as reused | "so the draft is rebuilt cleanly" (158) |
| `src/core/runBlockerLinking.ts:81` | vectors are one per reason whatever the model; a task and a script with two models overwrite each other | "Ensure all catalog reasons have embeddings for the active model." (45) |
| `src/core/journeyEvidence.ts:78` | the first-success boundary is the last node in the order of the graph, not of the route | "from the same selected graph used by the route" (50) |
| `src/workflows/research.ts:111` | searches, calls and waits add up to 641 s within 600 s; the run then ends without outcome | "returns one bounded terminal outcome" (100) |
| `src/core/researchPipeline.ts:227` | a completed draft is stored under the slug the model wrote | "durable identity and idempotency key" (`src/workflows/contract.ts:18`, of the input) |
| `src/adapters/openRouter.ts:308` | evidence may cite all 12 pages; the model is shown 8 | "use these, and only these, as evidence" (723) |
| `src/core/researchPipeline.ts:138` | the published check is made before an alias is resolved, and not again | "short-circuits known platforms" (`src/workflows/research.ts:101`) |
| `scripts/build-corpus-health.mjs:201` | publishes graphs with some findings of `validateJourneyGraph`; their routes then cannot be shown (`PublishedIsNearlySelectable` lists them) | "Published routes pass ... selected-route integrity gates." (`src/api/journey.ts:7`) |
| `server/service.ts:124` | the revision of envelope and workflow input is that of the session the handler read, plus one, and not of the `expectedRevision` that `acceptTurn` compares later: an answer accepted ahead carries another number than its turn. Its first run supersedes it, or no processor can decrypt it; its retries have another key than its submission | "Diagnostic turns reconnect to an active run" (`README.md:60`) |
| `server/service.ts:116` | an answer is compared with the question of the session read before the previous answer was processed: an answer to that question is accepted after the next one was asked | "This answer does not match the current diagnostic question" (117) |
| `server/reasoner.ts:79` | an answer that ticks both ways to continue counts as an answer here, and as a control turn in `validator.ts:154`: an objective is answered by a turn that spends no prompt | "hard-stops at fifteen active prompts" (`validator.test.ts:268`) |
| `src/adapters/postgresData.ts:377`, 400 | what was read of a platform is taken in without another look at memory: it may replace a draft stored meanwhile by the corpus record, beside the draft's graph | "so every instance can serve it on the next request" (`src/api/research.ts:318`) |
| `src/api/research.ts:370` | a run that ends as known completes the claim without a draft, and the seed takes such a claim for a live draft (`src/db/seed.ts:122`) and skips the platform | `recordJson` is "rewrite[n] on every deploy" (`persistResearchDraft.ts:45`) |
| `src/adapters/githubPr.ts:116` | a body lost after its headers reads as `{}`: a list as no open pull request (137), whose branch is then reset (160), and an opening (253) as skipped | "an already-open PR from that branch is reused" (30) |
| `src/core/runBlockerLinking.ts:52` | refuses an empty catalog only (56): during the first seed a task links against the reasons there are | "Ensure all catalog reasons have embeddings" (45) |
| `scripts/reason-lab.mjs:168` | `inspect` shows the other label and the model's candidate to a reviewer | "Reviewers label independently" (`evaluation/blocker-labeling-packet.json:13`) |
| `scripts/build-corpus-health.mjs:561` | the build drops punctuation from organization keys, the service does not (`src/core/peerComparison.ts:122`) | "Routes with at least three qualified peers" (`LAUNCH-CHECKLIST.txt:32`) |
| `scripts/build-corpus-health.mjs:567` | calls a cohort qualified by its own routes; in the service an outsider with the organization of one and the documentation of another takes the place of both (`src/core/peerComparison.ts:215`), which leaves two peers | the same |

## 8. Not modelled, and the plan

Left out, because it keeps no state that the protocols depend on, or because
its result is a free choice in the models: encryption, parsing, configuration,
start-up, telemetry and migrations; prompts and response schemas; the patterns
that classify texts; the web application and the read API of the Atlas; the
scores, load and curve that no public route exposes; `buildJourneyOverlay` over
records without a graph; the readiness report, print and downloads of the form; the
reports of `build-corpus-health.mjs` and the other generation, measurement and
verification scripts.

Left out although it has state, and next in the plan:

1. The hourly capacity of research (`api/research.ts:196`), which is counted
   before the claim is taken: it belongs into `ResearchClaims`, whose instance
   is at its limit.
2. Direct mode (`server/dispatcher.ts`) as its own system; the free callers of
   `DiagnosticStore` cover it.
3. Two tabs of the form on one local storage.
4. `openDraftRecordPR`, which makes the requests of `AuditContribution` and is
   not on the runtime path.

Compositions to state: `AtlasDrafts` with `ResearchClaims` (its completion is
`draft` there), and `TurnPolicy` with `DiagnosticStore` through the terminal
state.

These compositions, with the abstract specification of the pair, are what is
left to prove. Of the properties of the runs, only the liveness of the store
has no theorem.
