---------------------------- MODULE BlockerLinking ----------------------------
(***************************************************************************)
(* Linking one platform's friction gates to catalog reasons                *)
(* (core/runBlockerLinking.ts, core/blockerLinking.ts, the task of         *)
(* workflows/linkBlockers.ts and the script db/linkBlockers.ts): embed     *)
(* what changed, retrieve, let a model confirm, replace the links.  Every  *)
(* statement commits by itself; tasks retry once from the start, while     *)
(* drafts replace the gates and deploys add to and relabel the catalog.    *)
(***************************************************************************)
EXTENDS Naturals, Sequences, FiniteSets

CONSTANTS Tasks,        \* linking tasks that may run together
          ModelOf,      \* ModelOf[t]: the embedding model t is configured with
          Reasons,      \* reasons that some deploy puts into the catalog
          GateSlots,    \* gates a version of the platform has
          Answers,      \* what the confirming model may answer: lists of ids
          Confirming,   \* the tasks with a chat model; the others only rank
          MaxLinks,     \* MAX_LINKS
          MaxLinkAttempts, \* attempts of a task: two in linkBlockers.ts
          MaxLinkRuns,  \* linking runs in all
          MaxRelabels,  \* deploys that change a label
          MaxDrafts     \* drafts that replace the gates

ASSUME LinkingConstants ==
  /\ MaxLinks \in Nat \ {0} /\ MaxLinkAttempts \in Nat \ {0} /\ MaxDrafts \in Nat
  /\ Confirming \subseteq Tasks
  /\ \A answer \in Answers : answer \in Seq({answer[k] : k \in DOMAIN answer})

VARIABLES
  label,     \* label[q]: version of the text of reason q; 0 before it is seeded
  embedding, \* embedding[q]: model and text version of its one stored vector
  draft,     \* version of the platform: gates of older versions are gone
  links,     \* links[g]: reasons that gate g is linked to
  task,      \* task[t]: what t is doing
  started, relabels,
  exclusive  \* exclusive[t]: nobody else wrote links, gates or labels since t began

linkVars == <<label, embedding, draft, links, task, started, relabels, exclusive>>
------------------------------------------------------------------------------
NoVector == [model |-> "none", text |-> 0]
Vector(m, n) == [model |-> m, text |-> n]
gates == GateSlots \X {draft}

\* A task that holds nothing yet.
EmptyTask(pc, n) ==
  [pc |-> pc, attempt |-> n, stale |-> {}, text |-> <<>>, todo |-> {}, gate |-> <<>>,
   picks |-> <<>>, corpus |-> {}, done |-> {}]

catalog == {q \in Reasons : label[q] > 0}

\* The reasons that task t found, in the wording that it found.
readReasons(t) == {q \in Reasons : task[t].text[q] > 0}

\* A vector is reused only for the text and the model it was made for.
outdated(q, t) == embedding[q] # Vector(ModelOf[t], task[t].text[q])

\* The ids of the answer that were offered, in its order, repeats included,
\* and no more than the limit.
filterConfirmed(answer, offered) ==
  LET kept[n \in 0..Len(answer)] ==
        IF n = 0 THEN <<>>
        ELSE IF answer[n] \in offered /\ Len(kept[n-1]) < MaxLinks
        THEN Append(kept[n-1], answer[n]) ELSE kept[n-1]
  IN  kept[Len(answer)]

Elements(s) == {s[k] : k \in DOMAIN s}
Others(t) == exclusive' = [u \in Tasks |-> exclusive[u] /\ u = t]
Disturb == exclusive' = [u \in Tasks |-> FALSE]
Go(t, to) == task' = [task EXCEPT ![t] = to]
------------------------------------------------------------------------------
(* Embeddings                                                              *)

Start(t) ==
  /\ task[t].pc \in {"idle", "done", "failed"} /\ started < MaxLinkRuns
  /\ started' = started + 1
  /\ Go(t, EmptyTask("embed", 1))
  /\ exclusive' = [exclusive EXCEPT ![t] = \A u \in Tasks \ {t} : task[u].pc \in {"idle", "done", "failed"}]
  /\ UNCHANGED <<label, embedding, draft, links, relabels>>

\* ensureReasonEmbeddings reads the catalog, and then the vectors of its model.
ReadReasons(t) ==
  /\ task[t].pc = "embed" /\ catalog # {}
  /\ Go(t, [task[t] EXCEPT !.pc = "vectors", !.text = label])
  /\ UNCHANGED <<label, embedding, draft, links, started, relabels, exclusive>>

FindStale(t) ==
  /\ task[t].pc = "vectors"
  /\ Go(t, [task[t] EXCEPT !.pc = "upsert", !.stale = {q \in readReasons(t) : outdated(q, t)}])
  /\ UNCHANGED <<label, embedding, draft, links, started, relabels, exclusive>>

\* One row per reason, whatever the model; the text is the one read above.
UpsertVector(t) ==
  /\ task[t].pc = "upsert"
  /\ \E q \in task[t].stale :
       /\ embedding' = [embedding EXCEPT ![q] = Vector(ModelOf[t], task[t].text[q])]
       /\ Go(t, [task[t] EXCEPT !.stale = @ \ {q}])
  /\ Others(t)
  /\ UNCHANGED <<label, draft, links, started, relabels>>

\* A vector counts if the task has found its reason.
readable(t) == {q \in readReasons(t) : embedding[q].model = ModelOf[t]}

\* The vectors are read back while they are being written.
ReadCorpusEarly(t) ==
  /\ task[t].pc = "upsert"
  /\ Go(t, [task[t] EXCEPT !.pc = "gates", !.corpus = readable(t)])
  /\ UNCHANGED <<label, embedding, draft, links, started, relabels, exclusive>>

ReadCorpus(t) ==
  /\ task[t].pc = "upsert" /\ task[t].stale = {}
  /\ Go(t, [task[t] EXCEPT !.pc = "gates", !.corpus = readable(t)])
  /\ UNCHANGED <<label, embedding, draft, links, started, relabels, exclusive>>
------------------------------------------------------------------------------
(* Links                                                                   *)

ReadGates(t) ==
  /\ task[t].pc = "gates"
  /\ Go(t, [task[t] EXCEPT !.pc = "pick", !.todo = gates])
  /\ UNCHANGED <<label, embedding, draft, links, started, relabels, exclusive>>

\* Retrieval and the model's choice for the next gate; without a chat model
\* nothing is picked.
Pick(t) ==
  /\ task[t].pc = "pick"
  /\ \E g \in task[t].todo :
       \E answer \in IF t \in Confirming THEN Answers ELSE {<<>>} :
         Go(t, [task[t] EXCEPT !.pc = "delete", !.gate = g, !.todo = @ \ {g},
                  !.picks = filterConfirmed(answer, task[t].corpus)])
  /\ UNCHANGED <<label, embedding, draft, links, started, relabels, exclusive>>

DeleteLinks(t) ==
  /\ task[t].pc = "delete"
  /\ links' = [links EXCEPT ![task[t].gate] = {}]
  /\ Go(t, [task[t] EXCEPT !.pc = "create", !.done = @ \cup {<<task[t].gate, Elements(task[t].picks)>>}])
  /\ Others(t)
  /\ UNCHANGED <<label, embedding, draft, started, relabels>>

\* The row must be new, and its gate must still be there.
Insertable(t) ==
  /\ Head(task[t].picks) \notin links[task[t].gate]
  /\ task[t].gate \in gates

CreateLink(t) ==
  /\ task[t].pc = "create" /\ task[t].picks # <<>> /\ Insertable(t)
  /\ links' = [links EXCEPT ![task[t].gate] = @ \cup {Head(task[t].picks)}]
  /\ Go(t, [task[t] EXCEPT !.picks = Tail(@)])
  /\ Others(t)
  /\ UNCHANGED <<label, embedding, draft, started, relabels>>

NextGate(t) ==
  /\ task[t].pc = "create" /\ task[t].picks = <<>>
  /\ Go(t, [task[t] EXCEPT !.pc = "pick"])
  /\ UNCHANGED <<label, embedding, draft, links, started, relabels, exclusive>>

Finish(t) ==
  /\ task[t].pc = "pick" /\ task[t].todo = {}
  /\ Go(t, [task[t] EXCEPT !.pc = "done"])
  /\ UNCHANGED <<label, embedding, draft, links, started, relabels, exclusive>>

\* A provider, a statement or the process fails: the task starts again.
Retry(t) ==
  /\ Go(t, IF task[t].attempt < MaxLinkAttempts THEN EmptyTask("embed", task[t].attempt + 1)
           ELSE EmptyTask("failed", 0))
  /\ UNCHANGED <<label, embedding, draft, links, started, relabels, exclusive>>

InsertFails(t) ==
  task[t].pc = "create" /\ task[t].picks # <<>> /\ ~Insertable(t) /\ Retry(t)

\* Before the first seed there is nothing to link against.
CatalogMissing(t) == task[t].pc = "embed" /\ catalog = {} /\ Retry(t)

ProviderFails(t) == task[t].pc \in {"vectors", "upsert", "pick", "delete", "create"} /\ Retry(t)
------------------------------------------------------------------------------
(* The rest of the system                                                  *)

\* db/seed.ts puts one reason at a time into the catalog, or changes its label.
UpsertReason ==
  /\ \E q \in Reasons :
       /\ label' = [label EXCEPT ![q] = @ + 1]
       /\ relabels' = IF q \in catalog THEN relabels + 1 ELSE relabels
  /\ relabels' <= MaxRelabels
  /\ Disturb
  /\ UNCHANGED <<embedding, draft, links, task, started>>

\* A draft deletes the gates, and with them their links, and makes new ones.
ReplaceGates ==
  /\ draft < MaxDrafts /\ draft' = draft + 1
  /\ links' = [g \in DOMAIN links |-> {}]
  /\ Disturb
  /\ UNCHANGED <<label, embedding, task, started, relabels>>
------------------------------------------------------------------------------
\* Earlier seeds, some of them cut off, may have left any part of the catalog.
LinkInit ==
  /\ label \in [Reasons -> {0, 1}]
  /\ embedding = [q \in Reasons |-> NoVector]
  /\ draft = 0
  /\ links = [g \in GateSlots \X (0..MaxDrafts) |-> {}]
  /\ task = [t \in Tasks |-> EmptyTask("idle", 0)]
  /\ started = 0 /\ relabels = 0
  /\ exclusive = [t \in Tasks |-> FALSE]

Step(t) ==
  \/ Start(t) \/ ReadReasons(t) \/ CatalogMissing(t) \/ FindStale(t) \/ UpsertVector(t) \/ ReadCorpus(t) \/ ReadGates(t)
  \/ Pick(t) \/ DeleteLinks(t) \/ CreateLink(t) \/ NextGate(t) \/ Finish(t)
  \/ InsertFails(t) \/ ProviderFails(t)

LinkNext == (\E t \in Tasks : Step(t)) \/ UpsertReason \/ ReplaceGates

LinkSpec == LinkInit /\ [][LinkNext]_linkVars
------------------------------------------------------------------------------
(* Properties                                                              *)

\* Vectors, links and tasks have their types; no gate of a replaced version
\* keeps a link (the foreign key cascades).
LinkingTypeOK ==
  /\ \A q \in Reasons : embedding[q] # NoVector =>
       embedding[q].text \in 1..label[q] /\ \E t \in Tasks : embedding[q].model = ModelOf[t]
  /\ \A g \in DOMAIN links : links[g] \subseteq Reasons /\ (g \notin gates => links[g] = {})
  /\ \A t \in Tasks : task[t].attempt \in 0..MaxLinkAttempts /\ Len(task[t].picks) <= MaxLinks

\* A run that nobody disturbed has linked against the catalog as it is, leaves
\* every reason with a vector of its present text, and every gate with just the
\* reasons the model confirmed for it, however often the run had failed before,
\* and whatever earlier runs, drafts and deploys had left half-done
\* (linkPlatformBlockers).
LoneRunIsExact ==
  \A t \in Tasks : task[t].pc = "done" /\ exclusive[t] =>
    /\ task[t].corpus = catalog
    /\ \A q \in catalog : embedding[q] = Vector(ModelOf[t], label[q])
    /\ {d[1] : d \in task[t].done} = gates
    /\ \A d \in task[t].done : links[d[1]] = d[2]

\* While all tasks use one model, every task retrieves from all the reasons
\* that the catalog had when it read them, and there are some: a vector that
\* was in order then, or that it has stored since, is still readable for it,
\* whoever else embeds (ensureReasonEmbeddings).  A reason that a deploy adds
\* after that is missed until the next run.
CorpusIsWhole ==
  \A t \in Tasks : task[t].pc \in {"gates", "pick", "delete", "create"} =>
    task[t].corpus = readReasons(t) /\ task[t].corpus # {}

\* Links rest on the whole catalog that was read, undisturbed runs on the
\* present one, and on nothing but what the model confirmed.
LinksExact ==
  /\ LinkingTypeOK
  /\ CorpusIsWhole
  /\ LoneRunIsExact
==============================================================================
