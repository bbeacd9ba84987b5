-------------------------- MODULE AtlasTaskProofs ---------------------------
(***************************************************************************)
(* Proofs about the paid tasks of the Atlas, for any handlers, durations,  *)
(* tasks, models, gates and answers: the submissions in memory bound the   *)
(* tasks, and links rest on the present catalog and on what the model      *)
(* confirmed.                                                              *)
(***************************************************************************)
EXTENDS SubmissionMemory, BlockerLinking, SequenceTheorems, FiniteSetTheorems,
        WellFoundedInduction, TLAPS

(***************************************************************************)
(* Submissions.                                                            *)
(***************************************************************************)
(***************************************************************************)
(* The inductive invariant.                                                *)
(***************************************************************************)

\* Submissions, runs and what a handler waits for.
EntryRecord == [kind : Kinds, runId : Nat, at : Nat, life : Nat]
RunRecord == [key : Nat, acceptedAt : Nat, live : BOOLEAN]
HandlerRecord == [phase : {"idle", "sent", "arrived"}, entry : Nat, run : Nat]

\* The keys that were made, and the runs that Render started.
Keys == 1..Len(entries)
Started == 1..Len(runs)

\* What the variables hold.
MemoryShape ==
    /\ now \in Nat /\ restarts \in Nat
    /\ entries \in Seq(EntryRecord) /\ runs \in Seq(RunRecord)
    /\ memory \in [Kinds -> Nat] /\ handler \in [Handlers -> HandlerRecord]
    /\ stray \subseteq Keys
    /\ Len(slots) <= VerifyLimit

(* Everything names what it should: memory and handlers submissions of     *)
(* this process, submissions the run that has their key, runs their key.   *)
MemoryNames ==
    \A k \in Kinds : memory[k] # NoEntry =>
        memory[k] \in Keys /\ entries[memory[k]].kind = k /\ entries[memory[k]].life = restarts
HandlersName ==
    \A h \in Handlers : handler[h] # IdleHandler =>
        /\ handler[h].phase # "idle" /\ handler[h].entry \in Keys
        /\ entries[handler[h].entry].life = restarts
        /\ handler[h].phase = "arrived" =>
              handler[h].run \in Started /\ runs[handler[h].run].key = handler[h].entry
EntriesName ==
    \A i \in Keys :
        /\ entries[i].life <= restarts /\ entries[i].at <= now
        /\ entries[i].runId # NoRun =>
              entries[i].runId \in Started /\ runs[entries[i].runId].key = i
RunsName == \A r \in Started : runs[r].key \in Keys

(* Render starts the runs one after the other, and one for a key.          *)
RunsInOrder ==
    /\ \A r \in Started : runs[r].acceptedAt <= now
    /\ \A r, q \in Started : r < q => runs[r].acceptedAt <= runs[q].acceptedAt
OneForAKey == \A r, q \in Started : runs[r].key = runs[q].key => r = q

(* A key whose call is on its way is one that Render still remembers.      *)
Pending == stray \union {handler[h].entry : h \in {g \in Handlers : handler[g].phase = "sent"}}
PendingRemembered ==
    \A r \in Started : runs[r].key \in Pending => now - runs[r].acceptedAt < KeyTtl

(* The age of an unconfirmed submission counts from before its run, that   *)
(* of a confirmed verification from after it.                              *)
AgesRight ==
    \A r \in Started :
        LET e == entries[runs[r].key]
        IN  IF e.runId = NoRun THEN e.at <= runs[r].acceptedAt
            ELSE e.kind = "verify" => runs[r].acceptedAt <= e.at

(* A submission nobody was told the run of, or a research still at work.   *)
Unsettled(i) ==
    \/ entries[i].runId = NoRun
    \/ entries[i].kind = "research" /\ runs[entries[i].runId].live

\* Two submissions of one process and kind.
Siblings(i, j) == entries[i].kind = entries[j].kind /\ entries[i].life = entries[j].life

(* A process has one unsettled submission of a kind, the one in memory; it *)
(* confirmed those before, and a verification leaves memory for the next.  *)
UnsettledInMemory ==
    \A i \in Keys : entries[i].life = restarts /\ Unsettled(i) => memory[entries[i].kind] = i
OneUnsettled == \A i, j \in Keys : Siblings(i, j) /\ Unsettled(i) /\ Unsettled(j) => i = j
ConfirmedBefore == \A i, j \in Keys : Siblings(i, j) /\ i < j => entries[i].runId # NoRun
LatestInMemory ==
    \A i \in Keys : entries[i].life = restarts /\ entries[i].kind = "verify" => i <= memory["verify"]

(* A verification is submitted a reuse window after the one before started. *)
Spaced ==
    \A i, j \in Keys : entries[i].kind = "verify" /\ Siblings(i, j) /\ i < j =>
        \A r \in Started : runs[r].key = i =>
            /\ runs[r].acceptedAt + DedupeTtl <= entries[j].at
            /\ \A q \in Started : runs[q].key = j => runs[r].acceptedAt + DedupeTtl <= runs[q].acceptedAt

\* The inductive invariant.
Naming == MemoryNames /\ HandlersName /\ EntriesName /\ RunsName
Order == RunsInOrder /\ OneForAKey /\ PendingRemembered /\ AgesRight
Unsettledness == UnsettledInMemory /\ OneUnsettled /\ ConfirmedBefore /\ LatestInMemory
MemoryInv == MemoryShape /\ Naming /\ Order /\ Unsettledness /\ Spaced

(* What the elements of the sequences are.                                 *)
LEMMA MemoryElements ==
  ASSUME MemoryShape
  PROVE  /\ \A i \in Keys : entries[i] \in EntryRecord
         /\ \A r \in Started : runs[r] \in RunRecord
         /\ \A h \in Handlers : handler[h] \in HandlerRecord
         /\ Len(entries) \in Nat /\ Len(runs) \in Nat
         /\ Keys \subseteq Nat /\ Started \subseteq Nat
BY DEF MemoryShape, Keys, Started

\* At first there is nothing to name.
LEMMA MemoryInitially == MemoryInit => MemoryInv
<1> SUFFICES ASSUME MemoryInit PROVE MemoryInv
  OBVIOUS
<1>1. MemoryShape
  <2>1. IdleHandler \in HandlerRecord
    BY DEF IdleHandler, HandlerRecord, NoEntry, NoRun
  <2> QED BY <2>1, Durations DEF MemoryInit, MemoryShape, NoEntry
<1>2. Keys = {} /\ Started = {} /\ (\A h \in Handlers : handler[h] = IdleHandler)
      /\ (\A k \in Kinds : memory[k] = NoEntry)
  BY DEF Keys, Started, MemoryInit
<1> QED BY <1>1, <1>2 DEF MemoryInv, Naming, MemoryNames, HandlersName, EntriesName, RunsName,
       Order, RunsInOrder, OneForAKey, PendingRemembered, AgesRight,
       Unsettledness, UnsettledInMemory, OneUnsettled, ConfirmedBefore, LatestInMemory, Spaced

(***************************************************************************)
(* Render.                                                                 *)
(***************************************************************************)

(* A call whose key is on its way finds the run of the key, or there is    *)
(* none and it starts the first.                                           *)
LEMMA KeyFindsItsRun ==
  ASSUME MemoryInv, NEW key \in Pending
  PROVE  /\ key \in Keys
         /\ remembered(key) = {} => \A r \in Started : runs[r].key # key
<1>1. key \in Keys
  <2>1. ASSUME NEW h \in Handlers, handler[h].phase = "sent" PROVE handler[h].entry \in Keys
    <3>1. handler[h] # IdleHandler
      BY <2>1 DEF IdleHandler
    <3> QED BY <3>1 DEF MemoryInv, Naming, HandlersName
  <2> QED BY <2>1 DEF Pending, MemoryInv, MemoryShape
<1>2. ASSUME NEW r \in Started, runs[r].key = key PROVE r \in remembered(key)
  <2>1. now - runs[r].acceptedAt < KeyTtl
    BY <1>2 DEF MemoryInv, Order, PendingRemembered
  <2> QED BY <1>2, <2>1 DEF remembered, Started
<1> QED BY <1>1, <1>2

(* The arrival of a call whose key is on its way: nothing but the runs is  *)
(* disturbed, and the run the key has is there afterwards.                 *)
LEMMA AcceptKeeps ==
  ASSUME MemoryInv, NEW key \in Pending, Accept(key),
         UNCHANGED <<now, entries, memory, restarts>>
  PROVE  /\ runs' \in Seq(RunRecord)
         /\ Len(runs') >= Len(runs) /\ Len(runs') \in Nat
         /\ \A r \in Started : runs'[r] = runs[r]
         /\ AcceptedAs(key) \in Started' /\ runs'[AcceptedAs(key)].key = key
         /\ \A r \in Started' : r \in Started \/ (r = Len(runs) + 1 /\ runs'[r].key = key /\ runs'[r].acceptedAt = now)
         /\ (EntriesName /\ RunsName /\ RunsInOrder /\ OneForAKey /\ AgesRight)'
         /\ (Unsettledness /\ Spaced)'
<1>n. PICK n \in Nat : n = Len(runs)
  BY DEF MemoryInv, MemoryShape
<1>t. /\ \A i \in Keys : entries[i] \in EntryRecord
      /\ \A r \in Started : runs[r] \in RunRecord
      /\ Keys \subseteq Nat
  BY MemoryElements DEF MemoryInv
<1>k. Keys' = Keys
  BY DEF Keys
<1>1. CASE remembered(key) # {}
  <2>1. runs' = runs
    BY <1>1 DEF Accept
  <2>2. AcceptedAs(key) \in remembered(key)
    BY <1>1 DEF AcceptedAs
  <2>3. AcceptedAs(key) \in Started /\ runs[AcceptedAs(key)].key = key
    BY <2>2 DEF remembered, Started
  <2>4. Started' = Started
    BY <2>1 DEF Started
  <2>5. (EntriesName /\ RunsName /\ RunsInOrder /\ OneForAKey /\ AgesRight)'
    BY <2>1, <2>4, <1>k DEF MemoryInv, Naming, Order, EntriesName, RunsName, RunsInOrder, OneForAKey, AgesRight
  <2>6. (Unsettledness /\ Spaced)'
    BY <2>1, <2>4, <1>k DEF MemoryInv, Unsettledness, UnsettledInMemory, OneUnsettled, ConfirmedBefore, LatestInMemory,
       Spaced, Unsettled, Siblings
  <2>7. runs' \in Seq(RunRecord) /\ Len(runs') >= Len(runs) /\ Len(runs') \in Nat
    BY <2>1, <1>n DEF MemoryInv, MemoryShape
  <2> QED BY <2>1, <2>3, <2>4, <2>5, <2>6, <2>7
<1>2. CASE remembered(key) = {}
  <2> DEFINE new == [key |-> key, acceptedAt |-> now, live |-> TRUE]
  <2>0. key \in Keys /\ (\A r \in Started : runs[r].key # key)
    BY <1>2, KeyFindsItsRun
  <2>1. runs' = Append(runs, new)
    BY <1>2 DEF Accept
  <2>2. new \in RunRecord
    BY <2>0, <1>t DEF RunRecord, MemoryInv, MemoryShape
  <2>3. /\ runs' \in Seq(RunRecord) /\ Len(runs') = n + 1
        /\ runs'[n + 1] = new /\ (\A r \in 1..n : runs'[r] = runs[r])
    <3> HIDE DEF new
    <3> QED BY <2>1, <2>2, <1>n DEF MemoryInv, MemoryShape
  <2>4. Started = 1..n /\ Started' = 1..(n + 1)
    BY <2>3, <1>n DEF Started
  <2>5. AcceptedAs(key) = n + 1
    BY <1>2, <1>n DEF AcceptedAs
  <2>6. /\ Started \subseteq Started' /\ n + 1 \in Started' /\ n + 1 \notin Started
        /\ \A r \in Started' : r \in Started \/ r = n + 1
        /\ \A r \in Started : r < n + 1
    BY <2>4
  <2>7. /\ runs'[n + 1].key = key /\ runs'[n + 1].acceptedAt = now
        /\ \A r \in Started : runs'[r] = runs[r]
    BY <2>3, <2>4
  <2>8. entries' = entries /\ now' = now /\ memory' = memory /\ restarts' = restarts
    OBVIOUS
  <2> HIDE DEF new
  <2>9. EntriesName' /\ RunsName'
    <3>1. EntriesName'
      BY <2>6, <2>7, <2>8, <1>k DEF MemoryInv, Naming, EntriesName
    <3>2. RunsName'
      BY <2>0, <2>6, <2>7, <2>8, <1>k DEF MemoryInv, Naming, RunsName
    <3> QED BY <3>1, <3>2
  <2>10. RunsInOrder'
    <3>1. now \in Nat
      BY DEF MemoryInv, MemoryShape
    <3>2. \A r \in Started' : runs'[r].acceptedAt <= now
      BY <3>1, <2>6, <2>7 DEF MemoryInv, Order, RunsInOrder
    <3>3. ASSUME NEW r \in Started', NEW q \in Started', r < q
          PROVE  runs'[r].acceptedAt <= runs'[q].acceptedAt
      <4>1. CASE q = n + 1
        BY <4>1, <3>2, <2>7
      <4>2. CASE q # n + 1
        <5>1. q \in Started /\ r \in Started
          BY <4>2, <2>6, <2>4, <3>3
        <5> QED BY <5>1, <3>3, <2>7 DEF MemoryInv, Order, RunsInOrder
      <4> QED BY <4>1, <4>2
    <3> QED BY <3>2, <3>3, <2>8 DEF RunsInOrder
  <2>11. OneForAKey'
    BY <2>0, <2>6, <2>7 DEF MemoryInv, Order, OneForAKey
  <2>12. entries[key].runId = NoRun
    BY <2>0 DEF MemoryInv, Naming, EntriesName
  <2>13. AgesRight'
    <3>1. entries[key].at <= now
      BY <2>0 DEF MemoryInv, Naming, EntriesName
    <3> QED BY <3>1, <2>12, <2>6, <2>7, <2>8 DEF MemoryInv, Order, AgesRight
  <2>14. \A i \in Keys : Unsettled(i)' <=> Unsettled(i)
    <3>1. ASSUME NEW i \in Keys PROVE Unsettled(i)' <=> Unsettled(i)
      <4>1. CASE entries[i].runId = NoRun
        BY <4>1, <2>8 DEF Unsettled
      <4>2. CASE entries[i].runId # NoRun
        <5>1. entries[i].runId \in Started
          BY <4>2 DEF MemoryInv, Naming, EntriesName
        <5> QED BY <5>1, <2>7, <2>8 DEF Unsettled
      <4> QED BY <4>1, <4>2
    <3> QED BY <3>1
  <2>15. Unsettledness'
    BY <2>14, <2>8, <1>k DEF MemoryInv, Unsettledness, UnsettledInMemory, OneUnsettled, ConfirmedBefore, LatestInMemory, Siblings
  <2>16. Spaced'
    <3>1. SUFFICES ASSUME NEW i \in Keys, NEW j \in Keys, entries[i].kind = "verify", Siblings(i, j), i < j,
                          NEW r \in Started', runs'[r].key = i
                   PROVE  /\ runs'[r].acceptedAt + DedupeTtl <= entries[j].at
                          /\ \A q \in Started' : runs'[q].key = j =>
                                runs'[r].acceptedAt + DedupeTtl <= runs'[q].acceptedAt
      BY <2>8, <1>k DEF Spaced, Siblings
    <3>2. entries[i].runId # NoRun
      BY <3>1 DEF MemoryInv, Unsettledness, ConfirmedBefore
    <3>3. i # key
      BY <3>2, <2>12
    <3>4. r \in Started /\ runs[r].key = i /\ runs'[r] = runs[r]
      BY <3>1, <3>3, <2>6, <2>7
    <3>5. /\ runs[r].acceptedAt + DedupeTtl <= entries[j].at
          /\ \A q \in Started : runs[q].key = j => runs[r].acceptedAt + DedupeTtl <= runs[q].acceptedAt
      BY <3>1, <3>4 DEF MemoryInv, Spaced
    <3>6. runs[r].acceptedAt + DedupeTtl <= now
      <4>1. entries[j].at <= now
        BY DEF MemoryInv, Naming, EntriesName
      <4>2. entries[j].at \in Nat /\ now \in Nat /\ runs[r].acceptedAt \in Nat
        BY <3>4, <1>t DEF MemoryInv, MemoryShape, EntryRecord, RunRecord
      <4> QED BY <4>1, <4>2, <3>5, Durations
    <3> QED BY <3>4, <3>5, <3>6, <2>6, <2>7
  <2>17. Len(runs') >= Len(runs) /\ Len(runs') \in Nat
    BY <2>3, <1>n
  <2> QED BY <2>3, <2>5, <2>6, <2>7, <2>9, <2>10, <2>11, <2>13, <2>15, <2>16, <2>17, <1>n
<1> QED BY <1>1, <1>2

(***************************************************************************)
(* One lemma for each step.                                                *)
(***************************************************************************)

(* A new submission, of a kind whose memory holds none that is unsettled.  *)
LEMMA SubmitNewKeeps ==
  ASSUME MemoryInv, NEW h \in Handlers, NEW k \in Kinds, handler[h] = IdleHandler,
         Submit(h, k), ~ unconfirmed(memory[k]), Len(slots') <= VerifyLimit,
         k = "research" => memory[k] = NoEntry,
         k = "verify" => ~ reusable(memory[k])
  PROVE  MemoryInv'
<1>n. PICK n \in Nat : n = Len(entries)
  BY DEF MemoryInv, MemoryShape
<1>t. /\ \A i \in Keys : entries[i] \in EntryRecord
      /\ \A r \in Started : runs[r] \in RunRecord
      /\ now \in Nat /\ restarts \in Nat
  BY MemoryElements DEF MemoryInv, MemoryShape
<1>1. /\ entries' = Append(entries, Entry(k)) /\ memory' = [memory EXCEPT ![k] = n + 1]
      /\ handler' = [handler EXCEPT ![h] = [phase |-> "sent", entry |-> n + 1, run |-> NoRun]]
      /\ UNCHANGED <<now, stray, runs, restarts>>
  BY <1>n DEF Submit
<1>2. Entry(k) \in EntryRecord
  BY <1>t DEF Entry, EntryRecord, NoRun
<1>3. /\ entries' \in Seq(EntryRecord) /\ Len(entries') = n + 1
      /\ entries'[n + 1] = Entry(k) /\ (\A i \in 1..n : entries'[i] = entries[i])
  BY <1>1, <1>2, <1>n DEF MemoryInv, MemoryShape
<1>4. Keys = 1..n /\ Keys' = 1..(n + 1) /\ Started' = Started
  BY <1>1, <1>3, <1>n DEF Keys, Started
<1>5. /\ Keys \subseteq Keys' /\ n + 1 \in Keys' /\ n + 1 \notin Keys /\ n + 1 # NoEntry
      /\ \A i \in Keys' : i \in Keys \/ i = n + 1
      /\ \A i \in Keys : i < n + 1 /\ ~ (n + 1 < i)
      /\ ~ (n + 1 < n + 1)
  BY <1>4 DEF NoEntry
<1>6. /\ \A i \in Keys : entries'[i] = entries[i]
      /\ entries'[n + 1] = [kind |-> k, runId |-> NoRun, at |-> now, life |-> restarts]
  BY <1>3, <1>4 DEF Entry
<1>7. /\ memory'[k] = n + 1 /\ \A l \in Kinds : l # k => memory'[l] = memory[l]
      /\ handler'[h] = [phase |-> "sent", entry |-> n + 1, run |-> NoRun]
      /\ \A g \in Handlers : g # h => handler'[g] = handler[g]
  BY <1>1 DEF MemoryInv, MemoryShape
<1>8. now' = now /\ stray' = stray /\ runs' = runs /\ restarts' = restarts
  BY <1>1
<1>9. MemoryShape'
  <2>1. memory' \in [Kinds -> Nat]
    BY <1>1, <1>n DEF MemoryInv, MemoryShape
  <2>2. [phase |-> "sent", entry |-> n + 1, run |-> NoRun] \in HandlerRecord
    BY <1>n DEF HandlerRecord, NoRun
  <2>3. handler' \in [Handlers -> HandlerRecord]
    BY <2>2, <1>1 DEF MemoryInv, MemoryShape
  <2> QED BY <1>3, <1>5, <1>8, <2>1, <2>3 DEF MemoryInv, MemoryShape
<1>10. MemoryNames'
  <2>1. ASSUME NEW l \in Kinds, memory'[l] # NoEntry
        PROVE  memory'[l] \in Keys' /\ entries'[memory'[l]].kind = l /\ entries'[memory'[l]].life = restarts
    <3>1. CASE l = k
      BY <3>1, <1>5, <1>6, <1>7
    <3>2. CASE l # k
      BY <2>1, <3>2, <1>5, <1>6, <1>7 DEF MemoryInv, Naming, MemoryNames
    <3> QED BY <3>1, <3>2
  <2> QED BY <2>1, <1>8 DEF MemoryNames
<1>11. HandlersName'
  <2>1. ASSUME NEW g \in Handlers, handler'[g] # IdleHandler
        PROVE  /\ handler'[g].phase # "idle" /\ handler'[g].entry \in Keys'
               /\ entries'[handler'[g].entry].life = restarts
               /\ handler'[g].phase = "arrived" =>
                     handler'[g].run \in Started /\ runs[handler'[g].run].key = handler'[g].entry
    <3>1. CASE g = h
      BY <3>1, <1>5, <1>6, <1>7
    <3>2. CASE g # h
      BY <2>1, <3>2, <1>5, <1>6, <1>7 DEF MemoryInv, Naming, HandlersName
    <3> QED BY <3>1, <3>2
  <2> QED BY <2>1, <1>4, <1>8 DEF HandlersName, IdleHandler
<1>12. EntriesName' /\ RunsName'
  <2>1. EntriesName'
    <3>1. ASSUME NEW i \in Keys' PROVE entries'[i].life <= restarts /\ entries'[i].at <= now
      <4>1. CASE i \in Keys
        BY <4>1, <1>6 DEF MemoryInv, Naming, EntriesName
      <4>2. CASE i = n + 1
        BY <4>2, <1>6, <1>t
      <4> QED BY <4>1, <4>2, <1>5
    <3>2. ASSUME NEW i \in Keys', entries'[i].runId # NoRun
          PROVE  entries'[i].runId \in Started /\ runs[entries'[i].runId].key = i
      BY <3>2, <1>5, <1>6 DEF MemoryInv, Naming, EntriesName
    <3> QED BY <3>1, <3>2, <1>4, <1>8 DEF EntriesName
  <2>2. RunsName'
    BY <1>4, <1>5, <1>8 DEF MemoryInv, Naming, RunsName
  <2> QED BY <2>1, <2>2
<1>13. RunsInOrder' /\ OneForAKey'
  BY <1>4, <1>8 DEF MemoryInv, Order, RunsInOrder, OneForAKey
<1>14. \A r \in Started : runs[r].key \in Keys
  BY DEF MemoryInv, Naming, RunsName
<1>15. PendingRemembered'
  <2>1. ASSUME NEW r \in Started, runs[r].key \in Pending' PROVE runs[r].key \in Pending
    <3>1. runs[r].key # n + 1
      BY <1>5, <1>14
    <3>2. CASE runs[r].key \in stray
      BY <3>2 DEF Pending
    <3>3. CASE runs[r].key \notin stray
      <4>1. PICK g \in Handlers : handler'[g].phase = "sent" /\ runs[r].key = handler'[g].entry
        BY <2>1, <3>3, <1>8 DEF Pending
      <4>2. g # h
        BY <3>1, <4>1, <1>7
      <4> QED BY <4>1, <4>2, <1>7 DEF Pending
    <3> QED BY <3>2, <3>3
  <2> QED BY <2>1, <1>4, <1>8 DEF MemoryInv, Order, PendingRemembered
<1>16. AgesRight'
  BY <1>4, <1>6, <1>8, <1>14 DEF MemoryInv, Order, AgesRight
<1>17. ASSUME NEW i \in Keys, entries[i].kind = k, entries[i].life = restarts PROVE ~ Unsettled(i)
  <2>1. SUFFICES ASSUME Unsettled(i) PROVE FALSE
    OBVIOUS
  <2>2. memory[k] = i
    BY <1>17, <2>1 DEF MemoryInv, Unsettledness, UnsettledInMemory
  <2>3. i # NoEntry
    BY <1>4 DEF NoEntry
  <2> QED BY <2>1, <2>2, <2>3, <1>17 DEF Unsettled, unconfirmed
<1>18. \A i \in Keys : Unsettled(i)' <=> Unsettled(i)
  BY <1>6, <1>8 DEF Unsettled
<1>19. \A i, j \in Keys : Siblings(i, j)' <=> Siblings(i, j)
  BY <1>6 DEF Siblings
<1>20. ASSUME NEW i \in Keys, Siblings(i, n + 1)' \/ Siblings(n + 1, i)'
       PROVE  entries[i].kind = k /\ entries[i].life = restarts
  BY <1>20, <1>6 DEF Siblings
<1>21. UnsettledInMemory'
  <2>1. ASSUME NEW i \in Keys', entries'[i].life = restarts, Unsettled(i)'
        PROVE  memory'[entries'[i].kind] = i
    <3>1. CASE i = n + 1
      BY <3>1, <1>6, <1>7
    <3>2. CASE i \in Keys
      <4>1. entries[i].kind # k
        BY <2>1, <3>2, <1>6, <1>17, <1>18
      <4>2. memory[entries[i].kind] = i /\ entries[i].kind \in Kinds
        BY <2>1, <3>2, <1>6, <1>18, <1>t DEF MemoryInv, Unsettledness, UnsettledInMemory, EntryRecord
      <4> QED BY <4>1, <4>2, <3>2, <1>6, <1>7
    <3> QED BY <3>1, <3>2, <1>5
  <2> QED BY <2>1, <1>8 DEF UnsettledInMemory
<1>22. OneUnsettled'
  <2>1. ASSUME NEW i \in Keys', NEW j \in Keys', Siblings(i, j)', Unsettled(i)', Unsettled(j)' PROVE i = j
    <3>1. CASE i \in Keys /\ j \in Keys
      BY <2>1, <3>1, <1>18, <1>19 DEF MemoryInv, Unsettledness, OneUnsettled
    <3>2. CASE i \in Keys /\ j = n + 1
      BY <2>1, <3>2, <1>17, <1>18, <1>20
    <3>3. CASE j \in Keys /\ i = n + 1
      BY <2>1, <3>3, <1>17, <1>18, <1>20
    <3> QED BY <3>1, <3>2, <3>3, <1>5
  <2> QED BY <2>1 DEF OneUnsettled
<1>23. ConfirmedBefore'
  <2>1. ASSUME NEW i \in Keys', NEW j \in Keys', Siblings(i, j)', i < j PROVE entries'[i].runId # NoRun
    <3>1. i \in Keys
      BY <2>1, <1>5
    <3>2. CASE j \in Keys
      BY <2>1, <3>1, <3>2, <1>6, <1>19 DEF MemoryInv, Unsettledness, ConfirmedBefore
    <3>3. CASE j = n + 1
      BY <2>1, <3>1, <3>3, <1>6, <1>17, <1>20 DEF Unsettled
    <3> QED BY <3>2, <3>3, <1>5
  <2> QED BY <2>1 DEF ConfirmedBefore
<1>24. LatestInMemory'
  <2>1. ASSUME NEW i \in Keys', entries'[i].life = restarts, entries'[i].kind = "verify"
        PROVE  i <= memory'["verify"]
    <3>1. CASE k = "verify"
      BY <3>1, <1>4, <1>7, <1>n
    <3>2. CASE k # "verify"
      <4>1. i \in Keys
        BY <2>1, <3>2, <1>5, <1>6
      <4>2. "verify" \in Kinds
        BY <2>1, <4>1, <1>6, <1>t DEF EntryRecord
      <4>3. i <= memory["verify"]
        BY <2>1, <4>1, <1>6 DEF MemoryInv, Unsettledness, LatestInMemory
      <4> QED BY <4>2, <4>3, <3>2, <1>7
    <3> QED BY <3>1, <3>2
  <2> QED BY <2>1, <1>8 DEF LatestInMemory
<1>25. ASSUME k = "verify", NEW i \in Keys, entries[i].kind = k, entries[i].life = restarts,
              NEW r \in Started, runs[r].key = i
       PROVE  runs[r].acceptedAt + DedupeTtl <= now
  <2>1. PICK m \in Nat : m = memory["verify"]
    BY <1>25 DEF MemoryInv, MemoryShape
  <2>2. i <= m
    BY <1>25, <2>1 DEF MemoryInv, Unsettledness, LatestInMemory
  <2>3. m \in Keys /\ m # NoEntry /\ entries[m].kind = "verify" /\ entries[m].life = restarts
    <3>1. m # NoEntry
      BY <1>4, <2>1, <2>2, <1>n DEF NoEntry
    <3> QED BY <1>25, <2>1, <3>1 DEF MemoryInv, Naming, MemoryNames
  <2>4. entries[m].runId # NoRun
    BY <1>25, <2>1, <2>3 DEF unconfirmed
  <2>5. ~ (now - entries[m].at < DedupeTtl)
    BY <1>25, <2>1, <2>3, <2>4 DEF reusable
  <2>6. entries[m].at \in Nat /\ runs[r].acceptedAt \in Nat /\ entries[m].at <= now
    BY <2>3, <1>t DEF EntryRecord, RunRecord, MemoryInv, Naming, EntriesName
  <2>7. CASE i = m
    <3>1. runs[r].acceptedAt <= entries[m].at
      BY <1>25, <2>3, <2>4, <2>7 DEF MemoryInv, Order, AgesRight
    <3> QED BY <2>5, <2>6, <3>1, <1>t, Durations
  <2>8. CASE i # m
    <3>1. i < m
      BY <2>2, <2>8, <1>4, <2>1
    <3>2. runs[r].acceptedAt + DedupeTtl <= entries[m].at
      BY <1>25, <2>3, <3>1 DEF MemoryInv, Spaced, Siblings
    <3> QED BY <2>6, <3>2, <1>t, Durations
  <2> QED BY <2>7, <2>8
<1>26. Spaced'
  <2>1. SUFFICES ASSUME NEW i \in Keys', NEW j \in Keys', entries'[i].kind = "verify", Siblings(i, j)', i < j,
                        NEW r \in Started, runs[r].key = i
                 PROVE  /\ runs[r].acceptedAt + DedupeTtl <= entries'[j].at
                        /\ \A q \in Started : runs[q].key = j =>
                              runs[r].acceptedAt + DedupeTtl <= runs[q].acceptedAt
    BY <1>4, <1>8 DEF Spaced
  <2>2. i \in Keys /\ entries'[i] = entries[i]
    BY <2>1, <1>5, <1>6
  <2>3. CASE j \in Keys
    BY <2>1, <2>2, <2>3, <1>6, <1>19 DEF MemoryInv, Spaced
  <2>4. CASE j = n + 1
    <3>1. entries[i].kind = k /\ entries[i].life = restarts
      BY <2>1, <2>2, <2>4, <1>20
    <3>2. runs[r].acceptedAt + DedupeTtl <= now
      BY <2>1, <2>2, <3>1, <1>25
    <3>3. \A q \in Started : runs[q].key # j
      BY <2>4, <1>5, <1>14
    <3> QED BY <2>4, <3>2, <3>3, <1>6
  <2> QED BY <2>3, <2>4, <1>5
<1> QED BY <1>9, <1>10, <1>11, <1>12, <1>13, <1>15, <1>16, <1>21, <1>22, <1>23, <1>24, <1>26
     DEF MemoryInv, Naming, Order, Unsettledness

(* The unconfirmed submission in memory once more: Render still remembers  *)
(* its key, if it has seen it.                                             *)
LEMMA SubmitAgainKeeps ==
  ASSUME MemoryInv, NEW h \in Handlers, NEW k \in Kinds, handler[h] = IdleHandler,
         Submit(h, k), unconfirmed(memory[k]), Len(slots') <= VerifyLimit
  PROVE  MemoryInv'
<1>m. PICK m \in Nat : m = memory[k]
  BY DEF MemoryInv, MemoryShape
<1>t. /\ \A i \in Keys : entries[i] \in EntryRecord
      /\ \A r \in Started : runs[r] \in RunRecord
      /\ now \in Nat
  BY MemoryElements DEF MemoryInv, MemoryShape
<1>1. m # NoEntry /\ m \in Keys /\ entries[m].life = restarts /\ entries[m].runId = NoRun
  BY <1>m DEF unconfirmed, MemoryInv, Naming, MemoryNames
<1>2. /\ entries' = entries /\ memory' = memory
      /\ handler' = [handler EXCEPT ![h] = [phase |-> "sent", entry |-> m, run |-> NoRun]]
      /\ ~ (now - entries[m].at >= KeyTtl)
      /\ now' = now /\ stray' = stray /\ runs' = runs /\ restarts' = restarts
  BY <1>m DEF Submit, submissionExpired, MemoryInv, MemoryShape
<1>3. Keys' = Keys /\ Started' = Started
  BY <1>2 DEF Keys, Started
<1>4. /\ handler'[h] = [phase |-> "sent", entry |-> m, run |-> NoRun]
      /\ \A g \in Handlers : g # h => handler'[g] = handler[g]
  BY <1>2 DEF MemoryInv, MemoryShape
<1>5. MemoryShape'
  <2>1. [phase |-> "sent", entry |-> m, run |-> NoRun] \in HandlerRecord
    BY <1>m DEF HandlerRecord, NoRun
  <2>2. handler' \in [Handlers -> HandlerRecord]
    BY <2>1, <1>2 DEF MemoryInv, MemoryShape
  <2> QED BY <1>2, <1>3, <2>2 DEF MemoryInv, MemoryShape
<1>6. HandlersName'
  <2>1. ASSUME NEW g \in Handlers, handler'[g] # IdleHandler
        PROVE  /\ handler'[g].phase # "idle" /\ handler'[g].entry \in Keys
               /\ entries[handler'[g].entry].life = restarts
               /\ handler'[g].phase = "arrived" =>
                     handler'[g].run \in Started /\ runs[handler'[g].run].key = handler'[g].entry
    <3>1. CASE g = h
      BY <3>1, <1>1, <1>4
    <3>2. CASE g # h
      BY <2>1, <3>2, <1>4 DEF MemoryInv, Naming, HandlersName
    <3> QED BY <3>1, <3>2
  <2> QED BY <2>1, <1>2, <1>3 DEF HandlersName, IdleHandler
<1>7. PendingRemembered'
  <2>1. ASSUME NEW r \in Started, runs[r].key \in Pending' PROVE now - runs[r].acceptedAt < KeyTtl
    <3>1. CASE runs[r].key = m
      <4>1. entries[m].at <= runs[r].acceptedAt
        BY <1>1, <3>1 DEF MemoryInv, Order, AgesRight
      <4>2. entries[m].at \in Nat /\ runs[r].acceptedAt \in Nat
        BY <1>1, <1>t DEF EntryRecord, RunRecord
      <4> QED BY <4>1, <4>2, <1>2, <1>t, Durations
    <3>2. CASE runs[r].key # m
      <4>1. runs[r].key \in Pending
        <5>1. CASE runs[r].key \in stray
          BY <5>1 DEF Pending
        <5>2. CASE runs[r].key \notin stray
          <6>1. PICK g \in Handlers : handler'[g].phase = "sent" /\ runs[r].key = handler'[g].entry
            BY <2>1, <5>2, <1>2 DEF Pending
          <6>2. g # h
            BY <3>2, <6>1, <1>4
          <6> QED BY <6>1, <6>2, <1>4 DEF Pending
        <5> QED BY <5>1, <5>2
      <4> QED BY <4>1 DEF MemoryInv, Order, PendingRemembered
    <3> QED BY <3>1, <3>2
  <2> QED BY <2>1, <1>2, <1>3 DEF PendingRemembered
<1>8. (MemoryNames /\ EntriesName /\ RunsName /\ RunsInOrder /\ OneForAKey /\ AgesRight)'
  BY <1>2, <1>3 DEF MemoryInv, Naming, Order, MemoryNames, EntriesName, RunsName, RunsInOrder, OneForAKey, AgesRight
<1>9. (Unsettledness /\ Spaced)'
  BY <1>2, <1>3 DEF MemoryInv, Unsettledness, UnsettledInMemory, OneUnsettled, ConfirmedBefore, LatestInMemory,
     Spaced, Unsettled, Siblings
<1> QED BY <1>5, <1>6, <1>7, <1>8, <1>9 DEF MemoryInv, Naming, Order

\* A visitor asks for research.
LEMMA StartResearchKeeps ==
  ASSUME MemoryInv, NEW h \in Handlers, StartResearch(h)
  PROVE  MemoryInv'
<1>1. "research" \in Kinds /\ handler[h] = IdleHandler /\ Submit(h, "research") /\ Len(slots') <= VerifyLimit
  BY DEF StartResearch, MemoryInv, MemoryShape
<1>2. CASE unconfirmed(memory["research"])
  BY <1>1, <1>2, SubmitAgainKeeps
<1>3. CASE ~ unconfirmed(memory["research"])
  <2>1. memory["research"] = NoEntry
    BY <1>3 DEF StartResearch
  <2> QED BY <1>1, <1>3, <2>1, SubmitNewKeeps
<1> QED BY <1>2, <1>3

\* A visitor asks for a verification.
LEMMA StartVerifyKeeps ==
  ASSUME MemoryInv, NEW h \in Handlers, StartVerify(h)
  PROVE  MemoryInv'
<1>1. "verify" \in Kinds /\ handler[h] = IdleHandler /\ Submit(h, "verify") /\ ~ reusable(memory["verify"])
  BY DEF StartVerify
<1>2. Len(slots') <= VerifyLimit
  BY DEF StartVerify, slotFree
<1>3. CASE unconfirmed(memory["verify"])
  BY <1>1, <1>2, <1>3, SubmitAgainKeeps
<1>4. CASE ~ unconfirmed(memory["verify"])
  BY <1>1, <1>2, <1>4, SubmitNewKeeps
<1> QED BY <1>3, <1>4

(* Steps that change neither submissions nor runs, nor the time, nor add   *)
(* to the calls on their way.                                              *)
LEMMA MemoryOnlyKeeps ==
  ASSUME MemoryInv, UNCHANGED <<now, entries, runs>>, MemoryShape', MemoryNames', HandlersName',
         restarts' >= restarts, restarts' \in Nat, Pending' \subseteq Pending, UnsettledInMemory', LatestInMemory'
  PROVE  MemoryInv'
<1>1. Keys' = Keys /\ Started' = Started
  BY DEF Keys, Started
<1>2. EntriesName'
  <2>1. ASSUME NEW i \in Keys PROVE entries[i].life <= restarts'
    <3>1. entries[i].life <= restarts
      BY DEF MemoryInv, Naming, EntriesName
    <3>2. entries[i].life \in Nat /\ restarts \in Nat
      BY MemoryElements DEF MemoryInv, MemoryShape, EntryRecord
    <3> QED BY <3>1, <3>2
  <2> QED BY <2>1, <1>1 DEF MemoryInv, Naming, EntriesName
<1>3. (RunsName /\ RunsInOrder /\ OneForAKey /\ AgesRight)'
  BY <1>1 DEF MemoryInv, Naming, Order, RunsName, RunsInOrder, OneForAKey, AgesRight
<1>4. PendingRemembered'
  BY <1>1 DEF MemoryInv, Order, PendingRemembered
<1>5. (OneUnsettled /\ ConfirmedBefore /\ Spaced)'
  BY <1>1 DEF MemoryInv, Unsettledness, OneUnsettled, ConfirmedBefore, Spaced, Unsettled, Siblings
<1> QED BY <1>2, <1>3, <1>4, <1>5 DEF MemoryInv, Naming, Order, Unsettledness

\* A submission older than its key is refused and stays in memory.
LEMMA RefuseOldVerifyKeeps ==
  ASSUME MemoryInv, RefuseOldVerify
  PROVE  MemoryInv'
<1>1. UNCHANGED <<now, entries, memory, handler, stray, runs, restarts>> /\ Len(slots') <= VerifyLimit
  BY DEF RefuseOldVerify, slotFree
<1>2. Keys' = Keys /\ Started' = Started /\ Pending' = Pending
  BY <1>1 DEF Keys, Started, Pending
<1>3. MemoryShape'
  BY <1>1, <1>2 DEF MemoryInv, MemoryShape
<1>4. MemoryNames' /\ HandlersName'
  BY <1>1, <1>2 DEF MemoryInv, Naming, MemoryNames, HandlersName, IdleHandler
<1>5. UnsettledInMemory' /\ LatestInMemory'
  BY <1>1, <1>2 DEF MemoryInv, Unsettledness, UnsettledInMemory, LatestInMemory, Unsettled
<1>6. restarts' \in Nat /\ restarts' >= restarts
  BY <1>1 DEF MemoryInv, MemoryShape
<1> QED BY <1>1, <1>2, <1>3, <1>4, <1>5, <1>6, MemoryOnlyKeeps

\* A handler that gives up leaves at most a call on its way.
LEMMA LoseReplyKeeps ==
  ASSUME MemoryInv, NEW h \in Handlers, LoseReply(h)
  PROVE  MemoryInv'
<1>1. /\ handler' = [handler EXCEPT ![h] = IdleHandler]
      /\ stray' = stray \union (IF handler[h].phase = "sent" THEN {handler[h].entry} ELSE {})
      /\ UNCHANGED <<now, entries, memory, slots, runs, restarts>>
  BY DEF LoseReply
<1>2. handler'[h] = IdleHandler /\ \A g \in Handlers : g # h => handler'[g] = handler[g]
  BY <1>1 DEF MemoryInv, MemoryShape
<1>3. Pending' \subseteq Pending
  <2>1. stray' \subseteq Pending
    BY <1>1 DEF Pending
  <2>2. ASSUME NEW g \in Handlers, handler'[g].phase = "sent" PROVE handler'[g].entry \in Pending
    <3>1. g # h
      BY <2>2, <1>2 DEF IdleHandler
    <3> QED BY <2>2, <3>1, <1>2 DEF Pending
  <2> QED BY <2>1, <2>2 DEF Pending
<1>4. Keys' = Keys /\ Started' = Started
  BY <1>1 DEF Keys, Started
<1>5. MemoryShape'
  <2>1. IdleHandler \in HandlerRecord
    BY DEF IdleHandler, HandlerRecord, NoEntry, NoRun
  <2>2. handler' \in [Handlers -> HandlerRecord]
    BY <2>1, <1>1 DEF MemoryInv, MemoryShape
  <2>3. Pending \subseteq Keys
    BY KeyFindsItsRun
  <2>4. stray' \subseteq Keys
    BY <1>3, <2>3 DEF Pending
  <2> QED BY <2>2, <2>4, <1>1, <1>4 DEF MemoryInv, MemoryShape
<1>6. MemoryNames'
  BY <1>1, <1>4 DEF MemoryInv, Naming, MemoryNames
<1>7. HandlersName'
  <2>1. ASSUME NEW g \in Handlers, handler'[g] # IdleHandler PROVE handler'[g] = handler[g]
    BY <2>1, <1>2
  <2> QED BY <2>1, <1>1, <1>4 DEF MemoryInv, Naming, HandlersName, IdleHandler
<1>8. UnsettledInMemory' /\ LatestInMemory'
  BY <1>1, <1>4 DEF MemoryInv, Unsettledness, UnsettledInMemory, LatestInMemory, Unsettled
<1>9. restarts' \in Nat /\ restarts' >= restarts
  BY <1>1 DEF MemoryInv, MemoryShape
<1> QED BY <1>1, <1>3, <1>5, <1>6, <1>7, <1>8, <1>9, MemoryOnlyKeeps

(* A run that has ended and that the browsers were told of leaves no       *)
(* unsettled submission behind.                                            *)
LEMMA PollKeeps ==
  ASSUME MemoryInv, NEW r \in Started, Poll(r)
  PROVE  MemoryInv'
<1>1. UNCHANGED <<now, entries, slots, handler, stray, runs, restarts>> /\ ~ runs[r].live
  BY DEF Poll
<1>2. CASE memory' = memory
  <2>1. Keys' = Keys /\ Started' = Started /\ Pending' = Pending
    BY <1>1 DEF Keys, Started, Pending
  <2>2. MemoryShape'
    BY <1>1, <1>2, <2>1 DEF MemoryInv, MemoryShape
  <2>3. MemoryNames' /\ HandlersName'
    BY <1>1, <1>2, <2>1 DEF MemoryInv, Naming, MemoryNames, HandlersName, IdleHandler
  <2>4. UnsettledInMemory' /\ LatestInMemory'
    BY <1>1, <1>2, <2>1 DEF MemoryInv, Unsettledness, UnsettledInMemory, LatestInMemory, Unsettled
  <2>5. restarts' \in Nat /\ restarts' >= restarts
    BY <1>1 DEF MemoryInv, MemoryShape
  <2> QED BY <1>1, <2>1, <2>2, <2>3, <2>4, <2>5, MemoryOnlyKeeps
<1>3. CASE memory' # memory
  <2>1. /\ memory' = [memory EXCEPT !["research"] = NoEntry]
        /\ memory["research"] # NoEntry /\ entries[memory["research"]].runId = r
    BY <1>3 DEF Poll, finishSubmissionLocal
  <2>2. /\ \A k \in Kinds : k # "research" => memory'[k] = memory[k]
        /\ "research" \in Kinds => memory'["research"] = NoEntry
    BY <2>1 DEF MemoryInv, MemoryShape
  <2>3. Keys' = Keys /\ Started' = Started /\ Pending' = Pending
    BY <1>1 DEF Keys, Started, Pending
  <2>4. MemoryShape'
    <3>1. memory' \in [Kinds -> Nat]
      BY <2>1 DEF MemoryInv, MemoryShape, NoEntry
    <3> QED BY <3>1, <1>1, <2>3 DEF MemoryInv, MemoryShape
  <2>5. MemoryNames'
    BY <1>1, <2>2, <2>3 DEF MemoryInv, Naming, MemoryNames
  <2>6. HandlersName'
    BY <1>1, <2>3 DEF MemoryInv, Naming, HandlersName, IdleHandler
  <2>7. UnsettledInMemory'
    <3>1. ASSUME NEW i \in Keys, entries[i].life = restarts, Unsettled(i)
          PROVE  entries[i].kind \in Kinds /\ entries[i].kind # "research" /\ memory[entries[i].kind] = i
      <4>1. memory[entries[i].kind] = i
        BY <3>1 DEF MemoryInv, Unsettledness, UnsettledInMemory
      <4>2. r # NoRun
        BY DEF Started, NoRun
      <4>3. entries[i].kind # "research"
        BY <3>1, <4>1, <4>2, <2>1, <1>1 DEF Unsettled
      <4>4. entries[i].kind \in Kinds
        BY MemoryElements DEF MemoryInv, EntryRecord
      <4> QED BY <4>1, <4>3, <4>4
    <3> QED BY <3>1, <1>1, <2>2, <2>3 DEF UnsettledInMemory, Unsettled
  <2>8. LatestInMemory'
    <3>1. ASSUME NEW i \in Keys, entries[i].kind = "verify" PROVE memory'["verify"] = memory["verify"]
      <4>1. "verify" \in Kinds
        BY <3>1, MemoryElements DEF MemoryInv, EntryRecord
      <4> QED BY <4>1, <2>2
    <3> QED BY <3>1, <1>1, <2>3 DEF MemoryInv, Unsettledness, LatestInMemory
  <2>9. restarts' \in Nat /\ restarts' >= restarts
    BY <1>1 DEF MemoryInv, MemoryShape
  <2> QED BY <1>1, <2>3, <2>4, <2>5, <2>6, <2>7, <2>8, <2>9, MemoryOnlyKeeps
<1> QED BY <1>2, <1>3

\* A restart forgets the memory, not the calls on their way.
LEMMA RestartServerKeeps ==
  ASSUME MemoryInv, RestartServer
  PROVE  MemoryInv'
<1>1. /\ restarts' = restarts + 1 /\ restarts \in Nat
      /\ memory' = [k \in Kinds |-> NoEntry] /\ handler' = [h \in Handlers |-> IdleHandler]
      /\ slots' = <<>>
      /\ stray' = stray \union {handler[h].entry : h \in {g \in Handlers : handler[g].phase = "sent"}}
      /\ UNCHANGED <<now, entries, runs>>
  BY DEF RestartServer, MemoryInv, MemoryShape
<1>2. Pending' = Pending /\ stray' = Pending
  BY <1>1 DEF Pending, IdleHandler
<1>3. Keys' = Keys /\ Started' = Started
  BY <1>1 DEF Keys, Started
<1>4. MemoryShape'
  <2>1. IdleHandler \in HandlerRecord
    BY DEF IdleHandler, HandlerRecord, NoEntry, NoRun
  <2>2. handler' \in [Handlers -> HandlerRecord] /\ memory' \in [Kinds -> Nat]
    BY <2>1, <1>1 DEF NoEntry
  <2>3. stray' \subseteq Keys'
    BY <1>2, <1>3, KeyFindsItsRun
  <2>4. Len(slots') <= VerifyLimit
    BY <1>1, Durations
  <2>5. now' = now /\ entries' = entries /\ runs' = runs /\ restarts' \in Nat
    BY <1>1
  <2> QED BY <2>2, <2>3, <2>4, <2>5 DEF MemoryInv, MemoryShape
<1>5. MemoryNames' /\ HandlersName'
  BY <1>1 DEF MemoryNames, HandlersName, IdleHandler
<1>6. ASSUME NEW i \in Keys PROVE entries[i].life # restarts'
  <2>1. entries[i].life <= restarts /\ entries[i].life \in Nat
    BY MemoryElements DEF MemoryInv, Naming, EntriesName, EntryRecord
  <2> QED BY <2>1, <1>1
<1>7. UnsettledInMemory' /\ LatestInMemory'
  BY <1>1, <1>3, <1>6 DEF UnsettledInMemory, LatestInMemory
<1>8. restarts' \in Nat /\ restarts' >= restarts
  BY <1>1
<1> QED BY <1>1, <1>2, <1>4, <1>5, <1>7, <1>8, MemoryOnlyKeeps

(* The arrival of a call, that of a handler that waits or of one that has  *)
(* given up.                                                               *)
LEMMA ArriveKeeps ==
  ASSUME MemoryInv, NEW h \in Handlers, Arrive(h)
  PROVE  MemoryInv'
<1>k. PICK key \in Nat : key = handler[h].entry
  BY MemoryElements DEF MemoryInv, HandlerRecord
<1>1. /\ handler[h].phase = "sent" /\ Accept(key)
      /\ handler' = [handler EXCEPT ![h].phase = "arrived", ![h].run = AcceptedAs(key)]
      /\ UNCHANGED <<now, entries, memory, slots, stray, restarts>>
  BY <1>k DEF Arrive
<1>2. key \in Pending
  BY <1>1, <1>k DEF Pending
<1>3. /\ runs' \in Seq(RunRecord)
      /\ Len(runs') >= Len(runs) /\ Len(runs') \in Nat
      /\ \A r \in Started : runs'[r] = runs[r]
      /\ AcceptedAs(key) \in Started' /\ runs'[AcceptedAs(key)].key = key
      /\ \A r \in Started' : r \in Started \/ (r = Len(runs) + 1 /\ runs'[r].key = key /\ runs'[r].acceptedAt = now)
      /\ (EntriesName /\ RunsName /\ RunsInOrder /\ OneForAKey /\ AgesRight)'
      /\ (Unsettledness /\ Spaced)'
  BY <1>1, <1>2, AcceptKeeps
<1>4. Keys' = Keys /\ Started \subseteq Started'
  BY <1>1, <1>3, MemoryElements DEF Keys, Started, MemoryInv
<1>5. AcceptedAs(key) \in Nat
  BY <1>3 DEF Started
<1>h. handler[h] \in HandlerRecord
  BY MemoryElements DEF MemoryInv
<1>6. /\ handler'[h].phase = "arrived" /\ handler'[h].entry = key /\ handler'[h].run = AcceptedAs(key)
      /\ handler'[h] \in HandlerRecord
      /\ \A g \in Handlers : g # h => handler'[g] = handler[g]
  <2>1. handler'[h] = [handler[h] EXCEPT !.phase = "arrived", !.run = AcceptedAs(key)]
    BY <1>1 DEF MemoryInv, MemoryShape
  <2>2. handler'[h] = [phase |-> "arrived", entry |-> key, run |-> AcceptedAs(key)]
    BY <2>1, <1>h, <1>k DEF HandlerRecord
  <2>3. \A g \in Handlers : g # h => handler'[g] = handler[g]
    BY <1>1 DEF MemoryInv, MemoryShape
  <2> QED BY <2>2, <2>3, <1>5 DEF HandlerRecord
<1>7. MemoryShape'
  <2>1. \A g \in Handlers : handler'[g] \in HandlerRecord
    BY <1>6, MemoryElements DEF MemoryInv
  <2>2. handler' = [g \in Handlers |-> handler'[g]]
    BY <1>1 DEF MemoryInv, MemoryShape
  <2>3. handler' \in [Handlers -> HandlerRecord]
    BY <2>1, <2>2
  <2> QED BY <1>1, <1>3, <1>4, <2>3 DEF MemoryInv, MemoryShape
<1>8. MemoryNames'
  BY <1>1, <1>4 DEF MemoryInv, Naming, MemoryNames
<1>9. HandlersName'
  <2>0. handler[h] # IdleHandler
    BY <1>1 DEF IdleHandler
  <2>1. ASSUME NEW g \in Handlers, handler'[g] # IdleHandler
        PROVE  /\ handler'[g].phase # "idle" /\ handler'[g].entry \in Keys
               /\ entries[handler'[g].entry].life = restarts
               /\ handler'[g].phase = "arrived" =>
                     handler'[g].run \in Started' /\ runs'[handler'[g].run].key = handler'[g].entry
    <3>1. CASE g = h
      BY <3>1, <2>0, <1>3, <1>6, <1>k DEF MemoryInv, Naming, HandlersName
    <3>2. CASE g # h
      BY <2>1, <3>2, <1>3, <1>4, <1>6 DEF MemoryInv, Naming, HandlersName
    <3> QED BY <3>1, <3>2
  <2> QED BY <2>1, <1>1, <1>4 DEF HandlersName, IdleHandler
<1>10. PendingRemembered'
  <2>1. ASSUME NEW g \in Handlers, handler'[g].phase = "sent"
        PROVE  g # h /\ handler[g].phase = "sent" /\ handler'[g].entry = handler[g].entry
    BY <2>1, <1>6
  <2>2. Pending' \subseteq Pending
    <3>1. stray' \subseteq Pending
      BY <1>1 DEF Pending
    <3>2. ASSUME NEW g \in Handlers, handler'[g].phase = "sent" PROVE handler'[g].entry \in Pending
      BY <2>1, <3>2 DEF Pending
    <3> QED BY <3>1, <3>2 DEF Pending
  <2>3. ASSUME NEW r \in Started', runs'[r].key \in Pending' PROVE now - runs'[r].acceptedAt < KeyTtl
    <3>1. CASE r \in Started
      BY <2>2, <2>3, <3>1, <1>3 DEF MemoryInv, Order, PendingRemembered
    <3>2. CASE runs'[r].acceptedAt = now
      BY <3>2, Durations DEF MemoryInv, MemoryShape
    <3> QED BY <3>1, <3>2, <1>3
  <2> QED BY <2>3, <1>1 DEF PendingRemembered
<1> QED BY <1>3, <1>7, <1>8, <1>9, <1>10 DEF MemoryInv, Naming, Order

\* A call arrives whose handler has given up.
LEMMA ArriveLateKeeps ==
  ASSUME MemoryInv, NEW key \in stray, ArriveLate(key)
  PROVE  MemoryInv'
<1>1. Accept(key) /\ stray' = stray \ {key} /\ UNCHANGED <<now, entries, memory, slots, handler, restarts>>
  BY DEF ArriveLate
<1>2. key \in Pending
  BY DEF Pending
<1>3. /\ runs' \in Seq(RunRecord)
      /\ Len(runs') >= Len(runs) /\ Len(runs') \in Nat
      /\ \A r \in Started : runs'[r] = runs[r]
      /\ \A r \in Started' : r \in Started \/ (r = Len(runs) + 1 /\ runs'[r].key = key /\ runs'[r].acceptedAt = now)
      /\ (EntriesName /\ RunsName /\ RunsInOrder /\ OneForAKey /\ AgesRight)'
      /\ (Unsettledness /\ Spaced)'
  BY <1>1, <1>2, AcceptKeeps
<1>4. Keys' = Keys /\ Started \subseteq Started'
  BY <1>1, <1>3, MemoryElements DEF Keys, Started, MemoryInv
<1>5. MemoryShape'
  BY <1>1, <1>3, <1>4 DEF MemoryInv, MemoryShape
<1>6. MemoryNames'
  BY <1>1, <1>4 DEF MemoryInv, Naming, MemoryNames
<1>7. HandlersName'
  BY <1>1, <1>3, <1>4 DEF MemoryInv, Naming, HandlersName, IdleHandler
<1>8. PendingRemembered'
  <2>1. Pending' \subseteq Pending
    <3>1. stray' \subseteq stray /\ handler' = handler
      BY <1>1
    <3> QED BY <3>1 DEF Pending
  <2>2. ASSUME NEW r \in Started', runs'[r].key \in Pending' PROVE now - runs'[r].acceptedAt < KeyTtl
    <3>1. CASE r \in Started
      BY <2>1, <2>2, <3>1, <1>3 DEF MemoryInv, Order, PendingRemembered
    <3>2. CASE runs'[r].acceptedAt = now
      BY <3>2, Durations DEF MemoryInv, MemoryShape
    <3> QED BY <3>1, <3>2, <1>3
  <2> QED BY <2>2, <1>1 DEF PendingRemembered
<1> QED BY <1>3, <1>5, <1>6, <1>7, <1>8 DEF MemoryInv, Naming, Order

(* A reply that comes late confirms the submission with the one run of its *)
(* key, and makes a verification only younger.                             *)
LEMMA ConfirmKeeps ==
  ASSUME MemoryInv, NEW h \in Handlers, Confirm(h)
  PROVE  MemoryInv'
<1>e. PICK e \in Nat, run \in Nat : e = handler[h].entry /\ run = handler[h].run
  BY MemoryElements DEF MemoryInv, HandlerRecord
<1>t. /\ \A i \in Keys : entries[i] \in EntryRecord
      /\ \A r \in Started : runs[r] \in RunRecord
      /\ now \in Nat /\ Keys \subseteq Nat /\ Started \subseteq Nat
  BY MemoryElements DEF MemoryInv, MemoryShape
<1>1. /\ handler[h].phase = "arrived"
      /\ entries' = [entries EXCEPT ![e] = confirmed(entries[e], run)]
      /\ handler' = [handler EXCEPT ![h] = IdleHandler]
      /\ now' = now /\ memory' = memory /\ slots' = slots /\ stray' = stray
      /\ runs' = runs /\ restarts' = restarts
  BY <1>e DEF Confirm
<1>2. e \in Keys /\ run \in Started /\ runs[run].key = e
  <2>1. handler[h] # IdleHandler
    BY <1>1 DEF IdleHandler
  <2> QED BY <2>1, <1>1, <1>e DEF MemoryInv, Naming, HandlersName
<1>3. run # NoRun
  BY <1>2 DEF Started, NoRun
<1>4. confirmed(entries[e], run) = [kind |-> entries[e].kind, runId |-> run,
            at |-> IF entries[e].kind = "verify" THEN now ELSE entries[e].at, life |-> entries[e].life]
  <2>1. entries[e] \in EntryRecord
    BY <1>2, <1>t
  <2>2. confirmed(entries[e], run) = [entries[e] EXCEPT !.runId = run,
            !.at = IF entries[e].kind = "verify" THEN now ELSE entries[e].at]
    BY <2>1 DEF confirmed, EntryRecord
  <2> QED BY <2>1, <2>2 DEF EntryRecord
<1>5. confirmed(entries[e], run) \in EntryRecord
  <2>1. entries[e] \in EntryRecord
    BY <1>2, <1>t
  <2> QED BY <2>1, <1>4, <1>t, <1>e DEF EntryRecord
<1>6. /\ entries' \in Seq(EntryRecord) /\ Len(entries') = Len(entries)
      /\ entries'[e] = confirmed(entries[e], run) /\ \A i \in Keys : i # e => entries'[i] = entries[i]
  BY <1>1, <1>2, <1>5 DEF MemoryInv, MemoryShape, Keys
<1>7. Keys' = Keys /\ Started' = Started
  BY <1>1, <1>6 DEF Keys, Started
<1>8. \A i \in Keys : entries'[i].kind = entries[i].kind /\ entries'[i].life = entries[i].life
  BY <1>4, <1>6
<1>9. /\ entries'[e].runId = run
      /\ entries'[e].at = IF entries[e].kind = "verify" THEN now ELSE entries[e].at
  BY <1>4, <1>6
<1>10. \A i \in Keys : entries[i].at <= entries'[i].at /\ entries'[i].at <= now
  <2>1. ASSUME NEW i \in Keys PROVE entries[i].at <= entries'[i].at /\ entries'[i].at <= now
    <3>1. entries[i].at <= now /\ entries[i].at \in Nat
      BY <1>t DEF MemoryInv, Naming, EntriesName, EntryRecord
    <3> QED BY <3>1, <1>6, <1>9, <1>t
  <2> QED BY <2>1
<1>11. handler'[h] = IdleHandler /\ \A g \in Handlers : g # h => handler'[g] = handler[g]
  BY <1>1 DEF MemoryInv, MemoryShape
<1>12. MemoryShape'
  <2>1. IdleHandler \in HandlerRecord
    BY DEF IdleHandler, HandlerRecord, NoEntry, NoRun
  <2>2. handler' \in [Handlers -> HandlerRecord]
    BY <2>1, <1>1 DEF MemoryInv, MemoryShape
  <2> QED BY <2>2, <1>1, <1>6, <1>7 DEF MemoryInv, MemoryShape
<1>13. MemoryNames'
  BY <1>1, <1>7, <1>8 DEF MemoryInv, Naming, MemoryNames
<1>14. HandlersName'
  <2>1. ASSUME NEW g \in Handlers, handler'[g] # IdleHandler PROVE handler'[g] = handler[g]
    BY <2>1, <1>11
  <2> QED BY <2>1, <1>1, <1>7, <1>8 DEF MemoryInv, Naming, HandlersName, IdleHandler
<1>15. EntriesName'
  <2>1. ASSUME NEW i \in Keys, entries'[i].runId # NoRun
        PROVE  entries'[i].runId \in Started /\ runs[entries'[i].runId].key = i
    BY <2>1, <1>2, <1>6, <1>9 DEF MemoryInv, Naming, EntriesName
  <2> QED BY <2>1, <1>1, <1>7, <1>8, <1>10 DEF MemoryInv, Naming, EntriesName
<1>16. RunsName' /\ RunsInOrder' /\ OneForAKey'
  BY <1>1, <1>7 DEF MemoryInv, Naming, Order, RunsName, RunsInOrder, OneForAKey
<1>17. PendingRemembered'
  <2>1. ASSUME NEW g \in Handlers, handler'[g].phase = "sent" PROVE handler'[g] = handler[g]
    BY <2>1, <1>11 DEF IdleHandler
  <2>2. Pending' \subseteq Pending
    BY <2>1, <1>1 DEF Pending
  <2> QED BY <2>2, <1>1, <1>7 DEF MemoryInv, Order, PendingRemembered
<1>18. AgesRight'
  <2>1. ASSUME NEW r \in Started
        PROVE  IF entries'[runs[r].key].runId = NoRun THEN entries'[runs[r].key].at <= runs[r].acceptedAt
               ELSE entries'[runs[r].key].kind = "verify" => runs[r].acceptedAt <= entries'[runs[r].key].at
    <3>1. runs[r].key \in Keys /\ runs[r].acceptedAt <= now
      BY DEF MemoryInv, Naming, RunsName, Order, RunsInOrder
    <3>2. CASE runs[r].key = e
      BY <3>1, <3>2, <1>2, <1>3, <1>8, <1>9
    <3>3. CASE runs[r].key # e
      BY <3>1, <3>3, <1>6 DEF MemoryInv, Order, AgesRight
    <3> QED BY <3>2, <3>3
  <2> QED BY <2>1, <1>1, <1>7 DEF AgesRight
<1>19. ASSUME NEW i \in Keys, Unsettled(i)' PROVE Unsettled(i)
  <2>1. CASE i # e
    BY <2>1, <1>19, <1>1, <1>6 DEF Unsettled
  <2>2. CASE i = e
    <3>1. entries[e].kind = "research" /\ runs[run].live
      BY <2>2, <1>19, <1>1, <1>2, <1>3, <1>8, <1>9 DEF Unsettled
    <3>2. entries[e].runId = NoRun \/ entries[e].runId = run
      BY <1>2 DEF MemoryInv, Naming, EntriesName, Order, OneForAKey
    <3> QED BY <2>2, <3>1, <3>2 DEF Unsettled
  <2> QED BY <2>1, <2>2
<1>20. \A i, j \in Keys : Siblings(i, j)' <=> Siblings(i, j)
  BY <1>8 DEF Siblings
<1>21. UnsettledInMemory' /\ OneUnsettled' /\ LatestInMemory'
  BY <1>1, <1>7, <1>8, <1>19, <1>20 DEF MemoryInv, Unsettledness, UnsettledInMemory, OneUnsettled, LatestInMemory
<1>22. ConfirmedBefore'
  BY <1>3, <1>6, <1>7, <1>9, <1>20 DEF MemoryInv, Unsettledness, ConfirmedBefore
<1>23. Spaced'
  <2>1. SUFFICES ASSUME NEW i \in Keys, NEW j \in Keys, entries[i].kind = "verify", Siblings(i, j), i < j,
                        NEW r \in Started, runs[r].key = i
                 PROVE  /\ runs[r].acceptedAt + DedupeTtl <= entries'[j].at
                        /\ \A q \in Started : runs[q].key = j =>
                              runs[r].acceptedAt + DedupeTtl <= runs[q].acceptedAt
    BY <1>1, <1>7, <1>8, <1>20 DEF Spaced
  <2>2. /\ runs[r].acceptedAt + DedupeTtl <= entries[j].at
        /\ \A q \in Started : runs[q].key = j => runs[r].acceptedAt + DedupeTtl <= runs[q].acceptedAt
    BY <2>1 DEF MemoryInv, Spaced
  <2>3. entries[j].at <= entries'[j].at /\ entries[j].at \in Nat /\ entries'[j].at \in Nat
        /\ runs[r].acceptedAt \in Nat
    <3>1. entries'[j] \in EntryRecord
      BY <1>5, <1>6, <1>t
    <3> QED BY <3>1, <1>10, <1>t DEF EntryRecord, RunRecord
  <2>4. runs[r].acceptedAt + DedupeTtl <= entries'[j].at
    BY <2>2, <2>3, Durations
  <2> QED BY <2>2, <2>4
<1> QED BY <1>12, <1>13, <1>14, <1>15, <1>16, <1>17, <1>18, <1>21, <1>22, <1>23
     DEF MemoryInv, Naming, Order, Unsettledness

\* A run ends.
LEMMA FinishRunKeeps ==
  ASSUME MemoryInv, NEW r \in Started, FinishRun(r)
  PROVE  MemoryInv'
<1>t. \A q \in Started : runs[q] \in RunRecord
  BY MemoryElements DEF MemoryInv
<1>1. /\ runs' = [runs EXCEPT ![r].live = FALSE]
      /\ now' = now /\ entries' = entries /\ memory' = memory /\ slots' = slots
      /\ handler' = handler /\ stray' = stray /\ restarts' = restarts
  BY DEF FinishRun
<1>2. runs'[r] = [key |-> runs[r].key, acceptedAt |-> runs[r].acceptedAt, live |-> FALSE]
  <2>0. runs' = [runs EXCEPT ![r] = [runs[r] EXCEPT !.live = FALSE]] /\ r \in DOMAIN runs
    BY <1>1 DEF MemoryInv, MemoryShape, Started
  <2>1. runs'[r] = [runs[r] EXCEPT !.live = FALSE]
    BY <2>0
  <2>2. runs[r] \in RunRecord
    BY <1>t
  <2> QED BY <2>1, <2>2 DEF RunRecord
<1>3. \A q \in Started : q # r => runs'[q] = runs[q]
  BY <1>1 DEF MemoryInv, MemoryShape, Started
<1>4. runs' \in Seq(RunRecord) /\ Len(runs') = Len(runs)
  <2>1. runs[r] \in RunRecord
    BY <1>t
  <2>2. [runs[r] EXCEPT !.live = FALSE] \in RunRecord
    BY <2>1 DEF RunRecord
  <2>3. runs' = [runs EXCEPT ![r] = [runs[r] EXCEPT !.live = FALSE]]
    BY <1>1
  <2>4. runs \in Seq(RunRecord) /\ r \in 1..Len(runs)
    BY DEF MemoryInv, MemoryShape, Started
  <2> HIDE DEF RunRecord
  <2> QED BY <2>2, <2>3, <2>4
<1>5. Keys' = Keys /\ Started' = Started /\ Pending' = Pending
  BY <1>1, <1>4 DEF Keys, Started, Pending
<1>6. \A q \in Started : /\ runs'[q].key = runs[q].key /\ runs'[q].acceptedAt = runs[q].acceptedAt
                         /\ runs'[q].live => runs[q].live
  BY <1>2, <1>3
<1>7. MemoryShape'
  BY <1>1, <1>4, <1>5 DEF MemoryInv, MemoryShape
<1>8. Naming'
  <2>1. MemoryNames'
    BY <1>1, <1>5 DEF MemoryInv, Naming, MemoryNames
  <2>2. HandlersName'
    BY <1>1, <1>5, <1>6 DEF MemoryInv, Naming, HandlersName, IdleHandler
  <2>3. EntriesName' /\ RunsName'
    BY <1>1, <1>5, <1>6 DEF MemoryInv, Naming, EntriesName, RunsName
  <2> QED BY <2>1, <2>2, <2>3 DEF Naming
<1>9. Order'
  BY <1>1, <1>5, <1>6 DEF MemoryInv, Order, RunsInOrder, OneForAKey, PendingRemembered, AgesRight
<1>10. ASSUME NEW i \in Keys, Unsettled(i)' PROVE Unsettled(i)
  <2>1. CASE entries[i].runId = NoRun
    BY <2>1 DEF Unsettled
  <2>2. CASE entries[i].runId # NoRun
    <3>1. entries[i].runId \in Started
      BY <2>2 DEF MemoryInv, Naming, EntriesName
    <3> QED BY <3>1, <2>2, <1>1, <1>6, <1>10 DEF Unsettled
  <2> QED BY <2>1, <2>2
<1>11. Unsettledness'
  BY <1>1, <1>5, <1>10 DEF MemoryInv, Unsettledness, UnsettledInMemory, OneUnsettled, ConfirmedBefore,
     LatestInMemory, Siblings
<1>12. Spaced'
  BY <1>1, <1>5, <1>6 DEF MemoryInv, Spaced, Siblings
<1> QED BY <1>7, <1>8, <1>9, <1>11, <1>12 DEF MemoryInv

\* Time passes when no call is on its way any more.
LEMMA TickKeeps ==
  ASSUME MemoryInv, Tick
  PROVE  MemoryInv'
<1>t. /\ \A i \in Keys : entries[i] \in EntryRecord
      /\ \A r \in Started : runs[r] \in RunRecord
  BY MemoryElements DEF MemoryInv
<1>1. /\ now' = now + 1 /\ now \in Nat /\ stray' = {}
      /\ \A h \in Handlers : handler[h].phase # "sent"
      /\ entries' = entries /\ memory' = memory /\ slots' = slots /\ handler' = handler
      /\ runs' = runs /\ restarts' = restarts
  BY DEF Tick, MemoryInv, MemoryShape
<1>2. Keys' = Keys /\ Started' = Started /\ Pending' = {}
  BY <1>1 DEF Keys, Started, Pending
<1>3. MemoryShape'
  BY <1>1, <1>2 DEF MemoryInv, MemoryShape
<1>4. Naming'
  <2>1. MemoryNames' /\ HandlersName' /\ RunsName'
    BY <1>1, <1>2 DEF MemoryInv, Naming, MemoryNames, HandlersName, RunsName, IdleHandler
  <2>2. ASSUME NEW i \in Keys PROVE entries[i].at <= now + 1
    <3>1. entries[i].at <= now /\ entries[i].at \in Nat
      BY <1>t DEF MemoryInv, Naming, EntriesName, EntryRecord
    <3> QED BY <3>1, <1>1
  <2>3. EntriesName'
    BY <2>2, <1>1, <1>2 DEF MemoryInv, Naming, EntriesName
  <2> QED BY <2>1, <2>3 DEF Naming
<1>5. Order'
  <2>1. ASSUME NEW r \in Started PROVE runs[r].acceptedAt <= now + 1
    <3>1. runs[r].acceptedAt <= now /\ runs[r].acceptedAt \in Nat
      BY <1>t DEF MemoryInv, Order, RunsInOrder, RunRecord
    <3> QED BY <3>1, <1>1
  <2>2. RunsInOrder'
    BY <2>1, <1>1, <1>2 DEF MemoryInv, Order, RunsInOrder
  <2>3. (OneForAKey /\ AgesRight)'
    BY <1>1, <1>2 DEF MemoryInv, Order, OneForAKey, AgesRight
  <2>4. PendingRemembered'
    BY <1>2 DEF PendingRemembered
  <2> QED BY <2>2, <2>3, <2>4 DEF Order
<1>6. (Unsettledness /\ Spaced)'
  BY <1>1, <1>2 DEF MemoryInv, Unsettledness, UnsettledInMemory, OneUnsettled, ConfirmedBefore, LatestInMemory,
     Spaced, Unsettled, Siblings
<1> QED BY <1>3, <1>4, <1>5, <1>6 DEF MemoryInv

\* A step of another part of the Atlas disturbs nothing.
LEMMA MemoryStuttering == MemoryInv /\ UNCHANGED memoryVars => MemoryInv'
<1> SUFFICES ASSUME MemoryInv, UNCHANGED memoryVars PROVE MemoryInv'
  OBVIOUS
<1>1. Keys' = Keys /\ Started' = Started /\ Pending' = Pending
  BY DEF memoryVars, Keys, Started, Pending
<1>2. MemoryShape'
  BY <1>1 DEF memoryVars, MemoryInv, MemoryShape
<1>3. MemoryNames' /\ HandlersName'
  BY <1>1 DEF memoryVars, MemoryInv, Naming, MemoryNames, HandlersName, IdleHandler
<1>4. UnsettledInMemory' /\ LatestInMemory'
  BY <1>1 DEF memoryVars, MemoryInv, Unsettledness, UnsettledInMemory, LatestInMemory, Unsettled
<1>5. restarts' \in Nat /\ restarts' >= restarts /\ UNCHANGED <<now, entries, runs>>
  BY DEF memoryVars, MemoryInv, MemoryShape
<1> QED BY <1>1, <1>2, <1>3, <1>4, <1>5, MemoryOnlyKeeps

(* The inductive invariant holds in every state: Render has one run for a  *)
(* key, and a process one unsettled submission of a kind.                  *)
THEOREM MemoryInvariant == MemorySpec => []MemoryInv
<1>1. MemoryInit => MemoryInv
  BY MemoryInitially
<1>2. MemoryInv /\ [MemoryNext]_memoryVars => MemoryInv'
  <2> SUFFICES ASSUME MemoryInv, [MemoryNext]_memoryVars PROVE MemoryInv'
    OBVIOUS
  <2>1. ASSUME NEW h \in Handlers, StartResearch(h) PROVE MemoryInv'
    BY <2>1, StartResearchKeeps
  <2>2. ASSUME NEW h \in Handlers, StartVerify(h) PROVE MemoryInv'
    BY <2>2, StartVerifyKeeps
  <2>3. ASSUME NEW h \in Handlers, Arrive(h) PROVE MemoryInv'
    BY <2>3, ArriveKeeps
  <2>4. ASSUME NEW h \in Handlers, Confirm(h) PROVE MemoryInv'
    BY <2>4, ConfirmKeeps
  <2>5. ASSUME NEW h \in Handlers, LoseReply(h) PROVE MemoryInv'
    BY <2>5, LoseReplyKeeps
  <2>6. CASE RefuseOldVerify
    BY <2>6, RefuseOldVerifyKeeps
  <2>7. ASSUME NEW key \in stray, ArriveLate(key) PROVE MemoryInv'
    BY <2>7, ArriveLateKeeps
  <2>8. ASSUME NEW r \in 1..Len(runs), FinishRun(r) PROVE MemoryInv'
    BY <2>8, FinishRunKeeps DEF Started
  <2>9. ASSUME NEW r \in 1..Len(runs), Poll(r) PROVE MemoryInv'
    BY <2>9, PollKeeps DEF Started
  <2>10. CASE Tick
    BY <2>10, TickKeeps
  <2>11. CASE RestartServer
    BY <2>11, RestartServerKeeps
  <2>12. CASE UNCHANGED memoryVars
    BY <2>12, MemoryStuttering
  <2> QED BY <2>1, <2>2, <2>3, <2>4, <2>5, <2>6, <2>7, <2>8, <2>9, <2>10, <2>11, <2>12 DEF MemoryNext
<1> QED BY <1>1, <1>2, PTL DEF MemorySpec

(***************************************************************************)
(* What the invariant gives.                                               *)
(***************************************************************************)

(* Runs of one kind whose submissions are unsettled are as many as there   *)
(* were processes, for no process has two.                                 *)
LEMMA OneForAProcess ==
  ASSUME MemoryInv, NEW k \in Kinds, NEW S \in SUBSET RunsOf(k),
         \A r \in S : Unsettled(runs[r].key)
  PROVE  Cardinality(S) <= 1 + restarts
<1>n. PICK n \in Nat : n = restarts
  BY DEF MemoryInv, MemoryShape
<1> DEFINE life == [r \in S |-> entries[runs[r].key].life]
<1>1. ASSUME NEW r \in S
      PROVE  /\ r \in Started /\ runs[r].key \in Keys
             /\ entries[runs[r].key].kind = k /\ entries[runs[r].key].life \in 0..n
  <2>1. r \in Started /\ runs[r].key \in Keys /\ entries[runs[r].key].kind = k
    BY DEF RunsOf, KindOf, Started, MemoryInv, Naming, RunsName
  <2>2. entries[runs[r].key].life \in Nat /\ entries[runs[r].key].life <= n
    BY <2>1, <1>n, MemoryElements DEF MemoryInv, Naming, EntriesName, EntryRecord
  <2> QED BY <2>1, <2>2, <1>n
<1>2. life \in Injection(S, 0..n)
  <2>1. life \in [S -> 0..n]
    BY <1>1
  <2>2. ASSUME NEW r \in S, NEW q \in S, life[r] = life[q] PROVE r = q
    <3>1. Siblings(runs[r].key, runs[q].key)
      BY <2>2, <1>1 DEF Siblings
    <3>2. runs[r].key = runs[q].key
      BY <3>1, <1>1 DEF MemoryInv, Unsettledness, OneUnsettled
    <3> QED BY <3>2, <1>1 DEF MemoryInv, Order, OneForAKey
  <2> HIDE DEF life
  <2> QED BY <2>1, <2>2 DEF Injection, IsInjective
<1>3. IsFiniteSet(0..n) /\ Cardinality(0..n) = n + 1
  <2>1. IsFiniteSet(0..n) /\ Cardinality(0..n) = IF 0 > n THEN 0 ELSE n - 0 + 1
    BY FS_Interval
  <2> QED BY <2>1
<1>4. IsFiniteSet(S) /\ Cardinality(S) <= n + 1
  BY <1>2, <1>3, FS_Injection DEF ExistsInjection
<1>5. Cardinality(S) \in Nat
  BY <1>4, FS_CardinalityType
<1> QED BY <1>4, <1>5, <1>n

\* What sound submissions show.
LEMMA MemoryInvImplies == MemoryInv => SubmissionsBounded
<1> SUFFICES ASSUME MemoryInv PROVE SubmissionsBounded
  OBVIOUS
<1>1. MemoryTypeOK
  BY DEF MemoryTypeOK, MemoryInv, MemoryShape, Naming, MemoryNames, HandlersName, RunsName, Started, Keys
<1>2. ASSUME NEW r \in Started
      PROVE  /\ runs[r].key \in Keys
             /\ entries[runs[r].key].runId = NoRun \/ entries[runs[r].key].runId = r
  BY DEF MemoryInv, Naming, RunsName, EntriesName, Order, OneForAKey
<1>3. OneResearchRun
  <2> DEFINE S == {r \in RunsOf("research") : runs[r].live}
  <2>1. ASSUME NEW r \in S PROVE Unsettled(runs[r].key) /\ "research" \in Kinds
    <3>1. r \in Started /\ runs[r].live /\ entries[runs[r].key].kind = "research"
      BY DEF RunsOf, KindOf, Started
    <3>2. Unsettled(runs[r].key)
      BY <3>1, <1>2 DEF Unsettled
    <3>3. "research" \in Kinds
      BY <3>1, <1>2, MemoryElements DEF MemoryInv, EntryRecord
    <3> QED BY <3>2, <3>3
  <2>2. CASE S = {}
    <3>1. Cardinality(S) = 0
      BY <2>2, FS_EmptySet
    <3> QED BY <3>1 DEF OneResearchRun, MemoryInv, MemoryShape
  <2>3. CASE S # {}
    <3>1. "research" \in Kinds
      BY <2>1, <2>3
    <3>2. Cardinality(S) <= 1 + restarts
      BY <2>1, <3>1, OneForAProcess
    <3> QED BY <3>2 DEF OneResearchRun
  <2> QED BY <2>2, <2>3
<1>4. UnknownRunsBounded
  <2>1. ASSUME NEW k \in Kinds PROVE Cardinality({r \in RunsOf(k) : ~told(r)}) <= 1 + restarts
    <3> DEFINE S == {r \in RunsOf(k) : ~told(r)}
    <3>1. ASSUME NEW r \in S PROVE Unsettled(runs[r].key)
      <4>1. r \in Started /\ ~ told(r)
        BY DEF RunsOf, Started
      <4>2. entries[runs[r].key].runId # r
        BY <4>1, <1>2 DEF told, Keys
      <4> QED BY <4>1, <4>2, <1>2 DEF Unsettled
    <3>2. S \in SUBSET RunsOf(k)
      OBVIOUS
    <3> HIDE DEF S
    <3>3. Cardinality(S) <= 1 + restarts
      BY <3>1, <3>2, OneForAProcess
    <3> QED BY <3>3 DEF S
  <2> QED BY <2>1 DEF UnknownRunsBounded
<1>5. VerifySpaced
  <2>1. SUFFICES ASSUME NEW r \in RunsOf("verify"), NEW q \in RunsOf("verify"), r < q,
                        entries[runs[r].key].life = entries[runs[q].key].life
                 PROVE  runs[q].acceptedAt - runs[r].acceptedAt >= DedupeTtl
    BY DEF VerifySpaced
  <2>i. PICK i \in Keys : i = runs[r].key
    BY <1>2 DEF RunsOf, Started
  <2>j. PICK j \in Keys : j = runs[q].key
    BY <1>2 DEF RunsOf, Started
  <2>2. /\ r \in Started /\ q \in Started /\ entries[i].kind = "verify"
        /\ Siblings(i, j) /\ Siblings(j, i) /\ entries[j].kind = "verify"
    BY <2>1, <2>i, <2>j DEF RunsOf, KindOf, Started, Siblings
  <2>3. runs[r].acceptedAt \in Nat /\ runs[q].acceptedAt \in Nat /\ runs[r].acceptedAt <= runs[q].acceptedAt
    BY <2>1, <2>2, MemoryElements DEF MemoryInv, Order, RunsInOrder, RunRecord
  <2>4. i # j
    <3>1. r # q
      BY <2>1, <2>2 DEF Started
    <3> QED BY <3>1, <2>2, <2>i, <2>j DEF MemoryInv, Order, OneForAKey
  <2>5. i < j \/ j < i
    BY <2>4 DEF Keys
  <2>6. CASE i < j
    <3>1. runs[r].acceptedAt + DedupeTtl <= runs[q].acceptedAt
      BY <2>2, <2>6, <2>i, <2>j DEF MemoryInv, Spaced
    <3> QED BY <3>1, <2>3, Durations
  <2>7. CASE j < i
    <3>1. runs[q].acceptedAt + DedupeTtl <= runs[r].acceptedAt
      BY <2>2, <2>7, <2>i, <2>j DEF MemoryInv, Spaced
    <3> QED BY <3>1, <2>3, Durations
  <2> QED BY <2>5, <2>6, <2>7
<1> QED BY <1>1, <1>3, <1>4, <1>5 DEF SubmissionsBounded

(* However replies are lost, handlers overlap, browsers poll old runs and  *)
(* Render forgets keys, every process has at most one research at work, at *)
(* most one task nobody was told of, and its verifications are a reuse     *)
(* window apart.                                                           *)
THEOREM SubmissionsAreBounded == MemorySpec => []SubmissionsBounded
BY MemoryInvariant, MemoryInvImplies, PTL

(***************************************************************************)
(* Links.                                                                  *)
(***************************************************************************)
------------------------------------------------------------------------------
(* What the filter of the model's answer keeps                             *)

\* A set of natural numbers has a least element.
LEMMA LeastNumber ==
  ASSUME NEW T \in SUBSET Nat, T # {}
  PROVE  \E n \in T : \A m \in T : n <= m
<1>1. PICK n \in T : \A m \in T : ~ (<<m, n>> \in OpToRel(<, Nat))
  BY NatLessThanWellFounded, WFMin
<1>2. ASSUME NEW m \in T PROVE n <= m
  <2>1. <<m, n>> \in Nat \X Nat => ~ (m < n)
    BY <1>1, <1>2, Zenon DEF OpToRel
  <2> QED BY <2>1
<1> QED BY <1>2

\* One step of the filter, given what it kept of the ids before.
KeptNext(answer, offered, f, n) ==
  IF n = 0 THEN <<>>
  ELSE IF answer[n] \in offered /\ Len(f[n-1]) < MaxLinks
  THEN Append(f[n-1], answer[n]) ELSE f[n-1]

\* f is the filter of the first m ids of the answer.
Keeps(answer, offered, f, m) == f = [n \in 0..m |-> KeptNext(answer, offered, f, n)]

\* The recursion of the filter has a solution, however long the answer is.
LEMMA FilterDefined ==
  ASSUME NEW answer, NEW offered, NEW m \in Nat
  PROVE  \E f : Keeps(answer, offered, f, m)
<1> DEFINE Bad == {k \in Nat : ~ \E f : Keeps(answer, offered, f, k)}
<1>1. SUFFICES ASSUME Bad # {} PROVE FALSE
  OBVIOUS
<1>2. PICK k \in Bad : \A i \in Bad : k <= i
  BY <1>1, LeastNumber
<1>3. CASE k = 0
  <2> DEFINE g == [n \in 0..0 |-> <<>>]
  <2>1. \A n \in 0..0 : KeptNext(answer, offered, g, n) = <<>>
    BY DEF KeptNext
  <2>2. Keeps(answer, offered, g, 0)
    BY <2>1 DEF Keeps
  <2> QED BY <1>2, <1>3, <2>2
<1>4. CASE k # 0
  <2>1. k - 1 \in Nat /\ k - 1 \notin Bad
    BY <1>2, <1>4
  <2>2. PICK f : Keeps(answer, offered, f, k - 1)
    BY <2>1
  <2> DEFINE g == [n \in 0..k |-> IF n = k THEN KeptNext(answer, offered, f, k) ELSE f[n]]
  <2>3. ASSUME NEW n \in 0..k PROVE g[n] = KeptNext(answer, offered, g, n)
    <3>1. n = 0 \/ g[n-1] = f[n-1]
      BY <1>4, <2>3
    <3>2. KeptNext(answer, offered, g, n) = KeptNext(answer, offered, f, n)
      BY <3>1 DEF KeptNext
    <3>3. n # k => f[n] = KeptNext(answer, offered, f, n)
      BY <2>2, <2>3 DEF Keeps
    <3> QED BY <3>2, <3>3, <2>3
  <2>4. g = [n \in 0..k |-> KeptNext(answer, offered, g, n)]
    BY <2>3
  <2>5. Keeps(answer, offered, g, k)
    BY <2>4 DEF Keeps
  <2> QED BY <1>2, <2>5
<1> QED BY <1>3, <1>4

\* Whatever the model answers, the filter keeps ids that were offered, and no
\* more than the limit.
LEMMA ConfirmedWasOffered ==
  ASSUME NEW answer, Len(answer) \in Nat, NEW offered
  PROVE  /\ filterConfirmed(answer, offered) \in Seq(offered)
         /\ Len(filterConfirmed(answer, offered)) <= MaxLinks
<1> DEFINE kept == CHOOSE f : Keeps(answer, offered, f, Len(answer))
<1>1. Keeps(answer, offered, kept, Len(answer))
  BY FilterDefined
<1>2. filterConfirmed(answer, offered) = kept[Len(answer)]
  BY DEF filterConfirmed, Keeps, KeptNext
<1> HIDE DEF kept
<1> DEFINE Good(s) == s \in Seq(offered) /\ Len(s) <= MaxLinks
           Bad == {n \in 0..Len(answer) : ~ Good(kept[n])}
<1>3. Bad = {}
  <2>1. SUFFICES ASSUME Bad # {} PROVE FALSE
    OBVIOUS
  <2>2. PICK n \in Bad : \A i \in Bad : n <= i
    <3>1. Bad \in SUBSET Nat
      OBVIOUS
    <3> QED BY <2>1, <3>1, LeastNumber
  <2>3. kept[n] = KeptNext(answer, offered, kept, n)
    BY <1>1 DEF Keeps
  <2>4. CASE n = 0
    <3>1. kept[n] = <<>>
      BY <2>3, <2>4 DEF KeptNext
    <3>2. Good(<<>>)
      BY LinkingConstants
    <3> QED BY <2>2, <3>1, <3>2
  <2>5. CASE n # 0
    <3>1. n - 1 \in 0..Len(answer) /\ n - 1 \notin Bad
      BY <2>2, <2>5
    <3>2. Good(kept[n-1])
      BY <3>1
    <3>3. Good(KeptNext(answer, offered, kept, n))
      BY <2>5, <3>2, LinkingConstants, AppendProperties DEF KeptNext
    <3> QED BY <2>2, <2>3, <3>3
  <2> QED BY <2>4, <2>5
<1> QED BY <1>2, <1>3

------------------------------------------------------------------------------
(* The inductive invariant                                                 *)

\* The gates the drafts may bring, and the tasks that hold gates, or links.
GateKeys == GateSlots \X (0..MaxDrafts)
Retrieved == {"gates", "pick", "delete", "create"}
Linking == {"pick", "delete", "create", "done"}

\* What a task holds in memory.
TaskRecord ==
  [pc : {"idle", "embed", "vectors", "upsert", "failed"} \cup Retrieved \cup Linking,
   attempt : 0..MaxLinkAttempts, stale : SUBSET Reasons, text : {<<>>} \cup [Reasons -> Nat],
   todo : SUBSET GateKeys, gate : {<<>>} \cup GateKeys, picks : Seq(Reasons),
   corpus : SUBSET Reasons, done : SUBSET (GateKeys \X SUBSET Reasons)]

\* What the tables and the tasks hold.
LinkTypes ==
  /\ label \in [Reasons -> Nat]
  /\ embedding \in [Reasons -> [model : {"none"} \cup {ModelOf[t] : t \in Tasks}, text : Nat]]
  /\ draft \in 0..MaxDrafts
  /\ links \in [GateKeys -> SUBSET Reasons]
  /\ task \in [Tasks -> TaskRecord]
  /\ exclusive \in [Tasks -> BOOLEAN]

\* A stored vector is of a wording that the catalog has had, by a task's model.
VectorsDated ==
  \A q \in Reasons : embedding[q] # NoVector =>
    embedding[q].text \in 1..label[q] /\ \E t \in Tasks : embedding[q].model = ModelOf[t]

\* The gates of replaced versions have no links.
OldGatesBare == \A g \in GateKeys : g \notin gates => links[g] = {}

\* What a task holds, whoever works beside it.
TaskSound(t) ==
  /\ Len(task[t].picks) <= MaxLinks
  /\ task[t].pc \in {"vectors", "upsert"} \cup Retrieved =>
       task[t].text \in [Reasons -> Nat] /\ \A q \in Reasons : task[t].text[q] \in 0..label[q]
  /\ task[t].pc = "upsert" => task[t].stale \subseteq readReasons(t)
  /\ task[t].pc \in {"delete", "create"} => task[t].gate \in GateKeys
  /\ task[t].pc \in {"embed", "vectors", "upsert", "gates"} => task[t].done = {}

\* The gates that task t has begun to link.
Linked(t) == {d[1] : d \in task[t].done}
\* The gate whose old links are still there.
InHand(t) == IF task[t].pc = "delete" THEN {task[t].gate} ELSE {}

\* What a gate that was begun has, or will have when the task has inserted the
\* rest of its picks.
LinksToBe(t, g) ==
  links[g] \cup (IF task[t].pc = "create" /\ g = task[t].gate
                 THEN Elements(task[t].picks) ELSE {})

\* The task retrieves from the whole catalog, and each reason has its vector.
Indexed(t) ==
  /\ task[t].corpus = catalog
  /\ \A q \in catalog : embedding[q] = Vector(ModelOf[t], label[q])

\* What a task finds while nobody else writes.
AloneSound(t) ==
  exclusive[t] =>
    /\ task[t].pc \in {"vectors", "upsert"} => task[t].text = label
    /\ task[t].pc = "upsert" =>
         \A q \in catalog \ task[t].stale : embedding[q] = Vector(ModelOf[t], label[q])
    /\ task[t].pc \in {"gates"} \cup Linking => Indexed(t)
    /\ task[t].pc \in Linking =>
         /\ task[t].todo \cap Linked(t) = {} /\ task[t].todo \cap InHand(t) = {}
         /\ Linked(t) \cap InHand(t) = {}
         /\ task[t].todo \cup Linked(t) \cup InHand(t) = gates
         /\ \A d \in task[t].done : LinksToBe(t, d[1]) = d[2]
    /\ task[t].pc = "done" => task[t].todo = {}

\* The inductive invariant of any tasks.
LinkInv ==
  /\ LinkTypes
  /\ VectorsDated
  /\ OldGatesBare
  /\ \A t \in Tasks : TaskSound(t) /\ AloneSound(t)

\* Under one model, a vector that is not stale for a task stays readable for it.
OneModel == \A t, u \in Tasks : ModelOf[t] = ModelOf[u]
\* A task has found some reasons, and retrieves from all that it has found.
WholeSound(t) ==
  /\ task[t].pc \in {"vectors", "upsert"} => readReasons(t) # {}
  /\ task[t].pc = "upsert" =>
       \A q \in readReasons(t) \ task[t].stale : embedding[q].model = ModelOf[t]
  /\ task[t].pc \in Retrieved => task[t].corpus = readReasons(t) /\ task[t].corpus # {}
\* The inductive invariant of tasks with one model.
WholeInv == LinkInv /\ \A t \in Tasks : WholeSound(t)

------------------------------------------------------------------------------
(* Every step keeps the invariant                                          *)

\* What a step does not touch, a task that does not move still has.
LEMMA OthersKeep ==
  ASSUME LinkInv, NEW u \in Tasks, task'[u] = task[u], label' = label,
         exclusive'[u] => exclusive[u] /\ UNCHANGED <<embedding, draft, links>>
  PROVE  TaskSound(u)' /\ AloneSound(u)'
<1>1. TaskSound(u) /\ AloneSound(u)
  BY DEF LinkInv
<1>2. TaskSound(u)'
  BY <1>1 DEF TaskSound, readReasons
<1>3. AloneSound(u)'
  BY <1>1 DEF AloneSound, Indexed, catalog, Linked, InHand, LinksToBe, gates
<1> QED BY <1>2, <1>3

\* A step that only moves task t keeps the rest of the invariant.
LEMMA OnlyMoves ==
  ASSUME LinkInv, NEW t \in Tasks, NEW r \in TaskRecord, Go(t, r),
         UNCHANGED <<label, embedding, draft, links>>,
         exclusive' \in [Tasks -> BOOLEAN],
         \A u \in Tasks : u # t /\ exclusive'[u] => exclusive[u],
         TaskSound(t)', AloneSound(t)'
  PROVE  LinkInv'
<1>1. LinkTypes'
  BY DEF LinkInv, LinkTypes, Go
<1>2. VectorsDated' /\ OldGatesBare'
  BY DEF LinkInv, VectorsDated, OldGatesBare, gates
<1>3. ASSUME NEW u \in Tasks PROVE TaskSound(u)' /\ AloneSound(u)'
  <2>1. CASE u = t
    BY <2>1
  <2>2. CASE u # t
    <3>1. task'[u] = task[u]
      BY <2>2 DEF Go, LinkInv, LinkTypes
    <3> QED BY <2>2, <3>1, OthersKeep
  <2> QED BY <2>1, <2>2
<1> QED BY <1>1, <1>2, <1>3 DEF LinkInv

\* An empty task has the type of a task.
LEMMA EmptyTyped ==
  ASSUME NEW n \in 0..MaxLinkAttempts, NEW pc \in {"idle", "embed", "failed"}
  PROVE  EmptyTask(pc, n) \in TaskRecord
<1>1. <<>> \in Seq(Reasons)
  OBVIOUS
<1> QED BY <1>1 DEF EmptyTask, TaskRecord

\* A task that holds nothing is sound.
LEMMA EmptySound ==
  ASSUME NEW t \in Tasks, NEW n, NEW pc \in {"idle", "embed", "failed"},
         task'[t] = EmptyTask(pc, n)
  PROVE  TaskSound(t)' /\ AloneSound(t)'
<1>1. task'[t].pc = pc /\ task'[t].picks = <<>> /\ task'[t].done = {}
  BY DEF EmptyTask
<1> QED BY <1>1, LinkingConstants DEF TaskSound, AloneSound, Linking, Retrieved

\* Starting a task keeps the invariant.
LEMMA StartKeepsInv ==
  ASSUME LinkInv, NEW t \in Tasks, Start(t)
  PROVE  LinkInv'
<1>1. 1 \in 0..MaxLinkAttempts
  BY LinkingConstants
<1>2. EmptyTask("embed", 1) \in TaskRecord
  BY <1>1, EmptyTyped
<1>3. Go(t, EmptyTask("embed", 1))
  BY DEF Start
<1>4. task'[t] = EmptyTask("embed", 1)
  BY <1>3 DEF Go, LinkInv, LinkTypes
<1>5. TaskSound(t)' /\ AloneSound(t)'
  BY <1>4, EmptySound
<1>6. exclusive' \in [Tasks -> BOOLEAN] /\ \A u \in Tasks : u # t => exclusive'[u] = exclusive[u]
  BY DEF Start, LinkInv, LinkTypes
<1> QED BY <1>2, <1>3, <1>5, <1>6, OnlyMoves DEF Start

\* A retry keeps the invariant.
LEMMA RetryKeepsInv ==
  ASSUME LinkInv, NEW t \in Tasks, Retry(t)
  PROVE  LinkInv'
<1>1. task[t].attempt \in 0..MaxLinkAttempts
  BY DEF LinkInv, LinkTypes, TaskRecord
<1>2. PICK n \in 0..MaxLinkAttempts, pc \in {"embed", "failed"} : Go(t, EmptyTask(pc, n))
  <2>1. CASE task[t].attempt < MaxLinkAttempts
    <3>1. task[t].attempt + 1 \in 0..MaxLinkAttempts
      BY <1>1, <2>1, LinkingConstants
    <3>2. Go(t, EmptyTask("embed", task[t].attempt + 1))
      BY <2>1 DEF Retry
    <3> QED BY <3>1, <3>2
  <2>2. CASE ~ (task[t].attempt < MaxLinkAttempts)
    <3>1. Go(t, EmptyTask("failed", 0))
      BY <2>2 DEF Retry
    <3> QED BY <3>1, LinkingConstants
  <2> QED BY <2>1, <2>2
<1>3. task'[t] = EmptyTask(pc, n)
  BY <1>2 DEF Go, LinkInv, LinkTypes
<1>4. TaskSound(t)' /\ AloneSound(t)'
  BY <1>3, EmptySound
<1>5. exclusive' = exclusive /\ exclusive \in [Tasks -> BOOLEAN]
  BY DEF Retry, LinkInv, LinkTypes
<1> QED BY <1>2, <1>4, <1>5, EmptyTyped, OnlyMoves DEF Retry

\* Reading the catalog keeps the invariant.
LEMMA ReadReasonsKeepsInv ==
  ASSUME LinkInv, NEW t \in Tasks, ReadReasons(t)
  PROVE  LinkInv'
<1> PICK r : r = [task[t] EXCEPT !.pc = "vectors", !.text = label]
  OBVIOUS
<1>0. task[t] \in TaskRecord /\ label \in [Reasons -> Nat] /\ exclusive \in [Tasks -> BOOLEAN]
  BY DEF LinkInv, LinkTypes
<1>1. r \in TaskRecord
  BY <1>0 DEF TaskRecord
<1>2. task'[t] = r
  BY DEF ReadReasons, Go, LinkInv, LinkTypes
<1>3. r.pc = "vectors" /\ r.text = label /\ r.picks = task[t].picks /\ r.done = task[t].done
  BY <1>0 DEF TaskRecord
<1>4. label' = label
  BY DEF ReadReasons
<1>5. TaskSound(t)'
  BY <1>0, <1>2, <1>3, <1>4 DEF TaskSound, LinkInv, ReadReasons, Retrieved
<1>6. AloneSound(t)'
  BY <1>2, <1>3, <1>4 DEF AloneSound, Linking
<1> QED BY <1>0, <1>1, <1>5, <1>6, OnlyMoves DEF ReadReasons

\* Comparing the catalog with its vectors keeps the invariant.
LEMMA FindStaleKeepsInv ==
  ASSUME LinkInv, NEW t \in Tasks, FindStale(t)
  PROVE  LinkInv'
<1> DEFINE stale == {q \in readReasons(t) : outdated(q, t)}
<1> DEFINE r == [task[t] EXCEPT !.pc = "upsert", !.stale = stale]
<1> HIDE DEF stale
<1>0. task[t] \in TaskRecord /\ exclusive \in [Tasks -> BOOLEAN]
  BY DEF LinkInv, LinkTypes
<1>s. stale \subseteq readReasons(t) /\ stale \subseteq Reasons
  BY DEF stale, readReasons
<1>1. r \in TaskRecord
  BY <1>0, <1>s DEF TaskRecord
<1>2. Go(t, r) /\ task'[t] = r
  BY DEF FindStale, Go, LinkInv, LinkTypes, stale
<1>3. /\ r.pc = "upsert" /\ r.text = task[t].text /\ r.picks = task[t].picks /\ r.done = task[t].done
      /\ r.stale = stale
  BY <1>0 DEF TaskRecord
<1> HIDE DEF r
<1>4. UNCHANGED <<label, embedding, draft, links, exclusive>>
  BY DEF FindStale
<1>5. TaskSound(t)'
  BY <1>s, <1>2, <1>3, <1>4 DEF TaskSound, LinkInv, FindStale, readReasons, Retrieved
<1>6. AloneSound(t)'
  <2>1. exclusive[t] => task[t].text = label
    BY DEF LinkInv, AloneSound, FindStale
  <2>2. exclusive[t] => \A q \in catalog \ stale : embedding[q] = Vector(ModelOf[t], label[q])
    BY <2>1 DEF stale, outdated, readReasons, catalog
  <2> QED BY <1>2, <1>3, <1>4, <2>1, <2>2 DEF AloneSound, catalog, Linking
<1> QED BY <1>0, <1>1, <1>2, <1>4, <1>5, <1>6, OnlyMoves

\* Storing a vector keeps the invariant.
LEMMA UpsertKeepsInv ==
  ASSUME LinkInv, NEW t \in Tasks, UpsertVector(t)
  PROVE  LinkInv'
<1> PICK q \in task[t].stale :
       /\ embedding' = [embedding EXCEPT ![q] = Vector(ModelOf[t], task[t].text[q])]
       /\ Go(t, [task[t] EXCEPT !.stale = @ \ {q}])
  BY DEF UpsertVector
<1> PICK r : r = [task[t] EXCEPT !.stale = @ \ {q}]
  OBVIOUS
<1>0. LinkTypes /\ task[t] \in TaskRecord
  BY DEF LinkInv, LinkTypes
<1>1. q \in Reasons
  BY <1>0 DEF TaskRecord
<1>2. /\ r \in TaskRecord /\ r.stale = task[t].stale \ {q}
      /\ r.pc = task[t].pc /\ r.text = task[t].text /\ r.picks = task[t].picks
      /\ r.done = task[t].done
  BY <1>0 DEF TaskRecord
<1>3. task' = [task EXCEPT ![t] = r] /\ task'[t] = r
  BY <1>0 DEF Go, LinkTypes
<1>4. /\ task[t].text \in [Reasons -> Nat] /\ \A p \in Reasons : task[t].text[p] \in 0..label[p]
      /\ task[t].stale \subseteq readReasons(t) /\ task[t].text[q] \in 1..label[q]
  <2>1. TaskSound(t) /\ task[t].pc = "upsert" /\ label[q] \in Nat
    BY <1>0, <1>1 DEF LinkInv, UpsertVector, LinkTypes
  <2>2. q \in readReasons(t)
    BY <2>1 DEF TaskSound
  <2> QED BY <1>1, <2>1, <2>2 DEF TaskSound, readReasons
<1>5. /\ embedding'[q] = Vector(ModelOf[t], task[t].text[q])
      /\ \A p \in Reasons : p # q => embedding'[p] = embedding[p]
  BY <1>0, <1>1 DEF LinkTypes
<1>6. LinkTypes'
  <2>1. embedding' \in [Reasons -> [model : {"none"} \cup {ModelOf[u] : u \in Tasks}, text : Nat]]
    BY <1>0, <1>1, <1>4 DEF LinkTypes, Vector
  <2>2. task' \in [Tasks -> TaskRecord]
    BY <1>0, <1>2, <1>3 DEF LinkTypes
  <2>3. exclusive' \in [Tasks -> BOOLEAN]
    BY <1>0 DEF UpsertVector, Others, LinkTypes
  <2> QED BY <1>0, <2>1, <2>2, <2>3 DEF UpsertVector, LinkTypes
<1>7. VectorsDated'
  <2> SUFFICES ASSUME NEW p \in Reasons, embedding'[p] # NoVector
               PROVE  embedding'[p].text \in 1..label[p]
                      /\ \E u \in Tasks : embedding'[p].model = ModelOf[u]
    BY DEF VectorsDated, UpsertVector
  <2>1. CASE p = q
    BY <1>1, <1>4, <1>5, <2>1 DEF Vector
  <2>2. CASE p # q
    BY <1>5, <2>2 DEF LinkInv, VectorsDated
  <2> QED BY <2>1, <2>2
<1>8. OldGatesBare'
  BY DEF UpsertVector, LinkInv, OldGatesBare, gates
<1>9. TaskSound(t)'
  BY <1>2, <1>3, <1>4 DEF TaskSound, LinkInv, UpsertVector, readReasons, Retrieved
<1>10. AloneSound(t)'
  <2> SUFFICES ASSUME exclusive'[t]
               PROVE  /\ task[t].text = label
                      /\ \A p \in catalog \ (task[t].stale \ {q}) :
                           embedding'[p] = Vector(ModelOf[t], label[p])
    BY <1>2, <1>3 DEF AloneSound, UpsertVector, Linking, catalog
  <2>1. exclusive[t] /\ task[t].pc = "upsert"
    BY DEF UpsertVector, Others
  <2>2. /\ task[t].text = label
        /\ \A p \in catalog \ task[t].stale : embedding[p] = Vector(ModelOf[t], label[p])
    BY <2>1 DEF LinkInv, AloneSound
  <2> QED BY <1>5, <2>2 DEF catalog
<1>11. ASSUME NEW u \in Tasks, u # t PROVE TaskSound(u)' /\ AloneSound(u)'
  <2>1. task'[u] = task[u] /\ ~ exclusive'[u] /\ label' = label
    BY <1>0, <1>3, <1>11 DEF UpsertVector, Others, LinkTypes
  <2> QED BY <2>1, OthersKeep
<1> QED BY <1>6, <1>7, <1>8, <1>9, <1>10, <1>11 DEF LinkInv

\* Reading the vectors back keeps the invariant.
LEMMA ReadCorpusKeepsInv ==
  ASSUME LinkInv, NEW t \in Tasks, ReadCorpus(t)
  PROVE  LinkInv'
<1> PICK r : r = [task[t] EXCEPT !.pc = "gates", !.corpus = readable(t)]
  OBVIOUS
<1>0. task[t] \in TaskRecord /\ exclusive \in [Tasks -> BOOLEAN]
  BY DEF LinkInv, LinkTypes
<1>1. /\ r \in TaskRecord /\ r.pc = "gates" /\ r.picks = task[t].picks
      /\ r.text = task[t].text /\ r.corpus = readable(t) /\ r.done = task[t].done
  <2>1. readable(t) \in SUBSET Reasons
    BY DEF readable, readReasons
  <2> QED BY <1>0, <2>1 DEF TaskRecord, Retrieved
<1>2. task'[t] = r
  BY DEF ReadCorpus, Go, LinkInv, LinkTypes
<1>3. UNCHANGED <<label, embedding, exclusive>>
  BY DEF ReadCorpus
<1>4. TaskSound(t)'
  BY <1>1, <1>2, <1>3 DEF TaskSound, LinkInv, ReadCorpus, Retrieved
<1>5. exclusive[t] =>
        /\ \A q \in catalog : embedding[q] = Vector(ModelOf[t], label[q])
        /\ readable(t) = catalog
  <2>1. SUFFICES ASSUME exclusive[t]
                 PROVE  /\ \A q \in catalog : embedding[q] = Vector(ModelOf[t], label[q])
                        /\ readable(t) = catalog
    OBVIOUS
  <2>2. /\ task[t].text = label
        /\ \A q \in catalog : embedding[q] = Vector(ModelOf[t], label[q])
    BY <2>1 DEF LinkInv, AloneSound, ReadCorpus
  <2>3. readReasons(t) = catalog
    BY <2>2 DEF readReasons, catalog
  <2>4. ASSUME NEW q \in catalog PROVE embedding[q].model = ModelOf[t]
    <3>1. embedding[q] = Vector(ModelOf[t], label[q])
      BY <2>2
    <3> QED BY <3>1 DEF Vector
  <2> QED BY <2>2, <2>3, <2>4 DEF readable
<1>6. AloneSound(t)'
  BY <1>1, <1>2, <1>3, <1>5 DEF AloneSound, Indexed, Linking, catalog
<1> QED BY <1>0, <1>1, <1>4, <1>6, OnlyMoves DEF ReadCorpus

\* Between gates, every gate that was begun has the links it is to have.
LEMMA AloneBetweenGates ==
  ASSUME LinkInv, NEW t \in Tasks, exclusive[t],
         task[t].pc = "pick" \/ (task[t].pc = "create" /\ task[t].picks = <<>>)
  PROVE  /\ Indexed(t)
         /\ task[t].todo \cap Linked(t) = {} /\ task[t].todo \cup Linked(t) = gates
         /\ \A d \in task[t].done : links[d[1]] = d[2]
<1>1. task[t].pc \in Linking /\ AloneSound(t)
  BY DEF LinkInv, Linking
<1>2. InHand(t) = {}
  BY DEF InHand
<1>3. task[t].pc = "create" => Elements(task[t].picks) = {}
  BY DEF Elements
<1>4. \A g : LinksToBe(t, g) = links[g]
  BY <1>3 DEF LinksToBe
<1> QED BY <1>1, <1>2, <1>4 DEF AloneSound

\* Listing the gates keeps the invariant.
LEMMA ReadGatesKeepsInv ==
  ASSUME LinkInv, NEW t \in Tasks, ReadGates(t)
  PROVE  LinkInv'
<1> PICK r : r = [task[t] EXCEPT !.pc = "pick", !.todo = gates]
  OBVIOUS
<1>0. task[t] \in TaskRecord /\ exclusive \in [Tasks -> BOOLEAN] /\ draft \in 0..MaxDrafts
  BY DEF LinkInv, LinkTypes
<1>1. /\ r \in TaskRecord /\ r.pc = "pick" /\ r.picks = task[t].picks /\ r.text = task[t].text /\ r.corpus = task[t].corpus
      /\ r.todo = gates /\ r.done = task[t].done
  BY <1>0 DEF TaskRecord, gates, GateKeys, Retrieved
<1>2. task'[t] = r
  BY DEF ReadGates, Go, LinkInv, LinkTypes
<1>3. TaskSound(t)'
  BY <1>1, <1>2 DEF TaskSound, Retrieved, LinkInv, ReadGates
<1>4. task[t].done = {}
  BY DEF LinkInv, TaskSound, ReadGates
<1>5. exclusive[t] => Indexed(t)
  BY DEF LinkInv, AloneSound, ReadGates
<1>6. AloneSound(t)'
  BY <1>1, <1>2, <1>4, <1>5 DEF AloneSound, Indexed, catalog, Linking, Linked, InHand, gates, ReadGates
<1> QED BY <1>0, <1>1, <1>3, <1>6, OnlyMoves DEF ReadGates

\* Retrieving and confirming for a gate keeps the invariant.
LEMMA PickKeepsInv ==
  ASSUME LinkInv, NEW t \in Tasks, Pick(t)
  PROVE  LinkInv'
<1> PICK g \in task[t].todo, answer \in Answers \cup {<<>>} :
      Go(t, [task[t] EXCEPT !.pc = "delete", !.gate = g, !.todo = @ \ {g},
               !.picks = filterConfirmed(answer, task[t].corpus)])
  BY DEF Pick
<1> PICK picks : picks = filterConfirmed(answer, task[t].corpus)
  OBVIOUS
<1> PICK r : r = [task[t] EXCEPT !.pc = "delete", !.gate = g, !.todo = @ \ {g}, !.picks = picks]
  OBVIOUS
<1>0. /\ task[t] \in TaskRecord /\ exclusive \in [Tasks -> BOOLEAN]
      /\ task[t].todo \subseteq GateKeys /\ task[t].corpus \subseteq Reasons
  BY DEF LinkInv, LinkTypes, TaskRecord
<1>1. Len(answer) \in Nat
  <2>1. CASE answer \in Answers
    BY <2>1, LinkingConstants
  <2>2. CASE answer = <<>>
    BY <2>2
  <2> QED BY <2>1, <2>2
<1>2. picks \in Seq(Reasons) /\ Len(picks) <= MaxLinks
  BY <1>0, <1>1, ConfirmedWasOffered, SeqMonotonic
<1>3. /\ r \in TaskRecord /\ r.pc = "delete" /\ r.gate = g /\ r.todo = task[t].todo \ {g}
      /\ r.picks = picks /\ r.text = task[t].text /\ r.corpus = task[t].corpus /\ r.done = task[t].done
  BY <1>0, <1>2 DEF TaskRecord, Retrieved
<1>4. task'[t] = r
  BY DEF Go, LinkInv, LinkTypes
<1>5. TaskSound(t)'
  BY <1>0, <1>2, <1>3, <1>4 DEF TaskSound, Retrieved, Pick, LinkInv
<1>6. UNCHANGED <<label, embedding, draft, links, exclusive>>
  BY DEF Pick
<1>7. exclusive[t] =>
        /\ Indexed(t)
        /\ task[t].todo \cap Linked(t) = {} /\ task[t].todo \cup Linked(t) = gates
        /\ \A d \in task[t].done : links[d[1]] = d[2]
  BY AloneBetweenGates DEF Pick
<1>8. AloneSound(t)'
  <2> SUFFICES ASSUME exclusive[t]
               PROVE  /\ Indexed(t)
                      /\ (task[t].todo \ {g}) \cap Linked(t) = {}
                      /\ (task[t].todo \ {g}) \cap {g} = {}
                      /\ Linked(t) \cap {g} = {}
                      /\ (task[t].todo \ {g}) \cup Linked(t) \cup {g} = gates
                      /\ \A d \in task[t].done : links[d[1]] = d[2]
    BY <1>3, <1>4, <1>6 DEF AloneSound, Indexed, catalog, Linking, Linked, InHand, LinksToBe, gates
  <2> QED BY <1>7
<1> QED BY <1>0, <1>3, <1>5, <1>6, <1>8, OnlyMoves DEF Pick

\* Going on to the next gate keeps the invariant.
LEMMA NextGateKeepsInv ==
  ASSUME LinkInv, NEW t \in Tasks, NextGate(t)
  PROVE  LinkInv'
<1> PICK r : r = [task[t] EXCEPT !.pc = "pick"]
  OBVIOUS
<1>0. task[t] \in TaskRecord /\ exclusive \in [Tasks -> BOOLEAN]
  BY DEF LinkInv, LinkTypes
<1>1. /\ r \in TaskRecord /\ r.pc = "pick" /\ r.picks = task[t].picks /\ r.text = task[t].text /\ r.corpus = task[t].corpus
      /\ r.todo = task[t].todo /\ r.done = task[t].done
  BY <1>0 DEF TaskRecord, Retrieved
<1>2. task'[t] = r
  BY DEF NextGate, Go, LinkInv, LinkTypes
<1>3. TaskSound(t)'
  BY <1>1, <1>2 DEF TaskSound, Retrieved, LinkInv, NextGate
<1>5. exclusive[t] =>
        /\ Indexed(t)
        /\ task[t].todo \cap Linked(t) = {} /\ task[t].todo \cup Linked(t) = gates
        /\ \A d \in task[t].done : links[d[1]] = d[2]
  BY AloneBetweenGates DEF NextGate
<1>6. AloneSound(t)'
  BY <1>1, <1>2, <1>5 DEF AloneSound, Indexed, catalog, Linking, Linked, InHand, LinksToBe, gates, NextGate
<1> QED BY <1>0, <1>1, <1>3, <1>6, OnlyMoves DEF NextGate

\* Ending a run keeps the invariant.
LEMMA FinishKeepsInv ==
  ASSUME LinkInv, NEW t \in Tasks, Finish(t)
  PROVE  LinkInv'
<1> PICK r : r = [task[t] EXCEPT !.pc = "done"]
  OBVIOUS
<1>0. task[t] \in TaskRecord /\ exclusive \in [Tasks -> BOOLEAN]
  BY DEF LinkInv, LinkTypes
<1>1. /\ r \in TaskRecord /\ r.pc = "done" /\ r.picks = task[t].picks /\ r.text = task[t].text /\ r.corpus = task[t].corpus
      /\ r.todo = task[t].todo /\ r.done = task[t].done
  BY <1>0 DEF TaskRecord, Linking
<1>2. task'[t] = r
  BY DEF Finish, Go, LinkInv, LinkTypes
<1>3. TaskSound(t)'
  BY <1>1, <1>2 DEF TaskSound, Retrieved, LinkInv
<1>4. exclusive[t] =>
        /\ Indexed(t)
        /\ Linked(t) = gates
        /\ \A d \in task[t].done : links[d[1]] = d[2]
  <2> SUFFICES ASSUME exclusive[t]
               PROVE  /\ Indexed(t)
                      /\ Linked(t) = gates
                      /\ \A d \in task[t].done : links[d[1]] = d[2]
    OBVIOUS
  <2>1. task[t].todo \cup Linked(t) = Linked(t)
    BY DEF Finish
  <2> QED BY <2>1, AloneBetweenGates DEF Finish
<1>5. AloneSound(t)'
  BY <1>1, <1>2, <1>4 DEF AloneSound, Indexed, catalog, Linking, Linked, InHand, LinksToBe, gates, Finish
<1> QED BY <1>0, <1>1, <1>3, <1>5, OnlyMoves DEF Finish

\* Deleting a gate's links keeps the invariant.
LEMMA DeleteLinksKeepsInv ==
  ASSUME LinkInv, NEW t \in Tasks, DeleteLinks(t)
  PROVE  LinkInv'
<1> PICK g : g = task[t].gate
  OBVIOUS
<1> PICK new : new = Elements(task[t].picks)
  OBVIOUS
<1> PICK r : r = [task[t] EXCEPT !.pc = "create", !.done = @ \cup {<<g, new>>}]
  OBVIOUS
<1>0. LinkTypes /\ task[t] \in TaskRecord /\ g \in GateKeys /\ task[t].pc = "delete"
  BY DEF LinkInv, LinkTypes, TaskSound, DeleteLinks
<1>1. new \subseteq Reasons
  BY <1>0, ElementOfSeq DEF TaskRecord, Elements
<1>2. /\ r \in TaskRecord /\ r.pc = "create" /\ r.gate = g /\ r.todo = task[t].todo
      /\ r.picks = task[t].picks /\ r.text = task[t].text /\ r.corpus = task[t].corpus /\ r.done = task[t].done \cup {<<g, new>>}
  <2>1. task[t].done \cup {<<g, new>>} \subseteq GateKeys \X SUBSET Reasons
    BY <1>0, <1>1 DEF TaskRecord
  <2> QED BY <1>0, <2>1 DEF TaskRecord, Retrieved
<1>3. task' = [task EXCEPT ![t] = r] /\ task'[t] = r
  BY <1>0 DEF DeleteLinks, Go, LinkTypes
<1>4. /\ links' = [links EXCEPT ![g] = {}]
      /\ links'[g] = {} /\ \A k \in GateKeys : k # g => links'[k] = links[k]
  BY <1>0 DEF DeleteLinks, LinkTypes
<1>5. LinkTypes'
  <2>1. links' \in [GateKeys -> SUBSET Reasons]
    BY <1>0, <1>4 DEF LinkTypes
  <2>2. task' \in [Tasks -> TaskRecord]
    BY <1>0, <1>2, <1>3 DEF LinkTypes
  <2>3. exclusive' \in [Tasks -> BOOLEAN]
    BY <1>0 DEF DeleteLinks, Others, LinkTypes
  <2> QED BY <1>0, <2>1, <2>2, <2>3 DEF DeleteLinks, LinkTypes
<1>6. VectorsDated'
  BY DEF DeleteLinks, LinkInv, VectorsDated
<1>7. OldGatesBare'
  BY <1>4 DEF DeleteLinks, LinkInv, OldGatesBare, gates
<1>8. TaskSound(t)'
  BY <1>0, <1>2, <1>3 DEF TaskSound, Retrieved, LinkInv, DeleteLinks
<1>9. AloneSound(t)'
  <2> SUFFICES ASSUME exclusive'[t]
               PROVE  /\ Indexed(t)
                      /\ task[t].todo \cap Linked(t)' = {}
                      /\ task[t].todo \cup Linked(t)' = gates
                      /\ \A d \in task[t].done \cup {<<g, new>>} : LinksToBe(t, d[1])' = d[2]
    <3>1. Indexed(t)' <=> Indexed(t)
      BY <1>2, <1>3 DEF Indexed, catalog, DeleteLinks
    <3> QED BY <1>2, <1>3, <3>1 DEF AloneSound, DeleteLinks, Linking, InHand, gates
  <2>1. exclusive[t]
    BY DEF DeleteLinks, Others
  <2>2. InHand(t) = {g} /\ task[t].pc \in Linking
    BY <1>0 DEF InHand, Linking
  <2>3. /\ Indexed(t)
        /\ task[t].todo \cap Linked(t) = {} /\ g \notin task[t].todo /\ g \notin Linked(t)
        /\ task[t].todo \cup Linked(t) \cup {g} = gates
        /\ \A d \in task[t].done : LinksToBe(t, d[1]) = d[2]
    BY <2>1, <2>2 DEF LinkInv, AloneSound
  <2>4. Linked(t)' = Linked(t) \cup {g}
    <3>1. Linked(t)' = {d[1] : d \in task[t].done \cup {<<g, new>>}}
      BY <1>2, <1>3 DEF Linked
    <3>2. <<g, new>>[1] = g
      OBVIOUS
    <3>3. \A k : k \in Linked(t)' <=> k \in Linked(t) \/ k = g
      BY <3>1, <3>2 DEF Linked
    <3> QED BY <3>3
  <2>5. ASSUME NEW d \in task[t].done PROVE LinksToBe(t, d[1])' = d[2]
    <3>1. d[1] # g /\ d[1] \in GateKeys
      BY <1>0, <2>3, <2>5 DEF Linked, TaskRecord
    <3>2. links[d[1]] = d[2]
      BY <1>0, <2>3, <2>5 DEF LinksToBe
    <3> QED BY <1>2, <1>3, <1>4, <3>1, <3>2 DEF LinksToBe
  <2>6. LinksToBe(t, g)' = new
    BY <1>2, <1>3, <1>4 DEF LinksToBe
  <2> QED BY <2>3, <2>4, <2>5, <2>6
<1>10. ASSUME NEW u \in Tasks, u # t PROVE TaskSound(u)' /\ AloneSound(u)'
  <2>1. task'[u] = task[u] /\ ~ exclusive'[u] /\ label' = label
    BY <1>0, <1>3, <1>10 DEF DeleteLinks, Others, LinkTypes
  <2> QED BY <2>1, OthersKeep
<1> QED BY <1>5, <1>6, <1>7, <1>8, <1>9, <1>10 DEF LinkInv

\* The elements of a sequence are its first one and those of the rest.
LEMMA ElementsOfTail ==
  ASSUME NEW S, NEW s \in Seq(S), s # <<>>
  PROVE  Elements(s) = {Head(s)} \cup Elements(Tail(s))
<1>1. /\ Len(s) \in Nat /\ Len(s) >= 1 /\ DOMAIN s = 1..Len(s)
      /\ DOMAIN Tail(s) = 1..(Len(s) - 1) /\ Head(s) = s[1]
      /\ \A k \in 1..(Len(s) - 1) : Tail(s)[k] = s[k + 1]
  BY HeadTailProperties, LenProperties, EmptySeq
<1>2. ASSUME NEW k \in DOMAIN s PROVE s[k] \in {Head(s)} \cup Elements(Tail(s))
  <2>1. CASE k = 1
    BY <1>1, <2>1
  <2>2. CASE k # 1
    <3>1. k - 1 \in DOMAIN Tail(s) /\ Tail(s)[k - 1] = s[k]
      BY <1>1, <1>2, <2>2
    <3> QED BY <3>1 DEF Elements
  <2> QED BY <2>1, <2>2
<1>3. Head(s) \in Elements(s)
  BY <1>1 DEF Elements
<1>4. ASSUME NEW k \in DOMAIN Tail(s) PROVE Tail(s)[k] \in Elements(s)
  <2>1. k + 1 \in DOMAIN s /\ Tail(s)[k] = s[k + 1]
    BY <1>1, <1>4
  <2> QED BY <2>1 DEF Elements
<1> QED BY <1>2, <1>3, <1>4 DEF Elements

\* Inserting a link keeps the invariant.
LEMMA CreateLinkKeepsInv ==
  ASSUME LinkInv, NEW t \in Tasks, CreateLink(t)
  PROVE  LinkInv'
<1> PICK g : g = task[t].gate
  OBVIOUS
<1> PICK picks : picks = task[t].picks
  OBVIOUS
<1> PICK r : r = [task[t] EXCEPT !.picks = Tail(picks)]
  OBVIOUS
<1>0. /\ LinkTypes /\ task[t] \in TaskRecord /\ g \in GateKeys /\ g \in gates
      /\ task[t].pc = "create" /\ picks \in Seq(Reasons) /\ picks # <<>>
      /\ Len(picks) <= MaxLinks
  BY DEF LinkInv, LinkTypes, TaskSound, CreateLink, Insertable, TaskRecord
<1>1. /\ Head(picks) \in Reasons /\ Tail(picks) \in Seq(Reasons)
      /\ Len(Tail(picks)) <= MaxLinks
      /\ Elements(picks) = {Head(picks)} \cup Elements(Tail(picks))
  BY <1>0, ElementsOfTail, LinkingConstants
<1>2. /\ r \in TaskRecord /\ r.pc = "create" /\ r.gate = g /\ r.todo = task[t].todo
      /\ r.picks = Tail(picks) /\ r.text = task[t].text /\ r.corpus = task[t].corpus /\ r.done = task[t].done
  BY <1>0, <1>1 DEF TaskRecord
<1>3. task' = [task EXCEPT ![t] = r] /\ task'[t] = r
  BY <1>0 DEF CreateLink, Go, LinkTypes
<1>4. /\ links' = [links EXCEPT ![g] = @ \cup {Head(picks)}]
      /\ links'[g] = links[g] \cup {Head(picks)}
      /\ \A k \in GateKeys : k # g => links'[k] = links[k]
  BY <1>0 DEF CreateLink, LinkTypes
<1>5. LinkTypes'
  <2>1. links' \in [GateKeys -> SUBSET Reasons]
    BY <1>0, <1>1, <1>4 DEF LinkTypes
  <2>2. task' \in [Tasks -> TaskRecord]
    BY <1>0, <1>2, <1>3 DEF LinkTypes
  <2>3. exclusive' \in [Tasks -> BOOLEAN]
    BY <1>0 DEF CreateLink, Others, LinkTypes
  <2> QED BY <1>0, <2>1, <2>2, <2>3 DEF CreateLink, LinkTypes
<1>6. VectorsDated'
  BY DEF CreateLink, LinkInv, VectorsDated
<1>7. OldGatesBare'
  BY <1>0, <1>4 DEF CreateLink, LinkInv, OldGatesBare, gates
<1>8. TaskSound(t)'
  BY <1>0, <1>1, <1>2, <1>3 DEF TaskSound, Retrieved, LinkInv, CreateLink
<1>9. AloneSound(t)'
  <2> SUFFICES ASSUME exclusive'[t]
               PROVE  /\ Indexed(t)
                      /\ task[t].todo \cap Linked(t) = {}
                      /\ task[t].todo \cup Linked(t) = gates
                      /\ \A d \in task[t].done : LinksToBe(t, d[1])' = d[2]
    BY <1>2, <1>3 DEF AloneSound, Indexed, catalog, CreateLink, Linking, InHand, Linked, gates
  <2>1. exclusive[t]
    BY DEF CreateLink, Others
  <2>2. InHand(t) = {} /\ task[t].pc \in Linking
    BY <1>0 DEF InHand, Linking
  <2>3. /\ Indexed(t)
        /\ task[t].todo \cap Linked(t) = {}
        /\ task[t].todo \cup Linked(t) = gates
        /\ \A d \in task[t].done : LinksToBe(t, d[1]) = d[2]
    BY <2>1, <2>2 DEF LinkInv, AloneSound
  <2>4. ASSUME NEW d \in task[t].done PROVE LinksToBe(t, d[1])' = LinksToBe(t, d[1])
    <3>1. d[1] \in GateKeys
      BY <1>0, <2>4 DEF TaskRecord
    <3>2. CASE d[1] = g
      BY <1>0, <1>1, <1>2, <1>3, <1>4, <3>2 DEF LinksToBe
    <3>3. CASE d[1] # g
      BY <1>0, <1>2, <1>3, <1>4, <3>1, <3>3 DEF LinksToBe
    <3> QED BY <3>2, <3>3
  <2> QED BY <2>3, <2>4
<1>10. ASSUME NEW u \in Tasks, u # t PROVE TaskSound(u)' /\ AloneSound(u)'
  <2>1. task'[u] = task[u] /\ ~ exclusive'[u] /\ label' = label
    BY <1>0, <1>3, <1>10 DEF CreateLink, Others, LinkTypes
  <2> QED BY <2>1, OthersKeep
<1> QED BY <1>5, <1>6, <1>7, <1>8, <1>9, <1>10 DEF LinkInv

\* A deploy that adds a reason or changes its label keeps the invariant.
LEMMA UpsertReasonKeepsInv ==
  ASSUME LinkInv, UpsertReason
  PROVE  LinkInv'
<1>0. LinkTypes
  BY DEF LinkInv
<1>1. label' \in [Reasons -> Nat] /\ \A q \in Reasons : label'[q] >= label[q]
  BY <1>0 DEF UpsertReason, LinkTypes
<1>2. exclusive' \in [Tasks -> BOOLEAN] /\ \A t \in Tasks : ~ exclusive'[t]
  BY DEF UpsertReason, Disturb
<1>3. LinkTypes'
  BY <1>0, <1>1, <1>2 DEF UpsertReason, LinkTypes
<1>4. ASSUME NEW q \in Reasons, NEW n \in 1..label[q] PROVE n \in 1..label'[q]
  <2>1. label[q] \in Nat /\ label'[q] \in Nat /\ label'[q] >= label[q]
    BY <1>0, <1>1, <1>4 DEF LinkTypes
  <2> QED BY <2>1, <1>4
<1>5. VectorsDated' /\ OldGatesBare'
  BY <1>4 DEF UpsertReason, LinkInv, VectorsDated, OldGatesBare, gates
<1>6. ASSUME NEW t \in Tasks PROVE TaskSound(t)' /\ AloneSound(t)'
  BY <1>0, <1>1, <1>2, <1>6 DEF UpsertReason, LinkInv, LinkTypes, TaskSound, AloneSound, readReasons
<1> QED BY <1>3, <1>5, <1>6 DEF LinkInv

\* A draft that replaces the gates keeps the invariant.
LEMMA ReplaceGatesKeepsInv ==
  ASSUME LinkInv, ReplaceGates
  PROVE  LinkInv'
<1>0. LinkTypes
  BY DEF LinkInv
<1>1. exclusive' \in [Tasks -> BOOLEAN] /\ \A t \in Tasks : ~ exclusive'[t]
  BY DEF ReplaceGates, Disturb
<1>2. links' = [g \in GateKeys |-> {}]
  BY <1>0 DEF ReplaceGates, LinkTypes
<1>3. draft' \in 0..MaxDrafts
  BY <1>0, LinkingConstants DEF ReplaceGates, LinkTypes
<1>4. LinkTypes'
  BY <1>0, <1>1, <1>2, <1>3 DEF ReplaceGates, LinkTypes
<1>5. VectorsDated' /\ OldGatesBare'
  BY <1>2 DEF ReplaceGates, LinkInv, VectorsDated, OldGatesBare
<1>6. ASSUME NEW t \in Tasks PROVE TaskSound(t)' /\ AloneSound(t)'
  BY <1>1, <1>6 DEF ReplaceGates, LinkInv, TaskSound, AloneSound, readReasons
<1> QED BY <1>4, <1>5, <1>6 DEF LinkInv

\* The first state satisfies the invariant.
LEMMA InitSatisfiesInv == LinkInit => LinkInv
<1> SUFFICES ASSUME LinkInit PROVE LinkInv
  OBVIOUS
<1>1. EmptyTask("idle", 0) \in TaskRecord
  BY EmptyTyped, LinkingConstants
<1>2. LinkTypes
  BY <1>1, LinkingConstants DEF LinkInit, LinkTypes, GateKeys, NoVector
<1>3. VectorsDated /\ OldGatesBare
  BY DEF LinkInit, VectorsDated, OldGatesBare, GateKeys
<1>4. ASSUME NEW t \in Tasks PROVE TaskSound(t) /\ AloneSound(t)
  <2>1. task[t].pc = "idle" /\ task[t].picks = <<>> /\ ~ exclusive[t]
    BY <1>4 DEF LinkInit, EmptyTask
  <2> QED BY <2>1, LinkingConstants DEF TaskSound, AloneSound, Linking, Retrieved
<1> QED BY <1>2, <1>3, <1>4 DEF LinkInv

\* Every step of a task, and of the rest of the system, keeps the invariant.
LEMMA NextKeepsInv == LinkInv /\ [LinkNext]_linkVars => LinkInv'
<1> SUFFICES ASSUME LinkInv, [LinkNext]_linkVars PROVE LinkInv'
  OBVIOUS
<1>1. ASSUME NEW t \in Tasks, Step(t) PROVE LinkInv'
  BY <1>1, StartKeepsInv, ReadReasonsKeepsInv, FindStaleKeepsInv, UpsertKeepsInv, ReadCorpusKeepsInv,
     ReadGatesKeepsInv, PickKeepsInv, DeleteLinksKeepsInv, CreateLinkKeepsInv,
     NextGateKeepsInv, FinishKeepsInv, RetryKeepsInv DEF Step, InsertFails, CatalogMissing, ProviderFails
<1>2. CASE UNCHANGED linkVars
  BY <1>2 DEF linkVars, LinkInv, LinkTypes, VectorsDated, OldGatesBare, TaskSound, AloneSound,
     Indexed, catalog, readReasons, Linked, InHand, LinksToBe, gates
<1> QED BY <1>1, <1>2, UpsertReasonKeepsInv, ReplaceGatesKeepsInv DEF LinkNext

------------------------------------------------------------------------------
(* One model                                                               *)

\* While all tasks use one model, whatever a step of task u does to the
\* vectors, task t can still read those that it found in order.
LEMMA StepKeepsWhole ==
  ASSUME OneModel, WholeInv, NEW u \in Tasks, Step(u), NEW t \in Tasks
  PROVE  WholeSound(t)'
<1>0. /\ task \in [Tasks -> TaskRecord] /\ WholeSound(t)
      /\ embedding \in [Reasons -> [model : {"none"} \cup {ModelOf[v] : v \in Tasks}, text : Nat]]
  BY DEF WholeInv, LinkInv, LinkTypes
<1>1. ASSUME NEW q \in Reasons, embedding[q].model = ModelOf[t]
      PROVE  embedding'[q].model = ModelOf[t]
  <2>1. CASE UpsertVector(u)
    <3> PICK p : embedding' = [embedding EXCEPT ![p] = Vector(ModelOf[u], task[u].text[p])]
      BY <2>1 DEF UpsertVector
    <3>1. CASE p = q
      <4>1. embedding'[q] = Vector(ModelOf[u], task[u].text[p])
        BY <1>0, <3>1
      <4> QED BY <4>1 DEF OneModel, Vector
    <3>2. CASE p # q
      BY <1>0, <1>1, <3>2
    <3> QED BY <3>1, <3>2
  <2>2. CASE ~ UpsertVector(u)
    <3>1. CASE InsertFails(u) \/ CatalogMissing(u) \/ ProviderFails(u)
      BY <1>1, <3>1 DEF InsertFails, CatalogMissing, ProviderFails, Retry
    <3>2. CASE Start(u) \/ ReadReasons(u) \/ FindStale(u) \/ ReadCorpus(u) \/ ReadGates(u)
      BY <1>1, <3>2 DEF Start, ReadReasons, FindStale, ReadCorpus, ReadGates
    <3>3. CASE Pick(u)
      BY <1>1, <3>3 DEF Pick
    <3>4. CASE DeleteLinks(u) \/ CreateLink(u) \/ NextGate(u) \/ Finish(u)
      BY <1>1, <3>4 DEF DeleteLinks, CreateLink, NextGate, Finish
    <3> QED BY <2>2, <3>1, <3>2, <3>3, <3>4 DEF Step
  <2> QED BY <2>1, <2>2
<1>2. CASE t # u
  <2>1. task'[t] = task[t]
    <3>1. CASE InsertFails(u) \/ CatalogMissing(u) \/ ProviderFails(u)
      BY <1>0, <1>2, <3>1 DEF InsertFails, CatalogMissing, ProviderFails, Retry, Go
    <3>2. CASE Start(u) \/ ReadReasons(u) \/ FindStale(u) \/ UpsertVector(u) \/ ReadCorpus(u)
      BY <1>0, <1>2, <3>2 DEF Start, ReadReasons, FindStale, UpsertVector, ReadCorpus, Go
    <3>3. CASE ReadGates(u) \/ Pick(u) \/ DeleteLinks(u)
      BY <1>0, <1>2, <3>3 DEF ReadGates, Pick, DeleteLinks, Go
    <3>4. CASE CreateLink(u) \/ NextGate(u) \/ Finish(u)
      BY <1>0, <1>2, <3>4 DEF CreateLink, NextGate, Finish, Go
    <3> QED BY <3>1, <3>2, <3>3, <3>4 DEF Step
  <2>2. \A q \in readReasons(t) : q \in Reasons
    BY DEF readReasons
  <2>3. readReasons(t)' = readReasons(t)
    BY <2>1 DEF readReasons
  <2> QED BY <1>0, <1>1, <2>1, <2>2, <2>3 DEF WholeSound
<1>3. CASE t = u
  <2>0. task[t] \in TaskRecord
    BY <1>0
  <2>1. CASE Start(t) \/ InsertFails(t) \/ CatalogMissing(t) \/ ProviderFails(t)
    <3>1. PICK n \in Nat, pc \in {"embed", "failed"} : task'[t] = EmptyTask(pc, n)
      <4>1. CASE Start(t)
        <5>1. task'[t] = EmptyTask("embed", 1)
          BY <1>0, <4>1 DEF Start, Go
        <5> QED BY <5>1
      <4>2. CASE Retry(t)
        <5>1. task'[t] = IF task[t].attempt < MaxLinkAttempts
                         THEN EmptyTask("embed", task[t].attempt + 1) ELSE EmptyTask("failed", 0)
          BY <1>0, <4>2 DEF Retry, Go
        <5>2. CASE task[t].attempt < MaxLinkAttempts
          <6>1. task'[t] = EmptyTask("embed", task[t].attempt + 1)
            BY <5>1, <5>2
          <6>2. task[t].attempt + 1 \in Nat
            BY <2>0, LinkingConstants DEF TaskRecord
          <6> QED BY <6>1, <6>2
        <5>3. CASE ~ (task[t].attempt < MaxLinkAttempts)
          <6>1. task'[t] = EmptyTask("failed", 0)
            BY <5>1, <5>3
          <6> QED BY <6>1
        <5> QED BY <5>2, <5>3
      <4> QED BY <2>1, <4>1, <4>2 DEF InsertFails, CatalogMissing, ProviderFails
    <3> QED BY <3>1 DEF EmptyTask, WholeSound, Retrieved
  <2>2. CASE FindStale(t)
    <3>1. /\ task'[t].pc = "upsert" /\ embedding' = embedding /\ task'[t].text = task[t].text
          /\ task'[t].stale = {q \in readReasons(t) : outdated(q, t)}
      BY <1>0, <2>0, <2>2 DEF FindStale, Go, TaskRecord
    <3>2. readReasons(t)' = readReasons(t) /\ readReasons(t) # {}
      BY <1>0, <2>2, <3>1 DEF readReasons, WholeSound, FindStale
    <3> QED BY <3>1, <3>2 DEF WholeSound, outdated, Vector, Retrieved
  <2>3. CASE UpsertVector(t)
    <3> PICK p \in task[t].stale :
          /\ embedding' = [embedding EXCEPT ![p] = Vector(ModelOf[t], task[t].text[p])]
          /\ Go(t, [task[t] EXCEPT !.stale = @ \ {p}])
      BY <2>3 DEF UpsertVector
    <3>1. /\ task'[t].pc = "upsert" /\ task'[t].stale = task[t].stale \ {p} /\ p \in Reasons
          /\ task'[t].text = task[t].text
      BY <1>0, <2>0, <2>3 DEF UpsertVector, Go, TaskRecord
    <3>2. embedding'[p].model = ModelOf[t]
      BY <1>0, <3>1 DEF Vector
    <3>3. /\ \A q \in readReasons(t) \ task[t].stale : q \in Reasons /\ embedding[q].model = ModelOf[t]
          /\ readReasons(t) # {}
      BY <1>0, <2>3 DEF WholeSound, UpsertVector, readReasons
    <3>4. readReasons(t)' = readReasons(t)
      BY <3>1 DEF readReasons
    <3> QED BY <1>1, <3>1, <3>2, <3>3, <3>4 DEF WholeSound, Retrieved
  <2>4. CASE ReadCorpus(t)
    <3>1. /\ \A q \in readReasons(t) : embedding[q].model = ModelOf[t]
          /\ readReasons(t) # {}
      BY <1>0, <2>4 DEF WholeSound, ReadCorpus
    <3>2. /\ task'[t].pc = "gates" /\ task'[t].corpus = readable(t)
          /\ task'[t].text = task[t].text
      BY <1>0, <2>0, <2>4 DEF ReadCorpus, Go, TaskRecord
    <3>3. readReasons(t)' = readReasons(t)
      BY <3>2 DEF readReasons
    <3> QED BY <3>1, <3>2, <3>3 DEF WholeSound, readable
  <2>6. CASE ReadReasons(t)
    <3>1. task'[t].pc = "vectors" /\ task'[t].text = label /\ catalog # {}
      BY <1>0, <2>0, <2>6 DEF ReadReasons, Go, TaskRecord
    <3> QED BY <3>1 DEF WholeSound, readReasons, catalog, Retrieved
  <2>5. CASE ReadGates(t) \/ Pick(t) \/ DeleteLinks(t) \/ CreateLink(t) \/ NextGate(t) \/ Finish(t)
    <3>1. /\ task'[t].pc \notin {"vectors", "upsert"} /\ task'[t].corpus = task[t].corpus
          /\ task'[t].text = task[t].text
      <4>1. CASE ReadGates(t)
        BY <1>0, <2>0, <4>1 DEF ReadGates, Go, TaskRecord
      <4>2. CASE Pick(t)
        BY <1>0, <2>0, <4>2 DEF Pick, Go, TaskRecord
      <4>3. CASE DeleteLinks(t)
        BY <1>0, <2>0, <4>3 DEF DeleteLinks, Go, TaskRecord
      <4>4. CASE CreateLink(t)
        BY <1>0, <2>0, <4>4 DEF CreateLink, Go, TaskRecord
      <4>5. CASE NextGate(t) \/ Finish(t)
        BY <1>0, <2>0, <4>5 DEF NextGate, Finish, Go, TaskRecord
      <4> QED BY <2>5, <4>1, <4>2, <4>3, <4>4, <4>5
    <3>2. task[t].pc \in Retrieved
      BY <2>5 DEF ReadGates, Pick, DeleteLinks, CreateLink, NextGate, Finish, Retrieved
    <3>3. readReasons(t)' = readReasons(t)
      BY <3>1 DEF readReasons
    <3> QED BY <1>0, <3>1, <3>2, <3>3 DEF WholeSound
  <2> QED BY <1>3, <2>1, <2>2, <2>3, <2>4, <2>5, <2>6 DEF Step
<1> QED BY <1>2, <1>3

\* Every step keeps what the tasks of one model read.
LEMMA NextKeepsWhole == OneModel /\ WholeInv /\ [LinkNext]_linkVars => WholeInv'
<1> SUFFICES ASSUME OneModel, WholeInv, [LinkNext]_linkVars PROVE WholeInv'
  OBVIOUS
<1>1. LinkInv'
  BY NextKeepsInv DEF WholeInv
<1>2. ASSUME NEW t \in Tasks PROVE WholeSound(t)'
  <2>1. CASE UNCHANGED <<task, embedding>>
    BY <1>2, <2>1 DEF WholeInv, WholeSound, readReasons
  <2> QED BY <1>2, <2>1, StepKeepsWhole DEF LinkNext, UpsertReason, ReplaceGates, linkVars
<1> QED BY <1>1, <1>2 DEF WholeInv

------------------------------------------------------------------------------
(* Theorems                                                                *)

\* Whoever else writes, links, relabels or replaces the gates, every task is
\* in a sound state (core/runBlockerLinking.ts, core/blockerLinking.ts).
THEOREM LinkingInvariant == LinkSpec => []LinkInv
<1> QED BY InitSatisfiesInv, NextKeepsInv, PTL DEF LinkSpec

\* Links are reasons of the catalog, no gate of a replaced version keeps one,
\* and no vector is of a wording that the catalog never had.
THEOREM LinkingTyped == LinkSpec => []LinkingTypeOK
<1>1. LinkInv => LinkingTypeOK
  <2> SUFFICES ASSUME LinkInv PROVE LinkingTypeOK
    OBVIOUS
  <2>1. \A g \in DOMAIN links : links[g] \subseteq Reasons /\ (g \notin gates => links[g] = {})
    BY DEF LinkInv, LinkTypes, OldGatesBare
  <2>2. \A t \in Tasks : task[t].attempt \in 0..MaxLinkAttempts /\ Len(task[t].picks) <= MaxLinks
    BY DEF LinkInv, LinkTypes, TaskRecord, TaskSound
  <2> QED BY <2>1, <2>2 DEF LinkInv, VectorsDated, LinkingTypeOK
<1> QED BY <1>1, LinkingInvariant, PTL

\* A run that nobody disturbed has retrieved from the present catalog, leaves
\* it embedded and just the confirmed links at every gate, whatever was left half-done before it.
THEOREM LoneRunsAreExact == LinkSpec => []LoneRunIsExact
<1>1. LinkInv => LoneRunIsExact
  <2> SUFFICES ASSUME LinkInv, NEW t \in Tasks, task[t].pc = "done", exclusive[t]
               PROVE  /\ Indexed(t) /\ Linked(t) = gates
                      /\ \A d \in task[t].done : links[d[1]] = d[2]
    BY DEF LoneRunIsExact, Linked, Indexed
  <2>1. AloneSound(t) /\ task[t].pc \in Linking
    BY DEF LinkInv, Linking
  <2>2. InHand(t) = {} /\ \A g : LinksToBe(t, g) = links[g]
    BY DEF InHand, LinksToBe
  <2>3. task[t].todo = {} /\ task[t].todo \cup Linked(t) \cup InHand(t) = gates
    BY <2>1 DEF AloneSound
  <2>4. Linked(t) = gates
    BY <2>2, <2>3
  <2> QED BY <2>1, <2>2, <2>4 DEF AloneSound
<1> QED BY <1>1, LinkingInvariant, PTL

\* While all tasks use one model, every task retrieves from all the reasons
\* that it found in the catalog, also from the vectors that others are writing.
THEOREM CorpusStaysWhole == OneModel => (LinkSpec => []CorpusIsWhole)
<1> SUFFICES ASSUME OneModel PROVE LinkSpec => []CorpusIsWhole
  OBVIOUS
<1>1. LinkInit => WholeInv
  <2> SUFFICES ASSUME LinkInit, NEW t \in Tasks PROVE WholeSound(t)
    BY InitSatisfiesInv DEF WholeInv
  <2>1. task[t].pc = "idle"
    BY DEF LinkInit, EmptyTask
  <2> QED BY <2>1 DEF WholeSound, Retrieved
<1>2. WholeInv => CorpusIsWhole
  BY DEF WholeInv, WholeSound, CorpusIsWhole, Retrieved
<1>3. WholeInv /\ [LinkNext]_linkVars => WholeInv'
  BY NextKeepsWhole
<1> QED BY <1>1, <1>2, <1>3, PTL DEF LinkSpec

\* With one model, all of it: links rest on the whole catalog that the task
\* read, and on nothing but what the model confirmed.
THEOREM LinksAreExact == OneModel => (LinkSpec => []LinksExact)
<1>1. LinkingTypeOK /\ CorpusIsWhole /\ LoneRunIsExact => LinksExact
  BY DEF LinksExact
<1> QED BY <1>1, LinkingTyped, CorpusStaysWhole, LoneRunsAreExact, PTL
=============================================================================
