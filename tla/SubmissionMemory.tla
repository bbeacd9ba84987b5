-------------------------- MODULE SubmissionMemory --------------------------
(***************************************************************************)
(* The submissions a process of the Atlas remembers in memory: those of    *)
(* research without Postgres (api/research.ts, recentRunsLocal) and those  *)
(* of verification (api/verify.ts, recentRuns), each for one platform.     *)
(*                                                                         *)
(* Handlers run concurrently and hold the submission they work on, which   *)
(* may have left the memory when their call to Render returns. A call      *)
(* reaches Render in the tick it is made or never; its reply may be lost   *)
(* or come any time later. Render remembers a key for KeyTtl and answers   *)
(* it with the run it has started (external, as the comments of            *)
(* server/dispatcher.ts and the use of the keys have it).                  *)
(***************************************************************************)
EXTENDS Naturals, Sequences, FiniteSets

CONSTANTS
    Kinds,        \* of "research" and "verify": they share nothing but their handlers
    Handlers,
    DedupeTtl,    \* DEDUPE_TTL_MS, 15 minutes
    KeyTtl,       \* 24 hours
    SlotWindow,   \* VERIFY_WINDOW_MS, an hour
    VerifyLimit,  \* VERIFY_HOURLY_LIMIT, of one address
    MaxTime, MaxEntries, MaxRestarts  \* bounds of the exploration

NoRun == 0
NoEntry == 0

ASSUME KindsKnown == Kinds \subseteq {"research", "verify"}
ASSUME Durations == DedupeTtl \in Nat \ {0} /\ KeyTtl \in Nat \ {0} /\ DedupeTtl < KeyTtl
    /\ VerifyLimit \in Nat

VARIABLES
    now,
    entries,   \* every submission object made; its place is its key
    memory,    \* the object in recentRunsLocal and in recentRuns, or NoEntry
    slots,     \* attemptsByIp of the one address
    handler,   \* what each handler waits for
    stray,     \* keys of calls whose handler has given up before they arrived
    runs,      \* the runs Render has started
    restarts

memoryVars == <<now, entries, memory, slots, handler, stray, runs, restarts>>

IdleHandler == [phase |-> "idle", entry |-> NoEntry, run |-> NoRun]
Entry(k) == [kind |-> k, runId |-> NoRun, at |-> now, life |-> restarts]

unconfirmed(i) == i # NoEntry /\ entries[i].runId = NoRun

(***************************************************************************)
(* The start of a task, up to the call to Render.                          *)
(***************************************************************************)

submissionExpired(e) == now - e.at >= KeyTtl

(* The submission in memory goes on while it is unconfirmed. *)
Submit(h, k) ==
    LET again == unconfirmed(memory[k])
        e == IF again THEN entries[memory[k]] ELSE Entry(k)
        i == IF again THEN memory[k] ELSE Len(entries) + 1
    IN  /\ i <= MaxEntries
        /\ ~submissionExpired(e)
        /\ entries' = IF again THEN entries ELSE Append(entries, e)
        /\ memory' = [memory EXCEPT ![k] = i]
        /\ handler' = [handler EXCEPT ![h] = [phase |-> "sent", entry |-> i, run |-> NoRun]]
        /\ UNCHANGED <<now, stray, runs, restarts>>

(* A confirmed research is answered with its run. *)
StartResearch(h) ==
    /\ "research" \in Kinds /\ handler[h] = IdleHandler
    /\ memory["research"] = NoEntry \/ unconfirmed(memory["research"])
    /\ Submit(h, "research")
    /\ UNCHANGED slots

takeSlot(s) == Append(SelectSeq(s, LAMBDA t : t + SlotWindow > now), now)
slotFree(s) == Len(takeSlot(s)) <= VerifyLimit

reusable(i) ==
    i # NoEntry /\ entries[i].runId # NoRun /\ now - entries[i].at < DedupeTtl

StartVerify(h) ==
    /\ "verify" \in Kinds /\ handler[h] = IdleHandler
    /\ ~reusable(memory["verify"])
    /\ slotFree(slots)
    /\ Submit(h, "verify")
    /\ slots' = takeSlot(slots)

(* The slot is taken before the age of the submission is looked at. *)
RefuseOldVerify ==
    /\ "verify" \in Kinds
    /\ unconfirmed(memory["verify"])
    /\ submissionExpired(entries[memory["verify"]])
    /\ slotFree(slots)
    /\ slots' = takeSlot(slots)
    /\ UNCHANGED <<now, entries, memory, handler, stray, runs, restarts>>

(***************************************************************************)
(* Render and the replies.                                                 *)
(***************************************************************************)

remembered(key) == {r \in 1..Len(runs) : runs[r].key = key /\ now - runs[r].acceptedAt < KeyTtl}

Accept(key) ==
    IF remembered(key) # {} THEN UNCHANGED runs
    ELSE runs' = Append(runs, [key |-> key, acceptedAt |-> now, live |-> TRUE])

AcceptedAs(key) ==
    IF remembered(key) # {} THEN CHOOSE r \in remembered(key) : TRUE ELSE Len(runs) + 1

Arrive(h) ==
    /\ handler[h].phase = "sent"
    /\ Accept(handler[h].entry)
    /\ handler' = [handler EXCEPT ![h].phase = "arrived", ![h].run = AcceptedAs(handler[h].entry)]
    /\ UNCHANGED <<now, entries, memory, slots, stray, restarts>>

ArriveLate(key) ==
    /\ stray' = stray \ {key}
    /\ Accept(key)
    /\ UNCHANGED <<now, entries, memory, slots, handler, restarts>>

confirmed(e, run) ==
    [e EXCEPT !.runId = run, !.at = IF e.kind = "verify" THEN now ELSE @]

Confirm(h) ==
    /\ handler[h].phase = "arrived"
    /\ entries' = [entries EXCEPT ![handler[h].entry] = confirmed(@, handler[h].run)]
    /\ handler' = [handler EXCEPT ![h] = IdleHandler]
    /\ UNCHANGED <<now, memory, slots, stray, runs, restarts>>

(* The handler answers start_failed. *)
LoseReply(h) ==
    /\ handler[h] # IdleHandler
    /\ handler' = [handler EXCEPT ![h] = IdleHandler]
    /\ stray' = stray \union (IF handler[h].phase = "sent" THEN {handler[h].entry} ELSE {})
    /\ UNCHANGED <<now, entries, memory, slots, runs, restarts>>

FinishRun(r) ==
    /\ runs[r].live
    /\ runs' = [runs EXCEPT ![r].live = FALSE]
    /\ UNCHANGED <<now, entries, memory, slots, handler, stray, restarts>>

(* Runs a browser was told of, by the reply or by a deduplicated answer. *)
told(r) == \E i \in 1..Len(entries) : entries[i].runId = r

finishSubmissionOfSlug(r) == [memory EXCEPT !["research"] = NoEntry]

finishSubmissionLocal(r) ==
    IF memory["research"] # NoEntry /\ entries[memory["research"]].runId = r
    THEN [memory EXCEPT !["research"] = NoEntry] ELSE memory

(* A poll of a research run, now or long after it has ended. *)
Poll(r) ==
    /\ told(r) /\ ~runs[r].live
    /\ entries[runs[r].key].kind = "research"
    /\ memory' = finishSubmissionLocal(r)
    /\ UNCHANGED <<now, entries, slots, handler, stray, runs, restarts>>

(* What has not arrived within the tick never does. *)
Tick ==
    /\ now < MaxTime
    /\ \A h \in Handlers : handler[h].phase # "sent"
    /\ now' = now + 1
    /\ stray' = {}
    /\ UNCHANGED <<entries, memory, slots, handler, runs, restarts>>

RestartServer ==
    /\ restarts < MaxRestarts
    /\ restarts' = restarts + 1
    /\ memory' = [k \in Kinds |-> NoEntry]
    /\ slots' = <<>>
    /\ stray' = stray \union {handler[h].entry : h \in {g \in Handlers : handler[g].phase = "sent"}}
    /\ handler' = [h \in Handlers |-> IdleHandler]
    /\ UNCHANGED <<now, entries, runs>>

MemoryInit ==
    /\ now = 0 /\ entries = <<>> /\ memory = [k \in Kinds |-> NoEntry]
    /\ slots = <<>> /\ handler = [h \in Handlers |-> IdleHandler]
    /\ stray = {} /\ runs = <<>> /\ restarts = 0

MemoryNext ==
    \/ \E h \in Handlers :
          StartResearch(h) \/ StartVerify(h) \/ Arrive(h) \/ Confirm(h) \/ LoseReply(h)
    \/ RefuseOldVerify
    \/ \E key \in stray : ArriveLate(key)
    \/ \E r \in 1..Len(runs) : FinishRun(r) \/ Poll(r)
    \/ Tick
    \/ RestartServer
MemorySpec == MemoryInit /\ [][MemoryNext]_memoryVars

(***************************************************************************)
(* Properties.                                                             *)
(***************************************************************************)

(* What a handler waits for and what the memory holds are submissions of   *)
(* this process, and a run has the key of one.                             *)
MemoryTypeOK ==
    /\ \A k \in Kinds : memory[k] # NoEntry =>
          entries[memory[k]].kind = k /\ entries[memory[k]].life = restarts
    /\ \A h \in Handlers : handler[h] # IdleHandler => entries[handler[h].entry].life = restarts
    /\ \A r \in 1..Len(runs) : runs[r].key \in 1..Len(entries)
    /\ Len(slots) <= VerifyLimit

KindOf(r) == entries[runs[r].key].kind
RunsOf(k) == {r \in 1..Len(runs) : KindOf(r) = k}

(* Browsers that retry, share a submission and poll old runs never have    *)
(* two research tasks of one platform at work; only a restart, which       *)
(* forgets the submission, adds one (research.ts, "Match by run ID").      *)
OneResearchRun == Cardinality({r \in RunsOf("research") : runs[r].live}) <= 1 + restarts

(* Retrying a submission whose reply was lost finds the task again: there  *)
(* is never a second task nobody was told of but for a restart, also when  *)
(* Render has forgotten the key (the 24 hours of both handlers).           *)
UnknownRunsBounded ==
    \A k \in Kinds : Cardinality({r \in RunsOf(k) : ~told(r)}) <= 1 + restarts

(* Two verifications a process starts are at least the reuse window apart, *)
(* however late the first was confirmed (verify.ts, "Count the reuse       *)
(* window from confirmation").                                             *)
VerifySpaced ==
    \A r, q \in RunsOf("verify") :
        r < q /\ entries[runs[r].key].life = entries[runs[q].key].life
            => runs[q].acceptedAt - runs[r].acceptedAt >= DedupeTtl

(* However replies are lost, handlers overlap and Render forgets keys, the *)
(* submissions in memory bound the tasks that are paid for.                *)
SubmissionsBounded ==
    /\ MemoryTypeOK
    /\ OneResearchRun
    /\ UnknownRunsBounded
    /\ VerifySpaced
=============================================================================
