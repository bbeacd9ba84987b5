----------------------------- MODULE RequestGate -----------------------------
(***************************************************************************)
(* The rate limits of the diagnostic server: the fixed-window limiter      *)
(* (server/rate-limit.ts) and the routes that consume it (server/http.ts). *)
(* A limiter and a key name a bucket; a turn consumes the bucket of its    *)
(* client and then that of its session. Both are consumed before a body or *)
(* a token is read, and consuming is synchronous, so a request is a step.  *)
(* Each process has limiters of its own: this is one process.              *)
(***************************************************************************)
EXTENDS Integers, Sequences, FiniteSets

CONSTANTS
    Clients, Sessions,
    sessionCreateLimit, sessionTurnLimit, ipTurnLimit,
    windowSeconds,
    Second,      \* ticks of the clock in a second (1000 in the code)
    PruneAbove,  \* 10 000 buckets in the code
    MaxTime,     \* bound of the exploration: the clock
    MaxRefused   \* bound of the exploration: requests refused in a window

windowMs == windowSeconds * Second

CreateBuckets == {<<"create", c>> : c \in Clients}
IpBuckets == {<<"ip", c>> : c \in Clients}
SessionBuckets == {<<"session", s>> : s \in Sessions}
Buckets == CreateBuckets \union IpBuckets \union SessionBuckets

limit(b) == CASE b \in CreateBuckets -> sessionCreateLimit
              [] b \in IpBuckets -> ipTurnLimit
              [] OTHER -> sessionTurnLimit
limiter(b) == CASE b \in CreateBuckets -> CreateBuckets
                [] b \in IpBuckets -> IpBuckets
                [] OTHER -> SessionBuckets

ASSUME LimitsPositive ==
    /\ {sessionCreateLimit, sessionTurnLimit, ipTurnLimit} \subseteq Nat \ {0}
    /\ windowSeconds \in Nat \ {0} /\ Second \in Nat \ {0} /\ PruneAbove \in Nat
    /\ MaxTime \in Nat /\ MaxRefused \in Nat

VARIABLES
    now,
    bucket,    \* the maps of the three limiters
    admitted,  \* history: the times at which a bucket admitted a request
    promised   \* history: when a refused bucket said it would admit again

gateVars == <<now, bucket, admitted, promised>>

Absent == [startedAt |-> -1, count |-> 0]
Never == -1

expired(f, b) == now - f[b].startedAt >= windowMs

prune(f, b) ==
    IF Cardinality({x \in limiter(b) : f[x] # Absent}) > PruneAbove
    THEN [x \in Buckets |-> IF x \in limiter(b) /\ expired(f, x) THEN Absent ELSE f[x]]
    ELSE f

consume(f, b) ==
    LET renewed == IF f[b] = Absent \/ expired(f, b)
                   THEN [startedAt |-> now, count |-> 0] ELSE f[b]
    IN  prune([f EXCEPT ![b] = [renewed EXCEPT !.count = @ + 1]], b)

allowed(f, b) == f[b].count <= limit(b)

Ceil(a, b) == (a + b - 1) \div b
AtLeastOne(n) == IF n < 1 THEN 1 ELSE n
retryAfterFloor(f, b) == AtLeastOne((windowMs - (now - f[b].startedAt)) \div Second)
retryAfterSeconds(f, b) == AtLeastOne(Ceil(windowMs - (now - f[b].startedAt), Second))

(* One request consumes its buckets in turn and stops at the first refusal. *)
Consumed(bs, n) ==
    LET step[i \in 0..n] == IF i = 0 THEN bucket ELSE consume(step[i - 1], bs[i])
    IN  step[n]

enforceRateLimit(bs) ==
    \E n \in 1..Len(bs) :
        LET after(i) == Consumed(bs, i)
            refused == ~allowed(after(n), bs[n])
            passed == {bs[i] : i \in 1..(n - 1)} \union (IF refused THEN {} ELSE {bs[n]})
        IN  /\ \A i \in 1..(n - 1) : allowed(after(i), bs[i])
            /\ after(n)[bs[n]].count <= limit(bs[n]) + MaxRefused
            /\ refused \/ n = Len(bs)
            /\ bucket' = after(n)
            /\ admitted' = [b \in Buckets |->
                   IF b \in passed THEN Append(admitted[b], now) ELSE admitted[b]]
            /\ promised' = [b \in Buckets |->
                   IF b \in passed THEN Never
                   ELSE IF refused /\ b = bs[n]
                   THEN now + retryAfterSeconds(after(n), b) * Second ELSE promised[b]]
            /\ UNCHANGED now

CreateSession(c) == enforceRateLimit(<< <<"create", c>> >>)
SubmitOrRetryTurn(c, s) == enforceRateLimit(<< <<"ip", c>>, <<"session", s>> >>)

Tick ==
    /\ now < MaxTime
    /\ now' = now + 1
    /\ UNCHANGED <<bucket, admitted, promised>>

GateInit ==
    /\ now = 0
    /\ bucket = [b \in Buckets |-> Absent]
    /\ admitted = [b \in Buckets |-> <<>>]
    /\ promised = [b \in Buckets |-> Never]

GateNext ==
    \/ \E c \in Clients : CreateSession(c)
    \/ \E c \in Clients, s \in Sessions : SubmitOrRetryTurn(c, s)
    \/ Tick
GateSpec == GateInit /\ [][GateNext]_gateVars

(***************************************************************************)
(* Properties.                                                             *)
(***************************************************************************)

(* A bucket never counts less than it admitted, and lives in its window. *)
GateTypeOK ==
    /\ now \in 0..MaxTime
    /\ \A b \in Buckets :
          /\ bucket[b] = Absent \/ (bucket[b].startedAt \in 0..now /\ bucket[b].count > 0)
          /\ promised[b] = Never \/ promised[b] > 0

(* Whatever the limiter forgets when it prunes and wherever its windows    *)
(* begin, any stretch of time as long as a window admits less than twice   *)
(* the limit of a key: a window opens with a request it admits             *)
(* (FixedWindowRateLimiter).                                               *)
WindowBound ==
    \A b \in Buckets : \A i, j \in DOMAIN admitted[b] :
        j = i + 2 * limit(b) - 1 => admitted[b][j] - admitted[b][i] >= windowMs

(* A client that was refused and waits as long as Retry-After says finds   *)
(* the window over, also after others have used the bucket meanwhile       *)
(* (retryAfterSeconds rounds up to whole seconds).                         *)
RetryAfterKept ==
    \A b \in Buckets :
        promised[b] # Never /\ now >= promised[b] => bucket[b] = Absent \/ expired(bucket, b)

(* The limits hold over every stretch of time, and so do the promises of   *)
(* Retry-After.                                                            *)
GateHolds ==
    /\ GateTypeOK
    /\ WindowBound
    /\ RetryAfterKept
=============================================================================
