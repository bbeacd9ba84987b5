-------------------------- MODULE DiagnosisProofs ---------------------------
(***************************************************************************)
(* Proofs about the diagnostic, for any limits and windows, objectives and *)
(* budgets, questions and catalogs: the rate limiter keeps its limits, the *)
(* question policy its budgets, and the case and its diagnosis agree with  *)
(* what stands.                                                            *)
(***************************************************************************)
EXTENDS RequestGate, TurnPolicy, DiagnosisAssembly, SequenceTheorems,
        FiniteSetTheorems, NaturalsInduction, WellFoundedInduction, TLAPS

\* Every nonempty set of numbers has a least one.
LEMMA LeastNumber ==
  ASSUME NEW S \in SUBSET Nat, S # {}
  PROVE  /\ (CHOOSE i \in S : \A j \in S : i <= j) \in S
         /\ \A j \in S : (CHOOSE i \in S : \A k \in S : i <= k) <= j
<1>1. IsWellFoundedOn(OpToRel(<, Nat), Nat)
  BY NatLessThanWellFounded
<1>2. PICK i \in S : \A j \in S : ~ (<<j, i>> \in OpToRel(<, Nat))
  BY <1>1, WFMin
<1>3. \A j \in S : i <= j
  <2>1. ASSUME NEW j \in S PROVE i <= j
    <3>1. i \in Nat /\ j \in Nat
      OBVIOUS
    <3>2. ~ (j < i)
      BY <1>2, <3>1 DEF OpToRel
    <3> QED BY <3>1, <3>2
  <2> QED BY <2>1
<1> QED BY <1>3

(***************************************************************************)
(* The rate limiter of the server.                                         *)
(***************************************************************************)
------------------------------------------------------------------------------
(* Numbers                                                                 *)

\* A window has a length, and every bucket a limit.
LEMMA WindowsHaveLength == windowMs \in Nat \ {0}
  BY LimitsPositive DEF windowMs

\* So has every bucket a limit.
LEMMA LimitsAreNumbers == ASSUME NEW b PROVE limit(b) \in Nat \ {0}
  BY LimitsPositive DEF limit

\* Rounding up to whole seconds never shortens a wait.
LEMMA RoundedUp ==
  ASSUME NEW a \in Int
  PROVE  /\ AtLeastOne(Ceil(a, Second)) \in Nat \ {0}
         /\ AtLeastOne(Ceil(a, Second)) * Second >= a
<1> DEFINE q == (a + Second - 1) \div Second
<1>1. Second \in Nat \ {0} /\ Second >= 1
  BY LimitsPositive
<1>2. q \in Int /\ q * Second <= a + Second - 1 /\ a + Second - 1 < (q + 1) * Second
  BY <1>1
<1>3. (q + 1) * Second = q * Second + Second /\ q * Second \in Int
  BY <1>1, <1>2
<1>4. a <= q * Second
  BY <1>1, <1>2, <1>3
<1> HIDE DEF q
<1>5. CASE q < 1
  <2>1. q * Second <= 0
    BY <1>1, <1>2, <1>5
  <2>2. AtLeastOne(q) = 1
    BY <1>5 DEF AtLeastOne
  <2> QED BY <1>1, <1>3, <1>4, <2>1, <2>2 DEF Ceil, q
<1>6. CASE ~ (q < 1)
  BY <1>2, <1>4, <1>6 DEF AtLeastOne, Ceil, q
<1> QED BY <1>5, <1>6

------------------------------------------------------------------------------
(* The inductive invariant                                                 *)

\* An open bucket holds at least the request that opened it.
BucketRecord == [startedAt : Nat, count : Nat \ {0}]

\* What the variables hold.
GateShape ==
  /\ now \in 0..MaxTime
  /\ bucket \in [Buckets -> {Absent} \cup BucketRecord]
  /\ admitted \in [Buckets -> Seq(Nat)]
  /\ promised \in [Buckets -> {Never} \cup (Nat \ {0})]

\* Of a bucket with limit L that admitted at the times in a: if it opens at t,
\* its limit is free; the admission as many places back as the limit allows in
\* between lies at least a window back.
ReadyAt(a, L, t) ==
  \A i \in DOMAIN a : i <= Len(a) - (L - 1) => a[i] + windowMs <= t

\* How many admissions lie in the window of the open bucket r: beyond the limit
\* it counts what it refused.
Within(r, L) == IF r.count <= L THEN r.count ELSE L

\* The window of the open bucket r began with the first of the admissions in it,
\* and when it began the limit was free.
OpenAt(r, a, L, t) ==
  LET before == Len(a) - Within(r, L)
  IN  /\ r.startedAt <= t
      /\ before >= 0 /\ a[before + 1] = r.startedAt
      /\ \A i \in 1..before : a[i] <= r.startedAt
      /\ \A i \in 1..(before - (L - 1)) : a[i] + windowMs <= r.startedAt

\* p is what the bucket last promised to a client it refused.
SoundAt(r, a, p, L, t) ==
  /\ IF r = Absent THEN ReadyAt(a, L, t) ELSE OpenAt(r, a, L, t)
  /\ \A i \in DOMAIN a : a[i] <= t
  /\ \A i, j \in DOMAIN a : j = i + 2 * L - 1 => a[j] - a[i] >= windowMs
  /\ p # Never /\ r # Absent => r.startedAt + windowMs <= p

\* What a bucket is to keep, now.
BucketSound(b) == SoundAt(bucket[b], admitted[b], promised[b], limit(b), now)

\* The inductive invariant.
GateInv == GateShape /\ \A b \in Buckets : BucketSound(b)

------------------------------------------------------------------------------
(* What a request does to one bucket                                       *)

\* The bucket b of f as it is once it is consumed.
Taken(f, b) ==
  IF f[b] = Absent \/ expired(f, b) THEN [startedAt |-> now, count |-> 1]
  ELSE [startedAt |-> f[b].startedAt, count |-> f[b].count + 1]

\* The map of the limiter.
BucketMap == [Buckets -> {Absent} \cup BucketRecord]

\* Consuming takes from the bucket, and at most forgets others that are over.
LEMMA ConsumeTakes ==
  ASSUME now \in Nat, NEW f \in BucketMap, NEW b \in Buckets
  PROVE  /\ consume(f, b) \in BucketMap
         /\ consume(f, b)[b] = Taken(f, b)
         /\ Taken(f, b) \in BucketRecord
         /\ now - Taken(f, b).startedAt < windowMs
         /\ \A x \in Buckets : x # b =>
              consume(f, b)[x] = f[x] \/ (consume(f, b)[x] = Absent /\ expired(f, x))
<1>0. f[b] \in {Absent} \cup BucketRecord /\ windowMs \in Nat \ {0}
  BY WindowsHaveLength DEF BucketMap
<1>1. Taken(f, b) \in BucketRecord /\ now - Taken(f, b).startedAt < windowMs
  <2>1. CASE f[b] = Absent \/ expired(f, b)
    BY <1>0, <2>1 DEF Taken, BucketRecord
  <2>2. CASE ~ (f[b] = Absent \/ expired(f, b))
    BY <1>0, <2>2 DEF Taken, BucketRecord, expired
  <2> QED BY <2>1, <2>2
<1> DEFINE renewed == IF f[b] = Absent \/ expired(f, b)
                      THEN [startedAt |-> now, count |-> 0] ELSE f[b]
<1>2. [renewed EXCEPT !.count = @ + 1] = Taken(f, b)
  <2>1. CASE f[b] = Absent \/ expired(f, b)
    BY <2>1 DEF Taken
  <2>2. CASE ~ (f[b] = Absent \/ expired(f, b))
    BY <1>0, <2>2 DEF Taken, BucketRecord
  <2> QED BY <2>1, <2>2
<1> PICK g : g = [f EXCEPT ![b] = Taken(f, b)]
  OBVIOUS
<1>3. consume(f, b) = prune(g, b)
  BY <1>2 DEF consume
<1>4. g \in BucketMap /\ g[b] = Taken(f, b) /\ \A x \in Buckets : x # b => g[x] = f[x]
  BY <1>1 DEF BucketMap
<1>5. CASE prune(g, b) = g
  BY <1>1, <1>3, <1>4, <1>5
<1>6. CASE prune(g, b) = [x \in Buckets |-> IF x \in limiter(b) /\ expired(g, x) THEN Absent ELSE g[x]]
  <2>1. ~ expired(g, b)
    BY <1>0, <1>1, <1>4 DEF expired, BucketRecord
  <2>2. \A x \in Buckets : x # b => (expired(g, x) <=> expired(f, x))
    BY <1>4 DEF expired
  <2>3. prune(g, b) \in BucketMap
    BY <1>4, <1>6 DEF BucketMap
  <2>4. prune(g, b)[b] = g[b]
    BY <1>6, <2>1
  <2>5. \A x \in Buckets : x # b => prune(g, b)[x] = g[x] \/ (prune(g, b)[x] = Absent /\ expired(g, x))
    BY <1>6
  <2> QED BY <1>1, <1>3, <1>4, <2>2, <2>3, <2>4, <2>5
<1> QED BY <1>5, <1>6 DEF prune

\* Consuming one bucket, and then another.
LEMMA ConsumedOnce ==
  ASSUME NEW bs
  PROVE  /\ Consumed(bs, 1) = consume(bucket, bs[1])
         /\ Consumed(bs, 2) = consume(consume(bucket, bs[1]), bs[2])
<1> DEFINE Steps(s, n) == s = [i \in 0..n |-> IF i = 0 THEN bucket ELSE consume(s[i - 1], bs[i])]
           one == consume(bucket, bs[1])
           two == consume(one, bs[2])
<1>1. Steps([i \in 0..1 |-> IF i = 0 THEN bucket ELSE one], 1)
  OBVIOUS
<1>2. Steps([i \in 0..2 |-> IF i = 0 THEN bucket ELSE IF i = 1 THEN one ELSE two], 2)
  OBVIOUS
<1>3. \A s : Steps(s, 1) => s[1] = one
  OBVIOUS
<1>4. \A s : Steps(s, 2) => s[2] = two
  OBVIOUS
<1>5. Consumed(bs, 1) = (CHOOSE s : Steps(s, 1))[1] /\ Consumed(bs, 2) = (CHOOSE s : Steps(s, 2))[2]
  BY DEF Consumed
<1> HIDE DEF Steps
<1> QED BY <1>1, <1>2, <1>3, <1>4, <1>5

\* The bucket is left alone, or forgotten because its window is over.
Left(f, g, b) == g[b] = f[b] \/ (g[b] = Absent /\ expired(f, b))

\* Two buckets that are consumed one after the other do not disturb each other.
LEMMA ConsumedTwice ==
  ASSUME now \in Nat, bucket \in BucketMap, NEW x \in Buckets, NEW y \in Buckets, x # y
  PROVE  LET g == consume(consume(bucket, x), y)
         IN  /\ g \in BucketMap
             /\ g[x] = Taken(bucket, x) /\ g[y] = Taken(bucket, y)
             /\ \A b \in Buckets \ {x, y} : Left(bucket, g, b)
<1> PICK f : f = consume(bucket, x)
  OBVIOUS
<1> PICK g : g = consume(f, y)
  OBVIOUS
<1>1. /\ f \in BucketMap /\ f[x] = Taken(bucket, x) /\ f[x] \in BucketRecord
      /\ now - f[x].startedAt < windowMs
      /\ \A b \in Buckets : b # x => Left(bucket, f, b)
  BY ConsumeTakes DEF Left
<1>2. /\ g \in BucketMap /\ g[y] = Taken(f, y)
      /\ \A b \in Buckets : b # y => Left(f, g, b)
  BY <1>1, ConsumeTakes DEF Left
<1>3. g[x] = f[x]
  <2>1. ~ expired(f, x)
    BY <1>1, WindowsHaveLength DEF expired, BucketRecord
  <2> QED BY <1>2, <2>1 DEF Left
<1>4. Taken(f, y) = Taken(bucket, y)
  BY <1>1 DEF Left, Taken, expired
<1>5. ASSUME NEW b \in Buckets \ {x, y} PROVE Left(bucket, g, b)
  <2>1. Left(bucket, f, b) /\ Left(f, g, b)
    BY <1>1, <1>2, <1>5
  <2> QED BY <2>1 DEF Left, expired
<1> QED BY <1>1, <1>2, <1>3, <1>4, <1>5

\* What becomes of a bucket in one request: it is not consumed, or consumed and
\* admits, or consumed and refuses.
NotConsumed(b) ==
  /\ Left(bucket, bucket', b)
  /\ admitted'[b] = admitted[b] /\ promised'[b] = promised[b]
Admits(b) ==
  /\ bucket'[b] = Taken(bucket, b) /\ Taken(bucket, b).count <= limit(b)
  /\ admitted'[b] = Append(admitted[b], now) /\ promised'[b] = Never
Refuses(b) ==
  /\ bucket'[b] = Taken(bucket, b) /\ ~ (Taken(bucket, b).count <= limit(b))
  /\ admitted'[b] = admitted[b]
  /\ promised'[b] = now + AtLeastOne(Ceil(windowMs - (now - Taken(bucket, b).startedAt), Second)) * Second

\* What a request does, to all buckets.
RequestEffect ==
  /\ bucket' \in BucketMap /\ now' = now
  /\ DOMAIN admitted' = Buckets /\ DOMAIN promised' = Buckets
  /\ admitted' = [b \in Buckets |-> admitted'[b]]
  /\ promised' = [b \in Buckets |-> promised'[b]]
  /\ \A b \in Buckets : NotConsumed(b) \/ Admits(b) \/ Refuses(b)

\* A request for a new session.
LEMMA OneBucketEffect ==
  ASSUME GateShape, NEW x \in Buckets, enforceRateLimit(<<x>>)
  PROVE  RequestEffect
<1> DEFINE f == consume(bucket, x)
           refused == ~ allowed(f, x)
           passed == IF refused THEN {} ELSE {x}
<1>0. bucket \in BucketMap /\ now \in Nat
  BY LimitsPositive DEF GateShape, BucketMap
<1>1. /\ bucket' = f /\ now' = now
      /\ admitted' = [b \in Buckets |-> IF b \in passed THEN Append(admitted[b], now) ELSE admitted[b]]
      /\ promised' = [b \in Buckets |->
                        IF b \in passed THEN Never
                        ELSE IF refused /\ b = x THEN now + retryAfterSeconds(f, b) * Second
                        ELSE promised[b]]
  <2>1. PICK n \in 1..Len(<<x>>) :
          LET after(i) == Consumed(<<x>>, i)
              no == ~ allowed(after(n), <<x>>[n])
              yes == {<<x>>[i] : i \in 1..(n - 1)} \union (IF no THEN {} ELSE {<<x>>[n]})
          IN  /\ bucket' = after(n) /\ now' = now
              /\ admitted' = [b \in Buckets |->
                     IF b \in yes THEN Append(admitted[b], now) ELSE admitted[b]]
              /\ promised' = [b \in Buckets |->
                     IF b \in yes THEN Never
                     ELSE IF no /\ b = <<x>>[n]
                     THEN now + retryAfterSeconds(after(n), b) * Second ELSE promised[b]]
    BY DEF enforceRateLimit
  <2>2. n = 1 /\ <<x>>[1] = x /\ {<<x>>[i] : i \in 1..0} = {}
    OBVIOUS
  <2>3. Consumed(<<x>>, 1) = f
    BY <2>2, ConsumedOnce
  <2> HIDE DEF f
  <2> QED BY <2>1, <2>2, <2>3
<1>2. /\ f \in BucketMap /\ f[x] = Taken(bucket, x)
      /\ \A b \in Buckets : b # x => Left(bucket, f, b)
  BY <1>0, ConsumeTakes DEF Left
<1> HIDE DEF f
<1>3. ASSUME NEW b \in Buckets, b # x PROVE NotConsumed(b)
  BY <1>1, <1>2, <1>3 DEF NotConsumed
<1>4. Admits(x) \/ Refuses(x)
  <2>1. CASE refused
    BY <1>1, <1>2, <2>1 DEF allowed, Refuses, retryAfterSeconds
  <2>2. CASE ~ refused
    BY <1>1, <1>2, <2>2 DEF allowed, Admits
  <2> QED BY <2>1, <2>2
<1> QED BY <1>1, <1>2, <1>3, <1>4 DEF RequestEffect

\* A request for a turn: the bucket of its client, then that of its session.
LEMMA TwoBucketEffect ==
  ASSUME GateShape, NEW x \in Buckets, NEW y \in Buckets, x # y, enforceRateLimit(<<x, y>>)
  PROVE  RequestEffect
<1> DEFINE bs == <<x, y>>
           one == consume(bucket, x)
           two == consume(one, y)
<1>0. bucket \in BucketMap /\ now \in Nat
  BY LimitsPositive DEF GateShape, BucketMap
<1>1. PICK n \in 1..Len(bs) :
        LET after(i) == Consumed(bs, i)
            no == ~ allowed(after(n), bs[n])
            yes == {bs[i] : i \in 1..(n - 1)} \union (IF no THEN {} ELSE {bs[n]})
        IN  /\ \A i \in 1..(n - 1) : allowed(after(i), bs[i])
            /\ no \/ n = Len(bs)
            /\ bucket' = after(n) /\ now' = now
            /\ admitted' = [b \in Buckets |->
                   IF b \in yes THEN Append(admitted[b], now) ELSE admitted[b]]
            /\ promised' = [b \in Buckets |->
                   IF b \in yes THEN Never
                   ELSE IF no /\ b = bs[n]
                   THEN now + retryAfterSeconds(after(n), b) * Second ELSE promised[b]]
  BY DEF enforceRateLimit
<1>2. Len(bs) = 2 /\ bs[1] = x /\ bs[2] = y
  OBVIOUS
<1>3. Consumed(bs, 1) = one /\ Consumed(bs, 2) = two
  BY <1>2, ConsumedOnce
<1>4. /\ one \in BucketMap /\ one[x] = Taken(bucket, x)
      /\ \A b \in Buckets : b # x => Left(bucket, one, b)
  BY <1>0, ConsumeTakes DEF Left
<1>5. /\ two \in BucketMap /\ two[x] = Taken(bucket, x) /\ two[y] = Taken(bucket, y)
      /\ \A b \in Buckets \ {x, y} : Left(bucket, two, b)
  BY <1>0, ConsumedTwice
<1> HIDE DEF one, two
<1>6. CASE n = 1
  <2>1. {bs[i] : i \in 1..(n - 1)} = {} /\ n # Len(bs)
    BY <1>2, <1>6
  <2>2. /\ ~ allowed(one, x) /\ bucket' = one /\ now' = now
        /\ admitted' = [b \in Buckets |-> admitted[b]]
        /\ promised' = [b \in Buckets |-> IF b = x THEN now + retryAfterSeconds(one, b) * Second
                                         ELSE promised[b]]
    BY <1>1, <1>2, <1>3, <1>6, <2>1
  <2>3. Refuses(x)
    BY <1>4, <2>2 DEF allowed, Refuses, retryAfterSeconds
  <2>4. ASSUME NEW b \in Buckets, b # x PROVE NotConsumed(b)
    BY <1>4, <2>2, <2>4 DEF NotConsumed
  <2> QED BY <1>4, <2>2, <2>3, <2>4 DEF RequestEffect
<1>7. CASE n = 2
  <2> DEFINE refused == ~ allowed(two, y)
             passed == {x} \cup (IF refused THEN {} ELSE {y})
  <2>1. {bs[i] : i \in 1..(n - 1)} = {x}
    BY <1>2, <1>7
  <2>2. allowed(one, x)
    BY <1>1, <1>2, <1>3, <1>7
  <2>3. /\ bucket' = two /\ now' = now
        /\ admitted' = [b \in Buckets |-> IF b \in passed THEN Append(admitted[b], now) ELSE admitted[b]]
        /\ promised' = [b \in Buckets |->
                          IF b \in passed THEN Never
                          ELSE IF refused /\ b = y THEN now + retryAfterSeconds(two, b) * Second
                          ELSE promised[b]]
    BY <1>1, <1>2, <1>3, <1>7, <2>1
  <2>4. Admits(x)
    BY <1>4, <1>5, <2>2, <2>3 DEF allowed, Admits
  <2>5. Admits(y) \/ Refuses(y)
    <3>1. CASE refused
      BY <1>5, <2>3, <3>1 DEF allowed, Refuses, retryAfterSeconds
    <3>2. CASE ~ refused
      BY <1>5, <2>3, <3>2 DEF allowed, Admits
    <3> QED BY <3>1, <3>2
  <2>6. ASSUME NEW b \in Buckets \ {x, y} PROVE NotConsumed(b)
    BY <1>5, <2>3, <2>6 DEF NotConsumed
  <2> QED BY <1>5, <2>3, <2>4, <2>5, <2>6 DEF RequestEffect
<1> QED BY <1>2, <1>6, <1>7
------------------------------------------------------------------------------
(* Every step leaves every bucket sound                                    *)

\* A bucket or none; what it promised or nothing.
Record == {Absent} \cup BucketRecord
Promise == {Never} \cup (Nat \ {0})

\* A bucket whose window is over has its limit free, as one that was forgotten.
LEMMA OverIsReady ==
  ASSUME NEW r \in Record, NEW a \in Seq(Nat), NEW p \in Promise, NEW L \in Nat \ {0}, NEW t \in Nat,
         SoundAt(r, a, p, L, t), r = Absent \/ t - r.startedAt >= windowMs
  PROVE  ReadyAt(a, L, t)
<1>1. CASE r = Absent
  BY <1>1 DEF SoundAt
<1>2. CASE r # Absent
  <2> DEFINE before == Len(a) - Within(r, L)
  <2>1. r \in BucketRecord /\ r.startedAt \in Nat /\ r.count \in Nat \ {0} /\ windowMs \in Nat \ {0}
    BY <1>2, WindowsHaveLength DEF Record, BucketRecord
  <2>2. r.startedAt + windowMs <= t
    BY <1>2, <2>1
  <2>3. Within(r, L) \in 1..L /\ before \in Int /\ Len(a) \in Nat
    BY <2>1 DEF Within
  <2>4. before >= 0 /\ a[before + 1] = r.startedAt /\ \A i \in 1..before : a[i] <= r.startedAt
    BY <1>2 DEF SoundAt, OpenAt
  <2>5. ASSUME NEW i \in DOMAIN a, i <= Len(a) - (L - 1)
        PROVE  a[i] + windowMs <= t
    <3>1. i \in Nat \ {0} /\ a[i] \in Nat /\ i <= before + 1
      BY <2>3, <2>5
    <3> HIDE DEF before
    <3>2. a[i] <= r.startedAt
      <4>1. CASE i <= before
        BY <2>3, <2>4, <3>1, <4>1
      <4>2. CASE i = before + 1
        BY <2>1, <2>4, <4>2
      <4> QED BY <2>3, <3>1, <4>1, <4>2
    <3> QED BY <2>1, <2>2, <3>1, <3>2
  <2> QED BY <2>5 DEF ReadyAt
<1> QED BY <1>1, <1>2

\* Forgetting a bucket whose window is over, or leaving it.
LEMMA LeftSound ==
  ASSUME NEW r \in Record, NEW a \in Seq(Nat), NEW p \in Promise, NEW L \in Nat \ {0}, NEW t \in Nat,
         SoundAt(r, a, p, L, t), NEW q, q = r \/ (q = Absent /\ t - r.startedAt >= windowMs)
  PROVE  SoundAt(q, a, p, L, t)
<1>1. CASE q = r
  BY <1>1
<1>2. CASE q = Absent /\ t - r.startedAt >= windowMs
  BY <1>2, OverIsReady DEF SoundAt
<1> QED BY <1>1, <1>2

\* The clock moves on.
LEMMA LaterSound ==
  ASSUME NEW r \in Record, NEW a \in Seq(Nat), NEW p \in Promise, NEW L \in Nat \ {0}, NEW t \in Nat,
         SoundAt(r, a, p, L, t)
  PROVE  SoundAt(r, a, p, L, t + 1)
<1>1. windowMs \in Nat \ {0} /\ \A i \in DOMAIN a : a[i] \in Nat
  BY WindowsHaveLength
<1>2. CASE r = Absent
  <2>1. ReadyAt(a, L, t) BY <1>2 DEF SoundAt
  <2>2. ReadyAt(a, L, t + 1) BY <1>1, <2>1 DEF ReadyAt
  <2>3. \A i \in DOMAIN a : a[i] <= t + 1 BY <1>1 DEF SoundAt
  <2> QED BY <1>2, <2>2, <2>3 DEF SoundAt
<1>3. CASE r # Absent
  <2>1. r.startedAt \in Nat BY <1>3 DEF Record, BucketRecord
  <2>2. OpenAt(r, a, L, t) BY <1>3 DEF SoundAt
  <2>3. OpenAt(r, a, L, t + 1) BY <2>1, <2>2 DEF OpenAt
  <2>4. \A i \in DOMAIN a : a[i] <= t + 1 BY <1>1 DEF SoundAt
  <2> QED BY <1>3, <2>3, <2>4 DEF SoundAt
<1> QED BY <1>2, <1>3

\* The bucket as it is once a request at t consumed it.
TakenAt(r, t) ==
  IF r = Absent \/ t - r.startedAt >= windowMs THEN [startedAt |-> t, count |-> 1]
  ELSE [startedAt |-> r.startedAt, count |-> r.count + 1]

\* Two admissions twice the limit apart, the later one at t: a bucket that
\* opens or is open at t put a window between them.
LEMMA AdmitsSound ==
  ASSUME NEW r \in Record, NEW a \in Seq(Nat), NEW p \in Promise, NEW L \in Nat \ {0}, NEW t \in Nat,
         SoundAt(r, a, p, L, t), TakenAt(r, t).count <= L
  PROVE  SoundAt(TakenAt(r, t), Append(a, t), Never, L, t)
<1>q. PICK q : q = TakenAt(r, t)
  OBVIOUS
<1>c. PICK c : c = Append(a, t)
  OBVIOUS
<1>n. PICK n \in Nat : n = Len(a)
  OBVIOUS
<1>r. q.count \in 1..L /\ q.startedAt \in Nat
  BY <1>q DEF TakenAt, Record, BucketRecord
<1>k. PICK k \in 1..L : k = Within(q, L)
  BY <1>r DEF Within
<1>b. PICK before \in Int : before = n + 1 - k
  OBVIOUS
<1>0. windowMs \in Nat \ {0}
  BY WindowsHaveLength
<1>1. /\ c \in Seq(Nat) /\ Len(c) = n + 1 /\ DOMAIN c = 1..(n + 1) /\ c[n + 1] = t
      /\ \A i \in 1..n : c[i] = a[i] /\ a[i] \in Nat
  BY <1>c, <1>n
<1>2. \A i \in DOMAIN a : a[i] <= t
  BY DEF SoundAt
<1>3. \A i \in DOMAIN c : c[i] <= t /\ c[i] \in Nat
  BY <1>1, <1>2, <1>n
<1>4. /\ q.startedAt \in Nat /\ q.startedAt <= t /\ q.count \in Nat \ {0} /\ k = q.count
      /\ q # Absent /\ t - q.startedAt < windowMs
      /\ before \in 0..n /\ c[before + 1] = q.startedAt
      /\ \A i \in 1..before : c[i] <= q.startedAt
      /\ \A i \in 1..(before - (L - 1)) : c[i] + windowMs <= q.startedAt
  <2>1. CASE r = Absent \/ t - r.startedAt >= windowMs
    <3>1. q = [startedAt |-> t, count |-> 1]
      BY <1>q, <2>1 DEF TakenAt
    <3>2. q.startedAt = t /\ q.count = 1 /\ q # Absent
      BY <3>1 DEF Absent
    <3>3. k = 1
      BY <1>k, <3>2 DEF Within
    <3>4. before = n
      BY <1>b, <3>3
    <3>5. ReadyAt(a, L, t)
      BY <2>1, OverIsReady
    <3>6. \A i \in 1..(before - (L - 1)) : c[i] + windowMs <= t
      <4>1. SUFFICES ASSUME NEW i \in 1..(n - (L - 1)) PROVE c[i] + windowMs <= t
        BY <3>4
      <4>2. i \in DOMAIN a /\ i <= Len(a) - (L - 1)
        BY <1>n
      <4> QED BY <1>0, <1>1, <3>5, <4>2 DEF ReadyAt
    <3>7. \A i \in 1..before : c[i] <= t
      <4>1. \A i \in 1..n : i \in DOMAIN c
        BY <1>1
      <4> QED BY <1>3, <3>4, <4>1
    <3>8. before \in 0..n /\ c[before + 1] = t
      BY <1>1, <3>4
    <3>9. t - t < windowMs /\ t <= t
      BY <1>0
    <3> QED BY <3>2, <3>3, <3>6, <3>7, <3>8, <3>9
  <2>2. CASE ~ (r = Absent \/ t - r.startedAt >= windowMs)
    <3>1. q = [startedAt |-> r.startedAt, count |-> r.count + 1]
      BY <1>q, <2>2 DEF TakenAt
    <3>2. r.startedAt \in Nat /\ r.count \in Nat \ {0}
      BY <2>2 DEF Record, BucketRecord
    <3> PICK s \in Nat, m \in Nat \ {0} : s = r.startedAt /\ m = r.count
      BY <3>2
    <3>3. q.startedAt = s /\ q.count = m + 1 /\ q # Absent
      BY <3>1, <3>2 DEF Absent
    <3>4. k = m + 1 /\ Within(r, L) = m
      BY <1>k, <1>r, <3>3 DEF Within
    <3>5. before = n - m
      BY <1>b, <3>4
    <3>6. OpenAt(r, a, L, t)
      BY <2>2 DEF SoundAt
    <3>7. /\ s <= t /\ before >= 0 /\ a[before + 1] = s
          /\ \A i \in 1..before : a[i] <= s
          /\ \A i \in 1..(before - (L - 1)) : a[i] + windowMs <= s
      BY <1>n, <3>4, <3>5, <3>6 DEF OpenAt
    <3>8. before \in 0..n /\ before + 1 \in 1..n
      <4>1. before >= 0
        BY <3>7
      <4> QED BY <3>5, <4>1
    <3>9. c[before + 1] = s
      BY <1>1, <3>7, <3>8
    <3>10. \A i \in 1..before : c[i] <= s
      BY <1>1, <3>7, <3>8
    <3>11. \A i \in 1..(before - (L - 1)) : c[i] + windowMs <= s
      <4>1. SUFFICES ASSUME NEW i \in 1..(before - (L - 1)) PROVE c[i] + windowMs <= s
        OBVIOUS
      <4>2. i \in 1..n
        BY <3>8
      <4> QED BY <1>1, <3>7, <4>2
    <3>12. t - s < windowMs
      BY <1>0, <2>2
    <3> QED BY <3>3, <3>4, <3>7, <3>8, <3>9, <3>10, <3>11, <3>12
  <2> QED BY <2>1, <2>2
<1>5. OpenAt(q, c, L, t)
  <2>1. Len(c) - Within(q, L) = before /\ before >= 0
    BY <1>1, <1>4, <1>b, <1>k
  <2> QED BY <1>4, <2>1 DEF OpenAt
<1>6. ASSUME NEW i \in DOMAIN c, NEW j \in DOMAIN c, j = i + 2 * L - 1
      PROVE  c[j] - c[i] >= windowMs
  <2>1. CASE j \in 1..n
    <3>1. i \in 1..n BY <1>1, <1>6, <2>1
    <3>2. a[j] - a[i] >= windowMs BY <1>6, <1>n, <2>1, <3>1 DEF SoundAt
    <3> QED BY <1>1, <2>1, <3>1, <3>2
  <2>2. CASE j = n + 1
    <3>1. c[j] = t BY <1>1, <2>2
    <3>2. i = n + 2 - 2 * L /\ i \in Nat \ {0} BY <1>0, <1>1, <1>6, <2>2
    <3>3. before = n + 1 - k /\ k <= L BY <1>b
    <3>4. i \in 1..(before - (L - 1))
      <4>1. i <= before - (L - 1) BY <3>2, <3>3
      <4> QED BY <1>4, <3>2, <4>1
    <3>5. c[i] + windowMs <= q.startedAt BY <1>4, <3>4
    <3>6. c[i] \in Nat /\ q.startedAt <= t /\ q.startedAt \in Nat BY <1>3, <1>4, <1>6
    <3> QED BY <1>0, <3>1, <3>5, <3>6
  <2> QED BY <1>1, <2>1, <2>2
<1> QED BY <1>3, <1>4, <1>5, <1>6, <1>c, <1>q DEF SoundAt

\* A refusal leaves the admissions alone: the bucket was open with its limit
\* taken, and its promise lies at the end of its window or later.
LEMMA RefusesSound ==
  ASSUME NEW r \in Record, NEW a \in Seq(Nat), NEW p \in Promise, NEW L \in Nat \ {0}, NEW t \in Nat,
         SoundAt(r, a, p, L, t), ~ (TakenAt(r, t).count <= L),
         NEW w \in Promise, TakenAt(r, t).startedAt + windowMs <= w
  PROVE  SoundAt(TakenAt(r, t), a, w, L, t)
<1> PICK q : q = TakenAt(r, t)
  OBVIOUS
<1>1. ~ (r = Absent \/ t - r.startedAt >= windowMs)
  BY DEF TakenAt
<1>2. q.startedAt = r.startedAt /\ q.count = r.count + 1 /\ r \in BucketRecord
  BY <1>1 DEF TakenAt, Record
<1>3. r.count \in Nat \ {0} /\ r.startedAt \in Nat
  BY <1>2 DEF BucketRecord
<1>4. q # Absent
  BY <1>2, <1>3 DEF Absent
<1>5. Within(q, L) = Within(r, L)
  BY <1>2, <1>3 DEF Within
<1>6. OpenAt(q, a, L, t)
  BY <1>1, <1>2, <1>5 DEF SoundAt, OpenAt
<1> QED BY <1>4, <1>6 DEF SoundAt

\* A request keeps the invariant, whatever it does to each bucket.
LEMMA RequestKeeps ==
  ASSUME GateInv, RequestEffect
  PROVE  GateInv'
<1>0. /\ now \in Nat /\ now' = now /\ windowMs \in Nat \ {0}
      /\ bucket \in [Buckets -> Record] /\ admitted \in [Buckets -> Seq(Nat)]
      /\ promised \in [Buckets -> Promise] /\ bucket' \in [Buckets -> Record]
  BY LimitsPositive, WindowsHaveLength DEF GateInv, GateShape, RequestEffect, BucketMap, Record, Promise
<1>1. ASSUME NEW b \in Buckets
      PROVE  /\ SoundAt(bucket'[b], admitted'[b], promised'[b], limit(b), now)
             /\ admitted'[b] \in Seq(Nat) /\ promised'[b] \in Promise
  <2>1. /\ bucket[b] \in Record /\ admitted[b] \in Seq(Nat) /\ promised[b] \in Promise
        /\ limit(b) \in Nat \ {0} /\ SoundAt(bucket[b], admitted[b], promised[b], limit(b), now)
    BY <1>0, LimitsAreNumbers DEF GateInv, BucketSound
  <2>2. Taken(bucket, b) = TakenAt(bucket[b], now)
    BY DEF Taken, TakenAt, expired
  <2>3. CASE NotConsumed(b)
    BY <1>0, <2>1, <2>3, LeftSound DEF NotConsumed, Left, expired
  <2>4. CASE Admits(b)
    <3>1. SoundAt(TakenAt(bucket[b], now), Append(admitted[b], now), Never, limit(b), now)
      BY <1>0, <2>1, <2>2, <2>4, AdmitsSound DEF Admits
    <3>2. Append(admitted[b], now) \in Seq(Nat)
      BY <1>0, <2>1
    <3> QED BY <2>2, <2>4, <3>1, <3>2 DEF Admits, Promise
  <2>5. CASE Refuses(b)
    <3> PICK s : s = TakenAt(bucket[b], now).startedAt
      OBVIOUS
    <3>1. s \in Nat
      BY <1>0, <2>1 DEF TakenAt, Record, BucketRecord
    <3> PICK d : d = AtLeastOne(Ceil(windowMs - (now - s), Second)) * Second
      OBVIOUS
    <3>2. d >= windowMs - (now - s) /\ d \in Nat \ {0}
      <4> PICK e : e = AtLeastOne(Ceil(windowMs - (now - s), Second))
        OBVIOUS
      <4>1. windowMs - (now - s) \in Int
        BY <1>0, <3>1
      <4>2. e \in Nat \ {0} /\ e * Second >= windowMs - (now - s)
        BY <4>1, RoundedUp
      <4>3. e * Second \in Nat \ {0}
        BY <4>2, LimitsPositive
      <4> QED BY <4>2, <4>3
    <3>3. promised'[b] = now + d /\ promised'[b] \in Promise /\ s + windowMs <= promised'[b]
      BY <1>0, <2>2, <2>5, <3>1, <3>2 DEF Refuses, Promise
    <3> QED BY <1>0, <2>1, <2>2, <2>5, <3>3, RefusesSound DEF Refuses
  <2> QED BY <2>3, <2>4, <2>5 DEF RequestEffect
<1>2. admitted' \in [Buckets -> Seq(Nat)] /\ promised' \in [Buckets -> Promise]
  BY <1>1 DEF RequestEffect
<1>3. GateShape'
  BY <1>0, <1>2 DEF GateInv, GateShape, Record, Promise
<1>4. ASSUME NEW b \in Buckets PROVE BucketSound(b)'
  BY <1>0, <1>1 DEF BucketSound
<1> QED BY <1>3, <1>4 DEF GateInv

\* The limiter starts sound: every bucket is absent.
LEMMA GateInitially == GateInit => GateInv
<1> SUFFICES ASSUME GateInit PROVE GateInv
  OBVIOUS
<1>1. GateShape
  BY LimitsPositive DEF GateInit, GateShape
<1>2. ASSUME NEW b \in Buckets PROVE BucketSound(b)
  <2>1. bucket[b] = Absent /\ admitted[b] = <<>> /\ promised[b] = Never
    BY DEF GateInit
  <2> QED BY <2>1 DEF BucketSound, SoundAt, ReadyAt
<1> QED BY <1>1, <1>2 DEF GateInv

\* The limiters have buckets of their own: a client's bucket is no session's.
LEMMA GateStep == GateInv /\ [GateNext]_gateVars => GateInv'
<1> SUFFICES ASSUME GateInv, [GateNext]_gateVars PROVE GateInv'
  OBVIOUS
<1>0. GateShape
  BY DEF GateInv
<1>1. ASSUME NEW c \in Clients, CreateSession(c) PROVE GateInv'
  <2>1. <<"create", c>> \in Buckets
    BY DEF Buckets, CreateBuckets
  <2> QED BY <1>0, <1>1, <2>1, OneBucketEffect, RequestKeeps DEF CreateSession
<1>2. ASSUME NEW c \in Clients, NEW s \in Sessions, SubmitOrRetryTurn(c, s) PROVE GateInv'
  <2>1. <<"ip", c>> \in Buckets /\ <<"session", s>> \in Buckets /\ <<"ip", c>> # <<"session", s>>
    BY DEF Buckets, IpBuckets, SessionBuckets
  <2> QED BY <1>0, <1>2, <2>1, TwoBucketEffect, RequestKeeps DEF SubmitOrRetryTurn
<1>3. CASE Tick
  <2>1. /\ now \in Nat /\ now' = now + 1 /\ now' \in 0..MaxTime
        /\ bucket' = bucket /\ admitted' = admitted /\ promised' = promised
    BY <1>0, <1>3, LimitsPositive DEF GateShape, Tick
  <2>2. GateShape'
    BY <1>0, <2>1 DEF GateShape
  <2>3. ASSUME NEW b \in Buckets PROVE BucketSound(b)'
    <3>1. /\ bucket[b] \in Record /\ admitted[b] \in Seq(Nat) /\ promised[b] \in Promise
          /\ limit(b) \in Nat \ {0} /\ BucketSound(b)
      BY <1>0, LimitsAreNumbers DEF GateInv, GateShape, Record, Promise
    <3> QED BY <2>1, <3>1, LaterSound DEF BucketSound
  <2> QED BY <2>2, <2>3 DEF GateInv
<1>4. CASE UNCHANGED gateVars
  <2>1. /\ now' = now /\ bucket' = bucket /\ admitted' = admitted /\ promised' = promised
    BY <1>4 DEF gateVars
  <2> QED BY <2>1 DEF GateInv, GateShape, BucketSound
<1> QED BY <1>1, <1>2, <1>3, <1>4 DEF GateNext

------------------------------------------------------------------------------
(* Theorems                                                                *)

\* The inductive invariant holds in every state, for any number of clients and
\* sessions, any limits and any window.
THEOREM GateInvariant == GateSpec => []GateInv
  BY GateInitially, GateStep, PTL DEF GateSpec

\* What the invariant says of the properties that are checked.
LEMMA GateInvImplies == GateInv => GateHolds
<1> SUFFICES ASSUME GateInv PROVE GateHolds
  OBVIOUS
<1>1. ASSUME NEW b \in Buckets
      PROVE  /\ bucket[b] = Absent \/ (bucket[b].startedAt \in 0..now /\ bucket[b].count > 0)
             /\ promised[b] = Never \/ promised[b] > 0
  <2>1. bucket[b] \in Record /\ promised[b] \in Promise /\ BucketSound(b) /\ now \in Nat
    BY LimitsPositive DEF GateInv, GateShape, Record, Promise
  <2>2. bucket[b] # Absent => bucket[b].startedAt \in Nat /\ bucket[b].count > 0
    BY <2>1 DEF Record, BucketRecord
  <2>3. bucket[b] # Absent => bucket[b].startedAt <= now
    BY <2>1 DEF BucketSound, SoundAt, OpenAt
  <2> QED BY <2>1, <2>2, <2>3 DEF Promise
<1>2. GateTypeOK
  BY <1>1 DEF GateTypeOK, GateInv, GateShape
<1>3. WindowBound
  BY DEF WindowBound, GateInv, BucketSound, SoundAt
<1>4. ASSUME NEW b \in Buckets, promised[b] # Never, now >= promised[b]
      PROVE  bucket[b] = Absent \/ expired(bucket, b)
  <2>1. bucket[b] \in Record /\ promised[b] \in Promise /\ BucketSound(b) /\ now \in Nat
        /\ windowMs \in Nat \ {0}
    BY LimitsPositive, WindowsHaveLength DEF GateInv, GateShape, Record, Promise
  <2>2. SUFFICES ASSUME bucket[b] # Absent PROVE expired(bucket, b)
    OBVIOUS
  <2>3. bucket[b].startedAt + windowMs <= promised[b] /\ bucket[b].startedAt \in Nat /\ promised[b] \in Nat
    BY <1>4, <2>1, <2>2 DEF BucketSound, SoundAt, Record, BucketRecord, Promise
  <2> QED BY <1>4, <2>1, <2>3 DEF expired
<1>5. RetryAfterKept
  BY <1>4 DEF RetryAfterKept
<1> QED BY <1>2, <1>3, <1>5 DEF GateHolds

\* The limits hold over every stretch of time, and so do the promises of
\* Retry-After: the types of the limiters, the bound of a window and the waits.
THEOREM LimitsHoldAlways == GateSpec => []GateHolds
  BY GateInvariant, GateInvImplies, PTL

\* Any stretch of time as long as a window admits less than twice the limit of
\* a key (FixedWindowRateLimiter.consume and its pruning).
THEOREM WindowIsBounded == GateSpec => []WindowBound
<1>1. GateHolds => WindowBound
  BY DEF GateHolds
<1> QED BY <1>1, LimitsHoldAlways, PTL

\* Who waits as long as Retry-After says finds the window over.
THEOREM WaitsAreEnough == GateSpec => []RetryAfterKept
<1>1. GateHolds => RetryAfterKept
  BY DEF GateHolds
<1> QED BY <1>1, LimitsHoldAlways, PTL

(***************************************************************************)
(* The question policy of the server.                                      *)
(***************************************************************************)
------------------------------------------------------------------------------
(* The order of the objectives                                             *)

\* An objective has a place in the order, and no two have the same.
LEMMA ObjectiveHasPlace ==
  ASSUME NEW o \in Objectives
  PROVE  Index(o) \in 1..Len(ObjectiveOrder) /\ ObjectiveOrder[Index(o)] = o
<1>1. \E i \in 1..Len(ObjectiveOrder) : ObjectiveOrder[i] = o
  BY DEF Objectives
<1> QED BY <1>1 DEF Index

\* None is no objective, and there is a first one.
LEMMA ObjectivesAreNamed ==
  /\ None \notin Objectives /\ Objectives \subseteq STRING
  /\ Len(ObjectiveOrder) \in Nat \ {0} /\ ObjectiveOrder[1] \in Objectives
<1>1. ObjectiveOrder \in Seq(STRING \ {None}) /\ ObjectiveOrder # <<>>
  BY OrderDistinct
<1>2. Len(ObjectiveOrder) \in Nat \ {0}
  BY <1>1
<1> QED BY <1>1, <1>2 DEF Objectives

\* The next objective is one that is not answered.
LEMMA NextIsOpen ==
  ASSUME NEW s
  PROVE  \/ nextUnansweredObjective(s) = None
         \/ nextUnansweredObjective(s) \in Objectives \ s.answered
<1> DEFINE open == {i \in 1..Len(ObjectiveOrder) : ObjectiveOrder[i] \notin s.answered}
<1>1. CASE open = {}
  BY <1>1 DEF nextUnansweredObjective
<1>2. CASE open # {}
  <2>1. open \in SUBSET Nat
    BY ObjectivesAreNamed
  <2>2. PICK i \in open : i = CHOOSE k \in open : \A j \in open : k <= j
    BY <1>2, <2>1, LeastNumber
  <2>3. nextUnansweredObjective(s) = ObjectiveOrder[i]
    BY <1>2, <2>2 DEF nextUnansweredObjective
  <2> QED BY <2>2, <2>3 DEF Objectives
<1> QED BY <1>1, <1>2

------------------------------------------------------------------------------
(* The inductive invariant                                                 *)

\* A question, what a case holds of its turns and candidates, and the case.
QuestionRecord == [objective : Objectives, pauses : BOOLEAN]
TurnRecord == [objective : Objectives, control : BOOLEAN, both : BOOLEAN]
CandidateRecord == [evidence : SUBSET Nat, live : BOOLEAN]
CaseRecord ==
  [turns : Seq(TurnRecord), retracted : SUBSET Nat, answered : SUBSET Objectives,
   attempts : [Objectives -> Nat], candidates : [Catalog -> CandidateRecord], extended : BOOLEAN,
   question : [objective : Objectives \cup {None}, pauses : BOOLEAN],
   terminal : Concluding \cup Early \cup {None}]

\* Evidence and retractions name turns of the case, and every answered
\* objective rests on a turn that stands.
Rests(s) ==
  /\ s \in CaseRecord
  /\ s.retracted \subseteq Turns(s)
  /\ \A id \in Catalog : s.candidates[id].evidence \subseteq Turns(s)
  /\ \A o \in s.answered : \E t \in RestingTurns(s) : s.turns[t].objective = o

\* A case waits for the answer to an objective, or is over.
Settled(s) ==
  IF s.question.objective \in Objectives THEN s.terminal = None
  ELSE s.question = NoQuestion /\ s.terminal # None

\* A conclusion has an owner, so all it requires was asked about and stands.
Owned(s) ==
  s.terminal \in Concluding \ {"needs_evidence"} =>
    Required \subseteq {s.turns[t].objective : t \in RestingTurns(s)}

\* A case past a budget was offered what the budget calls for, or warned.
Budgeted(s, warned) ==
  /\ Waiting(s) /\ prompts(s) >= HardBudget => warned
  /\ Waiting(s) /\ ~ Paused(s) /\ prompts(s) >= PauseAt => s.extended \/ warned

\* The inductive invariant.
TurnInv ==
  /\ mode \in Modes /\ warnings \in BOOLEAN /\ askedBefore \in Objectives \cup {None}
  /\ Rests(case) /\ Settled(case) /\ Owned(case) /\ Budgeted(case, warnings)

------------------------------------------------------------------------------
(* What is proposed                                                        *)

\* What a participant said: the pause is spent by a choice that goes deeper.
Spoken(e) ==
  /\ e.deeper \in BOOLEAN
  /\ e.deeper => e.answer \in {"finish", "correct", "continue", "deeper"}

\* A proposal for a case of n turns: it asks about an objective, or stops; it
\* cites turns of the case; and to go deeper answers nothing, unless the answer
\* asked to carry on as well.
Proper(p, n, e) ==
  /\ p.answered \in BOOLEAN /\ (e.deeper /\ p.answered => e.answer = "continue")
  /\ \/ p.next.kind = "question" /\ p.next.question \in QuestionRecord
     \/ p.next.kind = "stop" /\ p.next.terminal \in Concluding \cup Early
  /\ \A id \in DOMAIN p.updates : p.updates[id] \in [evidence : SUBSET (1..(n + 1)), live : BOOLEAN]

\* Nothing is proposed of the candidates but by a model.
LEMMA NoUpdates == ASSUME NEW id \in DOMAIN <<>> PROVE FALSE
  OBVIOUS

\* What the policy asks next is an objective, or a stop.
LEMMA AdvanceProper ==
  ASSUME NEW s, NEW o \in Objectives, NEW n \in Nat, NEW e, e.deeper => e.answer = "continue"
  PROVE  Proper(Advance(s, o), n, e)
<1> PICK sim : sim = [s EXCEPT !.answered = @ \union {o}]
  OBVIOUS
<1> PICK f : f = nextUnansweredObjective(sim)
  OBVIOUS
<1>1. f = None \/ f \in Objectives
  BY NextIsOpen
<1>2. Advance(s, o) = Proposal(TRUE, IF f = None THEN StopAt(safeTerminalFor(sim))
                                    ELSE Ask(defaultQuestionFor(f)))
  BY DEF Advance
<1>3. safeTerminalFor(sim) \in Concluding
  BY TerminalsNamed, Zenon DEF safeTerminalFor
<1>4. CASE f = None
  <2>1. Advance(s, o) = Proposal(TRUE, StopAt(safeTerminalFor(sim)))
    BY <1>2, <1>4
  <2> QED BY <1>3, <2>1, NoUpdates DEF Proper, Proposal, StopAt
<1>5. CASE f # None
  <2>1. Advance(s, o) = Proposal(TRUE, Ask(defaultQuestionFor(f)))
    BY <1>2, <1>5
  <2>2. defaultQuestionFor(f) \in QuestionRecord
    BY <1>1, <1>5 DEF defaultQuestionFor, Question, QuestionRecord
  <2>3. PICK q \in QuestionRecord : q = defaultQuestionFor(f)
    BY <2>2
  <2>4. Proper(Proposal(TRUE, Ask(q)), n, e)
    BY NoUpdates DEF Proper, Proposal, Ask
  <2> QED BY <2>1, <2>3, <2>4
<1> QED BY <1>4, <1>5

\* So is a question about a given objective.
LEMMA AskProper ==
  ASSUME NEW o \in Objectives, NEW n \in Nat, NEW e
  PROVE  Proper(Proposal(FALSE, Ask(defaultQuestionFor(o))), n, e)
  BY NoUpdates DEF Proper, Proposal, Ask, defaultQuestionFor, Question, QuestionRecord

\* Whatever the reasoner proposes, fixed heuristics or model, is proper.
LEMMA ProposalsAreProper ==
  ASSUME NEW s, NEW n \in Nat, n = Len(s.turns), NEW e, e.objective \in Objectives, Spoken(e),
         NEW p \in Proposals(s, e)
  PROVE  Proper(p, n, e)
<1>1. CASE e.answer \in Controls
  <2>1. p = conversationControlProposal(s, e)
    BY <1>1 DEF Proposals
  <2>2. CASE e.answer = "finish"
    <3>1. p = Proposal(FALSE, StopAt("user_declines"))
      BY <2>1, <2>2 DEF conversationControlProposal
    <3> QED BY <3>1, NoUpdates, TerminalsNamed DEF Proper, Proposal, StopAt
  <2>3. CASE e.answer = "continue"
    BY <2>1, <2>3, AdvanceProper DEF conversationControlProposal
  <2>4. CASE e.answer \notin {"finish", "continue"}
    <3>1. p = Proposal(FALSE, Ask(defaultQuestionFor(e.objective)))
      BY <2>1, <2>4 DEF conversationControlProposal
    <3> QED BY <3>1, AskProper
  <2> QED BY <2>2, <2>3, <2>4
<1>2. CASE e.answer \notin Controls /\ mode = "deterministic"
  <2>1. p = deterministicProposal(s, e) /\ ~ e.deeper
    BY <1>2 DEF Proposals, Controls, Spoken
  <2>2. CASE p = Advance(s, e.objective)
    BY <2>1, <2>2, AdvanceProper
  <2>3. CASE p = Proposal(FALSE, Ask(defaultQuestionFor(e.objective)))
    BY <2>3, AskProper
  <2> QED BY <2>1, <2>2, <2>3 DEF deterministicProposal
<1>3. CASE e.answer \notin Controls /\ mode # "deterministic"
  <2>1. p \in modelProposals(s) /\ ~ e.deeper
    BY <1>3 DEF Proposals, Controls, Spoken
  <2>2. /\ p.answered \in BOOLEAN
        /\ p.next \in {Ask(defaultQuestionFor(o)) : o \in Objectives}
                      \union {StopAt(terminal) : terminal \in Concluding \union Early}
        /\ p.updates \in Updates(s) \/ p.updates = <<>>
    BY <2>1 DEF modelProposals
  <2>3. ASSUME NEW id \in DOMAIN p.updates
        PROVE  p.updates[id] \in [evidence : SUBSET (1..(n + 1)), live : BOOLEAN]
    <3>1. p.updates \in Updates(s)
      BY <2>2, <2>3, NoUpdates
    <3>2. PICK ids \in SUBSET Catalog : p.updates \in [ids -> Candidate(1..(n + 1))]
      BY <3>1 DEF Updates
    <3>3. p.updates[id] \in Candidate(1..(n + 1))
      BY <2>3, <3>2
    <3> QED BY <3>3 DEF Candidate
  <2>4. \/ p.next.kind = "question" /\ p.next.question \in QuestionRecord
        \/ p.next.kind = "stop" /\ p.next.terminal \in Concluding \cup Early
    <3>1. CASE \E o \in Objectives : p.next = Ask(defaultQuestionFor(o))
      BY <3>1 DEF Ask, defaultQuestionFor, Question, QuestionRecord
    <3>2. CASE \E terminal \in Concluding \cup Early : p.next = StopAt(terminal)
      BY <3>2 DEF StopAt
    <3> QED BY <2>2, <3>1, <3>2
  <2> QED BY <2>1, <2>2, <2>3, <2>4 DEF Proper
<1> QED BY <1>1, <1>2, <1>3

------------------------------------------------------------------------------
(* Accepting the turn                                                      *)

\* A correction retracts the turn and all later objectives: what is still
\* answered lies before it, and so do the turns it rests on.
LEMMA RetractRests ==
  ASSUME NEW s, Rests(s), NEW t, NEW o \in Objectives,
         t \in Turns(s) => o = s.turns[t].objective
  PROVE  LET r == retractTurn(s, t, o)
         IN  Rests(r) /\ r.turns = s.turns
<1> DEFINE Before(x) == Index(x) < Index(o)
           invalidated == {u \in Turns(s) : u = t \/ Index(s.turns[u].objective) > Index(o)}
<1> PICK r : r = retractTurn(s, t, o)
  OBVIOUS
<1>0. /\ s \in CaseRecord /\ s.turns \in Seq(TurnRecord) /\ s.answered \subseteq Objectives
      /\ s.retracted \subseteq Turns(s)
      /\ \A u \in Turns(s) : u \in Nat /\ s.turns[u].objective \in Objectives
  <2>1. s \in CaseRecord /\ s.retracted \subseteq Turns(s)
    BY DEF Rests
  <2>2. s.turns \in Seq(TurnRecord) /\ s.answered \subseteq Objectives
    BY <2>1 DEF CaseRecord
  <2>3. ASSUME NEW u \in Turns(s) PROVE u \in Nat /\ s.turns[u].objective \in Objectives
    <3>1. s.turns[u] \in TurnRecord
      BY <2>2 DEF Turns
    <3>2. u \in Nat
      BY <2>2 DEF Turns
    <3> QED BY <3>1, <3>2 DEF TurnRecord
  <2> QED BY <2>1, <2>2, <2>3
<1>1. /\ r.turns = s.turns
      /\ r.retracted = s.retracted \cup invalidated
      /\ r.answered = {x \in s.answered : Before(x)}
      /\ r.attempts = [x \in Objectives |-> IF Before(x) THEN s.attempts[x] ELSE 0]
      /\ r.candidates = Uncited(s.candidates, invalidated)
      /\ r.extended = FALSE /\ r.question = s.question /\ r.terminal = s.terminal
      /\ r = [turns |-> r.turns, retracted |-> r.retracted, answered |-> r.answered,
              attempts |-> r.attempts, candidates |-> r.candidates, extended |-> r.extended,
              question |-> r.question, terminal |-> r.terminal]
  BY <1>0 DEF retractTurn, CaseRecord
<1>c. ASSUME NEW id \in Catalog
      PROVE  /\ r.candidates[id] \in CandidateRecord
             /\ r.candidates[id].evidence \subseteq s.candidates[id].evidence
  <2>1. s.candidates[id] \in CandidateRecord
    BY <1>0 DEF CaseRecord
  <2>2. \/ r.candidates[id] = NoCandidate
        \/ r.candidates[id] = [s.candidates[id] EXCEPT !.evidence = @ \ invalidated]
    BY <1>1 DEF Uncited
  <2>3. CASE r.candidates[id] = NoCandidate
    BY <2>3 DEF CandidateRecord, NoCandidate
  <2>4. CASE r.candidates[id] = [s.candidates[id] EXCEPT !.evidence = @ \ invalidated]
    <3>1. PICK gone : gone = invalidated
      OBVIOUS
    <3>2. r.candidates[id] = [s.candidates[id] EXCEPT !.evidence = @ \ gone]
      BY <2>4, <3>1
    <3> QED BY <2>1, <3>2 DEF CandidateRecord
  <2> QED BY <2>2, <2>3, <2>4
<1>2. r.attempts \in [Objectives -> Nat] /\ r.candidates \in [Catalog -> CandidateRecord]
  <2>1. r.attempts \in [Objectives -> Nat]
    BY <1>0, <1>1 DEF CaseRecord
  <2>2. r.candidates = [id \in Catalog |-> r.candidates[id]]
    BY <1>1 DEF Uncited
  <2> QED BY <1>c, <2>1, <2>2
<1>3. r.retracted \subseteq Turns(r) /\ r.retracted \subseteq Nat
  BY <1>0, <1>1 DEF Turns
<1>4. r \in CaseRecord
  BY <1>0, <1>1, <1>2, <1>3 DEF CaseRecord
<1>5. \A id \in Catalog : r.candidates[id].evidence \subseteq Turns(r)
  <2>1. \A id \in Catalog : s.candidates[id].evidence \subseteq Turns(s)
    BY DEF Rests
  <2> QED BY <1>1, <1>c, <2>1 DEF Turns
<1>6. ASSUME NEW x \in r.answered
      PROVE  \E u \in RestingTurns(r) : r.turns[u].objective = x
  <2>1. x \in s.answered /\ Index(x) < Index(o)
    BY <1>1
  <2>2. PICK u \in RestingTurns(s) : s.turns[u].objective = x
    BY <2>1 DEF Rests
  <2>3. Index(x) \in Nat /\ Index(o) \in Nat
    <3>1. x \in Objectives /\ o \in Objectives
      BY <1>0, <2>1
    <3>2. Index(x) \in 1..Len(ObjectiveOrder) /\ Index(o) \in 1..Len(ObjectiveOrder)
      BY <3>1, ObjectiveHasPlace
    <3> QED BY <3>2, ObjectivesAreNamed
  <2>4. u \in Turns(s) /\ u \notin s.retracted /\ (s.turns[u].control => s.turns[u].both)
    BY <2>2 DEF RestingTurns
  <2>5. u \notin invalidated
    <3>1. u # t
      BY <2>1, <2>2, <2>3, <2>4
    <3>2. ~ (Index(s.turns[u].objective) > Index(o))
      BY <2>1, <2>2, <2>3
    <3> QED BY <3>1, <3>2
  <2>6. u \in RestingTurns(r)
    BY <1>1, <2>4, <2>5 DEF RestingTurns, Turns
  <2> QED BY <1>1, <2>2, <2>6
<1> QED BY <1>1, <1>3, <1>4, <1>5, <1>6 DEF Rests

\* An answer to an objective, and to that of the turn of the case it corrects.
AnswersCase(s, e) ==
  /\ e.objective \in Objectives /\ Spoken(e)
  /\ \/ e.correctionOf = {}
     \/ \E t : e.correctionOf = {t} /\ (t \in Turns(s) => e.objective = s.turns[t].objective)

\* Two cases that differ in nothing the budgets and the turns look at.
SameTurns(x, a) == x.turns = a.turns /\ x.retracted = a.retracted /\ x.extended = a.extended

\* Cases with the same turns have the same budgets.
LEMMA SameActive ==
  ASSUME NEW x, NEW a, SameTurns(x, a)
  PROVE  /\ Turns(x) = Turns(a) /\ ActiveTurns(x) = ActiveTurns(a) /\ prompts(x) = prompts(a)
         /\ RestingTurns(x) = RestingTurns(a)
         /\ budgetSpent(x) = budgetSpent(a) /\ pauseDue(x) = pauseDue(a)
  BY DEF SameTurns, Turns, ActiveTurns, RestingTurns, prompts, budgetSpent, pauseDue

\* The turn that is accepted stands, and what it answers rests on it.
LEMMA AcceptRests ==
  ASSUME NEW s, Rests(s), NEW e, AnswersCase(s, e), NEW p, Proper(p, Len(s.turns), e)
  PROVE  LET a == acceptTurn(s, e, p)
         IN  /\ Rests(a) /\ Len(a.turns) = Len(s.turns) + 1
             /\ e.deeper => a.extended
             /\ ~ e.deeper =>
                  \E t \in ActiveTurns(a) : a.turns[t].objective = e.objective
<1>c. PICK c : c = (IF e.correctionOf = {} THEN s
                    ELSE retractTurn(s, CHOOSE t \in e.correctionOf : TRUE, e.objective))
  OBVIOUS
<1>a. PICK a : a = acceptTurn(s, e, p)
  OBVIOUS
<1>1. Rests(c) /\ c.turns = s.turns
  <2>1. CASE e.correctionOf = {}
    BY <1>c, <2>1
  <2>2. CASE \E t : e.correctionOf = {t} /\ (t \in Turns(s) => e.objective = s.turns[t].objective)
    <3>1. PICK t : e.correctionOf = {t} /\ (t \in Turns(s) => e.objective = s.turns[t].objective)
      BY <2>2
    <3>2. (CHOOSE u \in e.correctionOf : TRUE) = t
      BY <3>1
    <3>3. c = retractTurn(s, t, e.objective)
      BY <1>c, <3>1, <3>2
    <3> QED BY <3>1, <3>3, RetractRests DEF AnswersCase
  <2> QED BY <2>1, <2>2 DEF AnswersCase
<1>n. PICK n \in Nat : n = Len(s.turns)
  BY <1>1 DEF Rests, CaseRecord
<1>2. /\ c \in CaseRecord /\ c.turns \in Seq(TurnRecord) /\ Len(c.turns) = n
      /\ e.objective \in Objectives /\ e.deeper \in BOOLEAN
  BY <1>1, <1>n DEF Rests, CaseRecord, AnswersCase, Spoken
<1>r. PICK r : r = [objective |-> e.objective, control |-> e.deeper,
                    both |-> e.deeper /\ e.answer = "continue"]
  OBVIOUS
<1>3. /\ a.turns = Append(c.turns, r)
      /\ a.retracted = c.retracted
      /\ a.answered = c.answered \cup (IF p.answered THEN {e.objective} ELSE {})
      /\ a.attempts = [c.attempts EXCEPT ![e.objective] = @ + (IF e.deeper THEN 0 ELSE 1)]
      /\ a.candidates = c.candidates /\ a.extended = (c.extended \/ e.deeper)
      /\ a.question = c.question /\ a.terminal = c.terminal
      /\ a = [turns |-> a.turns, retracted |-> a.retracted, answered |-> a.answered,
              attempts |-> a.attempts, candidates |-> a.candidates, extended |-> a.extended,
              question |-> a.question, terminal |-> a.terminal]
  BY <1>2, <1>a, <1>c, <1>r DEF acceptTurn, CaseRecord
<1>5. /\ r \in TurnRecord /\ r.objective = e.objective /\ r.control = e.deeper
      /\ r.both <=> e.deeper /\ e.answer = "continue"
  <2>1. (e.deeper /\ e.answer = "continue") \in BOOLEAN
    BY Zenon
  <2> QED BY <1>2, <1>r, <2>1 DEF TurnRecord
<1>6. /\ a.turns \in Seq(TurnRecord) /\ Len(a.turns) = n + 1 /\ a.turns[n + 1] = r
      /\ \A u \in 1..n : a.turns[u] = c.turns[u]
  BY <1>2, <1>3, <1>5
<1>7. Turns(c) = 1..n /\ Turns(a) = 1..(n + 1) /\ Turns(c) \subseteq Turns(a)
  BY <1>2, <1>6 DEF Turns
<1>8. a \in CaseRecord
  <2>1. a.attempts \in [Objectives -> Nat]
    <3>1. c.attempts \in [Objectives -> Nat]
      BY <1>2 DEF CaseRecord
    <3>2. (IF e.deeper THEN 0 ELSE 1) \in Nat
      OBVIOUS
    <3>3. c.attempts[e.objective] + (IF e.deeper THEN 0 ELSE 1) \in Nat
      BY <1>2, <3>1, <3>2
    <3> QED BY <1>3, <3>1, <3>3
  <2>2. a.extended \in BOOLEAN
    BY <1>2, <1>3, Zenon DEF CaseRecord
  <2>3. a.answered \subseteq Objectives
    BY <1>2, <1>3 DEF CaseRecord
  <2> QED BY <1>2, <1>3, <1>6, <2>1, <2>2, <2>3 DEF CaseRecord
<1>9. a.retracted \subseteq 1..n
  BY <1>1, <1>3, <1>7 DEF Rests
<1>10. RestingTurns(c) \subseteq RestingTurns(a)
  BY <1>3, <1>6, <1>7 DEF RestingTurns
<1>11. /\ ~ e.deeper => n + 1 \in ActiveTurns(a)
       /\ ~ e.deeper \/ e.answer = "continue" => n + 1 \in RestingTurns(a)
  <2>1. n + 1 \in Turns(a) /\ n + 1 \notin a.retracted
    BY <1>7, <1>9
  <2> QED BY <1>5, <1>6, <2>1 DEF ActiveTurns, RestingTurns
<1>12. ASSUME NEW o \in a.answered
       PROVE  \E t \in RestingTurns(a) : a.turns[t].objective = o
  <2>1. CASE o \in c.answered
    <3>1. PICK t \in RestingTurns(c) : c.turns[t].objective = o
      BY <1>1, <2>1 DEF Rests
    <3>2. t \in 1..n
      BY <1>7, <3>1 DEF RestingTurns
    <3> QED BY <1>6, <1>10, <3>1, <3>2
  <2>2. CASE o \notin c.answered
    <3>1. p.answered /\ o = e.objective
      BY <1>3, <2>2
    <3>2. ~ e.deeper \/ e.answer = "continue"
      BY <3>1 DEF Proper
    <3> QED BY <1>5, <1>6, <1>11, <3>1, <3>2
  <2> QED BY <2>1, <2>2
<1>13. Rests(a)
  <2>1. \A id \in Catalog : a.candidates[id].evidence \subseteq Turns(a)
    BY <1>1, <1>3, <1>7 DEF Rests
  <2>2. a.retracted \subseteq Turns(a)
    BY <1>7, <1>9
  <2> QED BY <1>8, <1>12, <2>1, <2>2 DEF Rests
<1>14. e.deeper => a.extended
  BY <1>3
<1>15. Len(a.turns) = Len(s.turns) + 1
  BY <1>6, <1>n
<1>16. ~ e.deeper => \E t \in ActiveTurns(a) : a.turns[t].objective = e.objective
  BY <1>5, <1>6, <1>11
<1> QED BY <1>13, <1>14, <1>15, <1>16, <1>a

\* What a proposal says of the reasons cites turns of the case.
LEMMA MergeRests ==
  ASSUME NEW a, Rests(a), NEW n \in Nat, Len(a.turns) = n + 1, NEW updates,
         \A id \in DOMAIN updates : updates[id] \in [evidence : SUBSET (1..(n + 1)), live : BOOLEAN]
  PROVE  LET m == [a EXCEPT !.candidates = mergeCandidates(a, updates)]
         IN  Rests(m) /\ SameTurns(m, a) /\ m.answered = a.answered
<1> PICK f : f = mergeCandidates(a, updates)
  OBVIOUS
<1> PICK m : m = [a EXCEPT !.candidates = f]
  OBVIOUS
<1>0. a \in CaseRecord /\ Turns(a) = 1..(n + 1)
  BY DEF Rests, Turns
<1>1. ASSUME NEW id \in Catalog
      PROVE  f[id] \in CandidateRecord /\ f[id].evidence \subseteq 1..(n + 1)
  <2>1. CASE id \in DOMAIN updates
    <3>1. f[id] = updates[id]
      BY <2>1 DEF mergeCandidates
    <3>2. f[id] \in [evidence : SUBSET (1..(n + 1)), live : BOOLEAN]
      BY <2>1, <3>1
    <3> QED BY <3>2 DEF CandidateRecord
  <2>2. CASE id \notin DOMAIN updates
    <3>1. f[id] = a.candidates[id]
      BY <2>2 DEF mergeCandidates
    <3> QED BY <1>0, <3>1 DEF Rests, CaseRecord
  <2> QED BY <2>1, <2>2
<1>2. f \in [Catalog -> CandidateRecord]
  <2>1. f = [id \in Catalog |-> f[id]]
    BY DEF mergeCandidates
  <2> QED BY <1>1, <2>1
<1>3. /\ m.turns = a.turns /\ m.retracted = a.retracted /\ m.extended = a.extended
      /\ m.answered = a.answered /\ m.candidates = f /\ m \in CaseRecord
  BY <1>0, <1>2 DEF CaseRecord
<1>4. SameTurns(m, a)
  BY <1>3 DEF SameTurns
<1>5. Turns(m) = Turns(a) /\ RestingTurns(m) = RestingTurns(a)
  BY <1>4, SameActive
<1>6. \A o \in m.answered : \E t \in RestingTurns(m) : m.turns[t].objective = o
  BY <1>3, <1>5 DEF Rests
<1> QED BY <1>0, <1>1, <1>3, <1>4, <1>5, <1>6 DEF Rests

------------------------------------------------------------------------------
(* The outcomes of the validator                                           *)

\* A case that asks waits for an answer, with its budgets as they were.
LEMMA AskingKeeps ==
  ASSUME NEW x, Rests(x), NEW q \in QuestionRecord
  PROVE  LET y == Asking(x, q)
         IN  Rests(y) /\ Settled(y) /\ Owned(y) /\ SameTurns(y, x) /\ y.question = q
<1> PICK y : y = Asking(x, q)
  OBVIOUS
<1>0. x \in CaseRecord /\ q \in [objective : Objectives \cup {None}, pauses : BOOLEAN]
  BY DEF Rests, QuestionRecord
<1>1. /\ y.turns = x.turns /\ y.retracted = x.retracted /\ y.extended = x.extended
      /\ y.answered = x.answered /\ y.candidates = x.candidates
      /\ y.question = q /\ y.terminal = None /\ y \in CaseRecord
  BY <1>0 DEF CaseRecord, Asking
<1>2. SameTurns(y, x)
  BY <1>1 DEF SameTurns
<1>3. Turns(y) = Turns(x) /\ RestingTurns(y) = RestingTurns(x)
  BY <1>2, SameActive
<1>4. Rests(y)
  BY <1>1, <1>3 DEF Rests
<1>5. Settled(y) /\ Owned(y)
  BY <1>1, TerminalsNamed DEF Settled, Owned, QuestionRecord
<1> QED BY <1>1, <1>2, <1>4, <1>5

\* A case that ends waits for nothing, and only a conclusion claims objectives.
LEMMA EndedKeeps ==
  ASSUME NEW x, Rests(x), NEW terminal \in Concluding \cup Early
  PROVE  LET y == Ended(x, terminal)
         IN  /\ Rests(y) /\ Settled(y) /\ ~ Waiting(y)
             /\ (terminal \in Concluding \ {"needs_evidence"} => Required \subseteq x.answered) => Owned(y)
<1> PICK y : y = Ended(x, terminal)
  OBVIOUS
<1>0. x \in CaseRecord
  BY DEF Rests
<1>1. /\ y.turns = x.turns /\ y.retracted = x.retracted /\ y.extended = x.extended
      /\ y.answered = x.answered /\ y.candidates = x.candidates
      /\ y.question = NoQuestion /\ y.terminal = terminal /\ y \in CaseRecord
  BY <1>0 DEF CaseRecord, Ended, NoQuestion, Question
<1>2. SameTurns(y, x)
  BY <1>1 DEF SameTurns
<1>3. Turns(y) = Turns(x) /\ RestingTurns(y) = RestingTurns(x)
  BY <1>2, SameActive
<1>4. Rests(y)
  BY <1>1, <1>3 DEF Rests
<1>5. Settled(y) /\ ~ Waiting(y)
  BY <1>1, ObjectivesAreNamed, TerminalsNamed DEF Settled, Waiting, NoQuestion, Question
<1>6. ASSUME terminal \in Concluding \ {"needs_evidence"} => Required \subseteq x.answered
      PROVE  Owned(y)
  BY <1>1, <1>3, <1>6 DEF Owned, Rests
<1> QED BY <1>4, <1>5, <1>6

\* The validator's own way on: the next open objective, or an end without a
\* conclusion.
LEMMA AskNextKeeps ==
  ASSUME NEW x, Rests(x)
  PROVE  Rests(AskNext(x)) /\ Settled(AskNext(x)) /\ Owned(AskNext(x))
<1> PICK o : o = nextUnansweredObjective(x)
  OBVIOUS
<1>1. CASE o = None
  <2>1. AskNext(x) = Ended(x, "needs_evidence")
    BY <1>1 DEF AskNext
  <2>2. "needs_evidence" \in Concluding \cup Early
    BY TerminalsNamed
  <2> QED BY <2>1, <2>2, EndedKeeps
<1>2. CASE o # None
  <2>1. AskNext(x) = Asking(x, defaultQuestionFor(o))
    BY <1>2 DEF AskNext
  <2>2. defaultQuestionFor(o) \in QuestionRecord
    BY <1>2, NextIsOpen DEF defaultQuestionFor, Question, QuestionRecord
  <2> QED BY <2>1, <2>2, AskingKeeps
<1> QED BY <1>1, <1>2

\* An objective that was asked about often enough counts as answered: the turn
\* that was accepted stands.
LEMMA ExhaustedRests ==
  ASSUME NEW x, Rests(x), NEW o \in Objectives, \E t \in RestingTurns(x) : x.turns[t].objective = o
  PROVE  Rests([x EXCEPT !.answered = @ \union {o}])
<1> PICK y : y = [x EXCEPT !.answered = @ \union {o}]
  OBVIOUS
<1>1. /\ y.turns = x.turns /\ y.retracted = x.retracted /\ y.extended = x.extended
      /\ y.answered = x.answered \cup {o} /\ y.candidates = x.candidates /\ y \in CaseRecord
  BY DEF CaseRecord, Rests
<1>2. Turns(y) = Turns(x) /\ RestingTurns(y) = RestingTurns(x)
  BY <1>1, SameActive DEF SameTurns
<1> QED BY <1>1, <1>2 DEF Rests

\* What is to be shown of a result of the validator.
Good(r) ==
  /\ Rests(r.state) /\ Settled(r.state) /\ Owned(r.state)
  /\ Budgeted(r.state, r.warned) /\ r.warned \in BOOLEAN

\* The validator returns a case that rests on its turns, whatever is proposed.
LEMMA ValidatorKeeps ==
  ASSUME NEW s, Rests(s), NEW e, AnswersCase(s, e), NEW p, Proper(p, Len(s.turns), e)
  PROVE  Good(validateAndApplyProposal(s, e, p))
<1>a. PICK a : a = acceptTurn(s, e, p)
  OBVIOUS
<1>m. PICK m : m = [a EXCEPT !.candidates = mergeCandidates(a, p.updates)]
  OBVIOUS
<1>f. PICK refused \in BOOLEAN : refused <=> contentRefused(s, e, p)
  <2> QED BY Zenon
<1>g. refused = contentRefused(s, e, p)
  BY <1>f, Zenon DEF contentRefused
<1>k. PICK k : k = (IF refused THEN a ELSE m)
  OBVIOUS
<1> DEFINE asks == p.next.kind = "question"
           asked == p.next.question
           exhausted == asked.objective = e.objective /\ a.attempts[e.objective] >= MaxAttempts
           outOfOrder == IF asks THEN ~ questionInOrder(a, e, p)
                         ELSE ~ validateTerminal(a, p.next.terminal)
           Result(state, warned) == [state |-> state, warned |-> warned]
<1>r. PICK r : r = validateAndApplyProposal(s, e, p)
  OBVIOUS
<1> SUFFICES Good(r)
  BY <1>r
<1>1. /\ Rests(a) /\ Len(a.turns) = Len(s.turns) + 1
      /\ e.deeper => a.extended
      /\ ~ e.deeper => \E t \in ActiveTurns(a) : a.turns[t].objective = e.objective
  BY <1>a, AcceptRests
<1>2. Len(s.turns) \in Nat
  BY DEF Rests, CaseRecord
<1>3. Rests(m) /\ SameTurns(m, a) /\ m.answered = a.answered
  BY <1>1, <1>2, <1>m, MergeRests DEF Proper
<1>4. Rests(k) /\ SameTurns(k, a)
  BY <1>1, <1>3, <1>k DEF SameTurns
<1>5. /\ asks => asked \in QuestionRecord
      /\ asked.objective \in Objectives \/ ~ asks
      /\ ~ asks => p.next.terminal \in Concluding \cup Early
  BY DEF Proper, QuestionRecord
<1>6. r = IF asks /\ budgetSpent(a) THEN Result(Ended(k, "needs_evidence"), TRUE)
          ELSE IF asks /\ e.deeper
          THEN Result(Asking(a, defaultQuestionFor(asked.objective)), refused)
          ELSE IF asks /\ pauseDue(a)
          THEN Result(Asking(k, Question(asked.objective, TRUE)), refused)
          ELSE IF asks /\ exhausted
          THEN Result(AskNext([k EXCEPT !.answered = @ \union {e.objective}]), TRUE)
          ELSE IF refused \/ outOfOrder
          THEN Result(AskNext(a), TRUE)
          ELSE Result(IF asks THEN Asking(m, asked) ELSE Ended(m, p.next.terminal), FALSE)
  BY <1>a, <1>g, <1>k, <1>m, <1>r DEF validateAndApplyProposal
<1>7. ASSUME NEW x, Rests(x), Settled(x), Owned(x), r.state = x, r.warned = TRUE
      PROVE  Good(r)
  BY <1>7 DEF Good, Budgeted
<1>8. ASSUME NEW x, Rests(x), SameTurns(x, a), ~ budgetSpent(a),
             NEW q \in QuestionRecord,
             q.pauses \/ a.extended \/ ~ pauseDue(a),
             NEW w \in BOOLEAN, r.state = Asking(x, q), r.warned = w
      PROVE  Good(r)
  <2>1. PICK y : y = Asking(x, q)
    OBVIOUS
  <2>2. Rests(y) /\ Settled(y) /\ Owned(y) /\ SameTurns(y, x) /\ y.question = q
    BY <1>8, <2>1, AskingKeeps
  <2>3. prompts(y) = prompts(a) /\ y.extended = a.extended
    BY <1>8, <2>2, SameActive DEF SameTurns
  <2>4. ~ (prompts(y) >= HardBudget)
    BY <1>8, <2>3 DEF budgetSpent, prompts
  <2>5. Paused(y) \/ y.extended \/ ~ (prompts(y) >= PauseAt)
    BY <1>8, <2>2, <2>3 DEF Paused, pauseDue, prompts
  <2>6. Budgeted(y, w)
    BY <2>4, <2>5, Zenon DEF Budgeted
  <2>7. r.state = y /\ r.warned = w
    BY <1>8, <2>1
  <2> QED BY <1>8, <2>2, <2>6, <2>7, Zenon DEF Good
<1>9. CASE asks /\ budgetSpent(a)
  <2>1. r.state = Ended(k, "needs_evidence") /\ r.warned = TRUE
    BY <1>6, <1>9
  <2>2. "needs_evidence" \in Concluding \cup Early
    BY TerminalsNamed
  <2>3. PICK y : y = Ended(k, "needs_evidence")
    OBVIOUS
  <2>4. Rests(y) /\ Settled(y) /\ Owned(y)
    BY <1>4, <2>2, <2>3, EndedKeeps
  <2> QED BY <1>7, <2>1, <2>3, <2>4, Zenon
<1>10. CASE asks /\ ~ budgetSpent(a) /\ e.deeper
  <2>1. r.state = Asking(a, defaultQuestionFor(asked.objective)) /\ r.warned = refused
    BY <1>6, <1>10
  <2>2. defaultQuestionFor(asked.objective) \in QuestionRecord
    BY <1>5, <1>10 DEF defaultQuestionFor, Question, QuestionRecord
  <2>3. SameTurns(a, a)
    BY DEF SameTurns
  <2> QED BY <1>1, <1>8, <1>10, <2>1, <2>2, <2>3, Zenon
<1>11. CASE asks /\ ~ budgetSpent(a) /\ ~ e.deeper /\ pauseDue(a)
  <2>1. r.state = Asking(k, Question(asked.objective, TRUE)) /\ r.warned = refused
    BY <1>6, <1>11
  <2>2. /\ Question(asked.objective, TRUE) \in QuestionRecord
        /\ Question(asked.objective, TRUE).pauses
    BY <1>5, <1>11 DEF Question, QuestionRecord
  <2> QED BY <1>4, <1>8, <1>11, <2>1, <2>2, Zenon
<1>12. CASE asks /\ ~ budgetSpent(a) /\ ~ e.deeper /\ ~ pauseDue(a) /\ exhausted
  <2>1. r.state = AskNext([k EXCEPT !.answered = @ \union {e.objective}]) /\ r.warned = TRUE
    BY <1>6, <1>12
  <2>2. \E t \in RestingTurns(k) : k.turns[t].objective = e.objective
    <3>1. ActiveTurns(k) \subseteq RestingTurns(k)
      BY DEF ActiveTurns, RestingTurns
    <3> QED BY <1>1, <1>4, <1>12, <3>1, SameActive DEF SameTurns
  <2>3. Rests([k EXCEPT !.answered = @ \union {e.objective}])
    BY <1>4, <2>2, ExhaustedRests DEF AnswersCase
  <2> QED BY <1>7, <2>1, <2>3, AskNextKeeps, Zenon
<1>13. CASE /\ ~ (asks /\ budgetSpent(a)) /\ ~ (asks /\ e.deeper)
            /\ ~ (asks /\ pauseDue(a)) /\ ~ (asks /\ exhausted) /\ (refused \/ outOfOrder)
  <2>1. r.state = AskNext(a) /\ r.warned = TRUE
    BY <1>6, <1>13
  <2> QED BY <1>1, <1>7, <2>1, AskNextKeeps, Zenon
<1>14. CASE /\ ~ (asks /\ budgetSpent(a)) /\ ~ (asks /\ e.deeper)
            /\ ~ (asks /\ pauseDue(a)) /\ ~ (asks /\ exhausted) /\ ~ (refused \/ outOfOrder)
  <2>1. CASE asks
    <3>1. r.state = Asking(m, asked) /\ r.warned = FALSE
      BY <1>6, <1>14, <2>1
    <3> QED BY <1>3, <1>5, <1>8, <1>14, <2>1, <3>1, Zenon
  <2>2. CASE ~ asks
    <3>1. r.state = Ended(m, p.next.terminal) /\ r.warned = FALSE
      BY <1>6, <1>14, <2>2
    <3>2. p.next.terminal \in Concluding \ {"needs_evidence"} => Required \subseteq m.answered
      BY <1>3, <1>14, <2>2, TerminalsNamed DEF validateTerminal
    <3>3. PICK y : y = Ended(m, p.next.terminal)
      OBVIOUS
    <3>4. Rests(y) /\ Settled(y) /\ ~ Waiting(y) /\ Owned(y)
      BY <1>3, <1>5, <2>2, <3>2, <3>3, EndedKeeps
    <3>5. r.state = y /\ r.warned = FALSE
      BY <3>1, <3>3
    <3>6. Budgeted(y, FALSE)
      BY <3>4 DEF Budgeted
    <3> QED BY <3>4, <3>5, <3>6, Zenon DEF Good
  <2> QED BY <2>1, <2>2
<1> QED BY <1>9, <1>10, <1>11, <1>12, <1>13, <1>14

------------------------------------------------------------------------------
(* The steps                                                               *)

\* So does a turn that corrects an earlier one: what it takes back is not
\* missed.
LEMMA ProcessKeeps ==
  ASSUME TurnInv, NEW e, AnswersCase(case, e), Process(e)
  PROVE  TurnInv'
<1>1. PICK p \in Proposals(case, e) :
        LET r == validateAndApplyProposal(case, e, p)
        IN  case' = r.state /\ warnings' = r.warned
  BY DEF Process
<1>2. Rests(case) /\ Len(case.turns) \in Nat
  BY DEF TurnInv, Rests, CaseRecord
<1>3. Proper(p, Len(case.turns), e)
  BY <1>2, ProposalsAreProper DEF AnswersCase
<1>4. Good(validateAndApplyProposal(case, e, p))
  BY <1>2, <1>3, ValidatorKeeps
<1>5. /\ Rests(case') /\ Settled(case') /\ Owned(case') /\ Budgeted(case', warnings')
      /\ warnings' \in BOOLEAN /\ mode' = mode /\ askedBefore' = case.question.objective
  BY <1>1, <1>4 DEF Good, Process
<1> QED BY <1>2, <1>5 DEF TurnInv, Rests, CaseRecord

\* A new case waits for its first objective and has spent nothing.
LEMMA TurnInitially == TurnInit => TurnInv
<1> SUFFICES ASSUME TurnInit PROVE TurnInv
  OBVIOUS
<1>1. /\ case.turns = <<>> /\ case.retracted = {} /\ case.answered = {}
      /\ case.attempts = [o \in Objectives |-> 0] /\ case.candidates = [id \in Catalog |-> NoCandidate]
      /\ case.extended = FALSE /\ case.terminal = None
      /\ case.question = [objective |-> ObjectiveOrder[1], pauses |-> FALSE]
      /\ case = [turns |-> <<>>, retracted |-> {}, answered |-> {},
                 attempts |-> [o \in Objectives |-> 0], candidates |-> [id \in Catalog |-> NoCandidate],
                 extended |-> FALSE,
                 question |-> [objective |-> ObjectiveOrder[1], pauses |-> FALSE], terminal |-> None]
  BY DEF TurnInit, defaultQuestionFor, Question
<1>2. case.question \in [objective : Objectives \cup {None}, pauses : BOOLEAN]
  BY <1>1, ObjectivesAreNamed
<1>n. NoCandidate \in CandidateRecord /\ NoCandidate.evidence = {}
  BY DEF CandidateRecord, NoCandidate
<1>3. case \in CaseRecord
  BY <1>1, <1>2, <1>n DEF CaseRecord
<1>4. Rests(case)
  BY <1>1, <1>3, <1>n DEF Rests
<1>5. Settled(case) /\ Owned(case)
  BY <1>1, ObjectivesAreNamed, TerminalsNamed DEF Settled, Owned
<1>6. prompts(case) = 0
  <2>1. ActiveTurns(case) = {}
    BY <1>1 DEF ActiveTurns, Turns
  <2> QED BY <2>1, FS_EmptySet DEF prompts
<1>7. Budgeted(case, warnings)
  <2>1. ~ (prompts(case) >= HardBudget)
    BY <1>6, BudgetsGrow
  <2>2. ~ (prompts(case) >= PauseAt)
    BY <1>6, BudgetsGrow
  <2> QED BY <2>1, <2>2, Zenon DEF Budgeted
<1>8. askedBefore \in Objectives \cup {None}
  <2>1. askedBefore = case.question.objective
    BY DEF TurnInit
  <2> QED BY <1>2, <2>1
<1> QED BY <1>4, <1>5, <1>7, <1>8 DEF TurnInv, TurnInit

\* No turn breaks the invariant.
LEMMA TurnStep == TurnInv /\ [TurnNext]_turnVars => TurnInv'
<1> SUFFICES ASSUME TurnInv, [TurnNext]_turnVars PROVE TurnInv'
  OBVIOUS
<1>0. Rests(case) /\ Settled(case) /\ case \in CaseRecord
  BY DEF TurnInv, Rests
<1>a. ASSUME NEW o, NEW given \in Given, NEW c PROVE Spoken(Envelope(o, given, c))
  <2>1. CASE given \in [answer : Typed, deeper : {FALSE}]
    BY <2>1 DEF Spoken, Envelope
  <2>2. CASE given \in Ticks
    <3>1. PICK ticked : given = [answer |-> Said(ticked), deeper |-> "deeper" \in ticked]
      BY <2>2 DEF Ticks
    <3>2. /\ given.deeper = ("deeper" \in ticked) /\ given.answer = Said(ticked)
          /\ ("deeper" \in ticked) \in BOOLEAN
      BY <3>1
    <3>3. given.deeper \in BOOLEAN /\ (given.deeper <=> "deeper" \in ticked)
      BY <3>2
    <3>4. "deeper" \in ticked => Said(ticked) \in {"finish", "correct", "continue", "deeper"}
      BY DEF Said
    <3> QED BY <3>2, <3>3, <3>4 DEF Spoken, Envelope
  <2> QED BY <1>a, <2>1, <2>2 DEF Given
<1>1. CASE AnswerQuestion
  <2>1. PICK o \in Expected(case.question.objective) \union Expected(askedBefore), given \in Given :
          Process(Envelope(o, given, {}))
    BY <1>1 DEF AnswerQuestion
  <2>2. o \in Objectives
    BY <1>0, <2>1 DEF Expected, CaseRecord, TurnInv
  <2>3. AnswersCase(case, Envelope(o, given, {}))
    BY <1>a, <2>2 DEF AnswersCase, Envelope
  <2> QED BY <2>1, <2>3, ProcessKeeps
<1>2. CASE CorrectTurn
  <2>1. PICK t \in Turns(case) \union {Unapplied}, o \in Objectives, given \in Given :
          /\ t \in Turns(case) => o = case.turns[t].objective
          /\ Process(Envelope(o, given, {t}))
    BY <1>2 DEF CorrectTurn
  <2>2. AnswersCase(case, Envelope(o, given, {t}))
    BY <1>a, <2>1 DEF AnswersCase, Envelope
  <2> QED BY <2>1, <2>2, ProcessKeeps
<1>3. CASE UNCHANGED turnVars
  BY <1>3 DEF turnVars, TurnInv
<1> QED BY <1>1, <1>2, <1>3 DEF TurnNext

\* The inductive invariant holds in every state, for either reasoner, any
\* order of objectives and any budgets.
THEOREM TurnInvariant == TurnSpec => []TurnInv
  BY TurnInitially, TurnStep, PTL DEF TurnSpec

\* What a case that keeps the invariant shows.
LEMMA TurnInvImplies == TurnInv => TurnsRest
<1> SUFFICES ASSUME TurnInv PROVE TurnsRest
  OBVIOUS
<1>0. /\ Rests(case) /\ Settled(case) /\ Owned(case) /\ Budgeted(case, warnings)
      /\ case \in CaseRecord /\ mode \in Modes /\ warnings \in BOOLEAN
      /\ askedBefore \in Objectives \cup {None}
  BY DEF TurnInv, Rests
<1>1. case.candidates \in [Catalog -> [evidence : SUBSET Turns(case), live : BOOLEAN]]
  <2>1. case.candidates \in [Catalog -> CandidateRecord]
    BY <1>0 DEF CaseRecord
  <2>2. ASSUME NEW id \in Catalog
        PROVE  case.candidates[id] \in [evidence : SUBSET Turns(case), live : BOOLEAN]
    <3>1. case.candidates[id] \in CandidateRecord
      BY <2>1
    <3>2. case.candidates[id].evidence \subseteq Turns(case)
      BY <1>0 DEF Rests
    <3> QED BY <3>1, <3>2 DEF CandidateRecord
  <2> QED BY <2>1, <2>2
<1>2. (case.question = NoQuestion) <=> (case.terminal # None)
  BY <1>0, ObjectivesAreNamed DEF Settled, NoQuestion, Question
<1>3. TurnTypeOK
  <2>1. case.retracted \subseteq Turns(case)
    BY <1>0 DEF Rests
  <2> QED BY <1>0, <1>1, <1>2, <2>1 DEF TurnTypeOK, CaseRecord, TurnRecord
<1>4. PromptBudget /\ AsksPermission
  BY <1>0 DEF Budgeted, PromptBudget, AsksPermission
<1>5. AnsweredRests /\ ConclusionOwned
  BY <1>0 DEF Rests, Owned, AnsweredRests, ConclusionOwned
<1> QED BY <1>3, <1>4, <1>5 DEF TurnsRest

\* With either reasoner, through any answers and corrections: the case keeps to
\* its budgets, and what it counts as answered or concludes rests on turns that
\* stand (validator.ts, objective-policy.ts).
THEOREM TurnsRestAlways == TurnSpec => []TurnsRest
  BY TurnInvariant, TurnInvImplies, PTL

(***************************************************************************)
(* The case in the browser.                                                *)
(***************************************************************************)
------------------------------------------------------------------------------
(* The log of a case                                                       *)

\* What may be appended to a log of n events.
OkEvent(e, n) ==
  \/ \E q \in Asked : \E a \in Answers[q] : e = Answer(q, a)
  \/ \E q \in Asked : \E a \in Answers[q] : \E t \in 1..n : e = Correction(q, a, t)
  \/ \E s \in Signals : \E cited \in SUBSET (1..n) : e = Signal(s, cited)

\* The active answers to a question; each question has one at most.
ActiveOf(es, q) == {i \in activeAnswerEvents(es) : es[i].question = q}
OneEach(es) == \A i, j \in activeAnswerEvents(es) : es[i].question = es[j].question => i = j

\* A log of events that could be appended one by one.
LogOK(es) ==
  /\ es \in Seq(EventType)
  /\ \A i \in DOMAIN es : OkEvent(es[i], i - 1)
  /\ OneEach(es)

\* The inductive invariant.
CaseInv == LogOK(events) /\ detours \in 0..MaxDetours

\* What an event may name: earlier events, and answers of its question.
LEMMA EventsTyped ==
  ASSUME NEW n \in Nat, NEW e, OkEvent(e, n)
  PROVE  /\ e \in EventType
         /\ e.kind = "answer_corrected" => e.corrects \in 1..n
         /\ e.kind = "case_signal" => e.cited \subseteq 1..n /\ ~ IsAnswer(e)
         /\ IsAnswer(e) => e.question \in Asked /\ e.answer \in Answers[e.question]
<1>1. CASE \E q \in Asked : \E a \in Answers[q] : e = Answer(q, a)
  <2>1. PICK q \in Asked : \E a \in Answers[q] : e = Answer(q, a)
    BY <1>1
  <2>2. PICK a \in Answers[q] : e = Answer(q, a)
    BY <2>1
  <2>3. a \in UNION {Answers[x] : x \in Asked}
    OBVIOUS
  <2> QED BY <2>2, <2>3 DEF Answer, EventType, IsAnswer, AnswerKinds
<1>2. CASE \E q \in Asked : \E a \in Answers[q] : \E t \in 1..n : e = Correction(q, a, t)
  <2>1. PICK q \in Asked : \E a \in Answers[q] : \E t \in 1..n : e = Correction(q, a, t)
    BY <1>2
  <2>2. PICK a \in Answers[q], t \in 1..n : e = Correction(q, a, t)
    BY <2>1
  <2>3. a \in UNION {Answers[x] : x \in Asked}
    OBVIOUS
  <2> QED BY <2>2, <2>3 DEF Correction, EventType, IsAnswer, AnswerKinds
<1>3. CASE \E s \in Signals : \E cited \in SUBSET (1..n) : e = Signal(s, cited)
  BY <1>3 DEF Signal, EventType, IsAnswer, AnswerKinds
<1> QED BY <1>1, <1>2, <1>3 DEF OkEvent

\* What an event takes back.
TakenBack(e) == IF e.kind = "answer_corrected" THEN {e.corrects} ELSE {}

\* An event that is appended takes back at most the answer it corrects, and is
\* active itself when it is an answer.
LEMMA ActiveAfter ==
  ASSUME NEW es, LogOK(es), NEW e, OkEvent(e, Len(es))
  PROVE  LET fs == Append(es, e)
         IN  /\ fs \in Seq(EventType) /\ Len(fs) = Len(es) + 1 /\ Len(es) \in Nat
             /\ DOMAIN es = 1..Len(es) /\ DOMAIN fs = 1..(Len(es) + 1)
             /\ \A i \in DOMAIN es : fs[i] = es[i]
             /\ fs[Len(es) + 1] = e
             /\ \A i \in DOMAIN fs : OkEvent(fs[i], i - 1)
             /\ activeAnswerEvents(es) \subseteq 1..Len(es)
             /\ activeAnswerEvents(fs) = (activeAnswerEvents(es) \ TakenBack(e))
                                         \cup (IF IsAnswer(e) THEN {Len(es) + 1} ELSE {})
<1>n. PICK n \in Nat : n = Len(es)
  BY DEF LogOK
<1>f. PICK fs : fs = Append(es, e)
  OBVIOUS
<1>1. e \in EventType /\ (e.kind = "answer_corrected" => e.corrects \in 1..n)
  BY <1>n, EventsTyped
<1>2. /\ fs \in Seq(EventType) /\ Len(fs) = n + 1 /\ DOMAIN fs = 1..(n + 1) /\ DOMAIN es = 1..n
      /\ \A i \in 1..n : fs[i] = es[i]
      /\ fs[n + 1] = e
  BY <1>1, <1>f, <1>n DEF LogOK
<1>3. \A i \in 1..n : OkEvent(es[i], i - 1) /\ i - 1 \in Nat
  BY <1>2 DEF LogOK
<1>4. \A i \in 1..(n + 1) : OkEvent(fs[i], i - 1)
  <2>1. ASSUME NEW i \in 1..(n + 1) PROVE OkEvent(fs[i], i - 1)
    <3>1. CASE i \in 1..n
      BY <1>2, <1>3, <3>1
    <3>2. CASE i = n + 1
      <4>1. i - 1 = n
        BY <3>2
      <4> QED BY <1>2, <1>n, <3>2, <4>1
    <3> QED BY <3>1, <3>2
  <2> QED BY <2>1
<1>5. \A i \in 1..n : es[i].kind = "answer_corrected" => es[i].corrects \in 1..n
  <2>1. ASSUME NEW i \in 1..n, es[i].kind = "answer_corrected" PROVE es[i].corrects \in 1..n
    <3>1. es[i].corrects \in 1..(i - 1)
      BY <1>3, <2>1, EventsTyped
    <3> QED BY <3>1
  <2> QED BY <2>1
<1>6. Corrected(fs) = Corrected(es) \cup TakenBack(e)
  <2>1. ASSUME NEW x PROVE x \in Corrected(fs) <=> x \in Corrected(es) \/ x \in TakenBack(e)
    <3>1. x \in Corrected(fs) <=> \E j \in 1..(n + 1) : fs[j].kind = "answer_corrected" /\ fs[j].corrects = x
      BY <1>2 DEF Corrected
    <3>2. x \in Corrected(es) <=> \E j \in 1..n : es[j].kind = "answer_corrected" /\ es[j].corrects = x
      BY <1>2 DEF Corrected
    <3>3. x \in TakenBack(e) <=> e.kind = "answer_corrected" /\ e.corrects = x
      BY DEF TakenBack
    <3>4. \A j : j \in 1..(n + 1) <=> j \in 1..n \/ j = n + 1
      OBVIOUS
    <3> QED BY <1>2, <3>1, <3>2, <3>3, <3>4
  <2> QED BY <2>1
<1>7. n + 1 \notin Corrected(fs)
  <2>1. \A x \in Corrected(es) : x \in 1..n
    BY <1>2, <1>5 DEF Corrected
  <2>2. \A x \in TakenBack(e) : x \in 1..n
    BY <1>1 DEF TakenBack
  <2>3. n + 1 \notin 1..n
    OBVIOUS
  <2> QED BY <1>6, <2>1, <2>2, <2>3
<1>8. activeAnswerEvents(fs) = (activeAnswerEvents(es) \ TakenBack(e))
                               \cup (IF IsAnswer(e) THEN {n + 1} ELSE {})
  <2>1. ASSUME NEW x
        PROVE  x \in activeAnswerEvents(fs) <=>
                 (x \in activeAnswerEvents(es) /\ x \notin TakenBack(e)) \/ (IsAnswer(e) /\ x = n + 1)
    <3>1. x \in activeAnswerEvents(fs) <=> x \in 1..(n + 1) /\ IsAnswer(fs[x]) /\ x \notin Corrected(fs)
      BY <1>2 DEF activeAnswerEvents
    <3>2. x \in activeAnswerEvents(es) <=> x \in 1..n /\ IsAnswer(es[x]) /\ x \notin Corrected(es)
      BY <1>2 DEF activeAnswerEvents
    <3>3. x \in 1..(n + 1) <=> x \in 1..n \/ x = n + 1
      OBVIOUS
    <3>4. x = n + 1 => x \notin 1..n
      OBVIOUS
    <3> QED BY <1>2, <1>6, <1>7, <3>1, <3>2, <3>3, <3>4
  <2> QED BY <2>1
<1>9. activeAnswerEvents(es) \subseteq 1..n
  BY <1>2 DEF activeAnswerEvents
<1> QED BY <1>2, <1>4, <1>8, <1>9, <1>f, <1>n

\* The three ways in which the log grows.
Appended(e) ==
  \/ \E q \in Asked : \E a \in Answers[q] : ActiveFor(q) = {} /\ e = Answer(q, a)
  \/ \E i \in ActiveEvents : \E a \in Answers[events[i].question] :
        e = Correction(events[i].question, a, i)
  \/ \E s \in Signals : \E cited \in SUBSET ActiveEvents : e = Signal(s, cited)

\* Active events are answers, to questions that are asked.
LEMMA ActiveAreAnswers ==
  ASSUME LogOK(events), NEW i \in ActiveEvents
  PROVE  /\ i \in DOMAIN events /\ IsAnswer(events[i]) /\ i \in 1..Len(events)
         /\ events[i].question \in Asked /\ events[i].answer \in Answers[events[i].question]
<1>1. i \in DOMAIN events /\ IsAnswer(events[i])
  BY DEF ActiveEvents, activeAnswerEvents
<1>2. DOMAIN events = 1..Len(events) /\ Len(events) \in Nat
  BY DEF LogOK
<1>3. OkEvent(events[i], i - 1) /\ i - 1 \in Nat
  BY <1>1, <1>2 DEF LogOK
<1> QED BY <1>1, <1>2, <1>3, EventsTyped

\* Whatever is appended, every question keeps at most one active answer.
LEMMA AppendedKeeps ==
  ASSUME LogOK(events), NEW e, Appended(e)
  PROVE  OkEvent(e, Len(events)) /\ LogOK(Append(events, e))
<1>n. PICK n \in Nat : n = Len(events)
  BY DEF LogOK
<1>1. ActiveEvents \subseteq 1..n
  BY <1>n, ActiveAreAnswers
<1>2. OkEvent(e, n)
  <2>1. CASE \E q \in Asked : \E a \in Answers[q] : ActiveFor(q) = {} /\ e = Answer(q, a)
    BY <2>1 DEF OkEvent
  <2>2. CASE \E i \in ActiveEvents : \E a \in Answers[events[i].question] :
                e = Correction(events[i].question, a, i)
    BY <1>1, <2>2, ActiveAreAnswers DEF OkEvent
  <2>3. CASE \E s \in Signals : \E cited \in SUBSET ActiveEvents : e = Signal(s, cited)
    BY <1>1, <2>3 DEF OkEvent
  <2> QED BY <2>1, <2>2, <2>3 DEF Appended
<1>f. PICK fs : fs = Append(events, e)
  OBVIOUS
<1>3. /\ fs \in Seq(EventType) /\ fs[n + 1] = e
      /\ \A i \in 1..n : fs[i] = events[i]
      /\ \A i \in DOMAIN fs : OkEvent(fs[i], i - 1)
      /\ activeAnswerEvents(fs) = (ActiveEvents \ TakenBack(e))
                                  \cup (IF IsAnswer(e) THEN {n + 1} ELSE {})
  <2>1. OkEvent(e, Len(events))
    BY <1>2, <1>n
  <2>2. /\ fs \in Seq(EventType) /\ DOMAIN events = 1..Len(events)
        /\ \A i \in DOMAIN events : fs[i] = events[i]
        /\ fs[Len(events) + 1] = e
        /\ \A i \in DOMAIN fs : OkEvent(fs[i], i - 1)
        /\ activeAnswerEvents(fs) = (activeAnswerEvents(events) \ TakenBack(e))
                                    \cup (IF IsAnswer(e) THEN {Len(events) + 1} ELSE {})
    BY <1>f, <2>1, ActiveAfter
  <2> QED BY <1>n, <2>2 DEF ActiveEvents
\* The only active event with the question of a new answer is the one it takes back.
<1>4. IsAnswer(e) => \A i \in ActiveEvents : events[i].question = e.question => i \in TakenBack(e)
  <2>1. CASE \E q \in Asked : \E a \in Answers[q] : ActiveFor(q) = {} /\ e = Answer(q, a)
    <3>1. PICK q \in Asked : \E a \in Answers[q] : ActiveFor(q) = {} /\ e = Answer(q, a)
      BY <2>1
    <3>2. e.question = q /\ ActiveFor(q) = {}
      BY <3>1 DEF Answer
    <3> QED BY <3>2 DEF ActiveFor
  <2>2. CASE \E i \in ActiveEvents : \E a \in Answers[events[i].question] :
                e = Correction(events[i].question, a, i)
    <3>1. PICK i \in ActiveEvents : \E a \in Answers[events[i].question] :
                e = Correction(events[i].question, a, i)
      BY <2>2
    <3>2. e.question = events[i].question /\ TakenBack(e) = {i}
      BY <3>1 DEF Correction, TakenBack
    <3>3. \A j \in ActiveEvents : events[j].question = events[i].question => j = i
      BY DEF LogOK, OneEach, ActiveEvents
    <3> QED BY <3>2, <3>3
  <2>3. CASE \E s \in Signals : \E cited \in SUBSET ActiveEvents : e = Signal(s, cited)
    BY <2>3 DEF Signal, IsAnswer, AnswerKinds
  <2> QED BY <2>1, <2>2, <2>3 DEF Appended
<1>5. ASSUME NEW i \in activeAnswerEvents(fs), NEW j \in activeAnswerEvents(fs),
             fs[i].question = fs[j].question
      PROVE  i = j
  <2>1. CASE i \in ActiveEvents /\ j \in ActiveEvents
    BY <1>1, <1>3, <1>5, <2>1 DEF LogOK, OneEach, ActiveEvents
  <2>2. CASE i \notin ActiveEvents \/ j \notin ActiveEvents
    <3>1. IsAnswer(e) /\ (i = n + 1 \/ j = n + 1)
      BY <1>3, <2>2
    <3>2. \A k \in ActiveEvents \ TakenBack(e) : fs[k].question # e.question
      BY <1>1, <1>3, <1>4, <3>1
    <3> QED BY <1>3, <1>5, <3>1, <3>2
  <2> QED BY <2>1, <2>2
<1>6. LogOK(fs)
  BY <1>3, <1>5 DEF LogOK, OneEach
<1> QED BY <1>2, <1>6, <1>f, <1>n

\* Every step of a case that changes the log appends to it.
LEMMA StepsAppend ==
  ASSUME CaseInv, CaseNext
  PROVE  /\ \E e : Appended(e) /\ events' = Append(events, e)
         /\ detours' \in 0..MaxDetours
         /\ detours' = detours => AnswerTarget
<1>0. detours \in 0..MaxDetours /\ MaxDetours \in Nat
  BY QuestionsInOrder DEF CaseInv
<1>1. CASE AnswerAnything
  <2>1. \E e : Appended(e) /\ events' = Append(events, e)
    BY <1>1 DEF AnswerAnything, acceptAnswer, correctAnswer, Appended
  <2> QED BY <1>0, <1>1, <2>1 DEF AnswerAnything, Detour
<1>2. CASE RaiseSignal
  <2>1. \E e : Appended(e) /\ events' = Append(events, e)
    BY <1>2 DEF RaiseSignal, appendCaseSignal, Appended
  <2> QED BY <1>0, <1>2, <2>1 DEF RaiseSignal, Detour
<1>3. CASE AnswerTarget
  <2> PICK t : t = selectNextQuestionTarget
    OBVIOUS
  <2> DEFINE open == {i \in DOMAIN Questions : Progress(Questions[i]) # "satisfied"}
  <2>1. t.question \in Asked
    <3>1. t.kind # "finish"
      BY <1>3 DEF AnswerTarget
    <3>2. open # {} /\ t.question = Questions[CHOOSE i \in open : \A j \in open : i <= j]
      BY <3>1 DEF selectNextQuestionTarget
    <3>3. open \in SUBSET Nat
      BY QuestionsInOrder
    <3> HIDE DEF open
    <3>4. (CHOOSE i \in open : \A j \in open : i <= j) \in open
      BY <3>2, <3>3, LeastNumber
    <3> QED BY <3>2, <3>4 DEF Asked, open
  <2>2. \E e : Appended(e) /\ events' = Append(events, e)
    <3>1. PICK a \in Answers[t.question] :
             IF ActiveFor(t.question) = {} THEN acceptAnswer(t.question, a)
             ELSE \E i \in ActiveFor(t.question) : correctAnswer(i, a)
      BY <1>3 DEF AnswerTarget
    <3>2. CASE acceptAnswer(t.question, a)
      BY <2>1, <3>2 DEF acceptAnswer, Appended
    <3>3. CASE \E i \in ActiveFor(t.question) : correctAnswer(i, a)
      <4>1. PICK i \in ActiveFor(t.question) : correctAnswer(i, a)
        BY <3>3
      <4>2. i \in ActiveEvents /\ events[i].question = t.question
        BY DEF ActiveFor
      <4> QED BY <4>1, <4>2 DEF correctAnswer, Appended
    <3> QED BY <3>1, <3>2, <3>3
  <2> QED BY <1>0, <1>3, <2>2 DEF AnswerTarget
<1> QED BY <1>1, <1>2, <1>3 DEF CaseNext

\* A new case has no events.
LEMMA CaseInitially == CaseInit => CaseInv
<1> SUFFICES ASSUME CaseInit PROVE CaseInv
  OBVIOUS
<1>1. events = <<>> /\ detours = 0 /\ MaxDetours \in Nat
  BY QuestionsInOrder DEF CaseInit
<1>2. activeAnswerEvents(events) = {}
  BY <1>1 DEF activeAnswerEvents
<1> QED BY <1>1, <1>2 DEF CaseInv, LogOK, OneEach

\* No step of a case breaks the invariant.
LEMMA CaseStep == CaseInv /\ [CaseNext]_caseVars => CaseInv'
<1> SUFFICES ASSUME CaseInv, [CaseNext]_caseVars PROVE CaseInv'
  OBVIOUS
<1>1. CASE CaseNext
  <2>1. PICK e : Appended(e) /\ events' = Append(events, e)
    BY <1>1, StepsAppend
  <2>2. LogOK(events')
    BY <2>1, AppendedKeeps DEF CaseInv
  <2> QED BY <1>1, <2>2, StepsAppend DEF CaseInv
<1>2. CASE UNCHANGED caseVars
  BY <1>2 DEF caseVars, CaseInv
<1> QED BY <1>1, <1>2

\* However answers are corrected and signals raised, the log is well formed and
\* every question has at most one active answer.
THEOREM CaseInvariant == CaseSpec => []CaseInv
  BY CaseInitially, CaseStep, PTL DEF CaseSpec

------------------------------------------------------------------------------
(* The answers that are read from the log                                  *)

\* The active answer to a question is the only one, or there is none.
LEMMA TheAnswer ==
  ASSUME LogOK(events), NEW q
  PROVE  /\ AnswerTo(q) = NoAnswer \/ AnswerTo(q) \in Answers[q]
         /\ ActiveFor(q) = {} => AnswerTo(q) = NoAnswer
         /\ \A i \in ActiveFor(q) : ActiveFor(q) = {i} /\ AnswerTo(q) = events[i].answer
<1>1. CASE ActiveFor(q) = {}
  BY <1>1 DEF AnswerTo
<1>2. ASSUME NEW i \in ActiveFor(q)
      PROVE  /\ ActiveFor(q) = {i} /\ AnswerTo(q) = events[i].answer
             /\ AnswerTo(q) \in Answers[q]
  <2>1. i \in ActiveEvents /\ events[i].question = q
    BY DEF ActiveFor
  <2>2. \A j \in ActiveFor(q) : j = i
    BY <2>1 DEF ActiveFor, LogOK, OneEach, ActiveEvents
  <2>3. (CHOOSE j \in ActiveFor(q) : TRUE) = i
    BY <2>2
  <2>4. AnswerTo(q) = events[i].answer
    BY <2>3 DEF AnswerTo
  <2>5. events[i].answer \in Answers[q]
    BY <2>1, ActiveAreAnswers
  <2> QED BY <2>2, <2>4, <2>5
<1> QED BY <1>1, <1>2

\* The chosen options are options of their questions.
LEMMA OptionsChosen ==
  ASSUME LogOK(events)
  PROVE  /\ Actor \in AnswerValues("developer")
         /\ Discriminated \in AnswerValues("catalog-discriminator")
         /\ SpecialState \in SpecialStates
<1>1. ASSUME NEW q PROVE AnswerTo(q).value \in AnswerValues(q)
  <2>1. CASE AnswerTo(q) = NoAnswer
    BY <2>1 DEF NoAnswer, AnswerValues
  <2>2. CASE AnswerTo(q) \in Answers[q]
    BY <2>2 DEF AnswerValues
  <2> QED BY <2>1, <2>2, TheAnswer
<1>2. Actor \in AnswerValues("developer")
  BY <1>1 DEF Actor
<1>3. Discriminated \in AnswerValues("catalog-discriminator")
  BY <1>1 DEF Discriminated, AnswerValues
<1>4. Special[Discriminated] \in SpecialStates /\ Special[Actor] \in SpecialStates
  BY <1>2, <1>3, OptionsAgree
<1>5. "catalog_gap" \in SpecialStates
  BY DEF SpecialStates
<1> QED BY <1>2, <1>3, <1>4, <1>5 DEF SpecialState

\* A reason that is live was strengthened by one option and weakened by none
\* that came with it or later, nor was its family.
LEMMA CatalogAgrees == LogOK(events) => LiveReasonInOpenFamily
<1> SUFFICES ASSUME LogOK(events), NEW r \in Reasons, ReasonState(r) = "live"
             PROVE  FamilyState(Parent[r]) # "weakened"
  BY DEF LiveReasonInOpenFamily
<1> PICK a \in AnswerValues("developer") : a = Actor
  BY OptionsChosen
<1> PICK d \in AnswerValues("catalog-discriminator") : d = Discriminated
  BY OptionsChosen
<1> DEFINE Untouched(o) == r \notin Weakens[o] /\ Parent[r] \notin Weakens[o]
<1>1. ASSUME NEW o \in {a, d}, Untouched(o), r \in Strengthens[o]
      PROVE  Parent[r] \notin Touched(Weakens[o]) /\ Parent[r] \in Touched(Strengthens[o])
  <2>1. \A x \in Reasons \cap Weakens[o] : Parent[r] # Parent[x]
    BY <1>1, OptionsAgree
  <2> QED BY <1>1, <2>1 DEF Touched
<1>2. ASSUME Untouched(a) PROVE Parent[r] \notin Touched(Weakens[a])
  <2>1. Weakens[a] \cap Reasons = {}
    BY OptionsAgree
  <2> QED BY <1>2, <2>1 DEF Touched
<1>3. Untouched(a)
  BY DEF ReasonState, ReasonAfter
<1>4. CASE r \in Strengthens[a]
  BY <1>1, <1>3, <1>4 DEF FamilyState, FamilyAfter
<1>5. CASE r \notin Strengthens[a]
  <2>1. ReasonAfter(d, r, "not_considered") = "live"
    BY <1>3, <1>5 DEF ReasonState, ReasonAfter
  <2>2. Untouched(d) /\ r \in Strengthens[d]
    BY <2>1 DEF ReasonAfter
  <2>3. FamilyAfter(d, Parent[r], "not_considered") = "live"
    BY <1>1, <2>2 DEF FamilyAfter
  <2> QED BY <1>2, <1>3, <2>3 DEF FamilyState, FamilyAfter
<1> QED BY <1>4, <1>5

\* There are fewer active answers than the attention budget allows.
LEMMA BudgetSuffices ==
  ASSUME LogOK(events)
  PROVE  ~ (Cardinality(ActiveEvents) >= MaxAnswerEvents)
<1>n. PICK n \in Nat : n = Len(Questions) /\ DOMAIN Questions = 1..n
  BY QuestionsInOrder
<1> DEFINE place == [i \in ActiveEvents |-> CHOOSE j \in 1..n : Questions[j] = events[i].question]
<1>1. ASSUME NEW i \in ActiveEvents
      PROVE  place[i] \in 1..n /\ Questions[place[i]] = events[i].question
  <2>1. \E j \in 1..n : Questions[j] = events[i].question
    BY <1>n, ActiveAreAnswers DEF Asked
  <2> QED BY <2>1
<1>2. place \in Injection(ActiveEvents, 1..n)
  <2>1. place \in [ActiveEvents -> 1..n]
    BY <1>1
  <2>2. \A i, j \in ActiveEvents : place[i] = place[j] => i = j
    <3> HIDE DEF place
    <3>1. \A i, j \in ActiveEvents : events[i].question = events[j].question => i = j
      BY DEF LogOK, OneEach, ActiveEvents
    <3> QED BY <1>1, <3>1
  <2> HIDE DEF place
  <2> QED BY <2>1, <2>2 DEF Injection, IsInjective
<1>3. IsFiniteSet(1..n) /\ Cardinality(1..n) = n
  BY FS_Interval
<1>4. IsFiniteSet(ActiveEvents) /\ Cardinality(ActiveEvents) <= n
  BY <1>2, <1>3, FS_Injection DEF ExistsInjection
<1>5. Cardinality(ActiveEvents) \in Nat
  BY <1>4, FS_CardinalityType
<1> QED BY <1>4, <1>5, <1>n, QuestionsInOrder

\* The question that is put next: the first in order that is not settled.
LEMMA TheTarget ==
  ASSUME LogOK(events)
  PROVE  LET t == selectNextQuestionTarget
         IN  \/ t.kind = "finish" /\ \A q \in Asked : Progress(q) = "satisfied"
             \/ /\ t.kind # "finish"
                /\ \E k \in DOMAIN Questions :
                      /\ t.question = Questions[k]
                      /\ \A j \in DOMAIN Questions : j < k => Progress(Questions[j]) = "satisfied"
<1> DEFINE open == {i \in DOMAIN Questions : Progress(Questions[i]) # "satisfied"}
           k == CHOOSE i \in open : \A j \in open : i <= j
           first == Questions[k]
<1> PICK t : t = selectNextQuestionTarget
  OBVIOUS
<1>0. DOMAIN Questions \subseteq Nat
  BY QuestionsInOrder
<1>1. CASE open = {}
  <2>1. t.kind = "finish"
    BY <1>1 DEF selectNextQuestionTarget
  <2>2. \A q \in Asked : Progress(q) = "satisfied"
    BY <1>1 DEF Asked
  <2> QED BY <2>1, <2>2
<1>2. CASE open # {}
  <2>0. open \in SUBSET Nat
    BY <1>0
  <2>1. t = [kind |-> IF CorrectionCount(first) >= 2 THEN "recovery"
                      ELSE IF Progress(first) = "unanswered" THEN "question" ELSE "clarifier",
             question |-> first]
    BY <1>2, BudgetSuffices DEF selectNextQuestionTarget
  <2>2. t.kind # "finish" /\ t.question = first
    BY <2>1
  <2>3. k \in open /\ \A j \in open : k <= j
    <3> HIDE DEF open
    <3> QED BY <1>2, <2>0, LeastNumber
  <2>4. ASSUME NEW j \in DOMAIN Questions, j < k PROVE Progress(Questions[j]) = "satisfied"
    <3>1. k \in Nat /\ j \in Nat /\ (j \in open => k <= j)
      BY <1>0, <2>0, <2>3
    <3>2. j \notin open
      BY <2>4, <3>1
    <3> QED BY <3>2
  <2>5. k \in DOMAIN Questions
    BY <2>3
  <2> HIDE DEF k, open
  <2> QED BY <2>2, <2>4, <2>5
<1> QED BY <1>1, <1>2

\* An open case is asked on.
LEMMA AskedOn == LogOK(events) => OpenCaseAsks
<1> SUFFICES ASSUME LogOK(events),
                    evaluateStopCondition.terminalState \in {"continue", "focus_clarified"}
             PROVE  evaluateStopCondition.shouldAsk
  BY DEF OpenCaseAsks
<1> DEFINE signalled == {events[i].signal : i \in SignalsInForce}
           priority == <<"safety_boundary", "user_declines", "catalog_gap",
                         "compound_blockers", "legitimate_gate">>
           first == {i \in DOMAIN priority : priority[i] \in signalled}
           more == selectNextQuestionTarget.kind # "finish"
<1>1. first = {}
  <2>1. SUFFICES ASSUME first # {} PROVE FALSE
    OBVIOUS
  <2> DEFINE k == CHOOSE i \in first : \A j \in first : i <= j
  <2>2. k \in first
    <3>1. first \in SUBSET Nat
      OBVIOUS
    <3> HIDE DEF first
    <3> QED BY <2>1, <3>1, LeastNumber
  <2>3. priority[k] \notin {"continue", "focus_clarified"}
    <3> PICK i : i = k
      OBVIOUS
    <3>1. i \in 1..5
      <4>1. DOMAIN priority = 1..5
        OBVIOUS
      <4>2. k \in DOMAIN priority
        BY <2>2
      <4> HIDE DEF k, priority
      <4> QED BY <4>1, <4>2
    <3>2. priority[1] = "safety_boundary" /\ priority[2] = "user_declines" /\ priority[3] = "catalog_gap"
          /\ priority[4] = "compound_blockers" /\ priority[5] = "legitimate_gate"
      OBVIOUS
    <3> HIDE DEF priority, k
    <3>3. i = 1 \/ i = 2 \/ i = 3 \/ i = 4 \/ i = 5
      BY <3>1
    <3>4. priority[i] \notin {"continue", "focus_clarified"}
      BY <3>2, <3>3
    <3> QED BY <3>4
  <2>4. evaluateStopCondition = Stop(priority[k], FALSE)
    BY <2>1 DEF evaluateStopCondition
  <2> QED BY <2>3, <2>4 DEF Stop
<1>2. SpecialState \in {"none", "needs_external_evidence"}
  <2>1. SUFFICES ASSUME SpecialState \notin {"none", "needs_external_evidence"} PROVE FALSE
    OBVIOUS
  <2>2. evaluateStopCondition = Stop(SpecialState, FALSE)
    BY <1>1, <2>1 DEF evaluateStopCondition
  <2> QED BY <2>2, OptionsChosen DEF Stop, SpecialStates
<1>3. /\ ~ ActionChosen
      /\ evaluateStopCondition = Stop("focus_clarified", more) \/ evaluateStopCondition = Stop("continue", more)
  BY <1>1, <1>2 DEF evaluateStopCondition, Stop
<1>4. more
  BY <1>3, TheTarget, QuestionsInOrder DEF ActionChosen
<1>5. evaluateStopCondition.shouldAsk = more
  <2> HIDE DEF more
  <2> QED BY <1>3 DEF Stop
<1> QED BY <1>4, <1>5, Zenon

\* What a sound log gives.
LEMMA CaseInvImplies == CaseInv => CaseSound
<1> SUFFICES ASSUME CaseInv PROVE CaseSound
  OBVIOUS
<1>1. CaseTypeOK
  <2>1. ASSUME NEW i \in DOMAIN events
        PROVE  /\ events[i].kind = "answer_corrected" => events[i].corrects \in 1..(i - 1)
               /\ events[i].kind = "case_signal" => events[i].cited \subseteq 1..(i - 1)
    <3>1. OkEvent(events[i], i - 1) /\ i - 1 \in Nat
      BY DEF CaseInv, LogOK
    <3> QED BY <3>1, EventsTyped
  <2> QED BY <2>1 DEF CaseTypeOK, CaseInv, LogOK
<1>2. OneActiveAnswer
  BY DEF OneActiveAnswer, CaseInv, LogOK, OneEach, ActiveEvents
<1> QED BY <1>1, <1>2, CatalogAgrees, AskedOn DEF CaseSound, CaseInv

\* However answers are corrected and signals raised, the case that is folded
\* from the events is well defined, the two views of the catalog agree, and an
\* open case asks on (diagnostic-engine.ts).
THEOREM CaseSoundAlways == CaseSpec => []CaseSound
  BY CaseInvariant, CaseInvImplies, PTL

------------------------------------------------------------------------------
(* What a step of a case may not undo                                      *)

\* A standing signal decides how the case stands, and nothing else makes the
\* case stand as if there were one.
LEMMA StandingDecides ==
  ASSUME LogOK(events)
  PROVE  evaluateStopCondition.terminalState \in Standing <=>
           \E i \in DOMAIN events : events[i].kind = "case_signal" /\ events[i].signal \in Standing
<1> DEFINE signalled == {events[i].signal : i \in SignalsInForce}
           priority == <<"safety_boundary", "user_declines", "catalog_gap",
                         "compound_blockers", "legitimate_gate">>
           first == {i \in DOMAIN priority : priority[i] \in signalled}
           k == CHOOSE i \in first : \A j \in first : i <= j
           raised == \E i \in DOMAIN events : events[i].kind = "case_signal" /\ events[i].signal \in Standing
<1>1. /\ DOMAIN priority = 1..5
      /\ priority[1] = "safety_boundary" /\ priority[2] = "user_declines" /\ priority[3] = "catalog_gap"
      /\ priority[4] = "compound_blockers" /\ priority[5] = "legitimate_gate"
  OBVIOUS
<1>2. raised <=> \E x \in Standing : x \in signalled
  <2>1. \A i \in SignalsInForce : i \in DOMAIN events /\ events[i].kind = "case_signal"
    BY DEF SignalsInForce, SignalsInForceCited
  <2>2. \A i \in DOMAIN events : events[i].kind = "case_signal" /\ events[i].signal \in Standing
                                   => i \in SignalsInForce
    BY DEF SignalsInForce
  <2> QED BY <2>1, <2>2
<1>3. first # {} => evaluateStopCondition.terminalState = priority[k]
  BY DEF evaluateStopCondition, Stop
<1>4. first = {} => evaluateStopCondition.terminalState \notin Standing
  <2>1. SUFFICES ASSUME first = {} PROVE evaluateStopCondition.terminalState \notin Standing
    OBVIOUS
  <2>2. SpecialState \notin Standing
    BY OptionsChosen DEF SpecialStates, Standing
  <2>3. evaluateStopCondition.terminalState \in
          {SpecialState, "needs_evidence", "action_ready", "focus_clarified", "continue"}
    BY <2>1 DEF evaluateStopCondition, Stop
  <2> QED BY <2>2, <2>3 DEF Standing
<1>5. first \in SUBSET Nat /\ (1 \in first <=> "safety_boundary" \in signalled)
      /\ (2 \in first <=> "user_declines" \in signalled) /\ first \subseteq 1..5
  BY <1>1
<1> HIDE DEF signalled, priority, raised
<1>6. raised => first # {} /\ (1 \in first \/ 2 \in first)
  BY <1>2, <1>5 DEF Standing
<1>7. first # {} => k \in first /\ \A j \in first : k <= j
  <2> HIDE DEF first
  <2> QED BY <1>5, LeastNumber
<1> HIDE DEF first, k
<1>8. raised => k \in {1, 2}
  <2>1. ASSUME raised PROVE k \in {1, 2}
    <3>1. k \in 1..5 /\ k <= 2
      <4>1. k \in 1..5 /\ \A j \in first : k <= j
        BY <1>5, <1>6, <1>7, <2>1
      <4>2. 1 \in first \/ 2 \in first
        BY <1>6, <2>1
      <4> QED BY <4>1, <4>2
    <3> QED BY <3>1
  <2> QED BY <2>1
<1>9. raised => evaluateStopCondition.terminalState \in Standing
  BY <1>1, <1>3, <1>6, <1>8 DEF Standing
<1>10. ASSUME evaluateStopCondition.terminalState \in Standing PROVE raised
  <2>1. first # {} /\ priority[k] \in Standing
    BY <1>3, <1>4, <1>10
  <2>2. priority[k] \in signalled
    BY <1>7, <2>1 DEF first
  <2> QED BY <1>2, <2>1, <2>2
<1> QED BY <1>9, <1>10 DEF raised

\* Nothing that was taken back counts again.
LEMMA RetractionStays ==
  ASSUME LogOK(events), NEW e, Appended(e), events' = Append(events, e)
  PROVE  RetractionIsFinal
<1>n. PICK n \in Nat : n = Len(events) /\ DOMAIN events = 1..n
  BY DEF LogOK
<1>1. /\ DOMAIN events' = 1..(n + 1)
      /\ \A i \in 1..n : events'[i] = events[i]
      /\ activeAnswerEvents(events') = (ActiveEvents \ TakenBack(e))
                                       \cup (IF IsAnswer(e) THEN {n + 1} ELSE {})
  BY <1>n, AppendedKeeps, ActiveAfter DEF ActiveEvents
<1>2. \A i \in 1..n : i \in activeAnswerEvents(events') => i \in ActiveEvents
  <2>1. n + 1 \notin 1..n
    OBVIOUS
  <2> QED BY <1>1, <2>1
<1>3. ASSUME NEW i \in 1..n, i \in SignalsInForce' PROVE i \in SignalsInForce
  <2>1. events'[i] = events[i]
    BY <1>1
  <2>2. CASE events[i].kind = "case_signal" /\ events[i].signal \in Standing
    BY <1>n, <2>2 DEF SignalsInForce
  <2>3. CASE ~ (events[i].kind = "case_signal" /\ events[i].signal \in Standing)
    <3>1. i \in SignalsInForceCited'
      BY <1>3, <2>1, <2>3 DEF SignalsInForce
    <3>2. /\ events[i].kind = "case_signal" /\ events[i].cited # {}
          /\ events[i].cited \subseteq activeAnswerEvents(events')
      BY <2>1, <3>1 DEF SignalsInForceCited, ActiveEvents
    <3>3. events[i].cited \subseteq 1..n
      <4>1. OkEvent(events[i], i - 1) /\ i - 1 \in Nat
        BY <1>n DEF LogOK
      <4>2. events[i].cited \subseteq 1..(i - 1)
        BY <3>2, <4>1, EventsTyped
      <4> QED BY <4>2
    <3>4. events[i].cited \subseteq ActiveEvents
      BY <1>2, <3>2, <3>3
    <3> QED BY <1>n, <3>2, <3>4 DEF SignalsInForce, SignalsInForceCited
  <2> QED BY <2>2, <2>3
<1> QED BY <1>n, <1>2, <1>3 DEF RetractionIsFinal

\* A participant who declined, and a safety boundary, are not overruled.
LEMMA StandingStays ==
  ASSUME LogOK(events), NEW e, Appended(e), events' = Append(events, e)
  PROVE  StandingSignalsStop
<1> DEFINE raised == \E i \in DOMAIN events : events[i].kind = "case_signal" /\ events[i].signal \in Standing
<1>1. LogOK(events)'
  BY AppendedKeeps
<1>2. raised => raised'
  <2>n. PICK n \in Nat : n = Len(events) /\ DOMAIN events = 1..n
    BY DEF LogOK
  <2>1. DOMAIN events' = 1..(n + 1) /\ \A i \in 1..n : events'[i] = events[i]
    BY <2>n, AppendedKeeps, ActiveAfter
  <2>2. \A i \in 1..n : i \in 1..(n + 1)
    OBVIOUS
  <2>3. Standing' = Standing
    BY DEF Standing
  <2> QED BY <2>n, <2>1, <2>2, <2>3
<1>3. evaluateStopCondition.terminalState \in Standing <=> raised
  BY StandingDecides
<1>4. (evaluateStopCondition.terminalState \in Standing <=> raised)'
  BY <1>1, StandingDecides, PTL
<1>5. Standing' = Standing
  BY DEF Standing
<1> QED BY <1>2, <1>3, <1>4, <1>5 DEF StandingSignalsStop

\* An answer that was asked for, in full and for the route of the case, settles
\* its question and unsettles none before it: only the discriminator depends on
\* another answer, and that one is asked for before it.
LEMMA SettledStays ==
  ASSUME CaseInv, AnswerTarget
  PROVE  LET target == selectNextQuestionTarget
         IN  \A i \in DOMAIN Questions :
               (\A j \in 1..(i - 1) : Questions[j] # target.question)
                 => Progress(Questions[i])' = "satisfied"
<1>t. PICK t : t = selectNextQuestionTarget
  OBVIOUS
<1>n. PICK n \in Nat : n = Len(events)
  BY DEF CaseInv, LogOK
<1>l. LogOK(events)
  BY DEF CaseInv
<1>1. PICK k \in DOMAIN Questions :
        /\ t.question = Questions[k]
        /\ \A j \in DOMAIN Questions : j < k => Progress(Questions[j]) = "satisfied"
  BY <1>l, <1>t, TheTarget DEF AnswerTarget
<1>2. PICK q \in Asked : q = t.question
  BY <1>1 DEF Asked
<1>3. PICK a \in Answers[q] :
        /\ a.fields = "all"
        /\ q = "catalog-discriminator" => a.route = expectedDiscriminatorId
        /\ IF ActiveFor(q) = {} THEN acceptAnswer(q, a) ELSE \E i \in ActiveFor(q) : correctAnswer(i, a)
  BY <1>2, <1>t DEF AnswerTarget
<1>4. PICK e : /\ Appended(e) /\ events' = Append(events, e) /\ IsAnswer(e)
               /\ e.question = q /\ e.answer = a /\ TakenBack(e) = ActiveFor(q)
  <2>1. CASE ActiveFor(q) = {}
    <3>1. PICK e : e = Answer(q, a)
      OBVIOUS
    <3>2. Appended(e)
      BY <2>1, <3>1 DEF Appended
    <3>3. events' = Append(events, e)
      BY <1>3, <2>1, <3>1 DEF acceptAnswer
    <3>4. IsAnswer(e) /\ e.question = q /\ e.answer = a /\ TakenBack(e) = {}
      BY <3>1 DEF Answer, IsAnswer, AnswerKinds, TakenBack
    <3> QED BY <2>1, <3>2, <3>3, <3>4
  <2>2. CASE ActiveFor(q) # {}
    <3>1. PICK i \in ActiveFor(q) : correctAnswer(i, a)
      BY <1>3, <2>2
    <3>2. i \in ActiveEvents /\ events[i].question = q /\ ActiveFor(q) = {i}
      <4>1. i \in ActiveEvents /\ events[i].question = q
        BY DEF ActiveFor
      <4>2. ActiveFor(q) = {i}
        BY <1>l, TheAnswer
      <4> QED BY <4>1, <4>2
    <3>3. PICK e : e = Correction(q, a, i)
      OBVIOUS
    <3>4. Appended(e)
      BY <3>2, <3>3 DEF Appended
    <3>5. events' = Append(events, e)
      BY <3>1, <3>2, <3>3 DEF correctAnswer
    <3>6. IsAnswer(e) /\ e.question = q /\ e.answer = a /\ TakenBack(e) = {i}
      BY <3>3 DEF Correction, IsAnswer, AnswerKinds, TakenBack
    <3> QED BY <3>2, <3>4, <3>5, <3>6
  <2> QED BY <2>1, <2>2
<1>5. /\ \A i \in 1..n : events'[i] = events[i]
      /\ events'[n + 1] = e /\ ActiveEvents \subseteq 1..n
      /\ ActiveEvents' = (ActiveEvents \ ActiveFor(q)) \cup {n + 1}
      /\ LogOK(events')
  BY <1>4, <1>l, <1>n, AppendedKeeps, ActiveAfter DEF ActiveEvents
\* The question that was asked has the new answer, the others keep theirs.
<1>6. AnswerTo(q)' = a
  <2>1. n + 1 \in ActiveFor(q)'
    BY <1>4, <1>5 DEF ActiveFor
  <2>2. ActiveFor(q)' = {n + 1}
    <3>1. ASSUME NEW x \in ActiveFor(q)' PROVE x = n + 1
      <4>1. x \in ActiveEvents' /\ events'[x].question = q
        BY <3>1 DEF ActiveFor
      <4>2. SUFFICES ASSUME x \in ActiveEvents \ ActiveFor(q) PROVE FALSE
        BY <1>5, <4>1
      <4>3. events[x].question = q
        BY <1>5, <4>1, <4>2
      <4> QED BY <4>2, <4>3 DEF ActiveFor
    <3> QED BY <2>1, <3>1
  <2>3. (CHOOSE i \in ActiveFor(q)' : TRUE) = n + 1
    BY <2>2
  <2>4. events'[n + 1].answer = a
    BY <1>4, <1>5
  <2> QED BY <2>2, <2>3, <2>4 DEF AnswerTo
<1>7. ASSUME NEW x, x # q PROVE AnswerTo(x)' = AnswerTo(x)
  <2>1. ActiveFor(x)' = ActiveFor(x)
    <3>1. ASSUME NEW i PROVE i \in ActiveFor(x)' <=> i \in ActiveFor(x)
      <4>1. i \in ActiveFor(x)' <=> i \in ActiveEvents' /\ events'[i].question = x
        BY DEF ActiveFor
      <4>2. i \in ActiveFor(x) <=> i \in ActiveEvents /\ events[i].question = x
        BY DEF ActiveFor
      <4>3. n + 1 \notin 1..n
        OBVIOUS
      <4>4. CASE i \in ActiveEvents
        <5>1. events'[i] = events[i]
          BY <1>5, <4>4
        <5>2. events[i].question = x => i \notin ActiveFor(q)
          BY <1>7 DEF ActiveFor
        <5>3. i \in ActiveEvents' <=> i \notin ActiveFor(q)
          BY <1>5, <4>3, <4>4
        <5> QED BY <4>1, <4>2, <4>4, <5>1, <5>2, <5>3
      <4>5. CASE i \notin ActiveEvents
        <5>1. i \in ActiveEvents' => i = n + 1
          BY <1>5, <4>5
        <5> QED BY <1>4, <1>5, <1>7, <4>1, <4>2, <4>5, <5>1
      <4> QED BY <4>4, <4>5
    <3> QED BY <3>1
  <2>2. \A i \in ActiveFor(x) : events'[i] = events[i]
    BY <1>5 DEF ActiveFor
  <2>3. CASE ActiveFor(x) = {}
    BY <2>1, <2>3 DEF AnswerTo
  <2>4. CASE ActiveFor(x) # {}
    <3>1. PICK c \in ActiveFor(x) : c = CHOOSE i \in ActiveFor(x) : TRUE
      BY <2>4
    <3>2. AnswerTo(x) = events[c].answer /\ AnswerTo(x)' = events'[c].answer
      BY <2>1, <2>4, <3>1 DEF AnswerTo
    <3> QED BY <2>2, <3>2
  <2> QED BY <2>3, <2>4
<1>8. q # "last-truth" => lastStageFromCase' = lastStageFromCase
  BY <1>7 DEF lastStageFromCase
<1>9. Progress(q)' = "satisfied"
  <2>1. q = "catalog-discriminator" => a.route = expectedDiscriminatorId'
    BY <1>3, <1>8 DEF expectedDiscriminatorId
  <2> QED BY <1>3, <1>6, <2>1 DEF Progress
<1>10. ASSUME NEW i \in DOMAIN Questions, i < k PROVE Progress(Questions[i])' = "satisfied"
  <2>1. Progress(Questions[i]) = "satisfied"
    BY <1>1, <1>10
  <2>2. Questions[i] # q
    <3>1. i \in Nat /\ k \in Nat
      BY QuestionsInOrder
    <3> QED BY <1>1, <1>2, <1>10, <3>1, QuestionsDistinct
  <2>3. AnswerTo(Questions[i])' = AnswerTo(Questions[i])
    BY <1>7, <2>2
  <2>4. CASE Questions[i] # "catalog-discriminator"
    BY <2>1, <2>3, <2>4 DEF Progress
  <2>5. CASE Questions[i] = "catalog-discriminator"
    <3>1. q # "last-truth"
      <4>1. SUFFICES ASSUME q = "last-truth" PROVE FALSE
        OBVIOUS
      <4>2. k < i
        BY <1>1, <1>2, <2>5, <4>1, QuestionsInOrder
      <4>3. i \in Nat /\ k \in Nat
        BY QuestionsInOrder
      <4> QED BY <1>10, <4>2, <4>3
    <3>2. expectedDiscriminatorId' = expectedDiscriminatorId
      BY <1>8, <3>1 DEF expectedDiscriminatorId
    <3> QED BY <2>1, <2>3, <3>2 DEF Progress
  <2> QED BY <2>4, <2>5
<1>11. ASSUME NEW i \in DOMAIN Questions, \A j \in 1..(i - 1) : Questions[j] # t.question
       PROVE  Progress(Questions[i])' = "satisfied"
  <2>1. i \in Nat /\ k \in Nat \ {0}
    BY QuestionsInOrder
  <2>2. i <= k
    <3>1. SUFFICES ASSUME k < i PROVE FALSE
      BY <2>1
    <3>2. k \in 1..(i - 1)
      BY <2>1, <3>1
    <3> QED BY <1>1, <1>11, <3>2
  <2>3. i < k \/ i = k
    BY <2>1, <2>2
  <2> QED BY <1>1, <1>2, <1>9, <1>10, <2>3
<1> QED BY <1>11, <1>t

\* Every step only appends, so it revives nothing and unsettles nothing.
LEMMA CaseMoves ==
  CaseInv /\ [CaseNext]_caseVars =>
    [events' # events => RetractionIsFinal /\ StandingSignalsStop /\ QuestionsMoveOn]_caseVars
<1> SUFFICES ASSUME CaseInv, CaseNext
             PROVE  RetractionIsFinal /\ StandingSignalsStop /\ QuestionsMoveOn
  OBVIOUS
<1>1. PICK e : Appended(e) /\ events' = Append(events, e)
  BY StepsAppend
<1>2. RetractionIsFinal /\ StandingSignalsStop
  BY <1>1, RetractionStays, StandingStays DEF CaseInv
<1>3. QuestionsMoveOn
  BY StepsAppend, SettledStays DEF QuestionsMoveOn
<1> QED BY <1>2, <1>3

\* No step of a case revives what was retracted, overrules a participant who
\* declined, or unsettles what came before an answer that was given as it was
\* asked for (diagnostic-engine.ts).
THEOREM CaseMovesOnAlways == CaseSpec => CaseMovesOn
  BY CaseInvariant, CaseMoves, PTL DEF CaseSpec, CaseMovesOn

------------------------------------------------------------------------------
(* The diagnosis of a case                                                 *)

\* An option that strengthens a node was selected by an answer that stands.
LEMMA StrengthenedByAnswer ==
  ASSUME NEW q, NEW n,
         n \in Strengthens[AnswerTo(q).value] \union Touched(Strengthens[AnswerTo(q).value])
  PROVE  ActiveFor(q) # {}
<1> SUFFICES ASSUME ActiveFor(q) = {} PROVE FALSE
  OBVIOUS
<1>1. AnswerTo(q).value = NoOption
  BY DEF AnswerTo, NoAnswer
<1> QED BY <1>1, NoOptionTouchesNothing DEF Touched

\* A node is live because of the discriminator or of the actor, and the answers
\* behind it stand.
LEMMA LiveIsSupported ==
  ASSUME NEW n, NodeState(n) = "live"
  PROVE  supportingEventIds(n) # {} /\ supportingEventIds(n) \subseteq ActiveEvents
<1> DEFINE strengthens(o) == n \in Strengthens[o] \union Touched(Strengthens[o])
<1>1. strengthens(Discriminated) \/ strengthens(Actor)
  <2>1. CASE n \in Reasons
    BY <2>1 DEF NodeState, ReasonState, ReasonAfter
  <2>2. CASE n \notin Reasons
    BY <2>2 DEF NodeState, FamilyState, FamilyAfter
  <2> QED BY <2>1, <2>2
<1>2. strengthens(Discriminated) => ActiveFor("catalog-discriminator") # {}
  <2> SUFFICES ASSUME strengthens(Discriminated) PROVE ActiveFor("catalog-discriminator") # {}
    OBVIOUS
  <2>1. Discriminated # NoOption
    BY NoOptionTouchesNothing DEF Touched
  <2>2. Discriminated = AnswerTo("catalog-discriminator").value
    BY <2>1 DEF Discriminated
  <2> QED BY <2>2, StrengthenedByAnswer
<1>3. strengthens(Actor) => ActiveFor("developer") # {}
  BY StrengthenedByAnswer DEF Actor
<1>4. \A q : ActiveFor(q) \subseteq ActiveEvents
  BY DEF ActiveFor
<1> QED BY <1>1, <1>2, <1>3, <1>4 DEF supportingEventIds

\* What is shown of a diagnosis comes with the journey it was resolved to.
LEMMA DiagnosisShown ==
  LET d == assembleDiagnosis
      j == resolveJourney
  IN  \/ /\ d.journey = "none" /\ d.hypotheses = {} /\ d.comparison = Withheld
         /\ d.status \in {"platform-not-present", "research-incomplete"}
      \/ /\ j \notin {"ambiguous", "none"}
         /\ d.journey = j /\ d.hypotheses = Hypotheses
         /\ d.comparison = assembleComparison(j, request.comparison)
         /\ d.status = analysisStatus(j, Hypotheses)
BY DEF assembleDiagnosis, ambiguousJourneyOutput, missingPlatformOutput, Output

\* An explanation from a claim rests on standing answers and is not weakened;
\* one that is supported rests on evidence that can support by itself.
LEMMA ClaimStands ==
  ASSUME NEW h \in hypothesesFromClaims
  PROVE  /\ h.cited # {} /\ h.cited \subseteq ActiveEvents
         /\ NodeState(h.node) # "weakened"
         /\ h.supported => \E i \in ActiveEvents : events[i].answer.kinds \intersect canSupportReason # {}
<1>1. PICK i \in validateDiagnosticClaims :
        /\ claims[i].type \in {"family_narrowed", "reason_hypothesis", "reason_supported"}
        /\ h = Hypothesis(claims[i].node, claims[i].type = "reason_supported", claims[i].cited)
  BY DEF hypothesesFromClaims
<1> DEFINE c == claims[i]
<1>2. activeEvidence(c) /\ ClaimAccepted(c)
  BY <1>1 DEF validateDiagnosticClaims
<1>3. h.node = c.node /\ h.cited = c.cited /\ (h.supported <=> c.type = "reason_supported")
  BY <1>1 DEF Hypothesis
<1>4. c.type \in {"family_narrowed", "reason_hypothesis", "reason_supported"}
  BY <1>1
<1> HIDE DEF c
<1>5. NodeState(c.node) \in {"live", "needs_observation"}
  BY <1>2, <1>4 DEF ClaimAccepted, validateReasonSupported
<1>6. ASSUME h.supported
      PROVE  \E k \in ActiveEvents : events[k].answer.kinds \intersect canSupportReason # {}
  <2>1. validateReasonSupported(c)
    BY <1>2, <1>3, <1>6 DEF ClaimAccepted
  <2>2. evidenceKindsForIds(c.cited) \intersect canSupportReason # {}
    BY <2>1 DEF validateReasonSupported
  <2> QED BY <2>2 DEF evidenceKindsForIds
<1> QED BY <1>2, <1>3, <1>5, <1>6 DEF activeEvidence

\* An explanation the case itself suggests is live, and nothing supports it.
LEMMA FallbackStands ==
  ASSUME NEW h \in fallbackHypotheses
  PROVE  /\ h.cited # {} /\ h.cited \subseteq ActiveEvents
         /\ NodeState(h.node) # "weakened" /\ ~h.supported
<1>1. PICK n : NodeState(n) = "live" /\ h = Hypothesis(n, FALSE, supportingEventIds(n))
  BY DEF fallbackHypotheses
<1>2. h.node = n /\ h.cited = supportingEventIds(n) /\ ~h.supported
  BY <1>1 DEF Hypothesis
<1> QED BY <1>1, <1>2, LiveIsSupported

\* A journey that is resolved was asked for or is the only one of its platform.
LEMMA JourneyResolved ==
  ASSUME resolveJourney \notin {"ambiguous", "none"}
  PROVE  /\ Journeys[resolveJourney].platform = request.platform
         /\ request.journey = resolveJourney \/ Matches = {resolveJourney}
<1>1. Matches # {}
  BY DEF resolveJourney
<1>2. CASE request.journey # "none"
  BY <1>1, <1>2 DEF resolveJourney, Matches
<1>3. CASE request.journey = "none"
  <2>1. IsFiniteSet(Matches)
    BY AtlasIsFinite, FS_Subset DEF Matches
  <2>2. PICK j \in Matches : TRUE
    BY <1>1
  <2>3. ~(Cardinality(Matches) > 1) /\ resolveJourney = CHOOSE k \in Matches : TRUE
    BY <1>1, <1>3 DEF resolveJourney
  <2>4. resolveJourney \in Matches
    BY <2>2, <2>3
  <2>5. IsFiniteSet(Matches \ {resolveJourney})
        /\ Cardinality(Matches \ {resolveJourney}) = Cardinality(Matches) - 1
    BY <2>1, <2>4, FS_RemoveElement
  <2>6. Cardinality(Matches) \in Nat /\ Cardinality(Matches \ {resolveJourney}) \in Nat
    BY <2>1, <2>5, FS_CardinalityType
  <2>7. Cardinality(Matches \ {resolveJourney}) = 0
    BY <2>3, <2>5, <2>6
  <2>8. Matches \ {resolveJourney} = {}
    BY <2>5, <2>7, FS_EmptySet
  <2>9. Matches = {resolveJourney}
    BY <2>4, <2>8
  <2> QED BY <2>4, <2>9 DEF Matches
<1> QED BY <1>2, <1>3

\* A comparison that is not withheld is of the journey shown and says what its
\* evidence allows.
LEMMA ComparisonBounded ==
  ASSUME NEW j, NEW record, assembleComparison(j, record) # Withheld
  PROVE  /\ record.subject = j
         /\ record.declaredPattern = patternClaimEligible(record)
         /\ assembleComparison(j, record).pattern => record.peers >= 3
<1>1. record.subject = j
  BY DEF assembleComparison
<1>2. analysisIntegrity(record)
  BY <1>1 DEF assembleComparison, Withheld
<1>3. assembleComparison(j, record).pattern => patternClaimEligible(record)
  BY <1>1 DEF assembleComparison
<1> QED BY <1>1, <1>2, <1>3 DEF analysisIntegrity, patternClaimEligible, minimumComparisonCountMet

\* DiagnosisSound for any catalog, answers, claims and requests: it follows from
\* how a diagnosis is assembled, whatever the state.
LEMMA DiagnosisIsSound == DiagnosisSound
<1> DEFINE d == assembleDiagnosis
<1>1. \A h \in Hypotheses :
        /\ h.cited # {} /\ h.cited \subseteq ActiveEvents
        /\ NodeState(h.node) # "weakened"
        /\ h.supported => \E i \in ActiveEvents : events[i].answer.kinds \intersect canSupportReason # {}
  BY ClaimStands, FallbackStands DEF Hypotheses
<1>2. HypothesesStand(d)
  BY <1>1, DiagnosisShown DEF HypothesesStand
<1>3. SupportIsIndependent(d)
  <2> SUFFICES ASSUME d.status = "supported-hypothesis"
      PROVE \E i \in ActiveEvents : events[i].answer.kinds \intersect canSupportReason # {}
    BY DEF SupportIsIndependent
  <2>1. d.status = analysisStatus(resolveJourney, Hypotheses)
    BY DiagnosisShown
  <2>2. PICK h \in Hypotheses : h.supported
    BY <2>1 DEF analysisStatus
  <2> QED BY <1>1, <2>2
<1>4. NoSilentChoice(d)
  <2> SUFFICES ASSUME d.journey # "none"
      PROVE /\ Journeys[d.journey].platform = request.platform
            /\ request.journey = d.journey \/ Matches = {d.journey}
    BY DEF NoSilentChoice
  <2>1. resolveJourney \notin {"ambiguous", "none"} /\ d.journey = resolveJourney
    BY DiagnosisShown
  <2> QED BY <2>1, JourneyResolved
<1>5. ComparisonAgrees(d)
  <2> SUFFICES ASSUME d.comparison # Withheld
      PROVE /\ request.comparison.subject = d.journey
            /\ request.comparison.declaredPattern = patternClaimEligible(request.comparison)
            /\ d.comparison.pattern => request.comparison.peers >= 3
    BY DEF ComparisonAgrees
  <2>1. d.journey = resolveJourney
        /\ d.comparison = assembleComparison(resolveJourney, request.comparison)
    BY DiagnosisShown
  <2> HIDE DEF d
  <2> QED BY <2>1, ComparisonBounded
<1> QED BY <1>2, <1>3, <1>4, <1>5 DEF DiagnosisSound

\* DiagnosisSound in every state of the case and its claims.
THEOREM DiagnosisStaysSound == AssemblySpec => []DiagnosisSound
BY DiagnosisIsSound, PTL DEF AssemblySpec
=============================================================================
