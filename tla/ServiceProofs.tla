---------------------------- MODULE ServiceProofs ----------------------------
(***************************************************************************)
(* Proofs about the services around a search: the circuit breaker, for any *)
(* number of tasks, any threshold and any number of half-open calls; of    *)
(* the LLM gateway the token bucket, for every limit, burst, window and    *)
(* deployment, the streams, wherever the network cuts them, and what it    *)
(* says it serves; of the video pipeline deletions and what a call         *)
(* reports, for every video and configuration; and the probes of the       *)
(* retrieval service.                                                      *)
(***************************************************************************)
EXTENDS CircuitBreaker, LlmGateway, VideoPipeline, ServiceHealth, FiniteSetTheorems,
        SequenceTheorems, WellFoundedInduction, TLAPS

----------------------------------------------------------------------------
(* The circuit breaker.                                                    *)

\* What adding or removing one call does to the number of probes.
LEMMA ProbeCount ==
    ASSUME IsFiniteSet(Calls), NEW P, P \subseteq Calls, NEW c \in Calls
    PROVE  /\ Cardinality(P) \in Nat
           /\ Cardinality(P \ {c}) = IF c \in P THEN Cardinality(P) - 1 ELSE Cardinality(P)
           /\ Cardinality(P \cup {c}) = IF c \in P THEN Cardinality(P) ELSE Cardinality(P) + 1
<1>1. IsFiniteSet(P)
      BY FS_Subset
<1> QED BY <1>1, FS_CardinalityType, FS_RemoveElement, FS_AddElement

\* No probes, no slots taken.
LEMMA NoProbes == Cardinality({}) = 0
BY FS_EmptySet

\* The invariant holds initially: no call has been admitted.
LEMMA InvInit == Init => Inv
<1> SUFFICES ASSUME Init PROVE Inv
    OBVIOUS
<1>1. Cardinality(probes) = 0
      BY NoProbes, Zenon DEF Init
<1> QED BY <1>1, ConstantsAssumption DEF Init, Inv, TypeOK

\* A saturating counter stays within its bound and only stops at it.
LEMMA SaturateBound ==
    ASSUME NEW n \in 0..Threshold
    PROVE  /\ Saturate(n + 1) \in 0..Threshold
           /\ n < Threshold => Saturate(n + 1) = n + 1
BY ConstantsAssumption DEF Saturate

\* Every step of a task, reset and the passing of time preserve the invariant.
LEMMA InvStep ==
    ASSUME Inv, [Next]_vars
    PROVE  Inv'
<1> USE ConstantsAssumption DEF Inv, TypeOK, Goto
<1>1. ASSUME NEW c \in Calls, Begin(c) PROVE Inv'
      BY <1>1 DEF Begin
<1>2. ASSUME NEW c \in Calls, Admit(c) PROVE Inv'
  <2>1. c \notin probes /\ c \notin CheckedProbes
        BY <1>2 DEF Admit, CheckedProbes
  <2>2. /\ CheckedProbes \subseteq Calls
        /\ CheckedSlots \in 0..HalfOpenMax
        /\ Cardinality(CheckedProbes) <= CheckedSlots
        /\ "calling" \notin CancelPoints => CheckedSlots = Cardinality(CheckedProbes)
        BY NoProbes DEF CheckedProbes, CheckedSlots
  <2>3. /\ Cardinality(CheckedProbes) \in Nat
        /\ Cardinality(CheckedProbes \cup {c}) = Cardinality(CheckedProbes) + 1
        BY <2>1, <2>2, ProbeCount
  <2>4. CASE Checked = "CLOSED"
        BY <1>2, <2>4 DEF Admit, Checked
  <2>5. CASE Checked = "HALF_OPEN"
    <3>1. /\ slots' = CheckedSlots + 1 /\ ~(CheckedSlots >= HalfOpenMax)
          /\ probes' = CheckedProbes \cup {c}
          /\ state' = "HALF_OPEN" /\ pc' = [pc EXCEPT ![c] = "calling"]
          /\ UNCHANGED <<failures, timer, lock, streak, service>>
          BY <1>2, <2>5 DEF Admit, Full
    <3>2. timer = "elapsed"
          BY <2>5 DEF Checked
    <3>3. \A d \in CheckedProbes : pc[d] = "calling"
          BY DEF CheckedProbes
    <3> QED BY <2>2, <2>3, <3>1, <3>2, <3>3
  <2> QED BY <1>2, <2>4, <2>5 DEF Admit
<1>3. ASSUME NEW c \in Calls, Reject(c) PROVE Inv'
      BY <1>3, NoProbes DEF Reject, Checked, CheckedSlots, CheckedProbes, Full
<1>4. ASSUME NEW c \in Calls, record_success(c) PROVE Inv'
      BY <1>4, NoProbes DEF record_success
<1>5. ASSUME NEW c \in Calls, record_failure(c) PROVE Inv'
  <2>1. /\ failures' \in 0..Threshold /\ streak' \in 0..Threshold
        /\ state = "CLOSED" /\ failures' < Threshold => failures' = streak'
        BY <1>5, SaturateBound DEF record_failure
  <2>2. state' = "CLOSED" => state = "CLOSED" /\ failures' < Threshold
        BY <1>5 DEF record_failure
  <2>3. state = "HALF_OPEN" => Cardinality(probes') = 0
        BY <1>5, NoProbes, Zenon DEF record_failure
  <2> QED BY <1>5, <2>1, <2>2, <2>3 DEF record_failure
<1>6. ASSUME NEW c \in Calls, FallbackEnds(c) PROVE Inv'
      BY <1>6 DEF FallbackEnds
<1>7. ASSUME NEW c \in Calls, Cancel(c) PROVE Inv'
  <2>1. /\ Cardinality(probes) \in Nat
        /\ Cardinality(probes \ {c}) = IF c \in probes THEN Cardinality(probes) - 1
                                                     ELSE Cardinality(probes)
        BY ProbeCount
  <2> QED BY <1>7, <2>1 DEF Cancel
<1>8. CASE Reset
  <2>1. Cardinality(probes') = 0
        BY <1>8, NoProbes, Zenon DEF Reset
  <2> QED BY <1>8, <2>1 DEF Reset
<1>9. CASE Elapse
      BY <1>9 DEF Elapse
<1>10. CASE ServiceRecovers
      BY <1>10 DEF ServiceRecovers
<1>11. CASE UNCHANGED vars
      BY <1>11 DEF vars
<1> QED BY <1>1, <1>2, <1>3, <1>4, <1>5, <1>6, <1>7, <1>8, <1>9, <1>10, <1>11
        DEF Next, Enter, Return

\* The counters of the breaker agree with the calls in flight.
THEOREM InvHolds == Spec => []Inv
<1>1. Inv /\ [Next]_vars => Inv'
      BY InvStep
<1> QED BY <1>1, InvInit, PTL DEF Spec

\* Every variable of the breaker keeps its type.
THEOREM TypeCorrect == Spec => []TypeOK
<1>1. Inv => TypeOK
      BY DEF Inv
<1> QED BY <1>1, InvHolds, PTL

\* A service that failed Threshold times in a row is shielded from calls until
\* recovery_timeout has passed since its last failure.
THEOREM ServiceIsShielded == Spec => []Shielded
<1>1. Inv => Shielded
      BY ConstantsAssumption DEF Inv, TypeOK, Shielded
<1> QED BY <1>1, InvHolds, PTL

\* No more than half_open_max_calls test a recovering service at once.
THEOREM ProbesAreLimited == Spec => []ProbesLimited
<1>1. Inv => ProbesLimited
  <2> SUFFICES ASSUME Inv PROVE Cardinality(probes) <= HalfOpenMax
      BY DEF ProbesLimited
  <2>1. Cardinality(probes) \in Nat
    <3>1. IsFiniteSet(probes)
          BY ConstantsAssumption, FS_Subset DEF Inv, TypeOK
    <3> QED BY <3>1, FS_CardinalityType
  <2> QED BY <2>1, ConstantsAssumption DEF Inv, TypeOK
<1> QED BY <1>1, InvHolds, PTL

\* Unless a protected call is cancelled, a half-open circuit rejects calls only
\* while one it let through is still to end.
THEOREM RejectionsEnd ==
    ASSUME "calling" \notin CancelPoints
    PROVE  Spec => []RejectsOnlyWhileProbing
<1>1. Inv => RejectsOnlyWhileProbing
      BY ConstantsAssumption, NoProbes DEF Inv, RejectsOnlyWhileProbing
<1> QED BY <1>1, InvHolds, PTL

----------------------------------------------------------------------------
(* The token bucket. The induction needs more than the bound itself: what   *)
(* has been admitted since any moment, plus what the bucket holds now, is   *)
(* within the burst and the refill since that moment.                       *)

USE GatewayAssumption

----------------------------------------------------------------------------
(* Counting: times is the sequence of the moments of admission.            *)

Moments(times, from, to) == {i \in 1 .. Len(times) : times[i] \in from .. to}

Count(times, from, to) == Cardinality(Moments(times, from, to))

\* The number of admissions in a stretch of time is a natural number.
LEMMA CountNat ==
    ASSUME NEW times \in Seq(Nat), NEW from, NEW to
    PROVE  Count(times, from, to) \in Nat
<1>1. IsFiniteSet(1 .. Len(times))
      BY FS_Interval
<1>2. Moments(times, from, to) \subseteq 1 .. Len(times)
      BY DEF Moments
<1> QED BY <1>1, <1>2, FS_Subset, FS_CardinalityType DEF Count

\* An admission now adds one to every stretch that reaches to now.
LEMMA CountAppend ==
    ASSUME NEW times \in Seq(Nat), NEW now \in Nat, NEW from \in Nat, NEW to \in Nat
    PROVE  Count(Append(times, now), from, to)
               = Count(times, from, to) + (IF now \in from .. to THEN 1 ELSE 0)
<1> DEFINE n == Len(times) + 1
           later == Append(times, now)
<1>1. /\ IsFiniteSet(Moments(times, from, to))
      /\ Count(times, from, to) \in Nat
  <2>1. IsFiniteSet(1 .. Len(times)) /\ Moments(times, from, to) \subseteq 1 .. Len(times)
        BY FS_Interval DEF Moments
  <2> QED BY <2>1, FS_Subset, CountNat
<1>2. /\ Len(later) = n /\ later[n] = now
      /\ \A i \in 1 .. Len(times) : later[i] = times[i]
      OBVIOUS
<1>3. n \notin Moments(times, from, to)
      BY DEF Moments
<1>4. Moments(later, from, to) = IF now \in from .. to THEN Moments(times, from, to) \cup {n}
                                 ELSE Moments(times, from, to)
      BY <1>2 DEF Moments
<1>5. Cardinality(Moments(times, from, to) \cup {n}) = Count(times, from, to) + 1
      BY <1>1, <1>3, FS_AddElement DEF Count
<1> QED BY <1>1, <1>4, <1>5 DEF Count

\* A stretch that ends after the last admission counts no more than one that
\* ends with it.
LEMMA CountLater ==
    ASSUME NEW times \in Seq(Nat), NEW now \in Nat, NEW from \in Nat,
           \A i \in 1 .. Len(times) : times[i] <= now
    PROVE  /\ Count(times, from, now + 1) = Count(times, from, now)
           /\ from > now => Count(times, from, now + 1) = 0
<1>1. Moments(times, from, now + 1) = Moments(times, from, now)
      BY DEF Moments
<1>2. from > now => Moments(times, from, now + 1) = {}
      BY DEF Moments
<1> QED BY <1>1, <1>2, FS_EmptySet DEF Count

----------------------------------------------------------------------------
(* Products: the prover is given each one as a number of its own.          *)

LEMMA ProductNat == ASSUME NEW a \in Nat, NEW b \in Nat PROVE a * b \in Nat
OBVIOUS

LEMMA QuotientNat == ASSUME NEW a \in Nat, NEW b \in Nat \ {0} PROVE a \div b \in Nat
OBVIOUS

LEMMA ProductStep == ASSUME NEW a \in Int, NEW b \in Int PROVE (a + 1) * b = a * b + b
OBVIOUS

LEMMA ProductZero == ASSUME NEW b \in Int PROVE 0 * b = 0
OBVIOUS

----------------------------------------------------------------------------
(* The limiter, as a function of what it consists of.                      *)

Worth(b, now, limit, full) ==
    IF b.exists THEN Least(b.tokens + (now - b.last) * limit, full) ELSE full

KnownBuckets(now) == {None} \cup [exists : {TRUE}, tokens : Nat, last : 0 .. now]

\* What the arithmetic rests on: the past is past.
PastOnly(times, b, now) ==
    /\ b \in KnownBuckets(now)
    /\ times \in Seq(Nat)
    /\ \A i \in 1 .. Len(times) : times[i] <= now

\* From any moment on, the requests admitted and the tokens left are no more
\* than the burst and what has been refilled since.
Budget(times, worth, now, limit, full) ==
    \A from \in 0 .. now :
        Count(times, from, now) * WindowTicks + worth <= full + (now - from) * limit

RateKept(times, now, limit, full) ==
    \A from, to \in 0 .. now : from <= to =>
        Count(times, from, to) * WindowTicks <= full + (to - from) * limit

\* The bucket never holds more than the burst, nor less than nothing.
LEMMA WorthNat ==
    ASSUME NEW now \in Nat, NEW limit \in Nat, NEW full \in Nat, NEW b \in KnownBuckets(now)
    PROVE  Worth(b, now, limit, full) \in 0 .. full
<1>1. CASE b = None
      BY <1>1 DEF Worth, None
<1>2. CASE b \in [exists : {TRUE}, tokens : Nat, last : 0 .. now]
  <2>0. b.exists /\ b.tokens \in Nat /\ b.last \in 0 .. now
        BY <1>2
  <2>1. b.exists /\ b.tokens \in Nat /\ now - b.last \in Nat
        BY <2>0
  <2>2. (now - b.last) * limit \in Nat
        BY <2>1, ProductNat
  <2> QED BY <2>1, <2>2 DEF Worth, Least
<1> QED BY <1>1, <1>2 DEF KnownBuckets

\* A bucket just written is worth what was put in.
LEMMA WorthWritten ==
    ASSUME NEW now \in Nat, NEW limit \in Nat, NEW full \in Nat, NEW n \in 0 .. full
    PROVE  LET b == [exists |-> TRUE, tokens |-> n, last |-> now]
           IN  b \in KnownBuckets(now) /\ Worth(b, now, limit, full) = n
<1> DEFINE b == [exists |-> TRUE, tokens |-> n, last |-> now]
<1>1. b \in KnownBuckets(now)
      BY DEF KnownBuckets
<1>2. b.exists /\ b.tokens = n /\ b.last = now
      OBVIOUS
<1>3. now - now = 0 /\ 0 * limit = 0
      BY ProductZero
<1> HIDE DEF b
<1>4. Worth(b, now, limit, full) = n
      BY <1>2, <1>3 DEF Worth, Least
<1> QED BY <1>1, <1>4 DEF b

\* In a tick the bucket gains at most the rate.
LEMMA WorthTick ==
    ASSUME NEW now \in Nat, NEW limit \in Nat, NEW full \in Nat, NEW b \in KnownBuckets(now)
    PROVE  Worth(b, now + 1, limit, full) <= Worth(b, now, limit, full) + limit
<1>1. CASE b = None
      BY <1>1 DEF Worth, None
<1>2. CASE b \in [exists : {TRUE}, tokens : Nat, last : 0 .. now]
  <2>0. b.exists /\ b.tokens \in Nat /\ b.last \in 0 .. now
        BY <1>2
  <2>1. b.exists /\ b.tokens \in Nat /\ now - b.last \in Nat /\ b.last \in Nat
        BY <2>0
  <2>2. (now - b.last) * limit \in Nat
        BY <2>1, ProductNat
  <2>3. (now + 1) - b.last = (now - b.last) + 1
        BY <2>1
  <2>4. ((now - b.last) + 1) * limit = (now - b.last) * limit + limit
        BY <2>1, ProductStep
  <2>5. ((now + 1) - b.last) * limit = (now - b.last) * limit + limit
        BY <2>3, <2>4
  <2> QED BY <2>1, <2>2, <2>5 DEF Worth, Least
<1> QED BY <1>1, <1>2 DEF KnownBuckets

----------------------------------------------------------------------------
(* The budget over a step of the limiter.                                  *)

\* A token bought: every stretch that reaches to now counts one more.
LEMMA BudgetBuy ==
    ASSUME NEW times \in Seq(Nat), NEW now \in Nat, NEW limit \in Nat, NEW full \in Nat,
           NEW worth \in Nat, worth >= WindowTicks,
           Budget(times, worth, now, limit, full), RateKept(times, now, limit, full)
    PROVE  /\ Budget(Append(times, now), worth - WindowTicks, now, limit, full)
           /\ RateKept(Append(times, now), now, limit, full)
<1> DEFINE later == Append(times, now)
<1>1. ASSUME NEW from \in 0 .. now
      PROVE  /\ Count(later, from, now) * WindowTicks + (worth - WindowTicks)
                    <= full + (now - from) * limit
             /\ Count(later, from, now) * WindowTicks <= full + (now - from) * limit
  <2>1. Count(later, from, now) = Count(times, from, now) + 1
        BY CountAppend, CountNat
  <2>2. Count(times, from, now) \in Nat
        BY CountNat
  <2>3. Count(later, from, now) * WindowTicks = Count(times, from, now) * WindowTicks + WindowTicks
        BY <2>1, <2>2, ProductStep
  <2>4. Count(times, from, now) * WindowTicks \in Nat /\ (now - from) * limit \in Nat
        BY <2>2, ProductNat, now - from \in Nat
  <2>5. Count(times, from, now) * WindowTicks + worth <= full + (now - from) * limit
        BY DEF Budget
  <2> QED BY <2>3, <2>4, <2>5
<1>2. Budget(later, worth - WindowTicks, now, limit, full)
      BY <1>1 DEF Budget
<1>3. ASSUME NEW from \in 0 .. now, NEW to \in 0 .. now, from <= to
      PROVE  Count(later, from, to) * WindowTicks <= full + (to - from) * limit
  <2>1. CASE to = now
        BY <1>1, <2>1
  <2>2. CASE to < now
    <3>1. Count(later, from, to) = Count(times, from, to)
          BY <2>2, CountAppend, CountNat
    <3> QED BY <1>3, <3>1 DEF RateKept
  <2> QED BY <2>1, <2>2
<1>4. RateKept(later, now, limit, full)
      BY <1>3 DEF RateKept
<1> QED BY <1>2, <1>4

\* A bucket that holds less keeps the budget.
LEMMA BudgetLess ==
    ASSUME NEW times \in Seq(Nat), NEW now \in Nat, NEW limit \in Nat, NEW full \in Nat,
           NEW worth \in Nat, NEW n \in 0 .. worth, Budget(times, worth, now, limit, full)
    PROVE  Budget(times, n, now, limit, full)
<1> SUFFICES ASSUME NEW from \in 0 .. now
             PROVE  Count(times, from, now) * WindowTicks + n <= full + (now - from) * limit
    BY DEF Budget
<1>1. Count(times, from, now) * WindowTicks \in Nat /\ (now - from) * limit \in Nat
      BY CountNat, ProductNat, now - from \in Nat
<1>2. Count(times, from, now) * WindowTicks + worth <= full + (now - from) * limit
      BY DEF Budget
<1> QED BY <1>1, <1>2

\* A tick refills at most the rate and admits nothing.
LEMMA BudgetTick ==
    ASSUME NEW times \in Seq(Nat), NEW now \in Nat, NEW limit \in Nat, NEW full \in Nat,
           \A i \in 1 .. Len(times) : times[i] <= now,
           NEW worth \in Nat, NEW after \in 0 .. full, after <= worth + limit,
           Budget(times, worth, now, limit, full), RateKept(times, now, limit, full)
    PROVE  /\ Budget(times, after, now + 1, limit, full)
           /\ RateKept(times, now + 1, limit, full)
<1>1. ASSUME NEW from \in 0 .. now + 1
      PROVE  /\ Count(times, from, now + 1) * WindowTicks + after
                    <= full + ((now + 1) - from) * limit
             /\ Count(times, from, now + 1) * WindowTicks <= full + ((now + 1) - from) * limit
  <2>1. CASE from = now + 1
    <3>1. Count(times, from, now + 1) = 0 /\ (now + 1) - from = 0
          BY <2>1, CountLater
    <3>2. Count(times, from, now + 1) * WindowTicks = 0 /\ ((now + 1) - from) * limit = 0
          BY <3>1, ProductZero
    <3> QED BY <3>2
  <2>2. CASE from \in 0 .. now
    <3>1. Count(times, from, now + 1) = Count(times, from, now)
          BY <2>2, CountLater
    <3>2. Count(times, from, now) * WindowTicks + worth <= full + (now - from) * limit
          BY <2>2 DEF Budget
    <3>3. now - from \in Nat /\ (now + 1) - from = (now - from) + 1
          BY <2>2
    <3>4. ((now + 1) - from) * limit = (now - from) * limit + limit
          BY <3>3, ProductStep
    <3>5. Count(times, from, now) * WindowTicks \in Nat /\ (now - from) * limit \in Nat
          BY <3>3, CountNat, ProductNat
    <3> QED BY <3>1, <3>2, <3>4, <3>5
  <2> QED BY <2>1, <2>2
<1>2. Budget(times, after, now + 1, limit, full)
      BY <1>1 DEF Budget
<1>3. ASSUME NEW from \in 0 .. now + 1, NEW to \in 0 .. now + 1, from <= to
      PROVE  Count(times, from, to) * WindowTicks <= full + (to - from) * limit
  <2>1. CASE to = now + 1
        BY <1>1, <2>1
  <2>2. CASE to \in 0 .. now
    <3>1. from \in 0 .. now
          BY <1>3, <2>2
    <3> QED BY <1>3, <2>2, <3>1 DEF RateKept
  <2> QED BY <2>1, <2>2
<1>4. RateKept(times, now + 1, limit, full)
      BY <1>3 DEF RateKept
<1> QED BY <1>2, <1>4

----------------------------------------------------------------------------
(* The invariant.                                                          *)

AnyServer == [host : {"gateway", "embedding"}, embed : {"off", "loaded"},
              rerank : {"off", "loaded", "failed"}, chat : {"off", "loaded"},
              limiting : BOOLEAN, limit : Nat, state : {"up", "draining", "gone"}]

LimiterInv ==
    /\ server \in AnyServer /\ tick \in Nat
    /\ PastOnly(admitted, bucket, tick)
    /\ Budget(admitted, Level(bucket), tick, server.limit, FullBucket)
    /\ RateKept(admitted, tick, server.limit, FullBucket)

LEMMA FullNat == ASSUME server \in AnyServer PROVE server.limit \in Nat /\ FullBucket \in Nat
<1>1. server.limit \in Nat
      BY DEF AnyServer
<1>2. server.limit * BurstNum \in Nat
      BY <1>1, ProductNat
<1>3. Burst \in Nat
      BY <1>2, QuotientNat DEF Burst
<1> QED BY <1>1, <1>3, ProductNat DEF FullBucket

LEMMA LevelIsWorth == Level(bucket) = Worth(bucket, tick, server.limit, FullBucket)
BY DEF Level, Worth

\* What the bucket holds, and that the invariant implies the property.
LEMMA LimiterFacts ==
    ASSUME LimiterInv
    PROVE  /\ server.limit \in Nat /\ FullBucket \in Nat /\ tick \in Nat
           /\ Level(bucket) \in 0 .. FullBucket
           /\ RateBounded
<1>1. server.limit \in Nat /\ FullBucket \in Nat /\ tick \in Nat
      BY FullNat DEF LimiterInv
<1>2. Level(bucket) \in 0 .. FullBucket
  <2>1. bucket \in KnownBuckets(tick)
        BY DEF LimiterInv, PastOnly
  <2>2. Worth(bucket, tick, server.limit, FullBucket) \in 0 .. FullBucket
        BY <1>1, <2>1, WorthNat
  <2> QED BY <2>2, LevelIsWorth
<1>3. \A from, to : AdmittedIn(from, to) = Count(admitted, from, to)
      BY DEF AdmittedIn, Count, Moments
<1>4. RateBounded
      BY <1>3 DEF LimiterInv, RateKept, RateBounded
<1> QED BY <1>1, <1>2, <1>4

\* The steps that the limiter has no part in.
LEMMA Aside ==
    ASSUME LimiterInv, UNCHANGED <<tick, bucket, admitted>>,
           server' \in AnyServer, server'.limit = server.limit
    PROVE  LimiterInv'
<1>1. FullBucket' = FullBucket
      BY DEF FullBucket, Burst
<1>2. Level(bucket)' = Level(bucket)
      BY <1>1 DEF Level
<1> QED BY <1>1, <1>2 DEF LimiterInv

\* Of a step that writes the bucket: what it holds afterwards.
LEMMA Written ==
    ASSUME LimiterInv, UNCHANGED <<server, tick>>, NEW n \in 0 .. FullBucket, bucket' = Bucket(n)
    PROVE  /\ FullBucket' = FullBucket /\ Level(bucket)' = n
           /\ bucket' \in KnownBuckets(tick)
<1>1. server.limit \in Nat /\ FullBucket \in Nat /\ tick \in Nat
      BY LimiterFacts
<1>2. FullBucket' = FullBucket
      BY DEF FullBucket, Burst
<1>3. Bucket(n) \in KnownBuckets(tick) /\ Worth(Bucket(n), tick, server.limit, FullBucket) = n
      BY <1>1, WorthWritten DEF Bucket
<1>4. Level(bucket)' = Worth(Bucket(n), tick, server.limit, FullBucket)
      BY <1>2 DEF Level, Worth
<1> QED BY <1>2, <1>3, <1>4

LEMMA Admitting ==
    ASSUME LimiterInv, UNCHANGED <<server, tick>>, Level(bucket) >= WindowTicks,
           bucket' = Bucket(Level(bucket) - WindowTicks), admitted' = Append(admitted, tick)
    PROVE  LimiterInv'
<1>1. /\ Level(bucket) \in 0 .. FullBucket /\ FullBucket \in Nat /\ tick \in Nat
      /\ server.limit \in Nat
      BY LimiterFacts
<1>2. Level(bucket) - WindowTicks \in 0 .. FullBucket
      BY <1>1
<1>3. /\ FullBucket' = FullBucket /\ Level(bucket)' = Level(bucket) - WindowTicks
      /\ bucket' \in KnownBuckets(tick)
      BY <1>2, Written
<1>4. /\ Budget(Append(admitted, tick), Level(bucket) - WindowTicks, tick, server.limit, FullBucket)
      /\ RateKept(Append(admitted, tick), tick, server.limit, FullBucket)
      BY <1>1, BudgetBuy DEF LimiterInv, PastOnly
<1>5. PastOnly(admitted', bucket', tick)
      BY <1>1, <1>3 DEF LimiterInv, PastOnly
<1> QED BY <1>3, <1>4, <1>5 DEF LimiterInv

\* A look at the bucket that buys nothing, or that finds it without a rate.
LEMMA Refusing ==
    ASSUME LimiterInv, UNCHANGED <<server, tick, admitted>>,
           NEW n \in 0 .. Level(bucket), bucket' = Bucket(n)
    PROVE  LimiterInv'
<1>1. /\ Level(bucket) \in 0 .. FullBucket /\ FullBucket \in Nat /\ tick \in Nat
      /\ server.limit \in Nat
      BY LimiterFacts
<1>2. n \in 0 .. FullBucket
      BY <1>1
<1>3. FullBucket' = FullBucket /\ Level(bucket)' = n /\ bucket' \in KnownBuckets(tick)
      BY <1>2, Written
<1>4. Budget(admitted, n, tick, server.limit, FullBucket)
      BY <1>1, BudgetLess DEF LimiterInv, PastOnly
<1> QED BY <1>3, <1>4 DEF LimiterInv, PastOnly

LEMMA Ticking ==
    ASSUME LimiterInv, UNCHANGED <<server, bucket, admitted>>, tick' = tick + 1
    PROVE  LimiterInv'
<1>1. /\ Level(bucket) \in 0 .. FullBucket /\ FullBucket \in Nat /\ tick \in Nat
      /\ server.limit \in Nat
      BY LimiterFacts
<1>2. FullBucket' = FullBucket
      BY DEF FullBucket, Burst
<1>3. bucket \in KnownBuckets(tick) /\ bucket \in KnownBuckets(tick + 1)
  <2>1. bucket \in KnownBuckets(tick)
        BY DEF LimiterInv, PastOnly
  <2>2. 0 .. tick \subseteq 0 .. tick + 1
        BY <1>1
  <2>3. [exists : {TRUE}, tokens : Nat, last : 0 .. tick]
            \subseteq [exists : {TRUE}, tokens : Nat, last : 0 .. tick + 1]
        BY <2>2
  <2> QED BY <2>1, <2>3 DEF KnownBuckets
<1>4. Level(bucket)' = Worth(bucket, tick + 1, server.limit, FullBucket)
      BY <1>2 DEF Level, Worth
<1>5. Level(bucket)' \in 0 .. FullBucket
  <2>1. tick + 1 \in Nat
        BY <1>1
  <2>2. Worth(bucket, tick + 1, server.limit, FullBucket) \in 0 .. FullBucket
        BY <1>1, <1>3, <2>1, WorthNat
  <2> QED BY <1>4, <2>2
<1>6. Level(bucket)' <= Level(bucket) + server.limit
      BY <1>1, <1>3, <1>4, LevelIsWorth, WorthTick
<1>7. PastOnly(admitted, bucket, tick + 1)
      BY <1>1, <1>3 DEF LimiterInv, PastOnly
<1>8. /\ Budget(admitted, Level(bucket)', tick + 1, server.limit, FullBucket)
      /\ RateKept(admitted, tick + 1, server.limit, FullBucket)
  <2>1. admitted \in Seq(Nat) /\ \A i \in 1 .. Len(admitted) : admitted[i] <= tick
        BY DEF LimiterInv, PastOnly
  <2>2. /\ Budget(admitted, Level(bucket), tick, server.limit, FullBucket)
        /\ RateKept(admitted, tick, server.limit, FullBucket)
        BY DEF LimiterInv
  <2>3. Level(bucket) \in Nat
        BY <1>1
  <2> QED BY <1>1, <1>5, <1>6, <2>1, <2>2, <2>3, BudgetTick
<1> QED BY <1>1, <1>2, <1>7, <1>8 DEF LimiterInv

----------------------------------------------------------------------------

LEMMA LimiterInit == GatewayInit => LimiterInv
<1> SUFFICES ASSUME GatewayInit PROVE LimiterInv
    OBVIOUS
<1>1. server \in AnyServer
      BY DEF GatewayInit, Servers, AnyServer
<1>2. tick = 0 /\ bucket = None /\ admitted = <<>>
      BY DEF GatewayInit
<1>3. PastOnly(admitted, bucket, tick)
      BY <1>2 DEF PastOnly, KnownBuckets
<1>4. Moments(<<>>, 0, 0) = {}
      BY DEF Moments
<1>5. Count(<<>>, 0, 0) = 0
      BY <1>4, FS_EmptySet DEF Count
<1>6. FullBucket \in Nat /\ server.limit \in Nat
      BY <1>1, FullNat
<1>7. Level(bucket) = FullBucket
      BY <1>2 DEF Level, None
<1>8. 0 * WindowTicks = 0 /\ (0 - 0) * server.limit = 0
      BY <1>6, ProductZero
<1> QED BY <1>1, <1>2, <1>3, <1>5, <1>6, <1>7, <1>8 DEF LimiterInv, Budget, RateKept

LEMMA LimiterStep == LimiterInv /\ [GatewayNext]_gatewayVars => LimiterInv'
<1> SUFFICES ASSUME LimiterInv, [GatewayNext]_gatewayVars PROVE LimiterInv'
    OBVIOUS
<1>0. Level(bucket) \in 0 .. FullBucket /\ FullBucket \in Nat
      BY LimiterFacts
<1>1. ASSUME NEW c \in Callers, Arrive(c) PROVE LimiterInv'
  <2>1. PICK ask \in Asks[c] :
           \/ AdmitCall(c, [at |-> "handling", route |-> ask[1], input |-> ask[2]])
           \/ Refuse(c)
           \/ Abort(c)
        BY <1>1 DEF Arrive
  <2>2. UNCHANGED <<server, tick>>
        BY <1>1 DEF Arrive
  <2>3. CASE AdmitCall(c, [at |-> "handling", route |-> ask[1], input |-> ask[2]])
    <3>1. CASE server.limiting
          BY <2>2, <2>3, <3>1, Admitting DEF AdmitCall
    <3>2. CASE ~server.limiting
          BY <2>2, <2>3, <3>2, Aside DEF AdmitCall, LimiterInv
    <3> QED BY <3>1, <3>2
  <2>4. CASE Refuse(c)
    <3>1. bucket' = Bucket(Level(bucket)) /\ UNCHANGED admitted
          BY <2>4 DEF Refuse
    <3> QED BY <1>0, <2>2, <3>1, Refusing
  <2>5. CASE Abort(c)
    <3>1. bucket' = Bucket(0) /\ UNCHANGED admitted
          BY <2>5 DEF Abort
    <3> QED BY <1>0, <2>2, <3>1, Refusing
  <2> QED BY <2>1, <2>3, <2>4, <2>5
<1>2. ASSUME NEW c \in Callers, Probe(c) \/ Health(c) \/ Handle(c) PROVE LimiterInv'
  <2>1. UNCHANGED <<server, tick, bucket, admitted>>
        BY <1>2 DEF Probe, Health, Handle, Unloaded, CheckInput, RunModel, Chat, OpenStream,
                    ListModels, NextChunk, EndStream, BreakStream
  <2> QED BY <2>1, Aside DEF LimiterInv
<1>3. CASE PassTime
      BY <1>3, Ticking DEF PassTime
<1>4. CASE Terminate
  <2>1. /\ server' \in AnyServer /\ server'.limit = server.limit
        /\ UNCHANGED <<tick, bucket, admitted>>
        BY <1>4 DEF Terminate, LimiterInv, AnyServer
  <2> QED BY <2>1, Aside
<1>5. CASE UNCHANGED gatewayVars
  <2>1. UNCHANGED <<server, tick, bucket, admitted>>
        BY <1>5 DEF gatewayVars
  <2> QED BY <2>1, Aside DEF LimiterInv
<1> QED BY <1>1, <1>2, <1>3, <1>4, <1>5 DEF GatewayNext

\* The limiter of rate_limit/bucket.rs admits in no stretch of time more than
\* the burst and what the rate refills in that time.
THEOREM RateIsBounded == GatewaySpec => []RateBounded
<1>1. LimiterInv => RateBounded
      BY LimiterFacts
<1> QED BY <1>1, LimiterInit, LimiterStep, PTL DEF GatewaySpec

----------------------------------------------------------------------------
(* What a refused caller is told. It may come back when its promise is due: *)
(* then the bucket holds a token, and until then it is short of one by no   *)
(* more than what will have been refilled.                                  *)

LEMMA ProductSum ==
    ASSUME NEW a \in Int, NEW b \in Int, NEW c \in Int PROVE (a + b) * c = a * c + b * c
OBVIOUS

LEMMA ProductGrows ==
    ASSUME NEW a \in Int, NEW b \in Int, NEW c \in Nat, a <= b
    PROVE  a * c \in Int /\ b * c \in Int /\ a * c <= b * c
<1>1. b - a \in Nat /\ (b - a) + a = b
      OBVIOUS
<1>2. (b - a) * c \in Nat
      BY <1>1, ProductNat
<1>3. ((b - a) + a) * c = (b - a) * c + a * c
      BY ProductSum
<1>4. a * c \in Int /\ b * c \in Int
      OBVIOUS
<1>5. b * c = (b - a) * c + a * c
      BY <1>1, <1>3
<1> QED BY <1>2, <1>4, <1>5

\* Rounding up covers what is divided.
LEMMA CeilCovers ==
    ASSUME NEW a \in Nat, NEW b \in Nat \ {0}
    PROVE  Ceil(a, b) \in Nat /\ Ceil(a, b) * b >= a
<1>1. a + b - 1 \in Nat
      OBVIOUS
<1>2. Ceil(a, b) \in Nat
      BY <1>1, QuotientNat DEF Ceil
<1>3. Ceil(a, b) * b >= a
      BY <1>1 DEF Ceil
<1> QED BY <1>2, <1>3

\* The announced wait is long enough for the missing part of a token.
LEMMA WaitCovers ==
    ASSUME NEW level \in Nat, level < WindowTicks, server.limit \in Nat \ {0}
    PROVE  /\ RetryAfter(level) * SecondTicks \in Nat \ {0}
           /\ level + (RetryAfter(level) * SecondTicks) * server.limit >= WindowTicks
<1> DEFINE need == WindowTicks - level
           ticks == Ceil(need, server.limit)
           wait == RetryAfter(level) * SecondTicks
<1>1. need \in Nat \ {0}
      OBVIOUS
<1>2. ticks \in Nat /\ ticks * server.limit >= need
      BY <1>1, CeilCovers
<1>3. Ceil(ticks, SecondTicks) \in Nat /\ Ceil(ticks, SecondTicks) * SecondTicks >= ticks
  <2> HIDE DEF ticks
  <2> QED BY <1>2, CeilCovers
<1>4. wait \in Nat /\ wait >= ticks
  <2>1. RetryAfter(level) = Ceil(ticks, SecondTicks)
        BY DEF RetryAfter
  <2> HIDE DEF ticks
  <2> QED BY <1>3, <2>1, ProductNat
<1> HIDE DEF wait, ticks
<1>5. ticks * server.limit <= wait * server.limit /\ wait * server.limit \in Int
      BY <1>2, <1>4, ProductGrows
<1>6. wait # 0
  <2> SUFFICES ASSUME wait = 0 PROVE FALSE
      OBVIOUS
  <2>1. ticks = 0
        BY <1>2, <1>4
  <2>2. 0 * server.limit = 0
        BY ProductZero
  <2> QED BY <1>1, <1>2, <2>1, <2>2
<1>7. ticks * server.limit \in Int
      BY <1>2
<1>8. level + wait * server.limit >= WindowTicks
  <2> HIDE DEF need
  <2>1. need = WindowTicks - level
        BY DEF need
  <2> QED BY <1>1, <1>2, <1>5, <1>7, <2>1
<1> QED BY <1>4, <1>6, <1>8 DEF wait

\* In a tick the bucket gains the rate, or is full.
LEMMA WorthGains ==
    ASSUME NEW now \in Nat, NEW limit \in Nat, NEW full \in Nat, NEW b \in KnownBuckets(now)
    PROVE  \/ Worth(b, now + 1, limit, full) = full
           \/ Worth(b, now + 1, limit, full) = Worth(b, now, limit, full) + limit
<1>1. CASE b = None
      BY <1>1 DEF Worth, None
<1>2. CASE b \in [exists : {TRUE}, tokens : Nat, last : 0 .. now]
  <2>0. b.exists /\ b.tokens \in Nat /\ b.last \in 0 .. now
        BY <1>2
  <2>1. b.exists /\ b.tokens \in Nat /\ now - b.last \in Nat /\ b.last \in Nat
        BY <2>0
  <2>2. (now - b.last) * limit \in Nat
        BY <2>1, ProductNat
  <2>3. (now + 1) - b.last = (now - b.last) + 1
        BY <2>1
  <2>4. ((now - b.last) + 1) * limit = (now - b.last) * limit + limit
        BY <2>1, ProductStep
  <2>5. ((now + 1) - b.last) * limit = (now - b.last) * limit + limit
        BY <2>3, <2>4
  <2> QED BY <2>1, <2>2, <2>5 DEF Worth, Least
<1> QED BY <1>1, <1>2 DEF KnownBuckets

\* A promise that is due is kept by what the bucket holds, one that is not by
\* what it will have been refilled with.
Due(level, now, limit, when) ==
    IF when <= now THEN level >= WindowTicks
    ELSE level + (when - now) * limit >= WindowTicks

PromiseInv ==
    /\ promised \in 0 .. LastTick + 1 /\ tick \in 0 .. LastTick
    /\ server.limit > 0 /\ promised <= LastTick =>
          Due(Level(bucket), tick, server.limit, promised)

\* A burst that is no less than the limit holds a token.
LEMMA BurstHoldsToken ==
    ASSUME BurstNum >= BurstDen, server \in AnyServer, server.limit > 0
    PROVE  FullBucket >= WindowTicks
<1> DEFINE product == server.limit * BurstNum
<1>1. server.limit \in Nat /\ server.limit >= 1
      BY DEF AnyServer
<1>2. 1 * BurstNum <= product /\ 1 * BurstNum = BurstNum /\ product \in Nat
      BY <1>1, ProductGrows, ProductNat
<1>3. product >= BurstDen /\ product \in Nat
      BY <1>2
<1> HIDE DEF product
<1>4. product \div BurstDen >= 1
      BY <1>3
<1>5. product \div BurstDen \in Nat
      BY <1>3, QuotientNat
<1>6. Burst = product \div BurstDen
      BY DEF Burst, product
<1>7. 1 * WindowTicks <= Burst * WindowTicks /\ 1 * WindowTicks = WindowTicks
      BY <1>4, <1>5, <1>6, ProductGrows
<1> QED BY <1>7 DEF FullBucket

LEMMA PromiseStart == GatewayInit => PromiseInv
BY DEF GatewayInit, PromiseInv

LEMMA PromiseStep ==
    ASSUME BurstNum >= BurstDen
    PROVE  LimiterInv /\ PromiseInv /\ [GatewayNext]_gatewayVars => PromiseInv'
<1> SUFFICES ASSUME LimiterInv, PromiseInv, [GatewayNext]_gatewayVars PROVE PromiseInv'
    OBVIOUS
<1>0. /\ Level(bucket) \in 0 .. FullBucket /\ FullBucket \in Nat /\ tick \in Nat
      /\ server.limit \in Nat /\ server \in AnyServer
      BY LimiterFacts DEF LimiterInv
<1>1. ASSUME UNCHANGED <<tick, bucket, promised>>, server'.limit = server.limit PROVE PromiseInv'
  <2>1. FullBucket' = FullBucket
        BY <1>1 DEF FullBucket, Burst
  <2>2. Level(bucket)' = Level(bucket)
        BY <1>1, <2>1 DEF Level
  <2> QED BY <1>1, <2>2 DEF PromiseInv, Due
<1>2. ASSUME NEW c \in Callers, Arrive(c) PROVE PromiseInv'
  <2>1. PICK ask \in Asks[c] :
           \/ AdmitCall(c, [at |-> "handling", route |-> ask[1], input |-> ask[2]])
           \/ Refuse(c)
           \/ Abort(c)
        BY <1>2 DEF Arrive
  <2>2. UNCHANGED <<server, tick>>
        BY <1>2 DEF Arrive
  <2>3. CASE AdmitCall(c, [at |-> "handling", route |-> ask[1], input |-> ask[2]])
    <3>1. CASE server.limiting
      <4>1. promised' = LastTick + 1
            BY <2>3, <3>1 DEF AdmitCall
      <4> QED BY <2>2, <4>1 DEF PromiseInv
    <3>2. CASE ~server.limiting
          BY <1>1, <2>2, <2>3, <3>2 DEF AdmitCall
    <3> QED BY <3>1, <3>2
  <2>4. CASE Refuse(c)
    <3> DEFINE wait == RetryAfter(Level(bucket)) * SecondTicks
    <3>1. /\ server.limit > 0 /\ Level(bucket) < WindowTicks /\ bucket' = Bucket(Level(bucket))
          /\ promised' = Least(promised, tick + wait)
          BY <2>4 DEF Refuse
    <3>2. Level(bucket)' = Level(bucket)
          BY <1>0, <2>2, <3>1, Written
    <3>3. wait \in Nat \ {0} /\ Level(bucket) + wait * server.limit >= WindowTicks
          BY <1>0, <3>1, WaitCovers
    <3> HIDE DEF wait
    <3>4. promised' \in {promised, tick + wait} /\ promised' <= promised
          BY <1>0, <3>1, <3>3 DEF Least, PromiseInv
    <3>5. promised' \in 0 .. LastTick + 1 /\ tick' \in 0 .. LastTick
          BY <1>0, <2>2, <3>3, <3>4 DEF PromiseInv
    <3>6. (tick + wait) - tick = wait /\ ~(tick + wait <= tick)
          BY <1>0, <3>3
    <3>7. Due(Level(bucket), tick, server.limit, tick + wait)
          BY <3>3, <3>6 DEF Due
    <3>8. promised' <= LastTick => Due(Level(bucket), tick, server.limit, promised')
          BY <3>1, <3>4, <3>7 DEF PromiseInv
    <3> QED BY <2>2, <3>2, <3>5, <3>8 DEF PromiseInv, Due
  <2>5. CASE Abort(c)
    <3>1. server'.limit = 0 /\ UNCHANGED <<tick, promised>>
          BY <2>2, <2>5 DEF Abort
    <3> QED BY <3>1 DEF PromiseInv
  <2> QED BY <2>1, <2>3, <2>4, <2>5
<1>3. ASSUME NEW c \in Callers, Probe(c) \/ Health(c) \/ Handle(c) PROVE PromiseInv'
  <2>1. UNCHANGED <<server, tick, bucket, promised>>
        BY <1>3 DEF Probe, Health, Handle, Unloaded, CheckInput, RunModel, Chat, OpenStream,
                    ListModels, NextChunk, EndStream, BreakStream
  <2> QED BY <1>1, <2>1
<1>4. CASE PassTime
  <2>1. tick' = tick + 1 /\ tick < LastTick /\ UNCHANGED <<server, bucket, promised>>
        BY <1>4 DEF PassTime
  <2>2. FullBucket' = FullBucket
        BY <2>1 DEF FullBucket, Burst
  <2>3. Level(bucket)' = Worth(bucket, tick + 1, server.limit, FullBucket)
        BY <2>1, <2>2 DEF Level, Worth
  <2>4. bucket \in KnownBuckets(tick)
        BY DEF LimiterInv, PastOnly
  <2>5. Level(bucket)' = FullBucket \/ Level(bucket)' = Level(bucket) + server.limit
        BY <1>0, <2>3, <2>4, LevelIsWorth, WorthGains
  <2>6. tick' \in 0 .. LastTick /\ promised' \in 0 .. LastTick + 1
        BY <2>1 DEF PromiseInv
  <2>7. ASSUME server.limit > 0, promised <= LastTick
        PROVE  Due(Level(bucket)', tick + 1, server.limit, promised)
    <3>1. FullBucket >= WindowTicks
          BY <1>0, <2>7, BurstHoldsToken
    <3>2. Due(Level(bucket), tick, server.limit, promised) /\ promised \in Nat
          BY <2>7 DEF PromiseInv
    <3>3. CASE promised <= tick
      <4>1. Level(bucket)' >= WindowTicks
            BY <1>0, <2>5, <3>1, <3>2, <3>3 DEF Due
      <4> QED BY <1>0, <3>2, <3>3, <4>1 DEF Due
    <3>4. CASE promised = tick + 1
      <4>1. promised - tick = 1 /\ 1 * server.limit = server.limit /\ ~(promised <= tick)
            BY <1>0, <3>4
      <4>2. Level(bucket) + server.limit >= WindowTicks
            BY <3>2, <4>1 DEF Due
      <4>3. Level(bucket)' >= WindowTicks
            BY <1>0, <2>5, <3>1, <4>2
      <4> QED BY <3>4, <4>3 DEF Due
    <3>5. CASE promised > tick + 1
      <4> DEFINE rest == promised - (tick + 1)
      <4>1. rest \in Nat /\ promised - tick = rest + 1 /\ ~(promised <= tick)
            BY <1>0, <3>2, <3>5
      <4>2. rest * server.limit \in Nat
            BY <1>0, <4>1, ProductNat
      <4> HIDE DEF rest
      <4>3. (rest + 1) * server.limit = rest * server.limit + server.limit
        <5>1. rest \in Int /\ server.limit \in Int
              BY <1>0, <4>1
        <5> QED BY <5>1, ProductStep
      <4>4. Level(bucket) + (rest * server.limit + server.limit) >= WindowTicks
            BY <3>2, <4>1, <4>3 DEF Due
      <4>5. Level(bucket)' + rest * server.limit >= WindowTicks
            BY <1>0, <2>5, <3>1, <4>2, <4>4
      <4>6. ~(promised <= tick + 1)
            BY <1>0, <3>2, <3>5
      <4> QED BY <4>5, <4>6 DEF Due, rest
    <3> QED BY <1>0, <3>2, <3>3, <3>4, <3>5
  <2> QED BY <2>1, <2>6, <2>7 DEF PromiseInv, Due
<1>5. CASE Terminate
  <2>1. server'.limit = server.limit /\ UNCHANGED <<tick, bucket, promised>>
        BY <1>0, <1>5 DEF Terminate, AnyServer
  <2> QED BY <1>1, <2>1
<1>6. CASE UNCHANGED gatewayVars
      BY <1>1, <1>6 DEF gatewayVars
<1> QED BY <1>2, <1>3, <1>4, <1>5, <1>6 DEF GatewayNext

\* A caller that comes back after the announced Retry-After is not refused if no
\* request was admitted in between, when the burst multiplier is one at least
\* (the default is 1.5): with less, a burst may hold no token at all.
THEOREM PromisesSuffice ==
    ASSUME BurstNum >= BurstDen
    PROVE  GatewaySpec => RetryAfterSuffices
<1>1. ASSUME LimiterInv, PromiseInv, [GatewayNext]_gatewayVars
      PROVE  [bucket' # bucket /\ admitted' = admitted /\ server.limit > 0
                  => tick < promised]_gatewayVars
  <2> SUFFICES ASSUME GatewayNext, bucket' # bucket, admitted' = admitted, server.limit > 0
               PROVE  tick < promised
      BY <1>1
  <2>1. PICK c \in Callers : Arrive(c)
        BY DEF GatewayNext, Probe, Health, Handle, Unloaded, CheckInput, RunModel, Chat,
               OpenStream, ListModels, NextChunk, EndStream, BreakStream, PassTime, Terminate
  <2>2. admitted \in Seq(Nat) /\ tick \in Nat
        BY <1>1 DEF LimiterInv, PastOnly
  <2>3. Append(admitted, tick) # admitted
    <3>1. Len(Append(admitted, tick)) = Len(admitted) + 1 /\ Len(admitted) \in Nat
          BY <2>2
    <3> QED BY <3>1
  <2>4. Refuse(c)
        BY <2>1, <2>3 DEF Arrive, AdmitCall, Abort
  <2>5. Level(bucket) < WindowTicks /\ Level(bucket) \in Nat
        BY <1>1, <2>4, LimiterFacts DEF Refuse
  <2>6. promised \in 0 .. LastTick + 1 /\ tick \in 0 .. LastTick
        BY <1>1 DEF PromiseInv
  <2>7. CASE promised <= LastTick
    <3>1. Due(Level(bucket), tick, server.limit, promised)
          BY <1>1, <2>7 DEF PromiseInv
    <3> QED BY <2>5, <2>6, <3>1 DEF Due
  <2>8. CASE promised = LastTick + 1
        BY <2>6, <2>8
  <2> QED BY <2>6, <2>7, <2>8
<1>2. LimiterInv /\ PromiseInv /\ [GatewayNext]_gatewayVars => PromiseInv'
      BY PromiseStep
<1> QED BY <1>1, <1>2, LimiterInit, LimiterStep, PromiseStart, PTL DEF GatewaySpec, RetryAfterSuffices

----------------------------------------------------------------------------
(* The feed of a streamed answer.                                          *)

\* The text read so far, f.at halves of it, is cut at f.cuts.
Torn(f, n) == 2 * n - 1 \in f.cuts \cup {0}
Crowded(f, n) == \E k \in 1 .. n - 1 :
                    ~Torn(f, k) /\ \A cut \in f.cuts \cup {0} : ~(cut \in 2 * k .. 2 * n - 2)
Delivered(f, n) == \E i \in 1 .. Len(f.got) : f.got[i] = n
InOrder(got, at) ==
    /\ got \in Seq(Nat)
    /\ \A i \in 1 .. Len(got) : 2 * got[i] <= at
    /\ \A i \in 1 .. Len(got) - 1 : got[i] < got[i + 1]
FeedInv(f) ==
    /\ f.at \in 0 .. Halves /\ f.cuts \subseteq 1 .. f.at /\ f.at \in f.cuts \cup {0}
    /\ InOrder(f.got, f.at)
    /\ \A n \in 1 .. Events : 2 * n <= f.at => Delivered(f, n) \/ Torn(f, n) \/ Crowded(f, n)
FeedsInv == feed = [c \in Callers |-> feed[c]] /\ \A c \in Callers : FeedInv(feed[c])

LEMMA HalvesNat == Halves \in Nat /\ Halves = 2 * Events + 2 /\ Events \in Nat
BY GatewayAssumption DEF Halves

LEMMA FirstIsLeast ==
    ASSUME NEW ns \in SUBSET Nat, ns # {}
    PROVE  First(ns) \in ns /\ \A k \in ns : First(ns) <= k
<1>1. PICK m \in ns : \A k \in ns : ~(<<k, m>> \in OpToRel(<, Nat))
      BY NatLessThanWellFounded, WFMin
<1>2. OpToRel(<, Nat) = {pair \in Nat \X Nat : pair[1] < pair[2]}
      BY DEF OpToRel
<1>3. ASSUME NEW k \in ns PROVE m <= k
  <2> SUFFICES ASSUME k < m PROVE FALSE
      OBVIOUS
  <2>1. <<k, m>> \in {pair \in Nat \X Nat : pair[1] < pair[2]}
        OBVIOUS
  <2> QED BY <1>1, <1>2, <2>1
<1> QED BY <1>3 DEF First

\* What a chunk brings: nothing, or the first event that it holds whole.
LEMMA ChunkYields ==
    ASSUME NEW from \in 1 .. Halves, NEW to \in from .. Halves
    PROVE  \/ OutOf(from, to) = <<>> /\ \A n \in 1 .. Events : n \notin Whole(from, to)
           \/ \E m \in 1 .. Events :
                 /\ OutOf(from, to) = <<m>> /\ m \in Whole(from, to)
                 /\ \A n \in Whole(from, to) : m <= n
<1>0. Events \in Nat
      BY HalvesNat
<1>1. CASE Whole(from, to) = {}
      BY <1>1 DEF OutOf
<1>2. CASE Whole(from, to) # {}
  <2>1. Whole(from, to) \subseteq 1 .. Events + 1 /\ Whole(from, to) \in SUBSET Nat
        BY <1>0 DEF Whole
  <2>2. /\ First(Whole(from, to)) \in Whole(from, to)
        /\ \A k \in Whole(from, to) : First(Whole(from, to)) <= k
        BY <1>2, <2>1, FirstIsLeast
  <2>3. CASE First(Whole(from, to)) = Events + 1
        BY <1>0, <2>1, <2>2, <2>3 DEF OutOf
  <2>4. CASE First(Whole(from, to)) # Events + 1
        BY <1>0, <1>2, <2>1, <2>2, <2>4 DEF OutOf
  <2> QED BY <2>3, <2>4
<1> QED BY <1>1, <1>2

Fed(f, to) == [at |-> to, cuts |-> f.cuts \cup {to}, got |-> f.got \o OutOf(f.at + 1, to)]

\* A later cut neither mends nor tears an event that had passed, and does not
\* come between two of them.
LEMMA PassedStays ==
    ASSUME NEW f, FeedInv(f), NEW to \in f.at + 1 .. Halves,
           NEW n \in 1 .. Events, 2 * n <= f.at
    PROVE  (Torn(f, n) => Torn(Fed(f, to), n)) /\ (Crowded(f, n) => Crowded(Fed(f, to), n))
<1>1. f.at \in Nat /\ Halves \in Nat /\ Fed(f, to).cuts = f.cuts \cup {to} /\ Events \in Nat
      BY HalvesNat DEF FeedInv, Fed
<1>2. \A k \in 1 .. n : Torn(Fed(f, to), k) <=> Torn(f, k)
      BY <1>1 DEF Torn
<1>3. ASSUME NEW k \in 1 .. n - 1,
             \A cut \in f.cuts \cup {0} : ~(cut \in 2 * k .. 2 * n - 2)
      PROVE  \A cut \in f.cuts \cup {to} \cup {0} : ~(cut \in 2 * k .. 2 * n - 2)
      BY <1>1, <1>3
<1>4. ASSUME Crowded(f, n) PROVE Crowded(Fed(f, to), n)
  <2>1. PICK k \in 1 .. n - 1 :
           ~Torn(f, k) /\ \A cut \in f.cuts \cup {0} : ~(cut \in 2 * k .. 2 * n - 2)
        BY <1>4 DEF Crowded
  <2>2. ~Torn(Fed(f, to), k)
        BY <1>2, <2>1
  <2>3. \A cut \in Fed(f, to).cuts \cup {0} : ~(cut \in 2 * k .. 2 * n - 2)
        BY <1>1, <1>3, <2>1
  <2> QED BY <2>2, <2>3 DEF Crowded
<1> QED BY <1>2, <1>4

\* An event that this chunk brings to its end is delivered, torn or crowded out.
LEMMA NewEvents ==
    ASSUME NEW f, FeedInv(f), NEW to \in f.at + 1 .. Halves,
           NEW n \in 1 .. Events, f.at < 2 * n, 2 * n <= to
    PROVE  \/ OutOf(f.at + 1, to) = <<n>>
           \/ Torn(Fed(f, to), n)
           \/ Crowded(Fed(f, to), n)
<1>1. /\ f.at \in Nat /\ Halves \in Nat /\ Events \in Nat
      /\ Fed(f, to).cuts = f.cuts \cup {to} /\ f.cuts \subseteq 1 .. f.at
      /\ f.at \in f.cuts \cup {0}
      BY HalvesNat DEF FeedInv, Fed
<1>2. CASE f.at = 2 * n - 1
      BY <1>1, <1>2 DEF Torn
<1>3. CASE f.at # 2 * n - 1
  <2>1. n \in Whole(f.at + 1, to)
        BY <1>1, <1>3 DEF Whole
  <2>2. f.at + 1 \in 1 .. Halves /\ to \in f.at + 1 .. Halves
        BY <1>1
  <2>3. PICK m \in 1 .. Events :
           /\ OutOf(f.at + 1, to) = <<m>> /\ m \in Whole(f.at + 1, to)
           /\ m <= n
        BY <2>1, <2>2, ChunkYields
  <2>4. CASE m = n
        BY <2>3, <2>4
  <2>5. CASE m # n
    <3>1. m \in 1 .. n - 1 /\ 2 * m - 1 >= f.at + 1
          BY <1>1, <2>3, <2>5 DEF Whole
    <3>2. ~Torn(Fed(f, to), m)
          BY <1>1, <3>1 DEF Torn
    <3>3. \A cut \in f.cuts \cup {to} \cup {0} : ~(cut \in 2 * m .. 2 * n - 2)
          BY <1>1, <3>1
    <3> QED BY <1>1, <3>1, <3>2, <3>3 DEF Crowded
  <2> QED BY <2>4, <2>5
<1> QED BY <1>2, <1>3

LEMMA LaterInOrder ==
    ASSUME NEW got, NEW at \in Nat, NEW to \in Nat, at <= to, InOrder(got, at)
    PROVE  InOrder(got, to)
<1>1. got \in Seq(Nat)
      BY DEF InOrder
<1>2. ASSUME NEW i \in 1 .. Len(got) PROVE 2 * got[i] <= to
  <2>1. got[i] \in Nat
        BY <1>1
  <2>2. 2 * got[i] <= at
        BY DEF InOrder
  <2> QED BY <2>1, <2>2
<1> QED BY <1>2 DEF InOrder

LEMMA NextInOrder ==
    ASSUME NEW got, NEW at \in Nat, NEW to \in Nat, NEW m \in Nat,
           InOrder(got, at), at < 2 * m, 2 * m <= to
    PROVE  InOrder(Append(got, m), to)
<1> DEFINE s == Append(got, m)
<1>1. got \in Seq(Nat) /\ at <= to
      BY DEF InOrder
<1>2. /\ s \in Seq(Nat) /\ Len(s) = Len(got) + 1 /\ Len(got) \in Nat
      /\ \A i \in 1 .. Len(got) : s[i] = got[i]
      /\ s[Len(got) + 1] = m
      BY <1>1, AppendProperties, LenProperties
<1>3. ASSUME NEW i \in 1 .. Len(got) PROVE s[i] = got[i] /\ got[i] \in Nat /\ 2 * got[i] <= at
      BY <1>1, <1>2 DEF InOrder
<1> HIDE DEF s
<1>4. ASSUME NEW i \in 1 .. Len(s) PROVE 2 * s[i] <= to
  <2>1. CASE i \in 1 .. Len(got)
        BY <1>1, <1>3, <2>1
  <2>2. CASE i = Len(got) + 1
        BY <1>2, <2>2
  <2> QED BY <1>2, <2>1, <2>2
<1>5. ASSUME NEW i \in 1 .. Len(s) - 1 PROVE s[i] < s[i + 1]
  <2>1. CASE i \in 1 .. Len(got) - 1
    <3>1. i \in 1 .. Len(got) /\ i + 1 \in 1 .. Len(got)
          BY <1>2, <2>1
    <3>2. got[i] < got[i + 1]
          BY <2>1 DEF InOrder
    <3> QED BY <1>2, <3>1, <3>2
  <2>2. CASE i = Len(got)
    <3>1. i \in 1 .. Len(got)
          BY <1>2, <1>5, <2>2
    <3>2. s[i + 1] = m
          BY <1>2, <2>2
    <3> QED BY <1>3, <3>1, <3>2
  <2> QED BY <1>2, <2>1, <2>2
<1>6. InOrder(s, to)
      BY <1>2, <1>4, <1>5 DEF InOrder
<1> QED BY <1>6 DEF s

\* Reading on keeps the invariant of a stream.
LEMMA FeedStep ==
    ASSUME NEW f, FeedInv(f), NEW to \in f.at + 1 .. Halves
    PROVE  FeedInv(Fed(f, to))
<1> DEFINE g == Fed(f, to)
<1>1. /\ f.at \in Nat /\ Halves \in Nat /\ Events \in Nat /\ f.got \in Seq(Nat)
      /\ f.cuts \subseteq 1 .. f.at /\ f.at \in f.cuts \cup {0} /\ InOrder(f.got, f.at)
  <2>1. /\ f.at \in 0 .. Halves /\ f.cuts \subseteq 1 .. f.at /\ f.at \in f.cuts \cup {0}
        /\ InOrder(f.got, f.at)
        BY DEF FeedInv
  <2>2. f.got \in Seq(Nat)
        BY <2>1 DEF InOrder
  <2> QED BY <2>1, <2>2, HalvesNat
<1>2. g.at = to /\ g.cuts = f.cuts \cup {to} /\ g.got = f.got \o OutOf(f.at + 1, to)
      BY DEF Fed
<1>3. g.at \in 0 .. Halves /\ g.cuts \subseteq 1 .. g.at /\ g.at \in g.cuts \cup {0}
      BY <1>1, <1>2
<1>4. f.at + 1 \in 1 .. Halves /\ to \in f.at + 1 .. Halves /\ to \in Nat /\ f.at <= to
      BY <1>1
<1> HIDE DEF g
<1>5. /\ InOrder(g.got, g.at)
      /\ \A n \in 1 .. Events : Delivered(f, n) => Delivered(g, n)
      /\ \A n \in 1 .. Events : OutOf(f.at + 1, to) = <<n>> => Delivered(g, n)
  <2>1. CASE OutOf(f.at + 1, to) = <<>>
    <3>1. g.got = f.got
          BY <1>1, <1>2, <2>1, ConcatEmptySeq
    <3>2. \A n \in Nat : <<n>> # <<>>
          OBVIOUS
    <3>3. InOrder(g.got, g.at)
          BY <1>1, <1>2, <1>4, <3>1, LaterInOrder
    <3>4. \A n \in 1 .. Events : Delivered(f, n) => Delivered(g, n)
          BY <3>1 DEF Delivered
    <3> QED BY <2>1, <3>2, <3>3, <3>4
  <2>2. ASSUME NEW m \in 1 .. Events, OutOf(f.at + 1, to) = <<m>>, m \in Whole(f.at + 1, to)
        PROVE  /\ InOrder(g.got, g.at)
               /\ \A n \in 1 .. Events : Delivered(f, n) => Delivered(g, n)
               /\ \A n \in 1 .. Events : OutOf(f.at + 1, to) = <<n>> => Delivered(g, n)
    <3>0. m \in Nat
          BY <1>1
    <3>1. g.got = Append(f.got, m) /\ m \in Nat
      <4>1. Append(f.got, m) = f.got \o <<m>>
            BY <1>1, <3>0, AppendIsConcat
      <4>2. g.got = f.got \o <<m>>
            BY <1>2, <2>2
      <4> QED BY <3>0, <4>1, <4>2
    <3>2. f.at < 2 * m /\ 2 * m <= to
          BY <1>1, <2>2 DEF Whole
    <3>3. InOrder(g.got, g.at)
      <4>1. /\ f.at \in Nat /\ to \in Nat /\ m \in Nat /\ f.at < 2 * m /\ 2 * m <= to
            /\ InOrder(f.got, f.at)
            BY <1>1, <1>4, <3>1, <3>2
      <4>2. InOrder(Append(f.got, m), to)
            BY <4>1, NextInOrder
      <4> QED BY <1>2, <3>1, <4>2
    <3>4. /\ Len(g.got) = Len(f.got) + 1 /\ Len(f.got) \in Nat
          /\ \A i \in 1 .. Len(f.got) : g.got[i] = f.got[i]
          /\ g.got[Len(f.got) + 1] = m
          BY <1>1, <3>1, AppendProperties, LenProperties
    <3>5. \A n \in 1 .. Events : Delivered(f, n) => Delivered(g, n)
      <4>1. 1 .. Len(f.got) \subseteq 1 .. Len(g.got)
            BY <3>4
      <4> QED BY <3>4, <4>1 DEF Delivered
    <3>6. Delivered(g, m)
          BY <3>4 DEF Delivered
    <3>7. \A n \in 1 .. Events : OutOf(f.at + 1, to) = <<n>> => n = m
          BY <2>2
    <3> QED BY <3>3, <3>5, <3>6, <3>7
  <2> QED BY <1>4, <2>1, <2>2, ChunkYields
<1>6. ASSUME NEW n \in 1 .. Events, 2 * n <= to
      PROVE  Delivered(g, n) \/ Torn(g, n) \/ Crowded(g, n)
  <2>1. CASE 2 * n <= f.at
    <3>1. Delivered(f, n) \/ Torn(f, n) \/ Crowded(f, n)
          BY <2>1 DEF FeedInv
    <3>2. Delivered(f, n) => Delivered(g, n)
          BY <1>5
    <3> QED BY <2>1, <3>1, <3>2, PassedStays DEF g
  <2>2. CASE f.at < 2 * n
    <3>1. OutOf(f.at + 1, to) = <<n>> \/ Torn(g, n) \/ Crowded(g, n)
          BY <1>6, <2>2, NewEvents DEF g
    <3> QED BY <1>5, <3>1
  <2> QED BY <1>1, <2>1, <2>2
<1>7. FeedInv(g)
      BY <1>2, <1>3, <1>5, <1>6 DEF FeedInv
<1> QED BY <1>7 DEF g

LEMMA FeedStart == FeedInv(NoFeed)
<1>1. /\ NoFeed.at = 0 /\ NoFeed.cuts = {} /\ NoFeed.got = <<>> /\ <<>> \in Seq(Nat)
      /\ Len(<<>>) = 0
      BY EmptySeq DEF NoFeed
<1>2. \A n \in 1 .. Events : ~(2 * n <= 0)
      BY HalvesNat
<1> QED BY <1>1, <1>2, HalvesNat DEF FeedInv, InOrder

LEMMA FeedsStep == FeedsInv /\ [GatewayNext]_gatewayVars => FeedsInv'
<1> SUFFICES ASSUME FeedsInv, [GatewayNext]_gatewayVars PROVE FeedsInv'
    OBVIOUS
<1>1. ASSUME UNCHANGED feed PROVE FeedsInv'
      BY <1>1 DEF FeedsInv
<1>2. ASSUME NEW c \in Callers, NEW f, FeedInv(f), feed' = [feed EXCEPT ![c] = f]
      PROVE  FeedsInv'
      BY <1>2 DEF FeedsInv
<1>3. ASSUME NEW c \in Callers, Arrive(c) PROVE FeedsInv'
      BY <1>2, <1>3, FeedStart DEF Arrive
<1>4. ASSUME NEW c \in Callers, NextChunk(c) PROVE FeedsInv'
  <2>1. PICK to \in feed[c].at + 1 .. Halves :
           feed' = [feed EXCEPT ![c] =
              [at |-> to, cuts |-> @.cuts \cup {to}, got |-> @.got \o OutOf(@.at + 1, to)]]
        BY <1>4 DEF NextChunk
  <2>2. feed' = [feed EXCEPT ![c] = Fed(feed[c], to)]
        BY <2>1 DEF Fed
  <2>3. FeedInv(feed[c])
        BY DEF FeedsInv
  <2>4. FeedInv(Fed(feed[c], to))
        BY <2>3, FeedStep
  <2> QED BY <1>2, <2>2, <2>4
<1>5. ASSUME NEW c \in Callers,
             \/ Probe(c) \/ Health(c) \/ Unloaded(c) \/ CheckInput(c) \/ RunModel(c) \/ Chat(c)
             \/ OpenStream(c) \/ ListModels(c) \/ EndStream(c) \/ BreakStream(c)
      PROVE  FeedsInv'
  <2>1. UNCHANGED feed
        BY <1>5 DEF Probe, Health, Unloaded, CheckInput, RunModel, Chat, OpenStream,
               ListModels, EndStream, BreakStream
  <2> QED BY <1>1, <2>1
<1>6. CASE PassTime \/ Terminate
      BY <1>1, <1>6 DEF PassTime, Terminate
<1>7. CASE UNCHANGED gatewayVars
      BY <1>1, <1>7 DEF gatewayVars
<1> QED BY <1>3, <1>4, <1>5, <1>6, <1>7 DEF GatewayNext, Handle

\* clients/vllm.rs: a streamed event reaches the client in order, and one is
\* missing only if a boundary of the network's chunks cut it or an earlier event
\* came in the same chunk, wherever the boundaries fall.
THEOREM LossesAreExplained == GatewaySpec => []OnlyTornOrCrowdedLost
<1>1. GatewayInit => FeedsInv
      BY FeedStart DEF GatewayInit, FeedsInv
<1>2. FeedsInv => OnlyTornOrCrowdedLost
  <2> SUFFICES ASSUME FeedsInv, NEW c \in Callers
               PROVE  /\ \A i \in 1 .. Len(feed[c].got) - 1 : feed[c].got[i] < feed[c].got[i + 1]
                      /\ \A n \in 1 .. Events :
                            2 * n <= feed[c].at =>
                               \/ \E i \in DOMAIN feed[c].got : feed[c].got[i] = n
                               \/ 2 * n - 1 \in feed[c].cuts \cup {0}
                               \/ \E k \in 1 .. n - 1 :
                                     /\ ~(2 * k - 1 \in feed[c].cuts \cup {0})
                                     /\ \A cut \in feed[c].cuts \cup {0} :
                                           ~(cut \in 2 * k .. 2 * n - 2)
      BY DEF OnlyTornOrCrowdedLost
  <2>1. FeedInv(feed[c])
        BY DEF FeedsInv
  <2>2. DOMAIN feed[c].got = 1 .. Len(feed[c].got)
        BY <2>1, LenProperties DEF FeedInv, InOrder
  <2>3. \A i \in 1 .. Len(feed[c].got) - 1 : feed[c].got[i] < feed[c].got[i + 1]
        BY <2>1 DEF FeedInv, InOrder
  <2>4. ASSUME NEW n \in 1 .. Events, 2 * n <= feed[c].at
        PROVE  Delivered(feed[c], n) \/ Torn(feed[c], n) \/ Crowded(feed[c], n)
        BY <2>1, <2>4 DEF FeedInv
  <2> QED BY <2>2, <2>3, <2>4 DEF Delivered, Torn, Crowded
<1> QED BY <1>1, <1>2, FeedsStep, PTL DEF GatewaySpec

----------------------------------------------------------------------------
(* What the server said it serves.                                         *)

\* What a caller was told is served is loaded: no step unloads a model.
ServesInv ==
    /\ server \in AnyServer
    /\ call = [c \in Callers |-> call[c]]
    /\ \A c \in Callers :
          "serves" \in DOMAIN call[c] => \A r \in call[c].serves : Backend(r) = "loaded"

LEMMA AnswerServes ==
    ASSUME ServesInv, NEW c \in Callers, NEW answer, call' = [call EXCEPT ![c] = answer],
           "serves" \in DOMAIN answer => \A r \in answer.serves : Backend(r) = "loaded",
           server' \in AnyServer, \A r : Backend(r)' = Backend(r)
    PROVE  ServesInv'
BY DEF ServesInv

LEMMA PlainServes ==
    ASSUME ServesInv, NEW c \in Callers, NEW status, Answer(c, status),
           server' \in AnyServer, \A r : Backend(r)' = Backend(r)
    PROVE  ServesInv'
<1> DEFINE answer == [at |-> "answered", status |-> status]
<1>1. "serves" \notin DOMAIN answer /\ call' = [call EXCEPT ![c] = answer]
      BY DEF Answer
<1> HIDE DEF answer
<1> QED BY <1>1, AnswerServes

LEMMA ServesStep == ServesInv /\ [GatewayNext]_gatewayVars => ServesInv'
<1> SUFFICES ASSUME ServesInv, [GatewayNext]_gatewayVars PROVE ServesInv'
    OBVIOUS
<1>0. UNCHANGED server => server' \in AnyServer /\ \A r : Backend(r)' = Backend(r)
      BY DEF Backend, ServesInv
<1>1. ASSUME UNCHANGED call, server' \in AnyServer, \A r : Backend(r)' = Backend(r) PROVE ServesInv'
      BY <1>1 DEF ServesInv
<1>2. ASSUME NEW c \in Callers, NEW at, UNCHANGED server, call' = [call EXCEPT ![c].at = at]
      PROVE  ServesInv'
  <2> DEFINE answer == [call[c] EXCEPT !.at = at]
  <2>1. DOMAIN answer = DOMAIN call[c] /\ ("serves" \in DOMAIN call[c] => answer.serves = call[c].serves)
        OBVIOUS
  <2>2. call' = [call EXCEPT ![c] = answer]
        BY <1>2
  <2> HIDE DEF answer
  <2>3. "serves" \in DOMAIN answer => \A r \in answer.serves : Backend(r) = "loaded"
        BY <2>1 DEF ServesInv
  <2> QED BY <1>0, <1>2, <2>2, <2>3, AnswerServes
<1>3. ASSUME NEW c \in Callers, Arrive(c) PROVE ServesInv'
  <2>1. UNCHANGED server
        BY <1>3 DEF Arrive
  <2>2. ASSUME NEW ask, AdmitCall(c, [at |-> "handling", route |-> ask[1], input |-> ask[2]])
        PROVE  ServesInv'
    <3> DEFINE request == [at |-> "handling", route |-> ask[1], input |-> ask[2]]
    <3>1. "serves" \notin DOMAIN request /\ call' = [call EXCEPT ![c] = request]
          BY <2>2 DEF AdmitCall
    <3> HIDE DEF request
    <3> QED BY <1>0, <2>1, <3>1, AnswerServes
  <2>3. CASE Refuse(c)
        BY <1>0, <2>1, <2>3, PlainServes DEF Refuse
  <2>4. CASE Abort(c)
        BY <1>0, <2>1, <2>4, PlainServes DEF Abort
  <2> QED BY <1>3, <2>2, <2>3, <2>4 DEF Arrive
<1>4. ASSUME NEW c \in Callers, NEW routes, UNCHANGED server, NEW status,
             call' = [call EXCEPT ![c] = [at |-> "answered", status |-> status, serves |-> routes]],
             \A r \in routes : Backend(r) = "loaded"
      PROVE  ServesInv'
  <2> DEFINE answer == [at |-> "answered", status |-> status, serves |-> routes]
  <2>1. answer.serves = routes
        OBVIOUS
  <2> HIDE DEF answer
  <2>2. call' = [call EXCEPT ![c] = answer]
        BY <1>4 DEF answer
  <2> QED BY <1>0, <1>4, <2>1, <2>2, AnswerServes
<1>5. ASSUME NEW c \in Callers, Probe(c) PROVE ServesInv'
  <2> DEFINE routes == IF IsReady THEN Enabled ELSE {}
  <2>1. \A r \in routes : Backend(r) = "loaded"
        BY DEF IsReady
  <2>2. /\ call' = [call EXCEPT ![c] = [at |-> "answered", status |-> "200", serves |-> routes]]
        /\ UNCHANGED server
        BY <1>5 DEF Probe
  <2> HIDE DEF routes
  <2> QED BY <1>4, <2>1, <2>2
<1>6. ASSUME NEW c \in Callers, Health(c) PROVE ServesInv'
  <2>1. PICK alive \in BOOLEAN :
           call' = [call EXCEPT ![c] =
                       [at |-> "answered", status |-> "200", serves |-> HealthyRoutes(alive)]]
        BY <1>6 DEF Health
  <2>2. \A r \in HealthyRoutes(alive) : Backend(r) = "loaded"
        BY DEF HealthyRoutes
  <2>3. UNCHANGED server
        BY <1>6 DEF Health
  <2> QED BY <1>4, <2>1, <2>2, <2>3
<1>7. ASSUME NEW c \in Callers, ListModels(c) PROVE ServesInv'
  <2> DEFINE routes == {r \in ModelRoutes \cup {"chat", "stream"} : Backend(r) = "loaded"}
  <2>1. /\ call' = [call EXCEPT ![c] = [at |-> "answered", status |-> "200", serves |-> routes]]
        /\ UNCHANGED server
        BY <1>7 DEF ListModels
  <2>2. \A r \in routes : Backend(r) = "loaded"
        OBVIOUS
  <2> HIDE DEF routes
  <2> QED BY <1>4, <2>1, <2>2
<1>8. ASSUME NEW c \in Callers,
             \/ Unloaded(c) \/ RunModel(c) \/ Chat(c) \/ EndStream(c) \/ BreakStream(c)
      PROVE  ServesInv'
  <2>1. UNCHANGED server /\ \E status : Answer(c, status)
        BY <1>8 DEF Unloaded, RunModel, Chat, EndStream, BreakStream
  <2> QED BY <1>0, <2>1, PlainServes
<1>9. ASSUME NEW c \in Callers, CheckInput(c) \/ OpenStream(c) PROVE ServesInv'
  <2>1. /\ UNCHANGED server
        /\ \/ \E status : Answer(c, status)
           \/ \E at : call' = [call EXCEPT ![c].at = at]
        BY <1>9 DEF CheckInput, OpenStream
  <2> QED BY <1>0, <1>2, <2>1, PlainServes
<1>10. ASSUME NEW c \in Callers, NextChunk(c) PROVE ServesInv'
       BY <1>0, <1>1, <1>10 DEF NextChunk
<1>11. CASE PassTime
       BY <1>0, <1>1, <1>11 DEF PassTime
<1>12. CASE Terminate
  <2>1. /\ server'.embed = server.embed /\ server'.rerank = server.rerank
        /\ server'.chat = server.chat /\ server' \in AnyServer
        BY <1>12 DEF Terminate, ServesInv, AnyServer
  <2>2. \A r : Backend(r)' = Backend(r)
        BY <2>1 DEF Backend
  <2>3. CASE UNCHANGED call
        BY <1>1, <2>1, <2>2, <2>3
  <2>4. CASE call' = [c \in Callers |->
                  IF call[c].at \in {"idle", "answered"} THEN call[c]
                  ELSE [at |-> "answered", status |-> "broken"]]
    <3>1. \A c \in Callers : call'[c] = call[c] \/ "serves" \notin DOMAIN call'[c]
          BY <2>4
    <3> QED BY <2>1, <2>2, <2>4, <3>1 DEF ServesInv
  <2> QED BY <1>12, <2>3, <2>4 DEF Terminate
<1>13. CASE UNCHANGED gatewayVars
       BY <1>0, <1>1, <1>13 DEF gatewayVars
<1> QED BY <1>3, <1>5, <1>6, <1>7, <1>8, <1>9, <1>10, <1>11, <1>12, <1>13 DEF GatewayNext, Handle

\* routes/health.rs, routes/models.rs: a route that the server said it serves
\* has its model, until the end of the process.
THEOREM PromisesAreKept == GatewaySpec => []PromisedRoutesServed
<1>1. ASSUME GatewayInit PROVE ServesInv
  <2>1. server \in AnyServer
        BY <1>1, GatewayAssumption DEF GatewayInit, Servers, AnyServer
  <2>2. "serves" \notin DOMAIN Idle
        BY DEF Idle
  <2> QED BY <1>1, <2>1, <2>2 DEF GatewayInit, ServesInv
<1>2. ServesInv => PromisedRoutesServed
      BY DEF ServesInv, PromisedRoutesServed
<1> QED BY <1>1, <1>2, ServesStep, PTL DEF GatewaySpec

\* The gateway serves what it says it serves, and its streams lose nothing but
\* what OutOf cannot read.
THEOREM GatewayIsTruthful == GatewaySpec => []GatewayTruthful
<1>1. OnlyTornOrCrowdedLost /\ PromisedRoutesServed => GatewayTruthful
      BY DEF GatewayTruthful
<1> QED BY <1>1, LossesAreExplained, PromisesAreKept, PTL

----------------------------------------------------------------------------
(* The points of a video.                                                  *)

\* A point is of a call that has been made, and not of one before the deletion
\* that came last.
VidInv ==
    /\ runs \in Nat /\ wiped \in 0 .. runs
    /\ \A p \in points : p.run \in wiped .. runs

LEMMA VidStep == VidInv /\ [VidNext]_vidVars => VidInv'
<1> SUFFICES ASSUME VidInv, [VidNext]_vidVars PROVE VidInv'
    OBVIOUS
<1>1. CASE Process
  <2>1. runs' = runs + 1 /\ UNCHANGED <<points, wiped>>
        BY <1>1 DEF Process
  <2> QED BY <2>1 DEF VidInv
<1>2. CASE Upsert
  <2>1. UNCHANGED <<runs, wiped>>
        BY <1>2 DEF Upsert
  <2>2. \A p \in points' : p \in points \/ p.run = runs
    <3>1. CASE UNCHANGED points
          BY <3>1
    <3>2. CASE points' = points \cup {[run |-> runs, chunk |-> i, vector |-> vectors[i]] :
                              i \in {i \in DOMAIN chunks : InBatch(i) /\ vectors[i] # "none"}}
          BY <3>2
    <3> QED BY <1>2, <3>1, <3>2 DEF Upsert
  <2> QED BY <2>1, <2>2 DEF VidInv
<1>3. CASE DeletePoints
  <2>1. points' = {} /\ wiped' = runs /\ UNCHANGED runs
        BY <1>3 DEF DeletePoints
  <2> QED BY <2>1 DEF VidInv
<1>4. ASSUME UNCHANGED <<runs, wiped, points>> PROVE VidInv'
      BY <1>4 DEF VidInv
<1>5. CASE \/ ProbeVideo \/ ExtractFrames \/ ExtractAudio \/ Extracted \/ DetectScenes
           \/ Transcribe \/ Fuse \/ Embed \/ EmbeddingDone \/ IndexingDone
      BY <1>5, <1>4 DEF ProbeVideo, ExtractFrames, ExtractAudio, Extracted, DetectScenes,
             Transcribe, Fuse, Embed, EmbeddingDone, IndexingDone
<1>6. CASE VideoCrash \/ CountPoints
      BY <1>6, <1>4 DEF VideoCrash, CountPoints
<1>7. CASE UNCHANGED vidVars
      BY <1>7, <1>4 DEF vidVars
<1> QED BY <1>1, <1>2, <1>3, <1>5, <1>6, <1>7 DEF VidNext, Working

\* video/indexing: after delete_by_video_id the collection holds points of the
\* call that was running and of later ones only, however batches, crashes and
\* further calls fall before and after it.
THEOREM DeletionsLast == VidSpec => []DeletedStayDeleted
<1>1. VidInit => VidInv
      BY DEF VidInit, VidInv
<1>2. VidInv => DeletedStayDeleted
      BY DEF VidInv, DeletedStayDeleted
<1> QED BY <1>1, <1>2, VidStep, PTL DEF VidSpec

----------------------------------------------------------------------------
(* Two facts about numbers.                                                *)

\* A set of numbers that is not empty has a least one.
LEMMA LeastNumber ==
    ASSUME NEW S \in SUBSET Nat, S # {}
    PROVE  \E v \in S : \A w \in S : v <= w
<1>1. PICK x \in S : \A y \in S : ~(<<y, x>> \in OpToRel(<, Nat))
  BY NatLessThanWellFounded, WFMin
<1>2. OpToRel(<, Nat) = {ss \in Nat \X Nat : ss[1] < ss[2]}
  BY DEF OpToRel
<1>3. \A y \in S : x <= y
  <2> SUFFICES ASSUME NEW y \in S, y < x PROVE FALSE
    OBVIOUS
  <2>1. <<y, x>> \in {ss \in Nat \X Nat : ss[1] < ss[2]}
    OBVIOUS
  <2> QED
    BY <1>1, <1>2, <2>1
<1> QED
  BY <1>3

\* A set of numbers from 0 to n that holds 0 and with each number below n the
\* next one holds them all.
LEMMA UpTo ==
    ASSUME NEW n \in Nat, NEW S, 0 \in S, \A k \in 0 .. n - 1 : k \in S => k + 1 \in S
    PROVE  \A k \in 0 .. n : k \in S
<1> SUFFICES ASSUME (0 .. n) \ S # {} PROVE FALSE
  OBVIOUS
<1>1. (0 .. n) \ S \in SUBSET Nat
  OBVIOUS
<1>2. PICK v \in (0 .. n) \ S : \A w \in (0 .. n) \ S : v <= w
  BY <1>1, LeastNumber
<1>3. v \in 0 .. n /\ v # 0 /\ v - 1 \in 0 .. n - 1 /\ v - 1 \in 0 .. n /\ v - 1 < v
  BY <1>2
<1>4. v - 1 \in S
  BY <1>2, <1>3
<1>5. (v - 1) + 1 \in S /\ (v - 1) + 1 = v
  BY <1>3, <1>4
<1> QED
  BY <1>2, <1>5

----------------------------------------------------------------------------
(* Where the chunks of a video end.                                        *)

LEMMA FusionNumbers ==
    /\ Target \in Nat /\ Shortest \in Nat /\ Longest \in Nat /\ Shared \in Nat
    /\ Shortest <= Target /\ Target <= Longest /\ Shared < Shortest
BY VideoAssumption DEF ValidFusion

LEMMA LesserOf ==
    ASSUME NEW a \in Int, NEW b \in Int
    PROVE  /\ Min({a, b}) = IF a <= b THEN a ELSE b
           /\ Max({a, b}) = IF a <= b THEN b ELSE a
<1> DEFINE low == IF a <= b THEN a ELSE b
           high == IF a <= b THEN b ELSE a
<1>1. \A x \in {a, b} : (\A y \in {a, b} : x <= y) <=> x = low
  OBVIOUS
<1>2. \A x \in {a, b} : (\A y \in {a, b} : x >= y) <=> x = high
  OBVIOUS
<1>3. low \in {a, b} /\ high \in {a, b}
  OBVIOUS
<1> HIDE DEF low, high
<1>4. Min({a, b}) = low
  BY <1>1, <1>3 DEF Min
<1>5. Max({a, b}) = high
  BY <1>2, <1>3 DEF Max
<1> QED
  BY <1>4, <1>5 DEF low, high

\* A chunk ends at the end of the video, or after at least the shortest duration;
\* it is no longer than the longest.
LEMMA EndIs ==
    ASSUME NEW d \in Nat, NEW start \in 0 .. d
    PROVE  /\ EndsAt(start, d) \in Nat /\ EndsAt(start, d) <= d
           /\ start < d => start < EndsAt(start, d)
           /\ EndsAt(start, d) <= start + Longest
           /\ EndsAt(start, d) < d => EndsAt(start, d) >= start + Shortest
<1> DEFINE end == start + Target
           rest == Max({d - end, 0})
           reach == IF 0 < rest /\ rest < Shortest THEN d ELSE Min({end, d})
<1>1. start \in Nat /\ start <= d /\ end \in Nat /\ start + Longest \in Nat
  BY FusionNumbers
<1>2. rest = IF d - end <= 0 THEN 0 ELSE d - end
  <2>1. d - end \in Int /\ 0 \in Int
    BY <1>1
  <2> HIDE DEF end
  <2> QED
    BY <2>1, LesserOf
<1>3. Min({end, d}) = IF end <= d THEN end ELSE d
  BY <1>1, LesserOf
<1>4. reach \in Nat /\ (reach = d \/ (reach = end /\ end <= d))
  BY <1>1, <1>3
<1>5. EndsAt(start, d) = Min({reach, start + Longest})
  BY DEF EndsAt
<1> HIDE DEF reach
<1>6. EndsAt(start, d) = IF reach <= start + Longest THEN reach ELSE start + Longest
  BY <1>1, <1>4, <1>5, LesserOf
<1> HIDE DEF rest
<1> QED
  BY <1>1, <1>4, <1>6, FusionNumbers

BoundsFrom(d, f, start) ==
    <<<<start, EndsAt(start, d)>>>>
        \o (IF EndsAt(start, d) >= d THEN <<>> ELSE f[EndsAt(start, d) - Shared])

\* The next chunk begins later than this one.
LEMMA NextBegins ==
    ASSUME NEW d \in Nat, NEW start \in 0 .. d, EndsAt(start, d) < d
    PROVE  EndsAt(start, d) - Shared \in start + 1 .. d - 1
<1>1. start \in Nat /\ EndsAt(start, d) \in Nat /\ EndsAt(start, d) >= start + Shortest
  BY EndIs
<1> QED
  BY <1>1, FusionNumbers

\* The recursive function that Boundaries is defined by exists.
LEMMA BoundsFunction ==
    ASSUME NEW d \in Nat
    PROVE  \E f : f = [start \in 0 .. d |-> BoundsFrom(d, f, start)]
<1> DEFINE From(m) == \E f : f = [start \in d - m .. d |-> BoundsFrom(d, f, start)]
           Good == {m \in 0 .. d : From(m)}
<1>1. 0 \in Good
  <2> DEFINE f == [start \in d - 0 .. d |-> BoundsFrom(d, <<>>, start)]
  <2>1. \A start \in d - 0 .. d : start \in 0 .. d /\ EndsAt(start, d) >= d
    <3> SUFFICES ASSUME NEW start \in d - 0 .. d PROVE start \in 0 .. d /\ EndsAt(start, d) >= d
      OBVIOUS
    <3>1. start \in 0 .. d /\ start + 1 .. d - 1 = {}
      OBVIOUS
    <3>2. EndsAt(start, d) \in Nat /\ ~(EndsAt(start, d) < d)
      BY <3>1, EndIs, NextBegins
    <3> QED
      BY <3>1, <3>2
  <2>2. \A start \in d - 0 .. d : BoundsFrom(d, <<>>, start) = BoundsFrom(d, f, start)
    BY <2>1 DEF BoundsFrom
  <2>3. f = [start \in d - 0 .. d |-> BoundsFrom(d, f, start)]
    BY <2>2
  <2> QED
    BY <2>3
<1>2. ASSUME NEW m \in 0 .. d - 1, m \in Good PROVE m + 1 \in Good
  <2>1. PICK f : f = [start \in d - m .. d |-> BoundsFrom(d, f, start)]
    BY <1>2
  <2> DEFINE low == d - (m + 1)
             g == [start \in low .. d |-> IF start = low THEN BoundsFrom(d, f, start) ELSE f[start]]
  <2>2. /\ m + 1 \in 0 .. d /\ low \in 0 .. d /\ low + 1 = d - m
        /\ \A start \in low .. d : start \in 0 .. d /\ (start # low => start \in d - m .. d)
        /\ \A start \in d - m .. d : start \in low .. d /\ start # low
    OBVIOUS
  <2>3. \A start \in d - m .. d : g[start] = f[start]
    BY <2>2
  <2>4. ASSUME NEW start \in low .. d PROVE BoundsFrom(d, g, start) = BoundsFrom(d, f, start)
    <3>1. CASE EndsAt(start, d) >= d
      BY <3>1 DEF BoundsFrom
    <3>2. CASE ~(EndsAt(start, d) >= d)
      <4>1. start \in 0 .. d /\ EndsAt(start, d) < d
        BY <2>2, <3>2, EndIs
      <4>2. EndsAt(start, d) - Shared \in d - m .. d
        BY <2>2, <4>1, NextBegins
      <4> HIDE DEF g
      <4>3. g[EndsAt(start, d) - Shared] = f[EndsAt(start, d) - Shared]
        BY <2>3, <4>2
      <4> QED
        BY <4>3 DEF BoundsFrom
    <3> QED
      BY <3>1, <3>2
  <2>5. \A start \in low .. d : g[start] = BoundsFrom(d, f, start)
    BY <2>1, <2>2
  <2>6. g = [start \in low .. d |-> g[start]]
    OBVIOUS
  <2> HIDE DEF g
  <2>7. g = [start \in low .. d |-> BoundsFrom(d, g, start)]
    BY <2>4, <2>5, <2>6
  <2> QED
    BY <2>2, <2>7
<1> HIDE DEF Good
<1>3. \A k \in 0 .. d - 1 : k \in Good => k + 1 \in Good
  BY <1>2
<1>4. d \in Good
  BY <1>1, <1>3, UpTo
<1>5. d - d = 0
  OBVIOUS
<1> QED
  BY <1>4, <1>5 DEF Good

\* The chunks from start to the end of the video follow one another.
WellCut(b, start, d) ==
    /\ b \in Seq(Nat \X Nat) /\ Len(b) \in Nat \ {0}
    /\ b[1][1] = start /\ b[Len(b)][2] = d
    /\ \A i \in 1 .. Len(b) : /\ b[i][1] < b[i][2] /\ b[i][2] <= b[i][1] + Longest
                              /\ i < Len(b) => b[i][2] >= b[i][1] + Shortest
    /\ \A i \in 2 .. Len(b) : b[i][1] = b[i - 1][2] - Shared

LEMMA CutOnce ==
    ASSUME NEW d \in Nat, NEW start \in 0 .. d - 1, EndsAt(start, d) >= d
    PROVE  WellCut(<<<<start, EndsAt(start, d)>>>>, start, d)
<1> DEFINE b == <<<<start, EndsAt(start, d)>>>>
<1>1. /\ start \in Nat /\ EndsAt(start, d) \in Nat /\ EndsAt(start, d) = d /\ start < d
      /\ EndsAt(start, d) <= start + Longest
  <2>1. start \in 0 .. d /\ start < d /\ start \in Nat
    OBVIOUS
  <2>2. /\ EndsAt(start, d) \in Nat /\ EndsAt(start, d) <= d
        /\ EndsAt(start, d) <= start + Longest
    BY <2>1, EndIs
  <2> QED
    BY <2>1, <2>2
<1>2. b \in Seq(Nat \X Nat) /\ Len(b) = 1 /\ b[1] = <<start, EndsAt(start, d)>>
  BY <1>1
<1> HIDE DEF b
<1>3. 1 .. Len(b) = {1} /\ 2 .. Len(b) = {}
  BY <1>2
<1>4. WellCut(b, start, d)
  BY <1>1, <1>2, <1>3 DEF WellCut
<1> QED
  BY <1>4 DEF b

LEMMA CutMore ==
    ASSUME NEW d \in Nat, NEW start \in 0 .. d - 1, EndsAt(start, d) < d,
           NEW c, WellCut(c, EndsAt(start, d) - Shared, d)
    PROVE  WellCut(<<<<start, EndsAt(start, d)>>>> \o c, start, d)
<1> DEFINE x == <<start, EndsAt(start, d)>>
           b == <<x>> \o c
           n == Len(c)
<1>1. /\ start \in Nat /\ EndsAt(start, d) \in Nat /\ start < EndsAt(start, d)
      /\ EndsAt(start, d) <= start + Longest /\ EndsAt(start, d) >= start + Shortest
  BY EndIs
<1>2. c \in Seq(Nat \X Nat) /\ n \in Nat \ {0} /\ \A i \in 1 .. n : c[i] \in Nat \X Nat
  BY DEF WellCut
<1>3. x \in Nat \X Nat /\ x[1] = start /\ x[2] = EndsAt(start, d)
  BY <1>1
<1> HIDE DEF x
<1>4. <<x>> \in Seq(Nat \X Nat) /\ Len(<<x>>) = 1 /\ <<x>>[1] = x
  BY <1>3
<1>5. b \in Seq(Nat \X Nat) /\ Len(b) = n + 1
  BY <1>2, <1>4, ConcatProperties
<1>6. b[1] = x /\ \A i \in 2 .. n + 1 : b[i] = c[i - 1] /\ i - 1 \in 1 .. n
  BY <1>2, <1>4, ConcatProperties
<1> HIDE DEF b
<1>7. /\ c[1][1] = EndsAt(start, d) - Shared /\ c[n][2] = d
      /\ \A i \in 1 .. n : /\ c[i][1] < c[i][2] /\ c[i][2] <= c[i][1] + Longest
                           /\ i < n => c[i][2] >= c[i][1] + Shortest
      /\ \A i \in 2 .. n : c[i][1] = c[i - 1][2] - Shared
  BY DEF WellCut
<1> HIDE DEF n
<1>8. ASSUME NEW i \in 1 .. n + 1
      PROVE  /\ b[i][1] < b[i][2] /\ b[i][2] <= b[i][1] + Longest
             /\ i < n + 1 => b[i][2] >= b[i][1] + Shortest
  <2>1. CASE i = 1
    BY <1>1, <1>3, <1>6, <2>1
  <2>2. CASE i # 1
    <3>1. i \in 2 .. n + 1 /\ b[i] = c[i - 1] /\ i - 1 \in 1 .. n /\ (i < n + 1 => i - 1 < n)
      BY <1>2, <1>6, <2>2
    <3> QED
      BY <1>7, <3>1
  <2> QED
    BY <2>1, <2>2
<1>9. ASSUME NEW i \in 2 .. n + 1 PROVE b[i][1] = b[i - 1][2] - Shared
  <2>1. CASE i = 2
    <3>1. b[2] = c[1] /\ b[1] = x
      <4>1. 2 \in 2 .. n + 1 /\ 2 - 1 = 1
        BY <2>1
      <4> QED
        BY <1>6, <4>1
    <3>2. b[2][1] = b[1][2] - Shared
      BY <1>3, <1>7, <3>1
    <3> QED
      BY <2>1, <3>2
  <2>2. CASE i # 2
    <3> DEFINE j == i - 1
    <3>1. j \in 2 .. n + 1 /\ j \in 2 .. n
      BY <1>2, <2>2
    <3> HIDE DEF j
    <3>2. b[j] = c[j - 1]
      BY <1>6, <3>1
    <3>3. b[i] = c[j]
      BY <1>6 DEF j
    <3>4. b[i][1] = b[j][2] - Shared
      BY <1>7, <3>1, <3>2, <3>3
    <3> QED
      BY <3>4 DEF j
  <2> QED
    BY <2>1, <2>2
<1>10. b[n + 1] = c[n] /\ n + 1 \in Nat \ {0} /\ b[n + 1][2] = d /\ b[1][1] = start
  <2>1. n + 1 \in 2 .. n + 1 /\ (n + 1) - 1 = n /\ n + 1 \in Nat \ {0}
    BY <1>2
  <2>2. b[n + 1] = c[n] /\ b[1] = x
    BY <1>6, <2>1
  <2> QED
    BY <1>3, <1>7, <2>1, <2>2
<1>11. WellCut(b, start, d)
  BY <1>5, <1>8, <1>9, <1>10 DEF WellCut
<1> QED
  BY <1>11 DEF b, x

\* generate_chunk_boundaries.
LEMMA BoundariesCut ==
    ASSUME NEW d \in Nat \ {0}
    PROVE  WellCut(Boundaries(d), 0, d)
<1> DEFINE f == CHOOSE g : g = [start \in 0 .. d |-> BoundsFrom(d, g, start)]
<1>1. f = [start \in 0 .. d |-> BoundsFrom(d, f, start)]
  BY BoundsFunction
<1>2. Boundaries(d) = f[0]
  BY DEF Boundaries, BoundsFrom
<1> HIDE DEF f
<1> DEFINE Good == {m \in 0 .. d - 1 : \A start \in d - 1 - m .. d - 1 : WellCut(f[start], start, d)}
<1>3. ASSUME NEW start \in 0 .. d - 1,
             \A later \in start + 1 .. d - 1 : WellCut(f[later], later, d)
      PROVE  WellCut(f[start], start, d)
  <2>1. start \in 0 .. d
    OBVIOUS
  <2>4. EndsAt(start, d) \in Nat
    BY <2>1, EndIs
  <2>5. f[start] = BoundsFrom(d, f, start)
    BY <1>1, <2>1
  <2>2. CASE EndsAt(start, d) >= d
    <3>1. f[start] = <<<<start, EndsAt(start, d)>>>> \o <<>>
      BY <2>2, <2>5 DEF BoundsFrom
    <3> DEFINE x == <<start, EndsAt(start, d)>>
    <3> HIDE DEF x
    <3>2. <<x>> \in Seq({x}) /\ <<x>> \o <<>> = <<x>>
      BY ConcatEmptySeq
    <3>3. f[start] = <<<<start, EndsAt(start, d)>>>>
      BY <3>1, <3>2 DEF x
    <3> QED
      BY <2>2, <3>3, CutOnce
  <2>3. CASE EndsAt(start, d) < d
    <3>1. f[start] = <<<<start, EndsAt(start, d)>>>> \o f[EndsAt(start, d) - Shared]
      <4>1. ~(EndsAt(start, d) >= d)
        BY <2>3, <2>4
      <4> QED
        BY <2>5, <4>1 DEF BoundsFrom
    <3>2. WellCut(f[EndsAt(start, d) - Shared], EndsAt(start, d) - Shared, d)
      BY <1>3, <2>1, <2>3, NextBegins
    <3> QED
      BY <2>3, <3>1, <3>2, CutMore
  <2> QED
    BY <2>2, <2>3, <2>4
<1>4. 0 \in Good
  <2> SUFFICES ASSUME NEW start \in d - 1 - 0 .. d - 1 PROVE WellCut(f[start], start, d)
    OBVIOUS
  <2>1. start \in 0 .. d - 1 /\ start + 1 .. d - 1 = {}
    OBVIOUS
  <2> QED
    BY <1>3, <2>1
<1>5. ASSUME NEW m \in 0 .. d - 1 - 1, m \in Good PROVE m + 1 \in Good
  <2> SUFFICES ASSUME NEW start \in d - 1 - (m + 1) .. d - 1 PROVE WellCut(f[start], start, d)
    OBVIOUS
  <2>1. start \in 0 .. d - 1 /\ \A later \in start + 1 .. d - 1 : later \in d - 1 - m .. d - 1
    OBVIOUS
  <2> QED
    BY <1>3, <1>5, <2>1
<1> HIDE DEF Good
<1>6. d - 1 \in Nat /\ d - 1 \in 0 .. d - 1
  OBVIOUS
<1>7. \A k \in 0 .. d - 1 - 1 : k \in Good => k + 1 \in Good
  BY <1>5
<1>8. d - 1 \in Good
  BY <1>4, <1>6, <1>7, UpTo
<1>9. 0 \in d - 1 - (d - 1) .. d - 1
  OBVIOUS
<1> QED
  BY <1>2, <1>8, <1>9 DEF Good

----------------------------------------------------------------------------
(* What process reports and what it has done.                              *)

VidSteps == {"idle", "probe", "extraction", "analysis", "embedding", "indexing"}
Silent == <<"probe", "frames", "audio", "scenes", "fusion", "embedding", "indexing">>
StageNames == {"probe", "frames", "audio", "scenes", "speech", "fusion", "embedding", "indexing"}
StagePath == IF track THEN Stages ELSE Silent
Reported == IF track THEN 6 ELSE 5

\* The stages reported are the first of those that the video goes through.
OnPath(results, path) ==
    /\ results \in Seq(StageNames \X BOOLEAN)
    /\ Len(results) <= Len(path) /\ \A i \in 1 .. Len(results) : results[i][1] = path[i]
StagesInv ==
    /\ step \in VidSteps /\ track \in BOOLEAN
    /\ \A s \in DOMAIN replies : replies[s] \in BOOLEAN
    /\ OnPath(stages, StagePath)
    /\ step = "probe" => Len(stages) = 0 /\ DOMAIN replies = {}
    /\ step = "extraction" => /\ Len(stages) = 1
                              /\ "audio" \in DOMAIN replies /\ replies["audio"] => track
    /\ step = "analysis" => Len(stages) = 3
    /\ step = "embedding" => Len(stages) = Reported
    /\ step = "indexing" => Len(stages) = Reported + 1
    /\ step \in {"analysis", "embedding", "indexing"} /\ AllSucceeded(stages) => track

\* The chunks cut the video, and what was said is in them if the stages succeeded.
ChunksInv ==
    /\ clip \in Videos
    /\ Len(chunks) \in Nat /\ DOMAIN chunks = 1 .. Len(chunks)
    /\ ChunksCoverVideo
SpeechCovered ==
    \A s \in clip.speech : s.from < s.to /\ s.from < clip.duration =>
        \E i \in DOMAIN chunks : s \in chunks[i].text
SpeechInv == step \in {"embedding", "indexing"} /\ AllSucceeded(stages) => SpeechCovered

\* Of the batches that have been written each chunk has a point.
HasPoint(i) == \E p \in points : p.run = runs /\ p.chunk = i
PointsInv ==
    /\ step \in {"probe", "extraction", "analysis"} => vectors = <<>>
    /\ step \in {"embedding", "indexing"} =>
           vectors \in Seq({"model", "placeholder"}) /\ Len(vectors) <= Len(chunks)
    /\ step = "indexing" =>
           /\ Len(vectors) = Len(chunks) /\ batch \in Nat \ {0}
           /\ wiped < runs => \A i \in 1 .. Len(chunks) : i <= (batch - 1) * IndexBatch => HasPoint(i)
ReportInv ==
    /\ step # "idle" => report = "none"
    /\ report = "ok" => /\ wiped < runs => \A i \in 1 .. Len(chunks) : HasPoint(i)
                        /\ SpeechCovered
    /\ LeftoversExplained

\* All of it, with what the deletions keep.
CallInv == VidInv /\ StagesInv /\ ChunksInv /\ SpeechInv /\ PointsInv /\ ReportInv

LEMMA PathsAre ==
    /\ Len(Stages) = 8 /\ Len(Silent) = 7
    /\ \A i \in 1 .. 4 : Stages[i] = Silent[i]
    /\ Stages[1] = "probe" /\ Stages[2] = "frames" /\ Stages[3] = "audio" /\ Stages[4] = "scenes"
    /\ Stages[5] = "speech" /\ Stages[6] = "fusion" /\ Stages[7] = "embedding" /\ Stages[8] = "indexing"
    /\ Silent[1] = "probe" /\ Silent[2] = "frames" /\ Silent[3] = "audio" /\ Silent[4] = "scenes"
    /\ Silent[5] = "fusion" /\ Silent[6] = "embedding" /\ Silent[7] = "indexing"
BY DEF Stages, Silent

LEMMA PlaceIs ==
    ASSUME NEW k \in 1 .. 8
    PROVE  Place(Stages[k]) = k
<1>1. DOMAIN Stages = 1 .. 8
  BY DEF Stages
<1>2. \A j \in 1 .. 8 : Stages[j] = Stages[k] => j = k
  BY DEF Stages
<1> QED
  BY <1>1, <1>2 DEF Place

\* Such stages are in order, and none but the transcription is passed over.
LEMMA PathInOrder ==
    ASSUME OnPath(stages, StagePath), track \in BOOLEAN
    PROVE  StagesInOrder
<1> DEFINE n == Len(stages)
<1>1. stages \in Seq(StageNames \X BOOLEAN) /\ n \in Nat /\ DOMAIN stages = 1 .. n
  BY DEF OnPath
<1>2. DOMAIN Stages = 1 .. 8
  BY DEF Stages
<1>3. CASE track
  <2>1. n <= 8 /\ \A i \in 1 .. n : i \in 1 .. 8 /\ stages[i][1] = Stages[i]
    <3>1. StagePath = Stages /\ Len(Stages) = 8
      BY <1>3, PathsAre DEF StagePath
    <3>2. n <= 8 /\ \A i \in 1 .. n : stages[i][1] = Stages[i]
      BY <3>1 DEF OnPath
    <3> QED
      BY <1>1, <3>2
  <2>2. \A i \in 1 .. n : Place(stages[i][1]) = i
    BY <2>1, PlaceIs
  <2>3. \A i, j \in 1 .. n : i < j => Place(stages[i][1]) < Place(stages[j][1])
    BY <1>1, <2>2
  <2>4. \A i \in 1 .. n : \A k \in 1 .. Place(stages[i][1]) - 1 : k \in 1 .. n /\ stages[k][1] = Stages[k]
    BY <1>1, <2>1, <2>2
  <2> QED
    BY <1>1, <2>3, <2>4 DEF StagesInOrder
<1>4. CASE ~track
  <2>1. n <= 7 /\ \A i \in 1 .. n : i \in 1 .. 7 /\ stages[i][1] = Silent[i]
    <3>1. StagePath = Silent /\ Len(Silent) = 7
      BY <1>4, PathsAre DEF StagePath
    <3>2. n <= 7 /\ \A i \in 1 .. n : stages[i][1] = Silent[i]
      BY <3>1 DEF OnPath
    <3> QED
      BY <1>1, <3>2
  <2>2. \A i \in 1 .. n : Place(stages[i][1]) = IF i <= 4 THEN i ELSE i + 1
    <3> SUFFICES ASSUME NEW i \in 1 .. n PROVE Place(stages[i][1]) = IF i <= 4 THEN i ELSE i + 1
      OBVIOUS
    <3>1. i \in 1 .. 7 /\ stages[i][1] = Silent[i]
      BY <2>1
    <3>2. i <= 4 => i \in 1 .. 8 /\ Silent[i] = Stages[i]
      BY <3>1, PathsAre
    <3>3. i > 4 => i + 1 \in 1 .. 8 /\ Silent[i] = Stages[i + 1]
      BY <3>1, PathsAre
    <3> QED
      BY <3>1, <3>2, <3>3, PlaceIs
  <2>3. \A i, j \in 1 .. n : i < j => Place(stages[i][1]) < Place(stages[j][1])
    BY <2>1, <2>2
  <2>4. ASSUME NEW i \in 1 .. n, NEW k \in 1 .. Place(stages[i][1]) - 1, Stages[k] # "speech"
        PROVE  \E j \in 1 .. n : stages[j][1] = Stages[k]
    <3>1. k # 5 /\ i \in 1 .. 7 /\ k < (IF i <= 4 THEN i ELSE i + 1) /\ k \in Nat
      BY <2>1, <2>2, <2>4, PathsAre
    <3>2. CASE k <= 4
      <4>1. k \in 1 .. n /\ k \in 1 .. 4
        BY <1>1, <2>1, <3>1, <3>2, <2>4
      <4> QED
        BY <2>1, <4>1, PathsAre
    <3>3. CASE k > 4
      <4>1. k \in {6, 7} /\ k - 1 \in 1 .. n
        BY <1>1, <2>1, <3>1, <3>3
      <4>2. stages[k - 1][1] = Silent[k - 1] /\ Silent[k - 1] = Stages[k]
        BY <2>1, <4>1, PathsAre
      <4> QED
        BY <4>1, <4>2
    <3> QED
      BY <3>1, <3>2, <3>3
  <2> QED
    BY <1>1, <2>3, <2>4 DEF StagesInOrder
<1> QED
  BY <1>3, <1>4

\* A stage more.
LEMMA PathGrows ==
    ASSUME NEW results, NEW path \in {Stages, Silent}, OnPath(results, path), Len(results) < Len(path),
           NEW name \in StageNames, NEW success \in BOOLEAN, path[Len(results) + 1] = name
    PROVE  LET more == Append(results, <<name, success>>)
           IN /\ OnPath(more, path) /\ Len(more) = Len(results) + 1
              /\ AllSucceeded(more) <=> AllSucceeded(results) /\ success
<1> DEFINE n == Len(results)
           x == <<name, success>>
           more == Append(results, x)
<1>1. results \in Seq(StageNames \X BOOLEAN) /\ n \in Nat /\ DOMAIN results = 1 .. n
  BY DEF OnPath
<1>2. x \in StageNames \X BOOLEAN /\ x[1] = name /\ x[2] = success
  OBVIOUS
<1> HIDE DEF x
<1>3. more \in Seq(StageNames \X BOOLEAN) /\ Len(more) = n + 1 /\ DOMAIN more = 1 .. n + 1
  BY <1>1, <1>2
<1>4. more[n + 1] = x /\ \A i \in 1 .. n : more[i] = results[i]
  BY <1>1, <1>2
<1> HIDE DEF more
<1>5. Len(path) \in Nat /\ n + 1 <= Len(path)
  BY <1>1, PathsAre DEF n
<1>6. \A i \in 1 .. n + 1 : i \in 1 .. n \/ i = n + 1
  BY <1>1
<1>7. \A i \in 1 .. n + 1 : more[i][1] = path[i]
  BY <1>2, <1>4, <1>6 DEF OnPath
<1>8. OnPath(more, path)
  BY <1>3, <1>5, <1>7 DEF OnPath
<1>9. n + 1 \in 1 .. n + 1 /\ \A i \in 1 .. n : i \in 1 .. n + 1
  BY <1>1
<1>10. AllSucceeded(more) <=> AllSucceeded(results) /\ success
  <2>1. AllSucceeded(more) <=> \A i \in 1 .. n + 1 : more[i][2]
    BY <1>3 DEF AllSucceeded
  <2>2. AllSucceeded(results) <=> \A i \in 1 .. n : results[i][2]
    BY <1>1 DEF AllSucceeded
  <2>3. \A i \in 1 .. n : more[i][2] = results[i][2]
    BY <1>4
  <2>4. more[n + 1][2] = success
    BY <1>2, <1>4
  <2> QED
    BY <1>6, <1>9, <2>1, <2>2, <2>3, <2>4
<1> QED
  BY <1>3, <1>8, <1>10 DEF more, x

\* create_chunks: the chunks cut the video, and what is said is in one of them.
LEMMA FusedIs ==
    ASSUME NEW d \in Nat, NEW speech, NEW pictures,
           \A s \in speech : s.from \in Nat /\ s.to \in Nat
    PROVE  LET c == Fused(d, speech, pictures)
           IN /\ Len(c) \in Nat /\ DOMAIN c = 1 .. Len(c)
              /\ c # <<>> =>
                    /\ c[1].from = 0 /\ Last(c).to = d
                    /\ \A i \in 2 .. Len(c) : /\ c[i - 1].from < c[i].from
                                              /\ c[i].from = c[i - 1].to - Shared
                    /\ \A i \in DOMAIN c : /\ c[i].to - c[i].from <= Longest
                                           /\ i < Len(c) => c[i].to - c[i].from >= Shortest
              /\ \A s \in speech : s.from < s.to /\ s.from < d => \E i \in DOMAIN c : s \in c[i].text
<1> DEFINE c == Fused(d, speech, pictures)
           b == Boundaries(d)
           n == Len(b)
<1>1. CASE d = 0
  <2>1. b = <<>> /\ DOMAIN b = {}
    BY <1>1 DEF Boundaries
  <2>2. c = <<>>
    BY <2>1 DEF Fused
  <2> QED
    BY <1>1, <2>2
<1>2. CASE d # 0
  <2>1. WellCut(b, 0, d)
    BY <1>2, BoundariesCut
  <2> HIDE DEF b
  <2>2. /\ b \in Seq(Nat \X Nat) /\ n \in Nat \ {0} /\ DOMAIN b = 1 .. n
        /\ \A i \in 1 .. n : b[i][1] \in Nat /\ b[i][2] \in Nat
    BY <2>1 DEF WellCut
  <2>3. /\ DOMAIN c = 1 .. n
        /\ \A i \in 1 .. n : /\ c[i].from = b[i][1] /\ c[i].to = b[i][2]
                             /\ c[i].text = {s \in speech : s.to > b[i][1] /\ s.from < b[i][2]}
    BY <2>2 DEF Fused, SpeechIn, b
  <2>4. Len(c) = n
    <3>1. c = [i \in 1 .. n |-> c[i]]
      BY <2>2 DEF Fused, b
    <3> HIDE DEF c
    <3> QED
      BY <2>2, <3>1
  <2> HIDE DEF c, n
  <2>5. /\ b[1][1] = 0 /\ b[n][2] = d /\ 1 \in 1 .. n /\ n \in 1 .. n
        /\ \A i \in 1 .. n : /\ b[i][1] < b[i][2] /\ b[i][2] <= b[i][1] + Longest
                             /\ i < n => b[i][2] >= b[i][1] + Shortest
        /\ \A i \in 2 .. n : b[i][1] = b[i - 1][2] - Shared
    BY <2>1, <2>2 DEF WellCut, n
  <2>6. \A i \in 2 .. n : i \in 1 .. n /\ i - 1 \in 1 .. n /\ i - 1 < n /\ b[i - 1][1] < b[i][1]
    <3> SUFFICES ASSUME NEW i \in 2 .. n
                 PROVE  i \in 1 .. n /\ i - 1 \in 1 .. n /\ i - 1 < n /\ b[i - 1][1] < b[i][1]
      OBVIOUS
    <3>1. i \in 1 .. n /\ i - 1 \in 1 .. n /\ i - 1 < n
      BY <2>2
    <3> DEFINE j == i - 1
    <3>2. b[j][1] \in Nat /\ b[j][2] \in Nat /\ b[j][2] >= b[j][1] + Shortest /\ b[i][1] = b[j][2] - Shared
      BY <2>2, <2>5, <3>1
    <3> HIDE DEF j
    <3>3. b[j][1] < b[i][1]
      BY <3>2, FusionNumbers
    <3> QED
      BY <3>1, <3>3 DEF j
  <2>7. /\ c[1].from = 0 /\ Last(c).to = d
        /\ \A i \in 2 .. n : c[i - 1].from < c[i].from /\ c[i].from = c[i - 1].to - Shared
    <3>1. c[1].from = 0
      BY <2>3, <2>5
    <3>2. Last(c).to = d
      BY <2>3, <2>4, <2>5 DEF Last
    <3>3. ASSUME NEW i \in 2 .. n PROVE c[i - 1].from < c[i].from /\ c[i].from = c[i - 1].to - Shared
      <4> DEFINE j == i - 1
      <4>1. i \in 1 .. n /\ j \in 1 .. n /\ b[j][1] < b[i][1]
        BY <2>6
      <4>2. b[i][1] = b[j][2] - Shared
        BY <2>5
      <4> HIDE DEF j
      <4>3. c[j].from < c[i].from /\ c[i].from = c[j].to - Shared
        BY <2>3, <4>1, <4>2
      <4> QED
        BY <4>3 DEF j
    <3> QED
      BY <3>1, <3>2, <3>3
  <2>8. \A i \in 1 .. n : c[i].to - c[i].from <= Longest /\ (i < n => c[i].to - c[i].from >= Shortest)
    <3> SUFFICES ASSUME NEW i \in 1 .. n
                 PROVE  c[i].to - c[i].from <= Longest /\ (i < n => c[i].to - c[i].from >= Shortest)
      OBVIOUS
    <3>1. b[i][1] \in Nat /\ b[i][2] \in Nat /\ b[i][2] <= b[i][1] + Longest
          /\ (i < n => b[i][2] >= b[i][1] + Shortest)
      BY <2>2, <2>5
    <3>2. b[i][2] - b[i][1] <= Longest /\ (i < n => b[i][2] - b[i][1] >= Shortest)
      BY <3>1, FusionNumbers
    <3> QED
      BY <2>3, <3>2
  <2>9. ASSUME NEW s \in speech, s.from < s.to, s.from < d
        PROVE  \E i \in 1 .. n : s \in c[i].text
    <3>1. s.from \in Nat /\ s.to \in Nat
      OBVIOUS
    <3> DEFINE S == {i \in 1 .. n : s.from < b[i][2]}
    <3>2. S \in SUBSET Nat /\ n \in S
      BY <2>5, <2>9
    <3>3. PICK i \in S : \A j \in S : i <= j
      BY <3>2, LeastNumber
    <3>4. b[i][1] <= s.from
      <4>1. CASE i = 1
        BY <2>5, <3>1, <4>1
      <4>2. CASE i # 1
        <5>1. i \in 2 .. n /\ i - 1 \in 1 .. n /\ i - 1 \notin S
          BY <2>2, <3>3, <4>2
        <5> DEFINE j == i - 1
        <5>2. j \in 1 .. n /\ j \notin S /\ b[i][1] = b[j][2] - Shared
          BY <2>5, <5>1
        <5> HIDE DEF j
        <5>3. b[j][2] \in Nat /\ ~(s.from < b[j][2])
          BY <2>2, <5>2
        <5>4. b[i][1] <= b[j][2] /\ b[j][2] <= s.from
          BY <3>1, <5>2, <5>3, FusionNumbers
        <5>5. b[i][1] \in Nat
          BY <2>2, <5>1
        <5> QED
          BY <3>1, <5>3, <5>4, <5>5
      <4> QED
        BY <4>1, <4>2
    <3>5. s \in c[i].text
      <4>1. s.from < b[i][2] /\ i \in 1 .. n
        BY <3>3
      <4>2. s.to > b[i][1]
        BY <2>2, <2>9, <3>1, <3>4, <4>1
      <4> QED
        BY <2>3, <4>1, <4>2
    <3> QED
      BY <3>3, <3>5
  <2> QED
    BY <2>2, <2>3, <2>4, <2>7, <2>8, <2>9 DEF c
<1> QED
  BY <1>1, <1>2

\* A quotient is the number of whole times.
LEMMA QuotientIs ==
    ASSUME NEW k \in Nat, NEW b \in Nat \ {0}, NEW x \in Nat, k * b <= x, x < k * b + b
    PROVE  x \div b = k
<1> DEFINE q == x \div b
<1>1. q \in Nat /\ k * b \in Nat
  BY SMTT(20)
<1>2. q * b <= x /\ x < q * b + b
  BY SMTT(20)
<1> HIDE DEF q
<1>3. CASE q < k
  <2> DEFINE e == k - q - 1
  <2>1. e \in Nat /\ k = q + 1 + e
    BY <1>1, <1>3
  <2> HIDE DEF e
  <2>2. k * b = q * b + b + e * b /\ e * b \in Nat
    BY <1>1, <2>1
  <2> QED
    BY <1>1, <1>2, <2>2
<1>4. CASE q > k
  <2> DEFINE e == q - k - 1
  <2>1. e \in Nat /\ q = k + 1 + e
    BY <1>1, <1>4
  <2> HIDE DEF e
  <2>2. q * b = k * b + b + e * b /\ e * b \in Nat
    BY <1>1, <2>1
  <2> QED
    BY <1>1, <1>2, <2>2
<1> QED
  BY <1>1, <1>3, <1>4

LEMMA BatchNumbers ==
    /\ IndexBatch \in Nat \ {0} /\ EmbedBatch \in Nat \ {0}
    /\ \A v \in Videos : v.duration \in Nat /\ \A s \in v.speech : s.from \in Nat /\ s.to \in Nat
BY VideoAssumption DEF ValidPipeline, ValidIndexer, ProbedVideo

\* The batch that index_chunks has come to.
LEMMA BatchIs ==
    ASSUME batch \in Nat \ {0}, NEW i \in Nat \ {0},
           (batch - 1) * IndexBatch < i, i <= batch * IndexBatch
    PROVE  InBatch(i)
<1> DEFINE k == batch - 1
           x == i - 1
<1>1. k \in Nat /\ x \in Nat /\ batch = k + 1 /\ i = x + 1
  OBVIOUS
<1> HIDE DEF k, x
<1>2. k * IndexBatch < i /\ i <= (k + 1) * IndexBatch
  BY <1>1 DEF k
<1>3. k * IndexBatch \in Nat /\ (k + 1) * IndexBatch = k * IndexBatch + IndexBatch
  BY <1>1, BatchNumbers
<1>4. k * IndexBatch <= x /\ x < k * IndexBatch + IndexBatch
  BY <1>1, <1>2, <1>3, BatchNumbers
<1>5. x \div IndexBatch = k
  BY <1>1, <1>4, BatchNumbers, QuotientIs
<1> QED
  BY <1>5 DEF InBatch, k, x

----------------------------------------------------------------------------
(* What a step leaves as it is.                                            *)

LEMMA ChunksKept ==
    ASSUME ChunksInv, UNCHANGED <<clip, chunks>>
    PROVE  ChunksInv' /\ (SpeechCovered' <=> SpeechCovered)
BY DEF ChunksInv, ChunksCoverVideo, SpeechCovered, Last

LEMMA StagesKept ==
    ASSUME StagesInv, UNCHANGED <<step, track, stages>>,
           \A s \in DOMAIN replies' : replies'[s] \in BOOLEAN,
           step \notin {"probe", "extraction"} \/ UNCHANGED replies
    PROVE  StagesInv'
<1>1. OnPath(stages', StagePath') /\ Reported' = Reported /\ (AllSucceeded(stages') <=> AllSucceeded(stages))
  BY DEF StagesInv, StagePath, Reported
<1> QED
  BY <1>1 DEF StagesInv

\* While a call runs it has reported nothing.
LEMMA NoReportYet ==
    ASSUME step' # "idle", report' = "none"
    PROVE  ReportInv'
BY DEF ReportInv, LeftoversExplained

\* A call that ends in its first stages has not come to the fusion.
LEMMA EndsEarly ==
    ASSUME step' = "idle", report' = "failed", track' \in BOOLEAN,
           OnPath(stages', StagePath'), Len(stages') <= 3
    PROVE  ReportInv'
<1>1. StagePath' \in {Stages, Silent}
  BY DEF StagePath
<1>2. stages' \in Seq(StageNames \X BOOLEAN) /\ DOMAIN stages' = 1 .. Len(stages') /\ Len(stages') \in Nat
  BY DEF OnPath
<1>3. \A i \in 1 .. 3 : StagePath'[i] # "fusion"
  BY <1>1, PathsAre
<1>4. \A i \in DOMAIN stages' : i \in 1 .. 3 /\ stages'[i][1] = StagePath'[i]
  BY <1>2 DEF OnPath
<1>5. ~\E i \in DOMAIN stages' : stages'[i][1] = "fusion"
  BY <1>3, <1>4
<1> QED
  BY <1>5 DEF ReportInv, LeftoversExplained

----------------------------------------------------------------------------
(* The steps.                                                              *)

LEMMA PathNow ==
    ASSUME StagesInv
    PROVE  /\ StagePath \in {Stages, Silent} /\ track \in BOOLEAN
           /\ OnPath(stages, StagePath) /\ Len(stages) \in Nat
           /\ \A i \in 1 .. 4 : StagePath[i] = Stages[i]
           /\ StagePath[Reported] = "fusion" /\ StagePath[Reported + 1] = "embedding"
           /\ StagePath[Reported + 2] = "indexing" /\ Len(StagePath) = Reported + 2
           /\ Reported \in {5, 6}
<1>1. OnPath(stages, StagePath) /\ track \in BOOLEAN
  BY DEF StagesInv
<1>2. stages \in Seq(StageNames \X BOOLEAN)
  BY <1>1 DEF OnPath
<1>3. Len(stages) \in Nat
  BY <1>2
<1>4. CASE track
  <2>1. StagePath = Stages /\ Reported = 6
    BY <1>4 DEF StagePath, Reported
  <2> QED
    BY <1>1, <1>3, <2>1, PathsAre
<1>5. CASE ~track
  <2>1. StagePath = Silent /\ Reported = 5
    BY <1>5 DEF StagePath, Reported
  <2> QED
    BY <1>1, <1>3, <2>1, PathsAre
<1> QED
  BY <1>1, <1>4, <1>5

LEMMA CallBegins ==
    ASSUME CallInv, Process
    PROVE  StagesInv' /\ ChunksInv' /\ SpeechInv' /\ PointsInv' /\ ReportInv'
<1>1. /\ stages' = <<>> /\ track' = FALSE /\ replies' = <<>> /\ chunks' = <<>> /\ vectors' = <<>>
      /\ \/ step' = "idle" /\ report' = "error"
         \/ step' = "probe" /\ report' = "none"
      /\ UNCHANGED clip
  BY DEF Process
<1>2. Len(<<>>) = 0 /\ DOMAIN <<>> = {} /\ <<>> \in Seq(StageNames \X BOOLEAN) /\ 1 .. 0 = {}
  OBVIOUS
<1>3. OnPath(<<>>, Silent) /\ StagePath' = Silent
  BY <1>1, <1>2, PathsAre DEF OnPath, StagePath
<1>4. StagesInv'
  BY <1>1, <1>2, <1>3 DEF StagesInv, VidSteps
<1>5. ChunksInv'
  BY <1>1, <1>2 DEF CallInv, ChunksInv, ChunksCoverVideo
<1>6. SpeechInv' /\ PointsInv'
  BY <1>1 DEF SpeechInv, PointsInv
<1>7. ReportInv'
  BY <1>1 DEF ReportInv, LeftoversExplained
<1> QED
  BY <1>4, <1>5, <1>6, <1>7

LEMMA Probed ==
    ASSUME CallInv, ProbeVideo
    PROVE  StagesInv' /\ ChunksInv' /\ SpeechInv' /\ PointsInv' /\ ReportInv'
<1>1. /\ step = "probe" /\ Len(stages) = 0 /\ DOMAIN replies = {} /\ report = "none" /\ vectors = <<>>
      /\ StagesInv /\ ChunksInv
  BY DEF CallInv, StagesInv, ReportInv, PointsInv, ProbeVideo
<1>2. UNCHANGED <<clip, track, replies, chunks, vectors>>
  BY DEF ProbeVideo
<1>3. PICK success \in BOOLEAN :
          /\ stages' = Append(stages, <<"probe", success>>)
          /\ success => step' = "extraction" /\ report' = report
          /\ ~success => step' = "idle" /\ report' = IF AllSucceeded(stages') THEN "ok" ELSE "failed"
  BY DEF ProbeVideo, Noted, Finish
<1>4. /\ OnPath(stages', StagePath) /\ Len(stages') = 1
      /\ AllSucceeded(stages') <=> AllSucceeded(stages) /\ success
  <2>1. /\ StagePath \in {Stages, Silent} /\ OnPath(stages, StagePath) /\ Len(stages) < Len(StagePath)
        /\ "probe" \in StageNames /\ StagePath[Len(stages) + 1] = "probe"
    BY <1>1, PathNow, PathsAre DEF StageNames
  <2>2. LET more == Append(stages, <<"probe", success>>)
        IN /\ OnPath(more, StagePath) /\ Len(more) = Len(stages) + 1
           /\ AllSucceeded(more) <=> AllSucceeded(stages) /\ success
    BY <2>1, PathGrows
  <2> QED
    BY <1>1, <1>3, <2>2
<1>5. StagePath' = StagePath
  BY <1>2 DEF StagePath
<1>6. StagesInv'
  BY <1>1, <1>2, <1>3, <1>4, <1>5 DEF StagesInv, VidSteps
<1>7. ChunksInv'
  BY <1>1, <1>2, ChunksKept
<1>8. SpeechInv' /\ PointsInv'
  BY <1>1, <1>2, <1>3 DEF SpeechInv, PointsInv
<1>9. ReportInv'
  <2>1. CASE success
    BY <1>1, <1>3, <2>1, NoReportYet
  <2>2. CASE ~success
    <3>1. step' = "idle" /\ report' = "failed" /\ track' \in BOOLEAN /\ Len(stages') <= 3
      BY <1>1, <1>2, <1>3, <1>4, <2>2 DEF StagesInv
    <3> QED
      BY <1>4, <1>5, <3>1, EndsEarly
  <2> QED
    BY <2>1, <2>2
<1> QED
  BY <1>6, <1>7, <1>8, <1>9

LEMMA FramesTaken ==
    ASSUME CallInv, ExtractFrames
    PROVE  StagesInv' /\ ChunksInv' /\ SpeechInv' /\ PointsInv' /\ ReportInv'
<1>1. /\ step = "extraction" /\ report = "none" /\ vectors = <<>> /\ StagesInv /\ ChunksInv
      /\ Len(stages) = 1 /\ ("audio" \in DOMAIN replies /\ replies["audio"] => track)
      /\ \A s \in DOMAIN replies : replies[s] \in BOOLEAN
  BY DEF CallInv, StagesInv, ReportInv, PointsInv, ExtractFrames
<1>2. UNCHANGED <<step, clip, stages, track, chunks, vectors, report>>
  BY DEF ExtractFrames
<1>3. PICK success \in BOOLEAN :
          replies' = [s \in DOMAIN replies \cup {"frames"} |-> IF s = "frames" THEN success ELSE replies[s]]
  BY DEF ExtractFrames, Answered
<1>4. /\ \A s \in DOMAIN replies' : replies'[s] \in BOOLEAN
      /\ "audio" \in DOMAIN replies' /\ replies'["audio"] => track
  BY <1>1, <1>3
<1>5. StagePath' = StagePath
  BY <1>2 DEF StagePath
<1>6. StagesInv'
  BY <1>1, <1>2, <1>4, <1>5 DEF StagesInv, VidSteps
<1>7. ChunksInv' /\ SpeechInv' /\ PointsInv' /\ ReportInv'
  BY <1>1, <1>2, ChunksKept, NoReportYet DEF SpeechInv, PointsInv
<1> QED
  BY <1>6, <1>7

LEMMA AudioTaken ==
    ASSUME CallInv, ExtractAudio
    PROVE  StagesInv' /\ ChunksInv' /\ SpeechInv' /\ PointsInv' /\ ReportInv'
<1>1. /\ step = "extraction" /\ report = "none" /\ vectors = <<>> /\ StagesInv /\ ChunksInv
      /\ Len(stages) = 1 /\ \A s \in DOMAIN replies : replies[s] \in BOOLEAN
      /\ track \in BOOLEAN
  BY DEF CallInv, StagesInv, ReportInv, PointsInv, ExtractAudio
<1>2. UNCHANGED <<step, clip, stages, chunks, vectors, report>>
  BY DEF ExtractAudio
<1>3. PICK success \in BOOLEAN :
          /\ replies' = [s \in DOMAIN replies \cup {"audio"} |-> IF s = "audio" THEN success ELSE replies[s]]
          /\ IF success THEN track' = TRUE ELSE track' = track
  BY DEF ExtractAudio, Answered
<1>4. /\ \A s \in DOMAIN replies' : replies'[s] \in BOOLEAN
      /\ "audio" \in DOMAIN replies' /\ replies'["audio"] => track'
      /\ track' \in BOOLEAN
  BY <1>1, <1>3
<1>5. OnPath(stages', StagePath')
  <2>1. OnPath(stages, StagePath) /\ StagePath[1] = Stages[1]
    BY <1>1, PathNow
  <2>2. stages \in Seq(StageNames \X BOOLEAN) /\ \A i \in 1 .. 1 : stages[i][1] = Stages[1]
    BY <1>1, <2>1 DEF OnPath
  <2>3. StagePath'[1] = Stages[1] /\ 1 <= Len(StagePath')
    <3>1. StagePath' \in {Stages, Silent}
      BY DEF StagePath
    <3>2. Stages[1] = Silent[1] /\ Len(Stages) = 8 /\ Len(Silent) = 7
      BY PathsAre
    <3>3. \A p \in {Stages, Silent} : p[1] = Stages[1] /\ 1 <= Len(p)
      BY <3>2
    <3> QED
      BY <3>1, <3>3
  <2>4. Len(stages') = 1 /\ \A i \in 1 .. Len(stages') : i = 1
    <3>1. Len(stages') = 1
      BY <1>1, <1>2
    <3> QED
      BY <3>1
  <2> QED
    BY <1>1, <1>2, <2>2, <2>3, <2>4 DEF OnPath
<1>6. StagesInv'
  BY <1>1, <1>2, <1>4, <1>5 DEF StagesInv, VidSteps
<1>7. ChunksInv' /\ SpeechInv' /\ PointsInv' /\ ReportInv'
  BY <1>1, <1>2, ChunksKept, NoReportYet DEF SpeechInv, PointsInv
<1> QED
  BY <1>6, <1>7

LEMMA TwoMore ==
    ASSUME NEW T, NEW s \in Seq(T), NEW x \in T, NEW y \in T
    PROVE  s \o <<x, y>> = Append(Append(s, x), y) /\ s \o <<x>> = Append(s, x)
<1> DEFINE a == Append(Append(s, x), y)
           b == s \o <<x, y>>
<1>1. a \in Seq(T) /\ Len(a) = Len(s) + 2 /\ Len(s) \in Nat
  OBVIOUS
<1>2. b \in Seq(T) /\ Len(b) = Len(s) + 2
  OBVIOUS
<1>3. \A i \in 1 .. Len(s) + 2 : a[i] = b[i]
  OBVIOUS
<1> HIDE DEF a, b
<1>4. a = b
  BY <1>1, <1>2, <1>3, SeqEqual
<1> QED
  BY <1>4 DEF a, b

LEMMA PathGrowsTwice ==
    ASSUME NEW results, NEW path \in {Stages, Silent}, OnPath(results, path), Len(results) + 1 < Len(path),
           NEW name \in StageNames, NEW success \in BOOLEAN, path[Len(results) + 1] = name,
           NEW next \in StageNames, NEW result \in BOOLEAN, path[Len(results) + 2] = next
    PROVE  LET more == results \o <<<<name, success>>, <<next, result>>>>
           IN /\ OnPath(more, path) /\ Len(more) = Len(results) + 2
              /\ AllSucceeded(more) <=> AllSucceeded(results) /\ success /\ result
<1> DEFINE first == Append(results, <<name, success>>)
           both == Append(first, <<next, result>>)
<1>1. results \in Seq(StageNames \X BOOLEAN) /\ Len(results) \in Nat /\ Len(path) \in Nat
  BY PathsAre DEF OnPath
<1>2. Len(results) < Len(path)
  BY <1>1
<1>3. /\ OnPath(first, path) /\ Len(first) = Len(results) + 1
      /\ AllSucceeded(first) <=> AllSucceeded(results) /\ success
  BY <1>2, PathGrows
<1> HIDE DEF first
<1>4. Len(first) < Len(path) /\ path[Len(first) + 1] = next /\ Len(first) + 1 = Len(results) + 2
  BY <1>1, <1>3
<1>5. /\ OnPath(both, path) /\ Len(both) = Len(first) + 1
      /\ AllSucceeded(both) <=> AllSucceeded(first) /\ result
  BY <1>3, <1>4, PathGrows
<1> HIDE DEF both
<1>6. both = results \o <<<<name, success>>, <<next, result>>>>
  <2> DEFINE x == <<name, success>>
             y == <<next, result>>
  <2>1. x \in StageNames \X BOOLEAN /\ y \in StageNames \X BOOLEAN
    OBVIOUS
  <2>2. first = Append(results, x) /\ both = Append(first, y)
    BY DEF first, both
  <2> HIDE DEF x, y
  <2>3. results \o <<x, y>> = Append(Append(results, x), y)
    BY <1>1, <2>1, TwoMore
  <2> QED
    BY <2>2, <2>3 DEF x, y
<1> QED
  BY <1>3, <1>4, <1>5, <1>6

LEMMA ExtractionEnds ==
    ASSUME CallInv, Extracted
    PROVE  StagesInv' /\ ChunksInv' /\ SpeechInv' /\ PointsInv' /\ ReportInv'
<1>1. /\ step = "extraction" /\ report = "none" /\ vectors = <<>> /\ StagesInv /\ ChunksInv
      /\ Len(stages) = 1 /\ ("audio" \in DOMAIN replies /\ replies["audio"] => track)
      /\ \A s \in DOMAIN replies : replies[s] \in BOOLEAN
      /\ track \in BOOLEAN
  BY DEF CallInv, StagesInv, ReportInv, PointsInv, Extracted
<1>2. /\ "frames" \in DOMAIN replies /\ "audio" \in DOMAIN replies
      /\ UNCHANGED <<clip, track, chunks, vectors>> /\ replies' = <<>>
  BY DEF Extracted
<1> DEFINE results == stages \o <<<<"frames", replies["frames"]>>, <<"audio", replies["audio"]>>>>
<1>3. /\ stages' = results
      /\ \/ /\ ~track /\ step' = "idle"
            /\ report' = IF AllSucceeded(results) THEN "ok" ELSE "failed"
         \/ step' = "analysis" /\ report' = report
  BY DEF Extracted, Finish, Pair
<1>4. /\ OnPath(results, StagePath) /\ Len(results) = 3
      /\ AllSucceeded(results) => replies["audio"]
  <2>1. /\ StagePath \in {Stages, Silent} /\ OnPath(stages, StagePath) /\ Len(stages) + 1 < Len(StagePath)
        /\ StagePath[2] = "frames" /\ StagePath[3] = "audio"
    BY <1>1, PathNow, PathsAre
  <2>2. /\ "frames" \in StageNames /\ "audio" \in StageNames
        /\ replies["frames"] \in BOOLEAN /\ replies["audio"] \in BOOLEAN
    BY <1>1, <1>2 DEF StageNames
  <2>3. StagePath[Len(stages) + 1] = "frames" /\ StagePath[Len(stages) + 2] = "audio"
    BY <1>1, <2>1
  <2>4. /\ OnPath(results, StagePath) /\ Len(results) = Len(stages) + 2
        /\ AllSucceeded(results) <=> AllSucceeded(stages) /\ replies["frames"] /\ replies["audio"]
    BY <2>1, <2>2, <2>3, PathGrowsTwice
  <2> QED
    BY <1>1, <2>4
<1> HIDE DEF results
<1>5. StagePath' = StagePath
  BY <1>2 DEF StagePath
<1>6. StagesInv'
  BY <1>1, <1>2, <1>3, <1>4, <1>5 DEF StagesInv, VidSteps
<1>7. ChunksInv' /\ SpeechInv' /\ PointsInv'
  BY <1>1, <1>2, <1>3, ChunksKept DEF SpeechInv, PointsInv
<1>8. ReportInv'
  <2>1. CASE step' = "analysis" /\ report' = report
    BY <1>1, <2>1, NoReportYet
  <2>2. CASE ~track /\ step' = "idle" /\ report' = IF AllSucceeded(results) THEN "ok" ELSE "failed"
    <3>1. report' = "failed" /\ track' \in BOOLEAN /\ Len(stages') <= 3
      BY <1>1, <1>2, <1>3, <1>4, <2>2
    <3>2. OnPath(stages', StagePath')
      BY <1>3, <1>4, <1>5
    <3> QED
      BY <2>2, <3>1, <3>2, EndsEarly
  <2> QED
    BY <1>3, <2>1, <2>2
<1> QED
  BY <1>6, <1>7, <1>8

LEMMA Analysed ==
    ASSUME CallInv, DetectScenes \/ Transcribe
    PROVE  StagesInv' /\ ChunksInv' /\ SpeechInv' /\ PointsInv' /\ ReportInv'
<1>1. /\ step = "analysis" /\ report = "none" /\ vectors = <<>> /\ StagesInv /\ ChunksInv
      /\ \A s \in DOMAIN replies : replies[s] \in BOOLEAN
  BY DEF CallInv, StagesInv, ReportInv, PointsInv, DetectScenes, Transcribe
<1>2. UNCHANGED <<step, clip, stages, track, chunks, vectors, report>>
  BY DEF DetectScenes, Transcribe
<1>3. PICK stage \in {"scenes", "speech"}, success \in BOOLEAN :
          replies' = [s \in DOMAIN replies \cup {stage} |-> IF s = stage THEN success ELSE replies[s]]
  <2>1. CASE DetectScenes
    BY <2>1 DEF DetectScenes, Answered
  <2>2. CASE Transcribe
    BY <2>2 DEF Transcribe, Answered
  <2> QED
    BY <2>1, <2>2
<1>4. \A s \in DOMAIN replies' : replies'[s] \in BOOLEAN
  BY <1>1, <1>3
<1>5. StagesInv'
  BY <1>1, <1>2, <1>4, StagesKept
<1>6. ChunksInv' /\ SpeechInv' /\ PointsInv' /\ ReportInv'
  BY <1>1, <1>2, ChunksKept, NoReportYet DEF SpeechInv, PointsInv
<1> QED
  BY <1>5, <1>6

LEMMA IsFused ==
    ASSUME CallInv, Fuse
    PROVE  StagesInv' /\ ChunksInv' /\ SpeechInv' /\ PointsInv' /\ ReportInv'
<1> DEFINE heard == track /\ replies["speech"]
           pair == IF track THEN <<<<"scenes", replies["scenes"]>>, <<"speech", replies["speech"]>>>>
                   ELSE <<<<"scenes", replies["scenes"]>>>>
           before == stages \o pair
           speech == IF heard THEN clip.speech ELSE {}
<1>1. /\ step = "analysis" /\ report = "none" /\ vectors = <<>> /\ StagesInv /\ ChunksInv
      /\ Len(stages) = 3 /\ \A s \in DOMAIN replies : replies[s] \in BOOLEAN
      /\ track \in BOOLEAN /\ clip \in Videos /\ (AllSucceeded(stages) => track)
      /\ OnPath(stages, StagePath)
  BY DEF CallInv, StagesInv, ReportInv, PointsInv, ChunksInv, Fuse
<1>2. /\ "scenes" \in DOMAIN replies /\ (track => "speech" \in DOMAIN replies)
      /\ UNCHANGED <<clip, track, vectors, report>> /\ replies' = <<>> /\ step' = "embedding"
  BY DEF Fuse
<1>3. stages' = before \o <<<<"fusion", TRUE>>>> /\ chunks' = Fused(clip.duration, speech, frames)
  BY DEF Fuse, Pair
<1>4. /\ OnPath(before, StagePath) /\ Len(before) = Reported - 1
      /\ AllSucceeded(before) => AllSucceeded(stages) /\ (track => replies["speech"])
  <2>1. /\ StagePath \in {Stages, Silent} /\ Len(stages) + 2 < Len(StagePath)
        /\ StagePath[Len(stages) + 1] = "scenes"
        /\ "scenes" \in StageNames /\ "speech" \in StageNames
        /\ replies["scenes"] \in BOOLEAN /\ (track => replies["speech"] \in BOOLEAN)
    BY <1>1, <1>2, PathNow, PathsAre DEF StageNames
  <2>2. CASE track
    <3>1. StagePath[Len(stages) + 2] = "speech" /\ Reported = 6 /\ Len(stages) + 1 < Len(StagePath)
      BY <1>1, <2>1, <2>2, PathsAre DEF StagePath, Reported
    <3>2. replies["speech"] \in BOOLEAN
      BY <2>1, <2>2
    <3> DEFINE s == replies["scenes"]
               t == replies["speech"]
    <3>3. s \in BOOLEAN /\ t \in BOOLEAN
      BY <2>1, <3>2
    <3> HIDE DEF s, t
    <3>4. LET more == stages \o <<<<"scenes", s>>, <<"speech", t>>>>
          IN /\ OnPath(more, StagePath) /\ Len(more) = Len(stages) + 2
             /\ AllSucceeded(more) <=> AllSucceeded(stages) /\ s /\ t
      <4>1. /\ StagePath \in {Stages, Silent} /\ OnPath(stages, StagePath) /\ Len(stages) + 1 < Len(StagePath)
            /\ "scenes" \in StageNames /\ StagePath[Len(stages) + 1] = "scenes"
            /\ "speech" \in StageNames /\ StagePath[Len(stages) + 2] = "speech"
        BY <1>1, <2>1, <3>1
      <4> QED
        BY <3>3, <4>1, PathGrowsTwice
    <3>5. before = stages \o <<<<"scenes", s>>, <<"speech", t>>>>
      BY <2>2 DEF s, t
    <3> HIDE DEF before
    <3> QED
      BY <1>1, <3>1, <3>4, <3>5 DEF t
  <2>3. CASE ~track
    <3> DEFINE s == replies["scenes"]
    <3>1. s \in BOOLEAN /\ Reported = 5 /\ Len(stages) < Len(StagePath)
      BY <1>1, <2>1, <2>3 DEF Reported
    <3> HIDE DEF s
    <3>2. LET more == Append(stages, <<"scenes", s>>)
          IN /\ OnPath(more, StagePath) /\ Len(more) = Len(stages) + 1
             /\ AllSucceeded(more) <=> AllSucceeded(stages) /\ s
      <4>1. /\ StagePath \in {Stages, Silent} /\ OnPath(stages, StagePath) /\ Len(stages) < Len(StagePath)
            /\ "scenes" \in StageNames /\ StagePath[Len(stages) + 1] = "scenes"
        BY <1>1, <2>1, <3>1
      <4> QED
        BY <3>1, <4>1, PathGrows
    <3>3. stages \o <<<<"scenes", s>>>> = Append(stages, <<"scenes", s>>)
      <4>1. stages \in Seq(StageNames \X BOOLEAN) /\ <<"scenes", s>> \in StageNames \X BOOLEAN
        BY <1>1, <2>1, <3>1 DEF OnPath
      <4> QED
        BY <4>1, TwoMore
    <3>4. before = Append(stages, <<"scenes", s>>)
      BY <2>3, <3>3 DEF s
    <3> HIDE DEF before
    <3> QED
      BY <1>1, <2>3, <3>1, <3>2, <3>4
  <2> QED
    BY <1>1, <2>2, <2>3
<1> HIDE DEF before
<1>5. /\ OnPath(stages', StagePath) /\ Len(stages') = Reported
      /\ AllSucceeded(stages') => AllSucceeded(before)
  <2>1. /\ StagePath \in {Stages, Silent} /\ Len(before) < Len(StagePath)
        /\ StagePath[Len(before) + 1] = "fusion" /\ "fusion" \in StageNames
        /\ Len(before) + 1 = Reported
    BY <1>1, <1>4, PathNow DEF StageNames
  <2>2. LET more == Append(before, <<"fusion", TRUE>>)
        IN /\ OnPath(more, StagePath) /\ Len(more) = Len(before) + 1
           /\ AllSucceeded(more) <=> AllSucceeded(before) /\ TRUE
    <3> DEFINE yes == TRUE
    <3>1. yes \in BOOLEAN
      OBVIOUS
    <3> HIDE DEF yes
    <3>2. LET more == Append(before, <<"fusion", yes>>)
          IN /\ OnPath(more, StagePath) /\ Len(more) = Len(before) + 1
             /\ AllSucceeded(more) <=> AllSucceeded(before) /\ yes
      BY <1>4, <2>1, <3>1, PathGrows
    <3> QED
      BY <3>2 DEF yes
  <2>3. before \o <<<<"fusion", TRUE>>>> = Append(before, <<"fusion", TRUE>>)
    <3> DEFINE x == <<"fusion", TRUE>>
    <3>1. before \in Seq(StageNames \X BOOLEAN) /\ x \in StageNames \X BOOLEAN
      BY <1>4, <2>1 DEF OnPath
    <3> HIDE DEF x
    <3>2. before \o <<x>> = Append(before, x)
      BY <3>1, TwoMore
    <3> QED
      BY <3>2 DEF x
  <2> QED
    BY <1>3, <2>1, <2>2, <2>3
<1>6. StagePath' = StagePath /\ Reported' = Reported
  BY <1>2 DEF StagePath, Reported
<1>7. AllSucceeded(stages') => track /\ heard
  BY <1>1, <1>4, <1>5
<1>8. StagesInv'
  <2>1. \A s \in DOMAIN replies' : replies'[s] \in BOOLEAN
    BY <1>2
  <2> QED
    BY <1>1, <1>2, <1>5, <1>6, <1>7, <2>1 DEF StagesInv, VidSteps
<1>9. ChunksInv' /\ SpeechInv'
  <2>1. /\ clip.duration \in Nat /\ \A s \in clip.speech : s.from \in Nat /\ s.to \in Nat
        /\ \A s \in speech : s.from \in Nat /\ s.to \in Nat
    BY <1>1, BatchNumbers
  <2> DEFINE d == clip.duration
             c == Fused(d, speech, frames)
  <2>2. heard => speech = clip.speech
    OBVIOUS
  <2> HIDE DEF d, speech, heard
  <2>3. /\ Len(c) \in Nat /\ DOMAIN c = 1 .. Len(c)
        /\ c # <<>> =>
              /\ c[1].from = 0 /\ Last(c).to = d
              /\ \A i \in 2 .. Len(c) : /\ c[i - 1].from < c[i].from
                                        /\ c[i].from = c[i - 1].to - Shared
              /\ \A i \in DOMAIN c : /\ c[i].to - c[i].from <= Longest
                                     /\ i < Len(c) => c[i].to - c[i].from >= Shortest
        /\ \A s \in speech : s.from < s.to /\ s.from < d => \E i \in DOMAIN c : s \in c[i].text
    BY <2>1, FusedIs DEF d
  <2> HIDE DEF c
  <2>4. chunks' = c /\ clip' = clip /\ clip.duration = d
    BY <1>2, <1>3 DEF c, d
  <2>5. ChunksInv'
    BY <1>1, <2>3, <2>4 DEF ChunksInv, ChunksCoverVideo
  <2>6. SpeechInv'
    BY <1>7, <2>2, <2>3, <2>4 DEF SpeechInv, SpeechCovered
  <2> QED
    BY <2>5, <2>6
<1>10. PointsInv'
  <2>1. vectors' = <<>> /\ Len(chunks') \in Nat
    BY <1>1, <1>2, <1>9 DEF ChunksInv
  <2>2. vectors' \in Seq({"model", "placeholder"}) /\ Len(vectors') <= Len(chunks')
    BY <2>1
  <2> QED
    BY <1>2, <2>2 DEF PointsInv
<1>11. ReportInv'
  BY <1>1, <1>2, NoReportYet
<1> QED
  BY <1>8, <1>9, <1>10, <1>11

LEMMA Embeds ==
    ASSUME CallInv, Embed
    PROVE  StagesInv' /\ ChunksInv' /\ SpeechInv' /\ PointsInv' /\ ReportInv'
<1>1. /\ step = "embedding" /\ report = "none" /\ StagesInv /\ ChunksInv /\ SpeechInv
      /\ vectors \in Seq({"model", "placeholder"}) /\ Len(vectors) <= Len(chunks)
      /\ Len(chunks) \in Nat /\ Len(vectors) < Len(chunks)
      /\ \A s \in DOMAIN replies : replies[s] \in BOOLEAN
  BY DEF CallInv, StagesInv, ReportInv, PointsInv, ChunksInv, Embed
<1>2. UNCHANGED <<step, clip, stages, track, replies, chunks, report>>
  BY DEF Embed
<1> DEFINE n == Min({EmbedBatch, Len(chunks) - Len(vectors)})
<1>3. PICK got \in 0 .. n : vectors' = vectors \o Embedded(n, got)
  BY DEF Embed
<1>4. n \in Nat /\ n <= Len(chunks) - Len(vectors) /\ Len(vectors) \in Nat
  BY <1>1, BatchNumbers, LesserOf
<1> HIDE DEF n
<1>5. Embedded(n, got) \in Seq({"model", "placeholder"}) /\ Len(Embedded(n, got)) = n
  BY <1>4 DEF Embedded
<1>6. vectors' \in Seq({"model", "placeholder"}) /\ Len(vectors') = Len(vectors) + n
  <2> DEFINE S == {"model", "placeholder"}
             e == Embedded(n, got)
  <2>1. e \in Seq(S) /\ vectors \in Seq(S) /\ Len(e) = n /\ vectors' = vectors \o e
    BY <1>1, <1>3, <1>5
  <2> HIDE DEF S, e
  <2>2. vectors \o e \in Seq(S) /\ Len(vectors \o e) = Len(vectors) + Len(e)
    BY <2>1, ConcatProperties
  <2> QED
    BY <2>1, <2>2 DEF S
<1>7. StagesInv'
  BY <1>1, <1>2, StagesKept
<1>8. ChunksInv' /\ ReportInv'
  BY <1>1, <1>2, ChunksKept, NoReportYet
<1>9. SpeechInv'
  BY <1>1, <1>2 DEF SpeechInv, SpeechCovered
<1>10. PointsInv'
  BY <1>1, <1>2, <1>4, <1>6 DEF PointsInv
<1> QED
  BY <1>7, <1>8, <1>9, <1>10

LEMMA EmbeddingEnds ==
    ASSUME CallInv, EmbeddingDone
    PROVE  StagesInv' /\ ChunksInv' /\ SpeechInv' /\ PointsInv' /\ ReportInv'
<1>1. /\ step = "embedding" /\ report = "none" /\ StagesInv /\ ChunksInv /\ SpeechInv
      /\ vectors \in Seq({"model", "placeholder"}) /\ Len(vectors) = Len(chunks)
      /\ Len(chunks) \in Nat /\ Len(stages) = Reported /\ (AllSucceeded(stages) => track)
      /\ \A s \in DOMAIN replies : replies[s] \in BOOLEAN
  BY DEF CallInv, StagesInv, ReportInv, PointsInv, ChunksInv, EmbeddingDone
<1>2. /\ step' = "indexing" /\ batch' = 1 /\ stages' = Append(stages, <<"embedding", TRUE>>)
      /\ UNCHANGED <<clip, track, replies, chunks, vectors, report, runs, points, wiped>>
  BY DEF EmbeddingDone, Noted
<1>3. /\ StagePath \in {Stages, Silent} /\ OnPath(stages, StagePath) /\ Len(stages) < Len(StagePath)
      /\ "embedding" \in StageNames /\ StagePath[Len(stages) + 1] = "embedding" /\ TRUE \in BOOLEAN
  BY <1>1, PathNow DEF StageNames
<1>4. LET more == Append(stages, <<"embedding", TRUE>>)
      IN /\ OnPath(more, StagePath) /\ Len(more) = Len(stages) + 1
         /\ AllSucceeded(more) <=> AllSucceeded(stages) /\ TRUE
  <2> DEFINE yes == TRUE
  <2>1. yes \in BOOLEAN
    OBVIOUS
  <2> HIDE DEF yes
  <2>2. LET more == Append(stages, <<"embedding", yes>>)
        IN /\ OnPath(more, StagePath) /\ Len(more) = Len(stages) + 1
           /\ AllSucceeded(more) <=> AllSucceeded(stages) /\ yes
    BY <1>3, <2>1, PathGrows
  <2> QED
    BY <2>2 DEF yes
<1>5. StagePath' = StagePath /\ Reported' = Reported
  BY <1>2 DEF StagePath, Reported
<1>6. /\ OnPath(stages', StagePath') /\ Len(stages') = Reported' + 1
      /\ AllSucceeded(stages') <=> AllSucceeded(stages)
  BY <1>1, <1>2, <1>4, <1>5
<1>7. StagesInv'
  BY <1>1, <1>2, <1>6 DEF StagesInv, VidSteps
<1>8. ChunksInv' /\ ReportInv'
  BY <1>1, <1>2, ChunksKept, NoReportYet
<1>9. SpeechInv'
  BY <1>1, <1>2, <1>6 DEF SpeechInv, SpeechCovered
<1>10. PointsInv'
  <2>1. (1 - 1) * IndexBatch = 0
    BY BatchNumbers
  <2>2. \A i \in 1 .. Len(chunks') : ~(i <= (batch' - 1) * IndexBatch)
    BY <1>1, <1>2, <2>1
  <2> QED
    BY <1>1, <1>2, <2>2 DEF PointsInv
<1> QED
  BY <1>7, <1>8, <1>9, <1>10

\* The return of process after the indexing.
LEMMA Returns ==
    ASSUME CallInv, step = "indexing", NEW success \in BOOLEAN, Indexed(success),
           UNCHANGED <<clip, cleanup, track, replies, chunks, runs, points, wiped>>,
           success => \A i \in 1 .. Len(chunks) : wiped < runs => HasPoint(i)
    PROVE  StagesInv' /\ ChunksInv' /\ SpeechInv' /\ PointsInv' /\ ReportInv'
<1>1. /\ StagesInv /\ ChunksInv /\ Len(stages) = Reported + 1
      /\ \A s \in DOMAIN replies : replies[s] \in BOOLEAN
      /\ AllSucceeded(stages) => SpeechCovered
  BY DEF CallInv, StagesInv, SpeechInv
<1>2. /\ step' = "idle" /\ stages' = Append(stages, <<"indexing", success>>)
      /\ report' = (IF AllSucceeded(stages') THEN "ok" ELSE "failed")
      /\ files' = IF cleanup THEN {} ELSE files
  BY DEF Indexed, Finish
<1>3. /\ StagePath \in {Stages, Silent} /\ OnPath(stages, StagePath) /\ Len(stages) < Len(StagePath)
      /\ "indexing" \in StageNames /\ StagePath[Len(stages) + 1] = "indexing"
  BY <1>1, PathNow DEF StageNames
<1>4. LET more == Append(stages, <<"indexing", success>>)
      IN /\ OnPath(more, StagePath) /\ Len(more) = Len(stages) + 1
         /\ AllSucceeded(more) <=> AllSucceeded(stages) /\ success
  BY <1>3, PathGrows
<1>5. StagePath' = StagePath
  BY DEF StagePath
<1>6. OnPath(stages', StagePath') /\ (AllSucceeded(stages') <=> AllSucceeded(stages) /\ success)
  BY <1>2, <1>4, <1>5
<1>7. StagesInv'
  BY <1>1, <1>2, <1>6 DEF StagesInv, VidSteps
<1>8. ChunksInv' /\ (SpeechCovered' <=> SpeechCovered)
  BY <1>1, ChunksKept
<1>9. SpeechInv' /\ PointsInv'
  BY <1>2 DEF SpeechInv, PointsInv
<1>10. ReportInv'
  <2>1. report' = "ok" => AllSucceeded(stages) /\ success
    BY <1>2, <1>6
  <2>2. \A i \in 1 .. Len(chunks) : HasPoint(i)' <=> HasPoint(i)
    BY DEF HasPoint
  <2>3. report' = "ok" => SpeechCovered' /\ (wiped' < runs' => \A i \in 1 .. Len(chunks') : HasPoint(i)')
    BY <1>1, <1>8, <2>1, <2>2
  <2>4. LeftoversExplained'
    BY <1>2 DEF LeftoversExplained
  <2> QED
    BY <1>2, <2>3, <2>4 DEF ReportInv
<1> QED
  BY <1>7, <1>8, <1>9, <1>10

LEMMA Upserts ==
    ASSUME CallInv, Upsert
    PROVE  StagesInv' /\ ChunksInv' /\ SpeechInv' /\ PointsInv' /\ ReportInv'
<1>1. /\ step = "indexing" /\ report = "none" /\ StagesInv /\ ChunksInv /\ SpeechInv
      /\ vectors \in Seq({"model", "placeholder"}) /\ Len(vectors) = Len(chunks)
      /\ Len(chunks) \in Nat /\ DOMAIN chunks = 1 .. Len(chunks) /\ batch \in Nat \ {0}
      /\ wiped < runs => \A i \in 1 .. Len(chunks) : i <= (batch - 1) * IndexBatch => HasPoint(i)
      /\ \A s \in DOMAIN replies : replies[s] \in BOOLEAN
  BY DEF CallInv, StagesInv, ReportInv, PointsInv, ChunksInv, Upsert
<1>2. UNCHANGED <<clip, cleanup, track, replies, chunks, vectors, runs, wiped>>
  BY DEF Upsert
<1> DEFINE new == {[run |-> runs, chunk |-> i, vector |-> vectors[i]] :
                       i \in {i \in DOMAIN chunks : InBatch(i) /\ vectors[i] # "none"}}
<1>3. CASE points' = points \cup new /\ batch' = batch + 1 /\ UNCHANGED <<step, stages, report>>
  <2>1. StagesInv'
    BY <1>1, <1>2, <1>3, StagesKept
  <2>2. ChunksInv' /\ ReportInv'
    BY <1>1, <1>2, <1>3, ChunksKept, NoReportYet
  <2>3. SpeechInv'
    BY <1>1, <1>2, <1>3 DEF SpeechInv, SpeechCovered
  <2>4. ASSUME wiped < runs, NEW i \in 1 .. Len(chunks), i <= batch * IndexBatch PROVE HasPoint(i)'
    <3>1. CASE i <= (batch - 1) * IndexBatch
      <4>1. HasPoint(i)
        BY <1>1, <2>4, <3>1
      <4> QED
        BY <1>2, <1>3, <4>1 DEF HasPoint
    <3>2. CASE ~(i <= (batch - 1) * IndexBatch)
      <4>1. (batch - 1) * IndexBatch \in Nat /\ i \in Nat \ {0}
        BY <1>1, BatchNumbers
      <4>2. (batch - 1) * IndexBatch < i
        BY <3>2, <4>1
      <4>3. InBatch(i)
        BY <1>1, <2>4, <4>1, <4>2, BatchIs
      <4>4. vectors[i] \in {"model", "placeholder"}
        BY <1>1
      <4>5. vectors[i] # "none"
        BY <4>4
      <4>6. [run |-> runs, chunk |-> i, vector |-> vectors[i]] \in points'
        BY <1>1, <1>3, <4>3, <4>5
      <4> QED
        BY <1>2, <4>6 DEF HasPoint
    <3> QED
      BY <3>1, <3>2
  <2>5. PointsInv'
    <3>1. (batch + 1) - 1 = batch
      BY <1>1
    <3>2. wiped' < runs' => \A i \in 1 .. Len(chunks') : i <= (batch' - 1) * IndexBatch => HasPoint(i)'
      BY <1>2, <1>3, <2>4, <3>1
    <3>3. /\ step' = "indexing" /\ vectors' = vectors /\ chunks' = chunks /\ batch' \in Nat \ {0}
      BY <1>1, <1>2, <1>3
    <3> QED
      BY <1>1, <3>2, <3>3 DEF PointsInv
  <2> QED
    BY <2>1, <2>2, <2>3, <2>5
<1>4. CASE Indexed(FALSE) /\ UNCHANGED <<points, batch>>
  BY <1>1, <1>2, <1>4, Returns
<1> QED
  BY <1>3, <1>4 DEF Upsert

LEMMA IndexingEnds ==
    ASSUME CallInv, IndexingDone
    PROVE  StagesInv' /\ ChunksInv' /\ SpeechInv' /\ PointsInv' /\ ReportInv'
<1>1. /\ step = "indexing" /\ Len(chunks) \in Nat /\ DOMAIN chunks = 1 .. Len(chunks)
      /\ batch \in Nat \ {0} /\ Indexed(TRUE) /\ ~\E i \in 1 .. Len(chunks) : InBatch(i)
      /\ wiped < runs => \A i \in 1 .. Len(chunks) : i <= (batch - 1) * IndexBatch => HasPoint(i)
      /\ UNCHANGED <<clip, cleanup, track, replies, chunks, runs, points, wiped>>
  BY DEF CallInv, PointsInv, ChunksInv, IndexingDone
<1>2. ASSUME NEW i \in 1 .. Len(chunks) PROVE i <= (batch - 1) * IndexBatch
  <2> DEFINE done == (batch - 1) * IndexBatch
  <2>1. done \in Nat /\ batch * IndexBatch = done + IndexBatch
    <3> DEFINE k == batch - 1
    <3>1. k \in Nat /\ batch = k + 1
      BY <1>1
    <3> HIDE DEF k
    <3>2. k * IndexBatch \in Nat /\ (k + 1) * IndexBatch = k * IndexBatch + IndexBatch
      BY <3>1, BatchNumbers
    <3> QED
      BY <3>1, <3>2 DEF k
  <2> HIDE DEF done
  <2>2. CASE done < i
    <3>1. done + 1 \in 1 .. Len(chunks) /\ done + 1 \in Nat \ {0}
      BY <1>1, <2>1, <2>2
    <3>2. done < done + 1 /\ done + 1 <= batch * IndexBatch
      BY <2>1, BatchNumbers
    <3>3. InBatch(done + 1)
      BY <1>1, <3>1, <3>2, BatchIs DEF done
    <3> QED
      BY <1>1, <3>1, <3>3
  <2> QED
    BY <1>1, <2>1, <2>2 DEF done
<1>3. \A i \in 1 .. Len(chunks) : wiped < runs => HasPoint(i)
  BY <1>1, <1>2
<1> QED
  BY <1>1, <1>3, Returns

\* The caller's own steps, and a crash.
LEMMA Besides ==
    ASSUME CallInv, CountPoints \/ DeletePoints \/ VideoCrash \/ UNCHANGED vidVars
    PROVE  StagesInv' /\ ChunksInv' /\ SpeechInv' /\ PointsInv' /\ ReportInv'
<1>1. /\ StagesInv /\ ChunksInv /\ SpeechInv /\ PointsInv /\ ReportInv
      /\ \A s \in DOMAIN replies : replies[s] \in BOOLEAN
      /\ runs \in Nat
  BY DEF CallInv, StagesInv, VidInv
<1>2. UNCHANGED <<clip, cleanup, stages, track, replies, chunks, vectors, batch, runs, files>>
  BY DEF CountPoints, DeletePoints, VideoCrash, vidVars
<1>3. ChunksInv' /\ (SpeechCovered' <=> SpeechCovered)
  BY <1>1, <1>2, ChunksKept
<1>4. StagePath' = StagePath /\ Reported' = Reported /\ (AllSucceeded(stages') <=> AllSucceeded(stages))
  BY <1>2 DEF StagePath, Reported
<1>5. CASE VideoCrash
  <2>1. step' = "idle" /\ report' = "crashed"
    BY <1>5 DEF VideoCrash
  <2>2. StagesInv'
    BY <1>1, <1>2, <1>4, <2>1 DEF StagesInv, VidSteps
  <2> QED
    BY <1>3, <2>1, <2>2 DEF SpeechInv, PointsInv, ReportInv, LeftoversExplained
<1>6. CASE UNCHANGED <<step, report>>
           /\ (UNCHANGED <<points, wiped>> \/ (points' = {} /\ wiped' = runs))
  <2>1. StagesInv' /\ SpeechInv'
    BY <1>1, <1>2, <1>3, <1>4, <1>6 DEF StagesInv, SpeechInv
  <2>2. wiped' < runs' => points' = points /\ wiped' = wiped
    BY <1>1, <1>2, <1>6
  <2>3. wiped' < runs' => \A i : HasPoint(i)' <=> HasPoint(i)
    BY <1>2, <2>2 DEF HasPoint
  <2>4. PointsInv'
    BY <1>1, <1>2, <1>6, <2>2, <2>3 DEF PointsInv
  <2>5. LeftoversExplained'
    BY <1>1, <1>2, <1>6 DEF LeftoversExplained, ReportInv
  <2>6. ReportInv'
    BY <1>1, <1>2, <1>3, <1>6, <2>2, <2>3, <2>5 DEF ReportInv
  <2> QED
    BY <1>3, <2>1, <2>4, <2>6
<1>7. CASE CountPoints
  <2>1. UNCHANGED <<step, report, points, wiped>>
    BY <1>7 DEF CountPoints
  <2> QED
    BY <1>6, <2>1
<1>8. CASE DeletePoints
  <2>1. UNCHANGED <<step, report>> /\ points' = {} /\ wiped' = runs
    BY <1>8 DEF DeletePoints
  <2> QED
    BY <1>6, <2>1
<1>9. CASE UNCHANGED vidVars
  <2>1. UNCHANGED <<step, report, points, wiped>>
    BY <1>9 DEF vidVars
  <2> QED
    BY <1>6, <2>1
<1> QED
  BY <1>5, <1>7, <1>8, <1>9

LEMMA CallStep == CallInv /\ [VidNext]_vidVars => CallInv'
<1> SUFFICES ASSUME CallInv, [VidNext]_vidVars
             PROVE  StagesInv' /\ ChunksInv' /\ SpeechInv' /\ PointsInv' /\ ReportInv'
  BY VidStep DEF CallInv
<1>1. CASE Process
  BY <1>1, CallBegins
<1>2. CASE ProbeVideo
  BY <1>2, Probed
<1>3. CASE ExtractFrames
  BY <1>3, FramesTaken
<1>4. CASE ExtractAudio
  BY <1>4, AudioTaken
<1>5. CASE Extracted
  BY <1>5, ExtractionEnds
<1>6. CASE DetectScenes \/ Transcribe
  BY <1>6, Analysed
<1>7. CASE Fuse
  BY <1>7, IsFused
<1>8. CASE Embed
  BY <1>8, Embeds
<1>9. CASE EmbeddingDone
  BY <1>9, EmbeddingEnds
<1>10. CASE Upsert
  BY <1>10, Upserts
<1>11. CASE IndexingDone
  BY <1>11, IndexingEnds
<1>12. CASE CountPoints \/ DeletePoints \/ VideoCrash \/ UNCHANGED vidVars
  BY <1>12, Besides
<1> QED
  BY <1>1, <1>2, <1>3, <1>4, <1>5, <1>6, <1>7, <1>8, <1>9, <1>10, <1>11, <1>12 DEF VidNext, Working

LEMMA CallsInv ==
    ASSUME CallInv
    PROVE  CallsAccounted
<1>1. StagesInOrder
  BY PathInOrder DEF CallInv, StagesInv
<1>2. ChunksCoverVideo /\ LeftoversExplained
  BY DEF CallInv, ChunksInv, ReportInv
<1>3. SuccessIsIndexed
  <2>1. DOMAIN chunks = 1 .. Len(chunks)
    BY DEF CallInv, ChunksInv
  <2> QED
    BY <2>1 DEF CallInv, ReportInv, SuccessIsIndexed, HasPoint, SpeechCovered
<1> QED
  BY <1>1, <1>2, <1>3 DEF CallsAccounted

LEMMA CallStarts == VidInit => CallInv
<1> SUFFICES ASSUME VidInit PROVE CallInv
  OBVIOUS
<1>1. /\ step = "idle" /\ clip \in Videos /\ stages = <<>> /\ track = FALSE /\ replies = <<>>
      /\ chunks = <<>> /\ vectors = <<>> /\ report = "none" /\ runs = 0 /\ files = {}
      /\ points = {} /\ wiped = 0
  BY DEF VidInit
<1>2. Len(<<>>) = 0 /\ DOMAIN <<>> = {} /\ <<>> \in Seq(StageNames \X BOOLEAN) /\ 1 .. 0 = {}
  OBVIOUS
<1>3. OnPath(<<>>, Silent) /\ StagePath = Silent
  BY <1>1, <1>2, PathsAre DEF OnPath, StagePath
<1>4. StagesInv
  BY <1>1, <1>2, <1>3 DEF StagesInv, VidSteps
<1>5. ChunksInv
  BY <1>1, <1>2 DEF ChunksInv, ChunksCoverVideo
<1>6. SpeechInv /\ PointsInv /\ ReportInv
  BY <1>1 DEF SpeechInv, PointsInv, ReportInv, LeftoversExplained
<1>7. VidInv
  BY <1>1 DEF VidInv
<1> QED
  BY <1>4, <1>5, <1>6, <1>7 DEF CallInv

\* video/pipeline.rs process: what a call reports is what it did.  Its stages are
\* in their order with none passed over but the transcription of a silent video;
\* the chunks cut the video without gaps and within their limits; a success has
\* everything that is said in the text of a chunk and a point for every chunk,
\* unless a deletion took them; and the work directory is left only by a call
\* that did not come to the fusion, or crashed: for every video, configuration
\* and number of calls.
THEOREM CallsAreAccounted == VidSpec => []CallsAccounted
<1>1. CallInv => CallsAccounted
  BY CallsInv
<1> QED
  BY <1>1, CallStarts, CallStep, PTL DEF VidSpec

----------------------------------------------------------------------------
(* The probes of the retrieval service.                                    *)

\* What a probe has seen of a component that has not changed is so, one that
\* keeps it waiting hangs, and whoever answers has asked all that it must.
ProbeInv ==
    /\ condition \in [Parts -> Conditions]
    /\ probe = [kind |-> probe.kind, stage |-> probe.stage, time |-> probe.time,
                seen |-> probe.seen, asked |-> probe.asked, tries |-> probe.tries,
                pause |-> probe.pause]
    /\ probe.kind \in Probes
    /\ probe.seen \in [DOMAIN probe.seen -> BOOLEAN]
    /\ DOMAIN probe.seen \subseteq ChecksOf(probe.kind)
    /\ probe.stage = "answered" => DOMAIN probe.seen = ChecksOf(probe.kind)
    /\ probe.asked \in [Parts -> Nat]
    /\ quiet => /\ \A c \in DOMAIN probe.seen : probe.seen[c] <=> condition[c] = "up"
                /\ \A c \in Parts : probe.asked[c] > 0 => condition[c] = "hangs"

LEMMA ChecksKnown == \A kind : ChecksOf(kind) \subseteq Parts
BY DEF ChecksOf, Parts

LEMMA SettlesWell ==
    ASSUME ProbeInv, NEW c \in Parts, NEW up \in BOOLEAN, Asking(c), Settles(c, up),
           quiet => (up <=> condition[c] = "up"),
           UNCHANGED <<condition, changes, quiet, hung>>
    PROVE  ProbeInv'
<1> DEFINE s == [d \in Known \cup {c} |-> IF d = c THEN up ELSE probe.seen[d]]
<1>1. probe' = [kind |-> probe.kind, stage |-> probe.stage, time |-> probe.time,
                seen |-> s, asked |-> probe.asked, tries |-> probe.tries,
                pause |-> probe.pause]
      BY DEF Settles, ProbeInv
<1>2. /\ DOMAIN s = DOMAIN probe.seen \cup {c}
      /\ \A d \in DOMAIN probe.seen : s[d] = probe.seen[d]
      /\ c \notin DOMAIN probe.seen /\ s[c] = up
      /\ s = [d \in DOMAIN s |-> s[d]]
      BY DEF Asking, Known
<1>3. c \in ChecksOf(probe.kind) /\ probe.stage = "asking"
      BY DEF Asking
<1> HIDE DEF s
<1>4. s \in [DOMAIN s -> BOOLEAN]
      BY <1>2 DEF ProbeInv
<1>5. /\ probe'.kind = probe.kind /\ probe'.stage = probe.stage /\ probe'.seen = s
      /\ probe'.asked = probe.asked
      BY <1>1
<1>6. DOMAIN s \subseteq ChecksOf(probe.kind)
      BY <1>2, <1>3 DEF ProbeInv
<1>7. quiet => \A d \in DOMAIN s : s[d] <=> condition[d] = "up"
      BY <1>2 DEF ProbeInv
<1> QED BY <1>1, <1>3, <1>4, <1>5, <1>6, <1>7 DEF ProbeInv

\* A failed attempt is either followed by a wait, or it settles the check.
LEMMA FailsWell ==
    ASSUME ProbeInv, NEW c \in Parts, NEW retryable \in BOOLEAN, Asking(c), Fails(c, retryable),
           quiet => condition[c] # "up",
           UNCHANGED <<condition, changes, quiet, hung>>
    PROVE  ProbeInv'
<1>1. CASE Settles(c, FALSE)
      BY <1>1, SettlesWell
<1>2. ASSUME NEW w, probe' = [probe EXCEPT !.pause = w, !.asked[c] = 0, !.tries = @ + 1]
      PROVE  ProbeInv'
  <2>1. probe' = [kind |-> probe.kind, stage |-> probe.stage, time |-> probe.time,
                  seen |-> probe.seen, asked |-> [probe.asked EXCEPT ![c] = 0],
                  tries |-> probe.tries + 1, pause |-> w]
        BY <1>2 DEF ProbeInv
  <2>2. /\ probe'.kind = probe.kind /\ probe'.stage = probe.stage
        /\ probe'.seen = probe.seen /\ probe'.asked = [probe.asked EXCEPT ![c] = 0]
        BY <2>1
  <2>3. /\ [probe.asked EXCEPT ![c] = 0] \in [Parts -> Nat]
        /\ \A d \in Parts : [probe.asked EXCEPT ![c] = 0][d] > 0 => probe.asked[d] > 0
        BY DEF ProbeInv
  <2> QED BY <2>1, <2>2, <2>3 DEF ProbeInv
<1> QED BY <1>1, <1>2 DEF Fails

LEMMA ProbeStepKeeps == ProbeInv /\ [HealthNext]_healthVars => ProbeInv'
<1> SUFFICES ASSUME ProbeInv, [HealthNext]_healthVars PROVE ProbeInv'
    OBVIOUS
<1>1. CASE StartProbe
  <2>1. PICK kind \in Probes : probe' = [NoProbe EXCEPT !.kind = kind, !.stage = "asking"]
        BY <1>1 DEF StartProbe
  <2>2. probe' = [kind |-> kind, stage |-> "asking", time |-> 0, seen |-> [c \in {} |-> TRUE],
                  asked |-> [c \in Parts |-> 0], tries |-> 0, pause |-> 0]
        BY <2>1 DEF NoProbe
  <2>3. UNCHANGED condition
        BY <1>1 DEF StartProbe
  <2>4. /\ probe'.kind = kind /\ probe'.stage = "asking"
        /\ probe'.seen = [c \in {} |-> TRUE] /\ probe'.asked = [c \in Parts |-> 0]
        BY <2>2
  <2> QED BY <2>2, <2>3, <2>4 DEF ProbeInv
<1>2. CASE ComponentChanges
  <2>1. condition' \in [Parts -> Conditions] /\ ~quiet' /\ UNCHANGED probe
        BY <1>2 DEF ComponentChanges, ProbeInv
  <2> QED BY <2>1 DEF ProbeInv
<1>3. ASSUME NEW c \in Parts, Answers(c) PROVE ProbeInv'
      BY <1>3, SettlesWell DEF Answers
<1>4. ASSUME NEW c \in Parts, Refuses(c) PROVE ProbeInv'
  <2>1. condition[c] # "up" /\ (condition[c] = "down") \in BOOLEAN
        BY <1>4 DEF Refuses
  <2> QED BY <1>4, <2>1, FailsWell DEF Refuses
<1>5. ASSUME NEW c \in Parts, CallTimesOut(c) PROVE ProbeInv'
  <2>1. probe.asked[c] > 0
        BY <1>5, HealthAssumption DEF CallTimesOut, ClientsConfigured
  <2>2. quiet => condition[c] # "up"
        BY <2>1 DEF ProbeInv
  <2> QED BY <1>5, <2>2, FailsWell DEF CallTimesOut
<1>6. ASSUME NEW s, s # "answered" \/ DOMAIN probe.seen = ChecksOf(probe.kind),
             probe' = [probe EXCEPT !.stage = s], UNCHANGED <<condition, quiet>>
      PROVE  ProbeInv'
  <2>1. probe' = [kind |-> probe.kind, stage |-> s, time |-> probe.time,
                  seen |-> probe.seen, asked |-> probe.asked,
                  tries |-> probe.tries, pause |-> probe.pause]
        BY <1>6 DEF ProbeInv
  <2>2. /\ probe'.kind = probe.kind /\ probe'.stage = s
        /\ probe'.seen = probe.seen /\ probe'.asked = probe.asked
        BY <2>1
  <2> QED BY <1>6, <2>1, <2>2 DEF ProbeInv
<1>7. CASE Reply
      BY <1>6, <1>7 DEF Reply, Known
<1>8. CASE RequestTimesOut
      BY <1>6, <1>8 DEF RequestTimesOut
<1>9. CASE Second
  <2> DEFINE a == [c \in Parts |-> IF Asking(c) THEN probe.asked[c] + 1 ELSE probe.asked[c]]
  <2>1. probe' = [kind |-> probe.kind, stage |-> probe.stage, time |-> probe.time + 1,
                  seen |-> probe.seen, asked |-> a, tries |-> probe.tries,
                  pause |-> IF probe.pause > 0 THEN probe.pause - 1 ELSE 0]
        BY <1>9 DEF Second, ProbeInv
  <2>2. /\ probe'.kind = probe.kind /\ probe'.stage = probe.stage
        /\ probe'.seen = probe.seen /\ probe'.asked = a
        BY <2>1
  <2>3. a \in [Parts -> Nat]
        BY DEF ProbeInv
  <2>4. \A c \in Parts : a[c] > 0 => probe.asked[c] > 0 \/ condition[c] = "hangs"
        BY <1>9 DEF Second
  <2> HIDE DEF a
  <2>5. UNCHANGED <<condition, quiet>> /\ probe.stage # "answered"
        BY <1>9 DEF Second
  <2> QED BY <2>1, <2>2, <2>3, <2>4, <2>5 DEF ProbeInv
<1>10. CASE UNCHANGED healthVars
       BY <1>10 DEF healthVars, ProbeInv
<1> QED BY <1>1, <1>2, <1>3, <1>4, <1>5, <1>7, <1>8, <1>9, <1>10 DEF HealthNext, ProbeStep

LEMMA ProbeStart == HealthInit => ProbeInv
<1> SUFFICES ASSUME HealthInit PROVE ProbeInv
    OBVIOUS
<1>1. probe = [kind |-> "ready", stage |-> "idle", time |-> 0, seen |-> [c \in {} |-> TRUE],
               asked |-> [c \in Parts |-> 0], tries |-> 0, pause |-> 0]
      BY DEF HealthInit, NoProbe
<1>2. condition \in [Parts -> Conditions]
      BY DEF HealthInit, Conditions
<1> QED BY <1>1, <1>2 DEF ProbeInv, Probes

\* api/routes/health.rs: what the probes of the retrieval service answer is true
\* of its components, unless one of them changed while they were asked: whatever
\* the retries of the reranker, the timeouts of the clients and the order of the
\* checks are.
THEOREM ProbesTellTheTruth == HealthSpec => []AnswersAreTrue
<1>1. ProbeInv => AnswersAreTrue
  <2> SUFFICES ASSUME ProbeInv, probe.stage = "answered", quiet PROVE AnswersAreTrue
      BY DEF AnswersAreTrue
  <2> DEFINE seen == probe.seen
             up == {c \in ChecksOf(probe.kind) : Truth[c]}
  <2>1. DOMAIN seen = ChecksOf(probe.kind)
        BY DEF ProbeInv
  <2>2. \A c \in ChecksOf(probe.kind) : seen[c] <=> c \in up
        BY <2>1 DEF ProbeInv, Truth
  <2>3. up \subseteq ChecksOf(probe.kind)
        OBVIOUS
  <2>4. probe.kind \in {"health", "ready"} /\ \A c \in ChecksOf(probe.kind) : seen[c] \in BOOLEAN
        BY <2>1 DEF ProbeInv, Probes
  <2>5. "qdrant" \in DOMAIN seen /\ "opensearch" \in DOMAIN seen /\ "embedding" \in DOMAIN seen
        BY <2>1 DEF ChecksOf, Stores
  <2>6. /\ SeenUp(seen, "qdrant") <=> "qdrant" \in up
        /\ SeenUp(seen, "opensearch") <=> "opensearch" \in up
        BY <2>1, <2>2, <2>5 DEF SeenUp
  <2>7. (\A c \in DOMAIN seen : seen[c]) <=> up = ChecksOf(probe.kind)
        BY <2>1, <2>2, <2>3
  <2> HIDE DEF seen, up
  <2>8. Stores = {"qdrant", "opensearch"}
        BY DEF Stores
  <2> DEFINE True(g) ==
              /\ g.status = "healthy" => up = ChecksOf("health")
              /\ g.status = "unhealthy" => up \cap Stores = {}
              /\ g.status = "degraded" => up # ChecksOf("health") /\ up \cap Stores # {}
              /\ g.status = "ready" <=>
                    probe.kind = "ready" /\ "embedding" \in up /\ up \cap Stores # {}
              /\ g.level = "semantic_only" => up \cap Stores = {"qdrant"}
              /\ g.level = "keyword_only" => up \cap Stores = {"opensearch"}
              /\ g.level \in {"none", "hybrid_full"} =>
                    Stores \subseteq up \/ g.status = "unavailable"
              /\ "hybrid_search" \in g.can <=> probe.kind = "health" /\ Stores \subseteq up
  <2>9. ASSUME probe.kind = "health" PROVE True(Given)
    <3>1. /\ Status(seen) = "healthy" <=> up = ChecksOf("health")
          /\ Status(seen) = "degraded" <=> up # ChecksOf("health") /\ up \cap Stores # {}
          /\ Status(seen) = "unhealthy" <=> up # ChecksOf("health") /\ up \cap Stores = {}
          /\ Status(seen) \in {"healthy", "degraded", "unhealthy"}
          BY <2>6, <2>7, <2>8, <2>9 DEF Status
    <3>2. Stores \subseteq ChecksOf("health")
          BY DEF ChecksOf
    <3>3. /\ DegradedMode(seen) = "hybrid_full" <=> Stores \subseteq up
          /\ DegradedMode(seen) = "semantic_only" <=> up \cap Stores = {"qdrant"}
          /\ DegradedMode(seen) = "keyword_only" <=> up \cap Stores = {"opensearch"}
          /\ DegradedMode(seen) \in {"hybrid_full", "semantic_only", "keyword_only", "minimal"}
          BY <2>6, <2>8 DEF DegradedMode
    <3>4. "hybrid_search" \in Capabilities(seen) <=> Stores \subseteq up
          BY <2>6, <2>8 DEF Capabilities
    <3>5. True([status |-> Status(seen), level |-> DegradationLevel(seen),
                can |-> Capabilities(seen)])
          BY <2>9, <3>1, <3>2, <3>3, <3>4 DEF DegradationLevel
    <3>6. Given = [status |-> Status(seen), level |-> DegradationLevel(seen),
                   can |-> Capabilities(seen)]
          BY <2>9 DEF Given, Report, HealthReport, seen
    <3> HIDE DEF True
    <3> QED BY <3>5, <3>6
  <2>10. ASSUME probe.kind = "ready" PROVE True(Given)
    <3>1. /\ seen["embedding"] <=> "embedding" \in up
          /\ seen["qdrant"] <=> "qdrant" \in up
          /\ seen["opensearch"] <=> "opensearch" \in up
          BY <2>1, <2>2, <2>5
    <3>2. /\ DegradedMode(seen) = "hybrid_full" <=> Stores \subseteq up
          /\ DegradedMode(seen) = "semantic_only" <=> up \cap Stores = {"qdrant"}
          /\ DegradedMode(seen) = "keyword_only" <=> up \cap Stores = {"opensearch"}
          /\ DegradedMode(seen) \in {"hybrid_full", "semantic_only", "keyword_only", "minimal"}
          BY <2>6, <2>8 DEF DegradedMode
    <3>3. True(ReadyReport(seen))
          BY <2>8, <2>10, <3>1, <3>2 DEF ReadyReport
    <3>4. Given = ReadyReport(seen)
          BY <2>10 DEF Given, Report, seen
    <3> HIDE DEF True
    <3> QED BY <3>3, <3>4
  <2>11. True(Given)
         BY <2>4, <2>9, <2>10
  <2> QED BY <2>11 DEF AnswersAreTrue, up
<1> QED BY <1>1, ProbeStart, ProbeStepKeeps, PTL DEF HealthSpec

\* The waits before all attempts fit into a request: by the attempt k they have
\* taken spent[k] at most. With the defaults, waits of 1, 2 and 4 seconds and a
\* quarter, that is so.
WaitsFit(spent) ==
    /\ spent \in [0 .. RerankRetries -> Nat]
    /\ \A k \in 0 .. RerankRetries : spent[k] < RequestTimeout
    /\ \A k \in 0 .. RerankRetries - 1 :
          spent[k] <= spent[k + 1] /\ \A w \in Backoff(k) : spent[k] + w <= spent[k + 1]

\* As long as nobody has kept the probe waiting, its time went into the waits.
WaitInv(spent) ==
    /\ probe.time \in Nat /\ probe.pause \in Int /\ probe.tries \in 0 .. RerankRetries
    /\ ~hung => /\ probe.stage # "timeout"
                /\ probe.time <= spent[probe.tries]
                /\ probe.time + probe.pause <= spent[probe.tries]
                /\ \A c \in Parts : probe.asked[c] = 0

LEMMA RetriesNat == RerankRetries \in Nat /\ RequestTimeout \in Nat
BY HealthAssumption DEF RetriesConfigured, ServerConfigured

LEMMA BackoffInt == ASSUME NEW k \in Nat PROVE Backoff(k) \subseteq Int
<1> DEFINE power == 2^k
           doubled == RetryMinWait * power
           capped == IF doubled < RetryMaxWait THEN doubled ELSE RetryMaxWait
<1>1. power \in Int /\ RetryMinWait \in Nat /\ RetryMaxWait \in Nat
      BY HealthAssumption DEF RetriesConfigured
<1> HIDE DEF power
<1>2. capped \in Int
      BY <1>1
<1>3. Backoff(k) = capped - ((capped + 3) \div 4) .. capped + ((capped + 3) \div 4)
      BY DEF Backoff, power
<1> HIDE DEF capped
<1> QED BY <1>2, <1>3

\* Of the checks that are left, one is under way unless the reranker pauses.
LEMMA SomebodyIsAsked ==
    ASSUME ProbeInv, probe.stage = "asking", Known # ChecksOf(probe.kind), probe.pause \in Int,
           ~(probe.pause > 0)
    PROVE  \E c \in Parts : Asking(c)
<1>1. Known \subseteq ChecksOf(probe.kind) /\ probe.kind \in {"health", "ready"}
      BY DEF ProbeInv, Known, Probes
<1>2. PICK c \in ChecksOf(probe.kind) : c \notin Known
      BY <1>1
<1>3. c \in Parts
      BY ChecksKnown
<1>4. CASE After(probe.kind, c) \subseteq Known
      BY <1>2, <1>3, <1>4 DEF Asking
<1>5. CASE ~(After(probe.kind, c) \subseteq Known)
  <2>1. Stores \cup {"embedding"} \subseteq ChecksOf(probe.kind)
        BY DEF ChecksOf
  <2>2. PICK d \in After(probe.kind, c) : d \notin Known
        BY <1>5
  <2>3. d \in {"qdrant", "opensearch", "embedding"}
        BY <2>2 DEF After, Stores
  <2>4. d \in ChecksOf(probe.kind) /\ d \in Parts
        BY <2>1, <2>3 DEF Stores, Parts
  <2>5. CASE d # "opensearch"
    <3>1. After(probe.kind, d) = {}
          BY <2>3, <2>5 DEF After
    <3> QED BY <2>2, <2>4, <3>1 DEF Asking
  <2>6. CASE d = "opensearch"
    <3>1. "qdrant" \in ChecksOf(probe.kind) /\ "qdrant" \in Parts
          BY <2>1 DEF Stores, Parts
    <3>2. After(probe.kind, d) \subseteq {"qdrant"} /\ After(probe.kind, "qdrant") = {}
          BY <2>6 DEF After
    <3>3. CASE "qdrant" \in Known
          BY <2>2, <2>4, <2>6, <3>2, <3>3 DEF Asking
    <3>4. CASE "qdrant" \notin Known
          BY <3>1, <3>2, <3>4 DEF Asking
    <3> QED BY <3>3, <3>4
  <2> QED BY <2>5, <2>6
<1> QED BY <1>4, <1>5

\* An attempt that fails at once adds one wait at most.
LEMMA FailsInTime ==
    ASSUME NEW spent, WaitsFit(spent), ProbeInv, WaitInv(spent),
           NEW c \in Parts, NEW retryable \in BOOLEAN, Asking(c),
           Fails(c, retryable), UNCHANGED hung
    PROVE  WaitInv(spent)'
<1>0. RerankRetries \in Nat
      BY RetriesNat
<1>1. CASE Settles(c, FALSE)
  <2>1. /\ probe'.time = probe.time /\ probe'.pause = probe.pause /\ probe'.tries = probe.tries
        /\ probe'.stage = probe.stage /\ probe'.asked = probe.asked
        BY <1>1 DEF Settles, ProbeInv
  <2> QED BY <2>1 DEF WaitInv
<1>2. ASSUME NEW w \in Backoff(probe.tries), c = "reranker", probe.tries < RerankRetries,
             probe' = [probe EXCEPT !.pause = w, !.asked[c] = 0, !.tries = @ + 1]
      PROVE  WaitInv(spent)'
  <2>1. /\ probe'.time = probe.time /\ probe'.pause = w /\ probe'.tries = probe.tries + 1
        /\ probe'.stage = probe.stage /\ probe'.asked = [probe.asked EXCEPT ![c] = 0]
        BY <1>2 DEF ProbeInv
  <2>2. /\ w \in Int /\ probe.tries \in 0 .. RerankRetries - 1
        /\ probe.tries + 1 \in 0 .. RerankRetries
        BY <1>0, <1>2, BackoffInt DEF WaitInv
  <2>3. /\ spent[probe.tries] \in Nat /\ spent[probe.tries + 1] \in Nat
        /\ spent[probe.tries] <= spent[probe.tries + 1]
        /\ spent[probe.tries] + w <= spent[probe.tries + 1]
        BY <1>0, <2>2 DEF WaitsFit
  <2>4. probe.time \in Nat
        BY DEF WaitInv
  <2>5. ASSUME ~hung
        PROVE  /\ probe.stage # "timeout"
               /\ probe.time <= spent[probe.tries + 1]
               /\ probe.time + w <= spent[probe.tries + 1]
               /\ \A d \in Parts : [probe.asked EXCEPT ![c] = 0][d] = 0
    <3>1. probe.time <= spent[probe.tries]
          BY <2>5 DEF WaitInv
    <3>2. probe.asked \in [Parts -> Nat] /\ \A d \in Parts : probe.asked[d] = 0
          BY <2>5 DEF WaitInv, ProbeInv
    <3>3. probe.time <= spent[probe.tries + 1] /\ probe.time + w <= spent[probe.tries + 1]
          BY <1>0, <2>2, <2>3, <2>4, <3>1
    <3> QED BY <2>5, <3>2, <3>3 DEF WaitInv
  <2> QED BY <2>1, <2>2, <2>4, <2>5 DEF WaitInv
<1> QED BY <1>1, <1>2 DEF Fails

LEMMA WaitStepKeeps ==
    ASSUME NEW spent, WaitsFit(spent)
    PROVE  ProbeInv /\ WaitInv(spent) /\ [HealthNext]_healthVars => WaitInv(spent)'
<1> SUFFICES ASSUME ProbeInv, WaitInv(spent), [HealthNext]_healthVars PROVE WaitInv(spent)'
    OBVIOUS
<1>0. RerankRetries \in Nat /\ RequestTimeout \in Nat /\ spent[0] \in Nat
      BY RetriesNat DEF WaitsFit
<1>1. CASE StartProbe
  <2>1. PICK kind \in Probes : probe' = [NoProbe EXCEPT !.kind = kind, !.stage = "asking"]
        BY <1>1 DEF StartProbe
  <2>2. /\ probe'.time = 0 /\ probe'.pause = 0 /\ probe'.tries = 0 /\ probe'.stage = "asking"
        /\ probe'.asked = [c \in Parts |-> 0]
        BY <2>1 DEF NoProbe
  <2> QED BY <1>0, <2>2 DEF WaitInv
<1>2. CASE ComponentChanges
      BY <1>2 DEF ComponentChanges, WaitInv
<1>3. ASSUME NEW c \in Parts, Answers(c) PROVE WaitInv(spent)'
  <2>1. /\ probe'.time = probe.time /\ probe'.pause = probe.pause /\ probe'.tries = probe.tries
        /\ probe'.stage = probe.stage /\ probe'.asked = probe.asked /\ UNCHANGED hung
        BY <1>3 DEF Answers, Settles, ProbeInv
  <2> QED BY <2>1 DEF WaitInv
<1>4. ASSUME NEW c \in Parts, Refuses(c) PROVE WaitInv(spent)'
      BY <1>4, FailsInTime DEF Refuses
<1>5. ASSUME NEW c \in Parts, CallTimesOut(c) PROVE WaitInv(spent)'
      BY <1>5, FailsInTime DEF CallTimesOut
<1>6. CASE Reply
  <2>1. /\ probe'.time = probe.time /\ probe'.pause = probe.pause /\ probe'.tries = probe.tries
        /\ probe'.stage = "answered" /\ probe'.asked = probe.asked /\ UNCHANGED hung
        BY <1>6 DEF Reply, ProbeInv
  <2> QED BY <2>1 DEF WaitInv
<1>7. CASE RequestTimesOut
  <2>1. /\ probe'.time = probe.time /\ probe'.pause = probe.pause /\ probe'.tries = probe.tries
        /\ probe.time = RequestTimeout /\ UNCHANGED hung
        BY <1>7 DEF RequestTimesOut, ProbeInv
  <2>2. ASSUME ~hung PROVE FALSE
    <3>1. probe.time <= spent[probe.tries] /\ probe.tries \in 0 .. RerankRetries
          BY <2>2 DEF WaitInv
    <3>2. spent[probe.tries] < RequestTimeout /\ spent[probe.tries] \in Nat
          BY <3>1 DEF WaitsFit
    <3> QED BY <1>0, <2>1, <3>1, <3>2
  <2> QED BY <2>1, <2>2 DEF WaitInv
<1>8. CASE Second
  <2>1. /\ probe'.time = probe.time + 1 /\ probe'.tries = probe.tries
        /\ probe'.pause = (IF probe.pause > 0 THEN probe.pause - 1 ELSE 0)
        /\ probe'.stage = probe.stage
        /\ probe'.asked = [c \in Parts |-> IF Asking(c) THEN probe.asked[c] + 1 ELSE probe.asked[c]]
        BY <1>8 DEF Second, ProbeInv
  <2>2. probe.time + 1 \in Nat /\ probe'.pause \in Int
        BY <2>1 DEF WaitInv
  <2>3. ASSUME ~hung'
        PROVE  /\ probe.stage # "timeout"
               /\ probe.time + 1 <= spent[probe.tries]
               /\ probe.time + 1 + probe'.pause <= spent[probe.tries]
               /\ \A c \in Parts : probe'.asked[c] = 0
    <3>1. ~hung /\ \A c \in Parts : ~Asking(c)
          BY <1>8, <2>3 DEF Second
    <3>2. probe.pause > 0 /\ probe.stage = "asking"
          BY <1>8, <3>1, SomebodyIsAsked DEF Second, WaitInv
    <3>3. /\ probe.time + probe.pause <= spent[probe.tries]
          /\ probe.time \in Nat /\ probe.pause \in Int /\ probe.tries \in 0 .. RerankRetries
          BY <1>0, <3>1 DEF WaitInv
    <3>4. spent[probe.tries] \in Nat
          BY <3>3 DEF WaitsFit
    <3>5. \A c \in Parts : probe'.asked[c] = 0
          BY <2>1, <3>1 DEF WaitInv
    <3> QED BY <2>1, <3>2, <3>3, <3>4, <3>5
  <2> QED BY <2>1, <2>2, <2>3 DEF WaitInv
<1>9. CASE UNCHANGED healthVars
      BY <1>9 DEF healthVars, WaitInv
<1> QED BY <1>1, <1>2, <1>3, <1>4, <1>5, <1>6, <1>7, <1>8, <1>9 DEF HealthNext, ProbeStep

\* reranking/client.rs, api/server.rs: when the waits before all attempts at the
\* reranker fit into the timeout of a request, a probe runs into that timeout
\* only if a component kept it waiting.
THEOREM WaitsAloneDoNotTimeOut ==
    ASSUME NEW spent, WaitsFit(spent) PROVE HealthSpec => []OnlyTheSlowTimeOut
<1>1. HealthInit => WaitInv(spent)
  <2> SUFFICES ASSUME HealthInit PROVE WaitInv(spent)
      OBVIOUS
  <2>1. /\ probe.time = 0 /\ probe.pause = 0 /\ probe.tries = 0 /\ probe.stage = "idle"
        /\ probe.asked = [c \in Parts |-> 0]
        BY DEF HealthInit, NoProbe
  <2>2. RerankRetries \in Nat /\ spent[0] \in Nat
        BY RetriesNat DEF WaitsFit
  <2> QED BY <2>1, <2>2 DEF WaitInv
<1>2. WaitInv(spent) => OnlyTheSlowTimeOut
      BY DEF WaitInv, OnlyTheSlowTimeOut
<1>3. ProbeInv /\ WaitInv(spent) /\ [HealthNext]_healthVars => WaitInv(spent)'
      BY WaitStepKeeps
<1> QED BY <1>1, <1>2, <1>3, ProbeStart, ProbeStepKeeps, PTL DEF HealthSpec

\* What a probe answers is true, and it answers in time unless a component is slow.
THEOREM ProbesAreTruthful ==
    ASSUME NEW spent, WaitsFit(spent) PROVE HealthSpec => []ProbesTruthful
<1>1. HealthSpec => []OnlyTheSlowTimeOut
      BY WaitsAloneDoNotTimeOut
<1>2. AnswersAreTrue /\ OnlyTheSlowTimeOut => ProbesTruthful
      BY DEF ProbesTruthful
<1> QED BY <1>1, <1>2, ProbesTellTheTruth, PTL
=============================================================================
