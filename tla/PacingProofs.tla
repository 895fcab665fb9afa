---------------------------- MODULE PacingProofs ----------------------------
(* Theorems about Pacing: the cap holds, and is reached, for every number of *)
(* workers and of sources, every rate, bucket and read size.                *)
EXTENDS Pacing, FiniteSetTheorems, WellFoundedInduction, TLAPS

\* The bytes the bucket has let through, or will have, by time t.
Supply(t) == Burst + Rate * t + Rate - 1

-----------------------------------------------------------------------------
\* Arithmetic of the truncated sleep.
LEMMA TruncatedSleep ==
  ASSUME NEW r \in Nat \ {0}, NEW d \in Nat
  PROVE  d \div r \in Nat /\ r * (d \div r) <= d /\ d <= r * (d \div r) + r - 1
  BY Z3

LEMMA SupplyGrows ==
  ASSUME PacingConstants, NEW s \in Nat, NEW t \in Nat, s <= t
  PROVE  Supply(s) \in Nat /\ Supply(t) \in Nat /\ Supply(s) <= Supply(t)
<1>1. Rate * s \in Nat /\ Rate * t \in Nat /\ Rate * s <= Rate * t
  <2>1. PICK k \in Nat : t = s + k
    BY DEF PacingConstants
  <2>2. Rate * t = Rate * s + Rate * k /\ Rate * k \in Nat
    BY <2>1 DEF PacingConstants
  <2> QED
    BY <2>2 DEF PacingConstants
<1> QED
  BY <1>1 DEF PacingConstants, Supply

LEMMA MinOfTwo ==
  ASSUME NEW a \in Int, NEW b \in Int
  PROVE  Min({a, b}) \in {a, b} /\ Min({a, b}) <= a /\ Min({a, b}) <= b
<1>1. \E x \in {a, b} : \A y \in {a, b} : x <= y
  OBVIOUS
<1> QED
  BY <1>1 DEF Min

\* A pause is never negative, whatever the window.
LEMMA PausesAreNat ==
  ASSUME PacingConstants, NEW k, NEW d \in Pauses(k, Base, BackoffMax)
  PROVE  d \in Nat
  BY DEF PacingConstants, Pauses, Clamped, Samples

-----------------------------------------------------------------------------
\* What a worker holds: no more than it has to fetch, under tickets given out,
\* and, once reserved, tickets the bucket covers when its timer fires.
Waiting(w) == pc[w] \in {"nowait", "asleep"}
HeldInv ==
    \A w \in Workers :
        /\ held[w].n <= left[w]
        /\ Waiting(w) => held[w].n <= held[w].upto /\ held[w].upto <= reserved
        /\ Waiting(w) => held[w].upto <= Supply(until[w])
        /\ pc[w] = "nowait" => until[w] <= now
        /\ pc[w] = "backoff" => tries[w] < MaxRetries

\* The bucket: what was reserved is what the tokens are missing.
BucketInv == reserved + tokens <= Burst + Rate * last

\* Every ticket written is covered now.
WrittenInv == \A k \in written : k <= Supply(now)

PacingInv == TypeOK /\ HeldInv /\ BucketInv /\ WrittenInv

LEMMA PacingInit == ASSUME PacingConstants, Init PROVE PacingInv
<1>1. TypeOK
  <2>1. /\ now \in Nat /\ last \in 0 .. now /\ tokens \in Int /\ tokens <= Burst
        /\ reserved \in Nat /\ written \subseteq 1 .. reserved
        /\ src \in 1 .. Sources
    BY DEF PacingConstants, Init
  <2>2. Empty \in [n : 0 .. Burst, upto : Nat] /\ 0 \in 0 .. MaxRetries /\ Chunk \in 0 .. Chunk
    BY DEF PacingConstants, Empty
  <2>3. canceled \in BOOLEAN /\ torn \in BOOLEAN
    BY DEF Init
  <2> QED
    BY <2>1, <2>2, <2>3 DEF Init, TypeOK, PCs
<1>2. HeldInv
  BY DEF PacingConstants, Init, HeldInv, Waiting, Empty
<1>3. BucketInv
  <2>1. Rate * 0 = 0
    BY DEF PacingConstants
  <2> QED
    BY <2>1 DEF PacingConstants, Init, BucketInv
<1>4. WrittenInv
  BY DEF Init, WrittenInv
<1> QED
  BY <1>1, <1>2, <1>3, <1>4 DEF PacingInv

-----------------------------------------------------------------------------
\* The steps, one lemma for each that has an arithmetic of its own.
LEMMA TickStep == ASSUME PacingConstants, PacingInv, Tick PROVE PacingInv'
<1>1. Supply(now) \in Nat /\ Supply(now') \in Nat /\ Supply(now) <= Supply(now')
  BY SupplyGrows DEF Tick, PacingInv, TypeOK
<1>2. TypeOK'
  BY DEF PacingInv, TypeOK, Tick, bucket, context, workers
<1>3. HeldInv'
  BY DEF PacingInv, HeldInv, TypeOK, Waiting, Tick, bucket, context, workers, Supply
<1>4. BucketInv'
  BY DEF PacingInv, BucketInv, Tick, bucket
<1>5. WrittenInv'
  BY <1>1 DEF PacingInv, WrittenInv, TypeOK, Tick
<1> QED
  BY <1>2, <1>3, <1>4, <1>5 DEF PacingInv

\* The steps of a worker that leave the clock, the bucket and the bytes written
\* alone, and start no timer of the limiter.
Moves(w) ==
    \/ StartAttempt(w) \/ Finish(w) \/ BackoffOver(w)
    \/ Read(w) \/ BackOff(w) \/ GiveUp(w) \/ Abort(w)

LEMMA MovesStep ==
  ASSUME PacingConstants, PacingInv, NEW w \in Workers, Moves(w)
  PROVE  PacingInv'
<1> USE DEF PacingInv
<1>0. UNCHANGED <<now, bucket, written>>
  BY DEF Moves, StartAttempt, Finish, BackoffOver, Read, BackOff, GiveUp, Abort
<1>1. TypeOK' /\ HeldInv'
  <2>1. CASE StartAttempt(w)
    BY <2>1 DEF StartAttempt, Goto, TypeOK, PCs, HeldInv, Waiting, bucket, context, Supply
  <2>2. CASE Finish(w)
    BY <2>2 DEF Finish, Leave, Goto, Awake, Empty, TypeOK, PCs, HeldInv, Waiting, bucket, context, PacingConstants
  <2>3. CASE BackoffOver(w)
    BY <2>3 DEF BackoffOver, Goto, Awake, TypeOK, PCs, HeldInv, Waiting, bucket, context
  <2>4. CASE Read(w)
    <3>1. PICK n \in 1 .. Min({Burst, left[w]}) : held' = [held EXCEPT ![w].n = n]
      BY <2>4 DEF Read
    <3>2. n \in Nat /\ n <= Burst /\ n <= left[w]
      <4>1. Burst \in Int /\ left[w] \in Int
        BY DEF PacingConstants, TypeOK
      <4>2. Min({Burst, left[w]}) \in {Burst, left[w]} /\ Min({Burst, left[w]}) <= Burst
            /\ Min({Burst, left[w]}) <= left[w]
        BY <4>1, MinOfTwo, Zenon
      <4> QED
        BY <4>1, <4>2
    <3> QED
      BY <2>4, <3>1, <3>2 DEF Read, Goto, TypeOK, PCs, HeldInv, Waiting, bucket, context
  <2>5. CASE BackOff(w)
    <3>1. PICK d \in Pauses(tries[w], Base, BackoffMax) : until' = [until EXCEPT ![w] = now + d]
      BY <2>5 DEF BackOff
    <3>2. d \in Nat
      BY PausesAreNat
    <3> QED
      BY <2>5, <3>1, <3>2 DEF BackOff, Goto, TypeOK, PCs, HeldInv, Waiting, bucket, context
  <2>6. CASE GiveUp(w)
    BY <2>6 DEF GiveUp, Leave, Goto, Awake, Empty, TypeOK, PCs, HeldInv, Waiting, bucket, PacingConstants
  <2>7. CASE Abort(w)
    BY <2>7 DEF Abort, Leave, Goto, Awake, Empty, TypeOK, PCs, HeldInv, Waiting, bucket, PacingConstants
  <2> QED
    BY <2>1, <2>2, <2>3, <2>4, <2>5, <2>6, <2>7 DEF Moves
<1>2. BucketInv' /\ WrittenInv'
  BY <1>0 DEF BucketInv, WrittenInv, bucket, Supply
<1> QED
  BY <1>1, <1>2

\* The reservation: the tokens it leaves behind are its deficit, and the sleep
\* it computes is long enough for its last ticket.
LEMMA ReserveStep ==
  ASSUME PacingConstants, PacingInv, NEW w \in Workers, Reserve(w)
  PROVE  PacingInv'
<1> USE DEF PacingInv
<1> DEFINE n == held[w].n
           t == Rate * (now - last)
<1>0. /\ n \in Nat /\ reserved \in Nat /\ tokens \in Int /\ now \in Nat /\ last \in Nat
      /\ Rate \in Nat /\ Burst \in Nat /\ t \in Nat /\ until[w] \in Nat
      /\ Rate * now = Rate * last + t /\ (now - last) * Rate = t
  <2>1. now - last \in Nat /\ now = last + (now - last)
    BY DEF TypeOK
  <2> QED
    BY <2>1 DEF TypeOK, PacingConstants
<1>1. Refilled \in Int /\ Refilled <= Burst /\ Refilled <= tokens + t
  <2>1. tokens + t \in Int /\ Burst \in Int
    BY <1>0
  <2>2. Min({tokens + t, Burst}) \in {tokens + t, Burst}
        /\ Min({tokens + t, Burst}) <= tokens + t /\ Min({tokens + t, Burst}) <= Burst
    <3> HIDE DEF t
    <3> QED
      BY <2>1, MinOfTwo, Zenon
  <2>3. Refilled = Min({tokens + t, Burst})
    <3>1. (now - last) * Rate = t
      BY <1>0
    <3> HIDE DEF t
    <3> QED
      BY <3>1, Zenon DEF Refilled
  <2> HIDE DEF t
  <2> QED
    BY <2>1, <2>2, <2>3
<1>2. reserved + Refilled <= Burst + Rate * now
  BY <1>0, <1>1 DEF BucketInv
<1>3. Owed(w) \in Nat /\ n - Refilled <= Rate * Owed(w) + Rate - 1
  <2>1. CASE n - Refilled > 0
    <3>1. n - Refilled \in Nat /\ Rate \in Nat \ {0}
      BY <2>1, <1>0, <1>1 DEF PacingConstants
    <3>2. Owed(w) = (n - Refilled) \div Rate
      BY <2>1 DEF Owed
    <3> HIDE DEF n
    <3> QED
      BY <3>1, <3>2, TruncatedSleep
  <2>2. CASE ~(n - Refilled > 0)
    BY <2>2, <1>0, <1>1 DEF Owed, PacingConstants
  <2> QED
    BY <2>1, <2>2
<1>4. reserved + n <= Supply(now + Owed(w))
  <2>1. Rate * (now + Owed(w)) = Rate * now + Rate * Owed(w)
        /\ Rate * now \in Nat /\ Rate * Owed(w) \in Nat
    BY <1>0, <1>3
  <2> QED
    BY <2>1, <1>0, <1>1, <1>2, <1>3 DEF Supply
<1>5. /\ tokens' = Refilled - n /\ last' = now /\ reserved' = reserved + n
      /\ held' = [held EXCEPT ![w].upto = reserved + n]
      /\ until' = [until EXCEPT ![w] = now + Owed(w)]
      /\ pc' = [pc EXCEPT ![w] = IF Owed(w) = 0 THEN "nowait" ELSE "asleep"]
      /\ UNCHANGED <<now, written, canceled, torn, src, left, tries>>
  BY DEF Reserve, Goto, context
<1>6. TypeOK'
  <2>1. Refilled - n \in Int /\ Refilled - n <= Burst /\ reserved + n \in Nat /\ now + Owed(w) \in Nat
        /\ now \in 0 .. now
    BY <1>0, <1>1, <1>3
  <2>2. written \subseteq 1 .. reserved + n
    BY <1>0 DEF TypeOK
  <2>3. [held EXCEPT ![w].upto = reserved + n] \in [Workers -> [n : 0 .. Burst, upto : Nat]]
    BY <2>1 DEF TypeOK
  <2>4. [pc EXCEPT ![w] = IF Owed(w) = 0 THEN "nowait" ELSE "asleep"] \in [Workers -> PCs]
    BY DEF TypeOK, PCs
  <2>5. [until EXCEPT ![w] = now + Owed(w)] \in [Workers -> Nat]
    BY <2>1 DEF TypeOK
  <2> HIDE DEF n
  <2> QED
    BY <2>1, <2>2, <2>3, <2>4, <2>5, <1>0, <1>5 DEF TypeOK
<1>7. HeldInv'
  <2> SUFFICES ASSUME NEW v \in Workers
        PROVE  /\ held'[v].n <= left'[v]
               /\ Waiting(v)' => held'[v].n <= held'[v].upto /\ held'[v].upto <= reserved'
               /\ Waiting(v)' => held'[v].upto <= Supply(until'[v])
               /\ pc'[v] = "nowait" => until'[v] <= now'
               /\ pc'[v] = "backoff" => tries'[v] < MaxRetries
    BY DEF HeldInv, Supply, Waiting
  <2>1. CASE v = w
    <3>1. held'[w].n = n /\ held'[w].upto = reserved + n /\ until'[w] = now + Owed(w)
          /\ n <= left[w]
      BY <1>5 DEF TypeOK, HeldInv
    <3>2. pc'[w] = IF Owed(w) = 0 THEN "nowait" ELSE "asleep"
      BY <1>5 DEF TypeOK
    <3>3. pc'[w] = "nowait" => now + Owed(w) <= now
      BY <3>2, <1>0, <1>3
    <3> HIDE DEF n
    <3> QED
      BY <2>1, <3>1, <3>2, <3>3, <1>0, <1>4, <1>5
  <2>2. CASE v # w
    BY <2>2, <1>0, <1>5 DEF TypeOK, HeldInv, Waiting
  <2> QED
    BY <2>1, <2>2
<1>8. BucketInv'
  BY <1>0, <1>1, <1>2, <1>5 DEF BucketInv
<1>9. WrittenInv'
  BY <1>5 DEF WrittenInv, Supply
<1> QED
  BY <1>6, <1>7, <1>8, <1>9

\* The write: the timer has fired, so its tickets are covered by now.
LEMMA AdmitStep ==
  ASSUME PacingConstants, PacingInv, NEW w \in Workers, Admit(w)
  PROVE  PacingInv'
<1> USE DEF PacingInv
<1>1. held[w].upto <= Supply(now)
  <2>1. Waiting(w) /\ until[w] \in Nat /\ now \in Nat /\ until[w] <= now
    BY DEF Admit, Waiting, HeldInv, TypeOK
  <2>2. held[w].upto <= Supply(until[w]) /\ held[w].upto \in Nat
    BY <2>1 DEF HeldInv, TypeOK
  <2> QED
    BY <2>1, <2>2, SupplyGrows
<1>2. Tickets(w) \subseteq 1 .. reserved /\ \A k \in Tickets(w) : k <= Supply(now)
  <2>1. held[w].n \in Nat /\ held[w].upto \in Nat /\ held[w].n <= held[w].upto /\ held[w].upto <= reserved
    BY DEF Admit, Waiting, HeldInv, TypeOK
  <2>2. Supply(now) \in Nat /\ reserved \in Nat
    BY SupplyGrows DEF TypeOK
  <2> QED
    BY <1>1, <2>1, <2>2 DEF Tickets
<1>3. TypeOK'
  <2>1. left[w] - held[w].n \in 0 .. Chunk
    BY DEF TypeOK, HeldInv
  <2>2. written' \subseteq 1 .. reserved'
    BY <1>2 DEF Admit, TypeOK, bucket
  <2>3. Empty \in [n : 0 .. Burst, upto : Nat]
    BY DEF Empty, PacingConstants
  <2> QED
    BY <2>1, <2>2, <2>3 DEF Admit, Goto, Awake, TypeOK, PCs, bucket, context
<1>4. HeldInv'
  BY DEF Admit, Goto, Awake, Empty, TypeOK, HeldInv, Waiting, bucket, Supply, PacingConstants
<1>5. BucketInv'
  BY DEF Admit, BucketInv, bucket
<1>6. WrittenInv'
  BY <1>2 DEF Admit, WrittenInv, Supply
<1> QED
  BY <1>3, <1>4, <1>5, <1>6

LEMMA NextSourceStep ==
  ASSUME PacingConstants, PacingInv, NextSource
  PROVE  PacingInv'
<1> USE DEF PacingInv
<1>1. TypeOK'
  <2>1. src' \in 1 .. Sources
    BY DEF NextSource, Over, TypeOK, PacingConstants
  <2>2. left' \in [Workers -> 0 .. Chunk]
    BY DEF NextSource, TypeOK, PacingConstants
  <2> QED
    BY <2>1, <2>2 DEF NextSource, TypeOK, PCs, bucket
<1>2. HeldInv'
  BY DEF NextSource, AllGone, TypeOK, HeldInv, Waiting, bucket, PacingConstants
<1>3. BucketInv' /\ WrittenInv'
  BY DEF NextSource, BucketInv, WrittenInv, bucket, Supply
<1> QED
  BY <1>1, <1>2, <1>3

LEMMA PacingStep ==
  ASSUME PacingConstants, PacingInv, [Next]_vars
  PROVE  PacingInv'
<1>1. CASE Tick
  BY <1>1, TickStep
<1>2. CASE Cancel
  BY <1>2 DEF Cancel, PacingInv, TypeOK, HeldInv, BucketInv, WrittenInv, Waiting, Supply, bucket, workers
<1>3. CASE NextSource
  BY <1>3, NextSourceStep
<1>4. ASSUME NEW w \in Workers, Compute(w) \/ Network(w) \/ Abort(w)
      PROVE  PacingInv'
  BY <1>4, MovesStep, ReserveStep, AdmitStep DEF Compute, Network, Moves
<1>5. CASE UNCHANGED vars
  BY <1>5 DEF vars, context, PacingInv, TypeOK, HeldInv, BucketInv, WrittenInv, Waiting, Supply, bucket, workers
<1> QED
  BY <1>1, <1>2, <1>3, <1>4, <1>5 DEF Next, Terminated

-----------------------------------------------------------------------------

LEMMA CapFromInv == ASSUME PacingConstants, PacingInv PROVE Cap
<1>1. Supply(now) \in Nat
  BY SupplyGrows DEF PacingInv, TypeOK
<1>2. written \in SUBSET (1 .. Supply(now))
  BY <1>1 DEF PacingInv, TypeOK, WrittenInv
<1>3. IsFiniteSet(1 .. Supply(now)) /\ Cardinality(1 .. Supply(now)) = Supply(now)
  BY <1>1, FS_Interval
<1>4. Cardinality(written) <= Cardinality(1 .. Supply(now))
  BY <1>2, <1>3, FS_Subset
<1> QED
  BY <1>3, <1>4 DEF Cap, Supply

\* The types of Pacing, through the invariant that the cap rests on.
THEOREM PacingTypes == Spec => []TypeOK
<1>1. Init => PacingInv
  BY PacingInit, PacingConstants
<1>2. PacingInv /\ [Next]_vars => PacingInv'
  BY PacingStep, PacingConstants
<1>3. PacingInv => TypeOK
  BY DEF PacingInv
<1> QED
  BY <1>1, <1>2, <1>3, PTL DEF Spec

\* The aggregate cap of tokenBucket.wait: whatever the number of workers, the
\* sizes of their reads, the lateness of timers, failed sources and cancelled
\* sleeps, the bytes written never exceed the initial bucket plus the rate.
THEOREM PacingCap == Spec => []Cap
<1>1. Init => PacingInv
  BY PacingInit, PacingConstants
<1>2. PacingInv /\ [Next]_vars => PacingInv'
  BY PacingStep, PacingConstants
<1>3. PacingInv => Cap
  BY CapFromInv, PacingConstants
<1> QED
  BY <1>1, <1>2, <1>3, PTL DEF Spec

-----------------------------------------------------------------------------
(* The cap is reached: what the bucket covers by time t, if nothing more is *)
(* reserved.  Only a refill that finds the bucket full takes from it.       *)
Covered(t) == reserved + tokens + Rate * (t - last)

\* Between what the bucket covers and the tickets there is less than a tick, in
\* both directions: a timer fires no sooner, and none that is still to fire fires
\* later, than its last ticket is covered.
CoveredInv ==
    /\ Covered(now) >= 0
    /\ \A k \in written : k <= Covered(now) + Rate - 1
    /\ \A w \in Workers : Waiting(w) =>
          \/ held[w].upto <= Covered(now)
          \/ held[w].upto <= Covered(until[w]) + Rate - 1
    /\ \A w \in Workers : pc[w] = "asleep" =>
          until[w] <= now \/ Covered(until[w]) <= held[w].upto

PromptInv == PacingInv /\ CoveredInv

\* Time passes: the bucket covers a rate more.
LEMMA CoveredGrows ==
  ASSUME PacingConstants, PacingInv, NEW s \in Int, NEW t \in Int
  PROVE  /\ Covered(s) \in Int /\ Covered(t) \in Int
         /\ Covered(t) = Covered(s) + Rate * (t - s) /\ Rate * (t - s) \in Int
         /\ s <= t => Covered(s) <= Covered(t)
<1>1. /\ Rate \in Nat /\ reserved \in Int /\ tokens \in Int /\ last \in Int
  BY DEF PacingInv, TypeOK, PacingConstants
<1>2. /\ Rate * (t - last) = Rate * (s - last) + Rate * (t - s)
      /\ Rate * (t - last) \in Int /\ Rate * (s - last) \in Int /\ Rate * (t - s) \in Int
  BY <1>1
<1>3. s <= t => Rate * (t - s) >= 0
  <2>1. s <= t => t - s \in Nat
    OBVIOUS
  <2> QED
    BY <2>1, <1>1
<1> QED
  BY <1>1, <1>2, <1>3 DEF Covered

LEMMA CoveredInit == ASSUME PacingConstants, Init PROVE CoveredInv
<1>1. Rate * (0 - 0) = 0
  BY DEF PacingConstants
<1> QED
  BY <1>1 DEF PacingConstants, Init, CoveredInv, Covered, Waiting

\* A step that leaves the clock, the bucket and the bytes alone, and lets no
\* worker begin to wait.
LEMMA CoveredKept ==
  ASSUME CoveredInv, UNCHANGED <<now, bucket, written>>,
         \A w \in Workers : Waiting(w)' =>
            pc'[w] = pc[w] /\ held'[w] = held[w] /\ until'[w] = until[w]
  PROVE  CoveredInv'
<1>1. \A t : Covered(t)' = Covered(t')
  BY DEF bucket, Covered
<1> QED
  BY DEF CoveredInv, Waiting, Covered, bucket

LEMMA CoveredTick == ASSUME PacingConstants, PromptInv, Tick PROVE CoveredInv'
<1> USE DEF PromptInv
<1>1. now \in Int /\ now' = now + 1 /\ now' \in Int
  BY DEF Tick, PacingInv, TypeOK
<1>2. Covered(now) \in Int /\ Covered(now') \in Int /\ Covered(now) <= Covered(now') /\ Rate \in Nat
  <2>1. Rate \in Nat /\ PacingInv
    BY DEF PacingConstants
  <2>2. \A s, t \in Int : Covered(s) \in Int /\ Covered(t) \in Int /\ (s <= t => Covered(s) <= Covered(t))
    BY <2>1, CoveredGrows
  <2> QED
    BY <1>1, <2>1, <2>2
<1>3. UNCHANGED <<reserved, tokens, last, written, pc, held, until>>
  BY DEF Tick, bucket, workers
<1>4. \A w \in Workers : until[w] \in Int /\ held[w].upto \in Int
  BY DEF PacingInv, TypeOK
<1>5. Covered(now)' = Covered(now') /\ \A w \in Workers : Covered(until[w])' = Covered(until[w])
  BY <1>3 DEF Covered
<1>6. \A k \in written : k \in Int
  BY DEF PacingInv, TypeOK
<1>7. Covered(now)' >= 0 /\ \A k \in written : k <= Covered(now)' + Rate - 1
  BY <1>2, <1>5, <1>6 DEF CoveredInv
<1>8. ASSUME NEW w \in Workers, Waiting(w)
      PROVE  held[w].upto <= Covered(now)' \/ held[w].upto <= Covered(until[w]) + Rate - 1
  BY <1>2, <1>4, <1>5, <1>8 DEF CoveredInv
<1>9. ASSUME NEW w \in Workers, pc[w] = "asleep"
      PROVE  until[w] <= now' \/ Covered(until[w]) <= held[w].upto
  BY <1>1, <1>4, <1>9 DEF CoveredInv
<1> QED
  BY <1>3, <1>5, <1>7, <1>8, <1>9 DEF CoveredInv, Waiting, Covered

\* The critical section: the refill either keeps what the bucket covers or finds it
\* full, and then every ticket given out is covered.
LEMMA CoveredReserve ==
  ASSUME PacingConstants, PromptInv, NEW w \in Workers, Reserve(w)
  PROVE  CoveredInv'
<1> USE DEF PromptInv
<1> DEFINE n == held[w].n
<1>0. /\ n \in Nat /\ reserved \in Nat /\ tokens \in Int /\ now \in Nat /\ last \in Nat
      /\ Rate \in Nat \ {0} /\ Burst \in Nat
      /\ (now - last) * Rate = Rate * (now - last) /\ Rate * (now - last) \in Int
  BY DEF PacingInv, TypeOK, PacingConstants
<1>1. /\ tokens' = Refilled - n /\ last' = now /\ reserved' = reserved + n
      /\ held' = [held EXCEPT ![w].upto = reserved + n]
      /\ until' = [until EXCEPT ![w] = now + Owed(w)]
      /\ pc' = [pc EXCEPT ![w] = IF Owed(w) = 0 THEN "nowait" ELSE "asleep"]
      /\ UNCHANGED <<now, written>>
  BY DEF Reserve, Goto
<1>2. /\ Refilled \in Int /\ reserved + Refilled <= Covered(now)
      /\ reserved + Refilled = Covered(now) \/ reserved + Refilled >= reserved
  <2> DEFINE t == Rate * (now - last)
  <2>1. Refilled = Min({tokens + t, Burst})
    BY <1>0, Zenon DEF Refilled
  <2>2. tokens + t \in Int
    BY <1>0
  <2> HIDE DEF t
  <2>3. Refilled \in {tokens + t, Burst} /\ Refilled <= tokens + t
    <3>1. Burst \in Int
      BY <1>0
    <3>2. Min({tokens + t, Burst}) \in {tokens + t, Burst} /\ Min({tokens + t, Burst}) <= tokens + t
      BY <2>2, <3>1, MinOfTwo, Zenon
    <3> QED
      BY <2>1, <3>2
  <2>4. Covered(now) = reserved + tokens + t
    BY DEF Covered, t
  <2>5. /\ tokens + t \in Int /\ Burst \in Nat /\ reserved \in Nat
        /\ Refilled = tokens + t \/ Refilled = Burst
    BY <2>2, <2>3, <1>0
  <2>6. Covered(now) = reserved + (tokens + t)
    <3>1. t \in Int
      BY <1>0 DEF t
    <3> QED
      BY <2>4, <3>1, <1>0
  <2> QED
    BY <2>3, <2>5, <2>6
<1>3. /\ Owed(w) \in Nat
      /\ n - Refilled <= Rate * Owed(w) + Rate - 1
      /\ Owed(w) # 0 => Rate * Owed(w) <= n - Refilled
  <2>1. CASE n - Refilled > 0
    <3>1. n - Refilled \in Nat /\ Owed(w) = (n - Refilled) \div Rate
      BY <2>1, <1>0, <1>2 DEF Owed
    <3> HIDE DEF n
    <3> QED
      BY <3>1, <1>0, TruncatedSleep
  <2>2. CASE ~(n - Refilled > 0)
    BY <2>2, <1>0, <1>2 DEF Owed
  <2> QED
    BY <2>1, <2>2
<1>4. ASSUME NEW t \in Int
      PROVE  /\ Covered(t) \in Int /\ Covered(now) \in Int /\ Rate * (t - now) \in Int
             /\ Covered(t) = Covered(now) + Rate * (t - now)
             /\ reserved' + tokens' + Rate * (t - last') = reserved + Refilled + Rate * (t - now)
  <2>0. PacingInv /\ now \in Int
    BY <1>0
  <2>1. /\ Covered(t) \in Int /\ Covered(now) \in Int /\ Rate * (t - now) \in Int
        /\ Covered(t) = Covered(now) + Rate * (t - now)
    BY <2>0, CoveredGrows
  <2> HIDE DEF n
  <2> QED
    BY <2>1, <1>0, <1>1, <1>2
<1>5. Rate * (now - now) = 0 /\ Covered(now)' = reserved + Refilled
  <2>1. Rate * (now - now) = 0
    BY <1>0
  <2>2. Covered(now)' = reserved' + tokens' + Rate * (now - last')
    BY <1>1 DEF Covered
  <2> QED
    BY <2>1, <2>2, <1>0, <1>2, <1>4
<1>6. \A v \in Workers : until[v] \in Int /\ held[v].upto \in Int
  BY DEF PacingInv, TypeOK
<1>7. Covered(now)' >= 0 /\ \A k \in written : k <= Covered(now)' + Rate - 1
  <2>1. \A k \in written : k \in Int /\ k <= reserved
    BY DEF PacingInv, TypeOK
  <2>2. Covered(now) \in Int
    BY <1>0, <1>4
  <2>3. Covered(now) >= 0 /\ \A k \in written : k <= Covered(now) + Rate - 1
    BY DEF CoveredInv
  <2>4. reserved + Refilled >= 0
    BY <2>2, <2>3, <1>0, <1>2
  <2>5. ASSUME NEW k \in written
        PROVE  k <= (reserved + Refilled) + Rate - 1
    BY <2>1, <2>2, <2>3, <1>0, <1>2
  <2> QED
    BY <2>4, <2>5, <1>5
<1>8. ASSUME NEW v \in Workers
      PROVE  /\ Waiting(v)' => \/ held'[v].upto <= Covered(now)'
                               \/ held'[v].upto <= Covered(until[v])' + Rate - 1
             /\ pc'[v] = "asleep" => until'[v] <= now' \/ Covered(until[v])' <= held'[v].upto
  <2>1. CASE v = w
    <3>1. /\ held'[w].upto = reserved + n /\ until'[w] = now + Owed(w)
          /\ pc'[w] = IF Owed(w) = 0 THEN "nowait" ELSE "asleep"
      BY <1>1 DEF PacingInv, TypeOK
    <3>2. Covered(until[w])' = reserved' + tokens' + Rate * (until'[w] - last')
      BY DEF Covered
    <3>3. Covered(until[w])' = reserved + Refilled + Rate * ((now + Owed(w)) - now)
      BY <3>1, <3>2, <1>0, <1>3, <1>4
    <3>4. (now + Owed(w)) - now = Owed(w) /\ Rate * Owed(w) \in Nat
      BY <1>0, <1>3
    <3> HIDE DEF n
    <3> QED
      BY <2>1, <3>1, <3>3, <3>4, <1>0, <1>2, <1>3
  <2>2. CASE v # w
    <3>1. held'[v] = held[v] /\ until'[v] = until[v] /\ pc'[v] = pc[v]
      BY <2>2, <1>1 DEF PacingInv, TypeOK
    <3>2. Covered(until[v])' = reserved + Refilled + Rate * (until[v] - now)
      BY <3>1, <1>4, <1>6 DEF Covered
    <3>3. Covered(until[v]) = Covered(now) + Rate * (until[v] - now)
          /\ Rate * (until[v] - now) \in Int /\ Covered(now) \in Int
      BY <1>4, <1>6
    <3>4. Waiting(v) => held[v].upto <= reserved
      BY DEF PacingInv, HeldInv
    <3>5. Waiting(v)' = Waiting(v)
      BY <3>1 DEF Waiting
    <3>6. CASE reserved + Refilled = Covered(now)
      BY <3>1, <3>2, <3>3, <3>5, <3>6, <1>1, <1>5 DEF CoveredInv
    <3>7. CASE reserved + Refilled >= reserved
      BY <3>1, <3>2, <3>3, <3>4, <3>5, <3>7, <1>0, <1>1, <1>2, <1>5, <1>6 DEF CoveredInv
    <3> QED
      BY <3>6, <3>7, <1>2
  <2> QED
    BY <2>1, <2>2
<1>9. Rate' = Rate /\ written' = written
  BY <1>1
<1> QED
  BY <1>7, <1>8, <1>9 DEF CoveredInv, Waiting, Covered

\* The write: its tickets are covered by now.
LEMMA CoveredAdmit ==
  ASSUME PacingConstants, PromptInv, NEW w \in Workers, Admit(w)
  PROVE  CoveredInv'
<1> USE DEF PromptInv
<1>1. Waiting(w) /\ until[w] \in Int /\ now \in Int /\ until[w] <= now
  BY DEF Admit, Waiting, HeldInv, PacingInv, TypeOK
<1>2. /\ Covered(until[w]) <= Covered(now) /\ Covered(now) \in Int /\ Covered(until[w]) \in Int
      /\ Rate \in Nat \ {0} /\ held[w].upto \in Nat /\ held[w].n \in Nat
  <2>1. PacingInv
    OBVIOUS
  <2>2. Covered(until[w]) <= Covered(now) /\ Covered(now) \in Int /\ Covered(until[w]) \in Int
    BY <1>1, <2>1, CoveredGrows
  <2> QED
    BY <2>1, <2>2 DEF PacingConstants, PacingInv, TypeOK
<1>3. held[w].upto <= Covered(now) + Rate - 1
  BY <1>1, <1>2 DEF CoveredInv
<1>4. \A k \in Tickets(w) : k <= Covered(now) + Rate - 1
  BY <1>2, <1>3 DEF Tickets
<1>5. /\ written' = written \cup Tickets(w) /\ UNCHANGED <<now, bucket>>
      /\ \A v \in Workers : Waiting(v)' =>
            pc'[v] = pc[v] /\ held'[v] = held[v] /\ until'[v] = until[v]
  BY DEF Admit, Goto, Awake, PacingInv, TypeOK, Waiting
<1> QED
  BY <1>4, <1>5 DEF CoveredInv, Waiting, Covered, bucket

LEMMA PromptStep ==
  ASSUME PacingConstants, PromptInv, [Next]_vars
  PROVE  PromptInv'
<1>0. PacingInv'
  BY PacingStep DEF PromptInv
<1>1. CASE Tick
  BY <1>0, <1>1, CoveredTick DEF PromptInv
<1>2. CASE Cancel \/ UNCHANGED vars
  <2>1. UNCHANGED <<now, bucket, written, pc, held, until>>
    BY <1>2 DEF Cancel, vars, workers
  <2> QED
    BY <2>1, <1>0, CoveredKept DEF PromptInv
<1>3. CASE NextSource
  <2>1. UNCHANGED <<now, bucket, written>> /\ \A v \in Workers : ~Waiting(v)'
    BY <1>3 DEF NextSource, Waiting
  <2> QED
    BY <2>1, <1>0, CoveredKept DEF PromptInv
<1>4. ASSUME NEW w \in Workers, Moves(w)
      PROVE  PromptInv'
  <2>1. UNCHANGED <<now, bucket, written>>
    BY <1>4 DEF Moves, StartAttempt, Finish, BackoffOver, Read, BackOff, GiveUp, Abort
  <2>2. ASSUME NEW v \in Workers, Waiting(v)'
        PROVE  pc'[v] = pc[v] /\ held'[v] = held[v] /\ until'[v] = until[v]
    <3>1. pc \in [Workers -> PCs]
      BY DEF PromptInv, PacingInv, TypeOK
    <3>2. ~Waiting(w)'
      BY <1>4, <3>1 DEF Moves, StartAttempt, Finish, BackoffOver, Read, BackOff, GiveUp, Abort,
        Leave, Goto, Waiting
    <3>3. v # w
      BY <2>2, <3>2
    <3> QED
      BY <1>4, <3>3 DEF Moves, StartAttempt, Finish, BackoffOver, Read, BackOff, GiveUp, Abort,
        Leave, Goto, Awake, PromptInv, PacingInv, TypeOK
  <2> QED
    BY <2>1, <2>2, <1>0, CoveredKept DEF PromptInv
<1>5. ASSUME NEW w \in Workers, Compute(w) \/ Network(w) \/ Abort(w)
      PROVE  PromptInv'
  BY <1>0, <1>4, <1>5, CoveredReserve, CoveredAdmit DEF Compute, Network, Moves, PromptInv
<1> QED
  BY <1>1, <1>2, <1>3, <1>5 DEF Next, Terminated

LEMMA PromptFromInv == ASSUME PacingConstants, PromptInv PROVE Prompt
<1> SUFFICES ASSUME NEW w \in Workers, pc[w] = "asleep"
             PROVE  Rate * (until[w] - now) <= reserved - Cardinality(written) + Rate - 1
  BY DEF Prompt
<1> USE DEF PromptInv
<1> DEFINE N == Covered(now) + Rate - 1
<1>1. /\ until[w] \in Int /\ now \in Int /\ reserved \in Nat /\ Rate \in Nat \ {0}
      /\ held[w].upto \in Int /\ held[w].upto <= reserved
  BY DEF PacingInv, TypeOK, HeldInv, Waiting, PacingConstants
<1>2. /\ Covered(until[w]) = Covered(now) + Rate * (until[w] - now)
      /\ Covered(now) \in Int /\ Rate * (until[w] - now) \in Int
  BY <1>1, CoveredGrows
<1>3. N \in Nat /\ Covered(now) >= 0
  BY <1>1, <1>2 DEF CoveredInv
<1>4. written \in SUBSET (1 .. N) /\ written \in SUBSET (1 .. reserved)
  <2>1. \A k \in written : k <= Covered(now) + Rate - 1
    BY DEF CoveredInv
  <2> QED
    BY <2>1, <1>3 DEF PacingInv, TypeOK
<1>5. ASSUME NEW m \in Nat, written \in SUBSET (1 .. m)
      PROVE  Cardinality(written) \in Nat /\ Cardinality(written) <= m
  <2>1. IsFiniteSet(1 .. m) /\ Cardinality(1 .. m) = m
    BY FS_Interval
  <2>2. IsFiniteSet(written) /\ Cardinality(written) <= Cardinality(1 .. m)
    BY <1>5, <2>1, FS_Subset
  <2> QED
    BY <2>1, <2>2, FS_CardinalityType
<1>6. Cardinality(written) \in Nat /\ Cardinality(written) <= N /\ Cardinality(written) <= reserved
  <2> HIDE DEF N
  <2> QED
    BY <1>1, <1>3, <1>4, <1>5
<1>7. CASE until[w] <= now
  <2>1. Rate * (until[w] - now) <= 0
    <3>1. now - until[w] \in Nat /\ Rate * (until[w] - now) = -(Rate * (now - until[w]))
      BY <1>1, <1>7
    <3>2. Rate * (now - until[w]) \in Nat
      BY <3>1, <1>1
    <3> QED
      BY <3>1, <3>2
  <2> QED
    BY <2>1, <1>1, <1>2, <1>6
<1>8. CASE Covered(until[w]) <= held[w].upto
  BY <1>8, <1>1, <1>2, <1>6
<1> QED
  BY <1>7, <1>8 DEF CoveredInv

\* "Converges to rate" (ratelimit.go:57) from below: no worker sleeps longer than
\* the bytes reserved and not yet written need at the full rate, whatever the
\* refills, truncations, failed sources and cancelled sleeps before.
THEOREM PacingPrompt == Spec => []Prompt
<1>1. Init => PromptInv
  BY PacingInit, CoveredInit, PacingConstants DEF PromptInv
<1>2. PromptInv /\ [Next]_vars => PromptInv'
  BY PromptStep, PacingConstants
<1>3. PromptInv => Prompt
  BY PromptFromInv, PacingConstants
<1> QED
  BY <1>1, <1>2, <1>3, PTL DEF Spec

-----------------------------------------------------------------------------
(* The backoff.  The provers know nothing of ^: the two facts about the    *)
(* powers of two that the proof needs are its hypothesis.                  *)
PowersOfTwo == 2 ^ 0 = 1 /\ \A n \in Nat : 2 ^ n \in Nat \ {0} /\ 2 ^ (n + 1) = 2 * 2 ^ n

LEMMA LeastNat ==
  ASSUME NEW T, T \subseteq Nat, T # {}
  PROVE  \E x \in T : \A y \in T : x <= y
<1> DEFINE Less == {p \in Nat \X Nat : p[1] < p[2]}
<1>1. IsWellFoundedOn(Less, Nat)
  <2>1. OpToRel(<, Nat) = Less
    BY DEF OpToRel
  <2> HIDE DEF Less
  <2> QED
    BY <2>1, NatLessThanWellFounded
<1>2. PICK x \in T : \A y \in T : ~(<<y, x>> \in Less)
  <2> HIDE DEF Less
  <2> QED
    BY <1>1, WFMin
<1>3. ASSUME NEW y \in T PROVE x <= y
  <2>1. ~(<<y, x>> \in Less) /\ x \in Nat /\ y \in Nat
    BY <1>2
  <2>2. ~(y < x)
    BY <2>1
  <2> QED
    BY <2>1, <2>2
<1> QED
  BY <1>3

LEMMA MinIs ==
  ASSUME NEW a \in Int, NEW b \in Int
  PROVE  Min({a, b}) = IF a <= b THEN a ELSE b
  BY MinOfTwo

\* Arithmetic of a product that wraps once.
LEMMA ModOnce ==
  ASSUME NEW m \in Nat \ {0}, NEW x \in Nat, x < 2 * m
  PROVE  x % m = IF x < m THEN x ELSE x - m
  BY Z3

\* Doubling stops at the maximum, also when the product does not fit an int64.
LEMMA DoubledIs ==
  ASSUME BackoffConstants, NEW w \in 1 .. MaxInt64, NEW max \in 0 .. MaxInt64
  PROVE  Doubled(w, max) = IF 2 * w <= max THEN 2 * w ELSE max
<1> DEFINE m == 2 * (MaxInt64 + 1)
           x == 2 * w + MaxInt64 + 1
<1>1. m \in Nat \ {0} /\ x \in Nat /\ x < 2 * m /\ MaxInt64 \in Nat
  BY DEF BackoffConstants
<1>2. WrapDuration(2 * w) = (x % m) - (MaxInt64 + 1)
  BY DEF WrapDuration
<1>3. x % m = IF x < m THEN x ELSE x - m
  <2> HIDE DEF m, x
  <2> QED
    BY <1>1, ModOnce
<1>4. CASE 2 * w <= MaxInt64
  <2>1. WrapDuration(2 * w) = 2 * w
    BY <1>1, <1>2, <1>3, <1>4
  <2> QED
    BY <1>1, <1>4, <2>1 DEF Doubled
<1>5. CASE ~(2 * w <= MaxInt64)
  <2>1. WrapDuration(2 * w) = 2 * w - m
    BY <1>1, <1>2, <1>3, <1>5
  <2>2. WrapDuration(2 * w) <= 0
    BY <1>1, <2>1
  <2> QED
    BY <1>1, <1>5, <2>1, <2>2 DEF Doubled
<1> QED
  BY <1>4, <1>5

\* The window in closed form.
LEMMA WindowIs ==
  ASSUME BackoffConstants, PowersOfTwo, NEW k \in Nat,
         NEW base \in 1 .. MaxInt64, NEW max \in 0 .. MaxInt64
  PROVE  Window(k, base, max) = IF k = 0 THEN base ELSE Ceiling(k, base, max)
<1> DEFINE F(f) == [i \in Nat |-> IF i = 0 THEN base ELSE Doubled(f[i - 1], max)]
           g == [i \in Nat |-> IF i = 0 THEN base ELSE Ceiling(i, base, max)]
           w == CHOOSE f : f = F(f)
<1>1. Window(k, base, max) = w[k]
  BY DEF Window
<1>2. MaxInt64 \in Nat /\ base \in Nat \ {0} /\ max \in Nat
  BY DEF BackoffConstants
<1>3. \A i \in Nat : /\ base * 2 ^ i \in Nat \ {0}
                    /\ base * 2 ^ (i + 1) = 2 * (base * 2 ^ i)
                    /\ Ceiling(i, base, max) = IF base * 2 ^ i <= max THEN base * 2 ^ i ELSE max
  <2> TAKE i \in Nat
  <2> DEFINE p == 2 ^ i
             q == 2 ^ (i + 1)
  <2>1. p \in Nat \ {0} /\ q = 2 * p
    BY DEF PowersOfTwo
  <2> HIDE DEF p, q
  <2>2. base * p \in Nat \ {0} /\ base * q = 2 * (base * p)
    BY <1>2, <2>1
  <2>3. Min({base * p, max}) = IF base * p <= max THEN base * p ELSE max
    BY <1>2, <2>2, MinIs
  <2> QED
    BY <2>2, <2>3 DEF p, q, Ceiling
<1>4. \A i \in Nat : Doubled(g[i], max) = g[i + 1]
  <2> TAKE i \in Nat
  <2> DEFINE p == base * 2 ^ i
  <2>1. /\ p \in Nat \ {0} /\ i + 1 \in Nat /\ i + 1 # 0
        /\ g[i] = IF i = 0 THEN base ELSE IF p <= max THEN p ELSE max
        /\ g[i + 1] = IF 2 * p <= max THEN 2 * p ELSE max
        /\ i = 0 => p = base
    <3>1. i = 0 => p = base
      BY <1>2 DEF PowersOfTwo
    <3>2. i + 1 \in Nat /\ i + 1 # 0 /\ g[i] = IF i = 0 THEN base ELSE Ceiling(i, base, max)
      OBVIOUS
    <3>3. g[i + 1] = Ceiling(i + 1, base, max)
      BY <3>2
    <3>4. p \in Nat \ {0} /\ Ceiling(i, base, max) = IF p <= max THEN p ELSE max
      BY <1>3
    <3>5. Ceiling(i + 1, base, max) = IF 2 * p <= max THEN 2 * p ELSE max
      <4> DEFINE q == base * 2 ^ (i + 1)
      <4>1. Ceiling(i + 1, base, max) = IF q <= max THEN q ELSE max
        BY <1>3, <3>2
      <4>2. q = 2 * p
        BY <1>3
      <4> QED
        BY <4>1, <4>2
    <3> QED
      BY <3>1, <3>2, <3>3, <3>4, <3>5
  <2> HIDE DEF p, g
  <2>2. CASE g[i] \in 1 .. MaxInt64
    <3>1. Doubled(g[i], max) = IF 2 * g[i] <= max THEN 2 * g[i] ELSE max
      BY <2>2, DoubledIs
    <3> QED
      BY <1>2, <2>1, <3>1
  <2>3. CASE g[i] \notin 1 .. MaxInt64
    <3>1. g[i] = 0 /\ max = 0
      BY <1>2, <2>1, <2>3
    <3>2. Doubled(0, max) = max
      BY <3>1 DEF Doubled
    <3> QED
      BY <1>2, <2>1, <3>1, <3>2
  <2> QED
    BY <2>2, <2>3
<1>5. g = F(g)
  <2>1. ASSUME NEW i \in Nat PROVE g[i] = F(g)[i]
    <3>1. CASE i = 0
      BY <3>1
    <3>2. CASE i # 0
      <4>1. i - 1 \in Nat /\ (i - 1) + 1 = i
        BY <3>2
      <4>2. Doubled(g[i - 1], max) = g[i]
        <5> HIDE DEF g
        <5>1. Doubled(g[i - 1], max) = g[(i - 1) + 1]
          BY <1>4, <4>1
        <5> QED
          BY <4>1, <5>1
      <4> HIDE DEF g
      <4> QED
        BY <3>2, <4>2
    <3> QED
      BY <3>1, <3>2
  <2>2. g = [i \in Nat |-> g[i]] /\ F(g) = [i \in Nat |-> F(g)[i]]
    OBVIOUS
  <2> HIDE DEF g, F
  <2> QED
    BY <2>1, <2>2
<1>6. w = F(w)
  <2> HIDE DEF g, F
  <2> QED
    BY <1>5
<1>7. \A i \in Nat : w[i] = g[i]
  <2> DEFINE T == {i \in Nat : w[i] # g[i]}
  <2>1. SUFFICES ASSUME T # {} PROVE FALSE
    OBVIOUS
  <2>2. PICK i \in T : \A j \in T : i <= j
    <3>1. T \subseteq Nat
      OBVIOUS
    <3> HIDE DEF T
    <3> QED
      BY <2>1, <3>1, LeastNat
  <2>3. i \in Nat /\ w[i] # g[i]
    BY <2>2
  <2> HIDE DEF g, w
  <2>4. /\ w[i] = IF i = 0 THEN base ELSE Doubled(w[i - 1], max)
        /\ g[i] = IF i = 0 THEN base ELSE Doubled(g[i - 1], max)
    BY <1>5, <1>6, <2>3
  <2>5. CASE i = 0
    BY <2>3, <2>4, <2>5
  <2>6. CASE i # 0
    <3>1. i - 1 \in Nat /\ ~(i <= i - 1)
      BY <2>3, <2>6
    <3>2. w[i - 1] = g[i - 1]
      BY <2>2, <3>1
    <3> QED
      BY <2>3, <2>4, <2>6, <3>2
  <2> QED
    BY <2>5, <2>6
<1> QED
  BY <1>1, <1>7

\* The jitter is drawn from the whole window, and from nothing else.
LEMMA PausesAre ==
  ASSUME BackoffConstants, PowersOfTwo, NEW k \in Nat,
         NEW base \in 1 .. MaxInt64, NEW max \in 0 .. MaxInt64
  PROVE  /\ Ceiling(k, base, max) \in Nat
         /\ 0 .. Ceiling(k, base, max) - 1 \subseteq Pauses(k, base, max)
         /\ Pauses(k, base, max) \subseteq 0 .. Ceiling(k, base, max)
<1> DEFINE full == Ceiling(k, base, max)
           W == Window(k, base, max)
<1>1. MaxInt64 \in Nat /\ base \in Nat \ {0} /\ max \in Nat
  BY DEF BackoffConstants
<1>2. /\ full \in Nat /\ full <= max
      /\ k = 0 => full = IF base <= max THEN base ELSE max
  <2> DEFINE p == 2 ^ k
  <2>1. p \in Nat /\ (k = 0 => p = 1)
    BY DEF PowersOfTwo
  <2> HIDE DEF p
  <2>2. base * p \in Nat /\ (k = 0 => base * p = base)
    BY <1>1, <2>1
  <2>3. Min({base * p, max}) = IF base * p <= max THEN base * p ELSE max
    BY <1>1, <2>2, MinIs
  <2> QED
    BY <1>1, <2>2, <2>3 DEF p, Ceiling
<1>3. W = IF k = 0 THEN base ELSE full
  BY WindowIs
<1>4. Pauses(k, base, max) = {Clamped(d, max) : d \in Samples(W)}
  BY <1>1 DEF Pauses
<1> HIDE DEF full, W
<1>5. W \in Nat /\ full <= W
  BY <1>1, <1>2, <1>3
<1>6. ASSUME NEW d \in 0 .. full - 1 PROVE d \in Pauses(k, base, max)
  <2>1. d \in Samples(W) /\ Clamped(d, max) = d
    BY <1>1, <1>2, <1>5 DEF Samples, Clamped
  <2> QED
    BY <1>4, <2>1
<1>7. ASSUME NEW d \in Samples(W) PROVE Clamped(d, max) \in 0 .. full
  <2>1. CASE W > 0
    <3>1. d \in 0 .. W - 1
      BY <2>1 DEF Samples
    <3>2. Clamped(d, max) = IF d > max THEN max ELSE d
      BY <1>5, <3>1 DEF Clamped
    <3> QED
      BY <1>1, <1>2, <1>3, <1>5, <3>1, <3>2
  <2>2. CASE W = 0
    <3>1. d = 0
      BY <2>2 DEF Samples
    <3> QED
      BY <1>1, <1>2, <3>1 DEF Clamped
  <2> QED
    BY <1>5, <2>1, <2>2
<1> QED
  BY <1>2, <1>4, <1>6, <1>7 DEF full

LEMMA JitterIsFull == ASSUME BackoffConstants, PowersOfTwo PROVE FullJitter
<1> SUFFICES ASSUME NEW k \in 0 .. MaxInt64, NEW base \in 1 .. MaxInt64, NEW max \in 1 .. MaxInt64
             PROVE  /\ 0 .. Ceiling(k, base, max) - 1 \subseteq Pauses(k, base, max)
                    /\ Pauses(k, base, max) \subseteq 0 .. Ceiling(k, base, max)
  BY DEF FullJitter
<1>1. k \in Nat /\ max \in 0 .. MaxInt64
  BY DEF BackoffConstants
<1> QED
  BY <1>1, PausesAre

\* No pause exceeds its window, with a base of zero too.
LEMMA PauseWithin ==
  ASSUME BackoffConstants, PacingConstants, PowersOfTwo, NEW k \in Nat,
         NEW d \in Pauses(k, Base, BackoffMax)
  PROVE  d \in Nat /\ Ceiling(k, Base, BackoffMax) \in Nat /\ d <= Ceiling(k, Base, BackoffMax)
<1>1. Base \in 0 .. MaxInt64 /\ BackoffMax \in 0 .. MaxInt64 /\ MaxInt64 \in Nat
  BY DEF PacingConstants, BackoffConstants
<1>2. CASE Base \in 1 .. MaxInt64
  <2>1. /\ Ceiling(k, Base, BackoffMax) \in Nat
        /\ Pauses(k, Base, BackoffMax) \subseteq 0 .. Ceiling(k, Base, BackoffMax)
    BY <1>1, <1>2, PausesAre
  <2> QED
    BY <2>1
<1>3. CASE Base = 0
  <2> DEFINE p == 2 ^ k
  <2>1. p \in Nat
    BY DEF PowersOfTwo
  <2> HIDE DEF p
  <2>2. Base * p = 0
    BY <1>3, <2>1
  <2>3. Min({Base * p, BackoffMax}) = 0
    BY <1>1, <2>2, MinIs
  <2>4. Ceiling(k, Base, BackoffMax) = 0
    BY <2>3 DEF Ceiling, p
  <2>5. d = 0
    BY <1>3 DEF Pauses
  <2> QED
    BY <2>4, <2>5
<1> QED
  BY <1>1, <1>2, <1>3

LEMMA CeilingIsNat ==
  ASSUME BackoffConstants, PacingConstants, PowersOfTwo, NEW k \in Nat
  PROVE  Ceiling(k, Base, BackoffMax) \in Nat
<1> DEFINE p == 2 ^ k
<1>1. p \in Nat /\ Base \in Nat /\ BackoffMax \in Nat
  BY DEF PowersOfTwo, PacingConstants, BackoffConstants
<1> HIDE DEF p
<1>2. Base * p \in Nat
  BY <1>1
<1>3. Min({Base * p, BackoffMax}) \in Nat
  BY <1>1, <1>2, MinIs
<1> QED
  BY <1>3 DEF p, Ceiling

\* Each worker that pauses is within its window.
PauseInv == \A w \in Workers : pc[w] = "backoff" => until[w] - now <= Ceiling(tries[w], Base, BackoffMax)

LEMMA PauseStep ==
  ASSUME BackoffConstants, PacingConstants, PowersOfTwo, PacingInv, PauseInv, [Next]_vars
  PROVE  PauseInv'
<1> SUFFICES ASSUME NEW w \in Workers, pc'[w] = "backoff"
             PROVE  until'[w] - now' <= Ceiling(tries'[w], Base, BackoffMax)
  BY DEF PauseInv
<1>0. /\ pc \in [Workers -> PCs] /\ now \in Nat
      /\ tries \in [Workers -> 0 .. MaxRetries] /\ until \in [Workers -> Nat]
      /\ tries[w] \in Nat
  <2>1. MaxRetries \in Nat
    BY DEF PacingConstants
  <2>2. /\ pc \in [Workers -> PCs] /\ now \in Nat
        /\ tries \in [Workers -> 0 .. MaxRetries] /\ until \in [Workers -> Nat]
    BY DEF PacingInv, TypeOK
  <2> QED
    BY <2>1, <2>2
<1>1. CASE Tick
  <2>1. now' = now + 1 /\ pc[w] = "backoff" /\ until' = until /\ tries' = tries
    BY <1>1 DEF Tick, workers
  <2>2. until[w] - now <= Ceiling(tries[w], Base, BackoffMax)
    BY <2>1 DEF PauseInv
  <2> DEFINE c == Ceiling(tries[w], Base, BackoffMax)
  <2>3. c \in Nat
    BY <1>0, CeilingIsNat
  <2> HIDE DEF c
  <2>4. until[w] - (now + 1) <= c
    BY <1>0, <2>2, <2>3 DEF c
  <2> QED
    BY <2>1, <2>4 DEF c
<1>2. ASSUME NEW u \in Workers, BackOff(u) PROVE until'[w] - now' <= Ceiling(tries'[w], Base, BackoffMax)
  <2>1. PICK d \in Pauses(tries[u], Base, BackoffMax) : until' = [until EXCEPT ![u] = now + d]
    BY <1>2 DEF BackOff
  <2>2. now' = now /\ tries' = tries /\ (u # w => pc[w] = "backoff")
    BY <1>0, <1>2 DEF BackOff, Goto
  <2>3. CASE u = w
    <3>1. d \in Nat /\ d <= Ceiling(tries[w], Base, BackoffMax)
      BY <1>0, <2>1, <2>3, PauseWithin
    <3>2. until'[w] - now' = d
      BY <1>0, <2>1, <2>2, <2>3, <3>1
    <3> QED
      BY <2>2, <3>1, <3>2
  <2>4. CASE u # w
    BY <1>0, <2>1, <2>2, <2>4 DEF PauseInv
  <2> QED
    BY <2>3, <2>4
<1>3. CASE pc[w] = "backoff" /\ until'[w] = until[w] /\ tries'[w] = tries[w] /\ now' = now
  BY <1>3 DEF PauseInv
<1>4. ASSUME NEW u \in Workers, Compute(u) \/ Read(u) \/ GiveUp(u) \/ Abort(u)
      PROVE  pc[w] = "backoff" /\ until'[w] = until[w] /\ tries'[w] = tries[w] /\ now' = now
  <2>1. now' = now /\ \E x : x # "backoff" /\ pc' = [pc EXCEPT ![u] = x]
    BY <1>4 DEF Compute, StartAttempt, Finish, BackoffOver, Reserve, Admit, Read, GiveUp, Abort, Goto, Leave
  <2>2. u # w /\ pc[w] = "backoff"
    BY <1>0, <2>1
  <2>3. \E x : until' = [until EXCEPT ![u] = x] \/ until' = until
    BY <1>4 DEF Compute, StartAttempt, Finish, BackoffOver, Reserve, Admit, Read, GiveUp, Abort, Awake, Leave
  <2>4. \E x : tries' = [tries EXCEPT ![u] = x] \/ tries' = tries
    BY <1>4 DEF Compute, StartAttempt, Finish, BackoffOver, Reserve, Admit, Read, GiveUp, Abort, Leave
  <2> QED
    BY <1>0, <2>1, <2>2, <2>3, <2>4
<1>5. CASE Cancel \/ Terminated \/ UNCHANGED vars
  <2>1. UNCHANGED <<now, pc, until, tries>>
    BY <1>5 DEF Cancel, Terminated, vars, workers
  <2> QED
    BY <1>3, <2>1
<1>6. CASE NextSource
  BY <1>6 DEF NextSource
<1> QED
  BY <1>1, <1>2, <1>3, <1>4, <1>5, <1>6 DEF Next, Network

\* "Bounded by max ... guarding against overflow" (retry.go:66): for every attempt
\* and every base and maximum an int64 holds, the pause is drawn from the whole of
\* the window min(base * 2^k, max), also where base * 2^k is no int64, and no worker
\* that backs off is further than that from its next attempt.
THEOREM PacingPauses ==
  ASSUME PowersOfTwo
  PROVE  Spec => []PauseBounded
<1>1. Init => PacingInv /\ PauseInv
  BY PacingInit, PacingConstants DEF Init, PauseInv
<1>2. PacingInv /\ PauseInv /\ [Next]_vars => PacingInv' /\ PauseInv'
  BY PacingStep, PauseStep, PacingConstants, BackoffConstants
<1>3. FullJitter
  BY JitterIsFull, BackoffConstants
<1>4. PauseInv => PauseBounded
  BY <1>3 DEF PauseInv, PauseBounded
<1> QED
  BY <1>1, <1>2, <1>4, PTL DEF Spec

=============================================================================
