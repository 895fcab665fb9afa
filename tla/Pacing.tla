------------------------------- MODULE Pacing -------------------------------
(***************************************************************************)
(* The two things that make a download wait, on a clock: the rate limiter  *)
(* that all its workers share (src/download/ratelimit.go) and the backoff  *)
(* between two attempts of one worker (src/download/retry.go).             *)
(*                                                                         *)
(* A worker here is the part of fetchChunk, under retry, that spends time: *)
(* it reads a buffer, reserves tokens for it under the limiter's mutex,    *)
(* sleeps outside the mutex, and writes the buffer.  The bucket outlives   *)
(* the workers: one is made per download, for all of its sources.          *)
(*                                                                         *)
(* Time is an integer; a tick is the unit of a time.Duration.  A timer     *)
(* fires at its time or any later one.  The bytes a download reserves are  *)
(* numbered in the order of the reservations: byte k has ticket k.         *)
(***************************************************************************)
EXTENDS Backoff, FiniteSets, FiniteSetsExt

CONSTANTS
    Workers,       \* the workers of one source
    Rate,          \* bytes per tick
    Burst,         \* bytes: the bucket, and the copy buffer
    Chunk,         \* bytes each worker has to fetch
    MaxRetries,    \* retries after a first attempt
    Base,          \* the first backoff window
    BackoffMax,    \* the largest pause
    Sources,       \* the primary and its mirrors
    Horizon        \* bound: the clock runs further only while someone sleeps

ASSUME PacingConstants ==
    /\ Rate \in Nat \ {0} /\ Burst \in Nat \ {0} /\ Chunk \in Nat \ {0}
    /\ MaxRetries \in Nat /\ Base \in 0 .. MaxInt64 /\ BackoffMax \in 0 .. MaxInt64
    /\ Sources \in Nat \ {0} /\ Horizon \in Nat

VARIABLES
    now,                \* the clock
    tokens, last,       \* the bucket: its tokens, the time of its last refill
    reserved, written,  \* tickets given out so far; tickets of the bytes written
    canceled, torn,     \* the caller's context; the context of the workers
    src,                \* the source being tried
    pc, left, tries,    \* the workers: where each one is, bytes to fetch, attempts failed
    held,               \*   its buffer: n bytes, the last of which has ticket upto
    until               \*   when its timer fires

bucket == <<tokens, last, reserved>>
context == <<canceled, torn>>
workers == <<pc, left, tries, held, until>>
vars == <<now, bucket, written, context, src, workers>>

Empty == [n |-> 0, upto |-> 0]
Stopped == canceled \/ torn
Asleep(w) == pc[w] \in {"asleep", "backoff"}

\* The bucket starts full.
Init ==
    /\ now = 0 /\ tokens = Burst /\ last = 0
    /\ reserved = 0 /\ written = {}
    /\ canceled = FALSE /\ torn = FALSE /\ src = 1
    /\ pc = [w \in Workers |-> "attempt"]
    /\ left = [w \in Workers |-> Chunk]
    /\ tries = [w \in Workers |-> 0]
    /\ held = [w \in Workers |-> Empty]
    /\ until = [w \in Workers |-> 0]

Goto(w, where) == pc' = [pc EXCEPT ![w] = where]
Awake(w) == until' = [until EXCEPT ![w] = 0]

\* A worker returns: its buffer and its timer are gone.
Leave(w) ==
    /\ Goto(w, "gone") /\ Awake(w)
    /\ held' = [held EXCEPT ![w] = Empty]
    /\ tries' = [tries EXCEPT ![w] = 0]

-----------------------------------------------------------------------------
\* The environment.

Tick ==
    /\ now < Horizon \/ \E w \in Workers : Asleep(w) /\ now < until[w]
    /\ now' = now + 1
    /\ UNCHANGED <<bucket, written, context, src, workers>>

Cancel ==
    /\ ~canceled
    /\ canceled' = TRUE
    /\ UNCHANGED <<now, bucket, written, torn, src, workers>>

-----------------------------------------------------------------------------
\* A worker: attempts, reads and failures.

StartAttempt(w) ==
    /\ pc[w] = "attempt" /\ ~Stopped
    /\ Goto(w, "read")
    /\ UNCHANGED <<now, bucket, written, context, src, left, tries, held, until>>

Read(w) ==
    /\ pc[w] = "read" /\ left[w] > 0
    /\ \E n \in 1 .. Min({Burst, left[w]}) : held' = [held EXCEPT ![w].n = n]
    /\ Goto(w, "gate")
    /\ UNCHANGED <<now, bucket, written, context, src, left, tries, until>>

Finish(w) ==
    /\ pc[w] = "read" /\ left[w] = 0
    /\ Leave(w)
    /\ UNCHANGED <<now, bucket, written, context, src, left>>

\* A failed attempt that may be repeated: pause.
BackOff(w) ==
    /\ pc[w] = "read" /\ tries[w] < MaxRetries
    /\ Goto(w, "backoff")
    /\ \E d \in Pauses(tries[w], Base, BackoffMax) : until' = [until EXCEPT ![w] = now + d]
    /\ UNCHANGED <<now, bucket, written, context, src, left, tries, held>>

BackoffOver(w) ==
    /\ pc[w] = "backoff" /\ now >= until[w]
    /\ Goto(w, "attempt") /\ Awake(w)
    /\ tries' = [tries EXCEPT ![w] = @ + 1]
    /\ UNCHANGED <<now, bucket, written, context, src, left, held>>

\* One that may not: the error cancels the other workers.
GiveUp(w) ==
    /\ pc[w] = "read"
    /\ Leave(w)
    /\ torn' = TRUE
    /\ UNCHANGED <<now, bucket, written, canceled, src, left>>

-----------------------------------------------------------------------------
\* tokenBucket.wait

\* The tokens after a refill; last moves with it.
Refilled_Uncapped == tokens + (now - last) * Rate
Refilled_Coarse == Min({tokens + ((now - last) \div 2) * 2 * Rate, Burst})
Refilled == Min({tokens + (now - last) * Rate, Burst})

\* What the sleep must make up for, as a duration: -tokens / rate, truncated.
Owed_BeforeReserving(w) == IF Refilled < 0 THEN (-Refilled) \div Rate ELSE 0
Owed(w) ==
    LET deficit == held[w].n - Refilled
    IN  IF deficit > 0 THEN deficit \div Rate ELSE 0

\* Under the mutex: refill, reserve the bytes of the buffer, compute the sleep.
Reserve(w) ==
    /\ pc[w] = "gate"
    /\ tokens' = Refilled - held[w].n /\ last' = now
    /\ reserved' = reserved + held[w].n
    /\ held' = [held EXCEPT ![w].upto = reserved + held[w].n]
    /\ until' = [until EXCEPT ![w] = now + Owed(w)]
    /\ Goto(w, IF Owed(w) = 0 THEN "nowait" ELSE "asleep")
    /\ UNCHANGED <<now, written, context, src, left, tries>>

\* After the sleep, or at once but not under a cancelled context: the write.
Tickets(w) == held[w].upto - held[w].n + 1 .. held[w].upto
Admit(w) ==
    /\ \/ pc[w] = "nowait" /\ ~Stopped
       \/ pc[w] = "asleep" /\ now >= until[w]
    /\ written' = written \cup Tickets(w)
    /\ left' = [left EXCEPT ![w] = @ - held[w].n]
    /\ held' = [held EXCEPT ![w] = Empty]
    /\ Goto(w, "read") /\ Awake(w)
    /\ UNCHANGED <<now, bucket, context, src, tries>>

\* The context ends a sleep of either kind, a request or a read in flight.  The
\* tokens a worker reserved are not given back.
Interruptible_NoTimer(w) == pc[w] \in {"attempt", "read", "nowait"}
Interruptible(w) == pc[w] \in {"attempt", "read", "nowait", "asleep", "backoff"}

Abort(w) ==
    /\ Stopped /\ Interruptible(w)
    /\ Leave(w)
    /\ torn' = TRUE
    /\ UNCHANGED <<now, bucket, written, canceled, src, left>>

-----------------------------------------------------------------------------
\* The download.

AllGone == \A w \in Workers : pc[w] = "gone"
Over == AllGone /\ (canceled \/ ~torn \/ src = Sources)

\* Failover: new workers, which resume the chunks or fetch all of them, and the
\* same limiter.
NextSource ==
    /\ AllGone /\ ~Over
    /\ src' = src + 1 /\ torn' = FALSE
    /\ pc' = [w \in Workers |-> "attempt"]
    /\ left' \in {left, [w \in Workers |-> Chunk]}
    /\ UNCHANGED <<now, bucket, written, canceled, tries, held, until>>

Terminated == Over /\ UNCHANGED vars

Compute(w) == StartAttempt(w) \/ Finish(w) \/ BackoffOver(w) \/ Reserve(w) \/ Admit(w)
Network(w) == Read(w) \/ BackOff(w) \/ GiveUp(w)

Next ==
    \/ Tick \/ Cancel \/ NextSource \/ Terminated
    \/ \E w \in Workers : Compute(w) \/ Network(w) \/ Abort(w)

\* Goroutines are scheduled, and a select or a request returns when the context
\* ends.  Nothing makes the clock advance.
Fairness == \A w \in Workers : WF_vars(Reserve(w)) /\ WF_vars(Abort(w))

Spec == Init /\ [][Next]_vars /\ Fairness

-----------------------------------------------------------------------------

PCs == {"attempt", "read", "gate", "nowait", "asleep", "backoff", "gone"}

TypeOK ==
    /\ now \in Nat /\ last \in 0 .. now
    /\ tokens \in Int /\ tokens <= Burst
    /\ reserved \in Nat /\ written \subseteq 1 .. reserved
    /\ canceled \in BOOLEAN /\ torn \in BOOLEAN
    /\ src \in 1 .. Sources
    /\ pc \in [Workers -> PCs]
    /\ left \in [Workers -> 0 .. Chunk]
    /\ tries \in [Workers -> 0 .. MaxRetries]
    /\ held \in [Workers -> [n : 0 .. Burst, upto : Nat]]
    /\ until \in [Workers -> Nat]

\* "The total rate converges to rate, never N*rate" (ratelimit.go:57): at no time
\* have more bytes been written, by all the workers of all the sources, than the
\* bucket held at first and was given since.  A sleep is truncated to a tick,
\* and these truncations do not add up.
Cap == Cardinality(written) <= Burst + Rate * now + Rate - 1

\* The cap is also reached: up to a tick, a worker never sleeps longer than the
\* bytes reserved and not written need at the full rate.  Reservations a failed
\* source left behind are among them, since wait never refunds.
Prompt ==
    \A w \in Workers : pc[w] = "asleep" =>
        Rate * (until[w] - now) <= reserved - Cardinality(written) + Rate - 1

\* "Bounded by max ... guarding against overflow" (retry.go:66-72): no worker that
\* backs off is further from its next attempt than min(base * 2^k, max), and the
\* pause is drawn from the whole of that window, for every attempt, base and
\* maximum an int64 can hold: a window that wraps would pause too little.
Ceiling(k, base, max) == Min({base * 2^k, max})
FullJitter ==
    \A k \in 0 .. MaxInt64, base, max \in 1 .. MaxInt64 :
        LET full == Ceiling(k, base, max)
            pauses == Pauses(k, base, max)
        IN  0 .. full - 1 \subseteq pauses /\ pauses \subseteq 0 .. full
PauseBounded ==
    \A w \in Workers : pc[w] = "backoff" =>
        until[w] - now <= Ceiling(tries[w], Base, BackoffMax) /\ FullJitter

\* "wait blocks ... honoring ctx" (ratelimit.go:12): a cancel, or a worker that
\* gives up, ends every sleep at once and not when its timer fires, so the
\* workers are gone even if the clock stands still.
StopWakes == canceled ~> AllGone

=============================================================================
