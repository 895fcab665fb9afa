------------------------------ MODULE Backoff ------------------------------
(* The pause before another attempt: backoff (src/download/retry.go), an    *)
(* exponential window with full jitter on int64 durations.                  *)
EXTENDS Integers

CONSTANT MaxInt64   \* the largest int64

ASSUME BackoffConstants == MaxInt64 \in Nat \ {0}

\* What an int64 holds of x.
WrapDuration(x) == ((x + MaxInt64 + 1) % (2 * (MaxInt64 + 1))) - (MaxInt64 + 1)

\* One iteration of the loop that doubles the window, up to max.
Doubled_Unguarded(window, max) == WrapDuration(2 * window)
Doubled(window, max) ==
    LET twice == WrapDuration(2 * window)
    IN  IF window >= max \/ twice <= 0 \/ twice > max THEN max ELSE twice

Window(attempt, base, max) ==
    LET w[i \in Nat] == IF i = 0 THEN base ELSE Doubled(w[i - 1], max)
    IN  w[attempt]

\* The pauses backoff may return: the truncated product of the window and a
\* jitter sample in [0, 1), clamped to 0 .. max.
Clamped(d, max) == IF d < 0 THEN 0 ELSE IF d > max THEN max ELSE d
Samples(window) == IF window > 0 THEN 0 .. window - 1 ELSE {0} \cup (window + 1 .. 0)
Pauses(attempt, base, max) ==
    IF base <= 0 THEN {0} ELSE {Clamped(d, max) : d \in Samples(Window(attempt, base, max))}

=============================================================================
