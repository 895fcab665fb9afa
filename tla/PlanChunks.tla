---------------------------- MODULE PlanChunks ----------------------------
(***************************************************************************)
(* The chunk planner of the segmented path (src/download/chunk.go):        *)
(* planChunks splits the byte range [0,size) into at most `concurrency`    *)
(* disjoint, contiguous chunks, one loop iteration per chunk.  The loop is *)
(* a state machine so that a plan can be examined while it is being built. *)
(*                                                                         *)
(* int64 arithmetic is modelled at its width: every value lies in          *)
(* -MaxInt64-1 .. MaxInt64 and a result outside that range wraps around.   *)
(***************************************************************************)
EXTENDS Integers, Sequences

CONSTANTS
    Sizes,          \* resource sizes handed to planChunks
    Concurrencies,  \* requested concurrency values
    MaxInt64,       \* largest int64 (2^63-1 in the code, small for TLC)
    MaxChunks       \* bound: no more than this many iterations are followed

ASSUME PlanConstants ==
    /\ MaxInt64 \in Nat /\ MaxInt64 > 0
    /\ MaxChunks \in Nat
    /\ Sizes \subseteq -MaxInt64 - 1 .. MaxInt64
    /\ Concurrencies \subseteq -MaxInt64 - 1 .. MaxInt64

Int64 == -MaxInt64 - 1 .. MaxInt64
Offset == 0 .. MaxInt64   \* a position in a file

VARIABLES
    size, concurrency,  \* the arguments of the call
    start,              \* first byte not yet planned
    chunks              \* the plan so far; chunk.index is the position - 1

vars == <<size, concurrency, start, chunks>>

-----------------------------------------------------------------------------

\* Two's complement wrap-around of the sum of two int64 values.
Wrap(x) ==
    IF x > MaxInt64 THEN x - 2 * (MaxInt64 + 1)
    ELSE IF x < -MaxInt64 - 1 THEN x + 2 * (MaxInt64 + 1)
    ELSE x

\* Go's integer division truncates toward zero (b is positive here).
Quotient(a, b) == IF a >= 0 THEN a \div b ELSE -((-a) \div b)

CeilDiv_Floor(a, b) == IF b = 0 THEN 0 ELSE Quotient(a, b)
CeilDiv(a, b) ==
    IF b = 0 THEN 0 ELSE Quotient(Wrap(Wrap(a + b) - 1), b)

\* The number of chunks aimed at: concurrency clamped to 1 .. size.
Parts_Zero(sz, conc) ==
    LET n == IF conc < 0 THEN 1 ELSE conc
    IN  IF n > sz THEN sz ELSE n
Parts(sz, conc) ==
    LET n == IF conc < 1 THEN 1 ELSE conc
    IN  IF n > sz THEN sz ELSE n

Per == CeilDiv(size, Parts(size, concurrency))

\* end of the chunk that begins at `start`
ChunkEnd_NoClamp == Wrap(Wrap(start + Per) - 1)
ChunkEnd_LastTakesRest ==
    LET e == Wrap(Wrap(start + Per) - 1)
    IN  IF Wrap(e + Per) >= size THEN size - 1 ELSE e
ChunkEnd ==
    LET e == Wrap(Wrap(start + Per) - 1)
    IN  IF e >= size THEN size - 1 ELSE e

-----------------------------------------------------------------------------

Init ==
    /\ size \in Sizes
    /\ concurrency \in Concurrencies
    /\ start = 0
    /\ chunks = <<>>

\* One iteration of the planning loop (a size <= 0 returns nil: no iteration).
AppendChunk ==
    /\ start < size
    /\ Len(chunks) < MaxChunks
    /\ chunks' = Append(chunks, [start |-> start, end |-> ChunkEnd, done |-> 0])
    /\ start' = Wrap(ChunkEnd + 1)
    /\ UNCHANGED <<size, concurrency>>

Done == start >= size \/ Len(chunks) >= MaxChunks

\* The call has returned (or the bound was met): nothing happens any more.
Terminated == Done /\ UNCHANGED vars

Next == AppendChunk \/ Terminated

Spec == Init /\ [][Next]_vars /\ WF_vars(AppendChunk)

-----------------------------------------------------------------------------
\* Every size is far enough from MaxInt64 that no sum in the planner can wrap
\* (for the real width: below 2^62 bytes).
SmallSizes == \A s \in Sizes : 2 * s <= MaxInt64

\* The concurrency that counts: values below 1 mean 1.
Limit == IF concurrency < 1 THEN 1 ELSE concurrency

TypeOK ==
    /\ size \in Sizes
    /\ concurrency \in Concurrencies
    /\ start \in Offset
    /\ chunks \in Seq([start : Offset, end : Offset, done : {0}])

\* The chunks planned so far tile [0,start): the first begins at byte 0, each
\* begins right after its predecessor ends, none is empty, none passes size.
Tiles ==
    /\ chunks = <<>> => start = 0
    /\ chunks # <<>> => chunks[1].start = 0 /\ start = chunks[Len(chunks)].end + 1
    /\ \A i \in 1 .. Len(chunks) :
          /\ chunks[i].start <= chunks[i].end
          /\ chunks[i].end < size
          /\ i > 1 => chunks[i].start = chunks[i-1].end + 1

\* chunk.go:33 "splits [0,size) into up to `concurrency` disjoint contiguous
\* chunks": no plan, finished or not, has more chunks than were asked for.
\* (The clamp `n > size` and the rounding up of per both matter here.)
AtMostConcurrency == Len(chunks) <= Limit

\* "of near-equal size": every chunk but the last has the same length and the
\* last is no longer than the others.
NearEqual ==
    \A i \in 2 .. Len(chunks) :
        LET L(j) == chunks[j].end - chunks[j].start + 1
        IN  L(i) <= L(i-1) /\ (i < Len(chunks) => L(i) = L(i-1))

\* The loop ends with the whole range planned, whatever the arguments.
Covers == <>(start >= size)

=============================================================================
