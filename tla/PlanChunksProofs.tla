------------------------- MODULE PlanChunksProofs -------------------------
(***************************************************************************)
(* planChunks is right for every size below 2^62 (2 * size <= MaxInt64)    *)
(* and every concurrency: the plan tiles the file, has at most             *)
(* max(concurrency,1) chunks, and all but the last have the same length.   *)
(***************************************************************************)
EXTENDS PlanChunks, TLAPS

\* Exact division facts the planner rests on: n chunks of CeilDiv(s,n) bytes
\* reach the end of the file, and no chunk is empty or longer than the file.
LEMMA CeilDivFacts ==
    ASSUME NEW s \in Nat \ {0}, NEW n \in 1 .. s, 2 * s <= MaxInt64
    PROVE  /\ CeilDiv(s, n) \in 1 .. s
           /\ s <= n * CeilDiv(s, n)
<1> DEFINE q == (s + n - 1) \div n
<1>1. CeilDiv(s, n) = q
  BY PlanConstants DEF CeilDiv, Wrap, Quotient
<1>2. q \in Int /\ n * q <= s + n - 1 /\ s + n - 1 < n * q + n
  OBVIOUS
<1> HIDE DEF q
<1>3. s <= n * q
  BY <1>2
<1>4. q >= 1
  BY <1>2
<1>5. q <= s
  BY <1>2
<1> QED
  BY <1>1, <1>2, <1>3, <1>4, <1>5

-----------------------------------------------------------------------------

\* The strengthening: where the loop stands.  All chunks before the last begin
\* at multiples of Per and have Per bytes; unless the plan is finished the next
\* one begins at Len(chunks) * Per.
Aligned ==
    /\ \A i \in 1 .. Len(chunks) :
          /\ chunks[i].start = (i - 1) * Per
          /\ chunks[i].end < (i - 1) * Per + Per
          /\ i < Len(chunks) => chunks[i].end = (i - 1) * Per + Per - 1
    /\ start < size => start = Len(chunks) * Per
    /\ start < size /\ chunks # <<>>
         => chunks[Len(chunks)].end = (Len(chunks) - 1) * Per + Per - 1
    /\ 0 <= start
    /\ size > 0 => start <= size

PlanInv == TypeOK /\ Tiles /\ AtMostConcurrency /\ Aligned

\* While the loop runs, Per is a sane chunk length.
LEMMA PerFacts ==
    ASSUME SmallSizes, TypeOK, size > 0
    PROVE  /\ Per \in 1 .. size
           /\ size <= Parts(size, concurrency) * Per
           /\ Parts(size, concurrency) \in 1 .. Limit
<1> DEFINE n == Parts(size, concurrency)
<1>1. size \in Nat \ {0} /\ concurrency \in Int /\ 2 * size <= MaxInt64
  BY PlanConstants DEF TypeOK, SmallSizes
<1>2. n \in 1 .. size /\ n \in 1 .. Limit
  BY <1>1 DEF Parts, Limit
<1> HIDE DEF n
<1>3. CeilDiv(size, n) \in 1 .. size /\ size <= n * CeilDiv(size, n)
  BY <1>1, <1>2, CeilDivFacts
<1> QED
  BY <1>2, <1>3 DEF Per, n

LEMMA SeqElement ==
    ASSUME NEW T, NEW s \in Seq(T), NEW i \in 1 .. Len(s)
    PROVE  s[i] \in T
  OBVIOUS

LEMMA InitPlan == ASSUME SmallSizes PROVE Init => PlanInv
<1> SUFFICES ASSUME Init PROVE PlanInv
  OBVIOUS
<1>1. size \in Int /\ concurrency \in Int
  BY PlanConstants DEF Init
<1>2. TypeOK
  BY PlanConstants DEF Init, TypeOK, Int64, Offset
<1>3. Tiles
  BY DEF Init, Tiles
<1>4. AtMostConcurrency
  BY <1>1 DEF Init, AtMostConcurrency, Limit
<1>5. Aligned
  <2>1. Len(chunks) = 0 /\ start = 0
    BY DEF Init
  <2>2. start < size => start = Len(chunks) * Per
    <3>1. CASE start < size
      <4>1. Per \in Int
        BY <1>1, <1>2, <2>1, <3>1, PerFacts
      <4> QED
        BY <4>1, <2>1
    <3> QED
      BY <3>1
  <2> QED
    BY <1>1, <2>1, <2>2 DEF Init, Aligned
<1> QED
  BY <1>2, <1>3, <1>4, <1>5 DEF PlanInv

LEMMA StepPlan == ASSUME SmallSizes PROVE PlanInv /\ [Next]_vars => PlanInv'
<1> SUFFICES ASSUME PlanInv, [Next]_vars PROVE PlanInv'
  OBVIOUS
<1> USE DEF PlanInv
<1>1. CASE AppendChunk
  <2> DEFINE k == Len(chunks)
  <2> DEFINE e == ChunkEnd
  <2> DEFINE c == [start |-> start, end |-> e, done |-> 0]
  <2>1. /\ size \in Int64 /\ size \in Int /\ 2 * size <= MaxInt64
        /\ concurrency \in Int /\ start \in Int /\ start < size /\ 0 <= start
        /\ k \in Nat /\ start = k * Per
        /\ chunks \in Seq([start : Offset, end : Offset, done : {0}])
    BY <1>1, PlanConstants DEF AppendChunk, Aligned, TypeOK, SmallSizes, Int64, Offset
  <2>2. Per \in 1 .. size /\ size <= Parts(size, concurrency) * Per
        /\ Parts(size, concurrency) \in 1 .. Limit
    BY <2>1, PerFacts
  <2>3. /\ e \in start .. size - 1 /\ e < start + Per
        /\ e + 1 < size => e = start + Per - 1
    <3>1. Per \in 1 .. size
      BY <2>2
    <3>2. start + Per \in Int /\ start + Per <= MaxInt64 /\ 0 < start + Per
      BY <2>1, <3>1, PlanConstants
    <3>3. Per \in Int /\ start \in Int /\ size \in Int /\ MaxInt64 \in Int
      BY <2>1, <3>1, PlanConstants
    <3>4. e = IF start + Per - 1 >= size THEN size - 1 ELSE start + Per - 1
      BY <3>2, <3>3, SMTT(30) DEF ChunkEnd, Wrap
    <3> HIDE DEF e
    <3> QED
      BY <2>1, <3>1, <3>4
  <2>4. start' = e + 1
    BY <1>1, <2>1, <2>3, PlanConstants DEF AppendChunk, Wrap
  <2>5. /\ chunks' = Append(chunks, c)
        /\ size' = size /\ concurrency' = concurrency
    BY <1>1 DEF AppendChunk
  <2>6. Per' = Per /\ Limit' = Limit
    BY <2>5 DEF Per, Limit
  <2> HIDE DEF e
  <2>7. c \in [start : Offset, end : Offset, done : {0}]
    BY <2>1, <2>3, PlanConstants DEF Int64, Offset
  <2>8. /\ Len(chunks') = k + 1
        /\ chunks'[k + 1] = c
        /\ \A i \in 1 .. k : chunks'[i] = chunks[i]
    BY <2>1, <2>5
  <2>9. TypeOK'
    BY <2>1, <2>3, <2>4, <2>5, <2>7, PlanConstants DEF TypeOK, Int64, Offset
  <2>10. \A i \in 1 .. k : chunks[i].start \in Int /\ chunks[i].end \in Int
    <3>1. \A i \in 1 .. k : chunks[i] \in [start : Offset, end : Offset, done : {0}]
      BY <2>1, SeqElement
    <3>2. Offset \subseteq Int
      BY PlanConstants DEF Int64, Offset
    <3> QED
      BY <3>1, <3>2
  <2>11. Tiles'
    <3>1. chunks'[1].start = 0
      BY <2>1, <2>8 DEF Tiles
    <3>2. ASSUME NEW i \in 1 .. k + 1
          PROVE  /\ chunks'[i].start <= chunks'[i].end
                 /\ chunks'[i].end < size
                 /\ i > 1 => chunks'[i].start = chunks'[i-1].end + 1
      <4>1. CASE i = k + 1
        BY <4>1, <2>1, <2>3, <2>8 DEF Tiles
      <4>2. CASE i \in 1 .. k
        <5>1. /\ chunks[i].start <= chunks[i].end
              /\ chunks[i].end < size
              /\ i > 1 => chunks[i].start = chunks[i-1].end + 1
          BY <4>2 DEF Tiles
        <5>2. i > 1 => i - 1 \in 1 .. k
          BY <4>2, <2>1
        <5> QED
          BY <4>2, <5>1, <5>2, <2>8
      <4> QED
        BY <4>1, <4>2, <2>1
    <3> QED
      BY <3>1, <3>2, <2>1, <2>4, <2>5, <2>8 DEF Tiles
  <2>12. AtMostConcurrency'
    <3>1. k < Parts(size, concurrency)
      <4>1. k * Per < Parts(size, concurrency) * Per
        BY <2>1, <2>2
      <4> QED
        BY <4>1, <2>1, <2>2
    <3>2. Limit \in Int
      BY <2>1 DEF Limit
    <3>3. Len(chunks') <= Limit'
      BY <3>1, <3>2, <2>1, <2>2, <2>6, <2>8
    <3> QED
      BY <3>3 DEF AtMostConcurrency
  <2>13. Aligned'
    <3>1. ASSUME NEW i \in 1 .. k + 1
          PROVE  /\ chunks'[i].start = (i - 1) * Per
                 /\ chunks'[i].end < (i - 1) * Per + Per
                 /\ i < k + 1 => chunks'[i].end = (i - 1) * Per + Per - 1
      <4>1. CASE i = k + 1
        BY <4>1, <2>1, <2>2, <2>3, <2>8
      <4>2. CASE i = k /\ k > 0
        BY <4>2, <2>1, <2>8 DEF Aligned
      <4>3. CASE i \in 1 .. k - 1
        BY <4>3, <2>1, <2>8 DEF Aligned
      <4> QED
        BY <4>1, <4>2, <4>3, <2>1
    <3>2. start' < size => start' = (k + 1) * Per
      BY <2>1, <2>2, <2>3, <2>4
    <3>3. start' < size => chunks'[k + 1].end = k * Per + Per - 1
      BY <2>1, <2>2, <2>3, <2>4, <2>8
    <3>4. 0 <= start' /\ start' <= size
      BY <2>1, <2>3, <2>4
    <3> QED
      BY <3>1, <3>2, <3>3, <3>4, <2>1, <2>5, <2>6, <2>8 DEF Aligned
  <2> QED
    BY <2>9, <2>11, <2>12, <2>13
<1>2. CASE UNCHANGED vars
  BY <1>2 DEF vars, TypeOK, Tiles, AtMostConcurrency, Limit, Aligned, Per
<1> QED
  BY <1>1, <1>2 DEF Next, Terminated

\* The planner's offsets stay in the int64 range, and no chunk is begun with
\* bytes already counted.
THEOREM PlanTypes == ASSUME SmallSizes PROVE Spec => []TypeOK
<1>1. Init => PlanInv
  BY InitPlan
<1>2. PlanInv /\ [Next]_vars => PlanInv'
  BY StepPlan
<1>3. PlanInv => TypeOK
  BY DEF PlanInv
<1> QED
  BY <1>1, <1>2, <1>3, PTL DEF Spec

\* Every plan, at every iteration of its loop, tiles [0,start)
\* without gap or overlap, and has at most `concurrency` chunks.
THEOREM PlanTiles == ASSUME SmallSizes PROVE Spec => []Tiles
<1>1. Init => PlanInv
  BY InitPlan
<1>2. PlanInv /\ [Next]_vars => PlanInv'
  BY StepPlan
<1>3. PlanInv => Tiles
  BY DEF PlanInv
<1> QED
  BY <1>1, <1>2, <1>3, PTL DEF Spec

\* "up to `concurrency`" (chunk.go:33) holds for every size below 2^62.
THEOREM PlanBounded == ASSUME SmallSizes PROVE Spec => []AtMostConcurrency
<1>1. Init => PlanInv
  BY InitPlan
<1>2. PlanInv /\ [Next]_vars => PlanInv'
  BY StepPlan
<1>3. PlanInv => AtMostConcurrency
  BY DEF PlanInv
<1> QED
  BY <1>1, <1>2, <1>3, PTL DEF Spec

LEMMA AlignedNearEqual == ASSUME SmallSizes, PlanInv PROVE NearEqual
<1> USE DEF PlanInv
<1> SUFFICES ASSUME NEW i \in 2 .. Len(chunks)
             PROVE  LET L(j) == chunks[j].end - chunks[j].start + 1
                    IN  L(i) <= L(i-1) /\ (i < Len(chunks) => L(i) = L(i-1))
  BY DEF NearEqual
<1>1. Len(chunks) \in Nat /\ i \in 1 .. Len(chunks) /\ i - 1 \in 1 .. Len(chunks)
  BY DEF TypeOK
<1>2. chunks[i].end \in Int /\ chunks[i-1].end \in Int
  <2>1. chunks[i] \in [start : Offset, end : Offset, done : {0}]
        /\ chunks[i-1] \in [start : Offset, end : Offset, done : {0}]
    BY <1>1, SeqElement DEF TypeOK
  <2> QED
    BY <2>1, PlanConstants DEF Int64, Offset
<1>3. Per \in Int
  <2>1. chunks[1].start = 0 /\ chunks[1].start <= chunks[1].end /\ chunks[1].end < size
    BY <1>1 DEF Tiles
  <2>2. size \in Int /\ chunks[1].end \in Int
    <3>1. chunks[1] \in [start : Offset, end : Offset, done : {0}]
      <4>1. 1 \in 1 .. Len(chunks)
        BY <1>1
      <4> QED
        BY <4>1, SeqElement DEF TypeOK
    <3> QED
      BY <3>1, PlanConstants DEF TypeOK, Int64, Offset
  <2> QED
    BY <2>1, <2>2, PerFacts
<1>4. /\ chunks[i].start = (i - 1) * Per
      /\ chunks[i].end < (i - 1) * Per + Per
      /\ i < Len(chunks) => chunks[i].end = (i - 1) * Per + Per - 1
  BY <1>1 DEF Aligned
<1>5. /\ chunks[i-1].start = (i - 2) * Per
      /\ chunks[i-1].end = (i - 2) * Per + Per - 1
  BY <1>1, <1>3 DEF Aligned
<1> HIDE DEF PlanInv
<1> QED
  BY <1>1, <1>2, <1>3, <1>4, <1>5

\* "near-equal size" (chunk.go:34): all chunks but the last are equally long
\* and the last is no longer, for every size below 2^62.
THEOREM PlanNearEqual == ASSUME SmallSizes PROVE Spec => []NearEqual
<1>1. Init => PlanInv
  BY InitPlan
<1>2. PlanInv /\ [Next]_vars => PlanInv'
  BY StepPlan
<1>3. PlanInv => NearEqual
  BY AlignedNearEqual
<1> QED
  BY <1>1, <1>2, <1>3, PTL DEF Spec

=============================================================================
