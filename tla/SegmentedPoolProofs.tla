------------------------ MODULE SegmentedPoolProofs ------------------------
(***************************************************************************)
(* Safety of the segmented transfer for every plan of disjoint chunks,     *)
(* every concurrency, retry budget and read size, and every mixture of     *)
(* failures.                                                               *)
(***************************************************************************)
EXTENDS SegmentedPool, FiniteSetTheorems, TLAPS

Alive == {c \in Workers : wpc[c] \notin {"idle", "gone"}}

\* Bytes in the file that State does not count yet.
Unmarked(c) == IF wpc[c] = "mark" THEN conn[c].n ELSE 0

\* Each live worker holds a slot, and so does the dispatcher between the select
\* and the spawn (unless the context ended the select).
SlotsInv ==
    /\ Cardinality(Alive) <= slots
    /\ dpc = "check" => Stopped \/ Cardinality(Alive) + 1 <= slots

ControlInv ==
    /\ dpc \in {"acquire", "check"} => next \in Workers
    /\ \A c \in Workers : wpc[c] = "backoff" => attempt[c] < MaxRetries
    /\ \A c \in Workers : c >= next => wpc[c] = "idle"

\* A response in use is positioned at the cursor and owes the rest of the chunk.
StreamInv ==
    \A c \in Workers :
        /\ wpc[c] \in {"read", "write", "mark"} =>
              /\ conn[c].pos = NextByte(c)
              /\ conn[c].want = Plan[c].end - NextByte(c) + 1
        /\ wpc[c] = "write" => conn[c].n <= conn[c].want

\* The chain sidecar <= State <= chunk.done <= file.
CursorInv ==
    /\ \A c \in Workers :
          /\ sidecar[c] <= state[c]
          /\ \A s \in Savers : snapshot[s][c] <= state[c]
          /\ state[c] + Unmarked(c) = done[c]
    /\ Backed(done)

PoolInv == TypeOK /\ SlotsInv /\ ControlInv /\ StreamInv /\ CursorInv /\ BytesInPlace

-----------------------------------------------------------------------------
(* Facts about plans and cursors.                                          *)

LEMMA SeqElement ==
    ASSUME NEW T, NEW s \in Seq(T), NEW i \in 1 .. Len(s)
    PROVE  s[i] \in T
  OBVIOUS

LEMMA PlanFacts ==
    /\ Len(Plan) \in Nat
    /\ \A c \in Workers :
          /\ c \in Int
          /\ Plan[c].start \in Nat /\ Plan[c].end \in Nat
          /\ Plan[c].start <= Plan[c].end
          /\ Length[c] \in Nat
          /\ Length[c] = Plan[c].end - Plan[c].start + 1
<1>1. Len(Plan) \in Nat
  BY PoolConstants
<1>2. ASSUME NEW c \in Workers
      PROVE  /\ c \in Int
             /\ Plan[c].start \in Nat /\ Plan[c].end \in Nat
             /\ Plan[c].start <= Plan[c].end
  <2>1. Plan[c] \in [start : Nat, end : Nat]
    BY PoolConstants, SeqElement DEF Workers
  <2>2. Plan[c].start <= Plan[c].end
    BY PoolConstants
  <2> QED
    BY <1>1, <2>1, <2>2 DEF Workers
<1>3. \A c \in Workers : Length[c] = Plan[c].end - Plan[c].start + 1
  BY DEF Length
<1> QED
  BY <1>1, <1>2, <1>3

LEMMA CursorsAre ==
    \A f : f \in Cursors <=> /\ f \in [Workers -> Nat]
                             /\ \A c \in Workers : f[c] <= Length[c]
<1>1. ASSUME NEW f \in Cursors PROVE f \in [Workers -> Nat]
  <2>1. f \in [Workers -> Counts]
    BY DEF Cursors
  <2>2. Counts \subseteq Nat
    BY PlanFacts DEF Counts
  <2> QED
    BY <2>1, <2>2
<1>2. ASSUME NEW f \in [Workers -> Nat], \A c \in Workers : f[c] <= Length[c]
      PROVE  f \in Cursors
  <2>1. \A c \in Workers : f[c] \in 0 .. Length[c]
    BY <1>2, PlanFacts
  <2>2. \A c \in Workers : f[c] \in Counts
    BY <2>1 DEF Counts
  <2> QED
    BY <1>2, <2>2 DEF Cursors
<1> QED
  BY <1>1, <1>2 DEF Cursors

LEMMA AdvanceCursor ==
    ASSUME NEW f \in Cursors, NEW c \in Workers, NEW n \in Nat, f[c] + n <= Length[c]
    PROVE  [f EXCEPT ![c] = @ + n] \in Cursors
<1> DEFINE g == [f EXCEPT ![c] = @ + n]
<1>1. f \in [Workers -> Nat] /\ \A d \in Workers : f[d] <= Length[d]
  BY CursorsAre
<1>2. g \in [Workers -> Nat]
  BY <1>1
<1>3. \A d \in Workers : g[d] <= Length[d]
  BY <1>1
<1> HIDE DEF g
<1>4. g \in Cursors
  BY <1>2, <1>3, CursorsAre
<1> QED
  BY <1>4 DEF g

\* The live workers are finitely many.
LEMMA AliveFinite ==
    /\ IsFiniteSet(Alive) /\ Cardinality(Alive) \in Nat
    /\ \A c \in Alive : Cardinality(Alive) >= 1
<1>1. IsFiniteSet(Workers)
  BY PlanFacts, FS_Interval DEF Workers
<1>2. IsFiniteSet(Alive)
  BY <1>1, FS_Subset DEF Alive
<1>3. Cardinality(Alive) \in Nat
  BY <1>2, FS_CardinalityType
<1>4. ASSUME NEW c \in Alive PROVE Cardinality(Alive) >= 1
  <2>1. Cardinality(Alive) # 0
    BY <1>2, <1>4, FS_EmptySet
  <2> QED
    BY <1>3, <2>1
<1> QED
  BY <1>2, <1>3, <1>4

-----------------------------------------------------------------------------
(* Every step preserves the type invariant.                                *)

LEMMA ReportType ==
    ASSUME TypeOK, NEW e \in Errors, Report(e)
    PROVE  canceled' \in BOOLEAN /\ torn' \in BOOLEAN /\ firstErr' \in Errors
  BY DEF TypeOK, Report

WorkersType ==
    /\ wpc \in [Workers -> PCs]
    /\ attempt \in [Workers -> 0 .. MaxRetries]
    /\ werr \in [Workers -> Errors \ {"save"}]
    /\ conn \in [Workers -> [pos : Nat, want : Nat, n : Nat]]

LEMMA AttemptType ==
    ASSUME TypeOK, NEW c \in Workers, NEW e \in Errors \ {"save"},
           AttemptFails(c, e) \/ AttemptSucceeds(c)
    PROVE  WorkersType'
<1> USE DEF TypeOK, WorkersType
<1>1. NoConn \in [pos : Nat, want : Nat, n : Nat]
  BY DEF NoConn
<1> HIDE DEF NoConn
<1>2. CASE AttemptFails(c, e)
  <2>1. wpc' \in [Workers -> PCs]
    BY <1>2 DEF AttemptFails, PCs
  <2> QED
    BY <1>1, <1>2, <2>1 DEF AttemptFails
<1>3. CASE AttemptSucceeds(c)
  <2>1. wpc' \in [Workers -> PCs]
    BY <1>3 DEF AttemptSucceeds, PCs
  <2> QED
    BY <1>1, <1>3, <2>1 DEF AttemptSucceeds
<1> QED
  BY <1>2, <1>3

Conns == [pos : Nat, want : Nat, n : Nat]

LEMMA ConnType ==
    ASSUME NEW f \in [Workers -> Conns], NEW c \in Workers,
           NEW p \in Nat, NEW w \in Nat, NEW n \in Nat
    PROVE  /\ [f EXCEPT ![c] = [pos |-> p, want |-> w, n |-> n]] \in [Workers -> Conns]
           /\ [f EXCEPT ![c].n = n] \in [Workers -> Conns]
<1>1. [f[c] EXCEPT !.n = n] \in Conns
  BY DEF Conns
<1>2. [pos |-> p, want |-> w, n |-> n] \in Conns
  BY DEF Conns
<1> HIDE DEF Conns
<1> QED
  BY <1>1, <1>2

LEMMA TypeStep == PoolInv /\ [Next]_vars => TypeOK'
<1> SUFFICES ASSUME PoolInv, [Next]_vars PROVE TypeOK'
  OBVIOUS
<1> USE DEF TypeOK, context, dispatcher, saving, workers, data
<1>0. TypeOK /\ ControlInv /\ StreamInv /\ CursorInv /\ SlotsInv
  BY DEF PoolInv
<1>p. Len(Plan) \in Nat /\ Concurrency \in Nat /\ MaxRetries \in Nat
  BY PoolConstants
<1>1. CASE Cancel
  BY <1>0, <1>1 DEF Cancel
<1>2. CASE FlusherTick \/ FlusherSave \/ FlusherExit
  BY <1>0, <1>2 DEF FlusherTick, FlusherSave, FlusherExit, Marshal, Commit, SaveFails, Savers
<1>3. CASE SkipComplete \/ DispatchNext \/ DispatchedAll
  BY <1>0, <1>p, <1>3 DEF SkipComplete, DispatchNext, DispatchedAll, Workers
<1>4. CASE AcquireSlot \/ BreakOut
  BY <1>0, <1>p, <1>4 DEF AcquireSlot, BreakOut, SlotFree
<1>9. CASE DispatchStopped \/ AcquireStopped
  <2>1. Report("canceled") /\ "canceled" \in Errors
    BY <1>9 DEF DispatchStopped, AcquireStopped, Errors
  <2>2. canceled' \in BOOLEAN /\ torn' \in BOOLEAN /\ firstErr' \in Errors
    BY <1>0, <2>1, ReportType
  <2> QED
    BY <1>0, <1>9, <2>2 DEF DispatchStopped, AcquireStopped
<1>5. CASE SpawnWorker
  BY <1>0, <1>p, <1>5 DEF SpawnWorker, ControlInv, PCs, Workers
<1>6. CASE WaitWorkers \/ WaitFlusher \/ FinalSave
  BY <1>0, <1>6 DEF WaitWorkers, WaitFlusher, FinalSave, Marshal, Commit, SaveFails,
     Savers, Errors
<1>7. ASSUME NEW c \in Workers, Compute(c) \/ Network(c) \/ Abort(c) PROVE TypeOK'
  <2>p. /\ Plan[c].start \in Nat /\ Plan[c].end \in Nat
        /\ NextByte(c) \in Nat /\ done[c] \in Nat /\ Length[c] = Plan[c].end - Plan[c].start + 1
    <3>1. done[c] \in Nat
      BY <1>0, CursorsAre
    <3> QED
      BY <3>1, PlanFacts DEF NextByte
  <2>1. CASE StartAttempt(c) \/ RetryStopped(c)
    BY <1>0, <2>1 DEF StartAttempt, RetryStopped, PCs, Errors
  <2>2. CASE NothingLeft(c)
    BY <1>0, <2>2 DEF NothingLeft, AttemptSucceeds, PCs, NoConn
  <2>3. CASE Write(c)
    <3> PICK n \in 0 .. conn[c].n :
          /\ part' = Written(c, n)
          /\ done' = [done EXCEPT ![c] = @ + n]
          /\ \/ /\ n > 0
                /\ wpc' = [wpc EXCEPT ![c] = "mark"]
                /\ conn' = [conn EXCEPT ![c] =
                      [pos |-> @.pos + n, want |-> @.want - n, n |-> n]]
                /\ werr' = [werr EXCEPT ![c] = IF n < conn[c].n THEN "disk" ELSE @]
                /\ UNCHANGED attempt
             \/ n = 0 /\ AttemptFails(c, "disk")
      BY <2>3 DEF Write, Counted
    <3>1. /\ conn[c].n \in Nat /\ conn[c].pos = NextByte(c)
          /\ conn[c].want = Plan[c].end - NextByte(c) + 1 /\ conn[c].n <= conn[c].want
      BY <1>0, <2>3 DEF Write, StreamInv
    <3>2. done' \in Cursors
      <4>1. done[c] + n <= Length[c]
        BY <2>p, <3>1 DEF NextByte
      <4> QED
        <5>1. n \in Nat /\ done \in Cursors
          BY <1>0, <3>1
        <5> QED
          BY <4>1, <5>1, AdvanceCursor
    <3>3. part' \in [Offsets -> Offsets \cup {Hole}]
      <4>1. \A o \in Offsets : part[o] \in Offsets \cup {Hole}
        BY <1>0
      <4>2. \A o \in Offsets : o \in Int
        BY PlanFacts DEF Offsets, Bytes
      <4> QED
        BY <2>p, <3>1, <4>1, <4>2 DEF Written
    <3>4. WorkersType'
      <4>1. CASE n > 0 /\ ~AttemptFails(c, "disk")
        <5>1. conn[c].pos + n \in Nat /\ conn[c].want - n \in Nat /\ n \in Nat
          BY <2>p, <3>1
        <5>2. conn' \in [Workers -> [pos : Nat, want : Nat, n : Nat]]
          <6>1. conn' = [conn EXCEPT ![c] = [pos |-> conn[c].pos + n,
                                             want |-> conn[c].want - n, n |-> n]]
            BY <1>0, <4>1
          <6> QED
            BY <1>0, <5>1, <6>1, ConnType DEF Conns
        <5>3. "mark" \in PCs /\ "disk" \in Errors \ {"save"}
          BY DEF PCs, Errors, Kinds
        <5> QED
          BY <1>0, <4>1, <5>2, <5>3 DEF WorkersType
      <4>2. CASE AttemptFails(c, "disk")
        BY <1>0, <4>2, AttemptType DEF Errors, Kinds
      <4> QED
        BY <3>1, <4>1, <4>2
    <3> QED
      BY <1>0, <2>3, <3>2, <3>3, <3>4 DEF Write, WorkersType
  <2>4. CASE Mark(c)
    <3>1. state' \in Cursors
      <4>1. state[c] + conn[c].n = done[c] /\ conn[c].n \in Nat
        BY <1>0, <2>4 DEF Mark, CursorInv, Unmarked
      <4>2. done[c] <= Length[c]
        BY <1>0, CursorsAre
      <4> QED
        BY <1>0, <2>4, <4>1, <4>2, AdvanceCursor DEF Mark
    <3>2. WorkersType'
      <4>1. CASE AttemptFails(c, "disk")
        BY <1>0, <4>1, AttemptType DEF Errors, Kinds
      <4>2. CASE ~AttemptFails(c, "disk")
        <5>1. conn' = [conn EXCEPT ![c].n = 0] /\ wpc' = [wpc EXCEPT ![c] = "read"]
              /\ UNCHANGED <<attempt, werr>>
          BY <2>4, <4>2 DEF Mark
        <5>2. conn' \in [Workers -> Conns]
          BY <1>0, <5>1, ConnType DEF Conns
        <5>3. wpc' \in [Workers -> PCs]
          BY <1>0, <5>1 DEF PCs
        <5> QED
          BY <1>0, <5>1, <5>2, <5>3 DEF WorkersType, Conns
      <4> QED
        BY <4>1, <4>2
    <3> QED
      BY <1>0, <2>4, <3>1, <3>2 DEF Mark, WorkersType
  <2>5. CASE BackoffOver(c)
    <3>1. attempt[c] + 1 \in 0 .. MaxRetries
      BY <1>0, <1>p, <2>5 DEF BackoffOver, ControlInv
    <3> QED
      BY <1>0, <2>5, <3>1 DEF BackoffOver, PCs, NextAttempt
  <2>6. CASE Fail(c)
    BY <1>0, <2>6 DEF Fail, Report, PCs, Errors
  <2>7. CASE Release(c)
    <3>1. slots >= 1
      <4>1. c \in Alive
        BY <2>7 DEF Release, Alive
      <4>2. Cardinality(Alive) >= 1 /\ Cardinality(Alive) \in Nat
        BY <4>1, AliveFinite
      <4> QED
        BY <1>0, <4>2 DEF SlotsInv
    <3> QED
      BY <1>0, <1>p, <2>7, <3>1 DEF Release, PCs
  <2>8. CASE Request(c)
    <3>1. Plan[c].end - NextByte(c) + 1 \in Nat
      BY <2>8, <2>p DEF Request, Todo
    <3> QED
      BY <1>0, <2>8, <2>p, <3>1 DEF Request, PCs, Response
  <2>9. CASE \E e \in Errors \ {"save"} :
               /\ AttemptFails(c, e) \/ AttemptSucceeds(c)
               /\ UNCHANGED <<context, dispatcher, saving, data>>
    <3>1. WorkersType'
      BY <1>0, <2>9, AttemptType
    <3> QED
      BY <1>0, <2>9, <3>1 DEF WorkersType
  <2>10. CASE Read(c) /\ ~AttemptFails(c, "overlength")
    <3> PICK n \in 1 .. MaxRead :
          /\ wpc' = [wpc EXCEPT ![c] = "write"]
          /\ conn' = [conn EXCEPT ![c].n = n]
          /\ UNCHANGED <<attempt, werr>>
      BY <2>10 DEF Read
    <3>1. n \in Nat
      BY PoolConstants
    <3>2. conn' \in [Workers -> Conns]
      BY <1>0, <3>1, ConnType DEF Conns
    <3>3. wpc' \in [Workers -> PCs]
      BY <1>0 DEF PCs
    <3> QED
      BY <1>0, <2>10, <3>2, <3>3 DEF Read, Conns
  <2>11. RequestFails(c) \/ Abort(c) \/ ReadEnds(c)
           \/ (Read(c) /\ AttemptFails(c, "overlength"))
         => \E e \in Errors \ {"save"} :
               /\ AttemptFails(c, e) \/ AttemptSucceeds(c)
               /\ UNCHANGED <<context, dispatcher, saving, data>>
    <3> HIDE DEF context, dispatcher, saving, data
    <3> QED
      BY DEF RequestFails, Abort, ReadEnds, Read, Errors, Kinds
  <2> QED
    BY <1>7, <2>1, <2>2, <2>3, <2>4, <2>5, <2>6, <2>7, <2>8, <2>9, <2>10, <2>11
       DEF Compute, Network
<1>8. CASE UNCHANGED vars
  BY <1>0, <1>8 DEF vars
<1> QED
  BY <1>1, <1>2, <1>3, <1>4, <1>5, <1>6, <1>7, <1>8, <1>9
     DEF Next, Dispatcher, Flusher, Terminated

-----------------------------------------------------------------------------
(* What the steps of a worker, and the steps of the others, have in common.  *)

Works(c) == Compute(c) \/ Network(c) \/ Abort(c)

LEMMA WorkerStep ==
    ASSUME TypeOK, NEW c \in Workers, Works(c)
    PROVE  /\ wpc[c] \notin {"idle", "gone"}
           /\ wpc'[c] # "idle"
           /\ wpc' = [wpc EXCEPT ![c] = wpc'[c]]
           /\ wpc'[c] = "gone" => slots' = slots - 1
           /\ wpc'[c] # "gone" => slots' = slots
           /\ wpc'[c] = "backoff" => attempt'[c] < MaxRetries
           /\ \A d \in Workers \ {c} : attempt'[d] = attempt[d] /\ conn'[d] = conn[d]
           /\ Stopped => Stopped'
           /\ UNCHANGED <<dpc, next, saving>>
<1> USE DEF TypeOK, Stopped
<1> DEFINE Goal == /\ wpc[c] \notin {"idle", "gone"}
                   /\ wpc'[c] # "idle"
                   /\ wpc' = [wpc EXCEPT ![c] = wpc'[c]]
                   /\ wpc'[c] = "gone" => slots' = slots - 1
                   /\ wpc'[c] # "gone" => slots' = slots
                   /\ wpc'[c] = "backoff" => attempt'[c] < MaxRetries
                   /\ \A d \in Workers \ {c} : attempt'[d] = attempt[d] /\ conn'[d] = conn[d]
                   /\ Stopped => Stopped'
                   /\ UNCHANGED <<dpc, next, saving>>
<1>1. CASE StartAttempt(c) \/ RetryStopped(c) \/ BackoffOver(c)
  BY <1>1 DEF StartAttempt, RetryStopped, BackoffOver, context, dispatcher
<1>2. CASE Fail(c) \/ Release(c)
  BY <1>2 DEF Fail, Report, Release, context, dispatcher
<1>3. ASSUME NEW e, AttemptFails(c, e) \/ AttemptSucceeds(c), wpc[c] \notin {"idle", "gone"},
             UNCHANGED <<context, dispatcher, saving>>
      PROVE  Goal
  BY <1>3 DEF AttemptFails, AttemptSucceeds, context, dispatcher, MayRetry
<1>4. CASE NothingLeft(c) \/ RequestFails(c) \/ Abort(c) \/ ReadEnds(c)
  <2>1. wpc[c] \notin {"idle", "gone"} /\ UNCHANGED <<context, dispatcher, saving>>
    BY <1>4 DEF NothingLeft, RequestFails, Abort, ReadEnds, Interruptible
  <2>2. \E e : AttemptFails(c, e) \/ AttemptSucceeds(c)
    BY <1>4 DEF NothingLeft, RequestFails, Abort, ReadEnds
  <2> QED
    BY <1>3, <2>1, <2>2
<1>5. CASE Request(c)
  BY <1>5 DEF Request, context, dispatcher
<1>6. CASE Read(c)
  <2>1. CASE \E e : AttemptFails(c, e)
    BY <1>3, <1>6, <2>1 DEF Read
  <2>2. CASE ~\E e : AttemptFails(c, e)
    BY <1>6, <2>2 DEF Read, context, dispatcher
  <2> QED
    BY <2>1, <2>2
<1>7. CASE Write(c)
  <2>1. CASE \E e : AttemptFails(c, e)
    BY <1>3, <1>7, <2>1 DEF Write
  <2>2. CASE ~\E e : AttemptFails(c, e)
    BY <1>7, <2>2 DEF Write, context, dispatcher
  <2> QED
    BY <2>1, <2>2
<1>8. CASE Mark(c)
  <2>1. CASE \E e : AttemptFails(c, e)
    BY <1>3, <1>8, <2>1 DEF Mark
  <2>2. CASE ~\E e : AttemptFails(c, e)
    BY <1>8, <2>2 DEF Mark, context, dispatcher
  <2> QED
    BY <2>1, <2>2
<1> QED
  BY <1>1, <1>2, <1>4, <1>5, <1>6, <1>7, <1>8 DEF Works, Compute, Network

\* A step of nobody's worker leaves the workers and the data alone, except that
\* SpawnWorker starts the worker of the next chunk.
LEMMA OtherStep ==
    ASSUME TypeOK, ControlInv, Cancel \/ Dispatcher \/ Flusher
    PROVE  /\ UNCHANGED <<attempt, werr, conn, data>>
           /\ Stopped => Stopped'
           /\ \/ UNCHANGED wpc
              \/ SpawnWorker
<1>1. CASE Cancel
  BY <1>1 DEF Cancel, Stopped, workers
<1>2. CASE FlusherTick \/ FlusherSave \/ FlusherExit
  BY <1>2 DEF FlusherTick, FlusherSave, FlusherExit, Stopped, workers, context
<1>3. CASE SkipComplete \/ DispatchNext \/ DispatchedAll \/ AcquireSlot \/ BreakOut
  BY <1>3 DEF SkipComplete, DispatchNext, DispatchedAll, AcquireSlot, BreakOut,
     Stopped, workers, context
<1>4. CASE DispatchStopped \/ AcquireStopped
  BY <1>4 DEF DispatchStopped, AcquireStopped, Report, Stopped, workers
<1>5. CASE SpawnWorker
  BY <1>5 DEF SpawnWorker, Stopped, context
<1>6. CASE WaitWorkers \/ WaitFlusher \/ FinalSave
  BY <1>6 DEF WaitWorkers, WaitFlusher, FinalSave, Stopped, workers, context
<1> QED
  BY <1>1, <1>2, <1>3, <1>4, <1>5, <1>6 DEF Dispatcher, Flusher

LEMMA ControlStep == PoolInv /\ [Next]_vars => ControlInv'
<1> SUFFICES ASSUME PoolInv, [Next]_vars PROVE ControlInv'
  OBVIOUS
<1>0. TypeOK /\ ControlInv
  BY DEF PoolInv
<1>1. ASSUME NEW c \in Workers, Works(c) PROVE ControlInv'
  BY <1>0, <1>1, WorkerStep DEF ControlInv, TypeOK
<1>2. CASE UNCHANGED <<wpc, attempt>> /\ (Cancel \/ Flusher \/ Dispatcher)
  <2>1. CASE dpc' = dpc /\ next' = next
    BY <1>0, <1>2, <2>1 DEF ControlInv
  <2>2. CASE SkipComplete \/ DispatchStopped \/ DispatchNext \/ DispatchedAll
    BY <1>0, <1>2, <2>2, PlanFacts DEF ControlInv, TypeOK, SkipComplete, DispatchStopped,
       DispatchNext, DispatchedAll
  <2>3. CASE AcquireSlot \/ AcquireStopped \/ BreakOut
    BY <1>0, <1>2, <2>3 DEF ControlInv, AcquireSlot, AcquireStopped, BreakOut
  <2>4. CASE SpawnWorker
    BY <1>0, <1>2, <2>4 DEF ControlInv, SpawnWorker, TypeOK
  <2>5. CASE WaitWorkers \/ WaitFlusher \/ FinalSave
    BY <1>0, <1>2, <2>5 DEF ControlInv, WaitWorkers, WaitFlusher, FinalSave
  <2>6. CASE Cancel \/ Flusher
    BY <2>1, <2>6 DEF Cancel, Flusher, FlusherTick, FlusherSave, FlusherExit, dispatcher
  <2> QED
    BY <1>2, <2>2, <2>3, <2>4, <2>5, <2>6 DEF Dispatcher
<1>3. CASE SpawnWorker
  BY <1>0, <1>3, PlanFacts DEF ControlInv, SpawnWorker, TypeOK
<1>4. CASE UNCHANGED vars
  BY <1>0, <1>4 DEF ControlInv, vars, dispatcher, workers
<1> QED
  BY <1>0, <1>1, <1>2, <1>3, <1>4, OtherStep DEF Next, Terminated, Works

LEMMA SlotsStep == PoolInv /\ [Next]_vars => SlotsInv'
<1> SUFFICES ASSUME PoolInv, [Next]_vars PROVE SlotsInv'
  OBVIOUS
<1>0. TypeOK /\ ControlInv /\ SlotsInv
  BY DEF PoolInv
<1>f. IsFiniteSet(Alive) /\ Cardinality(Alive) \in Nat /\ slots \in Int
  BY <1>0, AliveFinite DEF TypeOK
<1>1. ASSUME NEW c \in Workers, Works(c) PROVE SlotsInv'
  <2>1. /\ c \in Alive
        /\ dpc' = dpc /\ (Stopped => Stopped')
    BY <1>0, <1>1, WorkerStep DEF Alive
  <2>2. CASE wpc'[c] = "gone"
    <3>1. Alive' = Alive \ {c} /\ slots' = slots - 1
      BY <1>0, <1>1, <2>2, WorkerStep DEF Alive, TypeOK
    <3>2. Cardinality(Alive') = Cardinality(Alive) - 1
      BY <1>f, <2>1, <3>1, FS_RemoveElement
    <3> QED
      BY <1>0, <1>f, <2>1, <3>1, <3>2 DEF SlotsInv
  <2>3. CASE wpc'[c] # "gone"
    <3>1. Alive' = Alive /\ slots' = slots
      BY <1>0, <1>1, <2>1, <2>3, WorkerStep DEF Alive, TypeOK
    <3> QED
      BY <1>0, <2>1, <3>1 DEF SlotsInv
  <2> QED
    BY <2>2, <2>3
<1>2. CASE SpawnWorker
  <2>1. next \in Workers /\ wpc[next] = "idle"
    BY <1>0, <1>2, PlanFacts DEF SpawnWorker, ControlInv
  <2>2. Alive' = Alive \cup {next} /\ next \notin Alive
    BY <1>0, <1>2, <2>1 DEF SpawnWorker, Alive, TypeOK
  <2>3. Cardinality(Alive') = Cardinality(Alive) + 1
    BY <1>f, <2>2, FS_AddElement
  <2>4. Cardinality(Alive) + 1 <= slots /\ slots' = slots /\ dpc' = "dispatch"
    BY <1>0, <1>2 DEF SpawnWorker, SlotsInv
  <2> QED
    BY <2>3, <2>4 DEF SlotsInv
<1>3. CASE UNCHANGED wpc /\ (Cancel \/ Flusher \/ Dispatcher)
  <2>1. Alive' = Alive /\ (Stopped => Stopped')
    BY <1>0, <1>3, OtherStep DEF Alive
  <2>2. CASE AcquireSlot
    BY <1>0, <1>f, <2>1, <2>2 DEF AcquireSlot, SlotsInv
  <2>3. CASE AcquireStopped
    BY <1>0, <1>f, <2>1, <2>3 DEF AcquireStopped, SlotsInv, Stopped
  <2>4. CASE slots' = slots /\ dpc' # "check"
    BY <1>0, <2>1, <2>4 DEF SlotsInv
  <2>5. CASE slots' = slots /\ dpc' = dpc
    BY <1>0, <2>1, <2>5 DEF SlotsInv
  <2>6. CASE SkipComplete \/ DispatchStopped \/ DispatchNext \/ DispatchedAll \/ BreakOut
    BY <2>4, <2>6 DEF SkipComplete, DispatchStopped, DispatchNext, DispatchedAll, BreakOut
  <2>7. CASE SpawnWorker \/ WaitWorkers \/ WaitFlusher \/ FinalSave
    BY <2>4, <2>7 DEF SpawnWorker, WaitWorkers, WaitFlusher, FinalSave
  <2>8. CASE Cancel \/ Flusher
    BY <2>5, <2>8 DEF Cancel, Flusher, FlusherTick, FlusherSave, FlusherExit, dispatcher
  <2> QED
    BY <1>3, <2>2, <2>3, <2>6, <2>7, <2>8 DEF Dispatcher
<1>4. CASE UNCHANGED vars
  <2>1. Alive' = Alive
    BY <1>4 DEF vars, workers, Alive
  <2> QED
    BY <1>0, <1>4, <2>1 DEF SlotsInv, Stopped, vars, dispatcher, context
<1> QED
  BY <1>0, <1>1, <1>2, <1>3, <1>4, OtherStep DEF Next, Terminated, Works

\* A step of a worker that is not a write leaves chunk.done and the file alone.
LEMMA DataStep ==
    ASSUME TypeOK, NEW c \in Workers, Works(c)
    PROVE  /\ ~Write(c) => UNCHANGED <<done, part>>
           /\ ~Mark(c) => UNCHANGED state
           /\ \A d \in Workers \ {c} : done'[d] = done[d] /\ state'[d] = state[d]
<1>1. CASE Write(c)
  <2>1. PICK n \in 0 .. conn[c].n : done' = [done EXCEPT ![c] = @ + n]
    BY <1>1 DEF Write
  <2>2. ~Mark(c) /\ UNCHANGED state
    BY <1>1 DEF Write, Mark
  <2> QED
    BY <1>1, <2>1, <2>2 DEF TypeOK, Cursors
<1>2. CASE Mark(c)
  BY <1>2 DEF Mark, Write, TypeOK, Cursors
<1>3. CASE UNCHANGED data
  BY <1>3 DEF data
<1> QED
  BY <1>1, <1>2, <1>3 DEF Works, Compute, Network, StartAttempt, RetryStopped,
     BackoffOver, Fail, Release, NothingLeft, RequestFails, Abort, ReadEnds,
     Request, Read

LEMMA StreamStep == PoolInv /\ [Next]_vars => StreamInv'
<1> SUFFICES ASSUME PoolInv, [Next]_vars PROVE StreamInv'
  OBVIOUS
<1>0. TypeOK /\ ControlInv /\ StreamInv
  BY DEF PoolInv
<1> DEFINE Good(c) ==
        /\ wpc[c] \in {"read", "write", "mark"} =>
              /\ conn[c].pos = NextByte(c)
              /\ conn[c].want = Plan[c].end - NextByte(c) + 1
        /\ wpc[c] = "write" => conn[c].n <= conn[c].want
<1>1. ASSUME NEW c \in Workers, Works(c), NEW d \in Workers PROVE Good(d)'
  <2>1. CASE d # c
    <3>1. /\ done'[d] = done[d] /\ conn'[d] = conn[d]
          /\ wpc' = [wpc EXCEPT ![c] = wpc'[c]]
      BY <1>0, <1>1, <2>1, WorkerStep, DataStep
    <3>2. wpc'[d] = wpc[d]
      BY <1>0, <2>1, <3>1 DEF TypeOK
    <3> QED
      BY <1>0, <3>1, <3>2 DEF StreamInv, NextByte
  <2>2. CASE d = c
    <3>p. /\ Plan[c].end \in Int /\ NextByte(c) \in Int /\ done[c] \in Int
          /\ conn[c] \in [pos : Nat, want : Nat, n : Nat]
      <4>1. done[c] \in Nat
        BY <1>0, CursorsAre DEF TypeOK
      <4> QED
        BY <1>0, <4>1, PlanFacts DEF NextByte, TypeOK
    <3>1. CASE Request(c)
      <4>1. wpc'[c] = "read" /\ done' = done
            /\ conn'[c] = [pos |-> NextByte(c), want |-> Plan[c].end - NextByte(c) + 1, n |-> 0]
        BY <1>0, <3>1 DEF Request, TypeOK, data, Response
      <4> QED
        BY <2>2, <4>1 DEF NextByte
    <3>2. CASE \E e : AttemptFails(c, e) \/ AttemptSucceeds(c)
      <4>1. wpc'[c] \in {"backoff", "failed", "release"}
        BY <1>0, <3>2 DEF AttemptFails, AttemptSucceeds, TypeOK
      <4> QED
        BY <2>2, <4>1
    <3>3. CASE Read(c) /\ ~\E e : AttemptFails(c, e)
      <4>1. PICK n \in 1 .. MaxRead :
              /\ n <= conn[c].want
              /\ wpc' = [wpc EXCEPT ![c] = "write"]
              /\ conn' = [conn EXCEPT ![c].n = n]
        BY <3>3 DEF Read
      <4>2. /\ conn'[c].n = n /\ conn'[c].pos = conn[c].pos /\ conn'[c].want = conn[c].want
            /\ wpc[c] = "read" /\ done' = done
        BY <1>0, <3>3, <4>1 DEF TypeOK, Read, data
      <4> QED
        BY <1>0, <2>2, <4>1, <4>2 DEF StreamInv, NextByte
    <3>4. CASE Write(c) /\ ~\E e : AttemptFails(c, e)
      <4>1. PICK n \in 0 .. conn[c].n :
              /\ done' = [done EXCEPT ![c] = @ + n]
              /\ wpc' = [wpc EXCEPT ![c] = "mark"]
              /\ conn' = [conn EXCEPT ![c] =
                            [pos |-> @.pos + n, want |-> @.want - n, n |-> n]]
        BY <3>4 DEF Write, Counted
      <4>2. /\ wpc[c] = "write" /\ wpc'[c] = "mark" /\ done'[c] = done[c] + n
            /\ conn'[c].pos = conn[c].pos + n /\ conn'[c].want = conn[c].want - n
        BY <1>0, <3>4, <4>1 DEF TypeOK, Cursors, Write
      <4>3. NextByte(c)' = NextByte(c) + n
        BY <4>1, <4>2, <3>p, PlanFacts DEF NextByte
      <4> QED
        BY <1>0, <2>2, <3>p, <4>1, <4>2, <4>3 DEF StreamInv
    <3>5. CASE Mark(c) /\ ~\E e : AttemptFails(c, e)
      <4>1. /\ wpc[c] = "mark" /\ wpc'[c] = "read" /\ done' = done
            /\ conn'[c].pos = conn[c].pos /\ conn'[c].want = conn[c].want
        BY <1>0, <3>5 DEF TypeOK, Mark
      <4> QED
        BY <1>0, <2>2, <4>1 DEF StreamInv, NextByte
    <3>6. CASE StartAttempt(c) \/ RetryStopped(c) \/ BackoffOver(c)
               \/ Fail(c) \/ Release(c)
      <4>1. wpc'[c] \notin {"read", "write", "mark"}
        BY <1>0, <3>6 DEF StartAttempt, RetryStopped, BackoffOver,
           Fail, Release, TypeOK
      <4> QED
        BY <2>2, <4>1
    <3>7. NothingLeft(c) \/ RequestFails(c) \/ Abort(c) \/ ReadEnds(c)
          => \E e : AttemptFails(c, e) \/ AttemptSucceeds(c)
      BY DEF NothingLeft, RequestFails, Abort, ReadEnds
    <3> HIDE DEF Good
    <3> QED
      BY <1>1, <3>1, <3>2, <3>3, <3>4, <3>5, <3>6, <3>7 DEF Works, Compute, Network
  <2> QED
    BY <2>1, <2>2
<1>2. CASE SpawnWorker
  <2>1. ASSUME NEW d \in Workers PROVE Good(d)'
    <3>1. /\ conn' = conn /\ done' = done
          /\ wpc'[d] \in {"read", "write", "mark"} => wpc'[d] = wpc[d]
      BY <1>0, <1>2 DEF SpawnWorker, TypeOK, data
    <3> QED
      BY <1>0, <3>1 DEF StreamInv, NextByte
  <2> QED
    BY <2>1 DEF StreamInv
<1>3. CASE UNCHANGED <<wpc, conn, done>>
  BY <1>0, <1>3 DEF StreamInv, NextByte
<1>4. UNCHANGED vars => UNCHANGED <<wpc, conn, done>>
  BY DEF vars, workers, data
<1>5. Cancel \/ Dispatcher \/ Flusher => UNCHANGED <<wpc, conn, done>> \/ SpawnWorker
  BY <1>0, OtherStep DEF data
<1>6. (\A d \in Workers : Good(d)') => StreamInv'
  BY DEF StreamInv
<1> HIDE DEF Good
<1> QED
  BY <1>1, <1>2, <1>3, <1>4, <1>5, <1>6 DEF Next, Terminated, Works

-----------------------------------------------------------------------------
(* The bytes: every byte is at its own offset, and the cursors count bytes   *)
(* that are there.                                                           *)

\* WriteAt puts the response's bytes at their own offsets and advances the
\* cursor by as many.
LEMMA WriteBytes ==
    ASSUME PoolInv, NEW c \in Workers, Write(c)
    PROVE  BytesInPlace' /\ Backed(done)'
<1>0. TypeOK /\ StreamInv /\ BytesInPlace /\ Backed(done)
  BY DEF PoolInv, CursorInv
<1>1. PICK n \in 0 .. conn[c].n :
        part' = Written(c, n) /\ done' = [done EXCEPT ![c] = @ + n]
  BY DEF Write
<1>2. conn[c].pos = NextByte(c) /\ conn[c].want = Plan[c].end - NextByte(c) + 1
      /\ n <= conn[c].want
  BY <1>0 DEF StreamInv, Write, TypeOK
<1>3. /\ n \in Nat /\ done[c] \in Nat /\ NextByte(c) = Plan[c].start + done[c]
      /\ Plan[c].start \in Nat /\ Plan[c].end \in Nat
  <2>1. conn[c].n \in Nat
    BY <1>0 DEF TypeOK
  <2> QED
    BY <1>0, <2>1, CursorsAre, PlanFacts DEF TypeOK, NextByte
<1>4. \A o \in Offsets : o \in Int
  BY PlanFacts DEF Offsets, Bytes
<1>5. \A o \in Offsets :
         part'[o] = IF o \in NextByte(c) .. NextByte(c) + n - 1 THEN o ELSE part[o]
  BY <1>1, <1>2, <1>3, <1>4 DEF Written
<1>6. BytesInPlace'
  BY <1>0, <1>5 DEF BytesInPlace
<1>7. ASSUME NEW d \in Workers, NEW o \in Bytes(d), o < Plan[d].start + done'[d]
      PROVE  part'[o] = o
  <2>1. o \in Offsets /\ o \in Int
    BY <1>4 DEF Offsets
  <2>2. CASE d = c
    <3>1. done'[c] = done[c] + n
      BY <1>0, <1>1 DEF TypeOK, Cursors
    <3>2. CASE o < Plan[c].start + done[c]
      BY <1>0, <1>3, <1>5, <1>7, <2>1, <2>2, <3>2 DEF Backed
    <3>3. CASE ~(o < Plan[c].start + done[c])
      BY <1>3, <1>5, <1>7, <2>1, <2>2, <3>1, <3>3
    <3> QED
      BY <3>2, <3>3
  <2>3. CASE d # c
    <3>1. done'[d] = done[d]
      BY <1>0, <1>1, <2>3 DEF TypeOK, Cursors
    <3>2. part[o] = o
      BY <1>0, <1>7, <3>1 DEF Backed
    <3> QED
      BY <1>5, <2>1, <3>2
  <2> QED
    BY <2>2, <2>3
<1>8. Backed(done)'
  BY <1>7 DEF Backed
<1> QED
  BY <1>6, <1>8

\* The cursors of the sidecar and of the Saves under way stay below State's.
Below == \A d \in Workers : /\ sidecar[d] <= state[d]
                            /\ \A s \in Savers : snapshot[s][d] <= state[d]

LEMMA CursorStep == PoolInv /\ [Next]_vars => CursorInv' /\ BytesInPlace'
<1> SUFFICES ASSUME PoolInv, [Next]_vars PROVE CursorInv' /\ BytesInPlace'
  OBVIOUS
<1>0. TypeOK /\ ControlInv /\ CursorInv /\ BytesInPlace /\ Below
      /\ Backed(done) /\ \A d \in Workers : state[d] + Unmarked(d) = done[d]
  BY DEF PoolInv, CursorInv, Below
<1>t. \A d \in Workers : /\ state[d] \in Nat /\ done[d] \in Nat /\ sidecar[d] \in Nat
                         /\ \A s \in Savers : snapshot[s][d] \in Nat
                         /\ conn[d].n \in Nat
  BY <1>0, CursorsAre DEF TypeOK
<1>g. Below' /\ Backed(done)' /\ (\A d \in Workers : state'[d] + Unmarked(d)' = done'[d])
      => CursorInv'
  BY DEF CursorInv, Below
<1>1. ASSUME NEW c \in Workers, Works(c)
      PROVE  CursorInv' /\ BytesInPlace'
  <2>1. BytesInPlace' /\ Backed(done)'
    <3>1. CASE Write(c)
      BY <3>1, WriteBytes
    <3>2. CASE ~Write(c)
      BY <1>0, <1>1, <3>2, DataStep DEF BytesInPlace, Backed
    <3> QED
      BY <3>1, <3>2
  <2>2. /\ \A d \in Workers \ {c} : /\ wpc'[d] = wpc[d] /\ conn'[d] = conn[d]
                                    /\ done'[d] = done[d] /\ state'[d] = state[d]
        /\ UNCHANGED <<sidecar, snapshot>>
    BY <1>0, <1>1, WorkerStep, DataStep DEF TypeOK, saving
  <2>3. state'[c] + Unmarked(c)' = done'[c] /\ state[c] <= state'[c]
    <3>1. CASE Mark(c)
      <4>1. /\ state'[c] = state[c] + conn[c].n /\ Unmarked(c) = conn[c].n
            /\ done' = done /\ wpc'[c] # "mark"
        BY <1>0, <3>1 DEF Mark, AttemptFails, Unmarked, TypeOK, Cursors
      <4>2. Unmarked(c)' = 0
        BY <4>1 DEF Unmarked
      <4> QED
        BY <1>0, <1>t, <4>1, <4>2
    <3>2. CASE Write(c)
      <4>1. PICK n \in 0 .. conn[c].n :
              /\ done' = [done EXCEPT ![c] = @ + n]
              /\ \/ /\ wpc' = [wpc EXCEPT ![c] = "mark"]
                    /\ conn' = [conn EXCEPT ![c] =
                          [pos |-> @.pos + n, want |-> @.want - n, n |-> n]]
                 \/ n = 0 /\ AttemptFails(c, "disk")
        BY <3>2 DEF Write, Counted
      <4>2. state' = state /\ wpc[c] = "write" /\ Unmarked(c) = 0 /\ done'[c] = done[c] + n
        BY <1>0, <3>2, <4>1 DEF Write, Unmarked, TypeOK, Cursors
      <4>3. Unmarked(c)' = n
        BY <1>0, <4>1 DEF Unmarked, AttemptFails, TypeOK
      <4> QED
        BY <1>0, <1>t, <4>1, <4>2, <4>3
    <3>3. CASE ~Mark(c) /\ ~Write(c)
      <4>1. state' = state /\ done' = done
        BY <1>0, <1>1, <3>3, DataStep
      <4>2. wpc[c] # "mark" /\ wpc'[c] # "mark"
        <5>1. CASE \E e : AttemptFails(c, e) \/ AttemptSucceeds(c)
          <6>1. wpc[c] # "mark"
            BY <1>1, <3>3 DEF Works, Compute, Network, StartAttempt, RetryStopped,
               BackoffOver, Fail, Release, NothingLeft, RequestFails, Abort, Interruptible,
               ReadEnds, Request, Read
          <6> QED
            BY <1>0, <5>1, <6>1 DEF AttemptFails, AttemptSucceeds, TypeOK
        <5>2. CASE ~\E e : AttemptFails(c, e) \/ AttemptSucceeds(c)
          <6>1. StartAttempt(c) \/ RetryStopped(c) \/ BackoffOver(c) \/ Fail(c)
                \/ Release(c) \/ Request(c) \/ Read(c)
            BY <1>1, <3>3, <5>2 DEF Works, Compute, Network, NothingLeft, RequestFails,
               Abort, ReadEnds
          <6> QED
            BY <1>0, <5>2, <6>1 DEF StartAttempt, RetryStopped, BackoffOver, Fail, Release,
               Request, Read, TypeOK
        <5> QED
          BY <5>1, <5>2
      <4>3. Unmarked(c) = 0 /\ Unmarked(c)' = 0
        BY <4>2 DEF Unmarked
      <4> QED
        BY <1>0, <1>t, <4>1, <4>3
    <3> QED
      BY <3>1, <3>2, <3>3
  <2>4. \A d \in Workers \ {c} : state'[d] + Unmarked(d)' = done'[d]
    BY <1>0, <2>2 DEF Unmarked
  <2>5. Below'
    <3>1. state'[c] \in Nat
      BY <1>0, CursorsAre, TypeStep DEF PoolInv, TypeOK
    <3> QED
      BY <1>0, <1>t, <2>2, <2>3, <3>1 DEF Below
  <2> QED
    BY <1>g, <2>1, <2>3, <2>4, <2>5
<1>2. CASE /\ UNCHANGED data
           /\ \A d \in Workers : Unmarked(d)' = Unmarked(d)
           /\ sidecar' = sidecar \/ \E s \in Savers : sidecar' = snapshot[s]
           /\ snapshot' = snapshot \/ \E s \in Savers : snapshot' = [snapshot EXCEPT ![s] = state]
  <2>1. BytesInPlace' /\ Backed(done)'
    BY <1>0, <1>2 DEF BytesInPlace, Backed, data
  <2>2. \A d \in Workers : state'[d] + Unmarked(d)' = done'[d]
    BY <1>0, <1>2 DEF data
  <2>3. \A d \in Workers : sidecar'[d] <= state[d]
    BY <1>0, <1>2 DEF Below
  <2>4. \A s \in Savers : \A d \in Workers : snapshot'[s][d] <= state[d]
    <3>1. CASE snapshot' = snapshot
      BY <1>0, <3>1 DEF Below
    <3>2. ASSUME NEW r \in Savers, snapshot' = [snapshot EXCEPT ![r] = state],
                 NEW s \in Savers, NEW d \in Workers
          PROVE  snapshot'[s][d] <= state[d]
      <4>1. snapshot'[s] = IF s = r THEN state ELSE snapshot[s]
        BY <1>0, <3>2 DEF TypeOK
      <4>2. state[d] <= state[d]
        BY <1>t
      <4> QED
        BY <1>0, <4>1, <4>2 DEF Below
    <3> QED
      BY <1>2, <3>1, <3>2
  <2>5. Below'
    BY <1>2, <2>3, <2>4 DEF Below, data
  <2> QED
    BY <1>g, <2>1, <2>2, <2>5
<1>3. Cancel \/ Dispatcher \/ Flusher \/ UNCHANGED vars =>
           /\ UNCHANGED data
           /\ \A d \in Workers : Unmarked(d)' = Unmarked(d)
           /\ sidecar' = sidecar \/ \E s \in Savers : sidecar' = snapshot[s]
           /\ snapshot' = snapshot \/ \E s \in Savers : snapshot' = [snapshot EXCEPT ![s] = state]
  <2> SUFFICES ASSUME Cancel \/ Dispatcher \/ Flusher \/ UNCHANGED vars
               PROVE  /\ UNCHANGED data
                      /\ \A d \in Workers : Unmarked(d)' = Unmarked(d)
                      /\ sidecar' = sidecar \/ \E s \in Savers : sidecar' = snapshot[s]
                      /\ \/ snapshot' = snapshot
                         \/ \E s \in Savers : snapshot' = [snapshot EXCEPT ![s] = state]
    OBVIOUS
  <2>1. UNCHANGED <<data, conn>> /\ (UNCHANGED wpc \/ SpawnWorker)
    BY <1>0, OtherStep DEF vars, workers
  <2>2. \A d \in Workers : Unmarked(d)' = Unmarked(d)
    <3>1. CASE SpawnWorker
      <4>1. next \in Workers /\ wpc[next] = "idle"
        BY <1>0, <3>1, PlanFacts DEF SpawnWorker, ControlInv
      <4> QED
        BY <1>0, <2>1, <3>1, <4>1 DEF SpawnWorker, TypeOK, Unmarked
    <3> QED
      BY <2>1, <3>1 DEF Unmarked
  <2>3. /\ sidecar' = sidecar \/ \E s \in Savers : sidecar' = snapshot[s]
        /\ snapshot' = snapshot \/ \E s \in Savers : snapshot' = [snapshot EXCEPT ![s] = state]
    <3>1. CASE Flusher \/ WaitFlusher \/ FinalSave
      BY <3>1 DEF Flusher, FlusherTick, FlusherSave, FlusherExit, WaitFlusher, FinalSave,
         Marshal, Commit, SaveFails, Savers
    <3>2. CASE ~(Flusher \/ WaitFlusher \/ FinalSave)
      BY <3>2 DEF Cancel, Dispatcher, SkipComplete, DispatchStopped, DispatchNext,
         DispatchedAll, AcquireSlot, AcquireStopped, BreakOut, SpawnWorker, WaitWorkers,
         vars, saving
    <3> QED
      BY <3>1, <3>2
  <2> QED
    BY <2>1, <2>2, <2>3
<1> QED
  BY <1>1, <1>2, <1>3 DEF Next, Terminated, Works

-----------------------------------------------------------------------------

LEMMA InitPool == Init => PoolInv
<1> SUFFICES ASSUME Init PROVE PoolInv
  OBVIOUS
<1>1. Len(Plan) \in Nat /\ Concurrency \in Nat /\ MaxRetries \in Nat
  BY PoolConstants
<1>2. done \in Cursors /\ state = done /\ sidecar = done
      /\ snapshot = [s \in Savers |-> done] /\ part = Prefix(done)
      /\ wpc = [c \in Workers |-> "idle"] /\ dpc = "dispatch" /\ next = 1 /\ slots = 0
  BY DEF Init
<1>3. \A d \in Workers : done[d] \in Nat
  BY <1>2, CursorsAre
<1>4. part \in [Offsets -> Offsets \cup {Hole}] /\ BytesInPlace
  BY <1>2 DEF Prefix, BytesInPlace
<1>5. conn \in [Workers -> [pos : Nat, want : Nat, n : Nat]]
  BY DEF Init, NoConn
<1>6. TypeOK
  <2>1. /\ next \in 1 .. Len(Plan) + 1 /\ slots \in 0 .. Concurrency
        /\ attempt \in [Workers -> 0 .. MaxRetries]
    BY <1>1, <1>2 DEF Init
  <2>2. wpc \in [Workers -> PCs] /\ werr \in [Workers -> Errors \ {"save"}]
    BY <1>2 DEF Init, PCs, Errors
  <2>3. snapshot \in [Savers -> Cursors]
    BY <1>2
  <2>4. /\ canceled \in BOOLEAN /\ torn \in BOOLEAN /\ firstErr \in Errors
        /\ dpc \in {"dispatch", "acquire", "check", "wait", "flushwait", "saving", "returned"}
        /\ fpc \in {"select", "saving", "exited"}
    BY DEF Init, Errors
  <2> QED
    BY <1>2, <1>4, <1>5, <2>1, <2>2, <2>3, <2>4 DEF TypeOK
<1>7. SlotsInv
  <2>1. Alive = {}
    BY <1>2 DEF Alive
  <2> QED
    BY <1>2, <2>1, FS_EmptySet DEF SlotsInv
<1>8. ControlInv /\ StreamInv
  BY <1>2 DEF ControlInv, StreamInv
<1>9. Backed(done)
  BY <1>2 DEF Backed, Prefix, Offsets
<1>10. CursorInv
  BY <1>2, <1>3, <1>9 DEF CursorInv, Unmarked
<1> QED
  BY <1>4, <1>6, <1>7, <1>8, <1>10 DEF PoolInv

LEMMA StepPool == PoolInv /\ [Next]_vars => PoolInv'
  BY TypeStep, ControlStep, SlotsStep, StreamStep, CursorStep DEF PoolInv

LEMMA PoolInvariant == Spec => []PoolInv
<1> QED
  BY InitPool, StepPool, PTL DEF Spec

\* Every variable of the transfer keeps its range: in particular the semaphore
\* never counts below zero or above Concurrency.
THEOREM PoolTypes == Spec => []TypeOK
<1>1. PoolInv => TypeOK
  BY DEF PoolInv
<1> QED
  BY <1>1, PoolInvariant, PTL

\* At most Concurrency workers are alive, for any number of chunks.
THEOREM PoolBounded == Spec => []Bounded
<1>1. PoolInv => Bounded
  <2> SUFFICES ASSUME PoolInv PROVE Bounded
    OBVIOUS
  <2>1. Cardinality(Alive) <= slots /\ slots <= Concurrency /\ slots \in Int
        /\ Cardinality(Alive) \in Int /\ Concurrency \in Int
    BY AliveFinite, PoolConstants DEF PoolInv, SlotsInv, TypeOK
  <2> QED
    BY <2>1 DEF Bounded, Alive
<1> QED
  BY <1>1, PoolInvariant, PTL

\* No interleaving, retry, partial write or over-long answer puts a byte at an
\* offset that is not its own.
THEOREM PoolBytesInPlace == Spec => []BytesInPlace
<1>1. PoolInv => BytesInPlace
  BY DEF PoolInv
<1> QED
  BY <1>1, PoolInvariant, PTL

\* Whatever instant the process dies at, every byte the sidecar counts was
\* written to the file before (resume may trust the cursors).
THEOREM PoolCursorsBacked == Spec => []CursorsBacked
<1>1. PoolInv => CursorsBacked
  <2> SUFFICES ASSUME PoolInv PROVE CursorsBacked
    OBVIOUS
  <2>1. \A d \in Workers :
           /\ state[d] \in Nat /\ done[d] \in Nat /\ sidecar[d] \in Nat
           /\ Plan[d].start \in Nat /\ conn[d].n \in Nat
           /\ \A s \in Savers : snapshot[s][d] \in Nat
    BY CursorsAre, PlanFacts DEF PoolInv, TypeOK
  <2>2. \A d \in Workers :
           /\ state[d] <= done[d] /\ sidecar[d] <= done[d]
           /\ \A s \in Savers : snapshot[s][d] <= done[d]
    BY <2>1 DEF PoolInv, CursorInv, Unmarked
  <2>3. ASSUME NEW f, \A d \in Workers : f[d] \in Nat /\ f[d] <= done[d]
        PROVE  Backed(f)
    <3> SUFFICES ASSUME NEW d \in Workers, NEW o \in Bytes(d), o < Plan[d].start + f[d]
                 PROVE  part[o] = o
      BY DEF Backed
    <3>1. o \in Int
      BY <2>1, PlanFacts DEF Bytes
    <3>2. o < Plan[d].start + done[d]
      BY <2>1, <2>3, <3>1
    <3> QED
      BY <3>2 DEF PoolInv, CursorInv, Backed
  <2> QED
    BY <2>1, <2>2, <2>3 DEF CursorsBacked
<1> QED
  BY <1>1, PoolInvariant, PTL

=============================================================================
