-------------------- MODULE SegmentedPoolPromiseProofs --------------------
(***************************************************************************)
(* What runSegmented owes its caller at the return, for every plan,        *)
(* concurrency, retry budget and mixture of failures; and that each of its *)
(* steps is one of Transfer or changes nothing that Transfer sees.         *)
(***************************************************************************)
EXTENDS SegmentedPoolProofs

\* Past wg.Wait.
Ending == dpc \in {"flushwait", "saving", "returned"}

\* A Save of the flusher never takes the sidecar back.
FlusherInv ==
    fpc = "saving" => \A c \in Workers : sidecar[c] <= snapshot["flusher"][c]

\* Past each wait of the dispatcher what it waited for is over, and past the
\* last Marshal nobody is left to move the cursors.
QuietInv ==
    /\ Ending => \A c \in Workers : wpc[c] \in {"idle", "gone"}
    /\ dpc \in {"saving", "returned"} => fpc = "exited"
    /\ dpc = "saving" => snapshot["dispatcher"] = state
    /\ Returned /\ ~SaveMayFail => sidecar = state

\* Until the workers are gone, the derived context ends only by the caller's
\* cancel or by an error, and that error is known.
CauseInv ==
    /\ torn => canceled \/ firstErr # "none" \/ Ending
    /\ CauseReported
    /\ \A c \in Workers :
          /\ werr[c] = "canceled" => Stopped
          /\ wpc[c] = "failed" => werr[c] # "none"

\* A chunk that is behind the dispatcher is complete or has a worker at it, or
\* the reason why not is known.
CompleteInv ==
    /\ \A c \in Workers :
          /\ wpc[c] \in {"release", "gone"} /\ firstErr = "none" => ~Todo(c)
          /\ wpc[c] = "idle" /\ c < next => ~Todo(c)
    /\ dpc = "wait" \/ Ending => next \notin Workers \/ firstErr # "none" \/ canceled

PromiseInv == PoolInv /\ FlusherInv /\ QuietInv /\ CauseInv /\ CompleteInv

-----------------------------------------------------------------------------
(* Steps of a worker.                                                      *)

\* What a step of a worker does to its error, and when it ends.
LEMMA WorkerCause ==
    ASSUME PoolInv, NEW c \in Workers, Works(c)
    PROVE  /\ \A d \in Workers \ {c} : werr'[d] = werr[d]
           /\ werr'[c] = "canceled" => Stopped \/ werr[c] = "canceled"
           /\ wpc'[c] = "failed" => werr'[c] # "none"
           /\ wpc'[c] = "gone" => wpc[c] = "release"
           /\ wpc'[c] = "release" => Fail(c) \/ ~Todo(c)
           /\ ~Fail(c) => UNCHANGED context
<1> DEFINE Goal == /\ \A d \in Workers \ {c} : werr'[d] = werr[d]
                   /\ werr'[c] = "canceled" => Stopped \/ werr[c] = "canceled"
                   /\ wpc'[c] = "failed" => werr'[c] # "none"
                   /\ wpc'[c] = "gone" => wpc[c] = "release"
                   /\ wpc'[c] = "release" => Fail(c) \/ ~Todo(c)
                   /\ ~Fail(c) => UNCHANGED context
<1>0. /\ wpc \in [Workers -> PCs] /\ werr \in [Workers -> Errors \ {"save"}]
      /\ StreamInv
  BY DEF PoolInv, TypeOK
<1>1. CASE StartAttempt(c) \/ RetryStopped(c) \/ BackoffOver(c)
  BY <1>0, <1>1 DEF StartAttempt, RetryStopped, BackoffOver
<1>2. CASE Fail(c) \/ Release(c)
  BY <1>0, <1>2 DEF Fail, Release
<1>3. ASSUME NEW e, AttemptFails(c, e), e # "none", e = "canceled" => Stopped,
             UNCHANGED context
      PROVE  Goal
  BY <1>0, <1>3 DEF AttemptFails
<1>4. ASSUME AttemptSucceeds(c), ~Todo(c), UNCHANGED context
      PROVE  Goal
  BY <1>0, <1>4 DEF AttemptSucceeds
<1>5. CASE NothingLeft(c)
  BY <1>4, <1>5 DEF NothingLeft
<1>6. CASE RequestFails(c)
  BY <1>3, <1>6 DEF RequestFails
<1>7. CASE Abort(c)
  BY <1>3, <1>7 DEF Abort
<1>8. CASE ReadEnds(c)
  <2>1. CASE conn[c].want = 0 /\ AttemptSucceeds(c)
    <3>1. Plan[c].end - NextByte(c) + 1 = 0 /\ Plan[c].end \in Int /\ NextByte(c) \in Int
      BY <1>0, <1>8, <2>1, PlanFacts, CursorsAre
         DEF ReadEnds, StreamInv, NextByte, PoolInv, TypeOK
    <3>2. ~Todo(c)
      BY <3>1 DEF Todo
    <3> QED
      BY <1>4, <1>8, <2>1, <3>2 DEF ReadEnds
  <2>2. CASE ~(conn[c].want = 0 /\ AttemptSucceeds(c))
    BY <1>3, <1>8, <2>2 DEF ReadEnds
  <2> QED
    BY <2>1, <2>2
<1>9. CASE Request(c)
  BY <1>0, <1>9 DEF Request
<1>10. CASE Read(c)
  <2>1. CASE AttemptFails(c, "overlength")
    BY <1>3, <1>10, <2>1 DEF Read
  <2>2. CASE ~AttemptFails(c, "overlength")
    BY <1>0, <1>10, <2>2 DEF Read
  <2> QED
    BY <2>1, <2>2
<1>11. CASE Write(c)
  <2>1. CASE AttemptFails(c, "disk")
    BY <1>3, <1>11, <2>1 DEF Write
  <2>2. CASE ~AttemptFails(c, "disk")
    BY <1>0, <1>11, <2>2 DEF Write
  <2> QED
    BY <2>1, <2>2
<1>12. CASE Mark(c)
  <2>1. CASE AttemptFails(c, "disk")
    BY <1>3, <1>12, <2>1 DEF Mark
  <2>2. CASE ~AttemptFails(c, "disk")
    BY <1>0, <1>12, <2>2 DEF Mark
  <2> QED
    BY <2>1, <2>2
<1> QED
  BY <1>1, <1>2, <1>5, <1>6, <1>7, <1>8, <1>9, <1>10, <1>11, <1>12
     DEF Works, Compute, Network

\* A worker with a step to take holds the dispatcher before the end of its wait.
LEMMA WorkerEarly ==
    ASSUME PromiseInv, NEW c \in Workers, Works(c)
    PROVE  ~Ending /\ dpc' = dpc /\ ~Ending'
<1>1. wpc[c] \notin {"idle", "gone"} /\ dpc' = dpc
  BY WorkerStep DEF PromiseInv, PoolInv
<1> QED
  BY <1>1 DEF PromiseInv, QuietInv, Ending

-----------------------------------------------------------------------------
(* Every step preserves the three parts.                                   *)

LEMMA FlusherStep == PromiseInv /\ [Next]_vars => FlusherInv'
<1> SUFFICES ASSUME PromiseInv, [Next]_vars PROVE FlusherInv'
  OBVIOUS
<1>0. FlusherInv /\ QuietInv /\ TypeOK /\ PoolInv
  BY DEF PromiseInv, PoolInv
<1> USE DEF FlusherInv
<1>1. ASSUME UNCHANGED saving PROVE FlusherInv'
  BY <1>0, <1>1 DEF saving
<1>2. ASSUME NEW c \in Workers, Works(c) PROVE FlusherInv'
  BY <1>0, <1>1, <1>2, WorkerStep
<1>3. CASE Cancel
  BY <1>1, <1>3 DEF Cancel
<1>4. CASE FlusherTick
  BY <1>0, <1>4 DEF FlusherTick, Marshal, PoolInv, CursorInv, TypeOK, Savers
<1>5. CASE FlusherSave \/ FlusherExit
  BY <1>5 DEF FlusherSave, FlusherExit
<1>6. CASE SkipComplete \/ DispatchStopped \/ DispatchNext \/ DispatchedAll
           \/ AcquireSlot \/ AcquireStopped \/ BreakOut \/ SpawnWorker \/ WaitWorkers
  BY <1>1, <1>6 DEF SkipComplete, DispatchStopped, DispatchNext, DispatchedAll,
     AcquireSlot, AcquireStopped, BreakOut, SpawnWorker, WaitWorkers
<1>7. CASE WaitFlusher \/ FinalSave
  BY <1>0, <1>7 DEF WaitFlusher, FlusherDone, FinalSave, QuietInv
<1>8. CASE UNCHANGED vars
  BY <1>1, <1>8 DEF vars
<1> QED
  BY <1>2, <1>3, <1>4, <1>5, <1>6, <1>7, <1>8
     DEF Next, Dispatcher, Flusher, Terminated, Works

LEMMA QuietStep == PromiseInv /\ [Next]_vars => QuietInv'
<1> SUFFICES ASSUME PromiseInv, [Next]_vars PROVE QuietInv'
  OBVIOUS
<1>0. QuietInv /\ TypeOK /\ ControlInv
  BY DEF PromiseInv, PoolInv
<1> USE DEF QuietInv, Ending, Returned
<1>1. ASSUME NEW c \in Workers, Works(c) PROVE QuietInv'
  BY <1>1, WorkerEarly
<1>2. CASE Cancel
  BY <1>0, <1>2 DEF Cancel, dispatcher, saving, workers, data
<1>3. CASE FlusherTick \/ FlusherSave \/ FlusherExit
  BY <1>0, <1>3 DEF FlusherTick, FlusherSave, FlusherExit, Marshal, Commit, SaveFails,
     dispatcher, workers, data
<1>4. CASE SkipComplete \/ DispatchStopped \/ DispatchNext \/ DispatchedAll
           \/ AcquireSlot \/ AcquireStopped \/ BreakOut \/ SpawnWorker
  BY <1>4 DEF SkipComplete, DispatchStopped, DispatchNext, DispatchedAll,
     AcquireSlot, AcquireStopped, BreakOut, SpawnWorker
<1>5. CASE WaitWorkers
  BY <1>5 DEF WaitWorkers, WorkersDone, workers
<1>6. CASE WaitFlusher
  BY <1>0, <1>6 DEF WaitFlusher, FlusherDone, Marshal, workers, data, TypeOK, Savers
<1>7. CASE FinalSave
  BY <1>0, <1>7 DEF FinalSave, Commit, SaveFails, workers, data
<1>8. CASE UNCHANGED vars
  BY <1>0, <1>8 DEF vars, dispatcher, saving, workers, data
<1> QED
  BY <1>1, <1>2, <1>3, <1>4, <1>5, <1>6, <1>7, <1>8
     DEF Next, Dispatcher, Flusher, Terminated, Works

LEMMA CauseStep == PromiseInv /\ [Next]_vars => CauseInv'
<1> SUFFICES ASSUME PromiseInv, [Next]_vars PROVE CauseInv'
  OBVIOUS
<1>0. CauseInv /\ QuietInv /\ PoolInv /\ TypeOK /\ ControlInv
  BY DEF PromiseInv, PoolInv
<1> USE DEF CauseInv, CauseReported, Ending, Stopped
<1>1. ASSUME NEW c \in Workers, Works(c) PROVE CauseInv'
  <2>1. /\ dpc' = dpc /\ ~Ending
        /\ \A d \in Workers \ {c} : werr'[d] = werr[d] /\ wpc'[d] = wpc[d]
        /\ werr'[c] = "canceled" => Stopped \/ werr[c] = "canceled"
        /\ wpc'[c] = "failed" => werr'[c] # "none"
        /\ Stopped => Stopped'
    BY <1>0, <1>1, WorkerEarly, WorkerCause, WorkerStep DEF TypeOK
  <2>2. CASE UNCHANGED context
    BY <1>0, <2>1, <2>2 DEF context
  <2>3. CASE Fail(c)
    <3>1. werr[c] # "none" /\ wpc[c] = "failed" /\ Report(werr[c])
      BY <1>0, <2>3 DEF Fail
    <3> QED
      BY <1>0, <2>1, <3>1 DEF Report
  <2> QED
    BY <1>0, <1>1, <2>2, <2>3, WorkerCause
<1>2. CASE Cancel
  BY <1>0, <1>2 DEF Cancel, dispatcher, workers
<1>3. CASE FlusherTick \/ FlusherSave \/ FlusherExit
  BY <1>0, <1>3 DEF FlusherTick, FlusherSave, FlusherExit, context, dispatcher, workers
<1>4. CASE SkipComplete \/ DispatchNext \/ DispatchedAll \/ AcquireSlot \/ BreakOut
  BY <1>0, <1>4 DEF SkipComplete, DispatchNext, DispatchedAll, AcquireSlot, BreakOut,
     context, workers
<1>5. CASE DispatchStopped \/ AcquireStopped
  BY <1>0, <1>5 DEF DispatchStopped, AcquireStopped, Report, workers
<1>6. CASE SpawnWorker
  BY <1>0, <1>6 DEF SpawnWorker, context, TypeOK
<1>7. CASE WaitWorkers \/ WaitFlusher \/ FinalSave
  BY <1>0, <1>7 DEF WaitWorkers, WaitFlusher, FinalSave, context, workers
<1>8. CASE UNCHANGED vars
  BY <1>0, <1>8 DEF vars, context, dispatcher, workers
<1> QED
  BY <1>1, <1>2, <1>3, <1>4, <1>5, <1>6, <1>7, <1>8
     DEF Next, Dispatcher, Flusher, Terminated, Works

LEMMA CompleteStep == PromiseInv /\ [Next]_vars => CompleteInv'
<1> SUFFICES ASSUME PromiseInv, [Next]_vars PROVE CompleteInv'
  OBVIOUS
<1>0. CompleteInv /\ CauseInv /\ PoolInv /\ TypeOK /\ ControlInv
  BY DEF PromiseInv, PoolInv
<1> USE DEF CompleteInv, Ending
<1>1. ASSUME NEW c \in Workers, Works(c) PROVE CompleteInv'
  <2>1. /\ dpc' = dpc /\ next' = next
        /\ wpc[c] \notin {"idle", "gone"} /\ wpc'[c] # "idle"
        /\ wpc' = [wpc EXCEPT ![c] = wpc'[c]]
    BY <1>0, <1>1, WorkerStep
  <2>2. ASSUME NEW d \in Workers \ {c} PROVE wpc'[d] = wpc[d] /\ (Todo(d)' => Todo(d))
    <3>1. done'[d] = done[d]
      BY <1>0, <1>1, DataStep
    <3> QED
      BY <1>0, <2>1, <3>1 DEF Todo, NextByte, TypeOK
  <2>3. firstErr' = "none" => firstErr = "none" /\ ~Fail(c)
    <3>1. CASE Fail(c)
      BY <1>0, <3>1 DEF Fail, Report, CauseInv
    <3>2. CASE UNCHANGED context /\ ~Fail(c)
      BY <3>2 DEF context
    <3> QED
      BY <1>0, <1>1, <3>1, <3>2, WorkerCause
  <2>4. wpc'[c] \in {"release", "gone"} /\ firstErr' = "none" => ~Todo(c)'
    <3> SUFFICES ASSUME wpc'[c] \in {"release", "gone"}, firstErr' = "none" PROVE ~Todo(c)'
      OBVIOUS
    <3>1. ~Todo(c)
      BY <1>0, <1>1, <2>3, WorkerCause
    <3>2. ~Write(c)
      BY <1>0 DEF Write, AttemptFails, TypeOK
    <3>3. done' = done
      BY <1>0, <1>1, <3>2, DataStep
    <3> QED
      BY <3>1, <3>3 DEF Todo, NextByte
  <2>5. canceled' = canceled /\ (firstErr # "none" => firstErr' # "none")
    BY <1>0, <1>1, <2>3, WorkerCause DEF context, Fail, Report
  <2> QED
    BY <1>0, <2>1, <2>2, <2>3, <2>4, <2>5
<1>2. ASSUME UNCHANGED <<wpc, done, next>>, firstErr' = "none" => firstErr = "none",
             canceled => canceled',
             (dpc = "wait" \/ Ending)' => dpc = "wait" \/ Ending
      PROVE  CompleteInv'
  BY <1>0, <1>2 DEF Todo, NextByte
<1>3. CASE Cancel
  BY <1>2, <1>3 DEF Cancel, dispatcher, workers, data
<1>4. CASE FlusherTick \/ FlusherSave \/ FlusherExit
  BY <1>2, <1>4 DEF FlusherTick, FlusherSave, FlusherExit, context, dispatcher, workers, data
<1>5. CASE SkipComplete
  BY <1>0, <1>5 DEF SkipComplete, context, workers, data, TypeOK, Todo, NextByte, Workers
<1>6. CASE DispatchNext \/ AcquireSlot
  BY <1>2, <1>6 DEF DispatchNext, AcquireSlot, context, workers, data
<1>7. CASE DispatchStopped
  BY <1>0, <1>7 DEF DispatchStopped, Report, workers, data, Todo, NextByte
<1>8. CASE DispatchedAll
  BY <1>0, <1>8 DEF DispatchedAll, context, workers, data, Todo, NextByte
<1>9. CASE AcquireStopped
  BY <1>2, <1>9 DEF AcquireStopped, Report, workers, data
<1>10. CASE BreakOut
  BY <1>0, <1>10 DEF BreakOut, context, workers, data, Todo, NextByte, CauseInv, Stopped
<1>11. CASE SpawnWorker
  BY <1>0, <1>11 DEF SpawnWorker, context, data, TypeOK, Todo, NextByte, Workers
<1>12. CASE WaitWorkers \/ WaitFlusher \/ FinalSave
  BY <1>2, <1>12 DEF WaitWorkers, WaitFlusher, FinalSave, context, workers, data
<1>13. CASE UNCHANGED vars
  BY <1>2, <1>13 DEF vars, context, dispatcher, workers, data
<1> QED
  BY <1>1, <1>3, <1>4, <1>5, <1>6, <1>7, <1>8, <1>9, <1>10, <1>11, <1>12, <1>13
     DEF Next, Dispatcher, Flusher, Terminated, Works

LEMMA InitPromise == Init => PromiseInv
<1> SUFFICES ASSUME Init PROVE PromiseInv
  OBVIOUS
<1>1. FlusherInv /\ QuietInv /\ CauseInv
  BY DEF Init, FlusherInv, QuietInv, CauseInv, CauseReported, Ending, Returned
<1>2. \A c \in Workers : ~(c < 1)
  BY DEF Workers
<1>3. CompleteInv
  BY <1>2 DEF Init, CompleteInv, Ending
<1> QED
  BY <1>1, <1>3, InitPool DEF PromiseInv

LEMMA PromiseInvariant == Spec => []PromiseInv
<1>1. PromiseInv /\ [Next]_vars => PromiseInv'
  BY StepPool, FlusherStep, QuietStep, CauseStep, CompleteStep DEF PromiseInv
<1> QED
  BY <1>1, InitPromise, PTL DEF Spec

-----------------------------------------------------------------------------
(* At the return.                                                          *)

\* Once the workers are gone, State counts every byte of the file.
LEMMA StateIsDone == PromiseInv /\ Ending => state = done
<1> SUFFICES ASSUME PromiseInv, Ending PROVE state = done
  OBVIOUS
<1>1. state \in [Workers -> Nat] /\ done \in [Workers -> Nat]
  BY CursorsAre DEF PromiseInv, PoolInv, TypeOK
<1>2. \A c \in Workers : state[c] + 0 = done[c]
  BY DEF PromiseInv, PoolInv, QuietInv, CursorInv, Unmarked
<1>3. \A c \in Workers : state[c] = done[c]
  BY <1>1, <1>2
<1> QED
  BY <1>1, <1>3

\* An interrupt forgets nothing: unless a Save fails, the sidecar left by
\* runSegmented holds every byte of the file.
THEOREM PoolNothingForgotten == Spec => []NothingForgotten
<1>1. PromiseInv => NothingForgotten
  BY StateIsDone DEF PromiseInv, QuietInv, NothingForgotten, Ending, Returned
<1> QED
  BY <1>1, PromiseInvariant, PTL

\* "context canceled" is returned only when the caller cancelled, although one
\* failing worker cancels all the others.
THEOREM PoolCauseReported == Spec => []CauseReported
<1>1. PromiseInv => CauseReported
  BY DEF PromiseInv, CauseInv
<1> QED
  BY <1>1, PromiseInvariant, PTL

\* Without a cancel a nil return means that every chunk is complete.
THEOREM PoolNilMeansComplete == Spec => []NilMeansComplete
<1>1. PromiseInv => NilMeansComplete
  <2> SUFFICES ASSUME PromiseInv, Returned, firstErr = "none", ~canceled, NEW c \in Workers
               PROVE  done[c] = Length[c]
    BY DEF NilMeansComplete, Complete
  <2>1. c < next
    BY PlanFacts DEF PromiseInv, CompleteInv, PoolInv, TypeOK, Ending, Returned, Workers
  <2>2. wpc[c] \in {"idle", "gone"}
    BY DEF PromiseInv, QuietInv, Ending, Returned
  <2>3. ~Todo(c)
    BY <2>1, <2>2 DEF PromiseInv, CompleteInv
  <2>4. done[c] \in Nat /\ done[c] <= Length[c]
    BY CursorsAre DEF PromiseInv, PoolInv, TypeOK
  <2> QED
    BY <2>3, <2>4, PlanFacts DEF Todo, NextByte
<1> QED
  BY <1>1, PromiseInvariant, PTL

\* After the return no goroutine is left to write the file or the sidecar.
THEOREM PoolQuietAfterReturn == Spec => QuietAfterReturn
<1>1. PromiseInv /\ [Next]_vars => [Returned => UNCHANGED <<saving, workers, data>>]_vars
  <2> SUFFICES ASSUME PromiseInv, [Next]_vars, Returned PROVE UNCHANGED <<saving, workers, data>>
    OBVIOUS
  <2>1. dpc = "returned" /\ fpc = "exited"
    BY DEF PromiseInv, QuietInv, Returned
  <2>2. ASSUME NEW c \in Workers PROVE ~Works(c)
    BY <2>1, <2>2, WorkerEarly DEF Ending
  <2>3. ~Dispatcher /\ ~Flusher /\ ~Cancel
    BY <2>1 DEF Dispatcher, SkipComplete, DispatchStopped, DispatchNext, DispatchedAll,
       AcquireSlot, AcquireStopped, BreakOut, SpawnWorker, WaitWorkers, WaitFlusher,
       FinalSave, Flusher, FlusherTick, FlusherSave, FlusherExit, Cancel
  <2>4. UNCHANGED vars
    BY <2>2, <2>3 DEF Next, Terminated, Works
  <2> QED
    BY <2>4 DEF vars
<1> QED
  BY <1>1, PromiseInvariant, PTL DEF Spec, QuietAfterReturn

-----------------------------------------------------------------------------
(* The steps of SegmentedPool are steps of Transfer.                       *)

\* The mapped state is one of Transfer's.
LEMMA MappedTypes ==
    ASSUME PromiseInv
    PROVE  /\ Promise!Cursors = Cursors
           /\ done \in Cursors /\ sidecar \in Cursors /\ state \in Cursors
           /\ \A s \in Savers : snapshot[s] \in Cursors
           /\ \A c \in Workers : done[c] \in Nat /\ Length[c] \in Nat
<1>1. Promise!Cursors = Cursors
  BY DEF Promise!Cursors, Promise!Counts, Cursors, Counts
<1>2. /\ done \in Cursors /\ sidecar \in Cursors /\ state \in Cursors
      /\ \A s \in Savers : snapshot[s] \in Cursors
  BY DEF PromiseInv, PoolInv, TypeOK
<1>3. \A c \in Workers : done[c] \in Nat /\ Length[c] \in Nat
  BY <1>2, CursorsAre, PlanFacts
<1> QED
  BY <1>1, <1>2, <1>3

\* What is durable may be made durable again, and so may what a saver is
\* writing.
LEMMA MaySave ==
    ASSUME PromiseInv
    PROVE  /\ Promise!CanSave(sidecar)
           /\ fpc = "saving" => Promise!CanSave(snapshot["flusher"])
           /\ dpc = "saving" => Promise!CanSave(snapshot["dispatcher"])
<1>1. \A c \in Workers :
         /\ sidecar[c] \in Nat /\ state[c] \in Nat /\ done[c] \in Nat /\ conn[c].n \in Nat
         /\ \A s \in Savers : snapshot[s][c] \in Nat
  BY MappedTypes, CursorsAre DEF PromiseInv, PoolInv, TypeOK
<1>2. \A c \in Workers :
         /\ sidecar[c] <= state[c] /\ state[c] <= done[c]
         /\ \A s \in Savers : snapshot[s][c] <= state[c]
  BY <1>1 DEF PromiseInv, PoolInv, CursorInv, Unmarked
<1>3. \A c \in Workers :
         /\ sidecar[c] <= done[c] /\ sidecar[c] <= sidecar[c]
         /\ \A s \in Savers : snapshot[s][c] <= done[c]
  BY <1>1, <1>2
<1>4. fpc = "saving" => Promise!CanSave(snapshot["flusher"])
  BY <1>3, MappedTypes DEF Promise!CanSave, Savers, PromiseInv, FlusherInv
<1>5. dpc = "saving" => snapshot["dispatcher"] = state
  BY DEF PromiseInv, QuietInv
<1> QED
  BY <1>2, <1>3, <1>4, <1>5, MappedTypes DEF Promise!CanSave, Savers

\* A write delivers bytes to its chunk, or nothing.
LEMMA WriteReceives ==
    ASSUME PromiseInv, NEW c \in Workers, Write(c), PromiseInv'
    PROVE  Promise!Receive(c) \/ UNCHANGED Promise!vars
<1>0. /\ c \in Workers /\ done \in [Workers -> Nat] /\ Length[c] \in Nat
      /\ done' \in [Workers -> Nat] /\ done'[c] <= Length[c] /\ conn[c].n \in Nat
  BY MappedTypes, CursorsAre, PlanFacts DEF PromiseInv, PoolInv, TypeOK
<1>1. Outcome = "running" /\ Outcome' = "running" /\ sidecar' = sidecar
  BY WorkerEarly, WorkerStep
     DEF Works, Compute, Outcome, Returned, Ending, PromiseInv, PoolInv, saving
<1>2. PICK n \in 0 .. conn[c].n : done' = [done EXCEPT ![c] = @ + n]
  BY DEF Write
<1>3. CASE n = 0
  <2>1. done' = done
    BY <1>0, <1>2, <1>3
  <2> QED
    BY <1>1, <2>1 DEF Promise!vars
<1>4. CASE n # 0
  <2>1. n \in 1 .. Length[c] - done[c]
    BY <1>0, <1>2, <1>4
  <2> QED
    BY <1>1, <1>2, <2>1 DEF Promise!Receive
<1> QED
  BY <1>3, <1>4

LEMMA StepPromise == PromiseInv /\ PromiseInv' /\ [Next]_vars => [Promise!Next]_(Promise!vars)
<1> SUFFICES ASSUME PromiseInv, PromiseInv', [Next]_vars
             PROVE  Promise!Next \/ UNCHANGED Promise!vars
  OBVIOUS
<1> USE DEF Outcome, Returned
<1>1. ASSUME NEW c \in Workers, Works(c) PROVE Promise!Next \/ UNCHANGED Promise!vars
  <2>1. CASE Write(c)
    BY <2>1, WriteReceives DEF Promise!Next
  <2>2. CASE ~Write(c)
    <3>1. done' = done
      BY <1>1, <2>2, DataStep DEF PromiseInv, PoolInv
    <3>2. sidecar' = sidecar /\ dpc # "returned" /\ dpc' # "returned"
      BY <1>1, WorkerEarly, WorkerStep DEF PromiseInv, PoolInv, saving, Ending
    <3> QED
      BY <3>1, <3>2 DEF Promise!vars
  <2> QED
    BY <2>1, <2>2
<1>2. ASSUME UNCHANGED <<done, sidecar>>, dpc # "returned", dpc' # "returned"
      PROVE  UNCHANGED Promise!vars
  BY <1>2 DEF Promise!vars
<1>3. CASE Cancel
  BY <1>2, <1>3 DEF Cancel, dispatcher, saving, data
<1>4. CASE FlusherTick \/ FlusherExit
  <2>1. UNCHANGED <<done, sidecar, dpc, firstErr>>
    BY <1>4 DEF FlusherTick, FlusherExit, Marshal, context, dispatcher, data
  <2> QED
    BY <2>1 DEF Promise!vars
<1>5. CASE FlusherSave
  <2>1. UNCHANGED <<done, dpc, firstErr>>
    BY <1>5 DEF FlusherSave, context, dispatcher, data
  <2>2. CASE sidecar' = sidecar
    BY <2>1, <2>2 DEF Promise!vars
  <2>3. CASE sidecar' = snapshot["flusher"]
    <3>1. Promise!CanSave(sidecar') /\ dpc # "returned"
      BY <1>5, <2>3, MaySave DEF FlusherSave, PromiseInv, QuietInv
    <3> QED
      BY <2>1, <3>1 DEF Promise!Next, Promise!Save
  <2> QED
    BY <1>5, <2>2, <2>3 DEF FlusherSave, Commit, SaveFails
<1>6. CASE SkipComplete \/ DispatchStopped \/ DispatchNext \/ DispatchedAll
           \/ AcquireSlot \/ AcquireStopped \/ BreakOut \/ SpawnWorker
  BY <1>2, <1>6 DEF SkipComplete, DispatchStopped, DispatchNext, DispatchedAll,
     AcquireSlot, AcquireStopped, BreakOut, SpawnWorker, saving, data
<1>7. CASE WaitWorkers \/ WaitFlusher
  BY <1>2, <1>7 DEF WaitWorkers, WaitFlusher, Marshal, saving, data
<1>8. CASE FinalSave
  <2>1. /\ dpc = "saving" /\ dpc' = "returned" /\ done' = done
        /\ snapshot["dispatcher"] = done
    BY <1>8, StateIsDone DEF FinalSave, data, PromiseInv, QuietInv, Ending
  <2>2. Promise!CanSave(sidecar')
    BY <1>8, <2>1, MaySave DEF FinalSave, Commit, SaveFails
  <2>3. firstErr' = "none" => sidecar' = done
    BY <1>8, <2>1 DEF FinalSave, Commit, SaveFails
  <2> QED
    BY <2>1, <2>2, <2>3 DEF Promise!Next, Promise!Finish
<1>9. CASE UNCHANGED vars
  BY <1>9 DEF vars, Promise!vars, context, dispatcher, saving, data
<1> QED
  BY <1>1, <1>3, <1>4, <1>5, <1>6, <1>7, <1>8, <1>9
     DEF Next, Dispatcher, Flusher, Terminated, Works

\* The transfer with its goroutines does what Transfer promises: bytes received
\* are kept, the sidecar only advances and never claims more, and an ok return
\* leaves both equal for good.
THEOREM PoolKeepsPromise == Spec => KeepsPromise
<1>1. Init => Promise!Init
  <2> SUFFICES ASSUME Init PROVE Promise!Init
    OBVIOUS
  <2>1. done \in Promise!Cursors
    BY InitPromise, MappedTypes
  <2> QED
    BY <2>1 DEF Init, Promise!Init, Outcome, Returned
<1> QED
  BY <1>1, StepPromise, PromiseInvariant, PTL DEF Spec, KeepsPromise, Promise!Spec

=============================================================================
