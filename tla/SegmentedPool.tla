--------------------------- MODULE SegmentedPool ---------------------------
(***************************************************************************)
(* One segmented transfer: runSegmented (src/download/pool.go) with the    *)
(* goroutines it runs.                                                     *)
(*   - the dispatcher, the body of runSegmented itself: hands chunks to    *)
(*     workers through a counting semaphore, waits for them, waits for the *)
(*     flusher, saves the sidecar a last time and returns;                 *)
(*   - one worker per chunk: retry (retry.go) around fetchChunk (chunk.go);*)
(*   - the flusher: saves the sidecar at every tick of its timer.          *)
(* They share the context, firstErr, the semaphore, State (under its       *)
(* mutex) and the destination file.                                        *)
(*                                                                         *)
(* A byte is named by its offset in the remote file.  The network, the     *)
(* disk, the caller's cancel and the timers are nondeterministic; which    *)
(* of their failures may happen is the constant Faults.                    *)
(***************************************************************************)
EXTENDS Integers, Sequences, FiniteSets

CONSTANTS
    Plan,          \* the chunks: a sequence of [start, end]
    Concurrency,   \* slots of the semaphore, after the clamp to >= 1
    MaxRetries,    \* retries after a first attempt
    MaxRead,       \* largest number of bytes one Read returns
    Limited,       \* is there a rate limiter?
    Faults,        \* the failures that may happen
    SaveMayFail    \* may State.Save fail?

\* Failures of one attempt, as isRetryable tells them apart.
Kinds == {"timeout",      \* http.Client.Timeout elapsed
          "net",          \* any other transport error
          "transient",    \* a non-206 answer with status 429 or 5xx
          "permanent",    \* any other non-206 answer
          "overlength",   \* more bytes than the requested range
          "short",        \* a clean EOF before the end of the range
          "disk"}         \* WriteAt failed
Errors == Kinds \cup {"none", "canceled", "save"}

Workers == 1 .. Len(Plan)
Bytes(c) == Plan[c].start .. Plan[c].end
Length == [c \in Workers |-> Plan[c].end - Plan[c].start + 1]
Offsets == UNION {Bytes(c) : c \in Workers}
Hole == -1   \* a byte of the pre-allocated file nobody wrote

ASSUME PoolConstants ==
    /\ Plan \in Seq([start : Nat, end : Nat])
    /\ \A c \in Workers : Plan[c].start <= Plan[c].end
    /\ \A c, d \in Workers : c # d => Bytes(c) \cap Bytes(d) = {}
    /\ Concurrency \in Nat \ {0}
    /\ MaxRetries \in Nat
    /\ MaxRead \in Nat \ {0}
    /\ Limited \in BOOLEAN /\ SaveMayFail \in BOOLEAN
    /\ Faults \subseteq Kinds

VARIABLES
    canceled,   \* the caller's context is cancelled
    torn,       \* cancel() of the derived context was called
    firstErr,   \* what runSegmented will return
    dpc, next,  \* the dispatcher: where it is, the next chunk it looks at
    slots,      \* tokens in the semaphore
    fpc,        \* the flusher: where it is
    snapshot,   \* the State marshalled by the Save in progress, per saver
    wpc,        \* the workers: where each one is
    attempt,    \*   attempts made so far
    werr,       \*   the error of its last failed attempt
    conn,       \*   its response: next byte, bytes owed, bytes in the buffer
    done,       \* chunk.done: bytes of the chunk written
    state,      \* State.Chunks[i].Done, under State.mu
    sidecar,    \* the cursors in the sidecar file
    part        \* the destination file: which remote byte is at each offset

context == <<canceled, torn, firstErr>>
dispatcher == <<dpc, next, slots>>
saving == <<fpc, snapshot, sidecar>>
workers == <<wpc, attempt, werr, conn>>
data == <<done, state, part>>
vars == <<context, dispatcher, saving, workers, data>>

NoConn == [pos |-> 0, want |-> 0, n |-> 0]
Savers == {"flusher", "dispatcher"}

\* ctx.Err() # nil in the derived context
Stopped == canceled \/ torn

-----------------------------------------------------------------------------
\* Initially: a fresh plan, or one resumed at any cursors; the bytes below the
\* cursors are in the file.  (An absent sidecar claims no byte, as one whose
\* cursors are all 0.)

Counts == UNION {0 .. Length[c] : c \in Workers}
Cursors == {f \in [Workers -> Counts] : \A c \in Workers : f[c] <= Length[c]}

\* The file when exactly the bytes below the cursors have been written.
Prefix(cursors) ==
    [o \in Offsets |->
        IF \E c \in Workers : o \in Bytes(c) /\ o < Plan[c].start + cursors[c]
        THEN o ELSE Hole]

Init ==
    /\ canceled = FALSE /\ torn = FALSE /\ firstErr = "none"
    /\ dpc = "dispatch" /\ next = 1 /\ slots = 0
    /\ fpc = "select"
    /\ wpc = [c \in Workers |-> "idle"]
    /\ attempt = [c \in Workers |-> 0]
    /\ werr = [c \in Workers |-> "none"]
    /\ conn = [c \in Workers |-> NoConn]
    /\ done \in Cursors
    /\ state = done /\ sidecar = done
    /\ snapshot = [s \in Savers |-> done]
    /\ part = Prefix(done)

-----------------------------------------------------------------------------
\* The context and the first error.

\* The caller cancels (Ctrl-C, a deadline of its own).
Cancel ==
    /\ ~canceled /\ dpc # "returned"
    /\ canceled' = TRUE
    /\ UNCHANGED <<torn, firstErr, dispatcher, saving, workers, data>>

\* fail(err): the first error is kept, and tears the group down.
Report_Last(e) == firstErr' = e /\ torn' = TRUE /\ UNCHANGED canceled
Report(e) ==
    /\ firstErr' = IF firstErr = "none" THEN e ELSE firstErr
    /\ torn' = TRUE
    /\ UNCHANGED canceled

\* chunk.remaining
NextByte(c) == Plan[c].start + done[c]
Todo_OffByOne(c) == NextByte(c) < Plan[c].end
Todo(c) == NextByte(c) <= Plan[c].end

-----------------------------------------------------------------------------
\* State.Save: marshal under the mutex, then write a temporary file and rename
\* it over the sidecar.  The rename is where the sidecar changes; a failure of
\* any step leaves it as it was.

Marshal(s) ==
    /\ snapshot' = [snapshot EXCEPT ![s] = state]
    /\ UNCHANGED sidecar

Commit(s) ==
    /\ sidecar' = snapshot[s]
    /\ UNCHANGED snapshot

SaveFails == SaveMayFail /\ UNCHANGED <<snapshot, sidecar>>

\* The flusher: a tick and ctx.Done may both be ready, select takes either.
FlusherTick ==
    /\ fpc = "select"
    /\ fpc' = "saving"
    /\ Marshal("flusher")
    /\ UNCHANGED <<context, dispatcher, workers, data>>

\* The error of a periodic save is dropped.
FlusherSave ==
    /\ fpc = "saving"
    /\ fpc' = "select"
    /\ Commit("flusher") \/ SaveFails
    /\ UNCHANGED <<context, dispatcher, workers, data>>

FlusherExit ==
    /\ fpc = "select" /\ Stopped
    /\ fpc' = "exited"
    /\ UNCHANGED <<context, dispatcher, snapshot, sidecar, workers, data>>

-----------------------------------------------------------------------------
\* The dispatcher.

SkipComplete ==
    /\ dpc = "dispatch" /\ next \in Workers /\ ~Todo(next)
    /\ next' = next + 1
    /\ UNCHANGED <<context, dpc, slots, saving, workers, data>>

DispatchStopped ==
    /\ dpc = "dispatch" /\ next \in Workers /\ Todo(next) /\ Stopped
    /\ Report("canceled")
    /\ dpc' = "wait"
    /\ UNCHANGED <<next, slots, saving, workers, data>>

DispatchNext ==
    /\ dpc = "dispatch" /\ next \in Workers /\ Todo(next) /\ ~Stopped
    /\ dpc' = "acquire"
    /\ UNCHANGED <<context, next, slots, saving, workers, data>>

DispatchedAll ==
    /\ dpc = "dispatch" /\ next \notin Workers
    /\ dpc' = "wait"
    /\ UNCHANGED <<context, next, slots, saving, workers, data>>

\* select between a free slot and ctx.Done: either when both are ready.
SlotFree_OneMore == slots <= Concurrency
SlotFree == slots < Concurrency

AcquireSlot ==
    /\ dpc = "acquire" /\ SlotFree
    /\ slots' = slots + 1
    /\ dpc' = "check"
    /\ UNCHANGED <<context, next, saving, workers, data>>

AcquireStopped ==
    /\ dpc = "acquire" /\ Stopped
    /\ Report("canceled")
    /\ dpc' = "check"
    /\ UNCHANGED <<next, slots, saving, workers, data>>

\* The check after the select: leave the loop, without an error of its own, ...
BreakOut ==
    /\ dpc = "check" /\ Stopped
    /\ dpc' = "wait"
    /\ UNCHANGED <<context, next, slots, saving, workers, data>>

\* ... or start the chunk's worker.
SpawnWorker ==
    /\ dpc = "check" /\ ~Stopped
    /\ wpc' = [wpc EXCEPT ![next] = "retry"]
    /\ next' = next + 1
    /\ dpc' = "dispatch"
    /\ UNCHANGED <<context, slots, saving, attempt, werr, conn, data>>

\* wg.Wait, then cancel().
WorkersDone_NoWait == TRUE
WorkersDone == \A c \in Workers : wpc[c] \in {"idle", "gone"}

WaitWorkers ==
    /\ dpc = "wait" /\ WorkersDone
    /\ torn' = TRUE
    /\ dpc' = "flushwait"
    /\ UNCHANGED <<canceled, firstErr, next, slots, saving, workers, data>>

FlusherDone_NoWait == TRUE
FlusherDone == fpc = "exited"

\* flushWG.Wait, then the final Save.
WaitFlusher ==
    /\ dpc = "flushwait" /\ FlusherDone
    /\ dpc' = "saving"
    /\ Marshal("dispatcher")
    /\ UNCHANGED <<context, next, slots, fpc, workers, data>>

FinalSave ==
    /\ dpc = "saving"
    /\ dpc' = "returned"
    /\ \/ Commit("dispatcher") /\ UNCHANGED firstErr
       \/ /\ SaveFails
          /\ firstErr' = IF firstErr = "none" THEN "save" ELSE firstErr
    /\ UNCHANGED <<canceled, torn, next, slots, fpc, workers, data>>

-----------------------------------------------------------------------------
\* A worker: retry(fetchChunk).

\* isRetryable: a client timeout is a context.DeadlineExceeded and so fatal; a
\* failed WriteAt is a *fs.PathError, which no case names, and so retried.
Retryable(e) == e \in {"net", "transient", "short", "disk"}

MayRetry_OneMore(c, e) == Retryable(e) /\ attempt[c] <= MaxRetries
MayRetry(c, e) == Retryable(e) /\ attempt[c] < MaxRetries

\* fetchChunk returned e: sleep before another attempt, or give up.
AttemptFails(c, e) ==
    /\ werr' = [werr EXCEPT ![c] = e]
    /\ conn' = [conn EXCEPT ![c] = NoConn]
    /\ wpc' = [wpc EXCEPT ![c] = IF MayRetry(c, e) THEN "backoff" ELSE "failed"]
    /\ UNCHANGED attempt

\* fetchChunk returned nil.
AttemptSucceeds(c) ==
    /\ wpc' = [wpc EXCEPT ![c] = "release"]
    /\ conn' = [conn EXCEPT ![c] = NoConn]
    /\ UNCHANGED <<attempt, werr>>

\* The check of ctx before each attempt.
StartAttempt(c) ==
    /\ wpc[c] = "retry" /\ ~Stopped
    /\ wpc' = [wpc EXCEPT ![c] = "request"]
    /\ werr' = [werr EXCEPT ![c] = "none"]
    /\ UNCHANGED <<context, dispatcher, saving, attempt, conn, data>>

\* The context ends the retry loop, at that check or during the sleep.
RetryStopped(c) ==
    /\ wpc[c] \in {"retry", "backoff"} /\ Stopped
    /\ wpc' = [wpc EXCEPT ![c] = "failed"]
    /\ werr' = [werr EXCEPT ![c] = "canceled"]
    /\ UNCHANGED <<context, dispatcher, saving, attempt, conn, data>>

\* A 206 for the requested range: from the cursor to the end of the chunk.
Response_FromStart(c) == [pos |-> Plan[c].start, want |-> Plan[c].end - NextByte(c) + 1, n |-> 0]
Response(c) == [pos |-> NextByte(c), want |-> Plan[c].end - NextByte(c) + 1, n |-> 0]

Request(c) ==
    /\ wpc[c] = "request" /\ Todo(c)
    /\ wpc' = [wpc EXCEPT ![c] = "read"]
    /\ conn' = [conn EXCEPT ![c] = Response(c)]
    /\ UNCHANGED <<context, dispatcher, saving, attempt, werr, data>>

\* The chunk was complete when the last attempt failed.
NothingLeft(c) ==
    /\ wpc[c] = "request" /\ ~Todo(c)
    /\ AttemptSucceeds(c)
    /\ UNCHANGED <<context, dispatcher, saving, data>>

RequestFails(c) ==
    /\ wpc[c] = "request" /\ Todo(c)
    /\ \E e \in Faults \cap {"timeout", "net", "transient", "permanent"} : AttemptFails(c, e)
    /\ UNCHANGED <<context, dispatcher, saving, data>>

\* A request or a read in flight when the context ends, or the wait for the
\* rate limiter, returns ctx.Err().
Interruptible_NoContext(c) == wpc[c] = "write" /\ Limited
Interruptible(c) ==
    \/ wpc[c] = "request" /\ Todo(c)
    \/ wpc[c] = "read"
    \/ wpc[c] = "write" /\ Limited

Abort(c) ==
    /\ Stopped /\ Interruptible(c)
    /\ AttemptFails(c, "canceled")
    /\ UNCHANGED <<context, dispatcher, saving, data>>

\* Read returns n bytes; more than the range still owes is a protocol error.
Read(c) ==
    /\ wpc[c] = "read"
    /\ \E n \in 1 .. MaxRead :
          \/ /\ n <= conn[c].want
             /\ wpc' = [wpc EXCEPT ![c] = "write"]
             /\ conn' = [conn EXCEPT ![c].n = n]
             /\ UNCHANGED <<attempt, werr>>
          \/ /\ n > conn[c].want /\ "overlength" \in Faults
             /\ AttemptFails(c, "overlength")
    /\ UNCHANGED <<context, dispatcher, saving, data>>

ReadEnds(c) ==
    /\ wpc[c] = "read"
    /\ \/ conn[c].want = 0 /\ AttemptSucceeds(c)
       \/ conn[c].want > 0 /\ "short" \in Faults /\ AttemptFails(c, "short")
       \/ \E e \in Faults \cap {"timeout", "net"} : AttemptFails(c, e)
    /\ UNCHANGED <<context, dispatcher, saving, data>>

\* The bytes the part file holds after n bytes of the response are written at
\* the chunk's cursor.
Written(c, n) ==
    [o \in Offsets |->
        IF o \in NextByte(c) .. NextByte(c) + n - 1
        THEN conn[c].pos + (o - NextByte(c)) ELSE part[o]]

\* What onBytes is told when WriteAt wrote n bytes of the buffer.
Counted_Buffer(c, n) == conn[c].n
Counted(c, n) == n

\* WriteAt writes the whole buffer, or fails after a part of it.
Write(c) ==
    /\ wpc[c] = "write"
    /\ \E n \in 0 .. conn[c].n :
          LET failed == n < conn[c].n
          IN  /\ failed => "disk" \in Faults
              /\ part' = Written(c, n)
              /\ done' = [done EXCEPT ![c] = @ + n]
              /\ \/ /\ n > 0
                    /\ wpc' = [wpc EXCEPT ![c] = "mark"]
                    /\ conn' = [conn EXCEPT ![c] =
                          [pos |-> @.pos + n, want |-> @.want - n, n |-> Counted(c, n)]]
                    /\ werr' = [werr EXCEPT ![c] = IF failed THEN "disk" ELSE @]
                    /\ UNCHANGED attempt
                 \/ n = 0 /\ AttemptFails(c, "disk")
    /\ UNCHANGED <<context, dispatcher, saving, state>>

\* onBytes: State.MarkProgress, under the mutex, after the bytes are written.
Mark(c) ==
    /\ wpc[c] = "mark"
    /\ state' = [state EXCEPT ![c] = @ + conn[c].n]
    /\ \/ werr[c] = "disk" /\ AttemptFails(c, "disk")
       \/ /\ werr[c] # "disk"
          /\ wpc' = [wpc EXCEPT ![c] = "read"]
          /\ conn' = [conn EXCEPT ![c].n = 0]
          /\ UNCHANGED <<attempt, werr>>
    /\ UNCHANGED <<context, dispatcher, saving, done, part>>

\* The timer ends the sleep before the next attempt.
NextAttempt_Forgets(c) == attempt[c]
NextAttempt(c) == attempt[c] + 1

BackoffOver(c) ==
    /\ wpc[c] = "backoff"
    /\ wpc' = [wpc EXCEPT ![c] = "retry"]
    /\ attempt' = [attempt EXCEPT ![c] = NextAttempt(c)]
    /\ UNCHANGED <<context, dispatcher, saving, werr, conn, data>>

Fail(c) ==
    /\ wpc[c] = "failed"
    /\ Report(werr[c])
    /\ wpc' = [wpc EXCEPT ![c] = "release"]
    /\ UNCHANGED <<dispatcher, saving, attempt, werr, conn, data>>

\* The deferred <-sem and wg.Done.
Release(c) ==
    /\ wpc[c] = "release"
    /\ slots' = slots - 1
    /\ wpc' = [wpc EXCEPT ![c] = "gone"]
    /\ UNCHANGED <<context, dpc, next, saving, attempt, werr, conn, data>>

-----------------------------------------------------------------------------

Dispatcher ==
    \/ SkipComplete \/ DispatchStopped \/ DispatchNext \/ DispatchedAll
    \/ AcquireSlot \/ AcquireStopped \/ BreakOut \/ SpawnWorker
    \/ WaitWorkers \/ WaitFlusher \/ FinalSave

Flusher == FlusherTick \/ FlusherSave \/ FlusherExit

\* What a worker does on its own, and what it waits for the server to do.
Compute(c) ==
    \/ StartAttempt(c) \/ RetryStopped(c) \/ NothingLeft(c) \/ Write(c) \/ Mark(c)
    \/ BackoffOver(c) \/ Fail(c) \/ Release(c)

Network(c) == Request(c) \/ RequestFails(c) \/ Read(c) \/ ReadEnds(c)

\* runSegmented has returned.
Terminated == dpc = "returned" /\ UNCHANGED vars

Next ==
    \/ Cancel \/ Dispatcher \/ Flusher \/ Terminated
    \/ \E c \in Workers : Compute(c) \/ Network(c) \/ Abort(c)

\* Goroutines are scheduled; net/http and the limiter give up when the context
\* ends; and a flusher that always finds the context ended does not take the
\* tick of a timer that fires once a second for ever.
Fairness ==
    /\ WF_vars(Dispatcher)
    /\ WF_vars(FlusherSave) /\ SF_vars(FlusherExit)
    /\ \A c \in Workers : WF_vars(Compute(c)) /\ WF_vars(Abort(c))

\* A server that answers every request and every read, if only by failing.
Responsive == \A c \in Workers : WF_vars(Network(c))

Spec == Init /\ [][Next]_vars /\ Fairness

-----------------------------------------------------------------------------

PCs == {"idle", "retry", "request", "read", "write", "mark", "backoff",
        "failed", "release", "gone"}

TypeOK ==
    /\ canceled \in BOOLEAN /\ torn \in BOOLEAN /\ firstErr \in Errors
    /\ dpc \in {"dispatch", "acquire", "check", "wait", "flushwait", "saving", "returned"}
    /\ next \in 1 .. Len(Plan) + 1
    /\ slots \in 0 .. Concurrency
    /\ fpc \in {"select", "saving", "exited"}
    /\ snapshot \in [Savers -> Cursors]
    /\ wpc \in [Workers -> PCs]
    /\ attempt \in [Workers -> 0 .. MaxRetries]
    /\ werr \in [Workers -> Errors \ {"save"}]
    /\ conn \in [Workers -> [pos : Nat, want : Nat, n : Nat]]
    /\ done \in Cursors /\ state \in Cursors /\ sidecar \in Cursors
    /\ part \in [Offsets -> Offsets \cup {Hole}]

Returned == dpc = "returned"
Complete == \A c \in Workers : done[c] = Length[c]

\* "bounded concurrency" (pool.go:17): no more workers are alive than the
\* semaphore has slots, although chunks outnumber them and a worker gives its
\* slot back while the dispatcher is waiting for one.
Bounded ==
    Cardinality({c \in Workers : wpc[c] \notin {"idle", "gone"}}) <= Concurrency

\* The file holds, at every offset, the remote byte of that offset or a hole:
\* no retry, partial write or over-long answer ever puts a byte elsewhere.
BytesInPlace == \A o \in Offsets : part[o] \in {o, Hole}

\* Every byte the sidecar, State or a Save under way counts as done is in the
\* file (fetchChunk marks after it writes, Save marshals under the mutex).
Backed(cursors) ==
    \A c \in Workers : \A o \in Bytes(c) :
        o < Plan[c].start + cursors[c] => part[o] = o
CursorsBacked ==
    /\ Backed(sidecar) /\ Backed(state)
    /\ \A s \in Savers : Backed(snapshot[s])

\* When runSegmented returns and its Saves did not fail, the sidecar holds
\* exactly the bytes of the file: an interrupt forgets nothing ("flushing ...
\* once on exit", pool.go:18).
NothingForgotten == Returned /\ ~SaveMayFail => sidecar = done /\ state = done

\* The error returned is the cause: "context canceled" only when the caller
\* cancelled, although a failing worker cancels all the others.
CauseReported == firstErr = "canceled" => canceled

\* Without a cancel, a nil return means that every chunk is complete.
NilMeansComplete == Returned /\ firstErr = "none" /\ ~canceled => Complete

\* After the return no goroutine is left that could write the file or the
\* sidecar, which the caller is about to verify, rename and remove.
QuietAfterReturn == [][Returned => UNCHANGED <<saving, workers, data>>]_vars

\* A cancel, or the first fatal error, ends the transfer, whatever the server
\* does ("tears down all in-flight workers promptly", pool.go:27).
StopReturns == (canceled \/ firstErr # "none") ~> Returned

\* Against a server that answers, the transfer always ends: no worker retries
\* for ever, nobody waits for a slot, a worker or the flusher for ever.
Returns == Responsive => <>Returned

\* pool.go:17 "downloads all not-yet-complete chunks": nil means complete.
\* The code breaks this when a cancel falls between AcquireSlot and the check.
NilAlwaysComplete == Returned /\ firstErr = "none" => Complete

\* The promise of Transfer: what was written, what is durable, and the return.
Outcome == IF ~Returned THEN "running" ELSE IF firstErr = "none" THEN "ok" ELSE "error"

Promise == INSTANCE Transfer WITH
    Chunks <- Workers, Length <- Length,
    got <- done, saved <- sidecar, outcome <- Outcome
KeepsPromise == Promise!Spec

=============================================================================
