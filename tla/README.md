# A TLA+ model of durable-resume

durable-resume (`dr`) downloads a file over HTTP in parallel byte ranges, keeps
the progress of every range in a JSON *sidecar* beside the `.part` file, and
resumes from it after an interrupt, a failure or a crash. Its promise is stated
in `src/README.md:80-82`: the final path is absent or a complete file, and a
resume never produces a mixed one. Around that core are a rate limiter shared by
all workers, failover to mirrors, a mode that streams to a pipe, credentials that
are scoped to hosts, and a batch mode with machine-readable records. The modules
of this directory model the code that has to keep these promises. They are
model-checked with TLC on small instances. Every invariant and action property
of the passing runs is also proved with TLAPS for every value of the constants, some
under hypotheses that section 5 names; what is about liveness is left to TLC.

Line numbers of Go files below are relative to `src/download/`, except for
`root.go` and `rate.go`, which are in `src/cmd/`.

## 1. Inventory

| Component | Code | State | Operations | Modelled in |
|---|---|---|---|---|
| chunk planner | `chunk.go` `planChunks`, `ceilDiv` | none (a loop) | one call per fresh plan | `PlanChunks` |
| segmented transfer | `pool.go` `runSegmented`, `chunk.go` `fetchChunk`, `retry.go` `newRetry` | context, `firstErr`, semaphore, two wait groups, chunk cursors, the file | dispatch, fetch, retry, flush, tear down | `SegmentedPool`, promise in `Transfer` |
| resume state | `state.go` | `State` under a mutex; the sidecar file | `Save`, `LoadState`, `MarkProgress`, `Matches`, `toChunks`, `Remove` | `SegmentedPool`, `Download` |
| download orchestration | `download.go` `Run`, `runSources`, `attempt`, `runSegmentedDownload`, `runSingleStream`, `verify.go` | part file, sidecar, output file; the current source | probe, skip, fail over, resume gate, verify, rename, remove | `Download`, as the command sees it in `CommandLine` |
| single stream | `pool.go` `runSingle` | the part file | truncate and copy, under the retry policy | `Download` |
| probe | `probe.go` | none | a one-byte GET, then a HEAD if that is inconclusive | `Probe`, used by `Download` and `Stdout` |
| retry backoff | `retry.go` `backoff` | attempt number | length of a pause | `Backoff`, on a clock in `Pacing` |
| rate limiter | `ratelimit.go` | token bucket under a mutex | `wait` | `Pacing` |
| stdout mode | `download.go` `runStdoutSources`, `runStdoutStream`, `pool.go` `copyToStream` | bytes emitted, the pipe | probe, copy, fail over | `Stdout` |
| progress display | `progress.go` | counter, render goroutine, stop channel | `Start`, `Add`, `Stop` | `Progress`, run by `Stdout` |
| output name | `resolve.go` | none | name from headers and URLs | `OutputName`, used by `CommandLine` |
| credentials | `auth.go`, `netrc.go` | none | parse, match hosts, apply | `Credentials`, used by `CommandLine` |
| results and records | `result.go`, `root.go` `recordFor`, `emitJSON` | one `Result` per URL | fill, emit | `CommandLine` |
| command line, batch | `root.go`, `main.go` | list of URLs, flags, outcome per URL | guards, sequential loop, summary, exit code | `CommandLine` |
| rate parsing | `rate.go` | none | text to bytes per second | not modelled, see section 8 |
| shell completion | `cmd/completion.go` | none | static text | not modelled |

How they interact. The command resolves credentials per URL and calls `Run`,
which probes the primary, names the output, may skip, and calls `runSources`,
which calls `attempt` per source. `attempt` chooses between `runSegmentedDownload`
(through the resume gate) and `runSingleStream`; with `-o -`, `Run` calls
`runStdoutSources` instead. `runSegmented` starts one goroutine per chunk behind
a counting semaphore, and a flusher; they share the derived context, `firstErr`
(first writer wins), `State`, the rate limiter and the destination file.
`fetchChunk` calls back into `State.MarkProgress` after each write. Only three
files outlive the process; `Download` is about those, over any number of runs.

What is hard here:

- *interleaving*: a `select` with two ready branches, an error that cancels
  everyone whose victims then report errors of their own, a flusher saving while
  workers advance and while the dispatcher makes its last save, workers that
  reserve tokens under a mutex and sleep outside it, a renderer against `Stop`;
- *order of effects on disk*: a cursor may only become durable after the byte it
  counts; the rename comes before the removal of the sidecar;
- *crashes and repeated runs*: every prefix of a run leaves files which the next
  run, perhaps of other options, another mirror or a changed remote, must judge;
- *failures and their classes*: which are retried, which advance to the next
  mirror, which end the run, and a cancel that surfaces as something else;
- *what cannot be undone*: bytes in a pipe, records on standard output;
- *boundaries*: rounding in the plan, a clamped last chunk, wrap-around of int64
  in sums and in durations, sleeps truncated to a tick.

Correctness of each component, in words: the plan tiles the file; the pool stays
bounded, puts bytes in their place, saves only what is there, forgets nothing,
reports the cause, is quiet after its return, and returns; the gate honors a
sidecar only for the content that is in the part file; failover begins no source
after a cancel, and a good source is never failed by a bad one; the output is one
whole version, under a checksum the right one; runs add up. The limiter's
aggregate never passes the cap and is reached; pauses stay in their window. The
pipe receives one head of one source, success means the whole, and the terminal
is left with a complete line. Every URL of a batch is accounted for in order, the
exit code and the records tell the truth, and each request carries the credential
of its host and no other.

`PROJECT.json` lists the hazards at their lines, with the properties for each.

## 2. Modules

| Module | Purpose |
|---|---|
| `PlanChunks` | `planChunks` as a state machine, one step per loop iteration, int64 at a constant width |
| `Transfer` | what a segmented transfer promises (abstract) |
| `SegmentedPool` | `runSegmented` with its goroutines; implements `Transfer` |
| `Probe` | what a probe makes of a server's two answers (operators) |
| `Download` | runs, sources, gate, strategies and finalisation over the three files; uses the transfer as `Transfer` has it |
| `Backoff` | the length of a pause, at int64 width (operators) |
| `Pacing` | workers, token bucket and backoff on a clock |
| `Progress` | the progress line and its goroutine (variables and actions, no specification of its own) |
| `Stdout` | failover to a pipe; composes `Probe` and `Progress` with the copy loop and the reader |
| `OutputName`, `Credentials` | pure parts of the command (operators) |
| `CommandLine` | the command: guards, loop over URLs, records, exit code; composes the two above with a reduced `Run` |
| `...Proofs` | the theorems of `PlanChunks`, `SegmentedPool` (two modules), `Download` (`DownloadProofs`, `DownloadContentProofs`), `Pacing`, `Stdout`, `CommandLine` |
| `MC...` | small values for TLC |

Definitions ending in `_Something` next to a definition of the same name
(`Matches_SizeOnly`, `FlusherDone_NoWait`, ...) are plausible mistakes in that piece
of code. Nothing uses them: substituted for the definition, each breaks the
property named with it in `PROJECT.json`, which shows that the property can fail.

### PlanChunks

`size`, `concurrency` are the arguments, `start` and `chunks` the loop's variables;
`AppendChunk` is one iteration. `CeilDiv` is the code's `(a + b - 1) / b` with `Wrap`
after every addition, so that the largest int64 is a constant (`MaxInt64`).

### SegmentedPool

One action per step between two points where another goroutine can be seen:

- dispatcher (`dpc`): the loop of pool.go:66-105 (skip a complete chunk, check the
  context, select on a slot or the context, check again, start the worker), then
  wait for the workers, cancel, wait for the flusher, save and return;
- workers (`wpc[c]`): `retry` around `fetchChunk`: check, request, read, (wait for
  the limiter and) write, mark, back off, report, release the slot;
- flusher (`fpc`): tick, save, exit.

A byte is named by its offset, and the file maps offsets to bytes: a byte in the
wrong place is visible. `Written` uses the position of the response, not the
cursor. `State.Save` is two steps: `Marshal` under the mutex, and `Commit` at the
rename. `Response`, `RequestFails`, `Read`, `ReadEnds` and `Write` include the
failures in `Faults`: transport errors, client timeouts, transient and permanent
statuses, too many or too few bytes, and a `WriteAt` that fails after part of its
buffer. Initially the cursors are any the sidecar may hold, with the bytes below
them in the file.

Abstracted here: time. A backoff or a wait for the limiter is a step that the
context can interrupt; how long they take is the subject of `Pacing`.

### Transfer, and how Download uses it

`Transfer` has three variables: bytes received per chunk, bytes the sidecar claims,
and the outcome. It lets bytes arrive, lets the sidecar advance to any cursors
between those it has and those received, and returns; an `ok` return leaves the
sidecar equal to what was received. `SegmentedPool` implements it
(`KeepsPromise`), with the refinement `got <- done`, `saved <- sidecar`, and
`outcome` from `dpc` and `firstErr`. `Download` does not step through goroutines:
its pool phase is `Receive`, `Flush`, `PoolReturns` and `PoolFails`, i.e. `Transfer`
with contents, and with the nil return of a cancelled pool that `pool_nil` shows.
`Flush` marshals and renames in one step: a byte that arrives in between is in
the part file and not in the sidecar, a state that `Flush` then `Receive` reaches too.

### Probe and Download

An answer of a server is a record of what its headers say: status class, size
(the total of `Content-Range` for a 206, `Content-Length` otherwise), whether it
advertises ranges, and validators. `OfGet` and `OfHead` are the two functions of
probe.go. In `Download` a source is a version, its validators, and whether it
accepts ranges and tells its size; `InfosOf` lets the probe loose on the answers such a
server gives (`Answered`), and under the fault `"unavailable"` on a refusal of both
requests (`Refusal`).

A file is a function from offsets to the *version* of the resource each byte is
of, 0 for a hole left by `Truncate`. `NoFile` is the empty function: the code
treats a missing and an empty file alike (`partialFileUsable`, `alreadyComplete`
by size). A run is the program counter `pc`:

| `pc` | Code | Actions |
|---|---|---|
| `idle` | no process | `StartRun`, `LosePart`, `RemoteChange` |
| `probe` | `Run`: probe of the primary, skip-if-complete | `ProbePrimary`, `ProbePrimaryFails` |
| `source` | `runSources`, `attempt` | `SourceStopped`, `SourceReuse`, `SourceProbe`, `SourceProbeFails` |
| `gate` | `runSegmentedDownload` up to the pool | `GateRefuses`, `GateResumes`, `GateFresh`, `GateFails` |
| `pool` | `runSegmented` | `Receive`, `Flush`, `PoolReturns`, `PoolFails` |
| `stream`, `streaming` | `runSingleStream`, `runSingle` | `StreamStart`, `StreamRead`, `StreamEnd`, `StreamRetry`, `StreamFails` |
| `verify`, `rename`, `remove` | the end of either strategy | `Verified`, `VerifyFails`, `Rename`, `RenameFails`, `Remove`, `RemoveFails` |

Any error goes through `AttemptError`, which is the decision of `runSources`:
next source, or the end of the run. `Cancel` and `Crash` may come at any step.
A crash keeps all files (the page cache survives a process), unless `Faults` has
`"power"`: then any bytes of the part file may be lost, since nothing syncs it.
Under `"short"` a stream may end at any byte (`StreamEnd`), as `runSingle` does not count; an
output that ends before its first byte is an empty file, thus `NoFile`, and not seen by `FinalWhole`.
Each run picks its options anew (`--resume`, `--force`, `--checksum`).

### Backoff and Pacing

`Pauses(k, base, max)` is the set of values `backoff` may return: the window is
doubled as the loop does, with `WrapDuration` after the multiplication, and the
jitter is every sample of it.

`Pacing` puts workers on a clock. `now` is advanced by `Tick`; a timer fires at
its time or any later one. A worker is the part of `fetchChunk` that spends time:
`Read` a buffer, `Reserve` tokens for it (the critical section of
`tokenBucket.wait`: refill, subtract, compute the sleep), sleep outside the mutex,
`Admit` (the write), and under `retry` fail, `BackOff` and begin again. `tokens` is
scaled by nothing: a tick is the unit of `time.Duration`, the rate is in bytes
per tick, the refill is exact and the sleep truncated, as in the code, whose
tokens are floats (their rounding is left out). A byte is identified by its *ticket*, its
number in the order of reservations, so that `Cap` is about bytes written and not
about the bucket's own bookkeeping. `Abort` is the context ending a request, a
read or a sleep; the reservation stays. `NextSource` starts new workers on the
same bucket.

### Progress and Stdout

`Progress` is a counter, a goroutine that redraws (`RenderTick`) or sees the
channel or the context (`RenderExit`), and `Stop`, in two steps because it waits:
`Close`, `FinalDraw`. `line` is what the terminal shows.

`Stdout` is `runStdoutSources`: `BeginSource`, `ProbeGet`/`ProbeHead`, `StartStream`,
`Answer`, then the loop of `copyToStream`: `CopyNext`, `Read`, `GateOpens`, and the
`Write`, which is one `WriteByte` per byte with room in the pipe, so that it blocks on
a full pipe, and may fail after any of them (`WriteFails`). `Delta` is what `Write`
returned. `StopProgress` is the size check and the deferred `Stop`, `StreamReturns`
the decision of the failover loop. `stream` is everything ever written, each byte
named by its source and its offset; `room` is what the pipe can take, and `Drain` is
the reader.

### OutputName, Credentials and CommandLine

A name is the sequence of its path elements, which is what `path.Base` and the
test for `..` tell apart. A netrc file is a sequence of lines, a line a sequence
of words; the parser is a fold over the tokens with the state the code keeps
(the open entry, whether there is one, its host, the keyword that waits for its
argument). Quoting, base64, percent-escapes and the search for the file are left
out.

`CommandLine` is one run of the command. `CheckFlags` has the guards in RunE; then,
for each URL, `SkipURL` or `BeginURL`, `ResolveAuth` or `AuthFails`, `Probe` or
`ProbeFails`, `Transfer` or `TransferFails`, and with `--json` `Emit` or `EmitFails`;
`Finish` is the exit code. The three loops of the code (single JSON, batch JSON,
`runBatch`) and its single path are one loop with their differences as guards
(`Single`, `cmd.json`). `download.Run` is reduced to what the command sees:
which file it names, whether it skips, resumes or is refused, which source serves it, what
it prints, and how it fails. A file is a content, not bytes: its servers all honor
ranges, tell sizes and have validators, and `--checksum` is the digest of the
URL's content; `Download` has the rest. `sent` and `stdout` are histories: every
request with its credential, every line of standard output.

## 3. Runs

Two of the runs of each concurrent module are deliberately different in kind: one
with many faults and few actors, the other with few faults and more actors or
runs, because the product of both is out of reach.

| Run | Shows | Bounds |
|---|---|---|
| `plan` | each plan tiles its range, has at most `concurrency` near-equal chunks, and the loop ends | sizes -1..15 (all with 2·size <= MaxInt64 = 31), concurrencies -1..17: below, at and above every size and every rounding case |
| `pool_faults` | `BytesInPlace`, `CursorsBacked`, `NothingForgotten`, `CauseReported`, `NilMeansComplete`, the refinement `KeepsPromise`, and `Returns` | chunks of 2 and 1 bytes on 2 slots (a short read, a partial write and a neighbour to overwrite exist), 1 retry, all faults, every resume state, limiter on, saves succeed |
| `pool_queue` | `Bounded`, `QuietAfterReturn`, `StopReturns` | three 1-byte chunks on 2 slots, so that one waits for a slot another gives back; failing saves, a server that may stay silent |
| `pool_nil` | refuted: a nil return means complete | no fault at all, one cancel |
| `download_single` | `FinalWhole`, `NothingRefetched` | one source of any kind (ETag, date, no validator, no ranges) that tells its size, 2 versions of 3 bytes in 2 chunks (rounding), one change between runs, one crash, any number of runs, cancels, network and disk failures, bodies that end early, all of resume and force |
| `download_mirrors` | `OneContent`, `GoodSourceVerifies`, `CancelBurnsNoMirror` | two sources, each of any content and any kind of honest validator, one change between runs; one crash, failing saves and removals, lost part files, network failures, timeouts; with and without a checksum; the steps of `Orderly` only (below) |
| `download_checksum` | `FinalVerified` | two sources, one kind of them of unknown size, every fault of the model at once: refused probes, bodies that end early, sources changing mid-transfer, a power failure |
| `download_live` | `Delivered` | one source, one crash, unbounded cancels and failures |
| `download_orphan` | refuted: `FinalWhole` | see findings |
| `pacing` | `Cap`, `Prompt`, `PauseBounded`, `StopWakes` | two workers of 2 bytes each on a bucket of 2 at 2 bytes a tick (a deficit of more than one tick, and one that is truncated, occur), 1 retry, two sources, backoff window and maximum 2; the window function for all arguments up to `MaxInt64 = 7` |
| `stdout` | `OneHead`, `NilMeansWhole`, `Justified`, `LineComplete`, `CleanFailover`, `CancelReturns` | two sources of any of four kinds (ranges, no total, no size at all, refusing with an error page of another length), 3 bytes, reads of up to 2, a pipe of 2: a write that blocks half-way, a source that fails in the middle; every fault |
| `command_line` | `Accounted`, `ExitTells`, `StdoutPure`, `RightCredential`, `RecordTrue`, and that names are safe (in `TypeOK`) | 158 commands: no, one, two or three URLs, from arguments and a file with comments; JSON, directory, `-o -`, mirrors, checksum, force, quiet; header, `--user`, netrc; netrc files of up to two entries with comments, a macro, an unknown keyword and case in host names; URLs whose names clash; old files; failures, a cancel |

Each run takes from a second to under two minutes with two workers. The type
invariant of each module is proved (`PlanTypes`, `PoolTypes`, `DownloadTypes`,
`PacingTypes`, `StdoutTypes`, `CommandTypes`), and those of four are checked too.

Named bounds: `MaxChunks` (iterations followed in `PlanChunks`), `MaxCrashes`,
`MaxChanges`, and `Horizon` in `Pacing`: the clock only passes it while a worker
sleeps, so that the last timer can still fire. `MaxRetries`, `MaxRead`, `Rate`, `Burst`, `Base`,
`Pipe` are parameters of the code or of its environment, small. The number of runs
of the program, of cancels, of saves and of redraws is not bounded.

What the passing runs of `Download` leave out, and why it is not hidden: `FinalWhole`
and `OneContent` do not hold of the code under some faults, and the passing runs
are the combinations where they do:

- `download_single` has one crash and saves that succeed. A second crash gives
  `download_orphan`; a run whose saves all fail has the effect of that crash.
- `download_mirrors` has sources with ranges only, and no run that leaves an attempt in
  one of the two windows in which the sidecar on disk is not about the part file
  next to it (`OrderlySpec`): a transfer left, by a crash or an error, before its first
  `Save` over a sidecar the gate did not honor, and a single stream that has
  filled the part file of another attempt's sidecar. `download_orphan` and section 6
  are what happens in them. In all other respects the crashes, failing
  saves, lost files and changes of this run are unrestricted.
- Neither has probes that are refused, and neither has a source of unknown size: a clean
  EOF ends a stream however few bytes came (`"short"`), and only a size can tell that it
  was early. Both are in `download_checksum`; section 6 has what happens without
  a checksum.
- `ChangeMidRun` and `"power"` only occur in `download_checksum`. With either,
  `FinalWhole` fails in a handful of steps: section 6.

With a checksum none of it matters for the output, which is what `download_checksum`
and the theorem `DownloadVerified` say.

`RecordTrue` leaves out the URLs of a batch that have one name and different
contents (`Clash`), `NilMeansWhole` servers that tell no size or the size of
something else, and `Accounted` says nothing of a command that ends by an error
before its first record: section 6 has each of these.

## 4. Fairness

`SegmentedPool`: weak fairness of the dispatcher and of every worker's own steps
(goroutines are scheduled); of `Abort`, because net/http and the limiter return
when the context ends; of the flusher's save. Strong fairness of `FlusherExit`:
the flusher may lose the select against the ticker any number of times, but the
ticker fires once a second and Go's select chooses at random. No fairness of the
network: `StopReturns` (a cancel or a fatal error ends the transfer) must not need
it. `Returns` assumes a server that answers, if only with errors (`Responsive`),
as its antecedent. Without a timeout a silent server does hang a transfer until
the user cancels it.

`Download`: the user runs the command again whenever it has ended (`StartRun`);
a cancelled request returns; local steps are taken. The steps that need the
network, and those a cancel could pre-empt in every run, have strong fairness: a
failure does not hit the same step in every one of infinitely many runs. That is
an assumption about the environment, not about the code. What the code
contributes, and what `Delivered` checks, is that progress is carried from run to run:
if resume starts again from the first byte the property fails.

`Pacing`: weak fairness of the critical section and of `Abort`. Nothing makes the
clock advance, so that `StopWakes` cannot be met by waiting for a timer.

`Stdout`: weak fairness of the run's own steps, of `Abort`, of the limiter's absence
(`GateOpens` when there is none), and of the renderer's exit: both of its other
channels stay ready, and a ticker that won every `select` for ever is excluded as
above. The reader owes nothing; `CancelReturns` has `Consumed` (it goes on
reading) as its antecedent, because no context interrupts a blocked `Write`.

## 5. Proofs

All are for every value of the constants that the named assumptions admit
(`PlanConstants`, `PoolConstants`, `DownloadConstants`, `PacingConstants`,
`StdoutConstants`, `CommandLineConstants`).

- **`PlanTypes`, `PlanTiles`, `PlanBounded`, `PlanNearEqual`** (`PlanChunksProofs`), for
  sizes with 2·size <= MaxInt64 (`SmallSizes`), where no sum wraps. The invariant
  `PlanInv` adds `Aligned`: chunk i begins at (i - 1)·Per, and the next one at
  Len(chunks)·Per, until the file is covered. That the number of chunks is bounded
  then follows from `s <= n * CeilDiv(s, n)`, proved once in `CeilDivFacts`.
- **`PoolTypes`, `PoolBounded`, `PoolBytesInPlace`, `PoolCursorsBacked`**
  (`SegmentedPoolProofs`), for every plan of disjoint chunks, concurrency, number
  of retries, set of faults. None of the four is inductive. `PoolInv` adds: the
  number of workers alive, plus one while the dispatcher holds a token it has not
  handed on, is at most the number of tokens taken (`SlotsInv`); chunks not yet
  dispatched have idle workers (`ControlInv`); an open response is positioned at the
  chunk's cursor and owes exactly the rest of the chunk (`StreamInv`, for
  `BytesInPlace`); the cursor of a chunk is `State`'s plus the bytes written and not
  yet marked, and the bytes below the cursor are in the file (`CursorInv`, for
  `CursorsBacked`). One step per action, and the snapshots of both savers are
  covered by `state` at the time of `Marshal` because cursors only grow.
- **`PoolNothingForgotten`, `PoolCauseReported`, `PoolNilMeansComplete`,
  `PoolQuietAfterReturn`, `PoolKeepsPromise`** (`SegmentedPoolPromiseProofs`): what
  `runSegmented` owes its caller when it returns, and that it implements `Transfer`.
  On top of `PoolInv`, `PromiseInv` says: the snapshot a save of the flusher carries is never
  behind the sidecar (`FlusherInv`, so that `saved` of `Transfer` only grows); past each
  wait of the dispatcher what was waited for is over, and at its own last
  `Marshal` the snapshot, `State` and the cursors agree (`QuietInv`); as long as
  a worker lives, the derived context has ended only by a cancel of the caller or with
  a known error (`CauseInv`); a chunk behind the dispatcher is complete, has a
  worker, or the reason why it has not is known (`CompleteInv`). For the refinement each
  step is then a step of `Transfer` or leaves its three variables alone.
- **`DownloadVerified`** (`DownloadProofs`): under a checksum the output only ever
  becomes the file of that checksum, for any number of sources, any faults,
  mid-transfer changes and power failures. It needs one fact about a state,
  `Vouched`: while `pc = "rename"` the part file satisfies the checksum, since no
  step between the verification and the rename touches it.
- **`DownloadCancel`**: a cancelled run begins no further source, whatever error
  the cancel surfaces as (a nil return, a size mismatch, a transport error). This
  rests on `FailsOver` reading the context and not the error.
- **`DownloadTypes`**: the three files, the sidecar's chunks and the run. That chunks
  of a state are disjoint and lie in the file (`TypeInv`, from the plan and from the
  sidecars the gate accepts) is what the theorems below count on.
- **`ResumeOneContent`, `OutputWhole`, `GoodSource`** (`DownloadContentProofs`), for any
  number of sources, versions, runs, crashes and changes between runs, any sizes and
  concurrency. The hypotheses are about the world and about the runs:
  - `Trusted`: two sources that stream segments and show the gate the same
    validators serve the same content (`Honest`), no remote changes in
    mid-transfer, and a crash takes no byte that was written. Section 6 shows each to be needed.
  - `SizesTold`, for `OutputWhole` and `GoodSource` only: every probe tells the size, or
    no body ends early. Otherwise a truncated body is delivered, or fails the
    checksum of a good source (section 6).
  - `OrderlySpec`: no attempt is left in the two windows of section 3.

  None of the three properties is inductive. `ContentInv` says who vouches for a
  sidecar. A remote *vouches* for a state if it has exactly its validators and every
  byte the state counts is in the part file and of its content. Whenever the next
  gate decides about the sidecar on disk and the part file is long enough for
  the gate to look at it, some remote vouches for it (`SidecarBacked`);
  while a transfer runs, a remote of the content of the current source vouches
  for its `State` (`TransferBacked`), so that a gate that compares validators compares
  contents. `SidecarBacked` is not asked for in a transfer before its first `Save`, and this
  is exactly why the windows must be excluded: the fresh start has resized the
  part file and the old sidecar stands beside it. A single stream is a head of
  what its source serves (`OneStream`, `StreamEnded`). Under `SizesTold` the part file
  is one whole version before the rename (`PartWhole`, from `SizeOKWhole`): `completedBytes` is the size only if every
  byte is counted (`CompleteCounted`: what disjoint chunks have done is a set of offsets
  of that cardinality), and a size that a probe told is that of the source.
- **`CalmDownload`**: if all sources serve ranges and tell sizes (`Segments`), and there is
  neither a crash nor a failed save (`Calm`), every run stays out of the windows: the
  three properties hold of `Spec`, under timeouts, network and disk failures, cancels and
  lost part files.
- **`ResumeRefetchesNothing`**: no save forgets a byte the sidecar vouches for, with
  no assumption about sources, faults, power failures or changes, as long as each gate
  finds the part file of its sidecar at the sidecar's size or finds none (`PartKept`). The invariant
  `Kept` says that before the first save of a transfer either the old sidecar
  says no more than the transfer counts, or the part file holds nothing the transfer did not
  write. **`OneSizeRefetchesNothing`** discharges `PartKept` where sources serve
  ranges and versions have one size; the single stream that cuts a part
  file under its sidecar is what it excludes (section 6).
- **`PacingTypes`, `PacingCap`** (`PacingProofs`): for any number of workers and
  sources, any rate, burst and backoff, the bytes written up to any time are at
  most the burst plus what the rate gives, less than a tick's worth more. `Cap` is
  not inductive: it says nothing of bytes reserved and not yet written. `PacingInv`
  adds that the bucket balances (`BucketInv`: tokens plus reservations never exceed
  what was supplied up to the last refill), that a worker's timer is not before the
  time at which its last ticket is paid for (`HeldInv`), and that every ticket
  written is paid for by now (`WrittenInv`). The cardinality of `written` is then
  bounded by that of an interval.
- **`PacingPrompt`**: the other direction, that a sleep is no longer than it has to be.
  `Covered(t)` is the number of tickets the bucket pays for by time t. A refill
  either keeps it or finds the bucket full, and then all tickets given out are
  covered; so a timer that is still to fire is not after the time at which its ticket is covered, and
  what is written is covered now (`CoveredInv`).
- **`PacingPauses`**: the pause of every attempt is drawn from the whole of the
  window min(base·2^k, max), for every base and maximum an int64 holds, also where base·2^k
  is none: a product that wraps is negative, and `Doubled` then takes the maximum
  (`WindowIs`, the closed form of the recursive window). A worker that backs off is no
  further than that from its next attempt (`PauseInv`). tlapm has no facts about `^`, so the two
  that the proof needs are its hypothesis (`PowersOfTwo`); the induction over the
  attempts is the least-number principle (`LeastNat`) applied to the set of
  attempts at which the closed form fails.
- **`StdoutTypes`, `StdoutOneHead`, `StdoutCleanFailover`** (`StdoutProofs`): for any sources, sizes, buffers,
  pipes and faults. `HeadInv` says that the bytes in the pipe are a head of the
  *current* source (`OneSource`) and, for each place of the loop, which counters
  make up their number (`Place`): after a write that failed half-way, `total` still
  is the length of the stream, so that `total = 0` means an empty stream, which is
  all that failover looks at. `TypeInv` adds that the progress line counts the same.
- **`StdoutNilMeansWhole`, `StdoutJustified`, `StdoutLineComplete`**: how such a run ends.
  `EndInv` adds to `TypeInv` that without a progress line there is no goroutine
  (`LineInv`), that a context error, also one still in the buffer, means a cancel and that
  all sources have failed only after the return (`ErrorInv`), and that
  the sizes agree from the comparison on (`WholeInv`).
- **`CommandAccounted`, `CommandExitTells`, `CommandStdoutPure`** (`CommandLineProofs`): for
  any set of commands, netrc files, servers, old files and failures. The loop
  has one result for each URL before `at` (`LoopInv`), the guards of `RunE` leave standard output
  to one use (`SinksInv`), what was printed is the records of the URLs before `at` or
  at most one body (`OutputInv`), and the flag of the JSON loop agrees with
  the results (`ExitInv`). That dropping the comments of an input file
  leaves a finite list is an induction over data; it is a part of `CommandLineConstants`,
  which TLC evaluates for the 158 commands.

- **`CommandTypes`**: the types, and with them that every name a file gets is safe
  (`SafeName`): one element, not `.` or `..`, no zero byte, whatever headers, redirects
  and URLs offer. `ReportInv` adds to the above the results and the URL in hand (`ResultInv`,
  `ResultsInv`).
- **`CommandRecordsTrue`**: what a record says was served is under the name it gives until
  the command ends. `KeptInv` says that of every earlier URL whose name no other URL
  of other content has. It assumes `SameContent`: URLs that are the same resource have one size, and
  the mirrors of a single URL serve what it serves. `dr` cannot tell otherwise
  without a checksum.
- **`CommandCredentials`**: a request carries the header's credential, else that of its own URL,
  else the flag's, else that of its own host in the netrc file (`AuthInv`: the
  resolver in use is the one made for the URL in hand). It assumes that the netrc
  parser finds for each host what the file says (`NetrcRead`): the parser is a fold over
  words, whose result for every file is an induction over data. In `command_line` TLC
  checks `RightCredential` without that assumption.

Only model-checked: liveness (`Returns`, `StopReturns`, `Delivered`, `Covers`, `StopWakes`,
`CancelReturns`), which is out of the prover's reach, and what is a hypothesis above
because it is an induction over data (`NetrcRead`) or arithmetic the provers lack
(`PowersOfTwo`). `FinalWhole` of `download_single` has sources without ranges, whose
single streams the theorem covers only outside the windows; there, with one crash
and saves that succeed, the claim is TLC's.

## 6. Findings

In runs that TLC refutes (details and quotations in `PROJECT.json`):

1. `pool_nil`: a cancel between pool.go:75 and pool.go:80 leaves the loop without an
   error, so `runSegmented` may return nil with chunks missing. The caller turns it
   into a size mismatch, so a Ctrl-C is reported as a corrupt download.
2. `download_orphan`: an orphan sidecar (crash between rename and remove), a forced
   re-download whose fresh start pre-allocates the part file to the size
   the orphan names, a crash before the first save. The next run finds sidecar and
   file in agreement, resumes a transfer with nothing left to do, and delivers
   zeros.

Reproduced with the same modules, but not kept as runs. Each is a change to the
constants of a run of section 3:

- A corrupt mirror poisons the good one: `GoodSourceVerifies` with two sources of
  different versions and equal Last-Modified, and a checksum. The wrong bytes leave
  an all-done sidecar (download.go:751); the good mirror resumes it, fetches nothing, and
  fails the same checksum, in this run and the following ones, although
  `src/docs/REFERENCE.md:41` has `dr` succeed as soon as any source delivers a verified file.
- A client timeout ends the failover: `Faults = {"timeout"}`, two equal sources.
  `http.Client.Timeout` satisfies `errors.Is(err, context.DeadlineExceeded)`, so
  `isCtxErr` (download.go:395) ends the run without trying a mirror, also to a
  pipe (download.go:462). `src/docs/REFERENCE.md:45` has any per-source failure
  advance to the next mirror; line 46 excepts a timeout of the *context*, which
  this is not.
- A body that ends early: `runSingle` returns nil at any clean EOF (pool.go:251), and with an
  unknown size there is nothing to verify (download.go:580). `FinalWhole` with `Faults = {"short"}` and one
  source that does not tell its size (a close-delimited body): the first byte becomes the
  output, although `src/README.md:80` has the final path absent or a complete file. With a
  checksum the attempt fails instead, also of a good source (`GoodSourceVerifies`).
- A stream over a segmented part file: `FinalWhole` with a source with ranges and
  one without, of different versions, `Faults = {"net"}`, concurrency 1. The single
  stream truncates the part file under the sidecar (download.go:566) and is interrupted at a length
  the gate accepts.
- A probe that is refused (503, 429) is no error (probe.go:63-69): with
  `"unavailable"` among the faults of `download_single`, a run that could have
  resumed takes the single stream, truncates the part file and leaves the old
  sidecar: `NothingRefetched` fails, and so does `OneContent`.
- `FinalWhole` with `ChangeMidRun = TRUE`, no fault: range requests carry no
  `If-Range`, so a remote that changes during a transfer yields a mixed file
  (chunk.go:79).
- `FinalWhole` with `Faults = {"power"}`, one crash: `Save` syncs the sidecar
  (state.go:98) and nothing syncs the part file.
- The gate refuses an orphan sidecar of a changed remote (`result = "changed"` with
  `part = NoFile`), although download.go:766 says such a run starts fresh.
- For a size within `concurrency` of the largest int64 the sum in `ceilDiv`
  (chunk.go:30) wraps, and the plan is no longer bounded: `PlanChunks` with sizes
  28..31 and `MaxInt64 = 31`.

Seen while modelling:

- A failed `WriteAt` is retried (retry.go:171, `"disk"` in `Retryable`), although
  retry.go:154 calls it fatal; a client timeout is not (retry.go:123), although
  retry.go:164 calls timeouts retryable.
- The size of an error page, from a refused HEAD, counts as the size of the
  resource (probe.go:90): a complete transfer to a pipe then ends in a size mismatch.
- The probe of a server without ranges receives the whole body, which
  `drainAndClose` reads outside the limiter, although `src/README.md:133` has the cap apply to every path.
- Tokens of a reservation whose sleep was cancelled are not given back: the next
  source begins with the deficit of the last. `Prompt` counts it in.
- `--json` with one URL returns before any record when `NewAuth` fails
  (root.go:211), although `src/docs/REFERENCE.md:24` says that no record is ever
  dropped; a batch writes one (root.go:263).
- Two URLs of a batch with one base name resolve to one output. The second is
  skipped if the sizes agree, refused as changed if an interrupted first left its
  sidecar, and replaces the first otherwise.
- When the primary's probe fails and there are mirrors, the name comes from the raw URL
  (download.go:285): a part file saved under a `Content-Disposition` name by an
  earlier run is lost from sight.
- A netrc file that ends after the word `machine` re-opens the previous host's
  entry, empty, and drops its credential (netrc.go:42-46, 66).
- rate.go:79 floors `0.5` to 0, which means no limit, lets a number beyond int64
  overflow, and accepts `1e5`.

## 7. Where it could go on

1. Two processes on one output: a composition of `Download` with itself over the
   three files. The code promises nothing for it (there is no lock), so the first
   question would be which promise to check.
2. A server that answers a 206 for another range: `BytesInPlace` fails at once, since
   chunk.go:90 looks at the status only. Worth a model once the code checks `Content-Range`.
3. Proofs: a step-wise form of `Delivered` and `Covers` (each run that is not interrupted
   before a save shortens what is left), and `FinalWhole` with sources of both kinds
   from a bound on crashes instead of `Orderly`.

## 8. Not modelled

- Rate parsing, header, checksum and proxy flags: text to value, no state; a bad
  value is one bit (`cmd.malformed`). Floating point in the limiter is replaced by exact
  arithmetic, in the parser it has no counterpart.
- Shell completion and version: static text.
- The text of the progress line and of messages: no decision depends on it. Byte counts,
  sizes and digests in records: they are copied from what `Download` is about.
- net/http, TLS, proxies, redirects: the environment, as the set of ways in which
  requests and reads may end.
