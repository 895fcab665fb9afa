----------------------------- MODULE Download -----------------------------
(***************************************************************************)
(* A download to a file, over any number of runs of the program            *)
(* (src/download/download.go, with state.go, verify.go and the single      *)
(* stream of pool.go): probe, skip-if-complete, failover over the sources, *)
(* the resume gate, the segmented and the single-stream strategies, and    *)
(* verify - rename - remove.  The disk (part file, sidecar, output)        *)
(* outlives the process.                                                   *)
(*                                                                         *)
(* The content of a file is abstracted to the version of the resource each *)
(* byte came from.  The segmented transfer is the abstract one of module   *)
(* Transfer, which SegmentedPool implements: bytes arrive in any order of  *)
(* chunks, the sidecar is saved now and then and when the transfer ends.   *)
(***************************************************************************)
EXTENDS Probe, FiniteSets, FiniteSetsExt

CONSTANTS
    Sources,       \* number of sources: the primary and its mirrors
    SizeOf,        \* SizeOf[v]: bytes of version v of the resource
    Remotes,       \* what a source may serve: [ver, etag, lm, ranges, sized]
    Options,       \* what a run may be given: [resume, force, checksum]
    Concurrency,   \* chunks of a fresh plan
    Faults,        \* the failures that may happen
    MaxCrashes,    \* bound: crashes of the process in all
    MaxChanges,    \* bound: changes of what a source serves in all
    ChangeMidRun   \* may a source change while a run is under way?

Versions == DOMAIN SizeOf
Hole == 0        \* a byte of the pre-allocated file that nobody wrote
NoFile == <<>>   \* a missing file; the code treats an empty one alike

FaultKinds == {"net",      \* a request, a response or a read fails
               "timeout",  \* http.Client.Timeout elapses
               "short",    \* a body ends early, with a clean EOF
               "unavailable",  \* the requests of a probe are refused (503, 429)
               "save",     \* State.Save fails
               "disk",     \* a file cannot be opened, pre-allocated, renamed
               "remove",   \* the sidecar cannot be removed
               "lost",     \* between runs, the part file is deleted
               "power"}    \* a crash loses data the part file never synced

ASSUME DownloadConstants ==
    /\ Sources \in Nat \ {0}
    /\ Versions \subseteq Nat \ {0}
    /\ SizeOf \in [Versions -> Nat \ {0}]
    /\ Remotes \subseteq [ver : Versions, etag : Nat, lm : Nat, ranges : BOOLEAN, sized : BOOLEAN]
    /\ Options \subseteq [resume : BOOLEAN, force : BOOLEAN, checksum : Versions \cup {None}]
    /\ Concurrency \in Nat \ {0}
    /\ Faults \subseteq FaultKinds
    /\ MaxCrashes \in Nat /\ MaxChanges \in Nat /\ ChangeMidRun \in BOOLEAN

VARIABLES
    part, sidecar, output,      \* the files: <output>.part, its .dr.json, <output>
    remote,                     \* what each source serves
    pc, opts, canceled,         \* the run: where it is, its options, ctx.Err()
    src, info,                  \* the source tried and its probe
    st,                         \* State, as the transfer advances it
    conn,                       \* per chunk: the version its open response delivers
    result,                     \* how the last run ended
    crashes, changes            \* counters for the bounds

files == <<part, sidecar, output>>
run == <<pc, opts, canceled, src, info, st, conn, result>>
bounds == <<crashes, changes>>
vars == <<files, remote, run, bounds>>

Multi == Sources > 1
NoState == [size |-> 0, etag |-> None, lm |-> None, chunks |-> <<>>]
NoConn == [c \in 1 .. Concurrency |-> None]

-----------------------------------------------------------------------------
\* Files and plans.

FileSize(f) == Cardinality(DOMAIN f)
WholeFile(v) == [o \in 0 .. SizeOf[v] - 1 |-> v]

\* Truncate(size): shorter files are padded with holes, the bytes there stay.
Resize(f, size) == [o \in 0 .. size - 1 |-> IF o \in DOMAIN f THEN f[o] ELSE Hole]

\* planChunks (module PlanChunks) for a size of at least one byte.
FreshPlan(size) ==
    LET n == Min({Concurrency, size})
        per == (size + n - 1) \div n
    IN  [i \in 1 .. (size + per - 1) \div per |->
            [start |-> (i - 1) * per, end |-> Min({i * per, size}) - 1, done |-> 0]]

\* newState
FreshState(i) == [size |-> i.size, etag |-> i.etag, lm |-> i.lm, chunks |-> FreshPlan(i.size)]

\* State.toChunks of a sidecar that is honored: the cursors are kept.
Resumed_FromZero(s) == [s EXCEPT !.chunks = [c \in DOMAIN @ |-> [@[c] EXCEPT !.done = 0]]]
Resumed(s) == s

Chunks == DOMAIN st.chunks
NextByte(c) == st.chunks[c].start + st.chunks[c].done
Todo_PastEnd(c) == NextByte(c) <= st.chunks[c].end + 1
Todo(c) == NextByte(c) <= st.chunks[c].end

\* State.completedBytes
CompletedBytes(s) == Cardinality(UNION {{c} \X (1 .. s.chunks[c].done) : c \in DOMAIN s.chunks})

-----------------------------------------------------------------------------
\* The decisions of a run.

\* probe (module Probe) of a source that answers, or that refuses both requests:
\* the latter is no error, but leaves nothing known.
Answered(r) ==
    [status |-> IF r.ranges THEN "206" ELSE "200", ranges |-> r.ranges,
     length |-> IF r.sized THEN SizeOf[r.ver] ELSE Unknown, etag |-> r.etag, lm |-> r.lm]
Refusal == [status |-> "other", ranges |-> FALSE, length |-> Unknown, etag |-> None, lm |-> None]
InfosOf(r) ==
    {OfGet(Answered(r))}
    \cup (IF "unavailable" \in Faults THEN {OfHead(OfGet(Refusal), Refusal)} ELSE {})

ChecksumOK(f) == opts.checksum # None => f = WholeFile(opts.checksum)

\* alreadyComplete: a checksum decides alone, else the size.
AlreadyComplete(i) ==
    /\ ~opts.force /\ output # NoFile
    /\ IF opts.checksum # None THEN ChecksumOK(output)
       ELSE i.size > 0 /\ FileSize(output) = i.size

\* State.Matches
Comparable(a, b) == a # None /\ b # None
Matches_SizeOnly(s, i) == s.size = i.size
Matches(s, i) ==
    /\ s.size = i.size
    /\ IF Comparable(s.etag, i.etag) THEN s.etag = i.etag
       ELSE Comparable(s.lm, i.lm) /\ s.lm = i.lm

PartialFileUsable(size) == size > 0 /\ part # NoFile /\ FileSize(part) = size

\* The resume gate refuses the run: the mismatch of a single source that is one
\* of size or of validators, not the want of a validator.
Saved == opts.resume /\ sidecar # NoState
Refused ==
    /\ Saved /\ ~Matches(sidecar, info) /\ ~Multi
    /\ \/ sidecar.size # info.size
       \/ Comparable(sidecar.etag, info.etag)
       \/ Comparable(sidecar.lm, info.lm)
Resumable == Saved /\ Matches(sidecar, info) /\ PartialFileUsable(sidecar.size)

\* runSources: does the failure e of a source advance to the next one?
FailsOver_ByError(e) == Multi /\ e \notin {"canceled", "timeout"} /\ src < Sources
FailsOver(e) == Multi /\ ~canceled /\ e \notin {"canceled", "timeout"} /\ src < Sources

\* The whole state of the transfer has been received.
AllReceived == \A c \in Chunks : ~Todo(c)

-----------------------------------------------------------------------------
\* How an attempt and a run end: the error is one of the context, of a client
\* timeout, of the gate, of the verification, or any other ("failed").

Failures(kinds) ==
    {IF f = "timeout" THEN "timeout" ELSE "failed" : f \in Faults \cap kinds}
    \cup (IF canceled THEN {"canceled"} ELSE {})

NewAttempt == info' = NoInfo /\ st' = NoState /\ conn' = NoConn

EndRun(r) ==
    /\ result' = r
    /\ pc' = "idle"
    /\ NewAttempt
    /\ UNCHANGED <<opts, canceled, src>>

AttemptError(e) ==
    \/ /\ FailsOver(e)
       /\ src' = src + 1
       /\ pc' = "source"
       /\ NewAttempt
       /\ UNCHANGED <<opts, canceled, result>>
    \/ ~FailsOver(e) /\ EndRun(e)

GoTo(where) == pc' = where /\ UNCHANGED <<opts, canceled, src, result>>

Init ==
    /\ part = NoFile /\ sidecar = NoState /\ output = NoFile
    /\ remote \in [1 .. Sources -> Remotes]
    /\ pc = "idle" /\ opts \in Options /\ canceled = FALSE
    /\ src = 1 /\ info = NoInfo /\ st = NoState /\ conn = NoConn
    /\ result = "none"
    /\ crashes = 0 /\ changes = 0

-----------------------------------------------------------------------------
\* The environment.

StartRun ==
    /\ pc = "idle"
    /\ pc' = "probe" /\ opts' \in Options /\ canceled' = FALSE
    /\ src' = 1 /\ result' = "none"
    /\ NewAttempt
    /\ UNCHANGED <<files, remote, bounds>>

\* Ctrl-C, SIGTERM.
Cancel ==
    /\ pc # "idle" /\ ~canceled
    /\ canceled' = TRUE
    /\ UNCHANGED <<files, remote, bounds, pc, opts, src, info, st, conn, result>>

\* The process dies; a power failure takes with it bytes of the part file that
\* nothing ever synced.
Crash ==
    /\ pc # "idle" /\ crashes < MaxCrashes
    /\ crashes' = crashes + 1
    /\ EndRun("crashed")
    /\ \/ UNCHANGED part
       \/ /\ "power" \in Faults
          /\ \E lost \in SUBSET DOMAIN part :
                part' = [o \in DOMAIN part |-> IF o \in lost THEN Hole ELSE part[o]]
    /\ UNCHANGED <<sidecar, output, remote, changes>>

RemoteChange ==
    /\ changes < MaxChanges
    /\ ChangeMidRun \/ pc = "idle"
    /\ changes' = changes + 1
    /\ \E s \in 1 .. Sources : \E r \in Remotes \ {remote[s]} :
          remote' = [remote EXCEPT ![s] = r]
    /\ UNCHANGED <<files, run, crashes>>

LosePart ==
    /\ "lost" \in Faults /\ pc = "idle" /\ part # NoFile
    /\ part' = NoFile
    /\ UNCHANGED <<sidecar, output, remote, run, bounds>>

-----------------------------------------------------------------------------
\* Run: the probe of the primary and skip-if-complete.

ProbePrimary ==
    /\ pc = "probe" /\ ~canceled
    /\ \E i \in InfosOf(remote[1]) :
          IF AlreadyComplete(i) THEN EndRun("skipped")
          ELSE GoTo("source") /\ info' = i /\ UNCHANGED <<st, conn>>
    /\ UNCHANGED <<files, remote, bounds>>

\* With mirrors, a failed probe is not fatal, and a checksum may still skip.
ProbePrimaryFails ==
    /\ pc = "probe"
    /\ \/ canceled /\ EndRun("canceled")
       \/ /\ ~canceled /\ Failures({"net", "timeout"}) # {}
          /\ IF ~Multi THEN EndRun("failed")
             ELSE IF AlreadyComplete([NoInfo EXCEPT !.size = Unknown]) THEN EndRun("skipped")
             ELSE GoTo("source") /\ UNCHANGED <<info, st, conn>>
    /\ UNCHANGED <<files, remote, bounds>>

-----------------------------------------------------------------------------
\* runSources and attempt: probe the source, choose the strategy.

Strategy(i) ==
    /\ info' = i
    /\ GoTo(IF Streamable(i) THEN "gate" ELSE "stream")
    /\ UNCHANGED <<st, conn>>

SourceStopped ==
    /\ pc = "source" /\ Multi /\ canceled
    /\ EndRun("canceled")
    /\ UNCHANGED <<files, remote, bounds>>

\* The first source reuses the probe of the primary, if that one succeeded.
SourceReuse ==
    /\ pc = "source" /\ ~(Multi /\ canceled) /\ info # NoInfo
    /\ Strategy(info)
    /\ UNCHANGED <<files, remote, bounds>>

SourceProbe ==
    /\ pc = "source" /\ info = NoInfo /\ ~canceled
    /\ \E i \in InfosOf(remote[src]) : Strategy(i)
    /\ UNCHANGED <<files, remote, bounds>>

SourceProbeFails ==
    /\ pc = "source" /\ info = NoInfo
    /\ \E e \in Failures({"net", "timeout"}) : AttemptError(e)
    /\ UNCHANGED <<files, remote, bounds>>

-----------------------------------------------------------------------------
\* runSegmentedDownload: the gate, with the opening of the part file.

GateRefuses ==
    /\ pc = "gate" /\ Refused
    /\ AttemptError("changed")
    /\ UNCHANGED <<files, remote, bounds>>

GateResumes ==
    /\ pc = "gate" /\ Resumable
    /\ st' = Resumed(sidecar)
    /\ GoTo("pool") /\ UNCHANGED <<info, conn>>
    /\ UNCHANGED <<files, remote, bounds>>

\* The sidecar that is not honored stays on disk until the first Save.
GateFresh ==
    /\ pc = "gate" /\ ~Refused /\ ~Resumable
    /\ st' = FreshState(info)
    /\ part' = Resize(part, info.size)
    /\ GoTo("pool") /\ UNCHANGED <<info, conn>>
    /\ UNCHANGED <<sidecar, output, remote, bounds>>

\* The sidecar is unreadable, or the part file cannot be opened or resized.
GateFails ==
    /\ pc = "gate" /\ "disk" \in Faults
    /\ AttemptError("failed")
    /\ UNCHANGED <<files, remote, bounds>>

-----------------------------------------------------------------------------
\* runSegmented, as Transfer has it.

\* A byte comes from the open response of its chunk, or from a new request for
\* the rest of the chunk, which no condition (If-Range) ties to the probe.
Offered(c) ==
    (IF conn[c] = None THEN {} ELSE {conn[c]})
    \cup (IF remote[src].ranges /\ ~canceled THEN {remote[src].ver} ELSE {})

Receive(c) ==
    /\ pc = "pool" /\ c \in Chunks /\ Todo(c)
    /\ \E v \in Offered(c) :
          /\ NextByte(c) < SizeOf[v]
          /\ part' = [part EXCEPT ![NextByte(c)] = v]
          /\ conn' = [conn EXCEPT ![c] = v]
    /\ st' = [st EXCEPT !.chunks[c].done = @ + 1]
    /\ UNCHANGED <<sidecar, output, remote, bounds, pc, opts, canceled, src, info, result>>

\* A periodic State.Save.
Flush ==
    /\ pc = "pool"
    /\ sidecar' = st
    /\ UNCHANGED <<part, output, remote, run, bounds>>

\* nil: everything is received, or a cancel cut the dispatch short in the
\* window SegmentedPool shows; the last Save succeeded.
PoolReturns ==
    /\ pc = "pool" /\ (AllReceived \/ canceled)
    /\ sidecar' = st
    /\ GoTo("verify") /\ UNCHANGED <<info, st, conn>>
    /\ UNCHANGED <<part, output, remote, bounds>>

\* Why a transfer may fail: the context, the network, or a source that does not
\* serve a range it was probed to serve.
PoolErrors ==
    Failures({"net", "timeout", "short"})
    \cup (IF \E c \in Chunks : Todo(c) /\ (~remote[src].ranges \/ NextByte(c) >= SizeOf[remote[src].ver])
          THEN {"failed"} ELSE {})

PoolFails ==
    /\ pc = "pool"
    /\ \/ /\ \E e \in PoolErrors : AttemptError(e)
          /\ \/ sidecar' = st
             \/ "save" \in Faults /\ UNCHANGED sidecar
       \/ /\ "save" \in Faults /\ (AllReceived \/ canceled)
          /\ AttemptError("failed")
          /\ UNCHANGED sidecar
    /\ UNCHANGED <<part, output, remote, bounds>>

-----------------------------------------------------------------------------
\* runSingleStream: runSingle under the retry policy, from the first byte each
\* time; no sidecar is read or written.

StreamStart ==
    /\ pc = "stream" /\ ~canceled
    /\ part' = NoFile
    /\ conn' = [conn EXCEPT ![1] = remote[src].ver]
    /\ GoTo("streaming") /\ UNCHANGED <<info, st>>
    /\ UNCHANGED <<sidecar, output, remote, bounds>>

StreamRead ==
    /\ pc = "streaming" /\ FileSize(part) < SizeOf[conn[1]]
    /\ part' = [o \in 0 .. FileSize(part) |-> IF o \in DOMAIN part THEN part[o] ELSE conn[1]]
    /\ UNCHANGED <<sidecar, output, remote, run, bounds>>

\* A clean EOF ends the stream, however few bytes came before it.
StreamEnd ==
    /\ pc = "streaming"
    /\ FileSize(part) = SizeOf[conn[1]] \/ "short" \in Faults
    /\ GoTo("verify") /\ UNCHANGED <<info, st, conn>>
    /\ UNCHANGED <<files, remote, bounds>>

StreamRetry ==
    /\ pc = "streaming" /\ "net" \in Faults /\ ~canceled
    /\ conn' = NoConn
    /\ GoTo("stream") /\ UNCHANGED <<info, st>>
    /\ UNCHANGED <<files, remote, bounds>>

StreamFails ==
    /\ pc \in {"stream", "streaming"}
    /\ \E e \in Failures({"net", "timeout", "disk"}) : AttemptError(e)
    /\ UNCHANGED <<files, remote, bounds>>

-----------------------------------------------------------------------------
\* Verify, rename, remove: the end of either strategy.

SizeOK_FileOnly == info.size > 0 => FileSize(part) = info.size
SizeOK == /\ Streamable(info) => CompletedBytes(st) = info.size
          /\ info.size > 0 => FileSize(part) = info.size

VerifyChecksum_Skip == TRUE
VerifyChecksum == ChecksumOK(part)

VerifyFails ==
    /\ pc = "verify"
    /\ \/ ~SizeOK /\ AttemptError("size")
       \/ SizeOK /\ ~VerifyChecksum /\ AttemptError("checksum")
    /\ UNCHANGED <<files, remote, bounds>>

Verified ==
    /\ pc = "verify" /\ SizeOK /\ VerifyChecksum
    /\ GoTo("rename") /\ UNCHANGED <<info, st, conn>>
    /\ UNCHANGED <<files, remote, bounds>>

Rename ==
    /\ pc = "rename"
    /\ output' = part /\ part' = NoFile
    /\ GoTo("remove") /\ UNCHANGED <<info, st, conn>>
    /\ UNCHANGED <<sidecar, remote, bounds>>

RenameFails ==
    /\ pc = "rename" /\ "disk" \in Faults
    /\ AttemptError("failed")
    /\ UNCHANGED <<files, remote, bounds>>

Remove ==
    /\ pc = "remove"
    /\ sidecar' = NoState
    /\ EndRun("ok")
    /\ UNCHANGED <<part, output, remote, bounds>>

\* An error for the segmented strategy, ignored by the single stream.
RemoveFails ==
    /\ pc = "remove" /\ "remove" \in Faults
    /\ IF Streamable(info) THEN AttemptError("failed") ELSE EndRun("ok")
    /\ UNCHANGED <<files, remote, bounds>>

-----------------------------------------------------------------------------

Environment == StartRun \/ Cancel \/ Crash \/ RemoteChange \/ LosePart

Attempt ==
    \/ ProbePrimary \/ ProbePrimaryFails
    \/ SourceStopped \/ SourceReuse \/ SourceProbe \/ SourceProbeFails
    \/ GateRefuses \/ GateResumes \/ GateFresh \/ GateFails

Segmented == Flush \/ PoolReturns \/ PoolFails \/ \E c \in 1 .. Concurrency : Receive(c)

Stream == StreamStart \/ StreamRead \/ StreamEnd \/ StreamRetry \/ StreamFails

Finish == VerifyFails \/ Verified \/ Rename \/ RenameFails \/ Remove \/ RemoveFails

Next == Environment \/ Attempt \/ Segmented \/ Stream \/ Finish

Spec == Init /\ [][Next]_vars

\* A cancelled request returns, and so does what waits for it.
Abort == canceled /\ (ProbePrimaryFails \/ SourceStopped \/ PoolFails \/ StreamFails)

\* The user runs the command again whenever it has ended.  Local steps of a run
\* are taken; a failure or an interrupt does not hit the same step every time,
\* so a step that run after run reaches is taken in one of them.
Fairness ==
    /\ WF_vars(StartRun) /\ WF_vars(Abort)
    /\ WF_vars(SourceReuse) /\ WF_vars(GateResumes \/ GateFresh) /\ WF_vars(VerifyFails)
    /\ SF_vars(ProbePrimary) /\ SF_vars(~canceled /\ SourceReuse)
    /\ SF_vars(~canceled /\ GateResumes) /\ SF_vars(~canceled /\ GateFresh)
    /\ \A c \in 1 .. Concurrency : SF_vars(Receive(c))
    /\ SF_vars(AllReceived /\ PoolReturns)
    /\ SF_vars(Verified) /\ SF_vars(Rename)

FairSpec == Spec /\ Fairness

-----------------------------------------------------------------------------
\* The offsets a state counts as done, and what it says of the resource.
Counted(s) == UNION {s.chunks[c].start .. s.chunks[c].start + s.chunks[c].done - 1 : c \in DOMAIN s.chunks}
Validator(s) == <<s.size, s.etag, s.lm>>

\* Sources that may stream segments and show the gate the same validators serve
\* the same content; a run sees one remote; a crash takes no written byte.
Honest ==
    \A r, q \in Remotes :
        LET i == OfGet(Answered(r))
            j == OfGet(Answered(q))
        IN  Streamable(i) /\ Streamable(j) /\ Matches(i, j) => r.ver = q.ver
Trusted == Honest /\ ~ChangeMidRun /\ "power" \notin Faults

\* No body ends early, or every probe tells the size that verifySize compares: an
\* early end is an EOF like any other, and an unknown size is not verified.
SizesTold == "short" \in Faults => \A r \in Remotes : \A i \in InfosOf(r) : i.size > 0

\* The sidecar has a part file next to it that passes partialFileUsable, so a
\* gate that is shown its validators honors it.
Usable == PartialFileUsable(sidecar.size)

\* No attempt is left, by a crash or an error, in the two windows in which the
\* sidecar on disk is not about the part file next to it: in a transfer before
\* its first Save, over a sidecar the gate did not honor, and after a single
\* stream has filled the part file of another attempt's sidecar.
SavedNow == Validator(sidecar') = Validator(st) /\ Counted(sidecar') \subseteq Counted(st)
Orderly ==
    /\ pc = "pool" /\ pc' # "pool" /\ Usable' => SavedNow
    /\ pc \in {"streaming", "verify", "rename"} /\ ~Streamable(info)
       /\ pc' \in {"idle", "source", "stream"} => ~Usable'

OrderlySpec == Init /\ [][Next /\ Orderly]_vars

\* A gate finds the part file of its sidecar at the size it was saved with, or
\* none at all: no single stream has cut it, no transfer of another size.
PartKept == pc = "gate" /\ sidecar # NoState => part = NoFile \/ FileSize(part) = sidecar.size

-----------------------------------------------------------------------------

PCs == {"idle", "probe", "source", "gate", "pool", "stream", "streaming",
        "verify", "rename", "remove"}
Results == {"none", "ok", "skipped", "failed", "timeout", "canceled",
            "changed", "size", "checksum", "crashed"}
Offsets == UNION {0 .. SizeOf[v] : v \in Versions}
Contents == UNION {[0 .. n - 1 -> Versions \cup {Hole}] : n \in Offsets}
ChunkStates == [start : Offsets, end : Offsets, done : Offsets]
IsState(s) ==
    /\ DOMAIN s = {"size", "etag", "lm", "chunks"}
    /\ s.size \in Offsets /\ s.etag \in Nat /\ s.lm \in Nat
    /\ DOMAIN s.chunks \subseteq 1 .. Concurrency
    /\ \A c \in DOMAIN s.chunks :
          /\ s.chunks[c] \in ChunkStates
          /\ s.chunks[c].start + s.chunks[c].done <= s.chunks[c].end + 1

TypeOK ==
    /\ part \in Contents /\ output \in Contents
    /\ IsState(sidecar) /\ IsState(st)
    /\ remote \in [1 .. Sources -> Remotes]
    /\ pc \in PCs /\ opts \in Options /\ canceled \in BOOLEAN
    /\ src \in 1 .. Sources
    /\ info \in [size : {Unknown} \cup Offsets, etag : Nat, lm : Nat, ranges : BOOLEAN]
    /\ conn \in [1 .. Concurrency -> Versions \cup {None}]
    /\ result \in Results
    /\ crashes \in 0 .. MaxCrashes /\ changes \in 0 .. MaxChanges

\* README.md:80: "The final path is ... either absent or a complete, verified
\* file - an observer never sees a half-written or zero-holed file": whatever
\* the interrupts, failures and resumes that led to it, the output is one
\* version of the resource, whole.  That needs a size to verify (SizesTold).
FinalWhole == output # NoFile => \E v \in Versions : output = WholeFile(v)

\* What State counts as done, fetched now or taken over from a sidecar, is in
\* the part file and comes from one version of the resource: the gate never
\* honors cursors that vouch for holes or for the bytes of another file.
OneContent ==
    pc = "pool" => \E v \in Versions : SizeOf[v] = st.size /\
        \A o \in Counted(st) : o \in DOMAIN part /\ part[o] = v

\* Durable resume (README.md:82): as long as resume is not turned off, the
\* remote keeps the validators it has and the part file keeps the bytes, no
\* sidecar that replaces another one forgets a byte of it, over interrupts,
\* failures and new runs.
Held(s) == \A o \in Counted(s) : o \in DOMAIN part /\ part[o] # Hole
NothingRefetched ==
    [][ /\ sidecar # NoState /\ sidecar' # NoState
        /\ opts.resume /\ Held(sidecar)
        /\ Validator(sidecar') = Validator(sidecar) /\ (sidecar.etag # None \/ sidecar.lm # None)
        => Counted(sidecar) \subseteq Counted(sidecar') ]_vars

\* "A corrupt mirror is caught" (docs/REFERENCE.md:47): under --checksum the
\* output only ever becomes the file of that checksum, even if sources change
\* during the run, resumes mix versions and crashes leave holes.
FinalVerified ==
    [][output' # output /\ opts.checksum # None => output' = WholeFile(opts.checksum)]_vars

\* "Cancellation never burns a mirror" (docs/REFERENCE.md:46): no source is
\* begun in a run that is cancelled, although a cancelled transfer may well end
\* with an error that is not the context's.
CancelBurnsNoMirror == [][canceled /\ canceled' => src' = src]_vars

\* "Succeeding as soon as any source delivers a complete, verified file"
\* (docs/REFERENCE.md:41): an attempt does not end in a checksum mismatch if its
\* source serves the file of that checksum.
GoodSourceVerifies ==
    pc = "verify" /\ SizeOK /\ opts.checksum = remote[src].ver => VerifyChecksum

\* Running the command again and again delivers the file, however often it is
\* interrupted and whichever requests fail, if the remote does not change: the
\* runs add up (README.md:14, "durable per-chunk resume").
Delivered == <>(output = WholeFile(remote[1].ver))

=============================================================================
