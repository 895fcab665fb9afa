------------------------------- MODULE Stdout -------------------------------
(***************************************************************************)
(* A download to standard output: runStdoutSources and runStdoutStream     *)
(* (src/download/download.go) with probe (probe.go), copyToStream          *)
(* (pool.go), the progress line (progress.go), and the reader at the other *)
(* end of the pipe.                                                        *)
(*                                                                         *)
(* A pipe cannot be rewound: what was written stays written.  A byte is    *)
(* named by the source it came from and its offset there.                  *)
(***************************************************************************)
EXTENDS Sequences, Probe, Progress

CONSTANTS
    Sources,    \* number of sources: the primary and its mirrors
    Size,       \* bytes of the resource
    Servers,    \* how a source may answer a probe: [get, head] of Probe's answers
    MaxRead,    \* the copy buffer
    Pipe,       \* bytes the pipe holds
    Limited,    \* is there a rate limiter?
    Faults      \* the failures that may happen

FaultKinds == {"net",      \* a request or a read fails
               "timeout",  \* http.Client.Timeout elapses
               "status",   \* the request for the whole is not answered by a 200
               "short",    \* a clean EOF before the end
               "disk"}     \* a write fails after a part of its buffer

ASSUME StdoutConstants ==
    /\ Sources \in Nat \ {0} /\ Size \in Nat
    /\ MaxRead \in Nat \ {0} /\ Pipe \in Nat \ {0}
    /\ Limited \in BOOLEAN
    /\ Faults \subseteq FaultKinds
    /\ \A s \in Servers : /\ s.get.length \in Int /\ s.head.length \in Int
                          /\ s.head.ranges \in BOOLEAN

VARIABLES
    server,     \* how each source answers
    canceled,   \* the context of the run
    pc,         \* where the run is
    src, info,  \* the source tried and what its probe told
    pos,        \* bytes of the body read
    buf,        \* the buffer: bytes not yet written, and the error read with them
    nw,         \* bytes of the buffer written by the Write under way
    total,      \* bytes this source has written: what copyToStream returns
    err,        \* what the attempt, or the run, returned
    stream,     \* all bytes ever written to the pipe
    room        \* free bytes in the pipe

pipe == <<stream, room>>
body == <<pos, buf, nw, total>>
run == <<server, canceled, src, info>>
vars == <<run, pc, body, err, pipe, progress>>

NoBuf == [n |-> 0, then |-> "more"]

Init ==
    /\ server \in [1 .. Sources -> Servers]
    /\ canceled = FALSE
    /\ pc = "loop" /\ src = 1 /\ info = NoInfo
    /\ pos = 0 /\ buf = NoBuf /\ nw = 0 /\ total = 0
    /\ err = "none" /\ stream = <<>> /\ room = Pipe
    /\ ProgressInit

Goto(where) == pc' = where

-----------------------------------------------------------------------------
\* The environment: the user, and the reader of the pipe.

Cancel ==
    /\ ~canceled /\ pc # "returned"
    /\ canceled' = TRUE
    /\ UNCHANGED <<server, src, info, pc, body, err, pipe, progress>>

Drain ==
    /\ room < Pipe
    /\ room' = Pipe
    /\ UNCHANGED <<run, pc, body, err, stream, progress>>

-----------------------------------------------------------------------------
\* The failover loop.

Return(e) == Goto("returned") /\ err' = e

\* What an error of one source does: end the run, or go on to the next source.
MayFailOver_Always(e) == ~canceled /\ e \notin {"canceled", "timeout"} /\ src < Sources
MayFailOver_OneLess(e) == MayFailOver_Always(e) /\ total = 0 /\ src < Sources - 1
MayFailOver(e) == /\ ~canceled /\ e \notin {"canceled", "timeout"}
                  /\ Sources > 1 /\ total = 0 /\ src < Sources
Surfaced(e) == IF canceled \/ e \in {"canceled", "timeout"} \/ Sources = 1 THEN e ELSE "all"

AttemptFails(e) ==
    IF MayFailOver(e)
    THEN Goto("loop") /\ src' = src + 1 /\ err' = "none"
    ELSE Return(Surfaced(e)) /\ UNCHANGED src

LoopStopped ==
    /\ pc = "loop" /\ canceled
    /\ Return("canceled")
    /\ UNCHANGED <<run, body, pipe, progress>>

BeginSource ==
    /\ pc = "loop" /\ ~canceled
    /\ Goto("get")
    /\ info' = NoInfo /\ pos' = 0 /\ buf' = NoBuf /\ nw' = 0 /\ total' = 0
    /\ UNCHANGED <<server, canceled, src, err, pipe, progress>>

-----------------------------------------------------------------------------
\* probe

\* How a request or a read may fail.
Failures(kinds) == (Faults \cap kinds) \cup (IF canceled THEN {"canceled"} ELSE {})

ProbeGet ==
    /\ pc = "get" /\ ~canceled
    /\ info' = OfGet(server[src].get)
    /\ Goto(IF Conclusive(server[src].get) THEN "request" ELSE "head")
    /\ UNCHANGED <<server, canceled, src, body, err, pipe, progress>>

ProbeHead ==
    /\ pc = "head" /\ ~canceled
    /\ info' = OfHead(server[src].get, server[src].head)
    /\ Goto("request")
    /\ UNCHANGED <<server, canceled, src, body, err, pipe, progress>>

ProbeFails ==
    /\ pc \in {"get", "head"}
    /\ \E e \in Failures({"net", "timeout"}) : AttemptFails(e)
    /\ UNCHANGED <<server, canceled, info, body, pipe, progress>>

-----------------------------------------------------------------------------
\* runStdoutStream and copyToStream

\* copyToStream returned e; the deferred prog.Stop comes next.
CopyReturns(e) == Goto("stop") /\ err' = e

StartStream ==
    /\ pc = "request"
    /\ Start
    /\ Goto("answer")
    /\ UNCHANGED <<run, body, err, pipe>>

Answer ==
    /\ pc = "answer"
    /\ \/ ~canceled /\ Goto("copy") /\ UNCHANGED err
       \/ \E e \in Failures({"net", "timeout", "status"}) : CopyReturns(e)
    /\ UNCHANGED <<run, body, pipe, progress>>

\* The check of ctx before each read.
CopyStopped ==
    /\ pc = "copy" /\ canceled
    /\ CopyReturns("canceled")
    /\ UNCHANGED <<run, body, pipe, progress>>

CopyNext ==
    /\ pc = "copy" /\ ~canceled
    /\ Goto("read")
    /\ UNCHANGED <<run, body, err, pipe, progress>>

\* What may come with, or instead of, bytes that end at offset p.
Endings(p) ==
    {"more"} \cup (IF p = Size \/ "short" \in Faults THEN {"eof"} ELSE {})
    \cup Failures({"net", "timeout"})

Read ==
    /\ pc = "read"
    /\ \E n \in 0 .. MaxRead : \E then \in Endings(pos + n) :
          /\ pos + n <= Size /\ (n = 0 => then # "more")
          /\ pos' = pos + n
          /\ IF n > 0
             THEN Goto("gate") /\ buf' = [n |-> n, then |-> then] /\ UNCHANGED err
             ELSE /\ CopyReturns(IF then = "eof" THEN "none" ELSE then)
                  /\ UNCHANGED buf
    /\ UNCHANGED <<run, nw, total, pipe, progress>>

\* gate: the wait for the limiter.
GateOpens ==
    /\ pc = "gate"
    /\ Goto("write")
    /\ UNCHANGED <<run, body, err, pipe, progress>>

GateStopped_Deaf == FALSE
GateStopped == Limited /\ canceled

GateFails ==
    /\ pc = "gate" /\ GateStopped
    /\ CopyReturns("canceled")
    /\ UNCHANGED <<run, body, pipe, progress>>

\* Write blocks while the pipe is full, and the context cannot interrupt it.
WriteByte ==
    /\ pc = "write" /\ nw < buf.n /\ room > 0
    /\ stream' = Append(stream, <<src, pos - buf.n + nw>>)
    /\ room' = room - 1 /\ nw' = nw + 1
    /\ UNCHANGED <<run, pc, pos, buf, total, err, progress>>

\* What Write wrote is counted, also when it failed half-way.
Delta_WholeWrites == IF nw = buf.n THEN nw ELSE 0
Delta == nw

Written ==
    /\ Add(Delta) /\ total' = total + Delta
    /\ nw' = 0 /\ buf' = NoBuf
    /\ UNCHANGED <<run, pos, pipe>>

\* After a whole write, the error that came with the bytes is looked at.
Ending == buf.then

WriteReturns ==
    /\ pc = "write" /\ nw = buf.n
    /\ Written
    /\ IF Ending = "more" THEN Goto("copy") /\ UNCHANGED err
       ELSE CopyReturns(IF Ending = "eof" THEN "none" ELSE Ending)

WriteFails ==
    /\ pc = "write" /\ nw < buf.n /\ "disk" \in Faults
    /\ Written
    /\ CopyReturns("disk")

\* A body of another length than the one the probe told, then the deferred Stop.
SizeOK_Skip == TRUE
SizeOK == info.size > 0 => total = info.size

StopProgress ==
    /\ pc = "stop"
    /\ Close
    /\ Goto("stopping")
    /\ err' = IF err = "none" /\ ~SizeOK THEN "size" ELSE err
    /\ UNCHANGED <<run, body, pipe>>

StreamReturns ==
    /\ pc = "stopping"
    /\ FinalDraw
    /\ IF err = "none" THEN Return("none") /\ UNCHANGED src ELSE AttemptFails(err)
    /\ UNCHANGED <<server, canceled, info, body, pipe>>

-----------------------------------------------------------------------------

Render == (RenderTick \/ RenderExit(canceled)) /\ UNCHANGED <<run, pc, body, err, pipe>>

Compute ==
    \/ LoopStopped \/ BeginSource \/ StartStream \/ CopyStopped \/ CopyNext
    \/ WriteByte \/ WriteReturns \/ StopProgress \/ StreamReturns

Network == ProbeGet \/ ProbeHead \/ ProbeFails \/ Answer \/ Read

Terminated == pc = "returned" /\ room = Pipe /\ UNCHANGED vars

Next ==
    \/ Cancel \/ Drain \/ Compute \/ Network \/ GateOpens \/ GateFails
    \/ WriteFails \/ Render \/ Terminated

\* net/http gives up when the context ends, and so does the limiter.
Abort == canceled /\ (ProbeFails \/ Answer \/ Read \/ GateFails)

Fairness ==
    /\ WF_vars(Compute) /\ WF_vars(Abort) /\ WF_vars(~Limited /\ GateOpens)
    /\ WF_vars(RenderExit(canceled) /\ UNCHANGED <<run, pc, body, err, pipe>>)

\* The reader of the pipe goes on reading.
Consumed == WF_vars(Drain)

Spec == Init /\ [][Next]_vars /\ Fairness

-----------------------------------------------------------------------------

PCs == {"loop", "get", "head", "request", "answer", "copy", "read", "gate",
        "write", "stop", "stopping", "returned"}

TypeOK ==
    /\ server \in [1 .. Sources -> Servers]
    /\ canceled \in BOOLEAN /\ pc \in PCs /\ src \in 1 .. Sources
    /\ info.size \in Int /\ info.ranges \in BOOLEAN
    /\ pos \in 0 .. Size /\ nw \in 0 .. buf.n /\ buf.n \in 0 .. MaxRead /\ total \in 0 .. Size
    /\ buf.then \in {"more", "eof", "net", "timeout", "canceled"}
    /\ err \in FaultKinds \cup {"none", "canceled", "size", "all"}
    /\ room \in 0 .. Pipe
    /\ active \in BOOLEAN /\ counted \in 0 .. Size
    /\ renderer \in {"none", "select", "exited"} /\ stopped \in BOOLEAN
    /\ line \in [shown : 0 .. Size, ends : BOOLEAN]

Returned == pc = "returned"

\* "Emitted bytes are never duplicated" (pool.go:137): the stream is the head of
\* the resource as one source serves it, each byte once and in order, although
\* sources fail before, between and in the middle of writes.
OneHead ==
    \E s \in 1 .. Sources : \A i \in DOMAIN stream : stream[i] = <<s, i - 1>>

\* "A shortfall is reported ... so a pipeline gets a non-zero exit"
\* (download.go:516): success means that the whole resource went out, unless the
\* server told no size to compare with, or told another one.
NilMeansWhole ==
    Returned /\ err = "none" /\ info.size = Size => Len(stream) = Size

\* "Fail over BEFORE any byte is emitted" (download.go:438), and never after a
\* cancel: the next source begins only on an empty stream.
CleanFailover == [][src' # src => stream = <<>> /\ ~canceled]_vars

\* The run gives up only for a reason: ErrAllSourcesFailed says that every source
\* was tried or that the stream is spoilt, a context error that the run was
\* cancelled.
Justified ==
    Returned => /\ err = "all" => src = Sources \/ stream # <<>>
                /\ err = "canceled" => canceled

\* "Stop halts rendering and prints a final line" (progress.go:76): between two
\* streams, and after the last, no goroutine draws, and the line on the terminal
\* is complete and shows the bytes that were written.
LineComplete ==
    pc \in {"loop", "get", "head", "request", "returned"} =>
        line.ends /\ renderer # "select" /\ (active => line.shown = counted)

\* A cancel ends the run, whatever the servers do, provided that the reader of
\* the pipe goes on reading: a blocked Write is not interrupted.
CancelReturns == Consumed => (canceled ~> Returned)

=============================================================================
