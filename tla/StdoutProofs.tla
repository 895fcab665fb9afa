---------------------------- MODULE StdoutProofs ----------------------------
(* Proofs about Stdout: what is in the pipe, when failover may begin, what  *)
(* a return means and how the terminal is left, for every number and kind   *)
(* of sources, every size, buffer and pipe, and every set of faults.        *)
EXTENDS Stdout, TLAPS

Counters ==
    /\ src \in 1 .. Sources
    /\ pos \in Nat /\ nw \in Nat /\ total \in Nat /\ buf.n \in Nat
    /\ stream \in Seq(Nat \X Nat)

\* Every byte written comes from the source that is being tried, ...
OneSource == \A i \in 1 .. Len(stream) : stream[i] = <<src, i - 1>>

\* ... and at each place of the run the counters tell how many they are.
Empty == Len(stream) = 0
Before == pos = 0 /\ nw = 0 /\ total = 0
Place ==
    /\ pc \in PCs
    /\ pc \in {"loop", "get", "head", "request", "answer"} => Empty
    /\ pc \in {"get", "head", "request", "answer"} => Before
    /\ pc \in {"copy", "read"} => Len(stream) = pos /\ total = pos /\ nw = 0
    /\ pc = "gate" => Len(stream) + buf.n = pos /\ total = Len(stream) /\ nw = 0
    /\ pc = "write" => Len(stream) + buf.n = pos + nw /\ total + nw = Len(stream) /\ nw <= buf.n
    /\ pc \in {"stop", "stopping"} => Len(stream) = total

HeadInv == Counters /\ OneSource /\ Place

LEMMA HeadInit == Init => HeadInv
  BY StdoutConstants DEF Init, Goto, HeadInv, Counters, OneSource, Place, Empty, Before, NoBuf, PCs

\* A step that leaves the stream, the counters and the place alone.
LEMMA HeadStutter ==
  ASSUME HeadInv, UNCHANGED <<src, pos, nw, total, buf, stream, pc>>
  PROVE  HeadInv'
  BY DEF HeadInv, Counters, OneSource, Place, Empty, Before

\* An attempt that ends in an error, with the bytes it wrote counted in total.
LEMMA HeadAttemptFails ==
  ASSUME HeadInv, NEW e, AttemptFails(e), Len(stream) = total,
         UNCHANGED <<pos, nw, total, buf, stream>>
  PROVE  HeadInv' /\ (src' # src => Len(stream) = 0 /\ ~canceled)
<1>1. CASE MayFailOver(e)
  <2>1. total = 0 /\ src < Sources /\ ~canceled
    BY <1>1 DEF MayFailOver
  <2>2. pc' = "loop" /\ src' = src + 1
    BY <1>1 DEF AttemptFails, Goto
  <2>3. Counters'
    BY <2>1, <2>2, StdoutConstants DEF HeadInv, Counters
  <2>4. OneSource' /\ Place'
    BY <2>1, <2>2 DEF HeadInv, Counters, OneSource, Place, Empty, PCs
  <2> QED BY <2>1, <2>3, <2>4 DEF HeadInv
<1>2. CASE ~MayFailOver(e)
  BY <1>2 DEF AttemptFails, Return, Goto, HeadInv, Counters, OneSource, Place, PCs
<1> QED BY <1>1, <1>2

\* Where the run is compared with where it goes, the stream unchanged.
LEMMA HeadStep ==
  ASSUME HeadInv, [Next]_vars
  PROVE  HeadInv' /\ (src' # src => Len(stream) = 0 /\ ~canceled)
<1> USE DEF Goto
<1>0. CASE UNCHANGED vars
  BY <1>0, HeadStutter DEF vars, run, body, pipe
<1>1. CASE Cancel \/ Drain \/ Render \/ Terminated
  BY <1>1, HeadStutter DEF Cancel, Drain, Render, Terminated, vars, run, body, pipe
<1>2. CASE LoopStopped
  BY <1>2 DEF LoopStopped, Return, run, body, pipe, HeadInv, Counters, OneSource, Place, PCs
<1>3. CASE BeginSource
  BY <1>3 DEF BeginSource, NoBuf, pipe, HeadInv, Counters, OneSource, Place, Empty, Before, PCs
<1>4. CASE ProbeGet \/ ProbeHead
  BY <1>4 DEF ProbeGet, ProbeHead, body, pipe, HeadInv, Counters, OneSource, Place, Empty, Before, PCs
<1>5. CASE ProbeFails
  <2>1. PICK e : AttemptFails(e)
    BY <1>5 DEF ProbeFails
  <2>2. Len(stream) = total /\ UNCHANGED <<pos, nw, total, buf, stream>>
    BY <1>5 DEF ProbeFails, body, pipe, HeadInv, Place, Empty, Before
  <2> QED BY <2>1, <2>2, HeadAttemptFails
<1>6. CASE StartStream \/ Answer
  BY <1>6 DEF StartStream, Answer, CopyReturns, run, body, pipe,
              HeadInv, Counters, OneSource, Place, Empty, Before, PCs
<1>7. CASE CopyStopped \/ CopyNext
  BY <1>7 DEF CopyStopped, CopyNext, CopyReturns, run, body, pipe,
              HeadInv, Counters, OneSource, Place, Empty, Before, PCs
<1>8. CASE Read
  <2>1. PICK n \in 0 .. MaxRead : \E then \in Endings(pos + n) :
          /\ pos' = pos + n
          /\ IF n > 0 THEN pc' = "gate" /\ buf' = [n |-> n, then |-> then]
             ELSE pc' = "stop" /\ UNCHANGED buf
    BY <1>8 DEF Read, CopyReturns
  <2>2. pc = "read" /\ UNCHANGED <<src, nw, total, stream>>
    BY <1>8 DEF Read, run, pipe
  <2>3. n \in Nat
    BY StdoutConstants
  <2>4. Counters'
    BY <2>1, <2>2, <2>3 DEF HeadInv, Counters
  <2>5. OneSource' /\ Place'
    BY <2>1, <2>2, <2>3 DEF HeadInv, Counters, OneSource, Place, PCs
  <2> QED BY <2>2, <2>4, <2>5 DEF HeadInv
<1>9. CASE GateOpens \/ GateFails
  BY <1>9 DEF GateOpens, GateFails, CopyReturns, run, body, pipe,
              HeadInv, Counters, OneSource, Place, PCs
<1>10. CASE WriteByte
  <2>1. /\ pc = "write" /\ pc' = "write" /\ nw < buf.n
        /\ stream' = Append(stream, <<src, pos - buf.n + nw>>)
        /\ nw' = nw + 1
        /\ UNCHANGED <<src, pos, buf, total>>
    BY <1>10 DEF WriteByte, run
  <2>2. Len(stream) = pos - buf.n + nw /\ Len(stream) \in Nat
    BY <2>1 DEF HeadInv, Counters, Place
  <2>3. <<src, Len(stream)>> \in Nat \X Nat
    BY <2>2, StdoutConstants DEF HeadInv, Counters
  <2>4. /\ stream' \in Seq(Nat \X Nat) /\ Len(stream') = Len(stream) + 1
        /\ stream'[Len(stream) + 1] = <<src, Len(stream)>>
        /\ \A i \in 1 .. Len(stream) : stream'[i] = stream[i]
    BY <2>1, <2>2, <2>3 DEF HeadInv, Counters
  <2>5. Counters'
    BY <2>1, <2>4 DEF HeadInv, Counters
  <2>6. OneSource'
    BY <2>1, <2>2, <2>4 DEF HeadInv, OneSource
  <2>7. Place'
    <3>1. nw \in Nat /\ buf.n \in Nat /\ pos \in Nat /\ total \in Nat /\ Len(stream) \in Nat
      BY <2>2 DEF HeadInv, Counters
    <3>2. Len(stream) + buf.n = pos + nw /\ total + nw = Len(stream)
      BY <2>1 DEF HeadInv, Place
    <3>3. /\ Len(stream') + buf.n' = pos' + nw' /\ total' + nw' = Len(stream')
          /\ nw' <= buf.n'
      <4>1. Len(stream') = Len(stream) + 1 /\ nw' = nw + 1
        BY <2>1, <2>4
      <4>2. buf' = buf /\ pos' = pos /\ total' = total /\ nw < buf.n
        BY <2>1
      <4> QED BY <3>1, <3>2, <4>1, <4>2
    <3> QED BY <2>1, <3>3 DEF Place, PCs
  <2> QED BY <2>1, <2>5, <2>6, <2>7 DEF HeadInv
<1>11. CASE WriteReturns \/ WriteFails
  <2>1. /\ pc = "write" /\ pc' \in {"copy", "stop"} /\ (pc' = "copy" => nw = buf.n)
        /\ total' = total + nw /\ nw' = 0 /\ buf' = NoBuf
        /\ UNCHANGED <<src, pos, stream>>
    BY <1>11 DEF WriteReturns, WriteFails, Written, Delta, CopyReturns, run, pipe
  <2>2. Counters'
    BY <2>1 DEF HeadInv, Counters, NoBuf
  <2>3. OneSource' /\ Place'
    BY <2>1 DEF HeadInv, Counters, OneSource, Place, PCs
  <2> QED BY <2>1, <2>2, <2>3 DEF HeadInv
<1>12. CASE StopProgress
  BY <1>12 DEF StopProgress, run, body, pipe, HeadInv, Counters, OneSource, Place, PCs
<1>13. CASE StreamReturns
  <2>1. pc = "stopping" /\ Len(stream) = total /\ UNCHANGED <<pos, nw, total, buf, stream>>
    BY <1>13 DEF StreamReturns, body, pipe, HeadInv, Place
  <2>2. CASE err = "none"
    <3>1. pc' = "returned" /\ UNCHANGED src
      BY <1>13, <2>2 DEF StreamReturns, Return
    <3> QED BY <2>1, <3>1 DEF HeadInv, Counters, OneSource, Place, PCs
  <2>3. CASE err # "none"
    <3>1. AttemptFails(err)
      BY <1>13, <2>3 DEF StreamReturns
    <3> QED BY <2>1, <3>1, HeadAttemptFails
  <2> QED BY <2>2, <2>3
<1> QED
  BY <1>0, <1>1, <1>2, <1>3, <1>4, <1>5, <1>6, <1>7, <1>8, <1>9, <1>10, <1>11, <1>12, <1>13
  DEF Next, Compute, Network

LEMMA HeadInvariant == Spec => []HeadInv
<1>1. Init => HeadInv
  BY HeadInit
<1>2. HeadInv /\ [Next]_vars => HeadInv'
  BY HeadStep
<1> QED BY <1>1, <1>2, PTL DEF Spec

\* "Emitted bytes are never duplicated" (pool.go:137), whatever fails: the stream
\* is the head of the resource as one source serves it.
THEOREM StdoutOneHead == Spec => []OneHead
<1>1. HeadInv => OneHead
  <2> SUFFICES ASSUME HeadInv PROVE OneHead
    OBVIOUS
  <2>1. DOMAIN stream = 1 .. Len(stream)
    BY DEF HeadInv, Counters
  <2>2. src \in 1 .. Sources /\ \A i \in DOMAIN stream : stream[i] = <<src, i - 1>>
    BY <2>1 DEF HeadInv, Counters, OneSource
  <2> QED BY <2>2 DEF OneHead
<1> QED BY <1>1, HeadInvariant, PTL

\* "Fail over BEFORE any byte is emitted" (download.go:438), never after a cancel.
THEOREM StdoutCleanFailover == Spec => CleanFailover
<1>1. HeadInv /\ [Next]_vars => [src' # src => stream = <<>> /\ ~canceled]_vars
  <2> SUFFICES ASSUME HeadInv, [Next]_vars, src' # src
               PROVE  stream = <<>> /\ ~canceled
    OBVIOUS
  <2>1. Len(stream) = 0 /\ ~canceled
    BY HeadStep
  <2> QED BY <2>1 DEF HeadInv, Counters
<1> QED BY <1>1, HeadInvariant, PTL DEF Spec, CleanFailover

-----------------------------------------------------------------------------
(* Types.  The transfer counts on the progress line what it returns, so that *)
(* no count passes the size.                                                 *)

Following == {"answer", "copy", "read", "gate", "write", "stop", "stopping"}
CountsAgree == pc \in Following => counted = total
TypeInv == HeadInv /\ TypeOK /\ CountsAgree /\ total <= pos

\* What Draw puts on the terminal.
LEMMA DrawnLine ==
  ASSUME NEW n \in 0 .. Size, NEW b \in BOOLEAN
  PROVE  [shown |-> n, ends |-> b] \in [shown : 0 .. Size, ends : BOOLEAN]
  OBVIOUS

\* The initial states.
LEMMA TypeInit == Init => TypeInv
<1> SUFFICES ASSUME Init PROVE TypeInv
  OBVIOUS
<1>1. HeadInv
  BY HeadInit
<1>2. TypeOK
  <2>1. line \in [shown : 0 .. Size, ends : BOOLEAN]
    BY DrawnLine, StdoutConstants DEF Init, ProgressInit, NoLine
  <2>2. info.size \in Int /\ info.ranges \in BOOLEAN
    BY DEF Init, NoInfo
  <2>3. /\ pos \in 0 .. Size /\ nw \in 0 .. buf.n /\ buf.n \in 0 .. MaxRead /\ total \in 0 .. Size
        /\ buf.then = "more" /\ counted \in 0 .. Size /\ src \in 1 .. Sources /\ room \in 0 .. Pipe
    BY StdoutConstants DEF Init, ProgressInit, NoBuf
  <2> QED BY <2>1, <2>2, <2>3 DEF Init, ProgressInit, TypeOK, PCs
<1> QED BY <1>1, <1>2 DEF Init, TypeInv, CountsAgree, Following

\* A step of the run that leaves the progress alone and ends an attempt.
LEMMA TypeAttemptFails ==
  ASSUME TypeOK, NEW e \in FaultKinds \cup {"canceled", "size"}, AttemptFails(e)
  PROVE  /\ pc' \in {"loop", "returned"} /\ src' \in 1 .. Sources
         /\ err' \in FaultKinds \cup {"none", "canceled", "size", "all"}
  BY StdoutConstants DEF TypeOK, AttemptFails, MayFailOver, Surfaced, Return, Goto

\* What a probe tells has a type, whatever the server answers.
LEMMA ProbeTypes ==
  ASSUME NEW s \in Servers
  PROVE  /\ OfGet(s.get).size \in Int /\ OfGet(s.get).ranges \in BOOLEAN
         /\ OfHead(s.get, s.head).size \in Int /\ OfHead(s.get, s.head).ranges \in BOOLEAN
<1>1. OfGet(s.get).size = s.get.length /\ OfHead(s.get, s.head).size = s.head.length
  BY DEF OfGet, OfHead
<1>2. OfGet(s.get).ranges \in BOOLEAN
  BY DEF OfGet
<1>3. OfHead(s.get, s.head).ranges = s.head.ranges
  BY DEF OfHead
<1> QED BY <1>1, <1>2, <1>3, StdoutConstants

\* Each step keeps the types, the counters in step, and the bytes within the body.
LEMMA TypeStep == TypeInv /\ [Next]_vars => TypeInv'
<1> SUFFICES ASSUME TypeInv, [Next]_vars PROVE TypeInv'
  OBVIOUS
<1> USE DEF Goto
<1>h. HeadInv /\ HeadInv' /\ TypeOK /\ CountsAgree /\ total <= pos
  BY HeadStep DEF TypeInv
<1>n. /\ Size \in Nat /\ MaxRead \in Nat /\ Pipe \in Nat
      /\ pos \in 0 .. Size /\ total \in 0 .. Size /\ buf.n \in 0 .. MaxRead /\ nw \in 0 .. buf.n
      /\ counted \in 0 .. Size
  BY <1>h, StdoutConstants DEF TypeOK
<1>f. Failures({"net", "timeout"}) \subseteq {"net", "timeout", "canceled"}
      /\ Failures({"net", "timeout", "status"}) \subseteq {"net", "timeout", "status", "canceled"}
  BY DEF Failures
<1> HIDE DEF TypeInv
<1>0. CASE UNCHANGED vars
  BY <1>0, <1>h DEF vars, run, body, pipe, progress, TypeInv, TypeOK, CountsAgree
<1>1. CASE Cancel \/ Terminated
  BY <1>1, <1>h DEF Cancel, Terminated, vars, run, body, pipe, progress, TypeInv, TypeOK, CountsAgree
<1>2. CASE Drain
  BY <1>2, <1>h, <1>n DEF Drain, run, body, progress, TypeInv, TypeOK, CountsAgree
<1>3. CASE Render
  <2>1. line' \in [shown : 0 .. Size, ends : BOOLEAN] /\ renderer' \in {"none", "select", "exited"}
    <3>1. line' = [shown |-> counted, ends |-> FALSE] \/ line' = line
      BY <1>3 DEF Render, RenderTick, RenderExit, Draw
    <3>2. renderer' = renderer \/ renderer' = "exited"
      BY <1>3 DEF Render, RenderTick, RenderExit
    <3> QED BY <3>1, <3>2, <1>h, <1>n, DrawnLine DEF TypeOK
  <2>2. UNCHANGED <<run, pc, body, err, pipe, active, counted, stopped>>
    BY <1>3 DEF Render, RenderTick, RenderExit
  <2> QED BY <2>1, <2>2, <1>h DEF run, body, pipe, TypeInv, TypeOK, CountsAgree
<1>4. CASE LoopStopped
  BY <1>4, <1>h DEF LoopStopped, Return, run, body, pipe, progress, TypeInv, TypeOK, CountsAgree, Following, PCs
<1>5. CASE BeginSource
  BY <1>5, <1>h, <1>n DEF BeginSource, NoInfo, NoBuf, pipe, progress, TypeInv, TypeOK, CountsAgree, Following, PCs
<1>6. CASE ProbeGet \/ ProbeHead
  <2>1. server[src] \in Servers
    BY <1>h DEF TypeOK
  <2>2. info'.size \in Int /\ info'.ranges \in BOOLEAN
    <3>1. \/ info' = OfGet(server[src].get)
          \/ info' = OfHead(server[src].get, server[src].head)
      BY <1>6 DEF ProbeGet, ProbeHead
    <3> QED BY <3>1, <2>1, ProbeTypes
  <2> QED BY <1>6, <2>2, <1>h DEF ProbeGet, ProbeHead, body, pipe, progress, TypeInv, TypeOK, CountsAgree, Following, PCs
<1>7. CASE ProbeFails
  <2>1. PICK e \in Failures({"net", "timeout"}) : AttemptFails(e)
    BY <1>7 DEF ProbeFails
  <2>2. /\ pc' \in {"loop", "returned"} /\ src' \in 1 .. Sources
        /\ err' \in FaultKinds \cup {"none", "canceled", "size", "all"}
    BY <2>1, <1>h, <1>f, TypeAttemptFails DEF FaultKinds
  <2> QED BY <1>7, <2>2, <1>h DEF ProbeFails, body, pipe, progress, TypeInv, TypeOK, CountsAgree, Following, PCs
<1>8. CASE StartStream
  <2>1. total = 0
    BY <1>8, <1>h DEF StartStream, HeadInv, Place, Before
  <2> QED BY <1>8, <2>1, <1>h, <1>n DEF StartStream, Start, run, body, pipe, TypeInv, TypeOK, CountsAgree, Following, PCs
<1>9. CASE Answer
  <2>1. pc = "answer" /\ pc' \in {"copy", "stop"}
        /\ err' \in FaultKinds \cup {"none", "canceled", "size", "all"}
    BY <1>9, <1>h, <1>f DEF Answer, CopyReturns, TypeOK, FaultKinds
  <2> QED BY <1>9, <2>1, <1>h DEF Answer, run, body, pipe, progress, TypeInv, TypeOK, CountsAgree, Following, PCs
<1>10. CASE CopyStopped \/ CopyNext \/ GateOpens \/ GateFails
  <2>1. pc \in {"copy", "gate"} /\ pc' \in {"read", "write", "stop"} /\ (err' = err \/ err' = "canceled")
    BY <1>10 DEF CopyStopped, CopyNext, GateOpens, GateFails, CopyReturns
  <2>2. UNCHANGED <<run, body, pipe, progress>>
    BY <1>10 DEF CopyStopped, CopyNext, GateOpens, GateFails
  <2> QED BY <2>1, <2>2, <1>h DEF run, body, pipe, progress, TypeInv, TypeOK, CountsAgree, Following, PCs
<1>11. CASE Read
  <2>1. PICK n \in 0 .. MaxRead : \E then \in Endings(pos + n) :
          /\ pos + n <= Size /\ pos' = pos + n
          /\ IF n > 0 THEN pc' = "gate" /\ buf' = [n |-> n, then |-> then] /\ UNCHANGED err
             ELSE pc' = "stop" /\ err' = (IF then = "eof" THEN "none" ELSE then) /\ then # "more" /\ UNCHANGED buf
    BY <1>11 DEF Read, CopyReturns
  <2>2. Endings(pos + n) \subseteq {"more", "eof", "net", "timeout", "canceled"}
    BY <1>f DEF Endings
  <2>3. pc = "read" /\ UNCHANGED <<run, nw, total, pipe, progress>>
    BY <1>11 DEF Read
  <2>4. nw = 0
    BY <2>3, <1>h DEF HeadInv, Place
  <2>5. pos' \in 0 .. Size /\ total <= pos'
    BY <2>1, <1>n, <1>h
  <2>6. /\ buf'.n \in 0 .. MaxRead /\ buf'.then \in {"more", "eof", "net", "timeout", "canceled"}
        /\ err' \in FaultKinds \cup {"none", "canceled", "size", "all"}
        /\ pc' \in {"gate", "stop"} /\ nw \in 0 .. buf'.n
    BY <2>1, <2>2, <2>4, <1>n, <1>h DEF TypeOK, FaultKinds
  <2> QED BY <2>3, <2>5, <2>6, <1>h DEF run, pipe, progress, TypeInv, TypeOK, CountsAgree, Following, PCs
<1>12. CASE WriteByte
  <2>1. nw' \in 0 .. buf.n /\ room' \in 0 .. Pipe
    BY <1>12, <1>n, <1>h DEF WriteByte, TypeOK
  <2> QED BY <1>12, <2>1, <1>h DEF WriteByte, run, progress, TypeInv, TypeOK, CountsAgree
<1>13. CASE WriteReturns \/ WriteFails
  <2>1. /\ pc = "write" /\ pc' \in {"copy", "stop"}
        /\ nw' = 0 /\ buf' = NoBuf /\ UNCHANGED <<run, pos, pipe, active, renderer, stopped, line>>
        /\ total' = total + nw /\ counted' = counted + nw
    BY <1>13 DEF WriteReturns, WriteFails, Written, Delta, Add, CopyReturns
  <2>2. err' \in FaultKinds \cup {"none", "canceled", "size", "all"}
    BY <1>13, <1>h DEF WriteReturns, WriteFails, Ending, CopyReturns, TypeOK, FaultKinds
  <2>3. total + nw <= pos
    <3>1. Len(stream) \in Nat /\ Len(stream) + buf.n = pos + nw /\ total + nw = Len(stream)
      BY <2>1, <1>h DEF HeadInv, Counters, Place
    <3> QED BY <3>1, <1>n
  <2>4. counted = total
    BY <2>1, <1>h DEF CountsAgree, Following
  <2>5. total' \in 0 .. Size /\ counted' = total' /\ total' <= pos'
    BY <2>1, <2>3, <2>4, <1>n
  <2> QED BY <2>1, <2>2, <2>5, <1>h, <1>n DEF run, pipe, NoBuf, TypeInv, TypeOK, CountsAgree, PCs
<1>14. CASE StopProgress
  BY <1>14, <1>h DEF StopProgress, Close, run, body, pipe, TypeInv, TypeOK, CountsAgree, Following, PCs
<1>15. CASE StreamReturns
  <2>1. line' \in [shown : 0 .. Size, ends : BOOLEAN] /\ UNCHANGED <<active, counted, renderer, stopped>>
    <3>1. line' = [shown |-> counted, ends |-> TRUE] \/ line' = line
      BY <1>15 DEF StreamReturns, FinalDraw, Draw
    <3>2. UNCHANGED <<active, counted, renderer, stopped>>
      BY <1>15 DEF StreamReturns, FinalDraw
    <3> QED BY <3>1, <3>2, <1>h, <1>n, DrawnLine DEF TypeOK
  <2>2. /\ pc' \in {"loop", "returned"} /\ src' \in 1 .. Sources
        /\ err' \in FaultKinds \cup {"none", "canceled", "size", "all"}
    <3>1. CASE err = "none"
      BY <1>15, <3>1, <1>h DEF StreamReturns, Return, TypeOK
    <3>2. CASE err # "none"
      <4>1. AttemptFails(err)
        BY <1>15, <3>2 DEF StreamReturns
      <4> QED BY <4>1, <3>2, <1>h, StdoutConstants
              DEF TypeOK, AttemptFails, MayFailOver, Surfaced, Return
    <3> QED BY <3>1, <3>2
  <2> QED BY <1>15, <2>1, <2>2, <1>h DEF StreamReturns, body, pipe, TypeInv, TypeOK, CountsAgree, Following, PCs
<1> QED
  BY <1>0, <1>1, <1>2, <1>3, <1>4, <1>5, <1>6, <1>7, <1>8, <1>9, <1>10, <1>11, <1>12, <1>13, <1>14, <1>15
  DEF Next, Compute, Network

\* The types, with no count of bytes beyond the size: neither of the transfer nor
\* of the progress line, through failures and failovers.
THEOREM StdoutTypes == Spec => []TypeOK
<1>1. Init => TypeInv
  BY TypeInit
<1>2. TypeInv /\ [Next]_vars => TypeInv'
  BY TypeStep
<1>3. TypeInv => TypeOK
  BY DEF TypeInv
<1> QED BY <1>1, <1>2, <1>3, PTL DEF Spec

-----------------------------------------------------------------------------
(* The end of the run: what it returned and what the terminal shows.        *)

\* Without a progress line there is no goroutine; outside a stream it is over.
LineInv ==
    /\ ~active => line.ends /\ renderer # "select"
    /\ LineComplete

\* Errors mean what they say, from where they are noticed to the return.
ErrorInv ==
    /\ err = "canceled" \/ buf.then = "canceled" => canceled
    /\ err = "all" => pc = "returned" /\ (src = Sources \/ Len(stream) > 0)

\* The size has been compared before a run can succeed.
WholeInv ==
    pc \in {"stopping", "returned"} /\ err = "none" =>
        Len(stream) <= Size /\ (info.size > 0 => Len(stream) = info.size)

EndInv == TypeInv /\ LineInv /\ ErrorInv /\ WholeInv

LEMMA EndInit == Init => EndInv
  BY TypeInit DEF Init, ProgressInit, NoLine, NoBuf, EndInv, LineInv, LineComplete, ErrorInv, WholeInv

LEMMA LineStep == EndInv /\ [Next]_vars => LineInv'
<1> SUFFICES ASSUME EndInv, [Next]_vars PROVE LineInv'
  OBVIOUS
<1> USE DEF Goto
<1>h. LineInv /\ pc \in PCs
  BY DEF EndInv, TypeInv, TypeOK
<1>1. CASE UNCHANGED vars \/ Terminated \/ Cancel \/ Drain
  BY <1>1, <1>h DEF Terminated, Cancel, Drain, vars, progress, LineInv, LineComplete
<1>2. CASE Render
  <2>1. renderer = "select" /\ UNCHANGED <<pc, active>>
    BY <1>2 DEF Render, RenderTick, RenderExit
  <2> QED BY <2>1, <1>h DEF LineInv, LineComplete
<1>3. CASE LoopStopped \/ BeginSource \/ ProbeGet \/ ProbeHead
  <2>1. pc \in {"loop", "get", "head"} /\ UNCHANGED progress
    BY <1>3 DEF LoopStopped, BeginSource, ProbeGet, ProbeHead
  <2> QED BY <2>1, <1>h DEF progress, LineInv, LineComplete
<1>4. CASE ProbeFails
  <2>1. pc \in {"get", "head"} /\ UNCHANGED progress
    BY <1>4 DEF ProbeFails
  <2> QED BY <2>1, <1>h DEF progress, LineInv, LineComplete
<1>5. CASE StartStream
  BY <1>5, <1>h DEF StartStream, Start, LineInv, LineComplete
<1>6. CASE Answer \/ CopyStopped \/ CopyNext \/ Read \/ GateOpens \/ GateFails \/ WriteByte
             \/ WriteReturns \/ WriteFails \/ StopProgress
  <2>1. pc' \in {"copy", "read", "gate", "write", "stop", "stopping"}
        /\ UNCHANGED <<active, renderer, line>>
    BY <1>6 DEF Answer, CopyStopped, CopyNext, Read, GateOpens, GateFails, WriteByte, WriteReturns,
                WriteFails, Written, Add, StopProgress, Close, CopyReturns, progress
  <2> QED BY <2>1, <1>h DEF LineInv, LineComplete
<1>7. CASE StreamReturns
  <2>1. /\ renderer # "select" /\ UNCHANGED <<active, counted, renderer>>
        /\ active => line' = [shown |-> counted, ends |-> TRUE]
        /\ ~active => line' = line
    BY <1>7 DEF StreamReturns, FinalDraw, Waited, Draw
  <2>2. line'.ends /\ (active => line'.shown = counted) /\ active \in BOOLEAN
    BY <2>1, <1>h DEF LineInv, EndInv, TypeInv, TypeOK
  <2> QED BY <2>1, <2>2 DEF LineInv, LineComplete
<1> QED
  BY <1>1, <1>2, <1>3, <1>4, <1>5, <1>6, <1>7 DEF Next, Compute, Network

\* An attempt that fails with bytes in the stream, or for the last source, ends the
\* run; a context error is only reported as such.
LEMMA EndAttemptFails ==
  ASSUME EndInv, NEW e \in FaultKinds \cup {"canceled", "size"}, AttemptFails(e),
         e = "canceled" => canceled, Len(stream) = total, UNCHANGED <<canceled, buf, stream, info>>
  PROVE  ErrorInv' /\ WholeInv'
<1>h. ErrorInv /\ src \in 1 .. Sources /\ total \in Nat
  BY DEF EndInv, TypeInv, HeadInv, Counters
<1>1. CASE MayFailOver(e)
  BY <1>1, <1>h DEF AttemptFails, Goto, ErrorInv, WholeInv
<1>2. CASE ~MayFailOver(e)
  <2>1. pc' = "returned" /\ err' = Surfaced(e) /\ src' = src
    BY <1>2 DEF AttemptFails, Return, Goto
  <2>2. Surfaced(e) # "none" /\ (Surfaced(e) = "canceled" => canceled)
    BY DEF Surfaced, FaultKinds
  <2>3. Surfaced(e) = "all" => src = Sources \/ Len(stream) > 0
    BY <1>2, <1>h, StdoutConstants DEF Surfaced, MayFailOver, FaultKinds
  <2> QED BY <2>1, <2>2, <2>3, <1>h DEF ErrorInv, WholeInv
<1> QED BY <1>1, <1>2

LEMMA OutcomeStep == EndInv /\ [Next]_vars => ErrorInv' /\ WholeInv'
<1> SUFFICES ASSUME EndInv, [Next]_vars PROVE ErrorInv' /\ WholeInv'
  OBVIOUS
<1> USE DEF Goto
<1>h. ErrorInv /\ WholeInv /\ HeadInv /\ TypeOK
  BY DEF EndInv, TypeInv
<1>1. CASE UNCHANGED vars \/ Terminated \/ Cancel \/ Drain \/ Render
  BY <1>1, <1>h DEF Terminated, Cancel, Drain, Render, vars, run, body, pipe, ErrorInv, WholeInv
<1>2. CASE LoopStopped
  BY <1>2, <1>h DEF LoopStopped, Return, run, body, pipe, ErrorInv, WholeInv
<1>3. CASE BeginSource \/ ProbeGet \/ ProbeHead \/ StartStream
  BY <1>3, <1>h DEF BeginSource, ProbeGet, ProbeHead, StartStream, NoBuf, run, body, pipe, ErrorInv, WholeInv
<1>4. CASE ProbeFails
  <2>1. PICK e \in Failures({"net", "timeout"}) : AttemptFails(e)
    BY <1>4 DEF ProbeFails
  <2>2. e \in FaultKinds \cup {"canceled", "size"} /\ (e = "canceled" => canceled)
    BY <2>1 DEF Failures, FaultKinds
  <2>3. Len(stream) = total
    BY <1>4, <1>h DEF ProbeFails, HeadInv, Place, Empty, Before
  <2>4. UNCHANGED <<canceled, buf, stream, info>>
    BY <1>4, <2>1 DEF ProbeFails, body, pipe
  <2> QED BY <2>1, <2>2, <2>3, <2>4, EndAttemptFails
<1>5. CASE Answer
  <2>1. pc' \in {"copy", "stop"} /\ err' # "all" /\ (err' = "canceled" => canceled)
        /\ UNCHANGED <<canceled, buf>>
    <3>1. CASE err' = err
      BY <1>5, <3>1, <1>h DEF Answer, CopyReturns, ErrorInv, run, body
    <3>2. CASE err' # err
      BY <1>5, <3>2, StdoutConstants DEF Answer, CopyReturns, Failures, FaultKinds, run, body
    <3> QED BY <3>1, <3>2
  <2> QED BY <2>1, <1>h DEF ErrorInv, WholeInv
<1>6. CASE CopyStopped \/ CopyNext \/ GateOpens \/ GateFails \/ WriteByte
  <2>1. pc' \in {"read", "write", "stop"} /\ UNCHANGED <<canceled, buf>>
    BY <1>6 DEF CopyStopped, CopyNext, GateOpens, GateFails, WriteByte, CopyReturns, run, body
  <2>2. pc # "returned" /\ (err' = err \/ (err' = "canceled" /\ canceled))
    BY <1>6 DEF CopyStopped, CopyNext, GateOpens, GateFails, GateStopped, WriteByte, CopyReturns
  <2> QED BY <2>1, <2>2, <1>h DEF ErrorInv, WholeInv
<1>7. CASE Read
  <2>1. PICK n \in 0 .. MaxRead : \E then \in Endings(pos + n) :
          IF n > 0 THEN pc' = "gate" /\ buf' = [n |-> n, then |-> then] /\ UNCHANGED err
          ELSE pc' = "stop" /\ err' = (IF then = "eof" THEN "none" ELSE then) /\ UNCHANGED buf
    BY <1>7 DEF Read, CopyReturns
  <2>2. PICK then \in Endings(pos + n) :
          IF n > 0 THEN pc' = "gate" /\ buf' = [n |-> n, then |-> then] /\ UNCHANGED err
          ELSE pc' = "stop" /\ err' = (IF then = "eof" THEN "none" ELSE then) /\ UNCHANGED buf
    BY <2>1
  <2>3. (then = "canceled" => canceled) /\ then # "all"
    BY StdoutConstants DEF Endings, Failures, FaultKinds
  <2>4. pc = "read" /\ UNCHANGED canceled
    BY <1>7 DEF Read, run
  <2> QED BY <2>2, <2>3, <2>4, <1>h DEF ErrorInv, WholeInv
<1>8. CASE WriteReturns \/ WriteFails
  <2>1. pc = "write" /\ pc' \in {"copy", "stop"} /\ buf'.then = "more" /\ UNCHANGED canceled
    BY <1>8 DEF WriteReturns, WriteFails, Written, CopyReturns, NoBuf, run
  <2>2. err' \in {err, "none", buf.then, "disk"}
    BY <1>8 DEF WriteReturns, WriteFails, Ending, CopyReturns
  <2>3. buf.then # "all" /\ err # "all"
    BY <2>1, <1>h DEF TypeOK, ErrorInv
  <2> QED BY <2>1, <2>2, <2>3, <1>h DEF ErrorInv, WholeInv
<1>9. CASE StopProgress
  <2>1. /\ pc = "stop" /\ pc' = "stopping" /\ UNCHANGED <<canceled, buf, stream, info>>
        /\ err' = (IF err = "none" /\ ~SizeOK THEN "size" ELSE err)
    BY <1>9 DEF StopProgress, run, body, pipe
  <2>2. Len(stream) = total /\ total <= Size
    BY <2>1, <1>h, StdoutConstants DEF HeadInv, Place, TypeOK
  <2> QED BY <2>1, <2>2, <1>h DEF SizeOK, ErrorInv, WholeInv
<1>10. CASE StreamReturns
  <2>1. pc = "stopping" /\ Len(stream) = total /\ UNCHANGED <<canceled, buf, stream, info>>
    BY <1>10, <1>h DEF StreamReturns, HeadInv, Place, body, pipe
  <2>2. CASE err = "none"
    <3>1. pc' = "returned" /\ err' = "none"
      BY <1>10, <2>2 DEF StreamReturns, Return
    <3> QED BY <2>1, <2>2, <3>1, <1>h DEF ErrorInv, WholeInv
  <2>3. CASE err # "none"
    <3>1. AttemptFails(err)
      BY <1>10, <2>3 DEF StreamReturns
    <3>2. err \in FaultKinds \cup {"canceled", "size"} /\ (err = "canceled" => canceled)
      BY <2>1, <2>3, <1>h DEF TypeOK, ErrorInv
    <3> QED BY <2>1, <3>1, <3>2, EndAttemptFails
  <2> QED BY <2>2, <2>3
<1> QED
  BY <1>1, <1>2, <1>3, <1>4, <1>5, <1>6, <1>7, <1>8, <1>9, <1>10 DEF Next, Compute, Network

LEMMA EndInvariant == Spec => []EndInv
<1>1. Init => EndInv
  BY EndInit
<1>2. EndInv /\ [Next]_vars => EndInv'
  BY TypeStep, LineStep, OutcomeStep DEF EndInv
<1> QED BY <1>1, <1>2, PTL DEF Spec

\* "A shortfall is reported" (download.go:516): success means that the whole
\* resource went out, if the server told its size.
THEOREM StdoutNilMeansWhole == Spec => []NilMeansWhole
<1>1. EndInv => NilMeansWhole
  <2> SUFFICES ASSUME EndInv, pc = "returned", err = "none", info.size = Size PROVE Len(stream) = Size
    BY DEF NilMeansWhole, Returned
  <2>1. Size > 0 => Len(stream) = Size
    BY DEF EndInv, WholeInv
  <2>2. CASE Size = 0
    <3>1. Len(stream) <= 0
      BY <2>2 DEF EndInv, WholeInv
    <3> QED BY <3>1, <2>2 DEF EndInv, TypeInv, HeadInv, Counters
  <2> QED BY <2>1, <2>2, StdoutConstants
<1> QED BY <1>1, EndInvariant, PTL

\* The run gives up only for a reason, and says which (download.go:462).
THEOREM StdoutJustified == Spec => []Justified
<1>1. EndInv => Justified
  <2>1. EndInv => (Len(stream) > 0 => stream # <<>>)
    BY DEF EndInv, TypeInv, HeadInv, Counters
  <2> QED BY <2>1 DEF EndInv, ErrorInv, Justified
<1> QED BY <1>1, EndInvariant, PTL

\* "Stop halts rendering and prints a final line" (progress.go:76): outside a
\* stream no goroutine draws, and the line is complete and shows what was written.
THEOREM StdoutLineComplete == Spec => []LineComplete
<1>1. EndInv => LineComplete
  BY DEF EndInv, LineInv
<1> QED BY <1>1, EndInvariant, PTL

=============================================================================
