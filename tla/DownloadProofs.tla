--------------------------- MODULE DownloadProofs ---------------------------
(* Theorems about Download, for every number of sources, every resource and *)
(* every set of faults, changes in mid-run and power failures included.     *)
EXTENDS Download, FiniteSetTheorems, TLAPS

-----------------------------------------------------------------------------
\* Between the verification and the rename nothing but the run touches the part
\* file, and the run does not: what is renamed is what was verified.
Vouched == pc = "rename" => ChecksumOK(part)

LEMMA VouchedInit == Init => Vouched
  BY DEF Init, Vouched

LEMMA AttemptErrorLeaves ==
  ASSUME NEW e, AttemptError(e)
  PROVE  pc' \in {"source", "idle"}
  BY DEF AttemptError, EndRun

LEMMA VouchedStep == Vouched /\ [Next]_vars => Vouched'
<1> SUFFICES ASSUME Vouched, [Next]_vars PROVE Vouched'
  OBVIOUS
<1> USE DEF Vouched
<1>1. CASE UNCHANGED vars
  BY <1>1 DEF vars, run, files, ChecksumOK, WholeFile
<1>2. CASE Environment
  <2>1. CASE StartRun
    BY <2>1 DEF StartRun
  <2>2. CASE Cancel
    BY <2>2 DEF Cancel, files, ChecksumOK, WholeFile
  <2>3. CASE Crash
    BY <2>3 DEF Crash, EndRun
  <2>4. CASE RemoteChange
    BY <2>4 DEF RemoteChange, files, run, ChecksumOK, WholeFile
  <2>5. CASE LosePart
    BY <2>5 DEF LosePart, run
  <2> QED
    BY <1>2, <2>1, <2>2, <2>3, <2>4, <2>5 DEF Environment
<1>3. CASE Attempt
  <2>1. CASE ProbePrimary
    BY <2>1 DEF ProbePrimary, EndRun, GoTo
  <2>2. CASE ProbePrimaryFails
    BY <2>2 DEF ProbePrimaryFails, EndRun, GoTo
  <2>3. CASE SourceStopped
    BY <2>3 DEF SourceStopped, EndRun
  <2>4. CASE SourceReuse
    BY <2>4 DEF SourceReuse, Strategy, GoTo
  <2>5. CASE SourceProbe
    BY <2>5 DEF SourceProbe, Strategy, GoTo
  <2>6. CASE SourceProbeFails
    BY <2>6, AttemptErrorLeaves DEF SourceProbeFails
  <2>7. CASE GateRefuses
    BY <2>7, AttemptErrorLeaves DEF GateRefuses
  <2>8. CASE GateResumes \/ GateFresh
    BY <2>8 DEF GateResumes, GateFresh, GoTo
  <2>9. CASE GateFails
    BY <2>9, AttemptErrorLeaves DEF GateFails
  <2> QED
    BY <1>3, <2>1, <2>2, <2>3, <2>4, <2>5, <2>6, <2>7, <2>8, <2>9 DEF Attempt
<1>4. CASE Segmented
  <2>1. CASE Flush
    BY <2>1 DEF Flush, run
  <2>2. CASE PoolReturns
    BY <2>2 DEF PoolReturns, GoTo
  <2>3. CASE PoolFails
    BY <2>3, AttemptErrorLeaves DEF PoolFails
  <2>4. ASSUME NEW c \in 1 .. Concurrency, Receive(c)
        PROVE  Vouched'
    BY <2>4 DEF Receive
  <2> QED
    BY <1>4, <2>1, <2>2, <2>3, <2>4 DEF Segmented
<1>5. CASE Stream
  <2>1. CASE StreamFails
    BY <2>1, AttemptErrorLeaves DEF StreamFails
  <2>2. CASE StreamStart \/ StreamRead \/ StreamEnd \/ StreamRetry
    BY <2>2 DEF StreamStart, StreamRead, StreamEnd, StreamRetry, GoTo, run
  <2> QED
    BY <1>5, <2>1, <2>2 DEF Stream
<1>6. CASE Finish
  <2>1. CASE VerifyFails
    BY <2>1, AttemptErrorLeaves DEF VerifyFails
  <2>2. CASE Verified
    BY <2>2 DEF Verified, VerifyChecksum, GoTo, files, ChecksumOK, WholeFile
  <2>3. CASE Rename
    BY <2>3 DEF Rename, GoTo
  <2>4. CASE RenameFails
    BY <2>4, AttemptErrorLeaves DEF RenameFails
  <2>5. CASE Remove
    BY <2>5 DEF Remove, EndRun
  <2>6. CASE RemoveFails
    BY <2>6, AttemptErrorLeaves DEF RemoveFails, EndRun
  <2> QED
    BY <1>6, <2>1, <2>2, <2>3, <2>4, <2>5, <2>6 DEF Finish
<1> QED
  BY <1>1, <1>2, <1>3, <1>4, <1>5, <1>6 DEF Next

-----------------------------------------------------------------------------
\* Only the rename touches the output.
LEMMA OutputStep ==
  ASSUME Vouched, [Next]_vars, output' # output
  PROVE  opts.checksum # None => output' = WholeFile(opts.checksum)
<1>1. CASE Rename
  BY <1>1 DEF Rename, Vouched, ChecksumOK
<1>2. CASE ~Rename
  <2>1. ASSUME Environment \/ Attempt PROVE output' = output
    BY <2>1 DEF Environment, StartRun, Cancel, Crash, RemoteChange, LosePart, Attempt,
      ProbePrimary, ProbePrimaryFails, SourceStopped, SourceReuse, SourceProbe, SourceProbeFails,
      GateRefuses, GateResumes, GateFresh, GateFails, files
  <2>2. ASSUME Segmented \/ Stream PROVE output' = output
    BY <2>2 DEF Segmented, Flush, PoolReturns, PoolFails, Receive, Stream, StreamStart,
      StreamRead, StreamEnd, StreamRetry, StreamFails, files
  <2>3. ASSUME Finish PROVE output' = output
    BY <1>2, <2>3 DEF Finish, VerifyFails, Verified, RenameFails, Remove, RemoveFails, files
  <2>4. ASSUME UNCHANGED vars PROVE output' = output
    BY <2>4 DEF vars, files
  <2> QED
    BY <2>1, <2>2, <2>3, <2>4 DEF Next
<1> QED
  BY <1>1, <1>2

\* Under --checksum the output only ever becomes the file of that checksum
\* (verifyChecksum before os.Rename), whatever else goes wrong.
THEOREM DownloadVerified == Spec => FinalVerified
<1>1. Vouched /\ [Next]_vars =>
        [output' # output /\ opts.checksum # None => output' = WholeFile(opts.checksum)]_vars
  BY OutputStep
<1> QED
  BY <1>1, VouchedInit, VouchedStep, PTL DEF Spec, FinalVerified

-----------------------------------------------------------------------------
\* A cancelled run begins no source.
LEMMA CancelStep ==
  ASSUME Next, canceled, canceled'
  PROVE  src' = src
<1>0. ASSUME NEW e, AttemptError(e) PROVE src' = src
  BY <1>0 DEF AttemptError, FailsOver, EndRun
<1>1. CASE Environment
  BY <1>1 DEF Environment, StartRun, Cancel, Crash, EndRun, RemoteChange, LosePart, run
<1>2. CASE Attempt
  BY <1>0, <1>2 DEF Attempt, ProbePrimary, ProbePrimaryFails, SourceStopped, SourceReuse,
    SourceProbe, SourceProbeFails, GateRefuses, GateResumes, GateFresh, GateFails,
    EndRun, GoTo, Strategy
<1>3. CASE Segmented
  BY <1>0, <1>3 DEF Segmented, Flush, PoolReturns, PoolFails, Receive, GoTo, run
<1>4. CASE Stream
  BY <1>0, <1>4 DEF Stream, StreamStart, StreamRead, StreamEnd, StreamRetry, StreamFails, GoTo, run
<1>5. CASE Finish
  BY <1>0, <1>5 DEF Finish, VerifyFails, Verified, Rename, RenameFails, Remove, RemoveFails,
    EndRun, GoTo
<1> QED
  BY <1>1, <1>2, <1>3, <1>4, <1>5 DEF Next

\* "Cancellation never burns a mirror": the failover loop stops at the context,
\* whatever error the cancelled attempt came back with.
THEOREM DownloadCancel == Spec => CancelBurnsNoMirror
<1>1. [Next]_vars => [canceled /\ canceled' => src' = src]_vars
  BY CancelStep
<1> QED
  BY <1>1, PTL DEF Spec, CancelBurnsNoMirror

-----------------------------------------------------------------------------
\* Sizes and offsets of the versions there are.
LEMMA OffsetFacts ==
  /\ Offsets \subseteq Nat
  /\ \A v \in Versions : SizeOf[v] \in Nat \ {0} /\ 0 .. SizeOf[v] \subseteq Offsets
  /\ \A n \in Offsets : 0 .. n \subseteq Offsets
  BY DownloadConstants DEF Offsets

LEMMA RemoteFacts ==
  ASSUME NEW r \in Remotes
  PROVE  r.ver \in Versions /\ SizeOf[r.ver] \in Nat \ {0} /\ 0 .. SizeOf[r.ver] \subseteq Offsets
  BY DownloadConstants, OffsetFacts

LEMMA FileFacts ==
  ASSUME NEW f \in Contents
  PROVE  FileSize(f) \in Offsets /\ f \in [0 .. FileSize(f) - 1 -> Versions \cup {Hole}]
<1>1. PICK n \in Offsets : f \in [0 .. n - 1 -> Versions \cup {Hole}]
  BY DEF Contents
<1>2. n \in Nat
  BY OffsetFacts
<1>3. Cardinality(0 .. n - 1) = n
  BY <1>2, FS_Interval
<1> QED
  BY <1>1, <1>3 DEF FileSize

LEMMA MinOfTwo ==
  ASSUME NEW a \in Int, NEW b \in Int
  PROVE  Min({a, b}) = IF a <= b THEN a ELSE b
<1> DEFINE m == IF a <= b THEN a ELSE b
<1>1. m \in {a, b} /\ \A y \in {a, b} : m <= y
  OBVIOUS
<1>2. \A x \in {a, b} : (\A y \in {a, b} : x <= y) => x = m
  OBVIOUS
<1> QED
  BY <1>1, <1>2 DEF Min

\* A product decides a factor.
LEMMA FactorLess ==
  ASSUME NEW a \in Int, NEW b \in Int, NEW p \in Nat, a * p < b * p
  PROVE  a < b
<1> SUFFICES ASSUME a >= b PROVE FALSE
  OBVIOUS
<1>1. PICK k \in Nat : a = b + k
  <2> WITNESS a - b \in Nat
  <2> QED
    OBVIOUS
<1>2. a * p = b * p + k * p /\ k * p >= 0
  BY <1>1
<1> QED
  BY <1>2

LEMMA FactorMonotone ==
  ASSUME NEW a \in Int, NEW b \in Int, NEW p \in Nat, a <= b
  PROVE  a * p <= b * p
<1>1. PICK k \in Nat : b = a + k
  <2> WITNESS b - a \in Nat
  <2> QED
    OBVIOUS
<1>2. b * p = a * p + k * p /\ k * p >= 0
  BY <1>1
<1> QED
  BY <1>2

\* Chunks lie inside the file and apart from each other.
Inside(s) == \A c \in DOMAIN s.chunks : s.chunks[c].end < s.size
Apart(s) ==
    \A c, d \in DOMAIN s.chunks : c # d =>
        s.chunks[c].end < s.chunks[d].start \/ s.chunks[d].end < s.chunks[c].start

\* planChunks, for the sizes it is called with.
LEMMA FreshPlanFacts ==
  ASSUME NEW size \in Nat \ {0}
  PROVE  /\ DOMAIN FreshPlan(size) \subseteq 1 .. Concurrency
         /\ \A c \in DOMAIN FreshPlan(size) :
              /\ FreshPlan(size)[c] \in [start : 0 .. size - 1, end : 0 .. size - 1, done : {0}]
              /\ FreshPlan(size)[c].start <= FreshPlan(size)[c].end
         /\ \A c, d \in DOMAIN FreshPlan(size) :
              c < d => FreshPlan(size)[c].end < FreshPlan(size)[d].start
<1> DEFINE n == Min({Concurrency, size})
           per == (size + n - 1) \div n
           count == (size + per - 1) \div per
<1>1. n \in 1 .. size /\ n <= Concurrency /\ n \in Nat /\ Concurrency \in Nat
  BY MinOfTwo, DownloadConstants
<1> HIDE DEF n
<1>2. per \in Int /\ n * per <= size + n - 1 /\ size + n - 1 < n * per + n
  BY <1>1
<1> HIDE DEF per
<1>3. size <= n * per /\ per >= 1 /\ per \in Nat
  BY <1>1, <1>2
<1>4. count \in Int /\ count * per <= size + per - 1
  BY <1>3
<1> HIDE DEF count
<1>5. (count - 1) * per <= size - 1
  BY <1>3, <1>4
<1>6. count <= n
  <2>1. (count - 1) * per < n * per
    BY <1>1, <1>3, <1>4, <1>5
  <2> QED
    BY <2>1, <1>1, <1>3, <1>4, FactorLess
<1>7. FreshPlan(size) = [i \in 1 .. count |->
         [start |-> (i - 1) * per, end |-> Min({i * per, size}) - 1, done |-> 0]]
  BY DEF FreshPlan, count, per, n
<1>8. ASSUME NEW i \in 1 .. count
      PROVE  /\ i \in Int /\ (i - 1) * per \in 0 .. size - 1 /\ i * per = (i - 1) * per + per
             /\ Min({i * per, size}) = IF i * per <= size THEN i * per ELSE size
  <2>1. (i - 1) * per <= (count - 1) * per
    BY <1>3, <1>4, FactorMonotone
  <2>2. i \in Int /\ (i - 1) * per \in Int /\ i * per \in Int /\ i * per = (i - 1) * per + per
    BY <1>3, <1>4
  <2>3. 0 <= (i - 1) * per
    BY <1>3, <1>4
  <2>4. Min({i * per, size}) = IF i * per <= size THEN i * per ELSE size
    BY <2>2, MinOfTwo
  <2>5. (count - 1) * per \in Int
    BY <1>3, <1>4
  <2>6. (i - 1) * per \in 0 .. size - 1
    BY <1>5, <2>1, <2>2, <2>3, <2>5
  <2> QED
    BY <2>2, <2>4, <2>6
<1>9. ASSUME NEW c \in 1 .. count, NEW d \in 1 .. count, c < d
      PROVE  c * per <= (d - 1) * per /\ c * per \in Int /\ (d - 1) * per \in Int
  BY <1>3, <1>4, <1>9, FactorMonotone
<1>10. DOMAIN FreshPlan(size) = 1 .. count
  BY <1>7
<1>11. ASSUME NEW c \in 1 .. count
       PROVE  /\ FreshPlan(size)[c] \in [start : 0 .. size - 1, end : 0 .. size - 1, done : {0}]
              /\ FreshPlan(size)[c].start <= FreshPlan(size)[c].end
              /\ FreshPlan(size)[c].start = (c - 1) * per
              /\ FreshPlan(size)[c].end < c * per
  BY <1>3, <1>7, <1>8
<1>12. ASSUME NEW c \in 1 .. count, NEW d \in 1 .. count, c < d
       PROVE  FreshPlan(size)[c].end < FreshPlan(size)[d].start
  <2>1. FreshPlan(size)[c].end \in Int /\ FreshPlan(size)[d].start \in Int
    BY <1>11
  <2> QED
    BY <2>1, <1>9, <1>11, <1>12
<1> QED
  BY <1>1, <1>4, <1>6, <1>10, <1>11, <1>12

LEMMA FreshStateFacts ==
  ASSUME NEW i, i.size \in Offsets \ {0}, i.etag \in Nat, i.lm \in Nat
  PROVE  /\ IsState(FreshState(i)) /\ Inside(FreshState(i)) /\ Apart(FreshState(i))
         /\ Counted(FreshState(i)) = {}
<1>1. i.size \in Nat \ {0} /\ 0 .. i.size \subseteq Offsets
  BY OffsetFacts
<1> DEFINE s == FreshState(i)
<1>2. /\ DOMAIN s = {"size", "etag", "lm", "chunks"} /\ s.size = i.size /\ s.etag = i.etag
      /\ s.lm = i.lm /\ s.chunks = FreshPlan(i.size)
  BY DEF FreshState
<1> HIDE DEF s
<1>3. \A c \in DOMAIN s.chunks :
         /\ s.chunks[c] \in [start : 0 .. i.size - 1, end : 0 .. i.size - 1, done : {0}]
         /\ s.chunks[c].start <= s.chunks[c].end
  BY <1>1, <1>2, FreshPlanFacts
<1>4. \A c \in DOMAIN s.chunks :
         /\ s.chunks[c] \in ChunkStates
         /\ s.chunks[c].start + s.chunks[c].done <= s.chunks[c].end + 1
         /\ s.chunks[c].end < s.size
  BY <1>1, <1>2, <1>3 DEF ChunkStates
<1>5. DOMAIN s.chunks \subseteq 1 .. Concurrency
  BY <1>1, <1>2, FreshPlanFacts
<1>6. IsState(s)
  BY <1>2, <1>4, <1>5 DEF IsState
<1>7. Inside(s)
  BY <1>4 DEF Inside
<1>8. Apart(s)
  <2>1. ASSUME NEW c \in DOMAIN s.chunks, NEW d \in DOMAIN s.chunks, c # d
        PROVE  c < d \/ d < c
    BY <1>5, <2>1, DownloadConstants
  <2> QED
    BY <1>1, <1>2, <2>1, FreshPlanFacts DEF Apart
<1>9. Counted(s) = {}
  <2>1. \A c \in DOMAIN s.chunks : s.chunks[c].start .. s.chunks[c].start + s.chunks[c].done - 1 = {}
    BY <1>1, <1>3
  <2> QED
    BY <2>1 DEF Counted
<1> QED
  BY <1>6, <1>7, <1>8, <1>9 DEF s

-----------------------------------------------------------------------------
\* The type invariant in three parts, with what keeps it: a transfer runs with a
\* streamable probe, a stream with an open response.
Infos == [size : {Unknown} \cup Offsets, etag : Nat, lm : Nat, ranges : BOOLEAN]
Sound(s) == IsState(s) /\ Inside(s) /\ Apart(s)
DiskOK == part \in Contents /\ output \in Contents /\ Sound(sidecar)
RunOK ==
    /\ pc \in PCs /\ opts \in Options /\ canceled \in BOOLEAN /\ src \in 1 .. Sources
    /\ info \in Infos /\ Sound(st) /\ result \in Results
    /\ conn \in [1 .. Concurrency -> Versions \cup {None}]
    /\ pc \in {"gate", "pool"} => Streamable(info)
    /\ pc = "streaming" => conn[1] \in Versions
WorldOK ==
    /\ remote \in [1 .. Sources -> Remotes]
    /\ crashes \in 0 .. MaxCrashes /\ changes \in 0 .. MaxChanges
TypeInv == DiskOK /\ RunOK /\ WorldOK

LEMMA TypeInvTypes == TypeInv => TypeOK
  BY DEF TypeInv, DiskOK, RunOK, WorldOK, Sound, Infos, TypeOK

LEMMA RemoteOK ==
  ASSUME WorldOK, NEW s \in 1 .. Sources
  PROVE  /\ remote[s] \in Remotes /\ remote[s].ver \in Versions
         /\ SizeOf[remote[s].ver] \in Nat \ {0}
         /\ 0 .. SizeOf[remote[s].ver] \subseteq Offsets
  BY RemoteFacts DEF WorldOK

LEMMA FirstOne == 1 \in 1 .. Sources /\ 1 \in 1 .. Concurrency
  BY DownloadConstants

\* Some version exists, so an empty file and an empty state have a size.
LEMMA EmptyOK ==
  ASSUME remote \in [1 .. Sources -> Remotes]
  PROVE  0 \in Offsets /\ Sound(NoState) /\ NoInfo \in Infos /\ NoFile \in Contents
<1>1. PICK v \in Versions : SizeOf[v] \in Nat /\ 0 .. SizeOf[v] \subseteq Offsets
  BY FirstOne, RemoteFacts
<1>2. 0 \in Offsets
  BY <1>1
<1>3. NoFile \in Contents
  <2>1. NoFile \in [0 .. 0 - 1 -> Versions \cup {Hole}]
    BY DEF NoFile
  <2> QED
    BY <1>2, <2>1 DEF Contents
<1> QED
  BY <1>2, <1>3 DEF Sound, IsState, Inside, Apart, NoState, NoInfo, Infos, None

LEMMA NoConnOK == NoConn \in [1 .. Concurrency -> Versions \cup {None}]
  BY DEF NoConn

LEMMA InfoOK ==
  ASSUME NEW r \in Remotes, NEW i \in InfosOf(r)
  PROVE  i \in Infos
<1>1. SizeOf[r.ver] \in Offsets
  BY RemoteFacts
<1>2. r.etag \in Nat /\ r.lm \in Nat /\ r.ranges \in BOOLEAN
  BY DownloadConstants
<1>3. OfGet(Answered(r)) \in Infos
  BY <1>1, <1>2 DEF OfGet, Answered, Infos
<1>4. OfHead(OfGet(Refusal), Refusal) \in Infos
  BY DEF OfHead, OfGet, Refusal, Override, Infos, None
<1> QED
  BY <1>3, <1>4 DEF InfosOf

LEMMA FailuresOK == ASSUME NEW k PROVE Failures(k) \subseteq Results
  BY DEF Failures, Results

LEMMA PoolErrorsOK == PoolErrors \subseteq Results
  BY FailuresOK DEF PoolErrors, Results

\* The initial states and every step.
LEMMA TypeInit == Init => TypeInv
<1> SUFFICES ASSUME Init PROVE TypeInv
  OBVIOUS
<1>1. DiskOK
  BY EmptyOK DEF Init, DiskOK
<1>2. RunOK
  BY EmptyOK, NoConnOK, FirstOne DEF Init, RunOK, PCs, Results
<1>3. WorldOK
  BY DownloadConstants DEF Init, WorldOK
<1> QED
  BY <1>1, <1>2, <1>3 DEF TypeInv

LEMMA EndRunOK ==
  ASSUME TypeInv, NEW r \in Results, EndRun(r)
  PROVE  RunOK'
  BY EmptyOK, NoConnOK DEF TypeInv, RunOK, WorldOK, EndRun, NewAttempt, PCs

LEMMA AttemptErrorOK ==
  ASSUME TypeInv, NEW e \in Results, AttemptError(e)
  PROVE  RunOK'
<1>1. CASE EndRun(e)
  BY <1>1, EndRunOK
<1>2. CASE FailsOver(e) /\ src' = src + 1 /\ pc' = "source" /\ NewAttempt /\ UNCHANGED <<opts, canceled, result>>
  BY <1>2, EmptyOK, NoConnOK, DownloadConstants DEF TypeInv, RunOK, WorldOK, FailsOver, NewAttempt, PCs
<1> QED
  BY <1>1, <1>2 DEF AttemptError

LEMMA DiskStutter == ASSUME DiskOK, UNCHANGED files PROVE DiskOK'
  BY DEF DiskOK, files, Sound, IsState, Inside, Apart

LEMMA RunStutter == ASSUME RunOK, UNCHANGED run PROVE RunOK'
  BY DEF RunOK, run, Sound, IsState, Inside, Apart

LEMMA WorldStutter == ASSUME WorldOK, UNCHANGED <<remote, bounds>> PROVE WorldOK'
  BY DEF WorldOK, bounds

\* A step to another place of the run that leaves st and conn alone.
LEMMA GoToOK ==
  ASSUME RunOK, NEW p \in PCs, GoTo(p), UNCHANGED <<st, conn>>, info' \in Infos,
         p \in {"gate", "pool"} => Streamable(info'), p # "streaming"
  PROVE  RunOK'
  BY DEF RunOK, GoTo, Sound, IsState, Inside, Apart

\* A byte more of a sound state.
LEMMA OneMoreByte ==
  ASSUME NEW s, Sound(s), NEW c \in DOMAIN s.chunks, NEW n \in Offsets,
         s.chunks[c].start + s.chunks[c].done <= s.chunks[c].end,
         s.chunks[c].start + s.chunks[c].done < n
  PROVE  LET t == [s EXCEPT !.chunks[c].done = @ + 1] IN Sound(t)
<1> DEFINE t == [s EXCEPT !.chunks[c].done = @ + 1]
<1>1. /\ DOMAIN t = DOMAIN s /\ DOMAIN t.chunks = DOMAIN s.chunks
      /\ t.size = s.size /\ t.etag = s.etag /\ t.lm = s.lm
      /\ \A d \in DOMAIN s.chunks : t.chunks[d] = IF d = c THEN [s.chunks[c] EXCEPT !.done = @ + 1] ELSE s.chunks[d]
  BY DEF Sound, IsState
<1>2. \A d \in DOMAIN s.chunks : s.chunks[d] \in ChunkStates
  BY DEF Sound, IsState
<1>3. /\ s.chunks[c].start \in Nat /\ s.chunks[c].done \in Nat /\ n \in Nat /\ 0 .. n \subseteq Offsets
      /\ s.chunks[c].end \in Nat
  BY <1>2, OffsetFacts DEF ChunkStates
<1>4. s.chunks[c].done + 1 \in Offsets
  BY <1>3
<1>5. /\ t.chunks[c] \in ChunkStates
      /\ t.chunks[c].start = s.chunks[c].start /\ t.chunks[c].end = s.chunks[c].end
      /\ t.chunks[c].done = s.chunks[c].done + 1
  BY <1>1, <1>2, <1>4 DEF ChunkStates
<1> HIDE DEF t
<1>6. IsState(t)
  BY <1>1, <1>3, <1>5 DEF Sound, IsState
<1>7. Inside(t)
  BY <1>1, <1>5 DEF Sound, Inside
<1>8. Apart(t)
  BY <1>1, <1>5 DEF Sound, Apart
<1> QED
  BY <1>6, <1>7, <1>8 DEF Sound, t

LEMMA TypeStep == TypeInv /\ [Next]_vars => TypeInv'
<1> SUFFICES ASSUME TypeInv, [Next]_vars PROVE TypeInv'
  OBVIOUS
<1>0. DiskOK /\ RunOK /\ WorldOK
  BY DEF TypeInv
<1> USE DEF TypeInv
<1>1. CASE UNCHANGED vars
  BY <1>1, DiskStutter, RunStutter, WorldStutter DEF vars
<1>2. CASE StartRun
  <2>1. RunOK'
    BY <1>0, <1>2, EmptyOK, NoConnOK, FirstOne DEF StartRun, RunOK, WorldOK, NewAttempt, PCs, Results
  <2> QED
    BY <1>0, <1>2, <2>1, DiskStutter, WorldStutter DEF StartRun
<1>3. CASE Cancel
  <2>1. RunOK'
    BY <1>0, <1>3 DEF Cancel, RunOK, Sound, IsState, Inside, Apart
  <2> QED
    BY <1>0, <1>3, <2>1, DiskStutter, WorldStutter DEF Cancel
<1>4. CASE Crash
  <2>1. RunOK'
    BY <1>4, EndRunOK DEF Crash, Results
  <2>2. part' \in Contents
    <3>1. PICK n \in Offsets : part \in [0 .. n - 1 -> Versions \cup {Hole}]
      BY <1>0 DEF DiskOK, Contents
    <3>2. part' \in [0 .. n - 1 -> Versions \cup {Hole}]
      BY <1>4, <3>1 DEF Crash
    <3> QED
      BY <3>1, <3>2 DEF Contents
  <2>3. DiskOK'
    BY <1>0, <1>4, <2>2 DEF Crash, DiskOK, Sound, IsState, Inside, Apart
  <2>4. WorldOK'
    BY <1>0, <1>4, DownloadConstants DEF Crash, WorldOK
  <2> QED
    BY <2>1, <2>3, <2>4
<1>5. CASE RemoteChange
  <2>1. WorldOK'
    BY <1>0, <1>5, DownloadConstants DEF RemoteChange, WorldOK
  <2> QED
    BY <1>0, <1>5, <2>1, DiskStutter, RunStutter DEF RemoteChange
<1>6. CASE LosePart
  <2>1. DiskOK'
    BY <1>0, <1>6, EmptyOK DEF LosePart, DiskOK, WorldOK, Sound, IsState, Inside, Apart
  <2> QED
    BY <1>0, <1>6, <2>1, RunStutter, WorldStutter DEF LosePart
<1>7. CASE Attempt
  <2>1. UNCHANGED <<output, sidecar, remote, bounds>>
    BY <1>7 DEF Attempt, ProbePrimary, ProbePrimaryFails, SourceStopped, SourceReuse, SourceProbe,
      SourceProbeFails, GateRefuses, GateResumes, GateFresh, GateFails, files
  <2>2. WorldOK'
    BY <1>0, <2>1, WorldStutter
  <2>3. part' \in Contents
    <3>1. CASE GateFresh
      <4>1. info.size \in Offsets \ {0}
        BY <1>0, <3>1 DEF GateFresh, RunOK, Streamable, Infos, Unknown
      <4>2. part \in [DOMAIN part -> Versions \cup {Hole}]
        BY <1>0 DEF DiskOK, Contents
      <4>3. part' \in [0 .. info.size - 1 -> Versions \cup {Hole}]
        BY <3>1, <4>1, <4>2 DEF GateFresh, Resize
      <4> QED
        BY <4>1, <4>3 DEF Contents
    <3>2. CASE ~GateFresh
      BY <1>0, <1>7, <3>2 DEF Attempt, ProbePrimary, ProbePrimaryFails, SourceStopped, SourceReuse,
        SourceProbe, SourceProbeFails, GateRefuses, GateResumes, GateFails, files, DiskOK
    <3> QED
      BY <3>1, <3>2
  <2>4. DiskOK'
    BY <1>0, <2>1, <2>3 DEF DiskOK, Sound, IsState, Inside, Apart
  <2>5. {"failed", "skipped", "canceled", "changed"} \subseteq Results
    BY DEF Results
  <2>6. info \in Infos
    BY <1>0 DEF RunOK
  <2>7. CASE ProbePrimary
    <3>1. PICK i \in InfosOf(remote[1]) :
            IF AlreadyComplete(i) THEN EndRun("skipped")
            ELSE GoTo("source") /\ info' = i /\ UNCHANGED <<st, conn>>
      BY <2>7 DEF ProbePrimary
    <3>2. i \in Infos
      BY <1>0, InfoOK, RemoteOK, FirstOne
    <3>3. RunOK'
      BY <1>0, <2>5, <3>1, <3>2, EndRunOK, GoToOK DEF PCs
    <3> QED
      BY <2>2, <2>4, <3>3
  <2>8. CASE ProbePrimaryFails
    <3>1. EndRun("canceled") \/ EndRun("failed") \/ EndRun("skipped")
            \/ (GoTo("source") /\ UNCHANGED <<info, st, conn>>)
      BY <2>8 DEF ProbePrimaryFails
    <3>2. RunOK'
      BY <1>0, <2>5, <2>6, <3>1, EndRunOK, GoToOK DEF PCs
    <3> QED
      BY <2>2, <2>4, <3>2
  <2>9. CASE SourceStopped
    BY <2>2, <2>4, <2>5, <2>9, EndRunOK DEF SourceStopped
  <2>10. ASSUME NEW i \in Infos, Strategy(i) PROVE RunOK'
    BY <1>0, <2>10, GoToOK DEF Strategy, PCs
  <2>11. CASE SourceReuse
    BY <2>2, <2>4, <2>6, <2>10, <2>11 DEF SourceReuse
  <2>12. CASE SourceProbe
    <3>1. PICK i \in InfosOf(remote[src]) : Strategy(i)
      BY <2>12 DEF SourceProbe
    <3>2. i \in Infos
      BY <1>0, InfoOK, RemoteOK DEF RunOK
    <3> QED
      BY <2>2, <2>4, <2>10, <3>1, <3>2
  <2>13. CASE SourceProbeFails
    BY <2>2, <2>4, <2>13, AttemptErrorOK, FailuresOK DEF SourceProbeFails
  <2>14. CASE GateRefuses
    BY <2>2, <2>4, <2>5, <2>14, AttemptErrorOK DEF GateRefuses
  <2>15. CASE GateResumes
    <3>1. Sound(st')
      BY <1>0, <2>15 DEF GateResumes, Resumed, DiskOK
    <3>2. RunOK'
      BY <1>0, <2>15, <3>1 DEF GateResumes, GoTo, RunOK, PCs, Sound, IsState, Inside, Apart
    <3> QED
      BY <2>2, <2>4, <3>2
  <2>16. CASE GateFresh
    <3>1. info.size \in Offsets \ {0} /\ info.etag \in Nat /\ info.lm \in Nat
      BY <1>0, <2>16 DEF GateFresh, RunOK, Streamable, Infos, Unknown
    <3>2. Sound(st')
      BY <2>16, <3>1, FreshStateFacts DEF GateFresh, Sound
    <3>3. RunOK'
      BY <1>0, <2>16, <3>2 DEF GateFresh, GoTo, RunOK, PCs, Sound, IsState, Inside, Apart
    <3> QED
      BY <2>2, <2>4, <3>3
  <2>17. CASE GateFails
    BY <2>2, <2>4, <2>5, <2>17, AttemptErrorOK DEF GateFails
  <2> QED
    BY <1>7, <2>7, <2>8, <2>9, <2>11, <2>12, <2>13, <2>14, <2>15, <2>16, <2>17 DEF Attempt
<1>8. CASE Segmented
  <2>1. UNCHANGED <<output, remote, bounds>> /\ sidecar' \in {sidecar, st}
    BY <1>8 DEF Segmented, Flush, PoolReturns, PoolFails, Receive
  <2>2. WorldOK'
    BY <1>0, <2>1, WorldStutter
  <2>3. Sound(sidecar')
    BY <1>0, <2>1 DEF DiskOK, RunOK
  <2>4. part' = part => DiskOK'
    BY <1>0, <2>1, <2>3 DEF DiskOK, Sound, IsState, Inside, Apart
  <2>5. CASE Flush
    BY <1>0, <2>2, <2>4, <2>5, RunStutter DEF Flush
  <2>6. CASE PoolReturns
    <3>1. RunOK'
      BY <1>0, <2>6, GoToOK DEF PoolReturns, RunOK, PCs
    <3> QED
      BY <2>2, <2>4, <2>6, <3>1 DEF PoolReturns
  <2>7. CASE PoolFails
    <3>1. \E e \in Results : AttemptError(e)
      BY <2>7, PoolErrorsOK DEF PoolFails, Results
    <3> QED
      BY <2>2, <2>4, <2>7, <3>1, AttemptErrorOK DEF PoolFails
  <2>8. ASSUME NEW c \in 1 .. Concurrency, Receive(c) PROVE TypeInv'
    <3>1. PICK v \in Offered(c) :
            /\ NextByte(c) < SizeOf[v]
            /\ part' = [part EXCEPT ![NextByte(c)] = v]
            /\ conn' = [conn EXCEPT ![c] = v]
      BY <2>8 DEF Receive
    <3>2. v \in Versions
      BY <1>0, RemoteOK DEF Offered, RunOK
    <3>3. SizeOf[v] \in Offsets
      BY <3>2, OffsetFacts
    <3>4. part' \in Contents
      <4>1. PICK n \in Offsets : part \in [0 .. n - 1 -> Versions \cup {Hole}]
        BY <1>0 DEF DiskOK, Contents
      <4>2. part' \in [0 .. n - 1 -> Versions \cup {Hole}]
        BY <3>1, <3>2, <4>1
      <4> QED
        BY <4>1, <4>2 DEF Contents
    <3>5. DiskOK'
      BY <1>0, <2>8, <3>4 DEF DiskOK, Receive, Sound, IsState, Inside, Apart
    <3>6. Sound(st')
      BY <1>0, <2>8, <3>1, <3>3, OneMoreByte DEF Receive, RunOK, Chunks, Todo, NextByte
    <3>7. conn' \in [1 .. Concurrency -> Versions \cup {None}]
      BY <1>0, <3>1, <3>2 DEF RunOK
    <3>8. RunOK'
      BY <1>0, <2>8, <3>6, <3>7 DEF RunOK, Receive
    <3> QED
      BY <2>2, <3>5, <3>8
  <2> QED
    BY <1>8, <2>5, <2>6, <2>7, <2>8 DEF Segmented
<1>9. CASE Stream
  <2>1. UNCHANGED <<output, sidecar, remote, bounds>>
    BY <1>9 DEF Stream, StreamStart, StreamRead, StreamEnd, StreamRetry, StreamFails, files
  <2>2. WorldOK'
    BY <1>0, <2>1, WorldStutter
  <2>3. part' \in Contents => DiskOK'
    BY <1>0, <2>1 DEF DiskOK, Sound, IsState, Inside, Apart
  <2>4. UNCHANGED part => DiskOK'
    BY <1>0, <2>3 DEF DiskOK
  <2>5. CASE StreamStart
    <3>1. NoFile \in Contents
      BY <1>0, EmptyOK DEF WorldOK
    <3>2. DiskOK'
      BY <2>3, <2>5, <3>1 DEF StreamStart
    <3>3. remote[src].ver \in Versions
      BY <1>0, RemoteOK DEF RunOK
    <3>4. conn' \in [1 .. Concurrency -> Versions \cup {None}] /\ conn'[1] \in Versions
      BY <1>0, <2>5, <3>3, DownloadConstants DEF StreamStart, RunOK
    <3>5. RunOK'
      BY <1>0, <2>5, <3>4 DEF StreamStart, GoTo, RunOK, PCs, Sound, IsState, Inside, Apart
    <3> QED
      BY <2>2, <3>2, <3>5
  <2>6. CASE StreamRead
    <3>1. conn[1] \in Versions
      BY <1>0, <2>6 DEF StreamRead, RunOK
    <3>2. /\ SizeOf[conn[1]] \in Nat /\ 0 .. SizeOf[conn[1]] \subseteq Offsets
          /\ FileSize(part) \in Nat /\ part \in [0 .. FileSize(part) - 1 -> Versions \cup {Hole}]
      BY <1>0, <3>1, OffsetFacts, FileFacts DEF DiskOK
    <3> DEFINE n == FileSize(part)
    <3>3. part' = [o \in 0 .. n |-> IF o \in DOMAIN part THEN part[o] ELSE conn[1]]
      BY <2>6 DEF StreamRead
    <3>4. n < SizeOf[conn[1]]
      BY <2>6 DEF StreamRead
    <3>5. n + 1 \in Offsets /\ (n + 1) - 1 = n
      BY <3>2, <3>4
    <3> HIDE DEF n
    <3>6. part' \in [0 .. (n + 1) - 1 -> Versions \cup {Hole}]
      BY <3>1, <3>2, <3>3, <3>5 DEF n
    <3>7. part' \in Contents
      BY <3>5, <3>6 DEF Contents
    <3> QED
      BY <1>0, <2>2, <2>3, <2>6, <3>7, RunStutter DEF StreamRead
  <2>7. CASE StreamEnd
    BY <1>0, <2>2, <2>4, <2>7, GoToOK DEF StreamEnd, RunOK, PCs, files
  <2>8. CASE StreamRetry
    <3>1. RunOK'
      BY <1>0, <2>8, NoConnOK DEF StreamRetry, GoTo, RunOK, PCs, Sound, IsState, Inside, Apart
    <3> QED
      BY <2>2, <2>4, <2>8, <3>1 DEF StreamRetry, files
  <2>9. CASE StreamFails
    BY <2>2, <2>4, <2>9, AttemptErrorOK, FailuresOK DEF StreamFails, files
  <2> QED
    BY <1>9, <2>5, <2>6, <2>7, <2>8, <2>9 DEF Stream
<1>10. CASE Finish
  <2>1. UNCHANGED <<remote, bounds>>
    BY <1>10 DEF Finish, VerifyFails, Verified, Rename, RenameFails, Remove, RemoveFails
  <2>2. WorldOK'
    BY <1>0, <2>1, WorldStutter
  <2>3. {"size", "checksum", "failed", "ok"} \subseteq Results /\ info \in Infos
    BY <1>0 DEF Results, RunOK
  <2>4. CASE VerifyFails
    BY <1>0, <2>2, <2>3, <2>4, AttemptErrorOK, DiskStutter DEF VerifyFails
  <2>5. CASE Verified
    BY <1>0, <2>2, <2>3, <2>5, GoToOK, DiskStutter DEF Verified, PCs
  <2>6. CASE Rename
    <3>1. DiskOK'
      BY <1>0, <2>6, EmptyOK DEF Rename, DiskOK, WorldOK, Sound, IsState, Inside, Apart
    <3> QED
      BY <1>0, <2>2, <2>3, <2>6, <3>1, GoToOK DEF Rename, PCs
  <2>7. CASE RenameFails
    BY <1>0, <2>2, <2>3, <2>7, AttemptErrorOK, DiskStutter DEF RenameFails
  <2>8. CASE Remove
    <3>1. DiskOK'
      BY <1>0, <2>8, EmptyOK DEF Remove, DiskOK, WorldOK
    <3> QED
      BY <2>2, <2>3, <2>8, <3>1, EndRunOK DEF Remove
  <2>9. CASE RemoveFails
    BY <1>0, <2>2, <2>3, <2>9, AttemptErrorOK, EndRunOK, DiskStutter DEF RemoveFails
  <2> QED
    BY <1>10, <2>4, <2>5, <2>6, <2>7, <2>8, <2>9 DEF Finish
<1> QED
  BY <1>1, <1>2, <1>3, <1>4, <1>5, <1>6, <1>7, <1>8, <1>9, <1>10 DEF Next, Environment

\* Offsets, sizes and cursors stay within the versions there are, chunks within
\* their file, and every run is at a known place with a known result.
THEOREM DownloadTypes == Spec => []TypeOK
  BY TypeInit, TypeStep, TypeInvTypes, PTL DEF Spec

=============================================================================
