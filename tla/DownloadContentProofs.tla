----------------------- MODULE DownloadContentProofs -----------------------
(* What a resumed download is made of: the inductive invariant that ties    *)
(* the sidecar, the cursors and the part file to one content, and what      *)
(* follows from it for the output, for every number of sources, every       *)
(* resource and any number of runs, crashes and changes between runs.       *)
EXTENDS DownloadProofs

-----------------------------------------------------------------------------
\* What the sidecar and the transfer rest on: a source that may stream segments
\* has exactly the validators of the state, and every byte the state counts is
\* a byte of its content.
Describes(r, s) ==
    LET i == OfGet(Answered(r))
    IN  Streamable(i) /\ Validator(s) = Validator(i)
Vouches(r, s) ==
    /\ Describes(r, s)
    /\ \A o \in Counted(s) : o \in DOMAIN part /\ part[o] = r.ver

\* At rest the next gate decides about the sidecar on disk; so it does after a
\* transfer that has saved, until the part file is renamed.
AtRest == pc \in {"idle", "probe", "source", "gate", "stream"} \/ (pc \in {"verify", "rename"} /\ Streamable(info))
Backed == \E r \in Remotes : Vouches(r, sidecar)

Probed ==
    /\ info # NoInfo => info \in InfosOf(remote[src])
    /\ pc \in {"idle", "probe"} => info = NoInfo
    /\ pc = "probe" => src = 1
    /\ pc \in {"stream", "streaming"} => ~Streamable(info)
    /\ pc \in {"stream", "streaming", "verify"} => info # NoInfo
SidecarBacked == AtRest /\ Usable => Backed
TransferBacked ==
    pc = "pool" \/ (pc = "verify" /\ Streamable(info)) =>
        /\ DOMAIN part = 0 .. st.size - 1 /\ st.size = info.size
        /\ \E r \in Remotes : r.ver = remote[src].ver /\ Vouches(r, st)
OneResponse ==
    /\ \A c \in 1 .. Concurrency : conn[c] \in {None, remote[src].ver}
    /\ pc = "idle" => conn = NoConn
\* A stream is a head of what its source serves; only if no body ends early is
\* its end the end of the file, and otherwise verifySize has to tell.
OneStream ==
    pc = "streaming" \/ (pc = "verify" /\ ~Streamable(info)) =>
        \A o \in DOMAIN part : part[o] = remote[src].ver
StreamEnded ==
    pc = "verify" /\ ~Streamable(info) /\ "short" \notin Faults =>
        FileSize(part) = SizeOf[remote[src].ver]
PartWhole ==
    /\ SizesTold /\ pc = "rename" => part = WholeFile(remote[src].ver)
    /\ pc = "remove" => part = NoFile
OutputKept == SizesTold => FinalWhole
ContentInv ==
    /\ Probed /\ SidecarBacked /\ TransferBacked
    /\ OneResponse /\ OneStream /\ StreamEnded /\ PartWhole /\ OutputKept

-----------------------------------------------------------------------------
\* Only the answer of the source itself makes a probe streamable, and it tells
\* the size of what the source serves.
LEMMA ProbeFacts ==
  ASSUME NEW r \in Remotes, NEW i \in InfosOf(r), Streamable(i)
  PROVE  i = OfGet(Answered(r)) /\ i.size = SizeOf[r.ver]
<1>1. i = OfGet(Answered(r))
  BY DEF InfosOf, OfHead, OfGet, Refusal, Streamable
<1> QED
  BY <1>1 DEF OfGet, Answered, Streamable

LEMMA DescribedSize ==
  ASSUME NEW r \in Remotes, NEW s, Describes(r, s)
  PROVE  s.size = SizeOf[r.ver]
  BY DEF Describes, Validator, OfGet, Answered, Streamable

\* The gate tells contents apart: two sources that match a state serve the same.
LEMMA SameContent ==
  ASSUME Honest, NEW r \in Remotes, NEW q \in Remotes, NEW s, Describes(r, s),
         Streamable(OfGet(Answered(q))), Matches(s, OfGet(Answered(q)))
  PROVE  r.ver = q.ver
<1> DEFINE i == OfGet(Answered(r))
           j == OfGet(Answered(q))
<1>1. Streamable(i) /\ s.size = i.size /\ s.etag = i.etag /\ s.lm = i.lm
  BY DEF Describes, Validator
<1>2. Streamable(j) /\ Matches(s, j)
  OBVIOUS
<1>3. Streamable(i) /\ Streamable(j) /\ Matches(i, j) => r.ver = q.ver
  BY DEF Honest
<1> HIDE DEF i, j
<1>4. Matches(i, j)
  BY <1>1, <1>2 DEF Matches, Comparable
<1> QED
  BY <1>1, <1>2, <1>3, <1>4

LEMMA ChunkFacts ==
  ASSUME NEW s, Sound(s), NEW c \in DOMAIN s.chunks
  PROVE  /\ s.chunks[c].start \in Nat /\ s.chunks[c].done \in Nat /\ s.chunks[c].end \in Nat
         /\ s.chunks[c].start + s.chunks[c].done <= s.chunks[c].end + 1
         /\ s.chunks[c].end < s.size /\ s.size \in Nat /\ c \in 1 .. Concurrency
<1>1. s.chunks[c] \in ChunkStates
  BY DEF Sound, IsState
<1> QED
  BY <1>1, OffsetFacts DEF Sound, IsState, Inside, ChunkStates

LEMMA CountedInside ==
  ASSUME NEW s, Sound(s)
  PROVE  Counted(s) \subseteq 0 .. s.size - 1
<1> SUFFICES ASSUME NEW c \in DOMAIN s.chunks,
                    NEW o \in s.chunks[c].start .. s.chunks[c].start + s.chunks[c].done - 1
             PROVE  o \in 0 .. s.size - 1
  BY DEF Counted
<1> QED
  BY ChunkFacts

\* One byte more is the byte at the cursor.
LEMMA CountedOneMore ==
  ASSUME NEW s, Sound(s), NEW c \in DOMAIN s.chunks
  PROVE  LET t == [s EXCEPT !.chunks[c].done = @ + 1]
         IN  /\ Validator(t) = Validator(s)
             /\ Counted(t) = Counted(s) \cup {s.chunks[c].start + s.chunks[c].done}
<1> DEFINE t == [s EXCEPT !.chunks[c].done = @ + 1]
<1>1. /\ DOMAIN t.chunks = DOMAIN s.chunks
      /\ t.size = s.size /\ t.etag = s.etag /\ t.lm = s.lm
      /\ \A d \in DOMAIN s.chunks : d # c => t.chunks[d] = s.chunks[d]
  BY DEF Sound, IsState
<1>2. t.chunks[c].start = s.chunks[c].start /\ t.chunks[c].done = s.chunks[c].done + 1
  <2>1. t.chunks[c] = [s.chunks[c] EXCEPT !.done = @ + 1] /\ s.chunks[c] \in ChunkStates
    BY DEF Sound, IsState
  <2> QED
    BY <2>1 DEF ChunkStates
<1> HIDE DEF t
<1>3. ASSUME NEW o \in Counted(t)
      PROVE  o \in Counted(s) \cup {s.chunks[c].start + s.chunks[c].done}
  <2>1. PICK d \in DOMAIN s.chunks : o \in t.chunks[d].start .. t.chunks[d].start + t.chunks[d].done - 1
    BY <1>1, <1>3 DEF Counted
  <2>2. CASE d # c
    BY <1>1, <2>1, <2>2 DEF Counted
  <2>3. CASE d = c
    <3>1. s.chunks[c].start \in Nat /\ s.chunks[c].done \in Nat
      BY ChunkFacts
    <3>2. o \in s.chunks[c].start .. s.chunks[c].start + s.chunks[c].done
      BY <1>2, <2>1, <2>3, <3>1
    <3>3. CASE o = s.chunks[c].start + s.chunks[c].done
      BY <3>3
    <3>4. CASE o # s.chunks[c].start + s.chunks[c].done
      <4>1. o \in s.chunks[c].start .. s.chunks[c].start + s.chunks[c].done - 1
        BY <3>1, <3>2, <3>4
      <4> QED
        BY <4>1 DEF Counted
    <3> QED
      BY <3>3, <3>4
  <2> QED
    BY <2>2, <2>3
<1>4. ASSUME NEW o \in Counted(s) PROVE o \in Counted(t)
  <2>1. PICK d \in DOMAIN s.chunks : o \in s.chunks[d].start .. s.chunks[d].start + s.chunks[d].done - 1
    BY <1>4 DEF Counted
  <2>2. s.chunks[d].start \in Nat /\ s.chunks[d].done \in Nat
    BY ChunkFacts
  <2>3. o \in t.chunks[d].start .. t.chunks[d].start + t.chunks[d].done - 1
    BY <1>1, <1>2, <2>1, <2>2
  <2> QED
    BY <1>1, <2>3 DEF Counted
<1>5. s.chunks[c].start + s.chunks[c].done \in Counted(t)
  <2>1. s.chunks[c].start \in Nat /\ s.chunks[c].done \in Nat
    BY ChunkFacts
  <2>2. s.chunks[c].start + s.chunks[c].done \in t.chunks[c].start .. t.chunks[c].start + t.chunks[c].done - 1
    BY <1>2, <2>1
  <2> QED
    BY <1>1, <2>2 DEF Counted
<1>6. Validator(t) = Validator(s)
  BY <1>1 DEF Validator
<1>7. Counted(t) = Counted(s) \cup {s.chunks[c].start + s.chunks[c].done}
  BY <1>3, <1>4, <1>5
<1> QED
  BY <1>6, <1>7 DEF t

\* completedBytes is the size only if every byte of the file is counted: chunks
\* are apart, so that what they have done adds up without counting twice.
LEMMA CompleteCounted ==
  ASSUME NEW s, Sound(s), CompletedBytes(s) = s.size
  PROVE  Counted(s) = 0 .. s.size - 1
<1> DEFINE Pairs == UNION {{c} \X (1 .. s.chunks[c].done) : c \in DOMAIN s.chunks}
           offset == [p \in Pairs |-> s.chunks[p[1]].start + p[2] - 1]
           File == 0 .. s.size - 1
<1>1. ASSUME NEW p \in Pairs
      PROVE  /\ p = <<p[1], p[2]>> /\ p[1] \in DOMAIN s.chunks /\ p[2] \in 1 .. s.chunks[p[1]].done
             /\ offset[p] \in Counted(s)
             /\ offset[p] \in s.chunks[p[1]].start .. s.chunks[p[1]].end
  <2>1. PICK c \in DOMAIN s.chunks : p \in {c} \X (1 .. s.chunks[c].done)
    OBVIOUS
  <2>2. p = <<p[1], p[2]>> /\ p[1] = c /\ p[2] \in 1 .. s.chunks[c].done
    BY <2>1
  <2>3. offset[p] \in s.chunks[c].start .. s.chunks[c].start + s.chunks[c].done - 1
    BY <2>2, ChunkFacts
  <2>4. offset[p] \in Counted(s)
    BY <2>3 DEF Counted
  <2>5. offset[p] \in s.chunks[c].start .. s.chunks[c].end
    BY <2>3, ChunkFacts
  <2> QED
    BY <2>2, <2>4, <2>5
<1>2. ASSUME NEW p \in Pairs, NEW q \in Pairs, offset[p] = offset[q]
      PROVE  p = q
  <2>1. p[1] = q[1]
    <3> SUFFICES ASSUME p[1] # q[1] PROVE FALSE
      OBVIOUS
    <3>1. s.chunks[p[1]].end < s.chunks[q[1]].start \/ s.chunks[q[1]].end < s.chunks[p[1]].start
      BY <1>1 DEF Sound, Apart
    <3>2. /\ s.chunks[p[1]].start \in Nat /\ s.chunks[p[1]].end \in Nat
          /\ s.chunks[q[1]].start \in Nat /\ s.chunks[q[1]].end \in Nat
      BY <1>1, ChunkFacts
    <3>3. /\ offset[p] \in s.chunks[p[1]].start .. s.chunks[p[1]].end
          /\ offset[p] \in s.chunks[q[1]].start .. s.chunks[q[1]].end
      BY <1>1, <1>2
    <3> QED
      BY <3>1, <3>2, <3>3
  <2>2. p[2] = q[2]
    <3>1. s.chunks[p[1]].start \in Nat /\ p[2] \in Int /\ q[2] \in Int
      BY <1>1, ChunkFacts
    <3>2. s.chunks[p[1]].start + p[2] - 1 = s.chunks[p[1]].start + q[2] - 1
      BY <1>2, <2>1
    <3> QED
      BY <3>1, <3>2
  <2> QED
    BY <1>1, <2>1, <2>2
<1>3. Counted(s) \subseteq File /\ s.size \in Nat
  BY CountedInside, OffsetFacts DEF Sound, IsState
<1>4. offset \in Injection(Pairs, File)
  <2>1. offset \in [Pairs -> File]
    BY <1>1, <1>3
  <2>2. DOMAIN offset = Pairs
    OBVIOUS
  <2> HIDE DEF offset, Pairs, File
  <2> QED
    BY <1>2, <2>1, <2>2 DEF Injection, IsInjective
<1>5. IsFiniteSet(File) /\ Cardinality(File) = s.size
  BY <1>3, FS_Interval
<1>6. Cardinality(Pairs) = s.size
  BY DEF CompletedBytes
<1>7. offset \in Surjection(Pairs, File)
  <2> HIDE DEF offset, Pairs, File
  <2> QED
    BY <1>4, <1>5, <1>6, FS_Injection
<1>8. ASSUME NEW o \in File PROVE o \in Counted(s)
  <2>1. PICK p \in Pairs : offset[p] = o
    <3> HIDE DEF offset, Pairs, File
    <3> QED
      BY <1>7 DEF Surjection
  <2> QED
    BY <1>1, <2>1
<1> QED
  BY <1>3, <1>8

-----------------------------------------------------------------------------

LEMMA StreamableProbe ==
  ASSUME TypeInv, Probed, Streamable(info)
  PROVE  /\ info = OfGet(Answered(remote[src])) /\ info.size = SizeOf[remote[src].ver]
         /\ info.size \in Nat
<1>1. info \in InfosOf(remote[src]) /\ remote[src] \in Remotes
  BY RemoteOK DEF Probed, NoInfo, Streamable, TypeInv, RunOK
<1> QED
  BY <1>1, ProbeFacts, RemoteFacts

LEMMA ContentInit == Init => ContentInv
  BY DEF Init, ContentInv, Probed, SidecarBacked, TransferBacked, OneResponse, OneStream, StreamEnded,
    PartWhole, OutputKept, FinalWhole, Usable, PartialFileUsable, NoConn

\* The vouching of a state depends on the part file only.
LEMMA BackedStutter ==
  ASSUME Backed, UNCHANGED <<part, sidecar>>
  PROVE  Backed'
  BY DEF Backed, Vouches, Describes, Counted, Validator

LEMMA UsableStutter ==
  ASSUME UNCHANGED <<part, sidecar>>
  PROVE  Usable' = Usable
  BY DEF Usable, PartialFileUsable, FileSize

LEMMA NotUsable ==
  ASSUME part = NoFile \/ sidecar = NoState
  PROVE  ~Usable
  BY DEF Usable, PartialFileUsable, NoState

\* The transfer backs every sidecar it has saved.
LEMMA SavedBacked ==
  ASSUME TransferBacked, pc = "pool" \/ (pc = "verify" /\ Streamable(info)),
         UNCHANGED part, SavedNow
  PROVE  Backed'
<1>1. PICK r \in Remotes : Vouches(r, st)
  BY DEF TransferBacked
<1>2. Vouches(r, sidecar)'
  BY <1>1 DEF Vouches, Describes, SavedNow, Validator, Counted
<1> QED
  BY <1>2 DEF Backed

\* A run that has ended, or goes on to its next source.
LEMMA ContentLeft ==
  ASSUME ContentInv, UNCHANGED output, info' = NoInfo, conn' = NoConn,
         pc' \in {"idle", "source"}, Usable' => Backed'
  PROVE  ContentInv'
  BY DEF ContentInv, Probed, SidecarBacked, TransferBacked, OneResponse, OneStream, StreamEnded, PartWhole,
    OutputKept, FinalWhole, NoConn, NoInfo, Streamable

\* A run that goes on at rest, with a probe of its source.
LEMMA ContentGoesOn ==
  ASSUME ContentInv, AtRest, UNCHANGED <<files, remote, src, conn>>, pc # "idle",
         pc' \in {"source", "gate", "stream"},
         info' # NoInfo => info' \in InfosOf(remote[src]),
         pc' = "stream" => ~Streamable(info') /\ info' # NoInfo
  PROVE  ContentInv'
<1>1. Usable' => Backed'
  BY UsableStutter, BackedStutter DEF ContentInv, SidecarBacked, files
<1>2. OneResponse'
  BY DEF ContentInv, OneResponse
<1> QED
  BY <1>1, <1>2 DEF ContentInv, Probed, SidecarBacked, TransferBacked, OneStream, StreamEnded, PartWhole,
    OutputKept, FinalWhole, files

LEMMA ErrorLeaves ==
  ASSUME NEW e, AttemptError(e) \/ EndRun(e)
  PROVE  info' = NoInfo /\ conn' = NoConn /\ pc' \in {"idle", "source"}
  BY DEF AttemptError, EndRun, NewAttempt

\* An attempt that ends without touching the files leaves a sidecar that is
\* backed: it is at rest, or Orderly says so.
LEMMA ContentEnds ==
  ASSUME ContentInv, TypeInv, Orderly, NEW e, AttemptError(e) \/ EndRun(e),
         UNCHANGED <<part, output>>, UNCHANGED sidecar \/ pc = "pool"
  PROVE  ContentInv'
<1>1. info' = NoInfo /\ conn' = NoConn /\ pc' \in {"idle", "source"}
  BY ErrorLeaves
<1>2. Usable' => Backed'
  <2>1. CASE pc = "pool"
    <3>1. Usable' => SavedNow
      BY <1>1, <2>1 DEF Orderly
    <3>2. TransferBacked
      BY DEF ContentInv
    <3> QED
      BY <2>1, <3>1, <3>2, SavedBacked
  <2>2. ASSUME AtRest, pc # "pool" PROVE Usable' => Backed'
    BY <2>2, UsableStutter, BackedStutter DEF ContentInv, SidecarBacked
  <2>3. ASSUME pc \in {"streaming", "verify", "rename"}, ~Streamable(info) PROVE Usable' => Backed'
    BY <1>1, <2>3 DEF Orderly
  <2>4. CASE pc \in {"idle", "probe", "source", "gate", "stream"}
    BY <2>2, <2>4 DEF AtRest
  <2>5. CASE pc = "streaming"
    BY <2>3, <2>5 DEF ContentInv, Probed
  <2>6. CASE pc \in {"verify", "rename"}
    <3>1. CASE Streamable(info)
      BY <2>2, <2>6, <3>1 DEF AtRest
    <3>2. CASE ~Streamable(info)
      BY <2>3, <2>6, <3>2
    <3> QED
      BY <3>1, <3>2
  <2>7. CASE pc = "remove"
    <3>1. part' = NoFile
      BY <2>7 DEF ContentInv, PartWhole
    <3> QED
      BY <3>1 DEF Usable, PartialFileUsable
  <2>8. pc \in PCs
    BY DEF TypeInv, RunOK
  <2> QED
    BY <2>1, <2>4, <2>5, <2>6, <2>7, <2>8 DEF PCs
<1> QED
  BY <1>1, <1>2, ContentLeft

\* What a source answers is not what is known without a probe.
LEMMA AnswerKnown ==
  ASSUME NEW r \in Remotes, NEW i \in InfosOf(r)
  PROVE  i # NoInfo
<1>1. SizeOf[r.ver] \in Nat \ {0}
  BY RemoteFacts
<1>2. i.size \in {SizeOf[r.ver], Unknown}
  BY DEF InfosOf, OfGet, Answered, OfHead, Refusal
<1> QED
  BY <1>1, <1>2 DEF NoInfo, Unknown

\* A size that a probe tells is the one of what the source serves.
LEMMA ToldSize ==
  ASSUME NEW r \in Remotes, NEW i \in InfosOf(r), i.size > 0
  PROVE  i.size = SizeOf[r.ver]
<1>1. i.size # Unknown
  BY DEF Unknown
<1>2. i = OfGet(Answered(r))
  BY <1>1 DEF InfosOf, OfHead, Refusal
<1> QED
  BY <1>1, <1>2 DEF OfGet, Answered

\* verifySize lets a whole file of the source pass and nothing else, as long as it
\* has a size to compare or no body ends early.
LEMMA SizeOKWhole ==
  ASSUME SizesTold, TypeInv, ContentInv, pc = "verify", SizeOK
  PROVE  part = WholeFile(remote[src].ver)
<1>1. CASE ~Streamable(info)
  <2>1. remote[src] \in Remotes /\ info \in InfosOf(remote[src])
    BY RemoteOK DEF TypeInv, RunOK, ContentInv, Probed
  <2>2. "short" \notin Faults => FileSize(part) = SizeOf[remote[src].ver]
    BY <1>1 DEF ContentInv, StreamEnded
  <2>3. ASSUME "short" \in Faults PROVE FileSize(part) = SizeOf[remote[src].ver]
    <3>1. info.size > 0
      BY <2>1, <2>3 DEF SizesTold
    <3> QED
      BY <2>1, <3>1, ToldSize DEF SizeOK
  <2>4. FileSize(part) = SizeOf[remote[src].ver]
    BY <2>2, <2>3
  <2>5. part \in [0 .. SizeOf[remote[src].ver] - 1 -> Versions \cup {Hole}]
    BY <2>4, FileFacts DEF TypeInv, DiskOK
  <2> QED
    BY <1>1, <2>5 DEF ContentInv, OneStream, WholeFile
<1>2. CASE Streamable(info)
  <2>1. PICK r \in Remotes : r.ver = remote[src].ver /\ Vouches(r, st)
    BY <1>2 DEF ContentInv, TransferBacked
  <2>2. DOMAIN part = 0 .. st.size - 1 /\ st.size = info.size
    BY <1>2 DEF ContentInv, TransferBacked
  <2>3. Counted(st) = 0 .. st.size - 1
    BY <1>2, <2>2, CompleteCounted DEF SizeOK, TypeInv, RunOK
  <2>4. st.size = SizeOf[r.ver]
    BY <2>1, DescribedSize DEF Vouches
  <2>5. \A o \in 0 .. st.size - 1 : part[o] = r.ver
    BY <2>1, <2>3 DEF Vouches
  <2>6. part \in [DOMAIN part -> Versions \cup {Hole}]
    BY DEF TypeInv, DiskOK, Contents
  <2> QED
    BY <2>1, <2>2, <2>4, <2>5, <2>6 DEF WholeFile
<1> QED
  BY <1>1, <1>2

LEMMA ContentStep ==
  ASSUME Trusted, TypeInv, ContentInv, Next, Orderly
  PROVE  ContentInv'
<1>0. TypeInv /\ ContentInv
  OBVIOUS
<1>1. CASE StartRun
  <2>1. Usable' => Backed'
    BY <1>0, <1>1, UsableStutter, BackedStutter DEF StartRun, files, ContentInv, SidecarBacked, AtRest
  <2> QED
    BY <1>0, <1>1, <2>1 DEF StartRun, NewAttempt, files, ContentInv, Probed, SidecarBacked,
      TransferBacked, OneResponse, OneStream, StreamEnded, PartWhole, OutputKept, FinalWhole, NoConn, NoInfo, Streamable
<1>2. CASE Cancel
  BY <1>0, <1>2 DEF Cancel, files, ContentInv, Probed, SidecarBacked, AtRest, Backed, Usable,
    PartialFileUsable, Vouches, Describes,
    TransferBacked, OneResponse, OneStream, StreamEnded, PartWhole, OutputKept, FinalWhole
<1>3. CASE Crash
  BY <1>0, <1>3, ContentEnds DEF Crash, Trusted
<1>4. CASE RemoteChange
  <2>1. pc = "idle" /\ UNCHANGED <<files, run>>
    BY <1>4 DEF RemoteChange, Trusted
  <2>2. Usable' => Backed'
    BY <1>0, <2>1, UsableStutter, BackedStutter DEF files, ContentInv, SidecarBacked, AtRest
  <2> QED
    BY <1>0, <2>1, <2>2, ContentLeft DEF files, run, ContentInv, Probed, OneResponse
<1>5. CASE LosePart
  BY <1>0, <1>5, ContentLeft DEF LosePart, run, ContentInv, Probed, OneResponse, Usable, PartialFileUsable
<1>6. CASE Attempt
  <2>1. CASE ProbePrimary
    <3>1. pc = "probe" /\ src = 1 /\ UNCHANGED files /\ UNCHANGED remote
      BY <1>0, <2>1 DEF ProbePrimary, ContentInv, Probed
    <3>2. PICK i \in InfosOf(remote[1]) :
            EndRun("skipped") \/ (GoTo("source") /\ info' = i /\ UNCHANGED <<st, conn>>)
      BY <2>1 DEF ProbePrimary
    <3>3. CASE EndRun("skipped")
      BY <1>0, <3>1, <3>3, ContentEnds DEF files
    <3>4. CASE GoTo("source") /\ info' = i /\ UNCHANGED <<st, conn>>
      BY <1>0, <3>1, <3>2, <3>4, ContentGoesOn DEF GoTo, AtRest
    <3> QED
      BY <3>2, <3>3, <3>4
  <2>2. CASE ProbePrimaryFails
    <3>1. pc = "probe" /\ UNCHANGED files /\ UNCHANGED remote
      BY <2>2 DEF ProbePrimaryFails
    <3>2. EndRun("canceled") \/ EndRun("failed") \/ EndRun("skipped")
            \/ (GoTo("source") /\ UNCHANGED <<info, st, conn>>)
      BY <2>2 DEF ProbePrimaryFails
    <3>3. CASE GoTo("source") /\ UNCHANGED <<info, st, conn>>
      <4>1. info = NoInfo
        BY <3>1 DEF ContentInv, Probed
      <4> QED
        BY <1>0, <3>1, <3>3, <4>1, ContentGoesOn DEF GoTo, AtRest
    <3> QED
      BY <1>0, <3>1, <3>2, <3>3, ContentEnds DEF files
  <2>3. CASE SourceStopped
    BY <1>0, <2>3, ContentEnds DEF SourceStopped, files
  <2>4. ASSUME pc = "source", NEW i \in InfosOf(remote[src]), Strategy(i), UNCHANGED files, UNCHANGED remote
        PROVE  ContentInv'
    <3>1. i # NoInfo
      BY <1>0, RemoteOK, AnswerKnown DEF TypeInv, RunOK
    <3> QED
      BY <1>0, <2>4, <3>1, ContentGoesOn DEF Strategy, GoTo, AtRest
  <2>5. CASE SourceReuse
    BY <1>0, <2>4, <2>5 DEF SourceReuse, ContentInv, Probed
  <2>6. CASE SourceProbe
    BY <2>4, <2>6 DEF SourceProbe
  <2>7. CASE SourceProbeFails
    BY <1>0, <2>7, ContentEnds DEF SourceProbeFails, files
  <2>8. CASE GateRefuses
    BY <1>0, <2>8, ContentEnds DEF GateRefuses, files
  <2>9. CASE GateFails
    BY <1>0, <2>9, ContentEnds DEF GateFails, files
  <2>10. ASSUME pc = "gate"
         PROVE  /\ info = OfGet(Answered(remote[src])) /\ info.size = SizeOf[remote[src].ver]
                /\ info.size \in Nat /\ Streamable(info) /\ remote[src] \in Remotes
    BY <1>0, <2>10, StreamableProbe, RemoteOK DEF TypeInv, RunOK, ContentInv
  <2>11. ASSUME pc = "gate", GoTo("pool"), UNCHANGED <<info, conn, remote, output>>, TransferBacked'
         PROVE  ContentInv'
    BY <1>0, <2>11 DEF GoTo, ContentInv, Probed, SidecarBacked, AtRest, OneResponse,
      OneStream, StreamEnded, PartWhole, OutputKept, FinalWhole
  <2>12. CASE GateResumes
    <3>1. pc = "gate" /\ Matches(sidecar, info) /\ Usable /\ st' = sidecar
      BY <2>12 DEF GateResumes, Resumable, Resumed, Usable
    <3>2. PICK r \in Remotes : Vouches(r, sidecar)
      BY <3>1 DEF ContentInv, SidecarBacked, AtRest, Backed
    <3>3. r.ver = remote[src].ver
      BY <2>10, <3>1, <3>2, SameContent DEF Trusted, Vouches
    <3>4. DOMAIN part = 0 .. sidecar.size - 1
      BY <3>1, FileFacts DEF TypeInv, DiskOK, Usable, PartialFileUsable
    <3>5. sidecar.size = info.size
      BY <3>1 DEF Matches
    <3>6. UNCHANGED <<part, sidecar, output, remote, info, conn>> /\ GoTo("pool")
      BY <2>12 DEF GateResumes, files
    <3>7. Vouches(r, st)'
      BY <3>1, <3>2, <3>6 DEF Vouches, Describes, Validator, Counted
    <3>8. TransferBacked'
      BY <3>1, <3>3, <3>4, <3>5, <3>6, <3>7 DEF TransferBacked, GoTo
    <3> QED
      BY <2>11, <3>1, <3>6, <3>8
  <2>13. CASE GateFresh
    <3>1. pc = "gate" /\ GoTo("pool") /\ UNCHANGED <<info, conn, remote, output>>
          /\ st' = FreshState(info) /\ part' = Resize(part, info.size)
      BY <2>13 DEF GateFresh
    <3>2. Counted(FreshState(info)) = {}
      <4>1. info.size \in Offsets \ {0} /\ info.etag \in Nat /\ info.lm \in Nat
        BY <2>10, <3>1 DEF TypeInv, RunOK, Streamable, Infos, Unknown
      <4> QED
        BY <4>1, FreshStateFacts
    <3>3. Vouches(remote[src], st)'
      BY <2>10, <3>1, <3>2 DEF Vouches, Describes, Validator, FreshState, GoTo
    <3>4. DOMAIN part' = 0 .. st'.size - 1 /\ st'.size = info'.size
      BY <3>1 DEF Resize, FreshState
    <3>5. TransferBacked'
      BY <2>10, <3>1, <3>3, <3>4 DEF TransferBacked, GoTo
    <3> QED
      BY <2>11, <3>1, <3>5
  <2> QED
    BY <1>6, <2>1, <2>2, <2>3, <2>5, <2>6, <2>7, <2>8, <2>9, <2>12, <2>13 DEF Attempt
<1>7. CASE Segmented
  <2>0. pc = "pool" /\ Streamable(info) /\ UNCHANGED <<output, remote>>
    BY <1>0, <1>7 DEF Segmented, Flush, PoolReturns, PoolFails, Receive, TypeInv, RunOK
  <2>1. CASE Flush
    <3>1. UNCHANGED <<part, output, remote, run>> /\ sidecar' = st
      BY <2>1 DEF Flush
    <3>2. TransferBacked'
      BY <1>0, <3>1 DEF run, ContentInv, TransferBacked, Vouches, Describes
    <3> QED
      BY <1>0, <2>0, <3>1, <3>2 DEF run, ContentInv, Probed, SidecarBacked, AtRest,
        OneResponse, OneStream, StreamEnded, PartWhole, OutputKept, FinalWhole
  <2>2. CASE PoolReturns
    <3>1. pc' = "verify" /\ UNCHANGED <<part, output, remote, src, info, st, conn>> /\ sidecar' = st
      BY <2>2 DEF PoolReturns, GoTo
    <3>2. Backed'
      <4>1. SavedNow
        BY <3>1 DEF SavedNow, Validator, Counted
      <4> QED
        BY <1>0, <2>0, <3>1, <4>1, SavedBacked DEF ContentInv
    <3>3. TransferBacked'
      BY <1>0, <2>0, <3>1 DEF ContentInv, TransferBacked, Vouches, Describes
    <3> QED
      BY <1>0, <2>0, <3>1, <3>2, <3>3 DEF ContentInv, Probed, SidecarBacked,
        OneResponse, OneStream, StreamEnded, PartWhole, OutputKept, FinalWhole, NoInfo, Streamable
  <2>3. CASE PoolFails
    BY <1>0, <2>0, <2>3, ContentEnds DEF PoolFails
  <2>4. ASSUME NEW c \in 1 .. Concurrency, Receive(c) PROVE ContentInv'
    <3> DEFINE o == NextByte(c)
    <3>1. PICK v \in Offered(c) :
            /\ part' = [part EXCEPT ![o] = v]
            /\ conn' = [conn EXCEPT ![c] = v]
      BY <2>4 DEF Receive
    <3>2. v = remote[src].ver
      BY <1>0, <3>1 DEF Offered, ContentInv, OneResponse
    <3>3. /\ c \in DOMAIN st.chunks /\ st' = [st EXCEPT !.chunks[c].done = @ + 1]
          /\ o = st.chunks[c].start + st.chunks[c].done /\ o <= st.chunks[c].end
          /\ UNCHANGED <<sidecar, output, remote, pc, src, info>>
      BY <2>4 DEF Receive, Chunks, Todo, NextByte
    <3>4. Sound(st)
      BY DEF TypeInv, RunOK
    <3>5. PICK r \in Remotes : r.ver = remote[src].ver /\ Vouches(r, st)
      BY <1>0, <2>0 DEF ContentInv, TransferBacked
    <3>6. DOMAIN part = 0 .. st.size - 1 /\ st.size = info.size
      BY <1>0, <2>0 DEF ContentInv, TransferBacked
    <3>7. o \in DOMAIN part
      <4>1. /\ st.chunks[c].start \in Nat /\ st.chunks[c].done \in Nat /\ st.chunks[c].end \in Nat
            /\ st.chunks[c].end < st.size /\ st.size \in Nat
        BY <3>3, <3>4, ChunkFacts
      <4> HIDE DEF o
      <4> QED
        BY <3>3, <3>6, <4>1
    <3>8. Validator(st') = Validator(st) /\ Counted(st') \subseteq Counted(st) \cup {o}
      BY <3>3, <3>4, CountedOneMore
    <3> HIDE DEF o
    <3>9. DOMAIN part' = DOMAIN part /\ part'[o] = v /\ \A p \in DOMAIN part : p # o => part'[p] = part[p]
      BY <3>1, <3>7
    <3>10. Vouches(r, st)'
      BY <3>2, <3>5, <3>7, <3>8, <3>9 DEF Vouches, Describes
    <3>11. st'.size = st.size
      BY <3>8 DEF Validator
    <3>12. TransferBacked'
      BY <3>3, <3>5, <3>6, <3>9, <3>10, <3>11 DEF TransferBacked
    <3>13. OneResponse'
      BY <1>0, <3>1, <3>2, <3>3, <2>0 DEF ContentInv, OneResponse, TypeInv, RunOK
    <3> QED
      BY <1>0, <2>0, <3>3, <3>12, <3>13 DEF ContentInv, Probed, SidecarBacked, AtRest,
        OneStream, StreamEnded, PartWhole, OutputKept, FinalWhole
  <2> QED
    BY <1>7, <2>1, <2>2, <2>3, <2>4 DEF Segmented
<1>8. CASE Stream
  <2>0. pc \in {"stream", "streaming"} /\ ~Streamable(info) /\ UNCHANGED <<output, remote, sidecar>>
    BY <1>0, <1>8 DEF Stream, StreamStart, StreamRead, StreamEnd, StreamRetry, StreamFails,
      ContentInv, Probed, files
  <2>1. CASE StreamStart
    <3>1. pc' = "streaming" /\ UNCHANGED <<src, info, st>> /\ part' = NoFile
          /\ conn' = [conn EXCEPT ![1] = remote[src].ver]
      BY <2>1 DEF StreamStart, GoTo
    <3>2. OneResponse'
      BY <1>0, <2>0, <3>1 DEF ContentInv, OneResponse, TypeInv, RunOK
    <3> QED
      BY <1>0, <2>0, <3>1, <3>2 DEF ContentInv, Probed, SidecarBacked, AtRest, TransferBacked,
        OneStream, StreamEnded, PartWhole, OutputKept, FinalWhole, NoFile
  <2>2. ASSUME pc = "streaming" PROVE conn[1] = remote[src].ver
    BY <1>0, <2>2, FirstOne, DownloadConstants DEF ContentInv, OneResponse, TypeInv, RunOK, None
  <2>3. CASE StreamRead
    <3>1. pc = "streaming" /\ UNCHANGED run
          /\ part' = [o \in 0 .. FileSize(part) |-> IF o \in DOMAIN part THEN part[o] ELSE conn[1]]
      BY <2>3 DEF StreamRead
    <3>2. OneStream'
      BY <1>0, <2>0, <2>2, <3>1 DEF run, ContentInv, OneStream
    <3> QED
      BY <1>0, <2>0, <3>1, <3>2 DEF run, ContentInv, Probed, SidecarBacked, AtRest, TransferBacked,
        OneResponse, StreamEnded, PartWhole, OutputKept, FinalWhole
  <2>4. CASE StreamEnd
    <3>1. pc = "streaming" /\ pc' = "verify" /\ UNCHANGED <<src, info, st, conn, part>>
          /\ (FileSize(part) = SizeOf[conn[1]] \/ "short" \in Faults)
      BY <2>4 DEF StreamEnd, GoTo, files
    <3>2. OneStream' /\ StreamEnded'
      BY <1>0, <2>0, <2>2, <3>1 DEF ContentInv, OneStream, StreamEnded, FileSize
    <3> QED
      BY <1>0, <2>0, <3>1, <3>2 DEF ContentInv, Probed, SidecarBacked, AtRest, TransferBacked,
        OneResponse, PartWhole, OutputKept, FinalWhole
  <2>5. CASE StreamRetry
    <3>1. pc = "streaming" /\ pc' = "stream" /\ UNCHANGED <<src, info, st, part>> /\ conn' = NoConn
      BY <2>5 DEF StreamRetry, GoTo, files
    <3>2. ~Usable'
      BY <2>0, <3>1 DEF Orderly
    <3> QED
      BY <1>0, <2>0, <3>1, <3>2 DEF ContentInv, Probed, SidecarBacked, TransferBacked,
        OneResponse, NoConn, OneStream, StreamEnded, PartWhole, OutputKept, FinalWhole
  <2>6. CASE StreamFails
    BY <1>0, <2>6, ContentEnds DEF StreamFails, files
  <2> QED
    BY <1>8, <2>1, <2>3, <2>4, <2>5, <2>6 DEF Stream
<1>9. CASE Finish
  <2>1. CASE VerifyFails
    BY <1>0, <2>1, ContentEnds DEF VerifyFails, files
  <2>2. CASE Verified
    <3>1. pc = "verify" /\ pc' = "rename" /\ UNCHANGED <<files, remote, src, info, st, conn>>
      BY <2>2 DEF Verified, GoTo
    <3>2. SizesTold => part = WholeFile(remote[src].ver)
      BY <1>0, <2>2, <3>1, SizeOKWhole DEF Verified
    <3>3. SidecarBacked'
      BY <1>0, <3>1, UsableStutter, BackedStutter DEF files, ContentInv, SidecarBacked, AtRest
    <3> QED
      BY <1>0, <3>1, <3>2, <3>3 DEF files, ContentInv, Probed, TransferBacked,
        OneResponse, OneStream, StreamEnded, PartWhole, OutputKept, FinalWhole, WholeFile
  <2>3. CASE Rename
    <3>1. pc = "rename" /\ pc' = "remove" /\ UNCHANGED <<remote, src, info, st, conn>>
          /\ output' = part /\ part' = NoFile
      BY <2>3 DEF Rename, GoTo
    <3>2. SizesTold => part = WholeFile(remote[src].ver) /\ remote[src].ver \in Versions
      BY <1>0, <3>1, RemoteOK DEF ContentInv, PartWhole, TypeInv, RunOK
    <3>3. OutputKept'
      BY <3>1, <3>2 DEF OutputKept, FinalWhole, WholeFile
    <3> QED
      BY <1>0, <3>1, <3>3 DEF ContentInv, Probed, SidecarBacked, AtRest, TransferBacked,
        OneResponse, OneStream, StreamEnded, PartWhole
  <2>4. CASE RenameFails
    BY <1>0, <2>4, ContentEnds DEF RenameFails, files
  <2>5. CASE Remove
    <3>1. info' = NoInfo /\ conn' = NoConn /\ pc' = "idle" /\ UNCHANGED output /\ sidecar' = NoState
      BY <2>5 DEF Remove, EndRun, NewAttempt
    <3>2. ~Usable'
      BY <3>1 DEF Usable, PartialFileUsable, NoState
    <3> QED
      BY <1>0, <3>1, <3>2, ContentLeft
  <2>6. CASE RemoveFails
    BY <1>0, <2>6, ContentEnds DEF RemoveFails, files
  <2> QED
    BY <1>9, <2>1, <2>2, <2>3, <2>4, <2>5, <2>6 DEF Finish
<1> QED
  BY <1>1, <1>2, <1>3, <1>4, <1>5, <1>6, <1>7, <1>8, <1>9 DEF Next, Environment

-----------------------------------------------------------------------------
\* All of it, for the runs that leave no attempt in the two windows.
LEMMA OrderlyInv == ASSUME Trusted PROVE OrderlySpec => [](TypeInv /\ ContentInv)
<1>1. Init => TypeInv /\ ContentInv
  BY TypeInit, ContentInit
<1>2. ContentInv /\ UNCHANGED vars => ContentInv'
  BY DEF vars, files, run, ContentInv, Probed, SidecarBacked, AtRest, Backed, Usable,
    PartialFileUsable, Vouches, Describes, TransferBacked, OneResponse, OneStream, StreamEnded, PartWhole, OutputKept, FinalWhole
<1>3. TypeInv /\ ContentInv /\ [Next /\ Orderly]_vars => TypeInv' /\ ContentInv'
  BY <1>2, TypeStep, ContentStep
<1> QED
  BY <1>1, <1>3, PTL DEF OrderlySpec

\* The gate never honors cursors that vouch for holes or for another file: every
\* byte the transfer counts, over any number of runs, sources and failures, is in
\* the part file and of one version (State.Matches with partialFileUsable).
THEOREM ResumeOneContent == ASSUME Trusted PROVE OrderlySpec => []OneContent
<1>1. TypeInv /\ ContentInv => OneContent
  <2> SUFFICES ASSUME TypeInv, ContentInv, pc = "pool"
               PROVE  \E v \in Versions : SizeOf[v] = st.size /\
                        \A o \in Counted(st) : o \in DOMAIN part /\ part[o] = v
    BY DEF OneContent
  <2>1. PICK r \in Remotes : Vouches(r, st)
    BY DEF ContentInv, TransferBacked
  <2>2. r.ver \in Versions /\ SizeOf[r.ver] = st.size
    BY <2>1, RemoteFacts, DescribedSize DEF Vouches
  <2> QED
    BY <2>1, <2>2 DEF Vouches
<1> QED
  BY <1>1, OrderlyInv, PTL

\* The final path holds nothing or the whole of one version: the completedBytes
\* of disjoint chunks and the size of the part file decide before os.Rename.  A
\* body of unknown size must not end early: nothing could tell (download.go:580).
THEOREM OutputWhole == ASSUME Trusted, SizesTold PROVE OrderlySpec => []FinalWhole
<1>1. ContentInv => FinalWhole
  BY DEF ContentInv, OutputKept
<1> QED
  BY <1>1, OrderlyInv, PTL

\* Under --checksum an attempt whose source serves that file is never failed by
\* verifyChecksum, whatever earlier sources and runs left in the part file and
\* wherever its own body ends, if its size is known then.
THEOREM GoodSource == ASSUME Trusted, SizesTold PROVE OrderlySpec => []GoodSourceVerifies
<1>1. TypeInv /\ ContentInv => GoodSourceVerifies
  BY SizeOKWhole DEF GoodSourceVerifies, VerifyChecksum, ChecksumOK
<1> QED
  BY <1>1, OrderlyInv, PTL

-----------------------------------------------------------------------------
\* Before the first Save of a transfer the old sidecar says no more than the
\* transfer counts, or the part file holds nothing the transfer did not write.
Kept ==
    pc = "pool" /\ Saved /\ Validator(sidecar) = Validator(st) /\ (sidecar.etag # None \/ sidecar.lm # None) =>
        \/ Counted(sidecar) \subseteq Counted(st)
        \/ \A o \in DOMAIN part : part[o] # Hole => o \in Counted(st)

LEMMA KeptStep ==
  ASSUME TypeInv, PartKept, Kept, Next
  PROVE  Kept'
<1>1. CASE pc # "pool" /\ ~GateResumes /\ ~GateFresh
  <2>1. pc' # "pool"
    BY <1>1, ErrorLeaves DEF Next, Environment, StartRun, Cancel, Crash, RemoteChange, LosePart, run,
      Attempt, ProbePrimary, ProbePrimaryFails, SourceStopped, SourceReuse, SourceProbe, Strategy,
      SourceProbeFails, GateRefuses, GateFails, Segmented, Flush, PoolReturns, PoolFails, Receive,
      Stream, StreamStart, StreamRead, StreamEnd, StreamRetry, StreamFails,
      Finish, VerifyFails, Verified, Rename, RenameFails, Remove, RemoveFails, GoTo, EndRun
  <2> QED
    BY <2>1 DEF Kept
<1>2. CASE GateResumes
  <2>1. st' = sidecar /\ sidecar' = sidecar
    BY <1>2 DEF GateResumes, Resumed, files
  <2> QED
    BY <2>1 DEF Kept, Counted
<1>3. CASE GateFresh
  <2>1. /\ pc = "gate" /\ Streamable(info) /\ ~Resumable /\ UNCHANGED <<sidecar, opts>>
        /\ st' = FreshState(info) /\ part' = Resize(part, info.size)
    BY <1>3 DEF GateFresh, GoTo, TypeInv, RunOK
  <2> SUFFICES ASSUME Saved, Validator(sidecar) = Validator(FreshState(info)),
                      sidecar.etag # None \/ sidecar.lm # None
               PROVE  \A o \in DOMAIN part' : part'[o] = Hole
    BY <2>1 DEF Kept, Saved, Validator
  <2>2. sidecar.size = info.size /\ sidecar.etag = info.etag /\ sidecar.lm = info.lm
    BY DEF Validator, FreshState
  <2>3. Matches(sidecar, info)
    BY <2>2 DEF Matches, Comparable
  <2>4. ~PartialFileUsable(sidecar.size)
    BY <2>1, <2>3 DEF Resumable
  <2>5. part = NoFile
    BY <2>1, <2>2, <2>4 DEF PartKept, PartialFileUsable, Saved, Streamable
  <2>6. DOMAIN part = {}
    BY <2>5 DEF NoFile
  <2>7. part' = [o \in 0 .. info.size - 1 |-> IF o \in DOMAIN part THEN part[o] ELSE Hole]
    BY <2>1 DEF Resize
  <2>8. \A o \in 0 .. info.size - 1 : part'[o] = Hole
    BY <2>6, <2>7
  <2> QED
    BY <2>7, <2>8
<1>4. CASE pc = "pool"
  <2>1. CASE Segmented
    <3>1. CASE Flush
      BY <3>1 DEF Flush, run, Kept, Counted
    <3>2. CASE PoolReturns \/ PoolFails
      BY <3>2, ErrorLeaves DEF PoolReturns, PoolFails, GoTo, Kept
    <3>3. ASSUME NEW c \in 1 .. Concurrency, Receive(c) PROVE Kept'
      <4> DEFINE o == NextByte(c)
      <4>1. PICK v \in Offered(c) : part' = [part EXCEPT ![o] = v]
        BY <3>3 DEF Receive
      <4>2. /\ c \in DOMAIN st.chunks /\ st' = [st EXCEPT !.chunks[c].done = @ + 1]
            /\ o = st.chunks[c].start + st.chunks[c].done
            /\ UNCHANGED <<sidecar, opts, pc>>
        BY <3>3 DEF Receive, Chunks, NextByte
      <4>3. Validator(st') = Validator(st) /\ Counted(st') = Counted(st) \cup {o}
        BY <4>2, CountedOneMore DEF TypeInv, RunOK
      <4> HIDE DEF o
      <4> QED
        BY <4>1, <4>2, <4>3 DEF Kept, Saved, Counted, Validator
    <3> QED
      BY <2>1, <3>1, <3>2, <3>3 DEF Segmented
  <2>2. CASE Cancel \/ RemoteChange
    BY <2>2 DEF Cancel, RemoteChange, files, run, Kept, Saved
  <2>3. CASE StartRun \/ LosePart \/ Crash
    BY <1>4, <2>3 DEF StartRun, LosePart, Crash, EndRun, Kept
  <2>4. ~Attempt /\ ~Stream /\ ~Finish
    BY <1>4 DEF Attempt, ProbePrimary, ProbePrimaryFails, SourceStopped, SourceReuse, SourceProbe,
      SourceProbeFails, GateRefuses, GateResumes, GateFresh, GateFails,
      Stream, StreamStart, StreamRead, StreamEnd, StreamRetry, StreamFails,
      Finish, VerifyFails, Verified, Rename, RenameFails, Remove, RemoveFails
  <2> QED
    BY <2>1, <2>2, <2>3, <2>4 DEF Next, Environment
<1> QED
  BY <1>1, <1>2, <1>3, <1>4

\* A sidecar is replaced by the state of the transfer only.
LEMMA SidecarStep ==
  ASSUME Kept, Next, sidecar # NoState, sidecar' # NoState, opts.resume, Held(sidecar),
         Validator(sidecar') = Validator(sidecar), sidecar.etag # None \/ sidecar.lm # None
  PROVE  Counted(sidecar) \subseteq Counted(sidecar')
<1>1. CASE sidecar' = sidecar
  BY <1>1
<1>2. CASE pc = "pool" /\ sidecar' = st
  BY <1>2 DEF Kept, Saved, Held
<1>3. sidecar' = sidecar \/ (pc = "pool" /\ sidecar' = st)
  BY DEF Next, Environment, StartRun, Cancel, Crash, RemoteChange, LosePart, files,
    Attempt, ProbePrimary, ProbePrimaryFails, SourceStopped, SourceReuse, SourceProbe,
    SourceProbeFails, GateRefuses, GateResumes, GateFresh, GateFails,
    Segmented, Flush, PoolReturns, PoolFails, Receive,
    Stream, StreamStart, StreamRead, StreamEnd, StreamRetry, StreamFails,
    Finish, VerifyFails, Verified, Rename, RenameFails, Remove, RemoveFails
<1> QED
  BY <1>1, <1>2, <1>3

\* Durable resume: as long as the part file is kept, no State.Save forgets a byte
\* the sidecar on disk vouches for; sources may change at any time.
THEOREM ResumeRefetchesNothing == Spec /\ []PartKept => NothingRefetched
<1>1. Init => Kept
  BY DEF Init, Kept
<1>2. TypeInv /\ PartKept /\ Kept /\ [Next]_vars => Kept'
  <2>1. Kept /\ UNCHANGED vars => Kept'
    BY DEF vars, files, run, Kept, Saved
  <2> QED
    BY <2>1, KeptStep
<1>3. Kept /\ [Next]_vars =>
        [ /\ sidecar # NoState /\ sidecar' # NoState
          /\ opts.resume /\ Held(sidecar)
          /\ Validator(sidecar') = Validator(sidecar) /\ (sidecar.etag # None \/ sidecar.lm # None)
          => Counted(sidecar) \subseteq Counted(sidecar') ]_vars
  BY SidecarStep
<1> QED
  BY <1>1, <1>2, <1>3, TypeInit, TypeStep, PTL DEF Spec, NothingRefetched

-----------------------------------------------------------------------------
\* Two settings in which the hypotheses above hold of every behaviour: all sources
\* answer a probe with ranges and a size, and either nothing crashes and every
\* save succeeds, or the resource has one size in all its versions.
Segments == "unavailable" \notin Faults /\ \A r \in Remotes : r.ranges /\ r.sized
OneSize == \A v, w \in Versions : SizeOf[v] = SizeOf[w]
Calm == MaxCrashes = 0 /\ "save" \notin Faults

\* Then no attempt ever is a single stream.
OnlySegments ==
    /\ info # NoInfo => Streamable(info)
    /\ pc \notin {"stream", "streaming"}
    /\ pc \in {"verify", "rename"} => Streamable(info)

LEMMA AnswersStreamable ==
  ASSUME Segments, NEW r \in Remotes, NEW i \in InfosOf(r)
  PROVE  Streamable(i) /\ i.size = SizeOf[r.ver]
<1>1. i = OfGet(Answered(r)) /\ r.ranges /\ r.sized
  BY DEF Segments, InfosOf
<1>2. SizeOf[r.ver] > 0 /\ SizeOf[r.ver] # Unknown
  BY RemoteFacts DEF Unknown
<1>3. Answered(r).status = "206" /\ Answered(r).length = SizeOf[r.ver]
  BY <1>1 DEF Answered
<1>4. i.size = SizeOf[r.ver] /\ i.ranges
  BY <1>1, <1>2, <1>3 DEF OfGet
<1> QED
  BY <1>2, <1>4 DEF Streamable

\* How a step changes the run: it leaves it where it is, starts it, ends an
\* attempt, takes the answer of a source, or goes on with the same probe.
LEMMA RunStep ==
  ASSUME TypeInv, Next
  PROVE  \/ UNCHANGED <<pc, info>>
         \/ info' = NoInfo /\ pc' \in {"probe", "idle", "source"}
         \/ \E s \in 1 .. Sources : info' \in InfosOf(remote[s]) /\ pc' \in {"source", "gate", "stream"}
              /\ (pc' = "stream" => ~Streamable(info'))
         \/ UNCHANGED info /\ pc = "source" /\ info # NoInfo /\ pc' = IF Streamable(info) THEN "gate" ELSE "stream"
         \/ UNCHANGED info /\ pc = "probe" /\ pc' = "source"
         \/ UNCHANGED info /\ pc \in {"gate", "pool"} /\ pc' \in {"pool", "verify"}
         \/ UNCHANGED info /\ pc \in {"stream", "streaming"} /\ pc' \in {"stream", "streaming", "verify"}
         \/ UNCHANGED info /\ pc \in {"verify", "rename"} /\ pc' \in {"rename", "remove"}
<1>1. CASE Environment
  BY <1>1 DEF Environment, StartRun, Cancel, Crash, RemoteChange, LosePart, run, EndRun, NewAttempt
<1>2. CASE ProbePrimary
  BY <1>2, FirstOne DEF ProbePrimary, EndRun, NewAttempt, GoTo
<1>3. CASE ProbePrimaryFails \/ SourceStopped
  BY <1>3 DEF ProbePrimaryFails, SourceStopped, EndRun, NewAttempt, GoTo
<1>4. CASE SourceReuse
  BY <1>4 DEF SourceReuse, Strategy, GoTo
<1>5. CASE SourceProbe
  <2>1. src \in 1 .. Sources
    BY DEF TypeInv, RunOK
  <2>2. PICK i \in InfosOf(remote[src]) : Strategy(i)
    BY <1>5 DEF SourceProbe
  <2> QED
    BY <2>1, <2>2 DEF Strategy, GoTo
<1>6. CASE \E e : AttemptError(e) \/ EndRun(e)
  BY <1>6, ErrorLeaves
<1>7. CASE SourceProbeFails \/ GateRefuses \/ GateFails
  BY <1>6, <1>7 DEF SourceProbeFails, GateRefuses, GateFails
<1>8. CASE GateResumes \/ GateFresh
  BY <1>8 DEF GateResumes, GateFresh, GoTo
<1>9. CASE Segmented
  BY <1>6, <1>9 DEF Segmented, Flush, PoolReturns, PoolFails, Receive, GoTo, run
<1>10. CASE Stream
  BY <1>6, <1>10 DEF Stream, StreamStart, StreamRead, StreamEnd, StreamRetry, StreamFails, GoTo, run
<1>11. CASE Finish
  BY <1>6, <1>11 DEF Finish, VerifyFails, Verified, Rename, RenameFails, Remove, RemoveFails, GoTo
<1> QED
  BY <1>1, <1>2, <1>3, <1>4, <1>5, <1>7, <1>8, <1>9, <1>10, <1>11 DEF Next, Attempt

LEMMA SegmentsInit == Init => OnlySegments
  BY DEF Init, OnlySegments

LEMMA SegmentsStep ==
  ASSUME Segments, TypeInv, OnlySegments, Next
  PROVE  OnlySegments'
<1>1. CASE UNCHANGED <<pc, info>>
  BY <1>1 DEF OnlySegments
<1>2. CASE info' = NoInfo /\ pc' \in {"probe", "idle", "source"}
  BY <1>2 DEF OnlySegments
<1>3. ASSUME NEW s \in 1 .. Sources, info' \in InfosOf(remote[s]), pc' \in {"source", "gate", "stream"},
             pc' = "stream" => ~Streamable(info')
      PROVE  OnlySegments'
  <2>1. Streamable(info')
    BY <1>3, AnswersStreamable, RemoteOK DEF TypeInv
  <2> QED
    BY <1>3, <2>1 DEF OnlySegments
<1>4. CASE UNCHANGED info /\ pc = "source" /\ info # NoInfo /\ pc' = IF Streamable(info) THEN "gate" ELSE "stream"
  BY <1>4 DEF OnlySegments
<1>5. CASE UNCHANGED info /\ pc = "probe" /\ pc' = "source"
  BY <1>5 DEF OnlySegments
<1>6. CASE UNCHANGED info /\ pc \in {"gate", "pool"} /\ pc' \in {"pool", "verify"}
  BY <1>6 DEF OnlySegments, TypeInv, RunOK
<1>7. CASE UNCHANGED info /\ pc \in {"verify", "rename"} /\ pc' \in {"rename", "remove"}
  BY <1>7 DEF OnlySegments
<1>8. ~(pc \in {"stream", "streaming"})
  BY DEF OnlySegments
<1> QED
  BY <1>1, <1>2, <1>3, <1>4, <1>5, <1>6, <1>7, <1>8, RunStep

\* Without crashes and failing saves every transfer saves before it is left.
LEMMA CalmOrderly ==
  ASSUME Calm, TypeInv, OnlySegments, Next
  PROVE  Orderly
<1>1. ASSUME pc = "pool", pc' # "pool" PROVE SavedNow
  <2>1. ~Crash
    BY DEF Calm, Crash, TypeInv, WorldOK
  <2>2. PoolReturns \/ PoolFails
    BY <1>1, <2>1 DEF Next, Environment, StartRun, Cancel, RemoteChange, LosePart, run,
      Attempt, ProbePrimary, ProbePrimaryFails, SourceStopped, SourceReuse, SourceProbe,
      SourceProbeFails, GateRefuses, GateResumes, GateFresh, GateFails,
      Segmented, Flush, Receive,
      Stream, StreamStart, StreamRead, StreamEnd, StreamRetry, StreamFails,
      Finish, VerifyFails, Verified, Rename, RenameFails, Remove, RemoveFails
  <2>3. sidecar' = st
    BY <2>2 DEF PoolReturns, PoolFails, Calm
  <2> QED
    BY <2>3 DEF SavedNow, Validator, Counted
<1>2. ~(pc \in {"streaming", "verify", "rename"} /\ ~Streamable(info))
  BY DEF OnlySegments
<1> QED
  BY <1>1, <1>2 DEF Orderly

LEMMA CalmInv == ASSUME Segments PROVE Spec => [](TypeInv /\ OnlySegments)
<1>1. OnlySegments /\ UNCHANGED vars => OnlySegments'
  BY DEF OnlySegments, vars, run
<1>2. TypeInv /\ OnlySegments /\ [Next]_vars => TypeInv' /\ OnlySegments'
  BY <1>1, TypeStep, SegmentsStep
<1> QED
  BY <1>2, TypeInit, SegmentsInit, PTL DEF Spec

\* Failing over between sources that serve ranges, with requests that fail or
\* time out, cancels, lost part files, sidecars that cannot be removed: without a
\* crash or a failed save, every guarantee holds of every run.
THEOREM CalmDownload ==
  ASSUME Trusted, Segments, Calm
  PROVE  Spec => [](OneContent /\ FinalWhole /\ GoodSourceVerifies)
<1>1. TypeInv /\ OnlySegments /\ [Next]_vars => [Next /\ Orderly]_vars
  BY CalmOrderly
<1>2. Spec => OrderlySpec
  BY <1>1, CalmInv, PTL DEF Spec, OrderlySpec
<1>3. SizesTold
  BY AnswersStreamable DEF SizesTold, Streamable
<1> QED
  BY <1>2, <1>3, ResumeOneContent, OutputWhole, GoodSource, PTL

-----------------------------------------------------------------------------
\* With one size there is no other size a part file could be left with.
Sized ==
    \A v \in Versions :
        /\ FileSize(part) \in {0, SizeOf[v]}
        /\ sidecar # NoState => sidecar.size = SizeOf[v]
        /\ pc = "pool" => st.size = SizeOf[v]
        /\ info # NoInfo => info.size = SizeOf[v]

LEMMA SizedInit == Init => Sized
<1>1. Cardinality({}) = 0 /\ DOMAIN NoFile = {}
  BY FS_EmptySet DEF NoFile
<1> QED
  BY <1>1 DEF Init, Sized, FileSize

LEMMA SizedStep ==
  ASSUME Segments, OneSize, TypeInv, OnlySegments, Sized, Next
  PROVE  Sized'
<1> SUFFICES ASSUME NEW v \in Versions
             PROVE  (/\ FileSize(part) \in {0, SizeOf[v]}
                     /\ sidecar # NoState => sidecar.size = SizeOf[v]
                     /\ pc = "pool" => st.size = SizeOf[v]
                     /\ info # NoInfo => info.size = SizeOf[v])'
  BY DEF Sized
<1>0. /\ FileSize(part) \in {0, SizeOf[v]}
      /\ sidecar # NoState => sidecar.size = SizeOf[v]
      /\ pc = "pool" => st.size = SizeOf[v]
      /\ info # NoInfo => info.size = SizeOf[v]
  BY DEF Sized
<1>1. info' # NoInfo => info'.size = SizeOf[v]
  <2>1. ASSUME NEW s \in 1 .. Sources, info' \in InfosOf(remote[s]) PROVE info'.size = SizeOf[v]
    BY <2>1, AnswersStreamable, RemoteOK DEF TypeInv, OneSize
  <2> QED
    BY <1>0, <2>1, RunStep
<1>2. FileSize(NoFile) = 0
  BY FS_EmptySet DEF FileSize, NoFile
<1>3. FileSize(part') \in {0, SizeOf[v]}
  <2>1. CASE GateFresh
    <3>1. DOMAIN part' = 0 .. info.size - 1 /\ info # NoInfo
      BY <2>1 DEF GateFresh, Resize, TypeInv, RunOK, Streamable, NoInfo
    <3>2. SizeOf[v] \in Nat \ {0} /\ info.size = SizeOf[v]
      BY <1>0, <3>1, OffsetFacts
    <3> QED
      BY <3>1, <3>2, FS_Interval DEF FileSize
  <2>2. CASE UNCHANGED part \/ part' = NoFile
    BY <1>0, <1>2, <2>2
  <2>3. CASE Crash \/ \E c \in 1 .. Concurrency : Receive(c)
    <3>1. DOMAIN part' = DOMAIN part
      BY <2>3 DEF Crash, Receive
    <3> QED
      BY <1>0, <3>1 DEF FileSize
  <2>4. ~StreamRead
    BY DEF StreamRead, OnlySegments
  <2>5. UNCHANGED part \/ part' = NoFile \/ GateFresh \/ Crash \/ \E c \in 1 .. Concurrency : Receive(c)
    BY <2>4 DEF Next, Environment, StartRun, Cancel, RemoteChange, LosePart, files,
      Attempt, ProbePrimary, ProbePrimaryFails, SourceStopped, SourceReuse, SourceProbe,
      SourceProbeFails, GateRefuses, GateResumes, GateFails,
      Segmented, Flush, PoolReturns, PoolFails,
      Stream, StreamStart, StreamEnd, StreamRetry, StreamFails,
      Finish, VerifyFails, Verified, Rename, RenameFails, Remove, RemoveFails
  <2> QED
    BY <2>1, <2>2, <2>3, <2>5
<1>4. sidecar' # NoState => sidecar'.size = SizeOf[v]
  <2>1. sidecar' = sidecar \/ sidecar' = NoState \/ (pc = "pool" /\ sidecar' = st)
    BY DEF Next, Environment, StartRun, Cancel, Crash, RemoteChange, LosePart, files,
      Attempt, ProbePrimary, ProbePrimaryFails, SourceStopped, SourceReuse, SourceProbe,
      SourceProbeFails, GateRefuses, GateResumes, GateFresh, GateFails,
      Segmented, Flush, PoolReturns, PoolFails, Receive,
      Stream, StreamStart, StreamRead, StreamEnd, StreamRetry, StreamFails,
      Finish, VerifyFails, Verified, Rename, RenameFails, Remove, RemoveFails
  <2> QED
    BY <1>0, <2>1
<1>5. pc' = "pool" => st'.size = SizeOf[v]
  <2> SUFFICES ASSUME pc' = "pool" PROVE st'.size = SizeOf[v]
    OBVIOUS
  <2>1. CASE GateResumes
    BY <1>0, <2>1 DEF GateResumes, Resumable, Saved, Resumed
  <2>2. CASE GateFresh
    <3>1. info # NoInfo /\ st' = FreshState(info)
      BY <2>2 DEF GateFresh, TypeInv, RunOK, Streamable, NoInfo
    <3> QED
      BY <1>0, <3>1 DEF FreshState
  <2>3. CASE pc = "pool" /\ st'.size = st.size
    BY <1>0, <2>3
  <2>4. ASSUME NEW c \in 1 .. Concurrency, Receive(c) PROVE pc = "pool" /\ st'.size = st.size
    BY <2>4 DEF Receive, TypeInv, RunOK, Sound, IsState
  <2>5. GateResumes \/ GateFresh \/ (pc = "pool" /\ UNCHANGED st) \/ \E c \in 1 .. Concurrency : Receive(c)
    BY ErrorLeaves DEF Next, Environment, StartRun, Cancel, Crash, RemoteChange, LosePart, run,
      Attempt, ProbePrimary, ProbePrimaryFails, SourceStopped, SourceReuse, SourceProbe, Strategy,
      SourceProbeFails, GateRefuses, GateFails, Segmented, Flush, PoolReturns, PoolFails,
      Stream, StreamStart, StreamRead, StreamEnd, StreamRetry, StreamFails,
      Finish, VerifyFails, Verified, Rename, RenameFails, Remove, RemoveFails, GoTo, EndRun
  <2> QED
    BY <2>1, <2>2, <2>3, <2>4, <2>5
<1> QED
  BY <1>1, <1>3, <1>4, <1>5 DEF FileSize

LEMMA SizedKept == ASSUME TypeInv, Sized PROVE PartKept
<1> SUFFICES ASSUME sidecar # NoState, FileSize(part) # sidecar.size
             PROVE  part = NoFile
  BY DEF PartKept
<1>1. PICK v \in Versions : TRUE
  BY FirstOne, RemoteOK DEF TypeInv
<1>2. FileSize(part) = 0
  BY <1>1 DEF Sized
<1>3. part \in [0 .. 0 - 1 -> Versions \cup {Hole}]
  BY <1>2, FileFacts DEF TypeInv, DiskOK
<1> QED
  BY <1>3 DEF NoFile

\* Over crashes, power failures, failing saves and changes in mid-run alike, no
\* byte a sidecar vouches for is forgotten while the size stays the same.
THEOREM OneSizeRefetchesNothing ==
  ASSUME Segments, OneSize
  PROVE  Spec => NothingRefetched
<1>1. Sized /\ UNCHANGED vars => Sized'
  BY DEF Sized, vars, files, run, FileSize
<1>2. TypeInv /\ OnlySegments /\ Sized /\ [Next]_vars => Sized'
  BY <1>1, SizedStep
<1>3. TypeInv /\ Sized => PartKept
  BY SizedKept
<1> QED
  BY <1>2, <1>3, SizedInit, CalmInv, ResumeRefetchesNothing, PTL DEF Spec

=============================================================================
