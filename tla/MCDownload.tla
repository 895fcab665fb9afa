---------------------------- MODULE MCDownload ----------------------------
(* Small resources, sources and options for Download.                      *)
EXTENDS Download

\* Two versions of the same size.
TwoVersions == <<3, 3>>
SmallVersions == <<2, 2>>
OneVersion == <<3>>

Serves(v, etag, lm, ranges) == [ver |-> v, etag |-> etag, lm |-> lm, ranges |-> ranges, sized |-> TRUE]

\* Honest validators, each kind of them, on servers with ranges and without, and
\* a server that does not tell the size of what it streams.
Tagged == {Serves(1, 1, 0, TRUE), Serves(2, 2, 0, TRUE)}
Dated == {Serves(1, 0, 1, TRUE), Serves(2, 0, 2, TRUE)}
NoRanges == {Serves(1, 1, 0, FALSE), Serves(2, 2, 0, FALSE)}
Unsized == [Serves(2, 2, 0, FALSE) EXCEPT !.sized = FALSE]
Untagged == {Serves(1, 0, 0, TRUE)}
OneTagged == {Serves(1, 1, 0, TRUE)}

AnyTagged == Tagged \cup {Unsized}

Ranged == Tagged \cup Dated \cup Untagged
AnyRemote == Ranged \cup NoRanges

Opt(resume, force, checksum) == [resume |-> resume, force |-> force, checksum |-> checksum]
Plain == {Opt(TRUE, FALSE, None)}
NoChecksum == {Opt(r, f, None) : r \in BOOLEAN, f \in BOOLEAN}
ChecksumOrNot == {Opt(TRUE, f, c) : f \in BOOLEAN, c \in {None, 1}}

NoFaults == {}
NetFaults == {"net"}
SingleFaults == {"net", "short", "disk"}
MirrorFaults == {"net", "timeout", "short", "remove", "save", "lost"}
AllFaults == FaultKinds
=============================================================================
