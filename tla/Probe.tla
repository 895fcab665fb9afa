------------------------------- MODULE Probe -------------------------------
(* What one probe makes of a server's answers: probe and headFallback       *)
(* (src/download/probe.go).  An answer is [status, length, ranges, etag,    *)
(* lm]: its status class, the size its headers tell (the total of           *)
(* Content-Range for a 206, Content-Length otherwise), whether it           *)
(* advertises "Accept-Ranges: bytes", and its validators.                   *)
EXTENDS Integers

None == 0        \* a header that is missing (or no --checksum)
Unknown == -1    \* a size that is missing, malformed, negative or "*"

\* What a probe that got nothing knows.
NoInfo == [size |-> 0, etag |-> None, lm |-> None, ranges |-> FALSE]

\* 206 and 200 are answers to the one-byte GET; anything else asks for a HEAD.
Conclusive(a) == a.status \in {"206", "200"}

\* Ranges are honored by a 206 only, and only if it tells the total size.
OfGet(a) ==
    [size |-> a.length, etag |-> a.etag, lm |-> a.lm,
     ranges |-> a.status = "206" /\ a.length # Unknown]

\* The size and the ranges of a HEAD count, whatever its status is; its
\* validators replace those of the GET where it has them.
Override(old, new) == IF new # None THEN new ELSE old
OfHead(get, head) ==
    [size |-> head.length, ranges |-> head.ranges,
     etag |-> Override(get.etag, head.etag), lm |-> Override(get.lm, head.lm)]

\* remoteInfo.streamable
Streamable(i) == i.ranges /\ i.size > 0

=============================================================================
