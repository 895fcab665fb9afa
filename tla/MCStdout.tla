----------------------------- MODULE MCStdout -----------------------------
(* Small resources and servers for Stdout.                                 *)
EXTENDS Stdout

Says(status, length, ranges) ==
    [status |-> status, length |-> length, ranges |-> ranges, etag |-> None, lm |-> None]

\* Servers that honor ranges, with and without a size, that ignore them, and one
\* that refuses both requests of the probe with a page of another length.
AnyServer == {[get |-> Says("206", Size, TRUE), head |-> Says("ok", Size, TRUE)],
              [get |-> Says("206", Unknown, TRUE), head |-> Says("ok", Size, TRUE)],
              [get |-> Says("200", Unknown, FALSE), head |-> Says("ok", Unknown, FALSE)],
              [get |-> Says("other", Unknown, FALSE), head |-> Says("other", 1, FALSE)]}
AllFaults == FaultKinds
=============================================================================
