----------------------------- MODULE Transfer -----------------------------
(***************************************************************************)
(* What a segmented transfer promises its caller, whatever its goroutines  *)
(* do inside (src/download/pool.go, runSegmented):                         *)
(*   - bytes received are never given up: a chunk's count only grows;      *)
(*   - the durable cursors in the sidecar only advance and never claim a   *)
(*     byte that was not received;                                         *)
(*   - when it returns, nothing is received or saved any more, and without *)
(*     an error the sidecar holds exactly what was received.               *)
(***************************************************************************)
EXTENDS Integers

CONSTANTS
    Chunks,   \* the chunks of the plan
    Length    \* Length[c]: the bytes of chunk c

VARIABLES
    got,      \* bytes received per chunk
    saved,    \* bytes the sidecar claims per chunk
    outcome   \* "running", then "ok" or "error"

vars == <<got, saved, outcome>>

Counts == UNION {0 .. Length[c] : c \in Chunks}
Cursors == {f \in [Chunks -> Counts] : \A c \in Chunks : f[c] <= Length[c]}

\* Cursors between the durable ones and the bytes received.
CanSave(s) ==
    /\ s \in Cursors
    /\ \A c \in Chunks : saved[c] <= s[c] /\ s[c] <= got[c]

Init ==
    /\ got \in Cursors
    /\ saved = got
    /\ outcome = "running"

Receive(c) ==
    /\ outcome = "running"
    /\ \E n \in 1 .. Length[c] - got[c] : got' = [got EXCEPT ![c] = @ + n]
    /\ UNCHANGED <<saved, outcome>>

Save ==
    /\ outcome = "running"
    /\ CanSave(saved')
    /\ UNCHANGED <<got, outcome>>

\* Returning makes a last attempt to save.
Finish ==
    /\ outcome = "running"
    /\ CanSave(saved')
    /\ outcome' \in {"ok", "error"}
    /\ outcome' = "ok" => saved' = got
    /\ UNCHANGED got

Next == Save \/ Finish \/ \E c \in Chunks : Receive(c)

Spec == Init /\ [][Next]_vars

=============================================================================
