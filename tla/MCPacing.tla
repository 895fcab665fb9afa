----------------------------- MODULE MCPacing -----------------------------
(* Two workers, named so that TLC may exchange them.                       *)
EXTENDS Pacing, TLC

CONSTANTS w1, w2
TwoWorkers == {w1, w2}
=============================================================================
