--------------------------- MODULE MCPlanChunks ---------------------------
(* Small widths for PlanChunks: an int64 of 6 bits (MaxInt64 = 31).        *)
EXTENDS PlanChunks

MCSizes == -1 .. 15           \* every size with 2 * size <= MaxInt64
MCConcurrencies == -1 .. 17   \* below 1, below, at and above every size

=============================================================================
