------------------------------ MODULE Progress ------------------------------
(* The progress line of one transfer (src/download/progress.go): a counter  *)
(* that the transfer advances, a goroutine that redraws the line at every   *)
(* tick, and Stop, which ends the goroutine and draws the line a last time. *)
(* A transfer makes its own Progress; they follow one another on the same   *)
(* terminal.                                                                *)
EXTENDS Integers

VARIABLES
    active,     \* not quiet, and the output is a terminal
    counted,    \* done: the bytes added so far
    renderer,   \* the goroutine: "none", "select" or "exited"
    stopped,    \* the stop channel is closed
    line        \* the line last drawn: the count it shows, and whether it ends

progress == <<active, counted, renderer, stopped, line>>

NoLine == [shown |-> 0, ends |-> TRUE]

ProgressInit ==
    /\ active \in BOOLEAN
    /\ counted = 0 /\ renderer = "none" /\ stopped = FALSE /\ line = NoLine

\* NewProgress and Start
Start ==
    /\ counted' = 0 /\ stopped' = FALSE
    /\ renderer' = IF active THEN "select" ELSE "none"
    /\ UNCHANGED <<active, line>>

Add(n) ==
    /\ counted' = counted + n
    /\ UNCHANGED <<active, renderer, stopped, line>>

Draw(ends) == line' = [shown |-> counted, ends |-> ends]

\* The ticker; select takes it even when the channel or the context is ready.
RenderTick ==
    /\ renderer = "select"
    /\ Draw(FALSE)
    /\ UNCHANGED <<active, counted, renderer, stopped>>

RenderExit(canceled) ==
    /\ renderer = "select" /\ (stopped \/ canceled)
    /\ renderer' = "exited"
    /\ UNCHANGED <<active, counted, stopped, line>>

\* Stop: close the channel, ...
Close ==
    /\ stopped' = active
    /\ UNCHANGED <<active, counted, renderer, line>>

\* ... wait for the goroutine, draw the final line.
Waited_NoWait == TRUE
Waited == renderer # "select"

FinalDraw ==
    /\ Waited
    /\ IF active THEN Draw(TRUE) ELSE UNCHANGED line
    /\ UNCHANGED <<active, counted, renderer, stopped>>

=============================================================================
