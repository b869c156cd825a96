------------------------------ MODULE LineFifo ------------------------------
(***************************************************************************)
(* What a reader of a tool's output is promised, without pipes or chunks:  *)
(* the lines of what the tool writes come out one by one, in order, whole  *)
(* and each once; empty ones are left out, and the beginning of a line is  *)
(* held back until the line is complete or the tool is gone.               *)
(***************************************************************************)
EXTENDS Splitting

CONSTANT Writes  \* what the tool may write at a time

VARIABLES queue,   \* complete lines nobody has taken yet
          rest     \* the beginning of a line

vars == <<queue, rest>>

Init == queue = <<>> /\ rest = <<>>

Write(bytes) ==
    /\ queue' = queue \o LinesOf(rest \o bytes)
    /\ rest' = RestOf(rest \o bytes)

Take ==
    /\ queue # <<>>
    /\ queue' = Tail(queue)
    /\ UNCHANGED rest

\* The tool is gone: what it left of a line is a line.
Close ==
    /\ rest # <<>>
    /\ queue' = Append(queue, rest)
    /\ rest' = <<>>

\* The reader goes away, or turns to another run.
Drop == queue' = <<>> /\ rest' = <<>>

Next == (\E bytes \in Writes : Write(bytes)) \/ Take \/ Close \/ Drop

Spec == Init /\ [][Next]_vars
=============================================================================
