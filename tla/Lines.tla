------------------------------- MODULE Lines -------------------------------
(***************************************************************************)
(* The way of a tool's output to the browser (dashboard/src/main.rs): a    *)
(* process writes to its stdout pipe, stream_chunks reads chunks of it as  *)
(* they come, splits them into lines, and sends these over the run's       *)
(* channel, which is the browser's event stream as long as that is open.   *)
(* A character is a token: Break for CR and LF, any other string for text. *)
(***************************************************************************)
EXTENDS Integers, Sequences

CONSTANTS PipeCap,  \* how many unread tokens a pipe holds
          MaxLane   \* how many lines may wait for the browser: a bound of the model

ASSUME LinesAssumption == PipeCap \in Nat /\ MaxLane \in Nat \ {0}

VARIABLES
    pipe,     \* written by the tool, not yet read
    current,  \* the line stream_chunks is in the middle of
    lane,     \* sent, not yet handled by the page
    open      \* the page's EventSource is open, and with it the channel's receiver

lineVars == <<pipe, current, lane>>

Break == "break"

InitLines == pipe = <<>> /\ current = <<>> /\ lane = <<>>

ResetLines == pipe' = <<>> /\ current' = <<>> /\ lane' = <<>>

\* tx.send: an error, when the receiver is gone, is ignored.
Sent(lines) == IF open THEN lane \o lines ELSE lane

\* write(2) to the pipe: all of it at once, when there is room.
Println(tokens) ==
    /\ Len(pipe) + Len(tokens) <= PipeCap
    /\ pipe' = pipe \o tokens
    /\ UNCHANGED <<current, lane>>

-----------------------------------------------------------------------------
(* Plausible bugs, each of the definition below that its name begins with. *)

\* A break at the beginning of a line is taken for text.
FeedEmpty(state, token) ==
    IF token # Break \/ state.line = <<>> THEN [state EXCEPT !.line = Append(@, token)]
    ELSE [line |-> <<>>, done |-> Append(state.done, state.line)]

\* One byte of stream_chunks; empty lines are skipped.
Feed(state, token) ==
    CASE token # Break -> [state EXCEPT !.line = Append(@, token)]
      [] token = Break /\ state.line = <<>> -> state
      [] OTHER -> [line |-> <<>>, done |-> Append(state.done, state.line)]

\* The line under way starts anew with each chunk.
ReadChunkForgetful(n) ==
    LET split[i \in 0..n] ==
            IF i = 0 THEN [line |-> <<>>, done |-> <<>>] ELSE Feed(split[i - 1], pipe[i])
    IN  /\ Len(lane) < MaxLane
        /\ pipe' = SubSeq(pipe, n + 1, Len(pipe))
        /\ current' = split[n].line
        /\ lane' = Sent(split[n].done)

-----------------------------------------------------------------------------
(* stream_chunks.                                                          *)

\* One read: the first n tokens of the pipe, wherever that cuts them.
ReadChunk(n) ==
    LET split[i \in 0..n] ==
            IF i = 0 THEN [line |-> current, done |-> <<>>] ELSE Feed(split[i - 1], pipe[i])
    IN  /\ Len(lane) < MaxLane
        /\ pipe' = SubSeq(pipe, n + 1, Len(pipe))
        /\ current' = split[n].line
        /\ lane' = Sent(split[n].done)

\* A read of length zero: what is left is the last line.
ReadEof ==
    /\ pipe = <<>>
    /\ current' = <<>>
    /\ lane' = IF current = <<>> THEN lane ELSE Sent(<<current>>)
    /\ UNCHANGED pipe
=============================================================================
