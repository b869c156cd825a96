----------------------------- MODULE Splitting -----------------------------
(***************************************************************************)
(* What the lines of a sequence of characters are: the longest stretches   *)
(* without a break that a break follows, and the rest behind the last      *)
(* break.  Stated over positions, to hold the loop of stream_chunks        *)
(* against.                                                                *)
(***************************************************************************)
EXTENDS Naturals, Sequences, FiniteSetsExt

CONSTANT Break   \* what ends a line

\* The last positions of the lines of s that a break follows.
Ends(s) == {j \in 1..(Len(s) - 1) : s[j] # Break /\ s[j + 1] = Break}

\* The last break of s before position j, or 0.
BreakBefore(s, j) == Max({0} \cup {i \in 1..(j - 1) : s[i] = Break})

LinesOf(s) ==
    LET ends == Ends(s)
        Nth(k) == CHOOSE j \in ends : Cardinality({i \in ends : i < j}) = k - 1
    IN  [k \in 1..Cardinality(ends) |-> SubSeq(s, BreakBefore(s, Nth(k)) + 1, Nth(k))]

\* What follows the last break of s.
RestOf(s) == SubSeq(s, BreakBefore(s, Len(s) + 1) + 1, Len(s))
=============================================================================
