------------------------------ MODULE Selection ------------------------------
(***************************************************************************)
(* Selecting entries of a table: what SelectSeq does, by position, and     *)
(* written as a recursive function, so that it can be reasoned about.      *)
(***************************************************************************)
EXTENDS Integers, Sequences

\* The entries of s at the positions in keep, in their order.
Select(s, keep) ==
    LET taken[n \in 0 .. Len(s)] ==
            IF n = 0 THEN <<>>
            ELSE IF n \in keep THEN Append(taken[n - 1], s[n]) ELSE taken[n - 1]
    IN  taken[Len(s)]
=============================================================================
