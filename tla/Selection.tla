----------------------------- MODULE Selection ------------------------------
(* Selecting from a sequence one element after the other, as a loop with a   *)
(* conditional append does: SelectSeq, but with its test a function of the   *)
(* positions, so that theorems can speak of it.                              *)
EXTENDS Naturals, Sequences

Kept(s, keep) ==
    LET kept[n \in 0..Len(s)] ==
            IF n = 0 THEN << >>
            ELSE IF keep[n] THEN Append(kept[n - 1], s[n])
            ELSE kept[n - 1]
    IN  kept[Len(s)]
=============================================================================
