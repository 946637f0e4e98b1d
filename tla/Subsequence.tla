----------------------------- MODULE Subsequence -----------------------------
(***************************************************************************)
(* The members of a set that a sequence holds, in their order.             *)
(***************************************************************************)
EXTENDS Naturals, Sequences

Only(t, S) ==
  LET only[n \in 0..Len(t)] ==
        IF n = 0 THEN <<>>
        ELSE IF t[n] \in S THEN Append(only[n - 1], t[n]) ELSE only[n - 1]
  IN  only[Len(t)]
=============================================================================
