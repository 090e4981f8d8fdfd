---------------------------- MODULE Subsequences ----------------------------
(***************************************************************************)
(* Lists that the code filters: a query with a condition, an if in a loop. *)
(***************************************************************************)
EXTENDS Naturals, Sequences

\* Those elements of s that are in S, in the order of s: SelectSeq for a set,
\* by a recursive function, about which the prover can reason.
Those(s, S) ==
    LET first[n \in 0 .. Len(s)] ==
            CASE n = 0                   -> <<>>
              [] n > 0 /\ s[n] \in S     -> Append(first[n - 1], s[n])
              [] OTHER                   -> first[n - 1]
    IN  first[Len(s)]
=============================================================================
