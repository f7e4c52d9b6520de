------------------------------ MODULE Filtering ------------------------------
(* Selection from a sequence, as a recursive function of its length, which *)
(* lemmas can be proved about (SequenceLemmas).                            *)
EXTENDS Integers, Sequences

\* The elements of s that are in S, in their order.
Filter(s, S) ==
  LET f[i \in 0..Len(s)] ==
        IF i = 0 THEN <<>>
        ELSE IF s[i] \in S THEN Append(f[i-1], s[i]) ELSE f[i-1]
  IN  f[Len(s)]
=============================================================================
