------------------------------- MODULE Filters -------------------------------
(***************************************************************************)
(* The elements of a sequence that belong to a set, in order.              *)
(*                                                                         *)
(* SelectSeq of the standard modules does the same for a predicate; this   *)
(* form, a recursive function and a set, is one the proofs can reason      *)
(* about.                                                                  *)
(***************************************************************************)
EXTENDS Naturals, Sequences

\* For every length of a prefix of s, the elements of the prefix that are in T.
Kept(s, T) ==
    LET kept[i \in 0..Len(s)] ==
            IF i = 0 THEN << >>
            ELSE IF s[i] \in T THEN Append(kept[i - 1], s[i]) ELSE kept[i - 1]
    IN kept

Filter(s, T) == Kept(s, T)[Len(s)]
==============================================================================
