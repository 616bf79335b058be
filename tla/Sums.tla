-------------------------------- MODULE Sums --------------------------------
(***************************************************************************)
(* The sum of a sequence of amounts: what reduce and an aggregate _sum of  *)
(* the database compute. It is a recursive function, which both TLC and a  *)
(* proof by induction can unfold.                                          *)
(***************************************************************************)
EXTENDS Integers, Sequences

\* The sums of the first 0, 1, 2, ... amounts of f.
PartialSums(f) ==
    LET s[n \in 0..Len(f)] == IF n = 0 THEN 0 ELSE s[n - 1] + f[n]
    IN  s

Total(f) == PartialSums(f)[Len(f)]

=============================================================================
