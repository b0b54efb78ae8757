-------------------------------- MODULE Sums --------------------------------
(* The sum of a sequence of numbers. *)
EXTENDS Integers, Sequences

Total(w) == LET sum[k \in 0..Len(w)] == IF k = 0 THEN 0 ELSE sum[k - 1] + w[k] IN sum[Len(w)]
=============================================================================
