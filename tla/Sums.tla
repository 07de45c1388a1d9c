-------------------------------- MODULE Sums --------------------------------
(***************************************************************************)
(* Sums of integer-valued functions on an initial segment 0 .. n-1 of the  *)
(* naturals: chips over the positions of a hand, reservations over tables. *)
(* Written as a recursive function so that it can be reasoned about.       *)
(***************************************************************************)
EXTENDS Integers

\* The function of the partial sums of f: element i is f[0] + ... + f[i-1].
PartialSums(f, n) ==
  LET ps[i \in 0 .. n] == IF i = 0 THEN 0 ELSE ps[i - 1] + f[i - 1]
  IN  ps

\* f[0] + ... + f[n-1]
SumTo(f, n) == PartialSums(f, n)[n]
=============================================================================
