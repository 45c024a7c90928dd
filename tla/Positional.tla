------------------------------ MODULE Positional ------------------------------
(***************************************************************************)
(* Numbers by their digits, and the powers of a base, as recursive         *)
(* functions: what they compute is proved from these definitions.          *)
(***************************************************************************)
EXTENDS Integers, Sequences

Power(base, n) ==
  LET power[k \in 0..n] == IF k = 0 THEN 1 ELSE base * power[k - 1]
  IN power[n]

\* The number with these digits, the most significant first.
Horner(base, digits) ==
  LET value[n \in 0..Len(digits)] == IF n = 0 THEN 0 ELSE base * value[n - 1] + digits[n]
  IN value[Len(digits)]
=============================================================================
