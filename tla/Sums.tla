-------------------------------- MODULE Sums --------------------------------
(***************************************************************************)
(* The sum f[1] + ... + f[n], written as a recursive function so that it   *)
(* can be both evaluated and reasoned about.                               *)
(***************************************************************************)
EXTENDS Integers

SumTo(f, n) ==
  LET s[k \in 0 .. n] == IF k = 0 THEN 0 ELSE s[k - 1] + f[k]
  IN  s[n]
=============================================================================
