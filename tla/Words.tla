------------------------------- MODULE Words --------------------------------
(***************************************************************************)
(* Powers of two, which the sizes of machine words and the roundings of    *)
(* floating-point numbers are counted in.                                  *)
(***************************************************************************)
EXTENDS Integers

Power[e \in Nat] == IF e = 0 THEN 1 ELSE 2 * Power[e - 1]

=============================================================================
