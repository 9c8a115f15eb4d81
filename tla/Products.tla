------------------------------ MODULE Products ------------------------------
(***************************************************************************)
(* The product of the values of a function, beside the SumFunction of the  *)
(* community module Functions, and a power as such a product.              *)
(***************************************************************************)
EXTENDS Integers, Functions

ProductFunction(f) == FoldFunction(LAMBDA a, b : a * b, 1, f)

Power(base, n) == ProductFunction([j \in 1 .. n |-> base])
=============================================================================
