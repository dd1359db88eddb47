------------------------------- MODULE MCDict -------------------------------
(***************************************************************************)
(* Instances of Dict for TLC.  Tables start at one bucket instead of four, *)
(* and the load ratios are scaled down with them, so that three or four    *)
(* keys reach every size, collide, spread and are merged again.            *)
(***************************************************************************)
EXTENDS Dict, TLC

CONSTANTS k1, k2, k3, k4, v1, v2, i1, i2

\* k1, k2, k3 share a bucket of one; k1 and k3 one of two and one of four.
HashThree == k1 :> 0 @@ k2 :> 1 @@ k3 :> 4

HashFour == k1 :> 0 @@ k2 :> 2 @@ k3 :> 4 @@ k4 :> 3

HashTwo == k1 :> 0 @@ k2 :> 4

PowersOfTwo == {1, 2, 4, 8}

\* What decides the behaviour of every call: all but the last return value.
WithoutRet == <<d, canResize, iter>>

IterSymmetry == Permutations(Iters)
=============================================================================
