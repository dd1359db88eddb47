----------------------------- MODULE MCDictScan -----------------------------
(***************************************************************************)
(* Instances of DictScan for TLC: three keys, tables of one to eight       *)
(* buckets and cursors of four bits, one more than the largest mask has.   *)
(***************************************************************************)
EXTENDS DictScan, TLC

CONSTANTS k1, k2, k3, v1

\* All three keys share a bucket of one; k1 and k3 share one of four.
HashThree == k1 :> 1 @@ k2 :> 2 @@ k3 :> 5

PowersOfTwo == {1, 2, 4, 8}

\* What decides a scan: neither values, chain orders nor return values do.
ScanView == <<d.ht, d.rehashidx, canResize, scan>>
=============================================================================
