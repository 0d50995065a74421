----------------------------- MODULE MCHashMap ------------------------------
(* HashMap where growing keeps one key in its bucket, the first in its list or   *)
(* the second, and sends the others to a lower and a higher one.                *)
EXTENDS HashMap, TLC

CONSTANTS k1, k2, k3

MCHashCode == k1 :> 22 @@ k2 :> 7 @@ k3 :> 9
MCLoadFactor == <<3, 4>>
=============================================================================
