---------------------------- MODULE MCHashtable ----------------------------
(* Four keys that collide in different ways in tables of 3 and 4 buckets; *)
(* with all of them the larger table is full.                             *)
EXTENDS Hashtable, TLC

CONSTANTS k1, k2, k3, k4, p1, p2, p3, p4

\* k1, k2, k3 share a bucket of three; k1, k3, k4 one of four.
Hashes == k1 :> 0 @@ k2 :> 3 @@ k3 :> 12 @@ k4 :> 4
Places == k1 :> p1 @@ k2 :> p2 @@ k3 :> p3 @@ k4 :> p4
Sizes == <<3, 4>>
=============================================================================
