---------------------------- MODULE MCScanHash ----------------------------
(* Nonces of five bits: eight lanes and the limit W - 6 are to 2^5 what 32 *)
(* lanes and 0xfffffffa are to 2^32, the last batch begins below the limit. *)
EXTENDS ScanHash

UpToOne == {{}} \cup {{n} : n \in Nonces}
TwoInBatch == {{}} \cup UNION {{{n, m} : m \in {k \in Nonces : k \div NPAR = n \div NPAR}} : n \in Nonces}
NoneGood == {{}}
=============================================================================
