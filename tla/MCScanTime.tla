----------------------------- MODULE MCScanTime -----------------------------
(* Eight-bit nonces; a processor that is fast, slow, or just woken up. *)
EXTENDS ScanTime

\* One nonce after the other; ScanHash_4WaySSE2, with a batch that the cap lies
\* in; scanhash_sse2_64.
AllScanners == {[lanes |-> 1, missed |-> 0], [lanes |-> 16, missed |-> 0], [lanes |-> 4, missed |-> 4]}
Scalar == {[lanes |-> 1, missed |-> 0]}
=============================================================================
