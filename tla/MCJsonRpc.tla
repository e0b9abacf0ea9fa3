----------------------------- MODULE MCJsonRpc -----------------------------
(* Two calls on one handle, so that the second meets what the first left. *)
EXTENDS JsonRpc
=============================================================================
