------------------------------ MODULE MCMinerd ------------------------------
(* Values of the constants of Minerd that a configuration cannot spell. *)
EXTENDS Minerd

Never == -1                     \* opt_retries without a limit
=============================================================================
