--------------------------- MODULE MCThreadQueue ---------------------------
(* Two threads that push, and one or two that pop. *)
EXTENDS ThreadQueue, TLC

CONSTANTS p1, p2, c1, c2, freezer

\* Two consumers, one with a deadline; either may freeze the queue.
TwoConsumers ==
    p1 :> {"push"} @@ p2 :> {"push"} @@ c1 :> {"pop", "freeze"} @@ c2 :> {"timedpop", "thaw"}

\* As minerd uses a queue: one consumer; somebody else may freeze it.
OneConsumer == p1 :> {"push"} @@ p2 :> {"push"} @@ c1 :> {"pop"} @@ freezer :> {"freeze"}
=============================================================================
