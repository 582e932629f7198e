----------------------------- MODULE MCConsole ------------------------------
(* The finsh thread over the idle thread. *)
EXTENDS Console

CONSTANT idle

ReadyAtStart == [p \in Priority |-> IF p = 0 THEN <<shell>> ELSE <<idle>>]

=============================================================================
