----------------------------- MODULE MCSemaphore ----------------------------
(* Two threads of different priority over the idle thread. *)
EXTENDS Semaphore

CONSTANTS idle, hi, lo

ReadyAtStart == [p \in Priority |-> IF p = 0 THEN <<hi>>
                                    ELSE IF p = 1 THEN <<lo>> ELSE <<idle>>]

=============================================================================
