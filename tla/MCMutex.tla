------------------------------ MODULE MCMutex -------------------------------
(* Three threads of three priorities over the idle thread. *)
EXTENDS Mutex

CONSTANTS idle, hi, mid, lo

ReadyAtStart ==
  [p \in Priority |-> CASE p = 0 -> <<hi>> [] p = 1 -> <<mid>> [] p = 2 -> <<lo>>
                        [] OTHER -> <<idle>>]

=============================================================================
