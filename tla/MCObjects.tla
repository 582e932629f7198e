------------------------------ MODULE MCObjects -----------------------------
EXTENDS Objects

CONSTANTS idle, hi, lo, e1, e2

ReadyAtStart ==
  [p \in Priority |-> IF p = 0 THEN <<hi>> ELSE IF p = 1 THEN <<lo>> ELSE <<idle>>]

(* All of two flags, any of them, and one without clearing it. *)
Requests ==
  { [want |-> {e1, e2}, all |-> TRUE, clear |-> TRUE],
    [want |-> {e1, e2}, all |-> FALSE, clear |-> TRUE],
    [want |-> {e1}, all |-> FALSE, clear |-> FALSE] }

=============================================================================
