----------------------------- MODULE MCSessions -----------------------------
(* Sessions with two connections, one rocket and the smallest send queue    *)
(* that holds the greeting: every queue overflows.                          *)
EXTENDS Sessions, TLC

CONSTANTS c1, c2

\* Bound: nothing reaches the second peer, and with two peers Stop comes before
\* anything has reached the first; a single connection takes every turn.
Scene == conn[c2] # "none" =>
    sent[c2] = <<>> /\ (stop = "no" \/ sent[c1] = <<>>)

=============================================================================
