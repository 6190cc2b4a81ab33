------------------------------ MODULE MCTunnel ------------------------------
(* The supervisor with budgets 0, 1, 2 and unlimited, and a back-off of 1, 2, 3, 3, ... *)
EXTENDS Tunnel

MCRetries == {0, 1, 2}
=============================================================================
