---------------------------- MODULE MCClientConn ----------------------------
(* ClientConn with one sending loop for each session: the two loops of the  *)
(* code are alike and share nothing.                                        *)
EXTENDS ClientConn, TLC

CONSTANT ping

=============================================================================
