----------------------------- MODULE MCBootstrap -----------------------------
(* Bootstrap for TLC: the values of its constants. *)
EXTENDS Bootstrap

CONSTANTS e1, e2, e3, m1, m2, m3, m4
=============================================================================
