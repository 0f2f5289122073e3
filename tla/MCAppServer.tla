---------------------------- MODULE MCAppServer ----------------------------
(* AppServer on small instances. *)
EXTENDS AppServer

CONSTANTS w1, w2, p1, p2   \* model values
=============================================================================
