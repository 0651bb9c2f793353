---------------------------- MODULE MCOnvifServer ----------------------------
(* OnvifServer with model values for its two threads.                      *)
EXTENDS OnvifServer
=============================================================================
