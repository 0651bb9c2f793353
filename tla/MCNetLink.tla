----------------------------- MODULE MCNetLink -----------------------------
(* NetLink with one or two senders and short timeouts; they are alike.     *)
EXTENDS NetLink, TLC

CONSTANTS s1, s2

Symmetry == Permutations(Senders)
=============================================================================
