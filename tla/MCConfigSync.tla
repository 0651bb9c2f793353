---------------------------- MODULE MCConfigSync ----------------------------
(* ConfigSync with one value to ask for.                                   *)
EXTENDS ConfigSync

CONSTANT a
=============================================================================
