----------------------------- MODULE ServerLife -----------------------------
(* What the whole server promises: it connects, asks the camera for its    *)
(* settings, serves once it has heard of them, and ends for good.          *)
(***************************************************************************)
EXTENDS Integers

VARIABLES
  life,  \* connecting, asking, serving, ended
  heard  \* an answer has come since the last question was begun, or one before serving

vars == <<life, heard>>

Init == life = "connecting" /\ heard = FALSE

Connected == life = "connecting" /\ life' = "asking" /\ UNCHANGED heard

Hear == life = "asking" /\ heard' = TRUE /\ UNCHANGED life

Serve == life = "asking" /\ heard /\ life' = "serving" /\ UNCHANGED heard

End == life # "ended" /\ life' = "ended" /\ UNCHANGED heard

Next == Connected \/ Hear \/ Serve \/ End

Spec == Init /\ [][Next]_vars
=============================================================================
