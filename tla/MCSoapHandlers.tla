--------------------------- MODULE MCSoapHandlers ---------------------------
(* SoapHandlers with the tokens of set_config_st_default                   *)
(* (src/ipcam_config.c:39-89): the third profile has the second's; and     *)
(* with addresses at the edges of isValidIp4's tests.                      *)
EXTENDS SoapHandlers, SequencesExt

CONSTANTS p0, p1, v0, v1, in0, in1, unknown, empty

MCprofiletoken == [i \in 0..2 |-> IF i = 0 THEN p0 ELSE p1]
MCinputtoken == [i \in 0..2 |-> IF i = 0 THEN in0 ELSE in1]
MCvcodetoken == [i \in 0..2 |-> IF i = 0 THEN v0 ELSE v1]
MCTokens == {p0, p1, v0, v1, in0, in1, unknown, empty}

MCfactory == <<9, 9, 9, 9>>

\* 9.9.9.9 with seg for its b-th number.
With(b, seg) ==
  LET Part(k) == (IF k = b THEN seg ELSE <<9>>) \o (IF k = 4 THEN <<>> ELSE <<Dot>>)
  IN  Part(1) \o Part(2) \o Part(3) \o Part(4)

Nines(n) == FlattenSeq([k \in 1..n |-> IF k = 1 THEN <<9>> ELSE <<Dot, 9>>])

\* Not understood, or no address: one number replaced, or one too few or too many.
Wrong == {With(b, seg) : b \in 1..4, seg \in {<<>>, <<2, 5, 6>>, <<9, 9, 9, 9>>, <<Letter>>,
                                             <<0, 8>>, <<1, Letter>>}}
         \cup {Nines(1), Nines(3), Nines(5)}

\* Those understood: the camera's own, another, and one in octal.
MCAddresses == Wrong \cup {Nines(4), <<1, Dot, 2, 5, 5, Dot, 0, Dot, 1>>,
                           With(1, <<0, 1, 0>>)}

\* The time zones at the ends of _TZ_name.
MCZones == {-12, 0, 12}
=============================================================================
