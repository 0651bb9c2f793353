-------------------------------- MODULE Ip4 --------------------------------
(* The check of an IPv4 address a client has written, isValidIp4           *)
(* (src/onvif.c), and what inet_aton (external) reads in an address that   *)
(* has passed it.                                                          *)
EXTENDS Integers, Sequences, FiniteSets

\* An address is written with digits, dots and other characters.
Dot == -1
Letter == -2
Characters == 0..9 \cup {Dot, Letter}

Bytes == 1..4

-----------------------------------------------------------------------------
(* isValidIp4: segs, chcnt, accum, and whether it has not yet returned.    *)

\* Slip: the accumulator is not reset.
SegmentKept(v) == [segs |-> v.segs + 1, chcnt |-> 0, accum |-> v.accum,
                   ok |-> v.chcnt # 0 /\ v.segs + 1 # 4]

\* At a dot the next segment begins.
Segment(v) == [segs |-> v.segs + 1, chcnt |-> 0, accum |-> 0,
               ok |-> v.chcnt # 0 /\ v.segs + 1 # 4]

Digit(v, d) == [segs |-> v.segs, chcnt |-> v.chcnt + 1, accum |-> v.accum * 10 + d,
                ok |-> v.accum * 10 + d <= 255]

\* One turn of the loop; it returns at the first character that is not as it should be.
Character(v, c) ==
  CASE ~v.ok -> v
    [] v.ok /\ c = Dot -> Segment(v)
    [] v.ok /\ c = Letter -> [v EXCEPT !.ok = FALSE]
    [] OTHER -> Digit(v, c)

\* After so many characters.
Loop(str) ==
  LET v[k \in 0..Len(str)] ==
        IF k = 0 THEN [segs |-> 0, chcnt |-> 0, accum |-> 0, ok |-> TRUE]
        ELSE Character(v[k - 1], str[k])
  IN  v

isValidIp4(str) ==
  LET v == Loop(str)[Len(str)] IN v.ok /\ v.segs = 3 /\ v.chcnt # 0

-----------------------------------------------------------------------------
(* inet_aton of what isValidIp4 has let through.                           *)

Dots(str) == {k \in 1..Len(str) : str[k] = Dot}

\* The dot, or the end of the string, behind the b-th segment.
EndOf(str, b) ==
  IF b = 0 THEN 0
  ELSE CHOOSE k \in Dots(str) \cup {Len(str) + 1} :
         Cardinality({j \in Dots(str) : j < k}) = b - 1

SegmentOf(str, b) == SubSeq(str, EndOf(str, b - 1) + 1, EndOf(str, b) - 1)

\* The number that the first digits of a segment make, for each number of digits.
Values(seg, base) ==
  LET n[k \in 0..Len(seg)] == IF k = 0 THEN 0 ELSE n[k - 1] * base + seg[k]
  IN  n

Number(seg, base) == Values(seg, base)[Len(seg)]

\* A number that begins with 0 is octal, and no number if it has an 8 or a 9.
Base(seg) == IF Head(seg) = 0 /\ Len(seg) > 1 THEN 8 ELSE 10

Refused(str) ==
  \E b \in Bytes : \E k \in 1..Len(SegmentOf(str, b)) :
    SegmentOf(str, b)[k] >= Base(SegmentOf(str, b))

inet_aton(str) ==
  [b \in Bytes |-> Number(SegmentOf(str, b), Base(SegmentOf(str, b)))]

-----------------------------------------------------------------------------
(* What an address is.                                                     *)

\* Four decimal numbers of at most 255 with a dot between two of them.
IsDottedQuad(str) ==
  /\ \A k \in 1..Len(str) : str[k] # Letter
  /\ Cardinality(Dots(str)) = 3
  /\ \A b \in Bytes : SegmentOf(str, b) # <<>> /\ Number(SegmentOf(str, b), 10) <= 255
=============================================================================
