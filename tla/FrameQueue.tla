----------------------------- MODULE FrameQueue -----------------------------
(* What the send buffer of a link promises: the messages that were         *)
(* accepted come out whole and in order, unless one that does not fit      *)
(* makes it forget all of them.                                            *)
EXTENDS Sequences

CONSTANTS Messages, Nothing

VARIABLES
  queue,  \* the messages accepted
  taken   \* the last message taken, Nothing after a failed attempt

Init == queue = <<>> /\ taken = Nothing

Accept == \E m \in Messages : queue' = Append(queue, m) /\ UNCHANGED taken

Forget == queue' = <<>> /\ UNCHANGED taken

Take == /\ queue # <<>>
        /\ taken' = Head(queue)
        /\ queue' = Tail(queue)

Miss == queue = <<>> /\ taken' = Nothing /\ UNCHANGED queue

Next == Accept \/ Forget \/ Take \/ Miss

Spec == Init /\ [][Next]_<<queue, taken>>
=============================================================================
