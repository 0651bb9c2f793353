--------------------------- MODULE MessageStream ---------------------------
(* What a link promises of the stream it writes: whole messages one after  *)
(* the other, whoever sends them.  One that is given up is the last thing  *)
(* on the stream, and nobody repeats a piece or leaves one out.            *)
EXTENDS Integers

CONSTANTS Senders, NoSender, Chunks

VARIABLES
  stream,  \* unmade, open, or over: nothing goes out any more
  owner,   \* whose message is incomplete at the end of the stream
  sent     \* how many pieces of it are there, while the stream is open

vars == <<stream, owner, sent>>

Init == stream = "unmade" /\ owner = NoSender /\ sent = 0

Make == stream = "unmade" /\ stream' = "open" /\ UNCHANGED <<owner, sent>>

\* The first piece of a message or the next one of the message that is there.
Piece(s) ==
  /\ stream = "open" /\ owner \in {s, NoSender}
  /\ sent + 1 < Chunks
  /\ owner' = s /\ sent' = sent + 1
  /\ UNCHANGED stream

LastPiece(s) ==
  /\ stream = "open" /\ owner = s
  /\ sent + 1 = Chunks
  /\ owner' = NoSender /\ sent' = 0
  /\ UNCHANGED stream

\* The connection breaks, or a message is given up.
End == stream = "open" /\ stream' = "over" /\ sent' = 0 /\ UNCHANGED owner

Next == Make \/ End \/ \E s \in Senders : Piece(s) \/ LastPiece(s)

Spec == Init /\ [][Next]_vars
=============================================================================
