--------------------------- MODULE MCPrintfServer ---------------------------
(* PrintfServer with model values for the connections.                     *)
EXTENDS PrintfServer

CONSTANTS c1, c2, soap
=============================================================================
