--------------------------- MODULE MCUmpHandshake ---------------------------
(* Small instances of UmpHandshake for TLC. *)
EXTENDS UmpHandshake, TLC

CONSTANTS A, B

\* Sequence numbers that wrap (the first number of A is the last of all) and
\* that differ from one socket to the next.
MCPeers == {A, B}
MCIss == (A :> <<7>>) @@ (B :> <<2>>)
=============================================================================
