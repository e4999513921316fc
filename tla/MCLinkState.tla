----------------------------- MODULE MCLinkState -----------------------------
(* Small instances of LinkState for TLC.                                   *)
EXTENDS LinkState

\* A line of three nodes; the LSAs of one end are followed.
MCNode == 1 .. 3
MCOrigin == {1}
MCHears == {<<1, 2>>, <<2, 1>>, <<2, 3>>, <<3, 2>>}
MCSkew == <<1, 2, 0>>

=============================================================================
