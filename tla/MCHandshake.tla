----------------------------- MODULE MCHandshake -----------------------------
(* Small instances of Handshake for TLC.                                   *)
EXTENDS HandshakeInv

MCPair == 1 .. 2

NoFaults == {}
Quiet == {"silence"}
Copies == {"duplicate"}
Crashes == {"crash"}
CopiesAndQuiet == {"duplicate", "silence"}
AllFaults == {"lose", "duplicate", "silence", "crash"}

=============================================================================
