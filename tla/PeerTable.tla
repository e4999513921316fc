------------------------------ MODULE PeerTable ------------------------------
(***************************************************************************)
(* What peer_db and session_db promise the rest of a node: peers become    *)
(* known one by one, sessions are established one by one, in either order, *)
(* and what goes is a set of known peers, at once from both.  This is all  *)
(* that the ping loop, the metrics and the link-state advertisements see   *)
(* of discovery and of the handshake.                                      *)
(***************************************************************************)

CONSTANT Node

VARIABLES
    known,        \* known[n]: the peers in n's peer_db
    established   \* established[n]: the peers n has a Transport session with

vars == <<known, established>>

Init ==
    /\ known = [n \in Node |-> {}]
    /\ established = [n \in Node |-> {}]

\* A Hello of p makes its entry.
Meet(n, p) ==
    /\ p \notin known[n]
    /\ known' = [known EXCEPT ![n] = @ \cup {p}]
    /\ UNCHANGED established

\* The handshake with p is finished.
Establish(n, p) ==
    /\ p \notin established[n]
    /\ established' = [established EXCEPT ![n] = @ \cup {p}]
    /\ UNCHANGED known

\* The peers S have been silent; those without a session are among them.
Remove(n, S) ==
    /\ S # {} /\ S \subseteq known[n]
    /\ known' = [known EXCEPT ![n] = @ \ S]
    /\ established' = [established EXCEPT ![n] = @ \ S]

Next ==
    \E n \in Node :
        \/ \E p \in Node \ {n} : Meet(n, p) \/ Establish(n, p)
        \/ \E S \in SUBSET Node : Remove(n, S)

Spec == Init /\ [][Next]_vars

=============================================================================
