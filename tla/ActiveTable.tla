----------------------------- MODULE ActiveTable -----------------------------
(***************************************************************************)
(* What the registry promises: a table with one entry per node, the time   *)
(* of its last heartbeat.  A node leaves the table only when that          *)
(* heartbeat is at least Ttl old.                                          *)
(***************************************************************************)
EXTENDS Naturals

CONSTANTS Id, Ttl

VARIABLES clock, active

Init == clock = 0 /\ active = {}

Seen(n) ==
    /\ active' = {e \in active : e.id # n} \cup {[id |-> n, seen |-> clock]}
    /\ UNCHANGED clock

Expire(e) ==
    /\ e.seen + Ttl <= clock
    /\ active' = active \ {e}
    /\ UNCHANGED clock

Advance == clock' = clock + 1 /\ UNCHANGED active

Next ==
    \/ \E n \in Id : Seen(n)
    \/ \E e \in active : Expire(e)
    \/ Advance

Spec == Init /\ [][Next]_<<clock, active>>

=============================================================================
