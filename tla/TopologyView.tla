---------------------------- MODULE TopologyView -----------------------------
(***************************************************************************)
(* What link_state_db promises about the other nodes of the mesh: for each *)
(* pair of a viewer and an originator a register that is replaced only by  *)
(* an advertisement with a higher number, one its originator has given     *)
(* out, and is emptied only when what it holds is too old by the viewer's  *)
(* clock.                                                                  *)
(***************************************************************************)
EXTENDS Naturals

CONSTANTS
    Viewer, Originator,
    StaleAge   \* the age above which an advertisement may be dropped

VARIABLES
    now,      \* now[m]: the clock of m
    number,   \* number[o]: the numbers o has given out are 1 .. number[o]
    view      \* view[m][o]: what m holds of o, for m # o

vars == <<now, number, view>>

\* The register of an originator nothing is known of.
Empty(o) == [org |-> o, seq |-> 0, ts |-> 0, neighbors |-> {}]

Init ==
    /\ now \in [Viewer -> Nat]
    /\ number = [o \in Originator |-> 0]
    /\ view = [m \in Viewer |-> [o \in Originator |-> Empty(o)]]

\* An originator gives out its next number.
Issue ==
    /\ \E o \in Originator : number' = [number EXCEPT ![o] = @ + 1]
    /\ UNCHANGED <<now, view>>

\* m hears of an advertisement of o that is newer than the one it has.
Learns(m, o) ==
    /\ view'[m][o].org = o
    /\ view'[m][o].seq > view[m][o].seq
    /\ view'[m][o].seq <= number[o]

\* m drops what it has of o.
Forgets(m, o) ==
    /\ view'[m][o] = Empty(o)
    /\ now[m] > view[m][o].ts + StaleAge

Update ==
    /\ \A m \in Viewer, o \in Originator :
          view'[m][o] = view[m][o] \/ Learns(m, o) \/ Forgets(m, o)
    /\ UNCHANGED <<now, number>>

Tick ==
    /\ now' = [m \in Viewer |-> now[m] + 1]
    /\ UNCHANGED <<number, view>>

Next == Issue \/ Update \/ Tick

Spec == Init /\ [][Next]_vars

=============================================================================
