------------------------------ MODULE LinkState ------------------------------
(***************************************************************************)
(* Link-state advertisements (LSAs): how a node numbers, stores and sends  *)
(* them, how they are flooded, and how they age in link_state_db.          *)
(* Source: crates/node/src/node.rs, lines 1245-1567.                       *)
(*                                                                         *)
(* Sessions come and go as PeerTable describes; here a link is only what   *)
(* broadcast_lsa and flooding see of them.  In the source a node that has  *)
(* a Transport session waits for ever in broadcast_lsa (NodeTasks); this   *)
(* module is about what the LSA code does once the guard of session_db is  *)
(* dropped before that call.                                               *)
(*                                                                         *)
(* Three tasks of a node broadcast LSAs: the receive loop when a handshake *)
(* is finished, the monitor when it has removed peers, and the refresh     *)
(* task every period.  A step is the code between two locks.  Before the   *)
(* period Calm anything may happen; from Calm on links stay as they are,   *)
(* nobody stops, and a datagram arrives within the period.                 *)
(***************************************************************************)
EXTENDS Naturals

CONSTANTS
    Node,        \* node ids
    Origin,      \* the nodes whose LSAs are followed: LSAs of two originators
                 \* never meet, neither in a comparison nor in a map entry
    Hears,       \* the pairs of nodes that reach each other directly
    Skew,        \* Skew[n]: how far n's system clock is ahead, in periods
    StaleAge,    \* 180 seconds, in periods of 60
    Calm,        \* the first period without faults
    MaxClock,    \* bound: the last period
    MaxEvents    \* bound: sessions made and removed, datagrams lost and
                 \* copied, processes stopped

ASSUME OriginAssumption == Origin \subseteq Node
ASSUME HearsAssumption == Hears \subseteq Node \X Node
ASSUME SkewAssumption == Skew \in [Node -> Nat]
ASSUME TimeAssumption ==
    StaleAge \in Nat /\ Calm \in Nat /\ MaxClock \in Nat /\ MaxEvents \in Nat

VARIABLES
    clock,      \* periods since the start
    up,         \* the nodes that run
    link,       \* link[n][p]: n's peer_db and session_db entries of p
    events,     \* such events so far
    sequence,   \* sequence[o]: lsa_sequence
    job,        \* job[n][t]: where task t of n is
    db,         \* db[m][o]: link_state_db
    net,        \* LSA datagrams in flight
    refreshed,  \* the originators whose refresh of this period has begun
    cleaned     \* the nodes whose cleanup of this period has dropped LSAs

vars == <<clock, up, link, events, sequence, job, db, net, refreshed, cleaned>>
links == <<up, link, events>>
timers == <<clock, refreshed, cleaned>>

Task == {"receive", "monitor", "refresh"}

\* "session": a Transport session without a peer_db entry; "neighbor": both.
Link == {"none", "session", "neighbor"}

Lsa == [org : Origin, seq : Nat, ts : Nat, neighbors : SUBSET Node]

\* No entry: the first sequence number is 1.
Absent(o) == [org |-> o, seq |-> 0, ts |-> 0, neighbors |-> {}]

\* A node sends from two sockets: Hellos from the multicast one, everything
\* else from the unicast one.
Address == Node \X {"multicast", "unicast"}

\* A broadcast has been called, has its number, has its LSA; a flooded LSA is
\* only sent.  src is where the LSA comes from, for a broadcast the node itself.
Idle == [pc |-> "idle"]
At(pc, src, lsa) == [pc |-> pc, src |-> src, lsa |-> lsa]
Job == {Idle} \cup
       [pc : {"number", "generate", "send"}, src : Address, lsa : Lsa]

\* What the state of the nodes and of the network looks like; an entry of
\* link_state_db is stored under its originator.
TypeOK ==
    /\ clock \in 0 .. MaxClock
    /\ up \subseteq Node
    /\ link \in [Node -> [Node -> Link]]
    /\ events \in 0 .. MaxEvents
    /\ sequence \in [Origin -> Nat]
    /\ job \in [Node -> [Task -> Job]]
    /\ db \in [Node -> [Origin -> Lsa]]
    /\ \A m \in Node, o \in Origin : db[m][o].org = o
    /\ net \subseteq [src : Address, to : Node, lsa : Lsa]
    /\ refreshed \subseteq Origin
    /\ cleaned \subseteq Node

\* The originators start; the other nodes may have met before.
Init ==
    /\ clock = 0
    /\ up = Node
    /\ link \in [Node -> [Node -> {"none", "neighbor"}]]
    /\ \A n, p \in Node :
          link[n][p] # "none" => <<n, p>> \in Hears /\ {n, p} \cap Origin = {}
    /\ events = 0
    /\ sequence = [o \in Origin |-> 0]
    /\ job = [n \in Node |-> [t \in Task |-> Idle]]
    /\ db = [m \in Node |-> [o \in Origin |-> Absent(o)]]
    /\ net = {}
    /\ refreshed = {}
    /\ cleaned = {}

\* SystemTime::now() on n.
Now(n) == clock + Skew[n]

\* get_established_neighbors: the Transport sessions.
Established(n) == {p \in Node : link[n][p] # "none"}

\* get_neighbor_addresses: those that have a peer_db entry too.
Addressed(n) == {p \in Node : link[n][p] = "neighbor"}

-----------------------------------------------------------------------------
(* The neighbours of a node.                                               *)

\* Something that happens before Calm only.
Event == clock < Calm /\ events < MaxEvents /\ events' = events + 1

\* broadcast_lsa is called by task t of n.
Call(n, t) == [job EXCEPT ![n][t] = At("number", <<n, "unicast">>, Absent(n))]

\* The neighbours of n have changed: t broadcasts its LSA, if n's are followed.
Changed(n, t) ==
    /\ Event
    /\ job' = IF n \in Origin THEN Call(n, t) ELSE job

\* handle_handshake reaches Transport, before or after the Hello that makes
\* the peer_db entry.
Establish(n, p) ==
    /\ n \in up /\ <<n, p>> \in Hears
    /\ job[n]["receive"] = Idle
    /\ link[n][p] = "none"
    /\ \E l \in {"session", "neighbor"} : link' = [link EXCEPT ![n][p] = l]
    /\ Changed(n, "receive")
    /\ UNCHANGED <<up, sequence, db, net, timers>>

\* A Hello of p makes the missing peer_db entry.
Greet(n, p) ==
    /\ clock < Calm
    /\ n \in up
    /\ job[n]["receive"] = Idle
    /\ link[n][p] = "session"
    /\ link' = [link EXCEPT ![n][p] = "neighbor"]
    /\ UNCHANGED <<up, events, sequence, job, db, net, timers>>

\* Mutant: a removal does not trigger a broadcast.
RemoveSilently(n) ==
    /\ n \in up
    /\ job[n]["monitor"] = Idle
    /\ \E p \in Addressed(n) : link' = [link EXCEPT ![n][p] = "none"]
    /\ Event
    /\ UNCHANGED <<up, sequence, job, db, net, timers>>

\* remove_stale_peers drops the peers S, whatever their sessions.
Remove(n) ==
    /\ n \in up
    /\ job[n]["monitor"] = Idle
    /\ \E S \in SUBSET {p \in Node : <<n, p>> \in Hears /\ link[n][p] # "session"} :
          /\ S # {}
          /\ link' = [link EXCEPT ![n] =
                         [p \in Node |-> IF p \in S THEN "none" ELSE @[p]]]
    /\ Changed(n, "monitor")
    /\ UNCHANGED <<up, sequence, db, net, timers>>

-----------------------------------------------------------------------------
(* broadcast_lsa, and the flooding of a received LSA.                      *)

\* Mutant: the number is read and the increment lost.
NumberedLost(n, t) ==
    /\ job' = [job EXCEPT ![n][t] =
                  At("generate", <<n, "unicast">>,
                     [Absent(n) EXCEPT !.seq = sequence[n] + 1])]
    /\ UNCHANGED sequence

\* generate_lsa takes the next number, under the lock of lsa_sequence.
Numbered(n, t) ==
    /\ sequence' = [sequence EXCEPT ![n] = @ + 1]
    /\ job' = [job EXCEPT ![n][t] =
                  At("generate", <<n, "unicast">>,
                     [Absent(n) EXCEPT !.seq = sequence[n] + 1])]

TakeNumber(n, t) ==
    /\ job[n][t].pc = "number"
    /\ Numbered(n, t)
    /\ UNCHANGED <<links, db, net, timers>>

\* lsa_refresh: one broadcast in every period; the first one is a period after
\* the start of the process.
Refresh(n) ==
    /\ n \in up \ refreshed
    /\ job[n]["refresh"] = Idle
    /\ refreshed' = refreshed \cup {n}
    /\ Numbered(n, "refresh")
    /\ UNCHANGED <<links, clock, cleaned, db, net>>

\* generate_lsa, later: the neighbours, and the time.
Generate(n, t) ==
    /\ job[n][t].pc = "generate"
    /\ job' = [job EXCEPT ![n][t] =
                  At("send", <<n, "unicast">>,
                     [org |-> n, seq |-> job[n][t].lsa.seq, ts |-> Now(n),
                      neighbors |-> Established(n)])]
    /\ UNCHANGED <<links, sequence, db, net, timers>>

\* The address peer_db has of p is the source of its Hellos.
PeerAddr(p) == <<p, "multicast">>

\* broadcast_lsa replaces the own entry, whatever it is, and sends the LSA to
\* all neighbours; nobody looks at the own entry in between.  A received LSA is
\* flooded to the neighbours whose address is not the one it came from.
Send(n, t) ==
    /\ job[n][t].pc = "send"
    /\ LET l == job[n][t].lsa IN
       /\ db' = IF l.org = n THEN [db EXCEPT ![n][n] = l] ELSE db
       /\ net' = net \cup
             [src : {<<n, "unicast">>}, lsa : {l},
              to : {p \in Addressed(n) \cap up : PeerAddr(p) # job[n][t].src}]
    /\ job' = [job EXCEPT ![n][t] = Idle]
    /\ UNCHANGED <<links, sequence, timers>>

\* Mutant: an LSA with another number counts as newer.
NewerIfOther(l, e) == e.seq = 0 \/ l.seq # e.seq

\* Mutant: the LSA a node has counts as newer than itself.
NewerOrEqual(l, e) == e.seq = 0 \/ l.seq >= e.seq

\* The freshness check of handle_lsa: l against the entry e.
Newer(l, e) ==
    \/ e.seq = 0
    \/ l.seq > e.seq
    \/ l.seq = e.seq /\ l.ts > e.ts

\* Mutant: an LSA is stored and passed on under the node's own id.
HandleLsaRelabel(m, src, l) ==
    IF l.org # m /\ Newer(l, db[m][l.org])
    THEN /\ db' = [db EXCEPT ![m][l.org] = [l EXCEPT !.org = m]]
         /\ job' = [job EXCEPT ![m]["receive"] = At("send", src, l)]
    ELSE UNCHANGED <<db, job>>

\* Mutant: only the first LSA of an originator is flooded.
HandleLsaFloodFirst(m, src, l) ==
    IF l.org # m /\ Newer(l, db[m][l.org])
    THEN /\ db' = [db EXCEPT ![m][l.org] = l]
         /\ job' = IF db[m][l.org].seq > 0 THEN job
                   ELSE [job EXCEPT ![m]["receive"] = At("send", src, l)]
    ELSE UNCHANGED <<db, job>>

\* The LinkState arm and handle_lsa: an LSA of our own is ignored, an older one
\* dropped, a newer one stored and flooded.
HandleLsa(m, src, l) ==
    IF l.org # m /\ Newer(l, db[m][l.org])
    THEN /\ db' = [db EXCEPT ![m][l.org] = l]
         /\ job' = [job EXCEPT ![m]["receive"] = At("send", src, l)]
    ELSE UNCHANGED <<db, job>>

\* A datagram is received; another copy of it may follow.
ReceiveLsa(m) ==
    /\ m \in up
    /\ job[m]["receive"] = Idle
    /\ \E d \in net :
          /\ d.to = m
          /\ HandleLsa(m, d.src, d.lsa)
          /\ \/ net' = net \ {d} /\ UNCHANGED events
             \/ net' = net /\ Event
    /\ UNCHANGED <<up, link, sequence, timers>>

-----------------------------------------------------------------------------
(* Ageing.                                                                 *)

\* Mutant: the operands of saturating_sub are swapped.
IsStaleSwapped(m, l) == l.ts > Now(m) /\ l.ts - Now(m) > StaleAge

\* cleanup_stale_lsas: saturating_sub makes an LSA from the future new.
IsStale(m, l) == Now(m) > l.ts /\ Now(m) - l.ts > StaleAge

Stale(m) == {o \in Origin : db[m][o].seq > 0 /\ IsStale(m, db[m][o])}

\* lsa_cleanup: once in every period; a turn that finds nothing to drop is left
\* out.
CleanupStaleLsas(m) ==
    /\ m \in up \ cleaned
    /\ Stale(m) # {}
    /\ cleaned' = cleaned \cup {m}
    /\ db' = [db EXCEPT ![m] =
                 [o \in Origin |-> IF o \in Stale(m) THEN Absent(o) ELSE @[o]]]
    /\ UNCHANGED <<links, clock, refreshed, sequence, job, net>>

-----------------------------------------------------------------------------
(* The environment.                                                        *)

Settled == net = {} /\ \A n \in Node, t \in Task : job[n][t] = Idle

\* A period ends when every originator has done its refresh and no task is
\* busy; a datagram that arrives later than that is an event.  After Calm, when
\* nothing stale arrives any more, every cleanup has been done too.
Tick ==
    /\ clock < MaxClock
    /\ up \cap Origin \subseteq refreshed
    /\ \A n \in Node, t \in Task : job[n][t] = Idle
    /\ \/ net = {} /\ UNCHANGED events
       \/ net # {} /\ Event
    /\ clock > Calm => \A m \in up : Stale(m) = {}
    /\ clock' = clock + 1
    /\ refreshed' = {}
    /\ cleaned' = {}
    /\ UNCHANGED <<up, link, sequence, job, db, net>>

\* A datagram is lost.
Lose ==
    /\ Event
    /\ \E d \in net : net' = net \ {d}
    /\ UNCHANGED <<up, link, sequence, job, db, timers>>

\* The process of an originator ends; for the LSAs of others a node that stops
\* is one that gets no datagrams.
Stop(n) ==
    /\ Event
    /\ n \in up
    /\ up' = up \ {n}
    /\ job' = [job EXCEPT ![n] = [t \in Task |-> Idle]]
    /\ net' = {d \in net : d.to # n}
    /\ UNCHANGED <<link, sequence, db, timers>>

JobStep(n, t) == TakeNumber(n, t) \/ Generate(n, t) \/ Send(n, t)

Next ==
    \/ \E n, p \in Node : Establish(n, p) \/ Greet(n, p)
    \/ \E n \in Node : Remove(n) \/ ReceiveLsa(n) \/ CleanupStaleLsas(n)
    \/ \E n \in Node, t \in Task : JobStep(n, t)
    \/ \E o \in Origin : Refresh(o) \/ Stop(o)
    \/ Tick
    \/ Lose

Spec == Init /\ [][Next]_vars

(***************************************************************************)
(* Timers fire, runnable tasks are polled, time passes, and from Calm on a *)
(* datagram that is there is received: as long as any of this is left to   *)
(* do, something is done.  Faults and new sessions are never due.          *)
(***************************************************************************)
Work ==
    \/ \E n \in Node : ReceiveLsa(n) \/ CleanupStaleLsas(n)
    \/ \E n \in Node, t \in Task : JobStep(n, t)
    \/ \E o \in Origin : Refresh(o)
    \/ Tick

Fairness == WF_vars(Work)

FairSpec == Spec /\ Fairness

-----------------------------------------------------------------------------
(* Properties.                                                             *)

\* The LSAs that are stored, in flight, or about to be.
Known == {db[m][o] : m \in Node, o \in Origin} \cup {d.lsa : d \in net}
         \cup UNION {{job[n][t].lsa : t \in {u \in Task : job[n][u].pc = "send"}} :
                        n \in Node}

\* A sequence number of a node stands for one LSA in all the mesh, however the
\* three tasks that broadcast interleave.
UniqueLsa == \A k, l \in Known : k.org = l.org /\ k.seq = l.seq => k = l

\* "The sequence number and timestamp provide ordering and freshness detection":
\* once all its broadcasts are done, the LSA of a node with the highest number
\* lists its neighbours as they are, although numbers are taken and neighbours
\* read at different times by three tasks.
SequenceOrdersLists ==
    \A o \in up \cap Origin, l \in Known :
        /\ l.org = o /\ l.seq = sequence[o] /\ l.seq > 0
        /\ \A t \in Task : job[o][t] = Idle
        => l.neighbors = Established(o)

\* link_state_db implements TopologyView: the entry of another node is one of
\* its LSAs, is replaced by a newer one only, whatever the network does to the
\* order of LSAs, and goes only when it is stale.  The own entry, which
\* broadcast_lsa replaces without a look, is no part of it.
View == INSTANCE TopologyView WITH
            Viewer <- Node, Originator <- Origin,
            now <- [m \in Node |-> Now(m)], number <- sequence,
            view <- [m \in Node |-> [o \in Origin |->
                        IF m = o THEN Absent(o) ELSE db[m][o]]]
ViewSpec == View!Spec

\* Floods end in every period, after its refreshes too, although an LSA goes
\* back to the node it came from.
FloodsEnd == []<>(Settled /\ up \cap Origin \subseteq refreshed)

\* m is reached from o: every set of nodes that holds o and is closed under
\* the links of its running members holds m.
Reached(o, m) ==
    \A S \in SUBSET Node :
        o \in S /\ (\A n \in S \cap up : Addressed(n) \subseteq S) => m \in S

\* No clock is ahead of o's by more than 180 seconds.
ClocksAgree(o) == \A m \in Node : Skew[m] <= Skew[o] + StaleAge

\* One refresh repairs every view.  In every period from Calm on, once a node
\* has refreshed its LSA and the floods are over, the nodes that its LSAs reach,
\* and the node itself, list its neighbours as they are: whatever was lost,
\* overtaken or dropped as stale before, and although no LSA is acknowledged,
\* sent again, or sent to a neighbour that joins later.
Converges ==
    \A o \in up \cap refreshed :
        clock >= Calm /\ Settled /\ ClocksAgree(o) =>
            \A m \in up : Reached(o, m) =>
                db[m][o].seq > 0 /\ db[m][o].neighbors = Established(o)

\* A node that has stopped disappears from every link_state_db for good.
DepartedForgotten ==
    <>[](\A o \in Origin, m \in Node :
            m \in up /\ o \notin up => db[m][o] = Absent(o))

\* "Newer LSAs are stored and flooded to all neighbors except the sender": a
\* node does not send a received LSA to the node it has it from.
NotSentBack ==
    [][\A n, p \in Node :
          job[n]["receive"] # Idle /\ job'[n]["receive"] = Idle
             /\ job[n]["receive"].src = <<p, "unicast">>
          => \A d \in net' \ net : d.to # p]_vars

=============================================================================
