------------------------------- MODULE PingRtt -------------------------------
(***************************************************************************)
(* Pings, pongs and round-trip times on one node: the ping loop, the Ping  *)
(* and Pong arms of the receive loop, and the metrics collector.           *)
(* Source: crates/node/src/node.rs, crates/node/src/metrics.rs,            *)
(* crates/mesh/src/rtt.rs.                                                 *)
(*                                                                         *)
(* A step is what a task does under one guard or one nest of guards; the   *)
(* receive loop handles one message at a time, the ping loop, the monitor  *)
(* and the collector run beside it.  As in LinkState, this is about what   *)
(* the code does once handle_handshake and remove_stale_peers drop their   *)
(* guard before broadcast_lsa: before that, no node pings anybody.         *)
(***************************************************************************)
EXTENDS Naturals, FiniteSets

CONSTANTS
    Peer,      \* the other nodes
    Interval,  \* PING_INTERVAL_MS, 8 s
    Timeout,   \* of a ping record, 30 s
    Lag,       \* bound: how late a turn of the ping loop may be, or end
    MaxNow     \* bound: the last instant

ASSUME PeerAssumption == IsFiniteSet(Peer)
ASSUME TimeAssumption ==
    Interval \in Nat \ {0} /\ Timeout \in Nat /\ Lag \in Nat /\ MaxNow \in Nat

\* A send takes at most 5 s.
ASSUME LagAssumption == Interval + Lag <= Timeout

VARIABLES
    now,          \* Instant::now()
    known,        \* the keys of peer_db
    established,  \* the Transport sessions of session_db
    rtt,          \* rtt[p]: the rtt_stats of p's peer_db entry
    ping_db,      \* ping_db: outstanding pings
    sequence,     \* of the last turn of the ping loop
    due,          \* when the interval fires next
    collecting,   \* a turn has begun and its peers are not collected yet
    unrecorded,   \* the peers of this turn that have no ping record yet
    unsent,       \* the peers of this turn that have no ping yet
    sent,         \* the pings sent; the pong of each may come late, come twice
                  \* or not come
    job,          \* the ping or pong the receive loop is at
    gauges,       \* gauges[p]: what Prometheus reads of p
    connected,    \* connected_peers_total
    sampled       \* history: the pings whose pong has been measured

vars == <<now, known, established, rtt, ping_db, sequence, due, collecting,
          unrecorded, unsent, sent, job, gauges, connected, sampled>>
pinger == <<sequence, due, collecting, unrecorded, unsent, sent>>
exported == <<gauges, connected>>

RttStats == [count : Nat, current : Nat, avg : Nat, min : Nat, max : Nat]

\* rtt_stats is None.
NoRtt == [count |-> 0, current |-> 0, avg |-> 0, min |-> 0, max |-> 0]

Ping == [peer : Peer, seq : Nat]
PingRecord == [ping : Ping, at : Nat]

\* Where the receive loop is: at a check, at the update, or sending a pong.
Idle == [pc |-> "idle"]
Job == {Idle} \cup
       [pc : {"peer_db", "session_db", "ping_db", "update", "port", "pong"},
        is : {"ping", "pong"}, ping : Ping, at : Nat]

\* Types; nothing on record is from the future.
TypeOK ==
    /\ now \in 0 .. MaxNow
    /\ known \subseteq Peer /\ established \subseteq Peer
    /\ rtt \in [Peer -> RttStats]
    /\ ping_db \subseteq PingRecord
    /\ \A r \in ping_db : r.at <= now /\ r.ping.seq <= sequence
    /\ sequence \in Nat /\ due \in Nat
    /\ collecting \in BOOLEAN
    /\ unrecorded \subseteq unsent /\ unsent \subseteq Peer
    /\ sent \subseteq Ping
    /\ job \in Job /\ (job # Idle => job.at <= now)
    /\ gauges \in [Peer -> RttStats]
    /\ connected \in Nat
    /\ sampled \subseteq sent

Init ==
    /\ now = 0
    /\ known = {} /\ established = {}
    /\ rtt = [p \in Peer |-> NoRtt]
    /\ ping_db = {}
    /\ sequence = 0 /\ due = Interval
    /\ collecting = FALSE /\ unrecorded = {} /\ unsent = {}
    /\ sent = {}
    /\ job = Idle
    /\ gauges = [p \in Peer |-> NoRtt] /\ connected = 0
    /\ sampled = {}

-----------------------------------------------------------------------------
(* The ping loop.                                                          *)

\* Mutant: the records are never cleaned.
RetainedAll == ping_db

\* clean_stale_pings: what retain keeps.
Retained == {r \in ping_db : now - r.at > Timeout}

\* A turn: the next sequence number, and the records are cleaned.
StartTurn ==
    /\ now >= due
    /\ ~collecting /\ unsent = {}
    /\ sequence' = sequence + 1
    /\ due' = due + Interval
    /\ collecting' = TRUE
    /\ ping_db' = Retained
    /\ UNCHANGED <<now, known, established, rtt, unrecorded, unsent, sent, job,
                   exported, sampled>>

\* Under peer_db and session_db: the peers to ping.
CollectPeers ==
    /\ collecting
    /\ collecting' = FALSE
    /\ unrecorded' = known \cap established
    /\ unsent' = known \cap established
    /\ UNCHANGED <<now, known, established, rtt, ping_db, sequence, due, sent,
                   job, exported, sampled>>

\* Mutant: the number of the next turn.
ThisPingAhead(p) == [peer |-> p, seq |-> sequence + 1]

ThisPing(p) == [peer |-> p, seq |-> sequence]

\* Mutant: the ping is sent and then recorded.
SendPingFirst(p) ==
    /\ p \in unsent
    /\ \/ /\ p \in unrecorded
          /\ unrecorded' = unrecorded \ {p}
          /\ sent' = sent \cup {ThisPing(p)}
          /\ UNCHANGED <<ping_db, unsent>>
       \/ /\ p \notin unrecorded
          /\ unsent' = unsent \ {p}
          /\ ping_db' = ping_db \cup {[ping |-> ThisPing(p), at |-> now]}
          /\ UNCHANGED <<sent, unrecorded>>
    /\ UNCHANGED <<now, known, established, rtt, sequence, due, collecting, job,
                   exported, sampled>>

\* send_ping, joined with those of the other peers: the record, and then the
\* datagram, which may fail.
SendPing(p) ==
    /\ p \in unsent
    /\ \/ /\ p \in unrecorded
          /\ unrecorded' = unrecorded \ {p}
          /\ ping_db' = ping_db \cup {[ping |-> ThisPing(p), at |-> now]}
          /\ UNCHANGED <<sent, unsent>>
       \/ /\ p \notin unrecorded
          /\ unsent' = unsent \ {p}
          /\ sent' \in {sent, sent \cup {ThisPing(p)}}
          /\ UNCHANGED <<ping_db, unrecorded>>
    /\ UNCHANGED <<now, known, established, rtt, sequence, due, collecting, job,
                   exported, sampled>>

-----------------------------------------------------------------------------
(* RttStats::update.                                                       *)

\* Mutant: the average is rounded up.
UpdatedUp(s, r) ==
    {[count |-> s.count + 1, current |-> r, avg |-> a,
      min |-> IF s.count = 0 \/ r < s.min THEN r ELSE s.min,
      max |-> IF r > s.max THEN r ELSE s.max] :
        a \in IF s.count = 0 THEN {r} ELSE {(7 * s.avg + r) \div 8 + 1}}

\* The average is rounded to the nearest nanosecond.  The default minimum is
\* above, and the default maximum below, any measurement.
Updated(s, r) ==
    {[count |-> s.count + 1, current |-> r, avg |-> a,
      min |-> IF s.count = 0 \/ r < s.min THEN r ELSE s.min,
      max |-> IF r > s.max THEN r ELSE s.max] :
        a \in IF s.count = 0 THEN {r}
              ELSE {b \in 0 .. s.avg + r : /\ 8 * b <= 7 * s.avg + r + 4
                                           /\ 7 * s.avg + r <= 8 * b + 4}}

-----------------------------------------------------------------------------
(* The receive loop.                                                       *)

\* A pong, or a ping of a peer, is received.
Receive ==
    /\ job = Idle
    /\ \/ \E g \in sent :
             job' = [pc |-> "peer_db", is |-> "pong", ping |-> g, at |-> 0]
       \/ \E p \in Peer :
             job' = [pc |-> "peer_db", is |-> "ping", ping |-> ThisPing(p), at |-> 0]
    /\ UNCHANGED <<now, known, established, rtt, ping_db, pinger, exported, sampled>>

\* The loop goes on with the message, or is done with it.
GoOn(pc, ok) == job' = IF ok THEN [job EXCEPT !.pc = pc] ELSE Idle

\* can_take_ping and can_take_pong: the first check.
CheckPeer ==
    /\ job.pc = "peer_db"
    /\ GoOn("session_db", job.ping.peer \in known)
    /\ UNCHANGED <<now, known, established, rtt, ping_db, pinger, exported, sampled>>

\* The second check.
CheckSession ==
    /\ job.pc = "session_db"
    /\ GoOn(IF job.is = "pong" THEN "ping_db" ELSE "port",
            job.ping.peer \in established)
    /\ UNCHANGED <<now, known, established, rtt, ping_db, pinger, exported, sampled>>

\* can_take_pong: the record of the ping.
CheckPing ==
    /\ job.pc = "ping_db"
    /\ \/ \E r \in ping_db :
             /\ r.ping = job.ping
             /\ job' = [pc |-> "update", is |-> "pong", ping |-> job.ping, at |-> r.at]
       \/ (\A r \in ping_db : r.ping # job.ping) /\ job' = Idle
    /\ UNCHANGED <<now, known, established, rtt, ping_db, pinger, exported, sampled>>

\* Mutant: the record stays.
TakePongKeepsRecord ==
    /\ job.pc = "update"
    /\ job' = Idle
    /\ IF job.ping.peer \in known
       THEN /\ \E s \in Updated(rtt[job.ping.peer], now - job.at) :
                  rtt' = [rtt EXCEPT ![job.ping.peer] = s]
            /\ sampled' = sampled \cup {job.ping}
       ELSE UNCHANGED <<rtt, sampled>>
    /\ UNCHANGED <<now, known, established, ping_db, pinger, exported>>

\* handle_pong, under peer_db: the sample, and the record is removed.
TakePong ==
    /\ job.pc = "update"
    /\ job' = Idle
    /\ IF job.ping.peer \in known
       THEN /\ \E s \in Updated(rtt[job.ping.peer], now - job.at) :
                  rtt' = [rtt EXCEPT ![job.ping.peer] = s]
            /\ ping_db' = {r \in ping_db : r.ping # job.ping}
            /\ sampled' = sampled \cup {job.ping}
       ELSE UNCHANGED <<rtt, ping_db, sampled>>
    /\ UNCHANGED <<now, known, established, pinger, exported>>

\* Mutant: a ping that was let in is answered without another look.
LookUpPortNot ==
    /\ job.pc = "port"
    /\ GoOn("pong", TRUE)
    /\ UNCHANGED <<now, known, established, rtt, ping_db, pinger, exported, sampled>>

\* handle_ping: the port for the pong is looked up in peer_db.
LookUpPort ==
    /\ job.pc = "port"
    /\ GoOn("pong", job.ping.peer \in known)
    /\ UNCHANGED <<now, known, established, rtt, ping_db, pinger, exported, sampled>>

SendPong ==
    /\ job.pc = "pong"
    /\ job' = Idle
    /\ UNCHANGED <<now, known, established, rtt, ping_db, pinger, exported, sampled>>

\* A Hello of p makes its peer_db entry; that of a known peer leaves rtt_stats.
Hello(p) ==
    /\ job = Idle
    /\ p \notin known
    /\ known' = known \cup {p}
    /\ UNCHANGED <<now, established, rtt, ping_db, pinger, job, exported, sampled>>

\* handle_handshake reaches Transport.
Establish(p) ==
    /\ job = Idle
    /\ p \notin established
    /\ established' = established \cup {p}
    /\ UNCHANGED <<now, known, rtt, ping_db, pinger, job, exported, sampled>>

-----------------------------------------------------------------------------
(* The other tasks.                                                        *)

\* remove_stale_peers removes both entries; the pings stay on record.
RemoveStalePeers(S) ==
    /\ S # {}
    /\ known' = known \ S
    /\ established' = established \ S
    /\ rtt' = [p \in Peer |-> IF p \in S THEN NoRtt ELSE rtt[p]]
    /\ UNCHANGED <<now, ping_db, pinger, job, exported, sampled>>

\* update_metrics, under peer_db and session_db: the established peers that
\* have statistics.  The gauges of other peers keep what they show.
UpdateMetrics ==
    LET measured == {p \in known \cap established : rtt[p].count > 0} IN
    /\ gauges' = [p \in Peer |-> IF p \in measured THEN rtt[p] ELSE gauges[p]]
    /\ connected' = Cardinality(measured)
    /\ UNCHANGED <<now, known, established, rtt, ping_db, pinger, job, sampled>>

\* Time passes, but a turn begins and ends within Lag of its instant.
Tick ==
    /\ now < MaxNow
    /\ now < (IF collecting \/ unsent # {} THEN due - Interval ELSE due) + Lag
    /\ now' = now + 1
    /\ UNCHANGED <<known, established, rtt, ping_db, pinger, job, exported, sampled>>

Next ==
    \/ StartTurn \/ CollectPeers \/ \E p \in Peer : SendPing(p)
    \/ Receive \/ CheckPeer \/ CheckSession \/ CheckPing \/ TakePong
    \/ LookUpPort \/ SendPong
    \/ \E p \in Peer : Hello(p) \/ Establish(p)
    \/ \E S \in SUBSET known : RemoveStalePeers(S)
    \/ UpdateMetrics
    \/ Tick

Spec == Init /\ [][Next]_vars

-----------------------------------------------------------------------------
(* Properties.                                                             *)

\* The statistics of a measured peer.
WithinBounds(s) ==
    s.count > 0 => /\ s.min <= s.avg /\ s.avg <= s.max
                   /\ s.min <= s.current /\ s.current <= s.max

\* The average lies between the minimum and the maximum although it is rounded
\* at every sample, in rtt_stats and in what Prometheus reads; so does the
\* current value.
RttBounds == \A p \in Peer : WithinBounds(rtt[p]) /\ WithinBounds(gauges[p])

\* A ping is measured once, however often and however late its pong comes: the
\* samples of a peer are not more than its pings that have been measured.
SampledOnce ==
    \A p \in Peer : rtt[p].count <= Cardinality({g \in sampled : g.peer = p})

\* "Memory usage must be bounded": although lost pongs leave their records
\* behind, a peer has no more of them than turns fit into the timeout.
PingDbBounded ==
    \A p \in Peer :
        Cardinality({r \in ping_db : r.ping.peer = p})
            <= (Timeout + Lag) \div Interval + 1

\* A ping is on record until its pong is measured or the next turn begins: no
\* pong arrives before the record is made, and no removal of a peer and no
\* other pong takes the record away.
OnRecord ==
    \A g \in sent \ sampled :
        g.seq = sequence => \E r \in ping_db : r.ping = g

\* A pong is measured, and a ping answered, only when its peer is in peer_db
\* and has a Transport session at that moment, although the checks are made
\* under three guards in turn and the monitor may run in between.
HandledWhenEstablished ==
    [][sampled' # sampled \/ (job.pc # "pong" /\ job'.pc = "pong")
          => job.ping.peer \in known \cap established]_vars

=============================================================================
