---------------------------- MODULE PingRttProofs ----------------------------
(* What TLAPS proves of PingRtt, for every set of peers and every period.  *)
EXTENDS PingRtt, FiniteSetTheorems, TLAPS

USE PeerAssumption, TimeAssumption, LagAssumption

-----------------------------------------------------------------------------
(* The inductive invariant.                                                *)

\* What the receive loop has of the message it is at.
JobInv ==
    job # Idle =>
        /\ job.is = "pong" => job.ping \in sent
        /\ job.pc \in {"ping_db", "update"} => job.is = "pong"

\* The interval and the ping loop keep up with each other.
TimeInv ==
    /\ Interval <= due
    /\ due <= now + Interval
    /\ now <= due + Lag

\* All records are of the current turn, one for each of its peers at most.
TurnInv ==
    /\ \A r \in ping_db : r.ping.seq = sequence /\ due <= r.at + Interval
    /\ \A q, r \in ping_db : q.ping.peer = r.ping.peer => q = r
    /\ collecting => ping_db = {} /\ unsent = {}
    /\ \A r \in ping_db : r.ping.peer \notin unrecorded

\* The pings of the current turn: recorded, sent, measured, in this order.
SentInv ==
    /\ \A g \in sent : g.seq <= sequence
    /\ \A g \in sent : g.seq = sequence => ~collecting /\ g.peer \notin unsent
    /\ \A p \in unsent \ unrecorded : \E r \in ping_db : r.ping = ThisPing(p)

\* What is on record, or about to be measured, has not been measured.
SampleInv ==
    /\ \A r \in ping_db : r.ping \notin sampled
    /\ job.pc = "update" => job.ping \notin sampled
    /\ IsFiniteSet(sampled)

\* A peer whose session was checked has it as long as it is in peer_db.
CheckedInv ==
    job.pc \in {"ping_db", "update", "port"}
        => (job.ping.peer \in known => job.ping.peer \in established)

IInv ==
    /\ TypeOK /\ JobInv /\ TimeInv /\ TurnInv /\ SentInv /\ SampleInv
    /\ CheckedInv /\ RttBounds /\ SampledOnce /\ OnRecord

USE DEF pinger, exported

-----------------------------------------------------------------------------
(* RttStats::update.                                                       *)

\* A new sample yields statistics within their bounds, however the average is
\* rounded.
LEMMA UpdatedWithinBounds ==
    ASSUME NEW s \in RttStats, WithinBounds(s), NEW r \in Nat,
           NEW u \in Updated(s, r)
    PROVE  u \in RttStats /\ WithinBounds(u) /\ u.count = s.count + 1
<1>1. PICK a \in IF s.count = 0 THEN {r}
                 ELSE {b \in 0 .. s.avg + r : /\ 8 * b <= 7 * s.avg + r + 4
                                              /\ 7 * s.avg + r <= 8 * b + 4} :
          u = [count |-> s.count + 1, current |-> r, avg |-> a,
               min |-> IF s.count = 0 \/ r < s.min THEN r ELSE s.min,
               max |-> IF r > s.max THEN r ELSE s.max]
  BY DEF Updated
<1>2. CASE s.count = 0
  BY <1>1, <1>2 DEF RttStats, WithinBounds
<1>3. CASE s.count # 0
  BY <1>1, <1>3 DEF RttStats, WithinBounds
<1>4. QED
  BY <1>2, <1>3

-----------------------------------------------------------------------------
(* Initial states.                                                         *)

LEMMA InvInit == Init => IInv
<1> SUFFICES ASSUME Init PROVE IInv
  OBVIOUS
<1>1. TypeOK
  <2>1. NoRtt \in RttStats /\ 0 \in 0 .. MaxNow
    BY DEF NoRtt, RttStats
  <2>2. job \in Job /\ job = Idle
    BY DEF Init, Job
  <2>3. QED
    BY <2>1, <2>2 DEF Init, TypeOK
<1>2. JobInv /\ TimeInv /\ TurnInv /\ SentInv /\ CheckedInv /\ OnRecord
  BY DEF Init, JobInv, TimeInv, TurnInv, SentInv, CheckedInv, OnRecord, Idle
<1>3. SampleInv
  BY FS_EmptySet DEF Init, SampleInv, Idle
<1>4. RttBounds
  BY DEF Init, RttBounds, WithinBounds, NoRtt
<1>5. SampledOnce
  <2> SUFFICES ASSUME NEW p \in Peer
               PROVE  rtt[p].count <= Cardinality({g \in sampled : g.peer = p})
    BY DEF SampledOnce
  <2>1. {g \in sampled : g.peer = p} = {}
    BY DEF Init
  <2>2. QED
    BY <2>1, FS_EmptySet DEF Init, NoRtt
<1>6. QED
  BY <1>1, <1>2, <1>3, <1>4, <1>5 DEF IInv

-----------------------------------------------------------------------------
(* Types.                                                                  *)

\* A job at some step is no idle one.
LEMMA AtWork == job.pc # "idle" => job # Idle
  BY DEF Idle

LEMMA TypeNext == TypeOK /\ JobInv /\ TimeInv /\ RttBounds /\ [Next]_vars => TypeOK'
<1> SUFFICES ASSUME TypeOK, JobInv, TimeInv, RttBounds, [Next]_vars PROVE TypeOK'
  OBVIOUS
<1> USE DEF TypeOK
<1>1. CASE StartTurn
  BY <1>1 DEF StartTurn, Retained, PingRecord, Ping
<1>2. CASE CollectPeers
  BY <1>2 DEF CollectPeers
<1>3. ASSUME NEW p \in Peer, SendPing(p) PROVE TypeOK'
  BY <1>3 DEF SendPing, ThisPing, PingRecord, Ping
<1>4. CASE Receive
  BY <1>4 DEF Receive, ThisPing, Job, Ping, Idle
<1>5. CASE CheckPeer \/ CheckSession \/ LookUpPort \/ SendPong
  BY <1>5 DEF CheckPeer, CheckSession, LookUpPort, SendPong, GoOn, Job, Idle
<1>6. CASE CheckPing
  <2>1. CASE job' = Idle
    BY <1>6, <2>1 DEF CheckPing, Job
  <2>2. ASSUME NEW r \in ping_db,
               job' = [pc |-> "update", is |-> "pong", ping |-> job.ping, at |-> r.at]
        PROVE  TypeOK'
    <3>1. job \in Job /\ job # Idle
      BY <1>6, AtWork DEF CheckPing
    <3>2. r.at \in Nat /\ r.at <= now
      BY DEF PingRecord
    <3>3. job' \in Job /\ job'.at = r.at
      BY <2>2, <3>1, <3>2 DEF Job
    <3>4. QED
      BY <1>6, <3>2, <3>3 DEF CheckPing
  <2>3. QED
    BY <1>6, <2>1, <2>2 DEF CheckPing
<1>7. CASE TakePong
  <2>1. job \in Job /\ job # Idle /\ job.ping \in sent /\ job.ping.peer \in Peer
        /\ now - job.at \in Nat
    BY <1>7 DEF TakePong, JobInv, Job, Idle, Ping
  <2>2. rtt' \in [Peer -> RttStats]
    <3>1. CASE job.ping.peer \in known
      <4>1. PICK s \in Updated(rtt[job.ping.peer], now - job.at) :
                rtt' = [rtt EXCEPT ![job.ping.peer] = s]
        BY <1>7, <3>1 DEF TakePong
      <4>2. s \in RttStats
        BY <2>1, <4>1, UpdatedWithinBounds DEF RttBounds
      <4>3. QED
        BY <4>1, <4>2
    <3>2. QED
      BY <1>7, <3>1 DEF TakePong
  <2>3. sampled' \subseteq sent'
    BY <1>7, <2>1 DEF TakePong
  <2>4. QED
    BY <1>7, <2>2, <2>3 DEF TakePong, Job, Idle
<1>8. ASSUME NEW p \in Peer, Hello(p) \/ Establish(p) PROVE TypeOK'
  BY <1>8 DEF Hello, Establish
<1>9. ASSUME NEW S \in SUBSET known, RemoveStalePeers(S) PROVE TypeOK'
  BY <1>9 DEF RemoveStalePeers, NoRtt, RttStats
<1>10. CASE UpdateMetrics
  <2>1. connected' \in Nat
    <3> DEFINE measured == {p \in known \cap established : rtt[p].count > 0}
    <3>1. measured \subseteq Peer
      OBVIOUS
    <3>2. Cardinality(measured) \in Nat
      BY <3>1, FS_Subset, FS_CardinalityType
    <3>3. QED
      BY <1>10, <3>2 DEF UpdateMetrics
  <2>2. QED
    BY <1>10, <2>1 DEF UpdateMetrics
<1>11. CASE Tick
  BY <1>11 DEF Tick, Job, PingRecord, Idle
<1>12. CASE UNCHANGED vars
  BY <1>12 DEF vars
<1>13. QED
  BY <1>1, <1>2, <1>3, <1>4, <1>5, <1>6, <1>7, <1>8, <1>9, <1>10, <1>11, <1>12
     DEF Next

-----------------------------------------------------------------------------
(* The other parts, one after the other.                                   *)

LEMMA JobNext == TypeOK /\ JobInv /\ [Next]_vars => JobInv'
<1> SUFFICES ASSUME TypeOK, JobInv, [Next]_vars PROVE JobInv'
  OBVIOUS
<1> USE DEF TypeOK, JobInv
<1>1. CASE Receive
  BY <1>1 DEF Receive, Idle
<1>2. CASE CheckPeer \/ CheckSession \/ LookUpPort
  BY <1>2 DEF CheckPeer, CheckSession, LookUpPort, GoOn, Job, Idle
<1>3. CASE CheckPing
  <2>1. job # Idle /\ job.is = "pong" /\ job.ping \in sent /\ sent' = sent
    BY <1>3, AtWork DEF CheckPing
  <2>2. QED
    BY <1>3, <2>1 DEF CheckPing
<1>4. CASE TakePong \/ SendPong
  BY <1>4 DEF TakePong, SendPong
<1>5. ASSUME NEW p \in Peer, SendPing(p) PROVE JobInv'
  BY <1>5 DEF SendPing
<1>6. ASSUME job' = job, sent' = sent PROVE JobInv'
  BY <1>6
<1>7. CASE \/ StartTurn \/ CollectPeers \/ UpdateMetrics \/ Tick
           \/ \E p \in Peer : Hello(p) \/ Establish(p)
           \/ \E S \in SUBSET known : RemoveStalePeers(S)
           \/ UNCHANGED vars
  BY <1>6, <1>7 DEF StartTurn, CollectPeers, UpdateMetrics, Tick, Hello,
                    Establish, RemoveStalePeers, vars
<1>8. QED
  BY <1>1, <1>2, <1>3, <1>4, <1>5, <1>7 DEF Next

LEMMA TimeNext == TypeOK /\ TimeInv /\ [Next]_vars => TimeInv'
<1> SUFFICES ASSUME TypeOK, TimeInv, [Next]_vars PROVE TimeInv'
  OBVIOUS
<1> USE DEF TypeOK, TimeInv
<1>1. CASE StartTurn
  BY <1>1 DEF StartTurn
<1>2. CASE Tick
  BY <1>2 DEF Tick
<1>3. ASSUME now' = now, due' = due PROVE TimeInv'
  BY <1>3
<1>4. CASE ~(StartTurn \/ Tick)
  BY <1>3, <1>4 DEF Next, CollectPeers, SendPing, Receive, CheckPeer,
       CheckSession, CheckPing, TakePong, LookUpPort, SendPong, Hello,
       Establish, RemoveStalePeers, UpdateMetrics, vars
<1>5. QED
  BY <1>1, <1>2, <1>4

\* clean_stale_pings leaves nothing: no record is older than an interval and
\* the lag of the turn.
LEMMA NothingRetained == TypeOK /\ TimeInv /\ TurnInv => Retained = {}
<1> SUFFICES ASSUME TypeOK, TimeInv, TurnInv, NEW r \in ping_db
             PROVE  ~(now - r.at > Timeout)
  BY DEF Retained
<1>1. r.at \in Nat /\ due <= r.at + Interval /\ r.at <= now
  BY DEF TypeOK, TurnInv, PingRecord
<1>2. QED
  BY <1>1 DEF TypeOK, TimeInv

LEMMA TurnNext == TypeOK /\ TimeInv /\ TurnInv /\ [Next]_vars => TurnInv'
<1> SUFFICES ASSUME TypeOK, TimeInv, TurnInv, [Next]_vars PROVE TurnInv'
  OBVIOUS
<1>1. CASE StartTurn
  BY <1>1, NothingRetained DEF StartTurn, TurnInv
<1>2. CASE CollectPeers
  BY <1>2 DEF CollectPeers, TurnInv
<1>3. ASSUME NEW p \in Peer, SendPing(p) PROVE TurnInv'
  <2> DEFINE r0 == [ping |-> ThisPing(p), at |-> now]
  <2>1. CASE p \in unrecorded
    <3>1. /\ ping_db' = ping_db \cup {r0} /\ unrecorded' = unrecorded \ {p}
          /\ ~collecting /\ UNCHANGED <<sequence, due, collecting, unsent>>
      BY <1>3, <2>1 DEF SendPing, TypeOK, TurnInv
    <3>2. /\ r0.ping.peer = p /\ r0.ping.seq = sequence
          /\ due <= r0.at + Interval
      BY DEF ThisPing, TimeInv
    <3>3. \A r \in ping_db : r.ping.peer # p
      BY <2>1 DEF TurnInv
    <3> HIDE DEF r0
    <3>4. QED
      BY <3>1, <3>2, <3>3 DEF TurnInv
  <2>2. CASE p \notin unrecorded
    BY <1>3, <2>2 DEF SendPing, TurnInv
  <2>3. QED
    BY <2>1, <2>2
<1>4. CASE TakePong
  BY <1>4 DEF TakePong, TurnInv
<1>5. ASSUME UNCHANGED <<ping_db, sequence, due, collecting, unrecorded, unsent>>
      PROVE  TurnInv'
  BY <1>5 DEF TurnInv
<1>6. CASE ~(StartTurn \/ CollectPeers \/ TakePong \/ \E p \in Peer : SendPing(p))
  BY <1>5, <1>6 DEF Next, Receive, CheckPeer, CheckSession, CheckPing,
       LookUpPort, SendPong, Hello, Establish, RemoveStalePeers, UpdateMetrics,
       Tick, vars
<1>7. QED
  BY <1>1, <1>2, <1>3, <1>4, <1>6

\* A pong that is measured: its ping was sent and is of a peer.
LEMMA Measured ==
    ASSUME TypeOK, JobInv, TakePong
    PROVE  /\ job.ping \in sent /\ job.ping \in Ping /\ job.ping.peer \in Peer
           /\ now - job.at \in Nat
<1>1. job.pc = "update"
  BY DEF TakePong
<1>2. job \in Job /\ job # Idle
  BY <1>1, AtWork DEF TypeOK
<1>3. QED
  BY <1>1, <1>2 DEF TypeOK, JobInv, Job, Ping

LEMMA SentNext ==
    TypeOK /\ JobInv /\ TurnInv /\ SentInv /\ [Next]_vars => SentInv'
<1> SUFFICES ASSUME TypeOK, JobInv, TurnInv, SentInv, [Next]_vars PROVE SentInv'
  OBVIOUS
<1>1. CASE StartTurn
  <2>1. \A g \in sent : g.seq \in Nat
    BY DEF TypeOK, Ping
  <2>2. QED
    BY <1>1, <2>1 DEF StartTurn, SentInv, TypeOK
<1>2. CASE CollectPeers
  BY <1>2 DEF CollectPeers, SentInv
<1>3. ASSUME NEW p \in Peer, SendPing(p) PROVE SentInv'
  <2>1. CASE p \in unrecorded
    <3>1. /\ unrecorded' = unrecorded \ {p} /\ ping_db \subseteq ping_db'
          /\ [ping |-> ThisPing(p), at |-> now] \in ping_db'
          /\ UNCHANGED <<sent, unsent, sequence, collecting>>
      BY <1>3, <2>1 DEF SendPing
    <3>2. \E r \in ping_db' : r.ping = ThisPing(p)
      BY <3>1
    <3>3. \A q \in Peer : ThisPing(q)' = ThisPing(q)
      BY <3>1 DEF ThisPing
    <3>4. QED
      BY <3>1, <3>2, <3>3 DEF SentInv, TypeOK
  <2>2. CASE p \notin unrecorded
    <3>1. /\ p \in unsent /\ ~collecting /\ unsent' = unsent \ {p}
          /\ sent' \subseteq sent \cup {ThisPing(p)}
          /\ UNCHANGED <<ping_db, unrecorded, sequence, collecting>>
      BY <1>3, <2>2 DEF SendPing, TurnInv
    <3>2. ThisPing(p).peer = p /\ ThisPing(p).seq = sequence
      BY DEF ThisPing
    <3>3. \A q \in Peer : ThisPing(q)' = ThisPing(q)
      BY <3>1 DEF ThisPing
    <3>4. (\A g \in sent : g.seq <= sequence)'
      BY <3>1, <3>2 DEF SentInv, TypeOK
    <3>5. (\A g \in sent : g.seq = sequence => ~collecting /\ g.peer \notin unsent)'
      BY <3>1, <3>2 DEF SentInv
    <3>6. (\A q \in unsent \ unrecorded : \E r \in ping_db : r.ping = ThisPing(q))'
      BY <3>1, <3>3 DEF SentInv, TypeOK
    <3>7. QED
      BY <3>4, <3>5, <3>6 DEF SentInv
  <2>3. QED
    BY <2>1, <2>2
<1>4. CASE TakePong
  <2>1. UNCHANGED <<sent, sequence, collecting, unsent, unrecorded>>
    BY <1>4 DEF TakePong
  <2>2. \A r \in ping_db : r.ping # job.ping => r \in ping_db'
    BY <1>4 DEF TakePong
  <2>3. ASSUME NEW p \in unsent \ unrecorded PROVE ThisPing(p) # job.ping
    <3>1. job.ping \in sent
      BY <1>4, Measured
    <3>2. ThisPing(p).peer = p /\ ThisPing(p).seq = sequence
      BY DEF ThisPing
    <3>3. QED
      BY <3>1, <3>2 DEF SentInv
  <2>4. QED
    BY <2>1, <2>2, <2>3 DEF SentInv, ThisPing
<1>5. ASSUME UNCHANGED <<ping_db, sequence, collecting, unrecorded, unsent, sent>>
      PROVE  SentInv'
  BY <1>5 DEF SentInv, ThisPing
<1>6. CASE ~(StartTurn \/ CollectPeers \/ TakePong \/ \E p \in Peer : SendPing(p))
  BY <1>5, <1>6 DEF Next, Receive, CheckPeer, CheckSession, CheckPing,
       LookUpPort, SendPong, Hello, Establish, RemoveStalePeers, UpdateMetrics,
       Tick, vars
<1>7. QED
  BY <1>1, <1>2, <1>3, <1>4, <1>6

LEMMA SampleNext ==
    TypeOK /\ JobInv /\ SentInv /\ SampleInv /\ [Next]_vars => SampleInv'
<1> SUFFICES ASSUME TypeOK, JobInv, SentInv, SampleInv, [Next]_vars PROVE SampleInv'
  OBVIOUS
<1> USE DEF SampleInv
<1>1. CASE StartTurn
  BY <1>1 DEF StartTurn, Retained
<1>2. ASSUME NEW p \in Peer, SendPing(p) PROVE SampleInv'
  <2>1. ThisPing(p) \notin sampled
    BY <1>2 DEF SendPing, ThisPing, SentInv, TypeOK
  <2>2. UNCHANGED <<job, sampled>>
    BY <1>2 DEF SendPing
  <2>3. \A r \in ping_db' : r \in ping_db \/ r.ping = ThisPing(p)
    BY <1>2 DEF SendPing
  <2>4. QED
    BY <2>1, <2>2, <2>3
<1>3. CASE CheckPing
  BY <1>3 DEF CheckPing, Idle
<1>4. CASE TakePong
  <2>1. job'.pc = "idle"
    BY <1>4 DEF TakePong, Idle
  <2>2. CASE job.ping.peer \in known
    <3>1. /\ sampled' = sampled \cup {job.ping}
          /\ ping_db' = {r \in ping_db : r.ping # job.ping}
      BY <1>4, <2>2 DEF TakePong
    <3>2. IsFiniteSet(sampled')
      BY <3>1, FS_AddElement
    <3>3. QED
      BY <2>1, <3>1, <3>2
  <2>3. CASE job.ping.peer \notin known
    BY <1>4, <2>1, <2>3 DEF TakePong
  <2>4. QED
    BY <2>2, <2>3
<1>5. CASE Receive
  BY <1>5 DEF Receive
<1>6. CASE CheckPeer \/ CheckSession \/ LookUpPort \/ SendPong
  <2>1. UNCHANGED <<ping_db, sampled>>
    BY <1>6 DEF CheckPeer, CheckSession, LookUpPort, SendPong
  <2>2. job'.pc # "update"
    BY <1>6 DEF CheckPeer, CheckSession, LookUpPort, SendPong, GoOn, TypeOK, Job, Idle
  <2>3. QED
    BY <2>1, <2>2
<1>7. ASSUME UNCHANGED <<ping_db, job, sampled>> PROVE SampleInv'
  BY <1>7
<1>8. CASE \/ CollectPeers \/ UpdateMetrics \/ Tick
           \/ \E p \in Peer : Hello(p) \/ Establish(p)
           \/ \E S \in SUBSET known : RemoveStalePeers(S)
           \/ UNCHANGED vars
  BY <1>7, <1>8 DEF CollectPeers, UpdateMetrics, Tick, Hello, Establish,
                    RemoveStalePeers, vars
<1>9. QED
  BY <1>1, <1>2, <1>3, <1>4, <1>5, <1>6, <1>8 DEF Next

LEMMA CheckedNext == TypeOK /\ CheckedInv /\ [Next]_vars => CheckedInv'
<1> SUFFICES ASSUME TypeOK, CheckedInv, [Next]_vars PROVE CheckedInv'
  OBVIOUS
<1> USE DEF CheckedInv
<1>1. CASE Receive
  BY <1>1 DEF Receive
<1>2. CASE CheckPeer \/ CheckSession \/ LookUpPort
  BY <1>2 DEF CheckPeer, CheckSession, LookUpPort, GoOn, TypeOK, Job, Idle
<1>3. CASE CheckPing
  BY <1>3 DEF CheckPing, Idle
<1>4. CASE TakePong \/ SendPong
  BY <1>4 DEF TakePong, SendPong, Idle
<1>5. ASSUME NEW p \in Peer, Hello(p) \/ Establish(p) PROVE CheckedInv'
  BY <1>5 DEF Hello, Establish, Idle
<1>6. ASSUME NEW S \in SUBSET known, RemoveStalePeers(S) PROVE CheckedInv'
  BY <1>6 DEF RemoveStalePeers
<1>7. ASSUME UNCHANGED <<job, known, established>> PROVE CheckedInv'
  BY <1>7
<1>8. CASE \/ StartTurn \/ CollectPeers \/ UpdateMetrics \/ Tick
           \/ \E p \in Peer : SendPing(p)
           \/ UNCHANGED vars
  BY <1>7, <1>8 DEF StartTurn, CollectPeers, UpdateMetrics, Tick, SendPing, vars
<1>9. QED
  BY <1>1, <1>2, <1>3, <1>4, <1>5, <1>6, <1>8 DEF Next

LEMMA OnRecordNext ==
    /\ TypeOK /\ JobInv /\ TurnInv /\ SentInv /\ SampleInv /\ OnRecord
    /\ [Next]_vars
    => OnRecord'
<1> SUFFICES ASSUME TypeOK, JobInv, TurnInv, SentInv, OnRecord, [Next]_vars
             PROVE  OnRecord'
  OBVIOUS
<1>1. CASE StartTurn
  <2>1. \A g \in sent : g.seq # sequence'
    BY <1>1 DEF StartTurn, SentInv, TypeOK, Ping
  <2>2. sent' = sent
    BY <1>1 DEF StartTurn
  <2>3. QED
    BY <2>1, <2>2 DEF OnRecord
<1>2. ASSUME NEW p \in Peer, SendPing(p) PROVE OnRecord'
  <2>1. UNCHANGED <<sequence, sampled>> /\ ping_db \subseteq ping_db'
    BY <1>2 DEF SendPing
  <2>2. CASE p \in unrecorded
    BY <1>2, <2>1, <2>2 DEF SendPing, OnRecord
  <2>3. CASE p \notin unrecorded
    <3>1. sent' \subseteq sent \cup {ThisPing(p)} /\ p \in unsent \ unrecorded
      BY <1>2, <2>3 DEF SendPing
    <3>2. \E r \in ping_db : r.ping = ThisPing(p)
      BY <3>1 DEF SentInv
    <3>3. QED
      BY <2>1, <3>1, <3>2 DEF OnRecord
  <2>4. QED
    BY <2>2, <2>3
<1>3. CASE TakePong
  <2>1. UNCHANGED <<sequence, sent>>
    BY <1>3 DEF TakePong
  <2>2. CASE job.ping.peer \in known
    <3>1. /\ sampled' = sampled \cup {job.ping}
          /\ ping_db' = {r \in ping_db : r.ping # job.ping}
      BY <1>3, <2>2 DEF TakePong
    <3>2. QED
      BY <2>1, <3>1 DEF OnRecord
  <2>3. CASE job.ping.peer \notin known
    BY <1>3, <2>1, <2>3 DEF TakePong, OnRecord
  <2>4. QED
    BY <2>2, <2>3
<1>4. ASSUME UNCHANGED <<ping_db, sequence, sent, sampled>> PROVE OnRecord'
  BY <1>4 DEF OnRecord
<1>5. CASE ~(StartTurn \/ TakePong \/ \E p \in Peer : SendPing(p))
  BY <1>4, <1>5 DEF Next, CollectPeers, Receive, CheckPeer, CheckSession,
       CheckPing, LookUpPort, SendPong, Hello, Establish, RemoveStalePeers,
       UpdateMetrics, Tick, vars
<1>6. QED
  BY <1>1, <1>2, <1>3, <1>5

LEMMA RttNext == TypeOK /\ JobInv /\ RttBounds /\ [Next]_vars => RttBounds'
<1> SUFFICES ASSUME TypeOK, JobInv, RttBounds, [Next]_vars PROVE RttBounds'
  OBVIOUS
<1>1. CASE TakePong
  <2>1. CASE job.ping.peer \in known
    <3>1. PICK s \in Updated(rtt[job.ping.peer], now - job.at) :
              rtt' = [rtt EXCEPT ![job.ping.peer] = s]
      BY <1>1, <2>1 DEF TakePong
    <3>2. WithinBounds(s)
      BY <1>1, <3>1, Measured, UpdatedWithinBounds DEF RttBounds, TypeOK
    <3>3. gauges' = gauges
      BY <1>1 DEF TakePong
    <3>4. \A p \in Peer : rtt'[p] = s \/ rtt'[p] = rtt[p]
      BY <3>1 DEF TypeOK
    <3>5. QED
      BY <3>2, <3>3, <3>4 DEF RttBounds
  <2>2. CASE job.ping.peer \notin known
    BY <1>1, <2>2 DEF TakePong, RttBounds
  <2>3. QED
    BY <2>1, <2>2
<1>2. ASSUME NEW S \in SUBSET known, RemoveStalePeers(S) PROVE RttBounds'
  <2>1. WithinBounds(NoRtt)
    BY DEF WithinBounds, NoRtt
  <2>2. \A p \in Peer : rtt'[p] = NoRtt \/ rtt'[p] = rtt[p]
    BY <1>2 DEF RemoveStalePeers, TypeOK
  <2>3. gauges' = gauges
    BY <1>2 DEF RemoveStalePeers
  <2>4. QED
    BY <2>1, <2>2, <2>3 DEF RttBounds
<1>3. CASE UpdateMetrics
  <2>1. \A p \in Peer : gauges'[p] = rtt[p] \/ gauges'[p] = gauges[p]
    BY <1>3 DEF UpdateMetrics
  <2>2. rtt' = rtt
    BY <1>3 DEF UpdateMetrics
  <2>3. QED
    BY <2>1, <2>2 DEF RttBounds
<1>4. ASSUME UNCHANGED <<rtt, gauges>> PROVE RttBounds'
  BY <1>4 DEF RttBounds
<1>5. CASE \/ StartTurn \/ CollectPeers \/ Receive \/ CheckPeer \/ CheckSession
           \/ CheckPing \/ LookUpPort \/ SendPong \/ Tick
           \/ \E p \in Peer : SendPing(p) \/ Hello(p) \/ Establish(p)
           \/ UNCHANGED vars
  BY <1>4, <1>5 DEF StartTurn, CollectPeers, Receive, CheckPeer, CheckSession,
       CheckPing, LookUpPort, SendPong, Tick, SendPing, Hello, Establish, vars
<1>6. QED
  BY <1>1, <1>2, <1>3, <1>5 DEF Next

\* The pings of p that have been measured.
MeasuredOf(p) == {g \in sampled : g.peer = p}

LEMMA SampledOnceNext ==
    TypeOK /\ JobInv /\ SampleInv /\ RttBounds /\ SampledOnce /\ [Next]_vars
    => SampledOnce'
<1> SUFFICES ASSUME TypeOK, JobInv, SampleInv, RttBounds, SampledOnce, [Next]_vars,
                    NEW p \in Peer
             PROVE  rtt'[p].count <= Cardinality(MeasuredOf(p)')
  BY DEF SampledOnce, MeasuredOf
<1>1. /\ rtt[p].count \in Nat /\ rtt[p].count <= Cardinality(MeasuredOf(p))
      /\ IsFiniteSet(MeasuredOf(p)) /\ Cardinality(MeasuredOf(p)) \in Nat
  BY FS_Subset, FS_CardinalityType DEF SampleInv, SampledOnce, MeasuredOf,
     TypeOK, RttStats
<1>2. CASE TakePong /\ job.ping.peer = p /\ p \in known
  <2>1. job.ping \notin MeasuredOf(p)
    BY <1>2 DEF TakePong, SampleInv, MeasuredOf
  <2>2. MeasuredOf(p)' = MeasuredOf(p) \cup {job.ping}
    BY <1>2 DEF TakePong, MeasuredOf
  <2>3. Cardinality(MeasuredOf(p)') = Cardinality(MeasuredOf(p)) + 1
    BY <1>1, <2>1, <2>2, FS_AddElement
  <2>4. PICK s \in Updated(rtt[p], now - job.at) : rtt' = [rtt EXCEPT ![p] = s]
    BY <1>2 DEF TakePong
  <2>5. s.count = rtt[p].count + 1
    BY <1>2, <2>4, Measured, UpdatedWithinBounds DEF RttBounds, TypeOK
  <2>6. rtt'[p] = s
    BY <2>4 DEF TypeOK
  <2>7. QED
    BY <1>1, <2>3, <2>5, <2>6
<1>3. CASE TakePong /\ ~(job.ping.peer = p /\ p \in known)
  <2>1. MeasuredOf(p)' = MeasuredOf(p)
    BY <1>3 DEF TakePong, MeasuredOf
  <2>2. rtt'[p] = rtt[p]
    BY <1>3 DEF TakePong, TypeOK
  <2>3. QED
    BY <1>1, <2>1, <2>2
<1>4. ASSUME NEW S \in SUBSET known, RemoveStalePeers(S)
      PROVE  rtt'[p].count <= Cardinality(MeasuredOf(p)')
  <2>1. MeasuredOf(p)' = MeasuredOf(p)
    BY <1>4 DEF RemoveStalePeers, MeasuredOf
  <2>2. rtt'[p] = NoRtt \/ rtt'[p] = rtt[p]
    BY <1>4 DEF RemoveStalePeers
  <2>3. QED
    BY <1>1, <2>1, <2>2 DEF NoRtt
<1>5. ASSUME UNCHANGED <<rtt, sampled>>
      PROVE  rtt'[p].count <= Cardinality(MeasuredOf(p)')
  BY <1>1, <1>5 DEF MeasuredOf
<1>6. CASE \/ StartTurn \/ CollectPeers \/ Receive \/ CheckPeer \/ CheckSession
           \/ CheckPing \/ LookUpPort \/ SendPong \/ Tick \/ UpdateMetrics
           \/ \E q \in Peer : SendPing(q) \/ Hello(q) \/ Establish(q)
           \/ UNCHANGED vars
  BY <1>5, <1>6 DEF StartTurn, CollectPeers, Receive, CheckPeer, CheckSession,
       CheckPing, LookUpPort, SendPong, Tick, UpdateMetrics, SendPing, Hello,
       Establish, vars
<1>7. QED
  BY <1>2, <1>3, <1>4, <1>6 DEF Next

-----------------------------------------------------------------------------
(* Theorems.                                                               *)

LEMMA InvNext == IInv /\ [Next]_vars => IInv'
  BY TypeNext, JobNext, TimeNext, TurnNext, SentNext, SampleNext, CheckedNext,
     RttNext, SampledOnceNext, OnRecordNext DEF IInv

LEMMA InvAlways == Spec => []IInv
  BY InvInit, InvNext, PTL DEF Spec

\* The state of the ping loop, of the receive loop and of the gauges has its
\* type, and no record is from the future.
THEOREM PingTypeCorrect == Spec => []TypeOK
<1>1. IInv => TypeOK
  BY DEF IInv
<1>2. QED
  BY <1>1, InvAlways, PTL

\* The average of a peer's round-trip times stays between their minimum and
\* maximum, in rtt_stats and in the gauges, for any sequence of samples.
THEOREM AverageWithinBounds == Spec => []RttBounds
<1>1. IInv => RttBounds
  BY DEF IInv
<1>2. QED
  BY <1>1, InvAlways, PTL

\* No ping is measured twice, whatever pongs are duplicated or late.
THEOREM NoPingMeasuredTwice == Spec => []SampledOnce
<1>1. IInv => SampledOnce
  BY DEF IInv
<1>2. QED
  BY <1>1, InvAlways, PTL

\* The pong of the current turn finds the record of its ping.
THEOREM PingsStayOnRecord == Spec => []OnRecord
<1>1. IInv => OnRecord
  BY DEF IInv
<1>2. QED
  BY <1>1, InvAlways, PTL

\* ping_db holds no more records of a peer than turns fit into the timeout, as
\* long as a turn of the ping loop is not late by more than Timeout - Interval.
THEOREM PingDbStaysBounded == Spec => []PingDbBounded
<1>1. IInv => PingDbBounded
  <2> SUFFICES ASSUME IInv, NEW p \in Peer
               PROVE  Cardinality({r \in ping_db : r.ping.peer = p})
                          <= (Timeout + Lag) \div Interval + 1
    BY DEF PingDbBounded
  <2> DEFINE R == {r \in ping_db : r.ping.peer = p}
  <2>1. R = {} \/ \E r \in R : R = {r}
    BY DEF IInv, TurnInv
  <2>2. Cardinality(R) = 0 \/ Cardinality(R) = 1
    <3> HIDE DEF R
    <3>1. CASE R = {}
      BY <3>1, FS_EmptySet
    <3>2. ASSUME NEW r \in R, R = {r} PROVE Cardinality(R) = 1
      BY <3>2, FS_Singleton
    <3>3. QED
      BY <2>1, <3>1, <3>2
  <2>3. (Timeout + Lag) \div Interval \in Nat
    OBVIOUS
  <2> HIDE DEF R
  <2>4. Cardinality(R) <= (Timeout + Lag) \div Interval + 1
    BY <2>2, <2>3
  <2>5. QED
    BY <2>4 DEF R
<1>2. QED
  BY <1>1, InvAlways, PTL

\* A pong is measured and a ping answered only while the peer is in peer_db and
\* has a Transport session, wherever the monitor interrupts the checks.
THEOREM EstablishedWhenHandled == Spec => HandledWhenEstablished
<1> DEFINE Handled == sampled' # sampled \/ (job.pc # "pong" /\ job'.pc = "pong")
                      => job.ping.peer \in known \cap established
<1>1. IInv /\ [Next]_vars => [Handled]_vars
  <2> SUFFICES ASSUME IInv, Next PROVE Handled
    OBVIOUS
  <2>1. CASE TakePong
    BY <2>1 DEF TakePong, IInv, CheckedInv, Idle
  <2>2. CASE LookUpPort
    BY <2>2 DEF LookUpPort, GoOn, IInv, CheckedInv, TypeOK, Job, Idle
  <2>3. CASE CheckPeer \/ CheckSession \/ CheckPing \/ SendPong \/ Receive
    <3>1. sampled' = sampled
      BY <2>3 DEF CheckPeer, CheckSession, CheckPing, SendPong, Receive
    <3>2. CASE CheckPeer \/ CheckSession
      BY <3>1, <3>2 DEF CheckPeer, CheckSession, GoOn, IInv, TypeOK, Job, Idle
    <3>3. CASE CheckPing \/ SendPong \/ Receive
      BY <3>1, <3>3 DEF CheckPing, SendPong, Receive, Idle
    <3>4. QED
      BY <2>3, <3>2, <3>3
  <2>4. CASE UNCHANGED <<job, sampled>>
    BY <2>4
  <2>5. QED
    BY <2>1, <2>2, <2>3, <2>4 DEF Next, StartTurn, CollectPeers, SendPing, Hello,
       Establish, RemoveStalePeers, UpdateMetrics, Tick
<1>2. Spec => [][Handled]_vars
  BY <1>1, InvAlways, PTL DEF Spec
<1>3. QED
  BY <1>2 DEF HandledWhenEstablished

=============================================================================
