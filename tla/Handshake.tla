------------------------------ MODULE Handshake ------------------------------
(***************************************************************************)
(* Discovery and session establishment between the nodes of a mesh: the    *)
(* Hello broadcast, the receive loop's Hello and Handshake arms, the Noise *)
(* XXpsk3 handshake they drive, and the monitor task that removes silent   *)
(* peers.  Source: crates/node/src/node.rs, crates/noise/src/lib.rs.       *)
(*                                                                         *)
(* Every node runs two tasks that touch this state: the receive loop (rx)  *)
(* and the peer monitor (mon).  A step of the model is the code between    *)
(* two points where the task may lose a lock.  The network carries Hello   *)
(* datagrams (hello) and handshake datagrams (net); it may delay, reorder, *)
(* lose and duplicate them.                                                *)
(*                                                                         *)
(* handle_handshake and remove_stale_peers call broadcast_lsa while they   *)
(* still hold the guard of session_db, and broadcast_lsa locks session_db  *)
(* again; a tokio Mutex is not reentrant, so the call never returns and    *)
(* the guard is never released.  The variable guard records it.            *)
(* GuardDropped = FALSE is the source as it stands.  GuardDropped = TRUE   *)
(* is the same source with the guard dropped before those calls: the runs  *)
(* that use it look at the part of the protocol behind the held guard.     *)
(***************************************************************************)
EXTENDS Naturals

CONSTANTS
    Node,          \* node ids (u32, random at start-up, never reused)
    MaxEph,        \* bound: Noise handshake states one node may build
    GuardDropped,  \* FALSE: the source
    Faults         \* what the environment may do to the nodes

ASSUME NodeAssumption == Node \subseteq Nat
ASSUME EphAssumption == MaxEph \in Nat
ASSUME GuardAssumption == GuardDropped \in BOOLEAN
ASSUME FaultsAssumption ==
    Faults \subseteq {"lose", "duplicate", "silence", "crash"}

VARIABLES
    up,       \* up[n]: the process of n runs
    peer,     \* peer[n][p]: p's entry in n's peer_db, by the age of last_seen
    session,  \* session[n][p]: p's entry in n's session_db
    guard,    \* guard[n]: the task that keeps session_db locked for ever
    rx,       \* rx[n]: where n's receive loop is
    mon,      \* mon[n]: the stale_peers n's monitor has collected
    eph,      \* eph[n]: Noise handshake states built by n so far
    hello,    \* Hello datagrams in flight, <<from, to>>
    net       \* handshake datagrams in flight

vars == <<up, peer, session, guard, rx, mon, eph, hello, net>>

Eph == 0 .. MaxEph

NoiseState == {"None", "ExpectingInitiator", "Handshaking", "Transport",
               "Transitioning"}

(***************************************************************************)
(* A session is its NoiseState with the ephemeral keys its Noise state has *)
(* mixed: e is the initiator's, re the responder's, 0 when there is none   *)
(* yet.  A Handshaking session with re = 0 is an initiator that waits for  *)
(* message 2; one with re > 0 is a responder that waits for message 3.     *)
(* Only Handshaking and Transport carry a Noise state, and into_transport_ *)
(* mode takes one that has mixed both keys.                                *)
(***************************************************************************)
Session ==
    {s \in [st : NoiseState, e : Eph, re : Eph] :
        /\ s.e > 0 <=> s.st \in {"Handshaking", "Transport"}
        /\ s.re > 0 => s.e > 0
        /\ s.st = "Transport" => s.re > 0}

Plain(st) == [st |-> st, e |-> 0, re |-> 0]
NoSession == Plain("None")

\* Message 1 is written before the responder has a key, the others after it.
Message ==
    {m \in [kind : 1 .. 3, from : Node, to : Node, e : Eph, re : Eph] :
        m.e > 0 /\ (m.re > 0 <=> m.kind > 1)}

RxState == [pc : {"idle", "update", "new"}, from : Node]
Idle(n) == [pc |-> "idle", from |-> n]

\* What the state of the nodes and of the network looks like: every session
\* and every datagram has the keys its state or its kind calls for.
TypeOK ==
    /\ up \in [Node -> BOOLEAN]
    /\ peer \in [Node -> [Node -> {"none", "fresh", "stale"}]]
    /\ session \in [Node -> [Node -> Session]]
    /\ guard \in [Node -> {"free", "receive", "monitor"}]
    /\ rx \in [Node -> RxState]
    /\ mon \in [Node -> SUBSET Node]
    /\ eph \in [Node -> Eph]
    /\ hello \subseteq Node \X Node
    /\ net \subseteq Message

Init ==
    /\ up = [n \in Node |-> TRUE]
    /\ peer = [n \in Node |-> [p \in Node |-> "none"]]
    /\ session = [n \in Node |-> [p \in Node |-> NoSession]]
    /\ guard = [n \in Node |-> "free"]
    /\ rx = [n \in Node |-> Idle(n)]
    /\ mon = [n \in Node |-> {}]
    /\ eph = [n \in Node |-> 0]
    /\ hello = {}
    /\ net = {}

-----------------------------------------------------------------------------
(* The Noise library (snow) as the code uses it.                           *)

\* A handshake datagram of kind k from n to p.
Datagram(k, n, p, e, re) ==
    [kind |-> k, from |-> n, to |-> p, e |-> e, re |-> re]

\* HandshakeState::read_message succeeds only on the message the pattern
\* expects next, encrypted under the keys both sides have mixed so far.
ReadMessage(s, m) ==
    IF s.st = "ExpectingInitiator"
    THEN m.kind = 1
    ELSE /\ m.e = s.e
         /\ IF s.re = 0 THEN m.kind = 2 ELSE m.kind = 3 /\ m.re = s.re

-----------------------------------------------------------------------------
(* The receive loop.                                                       *)

\* n's tasks can still lock session_db.
Live(n) == up[n] /\ guard[n] = "free"

\* The Hello task: it takes no lock, so a node whose session_db is locked for
\* ever goes on announcing itself.
BroadcastHello(n) ==
    /\ up[n]
    /\ hello' = hello \cup {<<n, p>> : p \in Node \ {n}}
    /\ UNCHANGED <<up, peer, session, guard, rx, mon, eph, net>>

\* The Hello arm up to the release of session_db: is there a session with p?
ReceiveHello(n, p) ==
    /\ Live(n)
    /\ rx[n].pc = "idle"
    /\ <<p, n>> \in hello
    /\ hello' = hello \ {<<p, n>>}
    /\ rx' = [rx EXCEPT ![n] =
                 [pc |-> IF session[n][p].st = "None" THEN "new" ELSE "update",
                  from |-> p]]
    /\ UNCHANGED <<up, peer, session, guard, mon, eph, net>>

\* A session was there: refresh or create the peer_db entry.
UpdatePeer(n) ==
    /\ Live(n)
    /\ rx[n].pc = "update"
    /\ peer' = [peer EXCEPT ![n][rx[n].from] = "fresh"]
    /\ rx' = [rx EXCEPT ![n] = Idle(n)]
    /\ UNCHANGED <<up, session, guard, mon, eph, hello, net>>

\* handle_hello with the lower id: wait for the peer to start.
BecomeResponder(n, p) ==
    /\ n < p
    /\ session' = [session EXCEPT ![n][p] = Plain("ExpectingInitiator")]
    /\ UNCHANGED <<eph, net>>

\* Mutant: every handshake starts from one ephemeral key made at start-up.
BecomeInitiatorKeyReuse(n, p) ==
    /\ p <= n
    /\ MaxEph > 0
    /\ eph' = [eph EXCEPT ![n] = 1]
    /\ session' = [session EXCEPT ![n][p] =
                      [st |-> "Handshaking", e |-> 1, re |-> 0]]
    /\ net' = net \cup {Datagram(1, n, p, 1, 0)}

\* handle_hello with the higher id: start_handshake and send message 1.
BecomeInitiator(n, p) ==
    /\ p <= n
    /\ eph[n] < MaxEph
    /\ eph' = [eph EXCEPT ![n] = @ + 1]
    /\ session' = [session EXCEPT ![n][p] =
                      [st |-> "Handshaking", e |-> eph[n] + 1, re |-> 0]]
    /\ net' = net \cup {Datagram(1, n, p, eph[n] + 1, 0)}

HandleHello(n) ==
    /\ Live(n)
    /\ rx[n].pc = "new"
    /\ BecomeResponder(n, rx[n].from) \/ BecomeInitiator(n, rx[n].from)
    /\ rx' = [rx EXCEPT ![n] = Idle(n)]
    /\ UNCHANGED <<up, peer, guard, mon, hello>>

\* The network once m has been received: without m, or with another copy.
Rest(m) == {net \ {m}} \cup (IF "duplicate" \in Faults THEN {net} ELSE {})

\* Mutant: a handshake that overtakes the peer's first Hello is rejected.
CurrentNoCreate(n, p) == session[n][p]

\* The session handle_handshake works on: a missing one is created for a peer
\* with a higher id.
Current(n, p) ==
    IF session[n][p].st = "None" /\ n < p
    THEN Plain("ExpectingInitiator")
    ELSE session[n][p]

\* Handshake from an unknown peer with a lower id: rejected.
RejectUnsolicited(n, m) ==
    /\ Current(n, m.from).st = "None"
    /\ net' \in Rest(m)
    /\ UNCHANGED <<session, guard, eph>>

\* Mutant: the answer is taken from the buffer before write_message fills it.
RespondToFirstUnwritten(n, m) ==
    LET s == Current(n, m.from) IN
    /\ s.st = "ExpectingInitiator"
    /\ ReadMessage(s, m)
    /\ eph[n] < MaxEph
    /\ eph' = [eph EXCEPT ![n] = @ + 1]
    /\ session' = [session EXCEPT ![n][m.from] =
                      [st |-> "Handshaking", e |-> m.e, re |-> eph[n] + 1]]
    /\ \E rest \in Rest(m) : net' = rest \cup {Datagram(2, n, m.from, m.e, 0)}
    /\ UNCHANGED guard

\* ExpectingInitiator: read message 1, write message 2.
RespondToFirst(n, m) ==
    LET s == Current(n, m.from) IN
    /\ s.st = "ExpectingInitiator"
    /\ ReadMessage(s, m)
    /\ eph[n] < MaxEph
    /\ eph' = [eph EXCEPT ![n] = @ + 1]
    /\ session' = [session EXCEPT ![n][m.from] =
                      [st |-> "Handshaking", e |-> m.e, re |-> eph[n] + 1]]
    /\ \E rest \in Rest(m) :
          net' = rest \cup {Datagram(2, n, m.from, m.e, eph[n] + 1)}
    /\ UNCHANGED guard

\* Mutant: message 3 is sent before broadcast_lsa is called.
FinishAsInitiatorSendsFirst(n, m) ==
    LET s == Current(n, m.from) IN
    /\ s.st = "Handshaking" /\ s.re = 0
    /\ ReadMessage(s, m)
    /\ session' = [session EXCEPT ![n][m.from] =
                      [st |-> "Transport", e |-> m.e, re |-> m.re]]
    /\ \E rest \in Rest(m) :
          net' = rest \cup {Datagram(3, n, m.from, m.e, m.re)}
    /\ guard' = IF GuardDropped THEN guard
                ELSE [guard EXCEPT ![n] = "receive"]
    /\ UNCHANGED eph

\* Handshaking as the initiator: read message 2 and write message 3, which
\* finishes the handshake.  The source then waits in broadcast_lsa with the
\* guard in hand, before it has returned message 3 to be sent.
FinishAsInitiator(n, m) ==
    LET s == Current(n, m.from) IN
    /\ s.st = "Handshaking" /\ s.re = 0
    /\ ReadMessage(s, m)
    /\ session' = [session EXCEPT ![n][m.from] =
                      [st |-> "Transport", e |-> m.e, re |-> m.re]]
    /\ \E rest \in Rest(m) :
          IF GuardDropped
          THEN /\ net' = rest \cup {Datagram(3, n, m.from, m.e, m.re)}
               /\ UNCHANGED guard
          ELSE /\ net' = rest
               /\ guard' = [guard EXCEPT ![n] = "receive"]
    /\ UNCHANGED eph

\* Mutant: an error of read_message is logged and then ignored.
FinishAsResponderIgnoresError(n, m) ==
    LET s == Current(n, m.from) IN
    /\ s.st = "Handshaking" /\ s.re > 0
    /\ session' = [session EXCEPT ![n][m.from] =
                      [st |-> "Transport", e |-> s.e, re |-> s.re]]
    /\ guard' = IF GuardDropped THEN guard
                ELSE [guard EXCEPT ![n] = "receive"]
    /\ net' \in Rest(m)
    /\ UNCHANGED eph

\* Handshaking as the responder: message 3 finishes the handshake.
FinishAsResponder(n, m) ==
    LET s == Current(n, m.from) IN
    /\ s.st = "Handshaking" /\ s.re > 0
    /\ ReadMessage(s, m)
    /\ session' = [session EXCEPT ![n][m.from] =
                      [st |-> "Transport", e |-> s.e, re |-> s.re]]
    /\ guard' = IF GuardDropped THEN guard
                ELSE [guard EXCEPT ![n] = "receive"]
    /\ net' \in Rest(m)
    /\ UNCHANGED eph

\* read_message fails: the early return leaves what mem::replace put there.
ReadFails(n, m) ==
    LET s == Current(n, m.from) IN
    /\ s.st \in {"ExpectingInitiator", "Handshaking"}
    /\ ~ReadMessage(s, m)
    /\ session' = [session EXCEPT ![n][m.from] = Plain("Transitioning")]
    /\ net' \in Rest(m)
    /\ UNCHANGED <<guard, eph>>

\* Mutant: the state mem::replace took out is not put back.
UnexpectedStateNotRestored(n, m) ==
    /\ Current(n, m.from).st \in {"Transport", "Transitioning"}
    /\ session' = [session EXCEPT ![n][m.from] = Plain("Transitioning")]
    /\ net' \in Rest(m)
    /\ UNCHANGED <<guard, eph>>

\* Any other NoiseState is put back and the message dropped.
UnexpectedState(n, m) ==
    /\ Current(n, m.from).st \in {"Transport", "Transitioning"}
    /\ session' = [session EXCEPT ![n][m.from] = Current(n, m.from)]
    /\ net' \in Rest(m)
    /\ UNCHANGED <<guard, eph>>

\* The Handshake arm: session_db stays locked from the lookup to the end.
ReceiveHandshake(n) ==
    /\ Live(n)
    /\ rx[n].pc = "idle"
    /\ \E m \in net :
          /\ m.to = n
          /\ \/ RejectUnsolicited(n, m)
             \/ RespondToFirst(n, m)
             \/ FinishAsInitiator(n, m)
             \/ FinishAsResponder(n, m)
             \/ ReadFails(n, m)
             \/ UnexpectedState(n, m)
    /\ UNCHANGED <<up, peer, rx, mon, hello>>

-----------------------------------------------------------------------------
(* The monitor task.                                                       *)

\* remove_stale_peers, first critical section: collect the stale peers.  It
\* locks peer_db only, so a receive loop stuck on session_db does not stop it.
CollectStale(n) ==
    /\ up[n] /\ guard[n] # "monitor"
    /\ mon[n] = {}
    /\ \E p \in Node : peer[n][p] = "stale"
    /\ mon' = [mon EXCEPT ![n] = {p \in Node : peer[n][p] = "stale"}]
    /\ UNCHANGED <<up, peer, session, guard, rx, eph, hello, net>>

\* Mutant: peer_db and session_db are free again when the peers are gone.
RemoveStaleUnguarded(n) ==
    /\ Live(n)
    /\ mon[n] # {}
    /\ peer' = [peer EXCEPT ![n] =
                   [p \in Node |-> IF p \in mon[n] THEN "none" ELSE @[p]]]
    /\ session' = [session EXCEPT ![n] =
                      [p \in Node |-> IF p \in mon[n] THEN NoSession ELSE @[p]]]
    /\ mon' = [mon EXCEPT ![n] = {}]
    /\ UNCHANGED <<up, guard, rx, eph, hello, net>>

\* Mutant: only the session is dropped, the peer entry stays.
RemoveStaleSessionOnly(n) ==
    /\ Live(n)
    /\ mon[n] # {}
    /\ session' = [session EXCEPT ![n] =
                      [p \in Node |-> IF p \in mon[n] THEN NoSession ELSE @[p]]]
    /\ mon' = [mon EXCEPT ![n] = {}]
    /\ guard' = IF GuardDropped THEN guard
                ELSE [guard EXCEPT ![n] = "monitor"]
    /\ UNCHANGED <<up, peer, rx, eph, hello, net>>

\* Mutant: the session of a removed peer stays.
RemoveStalePeerOnly(n) ==
    /\ Live(n)
    /\ mon[n] # {}
    /\ peer' = [peer EXCEPT ![n] =
                   [p \in Node |-> IF p \in mon[n] THEN "none" ELSE @[p]]]
    /\ mon' = [mon EXCEPT ![n] = {}]
    /\ guard' = IF GuardDropped THEN guard
                ELSE [guard EXCEPT ![n] = "monitor"]
    /\ UNCHANGED <<up, session, rx, eph, hello, net>>

\* Second critical section: drop the collected peers from both databases, then
\* broadcast_lsa, in the source with both guards in hand.
RemoveStale(n) ==
    /\ Live(n)
    /\ mon[n] # {}
    /\ peer' = [peer EXCEPT ![n] =
                   [p \in Node |-> IF p \in mon[n] THEN "none" ELSE @[p]]]
    /\ session' = [session EXCEPT ![n] =
                      [p \in Node |-> IF p \in mon[n] THEN NoSession ELSE @[p]]]
    /\ mon' = [mon EXCEPT ![n] = {}]
    /\ guard' = IF GuardDropped THEN guard
                ELSE [guard EXCEPT ![n] = "monitor"]
    /\ UNCHANGED <<up, rx, eph, hello, net>>

-----------------------------------------------------------------------------
(* The environment.                                                        *)

\* 60 seconds without a Hello from p: p is dead, or its Hellos are lost.
Silence(n, p) ==
    /\ up[n]
    /\ peer[n][p] = "fresh"
    /\ ~up[p] \/ "silence" \in Faults
    /\ peer' = [peer EXCEPT ![n][p] = "stale"]
    /\ UNCHANGED <<up, session, guard, rx, mon, eph, hello, net>>

\* The process ends; a new one would draw a new id.
Crash(n) ==
    /\ "crash" \in Faults
    /\ up[n]
    /\ up' = [up EXCEPT ![n] = FALSE]
    /\ UNCHANGED <<peer, session, guard, rx, mon, eph, hello, net>>

\* UDP loses a handshake datagram.
Lose ==
    /\ "lose" \in Faults
    /\ \E m \in net : net' = net \ {m}
    /\ UNCHANGED <<up, peer, session, guard, rx, mon, eph, hello>>

Next ==
    \/ \E n \in Node :
          \/ BroadcastHello(n)
          \/ UpdatePeer(n)
          \/ HandleHello(n)
          \/ ReceiveHandshake(n)
          \/ CollectStale(n)
          \/ RemoveStale(n)
          \/ Crash(n)
          \/ \E p \in Node : ReceiveHello(n, p) \/ Silence(n, p)
    \/ Lose

Spec == Init /\ [][Next]_vars

(***************************************************************************)
(* Timers fire and a task that can run is polled, so the steps of the      *)
(* Hello and monitor tasks and the second half of a Hello are weakly fair. *)
(* select! polls its branches in random order, so a datagram that is ready *)
(* again and again is received: strong fairness.  Faults are never fair,   *)
(* but 60 seconds do pass for a dead peer.                                 *)
(***************************************************************************)
Fairness ==
    \A n \in Node :
        /\ WF_vars(BroadcastHello(n))
        /\ WF_vars(UpdatePeer(n))
        /\ WF_vars(HandleHello(n))
        /\ SF_vars(ReceiveHandshake(n))
        /\ WF_vars(CollectStale(n))
        /\ WF_vars(RemoveStale(n))
        /\ \A p \in Node :
              /\ SF_vars(ReceiveHello(n, p))
              /\ WF_vars(~up[p] /\ Silence(n, p))

FairSpec == Spec /\ Fairness

-----------------------------------------------------------------------------
(* Safety.                                                                 *)

Transport(n, p) == session[n][p].st = "Transport"

\* When both ends of a pair of nodes hold a Transport session, the two
\* sessions come from the same run of the Noise handshake, whatever mix of
\* old, duplicated and reordered datagrams handle_handshake was fed and
\* however often remove_stale_peers made either end start over.
SessionAgreement ==
    \A n, p \in Node :
        Transport(n, p) /\ Transport(p, n) => session[n][p] = session[p][n]

TransportKept ==
    \A n, p \in Node :
        Transport(n, p) =>
           \/ session'[n][p] = session[n][p]
           \/ session'[n][p] = NoSession /\ p \in mon[n]

\* An established session is changed by remove_stale_peers only: neither a
\* Hello nor any handshake datagram, late, repeated or invalid, disturbs it,
\* although handle_handshake takes the state out before it looks at it.
TransportUntilRemoved == [][TransportKept]_vars

\* The source never reaches its goal: a node that enters Transport waits for
\* ever in broadcast_lsa, as the initiator with message 3 unsent.  So no pair of
\* nodes ever holds Transport sessions at both ends, and a node with a Transport
\* session receives nothing more.
NeverMutual ==
    ~GuardDropped =>
        \A n, p \in Node :
            Transport(n, p) => guard[n] = "receive" /\ ~Transport(p, n)

\* Peer information implies a session: the Hello arm refreshes peer_db after
\* it has released session_db, and must not resurrect the entry of a peer that
\* remove_stale_peers has dropped in between.
PeerHasSession ==
    \A n, p \in Node :
        up[n] /\ peer[n][p] # "none" => session[n][p].st # "None"

\* What the rest of a node sees of its databases.
KnownPeers == [n \in Node |-> {p \in Node : peer[n][p] # "none"}]
EstablishedPeers == [n \in Node |-> {p \in Node : Transport(n, p)}]

\* The two databases of every node implement PeerTable, on which the models of
\* pings and of link-state advertisements rest: whatever datagrams come and
\* wherever the monitor runs between the steps of the receive loop, a Transport
\* session goes only together with its peer_db entry.
Table == INSTANCE PeerTable WITH
             known <- KnownPeers, established <- EstablishedPeers
PeerTableSpec == Table!Spec

-----------------------------------------------------------------------------
(* Liveness, under FairSpec.                                               *)

\* "Secure Session: Established after successful Noise handshake": when
\* nothing is lost, two nodes that go on running end up with matching Transport
\* sessions and keep them.
EstablishedEventually ==
    \A n, p \in Node :
        n # p => <>[](up[n] /\ up[p] => Transport(n, p) /\ Transport(p, n))

\* The entry of a peer that has stopped is removed from peer_db, by a node
\* that goes on running.
DeadPeerRemoved ==
    \A n, p \in Node :
        (~up[p] /\ peer[n][p] # "none") ~> (~up[n] \/ peer[n][p] = "none")

-----------------------------------------------------------------------------
(* What the repository's documents say and the code does not do.           *)

\* "Removes peers not seen for 60 seconds": a peer that is removed has not been
\* heard of for 60 seconds at that moment.
OnlyStaleRemoved ==
    [][\A n, p \in Node :
          peer[n][p] # "none" /\ peer'[n][p] = "none" => peer[n][p] = "stale"]_vars

\* "It removes both the peer information and any associated session state to
\* prevent resource leaks": the session of a peer that has stopped goes away.
DeadSessionReclaimed ==
    \A n, p \in Node :
        (~up[p] /\ session[n][p].st # "None")
            ~> (~up[n] \/ session[n][p].st = "None")

\* "Temporary state used during state transitions": a session does not stay in
\* Transitioning.
TransitioningIsTemporary ==
    \A n, p \in Node :
        (session[n][p].st = "Transitioning") ~> (session[n][p].st # "Transitioning")

=============================================================================
