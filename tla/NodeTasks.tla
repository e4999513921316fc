------------------------------ MODULE NodeTasks ------------------------------
(***************************************************************************)
(* The tasks of one node and the locks they share.  main spawns six tasks  *)
(* that lock the node's databases: the receive loop, the ping loop, the    *)
(* peer monitor, the metrics collector, the LSA refresh and the LSA        *)
(* cleanup.  Each handler is given by the order in which it takes and      *)
(* drops guards, the calls it makes included, with one script for each of  *)
(* its early returns; what it does to the data is in the other modules.    *)
(* Source: crates/node/src/node.rs, apps/node/src/main.rs.                 *)
(*                                                                         *)
(* handle_handshake and remove_stale_peers call broadcast_lsa with the     *)
(* session_db guard in hand, and broadcast_lsa locks session_db again.     *)
(***************************************************************************)
EXTENDS Naturals, Sequences

CONSTANT
    Calls   \* the handlers that messages and timers trigger

Lock == {"peer_db", "session_db", "ping_db", "link_state_db", "lsa_sequence"}
Task == {"receive", "ping_peers", "monitor_peers", "collect_metrics",
         "lsa_refresh", "lsa_cleanup"}
Handler == {"hello", "handshake", "ping", "pong", "link_state", "ping_peers",
            "monitor_peers", "collect_metrics", "lsa_refresh", "lsa_cleanup"}

ASSUME CallsAssumption == Calls \subseteq Handler

VARIABLES
    todo,   \* todo[t]: the lock operations left of the handler t runs
    owner,  \* owner[l]: the task that holds l, or "none"
    queue   \* queue[l]: the tasks that wait for l, first come first served

vars == <<todo, owner, queue>>

-----------------------------------------------------------------------------
(* Handlers as sequences of lock operations.                               *)

Op == [do : {"lock", "unlock"}, on : Lock]

\* A guard of l that lives for the length of body.
Guarded(l, body) ==
    <<[do |-> "lock", on |-> l]>> \o body \o <<[do |-> "unlock", on |-> l]>>

\* A guard dropped in the statement that takes it.
Visit(l) == Guarded(l, <<>>)

\* Mutant: the two guards in the other order.
SessionFirst == Guarded("session_db", Guarded("peer_db", <<>>))

\* get_neighbor_addresses: peer_db and, under it, session_db.
GetNeighborAddresses == Guarded("peer_db", Guarded("session_db", <<>>))

\* generate_lsa: the next sequence number, then get_established_neighbors.
GenerateLsa == Visit("lsa_sequence") \o Visit("session_db")

\* broadcast_lsa: store our own LSA and send it to all neighbours.
BroadcastLsa == GenerateLsa \o Visit("link_state_db") \o GetNeighborAddresses

\* The Hello arm: a known peer is refreshed, a new one gets a session.
HelloArm == {Visit("session_db") \o Visit("peer_db"),
             Visit("session_db") \o Visit("session_db")}

\* handle_handshake: every return but one needs session_db only; the last step
\* of a handshake broadcasts an LSA.
HandleHandshake ==
    {Visit("session_db"), Guarded("session_db", BroadcastLsa)}

\* can_take_ping: each operand of && drops its guard.
CanTakePing == Visit("peer_db") \o Visit("session_db")

\* handle_ping: an unknown peer, one without a session, or the port looked up
\* again for the pong.
HandlePing == {Visit("peer_db"), CanTakePing, CanTakePing \o Visit("peer_db")}

\* can_take_pong, when none of its checks fails early.
CanTakePong == Visit("peer_db") \o Visit("session_db") \o Visit("ping_db")

\* handle_pong: one script for each check that may fail, then the RTT is
\* updated and the ping forgotten under the guard of peer_db.
HandlePong ==
    {Visit("peer_db"),
     Visit("peer_db") \o Visit("session_db"),
     CanTakePong,
     CanTakePong \o Visit("peer_db"),
     CanTakePong \o Guarded("peer_db", Visit("ping_db"))}

\* flood_lsa_except_sender.
FloodLsaExceptSender == GetNeighborAddresses

\* handle_lsa: an old LSA is dropped, a new one stored and flooded.
HandleLsa == {Visit("link_state_db"),
              Visit("link_state_db") \o FloodLsaExceptSender}

\* clean_stale_pings, and send_ping for the peers of one turn.
CleanStalePings == Visit("ping_db")
SendPing == Visit("ping_db")

\* Mutant: the peers to ping are looked up from their sessions.
PingPeersSessionFirst == {CleanStalePings \o SessionFirst \o SendPing}

\* One turn of ping_peers: without or with peers to ping.
PingPeers ==
    {CleanStalePings \o Guarded("peer_db", Guarded("session_db", <<>>)),
     CleanStalePings \o Guarded("peer_db", Guarded("session_db", <<>>))
        \o SendPing}

\* remove_stale_peers: collect under peer_db, remove under both locks.
RemoveStalePeers ==
    {Visit("peer_db"),
     Visit("peer_db")
        \o Guarded("peer_db", Guarded("session_db", BroadcastLsa))}

\* Mutant: the metrics are read with the guards taken in the other order.
UpdateMetricsSessionFirst == {SessionFirst}

\* update_metrics reads both databases under both guards.
UpdateMetrics == {Guarded("peer_db", Guarded("session_db", <<>>))}

\* cleanup_stale_lsas.
CleanupStaleLsas == {Visit("link_state_db")}

\* One turn of lsa_refresh.
LsaRefresh == {BroadcastLsa}

\* The scripts of a handler, and the task that runs it.
Script(h) ==
    CASE h = "hello"           -> HelloArm
      [] h = "handshake"       -> HandleHandshake
      [] h = "ping"            -> HandlePing
      [] h = "pong"            -> HandlePong
      [] h = "link_state"      -> HandleLsa
      [] h = "ping_peers"      -> PingPeers
      [] h = "monitor_peers"   -> RemoveStalePeers
      [] h = "collect_metrics" -> UpdateMetrics
      [] h = "lsa_refresh"     -> LsaRefresh
      [] h = "lsa_cleanup"     -> CleanupStaleLsas

TaskOf(h) ==
    IF h \in {"hello", "handshake", "ping", "pong", "link_state"}
    THEN "receive" ELSE h

-----------------------------------------------------------------------------
\* What the state looks like; a free lock has no waiters, so no wake-up of a
\* task that waits for a guard is lost.
TypeOK ==
    /\ todo \in [Task -> Seq(Op)]
    /\ owner \in [Lock -> Task \cup {"none"}]
    /\ queue \in [Lock -> Seq(Task)]
    /\ \A l \in Lock : owner[l] = "none" => queue[l] = <<>>

Init ==
    /\ todo = [t \in Task |-> <<>>]
    /\ owner = [l \in Lock |-> "none"]
    /\ queue = [l \in Lock |-> <<>>]

Queued(t, l) == \E i \in DOMAIN queue[l] : queue[l][i] = t

\* A message or a timer tick starts a handler in its task.
Start(h) ==
    /\ todo[TaskOf(h)] = <<>>
    /\ \E s \in Script(h) : todo' = [todo EXCEPT ![TaskOf(h)] = s]
    /\ UNCHANGED <<owner, queue>>

\* The next operation of t is op on lock l.
AtOp(t, op, l) ==
    todo[t] # <<>> /\ Head(todo[t]) = [do |-> op, on |-> l]

\* lock().await on a free tokio Mutex.
Acquire(t, l) ==
    /\ AtOp(t, "lock", l)
    /\ owner[l] = "none"
    /\ owner' = [owner EXCEPT ![l] = t]
    /\ todo' = [todo EXCEPT ![t] = Tail(@)]
    /\ UNCHANGED queue

\* lock().await on a held one, by whichever task: the caller joins the queue.
Wait(t, l) ==
    /\ AtOp(t, "lock", l)
    /\ owner[l] # "none"
    /\ ~Queued(t, l)
    /\ queue' = [queue EXCEPT ![l] = Append(@, t)]
    /\ UNCHANGED <<todo, owner>>

\* Mutant: a guard is dropped without a look at the queue.
ReleaseNoWakeup(t, l) ==
    /\ AtOp(t, "unlock", l)
    /\ owner' = [owner EXCEPT ![l] = "none"]
    /\ todo' = [todo EXCEPT ![t] = Tail(@)]
    /\ UNCHANGED queue

\* A guard is dropped and nobody waits.
Release(t, l) ==
    /\ AtOp(t, "unlock", l)
    /\ queue[l] = <<>>
    /\ owner' = [owner EXCEPT ![l] = "none"]
    /\ todo' = [todo EXCEPT ![t] = Tail(@)]
    /\ UNCHANGED queue

\* Mutant: all waiters are woken and the lock goes to whoever comes first.
HandOverToAny(t, l) ==
    /\ AtOp(t, "unlock", l)
    /\ queue[l] # <<>>
    /\ owner' = [owner EXCEPT ![l] = "none"]
    /\ todo' = [todo EXCEPT ![t] = Tail(@)]
    /\ queue' = [queue EXCEPT ![l] = <<>>]

\* A guard is dropped and the lock handed to the task that waited longest.
HandOver(t, l) ==
    /\ AtOp(t, "unlock", l)
    /\ queue[l] # <<>>
    /\ LET w == Head(queue[l]) IN
       /\ owner' = [owner EXCEPT ![l] = w]
       /\ todo' = [todo EXCEPT ![t] = Tail(@), ![w] = Tail(@)]
    /\ queue' = [queue EXCEPT ![l] = Tail(@)]

Step(t) ==
    \E l \in Lock :
        Acquire(t, l) \/ Wait(t, l) \/ Release(t, l) \/ HandOver(t, l)

Next == (\E h \in Calls : Start(h)) \/ (\E t \in Task : Step(t))

Spec == Init /\ [][Next]_vars

\* The runtime polls every task that can run; nothing obliges a message or a
\* tick to come.
FairSpec == Spec /\ \A t \in Task : WF_vars(Step(t))

-----------------------------------------------------------------------------
(* Properties.                                                             *)

\* The task that t waits for.
WaitsFor(t, u) == \E l \in Lock : Queued(t, l) /\ owner[l] = u

\* The order in which guards may be nested.
Rank(l) == IF l = "peer_db" THEN 1 ELSE IF l = "session_db" THEN 2 ELSE 3

\* The tasks whose handlers call broadcast_lsa with session_db in hand.
Relocking == {"receive", "monitor_peers"}

\* A task asks for a lock only while all the guards it holds rank lower, so no
\* two tasks of the node ever wait for each other and none waits with a guard
\* of link_state_db, ping_db or lsa_sequence in hand; the one exception is
\* session_db, which broadcast_lsa asks for again in two handlers.
LockOrder ==
    \A t \in Task, l, k \in Lock :
        AtOp(t, "lock", l) /\ owner[k] = t =>
           \/ Rank(k) < Rank(l)
           \/ t \in Relocking /\ k = l /\ l = "session_db"

\* In the source a circle always contains the receive loop or the monitor
\* waiting for a guard of its own, in broadcast_lsa: the order of the locks
\* rules out every other deadlock.
OnlySelfWaits ==
    \A S \in SUBSET {t \in Task : \E l \in Lock : Queued(t, l)} :
        S # {} /\ (\A t \in S : \E u \in S : WaitsFor(t, u))
           => \E t \in S \cap Relocking : WaitsFor(t, t)

\* As long as no task waits for a guard of its own, some task that is at work
\* waits for nobody: every handler drops all its guards before it returns, so
\* nobody waits for an idle task, and tasks never wait in a circle.
SomebodyRuns ==
    /\ \E t \in Task : todo[t] # <<>>
    /\ \A t \in Task : ~WaitsFor(t, t)
    => \E t \in Task : todo[t] # <<>> /\ \A l \in Lock : ~Queued(t, l)

\* Nobody keeps link_state_db or lsa_sequence locked while it waits for another
\* guard, so cleanup_stale_lsas returns even in a node whose session_db stays
\* locked for ever.
CleanupGoesOn ==
    (todo["lsa_cleanup"] # <<>>) ~> (todo["lsa_cleanup"] = <<>>)

\* Every handler returns, so every loop of the node goes on, unless some task
\* comes to wait for its own guard in broadcast_lsa.
EveryTaskReturns ==
    \A t \in {TaskOf(h) : h \in Calls} :
        (todo[t] # <<>>) ~> (todo[t] = <<>> \/ \E u \in Task : WaitsFor(u, u))

=============================================================================
