------------------------------ MODULE Registry -------------------------------
(***************************************************************************)
(* The mesh-registry service and the heartbeats that feed it: the          *)
(* Registry store (crates/registry/src/lib.rs), the handlers and the       *)
(* cleanup task of the service (apps/mesh-registry/src/main.rs) and the    *)
(* heartbeat task of a node (apps/node/src/main.rs).                       *)
(*                                                                         *)
(* Time is counted in ticks; Instants within one tick are equal.  Requests *)
(* are delayed, lost, and handled after their sender has given up on them. *)
(* One lock guards the store: the cleanup task holds it from its first     *)
(* count to its last, a handler for one step.                              *)
(***************************************************************************)
EXTENDS Naturals, FiniteSets

CONSTANTS
    Id,       \* nodes that report to this registry
    Ttl,      \* 60 s
    Period,   \* of the cleanup task: 30 s
    Beat,     \* of the heartbeat tasks: 10 s
    Lag,      \* bound: how late the cleanup task may finish
    Hang,     \* bound: how late a heartbeat task may be for its next POST
    MaxTime   \* bound: ticks

ASSUME TtlAssumption == Ttl \in Nat \ {0}
ASSUME PeriodAssumption == Period \in Nat \ {0}
ASSUME BeatAssumption == Beat \in Nat \ {0}
ASSUME LagAssumption == Lag \in Nat
ASSUME HangAssumption == Hang \in Nat
ASSUME MaxTimeAssumption == MaxTime \in Nat

VARIABLES
    now,       \* Instant::now()
    nodes,     \* the heap
    cleaner,   \* the cleanup task: idle, or purging with its before_count
    purgeAt,   \* the tick its interval waits for
    up,        \* up[n]: the process of n runs
    nextBeat,  \* nextBeat[n]: the tick the interval of n's heartbeat waits for
    waiting,   \* waiting[n]: n's heartbeat task awaits the answer of a POST
    requests,  \* heartbeats on their way to the service
    missed     \* missed[n]: heartbeats of n posted since the last one handled

vars == <<now, nodes, cleaner, purgeAt, up, nextBeat, waiting, requests, missed>>

NodeEntry == [id : Id, seen : 0 .. now]

Cleaner == [pc : {"idle", "purging"}, before : Nat]

\* Types; no entry of the heap is from the future.
TypeOK ==
    /\ now \in Nat
    /\ nodes \subseteq NodeEntry /\ IsFiniteSet(nodes)
    /\ cleaner \in Cleaner
    /\ purgeAt \in Nat
    /\ up \in [Id -> BOOLEAN]
    /\ nextBeat \in [Id -> Nat]
    /\ waiting \in [Id -> BOOLEAN]
    /\ requests \subseteq Id
    /\ missed \in [Id -> Nat]

\* Both intervals fire at once the first time.
Init ==
    /\ now = 0
    /\ nodes = {}
    /\ cleaner = [pc |-> "idle", before |-> 0]
    /\ purgeAt = 0
    /\ up = [n \in Id |-> TRUE]
    /\ nextBeat = [n \in Id |-> 0]
    /\ waiting = [n \in Id |-> FALSE]
    /\ requests = {}
    /\ missed = [n \in Id |-> 0]

-----------------------------------------------------------------------------
(* The store.                                                              *)

\* Mutant: nodes() keeps the first entry it meets, here the oldest.
LatestOldest ==
    {e \in nodes : \A f \in nodes : f.id = e.id => e.seen <= f.seen}

\* Registry::nodes(): the most recent entry of each node.
Latest == {e \in nodes : \A f \in nodes : f.id = e.id => f.seen <= e.seen}

Listed(n) == \E e \in Latest : e.id = n

\* Mutant: the order of entries is not reversed, so the heap yields the newest.
OnTopNewest(e) == e \in nodes /\ \A f \in nodes : f.seen <= e.seen

\* peek(): NodeEntry's order is reversed, so the oldest entry is on top.
OnTop(e) == e \in nodes /\ \A f \in nodes : e.seen <= f.seen

\* Mutant: an entry is dropped one tick early.
ExpiredEarly(e) == e.seen + Ttl <= now + 1

Expired(e) == e.seen + Ttl <= now

\* Mutant: the entry carries the time at which it will expire.
AddExpiry(n) ==
    /\ cleaner.pc = "idle"
    /\ nodes' = nodes \cup {[id |-> n, seen |-> now + Ttl]}
    /\ missed' = [missed EXCEPT ![n] = 0]

\* Mutant: the handler does not lock the store.
AddUnlocked(n) ==
    /\ nodes' = nodes \cup {[id |-> n, seen |-> now]}
    /\ missed' = [missed EXCEPT ![n] = 0]

\* What both POST handlers do under the lock once the id has been parsed; a
\* request whose id is not a number changes nothing.
Add(n) ==
    /\ cleaner.pc = "idle"
    /\ nodes' = nodes \cup {[id |-> n, seen |-> now]}
    /\ missed' = [missed EXCEPT ![n] = 0]

-----------------------------------------------------------------------------
(* The service.                                                            *)

RegisterNode(n) ==
    /\ Add(n)
    /\ UNCHANGED <<now, cleaner, purgeAt, up, nextBeat, waiting, requests>>

HandleHeartbeat(n) ==
    /\ n \in requests
    /\ Add(n)
    /\ requests' = requests \ {n}
    /\ UNCHANGED <<now, cleaner, purgeAt, up, nextBeat, waiting>>

\* cleanup_stale_nodes: the interval fires, the store is locked and counted.
StartPurge ==
    /\ cleaner.pc = "idle"
    /\ purgeAt <= now
    /\ cleaner' = [pc |-> "purging", before |-> Cardinality(Latest)]
    /\ UNCHANGED <<now, nodes, purgeAt, up, nextBeat, waiting, requests, missed>>

\* One round of purge()'s loop; expired() reads the clock in every round.
Pop ==
    /\ cleaner.pc = "purging"
    /\ \E e \in nodes : OnTop(e) /\ Expired(e) /\ nodes' = nodes \ {e}
    /\ UNCHANGED <<now, cleaner, purgeAt, up, nextBeat, waiting, requests, missed>>

\* The top of the heap is not expired, or there is none: the loop ends, the
\* store is counted again and unlocked.
FinishPurge ==
    /\ cleaner.pc = "purging"
    /\ nodes = {} \/ \E e \in nodes : OnTop(e) /\ ~Expired(e)
    /\ cleaner' = [pc |-> "idle", before |-> 0]
    /\ purgeAt' = purgeAt + Period
    /\ UNCHANGED <<now, nodes, up, nextBeat, waiting, requests, missed>>

-----------------------------------------------------------------------------
(* The heartbeat task of a node.                                           *)

\* The interval fires: POST /heartbeat.
PostHeartbeat(n) ==
    /\ up[n] /\ ~waiting[n]
    /\ nextBeat[n] <= now
    /\ nextBeat' = [nextBeat EXCEPT ![n] = @ + Beat]
    /\ waiting' = [waiting EXCEPT ![n] = TRUE]
    /\ requests' = requests \cup {n}
    /\ missed' = [missed EXCEPT ![n] = @ + 1]
    /\ UNCHANGED <<now, nodes, cleaner, purgeAt, up>>

\* The answer, whatever it says, or an error: it is logged.
AnswerHeartbeat(n) ==
    /\ up[n] /\ waiting[n]
    /\ waiting' = [waiting EXCEPT ![n] = FALSE]
    /\ UNCHANGED <<now, nodes, cleaner, purgeAt, up, nextBeat, requests, missed>>

-----------------------------------------------------------------------------
(* The environment.                                                        *)

LoseRequest(n) ==
    /\ n \in requests
    /\ requests' = requests \ {n}
    /\ UNCHANGED <<now, nodes, cleaner, purgeAt, up, nextBeat, waiting, missed>>

\* The process of n ends, its heartbeat task with it.
Crash(n) ==
    /\ up[n]
    /\ up' = [up EXCEPT ![n] = FALSE]
    /\ nextBeat' = [nextBeat EXCEPT ![n] = 0]
    /\ waiting' = [waiting EXCEPT ![n] = FALSE]
    /\ missed' = [missed EXCEPT ![n] = 0]
    /\ UNCHANGED <<now, nodes, cleaner, purgeAt, requests>>

\* Time passes, but no task falls further behind its timer than its bound.
Tick ==
    /\ now < MaxTime
    /\ now < purgeAt + Lag
    /\ \A n \in Id : up[n] => now < nextBeat[n] + Hang
    /\ now' = now + 1
    /\ UNCHANGED <<nodes, cleaner, purgeAt, up, nextBeat, waiting, requests, missed>>

Next ==
    \/ \E n \in Id :
          \/ RegisterNode(n)
          \/ HandleHeartbeat(n)
          \/ PostHeartbeat(n)
          \/ AnswerHeartbeat(n)
          \/ LoseRequest(n)
          \/ Crash(n)
    \/ StartPurge
    \/ Pop
    \/ FinishPurge
    \/ Tick

Spec == Init /\ [][Next]_vars

-----------------------------------------------------------------------------
(* Properties.                                                             *)

\* Nothing stays in the heap, and so in /prometheus/targets, for longer than
\* the TTL and one period of the cleanup task: purge() leaves nothing expired
\* behind although it only ever looks at the top of the heap.
NothingLingers == \A e \in nodes : now < e.seen + Ttl + Period + Lag

\* "before_count - after_count" does not underflow: no node can appear
\* between the two counts of cleanup_stale_nodes.
PurgeOnlyShrinks ==
    cleaner.pc = "purging" => Cardinality(Latest) <= cleaner.before

\* A running node is only dropped when so many of its heartbeats in a row were
\* not handled that, with the one before them, they span the TTL: five with
\* the periods of the source, not six, as a heartbeat may be due at the very
\* tick at which the entry expires.
DroppedAfterMisses ==
    [][\A n \in Id :
          up[n] /\ Listed(n) /\ ~Listed(n)' =>
              Ttl <= (missed[n] + 1) * Beat + Hang]_vars

\* To its clients the heap with its many entries per node is the table of last
\* heartbeats: popping an outdated entry changes nothing, popping the last entry
\* of a node drops that node.
Table == INSTANCE ActiveTable WITH clock <- now, active <- Latest

TableSpec == Table!Spec

=============================================================================
