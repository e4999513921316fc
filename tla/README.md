# swarm-mesh in TLA+

TLA+ models, TLC runs and TLAPS proofs for swarm-mesh: a peer-to-peer mesh of
nodes that find each other by multicast Hellos, set up Noise sessions over UDP,
ping each other, flood link-state advertisements (LSAs) and report to a
registry. Paths below are relative to the repository (`node.rs` is
`crates/node/src/node.rs`).

## The system

| Part | State | Operations | Interaction |
|---|---|---|---|
| Discovery and sessions (`node.rs`, `noise/src/lib.rs`, `mesh/src/peer.rs`) | `peer_db`, `session_db` | `broadcast`, the Hello and Handshake arms of `receive`, `handle_hello`, `handle_handshake`, `remove_stale_peers` | Hello by multicast, three handshake datagrams by unicast; a finished handshake and a removal call `broadcast_lsa` |
| Tasks and locks (`node.rs`, `apps/node/src/main.rs`, `state.rs`) | five tokio mutexes | nine spawned tasks, six of which lock | all handlers share the databases |
| Link state (`node.rs`, `mesh/src/message.rs`) | `lsa_sequence`, `link_state_db` | `generate_lsa`, `broadcast_lsa`, `handle_lsa`, `flood_lsa_except_sender`, `lsa_refresh`, `cleanup_stale_lsas` | reads sessions and peers, sends to established neighbours |
| Ping and RTT (`node.rs`, `mesh/src/rtt.rs`) | `ping_db`, `rtt_stats` of a peer | `ping_peers`, `handle_ping`, `handle_pong`, `clean_stale_pings`, `RttStats::update` | pings established peers, every 8 s |
| Registry (`registry/src/lib.rs`, `apps/mesh-registry/src/main.rs`) | heap of node entries | `register`, `heartbeat`, `targets`, `cleanup_stale_nodes` | nodes send heartbeats every 10 s; Prometheus asks for targets |
| Metrics (`metrics.rs`) | Prometheus gauges | `update_metrics` | reads peers and sessions |
| Graph API, logging, deployment | none of their own | HTTP queries to Prometheus, set-up | |

What is hard here: six tasks that nest locks around `await`; UDP that loses,
copies and reorders a three-message handshake with no retries; decisions taken
under one lock and used under another; peers that stop at any point; LSAs whose
order is given by sequence numbers and whose age by other nodes' clocks.
`PROJECT.json` lists these hazards with the line where each one bites.

What makes each part correct:

* sessions: two ends that are both established share one run of the handshake;
  an established session survives stray datagrams; sessions come up when the
  network works, and go away when the peer does;
* tasks: no circular wait, every handler returns;
* link state: a number stands for one LSA and the highest one for the current
  neighbours, no view goes back, floods end, views converge to the sessions,
  departed nodes disappear;
* ping: a ping is on record when its pong comes and is measured once, records do
  not pile up, minimum <= average <= maximum;
* registry: a node with a fresh heartbeat is listed, one without is dropped
  within the TTL and one purge interval.

## Modules

| Module | Contents |
|---|---|
| `PeerTable` | abstract specification of `peer_db` and `session_db`: who is known, who is established |
| `Handshake` | nodes, their `peer_db` and `session_db`, the network; one action per critical section |
| `HandshakeInv` | the inductive invariants |
| `HandshakeProofs` | TLAPS proofs |
| `MCHandshake` | constants for TLC |
| `NodeTasks` | the tasks of one node as scripts of lock operations, and tokio's FIFO mutex |
| `NodeTasksProofs` | TLAPS proofs |
| `MCNodeTasks` | constants for TLC |
| `TopologyView` | abstract specification of `link_state_db`: registers that only newer LSAs replace |
| `LinkState` | LSAs on a mesh of nodes: numbering, storing, flooding, ageing |
| `LinkStateProofs` | TLAPS proofs |
| `MCLinkState` | constants for TLC |
| `PingRtt` | pings, pongs, RTT statistics and gauges of one node |
| `PingRttProofs` | TLAPS proofs |
| `ActiveTable` | abstract specification of the registry: a table of last heartbeats |
| `Registry` | the registry's heap, its handlers and cleanup task, the nodes' heartbeat tasks |
| `RegistryProofs` | TLAPS proofs |
| `MCRegistry` | constants for TLC |

### Handshake

`session[n][p]` is the entry of `p` in `n`'s `session_db`: the `NoiseState`, plus
the ephemeral keys its Noise state has mixed (`e` of the initiator, `re` of the
responder, 0 for none). Each node numbers the Noise states it builds, up to
`MaxEph`; a pair `<<e, re>>` names a run of the handshake. The Noise library is
external: `ReadMessage` says that a message is accepted only if it is the one
the XXpsk3 pattern expects next and was written under the keys mixed so far.
`peer[n][p]` keeps `last_seen` as fresh or stale (over 60 s old). `rx[n]` is the
point inside the Hello arm where the loop has released `session_db` and not yet
taken the next lock; `mon[n]` is the local `stale_peers` between the two
critical sections of `remove_stale_peers`. The lock is otherwise held from the
first to the last line of a handler, so each handler of a handshake datagram is
one step; the datagram it returns is sent in the same step, which is sound as
nothing reads the network before it is sent. Addresses, ports, wording and
encodings are left out.

`handle_handshake` (lines 867 and 894) and `remove_stale_peers` (line 1014) call
`broadcast_lsa` while they hold `session_db`. `broadcast_lsa` locks `session_db`
(line 1288), tokio's mutex is not reentrant, and so the call never returns.
`guard[n]` names the task that keeps the lock. With `GuardDropped = FALSE` the
model is the source as it stands. With `TRUE` it is the source with the guards
dropped before those three calls, everything else unchanged; the protocol behind
the self-deadlock can only be looked at this way.

A failed `read_message` (lines 819-852) returns after `mem::replace` has put
`Transitioning` into the session. No later datagram leaves that state:
`UnexpectedState` puts back what it finds. For `Transport` this is as it should
be, and `TransportUntilRemoved` says that only `remove_stale_peers` ends an
established session. `Transitioning`, which `peer.rs:104` calls "temporary", stays in
the same way, and the run `HS_Stuck` reports that: one copy of message 1 is enough.

`PeerTable` is what the other parts of a node see of this: peers become known and
sessions established one by one, in either order, and what goes is a set of known
peers, from both databases at once. `PeerTableSpec` says that `Handshake`
implements it, with or without the guard. The steps `Hello`, `Establish` and
`RemoveStalePeers` by which `PingRtt` lets peers come and go are those of
`PeerTable` for one node. `LinkState` sees the pair of tables through `link`
(`none`: not established; `session`: established only; `neighbor`: both), and its
`Establish`, `Greet` and `Remove` are what is left of them: `Meet` of a peer
without a session and `Remove` of one change no link.

`Faults` selects what the environment does: lose and duplicate handshake
datagrams (delay and reordering are always possible; Hellos are sent again and
again, so a lost one is a late one), keep Hellos away for 60 s, stop a process.
A restarted process draws a new random id and is a new node.

### NodeTasks

`todo[t]` is what is left of the lock operations of the handler that task `t`
runs. A handler is a set of scripts, one per early return, built from
`Guarded(l, body)`, so nesting is visible; called functions are scripts within
scripts. Which script runs is chosen freely: data is not modelled here. Locks are
tokio mutexes (external): a free lock is taken, a held one queues the caller,
first come first served, and a dropped guard goes to the first in the queue.
`send_ping` for several peers is one visit of `ping_db`: the visits do not nest.

The module is the source as it stands, self-deadlock included, and its
properties say how far the damage goes: every circle contains a task that waits
for its own guard in `broadcast_lsa` (`OnlySelfWaits`), since everything else
nests `peer_db`, `session_db` and the rest in this order (`LockOrder`); until then
some task at work waits for nobody (`SomebodyRuns`) and every handler returns
(`EveryTaskReturns`), and afterwards the LSA cleanup still
does (`CleanupGoesOn`).

### LinkState

`db[m][o]` is the entry of `o` in `m`'s `link_state_db`, `sequence[o]` its
`lsa_sequence`, `job[n][t]` the point between two locks where one of the three
tasks that broadcast or flood stands: called, numbered, sending. `link[n][p]` is
what LSA code sees of `n`'s databases: a `Transport` session (then `p` is listed
as a neighbour) and, with it, a `peer_db` entry (then LSAs are sent to `p`).
Sessions are made and removed freely, one-sided ones too; how they come about is
`Handshake`'s subject. As `NodeTasks` and `Handshake` show, the source stops in
`broadcast_lsa`; `LinkState` is about what the LSA code does with the guards
dropped before that call.

* A datagram carries the address of the socket it was sent from. `peer_db` holds
  the source of the Hello, i.e. the multicast socket; `Send` compares the two as
  `flood_lsa_except_sender` does.
* Storing the own LSA and sending it are one step, as nothing reads the own
  entry in between (`handle_lsa` is not called for own LSAs, and the cleanup does
  not drop an LSA made just now). For the same reason the tick of `lsa_refresh`
  and the number it takes are one step. Cleanup turns that drop nothing are left
  out.
* Faults (`Event`): a session made or removed, a datagram lost, copied, or late
  by a period, a node stopped. They happen before period `Calm`, at most
  `MaxEvents` in all. A stopped process that starts again draws a new id, and is
  another node.
* LSAs of two originators never meet in a comparison or a map entry, so the run
  follows those of `Origin`.
* Time is counted in refresh periods (60 s). `Skew` puts system clocks ahead of
  each other; `saturating_sub` makes LSAs from the future young (`IsStale`).

`TopologyView` is what a reader of `link_state_db` may rely on: a register per
viewer and originator that is replaced only by an LSA with a higher number,
handed out by its originator, and emptied only when what it holds is too old by
the viewer's clock. `ViewSpec` says that `LinkState` implements it. The own entry
of a node is left out: `broadcast_lsa` replaces it without a look, and two tasks
may store theirs in the order opposite to their numbers.

### PingRtt

One node: `known` and `established` are the keys of `peer_db` and the `Transport`
sessions, `rtt[p]` the `rtt_stats` of `p` (`count` 0 is `None`), `ping_db` the
records with their instants, `collecting`, `unrecorded` and `unsent` the place of
the ping loop in its turn, `job` the place of the receive loop in a ping or pong,
one step for each guard that `can_take_ping`, `can_take_pong`, `handle_ping` and
`handle_pong` take. Again the guards are dropped before `broadcast_lsa`; before
that no pair is established, and there is nobody to ping.

* `sent` is the set of pings sent. The pong of any of them may be received at any
  later time, any number of times or never. Pongs that answer no ping are left
  out.
* `Updated` rounds the average to the nearest unit, as `Duration::from_secs_f64`
  does to the nanosecond, and leaves the choice when two are equally near. The
  error of the `f64` sum itself is far below a nanosecond for round trips of
  seconds and is left out.
* `update_metrics` is one step under both guards. Gauges of peers that have gone
  keep their values, as in the code.
* `Lag` bounds how late a turn of the ping loop begins or ends; a send takes 5 s at
  most (`send_message`), and `LagAssumption` asks for `Interval + Lag <= Timeout`,
  i.e. no delay above 22 s. It matters: `clean_stale_pings` keeps what is *older*
  than the timeout, so a turn that came later would keep records for ever.
* `sampled` is a history variable: the pings whose pong was measured.

### Registry

`nodes` is the `BinaryHeap` as a set of entries `[id, seen]`; `OnTop` is what
`peek` may return under the reversed order of `NodeEntry`, and `Latest` what
`Registry::nodes()` returns. `purge` is a loop of `Pop` steps between which the
clock may move, as `expired` reads it in every round. `cleaner` holds the lock
from the first count of `cleanup_stale_nodes` to the last; the two POST handlers
do the same thing under the lock in one step. A node posts a heartbeat when its
interval fires and its previous POST has returned. It treats an answer and an
error alike (both are logged), so `AnswerHeartbeat` is enabled whether or not the
request was handled, and a request may be handled after its sender gave up or
stopped. Missed interval ticks are made up for at once, as tokio's default does.
`missed` is a history variable: heartbeats posted since the last one handled.
Address and port of an entry are fixed for a process and left out.

`Lag` and `Hang` bound how far the cleanup task and a heartbeat task fall behind
their timers. The HTTP client has no timeout, so `Hang` is an assumption on the
registry's answers, not something the code enforces. `ActiveTable` is what a
client of the registry may rely on; `TableSpec` says that `Registry` implements
it with `clock` as `now` and `active` as `Latest`. `RegisterNode` has no caller
in the repository: nodes use `/heartbeat` only. (A comment at
`apps/node/src/main.rs:153` says 30 seconds; the code beats every 10.)

## Runs

Each run is `tlc -config <name>.cfg <module>`.

| Run | Instance | Shows |
|---|---|---|
| `HS_Source` | source, 2 nodes, 2 keys each, all faults | `NeverMutual`: no pair is ever established at both ends; `PeerHasSession`: the race of a Hello with a removal does not leave an orphan (the source is saved by its own deadlock, as the mutant that frees the locks shows) |
| `HS_Agreement` | guards dropped, 2 nodes, 2 keys each, copies and silence | `TypeOK`, `SessionAgreement`, its inductive invariant `AgreementInv`, `TransportUntilRemoved`, and `PeerTableSpec`: the databases implement `PeerTable` |
| `HS_Live` | guards dropped, 2 nodes, crashes | `EstablishedEventually`, `DeadPeerRemoved` |
| `NT_Source` | source, seven handlers: every task that nests guards, and the LSA cleanup | `TypeOK`, `OnlySelfWaits`, `LockOrder`, `SomebodyRuns`, `CleanupGoesOn`, `EveryTaskReturns` |
| `LS_Flood` | a line of 3 nodes, LSAs of one end followed, 3 events, clocks 1, 2, 0 periods ahead, `StaleAge` 1, 3 periods | `TypeOK`, `UniqueLsa`, `SequenceOrdersLists`, `Converges`, `ViewSpec`, `FloodsEnd`, `DepartedForgotten` |
| `PR_Rtt` | 1 peer, `Interval` 2, `Timeout` 3, `Lag` 1, 8 instants | `TypeOK`, `RttBounds`, `SampledOnce`, `PingDbBounded`, `OnRecord`, `HandledWhenEstablished` |
| `RG_Purge` | 2 nodes, `Ttl` 2, `Period` 2, `Beat` 1, `Lag` 1, `Hang` 0, 6 ticks | `TypeOK`, `NothingLingers`, `PurgeOnlyShrinks`, `DroppedAfterMisses`, and `TableSpec`: the heap implements `ActiveTable` |

Five runs end in a violation; each checks one sentence of the repository's
documentation against the source:

| Run | What the code does |
|---|---|
| `HS_NeverEstablished` | the initiator finishes, waits for its own guard and never sends message 3 |
| `HS_Removal` | a peer heard of between collection and removal is removed |
| `HS_Leak` | a session whose peer sent one Hello only has no `peer_db` entry and is never removed |
| `HS_Stuck` | a session that was put into `Transitioning` stays there for ever after a second copy of message 1 |
| `LS_SentBack` | with the guards dropped, a flooded LSA is sent back to its sender: the address compared is that of another socket. `FloodsEnd` shows that this costs datagrams but no loop |

One more difference has no run of its own: `node.rs:925` says "Removes pings older
than 30 seconds", while `retain` in `clean_stale_pings` (line 947) keeps the old
records and drops the young ones. `PingRtt` models what the code does, so a pong
that comes after the next turn is ignored there too.

`EstablishedEventually` is stated without losses because the code has no retry:
after one lost handshake datagram both ends stay in the unfinished handshake, as
every further Hello finds a session, refreshes `peer_db` and keeps the peer from
becoming stale.

Bounds. Two nodes make every pair of roles, and the sessions of different pairs
share nothing but the lock and the key counter. Two keys per node let both ends
start over while datagrams of the first run are still in flight, which is the
case `SessionAgreement` is about; the proofs need no bound. In the liveness runs
no behaviour reaches the key bound except by crashes and removals that the
properties allow for. `NodeTasks` has no numeric bound. Its run leaves out the
Hello and Ping arms, which do not nest guards, and `lsa_refresh`, whose guards are
those of the broadcast in the other two callers. Deadlock checking is off only
where processes may all stop (`Crash`) or time ends (`MaxTime`, `MaxClock`,
`MaxNow`); in `NT_Source` it is on, and a handler that waited with `link_state_db`
in hand would show as a deadlock.

In `LS_Flood` three events are enough for a node to be heard of, removed and
heard of again while its first LSA is still in flight, or for a session and the
loss of the LSA it triggers; a line of three nodes has one that is reached by
flooding only, and the link of the other two may be there from the start, at
either end or at both. With these clocks one node takes LSAs for stale a
period early and the other never until much later; three periods are more than
`StaleAge` and the skew together, so that every entry can age. `Converges`,
`FloodsEnd` and `DepartedForgotten` are about the time from `Calm` on, and `MaxClock`
leaves two refreshes to it. `Converges` is stated per period, since there is no more
to say: a node whose clock is ahead may drop the LSA of a live node at the start of
every period and learn it again from the refresh (node 2 does in this run), so that
views are right when the flood is over and not at all times. `ClocksAgree` names the
skew up to which that holds; with more, the LSA is stale on arrival. The proofs
need none of these bounds.

In `PR_Rtt` 8 instants hold three turns, so that a pong of the first may come in
the third. Peers share nothing but the locks and the place of the two loops, and
the proofs are for any number of them. `Timeout` is less than two intervals; in
the source it is nearly four, which changes no step, as the records of a turn are
all dropped by the next.

In `RG_Purge` six ticks are more than the `Ttl + Period + Lag` after which an
entry must be gone, so several purges see entries of both nodes expire and be
renewed. The two nodes are interchangeable (`SYMMETRY`), and all its properties
are safety properties. The ratios of the source (60 s, 30 s, 10 s) are covered by
the proofs, which hold for every period.

Fairness. `Handshake`: timers fire and runnable tasks are polled, so the Hello
and monitor tasks and the rest of a Hello are weakly fair. `select!` picks
between its ready sockets at random, and a socket hands out datagrams in order,
so one that is there again and again is received: strong fairness of receiving.
Faults are never fair; that 60 s pass for a dead peer is. `NodeTasks`: a task
that can take a step does, and nothing obliges a message to come. `LinkState`:
timers, runnable tasks, datagrams that are there and the clock are weakly fair
as a whole (`Work`): there is finitely much to do in a period, so something is
done until all is. That a datagram arrives within its period holds from `Calm`
on only; faults and new sessions are never fair.

## Proofs

`HandshakeProofs` proves, for every set of node ids, every `MaxEph`, both values
of `GuardDropped` and every set of faults (the assumptions are the typing of
these constants):

* `TypeCorrect`: `Spec => []TypeOK`;
* `SourceNeverMutual`: `Spec => []NeverMutual`;
* `TransportIsKept`: `Spec => TransportUntilRemoved`;
* `AgreementInvHolds`: `Spec => []AgreementInv`, and `Agreement`:
  `Spec => []SessionAgreement`;
* `SourcePeersHaveSessions`: `Spec => []PeerHasSession` for `~GuardDropped`, i.e. for
  the source;
* `ImplementsPeerTable`: `Spec => PeerTableSpec`.

`BasicInv` is inductive by itself: types, the state of a receive loop inside a
Hello, which end of a pair writes which message and may be in which state, and
keys no newer than the last one made. Given it, `StepCases` reduces every step to
five: something is forgotten, a run is started, answered, finished by the
initiator, finished by the responder.

`SessionAgreement` is not inductive: from two matching sessions and an arbitrary
datagram in flight the next step could break it. `AgreementInv` adds, per pair,
`NewestKeys` (an end that has a key in its session has the newest key of its own
anywhere: at the other end or in flight) and `RunsOrdered` (the initiator
finishes one run per key, has not finished the one it is still working on, and
runs it started later were answered later). If both ends are established, in
runs `<<e, re>>` and `<<e2, re2>>`, `NewestKeys` gives `e2 <= e` and `re <= re2`;
`e2 < e` would give `re2 < re` by `RunsOrdered`, so `e = e2`, and then `re = re2`.

`NeverMutual` rests on `StuckInv`: without message 3 in flight only an initiator
can finish, and finishing stops its receive loop before it sends message 3.

`PeerHasSession` rests on `PeerInv`: while `session_db` can be locked, a receive loop
that has seen a session and is about to refresh `peer_db` still has it, since only
`remove_stale_peers` takes sessions away and it keeps the lock. This is the one
theorem about the source that is false with the guard dropped: there the refresh
may bring back the entry of a peer whose session has just been removed, so a
repair of the self-deadlock has to look at the session again.

`PeerTableSpec` needs `CollectedInv`, that what the monitor has collected is still
in `peer_db` (nobody else removes entries), so that a removal takes known peers
only; and, from `BasicInv`, that no node has a session with itself. A datagram
changes one session and never a `Transport` one, so it is `Establish` or changes
nothing that the table shows.

`NodeTasksProofs` proves, for every set `Calls` of handlers that messages and
timers may trigger, so for any mix of them:

* `TypeCorrect`: `Spec => []TypeOK`;
* `GuardsNestInOrder`: `Spec => []LockOrder`;
* `DeadlockIsSelfWait`: `Spec => []OnlySelfWaits`;
* `NodeNeverStalls`: `Spec => []SomebodyRuns`.

`LockOrder` speaks of the next operation of a task; what makes it inductive is that
all the operations a task still has to do keep to the order. An induction over
scripts is out of the prover's reach, so `Disciplined(s, H, t)` is stated
coinductively: there is a set of pairs of a script and the guards in hand that
holds `<<s, H>>` and that every operation leads back into. `Unfold` and `Fold` take one
operation off a disciplined script and put one on. `Respects` (a piece comes back
to the guards it started with) and `Stops` (a piece reaches a lock it holds itself)
carry this over to `Guarded`, `Visit` and concatenation, and `ScriptsRespect` goes
through the handlers as `NodeTasks` puts them together: `broadcast_lsa` respects the
order with no guard in hand, and with `session_db` in hand it stops at
`get_established_neighbors`, before it gets to `peer_db` against the order.
`TaskInv` joins this to the types and to `QueueInv`: who queues for a lock is about
to take it, and queues once. For `OnlySelfWaits`, follow a circle without a
self-wait from lock to owner: each lock ranks above the one before (`RankClimbs`),
and there are three ranks only. For `SomebodyRuns`, the owner of a lock has not
returned, as a disciplined script ends with no guard in hand.

`RegistryProofs` proves, for every set of ids and every `Ttl`, `Period`, `Beat` > 0,
`Lag`, `Hang` and `MaxTime`:

* `RegistryTypeCorrect`: `Spec => []TypeOK`;
* `PurgeIsComplete`: `Spec => []NothingLingers`. `PurgeInv` adds that the next purge
  is at most a period away, that the clock is at most `Lag` past it, and that it
  comes before `seen + Ttl + Period` of every entry: a purge that ends leaves
  nothing expired, because what it saw last was the oldest entry;
* `CountsNeverUnderflow`: `Spec => []PurgeOnlyShrinks`;
* `HeapIsTable`: `Spec => TableSpec`. `LatestAfterAdd` and `LatestAfterPop` say what a
  push and a pop do to `Latest`: a push replaces the entry of its node, a pop
  removes the top from `Latest` or, if a newer entry of that node exists, changes
  nothing;
* `DropNeedsMisses`: `Spec => DroppedAfterMisses`, from `BeatInv`: the next heartbeat
  of a running node follows its latest entry by at most `missed + 1` periods.

`LinkStateProofs` proves, for every set of nodes, links and originators, every
skew of their clocks, every `StaleAge` and every bound on events and time:

* `LinkStateTypeCorrect`: `Spec => []TypeOK`;
* `NumbersAreUnique`: `Spec => []UniqueLsa`. Not inductive by itself: a number is
  taken one step before the LSA is made. `NumberInv` says that only numbers taken
  are in use, `PendingInv` that one which has no LSA yet belongs to one task and
  to no LSA anywhere;
* `LastNumberIsCurrent`: `Spec => []SequenceOrdersLists`, from `OrderInv`: the LSA
  with the last number is current unless a task has been told to broadcast and
  has not taken its number. Every change of the neighbours leaves such a task
  behind, the number is taken after the change and the list is read after the
  number, so a list older than a change always has a smaller number;
* `RefreshRepairsViews`: `Spec => []Converges`, from `SpreadInv`. From `Calm` on only
  the refresh task broadcasts (`CalmInv`), so the refresh of the period has the last
  number, its LSA the time of this period, and its originator has it once it is sent
  (`RefreshInv`). `FloodInv` follows it through the mesh: if a node has the last LSA,
  each neighbour has it, or a copy is on its way to it, or the node is about to
  send it. It needs `UnicastInv`, that the address comparison skips nobody; that
  the last LSA is never refused, except by a node that has it; and, for the cleanup,
  `ClocksAgree`. When the floods are over the nodes that have it are closed under
  links, and `OrderInv` says what it lists;
* `ImplementsTopologyView`: `Spec => ViewSpec`. An LSA with an equal number and a
  later time stamp, the third case of the freshness check, does not exist by
  `UniqueLsa`; a first LSA has a number above 0 by `NumberInv`; the cleanup maps to
  `Forgets` entry by entry.

`PingRttProofs` proves, for every finite set of peers and every `Interval` > 0,
`Timeout`, `Lag` with `Interval + Lag <= Timeout` and `MaxNow`:

* `PingTypeCorrect`: `Spec => []TypeOK`;
* `AverageWithinBounds`: `Spec => []RttBounds`, from the lemma
  `UpdatedWithinBounds` on `RttStats::update`: rounding to nearest cannot leave an
  interval whose ends are whole numbers;
* `NoPingMeasuredTwice`: `Spec => []SampledOnce`, from `SampleInv`: what is on record,
  or past the check of `ping_db`, has not been measured, as the receive loop alone
  takes measurements and removes the record with each;
* `PingsStayOnRecord`: `Spec => []OnRecord`, from `SentInv`: recorded, sent, measured
  in this order;
* `PingDbStaysBounded`: `Spec => []PingDbBounded`. `TurnInv` says more: with `retain`
  the way it is, all records are of the current turn, at most one for each peer.
  It needs `TimeInv`, that no record reaches the timeout before the next turn;
* `EstablishedWhenHandled`: `Spec => HandledWhenEstablished`, from `CheckedInv`: after
  the check of `session_db` a peer that is still in `peer_db` still has its session,
  because only the receive loop adds entries and the monitor removes both.

Only model-checked: liveness (`EstablishedEventually`, `DeadPeerRemoved`,
`CleanupGoesOn`, `EveryTaskReturns`, `FloodsEnd`, `DepartedForgotten`), which is out of the prover's reach. Every invariant, action
property and refinement of the passing runs is proved.

## Not modelled, and the plan

Sessions are not composed with pings and link state into one module. `PeerTable` is
the interface: `Handshake` is proved to implement it, and `PingRtt` and `LinkState`
allow its steps at any time and in any order (up to their bounds), so they cover
what a composition can do. In the source a node broadcasts and pings nothing after
its first session, as the locks of `broadcast_lsa` in `Handshake` and `NodeTasks` show.

Left out for good: the graph handlers of the mesh-registry (HTTP queries to
Prometheus and the JSON they are reshaped into), registering and rendering
Prometheus gauges, socket set-up and the detection of the local address, logging,
deployment files, the bincode encoding and the cryptography inside the Noise
library. None of them keeps state that another part reads.
