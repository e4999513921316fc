--------------------------- MODULE RegistryProofs ----------------------------
(* What TLAPS proves of Registry, for every set of nodes and every period. *)
EXTENDS Registry, FiniteSetTheorems, TLAPS

USE TtlAssumption, PeriodAssumption, BeatAssumption, LagAssumption,
    HangAssumption, MaxTimeAssumption

Stamp(n) == [id |-> n, seen |-> now]

-----------------------------------------------------------------------------
(* Types.                                                                  *)

LEMMA TypeInit == Init => TypeOK
  BY FS_EmptySet DEF Init, TypeOK, NodeEntry, Cleaner

\* nodes() returns finitely many entries.
LEMMA CountIsNat ==
    ASSUME TypeOK
    PROVE  IsFiniteSet(Latest) /\ Cardinality(Latest) \in Nat
<1>1. IsFiniteSet(nodes) /\ Latest \subseteq nodes
  BY DEF TypeOK, Latest
<1>2. IsFiniteSet(Latest)
  BY <1>1, FS_Subset
<1>3. QED
  BY <1>2, FS_CardinalityType

LEMMA TypeNext == TypeOK /\ [Next]_vars => TypeOK'
<1> SUFFICES ASSUME TypeOK, [Next]_vars PROVE TypeOK'
  OBVIOUS
<1> USE DEF TypeOK, NodeEntry, Cleaner
<1>1. ASSUME NEW n \in Id, RegisterNode(n) \/ HandleHeartbeat(n) PROVE TypeOK'
  <2>1. IsFiniteSet(nodes \cup {[id |-> n, seen |-> now]})
    BY FS_AddElement
  <2>2. IsFiniteSet(nodes')
    BY <1>1, <2>1 DEF RegisterNode, HandleHeartbeat, Add
  <2>3. QED
    BY <1>1, <2>2 DEF RegisterNode, HandleHeartbeat, Add
<1>2. ASSUME NEW n \in Id, PostHeartbeat(n) PROVE TypeOK'
  BY <1>2 DEF PostHeartbeat
<1>3. ASSUME NEW n \in Id, AnswerHeartbeat(n) PROVE TypeOK'
  BY <1>3 DEF AnswerHeartbeat
<1>4. ASSUME NEW n \in Id, LoseRequest(n) PROVE TypeOK'
  BY <1>4 DEF LoseRequest
<1>5. ASSUME NEW n \in Id, Crash(n) PROVE TypeOK'
  BY <1>5 DEF Crash
<1>6. CASE StartPurge
  BY <1>6, CountIsNat DEF StartPurge
<1>7. CASE Pop
  BY <1>7, FS_RemoveElement DEF Pop
<1>8. CASE FinishPurge
  BY <1>8 DEF FinishPurge
<1>9. CASE Tick
  BY <1>9 DEF Tick
<1>10. CASE UNCHANGED vars
  BY <1>10 DEF vars
<1>11. QED
  BY <1>1, <1>2, <1>3, <1>4, <1>5, <1>6, <1>7, <1>8, <1>9, <1>10 DEF Next

\* The state of the service and of the heartbeat tasks has its type, and no
\* entry of the heap is from the future.
THEOREM RegistryTypeCorrect == Spec => []TypeOK
  BY TypeInit, TypeNext, PTL DEF Spec

-----------------------------------------------------------------------------
(* What a step does to the heap.                                           *)

\* A step adds an entry with the current time, pops the top, or leaves the heap.
LEMMA HeapSteps ==
    ASSUME [Next]_vars
    PROVE  \/ nodes' = nodes
           \/ \E n \in Id : nodes' = nodes \cup {Stamp(n)} /\ Add(n) /\ now' = now
           \/ \E e \in nodes : OnTop(e) /\ Expired(e) /\ nodes' = nodes \ {e} /\ Pop
<1>1. CASE \E n \in Id : RegisterNode(n) \/ HandleHeartbeat(n)
  BY <1>1 DEF RegisterNode, HandleHeartbeat, Add, Stamp
<1>2. CASE Pop
  BY <1>2 DEF Pop
<1>3. CASE \/ \E n \in Id : PostHeartbeat(n) \/ AnswerHeartbeat(n)
                            \/ LoseRequest(n) \/ Crash(n)
           \/ StartPurge \/ FinishPurge \/ Tick \/ UNCHANGED vars
  BY <1>3 DEF PostHeartbeat, AnswerHeartbeat, LoseRequest, Crash, StartPurge,
              FinishPurge, Tick, vars
<1>4. QED
  BY <1>1, <1>2, <1>3 DEF Next

\* A new entry is its node's latest.
LEMMA LatestAfterAdd ==
    ASSUME TypeOK, NEW n \in Id, nodes' = nodes \cup {Stamp(n)}
    PROVE  Latest' = {e \in Latest : e.id # n} \cup {Stamp(n)}
<1>1. Stamp(n).id = n /\ Stamp(n).seen = now
  BY DEF Stamp
<1>2. \A e \in nodes : e.seen \in Nat /\ e.seen <= now /\ now \in Nat
  BY DEF TypeOK, NodeEntry
<1>3. \A e \in nodes : e.id = n /\ e.seen = now => e = Stamp(n)
  BY DEF TypeOK, NodeEntry, Stamp
<1>4. ASSUME NEW e \in Latest' PROVE e \in {f \in Latest : f.id # n} \cup {Stamp(n)}
  <2>1. e \in nodes \cup {Stamp(n)} /\ \A f \in nodes \cup {Stamp(n)} :
           f.id = e.id => f.seen <= e.seen
    BY <1>4 DEF Latest
  <2>2. CASE e.id = n
    BY <1>1, <1>2, <1>3, <2>1, <2>2
  <2>3. CASE e.id # n
    BY <1>1, <2>1, <2>3 DEF Latest
  <2>4. QED
    BY <2>2, <2>3
<1>5. ASSUME NEW e \in Latest, e.id # n PROVE e \in Latest'
  BY <1>1, <1>5 DEF Latest
<1>6. Stamp(n) \in Latest'
  <2>1. now <= now
    BY DEF TypeOK
  <2>2. QED
    BY <1>1, <1>2, <2>1 DEF Latest
<1>7. QED
  BY <1>4, <1>5, <1>6

\* Popping the top removes it from what nodes() returns, if it was there, and
\* brings nothing back.
LEMMA LatestAfterPop ==
    ASSUME TypeOK, NEW e \in nodes, OnTop(e), nodes' = nodes \ {e}
    PROVE  Latest' = Latest \ {e}
<1>1. \A f \in nodes : e.seen <= f.seen
  BY DEF OnTop
<1>2. ASSUME NEW f \in Latest' PROVE f \in Latest \ {e}
  <2>1. f \in nodes /\ f # e /\ \A g \in nodes \ {e} : g.id = f.id => g.seen <= f.seen
    BY <1>2 DEF Latest
  <2>2. QED
    BY <1>1, <2>1 DEF Latest
<1>3. ASSUME NEW f \in Latest, f # e PROVE f \in Latest'
  BY <1>3 DEF Latest
<1>4. e \notin Latest'
  BY DEF Latest
<1>5. QED
  BY <1>2, <1>3, <1>4

-----------------------------------------------------------------------------
(* Nothing lingers.                                                        *)

\* What the cleanup task leaves behind when it sets its next purge.
PurgeInv ==
    /\ TypeOK
    /\ now <= purgeAt + Lag
    /\ purgeAt <= now + Period
    /\ cleaner.pc = "purging" => purgeAt <= now
    /\ \A e \in nodes : purgeAt < e.seen + Ttl + Period

LEMMA PurgeInit == Init => PurgeInv
  BY TypeInit DEF Init, PurgeInv

LEMMA PurgeNext == PurgeInv /\ [Next]_vars => PurgeInv'
<1> SUFFICES ASSUME PurgeInv, [Next]_vars PROVE PurgeInv'
  OBVIOUS
<1>1. TypeOK /\ TypeOK'
  BY TypeNext DEF PurgeInv
<1>2. /\ now \in Nat /\ purgeAt \in Nat
      /\ \A e \in nodes : e.seen \in Nat /\ e.seen <= now
  BY <1>1 DEF TypeOK, NodeEntry
<1>3. ASSUME NEW n \in Id, RegisterNode(n) \/ HandleHeartbeat(n) PROVE PurgeInv'
  <2>1. /\ nodes' = nodes \cup {Stamp(n)} /\ Stamp(n).seen = now
        /\ now' = now /\ purgeAt' = purgeAt /\ cleaner' = cleaner
    BY <1>3 DEF RegisterNode, HandleHeartbeat, Add, Stamp
  <2>2. purgeAt < now + Ttl + Period
    BY <1>2 DEF PurgeInv
  <2>3. QED
    BY <1>1, <2>1, <2>2 DEF PurgeInv
<1>4. CASE StartPurge
  BY <1>1, <1>4 DEF StartPurge, PurgeInv
<1>5. CASE Pop
  BY <1>1, <1>5 DEF Pop, PurgeInv
<1>6. CASE FinishPurge
  <2>1. purgeAt' = purgeAt + Period /\ now' = now /\ nodes' = nodes
        /\ cleaner'.pc = "idle" /\ purgeAt <= now
    BY <1>6 DEF FinishPurge, PurgeInv
  <2>2. ASSUME NEW f \in nodes PROVE now < f.seen + Ttl
    <3>1. PICK e \in nodes : OnTop(e) /\ ~Expired(e)
      BY <1>6 DEF FinishPurge
    <3>2. e.seen <= f.seen /\ ~(e.seen + Ttl <= now)
      BY <3>1 DEF OnTop, Expired
    <3>3. QED
      BY <1>2, <3>2
  <2>3. ASSUME NEW f \in nodes PROVE purgeAt + Period < f.seen + Ttl + Period
    BY <1>2, <2>1, <2>2
  <2>4. now <= purgeAt + Period + Lag /\ purgeAt + Period <= now + Period
    BY <1>2, <2>1 DEF PurgeInv
  <2>5. QED
    BY <1>1, <2>1, <2>3, <2>4 DEF PurgeInv
<1>7. CASE Tick
  <2>1. /\ now < purgeAt + Lag /\ now' = now + 1 /\ purgeAt' = purgeAt
        /\ nodes' = nodes /\ cleaner' = cleaner
    BY <1>7 DEF Tick
  <2>2. now + 1 <= purgeAt + Lag /\ purgeAt <= now + 1 + Period
        /\ (purgeAt <= now => purgeAt <= now + 1)
    BY <1>2, <2>1 DEF PurgeInv
  <2>3. QED
    BY <1>1, <2>1, <2>2 DEF PurgeInv
<1>8. CASE \/ UNCHANGED vars
           \/ \E n \in Id : PostHeartbeat(n) \/ AnswerHeartbeat(n)
                            \/ LoseRequest(n) \/ Crash(n)
  <2>1. UNCHANGED <<now, nodes, cleaner, purgeAt>>
    BY <1>8 DEF vars, PostHeartbeat, AnswerHeartbeat, LoseRequest, Crash
  <2>2. QED
    BY <1>1, <2>1 DEF PurgeInv
<1>9. QED
  BY <1>3, <1>4, <1>5, <1>6, <1>7, <1>8 DEF Next

LEMMA PurgeImplies == PurgeInv => NothingLingers
<1> SUFFICES ASSUME PurgeInv, NEW e \in nodes
             PROVE  now < e.seen + Ttl + Period + Lag
  BY DEF NothingLingers
<1>1. now \in Nat /\ purgeAt \in Nat /\ e.seen \in Nat
  BY DEF PurgeInv, TypeOK, NodeEntry
<1>2. QED
  BY <1>1 DEF PurgeInv

\* No entry outlives the TTL by more than a period of the cleanup task and its
\* delay, whatever heap purge() started from.
THEOREM PurgeIsComplete == Spec => []NothingLingers
  BY PurgeInit, PurgeNext, PurgeImplies, PTL DEF Spec

-----------------------------------------------------------------------------
(* The two counts.                                                         *)

\* No node appears while the cleanup task holds the store.
ShrinkInv == TypeOK /\ PurgeOnlyShrinks

LEMMA ShrinkInit == Init => ShrinkInv
  BY TypeInit DEF Init, ShrinkInv, PurgeOnlyShrinks

LEMMA ShrinkNext == ShrinkInv /\ [Next]_vars => ShrinkInv'
<1> SUFFICES ASSUME ShrinkInv, [Next]_vars, cleaner'.pc = "purging"
             PROVE  Cardinality(Latest)' <= cleaner'.before
  BY TypeNext DEF ShrinkInv, PurgeOnlyShrinks
<1> TypeOK /\ TypeOK'
  BY TypeNext DEF ShrinkInv
<1>1. IsFiniteSet(Latest) /\ Cardinality(Latest) \in Nat /\ cleaner.before \in Nat
  BY CountIsNat DEF TypeOK, Cleaner
<1>2. CASE nodes' = nodes /\ cleaner' = cleaner
  BY <1>2 DEF ShrinkInv, PurgeOnlyShrinks, Latest
<1>3. CASE StartPurge
  <2>1. cleaner'.before = Cardinality(Latest) /\ Latest' = Latest
    BY <1>3 DEF StartPurge, Latest
  <2>2. QED
    BY <1>1, <2>1
<1>4. CASE Pop
  <2>1. PICK e \in nodes : OnTop(e) /\ nodes' = nodes \ {e}
    BY <1>4 DEF Pop
  <2>2. Latest' \subseteq Latest /\ cleaner' = cleaner
    BY <1>4, <2>1, LatestAfterPop DEF Pop
  <2>3. /\ Cardinality(Latest') <= Cardinality(Latest)
        /\ Cardinality(Latest') \in Nat
    BY <1>1, <2>2, FS_Subset, FS_CardinalityType
  <2>4. QED
    BY <1>1, <2>2, <2>3 DEF ShrinkInv, PurgeOnlyShrinks
<1>5. CASE FinishPurge
  BY <1>5 DEF FinishPurge
<1>6. CASE \E n \in Id : RegisterNode(n) \/ HandleHeartbeat(n)
  BY <1>6 DEF RegisterNode, HandleHeartbeat, Add
<1>7. CASE \/ UNCHANGED vars \/ Tick
           \/ \E n \in Id : PostHeartbeat(n) \/ AnswerHeartbeat(n)
                            \/ LoseRequest(n) \/ Crash(n)
  BY <1>2, <1>7 DEF vars, Tick, PostHeartbeat, AnswerHeartbeat, LoseRequest, Crash
<1>8. QED
  BY <1>3, <1>4, <1>5, <1>6, <1>7 DEF Next

\* before_count - after_count in cleanup_stale_nodes never underflows.
THEOREM CountsNeverUnderflow == Spec => []PurgeOnlyShrinks
<1>1. ShrinkInv => PurgeOnlyShrinks
  BY DEF ShrinkInv
<1>2. QED
  BY <1>1, ShrinkInit, ShrinkNext, PTL DEF Spec

-----------------------------------------------------------------------------
(* The heap implements the table.                                          *)

LEMMA TableInit == Init => Table!Init
  BY DEF Init, Table!Init, Latest

LEMMA TableNext ==
    TypeOK /\ [Next]_vars => [Table!Next]_<<now, Latest>>
<1> SUFFICES ASSUME TypeOK, [Next]_vars PROVE [Table!Next]_<<now, Latest>>
  OBVIOUS
<1>1. ASSUME NEW n \in Id, nodes' = nodes \cup {Stamp(n)}, now' = now
      PROVE  Table!Seen(n)
  BY <1>1, LatestAfterAdd DEF Table!Seen, Stamp
<1>2. ASSUME NEW e \in nodes, OnTop(e), Expired(e), nodes' = nodes \ {e}, Pop
      PROVE  [Table!Next]_<<now, Latest>>
  <2>1. Latest' = Latest \ {e} /\ now' = now
    BY <1>2, LatestAfterPop DEF Pop
  <2>2. CASE e \in Latest
    BY <1>2, <2>1, <2>2 DEF Table!Next, Table!Expire, Expired
  <2>3. CASE e \notin Latest
    BY <2>1, <2>3
  <2>4. QED
    BY <2>2, <2>3
<1>3. CASE nodes' = nodes
  <2>1. Latest' = Latest
    BY <1>3 DEF Latest
  <2>2. now' = now \/ now' = now + 1
    BY DEF Next, RegisterNode, HandleHeartbeat, PostHeartbeat, AnswerHeartbeat,
           LoseRequest, Crash, StartPurge, Pop, FinishPurge, Tick, vars
  <2>3. QED
    BY <2>1, <2>2 DEF Table!Next, Table!Advance
<1>4. QED
  BY <1>1, <1>2, <1>3, HeapSteps DEF Table!Next

\* The store, with its many entries per node and its purge in several rounds,
\* implements the table with one heartbeat per node.
THEOREM HeapIsTable == Spec => TableSpec
  BY TableInit, TableNext, RegistryTypeCorrect, PTL DEF Spec, TableSpec, Table!Spec

-----------------------------------------------------------------------------
(* When a running node is dropped.                                         *)

\* The next heartbeat of a running node is at most one period away, is not
\* overdue, and follows its latest entry by the heartbeats it has missed since.
BeatInv ==
    /\ TypeOK
    /\ \A n \in Id : up[n] =>
          /\ nextBeat[n] <= now + Beat
          /\ now <= nextBeat[n] + Hang
          /\ \A e \in Latest :
                e.id = n => nextBeat[n] <= e.seen + (missed[n] + 1) * Beat

LEMMA BeatInit == Init => BeatInv
  BY TypeInit DEF Init, BeatInv, Latest

LEMMA BeatNext == BeatInv /\ [Next]_vars => BeatInv'
<1> SUFFICES ASSUME BeatInv, [Next]_vars, NEW n \in Id, up'[n]
             PROVE  /\ nextBeat'[n] <= now' + Beat
                    /\ now' <= nextBeat'[n] + Hang
                    /\ \A e \in Latest' : e.id = n =>
                          nextBeat'[n] <= e.seen + (missed'[n] + 1) * Beat
  BY TypeNext DEF BeatInv
<1> TypeOK /\ TypeOK'
  BY TypeNext DEF BeatInv
<1>1. /\ now \in Nat /\ nextBeat[n] \in Nat /\ missed[n] \in Nat
      /\ \A e \in Latest : e.seen \in Nat /\ e.seen <= now
  BY DEF TypeOK, NodeEntry, Latest
<1>2. /\ (0 + 1) * Beat = Beat
      /\ (missed[n] + 1 + 1) * Beat = (missed[n] + 1) * Beat + Beat
      /\ (missed[n] + 1) * Beat \in Nat
  BY <1>1
<1>3. up[n] => /\ nextBeat[n] <= now + Beat
               /\ now <= nextBeat[n] + Hang
               /\ \A e \in Latest : e.id = n =>
                     nextBeat[n] <= e.seen + (missed[n] + 1) * Beat
  BY DEF BeatInv
<1>4. CASE \E p \in Id : RegisterNode(p) \/ HandleHeartbeat(p)
  <2>1. PICK p \in Id : RegisterNode(p) \/ HandleHeartbeat(p)
    BY <1>4
  <2>2. /\ nodes' = nodes \cup {Stamp(p)} /\ missed' = [missed EXCEPT ![p] = 0]
        /\ now' = now /\ nextBeat' = nextBeat /\ up' = up
    BY <2>1 DEF RegisterNode, HandleHeartbeat, Add, Stamp
  <2>3. Latest' = {e \in Latest : e.id # p} \cup {Stamp(p)}
    BY <2>2, LatestAfterAdd
  <2>4. Stamp(p).id = p /\ Stamp(p).seen = now
    BY DEF Stamp
  <2>5. CASE p = n
    <3>1. missed'[n] = 0
      BY <2>2, <2>5 DEF TypeOK
    <3>2. ASSUME NEW e \in Latest', e.id = n PROVE e.seen = now
      BY <2>3, <2>4, <2>5, <3>2
    <3>3. QED
      BY <1>2, <1>3, <2>2, <3>1, <3>2
  <2>6. CASE p # n
    <3>1. missed'[n] = missed[n]
      BY <2>2, <2>6 DEF TypeOK
    <3>2. ASSUME NEW e \in Latest', e.id = n PROVE e \in Latest
      BY <2>3, <2>4, <2>6, <3>2
    <3>3. QED
      BY <1>3, <2>2, <3>1, <3>2
  <2>7. QED
    BY <2>5, <2>6
<1>5. CASE \E p \in Id : PostHeartbeat(p)
  <2>1. PICK p \in Id : PostHeartbeat(p)
    BY <1>5
  <2>2. /\ now' = now /\ up' = up /\ Latest' = Latest /\ nextBeat[p] <= now
        /\ nextBeat' = [nextBeat EXCEPT ![p] = @ + Beat]
        /\ missed' = [missed EXCEPT ![p] = @ + 1]
    BY <2>1 DEF PostHeartbeat, Latest
  <2>3. CASE p = n
    <3>1. nextBeat'[n] = nextBeat[n] + Beat /\ missed'[n] = missed[n] + 1
      BY <2>2, <2>3 DEF TypeOK
    <3>2. ASSUME NEW e \in Latest', e.id = n
          PROVE  nextBeat'[n] <= e.seen + (missed'[n] + 1) * Beat
      <4>1. nextBeat[n] <= e.seen + (missed[n] + 1) * Beat /\ e.seen \in Nat
        BY <1>1, <1>3, <2>2, <3>2
      <4>2. QED
        BY <1>1, <1>2, <3>1, <4>1
    <3>3. QED
      BY <1>1, <1>3, <2>2, <2>3, <3>1, <3>2
  <2>4. CASE p # n
    <3>1. nextBeat'[n] = nextBeat[n] /\ missed'[n] = missed[n]
      BY <2>2, <2>4 DEF TypeOK
    <3>2. QED
      BY <1>3, <2>2, <3>1
  <2>5. QED
    BY <2>3, <2>4
<1>6. CASE \E p \in Id : Crash(p)
  <2>1. PICK p \in Id : Crash(p)
    BY <1>6
  <2>2. p # n
    BY <2>1 DEF Crash, TypeOK
  <2>3. /\ now' = now /\ Latest' = Latest /\ up'[n] = up[n]
        /\ nextBeat'[n] = nextBeat[n] /\ missed'[n] = missed[n]
    BY <2>1, <2>2 DEF Crash, TypeOK, Latest
  <2>4. QED
    BY <1>3, <2>3
<1>7. CASE Pop
  <2>1. PICK e \in nodes : OnTop(e) /\ nodes' = nodes \ {e}
    BY <1>7 DEF Pop
  <2>2. Latest' \subseteq Latest
    BY <2>1, LatestAfterPop
  <2>3. now' = now /\ up' = up /\ nextBeat' = nextBeat /\ missed' = missed
    BY <1>7 DEF Pop
  <2>4. QED
    BY <1>3, <2>2, <2>3
<1>8. CASE Tick
  <2>1. /\ now' = now + 1 /\ up' = up /\ nextBeat' = nextBeat
        /\ missed' = missed /\ Latest' = Latest
        /\ now < nextBeat[n] + Hang
    BY <1>8 DEF Tick, Latest
  <2>2. now + 1 <= nextBeat[n] + Hang /\ nextBeat[n] <= now + 1 + Beat
    BY <1>1, <1>3, <2>1
  <2>3. QED
    BY <1>3, <2>1, <2>2
<1>9. CASE \/ UNCHANGED vars \/ StartPurge \/ FinishPurge
           \/ \E p \in Id : AnswerHeartbeat(p) \/ LoseRequest(p)
  <2>1. UNCHANGED <<now, nodes, up, nextBeat, missed>>
    BY <1>9 DEF vars, StartPurge, FinishPurge, AnswerHeartbeat, LoseRequest
  <2>2. QED
    BY <1>3, <2>1 DEF Latest
<1>10. QED
  BY <1>4, <1>5, <1>6, <1>7, <1>8, <1>9 DEF Next

LEMMA DropStep ==
    ASSUME BeatInv, [Next]_vars, NEW n \in Id, up[n], Listed(n), ~Listed(n)'
    PROVE  Ttl <= (missed[n] + 1) * Beat + Hang
<1> TypeOK
  BY DEF BeatInv
<1>1. PICK f \in Latest : f.id = n
  BY DEF Listed
<1>2. f \notin Latest'
  BY <1>1 DEF Listed
<1>3. nodes' # nodes
  BY <1>2 DEF Latest
<1>4. ASSUME NEW p \in Id, nodes' = nodes \cup {Stamp(p)} PROVE FALSE
  <2>1. Latest' = {e \in Latest : e.id # p} \cup {Stamp(p)}
    BY <1>4, LatestAfterAdd
  <2>2. Stamp(p).id = p
    BY DEF Stamp
  <2>3. QED
    BY <1>1, <1>2, <2>1, <2>2 DEF Listed
<1>5. Expired(f)
  <2>1. PICK e \in nodes : OnTop(e) /\ Expired(e) /\ nodes' = nodes \ {e}
    BY <1>3, <1>4, HeapSteps
  <2>2. f = e
    BY <1>1, <1>2, <2>1, LatestAfterPop
  <2>3. QED
    BY <2>1, <2>2
<1>6. /\ nextBeat[n] <= f.seen + (missed[n] + 1) * Beat
      /\ now <= nextBeat[n] + Hang /\ f.seen + Ttl <= now
  BY <1>1, <1>5 DEF BeatInv, Expired
<1>7. /\ now \in Nat /\ nextBeat[n] \in Nat /\ f.seen \in Nat
      /\ missed[n] \in Nat
  BY <1>1 DEF TypeOK, NodeEntry, Latest
<1>8. (missed[n] + 1) * Beat \in Nat
  BY <1>7
<1>9. QED
  BY <1>6, <1>7, <1>8

\* A running node is dropped only after as many unhandled heartbeats in a row
\* as the TTL leaves room for.
THEOREM DropNeedsMisses == Spec => DroppedAfterMisses
<1>1. BeatInv /\ [Next]_vars =>
         [\A n \in Id : up[n] /\ Listed(n) /\ ~Listed(n)' =>
             Ttl <= (missed[n] + 1) * Beat + Hang]_vars
  BY DropStep
<1>2. QED
  BY <1>1, BeatInit, BeatNext, PTL DEF Spec, DroppedAfterMisses

=============================================================================
