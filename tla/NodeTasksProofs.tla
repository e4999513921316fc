--------------------------- MODULE NodeTasksProofs ---------------------------
(***************************************************************************)
(* Proofs about the tasks and locks of a node, for every set of handlers   *)
(* that messages and timers may trigger.                                   *)
(*                                                                         *)
(* What a task still has to do is a sequence, so the discipline its        *)
(* remaining operations follow is a property of sequences of every length. *)
(* It is stated coinductively: a script is disciplined with the guards H   *)
(* in hand when it lies in some set of script/guards pairs that is closed  *)
(* under the operations.  Such a set replaces an induction over the        *)
(* script, and the handlers' scripts are shown to be disciplined piece by  *)
(* piece, along the way they are put together in NodeTasks.                *)
(***************************************************************************)
EXTENDS NodeTasks, SequenceTheorems, TLAPS

-----------------------------------------------------------------------------
(* The discipline of a script.                                             *)

LockOp(l) == [do |-> "lock", on |-> l]
UnlockOp(l) == [do |-> "unlock", on |-> l]

\* With the guards H in hand a task may ask for l; a relocking task may ask
\* for session_db again.
MayAsk(l, H, t) ==
    \A k \in H : \/ Rank(k) < Rank(l)
                 \/ t \in Relocking /\ k = l /\ l = "session_db"

\* One operation of s keeps to the order of the locks, drops only what is in
\* hand, drops everything before the end, and leads to a pair in R.
Follows(R, s, H, t) ==
    /\ s = <<>> => H = {}
    /\ \A l \in Lock : s # <<>> /\ Head(s) = LockOp(l) =>
          /\ MayAsk(l, H, t)
          /\ l \notin H => <<Tail(s), H \cup {l}>> \in R
    /\ \A l \in Lock : s # <<>> /\ Head(s) = UnlockOp(l) =>
          /\ l \in H
          /\ <<Tail(s), H \ {l}>> \in R

Pairs == Seq(Op) \X SUBSET Lock

Closed(R, t) == \A s \in Seq(Op), H \in SUBSET Lock :
                    <<s, H>> \in R => Follows(R, s, H, t)

Disciplined(s, H, t) ==
    \E R \in SUBSET Pairs : <<s, H>> \in R /\ Closed(R, t)

\* The first element and the rest of a sequence put together from them.
LEMMA HeadTailCons ==
    ASSUME NEW S, NEW e \in S, NEW s \in Seq(S)
    PROVE  /\ <<e>> \o s \in Seq(S)
           /\ <<e>> \o s # <<>>
           /\ Head(<<e>> \o s) = e
           /\ Tail(<<e>> \o s) = s
<1> DEFINE c == <<e>> \o s
<1>1. <<e>> \in Seq(S) /\ Len(<<e>>) = 1 /\ <<e>>[1] = e
    OBVIOUS
<1>2. /\ c \in Seq(S)
      /\ Len(c) = 1 + Len(s)
      /\ \A i \in 1 .. 1 + Len(s) : c[i] = IF i <= 1 THEN e ELSE s[i - 1]
    BY <1>1, ConcatProperties
<1>3. Len(s) \in Nat
    BY LenProperties
<1> HIDE DEF c
<1>4. c # <<>>
    BY <1>2, <1>3, EmptySeq
<1>5. Head(c) = e
    BY <1>2, <1>3, <1>4
<1>6. /\ Tail(c) \in Seq(S)
      /\ Len(Tail(c)) = Len(c) - 1
      /\ \A i \in 1 .. Len(Tail(c)) : Tail(c)[i] = c[i + 1]
    BY <1>2, <1>4, HeadTailProperties
<1>7. Tail(c) = s
  <2>1. Len(Tail(c)) = Len(s)
      BY <1>2, <1>3, <1>6
  <2>2. ASSUME NEW i \in 1 .. Len(s)
        PROVE  Tail(c)[i] = s[i]
    <3>1. Tail(c)[i] = c[i + 1]
        BY <1>6, <2>1
    <3>2. i + 1 \in 1 .. 1 + Len(s) /\ ~(i + 1 <= 1) /\ (i + 1) - 1 = i
        BY <1>3
    <3> QED  BY <3>1, <3>2, <1>2
  <2> QED  BY <2>1, <2>2, <1>6, SeqEqual
<1> QED  BY <1>2, <1>4, <1>5, <1>7 DEF c

LEMMA OpsAreOps == ASSUME NEW l \in Lock
                   PROVE  LockOp(l) \in Op /\ UnlockOp(l) \in Op
BY DEF Op, LockOp, UnlockOp

LEMMA DifferentOps ==
    ASSUME NEW l, NEW k
    PROVE  /\ LockOp(l) # UnlockOp(k)
           /\ LockOp(l) = LockOp(k) => l = k
           /\ UnlockOp(l) = UnlockOp(k) => l = k
<1>1. LockOp(l).do = "lock" /\ UnlockOp(k).do = "unlock"
    BY DEF LockOp, UnlockOp
<1>2. LockOp(l).on = l /\ LockOp(k).on = k /\ UnlockOp(l).on = l /\ UnlockOp(k).on = k
    BY DEF LockOp, UnlockOp
<1> QED  BY <1>1, <1>2

\* A disciplined script follows the discipline one operation at a time.
LEMMA Unfold ==
    ASSUME NEW s \in Seq(Op), NEW H \in SUBSET Lock, NEW t,
           Disciplined(s, H, t)
    PROVE  /\ s = <<>> => H = {}
           /\ \A l \in Lock : s # <<>> /\ Head(s) = LockOp(l) =>
                 /\ MayAsk(l, H, t)
                 /\ l \notin H => Disciplined(Tail(s), H \cup {l}, t)
           /\ \A l \in Lock : s # <<>> /\ Head(s) = UnlockOp(l) =>
                 /\ l \in H
                 /\ Disciplined(Tail(s), H \ {l}, t)
<1>1. PICK R \in SUBSET Pairs : <<s, H>> \in R /\ Closed(R, t)
    BY DEF Disciplined
<1>2. Follows(R, s, H, t)
    BY <1>1 DEF Closed
<1>3. \A u, G : <<u, G>> \in R => Disciplined(u, G, t)
    BY <1>1 DEF Disciplined
<1> QED  BY <1>2, <1>3 DEF Follows

\* ... and a script that does so is disciplined.
LEMMA Fold ==
    ASSUME NEW s \in Seq(Op), NEW H \in SUBSET Lock, NEW t,
           NEW u \in Seq(Op), NEW G \in SUBSET Lock,
           Disciplined(u, G, t),
           \A R \in SUBSET Pairs : <<u, G>> \in R => Follows(R, s, H, t)
    PROVE  Disciplined(s, H, t)
<1>1. PICK R \in SUBSET Pairs : <<u, G>> \in R /\ Closed(R, t)
    BY DEF Disciplined
<1> DEFINE Q == R \cup {<<s, H>>}
<1>2. Q \in SUBSET Pairs /\ <<s, H>> \in Q /\ <<u, G>> \in Q
    BY <1>1 DEF Pairs
<1>3. ASSUME NEW v \in Seq(Op), NEW F \in SUBSET Lock, <<v, F>> \in Q
      PROVE  Follows(Q, v, F, t)
  <2>1. CASE <<v, F>> \in R
    <3>1. Follows(R, v, F, t)
        BY <1>1, <2>1 DEF Closed
    <3>2. R \subseteq Q
        OBVIOUS
    <3> HIDE DEF Q
    <3> QED  BY <3>1, <3>2 DEF Follows
  <2>2. CASE v = s /\ F = H
    <3> HIDE DEF Q
    <3> QED  BY <2>2, <1>2
  <2> QED  BY <1>3, <2>1, <2>2
<1> HIDE DEF Q
<1>4. Closed(Q, t)
    BY <1>3 DEF Closed
<1> QED  BY <1>2, <1>4 DEF Disciplined

\* A task that has nothing left to do and nothing in hand is disciplined.
LEMMA Finished ==
    ASSUME NEW t
    PROVE  Disciplined(<<>>, {}, t)
<1> DEFINE R == {<<<<>>, {}>>}
<1>1. R \in SUBSET Pairs /\ <<<<>>, {}>> \in R
  <2>1. <<>> \in Seq(Op) /\ {} \in SUBSET Lock
      BY EmptySeq
  <2>2. <<<<>>, {}>> \in Pairs
      BY <2>1, Zenon DEF Pairs
  <2> QED  BY <2>2, Zenon
<1>2. ASSUME NEW s \in Seq(Op), NEW H \in SUBSET Lock, <<s, H>> \in R
      PROVE  s = <<>> /\ H = {}
    BY <1>2
<1> HIDE DEF R
<1>3. Closed(R, t)
    BY <1>2 DEF Closed, Follows
<1> QED  BY <1>1, <1>3 DEF Disciplined

LEMMA LockFirst ==
    ASSUME NEW l \in Lock, NEW s \in Seq(Op), NEW H \in SUBSET Lock,
           NEW t, MayAsk(l, H, t), l \notin H,
           Disciplined(s, H \cup {l}, t)
    PROVE  Disciplined(<<LockOp(l)>> \o s, H, t)
<1> DEFINE c == <<LockOp(l)>> \o s
<1>1. c \in Seq(Op) /\ c # <<>> /\ Head(c) = LockOp(l) /\ Tail(c) = s
    BY OpsAreOps, HeadTailCons
<1> HIDE DEF c
<1>2. ASSUME NEW R, <<s, H \cup {l}>> \in R
      PROVE  Follows(R, c, H, t)
    BY <1>1, <1>2, DifferentOps DEF Follows
<1>3. H \cup {l} \in SUBSET Lock
    OBVIOUS
<1>4. Disciplined(c, H, t)
    BY <1>1, <1>2, <1>3, Fold
<1> QED  BY <1>4 DEF c

LEMMA LockAgain ==
    ASSUME NEW l \in Lock, NEW s \in Seq(Op), NEW H \in SUBSET Lock,
           NEW t, MayAsk(l, H, t), l \in H
    PROVE  Disciplined(<<LockOp(l)>> \o s, H, t)
<1> DEFINE c == <<LockOp(l)>> \o s
<1>1. c \in Seq(Op) /\ c # <<>> /\ Head(c) = LockOp(l) /\ Tail(c) = s
    BY OpsAreOps, HeadTailCons
<1> HIDE DEF c
<1>2. ASSUME NEW R
      PROVE  Follows(R, c, H, t)
    BY <1>1, DifferentOps DEF Follows
<1>3. Disciplined(<<>>, {}, t) /\ <<>> \in Seq(Op) /\ {} \in SUBSET Lock
    BY Finished, EmptySeq
<1>4. Disciplined(c, H, t)
    BY <1>1, <1>2, <1>3, Fold
<1> QED  BY <1>4 DEF c

LEMMA UnlockFirst ==
    ASSUME NEW l \in Lock, NEW s \in Seq(Op), NEW H \in SUBSET Lock,
           NEW t, l \in H, Disciplined(s, H \ {l}, t)
    PROVE  Disciplined(<<UnlockOp(l)>> \o s, H, t)
<1> DEFINE c == <<UnlockOp(l)>> \o s
<1>1. c \in Seq(Op) /\ c # <<>> /\ Head(c) = UnlockOp(l) /\ Tail(c) = s
    BY OpsAreOps, HeadTailCons
<1> HIDE DEF c
<1>2. ASSUME NEW R, <<s, H \ {l}>> \in R
      PROVE  Follows(R, c, H, t)
    BY <1>1, <1>2, DifferentOps DEF Follows
<1>3. H \ {l} \in SUBSET Lock
    OBVIOUS
<1>4. Disciplined(c, H, t)
    BY <1>1, <1>2, <1>3, Fold
<1> QED  BY <1>4 DEF c

-----------------------------------------------------------------------------
(* Pieces of scripts.  With the guards H in hand, Respects says that b      *)
(* comes back to H without breaking the discipline; Stops, that b reaches   *)
(* a lock it holds itself and never gets past it.                           *)

Respects(b, H, t) ==
    /\ b \in Seq(Op)
    /\ \A s \in Seq(Op) : Disciplined(s, H, t) => Disciplined(b \o s, H, t)

Stops(b, H, t) ==
    /\ b \in Seq(Op)
    /\ \A s \in Seq(Op) : Disciplined(b \o s, H, t)

LEMMA EmptyRespects ==
    ASSUME NEW H, NEW t
    PROVE  Respects(<<>>, H, t)
BY EmptySeq, ConcatEmptySeq DEF Respects

LEMMA ConcatRespects ==
    ASSUME NEW b, NEW c, NEW H, NEW t, Respects(b, H, t), Respects(c, H, t)
    PROVE  Respects(b \o c, H, t)
<1>1. b \in Seq(Op) /\ c \in Seq(Op) /\ b \o c \in Seq(Op)
    BY ConcatProperties DEF Respects
<1>2. ASSUME NEW s \in Seq(Op), Disciplined(s, H, t)
      PROVE  Disciplined((b \o c) \o s, H, t)
  <2>1. c \o s \in Seq(Op)
      BY <1>1, ConcatProperties
  <2>2. Disciplined(b \o (c \o s), H, t)
      BY <1>2, <2>1 DEF Respects
  <2>3. (b \o c) \o s = b \o (c \o s)
      BY <1>1, ConcatAssociative
  <2> QED  BY <2>2, <2>3
<1> QED  BY <1>1, <1>2 DEF Respects

LEMMA ConcatStops ==
    ASSUME NEW b, NEW c, NEW H, NEW t,
           \/ Respects(b, H, t) /\ Stops(c, H, t)
           \/ Stops(b, H, t) /\ c \in Seq(Op)
    PROVE  Stops(b \o c, H, t)
<1>1. b \in Seq(Op) /\ c \in Seq(Op) /\ b \o c \in Seq(Op)
    BY ConcatProperties DEF Respects, Stops
<1>2. ASSUME NEW s \in Seq(Op)
      PROVE  Disciplined((b \o c) \o s, H, t)
  <2>1. c \o s \in Seq(Op)
      BY <1>1, ConcatProperties
  <2>2. Disciplined(b \o (c \o s), H, t)
      BY <2>1 DEF Respects, Stops
  <2>3. (b \o c) \o s = b \o (c \o s)
      BY <1>1, ConcatAssociative
  <2> QED  BY <2>2, <2>3
<1> QED  BY <1>1, <1>2 DEF Stops

LEMMA StopsRespects ==
    ASSUME NEW b, NEW H, NEW t, Stops(b, H, t)
    PROVE  Respects(b, H, t)
BY DEF Stops, Respects

LEMMA GuardedSeq ==
    ASSUME NEW l \in Lock, NEW b \in Seq(Op)
    PROVE  /\ Guarded(l, b) \in Seq(Op)
           /\ \A s \in Seq(Op) :
                 /\ <<UnlockOp(l)>> \o s \in Seq(Op)
                 /\ b \o (<<UnlockOp(l)>> \o s) \in Seq(Op)
                 /\ Guarded(l, b) \o s =
                       <<LockOp(l)>> \o (b \o (<<UnlockOp(l)>> \o s))
<1> DEFINE p == <<LockOp(l)>>
           q == <<UnlockOp(l)>>
<1>1. p \in Seq(Op) /\ q \in Seq(Op)
    BY OpsAreOps
<1>2. Guarded(l, b) = (p \o b) \o q
    BY DEF Guarded, LockOp, UnlockOp
<1> HIDE DEF p, q
<1>3. p \o b \in Seq(Op) /\ (p \o b) \o q \in Seq(Op)
    BY <1>1, ConcatProperties
<1>4. ASSUME NEW s \in Seq(Op)
      PROVE  /\ q \o s \in Seq(Op)
             /\ b \o (q \o s) \in Seq(Op)
             /\ ((p \o b) \o q) \o s = p \o (b \o (q \o s))
  <2>1. q \o s \in Seq(Op) /\ b \o (q \o s) \in Seq(Op)
      BY <1>1, ConcatProperties
  <2>2. ((p \o b) \o q) \o s = (p \o b) \o (q \o s)
      BY <1>1, <1>3, ConcatAssociative
  <2>3. (p \o b) \o (q \o s) = p \o (b \o (q \o s))
      BY <1>1, <2>1, ConcatAssociative
  <2> QED  BY <2>1, <2>2, <2>3
<1> QED  BY <1>2, <1>3, <1>4 DEF p, q

\* A guard that ranks above the ones in hand, around a piece that respects it.
LEMMA GuardedRespects ==
    ASSUME NEW l \in Lock, NEW b, NEW H \in SUBSET Lock, NEW t,
           \A k \in H : Rank(k) < Rank(l),
           Respects(b, H \cup {l}, t)
    PROVE  Respects(Guarded(l, b), H, t)
<1>1. b \in Seq(Op)
    BY DEF Respects
<1>2. l \notin H
    BY DEF Rank
<1>3. MayAsk(l, H, t)
    BY DEF MayAsk
<1>4. ASSUME NEW s \in Seq(Op), Disciplined(s, H, t)
      PROVE  Disciplined(Guarded(l, b) \o s, H, t)
  <2>1. (H \cup {l}) \ {l} = H /\ l \in H \cup {l} /\ H \cup {l} \in SUBSET Lock
      BY <1>2
  <2>2. Disciplined(<<UnlockOp(l)>> \o s, H \cup {l}, t)
      BY <1>4, <2>1, UnlockFirst
  <2>3. Disciplined(b \o (<<UnlockOp(l)>> \o s), H \cup {l}, t)
      BY <2>2, <1>1, GuardedSeq DEF Respects
  <2>4. Disciplined(<<LockOp(l)>> \o (b \o (<<UnlockOp(l)>> \o s)), H, t)
    <3>1. b \o (<<UnlockOp(l)>> \o s) \in Seq(Op)
        BY <1>1, GuardedSeq
    <3> QED  BY <2>3, <3>1, <1>2, <1>3, LockFirst
  <2> QED  BY <2>4, <1>1, GuardedSeq
<1> QED  BY <1>1, <1>4, GuardedSeq DEF Respects

\* The same around a piece that stops.
LEMMA GuardedStops ==
    ASSUME NEW l \in Lock, NEW b, NEW H \in SUBSET Lock, NEW t,
           \A k \in H : Rank(k) < Rank(l),
           Stops(b, H \cup {l}, t)
    PROVE  Stops(Guarded(l, b), H, t)
<1>1. b \in Seq(Op)
    BY DEF Stops
<1>2. l \notin H
    BY DEF Rank
<1>3. MayAsk(l, H, t)
    BY DEF MayAsk
<1>4. ASSUME NEW s \in Seq(Op)
      PROVE  Disciplined(Guarded(l, b) \o s, H, t)
  <2>1. Disciplined(b \o (<<UnlockOp(l)>> \o s), H \cup {l}, t)
      BY <1>1, GuardedSeq DEF Stops
  <2>2. Disciplined(<<LockOp(l)>> \o (b \o (<<UnlockOp(l)>> \o s)), H, t)
    <3>1. b \o (<<UnlockOp(l)>> \o s) \in Seq(Op)
        BY <1>1, GuardedSeq
    <3> QED  BY <2>1, <3>1, <1>2, <1>3, LockFirst
  <2> QED  BY <2>2, <1>1, GuardedSeq
<1> QED  BY <1>1, <1>4, GuardedSeq DEF Stops

\* A relocking task that asks for session_db again stops there.
LEMMA RelockStops ==
    ASSUME NEW b \in Seq(Op), NEW H \in SUBSET Lock, "session_db" \in H,
           NEW t \in Relocking,
           \A k \in H : Rank(k) < 3
    PROVE  Stops(Guarded("session_db", b), H, t)
<1>1. "session_db" \in Lock
    BY DEF Lock
<1>2. MayAsk("session_db", H, t)
    BY DEF MayAsk, Rank, Lock
<1>3. ASSUME NEW s \in Seq(Op)
      PROVE  Disciplined(Guarded("session_db", b) \o s, H, t)
  <2>1. Disciplined(<<LockOp("session_db")>>
                       \o (b \o (<<UnlockOp("session_db")>> \o s)), H, t)
      BY <1>1, <1>2, GuardedSeq, LockAgain
  <2> QED  BY <2>1, <1>1, GuardedSeq
<1> QED  BY <1>1, <1>3, GuardedSeq DEF Stops

\* A whole script that respects the discipline is disciplined from the start.
LEMMA ScriptDisciplined ==
    ASSUME NEW b, NEW t, Respects(b, {}, t)
    PROVE  b \in Seq(Op) /\ Disciplined(b, {}, t)
<1>1. b \in Seq(Op) /\ <<>> \in Seq(Op) /\ b \o <<>> = b
    BY EmptySeq, ConcatEmptySeq DEF Respects
<1>2. Disciplined(b \o <<>>, {}, t)
    BY <1>1, Finished DEF Respects
<1> QED  BY <1>1, <1>2

-----------------------------------------------------------------------------
(* The scripts of the handlers.                                            *)

\* A guard taken and dropped at once.
LEMMA VisitRespects ==
    ASSUME NEW l \in Lock, NEW H \in SUBSET Lock, NEW t,
           \A k \in H : Rank(k) < Rank(l)
    PROVE  Respects(Visit(l), H, t)
BY EmptyRespects, GuardedRespects DEF Visit

LEMMA VisitAny ==
    ASSUME NEW l \in Lock, NEW t
    PROVE  Respects(Visit(l), {}, t)
BY VisitRespects

\* session_db under peer_db, as ping_peers, update_metrics and
\* get_neighbor_addresses take them.
LEMMA BothRespect ==
    ASSUME NEW b, NEW t,
           Respects(b, {"peer_db", "session_db"}, t)
    PROVE  Respects(Guarded("peer_db", Guarded("session_db", b)), {}, t)
<1>1. {"peer_db"} \cup {"session_db"} = {"peer_db", "session_db"}
    OBVIOUS
<1>2. Respects(Guarded("session_db", b), {"peer_db"}, t)
  <2>1. \A k \in {"peer_db"} : Rank(k) < Rank("session_db")
      BY DEF Rank
  <2>2. "session_db" \in Lock /\ {"peer_db"} \in SUBSET Lock
      BY DEF Lock
  <2> QED  BY <1>1, <2>1, <2>2, GuardedRespects
<1>3. "peer_db" \in Lock /\ {} \cup {"peer_db"} = {"peer_db"}
    BY DEF Lock
<1> QED  BY <1>2, <1>3, GuardedRespects

LEMMA GetNeighborAddressesRespects ==
    ASSUME NEW t
    PROVE  Respects(GetNeighborAddresses, {}, t)
BY EmptyRespects, BothRespect DEF GetNeighborAddresses

\* broadcast_lsa with no guard in hand.
LEMMA BroadcastLsaRespects ==
    ASSUME NEW t
    PROVE  Respects(BroadcastLsa, {}, t)
<1>1. /\ Respects(Visit("lsa_sequence"), {}, t)
      /\ Respects(Visit("session_db"), {}, t)
      /\ Respects(Visit("link_state_db"), {}, t)
    BY VisitAny DEF Lock
<1>2. Respects(GenerateLsa, {}, t)
    BY <1>1, ConcatRespects DEF GenerateLsa
<1>3. Respects(GenerateLsa \o Visit("link_state_db"), {}, t)
    BY <1>1, <1>2, ConcatRespects
<1> QED  BY <1>3, GetNeighborAddressesRespects, ConcatRespects DEF BroadcastLsa

\* broadcast_lsa with session_db in hand: generate_lsa never gets past
\* get_established_neighbors.
LEMMA BroadcastLsaStops ==
    ASSUME NEW H \in SUBSET {"peer_db", "session_db"}, "session_db" \in H,
           NEW t \in Relocking
    PROVE  Stops(BroadcastLsa, H, t)
<1>1. /\ H \in SUBSET Lock
      /\ \A k \in H : Rank(k) < 3
      /\ \A k \in H : Rank(k) < Rank("lsa_sequence")
    BY DEF Lock, Rank
<1>2. Respects(Visit("lsa_sequence"), H, t)
    BY <1>1, VisitRespects DEF Lock
<1>3. Stops(Visit("session_db"), H, t)
    BY <1>1, EmptySeq, RelockStops DEF Visit
<1>4. Stops(GenerateLsa, H, t)
    BY <1>2, <1>3, ConcatStops DEF GenerateLsa
<1>5. Visit("link_state_db") \in Seq(Op) /\ GetNeighborAddresses \in Seq(Op)
    BY VisitAny, GetNeighborAddressesRespects DEF Respects, Lock
<1>6. Stops(GenerateLsa \o Visit("link_state_db"), H, t)
    BY <1>4, <1>5, ConcatStops
<1> QED  BY <1>5, <1>6, ConcatStops DEF BroadcastLsa

\* Every script of every handler keeps to the order of the locks and drops all
\* its guards, or stops in a task of Relocking at its own session_db.
LEMMA ScriptsRespect ==
    ASSUME NEW h \in Handler, NEW s \in Script(h)
    PROVE  Respects(s, {}, TaskOf(h))
<1> SUFFICES ASSUME NEW t, t = TaskOf(h)
             PROVE  Respects(s, {}, t)
    OBVIOUS
<1>1. /\ Respects(Visit("peer_db"), {}, t)
      /\ Respects(Visit("session_db"), {}, t)
      /\ Respects(Visit("ping_db"), {}, t)
      /\ Respects(Visit("link_state_db"), {}, t)
    BY VisitAny DEF Lock
<1>2. Respects(GetNeighborAddresses, {}, t)
    BY GetNeighborAddressesRespects
<1>3. Respects(BroadcastLsa, {}, t)
    BY BroadcastLsaRespects
<1>4. CASE h = "hello"
  <2>1. s \in HelloArm
      BY <1>4 DEF Script
  <2> QED  BY <2>1, <1>1, ConcatRespects DEF HelloArm
<1>5. CASE h = "handshake"
  <2>1. s \in HandleHandshake /\ t \in Relocking
      BY <1>5 DEF Script, TaskOf, Relocking
  <2>2. Stops(Guarded("session_db", BroadcastLsa), {}, t)
    <3>1. Stops(BroadcastLsa, {"session_db"}, t)
        BY <2>1, BroadcastLsaStops
    <3>2. {} \cup {"session_db"} = {"session_db"} /\ "session_db" \in Lock
        BY DEF Lock
    <3> QED  BY <3>1, <3>2, GuardedStops
  <2> QED  BY <2>1, <2>2, <1>1, StopsRespects DEF HandleHandshake
<1>6. CASE h = "ping"
  <2>1. s \in HandlePing
      BY <1>6 DEF Script
  <2>2. Respects(CanTakePing, {}, t)
      BY <1>1, ConcatRespects DEF CanTakePing
  <2> QED  BY <2>1, <2>2, <1>1, ConcatRespects DEF HandlePing
<1>7. CASE h = "pong"
  <2>1. s \in HandlePong
      BY <1>7 DEF Script
  <2>2. Respects(Guarded("peer_db", Visit("ping_db")), {}, t)
    <3>1. \A k \in {"peer_db"} : Rank(k) < Rank("ping_db")
        BY DEF Rank
    <3>2. "ping_db" \in Lock /\ {"peer_db"} \in SUBSET Lock /\ "peer_db" \in Lock
          /\ {} \cup {"peer_db"} = {"peer_db"}
        BY DEF Lock
    <3>3. Respects(Visit("ping_db"), {"peer_db"}, t)
        BY <3>1, <3>2, VisitRespects
    <3> QED  BY <3>2, <3>3, GuardedRespects
  <2>3. Respects(Visit("peer_db") \o Visit("session_db"), {}, t)
      BY <1>1, ConcatRespects
  <2>4. Respects(CanTakePong, {}, t)
      BY <1>1, <2>3, ConcatRespects DEF CanTakePong
  <2>5. Respects(CanTakePong \o Visit("peer_db"), {}, t)
      BY <1>1, <2>4, ConcatRespects
  <2>6. Respects(CanTakePong \o Guarded("peer_db", Visit("ping_db")), {}, t)
      BY <2>2, <2>4, ConcatRespects
  <2> QED  BY <2>1, <1>1, <2>3, <2>4, <2>5, <2>6 DEF HandlePong
<1>8. CASE h = "link_state"
  <2>1. s \in HandleLsa
      BY <1>8 DEF Script
  <2> QED  BY <2>1, <1>1, <1>2, ConcatRespects DEF HandleLsa, FloodLsaExceptSender
<1>9. CASE h = "ping_peers"
  <2>1. s \in PingPeers
      BY <1>9 DEF Script
  <2>2. Respects(Guarded("peer_db", Guarded("session_db", <<>>)), {}, t)
      BY <1>2 DEF GetNeighborAddresses
  <2>3. Respects(CleanStalePings \o Guarded("peer_db",
                    Guarded("session_db", <<>>)), {}, t)
      BY <1>1, <2>2, ConcatRespects DEF CleanStalePings
  <2> QED  BY <2>1, <2>3, <1>1, ConcatRespects DEF PingPeers, SendPing
<1>10. CASE h = "monitor_peers"
  <2>1. s \in RemoveStalePeers /\ t \in Relocking
      BY <1>10 DEF Script, TaskOf, Relocking
  <2>2. Respects(Guarded("peer_db", Guarded("session_db", BroadcastLsa)), {}, t)
    <3>1. Stops(BroadcastLsa, {"peer_db", "session_db"}, t)
        BY <2>1, BroadcastLsaStops
    <3> QED  BY <3>1, StopsRespects, BothRespect
  <2> QED  BY <2>1, <2>2, <1>1, ConcatRespects DEF RemoveStalePeers
<1>11. CASE h = "collect_metrics"
  <2>1. s \in UpdateMetrics
      BY <1>11 DEF Script
  <2> QED  BY <2>1, <1>2 DEF UpdateMetrics, GetNeighborAddresses
<1>12. CASE h = "lsa_refresh"
  <2>1. s \in LsaRefresh
      BY <1>12 DEF Script
  <2> QED  BY <2>1, <1>3 DEF LsaRefresh
<1>13. CASE h = "lsa_cleanup"
  <2>1. s \in CleanupStaleLsas
      BY <1>13 DEF Script
  <2> QED  BY <2>1, <1>1 DEF CleanupStaleLsas
<1> QED  BY <1>4, <1>5, <1>6, <1>7, <1>8, <1>9, <1>10, <1>11, <1>12, <1>13 DEF Handler

-----------------------------------------------------------------------------
(* The inductive invariant.                                                *)

Held(t) == {l \in Lock : owner[l] = t}

\* Who queues for a lock is about to take it, and queues once.
QueueInv ==
    \A l \in Lock : \A i \in DOMAIN queue[l] :
        /\ AtOp(queue[l][i], "lock", l)
        /\ \A j \in DOMAIN queue[l] : queue[l][i] = queue[l][j] => i = j

DisciplineInv == \A t \in Task : Disciplined(todo[t], Held(t), t)

TaskInv == TypeOK /\ QueueInv /\ DisciplineInv

\* AtOp in the terms of the discipline.
LEMMA AtOpIsHead ==
    ASSUME NEW t, NEW l
    PROVE  /\ AtOp(t, "lock", l) <=> todo[t] # <<>> /\ Head(todo[t]) = LockOp(l)
           /\ AtOp(t, "unlock", l) <=> todo[t] # <<>> /\ Head(todo[t]) = UnlockOp(l)
BY DEF AtOp, LockOp, UnlockOp

\* A task is at one operation only.
LEMMA OneOp ==
    ASSUME NEW t, NEW l, NEW k
    PROVE  /\ ~(AtOp(t, "lock", l) /\ AtOp(t, "unlock", k))
           /\ AtOp(t, "lock", l) /\ AtOp(t, "lock", k) => l = k
BY AtOpIsHead, DifferentOps

\* What a task may do with the guards in its hand.
LEMMA TaskStep ==
    ASSUME TaskInv, NEW t \in Task
    PROVE  /\ Held(t) \in SUBSET Lock
           /\ todo[t] \in Seq(Op)
           /\ todo[t] = <<>> => Held(t) = {}
           /\ \A l \in Lock : AtOp(t, "lock", l) =>
                 /\ MayAsk(l, Held(t), t)
                 /\ Tail(todo[t]) \in Seq(Op)
                 /\ owner[l] # t => Disciplined(Tail(todo[t]), Held(t) \cup {l}, t)
           /\ \A l \in Lock : AtOp(t, "unlock", l) =>
                 /\ owner[l] = t
                 /\ Tail(todo[t]) \in Seq(Op)
                 /\ Disciplined(Tail(todo[t]), Held(t) \ {l}, t)
<1>1. /\ Held(t) \in SUBSET Lock
      /\ todo[t] \in Seq(Op)
      /\ \A l \in Lock : l \in Held(t) <=> owner[l] = t
      /\ Disciplined(todo[t], Held(t), t)
    BY DEF TaskInv, TypeOK, DisciplineInv, Held
<1>2. todo[t] # <<>> => Tail(todo[t]) \in Seq(Op)
    BY <1>1, HeadTailProperties
<1> QED  BY <1>1, <1>2, Unfold, AtOpIsHead

\* A task whose next operation is not the lock it would queue for is in no
\* queue; who waits in a queue is a task.
LEMMA QueueFacts ==
    ASSUME TaskInv, NEW l \in Lock
    PROVE  /\ queue[l] \in Seq(Task)
           /\ DOMAIN queue[l] = 1 .. Len(queue[l])
           /\ Len(queue[l]) \in Nat
           /\ \A i \in DOMAIN queue[l] : queue[l][i] \in Task
           /\ \A t : Queued(t, l) => AtOp(t, "lock", l)
BY LenProperties, ElementOfSeq DEF TaskInv, TypeOK, QueueInv, Queued

LEMMA InitTaskInv == Init => TaskInv
<1> SUFFICES ASSUME Init PROVE TaskInv
    OBVIOUS
<1>1. TypeOK
    BY EmptySeq DEF Init, TypeOK
<1>2. QueueInv
    BY EmptySeq DEF Init, QueueInv
<1>3. DisciplineInv
  <2> SUFFICES ASSUME NEW t \in Task PROVE Disciplined(todo[t], Held(t), t)
      BY DEF DisciplineInv
  <2>1. todo[t] = <<>> /\ Held(t) = {}
      BY DEF Init, Held, Task, Lock
  <2> QED  BY <2>1, Finished
<1> QED  BY <1>1, <1>2, <1>3 DEF TaskInv

\* The queues stay right when only tasks that are in no queue move on.
LEMMA QueueKept ==
    ASSUME TaskInv, queue' = queue,
           \A t \in Task : todo'[t] = todo[t] \/ \A l \in Lock : ~Queued(t, l)
    PROVE  QueueInv'
<1> SUFFICES ASSUME NEW l \in Lock, NEW i \in DOMAIN queue[l]
             PROVE  /\ AtOp(queue[l][i], "lock", l)'
                    /\ \A j \in DOMAIN queue[l] : queue[l][i] = queue[l][j] => i = j
    BY DEF QueueInv
<1>1. queue[l][i] \in Task /\ Queued(queue[l][i], l)
    BY QueueFacts DEF Queued
<1>2. todo'[queue[l][i]] = todo[queue[l][i]]
    BY <1>1
<1> QED  BY <1>2 DEF AtOp, TaskInv, QueueInv

LEMMA StartStep ==
    ASSUME TaskInv, NEW h \in Calls, Start(h)
    PROVE  TaskInv'
<1> DEFINE t == TaskOf(h)
<1>1. h \in Handler /\ t \in Task
    BY CallsAssumption DEF Handler, TaskOf, Task
<1>2. PICK s \in Script(h) : todo' = [todo EXCEPT ![t] = s]
    BY DEF Start
<1>3. s \in Seq(Op) /\ Disciplined(s, {}, t)
    BY <1>1, ScriptsRespect, ScriptDisciplined
<1>4. todo[t] = <<>> /\ Held(t) = {} /\ UNCHANGED <<owner, queue>>
    BY <1>1, TaskStep DEF Start
<1> HIDE DEF t
<1>5. TypeOK'
    BY <1>1, <1>2, <1>3, <1>4 DEF TaskInv, TypeOK
<1>6. QueueInv'
  <2>1. \A l \in Lock : ~Queued(t, l)
      BY <1>4, QueueFacts DEF AtOp
  <2>2. \A u \in Task : u # t => todo'[u] = todo[u]
      BY <1>2 DEF TaskInv, TypeOK
  <2> QED  BY <2>1, <2>2, <1>4, QueueKept
<1>7. DisciplineInv'
  <2> SUFFICES ASSUME NEW u \in Task PROVE Disciplined(todo[u], Held(u), u)'
      BY DEF DisciplineInv
  <2>1. Held(u)' = Held(u)
      BY <1>4 DEF Held
  <2>2. todo'[u] = IF u = t THEN s ELSE todo[u]
      BY <1>1, <1>2 DEF TaskInv, TypeOK
  <2> QED  BY <1>3, <1>4, <2>1, <2>2 DEF TaskInv, DisciplineInv
<1> QED  BY <1>5, <1>6, <1>7 DEF TaskInv

LEMMA AcquireStep ==
    ASSUME TaskInv, NEW t \in Task, NEW l \in Lock, Acquire(t, l)
    PROVE  TaskInv'
<1>1. AtOp(t, "lock", l) /\ owner[l] = "none" /\ queue' = queue
    BY DEF Acquire
<1>2. owner' = [owner EXCEPT ![l] = t] /\ todo' = [todo EXCEPT ![t] = Tail(@)]
    BY DEF Acquire
<1>3. owner[l] # t /\ queue[l] = <<>>
    BY <1>1 DEF Task, TaskInv, TypeOK
<1>4. Tail(todo[t]) \in Seq(Op) /\ Disciplined(Tail(todo[t]), Held(t) \cup {l}, t)
    BY <1>1, <1>3, TaskStep
<1>5. TypeOK'
    BY <1>1, <1>2, <1>3, <1>4 DEF TaskInv, TypeOK
<1>6. QueueInv'
  <2>1. \A k \in Lock : Queued(t, k) => k = l
      BY <1>1, QueueFacts, OneOp
  <2>0. ~Queued(t, l)
      BY <1>3, EmptySeq DEF Queued
  <2>2. \A u \in Task : u # t => todo'[u] = todo[u]
      BY <1>2 DEF TaskInv, TypeOK
  <2> QED  BY <2>0, <2>1, <2>2, <1>1, QueueKept
<1>7. DisciplineInv'
  <2> SUFFICES ASSUME NEW u \in Task PROVE Disciplined(todo[u], Held(u), u)'
      BY DEF DisciplineInv
  <2>1. \A k \in Lock : owner'[k] = IF k = l THEN t ELSE owner[k]
      BY <1>2 DEF TaskInv, TypeOK
  <2>2. CASE u = t
    <3>1. Held(t)' = Held(t) \cup {l}
        BY <2>1 DEF Held
    <3>2. todo'[t] = Tail(todo[t])
        BY <1>2 DEF TaskInv, TypeOK
    <3> QED  BY <1>4, <2>2, <3>1, <3>2
  <2>3. CASE u # t
    <3>1. Held(u)' = Held(u)
        BY <1>1, <2>1, <2>3 DEF Held, Task
    <3>2. todo'[u] = todo[u]
        BY <1>2, <2>3 DEF TaskInv, TypeOK
    <3> QED  BY <3>1, <3>2 DEF TaskInv, DisciplineInv
  <2> QED  BY <2>2, <2>3
<1> QED  BY <1>5, <1>6, <1>7 DEF TaskInv

LEMMA WaitStep ==
    ASSUME TaskInv, NEW t \in Task, NEW l \in Lock, Wait(t, l)
    PROVE  TaskInv'
<1>1. AtOp(t, "lock", l) /\ owner[l] # "none" /\ ~Queued(t, l)
    BY DEF Wait
<1>2. queue' = [queue EXCEPT ![l] = Append(@, t)] /\ UNCHANGED <<todo, owner>>
    BY DEF Wait
<1>3. TypeOK'
    BY <1>1, <1>2 DEF TaskInv, TypeOK
<1>4. DisciplineInv'
    BY <1>2 DEF TaskInv, DisciplineInv, Held
<1>5. QueueInv'
  <2> SUFFICES ASSUME NEW k \in Lock, NEW i \in DOMAIN queue'[k]
               PROVE  /\ AtOp(queue'[k][i], "lock", k)
                      /\ \A j \in DOMAIN queue'[k] :
                            queue'[k][i] = queue'[k][j] => i = j
      BY <1>2 DEF QueueInv, AtOp
  <2>1. CASE k # l
    <3>1. queue'[k] = queue[k]
        BY <1>2, <2>1 DEF TaskInv, TypeOK
    <3> QED  BY <3>1 DEF TaskInv, QueueInv
  <2>2. CASE k = l
    <3>1. /\ queue[l] \in Seq(Task) /\ Len(queue[l]) \in Nat
          /\ DOMAIN queue[l] = 1 .. Len(queue[l])
        BY QueueFacts
    <3>2. queue'[l] = Append(queue[l], t)
        BY <1>2 DEF TaskInv, TypeOK
    <3>3. /\ DOMAIN queue'[l] = 1 .. Len(queue[l]) + 1
          /\ \A j \in 1 .. Len(queue[l]) : queue'[l][j] = queue[l][j]
          /\ queue'[l][Len(queue[l]) + 1] = t
        BY <3>1, <3>2
    <3>4. \A j \in 1 .. Len(queue[l]) : queue[l][j] # t
        BY <1>1, <3>1 DEF Queued
    <3>5. \A m, j \in 1 .. Len(queue[l]) :
              /\ AtOp(queue[l][m], "lock", l)
              /\ queue[l][m] = queue[l][j] => m = j
        BY <3>1 DEF TaskInv, QueueInv
    <3>6. \A j \in DOMAIN queue'[l] :
              j \in 1 .. Len(queue[l]) \/ j = Len(queue[l]) + 1
        BY <3>1, <3>3
    <3> QED  BY <1>1, <2>2, <3>3, <3>4, <3>5, <3>6
  <2> QED  BY <2>1, <2>2
<1> QED  BY <1>3, <1>4, <1>5 DEF TaskInv

\* What is left of the guards of t, and what others hold, when t drops l.
LEMMA ReleaseStep ==
    ASSUME TaskInv, NEW t \in Task, NEW l \in Lock, Release(t, l)
    PROVE  TaskInv'
<1>1. AtOp(t, "unlock", l) /\ queue[l] = <<>> /\ queue' = queue
    BY DEF Release
<1>2. owner' = [owner EXCEPT ![l] = "none"] /\ todo' = [todo EXCEPT ![t] = Tail(@)]
    BY DEF Release
<1>3. /\ owner[l] = t
      /\ Tail(todo[t]) \in Seq(Op)
      /\ Disciplined(Tail(todo[t]), Held(t) \ {l}, t)
    BY <1>1, TaskStep
<1>4. TypeOK'
    BY <1>1, <1>2, <1>3 DEF TaskInv, TypeOK
<1>5. QueueInv'
  <2>1. \A k \in Lock : ~Queued(t, k)
      BY <1>1, QueueFacts, OneOp
  <2>2. \A u \in Task : u # t => todo'[u] = todo[u]
      BY <1>2 DEF TaskInv, TypeOK
  <2> QED  BY <2>1, <2>2, <1>1, QueueKept
<1>6. DisciplineInv'
  <2> SUFFICES ASSUME NEW u \in Task PROVE Disciplined(todo[u], Held(u), u)'
      BY DEF DisciplineInv
  <2>1. \A k \in Lock : owner'[k] = IF k = l THEN "none" ELSE owner[k]
      BY <1>2 DEF TaskInv, TypeOK
  <2>2. CASE u = t
    <3>1. Held(t)' = Held(t) \ {l}
        BY <2>1 DEF Held, Task
    <3>2. todo'[t] = Tail(todo[t])
        BY <1>2 DEF TaskInv, TypeOK
    <3> QED  BY <1>3, <2>2, <3>1, <3>2
  <2>3. CASE u # t
    <3>1. Held(u)' = Held(u)
        BY <1>3, <2>1, <2>3 DEF Held, Task
    <3>2. todo'[u] = todo[u]
        BY <1>2, <2>3 DEF TaskInv, TypeOK
    <3> QED  BY <3>1, <3>2 DEF TaskInv, DisciplineInv
  <2> QED  BY <2>2, <2>3
<1> QED  BY <1>4, <1>5, <1>6 DEF TaskInv

LEMMA HandOverStep ==
    ASSUME TaskInv, NEW t \in Task, NEW l \in Lock, HandOver(t, l)
    PROVE  TaskInv'
<1>1. AtOp(t, "unlock", l) /\ queue[l] # <<>>
    BY DEF HandOver
<1>3. /\ owner[l] = t
      /\ Tail(todo[t]) \in Seq(Op)
      /\ Disciplined(Tail(todo[t]), Held(t) \ {l}, t)
    BY <1>1, TaskStep
<1>4. /\ queue[l] \in Seq(Task) /\ Len(queue[l]) \in Nat
      /\ DOMAIN queue[l] = 1 .. Len(queue[l])
      /\ 1 \in DOMAIN queue[l] /\ queue[l][1] = Head(queue[l])
    BY <1>1, QueueFacts, EmptySeq
<1>w. PICK w \in Task : w = queue[l][1]
    BY <1>4, QueueFacts
<1>2. /\ owner' = [owner EXCEPT ![l] = w]
      /\ todo' = [todo EXCEPT ![t] = Tail(@), ![w] = Tail(@)]
      /\ queue' = [queue EXCEPT ![l] = Tail(@)]
    BY <1>4, <1>w DEF HandOver
<1>5. AtOp(w, "lock", l)
    BY <1>4, <1>w DEF TaskInv, QueueInv
<1>6. w # t
    BY <1>1, <1>5, OneOp
<1>7. Tail(todo[w]) \in Seq(Op) /\ Disciplined(Tail(todo[w]), Held(w) \cup {l}, w)
    BY <1>3, <1>5, <1>6, TaskStep
<1>8. \A u \in Task : todo'[u] = IF u = t \/ u = w THEN Tail(todo[u]) ELSE todo[u]
    BY <1>2, <1>5, <1>6 DEF TaskInv, TypeOK
<1>9. /\ Tail(queue[l]) \in Seq(Task)
      /\ Len(Tail(queue[l])) = Len(queue[l]) - 1
      /\ \A i \in 1 .. Len(queue[l]) - 1 : Tail(queue[l])[i] = queue[l][i + 1]
    BY <1>1, <1>4, HeadTailProperties
<1>10. TypeOK'
  <2>1. todo' \in [Task -> Seq(Op)]
      BY <1>2, <1>3, <1>5, <1>6, <1>7 DEF TaskInv, TypeOK
  <2>2. owner' \in [Lock -> Task \cup {"none"}] /\ queue' \in [Lock -> Seq(Task)]
      BY <1>2, <1>5, <1>9 DEF TaskInv, TypeOK
  <2>3. ASSUME NEW k \in Lock, owner'[k] = "none"
        PROVE  queue'[k] = <<>>
    <3>1. k # l
        BY <1>2, <1>5, <2>3 DEF TaskInv, TypeOK, Task
    <3> QED  BY <1>2, <2>3, <3>1 DEF TaskInv, TypeOK
  <2> QED  BY <2>1, <2>2, <2>3 DEF TypeOK
<1>11. QueueInv'
  <2> SUFFICES ASSUME NEW k \in Lock, NEW i \in DOMAIN queue'[k]
               PROVE  /\ AtOp(queue[k][i], "lock", k)'
                      /\ \A j \in DOMAIN queue'[k] :
                            queue'[k][i] = queue'[k][j] => i = j
      BY DEF QueueInv
  <2>1. \A u \in Task : u # w /\ AtOp(u, "lock", k) => AtOp(u, "lock", k)'
      BY <1>1, <1>8, OneOp DEF AtOp
  <2>2. CASE k # l
    <3>1. queue'[k] = queue[k]
        BY <1>2, <2>2 DEF TaskInv, TypeOK
    <3>2. AtOp(queue[k][i], "lock", k) /\ queue[k][i] \in Task
        BY <3>1, QueueFacts DEF TaskInv, QueueInv
    <3>3. queue[k][i] # w
        BY <1>5, <2>2, <3>2, OneOp
    <3>4. AtOp(queue[k][i], "lock", k)'
        BY <2>1, <3>1, <3>2, <3>3 DEF AtOp
    <3> QED  BY <3>1, <3>4 DEF TaskInv, QueueInv
  <2>3. CASE k = l
    <3>1. queue'[l] = Tail(queue[l])
        BY <1>2 DEF TaskInv, TypeOK
    <3>2. DOMAIN queue'[l] = 1 .. Len(queue[l]) - 1
        BY <1>4, <1>9, <3>1, LenProperties
    <3>3. \A j \in DOMAIN queue'[l] :
              /\ queue'[l][j] = queue[l][j + 1]
              /\ j + 1 \in DOMAIN queue[l] /\ j + 1 # 1
              /\ j \in Int
        BY <1>4, <1>9, <3>1, <3>2
    <3>4. \A m, j \in DOMAIN queue[l] :
              /\ AtOp(queue[l][m], "lock", l) /\ queue[l][m] \in Task
              /\ queue[l][m] = queue[l][j] => m = j
        BY QueueFacts DEF TaskInv, QueueInv
    <3>5. AtOp(queue[l][i], "lock", l)'
      <4>1. /\ queue'[l][i] = queue[l][i + 1]
            /\ i + 1 \in DOMAIN queue[l] /\ i + 1 # 1
          BY <2>3, <3>3
      <4>2. queue[l][i + 1] \in Task /\ AtOp(queue[l][i + 1], "lock", l)
          BY <3>4, <4>1
      <4>3. queue[l][i + 1] # w
          BY <1>4, <1>w, <3>4, <4>1
      <4> QED  BY <2>1, <2>3, <4>1, <4>2, <4>3 DEF AtOp
    <3>6. ASSUME NEW j \in DOMAIN queue'[l], queue'[l][i] = queue'[l][j]
          PROVE  i = j
      <4>1. i + 1 = j + 1
          BY <2>3, <3>3, <3>4, <3>6
      <4> QED  BY <2>3, <3>3, <4>1
    <3> QED  BY <2>3, <3>5, <3>6
  <2> QED  BY <2>2, <2>3
<1>12. DisciplineInv'
  <2> SUFFICES ASSUME NEW u \in Task PROVE Disciplined(todo[u], Held(u), u)'
      BY DEF DisciplineInv
  <2>1. \A k \in Lock : owner'[k] = IF k = l THEN w ELSE owner[k]
      BY <1>2 DEF TaskInv, TypeOK
  <2>2. CASE u = t
    <3>1. Held(t)' = Held(t) \ {l}
        BY <1>6, <2>1 DEF Held
    <3> QED  BY <1>3, <1>8, <2>2, <3>1
  <2>3. CASE u = w
    <3>1. Held(w)' = Held(w) \cup {l}
        BY <2>1 DEF Held
    <3> QED  BY <1>7, <1>8, <2>3, <3>1
  <2>4. CASE u # t /\ u # w
    <3>1. Held(u)' = Held(u)
        BY <1>3, <2>1, <2>4 DEF Held
    <3> QED  BY <1>8, <2>4, <3>1 DEF TaskInv, DisciplineInv
  <2> QED  BY <2>2, <2>3, <2>4
<1> QED  BY <1>10, <1>11, <1>12 DEF TaskInv

LEMMA NextTaskInv == TaskInv /\ [Next]_vars => TaskInv'
<1> SUFFICES ASSUME TaskInv, [Next]_vars PROVE TaskInv'
    OBVIOUS
<1>1. ASSUME NEW h \in Calls, Start(h) PROVE TaskInv'
    BY <1>1, StartStep
<1>2. ASSUME NEW t \in Task, Step(t) PROVE TaskInv'
    BY <1>2, AcquireStep, WaitStep, ReleaseStep, HandOverStep DEF Step
<1>3. CASE UNCHANGED vars
    BY <1>3 DEF vars, TaskInv, TypeOK, QueueInv, DisciplineInv, AtOp, Held
<1> QED  BY <1>1, <1>2, <1>3 DEF Next

LEMMA TaskInvHolds == Spec => []TaskInv
BY InitTaskInv, NextTaskInv, PTL DEF Spec

-----------------------------------------------------------------------------
(* Theorems.                                                               *)

\* Whatever messages and ticks come, the state is well formed and a free lock
\* has no waiters: when a handler drops a guard of a tokio Mutex, the wake-up
\* of the task that waits for it is never lost.
THEOREM TypeCorrect == Spec => []TypeOK
BY TaskInvHolds, PTL DEF TaskInv

LEMMA OrderFromInv == TaskInv => LockOrder
<1> SUFFICES ASSUME TaskInv, NEW t \in Task, NEW l \in Lock, NEW k \in Lock,
                    AtOp(t, "lock", l), owner[k] = t
             PROVE  \/ Rank(k) < Rank(l)
                    \/ t \in Relocking /\ k = l /\ l = "session_db"
    BY DEF LockOrder
<1>1. MayAsk(l, Held(t), t) /\ k \in Held(t)
    BY TaskStep DEF Held
<1> QED  BY <1>1 DEF MayAsk

\* For every set of handlers: all code paths of the node nest their guards in
\* one order, peer_db before session_db before the others, and the only lock a
\* handler asks for while it holds it is session_db, in broadcast_lsa called
\* from handle_handshake or remove_stale_peers.
THEOREM GuardsNestInOrder == Spec => []LockOrder
BY TaskInvHolds, OrderFromInv, PTL

\* In a circle of waiting tasks without a self-wait, every waiter's lock is
\* held by a waiter for a lock of higher rank.
LEMMA RankClimbs ==
    ASSUME TaskInv, NEW S \in SUBSET Task,
           \A t \in S : \E u \in S : WaitsFor(t, u),
           \A t \in S \cap Relocking : ~WaitsFor(t, t),
           NEW t \in S, NEW l \in Lock, Queued(t, l)
    PROVE  \E u \in S, k \in Lock : Queued(u, k) /\ Rank(l) < Rank(k)
<1>1. PICK u \in S, k \in Lock : Queued(t, k) /\ owner[k] = u
    BY DEF WaitsFor
<1>2. k = l
    BY <1>1, QueueFacts, OneOp
<1>3. PICK v \in S, m \in Lock : Queued(u, m) /\ owner[m] = v
    BY DEF WaitsFor
<1>4. AtOp(u, "lock", m)
    BY <1>3, QueueFacts
<1>5. \/ Rank(l) < Rank(m)
      \/ u \in Relocking /\ l = m
    BY <1>1, <1>2, <1>4, OrderFromInv DEF LockOrder
<1>6. ~(u \in Relocking /\ l = m)
    BY <1>1, <1>2, <1>3 DEF WaitsFor
<1> QED  BY <1>3, <1>5, <1>6

LEMMA CirclesFromInv == TaskInv => OnlySelfWaits
<1> SUFFICES ASSUME TaskInv,
                    NEW S \in SUBSET {t \in Task : \E l \in Lock : Queued(t, l)},
                    S # {}, \A t \in S : \E u \in S : WaitsFor(t, u),
                    \A t \in S \cap Relocking : ~WaitsFor(t, t)
             PROVE  FALSE
    BY DEF OnlySelfWaits
<1>1. S \in SUBSET Task
    OBVIOUS
<1>2. \A l \in Lock : Rank(l) \in 1 .. 3
    BY DEF Rank
<1>3. PICK t1 \in S, l1 \in Lock : Queued(t1, l1)
    OBVIOUS
<1>4. PICK t2 \in S, l2 \in Lock : Queued(t2, l2) /\ Rank(l1) < Rank(l2)
    BY <1>1, <1>3, RankClimbs
<1>5. PICK t3 \in S, l3 \in Lock : Queued(t3, l3) /\ Rank(l2) < Rank(l3)
    BY <1>1, <1>4, RankClimbs
<1>6. PICK t4 \in S, l4 \in Lock : Queued(t4, l4) /\ Rank(l3) < Rank(l4)
    BY <1>1, <1>5, RankClimbs
<1> QED  BY <1>2, <1>4, <1>5, <1>6

\* For every set of handlers: a deadlock between the node's tasks, of whatever
\* length, always contains the receive loop or the peer monitor waiting for its
\* own guard of session_db in broadcast_lsa; the order of the locks rules out
\* every other one.
THEOREM DeadlockIsSelfWait == Spec => []OnlySelfWaits
BY TaskInvHolds, CirclesFromInv, PTL

LEMMA RunsFromInv == TaskInv => SomebodyRuns
<1> SUFFICES ASSUME TaskInv, NEW t0 \in Task, todo[t0] # <<>>,
                    \A t \in Task : ~WaitsFor(t, t),
                    \A t \in Task : todo[t] # <<>> => \E l \in Lock : Queued(t, l)
             PROVE  FALSE
    BY DEF SomebodyRuns
<1> DEFINE S == {t \in Task : todo[t] # <<>>}
<1>1. S \in SUBSET {t \in Task : \E l \in Lock : Queued(t, l)} /\ S # {}
    OBVIOUS
<1>2. ASSUME NEW t \in S PROVE \E u \in S : WaitsFor(t, u)
  <2>1. PICK l \in Lock : Queued(t, l)
      OBVIOUS
  <2>2. queue[l] # <<>>
      BY <2>1, EmptySeq DEF Queued
  <2>3. owner[l] \in Task
      BY <2>2 DEF TaskInv, TypeOK
  <2>4. l \in Held(owner[l])
      BY DEF Held
  <2>5. todo[owner[l]] # <<>>
      BY <2>3, <2>4, TaskStep
  <2> QED  BY <2>1, <2>3, <2>5 DEF WaitsFor
<1> HIDE DEF S
<1> QED  BY <1>1, <1>2, CirclesFromInv DEF OnlySelfWaits

\* For every set of handlers: a node at work in which no task waits for its own
\* guard always has a task that waits for nobody.  This is the part of "every
\* handler returns" that does not rest on fairness.
THEOREM NodeNeverStalls == Spec => []SomebodyRuns
BY TaskInvHolds, RunsFromInv, PTL

=============================================================================
