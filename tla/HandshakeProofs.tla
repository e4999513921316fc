--------------------------- MODULE HandshakeProofs ---------------------------
(***************************************************************************)
(* Theorems about Handshake, for every set of node ids, every bound on the *)
(* keys and every set of faults.                                           *)
(***************************************************************************)
EXTENDS HandshakeInv, TLAPS

USE NodeAssumption, EphAssumption, GuardAssumption, FaultsAssumption

-----------------------------------------------------------------------------
(* Typing.                                                                 *)

\* A handler works on a session of the right type.
LEMMA CurrentType ==
    ASSUME TypeOK, NEW n \in Node, NEW p \in Node
    PROVE  Current(n, p) \in Session
<1>1. session[n][p] \in Session
  BY DEF TypeOK
<1>2. Plain("ExpectingInitiator") \in Session
  BY DEF Plain, Session, NoiseState, Eph
<1>3. QED
  BY <1>1, <1>2 DEF Current

LEMMA NoSessionType == NoSession \in Session /\ Plain("Transitioning") \in Session
BY DEF NoSession, Plain, Session, NoiseState, Eph

\* What is left of the network was there before.
LEMMA RestSubset ==
    ASSUME NEW m, NEW rest \in Rest(m)
    PROVE  rest \subseteq net
BY DEF Rest

\* The initial state has the type.
LEMMA TypeInit == Init => TypeOK
BY NoSessionType DEF Init, TypeOK, Eph, RxState, Idle

\* A handshake datagram preserves the type, whichever way it is handled.
LEMMA TypeHandshake ==
    ASSUME TypeOK, NEW n \in Node, ReceiveHandshake(n)
    PROVE  TypeOK'
<1>1. PICK m \in net :
        /\ m.to = n
        /\ \/ RejectUnsolicited(n, m)
           \/ RespondToFirst(n, m)
           \/ FinishAsInitiator(n, m)
           \/ FinishAsResponder(n, m)
           \/ ReadFails(n, m)
           \/ UnexpectedState(n, m)
  BY DEF ReceiveHandshake
<1>2. /\ m \in Message /\ m.from \in Node
      /\ m.e \in Eph /\ m.re \in Eph /\ m.e > 0
      /\ m.kind = 2 => m.re > 0
  BY DEF TypeOK, Message
<1>3. Current(n, m.from) \in Session
  BY <1>2, CurrentType
<1>4. UNCHANGED <<up, peer, rx, mon, hello>>
  BY DEF ReceiveHandshake
<1>5. SUFFICES /\ session' \in [Node -> [Node -> Session]]
               /\ guard' \in [Node -> {"free", "receive", "monitor"}]
               /\ eph' \in [Node -> Eph]
               /\ net' \subseteq Message
  BY <1>4 DEF TypeOK
<1>6. CASE RejectUnsolicited(n, m)
  BY <1>6, RestSubset DEF RejectUnsolicited, TypeOK
<1>7. CASE RespondToFirst(n, m)
  <2>1. eph[n] + 1 \in Eph /\ eph[n] + 1 > 0
    BY <1>7 DEF RespondToFirst, TypeOK, Eph
  <2>2. [st |-> "Handshaking", e |-> m.e, re |-> eph[n] + 1] \in Session
    BY <1>2, <2>1 DEF Session, NoiseState
  <2>3. Datagram(2, n, m.from, m.e, eph[n] + 1) \in Message
    BY <1>2, <2>1 DEF Datagram, Message
  <2>4. net' \subseteq Message
    BY <1>7, <2>3, RestSubset DEF RespondToFirst, TypeOK
  <2>5. QED
    BY <1>2, <1>7, <2>1, <2>2, <2>4 DEF RespondToFirst, TypeOK
<1>8. CASE FinishAsInitiator(n, m)
  <2>0. m.re > 0
    BY <1>2, <1>8 DEF FinishAsInitiator, ReadMessage
  <2>1. [st |-> "Transport", e |-> m.e, re |-> m.re] \in Session
    BY <1>2, <2>0 DEF Session, NoiseState
  <2>2. Datagram(3, n, m.from, m.e, m.re) \in Message
    BY <1>2, <2>0 DEF Datagram, Message
  <2>3. net' \subseteq Message
    BY <1>8, <2>2, RestSubset DEF FinishAsInitiator, TypeOK
  <2>4. QED
    BY <1>2, <1>8, <2>1, <2>3 DEF FinishAsInitiator, TypeOK
<1>9. CASE FinishAsResponder(n, m)
  <2> DEFINE s == Current(n, m.from)
  <2>1. [st |-> "Transport", e |-> s.e, re |-> s.re] \in Session
    BY <1>3, <1>9 DEF FinishAsResponder, Session, NoiseState
  <2>2. QED
    BY <1>2, <1>9, <2>1, RestSubset DEF FinishAsResponder, TypeOK
<1>10. CASE ReadFails(n, m)
  BY <1>2, <1>10, NoSessionType, RestSubset DEF ReadFails, TypeOK
<1>11. CASE UnexpectedState(n, m)
  BY <1>2, <1>3, <1>11, RestSubset DEF UnexpectedState, TypeOK
<1>12. QED
  BY <1>1, <1>6, <1>7, <1>8, <1>9, <1>10, <1>11

\* Every step preserves the type.
LEMMA TypeNext == TypeOK /\ [Next]_vars => TypeOK'
<1> SUFFICES ASSUME TypeOK, [Next]_vars PROVE TypeOK'
  OBVIOUS
<1>1. ASSUME NEW n \in Node, BroadcastHello(n) PROVE TypeOK'
  BY <1>1 DEF BroadcastHello, TypeOK
<1>2. ASSUME NEW n \in Node, UpdatePeer(n) PROVE TypeOK'
  BY <1>2 DEF UpdatePeer, TypeOK, RxState, Idle
<1>3. ASSUME NEW n \in Node, HandleHello(n) PROVE TypeOK'
  <2>1. rx[n].from \in Node /\ rx' \in [Node -> RxState]
    BY <1>3 DEF HandleHello, TypeOK, RxState, Idle
  <2>2. CASE BecomeResponder(n, rx[n].from)
    <3>1. Plain("ExpectingInitiator") \in Session
      BY DEF Plain, Session, NoiseState, Eph
    <3>2. QED
      BY <1>3, <2>1, <2>2, <3>1 DEF HandleHello, BecomeResponder, TypeOK
  <2>3. CASE BecomeInitiator(n, rx[n].from)
    <3>1. eph[n] + 1 \in Eph /\ eph[n] + 1 > 0 /\ 0 \in Eph
      BY <2>3 DEF BecomeInitiator, TypeOK, Eph
    <3>2. [st |-> "Handshaking", e |-> eph[n] + 1, re |-> 0] \in Session
      BY <3>1 DEF Session, NoiseState
    <3>3. Datagram(1, n, rx[n].from, eph[n] + 1, 0) \in Message
      BY <2>1, <3>1 DEF Datagram, Message
    <3>4. QED
      BY <1>3, <2>1, <2>3, <3>1, <3>2, <3>3
         DEF HandleHello, BecomeInitiator, TypeOK
  <2>4. QED
    BY <1>3, <2>2, <2>3 DEF HandleHello
<1>4. ASSUME NEW n \in Node, ReceiveHandshake(n) PROVE TypeOK'
  BY <1>4, TypeHandshake
<1>5. ASSUME NEW n \in Node, CollectStale(n) PROVE TypeOK'
  BY <1>5 DEF CollectStale, TypeOK
<1>6. ASSUME NEW n \in Node, RemoveStale(n) PROVE TypeOK'
  BY <1>6, NoSessionType DEF RemoveStale, TypeOK
<1>7. ASSUME NEW n \in Node, Crash(n) PROVE TypeOK'
  BY <1>7 DEF Crash, TypeOK
<1>8. ASSUME NEW n \in Node, NEW p \in Node, ReceiveHello(n, p) PROVE TypeOK'
  BY <1>8 DEF ReceiveHello, TypeOK, RxState
<1>9. ASSUME NEW n \in Node, NEW p \in Node, Silence(n, p) PROVE TypeOK'
  BY <1>9 DEF Silence, TypeOK
<1>10. CASE Lose
  BY <1>10 DEF Lose, TypeOK
<1>11. CASE UNCHANGED vars
  BY <1>11 DEF vars, TypeOK
<1>12. QED
  BY <1>1, <1>2, <1>3, <1>4, <1>5, <1>6, <1>7, <1>8, <1>9, <1>10, <1>11
     DEF Next

\* The databases, task states and datagrams of every reachable state have the
\* types the model gives them.
THEOREM TypeCorrect == Spec => []TypeOK
BY TypeInit, TypeNext, PTL DEF Spec

-----------------------------------------------------------------------------
(* Single sessions and single datagrams.                                   *)

\* Keys are only ever added.
LEMMA EphGrows ==
    ASSUME TypeOK, [Next]_vars, NEW n \in Node
    PROVE  eph[n] \in Nat /\ eph'[n] \in Nat /\ eph[n] <= eph'[n]
<1>1. eph[n] \in Nat /\ eph'[n] \in Nat
  BY TypeNext DEF TypeOK, Eph
<1>2. ASSUME NEW q \in Node, HandleHello(q) PROVE eph[n] <= eph'[n]
  BY <1>1, <1>2 DEF HandleHello, BecomeResponder, BecomeInitiator, TypeOK
<1>3. ASSUME NEW q \in Node, ReceiveHandshake(q) PROVE eph[n] <= eph'[n]
  BY <1>1, <1>3 DEF ReceiveHandshake, RejectUnsolicited, RespondToFirst,
     FinishAsInitiator, FinishAsResponder, ReadFails, UnexpectedState, TypeOK
<1>4. CASE UNCHANGED eph
  BY <1>1, <1>4
<1>5. QED
  BY <1>1, <1>2, <1>3, <1>4 DEF Next, vars, BroadcastHello, UpdatePeer,
     CollectStale, RemoveStale, Crash, ReceiveHello, Silence, Lose

\* A datagram stays well formed while keys are added.
LEMMA MessageKept ==
    ASSUME TypeOK, [Next]_vars, NEW m \in Message, MessageOK(m)
    PROVE  MessageOK(m)'
<1>1. m.from \in Node /\ m.to \in Node /\ m.e \in Nat /\ m.re \in Nat
  BY DEF Message, Eph
<1>2. /\ eph[m.from] \in Nat /\ eph'[m.from] \in Nat /\ eph[m.from] <= eph'[m.from]
      /\ eph[m.to] \in Nat /\ eph'[m.to] \in Nat /\ eph[m.to] <= eph'[m.to]
  BY <1>1, EphGrows
<1>3. QED
  BY <1>1, <1>2 DEF MessageOK

\* The keys of a session are numbers.
LEMMA SessionFields ==
    ASSUME TypeOK, NEW n \in Node, NEW p \in Node
    PROVE  session[n][p].e \in Nat /\ session[n][p].re \in Nat
<1>1. session[n][p] \in Session
  BY DEF TypeOK
<1>2. QED
  BY <1>1 DEF Session, Eph

\* So does a session that the step leaves alone.
LEMMA SessionKept ==
    ASSUME TypeOK, [Next]_vars, NEW n \in Node, NEW p \in Node,
           SessionOK(n, p), session'[n][p] = session[n][p]
    PROVE  SessionOK(n, p)'
<1>1. session[n][p].e \in Nat /\ session[n][p].re \in Nat
  BY SessionFields
<1>2. /\ eph[n] \in Nat /\ eph'[n] \in Nat /\ eph[n] <= eph'[n]
      /\ eph[p] \in Nat /\ eph'[p] \in Nat /\ eph[p] <= eph'[p]
  BY EphGrows
<1>3. QED
  BY <1>1, <1>2 DEF SessionOK, NoSession, Plain

-----------------------------------------------------------------------------
(* Every step is one of five, as far as sessions, keys and handshake       *)
(* datagrams are concerned.                                                *)

\* The session of n with p becomes t.
SetsSession(n, p, t) ==
    \A x, y \in Node :
        session'[x][y] = IF x = n /\ y = p THEN t ELSE session[x][y]

\* n builds a Noise state.
NewKey(n) == \A x \in Node : eph'[x] = IF x = n THEN eph[x] + 1 ELSE eph[x]

\* Datagrams get lost, sessions lose their keys.
Forgets ==
    /\ net' \subseteq net
    /\ eph' = eph
    /\ \A x, y \in Node :
          \/ session'[x][y] = session[x][y]
          \/ session'[x][y] = NoSession
          \/ x # y /\ session'[x][y] = Plain("Transitioning")
          \/ x < y /\ session'[x][y] = Plain("ExpectingInitiator")

\* The initiator n starts a run with p.
Starts(n, p) ==
    /\ n > p
    /\ session[n][p].st = "None"
    /\ SetsSession(n, p, [st |-> "Handshaking", e |-> eph[n] + 1, re |-> 0])
    /\ net' \subseteq net \cup {Datagram(1, n, p, eph[n] + 1, 0)}
    /\ NewKey(n)

\* The responder n answers message 1 of p.
Answers(n, p, m) ==
    /\ n < p
    /\ m \in net /\ m.kind = 1 /\ m.from = p /\ m.to = n
    /\ session[n][p].st \in {"None", "ExpectingInitiator"}
    /\ SetsSession(n, p, [st |-> "Handshaking", e |-> m.e, re |-> eph[n] + 1])
    /\ net' \subseteq net \cup {Datagram(2, n, p, m.e, eph[n] + 1)}
    /\ NewKey(n)

\* The initiator n finishes on message 2 of p.
FinishesFirst(n, p, m) ==
    /\ n > p
    /\ m \in net /\ m.kind = 2 /\ m.from = p /\ m.to = n
    /\ session[n][p].st = "Handshaking" /\ session[n][p].e = m.e
    /\ SetsSession(n, p, [st |-> "Transport", e |-> m.e, re |-> m.re])
    /\ \/ net' \subseteq net
       \/ GuardDropped /\ net' \subseteq net \cup {Datagram(3, n, p, m.e, m.re)}
    /\ ~GuardDropped => guard'[n] = "receive"
    /\ eph' = eph

\* The responder n finishes on message 3 of p.
FinishesSecond(n, p, m) ==
    /\ n < p
    /\ m \in net /\ m.kind = 3 /\ m.from = p /\ m.to = n
    /\ session[n][p].st = "Handshaking"
    /\ session[n][p].e = m.e /\ session[n][p].re = m.re
    /\ SetsSession(n, p, [st |-> "Transport", e |-> m.e, re |-> m.re])
    /\ net' \subseteq net
    /\ eph' = eph

\* A handshake datagram makes one of the last four steps or forgets something.
LEMMA HandshakeCases ==
    ASSUME BasicInv, NEW n \in Node, ReceiveHandshake(n)
    PROVE  \/ Forgets
           \/ \E p \in Node, m \in net :
                 Answers(n, p, m) \/ FinishesFirst(n, p, m) \/ FinishesSecond(n, p, m)
<1>1. PICK m \in net :
        /\ m.to = n
        /\ \/ RejectUnsolicited(n, m)
           \/ RespondToFirst(n, m)
           \/ FinishAsInitiator(n, m)
           \/ FinishAsResponder(n, m)
           \/ ReadFails(n, m)
           \/ UnexpectedState(n, m)
  BY DEF ReceiveHandshake
<1>2. TypeOK /\ m \in Message /\ m.from \in Node /\ MessageOK(m)
  BY DEF BasicInv, TypeOK, MessagesOK, Message
<1> n \in Nat /\ m.from \in Nat
  BY <1>2
<1>3. /\ n # m.from
      /\ m.kind = 1 => n < m.from
      /\ m.kind = 2 => n > m.from
      /\ m.kind = 3 => n < m.from
  <2>1. m.to = n /\ MessageOK(m)
    BY <1>1, <1>2
  <2>2. QED
    BY <2>1 DEF MessageOK
<1>4. session[n][m.from] \in Session /\ SessionOK(n, m.from)
  BY <1>2 DEF BasicInv, SessionsOK, TypeOK
<1>5. ASSUME NEW t, session' = [session EXCEPT ![n][m.from] = t]
      PROVE  SetsSession(n, m.from, t)
  BY <1>2, <1>5 DEF SetsSession, TypeOK
<1>6. CASE RejectUnsolicited(n, m)
  BY <1>6, RestSubset DEF RejectUnsolicited, Forgets
<1>7. CASE RespondToFirst(n, m)
  <2>1. /\ session[n][m.from].st \in {"None", "ExpectingInitiator"}
        /\ m.kind = 1
    BY <1>7 DEF RespondToFirst, Current, ReadMessage, Plain
  <2>2. net' \subseteq net \cup {Datagram(2, n, m.from, m.e, eph[n] + 1)}
    BY <1>7, RestSubset DEF RespondToFirst
  <2>3. NewKey(n)
    BY <1>2, <1>7 DEF RespondToFirst, NewKey, TypeOK
  <2>4. Answers(n, m.from, m)
    BY <1>1, <1>3, <1>5, <1>7, <2>1, <2>2, <2>3 DEF RespondToFirst, Answers
  <2>5. QED
    BY <1>2, <2>4
<1>8. CASE FinishAsInitiator(n, m)
  <2>1. Current(n, m.from) = session[n][m.from]
    BY <1>8 DEF FinishAsInitiator, Current, Plain
  <2>2. m.kind = 2 /\ session[n][m.from].st = "Handshaking"
                  /\ session[n][m.from].e = m.e
    BY <1>8, <2>1 DEF FinishAsInitiator, ReadMessage
  <2>3. \/ net' \subseteq net
        \/ GuardDropped /\ net' \subseteq net \cup {Datagram(3, n, m.from, m.e, m.re)}
    BY <1>8, RestSubset DEF FinishAsInitiator
  <2>4. ~GuardDropped => guard'[n] = "receive"
    BY <1>2, <1>8 DEF FinishAsInitiator, TypeOK
  <2>5. FinishesFirst(n, m.from, m)
    BY <1>1, <1>3, <1>5, <1>8, <2>2, <2>3, <2>4 DEF FinishAsInitiator, FinishesFirst
  <2>6. QED
    BY <1>2, <2>5
<1>9. CASE FinishAsResponder(n, m)
  <2>1. Current(n, m.from) = session[n][m.from]
    BY <1>9 DEF FinishAsResponder, Current, Plain
  <2>2. /\ m.kind = 3 /\ session[n][m.from].st = "Handshaking"
        /\ session[n][m.from].e = m.e /\ session[n][m.from].re = m.re
    BY <1>4, <1>9, <2>1 DEF FinishAsResponder, ReadMessage, Session, Eph
  <2>3. FinishesSecond(n, m.from, m)
    BY <1>1, <1>3, <1>5, <1>9, <2>1, <2>2, RestSubset
       DEF FinishAsResponder, FinishesSecond
  <2>4. QED
    BY <1>2, <2>3
<1>10. CASE ReadFails(n, m)
  BY <1>2, <1>3, <1>5, <1>10, RestSubset DEF ReadFails, Forgets, SetsSession
<1>11. CASE UnexpectedState(n, m)
  <2>1. Current(n, m.from) = session[n][m.from]
    BY <1>11 DEF UnexpectedState, Current, Plain
  <2>2. QED
    BY <1>2, <1>5, <1>11, <2>1, RestSubset DEF UnexpectedState, Forgets, SetsSession
<1>12. QED
  BY <1>1, <1>6, <1>7, <1>8, <1>9, <1>10, <1>11

\* And so does every step.
LEMMA StepCases ==
    ASSUME BasicInv, [Next]_vars
    PROVE  \/ Forgets
           \/ \E n, p \in Node :
                 \/ Starts(n, p)
                 \/ \E m \in net : \/ Answers(n, p, m)
                                  \/ FinishesFirst(n, p, m)
                                  \/ FinishesSecond(n, p, m)
<1> USE DEF BasicInv
<1>1. ASSUME NEW n \in Node, HandleHello(n)
      PROVE  Forgets \/ \E p \in Node : Starts(n, p)
  <2>1. rx[n].from \in Node /\ rx[n].from # n /\ n \in Nat /\ rx[n].from \in Nat
    BY <1>1 DEF HandleHello, HelloOK, TypeOK, RxState
  <2>2. session[n][rx[n].from].st = "None"
    BY <1>1 DEF HandleHello, HelloOK
  <2>3. CASE BecomeResponder(n, rx[n].from)
    BY <2>1, <2>3 DEF BecomeResponder, Forgets, TypeOK
  <2>4. CASE BecomeInitiator(n, rx[n].from)
    <3>1. Starts(n, rx[n].from)
      BY <2>1, <2>2, <2>4 DEF BecomeInitiator, Starts, SetsSession, NewKey, TypeOK
    <3>2. QED
      BY <2>1, <3>1
  <2>5. QED
    BY <1>1, <2>3, <2>4 DEF HandleHello
<1>2. ASSUME NEW n \in Node, RemoveStale(n) PROVE Forgets
  BY <1>2 DEF RemoveStale, Forgets, TypeOK
<1>3. ASSUME NEW n \in Node, ReceiveHandshake(n)
      PROVE  \/ Forgets
             \/ \E p \in Node, m \in net :
                   Answers(n, p, m) \/ FinishesFirst(n, p, m) \/ FinishesSecond(n, p, m)
  BY <1>3, HandshakeCases
<1>4. CASE UNCHANGED <<session, eph>> /\ net' \subseteq net
  BY <1>4 DEF Forgets
<1>5. QED
  BY <1>1, <1>2, <1>3, <1>4 DEF Next, vars, BroadcastHello, UpdatePeer,
     CollectStale, Crash, ReceiveHello, Silence, Lose

-----------------------------------------------------------------------------
(* BasicInv is inductive.                                                  *)

LEMMA BasicInit == Init => BasicInv
<1> SUFFICES ASSUME Init PROVE BasicInv
  OBVIOUS
<1>1. TypeOK
  BY TypeInit
<1>2. HelloOK
  BY DEF Init, HelloOK, Idle
<1>3. MessagesOK
  BY DEF Init, MessagesOK
<1>4. SessionsOK
  BY DEF Init, SessionsOK, SessionOK
<1>5. QED
  BY <1>1, <1>2, <1>3, <1>4 DEF BasicInv

\* A receive loop that has found no session for a Hello still finds none when
\* it makes one: nobody else creates sessions.
LEMMA HelloNext == BasicInv /\ [Next]_vars => HelloOK'
<1> SUFFICES ASSUME BasicInv, [Next]_vars PROVE HelloOK'
  OBVIOUS
<1> TypeOK /\ HelloOK
  BY DEF BasicInv
<1>1. ASSUME NEW n \in Node, BroadcastHello(n) PROVE HelloOK'
  <2>1. ASSUME NEW h \in hello' PROVE h[1] # h[2]
    <3>1. CASE h \in hello
      BY <3>1 DEF HelloOK
    <3>2. CASE h \notin hello
      <4>1. PICK p \in Node \ {n} : h = <<n, p>>
        BY <1>1, <2>1, <3>2 DEF BroadcastHello
      <4>2. QED
        BY <4>1
    <3>3. QED
      BY <3>1, <3>2
  <2>2. rx' = rx /\ session' = session
    BY <1>1 DEF BroadcastHello
  <2>3. QED
    BY <2>1, <2>2 DEF HelloOK
<1>2. ASSUME NEW n \in Node, UpdatePeer(n) PROVE HelloOK'
  BY <1>2 DEF UpdatePeer, HelloOK, Idle, TypeOK
<1>3. ASSUME NEW n \in Node, HandleHello(n) PROVE HelloOK'
  <2>1. \A x \in Node : x # n => session'[x] = session[x] /\ rx'[x] = rx[x]
    BY <1>3 DEF HandleHello, BecomeResponder, BecomeInitiator, TypeOK
  <2>2. rx'[n].pc = "idle" /\ hello' = hello
    BY <1>3 DEF HandleHello, Idle, TypeOK
  <2>3. QED
    BY <2>1, <2>2 DEF HelloOK
<1>4. ASSUME NEW n \in Node, ReceiveHandshake(n) PROVE HelloOK'
  <2>1. PICK m \in net :
        /\ m.to = n
        /\ \/ RejectUnsolicited(n, m)
           \/ RespondToFirst(n, m)
           \/ FinishAsInitiator(n, m)
           \/ FinishAsResponder(n, m)
           \/ ReadFails(n, m)
           \/ UnexpectedState(n, m)
    BY <1>4 DEF ReceiveHandshake
  <2>2. \A x \in Node : x # n => session'[x] = session[x]
    BY <2>1 DEF RejectUnsolicited, RespondToFirst, FinishAsInitiator,
       FinishAsResponder, ReadFails, UnexpectedState, TypeOK
  <2>3. rx' = rx /\ hello' = hello /\ rx[n].pc = "idle"
    BY <1>4 DEF ReceiveHandshake
  <2>4. QED
    BY <2>2, <2>3 DEF HelloOK
<1>5. ASSUME NEW n \in Node, CollectStale(n) PROVE HelloOK'
  BY <1>5 DEF CollectStale, HelloOK
<1>6. ASSUME NEW n \in Node, RemoveStale(n) PROVE HelloOK'
  <2>1. rx' = rx /\ hello' = hello
    BY <1>6 DEF RemoveStale
  <2>2. \A x, y \in Node : session'[x][y] \in {session[x][y], NoSession}
    BY <1>6 DEF RemoveStale, TypeOK
  <2>3. \A x \in Node : rx[x].from \in Node
    BY DEF TypeOK, RxState
  <2>4. NoSession.st = "None"
    BY DEF NoSession, Plain
  <2>5. ASSUME NEW x \in Node, rx'[x].pc = "new"
        PROVE  session'[x][rx'[x].from].st = "None"
    <3>1. session[x][rx[x].from].st = "None" /\ rx[x].from \in Node
      BY <2>1, <2>3, <2>5 DEF HelloOK
    <3>2. session'[x][rx[x].from] \in {session[x][rx[x].from], NoSession}
      BY <2>2, <3>1
    <3>3. QED
      BY <2>1, <2>4, <3>1, <3>2
  <2>6. QED
    BY <2>1, <2>5 DEF HelloOK
<1>7. ASSUME NEW n \in Node, Crash(n) PROVE HelloOK'
  BY <1>7 DEF Crash, HelloOK
<1>8. ASSUME NEW n \in Node, NEW p \in Node, ReceiveHello(n, p) PROVE HelloOK'
  <2>1. n # p /\ session' = session /\ hello' \subseteq hello
    BY <1>8 DEF ReceiveHello, HelloOK
  <2>2. \A x \in Node : x # n => rx'[x] = rx[x]
    BY <1>8 DEF ReceiveHello, TypeOK
  <2>3. /\ rx'[n].from = p
        /\ rx'[n].pc = "new" => session[n][p].st = "None"
    BY <1>8 DEF ReceiveHello, TypeOK
  <2>4. QED
    BY <2>1, <2>2, <2>3 DEF HelloOK
<1>9. ASSUME NEW n \in Node, NEW p \in Node, Silence(n, p) PROVE HelloOK'
  BY <1>9 DEF Silence, HelloOK
<1>10. CASE Lose
  BY <1>10 DEF Lose, HelloOK
<1>11. CASE UNCHANGED vars
  BY <1>11 DEF vars, HelloOK
<1>12. QED
  BY <1>1, <1>2, <1>3, <1>4, <1>5, <1>6, <1>7, <1>8, <1>9, <1>10, <1>11
     DEF Next

\* Datagrams are written with keys that exist.
LEMMA MessagesNext == BasicInv /\ [Next]_vars => MessagesOK'
<1> SUFFICES ASSUME BasicInv, [Next]_vars, NEW d \in net' PROVE MessageOK(d)'
  BY DEF MessagesOK
<1> TypeOK /\ TypeOK' /\ MessagesOK
  BY TypeNext DEF BasicInv
<1> d \in Message
  BY DEF TypeOK
<1>1. CASE d \in net
  BY <1>1, MessageKept DEF MessagesOK
<1>2. ASSUME NEW n \in Node, NEW p \in Node, Starts(n, p), d \notin net
      PROVE  MessageOK(d)'
  <2>1. d = Datagram(1, n, p, eph[n] + 1, 0) /\ n > p /\ eph'[n] = eph[n] + 1
    BY <1>2 DEF Starts, NewKey
  <2>2. eph[n] \in Nat /\ eph'[n] \in Nat
    BY EphGrows
  <2>3. QED
    BY <2>1, <2>2 DEF MessageOK, Datagram
<1>3. ASSUME NEW n \in Node, NEW p \in Node, NEW m \in net, d \notin net,
             Answers(n, p, m)
      PROVE  MessageOK(d)'
  <2>1. /\ d = Datagram(2, n, p, m.e, eph[n] + 1) /\ n < p
        /\ eph'[n] = eph[n] + 1 /\ eph'[p] = eph[p]
    BY <1>3 DEF Answers, NewKey
  <2>2. m.e \in 1 .. eph[p]
    BY <1>3 DEF Answers, MessagesOK, MessageOK
  <2>3. eph[n] \in Nat /\ eph'[n] \in Nat
    BY EphGrows
  <2>4. QED
    BY <2>1, <2>2, <2>3 DEF MessageOK, Datagram
<1>4. ASSUME NEW n \in Node, NEW p \in Node, NEW m \in net, d \notin net,
             FinishesFirst(n, p, m)
      PROVE  MessageOK(d)'
  <2>1. d = Datagram(3, n, p, m.e, m.re) /\ n > p /\ eph' = eph
    BY <1>4 DEF FinishesFirst
  <2>2. m.e \in 1 .. eph[n] /\ m.re \in 1 .. eph[p]
    BY <1>4 DEF FinishesFirst, MessagesOK, MessageOK
  <2>3. QED
    BY <2>1, <2>2 DEF MessageOK, Datagram
<1>5. QED
  BY <1>1, <1>2, <1>3, <1>4, StepCases DEF Forgets, FinishesSecond

\* Sessions hold keys that exist, by the role of their end.
LEMMA SessionsNext == BasicInv /\ [Next]_vars => SessionsOK'
<1> SUFFICES ASSUME BasicInv, [Next]_vars, NEW x \in Node, NEW y \in Node
             PROVE  SessionOK(x, y)'
  BY DEF SessionsOK
<1> TypeOK /\ MessagesOK /\ SessionOK(x, y) /\ x \in Nat /\ y \in Nat
  BY DEF BasicInv, SessionsOK
<1>1. CASE session'[x][y] = session[x][y]
  BY <1>1, SessionKept
<1>2. CASE Forgets
  BY <1>1, <1>2 DEF Forgets, SessionOK, NoSession, Plain
<1>3. ASSUME NEW n \in Node, NEW p \in Node, Starts(n, p)
      PROVE  SessionOK(x, y)'
  <2> eph[n] \in Nat /\ n \in Nat /\ p \in Nat
    BY EphGrows
  <2>1. CASE x = n /\ y = p
    BY <1>3, <2>1 DEF Starts, SetsSession, NewKey, SessionOK
  <2>2. QED
    BY <1>1, <1>3, <2>1 DEF Starts, SetsSession
<1>4. ASSUME NEW n \in Node, NEW p \in Node, NEW m \in net, Answers(n, p, m)
      PROVE  SessionOK(x, y)'
  <2> eph[n] \in Nat /\ n \in Nat /\ p \in Nat
    BY EphGrows
  <2>1. m.e \in 1 .. eph[p]
    BY <1>4 DEF Answers, MessagesOK, MessageOK
  <2>2. CASE x = n /\ y = p
    BY <1>4, <2>1, <2>2 DEF Answers, SetsSession, NewKey, SessionOK
  <2>3. QED
    BY <1>1, <1>4, <2>2 DEF Answers, SetsSession
<1>5. ASSUME NEW n \in Node, NEW p \in Node, NEW m \in net,
             FinishesFirst(n, p, m) \/ FinishesSecond(n, p, m)
      PROVE  SessionOK(x, y)'
  <2>1. CASE FinishesFirst(n, p, m)
    <3>1. m.e \in 1 .. eph[n] /\ m.re \in 1 .. eph[p]
      BY <2>1 DEF FinishesFirst, MessagesOK, MessageOK
    <3>2. CASE x = n /\ y = p
      BY <2>1, <3>1, <3>2 DEF FinishesFirst, SetsSession, SessionOK
    <3>3. QED
      BY <1>1, <2>1, <3>2 DEF FinishesFirst, SetsSession
  <2>2. CASE FinishesSecond(n, p, m)
    <3>1. m.e \in 1 .. eph[p] /\ m.re \in 1 .. eph[n]
      BY <2>2 DEF FinishesSecond, MessagesOK, MessageOK
    <3>2. CASE x = n /\ y = p
      BY <2>2, <3>1, <3>2 DEF FinishesSecond, SetsSession, SessionOK
    <3>3. QED
      BY <1>1, <2>2, <3>2 DEF FinishesSecond, SetsSession
  <2>3. QED
    BY <1>5, <2>1, <2>2
<1>6. QED
  BY <1>2, <1>3, <1>4, <1>5, StepCases

LEMMA BasicNext == BasicInv /\ [Next]_vars => BasicInv'
<1> SUFFICES ASSUME BasicInv, [Next]_vars PROVE BasicInv'
  OBVIOUS
<1>1. TypeOK'
  BY TypeNext DEF BasicInv
<1>2. HelloOK' /\ MessagesOK' /\ SessionsOK'
  BY HelloNext, MessagesNext, SessionsNext
<1>3. QED
  BY <1>1, <1>2 DEF BasicInv

-----------------------------------------------------------------------------
(* The source never finishes a handshake at both ends.                     *)

\* A receive loop that waits for its own guard waits for ever.
LEMMA ReceiveStaysStuck ==
    ASSUME TypeOK, [Next]_vars, NEW n \in Node, guard[n] = "receive"
    PROVE  guard'[n] = "receive"
<1>1. ASSUME NEW q \in Node, ReceiveHandshake(q) PROVE guard'[n] = "receive"
  BY <1>1 DEF ReceiveHandshake, RejectUnsolicited, RespondToFirst,
     FinishAsInitiator, FinishAsResponder, ReadFails, UnexpectedState, TypeOK
<1>2. ASSUME NEW q \in Node, RemoveStale(q) PROVE guard'[n] = "receive"
  BY <1>2 DEF RemoveStale, Live, TypeOK
<1>3. CASE UNCHANGED guard
  BY <1>3
<1>4. QED
  BY <1>1, <1>2, <1>3 DEF Next, vars, BroadcastHello, UpdatePeer, HandleHello,
     CollectStale, Crash, ReceiveHello, Silence, Lose

LEMMA StuckNext == BasicInv /\ StuckInv /\ [Next]_vars => StuckInv'
<1> SUFFICES ASSUME BasicInv, StuckInv, [Next]_vars, ~GuardDropped
             PROVE  /\ \A d \in net' : d.kind # 3
                    /\ \A x, y \in Node :
                          Transport(x, y)' => x > y /\ guard'[x] = "receive"
  BY DEF StuckInv
<1> TypeOK
  BY DEF BasicInv
<1>1. /\ \A d \in net : d.kind # 3
      /\ \A x, y \in Node : Transport(x, y) => x > y /\ guard[x] = "receive"
  BY DEF StuckInv
<1>2. \A n, p, e, re : /\ Datagram(1, n, p, e, re).kind = 1
                       /\ Datagram(2, n, p, e, re).kind = 2
  BY DEF Datagram
<1>3. ASSUME NEW d \in net' PROVE d.kind # 3
  <2>1. ASSUME NEW n \in Node, NEW p \in Node, Starts(n, p) PROVE d.kind # 3
    BY <1>1, <1>2, <2>1 DEF Starts
  <2>2. ASSUME NEW n \in Node, NEW p \in Node, NEW m \in net, Answers(n, p, m)
        PROVE  d.kind # 3
    BY <1>1, <1>2, <2>2 DEF Answers
  <2>3. CASE net' \subseteq net
    BY <1>1, <2>3
  <2>4. QED
    BY <2>1, <2>2, <2>3, StepCases DEF Forgets, FinishesFirst, FinishesSecond
<1>4. ASSUME NEW x \in Node, NEW y \in Node, Transport(x, y)'
      PROVE  x > y /\ guard'[x] = "receive"
  <2>1. CASE Transport(x, y)
    BY <1>1, <2>1, ReceiveStaysStuck
  <2>2. CASE ~Transport(x, y)
    <3>1. ~Forgets
      BY <1>4, <2>2 DEF Forgets, Transport, NoSession, Plain
    <3>2. ASSUME NEW n \in Node, NEW p \in Node PROVE ~Starts(n, p)
      BY <1>4, <2>2 DEF Starts, SetsSession, Transport
    <3>3. ASSUME NEW n \in Node, NEW p \in Node, NEW m \in net
          PROVE  ~Answers(n, p, m)
      BY <1>4, <2>2 DEF Answers, SetsSession, Transport
    <3>4. PICK n \in Node, p \in Node, m \in net :
             FinishesFirst(n, p, m) \/ FinishesSecond(n, p, m)
      BY <3>1, <3>2, <3>3, StepCases
    <3>5. FinishesFirst(n, p, m)
      BY <1>1, <3>4 DEF FinishesSecond
    <3>6. QED
      BY <1>4, <2>2, <3>5 DEF FinishesFirst, SetsSession, Transport
  <2>3. QED
    BY <2>1, <2>2
<1>5. QED
  BY <1>3, <1>4

\* In the source as it stands no two nodes ever hold Transport sessions with
\* each other, and a node with a Transport session has a receive loop that
\* waits for ever: handle_handshake calls broadcast_lsa with the guard of
\* session_db in hand, before message 3 is sent.
THEOREM SourceNeverMutual == Spec => []NeverMutual
<1>1. Init => BasicInv /\ StuckInv
  <2>1. Init => StuckInv
    BY DEF Init, StuckInv, Transport, NoSession, Plain
  <2>2. QED
    BY <2>1, BasicInit
<1>2. BasicInv /\ StuckInv /\ [Next]_vars => (BasicInv /\ StuckInv)'
  BY BasicNext, StuckNext
<1>3. BasicInv /\ StuckInv => NeverMutual
  BY DEF StuckInv, NeverMutual
<1>4. QED
  BY <1>1, <1>2, <1>3, PTL DEF Spec

-----------------------------------------------------------------------------
(* What a handshake has led to is undone by the monitor only.              *)

\* Neither a Hello nor any handshake datagram disturbs a Transport session:
\* only remove_stale_peers, for a peer it has collected, takes it away.
THEOREM TransportIsKept == Spec => TransportUntilRemoved
<1>1. ASSUME BasicInv, [Next]_vars PROVE TransportKept
  <2> TypeOK /\ HelloOK
    BY <1>1 DEF BasicInv
  <2>1. ASSUME NEW n \in Node, HandleHello(n) PROVE TransportKept
    <3>1. session[n][rx[n].from].st = "None" /\ rx[n].from \in Node
      BY <2>1 DEF HandleHello, HelloOK, TypeOK, RxState
    <3>2. QED
      BY <2>1, <3>1 DEF HandleHello, BecomeResponder, BecomeInitiator, TypeOK,
         Transport, TransportKept
  <2>2. ASSUME NEW n \in Node, ReceiveHandshake(n) PROVE TransportKept
    <3>1. PICK m \in net :
          /\ m.to = n
          /\ \/ RejectUnsolicited(n, m)
             \/ RespondToFirst(n, m)
             \/ FinishAsInitiator(n, m)
             \/ FinishAsResponder(n, m)
             \/ ReadFails(n, m)
             \/ UnexpectedState(n, m)
      BY <2>2 DEF ReceiveHandshake
    <3>2. m.from \in Node
      BY DEF TypeOK, Message
    <3>3. Transport(n, m.from) => Current(n, m.from) = session[n][m.from]
      BY DEF Transport, Current
    <3>4. Transport(n, m.from) => session'[n][m.from] = session[n][m.from]
      <4> SUFFICES ASSUME Transport(n, m.from)
                   PROVE  session'[n][m.from] = session[n][m.from]
        OBVIOUS
      <4>1. Current(n, m.from).st = "Transport"
        BY <3>3 DEF Transport
      <4>2. ~RespondToFirst(n, m)
        BY <4>1 DEF RespondToFirst
      <4>3. ~FinishAsInitiator(n, m) /\ ~FinishAsResponder(n, m)
        BY <4>1 DEF FinishAsInitiator, FinishAsResponder
      <4>4. ~ReadFails(n, m)
        BY <4>1 DEF ReadFails
      <4>5. CASE RejectUnsolicited(n, m)
        BY <4>5 DEF RejectUnsolicited
      <4>6. CASE UnexpectedState(n, m)
        BY <3>2, <3>3, <4>6 DEF UnexpectedState, TypeOK
      <4>7. QED
        BY <3>1, <4>2, <4>3, <4>4, <4>5, <4>6
    <3>5. \A x, y \in Node : x # n \/ y # m.from => session'[x][y] = session[x][y]
      <4>1. session' = session
              \/ \E t : session' = [session EXCEPT ![n][m.from] = t]
        BY <3>1 DEF RejectUnsolicited, RespondToFirst, FinishAsInitiator,
           FinishAsResponder, ReadFails, UnexpectedState
      <4>2. QED
        BY <3>2, <4>1 DEF TypeOK
    <3>6. QED
      BY <3>4, <3>5 DEF TransportKept
  <2>3. ASSUME NEW n \in Node, RemoveStale(n) PROVE TransportKept
    BY <2>3 DEF RemoveStale, TypeOK, TransportKept
  <2>4. CASE UNCHANGED session
    BY <2>4 DEF TransportKept
  <2>5. QED
    BY <1>1, <2>1, <2>2, <2>3, <2>4 DEF Next, vars, BroadcastHello, UpdatePeer,
       CollectStale, Crash, ReceiveHello, Silence, Lose
<1>2. BasicInv /\ [Next]_vars => [TransportKept]_vars
  BY <1>1
<1>3. QED
  BY <1>2, BasicInit, BasicNext, PTL DEF Spec, TransportUntilRemoved

-----------------------------------------------------------------------------
(* Both ends of a pair agree.                                              *)

\* A datagram is its fields.
LEMMA DatagramFields ==
    /\ \A m \in Message : m = Datagram(m.kind, m.from, m.to, m.e, m.re)
    /\ \A k, n, p, e, re :
          LET d == Datagram(k, n, p, e, re) IN
          d.kind = k /\ d.from = n /\ d.to = p /\ d.e = e /\ d.re = re
BY DEF Message, Datagram

\* A Transport session is its keys.
LEMMA SessionRecord ==
    ASSUME TypeOK, NEW n \in Node, NEW p \in Node
    PROVE  /\ session[n][p].e \in Eph /\ session[n][p].re \in Eph
           /\ session[n][p] = [st |-> session[n][p].st, e |-> session[n][p].e,
                               re |-> session[n][p].re]
<1>1. session[n][p] \in Session
  BY DEF TypeOK
<1>2. QED
  BY <1>1 DEF Session

\* No key of a pair is newer than the last one its owner has made.
LEMMA SessionBounds ==
    ASSUME BasicInv, NEW i \in Node, NEW r \in Node, i > r
    PROVE  /\ session[i][r].e <= eph[i] /\ session[i][r].re <= eph[r]
           /\ session[r][i].e <= eph[i] /\ session[r][i].re <= eph[r]
<1>1. TypeOK /\ i \in Nat /\ r \in Nat /\ eph[i] \in Nat /\ eph[r] \in Nat
  BY DEF BasicInv, TypeOK, Eph
<1>2. SessionOK(i, r) /\ SessionOK(r, i)
  BY DEF BasicInv, SessionsOK
<1>3. /\ session[i][r].e \in Nat /\ session[i][r].re \in Nat
      /\ session[r][i].e \in Nat /\ session[r][i].re \in Nat
  BY <1>1, SessionFields
<1>4. \A st : Plain(st).e = 0 /\ Plain(st).re = 0
  BY DEF Plain
<1>5. session[i][r].e <= eph[i] /\ session[i][r].re <= eph[r]
  BY <1>1, <1>2, <1>3, <1>4 DEF SessionOK, NoSession
<1>6. session[r][i].e <= eph[i] /\ session[r][i].re <= eph[r]
  BY <1>1, <1>2, <1>3, <1>4 DEF SessionOK, NoSession
<1>7. QED
  BY <1>5, <1>6

LEMMA MessageBounds ==
    ASSUME BasicInv, NEW i \in Node, NEW r \in Node, i > r,
           NEW m \in net, Between(m, i, r)
    PROVE  /\ m.e \in Nat /\ m.re \in Nat
           /\ m.e <= eph[i] /\ m.re <= eph[r]
<1>1. TypeOK /\ i \in Nat /\ r \in Nat /\ eph[i] \in Nat /\ eph[r] \in Nat
  BY DEF BasicInv, TypeOK, Eph
<1>2. m \in Message /\ m.e \in Nat /\ m.re \in Nat
  BY <1>1 DEF TypeOK, Message, Eph
<1>3. MessageOK(m)
  BY DEF BasicInv, MessagesOK
<1>4. QED
  BY <1>1, <1>2, <1>3 DEF MessageOK, Between

\* NewestKeys is preserved: a new key is newer than all, and the other end only
\* ever takes keys over from datagrams.
LEMMA KeysNext ==
    ASSUME BasicInv, [Next]_vars, NEW i \in Node, NEW r \in Node, i > r,
           NewestKeys(i, r)
    PROVE  NewestKeys(i, r)'
<1> DEFINE I == session[i][r]
           R == session[r][i]
           J == session'[i][r]
           S == session'[r][i]
<1> TypeOK /\ TypeOK' /\ BasicInv' /\ i \in Nat /\ r \in Nat /\ i # r
  BY BasicNext DEF BasicInv
<1>1. /\ I.e \in Nat /\ I.re \in Nat /\ R.e \in Nat /\ R.re \in Nat
      /\ J.e \in Nat /\ J.re \in Nat /\ S.e \in Nat /\ S.re \in Nat
  <2>1. I \in Session /\ R \in Session /\ J \in Session /\ S \in Session
    BY DEF TypeOK
  <2>2. \A s \in Session : s.e \in Nat /\ s.re \in Nat
    BY DEF Session, Eph
  <2>3. QED
    BY <2>1, <2>2
<1>2. I.e <= eph[i] /\ I.re <= eph[r] /\ R.e <= eph[i] /\ R.re <= eph[r]
  BY SessionBounds
<1>3. eph[i] \in Nat /\ eph[r] \in Nat
  BY EphGrows
<1>4. \A m \in net : Between(m, i, r) =>
         m.e \in Nat /\ m.re \in Nat /\ m.e <= eph[i] /\ m.re <= eph[r]
  BY MessageBounds
<1>5. /\ I.e > 0 => R.e <= I.e /\ \A m \in net : Between(m, i, r) => m.e <= I.e
      /\ R.re > 0 => I.re <= R.re /\ \A m \in net : Between(m, i, r) => m.re <= R.re
  BY DEF NewestKeys
<1> DEFINE Goal ==
      /\ J.e > 0 => S.e <= J.e /\ \A d \in net' : Between(d, i, r) => d.e <= J.e
      /\ S.re > 0 => J.re <= S.re /\ \A d \in net' : Between(d, i, r) => d.re <= S.re
<1> SUFFICES Goal
  BY DEF NewestKeys, Between
<1>6. CASE Forgets
  <2>1. J = I \/ (J.e = 0 /\ J.re = 0)
    BY <1>6 DEF Forgets, NoSession, Plain
  <2>2. S = R \/ (S.e = 0 /\ S.re = 0)
    BY <1>6 DEF Forgets, NoSession, Plain
  <2>3. net' \subseteq net
    BY <1>6 DEF Forgets
  <2>4. QED
    BY <1>1, <1>5, <2>1, <2>2, <2>3
<1>7. CASE J = I /\ S = R /\ \A d \in net' : Between(d, i, r) => d \in net
  BY <1>5, <1>7
<1>8. ASSUME NEW n \in Node, NEW p \in Node, Starts(n, p)
      PROVE  Goal
  <2>0. n \in Nat /\ p \in Nat
    OBVIOUS
  <2>1. S = R
    BY <1>8, <2>0 DEF Starts, SetsSession
  <2>2. CASE n = i /\ p = r
    <3>1. J.e = eph[i] + 1 /\ J.re = 0
      BY <1>8, <2>2 DEF Starts, SetsSession
    <3>2. ASSUME NEW d \in net', Between(d, i, r)
          PROVE  d \in net \/ (d.e = eph[i] + 1 /\ d.re = 0)
      <4>1. d \in net \/ d = Datagram(1, i, r, eph[i] + 1, 0)
        BY <1>8, <2>2, <3>2 DEF Starts
      <4>2. QED
        BY <4>1 DEF Datagram
    <3>3. QED
      BY <1>1, <1>2, <1>3, <1>4, <1>5, <2>1, <3>1, <3>2
  <2>3. CASE ~(n = i /\ p = r)
    <3>1. J = I
      BY <1>8, <2>3 DEF Starts, SetsSession
    <3>2. ASSUME NEW d \in net', Between(d, i, r) PROVE d \in net
      BY <1>8, <2>0, <2>3, <3>2, DatagramFields DEF Starts, Between
    <3>3. QED
      BY <1>7, <2>1, <3>1, <3>2
  <2>4. QED
    BY <2>2, <2>3
<1>9. ASSUME NEW n \in Node, NEW p \in Node, NEW m \in net, Answers(n, p, m)
      PROVE  Goal
  <2>0. n \in Nat /\ p \in Nat
    OBVIOUS
  <2>1. J = I
    BY <1>9, <2>0 DEF Answers, SetsSession
  <2>2. CASE n = r /\ p = i
    <3>1. S.e = m.e /\ S.re = eph[r] + 1
      BY <1>9, <2>2 DEF Answers, SetsSession
    <3>2. Between(m, i, r)
      <4>1. m.from = i /\ m.to = r
        BY <1>9, <2>2 DEF Answers
      <4>2. QED
        BY <4>1 DEF Between
    <3>3. ASSUME NEW d \in net', Between(d, i, r)
          PROVE  d \in net \/ (d.e = m.e /\ d.re = eph[r] + 1)
      <4>1. d \in net \/ d = Datagram(2, r, i, m.e, eph[r] + 1)
        BY <1>9, <2>2, <3>3 DEF Answers
      <4>2. QED
        BY <4>1 DEF Datagram
    <3>4. QED
      BY <1>1, <1>2, <1>3, <1>4, <1>5, <2>1, <3>1, <3>2, <3>3
  <2>3. CASE ~(n = r /\ p = i)
    <3>1. S = R
      BY <1>9, <2>3 DEF Answers, SetsSession
    <3>2. ASSUME NEW d \in net', Between(d, i, r) PROVE d \in net
      BY <1>9, <2>0, <2>3, <3>2, DatagramFields DEF Answers, Between
    <3>3. QED
      BY <1>7, <2>1, <3>1, <3>2
  <2>4. QED
    BY <2>2, <2>3
<1>10. ASSUME NEW n \in Node, NEW p \in Node, NEW m \in net,
              FinishesFirst(n, p, m)
       PROVE  Goal
  <2>0. n \in Nat /\ p \in Nat
    OBVIOUS
  <2>1. S = R
    BY <1>10, <2>0 DEF FinishesFirst, SetsSession
  <2>2. CASE n = i /\ p = r
    <3>1. I.e = m.e /\ J.e = m.e /\ J.re = m.re
      BY <1>10, <2>2 DEF FinishesFirst, SetsSession
    <3>2. Between(m, i, r)
      BY <1>10, <2>2 DEF FinishesFirst, Between
    <3>3. ASSUME NEW d \in net', Between(d, i, r)
          PROVE  d \in net \/ (d.e = m.e /\ d.re = m.re)
      <4>1. d \in net \/ d = Datagram(3, i, r, m.e, m.re)
        BY <1>10, <2>2, <3>3 DEF FinishesFirst
      <4>2. QED
        BY <4>1 DEF Datagram
    <3>4. QED
      BY <1>1, <1>4, <1>5, <2>1, <3>1, <3>2, <3>3
  <2>3. CASE ~(n = i /\ p = r)
    <3>1. J = I
      BY <1>10, <2>3 DEF FinishesFirst, SetsSession
    <3>2. ASSUME NEW d \in net', Between(d, i, r) PROVE d \in net
      BY <1>10, <2>0, <2>3, <3>2, DatagramFields DEF FinishesFirst, Between
    <3>3. QED
      BY <1>7, <2>1, <3>1, <3>2
  <2>4. QED
    BY <2>2, <2>3
<1>11. ASSUME NEW n \in Node, NEW p \in Node, NEW m \in net,
              FinishesSecond(n, p, m)
       PROVE  Goal
  <2>1. J = I /\ net' \subseteq net
    BY <1>11 DEF FinishesSecond, SetsSession
  <2>2. S.e = R.e /\ S.re = R.re
    BY <1>11 DEF FinishesSecond, SetsSession
  <2>3. QED
    BY <1>5, <2>1, <2>2
<1>12. QED
  BY <1>6, <1>8, <1>9, <1>10, <1>11, StepCases

\* A run is finished for the first time by the initiator, on message 2.
LEMMA FinishedBack ==
    ASSUME BasicInv, [Next]_vars, NEW i \in Node, NEW r \in Node, i > r,
           NEW e, NEW re, Finished(i, r, e, re)'
    PROVE  \/ Finished(i, r, e, re)
           \/ \E m \in net : FinishesFirst(i, r, m) /\ m.e = e /\ m.re = re
<1> DEFINE T == [st |-> "Transport", e |-> e, re |-> re]
<1> TypeOK /\ i \in Nat /\ r \in Nat
  BY DEF BasicInv
<1>1. \/ Datagram(3, i, r, e, re) \in net'
      \/ session'[i][r] = T
      \/ session'[r][i] = T
  BY DEF Finished, Datagram
<1> SUFFICES ASSUME ~Finished(i, r, e, re)
             PROVE  \E m \in net : FinishesFirst(i, r, m) /\ m.e = e /\ m.re = re
  OBVIOUS
<1>2. /\ Datagram(3, i, r, e, re) \notin net
      /\ session[i][r] # T
      /\ session[r][i] # T
  BY DEF Finished
<1>3. ~Forgets
  BY <1>1, <1>2 DEF Forgets, NoSession, Plain
<1>4. ASSUME NEW n \in Node, NEW p \in Node, Starts(n, p) PROVE FALSE
  BY <1>1, <1>2, <1>4 DEF Starts, SetsSession, Datagram
<1>5. ASSUME NEW n \in Node, NEW p \in Node, NEW m \in net, Answers(n, p, m)
      PROVE  FALSE
  BY <1>1, <1>2, <1>5 DEF Answers, SetsSession, Datagram
<1>6. ASSUME NEW n \in Node, NEW p \in Node, NEW m \in net, FinishesSecond(n, p, m)
      PROVE  FALSE
  <2>1. m = Datagram(3, p, n, m.e, m.re)
    BY <1>6, DatagramFields DEF FinishesSecond, TypeOK
  <2>2. session'[i][r] = session[i][r] /\ net' \subseteq net
    BY <1>6 DEF FinishesSecond, SetsSession
  <2>3. session'[r][i] = T /\ n = r /\ p = i
    BY <1>1, <1>2, <1>6, <2>2 DEF FinishesSecond, SetsSession
  <2>4. m.e = e /\ m.re = re
    BY <1>6, <2>3 DEF FinishesSecond, SetsSession
  <2>5. QED
    BY <1>2, <2>1, <2>3, <2>4
<1>7. PICK n \in Node, p \in Node, m \in net : FinishesFirst(n, p, m)
  BY <1>3, <1>4, <1>5, <1>6, StepCases
<1>8. n \in Nat /\ p \in Nat /\ n > p
  BY <1>7 DEF FinishesFirst
<1>9. session'[r][i] = session[r][i]
  BY <1>7, <1>8 DEF FinishesFirst, SetsSession
<1>10. CASE Datagram(3, i, r, e, re) \in net'
  <2>1. Datagram(3, i, r, e, re) = Datagram(3, n, p, m.e, m.re)
    BY <1>2, <1>7, <1>10 DEF FinishesFirst
  <2>2. i = n /\ r = p /\ e = m.e /\ re = m.re
    BY <2>1 DEF Datagram
  <2>3. QED
    BY <1>7, <2>2
<1>11. CASE session'[i][r] = T
  <2>1. i = n /\ r = p
    BY <1>2, <1>7, <1>11 DEF FinishesFirst, SetsSession
  <2>2. T = [st |-> "Transport", e |-> m.e, re |-> m.re]
    BY <1>7, <1>11, <2>1 DEF FinishesFirst, SetsSession
  <2>3. e = m.e /\ re = m.re
    BY <2>2
  <2>4. QED
    BY <1>7, <2>1, <2>3
<1>12. QED
  BY <1>1, <1>2, <1>9, <1>10, <1>11

\* A run is answered for the first time with a new key.
LEMMA AnsweredBack ==
    ASSUME BasicInv, [Next]_vars, NEW i \in Node, NEW r \in Node, i > r,
           NEW e, NEW re, Answered(i, r, e, re)'
    PROVE  Answered(i, r, e, re) \/ re = eph[r] + 1
<1> TypeOK
  BY DEF BasicInv
<1>1. CASE Finished(i, r, e, re)'
  <2>1. ASSUME NEW m \in net, FinishesFirst(i, r, m), m.e = e, m.re = re
        PROVE  Datagram(2, r, i, e, re) \in net
    <3>1. m = Datagram(2, r, i, m.e, m.re)
      BY <2>1, DatagramFields DEF FinishesFirst, TypeOK
    <3>2. QED
      BY <2>1, <3>1
  <2>2. QED
    BY <1>1, <2>1, FinishedBack DEF Answered
<1>2. CASE Datagram(2, r, i, e, re) \in net' /\ Datagram(2, r, i, e, re) \notin net
  <2>1. ASSUME NEW n \in Node, NEW p \in Node, Starts(n, p) PROVE FALSE
    BY <1>2, <2>1 DEF Starts, Datagram
  <2>2. ASSUME NEW n \in Node, NEW p \in Node, NEW m \in net, FinishesFirst(n, p, m)
        PROVE  FALSE
    BY <1>2, <2>2 DEF FinishesFirst, Datagram
  <2>3. PICK n \in Node, p \in Node, m \in net : Answers(n, p, m)
    BY <1>2, <2>1, <2>2, StepCases DEF Forgets, FinishesSecond
  <2>4. Datagram(2, r, i, e, re) = Datagram(2, n, p, m.e, eph[n] + 1)
    BY <1>2, <2>3 DEF Answers
  <2>5. QED
    BY <2>4 DEF Datagram
<1>3. Finished(i, r, e, re)' \/ Datagram(2, r, i, e, re) \in net'
  BY DEF Answered, Datagram
<1>4. QED
  BY <1>1, <1>2, <1>3 DEF Answered

\* An answered run uses keys that exist, none newer than the initiator's.
LEMMA AnsweredBounds ==
    ASSUME BasicInv, NEW i \in Node, NEW r \in Node, i > r, NewestKeys(i, r),
           NEW e \in Eph, NEW re \in Eph, Answered(i, r, e, re)
    PROVE  /\ e <= eph[i] /\ re <= eph[r]
           /\ session[i][r].e > 0 => e <= session[i][r].e
<1> TypeOK /\ e \in Nat /\ re \in Nat
  BY DEF BasicInv, Eph
<1> session[i][r].e \in Nat
  BY SessionFields
<1>1. ASSUME NEW m \in net, Between(m, i, r), m.e = e, m.re = re
      PROVE  /\ e <= eph[i] /\ re <= eph[r]
             /\ session[i][r].e > 0 => e <= session[i][r].e
  BY <1>1, MessageBounds DEF NewestKeys
<1>2. CASE Datagram(2, r, i, e, re) \in net
  BY <1>1, <1>2 DEF Datagram, Between
<1>3. CASE Datagram(3, i, r, e, re) \in net
  BY <1>1, <1>3 DEF Datagram, Between
<1>4. CASE session[i][r] = [st |-> "Transport", e |-> e, re |-> re]
  <2>1. session[i][r].e = e /\ session[i][r].re = re
    BY <1>4
  <2>2. QED
    BY <2>1, SessionBounds
<1>5. CASE session[r][i] = [st |-> "Transport", e |-> e, re |-> re]
  <2>1. session[r][i].e = e /\ session[r][i].re = re
    BY <1>5
  <2>2. QED
    BY <2>1, SessionBounds DEF NewestKeys
<1>6. QED
  BY <1>2, <1>3, <1>4, <1>5 DEF Answered, Finished

\* RunsOrdered is preserved.
LEMMA RunsNext ==
    ASSUME BasicInv, [Next]_vars, NEW i \in Node, NEW r \in Node, i > r,
           NewestKeys(i, r), RunsOrdered(i, r)
    PROVE  RunsOrdered(i, r)'
<1> DEFINE I == session[i][r]
           J == session'[i][r]
<1> TypeOK /\ i \in Nat /\ r \in Nat /\ eph[i] \in Nat /\ eph[r] \in Nat
  BY EphGrows DEF BasicInv
<1> \A e \in Eph : e \in Nat
  BY DEF Eph
<1>1. ASSUME NEW m \in net, FinishesFirst(i, r, m)
      PROVE  /\ I.st = "Handshaking" /\ I.e = m.e /\ m.e > 0
             /\ J = [st |-> "Transport", e |-> m.e, re |-> m.re]
             /\ m.e \in Eph /\ m.re \in Eph /\ m.re <= eph[r]
  <2>1. MessageOK(m) /\ m \in Message
    BY DEF BasicInv, MessagesOK, TypeOK
  <2>2. m.e > 0 /\ m.e \in Eph /\ m.re \in Eph /\ m.re <= eph[r]
    BY <1>1, <2>1 DEF FinishesFirst, MessageOK, Message, Eph
  <2>3. QED
    BY <1>1, <2>2 DEF FinishesFirst, SetsSession
<1>2. ASSUME NEW e \in Eph, NEW re \in Eph, NEW re2 \in Eph,
             Finished(i, r, e, re)', Finished(i, r, e, re2)'
      PROVE  re = re2
  <2>1. CASE Finished(i, r, e, re) /\ Finished(i, r, e, re2)
    BY <2>1 DEF RunsOrdered
  <2>2. ASSUME NEW m \in net, FinishesFirst(i, r, m), m.e = e,
               NEW k \in Eph, Finished(i, r, e, k)
        PROVE  FALSE
    BY <1>1, <2>2 DEF RunsOrdered
  <2>3. ASSUME NEW m \in net, FinishesFirst(i, r, m), m.re = re,
               NEW d \in net, FinishesFirst(i, r, d), d.re = re2
        PROVE  re = re2
    <3>1. /\ J = [st |-> "Transport", e |-> m.e, re |-> m.re]
          /\ J = [st |-> "Transport", e |-> d.e, re |-> d.re]
      BY <1>1, <2>3
    <3>2. QED
      BY <2>3, <3>1
  <2>4. QED
    BY <1>2, <2>1, <2>2, <2>3, FinishedBack
<1>3. ASSUME NEW e \in Eph, NEW re \in Eph, NEW e2 \in Eph, NEW re2 \in Eph,
             Finished(i, r, e, re)', Answered(i, r, e2, re2)', e < e2
      PROVE  re < re2
  <2>1. re <= eph[r]
    <3>1. CASE Finished(i, r, e, re)
      BY <3>1, AnsweredBounds DEF Answered
    <3>2. ASSUME NEW m \in net, FinishesFirst(i, r, m), m.re = re
          PROVE  re <= eph[r]
      BY <1>1, <3>2
    <3>3. QED
      BY <1>3, <3>1, <3>2, FinishedBack
  <2>2. CASE re2 = eph[r] + 1
    BY <2>1, <2>2
  <2>3. CASE Answered(i, r, e2, re2) /\ Finished(i, r, e, re)
    BY <1>3, <2>3 DEF RunsOrdered
  <2>4. ASSUME Answered(i, r, e2, re2), NEW m \in net, FinishesFirst(i, r, m), m.e = e
        PROVE  FALSE
    <3>1. I.e = e /\ e > 0
      BY <1>1, <2>4
    <3>2. e2 <= I.e
      BY <2>4, <3>1, AnsweredBounds
    <3>3. QED
      BY <1>3, <3>1, <3>2
  <2>5. QED
    BY <1>3, <2>2, <2>3, <2>4, FinishedBack, AnsweredBack
<1>4. ASSUME NEW e \in Eph, NEW re \in Eph, Finished(i, r, e, re)', J.e = e,
             J.st = "Handshaking"
      PROVE  FALSE
  <2>1. ASSUME NEW m \in net PROVE ~FinishesFirst(i, r, m)
    <3>1. SUFFICES ASSUME FinishesFirst(i, r, m) PROVE FALSE
      OBVIOUS
    <3>2. J = [st |-> "Transport", e |-> m.e, re |-> m.re]
      BY <1>1, <3>1
    <3>3. QED
      BY <1>4, <3>2
  <2>2. Finished(i, r, e, re)
    BY <1>4, <2>1, FinishedBack
  <2>3. e <= eph[i]
    BY <2>2, AnsweredBounds DEF Answered
  <2>4. CASE J = I
    BY <1>4, <2>2, <2>4 DEF RunsOrdered
  <2>5. CASE Forgets
    <3>1. J = I
      BY <1>4, <2>5 DEF Forgets, NoSession, Plain
    <3>2. QED
      BY <2>4, <3>1
  <2>6. ASSUME NEW n \in Node, NEW p \in Node, Starts(n, p) PROVE FALSE
    <3>1. CASE n = i /\ p = r
      <4>1. J.e = eph[i] + 1
        BY <2>6, <3>1 DEF Starts, SetsSession
      <4>2. QED
        BY <1>4, <2>3, <4>1
    <3>2. CASE ~(n = i /\ p = r)
      BY <2>4, <2>6, <3>2 DEF Starts, SetsSession
    <3>3. QED
      BY <3>1, <3>2
  <2>7. ASSUME NEW n \in Node, NEW p \in Node, NEW m \in net,
               Answers(n, p, m) \/ FinishesSecond(n, p, m)
        PROVE  FALSE
    BY <2>4, <2>7 DEF Answers, FinishesSecond, SetsSession
  <2>8. ASSUME NEW n \in Node, NEW p \in Node, NEW m \in net,
               FinishesFirst(n, p, m)
        PROVE  FALSE
    BY <2>1, <2>4, <2>8 DEF FinishesFirst, SetsSession
  <2>9. QED
    BY <2>5, <2>6, <2>7, <2>8, StepCases
<1>5. QED
  BY <1>2, <1>3, <1>4 DEF RunsOrdered

LEMMA AgreementInit == Init => AgreementInv
<1> SUFFICES ASSUME Init PROVE AgreementInv
  OBVIOUS
<1>1. \A i, r \in Node : session[i][r] = NoSession /\ net = {}
  BY DEF Init
<1>2. NoSession.e = 0 /\ NoSession.re = 0 /\ NoSession.st = "None"
  BY DEF NoSession, Plain
<1>3. ASSUME NEW i \in Node, NEW r \in Node
      PROVE  NewestKeys(i, r) /\ RunsOrdered(i, r)
  <2>1. NewestKeys(i, r)
    <3>1. session[i][r].e = 0 /\ session[r][i].re = 0
      BY <1>1, <1>2
    <3>2. ~(session[i][r].e > 0) /\ ~(session[r][i].re > 0)
      BY <3>1
    <3>3. QED
      BY <3>2 DEF NewestKeys
  <2>2. \A e, re : ~Finished(i, r, e, re)
    BY <1>1, <1>2 DEF Finished
  <2>3. QED
    BY <2>1, <2>2 DEF RunsOrdered
<1>4. QED
  BY <1>3, BasicInit DEF AgreementInv

LEMMA AgreementNext == AgreementInv /\ [Next]_vars => AgreementInv'
<1> SUFFICES ASSUME AgreementInv, [Next]_vars PROVE AgreementInv'
  OBVIOUS
<1>1. BasicInv'
  BY BasicNext DEF AgreementInv
<1>2. ASSUME NEW i \in Node, NEW r \in Node, i > r
      PROVE  NewestKeys(i, r)' /\ RunsOrdered(i, r)'
  BY <1>2, KeysNext, RunsNext DEF AgreementInv
<1>3. QED
  BY <1>1, <1>2 DEF AgreementInv

\* A responder's Transport session can be neither of a later run than its
\* initiator's nor of an earlier one.
LEMMA AgreementImplies == AgreementInv => SessionAgreement
<1> SUFFICES ASSUME AgreementInv, NEW n \in Node, NEW p \in Node,
                    Transport(n, p), Transport(p, n)
             PROVE  session[n][p] = session[p][n]
  BY DEF SessionAgreement
<1> BasicInv /\ TypeOK
  BY DEF AgreementInv, BasicInv
<1>1. ASSUME NEW i \in Node, NEW r \in Node, i > r,
             Transport(i, r), Transport(r, i)
      PROVE  session[i][r] = session[r][i]
  <2> DEFINE e == session[i][r].e
             re == session[i][r].re
             e2 == session[r][i].e
             re2 == session[r][i].re
  <2>1. NewestKeys(i, r) /\ RunsOrdered(i, r)
    BY <1>1 DEF AgreementInv
  <2>2. /\ e \in Eph /\ re \in Eph /\ e2 \in Eph /\ re2 \in Eph
        /\ e \in Nat /\ re \in Nat /\ e2 \in Nat /\ re2 \in Nat
    BY SessionRecord, SessionFields
  <2>3. /\ session[i][r] = [st |-> "Transport", e |-> e, re |-> re]
        /\ session[r][i] = [st |-> "Transport", e |-> e2, re |-> re2]
    BY <1>1, SessionRecord DEF Transport
  <2>4. Finished(i, r, e, re) /\ Finished(i, r, e2, re2)
    BY <2>3 DEF Finished
  <2>5. Answered(i, r, e, re)
    BY <2>4 DEF Answered
  <2>6. e > 0 /\ re2 > 0
    <3>1. SessionOK(i, r) /\ SessionOK(r, i)
      BY DEF BasicInv, SessionsOK
    <3>2. QED
      BY <1>1, <2>2, <3>1 DEF SessionOK, Transport, NoSession, Plain
  <2>7. e2 <= e /\ re <= re2
    BY <2>1, <2>6 DEF NewestKeys
  <2>8. ~(e2 < e)
    BY <2>1, <2>2, <2>4, <2>5, <2>7 DEF RunsOrdered
  <2>9. e = e2
    BY <2>2, <2>7, <2>8
  <2>10. re = re2
    BY <2>1, <2>2, <2>4, <2>9 DEF RunsOrdered
  <2>11. QED
    BY <2>3, <2>9, <2>10
<1>2. n \in Nat /\ p \in Nat
  OBVIOUS
<1>3. n = p \/ n > p \/ p > n
  BY <1>2
<1>4. QED
  BY <1>1, <1>3

\* For every number of nodes, every bound on the keys and every fault: an end
\* never has an older key in its session than is in flight or at the other end,
\* and an initiator finishes each of its runs once, in the order in which it
\* started them.
THEOREM AgreementInvHolds == Spec => []AgreementInv
BY AgreementInit, AgreementNext, PTL DEF Spec

\* Two Transport sessions that nodes hold with each other come from the same
\* run of the handshake, for any number of nodes, restarts of the handshake and
\* lost, duplicated, delayed or reordered datagrams.
THEOREM Agreement == Spec => []SessionAgreement
BY AgreementInvHolds, AgreementImplies, PTL

-----------------------------------------------------------------------------
(* peer_db and session_db.                                                 *)

\* A handshake datagram changes the session with its sender only, and leaves
\* one where there was one.
LEMMA HandshakeKeepsSessions ==
    ASSUME TypeOK, NEW n \in Node, ReceiveHandshake(n),
           NEW x \in Node, NEW y \in Node, session[x][y].st # "None"
    PROVE  session'[x][y].st # "None"
<1>1. PICK m \in net :
        /\ m.to = n
        /\ \/ RejectUnsolicited(n, m)
           \/ RespondToFirst(n, m)
           \/ FinishAsInitiator(n, m)
           \/ FinishAsResponder(n, m)
           \/ ReadFails(n, m)
           \/ UnexpectedState(n, m)
  BY DEF ReceiveHandshake
<1>2. m.from \in Node
  BY DEF TypeOK, Message
<1>3. ASSUME NEW t, session' = [session EXCEPT ![n][m.from] = t], t.st # "None"
      PROVE  session'[x][y].st # "None"
  BY <1>2, <1>3 DEF TypeOK
<1>4. CASE RejectUnsolicited(n, m)
  BY <1>4 DEF RejectUnsolicited
<1>5. CASE RespondToFirst(n, m)
  BY <1>3, <1>5 DEF RespondToFirst
<1>6. CASE FinishAsInitiator(n, m) \/ FinishAsResponder(n, m)
  BY <1>3, <1>6 DEF FinishAsInitiator, FinishAsResponder
<1>7. CASE ReadFails(n, m)
  BY <1>3, <1>7 DEF ReadFails, Plain
<1>8. CASE UnexpectedState(n, m)
  BY <1>3, <1>8 DEF UnexpectedState
<1>9. QED
  BY <1>1, <1>4, <1>5, <1>6, <1>7, <1>8

\* A task that keeps session_db locked keeps it for ever.
LEMMA GuardKept ==
    ASSUME TypeOK, [Next]_vars, NEW n \in Node, guard'[n] = "free"
    PROVE  guard[n] = "free"
<1>1. ASSUME NEW q \in Node, ReceiveHandshake(q) PROVE guard[n] = "free"
  BY <1>1 DEF ReceiveHandshake, RejectUnsolicited, RespondToFirst,
     FinishAsInitiator, FinishAsResponder, ReadFails, UnexpectedState, TypeOK
<1>2. ASSUME NEW q \in Node, RemoveStale(q) PROVE guard[n] = "free"
  BY <1>2 DEF RemoveStale, Live, TypeOK
<1>3. CASE UNCHANGED guard
  BY <1>3
<1>4. QED
  BY <1>1, <1>2, <1>3 DEF Next, vars, BroadcastHello, UpdatePeer, HandleHello,
     CollectStale, Crash, ReceiveHello, Silence, Lose

LEMMA PeerNext == BasicInv /\ PeerInv /\ [Next]_vars => PeerInv'
<1> SUFFICES ASSUME BasicInv, PeerInv, [Next]_vars, ~GuardDropped, NEW n \in Node
             PROVE  /\ \A p \in Node : peer'[n][p] # "none"
                                          => session'[n][p].st # "None"
                    /\ guard'[n] = "free" /\ rx'[n].pc = "update"
                          => session'[n][rx'[n].from].st # "None"
  BY DEF PeerInv
<1> TypeOK /\ HelloOK
  BY DEF BasicInv
<1> DEFINE Kept == \A p \in Node : session[n][p].st # "None"
                                      => session'[n][p].st # "None"
<1>1. /\ \A p \in Node : peer[n][p] # "none" => session[n][p].st # "None"
      /\ guard[n] = "free" /\ rx[n].pc = "update"
            => session[n][rx[n].from].st # "None"
      /\ rx[n].from \in Node
  BY DEF PeerInv, TypeOK, RxState
<1>2. CASE UNCHANGED <<peer, rx>> /\ Kept
  BY <1>1, <1>2, GuardKept
<1>3. ASSUME NEW q \in Node, ReceiveHandshake(q) PROVE UNCHANGED <<peer, rx>> /\ Kept
  BY <1>3, HandshakeKeepsSessions DEF ReceiveHandshake
<1>4. ASSUME NEW q \in Node, HandleHello(q)
      PROVE  /\ Kept /\ peer' = peer
             /\ rx'[n] = rx[n] \/ rx'[n].pc = "idle"
  <2>1. rx[q].from \in Node
    BY DEF TypeOK, RxState
  <2>2. Kept
    BY <1>4, <2>1 DEF HandleHello, BecomeResponder, BecomeInitiator, TypeOK, Plain
  <2>3. QED
    BY <1>4, <2>2 DEF HandleHello, TypeOK, Idle
<1>5. CASE /\ Kept /\ peer' = peer
           /\ rx'[n] = rx[n] \/ rx'[n].pc = "idle"
  BY <1>1, <1>5, GuardKept
<1>6. ASSUME NEW q \in Node, UpdatePeer(q)
      PROVE  /\ \A p \in Node : peer'[n][p] # "none" => session'[n][p].st # "None"
             /\ rx'[n].pc = "update" => rx'[n] = rx[n]
             /\ UNCHANGED <<session, guard>>
  <2>1. CASE q = n
    <3>1. session[n][rx[n].from].st # "None"
      BY <1>1, <1>6, <2>1 DEF UpdatePeer, Live
    <3>2. \A p \in Node : peer'[n][p] = IF p = rx[n].from THEN "fresh" ELSE peer[n][p]
      BY <1>1, <1>6, <2>1 DEF UpdatePeer, TypeOK
    <3>3. QED
      BY <1>1, <1>6, <2>1, <3>1, <3>2 DEF UpdatePeer, TypeOK, Idle
  <2>2. CASE q # n
    BY <1>1, <1>6, <2>2 DEF UpdatePeer, TypeOK
  <2>3. QED
    BY <2>1, <2>2
<1>7. ASSUME NEW q \in Node, NEW p \in Node, ReceiveHello(q, p)
      PROVE  /\ UNCHANGED <<peer, session, guard>>
             /\ rx'[n].pc = "update" =>
                   rx'[n] = rx[n] \/ session[n][rx'[n].from].st # "None"
  BY <1>7 DEF ReceiveHello, TypeOK
<1>8. ASSUME NEW q \in Node, RemoveStale(q)
      PROVE  \/ UNCHANGED <<peer[n], session[n], guard[n], rx>>
             \/ /\ guard'[n] = "monitor"
                /\ \A p \in Node : peer'[n][p] # "none" =>
                      peer'[n][p] = peer[n][p] /\ session'[n][p] = session[n][p]
  <2>1. CASE q = n
    BY <1>8, <2>1 DEF RemoveStale, TypeOK
  <2>2. CASE q # n
    BY <1>8, <2>2 DEF RemoveStale, TypeOK
  <2>3. QED
    BY <2>1, <2>2
<1>9. ASSUME NEW q \in Node, NEW p \in Node, Silence(q, p)
      PROVE  /\ UNCHANGED <<session, guard, rx>>
             /\ \A y \in Node : peer'[n][y] # "none" => peer[n][y] # "none"
  BY <1>9 DEF Silence, TypeOK
<1>10. CASE UNCHANGED <<peer, session, guard, rx>>
  BY <1>1, <1>10
<1> HIDE DEF Kept
<1>11. ASSUME NEW q \in Node, ReceiveHandshake(q) \/ HandleHello(q)
       PROVE  /\ \A p \in Node : peer'[n][p] # "none" => session'[n][p].st # "None"
              /\ guard'[n] = "free" /\ rx'[n].pc = "update"
                    => session'[n][rx'[n].from].st # "None"
  BY <1>2, <1>3, <1>4, <1>5, <1>11
<1>12. ASSUME NEW q \in Node, UpdatePeer(q) \/ RemoveStale(q)
       PROVE  /\ \A p \in Node : peer'[n][p] # "none" => session'[n][p].st # "None"
              /\ guard'[n] = "free" /\ rx'[n].pc = "update"
                    => session'[n][rx'[n].from].st # "None"
  BY <1>1, <1>6, <1>8, <1>12
<1>13. ASSUME NEW q \in Node, NEW p \in Node, ReceiveHello(q, p) \/ Silence(q, p)
       PROVE  /\ \A y \in Node : peer'[n][y] # "none" => session'[n][y].st # "None"
              /\ guard'[n] = "free" /\ rx'[n].pc = "update"
                    => session'[n][rx'[n].from].st # "None"
  BY <1>1, <1>7, <1>9, <1>13
<1>14. QED
  BY <1>10, <1>11, <1>12, <1>13 DEF Next, vars, BroadcastHello, CollectStale,
     Crash, Lose

\* In the source a peer that is in peer_db has a session, although the Hello
\* arm refreshes peer_db after it has released session_db: a monitor that drops
\* the peer in between keeps session_db locked, and the refresh never happens.
\* With the guard dropped before broadcast_lsa this is not so.
THEOREM SourcePeersHaveSessions ==
    ASSUME ~GuardDropped
    PROVE  Spec => []PeerHasSession
<1>1. Init => BasicInv /\ PeerInv
  <2>1. ASSUME Init, NEW n \in Node PROVE rx[n].pc = "idle"
    BY <2>1 DEF Init, Idle
  <2>2. ASSUME Init, NEW n \in Node, NEW p \in Node PROVE peer[n][p] = "none"
    BY <2>2 DEF Init
  <2>3. Init => PeerInv
    BY <2>1, <2>2 DEF PeerInv
  <2>4. QED
    BY <2>3, BasicInit
<1>2. BasicInv /\ PeerInv /\ [Next]_vars => (BasicInv /\ PeerInv)'
  BY BasicNext, PeerNext
<1>3. PeerInv => PeerHasSession
  BY DEF PeerInv, PeerHasSession
<1>4. QED
  BY <1>1, <1>2, <1>3, PTL DEF Spec

-----------------------------------------------------------------------------
(* The two databases implement PeerTable.                                  *)

LEMMA CollectedNext == TypeOK /\ CollectedInv /\ [Next]_vars => CollectedInv'
<1> SUFFICES ASSUME TypeOK, CollectedInv, [Next]_vars,
                    NEW n \in Node, NEW p \in mon'[n]
             PROVE  peer'[n][p] # "none"
  BY DEF CollectedInv
<1>1. p \in Node
  <2>1. TypeOK'
    BY TypeNext
  <2>2. QED
    BY <2>1 DEF TypeOK
<1>2. p \in mon[n] => peer[n][p] # "none"
  BY DEF CollectedInv
<1>3. ASSUME NEW q \in Node, UpdatePeer(q) PROVE peer'[n][p] # "none"
  <2>1. rx[q].from \in Node
    BY DEF TypeOK, RxState
  <2>2. QED
    BY <1>1, <1>2, <1>3, <2>1 DEF UpdatePeer, TypeOK
<1>4. ASSUME NEW q \in Node, NEW y \in Node, Silence(q, y) PROVE peer'[n][p] # "none"
  BY <1>1, <1>2, <1>4 DEF Silence, TypeOK
<1>5. ASSUME NEW q \in Node, CollectStale(q) PROVE peer'[n][p] # "none"
  BY <1>1, <1>2, <1>5 DEF CollectStale, TypeOK
<1>6. ASSUME NEW q \in Node, RemoveStale(q) PROVE peer'[n][p] # "none"
  <2>1. n # q
    BY <1>6 DEF RemoveStale, TypeOK
  <2>2. QED
    BY <1>1, <1>2, <1>6, <2>1 DEF RemoveStale, TypeOK
<1>7. CASE UNCHANGED <<peer, mon>>
  BY <1>2, <1>7
<1>8. QED
  BY <1>3, <1>4, <1>5, <1>6, <1>7 DEF Next, vars, BroadcastHello, HandleHello,
     ReceiveHandshake, Crash, ReceiveHello, Lose

\* A handshake datagram changes one session, and no Transport session.
LEMMA HandshakeEstablishes ==
    ASSUME TypeOK, NEW n \in Node, ReceiveHandshake(n)
    PROVE  \E f \in Node :
              /\ \A x, y \in Node : x # n \/ y # f => session'[x][y] = session[x][y]
              /\ Transport(n, f) => Transport(n, f)'
<1>1. PICK m \in net :
        /\ m.to = n
        /\ \/ RejectUnsolicited(n, m)
           \/ RespondToFirst(n, m)
           \/ FinishAsInitiator(n, m)
           \/ FinishAsResponder(n, m)
           \/ ReadFails(n, m)
           \/ UnexpectedState(n, m)
  BY DEF ReceiveHandshake
<1>2. m.from \in Node
  BY DEF TypeOK, Message
<1>3. \A x, y \in Node : x # n \/ y # m.from => session'[x][y] = session[x][y]
  <2>1. session' = session
          \/ \E t : session' = [session EXCEPT ![n][m.from] = t]
    BY <1>1 DEF RejectUnsolicited, RespondToFirst, FinishAsInitiator,
       FinishAsResponder, ReadFails, UnexpectedState
  <2>2. QED
    BY <1>2, <2>1 DEF TypeOK
<1>4. ASSUME Transport(n, m.from) PROVE Transport(n, m.from)'
  <2>1. /\ Current(n, m.from) = session[n][m.from]
        /\ Current(n, m.from).st = "Transport"
    BY <1>4 DEF Transport, Current
  <2>2. ~RespondToFirst(n, m) /\ ~ReadFails(n, m)
    BY <2>1 DEF RespondToFirst, ReadFails
  <2>3. ~FinishAsInitiator(n, m) /\ ~FinishAsResponder(n, m)
    BY <2>1 DEF FinishAsInitiator, FinishAsResponder
  <2>4. CASE RejectUnsolicited(n, m)
    BY <1>4, <2>4 DEF RejectUnsolicited, Transport
  <2>5. CASE UnexpectedState(n, m)
    <3>1. session'[n][m.from] = session[n][m.from]
      BY <1>2, <2>1, <2>5 DEF UnexpectedState, TypeOK
    <3>2. QED
      BY <1>4, <3>1 DEF Transport
  <2>6. QED
    BY <1>1, <2>2, <2>3, <2>4, <2>5
<1>5. QED
  BY <1>2, <1>3, <1>4

LEMMA KnownKept ==
    ASSUME \A x, y \in Node : peer'[x][y] # "none" <=> peer[x][y] # "none"
    PROVE  KnownPeers' = KnownPeers
BY DEF KnownPeers

LEMMA EstablishedKept ==
    ASSUME \A x, y \in Node : Transport(x, y)' <=> Transport(x, y)
    PROVE  EstablishedPeers' = EstablishedPeers
BY DEF EstablishedPeers

LEMMA KnownMeet ==
    ASSUME NEW n \in Node, NEW f \in Node,
           \A x, y \in Node : peer'[x][y] # "none" <=>
                                peer[x][y] # "none" \/ (x = n /\ y = f)
    PROVE  KnownPeers' = [KnownPeers EXCEPT ![n] = @ \cup {f}]
<1>1. KnownPeers'[n] = KnownPeers[n] \cup {f}
  BY DEF KnownPeers
<1>2. \A x \in Node \ {n} : KnownPeers'[x] = KnownPeers[x]
  BY DEF KnownPeers
<1>3. /\ KnownPeers = [x \in Node |-> KnownPeers[x]]
      /\ KnownPeers' = [x \in Node |-> KnownPeers'[x]]
  BY DEF KnownPeers
<1>4. QED
  BY <1>1, <1>2, <1>3

LEMMA KnownRemove ==
    ASSUME NEW n \in Node, NEW S \in SUBSET Node,
           \A x, y \in Node : peer'[x][y] # "none" <=>
                                peer[x][y] # "none" /\ ~(x = n /\ y \in S)
    PROVE  KnownPeers' = [KnownPeers EXCEPT ![n] = @ \ S]
<1>1. KnownPeers'[n] = KnownPeers[n] \ S
  BY DEF KnownPeers
<1>2. \A x \in Node \ {n} : KnownPeers'[x] = KnownPeers[x]
  BY DEF KnownPeers
<1>3. /\ KnownPeers = [x \in Node |-> KnownPeers[x]]
      /\ KnownPeers' = [x \in Node |-> KnownPeers'[x]]
  BY DEF KnownPeers
<1>4. QED
  BY <1>1, <1>2, <1>3

LEMMA TableInit == Init => Table!Init
<1> SUFFICES ASSUME Init PROVE Table!Init
  OBVIOUS
<1>1. \A n, p \in Node : peer[n][p] = "none" /\ ~Transport(n, p)
  BY DEF Init, Transport, NoSession, Plain
<1>2. KnownPeers = [n \in Node |-> {}] /\ EstablishedPeers = [n \in Node |-> {}]
  BY <1>1 DEF KnownPeers, EstablishedPeers
<1>3. QED
  BY <1>2 DEF Table!Init

LEMMA TableNext ==
    BasicInv /\ CollectedInv /\ [Next]_vars => [Table!Next]_(Table!vars)
<1> SUFFICES ASSUME BasicInv, CollectedInv, [Next]_vars
             PROVE  Table!Next \/ UNCHANGED <<KnownPeers, EstablishedPeers>>
  BY DEF Table!vars
<1> TypeOK /\ HelloOK
  BY DEF BasicInv
<1>1. ASSUME NEW n \in Node, UpdatePeer(n)
      PROVE  Table!Next \/ UNCHANGED <<KnownPeers, EstablishedPeers>>
  <2> DEFINE f == rx[n].from
  <2>1. f \in Node \ {n}
    BY <1>1 DEF UpdatePeer, TypeOK, RxState, HelloOK
  <2>2. EstablishedPeers' = EstablishedPeers
    BY <1>1, EstablishedKept DEF UpdatePeer, Transport
  <2>3. \A x, y \in Node : peer'[x][y] = IF x = n /\ y = f THEN "fresh" ELSE peer[x][y]
    BY <1>1, <2>1 DEF UpdatePeer, TypeOK
  <2> HIDE DEF f
  <2>4. CASE peer[n][f] # "none"
    BY <2>2, <2>3, <2>4, KnownKept
  <2>5. CASE peer[n][f] = "none"
    <3>1. KnownPeers' = [KnownPeers EXCEPT ![n] = @ \cup {f}]
      BY <2>1, <2>3, KnownMeet
    <3>2. f \notin KnownPeers[n]
      BY <2>5 DEF KnownPeers
    <3>3. Table!Meet(n, f)
      BY <2>2, <3>1, <3>2 DEF Table!Meet
    <3>4. QED
      BY <2>1, <3>3 DEF Table!Next
  <2>6. QED
    BY <2>4, <2>5
<1>2. ASSUME NEW n \in Node, ReceiveHandshake(n)
      PROVE  Table!Next \/ UNCHANGED <<KnownPeers, EstablishedPeers>>
  <2>1. KnownPeers' = KnownPeers
    BY <1>2, KnownKept DEF ReceiveHandshake
  <2>2. PICK f \in Node :
           /\ \A x, y \in Node : x # n \/ y # f => session'[x][y] = session[x][y]
           /\ Transport(n, f) => Transport(n, f)'
    BY <1>2, HandshakeEstablishes
  <2>3. \A x, y \in Node : x # n \/ y # f => (Transport(x, y)' <=> Transport(x, y))
    BY <2>2 DEF Transport
  <2>4. CASE Transport(n, f)' <=> Transport(n, f)
    BY <2>1, <2>3, <2>4, EstablishedKept
  <2>5. CASE Transport(n, f)' /\ ~Transport(n, f)
    <3>1. f # n
      <4>1. SessionOK(n, f)'
        BY BasicNext DEF BasicInv, SessionsOK
      <4>2. n \in Nat /\ f \in Nat
        OBVIOUS
      <4>3. QED
        BY <2>5, <4>1, <4>2 DEF SessionOK, Transport, NoSession, Plain
    <3>2. EstablishedPeers' = [EstablishedPeers EXCEPT ![n] = @ \cup {f}]
      BY <2>3, <2>5 DEF EstablishedPeers
    <3>3. f \notin EstablishedPeers[n]
      BY <2>5 DEF EstablishedPeers
    <3>4. Table!Establish(n, f)
      BY <2>1, <3>2, <3>3 DEF Table!Establish
    <3>5. QED
      BY <3>1, <3>4 DEF Table!Next
  <2>6. QED
    BY <2>2, <2>4, <2>5
<1>3. ASSUME NEW n \in Node, HandleHello(n)
      PROVE  UNCHANGED <<KnownPeers, EstablishedPeers>>
  <2>1. session[n][rx[n].from].st = "None" /\ rx[n].from \in Node
    BY <1>3 DEF HandleHello, HelloOK, TypeOK, RxState
  <2>2. \A x, y \in Node : Transport(x, y)' <=> Transport(x, y)
    BY <1>3, <2>1 DEF HandleHello, BecomeResponder, BecomeInitiator, TypeOK,
       Transport, Plain
  <2>3. QED
    BY <1>3, <2>2, KnownKept, EstablishedKept DEF HandleHello
<1>4. ASSUME NEW n \in Node, RemoveStale(n)
      PROVE  Table!Next
  <2>1. mon[n] \in SUBSET Node /\ mon[n] # {} /\ mon[n] \subseteq KnownPeers[n]
    BY <1>4 DEF RemoveStale, TypeOK, CollectedInv, KnownPeers
  <2>2. \A x, y \in Node :
           /\ peer'[x][y] = IF x = n /\ y \in mon[n] THEN "none" ELSE peer[x][y]
           /\ session'[x][y] = IF x = n /\ y \in mon[n] THEN NoSession
                               ELSE session[x][y]
    BY <1>4 DEF RemoveStale, TypeOK
  <2>3. KnownPeers' = [KnownPeers EXCEPT ![n] = @ \ mon[n]]
    <3>1. PICK S \in SUBSET Node : S = mon[n]
      BY <2>1
    <3>2. \A x, y \in Node : peer'[x][y] # "none" <=>
                                 peer[x][y] # "none" /\ ~(x = n /\ y \in S)
      BY <2>2, <3>1
    <3>3. KnownPeers' = [KnownPeers EXCEPT ![n] = @ \ S]
      BY <3>2, KnownRemove
    <3>4. QED
      BY <3>1, <3>3
  <2>4. \A x, y \in Node :
           Transport(x, y)' <=> Transport(x, y) /\ ~(x = n /\ y \in mon[n])
    <3>1. NoSession.st # "Transport"
      BY DEF NoSession, Plain
    <3>2. QED
      BY <2>2, <3>1 DEF Transport
  <2>5. EstablishedPeers' = [EstablishedPeers EXCEPT ![n] = @ \ mon[n]]
    BY <2>4 DEF EstablishedPeers
  <2>6. Table!Remove(n, mon[n])
    BY <2>1, <2>3, <2>5 DEF Table!Remove
  <2>7. QED
    BY <2>1, <2>6 DEF Table!Next
<1>5. ASSUME NEW n \in Node, NEW p \in Node, Silence(n, p)
      PROVE  UNCHANGED <<KnownPeers, EstablishedPeers>>
  <2>1. \A x, y \in Node : peer'[x][y] # "none" <=> peer[x][y] # "none"
    BY <1>5 DEF Silence, TypeOK
  <2>2. QED
    BY <1>5, <2>1, KnownKept, EstablishedKept DEF Silence, Transport
<1>6. CASE UNCHANGED <<peer, session>>
  BY <1>6 DEF KnownPeers, EstablishedPeers, Transport
<1>7. QED
  BY <1>1, <1>2, <1>3, <1>4, <1>5, <1>6 DEF Next, vars, BroadcastHello,
     CollectStale, Crash, ReceiveHello, Lose

\* Discovery, handshake and monitor implement PeerTable, in the source and with
\* the guard dropped: for every set of nodes and every fault, peers and sessions
\* come one by one and a session goes only together with its peer_db entry, in
\* the one step in which remove_stale_peers holds both locks.
THEOREM ImplementsPeerTable == Spec => PeerTableSpec
<1>1. Init => BasicInv /\ CollectedInv
  <2>1. Init => CollectedInv
    BY DEF Init, CollectedInv
  <2>2. QED
    BY <2>1, BasicInit
<1>2. BasicInv /\ CollectedInv /\ [Next]_vars => (BasicInv /\ CollectedInv)'
  BY BasicNext, CollectedNext DEF BasicInv
<1>3. QED
  BY <1>1, <1>2, TableInit, TableNext, PTL DEF Spec, PeerTableSpec, Table!Spec

=============================================================================
