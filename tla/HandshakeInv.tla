---------------------------- MODULE HandshakeInv -----------------------------
(***************************************************************************)
(* The inductive invariant behind SessionAgreement.  Of two nodes the one  *)
(* with the higher id is always the initiator (i), the other the responder *)
(* (r); each numbers the Noise states it builds, so a run of the handshake *)
(* is the pair of numbers both ends have mixed.                            *)
(***************************************************************************)
EXTENDS Handshake

\* Only other nodes' Hellos are handled, and only while there is no session.
HelloOK ==
    /\ \A h \in hello : h[1] # h[2]
    /\ \A n \in Node :
          /\ rx[n].pc # "idle" => rx[n].from # n
          /\ rx[n].pc = "new" => session[n][rx[n].from].st = "None"

\* Keys are only mixed once they exist, and the direction of a datagram tells
\* its kind.
MessageOK(m) ==
    \/ /\ m.kind = 1 /\ m.from > m.to
       /\ m.e \in 1 .. eph[m.from] /\ m.re = 0
    \/ /\ m.kind = 2 /\ m.from < m.to
       /\ m.e \in 1 .. eph[m.to] /\ m.re \in 1 .. eph[m.from]
    \/ /\ m.kind = 3 /\ m.from > m.to
       /\ m.e \in 1 .. eph[m.from] /\ m.re \in 1 .. eph[m.to]

MessagesOK == \A m \in net : MessageOK(m)

\* The same for the sessions of n with p.
SessionOK(n, p) ==
    LET s == session[n][p] IN
    \/ s = NoSession
    \/ s = Plain("Transitioning") /\ n # p
    \/ s = Plain("ExpectingInitiator") /\ n < p
    \/ /\ s.st = "Handshaking" /\ n > p
       /\ s.e \in 1 .. eph[n] /\ s.re = 0
    \/ /\ s.st = "Transport" /\ n > p
       /\ s.e \in 1 .. eph[n] /\ s.re \in 1 .. eph[p]
    \/ /\ s.st \in {"Handshaking", "Transport"} /\ n < p
       /\ s.e \in 1 .. eph[p] /\ s.re \in 1 .. eph[n]

SessionsOK == \A n, p \in Node : SessionOK(n, p)

\* m belongs to the pair of initiator i and responder r.
Between(m, i, r) ==
    \/ m.from = i /\ m.to = r
    \/ m.from = r /\ m.to = i

\* Nothing in flight, and nothing at the other end, is newer than the key an
\* end has in its session.
NewestKeys(i, r) ==
    /\ session[i][r].e > 0 =>
          /\ session[r][i].e <= session[i][r].e
          /\ \A m \in net : Between(m, i, r) => m.e <= session[i][r].e
    /\ session[r][i].re > 0 =>
          /\ session[i][r].re <= session[r][i].re
          /\ \A m \in net : Between(m, i, r) => m.re <= session[r][i].re

\* The initiator has finished run <<e, re>>, as some witness still shows.
Finished(i, r, e, re) ==
    \/ Datagram(3, i, r, e, re) \in net
    \/ session[i][r] = [st |-> "Transport", e |-> e, re |-> re]
    \/ session[r][i] = [st |-> "Transport", e |-> e, re |-> re]

\* The responder has answered message 1 of run <<e, re>>.
Answered(i, r, e, re) ==
    Datagram(2, r, i, e, re) \in net \/ Finished(i, r, e, re)

\* The initiator finishes a run once, with one responder key, and a run it
\* started later was answered later.
RunsOrdered(i, r) ==
    \A e, re \in Eph :
        Finished(i, r, e, re) =>
            /\ session[i][r].e = e => session[i][r].st # "Handshaking"
            /\ \A re2 \in Eph : Finished(i, r, e, re2) => re = re2
            /\ \A e2, re2 \in Eph :
                  e < e2 /\ Answered(i, r, e2, re2) => re < re2

\* What a single session and a single datagram may look like.
BasicInv == TypeOK /\ HelloOK /\ MessagesOK /\ SessionsOK

\* The inductive invariant: what sessions and datagrams of every pair of nodes
\* may look like together, from which SessionAgreement follows.
AgreementInv ==
    /\ BasicInv
    /\ \A i, r \in Node : i > r => NewestKeys(i, r) /\ RunsOrdered(i, r)

\* The inductive invariant behind NeverMutual: message 3 is never sent, so only
\* the initiator reaches Transport, and its receive loop stops there.
StuckInv ==
    ~GuardDropped =>
        /\ \A m \in net : m.kind # 3
        /\ \A n, p \in Node : Transport(n, p) => n > p /\ guard[n] = "receive"

\* The inductive invariant behind PeerHasSession: what the receive loop has seen
\* in session_db is still there when it gets to peer_db, because a monitor that
\* removes it in between keeps session_db locked.
PeerInv ==
    ~GuardDropped =>
        \A n \in Node :
            /\ \A p \in Node : peer[n][p] # "none" => session[n][p].st # "None"
            /\ guard[n] = "free" /\ rx[n].pc = "update"
                  => session[n][rx[n].from].st # "None"

\* The monitor has collected peers that are still in peer_db.
CollectedInv == \A n \in Node : \A p \in mon[n] : peer[n][p] # "none"

=============================================================================
