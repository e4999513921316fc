--------------------------- MODULE LinkStateProofs ---------------------------
(* What TLAPS proves of LinkState, for every mesh and every choice of      *)
(* faults.                                                                 *)
EXTENDS LinkState, TLAPS

USE OriginAssumption, HearsAssumption, SkewAssumption, TimeAssumption

-----------------------------------------------------------------------------
(* The inductive invariant.                                                *)

\* Only numbers that were taken are in use; an LSA without a number is no LSA.
NumberInv ==
    /\ \A n \in Node, t \in Task : job[n][t].pc \in {"number", "generate"} => n \in Origin
    /\ \A n \in Node, t \in Task :
          job[n][t].pc = "generate" => job[n][t].lsa.seq \in 1 .. sequence[n]
    /\ \A n \in Node, t \in Task : job[n][t].pc = "send" => job[n][t].lsa.seq > 0
    /\ \A d \in net : d.lsa.seq > 0
    /\ \A l \in Known : l.seq <= sequence[l.org]
    /\ \A l \in Known : l.seq = 0 => l = Absent(l.org)

\* A number that was taken and has no LSA yet belongs to one task.
PendingInv ==
    \A n \in Node, t \in Task : job[n][t].pc = "generate" =>
        /\ \A l \in Known : l.org = n => l.seq # job[n][t].lsa.seq
        /\ \A u \in Task : job[n][u].pc = "generate" /\ u # t
               => job[n][u].lsa.seq # job[n][t].lsa.seq

\* Unless a broadcast has been called for, the LSA with the last number lists
\* the neighbours as they are.
OrderInv ==
    \A o \in up \cap Origin, l \in Known :
        /\ l.org = o /\ l.seq = sequence[o] /\ l.seq > 0
        /\ \A t \in Task : job[o][t].pc # "number"
        => l.neighbors = Established(o)

\* An LSA that carries the last number of o.
IsLast(o, l) == l.org = o /\ l.seq = sequence[o]

\* From Calm on only the refresh task broadcasts, and the receive loop floods
\* the LSAs of others.
CalmInv ==
    clock >= Calm => \A n \in Node :
        /\ job[n]["monitor"] = Idle
        /\ job[n]["receive"].pc \in {"idle", "send"}
        /\ job[n]["receive"].pc = "send" => job[n]["receive"].lsa.org # n
        /\ job[n]["refresh"].pc # "number"
        /\ job[n]["refresh"].pc # "idle" =>
              n \in refreshed /\ IsLast(n, job[n]["refresh"].lsa)

\* LSAs come from unicast sockets.
UnicastInv ==
    /\ \A d \in net : d.src[2] = "unicast"
    /\ \A n \in Node, t \in Task :
          job[n][t].pc # "idle" => job[n][t].src[2] = "unicast"

\* From Calm on the refresh of a period gives the last number, and its LSA is of
\* this period; when it is done the node has it itself.
RefreshInv ==
    clock >= Calm => \A o \in refreshed :
        /\ sequence[o] > 0
        /\ \A l \in Known : IsLast(o, l) => l.ts = Now(o)
        /\ job[o]["refresh"] = Idle => db[o][o].seq = sequence[o]

\* n is about to send the last LSA of o.
Sending(n, o) ==
    \E t \in Task : job[n][t].pc = "send" /\ IsLast(o, job[n][t].lsa)

\* A neighbour of a node that has the refreshed LSA has it too, or it is on its
\* way there, or about to be.
FloodInv ==
    clock >= Calm => \A o \in refreshed : ClocksAgree(o) =>
        \A n \in up, p \in up \ {o} :
            p \in Addressed(n) /\ db[n][o].seq = sequence[o] =>
                \/ Sending(n, o)
                \/ db[p][o].seq = sequence[o]
                \/ \E d \in net : d.to = p /\ IsLast(o, d.lsa)

SpreadInv == UnicastInv /\ CalmInv /\ RefreshInv /\ FloodInv

IInv == TypeOK /\ NumberInv /\ PendingInv /\ UniqueLsa /\ OrderInv

USE DEF links, timers

-----------------------------------------------------------------------------
(* Types.                                                                  *)

\* What it means that one task of one node goes on.
LEMMA JobSet ==
    ASSUME job \in [Node -> [Task -> Job]], NEW n \in Node, NEW t \in Task,
           NEW j \in Job, job' = [job EXCEPT ![n][t] = j]
    PROVE  /\ job' \in [Node -> [Task -> Job]]
           /\ job'[n][t] = j
           /\ \A m \in Node, u \in Task : m # n \/ u # t => job'[m][u] = job[m][u]
  OBVIOUS

LEMMA AbsentType ==
    ASSUME NEW o \in Origin
    PROVE  Absent(o) \in Lsa /\ Absent(o).org = o /\ Absent(o).seq = 0
  BY DEF Absent, Lsa

LEMMA IdleType == Idle \in Job /\ Idle.pc = "idle"
  BY DEF Idle, Job

LEMMA AtType ==
    ASSUME NEW c \in {"number", "generate", "send"}, NEW a \in Address, NEW l \in Lsa
    PROVE  /\ At(c, a, l) \in Job /\ At(c, a, l) # Idle
           /\ At(c, a, l).pc = c /\ At(c, a, l).src = a /\ At(c, a, l).lsa = l
  BY DEF At, Job, Idle

\* A task at work has an LSA, complete or not.
LEMMA WorkType ==
    ASSUME NEW j \in Job, j.pc # "idle"
    PROVE  j.src \in Address /\ j.lsa \in Lsa
  BY DEF Job, Idle

\* The number is taken.
NumberedLsa(n) == [org |-> n, seq |-> sequence[n] + 1, ts |-> 0, neighbors |-> {}]

LEMMA NumberedStep ==
    ASSUME TypeOK, NEW n \in Origin, NEW t \in Task, Numbered(n, t)
    PROVE  /\ NumberedLsa(n) \in Lsa
           /\ sequence' \in [Origin -> Nat] /\ sequence'[n] = sequence[n] + 1
           /\ \A o \in Origin : o # n => sequence'[o] = sequence[o]
           /\ job' \in [Node -> [Task -> Job]]
           /\ job'[n][t] = At("generate", <<n, "unicast">>, NumberedLsa(n))
           /\ \A m \in Node, u \in Task : m # n \/ u # t => job'[m][u] = job[m][u]
<1>1. n \in Node /\ <<n, "unicast">> \in Address
  BY DEF Address
<1>2. NumberedLsa(n) \in Lsa
  BY DEF NumberedLsa, Lsa, TypeOK
<1>3. [Absent(n) EXCEPT !.seq = sequence[n] + 1] = NumberedLsa(n)
  BY DEF Absent, NumberedLsa
<1>4. job' = [job EXCEPT ![n][t] = At("generate", <<n, "unicast">>, NumberedLsa(n))]
  BY <1>3 DEF Numbered
<1>5. At("generate", <<n, "unicast">>, NumberedLsa(n)) \in Job
  BY <1>1, <1>2, AtType
<1>6. /\ sequence' \in [Origin -> Nat] /\ sequence'[n] = sequence[n] + 1
      /\ \A o \in Origin : o # n => sequence'[o] = sequence[o]
  BY DEF Numbered, TypeOK
<1> HIDE DEF NumberedLsa
<1>7. QED
  BY <1>1, <1>2, <1>4, <1>5, <1>6, JobSet DEF TypeOK

\* The LSA is made.
GeneratedLsa(n, t) ==
    [org |-> n, seq |-> job[n][t].lsa.seq, ts |-> Now(n), neighbors |-> Established(n)]

LEMMA GenerateStep ==
    ASSUME TypeOK, NEW n \in Origin, NEW t \in Task, Generate(n, t)
    PROVE  /\ GeneratedLsa(n, t) \in Lsa
           /\ job' \in [Node -> [Task -> Job]]
           /\ job'[n][t] = At("send", <<n, "unicast">>, GeneratedLsa(n, t))
           /\ \A m \in Node, u \in Task : m # n \/ u # t => job'[m][u] = job[m][u]
<1>1. n \in Node /\ <<n, "unicast">> \in Address
  BY DEF Address
<1>2. job[n][t] \in Job /\ job[n][t].pc = "generate"
  BY <1>1 DEF Generate, TypeOK
<1>3. job[n][t].lsa.seq \in Nat
  BY <1>2, WorkType DEF Lsa
<1>4. Now(n) \in Nat /\ Established(n) \in SUBSET Node
  BY <1>1 DEF Now, Established, TypeOK
<1>5. GeneratedLsa(n, t) \in Lsa
  BY <1>3, <1>4 DEF GeneratedLsa, Lsa
<1>6. job' = [job EXCEPT ![n][t] = At("send", <<n, "unicast">>, GeneratedLsa(n, t))]
  BY DEF Generate, GeneratedLsa
<1>7. At("send", <<n, "unicast">>, GeneratedLsa(n, t)) \in Job
  BY <1>1, <1>5, AtType
<1> HIDE DEF GeneratedLsa
<1>8. QED
  BY <1>1, <1>5, <1>6, <1>7, JobSet DEF TypeOK

\* A broadcast is called, if n's LSAs are followed.
LEMMA ChangedStep ==
    ASSUME TypeOK, NEW n \in Node, NEW t \in Task, Changed(n, t)
    PROVE  /\ events' \in 0 .. MaxEvents
           /\ job' \in [Node -> [Task -> Job]]
           /\ n \in Origin => job'[n][t] = At("number", <<n, "unicast">>, Absent(n))
           /\ n \notin Origin => job' = job
           /\ \A m \in Node, u \in Task : m # n \/ u # t => job'[m][u] = job[m][u]
<1>1. events' \in 0 .. MaxEvents
  BY DEF Changed, Event, TypeOK
<1>2. CASE n \in Origin
  <2>1. <<n, "unicast">> \in Address
    BY DEF Address
  <2>2. At("number", <<n, "unicast">>, Absent(n)) \in Job
    BY <1>2, <2>1, AbsentType, AtType
  <2>3. job' = [job EXCEPT ![n][t] = At("number", <<n, "unicast">>, Absent(n))]
    BY <1>2 DEF Changed, Call
  <2>4. QED
    BY <1>1, <1>2, <2>2, <2>3, JobSet DEF TypeOK
<1>3. CASE n \notin Origin
  BY <1>1, <1>3 DEF Changed, TypeOK
<1>4. QED
  BY <1>2, <1>3

\* handle_lsa stores and floods, or does nothing.
LEMMA HandleStep ==
    ASSUME TypeOK, NEW m \in Node, NEW d \in net, HandleLsa(m, d.src, d.lsa)
    PROVE  \/ UNCHANGED <<db, job>>
           \/ /\ d.lsa.org # m /\ Newer(d.lsa, db[m][d.lsa.org])
              /\ d.lsa \in Lsa /\ d.lsa.org \in Origin
              /\ db' \in [Node -> [Origin -> Lsa]]
              /\ db'[m][d.lsa.org] = d.lsa
              /\ \A n \in Node, o \in Origin :
                    n # m \/ o # d.lsa.org => db'[n][o] = db[n][o]
              /\ job' \in [Node -> [Task -> Job]]
              /\ job'[m]["receive"] = At("send", d.src, d.lsa)
              /\ \A n \in Node, u \in Task :
                    n # m \/ u # "receive" => job'[n][u] = job[n][u]
<1>1. d.lsa \in Lsa /\ d.src \in Address /\ d.lsa.org \in Origin
  BY DEF TypeOK, Lsa
<1>2. At("send", d.src, d.lsa) \in Job
  BY <1>1, AtType
<1>3. CASE d.lsa.org # m /\ Newer(d.lsa, db[m][d.lsa.org])
  <2>1. /\ db' = [db EXCEPT ![m][d.lsa.org] = d.lsa]
        /\ job' = [job EXCEPT ![m]["receive"] = At("send", d.src, d.lsa)]
    BY <1>3 DEF HandleLsa
  <2>2. "receive" \in Task
    BY DEF Task
  <2>3. /\ job' \in [Node -> [Task -> Job]]
        /\ job'[m]["receive"] = At("send", d.src, d.lsa)
        /\ \A n \in Node, u \in Task :
              n # m \/ u # "receive" => job'[n][u] = job[n][u]
    BY <1>2, <2>1, <2>2, JobSet DEF TypeOK
  <2>4. /\ db' \in [Node -> [Origin -> Lsa]]
        /\ db'[m][d.lsa.org] = d.lsa
        /\ \A n \in Node, o \in Origin :
              n # m \/ o # d.lsa.org => db'[n][o] = db[n][o]
    BY <1>1, <2>1 DEF TypeOK
  <2>5. QED
    BY <1>1, <1>3, <2>3, <2>4
<1>4. CASE ~(d.lsa.org # m /\ Newer(d.lsa, db[m][d.lsa.org]))
  BY <1>4 DEF HandleLsa
<1>5. QED
  BY <1>3, <1>4

\* The LSA is stored, if it is the node's own, and sent.
LEMMA SendStep ==
    ASSUME TypeOK, NEW n \in Node, NEW t \in Task, Send(n, t)
    PROVE  /\ job[n][t].lsa \in Lsa /\ job[n][t].pc = "send"
           /\ job' \in [Node -> [Task -> Job]] /\ job'[n][t] = Idle
           /\ \A m \in Node, u \in Task : m # n \/ u # t => job'[m][u] = job[m][u]
           /\ db' \in [Node -> [Origin -> Lsa]]
           /\ \A m \in Node, o \in Origin :
                 \/ db'[m][o] = db[m][o]
                 \/ m = o /\ db'[m][o] = job[n][t].lsa /\ job[n][t].lsa.org = o
           /\ net' \subseteq [src : Address, to : Node, lsa : Lsa]
           /\ \A d \in net' : d \in net \/ d.lsa = job[n][t].lsa
<1> DEFINE l == job[n][t].lsa
<1>1. job[n][t] \in Job /\ job[n][t].pc = "send"
  BY DEF Send, TypeOK
<1>2. l \in Lsa
  BY <1>1, WorkType
<1>3. /\ job' \in [Node -> [Task -> Job]] /\ job'[n][t] = Idle
      /\ \A m \in Node, u \in Task : m # n \/ u # t => job'[m][u] = job[m][u]
  <2>1. job' = [job EXCEPT ![n][t] = Idle]
    BY DEF Send
  <2>2. QED
    BY <2>1, IdleType, JobSet DEF TypeOK
<1>4. /\ db' \in [Node -> [Origin -> Lsa]]
      /\ \A m \in Node, o \in Origin :
            db'[m][o] = db[m][o] \/ (m = o /\ db'[m][o] = l /\ l.org = o)
  <2>1. db' = IF l.org = n THEN [db EXCEPT ![n][n] = l] ELSE db
    BY DEF Send
  <2>2. CASE l.org = n
    <3>1. n \in Origin
      BY <1>2, <2>2 DEF Lsa
    <3> HIDE DEF l
    <3>2. QED
      BY <1>2, <2>1, <2>2, <3>1 DEF TypeOK
  <2>3. CASE l.org # n
    BY <2>1, <2>3 DEF TypeOK
  <2>4. QED
    BY <2>2, <2>3
<1>5. PICK T \in SUBSET Node : net' = net \cup [src : {<<n, "unicast">>}, lsa : {l}, to : T]
  BY DEF Send, Addressed
<1>6. <<n, "unicast">> \in Address
  BY DEF Address
<1>7. /\ net' \subseteq [src : Address, to : Node, lsa : Lsa]
      /\ \A d \in net' : d \in net \/ d.lsa = l
  <2> HIDE DEF l
  <2>1. QED
    BY <1>2, <1>5, <1>6 DEF TypeOK
<1>8. QED
  BY <1>1, <1>2, <1>3, <1>4, <1>7

LEMMA CleanupStep ==
    ASSUME TypeOK, NEW m \in Node, CleanupStaleLsas(m)
    PROVE  /\ db' \in [Node -> [Origin -> Lsa]]
           /\ \A n \in Node, o \in Origin :
                 \/ db'[n][o] = db[n][o]
                 \/ n = m /\ o \in Stale(m) /\ db'[n][o] = Absent(o)
<1>1. \A o \in Origin : Absent(o) \in Lsa
  BY AbsentType
<1>2. db' = [db EXCEPT ![m] =
                [o \in Origin |-> IF o \in Stale(m) THEN Absent(o) ELSE db[m][o]]]
  BY DEF CleanupStaleLsas
<1>3. QED
  BY <1>1, <1>2 DEF TypeOK

LEMMA TypeInit == Init => TypeOK
<1> SUFFICES ASSUME Init PROVE TypeOK
  OBVIOUS
<1>1. \A o \in Origin : Absent(o) \in Lsa /\ Absent(o).org = o
  BY AbsentType
<1>2. db \in [Node -> [Origin -> Lsa]] /\ \A m \in Node, o \in Origin : db[m][o].org = o
  BY <1>1 DEF Init
<1>3. job \in [Node -> [Task -> Job]]
  BY IdleType DEF Init
<1>4. link \in [Node -> [Node -> Link]]
  BY DEF Init, Link
<1>5. QED
  BY <1>2, <1>3, <1>4 DEF Init, TypeOK

LEMMA DbOrg == TypeOK => \A m \in Node, o \in Origin : db[m][o].org = o
  BY DEF TypeOK

LEMMA TypeNext == TypeOK /\ NumberInv /\ [Next]_vars => TypeOK'
<1> SUFFICES ASSUME TypeOK, NumberInv, [Next]_vars PROVE TypeOK'
  OBVIOUS
<1>1. ASSUME NEW n \in Node, NEW p \in Node, Establish(n, p) PROVE TypeOK'
  <2>1. "receive" \in Task /\ Changed(n, "receive")
    BY <1>1 DEF Task, Establish
  <2>2. link' \in [Node -> [Node -> Link]]
    BY <1>1 DEF Establish, TypeOK, Link
  <2>3. UNCHANGED <<up, sequence, db, net, timers>>
    BY <1>1 DEF Establish
  <2>4. QED
    BY <2>1, <2>2, <2>3, ChangedStep DEF TypeOK
<1>2. ASSUME NEW n \in Node, NEW p \in Node, Greet(n, p) PROVE TypeOK'
  <2>1. link' \in [Node -> [Node -> Link]]
    BY <1>2 DEF Greet, TypeOK, Link
  <2>2. QED
    BY <1>2, <2>1 DEF Greet, TypeOK
<1>3. ASSUME NEW n \in Node, Remove(n) PROVE TypeOK'
  <2>1. "monitor" \in Task /\ Changed(n, "monitor")
    BY <1>3 DEF Task, Remove
  <2>2. link' \in [Node -> [Node -> Link]]
    <3>1. PICK S : link' = [link EXCEPT ![n] =
                              [p \in Node |-> IF p \in S THEN "none" ELSE link[n][p]]]
      BY <1>3 DEF Remove
    <3>2. QED
      BY <3>1 DEF TypeOK, Link
  <2>3. UNCHANGED <<up, sequence, db, net, timers>>
    BY <1>3 DEF Remove
  <2>4. QED
    BY <2>1, <2>2, <2>3, ChangedStep DEF TypeOK
<1>4. ASSUME NEW m \in Node, ReceiveLsa(m) PROVE TypeOK'
  <2>1. PICK d \in net : HandleLsa(m, d.src, d.lsa)
    BY <1>4 DEF ReceiveLsa
  <2>2. /\ net' \subseteq net /\ events' \in 0 .. MaxEvents
        /\ UNCHANGED <<up, link, sequence, timers>>
    BY <1>4 DEF ReceiveLsa, Event, TypeOK
  <2>3. CASE UNCHANGED <<db, job>>
    BY <2>2, <2>3 DEF TypeOK
  <2>4. CASE ~UNCHANGED <<db, job>>
    <3>1. /\ db' \in [Node -> [Origin -> Lsa]] /\ job' \in [Node -> [Task -> Job]]
          /\ \A n \in Node, o \in Origin : db'[n][o].org = o
      <4>1. /\ db' \in [Node -> [Origin -> Lsa]] /\ job' \in [Node -> [Task -> Job]]
            /\ db'[m][d.lsa.org] = d.lsa
            /\ \A n \in Node, o \in Origin :
                  n # m \/ o # d.lsa.org => db'[n][o] = db[n][o]
        BY <2>1, <2>4, HandleStep
      <4>2. ASSUME NEW n \in Node, NEW o \in Origin PROVE db'[n][o].org = o
        <5>1. CASE n = m /\ o = d.lsa.org
          BY <4>1, <5>1
        <5>2. CASE ~(n = m /\ o = d.lsa.org)
          <6>1. db'[n][o] = db[n][o]
            BY <4>1, <5>2
          <6>2. QED
            BY <6>1, DbOrg
        <5>3. QED
          BY <5>1, <5>2
      <4>3. QED
        BY <4>1, <4>2
    <3>2. QED
      BY <2>2, <3>1 DEF TypeOK
  <2>5. QED
    BY <2>3, <2>4
<1>5. ASSUME NEW m \in Node, CleanupStaleLsas(m) PROVE TypeOK'
  <2>1. /\ db' \in [Node -> [Origin -> Lsa]]
        /\ \A n \in Node, o \in Origin : db'[n][o].org = o
    BY <1>5, CleanupStep, AbsentType, DbOrg
  <2>2. cleaned' \subseteq Node /\ UNCHANGED <<links, clock, refreshed, sequence, job, net>>
    BY <1>5 DEF CleanupStaleLsas, TypeOK
  <2>3. QED
    BY <2>1, <2>2 DEF TypeOK
<1>6. ASSUME NEW n \in Node, NEW t \in Task, TakeNumber(n, t) PROVE TypeOK'
  <2>1. n \in Origin /\ Numbered(n, t)
    BY <1>6 DEF TakeNumber, NumberInv
  <2>2. UNCHANGED <<links, db, net, timers>>
    BY <1>6 DEF TakeNumber
  <2>3. QED
    BY <2>1, <2>2, NumberedStep DEF TypeOK
<1>7. ASSUME NEW n \in Origin, Refresh(n) PROVE TypeOK'
  <2>1. "refresh" \in Task /\ Numbered(n, "refresh")
    BY <1>7 DEF Task, Refresh
  <2>2. refreshed' \subseteq Origin /\ UNCHANGED <<links, clock, cleaned, db, net>>
    BY <1>7 DEF Refresh, TypeOK
  <2>3. QED
    BY <2>1, <2>2, NumberedStep DEF TypeOK
<1>8. ASSUME NEW n \in Node, NEW t \in Task, Generate(n, t) PROVE TypeOK'
  <2>1. n \in Origin
    BY <1>8 DEF Generate, NumberInv
  <2>2. UNCHANGED <<links, sequence, db, net, timers>>
    BY <1>8 DEF Generate
  <2>3. QED
    BY <1>8, <2>1, <2>2, GenerateStep DEF TypeOK
<1>9. ASSUME NEW n \in Node, NEW t \in Task, Send(n, t) PROVE TypeOK'
  <2>1. \A m \in Node, o \in Origin : db'[m][o].org = o
    <3> SUFFICES ASSUME NEW m \in Node, NEW o \in Origin PROVE db'[m][o].org = o
      OBVIOUS
    <3>1. \/ db'[m][o] = db[m][o]
          \/ db'[m][o] = job[n][t].lsa /\ job[n][t].lsa.org = o
      BY <1>9, SendStep
    <3>2. db[m][o].org = o
      BY DbOrg
    <3>3. QED
      BY <3>1, <3>2
  <2>2. UNCHANGED <<links, sequence, timers>>
    BY <1>9 DEF Send
  <2>3. QED
    BY <1>9, <2>1, <2>2, SendStep DEF TypeOK
<1>10. ASSUME NEW n \in Origin, Stop(n) PROVE TypeOK'
  <2>1. job' \in [Node -> [Task -> Job]]
    BY <1>10, IdleType DEF Stop, TypeOK
  <2>2. QED
    BY <1>10, <2>1 DEF Stop, Event, TypeOK
<1>11. CASE Tick
  BY <1>11 DEF Tick, Event, TypeOK
<1>12. CASE Lose
  BY <1>12 DEF Lose, Event, TypeOK
<1>13. CASE UNCHANGED vars
  BY <1>13 DEF vars, TypeOK
<1>14. QED
  BY <1>1, <1>2, <1>3, <1>4, <1>5, <1>6, <1>7, <1>8, <1>9, <1>10, <1>11, <1>12,
     <1>13 DEF Next, JobStep

-----------------------------------------------------------------------------
(* What a step does to the LSAs there are.                                 *)

\* Some task is about to send l.
Ready(l) == \E n \in Node, t \in Task : job[n][t].pc = "send" /\ l = job[n][t].lsa

LEMMA KnownIs ==
    /\ \A l : l \in Known <=> \/ \E m \in Node, o \in Origin : l = db[m][o]
                              \/ \E d \in net : l = d.lsa
                              \/ Ready(l)
    /\ \A l : l \in Known' <=> \/ \E m \in Node, o \in Origin : l = db'[m][o]
                               \/ \E d \in net' : l = d.lsa
                               \/ Ready(l)'
  BY DEF Known, Ready

LEMMA KnownType == TypeOK => Known \subseteq Lsa
<1> SUFFICES ASSUME TypeOK, NEW l \in Known PROVE l \in Lsa
  OBVIOUS
<1>1. CASE \E m \in Node, o \in Origin : l = db[m][o]
  BY <1>1 DEF TypeOK
<1>2. CASE \E d \in net : l = d.lsa
  BY <1>2 DEF TypeOK
<1>3. CASE Ready(l)
  <2>1. PICK n \in Node, t \in Task : job[n][t].pc = "send" /\ l = job[n][t].lsa
    BY <1>3 DEF Ready
  <2>2. job[n][t] \in Job
    BY DEF TypeOK
  <2>3. QED
    BY <2>1, <2>2, WorkType
<1>4. QED
  BY <1>1, <1>2, <1>3, KnownIs

LEMMA DbSteps ==
    ASSUME TypeOK, [Next]_vars, NEW m \in Node, NEW o \in Origin
    PROVE  \/ db'[m][o] = db[m][o] \/ db'[m][o] = Absent(o)
           \/ \E d \in net : db'[m][o] = d.lsa
           \/ Ready(db'[m][o])
<1>1. ASSUME NEW n \in Node, ReceiveLsa(n)
      PROVE  db'[m][o] = db[m][o] \/ \E d \in net : db'[m][o] = d.lsa
  <2>1. PICK d \in net : HandleLsa(n, d.src, d.lsa)
    BY <1>1 DEF ReceiveLsa
  <2>2. db'[m][o] = db[m][o] \/ db'[m][o] = d.lsa
    BY <2>1, HandleStep
  <2>3. QED
    BY <2>2
<1>2. ASSUME NEW n \in Node, CleanupStaleLsas(n)
      PROVE  db'[m][o] = db[m][o] \/ db'[m][o] = Absent(o)
  BY <1>2, CleanupStep
<1>3. ASSUME NEW n \in Node, NEW t \in Task, Send(n, t)
      PROVE  db'[m][o] = db[m][o] \/ Ready(db'[m][o])
  <2>1. db'[m][o] = db[m][o] \/ db'[m][o] = job[n][t].lsa
    BY <1>3, SendStep
  <2>2. job[n][t].pc = "send"
    BY <1>3, SendStep
  <2>3. QED
    BY <2>1, <2>2 DEF Ready
<1>4. CASE db' = db
  BY <1>4
<1>5. QED
  BY <1>1, <1>2, <1>3, <1>4 DEF Next, JobStep, Establish, Greet, Remove,
     TakeNumber, Generate, Refresh, Stop, Tick, Lose, vars

LEMMA NetSteps ==
    ASSUME TypeOK, [Next]_vars, NEW d \in net'
    PROVE  d \in net \/ Ready(d.lsa)
<1>1. ASSUME NEW n \in Node, NEW t \in Task, Send(n, t) PROVE d \in net \/ Ready(d.lsa)
  BY <1>1, SendStep DEF Ready
<1>2. CASE net' \subseteq net
  BY <1>2
<1>3. CASE ~\E n \in Node, t \in Task : Send(n, t)
  BY <1>2, <1>3 DEF Next, JobStep, Establish, Greet, Remove, ReceiveLsa,
     CleanupStaleLsas, TakeNumber, Generate, Refresh, Stop, Tick, Lose, vars
<1>4. QED
  BY <1>1, <1>3

\* What a task is at after a step.
LEMMA JobSteps ==
    ASSUME TypeOK, NumberInv, [Next]_vars, NEW n \in Node, NEW t \in Task
    PROVE  \/ job'[n][t] = job[n][t]
           \/ job'[n][t] = Idle
           \/ /\ n \in Origin /\ job'[n][t].pc = "number"
              /\ job'[n][t].src = <<n, "unicast">>
           \/ n \in Origin /\ Numbered(n, t) /\ db' = db /\ net' = net
           \/ n \in Origin /\ Generate(n, t)
           \/ \E d \in net : job'[n][t] = At("send", d.src, d.lsa)
<1> DEFINE Goal ==
           \/ job'[n][t] = job[n][t]
           \/ job'[n][t] = Idle
           \/ /\ n \in Origin /\ job'[n][t].pc = "number"
              /\ job'[n][t].src = <<n, "unicast">>
           \/ n \in Origin /\ Numbered(n, t) /\ db' = db /\ net' = net
           \/ n \in Origin /\ Generate(n, t)
           \/ \E d \in net : job'[n][t] = At("send", d.src, d.lsa)
<1>1. ASSUME NEW m \in Node, NEW u \in Task, Changed(m, u) PROVE Goal
  <2>1. CASE m = n /\ u = t /\ n \in Origin
    <3>1. job'[n][t] = At("number", <<n, "unicast">>, Absent(n))
      BY <1>1, <2>1, ChangedStep
    <3>2. QED
      BY <2>1, <3>1 DEF At
  <2>2. CASE ~(m = n /\ u = t /\ n \in Origin)
    <3>1. job'[n][t] = job[n][t]
      BY <1>1, <2>2, ChangedStep
    <3>2. QED
      BY <3>1
  <2>3. QED
    BY <2>1, <2>2
<1>2. ASSUME NEW m \in Node, ReceiveLsa(m) PROVE Goal
  <2>1. PICK d \in net : HandleLsa(m, d.src, d.lsa)
    BY <1>2 DEF ReceiveLsa
  <2>2. job'[n][t] = job[n][t] \/ job'[n][t] = At("send", d.src, d.lsa)
    BY <2>1, HandleStep
  <2>3. QED
    BY <2>2
<1>3. ASSUME NEW m \in Origin, NEW u \in Task, Numbered(m, u), db' = db, net' = net
      PROVE  Goal
  <2>1. (m = n /\ u = t) \/ job'[n][t] = job[n][t]
    BY <1>3, NumberedStep
  <2>2. QED
    BY <1>3, <2>1
<1>4. ASSUME NEW m \in Origin, NEW u \in Task, Generate(m, u) PROVE Goal
  <2>1. (m = n /\ u = t) \/ job'[n][t] = job[n][t]
    BY <1>4, GenerateStep
  <2>2. QED
    BY <1>4, <2>1
<1>5. ASSUME NEW m \in Node, NEW u \in Task, Send(m, u) PROVE Goal
  <2>1. job'[n][t] = Idle \/ job'[n][t] = job[n][t]
    BY <1>5, SendStep
  <2>2. QED
    BY <2>1
<1>6. ASSUME NEW m \in Origin, Stop(m) PROVE Goal
  <2>1. job'[n][t] = Idle \/ job'[n][t] = job[n][t]
    BY <1>6 DEF Stop, TypeOK
  <2>2. QED
    BY <2>1
<1>7. ASSUME job' = job PROVE Goal
  BY <1>7
<1> HIDE DEF Goal
<1>8. ASSUME NEW m \in Node, NEW u \in Task, JobStep(m, u) PROVE Goal
  <2>1. CASE TakeNumber(m, u)
    <3>1. m \in Origin /\ Numbered(m, u) /\ db' = db /\ net' = net
      BY <2>1 DEF TakeNumber, NumberInv
    <3>2. QED
      BY <1>3, <3>1
  <2>2. CASE Generate(m, u)
    <3>1. m \in Origin
      BY <2>2 DEF Generate, NumberInv
    <3>2. QED
      BY <1>4, <2>2, <3>1
  <2>3. CASE Send(m, u)
    BY <1>5, <2>3
  <2>4. QED
    BY <1>8, <2>1, <2>2, <2>3 DEF JobStep
<1>9. ASSUME NEW m \in Node, NEW p \in Node, Establish(m, p) PROVE Goal
  BY <1>1, <1>9 DEF Establish, Task
<1>10. ASSUME NEW m \in Node, Remove(m) PROVE Goal
  BY <1>1, <1>10 DEF Remove, Task
<1>11. ASSUME NEW m \in Origin, Refresh(m) PROVE Goal
  BY <1>3, <1>11 DEF Refresh, Task
<1>12. ASSUME \/ \E m, p \in Node : Greet(m, p)
              \/ \E m \in Node : CleanupStaleLsas(m)
              \/ Tick \/ Lose \/ UNCHANGED vars
       PROVE  Goal
  BY <1>7, <1>12 DEF Greet, CleanupStaleLsas, Tick, Lose, vars
<1>13. Goal
  <2>1. CASE \E m, p \in Node : Establish(m, p) \/ Greet(m, p)
    BY <1>9, <1>12, <2>1
  <2>2. CASE \E m \in Node : Remove(m) \/ ReceiveLsa(m) \/ CleanupStaleLsas(m)
    BY <1>2, <1>10, <1>12, <2>2
  <2>3. CASE \E m \in Node, u \in Task : JobStep(m, u)
    BY <1>8, <2>3
  <2>4. CASE \E m \in Origin : Refresh(m) \/ Stop(m)
    BY <1>6, <1>11, <2>4
  <2>5. CASE Tick \/ Lose \/ UNCHANGED vars
    BY <1>12, <2>5
  <2>6. QED
    BY <2>1, <2>2, <2>3, <2>4, <2>5 DEF Next
<1>14. QED
  BY <1>13 DEF Goal

\* The only new LSA is the one that generate_lsa makes.
LEMMA KnownNext ==
    ASSUME TypeOK, NumberInv, [Next]_vars, NEW l \in Known'
    PROVE  \/ l \in Known
           \/ \E o \in Origin : l = Absent(o)
           \/ \E n \in Origin, t \in Task : Generate(n, t) /\ l = GeneratedLsa(n, t)
<1>1. ASSUME NEW m \in Node, NEW o \in Origin, l = db'[m][o]
      PROVE  l \in Known \/ l = Absent(o)
  BY <1>1, DbSteps, KnownIs
<1>2. ASSUME NEW d \in net', l = d.lsa PROVE l \in Known
  BY <1>2, NetSteps, KnownIs
<1>3. ASSUME NEW n \in Node, NEW t \in Task, job'[n][t].pc = "send",
             l = job'[n][t].lsa
      PROVE  \/ l \in Known
             \/ \E o \in Origin, u \in Task : Generate(o, u) /\ l = GeneratedLsa(o, u)
  <2>1. CASE job'[n][t] = job[n][t]
    BY <1>3, <2>1, KnownIs DEF Ready
  <2>2. CASE job'[n][t] = Idle \/ job'[n][t].pc = "number"
    BY <1>3, <2>2, IdleType
  <2>3. CASE n \in Origin /\ Numbered(n, t)
    <3>1. job'[n][t] = At("generate", <<n, "unicast">>, NumberedLsa(n))
      BY <2>3, NumberedStep
    <3>2. QED
      BY <1>3, <3>1 DEF At
  <2>4. CASE n \in Origin /\ Generate(n, t)
    <3>1. job'[n][t] = At("send", <<n, "unicast">>, GeneratedLsa(n, t))
      BY <2>4, GenerateStep
    <3>2. job'[n][t].lsa = GeneratedLsa(n, t)
      BY <3>1 DEF At
    <3>3. QED
      BY <1>3, <2>4, <3>2
  <2>5. ASSUME NEW d \in net, job'[n][t] = At("send", d.src, d.lsa)
        PROVE  l \in Known
    BY <1>3, <2>5, KnownIs DEF At
  <2>6. QED
    BY <2>1, <2>2, <2>3, <2>4, <2>5, JobSteps
<1>4. QED
  BY <1>1, <1>2, <1>3, KnownIs DEF Ready

-----------------------------------------------------------------------------
(* Numbers.                                                                *)

\* A step takes a number, or leaves all counters.
LEMMA SequenceSteps ==
    ASSUME TypeOK, NumberInv, [Next]_vars
    PROVE  \/ sequence' = sequence
           \/ \E n \in Origin, t \in Task :
                 Numbered(n, t) /\ UNCHANGED <<up, link, db, net>>
<1>1. ASSUME NEW n \in Node, NEW t \in Task, TakeNumber(n, t)
      PROVE  n \in Origin /\ Numbered(n, t) /\ UNCHANGED <<up, link, db, net>>
  BY <1>1 DEF TakeNumber, NumberInv
<1>2. ASSUME NEW n \in Origin, Refresh(n)
      PROVE  Numbered(n, "refresh") /\ UNCHANGED <<up, link, db, net>>
  BY <1>2 DEF Refresh
<1>3. "refresh" \in Task
  BY DEF Task
<1>4. CASE sequence' = sequence
  BY <1>4
<1>5. QED
  BY <1>1, <1>2, <1>3, <1>4 DEF Next, JobStep, Establish, Greet, Remove, ReceiveLsa,
     CleanupStaleLsas, Generate, Send, Stop, Tick, Lose, vars

LEMMA SequenceGrows ==
    ASSUME TypeOK, NumberInv, [Next]_vars, NEW o \in Origin
    PROVE  /\ sequence[o] \in Nat /\ sequence'[o] \in Nat
           /\ sequence[o] <= sequence'[o]
<1>1. sequence[o] \in Nat
  BY DEF TypeOK
<1>2. ASSUME NEW n \in Origin, NEW t \in Task, Numbered(n, t)
      PROVE  sequence'[o] = sequence[o] \/ sequence'[o] = sequence[o] + 1
  BY <1>2, NumberedStep
<1>3. sequence'[o] = sequence[o] \/ sequence'[o] = sequence[o] + 1
  BY <1>2, SequenceSteps
<1>4. QED
  BY <1>1, <1>3

\* A number that is being used for an LSA.
LEMMA GeneratedNumber ==
    ASSUME TypeOK, NumberInv, NEW n \in Origin, NEW t \in Task, Generate(n, t)
    PROVE  /\ GeneratedLsa(n, t).org = n
           /\ GeneratedLsa(n, t).seq = job[n][t].lsa.seq
           /\ GeneratedLsa(n, t).seq \in Nat
           /\ GeneratedLsa(n, t).seq > 0
           /\ GeneratedLsa(n, t).seq <= sequence[n]
           /\ job[n][t].pc = "generate"
<1>1. job[n][t].lsa.seq \in 1 .. sequence[n] /\ job[n][t].pc = "generate"
  BY DEF Generate, NumberInv
<1>2. sequence[n] \in Nat
  BY DEF TypeOK
<1>3. QED
  BY <1>1, <1>2 DEF GeneratedLsa

LEMMA KnownNumbered ==
    ASSUME TypeOK, NumberInv, [Next]_vars, NEW l \in Known'
    PROVE  /\ l.seq <= sequence'[l.org]
           /\ l.seq = 0 => l = Absent(l.org)
<1>1. CASE l \in Known
  <2>1. l \in Lsa /\ l.seq <= sequence[l.org] /\ (l.seq = 0 => l = Absent(l.org))
    BY <1>1, KnownType DEF NumberInv
  <2>2. l.org \in Origin /\ l.seq \in Nat
    BY <2>1 DEF Lsa
  <2>3. sequence[l.org] <= sequence'[l.org] /\ sequence[l.org] \in Nat
        /\ sequence'[l.org] \in Nat
    BY <2>2, SequenceGrows
  <2>4. QED
    BY <2>1, <2>2, <2>3
<1>2. ASSUME NEW o \in Origin, l = Absent(o)
      PROVE  l.seq <= sequence'[l.org] /\ l = Absent(l.org)
  BY <1>2, AbsentType, SequenceGrows
<1>3. ASSUME NEW n \in Origin, NEW t \in Task, Generate(n, t), l = GeneratedLsa(n, t)
      PROVE  l.seq <= sequence'[l.org] /\ l.seq > 0
  <2>1. sequence' = sequence
    BY <1>3 DEF Generate
  <2>2. QED
    BY <1>3, <2>1, GeneratedNumber
<1>4. l.seq > 0 => l.seq # 0
  OBVIOUS
<1>5. QED
  BY <1>1, <1>2, <1>3, <1>4, KnownNext

LEMMA NumberNext == TypeOK /\ NumberInv /\ [Next]_vars => NumberInv'
<1> SUFFICES ASSUME TypeOK, NumberInv, [Next]_vars PROVE NumberInv'
  OBVIOUS
<1>1. ASSUME NEW n \in Node, NEW t \in Task
      PROVE  /\ job'[n][t].pc \in {"number", "generate"} => n \in Origin
             /\ job'[n][t].pc = "generate" => job'[n][t].lsa.seq \in 1 .. sequence'[n]
             /\ job'[n][t].pc = "send" => job'[n][t].lsa.seq > 0
  <2>1. CASE job'[n][t] = job[n][t]
    <3>1. CASE job[n][t].pc = "generate"
      <4>1. n \in Origin /\ job[n][t].lsa.seq \in 1 .. sequence[n]
        BY <3>1 DEF NumberInv
      <4>2. QED
        BY <2>1, <3>1, <4>1, SequenceGrows
    <3>2. CASE job[n][t].pc # "generate"
      BY <2>1, <3>2 DEF NumberInv
    <3>3. QED
      BY <3>1, <3>2
  <2>2. CASE job'[n][t] = Idle
    BY <2>2, IdleType
  <2>3. CASE n \in Origin /\ job'[n][t].pc = "number"
    BY <2>3
  <2>4. CASE n \in Origin /\ Numbered(n, t)
    <3>1. /\ job'[n][t] = At("generate", <<n, "unicast">>, NumberedLsa(n))
          /\ sequence'[n] = sequence[n] + 1
      BY <2>4, NumberedStep
    <3>2. sequence[n] \in Nat
      BY <2>4 DEF TypeOK
    <3>3. QED
      BY <2>4, <3>1, <3>2 DEF At, NumberedLsa
  <2>5. CASE n \in Origin /\ Generate(n, t)
    <3>1. job'[n][t] = At("send", <<n, "unicast">>, GeneratedLsa(n, t))
      BY <2>5, GenerateStep
    <3>2. job'[n][t].pc = "send" /\ job'[n][t].lsa = GeneratedLsa(n, t)
      BY <3>1 DEF At
    <3>3. QED
      BY <2>5, <3>2, GeneratedNumber
  <2>6. ASSUME NEW d \in net, job'[n][t] = At("send", d.src, d.lsa)
        PROVE  job'[n][t].pc = "send" /\ job'[n][t].lsa.seq > 0
    BY <2>6 DEF At, NumberInv
  <2>7. QED
    BY <2>1, <2>2, <2>3, <2>4, <2>5, <2>6, JobSteps
<1>2. ASSUME NEW d \in net' PROVE d.lsa.seq > 0
  BY NetSteps DEF NumberInv, Ready
<1>3. QED
  BY <1>1, <1>2, KnownNumbered DEF NumberInv

-----------------------------------------------------------------------------
(* One LSA for a number.                                                   *)

\* A task that has a number after a step had it before, or has just taken it.
LEMMA PendingSteps ==
    ASSUME TypeOK, NumberInv, [Next]_vars, NEW n \in Node, NEW t \in Task,
           job'[n][t].pc = "generate"
    PROVE  \/ job'[n][t] = job[n][t]
           \/ n \in Origin /\ Numbered(n, t) /\ db' = db /\ net' = net
<1>1. CASE job'[n][t] = Idle
  BY <1>1, IdleType
<1>2. CASE n \in Origin /\ Generate(n, t)
  <2>1. job'[n][t] = At("send", <<n, "unicast">>, GeneratedLsa(n, t))
    BY <1>2, GenerateStep
  <2>2. QED
    BY <2>1 DEF At
<1>3. ASSUME NEW d \in net, job'[n][t] = At("send", d.src, d.lsa) PROVE FALSE
  BY <1>3 DEF At
<1>4. QED
  BY <1>1, <1>2, <1>3, JobSteps

LEMMA PendingNext ==
    TypeOK /\ NumberInv /\ PendingInv /\ [Next]_vars => PendingInv'
<1> SUFFICES ASSUME TypeOK, NumberInv, PendingInv, [Next]_vars,
                    NEW n \in Node, NEW t \in Task, job'[n][t].pc = "generate"
             PROVE  /\ \A l \in Known' : l.org = n => l.seq # job'[n][t].lsa.seq
                    /\ \A u \in Task : job'[n][u].pc = "generate" /\ u # t
                          => job'[n][u].lsa.seq # job'[n][t].lsa.seq
  BY DEF PendingInv
<1>1. CASE n \in Origin /\ Numbered(n, t)
  <2>1. /\ job'[n][t] = At("generate", <<n, "unicast">>, NumberedLsa(n))
        /\ \A u \in Task : u # t => job'[n][u] = job[n][u]
        /\ sequence'[n] = sequence[n] + 1
    BY <1>1, NumberedStep
  <2>2. job'[n][t].lsa.seq = sequence[n] + 1 /\ sequence[n] \in Nat
    BY <1>1, <2>1 DEF At, NumberedLsa, TypeOK
  <2>3. ASSUME NEW l \in Known', l.org = n PROVE l.seq # job'[n][t].lsa.seq
    <3>1. CASE l \in Known
      <4>1. l.seq <= sequence[n] /\ l.seq \in Nat
        BY <2>3, <3>1, KnownType DEF NumberInv, Lsa
      <4>2. QED
        BY <2>2, <4>1
    <3>2. ASSUME NEW o \in Origin, l = Absent(o) PROVE l.seq = 0
      BY <3>2, AbsentType
    <3>3. ASSUME NEW o \in Origin, NEW u \in Task, Generate(o, u) PROVE FALSE
      BY <2>1, <2>2, <3>3 DEF Generate
    <3>4. QED
      BY <2>2, <3>1, <3>2, <3>3, KnownNext
  <2>4. ASSUME NEW u \in Task, job'[n][u].pc = "generate", u # t
        PROVE  job'[n][u].lsa.seq # job'[n][t].lsa.seq
    <3>1. job'[n][u] = job[n][u]
      BY <2>1, <2>4
    <3>2. job[n][u].lsa.seq \in 1 .. sequence[n]
      BY <2>4, <3>1 DEF NumberInv
    <3>3. QED
      BY <2>2, <3>1, <3>2
  <2>5. QED
    BY <2>3, <2>4
<1>2. CASE job'[n][t] = job[n][t]
  <2>1. /\ n \in Origin /\ job[n][t].pc = "generate"
        /\ job[n][t].lsa.seq \in 1 .. sequence[n] /\ sequence[n] \in Nat
    BY <1>2 DEF NumberInv, TypeOK
  <2>2. ASSUME NEW l \in Known', l.org = n PROVE l.seq # job'[n][t].lsa.seq
    <3>1. CASE l \in Known
      BY <1>2, <2>1, <2>2, <3>1 DEF PendingInv
    <3>2. ASSUME NEW o \in Origin, l = Absent(o) PROVE l.seq = 0
      BY <3>2, AbsentType
    <3>3. ASSUME NEW o \in Origin, NEW u \in Task, Generate(o, u),
                 l = GeneratedLsa(o, u)
          PROVE  l.seq # job'[n][t].lsa.seq
      <4>1. o = n /\ l.seq = job[n][u].lsa.seq /\ job[n][u].pc = "generate"
        BY <2>2, <3>3, GeneratedNumber
      <4>2. u # t
        <5>1. job'[o][u] = At("send", <<o, "unicast">>, GeneratedLsa(o, u))
          BY <3>3, GenerateStep
        <5>2. QED
          BY <4>1, <5>1 DEF At
      <4>3. QED
        BY <1>2, <2>1, <4>1, <4>2 DEF PendingInv
    <3>4. QED
      BY <1>2, <2>1, <3>1, <3>2, <3>3, KnownNext
  <2>3. ASSUME NEW u \in Task, job'[n][u].pc = "generate", u # t
        PROVE  job'[n][u].lsa.seq # job'[n][t].lsa.seq
    <3>1. CASE job'[n][u] = job[n][u]
      BY <1>2, <2>1, <2>3, <3>1 DEF PendingInv
    <3>2. CASE Numbered(n, u)
      <4>1. job'[n][u] = At("generate", <<n, "unicast">>, NumberedLsa(n))
        BY <2>1, <3>2, NumberedStep
      <4>2. job'[n][u].lsa.seq = sequence[n] + 1
        BY <4>1 DEF At, NumberedLsa
      <4>3. QED
        BY <1>2, <2>1, <4>2
    <3>3. QED
      BY <2>3, <3>1, <3>2, PendingSteps
  <2>4. QED
    BY <2>2, <2>3
<1>3. QED
  BY <1>1, <1>2, PendingSteps

LEMMA UniqueNext ==
    TypeOK /\ NumberInv /\ PendingInv /\ UniqueLsa /\ [Next]_vars => UniqueLsa'
<1> SUFFICES ASSUME TypeOK, NumberInv, PendingInv, UniqueLsa, [Next]_vars,
                    NEW k \in Known', NEW l \in Known',
                    k.org = l.org, k.seq = l.seq
             PROVE  k = l
  BY DEF UniqueLsa
<1>1. CASE k.seq = 0
  BY <1>1, KnownNumbered
<1>2. CASE k.seq # 0
  <2>1. \A o \in Origin : k # Absent(o) /\ l # Absent(o)
    BY <1>2, AbsentType
  <2>2. CASE k \in Known /\ l \in Known
    BY <2>2 DEF UniqueLsa
  <2>3. ASSUME NEW n \in Origin, NEW t \in Task, Generate(n, t),
               NEW g \in Known, g.org = n
        PROVE  g.seq # GeneratedLsa(n, t).seq
    BY <2>3, GeneratedNumber DEF PendingInv
  <2>4. ASSUME NEW n \in Origin, NEW t \in Task, Generate(n, t),
               NEW o \in Origin, NEW u \in Task, Generate(o, u)
        PROVE  n = o /\ t = u
    <3>1. /\ job'[n][t] = At("send", <<n, "unicast">>, GeneratedLsa(n, t))
          /\ \A m \in Node, v \in Task : m # n \/ v # t => job'[m][v] = job[m][v]
      BY <2>4, GenerateStep
    <3>2. /\ job'[o][u] = At("send", <<o, "unicast">>, GeneratedLsa(o, u))
          /\ job[o][u].pc = "generate"
      BY <2>4, GenerateStep, GeneratedNumber
    <3>3. job'[o][u].pc = "send"
      BY <3>2 DEF At
    <3>4. QED
      BY <3>1, <3>2, <3>3
  <2>5. \A n \in Origin, t \in Task : Generate(n, t) => GeneratedLsa(n, t).org = n
    BY GeneratedNumber
  <2>6. k \in Known \/ \E n \in Origin, t \in Task : Generate(n, t) /\ k = GeneratedLsa(n, t)
    BY <2>1, KnownNext
  <2>7. l \in Known \/ \E n \in Origin, t \in Task : Generate(n, t) /\ l = GeneratedLsa(n, t)
    BY <2>1, KnownNext
  <2>8. QED
    BY <2>2, <2>3, <2>4, <2>5, <2>6, <2>7
<1>3. QED
  BY <1>1, <1>2

-----------------------------------------------------------------------------
(* The LSA with the last number.                                           *)

\* Whoever changes its neighbours calls for a broadcast.
LEMMA LinkSteps ==
    ASSUME TypeOK, [Next]_vars, NEW o \in Origin
    PROVE  \/ Established(o)' = Established(o)
           \/ \E t \in Task : job'[o][t].pc = "number"
<1>1. ASSUME NEW n \in Node, NEW t \in Task, Changed(n, t),
             \A m \in Node : m # n => link'[m] = link[m]
      PROVE  Established(o)' = Established(o) \/ job'[o][t].pc = "number"
  <2>1. CASE n = o
    <3>1. job'[o][t] = At("number", <<o, "unicast">>, Absent(o))
      BY <1>1, <2>1, ChangedStep
    <3>2. QED
      BY <3>1 DEF At
  <2>2. CASE n # o
    BY <1>1, <2>2 DEF Established
  <2>3. QED
    BY <2>1, <2>2
<1>2. ASSUME NEW n \in Node, NEW p \in Node, Establish(n, p)
      PROVE  "receive" \in Task /\ Changed(n, "receive")
             /\ \A m \in Node : m # n => link'[m] = link[m]
  BY <1>2 DEF Establish, TypeOK, Task
<1>3. ASSUME NEW n \in Node, Remove(n)
      PROVE  "monitor" \in Task /\ Changed(n, "monitor")
             /\ \A m \in Node : m # n => link'[m] = link[m]
  BY <1>3 DEF Remove, TypeOK, Task
<1>4. ASSUME NEW n \in Node, NEW p \in Node, Greet(n, p)
      PROVE  Established(o)' = Established(o)
  BY <1>4 DEF Greet, Established, TypeOK
<1>5. CASE link' = link
  BY <1>5 DEF Established
<1>6. CASE \/ \E n \in Node : ReceiveLsa(n) \/ CleanupStaleLsas(n)
           \/ \E n \in Node, t \in Task : JobStep(n, t)
           \/ \E n \in Origin : Refresh(n) \/ Stop(n)
           \/ Tick \/ Lose \/ UNCHANGED vars
  BY <1>5, <1>6 DEF JobStep, ReceiveLsa, CleanupStaleLsas, TakeNumber, Generate, Send,
     Refresh, Stop, Tick, Lose, vars
<1>7. CASE \E n, p \in Node : Establish(n, p)
  BY <1>1, <1>2, <1>7
<1>8. CASE \E n \in Node : Remove(n)
  BY <1>1, <1>3, <1>8
<1>9. CASE \E n, p \in Node : Greet(n, p)
  BY <1>4, <1>9
<1>10. QED
  BY <1>6, <1>7, <1>8, <1>9 DEF Next

\* A broadcast that was called for stays so until it takes its number.
LEMMA CalledStays ==
    ASSUME TypeOK, NumberInv, [Next]_vars, NEW o \in up' \cap Origin, NEW t \in Task,
           job[o][t].pc = "number", sequence'[o] = sequence[o]
    PROVE  job'[o][t].pc = "number"
<1>0. o \in Node
  OBVIOUS
<1>1. ASSUME NEW n \in Node, NEW u \in Task, Changed(n, u) PROVE job'[o][t].pc = "number"
  <2>1. CASE n = o /\ u = t
    <3>1. job'[o][t] = At("number", <<o, "unicast">>, Absent(o))
      BY <1>1, <2>1, ChangedStep
    <3>2. QED
      BY <3>1 DEF At
  <2>2. CASE ~(n = o /\ u = t)
    <3>1. job'[o][t] = job[o][t]
      BY <1>1, <2>2, ChangedStep
    <3>2. QED
      BY <3>1
  <2>3. QED
    BY <2>1, <2>2
<1>2. ASSUME NEW m \in Node, ReceiveLsa(m) PROVE job'[o][t].pc = "number"
  <2>1. PICK d \in net : HandleLsa(m, d.src, d.lsa)
    BY <1>2 DEF ReceiveLsa
  <2>2. ~(o = m /\ t = "receive")
    BY <1>2 DEF ReceiveLsa, Idle
  <2>3. job'[o][t] = job[o][t]
    BY <2>1, <2>2, HandleStep
  <2>4. QED
    BY <2>3
<1>3. ASSUME NEW n \in Origin, NEW u \in Task, Numbered(n, u)
      PROVE  job'[o][t].pc = "number"
  <2>1. /\ sequence'[n] = sequence[n] + 1
        /\ \A m \in Node, v \in Task : m # n \/ v # u => job'[m][v] = job[m][v]
    BY <1>3, NumberedStep
  <2>2. sequence[n] \in Nat
    BY DEF TypeOK
  <2>3. o # n
    BY <2>1, <2>2
  <2>4. QED
    BY <2>1, <2>3
<1>4. ASSUME NEW n \in Node, NEW u \in Task, Generate(n, u)
      PROVE  job'[o][t].pc = "number"
  <2>1. n \in Origin /\ job[n][u].pc = "generate"
    BY <1>4 DEF Generate, NumberInv
  <2>2. job'[o][t] = job[o][t]
    BY <1>4, <2>1, GenerateStep
  <2>3. QED
    BY <2>2
<1>5. ASSUME NEW n \in Node, NEW u \in Task, Send(n, u) PROVE job'[o][t].pc = "number"
  <2>1. job[n][u].pc = "send"
    BY <1>5 DEF Send
  <2>2. job'[o][t] = job[o][t]
    BY <1>5, <2>1, SendStep
  <2>3. QED
    BY <2>2
<1>6. ASSUME NEW n \in Origin, Stop(n) PROVE job'[o][t].pc = "number"
  <2>1. o # n
    BY <1>6 DEF Stop
  <2>2. job'[o] = job[o]
    BY <1>6, <2>1 DEF Stop, TypeOK
  <2>3. QED
    BY <2>2
<1>7. CASE job' = job
  BY <1>7
<1>8. ASSUME NEW n \in Node, NEW u \in Task, JobStep(n, u) PROVE job'[o][t].pc = "number"
  <2>1. CASE TakeNumber(n, u)
    <3>1. n \in Origin /\ Numbered(n, u)
      BY <2>1 DEF TakeNumber, NumberInv
    <3>2. QED
      BY <1>3, <3>1
  <2>2. QED
    BY <1>4, <1>5, <1>8, <2>1 DEF JobStep
<1>9. CASE \E n, p \in Node : Establish(n, p) \/ Greet(n, p)
  BY <1>1, <1>7, <1>9 DEF Establish, Greet, Task
<1>10. CASE \E n \in Node : Remove(n) \/ ReceiveLsa(n) \/ CleanupStaleLsas(n)
  BY <1>1, <1>2, <1>7, <1>10 DEF Remove, CleanupStaleLsas, Task
<1>11. CASE \E n \in Origin : Refresh(n) \/ Stop(n)
  BY <1>3, <1>6, <1>11 DEF Refresh, Task
<1>12. CASE Tick \/ Lose \/ UNCHANGED vars
  BY <1>7, <1>12 DEF Tick, Lose, vars
<1>13. QED
  BY <1>8, <1>9, <1>10, <1>11, <1>12 DEF Next

LEMMA UpShrinks == ASSUME [Next]_vars PROVE up' \subseteq up
  BY DEF Next, JobStep, Establish, Greet, Remove, ReceiveLsa, CleanupStaleLsas,
     TakeNumber, Generate, Send, Refresh, Stop, Tick, Lose, vars

LEMMA OrderNext == TypeOK /\ NumberInv /\ OrderInv /\ [Next]_vars => OrderInv'
<1> SUFFICES ASSUME TypeOK, NumberInv, OrderInv, [Next]_vars,
                    NEW o \in up' \cap Origin, NEW l \in Known',
                    l.org = o, l.seq = sequence'[o], l.seq > 0,
                    \A t \in Task : job'[o][t].pc # "number"
             PROVE  l.neighbors = Established(o)'
  BY DEF OrderInv
<1>1. Established(o)' = Established(o)
  BY LinkSteps
<1>2. ASSUME NEW n \in Origin, NEW t \in Task, Generate(n, t), l = GeneratedLsa(n, t)
      PROVE  l.neighbors = Established(o)
  BY <1>2, GeneratedNumber DEF GeneratedLsa
<1>3. CASE l \in Known
  <2>1. l.seq <= sequence[o] /\ l.seq \in Nat /\ sequence[o] \in Nat
    BY <1>3, KnownType DEF NumberInv, Lsa, TypeOK
  <2>2. sequence[o] <= sequence'[o]
    BY SequenceGrows
  <2>3. l.seq = sequence[o] /\ sequence'[o] = sequence[o]
    BY <2>1, <2>2
  <2>4. \A t \in Task : job[o][t].pc # "number"
    BY <2>3, CalledStays
  <2>5. o \in up \cap Origin
    BY UpShrinks
  <2>6. QED
    BY <1>1, <1>3, <2>3, <2>4, <2>5 DEF OrderInv
<1>4. \A p \in Origin : l # Absent(p)
  <2>1. l.seq # 0
    OBVIOUS
  <2>2. QED
    BY <2>1, AbsentType
<1>5. QED
  BY <1>1, <1>2, <1>3, <1>4, KnownNext

-----------------------------------------------------------------------------
(* Theorems.                                                               *)

LEMMA InvInit == Init => IInv
<1> SUFFICES ASSUME Init PROVE IInv
  OBVIOUS
<1>1. TypeOK
  BY TypeInit
<1>2. \A n \in Node, t \in Task : job[n][t].pc = "idle"
  BY DEF Init, Idle
<1>3. \A l \in Known : \E o \in Origin : l = Absent(o)
  BY <1>2, KnownIs DEF Init, Ready
<1>4. \A l \in Known : l.org \in Origin /\ l.seq = 0 /\ l = Absent(l.org)
  BY <1>3, AbsentType
<1>5. \A o \in Origin : sequence[o] = 0
  BY DEF Init
<1>6. NumberInv
  BY <1>2, <1>4, <1>5 DEF NumberInv, Init
<1>7. PendingInv
  BY <1>2 DEF PendingInv
<1>8. UniqueLsa
  BY <1>4 DEF UniqueLsa
<1>9. OrderInv
  BY <1>4 DEF OrderInv
<1>10. QED
  BY <1>1, <1>6, <1>7, <1>8, <1>9 DEF IInv

LEMMA InvNext == IInv /\ [Next]_vars => IInv'
  BY TypeNext, NumberNext, PendingNext, UniqueNext, OrderNext DEF IInv

LEMMA InvAlways == Spec => []IInv
  BY InvInit, InvNext, PTL DEF Spec

\* The state of the nodes has its type, and every entry of link_state_db is
\* stored under its originator.
THEOREM LinkStateTypeCorrect == Spec => []TypeOK
<1>1. IInv => TypeOK
  BY DEF IInv
<1>2. QED
  BY <1>1, InvAlways, PTL

\* In no mesh do two LSAs of a node have the same number, however the tasks that
\* broadcast interleave and whatever the network does.
THEOREM NumbersAreUnique == Spec => []UniqueLsa
<1>1. IInv => UniqueLsa
  BY DEF IInv
<1>2. QED
  BY <1>1, InvAlways, PTL

\* When its broadcasts are done, the LSA of a node with the highest number lists
\* its neighbours as they are.
THEOREM LastNumberIsCurrent == Spec => []SequenceOrdersLists
<1>1. IInv => SequenceOrdersLists
  <2>1. Idle.pc # "number"
    BY IdleType
  <2>2. QED
    BY <2>1 DEF IInv, OrderInv, SequenceOrdersLists
<1>2. QED
  BY <1>1, InvAlways, PTL

-----------------------------------------------------------------------------
(* One refresh repairs every view.                                         *)

\* A datagram is received, and no copy of it follows.
Takes(m, d) ==
    /\ m \in up /\ d.to = m /\ job[m]["receive"] = Idle
    /\ HandleLsa(m, d.src, d.lsa)
    /\ net' = net \ {d}
    /\ UNCHANGED <<up, link, sequence, timers>>

\* From Calm on a step is one of five, until the period ends.
LEMMA CalmCases ==
    ASSUME TypeOK, CalmInv, NumberInv, [Next]_vars, clock' >= Calm
    PROVE  \/ Tick
           \/ /\ clock >= Calm
              /\ \/ \E n \in Origin : Refresh(n)
                 \/ \E n \in Origin : Generate(n, "refresh")
                 \/ \E n \in Node, t \in Task : Send(n, t)
                 \/ \E m \in Node, d \in net : Takes(m, d)
                 \/ \E m \in Node : CleanupStaleLsas(m)
                 \/ UNCHANGED vars
<1>1. CASE Tick
  BY <1>1
<1>2. CASE ~Tick
  <2>0. clock \in Nat /\ Calm \in Nat
    BY DEF TypeOK
  <2>1. clock' = clock
    BY <1>2 DEF Next, JobStep, Establish, Greet, Remove, ReceiveLsa, CleanupStaleLsas,
       TakeNumber, Generate, Send, Refresh, Stop, Lose, vars
  <2>2. clock >= Calm /\ ~(clock < Calm)
    BY <2>0, <2>1
  <2>3. ~Event
    BY <2>2 DEF Event
  <2>4. ASSUME NEW n \in Node, NEW t \in Task
        PROVE  ~TakeNumber(n, t) /\ (Generate(n, t) => t = "refresh" /\ n \in Origin)
    <3>1. job[n]["monitor"].pc = "idle"
      BY <2>2, IdleType DEF CalmInv
    <3>2. job[n]["receive"].pc \in {"idle", "send"} /\ job[n]["refresh"].pc # "number"
      BY <2>2 DEF CalmInv
    <3>3. t \in {"receive", "monitor", "refresh"}
      BY DEF Task
    <3>4. Generate(n, t) => n \in Origin
      BY DEF Generate, NumberInv
    <3>5. QED
      BY <3>1, <3>2, <3>3, <3>4 DEF TakeNumber, Generate
  <2>5. ASSUME NEW m \in Node, ReceiveLsa(m) PROVE \E d \in net : Takes(m, d)
    BY <2>3, <2>5 DEF ReceiveLsa, Takes
  <2>6. /\ \A n, p \in Node : ~Establish(n, p) /\ ~Greet(n, p)
        /\ \A n \in Node : ~Remove(n) /\ ~Stop(n)
        /\ ~Lose
    BY <2>2, <2>3 DEF Establish, Greet, Remove, Changed, Stop, Lose
  <2>7. QED
    BY <1>2, <2>2, <2>4, <2>5, <2>6 DEF Next, JobStep
<1>3. QED
  BY <1>1, <1>2

\* The datagrams of a Send.
LEMMA SendNet ==
    ASSUME TypeOK, UnicastInv, NEW n \in Node, NEW t \in Task, Send(n, t)
    PROVE  /\ net \subseteq net'
           /\ \A d \in net' : d \in net \/ d.src = <<n, "unicast">>
           /\ \A p \in Addressed(n) \cap up :
                 \E d \in net' : d.to = p /\ d.lsa = job[n][t].lsa
           /\ job[n][t].lsa.org = n => db' = [db EXCEPT ![n][n] = job[n][t].lsa]
           /\ job[n][t].lsa.org # n => db' = db
<1> DEFINE l == job[n][t].lsa
           T == {p \in Addressed(n) \cap up : PeerAddr(p) # job[n][t].src}
<1>1. /\ net' = net \cup [src : {<<n, "unicast">>}, lsa : {l}, to : T]
      /\ db' = IF l.org = n THEN [db EXCEPT ![n][n] = l] ELSE db
      /\ job[n][t].pc # "idle"
  BY DEF Send
<1>2. \A p \in Addressed(n) \cap up : p \in T
  <2>1. job[n][t].src[2] = "unicast"
    BY <1>1 DEF UnicastInv
  <2>2. \A p : PeerAddr(p)[2] = "multicast"
    BY DEF PeerAddr
  <2>3. QED
    BY <2>1, <2>2
<1> HIDE DEF l, T
<1>3. \A p \in T : [src |-> <<n, "unicast">>, lsa |-> l, to |-> p] \in net'
  BY <1>1
<1>4. \A d \in net' : d \in net \/ d.src = <<n, "unicast">>
  BY <1>1
<1>5. net \subseteq net'
  BY <1>1
<1>6. \A p \in Addressed(n) \cap up : \E d \in net' : d.to = p /\ d.lsa = l
  <2> SUFFICES ASSUME NEW p \in Addressed(n) \cap up
               PROVE  \E d \in net' : d.to = p /\ d.lsa = l
    OBVIOUS
  <2> DEFINE d == [src |-> <<n, "unicast">>, lsa |-> l, to |-> p]
  <2>1. d \in net' /\ d.to = p /\ d.lsa = l
    BY <1>2, <1>3
  <2>2. QED
    BY <2>1
<1>7. QED
  BY <1>1, <1>4, <1>5, <1>6 DEF l

LEMMA UnicastNext == TypeOK /\ NumberInv /\ UnicastInv /\ [Next]_vars => UnicastInv'
<1> SUFFICES ASSUME TypeOK, NumberInv, UnicastInv, [Next]_vars PROVE UnicastInv'
  OBVIOUS
<1>1. ASSUME NEW d \in net' PROVE d.src[2] = "unicast"
  <2>1. ASSUME NEW n \in Node, NEW t \in Task, Send(n, t) PROVE d.src[2] = "unicast"
    BY <2>1, SendNet DEF UnicastInv
  <2>2. CASE net' \subseteq net
    BY <2>2 DEF UnicastInv
  <2>3. CASE ~\E n \in Node, t \in Task : Send(n, t)
    BY <2>2, <2>3 DEF Next, JobStep, Establish, Greet, Remove, ReceiveLsa,
       CleanupStaleLsas, TakeNumber, Generate, Refresh, Stop, Tick, Lose, vars
  <2>4. QED
    BY <2>1, <2>3
<1>2. ASSUME NEW n \in Node, NEW t \in Task, job'[n][t].pc # "idle"
      PROVE  job'[n][t].src[2] = "unicast"
  <2>1. CASE job'[n][t] = job[n][t]
    BY <1>2, <2>1 DEF UnicastInv
  <2>2. CASE job'[n][t] = Idle
    BY <1>2, <2>2, IdleType
  <2>3. CASE job'[n][t].src = <<n, "unicast">>
    BY <2>3
  <2>4. CASE n \in Origin /\ Numbered(n, t)
    <3>1. job'[n][t] = At("generate", <<n, "unicast">>, NumberedLsa(n))
      BY <2>4, NumberedStep
    <3>2. QED
      BY <3>1 DEF At
  <2>5. CASE n \in Origin /\ Generate(n, t)
    <3>1. job'[n][t] = At("send", <<n, "unicast">>, GeneratedLsa(n, t))
      BY <2>5, GenerateStep
    <3>2. QED
      BY <3>1 DEF At
  <2>6. ASSUME NEW d \in net, job'[n][t] = At("send", d.src, d.lsa)
        PROVE  job'[n][t].src[2] = "unicast"
    BY <2>6 DEF At, UnicastInv
  <2>7. QED
    BY <2>1, <2>2, <2>3, <2>4, <2>5, <2>6, JobSteps
<1>3. QED
  BY <1>1, <1>2 DEF UnicastInv

LEMMA CalmNext == TypeOK /\ NumberInv /\ CalmInv /\ [Next]_vars => CalmInv'
<1> SUFFICES ASSUME TypeOK, NumberInv, CalmInv, [Next]_vars, clock' >= Calm,
                    NEW n \in Node
             PROVE  /\ job'[n]["monitor"] = Idle
                    /\ job'[n]["receive"].pc \in {"idle", "send"}
                    /\ job'[n]["receive"].pc = "send" => job'[n]["receive"].lsa.org # n
                    /\ job'[n]["refresh"].pc # "number"
                    /\ job'[n]["refresh"].pc # "idle" =>
                          n \in refreshed' /\ IsLast(n, job[n]["refresh"].lsa)'
  BY DEF CalmInv, IsLast
<1> DEFINE Goal ==
        /\ job'[n]["monitor"] = Idle
        /\ job'[n]["receive"].pc \in {"idle", "send"}
        /\ job'[n]["receive"].pc = "send" => job'[n]["receive"].lsa.org # n
        /\ job'[n]["refresh"].pc # "number"
        /\ job'[n]["refresh"].pc # "idle" =>
              n \in refreshed' /\ IsLast(n, job[n]["refresh"].lsa)'
<1>0. /\ "receive" \in Task /\ "monitor" \in Task /\ "refresh" \in Task
      /\ Idle.pc = "idle"
  BY IdleType DEF Task
<1>1. CASE Tick
  <2>1. \A t \in Task : job'[n][t] = Idle
    BY <1>1 DEF Tick
  <2>2. QED
    BY <1>0, <2>1
<1>2. ASSUME clock >= Calm, job'[n] = job[n], refreshed' = refreshed, sequence' = sequence
      PROVE  Goal
  BY <1>2 DEF CalmInv, IsLast
<1>3. ASSUME clock >= Calm, NEW x \in Origin, Refresh(x) PROVE Goal
  <2>1. /\ Numbered(x, "refresh") /\ refreshed' = refreshed \cup {x}
    BY <1>3 DEF Refresh
  <2>2. /\ job'[x]["refresh"] = At("generate", <<x, "unicast">>, NumberedLsa(x))
        /\ sequence'[x] = sequence[x] + 1
        /\ \A o \in Origin : o # x => sequence'[o] = sequence[o]
        /\ \A m \in Node, u \in Task : m # x \/ u # "refresh" => job'[m][u] = job[m][u]
    BY <1>0, <2>1, NumberedStep
  <2>3. CASE n = x
    <3>1. job'[n]["refresh"].pc = "generate" /\ job'[n]["refresh"].lsa = NumberedLsa(n)
      BY <2>2, <2>3 DEF At
    <3>2. IsLast(n, job[n]["refresh"].lsa)'
      BY <2>2, <2>3, <3>1 DEF IsLast, NumberedLsa
    <3>3. QED
      BY <1>0, <1>3, <2>1, <2>2, <2>3, <3>1, <3>2 DEF CalmInv
  <2>4. CASE n # x
    <3>1. \A u \in Task : job'[n][u] = job[n][u]
      BY <2>2, <2>4
    <3>2. job[n]["refresh"].pc # "idle" => n \in Origin
      BY <1>3 DEF CalmInv, TypeOK
    <3>3. n \in Origin => sequence'[n] = sequence[n]
      BY <2>2, <2>4
    <3>4. QED
      BY <1>0, <1>3, <2>1, <3>1, <3>2, <3>3 DEF CalmInv, IsLast
  <2>5. QED
    BY <2>3, <2>4
<1>4. ASSUME clock >= Calm, NEW x \in Origin, Generate(x, "refresh") PROVE Goal
  <2>1. refreshed' = refreshed /\ sequence' = sequence
    BY <1>4 DEF Generate
  <2>2. /\ job'[x]["refresh"] = At("send", <<x, "unicast">>, GeneratedLsa(x, "refresh"))
        /\ \A m \in Node, u \in Task : m # x \/ u # "refresh" => job'[m][u] = job[m][u]
    BY <1>0, <1>4, GenerateStep
  <2>3. CASE n = x
    <3>1. /\ job'[n]["refresh"].pc = "send"
          /\ job'[n]["refresh"].lsa = GeneratedLsa(n, "refresh")
      BY <2>2, <2>3 DEF At
    <3>2. job[n]["refresh"].pc = "generate"
      BY <1>4, <2>3 DEF Generate
    <3>3. n \in refreshed /\ job[n]["refresh"].lsa.seq = sequence[n]
      BY <1>4, <3>2 DEF CalmInv, IsLast
    <3>4. IsLast(n, job[n]["refresh"].lsa)'
      BY <2>1, <3>1, <3>3 DEF IsLast, GeneratedLsa
    <3>5. QED
      BY <1>0, <1>4, <2>1, <2>2, <2>3, <3>1, <3>3, <3>4 DEF CalmInv
  <2>4. CASE n # x
    <3>1. \A u \in Task : job'[n][u] = job[n][u]
      BY <2>2, <2>4
    <3>2. QED
      BY <1>0, <1>4, <2>1, <3>1 DEF CalmInv, IsLast
  <2>5. QED
    BY <2>3, <2>4
<1>5. ASSUME clock >= Calm, NEW x \in Node, NEW t \in Task, Send(x, t) PROVE Goal
  <2>1. refreshed' = refreshed /\ sequence' = sequence
    BY <1>5 DEF Send
  <2>2. \A u \in Task : job'[n][u] = job[n][u] \/ job'[n][u] = Idle
    BY <1>5, SendStep
  <2>3. QED
    BY <1>0, <1>5, <2>1, <2>2 DEF CalmInv, IsLast
<1>6. ASSUME clock >= Calm, NEW m \in Node, NEW d \in net, Takes(m, d) PROVE Goal
  <2>1. refreshed' = refreshed /\ sequence' = sequence /\ HandleLsa(m, d.src, d.lsa)
    BY <1>6 DEF Takes
  <2>2. CASE UNCHANGED <<db, job>>
    BY <1>2, <1>6, <2>1, <2>2
  <2>3. CASE ~UNCHANGED <<db, job>>
    <3>1. /\ d.lsa.org # m
          /\ job'[m]["receive"] = At("send", d.src, d.lsa)
          /\ \A x \in Node, u \in Task :
                x # m \/ u # "receive" => job'[x][u] = job[x][u]
      BY <2>1, <2>3, HandleStep
    <3>2. /\ job'[n]["monitor"] = job[n]["monitor"]
          /\ job'[n]["refresh"] = job[n]["refresh"]
      BY <1>0, <3>1
    <3>3. CASE n = m
      <4>1. job'[n]["receive"].pc = "send" /\ job'[n]["receive"].lsa = d.lsa
        BY <3>1, <3>3 DEF At
      <4>2. QED
        BY <1>6, <2>1, <3>1, <3>2, <3>3, <4>1 DEF CalmInv, IsLast
    <3>4. CASE n # m
      <4>1. job'[n]["receive"] = job[n]["receive"]
        BY <1>0, <3>1, <3>4
      <4>2. QED
        BY <1>6, <2>1, <3>2, <4>1 DEF CalmInv, IsLast
    <3>5. QED
      BY <3>3, <3>4
  <2>4. QED
    BY <2>2, <2>3
<1>7. ASSUME clock >= Calm, NEW m \in Node, CleanupStaleLsas(m) PROVE Goal
  BY <1>2, <1>7 DEF CleanupStaleLsas
<1>8. ASSUME clock >= Calm, UNCHANGED vars PROVE Goal
  BY <1>2, <1>8 DEF vars
<1>9. QED
  BY <1>1, <1>3, <1>4, <1>5, <1>6, <1>7, <1>8, CalmCases

\* A node that has refreshed its LSA did so earlier in the period, or just now.
LEMMA RefreshedSteps ==
    ASSUME TypeOK, NumberInv, CalmInv, [Next]_vars, clock' >= Calm, NEW o \in refreshed'
    PROVE  /\ clock >= Calm /\ o \in Origin
           /\ UNCHANGED <<clock, up, link>>
           /\ \/ Refresh(o)
              \/ o \in refreshed /\ sequence'[o] = sequence[o]
<1>1. ~Tick
  BY DEF Tick
<1>2. ASSUME NEW x \in Origin, Refresh(x)
      PROVE  /\ UNCHANGED <<clock, up, link>>
             /\ Refresh(o) \/ (o \in refreshed /\ sequence'[o] = sequence[o])
  <2>1. refreshed' = refreshed \cup {x} /\ Numbered(x, "refresh")
        /\ UNCHANGED <<clock, up, link>>
    BY <1>2 DEF Refresh
  <2>2. \A y \in Origin : y # x => sequence'[y] = sequence[y]
    BY <2>1, NumberedStep DEF Task
  <2>3. refreshed \subseteq Origin
    BY DEF TypeOK
  <2>4. QED
    BY <1>2, <2>1, <2>2, <2>3
<1>3. ASSUME \/ \E n \in Origin : Generate(n, "refresh")
             \/ \E n \in Node, t \in Task : Send(n, t)
             \/ \E m \in Node, d \in net : Takes(m, d)
             \/ \E m \in Node : CleanupStaleLsas(m)
             \/ UNCHANGED vars
      PROVE  UNCHANGED <<clock, up, link, refreshed, sequence>>
  BY <1>3 DEF Generate, Send, Takes, CleanupStaleLsas, vars
<1>4. refreshed' \subseteq Origin
  BY TypeNext DEF TypeOK
<1>5. QED
  BY <1>1, <1>2, <1>3, <1>4, CalmCases

LEMMA RefreshNext ==
    TypeOK /\ NumberInv /\ UnicastInv /\ CalmInv /\ RefreshInv /\ [Next]_vars
        => RefreshInv'
<1> SUFFICES ASSUME TypeOK, NumberInv, UnicastInv, CalmInv, RefreshInv, [Next]_vars,
                    clock' >= Calm, NEW o \in refreshed'
             PROVE  /\ sequence'[o] > 0
                    /\ \A l \in Known' : IsLast(o, l)' => l.ts = Now(o)'
                    /\ job'[o]["refresh"] = Idle => db'[o][o].seq = sequence'[o]
  BY DEF RefreshInv, IsLast
<1>1. /\ clock >= Calm /\ o \in Origin /\ o \in Node
      /\ UNCHANGED <<clock, up, link>>
      /\ Refresh(o) \/ (o \in refreshed /\ sequence'[o] = sequence[o])
  BY RefreshedSteps
<1>2. sequence[o] \in Nat /\ Now(o)' = Now(o) /\ "refresh" \in Task
  BY <1>1 DEF TypeOK, Now, Task
<1>3. ASSUME Refresh(o)
      PROVE  /\ sequence'[o] = sequence[o] + 1
             /\ job'[o]["refresh"] = At("generate", <<o, "unicast">>, NumberedLsa(o))
             /\ NumberedLsa(o) \in Lsa
  BY <1>1, <1>2, <1>3, NumberedStep DEF Refresh
<1>4. sequence'[o] > 0
  BY <1>1, <1>2, <1>3 DEF RefreshInv
<1>5. ASSUME NEW l \in Known', l.org = o, l.seq = sequence'[o] PROVE l.ts = Now(o)
  <2>1. CASE l \in Known
    <3>1. l.seq <= sequence[o]
      BY <1>5, <2>1 DEF NumberInv
    <3>2. ~Refresh(o)
      BY <1>2, <1>3, <1>5, <3>1
    <3>3. QED
      BY <1>1, <1>5, <2>1, <3>2 DEF RefreshInv, IsLast
  <2>2. ASSUME NEW n \in Origin, NEW t \in Task, Generate(n, t), l = GeneratedLsa(n, t)
        PROVE  l.ts = Now(o)
    BY <1>5, <2>2 DEF GeneratedLsa
  <2>3. \A x \in Origin : l # Absent(x)
    <3>1. l.seq # 0
      BY <1>2, <1>4, <1>5
    <3>2. QED
      BY <3>1, AbsentType
  <2>4. QED
    BY <2>1, <2>2, <2>3, KnownNext
<1>6. ASSUME job'[o]["refresh"] = Idle PROVE db'[o][o].seq = sequence'[o]
  <2>1. ~Refresh(o)
    BY <1>1, <1>3, <1>6 DEF At, Idle
  <2>2. o \in refreshed /\ sequence'[o] = sequence[o]
    BY <1>1, <2>1
  <2>3. ASSUME job'[o]["refresh"] = job[o]["refresh"]
        PROVE  /\ db[o][o].seq = sequence[o]
               /\ db'[o][o] = db[o][o] => db'[o][o].seq = sequence'[o]
    BY <1>1, <1>6, <2>2, <2>3 DEF RefreshInv
  <2>4. ASSUME NEW x \in Origin, Refresh(x) PROVE db'[o][o].seq = sequence'[o]
    <3>1. Numbered(x, "refresh") /\ db' = db
      BY <2>4 DEF Refresh
    <3>2. job'[o]["refresh"] = job[o]["refresh"]
      BY <1>1, <1>2, <2>1, <2>4, <3>1, NumberedStep
    <3>3. QED
      BY <2>3, <3>1, <3>2
  <2>5. ASSUME NEW x \in Origin, Generate(x, "refresh")
        PROVE  db'[o][o].seq = sequence'[o]
    <3>1. /\ job'[x]["refresh"] = At("send", <<x, "unicast">>, GeneratedLsa(x, "refresh"))
          /\ x # o => job'[o]["refresh"] = job[o]["refresh"]
      BY <1>1, <1>2, <2>5, GenerateStep
    <3>2. x # o
      BY <1>6, <3>1 DEF At, Idle
    <3>3. db' = db
      BY <2>5 DEF Generate
    <3>4. QED
      BY <2>3, <3>1, <3>2, <3>3
  <2>6. ASSUME NEW n \in Node, NEW t \in Task, Send(n, t)
        PROVE  db'[o][o].seq = sequence'[o]
    <3> DEFINE l == job[n][t].lsa
    <3>1. /\ job[n][t].pc = "send"
          /\ n # o \/ t # "refresh" => job'[o]["refresh"] = job[o]["refresh"]
          /\ db'[o][o] = db[o][o] \/ (l.org = o /\ db'[o][o] = l)
      BY <1>1, <1>2, <2>6, SendStep
    <3>2. /\ l.org = n => db' = [db EXCEPT ![n][n] = l]
          /\ l.org # n => db' = db
      BY <2>6, SendNet
    <3>3. CASE n = o /\ t = "refresh"
      <4>1. IsLast(o, l)
        BY <1>1, <3>1, <3>3 DEF CalmInv
      <4> HIDE DEF l
      <4>2. db'[o][o] = l
        BY <1>1, <3>2, <3>3, <4>1 DEF IsLast, TypeOK
      <4>3. QED
        BY <2>2, <4>1, <4>2 DEF IsLast
    <3>4. CASE n = o /\ t # "refresh"
      <4>1. t = "receive"
        BY <1>1, <3>1, <3>4, IdleType DEF CalmInv, Task
      <4>2. l.org # o
        BY <1>1, <3>1, <3>4, <4>1 DEF CalmInv
      <4>3. QED
        BY <2>3, <3>1, <3>4, <4>2
    <3>5. CASE n # o
      <4> HIDE DEF l
      <4>1. db'[o][o] = db[o][o]
        BY <1>1, <3>2, <3>5 DEF TypeOK
      <4>2. QED
        BY <2>3, <3>1, <3>5, <4>1
    <3>6. QED
      BY <3>3, <3>4, <3>5
  <2>7. ASSUME NEW m \in Node, NEW d \in net, Takes(m, d)
        PROVE  db'[o][o].seq = sequence'[o]
    <3>1. HandleLsa(m, d.src, d.lsa)
      BY <2>7 DEF Takes
    <3>2. /\ job'[o]["refresh"] = job[o]["refresh"]
          /\ db'[o][o] = db[o][o]
      BY <1>1, <1>2, <3>1, HandleStep
    <3>3. QED
      BY <2>3, <3>2
  <2>8. ASSUME NEW m \in Node, CleanupStaleLsas(m) PROVE db'[o][o].seq = sequence'[o]
    <3>1. job' = job
      BY <2>8 DEF CleanupStaleLsas
    <3>2. db[o][o] \in Known /\ db[o][o].org = o
      BY <1>1, KnownIs, DbOrg
    <3>3. db[o][o].ts = Now(o)
      BY <1>1, <2>2, <2>3, <3>1, <3>2 DEF RefreshInv, IsLast
    <3>4. Now(o) \in Nat
      BY <1>1 DEF Now, TypeOK
    <3>5. o \notin Stale(o)
      BY <3>3, <3>4 DEF Stale, IsStale
    <3>6. db'[o][o] = db[o][o]
      BY <1>1, <2>8, <3>5, CleanupStep
    <3>7. QED
      BY <2>3, <3>1, <3>6
  <2>9. ASSUME UNCHANGED vars PROVE db'[o][o].seq = sequence'[o]
    BY <2>3, <2>9 DEF vars
  <2>10. ~Tick
    BY DEF Tick
  <2>11. QED
    BY <2>4, <2>5, <2>6, <2>7, <2>8, <2>9, <2>10, CalmCases
<1>7. QED
  BY <1>2, <1>4, <1>5, <1>6 DEF IsLast

\* A neighbour that has the last LSA of o keeps it when the clocks agree.
LEMMA LastIsFresh ==
    ASSUME TypeOK, RefreshInv, clock >= Calm, NEW o \in refreshed, ClocksAgree(o),
           NEW p \in Node, db[p][o].seq = sequence[o]
    PROVE  o \notin Stale(p)
<1>1. o \in Origin /\ o \in Node
  BY DEF TypeOK
<1>2. db[p][o] \in Known /\ db[p][o].org = o
  BY <1>1, KnownIs, DbOrg
<1>3. db[p][o].ts = Now(o)
  BY <1>2 DEF RefreshInv, IsLast
<1>4. clock \in Nat /\ Skew[o] \in Nat /\ Skew[p] \in Nat
  BY <1>1 DEF TypeOK
<1>5. Now(p) - Now(o) <= StaleAge
  BY <1>4 DEF Now, ClocksAgree
<1>6. Now(p) \in Nat /\ Now(o) \in Nat
  BY <1>4 DEF Now
<1> HIDE DEF Now
<1>7. QED
  BY <1>3, <1>5, <1>6 DEF Stale, IsStale

\* The LSA with the last number is taken as long as the node has an older one.
LEMMA LastIsNewer ==
    ASSUME TypeOK, NumberInv, NEW m \in Node, NEW d \in net, NEW o \in Origin, d.lsa.org = o
    PROVE  /\ IsLast(o, d.lsa) /\ ~Newer(d.lsa, db[m][o]) => db[m][o].seq = sequence[o]
           /\ Newer(d.lsa, db[m][o]) /\ db[m][o].seq = sequence[o] => IsLast(o, d.lsa)
<1>1. d.lsa \in Known /\ db[m][o] \in Known
  BY KnownIs
<1>2. /\ d.lsa.seq \in Nat /\ db[m][o].seq \in Nat /\ sequence[o] \in Nat
      /\ d.lsa.ts \in Nat /\ db[m][o].ts \in Nat
  BY <1>1, KnownType DEF Lsa, TypeOK
<1>3. d.lsa.seq > 0 /\ d.lsa.seq <= sequence[o] /\ db[m][o].seq <= sequence[o]
  BY <1>1, DbOrg DEF NumberInv
<1>4. QED
  BY <1>2, <1>3 DEF Newer, IsLast

LEMMA FloodNext ==
    TypeOK /\ NumberInv /\ UnicastInv /\ CalmInv /\ RefreshInv /\ FloodInv /\ [Next]_vars
        => FloodInv'
<1> SUFFICES ASSUME TypeOK, NumberInv, UnicastInv, CalmInv, RefreshInv, FloodInv,
                    [Next]_vars, clock' >= Calm, NEW o \in refreshed', ClocksAgree(o),
                    NEW n \in up', NEW p \in up' \ {o}, p \in Addressed(n)',
                    db'[n][o].seq = sequence'[o]
             PROVE  \/ \E t \in Task : /\ job'[n][t].pc = "send"
                                       /\ job'[n][t].lsa.org = o
                                       /\ job'[n][t].lsa.seq = sequence'[o]
                    \/ db'[p][o].seq = sequence'[o]
                    \/ \E d \in net' : /\ d.to = p /\ d.lsa.org = o
                                       /\ d.lsa.seq = sequence'[o]
  BY DEF FloodInv, Sending, IsLast, ClocksAgree
<1> DEFINE Goal ==
        \/ \E t \in Task : /\ job'[n][t].pc = "send"
                           /\ job'[n][t].lsa.org = o /\ job'[n][t].lsa.seq = sequence'[o]
        \/ db'[p][o].seq = sequence'[o]
        \/ \E d \in net' : d.to = p /\ d.lsa.org = o /\ d.lsa.seq = sequence'[o]
<1>1. /\ clock >= Calm /\ o \in Origin /\ o \in Node
      /\ UNCHANGED <<clock, up, link>>
      /\ Refresh(o) \/ (o \in refreshed /\ sequence'[o] = sequence[o])
  BY RefreshedSteps
<1>2. n \in Node /\ p \in Node /\ n \in up /\ p \in up /\ p # o /\ p \in Addressed(n)
  BY <1>1 DEF TypeOK, Addressed
<1>3. o \in refreshed /\ sequence'[o] = sequence[o]
  <2>1. ASSUME Refresh(o) PROVE FALSE
    <3>1. sequence'[o] = sequence[o] + 1 /\ db' = db
      BY <1>1, <2>1, NumberedStep DEF Refresh, Task
    <3>2. db[n][o].seq <= sequence[o]
      BY <1>1, <1>2, KnownIs, DbOrg DEF NumberInv
    <3>3. sequence[o] \in Nat
      BY <1>1 DEF TypeOK
    <3>4. QED
      BY <3>1, <3>2, <3>3
  <2>2. QED
    BY <1>1, <2>1
<1>4. ASSUME db[n][o].seq = sequence[o]
      PROVE  \/ \E t \in Task : job[n][t].pc = "send" /\ IsLast(o, job[n][t].lsa)
             \/ db[p][o].seq = sequence[o]
             \/ \E d \in net : d.to = p /\ IsLast(o, d.lsa)
  BY <1>1, <1>2, <1>3, <1>4 DEF FloodInv, Sending
<1>5. ASSUME db' = db, net' = net,
             \A t \in Task : job[n][t].pc = "send" => job'[n][t] = job[n][t]
      PROVE  Goal
  BY <1>3, <1>4, <1>5 DEF IsLast
<1>6. ASSUME NEW x \in Origin, Refresh(x) PROVE Goal
  <2>1. /\ Numbered(x, "refresh") /\ "refresh" \in Task /\ x \in Node
        /\ job[x]["refresh"] = Idle /\ db' = db /\ net' = net
    BY <1>6 DEF Refresh, Task
  <2>2. \A y \in Node, u \in Task : y # x \/ u # "refresh" => job'[y][u] = job[y][u]
    BY <2>1, NumberedStep
  <2>3. \A t \in Task : job[n][t].pc = "send" => job'[n][t] = job[n][t]
    BY <1>2, <2>1, <2>2, IdleType
  <2>4. QED
    BY <1>5, <2>1, <2>3
<1>7. ASSUME NEW x \in Origin, Generate(x, "refresh") PROVE Goal
  <2>1. /\ "refresh" \in Task /\ x \in Node
        /\ job[x]["refresh"].pc = "generate" /\ db' = db /\ net' = net
    BY <1>7 DEF Generate, Task
  <2>2. \A y \in Node, u \in Task : y # x \/ u # "refresh" => job'[y][u] = job[y][u]
    BY <1>7, <2>1, GenerateStep
  <2>3. \A t \in Task : job[n][t].pc = "send" => job'[n][t] = job[n][t]
    BY <1>2, <2>1, <2>2
  <2>4. QED
    BY <1>5, <2>1, <2>3
<1>8. ASSUME NEW x \in Node, NEW t \in Task, Send(x, t) PROVE Goal
  <2> DEFINE l == job[x][t].lsa
  <2>1. /\ \A u \in Task : n # x \/ u # t => job'[n][u] = job[n][u]
        /\ db'[p][o] = db[p][o]
    BY <1>1, <1>2, <1>8, SendStep
  <2>2. /\ net \subseteq net'
        /\ \A q \in Addressed(x) \cap up : \E d \in net' : d.to = q /\ d.lsa = l
        /\ l.org = x => db' = [db EXCEPT ![x][x] = l]
        /\ l.org # x => db' = db
    BY <1>8, SendNet
  <2>3. CASE x = n /\ IsLast(o, l)
    BY <1>2, <1>3, <2>2, <2>3 DEF IsLast
  <2>4. CASE ~(x = n /\ IsLast(o, l))
    <3> HIDE DEF l
    <3>1. db'[n][o] = db[n][o]
      <4>1. CASE l.org = x /\ n = x /\ x = o
        <5>1. db'[n][o] = l
          BY <1>1, <2>2, <4>1 DEF TypeOK
        <5>2. QED
          BY <1>3, <2>4, <4>1, <5>1 DEF IsLast
      <4>2. CASE ~(l.org = x /\ n = x /\ x = o)
        BY <1>1, <1>2, <2>2, <4>2 DEF TypeOK
      <4>3. QED
        BY <4>1, <4>2
    <3>2. ASSUME NEW u \in Task, job[n][u].pc = "send", IsLast(o, job[n][u].lsa)
          PROVE  Goal
      <4>1. n # x \/ u # t
        BY <2>4, <3>2 DEF l
      <4>2. job'[n][u] = job[n][u]
        BY <2>1, <4>1
      <4>3. QED
        BY <1>3, <3>2, <4>2 DEF IsLast
    <3>3. CASE db[p][o].seq = sequence[o]
      BY <1>3, <2>1, <3>3
    <3>4. ASSUME NEW d \in net, d.to = p, IsLast(o, d.lsa) PROVE Goal
      BY <1>3, <2>2, <3>4 DEF IsLast
    <3>5. QED
      BY <1>3, <1>4, <3>1, <3>2, <3>3, <3>4
  <2>5. QED
    BY <2>3, <2>4
<1>9. ASSUME NEW m \in Node, NEW d \in net, Takes(m, d) PROVE Goal
  <2>1. /\ d.to = m /\ job[m]["receive"] = Idle /\ HandleLsa(m, d.src, d.lsa)
        /\ net' = net \ {d} /\ "receive" \in Task
    BY <1>9 DEF Takes, Task
  <2>2. CASE ~(d.lsa.org # m /\ Newer(d.lsa, db[m][d.lsa.org]))
    <3>1. db' = db /\ job' = job
      BY <2>1, <2>2 DEF HandleLsa
    <3>2. CASE d.to = p /\ IsLast(o, d.lsa)
      <4>1. ~Newer(d.lsa, db[p][o])
        BY <1>2, <2>1, <2>2, <3>2 DEF IsLast
      <4>2. db[p][o].seq = sequence[o]
        BY <1>1, <1>2, <3>2, <4>1, LastIsNewer DEF IsLast
      <4>3. QED
        BY <1>3, <3>1, <4>2
    <3>3. CASE ~(d.to = p /\ IsLast(o, d.lsa))
      BY <1>3, <1>4, <2>1, <3>1, <3>3 DEF IsLast
    <3>4. QED
      BY <3>2, <3>3
  <2>3. CASE d.lsa.org # m /\ Newer(d.lsa, db[m][d.lsa.org])
    <3>1. /\ job' = [job EXCEPT ![m]["receive"] = At("send", d.src, d.lsa)]
          /\ db' = [db EXCEPT ![m][d.lsa.org] = d.lsa]
      BY <2>1, <2>3 DEF HandleLsa
    <3>2. At("send", d.src, d.lsa) \in Job /\ d.lsa.org \in Origin /\ d.lsa \in Lsa
      BY AtType DEF TypeOK, Lsa
    <3>3. /\ job'[m]["receive"] = At("send", d.src, d.lsa)
          /\ \A x \in Node, u \in Task :
                x # m \/ u # "receive" => job'[x][u] = job[x][u]
      BY <2>1, <3>1, <3>2, JobSet DEF TypeOK
    <3>4. /\ db'[m][d.lsa.org] = d.lsa
          /\ \A x \in Node, y \in Origin : x # m \/ y # d.lsa.org => db'[x][y] = db[x][y]
      BY <3>1, <3>2 DEF TypeOK
    <3>5. ASSUME NEW u \in Task, job[n][u].pc = "send", IsLast(o, job[n][u].lsa)
          PROVE  Goal
      <4>1. n # m \/ u # "receive"
        BY <2>1, <3>5, IdleType
      <4>2. job'[n][u] = job[n][u]
        BY <1>2, <3>3, <4>1
      <4>3. QED
        BY <1>3, <3>5, <4>2 DEF IsLast
    <3>6. CASE n = m /\ d.lsa.org = o
      <4>1. job'[n]["receive"].pc = "send" /\ job'[n]["receive"].lsa = d.lsa
        BY <3>3, <3>6 DEF At
      <4>2. db'[n][o] = d.lsa
        BY <3>4, <3>6
      <4>3. QED
        BY <2>1, <3>6, <4>1, <4>2
    <3>7. CASE ~(n = m /\ d.lsa.org = o)
      <4>1. db'[n][o] = db[n][o]
        BY <1>1, <1>2, <3>4, <3>7
      <4>2. CASE p = m /\ d.lsa.org = o
        <5>1. db'[p][o] = d.lsa
          BY <3>4, <4>2
        <5>2. IsLast(o, d.lsa) => Goal
          BY <1>3, <5>1 DEF IsLast
        <5>3. db[p][o].seq = sequence[o] => IsLast(o, d.lsa)
          BY <1>1, <1>2, <2>3, <4>2, LastIsNewer
        <5>4. ASSUME NEW e \in net, e # d, e.to = p, IsLast(o, e.lsa) PROVE Goal
          BY <1>3, <2>1, <5>4 DEF IsLast
        <5>5. QED
          BY <1>3, <1>4, <3>5, <4>1, <5>2, <5>3, <5>4
      <4>3. CASE ~(p = m /\ d.lsa.org = o)
        <5>1. db'[p][o] = db[p][o]
          BY <1>1, <1>2, <3>4, <4>3
        <5>2. CASE db[p][o].seq = sequence[o]
          BY <1>3, <5>1, <5>2
        <5>3. ASSUME NEW e \in net, e.to = p, IsLast(o, e.lsa) PROVE Goal
          <6>1. e # d
            BY <2>1, <4>3, <5>3 DEF IsLast
          <6>2. QED
            BY <1>3, <2>1, <5>3, <6>1 DEF IsLast
        <5>4. QED
          BY <1>3, <1>4, <3>5, <4>1, <5>2, <5>3
      <4>4. QED
        BY <4>2, <4>3
    <3>8. QED
      BY <3>6, <3>7
  <2>4. QED
    BY <2>2, <2>3
<1>10. ASSUME NEW m \in Node, CleanupStaleLsas(m) PROVE Goal
  <2>1. job' = job /\ net' = net
    BY <1>10 DEF CleanupStaleLsas
  <2>2. sequence[o] > 0 /\ sequence[o] \in Nat
    BY <1>1, <1>3 DEF RefreshInv, TypeOK
  <2>3. db'[n][o] = db[n][o]
    BY <1>1, <1>2, <1>3, <1>10, <2>2, CleanupStep, AbsentType
  <2>4. CASE db[p][o].seq = sequence[o]
    <3>1. o \notin Stale(p)
      BY <1>1, <1>2, <1>3, <2>4, LastIsFresh
    <3>2. db'[p][o] = db[p][o]
      BY <1>1, <1>2, <1>10, <3>1, CleanupStep
    <3>3. QED
      BY <1>3, <2>4, <3>2
  <2>5. QED
    BY <1>3, <1>4, <2>1, <2>3, <2>4 DEF IsLast
<1>11. ASSUME UNCHANGED vars PROVE Goal
  BY <1>5, <1>11 DEF vars
<1>12. ~Tick
  BY DEF Tick
<1>13. QED
  BY <1>6, <1>7, <1>8, <1>9, <1>10, <1>11, <1>12, CalmCases

LEMMA SpreadInit == Init => SpreadInv
<1> SUFFICES ASSUME Init PROVE SpreadInv
  OBVIOUS
<1>1. \A n \in Node, t \in Task : job[n][t] = Idle
  BY DEF Init
<1>2. refreshed = {} /\ net = {}
  BY DEF Init
<1>3. UnicastInv /\ RefreshInv /\ FloodInv
  BY <1>1, <1>2, IdleType DEF UnicastInv, RefreshInv, FloodInv
<1>4. CalmInv
  BY <1>1, IdleType DEF CalmInv, Task
<1>5. QED
  BY <1>3, <1>4 DEF SpreadInv

LEMMA SpreadAlways == Spec => [](IInv /\ SpreadInv)
<1>1. Init => IInv /\ SpreadInv
  BY InvInit, SpreadInit
<1>2. IInv /\ SpreadInv /\ [Next]_vars => (IInv /\ SpreadInv)'
  BY InvNext, UnicastNext, CalmNext, RefreshNext, FloodNext DEF IInv, SpreadInv
<1>3. QED
  BY <1>1, <1>2, PTL DEF Spec

\* In every mesh, whatever was lost, overtaken or dropped before Calm: when a
\* refresh and its flood are over, every node they reach, and the node itself,
\* list the neighbours of the node as they are, unless a clock is more than 180
\* seconds ahead of its own.
THEOREM RefreshRepairsViews == Spec => []Converges
<1>1. IInv /\ SpreadInv => Converges
  <2> SUFFICES ASSUME IInv, SpreadInv, clock >= Calm, Settled,
                      NEW o \in up \cap refreshed, ClocksAgree(o),
                      NEW m \in up, Reached(o, m)
               PROVE  db[m][o].seq > 0 /\ db[m][o].neighbors = Established(o)
    BY DEF Converges
  <2> USE DEF IInv, SpreadInv
  <2>1. m \in Node /\ o \in Node /\ o \in Origin /\ up \subseteq Node
    BY DEF TypeOK
  <2>2. /\ net = {}
        /\ \A n \in Node, t \in Task : job[n][t] = Idle /\ job[n][t].pc = "idle"
    BY IdleType DEF Settled
  <2> DEFINE S == {n \in Node : n \in up => db[n][o].seq = sequence[o]}
  <2>3. o \in S
    BY <2>1, <2>2 DEF RefreshInv, Task
  <2>4. ASSUME NEW n \in S \cap up, NEW p \in Addressed(n) PROVE p \in S
    <3>1. p \in Node /\ n \in Node /\ db[n][o].seq = sequence[o]
      BY <2>1, <2>4 DEF Addressed
    <3>2. ~Sending(n, o) /\ ~\E d \in net : d.to = p /\ IsLast(o, d.lsa)
      BY <2>2, <3>1 DEF Sending
    <3>3. CASE p \in up /\ p # o
      BY <3>1, <3>2, <3>3 DEF FloodInv
    <3>4. CASE p \notin up \/ p = o
      BY <2>3, <3>1, <3>4
    <3>5. QED
      BY <3>3, <3>4
  <2>5. m \in S
    <3>1. S \in SUBSET Node
      OBVIOUS
    <3> HIDE DEF S
    <3>2. QED
      BY <2>3, <2>4, <3>1 DEF Reached
  <2>6. db[m][o].seq = sequence[o] /\ sequence[o] > 0
    BY <2>1, <2>5 DEF RefreshInv
  <2>7. db[m][o] \in Known /\ db[m][o].org = o
    BY <2>1, KnownIs, DbOrg
  <2>8. \A t \in Task : job[o][t].pc # "number"
    BY <2>1, <2>2
  <2>9. QED
    BY <2>1, <2>6, <2>7, <2>8 DEF OrderInv
<1>2. QED
  BY <1>1, SpreadAlways, PTL

-----------------------------------------------------------------------------
(* link_state_db implements TopologyView.                                  *)

\* The registers.
ViewNow == [m \in Node |-> Now(m)]
ViewOf == [m \in Node |-> [o \in Origin |-> IF m = o THEN Absent(o) ELSE db[m][o]]]

\* A received LSA that handle_lsa stores has a higher number than the entry: two
\* LSAs with the same number are the same, so the timestamps never decide.
LEMMA StoredIsNewer ==
    ASSUME IInv, NEW m \in Node, NEW d \in net, NEW o \in Origin,
           d.lsa.org = o, Newer(d.lsa, db[m][o])
    PROVE  d.lsa.seq > db[m][o].seq /\ d.lsa.seq <= sequence[o]
<1>1. d.lsa \in Known /\ db[m][o] \in Known
  BY KnownIs
<1>2. d.lsa.seq \in Nat /\ db[m][o].seq \in Nat /\ d.lsa.ts \in Nat
  BY <1>1, KnownType DEF IInv, Lsa
<1>3. d.lsa.seq > 0 /\ d.lsa.seq <= sequence[o]
  BY <1>1 DEF IInv, NumberInv
<1>4. d.lsa.seq = db[m][o].seq => d.lsa = db[m][o]
  BY <1>1, DbOrg DEF IInv, UniqueLsa
<1>5. QED
  BY <1>2, <1>3, <1>4 DEF Newer

LEMMA ReceiveLearns ==
    ASSUME IInv, NEW n \in Node, ReceiveLsa(n), NEW m \in Node, NEW o \in Origin
    PROVE  \/ db'[m][o] = db[m][o]
           \/ /\ db'[m][o].org = o /\ db'[m][o].seq > db[m][o].seq
              /\ db'[m][o].seq <= sequence[o]
<1>1. PICK d \in net : HandleLsa(n, d.src, d.lsa)
  BY DEF ReceiveLsa
<1>2. TypeOK
  BY DEF IInv
<1>3. CASE db'[m][o] # db[m][o]
  <2>1. /\ m = n /\ o = d.lsa.org /\ Newer(d.lsa, db[n][d.lsa.org])
        /\ db'[m][o] = d.lsa
    BY <1>1, <1>2, <1>3, HandleStep
  <2>2. QED
    BY <2>1, StoredIsNewer
<1>4. QED
  BY <1>3

LEMMA CleanupForgets ==
    ASSUME IInv, NEW n \in Node, CleanupStaleLsas(n), NEW m \in Node, NEW o \in Origin
    PROVE  \/ db'[m][o] = db[m][o]
           \/ db'[m][o] = Absent(o) /\ Now(m) > db[m][o].ts + StaleAge
<1>1. TypeOK
  BY DEF IInv
<1>2. CASE db'[m][o] # db[m][o]
  <2>1. m = n /\ o \in Stale(n) /\ db'[m][o] = Absent(o)
    BY <1>1, <1>2, CleanupStep
  <2>2. Now(m) > db[m][o].ts /\ Now(m) - db[m][o].ts > StaleAge
    BY <2>1 DEF Stale, IsStale
  <2>3. Now(m) \in Nat /\ db[m][o].ts \in Nat
    BY <1>1 DEF TypeOK, Now, Lsa
  <2>4. QED
    BY <2>1, <2>2, <2>3
<1>3. QED
  BY <1>2

LEMMA ViewInit == Init => View!Init
<1> SUFFICES ASSUME Init PROVE View!Init
  OBVIOUS
<1>1. ViewNow \in [Node -> Nat]
  BY DEF ViewNow, Now, Init
<1>2. ViewOf = [m \in Node |-> [o \in Origin |-> Absent(o)]]
  BY DEF ViewOf, Init
<1>3. \A o : View!Empty(o) = Absent(o)
  BY DEF View!Empty, Absent
<1>4. QED
  BY <1>1, <1>2, <1>3 DEF View!Init, ViewNow, ViewOf, Init

\* A step that leaves clocks and numbers and changes entries of others by
\* learning or forgetting only is an Update.
LEMMA UpdateStep ==
    ASSUME clock' = clock, sequence' = sequence,
           \A m \in Node, o \in Origin : m # o =>
              \/ db'[m][o] = db[m][o]
              \/ /\ db'[m][o].org = o /\ db'[m][o].seq > db[m][o].seq
                 /\ db'[m][o].seq <= sequence[o]
              \/ db'[m][o] = Absent(o) /\ Now(m) > db[m][o].ts + StaleAge
    PROVE  View!Update
<1>1. ViewNow' = ViewNow
  BY DEF ViewNow, Now
<1>2. ASSUME NEW m \in Node, NEW o \in Origin
      PROVE  \/ ViewOf'[m][o] = ViewOf[m][o]
             \/ /\ ViewOf'[m][o].org = o /\ ViewOf'[m][o].seq > ViewOf[m][o].seq
                /\ ViewOf'[m][o].seq <= sequence[o]
             \/ ViewOf'[m][o] = Absent(o) /\ ViewNow[m] > ViewOf[m][o].ts + StaleAge
  <2>1. CASE m = o
    BY <2>1 DEF ViewOf, Absent
  <2>2. CASE m # o
    <3>1. ViewOf'[m][o] = db'[m][o] /\ ViewOf[m][o] = db[m][o] /\ ViewNow[m] = Now(m)
      BY <2>2 DEF ViewOf, ViewNow
    <3>2. QED
      BY <2>2, <3>1
  <2>3. QED
    BY <2>1, <2>2
<1>3. \A o : View!Empty(o) = Absent(o)
  BY DEF View!Empty, Absent
<1>4. QED
  BY <1>1, <1>2, <1>3 DEF View!Update, View!Learns, View!Forgets, ViewNow, ViewOf

LEMMA ViewNext == IInv /\ [Next]_vars => [View!Next]_(View!vars)
<1> SUFFICES ASSUME IInv, [Next]_vars PROVE View!Next \/ UNCHANGED View!vars
  OBVIOUS
<1> USE DEF IInv
<1>1. ASSUME NEW n \in Origin, NEW t \in Task, Numbered(n, t), clock' = clock, db' = db
      PROVE  View!Issue
  BY <1>1 DEF Numbered, View!Issue, Now
<1>2. ASSUME NEW n \in Node, ReceiveLsa(n) PROVE View!Update
  <2>1. clock' = clock /\ sequence' = sequence
    BY <1>2 DEF ReceiveLsa
  <2>2. QED
    BY <1>2, <2>1, ReceiveLearns, UpdateStep
<1>3. ASSUME NEW n \in Node, CleanupStaleLsas(n) PROVE View!Update
  <2>1. clock' = clock /\ sequence' = sequence
    BY <1>3 DEF CleanupStaleLsas
  <2>2. QED
    BY <1>3, <2>1, CleanupForgets, UpdateStep
<1>4. ASSUME NEW n \in Node, NEW t \in Task, Send(n, t) PROVE View!Update
  <2>1. clock' = clock /\ sequence' = sequence
    BY <1>4 DEF Send
  <2>2. \A m \in Node, o \in Origin : m # o => db'[m][o] = db[m][o]
    BY <1>4, SendStep
  <2>3. QED
    BY <2>1, <2>2, UpdateStep
<1>5. ASSUME Tick PROVE View!Tick
  <2>1. clock' = clock + 1 /\ sequence' = sequence /\ db' = db
    BY <1>5 DEF Tick
  <2>2. \A m \in Node : Now(m)' = Now(m) + 1
    BY <2>1 DEF Now, TypeOK
  <2>3. ViewNow' = [m \in Node |-> ViewNow[m] + 1]
    BY <2>2 DEF ViewNow
  <2>4. QED
    BY <2>1, <2>3 DEF View!Tick, ViewNow
<1>6. ASSUME UNCHANGED <<clock, sequence, db>> PROVE UNCHANGED View!vars
  BY <1>6 DEF View!vars, Now
<1>7. ASSUME NEW n \in Node, NEW t \in Task, JobStep(n, t)
      PROVE  View!Next \/ UNCHANGED View!vars
  <2>1. CASE TakeNumber(n, t)
    <3>1. n \in Origin /\ Numbered(n, t) /\ clock' = clock /\ db' = db
      BY <2>1 DEF TakeNumber, NumberInv
    <3>2. QED
      BY <1>1, <3>1 DEF View!Next
  <2>2. CASE Generate(n, t)
    BY <1>6, <2>2 DEF Generate
  <2>3. CASE Send(n, t)
    BY <1>4, <2>3 DEF View!Next
  <2>4. QED
    BY <1>7, <2>1, <2>2, <2>3 DEF JobStep
<1>8. ASSUME NEW n \in Origin, Refresh(n) PROVE View!Next
  <2>1. "refresh" \in Task /\ Numbered(n, "refresh") /\ clock' = clock /\ db' = db
    BY <1>8 DEF Refresh, Task
  <2>2. QED
    BY <1>1, <2>1 DEF View!Next
<1>9. CASE \/ \E n, p \in Node : Establish(n, p) \/ Greet(n, p)
           \/ \E n \in Node : Remove(n)
           \/ \E n \in Origin : Stop(n)
           \/ Lose \/ UNCHANGED vars
  BY <1>6, <1>9 DEF Establish, Greet, Remove, Stop, Lose, vars
<1>10. CASE \E n \in Node : ReceiveLsa(n) \/ CleanupStaleLsas(n)
  BY <1>2, <1>3, <1>10 DEF View!Next
<1>11. CASE Tick
  BY <1>5, <1>11 DEF View!Next
<1>12. QED
  BY <1>7, <1>8, <1>9, <1>10, <1>11 DEF Next

\* link_state_db implements TopologyView: what a node holds of another one is
\* replaced by a higher number only and dropped only when it is stale.
THEOREM ImplementsTopologyView == Spec => ViewSpec
<1>1. Spec => View!Init /\ [][View!Next]_(View!vars)
  BY ViewInit, ViewNext, InvAlways, PTL DEF Spec
<1>2. QED
  BY <1>1 DEF ViewSpec, View!Spec

=============================================================================
