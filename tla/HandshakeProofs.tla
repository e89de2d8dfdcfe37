-------------------------- MODULE HandshakeProofs --------------------------
(***************************************************************************)
(* Proofs about Handshake for every value of the constants: type           *)
(* correctness, the confirmation of sessions by their initiator, and the   *)
(* announcement of a restart before the first frame of the new life.       *)
(***************************************************************************)
EXTENDS Handshake, TLAPS

----------------------------------------------------------------------------
\* The inductive invariant.

\* The life of the sender that a frame sent by n carries.
LifeOf(n, f) == IF f.kind = "init" THEN f.boot ELSE f.s.life[n]

\* The frames of a sender arrive in the order of its lives.
Ordered(n, q) ==
  \A i, j \in 1..Len(q) : i <= j => LifeOf(n, q[i]) <= LifeOf(n, q[j])

\* A frame in the air from n is of a life its peer has not gone past; it carries
\* a stamp already used, and the current initiation only in the current life;
\* sealed frames are on sessions that their initiator has finished.
GoodFrame(n, f) ==
  /\ boot[Peer(n)] <= LifeOf(n, f)
  /\ LifeOf(n, f) <= life[n]
  /\ f.kind = "init" => /\ f.ts <= clock[n]
                        /\ f.ts = init[n] => f.boot = life[n]
  /\ f.kind = "resp" => /\ f.s.ts <= clock[Peer(n)]
                        /\ f.s.ts = init[Peer(n)] => f.s.life[Peer(n)] = life[Peer(n)]
  /\ f.kind = "sealed" => f.s \in confirmed

GoodAir(n) ==
  /\ Ordered(n, air[n])
  /\ \A i \in 1..Len(air[n]) : GoodFrame(n, air[n][i])

AirInv == \A n \in Node : GoodAir(n)

\* A session in use is of both current lives, and its initiator has finished it.
GoodSession(n, s) ==
  s # NoSession => /\ s.life[n] = life[n]
                   /\ s.life[Peer(n)] = boot[n]
                   /\ s \in confirmed

GoodNode(n) ==
  /\ GoodSession(n, cur[n])
  /\ GoodSession(n, prev[n])
  /\ pend[n] # NoSession => /\ pend[n].life[n] = life[n]
                            /\ pend[n].life[Peer(n)] <= boot[n]
  /\ init[n] <= clock[n]
  /\ boot[n] <= life[Peer(n)]

NodeInv == \A n \in Node : GoodNode(n)

IInv == TypeOK /\ NodeInv /\ AirInv

----------------------------------------------------------------------------
\* Lemmas about the two nodes, and about sequences.

\* The two nodes are each other's peers.
LEMMA PeerFacts ==
  ASSUME NEW n \in Node
  PROVE  /\ Peer(n) \in Node
         /\ Peer(n) # n
         /\ Peer(Peer(n)) = n
         /\ \A m \in Node : m = n \/ m = Peer(n)
BY DEF Node, Peer

\* Appending a frame adds one element at the end.
LEMMA AppendFacts ==
  ASSUME NEW q \in Seq(Frame), NEW g \in Frame
  PROVE  /\ Append(q, g) \in Seq(Frame)
         /\ Len(Append(q, g)) = Len(q) + 1
         /\ \A i \in 1..Len(q) : Append(q, g)[i] = q[i] /\ q[i] \in Frame
         /\ Append(q, g)[Len(q) + 1] = g
OBVIOUS

\* Dropping the head moves every other frame one place up.
LEMMA TailFacts ==
  ASSUME NEW q \in Seq(Frame), q # <<>>
  PROVE  /\ Tail(q) \in Seq(Frame)
         /\ Len(q) \in Nat /\ Len(q) >= 1
         /\ Head(q) = q[1] /\ Head(q) \in Frame
         /\ Len(Tail(q)) = Len(q) - 1
         /\ \A i \in 1..Len(Tail(q)) : Tail(q)[i] = q[i + 1] /\ i + 1 \in 1..Len(q)
OBVIOUS

\* A frame of the latest life keeps a queue ordered.
LEMMA OrderedAppend ==
  ASSUME NEW n \in Node, NEW q \in Seq(Frame), NEW g \in Frame,
         Ordered(n, q),
         \A i \in 1..Len(q) : LifeOf(n, q[i]) <= LifeOf(n, g),
         LifeOf(n, g) \in Nat
  PROVE  Ordered(n, Append(q, g))
<1> DEFINE a == Append(q, g)
<1>1. /\ Len(a) = Len(q) + 1 /\ a[Len(q) + 1] = g /\ Len(q) \in Nat
      /\ \A i \in 1..Len(q) : a[i] = q[i]
  BY AppendFacts
<1> HIDE DEF a
<1>2. SUFFICES ASSUME NEW i \in 1..Len(a), NEW j \in 1..Len(a), i <= j
               PROVE  LifeOf(n, a[i]) <= LifeOf(n, a[j])
  BY DEF Ordered, a
<1>3. CASE j \in 1..Len(q)
  <2>1. i \in 1..Len(q) /\ LifeOf(n, q[i]) <= LifeOf(n, q[j])
    BY <1>1, <1>2, <1>3 DEF Ordered
  <2> QED BY <1>1, <1>3, <2>1
<1>4. CASE j = Len(q) + 1
  <2>1. a[j] = g
    BY <1>1, <1>4
  <2>2. CASE i \in 1..Len(q)
    BY <1>1, <2>1, <2>2
  <2>3. CASE i = Len(q) + 1
    BY <1>1, <2>1, <2>3
  <2> QED BY <1>1, <1>2, <2>2, <2>3
<1> QED BY <1>1, <1>3, <1>4

\* The head is of the earliest life in a queue, and the rest stays ordered.
LEMMA OrderedTail ==
  ASSUME NEW n \in Node, NEW q \in Seq(Frame), q # <<>>, Ordered(n, q)
  PROVE  /\ Ordered(n, Tail(q))
         /\ \A i \in 1..Len(Tail(q)) : LifeOf(n, Head(q)) <= LifeOf(n, Tail(q)[i])
<1>1. /\ Head(q) = q[1] /\ Len(q) \in Nat /\ Len(q) >= 1
      /\ Len(Tail(q)) = Len(q) - 1
      /\ \A i \in 1..Len(Tail(q)) : Tail(q)[i] = q[i + 1] /\ i + 1 \in 1..Len(q)
  BY TailFacts
<1>2. ASSUME NEW i \in 1..Len(Tail(q)), NEW j \in 1..Len(Tail(q)), i <= j
      PROVE  LifeOf(n, Tail(q)[i]) <= LifeOf(n, Tail(q)[j])
  <2>1. i + 1 \in 1..Len(q) /\ j + 1 \in 1..Len(q) /\ i + 1 <= j + 1
    BY <1>1, <1>2
  <2>2. LifeOf(n, q[i + 1]) <= LifeOf(n, q[j + 1])
    BY <2>1 DEF Ordered
  <2> QED BY <1>1, <2>2
<1>3. ASSUME NEW i \in 1..Len(Tail(q))
      PROVE  LifeOf(n, Head(q)) <= LifeOf(n, Tail(q)[i])
  <2>1. 1 \in 1..Len(q) /\ i + 1 \in 1..Len(q) /\ 1 <= i + 1
    BY <1>1
  <2>2. LifeOf(n, q[1]) <= LifeOf(n, q[i + 1])
    BY <2>1 DEF Ordered
  <2> QED BY <1>1, <2>2
<1> QED BY <1>2, <1>3 DEF Ordered

----------------------------------------------------------------------------
\* What a step does to the frames of one sender.

\* The sender's queue stays, and so does what is known of its frames.
LEMMA AirSame ==
  ASSUME NEW m \in Node, air[m] \in Seq(Frame), GoodAir(m), air'[m] = air[m],
         \A f \in Frame : GoodFrame(m, f) => GoodFrame(m, f)'
  PROVE  GoodAir(m)'
<1>1. \A i \in 1..Len(air[m]) : air[m][i] \in Frame
  OBVIOUS
<1> QED BY <1>1 DEF GoodAir, Ordered

\* The sender sends a good frame of its current life.
LEMMA AirSent ==
  ASSUME NEW m \in Node, air[m] \in Seq(Frame), GoodAir(m), NEW g \in Frame,
         air'[m] = Append(air[m], g),
         LifeOf(m, g) = life[m], life[m] \in Nat, GoodFrame(m, g)',
         \A f \in Frame : GoodFrame(m, f) => GoodFrame(m, f)'
  PROVE  GoodAir(m)'
<1>1. /\ Len(air'[m]) = Len(air[m]) + 1 /\ air'[m][Len(air[m]) + 1] = g
      /\ Len(air[m]) \in Nat
      /\ \A i \in 1..Len(air[m]) : air'[m][i] = air[m][i] /\ air[m][i] \in Frame
  BY AppendFacts
<1>2. \A i \in 1..Len(air[m]) : LifeOf(m, air[m][i]) <= LifeOf(m, g)
  BY DEF GoodAir, GoodFrame
<1>3. Ordered(m, air[m])
  BY DEF GoodAir
<1>4. LifeOf(m, g) \in Nat
  OBVIOUS
<1>5. Ordered(m, Append(air[m], g))
  BY <1>2, <1>3, <1>4, OrderedAppend
<1>6. ASSUME NEW i \in 1..Len(air'[m]), NEW f \in Frame, f = air'[m][i]
      PROVE  GoodFrame(m, f)'
  <2>1. CASE i \in 1..Len(air[m])
    <3>1. f = air[m][i]
      BY <1>1, <1>6, <2>1
    <3>2. GoodFrame(m, f)
      BY <2>1, <3>1 DEF GoodAir
    <3> QED BY <3>2
  <2>2. CASE i = Len(air[m]) + 1
    <3>1. f = g
      BY <1>1, <1>6, <2>2
    <3> QED BY <3>1
  <2> QED BY <1>1, <1>6, <2>1, <2>2
<1>7. \A i \in 1..Len(air'[m]) : air'[m][i] \in Frame
  BY <1>1
<1>8. (\A i \in 1..Len(air[m]) : GoodFrame(m, air[m][i]))'
  BY <1>6, <1>7 DEF GoodFrame, LifeOf
<1>9. Ordered(m, air[m])'
  BY <1>5 DEF Ordered, LifeOf
<1> QED BY <1>8, <1>9 DEF GoodAir

\* The first frame of the sender is taken off the air.
LEMMA AirTaken ==
  ASSUME NEW m \in Node, air[m] \in Seq(Frame), GoodAir(m), air[m] # <<>>,
         air'[m] = Tail(air[m]),
         \A f \in Frame : GoodFrame(m, f) /\ LifeOf(m, Head(air[m])) <= LifeOf(m, f)
                            => GoodFrame(m, f)'
  PROVE  GoodAir(m)'
<1>1. /\ Len(air[m]) \in Nat /\ Len(Tail(air[m])) = Len(air[m]) - 1
      /\ \A i \in 1..Len(Tail(air[m])) :
           Tail(air[m])[i] = air[m][i + 1] /\ i + 1 \in 1..Len(air[m])
  BY TailFacts
<1>2. Ordered(m, air[m])
  BY DEF GoodAir
<1>3. /\ Ordered(m, Tail(air[m]))
      /\ \A i \in 1..Len(Tail(air[m])) :
           LifeOf(m, Head(air[m])) <= LifeOf(m, Tail(air[m])[i])
  BY <1>2, OrderedTail
<1>4. ASSUME NEW i \in 1..Len(Tail(air[m])), NEW f \in Frame, f = Tail(air[m])[i]
      PROVE  GoodFrame(m, f)'
  <2>1. f = air[m][i + 1] /\ GoodFrame(m, f)
    BY <1>1, <1>4 DEF GoodAir
  <2>2. LifeOf(m, Head(air[m])) <= LifeOf(m, f)
    BY <1>3, <1>4
  <2> QED BY <2>1, <2>2
<1>5. \A i \in 1..Len(Tail(air[m])) : Tail(air[m])[i] \in Frame
  BY <1>1
<1>6. (\A i \in 1..Len(air[m]) : GoodFrame(m, air[m][i]))'
  BY <1>4, <1>5 DEF GoodFrame, LifeOf
<1>7. Ordered(m, air[m])'
  BY <1>3 DEF Ordered, LifeOf
<1> QED BY <1>6, <1>7 DEF GoodAir

----------------------------------------------------------------------------
\* Type correctness.

\* What the fields of a frame are.
LEMMA FrameFacts ==
  ASSUME NEW f \in Frame
  PROVE  /\ f.kind \in {"init", "resp", "sealed"}
         /\ f.kind = "init" => f.ts \in Nat \ {0} /\ f.boot \in Nat \ {0}
         /\ f.kind # "init" => f.s \in Session
BY DEF Frame

\* The session of nobody is no session.
LEMMA NoSessionFacts == NoSession \notin Session
BY DEF NoSession, Session

\* What the fields of a session are.
LEMMA SessionFacts ==
  ASSUME NEW s \in Session
  PROVE  /\ s.by \in Node /\ s.ts \in Nat \ {0}
         /\ \A m \in Node : s.life[m] \in Nat \ {0}
BY DEF Session

LEMMA InitType == Init => TypeOK
BY HandshakeAssumption DEF Init, TypeOK, Node, NoSession, Sessions

\* The frame a node receives, and the rest of the queue.
LEMMA ReceiveTypes ==
  ASSUME TypeOK, NEW n \in Node, air[Peer(n)] # <<>>
  PROVE  /\ Head(air[Peer(n)]) \in Frame
         /\ Taken(n) \in [Node -> Seq(Frame)]
         /\ \A g \in Frame : Replied(n, g) \in [Node -> Seq(Frame)]
<1>1. /\ Peer(n) \in Node /\ \A m \in Node : m = n \/ m = Peer(n)
  BY PeerFacts
<1>2. air \in [Node -> Seq(Frame)]
  BY DEF TypeOK
<1>3. Tail(air[Peer(n)]) \in Seq(Frame) /\ Head(air[Peer(n)]) \in Frame
  BY <1>1, <1>2, TailFacts
<1>4. \A g \in Frame : Append(air[n], g) \in Seq(Frame)
  BY <1>2
<1> QED BY <1>1, <1>2, <1>3, <1>4 DEF Taken, Replied

LEMMA TypeStep ==
  ASSUME TypeOK, [Next]_vars
  PROVE  TypeOK'
<1> USE HandshakeAssumption
<1> USE DEF TypeOK
<1>0. NoSession \in Sessions
  BY DEF Sessions
<1>1. ASSUME NEW n \in Node, Start(n) PROVE TypeOK'
  <2>1. [kind |-> "init", ts |-> NextStamp(n), boot |-> BootId(n)] \in Frame
    BY DEF Frame, NextStamp, BootId
  <2>2. air' \in [Node -> Seq(Frame)]
    BY <1>1, <2>1, AppendFacts DEF Start
  <2>3. clock[n] + 1 \in 0..MaxStamp
    BY <1>1 DEF Start
  <2>4. clock' \in [Node -> 0..MaxStamp] /\ init' \in [Node -> 0..MaxStamp]
    BY <1>1, <2>3 DEF Start, NextStamp
  <2>5. wait' \in [Node -> {"ready", "retry", "rekey"}]
    BY <1>1 DEF Start
  <2> QED BY <1>1, <2>2, <2>4, <2>5 DEF Start
<1>2. ASSUME NEW n \in Node, Transmit(n) PROVE TypeOK'
  <2>1. Sealed(cur[n]) \in Frame
    BY <1>2 DEF Transmit, Sealed, Frame, Sessions
  <2>2. air' \in [Node -> Seq(Frame)]
    BY <1>2, <2>1, AppendFacts DEF Transmit
  <2> QED BY <1>2, <2>2 DEF Transmit, timers
<1>3. ASSUME NEW n \in Node, Receive(n) PROVE TypeOK'
  <2> DEFINE f == Head(air[Peer(n)])
  <2>1. /\ f \in Frame /\ Taken(n) \in [Node -> Seq(Frame)]
        /\ \A g \in Frame : Replied(n, g) \in [Node -> Seq(Frame)]
    BY <1>3, ReceiveTypes DEF Receive
  <2>2. Handle(n, f) /\ UNCHANGED <<life, clock, trusts, paused, faults>>
    BY <1>3 DEF Receive
  <2>3. /\ f.kind \in {"init", "resp", "sealed"}
        /\ f.kind = "init" => f.ts \in Nat \ {0} /\ f.boot \in Nat \ {0}
        /\ f.kind # "init" => f.s \in Session
    BY <2>1, FrameFacts
  <2> HIDE DEF f
  <2>4. \A c \in Sessions, b \in Nat : AfterBoot(n, c, b) \in Sessions
    BY <1>0 DEF AfterBoot
  <2>5. CASE Answer(n, f)
    <3> DEFINE s == [by |-> Peer(n), ts |-> f.ts,
                     life |-> [m \in Node |-> IF m = n THEN BootId(n) ELSE f.boot]]
    <3>1. f.kind = "init"
      BY <2>5 DEF Answer
    <3>2. s \in Session
      BY <2>3, <3>1, PeerFacts DEF Session, BootId
    <3>3. [kind |-> "resp", s |-> s] \in Frame
      BY <3>2 DEF Frame
    <3> HIDE DEF s
    <3>4. air' = Replied(n, [kind |-> "resp", s |-> s]) /\ seen' = [seen EXCEPT ![n] = f.ts]
          /\ NoteBoot(n, f.boot) /\ UNCHANGED <<wait, confirmed>>
          /\ init' = [init EXCEPT ![n] = IF n > Peer(n) THEN 0 ELSE init[n]]
          /\ Offer(n, s, AfterBoot(n, cur[n], f.boot), AfterBoot(n, prev[n], f.boot))
      BY <2>5 DEF Answer, s
    <3>5. AfterBoot(n, cur[n], f.boot) \in Sessions /\ AfterBoot(n, prev[n], f.boot) \in Sessions
      BY <2>3, <2>4, <3>1
    <3>6. /\ cur' \in [Node -> Sessions] /\ prev' \in [Node -> Sessions]
          /\ pend' \in [Node -> Sessions] /\ held' \in [Node -> BOOLEAN]
          /\ unknown' = unknown
      BY <3>2, <3>4, <3>5 DEF Offer, Sessions
    <3>7. due' \in [Node -> BOOLEAN]
      BY <3>4 DEF Offer
    <3>8. air' \in [Node -> Seq(Frame)]
      BY <2>1, <3>3, <3>4
    <3>9. seen' \in [Node -> Nat] /\ boot' \in [Node -> Nat] /\ init' \in [Node -> 0..MaxStamp]
      BY <2>3, <3>1, <3>4 DEF NoteBoot
    <3> QED BY <2>2, <3>4, <3>6, <3>7, <3>8, <3>9
  <2>6. CASE Finish(n, f)
    <3>1. f.kind = "resp" /\ f.s \in Session
      BY <2>3, <2>6 DEF Finish
    <3>2. f.s.life[Peer(n)] \in Nat
      BY <3>1, SessionFacts, PeerFacts
    <3>3. /\ NoteBoot(n, f.s.life[Peer(n)])
          /\ Promote(n, f.s, AfterBoot(n, cur[n], f.s.life[Peer(n)]),
                             AfterBoot(n, prev[n], f.s.life[Peer(n)]))
          /\ init' = [init EXCEPT ![n] = 0] /\ wait' = [wait EXCEPT ![n] = "rekey"]
          /\ confirmed' = confirmed \cup {f.s}
          /\ air' = Replied(n, Sealed(f.s)) /\ UNCHANGED <<pend, held, seen>>
      BY <2>6 DEF Finish
    <3>4. /\ AfterBoot(n, cur[n], f.s.life[Peer(n)]) \in Sessions
          /\ AfterBoot(n, prev[n], f.s.life[Peer(n)]) \in Sessions
      BY <2>4, <3>2
    <3>5. /\ cur' \in [Node -> Sessions] /\ prev' \in [Node -> Sessions]
          /\ due' \in [Node -> BOOLEAN] /\ unknown' \in [Node -> 0..Resync]
      BY <3>1, <3>3, <3>4 DEF Promote, Sessions
    <3>6. air' \in [Node -> Seq(Frame)]
      <4>1. Sealed(f.s) \in Frame
        BY <3>1 DEF Sealed, Frame
      <4> QED BY <2>1, <3>3, <4>1
    <3>7. /\ boot' \in [Node -> Nat] /\ init' \in [Node -> 0..MaxStamp]
          /\ confirmed' \subseteq Session /\ wait' \in [Node -> {"ready", "retry", "rekey"}]
      BY <3>1, <3>2, <3>3 DEF NoteBoot
    <3> QED BY <2>2, <3>3, <3>5, <3>6, <3>7
  <2>7. CASE Open(n, f)
    <3>1. f.kind = "sealed" /\ f.s \in Sessions
      BY <2>3, <2>7 DEF Open, Sessions
    <3>2. air' \in [Node -> Seq(Frame)] /\ UNCHANGED <<init, wait, seen, boot, confirmed>>
      BY <2>1, <2>7 DEF Open
    <3>3. /\ cur' \in [Node -> Sessions] /\ prev' \in [Node -> Sessions]
          /\ pend' \in [Node -> Sessions] /\ held' \in [Node -> BOOLEAN]
          /\ due' \in [Node -> BOOLEAN] /\ unknown' \in [Node -> 0..Resync]
      <4>1. CASE f.s = pend[n]
        <5>1. /\ Promote(n, f.s, cur[n], prev[n])
              /\ pend' = [pend EXCEPT ![n] = NoSession]
              /\ held' = [held EXCEPT ![n] = FALSE]
          BY <2>7, <4>1 DEF Open
        <5>2. cur' \in [Node -> Sessions] /\ pend' \in [Node -> Sessions]
          BY <1>0, <3>1, <5>1 DEF Promote
        <5>3. prev' \in [Node -> Sessions]
          BY <5>1 DEF Promote
        <5>4. unknown' \in [Node -> 0..Resync]
          BY <5>1 DEF Promote
        <5>5. due' \in [Node -> BOOLEAN] /\ held' \in [Node -> BOOLEAN]
          BY <5>1 DEF Promote
        <5> QED BY <5>2, <5>3, <5>4, <5>5
      <4>2. CASE f.s # pend[n]
        BY <2>7, <4>2 DEF Open
      <4> QED BY <4>1, <4>2
    <3> QED BY <2>2, <3>2, <3>3
  <2>8. CASE Miss(n, f)
    <3>1. air' \in [Node -> Seq(Frame)]
          /\ UNCHANGED <<init, cur, prev, pend, held, due, seen, boot, confirmed>>
      BY <2>1, <2>8 DEF Miss
    <3>2. Count(n) \in 0..Resync
      BY DEF Count
    <3>3. \/ UNCHANGED <<unknown, wait>>
          \/ /\ unknown' = [unknown EXCEPT ![n] = Count(n)]
             /\ wait' = [wait EXCEPT ![n] = IF init[n] = 0 THEN "ready" ELSE wait[n]]
      <4>1. CASE trusts[n]
        BY <2>8, <4>1 DEF Miss
      <4>2. CASE ~trusts[n]
        BY <2>8, <4>2 DEF Miss
      <4> QED BY <4>1, <4>2
    <3>4. unknown' \in [Node -> 0..Resync]
      BY <3>2, <3>3
    <3>5. wait' \in [Node -> {"ready", "retry", "rekey"}]
      <4>1. (IF init[n] = 0 THEN "ready" ELSE wait[n]) \in {"ready", "retry", "rekey"}
        OBVIOUS
      <4> QED BY <3>3, <4>1
    <3> QED BY <2>2, <3>1, <3>4, <3>5
  <2>9. CASE Ignore(n, f)
    BY <2>1, <2>2, <2>9 DEF Ignore, timers
  <2> QED BY <2>2, <2>5, <2>6, <2>7, <2>8, <2>9 DEF Handle
<1>4. ASSUME Fault PROVE faults' \in 0..MaxFaults
  BY <1>4 DEF Fault
<1>5. ASSUME NEW c \in BOOLEAN, Elapse(c) PROVE faults' \in 0..MaxFaults
  BY <1>4, <1>5 DEF Elapse
<1>6. ASSUME NEW n \in Node, RetryTimeout(n) \/ RekeyTime(n) PROVE TypeOK'
  <2>1. wait' \in [Node -> {"ready", "retry", "rekey"}]
    BY <1>6 DEF RetryTimeout, RekeyTime
  <2>2. faults' \in 0..MaxFaults
    BY <1>4, <1>6 DEF RetryTimeout, RekeyTime, Elapse
  <2> QED BY <1>6, <2>1, <2>2 DEF RetryTimeout, RekeyTime
<1>7. ASSUME NEW n \in Node, Expire(n) \/ PrevTimeout(n) PROVE TypeOK'
  <2>1. faults' \in 0..MaxFaults
    BY <1>4, <1>7 DEF Expire, PrevTimeout, HoldoffTimeout, PendingTimeout, Elapse
  <2>2. CASE HoldoffTimeout(n)
    BY <2>1, <2>2 DEF HoldoffTimeout
  <2>3. CASE PendingTimeout(n)
    BY <1>0, <2>1, <2>3 DEF PendingTimeout, timers
  <2>4. CASE PrevTimeout(n)
    BY <1>0, <2>1, <2>4 DEF PrevTimeout, timers
  <2> QED BY <1>7, <2>2, <2>3, <2>4 DEF Expire
<1>8. ASSUME NEW n \in Node, Age(n) PROVE TypeOK'
  <2>1. faults' \in 0..MaxFaults
    BY <1>4, <1>8 DEF Age
  <2> QED BY <1>0, <1>8, <2>1 DEF Age
<1>9. ASSUME NEW n \in Node, Lose(n) PROVE TypeOK'
  <2>1. faults' \in 0..MaxFaults
    BY <1>4, <1>9 DEF Lose
  <2>2. air' \in [Node -> Seq(Frame)]
    BY <1>9, TailFacts DEF Lose
  <2> QED BY <1>9, <2>1, <2>2 DEF Lose, timers
<1>10. ASSUME NEW n \in Node, Forgotten(n)
       PROVE  /\ init' \in [Node -> 0..MaxStamp] /\ cur' \in [Node -> Sessions]
              /\ prev' \in [Node -> Sessions] /\ pend' \in [Node -> Sessions]
              /\ held' \in [Node -> BOOLEAN] /\ due' \in [Node -> BOOLEAN]
              /\ wait' \in [Node -> {"ready", "retry", "rekey"}]
              /\ boot' \in [Node -> Nat] /\ unknown' \in [Node -> 0..Resync]
              /\ paused' \in [Node -> BOOLEAN]
  BY <1>0, <1>10 DEF Forgotten
<1>11. ASSUME NEW n \in Node, Restart(n) PROVE TypeOK'
  <2>1. faults' \in 0..MaxFaults /\ Forgotten(n)
    BY <1>4, <1>11 DEF Restart
  <2>2. life' \in [Node -> Nat \ {0}] /\ seen' \in [Node -> Nat]
    BY <1>11 DEF Restart
  <2> QED BY <1>10, <1>11, <2>1, <2>2 DEF Restart
<1>12. ASSUME NEW n \in Node, Revoke(n) PROVE TypeOK'
  <2>1. faults' \in 0..MaxFaults /\ Forgotten(n)
    BY <1>4, <1>12 DEF Revoke
  <2>2. trusts' \in [Node -> BOOLEAN]
    BY <1>12 DEF Revoke
  <2> QED BY <1>10, <1>12, <2>1, <2>2 DEF Revoke
<1>13. ASSUME NEW n \in Node, Pause(n) PROVE TypeOK'
  BY <1>4, <1>13 DEF Pause, timers
<1>14. ASSUME NEW n \in Node, Return(n) PROVE TypeOK'
  BY <1>14 DEF Return, Approve, Resume, timers
<1>15. CASE UNCHANGED vars
  BY <1>15 DEF vars, timers
<1> QED
  BY <1>1, <1>2, <1>3, <1>6, <1>7, <1>8, <1>9, <1>11, <1>12, <1>13, <1>14, <1>15
  DEF Next, Tick

\* Every variable of the handshake keeps its type (_Peer's fields).
THEOREM TypeCorrect == Spec => []TypeOK
<1>1. Init => TypeOK
  BY InitType
<1>2. TypeOK /\ [Next]_vars => TypeOK'
  BY TypeStep
<1> QED BY <1>1, <1>2, PTL DEF Spec

----------------------------------------------------------------------------
\* The steps that take nothing new into account: no boot id goes up, lives and
\* stamps do not go back, no new initiation, sessions stay finished.
Calm ==
  /\ \A m \in Node : /\ boot'[m] <= boot[m]
                     /\ life[m] <= life'[m]
                     /\ clock[m] <= clock'[m]
                     /\ \/ init'[m] = 0
                        \/ init'[m] = init[m] /\ life'[m] = life[m]
  /\ confirmed \subseteq confirmed'

LEMMA NumberTypes ==
  ASSUME TypeOK, NEW m \in Node
  PROVE  /\ boot[m] \in Nat /\ life[m] \in Nat \ {0} /\ clock[m] \in Nat
         /\ init[m] \in Nat
         /\ cur[m] \in Sessions /\ prev[m] \in Sessions /\ pend[m] \in Sessions
         /\ air[m] \in Seq(Frame)
BY HandshakeAssumption DEF TypeOK

LEMMA LifeOfType ==
  ASSUME NEW m \in Node, NEW f \in Frame
  PROVE  LifeOf(m, f) \in Nat \ {0}
<1>1. CASE f.kind = "init"
  BY <1>1, FrameFacts DEF LifeOf
<1>2. CASE f.kind # "init"
  BY <1>2, FrameFacts, SessionFacts DEF LifeOf
<1> QED BY <1>1, <1>2

LEMMA CalmFrame ==
  ASSUME TypeOK, TypeOK', Calm, NEW m \in Node, NEW f \in Frame, GoodFrame(m, f)
  PROVE  GoodFrame(m, f)'
<1> DEFINE q == Peer(m)
<1>1. q \in Node /\ q = Peer(m)
  BY PeerFacts
<1> HIDE DEF q
<1>2. /\ boot[q] \in Nat /\ life[q] \in Nat /\ clock[q] \in Nat /\ init[q] \in Nat
      /\ life[m] \in Nat /\ clock[m] \in Nat /\ init[m] \in Nat
  BY <1>1, NumberTypes
<1>3. /\ boot'[q] \in Nat /\ life'[q] \in Nat /\ clock'[q] \in Nat /\ init'[q] \in Nat
      /\ life'[m] \in Nat /\ clock'[m] \in Nat /\ init'[m] \in Nat
  BY <1>1, HandshakeAssumption DEF TypeOK
<1>4. LifeOf(m, f) \in Nat
  BY LifeOfType
<1>5. /\ boot'[q] <= boot[q] /\ life[m] <= life'[m] /\ life[q] <= life'[q]
      /\ clock[m] <= clock'[m] /\ clock[q] <= clock'[q]
      /\ init'[m] = 0 \/ (init'[m] = init[m] /\ life'[m] = life[m])
      /\ init'[q] = 0 \/ (init'[q] = init[q] /\ life'[q] = life[q])
      /\ confirmed \subseteq confirmed'
  BY <1>1 DEF Calm
<1>6. boot'[q] <= LifeOf(m, f) /\ LifeOf(m, f) <= life'[m]
  BY <1>1, <1>2, <1>3, <1>4, <1>5 DEF GoodFrame
<1>7. f.kind = "init" => f.ts <= clock'[m] /\ (f.ts = init'[m] => f.boot = life'[m])
  <2>1. f.kind = "init" => f.ts \in Nat \ {0}
    BY FrameFacts
  <2> QED BY <1>2, <1>3, <1>5, <2>1 DEF GoodFrame
<1>8. f.kind = "resp" => f.s.ts <= clock'[q] /\ (f.s.ts = init'[q] => f.s.life[q] = life'[q])
  <2>1. f.kind = "resp" => f.s.ts \in Nat \ {0}
    BY FrameFacts, SessionFacts
  <2>2. f.kind = "resp" => f.s.ts <= clock[q] /\ (f.s.ts = init[q] => f.s.life[q] = life[q])
    BY <1>1 DEF GoodFrame
  <2> QED BY <1>2, <1>3, <1>5, <2>1, <2>2
<1>9. f.kind = "sealed" => f.s \in confirmed'
  BY <1>5 DEF GoodFrame
<1> QED BY <1>1, <1>6, <1>7, <1>8, <1>9 DEF GoodFrame, LifeOf

\* A step that is calm and leaves the air alone keeps AirInv.
LEMMA CalmAir ==
  ASSUME IInv, TypeOK', Calm, UNCHANGED air
  PROVE  AirInv'
<1>1. ASSUME NEW m \in Node PROVE GoodAir(m)'
  <2>1. air[m] \in Seq(Frame) /\ GoodAir(m) /\ air'[m] = air[m] /\ TypeOK
    BY NumberTypes DEF IInv, AirInv
  <2>2. \A f \in Frame : GoodFrame(m, f) => GoodFrame(m, f)'
    BY <2>1, CalmFrame
  <2> QED BY <2>1, <2>2, AirSame
<1> QED BY <1>1 DEF AirInv

\* A step that is calm and takes a frame off the air keeps AirInv.
LEMMA CalmTaken ==
  ASSUME IInv, TypeOK', Calm, NEW n \in Node, air[n] # <<>>,
         air' = [air EXCEPT ![n] = Tail(air[n])]
  PROVE  AirInv'
<1>1. ASSUME NEW m \in Node PROVE GoodAir(m)'
  <2>1. air[m] \in Seq(Frame) /\ GoodAir(m) /\ TypeOK /\ air \in [Node -> Seq(Frame)]
    BY NumberTypes DEF IInv, AirInv, TypeOK
  <2>2. \A f \in Frame : GoodFrame(m, f) => GoodFrame(m, f)'
    BY <2>1, CalmFrame
  <2>3. CASE m = n
    <3>1. air'[m] = Tail(air[m]) /\ air[m] # <<>>
      BY <2>1, <2>3
    <3> QED BY <2>1, <2>2, <3>1, AirTaken
  <2>4. CASE m # n
    <3>1. air'[m] = air[m]
      BY <2>1, <2>4
    <3> QED BY <2>1, <2>2, <3>1, AirSame
  <2> QED BY <2>3, <2>4
<1> QED BY <1>1 DEF AirInv

\* A step that is calm and sends a good frame keeps AirInv.
LEMMA CalmSent ==
  ASSUME IInv, TypeOK', Calm, NEW n \in Node, NEW g \in Frame,
         air' = [air EXCEPT ![n] = Append(air[n], g)],
         LifeOf(n, g) = life[n], GoodFrame(n, g)
  PROVE  AirInv'
<1>1. ASSUME NEW m \in Node PROVE GoodAir(m)'
  <2>1. /\ air[m] \in Seq(Frame) /\ GoodAir(m) /\ TypeOK
        /\ air \in [Node -> Seq(Frame)] /\ life[m] \in Nat
    BY NumberTypes DEF IInv, AirInv, TypeOK
  <2>2. \A f \in Frame : GoodFrame(m, f) => GoodFrame(m, f)'
    BY <2>1, CalmFrame
  <2>3. CASE m = n
    <3>1. air'[m] = Append(air[m], g) /\ GoodFrame(m, g)' /\ LifeOf(m, g) = life[m]
      BY <2>1, <2>2, <2>3
    <3> QED BY <2>1, <2>2, <3>1, AirSent
  <2>4. CASE m # n
    <3>1. air'[m] = air[m]
      BY <2>1, <2>4
    <3> QED BY <2>1, <2>2, <3>1, AirSame
  <2> QED BY <2>3, <2>4
<1> QED BY <1>1 DEF AirInv

\* A step that adds no session, and that leaves boot ids and lives alone.
LEMMA NodesKept ==
  ASSUME IInv, TypeOK', UNCHANGED <<life, boot>>, confirmed \subseteq confirmed',
         \A m \in Node : /\ cur'[m] \in {cur[m], NoSession}
                         /\ prev'[m] \in {prev[m], NoSession}
                         /\ pend'[m] \in {pend[m], NoSession}
                         /\ init'[m] <= clock'[m]
  PROVE  NodeInv'
<1>1. ASSUME NEW m \in Node PROVE GoodNode(m)'
  <2>1. GoodNode(m) /\ Peer(m) \in Node
    BY PeerFacts DEF IInv, NodeInv
  <2>2. GoodSession(m, cur[m])' /\ GoodSession(m, prev[m])'
    BY <2>1 DEF GoodNode, GoodSession
  <2>3. (pend[m] # NoSession => pend[m].life[m] = life[m] /\ pend[m].life[Peer(m)] <= boot[m])'
    BY <2>1 DEF GoodNode
  <2> QED BY <2>1, <2>2, <2>3 DEF GoodNode
<1> QED BY <1>1 DEF NodeInv

\* A node that forgets its peer, or starts again, is a good node; the other
\* one is not disturbed.
LEMMA NodesForgotten ==
  ASSUME IInv, TypeOK', NEW n \in Node, Forgotten(n), UNCHANGED <<clock, confirmed>>,
         \A m \in Node : life[m] <= life'[m] /\ (m # n => life'[m] = life[m])
  PROVE  NodeInv' /\ Calm
<1>1. TypeOK /\ NodeInv
  BY DEF IInv
<1>2. /\ init' = [init EXCEPT ![n] = 0] /\ cur' = [cur EXCEPT ![n] = NoSession]
      /\ prev' = [prev EXCEPT ![n] = NoSession] /\ pend' = [pend EXCEPT ![n] = NoSession]
      /\ boot' = [boot EXCEPT ![n] = 0]
  BY DEF Forgotten
<1>3. /\ init'[n] = 0 /\ cur'[n] = NoSession /\ prev'[n] = NoSession
      /\ pend'[n] = NoSession /\ boot'[n] = 0
  BY <1>1, <1>2 DEF TypeOK
<1>4. ASSUME NEW m \in Node, m # n
      PROVE  /\ init'[m] = init[m] /\ cur'[m] = cur[m] /\ prev'[m] = prev[m]
             /\ pend'[m] = pend[m] /\ boot'[m] = boot[m]
  BY <1>1, <1>2, <1>4 DEF TypeOK
<1>5. ASSUME NEW m \in Node PROVE GoodNode(m)'
  <2>1. /\ Peer(m) \in Node /\ clock'[m] \in Nat /\ life'[Peer(m)] \in Nat
        /\ life[Peer(m)] \in Nat /\ boot[m] \in Nat /\ clock[m] \in Nat
    <3>1. Peer(m) \in Node
      BY PeerFacts
    <3>2. /\ life[Peer(m)] \in Nat \ {0} /\ boot[m] \in Nat /\ clock[m] \in Nat
      BY <1>1, <3>1, NumberTypes
    <3>3. clock'[m] = clock[m] /\ life' \in [Node -> Nat \ {0}]
      BY DEF TypeOK
    <3> QED BY <3>1, <3>2, <3>3
  <2>2. CASE m = n
    <3>1. GoodSession(m, cur[m])' /\ GoodSession(m, prev[m])'
      BY <1>3, <2>2 DEF GoodSession
    <3> QED BY <1>3, <2>1, <2>2, <3>1 DEF GoodNode
  <2>3. CASE m # n
    <3>1. GoodNode(m) /\ life'[m] = life[m] /\ life[Peer(m)] <= life'[Peer(m)]
      BY <1>1, <2>1, <2>3 DEF NodeInv
    <3>2. GoodSession(m, cur[m])' /\ GoodSession(m, prev[m])'
      BY <1>4, <2>3, <3>1 DEF GoodNode, GoodSession
    <3> QED BY <1>4, <2>1, <2>3, <3>1, <3>2 DEF GoodNode
  <2> QED BY <2>2, <2>3
<1>6. Calm
  <2>1. ASSUME NEW m \in Node
        PROVE  /\ boot'[m] <= boot[m] /\ clock[m] <= clock'[m]
               /\ init'[m] = 0 \/ (init'[m] = init[m] /\ life'[m] = life[m])
    <3>1. boot[m] \in Nat /\ clock[m] \in Nat
      BY <1>1, NumberTypes
    <3>2. CASE m = n
      BY <1>3, <3>1, <3>2
    <3>3. CASE m # n
      BY <1>4, <3>1, <3>3
    <3> QED BY <3>2, <3>3
  <2> QED BY <2>1 DEF Calm
<1> QED BY <1>5, <1>6 DEF NodeInv

\* An end of a session that is not of an earlier life of the peer stays good.
LEMMA AfterBootGood ==
  ASSUME IInv, NEW n \in Node, NEW b \in Nat \ {0}, NEW s \in {cur[n], prev[n]}
  PROVE  AfterBoot(n, s, b) # NoSession =>
           /\ AfterBoot(n, s, b) = s
           /\ s.life[n] = life[n] /\ s.life[Peer(n)] = b /\ s \in confirmed
<1>1. s \in Sessions /\ GoodSession(n, s) /\ boot[n] \in Nat /\ Peer(n) \in Node
  BY NumberTypes, PeerFacts DEF IInv, NodeInv, GoodNode
<1>2. s # NoSession => s.life[Peer(n)] \in Nat \ {0}
  BY <1>1, SessionFacts DEF Sessions
<1> QED BY <1>1, <1>2 DEF AfterBoot, GoodSession

\* A node that meets the life of its peer in a frame, and answers it: the frames
\* still in the air are of no earlier life.
LEMMA MeetAir ==
  ASSUME IInv, TypeOK', NEW n \in Node, NEW g \in Frame, air[Peer(n)] # <<>>,
         boot' = [boot EXCEPT ![n] = LifeOf(Peer(n), Head(air[Peer(n)]))],
         UNCHANGED <<life, clock>>, confirmed \subseteq confirmed',
         \A m \in Node : init'[m] \in {init[m], 0},
         air' = Replied(n, g), LifeOf(n, g) = life[n], GoodFrame(n, g)'
  PROVE  AirInv'
<1> DEFINE q == Peer(n)
<1> DEFINE b == LifeOf(q, Head(air[q]))
<1>1. /\ q \in Node /\ q # n /\ Peer(q) = n /\ q = Peer(n)
      /\ \A m \in Node : m = n \/ m = q
  BY PeerFacts
<1> HIDE DEF q
<1>2. TypeOK /\ GoodAir(n) /\ GoodAir(q) /\ air[n] \in Seq(Frame) /\ air[q] \in Seq(Frame)
  BY <1>1, NumberTypes DEF IInv, AirInv
<1>3. /\ boot'[n] = b /\ boot'[q] = boot[q]
      /\ air'[n] = Append(air[n], g) /\ air'[q] = Tail(air[q]) /\ air[q] # <<>>
  BY <1>1, <1>2 DEF TypeOK, Replied
<1> HIDE DEF b
<1>4. ASSUME NEW m \in Node, NEW f \in Frame, GoodFrame(m, f),
             boot'[Peer(m)] <= LifeOf(m, f)
      PROVE  GoodFrame(m, f)'
  <2>1. /\ Peer(m) \in Node /\ init[m] \in Nat /\ init[Peer(m)] \in Nat
    BY <1>2, PeerFacts, NumberTypes
  <2>2. /\ init'[m] \in {init[m], 0} /\ init'[Peer(m)] \in {init[Peer(m)], 0}
    BY <2>1
  <2>3. f.kind = "init" => f.ts \in Nat \ {0}
    BY FrameFacts
  <2>4. f.kind = "resp" => f.s.ts \in Nat \ {0}
    BY FrameFacts, SessionFacts
  <2>5. f.kind = "init" => f.ts <= clock'[m] /\ (f.ts = init'[m] => f.boot = life'[m])
    BY <1>4, <2>2, <2>3 DEF GoodFrame
  <2>6. f.kind = "resp" => /\ f.s.ts <= clock'[Peer(m)]
                           /\ f.s.ts = init'[Peer(m)] => f.s.life[Peer(m)] = life'[Peer(m)]
    BY <1>4, <2>2, <2>4 DEF GoodFrame
  <2>7. LifeOf(m, f) <= life'[m] /\ (f.kind = "sealed" => f.s \in confirmed')
    BY <1>4 DEF GoodFrame
  <2> QED BY <1>4, <2>5, <2>6, <2>7 DEF GoodFrame, LifeOf
<1>5. GoodAir(n)'
  <2>1. \A f \in Frame : GoodFrame(n, f) => boot'[Peer(n)] <= LifeOf(n, f)
    BY <1>1, <1>3 DEF GoodFrame
  <2>2. \A f \in Frame : GoodFrame(n, f) => GoodFrame(n, f)'
    BY <1>4, <2>1
  <2>3. life[n] \in Nat
    BY <1>2, NumberTypes
  <2> QED BY <1>2, <1>3, <2>2, <2>3, AirSent
<1>6. GoodAir(q)'
  <2>1. \A f \in Frame : GoodFrame(q, f) /\ LifeOf(q, Head(air[q])) <= LifeOf(q, f)
                           => GoodFrame(q, f)'
    BY <1>1, <1>3, <1>4 DEF b
  <2> QED BY <1>1, <1>2, <1>3, <2>1, AirTaken
<1> QED BY <1>1, <1>5, <1>6 DEF AirInv

\* What is known of the frame a node receives.
LEMMA HeadFacts ==
  ASSUME IInv, NEW n \in Node, air[Peer(n)] # <<>>
  PROVE  /\ Head(air[Peer(n)]) \in Frame
         /\ GoodFrame(Peer(n), Head(air[Peer(n)]))
         /\ LifeOf(Peer(n), Head(air[Peer(n)])) \in Nat \ {0}
         /\ boot[n] <= LifeOf(Peer(n), Head(air[Peer(n)]))
         /\ LifeOf(Peer(n), Head(air[Peer(n)])) <= life[Peer(n)]
<1>1. Peer(n) \in Node /\ Peer(Peer(n)) = n /\ TypeOK /\ GoodAir(Peer(n))
  BY PeerFacts DEF IInv, AirInv
<1>2. air[Peer(n)] \in Seq(Frame)
  BY <1>1, NumberTypes
<1>3. /\ Head(air[Peer(n)]) = air[Peer(n)][1] /\ Head(air[Peer(n)]) \in Frame
      /\ 1 \in 1..Len(air[Peer(n)])
  BY <1>2, TailFacts
<1>4. GoodFrame(Peer(n), Head(air[Peer(n)]))
  BY <1>1, <1>3 DEF GoodAir
<1> QED BY <1>1, <1>3, <1>4, LifeOfType DEF GoodFrame

----------------------------------------------------------------------------
\* The steps, one lemma each.

LEMMA AnswerStep ==
  ASSUME IInv, TypeOK', NEW n \in Node, air[Peer(n)] # <<>>,
         NEW f \in Frame, f = Head(air[Peer(n)]),
         Answer(n, f), UNCHANGED <<life, clock>>
  PROVE  NodeInv' /\ AirInv'
<1> DEFINE q == Peer(n)
<1> DEFINE t == [by |-> q, ts |-> f.ts,
                 life |-> [m \in Node |-> IF m = n THEN BootId(n) ELSE f.boot]]
<1>1. /\ q \in Node /\ q # n /\ Peer(q) = n /\ q = Peer(n)
      /\ \A m \in Node : m = n \/ m = q
  BY PeerFacts
<1>2. /\ f \in Frame /\ GoodFrame(q, f) /\ LifeOf(q, f) \in Nat \ {0}
      /\ boot[n] <= LifeOf(q, f) /\ LifeOf(q, f) <= life[q]
  BY <1>1, HeadFacts
<1>3. /\ f.kind = "init" /\ NoteBoot(n, f.boot)
      /\ init' = [init EXCEPT ![n] = IF n > q THEN 0 ELSE init[n]]
      /\ Offer(n, t, AfterBoot(n, cur[n], f.boot), AfterBoot(n, prev[n], f.boot))
      /\ air' = Replied(n, [kind |-> "resp", s |-> t]) /\ UNCHANGED confirmed
  BY DEF Answer
<1>4. TypeOK /\ NodeInv
  BY DEF IInv
<1>5. /\ LifeOf(q, f) = f.boot /\ f.ts \in Nat \ {0} /\ f.boot \in Nat \ {0}
      /\ f.ts <= clock[q] /\ (f.ts = init[q] => f.boot = life[q])
  BY <1>1, <1>2, <1>3, FrameFacts DEF LifeOf, GoodFrame
<1>6. /\ life[n] \in Nat \ {0} /\ life[q] \in Nat \ {0} /\ init[n] \in Nat /\ init[q] \in Nat
      /\ boot[n] \in Nat /\ boot[q] \in Nat /\ clock[n] \in Nat
  BY <1>1, <1>4, NumberTypes
<1>7a. /\ t \in Session /\ t.ts = f.ts /\ t.life[n] = life[n] /\ t.life[q] = f.boot
  BY <1>1, <1>5, <1>6 DEF Session, BootId
<1>7b. PICK s \in Session : s = t
  BY <1>7a
<1>7c. s.ts = f.ts /\ s.life[n] = life[n] /\ s.life[q] = f.boot
  BY <1>7a, <1>7b
<1> DEFINE g == [kind |-> "resp", s |-> s]
<1>8. g \in Frame /\ g.kind = "resp" /\ g.s = s
  BY DEF Frame
<1>8a. /\ Offer(n, s, AfterBoot(n, cur[n], f.boot), AfterBoot(n, prev[n], f.boot))
       /\ air' = Replied(n, g)
  BY <1>3, <1>7b
<1> HIDE DEF q, t, g
<1>9. /\ boot' = [boot EXCEPT ![n] = f.boot] /\ boot'[n] = f.boot /\ boot'[q] = boot[q]
      /\ init'[q] = init[q] /\ init'[n] \in {init[n], 0}
  BY <1>1, <1>3, <1>4 DEF NoteBoot, TypeOK
<1>10. LifeOf(n, g) = life[n]
  BY <1>7c, <1>8 DEF LifeOf
<1>11. GoodFrame(n, g)'
  <2>1. boot'[q] <= life'[n]
    <3>1. boot[q] <= life[n]
      BY <1>1, <1>4 DEF NodeInv, GoodNode
    <3> QED BY <1>9, <3>1
  <2>2. g.s.ts <= clock'[q] /\ (g.s.ts = init'[q] => g.s.life[q] = life'[q])
    BY <1>5, <1>7c, <1>8, <1>9
  <2>3. LifeOf(n, g) <= life'[n] /\ boot'[q] <= LifeOf(n, g)
    BY <1>6, <1>10, <2>1
  <2> QED BY <1>1, <1>8, <2>2, <2>3 DEF GoodFrame, LifeOf
<1>12. AirInv'
  <2>1. \A m \in Node : init'[m] \in {init[m], 0}
    BY <1>1, <1>9
  <2>2. boot' = [boot EXCEPT ![n] = LifeOf(q, Head(air[q]))] /\ air[q] # <<>>
    BY <1>1, <1>5, <1>9
  <2> QED BY <1>1, <1>3, <1>8, <1>8a, <1>10, <1>11, <2>1, <2>2, MeetAir
<1>13. GoodNode(q)'
  <2>1. GoodNode(q)
    BY <1>1, <1>4 DEF NodeInv
  <2>2. /\ cur'[q] = cur[q] /\ prev'[q] = prev[q] /\ pend'[q] = pend[q]
    BY <1>1, <1>8a, <1>4 DEF Offer, TypeOK
  <2>3. GoodSession(q, cur[q])' /\ GoodSession(q, prev[q])'
    BY <1>3, <1>9, <2>1, <2>2 DEF GoodNode, GoodSession
  <2> QED BY <1>9, <2>1, <2>2, <2>3 DEF GoodNode
<1>14. GoodNode(n)'
  <2>1. /\ cur'[n] = AfterBoot(n, cur[n], f.boot) /\ prev'[n] = AfterBoot(n, prev[n], f.boot)
        /\ pend'[n] = s
    BY <1>8a, <1>4 DEF Offer, TypeOK
  <2>2. /\ cur'[n] # NoSession => /\ cur'[n].life[n] = life[n]
                                  /\ cur'[n].life[q] = f.boot /\ cur'[n] \in confirmed
        /\ prev'[n] # NoSession => /\ prev'[n].life[n] = life[n]
                                   /\ prev'[n].life[q] = f.boot /\ prev'[n] \in confirmed
    BY <1>1, <1>5, <2>1, AfterBootGood
  <2>3. GoodSession(n, cur[n])' /\ GoodSession(n, prev[n])'
    BY <1>1, <1>3, <1>9, <2>2 DEF GoodSession
  <2>4. init'[n] <= clock'[n]
    <3>1. init[n] <= clock[n]
      BY <1>4 DEF NodeInv, GoodNode
    <3> QED BY <1>6, <1>9, <3>1
  <2>5. boot'[n] <= life'[q] /\ pend'[n].life[n] = life'[n] /\ pend'[n].life[q] <= boot'[n]
    BY <1>2, <1>5, <1>7c, <1>9, <2>1
  <2> QED BY <1>1, <2>3, <2>4, <2>5 DEF GoodNode
<1> QED BY <1>1, <1>12, <1>13, <1>14 DEF NodeInv

LEMMA FinishStep ==
  ASSUME IInv, TypeOK', NEW n \in Node, air[Peer(n)] # <<>>,
         NEW f \in Frame, f = Head(air[Peer(n)]),
         Finish(n, f), UNCHANGED <<life, clock>>
  PROVE  NodeInv' /\ AirInv'
<1> DEFINE q == Peer(n)
<1> DEFINE b == f.s.life[q]
<1> DEFINE g == Sealed(f.s)
<1>1. /\ q \in Node /\ q # n /\ Peer(q) = n /\ q = Peer(n)
      /\ \A m \in Node : m = n \/ m = q
  BY PeerFacts
<1>2. /\ GoodFrame(q, f) /\ LifeOf(q, f) \in Nat \ {0}
      /\ boot[n] <= LifeOf(q, f) /\ LifeOf(q, f) <= life[q]
  BY SMTT(30), <1>1, HeadFacts
<1>3. /\ f.kind = "resp" /\ f.s.ts = init[n]
      /\ NoteBoot(n, b) /\ Promote(n, f.s, AfterBoot(n, cur[n], b), AfterBoot(n, prev[n], b))
      /\ init' = [init EXCEPT ![n] = 0] /\ confirmed' = confirmed \cup {f.s}
      /\ air' = Replied(n, g) /\ pend' = pend
  BY DEF Finish
<1>4. TypeOK /\ NodeInv
  BY DEF IInv
<1>5. f.s \in Session /\ LifeOf(q, f) = b /\ b \in Nat \ {0} /\ f.s.life[n] = life[n]
  BY <1>1, <1>2, <1>3, FrameFacts DEF LifeOf, GoodFrame
<1>6. /\ life[n] \in Nat \ {0} /\ life[q] \in Nat \ {0} /\ init[q] \in Nat
      /\ boot[n] \in Nat /\ boot[q] \in Nat /\ clock[n] \in Nat
      /\ pend[n] \in Sessions
  BY <1>1, <1>4, NumberTypes
<1>7. g \in Frame /\ g.kind = "sealed" /\ g.s = f.s
  BY <1>5 DEF Frame, Sealed
<1> HIDE DEF q, b, g
<1>8. /\ boot' = [boot EXCEPT ![n] = b] /\ boot'[n] = b /\ boot'[q] = boot[q]
      /\ init'[q] = init[q] /\ init'[n] = 0
  BY <1>1, <1>3, <1>4 DEF NoteBoot, TypeOK
<1>9. LifeOf(n, g) = life[n]
  BY <1>5, <1>7 DEF LifeOf
<1>10. GoodFrame(n, g)'
  <2>1. boot[q] <= life[n]
    BY <1>1, <1>4 DEF NodeInv, GoodNode
  <2>2. LifeOf(n, g) <= life'[n] /\ boot'[q] <= LifeOf(n, g)
    BY <1>6, <1>8, <1>9, <2>1
  <2>3. g.s \in confirmed'
    BY <1>3, <1>7
  <2> QED BY <1>1, <1>7, <2>2, <2>3 DEF GoodFrame, LifeOf
<1>11. AirInv'
  <2>1. \A m \in Node : init'[m] \in {init[m], 0}
    BY <1>1, <1>8
  <2>2. boot' = [boot EXCEPT ![n] = LifeOf(q, Head(air[q]))] /\ confirmed \subseteq confirmed'
    BY <1>1, <1>3, <1>5, <1>8
  <2> QED BY <1>1, <1>3, <1>7, <1>9, <1>10, <2>1, <2>2, MeetAir
<1>12. GoodNode(q)'
  <2>1. GoodNode(q)
    BY <1>1, <1>4 DEF NodeInv
  <2>2. /\ cur'[q] = cur[q] /\ prev'[q] = prev[q] /\ pend'[q] = pend[q]
    BY <1>1, <1>3, <1>4 DEF Promote, TypeOK
  <2>3. GoodSession(q, cur[q])' /\ GoodSession(q, prev[q])'
    BY <1>3, <1>8, <2>1, <2>2 DEF GoodNode, GoodSession
  <2> QED BY <1>8, <2>1, <2>2, <2>3 DEF GoodNode
<1>13. GoodNode(n)'
  <2>1. /\ cur'[n] = f.s /\ pend'[n] = pend[n]
        /\ prev'[n] \in {AfterBoot(n, cur[n], b), AfterBoot(n, prev[n], b)}
    BY <1>3, <1>4 DEF Promote, TypeOK
  <2>2. prev'[n] # NoSession => /\ prev'[n].life[n] = life[n]
                                /\ prev'[n].life[q] = b /\ prev'[n] \in confirmed
    BY <1>1, <1>5, <2>1, AfterBootGood
  <2>3. GoodSession(n, cur[n])'
    BY <1>1, <1>3, <1>5, <1>8, <2>1 DEF GoodSession, b
  <2>4. GoodSession(n, prev[n])'
    BY <1>1, <1>3, <1>8, <2>2 DEF GoodSession
  <2>5. pend'[n] # NoSession => pend'[n].life[n] = life'[n] /\ pend'[n].life[q] <= boot'[n]
    <3>1. pend[n] # NoSession => /\ pend[n].life[n] = life[n]
                                 /\ pend[n].life[q] <= boot[n] /\ pend[n].life[q] \in Nat
      BY <1>1, <1>4, <1>6, SessionFacts DEF NodeInv, GoodNode, Sessions
    <3> QED BY <1>2, <1>5, <1>6, <1>8, <2>1, <3>1
  <2>6. init'[n] <= clock'[n] /\ boot'[n] <= life'[q]
    BY <1>2, <1>5, <1>6, <1>8
  <2> QED BY <1>1, <2>3, <2>4, <2>5, <2>6 DEF GoodNode
<1> QED BY <1>1, <1>11, <1>12, <1>13 DEF NodeInv

\* The first frame on a pending session is of the life the session was made in,
\* which is then the life the node knows of: any other frame would have come first.
LEMMA PendingIsKnown ==
  ASSUME IInv, NEW n \in Node, air[Peer(n)] # <<>>,
         NEW f \in Frame, f = Head(air[Peer(n)]), f.kind = "sealed",
         Holds(n, f.s)
  PROVE  /\ f.s \in Session /\ f.s \in confirmed
         /\ f.s.life[n] = life[n] /\ f.s.life[Peer(n)] = boot[n]
<1> DEFINE q == Peer(n)
<1>1. q \in Node /\ Peer(q) = n /\ q = Peer(n) /\ GoodNode(n) /\ TypeOK
  BY PeerFacts DEF IInv, NodeInv
<1>2. GoodFrame(q, f) /\ boot[n] <= LifeOf(q, f)
  BY <1>1, HeadFacts
<1> HIDE DEF q
<1>3. /\ f.s \in Session /\ f.s \in confirmed /\ LifeOf(q, f) = f.s.life[q]
      /\ f.s.life[q] \in Nat
  BY <1>1, <1>2, FrameFacts, SessionFacts DEF GoodFrame, LifeOf
<1>4. f.s.life[n] = life[n] /\ f.s.life[q] <= boot[n]
  <2>1. boot[n] \in Nat
    BY <1>1, NumberTypes
  <2>2. CASE f.s = pend[n]
    BY <1>1, <2>2 DEF Holds, GoodNode
  <2>3. CASE f.s \in {cur[n], prev[n]}
    BY <1>1, <2>1, <2>3 DEF Holds, GoodNode, GoodSession
  <2> QED BY <2>2, <2>3 DEF Holds
<1> QED
  <2>1. boot[n] \in Nat
    BY <1>1, NumberTypes
  <2> QED BY <1>1, <1>2, <1>3, <1>4, <2>1

LEMMA OpenStep ==
  ASSUME IInv, TypeOK', NEW n \in Node, air[Peer(n)] # <<>>,
         NEW f \in Frame, f = Head(air[Peer(n)]),
         Open(n, f), UNCHANGED <<life, clock>>
  PROVE  NodeInv' /\ AirInv'
<1>1. /\ f.kind = "sealed" /\ Holds(n, f.s)
      /\ air' = Taken(n) /\ UNCHANGED <<init, boot, confirmed>>
  BY DEF Open
<1>2. TypeOK /\ NodeInv /\ Peer(n) \in Node
  BY PeerFacts DEF IInv
<1>3. Calm
  <2>1. \A m \in Node : boot[m] \in Nat /\ life[m] \in Nat /\ clock[m] \in Nat
    BY <1>2, NumberTypes
  <2> QED BY <1>1, <2>1 DEF Calm
<1>4. AirInv'
  BY <1>1, <1>2, <1>3, CalmTaken DEF Taken
<1>5. CASE f.s = pend[n]
  <2>1. Promote(n, f.s, cur[n], prev[n]) /\ pend' = [pend EXCEPT ![n] = NoSession]
    BY <1>5 DEF Open
  <2>2. /\ cur'[n] = f.s /\ prev'[n] \in {cur[n], prev[n]} /\ pend'[n] = NoSession
        /\ \A m \in Node : m # n => /\ cur'[m] = cur[m] /\ prev'[m] = prev[m]
                                    /\ pend'[m] = pend[m]
    BY <1>2, <2>1 DEF Promote, TypeOK
  <2>3. /\ f.s \in confirmed /\ f.s.life[n] = life[n] /\ f.s.life[Peer(n)] = boot[n]
    BY <1>1, PendingIsKnown
  <2>4. ASSUME NEW m \in Node PROVE GoodNode(m)'
    <3>1. GoodNode(m)
      BY <1>2 DEF NodeInv
    <3>2. GoodSession(m, cur[m])' /\ GoodSession(m, prev[m])'
      <4>1. CASE m = n
        BY <1>1, <2>2, <2>3, <3>1, <4>1 DEF GoodNode, GoodSession
      <4>2. CASE m # n
        BY <1>1, <2>2, <3>1, <4>2 DEF GoodNode, GoodSession
      <4> QED BY <4>1, <4>2
    <3>3. (pend[m] # NoSession => pend[m].life[m] = life[m] /\ pend[m].life[Peer(m)] <= boot[m])'
      BY <1>1, <2>2, <3>1 DEF GoodNode
    <3> QED BY <1>1, <3>1, <3>2, <3>3 DEF GoodNode
  <2> QED BY <1>4, <2>4 DEF NodeInv
<1>6. CASE f.s # pend[n]
  <2>1. UNCHANGED <<cur, prev, pend>>
    BY <1>6 DEF Open
  <2>2. \A m \in Node : init'[m] <= clock'[m]
    BY <1>1, <1>2 DEF NodeInv, GoodNode
  <2> QED BY <1>1, <1>4, <2>1, <2>2, NodesKept
<1> QED BY <1>5, <1>6

LEMMA StartStep ==
  ASSUME IInv, TypeOK', NEW n \in Node, Start(n)
  PROVE  NodeInv' /\ AirInv'
<1> DEFINE q == Peer(n)
<1>1. /\ q \in Node /\ q # n /\ Peer(q) = n /\ q = Peer(n)
      /\ \A m \in Node : m = n \/ m = q
  BY PeerFacts
<1>2. TypeOK /\ NodeInv /\ AirInv
  BY DEF IInv
<1>3. /\ clock[n] \in Nat /\ clock[q] \in Nat /\ life[n] \in Nat \ {0} /\ boot[q] \in Nat
  BY <1>1, <1>2, NumberTypes
<1>4. PICK c \in Nat, l \in Nat \ {0} : c = clock[n] /\ l = life[n]
  BY <1>3
<1> DEFINE g == [kind |-> "init", ts |-> c + 1, boot |-> l]
<1>5. /\ clock' = [clock EXCEPT ![n] = c + 1] /\ init' = [init EXCEPT ![n] = c + 1]
      /\ air' = [air EXCEPT ![n] = Append(air[n], g)]
      /\ UNCHANGED <<life, cur, prev, pend, boot, confirmed>>
  BY <1>4 DEF Start, NextStamp, BootId
<1>6. g \in Frame /\ g.kind = "init" /\ g.ts = c + 1 /\ g.boot = l
  BY DEF Frame
<1> HIDE DEF q, g
<1>7. /\ clock'[n] = c + 1 /\ init'[n] = c + 1 /\ clock'[q] = clock[q] /\ init'[q] = init[q]
      /\ air'[n] = Append(air[n], g) /\ air'[q] = air[q]
  BY <1>1, <1>2, <1>5 DEF TypeOK
<1>8. NodeInv'
  <2>1. \A m \in Node : init'[m] <= clock'[m]
    <3>1. init[q] <= clock[q]
      BY <1>1, <1>2 DEF NodeInv, GoodNode
    <3> QED BY <1>1, <1>7, <3>1
  <2> QED BY <1>5, <2>1, NodesKept
<1>9. ASSUME NEW f \in Frame, GoodFrame(n, f) PROVE GoodFrame(n, f)'
  <2>1. f.kind = "init" => f.ts \in Nat
    BY FrameFacts
  <2>2. f.kind = "init" => f.ts <= clock'[n] /\ f.ts # init'[n]
    BY <1>4, <1>7, <1>9, <2>1 DEF GoodFrame
  <2> QED BY <1>1, <1>5, <1>7, <1>9, <2>2 DEF GoodFrame, LifeOf
<1>10. ASSUME NEW f \in Frame, GoodFrame(q, f) PROVE GoodFrame(q, f)'
  <2>1. f.kind = "resp" => f.s.ts \in Nat
    BY FrameFacts, SessionFacts
  <2>2. f.kind = "resp" => f.s.ts <= clock'[n] /\ f.s.ts # init'[n]
    BY <1>1, <1>4, <1>7, <1>10, <2>1 DEF GoodFrame
  <2> QED BY <1>1, <1>5, <1>7, <1>10, <2>2 DEF GoodFrame, LifeOf
<1>11. GoodFrame(n, g)'
  <2>1. boot[q] <= life[n]
    BY <1>1, <1>2 DEF NodeInv, GoodNode
  <2> QED BY <1>1, <1>3, <1>4, <1>5, <1>6, <1>7, <2>1 DEF GoodFrame, LifeOf
<1>12. GoodAir(n)'
  <2>1. air[n] \in Seq(Frame) /\ GoodAir(n) /\ life[n] \in Nat /\ LifeOf(n, g) = life[n]
    BY <1>2, <1>4, <1>6, NumberTypes DEF AirInv, LifeOf
  <2> QED BY <1>6, <1>7, <1>9, <1>11, <2>1, AirSent
<1>13. GoodAir(q)'
  <2>1. air[q] \in Seq(Frame) /\ GoodAir(q)
    BY <1>1, <1>2, NumberTypes DEF AirInv
  <2> QED BY <1>1, <1>7, <1>10, <2>1, AirSame
<1> QED BY <1>1, <1>8, <1>12, <1>13 DEF AirInv

LEMMA TransmitStep ==
  ASSUME IInv, TypeOK', NEW n \in Node, Transmit(n)
  PROVE  NodeInv' /\ AirInv'
<1>1. TypeOK /\ GoodNode(n) /\ Peer(n) \in Node
  BY PeerFacts DEF IInv, NodeInv
<1>2. cur[n] \in Session
  BY <1>1, NumberTypes DEF Transmit, Sessions
<1>3. PICK s \in Session : s = cur[n]
  BY <1>2
<1> DEFINE g == Sealed(s)
<1>4. g \in Frame /\ g.kind = "sealed" /\ g.s = s
  BY DEF Sealed, Frame
<1>5. /\ air' = [air EXCEPT ![n] = Append(air[n], g)]
      /\ UNCHANGED <<life, clock, init, cur, prev, pend, boot, confirmed>>
  BY <1>3 DEF Transmit
<1> HIDE DEF g
<1>6. /\ s.life[n] = life[n] /\ s \in confirmed
  BY <1>1, <1>3, NoSessionFacts DEF GoodNode, GoodSession
<1>7. \A m \in Node : boot[m] \in Nat /\ life[m] \in Nat /\ clock[m] \in Nat
  BY <1>1, NumberTypes
<1>8. LifeOf(n, g) = life[n]
  BY <1>4, <1>6 DEF LifeOf
<1>9. GoodFrame(n, g)
  <2>1. boot[Peer(n)] <= life[n]
    BY <1>1, PeerFacts DEF IInv, NodeInv, GoodNode
  <2> QED BY <1>1, <1>4, <1>6, <1>7, <1>8, <2>1 DEF GoodFrame
<1>10. Calm
  BY <1>5, <1>7 DEF Calm
<1>11. AirInv'
  BY <1>4, <1>5, <1>8, <1>9, <1>10, CalmSent
<1>12. NodeInv'
  <2>1. \A m \in Node : init'[m] <= clock'[m]
    BY <1>5 DEF IInv, NodeInv, GoodNode
  <2> QED BY <1>5, <2>1, NodesKept
<1> QED BY <1>11, <1>12

\* A step that at most drops sessions, with or without taking a frame.
LEMMA QuietStep ==
  ASSUME IInv, TypeOK', UNCHANGED <<life, clock, init, boot, confirmed>>,
         \A m \in Node : /\ cur'[m] \in {cur[m], NoSession}
                         /\ prev'[m] \in {prev[m], NoSession}
                         /\ pend'[m] \in {pend[m], NoSession},
         \/ UNCHANGED air
         \/ \E n \in Node : air[n] # <<>> /\ air' = [air EXCEPT ![n] = Tail(air[n])]
  PROVE  NodeInv' /\ AirInv'
<1>1. TypeOK
  BY DEF IInv
<1>2. \A m \in Node : boot[m] \in Nat /\ life[m] \in Nat /\ clock[m] \in Nat
  BY <1>1, NumberTypes
<1>3. Calm
  BY <1>2 DEF Calm
<1>4. AirInv'
  BY <1>3, CalmAir, CalmTaken
<1>5. \A m \in Node : init'[m] <= clock'[m]
  BY DEF IInv, NodeInv, GoodNode
<1> QED BY <1>4, <1>5, NodesKept

LEMMA InitIInv == Init => IInv
<1> SUFFICES ASSUME Init PROVE IInv
  OBVIOUS
<1>1. TypeOK
  BY InitType
<1>2. ASSUME NEW n \in Node PROVE GoodNode(n) /\ GoodAir(n)
  <2>1. Peer(n) \in Node
    BY PeerFacts
  <2> QED BY <2>1 DEF Init, GoodNode, GoodSession, GoodAir, Ordered
<1> QED BY <1>1, <1>2 DEF IInv, NodeInv, AirInv

LEMMA Inductive ==
  ASSUME IInv, [Next]_vars
  PROVE  IInv'
<1>1. TypeOK
  BY DEF IInv
<1>2. TypeOK'
  BY <1>1, TypeStep
<1>3. SUFFICES NodeInv' /\ AirInv'
  BY <1>2 DEF IInv
<1>4. ASSUME NEW n \in Node, Receive(n) PROVE NodeInv' /\ AirInv'
  <2>1. Peer(n) \in Node /\ air[Peer(n)] # <<>> /\ Head(air[Peer(n)]) \in Frame
    BY <1>1, <1>4, PeerFacts, ReceiveTypes DEF Receive
  <2>2. PICK f \in Frame : f = Head(air[Peer(n)])
    BY <2>1
  <2>3. Handle(n, f) /\ UNCHANGED <<life, clock>>
    BY <1>4, <2>2 DEF Receive
  <2>4. CASE Miss(n, f)
    BY <1>2, <2>1, <2>3, <2>4, QuietStep DEF Miss, Taken
  <2>5. CASE Ignore(n, f)
    BY <1>2, <2>1, <2>3, <2>5, QuietStep DEF Ignore, Taken
  <2> QED
    BY <1>2, <2>1, <2>2, <2>3, <2>4, <2>5, AnswerStep, FinishStep, OpenStep DEF Handle
<1>5. ASSUME NEW n \in Node,
             \/ RetryTimeout(n) \/ RekeyTime(n) \/ HoldoffTimeout(n)
             \/ Approve(n) \/ Pause(n) \/ Resume(n)
      PROVE  NodeInv' /\ AirInv'
  <2>1. UNCHANGED <<life, clock, init, cur, prev, pend, boot, air, confirmed>>
    BY <1>5 DEF RetryTimeout, RekeyTime, HoldoffTimeout, Approve, Pause, Resume
  <2> QED BY <1>2, <2>1, QuietStep
<1>6. ASSUME NEW n \in Node, PendingTimeout(n) \/ PrevTimeout(n) \/ Age(n)
      PROVE  NodeInv' /\ AirInv'
  <2>1. UNCHANGED <<life, clock, init, boot, air, confirmed>>
    BY <1>6 DEF PendingTimeout, PrevTimeout, Age
  <2>2. \A m \in Node : /\ cur'[m] \in {cur[m], NoSession}
                        /\ prev'[m] \in {prev[m], NoSession}
                        /\ pend'[m] \in {pend[m], NoSession}
    <3>1. CASE PendingTimeout(n)
      BY <1>1, <3>1 DEF PendingTimeout, TypeOK
    <3>2. CASE PrevTimeout(n)
      BY <1>1, <3>2 DEF PrevTimeout, TypeOK
    <3>3. CASE Age(n)
      <4>1. /\ UNCHANGED <<prev, pend>>
            /\ \/ UNCHANGED cur
               \/ cur' = [cur EXCEPT ![n] = NoSession]
        <5>1. CASE due[n]
          BY <3>3, <5>1 DEF Age
        <5>2. CASE ~due[n]
          BY <3>3, <5>2 DEF Age
        <5> QED BY <5>1, <5>2
      <4> QED BY <1>1, <4>1 DEF TypeOK
    <3> QED BY <1>6, <3>1, <3>2, <3>3
  <2> QED BY <1>2, <2>1, <2>2, QuietStep
<1>7. ASSUME NEW n \in Node, Lose(n) PROVE NodeInv' /\ AirInv'
  BY <1>2, <1>7, QuietStep DEF Lose
<1>8. ASSUME NEW n \in Node, Restart(n) \/ Revoke(n) PROVE NodeInv' /\ AirInv'
  <2>1. Forgotten(n) /\ UNCHANGED <<clock, air, confirmed>>
    BY <1>8 DEF Restart, Revoke
  <2>2. \A m \in Node : life[m] <= life'[m] /\ (m # n => life'[m] = life[m])
    <3>1. \A m \in Node : life[m] \in Nat
      BY <1>1, NumberTypes
    <3> QED BY SMTT(30), <1>1, <1>8, <3>1 DEF Restart, Revoke, TypeOK
  <2>3. NodeInv' /\ Calm
    BY <1>2, <2>1, <2>2, NodesForgotten
  <2> QED BY <1>2, <2>1, <2>3, CalmAir
<1>9. CASE UNCHANGED vars
  BY <1>2, <1>9, QuietStep DEF vars
<1> QED
  BY <1>2, <1>4, <1>5, <1>6, <1>7, <1>8, <1>9, StartStep, TransmitStep
  DEF Next, Tick, Expire, Return

----------------------------------------------------------------------------
\* The safety properties.

\* No node transmits on a session that its initiator has not finished.
THEOREM OnlyConfirmed == Spec => []ConfirmedByInitiator
<1>1. IInv => ConfirmedByInitiator
  BY DEF IInv, NodeInv, GoodNode, GoodSession, ConfirmedByInitiator
<1> QED BY <1>1, InitIInv, Inductive, PTL DEF Spec

\* The sessions in use are of the lives their two ends know of.
THEOREM LivesMatch == Spec => []BootMatches
<1>1. IInv => BootMatches
  BY DEF IInv, NodeInv, GoodNode, GoodSession, BootMatches
<1> QED BY <1>1, InitIInv, Inductive, PTL DEF Spec

\* A frame that a node opens is of the life of its peer it knows of.
THEOREM RestartAnnounced == Spec => []OpensKnownLife
<1>1. ASSUME IInv PROVE OpensKnownLife
  <2>1. SUFFICES ASSUME NEW n \in Node, air[Peer(n)] # <<>>,
                        Head(air[Peer(n)]).kind = "sealed",
                        Holds(n, Head(air[Peer(n)]).s)
                 PROVE  Head(air[Peer(n)]).s.life[Peer(n)] = boot[n]
    BY DEF OpensKnownLife
  <2>2. PICK f \in Frame : f = Head(air[Peer(n)])
    BY <1>1, <2>1, HeadFacts
  <2> QED BY <1>1, <2>1, <2>2, PendingIsKnown
<1> QED BY <1>1, InitIInv, Inductive, PTL DEF Spec

\* A step never takes a life of the peer for new that is not (_check_boot).
LEMMA BootStep ==
  ASSUME IInv, [Next]_vars, NEW n \in Node, boot[n] # 0, boot'[n] # boot[n]
  PROVE  boot'[n] = 0 \/ (boot'[n] > boot[n] /\ boot'[n] <= life[Peer(n)])
<1>1. TypeOK /\ TypeOK'
  BY TypeStep DEF IInv
<1>2. ASSUME NEW m \in Node, Receive(m)
      PROVE  boot'[n] > boot[n] /\ boot'[n] <= life[Peer(n)]
  <2>1. air[Peer(m)] # <<>> /\ Peer(m) \in Node
    BY <1>2, PeerFacts DEF Receive
  <2>2. PICK f \in Frame : f = Head(air[Peer(m)])
    BY <2>1, HeadFacts
  <2>3. Handle(m, f)
    BY <1>2, <2>2 DEF Receive
  <2>4. /\ boot[m] <= LifeOf(Peer(m), f) /\ LifeOf(Peer(m), f) <= life[Peer(m)]
        /\ LifeOf(Peer(m), f) \in Nat
    BY <2>1, <2>2, HeadFacts
  <2>5. boot' = [boot EXCEPT ![m] = LifeOf(Peer(m), f)]
    <3>1. CASE Answer(m, f)
      BY <3>1 DEF Answer, NoteBoot, LifeOf
    <3>2. CASE Finish(m, f)
      BY <3>2 DEF Finish, NoteBoot, LifeOf
    <3>3. UNCHANGED boot => FALSE
      OBVIOUS
    <3> QED BY <2>3, <3>1, <3>2, <3>3 DEF Handle, Open, Miss, Ignore
  <2>6. m = n /\ boot'[n] = LifeOf(Peer(n), f) /\ boot[n] \in Nat
    BY <1>1, <2>5, NumberTypes DEF TypeOK
  <2> QED BY <2>4, <2>6
<1>3. ASSUME NEW m \in Node, Restart(m) \/ Revoke(m) PROVE boot'[n] = 0
  <2>1. boot' = [boot EXCEPT ![m] = 0]
    BY <1>3 DEF Restart, Revoke, Forgotten
  <2>2. boot \in [Node -> Nat]
    BY <1>1 DEF TypeOK
  <2> QED BY <2>1, <2>2
<1>4. UNCHANGED boot => FALSE
  OBVIOUS
<1>5. CASE UNCHANGED vars
  BY <1>4, <1>5 DEF vars
<1>6. ASSUME NEW m \in Node, Tick(m) \/ Expire(m) \/ PrevTimeout(m) PROVE UNCHANGED boot
  BY <1>6 DEF Tick, Start, RetryTimeout, RekeyTime, Expire, HoldoffTimeout,
              PendingTimeout, PrevTimeout
<1>7. ASSUME NEW m \in Node,
             Age(m) \/ Transmit(m) \/ Lose(m) \/ Pause(m) \/ Return(m)
      PROVE  UNCHANGED boot
  BY <1>7 DEF Age, Transmit, Lose, Pause, Return, Approve, Resume
<1> QED BY <1>2, <1>3, <1>4, <1>5, <1>6, <1>7 DEF Next

\* The link is reset for a restart only when the peer has restarted.
THEOREM ResetsAreReal == Spec => ResetOnlyOnRestart
<1>1. IInv /\ [Next]_vars =>
        [\A n \in Node : boot[n] # 0 /\ boot'[n] # boot[n] =>
           boot'[n] = 0 \/ (boot'[n] > boot[n] /\ boot'[n] <= life[Peer(n)])]_vars
  BY BootStep
<1> QED BY <1>1, InitIInv, Inductive, PTL DEF Spec, ResetOnlyOnRestart
=============================================================================
