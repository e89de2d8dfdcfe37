----------------------------- MODULE CsmaProofs -----------------------------
(***************************************************************************)
(* Proofs about Csma for any number of stations, any load and any timing.  *)
(***************************************************************************)
EXTENDS Csma, TLAPS, SequenceTheorems, FiniteSetTheorems

----------------------------------------------------------------------------
\* The queues of the medium access.

LEMMA AppendFacts ==
  ASSUME NEW S, NEW q \in Seq(S), NEW x \in S
  PROVE  /\ Append(q, x) \in Seq(S) /\ Len(q) \in Nat
         /\ Len(Append(q, x)) = Len(q) + 1
         /\ \A i \in 1..Len(q) : Append(q, x)[i] = q[i]
         /\ Append(q, x)[Len(q) + 1] = x
BY AppendProperties, LenProperties

LEMMA TailFacts ==
  ASSUME NEW S, NEW q \in Seq(S), q # << >>
  PROVE  /\ Tail(q) \in Seq(S) /\ Len(q) \in Nat \ {0}
         /\ Len(Tail(q)) = Len(q) - 1
         /\ \A i \in 1..Len(Tail(q)) : Tail(q)[i] = q[i + 1]
         /\ Head(q) = q[1] /\ Head(q) \in S
BY HeadTailProperties, LenProperties, EmptySeq

----------------------------------------------------------------------------
(***************************************************************************)
(* One run of the medium access.                                           *)
(***************************************************************************)
MacOK(m) == m \in MacType /\ m.backoff < m.cw

LEMMA CwBounds ==
  CwMin \in Nat \ {0} /\ CwMax \in Nat /\ CwMin <= CwMax /\ StrobeMax \in Nat \ {0}
BY CsmaAssumption

LEMMA RanMac ==
  ASSUME NEW m \in MacType, NEW out
  PROVE  /\ Ran(m, out).mac \in MacType /\ Ran(m, out).out = out
         /\ Ran(m, out).mac.qh = m.qh /\ Ran(m, out).mac.ql = m.ql
         /\ Ran(m, out).mac.backoff = m.backoff /\ Ran(m, out).mac.cw = m.cw
         /\ Ran(m, out).mac.busy = m.busy
<1>1. 0 \in 0..StrobeMax
  BY CwBounds
<1> QED BY <1>1 DEF MacType, Ran

LEMMA NoteRxMac ==
  ASSUME NEW m, MacOK(m), NEW frame \in Frames
  PROVE  /\ MacOK(NoteRx(m, frame))
         /\ NoteRx(m, frame).qh = m.qh /\ NoteRx(m, frame).ql = m.ql
         /\ NoteRx(m, frame).busy = m.busy
<1>1. Sifs + AckAir \in 0..(Sifs + AckAir) /\ 0 \in 0..Difs
  BY CsmaAssumption
<1> QED BY <1>1 DEF MacOK, MacType, NoteRx

LEMMA EnqueueMac ==
  ASSUME NEW m, MacOK(m)
  PROVE  /\ \A x \in AckFrames :
              /\ MacOK(Enqueue(m, x)) /\ Enqueue(m, x).busy = m.busy
              /\ Enqueue(m, x).qh = Append(m.qh, x) /\ Enqueue(m, x).ql = m.ql
         /\ \A x \in DataFrames :
              /\ MacOK(Enqueue(m, x)) /\ Enqueue(m, x).busy = m.busy
              /\ Enqueue(m, x).ql = Append(m.ql, x) /\ Enqueue(m, x).qh = m.qh
<1>1. ASSUME NEW x \in AckFrames
      PROVE  /\ MacOK(Enqueue(m, x)) /\ Enqueue(m, x).busy = m.busy
             /\ Enqueue(m, x).qh = Append(m.qh, x) /\ Enqueue(m, x).ql = m.ql
  <2>1. x.kind = "ack" /\ Append(m.qh, x) \in Seq(AckFrames)
    BY AppendFacts DEF AckFrames, MacOK, MacType
  <2> QED BY <2>1, CsmaAssumption DEF MacOK, MacType, Enqueue
<1>2. ASSUME NEW x \in DataFrames
      PROVE  /\ MacOK(Enqueue(m, x)) /\ Enqueue(m, x).busy = m.busy
             /\ Enqueue(m, x).ql = Append(m.ql, x) /\ Enqueue(m, x).qh = m.qh
  <2>1. x.kind # "ack" /\ x.retry \in BOOLEAN /\ Append(m.ql, x) \in Seq(DataFrames)
    BY AppendFacts DEF DataFrames, MacOK, MacType
  <2>2. CASE ~x.retry
    BY <2>1, <2>2, CsmaAssumption DEF MacOK, MacType, Enqueue
  <2>3. CASE x.retry
    <3>1. -1 < (IF 2 * m.cw > CwMax THEN CwMax ELSE 2 * m.cw)
          /\ (IF 2 * m.cw > CwMax THEN CwMax ELSE 2 * m.cw) \in CwMin..CwMax
      BY CsmaAssumption DEF MacOK, MacType
    <3> QED BY <2>1, <2>3, <3>1 DEF MacOK, MacType, Enqueue, None
  <2> QED BY <2>1, <2>2, <2>3
<1> QED BY <1>1, <1>2

\* What a run clears comes from the head of a queue, and only with the medium
\* sensed idle.
LEMMA OnTickMac ==
  ASSUME NEW m, MacOK(m), NEW sending \in BOOLEAN, NEW t \in OnTick(m, sending)
  PROVE  /\ MacOK(t.mac) /\ t.mac.busy = m.busy
         /\ \/ t.out = NoFrame /\ t.mac.qh = m.qh /\ t.mac.ql = m.ql
            \/ /\ ~sending /\ ~m.busy /\ m.qh # << >> /\ t.out = Head(m.qh)
               /\ t.mac.qh = Tail(m.qh) /\ t.mac.ql = m.ql
            \/ /\ ~sending /\ ~m.busy /\ m.ql # << >> /\ t.out = Head(m.ql)
               /\ t.mac.ql = Tail(m.ql) /\ t.mac.qh = m.qh
<1> DEFINE Cleared(u) ==
             /\ MacOK(u.mac) /\ u.mac.busy = m.busy
             /\ \/ u.out = NoFrame /\ u.mac.qh = m.qh /\ u.mac.ql = m.ql
                \/ /\ ~sending /\ ~m.busy /\ m.qh # << >> /\ u.out = Head(m.qh)
                   /\ u.mac.qh = Tail(m.qh) /\ u.mac.ql = m.ql
                \/ /\ ~sending /\ ~m.busy /\ m.ql # << >> /\ u.out = Head(m.ql)
                   /\ u.mac.ql = Tail(m.ql) /\ u.mac.qh = m.qh
<1>0. m \in MacType /\ m.backoff < m.cw
  BY DEF MacOK
<1>1. Cleared(Ran(m, NoFrame))
  BY RanMac DEF MacOK
<1>2. Cleared(Ran([m EXCEPT !.backoff = None], NoFrame))
  <2> DEFINE n == [m EXCEPT !.backoff = None]
  <2>1. n \in MacType /\ n.backoff = None /\ n.cw = m.cw /\ n.busy = m.busy
        /\ n.qh = m.qh /\ n.ql = m.ql
    BY <1>0 DEF MacType
  <2>2. None < m.cw
    BY <1>0, CwBounds DEF MacType, None
  <2> HIDE DEF n
  <2>4. Cleared(Ran(n, NoFrame))
    BY <2>1, <2>2, RanMac DEF MacOK
  <2> QED BY <2>4 DEF n
<1>3. ASSUME ~sending, m.qh # << >>, Idle(m)
      PROVE  Cleared(Ran([m EXCEPT !.qh = Tail(m.qh)], Head(m.qh)))
  <2> DEFINE n == [m EXCEPT !.qh = Tail(m.qh)]
  <2>1. Tail(m.qh) \in Seq(AckFrames)
    BY <1>0, <1>3, TailFacts DEF MacType
  <2>2. n \in MacType /\ n.backoff = m.backoff /\ n.cw = m.cw /\ n.busy = m.busy
        /\ n.qh = Tail(m.qh) /\ n.ql = m.ql
    BY <1>0, <2>1 DEF MacType
  <2> HIDE DEF n
  <2>4. Cleared(Ran(n, Head(m.qh)))
    BY <1>0, <1>3, <2>2, RanMac DEF MacOK, Idle
  <2> QED BY <2>4 DEF n
<1>4. ASSUME ~sending, m.ql # << >>, Idle(m)
      PROVE  Cleared(Release(m))
  <2> DEFINE w == IF Head(m.ql).retry THEN m.cw ELSE CwMin
             n == [m EXCEPT !.ql = Tail(m.ql), !.backoff = None, !.cw = w]
  <2>1. Tail(m.ql) \in Seq(DataFrames)
    BY <1>0, <1>4, TailFacts DEF MacType
  <2>2. w \in CwMin..CwMax /\ None < w
    BY <1>0, CwBounds DEF MacType, None
  <2>3. Release(m) = Ran(n, Head(m.ql))
    BY DEF Release
  <2> HIDE DEF w
  <2>4. n \in MacType /\ n.backoff = None /\ n.cw = w /\ n.busy = m.busy
        /\ n.qh = m.qh /\ n.ql = Tail(m.ql)
    BY <1>0, <2>1, <2>2 DEF MacType
  <2> HIDE DEF n
  <2> QED BY <1>4, <2>2, <2>3, <2>4, RanMac DEF MacOK, Idle
<1>5. ASSUME NEW k \in Countdown(m), k # 0
      PROVE  Cleared(Ran([m EXCEPT !.backoff = k], NoFrame))
  <2> DEFINE n == [m EXCEPT !.backoff = k]
  <2>1. /\ m.cw \in CwMin..CwMax /\ m.backoff \in {-1} \cup 1..CwMax
        /\ m.since \in Nat
    BY <1>0, CwBounds DEF MacType, None
  <2>2. k \in 1..CwMax /\ k < m.cw
    BY <1>0, <1>5, <2>1, CwBounds DEF Countdown, None
  <2>3. n \in MacType /\ n.backoff = k /\ n.cw = m.cw /\ n.busy = m.busy
        /\ n.qh = m.qh /\ n.ql = m.ql
    BY <1>0, <2>2 DEF MacType
  <2> HIDE DEF n
  <2>4. Cleared(Ran(n, NoFrame))
    BY <2>2, <2>3, RanMac DEF MacOK
  <2> QED BY <2>4 DEF n
<1> HIDE DEF Cleared
<1>6. Cleared(t)
  BY <1>1, <1>2, <1>3, <1>4, <1>5 DEF OnTick, Waiting
<1> QED BY <1>6 DEF Cleared

----------------------------------------------------------------------------
(***************************************************************************)
(* The medium access and the air together.                                 *)
(***************************************************************************)
MacsOK(mc) == mc \in [Stations -> MacType] /\ \A s \in Stations : MacOK(mc[s])

LEMMA FrameFacts ==
  /\ \A x \in Frames : x.kind \in {"data", "ack"} /\ x # NoFrame
                       /\ Airtime(x) \in Nat \ {0}
  /\ \A x \in DataFrames : x \in Frames /\ x.kind = "data"
  /\ \A x \in AckFrames : x \in Frames /\ x.kind = "ack"
  /\ \A x \in Frames \cup {NoFrame} :
       /\ x.kind = "data" => x \in DataFrames
       /\ x.kind = "ack" => x \in AckFrames
  /\ NoFrame.kind = "none"
<1>1. AckAir \in Nat \ {0} /\ DataAir \in Nat \ {0}
  BY CsmaAssumption
<1> QED BY <1>1 DEF Frames, DataFrames, AckFrames, NoFrame, Airtime

LEMMA AirFacts ==
  /\ \A x \in AirType :
       /\ x = Silent => x.left = 0 /\ x.frame = NoFrame
       /\ x # Silent => /\ x.left \in Nat \ {0} /\ x.left <= Airtime(x.frame)
                        /\ x.frame \in Frames /\ x.hit \subseteq Stations
                        /\ x \in [frame : Frames, left : Nat \ {0}, hit : SUBSET Stations]
  /\ \A x \in [frame : Frames, left : Nat \ {0}, hit : SUBSET Stations] :
       x.left <= Airtime(x.frame) => x \in AirType /\ x # Silent
  /\ Silent \in AirType
<1>1. \A x \in [frame : Frames, left : Nat \ {0}, hit : SUBSET Stations] :
        x # Silent
  BY FrameFacts DEF Silent
<1> QED BY <1>1 DEF AirType, Silent

\* Nothing goes out, or the head of a queue does while the medium is idle.
Starts(s, m, n, frame, new) ==
  /\ frame \in Frames /\ ~Sending(s) /\ ~m.busy
  /\ new[s] # Silent /\ new[s].frame = frame /\ new[s].left = Airtime(frame)
  /\ \A r \in Stations \ {s} :
       /\ new[r] = Silent <=> air[r] = Silent
       /\ new[r].frame = air[r].frame /\ new[r].left = air[r].left
  /\ \/ m.qh # << >> /\ frame = Head(m.qh) /\ n.qh = Tail(m.qh) /\ n.ql = m.ql
     \/ m.ql # << >> /\ frame = Head(m.ql) /\ n.ql = Tail(m.ql) /\ n.qh = m.qh

LEMMA DrainStep ==
  ASSUME MacsOK(mac), air \in [Stations -> AirType],
         NEW s \in Stations, NEW m, MacOK(m), Drain(s, m)
  PROVE  /\ air' \in [Stations -> AirType]
         /\ \E n : /\ MacOK(n) /\ n.busy = m.busy /\ mac' = [mac EXCEPT ![s] = n]
                   /\ \/ air' = air /\ n.qh = m.qh /\ n.ql = m.ql
                      \/ \E frame : Starts(s, m, n, frame, air')
<1>1. PICK t \in OnTick(m, Sending(s)) :
        /\ mac' = [mac EXCEPT ![s] = t.mac]
        /\ air' = IF t.out = NoFrame THEN air
                  ELSE LET on == {r \in Stations : Sending(r)}
                       IN  [r \in Stations |->
                              IF r = s THEN [frame |-> t.out, hit |-> on,
                                             left |-> Airtime(t.out)]
                              ELSE IF r \in on THEN [air[r] EXCEPT !.hit = @ \cup {s}]
                              ELSE air[r]]
  BY DEF Drain
<1>2. Sending(s) \in BOOLEAN
  BY DEF Sending
<1>3. /\ MacOK(t.mac) /\ t.mac.busy = m.busy
      /\ \/ t.out = NoFrame /\ t.mac.qh = m.qh /\ t.mac.ql = m.ql
         \/ /\ ~Sending(s) /\ ~m.busy /\ m.qh # << >> /\ t.out = Head(m.qh)
            /\ t.mac.qh = Tail(m.qh) /\ t.mac.ql = m.ql
         \/ /\ ~Sending(s) /\ ~m.busy /\ m.ql # << >> /\ t.out = Head(m.ql)
            /\ t.mac.ql = Tail(m.ql) /\ t.mac.qh = m.qh
  BY <1>1, <1>2, OnTickMac
<1>4. CASE t.out = NoFrame
  <2>1. t.mac.qh = m.qh /\ t.mac.ql = m.ql
    <3>1. m.qh # << >> => Head(m.qh) # NoFrame
      BY TailFacts, FrameFacts DEF MacOK, MacType
    <3>2. m.ql # << >> => Head(m.ql) # NoFrame
      BY TailFacts, FrameFacts DEF MacOK, MacType
    <3> QED BY <1>3, <1>4, <3>1, <3>2
  <2> QED BY <1>1, <1>3, <1>4, <2>1
<1>5. CASE t.out # NoFrame
  <2> DEFINE on == {r \in Stations : Sending(r)}
             mine == [frame |-> t.out, hit |-> on, left |-> Airtime(t.out)]
  <2>1. t.out \in Frames /\ ~Sending(s) /\ ~m.busy
    <3>1. m.qh # << >> => Head(m.qh) \in Frames
      BY TailFacts, FrameFacts DEF MacOK, MacType
    <3>2. m.ql # << >> => Head(m.ql) \in Frames
      BY TailFacts, FrameFacts DEF MacOK, MacType
    <3> QED BY <1>3, <1>5, <3>1, <3>2
  <2>2. /\ mine \in AirType /\ mine # Silent
        /\ mine.frame = t.out /\ mine.left = Airtime(t.out)
    <3>1. Airtime(t.out) \in Nat \ {0} /\ Airtime(t.out) <= Airtime(t.out)
      BY <2>1, FrameFacts
    <3>2. mine \in [frame : Frames, left : Nat \ {0}, hit : SUBSET Stations]
      BY <2>1, <3>1
    <3> QED BY <3>1, <3>2, AirFacts
  <2>3. ASSUME NEW r \in Stations, Sending(r)
        PROVE  LET x == [air[r] EXCEPT !.hit = @ \cup {s}]
               IN  /\ x \in AirType /\ x # Silent
                   /\ x.frame = air[r].frame /\ x.left = air[r].left
    <3>1. /\ air[r] \in [frame : Frames, left : Nat \ {0}, hit : SUBSET Stations]
          /\ air[r].left <= Airtime(air[r].frame)
      BY <2>3, AirFacts DEF Sending
    <3> DEFINE x == [air[r] EXCEPT !.hit = @ \cup {s}]
    <3>2. /\ x \in [frame : Frames, left : Nat \ {0}, hit : SUBSET Stations]
          /\ x.frame = air[r].frame /\ x.left = air[r].left
      BY <3>1
    <3> HIDE DEF x
    <3>3. x \in AirType /\ x # Silent /\ x.frame = air[r].frame /\ x.left = air[r].left
      BY <3>1, <3>2, AirFacts
    <3> QED BY <3>3 DEF x
  <2> HIDE DEF mine
  <2>4. air' = [r \in Stations |->
                  IF r = s THEN mine
                  ELSE IF r \in on THEN [air[r] EXCEPT !.hit = @ \cup {s}] ELSE air[r]]
    BY <1>1, <1>5 DEF mine
  <2>5. air' \in [Stations -> AirType]
    BY <2>2, <2>3, <2>4
  <2>6. Starts(s, m, t.mac, t.out, air')
    <3>1. air'[s] = mine
      BY <2>4
    <3>2. ASSUME NEW r \in Stations \ {s}
          PROVE  /\ air'[r] = Silent <=> air[r] = Silent
                 /\ air'[r].frame = air[r].frame /\ air'[r].left = air[r].left
      <4>1. CASE Sending(r)
        BY <2>3, <2>4, <4>1 DEF Sending
      <4>2. CASE ~Sending(r)
        BY <2>4, <4>2
      <4> QED BY <4>1, <4>2
    <3> QED BY <1>3, <1>5, <2>1, <2>2, <3>1, <3>2 DEF Starts
  <2> QED BY <1>1, <1>3, <2>5, <2>6
<1> QED BY <1>4, <1>5

----------------------------------------------------------------------------
(***************************************************************************)
(* The detector is right about every transmission that is past its first   *)
(* slot, which is why a transmission that begins later does not meet it.   *)
(***************************************************************************)
Carrier ==
  \A s \in Stations :
    mac[s].busy <=> \E t \in Stations \ {s} :
                      Sending(t) /\ air[t].left < Airtime(air[t].frame)

LEMMA DrainTies ==
  ASSUME MacsOK(mac), air \in [Stations -> AirType], Carrier, OverlapsAreTies,
         NEW s \in Stations, NEW m, MacOK(m), m.busy = mac[s].busy, Drain(s, m)
  PROVE  MacsOK(mac') /\ Carrier' /\ OverlapsAreTies'
<1>1. PICK n : /\ MacOK(n) /\ n.busy = m.busy /\ mac' = [mac EXCEPT ![s] = n]
               /\ \/ air' = air /\ n.qh = m.qh /\ n.ql = m.ql
                  \/ \E frame : Starts(s, m, n, frame, air')
  BY DrainStep
<1>2. MacsOK(mac')
  BY <1>1 DEF MacsOK, MacOK
<1>3. \A r \in Stations : mac'[r].busy = mac[r].busy
  BY <1>1 DEF MacsOK
<1>4. CASE air' = air
  BY <1>2, <1>3, <1>4 DEF Carrier, OverlapsAreTies, Sending
<1>5. ASSUME NEW frame, Starts(s, m, n, frame, air')
      PROVE  Carrier' /\ OverlapsAreTies'
  <2>1. /\ ~Sending(s) /\ ~mac[s].busy /\ air'[s] # Silent
        /\ air'[s].frame = frame /\ air'[s].left = Airtime(frame)
        /\ Airtime(frame) \in Nat \ {0}
        /\ \A r \in Stations \ {s} :
             /\ air'[r] = Silent <=> air[r] = Silent
             /\ air'[r].frame = air[r].frame /\ air'[r].left = air[r].left
    BY <1>5, FrameFacts DEF Starts
  <2>2. ASSUME NEW r \in Stations \ {s}, Sending(r)
        PROVE  air[r].left = Airtime(air[r].frame) /\ Airtime(air[r].frame) \in Nat
    <3>1. /\ air[r].left \in Nat /\ air[r].left <= Airtime(air[r].frame)
          /\ Airtime(air[r].frame) \in Nat
      BY <2>2, AirFacts, FrameFacts DEF Sending
    <3>2. ~(air[r].left < Airtime(air[r].frame))
      BY <2>1, <2>2 DEF Carrier
    <3> QED BY <3>1, <3>2
  <2>3. ASSUME NEW r \in Stations
        PROVE  (\E t \in Stations \ {r} :
                  Sending(t)' /\ air'[t].left < Airtime(air'[t].frame))
               <=> (\E t \in Stations \ {r} :
                      Sending(t) /\ air[t].left < Airtime(air[t].frame))
    BY <2>1 DEF Sending
  <2>4. Carrier'
    BY <1>3, <2>3 DEF Carrier, Airtime, Sending
  <2>5. ASSUME NEW a \in Stations, NEW b \in Stations, air'[a] # Silent, air'[b] # Silent
        PROVE  Airtime(air'[a].frame) - air'[a].left
                 = Airtime(air'[b].frame) - air'[b].left
    <3>1. \A c \in Stations : air'[c] # Silent =>
            Airtime(air'[c].frame) - air'[c].left = 0
      BY <2>1, <2>2 DEF Sending
    <3> QED BY <2>5, <3>1
  <2> QED BY <2>4, <2>5 DEF OverlapsAreTies, Sending, Airtime
<1> QED BY <1>1, <1>2, <1>4, <1>5

\* The medium access after a slot.
Slot(m, busy) ==
  LET k == Sensed(m, busy)
  IN  [k EXCEPT !.nav = IF k.nav = 0 THEN 0 ELSE k.nav - 1,
                !.since = IF Waiting(k) THEN k.since + 1 ELSE 0]

LEMMA SlotMac ==
  ASSUME NEW m, MacOK(m), NEW busy \in BOOLEAN, m.since < StrobeMax
  PROVE  LET n == Slot(m, busy)
         IN  MacOK(n) /\ n.busy = busy /\ n.qh = m.qh /\ n.ql = m.ql
<1> DEFINE quiet == IF (m.busy /\ ~busy) \/ m.nav > 0 THEN 0
                    ELSE IF m.quiet < Difs THEN m.quiet + 1 ELSE Difs
           k == [m EXCEPT !.busy = busy, !.quiet = quiet]
<1>1. /\ quiet \in 0..Difs
      /\ (IF m.nav = 0 THEN 0 ELSE m.nav - 1) \in 0..(Sifs + AckAir)
      /\ m.since + 1 \in 0..StrobeMax /\ 0 \in 0..StrobeMax
  <2>1. /\ m.quiet \in 0..Difs /\ m.nav \in 0..(Sifs + AckAir)
        /\ m.since \in 0..StrobeMax
    BY DEF MacOK, MacType
  <2>2. Difs \in Nat /\ Sifs + AckAir \in Nat /\ StrobeMax \in Nat
    BY CsmaAssumption
  <2> QED BY <2>1, <2>2
<1> HIDE DEF quiet
<1>2. /\ k \in MacType /\ k.busy = busy /\ k.qh = m.qh /\ k.ql = m.ql
      /\ k.nav = m.nav /\ k.since = m.since /\ k.cw = m.cw /\ k.backoff = m.backoff
  BY <1>1 DEF MacOK, MacType
<1>3. Sensed(m, busy) = k
  BY DEF Sensed, quiet
<1> HIDE DEF k
<1> DEFINE nav == IF k.nav = 0 THEN 0 ELSE k.nav - 1
           since == IF Waiting(k) THEN k.since + 1 ELSE 0
           n == [k EXCEPT !.nav = nav, !.since = since]
<1>4. nav \in 0..(Sifs + AckAir) /\ since \in 0..StrobeMax
  BY <1>1, <1>2
<1> HIDE DEF nav, since
<1>5. /\ n \in MacType /\ n.busy = k.busy /\ n.qh = k.qh /\ n.ql = k.ql
      /\ n.cw = k.cw /\ n.backoff = k.backoff
  BY <1>2, <1>4 DEF MacType
<1>6. MacOK(n) /\ n.busy = busy /\ n.qh = m.qh /\ n.ql = m.ql
  BY <1>2, <1>5 DEF MacOK
<1>7. Slot(m, busy) = n
  BY <1>3 DEF Slot, nav, since
<1> HIDE DEF n
<1> QED BY <1>6, <1>7

LEMMA NoiseFinite ==
  ASSUME NEW heard
  PROVE  Cardinality({p \in Over \X Stations :
                        p[2] \in {r \in Stations \ {p[1]} : air[p[1]].hit \subseteq {r}}
                                   \ heard[p[1]]
                        /\ air[p[1]].hit = {}}) \in Nat
<1>1. IsFiniteSet(Stations)
  BY CsmaAssumption
<1>2. IsFiniteSet(Over)
  BY <1>1, FS_Subset DEF Over
<1>3. IsFiniteSet(Over \X Stations)
  BY <1>1, <1>2, FS_Product
<1> QED BY <1>3, FS_Subset, FS_CardinalityType

\* A slot: what was on the air is a slot older or has been received.
LEMMA PassStep ==
  ASSUME MacsOK(mac), air \in [Stations -> AirType],
         inbox \in [Stations -> Frames \cup {NoFrame}], loss \in Nat,
         Carrier, OverlapsAreTies, NEW heard \in [Over -> SUBSET Stations], Pass(heard)
  PROVE  /\ MacsOK(mac') /\ air' \in [Stations -> AirType] /\ loss' \in Nat
         /\ inbox' \in [Stations -> Frames \cup {NoFrame}]
         /\ Carrier' /\ OverlapsAreTies'
         /\ \A s \in Stations :
              /\ mac'[s].qh = mac[s].qh /\ mac'[s].ql = mac[s].ql
              /\ \/ air'[s] = Silent
                 \/ air[s].left > 1 /\ air'[s].frame = air[s].frame
              /\ \/ inbox'[s] = NoFrame
                 \/ \E t \in Over : inbox'[s] = air[t].frame
<1> DEFINE on == {s \in Stations : air[s].left > 1}
           slot(s) == Slot(mac[s], on \ {s} # {})
<1>1. /\ \A s \in Stations : inbox[s] = NoFrame /\ mac[s].since < StrobeMax
      /\ inbox' = [r \in Stations |->
                     IF \E s \in Over : r \in heard[s]
                     THEN air[CHOOSE s \in Over : r \in heard[s]].frame
                     ELSE NoFrame]
      /\ air' = [s \in Stations |->
                   IF s \in on THEN [air[s] EXCEPT !.left = @ - 1] ELSE Silent]
      /\ mac' = [s \in Stations |-> slot(s)]
  BY DEF Pass, Slot
<1>2. loss' \in Nat
  <2>1. PICK c \in Nat : c <= loss /\ loss' = loss - c
    BY NoiseFinite DEF Pass
  <2> QED BY <2>1
<1>3. ASSUME NEW s \in Stations
      PROVE  /\ MacOK(slot(s)) /\ slot(s).busy = (on \ {s} # {})
             /\ slot(s).qh = mac[s].qh /\ slot(s).ql = mac[s].ql
  <2>1. MacOK(mac[s]) /\ (on \ {s} # {}) \in BOOLEAN /\ mac[s].since < StrobeMax
    BY <1>1 DEF MacsOK
  <2> QED BY <2>1, SlotMac
<1> HIDE DEF slot
<1>4. /\ MacsOK(mac')
      /\ \A s \in Stations : /\ mac'[s].busy = (on \ {s} # {})
                             /\ mac'[s].qh = mac[s].qh /\ mac'[s].ql = mac[s].ql
  BY <1>1, <1>3 DEF MacsOK, MacOK
<1>5. ASSUME NEW s \in on
      PROVE  /\ air'[s] \in AirType /\ air'[s] # Silent /\ air[s] # Silent
             /\ air'[s].frame = air[s].frame /\ air'[s].left = air[s].left - 1
             /\ air[s].left \in Nat /\ air[s].left <= Airtime(air[s].frame)
             /\ Airtime(air[s].frame) \in Nat
  <2>1. air[s] \in AirType /\ air[s].left > 1
    OBVIOUS
  <2>2. air[s] # Silent
    BY <2>1, AirFacts
  <2>3. /\ air[s] \in [frame : Frames, left : Nat \ {0}, hit : SUBSET Stations]
        /\ air[s].left <= Airtime(air[s].frame) /\ Airtime(air[s].frame) \in Nat
    BY <2>1, <2>2, AirFacts, FrameFacts
  <2> DEFINE x == [air[s] EXCEPT !.left = @ - 1]
  <2>4. /\ x \in [frame : Frames, left : Nat \ {0}, hit : SUBSET Stations]
        /\ x.frame = air[s].frame /\ x.left = air[s].left - 1
    <3>1. air[s].left - 1 \in Nat \ {0}
      BY <2>1, <2>3
    <3> QED BY <2>3, <3>1
  <2>5. air'[s] = x
    BY <1>1
  <2> HIDE DEF x
  <2>6. x.left <= Airtime(x.frame)
    BY <2>3, <2>4
  <2> QED BY <2>2, <2>3, <2>4, <2>5, <2>6, AirFacts
<1>6. \A s \in Stations \ on : air'[s] = Silent
  BY <1>1
<1>7. air' \in [Stations -> AirType]
  BY <1>1, <1>5, AirFacts
<1>8. \A s \in Stations : inbox'[s] = NoFrame \/ \E t \in Over : inbox'[s] = air[t].frame
  BY <1>1
<1>9. inbox' \in [Stations -> Frames \cup {NoFrame}]
  <2>1. \A t \in Over : air[t].frame \in Frames
    BY AirFacts DEF Over
  <2> QED BY <1>1, <1>8, <2>1
<1>10. Carrier'
  <2>1. \A t \in Stations : /\ air'[t] # Silent <=> t \in on
                            /\ t \in on => air'[t].left < Airtime(air'[t].frame)
    <3>1. \A t \in on : air[t].left - 1 < Airtime(air[t].frame)
      BY <1>5
    <3> QED BY <1>5, <1>6, <3>1
  <2>2. \A s \in Stations : mac'[s].busy \in BOOLEAN
    BY <1>4 DEF MacsOK, MacOK, MacType
  <2> QED BY <1>4, <2>1, <2>2 DEF Carrier, Sending, Airtime
<1>11. OverlapsAreTies'
  <2>1. ASSUME NEW a \in on, NEW b \in on
        PROVE  Airtime(air'[a].frame) - air'[a].left
                 = Airtime(air'[b].frame) - air'[b].left
    <3>1. Airtime(air[a].frame) - air[a].left = Airtime(air[b].frame) - air[b].left
      BY <1>5 DEF OverlapsAreTies, Sending
    <3> QED BY <1>5, <3>1
  <2> QED BY <1>6, <2>1 DEF OverlapsAreTies, Sending, Airtime
<1>12. \A s \in Stations : \/ air'[s] = Silent
                           \/ air[s].left > 1 /\ air'[s].frame = air[s].frame
  BY <1>5, <1>6
<1> QED BY SMTT(30), <1>2, <1>4, <1>7, <1>8, <1>9, <1>10, <1>11, <1>12

----------------------------------------------------------------------------
(***************************************************************************)
(* The frames of a flow pass the queue of the sender's medium access, the  *)
(* air and the inbox of the receiver without overtaking each other, and a  *)
(* frame that is acknowledged has been handed up.                          *)
(***************************************************************************)
DataOK(lk, d) ==
  /\ d \in DataFrames /\ <<d.src, d.dst>> \in Flows /\ d.seq = d.nr
  /\ d.nr <= lk[<<d.src, d.dst>>].next

AckOK(gt, x) ==
  /\ x \in AckFrames /\ <<x.dst, x.src>> \in Flows
  /\ \E i \in 1..Len(gt[<<x.dst, x.src>>]) : gt[<<x.dst, x.src>>][i] = x.seq

Before(d, e) == d.src = e.src /\ d.dst = e.dst => d.nr <= e.nr

Queued(lk, gt, mc) ==
  \A s \in Stations :
    /\ \A i \in 1..Len(mc[s].ql) : DataOK(lk, mc[s].ql[i]) /\ mc[s].ql[i].src = s
    /\ \A i, j \in 1..Len(mc[s].ql) : i <= j => Before(mc[s].ql[i], mc[s].ql[j])
    /\ \A i \in 1..Len(mc[s].qh) : AckOK(gt, mc[s].qh[i])

OnAir(lk, gt, mc, ar) ==
  \A s \in Stations :
    /\ ar[s].frame.kind = "data" =>
         /\ DataOK(lk, ar[s].frame) /\ ar[s].frame.src = s
         /\ \A i \in 1..Len(mc[s].ql) : Before(ar[s].frame, mc[s].ql[i])
    /\ ar[s].frame.kind = "ack" => AckOK(gt, ar[s].frame)

Arrived(lk, gt, mc, ar, ib) ==
  \A r \in Stations :
    /\ ib[r].kind = "data" =>
         /\ DataOK(lk, ib[r])
         /\ \A i \in 1..Len(mc[ib[r].src].ql) : Before(ib[r], mc[ib[r].src].ql[i])
         /\ ar[ib[r].src].frame.kind = "data" => Before(ib[r], ar[ib[r].src].frame)
    /\ ib[r].kind = "ack" => AckOK(gt, ib[r])

NotAfter(k, f, d) == <<d.src, d.dst>> = f => k <= d.nr

HandedUp(lk, ls, gt, mc, ar, ib) ==
  \A f \in Flows :
    /\ \A i, j \in 1..Len(gt[f]) : i < j => gt[f][i] < gt[f][j]
    /\ ls[f] = IF gt[f] = << >> THEN None ELSE gt[f][Len(gt[f])]
    /\ \A i \in 1..Len(gt[f]) :
         /\ gt[f][i] <= lk[f].next
         /\ \A j \in 1..Len(mc[f[1]].ql) : NotAfter(gt[f][i], f, mc[f[1]].ql[j])
         /\ ar[f[1]].frame.kind = "data" => NotAfter(gt[f][i], f, ar[f[1]].frame)
         /\ ib[f[2]].kind = "data" => NotAfter(gt[f][i], f, ib[f[2]])

Order(lk, ls, gt, mc, ar, ib) ==
  /\ Queued(lk, gt, mc) /\ OnAir(lk, gt, mc, ar) /\ Arrived(lk, gt, mc, ar, ib)
  /\ HandedUp(lk, ls, gt, mc, ar, ib)

\* Every report of an acknowledgement is about a frame that was handed up.
Reported(ak, gt) ==
  \A f \in Flows : \A k \in ak[f] : \E i \in 1..Len(gt[f]) : gt[f][i] = k

\* No flow has more frames than there are sequence numbers.
Used(l) == l.next + (IF l.tries > 0 THEN 1 ELSE 0) + l.queued

Budget(lk, ld) == \A f \in Flows : Used(lk[f]) + ld[f] < Seqs

LEMMA FlowFacts ==
  \A f \in Flows : /\ f[1] \in Stations /\ f[2] \in Stations /\ f[1] # f[2]
                   /\ f = <<f[1], f[2]>>
BY DEF Flows

LEMMA NewData ==
  ASSUME NEW f \in Flows, NEW k \in Nat, k < Seqs, NEW retry \in BOOLEAN
  PROVE  LET d == Data(f, k, retry)
         IN  /\ d \in DataFrames /\ d.src = f[1] /\ d.dst = f[2] /\ d.nr = k /\ d.seq = k
             /\ <<d.src, d.dst>> = f /\ d.retry = retry
<1>1. k % Seqs = k /\ k \in 0..(Seqs - 1)
  BY DEF Seqs
<1> QED BY <1>1, FlowFacts DEF Data, DataFrames

LEMMA NewAck ==
  ASSUME NEW d \in DataFrames, NEW s \in Stations
  PROVE  LET x == Ack(s, d.src, d.seq)
         IN  x \in AckFrames /\ x.src = s /\ x.dst = d.src /\ x.seq = d.seq
BY DEF Ack, AckFrames, DataFrames

\* Frames stay in order when the number the link has reached grows.
LEMMA OrderLink ==
  ASSUME NEW lk \in [Flows -> LinkType], NEW lk2 \in [Flows -> LinkType],
         NEW ls, NEW gt \in [Flows -> Seq(Nat)], NEW mc, NEW ar, NEW ib,
         \A f \in Flows : lk[f].next <= lk2[f].next,
         Order(lk, ls, gt, mc, ar, ib)
  PROVE  Order(lk2, ls, gt, mc, ar, ib)
<1>1. \A f \in Flows : lk[f].next \in Nat /\ lk2[f].next \in Nat
  BY DEF LinkType
<1>2. ASSUME NEW d, DataOK(lk, d)
      PROVE  DataOK(lk2, d)
  <2>1. d.nr \in Nat
    BY <1>2 DEF DataOK, DataFrames
  <2> QED BY <1>1, <1>2, <2>1 DEF DataOK
<1>3. ASSUME NEW f \in Flows, NEW i \in 1..Len(gt[f])
      PROVE  gt[f][i] <= lk[f].next => gt[f][i] <= lk2[f].next
  <2>1. gt[f][i] \in Nat
    BY ElementOfSeq
  <2> QED BY <1>1, <2>1
<1>4. Queued(lk2, gt, mc)
  BY <1>2 DEF Order, Queued
<1>5. OnAir(lk2, gt, mc, ar)
  BY <1>2 DEF Order, OnAir
<1>6. Arrived(lk2, gt, mc, ar, ib)
  BY <1>2 DEF Order, Arrived
<1>7. HandedUp(lk2, ls, gt, mc, ar, ib)
  BY <1>3 DEF Order, HandedUp
<1> QED BY <1>4, <1>5, <1>6, <1>7 DEF Order

\* A frame with the number the link has reached may join the queue, and an
\* acknowledgement of a frame that was handed up the other.
Fresh(lk, s, d) == DataOK(lk, d) /\ d.src = s /\ d.nr = lk[<<d.src, d.dst>>].next

LEMMA OrderQueue ==
  ASSUME NEW lk \in [Flows -> LinkType], NEW gt \in [Flows -> Seq(Nat)],
         NEW mc, MacsOK(mc), NEW ls, NEW ar, NEW ib,
         NEW s \in Stations, NEW m, MacOK(m),
         Order(lk, ls, gt, mc, ar, ib),
         m.ql = mc[s].ql \/ \E d : Fresh(lk, s, d) /\ m.ql = Append(mc[s].ql, d),
         m.qh = mc[s].qh \/ \E x : AckOK(gt, x) /\ m.qh = Append(mc[s].qh, x)
  PROVE  Order(lk, ls, gt, [mc EXCEPT ![s] = m], ar, ib)
<1> DEFINE q == mc[s].ql
           h == mc[s].qh
           new == [mc EXCEPT ![s] = m]
<1>1. /\ q \in Seq(DataFrames) /\ h \in Seq(AckFrames)
      /\ m.ql \in Seq(DataFrames) /\ m.qh \in Seq(AckFrames)
      /\ Len(q) \in Nat /\ Len(h) \in Nat /\ Len(m.ql) \in Nat /\ Len(m.qh) \in Nat
  BY LenProperties DEF MacsOK, MacOK, MacType
<1>2. ASSUME NEW i \in 1..Len(m.ql)
      PROVE  \/ i \in 1..Len(q) /\ m.ql[i] = q[i]
             \/ i = Len(m.ql) /\ i = Len(q) + 1 /\ Fresh(lk, s, m.ql[i])
  <2>1. CASE m.ql = q
    BY <2>1
  <2>2. ASSUME NEW d, Fresh(lk, s, d), m.ql = Append(q, d)
        PROVE  \/ i \in 1..Len(q) /\ m.ql[i] = q[i]
               \/ i = Len(m.ql) /\ i = Len(q) + 1 /\ Fresh(lk, s, m.ql[i])
    <3>1. d \in DataFrames
      BY <2>2 DEF Fresh, DataOK
    <3>2. /\ Len(m.ql) = Len(q) + 1 /\ m.ql[Len(q) + 1] = d
          /\ \A j \in 1..Len(q) : m.ql[j] = q[j]
      BY <1>1, <2>2, <3>1, AppendFacts
    <3>3. i \in 1..Len(q) \/ i = Len(q) + 1
      BY <1>1, <3>2
    <3> QED BY <2>2, <3>2, <3>3
  <2> QED BY <2>1, <2>2
<1>3. ASSUME NEW i \in 1..Len(m.qh)
      PROVE  AckOK(gt, m.qh[i])
  <2>1. CASE m.qh = h
    BY <2>1 DEF Order, Queued
  <2>2. ASSUME NEW x, AckOK(gt, x), m.qh = Append(h, x)
        PROVE  AckOK(gt, m.qh[i])
    <3>1. x \in AckFrames
      BY <2>2 DEF AckOK
    <3>2. /\ Len(m.qh) = Len(h) + 1 /\ m.qh[Len(h) + 1] = x
          /\ \A j \in 1..Len(h) : m.qh[j] = h[j]
      BY <1>1, <2>2, <3>1, AppendFacts
    <3>3. i \in 1..Len(h) \/ i = Len(h) + 1
      BY <1>1, <3>2
    <3> QED BY <2>2, <3>2, <3>3 DEF Order, Queued
  <2> QED BY <2>1, <2>2
<1>4. /\ new[s] = m
      /\ \A r \in Stations : r # s => new[r] = mc[r]
  BY DEF MacsOK
<1>5. \A d, e : DataOK(lk, d) /\ Fresh(lk, s, e) => Before(d, e)
  BY DEF DataOK, Fresh, Before
<1>6. \A d : DataOK(lk, d) /\ d.src = s /\ (\A i \in 1..Len(q) : Before(d, q[i]))
         => \A i \in 1..Len(m.ql) : Before(d, m.ql[i])
  BY <1>2, <1>5
<1> HIDE DEF q, h, new
<1>7. Queued(lk, gt, new)
  <2>1. \A i \in 1..Len(q) : DataOK(lk, q[i]) /\ q[i].src = s
    BY DEF Order, Queued, q
  <2>2. \A i \in 1..Len(m.ql) : DataOK(lk, m.ql[i]) /\ m.ql[i].src = s
    BY <1>2, <2>1 DEF Fresh
  <2>3. ASSUME NEW i \in 1..Len(m.ql), NEW j \in 1..Len(m.ql), i <= j
        PROVE  Before(m.ql[i], m.ql[j])
    <3>1. CASE j \in 1..Len(q) /\ m.ql[j] = q[j]
      <4>1. i \in 1..Len(q) /\ i # Len(q) + 1
        BY <1>1, <2>3, <3>1
      <4> QED BY <1>2, <2>3, <3>1, <4>1 DEF Order, Queued, q
    <3>2. CASE Fresh(lk, s, m.ql[j])
      BY <1>5, <2>2, <3>2
    <3> QED BY <1>2, <3>1, <3>2
  <2>4. \A r \in Stations : r # s => new[r] = mc[r]
    BY <1>4
  <2>5. Queued(lk, gt, mc)
    BY DEF Order
  <2> QED BY SMTT(30), <1>3, <1>4, <2>2, <2>3, <2>4, <2>5 DEF Queued
<1>8. OnAir(lk, gt, new, ar)
  <2>1. ASSUME NEW r \in Stations, ar[r].frame.kind = "data"
        PROVE  /\ DataOK(lk, ar[r].frame) /\ ar[r].frame.src = r
               /\ \A i \in 1..Len(new[r].ql) : Before(ar[r].frame, new[r].ql[i])
    <3>1. /\ DataOK(lk, ar[r].frame) /\ ar[r].frame.src = r
          /\ \A i \in 1..Len(mc[r].ql) : Before(ar[r].frame, mc[r].ql[i])
      BY <2>1 DEF Order, OnAir
    <3> QED BY <1>4, <1>6, <3>1 DEF q
  <2> QED BY <2>1 DEF Order, OnAir
<1>9. Arrived(lk, gt, new, ar, ib)
  <2>1. ASSUME NEW r \in Stations, ib[r].kind = "data"
        PROVE  \A i \in 1..Len(new[ib[r].src].ql) : Before(ib[r], new[ib[r].src].ql[i])
    <3>1. /\ DataOK(lk, ib[r])
          /\ \A i \in 1..Len(mc[ib[r].src].ql) : Before(ib[r], mc[ib[r].src].ql[i])
      BY <2>1 DEF Order, Arrived
    <3>2. ib[r].src \in Stations
      BY <3>1 DEF DataOK, DataFrames
    <3> QED BY <1>4, <1>6, <3>1, <3>2 DEF q
  <2> QED BY <2>1 DEF Order, Arrived
<1>10. HandedUp(lk, ls, gt, new, ar, ib)
  <2>1. ASSUME NEW f \in Flows, NEW i \in 1..Len(gt[f]), NEW j \in 1..Len(new[f[1]].ql)
        PROVE  NotAfter(gt[f][i], f, new[f[1]].ql[j])
    <3>1. \A k \in 1..Len(mc[f[1]].ql) : NotAfter(gt[f][i], f, mc[f[1]].ql[k])
      BY DEF Order, HandedUp
    <3>2. gt[f][i] <= lk[f].next
      BY DEF Order, HandedUp
    <3>3. \A d : Fresh(lk, s, d) => NotAfter(gt[f][i], f, d)
      BY <3>2 DEF NotAfter, Fresh
    <3>4. CASE f[1] = s
      <4>1. j \in 1..Len(m.ql) /\ new[f[1]].ql[j] = m.ql[j] /\ mc[f[1]].ql = q
        BY <1>4, <3>4 DEF q
      <4>2. CASE j \in 1..Len(q) /\ m.ql[j] = q[j]
        BY <3>1, <4>1, <4>2
      <4>3. CASE Fresh(lk, s, m.ql[j])
        BY <3>3, <4>1, <4>3
      <4> QED BY <1>2, <4>1, <4>2, <4>3
    <3>5. CASE f[1] # s
      BY <1>4, <3>1, <3>5, FlowFacts
    <3> QED BY <3>4, <3>5
  <2> QED BY <2>1 DEF Order, HandedUp
<1> QED BY <1>7, <1>8, <1>9, <1>10 DEF Order, new

\* A run of the medium access moves at most a frame, from the head of a queue.
LEMMA OrderDrain ==
  ASSUME NEW lk, NEW ls, NEW gt, NEW ib,
         MacsOK(mac), air \in [Stations -> AirType],
         NEW s \in Stations, NEW m, MacOK(m), Drain(s, m),
         Order(lk, ls, gt, [mac EXCEPT ![s] = m], air, ib)
  PROVE  Order(lk, ls, gt, mac', air', ib)
<1> DEFINE mid == [mac EXCEPT ![s] = m]
<1>1. PICK n : /\ MacOK(n) /\ mac' = [mac EXCEPT ![s] = n]
               /\ \/ air' = air /\ n.qh = m.qh /\ n.ql = m.ql
                  \/ \E frame : Starts(s, m, n, frame, air')
  BY DrainStep
<1>2. /\ mid[s] = m /\ mac'[s] = n
      /\ \A r \in Stations : r # s => mac'[r] = mid[r]
  BY <1>1 DEF MacsOK
<1>3. /\ m.ql \in Seq(DataFrames) /\ m.qh \in Seq(AckFrames)
      /\ Len(m.ql) \in Nat /\ Len(m.qh) \in Nat
  BY LenProperties DEF MacOK, MacType
<1>4. Order(lk, ls, gt, mid, air, ib)
  OBVIOUS
<1> HIDE DEF mid
<1>5. PICK off \in {0, 1} :
        /\ \A i \in 1..Len(n.ql) : i + off \in 1..Len(m.ql) /\ n.ql[i] = m.ql[i + off]
        /\ \A r \in Stations : air'[r].frame = air[r].frame
             \/ /\ r = s /\ air'[r].frame.kind = "ack" /\ m.qh # << >>
                /\ air'[r].frame = m.qh[1]
             \/ /\ r = s /\ air'[r].frame.kind = "data" /\ m.ql # << >> /\ off = 1
                /\ air'[r].frame = m.ql[1]
  <2>1. CASE air' = air /\ n.ql = m.ql
    <3>1. \A i \in 1..Len(n.ql) : i + 0 \in 1..Len(m.ql) /\ n.ql[i] = m.ql[i + 0]
      BY <1>3, <2>1
    <3> QED BY <2>1, <3>1
  <2>2. ASSUME NEW frame, Starts(s, m, n, frame, air')
        PROVE  \E off \in {0, 1} :
                 /\ \A i \in 1..Len(n.ql) :
                      i + off \in 1..Len(m.ql) /\ n.ql[i] = m.ql[i + off]
                 /\ \A r \in Stations : air'[r].frame = air[r].frame
                      \/ /\ r = s /\ air'[r].frame.kind = "ack" /\ m.qh # << >>
                         /\ air'[r].frame = m.qh[1]
                      \/ /\ r = s /\ air'[r].frame.kind = "data" /\ m.ql # << >>
                         /\ off = 1 /\ air'[r].frame = m.ql[1]
    <3>1. /\ air'[s].frame = frame
          /\ \A r \in Stations : r # s => air'[r].frame = air[r].frame
      BY <2>2 DEF Starts
    <3>2. CASE m.qh # << >> /\ frame = Head(m.qh) /\ n.ql = m.ql
      <4>1. frame = m.qh[1] /\ frame.kind = "ack"
        BY <1>3, <3>2, TailFacts, FrameFacts
      <4>2. \A i \in 1..Len(n.ql) : i + 0 \in 1..Len(m.ql) /\ n.ql[i] = m.ql[i + 0]
        BY <1>3, <3>2
      <4> QED BY <3>1, <3>2, <4>1, <4>2
    <3>3. CASE m.ql # << >> /\ frame = Head(m.ql) /\ n.ql = Tail(m.ql)
      <4>1. /\ frame = m.ql[1] /\ frame.kind = "data" /\ Len(Tail(m.ql)) = Len(m.ql) - 1
            /\ \A i \in 1..Len(Tail(m.ql)) : Tail(m.ql)[i] = m.ql[i + 1]
        BY <1>3, <3>3, TailFacts, FrameFacts
      <4>2. \A i \in 1..Len(n.ql) : i + 1 \in 1..Len(m.ql) /\ n.ql[i] = m.ql[i + 1]
        BY <1>3, <3>3, <4>1
      <4> QED BY <3>1, <3>3, <4>1, <4>2
    <3> QED BY <2>2, <3>2, <3>3 DEF Starts
  <2> QED BY <1>1, <2>1, <2>2
<1>6. \A i \in 1..Len(n.qh) : \E k \in 1..Len(m.qh) : n.qh[i] = m.qh[k]
  <2>1. CASE n.qh = m.qh
    BY <2>1
  <2>2. CASE m.qh # << >> /\ n.qh = Tail(m.qh)
    <3>1. /\ Len(Tail(m.qh)) = Len(m.qh) - 1
          /\ \A i \in 1..Len(Tail(m.qh)) : Tail(m.qh)[i] = m.qh[i + 1]
      BY <1>3, <2>2, TailFacts
    <3>2. \A i \in 1..Len(n.qh) : i + 1 \in 1..Len(m.qh) /\ n.qh[i] = m.qh[i + 1]
      BY <1>3, <2>2, <3>1
    <3> QED BY <3>2
  <2> QED BY <1>1, <2>1, <2>2 DEF Starts
<1>7. /\ m.ql # << >> => 1 \in 1..Len(m.ql)
      /\ m.qh # << >> => 1 \in 1..Len(m.qh)
  BY <1>3, TailFacts
<1>8. \A d : (\A i \in 1..Len(m.ql) : Before(d, m.ql[i]))
         => \A i \in 1..Len(n.ql) : Before(d, n.ql[i])
  BY <1>5
<1>9. Queued(lk, gt, mac')
  <2>1. Queued(lk, gt, mid)
    BY <1>4 DEF Order
  <2>2. \A i \in 1..Len(n.ql) : DataOK(lk, n.ql[i]) /\ n.ql[i].src = s
    BY SMTT(30), <1>2, <1>5, <2>1 DEF Queued
  <2>3. ASSUME NEW i \in 1..Len(n.ql), NEW j \in 1..Len(n.ql), i <= j
        PROVE  Before(n.ql[i], n.ql[j])
    <3>1. i + off <= j + off
      BY <1>3, <2>3
    <3> QED BY SMTT(30), <1>2, <1>5, <2>1, <3>1 DEF Queued
  <2>4. \A i \in 1..Len(n.qh) : AckOK(gt, n.qh[i])
    <3>1. mid[s].qh = m.qh
      BY <1>2
    <3>2. \A i \in 1..Len(m.qh) : AckOK(gt, m.qh[i])
      BY <2>1, <3>1 DEF Queued
    <3> QED BY <1>6, <3>2
  <2> QED BY SMTT(30), <1>2, <2>1, <2>2, <2>3, <2>4 DEF Queued
<1>10. OnAir(lk, gt, mac', air')
  <2>1. Queued(lk, gt, mid) /\ OnAir(lk, gt, mid, air)
    BY <1>4 DEF Order
  <2>2. ASSUME NEW r \in Stations, air'[r].frame = air[r].frame
        PROVE  /\ air'[r].frame.kind = "data" =>
                    /\ DataOK(lk, air'[r].frame) /\ air'[r].frame.src = r
                    /\ \A i \in 1..Len(mac'[r].ql) : Before(air'[r].frame, mac'[r].ql[i])
               /\ air'[r].frame.kind = "ack" => AckOK(gt, air'[r].frame)
    <3>1. CASE r = s
      <4>1. mid[s].ql = m.ql /\ mac'[s].ql = n.ql
        BY <1>2
      <4>2. /\ air[s].frame.kind = "data" =>
                 /\ DataOK(lk, air[s].frame) /\ air[s].frame.src = s
                 /\ \A i \in 1..Len(m.ql) : Before(air[s].frame, m.ql[i])
            /\ air[s].frame.kind = "ack" => AckOK(gt, air[s].frame)
        BY <2>1, <4>1 DEF OnAir
      <4>3. air[s].frame.kind = "data" =>
               \A i \in 1..Len(n.ql) : Before(air[s].frame, n.ql[i])
        BY <1>8, <4>2
      <4> QED BY <2>2, <3>1, <4>1, <4>2, <4>3
    <3>2. CASE r # s
      BY <1>2, <2>1, <2>2, <3>2 DEF OnAir
    <3> QED BY <3>1, <3>2
  <2>3. ASSUME NEW x, x = m.ql[1], m.ql # << >>, off = 1
        PROVE  /\ DataOK(lk, x) /\ x.src = s
               /\ \A i \in 1..Len(n.ql) : Before(x, n.ql[i])
    <3>1. DataOK(lk, x) /\ x.src = s
      BY <1>2, <1>7, <2>1, <2>3 DEF Queued
    <3>2. \A i \in 1..Len(m.ql) : Before(x, m.ql[i])
      BY <1>2, <1>7, <2>1, <2>3 DEF Queued
    <3> QED BY <1>8, <3>1, <3>2
  <2>4. m.qh # << >> => AckOK(gt, m.qh[1])
    BY <1>2, <1>7, <2>1 DEF Queued
  <2> QED BY <1>2, <1>5, <2>2, <2>3, <2>4 DEF OnAir
<1>11. Arrived(lk, gt, mac', air', ib)
  <2>1. Arrived(lk, gt, mid, air, ib)
    BY <1>4 DEF Order
  <2>2. ASSUME NEW r \in Stations, ib[r].kind = "data"
        PROVE  LET t == ib[r].src
               IN  /\ \A i \in 1..Len(mac'[t].ql) : Before(ib[r], mac'[t].ql[i])
                   /\ air'[t].frame.kind = "data" => Before(ib[r], air'[t].frame)
    <3> DEFINE t == ib[r].src
    <3>1. /\ DataOK(lk, ib[r])
          /\ \A i \in 1..Len(mid[t].ql) : Before(ib[r], mid[t].ql[i])
          /\ air[t].frame.kind = "data" => Before(ib[r], air[t].frame)
      BY <2>1, <2>2 DEF Arrived
    <3>2. t \in Stations
      BY <3>1 DEF DataOK, DataFrames
    <3> HIDE DEF t
    <3>3. \A i \in 1..Len(mac'[t].ql) : Before(ib[r], mac'[t].ql[i])
      BY <1>2, <1>8, <3>1, <3>2
    <3>4. air'[t].frame.kind = "data" => Before(ib[r], air'[t].frame)
      BY <1>2, <1>5, <1>7, <3>1, <3>2
    <3> QED BY <3>3, <3>4 DEF t
  <2> QED BY <2>1, <2>2 DEF Arrived
<1>12. HandedUp(lk, ls, gt, mac', air', ib)
  <2>1. HandedUp(lk, ls, gt, mid, air, ib)
    BY <1>4 DEF Order
  <2>2. ASSUME NEW f \in Flows, NEW i \in 1..Len(gt[f])
        PROVE  /\ \A j \in 1..Len(mac'[f[1]].ql) : NotAfter(gt[f][i], f, mac'[f[1]].ql[j])
               /\ air'[f[1]].frame.kind = "data" =>
                    NotAfter(gt[f][i], f, air'[f[1]].frame)
    <3>1. /\ \A j \in 1..Len(mid[f[1]].ql) : NotAfter(gt[f][i], f, mid[f[1]].ql[j])
          /\ air[f[1]].frame.kind = "data" => NotAfter(gt[f][i], f, air[f[1]].frame)
      BY <2>1 DEF HandedUp
    <3>2. CASE f[1] = s
      BY <1>2, <1>5, <1>7, <3>1, <3>2
    <3>3. CASE f[1] # s
      BY <1>2, <1>5, <3>1, <3>3, FlowFacts
    <3> QED BY <3>2, <3>3
  <2> QED BY <2>1, <2>2 DEF HandedUp
<1> QED BY <1>9, <1>10, <1>11, <1>12 DEF Order

\* A frame that has been handled leaves the inbox.
LEMMA OrderHandled ==
  ASSUME NEW lk, NEW ls, NEW gt, NEW mc, NEW ar,
         NEW ib \in [Stations -> Frames \cup {NoFrame}], NEW s,
         Order(lk, ls, gt, mc, ar, ib)
  PROVE  Order(lk, ls, gt, mc, ar, [ib EXCEPT ![s] = NoFrame])
<1> DEFINE new == [ib EXCEPT ![s] = NoFrame]
<1>1. \A r \in Stations : new[r] = ib[r] \/ new[r].kind = "none"
  BY FrameFacts
<1> HIDE DEF new
<1>2. Arrived(lk, gt, mc, ar, new)
  BY <1>1 DEF Order, Arrived
<1>3. HandedUp(lk, ls, gt, mc, ar, new)
  BY SMTT(30), <1>1, FlowFacts DEF Order, HandedUp
<1> QED BY <1>2, <1>3 DEF Order, new

\* A frame for its receiver is handed up unless it repeats the last one, and is
\* acknowledged in both cases.
LEMMA OrderReceive ==
  ASSUME NEW lk \in [Flows -> LinkType], NEW ls \in [Flows -> {None} \cup 0..(Seqs - 1)],
         NEW gt \in [Flows -> Seq(Nat)], NEW mc, NEW ar,
         NEW ib \in [Stations -> Frames \cup {NoFrame}],
         Order(lk, ls, gt, mc, ar, ib),
         NEW s \in Stations, ib[s].kind = "data", ib[s].dst = s
  PROVE  LET d   == ib[s]
             f   == <<d.src, s>>
             gt2 == IF ls[f] = d.seq THEN gt ELSE [gt EXCEPT ![f] = Append(@, d.nr)]
             ls2 == [ls EXCEPT ![f] = d.seq]
         IN  /\ gt2 \in [Flows -> Seq(Nat)]
             /\ \A g \in Flows : \A k : (\E i \in 1..Len(gt[g]) : gt[g][i] = k)
                                      => \E i \in 1..Len(gt2[g]) : gt2[g][i] = k
             /\ Order(lk, ls2, gt2, mc, ar, [ib EXCEPT ![s] = NoFrame])
             /\ AckOK(gt2, Ack(s, d.src, d.seq))
<1> DEFINE d == ib[s]
           f == <<d.src, s>>
           old == gt[f]
           gt2 == IF ls[f] = d.seq THEN gt ELSE [gt EXCEPT ![f] = Append(@, d.nr)]
           ls2 == [ls EXCEPT ![f] = d.seq]
           ib2 == [ib EXCEPT ![s] = NoFrame]
<1>1. DataOK(lk, d) /\ d \in DataFrames /\ d.dst = s
  BY DEF Order, Arrived, DataOK
<1>2. f \in Flows /\ f[1] = d.src /\ f[2] = s /\ d.seq = d.nr /\ d.nr \in Nat
      /\ d.seq \in 0..(Seqs - 1) /\ d.nr <= lk[f].next
  BY <1>1 DEF DataOK, DataFrames
<1>3. old \in Seq(Nat) /\ Len(old) \in Nat
  BY <1>2, LenProperties
<1>4. HandedUp(lk, ls, gt, mc, ar, ib)
  BY DEF Order
<1>5. /\ \A i, j \in 1..Len(old) : i < j => old[i] < old[j]
      /\ ls[f] = IF old = << >> THEN None ELSE old[Len(old)]
      /\ \A i \in 1..Len(old) : old[i] <= d.nr
  <2>1. \A i \in 1..Len(old) : NotAfter(old[i], f, d)
    BY <1>2, <1>4 DEF HandedUp
  <2>2. \A i \in 1..Len(old) : old[i] <= d.nr
    BY <1>1, <2>1 DEF NotAfter
  <2> QED BY <1>2, <1>4, <2>2 DEF HandedUp
<1> HIDE DEF old
<1>6. gt2 \in [Flows -> Seq(Nat)] /\ ls2[f] = d.seq
      /\ \A g \in Flows : g # f => gt2[g] = gt[g] /\ ls2[g] = ls[g]
  <2>1. ls[f] # d.seq => Append(gt[f], d.nr) \in Seq(Nat)
    BY <1>2, <1>3, AppendFacts DEF old
  <2> QED BY <1>2, <2>1
<1>7. \/ gt2[f] = old /\ old # << >> /\ old[Len(old)] = d.nr
      \/ gt2[f] = Append(old, d.nr) /\ \A i \in 1..Len(old) : old[i] < d.nr
  <2>1. CASE ls[f] = d.seq
    <3>1. old # << >>
      BY <1>2, <1>5, <2>1 DEF None
    <3> QED BY <1>2, <1>5, <2>1, <3>1 DEF old
  <2>2. CASE ls[f] # d.seq
    <3>1. gt2[f] = Append(old, d.nr)
      BY <1>2, <2>2 DEF old
    <3>2. ASSUME NEW i \in 1..Len(old)
          PROVE  old[i] < d.nr
      <4>1. old[i] \in Nat /\ old[Len(old)] \in Nat /\ Len(old) \in 1..Len(old)
            /\ old # << >>
        BY <1>3, ElementOfSeq, EmptySeq
      <4>2. old[Len(old)] # d.nr /\ old[Len(old)] <= d.nr
        BY <1>2, <1>5, <2>2, <4>1
      <4>3. CASE i = Len(old)
        BY <1>2, <4>1, <4>2, <4>3
      <4>4. CASE i < Len(old)
        <5>1. old[i] < old[Len(old)]
          BY <1>5, <4>1, <4>4
        <5> QED BY <1>2, <4>1, <4>2, <5>1
      <4> QED BY <1>3, <4>3, <4>4
    <3> QED BY <3>1, <3>2
  <2> QED BY <2>1, <2>2
<1> HIDE DEF gt2, ls2
<1>8. /\ gt2[f] # << >> /\ Len(gt2[f]) \in Nat /\ Len(gt2[f]) \in 1..Len(gt2[f])
      /\ gt2[f][Len(gt2[f])] = d.nr
      /\ \A i \in 1..Len(old) : i \in 1..Len(gt2[f]) /\ gt2[f][i] = old[i]
      /\ \A i \in 1..Len(gt2[f]) :
           \/ i \in 1..Len(old) /\ gt2[f][i] = old[i]
           \/ gt2[f][i] = d.nr /\ i = Len(gt2[f])
      /\ \A i, j \in 1..Len(gt2[f]) : i < j => gt2[f][i] < gt2[f][j]
  <2>1. CASE gt2[f] = old /\ old # << >> /\ old[Len(old)] = d.nr
    <3>1. Len(old) \in 1..Len(old)
      BY <1>3, <2>1, EmptySeq
    <3> QED BY <1>3, <1>5, <2>1, <3>1
  <2>2. CASE gt2[f] = Append(old, d.nr) /\ \A i \in 1..Len(old) : old[i] < d.nr
    <3>1. /\ Len(gt2[f]) = Len(old) + 1 /\ gt2[f][Len(old) + 1] = d.nr
          /\ \A i \in 1..Len(old) : gt2[f][i] = old[i]
      BY <1>2, <1>3, <2>2, AppendFacts
    <3>2. gt2[f] # << >>
      BY <1>3, <3>1, EmptySeq
    <3>3. ASSUME NEW i \in 1..Len(gt2[f]), NEW j \in 1..Len(gt2[f]), i < j
          PROVE  gt2[f][i] < gt2[f][j]
      <4>1. i \in 1..Len(old) /\ (j \in 1..Len(old) \/ j = Len(old) + 1)
        BY <1>3, <3>1, <3>3
      <4> QED BY <1>5, <2>2, <3>1, <3>3, <4>1
    <3>4. /\ Len(gt2[f]) \in Nat /\ Len(gt2[f]) \in 1..Len(gt2[f])
          /\ gt2[f][Len(gt2[f])] = d.nr
      BY <1>3, <3>1
    <3>5. ASSUME NEW i \in 1..Len(old)
          PROVE  i \in 1..Len(gt2[f]) /\ gt2[f][i] = old[i]
      <4>1. gt2[f][i] = old[i]
        BY <3>1
      <4>2. i \in 1..(Len(old) + 1)
        BY <1>3
      <4> QED BY <3>1, <4>1, <4>2
    <3>6. ASSUME NEW i \in 1..Len(gt2[f])
          PROVE  \/ i \in 1..Len(old) /\ gt2[f][i] = old[i]
                 \/ gt2[f][i] = d.nr /\ i = Len(gt2[f])
      <4>1. i \in 1..Len(old) \/ i = Len(old) + 1
        BY <1>3, <3>1
      <4>2. CASE i \in 1..Len(old)
        BY <3>5, <4>2
      <4>3. CASE i = Len(old) + 1
        BY <3>1, <4>3
      <4> QED BY <4>1, <4>2, <4>3
    <3> QED BY <3>2, <3>3, <3>4, <3>5, <3>6
  <2> QED BY <1>7, <2>1, <2>2
<1>9. \A g \in Flows : \A k : (\E i \in 1..Len(gt[g]) : gt[g][i] = k)
                            => \E i \in 1..Len(gt2[g]) : gt2[g][i] = k
  BY <1>6, <1>8 DEF old
<1>10. \A x : AckOK(gt, x) => AckOK(gt2, x)
  BY <1>9 DEF AckOK
<1>11. /\ ib2[s].kind = "none"
       /\ \A r \in Stations : r # s => ib2[r] = ib[r]
  BY FrameFacts
<1> HIDE DEF ib2
<1>12. Queued(lk, gt2, mc)
  BY <1>10 DEF Order, Queued
<1>13. OnAir(lk, gt2, mc, ar)
  BY <1>10 DEF Order, OnAir
<1>14. Arrived(lk, gt2, mc, ar, ib2)
  <2>1. Arrived(lk, gt, mc, ar, ib)
    BY DEF Order
  <2> QED BY <1>10, <1>11, <2>1 DEF Arrived
<1>15. HandedUp(lk, ls2, gt2, mc, ar, ib2)
  <2>1. ASSUME NEW g \in Flows, g # f
        PROVE  /\ \A i, j \in 1..Len(gt2[g]) : i < j => gt2[g][i] < gt2[g][j]
               /\ ls2[g] = IF gt2[g] = << >> THEN None ELSE gt2[g][Len(gt2[g])]
               /\ \A i \in 1..Len(gt2[g]) :
                    /\ gt2[g][i] <= lk[g].next
                    /\ \A j \in 1..Len(mc[g[1]].ql) :
                         NotAfter(gt2[g][i], g, mc[g[1]].ql[j])
                    /\ ar[g[1]].frame.kind = "data" =>
                         NotAfter(gt2[g][i], g, ar[g[1]].frame)
                    /\ ib2[g[2]].kind = "data" => NotAfter(gt2[g][i], g, ib2[g[2]])
    <3>1. ib2[g[2]].kind = "data" => ib2[g[2]] = ib[g[2]]
      BY <1>11, FlowFacts
    <3> QED BY <1>4, <1>6, <2>1, <3>1 DEF HandedUp
  <2>2. ls2[f] = IF gt2[f] = << >> THEN None ELSE gt2[f][Len(gt2[f])]
    BY <1>2, <1>6, <1>8
  <2>3. ASSUME NEW i \in 1..Len(gt2[f])
        PROVE  /\ gt2[f][i] <= lk[f].next
               /\ \A j \in 1..Len(mc[f[1]].ql) : NotAfter(gt2[f][i], f, mc[f[1]].ql[j])
               /\ ar[f[1]].frame.kind = "data" => NotAfter(gt2[f][i], f, ar[f[1]].frame)
    <3>1. CASE i \in 1..Len(old) /\ gt2[f][i] = old[i]
      BY <1>2, <1>4, <3>1 DEF HandedUp, old
    <3>2. CASE gt2[f][i] = d.nr
      <4>1. /\ \A j \in 1..Len(mc[f[1]].ql) : Before(d, mc[f[1]].ql[j])
            /\ ar[f[1]].frame.kind = "data" => Before(d, ar[f[1]].frame)
        BY <1>2 DEF Order, Arrived
      <4>2. \A e : Before(d, e) => NotAfter(d.nr, f, e)
        BY <1>1 DEF Before, NotAfter
      <4> QED BY <1>2, <3>2, <4>1, <4>2
    <3> QED BY <1>8, <3>1, <3>2
  <2>4. ib2[f[2]].kind # "data"
    BY <1>2, <1>11
  <2>5. ASSUME NEW g \in Flows
        PROVE  /\ \A i, j \in 1..Len(gt2[g]) : i < j => gt2[g][i] < gt2[g][j]
               /\ ls2[g] = IF gt2[g] = << >> THEN None ELSE gt2[g][Len(gt2[g])]
               /\ \A i \in 1..Len(gt2[g]) :
                    /\ gt2[g][i] <= lk[g].next
                    /\ \A j \in 1..Len(mc[g[1]].ql) :
                         NotAfter(gt2[g][i], g, mc[g[1]].ql[j])
                    /\ ar[g[1]].frame.kind = "data" =>
                         NotAfter(gt2[g][i], g, ar[g[1]].frame)
                    /\ ib2[g[2]].kind = "data" => NotAfter(gt2[g][i], g, ib2[g[2]])
    <3>1. CASE g = f
      <4>1. \A i, j \in 1..Len(gt2[f]) : i < j => gt2[f][i] < gt2[f][j]
        BY <1>8
      <4> HIDE DEF f
      <4> QED BY <2>2, <2>3, <2>4, <3>1, <4>1
    <3>2. CASE g # f
      BY <2>1, <3>2
    <3> QED BY <3>1, <3>2
  <2> QED BY <2>5 DEF HandedUp
<1>16. AckOK(gt2, Ack(s, d.src, d.seq))
  <2> DEFINE x == Ack(s, d.src, d.seq)
  <2>1. x \in AckFrames /\ x.src = s /\ x.dst = d.src /\ x.seq = d.seq
    BY <1>1, NewAck
  <2> HIDE DEF x
  <2>2. <<x.dst, x.src>> = f /\ x.seq = d.nr
    BY <1>2, <2>1
  <2>3. \E i \in 1..Len(gt2[f]) : gt2[f][i] = d.nr
    BY <1>8
  <2> HIDE DEF f, d
  <2>4. AckOK(gt2, x)
    BY <1>2, <2>1, <2>2, <2>3 DEF AckOK
  <2> QED BY <2>4 DEF x, d
<1> QED BY <1>6, <1>9, <1>12, <1>13, <1>14, <1>15, <1>16 DEF Order, gt2, ls2, ib2

\* A slot: the inboxes were empty, and what is received leaves the air.
LEMMA OrderPass ==
  ASSUME MacsOK(mac), air \in [Stations -> AirType],
         inbox \in [Stations -> Frames \cup {NoFrame}], loss \in Nat,
         Carrier, OverlapsAreTies, NEW heard \in [Over -> SUBSET Stations], Pass(heard),
         NEW lk, NEW ls, NEW gt, Order(lk, ls, gt, mac, air, inbox)
  PROVE  Order(lk, ls, gt, mac', air', inbox')
<1>1. \A s \in Stations :
        /\ mac'[s].qh = mac[s].qh /\ mac'[s].ql = mac[s].ql
        /\ \/ air'[s] = Silent
           \/ air[s].left > 1 /\ air'[s].frame = air[s].frame
        /\ \/ inbox'[s] = NoFrame
           \/ \E t \in Over : inbox'[s] = air[t].frame
  BY PassStep
<1>2. \A s \in Stations : air'[s].frame.kind = "none" \/ air'[s].frame = air[s].frame
  BY <1>1, FrameFacts DEF Silent
<1>3. \A t \in Over : t \in Stations /\ air'[t].frame.kind = "none"
  BY <1>1, FrameFacts DEF Over, Silent
<1>4. Queued(lk, gt, mac')
  BY SMTT(30), <1>1 DEF Order, Queued
<1>5. OnAir(lk, gt, mac', air')
  BY <1>1, <1>2 DEF Order, OnAir
<1>6. OnAir(lk, gt, mac, air) /\ HandedUp(lk, ls, gt, mac, air, inbox)
  BY DEF Order
<1>7. Arrived(lk, gt, mac', air', inbox')
  <2>1. ASSUME NEW r \in Stations, NEW t \in Over, inbox'[r] = air[t].frame
        PROVE  /\ inbox'[r].kind = "data" =>
                    /\ DataOK(lk, inbox'[r])
                    /\ inbox'[r].src = t
                    /\ \A i \in 1..Len(mac'[t].ql) : Before(inbox'[r], mac'[t].ql[i])
               /\ inbox'[r].kind = "ack" => AckOK(gt, inbox'[r])
    BY <1>1, <1>3, <1>6, <2>1 DEF OnAir
  <2>2. ASSUME NEW r \in Stations
        PROVE  /\ inbox'[r].kind = "data" =>
                    /\ DataOK(lk, inbox'[r])
                    /\ \A i \in 1..Len(mac'[inbox'[r].src].ql) :
                         Before(inbox'[r], mac'[inbox'[r].src].ql[i])
                    /\ air'[inbox'[r].src].frame.kind = "data" =>
                         Before(inbox'[r], air'[inbox'[r].src].frame)
               /\ inbox'[r].kind = "ack" => AckOK(gt, inbox'[r])
    <3>1. CASE inbox'[r] = NoFrame
      BY <3>1, FrameFacts
    <3>2. ASSUME NEW t \in Over, inbox'[r] = air[t].frame
          PROVE  /\ inbox'[r].kind = "data" =>
                      /\ DataOK(lk, inbox'[r])
                      /\ \A i \in 1..Len(mac'[inbox'[r].src].ql) :
                           Before(inbox'[r], mac'[inbox'[r].src].ql[i])
                      /\ air'[inbox'[r].src].frame.kind = "data" =>
                           Before(inbox'[r], air'[inbox'[r].src].frame)
                 /\ inbox'[r].kind = "ack" => AckOK(gt, inbox'[r])
      BY <1>3, <2>1, <3>2
    <3> QED BY <1>1, <3>1, <3>2
  <2> QED BY <2>2 DEF Arrived
<1>8. HandedUp(lk, ls, gt, mac', air', inbox')
  <2>1. ASSUME NEW f \in Flows, NEW i \in 1..Len(gt[f])
        PROVE  /\ \A j \in 1..Len(mac'[f[1]].ql) : NotAfter(gt[f][i], f, mac'[f[1]].ql[j])
               /\ air'[f[1]].frame.kind = "data" =>
                    NotAfter(gt[f][i], f, air'[f[1]].frame)
               /\ inbox'[f[2]].kind = "data" => NotAfter(gt[f][i], f, inbox'[f[2]])
    <3>1. /\ \A j \in 1..Len(mac[f[1]].ql) : NotAfter(gt[f][i], f, mac[f[1]].ql[j])
          /\ air[f[1]].frame.kind = "data" => NotAfter(gt[f][i], f, air[f[1]].frame)
      BY <1>6 DEF HandedUp
    <3>2. ASSUME inbox'[f[2]].kind = "data"
          PROVE  NotAfter(gt[f][i], f, inbox'[f[2]])
      <4>1. PICK t \in Over : inbox'[f[2]] = air[t].frame
        BY <1>1, <3>2, FlowFacts, FrameFacts
      <4>2. air[t].frame.kind = "data" /\ air[t].frame.src = t
        BY <1>3, <1>6, <3>2, <4>1 DEF OnAir
      <4>3. CASE t = f[1]
        BY <3>1, <4>1, <4>2, <4>3
      <4>4. CASE t # f[1]
        BY <4>1, <4>2, <4>4, FlowFacts DEF NotAfter
      <4> QED BY <4>3, <4>4
    <3> QED BY <1>1, <1>2, <3>1, <3>2, FlowFacts
  <2> QED BY <1>6, <2>1 DEF HandedUp
<1> QED BY <1>4, <1>5, <1>7, <1>8 DEF Order

----------------------------------------------------------------------------
(***************************************************************************)
(* The inductive invariant and the handlers.                               *)
(***************************************************************************)
IInv ==
  /\ TypeOK /\ Carrier /\ OverlapsAreTies
  /\ Order(link, last, got, mac, air, inbox)
  /\ Reported(acked, got) /\ Budget(link, load)

LEMMA PumpStep ==
  ASSUME NEW f \in Flows, NEW l \in LinkType, Used(l) < Seqs, NEW m, MacOK(m)
  PROVE  LET c == Pump(f, l, m)
         IN  /\ c.link \in LinkType /\ c.link.next = l.next /\ Used(c.link) = Used(l)
             /\ MacOK(c.mac) /\ c.mac.busy = m.busy /\ c.mac.qh = m.qh
             /\ c.mac.ql = m.ql \/ \E d \in DataFrames :
                                     /\ <<d.src, d.dst>> = f /\ d.seq = d.nr
                                     /\ d.nr = l.next /\ c.mac.ql = Append(m.ql, d)
<1> DEFINE d == Data(f, l.next, FALSE)
           n == [l EXCEPT !.queued = l.queued - 1, !.tries = 1]
<1>1. CASE l.tries > 0 \/ l.queued = 0
  BY <1>1 DEF Pump
<1>2. CASE ~(l.tries > 0 \/ l.queued = 0)
  <2>1. /\ n \in LinkType /\ n.next = l.next /\ n.tries = 1 /\ n.queued = l.queued - 1
        /\ l.next \in Nat /\ l.queued \in Nat /\ l.tries = 0 /\ l.next < Seqs
    <3>1. l.queued - 1 \in Nat /\ 1 \in 0..(MaxRetries + 1)
      BY <1>2, CsmaAssumption DEF LinkType
    <3>2. l.tries = 0 /\ l.next \in Nat /\ l.queued \in Nat
      BY <1>2, CsmaAssumption DEF LinkType
    <3>3. n \in LinkType /\ n.next = l.next /\ n.tries = 1 /\ n.queued = l.queued - 1
      BY <3>1 DEF LinkType
    <3>4. l.next < Seqs
      BY <3>2 DEF Used, Seqs
    <3> QED BY <3>2, <3>3, <3>4
  <2>2. d \in DataFrames /\ <<d.src, d.dst>> = f /\ d.nr = l.next /\ d.seq = d.nr
    BY <2>1, NewData
  <2> HIDE DEF d, n
  <2>3. Used(n) = Used(l)
    BY <2>1 DEF Used
  <2>4. /\ MacOK(Enqueue(m, d)) /\ Enqueue(m, d).busy = m.busy
        /\ Enqueue(m, d).ql = Append(m.ql, d) /\ Enqueue(m, d).qh = m.qh
    BY <2>2, EnqueueMac
  <2>5. Pump(f, l, m) = [link |-> n, mac |-> Enqueue(m, d)]
    BY <1>2 DEF Pump, d, n
  <2> QED BY <2>1, <2>2, <2>3, <2>4, <2>5
<1> QED BY <1>1, <1>2

\* What a run of the medium access after a handler preserves.
LEMMA MacStep ==
  ASSUME NEW lk \in [Flows -> LinkType], NEW gt \in [Flows -> Seq(Nat)],
         NEW ls, NEW ib, MacsOK(mac), air \in [Stations -> AirType],
         Carrier, OverlapsAreTies, Order(lk, ls, gt, mac, air, ib),
         NEW s \in Stations, NEW m, MacOK(m), m.busy = mac[s].busy,
         m.ql = mac[s].ql \/ \E d : Fresh(lk, s, d) /\ m.ql = Append(mac[s].ql, d),
         m.qh = mac[s].qh \/ \E x : AckOK(gt, x) /\ m.qh = Append(mac[s].qh, x),
         Drain(s, m)
  PROVE  /\ MacsOK(mac') /\ air' \in [Stations -> AirType]
         /\ Carrier' /\ OverlapsAreTies' /\ Order(lk, ls, gt, mac', air', ib)
<1>1. Order(lk, ls, gt, [mac EXCEPT ![s] = m], air, ib)
  BY OrderQueue
<1>2. Order(lk, ls, gt, mac', air', ib)
  BY <1>1, OrderDrain
<1> QED BY <1>2, DrainTies, DrainStep

\* A handler that changes the link of flow f as well.
LEMMA CarryStep ==
  ASSUME link \in [Flows -> LinkType], got \in [Flows -> Seq(Nat)],
         NEW ib, MacsOK(mac), air \in [Stations -> AirType],
         Carrier, OverlapsAreTies, Order(link, last, got, mac, air, ib),
         NEW f \in Flows, NEW c, c.link \in LinkType, link[f].next <= c.link.next,
         MacOK(c.mac), c.mac.busy = mac[f[1]].busy, c.mac.qh = mac[f[1]].qh,
         c.mac.ql = mac[f[1]].ql
           \/ \E d \in DataFrames : /\ <<d.src, d.dst>> = f /\ d.seq = d.nr
                                    /\ d.nr = c.link.next
                                    /\ c.mac.ql = Append(mac[f[1]].ql, d),
         Carry(f, c)
  PROVE  /\ link' \in [Flows -> LinkType]
         /\ MacsOK(mac') /\ air' \in [Stations -> AirType]
         /\ Carrier' /\ OverlapsAreTies' /\ Order(link', last, got, mac', air', ib)
<1>1. /\ link' = [link EXCEPT ![f] = c.link] /\ Drain(f[1], c.mac)
      /\ link' \in [Flows -> LinkType] /\ f[1] \in Stations
  BY FlowFacts DEF Carry
<1>2. \A g \in Flows : link[g].next <= link'[g].next
  <2>1. \A g \in Flows : link[g].next \in Nat
    BY DEF LinkType
  <2> QED BY <1>1, <2>1
<1>3. Order(link', last, got, mac, air, ib)
  BY <1>1, <1>2, OrderLink
<1>4. c.mac.ql = mac[f[1]].ql
        \/ \E d : Fresh(link', f[1], d) /\ c.mac.ql = Append(mac[f[1]].ql, d)
  <2>1. ASSUME NEW d \in DataFrames, <<d.src, d.dst>> = f, d.seq = d.nr,
               d.nr = c.link.next
        PROVE  Fresh(link', f[1], d)
    <3>1. d.src = f[1] /\ d.nr \in Nat /\ <<d.src, d.dst>> \in Flows
      BY <2>1, FlowFacts DEF DataFrames
    <3>2. link'[f].next = d.nr
      BY <1>1, <2>1
    <3>3. link'[<<d.src, d.dst>>] = link'[f]
      BY <2>1
    <3>4. link'[<<d.src, d.dst>>].next = d.nr
      BY <3>2, <3>3
    <3>5. d.nr <= d.nr
      BY <3>1
    <3>6. DataOK(link', d)
      BY <2>1, <3>1, <3>4, <3>5 DEF DataOK
    <3> QED BY <3>1, <3>4, <3>6 DEF Fresh
  <2> QED BY <2>1
<1> QED BY <1>1, <1>3, <1>4, MacStep

LEMMA UsedType ==
  ASSUME NEW l \in LinkType
  PROVE  /\ Used(l) \in Nat /\ l.next \in Nat /\ l.queued \in Nat /\ l.next <= Used(l)
         /\ l.tries \in Nat /\ (l.tries > 0 => l.next < Used(l))
<1>1. l.next \in Nat /\ l.queued \in Nat /\ l.tries \in Nat
  BY CsmaAssumption DEF LinkType
<1> QED BY <1>1 DEF Used

LEMMA InvInit == Init => IInv
<1> SUFFICES ASSUME Init PROVE IInv
  OBVIOUS
<1>1. link = [f \in Flows |-> [queued |-> 0, next |-> 0, tries |-> 0]]
      /\ load \in [Flows -> 0..(Seqs - 1)]
  BY CsmaAssumption DEF Init
<1>2. [queued |-> 0, next |-> 0, tries |-> 0] \in LinkType
  BY CsmaAssumption DEF LinkType
<1>3. [qh |-> << >>, ql |-> << >>, cw |-> CwMin, backoff |-> None, nav |-> 0,
       busy |-> FALSE, quiet |-> 0, since |-> 0] \in MacType
  <2>1. << >> \in Seq(AckFrames) /\ << >> \in Seq(DataFrames)
    OBVIOUS
  <2>2. CwMin \in CwMin..CwMax /\ 0 \in 0..(Sifs + AckAir) /\ 0 \in 0..Difs
        /\ 0 \in 0..StrobeMax
    BY CsmaAssumption
  <2> QED BY <2>1, <2>2 DEF MacType
<1>4. /\ mac = [s \in Stations |->
                  [qh |-> << >>, ql |-> << >>, cw |-> CwMin, backoff |-> None,
                   nav |-> 0, busy |-> FALSE, quiet |-> 0, since |-> 0]]
      /\ \A s \in Stations : /\ mac[s].qh = << >> /\ mac[s].ql = << >>
                             /\ mac[s].backoff = None /\ mac[s].cw = CwMin
                             /\ mac[s].busy = FALSE
  BY DEF Init
<1>5. mac \in [Stations -> MacType] /\ \A s \in Stations : mac[s].backoff < mac[s].cw
  BY <1>3, <1>4, CwBounds DEF None
<1>6. air = [s \in Stations |-> Silent] /\ inbox = [s \in Stations |-> NoFrame]
      /\ got = [f \in Flows |-> << >>] /\ acked = [f \in Flows |-> {}]
      /\ last = [f \in Flows |-> None] /\ loss = MaxLoss
  BY DEF Init
<1>7. TypeOK
  <2>1. load \in [Flows -> Nat] /\ loss \in Nat
    <3>1. \A f \in Flows : load[f] \in Nat
      BY <1>1 DEF Seqs
    <3> QED BY <1>1, <1>6, <3>1, CsmaAssumption
  <2> QED BY <1>1, <1>2, <1>5, <1>6, <2>1, AirFacts DEF TypeOK
<1>8. Carrier /\ OverlapsAreTies
  BY <1>4, <1>6 DEF Carrier, OverlapsAreTies, Sending
<1>9. Order(link, last, got, mac, air, inbox)
  <2>1. /\ \A s \in Stations : /\ air[s].frame.kind = "none" /\ inbox[s].kind = "none"
                               /\ Len(mac[s].ql) = 0 /\ Len(mac[s].qh) = 0
        /\ \A f \in Flows : got[f] = << >> /\ Len(got[f]) = 0
    BY <1>4, <1>6, FrameFacts DEF Silent
  <2>2. Queued(link, got, mac)
    BY <2>1 DEF Queued
  <2>3. OnAir(link, got, mac, air)
    BY <2>1 DEF OnAir
  <2>4. Arrived(link, got, mac, air, inbox)
    BY <2>1 DEF Arrived
  <2>5. HandedUp(link, last, got, mac, air, inbox)
    BY <1>6, <2>1 DEF HandedUp
  <2> QED BY <2>2, <2>3, <2>4, <2>5 DEF Order
<1>10. Reported(acked, got) /\ Budget(link, load)
  <2>1. \A f \in Flows : Used(link[f]) = 0
    BY <1>1 DEF Used
  <2>2. \A f \in Flows : load[f] \in 0..(Seqs - 1)
    BY <1>1
  <2>3. Budget(link, load)
    BY <2>1, <2>2 DEF Budget, Seqs
  <2> QED BY <1>6, <2>3 DEF Reported
<1> QED BY <1>7, <1>8, <1>9, <1>10 DEF IInv

LEMMA InvSendData ==
  ASSUME IInv, NEW f \in Flows, SendData(f)
  PROVE  IInv'
<1> DEFINE l == [link[f] EXCEPT !.queued = @ + 1]
           m == mac[f[1]]
           c == Pump(f, l, m)
<1>0. /\ TypeOK /\ Carrier /\ OverlapsAreTies
      /\ Order(link, last, got, mac, air, inbox)
      /\ Reported(acked, got) /\ Budget(link, load)
  BY DEF IInv
<1>1. /\ load[f] \in Nat /\ load[f] > 0 /\ load' = [load EXCEPT ![f] = @ - 1]
      /\ Carry(f, c) /\ UNCHANGED <<last, inbox, got, acked, loss>>
  BY <1>0 DEF SendData, TypeOK
<1>2. /\ l \in LinkType /\ l.next = link[f].next /\ Used(l) = Used(link[f]) + 1
      /\ Used(link[f]) \in Nat
  <2>1. link[f] \in LinkType
    BY <1>0 DEF TypeOK
  <2>2. link[f].queued \in Nat /\ link[f].next \in Nat
    BY <2>1 DEF LinkType
  <2>3. /\ l \in LinkType /\ l.next = link[f].next /\ l.tries = link[f].tries
        /\ l.queued = link[f].queued + 1
    BY <2>1, <2>2 DEF LinkType
  <2> HIDE DEF l
  <2> QED BY <2>1, <2>2, <2>3, UsedType DEF Used
<1> HIDE DEF l
<1>3. Used(link[f]) + load[f] < Seqs /\ Seqs \in Nat
  BY <1>0 DEF Budget, Seqs
<1>4. Used(l) < Seqs
  BY <1>1, <1>2, <1>3
<1>5. MacsOK(mac) /\ MacOK(m) /\ f[1] \in Stations
  BY <1>0, FlowFacts DEF TypeOK, MacsOK, MacOK
<1> HIDE DEF m
<1>6. /\ c.link \in LinkType /\ c.link.next = l.next /\ Used(c.link) = Used(l)
      /\ MacOK(c.mac) /\ c.mac.busy = m.busy /\ c.mac.qh = m.qh
      /\ c.mac.ql = m.ql \/ \E d \in DataFrames :
                              /\ <<d.src, d.dst>> = f /\ d.seq = d.nr
                              /\ d.nr = l.next /\ c.mac.ql = Append(m.ql, d)
  BY <1>2, <1>4, <1>5, PumpStep
<1> HIDE DEF c
<1>7. link[f].next <= c.link.next
  BY <1>2, <1>6 DEF LinkType
<1>8. /\ link' \in [Flows -> LinkType] /\ MacsOK(mac') /\ air' \in [Stations -> AirType]
      /\ Carrier' /\ OverlapsAreTies' /\ Order(link', last, got, mac', air', inbox)
  <2>1. link \in [Flows -> LinkType] /\ got \in [Flows -> Seq(Nat)]
        /\ air \in [Stations -> AirType]
    BY <1>0 DEF TypeOK
  <2> QED BY <1>0, <1>1, <1>2, <1>5, <1>6, <1>7, <2>1, CarryStep DEF m
<1>9. Budget(link', load') /\ load' \in [Flows -> Nat]
  <2>1. link' = [link EXCEPT ![f] = c.link] /\ link \in [Flows -> LinkType]
        /\ load \in [Flows -> Nat]
    BY <1>0, <1>1 DEF Carry, TypeOK
  <2>2. Used(c.link) + (load[f] - 1) < Seqs /\ load[f] - 1 \in Nat
    BY <1>1, <1>2, <1>3, <1>6
  <2>3. load'[f] = load[f] - 1 /\ load' \in [Flows -> Nat]
    BY <1>1, <2>1, <2>2
  <2>4. \A g \in Flows \ {f} : link'[g] = link[g] /\ load'[g] = load[g]
    BY <1>1, <2>1
  <2>5. link'[f] = c.link
    BY <2>1
  <2> QED BY <2>2, <2>3, <2>4, <2>5, <1>0 DEF Budget
<1>10. TypeOK'
  BY <1>0, <1>1, <1>8, <1>9 DEF TypeOK, MacsOK, MacOK
<1> QED BY <1>0, <1>1, <1>8, <1>9, <1>10 DEF IInv, Reported

LEMMA BudgetKept ==
  ASSUME link \in [Flows -> LinkType], load \in [Flows -> Nat], Budget(link, load),
         NEW f \in Flows, NEW l \in LinkType, Used(l) <= Used(link[f]),
         link' = [link EXCEPT ![f] = l], load' = load
  PROVE  Budget(link', load')
<1>1. /\ Used(l) \in Nat /\ Used(link[f]) \in Nat /\ load[f] \in Nat
      /\ Used(link[f]) + load[f] < Seqs /\ Seqs \in Nat
  BY UsedType DEF Budget, Seqs
<1>2. Used(l) + load[f] < Seqs
  BY <1>1
<1>3. link'[f] = l /\ \A g \in Flows : g # f => link'[g] = link[g]
  OBVIOUS
<1> QED BY <1>2, <1>3 DEF Budget

LEMMA DoneFacts ==
  ASSUME NEW l \in LinkType, l.tries > 0
  PROVE  /\ Done(l) \in LinkType /\ Used(Done(l)) = Used(l)
         /\ l.next <= Done(l).next
<1>1. l.next \in Nat /\ l.queued \in Nat /\ l.next + 1 \in Nat /\ 0 \in 0..(MaxRetries + 1)
  BY CsmaAssumption DEF LinkType
<1> DEFINE n == [l EXCEPT !.tries = 0, !.next = l.next + 1]
<1>2. /\ n \in LinkType /\ n.tries = 0 /\ n.next = l.next + 1 /\ n.queued = l.queued
  BY <1>1 DEF LinkType
<1>3. Done(l) = n
  BY DEF Done
<1> HIDE DEF n
<1> QED BY <1>1, <1>2, <1>3 DEF Used

LEMMA InvDeadline ==
  ASSUME IInv, NEW f \in Flows, Deadline(f)
  PROVE  IInv'
<1> DEFINE l == link[f]
           m == mac[f[1]]
           again == [link |-> [l EXCEPT !.tries = l.tries + 1],
                     mac  |-> Enqueue(m, Data(f, l.next, TRUE))]
           c == IF l.tries > MaxRetries THEN Pump(f, Done(l), m) ELSE again
<1>0. /\ TypeOK /\ Carrier /\ OverlapsAreTies
      /\ Order(link, last, got, mac, air, inbox)
      /\ Reported(acked, got) /\ Budget(link, load)
  BY DEF IInv
<1>1. /\ l.tries > 0 /\ Carry(f, c)
      /\ UNCHANGED <<last, inbox, got, acked, load, loss>>
  BY DEF Deadline
<1>2. /\ l \in LinkType /\ Used(l) \in Nat /\ Used(l) < Seqs /\ l.next < Used(l)
      /\ l.next \in Nat /\ l.tries \in Nat
      /\ link \in [Flows -> LinkType] /\ load \in [Flows -> Nat]
  <2>1. l \in LinkType /\ load[f] \in Nat
        /\ link \in [Flows -> LinkType] /\ load \in [Flows -> Nat]
    BY <1>0 DEF TypeOK
  <2>2. Used(l) + load[f] < Seqs
    BY <1>0 DEF Budget
  <2> HIDE DEF l
  <2> QED BY <1>1, <2>1, <2>2, UsedType DEF Seqs
<1>3. MacsOK(mac) /\ MacOK(m) /\ f[1] \in Stations
  BY <1>0, FlowFacts DEF TypeOK, MacsOK, MacOK
<1> HIDE DEF l, m
<1>4. /\ c.link \in LinkType /\ l.next <= c.link.next /\ Used(c.link) = Used(l)
      /\ MacOK(c.mac) /\ c.mac.busy = m.busy /\ c.mac.qh = m.qh
      /\ c.mac.ql = m.ql \/ \E d \in DataFrames :
                              /\ <<d.src, d.dst>> = f /\ d.seq = d.nr
                              /\ d.nr = c.link.next /\ c.mac.ql = Append(m.ql, d)
  <2>1. CASE l.tries > MaxRetries
    <3>1. /\ Done(l) \in LinkType /\ Used(Done(l)) = Used(l) /\ l.next <= Done(l).next
      BY <1>1, <1>2, DoneFacts
    <3>2. LET k == Pump(f, Done(l), m)
          IN  /\ k.link \in LinkType /\ k.link.next = Done(l).next
              /\ Used(k.link) = Used(Done(l))
              /\ MacOK(k.mac) /\ k.mac.busy = m.busy /\ k.mac.qh = m.qh
              /\ k.mac.ql = m.ql \/ \E d \in DataFrames :
                                      /\ <<d.src, d.dst>> = f /\ d.seq = d.nr
                                      /\ d.nr = Done(l).next
                                      /\ k.mac.ql = Append(m.ql, d)
      BY <1>2, <1>3, <3>1, PumpStep
    <3>3. c = Pump(f, Done(l), m)
      BY <2>1
    <3> HIDE DEF c
    <3> QED BY <3>1, <3>2, <3>3
  <2>2. CASE ~(l.tries > MaxRetries)
    <3> DEFINE n == [l EXCEPT !.tries = l.tries + 1]
               d == Data(f, l.next, TRUE)
    <3>1. /\ n \in LinkType /\ n.next = l.next /\ n.tries = l.tries + 1
          /\ n.queued = l.queued
      <4>1. l.tries + 1 \in 0..(MaxRetries + 1)
        BY <1>2, <2>2, CsmaAssumption DEF LinkType
      <4> QED BY <1>2, <4>1 DEF LinkType
    <3>2. d \in DataFrames /\ <<d.src, d.dst>> = f /\ d.nr = l.next /\ d.seq = d.nr
      <4>1. l.next < Seqs /\ l.next \in Nat
        BY <1>2 DEF Seqs
      <4> HIDE DEF n, again, c
      <4>2. LET e == Data(f, l.next, TRUE)
            IN  /\ e \in DataFrames /\ e.nr = l.next /\ e.seq = l.next
                /\ <<e.src, e.dst>> = f
        BY ONLY <4>1, f \in Flows, NewData
      <4> QED BY <4>2
    <3>3. c = [link |-> n, mac |-> Enqueue(m, d)]
      BY <2>2
    <3> HIDE DEF n, d, c
    <3>4. /\ MacOK(Enqueue(m, d)) /\ Enqueue(m, d).busy = m.busy
          /\ Enqueue(m, d).ql = Append(m.ql, d) /\ Enqueue(m, d).qh = m.qh
      BY <1>3, <3>2, EnqueueMac
    <3>5. Used(n) = Used(l) /\ l.next <= n.next
      BY <1>1, <1>2, <3>1 DEF Used
    <3> QED BY <3>1, <3>2, <3>3, <3>4, <3>5
  <2> QED BY <2>1, <2>2
<1> HIDE DEF c
<1>5. /\ link' \in [Flows -> LinkType] /\ MacsOK(mac') /\ air' \in [Stations -> AirType]
      /\ Carrier' /\ OverlapsAreTies' /\ Order(link', last, got, mac', air', inbox)
  <2>1. link \in [Flows -> LinkType] /\ got \in [Flows -> Seq(Nat)]
        /\ air \in [Stations -> AirType]
    BY <1>0 DEF TypeOK
  <2> QED BY <1>0, <1>1, <1>3, <1>4, <2>1, CarryStep DEF l, m
<1>6. Budget(link', load')
  <2>1. link' = [link EXCEPT ![f] = c.link] /\ load' = load
    BY <1>1 DEF Carry
  <2>2. Used(c.link) <= Used(link[f])
    BY <1>2, <1>4 DEF l
  <2> QED BY <1>0, <1>2, <1>4, <2>1, <2>2, BudgetKept
<1>7. TypeOK'
  BY <1>0, <1>1, <1>5 DEF TypeOK, MacsOK, MacOK
<1> QED BY <1>0, <1>1, <1>5, <1>6, <1>7 DEF IInv, Reported

LEMMA InvStrobe ==
  ASSUME IInv, NEW s \in Stations, Strobe(s)
  PROVE  IInv'
<1>0. /\ TypeOK /\ Carrier /\ OverlapsAreTies
      /\ Order(link, last, got, mac, air, inbox)
      /\ Reported(acked, got) /\ Budget(link, load)
  BY DEF IInv
<1>1. Drain(s, mac[s]) /\ UNCHANGED <<link, last, inbox, got, acked, load, loss>>
  BY DEF Strobe
<1>2. /\ MacsOK(mac) /\ MacOK(mac[s])
      /\ link \in [Flows -> LinkType] /\ got \in [Flows -> Seq(Nat)]
      /\ air \in [Stations -> AirType]
  BY <1>0 DEF TypeOK, MacsOK, MacOK
<1>3. /\ MacsOK(mac') /\ air' \in [Stations -> AirType]
      /\ Carrier' /\ OverlapsAreTies' /\ Order(link, last, got, mac', air', inbox)
  BY <1>0, <1>1, <1>2, MacStep
<1>4. TypeOK'
  BY <1>0, <1>1, <1>3 DEF TypeOK, MacsOK, MacOK
<1> QED BY <1>0, <1>1, <1>3, <1>4 DEF IInv, Reported, Budget

LEMMA InvPass ==
  ASSUME IInv, NEW heard \in [Over -> SUBSET Stations], Pass(heard)
  PROVE  IInv'
<1>0. /\ TypeOK /\ Carrier /\ OverlapsAreTies
      /\ Order(link, last, got, mac, air, inbox)
      /\ Reported(acked, got) /\ Budget(link, load)
  BY SMTT(30) DEF IInv
<1>1. UNCHANGED <<link, last, got, acked, load>>
  BY DEF Pass
<1>2. /\ MacsOK(mac) /\ air \in [Stations -> AirType] /\ loss \in Nat
      /\ inbox \in [Stations -> Frames \cup {NoFrame}]
  BY <1>0 DEF TypeOK, MacsOK, MacOK
<1>3. Order(link, last, got, mac', air', inbox')
  BY <1>0, <1>2, OrderPass
<1>4. /\ MacsOK(mac') /\ air' \in [Stations -> AirType] /\ loss' \in Nat
      /\ inbox' \in [Stations -> Frames \cup {NoFrame}] /\ Carrier' /\ OverlapsAreTies'
  BY <1>0, <1>2, PassStep
<1>5. TypeOK'
  BY <1>0, <1>1, <1>4 DEF TypeOK, MacsOK, MacOK
<1> QED BY <1>0, <1>1, <1>3, <1>4, <1>5 DEF IInv, Reported, Budget

LEMMA InvOnRxAck ==
  ASSUME IInv, NEW s \in Stations, OnRxAck(s)
  PROVE  IInv'
<1> DEFINE a == inbox[s]
           f == <<s, a.src>>
           m == NoteRx(mac[s], a)
           l == link[f]
           c == Pump(f, Done(l), m)
<1>0. /\ TypeOK /\ Carrier /\ OverlapsAreTies
      /\ Order(link, last, got, mac, air, inbox)
      /\ Reported(acked, got) /\ Budget(link, load)
  BY DEF IInv
<1>1. /\ a.kind = "ack" /\ inbox' = [inbox EXCEPT ![s] = NoFrame]
      /\ UNCHANGED <<last, got, load, loss>>
      /\ \/ /\ a.dst = s /\ l.tries > 0 /\ a.seq = l.next % Seqs
            /\ acked' = [acked EXCEPT ![f] = @ \cup {l.next}] /\ Carry(f, c)
         \/ Drain(s, m) /\ UNCHANGED <<link, acked>>
  BY DEF OnRxAck, Received
<1>2. /\ MacsOK(mac) /\ MacOK(mac[s]) /\ link \in [Flows -> LinkType]
      /\ air \in [Stations -> AirType] /\ got \in [Flows -> Seq(Nat)]
      /\ inbox \in [Stations -> Frames \cup {NoFrame}] /\ load \in [Flows -> Nat]
      /\ acked \in [Flows -> SUBSET Nat]
  BY <1>0 DEF TypeOK, MacsOK, MacOK
<1>3. AckOK(got, a) /\ a \in Frames
  <2>1. AckOK(got, a)
    BY <1>0, <1>1 DEF Order, Arrived
  <2> QED BY <2>1, FrameFacts DEF AckOK
<1>4. MacOK(m) /\ m.qh = mac[s].qh /\ m.ql = mac[s].ql /\ m.busy = mac[s].busy
  BY <1>2, <1>3, NoteRxMac
<1>5. /\ Order(link, last, got, mac, air, inbox')
      /\ inbox' \in [Stations -> Frames \cup {NoFrame}]
  BY <1>0, <1>1, <1>2, OrderHandled
<1> HIDE DEF a, m
<1>6. CASE Drain(s, m) /\ UNCHANGED <<link, acked>>
  <2>1. /\ MacsOK(mac') /\ air' \in [Stations -> AirType]
        /\ Carrier' /\ OverlapsAreTies' /\ Order(link, last, got, mac', air', inbox')
    BY <1>0, <1>2, <1>4, <1>5, <1>6, MacStep
  <2>2. TypeOK'
    BY <1>0, <1>1, <1>5, <1>6, <2>1 DEF TypeOK, MacsOK, MacOK
  <2> QED BY <1>0, <1>1, <1>6, <2>1, <2>2 DEF IInv, Reported, Budget
<1>7. CASE /\ a.dst = s /\ l.tries > 0 /\ a.seq = l.next % Seqs
           /\ acked' = [acked EXCEPT ![f] = @ \cup {l.next}] /\ Carry(f, c)
  <2>1. f \in Flows /\ f[1] = s /\ \E i \in 1..Len(got[f]) : got[f][i] = a.seq
    BY <1>3, <1>7 DEF AckOK
  <2> HIDE DEF f
  <2>2. l \in LinkType /\ Used(l) \in Nat /\ Used(l) < Seqs /\ l.next \in Nat
        /\ l.next < Seqs
    <3>1. l \in LinkType /\ load[f] \in Nat
      BY <1>2, <2>1
    <3>2. Used(l) + load[f] < Seqs
      BY <1>0, <2>1 DEF Budget
    <3> HIDE DEF l
    <3> QED BY <3>1, <3>2, UsedType DEF Seqs
  <2>3. a.seq = l.next
    BY <1>7, <2>2 DEF Seqs
  <2> HIDE DEF l
  <2>4. Done(l) \in LinkType /\ Used(Done(l)) = Used(l) /\ l.next <= Done(l).next
    BY <1>7, <2>2, DoneFacts
  <2>5. /\ c.link \in LinkType /\ c.link.next = Done(l).next
        /\ Used(c.link) = Used(Done(l))
        /\ MacOK(c.mac) /\ c.mac.busy = m.busy /\ c.mac.qh = m.qh
        /\ c.mac.ql = m.ql \/ \E d \in DataFrames :
                                /\ <<d.src, d.dst>> = f /\ d.seq = d.nr
                                /\ d.nr = Done(l).next /\ c.mac.ql = Append(m.ql, d)
    <3> DEFINE l2 == Done(l)
    <3>1. l2 \in LinkType /\ Used(l2) < Seqs
      BY <2>2, <2>4
    <3> HIDE DEF l2
    <3>2. LET k == Pump(f, l2, m)
          IN  /\ k.link \in LinkType /\ k.link.next = l2.next /\ Used(k.link) = Used(l2)
              /\ MacOK(k.mac) /\ k.mac.busy = m.busy /\ k.mac.qh = m.qh
              /\ k.mac.ql = m.ql \/ \E d \in DataFrames :
                                      /\ <<d.src, d.dst>> = f /\ d.seq = d.nr
                                      /\ d.nr = l2.next /\ k.mac.ql = Append(m.ql, d)
      BY <1>4, <2>1, <3>1, PumpStep, ZenonT(40)
    <3> QED BY <3>2 DEF l2
  <2> HIDE DEF c
  <2>6. /\ link' \in [Flows -> LinkType] /\ MacsOK(mac')
        /\ air' \in [Stations -> AirType] /\ Carrier' /\ OverlapsAreTies'
        /\ Order(link', last, got, mac', air', inbox')
    <3>1. /\ MacOK(c.mac) /\ c.mac.busy = mac[f[1]].busy /\ c.mac.qh = mac[f[1]].qh
          /\ c.mac.ql = mac[f[1]].ql
               \/ \E d \in DataFrames : /\ <<d.src, d.dst>> = f /\ d.seq = d.nr
                                        /\ d.nr = c.link.next
                                        /\ c.mac.ql = Append(mac[f[1]].ql, d)
      BY <1>4, <2>1, <2>5
    <3>2. c.link \in LinkType /\ link[f].next <= c.link.next /\ Carry(f, c)
      BY <1>7, <2>4, <2>5 DEF l
    <3> QED BY <1>0, <1>2, <1>5, <2>1, <3>1, <3>2, CarryStep
  <2>7. Budget(link', load')
    <3>1. link' = [link EXCEPT ![f] = c.link] /\ load' = load
      BY <1>1, <1>7 DEF Carry
    <3>2. Used(c.link) <= Used(link[f]) /\ c.link \in LinkType
      BY <2>2, <2>4, <2>5 DEF l
    <3> QED BY <1>0, <1>2, <2>1, <3>1, <3>2, BudgetKept
  <2>8. Reported(acked', got) /\ acked' \in [Flows -> SUBSET Nat]
    <3>1. acked'[f] = acked[f] \cup {l.next}
          /\ \A g \in Flows : g # f => acked'[g] = acked[g]
      BY <1>2, <1>7, <2>1
    <3>2. acked' \in [Flows -> SUBSET Nat]
      BY <1>2, <1>7, <2>1, <2>2
    <3>3. \E i \in 1..Len(got[f]) : got[f][i] = l.next
      BY <2>1, <2>3
    <3> QED BY <1>0, <2>1, <3>1, <3>2, <3>3 DEF Reported
  <2>9. TypeOK'
    BY <1>0, <1>1, <1>5, <2>6, <2>8 DEF TypeOK, MacsOK, MacOK
  <2> QED BY <1>1, <2>6, <2>7, <2>8, <2>9 DEF IInv
<1> QED BY <1>1, <1>6, <1>7

LEMMA InvOnRxData ==
  ASSUME IInv, NEW s \in Stations, OnRxData(s)
  PROVE  IInv'
<1> DEFINE d == inbox[s]
           f == <<d.src, s>>
           m == NoteRx(mac[s], d)
           x == Ack(s, d.src, d.seq)
           gt2 == IF last[f] = d.seq THEN got ELSE [got EXCEPT ![f] = Append(@, d.nr)]
           ls2 == [last EXCEPT ![f] = d.seq]
<1>0. /\ TypeOK /\ Carrier /\ OverlapsAreTies
      /\ Order(link, last, got, mac, air, inbox)
      /\ Reported(acked, got) /\ Budget(link, load)
  BY DEF IInv
<1>1. /\ d.kind = "data" /\ inbox' = [inbox EXCEPT ![s] = NoFrame]
      /\ UNCHANGED <<link, acked, load, loss>>
      /\ \/ /\ d.dst = s /\ Drain(s, Enqueue(m, x)) /\ last' = ls2 /\ got' = gt2
         \/ Drain(s, m) /\ UNCHANGED <<last, got>>
  BY DEF OnRxData, Received
<1>2. /\ MacsOK(mac) /\ MacOK(mac[s]) /\ link \in [Flows -> LinkType]
      /\ air \in [Stations -> AirType] /\ got \in [Flows -> Seq(Nat)]
      /\ inbox \in [Stations -> Frames \cup {NoFrame}]
      /\ last \in [Flows -> {None} \cup 0..(Seqs - 1)]
  BY <1>0 DEF TypeOK, MacsOK, MacOK
<1>3. d \in DataFrames /\ d \in Frames /\ d.seq \in 0..(Seqs - 1)
  <2>1. d \in DataFrames
    BY <1>0, <1>1 DEF Order, Arrived, DataOK
  <2> QED BY <2>1, FrameFacts DEF DataFrames
<1>4. MacOK(m) /\ m.qh = mac[s].qh /\ m.ql = mac[s].ql /\ m.busy = mac[s].busy
  BY <1>2, <1>3, NoteRxMac
<1>5. inbox' \in [Stations -> Frames \cup {NoFrame}]
  BY <1>1, <1>2
<1> HIDE DEF m
<1>6. CASE Drain(s, m) /\ UNCHANGED <<last, got>>
  <2>1. Order(link, last, got, mac, air, inbox')
    BY <1>0, <1>1, <1>2, OrderHandled
  <2>2. /\ MacsOK(mac') /\ air' \in [Stations -> AirType]
        /\ Carrier' /\ OverlapsAreTies' /\ Order(link, last, got, mac', air', inbox')
    BY <1>0, <1>2, <1>4, <1>6, <2>1, MacStep
  <2>3. TypeOK'
    BY <1>0, <1>1, <1>5, <1>6, <2>2 DEF TypeOK, MacsOK, MacOK
  <2> QED BY <1>0, <1>1, <1>6, <2>2, <2>3 DEF IInv, Reported, Budget
<1>7. CASE d.dst = s /\ Drain(s, Enqueue(m, x)) /\ last' = ls2 /\ got' = gt2
  <2>1. /\ gt2 \in [Flows -> Seq(Nat)]
        /\ \A g \in Flows : \A k : (\E i \in 1..Len(got[g]) : got[g][i] = k)
                                     => \E i \in 1..Len(gt2[g]) : gt2[g][i] = k
        /\ Order(link, ls2, gt2, mac, air, [inbox EXCEPT ![s] = NoFrame])
        /\ AckOK(gt2, x)
    BY <1>0, <1>1, <1>2, <1>7, OrderReceive
  <2>2. ls2 \in [Flows -> {None} \cup 0..(Seqs - 1)]
    BY <1>2, <1>3
  <2> HIDE DEF gt2, ls2, x, d
  <2>3. /\ MacOK(Enqueue(m, x)) /\ Enqueue(m, x).busy = mac[s].busy
        /\ Enqueue(m, x).qh = Append(mac[s].qh, x) /\ Enqueue(m, x).ql = mac[s].ql
    <3>1. x \in AckFrames
      BY <2>1 DEF AckOK
    <3> QED BY <1>4, <3>1, EnqueueMac
  <2>4. /\ MacsOK(mac') /\ air' \in [Stations -> AirType]
        /\ Carrier' /\ OverlapsAreTies' /\ Order(link, ls2, gt2, mac', air', inbox')
    <3> DEFINE n == Enqueue(m, x)
    <3>1. /\ MacOK(n) /\ n.busy = mac[s].busy /\ n.ql = mac[s].ql
          /\ \E y : AckOK(gt2, y) /\ n.qh = Append(mac[s].qh, y)
          /\ Drain(s, n) /\ Order(link, ls2, gt2, mac, air, inbox')
      BY <1>1, <1>7, <2>1, <2>3
    <3> HIDE DEF n
    <3> QED BY <1>0, <1>2, <2>1, <3>1, MacStep
  <2>5. Reported(acked, gt2)
    BY <1>0, <2>1 DEF Reported
  <2>6. TypeOK'
    BY <1>0, <1>1, <1>5, <1>7, <2>1, <2>2, <2>4 DEF TypeOK, MacsOK, MacOK
  <2> QED BY <1>0, <1>1, <1>7, <2>4, <2>5, <2>6 DEF IInv, Reported, Budget
<1> QED BY <1>1, <1>6, <1>7

LEMMA InvNext == IInv /\ [Next]_vars => IInv'
<1> SUFFICES ASSUME IInv, [Next]_vars PROVE IInv'
  OBVIOUS
<1>1. CASE UNCHANGED vars
  BY <1>1 DEF vars, IInv, TypeOK, Carrier, OverlapsAreTies, Sending, Airtime,
              Order, Reported, Budget
<1>2. ASSUME NEW f \in Flows, SendData(f) PROVE IInv'
  BY <1>2, InvSendData
<1>3. ASSUME NEW f \in Flows, Deadline(f) PROVE IInv'
  BY <1>3, InvDeadline
<1>4. ASSUME NEW s \in Stations, Strobe(s) PROVE IInv'
  BY <1>4, InvStrobe
<1>5. ASSUME NEW s \in Stations, OnRxAck(s) PROVE IInv'
  BY <1>5, InvOnRxAck
<1>6. ASSUME NEW s \in Stations, OnRxData(s) PROVE IInv'
  BY <1>6, InvOnRxData
<1>7. ASSUME NEW heard \in [Over -> SUBSET Stations], Pass(heard) PROVE IInv'
  BY <1>7, InvPass
<1> QED BY <1>1, <1>2, <1>3, <1>4, <1>5, <1>6, <1>7 DEF Next

LEMMA Invariance == Spec => []IInv
BY InvInit, InvNext, PTL DEF Spec

\* The state has its types, and a resumed countdown stays inside its contention
\* window, however often the window doubles (MacState.enqueue, on_tick).
THEOREM TypeCorrect == Spec => []TypeOK
<1>1. IInv => TypeOK
  BY DEF IInv
<1> QED BY <1>1, Invariance, PTL

\* Frames overlap only if they began in the same slot, for any number of
\* stations, airtimes and strobes (MacState._idle, on_tick).
THEOREM TiesOnly == Spec => []OverlapsAreTies
<1>1. IInv => OverlapsAreTies
  BY DEF IInv
<1> QED BY <1>1, Invariance, PTL

\* Whatever copies of old frames the medium access still holds, a frame is handed
\* up once and in order, and one reported acknowledged has been (LinkState.on_rx).
THEOREM StopAndWait == Spec => []InOrderOnce
<1>1. ASSUME IInv PROVE InOrderOnce
  <2>1. HandedUp(link, last, got, mac, air, inbox) /\ Reported(acked, got)
    BY <1>1 DEF IInv, Order
  <2> QED BY <2>1 DEF InOrderOnce, HandedUp, Reported
<1> QED BY <1>1, Invariance, PTL

=============================================================================
