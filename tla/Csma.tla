-------------------------------- MODULE Csma --------------------------------
(***************************************************************************)
(* Stations that share one channel: the CSMA/CA medium access of           *)
(* bpsk_mac.py (MacState) under the stop-and-wait link of bpsk_link.py,    *)
(* joined by the shim of bpsk_csma_link_layer.py.  The link decides what   *)
(* to send and when to repeat it, without knowing when a frame leaves; the *)
(* medium access decides when, without knowing what was acknowledged.      *)
(*                                                                         *)
(* Time passes in slots.  The medium access runs at every received frame,  *)
(* at every frame handed to it and at a strobe which is slower than a      *)
(* slot and differs from station to station.  The deadline of a frame is   *)
(* computed from the time the link takes it to leave, which the medium     *)
(* access may exceed by any amount: it may pass at any time.               *)
(*                                                                         *)
(* A transmission is sensed from the slot after its first.  Frames that    *)
(* overlap are lost to third stations; a station that sends while one      *)
(* arrives may miss it.  Beacons, files and broadcasts are left out.       *)
(***************************************************************************)
EXTENDS Integers, Sequences, FiniteSets

CONSTANTS
  Stations,     \* a set of numbers
  Loads,        \* how many frames the user may send on each flow
  Sifs, Difs,   \* gaps before an acknowledgement and before data, in slots
  AckAir,       \* time of an acknowledgement on the air, in slots
  DataAir,      \* time of a data frame on the air
  CwMin, CwMax, \* bounds of the contention window
  StrobeMax,    \* bound: slots between two runs of the medium access
  MaxRetries,
  MaxLoss       \* bound: receptions that noise destroys

Seqs == 256     \* sequence numbers are of 8 bits

Flows == {f \in Stations \X Stations : f[1] # f[2]}

ASSUME CsmaAssumption ==
  /\ Stations \subseteq Nat /\ IsFiniteSet(Stations)
  /\ Loads \subseteq [Flows -> 0..(Seqs - 1)]
  /\ Sifs \in Nat /\ Difs \in Nat
  /\ AckAir \in Nat \ {0} /\ DataAir \in Nat \ {0}
  /\ CwMin \in Nat \ {0} /\ CwMax \in Nat /\ CwMin <= CwMax
  /\ StrobeMax \in Nat \ {0} /\ MaxRetries \in Nat /\ MaxLoss \in Nat

VARIABLES
  link,    \* Peer, for every flow: queued frames, the number of the frame sent
           \* or next, its transmissions (0: none is pending)
  last,    \* last_rx_seq of the receiver of a flow
  mac,     \* MacState of every station
  air,     \* the frame a station is sending
  inbox,   \* the frame a station has just received
  got,     \* history: the frames of a flow handed up, in that order
  acked,   \* history: the frames of a flow reported acknowledged
  load,    \* frames left to send
  loss     \* receptions noise may still destroy

vars == <<link, last, mac, air, inbox, got, acked, load, loss>>

None   == -1
NoFrame == [kind |-> "none"]
Silent  == [frame |-> NoFrame, left |-> 0, hit |-> {}]

Data(flow, k, retry) ==
  [kind |-> "data", src |-> flow[1], dst |-> flow[2], seq |-> k % Seqs,
   nr |-> k, retry |-> retry]
Ack(src, dst, n) == [kind |-> "ack", src |-> src, dst |-> dst, seq |-> n]

Airtime(frame) == IF frame.kind = "ack" THEN AckAir ELSE DataAir

Sending(s) == air[s] # Silent

Init ==
  /\ link = [f \in Flows |-> [queued |-> 0, next |-> 0, tries |-> 0]]
  /\ last = [f \in Flows |-> None]
  /\ mac = [s \in Stations |->
              [qh |-> << >>, ql |-> << >>, cw |-> CwMin, backoff |-> None,
               nav |-> 0, busy |-> FALSE, quiet |-> 0, since |-> 0]]
  /\ air = [s \in Stations |-> Silent]
  /\ inbox = [s \in Stations |-> NoFrame]
  /\ got = [f \in Flows |-> << >>]
  /\ acked = [f \in Flows |-> {}]
  /\ load \in Loads /\ loss = MaxLoss

-----------------------------------------------------------------------------
(***************************************************************************)
(* MacState.  nav is what is left until nav_until; quiet is the time since *)
(* the later of _idle_since and nav_until, up to Difs; since is the time   *)
(* since on_tick ran last with a frame waiting.                            *)
(***************************************************************************)
\* note_rx: the medium is not free before the acknowledgement has passed.
NoteRx(m, frame) ==
  IF frame.kind = "ack" \/ m.nav >= Sifs + AckAir THEN m
  ELSE [m EXCEPT !.nav = Sifs + AckAir, !.quiet = 0]

\* Mutant: the window doubles without bound.
MutantEnqueue(m, frame) ==
  IF frame.kind = "ack" THEN [m EXCEPT !.qh = Append(m.qh, frame)]
  ELSE IF ~frame.retry THEN [m EXCEPT !.ql = Append(m.ql, frame)]
  ELSE [m EXCEPT !.ql = Append(m.ql, frame), !.cw = 2 * m.cw, !.backoff = None]

\* enqueue: a repetition was not acknowledged, so the contention window grows.
Enqueue(m, frame) ==
  IF frame.kind = "ack" THEN [m EXCEPT !.qh = Append(m.qh, frame)]
  ELSE IF ~frame.retry THEN [m EXCEPT !.ql = Append(m.ql, frame)]
  ELSE [m EXCEPT !.ql = Append(m.ql, frame),
                 !.cw = IF 2 * m.cw > CwMax THEN CwMax ELSE 2 * m.cw,
                 !.backoff = None]

Waiting(m) == m.qh # << >> \/ m.ql # << >>

\* Mutant: the detector is not asked, only the frames that were understood.
MutantIdle(m) == m.nav = 0

Idle(m) == ~m.busy /\ m.nav = 0

\* Mutant: the countdown is drawn again at every run.
MutantCountdown(m) == 0..(m.cw - 1)

\* The countdown after this run: a first one is drawn, an old one resumed.
Countdown(m) ==
  IF m.backoff = None THEN 0..(m.cw - 1)
  ELSE {IF m.backoff > m.since THEN m.backoff - m.since ELSE 0}

Ran(m, out) == [mac |-> [m EXCEPT !.since = 0], out |-> out]

Release(m) ==
  Ran([m EXCEPT !.ql = Tail(m.ql), !.backoff = None,
                !.cw = IF Head(m.ql).retry THEN m.cw ELSE CwMin], Head(m.ql))

\* on_tick: what it may come to, and the frame it clears for transmission.
OnTick(m, sending) ==
  IF sending THEN {Ran(m, NoFrame)}
  ELSE IF ~Waiting(m) THEN {Ran([m EXCEPT !.backoff = None], NoFrame)}
  ELSE IF m.qh # << >> THEN
    {IF Idle(m) /\ m.quiet >= Sifs
     THEN Ran([m EXCEPT !.qh = Tail(m.qh)], Head(m.qh))
     ELSE Ran(m, NoFrame)}
  ELSE IF ~Idle(m) \/ m.quiet < Difs THEN {Ran(m, NoFrame)}
  ELSE {IF n = 0 THEN Release(m) ELSE Ran([m EXCEPT !.backoff = n], NoFrame) :
          n \in Countdown(m)}

\* _drain_mac: the medium access of s runs from m on.
Drain(s, m) ==
  \E t \in OnTick(m, Sending(s)) :
    /\ mac' = [mac EXCEPT ![s] = t.mac]
    /\ air' = IF t.out = NoFrame THEN air
              ELSE LET on == {r \in Stations : Sending(r)}
                   IN  [r \in Stations |->
                          IF r = s THEN [frame |-> t.out, hit |-> on,
                                         left |-> Airtime(t.out)]
                          ELSE IF r \in on THEN [air[r] EXCEPT !.hit = @ \cup {s}]
                          ELSE air[r]]

-----------------------------------------------------------------------------
(***************************************************************************)
(* LinkState and the shim                                                  *)
(***************************************************************************)
\* _pump: the next frame of a flow, if none is pending.
Pump(f, l, m) ==
  IF l.tries > 0 \/ l.queued = 0 THEN [link |-> l, mac |-> m]
  ELSE [link |-> [l EXCEPT !.queued = l.queued - 1, !.tries = 1],
        mac  |-> Enqueue(m, Data(f, l.next, FALSE))]

Carry(f, c) == link' = [link EXCEPT ![f] = c.link] /\ Drain(f[1], c.mac)

Done(l) == [l EXCEPT !.tries = 0, !.next = l.next + 1]

SendData(f) ==
  /\ load[f] > 0
  /\ load' = [load EXCEPT ![f] = @ - 1]
  /\ Carry(f, Pump(f, [link[f] EXCEPT !.queued = @ + 1], mac[f[1]]))
  /\ UNCHANGED <<last, inbox, got, acked, loss>>

\* The strobe that finds no deadline passed, and the one that finds that of the
\* frame pending in f passed.
Strobe(s) ==
  /\ mac[s].since > 0
  /\ Drain(s, mac[s])
  /\ UNCHANGED <<link, last, inbox, got, acked, load, loss>>

Deadline(f) ==
  LET l == link[f]
      m == mac[f[1]]
  IN  /\ l.tries > 0
      /\ Carry(f, IF l.tries > MaxRetries THEN Pump(f, Done(l), m)
                  ELSE [link |-> [l EXCEPT !.tries = l.tries + 1],
                        mac  |-> Enqueue(m, Data(f, l.next, TRUE))])
      /\ UNCHANGED <<last, inbox, got, acked, load, loss>>

\* _on_rx of the shim, for the frame s has received.
Received(s, kind) == inbox[s].kind = kind /\ inbox' = [inbox EXCEPT ![s] = NoFrame]

\* Mutant: whatever is pending is taken to be acknowledged.
MutantOnRxAck(s) ==
  LET a == inbox[s]
      f == <<s, a.src>>
      m == NoteRx(mac[s], a)
      l == link[f]
  IN  /\ Received(s, "ack")
      /\ IF a.dst = s /\ l.tries > 0
         THEN /\ acked' = [acked EXCEPT ![f] = @ \cup {l.next}]
              /\ Carry(f, Pump(f, Done(l), m))
         ELSE Drain(s, m) /\ UNCHANGED <<link, acked>>
      /\ UNCHANGED <<last, got, load, loss>>

OnRxAck(s) ==
  LET a == inbox[s]
      f == <<s, a.src>>
      m == NoteRx(mac[s], a)
      l == link[f]
  IN  /\ Received(s, "ack")
      /\ IF a.dst = s /\ l.tries > 0 /\ a.seq = l.next % Seqs
         THEN /\ acked' = [acked EXCEPT ![f] = @ \cup {l.next}]
              /\ Carry(f, Pump(f, Done(l), m))
         ELSE Drain(s, m) /\ UNCHANGED <<link, acked>>
      /\ UNCHANGED <<last, got, load, loss>>

OnRxData(s) ==
  LET d == inbox[s]
      f == <<d.src, s>>
      m == NoteRx(mac[s], d)
  IN  /\ Received(s, "data")
      /\ IF d.dst = s
         THEN /\ Drain(s, Enqueue(m, Ack(s, d.src, d.seq)))
              /\ last' = [last EXCEPT ![f] = d.seq]
              /\ got' = IF last[f] = d.seq THEN got
                        ELSE [got EXCEPT ![f] = Append(@, d.nr)]
         ELSE Drain(s, m) /\ UNCHANGED <<last, got>>
      /\ UNCHANGED <<link, acked, load, loss>>

-----------------------------------------------------------------------------
(***************************************************************************)
(* The air                                                                 *)
(***************************************************************************)
\* set_busy, after a slot: the quiet begins where carrier or nav end.
Sensed(m, busy) ==
  [m EXCEPT !.busy = busy,
            !.quiet = IF (m.busy /\ ~busy) \/ m.nav > 0 THEN 0
                      ELSE IF m.quiet < Difs THEN m.quiet + 1 ELSE Difs]

Over == {s \in Stations : air[s].left = 1}

\* A slot passes.  heard is who receives a frame that ends with it.
Pass(heard) ==
  LET within(s) == {r \in Stations \ {s} : air[s].hit \subseteq {r}}
      noise     == {p \in Over \X Stations :
                      p[2] \in within(p[1]) \ heard[p[1]] /\ air[p[1]].hit = {}}
      on        == {s \in Stations : air[s].left > 1}
  IN  /\ \A s \in Stations : inbox[s] = NoFrame /\ mac[s].since < StrobeMax
      /\ \A s \in Over : heard[s] \subseteq within(s)
      /\ Cardinality(noise) <= loss /\ loss' = loss - Cardinality(noise)
      /\ inbox' = [r \in Stations |->
                     IF \E s \in Over : r \in heard[s]
                     THEN air[CHOOSE s \in Over : r \in heard[s]].frame
                     ELSE NoFrame]
      /\ air' = [s \in Stations |->
                   IF s \in on THEN [air[s] EXCEPT !.left = @ - 1] ELSE Silent]
      /\ mac' = [s \in Stations |->
                   LET m == Sensed(mac[s], on \ {s} # {})
                   IN  [m EXCEPT
                          !.nav = IF m.nav = 0 THEN 0 ELSE m.nav - 1,
                          !.since = IF Waiting(m) THEN m.since + 1 ELSE 0]]
      /\ UNCHANGED <<link, last, got, acked, load>>

Next ==
  \/ \E f \in Flows : SendData(f) \/ Deadline(f)
  \/ \E s \in Stations : Strobe(s) \/ OnRxAck(s) \/ OnRxData(s)
  \/ \E heard \in [Over -> SUBSET Stations] : Pass(heard)

Spec == Init /\ [][Next]_vars

Work ==
  \/ \E s \in Stations : OnRxAck(s) \/ OnRxData(s) \/ Strobe(s)
  \/ \E heard \in [Over -> SUBSET Stations] : Pass(heard)
  \/ \E f \in Flows : Deadline(f)

\* Handlers and strobes run, time passes and so do the deadlines.
FairSpec == Spec /\ WF_vars(Work)

-----------------------------------------------------------------------------
DataFrames ==
  [kind : {"data"}, src : Stations, dst : Stations, seq : 0..(Seqs - 1),
   nr : Nat, retry : BOOLEAN]
AckFrames ==
  [kind : {"ack"}, src : Stations, dst : Stations, seq : 0..(Seqs - 1)]
Frames == DataFrames \cup AckFrames

LinkType == [queued : Nat, next : Nat, tries : 0..(MaxRetries + 1)]

MacType ==
  [qh : Seq(AckFrames), ql : Seq(DataFrames), cw : CwMin..CwMax,
   backoff : {None} \cup 1..CwMax, nav : 0..(Sifs + AckAir), busy : BOOLEAN,
   quiet : 0..Difs, since : 0..StrobeMax]

AirType ==
  {Silent}
    \cup {x \in [frame : Frames, left : Nat \ {0}, hit : SUBSET Stations] :
            x.left <= Airtime(x.frame)}

TypeOK ==
  /\ link \in [Flows -> LinkType]
  /\ last \in [Flows -> {None} \cup 0..(Seqs - 1)]
  /\ mac \in [Stations -> MacType]
  /\ \A s \in Stations : mac[s].backoff < mac[s].cw
  /\ air \in [Stations -> AirType]
  /\ inbox \in [Stations -> Frames \cup {NoFrame}]
  /\ got \in [Flows -> Seq(Nat)] /\ acked \in [Flows -> SUBSET Nat]
  /\ load \in [Flows -> Nat] /\ loss \in Nat

\* Stop-and-wait on top of a queue the link does not see, with copies of old
\* frames still in it: a frame is handed up once and in order, and one that is
\* reported acknowledged has been.
InOrderOnce ==
  \A f \in Flows :
    /\ \A i, j \in 1..Len(got[f]) : i < j => got[f][i] < got[f][j]
    /\ acked[f] \subseteq {got[f][i] : i \in 1..Len(got[f])}

\* Frames overlap only if they began in the same slot: nobody, not even with an
\* acknowledgement or a countdown that has ended, talks into a frame it can hear.
OverlapsAreTies ==
  \A s, t \in Stations :
    Sending(s) /\ Sending(t) =>
      Airtime(air[s].frame) - air[s].left = Airtime(air[t].frame) - air[t].left

\* Whatever collides, every frame is acknowledged or given up and every queue
\* runs empty, data behind acknowledgements included.
EverythingSettles ==
  []<>(/\ \A f \in Flows : link[f].tries = 0 /\ link[f].queued = 0
       /\ \A s \in Stations : ~Waiting(mac[s]) /\ ~Sending(s))
=============================================================================
