-------------------------- MODULE SelectiveRepeat --------------------------
(***************************************************************************)
(* The Selective Repeat link of the mesh radio: one direction of one       *)
(* LinkState pair of bpsk_link.py.  A, the sender, numbers payloads modulo *)
(* SeqMod, keeps at most Window of them outstanding, retransmits on        *)
(* timeout and on evidence of loss, and gives a frame up after MaxRetries  *)
(* retransmissions.  B, the receiver, delivers in order, holds what is     *)
(* ahead of a gap, and follows the window base every frame of A carries.   *)
(*                                                                         *)
(* Numbers are unwrapped: message n travels under the sequence number      *)
(* n % SeqMod, and the first number of a new engine is a multiple of       *)
(* SeqMod because LinkState starts at tx_seq = 0.  The code only ever      *)
(* compares sequence numbers by their distance modulo 256; Dist is that    *)
(* distance, and nothing in A or B looks at an unwrapped number otherwise. *)
(* A frame carries its own number as its payload, so that what B hands up  *)
(* can be compared with what A sent.                                       *)
(*                                                                         *)
(* The radio channel is first-in first-out and loses frames.  Loss is lazy *)
(* here: a frame stays in the air until it is received or until a frame    *)
(* sent after it is received, in which case it was lost.  A frame never    *)
(* received was lost too.  Frames are ordered by the handler run that sent *)
(* them (sent) and, within one run, by number, the order the handlers send *)
(* in; this order is that of the code's transmission counter _txno.        *)
(***************************************************************************)
EXTENDS Integers, FiniteSets, Sequences

CONSTANTS
  SeqMod,      \* size of the sequence space (SEQ_MOD, 256)
  Half,        \* distances below are new, the others old (HALF, 128)
  MaxWindow,   \* how far a lagging sender is believed (MAX_WINDOW, 64)
  Window,      \* window of this link (LinkState.window, 32 by default)
  MaxRetries,  \* retransmissions before a frame is given up
  SyncCopies,  \* window-base announcements after giving a frame up (3)
  Epochs,      \* start-up identifiers (1..63)
  MaxLead,     \* how far A's base may run ahead of B's while B is deaf,
  MaxAckLag,   \* and of a SACK in flight: see BoundedOutage below
  MaxMsgs,     \* bound: payloads submitted over the whole run
  MaxQueue,    \* bound: payloads waiting
  MaxAir,      \* bound: frames in flight
  MaxSacks,    \* bound: SACKs in flight
  MaxLives     \* bound: engines A creates over the whole run

ASSUME SequenceAssumption ==
  /\ Half \in Nat \ {0}
  /\ SeqMod = 2 * Half
  /\ MaxWindow \in Nat /\ 2 * MaxWindow <= Half
  /\ Window \in 1..MaxWindow

ASSUME BoundAssumption ==
  /\ MaxRetries \in Nat
  /\ SyncCopies \in Nat \ {0}
  /\ MaxMsgs \in Nat /\ MaxQueue \in Nat
  /\ MaxAir \in Nat \ {0}
  /\ MaxSacks \in Nat \ {0}
  /\ MaxLives \in Nat \ {0}
  /\ MaxLead \in Nat /\ MaxAckLag \in Nat

VARIABLES
  queue,      \* A: payloads waiting in txq_hi and txq
  next,       \* A: number of the next new frame (tx_seq, unwrapped)
  outq,       \* A: outstanding number -> [tries, sent]
  epoch,      \* A: start-up identifier in every frame
  syncLeft,   \* A: window-base announcements still to send
  clock,      \* A: handler runs that transmitted something
  rx,         \* B: receive window of A, with what it handed up
  ackDue,     \* B: a SACK is owed
  heard,      \* history: base carried by the frame of A that B heard last
  air,        \* frames from A to B
  sacks,      \* SACKs from B to A, oldest first
  acked,      \* history: numbers this engine of A reported 'acked'
  gaveUp,     \* history: numbers A abandoned or purged
  first,      \* history: first number of the present engine of A
  stale,      \* history: when that engine was made, B owed the one before it
              \* a SACK and went on owing it
  submitted,  \* history: payloads submitted
  lives       \* history: engines A has created

sender   == <<queue, next, outq, epoch, syncLeft, clock>>
receiver == <<rx, ackDue, heard>>
history  == <<acked, gaveUp, first, stale, submitted, lives>>
vars     == <<sender, receiver, air, sacks, history>>

----------------------------------------------------------------------------
\* Distances and windows

Dist(a, b) == (a - b) % SeqMod

Least(S) == CHOOSE m \in S : \A n \in S : m <= n

\* Mutants, each placed before the definition it replaces: plausible slips
\* that a property must catch.
MutantSendBaseNewest(out, nx) ==
  IF out = {} THEN nx ELSE CHOOSE m \in out : \A n \in out : m >= n
MutantSendBaseZero(out, nx) == IF out = {} THEN 0 ELSE Least(out)

\* The window base: the oldest outstanding number, or the next one.
SendBase(out, nx) == IF out = {} THEN nx ELSE Least(out)

\* Was x, a copy of number nx, sent before y, a copy of number ny?
SentBefore(x, nx, y, ny) == x.sent < y.sent \/ (x.sent = y.sent /\ nx < ny)

Earlier(f, g) ==
  \/ SentBefore(f, f.n, g, g.n)
  \/ f.sent = g.sent /\ f.n = g.n /\ f.kind = "sync" /\ g.kind = "data"

\* The air holds MaxAir frames; before them, the oldest ones are lost.
Newest(S) == {f \in S : Cardinality({g \in S : Earlier(f, g)}) < MaxAir}

Empty == [k \in {} |-> 0]

\* Hand up, in order, everything held below e, and move the base to e.
HandUp(w, e) ==
  LET up == {k \in DOMAIN w.buf : k < e} IN
  [w EXCEPT !.base = e,
            !.buf  = [k \in DOMAIN w.buf \ up |-> w.buf[k]],
            !.got  = [k \in DOMAIN w.got \cup up |->
                        IF k \in up THEN w.buf[k] ELSE w.got[k]]]

\* The first number at or after b that is not held.
RunEnd(b, held) == Least({e \in b..(b + SeqMod) : e \notin held})

Release(w) == HandUp(w, RunEnd(w.base, DOMAIN w.buf))

MutantAdvanceNoLag(w, b) ==
  LET d == Dist(b, w.base) IN
  IF d = 0 THEN w
  ELSE IF d < Half THEN Release(HandUp(w, w.base + d))
  ELSE [w EXCEPT !.base = w.base + d, !.buf = Empty]

\* Apply the sender's window base b: nothing new, or skip what the sender
\* gave up, or (neither ahead nor a plausible lag) start over at b.
Advance(w, b) ==
  LET d == Dist(b, w.base) IN
  IF d = 0 \/ d >= SeqMod - MaxWindow THEN w
  ELSE IF d < Half THEN Release(HandUp(w, w.base + d))
  ELSE [w EXCEPT !.base = w.base + d, !.buf = Empty]

MutantCheckEpochKeepsBase(w, f) == [w EXCEPT !.epoch = f.epoch]

CheckEpoch(w, f) ==
  IF f.epoch = w.epoch THEN w
  ELSE [w EXCEPT !.epoch = f.epoch, !.base = f.base, !.buf = Empty]

MutantWindowForNoReset(f) == [rx EXCEPT !.known = TRUE, !.epoch = f.epoch]

\* The window a data frame meets: the first frame of a sender opens it.
WindowFor(f) ==
  IF rx.known THEN rx
  ELSE [rx EXCEPT !.known = TRUE, !.epoch = f.epoch, !.base = f.base,
                  !.buf = Empty]

\* Is the sequence number of n ahead of the window base, and not held yet?
IsNew(w, n) == /\ Dist(n, w.base) < Half
               /\ w.base + Dist(n, w.base) \notin DOMAIN w.buf

Hold(w, n) ==
  LET k == w.base + Dist(n, w.base) IN
  [w EXCEPT !.buf = [j \in DOMAIN w.buf \cup {k} |->
                        IF j = k THEN n ELSE w.buf[j]]]

Accept(w, n) == IF IsNew(w, n) THEN Release(Hold(w, n)) ELSE w

MutantSackShifted(w, b) ==
  [base |-> w.base, heard |-> b,
   bits |-> {k + 1 - w.base : k \in DOMAIN w.buf} \cap 1..(Half - 1)]

\* A SACK: the base of the window and the distances held beyond it (and, for
\* BoundedOutage only, the base of the frame b heard last).
Sack(w, b) == [base |-> w.base, heard |-> b,
            bits |-> {k - w.base : k \in DOMAIN w.buf} \cap 1..(Half - 1)]

\* Does SACK s acknowledge the sequence number of n?
Acknowledges(s, n) == Dist(n, s.base) >= Half \/ Dist(n, s.base) \in s.bits

----------------------------------------------------------------------------
Init ==
  /\ queue = 0 /\ next = 0 /\ outq = Empty
  /\ epoch \in Epochs
  /\ syncLeft = 0 /\ clock = 0
  /\ rx = [known |-> FALSE, epoch |-> epoch, base |-> 0, buf |-> Empty,
           got |-> Empty]
  /\ ackDue = FALSE /\ heard = 0
  /\ air = {} /\ sacks = << >>
  /\ acked = {} /\ gaveUp = {} /\ first = 0 /\ stale = FALSE
  /\ submitted = 0 /\ lives = 1

(***************************************************************************)
(* What one handler run of A puts on the air: the frames of resend again,  *)
(* the base if sync, then the k new frames _pump takes from a queue of q   *)
(* payloads, as many as airtime, window and queue allow (k is any number   *)
(* the window and the queue admit).  kept is what stays outstanding.  The  *)
(* handlers work oldest first, so a retransmission may still carry a base  *)
(* that the same run gives up after it: that of a frame in dropped.        *)
(***************************************************************************)
Transmit(kept, dropped, resend, sync, q, k) ==
  LET fresh   == next..(next + k - 1)
      base    == SendBase(kept, next)
      Copy(kind, n, b) ==
        [kind |-> kind, n |-> n, base |-> b, epoch |-> epoch, sent |-> clock]
      again   == {Copy("data", n, SendBase(kept \cup {m \in dropped : m > n}, next))
                    : n \in resend}
  IN
  /\ k <= q
  /\ k = 0 \/ next + k <= base + Window
  /\ outq' = [n \in kept \cup fresh |->
                IF n \in fresh THEN [tries |-> 1, sent |-> clock]
                ELSE IF n \in resend
                  THEN [tries |-> outq[n].tries + 1, sent |-> clock]
                ELSE outq[n]]
  /\ next' = next + k
  /\ queue' = q - k
  /\ air' = Newest(air \cup again
                       \cup (IF sync THEN {Copy("sync", next, base)} ELSE {})
                       \cup {Copy("data", n, base) : n \in fresh})
  /\ clock' = IF resend \cup fresh # {} \/ sync THEN clock + 1 ELSE clock

MutantExhaustedLate(S) == {n \in S : outq[n].tries > MaxRetries + 1}

\* The frames among S that have used up their retransmissions.
Exhausted(S) == {n \in S : outq[n].tries > MaxRetries}

\* When the abandoned frame is the header of A's file, the file layer starts
\* the transfer over: it takes its later frames S out of the window as well.
\* (What it queues again arrives here as payloads handed over by SendData.)
HeaderLost(S, dropped) ==
  S # {} => /\ dropped # {}
            /\ \E h \in dropped : \A n \in S : n > h

\* A's application or file layer hands the link one more payload.
SendData(k) ==
  /\ submitted < MaxMsgs /\ queue < MaxQueue
  /\ submitted' = submitted + 1
  /\ Transmit(DOMAIN outq, {}, {}, FALSE, queue + 1, k)
  /\ UNCHANGED <<epoch, syncLeft, receiver, sacks, acked, gaveUp, first, stale,
                 lives>>

\* The periodic handler while A may transmit: the frames of E have timed out.
\* Giving one up makes the base due for announcement at once.
Tick(E, S, sync, k) ==
  LET dropped == Exhausted(E)
      left == IF dropped # {} THEN SyncCopies ELSE syncLeft
  IN
  /\ HeaderLost(S, dropped)
  /\ E # {} \/ sync \/ k > 0
  /\ sync => left > 0
  /\ dropped # {} => sync
  /\ Transmit(DOMAIN outq \ (dropped \cup S), dropped, E \ (dropped \cup S),
              sync, queue, k)
  /\ syncLeft' = IF sync THEN left - 1 ELSE left
  /\ gaveUp' = gaveUp \cup dropped \cup S
  /\ UNCHANGED <<epoch, receiver, sacks, acked, first, stale, submitted, lives>>

\* The periodic handler while A may not transmit (no session, or the channel
\* manager has switched it off): the frames of E were held for too long.
TickHeld(E) ==
  /\ E # {}
  /\ Transmit(DOMAIN outq \ E, {}, {}, FALSE, queue, 0)
  /\ syncLeft' = SyncCopies
  /\ gaveUp' = gaveUp \cup E
  /\ UNCHANGED <<epoch, receiver, sacks, acked, first, stale, submitted, lives>>

(***************************************************************************)
(* BoundedOutage.  While B hears nothing, A gives frames up and its base   *)
(* runs ahead; while frames and SACKs are in flight, A's base moves on as  *)
(* well.  The 8-bit comparison cannot follow for ever: most runs assume    *)
(* that a frame B hears leads the frame it heard before by at most MaxLead *)
(* numbers, and that A's base moved by at most MaxAckLag between sending   *)
(* the last frame B heard before a SACK and receiving that SACK.  The code *)
(* enforces neither; a large constant drops the assumption, and            *)
(* BoundedOutage says how small the constants must be for the link to be   *)
(* correct.                                                                *)
(***************************************************************************)
BoundedOutage == MaxLead < Half /\ MaxAckLag + Window <= Half

Hears(f) == rx.known /\ f.epoch = rx.epoch => f.base - heard <= MaxLead
Timely(s) == SendBase(DOMAIN outq, next) - s.heard <= MaxAckLag

\* A receives a SACK; what was sent before something it acknowledges, and is
\* still outstanding, was lost: it is sent again at once.  The loop goes over
\* the frames that were outstanding when it began, so frames of S that the
\* file layer removes meanwhile are still sent (on_tick skips those).
RecvSack(i, ready, S, k) ==
  LET s    == sacks[i]
      hits == {n \in DOMAIN outq : Acknowledges(s, n)}
      lost == {n \in DOMAIN outq \ hits :
                 \E m \in hits : SentBefore(outq[n], n, outq[m], m)}
      dropped == IF ready THEN Exhausted(lost) ELSE {}
      resend  == IF ready THEN lost \ dropped ELSE {}
  IN
  /\ Timely(s)
  /\ S \cap hits = {} /\ HeaderLost(S, dropped)
  /\ sacks' = SubSeq(sacks, i + 1, Len(sacks))
  /\ ~ready \/ hits = {} => k = 0
  /\ Transmit(DOMAIN outq \ (hits \cup dropped \cup S), dropped, resend, FALSE,
              queue, k)
  /\ syncLeft' = IF dropped # {} THEN SyncCopies ELSE syncLeft
  /\ acked' = acked \cup hits
  /\ gaveUp' = gaveUp \cup dropped \cup S
  /\ UNCHANGED <<epoch, receiver, first, stale, submitted, lives>>

\* The file layer of A ends its transfer (a verdict, or too many rounds): S
\* are the frames of the file in the window, q those still queued.
PurgeFile(S, q, k) ==
  /\ S # {} \/ q > 0
  /\ Transmit(DOMAIN outq \ S, {}, {}, FALSE, queue - q, k)
  /\ syncLeft' = IF S # {} THEN SyncCopies ELSE syncLeft
  /\ gaveUp' = gaveUp \cup S
  /\ UNCHANGED <<epoch, receiver, sacks, acked, first, stale, submitted, lives>>

----------------------------------------------------------------------------
\* The SACK channel; beyond its bound the oldest one is lost.
Send(s) == IF Len(sacks) = MaxSacks THEN Append(Tail(sacks), s)
           ELSE Append(sacks, s)

\* B receives a data frame.  The SACK goes out with it or, within ack_gap of
\* the last one or while B may not transmit, stays owed.
RecvData(f, flush) ==
  /\ f.kind = "data"
  /\ Hears(f)
  /\ air' = {g \in air : Earlier(f, g)}
  /\ rx' = Accept(Advance(CheckEpoch(WindowFor(f), f), f.base), f.n)
  /\ sacks' = IF flush THEN Send(Sack(rx', f.base)) ELSE sacks
  /\ ackDue' = ~flush
  /\ heard' = f.base
  /\ UNCHANGED <<sender, history>>

MutantRecvSyncIgnored(f) ==
  /\ f.kind = "sync"
  /\ Hears(f)
  /\ air' = {g \in air : Earlier(f, g)}
  /\ heard' = f.base
  /\ UNCHANGED <<sender, rx, ackDue, sacks, history>>

\* B receives a window-base announcement: ignored from an unknown sender, and
\* not acknowledged.
RecvSync(f) ==
  /\ f.kind = "sync"
  /\ Hears(f)
  /\ air' = {g \in air : Earlier(f, g)}
  /\ rx' = IF rx.known THEN Advance(CheckEpoch(rx, f), f.base) ELSE rx
  /\ heard' = f.base
  /\ UNCHANGED <<sender, ackDue, sacks, history>>

\* B's periodic handler sends the SACK it owes.
FlushAck ==
  /\ ackDue
  /\ sacks' = Send(Sack(rx, heard))
  /\ ackDue' = FALSE
  /\ UNCHANGED <<sender, rx, heard, air, history>>

----------------------------------------------------------------------------
\* A new engine for the same peer: everything of the old one is lost, and
\* numbering starts again at a sequence number of 0.
NewEngine(e) ==
  /\ lives < MaxLives
  /\ lives' = lives + 1
  /\ epoch' = e
  /\ outq' = Empty /\ queue' = 0 /\ syncLeft' = 0
  /\ next' = CHOOSE n \in next..(next + SeqMod - 1) : n % SeqMod = 0
  /\ first' = next'
  /\ gaveUp' = gaveUp \cup DOMAIN outq
  /\ acked' = {}
  /\ heard' = next'
  /\ UNCHANGED <<clock, submitted>>

\* Nothing of the old engine is on the air any more.
Quiet == air' = {} /\ sacks' = << >>

\* B is told nothing: its window stands, and the SACK it owes, if any, will go
\* to the new engine.
Unnoticed == UNCHANGED <<rx, ackDue>> /\ stale' = ackDue

\* A's program restarts, without encryption: the epoch will tell B.  It is
\* random; here it is one that B does not hold.
RestartPlain(e) ==
  /\ e # rx.epoch
  /\ NewEngine(e)
  /\ Quiet
  /\ Unnoticed

\* A's program restarts, with encryption: the first session of the new start
\* makes B forget A's window, and what it owes, before any frame of that
\* session is opened; frames of the old session do not open any more.
RestartSecure(e) ==
  /\ NewEngine(e)
  /\ Quiet
  /\ rx' = [rx EXCEPT !.known = FALSE]
  /\ ackDue' = FALSE /\ stale' = FALSE

\* A's running program drops its engine for the peer and makes a new one: the
\* epoch is that of the program and stays.
DropPeer ==
  /\ NewEngine(epoch)
  /\ Quiet
  /\ Unnoticed

----------------------------------------------------------------------------
Counts == 0..Window

SenderNext ==
  \/ \E k \in Counts : SendData(k)
  \/ \E E, S \in SUBSET DOMAIN outq, sync \in BOOLEAN, k \in Counts :
       Tick(E, S, sync, k)
  \/ \E E \in SUBSET DOMAIN outq : TickHeld(E)
  \/ \E i \in DOMAIN sacks, ready \in BOOLEAN, S \in SUBSET DOMAIN outq,
        k \in Counts : RecvSack(i, ready, S, k)
  \/ \E S \in SUBSET DOMAIN outq, q \in 0..queue, k \in Counts :
       PurgeFile(S, q, k)

ReceiverNext ==
  \/ \E f \in air, flush \in BOOLEAN : RecvData(f, flush)
  \/ \E f \in air : RecvSync(f)
  \/ FlushAck

Next == SenderNext \/ ReceiverNext

RestartNext == \E e \in Epochs : RestartPlain(e) \/ RestartSecure(e)

Spec        == Init /\ [][Next]_vars
RestartSpec == Init /\ [][Next \/ RestartNext]_vars
DropSpec    == Init /\ [][Next \/ DropPeer]_vars

----------------------------------------------------------------------------
(***************************************************************************)
(* Fairness.  The flowgraph calls on_tick every 10 ms: a deadline that has *)
(* passed is seen, an announcement that is due is sent and queued payloads *)
(* are sent when the window and the airtime allow.  A hold without session *)
(* ends too, in a session or in HOLD_LIMIT.  Nothing is assumed of the     *)
(* radio: it may lose everything.                                          *)
(***************************************************************************)
Subsets == SUBSET DOMAIN outq

TimesOut(n) == \E E, S \in Subsets, sync \in BOOLEAN, k \in Counts :
                 n \in E /\ Tick(E, S, sync, k)
Announces   == Tick({}, {}, TRUE, 0)
Pumps       == \E k \in 1..Window : Tick({}, {}, FALSE, k)

Fairness ==
  /\ \A n \in 0..(MaxMsgs - 1) : WF_vars(TimesOut(n))
  /\ WF_vars(Announces) /\ WF_vars(Pumps)

FairSpec == Spec /\ Fairness

----------------------------------------------------------------------------
\* Properties

ImageOf(f) == {f[k] : k \in DOMAIN f}

\* f is a function from natural numbers to S.
IsMap(f, S) == /\ f = [n \in DOMAIN f |-> f[n]]
               /\ DOMAIN f \subseteq Nat
               /\ \A n \in DOMAIN f : f[n] \in S

IsWindow(w) ==
  /\ w = [known |-> w.known, epoch |-> w.epoch, base |-> w.base,
          buf |-> w.buf, got |-> w.got]
  /\ w.known \in BOOLEAN /\ w.epoch \in Epochs /\ w.base \in Nat
  /\ IsMap(w.buf, Nat) /\ IsMap(w.got, Nat)

Frame == [kind : {"data", "sync"}, n : Nat, base : Nat, epoch : Epochs,
          sent : Nat]

\* Every variable has the type its declaration states.
TypeOK ==
  /\ queue \in Nat /\ next \in Nat /\ clock \in Nat
  /\ IsMap(outq, [tries : 1..(MaxRetries + 1), sent : Nat])
  /\ epoch \in Epochs /\ syncLeft \in 0..SyncCopies
  /\ IsWindow(rx) /\ ackDue \in BOOLEAN /\ heard \in Nat
  /\ \A f \in air : f \in Frame
  /\ sacks \in Seq([base : Nat, heard : Nat, bits : SUBSET (1..(Half - 1))])
  /\ \A n \in acked \cup gaveUp : n \in Nat
  /\ first \in Nat /\ stale \in BOOLEAN /\ submitted \in Nat /\ lives \in Nat

\* A payload A reports acknowledged has reached B: B has handed it up or holds
\* it behind a gap (the 'acked' state of the chat bubble).  Not so while stale:
\* B pays the SACK it owed the engine before, whose base is ahead of every new
\* number (_flush_acks), and _on_sack takes it for an acknowledgement of them.
AckedIsReceived ==
  ~stale => acked \subseteq ImageOf(rx.got) \cup ImageOf(rx.buf)

\* B hands payloads up in the order A numbered them and none of them twice,
\* whatever was lost, repeated or given up in between.
HandedUpInOrder ==
  \A j, k \in DOMAIN rx.got : j < k => rx.got[j] < rx.got[k]

\* B never passes over a payload that A has not given up: everything below
\* what was handed up last was handed up too, or A reported it failed.  Not so
\* while stale: B passes over what A wrongly takes for acknowledged.
OnlyGivenUpIsSkipped ==
  ~stale =>
    \A m \in ImageOf(rx.got) : \A n \in first..(m - 1) :
      n \in ImageOf(rx.got) \/ n \in gaveUp

\* What B discards as old or already held it has received before, or A has
\* given it up: a payload still owed to B is never taken for a repetition.
OldIsReceived ==
  \A f \in air :
    LET w == Advance(CheckEpoch(WindowFor(f), f), f.base) IN
    f.kind = "data" /\ Hears(f) /\ ~IsNew(w, f.n)
      => f.n \in ImageOf(w.got) \cup ImageOf(w.buf) \cup gaveUp

\* Every payload handed to the link is settled: acknowledged, reported failed
\* or withdrawn; no frame stays in the window, no payload in the queue.
EverythingSettles ==
  (queue > 0 \/ DOMAIN outq # {}) ~> (queue = 0 /\ DOMAIN outq = {})

\* B does not sit on what it holds behind a gap (and has already acknowledged)
\* if it hears A's present base from time to time, in a data frame or in an
\* announcement (_advance).  The code does not see to that: the announcements
\* after a frame is given up are three, and may be lost.
GapsClose ==
  []<>(heard = SendBase(DOMAIN outq, next)) =>
    ((DOMAIN rx.buf # {}) ~> (DOMAIN rx.buf = {}))

\* The link implements the delivery service.
Service == INSTANCE DeliveryService WITH
             offered <- next, acked <- acked, failed <- gaveUp,
             held <- ImageOf(rx.buf), handed <- ImageOf(rx.got)

\* The link keeps the promise of DeliveryService: one report per payload, in
\* order and at most once at the other end, no gap that did not fail.
ServiceKept == Service!Spec

=============================================================================
