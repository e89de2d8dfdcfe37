------------------------------ MODULE Framing ------------------------------
(***************************************************************************)
(* A link frame on its way through the physical layer of bpsk_phy.py:      *)
(* TxFramer and the block that drives it turn the frames of one node into  *)
(* an unbroken stream of symbols; the channel inverts some of them; the    *)
(* differential decoder turns them into bits; the Deframer of a receiver   *)
(* takes the bits in chunks and finds the frames again.                    *)
(*                                                                         *)
(* A frame on the air is preamble, access code, its length twice, its      *)
(* bytes and the postamble.  The code, the length fields and the bytes are *)
(* short here; how they are searched, checked and cut is not changed.      *)
(* Positions in the stream count from 0.                                   *)
(***************************************************************************)
EXTENDS Integers, Sequences, FiniteSets, FiniteSetsExt

CONSTANTS
  Code,            \* the access code
  Parts,           \* a division of 0..Len(Code)-1 into sets of neighbours
  Threshold,       \* bit errors tolerated in the access code
  LenBits,         \* bits of a length field
  Byte,            \* bits of a byte
  MinLen, MaxLen,  \* plausible lengths of a frame, in bytes
  Pre, Post,       \* preamble and postamble
  Filler,          \* what is sent when there is no frame
  MaxBits,         \* the backlog allowed
  Payloads,        \* frames the link may hand over
  Pull,            \* symbols the radio asks for at a time
  Chunks,          \* numbers of bits the receiver is given at a time
  Spots,           \* bound: symbols of a batch the channel may invert
  MaxPush,         \* bound: frames handed over
  MaxOff,          \* bound: times the transmitter is switched off
  MaxFlips,        \* bound: symbols the channel inverts
  MaxWire,         \* bound: bits received and not yet given to the deframer
  MaxStream        \* bound: symbols sent

Bits == {0, 1}

\* 2 to the power of k.
Power[k \in 0..LenBits] == IF k = 0 THEN 1 ELSE 2 * Power[k - 1]

ASSUME FramingAssumption ==
  /\ Code \in Seq(Bits) \ {<< >>} /\ Pre \in Seq(Bits) \ {<< >>} /\ Post \in Seq(Bits)
  /\ Filler \in Seq(Bits) \ {<< >>}
  /\ Threshold \in Nat /\ LenBits \in Nat /\ Byte \in Nat \ {0}
  /\ UNION Parts = 0..(Len(Code) - 1) /\ Cardinality(Parts) > Threshold
  /\ \A P, Q \in Parts : P # Q => P \cap Q = {}
  /\ MinLen \in Nat \ {0} /\ MaxLen \in Nat /\ MaxLen < Power[LenBits]
  /\ \A x \in Payloads : x \in Seq(Bits) /\ Len(x) % Byte = 0
  /\ MaxBits \in Nat /\ Pull \in Nat \ {0} /\ Spots \subseteq 1..Pull /\ Chunks \subseteq Nat \ {0}
  /\ MaxPush \in Nat /\ MaxOff \in Nat /\ MaxFlips \in Nat
  /\ MaxWire \in Nat /\ MaxStream \in Nat

VARIABLES
  tx,       \* TxFramer: queue, queued_bits, cur, pos, ppos, state
  enabled,  \* of the block around it
  hard,     \* the last symbol the differential decoder has seen
  wire,     \* bits the deframer has not been given yet
  rx,       \* Deframer: buf, base, scanned, pending
  stream,   \* history: the bits it has been given
  found,    \* history: start of the code and bytes of the frames it returned
  sent,     \* history: first position and bytes of the frames sent
  flips,    \* history: positions of the inverted symbols
  push, off \* frames and switch-offs left

vars == <<tx, enabled, hard, wire, rx, stream, found, sent, flips, push, off>>

None == -1

Init ==
  /\ tx = [queue |-> << >>, queued |-> 0, cur |-> << >>, pos |-> 0, ppos |-> 0,
           state |-> 0]
  /\ enabled = FALSE /\ hard = 0 /\ wire = << >>
  /\ rx = [buf |-> << >>, base |-> 0, scanned |-> 0, pending |-> {}]
  /\ stream = << >> /\ found = << >> /\ sent = {} /\ flips = {}
  /\ push = MaxPush /\ off = MaxOff

Xor(a, b) == (a + b) % 2

-----------------------------------------------------------------------------
(***************************************************************************)
(* TxFramer                                                                *)
(***************************************************************************)
\* A number as a length field, and a length field as a number.
Field(n) == [i \in 1..LenBits |-> (n \div Power[LenBits - i]) % 2]

Number(f) ==
  LET v[i \in 0..LenBits] == IF i = 0 THEN 0 ELSE 2 * v[i - 1] + f[i]
  IN  v[LenBits]

Bytes(x) == Len(x) \div Byte

\* frame_bits, of a frame that is neither too short nor too long.
FrameBits ==
  [x \in Payloads |->
     Pre \o Code \o Field(Bytes(x)) \o Field(Bytes(x)) \o x \o Post]

Backlog == tx.queued + IF tx.cur = << >> THEN 0 ELSE Len(FrameBits[tx.cur]) - tx.pos

\* _on_frame: a frame that is refused is lost, and nobody is told.
Push(x) ==
  /\ push > 0 /\ push' = push - 1
  /\ IF Bytes(x) \in MinLen..MaxLen /\ Backlog + Len(FrameBits[x]) <= MaxBits
     THEN tx' = [tx EXCEPT !.queue = Append(@, x), !.queued = @ + Len(FrameBits[x])]
     ELSE UNCHANGED tx
  /\ UNCHANGED <<enabled, hard, wire, rx, stream, found, sent, flips, off>>

\* _on_ctl: switching off discards what is queued and what is on the air, also
\* when the transmitter was off already.
Enable ==
  /\ ~enabled /\ enabled' = TRUE
  /\ UNCHANGED <<tx, hard, wire, rx, stream, found, sent, flips, push, off>>

Position == Len(stream) + Len(wire)

\* Mutant: the bits of the frames discarded stay counted.
MutantDisable ==
  /\ enabled' = FALSE /\ off > 0 /\ off' = off - 1
  /\ tx' = [tx EXCEPT !.queue = << >>, !.cur = << >>, !.pos = 0]
  /\ sent' = {e \in sent : e.at + Len(FrameBits[e.data]) <= Position}
  /\ UNCHANGED <<hard, wire, rx, stream, found, flips, push>>

Disable ==
  /\ enabled' = FALSE /\ off > 0 /\ off' = off - 1
  /\ tx' = [tx EXCEPT !.queue = << >>, !.queued = 0, !.cur = << >>, !.pos = 0]
  /\ sent' = {e \in sent : e.at + Len(FrameBits[e.data]) <= Position}
  /\ UNCHANGED <<hard, wire, rx, stream, found, flips, push>>

\* next_bits, one bit: of the frame under way, of the next one, or a filler.
NextBit(t) ==
  LET u == IF t.cur = << >> /\ t.queue # << >>
           THEN [t EXCEPT !.cur = Head(t.queue), !.queue = Tail(t.queue), !.pos = 0,
                          !.queued = t.queued - Len(FrameBits[Head(t.queue)])]
           ELSE t
  IN  IF u.cur = << >>
      THEN [bit |-> Filler[u.ppos + 1],
            tx  |-> [u EXCEPT !.ppos = (u.ppos + 1) % Len(Filler)]]
      ELSE [bit |-> FrameBits[u.cur][u.pos + 1],
            tx  |-> IF u.pos + 1 = Len(FrameBits[u.cur])
                    THEN [u EXCEPT !.cur = << >>, !.pos = u.pos + 1]
                    ELSE [u EXCEPT !.pos = u.pos + 1]]

\* Mutant: the differential encoder starts again with every batch.
MutantSymbols(t) ==
  LET s[k \in 0..Pull] ==
        IF k = 0 THEN [tx |-> [t EXCEPT !.state = 0], out |-> << >>, began |-> {}]
        ELSE LET p == s[k - 1]
                 n == NextBit(p.tx)
                 e == Xor(p.tx.state, n.bit)
             IN  [tx |-> [n.tx EXCEPT !.state = e], out |-> Append(p.out, e),
                  began |-> IF p.tx.cur = << >> /\ p.tx.queue # << >>
                            THEN p.began \cup {[at |-> Position + k - 1,
                                                data |-> Head(p.tx.queue)]}
                            ELSE p.began]
  IN  s[Pull]

\* next_symbols: differential encoding, 0 and 1 for the two symbols.
Symbols(t) ==
  LET s[k \in 0..Pull] ==
        IF k = 0 THEN [tx |-> t, out |-> << >>, began |-> {}]
        ELSE LET p == s[k - 1]
                 n == NextBit(p.tx)
                 e == Xor(p.tx.state, n.bit)
             IN  [tx |-> [n.tx EXCEPT !.state = e], out |-> Append(p.out, e),
                  began |-> IF p.tx.cur = << >> /\ p.tx.queue # << >>
                            THEN p.began \cup {[at |-> Position + k - 1,
                                                data |-> Head(p.tx.queue)]}
                            ELSE p.began]
  IN  s[Pull]

\* The block asked for symbols, the channel, the hard decision and the
\* differential decoder.  A transmitter that is off sends nothing.
Transmit(bad) ==
  LET s    == IF enabled THEN Symbols(tx)
              ELSE [tx |-> tx, out |-> [k \in 1..Pull |-> 0], began |-> {}]
      seen == [k \in 1..Pull |-> Xor(s.out[k], IF k \in bad THEN 1 ELSE 0)]
  IN  /\ Position + Pull <= MaxStream /\ Len(wire) + Pull <= MaxWire
      /\ Cardinality(flips) + Cardinality(bad) <= MaxFlips
      /\ tx' = s.tx /\ sent' = sent \cup s.began
      /\ flips' = flips \cup {Position + k - 1 : k \in bad}
      /\ wire' = wire \o [k \in 1..Pull |->
                            Xor(seen[k], IF k = 1 THEN hard ELSE seen[k - 1])]
      /\ hard' = seen[Pull]
      /\ UNCHANGED <<enabled, rx, stream, found, push, off>>

-----------------------------------------------------------------------------
(***************************************************************************)
(* Deframer                                                                *)
(***************************************************************************)
Header == Len(Code) + 2 * LenBits

Errors(w) == {k \in 0..(Len(Code) - 1) : w[k + 1] # Code[k + 1]}

\* Where a frame ends whose length is known.
Stop(p) == p.start + Header + Byte * p.length

\* Mutant: the code is not searched for inside a frame still being received.
MutantIsCode(s, w) ==
  /\ \A p \in rx.pending : p.length # None => s >= Stop(p)
  /\ \E P \in Parts : Errors(w) \cap P = {}
  /\ Cardinality(Errors(w)) <= Threshold

\* Whether the bits w at position s are the access code: one of its parts is
\* intact, which is what is searched for, and the others are nearly.
IsCode(s, w) ==
  /\ \E P \in Parts : Errors(w) \cap P = {}
  /\ Cardinality(Errors(w)) <= Threshold

\* Frames in the order of their starts.
ByStart(D) ==
  [i \in 1..Cardinality(D) |->
     CHOOSE x \in D : Cardinality({y \in D : y.at < x.at}) = i - 1]

\* feed.  A start found stays pending until its header, and then its last byte,
\* have been received.
Feed(n) ==
  LET buf   == rx.buf \o SubSeq(wire, 1, n)
      end   == rx.base + Len(buf)
      cut(k, l) == SubSeq(buf, k - rx.base + 1, k - rx.base + l)
      hi    == end - Len(Code) + 1
      hits  == {s \in rx.scanned..(hi - 1) : IsCode(s, cut(s, Len(Code)))}
      all   == rx.pending \cup {[start |-> s, length |-> None] : s \in hits}
      len0(p) == Number(cut(p.start + Len(Code), LenBits))
      len1(p) == Number(cut(p.start + Len(Code) + LenBits, LenBits))
      early == {p \in all : p.length = None /\ p.start + Header > end}
      known == {p \in all : p.length # None}
                 \cup {[start |-> p.start, length |-> len0(p)] :
                         p \in {p \in all \ early :
                                  /\ p.length = None /\ len0(p) = len1(p)
                                  /\ len0(p) \in MinLen..MaxLen}}
      done  == {p \in known : Stop(p) <= end}
      keep  == early \cup (known \ done)
      scanned == IF hi > rx.scanned THEN hi ELSE rx.scanned
      from  == Min({p.start : p \in keep} \cup {scanned})
      base  == IF from > rx.base THEN from ELSE rx.base
  IN  /\ n <= Len(wire) /\ wire' = SubSeq(wire, n + 1, Len(wire))
      /\ stream' = stream \o SubSeq(wire, 1, n)
      /\ found' = found \o ByStart(
                    {[at |-> p.start, data |-> cut(p.start + Header, Byte * p.length)] :
                       p \in done})
      /\ rx' = [buf |-> SubSeq(buf, base - rx.base + 1, Len(buf)), base |-> base,
                scanned |-> scanned, pending |-> keep]
      /\ UNCHANGED <<tx, enabled, hard, sent, flips, push, off>>

Next ==
  \/ \E x \in Payloads : Push(x)
  \/ Enable \/ Disable
  \/ \E bad \in SUBSET Spots : Transmit(bad)
  \/ \E n \in Chunks : Feed(n)

Spec == Init /\ [][Next]_vars

-----------------------------------------------------------------------------
\* The bits of the frames of a queue.
Total(q) ==
  LET sum[i \in 0..Len(q)] ==
        IF i = 0 THEN 0 ELSE sum[i - 1] + Len(FrameBits[q[i]])
  IN  sum[Len(q)]

TypeOK ==
  /\ tx.queue \in Seq(Payloads) /\ tx.cur \in Payloads \cup {<< >>}
  /\ tx.pos \in Nat /\ tx.ppos \in 0..(Len(Filler) - 1) /\ tx.state \in Bits
  /\ tx.queued = Total(tx.queue)
  /\ Backlog \in 0..MaxBits
  /\ enabled \in BOOLEAN /\ hard \in Bits /\ wire \in Seq(Bits)
  /\ rx.buf \in Seq(Bits) /\ Len(rx.buf) < Header + Byte * MaxLen
  /\ rx.base \in Nat /\ rx.base + Len(rx.buf) = Len(stream)
  /\ rx.scanned \in rx.base..(Len(stream) + 1)
  /\ \A p \in rx.pending : /\ p.start \in rx.base..rx.scanned
                           /\ p.length \in {None} \cup MinLen..MaxLen
  /\ stream \in Seq(Bits) /\ push \in Nat /\ off \in Nat

\* The frames in the whole stream so far, however it was cut.
Reference ==
  LET field(k) == Number(SubSeq(stream, k + 1, k + LenBits))
      good(s) ==
        /\ Cardinality(Errors(SubSeq(stream, s + 1, s + Len(Code)))) <= Threshold
        /\ field(s + Len(Code)) = field(s + Len(Code) + LenBits)
        /\ field(s + Len(Code)) \in MinLen..MaxLen
        /\ s + Header + Byte * field(s + Len(Code)) <= Len(stream)
  IN  {[at |-> s, data |-> SubSeq(stream, s + Header + 1,
                                  s + Header + Byte * field(s + Len(Code)))] :
         s \in {s \in 0..(Len(stream) - Header) : good(s)}}

\* However the bits are cut into chunks, through the code, the header or the
\* bytes of a frame, and whatever other codes begin inside it, every frame in the
\* stream is returned, once.
ChunksDoNotMatter ==
  /\ {found[i] : i \in 1..Len(found)} = Reference
  /\ \A i, j \in 1..Len(found) : i # j => found[i] # found[j]

\* A frame that went out whole and whose header and bytes no inverted symbol has
\* touched is returned, if the code has few enough errors: it may follow on
\* a damaged one, a switch-off, or a change from frames to filler.
GoodFrameIsFound ==
  LET wrong(k) == (k \in flips) # (k - 1 \in flips)
  IN  \A e \in sent :
        LET s    == e.at + Len(Pre)
            last == s + Header + Len(e.data) - 1
        IN  (/\ last < Len(stream)
             /\ \A k \in (s + Len(Code))..last : ~wrong(k)
             /\ Cardinality({k \in s..(s + Len(Code) - 1) : wrong(k)}) <= Threshold)
            => \E i \in 1..Len(found) : found[i] = [at |-> s, data |-> e.data]
=============================================================================
