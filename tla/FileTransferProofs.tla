------------------------- MODULE FileTransferProofs -------------------------
(***************************************************************************)
(* Proofs about FileTransfer for every value of the constants: what the    *)
(* sender reports delivered is complete at the receiver, an ended transfer *)
(* leaves nothing behind, one life of a receiver writes a file once, the   *)
(* verdicts a node owes its peer outlast its own transfers, and every      *)
(* variable has its kind of value.                                         *)
(***************************************************************************)
EXTENDS FileTransfer, TLAPS, SequenceTheorems, FiniteSetTheorems, FunctionTheorems

----------------------------------------------------------------------------
\* Sequences and their members.

IsSeq(q) == q \in Seq(Range(q))

\* The empty sequence has no members.
LEMMA EmptyMembers == IsSeq(<< >>) /\ Range(<< >>) = {}
BY DEF IsSeq, Range

\* A sequence of one member.
LEMMA SingleMember ==
  ASSUME NEW e
  PROVE  IsSeq(<<e>>) /\ Range(<<e>>) = {e}
BY DEF IsSeq, Range

\* Appending adds one member.
LEMMA AppendMembers ==
  ASSUME NEW q, IsSeq(q), NEW e
  PROVE  IsSeq(Append(q, e)) /\ Range(Append(q, e)) = Range(q) \cup {e}
<1> DEFINE S == Range(q) \cup {e}
<1>1. q \in Seq(S)
  BY SeqMonotonic DEF IsSeq
<1>2. /\ Append(q, e) \in Seq(S)
      /\ Len(q) \in Nat /\ Len(Append(q, e)) = Len(q) + 1
      /\ \A i \in 1..Len(q) : Append(q, e)[i] = q[i]
      /\ Append(q, e)[Len(q) + 1] = e
  BY <1>1, AppendProperties, LenProperties
<1>3. Range(Append(q, e)) = {Append(q, e)[i] : i \in 1..(Len(q) + 1)}
  BY <1>2, RangeEquality
<1>4. Range(q) = {q[i] : i \in 1..Len(q)}
  BY <1>1, RangeEquality
<1>5. Range(Append(q, e)) = Range(q) \cup {e}
  <2>1. 1..(Len(q) + 1) = (1..Len(q)) \cup {Len(q) + 1}
    BY <1>2
  <2> QED BY <1>2, <1>3, <1>4, <2>1
<1> QED BY <1>2, <1>5, SeqOfRange DEF IsSeq

\* A concatenation has the members of both.
LEMMA ConcatMembers ==
  ASSUME NEW p, IsSeq(p), NEW q, IsSeq(q)
  PROVE  IsSeq(p \o q) /\ Range(p \o q) = Range(p) \cup Range(q)
<1> DEFINE S == Range(p) \cup Range(q)
<1>1. p \in Seq(S) /\ q \in Seq(S)
  BY SeqMonotonic DEF IsSeq
<1>2. p \o q \in Seq(S) /\ Range(p \o q) = Range(p) \cup Range(q)
  BY <1>1, ConcatProperties, RangeConcatenation
<1> QED BY <1>2, SeqOfRange DEF IsSeq

\* A part of a sequence has no other members.
LEMMA PartMembers ==
  ASSUME NEW q, IsSeq(q), NEW m \in Nat \ {0}, NEW n \in Nat, n <= Len(q)
  PROVE  IsSeq(SubSeq(q, m, n)) /\ Range(SubSeq(q, m, n)) \subseteq Range(q)
<1>1. Len(q) \in Nat /\ \A i \in 1..Len(q) : q[i] \in Range(q)
  BY LenProperties DEF IsSeq
<1>2. SubSeq(q, m, n) \in Seq(Range(q))
  <2>1. \A i \in m..n : q[i] \in Range(q)
    BY <1>1
  <2> QED BY <2>1, SubSeqProperties
<1> QED BY <1>2, SeqOfRange, RangeOfSeq DEF IsSeq

\* The head is a member, the tail has no others.
LEMMA TailMembers ==
  ASSUME NEW q, IsSeq(q), q # << >>
  PROVE  /\ Head(q) \in Range(q)
         /\ IsSeq(Tail(q)) /\ Range(Tail(q)) \subseteq Range(q)
<1>1. Head(q) \in Range(q) /\ Tail(q) \in Seq(Range(q))
  BY HeadTailProperties DEF IsSeq
<1> QED BY <1>1, SeqOfRange, RangeOfSeq DEF IsSeq

----------------------------------------------------------------------------
\* Entries of the link keep their items, whatever happens to their states.

States == {"open", "passed", "acked", "lost", "gone"}

IsEntry(e) == /\ e = [item |-> e.item, bulk |-> e.bulk, state |-> e.state]
              /\ e.bulk \in BOOLEAN /\ e.state \in States

IsWindow(o) == IsSeq(o) /\ \A e \in Range(o) : IsEntry(e)

\* All items of a window, and those of its sender's own files that are
\* outstanding.
ItemsOf(o) == {e.item : e \in Range(o)}

IsOwn(e) == e.bulk = TRUE /\ e.state \in {"open", "passed"}

OwnItems(o) == {e.item : e \in {d \in Range(o) : IsOwn(d)}}

\* The members of a window, by their place.
LEMMA WindowMembers ==
  ASSUME NEW o, IsWindow(o)
  PROVE  /\ Len(o) \in Nat /\ DOMAIN o = 1..Len(o)
         /\ \A k \in 1..Len(o) : o[k] \in Range(o) /\ IsEntry(o[k])
         /\ \A e \in Range(o) : \E k \in 1..Len(o) : e = o[k]
BY LenProperties, RangeEquality DEF IsWindow, IsSeq

\* Every entry after a change of states is one from before with its new state.
LEMMA SettledMembers ==
  ASSUME NEW o, IsWindow(o), NEW S, NEW new,
         \A k \in DOMAIN o : k \in S => new[o[k].state] \in States
  PROVE  /\ IsWindow(Settled(o, S, new))
         /\ \A e \in Range(Settled(o, S, new)) : \E k \in DOMAIN o :
              /\ e.item = o[k].item /\ e.bulk = o[k].bulk
              /\ e.state = IF k \in S THEN new[o[k].state] ELSE o[k].state
<1> DEFINE p == [k \in DOMAIN o |-> IF k \in S THEN [o[k] EXCEPT !.state = new[@]]
                                    ELSE o[k]]
           front == {k \in DOMAIN p : \A i \in 1..k : p[i].state = "gone"}
<1>1. /\ Len(o) \in Nat /\ DOMAIN o = 1..Len(o)
      /\ \A k \in 1..Len(o) : IsEntry(o[k])
  BY WindowMembers
<1>2. \A k \in 1..Len(o) :
        /\ IsEntry(p[k]) /\ p[k].item = o[k].item /\ p[k].bulk = o[k].bulk
        /\ p[k].state = IF k \in S THEN new[o[k].state] ELSE o[k].state
  BY <1>1 DEF IsEntry
<1>3. p \in Seq(Range(p)) /\ Len(p) = Len(o) /\ Range(p) = {p[k] : k \in 1..Len(o)}
  <2>1. DOMAIN p = 1..Len(o) /\ p \in [1..Len(o) -> Range(p)]
    BY <1>1 DEF Range
  <2>2. Range(p) = {p[k] : k \in 1..Len(o)}
    BY <2>1 DEF Range
  <2> HIDE DEF p
  <2>3. p \in Seq(Range(p))
    BY <1>1, <2>1, SeqDef
  <2>4. Len(p) \in Nat /\ DOMAIN p = 1..Len(p)
    BY <2>3, LenProperties
  <2>5. Len(p) = Len(o)
    BY <1>1, <2>1, <2>4
  <2> QED BY <2>2, <2>3, <2>5
<1>4. Cardinality(front) \in Nat
  <2>1. IsFiniteSet(1..Len(o))
    BY <1>1, FS_Interval
  <2>2. DOMAIN p = 1..Len(o)
    BY <1>1
  <2>3. front \subseteq 1..Len(o)
    <3> HIDE DEF p
    <3> QED BY <2>2
  <2> HIDE DEF front
  <2> QED BY <2>1, <2>3, FS_Subset, FS_CardinalityType
<1>5. Settled(o, S, new) = SubSeq(p, Cardinality(front) + 1, Len(p))
  BY Zenon DEF Settled, Trim
<1> HIDE DEF p, front
<1>6. /\ IsSeq(Settled(o, S, new))
      /\ Range(Settled(o, S, new)) \subseteq Range(p)
  <2>1. Cardinality(front) + 1 \in Nat \ {0} /\ Len(p) \in Nat /\ IsSeq(p)
    BY <1>1, <1>3, <1>4 DEF IsSeq
  <2> QED BY <1>5, <2>1, PartMembers
<1>7. \A e \in Range(Settled(o, S, new)) : \E k \in 1..Len(o) : e = p[k]
  BY <1>3, <1>6
<1> QED BY <1>1, <1>2, <1>6, <1>7 DEF IsWindow

\* An acknowledgement adds no items, and nothing outstanding.
LEMMA AckedItems ==
  ASSUME NEW o, IsWindow(o), NEW k \in Outstanding(o)
  PROVE  /\ IsWindow(Acked(o, k))
         /\ ItemsOf(Acked(o, k)) \subseteq ItemsOf(o)
         /\ OwnItems(Acked(o, k)) \subseteq OwnItems(o)
<1> DEFINE new == [open |-> "acked", passed |-> "gone"]
<1>1. o[k].state \in {"open", "passed"} /\ k \in DOMAIN o
  BY DEF Outstanding
<1>2. new[o[k].state] \in {"acked", "gone"}
  BY <1>1
<1>3. Acked(o, k) = Settled(o, {k}, new)
  BY DEF Acked
<1> HIDE DEF new
<1>4. /\ IsWindow(Acked(o, k))
      /\ \A e \in Range(Acked(o, k)) : \E i \in DOMAIN o :
           /\ e.item = o[i].item /\ e.bulk = o[i].bulk
           /\ e.state = IF i \in {k} THEN new[o[i].state] ELSE o[i].state
  BY <1>2, <1>3, SettledMembers DEF States
<1>5. \A i \in DOMAIN o : o[i] \in Range(o)
  BY WindowMembers
<1> QED BY <1>2, <1>4, <1>5 DEF ItemsOf, OwnItems, IsOwn

\* Giving up adds no items and nothing outstanding; giving up all own entries
\* leaves none of them outstanding.
LEMMA GivenUpItems ==
  ASSUME NEW o, IsWindow(o), NEW S \in SUBSET Outstanding(o)
  PROVE  /\ IsWindow(GivenUp(o, S))
         /\ ItemsOf(GivenUp(o, S)) \subseteq ItemsOf(o)
         /\ OwnItems(GivenUp(o, S)) \subseteq OwnItems(o)
         /\ S = OwnEntries(o) => OwnItems(GivenUp(o, S)) = {}
<1> DEFINE new == [open |-> "lost", passed |-> "gone"]
<1>1. \A k \in S : o[k].state \in {"open", "passed"} /\ k \in DOMAIN o
  BY DEF Outstanding
<1>2. \A k \in S : new[o[k].state] \in {"lost", "gone"}
  BY <1>1
<1>3. GivenUp(o, S) = Settled(o, S, new)
  BY DEF GivenUp
<1> HIDE DEF new
<1>4. /\ IsWindow(GivenUp(o, S))
      /\ \A e \in Range(GivenUp(o, S)) : \E i \in DOMAIN o :
           /\ e.item = o[i].item /\ e.bulk = o[i].bulk
           /\ e.state = IF i \in S THEN new[o[i].state] ELSE o[i].state
  BY <1>2, <1>3, SettledMembers DEF States
<1>5. \A i \in DOMAIN o : o[i] \in Range(o)
  BY WindowMembers
<1>6. S = OwnEntries(o) => \A i \in DOMAIN o : IsOwn(o[i]) => i \in S
  BY DEF OwnEntries, Outstanding, IsOwn
<1>7. \A e \in Range(GivenUp(o, S)) : \E i \in DOMAIN o :
        e.item = o[i].item /\ (IsOwn(e) => i \notin S /\ IsOwn(o[i]))
  BY <1>2, <1>4 DEF IsOwn
<1> QED BY <1>4, <1>5, <1>6, <1>7 DEF ItemsOf, OwnItems

\* A hand-over adds no items, and nothing outstanding.
LEMMA HandedUpItems ==
  ASSUME NEW o, IsWindow(o),
         NEW k \in DOMAIN o, o[k].state \in {"open", "acked", "lost"}
  PROVE  /\ IsWindow(HandedUp(o, k))
         /\ ItemsOf(HandedUp(o, k)) \subseteq ItemsOf(o)
         /\ OwnItems(HandedUp(o, k)) \subseteq OwnItems(o)
<1> DEFINE new == [open |-> "passed", acked |-> "gone", lost |-> "gone"]
           S == {i \in 1..k : i = k \/ o[i].state = "lost"}
<1>1. \A i \in S : o[i].state \in {"open", "acked", "lost"}
  OBVIOUS
<1>2. \A i \in S : /\ new[o[i].state] \in {"passed", "gone"}
                   /\ new[o[i].state] = "passed" => o[i].state = "open"
  <2> HIDE DEF S
  <2> QED BY <1>1
<1>3. HandedUp(o, k) = Settled(o, S, new)
  BY DEF HandedUp
<1> HIDE DEF new, S
<1>4. /\ IsWindow(HandedUp(o, k))
      /\ \A e \in Range(HandedUp(o, k)) : \E i \in DOMAIN o :
           /\ e.item = o[i].item /\ e.bulk = o[i].bulk
           /\ e.state = IF i \in S THEN new[o[i].state] ELSE o[i].state
  BY <1>2, <1>3, SettledMembers DEF States
<1>5. \A i \in DOMAIN o : o[i] \in Range(o)
  BY WindowMembers
<1>6. \A e \in Range(HandedUp(o, k)) : \E i \in DOMAIN o :
        e.item = o[i].item /\ (IsOwn(e) => IsOwn(o[i]))
  BY <1>2, <1>4 DEF IsOwn
<1> QED BY <1>4, <1>5, <1>6 DEF ItemsOf, OwnItems

\* Nor does the receiver's new start.
LEMMA ForgottenItems ==
  ASSUME NEW o, IsWindow(o)
  PROVE  /\ IsWindow(Forgotten(o))
         /\ ItemsOf(Forgotten(o)) \subseteq ItemsOf(o)
         /\ OwnItems(Forgotten(o)) \subseteq OwnItems(o)
<1> DEFINE new == [open |-> "open", passed |-> "open", acked |-> "gone",
                   lost |-> "gone"]
           S == {i \in DOMAIN o : o[i].state # "gone"}
<1>1. \A i \in S : o[i].state \in {"open", "passed", "acked", "lost"}
  <2>1. \A i \in DOMAIN o : o[i].state \in States
    BY WindowMembers DEF IsEntry
  <2> QED BY <2>1 DEF States
<1>2. \A i \in S : /\ new[o[i].state] \in {"open", "gone"}
                   /\ new[o[i].state] = "open" => o[i].state \in {"open", "passed"}
  <2> HIDE DEF S
  <2> QED BY <1>1
<1>3. Forgotten(o) = Settled(o, S, new)
  BY DEF Forgotten
<1> HIDE DEF new, S
<1>4. /\ IsWindow(Forgotten(o))
      /\ \A e \in Range(Forgotten(o)) : \E i \in DOMAIN o :
           /\ e.item = o[i].item /\ e.bulk = o[i].bulk
           /\ e.state = IF i \in S THEN new[o[i].state] ELSE o[i].state
  BY <1>2, <1>3, SettledMembers DEF States
<1>5. \A i \in DOMAIN o : o[i] \in Range(o)
  BY WindowMembers
<1>6. \A e \in Range(Forgotten(o)) : \E i \in DOMAIN o :
        e.item = o[i].item /\ (IsOwn(e) => IsOwn(o[i]))
  BY <1>2, <1>4 DEF IsOwn
<1> QED BY <1>4, <1>5, <1>6 DEF ItemsOf, OwnItems

----------------------------------------------------------------------------
\* Items of a file.

\* Fragments of a file form a sequence.
LEMMA FragmentItems ==
  ASSUME NEW f \in Files, NEW S \in SUBSET Indices(f)
  PROVE  /\ IsSeq(Fragments(f, S))
         /\ \A r \in Range(Fragments(f, S)) : r.kind = "data" /\ r.file = f
<1> DEFINE c == Cardinality(S)
           q == Fragments(f, S)
<1>1. c \in Nat
  <2>1. Size[f] \in Nat
    BY FilesAssumption
  <2>2. IsFiniteSet(0..(Size[f] - 1))
    BY <2>1, FS_Interval
  <2> QED BY <2>2, FS_Subset, FS_CardinalityType DEF Indices
<1>2. DOMAIN InOrder(S) = 1..c
  BY DEF InOrder
<1>3. /\ DOMAIN q = 1..c
      /\ \A k \in 1..c : q[k] = Fragment(f, InOrder(S)[k])
      /\ q = [k \in 1..c |-> q[k]]
  BY <1>2 DEF Fragments
<1> HIDE DEF c, q
<1>4. Range(q) = {q[k] : k \in 1..c} /\ q \in [1..c -> Range(q)]
  BY <1>3 DEF Range
<1>5. q \in Seq(Range(q))
  BY <1>1, <1>4, SeqDef
<1>6. \A r \in Range(q) : r.kind = "data" /\ r.file = f
  BY <1>3, <1>4 DEF Fragment
<1> QED BY <1>5, <1>6 DEF IsSeq, q

\* So does a whole transfer, and a repair: fragments and an end mark.
LEMMA FileItems ==
  ASSUME NEW f \in Files
  PROVE  /\ IsSeq(WholeFile(f))
         /\ \A r \in Range(WholeFile(f)) : r.kind # "done" /\ r.file = f
         /\ IsSeq(<<EndMark(f)>>)
         /\ \A r \in Range(<<EndMark(f)>>) : r.kind # "done" /\ r.file = f
<1>1. IsSeq(<<Header(f)>>) /\ Range(<<Header(f)>>) = {Header(f)}
  BY SingleMember
<1>2. IsSeq(<<EndMark(f)>>) /\ Range(<<EndMark(f)>>) = {EndMark(f)}
  BY SingleMember
<1>3. /\ IsSeq(Fragments(f, Indices(f)))
      /\ \A r \in Range(Fragments(f, Indices(f))) : r.kind = "data" /\ r.file = f
  BY FragmentItems
<1> DEFINE h == <<Header(f)>>
           d == Fragments(f, Indices(f))
           e == <<EndMark(f)>>
<1> HIDE DEF h, d, e
<1>4. IsSeq(h \o d) /\ Range(h \o d) = Range(h) \cup Range(d)
  BY <1>1, <1>3, ConcatMembers DEF h, d
<1>5. IsSeq((h \o d) \o e) /\ Range((h \o d) \o e) = Range(h \o d) \cup Range(e)
  BY <1>2, <1>4, ConcatMembers DEF e
<1>6. \A r \in Range((h \o d) \o e) : r.kind # "done" /\ r.file = f
  BY <1>1, <1>2, <1>3, <1>4, <1>5 DEF h, d, e, Header, EndMark
<1>7. WholeFile(f) = (h \o d) \o e
  BY DEF WholeFile, h, d, e
<1> QED BY <1>2, <1>5, <1>6, <1>7 DEF EndMark

\* The other end is another node.
LEMMA PeerIsNode ==
  ASSUME NEW n \in Nodes
  PROVE  Peer(n) \in Nodes /\ Peer(n) # n
<1>1. \E m \in Nodes : m # n
  <2> SUFFICES ASSUME Nodes = {n} PROVE FALSE
    OBVIOUS
  <2>1. Cardinality({n}) = 1
    BY FS_Singleton
  <2> QED BY <2>1, NodesAssumption
<1> QED BY <1>1 DEF Peer

----------------------------------------------------------------------------
(***************************************************************************)
(* The invariant.  A good verdict, wherever it is, belongs to data that    *)
(* was written; and own items, queued or outstanding, belong to the        *)
(* transfer under way.                                                     *)
(***************************************************************************)
Transfer == [file : Files, round : Nat, waiting : BOOLEAN]

Shape ==
  /\ hi = [n \in Nodes |-> hi[n]] /\ bulk = [n \in Nodes |-> bulk[n]]
  /\ out = [n \in Nodes |-> out[n]] /\ last = [n \in Nodes |-> last[n]]
  /\ tx \in [Nodes -> {Nobody} \cup Transfer]
  /\ verdict = [f \in Files |-> verdict[f]]
  /\ \A n \in Nodes : IsSeq(hi[n]) /\ IsSeq(bulk[n]) /\ IsWindow(out[n])
  /\ IsSeq(written)

Mine(n, r) == tx[n] # Nobody /\ r.file = tx[n].file

OwnInv ==
  \A n \in Nodes :
    /\ \A r \in Range(bulk[n]) : r.kind # "done"
    /\ \A r \in Range(bulk[n]) \cup OwnItems(out[n]) : Mine(n, r)

Written(data) == \E w \in Range(written) : w.data = data

Vouched(r) == r.kind = "done" /\ r.ok => Written(r.crc)

VouchedInv ==
  \A n \in Nodes :
    /\ \A r \in Range(hi[n]) \cup ItemsOf(out[n]) : Vouched(r)
    /\ last[n] # Nobody => Vouched(last[n].reply)

VerdictInv == \A f \in Files : verdict[f] = "ok" => Written(FileData(f))

Inv == Shape /\ OwnInv /\ VouchedInv /\ VerdictInv

\* The invariant implies the two properties.
LEMMA InvImplies == Inv => OkIsComplete /\ NoLeftovers
<1> SUFFICES ASSUME Inv PROVE OkIsComplete /\ NoLeftovers
  OBVIOUS
<1>1. OkIsComplete
  <2>1. Range(written) = {written[i] : i \in DOMAIN written}
    BY DEF Range
  <2> QED BY <2>1 DEF Inv, VerdictInv, Written, OkIsComplete
<1>2. NoLeftovers
  <2> SUFFICES ASSUME NEW n \in Nodes
               PROVE  /\ \A i \in DOMAIN bulk[n] :
                           tx[n] # Nobody /\ bulk[n][i].file = tx[n].file
                      /\ \A k \in OwnEntries(out[n]) :
                           tx[n] # Nobody /\ out[n][k].item.file = tx[n].file
    BY DEF NoLeftovers
  <2>1. \A i \in DOMAIN bulk[n] : bulk[n][i] \in Range(bulk[n])
    BY DEF Range
  <2>2. \A k \in OwnEntries(out[n]) : out[n][k].item \in OwnItems(out[n])
    BY DEF Range, OwnEntries, Outstanding, OwnItems, IsOwn, Inv, Shape, IsWindow, IsEntry
  <2> QED BY <2>1, <2>2 DEF Inv, OwnInv, Mine
<1> QED BY <1>1, <1>2

\* The invariant holds at the start.
LEMMA InitInv == Init => Inv
<1> SUFFICES ASSUME Init PROVE Inv
  OBVIOUS
<1> USE EmptyMembers DEF Init
<1>1. Shape
  <2>1. \A n \in Nodes : IsSeq(hi[n]) /\ IsSeq(bulk[n]) /\ IsWindow(out[n])
    BY DEF IsWindow
  <2>2. IsSeq(written)
    OBVIOUS
  <2>3. verdict = [f \in Files |-> verdict[f]]
    OBVIOUS
  <2>4. tx \in [Nodes -> {Nobody} \cup Transfer]
    OBVIOUS
  <2> QED BY <2>1, <2>2, <2>3, <2>4 DEF Shape
<1>2. \A n \in Nodes : Range(bulk[n]) = {} /\ Range(hi[n]) = {}
                       /\ ItemsOf(out[n]) = {} /\ OwnItems(out[n]) = {}
  BY DEF ItemsOf, OwnItems
<1>3. OwnInv
  BY <1>2 DEF OwnInv
<1>4. VouchedInv
  BY <1>2 DEF VouchedInv
<1>5. VerdictInv
  BY DEF VerdictInv
<1> QED BY <1>1, <1>3, <1>4, <1>5 DEF Inv

----------------------------------------------------------------------------
\* What the steps share.

\* A transfer is not the absence of one.
LEMMA TransferIsSome == \A t \in Transfer : t # Nobody /\ t.file \in Files
BY NoneAssumption DEF Transfer, Nobody

\* What was written stays written.
LEMMA WrittenStays ==
  ASSUME Range(written) \subseteq Range(written)'
  PROVE  /\ \A data : Written(data) => Written(data)'
         /\ \A r : Vouched(r) => Vouched(r)'
BY DEF Written, Vouched

\* Windows that hold no more than those of out.
Fits(o) ==
  /\ o = [n \in Nodes |-> o[n]]
  /\ \A n \in Nodes : /\ IsWindow(o[n])
                      /\ ItemsOf(o[n]) \subseteq ItemsOf(out[n])
                      /\ OwnItems(o[n]) \subseteq OwnItems(out[n])

\* Replacing one window by one that holds no more.
LEMMA ExceptFits ==
  ASSUME Shape, NEW n \in Nodes, NEW w,
         IsWindow(w), ItemsOf(w) \subseteq ItemsOf(out[n]),
         OwnItems(w) \subseteq OwnItems(out[n])
  PROVE  Fits([out EXCEPT ![n] = w])
<1> DEFINE o == [out EXCEPT ![n] = w]
<1>1. out = [m \in Nodes |-> out[m]] /\ \A m \in Nodes : IsWindow(out[m])
  BY DEF Shape
<1>2. o = [m \in Nodes |-> o[m]] /\ \A m \in Nodes : o[m] = IF m = n THEN w ELSE out[m]
  BY <1>1
<1> HIDE DEF o
<1>3. Fits(o)
  BY <1>1, <1>2 DEF Fits
<1> QED BY <1>3 DEF o

\* A step that only changes the windows, and these so.
LEMMA WindowsInv ==
  ASSUME Inv, NEW o, Fits(o), out' = o,
         UNCHANGED <<hi, bulk, tx, last, verdict, written>>
  PROVE  Inv'
<1>1. Shape'
  BY DEF Inv, Shape, Fits
<1>2. OwnInv'
  BY DEF Inv, OwnInv, Fits, Mine
<1>3. VouchedInv'
  BY DEF Inv, VouchedInv, Fits, Vouched, Written
<1>4. VerdictInv'
  BY DEF Inv, VerdictInv, Written
<1> QED BY <1>1, <1>2, <1>3, <1>4 DEF Inv

\* A purge replaces the queue and leaves nothing of its own outstanding.
LEMMA PurgeLeaves ==
  ASSUME Inv, NEW o, Fits(o), NEW n \in Nodes, NEW more, IsSeq(more),
         Purge(n, o, more)
  PROVE  /\ bulk' = [m \in Nodes |-> bulk'[m]] /\ out' = [m \in Nodes |-> out'[m]]
         /\ bulk'[n] = more /\ OwnItems(out'[n]) = {}
         /\ \A m \in Nodes : /\ IsSeq(bulk'[m]) /\ IsWindow(out'[m])
                             /\ ItemsOf(out'[m]) \subseteq ItemsOf(out[m])
         /\ \A m \in Nodes \ {n} : /\ bulk'[m] = bulk[m]
                                   /\ OwnItems(out'[m]) \subseteq OwnItems(out[m])
<1> DEFINE w == GivenUp(o[n], OwnEntries(o[n]))
<1>1. /\ bulk = [m \in Nodes |-> bulk[m]] /\ o = [m \in Nodes |-> o[m]]
      /\ \A m \in Nodes : IsSeq(bulk[m])
  BY DEF Inv, Shape, Fits
<1>2. /\ bulk' = [bulk EXCEPT ![n] = more]
      /\ out' = [o EXCEPT ![n] = w]
  BY DEF Purge
<1>3. IsWindow(w) /\ ItemsOf(w) \subseteq ItemsOf(o[n]) /\ OwnItems(w) = {}
  <2>1. IsWindow(o[n]) /\ OwnEntries(o[n]) \in SUBSET Outstanding(o[n])
    BY DEF Fits, OwnEntries
  <2> QED BY <2>1, GivenUpItems
<1> HIDE DEF w
<1>4. /\ bulk' = [m \in Nodes |-> bulk'[m]]
      /\ \A m \in Nodes : bulk'[m] = IF m = n THEN more ELSE bulk[m]
  BY <1>1, <1>2
<1>5. /\ out' = [m \in Nodes |-> out'[m]]
      /\ \A m \in Nodes : out'[m] = IF m = n THEN w ELSE o[m]
  BY <1>1, <1>2
<1> QED BY <1>1, <1>3, <1>4, <1>5 DEF Fits

\* A transfer ends, with the verdict only if its data was written.
LEMMA EndsInv ==
  ASSUME Inv, NEW o, Fits(o), NEW n \in Nodes, NEW how,
         how = "ok" => Written(FileData(tx[n].file)),
         Ends(n, how), Purge(n, o, << >>), UNCHANGED <<hi, last, written>>
  PROVE  Inv'
<1>1. IsSeq(<< >>) /\ Range(<< >>) = {}
  BY EmptyMembers
<1>2. /\ bulk' = [m \in Nodes |-> bulk'[m]] /\ out' = [m \in Nodes |-> out'[m]]
      /\ bulk'[n] = << >> /\ OwnItems(out'[n]) = {}
      /\ \A m \in Nodes : /\ IsSeq(bulk'[m]) /\ IsWindow(out'[m])
                          /\ ItemsOf(out'[m]) \subseteq ItemsOf(out[m])
      /\ \A m \in Nodes \ {n} : /\ bulk'[m] = bulk[m]
                                /\ OwnItems(out'[m]) \subseteq OwnItems(out[m])
  BY <1>1, PurgeLeaves
<1>3. /\ tx' \in [Nodes -> {Nobody} \cup Transfer]
      /\ \A m \in Nodes \ {n} : tx'[m] = tx[m]
  BY DEF Inv, Shape, Ends
<1>4. verdict' = [f \in Files |-> verdict'[f]]
  BY DEF Inv, Shape, Ends
<1>5. Shape'
  BY <1>2, <1>3, <1>4 DEF Inv, Shape
<1>6. OwnInv'
  BY SMTT(30), <1>1, <1>2, <1>3 DEF Inv, OwnInv, Mine
<1>7. VouchedInv'
  BY <1>2 DEF Inv, VouchedInv, Vouched, Written
<1>8. VerdictInv'
  <2>1. \A f \in Files : verdict'[f] = IF f = tx[n].file THEN how ELSE verdict[f]
    BY DEF Inv, Shape, Ends
  <2> QED BY <2>1 DEF Inv, VerdictInv, Written
<1> QED BY <1>5, <1>6, <1>7, <1>8 DEF Inv

\* The next round is a round of the same transfer.
LEMMA NextRoundKeeps ==
  ASSUME Inv, NEW n \in Nodes, tx[n] # Nobody, NextRound(n)
  PROVE  /\ tx' \in [Nodes -> {Nobody} \cup Transfer]
         /\ tx[n].file \in Files
         /\ tx'[n] # Nobody /\ tx'[n].file = tx[n].file
         /\ \A m \in Nodes : \A r : Mine(m, r) => Mine(m, r)'
         /\ verdict' = verdict
<1>1. tx \in [Nodes -> {Nobody} \cup Transfer] /\ tx[n] \in Transfer
  BY DEF Inv, Shape
<1> DEFINE t == [file |-> tx[n].file, round |-> tx[n].round + 1, waiting |-> FALSE]
<1>2. t \in Transfer /\ t.file = tx[n].file
  BY <1>1 DEF Transfer
<1>3. tx' = [tx EXCEPT ![n] = t] /\ verdict' = verdict
  BY DEF NextRound
<1> HIDE DEF t
<1>4. tx' \in [Nodes -> {Nobody} \cup Transfer]
  BY <1>1, <1>2, <1>3
<1>5. tx'[n] = t /\ \A m \in Nodes \ {n} : tx'[m] = tx[m]
  BY <1>1, <1>3
<1>6. t # Nobody /\ tx[n].file \in Files
  BY <1>1, <1>2, TransferIsSome
<1> QED BY <1>2, <1>3, <1>4, <1>5, <1>6 DEF Mine

\* The transfer starts over.
LEMMA StartOverInv ==
  ASSUME Inv, NEW o, Fits(o), NEW n \in Nodes, tx[n] # Nobody,
         NextRound(n), Purge(n, o, WholeFile(tx[n].file)),
         UNCHANGED <<hi, last, written>>
  PROVE  Inv'
<1>1. /\ tx' \in [Nodes -> {Nobody} \cup Transfer]
      /\ tx[n].file \in Files
      /\ tx'[n] # Nobody /\ tx'[n].file = tx[n].file
      /\ \A m \in Nodes : \A r : Mine(m, r) => Mine(m, r)'
      /\ verdict' = verdict
  BY NextRoundKeeps
<1> DEFINE more == WholeFile(tx[n].file)
<1>2. IsSeq(more) /\ \A r \in Range(more) : r.kind # "done" /\ r.file = tx[n].file
  BY <1>1, FileItems
<1>3. Purge(n, o, more)
  OBVIOUS
<1> HIDE DEF more
<1>4. /\ bulk' = [m \in Nodes |-> bulk'[m]] /\ out' = [m \in Nodes |-> out'[m]]
      /\ bulk'[n] = more /\ OwnItems(out'[n]) = {}
      /\ \A m \in Nodes : /\ IsSeq(bulk'[m]) /\ IsWindow(out'[m])
                          /\ ItemsOf(out'[m]) \subseteq ItemsOf(out[m])
      /\ \A m \in Nodes \ {n} : /\ bulk'[m] = bulk[m]
                                /\ OwnItems(out'[m]) \subseteq OwnItems(out[m])
  BY <1>2, <1>3, PurgeLeaves
<1>5. Shape'
  BY <1>1, <1>4 DEF Inv, Shape
<1>6. OwnInv'
  <2>1. \A r \in Range(more) : Mine(n, r)'
    BY <1>1, <1>2 DEF Mine
  <2>2. \A m \in Nodes \ {n} : \A r \in Range(bulk[m]) \cup OwnItems(out[m]) :
          Mine(m, r)'
    BY <1>1 DEF Inv, OwnInv
  <2> QED BY <1>2, <1>4, <2>1, <2>2 DEF Inv, OwnInv
<1>7. VouchedInv'
  BY <1>4 DEF Inv, VouchedInv, Vouched, Written
<1>8. VerdictInv'
  BY <1>1 DEF Inv, VerdictInv, Written
<1> QED BY <1>5, <1>6, <1>7, <1>8 DEF Inv

\* The transfer goes on with more of its items at the end of the queue.
LEMMA GoesOnInv ==
  ASSUME Inv, NEW o, Fits(o), out' = o, NEW n \in Nodes, tx[n] # Nobody,
         NextRound(n), NEW q, IsSeq(q),
         \A r \in Range(q) : \/ r \in Range(bulk[n])
                             \/ r.kind # "done" /\ r.file = tx[n].file,
         bulk' = [bulk EXCEPT ![n] = q],
         UNCHANGED <<hi, last, written>>
  PROVE  Inv'
<1>1. /\ tx' \in [Nodes -> {Nobody} \cup Transfer]
      /\ tx'[n] # Nobody /\ tx'[n].file = tx[n].file
      /\ \A m \in Nodes : \A r : Mine(m, r) => Mine(m, r)'
      /\ verdict' = verdict
  BY NextRoundKeeps
<1>2. /\ bulk' = [m \in Nodes |-> bulk'[m]]
      /\ \A m \in Nodes : bulk'[m] = IF m = n THEN q ELSE bulk[m]
  BY DEF Inv, Shape
<1>3. Shape'
  BY <1>1, <1>2 DEF Inv, Shape, Fits
<1>4. OwnInv'
  <2>1. \A m \in Nodes : \A r \in Range(bulk[m]) \cup OwnItems(out[m]) : Mine(m, r)'
    BY <1>1 DEF Inv, OwnInv
  <2>2. \A r \in Range(q) : r.kind # "done" /\ Mine(n, r)'
    BY <1>1, <2>1 DEF Inv, OwnInv, Mine
  <2>3. \A m \in Nodes : OwnItems(out'[m]) \subseteq OwnItems(out[m])
    BY DEF Fits
  <2> QED BY <1>2, <2>1, <2>2, <2>3 DEF Inv, OwnInv
<1>5. VouchedInv'
  BY DEF Inv, VouchedInv, Vouched, Written, Fits
<1>6. VerdictInv'
  BY <1>1 DEF Inv, VerdictInv, Written
<1> QED BY <1>3, <1>4, <1>5, <1>6 DEF Inv

----------------------------------------------------------------------------
\* The steps of the sender.

\* A new transfer finds nothing of an earlier one.
LEMMA SendFileInv ==
  ASSUME Inv, NEW n \in Nodes, NEW f \in Files, SendFile(n, f)
  PROVE  Inv'
<1> DEFINE t == [file |-> f, round |-> 1, waiting |-> FALSE]
           more == WholeFile(f)
<1>1. t \in Transfer /\ t # Nobody /\ t.file = f
  BY TransferIsSome DEF Transfer
<1>2. /\ tx[n] = Nobody /\ tx' = [tx EXCEPT ![n] = t]
      /\ bulk' = [bulk EXCEPT ![n] = @ \o more]
      /\ verdict' = [verdict EXCEPT ![f] = "sending"]
      /\ UNCHANGED <<hi, out, rx, last, written, lives, lost, outages>>
  BY DEF SendFile
<1>3. IsSeq(more) /\ \A r \in Range(more) : r.kind # "done" /\ r.file = f
  BY FileItems
<1> HIDE DEF t, more
<1>4. Range(bulk[n]) = {} /\ OwnItems(out[n]) = {}
  BY <1>2 DEF Inv, OwnInv, Mine
<1>5. IsSeq(bulk[n] \o more) /\ Range(bulk[n] \o more) = Range(more)
  <2>1. IsSeq(bulk[n])
    BY DEF Inv, Shape
  <2>2. /\ IsSeq(bulk[n] \o more)
        /\ Range(bulk[n] \o more) = Range(bulk[n]) \cup Range(more)
    BY <1>3, <2>1, ConcatMembers
  <2>3. Range(bulk[n]) \cup Range(more) = Range(more)
    BY <1>4
  <2> QED BY <2>2, <2>3
<1>6. /\ bulk' = [m \in Nodes |-> bulk'[m]]
      /\ \A m \in Nodes : bulk'[m] = IF m = n THEN bulk[n] \o more ELSE bulk[m]
  BY <1>2 DEF Inv, Shape
<1>7. /\ tx' \in [Nodes -> {Nobody} \cup Transfer]
      /\ \A m \in Nodes : tx'[m] = IF m = n THEN t ELSE tx[m]
  BY <1>1, <1>2 DEF Inv, Shape
<1>8. /\ verdict' = [g \in Files |-> verdict'[g]]
      /\ \A g \in Files : verdict'[g] = "ok" => verdict[g] = "ok"
  BY <1>2 DEF Inv, Shape
<1>9. Shape'
  BY <1>2, <1>5, <1>6, <1>7, <1>8 DEF Inv, Shape
<1>10. OwnInv'
  BY <1>1, <1>2, <1>3, <1>4, <1>5, <1>6, <1>7 DEF Inv, OwnInv, Mine
<1>11. VouchedInv'
  BY <1>2 DEF Inv, VouchedInv, Vouched, Written
<1>12. VerdictInv'
  BY <1>2, <1>8 DEF Inv, VerdictInv, Written
<1> QED BY <1>9, <1>10, <1>11, <1>12 DEF Inv

\* An entry sent carries an item from one of the two queues.
LEMMA SentItems ==
  ASSUME NEW o, IsWindow(o), NEW item, NEW own \in BOOLEAN
  PROVE  LET w == Append(o, [item |-> item, bulk |-> own, state |-> "open"])
         IN /\ IsWindow(w) /\ ItemsOf(w) = ItemsOf(o) \cup {item}
            /\ OwnItems(w) \subseteq OwnItems(o) \cup {item}
            /\ ~own => OwnItems(w) \subseteq OwnItems(o)
<1> DEFINE e == [item |-> item, bulk |-> own, state |-> "open"]
           w == Append(o, e)
<1>1. IsEntry(e) /\ e.item = item /\ (IsOwn(e) => own)
  BY DEF IsEntry, States, IsOwn
<1> HIDE DEF e
<1>2. IsSeq(w) /\ Range(w) = Range(o) \cup {e}
  BY AppendMembers DEF IsWindow
<1> HIDE DEF w
<1>3. IsWindow(w) /\ ItemsOf(w) = ItemsOf(o) \cup {item}
  BY <1>1, <1>2 DEF IsWindow, ItemsOf
<1>4. \A x \in OwnItems(w) : x \in OwnItems(o) \/ (x = item /\ own)
  BY <1>1, <1>2 DEF OwnItems
<1> QED BY <1>3, <1>4 DEF w, e

\* Sending moves an item from a queue into the window.
LEMMA PumpInv ==
  ASSUME Inv, NEW n \in Nodes, Pump(n)
  PROVE  Inv'
<1>1. /\ UNCHANGED <<tx, rx, last, verdict, written, lives, lost, outages>>
      /\ IsSeq(hi[n]) /\ IsSeq(bulk[n]) /\ IsWindow(out[n])
  BY DEF Pump, Inv, Shape
<1>2. CASE /\ hi[n] # << >>
           /\ hi' = [hi EXCEPT ![n] = Tail(@)]
           /\ out' = [out EXCEPT ![n] = Append(@, [item |-> Head(hi[n]),
                                        bulk |-> FALSE, state |-> "open"])]
           /\ UNCHANGED bulk
  <2> DEFINE w == Append(out[n], [item |-> Head(hi[n]), bulk |-> FALSE,
                                  state |-> "open"])
  <2>1. /\ IsWindow(w) /\ ItemsOf(w) = ItemsOf(out[n]) \cup {Head(hi[n])}
        /\ OwnItems(w) \subseteq OwnItems(out[n])
    BY <1>1, SentItems
  <2>2. out' = [out EXCEPT ![n] = w]
    BY <1>2
  <2> HIDE DEF w
  <2>3. /\ Head(hi[n]) \in Range(hi[n])
        /\ IsSeq(Tail(hi[n])) /\ Range(Tail(hi[n])) \subseteq Range(hi[n])
    BY <1>1, <1>2, TailMembers
  <2>4. /\ hi' = [m \in Nodes |-> hi'[m]] /\ out' = [m \in Nodes |-> out'[m]]
        /\ \A m \in Nodes : hi'[m] = IF m = n THEN Tail(hi[n]) ELSE hi[m]
        /\ \A m \in Nodes : out'[m] = IF m = n THEN w ELSE out[m]
    BY <1>2, <2>2 DEF Inv, Shape
  <2>5. Shape'
    BY <1>1, <1>2, <2>1, <2>3, <2>4 DEF Inv, Shape
  <2>6. OwnInv'
    BY <1>1, <1>2, <2>1, <2>4 DEF Inv, OwnInv, Mine
  <2>7. VouchedInv'
    <3>1. \A r : Vouched(r) => Vouched(r)'
      BY <1>1 DEF Vouched, Written
    <3> QED BY <1>1, <2>1, <2>3, <2>4, <3>1 DEF Inv, VouchedInv
  <2>8. VerdictInv'
    BY <1>1 DEF Inv, VerdictInv, Written
  <2> QED BY <2>5, <2>6, <2>7, <2>8 DEF Inv
<1>3. CASE /\ hi[n] = << >> /\ bulk[n] # << >>
           /\ bulk' = [bulk EXCEPT ![n] = Tail(@)]
           /\ out' = [out EXCEPT ![n] = Append(@, [item |-> Head(bulk[n]),
                                        bulk |-> TRUE, state |-> "open"])]
           /\ UNCHANGED hi
  <2> DEFINE w == Append(out[n], [item |-> Head(bulk[n]), bulk |-> TRUE,
                                  state |-> "open"])
  <2>1. /\ IsWindow(w) /\ ItemsOf(w) = ItemsOf(out[n]) \cup {Head(bulk[n])}
        /\ OwnItems(w) \subseteq OwnItems(out[n]) \cup {Head(bulk[n])}
    BY <1>1, SentItems
  <2>2. out' = [out EXCEPT ![n] = w]
    BY <1>3
  <2> HIDE DEF w
  <2>3. /\ Head(bulk[n]) \in Range(bulk[n])
        /\ IsSeq(Tail(bulk[n])) /\ Range(Tail(bulk[n])) \subseteq Range(bulk[n])
    BY <1>1, <1>3, TailMembers
  <2>4. /\ bulk' = [m \in Nodes |-> bulk'[m]] /\ out' = [m \in Nodes |-> out'[m]]
        /\ \A m \in Nodes : bulk'[m] = IF m = n THEN Tail(bulk[n]) ELSE bulk[m]
        /\ \A m \in Nodes : out'[m] = IF m = n THEN w ELSE out[m]
    BY <1>3, <2>2 DEF Inv, Shape
  <2>5. Shape'
    BY <1>1, <1>3, <2>1, <2>3, <2>4 DEF Inv, Shape
  <2>6. OwnInv'
    <3>1. \A m \in Nodes : /\ Range(bulk'[m]) \subseteq Range(bulk[m])
                           /\ OwnItems(out'[m]) \subseteq
                                OwnItems(out[m]) \cup Range(bulk[m])
      BY <2>1, <2>3, <2>4
    <3> QED BY <1>1, <3>1 DEF Inv, OwnInv, Mine
  <2>7. VouchedInv'
    <3>1. Vouched(Head(bulk[n]))
      BY <2>3 DEF Inv, OwnInv, Vouched
    <3>2. \A r : Vouched(r) => Vouched(r)'
      BY <1>1 DEF Vouched, Written
    <3>3. \A m \in Nodes : \A r \in ItemsOf(out'[m]) :
            r \in ItemsOf(out[m]) \/ r = Head(bulk[n])
      BY <2>1, <2>4
    <3>4. \A m \in Nodes : \A r \in Range(hi[m]) \cup ItemsOf(out'[m]) : Vouched(r)
      BY <3>1, <3>3 DEF Inv, VouchedInv
    <3>5. \A m \in Nodes : last[m] # Nobody => Vouched(last[m].reply)
      BY DEF Inv, VouchedInv
    <3> QED BY <1>1, <1>3, <3>2, <3>4, <3>5 DEF VouchedInv
  <2>8. VerdictInv'
    BY <1>1 DEF Inv, VerdictInv, Written
  <2> QED BY <2>5, <2>6, <2>7, <2>8 DEF Inv
<1> QED BY <1>2, <1>3 DEF Pump

\* An acknowledgement.
LEMMA AckInv ==
  ASSUME Inv, NEW n \in Nodes, NEW k, Ack(n, k)
  PROVE  Inv'
<1>1. Shape /\ IsWindow(out[n]) /\ k \in Outstanding(out[n])
  BY DEF Inv, Shape, Ack
<1>2. Fits([out EXCEPT ![n] = Acked(out[n], k)])
  BY <1>1, AckedItems, ExceptFits
<1>3. out' = [out EXCEPT ![n] = Acked(out[n], k)]
      /\ UNCHANGED <<hi, bulk, tx, last, verdict, written>>
  BY DEF Ack
<1> QED BY <1>2, <1>3, WindowsInv

\* An item given up, with what follows when it is a header.
LEMMA GiveUpInv ==
  ASSUME Inv, NEW n \in Nodes, NEW k, GiveUp(n, k)
  PROVE  Inv'
<1> DEFINE o == [out EXCEPT ![n] = GivenUp(out[n], {k})]
<1>1. Shape /\ IsWindow(out[n]) /\ {k} \in SUBSET Outstanding(out[n])
  BY DEF Inv, Shape, GiveUp
<1>2. Fits(o)
  BY <1>1, GivenUpItems, ExceptFits
<1>3. /\ UNCHANGED <<hi, rx, last, written, lives, outages>>
      /\ \/ tx[n] # Nobody /\ RestartFile(n, o)
         \/ out' = o /\ UNCHANGED <<bulk, tx, verdict>>
  BY DEF GiveUp
<1> HIDE DEF o
<1>4. CASE tx[n] # Nobody /\ RestartFile(n, o)
  <2>1. CASE LastRound(n)
    BY <1>2, <1>3, <1>4, <2>1, EndsInv DEF RestartFile
  <2>2. CASE ~LastRound(n)
    BY <1>2, <1>3, <1>4, <2>2, StartOverInv DEF RestartFile
  <2> QED BY <2>1, <2>2
<1>5. CASE out' = o /\ UNCHANGED <<bulk, tx, verdict>>
  BY <1>2, <1>3, <1>5, WindowsInv
<1> QED BY <1>3, <1>4, <1>5

\* The wait begins, or begins again.
LEMMA WaitInv ==
  ASSUME Inv, NEW n \in Nodes, NEW t, tx' = [tx EXCEPT ![n].waiting = t],
         t \in BOOLEAN, tx[n] # Nobody,
         UNCHANGED <<hi, bulk, out, last, verdict, written>>
  PROVE  Inv'
<1>1. tx \in [Nodes -> {Nobody} \cup Transfer] /\ tx[n] \in Transfer
  BY DEF Inv, Shape
<1> DEFINE u == [tx[n] EXCEPT !.waiting = t]
<1>2. tx' = [tx EXCEPT ![n] = u]
  OBVIOUS
<1>3. u \in Transfer /\ u.file = tx[n].file
  BY <1>1 DEF Transfer
<1> HIDE DEF u
<1>4. u # Nobody
  BY <1>3, TransferIsSome
<1>5. /\ tx' \in [Nodes -> {Nobody} \cup Transfer]
      /\ \A m \in Nodes : tx'[m] = IF m = n THEN u ELSE tx[m]
  BY <1>1, <1>2, <1>3
<1>6. Shape'
  BY <1>5 DEF Inv, Shape
<1>7. OwnInv'
  <2>1. \A m \in Nodes : \A r : Mine(m, r) => Mine(m, r)'
    BY <1>3, <1>4, <1>5 DEF Mine
  <2> QED BY <2>1 DEF Inv, OwnInv
<1>8. VouchedInv'
  BY DEF Inv, VouchedInv, Vouched, Written
<1>9. VerdictInv'
  BY DEF Inv, VerdictInv, Written
<1> QED BY <1>6, <1>7, <1>8, <1>9 DEF Inv

\* The wait is over without a verdict: a new round or the end.  Nothing of the
\* transfer is left by then.
LEMMA ExpireInv ==
  ASSUME Inv, NEW n \in Nodes, Expire(n)
  PROVE  Inv'
<1>1. /\ tx[n] # Nobody /\ bulk[n] = << >> /\ OwnEntries(out[n]) = {}
      /\ UNCHANGED <<hi, out, rx, last, written, lives, lost, outages>>
  BY DEF Expire, AllSent
<1>2. CASE Ends(n, "failed") /\ UNCHANGED bulk
  <2>1. Range(bulk[n]) = {} /\ OwnItems(out[n]) = {}
    <3>1. Range(bulk[n]) = {}
      BY <1>1, EmptyMembers
    <3>2. \A e \in Range(out[n]) : \E k \in DOMAIN out[n] : e = out[n][k]
      BY DEF Range
    <3> QED BY <1>1, <3>1, <3>2 DEF OwnItems, IsOwn, OwnEntries, Outstanding
  <2>2. /\ tx' \in [Nodes -> {Nobody} \cup Transfer]
        /\ \A m \in Nodes \ {n} : tx'[m] = tx[m]
        /\ verdict' = [f \in Files |-> verdict'[f]]
        /\ \A f \in Files : verdict'[f] = "ok" => verdict[f] = "ok"
    BY <1>2 DEF Inv, Shape, Ends
  <2>3. Shape'
    BY <1>1, <1>2, <2>2 DEF Inv, Shape
  <2>4. OwnInv'
    BY <1>1, <1>2, <2>1, <2>2 DEF Inv, OwnInv, Mine
  <2>5. VouchedInv'
    BY <1>1 DEF Inv, VouchedInv, Vouched, Written
  <2>6. VerdictInv'
    BY <1>1, <2>2 DEF Inv, VerdictInv, Written
  <2> QED BY <2>3, <2>4, <2>5, <2>6 DEF Inv
<1>3. CASE NextRound(n) /\ bulk' = [bulk EXCEPT ![n] = @ \o <<EndMark(tx[n].file)>>]
  <2> DEFINE more == <<EndMark(tx[n].file)>>
  <2>1. tx[n].file \in Files
    BY <1>1, TransferIsSome DEF Inv, Shape
  <2>2. IsSeq(more) /\ \A r \in Range(more) : r.kind # "done" /\ r.file = tx[n].file
    BY <2>1, FileItems
  <2>3. bulk' = [bulk EXCEPT ![n] = bulk[n] \o more]
    BY <1>3
  <2> HIDE DEF more
  <2> DEFINE q == bulk[n] \o more
  <2>5. IsSeq(q) /\ Range(q) = Range(bulk[n]) \cup Range(more)
    BY <2>2, ConcatMembers DEF Inv, Shape
  <2>6. bulk' = [bulk EXCEPT ![n] = q]
    BY <2>3
  <2> HIDE DEF q
  <2>4. Fits(out)
    BY DEF Inv, Shape, Fits
  <2> QED BY <1>1, <1>3, <2>2, <2>4, <2>5, <2>6, GoesOnInv
<1> QED BY <1>2, <1>3 DEF Expire

----------------------------------------------------------------------------
\* An item handed up.

\* An older NACK taken out leaves no other members.
LEMMA WithoutNackMembers ==
  ASSUME NEW q, IsSeq(q)
  PROVE  IsSeq(WithoutNack(q)) /\ Range(WithoutNack(q)) \subseteq Range(q)
<1>1. CASE \A i \in DOMAIN q : q[i].kind # "nack"
  BY <1>1 DEF WithoutNack
<1>2. CASE ~ \A i \in DOMAIN q : q[i].kind # "nack"
  <2> DEFINE p == CHOOSE i \in DOMAIN q : q[i].kind = "nack"
             a == SubSeq(q, 1, p - 1)
             b == SubSeq(q, p + 1, Len(q))
  <2>1. p \in DOMAIN q
    BY <1>2
  <2>2. WithoutNack(q) = a \o b
    BY <1>2, Zenon DEF WithoutNack
  <2> HIDE DEF p
  <2>3. Len(q) \in Nat /\ p \in 1..Len(q)
    BY <2>1, LenProperties DEF IsSeq
  <2>4. IsSeq(a) /\ Range(a) \subseteq Range(q)
    <3>1. 1 \in Nat \ {0} /\ p - 1 \in Nat /\ p - 1 <= Len(q)
      BY <2>3
    <3> QED BY <3>1, PartMembers
  <2>5. IsSeq(b) /\ Range(b) \subseteq Range(q)
    <3>1. p + 1 \in Nat \ {0} /\ Len(q) <= Len(q)
      BY <2>3
    <3> QED BY <2>3, <3>1, PartMembers
  <2> HIDE DEF a, b
  <2>6. IsSeq(a \o b) /\ Range(a \o b) = Range(a) \cup Range(b)
    BY <2>4, <2>5, ConcatMembers
  <2> QED BY <2>2, <2>4, <2>5, <2>6
<1> QED BY <1>1, <1>2

\* A reply put before what remains of the queue.
LEMMA ReplyFirst ==
  ASSUME NEW q, IsSeq(q), NEW p, IsSeq(p), Range(p) \subseteq Range(q), NEW r
  PROVE  IsSeq(<<r>> \o p) /\ Range(<<r>> \o p) \subseteq Range(q) \cup {r}
<1>1. IsSeq(<<r>>) /\ Range(<<r>>) = {r}
  BY SingleMember
<1> DEFINE h == <<r>>
<1> HIDE DEF h
<1>2. IsSeq(h \o p) /\ Range(h \o p) = Range(h) \cup Range(p)
  BY <1>1, ConcatMembers DEF h
<1> QED BY <1>1, <1>2 DEF h

\* A step of the receiver: the queue of replies of m changes by r at most.
LEMMA RepliesInv ==
  ASSUME Inv, NEW o, Fits(o), out' = o, NEW m \in Nodes,
         NEW q, IsSeq(q), NEW r, Range(q) \subseteq Range(hi[m]) \cup {r},
         Vouched(r)', hi' = [hi EXCEPT ![m] = q],
         UNCHANGED <<bulk, tx, verdict>>,
         IsSeq(written)', Range(written) \subseteq Range(written)',
         last' = [n \in Nodes |-> last'[n]],
         \A n \in Nodes : last'[n] = last[n] \/ last'[n].reply = r
  PROVE  Inv'
<1>1. /\ \A data : Written(data) => Written(data)'
      /\ \A x : Vouched(x) => Vouched(x)'
  BY WrittenStays
<1>2. /\ hi' = [n \in Nodes |-> hi'[n]]
      /\ \A n \in Nodes : hi'[n] = IF n = m THEN q ELSE hi[n]
  BY DEF Inv, Shape
<1>3. Shape'
  BY <1>2 DEF Inv, Shape, Fits
<1>4. OwnInv'
  BY DEF Inv, OwnInv, Fits, Mine
<1>5. VouchedInv'
  <2>1. \A n \in Nodes : \A x \in Range(hi'[n]) \cup ItemsOf(out'[n]) :
          x \in Range(hi[n]) \cup ItemsOf(out[n]) \/ x = r
    BY <1>2 DEF Fits
  <2>2. \A n \in Nodes : \A x \in Range(hi[n]) \cup ItemsOf(out[n]) : Vouched(x)'
    BY <1>1 DEF Inv, VouchedInv
  <2>3. \A n \in Nodes : \A x \in Range(hi'[n]) \cup ItemsOf(out'[n]) : Vouched(x)'
    BY <2>1, <2>2
  <2>4. \A n \in Nodes : \A x \in Range(hi[n])' \cup ItemsOf(out[n])' : Vouched(x)'
    BY <2>3
  <2>5. \A n \in Nodes : last'[n] # Nobody =>
          \E x : x = last'[n].reply /\ Vouched(x)'
    BY <1>1 DEF Inv, VouchedInv
  <2> QED BY <2>4, <2>5 DEF VouchedInv, Vouched, Written
<1>6. VerdictInv'
  BY <1>1 DEF Inv, VerdictInv
<1> QED BY <1>3, <1>4, <1>5, <1>6 DEF Inv

\* The end mark: a verdict is given only with the data that is written.
LEMMA OnEndInv ==
  ASSUME Inv, NEW o, Fits(o), NEW m \in Nodes, NEW item, OnEnd(m, item, o)
  PROVE  Inv'
<1> DEFINE want  == FileData(item.file)
           got   == rx[m].frags
           reply == Done(got = want, got)
<1>1. /\ out' = o /\ UNCHANGED <<bulk, tx, verdict>>
      /\ hi = [n \in Nodes |-> hi[n]] /\ last = [n \in Nodes |-> last[n]]
      /\ IsSeq(hi[m]) /\ IsSeq(written)
  BY DEF OnEnd, Inv, Shape
<1>2. \/ /\ hi' = IF last[m] # Nobody /\ last[m].want = want
                  THEN [hi EXCEPT ![m] = <<last[m].reply>> \o @] ELSE hi
         /\ UNCHANGED <<rx, last, written>>
      \/ /\ hi' = [hi EXCEPT ![m] = <<Nack(Asked(m))>> \o WithoutNack(@)]
         /\ UNCHANGED <<rx, last, written>>
      \/ /\ last' = [last EXCEPT ![m] =
                       [file |-> rx[m].file, want |-> want, reply |-> reply]]
         /\ hi' = [hi EXCEPT ![m] = <<reply>> \o @]
         /\ written' = Append(written, [file |-> rx[m].file, data |-> got,
                                        life |-> lives[m]])
  BY Zenon DEF OnEnd
<1> HIDE DEF want
<1>3. CASE hi' = hi /\ UNCHANGED <<rx, last, written>>
  BY <1>1, <1>3, WindowsInv
<1>4. ASSUME NEW r, Vouched(r),
             NEW p, IsSeq(p), Range(p) \subseteq Range(hi[m]),
             hi' = [hi EXCEPT ![m] = <<r>> \o p],
             UNCHANGED <<last, written>>
      PROVE  Inv'
  <2> DEFINE q == <<r>> \o p
  <2>1. IsSeq(q) /\ Range(q) \subseteq Range(hi[m]) \cup {r}
    BY <1>1, <1>4, ReplyFirst
  <2>2. hi' = [hi EXCEPT ![m] = q]
    BY <1>4
  <2> HIDE DEF q
  <2>3. Vouched(r)' /\ IsSeq(written)' /\ Range(written) \subseteq Range(written)'
    BY <1>1, <1>4 DEF Vouched, Written
  <2>4. last' = [n \in Nodes |-> last'[n]] /\ \A n \in Nodes : last'[n] = last[n]
    BY <1>1, <1>4
  <2> QED BY <1>1, <2>1, <2>2, <2>3, <2>4, RepliesInv
<1>5. CASE /\ last[m] # Nobody
           /\ hi' = [hi EXCEPT ![m] = <<last[m].reply>> \o hi[m]]
           /\ UNCHANGED <<rx, last, written>>
  <2>1. Vouched(last[m].reply)
    BY <1>5 DEF Inv, VouchedInv
  <2> QED BY <1>1, <1>4, <1>5, <2>1
<1>6. CASE /\ hi' = [hi EXCEPT ![m] = <<Nack(Asked(m))>> \o WithoutNack(hi[m])]
           /\ UNCHANGED <<rx, last, written>>
  <2>1. Vouched(Nack(Asked(m)))
    BY DEF Vouched, Nack
  <2>2. /\ IsSeq(WithoutNack(hi[m]))
        /\ Range(WithoutNack(hi[m])) \subseteq Range(hi[m])
    BY <1>1, WithoutNackMembers
  <2> QED BY <1>4, <1>6, <2>1, <2>2
<1>7. CASE /\ last' = [last EXCEPT ![m] =
                         [file |-> rx[m].file, want |-> want, reply |-> reply]]
           /\ hi' = [hi EXCEPT ![m] = <<reply>> \o hi[m]]
           /\ written' = Append(written, [file |-> rx[m].file, data |-> got,
                                          life |-> lives[m]])
  <2> HIDE DEF got
  <2>1. PICK w : w = [file |-> rx[m].file, data |-> got, life |-> lives[m]]
    OBVIOUS
  <2>2. reply.crc = w.data
    BY <2>1 DEF Done
  <2> HIDE DEF reply
  <2>3. PICK r, l : /\ r = reply
                    /\ l = [file |-> rx[m].file, want |-> want, reply |-> r]
    OBVIOUS
  <2>4. /\ written' = Append(written, w) /\ last' = [last EXCEPT ![m] = l]
        /\ hi' = [hi EXCEPT ![m] = <<r>> \o hi[m]]
        /\ l.reply = r
    BY <1>7, <2>1, <2>2, <2>3
  <2>5. IsSeq(written)' /\ Range(written)' = Range(written) \cup {w}
    <3>1. /\ IsSeq(Append(written, w))
          /\ Range(Append(written, w)) = Range(written) \cup {w}
      BY <1>1, AppendMembers
    <3> QED BY <2>4, <3>1 DEF IsSeq, Range
  <2>6. Vouched(r)'
    <3>1. w \in Range(written)' /\ w.data = r.crc
      BY <2>2, <2>3, <2>5
    <3>2. Written(r.crc)'
      BY <3>1, Zenon DEF Written
    <3> QED BY <3>2 DEF Vouched
  <2>7. /\ last' = [n \in Nodes |-> last'[n]]
        /\ \A n \in Nodes : last'[n] = last[n] \/ last'[n].reply = r
    BY <1>1, <2>4
  <2> DEFINE q == <<r>> \o hi[m]
  <2>8. IsSeq(q) /\ Range(q) \subseteq Range(hi[m]) \cup {r}
    BY <1>1, ReplyFirst
  <2>9. hi' = [hi EXCEPT ![m] = q]
    BY <2>4
  <2> HIDE DEF q
  <2> QED BY <1>1, <2>5, <2>6, <2>7, <2>8, <2>9, RepliesInv
<1> HIDE DEF got, reply
<1> QED BY <1>2, <1>3, <1>5, <1>6, <1>7

\* A NACK: the fragments it names follow, or the transfer ends.
LEMMA OnNackInv ==
  ASSUME Inv, NEW o, Fits(o), NEW m \in Nodes, NEW item, OnNack(m, item, o)
  PROVE  Inv'
<1> DEFINE again == IF tx[m] = Nobody THEN {}
                    ELSE item.missing \cap Indices(tx[m].file)
<1>1. /\ UNCHANGED <<hi, rx, last, written>>
      /\ IF again = {} THEN out' = o /\ UNCHANGED <<bulk, tx, verdict>>
         ELSE IF LastRound(m) THEN Ends(m, "failed") /\ Purge(m, o, << >>)
         ELSE /\ NextRound(m)
              /\ bulk' = [bulk EXCEPT ![m] = @ \o Fragments(tx[m].file, again)
                                              \o <<EndMark(tx[m].file)>>]
              /\ out' = o
  BY Zenon DEF OnNack
<1>2. again # {} => tx[m] # Nobody /\ again \in SUBSET Indices(tx[m].file)
  OBVIOUS
<1> HIDE DEF again
<1>3. CASE again = {}
  BY <1>1, <1>3, WindowsInv
<1>4. CASE again # {} /\ LastRound(m)
  BY <1>1, <1>4, EndsInv
<1>5. CASE again # {} /\ ~LastRound(m)
  <2> DEFINE f == tx[m].file
             d == Fragments(f, again)
             e == <<EndMark(f)>>
  <2>1. f \in Files /\ IsSeq(bulk[m])
    BY <1>2, <1>5, TransferIsSome DEF Inv, Shape
  <2>2. /\ IsSeq(d) /\ \A r \in Range(d) : r.kind = "data" /\ r.file = f
        /\ IsSeq(e) /\ \A r \in Range(e) : r.kind # "done" /\ r.file = f
    BY <1>2, <1>5, <2>1, FragmentItems, FileItems
  <2>3. bulk' = [bulk EXCEPT ![m] = (bulk[m] \o d) \o e]
    BY <1>1, <1>5
  <2> HIDE DEF d, e
  <2>4. IsSeq(bulk[m] \o d) /\ Range(bulk[m] \o d) = Range(bulk[m]) \cup Range(d)
    BY <2>1, <2>2, ConcatMembers
  <2> DEFINE q == (bulk[m] \o d) \o e
  <2>5. IsSeq(q) /\ Range(q) = Range(bulk[m] \o d) \cup Range(e)
    BY <2>2, <2>4, ConcatMembers
  <2>6. bulk' = [bulk EXCEPT ![m] = q]
    BY <2>3
  <2> HIDE DEF q
  <2>7. \A r \in Range(q) : \/ r \in Range(bulk[m])
                            \/ r.kind # "done" /\ r.file = tx[m].file
    BY <2>2, <2>4, <2>5
  <2> QED BY <1>1, <1>2, <1>5, <2>5, <2>6, <2>7, GoesOnInv
<1> QED BY <1>3, <1>4, <1>5

\* A verdict that ends the transfer well names the data of its file.
LEMMA OnDoneInv ==
  ASSUME Inv, NEW o, Fits(o), NEW m \in Nodes, NEW item, Vouched(item),
         OnDone(m, item, o)
  PROVE  Inv'
<1>1. item.kind = "done" /\ UNCHANGED <<hi, rx, last, written>>
  BY DEF OnDone
<1>2. CASE out' = o /\ UNCHANGED <<bulk, tx, verdict>>
  BY <1>1, <1>2, WindowsInv
<1>3. CASE /\ ~(tx[m] = Nobody \/ (item.ok /\ item.crc # FileData(tx[m].file)))
           /\ Ends(m, IF item.ok THEN "ok" ELSE "failed") /\ Purge(m, o, << >>)
  <2> DEFINE how == IF item.ok THEN "ok" ELSE "failed"
  <2>1. how = "ok" => item.ok /\ item.crc = FileData(tx[m].file)
    BY <1>3
  <2>2. how = "ok" => Written(FileData(tx[m].file))
    BY <1>1, <2>1 DEF Vouched
  <2>3. Ends(m, how)
    BY <1>3
  <2> HIDE DEF how
  <2> QED BY <1>1, <1>3, <2>2, <2>3, EndsInv
<1> QED BY <1>2, <1>3 DEF OnDone

\* Whatever is handed up.
LEMMA DeliverInv ==
  ASSUME Inv, NEW n \in Nodes, NEW k, Deliver(n, k)
  PROVE  Inv'
<1> DEFINE item == out[n][k].item
           o == [out EXCEPT ![n] = HandedUp(out[n], k)]
           m == Peer(n)
<1>1. /\ k \in DOMAIN out[n] /\ out[n][k].state \in {"open", "acked", "lost"}
      /\ \/ OnStart(m, item, o) \/ OnData(m, item, o) \/ OnEnd(m, item, o)
         \/ OnNack(m, item, o)  \/ OnDone(m, item, o)
  BY DEF Deliver
<1>2. Shape /\ IsWindow(out[n])
  BY DEF Inv, Shape
<1>3. Fits(o)
  BY <1>1, <1>2, HandedUpItems, ExceptFits
<1>4. Vouched(item)
  <2>1. out[n][k] \in Range(out[n])
    BY <1>1 DEF Range
  <2> QED BY <2>1 DEF Inv, VouchedInv, ItemsOf
<1>5. m \in Nodes
  BY PeerIsNode
<1> HIDE DEF item, o, m
<1>6. CASE OnStart(m, item, o)
  BY <1>3, <1>6, WindowsInv DEF OnStart
<1>7. CASE OnData(m, item, o)
  BY <1>3, <1>7, WindowsInv DEF OnData
<1>8. CASE OnEnd(m, item, o)
  BY <1>3, <1>5, <1>8, OnEndInv
<1>9. CASE OnNack(m, item, o)
  BY <1>3, <1>5, <1>9, OnNackInv
<1>10. CASE OnDone(m, item, o)
  BY <1>3, <1>4, <1>5, <1>10, OnDoneInv
<1> QED BY <1>1, <1>6, <1>7, <1>8, <1>9, <1>10

----------------------------------------------------------------------------
\* A node that starts again has nothing of its own left.
LEMMA RestartInv ==
  ASSUME Inv, NEW n \in Nodes, Restart(n)
  PROVE  Inv'
<1>1. /\ hi' = [hi EXCEPT ![n] = << >>] /\ bulk' = [bulk EXCEPT ![n] = << >>]
      /\ out' = [m \in Nodes |-> IF m = n THEN << >> ELSE Forgotten(out[m])]
      /\ tx' = [tx EXCEPT ![n] = Nobody]
      /\ last' = [last EXCEPT ![n] = Nobody]
      /\ verdict' = [f \in Files |-> IF f = tx[n].file THEN "forgotten"
                                     ELSE verdict[f]]
      /\ written' = written
  BY DEF Restart
<1>2. /\ IsSeq(<< >>) /\ IsWindow(<< >>) /\ Range(<< >>) = {}
      /\ ItemsOf(<< >>) = {} /\ OwnItems(<< >>) = {}
  BY EmptyMembers DEF IsWindow, ItemsOf, OwnItems
<1>3. \A m \in Nodes : /\ IsWindow(Forgotten(out[m]))
                       /\ ItemsOf(Forgotten(out[m])) \subseteq ItemsOf(out[m])
                       /\ OwnItems(Forgotten(out[m])) \subseteq OwnItems(out[m])
  BY ForgottenItems DEF Inv, Shape
<1>4. /\ hi' = [m \in Nodes |-> hi'[m]] /\ bulk' = [m \in Nodes |-> bulk'[m]]
      /\ out' = [m \in Nodes |-> out'[m]] /\ last' = [m \in Nodes |-> last'[m]]
      /\ tx' \in [Nodes -> {Nobody} \cup Transfer]
      /\ verdict' = [f \in Files |-> verdict'[f]]
  BY <1>1 DEF Inv, Shape
<1>5. \A m \in Nodes : IF m = n
        THEN /\ hi'[m] = << >> /\ bulk'[m] = << >> /\ out'[m] = << >>
             /\ last'[m] = Nobody
        ELSE /\ hi'[m] = hi[m] /\ bulk'[m] = bulk[m]
             /\ out'[m] = Forgotten(out[m])
             /\ tx'[m] = tx[m] /\ last'[m] = last[m]
  BY <1>1 DEF Inv, Shape
<1>6. Shape'
  BY <1>1, <1>2, <1>3, <1>4, <1>5 DEF Inv, Shape
<1>7. OwnInv'
  BY SMTT(30), <1>2, <1>3, <1>5 DEF Inv, OwnInv, Mine
<1>8. VouchedInv'
  <2>1. \A r : Vouched(r) => Vouched(r)'
    BY <1>1 DEF Vouched, Written
  <2> QED BY <1>2, <1>3, <1>5, <2>1 DEF Inv, VouchedInv
<1>9. VerdictInv'
  BY <1>1 DEF Inv, VerdictInv, Written
<1> QED BY <1>6, <1>7, <1>8, <1>9 DEF Inv

\* No step breaks the invariant.
LEMMA NextInv == Inv /\ [Next]_vars => Inv'
<1> SUFFICES ASSUME Inv, [Next]_vars PROVE Inv'
  OBVIOUS
<1>1. CASE UNCHANGED vars
  BY <1>1 DEF vars, Inv, Shape, OwnInv, VouchedInv, VerdictInv, Mine, Vouched, Written
<1>2. ASSUME NEW n \in Nodes, NEW f \in Files, SendFile(n, f) PROVE Inv'
  BY <1>2, SendFileInv
<1>3. ASSUME NEW n \in Nodes, Pump(n) PROVE Inv'
  BY <1>3, PumpInv
<1>4. ASSUME NEW n \in Nodes, NEW k, Ack(n, k) PROVE Inv'
  BY <1>4, AckInv
<1>5. ASSUME NEW n \in Nodes, NEW k, GiveUp(n, k) PROVE Inv'
  BY <1>5, GiveUpInv
<1>6. ASSUME NEW n \in Nodes, NEW k, Deliver(n, k) PROVE Inv'
  BY <1>6, DeliverInv
<1>7. ASSUME NEW n \in Nodes, Wait(n) PROVE Inv'
  BY <1>7, WaitInv DEF Wait, AllSent
<1>8. ASSUME NEW n \in Nodes, Expire(n) PROVE Inv'
  BY <1>8, ExpireInv
<1>9. ASSUME NEW n \in Nodes, NoSession(n) PROVE Inv'
  BY <1>9, WaitInv DEF NoSession
<1>10. ASSUME NEW n \in Nodes, Restart(n) PROVE Inv'
  BY <1>10, RestartInv
<1> QED
  BY <1>1, <1>2, <1>3, <1>4, <1>5, <1>6, <1>7, <1>8, <1>9, <1>10 DEF Next

----------------------------------------------------------------------------
\* The invariant holds always.
THEOREM Invariant == Spec => []Inv
BY InitInv, NextInv, PTL DEF Spec

\* A file reported delivered has been put together completely at its receiver:
\* a verdict counts only with the CRC of the file (_on_done).
THEOREM OkComplete == Spec => []OkIsComplete
<1>1. Inv => OkIsComplete
  BY InvImplies
<1> QED BY <1>1, Invariant, PTL

\* What is queued or outstanding of a node's own files belongs to its transfer
\* under way: a transfer that ends leaves nothing (_purge_file_queue).
THEOREM NothingLeft == Spec => []NoLeftovers
<1>1. Inv => NoLeftovers
  BY InvImplies
<1> QED BY <1>1, Invariant, PTL

----------------------------------------------------------------------------
(***************************************************************************)
(* The second invariant.  The items of a sender's files leave in order,    *)
(* one file after the other, and whatever the link still hands up comes in *)
(* that order too.  So a receiver that has opened a file, or put one       *)
(* together, never meets an earlier one again in the same life.            *)
(***************************************************************************)

\* The entries that carry a file, and those of them the link may still hand up.
Bulk(o) == {k \in DOMAIN o : o[k].bulk = TRUE}

Yet(o) == {k \in Bulk(o) : o[k].state \in {"open", "acked", "lost"}}

\* The entries of a file stand together, those of the current file t last.
Grouped(o, t) ==
  /\ \A i, j, k \in Bulk(o) :
       i < j /\ j < k /\ o[i].item.file = o[k].item.file
         => o[j].item.file = o[i].item.file
  /\ \A i, j \in Bulk(o) : i < j /\ o[i].item.file = t => o[j].item.file = t

\* What is handed up of f comes before anything of another file.
First(o, t, f) ==
  /\ \A j, k \in Yet(o) : j < k /\ o[j].item.file # f => o[k].item.file # f
  /\ \A j \in Yet(o) : o[j].item.file # f => t # f

\* Nothing of f comes any more.
Over(o, t, f) == t # f /\ \A k \in Yet(o) : o[k].item.file # f

\* The window o and the current file t of a sender, against the file R its peer
\* receives, the last one L it completed, and all it wrote in this life, W.
InOrderOf(o, t, R, L, W) ==
  /\ Grouped(o, t)
  /\ R \in Files => First(o, t, R) /\ R \notin W
  /\ L \in Files => First(o, t, L)
  /\ R \in Files /\ L \in Files => R # L /\ Over(o, t, L)
  /\ \A f \in W : f = L \/ Over(o, t, f)

\* The files of n its peer has put together in its present life.
WrittenOf(n) ==
  {f \in Files : /\ Origin[f] = n
                 /\ \E w \in Range(written) :
                      w.file = f /\ w.life = lives[Peer(n)]}

Order(n) ==
  InOrderOf(out[n], tx[n].file, rx[Peer(n)].file, last[Peer(n)].file, WrittenOf(n))

\* A file of n whose transfer has begun, some time or other.
Known(f, n) == f \in Files /\ Origin[f] = n /\ verdict[f] # "unsent"

Carried(e, n) ==
  IF e.bulk THEN e.item \in Items /\ Known(e.item.file, n) ELSE IsReply(e.item)

OneNack(q) ==
  \A i, j \in DOMAIN q : q[i].kind = "nack" /\ q[j].kind = "nack" => i = j

Sender(n) ==
  /\ \A r \in Range(hi[n]) : IsReply(r)
  /\ OneNack(hi[n])
  /\ Range(bulk[n]) \subseteq Items
  /\ \A e \in Range(out[n]) : Carried(e, n)
  /\ tx[n] # Nobody => Known(tx[n].file, n) /\ tx[n].round \in 1..MaxRounds

Receiver(n) ==
  /\ rx[n] # Nobody =>
       /\ rx[n] = [file |-> rx[n].file, frags |-> rx[n].frags]
       /\ Known(rx[n].file, Peer(n))
       /\ DOMAIN rx[n].frags \subseteq Indices(rx[n].file)
  /\ last[n] # Nobody =>
       /\ Known(last[n].file, Peer(n))
       /\ IsReply(last[n].reply) /\ last[n].reply.kind = "done"

Archive ==
  /\ lives \in [Nodes -> Nat]
  /\ \A w \in Range(written) :
       /\ Known(w.file, Origin[w.file])
       /\ w.life \in Nat /\ w.life <= lives[Peer(Origin[w.file])]

Course ==
  /\ rx = [n \in Nodes |-> rx[n]]
  /\ \A n \in Nodes : Sender(n) /\ Receiver(n) /\ Order(n)
  /\ Archive /\ WrittenOnce

----------------------------------------------------------------------------
\* What InOrderOf survives.

\* The entries of w are among those of o, moved by one amount; what w may still
\* hand up, o may.
Shrinks(o, w) ==
  \E s \in Nat : \A k \in Bulk(w) :
    /\ k + s \in Bulk(o) /\ w[k].item = o[k + s].item
    /\ k \in Yet(w) => k + s \in Yet(o)

Places(o) == Bulk(o) \subseteq Nat

\* Entries leave the window, and the transfer goes on or ends.
LEMMA OrderShrinks ==
  ASSUME NEW o, NEW w, Places(o), Places(w), Shrinks(o, w), NEW t, NEW u,
         NEW R, NEW L, NEW W \in SUBSET Files,
         u = t \/ u = "none",
         \A k \in Bulk(o) : o[k].item.file \in Files,
         InOrderOf(o, t, R, L, W)
  PROVE  InOrderOf(w, u, R, L, W)
<1>1. PICK s \in Nat : \A k \in Bulk(w) :
        /\ k + s \in Bulk(o) /\ w[k].item = o[k + s].item
        /\ k \in Yet(w) => k + s \in Yet(o)
  BY DEF Shrinks
<1>2. /\ Yet(o) \subseteq Bulk(o) /\ Yet(w) \subseteq Bulk(w)
      /\ Bulk(o) \subseteq Nat /\ Bulk(w) \subseteq Nat
  BY DEF Yet, Places
<1>3. \A i, j \in Nat : i < j => i + s < j + s
  OBVIOUS
<1>4. Grouped(w, u)
  <2>1. ASSUME NEW i \in Bulk(w), NEW j \in Bulk(w), NEW k \in Bulk(w),
               i < j, j < k, w[i].item.file = w[k].item.file
        PROVE  w[j].item.file = w[i].item.file
    BY <1>1, <1>2, <1>3, <2>1 DEF InOrderOf, Grouped
  <2>2. ASSUME NEW i \in Bulk(w), NEW j \in Bulk(w), i < j, w[i].item.file = u
        PROVE  w[j].item.file = u
    BY <1>1, <1>2, <1>3, <2>2, NoneAssumption DEF InOrderOf, Grouped
  <2> QED BY <2>1, <2>2 DEF Grouped
<1>5. ASSUME NEW f \in Files, First(o, t, f)
      PROVE  First(w, u, f)
  <2>1. ASSUME NEW j \in Yet(w), NEW k \in Yet(w), j < k, w[j].item.file # f
        PROVE  w[k].item.file # f
    BY <1>1, <1>2, <1>3, <1>5, <2>1 DEF First
  <2>2. ASSUME NEW j \in Yet(w), w[j].item.file # f
        PROVE  u # f
    BY <1>1, <1>2, <1>5, <2>2, NoneAssumption DEF First
  <2> QED BY <2>1, <2>2 DEF First
<1>6. ASSUME NEW f \in Files, Over(o, t, f)
      PROVE  Over(w, u, f)
  BY <1>1, <1>2, <1>6, NoneAssumption DEF Over
<1> QED BY <1>4, <1>5, <1>6 DEF InOrderOf

\* An entry of the current file goes into the window.
Sends(o, w, t) ==
  \E N \in Nat : /\ Bulk(w) = Bulk(o) \cup {N} /\ w[N].item.file = t
                 /\ \A k \in Bulk(o) : k < N /\ w[k] = o[k]

LEMMA OrderSends ==
  ASSUME NEW o, NEW w, Places(o), NEW t \in Files, Sends(o, w, t),
         NEW R, NEW L, NEW W \in SUBSET Files, InOrderOf(o, t, R, L, W)
  PROVE  InOrderOf(w, t, R, L, W)
<1>7. PICK N \in Nat : /\ Bulk(w) = Bulk(o) \cup {N} /\ w[N].item.file = t
                       /\ \A k \in Bulk(o) : k < N /\ w[k] = o[k]
  BY DEF Sends
<1>1. \A k \in Yet(w) : k \in Yet(o) \/ k = N
  BY <1>7 DEF Yet
<1>2. Yet(o) \subseteq Bulk(o) /\ Yet(w) \subseteq Bulk(w) /\ Bulk(o) \subseteq Nat
  BY DEF Yet, Places
<1>3. /\ \A i, j \in Bulk(w) : i < j => i \in Bulk(o)
      /\ \A i, j, k \in Bulk(w) : i < j /\ j < k => i \in Bulk(o) /\ j \in Bulk(o)
  BY <1>2, <1>7
<1>4. Grouped(w, t)
  <2>1. ASSUME NEW i \in Bulk(w), NEW j \in Bulk(w), NEW k \in Bulk(w),
               i < j, j < k, w[i].item.file = w[k].item.file
        PROVE  w[j].item.file = w[i].item.file
    BY <1>3, <1>7, <2>1 DEF InOrderOf, Grouped
  <2>2. ASSUME NEW i \in Bulk(w), NEW j \in Bulk(w), i < j, w[i].item.file = t
        PROVE  w[j].item.file = t
    BY <1>3, <1>7, <2>2 DEF InOrderOf, Grouped
  <2> QED BY <2>1, <2>2 DEF Grouped
<1>5. ASSUME NEW f \in Files, First(o, t, f)
      PROVE  First(w, t, f)
  <2>1. ASSUME NEW j \in Yet(w), NEW k \in Yet(w), j < k, w[j].item.file # f
        PROVE  w[k].item.file # f
    <3>1. j \in Yet(o) /\ o[j].item.file # f
      BY <1>1, <1>2, <1>3, <1>7, <2>1
    <3> QED BY <1>1, <1>2, <1>5, <1>7, <2>1, <3>1 DEF First
  <2>2. ASSUME NEW j \in Yet(w), w[j].item.file # f
        PROVE  t # f
    BY <1>1, <1>2, <1>5, <1>7, <2>2 DEF First
  <2> QED BY <2>1, <2>2 DEF First
<1>6. ASSUME NEW f \in Files, Over(o, t, f)
      PROVE  Over(w, t, f)
  BY <1>1, <1>2, <1>6, <1>7 DEF Over
<1> QED BY <1>4, <1>5, <1>6 DEF InOrderOf

\* The transfer of a new file begins.
LEMMA OrderBegins ==
  ASSUME NEW o, NEW f \in Files, NEW R, NEW L, NEW W \in SUBSET Files,
         \A k \in Bulk(o) : o[k].item.file # f, f # R, f # L, f \notin W,
         InOrderOf(o, "none", R, L, W)
  PROVE  InOrderOf(o, f, R, L, W)
BY DEF InOrderOf, Grouped, First, Over

\* Entry b is handed up; only later ones are left to be handed up.
Passes(o, w, b) ==
  \E s \in Nat : \A k \in Bulk(w) :
    /\ k + s \in Bulk(o) /\ w[k].item = o[k + s].item
    /\ k \in Yet(w) => k + s \in Yet(o) /\ b < k + s

\* The receiver opens the file of that entry.
LEMMA OrderOpens ==
  ASSUME NEW o, NEW w, Places(o), Places(w), NEW b \in Yet(o), Passes(o, w, b),
         NEW t, NEW R, NEW L, NEW W \in SUBSET Files,
         \A k \in Bulk(o) : o[k].item.file \in Files,
         o[b].item.file # L, InOrderOf(o, t, R, L, W)
  PROVE  InOrderOf(w, t, o[b].item.file, L, W)
<1> DEFINE g == o[b].item.file
<1>1. PICK s \in Nat : \A k \in Bulk(w) :
        /\ k + s \in Bulk(o) /\ w[k].item = o[k + s].item
        /\ k \in Yet(w) => k + s \in Yet(o) /\ b < k + s
  BY DEF Passes
<1>2. /\ Yet(o) \subseteq Bulk(o) /\ Yet(w) \subseteq Bulk(w)
      /\ Bulk(o) \subseteq Nat /\ Bulk(w) \subseteq Nat
  BY DEF Yet, Places
<1>3. \A i, j \in Nat : i < j => i + s < j + s
  OBVIOUS
<1>4. Shrinks(o, w)
  BY <1>1 DEF Shrinks
<1>5. InOrderOf(w, t, R, L, W)
  BY <1>4, OrderShrinks
<1>6. First(w, t, g)
  <2>1. ASSUME NEW j \in Yet(w), NEW k \in Yet(w), j < k, w[j].item.file # g
        PROVE  w[k].item.file # g
    <3>1. /\ b \in Bulk(o) /\ j + s \in Bulk(o) /\ k + s \in Bulk(o)
          /\ b < j + s /\ j + s < k + s
      BY <1>1, <1>2, <1>3, <2>1
    <3>2. o[j + s].item.file # g
      BY <1>1, <1>2, <2>1
    <3>3. o[k + s].item.file # g
      BY <3>1, <3>2 DEF InOrderOf, Grouped
    <3> QED BY <1>1, <1>2, <3>3
  <2>2. ASSUME NEW j \in Yet(w), w[j].item.file # g
        PROVE  t # g
    <3>1. b \in Bulk(o) /\ j + s \in Bulk(o) /\ b < j + s
      BY <1>1, <1>2, <2>2
    <3>2. o[j + s].item.file # g
      BY <1>1, <1>2, <2>2
    <3> QED BY <3>1, <3>2 DEF InOrderOf, Grouped
  <2> QED BY <2>1, <2>2 DEF First
<1>7. g \notin W
  BY DEF InOrderOf, Over
<1>8. ASSUME L \in Files
      PROVE  Over(w, t, L)
  <2>1. First(o, t, L)
    BY <1>8 DEF InOrderOf
  <2>2. t # L
    BY <2>1 DEF First
  <2>3. ASSUME NEW k \in Yet(w)
        PROVE  w[k].item.file # L
    <3>1. k + s \in Yet(o) /\ b < k + s /\ w[k].item = o[k + s].item
      BY <1>1, <1>2, <2>3
    <3> QED BY <2>1, <3>1 DEF First
  <2> QED BY <2>2, <2>3 DEF Over
<1> QED BY <1>5, <1>6, <1>7, <1>8 DEF InOrderOf

\* The receiver completes the file it receives.
LEMMA OrderCompletes ==
  ASSUME NEW o, NEW t, NEW R \in Files, NEW L, NEW W \in SUBSET Files,
         InOrderOf(o, t, R, L, W)
  PROVE  InOrderOf(o, t, "none", R, W \cup {R})
BY NoneAssumption DEF InOrderOf, Over

----------------------------------------------------------------------------
\* The link's operations on a window, entry by entry.

\* The entries of w carry what entries of o carry.
Keeps(o, w) ==
  \A e \in Range(w) : \E d \in Range(o) : e.item = d.item /\ e.bulk = d.bulk

\* A window's places are numbers.
LEMMA WindowPlaces ==
  ASSUME NEW o, IsWindow(o)
  PROVE  Places(o)
<1>1. DOMAIN o \subseteq Nat
  BY WindowMembers
<1> QED BY <1>1 DEF Places, Bulk

\* After a change of states every entry is one from before, moved by the number
\* of leading ones that are settled.
LEMMA SettledMoves ==
  ASSUME NEW o, IsWindow(o), NEW S, NEW new,
         \A k \in DOMAIN o : k \in S => new[o[k].state] \in States
  PROVE  \E s \in Nat : \A k \in DOMAIN Settled(o, S, new) :
           /\ k + s \in DOMAIN o
           /\ Settled(o, S, new)[k].item = o[k + s].item
           /\ Settled(o, S, new)[k].bulk = o[k + s].bulk
           /\ Settled(o, S, new)[k].state =
                IF k + s \in S THEN new[o[k + s].state] ELSE o[k + s].state
<1> DEFINE p == [k \in DOMAIN o |-> IF k \in S THEN [o[k] EXCEPT !.state = new[@]]
                                    ELSE o[k]]
           front == {k \in DOMAIN p : \A i \in 1..k : p[i].state = "gone"}
           c == Cardinality(front)
<1>1. /\ Len(o) \in Nat /\ DOMAIN o = 1..Len(o)
      /\ \A k \in 1..Len(o) : IsEntry(o[k])
  BY WindowMembers
<1>2. \A k \in 1..Len(o) :
        /\ IsEntry(p[k]) /\ p[k].item = o[k].item /\ p[k].bulk = o[k].bulk
        /\ p[k].state = IF k \in S THEN new[o[k].state] ELSE o[k].state
  BY <1>1 DEF IsEntry
<1>3. p \in Seq(Range(p)) /\ Len(p) = Len(o)
  <2>1. DOMAIN p = 1..Len(o) /\ p \in [1..Len(o) -> Range(p)]
    BY <1>1 DEF Range
  <2> HIDE DEF p
  <2>2. p \in Seq(Range(p))
    BY <1>1, <2>1, SeqDef
  <2>3. Len(p) \in Nat /\ DOMAIN p = 1..Len(p)
    BY <2>2, LenProperties
  <2> QED BY <1>1, <2>1, <2>2, <2>3
<1>4. c \in Nat
  <2>1. IsFiniteSet(1..Len(o))
    BY <1>1, FS_Interval
  <2>2. DOMAIN p = 1..Len(o)
    BY <1>1
  <2>3. front \subseteq 1..Len(o)
    <3> HIDE DEF p
    <3> QED BY <2>2
  <2> HIDE DEF front
  <2> QED BY <2>1, <2>3, FS_Subset, FS_CardinalityType
<1>5. Settled(o, S, new) = SubSeq(p, c + 1, Len(p))
  BY Zenon DEF Settled, Trim
<1> HIDE DEF p, front, c
<1> DEFINE w == SubSeq(p, c + 1, Len(p))
<1>6. \A k \in DOMAIN w : k + c \in 1..Len(o) /\ w[k] = p[k + c]
  <2>1. \A i \in (c + 1)..Len(p) : p[i] \in Range(p)
    BY <1>1, <1>3, <1>4 DEF Range
  <2>2. /\ Len(w) = IF c + 1 <= Len(p) THEN Len(p) - (c + 1) + 1 ELSE 0
        /\ \A i \in 1..(Len(p) - (c + 1) + 1) : w[i] = p[(c + 1) + i - 1]
        /\ w \in Seq(Range(p))
    BY <1>1, <1>3, <1>4, <2>1, SubSeqProperties
  <2> HIDE DEF w
  <2>3. DOMAIN w = 1..Len(w)
    BY <2>2, LenProperties
  <2>4. \A i \in 1..(Len(p) - c) : (c + 1) + i - 1 = i + c /\ i + c \in 1..Len(p)
    BY <1>1, <1>3, <1>4
  <2>5. \A l, d \in Nat : /\ l - (d + 1) + 1 = l - d
                          /\ 1..(l - d) \subseteq 1..(l - d)
                          /\ 1..0 \subseteq 1..(l - d)
    OBVIOUS
  <2>6. Len(p) - (c + 1) + 1 = Len(p) - c
    BY <1>1, <1>3, <1>4, <2>5
  <2>7. Len(w) = Len(p) - c \/ Len(w) = 0
    BY <2>2, <2>6
  <2>8. DOMAIN w \subseteq 1..(Len(p) - c)
    BY <1>1, <1>3, <1>4, <2>3, <2>5, <2>7
  <2> QED BY <1>3, <2>2, <2>4, <2>6, <2>8
<1>7. \A k \in DOMAIN w :
        /\ k + c \in DOMAIN o
        /\ w[k].item = o[k + c].item /\ w[k].bulk = o[k + c].bulk
        /\ w[k].state = IF k + c \in S THEN new[o[k + c].state] ELSE o[k + c].state
  BY <1>1, <1>2, <1>6
<1> QED BY <1>4, <1>5, <1>7

\* So nothing new is carried.
LEMMA SettledKeeps ==
  ASSUME NEW o, IsWindow(o), NEW S, NEW new,
         \A k \in DOMAIN o : k \in S => new[o[k].state] \in States
  PROVE  Keeps(o, Settled(o, S, new))
<1>1. \A e \in Range(Settled(o, S, new)) : \E k \in DOMAIN o :
        e.item = o[k].item /\ e.bulk = o[k].bulk
  BY SettledMembers
<1>2. \A k \in DOMAIN o : o[k] \in Range(o)
  BY WindowMembers
<1> QED BY <1>1, <1>2 DEF Keeps

\* And what is left to be handed up was before, if no state becomes such a one.
LEMMA SettledShrinks ==
  ASSUME NEW o, IsWindow(o), NEW S, NEW new,
         \A k \in DOMAIN o : k \in S => new[o[k].state] \in States,
         \A k \in DOMAIN o : k \in S /\ new[o[k].state] \in {"open", "acked", "lost"}
           => o[k].state \in {"open", "acked", "lost"}
  PROVE  Shrinks(o, Settled(o, S, new))
<1> DEFINE w == Settled(o, S, new)
<1>1. PICK s \in Nat : \A k \in DOMAIN w :
        /\ k + s \in DOMAIN o
        /\ w[k].item = o[k + s].item /\ w[k].bulk = o[k + s].bulk
        /\ w[k].state = IF k + s \in S THEN new[o[k + s].state] ELSE o[k + s].state
  BY SettledMoves
<1> HIDE DEF w
<1>2. \A k \in Bulk(w) :
        /\ k + s \in Bulk(o) /\ w[k].item = o[k + s].item
        /\ k \in Yet(w) => k + s \in Yet(o)
  BY <1>1 DEF Bulk, Yet
<1>3. Shrinks(o, w)
  BY <1>2 DEF Shrinks
<1> QED BY <1>3 DEF w

\* A window after another: it carries less, and hands up less.
Narrows(o, w) == IsWindow(w) /\ Keeps(o, w) /\ Shrinks(o, w)

LEMMA AckedNarrows ==
  ASSUME NEW o, IsWindow(o), NEW k \in Outstanding(o)
  PROVE  Narrows(o, Acked(o, k))
<1> DEFINE new == [open |-> "acked", passed |-> "gone"]
<1>1. o[k].state \in {"open", "passed"} /\ k \in DOMAIN o
  BY DEF Outstanding
<1>2. /\ new[o[k].state] \in {"acked", "gone"}
      /\ new[o[k].state] = "acked" => o[k].state = "open"
  BY <1>1
<1>3. Acked(o, k) = Settled(o, {k}, new)
  BY DEF Acked
<1> HIDE DEF new
<1>4. Keeps(o, Acked(o, k)) /\ Shrinks(o, Acked(o, k))
  BY <1>2, <1>3, SettledKeeps, SettledShrinks DEF States
<1> QED BY <1>4, AckedItems DEF Narrows

LEMMA GivenUpNarrows ==
  ASSUME NEW o, IsWindow(o), NEW S \in SUBSET Outstanding(o)
  PROVE  Narrows(o, GivenUp(o, S))
<1> DEFINE new == [open |-> "lost", passed |-> "gone"]
<1>1. \A k \in S : o[k].state \in {"open", "passed"} /\ k \in DOMAIN o
  BY DEF Outstanding
<1>2. \A k \in S : /\ new[o[k].state] \in {"lost", "gone"}
                   /\ new[o[k].state] = "lost" => o[k].state = "open"
  BY <1>1
<1>3. GivenUp(o, S) = Settled(o, S, new)
  BY DEF GivenUp
<1> HIDE DEF new
<1>4. Keeps(o, GivenUp(o, S)) /\ Shrinks(o, GivenUp(o, S))
  BY <1>2, <1>3, SettledKeeps, SettledShrinks DEF States
<1> QED BY <1>4, GivenUpItems DEF Narrows

\* Entries are handed up in order: after one only later ones follow.
LEMMA HandedUpPasses ==
  ASSUME NEW o, IsWindow(o),
         NEW b \in DOMAIN o, o[b].state \in {"open", "acked", "lost"},
         \A i \in 1..(b - 1) : o[i].state \in {"passed", "lost", "gone"}
  PROVE  Narrows(o, HandedUp(o, b)) /\ Passes(o, HandedUp(o, b), b)
<1> DEFINE new == [open |-> "passed", acked |-> "gone", lost |-> "gone"]
           S == {i \in 1..b : i = b \/ o[i].state = "lost"}
           w == Settled(o, S, new)
<1>1. \A i \in S : o[i].state \in {"open", "acked", "lost"}
  OBVIOUS
<1>2. \A i \in S : new[o[i].state] \in {"passed", "gone"}
  <2> HIDE DEF S
  <2> QED BY <1>1
<1>3. HandedUp(o, b) = w
  BY DEF HandedUp
<1>4. \A i \in DOMAIN o : /\ i \in Nat
                          /\ i \notin S => b < i \/ o[i].state \in {"passed", "gone"}
  <2>1. DOMAIN o = 1..Len(o) /\ Len(o) \in Nat
    BY WindowMembers
  <2>2. \A i \in DOMAIN o : i \in Nat /\ (b < i \/ i = b \/ i \in 1..(b - 1))
    BY <2>1
  <2> QED BY <2>1, <2>2
<1> HIDE DEF new, S
<1>5. PICK s \in Nat : \A k \in DOMAIN w :
        /\ k + s \in DOMAIN o
        /\ w[k].item = o[k + s].item /\ w[k].bulk = o[k + s].bulk
        /\ w[k].state = IF k + s \in S THEN new[o[k + s].state] ELSE o[k + s].state
  BY <1>2, SettledMoves DEF States
<1>6. Keeps(o, w) /\ Shrinks(o, w)
  BY <1>2, SettledKeeps, SettledShrinks DEF States
<1> HIDE DEF w
<1>7. \A k \in Bulk(w) :
        /\ k + s \in Bulk(o) /\ w[k].item = o[k + s].item
        /\ k \in Yet(w) => k + s \in Yet(o) /\ b < k + s
  BY <1>2, <1>4, <1>5 DEF Bulk, Yet
<1>8. Passes(o, w, b)
  BY <1>7 DEF Passes
<1> QED BY <1>3, <1>6, <1>8, HandedUpItems DEF Narrows

\* A receiver that starts anew may have everything handed up again, but still
\* one file after the other.
LEMMA ForgottenGroups ==
  ASSUME NEW o, IsWindow(o), NEW t, Grouped(o, t)
  PROVE  Keeps(o, Forgotten(o)) /\ Grouped(Forgotten(o), t)
<1> DEFINE new == [open |-> "open", passed |-> "open", acked |-> "gone",
                   lost |-> "gone"]
           S == {i \in DOMAIN o : o[i].state # "gone"}
           w == Settled(o, S, new)
<1>1. \A i \in S : o[i].state \in {"open", "passed", "acked", "lost"}
  <2>1. \A i \in DOMAIN o : o[i].state \in States
    BY WindowMembers DEF IsEntry
  <2> QED BY <2>1 DEF States
<1>2. \A i \in S : new[o[i].state] \in {"open", "gone"}
  <2> HIDE DEF S
  <2> QED BY <1>1
<1>3. Forgotten(o) = w
  BY DEF Forgotten
<1> HIDE DEF new, S
<1>4. PICK s \in Nat : \A k \in DOMAIN w :
        /\ k + s \in DOMAIN o
        /\ w[k].item = o[k + s].item /\ w[k].bulk = o[k + s].bulk
  BY <1>2, SettledMoves DEF States
<1>5. Keeps(o, w) /\ IsWindow(w)
  BY <1>2, <1>3, SettledKeeps, ForgottenItems DEF States
<1> HIDE DEF w
<1>6. /\ \A k \in Bulk(w) : k + s \in Bulk(o) /\ w[k].item = o[k + s].item
      /\ \A i, j \in Bulk(w) : i < j => i + s < j + s
  <2>1. Bulk(w) \subseteq Nat
    BY <1>5, WindowPlaces DEF Places
  <2> QED BY <1>4, <2>1 DEF Bulk
<1>7. Grouped(w, t)
  BY <1>6 DEF Grouped
<1> QED BY <1>3, <1>5, <1>7

LEMMA NarrowsTransitive ==
  ASSUME NEW o, NEW w, NEW x, IsWindow(o), Narrows(o, w), Narrows(w, x)
  PROVE  Narrows(o, x)
<1>1. Keeps(o, x)
  BY DEF Narrows, Keeps
<1>2. Shrinks(o, x)
  <2>1. PICK s \in Nat : \A k \in Bulk(w) :
          /\ k + s \in Bulk(o) /\ w[k].item = o[k + s].item
          /\ k \in Yet(w) => k + s \in Yet(o)
    BY DEF Narrows, Shrinks
  <2>2. PICK r \in Nat : \A k \in Bulk(x) :
          /\ k + r \in Bulk(w) /\ x[k].item = w[k + r].item
          /\ k \in Yet(x) => k + r \in Yet(w)
    BY DEF Narrows, Shrinks
  <2>3. \A k \in Bulk(x) : k \in Nat /\ (k + r) + s = k + (r + s)
    BY WindowPlaces DEF Narrows, Places
  <2>4. r + s \in Nat
    OBVIOUS
  <2>5. \A k \in Bulk(x) :
          /\ k + (r + s) \in Bulk(o) /\ x[k].item = o[k + (r + s)].item
          /\ k \in Yet(x) => k + (r + s) \in Yet(o)
    BY <2>1, <2>2, <2>3
  <2> QED BY <2>4, <2>5 DEF Shrinks
<1> QED BY <1>1, <1>2 DEF Narrows

LEMMA NarrowsSelf ==
  ASSUME NEW o, IsWindow(o)
  PROVE  Narrows(o, o)
<1>1. Bulk(o) \subseteq Nat
  BY WindowPlaces DEF Places
<1>2. \A k \in Bulk(o) : k + 0 = k
  BY <1>1
<1>3. Shrinks(o, o)
  <2>1. 0 \in Nat /\ \A k \in Bulk(o) :
          /\ k + 0 \in Bulk(o) /\ o[k].item = o[k + 0].item
          /\ k \in Yet(o) => k + 0 \in Yet(o)
    BY <1>2
  <2> QED BY <2>1 DEF Shrinks
<1> QED BY <1>3 DEF Narrows, Keeps

----------------------------------------------------------------------------
\* Replies.

\* The members of a set of numbers below one of them: how many there are tells
\* the members apart.
Below(S, i) == {j \in S : j < i}

LEMMA Ranks ==
  ASSUME NEW S \in SUBSET Nat, IsFiniteSet(S)
  PROVE  /\ \A i \in S : Cardinality(Below(S, i)) \in 0..(Cardinality(S) - 1)
         /\ \A i, k \in S : i # k => Cardinality(Below(S, i)) # Cardinality(Below(S, k))
         /\ Cardinality(S) \in Nat
<1>1. /\ Cardinality(S) \in Nat
      /\ \A i : /\ Below(S, i) \subseteq S /\ IsFiniteSet(Below(S, i))
                /\ Cardinality(Below(S, i)) \in Nat
                /\ Cardinality(Below(S, i)) <= Cardinality(S)
  BY FS_Subset, FS_CardinalityType DEF Below
<1>2. ASSUME NEW i \in S
      PROVE  Cardinality(Below(S, i)) \in 0..(Cardinality(S) - 1)
  <2>1. i \notin Below(S, i)
    <3>1. ~(i < i)
      OBVIOUS
    <3> QED BY <3>1 DEF Below
  <2>2. Cardinality(Below(S, i)) # Cardinality(S)
    BY <1>1, <2>1, FS_Subset
  <2>3. \A a, b \in Nat : a <= b /\ a # b => a \in 0..(b - 1)
    OBVIOUS
  <2> QED BY <1>1, <2>2, <2>3
<1>3. ASSUME NEW i \in S, NEW k \in S, i < k
      PROVE  Cardinality(Below(S, i)) # Cardinality(Below(S, k))
  <2>1. \A a, b, c \in Nat : a < b /\ b < c => a < c
    OBVIOUS
  <2>2. \A j \in S : j < i => j < k
    BY <1>3, <2>1
  <2>3. ~(i < i)
    OBVIOUS
  <2>4. Below(S, i) \in SUBSET Below(S, k) /\ i \in Below(S, k) /\ i \notin Below(S, i)
    BY <1>3, <2>2, <2>3 DEF Below
  <2> QED BY <1>1, <2>4, FS_Subset
<1>4. \A i, k \in S : i # k => i < k \/ k < i
  OBVIOUS
<1> QED BY <1>1, <1>2, <1>3, <1>4

\* A set in ascending order has no other members.
LEMMA InOrderMembers ==
  ASSUME NEW S \in SUBSET Nat, IsFiniteSet(S)
  PROVE  \A k \in 1..Cardinality(S) : InOrder(S)[k] \in S
<1> DEFINE c == Cardinality(S)
           f == [i \in S |-> Cardinality(Below(S, i))]
<1>1. /\ c \in Nat
      /\ \A i \in S : Cardinality(Below(S, i)) \in 0..(c - 1)
      /\ \A i, k \in S : i # k => Cardinality(Below(S, i)) # Cardinality(Below(S, k))
  BY Ranks
<1> HIDE DEF c
<1>2. IsFiniteSet(0..(c - 1)) /\ Cardinality(0..(c - 1)) = c
  <2>1. 0 \in Int /\ c - 1 \in Int /\ (0 > c - 1 => c = 0) /\ c - 1 - 0 + 1 = c
    BY <1>1
  <2> QED BY <2>1, FS_Interval
<1>3. f \in [S -> 0..(c - 1)] /\ \A i, k \in S : f[i] = f[k] => i = k
  BY <1>1
<1>4. f \in Surjection(S, 0..(c - 1))
  <2> HIDE DEF f
  <2>1. f \in Injection(S, 0..(c - 1))
    BY <1>3, Fun_IsInj
  <2> QED BY <1>2, <2>1, FS_Injection DEF c
<1>5. \A r \in 0..(c - 1) : \E i \in S : f[i] = r
  <2> HIDE DEF f
  <2> DEFINE T == 0..(c - 1)
  <2> HIDE DEF T
  <2>1. f \in Surjection(S, T)
    BY <1>4 DEF T
  <2>2. \A r \in T : \E i \in S : f[i] = r
    BY <2>1, Fun_SurjectionProperties, Zenon
  <2> QED BY <2>2 DEF T
<1>6. ASSUME NEW k \in 1..c
      PROVE  InOrder(S)[k] \in S
  <2>1. k - 1 \in 0..(c - 1)
    BY <1>1
  <2>2. \E i \in S : Cardinality({j \in S : j < i}) = k - 1
    BY <1>5, <2>1 DEF Below
  <2>3. InOrder(S)[k] = CHOOSE i \in S : Cardinality({j \in S : j < i}) = k - 1
    BY <1>6 DEF InOrder, c
  <2> QED BY <2>2, <2>3
<1> QED BY <1>6 DEF c

\* The first M members of a set of numbers: no more than M, and some if the set
\* has any.
FirstOf(S, M) == {i \in S : Cardinality(Below(S, i)) < M}

LEMMA FirstOfMany ==
  ASSUME NEW S \in SUBSET Nat, IsFiniteSet(S), NEW M \in Nat \ {0}
  PROVE  /\ IsFiniteSet(FirstOf(S, M)) /\ Cardinality(FirstOf(S, M)) <= M
         /\ FirstOf(S, M) \subseteq S
         /\ S # {} => FirstOf(S, M) # {}
<1> DEFINE A == FirstOf(S, M)
           f == [i \in A |-> Cardinality(Below(S, i))]
<1>1. /\ \A i \in S : Cardinality(Below(S, i)) \in Nat
      /\ \A i, k \in S : i # k => Cardinality(Below(S, i)) # Cardinality(Below(S, k))
  BY Ranks
<1>2. A \subseteq S /\ \A i \in A : Cardinality(Below(S, i)) < M
  BY DEF FirstOf
<1>3. IsFiniteSet(A) /\ Cardinality(A) \in Nat
  BY <1>2, FS_Subset, FS_CardinalityType
<1>4. Cardinality(A) <= M
  <2> SUFFICES ASSUME M < Cardinality(A) PROVE FALSE
    BY <1>3
  <2>1. IsFiniteSet(0..(M - 1)) /\ Cardinality(0..(M - 1)) = M
    BY FS_Interval
  <2>2. f \in [A -> 0..(M - 1)]
    <3> HIDE DEF A
    <3>1. \A a, b \in Nat : a < b => a \in 0..(b - 1)
      OBVIOUS
    <3>2. \A i \in A : Cardinality(Below(S, i)) \in 0..(M - 1)
      BY <1>1, <1>2, <3>1
    <3> QED BY <3>2
  <2>3. \E x, y \in A : x # y /\ f[x] = f[y]
    <3> HIDE DEF f, A
    <3> QED BY <1>3, <2>1, <2>2, FS_PigeonHole
  <2> HIDE DEF A
  <2> QED BY <1>1, <1>2, <2>3
<1>5. S # {} => A # {}
  <2> SUFFICES ASSUME S # {} PROVE A # {}
    OBVIOUS
  <2>1. PICK i \in S : \A j \in S : ~ (<<j, i>> \in OpToRel(<, Nat))
    BY NatLessThanWellFounded, WFMin
  <2>2. Below(S, i) = {}
    BY <2>1 DEF OpToRel, Below
  <2>3. Cardinality(Below(S, i)) = 0
    BY <2>2, FS_EmptySet
  <2>4. i \in A
    BY <2>3 DEF FirstOf
  <2> QED BY <2>4
<1> QED BY <1>2, <1>3, <1>4, <1>5

\* Any sequence of items of a file is of items.
LEMMA FilesItems ==
  ASSUME NEW f \in Files
  PROVE  /\ Range(WholeFile(f)) \subseteq Items /\ Range(<<EndMark(f)>>) \subseteq Items
         /\ \A S \in SUBSET Indices(f) : Range(Fragments(f, S)) \subseteq Items
<1>1. ASSUME NEW S \in SUBSET Indices(f)
      PROVE  Range(Fragments(f, S)) \subseteq Items
  <2>1. Size[f] \in Nat
    BY FilesAssumption
  <2>2. S \in SUBSET Nat /\ IsFiniteSet(S)
    <3>1. IsFiniteSet(Indices(f))
      BY <2>1, FS_Interval DEF Indices
    <3>2. IsFiniteSet(S)
      BY <3>1, FS_Subset
    <3>3. Indices(f) \subseteq Nat
      BY <2>1 DEF Indices
    <3> QED BY <3>2, <3>3
  <2>3. DOMAIN InOrder(S) = 1..Cardinality(S)
    BY DEF InOrder
  <2>4. \A k \in 1..Cardinality(S) : InOrder(S)[k] \in Indices(f)
    BY <2>2, InOrderMembers
  <2>5. \A r \in Range(Fragments(f, S)) : \E i \in Indices(f) : r = Fragment(f, i)
    BY <2>3, <2>4 DEF Fragments, Range
  <2>6. \A i \in Indices(f) : Fragment(f, i) \in Items
    BY DEF Items
  <2> QED BY <2>5, <2>6
<1>2. Header(f) \in Items /\ EndMark(f) \in Items
  BY DEF Items
<1> DEFINE h == <<Header(f)>>
           d == Fragments(f, Indices(f))
           e == <<EndMark(f)>>
<1>3. IsSeq(h) /\ Range(h) \subseteq Items /\ IsSeq(e) /\ Range(e) \subseteq Items
  BY <1>2, SingleMember
<1>4. IsSeq(d) /\ Range(d) \subseteq Items
  BY <1>1, FragmentItems
<1>5. WholeFile(f) = (h \o d) \o e
  BY DEF WholeFile
<1> HIDE DEF h, d, e
<1>6. IsSeq(h \o d) /\ Range(h \o d) \subseteq Items
  BY <1>3, <1>4, ConcatMembers
<1>7. Range((h \o d) \o e) \subseteq Items
  BY <1>3, <1>6, ConcatMembers
<1> QED BY <1>1, <1>3, <1>5, <1>7 DEF e

\* A NACK names some gaps, and not too many.
LEMMA AskedIsReply ==
  ASSUME NEW m \in Nodes, rx[m].file \in Files, Missing(m) # {}
  PROVE  IsReply(Nack(Asked(m)))
<1> DEFINE S == Missing(m)
<1>1. S \subseteq Indices(rx[m].file) /\ Size[rx[m].file] \in Nat
  BY FilesAssumption DEF Missing
<1>2. S \in SUBSET Nat /\ IsFiniteSet(S)
  <2>1. IsFiniteSet(0..(Size[rx[m].file] - 1))
    BY <1>1, FS_Interval
  <2> HIDE DEF S
  <2> QED BY <1>1, <2>1, FS_Subset DEF Indices
<1>3. Asked(m) = FirstOf(S, MaxNack)
  BY DEF Asked, FirstOf, Below
<1>4. Asked(m) # {} /\ Cardinality(Asked(m)) <= MaxNack
  <2> HIDE DEF S
  <2>1. S # {}
    BY DEF S
  <2> QED BY <1>2, <1>3, <2>1, FirstOfMany, LimitsAssumption
<1> QED BY <1>4 DEF IsReply, Nack

\* Every member of a part has its place there.
LEMMA PartPlaces ==
  ASSUME NEW q, IsSeq(q), NEW m \in Nat \ {0}, NEW n \in Nat, n <= Len(q)
  PROVE  \A x \in Range(SubSeq(q, m, n)) : \E i \in m..n : x = q[i]
<1> DEFINE w == SubSeq(q, m, n)
<1>1. Len(q) \in Nat /\ \A i \in 1..Len(q) : q[i] \in Range(q)
  BY LenProperties DEF IsSeq
<1>2. /\ w \in Seq(Range(q))
      /\ Len(w) = IF m <= n THEN n - m + 1 ELSE 0
      /\ \A i \in 1..(n - m + 1) : w[i] = q[m + i - 1]
  <2>1. \A i \in m..n : q[i] \in Range(q)
    BY <1>1
  <2> QED BY <2>1, SubSeqProperties
<1> HIDE DEF w
<1>3. \A x \in Range(w) : \E i \in 1..Len(w) : x = w[i]
  BY <1>2, RangeEquality
<1>4. \A i \in 1..Len(w) : i \in 1..(n - m + 1) /\ m + i - 1 \in m..n
  <2>1. CASE m <= n
    BY <1>2, <2>1
  <2>2. CASE ~(m <= n)
    BY <1>2, <2>2
  <2> QED BY <2>1, <2>2
<1> QED BY <1>2, <1>3, <1>4 DEF w

\* There is no NACK left when the one there was is taken out.
LEMMA WithoutNackNone ==
  ASSUME NEW q, IsSeq(q), OneNack(q)
  PROVE  \A x \in Range(WithoutNack(q)) : x.kind # "nack"
<1>1. CASE \A i \in DOMAIN q : q[i].kind # "nack"
  BY <1>1 DEF WithoutNack, Range
<1>2. CASE ~ \A i \in DOMAIN q : q[i].kind # "nack"
  <2> DEFINE p == CHOOSE i \in DOMAIN q : q[i].kind = "nack"
             a == SubSeq(q, 1, p - 1)
             b == SubSeq(q, p + 1, Len(q))
  <2>1. p \in DOMAIN q /\ q[p].kind = "nack"
    BY <1>2
  <2>2. WithoutNack(q) = a \o b
    BY <1>2, Zenon DEF WithoutNack
  <2> HIDE DEF p
  <2>3. Len(q) \in Nat /\ DOMAIN q = 1..Len(q) /\ p \in 1..Len(q)
    BY <2>1, LenProperties DEF IsSeq
  <2>4. \A i \in DOMAIN q : i # p => q[i].kind # "nack"
    BY <2>1 DEF OneNack
  <2>5. IsSeq(a) /\ \A x \in Range(a) : x.kind # "nack"
    <3>1. 1 \in Nat \ {0} /\ p - 1 \in Nat /\ p - 1 <= Len(q)
      BY <2>3
    <3>2. IsSeq(a) /\ \A x \in Range(a) : \E i \in 1..(p - 1) : x = q[i]
      BY <3>1, PartMembers, PartPlaces
    <3>3. \A i \in 1..(p - 1) : i \in DOMAIN q /\ i # p
      BY <2>3
    <3> QED BY <2>4, <3>2, <3>3
  <2>6. IsSeq(b) /\ \A x \in Range(b) : x.kind # "nack"
    <3>1. p + 1 \in Nat \ {0} /\ Len(q) <= Len(q)
      BY <2>3
    <3>2. IsSeq(b) /\ \A x \in Range(b) : \E i \in (p + 1)..Len(q) : x = q[i]
      BY <2>3, <3>1, PartMembers, PartPlaces
    <3>3. \A i \in (p + 1)..Len(q) : i \in DOMAIN q /\ i # p
      BY <2>3
    <3> QED BY <2>4, <3>2, <3>3
  <2> HIDE DEF a, b
  <2>7. Range(a \o b) = Range(a) \cup Range(b)
    BY <2>5, <2>6, ConcatMembers
  <2> QED BY <2>2, <2>5, <2>6, <2>7
<1> QED BY <1>1, <1>2

\* A reply put before a queue with no other NACK than itself.
LEMMA OneNackFirst ==
  ASSUME NEW p, IsSeq(p), NEW r, OneNack(p),
         r.kind = "nack" => \A x \in Range(p) : x.kind # "nack"
  PROVE  OneNack(<<r>> \o p)
<1> DEFINE q == <<r>> \o p
<1>1. Len(p) \in Nat /\ DOMAIN p = 1..Len(p) /\ \A i \in 1..Len(p) : p[i] \in Range(p)
  BY LenProperties DEF IsSeq, Range
<1>2. /\ DOMAIN q = 1..(1 + Len(p)) /\ q[1] = r
      /\ \A i \in 2..(1 + Len(p)) : q[i] = p[i - 1]
  BY <1>1 DEF IsSeq
<1> HIDE DEF q
<1>3. \A i \in DOMAIN q :
        i = 1 \/ (i # 1 /\ i - 1 \in DOMAIN p /\ q[i] = p[i - 1] /\ i \in Nat)
  BY <1>1, <1>2
<1>4. \A i, j \in Nat : i - 1 = j - 1 => i = j
  OBVIOUS
<1>5. SUFFICES ASSUME NEW i \in DOMAIN q, NEW j \in DOMAIN q,
                      q[i].kind = "nack", q[j].kind = "nack"
               PROVE  i = j
  BY DEF OneNack, q
<1>6. CASE r.kind = "nack"
  BY <1>1, <1>3, <1>5, <1>6
<1>7. CASE r.kind # "nack"
  BY <1>2, <1>3, <1>4, <1>5, <1>7 DEF OneNack
<1> QED BY <1>6, <1>7

\* The queue without its head.
LEMMA OneNackTail ==
  ASSUME NEW q, IsSeq(q), q # << >>, OneNack(q)
  PROVE  OneNack(Tail(q))
<1> DEFINE w == Tail(q)
<1>1. Len(q) \in Nat /\ DOMAIN q = 1..Len(q)
  BY LenProperties DEF IsSeq
<1>2. /\ w \in Seq(Range(q)) /\ Len(w) = Len(q) - 1
      /\ \A i \in 1..Len(w) : w[i] = q[i + 1]
  BY HeadTailProperties DEF IsSeq
<1> HIDE DEF w
<1>3. \A i \in DOMAIN w : i \in Nat /\ i + 1 \in DOMAIN q /\ w[i] = q[i + 1]
  BY <1>1, <1>2, LenProperties
<1>4. OneNack(w)
  BY <1>3 DEF OneNack
<1> QED BY <1>4 DEF w

\* There are no other ends than a node and its peer.
LEMMA PeerOfPeer ==
  ASSUME NEW n \in Nodes
  PROVE  Peer(Peer(n)) = n /\ \A m \in Nodes : m = n \/ m = Peer(n)
<1>1. Peer(n) \in Nodes /\ Peer(n) # n
  BY PeerIsNode
<1>2. IsFiniteSet({n}) /\ Cardinality({n}) = 1
  BY FS_Singleton
<1>3. Cardinality({n} \cup {Peer(n)}) = 2
  BY <1>1, <1>2, FS_AddElement
<1>4. {n} \cup {Peer(n)} = Nodes
  BY <1>1, <1>3, FS_Subset, NodesAssumption
<1>5. Peer(Peer(n)) \in Nodes /\ Peer(Peer(n)) # Peer(n)
  BY <1>1, PeerIsNode
<1> QED BY <1>4, <1>5

----------------------------------------------------------------------------
\* What the steps share, for the second invariant.

\* A file whose transfer has begun does not become unsent again.
Begun == \A f \in Files : verdict[f] # "unsent" => verdict'[f] # "unsent"

LEMMA BegunKeeps ==
  ASSUME Begun
  PROVE  /\ \A f, n : Known(f, n) => Known(f, n)'
         /\ \A e, n : Carried(e, n) => Carried(e, n)'
<1>1. \A f, n : Known(f, n) => Known(f, n)'
  BY DEF Begun, Known
<1>2. \A e, n : Carried(e, n) => Carried(e, n)'
  BY <1>1 DEF Carried
<1> QED BY <1>1, <1>2

\* What the entries of a window carry, by their places.
LEMMA BulkKnown ==
  ASSUME Inv, Course, NEW n \in Nodes
  PROVE  /\ IsWindow(out[n]) /\ Places(out[n])
         /\ \A k \in DOMAIN out[n] : out[n][k] \in Range(out[n]) /\ Carried(out[n][k], n)
         /\ \A k \in Bulk(out[n]) : /\ out[n][k].item \in Items
                                    /\ Known(out[n][k].item.file, n)
                                    /\ out[n][k].item.file \in Files
<1>1. IsWindow(out[n])
  BY DEF Inv, Shape
<1>2. \A k \in DOMAIN out[n] : out[n][k] \in Range(out[n]) /\ Carried(out[n][k], n)
  BY <1>1, WindowMembers DEF Course, Sender
<1> QED BY <1>1, <1>2, WindowPlaces DEF Bulk, Carried, Known

\* A window that holds less keeps the order, while the transfer goes on or ends.
LEMMA NarrowsOrder ==
  ASSUME Inv, Course, NEW n \in Nodes, NEW w, Narrows(out[n], w),
         NEW u, u = tx[n].file \/ u = "none"
  PROVE  InOrderOf(w, u, rx[Peer(n)].file, last[Peer(n)].file, WrittenOf(n))
<1> DEFINE W == WrittenOf(n)
           R == rx[Peer(n)].file
           L == last[Peer(n)].file
           t == tx[n].file
<1>1. InOrderOf(out[n], t, R, L, W)
  BY DEF Course, Order
<1>2. W \in SUBSET Files
  BY DEF WrittenOf
<1>3. Shrinks(out[n], w) /\ Places(w)
  BY WindowPlaces DEF Narrows
<1>4. Places(out[n]) /\ \A k \in Bulk(out[n]) : out[n][k].item.file \in Files
  BY BulkKnown
<1>5. u = t \/ u = "none"
  OBVIOUS
<1> HIDE DEF W, R, L, t
<1>6. InOrderOf(w, u, R, L, W)
  BY <1>1, <1>2, <1>3, <1>4, <1>5, OrderShrinks
<1> QED BY <1>6 DEF W, R, L

\* A step that changes nothing at the receivers, whatever the senders do.
LEMMA SendersCourse ==
  ASSUME Inv, Course, Begun, UNCHANGED <<rx, last, written, lives>>,
         \A n \in Nodes : Sender(n)',
         \A n \in Nodes : InOrderOf(out'[n], tx'[n].file, rx[Peer(n)].file,
                                    last[Peer(n)].file, WrittenOf(n))
  PROVE  Course'
<1>1. \A f, n : Known(f, n) => Known(f, n)'
  BY BegunKeeps
<1>2. \A n \in Nodes : Receiver(n)'
  BY <1>1 DEF Course, Receiver
<1>3. \A n \in Nodes : Order(n)'
  BY DEF Order, WrittenOf
<1>4. Archive'
  BY <1>1 DEF Course, Archive
<1> QED BY <1>2, <1>3, <1>4 DEF Course, WrittenOnce

\* A step of the senders that sends nothing new.
LEMMA NarrowCourse ==
  ASSUME Inv, Course, Begun, UNCHANGED <<hi, rx, last, written, lives>>,
         \A n \in Nodes : Narrows(out[n], out'[n]),
         \A n \in Nodes : Range(bulk'[n]) \subseteq Items,
         \A n \in Nodes : \/ tx'[n] = tx[n] \/ tx'[n] = Nobody
                          \/ /\ tx[n] # Nobody /\ tx'[n].file = tx[n].file
                             /\ tx'[n].round \in 1..MaxRounds
  PROVE  Course'
<1>1. /\ \A f, n : Known(f, n) => Known(f, n)'
      /\ \A e, n : Carried(e, n) => Carried(e, n)'
  BY BegunKeeps
<1>2. ASSUME NEW n \in Nodes
      PROVE  Sender(n)'
  <2>1. \A e \in Range(out'[n]) : Carried(e, n)'
    <3>1. \A e \in Range(out'[n]) : \E d \in Range(out[n]) :
            e.item = d.item /\ e.bulk = d.bulk
      BY DEF Narrows, Keeps
    <3>2. \A d \in Range(out[n]) : Carried(d, n)
      BY DEF Course, Sender
    <3>3. \A e, d : e.item = d.item /\ e.bulk = d.bulk /\ Carried(d, n) => Carried(e, n)
      BY DEF Carried
    <3> QED BY <1>1, <3>1, <3>2, <3>3
  <2>2. \A e \in Range(out[n])' : Carried(e, n)'
    BY <2>1
  <2>3. /\ \A r \in Range(hi[n])' : IsReply(r)
        /\ OneNack(hi[n])'
        /\ Range(bulk[n])' \subseteq Items
    BY DEF Course, Sender, OneNack
  <2>4. (tx[n] # Nobody => Known(tx[n].file, n) /\ tx[n].round \in 1..MaxRounds)'
    <3>1. tx[n] # Nobody => Known(tx[n].file, n) /\ tx[n].round \in 1..MaxRounds
      BY DEF Course, Sender
    <3> QED BY <3>1 DEF Known, Begun
  <2> QED BY <2>2, <2>3, <2>4 DEF Sender
<1>3. ASSUME NEW n \in Nodes
      PROVE  InOrderOf(out'[n], tx'[n].file, rx[Peer(n)].file, last[Peer(n)].file,
                       WrittenOf(n))
  <2>1. tx'[n].file = tx[n].file \/ tx'[n].file = "none"
    BY DEF Nobody
  <2> QED BY <2>1, NarrowsOrder
<1> QED BY <1>2, <1>3, SendersCourse

\* Windows that hold less than those of out.
Follows(o) ==
  o = [n \in Nodes |-> o[n]] /\ \A n \in Nodes : Narrows(out[n], o[n])

LEMMA ExceptFollows ==
  ASSUME Shape, NEW n \in Nodes, NEW w, Narrows(out[n], w)
  PROVE  Follows([out EXCEPT ![n] = w])
<1> DEFINE o == [out EXCEPT ![n] = w]
<1>1. out = [m \in Nodes |-> out[m]] /\ \A m \in Nodes : IsWindow(out[m])
  BY DEF Shape
<1>2. o = [m \in Nodes |-> o[m]] /\ \A m \in Nodes : o[m] = IF m = n THEN w ELSE out[m]
  BY <1>1
<1> HIDE DEF o
<1>3. Follows(o)
  BY <1>1, <1>2, NarrowsSelf DEF Follows
<1> QED BY <1>3 DEF o

\* A purge after that.
LEMMA PurgeFollows ==
  ASSUME Inv, NEW o, Follows(o), NEW n \in Nodes, NEW more, Purge(n, o, more)
  PROVE  /\ \A m \in Nodes : Narrows(out[m], out'[m])
         /\ \A m \in Nodes : bulk'[m] = IF m = n THEN more ELSE bulk[m]
<1> DEFINE w == GivenUp(o[n], OwnEntries(o[n]))
<1>1. /\ bulk = [m \in Nodes |-> bulk[m]] /\ o = [m \in Nodes |-> o[m]]
      /\ \A m \in Nodes : IsWindow(out[m]) /\ Narrows(out[m], o[m])
  BY DEF Inv, Shape, Follows
<1>2. bulk' = [bulk EXCEPT ![n] = more] /\ out' = [o EXCEPT ![n] = w]
  BY DEF Purge
<1>3. Narrows(o[n], w)
  <2>1. IsWindow(o[n]) /\ OwnEntries(o[n]) \in SUBSET Outstanding(o[n])
    BY <1>1 DEF Narrows, OwnEntries
  <2> QED BY <2>1, GivenUpNarrows
<1> HIDE DEF w
<1>4. Narrows(out[n], w)
  BY <1>1, <1>3, NarrowsTransitive
<1> QED BY <1>1, <1>2, <1>4

\* The transfer of a node ends.
LEMMA EndsCourse ==
  ASSUME Inv, Course, NEW n \in Nodes, tx[n] # Nobody, NEW how, how # "unsent",
         Ends(n, how)
  PROVE  /\ Begun
         /\ \A m \in Nodes : tx'[m] = IF m = n THEN Nobody ELSE tx[m]
BY DEF Inv, Shape, Ends, Begun

\* It goes on with the next round.
LEMMA RoundCourse ==
  ASSUME Inv, Course, NEW n \in Nodes, tx[n] # Nobody, ~LastRound(n), NextRound(n)
  PROVE  /\ Begun
         /\ \A m \in Nodes \ {n} : tx'[m] = tx[m]
         /\ tx'[n].file = tx[n].file /\ tx'[n].round \in 1..MaxRounds
<1>1. tx \in [Nodes -> {Nobody} \cup Transfer] /\ tx[n].round \in 1..MaxRounds
  BY DEF Inv, Shape, Course, Sender
<1> DEFINE t == [file |-> tx[n].file, round |-> tx[n].round + 1, waiting |-> FALSE]
<1>2. t.file = tx[n].file /\ t.round = tx[n].round + 1
  OBVIOUS
<1>3. tx[n].round + 1 \in 1..MaxRounds
  BY <1>1, LimitsAssumption DEF LastRound
<1>4. tx' = [tx EXCEPT ![n] = t] /\ verdict' = verdict
  BY DEF NextRound
<1> HIDE DEF t
<1>5. tx'[n] = t /\ \A m \in Nodes \ {n} : tx'[m] = tx[m]
  BY <1>1, <1>4
<1> QED BY <1>2, <1>3, <1>4, <1>5 DEF Begun

----------------------------------------------------------------------------
\* The steps of the sender, and the second invariant.

LEMMA AckCourse ==
  ASSUME Inv, Course, NEW n \in Nodes, NEW k, Ack(n, k)
  PROVE  Course'
<1>1. IsWindow(out[n]) /\ Shape /\ k \in Outstanding(out[n])
  BY DEF Inv, Shape, Ack
<1>2. Follows([out EXCEPT ![n] = Acked(out[n], k)])
  BY <1>1, AckedNarrows, ExceptFollows
<1>3. /\ out' = [out EXCEPT ![n] = Acked(out[n], k)]
      /\ UNCHANGED <<hi, bulk, tx, rx, last, verdict, written, lives>>
  BY DEF Ack
<1>4. Begun /\ \A m \in Nodes : Range(bulk'[m]) \subseteq Items
  BY <1>3 DEF Begun, Course, Sender
<1> QED BY <1>2, <1>3, <1>4, NarrowCourse DEF Follows

LEMMA GiveUpCourse ==
  ASSUME Inv, Course, NEW n \in Nodes, NEW k, GiveUp(n, k)
  PROVE  Course'
<1> DEFINE o == [out EXCEPT ![n] = GivenUp(out[n], {k})]
<1>1. Shape /\ IsWindow(out[n]) /\ {k} \in SUBSET Outstanding(out[n])
  BY DEF Inv, Shape, GiveUp
<1>2. Follows(o)
  BY <1>1, GivenUpNarrows, ExceptFollows
<1>3. /\ UNCHANGED <<hi, rx, last, written, lives, outages>>
      /\ \/ tx[n] # Nobody /\ RestartFile(n, o)
         \/ out' = o /\ UNCHANGED <<bulk, tx, verdict>>
  BY DEF GiveUp
<1>4. \A m \in Nodes : Range(bulk[m]) \subseteq Items
  BY DEF Course, Sender
<1> HIDE DEF o
<1>5. CASE tx[n] # Nobody /\ LastRound(n) /\ Ends(n, "failed") /\ Purge(n, o, << >>)
  <2>1. /\ \A m \in Nodes : Narrows(out[m], out'[m])
        /\ \A m \in Nodes : bulk'[m] = IF m = n THEN << >> ELSE bulk[m]
    BY <1>2, <1>5, PurgeFollows
  <2>2. \A m \in Nodes : Range(bulk'[m]) \subseteq Items
    BY <1>4, <2>1, EmptyMembers
  <2>3. Begun /\ \A m \in Nodes : tx'[m] = IF m = n THEN Nobody ELSE tx[m]
    BY <1>5, EndsCourse
  <2> QED BY <1>3, <2>1, <2>2, <2>3, NarrowCourse
<1>6. CASE /\ tx[n] # Nobody /\ ~LastRound(n)
           /\ NextRound(n) /\ Purge(n, o, WholeFile(tx[n].file))
  <2>1. tx[n].file \in Files
    BY <1>6 DEF Course, Sender, Known
  <2>2. /\ \A m \in Nodes : Narrows(out[m], out'[m])
        /\ \A m \in Nodes : bulk'[m] = IF m = n THEN WholeFile(tx[n].file) ELSE bulk[m]
    BY <1>2, <1>6, PurgeFollows
  <2>3. \A m \in Nodes : Range(bulk'[m]) \subseteq Items
    BY <1>4, <2>1, <2>2, FilesItems
  <2>4. /\ Begun /\ \A m \in Nodes \ {n} : tx'[m] = tx[m]
        /\ tx'[n].file = tx[n].file /\ tx'[n].round \in 1..MaxRounds
    BY <1>6, RoundCourse
  <2> QED BY <1>3, <1>6, <2>2, <2>3, <2>4, NarrowCourse
<1>7. CASE out' = o /\ UNCHANGED <<bulk, tx, verdict>>
  BY <1>2, <1>3, <1>4, <1>7, NarrowCourse DEF Follows, Begun
<1> QED BY <1>3, <1>5, <1>6, <1>7 DEF RestartFile

\* The wait begins, or begins again.
LEMMA WaitCourse ==
  ASSUME Inv, Course, NEW n \in Nodes, NEW b, tx' = [tx EXCEPT ![n].waiting = b],
         tx[n] # Nobody,
         UNCHANGED <<hi, bulk, out, rx, last, verdict, written, lives>>
  PROVE  Course'
<1>1. tx[n] \in Transfer /\ tx \in [Nodes -> {Nobody} \cup Transfer]
  BY DEF Inv, Shape
<1> DEFINE u == [tx[n] EXCEPT !.waiting = b]
<1>2. tx' = [tx EXCEPT ![n] = u] /\ u.file = tx[n].file /\ u.round = tx[n].round
  BY <1>1 DEF Transfer
<1> HIDE DEF u
<1>3. \A m \in Nodes \ {n} : tx'[m] = tx[m]
  BY <1>1, <1>2
<1>4. tx'[n].file = tx[n].file /\ tx'[n].round \in 1..MaxRounds
  BY <1>1, <1>2 DEF Course, Sender
<1>5. \A m \in Nodes : /\ Narrows(out[m], out'[m])
                       /\ Range(bulk'[m]) \subseteq Items
  BY NarrowsSelf DEF Inv, Shape, Course, Sender
<1> QED BY <1>3, <1>4, <1>5, NarrowCourse DEF Begun

LEMMA ExpireCourse ==
  ASSUME Inv, Course, NEW n \in Nodes, Expire(n)
  PROVE  Course'
<1>1. /\ tx[n] # Nobody
      /\ UNCHANGED <<hi, out, rx, last, written, lives, lost, outages>>
  BY DEF Expire, AllSent
<1>2. \A m \in Nodes : /\ Narrows(out[m], out'[m])
                       /\ IsSeq(bulk[m]) /\ Range(bulk[m]) \subseteq Items
  BY <1>1, NarrowsSelf DEF Inv, Shape, Course, Sender
<1>3. CASE Ends(n, "failed") /\ UNCHANGED bulk
  <2>1. Begun /\ \A m \in Nodes : tx'[m] = IF m = n THEN Nobody ELSE tx[m]
    BY <1>1, <1>3, EndsCourse
  <2> QED BY <1>1, <1>2, <1>3, <2>1, NarrowCourse
<1>4. CASE /\ ~LastRound(n) /\ NextRound(n)
           /\ bulk' = [bulk EXCEPT ![n] = @ \o <<EndMark(tx[n].file)>>]
  <2> DEFINE more == <<EndMark(tx[n].file)>>
  <2>1. tx[n].file \in Files
    BY <1>1 DEF Course, Sender, Known
  <2>2. IsSeq(more) /\ Range(more) \subseteq Items
    BY <2>1, FileItems, FilesItems
  <2>3. bulk' = [bulk EXCEPT ![n] = bulk[n] \o more]
    BY <1>4
  <2> HIDE DEF more
  <2>4. Range(bulk[n] \o more) \subseteq Items
    BY <1>2, <2>2, ConcatMembers
  <2>5. \A m \in Nodes : Range(bulk'[m]) \subseteq Items
    BY <1>2, <2>3, <2>4 DEF Inv, Shape
  <2>6. /\ Begun /\ \A m \in Nodes \ {n} : tx'[m] = tx[m]
        /\ tx'[n].file = tx[n].file /\ tx'[n].round \in 1..MaxRounds
    BY <1>1, <1>4, RoundCourse
  <2> QED BY <1>1, <1>2, <2>5, <2>6, NarrowCourse
<1> QED BY <1>3, <1>4 DEF Expire

\* A window with one more entry.
LEMMA AppendWindow ==
  ASSUME NEW o, IsWindow(o), NEW e
  PROVE  \E N \in Nat :
           /\ Range(Append(o, e)) = Range(o) \cup {e} /\ Append(o, e)[N] = e
           /\ DOMAIN Append(o, e) = DOMAIN o \cup {N}
           /\ \A k \in DOMAIN o : k < N /\ Append(o, e)[k] = o[k]
<1> DEFINE S == Range(o) \cup {e}
           w == Append(o, e)
<1>1. o \in Seq(S) /\ Range(w) = S
  BY AppendMembers, SeqMonotonic DEF IsWindow, IsSeq
<1>2. /\ w \in Seq(S)
      /\ Len(o) \in Nat /\ Len(w) = Len(o) + 1
      /\ \A i \in 1..Len(o) : w[i] = o[i]
      /\ w[Len(o) + 1] = e
  BY <1>1, AppendProperties, LenProperties
<1> HIDE DEF S, w
<1>3. DOMAIN o = 1..Len(o) /\ DOMAIN w = 1..(Len(o) + 1)
  BY <1>1, <1>2, LenProperties
<1>4. PICK N \in Nat : N = Len(o) + 1
  BY <1>2
<1>5. DOMAIN w = DOMAIN o \cup {N} /\ \A k \in DOMAIN o : k < N /\ w[k] = o[k]
  BY <1>2, <1>3, <1>4
<1>6. w[N] = e
  BY <1>2, <1>4
<1> QED BY <1>1, <1>5, <1>6 DEF S, w

IsBulk(e) == e.bulk = TRUE

\* A reply leaves the files' entries as they are.
LEMMA ReplyWindow ==
  ASSUME NEW o, IsWindow(o), NEW e, ~IsBulk(e)
  PROVE  /\ Range(Append(o, e)) = Range(o) \cup {e}
         /\ Shrinks(o, Append(o, e)) /\ Places(Append(o, e))
<1> DEFINE w == Append(o, e)
<1>1. PICK N \in Nat :
        /\ Range(w) = Range(o) \cup {e} /\ w[N] = e
        /\ DOMAIN w = DOMAIN o \cup {N}
        /\ \A k \in DOMAIN o : k < N /\ w[k] = o[k]
  BY AppendWindow
<1> HIDE DEF w
<1>2. Bulk(w) = Bulk(o) /\ \A k \in Bulk(o) : w[k] = o[k]
  BY <1>1 DEF Bulk, IsBulk
<1>3. Bulk(o) \subseteq Nat
  BY WindowPlaces DEF Places
<1>4. 0 \in Nat /\ \A k \in Bulk(w) :
        /\ k + 0 \in Bulk(o) /\ w[k].item = o[k + 0].item
        /\ k \in Yet(w) => k + 0 \in Yet(o)
  <2>1. \A k \in Bulk(w) : k + 0 = k
    BY <1>2, <1>3
  <2> QED BY <1>2, <2>1 DEF Yet
<1>5. Range(w) = Range(o) \cup {e} /\ Shrinks(o, w) /\ Places(w)
  BY <1>1, <1>2, <1>3, <1>4 DEF Shrinks, Places
<1> QED BY <1>5 DEF w

\* An own item comes last.
LEMMA OwnWindow ==
  ASSUME NEW o, IsWindow(o), NEW e, IsBulk(e)
  PROVE  /\ Range(Append(o, e)) = Range(o) \cup {e}
         /\ Sends(o, Append(o, e), e.item.file)
<1> DEFINE w == Append(o, e)
<1>1. PICK N \in Nat :
        /\ Range(w) = Range(o) \cup {e} /\ w[N] = e
        /\ DOMAIN w = DOMAIN o \cup {N}
        /\ \A k \in DOMAIN o : k < N /\ w[k] = o[k]
  BY AppendWindow
<1> HIDE DEF w
<1>2. Sends(o, w, e.item.file)
  BY <1>1 DEF Bulk, Sends, IsBulk
<1> QED BY <1>1, <1>2 DEF w

\* Sending: a reply changes nothing for the files, an own item is of the current
\* file.
LEMMA PumpCourse ==
  ASSUME Inv, Course, NEW n \in Nodes, Pump(n)
  PROVE  Course'
<1> DEFINE R == rx[Peer(n)].file
           L == last[Peer(n)].file
           W == WrittenOf(n)
           t == tx[n].file
<1>1. /\ UNCHANGED <<tx, rx, last, verdict, written, lives, lost, outages>>
      /\ IsSeq(hi[n]) /\ IsSeq(bulk[n]) /\ IsWindow(out[n]) /\ Places(out[n])
      /\ hi = [m \in Nodes |-> hi[m]] /\ bulk = [m \in Nodes |-> bulk[m]]
      /\ out = [m \in Nodes |-> out[m]]
      /\ Sender(n) /\ InOrderOf(out[n], t, R, L, W)
  BY BulkKnown DEF Pump, Inv, Shape, Course, Order
<1>2. /\ Begun /\ \A m \in Nodes \ {n} : Sender(m)
      /\ W \in SUBSET Files /\ \A k \in Bulk(out[n]) : out[n][k].item.file \in Files
  BY <1>1, BulkKnown DEF Begun, Course, WrittenOf
<1> HIDE DEF R, L, W, t
<1>3. ASSUME NEW w, out' = [out EXCEPT ![n] = w],
             \A m \in Nodes \ {n} : hi'[m] = hi[m] /\ bulk'[m] = bulk[m],
             \A e \in Range(w) : Carried(e, n),
             \A r \in Range(hi'[n]) : IsReply(r), OneNack(hi'[n]),
             Range(bulk'[n]) \subseteq Items, InOrderOf(w, t, R, L, W)
      PROVE  Course'
  <2>1. \A m \in Nodes : out'[m] = IF m = n THEN w ELSE out[m]
    BY <1>1, <1>3
  <2>2. \A e, m : Carried(e, m) => Carried(e, m)'
    BY <1>2, BegunKeeps
  <2>3. Sender(n)'
    <3>1. \A e \in Range(out[n])' : Carried(e, n)'
      BY <1>3, <2>1, <2>2
    <3>2. (tx[n] # Nobody => Known(tx[n].file, n) /\ tx[n].round \in 1..MaxRounds)'
      BY <1>1 DEF Sender, Known
    <3>3. OneNack(hi[n])' /\ Range(bulk[n])' \subseteq Items
      BY <1>3 DEF OneNack
    <3> QED BY <1>3, <3>1, <3>2, <3>3 DEF Sender
  <2>4. ASSUME NEW m \in Nodes \ {n} PROVE Sender(m)'
    <3>1. out'[m] = out[m] /\ hi'[m] = hi[m] /\ bulk'[m] = bulk[m] /\ tx'[m] = tx[m]
      BY <1>1, <1>3, <2>1
    <3>2. \A e \in Range(out[m])' : Carried(e, m)'
      BY <1>2, <2>2, <3>1 DEF Sender
    <3>3. (tx[m] # Nobody => Known(tx[m].file, m) /\ tx[m].round \in 1..MaxRounds)'
      BY <1>1, <1>2, <3>1 DEF Sender, Known
    <3>4. /\ \A r \in Range(hi[m])' : IsReply(r)
          /\ OneNack(hi[m])' /\ Range(bulk[m])' \subseteq Items
      BY <1>2, <3>1 DEF Sender, OneNack
    <3> QED BY <3>2, <3>3, <3>4 DEF Sender
  <2>5. \A m \in Nodes : Sender(m)'
    BY <2>3, <2>4
  <2>6. \A m \in Nodes : InOrderOf(out'[m], tx'[m].file, rx[Peer(m)].file,
                                   last[Peer(m)].file, WrittenOf(m))
    BY <1>1, <1>3, <2>1 DEF Course, Order, R, L, W, t
  <2> QED BY <1>1, <1>2, <2>5, <2>6, SendersCourse
<1>4. CASE /\ hi[n] # << >>
           /\ hi' = [hi EXCEPT ![n] = Tail(@)]
           /\ out' = [out EXCEPT ![n] = Append(@, [item |-> Head(hi[n]),
                                        bulk |-> FALSE, state |-> "open"])]
           /\ UNCHANGED bulk
  <2> DEFINE e == [item |-> Head(hi[n]), bulk |-> FALSE, state |-> "open"]
             w == Append(out[n], e)
  <2>1. e.item = Head(hi[n]) /\ e.bulk = FALSE
    OBVIOUS
  <2>2. /\ Head(hi[n]) \in Range(hi[n])
        /\ Range(Tail(hi[n])) \subseteq Range(hi[n])
    BY <1>1, <1>4, TailMembers
  <2>3. Carried(e, n)
    BY <1>1, <2>1, <2>2 DEF Carried, Sender
  <2>4. out' = [out EXCEPT ![n] = w]
    BY <1>4
  <2>20. ~IsBulk(e)
    BY DEF IsBulk
  <2> HIDE DEF e
  <2>5. Range(w) = Range(out[n]) \cup {e} /\ Shrinks(out[n], w) /\ Places(w)
    BY <1>1, <2>20, ReplyWindow
  <2> HIDE DEF w
  <2>6. \A x \in Range(w) : Carried(x, n)
    BY <1>1, <2>3, <2>5 DEF Sender
  <2>8. InOrderOf(w, t, R, L, W)
    <3>1. t = t \/ t = "none"
      OBVIOUS
    <3> QED BY <1>1, <1>2, <2>5, <3>1, OrderShrinks
  <2>9. /\ \A m \in Nodes : hi'[m] = IF m = n THEN Tail(hi[n]) ELSE hi[m]
        /\ bulk' = bulk
    BY <1>1, <1>4
  <2>10. /\ \A r \in Range(hi'[n]) : IsReply(r)
         /\ OneNack(hi'[n]) /\ Range(bulk'[n]) \subseteq Items
    BY <1>1, <1>4, <2>2, <2>9, OneNackTail DEF Sender
  <2> QED BY <1>3, <2>4, <2>6, <2>8, <2>9, <2>10
<1>5. CASE /\ hi[n] = << >> /\ bulk[n] # << >>
           /\ bulk' = [bulk EXCEPT ![n] = Tail(@)]
           /\ out' = [out EXCEPT ![n] = Append(@, [item |-> Head(bulk[n]),
                                        bulk |-> TRUE, state |-> "open"])]
           /\ UNCHANGED hi
  <2> DEFINE e == [item |-> Head(bulk[n]), bulk |-> TRUE, state |-> "open"]
             w == Append(out[n], e)
  <2>1. e.item = Head(bulk[n]) /\ e.bulk = TRUE
    OBVIOUS
  <2>2. /\ Head(bulk[n]) \in Range(bulk[n])
        /\ Range(Tail(bulk[n])) \subseteq Range(bulk[n])
    BY <1>1, <1>5, TailMembers
  <2>3. tx[n] # Nobody /\ Head(bulk[n]).file = t
    BY <2>2 DEF Inv, OwnInv, Mine, t
  <2>4. Known(t, n) /\ t \in Files /\ Head(bulk[n]) \in Items
    BY <1>1, <2>2, <2>3 DEF Sender, Known, t
  <2>5. Carried(e, n)
    BY <2>1, <2>3, <2>4 DEF Carried
  <2>6. out' = [out EXCEPT ![n] = w]
    BY <1>5
  <2>20. IsBulk(e)
    BY DEF IsBulk
  <2> HIDE DEF e
  <2>22. Range(w) = Range(out[n]) \cup {e} /\ Sends(out[n], w, e.item.file)
    BY <1>1, <2>20, OwnWindow
  <2> HIDE DEF w
  <2>8. \A x \in Range(w) : Carried(x, n)
    BY <1>1, <2>5, <2>22 DEF Sender
  <2>9. InOrderOf(w, t, R, L, W)
    <3>1. Sends(out[n], w, t)
      BY <2>1, <2>3, <2>22
    <3>2. /\ Places(out[n]) /\ W \in SUBSET Files /\ t \in Files
          /\ InOrderOf(out[n], t, R, L, W)
      BY <1>1, <1>2, <2>4
    <3> QED BY <3>1, <3>2, OrderSends
  <2>10. /\ \A m \in Nodes : bulk'[m] = IF m = n THEN Tail(bulk[n]) ELSE bulk[m]
         /\ hi' = hi
    BY <1>1, <1>5
  <2>11. /\ \A r \in Range(hi'[n]) : IsReply(r)
         /\ OneNack(hi'[n]) /\ Range(bulk'[n]) \subseteq Items
    BY <1>1, <2>2, <2>10 DEF Sender
  <2> QED BY <1>3, <2>6, <2>8, <2>9, <2>10, <2>11
<1> QED BY <1>4, <1>5 DEF Pump

\* A file whose transfer has not begun has left no trace.
LEMMA Untouched ==
  ASSUME Inv, Course, NEW n \in Nodes, NEW f \in Files, verdict[f] = "unsent"
  PROVE  /\ \A k \in Bulk(out[n]) : out[n][k].item.file # f
         /\ f # rx[Peer(n)].file /\ f # last[Peer(n)].file /\ f \notin WrittenOf(n)
<1>1. \A k \in Bulk(out[n]) : out[n][k].item.file # f
  BY BulkKnown DEF Known
<1>2. f # rx[Peer(n)].file /\ f # last[Peer(n)].file
  BY PeerIsNode, NoneAssumption DEF Course, Receiver, Known, Nobody
<1>3. f \notin WrittenOf(n)
  BY DEF Course, Archive, Known, WrittenOf
<1> QED BY <1>1, <1>2, <1>3

LEMMA SendFileCourse ==
  ASSUME Inv, Course, NEW n \in Nodes, NEW f \in Files, SendFile(n, f)
  PROVE  Course'
<1> DEFINE u == [file |-> f, round |-> 1, waiting |-> FALSE]
           more == WholeFile(f)
<1>1. u.file = f /\ u.round = 1 /\ 1 \in 1..MaxRounds
  BY LimitsAssumption
<1>2. /\ Origin[f] = n /\ verdict[f] = "unsent"
      /\ tx[n] = Nobody /\ tx' = [tx EXCEPT ![n] = u]
      /\ bulk' = [bulk EXCEPT ![n] = @ \o more]
      /\ verdict' = [verdict EXCEPT ![f] = "sending"]
      /\ UNCHANGED <<hi, out, rx, last, written, lives, lost, outages>>
  BY DEF SendFile
<1>3. IsSeq(more) /\ Range(more) \subseteq Items
  BY FileItems, FilesItems
<1> HIDE DEF u, more
<1>4. Begun /\ Known(f, n)'
  BY <1>2 DEF Begun, Known, Inv, Shape
<1>5. /\ \A m \in Nodes : tx'[m] = IF m = n THEN u ELSE tx[m]
      /\ \A m \in Nodes : bulk'[m] = IF m = n THEN bulk[n] \o more ELSE bulk[m]
  BY <1>2 DEF Inv, Shape
<1>6. Range(bulk'[n]) \subseteq Items
  <2>1. IsSeq(bulk[n]) /\ Range(bulk[n]) \subseteq Items
    BY DEF Inv, Shape, Course, Sender
  <2> QED BY <1>3, <1>5, <2>1, ConcatMembers
<1>7. ASSUME NEW m \in Nodes
      PROVE  Sender(m)'
  <2>1. \A e \in Range(out[m])' : Carried(e, m)'
    BY <1>2, <1>4, BegunKeeps DEF Course, Sender
  <2>2. (tx[m] # Nobody => Known(tx[m].file, m) /\ tx[m].round \in 1..MaxRounds)'
    <3>1. CASE m = n
      BY <1>1, <1>4, <1>5, <3>1 DEF Known
    <3>2. CASE m # n
      <4>1. tx[m] # Nobody => Known(tx[m].file, m) /\ tx[m].round \in 1..MaxRounds
        BY DEF Course, Sender
      <4> QED BY <1>4, <1>5, <3>2, <4>1 DEF Known, Begun
    <3> QED BY <3>1, <3>2
  <2>3. /\ \A r \in Range(hi[m])' : IsReply(r)
        /\ OneNack(hi[m])' /\ Range(bulk[m])' \subseteq Items
    BY <1>2, <1>5, <1>6 DEF Course, Sender, OneNack
  <2> QED BY <2>1, <2>2, <2>3 DEF Sender
<1>8. ASSUME NEW m \in Nodes
      PROVE  InOrderOf(out'[m], tx'[m].file, rx[Peer(m)].file, last[Peer(m)].file,
                       WrittenOf(m))
  <2>1. InOrderOf(out[m], tx[m].file, rx[Peer(m)].file, last[Peer(m)].file,
                  WrittenOf(m))
    BY DEF Course, Order
  <2>2. CASE m = n
    <3> DEFINE R == rx[Peer(n)].file
               L == last[Peer(n)].file
               W == WrittenOf(n)
    <3>1. tx[n].file = "none" /\ tx'[n].file = f
      BY <1>1, <1>2, <1>5 DEF Nobody
    <3>2. W \in SUBSET Files
      BY DEF WrittenOf
    <3>3. /\ \A k \in Bulk(out[n]) : out[n][k].item.file # f
          /\ f # R /\ f # L /\ f \notin W
      BY <1>2, Untouched
    <3>4. InOrderOf(out[n], "none", R, L, W)
      BY <2>1, <2>2, <3>1
    <3> HIDE DEF R, L, W
    <3>5. InOrderOf(out[n], f, R, L, W)
      BY <3>2, <3>3, <3>4, OrderBegins
    <3> QED BY <1>2, <2>2, <3>1, <3>5 DEF R, L, W
  <2>3. CASE m # n
    BY <1>2, <1>5, <2>1, <2>3
  <2> QED BY <2>2, <2>3
<1> QED BY <1>2, <1>4, <1>7, <1>8, SendersCourse

----------------------------------------------------------------------------
\* An item handed up, and the second invariant.

HandsUp(n, k, o) ==
  /\ k \in DOMAIN out[n] /\ Follows(o) /\ Passes(out[n], o[n], k)
  /\ Carried(out[n][k], n)
  /\ out[n][k].item.kind \in {"start", "data", "end"} => k \in Yet(out[n])

LEMMA DeliverHands ==
  ASSUME Inv, Course, NEW n \in Nodes, NEW k, Deliver(n, k)
  PROVE  HandsUp(n, k, [out EXCEPT ![n] = HandedUp(out[n], k)])
<1> DEFINE w == HandedUp(out[n], k)
           o == [out EXCEPT ![n] = w]
<1>1. /\ k \in DOMAIN out[n] /\ out[n][k].state \in {"open", "acked", "lost"}
      /\ \A i \in 1..(k - 1) : out[n][i].state \in {"passed", "lost", "gone"}
  BY DEF Deliver
<1>2. Shape /\ IsWindow(out[n])
  BY DEF Inv, Shape
<1>3. Narrows(out[n], w) /\ Passes(out[n], w, k)
  BY <1>1, <1>2, HandedUpPasses
<1> HIDE DEF w
<1>4. Follows(o) /\ o[n] = w
  BY <1>2, <1>3, ExceptFollows DEF Shape
<1> HIDE DEF o
<1>5. Carried(out[n][k], n)
  BY <1>1, BulkKnown
<1>6. out[n][k].item.kind \in {"start", "data", "end"} => k \in Yet(out[n])
  <2>1. out[n][k].bulk \in BOOLEAN
    BY <1>1, <1>2, WindowMembers DEF IsEntry
  <2>2. ~out[n][k].bulk => out[n][k].item.kind \in {"nack", "done"}
    BY <1>5 DEF Carried, IsReply
  <2> QED BY <1>1, <2>1, <2>2 DEF Yet, Bulk
<1>7. HandsUp(n, k, o)
  BY <1>1, <1>3, <1>4, <1>5, <1>6 DEF HandsUp
<1> QED BY <1>7 DEF o, w

\* A step of the receiver of n's files.
LEMMA ReceiverCourse ==
  ASSUME Inv, Course, NEW o, Follows(o), out' = o,
         UNCHANGED <<bulk, tx, verdict, lives>>,
         \A x \in Nodes : (\A r \in Range(hi'[x]) : IsReply(r)) /\ OneNack(hi'[x]),
         NEW n \in Nodes, rx' = [x \in Nodes |-> rx'[x]],
         \A x \in Nodes \ {Peer(n)} : rx'[x] = rx[x] /\ last'[x] = last[x],
         Receiver(Peer(n))', Archive', WrittenOnce',
         WrittenOf(Peer(n))' = WrittenOf(Peer(n)),
         Order(n)'
  PROVE  Course'
<1>1. Begun
  BY DEF Begun
<1>2. /\ \A f, x : Known(f, x) => Known(f, x)'
      /\ \A e, x : Carried(e, x) => Carried(e, x)'
  BY <1>1, BegunKeeps
<1>3. ASSUME NEW x \in Nodes
      PROVE  Sender(x)'
  <2>1. \A e \in Range(out[x])' : Carried(e, x)'
    <3>1. \A e \in Range(out'[x]) : \E d \in Range(out[x]) :
            e.item = d.item /\ e.bulk = d.bulk
      BY DEF Follows, Narrows, Keeps
    <3>2. \A d \in Range(out[x]) : Carried(d, x)
      BY DEF Course, Sender
    <3>3. \A e, d : e.item = d.item /\ e.bulk = d.bulk /\ Carried(d, x) => Carried(e, x)
      BY DEF Carried
    <3>4. \A e \in Range(out'[x]) : Carried(e, x)'
      BY <1>2, <3>1, <3>2, <3>3
    <3> QED BY <3>4
  <2>2. (tx[x] # Nobody => Known(tx[x].file, x) /\ tx[x].round \in 1..MaxRounds)'
    BY DEF Course, Sender, Known
  <2>3. OneNack(hi[x])' /\ \A r \in Range(hi[x])' : IsReply(r)
    BY DEF OneNack
  <2>4. Range(bulk[x])' \subseteq Items
    BY DEF Course, Sender
  <2> QED BY <2>1, <2>2, <2>3, <2>4 DEF Sender
<1>4. ASSUME NEW x \in Nodes
      PROVE  Receiver(x)'
  BY <1>2 DEF Course, Receiver
<1>5. Order(Peer(n))'
  <2> DEFINE p == Peer(n)
  <2>1. p \in Nodes /\ Peer(p) = n /\ n # p
    BY PeerIsNode, PeerOfPeer
  <2>2. rx'[n] = rx[n] /\ last'[n] = last[n]
    BY <2>1
  <2>3. Narrows(out[p], out'[p]) /\ (tx[p].file = tx[p].file \/ tx[p].file = "none")
    BY <2>1 DEF Follows
  <2> HIDE DEF p
  <2>4. InOrderOf(out'[p], tx[p].file, rx[Peer(p)].file, last[Peer(p)].file,
                  WrittenOf(p))
    BY <2>1, <2>3, NarrowsOrder
  <2>5. WrittenOf(p)' = WrittenOf(p)
    BY DEF p
  <2> QED BY <2>1, <2>2, <2>4, <2>5 DEF Order, p
<1>6. \A x \in Nodes : Order(x)'
  BY <1>5, PeerOfPeer
<1> QED BY <1>3, <1>4, <1>6 DEF Course

\* When the files and verdicts of the receivers stay, the order does.
LEMMA OrderStays ==
  ASSUME Inv, Course, NEW o, Follows(o), out' = o, NEW n \in Nodes,
         UNCHANGED <<tx, written, lives>>,
         rx'[Peer(n)].file = rx[Peer(n)].file, last'[Peer(n)].file = last[Peer(n)].file
  PROVE  /\ Order(n)' /\ WrittenOf(Peer(n))' = WrittenOf(Peer(n))
         /\ WrittenOnce'
<1>1. Narrows(out[n], out'[n]) /\ (tx[n].file = tx[n].file \/ tx[n].file = "none")
  BY DEF Follows
<1>2. InOrderOf(out'[n], tx[n].file, rx[Peer(n)].file, last[Peer(n)].file, WrittenOf(n))
  BY <1>1, NarrowsOrder
<1>3. \A x : WrittenOf(x)' = WrittenOf(x)
  BY DEF WrittenOf
<1>4. WrittenOnce'
  BY DEF Course, WrittenOnce
<1> QED BY <1>2, <1>3, <1>4 DEF Order

\* The replies queued stay what they are.
LEMMA RepliesStay ==
  ASSUME Course, hi' = hi
  PROVE  \A x \in Nodes : (\A r \in Range(hi'[x]) : IsReply(r)) /\ OneNack(hi'[x])
BY DEF Course, Sender

\* A header: a file that is opened comes after all that was received before.
LEMMA OnStartCourse ==
  ASSUME Inv, Course, NEW n \in Nodes, NEW k, NEW o, HandsUp(n, k, o),
         OnStart(Peer(n), out[n][k].item, o), UNCHANGED lives
  PROVE  Course'
<1> DEFINE f == out[n][k].item.file
           m == Peer(n)
           u == [file |-> f, frags |-> << >>]
<1>1. /\ rx' = IF f \in {rx[m].file, last[m].file} THEN rx
               ELSE [rx EXCEPT ![m] = u]
      /\ out' = o /\ out[n][k].item.kind = "start"
      /\ UNCHANGED <<hi, bulk, tx, last, verdict, written>>
  BY DEF OnStart
<1>2. k \in Yet(out[n]) /\ k \in Bulk(out[n]) /\ Follows(o) /\ Passes(out[n], o[n], k)
  BY <1>1 DEF HandsUp, Yet
<1>3. m \in Nodes /\ Peer(m) = n /\ n # m
  BY PeerIsNode, PeerOfPeer
<1>4. Known(f, n) /\ f \in Files
  BY <1>2, BulkKnown
<1>5. /\ u = [file |-> u.file, frags |-> u.frags] /\ u.file = f /\ DOMAIN u.frags = {}
  OBVIOUS
<1>6. /\ \A x \in Nodes : (\A r \in Range(hi'[x]) : IsReply(r)) /\ OneNack(hi'[x])
      /\ rx = [x \in Nodes |-> rx[x]] /\ Receiver(m)
  BY <1>1, <1>3, RepliesStay DEF Course
<1>7. Archive'
  BY <1>1 DEF Course, Archive, Known
<1>8. \A x : WrittenOf(x)' = WrittenOf(x)
  BY <1>1 DEF WrittenOf
<1> HIDE DEF f, m, u
<1>9. CASE rx' = rx
  <2>1. Receiver(m)'
    BY <1>1, <1>6, <1>9 DEF Receiver, Known
  <2>2. Order(n)' /\ WrittenOnce'
    BY <1>1, <1>2, <1>9, OrderStays
  <2> QED BY <1>1, <1>2, <1>6, <1>7, <1>8, <1>9, <2>1, <2>2, ReceiverCourse DEF m
<1>10. CASE f \notin {rx[m].file, last[m].file} /\ rx' = [rx EXCEPT ![m] = u]
  <2>1. /\ rx' = [x \in Nodes |-> rx'[x]] /\ rx'[m] = u
        /\ \A x \in Nodes \ {m} : rx'[x] = rx[x]
    BY <1>3, <1>6, <1>10
  <2>2. Receiver(m)'
    BY <1>1, <1>3, <1>4, <1>5, <1>6, <2>1 DEF Receiver, Known
  <2>3. Order(n)'
    <3> DEFINE t == tx[n].file
               R == rx[m].file
               L == last[m].file
               W == WrittenOf(n)
    <3>1. Places(out[n]) /\ \A j \in Bulk(out[n]) : out[n][j].item.file \in Files
      BY BulkKnown
    <3>2. Places(o[n])
      BY <1>2, WindowPlaces DEF Follows, Narrows
    <3>3. InOrderOf(out[n], t, R, L, W) /\ W \in SUBSET Files
      BY DEF Course, Order, WrittenOf, m
    <3>4. out[n][k].item.file # L
      BY <1>10 DEF f
    <3> HIDE DEF t, R, L, W
    <3>5. InOrderOf(o[n], t, out[n][k].item.file, L, W)
      BY <1>2, <3>1, <3>2, <3>3, <3>4, OrderOpens
    <3> QED BY <1>1, <1>5, <1>8, <2>1, <3>5 DEF Order, t, L, W, f, m
  <2>4. WrittenOnce'
    BY <1>1 DEF Course, WrittenOnce
  <2> QED BY <1>1, <1>2, <1>6, <1>7, <1>8, <2>1, <2>2, <2>3, <2>4, ReceiverCourse DEF m
<1> QED BY <1>1, <1>9, <1>10

\* A fragment is stored at an index of the open file.
LEMMA OnDataCourse ==
  ASSUME Inv, Course, NEW n \in Nodes, NEW k, NEW o, HandsUp(n, k, o),
         OnData(Peer(n), out[n][k].item, o), UNCHANGED lives
  PROVE  Course'
<1> DEFINE item == out[n][k].item
           m == Peer(n)
           data == Put(rx[m].frags, item.index, Content[item.file])
           u == [rx[m] EXCEPT !.frags = data]
<1>1. /\ rx' = IF rx[m] = Nobody \/ item.index >= Size[rx[m].file] THEN rx
               ELSE [rx EXCEPT ![m] = u]
      /\ out' = o /\ item.kind = "data"
      /\ UNCHANGED <<hi, bulk, tx, last, verdict, written>>
  BY DEF OnData
<1>2. k \in Bulk(out[n]) /\ Follows(o)
  BY <1>1 DEF HandsUp, Yet
<1>3. m \in Nodes
  BY PeerIsNode
<1>4. item.index \in Nat
  <2>1. item \in Items
    BY <1>2, BulkKnown
  <2>2. \A f \in Files : \A i \in Indices(f) : i \in Nat
    BY FilesAssumption DEF Indices
  <2> QED BY <1>1, <2>1, <2>2 DEF Items, Header, EndMark, Fragment
<1>5. /\ \A x \in Nodes : (\A r \in Range(hi'[x]) : IsReply(r)) /\ OneNack(hi'[x])
      /\ rx = [x \in Nodes |-> rx[x]] /\ Receiver(m)
  BY <1>1, <1>3, RepliesStay DEF Course
<1>6. Archive'
  BY <1>1 DEF Course, Archive, Known
<1>7. DOMAIN data = DOMAIN rx[m].frags \cup {item.index}
  BY DEF Put
<1>8. rx[m] # Nobody /\ ~(item.index >= Size[rx[m].file]) =>
        /\ u = [file |-> rx[m].file, frags |-> data]
        /\ item.index \in Indices(rx[m].file)
  <2> HIDE DEF data, item, m
  <2>1. SUFFICES ASSUME rx[m] # Nobody, ~(item.index >= Size[rx[m].file])
                 PROVE  /\ u = [file |-> rx[m].file, frags |-> data]
                        /\ item.index \in Indices(rx[m].file)
    OBVIOUS
  <2>2. /\ rx[m] = [file |-> rx[m].file, frags |-> rx[m].frags]
        /\ Size[rx[m].file] \in Nat
    BY <1>5, <2>1, FilesAssumption DEF Receiver, Known
  <2>3. \A i, s \in Nat : ~(i >= s) => i \in 0..(s - 1)
    OBVIOUS
  <2> QED BY <1>4, <2>1, <2>2, <2>3 DEF Indices
<1> HIDE DEF item, m, data, u
<1>9. CASE rx' = rx
  <2>1. Receiver(m)'
    BY <1>1, <1>5, <1>9 DEF Receiver, Known
  <2>2. Order(n)' /\ WrittenOnce' /\ WrittenOf(m)' = WrittenOf(m)
    BY <1>1, <1>2, <1>9, OrderStays DEF m
  <2> QED BY <1>1, <1>2, <1>5, <1>6, <1>9, <2>1, <2>2, ReceiverCourse DEF m
<1>10. CASE /\ ~(rx[m] = Nobody \/ item.index >= Size[rx[m].file])
            /\ rx' = [rx EXCEPT ![m] = u]
  <2>1. u = [file |-> rx[m].file, frags |-> data] /\ u.file = rx[m].file
        /\ u.frags = data /\ item.index \in Indices(rx[m].file)
    BY <1>8, <1>10
  <2>2. /\ rx' = [x \in Nodes |-> rx'[x]] /\ rx'[m] = u
        /\ \A x \in Nodes \ {m} : rx'[x] = rx[x]
    BY <1>3, <1>5, <1>10
  <2>3. Receiver(m)'
    <3>1. Known(rx[m].file, Peer(m)) /\ DOMAIN rx[m].frags \subseteq Indices(rx[m].file)
      BY <1>5, <1>10 DEF Receiver
    <3>2. /\ rx'[m].file \in Files /\ Origin[rx'[m].file] = Peer(m)
          /\ verdict'[rx'[m].file] # "unsent"
      BY <1>1, <2>1, <2>2, <3>1 DEF Known
    <3>3. DOMAIN data \subseteq Indices(rx[m].file)
      BY <1>7, <2>1, <3>1
    <3>4. /\ rx'[m] = [file |-> rx'[m].file, frags |-> rx'[m].frags]
          /\ DOMAIN rx'[m].frags \subseteq Indices(rx'[m].file)
      BY <2>1, <2>2, <3>3
    <3>5. last[m] # Nobody =>
            /\ last[m].file \in Files /\ Origin[last[m].file] = Peer(m)
            /\ verdict'[last[m].file] # "unsent"
            /\ IsReply(last[m].reply) /\ last[m].reply.kind = "done"
      BY <1>1, <1>5 DEF Receiver, Known
    <3> QED BY <1>1, <3>2, <3>4, <3>5 DEF Receiver, Known
  <2>4. Order(n)' /\ WrittenOnce' /\ WrittenOf(m)' = WrittenOf(m)
    BY <1>1, <1>2, <2>1, <2>2, OrderStays DEF m
  <2> QED BY <1>1, <1>2, <1>5, <1>6, <2>2, <2>3, <2>4, ReceiverCourse DEF m
<1> QED BY <1>1, <1>9, <1>10

\* A reply put first, before a queue without another NACK.
LEMMA RepliesFirst ==
  ASSUME Inv, Course, NEW m \in Nodes, NEW r, IsReply(r),
         NEW p, IsSeq(p), Range(p) \subseteq Range(hi[m]), OneNack(p),
         r.kind = "nack" => \A x \in Range(p) : x.kind # "nack",
         hi' = [hi EXCEPT ![m] = <<r>> \o p]
  PROVE  \A x \in Nodes : (\A y \in Range(hi'[x]) : IsReply(y)) /\ OneNack(hi'[x])
<1> DEFINE q == <<r>> \o p
<1>1. \A x \in Nodes : hi'[x] = IF x = m THEN q ELSE hi[x]
  BY DEF Inv, Shape
<1>2. Range(q) \subseteq Range(hi[m]) \cup {r}
  BY ReplyFirst DEF Inv, Shape
<1>3. OneNack(q)
  BY OneNackFirst
<1> HIDE DEF q
<1>4. \A x \in Nodes : (\A y \in Range(hi[x]) : IsReply(y)) /\ OneNack(hi[x])
  BY DEF Course, Sender
<1> QED BY <1>1, <1>2, <1>3, <1>4

\* An end mark that finds nothing new complete: at most the reply queue changes.
LEMMA OnEndAnswers ==
  ASSUME Inv, Course, NEW n \in Nodes, NEW o, Follows(o), out' = o,
         UNCHANGED <<bulk, tx, verdict, rx, last, written, lives>>,
         \A x \in Nodes : (\A r \in Range(hi'[x]) : IsReply(r)) /\ OneNack(hi'[x])
  PROVE  Course'
<1> DEFINE m == Peer(n)
<1>1. m \in Nodes /\ rx = [x \in Nodes |-> rx[x]] /\ Receiver(m)
  BY PeerIsNode DEF Course
<1>2. Archive' /\ Receiver(m)'
  BY <1>1 DEF Course, Archive, Receiver, Known
<1>3. Order(n)' /\ WrittenOnce' /\ WrittenOf(m)' = WrittenOf(m)
  BY OrderStays
<1> QED BY <1>1, <1>2, <1>3, ReceiverCourse

\* What is complete is written for the first time in this life, and becomes the
\* last file, of which nothing more than a repetition can come.
LEMMA OnEndCompletes ==
  ASSUME Inv, Course, NEW n \in Nodes, NEW o, Follows(o), out' = o,
         UNCHANGED <<bulk, tx, verdict, lives>>,
         \A x \in Nodes : (\A y \in Range(hi'[x]) : IsReply(y)) /\ OneNack(hi'[x]),
         rx[Peer(n)] # Nobody, rx' = [rx EXCEPT ![Peer(n)] = Nobody],
         NEW l, last' = [last EXCEPT ![Peer(n)] = l], l # Nobody,
         l.file = rx[Peer(n)].file, IsReply(l.reply), l.reply.kind = "done",
         NEW w, written' = Append(written, w),
         w.file = rx[Peer(n)].file, w.life = lives[Peer(n)]
  PROVE  Course'
<1> DEFINE m == Peer(n)
           R == rx[m].file
           L == last[m].file
           W == WrittenOf(n)
           t == tx[n].file
<1>1. m \in Nodes /\ Peer(m) = n /\ n # m
  BY PeerIsNode, PeerOfPeer
<1>2. Known(R, n) /\ R \in Files /\ Origin[R] = n
  BY <1>1 DEF Course, Receiver, Known
<1>3. /\ rx' = [x \in Nodes |-> rx'[x]] /\ rx'[m] = Nobody /\ last'[m] = l
      /\ \A x \in Nodes \ {m} : rx'[x] = rx[x] /\ last'[x] = last[x]
  BY <1>1 DEF Course, Inv, Shape
<1>4. Receiver(m)'
  BY <1>1, <1>2, <1>3 DEF Receiver, Known
<1>5. IsSeq(written)' /\ Range(written)' = Range(written) \cup {w}
  <2>1. IsSeq(Append(written, w)) /\ Range(Append(written, w)) = Range(written) \cup {w}
    BY AppendMembers DEF Inv, Shape
  <2> QED BY <2>1 DEF IsSeq, Range
<1>6. lives \in [Nodes -> Nat] /\ lives[m] \in Nat
  BY <1>1 DEF Course, Archive
<1>7. w.file = R /\ w.life = lives[m]
  OBVIOUS
<1> HIDE DEF m, R, L, W, t
<1>8. Archive'
  <2>1. \A x \in Range(written) \cup {w} :
          /\ Known(x.file, Origin[x.file])
          /\ x.life \in Nat /\ x.life <= lives[Peer(Origin[x.file])]
    <3>1. Peer(n) = m
      BY DEF m
    <3> QED BY <1>2, <1>6, <1>7, <3>1 DEF Course, Archive
  <2> QED BY <1>5, <1>6, <2>1 DEF Archive, Known
<1>9. WrittenOf(n)' = W \cup {R}
  <2>1. \A f \in Files : f \in WrittenOf(n)' <=> f \in W \/ f = R
    <3>1. Peer(n) = m
      BY DEF m
    <3> QED BY <1>2, <1>5, <1>7, <3>1 DEF WrittenOf, W
  <2>2. WrittenOf(n)' \subseteq Files /\ W \subseteq Files
    BY DEF WrittenOf, W
  <2> QED BY <1>2, <2>1, <2>2
<1>10. WrittenOf(m)' = WrittenOf(m)
  <2>1. \A f \in Files : f \in WrittenOf(m)' <=> f \in WrittenOf(m)
    BY <1>1, <1>2, <1>5, <1>7 DEF WrittenOf
  <2>2. WrittenOf(m)' \subseteq Files /\ WrittenOf(m) \subseteq Files
    BY DEF WrittenOf
  <2> QED BY <2>1, <2>2
<1>11. InOrderOf(o[n], t, R, L, W)
  <2>1. Narrows(out[n], o[n]) /\ (t = tx[n].file \/ t = "none")
    BY DEF Follows, t
  <2> QED BY <2>1, NarrowsOrder DEF R, L, W, m
<1>12. Order(n)'
  <2>1. W \in SUBSET Files
    BY DEF WrittenOf, W
  <2>2. InOrderOf(o[n], t, "none", R, W \cup {R})
    BY <1>2, <1>11, <2>1, OrderCompletes
  <2>3. rx'[m].file = "none" /\ last'[m].file = R
    BY <1>3 DEF Nobody, R, m
  <2> QED BY <1>9, <2>2, <2>3 DEF Order, t, m
<1>13. WrittenOnce'
  <2> DEFINE N == Len(written) + 1
  <2>1. /\ Len(written) \in Nat /\ DOMAIN written = 1..Len(written)
        /\ Len(written') = N /\ DOMAIN written' = 1..N
        /\ \A i \in 1..Len(written) : written'[i] = written[i]
        /\ written'[N] = w
    <3> DEFINE S == Range(written) \cup {w}
    <3>1. written \in Seq(S) /\ w \in S
      BY SeqMonotonic DEF Inv, Shape, IsSeq
    <3> HIDE DEF S
    <3> QED BY <3>1, AppendProperties, LenProperties
  <2>2. \A i \in DOMAIN written' : i \in DOMAIN written \/ (i = N /\ written'[i] = w)
    BY <2>1
  <2>3. \A i \in DOMAIN written : written'[i] = written[i]
    BY <2>1
  <2> HIDE DEF N
  <2>4. R \notin W
    BY <1>2, <1>11 DEF InOrderOf
  <2>5. \A i \in DOMAIN written :
          written[i].file # w.file \/ written[i].life # w.life
    <3>1. \A i \in DOMAIN written : written[i] \in Range(written)
      BY DEF Range
    <3> QED BY <1>2, <1>7, <2>4, <3>1 DEF WrittenOf, W, m
  <2>6. ASSUME NEW i \in DOMAIN written', NEW j \in DOMAIN written', i # j
        PROVE  \/ written'[i].file # written'[j].file
               \/ written'[i].life # written'[j].life
    <3>1. CASE i \in DOMAIN written /\ j \in DOMAIN written
      <4>1. written[i].file # written[j].file \/ written[i].life # written[j].life
        BY <2>6, <3>1 DEF Course, WrittenOnce
      <4> QED BY <2>3, <3>1, <4>1
    <3>2. CASE i \in DOMAIN written /\ written'[j] = w
      BY <2>3, <2>5, <3>2
    <3>3. CASE j \in DOMAIN written /\ written'[i] = w
      BY <2>3, <2>5, <3>3
    <3> QED BY <2>2, <2>6, <3>1, <3>2, <3>3
  <2> QED BY <2>6 DEF WrittenOnce
<1> QED BY <1>3, <1>4, <1>8, <1>10, <1>12, <1>13, ReceiverCourse DEF m

\* The end mark.
LEMMA OnEndCourse ==
  ASSUME Inv, Course, NEW n \in Nodes, NEW k, NEW o, HandsUp(n, k, o),
         OnEnd(Peer(n), out[n][k].item, o), UNCHANGED lives
  PROVE  Course'
<1> DEFINE item  == out[n][k].item
           m     == Peer(n)
           want  == FileData(item.file)
           got   == rx[m].frags
           reply == Done(got = want, got)
<1>1. /\ out' = o /\ UNCHANGED <<bulk, tx, verdict>> /\ Follows(o)
  BY DEF OnEnd, HandsUp
<1>2. /\ m \in Nodes /\ IsSeq(hi[m]) /\ Receiver(m)
      /\ (\A r \in Range(hi[m]) : IsReply(r)) /\ OneNack(hi[m])
  BY PeerIsNode DEF Inv, Shape, Course, Sender
<1>3. \/ /\ rx[m] = Nobody
         /\ hi' = IF last[m] # Nobody /\ last[m].want = want
                  THEN [hi EXCEPT ![m] = <<last[m].reply>> \o @] ELSE hi
         /\ UNCHANGED <<rx, last, written>>
      \/ /\ rx[m] # Nobody /\ Missing(m) # {}
         /\ hi' = [hi EXCEPT ![m] = <<Nack(Asked(m))>> \o WithoutNack(@)]
         /\ UNCHANGED <<rx, last, written>>
      \/ /\ rx[m] # Nobody
         /\ rx' = [rx EXCEPT ![m] = Nobody]
         /\ last' = [last EXCEPT ![m] =
                       [file |-> rx[m].file, want |-> want, reply |-> reply]]
         /\ hi' = [hi EXCEPT ![m] = <<reply>> \o @]
         /\ written' = Append(written, [file |-> rx[m].file, data |-> got,
                                        life |-> lives[m]])
  BY Zenon DEF OnEnd
<1> HIDE DEF item, m, want
<1>4. CASE hi' = hi /\ UNCHANGED <<rx, last, written>>
  BY <1>1, <1>4, RepliesStay, OnEndAnswers
<1>5. CASE /\ last[m] # Nobody
           /\ hi' = [hi EXCEPT ![m] = <<last[m].reply>> \o hi[m]]
           /\ UNCHANGED <<rx, last, written>>
  <2>1. IsReply(last[m].reply) /\ last[m].reply.kind # "nack"
    BY <1>2, <1>5 DEF Receiver
  <2>2. \A x \in Nodes : (\A r \in Range(hi'[x]) : IsReply(r)) /\ OneNack(hi'[x])
    BY <1>2, <1>5, <2>1, RepliesFirst
  <2> QED BY <1>1, <1>5, <2>2, OnEndAnswers
<1>6. CASE /\ rx[m] # Nobody /\ Missing(m) # {}
           /\ hi' = [hi EXCEPT ![m] = <<Nack(Asked(m))>> \o WithoutNack(hi[m])]
           /\ UNCHANGED <<rx, last, written>>
  <2> DEFINE p == WithoutNack(hi[m])
             r == Nack(Asked(m))
  <2>1. rx[m].file \in Files
    BY <1>2, <1>6 DEF Receiver, Known
  <2>2. IsReply(r)
    BY <1>2, <1>6, <2>1, AskedIsReply
  <2>3. /\ IsSeq(p) /\ Range(p) \subseteq Range(hi[m])
        /\ \A x \in Range(p) : x.kind # "nack"
    BY <1>2, WithoutNackMembers, WithoutNackNone
  <2>4. hi' = [hi EXCEPT ![m] = <<r>> \o p]
    BY <1>6
  <2> HIDE DEF p, r
  <2>5. OneNack(p)
    BY <2>3 DEF OneNack, Range
  <2>6. \A x \in Nodes : (\A y \in Range(hi'[x]) : IsReply(y)) /\ OneNack(hi'[x])
    BY <1>2, <2>2, <2>3, <2>4, <2>5, RepliesFirst
  <2> QED BY <1>1, <1>6, <2>6, OnEndAnswers
<1>7. CASE /\ rx[m] # Nobody
           /\ rx' = [rx EXCEPT ![m] = Nobody]
           /\ last' = [last EXCEPT ![m] =
                         [file |-> rx[m].file, want |-> want, reply |-> reply]]
           /\ hi' = [hi EXCEPT ![m] = <<reply>> \o hi[m]]
           /\ written' = Append(written, [file |-> rx[m].file, data |-> got,
                                          life |-> lives[m]])
  <2>1. IsReply(reply) /\ reply.kind = "done"
    <3> HIDE DEF got
    <3> QED BY DEF Done, IsReply
  <2> HIDE DEF got, reply
  <2>2. PICK l, w : /\ l = [file |-> rx[m].file, want |-> want, reply |-> reply]
                    /\ w = [file |-> rx[m].file, data |-> got, life |-> lives[m]]
    OBVIOUS
  <2>3. /\ l.file = rx[m].file /\ l.reply = reply
        /\ w.file = rx[m].file /\ w.life = lives[m]
    BY <2>2
  <2>4. l # Nobody
    <3>1. rx[m].file # "none"
      BY <1>2, <1>7, NoneAssumption DEF Receiver, Known
    <3> QED BY <2>3, <3>1 DEF Nobody
  <2>5. \A x \in Nodes : (\A y \in Range(hi'[x]) : IsReply(y)) /\ OneNack(hi'[x])
    BY <1>2, <1>7, <2>1, RepliesFirst
  <2>6. last' = [last EXCEPT ![m] = l] /\ written' = Append(written, w)
    BY <1>7, <2>2
  <2>7. /\ rx[Peer(n)] # Nobody /\ rx' = [rx EXCEPT ![Peer(n)] = Nobody]
        /\ last' = [last EXCEPT ![Peer(n)] = l]
        /\ l.file = rx[Peer(n)].file /\ IsReply(l.reply) /\ l.reply.kind = "done"
        /\ w.file = rx[Peer(n)].file /\ w.life = lives[Peer(n)]
    BY <1>7, <2>1, <2>3, <2>6 DEF m
  <2> QED BY <1>1, <2>4, <2>5, <2>6, <2>7, OnEndCompletes
<1> HIDE DEF got, reply
<1> QED BY <1>3, <1>4, <1>5, <1>6, <1>7

\* The transfer ends, with a purge.
LEMMA EndedCourse ==
  ASSUME Inv, Course, NEW o, Follows(o), NEW n \in Nodes, tx[n] # Nobody,
         NEW how, how # "unsent", Ends(n, how), Purge(n, o, << >>),
         UNCHANGED <<hi, rx, last, written, lives>>
  PROVE  Course'
<1>1. /\ \A m \in Nodes : Narrows(out[m], out'[m])
      /\ \A m \in Nodes : bulk'[m] = IF m = n THEN << >> ELSE bulk[m]
  BY PurgeFollows
<1>2. \A m \in Nodes : Range(bulk'[m]) \subseteq Items
  BY <1>1, EmptyMembers DEF Course, Sender
<1>3. Begun /\ \A m \in Nodes : tx'[m] = IF m = n THEN Nobody ELSE tx[m]
  BY EndsCourse
<1> QED BY <1>1, <1>2, <1>3, NarrowCourse

\* A NACK: the fragments it names are queued again, behind what is queued.
LEMMA OnNackCourse ==
  ASSUME Inv, Course, NEW o, Follows(o), NEW m \in Nodes, NEW item,
         OnNack(m, item, o), UNCHANGED lives
  PROVE  Course'
<1> DEFINE again == IF tx[m] = Nobody THEN {}
                    ELSE item.missing \cap Indices(tx[m].file)
<1>1. /\ UNCHANGED <<hi, rx, last, written>>
      /\ IF again = {} THEN out' = o /\ UNCHANGED <<bulk, tx, verdict>>
         ELSE IF LastRound(m) THEN Ends(m, "failed") /\ Purge(m, o, << >>)
         ELSE /\ NextRound(m)
              /\ bulk' = [bulk EXCEPT ![m] = @ \o Fragments(tx[m].file, again)
                                              \o <<EndMark(tx[m].file)>>]
              /\ out' = o
  BY Zenon DEF OnNack
<1>2. again # {} => tx[m] # Nobody /\ again \in SUBSET Indices(tx[m].file)
  OBVIOUS
<1> HIDE DEF again
<1>3. \A x \in Nodes : IsSeq(bulk[x]) /\ Range(bulk[x]) \subseteq Items
  BY DEF Inv, Shape, Course, Sender
<1>4. CASE out' = o /\ UNCHANGED <<bulk, tx, verdict>>
  BY <1>1, <1>3, <1>4, NarrowCourse DEF Follows, Begun
<1>5. CASE tx[m] # Nobody /\ Ends(m, "failed") /\ Purge(m, o, << >>)
  BY <1>1, <1>5, EndedCourse
<1>6. CASE /\ again # {} /\ ~LastRound(m) /\ NextRound(m) /\ out' = o
           /\ bulk' = [bulk EXCEPT ![m] = (bulk[m] \o Fragments(tx[m].file, again))
                                           \o <<EndMark(tx[m].file)>>]
  <2> DEFINE f == tx[m].file
             d == Fragments(f, again)
             e == <<EndMark(f)>>
  <2>1. f \in Files
    BY <1>2, <1>6 DEF Course, Sender, Known
  <2>2. /\ IsSeq(d) /\ Range(d) \subseteq Items
        /\ IsSeq(e) /\ Range(e) \subseteq Items
    BY <1>2, <1>6, <2>1, FragmentItems, FileItems, FilesItems
  <2>3. bulk' = [bulk EXCEPT ![m] = (bulk[m] \o d) \o e]
    BY <1>6
  <2> HIDE DEF d, e
  <2>4. IsSeq(bulk[m] \o d) /\ Range(bulk[m] \o d) \subseteq Items
    BY <1>3, <2>2, ConcatMembers
  <2> DEFINE q == (bulk[m] \o d) \o e
  <2>5. Range(q) \subseteq Items
    BY <2>2, <2>4, ConcatMembers
  <2>6. bulk' = [bulk EXCEPT ![m] = q]
    BY <2>3
  <2> HIDE DEF q, f
  <2>7. \A x \in Nodes : Range(bulk'[x]) \subseteq Items
    BY <1>3, <2>5, <2>6 DEF Inv, Shape
  <2>8. /\ Begun /\ \A x \in Nodes \ {m} : tx'[x] = tx[x]
        /\ tx'[m].file = tx[m].file /\ tx'[m].round \in 1..MaxRounds
    BY <1>2, <1>6, RoundCourse
  <2> QED BY <1>1, <1>2, <1>6, <2>7, <2>8, NarrowCourse DEF Follows
<1> QED BY <1>1, <1>2, <1>4, <1>5, <1>6

\* A verdict.
LEMMA OnDoneCourse ==
  ASSUME Inv, Course, NEW o, Follows(o), NEW m \in Nodes, NEW item,
         OnDone(m, item, o), UNCHANGED lives
  PROVE  Course'
<1>1. UNCHANGED <<hi, rx, last, written>>
  BY DEF OnDone
<1>2. CASE out' = o /\ UNCHANGED <<bulk, tx, verdict>>
  <2>1. \A x \in Nodes : Range(bulk[x]) \subseteq Items
    BY DEF Course, Sender
  <2> QED BY <1>1, <1>2, <2>1, NarrowCourse DEF Follows, Begun
<1>3. CASE /\ tx[m] # Nobody
           /\ Ends(m, IF item.ok THEN "ok" ELSE "failed") /\ Purge(m, o, << >>)
  <2> DEFINE how == IF item.ok THEN "ok" ELSE "failed"
  <2>1. how # "unsent" /\ Ends(m, how)
    BY <1>3
  <2> HIDE DEF how
  <2> QED BY <1>1, <1>3, <2>1, EndedCourse
<1> QED BY <1>2, <1>3 DEF OnDone

\* Whatever is handed up.
LEMMA DeliverCourse ==
  ASSUME Inv, Course, NEW n \in Nodes, NEW k, Deliver(n, k)
  PROVE  Course'
<1> DEFINE item == out[n][k].item
           o == [out EXCEPT ![n] = HandedUp(out[n], k)]
           m == Peer(n)
<1>1. /\ \/ OnStart(m, item, o) \/ OnData(m, item, o) \/ OnEnd(m, item, o)
         \/ OnNack(m, item, o)  \/ OnDone(m, item, o)
      /\ lives' = lives
  BY DEF Deliver
<1>2. HandsUp(n, k, o)
  BY DeliverHands
<1> HIDE DEF o
<1>3. m \in Nodes /\ Follows(o)
  BY <1>2, PeerIsNode DEF HandsUp
<1>4. CASE OnStart(m, item, o)
  BY <1>1, <1>2, <1>4, OnStartCourse
<1>5. CASE OnData(m, item, o)
  BY <1>1, <1>2, <1>5, OnDataCourse
<1>6. CASE OnEnd(m, item, o)
  BY <1>1, <1>2, <1>6, OnEndCourse
<1>7. CASE OnNack(m, item, o)
  <2> HIDE DEF item, m
  <2> QED BY <1>1, <1>3, <1>7, OnNackCourse
<1>8. CASE OnDone(m, item, o)
  <2> HIDE DEF item, m
  <2> QED BY <1>1, <1>3, <1>8, OnDoneCourse
<1> QED BY <1>1, <1>4, <1>5, <1>6, <1>7, <1>8

----------------------------------------------------------------------------
\* A node that starts again has nothing of its own, and its peer has forgotten
\* what it received of it; what it wrote before counts for its former life.
LEMMA RestartOrder ==
  ASSUME Inv, Course, NEW n \in Nodes, Restart(n), NEW m \in Nodes
  PROVE  Order(m)'
<1>1. /\ lives' = [lives EXCEPT ![n] = @ + 1]
      /\ out' = [x \in Nodes |-> IF x = n THEN << >> ELSE Forgotten(out[x])]
      /\ tx' = [tx EXCEPT ![n] = Nobody] /\ rx' = [x \in Nodes |-> Nobody]
      /\ last' = [last EXCEPT ![n] = Nobody] /\ written' = written
  BY DEF Restart
<1>2. rx'[Peer(m)].file = "none" /\ "none" \notin Files
  BY <1>1, PeerIsNode, NoneAssumption DEF Nobody
<1>3. CASE m = n
  <2>1. out'[n] = << >> /\ tx'[n].file = "none"
    BY <1>1 DEF Inv, Shape, Nobody
  <2>2. Bulk(out'[n]) = {} /\ Yet(out'[n]) = {}
    <3> HIDE DEF Bulk
    <3>1. Bulk(<< >>) = {}
      BY DEF Bulk
    <3> QED BY <2>1, <3>1 DEF Yet
  <2>3. WrittenOf(n)' \subseteq Files
    BY DEF WrittenOf
  <2>4. \A R, L, W : R \notin Files /\ W \subseteq Files
          => InOrderOf(out'[n], tx'[n].file, R, L, W)
    BY <1>2, <2>1, <2>2 DEF InOrderOf, Grouped, First, Over
  <2>5. InOrderOf(out'[n], tx'[n].file, rx'[Peer(n)].file, last'[Peer(n)].file,
                  WrittenOf(n)')
    BY <1>2, <1>3, <2>3, <2>4
  <2> QED BY <1>3, <2>5 DEF Order
<1>4. CASE m # n
  <2>1. Peer(m) = n
    BY <1>4, PeerOfPeer
  <2>2. out'[m] = Forgotten(out[m]) /\ tx'[m] = tx[m] /\ last'[n].file = "none"
    BY <1>1, <1>4 DEF Inv, Shape, Nobody
  <2>3. Grouped(out'[m], tx'[m].file)
    BY <2>2, ForgottenGroups DEF Inv, Shape, Course, Order, InOrderOf
  <2>4. WrittenOf(m)' = {}
    <3>1. \A w \in Range(written) : w.file \in Files /\ Origin[w.file] = m
            => w.life \in Nat /\ w.life <= lives[n]
      BY <2>1 DEF Course, Archive
    <3>2. lives[n] \in Nat /\ lives'[n] = lives[n] + 1
      BY <1>1 DEF Course, Archive
    <3>3. \A w \in Range(written) : w.file \in Files /\ Origin[w.file] = m
            => w.life # lives'[n]
      BY <3>1, <3>2
    <3> QED BY <1>1, <2>1, <3>3 DEF WrittenOf
  <2>5. InOrderOf(out'[m], tx'[m].file, rx'[Peer(m)].file, last'[Peer(m)].file,
                  WrittenOf(m)')
    BY <1>2, <2>1, <2>2, <2>3, <2>4 DEF InOrderOf
  <2> QED BY <2>5 DEF Order
<1> QED BY <1>3, <1>4

LEMMA RestartCourse ==
  ASSUME Inv, Course, NEW n \in Nodes, Restart(n)
  PROVE  Course'
<1>1. /\ lives' = [lives EXCEPT ![n] = @ + 1]
      /\ hi' = [hi EXCEPT ![n] = << >>] /\ bulk' = [bulk EXCEPT ![n] = << >>]
      /\ out' = [x \in Nodes |-> IF x = n THEN << >> ELSE Forgotten(out[x])]
      /\ tx' = [tx EXCEPT ![n] = Nobody] /\ rx' = [x \in Nodes |-> Nobody]
      /\ last' = [last EXCEPT ![n] = Nobody] /\ written' = written
      /\ verdict' = [f \in Files |-> IF f = tx[n].file THEN "forgotten"
                                     ELSE verdict[f]]
  BY DEF Restart
<1>2. Begun
  BY <1>1 DEF Begun
<1>3. /\ \A f, x : Known(f, x) => Known(f, x)'
      /\ \A e, x : Carried(e, x) => Carried(e, x)'
  BY <1>2, BegunKeeps
<1>4. ASSUME NEW x \in Nodes
      PROVE  Sender(x)'
  <2>1. CASE x = n
    <3>1. hi'[x] = << >> /\ bulk'[x] = << >> /\ out'[x] = << >> /\ tx'[x] = Nobody
      BY <1>1, <2>1 DEF Inv, Shape
    <3>2. Range(hi'[x]) = {} /\ Range(bulk'[x]) = {} /\ Range(out'[x]) = {}
      BY <3>1, EmptyMembers
    <3>3. OneNack(hi'[x])
      BY <3>1 DEF OneNack
    <3> QED BY <3>1, <3>2, <3>3 DEF Sender, OneNack
  <2>2. CASE x # n
    <3>1. /\ hi'[x] = hi[x] /\ bulk'[x] = bulk[x] /\ tx'[x] = tx[x]
          /\ out'[x] = Forgotten(out[x])
      BY <1>1, <2>2 DEF Inv, Shape
    <3>2. Grouped(out[x], tx[x].file) /\ IsWindow(out[x])
      BY DEF Inv, Shape, Course, Order, InOrderOf
    <3>3. \A e \in Range(out'[x]) : \E d \in Range(out[x]) :
            e.item = d.item /\ e.bulk = d.bulk
      BY <3>1, <3>2, ForgottenGroups DEF Keeps
    <3>4. \A e \in Range(out'[x]) : Carried(e, x)'
      <4>1. \A d \in Range(out[x]) : Carried(d, x)
        BY DEF Course, Sender
      <4>2. \A e, d : e.item = d.item /\ e.bulk = d.bulk /\ Carried(d, x) => Carried(e, x)
        BY DEF Carried
      <4> QED BY <1>3, <3>3, <4>1, <4>2
    <3>5. (tx[x] # Nobody => Known(tx[x].file, x) /\ tx[x].round \in 1..MaxRounds)'
      BY <1>3, <3>1 DEF Course, Sender
    <3>6. /\ \A r \in Range(hi[x])' : IsReply(r)
          /\ OneNack(hi[x])' /\ Range(bulk[x])' \subseteq Items
      BY <3>1 DEF Course, Sender, OneNack
    <3> QED BY <3>4, <3>5, <3>6 DEF Sender
  <2> QED BY <2>1, <2>2
<1>5. ASSUME NEW x \in Nodes
      PROVE  Receiver(x)'
  <2>1. rx'[x] = Nobody /\ (last'[x] = Nobody \/ last'[x] = last[x])
    BY <1>1 DEF Inv, Shape
  <2> QED BY <1>3, <2>1 DEF Course, Receiver
<1>6. Archive'
  <2>1. lives \in [Nodes -> Nat]
    BY DEF Course, Archive
  <2>2. lives' \in [Nodes -> Nat] /\ \A x \in Nodes : lives[x] <= lives'[x]
    BY <1>1, <2>1
  <2>3. ASSUME NEW w \in Range(written)
        PROVE  Known(w.file, Origin[w.file])' /\ w.life \in Nat
               /\ w.life <= lives'[Peer(Origin[w.file])]
    <3>1. /\ Known(w.file, Origin[w.file]) /\ w.life \in Nat
          /\ w.life <= lives[Peer(Origin[w.file])]
      BY DEF Course, Archive
    <3>2. Peer(Origin[w.file]) \in Nodes
      BY <3>1, FilesAssumption, PeerIsNode DEF Known
    <3>3. \A a, b, c \in Nat : a <= b /\ b <= c => a <= c
      OBVIOUS
    <3>4. w.life <= lives'[Peer(Origin[w.file])]
      BY <2>1, <2>2, <3>1, <3>2, <3>3
    <3> QED BY <1>3, <3>1, <3>4
  <2> QED BY <1>1, <2>2, <2>3 DEF Archive
<1>7. rx' = [x \in Nodes |-> rx'[x]] /\ WrittenOnce'
  BY <1>1 DEF Course, WrittenOnce
<1> QED BY <1>4, <1>5, <1>6, <1>7, RestartOrder DEF Course

----------------------------------------------------------------------------
\* At the start no transfer has begun.
LEMMA InitCourse == Init => Course
<1> SUFFICES ASSUME Init PROVE Course
  OBVIOUS
<1>1. /\ hi = [n \in Nodes |-> << >>] /\ bulk = [n \in Nodes |-> << >>]
      /\ out = [n \in Nodes |-> << >>] /\ tx = [n \in Nodes |-> Nobody]
      /\ rx = [n \in Nodes |-> Nobody] /\ last = [n \in Nodes |-> Nobody]
      /\ written = << >> /\ lives = [n \in Nodes |-> 1]
  BY DEF Init
<1>2. Range(<< >>) = {} /\ OneNack(<< >>) /\ Bulk(<< >>) = {} /\ Yet(<< >>) = {}
  BY EmptyMembers DEF OneNack, Bulk, Yet
<1>3. \A n \in Nodes : Sender(n) /\ Receiver(n)
  BY <1>1, <1>2 DEF Sender, Receiver
<1>4. ASSUME NEW n \in Nodes
      PROVE  Order(n)
  <2>1. Peer(n) \in Nodes
    BY PeerIsNode
  <2>2. /\ out[n] = << >> /\ tx[n].file = "none"
        /\ rx[Peer(n)].file = "none" /\ last[Peer(n)].file = "none"
    BY <1>1, <2>1 DEF Nobody
  <2>3. WrittenOf(n) = {}
    BY <1>1, <1>2 DEF WrittenOf
  <2>4. InOrderOf(<< >>, "none", "none", "none", {})
    BY <1>2, NoneAssumption DEF InOrderOf, Grouped
  <2> QED BY <2>2, <2>3, <2>4 DEF Order
<1>5. Archive /\ WrittenOnce
  BY <1>1, <1>2 DEF Archive, WrittenOnce
<1> QED BY <1>1, <1>3, <1>4, <1>5 DEF Course

\* No step breaks the second invariant.
LEMMA NextCourse == Inv /\ Course /\ [Next]_vars => Course'
<1> SUFFICES ASSUME Inv, Course, [Next]_vars PROVE Course'
  OBVIOUS
<1>1. CASE UNCHANGED vars
  <2>1. /\ UNCHANGED <<hi, rx, last, written, lives>> /\ tx' = tx /\ Begun
        /\ \A m \in Nodes : /\ Narrows(out[m], out'[m])
                            /\ Range(bulk'[m]) \subseteq Items
    BY <1>1, NarrowsSelf DEF vars, Begun, Inv, Shape, Course, Sender
  <2> QED BY <2>1, NarrowCourse
<1>2. ASSUME NEW n \in Nodes, NEW f \in Files, SendFile(n, f) PROVE Course'
  BY <1>2, SendFileCourse
<1>3. ASSUME NEW n \in Nodes, Pump(n) PROVE Course'
  BY <1>3, PumpCourse
<1>4. ASSUME NEW n \in Nodes, NEW k, Ack(n, k) PROVE Course'
  BY <1>4, AckCourse
<1>5. ASSUME NEW n \in Nodes, NEW k, GiveUp(n, k) PROVE Course'
  BY <1>5, GiveUpCourse
<1>6. ASSUME NEW n \in Nodes, NEW k, Deliver(n, k) PROVE Course'
  BY <1>6, DeliverCourse
<1>7. ASSUME NEW n \in Nodes, Wait(n) PROVE Course'
  BY <1>7, WaitCourse DEF Wait, AllSent
<1>8. ASSUME NEW n \in Nodes, Expire(n) PROVE Course'
  BY <1>8, ExpireCourse
<1>9. ASSUME NEW n \in Nodes, NoSession(n) PROVE Course'
  BY <1>9, WaitCourse DEF NoSession
<1>10. ASSUME NEW n \in Nodes, Restart(n) PROVE Course'
  BY <1>10, RestartCourse
<1> QED
  BY <1>1, <1>2, <1>3, <1>4, <1>5, <1>6, <1>7, <1>8, <1>9, <1>10 DEF Next

----------------------------------------------------------------------------
\* The second invariant holds always: a sender's files go through one after the
\* other, and so they do at its receiver.
THEOREM InOrderAlways == Spec => []Course
<1>1. Init => Inv /\ Course
  BY InitInv, InitCourse
<1>2. (Inv /\ Course) /\ [Next]_vars => (Inv /\ Course)'
  BY NextInv, NextCourse
<1> QED BY <1>1, <1>2, PTL DEF Spec

\* One life of a receiver writes a transfer once, although restarts of the
\* transfer repeat its header and rounds its end mark (_deliver, _finish_file).
THEOREM OnceWritten == Spec => []WrittenOnce
<1>1. Course => WrittenOnce
  BY DEF Course
<1> QED BY <1>1, InOrderAlways, PTL

\* A queue with one NACK at most, counted.
LEMMA OneNackCounted ==
  ASSUME NEW q, OneNack(q)
  PROVE  Cardinality({i \in DOMAIN q : q[i].kind = "nack"}) <= 1
<1> DEFINE S == {i \in DOMAIN q : q[i].kind = "nack"}
<1>1. CASE S = {}
  <2>1. Cardinality({}) = 0
    BY FS_EmptySet
  <2> HIDE DEF S
  <2>2. Cardinality(S) <= 1
    BY <1>1, <2>1
  <2> QED BY <2>2 DEF S
<1>2. CASE S # {}
  <2>1. PICK i : i \in S
    BY <1>2
  <2>2. S = {i}
    BY <2>1 DEF OneNack
  <2>3. Cardinality({i}) = 1
    BY FS_Singleton
  <2> HIDE DEF S
  <2>4. Cardinality(S) <= 1
    BY <2>2, <2>3
  <2> QED BY <2>4 DEF S
<1> QED BY <1>1, <1>2

\* Every variable has its kind of value; no transfer exceeds its rounds, and at
\* most one NACK waits in a queue (_on_nack, _restart_file, _finish_file).
THEOREM TypeCorrect == Spec => []TypeOK
<1>1. Inv /\ Course => TypeOK
  <2> SUFFICES ASSUME Inv, Course, NEW n \in Nodes
               PROVE  /\ \A i \in DOMAIN hi[n] : IsReply(hi[n][i])
                      /\ Cardinality({i \in DOMAIN hi[n] : hi[n][i].kind = "nack"}) <= 1
                      /\ \A i \in DOMAIN bulk[n] : bulk[n][i] \in Items
                      /\ \A k \in DOMAIN out[n] :
                           /\ out[n][k].state \in States
                           /\ out[n][k].bulk => out[n][k].item \in Items
                           /\ ~out[n][k].bulk => IsReply(out[n][k].item)
                      /\ tx[n] # Nobody =>
                           /\ tx[n].file \in Files /\ Origin[tx[n].file] = n
                           /\ tx[n].round \in 1..MaxRounds
                           /\ tx[n].waiting \in BOOLEAN
                      /\ rx[n] # Nobody =>
                           /\ rx[n].file \in Files
                           /\ DOMAIN rx[n].frags \subseteq Indices(rx[n].file)
                      /\ last[n] # Nobody => last[n].file \in Files
    BY DEF TypeOK, States
  <2>1. \A i \in DOMAIN hi[n] : IsReply(hi[n][i])
    BY DEF Course, Sender, Range
  <2>2. Cardinality({i \in DOMAIN hi[n] : hi[n][i].kind = "nack"}) <= 1
    BY OneNackCounted DEF Course, Sender
  <2>3. \A i \in DOMAIN bulk[n] : bulk[n][i] \in Items
    BY DEF Course, Sender, Range
  <2>4. \A k \in DOMAIN out[n] : out[n][k].state \in States
    BY WindowMembers DEF Inv, Shape, IsEntry
  <2>5. \A k \in DOMAIN out[n] : /\ out[n][k].bulk => out[n][k].item \in Items
                                 /\ ~out[n][k].bulk => IsReply(out[n][k].item)
    BY BulkKnown DEF Carried
  <2>6. tx[n] # Nobody => /\ tx[n].file \in Files /\ Origin[tx[n].file] = n
                          /\ tx[n].round \in 1..MaxRounds
                          /\ tx[n].waiting \in BOOLEAN
    BY DEF Inv, Shape, Transfer, Course, Sender, Known
  <2>7. /\ rx[n] # Nobody => /\ rx[n].file \in Files
                             /\ DOMAIN rx[n].frags \subseteq Indices(rx[n].file)
        /\ last[n] # Nobody => last[n].file \in Files
    BY DEF Course, Receiver, Known
  <2> QED BY <2>1, <2>2, <2>3, <2>4, <2>5, <2>6, <2>7
<1> QED BY <1>1, Invariant, InOrderAlways, PTL

----------------------------------------------------------------------------
(***************************************************************************)
(* The verdicts a node owes.  Steps are compared by an injection from the  *)
(* places of the verdicts before to those after, or the other way round.   *)
(***************************************************************************)
\* Verdicts of a window that were given up.
LostVerdicts(o) == {k \in DOMAIN o : o[k].item.kind = "done" /\ o[k].state = "lost"}

\* A set that can be mapped into a finite one has no more members.
LEMMA Injected ==
  ASSUME NEW S, NEW T, IsFiniteSet(T), NEW g \in [S -> T],
         \A i, j \in S : g[i] = g[j] => i = j
  PROVE  /\ Cardinality(S) \in Nat /\ Cardinality(T) \in Nat
         /\ Cardinality(S) <= Cardinality(T)
<1>1. g \in Injection(S, T)
  BY Fun_IsInj
<1>2. IsFiniteSet(S) /\ Cardinality(S) <= Cardinality(T)
  BY <1>1, FS_Injection
<1> QED BY <1>2, FS_CardinalityType

\* Places of a sequence are finitely many.
LEMMA PlacesFinite ==
  ASSUME NEW q, IsSeq(q), NEW S \in SUBSET DOMAIN q
  PROVE  IsFiniteSet(S) /\ Cardinality(S) \in Nat /\ S \subseteq Nat
<1>1. Len(q) \in Nat /\ DOMAIN q = 1..Len(q)
  BY LenProperties DEF IsSeq
<1>2. IsFiniteSet(1..Len(q)) /\ 1..Len(q) \subseteq Nat
  BY <1>1, FS_Interval
<1> QED BY <1>1, <1>2, FS_Subset, FS_CardinalityType

\* A reply put first takes none away.
LEMMA VerdictsFirst ==
  ASSUME NEW p, IsSeq(p), NEW r
  PROVE  /\ Cardinality(Verdicts(p)) \in Nat /\ Cardinality(Verdicts(<<r>> \o p)) \in Nat
         /\ Cardinality(Verdicts(p)) <= Cardinality(Verdicts(<<r>> \o p))
<1> DEFINE q == <<r>> \o p
           g == [i \in Verdicts(p) |-> i + 1]
<1>1. Len(p) \in Nat /\ DOMAIN p = 1..Len(p) /\ \A i \in 1..Len(p) : p[i] \in Range(p)
  BY LenProperties DEF IsSeq, Range
<1>2. /\ DOMAIN q = 1..(1 + Len(p))
      /\ \A i \in 2..(1 + Len(p)) : q[i] = p[i - 1]
  BY <1>1 DEF IsSeq
<1>3. IsSeq(<<r>>) /\ IsSeq(q)
  <2>1. IsSeq(<<r>>)
    BY SingleMember
  <2> DEFINE h == <<r>>
  <2> HIDE DEF h
  <2>2. IsSeq(h \o p)
    BY <2>1, ConcatMembers DEF h
  <2> QED BY <2>1, <2>2 DEF h
<1> HIDE DEF q
<1>4. \A i \in 1..Len(p) : i + 1 \in DOMAIN q /\ q[i + 1] = p[i]
  <2>1. \A i \in 1..Len(p) : i + 1 \in 2..(1 + Len(p)) /\ i + 1 - 1 = i
                             /\ i + 1 \in 1..(1 + Len(p))
    BY <1>1
  <2> QED BY <1>2, <2>1
<1>5. g \in [Verdicts(p) -> Verdicts(q)]
  BY <1>1, <1>4 DEF Verdicts
<1>6. \A i, j \in Verdicts(p) : g[i] = g[j] => i = j
  <2>1. Verdicts(p) \subseteq Nat
    BY <1>1 DEF Verdicts
  <2>2. \A i, j \in Nat : i + 1 = j + 1 => i = j
    OBVIOUS
  <2> QED BY <2>1, <2>2
<1> HIDE DEF g
<1>7. IsFiniteSet(Verdicts(q))
  BY <1>3, PlacesFinite DEF Verdicts
<1>8. /\ Cardinality(Verdicts(p)) \in Nat /\ Cardinality(Verdicts(q)) \in Nat
      /\ Cardinality(Verdicts(p)) <= Cardinality(Verdicts(q))
  BY <1>5, <1>6, <1>7, Injected
<1> QED BY <1>8 DEF q

\* A NACK that is superseded is no verdict.
LEMMA VerdictsWithoutNack ==
  ASSUME NEW q, IsSeq(q)
  PROVE  /\ Cardinality(Verdicts(q)) \in Nat /\ Cardinality(Verdicts(WithoutNack(q))) \in Nat
         /\ Cardinality(Verdicts(q)) <= Cardinality(Verdicts(WithoutNack(q)))
<1> DEFINE w == WithoutNack(q)
<1>1. IsSeq(w)
  BY WithoutNackMembers
<1>2. /\ Cardinality(Verdicts(q)) \in Nat /\ Cardinality(Verdicts(w)) \in Nat
      /\ IsFiniteSet(Verdicts(w))
  BY <1>1, PlacesFinite DEF Verdicts
<1>3. CASE \A i \in DOMAIN q : q[i].kind # "nack"
  <2>1. w = q
    BY <1>3 DEF WithoutNack
  <2> QED BY <1>2, <2>1
<1>4. CASE ~ \A i \in DOMAIN q : q[i].kind # "nack"
  <2> DEFINE p == CHOOSE i \in DOMAIN q : q[i].kind = "nack"
             a == SubSeq(q, 1, p - 1)
             b == SubSeq(q, p + 1, Len(q))
             g == [i \in Verdicts(q) |-> IF i < p THEN i ELSE i - 1]
  <2>1. p \in DOMAIN q /\ q[p].kind = "nack"
    BY <1>4
  <2>2. w = a \o b
    BY <1>4, Zenon DEF WithoutNack
  <2> HIDE DEF p, w
  <2>3. /\ Len(q) \in Nat /\ DOMAIN q = 1..Len(q) /\ p \in 1..Len(q)
        /\ \A i \in 1..Len(q) : q[i] \in Range(q)
    BY <2>1, LenProperties DEF IsSeq
  <2>4. /\ a \in Seq(Range(q)) /\ Len(a) = p - 1
        /\ \A i \in 1..(p - 1) : a[i] = q[i]
    <3>1. /\ p - 1 \in Nat /\ \A i \in 1..(p - 1) : q[i] \in Range(q)
          /\ p - 1 - 1 + 1 = p - 1 /\ (~(1 <= p - 1) => p - 1 = 0)
          /\ \A i \in 1..(p - 1) : 1 + i - 1 = i
      BY <2>3
    <3>2. /\ a \in Seq(Range(q))
          /\ Len(a) = IF 1 <= p - 1 THEN p - 1 - 1 + 1 ELSE 0
          /\ \A i \in 1..(p - 1 - 1 + 1) : a[i] = q[1 + i - 1]
      BY <3>1, SubSeqProperties
    <3> HIDE DEF a
    <3> QED BY <3>1, <3>2
  <2>5. /\ b \in Seq(Range(q)) /\ Len(b) = Len(q) - p
        /\ \A i \in 1..(Len(q) - p) : b[i] = q[p + i]
    <3> DEFINE l == Len(q)
               S == Range(q)
    <3>1. \A n \in Nat : \A x \in 1..n :
            /\ x + 1 \in Nat /\ x + 1 <= n + 1
            /\ \A i \in (x + 1)..n : i \in 1..n
            /\ n - (x + 1) + 1 = n - x
            /\ (~(x + 1 <= n) => n - x = 0)
            /\ \A i \in 1..(n - x) : x + 1 + i - 1 = x + i
      OBVIOUS
    <3>2. l \in Nat /\ p \in 1..l /\ \A i \in 1..l : q[i] \in S
      BY <2>3
    <3> HIDE DEF l, S
    <3>3. \A i \in (p + 1)..l : q[i] \in S
      BY <3>1, <3>2
    <3>4. /\ SubSeq(q, p + 1, l) \in Seq(S)
          /\ Len(SubSeq(q, p + 1, l)) = IF p + 1 <= l THEN l - (p + 1) + 1 ELSE 0
          /\ \A i \in 1..(l - (p + 1) + 1) : SubSeq(q, p + 1, l)[i] = q[p + 1 + i - 1]
      BY <3>1, <3>2, <3>3, SubSeqProperties
    <3>5. b = SubSeq(q, p + 1, l)
      BY DEF l
    <3> HIDE DEF b
    <3>6. /\ b \in Seq(S) /\ Len(b) = l - p
          /\ \A i \in 1..(l - p) : b[i] = q[p + i]
      BY <3>1, <3>2, <3>4, <3>5
    <3> QED BY <3>6 DEF l, S
  <2> HIDE DEF a, b
  <2>6. /\ DOMAIN w = 1..(Len(q) - 1)
        /\ \A i \in 1..(p - 1) : w[i] = q[i]
        /\ \A i \in p..(Len(q) - 1) : w[i] = q[i + 1]
    <3>1. /\ Len(w) = Len(a) + Len(b) /\ w \in Seq(Range(q))
          /\ \A i \in 1..Len(a) : w[i] = a[i]
          /\ \A i \in 1..Len(b) : w[Len(a) + i] = b[i]
      <4> DEFINE S == Range(q)
      <4>1. a \in Seq(S) /\ b \in Seq(S)
        BY <2>4, <2>5
      <4> HIDE DEF S
      <4>2. /\ Len(a \o b) = Len(a) + Len(b) /\ a \o b \in Seq(S)
            /\ \A i \in 1..Len(a) : (a \o b)[i] = a[i]
            /\ \A i \in 1..Len(b) : (a \o b)[Len(a) + i] = b[i]
        BY <4>1, ConcatProperties
      <4> QED BY <2>2, <4>2 DEF S
    <3>2. DOMAIN w = 1..Len(w)
      BY <3>1, LenProperties
    <3>3. Len(w) = Len(q) - 1
      BY <2>3, <2>4, <2>5, <3>1
    <3>4. \A i \in p..(Len(q) - 1) :
            /\ i - (p - 1) \in 1..(Len(q) - p)
            /\ p - 1 + (i - (p - 1)) = i /\ p + (i - (p - 1)) = i + 1
      BY <2>3
    <3>5. ASSUME NEW i \in p..(Len(q) - 1)
          PROVE  w[i] = b[i - (p - 1)]
      <4> DEFINE j == i - (p - 1)
      <4>1. j \in 1..(Len(q) - p) /\ p - 1 + j = i
        BY <3>4
      <4> HIDE DEF j
      <4>2. w[p - 1 + j] = b[j]
        BY <2>4, <2>5, <3>1, <4>1
      <4> QED BY <4>1, <4>2 DEF j
    <3> QED BY <2>4, <2>5, <3>1, <3>2, <3>3, <3>4, <3>5
  <2>7. \A i \in Verdicts(q) : i \in 1..Len(q) /\ i # p /\ q[i].kind = "done"
    BY <2>1, <2>3 DEF Verdicts
  <2>8. g \in [Verdicts(q) -> Verdicts(w)]
    <3> SUFFICES ASSUME NEW i \in Verdicts(q)
                 PROVE  g[i] \in DOMAIN w /\ w[g[i]].kind = "done"
      BY DEF Verdicts
    <3>1. CASE i < p
      <4>1. g[i] = i
        BY <3>1
      <4>2. i \in 1..(p - 1) /\ i \in 1..(Len(q) - 1)
        BY <2>3, <2>7, <3>1
      <4> QED BY <2>6, <2>7, <4>1, <4>2
    <3>2. CASE ~(i < p)
      <4>1. g[i] = i - 1
        BY <3>2
      <4>2. i - 1 \in p..(Len(q) - 1) /\ i - 1 \in 1..(Len(q) - 1) /\ i - 1 + 1 = i
        BY <2>3, <2>7, <3>2
      <4> QED BY <2>6, <2>7, <4>1, <4>2
    <3> QED BY <3>1, <3>2
  <2>9. \A i, j \in Verdicts(q) : g[i] = g[j] => i = j
    <3>1. \A i, j \in 1..Len(q) :
            i # p /\ j # p
              /\ (IF i < p THEN i ELSE i - 1) = (IF j < p THEN j ELSE j - 1) => i = j
      BY <2>3
    <3> QED BY <2>7, <3>1
  <2> HIDE DEF g
  <2> QED BY <1>2, <2>8, <2>9, Injected DEF w
<1> QED BY <1>3, <1>4

----------------------------------------------------------------------------
\* The verdicts given up, in a window after another.
LEMMA LostMoves ==
  ASSUME NEW o, IsWindow(o), NEW w, NEW s \in Nat,
         \A k \in LostVerdicts(w) : k \in Nat /\ k + s \in LostVerdicts(o)
  PROVE  /\ Cardinality(LostVerdicts(w)) \in Nat /\ Cardinality(LostVerdicts(o)) \in Nat
         /\ Cardinality(LostVerdicts(w)) <= Cardinality(LostVerdicts(o))
<1> DEFINE g == [k \in LostVerdicts(w) |-> k + s]
<1>1. g \in [LostVerdicts(w) -> LostVerdicts(o)]
  OBVIOUS
<1>2. \A i, j \in LostVerdicts(w) : g[i] = g[j] => i = j
  <2>1. \A i, j \in Nat : i + s = j + s => i = j
    OBVIOUS
  <2> QED BY <2>1
<1>3. IsFiniteSet(LostVerdicts(o))
  BY PlacesFinite DEF LostVerdicts, IsWindow
<1> HIDE DEF g
<1> QED BY <1>1, <1>2, <1>3, Injected

\* No more verdicts are given up in w than in o.
FewerLost(o, w) ==
  /\ Cardinality(LostVerdicts(w)) \in Nat /\ Cardinality(LostVerdicts(o)) \in Nat
  /\ Cardinality(LostVerdicts(w)) <= Cardinality(LostVerdicts(o))

LEMMA FewerSelf ==
  ASSUME NEW o, IsWindow(o)
  PROVE  FewerLost(o, o)
<1>1. Cardinality(LostVerdicts(o)) \in Nat
  BY PlacesFinite DEF LostVerdicts, IsWindow
<1> QED BY <1>1 DEF FewerLost

LEMMA FewerTransitive ==
  ASSUME NEW o, NEW w, NEW x, FewerLost(o, w), FewerLost(w, x)
  PROVE  FewerLost(o, x)
BY DEF FewerLost

\* Changing states gives up no verdict, if none of the entries that are given
\* up is one.
LEMMA SettledFewer ==
  ASSUME NEW o, IsWindow(o), NEW S, NEW new,
         \A k \in DOMAIN o : k \in S => new[o[k].state] \in States,
         \A k \in DOMAIN o : k \in S /\ new[o[k].state] = "lost" => o[k].item.kind # "done"
  PROVE  FewerLost(o, Settled(o, S, new))
<1> DEFINE w == Settled(o, S, new)
<1>1. PICK s \in Nat : \A k \in DOMAIN w :
        /\ k + s \in DOMAIN o
        /\ w[k].item = o[k + s].item /\ w[k].bulk = o[k + s].bulk
        /\ w[k].state = IF k + s \in S THEN new[o[k + s].state] ELSE o[k + s].state
  BY SettledMoves
<1>2. IsWindow(w)
  BY SettledMembers
<1> HIDE DEF w
<1>3. \A k \in LostVerdicts(w) : k \in Nat /\ k + s \in LostVerdicts(o)
  <2>1. \A k \in DOMAIN w : k \in Nat
    BY <1>2, WindowMembers
  <2> QED BY <1>1, <2>1 DEF LostVerdicts
<1>4. FewerLost(o, w)
  BY <1>3, LostMoves DEF FewerLost
<1> QED BY <1>4 DEF w

LEMMA AckedFewer ==
  ASSUME NEW o, IsWindow(o), NEW k \in Outstanding(o)
  PROVE  FewerLost(o, Acked(o, k))
<1> DEFINE new == [open |-> "acked", passed |-> "gone"]
<1>1. o[k].state \in {"open", "passed"}
  BY DEF Outstanding
<1>2. new[o[k].state] \in {"acked", "gone"}
  BY <1>1
<1>3. Acked(o, k) = Settled(o, {k}, new)
  BY DEF Acked
<1> HIDE DEF new
<1> QED BY <1>2, <1>3, SettledFewer DEF States

LEMMA HandedUpFewer ==
  ASSUME NEW o, IsWindow(o), NEW b \in DOMAIN o, o[b].state \in {"open", "acked", "lost"}
  PROVE  FewerLost(o, HandedUp(o, b))
<1> DEFINE new == [open |-> "passed", acked |-> "gone", lost |-> "gone"]
           S == {i \in 1..b : i = b \/ o[i].state = "lost"}
<1>1. \A i \in S : o[i].state \in {"open", "acked", "lost"}
  OBVIOUS
<1>2. \A i \in S : new[o[i].state] \in {"passed", "gone"}
  <2> HIDE DEF S
  <2> QED BY <1>1
<1>3. HandedUp(o, b) = Settled(o, S, new)
  BY DEF HandedUp
<1> HIDE DEF new, S
<1> QED BY <1>2, <1>3, SettledFewer DEF States

\* A purge gives up the node's own items, which are no verdicts.
LEMMA PurgedFewer ==
  ASSUME NEW o, IsWindow(o), \A k \in Bulk(o) : o[k].item.kind # "done"
  PROVE  FewerLost(o, GivenUp(o, OwnEntries(o)))
<1> DEFINE new == [open |-> "lost", passed |-> "gone"]
           S == OwnEntries(o)
<1>1. \A k \in S : o[k].state \in {"open", "passed"} /\ k \in DOMAIN o /\ o[k].bulk
  BY DEF OwnEntries, Outstanding
<1>2. \A k \in S : new[o[k].state] \in {"lost", "gone"} /\ k \in Bulk(o)
  <2>1. \A k \in DOMAIN o : o[k].bulk \in BOOLEAN
    BY WindowMembers DEF IsEntry
  <2> HIDE DEF S
  <2> QED BY <1>1, <2>1 DEF Bulk
<1>3. GivenUp(o, OwnEntries(o)) = Settled(o, S, new)
  BY DEF GivenUp
<1> HIDE DEF new, S
<1> QED BY <1>2, <1>3, SettledFewer DEF States

\* An item sent is not given up.
LEMMA AppendFewer ==
  ASSUME NEW o, IsWindow(o), NEW e, e.state = "open"
  PROVE  FewerLost(o, Append(o, e))
<1> DEFINE w == Append(o, e)
<1>1. PICK N \in Nat :
        /\ w[N] = e /\ DOMAIN w = DOMAIN o \cup {N}
        /\ \A k \in DOMAIN o : k < N /\ w[k] = o[k]
  BY AppendWindow
<1> HIDE DEF w
<1>2. \A k \in LostVerdicts(w) : k \in Nat /\ k + 0 \in LostVerdicts(o)
  <2>1. \A k \in LostVerdicts(w) : k \in LostVerdicts(o)
    BY <1>1 DEF LostVerdicts
  <2>2. \A k \in LostVerdicts(o) : k \in Nat /\ k + 0 = k
    BY WindowMembers DEF LostVerdicts
  <2> QED BY <2>1, <2>2
<1>3. FewerLost(o, w)
  BY <1>2, LostMoves DEF FewerLost
<1> QED BY <1>3 DEF w

----------------------------------------------------------------------------
\* What a step leaves of the verdicts owed.
Owes(q) == Cardinality(Verdicts(q))

KeepsOwed(q, p) == Owes(q) \in Nat /\ Owes(p) \in Nat /\ Owes(p) >= Owes(q)

Kept ==
  \A n \in Nodes :
    /\ KeepsOwed(hi[n], hi'[n]) \/ Pump(n)
    /\ FewerLost(out[n], out'[n]) \/ lost' > lost

LEMMA OwedSelf ==
  ASSUME NEW q, IsSeq(q)
  PROVE  KeepsOwed(q, q)
<1>1. Owes(q) \in Nat
  BY PlacesFinite DEF Owes, Verdicts
<1> QED BY <1>1 DEF KeepsOwed

\* What Inv says of queues and windows.
LEMMA QueuesAndWindows ==
  ASSUME Inv, Course
  PROVE  /\ hi = [n \in Nodes |-> hi[n]] /\ out = [n \in Nodes |-> out[n]]
         /\ \A n \in Nodes : IsSeq(hi[n]) /\ IsWindow(out[n])
         /\ \A n \in Nodes : KeepsOwed(hi[n], hi[n]) /\ FewerLost(out[n], out[n])
         /\ \A n \in Nodes : \A k \in Bulk(out[n]) : out[n][k].item.kind # "done"
<1>1. /\ hi = [n \in Nodes |-> hi[n]] /\ out = [n \in Nodes |-> out[n]]
      /\ \A n \in Nodes : IsSeq(hi[n]) /\ IsWindow(out[n])
  BY DEF Inv, Shape
<1>2. \A n \in Nodes : KeepsOwed(hi[n], hi[n]) /\ FewerLost(out[n], out[n])
  BY <1>1, OwedSelf, FewerSelf
<1>3. \A n \in Nodes : \A k \in Bulk(out[n]) : out[n][k].item \in Items
  BY BulkKnown
<1>4. \A x \in Items : x.kind # "done"
  BY DEF Items, Header, EndMark, Fragment
<1> QED BY <1>1, <1>2, <1>3, <1>4

LEMMA PumpKept ==
  ASSUME Inv, Course, NEW n \in Nodes, Pump(n)
  PROVE  Kept
<1>1. /\ hi = [m \in Nodes |-> hi[m]] /\ out = [m \in Nodes |-> out[m]]
      /\ \A m \in Nodes : IsWindow(out[m])
      /\ \A m \in Nodes : KeepsOwed(hi[m], hi[m]) /\ FewerLost(out[m], out[m])
  BY QueuesAndWindows
<1>2. /\ \A m \in Nodes : m # n => hi'[m] = hi[m]
      /\ \E e : e.state = "open" /\ out' = [out EXCEPT ![n] = Append(out[n], e)]
  <2>1. CASE /\ hi' = [hi EXCEPT ![n] = Tail(@)]
             /\ out' = [out EXCEPT ![n] = Append(@, [item |-> Head(hi[n]),
                                     bulk |-> FALSE, state |-> "open"])]
    <3> DEFINE e == [item |-> Head(hi[n]), bulk |-> FALSE, state |-> "open"]
    <3>1. e.state = "open"
      OBVIOUS
    <3>2. out' = [out EXCEPT ![n] = Append(out[n], e)]
      BY <2>1
    <3> HIDE DEF e
    <3> QED BY <1>1, <2>1, <3>1, <3>2
  <2>2. CASE /\ UNCHANGED hi
             /\ out' = [out EXCEPT ![n] = Append(@, [item |-> Head(bulk[n]),
                                     bulk |-> TRUE, state |-> "open"])]
    <3> DEFINE e == [item |-> Head(bulk[n]), bulk |-> TRUE, state |-> "open"]
    <3>1. e.state = "open"
      OBVIOUS
    <3>2. out' = [out EXCEPT ![n] = Append(out[n], e)]
      BY <2>2
    <3> HIDE DEF e
    <3> QED BY <2>2, <3>1, <3>2
  <2> QED BY <2>1, <2>2 DEF Pump
<1>3. PICK e : e.state = "open" /\ out' = [out EXCEPT ![n] = Append(out[n], e)]
  BY <1>2
<1>4. FewerLost(out[n], Append(out[n], e))
  BY <1>1, <1>3, AppendFewer
<1>5. \A m \in Nodes : FewerLost(out[m], out'[m])
  BY <1>1, <1>3, <1>4
<1> QED BY <1>1, <1>2, <1>5 DEF Kept

LEMMA AckKept ==
  ASSUME Inv, Course, NEW n \in Nodes, NEW k, Ack(n, k)
  PROVE  Kept
<1>1. /\ out = [m \in Nodes |-> out[m]] /\ IsWindow(out[n])
      /\ \A m \in Nodes : KeepsOwed(hi[m], hi[m]) /\ FewerLost(out[m], out[m])
  BY QueuesAndWindows
<1>2. /\ k \in Outstanding(out[n]) /\ hi' = hi
      /\ out' = [out EXCEPT ![n] = Acked(out[n], k)]
  BY DEF Ack
<1>3. FewerLost(out[n], Acked(out[n], k))
  BY <1>1, <1>2, AckedFewer
<1>4. \A m \in Nodes : FewerLost(out[m], out'[m])
  BY <1>1, <1>2, <1>3
<1> QED BY <1>1, <1>2, <1>4 DEF Kept

\* Giving an item up counts.
LEMMA GiveUpKept ==
  ASSUME Inv, Course, lost \in Nat, NEW n \in Nodes, NEW k, GiveUp(n, k)
  PROVE  Kept
<1>1. \A m \in Nodes : KeepsOwed(hi[m], hi[m])
  BY QueuesAndWindows
<1>2. hi' = hi /\ lost' > lost
  BY DEF GiveUp
<1> QED BY <1>1, <1>2 DEF Kept

\* A purge while an item is handed up.
LEMMA PurgeKept ==
  ASSUME Inv, Course, NEW o, Follows(o), \A n \in Nodes : FewerLost(out[n], o[n]),
         NEW m \in Nodes, NEW more, Purge(m, o, more)
  PROVE  \A n \in Nodes : FewerLost(out[n], out'[n])
<1> DEFINE w == GivenUp(o[m], OwnEntries(o[m]))
<1>1. /\ o = [n \in Nodes |-> o[n]] /\ IsWindow(o[m]) /\ Keeps(out[m], o[m])
  BY DEF Follows, Narrows
<1>2. out' = [o EXCEPT ![m] = w]
  BY DEF Purge
<1>3. \A k \in Bulk(o[m]) : o[m][k].item.kind # "done"
  <2>1. \A k \in Bulk(o[m]) : o[m][k] \in Range(o[m]) /\ o[m][k].bulk = TRUE
    BY <1>1, WindowMembers DEF Bulk
  <2>2. \A d \in Range(out[m]) : d.bulk = TRUE => d.item.kind # "done"
    <3>1. IsWindow(out[m]) /\ \A k \in Bulk(out[m]) : out[m][k].item.kind # "done"
      BY QueuesAndWindows
    <3> QED BY <3>1, WindowMembers DEF Bulk
  <2> QED BY <1>1, <2>1, <2>2 DEF Keeps
<1>4. FewerLost(o[m], w)
  BY <1>1, <1>3, PurgedFewer
<1> HIDE DEF w
<1>5. FewerLost(out[m], w)
  BY <1>4, FewerTransitive
<1> QED BY <1>1, <1>2, <1>5

\* The receiver's replies at the end mark.
LEMMA OnEndOwes ==
  ASSUME Inv, Course, NEW o, NEW m \in Nodes, NEW item, OnEnd(m, item, o)
  PROVE  \A n \in Nodes : KeepsOwed(hi[n], hi'[n])
<1>1. /\ hi = [n \in Nodes |-> hi[n]] /\ IsSeq(hi[m])
      /\ \A n \in Nodes : KeepsOwed(hi[n], hi[n])
  BY QueuesAndWindows
<1>2. \/ hi' = hi
      \/ \E r : hi' = [hi EXCEPT ![m] = <<r>> \o hi[m]]
      \/ \E r : hi' = [hi EXCEPT ![m] = <<r>> \o WithoutNack(hi[m])]
  BY DEF OnEnd
<1>3. \A r : KeepsOwed(hi[m], <<r>> \o hi[m])
  BY <1>1, VerdictsFirst DEF KeepsOwed, Owes
<1>4. \A r : KeepsOwed(hi[m], <<r>> \o WithoutNack(hi[m]))
  <2> SUFFICES ASSUME NEW r
               PROVE  KeepsOwed(hi[m], <<r>> \o WithoutNack(hi[m]))
    OBVIOUS
  <2>1. KeepsOwed(hi[m], WithoutNack(hi[m])) /\ IsSeq(WithoutNack(hi[m]))
    BY <1>1, VerdictsWithoutNack, WithoutNackMembers DEF KeepsOwed, Owes
  <2> DEFINE p == WithoutNack(hi[m])
             q == <<r>> \o p
  <2> HIDE DEF p
  <2>2. KeepsOwed(p, q)
    BY <2>1, VerdictsFirst DEF KeepsOwed, Owes, p
  <2> HIDE DEF q
  <2>3. KeepsOwed(hi[m], q)
    BY <2>1, <2>2 DEF KeepsOwed, p
  <2>4. KeepsOwed(hi[m], <<r>> \o p)
    BY <2>3 DEF q
  <2> QED BY <2>4, Zenon DEF p
<1>5. \A n \in Nodes : \A x : hi' = [hi EXCEPT ![m] = x]
                                => hi'[n] = IF n = m THEN x ELSE hi[n]
  BY <1>1
<1>6. ASSUME NEW x, hi' = [hi EXCEPT ![m] = x], KeepsOwed(hi[m], x)
      PROVE  \A n \in Nodes : KeepsOwed(hi[n], hi'[n])
  <2> SUFFICES ASSUME NEW n \in Nodes PROVE KeepsOwed(hi[n], hi'[n])
    OBVIOUS
  <2>1. n # m => hi'[n] = hi[n]
    BY <1>5, <1>6
  <2>2. n = m => hi'[n] = x
    BY <1>5, <1>6
  <2> QED BY <1>1, <1>6, <2>1, <2>2
<1> QED BY <1>1, <1>2, <1>3, <1>4, <1>6

LEMMA DeliverKept ==
  ASSUME Inv, Course, NEW n \in Nodes, NEW k, Deliver(n, k)
  PROVE  Kept
<1> DEFINE item == out[n][k].item
           o == [out EXCEPT ![n] = HandedUp(out[n], k)]
           m == Peer(n)
<1>1. /\ \/ OnStart(m, item, o) \/ OnData(m, item, o) \/ OnEnd(m, item, o)
         \/ OnNack(m, item, o)  \/ OnDone(m, item, o)
      /\ k \in DOMAIN out[n] /\ out[n][k].state \in {"open", "acked", "lost"}
  BY DEF Deliver
<1>2. /\ out = [x \in Nodes |-> out[x]] /\ IsWindow(out[n])
      /\ \A x \in Nodes : KeepsOwed(hi[x], hi[x]) /\ FewerLost(out[x], out[x])
  BY QueuesAndWindows
<1>3. Follows(o) /\ m \in Nodes
  BY DeliverHands, PeerIsNode DEF HandsUp
<1>4. \A x \in Nodes : FewerLost(out[x], o[x])
  <2>1. FewerLost(out[n], HandedUp(out[n], k))
    BY <1>1, <1>2, HandedUpFewer
  <2> QED BY <1>2, <2>1
<1> HIDE DEF o, item, m
<1>5. ASSUME NEW more, Purge(m, o, more)
      PROVE  \A x \in Nodes : FewerLost(out[x], out'[x])
  BY <1>3, <1>4, <1>5, PurgeKept
<1>6. \A x \in Nodes : FewerLost(out[x], out'[x])
  <2>1. out' = o \/ Purge(m, o, << >>)
    BY <1>1 DEF OnStart, OnData, OnEnd, OnNack, OnDone
  <2> QED BY <1>4, <1>5, <2>1
<1>7. \A x \in Nodes : KeepsOwed(hi[x], hi'[x])
  <2>1. CASE OnEnd(m, item, o)
    BY <1>3, <2>1, OnEndOwes
  <2>2. CASE ~OnEnd(m, item, o)
    <3>1. hi' = hi
      BY <1>1, <2>2 DEF OnStart, OnData, OnNack, OnDone
    <3> QED BY <1>2, <3>1
  <2> QED BY <2>1, <2>2
<1> QED BY <1>6, <1>7 DEF Kept

\* Only a restart, which begins a life, takes anything else away.
LEMMA NextKept ==
  ASSUME Inv, Course, lost \in Nat, Next, lives' = lives
  PROVE  Kept
<1>1. ASSUME hi' = hi, out' = out PROVE Kept
  BY <1>1, QueuesAndWindows DEF Kept
<1>2. ASSUME NEW n \in Nodes, NEW f \in Files, SendFile(n, f) PROVE Kept
  BY <1>1, <1>2 DEF SendFile
<1>3. ASSUME NEW n \in Nodes, Wait(n) \/ Expire(n) \/ NoSession(n) PROVE Kept
  BY <1>1, <1>3 DEF Wait, Expire, NoSession
<1>4. ASSUME NEW n \in Nodes, Restart(n) PROVE FALSE
  <2>1. lives \in [Nodes -> Nat] /\ lives' = [lives EXCEPT ![n] = @ + 1]
    BY <1>4 DEF Course, Archive, Restart
  <2>2. lives[n] \in Nat /\ lives'[n] = lives[n] + 1
    BY <2>1
  <2> QED BY <2>2
<1>5. PICK n \in Nodes :
        \/ \E f \in Files : SendFile(n, f)
        \/ Pump(n)
        \/ \E k \in DOMAIN out[n] : Ack(n, k)
        \/ \E k \in DOMAIN out[n] : GiveUp(n, k)
        \/ \E k \in DOMAIN out[n] : Deliver(n, k)
        \/ Wait(n) \/ Expire(n) \/ NoSession(n)
        \/ Restart(n)
  BY DEF Next
<1> QED BY <1>2, <1>3, <1>4, <1>5, PumpKept, AckKept, GiveUpKept, DeliverKept

\* The number of items given up is a number.
LEMMA LostCounts ==
  /\ Init => lost \in Nat
  /\ lost \in Nat /\ [Next]_vars => lost' \in Nat
<1>1. ASSUME [Next]_vars PROVE lost' = lost \/ lost' = lost + 1
  <2>1. \A n \in Nodes :
          /\ Pump(n) \/ Wait(n) \/ Expire(n) \/ NoSession(n) \/ Restart(n) => lost' = lost
          /\ \A f : SendFile(n, f) => lost' = lost
          /\ \A k : Ack(n, k) \/ Deliver(n, k) => lost' = lost
    BY DEF SendFile, Pump, Ack, Deliver, Wait, Expire, NoSession, Restart
  <2>2. \A n \in Nodes : \A k : GiveUp(n, k) => lost' = lost + 1
    BY DEF GiveUp
  <2>3. UNCHANGED vars => lost' = lost
    BY DEF vars
  <2> QED BY <1>1, <2>1, <2>2, <2>3 DEF Next
<1> QED BY <1>1 DEF Init

\* The verdicts a node owes its peer stay, in the queue and in the window,
\* however its own transfer ends (_purge_file_queue).
THEOREM OwedStay == Spec => VerdictsKept
<1> DEFINE Left(n) ==
             /\ \/ Cardinality(Verdicts(hi[n])') >= Cardinality(Verdicts(hi[n]))
                \/ Pump(n)
             /\ Cardinality(Withdrawn(n)') > Cardinality(Withdrawn(n)) => lost' > lost
<1>1. Inv /\ Course /\ lost \in Nat /\ [Next]_vars
        => [\A n \in Nodes : lives' = lives => Left(n)]_vars
  <2> SUFFICES ASSUME Inv, Course, lost \in Nat, Next, lives' = lives, NEW n \in Nodes
               PROVE  Left(n)
    OBVIOUS
  <2>1. /\ KeepsOwed(hi[n], hi'[n]) \/ Pump(n)
        /\ FewerLost(out[n], out'[n]) \/ lost' > lost
    BY NextKept DEF Kept
  <2>2. /\ Verdicts(hi[n])' = Verdicts(hi'[n])
        /\ Withdrawn(n) = LostVerdicts(out[n]) /\ Withdrawn(n)' = LostVerdicts(out'[n])
    BY DEF Verdicts, Withdrawn, LostVerdicts
  <2>3. \A a, b \in Nat : a <= b => ~(a > b)
    OBVIOUS
  <2> QED BY <2>1, <2>2, <2>3 DEF KeepsOwed, Owes, FewerLost
<1>2. Init => Inv /\ Course /\ lost \in Nat
  BY InitInv, InitCourse, LostCounts
<1>3. (Inv /\ Course /\ lost \in Nat) /\ [Next]_vars => (Inv /\ Course /\ lost \in Nat)'
  BY NextInv, NextCourse, LostCounts
<1> QED BY <1>1, <1>2, <1>3, PTL DEF Spec, VerdictsKept

=============================================================================
